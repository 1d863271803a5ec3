--------------------------- MODULE MCWorkerDrafts ---------------------------
(***************************************************************************)
(* Small instances of two components that share no state: the worker, with *)
(* a translation and a synthesis, and the drafts of a chapter.  One run    *)
(* checks them side by side: each behaviour is one of one of them, for     *)
(* interleaving steps that touch nothing in common reaches nothing new.    *)
(***************************************************************************)
EXTENDS MCJobWorker, MCDrafts

\* The component a behaviour is about; the other stays in its initial state.
VARIABLE turn

WorkerDraftsInit == turn \in {"worker", "drafts"} /\ WorkerInit /\ ReaderInit

WorkerStep == turn = "worker" /\ WorkerNext /\ UNCHANGED <<turn, allDraftVars>>
DraftsStep == turn = "drafts" /\ MCNext /\ UNCHANGED <<turn, allVars>>

WorkerDraftsVars == <<turn, allVars, allDraftVars>>
WorkerDraftsSpec == WorkerDraftsInit /\ [][WorkerStep \/ DraftsStep]_WorkerDraftsVars
=============================================================================
