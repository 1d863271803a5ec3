------------------------------- MODULE MCStudio -------------------------------
(***************************************************************************)
(* Small instances of two components that share no state: the files of the *)
(* studio and the knowledge of a project.  One run checks them side by     *)
(* side: each behaviour is one of one of them, for interleaving steps that *)
(* touch nothing in common reaches nothing new.                            *)
(***************************************************************************)
EXTENDS Vault, Knowledge, TLC

\* The files.  The more backups, the fewer artifacts, and a cleanup or a fault
\* leaves room for few of them.
FilesHistory ==
  /\ started + Cardinality({a \in Artifacts : row[a] # Nil \/ a \in live}) =< 4
  /\ plan # Nil \/ cleaning # Free => started =< 1
  /\ mp3 => started =< 1
  /\ faults > 0 => started =< 2

\* The knowledge: two chapters with the same text, one term in it; scopes are the
\* first chapter, or both.  The characters are seen alone.
MCTexts == [c \in Chapters |-> "text"]
MCMentions == [t \in {"text"} |-> Terms]
MCScopes == {[from |-> 1, to |-> 1], [from |-> 1, to |-> 2]}

KnowledgeHistory ==
  /\ people # {} => glossary = {} /\ memories = <<>> /\ runs = <<>>
  /\ Cardinality(glossary) + Len(memories) + Len(runs) + (IF index # None THEN 1 ELSE 0)
       + Cardinality({u \in Users : doing[u] # Idle}) =< 4

MCHistory == FilesHistory /\ KnowledgeHistory

\* The same two values stand for threads and for users: one symmetry is cheaper
\* than two.
StudioSymmetry == Permutations(Makers \cup Users)

\* The component a behaviour is about; the other stays in its initial state.
VARIABLE turn

StudioInit == turn \in {"files", "knowledge"} /\ VaultInit /\ KnowledgeInit

FilesStep == turn = "files" /\ VaultNext /\ UNCHANGED <<turn, knowledgeVars>>
KnowledgeStep == turn = "knowledge" /\ KnowledgeNext /\ UNCHANGED <<turn, vaultVars>>

StudioVars == <<turn, vaultVars, knowledgeVars>>
StudioSpec == StudioInit /\ [][FilesStep \/ KnowledgeStep]_StudioVars

=============================================================================
