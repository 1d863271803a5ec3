------------------------------- MODULE MCTexts -------------------------------
(***************************************************************************)
(* Small instances of three components that share no state: the job list   *)
(* of a browser, the text of a chapter, the parts and subtitles of its     *)
(* master.  One run checks them side by side: each behaviour is one of one *)
(* of them, for interleaving steps that touch nothing in common reaches    *)
(* nothing new.                                                            *)
(***************************************************************************)
EXTENDS JobFeed, ChapterText, Mastering, TLC

\* No retry is granted by the queue itself (MaxRetryableAttempt = 0).
MCRetryDelays == [n \in 1..MaxRetryableAttempt |-> 1]

\* A text that is an issue from the start, and one the next glossary makes one.
MCFlagged == [c \in 0..MaxContext |-> IF c = 0 THEN {"flagged"} ELSE {"flagged", "other"}]
MCAnswers == [Segments -> {"first", "flagged"}]

\* At first every segment is one long; one of them is synthesized again, by a job or
\* by a pass.
MCPasses ==
  /\ \A i, j \in DOMAIN script :
       /\ script[i].version = 1 => script[i].length = 1
       /\ i # j => script[i].version = 1 \/ script[j].version = 1
  /\ pass # NoPass => Cardinality(pass.forced) =< 1

\* Nothing tells one source from another.
TextsSymmetry == Permutations(Sources)

\* The component a behaviour is about; the others stay in an initial state.
VARIABLE turn

TextsInit ==
  /\ turn \in {"feed", "text", "master"}
  /\ FeedInit /\ TextInit /\ MasteringInit
  /\ turn # "master" => Len(script) = 1 /\ script[1].estimate = 1

FeedStep == turn = "feed" /\ FeedNext /\ UNCHANGED <<turn, textVars, masteringVars>>
TextStep == turn = "text" /\ TextNext /\ UNCHANGED <<turn, feedAndQueue, masteringVars>>
MasteringStep == turn = "master" /\ MasteringNext /\ UNCHANGED <<turn, feedAndQueue, textVars>>

TextsVars == <<turn, feedAndQueue, textVars, masteringVars>>
TextsSpec == TextsInit /\ [][FeedStep \/ TextStep \/ MasteringStep]_TextsVars
=============================================================================
