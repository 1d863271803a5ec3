------------------------------ MODULE MCDrafts ------------------------------
EXTENDS DraftReader

\* A stream of one delta for each segment; users replace the first.
MCStreams == {[s \in Segments |-> <<<<"a">>>>]}
MCTyped == [s \in Segments |-> IF s = 1 THEN {<<"x">>} ELSE {}]

\* The view of a job only reads: it is not opened beside an editor, whose steps
\* it could not tell from those of a caller; after a commit under an open view
\* its property says nothing more, and the store rests.
MCNext ==
  /\ ReaderNext
  /\ open' = {} \/ feed' = Idle
  /\ feed # Idle /\ ~calm => UNCHANGED storeVars
MCSpec == ReaderInit /\ [][MCNext]_allDraftVars
=============================================================================
