-------------------------------- MODULE MCDesk --------------------------------
(***************************************************************************)
(* Small instances of five components that share no state: the purse, the  *)
(* previews of voices, the batches, the credentials of a provider and the  *)
(* audio that is served.  One run checks them side by side: each behaviour *)
(* is one of one of them, for interleaving steps that touch nothing in     *)
(* common reaches nothing new.                                             *)
(***************************************************************************)
EXTENDS Budget, Preview, Batch, Credentials, ArtifactContent, TLC

\* The purse, in real money: a unit costs 2000 VND, so 80 units are a large share of
\* the regular cap and 20 units of a reserve.  A provider measures what was asked
\* for, or nothing of a small call.
MCOverruns == {-20, 0}

ASSUME MCAssumption == ContingencyCovers

\* A batch is asked for when the list has come to rest; without one, all of the list.
BatchAfterList ==
  post[1] # Unposted =>
    /\ Generation = 1 /\ load[1] = Idle /\ Len(items) = 2
    /\ \A c \in Chapters : chapter[c] # Nobody => c \in ListedChapters /\ chapter[c].state = "NORMALIZED"

\* Three asks for a preview race with one another, or two of them with a crash.
CrashAmongTwo == deaths > 0 => ask[MaxAsks] = Unasked

MCHistory == BatchAfterList /\ CrashAmongTwo

\* The same two values stand for authorizations, sounds, threads and files: one
\* symmetry is cheaper than four.
DeskSymmetry == Permutations(Auths \cup Sounds \cup Threads \cup Files)

\* The component a behaviour is about; the others stay in an initial state.
VARIABLE turn

DeskInit ==
  /\ turn \in {"purse", "preview", "batch", "credentials", "content"}
  /\ BudgetInit /\ PreviewInit /\ BatchInit /\ CredentialsInit /\ ContentInit
  /\ turn # "batch" => chapter = [c \in Chapters |-> Nobody]
  /\ turn # "credentials" => profile = Missing
  /\ turn # "content" => size = [f \in Files |-> 0]

PurseStep ==
  /\ turn = "purse" /\ BudgetNext
  /\ UNCHANGED <<turn, previewVars, batchVars, credentialVars, contentVars>>

PreviewStep ==
  /\ turn = "preview" /\ PreviewNext
  /\ UNCHANGED <<turn, budgetVars, batchVars, credentialVars, contentVars>>

BatchStep ==
  /\ turn = "batch" /\ BatchNext
  /\ UNCHANGED <<turn, budgetVars, previewVars, credentialVars, contentVars>>

CredentialStep ==
  /\ turn = "credentials" /\ CredentialsNext
  /\ UNCHANGED <<turn, budgetVars, previewVars, batchVars, contentVars>>

ContentStep ==
  /\ turn = "content" /\ ContentNext
  /\ UNCHANGED <<turn, budgetVars, previewVars, batchVars, credentialVars>>

DeskVars == <<turn, budgetVars, previewVars, batchVars, credentialVars, contentVars>>
DeskNext == PurseStep \/ PreviewStep \/ BatchStep \/ CredentialStep \/ ContentStep
DeskSpec == DeskInit /\ [][DeskNext]_DeskVars
=============================================================================
