----------------------------- MODULE Credentials -----------------------------
(***************************************************************************)
(* The secret of a provider profile, kept in two places that share no      *)
(* transaction: the row of the profile names where it is                   *)
(* (backend/app/api/cloud_profiles.py), the keyring of the operating       *)
(* system has it (modules/security/credentials.py).  A request changes the *)
(* keyring first and commits the row after; when the commit fails it puts  *)
(* back what the keyring had, which may fail as well.                      *)
(*                                                                         *)
(* Requests run in threads of the API, which may be killed.  A read of the *)
(* row opens no transaction, and an UPDATE writes the columns the request  *)
(* changed and no other.  One profile is followed.                         *)
(***************************************************************************)
EXTENDS Naturals

CONSTANTS
  Secrets,
  Threads,             \* requests at the same time
  MaxProfileRevision,  \* bound on revisions of the profile
  NoRequest,
  Missing              \* no row, no reference, no secret

Places == {"own", "legacy"}   \* what ref_for names, and a reference of an older release

KeptSecrets == Secrets \cup {Missing}
Refs == Places \cup {Missing}
ProfileRows == [secret_ref : Refs, revision : Nat]
Requests == [op : {"create", "put", "delete", "patch"}, secret : KeptSecrets, ref : Refs, revision : Nat,
             before : KeptSecrets, at : {"read", "changed"}, alone : BOOLEAN]

ASSUME CredentialsAssumption ==
  /\ MaxProfileRevision \in Nat
  /\ Missing \notin Secrets \cup Places \cup ProfileRows
  /\ NoRequest \notin Requests

VARIABLES
  profile,   \* the provider_profiles row
  keyring,   \* [Places -> secrets]
  request,   \* [Threads -> requests to the profile]
  told       \* what the user knows of the credential: configured, secret; for certain?

credentialVars == <<profile, keyring, request, told>>

ProviderProfile(ref, revision) == [secret_ref |-> ref, revision |-> revision]

Resolve(ring, ref) == IF ref = Missing THEN Missing ELSE ring[ref]

-----------------------------------------------------------------------------
(* A request that has the credential to itself, from its first read to its *)
(* answer, can be certain of what it says.  A patch does not touch it.     *)

Changing(t) == request[t] # NoRequest /\ request[t].op # "patch"

Quiet == \A t \in Threads : ~Changing(t)

Started(t, work) ==
  [u \in Threads |->
     IF u = t THEN work
     ELSE IF work.op # "patch" /\ Changing(u) THEN [request[u] EXCEPT !.alone = FALSE]
     ELSE request[u]]

Work(op, secret) ==
  [op |-> op, secret |-> secret, ref |-> profile.secret_ref, revision |-> profile.revision,
   before |-> Resolve(keyring, profile.secret_ref), at |-> "read", alone |-> Quiet]

Over(t) == request' = [request EXCEPT ![t] = NoRequest]

AnswerOf(t, configured, secret) ==
  told' = [configured |-> configured, secret |-> secret, certain |-> request[t].alone]

Unsure(t) == told' = [told EXCEPT !.certain = @ /\ request[t].alone]

-----------------------------------------------------------------------------
(* The routes.                                                             *)

\* A new profile, with a secret or without: the secret is stored under an id that
\* nobody knows yet.
CreateProfile(t, secret) ==
  /\ profile = Missing /\ Quiet
  /\ keyring' = IF secret = Missing THEN keyring ELSE [keyring EXCEPT !["own"] = secret]
  /\ request' = [request EXCEPT ![t] =
       [op |-> "create", secret |-> secret, ref |-> Missing, revision |-> 0,
        before |-> Missing, at |-> "changed", alone |-> TRUE]]
  /\ UNCHANGED <<profile, told>>

\* The row is read, and the secret it names.
Begin(t, op, secret) ==
  /\ profile # Missing /\ request[t] = NoRequest
  /\ profile.revision < MaxProfileRevision
  /\ request' = Started(t, Work(op, secret))
  /\ UNCHANGED <<profile, keyring, told>>

PutCredential(t, secret) == Begin(t, "put", secret)
DeleteCredential(t) == Begin(t, "delete", Missing)
PatchProfile(t) == Begin(t, "patch", Missing)

SetSecret(t) ==
  /\ request[t] # NoRequest /\ request[t].op = "put" /\ request[t].at = "read"
  /\ keyring' = [keyring EXCEPT !["own"] = request[t].secret]
  /\ request' = [request EXCEPT ![t].at = "changed"]
  /\ UNCHANGED <<profile, told>>

DeleteSecret(t) ==
  /\ request[t] # NoRequest /\ request[t].op = "delete" /\ request[t].at = "read"
  /\ keyring' = IF request[t].ref = Missing THEN keyring
                ELSE [keyring EXCEPT ![request[t].ref] = Missing]
  /\ request' = [request EXCEPT ![t].at = "changed"]
  /\ UNCHANGED <<profile, told>>

\* The keyring cannot be reached: 503, and nothing was changed.
KeyringUnavailable(t) ==
  /\ request[t] # NoRequest /\ request[t].at = "read" /\ request[t].op # "patch"
  /\ Over(t)
  /\ UNCHANGED <<profile, keyring, told>>

\* The reference is written when it is not the one that was read.
PutRef(work) == IF work.ref = "own" THEN profile.secret_ref ELSE "own"
DeleteRef(work) == IF work.ref = Missing THEN profile.secret_ref ELSE Missing

Commit(t) ==
  /\ request[t] # NoRequest
  /\ \/ /\ request[t].op = "create"
        /\ profile' = ProviderProfile(IF request[t].secret = Missing THEN Missing ELSE "own", 1)
        /\ AnswerOf(t, request[t].secret # Missing, request[t].secret)
     \/ /\ request[t].op = "put" /\ request[t].at = "changed"
        /\ profile' = ProviderProfile(PutRef(request[t]), request[t].revision + 1)
        /\ AnswerOf(t, TRUE, request[t].secret)
     \/ /\ request[t].op = "delete" /\ request[t].at = "changed"
        /\ profile' = ProviderProfile(DeleteRef(request[t]), request[t].revision + 1)
        /\ AnswerOf(t, FALSE, Missing)
     \/ /\ request[t].op = "patch"
        /\ profile' = ProviderProfile(profile.secret_ref, request[t].revision + 1)
        /\ UNCHANGED told
  /\ Over(t)
  /\ UNCHANGED keyring

\* Variant: a new secret is taken back only when it went to another place.
RestoreOrDeleteElsewhere(work) ==
  [place \in Places |->
     IF place = work.ref /\ work.before # Missing THEN work.before
     ELSE IF place = "own" /\ work.ref # "own" THEN Missing
     ELSE keyring[place]]

\* What a put did to the keyring is undone: the secret before is put back where it was,
\* the new one goes when it is in another place or there was none before.
RestoreOrDelete(work) ==
  [place \in Places |->
     IF place = work.ref /\ work.before # Missing THEN work.before
     ELSE IF place = "own" THEN Missing
     ELSE keyring[place]]

RestoreDeletedSecret(work) ==
  [place \in Places |->
     IF place = work.ref /\ work.before # Missing THEN work.before ELSE keyring[place]]

DeleteNewSecret(work) ==
  IF work.secret = Missing THEN keyring ELSE [keyring EXCEPT !["own"] = Missing]

Compensation(work) ==
  CASE work.op = "create" -> DeleteNewSecret(work)
    [] work.op = "put"    -> RestoreOrDelete(work)
    [] work.op = "delete" -> RestoreDeletedSecret(work)
    [] OTHER              -> keyring

\* The commit fails: 500, with the keyring as it was ...
CommitFails(t) ==
  /\ request[t] # NoRequest /\ request[t].at = "changed"
  /\ keyring' = Compensation(request[t])
  /\ Over(t)
  /\ Unsure(t)
  /\ UNCHANGED profile

\* ... or 503, when that fails too.
CompensationFails(t) ==
  /\ request[t] # NoRequest /\ request[t].at = "changed"
  /\ Over(t)
  /\ told' = [told EXCEPT !.certain = FALSE]
  /\ UNCHANGED <<profile, keyring>>

\* The API is killed in the middle of its requests.
ApiIsKilled ==
  /\ \E t \in Threads : request[t] # NoRequest
  /\ request' = [t \in Threads |-> NoRequest]
  /\ told' = [told EXCEPT !.certain = @ /\ \A t \in Threads : ~(Changing(t) /\ request[t].at = "changed")]
  /\ UNCHANGED <<profile, keyring>>

-----------------------------------------------------------------------------

\* No profile yet, or one of an older release, whose secret may be gone.
CredentialsInit ==
  /\ \/ profile = Missing /\ keyring = [place \in Places |-> Missing]
     \/ /\ profile \in {ProviderProfile(ref, 1) : ref \in Places \cup {Missing}}
        /\ keyring \in [Places -> Secrets \cup {Missing}]
        /\ \A place \in Places : place # profile.secret_ref => keyring[place] = Missing
  /\ request = [t \in Threads |-> NoRequest]
  /\ told = [configured |-> profile # Missing /\ profile.secret_ref # Missing,
             secret |-> IF profile = Missing THEN Missing
                        ELSE Resolve(keyring, profile.secret_ref),
             certain |-> TRUE]

CredentialsNext ==
  \/ \E t \in Threads :
       \/ \E secret \in Secrets \cup {Missing} : CreateProfile(t, secret)
       \/ \E secret \in Secrets : PutCredential(t, secret)
       \/ DeleteCredential(t) \/ PatchProfile(t)
       \/ SetSecret(t) \/ DeleteSecret(t) \/ KeyringUnavailable(t)
       \/ Commit(t) \/ CommitFails(t) \/ CompensationFails(t)
  \/ ApiIsKilled

CredentialsSpec == CredentialsInit /\ [][CredentialsNext]_credentialVars

-----------------------------------------------------------------------------

\* What the last request answered of the credential is so: configured means that the
\* profile names a place where that very secret is, and a request that was refused left
\* what was there before, whatever the profile was patched to meanwhile.  It holds for
\* requests that had the credential to themselves, and as long as what is to be put back
\* can be (cloud_profiles.py:214-223, 240-249).
CredentialAnswerHolds ==
  Quiet /\ told.certain /\ profile # Missing =>
    /\ told.configured <=> profile.secret_ref # Missing
    /\ told.secret = Resolve(keyring, profile.secret_ref)
=============================================================================
