------------------------------- MODULE Budget -------------------------------
(***************************************************************************)
(* The purse of the studio: BudgetGuard of                                 *)
(* backend/app/modules/budgets/guard.py with the quota of quota.py, the    *)
(* CloudCallGuard of modules/compliance/cloud.py in front of it, and the   *)
(* discipline of the cloud speech adapters (providers/gemini_tts.py,       *)
(* google_tts.py, elevenlabs_tts.py): ask for admission, send, measure,    *)
(* settle.                                                                 *)
(*                                                                         *)
(* A reservation is a quote turned into a hold, in a transaction that      *)
(* inserts the hold before it adds anything up, so that SQLite's write     *)
(* lock orders all reservations.  Admission quotes the call again and      *)
(* compares.  A settlement reads the hold outside of its transaction and   *)
(* then writes; it takes less than a tick of the clock.                    *)
(*                                                                         *)
(* One provider, model and region with one rate card in one month; money   *)
(* is in VND and rounds up once, where the code rounds up twice.           *)
(***************************************************************************)
EXTENDS Integers, FiniteSets, FiniteSetsExt, Functions

CONSTANTS
  Auths,         \* ids a quote and its authorization share
  Operations,    \* operation ids
  Categories,    \* what a caller may name as category: any string
  Consents,      \* ids of cloud consents
  Callers,       \* sessions that use the adapters
  Usages,        \* units a caller may ask for
  Overruns,      \* what a provider may measure on top of what was asked for
  Price,         \* VND for a thousand units
  FreeUnits,     \* configured_units of the profile's quota
  QuoteTtl,      \* QUOTE_TTL_MINUTES, in ticks
  NoQuote,
  MaxRevision,   \* bound on edits of the provider profile
  MaxMishaps     \* bound on calls cut short by an error or a crash

ASSUME BudgetAssumption ==
  /\ Categories \subseteq STRING
  /\ Usages \subseteq Nat /\ Overruns \subseteq Int
  /\ Price \in Nat /\ FreeUnits \in Nat /\ QuoteTtl \in Nat \ {0}
  /\ MaxRevision \in Nat \ {0} /\ MaxMishaps \in Nat
  /\ IsFiniteSet(Auths) /\ IsFiniteSet(Categories)

HardLimit == 500000
RegularCap == 400000
ReserveLimits == [c \in {"QA_REPAIR", "RERENDER"} |-> 50000]

VARIABLES
  consent,    \* cloud_processing_consents.status, "NONE" before the row exists
  enabled,    \* provider_profiles.enabled
  revision,   \* provider_profiles.revision
  state,      \* of each authorization: "NONE", then "QUOTED" in memory, then its status
  quote,      \* what was quoted, bound by the quote hash
  ttl,        \* expires_at - now, 0 when it is past
  ledger,     \* usage_ledger
  call,       \* of each caller: the adapter's call it is in
  mishaps     \* how much of MaxMishaps is used up

terms == <<consent, enabled, revision>>
purse == <<state, quote, ttl, ledger>>
budgetVars == <<terms, purse, call, mishaps>>

Resting == [at |-> "idle", auth |-> NoQuote, units |-> 0]

-----------------------------------------------------------------------------
(* Money.                                                                  *)

CeilDiv(n, d) == -((-n) \div d)
Vnd(units) == CeilDiv(units * Price, 1000)
Contingency(estimate) == CeilDiv(estimate * 15, 100)
Total(a) == quote[a].estimate + Contingency(quote[a].estimate)

\* What a settlement bills for fits into its hold, whose quote left out what was free then.
ContingencyCovers ==
  \A units \in Usages, overrun \in Overruns, free \in 0..FreeUnits :
    LET estimate == Vnd(Max({0, units - free}))
    IN  units + overrun >= 0 => Vnd(units + overrun) <= estimate + Contingency(estimate)

VndOfRows(rows) == SumFunction([r \in rows |-> r.vnd])
RowsOf(operation) == {r \in ledger : r.operation = operation}

\* What the profile's quota leaves to be paid for.
Consumed == SumFunction([r \in ledger |-> r.units])
Billable(units) == Max({0, units - Max({0, FreeUnits - Consumed})})

\* What a hold or a settled authorization counts for, the holds and states given.
Counted(book, a) ==
  CASE book[a] = "HELD" -> IF ttl[a] > 0 THEN Total(a) ELSE 0
    [] book[a] = "COMMITTED" -> IF RowsOf(quote[a].operation) = {}
                                THEN Total(a)
                                ELSE VndOfRows(RowsOf(quote[a].operation))
    [] OTHER -> 0

CategoryTotal(book, category) ==
  LET entries == {a \in Auths : book[a] # "NONE" /\ quote[a].category = category}
  IN  SumFunction([a \in entries |-> Counted(book, a)])

\* Spending of operations without a settled authorization is counted from the ledger.
CommittedTotal(book) ==
  LET settled == {quote[a].operation : a \in {b \in Auths : book[b] = "COMMITTED"}}
  IN  SumFunction([a \in Auths |-> Counted(book, a)])
        + VndOfRows({r \in ledger : r.operation \notin settled})

\* The checks of authorize, after the hold of a has been inserted into the book.
WithinLimits(book, a) ==
  LET category == quote[a].category
  IN  /\ category \in DOMAIN ReserveLimits
           => CategoryTotal(book, category) <= ReserveLimits[category]
      /\ category = "REGULAR" => CommittedTotal(book) <= RegularCap
      /\ CommittedTotal(book) <= HardLimit

-----------------------------------------------------------------------------
(* Consents and the provider profile.                                      *)

Grant(k) ==
  /\ consent[k] = "NONE"
  /\ consent' = [consent EXCEPT ![k] = "GRANTED"]
  /\ UNCHANGED <<enabled, revision, purse, call, mishaps>>

Revoke(k) ==
  /\ consent[k] # "NONE"
  /\ consent' = [consent EXCEPT ![k] = "REVOKED"]
  /\ UNCHANGED <<enabled, revision, purse, call, mishaps>>

EditProfile(e) ==
  /\ revision < MaxRevision
  /\ revision' = revision + 1
  /\ enabled' = e
  /\ UNCHANGED <<consent, purse, call, mishaps>>

-----------------------------------------------------------------------------
(* Reservations.                                                           *)

\* The consent has its evidence, its policy snapshot and, through them, the rights.
Granted(k) == consent[k] = "GRANTED"

MayQuote(k) == enabled /\ Granted(k)

\* What a call is planned to be: the hash in the quote stands for all of it.
PlanHash(operation, category, units, k) ==
  [operation |-> operation, category |-> category, units |-> units, consent |-> k,
   revision |-> revision]

QuoteFor(operation, category, units, k) ==
  [operation |-> operation, category |-> category, estimate |-> Vnd(Billable(units)),
   plan |-> PlanHash(operation, category, units, k)]

\* CloudCallGuard.reserve up to the quote, which exists in memory only.
Prepare(a, operation, category, units, k) ==
  /\ state[a] = "NONE"
  /\ MayQuote(k)
  /\ quote' = [quote EXCEPT ![a] = QuoteFor(operation, category, units, k)]
  /\ state' = [state EXCEPT ![a] = "QUOTED"]
  /\ ttl' = [ttl EXCEPT ![a] = QuoteTtl]
  /\ UNCHANGED <<terms, ledger, call, mishaps>>

Hold(a) ==
  /\ state' = [state EXCEPT ![a] = "HELD"]
  /\ UNCHANGED <<quote, ttl>>

Drop(a) ==
  /\ state' = [state EXCEPT ![a] = "NONE"]
  /\ quote' = [quote EXCEPT ![a] = NoQuote]
  /\ ttl' = [ttl EXCEPT ![a] = 0]

\* A refusal rolls the insert back, and reserve drops the quote.
Authorize(a) ==
  /\ state[a] = "QUOTED"
  /\ IF ttl[a] > 0 /\ WithinLimits([state EXCEPT ![a] = "HELD"], a) THEN Hold(a) ELSE Drop(a)
  /\ UNCHANGED <<terms, ledger, call, mishaps>>

-----------------------------------------------------------------------------
(* Calls.                                                                  *)

Usable(a) == state[a] = "HELD" /\ ttl[a] > 0

QuoteHash(q) == <<q.operation, q.category, q.estimate, Contingency(q.estimate), q.plan>>
SameQuote(q, p) == q.estimate >= p.estimate /\ QuoteHash(q) = QuoteHash(p)

\* CloudCallGuard.evaluate: the call is quoted again and compared with the hold.
Admit(c, a, operation, category, units, k) ==
  /\ call[c] = Resting
  /\ MayQuote(k)
  /\ Usable(a)
  /\ SameQuote(quote[a], QuoteFor(operation, category, units, k))
  /\ call' = [call EXCEPT ![c] = [at |-> "admitted", auth |-> a, units |-> units]]
  /\ UNCHANGED <<terms, purse, mishaps>>

\* The request goes out; the provider charges for what it measures.
Charge(c, overrun) ==
  LET measured == call[c].units + overrun IN
  /\ call[c].at = "admitted"
  /\ measured >= 0
  /\ call' = [call EXCEPT ![c].at = "answered", ![c].units = measured]
  /\ UNCHANGED <<terms, purse, mishaps>>

\* Variant: a hold is settled however late.
MaySettleLate(a) == state[a] = "HELD"

MaySettle(a) == state[a] = "HELD" /\ ttl[a] > 0

\* commit_usage reads the authorization: settled already, refused, or to be written.
ReadHold(c) ==
  /\ call[c].at = "answered"
  /\ call' = [call EXCEPT ![c] = IF MaySettle(call[c].auth) THEN [@ EXCEPT !.at = "settling"]
                                                            ELSE Resting]
  /\ UNCHANGED <<terms, purse, mishaps>>

Settle(c) ==
  LET a == call[c].auth IN
  /\ call[c].at = "settling"
  /\ ledger' = ledger \union {[no |-> Cardinality(ledger) + 1, auth |-> a,
                               operation |-> quote[a].operation, units |-> call[c].units,
                               vnd |-> Vnd(call[c].units)]}
  /\ state' = [state EXCEPT ![a] = "COMMITTED"]
  /\ call' = [call EXCEPT ![c] = Resting]
  /\ UNCHANGED <<terms, quote, ttl, mishaps>>

\* release_authorization reads the hold, then writes.
ReadRelease(c, a) ==
  /\ call[c] = Resting
  /\ state[a] = "HELD"
  /\ call' = [call EXCEPT ![c] = [at |-> "releasing", auth |-> a, units |-> 0]]
  /\ UNCHANGED <<terms, purse, mishaps>>

Release(c) ==
  /\ call[c].at = "releasing"
  /\ state' = [state EXCEPT ![call[c].auth] = "RELEASED"]
  /\ call' = [call EXCEPT ![c] = Resting]
  /\ UNCHANGED <<terms, quote, ttl, ledger, mishaps>>

\* An error status, an answer that does not parse, a missing rate card, a crash.
Abandon(c) ==
  /\ call[c] # Resting
  /\ mishaps < MaxMishaps
  /\ mishaps' = mishaps + 1
  /\ call' = [call EXCEPT ![c] = Resting]
  /\ UNCHANGED <<terms, purse>>

Tick ==
  /\ \E a \in Auths : ttl[a] > 0
  /\ \A c \in Callers : call[c].at \notin {"settling", "releasing"}
  /\ ttl' = [a \in Auths |-> Max({0, ttl[a] - 1})]
  /\ UNCHANGED <<terms, state, quote, ledger, call, mishaps>>

-----------------------------------------------------------------------------
BudgetInit ==
  /\ consent = [k \in Consents |-> "NONE"]
  /\ enabled = TRUE /\ revision = 1
  /\ state = [a \in Auths |-> "NONE"]
  /\ quote = [a \in Auths |-> NoQuote]
  /\ ttl = [a \in Auths |-> 0]
  /\ ledger = {}
  /\ call = [c \in Callers |-> Resting]
  /\ mishaps = 0

CallStep(c) ==
  \/ \E a \in Auths, o \in Operations, g \in Categories, u \in Usages, k \in Consents :
        Admit(c, a, o, g, u, k)
  \/ \E n \in Overruns : Charge(c, n)
  \/ ReadHold(c)
  \/ Settle(c)
  \/ \E a \in Auths : ReadRelease(c, a)
  \/ Release(c)
  \/ Abandon(c)

ConsentRequest == \E k \in Consents : Grant(k) \/ Revoke(k)

BudgetNext ==
  \/ ConsentRequest
  \/ \E e \in BOOLEAN : EditProfile(e)
  \/ \E a \in Auths, o \in Operations, g \in Categories, u \in Usages, k \in Consents :
        Prepare(a, o, g, u, k)
  \/ \E a \in Auths : Authorize(a)
  \/ \E c \in Callers : CallStep(c)
  \/ Tick

BudgetSpec == BudgetInit /\ [][BudgetNext]_budgetVars

-----------------------------------------------------------------------------
(* Properties.                                                             *)

\* What is truly promised or recorded as spent in a category: every hold that can
\* still be settled, and every row of the ledger once.
Obligation(category) ==
  LET inCategory == {a \in Auths : state[a] # "NONE" /\ quote[a].category = category}
  IN  SumFunction([a \in {b \in inCategory : Usable(b)} |-> Total(a)])
        + VndOfRows({r \in ledger : r.auth \in inCategory})

\* No order of reserving, expiring and settling takes a category past its share or
\* all of them past the hard limit.
LimitsKept ==
  /\ Obligation("REGULAR") <= RegularCap
  /\ \A g \in DOMAIN ReserveLimits : Obligation(g) <= ReserveLimits[g]
  /\ SumFunction([g \in Categories |-> Obligation(g)]) <= HardLimit

=============================================================================
