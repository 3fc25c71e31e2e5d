------------------------------ MODULE HardBudget ------------------------------
(****************************************************************************)
(* The durable budget ledger: HardBudgetStore of                            *)
(* src/ylang/usage/hard_budget.py over the budget tables and triggers of    *)
(* migration 17 (src/ylang/core/migrations.py).                             *)
(*                                                                          *)
(* Every operation of the store runs in one BEGIN IMMEDIATE transaction     *)
(* that reads the clock after it holds SQLite's writer lock, so an          *)
(* operation is one action here, whichever thread, connection or process    *)
(* calls it.  A refused operation rolls back and is a stuttering step; the  *)
(* one refusal that commits first, the backward-clock freeze, is an action. *)
(*                                                                          *)
(* Left out: quote identities and digests (a malformed quote is refused     *)
(* like an expired one), ordinals, evidence documents (a replay that        *)
(* returns normally changes nothing) and the policy generation, which no    *)
(* code ever changes.                                                       *)
(****************************************************************************)
EXTENDS Nanos

CONSTANTS
    Attempts, Requests, Scopes, Rows,  \* identities of the four tables
    Amounts,                           \* bounds and charges of attempts
    Costs,                             \* costs of usage rows
    Limits, Openings,                  \* caps and opening liabilities
    Expiries,                          \* expiry instants of the quotes
    MaxBatch,                          \* bound on the size of a batch
    Day,                               \* the rolling window, in ticks
    MaxTime                            \* bound on the clock

ASSUME LedgerAssumption ==
    /\ IsFiniteSet(Attempts) /\ IsFiniteSet(Rows)
    /\ Amounts \subseteq Nanos /\ Costs \subseteq Nanos /\ Limits \subseteq Nanos /\ Openings \subseteq Nanos
    /\ Expiries \subseteq Nat
    /\ Day \in Nat /\ MaxTime \in Nat /\ MaxBatch \in Nat
    /\ Null \notin Int /\ Null \notin Requests \cup Scopes \cup Rows
    /\ Null \notin [limit : Nanos, opening : Nanos, watermark : 0..MaxTime,
                    frozen : {"no", "backward_clock",
                              "certified_bound_exceeded",
                              "contract_violation"}]

VARIABLES
    clock,      \* the UTC clock the store reads
    policy,     \* the row of budget_policies, or Null
    attempts,   \* budget_attempts, by attempt_id
    requests,   \* budget_requests, by request_id
    scopes,     \* budget_scopes, scope_id to limit_nanos
    usage       \* the usage table, as far as money is concerned

vars == <<clock, policy, attempts, requests, scopes, usage>>

-------------------------------------------------------------------------------
(* Tables *)

Time == 0..MaxTime

Policies == [limit : Nanos, opening : Nanos, watermark : Time,
             frozen : {"no", "backward_clock", "certified_bound_exceeded",
                       "contract_violation"}]

Unresolved == {"RESERVED", "DISPATCHING", "UNCERTAIN"}      \* _ACTIVE

AttemptRows ==
    [state : Unresolved \cup {"SETTLED", "CANCELLED", "BREACH"},
     request : Requests, bound : Nanos, charge : Nanos \cup {Null},
     dispatchedAt : Time \cup {Null}, expires : Nat, fence : Nat]

RequestRows == [scope : Scopes \cup {Null}, row : Rows \cup {Null}]

\* The row of a request sums up its charges, which no range check bounds.
UsageRows == [at : Time, cost : Nat]

Quotes == [bound : Amounts, expires : Expiries]

Linked == {requests[r].row : r \in DOMAIN requests}
AttemptsOf(r) == {a \in DOMAIN attempts : attempts[a].request = r}

-------------------------------------------------------------------------------
(* Exposure *)

\* (mutant) the window loses its first instant
InWindowOpen(at, since) == at > since

\* Charges and usage rows dated at or after `since' count.
InWindow(at, since) == at >= since

\* (mutant) an uncertain attempt no longer holds anything
LiabilityWithoutUncertain(row, since) ==
    CASE row.state \in {"RESERVED", "DISPATCHING"} -> row.bound
      [] row.state = "SETTLED" /\ InWindow(row.dispatchedAt, since) -> row.charge
      [] OTHER -> 0

\* What one attempt still costs the budget, counting settled charges whose
\* dispatch is not older than `since'.
Liability(row, since) ==
    CASE row.state \in Unresolved -> row.bound
      [] row.state = "BREACH" ->
             IF row.charge > row.bound THEN row.charge ELSE row.bound
      [] row.state = "SETTLED" /\ InWindow(row.dispatchedAt, since) -> row.charge
      [] OTHER -> 0

AttemptExposure(S, since) ==
    TotalOver([a \in S |-> Liability(attempts[a], since)], S)

\* Usage rows that no request is linked to count for a day.
UsageExposure(since) ==
    LET S == DOMAIN usage \ Linked
    IN  TotalOver([u \in S |-> IF InWindow(usage[u].at, since) THEN usage[u].cost ELSE 0],
                  S)

Exposure(now) ==
    policy.opening + AttemptExposure(DOMAIN attempts, now - Day)
                   + UsageExposure(now - Day)

\* A scope's cap is for its lifetime: settled charges never leave it.
ScopeMembers(s) ==
    {a \in DOMAIN attempts : requests[attempts[a].request].scope = s}
\* (mutant) the scope ages like the daily window
ScopeExposureRolling(s) == AttemptExposure(ScopeMembers(s), clock - Day)
ScopeExposure(s) == AttemptExposure(ScopeMembers(s), 0)

-------------------------------------------------------------------------------
(* Policy *)

InitializePolicy(limit, opening) ==
    /\ policy = Null
    /\ policy' = [limit |-> limit, opening |-> opening,
                  watermark |-> clock, frozen |-> "no"]
    /\ UNCHANGED <<clock, attempts, requests, scopes, usage>>

\* _policy, when it lets the caller go on; the watermark it writes is
\* committed with the rest of the caller's transaction.
PolicyOpen ==
    /\ policy # Null
    /\ clock >= policy.watermark
    /\ policy.frozen = "no"

AdvanceWatermark == policy' = [policy EXCEPT !.watermark = clock]

\* Any admission that reads a clock behind the watermark commits the freeze
\* before it refuses, whatever froze the policy before.
DetectBackwardClock ==
    /\ policy # Null
    /\ clock < policy.watermark
    /\ policy' = [policy EXCEPT !.frozen = "backward_clock"]
    /\ UNCHANGED <<clock, attempts, requests, scopes, usage>>

\* freeze keeps the first reason.
Freeze ==
    /\ policy # Null
    /\ policy.frozen = "no"
    /\ policy' = [policy EXCEPT !.frozen = "contract_violation"]
    /\ UNCHANGED <<clock, attempts, requests, scopes, usage>>

-------------------------------------------------------------------------------
(* Reservation *)

Requested(new, quote) == TotalOver([a \in new |-> quote[a].bound], new)

\* (mutant) only what is already out is compared with the limit
FitsDailyCapBefore(requested) == Exposure(clock) <= policy.limit

\* The whole batch fits in what the exposure leaves of the limit.
FitsDailyCap(requested) == Exposure(clock) + requested <= policy.limit

\* The checks every reservation passes, for the attempts `new' with their
\* quotes.
Admitted(new, quote) ==
    /\ PolicyOpen
    /\ new # {}
    /\ \A a \in new : quote[a].expires > clock
    /\ FitsDailyCap(Requested(new, quote))

InsertReserved(new, req, quote) ==
    attempts' = [a \in DOMAIN attempts \cup new |->
                    IF a \in new
                    THEN [state |-> "RESERVED", request |-> req[a],
                          bound |-> quote[a].bound, charge |-> Null,
                          dispatchedAt |-> Null, expires |-> quote[a].expires,
                          fence |-> 0]
                    ELSE attempts[a]]

\* One fresh logical request for each attempt, in scope s (or Null).
InsertRequests(new, req, s) ==
    /\ \A a, b \in new : req[a] = req[b] => a = b
    /\ requests' = [r \in DOMAIN requests \cup {req[a] : a \in new} |->
                       IF r \in DOMAIN requests THEN requests[r]
                       ELSE [scope |-> s, row |-> Null]]

\* reserve_many for new requests outside any scope.
Reserve(new, req, quote) ==
    /\ Admitted(new, quote)
    /\ AdvanceWatermark
    /\ InsertReserved(new, req, quote)
    /\ InsertRequests(new, req, Null)
    /\ UNCHANGED <<clock, scopes, usage>>

\* reserve_many with scope_limit_nanos: a new scope holds the whole batch.
ReserveScoped(new, req, quote, s, cap) ==
    /\ Admitted(new, quote)
    /\ Requested(new, quote) <= cap
    /\ AdvanceWatermark
    /\ scopes' = [t \in DOMAIN scopes \cup {s} |-> IF t = s THEN cap ELSE scopes[t]]
    /\ InsertReserved(new, req, quote)
    /\ InsertRequests(new, req, s)
    /\ UNCHANGED <<clock, usage>>

\* (mutant) an uncertain attempt counts as over
NoRunningAttempt(r) ==
    \A a \in AttemptsOf(r) : attempts[a].state \in {"SETTLED", "CANCELLED", "UNCERTAIN"}

\* A request takes another attempt while it is not finalized ...
NotFinalized(r) == requests[r].row = Null

\* ... and none of its attempts has an open outcome or broke its bound.
NoOpenAttempt(r) ==
    \A a \in AttemptsOf(r) : attempts[a].state \in {"SETTLED", "CANCELLED"}

\* reserve_many for one more attempt of an existing request, within the cap
\* of its scope.
Retry(a, r, quote) ==
    LET new == {a}
        q   == [b \in new |-> quote]
        s   == requests[r].scope
    IN  /\ Admitted(new, q)
        /\ NotFinalized(r)
        /\ s # Null => ScopeExposure(s) + Requested(new, q) <= scopes[s]
        /\ NoOpenAttempt(r)
        /\ AdvanceWatermark
        /\ InsertReserved(new, [b \in new |-> r], q)
        /\ UNCHANGED <<clock, requests, scopes, usage>>

-------------------------------------------------------------------------------
(* The life of an attempt.  `fence' is the fence of the caller's token. *)

BeginDispatch(a, fence) ==
    /\ PolicyOpen
    /\ attempts[a].state = "RESERVED" /\ attempts[a].fence = fence
    /\ attempts[a].expires > clock
    /\ AdvanceWatermark
    /\ attempts' = [attempts EXCEPT ![a].state = "DISPATCHING",
                                    ![a].fence = @ + 1,
                                    ![a].dispatchedAt = clock]
    /\ UNCHANGED <<clock, requests, scopes, usage>>

\* Neither the freeze nor the clock keeps a caller from cancelling.
Cancel(a, fence) ==
    /\ attempts[a].state = "RESERVED" /\ attempts[a].fence = fence
    /\ attempts' = [attempts EXCEPT ![a].state = "CANCELLED",
                                    ![a].fence = @ + 1]
    /\ UNCHANGED <<clock, policy, requests, scopes, usage>>

FreezeForBreach == policy' = [policy EXCEPT !.frozen = "certified_bound_exceeded"]

ExceedsBound(a, charge) == charge # Null /\ charge > attempts[a].bound

\* _terminal: an unknown charge keeps the hold, a charge above the bound
\* freezes the policy.
Terminal(a, charge) ==
    LET breach == ExceedsBound(a, charge)
        state  == IF charge = Null THEN "UNCERTAIN"
                  ELSE IF breach THEN "BREACH" ELSE "SETTLED"
    IN  /\ attempts' = [attempts EXCEPT ![a].state = state,
                                        ![a].charge = charge,
                                        ![a].fence = @ + 1]
        /\ IF breach THEN FreezeForBreach ELSE UNCHANGED policy
        /\ UNCHANGED <<clock, requests, scopes, usage>>

Settle(a, fence, charge) ==
    /\ attempts[a].state = "DISPATCHING" /\ attempts[a].fence = fence
    /\ Terminal(a, charge)

\* (mutant) settled attempts can be corrected
ReconcilableKnown(a) == attempts[a].state \in {"UNCERTAIN", "SETTLED"}

Reconcilable(a) == attempts[a].state = "UNCERTAIN"

\* An operator with billing evidence resolves an uncertain attempt.
Reconcile(a, charge) ==
    /\ Reconcilable(a)
    /\ Terminal(a, charge)

-------------------------------------------------------------------------------
(* The usage table *)

\* link_usage: insert the terminal usage row and link the request to it.
LinkUsage(r, u, cost) ==
    /\ NotFinalized(r)
    /\ \A a \in AttemptsOf(r) : attempts[a].state \notin {"RESERVED", "DISPATCHING"}
    /\ usage' = [v \in DOMAIN usage \cup {u} |->
                    IF v = u THEN [at |-> clock, cost |-> cost] ELSE usage[v]]
    /\ requests' = [requests EXCEPT ![r].row = u]
    /\ UNCHANGED <<clock, policy, attempts, scopes>>

\* UsageStore.write_usage without a budget request: local completions and
\* the rows that predate the policy.
WriteUsage(u, cost) ==
    /\ usage' = [v \in DOMAIN usage \cup {u} |->
                    IF v = u THEN [at |-> clock, cost |-> cost] ELSE usage[v]]
    /\ UNCHANGED <<clock, policy, attempts, requests, scopes>>

\* (mutant) only linked rows are protected
DeletableUnlinked(u) == policy = Null \/ u \notin Linked

\* Trigger budget_protect_usage_delete.
Deletable(u) == policy = Null \/ (usage[u].cost = 0 /\ u \notin Linked)

DeleteRows(D) ==
    /\ \A u \in D : Deletable(u)
    /\ usage' = [u \in DOMAIN usage \ D |-> usage[u]]
    /\ UNCHANGED <<clock, policy, attempts, requests, scopes>>

\* delete_usage_row of the console.
DeleteUsageRow(u) == DeleteRows({u})

\* purge_usage_older_than: one DELETE, which a protected row rolls back.
PurgeUsage(days) ==
    DeleteRows({u \in DOMAIN usage : usage[u].at < clock - days * Day})

-------------------------------------------------------------------------------
(* The clock *)

Tick == /\ clock < MaxTime
        /\ clock' = clock + 1
        /\ UNCHANGED <<policy, attempts, requests, scopes, usage>>

ClockStepBack(t) == /\ t < clock
                    /\ clock' = t
                    /\ UNCHANGED <<policy, attempts, requests, scopes, usage>>

-------------------------------------------------------------------------------
Init == /\ clock = 0
        /\ policy = Null
        /\ attempts = [a \in {} |-> Null]
        /\ requests = [r \in {} |-> Null]
        /\ scopes = [s \in {} |-> Null]
        /\ usage = [u \in {} |-> Null]

FreshAttempts == Attempts \ DOMAIN attempts
FreshRequests == Requests \ DOMAIN requests
Batches == {B \in SUBSET FreshAttempts : Cardinality(B) <= MaxBatch}

Admission ==
    \/ \E new \in Batches :
         \E req \in [new -> FreshRequests], quote \in [new -> Quotes] :
            \/ Reserve(new, req, quote)
            \/ \E s \in Scopes \ DOMAIN scopes, cap \in Limits :
                  ReserveScoped(new, req, quote, s, cap)
    \/ \E a \in FreshAttempts, r \in DOMAIN requests, quote \in Quotes :
          Retry(a, r, quote)

AttemptStep ==
    \E a \in DOMAIN attempts :
        \/ \E fence \in 0..attempts[a].fence :
              \/ BeginDispatch(a, fence)
              \/ Cancel(a, fence)
              \/ \E charge \in Amounts \cup {Null} : Settle(a, fence, charge)
        \/ \E charge \in Amounts : Reconcile(a, charge)

UsageStep ==
    \/ \E u \in Rows \ DOMAIN usage, cost \in Costs :
          \/ WriteUsage(u, cost)
          \/ \E r \in DOMAIN requests : LinkUsage(r, u, cost)
    \/ \E u \in DOMAIN usage : DeleteUsageRow(u)
    \/ \E days \in 1..MaxTime : PurgeUsage(days)

PolicyStep ==
    \/ \E limit \in Limits, opening \in Openings : InitializePolicy(limit, opening)
    \/ DetectBackwardClock
    \/ Freeze

ClockStep == Tick \/ \E t \in Time : ClockStepBack(t)

Next == Admission \/ AttemptStep \/ UsageStep \/ PolicyStep \/ ClockStep

Spec == Init /\ [][Next]_vars

-------------------------------------------------------------------------------
(* Correctness *)

(* Type invariant of the tables (migration 17), with its foreign keys.      *)
TypeOK ==
    /\ clock \in Time
    /\ policy \in Policies \cup {Null}
    /\ DOMAIN attempts \subseteq Attempts
    /\ attempts \in [DOMAIN attempts -> AttemptRows]
    /\ DOMAIN requests \subseteq Requests
    /\ requests \in [DOMAIN requests -> RequestRows]
    /\ DOMAIN scopes \subseteq Scopes
    /\ scopes \in [DOMAIN scopes -> Nanos]
    /\ DOMAIN usage \subseteq Rows
    /\ usage \in [DOMAIN usage -> UsageRows]
    /\ \A a \in DOMAIN attempts : attempts[a].request \in DOMAIN requests
    /\ \A r \in DOMAIN requests :
          requests[r].scope # Null => requests[r].scope \in DOMAIN scopes

\* A liability as the ledger certified it: a breach is owed in full, but
\* only its bound was ever admitted.
CertifiedLiability(row, since) ==
    CASE row.state = "CANCELLED" -> 0
      [] row.state = "SETTLED" -> IF row.dispatchedAt >= since THEN row.charge ELSE 0
      [] OTHER -> row.bound

CertifiedExposure(S, since) ==
    TotalOver([a \in S |-> CertifiedLiability(attempts[a], since)], S)

(* The daily cap is never promised twice: whatever was reserved, dispatched,
   settled, cancelled, retried or linked since, by whichever caller, the
   opening liability and the certified liabilities of the attempts stay
   within the limit, at the latest instant the ledger admitted anything
   (reserve_many and _exposure).                                            *)
CapRespected ==
    DOMAIN attempts # {} =>
        policy.opening + CertifiedExposure(DOMAIN attempts, policy.watermark - Day)
            <= policy.limit

\* What an attempt dispatched in [t, t + Day] spends at most.
SpentWithin(row, t) ==
    IF row.dispatchedAt = Null \/ row.dispatchedAt \notin t..(t + Day) THEN 0
    ELSE IF row.state = "SETTLED" THEN row.charge ELSE row.bound

(* In every window of a day, wherever it starts, the attempts dispatched in
   it cost at most the limit less the opening liability (breaches at their
   bound): checking the trailing day at each reservation is enough although
   an attempt may be dispatched much later than it was reserved, and charges
   leave the window while others are running (_exposure, begin_dispatch).   *)
WindowSpend ==
    DOMAIN attempts # {} =>
        \A t \in Time :
            policy.opening
              + TotalOver([a \in DOMAIN attempts |-> SpentWithin(attempts[a], t)],
                          DOMAIN attempts)
                <= policy.limit

\* What an attempt has spent or may still spend in [t, t + Day] when the
\* ledger has admitted at instant w: a reservation can be dispatched in every
\* window that w has not passed.
MaySpendWithin(row, t, w) ==
    IF row.state = "RESERVED"
    THEN IF t + Day >= w THEN row.bound ELSE 0
    ELSE SpentWithin(row, t)

\* There is a policy before there is anything under it.
PolicyFirst ==
    policy = Null => DOMAIN attempts = {} /\ DOMAIN requests = {} /\ DOMAIN scopes = {}

\* The columns of a row agree with its state at watermark w.
ColumnsAgree(row, w) ==
    /\ row.state \in {"RESERVED", "CANCELLED"} => row.dispatchedAt = Null
    /\ row.state \notin {"RESERVED", "CANCELLED"} =>
          row.dispatchedAt \in 0..w
    /\ row.state = "SETTLED" => row.charge \in 0..row.bound
    /\ row.state = "BREACH" => row.charge \in Nanos /\ row.charge > row.bound

\* Each window has room for the reservations that may still be dispatched in
\* it.
WindowCovered ==
    DOMAIN attempts # {} =>
        \A t \in Time :
            policy.opening
              + TotalOver([a \in DOMAIN attempts |->
                              MaySpendWithin(attempts[a], t, policy.watermark)],
                          DOMAIN attempts)
                <= policy.limit

(* Why WindowSpend holds at every step: there is a policy before there is an
   attempt, dispatches are dated no later than the watermark, a settled
   charge is within its bound, and each window keeps room for the
   reservations that may still be dispatched in it (begin_dispatch rechecks
   the clock against the watermark, _terminal splits charges at the bound). *)
LedgerInv ==
    /\ PolicyFirst
    /\ \A a \in DOMAIN attempts : ColumnsAgree(attempts[a], policy.watermark)
    /\ WindowCovered

(* The cap of an evaluation scope holds for its whole life, through retries
   of the requests in it and however old their charges are.                 *)
ScopeCap ==
    \A s \in DOMAIN scopes :
        CertifiedExposure(ScopeMembers(s), 0) <= scopes[s]

(* Both caps of _exposure are kept: that of the day and that of each scope. *)
CapsAreKept == CapRespected /\ ScopeCap

(* A logical request never has two attempts whose outcome is open or that
   broke their bound: reserve_many refuses the retry.                       *)
OneOpenAttempt ==
    \A a, b \in DOMAIN attempts :
        /\ attempts[a].request = attempts[b].request
        /\ attempts[a].state \in Unresolved \cup {"BREACH"}
        /\ attempts[b].state \in Unresolved \cup {"BREACH"}
        => a = b

(* Once its terminal usage row is linked, a request has nothing reserved or
   running and never will; its row stays in the usage table and belongs to
   no other request (link_usage, reserve_many and the delete trigger).      *)
FinalizedIsQuiet ==
    \A r \in DOMAIN requests : requests[r].row # Null =>
        /\ \A a \in AttemptsOf(r) : attempts[a].state \notin {"RESERVED", "DISPATCHING"}
        /\ requests[r].row \in DOMAIN usage
        /\ \A q \in DOMAIN requests : requests[q].row = requests[r].row => q = r

(* Retries, settlements and rows of a request come in a legal order only.  *)
RequestsAreOrderly == OneOpenAttempt /\ FinalizedIsQuiet

(* A liability is released by its outcome and by nothing else: at any fixed
   instant the exposure only falls when some hold is cancelled before its
   dispatch or gets a known charge.  Linking a usage row, deleting or purging
   rows, freezing and retrying never make room (_exposure, link_usage and
   the delete trigger).                                                     *)
ReleasedByOutcome ==
    [][policy # Null =>
         \A t \in Time : Exposure(t)' < Exposure(t) =>
            \E a \in DOMAIN attempts :
               \/ attempts[a].state = "RESERVED" /\ attempts'[a].state = "CANCELLED"
               \/ /\ attempts[a].state \in {"DISPATCHING", "UNCERTAIN"}
                  /\ attempts'[a].state = "SETTLED"]_vars

==============================================================================
