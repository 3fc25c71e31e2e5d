----------------------------- MODULE BoundedEngine -----------------------------
(****************************************************************************)
(* Callers of Engine.complete (src/ylang/core/engine.py) over the budget    *)
(* ledger: each walks an attempt chain of local and paid models, reserves,  *)
(* dispatches, settles and at last writes one usage row.  Every ledger call *)
(* is a transaction of its own, so callers interleave between any two of    *)
(* them, and a caller may die or meet a storage error between any two.      *)
(*                                                                          *)
(* The provider is external: it bills an attempt when the request reaches   *)
(* it, and the adapter reports an outcome.  A known charge is trusted to be *)
(* at least the bill, which is what the certified adapters promise.         *)
(*                                                                          *)
(* Left out: contents, models, tokens, routing (a chain is a sequence of    *)
(* kinds) and the fields of the usage row other than its cost.              *)
(****************************************************************************)
EXTENDS HardBudget, AttemptReport, Sequences

CONSTANTS
    Callers,        \* threads or processes running Engine.complete
    Chains,         \* attempt chains: sequences of "local" and "paid"
    Unreliable,     \* callers that may die or meet storage errors
    Cancellable     \* callers run by an improver worker, which may give up

ASSUME EngineAssumption ==
    /\ Unreliable \subseteq Callers /\ Cancellable \subseteq Callers
    /\ Chains \subseteq Seq({"local", "paid"}) \ {<<>>}

VARIABLES
    caller,         \* the local variables of each call
    bill            \* what the provider bills for each attempt

engineVars == <<vars, caller, bill>>

-------------------------------------------------------------------------------
(* Calls *)

Returned == {"done", "failed", "aborted", "crashed"}

Idle == [pc |-> "idle", chain |-> <<>>, req |-> Null, attempt |-> Null,
         report |-> NoReport, paid |-> 0, cancelled |-> FALSE]

Goto(c, pc) == caller' = [caller EXCEPT ![c].pc = pc]

LedgerUnchanged == UNCHANGED vars
BillUnchanged == UNCHANGED bill

At(c, pc) == caller[c].pc = pc
Current(c) == Head(caller[c].chain)
LastCandidate(c) == Len(caller[c].chain) = 1

Start(c) ==
    /\ At(c, "idle")
    /\ \E chain \in Chains :
          caller' = [caller EXCEPT ![c].pc = "next", ![c].chain = chain]
    /\ LedgerUnchanged /\ BillUnchanged

\* The improver gives up on its worker and sets usage_cancelled.
SetCancelled(c) ==
    /\ c \in Cancellable
    /\ caller[c].pc \notin Returned \cup {"idle"}
    /\ ~caller[c].cancelled
    /\ caller' = [caller EXCEPT ![c].cancelled = TRUE]
    /\ LedgerUnchanged /\ BillUnchanged

-------------------------------------------------------------------------------
(* A candidate of the chain *)

\* _call_litellm on a local model: it answers, or fails and the chain goes on
\* when the error is one that another model may survive.
LocalCall(c) ==
    /\ At(c, "next") /\ Current(c) = "local"
    /\ \/ Goto(c, "write")
       \/ /\ ~LastCandidate(c)
          /\ caller' = [caller EXCEPT ![c].chain = Tail(@)]
    /\ LedgerUnchanged /\ BillUnchanged

\* prepare_bounded and reserve_many, the first time for a new request and
\* then for the request the call already has.
ReservePaid(c) ==
    /\ At(c, "next") /\ Current(c) = "paid"
    /\ \E a \in FreshAttempts, quote \in Quotes :
          \/ /\ caller[c].req = Null
             /\ \E r \in FreshRequests :
                   /\ Reserve({a}, [b \in {a} |-> r], [b \in {a} |-> quote])
                   /\ caller' = [caller EXCEPT ![c].pc = "reserved", ![c].req = r,
                                               ![c].attempt = a]
          \/ /\ caller[c].req # Null
             /\ Retry(a, caller[c].req, quote)
             /\ caller' = [caller EXCEPT ![c].pc = "reserved", ![c].attempt = a]
    /\ BillUnchanged

\* Anything refused up to here ends the chain: no adapter, tools, an expired
\* quote, no capacity, a frozen policy, or a clock that moved backward.
RefusePaid(c) ==
    /\ At(c, "next") /\ Current(c) = "paid"
    /\ Goto(c, "write")
    /\ LedgerUnchanged \/ DetectBackwardClock
    /\ BillUnchanged

-------------------------------------------------------------------------------
(* _dispatch_bounded *)

Dispatch(c) ==
    /\ At(c, "reserved")
    /\ BeginDispatch(caller[c].attempt, 0)
    /\ Goto(c, "transmit")
    /\ BillUnchanged

\* (mutant) a refusal leaves the reservation behind
RefuseWithoutCancel(c) ==
    /\ At(c, "reserved")
    /\ Goto(c, "write")
    /\ LedgerUnchanged /\ BillUnchanged

\* The adapter or begin_dispatch refuses: the reservation is cancelled next.
RefuseDispatch(c) ==
    /\ At(c, "reserved")
    /\ Goto(c, "cancel")
    /\ LedgerUnchanged \/ DetectBackwardClock
    /\ BillUnchanged

CancelReserved(c) ==
    /\ At(c, "cancel")
    /\ Cancel(caller[c].attempt, 0)
    /\ Goto(c, "write")
    /\ BillUnchanged

\* adapter.execute sends the request; whatever happens later, it is billed.
Transmit(c) ==
    /\ At(c, "transmit")
    /\ \E amount \in Amounts \cup {0} :
          bill' = [bill EXCEPT ![caller[c].attempt] = @ + amount]
    /\ Goto(c, "waiting")
    /\ LedgerUnchanged

\* What the call may be told of the attempt.
Reports(a) ==
    {r \in [kind : {"answer", "failure", "unknown", "interrupt", "violation"},
            charge : Amounts \cup {0, Null}, retry : BOOLEAN] :
        Reportable(r, attempts[a].bound, bill[a])}

Receive(c) ==
    /\ At(c, "waiting")
    /\ \E report \in Reports(caller[c].attempt) :
          caller' = [caller EXCEPT ![c].report = report,
                        ![c].pc = IF report.kind = "violation" THEN "freeze" ELSE "settle"]
    /\ LedgerUnchanged /\ BillUnchanged

\* ledger.freeze before the settlement of a contract violation.
FreezeLedger(c) ==
    /\ At(c, "freeze")
    /\ Freeze \/ (policy.frozen # "no" /\ LedgerUnchanged)
    /\ Goto(c, "settle")
    /\ BillUnchanged

\* (mutant) an ambiguous failure also falls back
RetryAfterUnknown(report) ==
    report.kind = "unknown" \/ (report.kind = "failure" /\ report.retry)

\* Only a trusted failure within the bound lets the next candidate run.
RetryAllowed(report) == report.kind = "failure" /\ report.retry

\* (mutant) an unknown charge is settled as free
ChargeSettledFree(report) == IF report.charge = Null THEN 0 ELSE report.charge

\* What the ledger is told.
ChargeSettled(report) == report.charge

\* (mutant) only the last attempt is remembered
PaidLast(c) == IF caller[c].report.charge = Null THEN 0 ELSE caller[c].report.charge

\* The cost of the row: the charges known to the call.
PaidSoFar(c) ==
    LET charge == caller[c].report.charge
    IN  caller[c].paid + (IF charge = Null THEN 0 ELSE charge)

SettleAttempt(c) ==
    LET report == caller[c].report
        again  == RetryAllowed(report) /\ ~LastCandidate(c)
    IN  /\ At(c, "settle")
        /\ Settle(caller[c].attempt, 1, ChargeSettled(report))
        /\ caller' = [caller EXCEPT
                         ![c].paid = PaidSoFar(c),
                         ![c].chain = IF again THEN Tail(@) ELSE @,
                         ![c].report = NoReport,
                         ![c].pc = IF report.kind = "interrupt" THEN "aborted"
                                   ELSE IF again THEN "next" ELSE "write"]
        /\ BillUnchanged

-------------------------------------------------------------------------------
(* The usage row *)

\* A paid call writes its row linked to the request, cancelled or not.
LinkRow(c) ==
    /\ At(c, "write") /\ caller[c].req # Null
    /\ \E u \in Rows \ DOMAIN usage : LinkUsage(caller[c].req, u, caller[c].paid)
    /\ Goto(c, "done")
    /\ BillUnchanged

\* link_usage refuses while an attempt is reserved or running.
LinkRefused(c) ==
    /\ At(c, "write") /\ caller[c].req # Null
    /\ \E a \in AttemptsOf(caller[c].req) :
          attempts[a].state \in {"RESERVED", "DISPATCHING"}
    /\ Goto(c, "failed")
    /\ LedgerUnchanged /\ BillUnchanged

WriteLocalRow(c) ==
    /\ At(c, "write") /\ caller[c].req = Null /\ ~caller[c].cancelled
    /\ \E u \in Rows \ DOMAIN usage : WriteUsage(u, 0)
    /\ Goto(c, "done")
    /\ BillUnchanged

\* (mutant) every cancelled call skips its row
MaySkipCancelled(c) == caller[c].cancelled

\* usage_cancelled suppresses the row of a call that has no budget request.
MaySkipRow(c) == caller[c].cancelled /\ caller[c].req = Null

SkipRow(c) ==
    /\ At(c, "write") /\ MaySkipRow(c)
    /\ Goto(c, "done")
    /\ LedgerUnchanged /\ BillUnchanged

-------------------------------------------------------------------------------
(* Faults *)

\* A storage error instead of a ledger transaction: begin_dispatch, cancel,
\* freeze and settle leave the attempt as it is and the call goes on to its
\* usage row (an interrupt goes on to the caller); a row that cannot be
\* written fails the call.
StorageError(c) ==
    /\ c \in Unreliable
    /\ \/ At(c, "reserved") /\ Goto(c, "write")
       \/ At(c, "cancel") /\ Goto(c, "write")
       \/ At(c, "freeze") /\ Goto(c, "write")
       \/ /\ At(c, "settle")
          /\ Goto(c, IF caller[c].report.kind = "interrupt" THEN "aborted" ELSE "write")
       \/ At(c, "write") /\ Goto(c, "failed")
    /\ LedgerUnchanged /\ BillUnchanged

Crash(c) ==
    /\ c \in Unreliable
    /\ caller[c].pc \notin Returned \cup {"idle"}
    /\ Goto(c, "crashed")
    /\ LedgerUnchanged /\ BillUnchanged

-------------------------------------------------------------------------------
EngineInit ==
    /\ Init
    /\ caller = [c \in Callers |-> Idle]
    /\ bill = [a \in Attempts |-> 0]

\* What a running call does next.
Work(c) ==
    \/ LocalCall(c) \/ ReservePaid(c) \/ RefusePaid(c)
    \/ Dispatch(c) \/ RefuseDispatch(c) \/ CancelReserved(c)
    \/ Transmit(c) \/ Receive(c) \/ FreezeLedger(c) \/ SettleAttempt(c)
    \/ LinkRow(c) \/ LinkRefused(c) \/ WriteLocalRow(c) \/ SkipRow(c)

\* The operator installs the policy and reconciles with billing evidence, the
\* console deletes rows, the clock moves.
Surroundings ==
    /\ \/ \E limit \in Limits, opening \in Openings : InitializePolicy(limit, opening)
       \/ \E a \in DOMAIN attempts, charge \in Amounts :
             charge >= bill[a] /\ Reconcile(a, charge)
       \/ \E u \in DOMAIN usage : DeleteUsageRow(u)
       \/ ClockStep
    /\ UNCHANGED <<caller, bill>>

\* What happens to a caller of complete.
Calls(c) == Start(c) \/ SetCancelled(c) \/ Work(c) \/ StorageError(c) \/ Crash(c)

EngineNext == (\E c \in Callers : Calls(c)) \/ Surroundings

EngineSpec == EngineInit /\ [][EngineNext]_engineVars

\* A call that runs goes on running: ledger transactions wait for SQLite's
\* lock for a bounded time and transports have deadlines.
FairEngineSpec == EngineSpec /\ \A c \in Callers : WF_engineVars(Work(c))

-------------------------------------------------------------------------------
(* Correctness *)

KeptBound(a) == bill[a] <= attempts[a].bound

(* The ledger never owes less for an attempt than the provider bills for it,
   whatever interleaving, crash, storage error, interrupt or reconciliation
   came between the transport and the ledger, as long as the provider keeps
   the certified bound (_dispatch_bounded).                                 *)
LiabilityCoversBill ==
    \A a \in Attempts :
        /\ bill[a] > 0 => a \in DOMAIN attempts
        /\ a \in DOMAIN attempts /\ KeptBound(a) => bill[a] <= Liability(attempts[a], 0)

(* The money itself: in every window of a day, the bills of the attempts
   dispatched in it stay within what the policy leaves beside its opening
   liability, while the provider keeps its bounds.                          *)
BillsWithinCap ==
    (\E a \in DOMAIN attempts : bill[a] > 0)
        /\ (\A a \in DOMAIN attempts : KeptBound(a)) =>
    \A t \in Time :
        LET inWindow == {a \in DOMAIN attempts :
                            attempts[a].dispatchedAt # Null
                              /\ attempts[a].dispatchedAt \in t..(t + Day)}
        IN  policy.opening + TotalOver([a \in inWindow |-> bill[a]], inWindow)
              <= policy.limit

(* A call goes on to its next candidate, local or paid, only when every
   attempt it made before has a known outcome within its bound: an ambiguous
   failure never falls back (complete).                                     *)
NoFallbackWhileUnknown ==
    \A c \in Callers :
        At(c, "next") /\ caller[c].req # Null =>
            \A a \in AttemptsOf(caller[c].req) :
                attempts[a].state \in {"SETTLED", "CANCELLED"}

(* A call that returns normally has its accounts in order: its request has
   its usage row and nothing reserved or running, even when the caller had
   given up on it.                                                          *)
DoneIsAccounted ==
    \A c \in Callers :
        At(c, "done") /\ caller[c].req # Null =>
            /\ requests[caller[c].req].row # Null
            /\ \A a \in AttemptsOf(caller[c].req) :
                  attempts[a].state \notin {"RESERVED", "DISPATCHING"}

KnownCharge(a) == IF attempts[a].charge = Null THEN 0 ELSE attempts[a].charge

(* The usage row a request gets tells the charges of all its attempts that
   are known when it is written, failed ones included, counted once; only a
   reconciliation that came before the row can leave a difference.          *)
RowTellsTheCharges ==
    [][\A r \in DOMAIN requests :
         requests[r].row = Null /\ requests'[r].row # Null =>
            LET S == {a \in AttemptsOf(r) : attempts[a].fence < 3}
            IN  usage'[requests'[r].row].cost
                    = TotalOver([a \in S |-> KnownCharge(a)], S)]_engineVars

Running(a) ==
    a \in DOMAIN attempts /\ attempts[a].state \in {"RESERVED", "DISPATCHING"}

(* Every reservation of a call that does not crash, and whose storage works,
   ends, whatever others do: it is cancelled or dispatched, and every
   dispatch is settled.                                                     *)
HoldsAreResolved ==
    \A c \in Callers \ Unreliable, a \in Attempts :
        caller[c].attempt = a /\ Running(a) ~> ~Running(a)

\* No running call holds the token of the attempt.
Orphan(a) ==
    \A c \in Callers : caller[c].attempt = a => caller[c].pc \in Returned

(* A dispatch whose caller is gone can be reconciled by an operator.        *)
OrphansAreReconcilable ==
    \A a \in DOMAIN attempts :
        attempts[a].state = "DISPATCHING" /\ Orphan(a) => Reconcilable(a)

================================================================================
