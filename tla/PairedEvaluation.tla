---------------------------- MODULE PairedEvaluation ----------------------------
(****************************************************************************)
(* execute_candidate_evaluation (src/ylang/importer/evaluate.py): a         *)
(* candidate prompt and the template it would replace are completed on the  *)
(* same inputs, each by one paid attempt.  Both attempts are reserved in    *)
(* one transaction, under a scope of their own; the arms then run one after *)
(* the other through Engine.complete_prepared, what is still reserved is    *)
(* cancelled, and a run with the financial evidence of both is saved.       *)
(*                                                                          *)
(* The evaluators share the ledger with the operator and the clock, and one *)
(* of them may die or meet storage errors between any two transactions.     *)
(* _dispatch_bounded is the one of BoundedEngine.                           *)
(*                                                                          *)
(* Left out: prompts, outputs, tokens and latencies, the simulated mode     *)
(* (which reserves nothing) and the digests of the evidence.                *)
(****************************************************************************)
EXTENDS BoundedEngine

CONSTANTS
    Evaluators,     \* callers that run execute_candidate_evaluation
    Budgets         \* what an operator authorizes for one evaluation

ASSUME EvaluationAssumption ==
    /\ Evaluators \subseteq Callers /\ Budgets \subseteq Nanos \ {0}
    /\ Null \notin Attempts
    /\ Null \notin [state : {"RESERVED", "DISPATCHING", "UNCERTAIN", "SETTLED",
                             "CANCELLED", "BREACH"},
                    charge : Nanos \cup {Null}]

VARIABLE evaluation     \* the local variables of each evaluation

evaluationVars == <<engineVars, evaluation>>

-------------------------------------------------------------------------------
Arms == <<"baseline", "candidate">>
ArmOrder == 1..Len(Arms)

\* The outcome of an arm: not run, completed, or failed with an error.
NewEvaluation ==
    [arm |-> 0, held |-> [k \in ArmOrder |-> Null],
     result |-> [k \in ArmOrder |-> "none"],
     evidence |-> [k \in ArmOrder |-> Null],
     aborted |-> FALSE, accounting |-> FALSE, run |-> Null]

EvaluationUnchanged == UNCHANGED evaluation

HeldBy(c) == {evaluation[c].held[k] : k \in ArmOrder}

\* Make arm k the one that runs, as complete_prepared is called with it.
RunArm(c, k, held, req) ==
    caller' = [caller EXCEPT ![c] = [Idle EXCEPT !.pc = "reserved", !.chain = <<"paid">>,
                                                 !.req = req, !.attempt = held[k]]]

-------------------------------------------------------------------------------
(* Authorization and reservation *)

\* No authorization, no template to compare with, an adapter that is not
\* certified, or too little capacity: nothing is dispatched and nothing saved.
RefuseEvaluation(c) ==
    /\ At(c, "idle")
    /\ Goto(c, "refused")
    /\ LedgerUnchanged \/ DetectBackwardClock
    /\ BillUnchanged /\ EvaluationUnchanged

\* reserve_bounded_pair: both arms or none.
ReservePair(c) ==
    /\ At(c, "idle")
    /\ \E a, b \in FreshAttempts, r, q \in FreshRequests, s \in Scopes \ DOMAIN scopes :
          /\ a # b /\ r # q
          /\ \E quote \in [{a, b} -> Quotes], budget \in Budgets :
                ReserveScoped({a, b}, [x \in {a, b} |-> IF x = a THEN r ELSE q],
                              quote, s, budget)
          /\ evaluation' = [evaluation EXCEPT ![c].arm = 1, ![c].held = <<a, b>>]
          /\ RunArm(c, 1, <<a, b>>, r)
    /\ BillUnchanged

-------------------------------------------------------------------------------
(* complete_prepared *)

Conclude(c, outcome) ==
    evaluation' = [evaluation EXCEPT ![c].result[evaluation[c].arm] = outcome]

\* The provider's answer counts as a completion until something fails.
ArmReceive(c) ==
    /\ Receive(c)
    /\ Conclude(c, IF caller'[c].report.kind = "answer" THEN "completed" ELSE "failed")

ArmRefused(c) ==
    /\ RefuseDispatch(c)
    /\ Conclude(c, "failed")

ArmDispatches(c) ==
    /\ \/ Dispatch(c) \/ CancelReserved(c)
       \/ Transmit(c) \/ FreezeLedger(c) \/ SettleAttempt(c)
    /\ EvaluationUnchanged

\* Before the row: a ledger transaction that fails leaves an error result.
ArmStorageError(c) ==
    /\ ~At(c, "write")
    /\ StorageError(c)
    /\ Conclude(c, "failed")

\* (mutant) the row is linked when the attempt is known to have cost something
FinalizesPaidOnly(a) == attempts[a].state \in {"SETTLED", "BREACH"} /\ attempts[a].charge > 0

\* The row finalizes the request only when the attempt has an outcome.
Finalizes(a) == attempts[a].state \in {"SETTLED", "UNCERTAIN", "BREACH"}

\* The row of an arm: linked, or free of charge by itself.
WriteArmRow(c) ==
    /\ At(c, "write")
    /\ \E u \in Rows \ DOMAIN usage :
          IF Finalizes(caller[c].attempt)
          THEN LinkUsage(caller[c].req, u, caller[c].paid)
          ELSE WriteUsage(u, caller[c].paid)
    /\ Goto(c, "written")
    /\ BillUnchanged /\ EvaluationUnchanged

\* BoundedEvidenceError: the completion is kept, its accounts are not.
ArmAccountingError(c) ==
    /\ c \in Unreliable /\ At(c, "write")
    /\ Goto(c, "failed")
    /\ evaluation' = [evaluation EXCEPT ![c].result[evaluation[c].arm] = "failed",
                                        ![c].accounting = TRUE]
    /\ LedgerUnchanged /\ BillUnchanged

-------------------------------------------------------------------------------
(* From arm to arm *)

\* Only a completed and accounted baseline lets the candidate run.
GoesOn(c) ==
    /\ At(c, "written") /\ evaluation[c].arm = 1
    /\ evaluation[c].result[1] = "completed"

NextArm(c) ==
    /\ GoesOn(c)
    /\ evaluation' = [evaluation EXCEPT ![c].arm = 2]
    /\ RunArm(c, 2, evaluation[c].held, attempts[evaluation[c].held[2]].request)
    /\ LedgerUnchanged /\ BillUnchanged

\* The loop ends after the candidate, or breaks after a failure, an
\* accounting error or an interrupt, which is remembered for later.
EndArms(c) ==
    /\ \/ At(c, "written") /\ ~GoesOn(c)
       \/ At(c, "failed") \/ At(c, "aborted")
    /\ LET k == evaluation[c].arm
           failed == ~At(c, "written") \/ evaluation[c].result[k] # "completed"
       IN  evaluation' = [evaluation EXCEPT
                             ![c].arm = 1,
                             ![c].result[k] = IF failed THEN "failed" ELSE @,
                             ![c].aborted = failed]
    /\ Goto(c, "cleanup")
    /\ LedgerUnchanged /\ BillUnchanged

-------------------------------------------------------------------------------
(* Cleanup and evidence *)

\* (mutant) only the arms that were attempted are looked at
LeaveReserved(a) == LedgerUnchanged

\* An arm that is still reserved is cancelled.
ReleaseArm(a) ==
    IF attempts[a].state = "RESERVED" THEN Cancel(a, 0) ELSE LedgerUnchanged

\* What is left to do after arm k of the cleanup.
AfterCleanup(c, k) == IF k = Len(Arms) THEN Goto(c, "save") ELSE Goto(c, "cleanup")

\* The attempt is read, cancelled if need be, and read again.
CleanUpArm(c) ==
    LET k == evaluation[c].arm
        a == evaluation[c].held[k]
    IN  /\ At(c, "cleanup")
        /\ ReleaseArm(a)
        /\ evaluation' = [evaluation EXCEPT
                             ![c].evidence[k] = [state |-> attempts'[a].state,
                                                 charge |-> attempts'[a].charge],
                             ![c].arm = IF k = Len(Arms) THEN k ELSE k + 1]
        /\ AfterCleanup(c, k)
        /\ BillUnchanged

\* A storage error before or after the cancellation: no evidence of the arm.
CleanUpError(c) ==
    LET k == evaluation[c].arm
    IN  /\ c \in Unreliable /\ At(c, "cleanup")
        /\ LedgerUnchanged \/ ReleaseArm(evaluation[c].held[k])
        /\ evaluation' = [evaluation EXCEPT
                             ![c].result[k] = "failed", ![c].aborted = TRUE,
                             ![c].arm = IF k = Len(Arms) THEN k ELSE k + 1]
        /\ AfterCleanup(c, k)
        /\ BillUnchanged

-------------------------------------------------------------------------------
(* The saved run *)

\* (mutant) an outcome is an outcome
ResolvedOrUncertain == {"SETTLED", "CANCELLED", "BREACH", "UNCERTAIN"}

Resolved == {"SETTLED", "CANCELLED", "BREACH"}

\* billing_upper_bound_known: there is evidence of both arms, with outcomes
\* that say what was billed.
BillingKnown(evidence) ==
    \A k \in ArmOrder : evidence[k] # Null /\ evidence[k].state \in Resolved

\* known_cost_nanos: the charges that the evidence tells.
KnownCost(evidence) ==
    LET told == {k \in ArmOrder : evidence[k] # Null /\ evidence[k].charge # Null}
    IN  TotalOver([k \in told |-> evidence[k].charge], told)

Verdict(result) ==
    LET failed == {k \in ArmOrder : result[k] = "failed"}
    IN  CASE failed = ArmOrder -> "both_error"
          [] failed = {1} -> "baseline_error"
          [] failed = {2} -> "candidate_error"
          [] failed = {} /\ \A k \in ArmOrder : result[k] = "completed" -> "both_completed"
          [] OTHER -> "inconclusive"

Confounders(e) ==
    LET seen == {e.evidence[k].state : k \in {j \in ArmOrder : e.evidence[j] # Null}}
    IN  (IF seen \cap {"UNCERTAIN", "DISPATCHING"} # {} THEN {"billing_uncertain"} ELSE {})
          \cup (IF "BREACH" \in seen THEN {"certified_bound_exceeded"} ELSE {})
          \cup (IF e.accounting THEN {"accounting_write_failed"} ELSE {})
          \cup (IF e.aborted THEN {"aborted_execution"} ELSE {})

SaveRun(c) ==
    /\ At(c, "save")
    /\ evaluation' = [evaluation EXCEPT
                         ![c].run = [verdict |-> Verdict(evaluation[c].result),
                                     known |-> BillingKnown(evaluation[c].evidence),
                                     cost |-> KnownCost(evaluation[c].evidence),
                                     confounders |-> Confounders(evaluation[c])]]
    /\ Goto(c, "saved")
    /\ LedgerUnchanged /\ BillUnchanged

SaveError(c) ==
    /\ c \in Unreliable /\ At(c, "save")
    /\ Goto(c, "unsaved")
    /\ LedgerUnchanged /\ BillUnchanged /\ EvaluationUnchanged

EvaluatorDies(c) ==
    /\ c \in Unreliable
    /\ caller[c].pc \notin {"idle", "refused", "saved", "unsaved", "crashed"}
    /\ Goto(c, "crashed")
    /\ LedgerUnchanged /\ BillUnchanged /\ EvaluationUnchanged

-------------------------------------------------------------------------------
EvaluationInit ==
    /\ EngineInit
    /\ evaluation = [c \in Evaluators |-> NewEvaluation]

\* What an evaluation that runs does next.
Evaluate(c) ==
    \/ ArmDispatches(c) \/ ArmRefused(c) \/ ArmReceive(c) \/ WriteArmRow(c)
    \/ NextArm(c) \/ EndArms(c) \/ CleanUpArm(c) \/ SaveRun(c)

EvaluationNext ==
    \/ \E c \in Evaluators :
          \/ RefuseEvaluation(c) \/ ReservePair(c) \/ Evaluate(c)
          \/ ArmStorageError(c) \/ ArmAccountingError(c) \/ CleanUpError(c)
          \/ SaveError(c) \/ EvaluatorDies(c)
    \/ \E c \in Callers \ Evaluators : Calls(c) /\ EvaluationUnchanged
    \/ Surroundings /\ EvaluationUnchanged

EvaluationSpec == EvaluationInit /\ [][EvaluationNext]_evaluationVars

-------------------------------------------------------------------------------
(* Correctness *)

Saved(c) == evaluation[c].run # Null

(* A saved run that says the billing is known tells at least what the
   provider bills for the two arms, at that time and ever after: no arm is
   left that may still be billed (execute_candidate_evaluation).            *)
KnownBillIsCovered ==
    \A c \in Evaluators : Saved(c) /\ evaluation[c].run.known =>
        TotalOver([a \in HeldBy(c) |-> bill[a]], HeldBy(c)) <= evaluation[c].run.cost

(* A run that reports two completions has paid for both and accounted for
   both: each arm is settled and has a usage row that tells its charge.     *)
CompletionsAreAccounted ==
    \A c \in Evaluators : Saved(c) /\ evaluation[c].run.verdict = "both_completed" =>
        /\ evaluation[c].run.known /\ evaluation[c].run.confounders = {}
        /\ \A a \in HeldBy(c) :
              LET row == requests[attempts[a].request].row
              IN  /\ attempts[a].state = "SETTLED"
                  /\ row # Null /\ usage[row].cost = attempts[a].charge

(* The arm that never ran does not keep its part of the budget: once the run
   is saved, an arm whose evidence could be read is not reserved any more,
   whatever stopped the evaluation, and one that may still be billed makes
   the run say that billing is uncertain.                                   *)
PairIsReleased ==
    \A c \in Evaluators : Saved(c) =>
        \A k \in ArmOrder : evaluation[c].evidence[k] # Null =>
            LET state == attempts[evaluation[c].held[k]].state
            IN  /\ state # "RESERVED"
                /\ state \in {"DISPATCHING", "UNCERTAIN"} =>
                      "billing_uncertain" \in evaluation[c].run.confounders

(* What a saved run says of its pair is final: what completed is accounted
   and what did not is released (execute_candidate_evaluation).             *)
PairIsSettled == CompletionsAreAccounted /\ PairIsReleased

================================================================================
