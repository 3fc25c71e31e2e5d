----------------------------- MODULE EngineProofs -----------------------------
(****************************************************************************)
(* Callers of Engine.complete over the ledger, proved for every number of   *)
(* callers, attempts and requests, every chain of candidates, every         *)
(* interleaving, crash and storage error, and every provider that reports   *)
(* as AttemptReport says; and, from "What an evaluation knows" on, paired   *)
(* evaluations beside such callers, for every number of evaluators.         *)
(*                                                                          *)
(* Only the second part cites EvaluationAssumption: the theorems about      *)
(* EngineSpec rest on what BoundedEngine assumes.                           *)
(****************************************************************************)
EXTENDS PairedEvaluation, HardBudgetProofs, SequenceTheorems

-------------------------------------------------------------------------------
(* What a call knows *)

ReportRecords == [kind : {"none", "answer", "failure", "unknown", "interrupt", "violation"},
                  charge : Nanos \cup {Null}, retry : BOOLEAN]

\* Where a call can stand, as an evaluation's arm or by itself.
Points == {"idle", "next", "reserved", "cancel", "transmit", "waiting", "freeze",
           "settle", "write", "done", "failed", "aborted", "crashed",
           "refused", "written", "cleanup", "save", "saved", "unsaved"}

CallRecords ==
    [pc : Points, chain : Seq({"local", "paid"}), req : Requests \cup {Null},
     attempt : Attempts \cup {Null}, report : ReportRecords, paid : Nat,
     cancelled : BOOLEAN]

EngineTypes == caller \in [Callers -> CallRecords] /\ bill \in [Attempts -> Nat]

Choosing == {"next"}
Holding == {"reserved", "cancel"}
Reported == {"freeze", "settle"}
Dispatched == {"transmit", "waiting"} \cup Reported

(* The record k of a call agrees with attempts A, requests Q and bills B:   *)
(* it stands where its own attempt stands, has nothing open when it turns   *)
(* to its next candidate, and has its row when it is done.                  *)
Agrees(k, A, Q, B) ==
    /\ k.req # Null => k.req \in DOMAIN Q
    /\ k.pc = "idle" => k.req = Null
    /\ k.pc \in Choosing \cup Holding \cup Dispatched => k.chain # <<>>
    /\ k.pc \in Choosing /\ k.req # Null =>
          \A a \in DOMAIN A : A[a].request = k.req => A[a].state \in {"SETTLED", "CANCELLED"}
    /\ k.pc \in Holding \cup Dispatched =>
          k.attempt \in DOMAIN A /\ A[k.attempt].request = k.req
    /\ k.pc \in Holding => A[k.attempt].state = "RESERVED" /\ A[k.attempt].fence = 0
    /\ k.pc \in Dispatched => A[k.attempt].state = "DISPATCHING" /\ A[k.attempt].fence = 1
    /\ k.pc \in Reported => Reportable(k.report, A[k.attempt].bound, B[k.attempt])
    /\ k.pc = "done" /\ k.req # Null => Q[k.req].row # Null

CallsAgree == \A c \in Callers : Agrees(caller[c], attempts, requests, bill)

(* A request has one caller.                                                *)
OneCaller ==
    \A c, d \in Callers :
        caller[c].req = caller[d].req /\ caller[c].req # Null => c = d

(* Nothing is billed before its dispatch, and a known charge covers the     *)
(* bill.                                                                    *)
BillFits(a) ==
    /\ a \notin DOMAIN attempts => bill[a] = 0
    /\ a \in DOMAIN attempts =>
          /\ attempts[a].state \in {"RESERVED", "CANCELLED"} => bill[a] = 0
          /\ attempts[a].state \in {"SETTLED", "BREACH"} => bill[a] <= attempts[a].charge
BillsFit == \A a \in Attempts : BillFits(a)

EngineInv == EngineTypes /\ CallsAgree /\ OneCaller /\ BillsFit

-------------------------------------------------------------------------------
(* What a step leaves to others *)

(* A step that is made for the requests R: elsewhere it adds no attempt and *)
(* bills none, rows stay linked, and an attempt moves only when its outcome *)
(* was uncertain.                                                           *)
OnlyFor(R) ==
    /\ DOMAIN requests \subseteq DOMAIN requests'
    /\ \A r \in DOMAIN requests : requests[r].row # Null => requests'[r].row # Null
    /\ DOMAIN attempts \subseteq DOMAIN attempts'
    /\ \A a \in DOMAIN attempts' \ DOMAIN attempts : attempts'[a].request \in R
    /\ \A a \in DOMAIN attempts :
          /\ attempts'[a].request = attempts[a].request
          /\ attempts[a].request \notin R =>
                /\ bill'[a] = bill[a]
                /\ attempts[a].state # "UNCERTAIN" => attempts'[a] = attempts[a]

(* A call agrees with the ledger after a step made for others.              *)
LEMMA OthersAgree ==
    ASSUME NEW k, Agrees(k, attempts, requests, bill), NEW R, OnlyFor(R), k.req \notin R
    PROVE  Agrees(k, attempts', requests', bill')
<1>1. ASSUME k.pc \in Holding \cup Dispatched
      PROVE  /\ k.attempt \in DOMAIN attempts /\ k.attempt \in DOMAIN attempts'
             /\ attempts'[k.attempt] = attempts[k.attempt]
             /\ bill'[k.attempt] = bill[k.attempt]
    BY <1>1 DEF Agrees, OnlyFor, Holding, Dispatched, Reported
<1>2. ASSUME k.pc \in Choosing, k.req # Null, NEW a \in DOMAIN attempts',
             attempts'[a].request = k.req
      PROVE  attempts'[a].state \in {"SETTLED", "CANCELLED"}
    BY <1>2 DEF Agrees, OnlyFor
<1> QED
    BY <1>1, <1>2 DEF Agrees, OnlyFor, Holding, Dispatched, Reported

(* One call moves on, for requests that no other call has.                  *)
LEMMA CallMoves ==
    ASSUME EngineInv, NEW c \in Callers, NEW k \in CallRecords,
           caller' = [caller EXCEPT ![c] = k],
           NEW R, OnlyFor(R), \A d \in Callers \ {c} : caller[d].req \notin R,
           \/ k.req = caller[c].req
           \/ \A d \in Callers : caller[d].req # k.req,
           Agrees(k, attempts', requests', bill'),
           bill' \in [Attempts -> Nat], BillsFit'
    PROVE  EngineInv'
<1>1. /\ caller'[c] = k /\ caller' \in [Callers -> CallRecords]
      /\ \A d \in Callers \ {c} : caller'[d] = caller[d]
    BY DEF EngineInv, EngineTypes
<1>2. ASSUME NEW d \in Callers \ {c}
      PROVE  Agrees(caller[d], attempts', requests', bill')
    BY OthersAgree DEF EngineInv, CallsAgree
<1>3. CallsAgree'
    BY <1>1, <1>2 DEF CallsAgree
<1>4. OneCaller'
    BY <1>1 DEF EngineInv, OneCaller
<1> QED
    BY <1>1, <1>3, <1>4 DEF EngineInv, EngineTypes

(* A call moves on by itself.                                               *)
LEMMA CallMovesAlone ==
    ASSUME EngineInv, NEW c \in Callers, NEW k \in CallRecords,
           caller' = [caller EXCEPT ![c] = k], k.req = caller[c].req,
           UNCHANGED <<attempts, requests, bill>>,
           Agrees(k, attempts, requests, bill)
    PROVE  EngineInv'
<1>1. OnlyFor({})
    BY DEF OnlyFor
<1>2. bill' \in [Attempts -> Nat] /\ BillsFit'
    BY DEF EngineInv, EngineTypes, BillsFit, BillFits
<1> QED
    BY <1>1, <1>2, CallMoves

(* Goto changes the program counter and nothing else.                       *)
Gone(k, old, p) ==
    /\ k.pc = p /\ k.chain = old.chain /\ k.req = old.req /\ k.attempt = old.attempt
    /\ k.report = old.report /\ k.paid = old.paid /\ k.cancelled = old.cancelled

LEMMA GotoMoves ==
    ASSUME EngineTypes, NEW c \in Callers, NEW p \in Points, Goto(c, p)
    PROVE  \E k \in CallRecords :
              caller' = [caller EXCEPT ![c] = k] /\ Gone(k, caller[c], p)
<1> DEFINE k == [caller[c] EXCEPT !.pc = p]
<1>1. caller[c] \in CallRecords
    BY DEF EngineTypes
<1>2. k \in CallRecords /\ Gone(k, caller[c], p)
    BY <1>1 DEF CallRecords, Gone
<1>3. caller' = [caller EXCEPT ![c] = k]
    BY DEF Goto, EngineTypes
<1> QED
    BY <1>2, <1>3

-------------------------------------------------------------------------------
(* Steps of a call that change nothing in the ledger but, at most, the      *)
(* freeze                                                                   *)

RowsUnchanged == UNCHANGED <<attempts, requests, bill>>

LEMMA LedgerAside ==
    ASSUME LedgerUnchanged \/ DetectBackwardClock \/ Freeze, BillUnchanged
    PROVE  RowsUnchanged
BY DEF LedgerUnchanged, DetectBackwardClock, Freeze, BillUnchanged, RowsUnchanged, vars

(* From where a call stands it may always give up, or go and write its row; *)
(* and past its row nothing is asked of it.                                 *)
Ends == {"write", "failed", "aborted", "crashed",
         "refused", "written", "cleanup", "save", "saved", "unsaved"}

LEMMA GiveUp ==
    ASSUME EngineInv, NEW c \in Callers, NEW p \in Ends, Goto(c, p), RowsUnchanged
    PROVE  EngineInv'
<1>1. PICK k \in CallRecords :
         caller' = [caller EXCEPT ![c] = k] /\ Gone(k, caller[c], p)
    <2>1. p \in Points
        BY DEF Ends, Points
    <2> QED
        BY <2>1, GotoMoves DEF EngineInv
<1>2. Agrees(k, attempts, requests, bill)
    BY <1>1 DEF Agrees, Gone, Ends, EngineInv, CallsAgree, Choosing, Holding,
                Dispatched, Reported
<1> QED
    BY <1>1, <1>2, CallMovesAlone DEF RowsUnchanged, Gone

(* And it moves on inside one stage.                                        *)
LEMMA MoveOn ==
    ASSUME EngineInv, NEW c \in Callers, NEW p \in Points, Goto(c, p), RowsUnchanged,
           \/ caller[c].pc \in Holding /\ p \in Holding
           \/ caller[c].pc \in Reported /\ p \in Reported
    PROVE  EngineInv'
<1>1. PICK k \in CallRecords :
         caller' = [caller EXCEPT ![c] = k] /\ Gone(k, caller[c], p)
    BY GotoMoves DEF EngineInv
<1>2. Agrees(caller[c], attempts, requests, bill)
    BY DEF EngineInv, CallsAgree
<1>3. Agrees(k, attempts, requests, bill)
    BY <1>1, <1>2 DEF Agrees, Gone, Choosing, Holding, Dispatched, Reported
<1> QED
    BY <1>1, <1>3, CallMovesAlone DEF RowsUnchanged, Gone

LEMMA StartStep ==
    ASSUME EngineInv, NEW c \in Callers, Start(c)
    PROVE  EngineInv'
<1>1. PICK chain \in Chains :
         caller' = [caller EXCEPT ![c].pc = "next", ![c].chain = chain]
    BY DEF Start
<1> DEFINE j == [caller[c] EXCEPT !.pc = "next"]
           k == [j EXCEPT !.chain = chain]
<1>2. caller[c] \in CallRecords /\ Agrees(caller[c], attempts, requests, bill)
    BY DEF EngineInv, EngineTypes, CallsAgree
<1>3. chain \in Seq({"local", "paid"}) /\ chain # <<>>
    BY EngineAssumption
<1>4. j \in CallRecords /\ j.pc = "next" /\ j.req = caller[c].req
    BY <1>2 DEF CallRecords, Points
<1>5. caller' = [caller EXCEPT ![c] = k]
    BY <1>1, <1>2 DEF EngineInv, EngineTypes
<1> HIDE DEF j
<1>7. /\ k \in CallRecords /\ k.pc = "next" /\ k.chain = chain
      /\ k.req = caller[c].req
    BY <1>3, <1>4 DEF CallRecords
<1>6. k.req = Null
    BY <1>2, <1>7 DEF Start, At, Agrees
<1> HIDE DEF k
<1>8. Agrees(k, attempts, requests, bill)
    BY <1>3, <1>6, <1>7 DEF Agrees, Choosing, Holding, Dispatched, Reported
<1> QED
    BY <1>5, <1>8, <1>7, CallMovesAlone DEF Start, LedgerUnchanged, BillUnchanged, vars

LEMMA SetCancelledStep ==
    ASSUME EngineInv, NEW c \in Callers, SetCancelled(c)
    PROVE  EngineInv'
<1> DEFINE k == [caller[c] EXCEPT !.cancelled = TRUE]
<1>1. caller[c] \in CallRecords /\ Agrees(caller[c], attempts, requests, bill)
    BY DEF EngineInv, EngineTypes, CallsAgree
<1>2. k \in CallRecords /\ k.pc = caller[c].pc /\ k.chain = caller[c].chain
      /\ k.req = caller[c].req /\ k.attempt = caller[c].attempt
      /\ k.report = caller[c].report
    BY <1>1 DEF CallRecords
<1>3. caller' = [caller EXCEPT ![c] = k]
    BY DEF SetCancelled, EngineInv, EngineTypes
<1> HIDE DEF k
<1>4. Agrees(k, attempts, requests, bill)
    BY <1>1, <1>2 DEF Agrees
<1> QED
    BY <1>2, <1>3, <1>4, CallMovesAlone
       DEF SetCancelled, LedgerUnchanged, BillUnchanged, vars

(* A local candidate that fails leaves the rest of the chain.               *)
LEMMA TailOfChain ==
    ASSUME NEW S, NEW s \in Seq(S), s # <<>>, Len(s) # 1
    PROVE  Tail(s) \in Seq(S) /\ Tail(s) # <<>>
<1>1. Tail(s) \in Seq(S) /\ Len(Tail(s)) = Len(s) - 1 /\ Len(s) \in Nat
    BY HeadTailProperties, LenProperties
<1>2. Len(s) > 1
    BY <1>1, EmptySeq
<1>3. Len(Tail(s)) # 0
    BY <1>1, <1>2
<1>4. Tail(s) # <<>>
    <2>1. Len(<<>>) = 0
        BY EmptySeq
    <2> QED
        BY <1>3, <2>1, Zenon
<1> QED
    BY <1>1, <1>4

LEMMA LocalCallStep ==
    ASSUME EngineInv, NEW c \in Callers, LocalCall(c)
    PROVE  EngineInv'
<1>1. RowsUnchanged
    BY LedgerAside DEF LocalCall
<1>2. CASE Goto(c, "write")
    BY <1>1, <1>2, GiveUp DEF Ends
<1>3. CASE ~LastCandidate(c) /\ caller' = [caller EXCEPT ![c].chain = Tail(@)]
    <2> DEFINE rest == Tail(caller[c].chain)
               k == [caller[c] EXCEPT !.chain = rest]
    <2>1. caller[c] \in CallRecords /\ Agrees(caller[c], attempts, requests, bill)
        BY DEF EngineInv, EngineTypes, CallsAgree
    <2>2. caller[c].chain \in Seq({"local", "paid"}) /\ caller[c].chain # <<>>
        BY <2>1 DEF CallRecords, Agrees, LocalCall, At, Choosing
    <2>3. rest \in Seq({"local", "paid"}) /\ rest # <<>>
        BY <1>3, <2>2, TailOfChain DEF LastCandidate
    <2>4. caller' = [caller EXCEPT ![c] = k]
        BY <1>3 DEF EngineInv, EngineTypes
    <2> HIDE DEF rest
    <2>5. /\ k \in CallRecords /\ k.pc = caller[c].pc /\ k.chain = rest
          /\ k.req = caller[c].req /\ k.attempt = caller[c].attempt
          /\ k.report = caller[c].report
        BY <2>1, <2>3 DEF CallRecords
    <2> HIDE DEF k
    <2>6. Agrees(k, attempts, requests, bill)
        BY <2>1, <2>3, <2>5 DEF Agrees
    <2> QED
        BY <1>1, <2>4, <2>5, <2>6, CallMovesAlone DEF RowsUnchanged
<1> QED
    BY <1>2, <1>3 DEF LocalCall

LEMMA RefusePaidStep ==
    ASSUME EngineInv, NEW c \in Callers, RefusePaid(c)
    PROVE  EngineInv'
BY LedgerAside, GiveUp DEF RefusePaid, Ends

LEMMA RefuseDispatchStep ==
    ASSUME EngineInv, NEW c \in Callers, RefuseDispatch(c)
    PROVE  EngineInv'
BY LedgerAside, MoveOn DEF RefuseDispatch, At, Holding, Points

LEMMA FreezeLedgerStep ==
    ASSUME EngineInv, NEW c \in Callers, FreezeLedger(c)
    PROVE  EngineInv'
BY LedgerAside, MoveOn DEF FreezeLedger, At, Reported, Points

LEMMA LinkRefusedStep ==
    ASSUME EngineInv, NEW c \in Callers, LinkRefused(c)
    PROVE  EngineInv'
BY LedgerAside, GiveUp DEF LinkRefused, Ends

LEMMA StorageErrorStep ==
    ASSUME EngineInv, NEW c \in Callers, StorageError(c)
    PROVE  EngineInv'
BY LedgerAside, GiveUp DEF StorageError, Ends

LEMMA CrashStep ==
    ASSUME EngineInv, NEW c \in Callers, Crash(c)
    PROVE  EngineInv'
BY LedgerAside, GiveUp DEF Crash, Ends

(* A call without a request may be done without a row.                      *)
LEMMA DoneUnpaid ==
    ASSUME EngineInv, NEW c \in Callers, Goto(c, "done"), caller[c].req = Null,
           RowsUnchanged
    PROVE  EngineInv'
<1>1. PICK k \in CallRecords :
         caller' = [caller EXCEPT ![c] = k] /\ Gone(k, caller[c], "done")
    BY GotoMoves DEF EngineInv, Points
<1>2. Agrees(k, attempts, requests, bill)
    BY <1>1 DEF Agrees, Gone, Choosing, Holding, Dispatched, Reported
<1> QED
    BY <1>1, <1>2, CallMovesAlone DEF RowsUnchanged, Gone

LEMMA SkipRowStep ==
    ASSUME EngineInv, NEW c \in Callers, SkipRow(c)
    PROVE  EngineInv'
BY LedgerAside, DoneUnpaid DEF SkipRow, MaySkipRow

LEMMA WriteLocalRowStep ==
    ASSUME EngineInv, NEW c \in Callers, WriteLocalRow(c)
    PROVE  EngineInv'
BY DoneUnpaid DEF WriteLocalRow, WriteUsage, RowsUnchanged, BillUnchanged

-------------------------------------------------------------------------------
(* Transport *)

(* The request of a call that holds an attempt is in the table.             *)
LEMMA HasRequest ==
    ASSUME Inv, EngineInv, NEW c \in Callers, caller[c].pc \in Holding \cup Dispatched
    PROVE  /\ caller[c].attempt \in DOMAIN attempts
           /\ attempts[caller[c].attempt].request = caller[c].req
           /\ caller[c].req # Null /\ caller[c].req \in DOMAIN requests
           /\ \A d \in Callers \ {c} : caller[d].req \notin {caller[c].req}
<1>1. Agrees(caller[c], attempts, requests, bill)
    BY DEF EngineInv, CallsAgree
<1>2. /\ caller[c].attempt \in DOMAIN attempts
      /\ attempts[caller[c].attempt].request = caller[c].req
    BY <1>1 DEF Agrees
<1>3. caller[c].req \in DOMAIN requests /\ DOMAIN requests \subseteq Requests
    BY <1>2 DEF Inv, TypeOK
<1> QED
    BY <1>2, <1>3, LedgerAssumption DEF EngineInv, OneCaller

LEMMA TransmitStep ==
    ASSUME Inv, EngineInv, NEW c \in Callers, Transmit(c)
    PROVE  EngineInv'
<1> DEFINE a == caller[c].attempt
<1>1. PICK amount \in Amounts \cup {0} : bill' = [bill EXCEPT ![a] = @ + amount]
    BY DEF Transmit
<1>2. PICK k \in CallRecords :
         caller' = [caller EXCEPT ![c] = k] /\ Gone(k, caller[c], "waiting")
    BY GotoMoves DEF EngineInv, Points, Transmit
<1>3. Agrees(caller[c], attempts, requests, bill) /\ caller[c].pc = "transmit"
    BY DEF EngineInv, CallsAgree, Transmit, At
<1>4. UNCHANGED <<attempts, requests>>
    BY DEF Transmit, LedgerUnchanged, vars
<1>5. /\ a \in DOMAIN attempts /\ attempts[a].request = caller[c].req
      /\ attempts[a].state = "DISPATCHING"
      /\ \A d \in Callers \ {c} : caller[d].req \notin {caller[c].req}
    BY <1>3, HasRequest DEF Agrees, Dispatched
<1>6. /\ bill' \in [Attempts -> Nat] /\ \A b \in Attempts : b # a => bill'[b] = bill[b]
    <2>1. amount \in Nat
        BY LedgerAssumption, MaxNanosAssumption DEF Nanos
    <2> QED
        BY <1>1, <1>5, <2>1 DEF EngineInv, EngineTypes, Inv, TypeOK
<1>7. OnlyFor({caller[c].req})
    BY <1>4, <1>5, <1>6 DEF OnlyFor, Inv, TypeOK
<1>8. Agrees(k, attempts', requests', bill')
    BY <1>2, <1>3, <1>4 DEF Agrees, Gone, Choosing, Holding, Dispatched, Reported
<1>9. BillsFit'
    BY <1>4, <1>5, <1>6 DEF EngineInv, BillsFit, BillFits
<1> QED
    BY <1>2, <1>5, <1>6, <1>7, <1>8, <1>9, CallMoves DEF Gone

LEMMA ReceiveStep ==
    ASSUME EngineInv, NEW c \in Callers, Receive(c)
    PROVE  EngineInv'
<1> DEFINE next(report) == IF report.kind = "violation" THEN "freeze" ELSE "settle"
           told(report) == [caller[c] EXCEPT !.report = report]
<1>1. PICK report \in Reports(caller[c].attempt) :
         caller' = [caller EXCEPT ![c].report = report, ![c].pc = next(report)]
    BY DEF Receive
<1> DEFINE j == told(report)
           k == [j EXCEPT !.pc = next(report)]
<1>2. /\ caller[c] \in CallRecords /\ Agrees(caller[c], attempts, requests, bill)
      /\ caller[c].pc = "waiting"
    BY DEF EngineInv, EngineTypes, CallsAgree, Receive, At
<1>3. /\ report \in ReportRecords
      /\ Reportable(report, attempts[caller[c].attempt].bound, bill[caller[c].attempt])
    <2>1. Amounts \subseteq Nanos /\ 0 \in Nanos
        BY LedgerAssumption, MaxNanosAssumption DEF Nanos
    <2> QED
        BY <2>1 DEF Reports, ReportRecords
<1>4. /\ j \in CallRecords /\ j.report = report /\ j.chain = caller[c].chain
      /\ j.req = caller[c].req /\ j.attempt = caller[c].attempt
    BY <1>2, <1>3 DEF CallRecords
<1>5. caller' = [caller EXCEPT ![c] = k]
    BY <1>1, <1>2 DEF EngineInv, EngineTypes
<1>6. next(report) \in Reported
    BY DEF Reported
<1> HIDE DEF j, next
<1>7. /\ k \in CallRecords /\ k.pc = next(report) /\ k.report = report
      /\ k.chain = caller[c].chain /\ k.req = caller[c].req
      /\ k.attempt = caller[c].attempt
    BY <1>4, <1>6 DEF CallRecords, Reported, Points
<1> HIDE DEF k
<1>8. Agrees(k, attempts, requests, bill)
    BY <1>2, <1>3, <1>6, <1>7 DEF Agrees, Choosing, Holding, Dispatched, Reported
<1> QED
    BY <1>5, <1>7, <1>8, CallMovesAlone DEF Receive, LedgerUnchanged, BillUnchanged, vars

-------------------------------------------------------------------------------
(* Outcomes *)

(* One attempt moves on, with the next fence, in the request it has.        *)
Steps(a, state, charge) ==
    /\ UNCHANGED requests
    /\ DOMAIN attempts' = DOMAIN attempts
    /\ \A b \in DOMAIN attempts : b # a => attempts'[b] = attempts[b]
    /\ attempts'[a].state = state /\ attempts'[a].charge = charge
    /\ attempts'[a].request = attempts[a].request
    /\ attempts'[a].bound = attempts[a].bound
    /\ attempts'[a].fence = attempts[a].fence + 1

LEMMA DispatchSteps ==
    ASSUME Inv, NEW a \in DOMAIN attempts, NEW fence, BeginDispatch(a, fence)
    PROVE  Steps(a, "DISPATCHING", attempts[a].charge)
<1>1. attempts \in [DOMAIN attempts -> AttemptRows] /\ attempts[a] \in AttemptRows
    BY DEF Inv, TypeOK
<1> QED
    BY <1>1 DEF BeginDispatch, Steps, AttemptRows

LEMMA CancelSteps ==
    ASSUME Inv, NEW a \in DOMAIN attempts, NEW fence, Cancel(a, fence)
    PROVE  Steps(a, "CANCELLED", attempts[a].charge)
<1>1. attempts \in [DOMAIN attempts -> AttemptRows] /\ attempts[a] \in AttemptRows
    BY DEF Inv, TypeOK
<1> QED
    BY <1>1 DEF Cancel, Steps, AttemptRows

Outcome(a, charge) ==
    IF charge = Null THEN "UNCERTAIN"
    ELSE IF ExceedsBound(a, charge) THEN "BREACH" ELSE "SETTLED"

LEMMA TerminalSteps ==
    ASSUME Inv, NEW a \in DOMAIN attempts, NEW charge, Terminal(a, charge)
    PROVE  Steps(a, Outcome(a, charge), charge)
<1>1. attempts \in [DOMAIN attempts -> AttemptRows] /\ attempts[a] \in AttemptRows
    BY DEF Inv, TypeOK
<1> DEFINE state == Outcome(a, charge)
<1>2. attempts' = [attempts EXCEPT ![a].state = state, ![a].charge = charge,
                                   ![a].fence = @ + 1]
      /\ UNCHANGED requests
    BY DEF Terminal, Outcome
<1> HIDE DEF state
<1>3. Steps(a, state, charge)
    BY <1>1, <1>2 DEF Steps, AttemptRows
<1> QED
    BY <1>3 DEF state

(* Such a step of its own attempt, with no bill, is made for one request.   *)
LEMMA StepsOnlyFor ==
    ASSUME Inv, NEW a \in DOMAIN attempts, NEW state, NEW charge, Steps(a, state, charge),
           UNCHANGED bill, attempts[a].request \in DOMAIN requests
    PROVE  OnlyFor({attempts[a].request})
BY DEF Steps, OnlyFor

LEMMA DispatchStep ==
    ASSUME Inv, EngineInv, NEW c \in Callers, Dispatch(c)
    PROVE  EngineInv'
<1> DEFINE a == caller[c].attempt
<1>1. Agrees(caller[c], attempts, requests, bill) /\ caller[c].pc = "reserved"
    BY DEF EngineInv, CallsAgree, Dispatch, At
<1>2. /\ a \in DOMAIN attempts /\ attempts[a].request = caller[c].req
      /\ attempts[a].request \in DOMAIN requests /\ attempts[a].fence = 0
      /\ \A d \in Callers \ {c} : caller[d].req \notin {caller[c].req}
    BY <1>1, HasRequest DEF Holding, Agrees
<1>3. Steps(a, "DISPATCHING", attempts[a].charge) /\ UNCHANGED bill
    BY <1>2, DispatchSteps DEF Dispatch, BillUnchanged
<1>4. PICK k \in CallRecords :
         caller' = [caller EXCEPT ![c] = k] /\ Gone(k, caller[c], "transmit")
    BY GotoMoves DEF EngineInv, Points, Dispatch
<1>5. Agrees(k, attempts', requests', bill')
    BY <1>1, <1>2, <1>3, <1>4
       DEF Agrees, Gone, Steps, Choosing, Holding, Dispatched, Reported
<1>6. BillsFit' /\ bill' \in [Attempts -> Nat]
    BY <1>2, <1>3 DEF EngineInv, EngineTypes, BillsFit, BillFits, Steps
<1> QED
    BY <1>2, <1>3, <1>4, <1>5, <1>6, StepsOnlyFor, CallMoves DEF Gone

LEMMA CancelReservedStep ==
    ASSUME Inv, EngineInv, NEW c \in Callers, CancelReserved(c)
    PROVE  EngineInv'
<1> DEFINE a == caller[c].attempt
<1>1. Agrees(caller[c], attempts, requests, bill) /\ caller[c].pc = "cancel"
    BY DEF EngineInv, CallsAgree, CancelReserved, At
<1>2. /\ a \in DOMAIN attempts /\ attempts[a].request = caller[c].req
      /\ attempts[a].request \in DOMAIN requests /\ attempts[a].state = "RESERVED"
      /\ \A d \in Callers \ {c} : caller[d].req \notin {caller[c].req}
    BY <1>1, HasRequest DEF Holding, Agrees
<1>3. Steps(a, "CANCELLED", attempts[a].charge) /\ UNCHANGED bill
    BY <1>2, CancelSteps DEF CancelReserved, BillUnchanged
<1>4. PICK k \in CallRecords :
         caller' = [caller EXCEPT ![c] = k] /\ Gone(k, caller[c], "write")
    BY GotoMoves DEF EngineInv, Points, CancelReserved
<1>5. Agrees(k, attempts', requests', bill')
    BY <1>1, <1>2, <1>3, <1>4
       DEF Agrees, Gone, Steps, Choosing, Holding, Dispatched, Reported
<1>6. BillsFit' /\ bill' \in [Attempts -> Nat]
    BY <1>2, <1>3 DEF EngineInv, EngineTypes, BillsFit, BillFits, Steps
<1> QED
    BY <1>2, <1>3, <1>4, <1>5, <1>6, StepsOnlyFor, CallMoves DEF Gone

(* The record of a call after a settlement.                                 *)
SettledCall(old, paid, chain, pc) ==
    [old EXCEPT !.paid = paid, !.chain = chain, !.report = NoReport, !.pc = pc]

LEMMA SettledRecord ==
    ASSUME NEW old \in CallRecords, NEW paid \in Nat, NEW chain \in Seq({"local", "paid"}),
           NEW pc \in Points
    PROVE  LET k == SettledCall(old, paid, chain, pc)
           IN  /\ k \in CallRecords /\ k.pc = pc /\ k.chain = chain
               /\ k.req = old.req /\ k.attempt = old.attempt /\ k.paid = paid
<1> DEFINE k1 == [old EXCEPT !.paid = paid]
           k2 == [k1 EXCEPT !.chain = chain]
           k3 == [k2 EXCEPT !.report = NoReport]
           k4 == [k3 EXCEPT !.pc = pc]
<1>1. k1 \in CallRecords /\ k1.req = old.req /\ k1.attempt = old.attempt /\ k1.paid = paid
    BY DEF CallRecords
<1>2. k4 = SettledCall(old, paid, chain, pc)
    BY DEF SettledCall
<1> HIDE DEF k1
<1>3. /\ k2 \in CallRecords /\ k2.req = old.req /\ k2.attempt = old.attempt
      /\ k2.paid = paid /\ k2.chain = chain
    BY <1>1 DEF CallRecords
<1> HIDE DEF k2
<1>4. /\ k3 \in CallRecords /\ k3.req = old.req /\ k3.attempt = old.attempt
      /\ k3.paid = paid /\ k3.chain = chain
    <2>1. NoReport \in ReportRecords
        BY DEF NoReport, Report, ReportRecords
    <2> QED
        BY <1>3, <2>1 DEF CallRecords
<1> HIDE DEF k3
<1>5. /\ k4 \in CallRecords /\ k4.req = old.req /\ k4.attempt = old.attempt
      /\ k4.paid = paid /\ k4.chain = chain /\ k4.pc = pc
    BY <1>4 DEF CallRecords
<1> HIDE DEF k4
<1> QED
    BY <1>2, <1>5

LEMMA SettleAttemptStep ==
    ASSUME Inv, OneOpenAttempt, EngineInv, NEW c \in Callers, SettleAttempt(c)
    PROVE  EngineInv'
<1> DEFINE a == caller[c].attempt
           report == caller[c].report
           again == RetryAllowed(report) /\ ~LastCandidate(c)
           chain == IF again THEN Tail(caller[c].chain) ELSE caller[c].chain
           pc == IF report.kind = "interrupt" THEN "aborted"
                 ELSE IF again THEN "next" ELSE "write"
           paid == PaidSoFar(c)
           charge == report.charge
<1>1. /\ Agrees(caller[c], attempts, requests, bill) /\ caller[c].pc = "settle"
      /\ caller[c] \in CallRecords
    BY DEF EngineInv, EngineTypes, CallsAgree, SettleAttempt, At
<1>2. /\ a \in DOMAIN attempts /\ attempts[a].request = caller[c].req
      /\ attempts[a].request \in DOMAIN requests /\ attempts[a].state = "DISPATCHING"
      /\ \A d \in Callers \ {c} : caller[d].req \notin {caller[c].req}
      /\ Reportable(report, attempts[a].bound, bill[a])
      /\ attempts[a].bound \in Nat /\ bill[a] \in Nat
    <2>1. /\ a \in DOMAIN attempts /\ attempts[a].request = caller[c].req
          /\ attempts[a].request \in DOMAIN requests
          /\ \A d \in Callers \ {c} : caller[d].req \notin {caller[c].req}
        BY <1>1, HasRequest DEF Dispatched, Reported
    <2>2. attempts[a].state = "DISPATCHING" /\ Reportable(report, attempts[a].bound, bill[a])
        BY <1>1 DEF Agrees, Dispatched, Reported
    <2>3. attempts[a].bound \in Nat /\ bill[a] \in Nat
        BY <2>1, MaxNanosAssumption DEF Inv, TypeOK, AttemptRows, Nanos, EngineInv, EngineTypes
    <2> QED
        BY <2>1, <2>2, <2>3
<1>3. /\ report \in ReportRecords /\ charge \in Nanos \cup {Null} /\ paid \in Nat
      /\ charge # Null => charge \in Nat
    <2>1. report \in ReportRecords /\ caller[c].paid \in Nat
        BY <1>1 DEF CallRecords
    <2>2. charge \in Nanos \cup {Null} /\ (charge # Null => charge \in Nat)
        BY <2>1, MaxNanosAssumption DEF ReportRecords, Nanos
    <2> QED
        BY <2>1, <2>2 DEF PaidSoFar
<1>4. chain \in Seq({"local", "paid"}) /\ (again => chain # <<>>)
    <2>1. caller[c].chain \in Seq({"local", "paid"}) /\ caller[c].chain # <<>>
        BY <1>1 DEF CallRecords, Agrees, Dispatched, Reported
    <2> QED
        BY <2>1, TailOfChain DEF LastCandidate
<1>5. pc \in {"aborted", "next", "write"} /\ (pc = "next" => again)
    OBVIOUS
<1>6. Steps(a, Outcome(a, charge), charge) /\ UNCHANGED bill
    <2>1. Terminal(a, charge) /\ UNCHANGED bill
        BY DEF SettleAttempt, Settle, BillUnchanged, ChargeSettled
    <2> QED
        BY <1>2, <2>1, TerminalSteps
<1>7. caller' = [caller EXCEPT ![c] = [caller[c] EXCEPT !.paid = paid, !.chain = chain,
                                             !.report = NoReport, !.pc = pc]]
    BY DEF SettleAttempt, EngineInv, EngineTypes
<1>8. again => Outcome(a, charge) = "SETTLED"
    BY <1>2, <1>3 DEF RetryAllowed, Reportable, Outcome, ExceedsBound
<1>9. \A b \in DOMAIN attempts : b # a /\ attempts[b].request = caller[c].req =>
         attempts[b].state \in {"SETTLED", "CANCELLED"}
    <2>1. \A b \in DOMAIN attempts :
             attempts[b].state \in Unresolved \cup {"SETTLED", "CANCELLED", "BREACH"}
        BY DEF Inv, TypeOK, AttemptRows
    <2> QED
        BY <1>2, <2>1 DEF OneOpenAttempt, Unresolved
<1>10. bill' \in [Attempts -> Nat] /\ BillsFit'
    <2>1. charge # Null => bill[a] <= charge
        BY <1>2 DEF Reportable
    <2>2. Outcome(a, charge) \notin {"RESERVED", "CANCELLED"}
          /\ (Outcome(a, charge) \in {"SETTLED", "BREACH"} => charge # Null)
        BY DEF Outcome
    <2> QED
        BY <1>2, <1>6, <2>1, <2>2 DEF EngineInv, EngineTypes, BillsFit, BillFits, Steps
<1> HIDE DEF chain, pc, paid, again
<1>11. PICK k \in CallRecords :
          /\ caller' = [caller EXCEPT ![c] = k]
          /\ k.pc = pc /\ k.chain = chain /\ k.req = caller[c].req
    <2> DEFINE k == SettledCall(caller[c], paid, chain, pc)
    <2>1. caller[c] \in CallRecords /\ pc \in Points
        BY <1>1, <1>5 DEF Points
    <2>2. k \in CallRecords /\ k.pc = pc /\ k.chain = chain /\ k.req = caller[c].req
        BY <1>3, <1>4, <2>1, SettledRecord
    <2>3. caller' = [caller EXCEPT ![c] = k]
        BY <1>7 DEF SettledCall
    <2> HIDE DEF k
    <2> QED
        BY <2>2, <2>3
<1>12. Agrees(k, attempts', requests', bill')
    <2>1. k.req # Null => k.req \in DOMAIN requests
        BY <1>1, <1>11 DEF Agrees
    <2>2. k.pc = "next" =>
             \A b \in DOMAIN attempts : attempts'[b].request = k.req =>
                attempts'[b].state \in {"SETTLED", "CANCELLED"}
        BY <1>2, <1>5, <1>6, <1>8, <1>9, <1>11 DEF Steps
    <2> QED
        BY <1>4, <1>5, <1>6, <1>11, <2>1, <2>2
           DEF Agrees, Steps, Choosing, Holding, Dispatched, Reported
<1> QED
    BY <1>2, <1>6, <1>10, <1>11, <1>12, StepsOnlyFor, CallMoves

-------------------------------------------------------------------------------
(* Reservation and rows *)

(* A call reserves attempt a for request r, new or its own.                 *)
LEMMA ReservedFor ==
    ASSUME Inv, EngineInv, NEW c \in Callers, NEW a \in FreshAttempts, NEW r \in Requests,
           DOMAIN attempts' = DOMAIN attempts \cup {a},
           \A b \in DOMAIN attempts : attempts'[b] = attempts[b],
           attempts'[a].state = "RESERVED", attempts'[a].request = r,
           attempts'[a].fence = 0,
           DOMAIN requests' = DOMAIN requests \cup {r},
           \A q \in DOMAIN requests : requests'[q] = requests[q],
           caller[c].req = r \/ r \notin DOMAIN requests,
           caller[c].pc = "next",
           NEW k \in CallRecords, caller' = [caller EXCEPT ![c] = k],
           k.pc = "reserved", k.req = r, k.attempt = a, k.chain = caller[c].chain,
           UNCHANGED bill
    PROVE  EngineInv'
<1>1. /\ Agrees(caller[c], attempts, requests, bill)
      /\ \A d \in Callers : caller[d].req # Null => caller[d].req \in DOMAIN requests
    BY DEF EngineInv, CallsAgree, Agrees
<1>2. OnlyFor({r})
    BY DEF OnlyFor, FreshAttempts
<1>3. \A d \in Callers \ {c} : caller[d].req \notin {r}
    BY <1>1, LedgerAssumption DEF EngineInv, OneCaller
<1>4. Agrees(k, attempts', requests', bill')
    BY <1>1 DEF Agrees, Choosing, Holding, Dispatched, Reported
<1>5. bill' \in [Attempts -> Nat] /\ BillsFit'
    BY DEF EngineInv, EngineTypes, BillsFit, BillFits, FreshAttempts
<1>6. k.req = caller[c].req \/ \A d \in Callers : caller[d].req # k.req
    BY <1>1, LedgerAssumption
<1> QED
    BY <1>2, <1>3, <1>4, <1>5, <1>6, CallMoves

(* The record of a call after a reservation, for a new request or for the   *)
(* one it has.                                                              *)
ReservedCall(old, r, a) == [old EXCEPT !.pc = "reserved", !.req = r, !.attempt = a]
RetriedCall(old, a) == [old EXCEPT !.pc = "reserved", !.attempt = a]

LEMMA ReservedRecord ==
    ASSUME NEW old \in CallRecords, NEW r \in Requests, NEW a \in Attempts
    PROVE  /\ LET k == ReservedCall(old, r, a)
              IN  /\ k \in CallRecords /\ k.pc = "reserved" /\ k.req = r
                  /\ k.attempt = a /\ k.chain = old.chain
           /\ LET k == RetriedCall(old, a)
              IN  /\ k \in CallRecords /\ k.pc = "reserved" /\ k.req = old.req
                  /\ k.attempt = a /\ k.chain = old.chain
<1> DEFINE k1 == [old EXCEPT !.pc = "reserved"]
           k2 == [k1 EXCEPT !.req = r]
           k3 == [k2 EXCEPT !.attempt = a]
           k4 == [k1 EXCEPT !.attempt = a]
<1>1. k1 \in CallRecords /\ k1.pc = "reserved" /\ k1.chain = old.chain /\ k1.req = old.req
    BY DEF CallRecords, Points
<1>2. k3 = ReservedCall(old, r, a) /\ k4 = RetriedCall(old, a)
    BY DEF ReservedCall, RetriedCall
<1> HIDE DEF k1
<1>3. k2 \in CallRecords /\ k2.pc = "reserved" /\ k2.chain = old.chain /\ k2.req = r
    BY <1>1 DEF CallRecords
<1>4. /\ k4 \in CallRecords /\ k4.pc = "reserved" /\ k4.chain = old.chain
      /\ k4.req = old.req /\ k4.attempt = a
    BY <1>1 DEF CallRecords
<1> HIDE DEF k2
<1>5. /\ k3 \in CallRecords /\ k3.pc = "reserved" /\ k3.chain = old.chain
      /\ k3.req = r /\ k3.attempt = a
    BY <1>3 DEF CallRecords
<1> HIDE DEF k3, k4
<1> QED
    BY <1>2, <1>4, <1>5

LEMMA ReservePaidStep ==
    ASSUME Inv, EngineInv, NEW c \in Callers, ReservePaid(c)
    PROVE  EngineInv'
<1>1. PICK a \in FreshAttempts, quote \in Quotes :
          \/ /\ caller[c].req = Null
             /\ \E r \in FreshRequests :
                   /\ Reserve({a}, [b \in {a} |-> r], [b \in {a} |-> quote])
                   /\ caller' = [caller EXCEPT ![c].pc = "reserved", ![c].req = r,
                                               ![c].attempt = a]
          \/ /\ caller[c].req # Null
             /\ Retry(a, caller[c].req, quote)
             /\ caller' = [caller EXCEPT ![c].pc = "reserved", ![c].attempt = a]
    BY DEF ReservePaid
<1>2. /\ caller[c] \in CallRecords /\ caller[c].pc = "next" /\ UNCHANGED bill
      /\ Agrees(caller[c], attempts, requests, bill)
    BY DEF EngineInv, EngineTypes, CallsAgree, ReservePaid, At, BillUnchanged
<1>3. a \in Attempts /\ a \notin DOMAIN attempts
    BY DEF FreshAttempts
<1>4. ASSUME NEW r \in FreshRequests,
             Reserve({a}, [b \in {a} |-> r], [b \in {a} |-> quote]),
             caller' = [caller EXCEPT ![c].pc = "reserved", ![c].req = r, ![c].attempt = a]
      PROVE  EngineInv'
    <2> DEFINE k == ReservedCall(caller[c], r, a)
    <2>1. r \in Requests /\ r \notin DOMAIN requests
        BY DEF FreshRequests
    <2>2. /\ k \in CallRecords /\ k.pc = "reserved" /\ k.req = r /\ k.attempt = a
          /\ k.chain = caller[c].chain
        BY <1>2, <1>3, <2>1, ReservedRecord
    <2>3. caller' = [caller EXCEPT ![c] = k]
        BY <1>4 DEF EngineInv, EngineTypes, ReservedCall
    <2>4. /\ DOMAIN attempts' = DOMAIN attempts \cup {a}
          /\ \A b \in DOMAIN attempts : attempts'[b] = attempts[b]
          /\ attempts'[a].state = "RESERVED" /\ attempts'[a].request = r
          /\ attempts'[a].fence = 0
        BY <1>3, <1>4 DEF Reserve, InsertReserved
    <2>5. /\ DOMAIN requests' = DOMAIN requests \cup {r}
          /\ \A q \in DOMAIN requests : requests'[q] = requests[q]
        BY <1>4 DEF Reserve, InsertRequests
    <2> HIDE DEF k
    <2> QED
        BY <1>2, <2>1, <2>2, <2>3, <2>4, <2>5, ReservedFor
<1>5. ASSUME caller[c].req # Null, Retry(a, caller[c].req, quote),
             caller' = [caller EXCEPT ![c].pc = "reserved", ![c].attempt = a]
      PROVE  EngineInv'
    <2> DEFINE k == RetriedCall(caller[c], a)
               r == caller[c].req
    <2>1. r \in DOMAIN requests /\ r \in Requests
        BY <1>2, <1>5 DEF Agrees, Inv, TypeOK
    <2>2. /\ k \in CallRecords /\ k.pc = "reserved" /\ k.req = r /\ k.attempt = a
          /\ k.chain = caller[c].chain
        BY <1>2, <1>3, <2>1, ReservedRecord
    <2>3. caller' = [caller EXCEPT ![c] = k]
        BY <1>5 DEF EngineInv, EngineTypes, RetriedCall
    <2>4. /\ DOMAIN attempts' = DOMAIN attempts \cup {a}
          /\ \A b \in DOMAIN attempts : attempts'[b] = attempts[b]
          /\ attempts'[a].state = "RESERVED" /\ attempts'[a].request = r
          /\ attempts'[a].fence = 0
        BY <1>3, <1>5 DEF Retry, InsertReserved
    <2>5. UNCHANGED requests /\ DOMAIN requests' = DOMAIN requests \cup {r}
        BY <1>5, <2>1 DEF Retry
    <2> HIDE DEF k
    <2> QED
        BY <1>2, <2>1, <2>2, <2>3, <2>4, <2>5, ReservedFor
<1> QED
    BY <1>1, <1>4, <1>5

(* A linked row finalizes the request of its call.                          *)
LEMMA LinkedDone ==
    ASSUME Inv, EngineInv, NEW c \in Callers, NEW p \in {"done", "written"}, Goto(c, p),
           caller[c].req # Null, NEW u \in Rows, NEW cost,
           LinkUsage(caller[c].req, u, cost), UNCHANGED bill
    PROVE  EngineInv'
<1> DEFINE r == caller[c].req
<1>1. PICK k \in CallRecords :
         caller' = [caller EXCEPT ![c] = k] /\ Gone(k, caller[c], p)
    <2>1. p \in Points
        BY DEF Points
    <2> QED
        BY <2>1, GotoMoves DEF EngineInv
<1>2. /\ r \in DOMAIN requests
      /\ \A d \in Callers \ {c} : caller[d].req \notin {r}
    BY DEF EngineInv, CallsAgree, Agrees, OneCaller
<1>3. requests \in [DOMAIN requests -> RequestRows] /\ u # Null
    BY LedgerAssumption DEF Inv, TypeOK
<1>4. /\ UNCHANGED attempts /\ DOMAIN requests' = DOMAIN requests
      /\ requests'[r].row = u
      /\ \A q \in DOMAIN requests : q # r => requests'[q] = requests[q]
    BY <1>2, <1>3 DEF LinkUsage, RequestRows
<1>5. OnlyFor({r})
    BY <1>3, <1>4 DEF OnlyFor
<1>6. Agrees(k, attempts', requests', bill')
    BY <1>1, <1>2, <1>3, <1>4 DEF Agrees, Gone, Choosing, Holding, Dispatched, Reported
<1>7. bill' \in [Attempts -> Nat] /\ BillsFit'
    BY <1>4 DEF EngineInv, EngineTypes, BillsFit, BillFits
<1> QED
    BY <1>1, <1>2, <1>5, <1>6, <1>7, CallMoves DEF Gone

LEMMA LinkRowStep ==
    ASSUME Inv, EngineInv, NEW c \in Callers, LinkRow(c)
    PROVE  EngineInv'
BY LinkedDone DEF LinkRow, BillUnchanged

(* The operator, the console and the clock: an uncertain attempt gets its   *)
(* outcome, every other stays.                                              *)
LEMMA SurroundingsStep ==
    ASSUME Inv, EngineInv, Surroundings
    PROVE  EngineInv'
<1>1. UNCHANGED <<caller, bill>>
    BY DEF Surroundings
<1>2. ASSUME OnlyFor({})
      PROVE  CallsAgree'
    BY <1>1, <1>2, OthersAgree DEF EngineInv, CallsAgree
<1>3. ASSUME UNCHANGED <<attempts, requests>>
      PROVE  EngineInv'
    BY <1>1, <1>3 DEF EngineInv, EngineTypes, CallsAgree, OneCaller, BillsFit, BillFits
<1>4. ASSUME NEW a \in DOMAIN attempts, NEW charge \in Amounts, charge >= bill[a],
             Reconcile(a, charge)
      PROVE  EngineInv'
    <2>1. charge # Null
        BY LedgerAssumption, MaxNanosAssumption DEF Nanos
    <2>2. Steps(a, Outcome(a, charge), charge) /\ attempts[a].state = "UNCERTAIN"
        BY <1>4, TerminalSteps DEF Reconcile, Reconcilable
    <2>3. OnlyFor({})
        BY <1>1, <2>2 DEF OnlyFor, Steps
    <2>4. BillsFit'
        <3>1. Outcome(a, charge) \in {"SETTLED", "BREACH"}
            BY <2>1 DEF Outcome
        <3>2. charge \in Nat /\ bill[a] \in Nat
            BY LedgerAssumption, MaxNanosAssumption
               DEF Nanos, EngineInv, EngineTypes, Inv, TypeOK
        <3> QED
            BY <1>1, <1>4, <2>2, <3>1, <3>2 DEF EngineInv, BillsFit, BillFits, Steps
    <2> QED
        BY <1>1, <1>2, <2>3, <2>4 DEF EngineInv, EngineTypes, OneCaller
<1>5. CASE \/ \E limit \in Limits, opening \in Openings : InitializePolicy(limit, opening)
           \/ \E u \in DOMAIN usage : DeleteUsageRow(u)
           \/ ClockStep
    BY <1>3, <1>5 DEF InitializePolicy, DeleteUsageRow, DeleteRows, ClockStep, Tick,
                      ClockStepBack
<1> QED
    BY <1>4, <1>5 DEF Surroundings

LEMMA WorkStep ==
    ASSUME Inv, OneOpenAttempt, EngineInv, NEW c \in Callers, Calls(c)
    PROVE  EngineInv'
BY StartStep, SetCancelledStep, LocalCallStep, ReservePaidStep, RefusePaidStep,
   DispatchStep, RefuseDispatchStep, CancelReservedStep, TransmitStep, ReceiveStep,
   FreezeLedgerStep, SettleAttemptStep, LinkRowStep, LinkRefusedStep, WriteLocalRowStep,
   SkipRowStep, StorageErrorStep, CrashStep
   DEF Calls, Work

-------------------------------------------------------------------------------
(* What the engine does to the ledger *)

(* Every step of a call is an operation of the ledger or leaves it alone.   *)
LEMMA CallsOperate ==
    ASSUME Inv, EngineInv, NEW c \in Callers, Calls(c)
    PROVE  [LedgerStep]_vars
<1> DEFINE a == caller[c].attempt
<1>1. Agrees(caller[c], attempts, requests, bill) /\ caller[c] \in CallRecords
    BY DEF EngineInv, EngineTypes, CallsAgree
<1>2. caller[c].pc \in Holding \cup Dispatched => a \in DOMAIN attempts
    BY <1>1 DEF Agrees
<1>3. ASSUME LedgerUnchanged \/ DetectBackwardClock \/ Freeze
      PROVE  [LedgerStep]_vars
    BY <1>3 DEF LedgerUnchanged, LedgerStep, PolicyStep
<1>4. CASE Dispatch(c) \/ CancelReserved(c) \/ SettleAttempt(c)
    <2>1. caller[c].report.charge \in Nanos \cup {Null}
        BY <1>1 DEF CallRecords, ReportRecords
    <2>2. Outcomes
        BY <1>2, <1>4, <2>1 DEF Dispatch, CancelReserved, SettleAttempt, At, Holding,
                                Dispatched, Reported, Outcomes, ChargeSettled
    <2> QED
        BY <2>2 DEF LedgerStep
<1>5. CASE ReservePaid(c)
    <2>1. ASSUME NEW b \in FreshAttempts, NEW r \in FreshRequests, NEW quote \in Quotes,
                 Reserve({b}, [x \in {b} |-> r], [x \in {b} |-> quote])
          PROVE  Admissions
        BY <2>1 DEF Admissions
    <2>2. ASSUME NEW b \in FreshAttempts, NEW quote \in Quotes, caller[c].req # Null,
                 Retry(b, caller[c].req, quote)
          PROVE  Admissions
        BY <1>1, <2>2 DEF Admissions, Agrees
    <2> QED
        BY <1>5, <2>1, <2>2 DEF ReservePaid, LedgerStep
<1>6. CASE LinkRow(c)
    <2>1. caller[c].paid \in Nat /\ (caller[c].req # Null => caller[c].req \in DOMAIN requests)
        BY <1>1 DEF CallRecords, Agrees
    <2>2. RowSteps
        BY <1>6, <2>1 DEF LinkRow, RowSteps
    <2> QED
        BY <2>2 DEF LedgerStep
<1>7. CASE WriteLocalRow(c)
    <2>1. RowSteps
        BY <1>7 DEF WriteLocalRow, RowSteps
    <2> QED
        BY <2>1 DEF LedgerStep
<1> QED
    BY <1>3, <1>4, <1>5, <1>6, <1>7
       DEF Calls, Work, Start, SetCancelled, LocalCall, RefusePaid, RefuseDispatch,
           Transmit, Receive, FreezeLedger, LinkRefused, SkipRow, StorageError, Crash

LEMMA SurroundingsOperate == Surroundings => LedgerStep
<1> SUFFICES ASSUME Surroundings
             PROVE  LedgerStep
    OBVIOUS
<1>1. ASSUME NEW a \in DOMAIN attempts, NEW charge \in Amounts, Reconcile(a, charge)
      PROVE  Outcomes
    BY <1>1, LedgerAssumption DEF Outcomes
<1>2. ASSUME NEW u \in DOMAIN usage, DeleteUsageRow(u)
      PROVE  RowSteps
    BY <1>2 DEF RowSteps, DeleteUsageRow
<1> QED
    BY <1>1, <1>2 DEF Surroundings, LedgerStep, PolicyStep

-------------------------------------------------------------------------------
(* The invariant *)

EngineIInv == Inv /\ RequestsAreOrderly /\ EngineInv

LEMMA EngineInitInv == EngineInit => EngineIInv
<1> SUFFICES ASSUME EngineInit
             PROVE  EngineIInv
    OBVIOUS
<1>1. Inv
    BY InitInv DEF EngineInit
<1>2. DOMAIN attempts = {} /\ DOMAIN requests = {}
    BY DEF EngineInit, Init
<1>3. RequestsAreOrderly
    BY <1>2 DEF RequestsAreOrderly, OneOpenAttempt, FinalizedIsQuiet
<1>4. Idle \in CallRecords
    <2>1. NoReport \in ReportRecords
        BY DEF NoReport, Report, ReportRecords
    <2>2. <<>> \in Seq({"local", "paid"})
        BY EmptySeq
    <2> QED
        BY <2>1, <2>2 DEF Idle, CallRecords, Points
<1>5. EngineTypes
    BY <1>4 DEF EngineInit, EngineTypes
<1>6. CallsAgree /\ OneCaller
    BY DEF EngineInit, Idle, CallsAgree, OneCaller, Agrees, Choosing, Holding,
           Dispatched, Reported
<1>7. BillsFit
    BY <1>2 DEF EngineInit, BillsFit, BillFits
<1> QED
    BY <1>1, <1>3, <1>5, <1>6, <1>7 DEF EngineIInv, EngineInv

(* What the ledger keeps, it keeps under whatever callers there are.        *)
LEMMA LedgerKeeps ==
    ASSUME Inv, RequestsAreOrderly, [LedgerStep]_vars
    PROVE  Inv' /\ RequestsAreOrderly'
BY LedgerStepInv, OneOpenAttemptStep, FinalizedStep DEF RequestsAreOrderly

LEMMA EngineStepInv ==
    EngineIInv /\ [EngineNext]_engineVars => EngineIInv' /\ [LedgerStep]_vars
<1> SUFFICES ASSUME EngineIInv, [EngineNext]_engineVars
             PROVE  EngineIInv' /\ [LedgerStep]_vars
    OBVIOUS
<1>1. Inv /\ RequestsAreOrderly /\ OneOpenAttempt /\ EngineInv
    BY DEF EngineIInv, RequestsAreOrderly
<1>2. CASE \E c \in Callers : Calls(c)
    BY <1>1, <1>2, WorkStep, CallsOperate, LedgerKeeps DEF EngineIInv
<1>3. CASE Surroundings
    BY <1>1, <1>3, SurroundingsStep, SurroundingsOperate, LedgerKeeps DEF EngineIInv
<1>4. CASE UNCHANGED engineVars
    <2>1. UNCHANGED <<vars, caller, bill>>
        BY <1>4 DEF engineVars
    <2>2. EngineInv'
        BY <1>1, <2>1 DEF EngineInv, EngineTypes, CallsAgree, OneCaller, BillsFit, BillFits, vars
    <2> QED
        BY <1>1, <2>1, <2>2, LedgerKeeps DEF EngineIInv
<1> QED
    BY <1>2, <1>3, <1>4 DEF EngineNext

LEMMA EngineSpecInv == EngineSpec => []EngineIInv /\ [][LedgerStep]_vars
BY EngineInitInv, EngineStepInv, PTL DEF EngineSpec

-------------------------------------------------------------------------------
(* What a row tells *)

(* What attempt a adds to the row of request r: a charge its call was told  *)
(* of.  A reconciliation comes later, with fence 3, and is not the call's.  *)
Told(A, a, r) ==
    IF a \in DOMAIN A /\ A[a].request = r /\ A[a].fence < 3 /\ A[a].charge # Null
    THEN A[a].charge ELSE 0
ToldFor(A, r) == TotalOver([a \in Attempts |-> Told(A, a, r)], Attempts)

(* Up to its row, a call has paid what it was told of.                      *)
Telling == {"idle", "write"} \cup Choosing \cup Holding \cup Dispatched
PaidIsTold ==
    \A c \in Callers : caller[c].pc \in Telling =>
        caller[c].paid = ToldFor(attempts, caller[c].req)

(* Nothing that was told changes for request r.                             *)
SameTold(r) == \A a \in Attempts : Told(attempts', a, r) = Told(attempts, a, r)

LEMMA ToldAmount ==
    ASSUME Inv, NEW a, NEW r
    PROVE  Told(attempts, a, r) \in Nanos
<1>1. a \in DOMAIN attempts => attempts[a] \in AttemptRows
    BY DEF Inv, TypeOK
<1> QED
    BY <1>1, MaxNanosAssumption DEF Told, AttemptRows, Nanos

LEMMA ToldSame ==
    ASSUME NEW r, SameTold(r)
    PROVE  ToldFor(attempts', r) = ToldFor(attempts, r)
<1>1. [a \in Attempts |-> Told(attempts', a, r)] = [a \in Attempts |-> Told(attempts, a, r)]
    BY DEF SameTold
<1> QED
    BY <1>1 DEF ToldFor

LEMMA ToldNothing ==
    ASSUME NEW A, NEW r, \A a \in Attempts : Told(A, a, r) = 0
    PROVE  ToldFor(A, r) = 0
BY TotalZero DEF ToldFor

(* What is told is the sum of the charges that are known.                   *)
LEMMA ToldIsKnown ==
    ASSUME Inv, NEW r
    PROVE  LET S == {a \in AttemptsOf(r) : attempts[a].fence < 3}
           IN  ToldFor(attempts, r) = TotalOver([a \in S |-> KnownCharge(a)], S)
<1> DEFINE S == {a \in AttemptsOf(r) : attempts[a].fence < 3}
           T == Attempts \ S
           f == [a \in Attempts |-> Told(attempts, a, r)]
           g == [a \in S |-> KnownCharge(a)]
<1>1. S \subseteq Attempts /\ DOMAIN attempts \subseteq Attempts
    BY DEF Inv, TypeOK, AttemptsOf
<1>2. \A a \in S : f[a] = g[a] /\ f[a] \in Nat
    BY <1>1, ToldAmount, MaxNanosAssumption DEF AttemptsOf, Told, KnownCharge, Nanos
<1>3. \A a \in T : f[a] = 0
    BY DEF AttemptsOf, Told
<1>4. IsFiniteSet(S) /\ IsFiniteSet(T) /\ S \cap T = {} /\ Attempts = S \cup T
    BY <1>1, LedgerAssumption, FS_Subset
<1> HIDE DEF S, T, f, g
<1>5. TotalOver(f, Attempts) = TotalOver(f, S) + TotalOver(f, T)
    BY <1>4, TotalDisjoint
<1>6. TotalOver(f, S) = TotalOver(g, S) /\ TotalOver(f, T) = 0 /\ TotalOver(f, S) \in Nat
    BY <1>2, <1>3, <1>4, TotalSame, TotalZero, TotalNat
<1>7. TotalOver(f, Attempts) = TotalOver(g, S)
    BY <1>5, <1>6
<1> QED
    BY <1>7 DEF ToldFor, S, f, g

(* Only a settlement tells a call something.                                *)
LEMMA StepsTell ==
    ASSUME Inv, NEW a \in DOMAIN attempts, NEW state, NEW charge, Steps(a, state, charge),
           attempts[a].charge = Null,
           charge = Null \/ attempts[a].fence = 2
    PROVE  \A r : SameTold(r)
<1>1. attempts[a].fence \in Nat
    BY DEF Inv, TypeOK, AttemptRows
<1> QED
    BY <1>1 DEF Steps, SameTold, Told

(* A call moves on, and what it has paid is what it was told.               *)
LEMMA PaidMoves ==
    ASSUME PaidIsTold, NEW c \in Callers,
           \A d \in Callers \ {c} : caller'[d] = caller[d] /\ SameTold(caller[d].req),
           caller'[c].pc \in Telling => caller'[c].paid = ToldFor(attempts', caller'[c].req)
    PROVE  PaidIsTold'
<1> SUFFICES ASSUME NEW d \in Callers, caller'[d].pc \in Telling
             PROVE  caller'[d].paid = ToldFor(attempts', caller'[d].req)
    BY DEF PaidIsTold
<1>1. CASE d = c
    BY <1>1
<1>2. CASE d # c
    BY <1>2, ToldSame DEF PaidIsTold
<1> QED
    BY <1>1, <1>2

(* Or it pays nothing and is told nothing.                                  *)
LEMMA PaidKept ==
    ASSUME PaidIsTold, NEW c \in Callers, \A r : SameTold(r),
           \A d \in Callers \ {c} : caller'[d] = caller[d],
           caller'[c].pc \in Telling =>
              /\ caller[c].pc \in Telling
              /\ caller'[c].paid = caller[c].paid /\ caller'[c].req = caller[c].req
    PROVE  PaidIsTold'
BY PaidMoves, ToldSame DEF PaidIsTold

(* Steps of a call that are not told anything.                              *)
LEMMA QuietCallPays ==
    ASSUME EngineTypes, PaidIsTold, NEW c \in Callers, UNCHANGED attempts,
           \/ Start(c) \/ SetCancelled(c) \/ LocalCall(c) \/ RefusePaid(c)
           \/ RefuseDispatch(c) \/ Transmit(c) \/ Receive(c) \/ FreezeLedger(c)
           \/ LinkRow(c) \/ LinkRefused(c) \/ WriteLocalRow(c) \/ SkipRow(c)
           \/ StorageError(c) \/ Crash(c)
    PROVE  PaidIsTold'
<1>1. caller[c] \in CallRecords /\ caller \in [Callers -> CallRecords]
    BY DEF EngineTypes
<1>2. \A r : SameTold(r)
    BY DEF SameTold
<1>3. \A d \in Callers \ {c} : caller'[d] = caller[d]
    BY <1>1 DEF Start, SetCancelled, LocalCall, RefusePaid, RefuseDispatch, Transmit, Receive,
                FreezeLedger, LinkRow, LinkRefused, WriteLocalRow, SkipRow, StorageError,
                Crash, Goto
<1>4. caller'[c].paid = caller[c].paid /\ caller'[c].req = caller[c].req
    <2>1. ASSUME NEW p, Goto(c, p)
          PROVE  caller'[c].paid = caller[c].paid /\ caller'[c].req = caller[c].req
        BY <1>1, <2>1 DEF Goto, CallRecords
    <2>2. CASE Start(c) \/ SetCancelled(c) \/ Receive(c)
        BY <1>1, <2>2 DEF Start, SetCancelled, Receive, CallRecords
    <2>3. CASE LocalCall(c)
        BY <1>1, <2>1, <2>3 DEF LocalCall, CallRecords
    <2> QED
        BY <2>1, <2>2, <2>3 DEF RefusePaid, RefuseDispatch, Transmit, FreezeLedger, LinkRow,
              LinkRefused, WriteLocalRow, SkipRow, StorageError, Crash
<1>5. caller'[c].pc \in Telling => caller[c].pc \in Telling
    <2>1. ASSUME NEW p, Goto(c, p)
          PROVE  caller'[c].pc = p
        BY <1>1, <2>1 DEF Goto, CallRecords
    <2>2. CASE SetCancelled(c)
        BY <1>1, <2>2 DEF SetCancelled, CallRecords
    <2>3. CASE Crash(c)
        BY <2>1, <2>3 DEF Crash, Telling, Choosing, Holding, Dispatched, Reported
    <2>4. CASE LinkRow(c) \/ LinkRefused(c) \/ WriteLocalRow(c) \/ SkipRow(c)
        BY <2>1, <2>4 DEF LinkRow, LinkRefused, WriteLocalRow, SkipRow, Telling, Choosing,
              Holding, Dispatched, Reported
    <2> QED
        BY <2>2, <2>3, <2>4 DEF Start, LocalCall, RefusePaid, RefuseDispatch, Transmit,
              Receive, FreezeLedger, StorageError, At, Telling, Choosing, Holding,
              Dispatched, Reported
<1> QED
    BY <1>2, <1>3, <1>4, <1>5, PaidKept

(* A new request has been told nothing, and a retry adds nothing.           *)
LEMMA NewAttemptTells ==
    ASSUME Inv, NEW new \in SUBSET FreshAttempts, NEW req, NEW quote,
           InsertReserved(new, req, quote)
    PROVE  \A r : SameTold(r)
BY DEF InsertReserved, FreshAttempts, SameTold, Told

LEMMA FreshIsUntold ==
    ASSUME Inv, NEW r, r \notin DOMAIN requests
    PROVE  ToldFor(attempts, r) = 0
BY ToldNothing DEF Inv, TypeOK, Told

LEMMA ReservePaidPays ==
    ASSUME Inv, EngineInv, PaidIsTold, NEW c \in Callers, ReservePaid(c)
    PROVE  PaidIsTold'
<1>1. PICK a \in FreshAttempts, quote \in Quotes :
          \/ /\ caller[c].req = Null
             /\ \E r \in FreshRequests :
                   /\ Reserve({a}, [b \in {a} |-> r], [b \in {a} |-> quote])
                   /\ caller' = [caller EXCEPT ![c].pc = "reserved", ![c].req = r,
                                               ![c].attempt = a]
          \/ /\ caller[c].req # Null
             /\ Retry(a, caller[c].req, quote)
             /\ caller' = [caller EXCEPT ![c].pc = "reserved", ![c].attempt = a]
    BY DEF ReservePaid
<1>2. /\ caller[c] \in CallRecords /\ caller \in [Callers -> CallRecords]
      /\ caller[c].pc \in Telling
    BY DEF EngineInv, EngineTypes, ReservePaid, At, Telling, Choosing
<1>3. \A r : SameTold(r)
    BY <1>1, NewAttemptTells DEF Reserve, Retry
<1>4. \A d \in Callers \ {c} : caller'[d] = caller[d]
    BY <1>1, <1>2
<1>5. ASSUME NEW r \in FreshRequests, caller[c].req = Null,
             caller' = [caller EXCEPT ![c].pc = "reserved", ![c].req = r, ![c].attempt = a]
      PROVE  PaidIsTold'
    <2>1. caller'[c].paid = caller[c].paid /\ caller'[c].req = r
        BY <1>2, <1>5 DEF CallRecords
    <2>2. Null \notin DOMAIN requests /\ r \notin DOMAIN requests
        BY LedgerAssumption DEF Inv, TypeOK, FreshRequests
    <2>3. caller[c].paid = 0 /\ ToldFor(attempts', r) = 0
        BY <1>2, <1>3, <1>5, <2>2, FreshIsUntold, ToldSame DEF PaidIsTold
    <2> QED
        BY <1>3, <1>4, <2>1, <2>3, PaidMoves
<1>6. ASSUME caller' = [caller EXCEPT ![c].pc = "reserved", ![c].attempt = a]
      PROVE  PaidIsTold'
    <2>1. caller'[c].paid = caller[c].paid /\ caller'[c].req = caller[c].req
        BY <1>2, <1>6 DEF CallRecords
    <2> QED
        BY <1>2, <1>3, <1>4, <2>1, PaidKept
<1> QED
    BY <1>1, <1>5, <1>6

LEMMA OutcomePays ==
    ASSUME Inv, FencesFollow, EngineInv, PaidIsTold, NEW c \in Callers,
           Dispatch(c) \/ CancelReserved(c)
    PROVE  PaidIsTold'
<1> DEFINE a == caller[c].attempt
<1>1. /\ caller[c] \in CallRecords /\ caller \in [Callers -> CallRecords]
      /\ caller[c].pc \in Holding /\ Agrees(caller[c], attempts, requests, bill)
    BY DEF EngineInv, EngineTypes, CallsAgree, Dispatch, CancelReserved, At, Holding
<1>2. a \in DOMAIN attempts /\ attempts[a].state = "RESERVED"
    BY <1>1 DEF Agrees
<1>3. attempts[a].charge = Null
    BY <1>2 DEF FencesFollow, FenceFollows, Unresolved
<1>4. \E state : Steps(a, state, attempts[a].charge)
    BY <1>2, DispatchSteps, CancelSteps DEF Dispatch, CancelReserved
<1>5. \A r : SameTold(r)
    BY <1>2, <1>3, <1>4, StepsTell
<1>6. /\ \A d \in Callers \ {c} : caller'[d] = caller[d]
      /\ caller'[c].paid = caller[c].paid /\ caller'[c].req = caller[c].req
    BY <1>1 DEF Dispatch, CancelReserved, Goto, CallRecords
<1> QED
    BY <1>1, <1>5, <1>6, PaidKept DEF Telling

(* A settlement adds the charge it tells.                                   *)
LEMMA SettlePays ==
    ASSUME Inv, FencesFollow, EngineInv, PaidIsTold, NEW c \in Callers, SettleAttempt(c)
    PROVE  PaidIsTold'
<1> DEFINE a == caller[c].attempt
           r == caller[c].req
           charge == caller[c].report.charge
           known == IF charge = Null THEN 0 ELSE charge
<1>1. /\ caller[c] \in CallRecords /\ caller \in [Callers -> CallRecords]
      /\ caller[c].pc = "settle" /\ Agrees(caller[c], attempts, requests, bill)
    BY DEF EngineInv, EngineTypes, CallsAgree, SettleAttempt, At
<1>2. /\ a \in DOMAIN attempts /\ attempts[a].request = r /\ a \in Attempts
      /\ attempts[a].state = "DISPATCHING" /\ attempts[a].fence = 1
      /\ \A d \in Callers \ {c} : caller[d].req # r
    BY <1>1, HasRequest DEF Agrees, Dispatched, Reported, Inv, TypeOK
<1>3. attempts[a].charge = Null
    BY <1>2 DEF FencesFollow, FenceFollows, Unresolved
<1>4. \E state : Steps(a, state, charge)
    <2>1. Terminal(a, charge)
        BY DEF SettleAttempt, Settle, ChargeSettled
    <2> QED
        BY <1>2, <2>1, TerminalSteps
<1>5. charge \in Nanos \cup {Null} /\ known \in Nanos
    <2>1. charge \in Nanos \cup {Null}
        BY <1>1 DEF CallRecords, ReportRecords
    <2> QED
        BY <2>1, MaxNanosAssumption DEF Nanos
<1>6. Told(attempts, a, r) = 0 /\ Told(attempts', a, r) = known
    BY <1>2, <1>3, <1>4 DEF Steps, Told
<1>7. \A b \in Attempts \ {a} : \A q : Told(attempts', b, q) = Told(attempts, b, q)
    BY <1>4 DEF Steps, Told
<1>8. ToldFor(attempts', r) = ToldFor(attempts, r) + known
    <2> DEFINE f == [b \in Attempts |-> Told(attempts, b, r)]
               g == [b \in Attempts |-> Told(attempts', b, r)]
    <2>1. f[a] = 0 /\ g[a] = known
        BY <1>2, <1>6
    <2>2. \A b \in Attempts \ {a} : f[b] \in Nat /\ f[b] = g[b]
        BY <1>7, ToldAmount, MaxNanosAssumption DEF Nanos
    <2> HIDE DEF f, g, known
    <2>3. TotalOver(g, Attempts) = TotalOver(f, Attempts) + known
        BY <1>2, <1>5, <2>1, <2>2, TotalGrows, LedgerAssumption
    <2> QED
        BY <2>3 DEF ToldFor, f, g
<1>9. /\ \A d \in Callers \ {c} : caller'[d] = caller[d]
      /\ caller'[c].paid = caller[c].paid + known /\ caller'[c].req = r
    BY <1>1 DEF SettleAttempt, PaidSoFar, CallRecords
<1>10. \A q : q # r => SameTold(q)
    BY <1>2, <1>4, <1>7 DEF Steps, SameTold, Told
<1>11. caller[c].paid = ToldFor(attempts, r)
    BY <1>1 DEF PaidIsTold, Telling, Dispatched, Reported
<1> QED
    BY <1>2, <1>8, <1>9, <1>10, <1>11, PaidMoves

LEMMA CallPays ==
    ASSUME Inv, FencesFollow, EngineInv, PaidIsTold, NEW c \in Callers, Calls(c)
    PROVE  PaidIsTold'
<1>1. CASE ReservePaid(c) \/ Dispatch(c) \/ CancelReserved(c) \/ SettleAttempt(c)
    BY <1>1, ReservePaidPays, OutcomePays, SettlePays
<1>2. CASE ~(ReservePaid(c) \/ Dispatch(c) \/ CancelReserved(c) \/ SettleAttempt(c))
    <2>1. UNCHANGED attempts
        BY <1>2 DEF Calls, Work, Start, SetCancelled, LocalCall, RefusePaid, RefuseDispatch,
              Transmit, Receive, FreezeLedger, LinkRow, LinkRefused, WriteLocalRow, SkipRow,
              StorageError, Crash, LedgerUnchanged, DetectBackwardClock, Freeze, LinkUsage,
              WriteUsage, vars
    <2> QED
        BY <1>2, <2>1, QuietCallPays DEF Calls, Work, EngineInv
<1> QED
    BY <1>1, <1>2

LEMMA SurroundingsPay ==
    ASSUME Inv, FencesFollow, PaidIsTold, Surroundings
    PROVE  PaidIsTold'
<1>1. UNCHANGED caller
    BY DEF Surroundings
<1>2. ASSUME \A r : SameTold(r)
      PROVE  PaidIsTold'
    BY <1>1, <1>2, ToldSame DEF PaidIsTold
<1>3. ASSUME NEW a \in DOMAIN attempts, NEW charge, Reconcile(a, charge)
      PROVE  \A r : SameTold(r)
    <2>1. \E state : Steps(a, state, charge)
        BY <1>3, TerminalSteps DEF Reconcile
    <2>2. attempts[a].charge = Null /\ attempts[a].fence = 2
        BY <1>3 DEF Reconcile, Reconcilable, FencesFollow, FenceFollows, Unresolved
    <2> QED
        BY <2>1, <2>2, StepsTell
<1>4. ASSUME UNCHANGED attempts
      PROVE  \A r : SameTold(r)
    BY <1>4 DEF SameTold
<1> QED
    BY <1>2, <1>3, <1>4 DEF Surroundings, InitializePolicy, DeleteUsageRow, DeleteRows,
          ClockStep, Tick, ClockStepBack

(* The row of a request, at the step that links it.                         *)
RowTold ==
    \A r \in DOMAIN requests :
        requests[r].row = Null /\ requests'[r].row # Null =>
            LET S == {a \in AttemptsOf(r) : attempts[a].fence < 3}
            IN  usage'[requests'[r].row].cost
                    = TotalOver([a \in S |-> KnownCharge(a)], S)

LEMMA LinkTells ==
    ASSUME Inv, PaidIsTold, NEW c \in Callers, At(c, "write"), NEW u \in Rows,
           LinkUsage(caller[c].req, u, caller[c].paid)
    PROVE  RowTold
<1> SUFFICES ASSUME NEW r \in DOMAIN requests,
                    requests[r].row = Null, requests'[r].row # Null
             PROVE  LET S == {a \in AttemptsOf(r) : attempts[a].fence < 3}
                    IN  usage'[requests'[r].row].cost
                            = TotalOver([a \in S |-> KnownCharge(a)], S)
    BY DEF RowTold
<1>1. requests \in [DOMAIN requests -> RequestRows]
    BY DEF Inv, TypeOK
<1>2. r = caller[c].req /\ requests'[r].row = u
    BY <1>1 DEF LinkUsage, RequestRows
<1>3. usage'[u].cost = caller[c].paid
    BY DEF LinkUsage
<1>4. caller[c].paid = ToldFor(attempts, r)
    BY <1>2 DEF PaidIsTold, At, Telling
<1> QED
    BY <1>2, <1>3, <1>4, ToldIsKnown

(* Every other step links nothing.                                          *)
LEMMA NothingLinked ==
    ASSUME Inv, \/ UNCHANGED requests
                \/ \E new, req, s : InsertRequests(new, req, s)
    PROVE  RowTold
BY DEF RowTold, InsertRequests

LEMMA CallTells ==
    ASSUME Inv, PaidIsTold, NEW c \in Callers, Calls(c)
    PROVE  RowTold
<1>1. CASE LinkRow(c)
    BY <1>1, LinkTells DEF LinkRow
<1>2. CASE ReservePaid(c)
    BY <1>2, NothingLinked DEF ReservePaid, Reserve, Retry
<1>3. CASE ~LinkRow(c) /\ ~ReservePaid(c)
    <2>1. UNCHANGED requests
        BY <1>3 DEF Calls, Work, Start, SetCancelled, LocalCall, RefusePaid, Dispatch,
              RefuseDispatch, CancelReserved, Transmit, Receive, FreezeLedger, SettleAttempt,
              LinkRefused, WriteLocalRow, SkipRow, StorageError, Crash, LedgerUnchanged,
              DetectBackwardClock, Freeze, WriteUsage, BeginDispatch, Cancel, Settle,
              Terminal, vars
    <2> QED
        BY <2>1, NothingLinked
<1> QED
    BY <1>1, <1>2, <1>3

LEMMA SurroundingsTell ==
    ASSUME Inv, Surroundings
    PROVE  RowTold
<1>1. UNCHANGED requests
    BY DEF Surroundings, InitializePolicy, Reconcile, Terminal, DeleteUsageRow, DeleteRows,
          ClockStep, Tick, ClockStepBack
<1> QED
    BY <1>1, NothingLinked

-------------------------------------------------------------------------------
(* The theorems *)

(* Under any callers of complete the ledger keeps its tables, its caps and  *)
(* the order of its requests.                                               *)
THEOREM EngineKeepsLedger ==
    EngineSpec => [](TypeOK /\ LedgerInv /\ CapRespected /\ RequestsAreOrderly)
<1>1. EngineIInv => TypeOK /\ LedgerInv /\ CapRespected /\ RequestsAreOrderly
    BY DEF EngineIInv, Inv
<1> QED
    BY <1>1, EngineSpecInv, PTL

(* A bound that was kept covers the bill for as long as the charge is not   *)
(* known, and the charge covers it from then on.                            *)
LEMMA BillOwed ==
    ASSUME EngineIInv, NEW a \in DOMAIN attempts, KeptBound(a)
    PROVE  bill[a] <= Liability(attempts[a], 0)
<1>1. /\ attempts[a] \in AttemptRows /\ policy \in Policies /\ a \in Attempts
      /\ ColumnsAgree(attempts[a], policy.watermark) /\ policy.watermark \in Time
      /\ attempts[a].bound \in Nat
    BY PolicyThere, MaxNanosAssumption
       DEF EngineIInv, Inv, TypeOK, LedgerInv, AttemptRows, Nanos
<1>2. bill[a] \in Nat /\ BillFits(a)
    BY <1>1 DEF EngineIInv, EngineInv, EngineTypes, BillsFit
<1>3. CASE attempts[a].state \in Unresolved
    <2>1. Liability(attempts[a], 0) = attempts[a].bound
        BY <1>3 DEF Liability, Unresolved
    <2> QED
        BY <1>1, <1>2, <2>1 DEF KeptBound
<1>4. CASE attempts[a].state = "BREACH"
    BY <1>1, <1>2, <1>4, MaxNanosAssumption
       DEF Liability, KeptBound, Unresolved, ColumnsAgree, Nanos
<1>5. CASE attempts[a].state = "SETTLED"
    BY <1>1, <1>2, <1>5 DEF Liability, BillFits, Unresolved, ColumnsAgree, InWindow, Time
<1>6. CASE attempts[a].state = "CANCELLED"
    BY <1>2, <1>6 DEF Liability, BillFits, Unresolved
<1> QED
    BY <1>1, <1>3, <1>4, <1>5, <1>6 DEF AttemptRows

(* Whatever interleaving, crash, storage error, interrupt or reconciliation *)
(* came between the transport and the ledger, the ledger owes what is       *)
(* billed.                                                                  *)
THEOREM EngineCoversBills == EngineSpec => []LiabilityCoversBill
<1>1. EngineIInv => LiabilityCoversBill
    BY BillOwed DEF EngineIInv, EngineInv, BillsFit, BillFits, EngineTypes, LiabilityCoversBill
<1> QED
    BY <1>1, EngineSpecInv, PTL

(* The bills of a day stay within what the policy leaves, as long as the    *)
(* provider keeps the bounds it certified: a bill is at most what its       *)
(* attempt spends in the window, and the ledger bounds that.                *)
THEOREM EngineBillsWithinCap == EngineSpec => []BillsWithinCap
<1>1. EngineIInv => BillsWithinCap
    <2> SUFFICES ASSUME EngineIInv, NEW b \in DOMAIN attempts,
                        \A a \in DOMAIN attempts : KeptBound(a), NEW t \in Time
                 PROVE  LET W == {a \in DOMAIN attempts :
                                    attempts[a].dispatchedAt # Null
                                      /\ attempts[a].dispatchedAt \in t..(t + Day)}
                        IN  policy.opening + TotalOver([a \in W |-> bill[a]], W)
                                <= policy.limit
        BY DEF BillsWithinCap
    <2> DEFINE D == DOMAIN attempts
               W == {a \in D : attempts[a].dispatchedAt # Null
                                 /\ attempts[a].dispatchedAt \in t..(t + Day)}
               f == [a \in W |-> bill[a]]
               g == [a \in D |-> SpentWithin(attempts[a], t)]
    <2>1. /\ policy \in Policies /\ policy.watermark \in Time /\ t \in Int
          /\ policy.opening \in Nat /\ policy.limit \in Nat
        BY PolicyThere, MaxNanosAssumption DEF EngineIInv, Policies, Time, Nanos
    <2>2. \A a \in D : /\ attempts[a] \in AttemptRows /\ a \in Attempts
                       /\ ColumnsAgree(attempts[a], policy.watermark)
        BY DEF EngineIInv, Inv, TypeOK, LedgerInv
    <2>3. ASSUME NEW a \in W
          PROVE  f[a] \in Nat /\ g[a] \in Nat /\ f[a] <= g[a]
        <3>1. bill[a] \in Nat /\ BillFits(a) /\ bill[a] <= attempts[a].bound
            BY <2>2 DEF EngineIInv, EngineInv, EngineTypes, BillsFit, KeptBound
        <3>2. g[a] = SpentWithin(attempts[a], t) /\ g[a] \in Nat
            BY <2>1, <2>2, RowNat
        <3>3. attempts[a].state # "SETTLED" => g[a] = attempts[a].bound
            BY <3>2 DEF SpentWithin
        <3>4. attempts[a].state = "SETTLED" => g[a] = attempts[a].charge
            BY <3>2 DEF SpentWithin
        <3> QED
            BY <3>1, <3>2, <3>3, <3>4 DEF BillFits
    <2>4. IsFiniteSet(D) /\ IsFiniteSet(W) /\ W \in SUBSET D
        <3>1. IsFiniteSet(D)
            BY TablesFinite DEF EngineIInv, Inv
        <3> QED
            BY <3>1, FS_Subset
    <2> HIDE DEF W
    <2>5. TotalOver(f, W) <= TotalOver(g, D)
        BY <2>3, <2>4, TotalMonotone
    <2>6. TotalOver(f, W) \in Nat /\ TotalOver(g, D) \in Nat
        BY <2>4, TotalNat
    <2>7. policy.opening + TotalOver(g, D) <= policy.limit
        BY InvBoundsWindows DEF EngineIInv, WindowSpend
    <2>8. policy.opening + TotalOver(f, W) <= policy.limit
        BY <2>1, <2>5, <2>6, <2>7
    <2> QED
        BY <2>8 DEF W
<1> QED
    BY <1>1, EngineSpecInv, PTL

(* No fallback while an earlier attempt may still be billed.                *)
THEOREM EngineFallsBackOnlyWhenKnown == EngineSpec => []NoFallbackWhileUnknown
<1>1. EngineIInv => NoFallbackWhileUnknown
    BY DEF EngineIInv, EngineInv, CallsAgree, Agrees, Choosing, NoFallbackWhileUnknown,
           At, AttemptsOf
<1> QED
    BY <1>1, EngineSpecInv, PTL

(* A call that returned has accounted for its request, cancelled or not.    *)
THEOREM EngineAccounts == EngineSpec => []DoneIsAccounted
<1>1. EngineIInv => DoneIsAccounted
    BY DEF EngineIInv, EngineInv, CallsAgree, Agrees, DoneIsAccounted, At,
           RequestsAreOrderly, FinalizedIsQuiet
<1> QED
    BY <1>1, EngineSpecInv, PTL

LEMMA EngineInitTold == EngineInit => FencesFollow /\ PaidIsTold
<1> SUFFICES ASSUME EngineInit
             PROVE  FencesFollow /\ PaidIsTold
    OBVIOUS
<1>1. DOMAIN attempts = {}
    BY DEF EngineInit, Init
<1>2. \A c \in Callers : caller[c].paid = 0
    BY DEF EngineInit, Idle
<1> QED
    BY <1>1, <1>2, ToldNothing DEF FencesFollow, PaidIsTold, Told

(* What is known of the fences and of what was told holds beside the        *)
(* engine's invariant.                                                      *)
LEMMA EngineTold ==
    EngineSpec => [](FencesFollow /\ PaidIsTold)
<1>1. EngineInit => FencesFollow /\ PaidIsTold
    BY EngineInitTold
<1>2. ASSUME EngineIInv, FencesFollow, PaidIsTold, [EngineNext]_engineVars
      PROVE  FencesFollow' /\ PaidIsTold'
    <2>1. FencesFollow'
        BY <1>2, EngineStepInv, FencesStep DEF EngineIInv
    <2>2. CASE UNCHANGED engineVars
        <3>1. UNCHANGED <<caller, attempts>>
            BY <2>2 DEF engineVars, vars
        <3>2. PaidIsTold'
            BY <1>2, <3>1 DEF PaidIsTold
        <3> QED
            BY <2>1, <3>2
    <2> QED
        BY <1>2, <2>1, <2>2, CallPays, SurroundingsPay DEF EngineNext, EngineIInv
<1> QED
    BY <1>1, <1>2, EngineSpecInv, PTL DEF EngineSpec

(* The row of a request tells the charges of all its attempts that are      *)
(* known when it is written, counted once.                                  *)
THEOREM EngineRowTellsCharges == EngineSpec => RowTellsTheCharges
<1>1. ASSUME EngineIInv, PaidIsTold, [EngineNext]_engineVars
      PROVE  [RowTold]_engineVars
    BY <1>1, CallTells, SurroundingsTell DEF EngineIInv, EngineNext
<1>2. EngineSpec => [][RowTold]_engineVars
    BY <1>1, EngineTold, EngineSpecInv, PTL DEF EngineSpec
<1> QED
    BY <1>2 DEF RowTellsTheCharges, RowTold

-------------------------------------------------------------------------------
(* What an evaluation knows *)

EvidenceRecords ==
    [state : Unresolved \cup {"SETTLED", "CANCELLED", "BREACH"},
     charge : Nanos \cup {Null}]

RunRecords ==
    [verdict : {"both_error", "baseline_error", "candidate_error", "both_completed",
                "inconclusive"},
     known : BOOLEAN, cost : Nat,
     confounders : SUBSET {"billing_uncertain", "certified_bound_exceeded",
                           "accounting_write_failed", "aborted_execution"}]

EvaluationRecords ==
    [arm : 0..2, held : [ArmOrder -> Attempts \cup {Null}],
     result : [ArmOrder -> {"none", "completed", "failed"}],
     evidence : [ArmOrder -> EvidenceRecords \cup {Null}],
     aborted : BOOLEAN, accounting : BOOLEAN, run : RunRecords \cup {Null}]

\* Before the reservation, while an arm runs, and after both.
Fresh == {"idle", "refused"}
ArmPoints == {"reserved", "cancel", "transmit", "waiting", "freeze", "settle",
              "write", "written", "failed", "aborted"}
After == {"cleanup", "save", "saved", "unsaved"}

(* An attempt that is paid and has a row that tells it.                     *)
AccountedFor(a, A, Q, U) ==
    LET row == Q[A[a].request].row
    IN  /\ A[a].state = "SETTLED"
        /\ row # Null /\ row \in DOMAIN U /\ U[row].cost = A[a].charge

(* The arm that runs is the call's attempt, the other arm has not begun or  *)
(* is accounted, and a completion is believed only with an answer, with a   *)
(* known charge, and at last with its row.                                  *)
ArmFits(k, e, A, Q, U) ==
    k.pc \in ArmPoints =>
        /\ e.arm \in ArmOrder /\ k.chain = <<"paid">>
        /\ k.attempt = e.held[e.arm] /\ k.req = A[e.held[e.arm]].request
        /\ e.arm = 1 => /\ e.result[2] = "none"
                        /\ A[e.held[2]].state = "RESERVED" /\ A[e.held[2]].fence = 0
        /\ e.arm = 2 => e.result[1] = "completed" /\ AccountedFor(e.held[1], A, Q, U)
        /\ \A j \in ArmOrder : e.evidence[j] = Null
        /\ ~e.aborted /\ (k.pc # "failed" => ~e.accounting)
        /\ k.pc \in {"reserved", "cancel", "transmit", "waiting"} =>
              e.result[e.arm] # "completed"
        /\ e.result[e.arm] = "completed" =>
              /\ k.pc \in Reported => k.report.kind = "answer"
              /\ k.pc = "write" => /\ A[e.held[e.arm]].state = "SETTLED"
                                   /\ A[e.held[e.arm]].fence = 2
              /\ k.pc = "written" => AccountedFor(e.held[e.arm], A, Q, U)

(* After the arms, what completed is accounted and has evidence once the    *)
(* cleanup passed it.                                                       *)
AfterFits(k, e, A, Q, U) ==
    k.pc \in After =>
        /\ e.arm \in ArmOrder
        /\ \A j \in ArmOrder : e.result[j] = "completed" =>
              /\ AccountedFor(e.held[j], A, Q, U)
              /\ k.pc # "cleanup" \/ j < e.arm => e.evidence[j] # Null

(* Evidence was true when it was taken, and an outcome is final.            *)
EvidenceFits(e, A) ==
    \A j \in ArmOrder : e.evidence[j] # Null =>
        /\ A[e.held[j]].state # "RESERVED" /\ e.evidence[j].state # "RESERVED"
        /\ e.evidence[j].state \in Resolved =>
              /\ A[e.held[j]].state = e.evidence[j].state
              /\ A[e.held[j]].charge = e.evidence[j].charge
        /\ e.result[j] = "completed" => e.evidence[j].state = "SETTLED"

Faults(e) == e.aborted \/ e.accounting => \E j \in ArmOrder : e.result[j] = "failed"

RunOf(e) == [verdict |-> Verdict(e.result), known |-> BillingKnown(e.evidence),
             cost |-> KnownCost(e.evidence), confounders |-> Confounders(e)]
RunFits(k, e) == e.run # Null => k.pc = "saved" /\ e.run = RunOf(e)

(* Each arm has a request of its own, which no other call has.              *)
HoldsPair(c) ==
    LET held == evaluation[c].held
    IN  /\ held[1] # held[2]
        /\ \A j \in ArmOrder :
              /\ held[j] \in DOMAIN attempts
              /\ \A a \in DOMAIN attempts :
                    attempts[a].request = attempts[held[j]].request => a = held[j]
              /\ \A d \in Callers \ {c} : caller[d].req # attempts[held[j]].request
              /\ \A d \in Evaluators \ {c}, i \in ArmOrder : evaluation[d].held[i] # held[j]

EvaluationFits(c) ==
    /\ caller[c].pc \in Fresh => evaluation[c] = NewEvaluation
    /\ caller[c].pc \notin Fresh => HoldsPair(c)
    /\ caller[c].pc \in Fresh \cup ArmPoints \cup After \cup {"crashed"}
    /\ ArmFits(caller[c], evaluation[c], attempts, requests, usage)
    /\ AfterFits(caller[c], evaluation[c], attempts, requests, usage)
    /\ EvidenceFits(evaluation[c], attempts)
    /\ Faults(evaluation[c]) /\ RunFits(caller[c], evaluation[c])

EvaluationTypes == evaluation \in [Evaluators -> EvaluationRecords]

EvaluationInv == EvaluationTypes /\ \A c \in Evaluators : EvaluationFits(c)

LEMMA ArmsAre == ArmOrder = {1, 2} /\ Len(Arms) = 2
BY DEF ArmOrder, Arms

-------------------------------------------------------------------------------
(* What the steps of others leave to an evaluation *)

LEMMA AccountedStays ==
    ASSUME Inv, [LedgerStep]_vars, NEW a \in DOMAIN attempts,
           AccountedFor(a, attempts, requests, usage)
    PROVE  AccountedFor(a, attempts', requests', usage')
<1>1. attempts[a].request \in DOMAIN requests
    BY DEF Inv, TypeOK
<1>2. attempts'[a] = attempts[a]
    BY OutcomesStay DEF AccountedFor, Unresolved
<1> QED
    BY <1>1, <1>2, LinkedRowsStay DEF AccountedFor

LEMMA EvidenceStays ==
    ASSUME Inv, [LedgerStep]_vars, NEW e, EvidenceFits(e, attempts),
           \A j \in ArmOrder : e.held[j] \in DOMAIN attempts
    PROVE  EvidenceFits(e, attempts')
BY OutcomesStay DEF EvidenceFits, Resolved, Unresolved

(* The pair of an evaluation stays its own as long as others reserve for    *)
(* requests of their own.                                                   *)
LEMMA PairStays ==
    ASSUME Inv, [LedgerStep]_vars, NEW c \in Evaluators, HoldsPair(c),
           evaluation'[c].held = evaluation[c].held,
           \A j \in ArmOrder :
              LET r == attempts[evaluation[c].held[j]].request
              IN  /\ \A a \in DOMAIN attempts' \ DOMAIN attempts : attempts'[a].request # r
                  /\ \A d \in Callers \ {c} : caller'[d].req # r
                  /\ \A d \in Evaluators \ {c}, i \in ArmOrder :
                        evaluation'[d].held[i] # evaluation[c].held[j]
    PROVE  HoldsPair(c)'
<1>1. \A a \in DOMAIN attempts :
         a \in DOMAIN attempts' /\ attempts'[a].request = attempts[a].request
    BY OutcomesStay
<1> QED
    BY <1>1 DEF HoldsPair

LEMMA BystanderStays ==
    ASSUME Inv, [LedgerStep]_vars, NEW c \in Evaluators, EvaluationFits(c),
           caller'[c] = caller[c], evaluation'[c] = evaluation[c],
           NEW R, OnlyFor(R),
           caller[c].pc \notin Fresh =>
              \A j \in ArmOrder :
                 LET r == attempts[evaluation[c].held[j]].request
                 IN  /\ r \notin R
                     /\ \A d \in Callers \ {c} : caller'[d].req # r
                     /\ \A d \in Evaluators \ {c}, i \in ArmOrder :
                           evaluation'[d].held[i] # evaluation[c].held[j]
    PROVE  EvaluationFits(c)'
<1> DEFINE k == caller[c]
           e == evaluation[c]
<1>1. CASE k.pc \in Fresh
    <2>1. e.evidence = [j \in ArmOrder |-> Null]
        BY <1>1 DEF EvaluationFits, NewEvaluation
    <2>2. EvidenceFits(e, attempts')
        BY <2>1 DEF EvidenceFits
    <2> QED
        BY <1>1, <2>2 DEF EvaluationFits, ArmFits, AfterFits, Fresh, ArmPoints, After
<1>2. CASE k.pc \notin Fresh
    <2>1. HoldsPair(c) /\ \A j \in ArmOrder : e.held[j] \in DOMAIN attempts
        BY <1>2 DEF EvaluationFits, HoldsPair
    <2>2. HoldsPair(c)'
        BY <1>2, <2>1, PairStays DEF OnlyFor
    <2>3. EvidenceFits(e, attempts')
        BY <2>1, EvidenceStays DEF EvaluationFits
    <2>4. \A j \in ArmOrder :
             /\ AccountedFor(e.held[j], attempts, requests, usage) =>
                   AccountedFor(e.held[j], attempts', requests', usage')
             /\ attempts'[e.held[j]].request = attempts[e.held[j]].request
             /\ attempts[e.held[j]].state # "UNCERTAIN" =>
                   attempts'[e.held[j]] = attempts[e.held[j]]
        BY <1>2, <2>1, AccountedStays DEF OnlyFor
    <2>5. ArmFits(k, e, attempts', requests', usage')
        BY <2>4, ArmsAre DEF EvaluationFits, ArmFits
    <2>6. AfterFits(k, e, attempts', requests', usage')
        BY <2>4 DEF EvaluationFits, AfterFits
    <2> QED
        BY <1>2, <2>2, <2>3, <2>5, <2>6 DEF EvaluationFits
<1> QED
    BY <1>1, <1>2

(* Within its arm an evaluation moves its own attempt, and believes in a    *)
(* completion only as far as it goes.                                       *)
LEMMA ArmMoves ==
    ASSUME Inv, [LedgerStep]_vars, NEW c \in Evaluators, EvaluationFits(c),
           caller[c].pc \in ArmPoints, caller'[c].pc \in ArmPoints,
           caller'[c].chain = caller[c].chain, caller'[c].attempt = caller[c].attempt,
           caller'[c].req = caller[c].req,
           HoldsPair(c)',
           evaluation'[c].arm = evaluation[c].arm, evaluation'[c].held = evaluation[c].held,
           evaluation'[c].evidence = evaluation[c].evidence,
           evaluation'[c].aborted = evaluation[c].aborted,
           evaluation'[c].run = evaluation[c].run,
           \A j \in ArmOrder : j # evaluation[c].arm =>
              /\ evaluation'[c].result[j] = evaluation[c].result[j]
              /\ attempts'[evaluation[c].held[j]] = attempts[evaluation[c].held[j]],
           evaluation'[c].accounting =>
              caller'[c].pc = "failed" /\ evaluation'[c].result[evaluation[c].arm] = "failed",
           evaluation'[c].result[evaluation[c].arm] = "completed" =>
              /\ caller'[c].pc \notin {"reserved", "cancel", "transmit", "waiting"}
              /\ caller'[c].pc \in Reported => caller'[c].report.kind = "answer"
              /\ caller'[c].pc = "write" =>
                    /\ attempts'[caller[c].attempt].state = "SETTLED"
                    /\ attempts'[caller[c].attempt].fence = 2
              /\ caller'[c].pc = "written" =>
                    AccountedFor(caller[c].attempt, attempts', requests', usage')
    PROVE  EvaluationFits(c)'
<1> DEFINE k == caller[c]
           e == evaluation[c]
<1>1. /\ k.pc \notin Fresh \cup After \cup {"saved"} /\ caller'[c].pc \notin Fresh \cup After \cup {"saved"}
      /\ HoldsPair(c) /\ ArmFits(k, e, attempts, requests, usage) /\ e.arm \in ArmOrder
    BY DEF EvaluationFits, Fresh, ArmPoints, After, ArmFits
<1>2. \A j \in ArmOrder :
         /\ e.held[j] \in DOMAIN attempts
         /\ attempts'[e.held[j]].request = attempts[e.held[j]].request
    BY <1>1, OutcomesStay DEF HoldsPair
<1>3. e.arm = 2 => AccountedFor(e.held[1], attempts', requests', usage')
    BY <1>1, <1>2, ArmsAre, AccountedStays DEF ArmFits
<1>4. e.run = Null
    BY <1>1 DEF EvaluationFits, RunFits
<1>5. ~e.aborted /\ \A j \in ArmOrder : e.evidence[j] = Null
    BY <1>1 DEF ArmFits
<1>6. EvidenceFits(evaluation'[c], attempts') /\ Faults(evaluation'[c])
      /\ RunFits(caller'[c], evaluation'[c])
    BY <1>1, <1>4, <1>5 DEF EvidenceFits, Faults, RunFits
<1>7. ArmFits(caller'[c], evaluation'[c], attempts', requests', usage')
    BY <1>1, <1>2, <1>3, <1>5, ArmsAre DEF ArmFits
<1>8. AfterFits(caller'[c], evaluation'[c], attempts', requests', usage')
    BY <1>1 DEF AfterFits
<1> QED
    BY <1>1, <1>6, <1>7, <1>8 DEF EvaluationFits

LEMMA OwnPairStays ==
    ASSUME Inv, [LedgerStep]_vars, NEW c \in Evaluators, HoldsPair(c),
           DOMAIN attempts' = DOMAIN attempts,
           \A d \in Callers \ {c} : caller'[d] = caller[d],
           \A d \in Evaluators : evaluation'[d].held = evaluation[d].held
    PROVE  HoldsPair(c)'
<1>1. \A j \in ArmOrder :
         LET r == attempts[evaluation[c].held[j]].request
         IN  /\ \A d \in Callers \ {c} : caller'[d].req # r
             /\ \A d \in Evaluators \ {c}, i \in ArmOrder :
                   evaluation'[d].held[i] # evaluation[c].held[j]
    BY DEF HoldsPair
<1> QED
    BY <1>1, PairStays

-------------------------------------------------------------------------------
(* Whose requests a step is made for *)

(* Request r is none of another evaluation's pair.                          *)
ForeignTo(c, r) ==
    \A d \in Evaluators \ {c}, j \in ArmOrder :
        caller[d].pc \notin Fresh => attempts[evaluation[d].held[j]].request # r

LEMMA OwnIsForeign ==
    ASSUME EvaluationInv, NEW c \in Callers
    PROVE  ForeignTo(c, caller[c].req)
BY DEF EvaluationInv, EvaluationFits, HoldsPair, ForeignTo

LEMMA NewIsForeign ==
    ASSUME Inv, EvaluationInv, NEW c, NEW r, r \notin DOMAIN requests
    PROVE  ForeignTo(c, r)
BY DEF EvaluationInv, EvaluationFits, HoldsPair, ForeignTo, Inv, TypeOK

LEMMA HeldIsForeign ==
    ASSUME EvaluationInv, NEW c \in Evaluators, caller[c].pc \notin Fresh, NEW j \in ArmOrder
    PROVE  ForeignTo(c, attempts[evaluation[c].held[j]].request)
<1>1. HoldsPair(c)
    BY DEF EvaluationInv, EvaluationFits
<1> QED
    BY <1>1 DEF EvaluationInv, EvaluationFits, HoldsPair, ForeignTo

LEMMA OthersFit ==
    ASSUME Inv, [LedgerStep]_vars, EvaluationInv, NEW c \in Callers, NEW R, OnlyFor(R),
           \A r \in R \cup {caller'[c].req} : ForeignTo(c, r),
           \A d \in Callers \ {c} : caller'[d] = caller[d],
           \A d \in Evaluators \ {c} : evaluation'[d] = evaluation[d],
           c \in Evaluators => \A i \in ArmOrder :
              \/ evaluation'[c].held[i] = evaluation[c].held[i]
              \/ evaluation'[c].held[i] \notin DOMAIN attempts
    PROVE  \A d \in Evaluators \ {c} : EvaluationFits(d)'
<1> SUFFICES ASSUME NEW d \in Evaluators \ {c}
             PROVE  EvaluationFits(d)'
    OBVIOUS
<1>1. /\ EvaluationFits(d) /\ d \in Callers /\ caller'[d] = caller[d]
      /\ evaluation'[d] = evaluation[d]
    BY EvaluationAssumption DEF EvaluationInv
<1>2. ASSUME caller[d].pc \notin Fresh, NEW j \in ArmOrder
      PROVE  LET r == attempts[evaluation[d].held[j]].request
             IN  /\ r \notin R
                 /\ \A b \in Callers \ {d} : caller'[b].req # r
                 /\ \A b \in Evaluators \ {d}, i \in ArmOrder :
                       evaluation'[b].held[i] # evaluation[d].held[j]
    BY <1>1, <1>2 DEF EvaluationFits, HoldsPair, ForeignTo
<1> QED
    BY <1>1, <1>2, BystanderStays

(* A step of a call is made for its request, which it had or which is new.  *)
LEMMA CallIsOwn ==
    ASSUME Inv, EngineInv, NEW c \in Callers, Calls(c)
    PROVE  /\ OnlyFor({caller'[c].req})
           /\ caller'[c].req = caller[c].req \/ caller'[c].req \notin DOMAIN requests
           /\ \A d \in Callers \ {c} : caller'[d] = caller[d]
<1> DEFINE a == caller[c].attempt
<1>1. caller[c] \in CallRecords /\ caller \in [Callers -> CallRecords]
    BY DEF EngineInv, EngineTypes
<1>2. \A d \in Callers \ {c} : caller'[d] = caller[d]
    BY <1>1 DEF Calls, Work, Start, SetCancelled, LocalCall, ReservePaid, RefusePaid, Dispatch,
          RefuseDispatch, CancelReserved, Transmit, Receive, FreezeLedger, SettleAttempt,
          LinkRow, LinkRefused, WriteLocalRow, SkipRow, StorageError, Crash, Goto
<1>3. ASSUME ~ReservePaid(c)
      PROVE  caller'[c].req = caller[c].req
    <2>1. ASSUME NEW p, Goto(c, p)
          PROVE  caller'[c].req = caller[c].req
        BY <1>1, <2>1 DEF Goto, CallRecords
    <2>2. CASE Start(c) \/ SetCancelled(c) \/ Receive(c)
        BY <1>1, <2>2 DEF Start, SetCancelled, Receive, CallRecords
    <2>3. CASE LocalCall(c)
        BY <1>1, <2>1, <2>3 DEF LocalCall, CallRecords
    <2>4. CASE SettleAttempt(c)
        BY <1>1, <2>4 DEF SettleAttempt, CallRecords
    <2> QED
        BY <1>3, <2>1, <2>2, <2>3, <2>4 DEF Calls, Work, RefusePaid, Dispatch, RefuseDispatch,
              CancelReserved, Transmit, FreezeLedger, LinkRow, LinkRefused, WriteLocalRow,
              SkipRow, StorageError, Crash
<1>4. CASE ReservePaid(c)
    <2>1. PICK b \in FreshAttempts, quote \in Quotes :
              \/ /\ caller[c].req = Null
                 /\ \E r \in FreshRequests :
                       /\ Reserve({b}, [x \in {b} |-> r], [x \in {b} |-> quote])
                       /\ caller' = [caller EXCEPT ![c].pc = "reserved", ![c].req = r,
                                                   ![c].attempt = b]
              \/ /\ caller[c].req # Null
                 /\ Retry(b, caller[c].req, quote)
                 /\ caller' = [caller EXCEPT ![c].pc = "reserved", ![c].attempt = b]
        BY <1>4 DEF ReservePaid
    <2>2. UNCHANGED bill
        BY <1>4 DEF ReservePaid, BillUnchanged
    <2>3. ASSUME NEW r \in FreshRequests,
                 Reserve({b}, [x \in {b} |-> r], [x \in {b} |-> quote]),
                 caller' = [caller EXCEPT ![c].pc = "reserved", ![c].req = r, ![c].attempt = b]
          PROVE  OnlyFor({caller'[c].req}) /\ caller'[c].req \notin DOMAIN requests
        <3>1. caller'[c].req = r /\ r \notin DOMAIN requests
            BY <1>1, <2>3 DEF FreshRequests, CallRecords
        <3>2. OnlyFor({r})
            BY <2>2, <2>3 DEF Reserve, InsertReserved, InsertRequests, OnlyFor, FreshAttempts
        <3> QED
            BY <3>1, <3>2
    <2>4. ASSUME Retry(b, caller[c].req, quote),
                 caller' = [caller EXCEPT ![c].pc = "reserved", ![c].attempt = b]
          PROVE  OnlyFor({caller'[c].req}) /\ caller'[c].req = caller[c].req
        <3>1. caller'[c].req = caller[c].req
            BY <1>1, <2>4 DEF CallRecords
        <3>2. OnlyFor({caller[c].req})
            BY <2>2, <2>4 DEF Retry, InsertReserved, OnlyFor, FreshAttempts
        <3> QED
            BY <3>1, <3>2
    <2> QED
        BY <1>2, <2>1, <2>3, <2>4
<1>5. CASE Dispatch(c) \/ CancelReserved(c) \/ SettleAttempt(c)
    <2>1. a \in DOMAIN attempts /\ attempts[a].request = caller[c].req
          /\ attempts[a].request \in DOMAIN requests
        BY <1>5, HasRequest DEF Dispatch, CancelReserved, SettleAttempt, At, Holding,
              Dispatched, Reported
    <2>2. \E state, charge : Steps(a, state, charge)
        BY <1>5, <2>1, DispatchSteps, CancelSteps, TerminalSteps
           DEF Dispatch, CancelReserved, SettleAttempt, Settle
    <2>3. OnlyFor({caller[c].req})
        BY <1>5, <2>1, <2>2, StepsOnlyFor
           DEF Dispatch, CancelReserved, SettleAttempt, BillUnchanged
    <2>4. ~ReservePaid(c)
        BY <1>5 DEF Dispatch, CancelReserved, SettleAttempt, ReservePaid, At
    <2> QED
        BY <1>2, <1>3, <2>3, <2>4
<1>6. CASE Transmit(c)
    <2>1. a \in DOMAIN attempts /\ attempts[a].request = caller[c].req
        BY <1>6, HasRequest DEF Transmit, At, Dispatched
    <2>2. UNCHANGED <<attempts, requests>> /\ \A b \in Attempts : b # a => bill'[b] = bill[b]
        BY <1>6 DEF Transmit, LedgerUnchanged, vars, EngineInv, EngineTypes
    <2>3. OnlyFor({caller[c].req})
        BY <2>1, <2>2 DEF OnlyFor, Inv, TypeOK
    <2>4. ~ReservePaid(c)
        BY <1>6 DEF Transmit, ReservePaid, At
    <2> QED
        BY <1>2, <1>3, <2>3, <2>4
<1>7. CASE LinkRow(c)
    <2>1. PICK u \in Rows : LinkUsage(caller[c].req, u, caller[c].paid)
        BY <1>7 DEF LinkRow
    <2>2. UNCHANGED <<attempts, bill>>
        BY <1>7, <2>1 DEF LinkRow, LinkUsage, BillUnchanged
    <2>3. u # Null /\ requests \in [DOMAIN requests -> RequestRows]
        BY LedgerAssumption DEF Inv, TypeOK
    <2>4. /\ DOMAIN requests' = DOMAIN requests
          /\ \A r \in DOMAIN requests : requests[r].row # Null => requests'[r].row # Null
        BY <2>1, <2>3 DEF LinkUsage, RequestRows
    <2>5. OnlyFor({caller[c].req})
        BY <2>2, <2>4 DEF OnlyFor
    <2>6. ~ReservePaid(c)
        BY <1>7 DEF LinkRow, ReservePaid, At
    <2> QED
        BY <1>2, <1>3, <2>5, <2>6
<1>8. CASE ~(ReservePaid(c) \/ Dispatch(c) \/ CancelReserved(c) \/ SettleAttempt(c)
               \/ Transmit(c) \/ LinkRow(c))
    <2>1. UNCHANGED <<attempts, requests, bill>>
        BY <1>8 DEF Calls, Work, Start, SetCancelled, LocalCall, RefusePaid, RefuseDispatch,
              Receive, FreezeLedger, LinkRefused, WriteLocalRow, SkipRow, StorageError, Crash,
              LedgerUnchanged, BillUnchanged, DetectBackwardClock, Freeze, WriteUsage, vars
    <2>2. OnlyFor({caller[c].req})
        BY <2>1 DEF OnlyFor
    <2> QED
        BY <1>2, <1>3, <1>8, <2>2
<1> QED
    BY <1>4, <1>5, <1>6, <1>7, <1>8

-------------------------------------------------------------------------------
(* The steps of an arm *)

Results == {"none", "completed", "failed"}

(* The evaluation of c notes an outcome of the arm that runs.               *)
Marks(c, outcome) ==
    LET e == evaluation[c]
    IN  /\ \A d \in Evaluators \ {c} : evaluation'[d] = evaluation[d]
        /\ evaluation'[c].arm = e.arm /\ evaluation'[c].held = e.held
        /\ evaluation'[c].evidence = e.evidence
        /\ evaluation'[c].aborted = e.aborted /\ evaluation'[c].run = e.run
        /\ evaluation'[c].result[e.arm] = outcome
        /\ \A j \in ArmOrder : j # e.arm => evaluation'[c].result[j] = e.result[j]

LEMMA ResultRecord ==
    ASSUME NEW e \in EvaluationRecords, NEW k \in ArmOrder, NEW outcome \in Results
    PROVE  LET f == [e EXCEPT !.result = [e.result EXCEPT ![k] = outcome]]
           IN  /\ f \in EvaluationRecords
               /\ f.arm = e.arm /\ f.held = e.held /\ f.evidence = e.evidence
               /\ f.aborted = e.aborted /\ f.accounting = e.accounting /\ f.run = e.run
               /\ f.result[k] = outcome /\ \A j \in ArmOrder \ {k} : f.result[j] = e.result[j]
<1> DEFINE g == [e.result EXCEPT ![k] = outcome]
<1>1. g \in [ArmOrder -> Results] /\ g[k] = outcome
      /\ \A j \in ArmOrder \ {k} : g[j] = e.result[j]
    BY DEF EvaluationRecords, Results
<1> HIDE DEF g
<1> DEFINE f == [e EXCEPT !.result = g]
<1>2. /\ f \in EvaluationRecords
      /\ f.arm = e.arm /\ f.held = e.held /\ f.evidence = e.evidence
      /\ f.aborted = e.aborted /\ f.accounting = e.accounting /\ f.run = e.run
      /\ f.result = g
    BY <1>1 DEF EvaluationRecords, Results
<1> QED
    BY <1>1, <1>2 DEF g

LEMMA ConcludeMarks ==
    ASSUME EvaluationTypes, NEW c \in Evaluators, evaluation[c].arm \in ArmOrder,
           NEW outcome \in Results, Conclude(c, outcome)
    PROVE  /\ EvaluationTypes' /\ Marks(c, outcome)
           /\ evaluation'[c].accounting = evaluation[c].accounting
<1> DEFINE e == evaluation[c]
           f == [e EXCEPT !.result = [e.result EXCEPT ![e.arm] = outcome]]
<1>1. evaluation' = [evaluation EXCEPT ![c] = f]
    BY DEF Conclude, EvaluationTypes
<1>2. /\ f \in EvaluationRecords
      /\ f.arm = e.arm /\ f.held = e.held /\ f.evidence = e.evidence
      /\ f.aborted = e.aborted /\ f.accounting = e.accounting /\ f.run = e.run
      /\ f.result[e.arm] = outcome
      /\ \A j \in ArmOrder \ {e.arm} : f.result[j] = e.result[j]
    BY ResultRecord DEF EvaluationTypes
<1> HIDE DEF f
<1>3. evaluation'[c] = f /\ \A d \in Evaluators \ {c} : evaluation'[d] = evaluation[d]
    BY <1>1 DEF EvaluationTypes
<1> QED
    BY <1>1, <1>2, <1>3 DEF EvaluationTypes, Marks

LEMMA UnchangedMarks ==
    ASSUME EvaluationTypes, NEW c \in Evaluators, EvaluationUnchanged
    PROVE  /\ EvaluationTypes' /\ Marks(c, evaluation[c].result[evaluation[c].arm])
           /\ evaluation'[c].accounting = evaluation[c].accounting
BY DEF EvaluationUnchanged, EvaluationTypes, Marks

(* A step for the request of the arm that runs leaves the other arm alone.  *)
LEMMA OtherArmStays ==
    ASSUME Inv, [LedgerStep]_vars, NEW c \in Evaluators, EvaluationFits(c),
           caller[c].pc \in ArmPoints, OnlyFor({caller[c].req})
    PROVE  \A j \in ArmOrder : j # evaluation[c].arm =>
              attempts'[evaluation[c].held[j]] = attempts[evaluation[c].held[j]]
<1> DEFINE e == evaluation[c]
<1>1. /\ HoldsPair(c) /\ ArmFits(caller[c], e, attempts, requests, usage)
      /\ e.arm \in {1, 2} /\ caller[c].req = attempts[e.held[e.arm]].request
    BY ArmsAre DEF EvaluationFits, ArmFits, Fresh, ArmPoints
<1>2. /\ e.held[1] \in DOMAIN attempts /\ e.held[2] \in DOMAIN attempts
      /\ e.held[1] # e.held[2]
      /\ attempts[e.held[1]].request # attempts[e.held[2]].request
    BY <1>1, ArmsAre DEF HoldsPair
<1>3. CASE e.arm = 1
    <2>1. attempts[e.held[2]].state = "RESERVED"
        BY <1>1, <1>3 DEF ArmFits
    <2>2. attempts'[e.held[2]] = attempts[e.held[2]]
        BY <1>1, <1>2, <1>3, <2>1 DEF OnlyFor
    <2> QED
        BY <1>3, <2>2, ArmsAre
<1>4. CASE e.arm = 2
    <2>1. attempts[e.held[1]].state = "SETTLED"
        BY <1>1, <1>4 DEF ArmFits, AccountedFor
    <2>2. attempts'[e.held[1]] = attempts[e.held[1]]
        BY <1>1, <1>2, <1>4, <2>1 DEF OnlyFor
    <2> QED
        BY <1>4, <2>2, ArmsAre
<1> QED
    BY <1>1, <1>3, <1>4

LEMMA ArmStep ==
    ASSUME Inv, [LedgerStep]_vars, NEW c \in Evaluators, EvaluationFits(c),
           caller[c].pc \in ArmPoints, caller'[c].pc \in ArmPoints,
           caller'[c].chain = caller[c].chain, caller'[c].attempt = caller[c].attempt,
           caller'[c].req = caller[c].req,
           \A d \in Callers \ {c} : caller'[d] = caller[d],
           OnlyFor({caller[c].req}), DOMAIN attempts' = DOMAIN attempts,
           NEW outcome, Marks(c, outcome),
           evaluation'[c].accounting => caller'[c].pc = "failed" /\ outcome = "failed",
           outcome = "completed" =>
              /\ caller'[c].pc \notin {"reserved", "cancel", "transmit", "waiting"}
              /\ caller'[c].pc \in Reported => caller'[c].report.kind = "answer"
              /\ caller'[c].pc = "write" =>
                    /\ attempts'[caller[c].attempt].state = "SETTLED"
                    /\ attempts'[caller[c].attempt].fence = 2
              /\ caller'[c].pc = "written" =>
                    AccountedFor(caller[c].attempt, attempts', requests', usage')
    PROVE  EvaluationFits(c)'
<1>1. HoldsPair(c)
    BY DEF EvaluationFits, Fresh, ArmPoints
<1>2. \A d \in Evaluators : evaluation'[d].held = evaluation[d].held
    BY DEF Marks
<1>3. HoldsPair(c)'
    BY <1>1, <1>2, OwnPairStays
<1>4. \A j \in ArmOrder : j # evaluation[c].arm =>
         /\ evaluation'[c].result[j] = evaluation[c].result[j]
         /\ attempts'[evaluation[c].held[j]] = attempts[evaluation[c].held[j]]
    BY OtherArmStays DEF Marks
<1> QED
    BY <1>3, <1>4, ArmMoves DEF Marks

(* What is known while an arm runs.                                         *)
LEMMA ArmKnown ==
    ASSUME EngineInv, EvaluationInv, NEW c \in Evaluators, caller[c].pc \in ArmPoints
    PROVE  /\ c \in Callers /\ caller[c] \in CallRecords /\ caller \in [Callers -> CallRecords]
           /\ evaluation[c].arm \in ArmOrder /\ HoldsPair(c)
           /\ caller[c].attempt = evaluation[c].held[evaluation[c].arm]
           /\ caller[c].attempt \in DOMAIN attempts
           /\ attempts[caller[c].attempt].request = caller[c].req
           /\ \A a \in DOMAIN attempts :
                 attempts[a].request = caller[c].req => a = caller[c].attempt
           /\ caller[c].chain = <<"paid">>
           /\ evaluation[c].result[evaluation[c].arm] \in Results
           /\ ArmFits(caller[c], evaluation[c], attempts, requests, usage)
           /\ Agrees(caller[c], attempts, requests, bill)
<1>1. /\ c \in Callers /\ caller[c] \in CallRecords /\ caller \in [Callers -> CallRecords]
      /\ evaluation[c] \in EvaluationRecords /\ EvaluationFits(c)
      /\ Agrees(caller[c], attempts, requests, bill)
    BY EvaluationAssumption DEF EngineInv, EngineTypes, CallsAgree, EvaluationInv, EvaluationTypes
<1>2. HoldsPair(c) /\ ArmFits(caller[c], evaluation[c], attempts, requests, usage)
    BY <1>1 DEF EvaluationFits, ArmPoints, Fresh
<1> QED
    BY <1>1, <1>2 DEF ArmFits, HoldsPair, EvaluationRecords, Results

LEMMA GoneFrom ==
    ASSUME EngineTypes, NEW c \in Callers, NEW p, Goto(c, p)
    PROVE  /\ caller'[c].pc = p /\ caller'[c].chain = caller[c].chain
           /\ caller'[c].attempt = caller[c].attempt /\ caller'[c].req = caller[c].req
           /\ caller'[c].paid = caller[c].paid /\ caller'[c].report = caller[c].report
           /\ \A d \in Callers \ {c} : caller'[d] = caller[d]
<1>1. caller[c] \in CallRecords /\ caller \in [Callers -> CallRecords]
    BY DEF EngineTypes
<1> QED
    BY <1>1 DEF Goto, CallRecords

(* Before its answer, an arm has not completed.                             *)
LEMMA BeforeAnswerFits ==
    ASSUME Inv, EngineInv, EvaluationInv, [LedgerStep]_vars, NEW c \in Evaluators,
           Dispatch(c) \/ CancelReserved(c) \/ Transmit(c) \/ FreezeLedger(c),
           EvaluationUnchanged
    PROVE  EvaluationFits(c)'
<1>1. c \in Callers /\ EvaluationFits(c) /\ EvaluationTypes /\ EngineTypes
    BY EvaluationAssumption DEF EvaluationInv, EngineInv
<1>2. caller[c].pc \in {"reserved", "cancel", "transmit", "freeze"}
    BY DEF Dispatch, CancelReserved, Transmit, FreezeLedger, At
<1>3. PICK p \in {"transmit", "write", "waiting", "settle"} :
         Goto(c, p) /\ (p = "settle" <=> caller[c].pc = "freeze")
    BY DEF Dispatch, CancelReserved, Transmit, FreezeLedger, At
<1>4. OnlyFor({caller[c].req})
    BY <1>1, <1>3, GoneFrom, CallIsOwn DEF Calls, Work
<1>5. DOMAIN attempts' = DOMAIN attempts
    BY DEF Dispatch, CancelReserved, Transmit, FreezeLedger, BeginDispatch, Cancel, Freeze,
           LedgerUnchanged, vars
<1> DEFINE outcome == evaluation[c].result[evaluation[c].arm]
<1>6. Marks(c, outcome) /\ evaluation'[c].accounting = evaluation[c].accounting
    BY <1>1, UnchangedMarks
<1>7. ArmFits(caller[c], evaluation[c], attempts, requests, usage) /\ caller[c].pc \in ArmPoints
    BY <1>1, <1>2 DEF EvaluationFits, ArmPoints
<1>8. ~evaluation[c].accounting
      /\ (outcome = "completed" => p = "settle" /\ caller[c].report.kind = "answer")
    BY <1>2, <1>3, <1>7 DEF ArmFits, Reported, ArmPoints
<1>9. p \in ArmPoints
    BY DEF ArmPoints
<1> HIDE DEF outcome
<1> QED
    BY <1>1, <1>3, <1>4, <1>5, <1>6, <1>7, <1>8, <1>9, GoneFrom, ArmStep

LEMMA ArmRefusedFits ==
    ASSUME Inv, EngineInv, EvaluationInv, [LedgerStep]_vars, NEW c \in Evaluators,
           ArmRefused(c)
    PROVE  EvaluationFits(c)' /\ EvaluationTypes' /\ Marks(c, "failed")
<1>1. c \in Callers /\ EvaluationFits(c) /\ EvaluationTypes /\ EngineTypes
    BY EvaluationAssumption DEF EvaluationInv, EngineInv
<1>2. /\ caller[c].pc = "reserved" /\ Goto(c, "cancel") /\ Conclude(c, "failed")
      /\ caller[c].pc \in ArmPoints
    BY DEF ArmRefused, RefuseDispatch, At, ArmPoints
<1>3. OnlyFor({caller[c].req})
    BY <1>1, <1>2, GoneFrom, CallIsOwn DEF Calls, Work, ArmRefused
<1>4. DOMAIN attempts' = DOMAIN attempts
    BY DEF ArmRefused, RefuseDispatch, LedgerUnchanged, DetectBackwardClock, vars
<1>5. /\ EvaluationTypes' /\ Marks(c, "failed")
      /\ evaluation'[c].accounting = evaluation[c].accounting
    BY <1>1, <1>2, ArmKnown, ConcludeMarks DEF Results
<1>6. ~evaluation[c].accounting
    BY <1>1, <1>2 DEF EvaluationFits, ArmFits
<1>7. "cancel" \in ArmPoints
    BY DEF ArmPoints
<1> QED
    BY <1>1, <1>2, <1>3, <1>4, <1>5, <1>6, <1>7, GoneFrom, ArmStep

LEMMA ArmStorageErrorFits ==
    ASSUME Inv, EngineInv, EvaluationInv, [LedgerStep]_vars, NEW c \in Evaluators,
           ArmStorageError(c)
    PROVE  EvaluationFits(c)' /\ EvaluationTypes' /\ Marks(c, "failed")
<1>1. c \in Callers /\ EvaluationFits(c) /\ EvaluationTypes /\ EngineTypes
    BY EvaluationAssumption DEF EvaluationInv, EngineInv
<1>2. PICK p \in {"write", "aborted"} : Goto(c, p)
    BY DEF ArmStorageError, StorageError, At
<1>3. /\ caller[c].pc \in {"reserved", "cancel", "freeze", "settle"}
      /\ caller[c].pc \in ArmPoints /\ p \in ArmPoints /\ Conclude(c, "failed")
    BY DEF ArmStorageError, StorageError, At, ArmPoints
<1>4. OnlyFor({caller[c].req})
    BY <1>1, <1>2, GoneFrom, CallIsOwn DEF Calls, ArmStorageError
<1>5. DOMAIN attempts' = DOMAIN attempts
    BY DEF ArmStorageError, StorageError, LedgerUnchanged, vars
<1>6. /\ EvaluationTypes' /\ Marks(c, "failed")
      /\ evaluation'[c].accounting = evaluation[c].accounting
    BY <1>1, <1>3, ArmKnown, ConcludeMarks DEF Results
<1>7. ~evaluation[c].accounting
    BY <1>1, <1>3 DEF EvaluationFits, ArmFits
<1> QED
    BY <1>1, <1>2, <1>3, <1>4, <1>5, <1>6, <1>7, GoneFrom, ArmStep

LEMMA ArmReceiveFits ==
    ASSUME Inv, EngineInv, EvaluationInv, [LedgerStep]_vars, NEW c \in Evaluators,
           ArmReceive(c)
    PROVE  EvaluationFits(c)' /\ EvaluationTypes' /\ \E outcome : Marks(c, outcome)
<1> DEFINE outcome == IF caller'[c].report.kind = "answer" THEN "completed" ELSE "failed"
<1>1. c \in Callers /\ EvaluationFits(c) /\ EvaluationTypes /\ EngineTypes
    BY EvaluationAssumption DEF EvaluationInv, EngineInv
<1>2. caller[c].pc = "waiting" /\ caller[c].pc \in ArmPoints /\ Conclude(c, outcome)
    BY DEF ArmReceive, Receive, At, ArmPoints
<1>3. OnlyFor({caller'[c].req}) /\ \A d \in Callers \ {c} : caller'[d] = caller[d]
    BY <1>1, CallIsOwn DEF Calls, Work, ArmReceive
<1>4. DOMAIN attempts' = DOMAIN attempts
    BY DEF ArmReceive, Receive, LedgerUnchanged, vars
<1>5. /\ caller'[c].chain = caller[c].chain /\ caller'[c].attempt = caller[c].attempt
      /\ caller'[c].req = caller[c].req /\ caller'[c].pc \in Reported
    <2>1. caller[c] \in CallRecords /\ caller \in [Callers -> CallRecords]
        BY <1>1 DEF EngineTypes
    <2>2. PICK report :
             caller' = [caller EXCEPT ![c].report = report,
                           ![c].pc = IF report.kind = "violation" THEN "freeze" ELSE "settle"]
        BY DEF ArmReceive, Receive
    <2> DEFINE p == IF report.kind = "violation" THEN "freeze" ELSE "settle"
               j == [caller[c] EXCEPT !.report = report]
               k == [j EXCEPT !.pc = p]
    <2>3. caller' = [caller EXCEPT ![c] = k]
        BY <2>1, <2>2
    <2>4. p \in Reported
        BY DEF Reported
    <2>5. /\ k.pc = p /\ k.chain = caller[c].chain /\ k.req = caller[c].req
          /\ k.attempt = caller[c].attempt
        BY <2>1 DEF CallRecords
    <2> HIDE DEF k
    <2> QED
        BY <1>1, <2>1, <2>3, <2>4, <2>5
<1>6. /\ EvaluationTypes' /\ Marks(c, outcome)
      /\ evaluation'[c].accounting = evaluation[c].accounting
    <2>1. outcome \in Results
        BY DEF Results
    <2> HIDE DEF outcome
    <2> QED
        BY <1>1, <1>2, <2>1, ArmKnown, ConcludeMarks
<1>7. ~evaluation[c].accounting
    BY <1>1, <1>2 DEF EvaluationFits, ArmFits
<1>8. caller'[c].pc \in ArmPoints /\ caller'[c].pc \notin {"reserved", "cancel", "transmit",
                                                           "waiting", "write", "written"}
    BY <1>5 DEF ArmPoints, Reported
<1>9. outcome = "completed" => caller'[c].report.kind = "answer"
    OBVIOUS
<1> HIDE DEF outcome
<1> QED
    BY <1>1, <1>2, <1>3, <1>4, <1>5, <1>6, <1>7, <1>8, <1>9, ArmStep

(* An answer settles its attempt within the bound, and there is no other    *)
(* candidate to go on to.                                                   *)
LEMMA SettleFits ==
    ASSUME Inv, EngineInv, EvaluationInv, [LedgerStep]_vars, NEW c \in Evaluators,
           SettleAttempt(c), EvaluationUnchanged
    PROVE  EvaluationFits(c)'
<1> DEFINE a == caller[c].attempt
           report == caller[c].report
           outcome == evaluation[c].result[evaluation[c].arm]
<1>1. c \in Callers /\ EvaluationFits(c) /\ EvaluationTypes /\ EngineTypes
    BY EvaluationAssumption DEF EvaluationInv, EngineInv
<1>2. caller[c].pc = "settle" /\ caller[c].pc \in ArmPoints
    BY DEF SettleAttempt, At, ArmPoints
<1>3. /\ caller[c] \in CallRecords /\ caller \in [Callers -> CallRecords]
      /\ a \in DOMAIN attempts /\ caller[c].chain = <<"paid">>
      /\ ArmFits(caller[c], evaluation[c], attempts, requests, usage)
      /\ Agrees(caller[c], attempts, requests, bill)
    BY <1>2, ArmKnown
<1>4. LastCandidate(c)
    BY <1>3 DEF LastCandidate
<1>5. /\ caller'[c].chain = caller[c].chain /\ caller'[c].attempt = a
      /\ caller'[c].req = caller[c].req
      /\ caller'[c].pc = IF report.kind = "interrupt" THEN "aborted" ELSE "write"
    <2> DEFINE p == IF report.kind = "interrupt" THEN "aborted" ELSE "write"
               paid == PaidSoFar(c)
               chain == caller[c].chain
               k == SettledCall(caller[c], paid, chain, p)
    <2>1. caller' = [caller EXCEPT ![c] = k]
        BY <1>3, <1>4 DEF SettleAttempt, SettledCall
    <2>2. paid \in Nat
        <3>1. report \in ReportRecords /\ caller[c].paid \in Nat
            BY <1>3 DEF CallRecords
        <3> QED
            BY <3>1, MaxNanosAssumption DEF ReportRecords, Nanos, PaidSoFar
    <2>3. p \in Points
        BY DEF Points
    <2>4. chain \in Seq({"local", "paid"})
        BY <1>3 DEF CallRecords
    <2> HIDE DEF p, paid, chain
    <2>5. k.pc = p /\ k.chain = chain /\ k.req = caller[c].req /\ k.attempt = caller[c].attempt
        BY <1>3, <2>2, <2>3, <2>4, SettledRecord
    <2> HIDE DEF k
    <2>6. caller'[c] = k
        BY <1>1, <1>3, <2>1
    <2> QED
        BY <2>5, <2>6 DEF p, chain
<1>6. OnlyFor({caller[c].req}) /\ \A d \in Callers \ {c} : caller'[d] = caller[d]
    BY <1>1, <1>5, CallIsOwn DEF Calls, Work
<1>7. Steps(a, Outcome(a, report.charge), report.charge)
    BY <1>3, TerminalSteps DEF SettleAttempt, Settle, ChargeSettled
<1>8. Marks(c, outcome) /\ evaluation'[c].accounting = evaluation[c].accounting
    BY <1>1, UnchangedMarks
<1>9. ~evaluation[c].accounting
    BY <1>2, <1>3 DEF ArmFits
<1>10. ASSUME outcome = "completed"
       PROVE  attempts'[a].state = "SETTLED" /\ attempts'[a].fence = 2
    <2>1. report.kind = "answer"
        BY <1>2, <1>3, <1>10 DEF ArmFits, Reported
    <2>2. /\ Reportable(report, attempts[a].bound, bill[a]) /\ attempts[a].fence = 1
        BY <1>2, <1>3 DEF Agrees, Dispatched, Reported
    <2>3. report.charge # Null /\ report.charge <= attempts[a].bound
        BY <2>1, <2>2 DEF Reportable
    <2>4. report.charge \in Nat /\ attempts[a].bound \in Nat
        <3>1. report.charge \in Nanos
            BY <1>3, <2>3 DEF CallRecords, ReportRecords
        <3>2. attempts[a].bound \in Nanos
            BY <1>3 DEF Inv, TypeOK, AttemptRows
        <3> QED
            BY <3>1, <3>2, MaxNanosAssumption DEF Nanos
    <2>5. Outcome(a, report.charge) = "SETTLED"
        BY <2>3, <2>4 DEF Outcome, ExceedsBound
    <2> QED
        BY <1>7, <2>2, <2>5 DEF Steps
<1>11. caller'[c].pc \in {"write", "aborted"} /\ caller'[c].pc \in ArmPoints
    BY <1>5 DEF ArmPoints
<1>12. DOMAIN attempts' = DOMAIN attempts
    BY <1>7 DEF Steps
<1> HIDE DEF outcome
<1> QED
    BY <1>1, <1>2, <1>5, <1>6, <1>8, <1>9, <1>10, <1>11, <1>12, ArmStep DEF Reported

-------------------------------------------------------------------------------
(* A step of an evaluation *)

(* What every step does for the engine and the ledger.                      *)
Orderly == EngineInv' /\ [LedgerStep]_vars /\ PaidIsTold' /\ RowTold

EngineBase == Inv /\ RequestsAreOrderly /\ FencesFollow /\ EngineInv /\ PaidIsTold

(* A step that changes no row and ends an arm, or what comes after.         *)
LEMMA QuietEnd ==
    ASSUME EngineBase, NEW c \in Callers, NEW p \in Ends \ {"write"}, Goto(c, p),
           \/ LedgerUnchanged
           \/ DetectBackwardClock, BillUnchanged
    PROVE  Orderly /\ OnlyFor({}) /\ UNCHANGED <<attempts, requests, usage, bill>>
<1>1. RowsUnchanged /\ EngineInv /\ EngineTypes
    BY LedgerAside DEF EngineBase, EngineInv
<1>2. EngineInv'
    BY <1>1, GiveUp
<1>3. [LedgerStep]_vars
    BY DEF LedgerUnchanged, LedgerStep, PolicyStep
<1>4. PaidIsTold'
    <2>1. \A r : SameTold(r)
        BY <1>1 DEF RowsUnchanged, SameTold
    <2>2. p \notin Telling
        BY DEF Ends, Telling, Choosing, Holding, Dispatched, Reported
    <2> QED
        BY <1>1, <2>1, <2>2, GoneFrom, PaidKept DEF EngineBase
<1>5. RowTold
    BY <1>1, NothingLinked DEF EngineBase, RowsUnchanged
<1>6. OnlyFor({}) /\ UNCHANGED <<attempts, requests, bill>>
    BY <1>1 DEF RowsUnchanged, OnlyFor
<1>7. UNCHANGED usage
    BY DEF LedgerUnchanged, DetectBackwardClock, vars
<1> QED
    BY <1>2, <1>3, <1>4, <1>5, <1>6, <1>7 DEF Orderly

LEMMA EvaluatorKeeps ==
    ASSUME Inv, [LedgerStep]_vars, EvaluationInv, NEW c \in Evaluators, NEW R, OnlyFor(R),
           \A r \in R \cup {caller'[c].req} : ForeignTo(c, r),
           \A d \in Callers \ {c} : caller'[d] = caller[d],
           \A d \in Evaluators \ {c} : evaluation'[d] = evaluation[d],
           \A i \in ArmOrder :
              \/ evaluation'[c].held[i] = evaluation[c].held[i]
              \/ evaluation'[c].held[i] \notin DOMAIN attempts,
           EvaluationTypes', EvaluationFits(c)'
    PROVE  EvaluationInv'
<1>1. c \in Callers
    BY EvaluationAssumption
<1>2. \A d \in Evaluators \ {c} : EvaluationFits(d)'
    BY <1>1, OthersFit
<1> QED
    BY <1>2 DEF EvaluationInv

(* The steps an arm shares with the calls of complete.                      *)
LEMMA ArmCallKeeps ==
    ASSUME Inv, EngineInv, EvaluationInv, [LedgerStep]_vars, NEW c \in Evaluators, Calls(c),
           EvaluationTypes', EvaluationFits(c)', \E outcome : Marks(c, outcome)
    PROVE  EvaluationInv'
<1>1. c \in Callers
    BY EvaluationAssumption
<1>2. /\ OnlyFor({caller'[c].req}) /\ \A d \in Callers \ {c} : caller'[d] = caller[d]
      /\ caller'[c].req = caller[c].req \/ caller'[c].req \notin DOMAIN requests
    BY <1>1, CallIsOwn
<1>3. ForeignTo(c, caller'[c].req)
    BY <1>1, <1>2, OwnIsForeign, NewIsForeign
<1>4. /\ \A d \in Evaluators \ {c} : evaluation'[d] = evaluation[d]
      /\ evaluation'[c].held = evaluation[c].held
    BY DEF Marks
<1> QED
    BY <1>2, <1>3, <1>4, EvaluatorKeeps

LEMMA CallIsOrderly ==
    ASSUME EngineBase, NEW c \in Callers, Calls(c)
    PROVE  Orderly
BY WorkStep, CallsOperate, CallPays, CallTells DEF EngineBase, RequestsAreOrderly, Orderly

EvaluationIInv == EngineBase /\ EvaluationInv

LEMMA ArmCallStep ==
    ASSUME EvaluationIInv, NEW c \in Evaluators,
           ArmDispatches(c) \/ ArmRefused(c) \/ ArmReceive(c) \/ ArmStorageError(c)
    PROVE  Orderly /\ EvaluationInv'
<1>1. c \in Callers /\ EngineBase /\ Inv /\ EngineInv /\ EvaluationInv /\ EvaluationTypes
    BY EvaluationAssumption DEF EvaluationIInv, EngineBase, EvaluationInv
<1>2. Calls(c)
    BY DEF ArmDispatches, ArmRefused, ArmReceive, ArmStorageError, Calls, Work
<1>3. Orderly
    BY <1>1, <1>2, CallIsOrderly
<1>4. [LedgerStep]_vars
    BY <1>3 DEF Orderly
<1>5. CASE ArmDispatches(c)
    <2>1. EvaluationUnchanged
        BY <1>5 DEF ArmDispatches
    <2>2. EvaluationFits(c)'
        BY <1>1, <1>4, <1>5, <2>1, BeforeAnswerFits, SettleFits DEF ArmDispatches
    <2>3. EvaluationTypes' /\ \E outcome : Marks(c, outcome)
        BY <1>1, <2>1, UnchangedMarks
    <2> QED
        BY <1>1, <1>2, <1>3, <1>4, <2>2, <2>3, ArmCallKeeps
<1>6. CASE ArmRefused(c) \/ ArmReceive(c) \/ ArmStorageError(c)
    <2>1. EvaluationFits(c)' /\ EvaluationTypes' /\ \E outcome : Marks(c, outcome)
        BY <1>1, <1>4, <1>6, ArmRefusedFits, ArmReceiveFits, ArmStorageErrorFits
    <2> QED
        BY <1>1, <1>2, <1>3, <1>4, <2>1, ArmCallKeeps
<1> QED
    BY <1>5, <1>6

(* The row of an arm is linked to its request and tells its charge.         *)
LEMMA LinkedRowAccounts ==
    ASSUME EvaluationIInv, NEW c \in Evaluators, At(c, "write"), NEW u \in Rows,
           LinkUsage(caller[c].req, u, caller[c].paid), BillUnchanged
    PROVE  /\ OnlyFor({caller[c].req})
           /\ attempts[caller[c].attempt].state = "SETTLED"
                /\ attempts[caller[c].attempt].fence = 2 =>
                 AccountedFor(caller[c].attempt, attempts', requests', usage')
<1> DEFINE a == caller[c].attempt
           r == caller[c].req
<1>1. Inv /\ EngineInv /\ PaidIsTold /\ EvaluationInv /\ caller[c].pc \in ArmPoints
    BY DEF EvaluationIInv, EngineBase, At, ArmPoints
<1>2. /\ c \in Callers /\ a \in DOMAIN attempts /\ attempts[a].request = r
      /\ \A b \in DOMAIN attempts : attempts[b].request = r => b = a
    BY <1>1, ArmKnown
<1>3. /\ r \in DOMAIN requests /\ requests \in [DOMAIN requests -> RequestRows]
      /\ u # Null
    BY <1>1, <1>2, LedgerAssumption DEF Inv, TypeOK
<1>4. /\ UNCHANGED attempts /\ DOMAIN requests' = DOMAIN requests
      /\ requests'[r].row = u
      /\ \A q \in DOMAIN requests : q # r => requests'[q] = requests[q]
      /\ u \in DOMAIN usage' /\ usage'[u].cost = caller[c].paid
    BY <1>3 DEF LinkUsage, RequestRows
<1>5. OnlyFor({r})
    BY <1>3, <1>4 DEF OnlyFor, BillUnchanged
<1>6. ASSUME attempts[a].state = "SETTLED", attempts[a].fence = 2
      PROVE  caller[c].paid = attempts[a].charge
    <2> DEFINE S == {b \in AttemptsOf(r) : attempts[b].fence < 3}
               f == [b \in S |-> KnownCharge(b)]
    <2>1. S = {a}
        BY <1>2, <1>6 DEF AttemptsOf
    <2>2. attempts[a].charge \in Nanos
        <3>1. /\ attempts[a] \in AttemptRows
              /\ attempts[a].charge \in 0..attempts[a].bound
            BY <1>1, <1>2, <1>6 DEF Inv, TypeOK, LedgerInv, ColumnsAgree
        <3> QED
            BY <3>1, MaxNanosAssumption DEF AttemptRows, Nanos
    <2>3. f[a] = attempts[a].charge
        <3>1. attempts[a].charge # Null
            BY <2>2, LedgerAssumption, MaxNanosAssumption DEF Nanos
        <3> QED
            BY <2>1, <3>1 DEF KnownCharge
    <2>4. caller[c].paid = TotalOver(f, S)
        BY <1>1, <1>2, ToldIsKnown DEF PaidIsTold, Telling, At
    <2> HIDE DEF f, S
    <2> QED
        BY <2>1, <2>2, <2>3, <2>4, TotalSingle
<1>7. ASSUME attempts[a].state = "SETTLED", attempts[a].fence = 2
      PROVE  AccountedFor(a, attempts', requests', usage')
    BY <1>2, <1>3, <1>4, <1>6, <1>7 DEF AccountedFor
<1> QED
    BY <1>5, <1>7

LEMMA WriteArmRowStep ==
    ASSUME EvaluationIInv, NEW c \in Evaluators, WriteArmRow(c)
    PROVE  Orderly /\ EvaluationInv'
<1> DEFINE r == caller[c].req
           outcome == evaluation[c].result[evaluation[c].arm]
<1>1. /\ Inv /\ EngineInv /\ EngineTypes /\ PaidIsTold /\ EvaluationInv
      /\ EvaluationTypes /\ EvaluationFits(c)
      /\ caller[c].pc = "write" /\ caller[c].pc \in ArmPoints
    BY DEF EvaluationIInv, EngineBase, EngineInv, EvaluationInv, WriteArmRow, At, ArmPoints
<1>2. /\ c \in Callers /\ caller[c] \in CallRecords /\ caller[c].attempt \in DOMAIN attempts
      /\ attempts[caller[c].attempt].request = r
      /\ caller[c].attempt = evaluation[c].held[evaluation[c].arm]
      /\ ArmFits(caller[c], evaluation[c], attempts, requests, usage)
    BY <1>1, ArmKnown
<1>3. PICK u \in Rows \ DOMAIN usage :
         IF Finalizes(caller[c].attempt) THEN LinkUsage(r, u, caller[c].paid)
         ELSE WriteUsage(u, caller[c].paid)
    BY DEF WriteArmRow
<1>4. /\ Goto(c, "written") /\ UNCHANGED bill /\ EvaluationUnchanged /\ UNCHANGED attempts
    BY <1>3 DEF WriteArmRow, BillUnchanged, LinkUsage, WriteUsage
<1>5. /\ caller'[c].pc = "written" /\ caller'[c].chain = caller[c].chain
      /\ caller'[c].attempt = caller[c].attempt /\ caller'[c].req = r
      /\ \A d \in Callers \ {c} : caller'[d] = caller[d]
    BY <1>1, <1>2, <1>4, GoneFrom
<1>6. r \in DOMAIN requests /\ r # Null /\ caller[c].paid \in Nat
    BY <1>1, <1>2, LedgerAssumption DEF Inv, TypeOK, CallRecords
<1>7. [LedgerStep]_vars
    <2>1. RowSteps
        BY <1>3, <1>6 DEF RowSteps
    <2> QED
        BY <2>1 DEF LedgerStep
<1>8. PaidIsTold'
    <2>1. \A q : SameTold(q)
        BY <1>4 DEF SameTold
    <2>2. "written" \notin Telling
        BY DEF Telling, Choosing, Holding, Dispatched, Reported
    <2> QED
        BY <1>1, <1>2, <1>5, <2>1, <2>2, PaidKept
<1>9. /\ EngineInv' /\ RowTold /\ OnlyFor({r})
      /\ outcome = "completed" =>
            AccountedFor(caller[c].attempt, attempts', requests', usage')
    <2>1. outcome = "completed" =>
             attempts[caller[c].attempt].state = "SETTLED"
               /\ attempts[caller[c].attempt].fence = 2
        BY <1>1, <1>2 DEF ArmFits
    <2>2. CASE Finalizes(caller[c].attempt)
        <3>1. LinkUsage(r, u, caller[c].paid)
            BY <1>3, <2>2
        <3>2. EngineInv'
            BY <1>1, <1>2, <1>4, <1>6, <3>1, LinkedDone
        <3>3. RowTold
            BY <1>1, <1>2, <3>1, LinkTells DEF At
        <3>4. OnlyFor({r}) /\ (attempts[caller[c].attempt].state = "SETTLED"
                                 /\ attempts[caller[c].attempt].fence = 2 =>
                              AccountedFor(caller[c].attempt, attempts', requests', usage'))
            BY <1>1, <1>4, <3>1, LinkedRowAccounts DEF At, BillUnchanged
        <3> QED
            BY <2>1, <3>2, <3>3, <3>4
    <2>3. CASE ~Finalizes(caller[c].attempt)
        <3>1. UNCHANGED <<attempts, requests, bill>>
            BY <1>3, <1>4, <2>3 DEF WriteUsage
        <3>2. EngineInv'
            BY <1>1, <1>2, <1>4, <3>1, GiveUp DEF RowsUnchanged, Ends
        <3>3. RowTold /\ OnlyFor({r})
            BY <1>1, <3>1, NothingLinked DEF OnlyFor
        <3> QED
            BY <2>1, <2>3, <3>2, <3>3 DEF Finalizes
    <2> QED
        BY <2>2, <2>3
<1>10. /\ EvaluationTypes' /\ Marks(c, outcome)
       /\ evaluation'[c].accounting = evaluation[c].accounting
    BY <1>1, <1>4, UnchangedMarks
<1>11. ~evaluation[c].accounting /\ "written" \in ArmPoints /\ DOMAIN attempts' = DOMAIN attempts
    BY <1>1, <1>2, <1>4 DEF ArmFits, ArmPoints
<1>12. Orderly
    BY <1>7, <1>8, <1>9 DEF Orderly
<1> HIDE DEF outcome
<1>13. EvaluationFits(c)'
    BY <1>1, <1>5, <1>7, <1>9, <1>10, <1>11, ArmStep DEF Reported
<1>14. ForeignTo(c, r)
    BY <1>1, <1>2, OwnIsForeign
<1> QED
    BY <1>1, <1>5, <1>7, <1>9, <1>10, <1>12, <1>13, <1>14, EvaluatorKeeps DEF Marks

(* The answer is kept, its accounts are not.                                *)
LEMMA ArmAccountingErrorStep ==
    ASSUME EvaluationIInv, NEW c \in Evaluators, ArmAccountingError(c)
    PROVE  Orderly /\ EvaluationInv'
<1>1. /\ Inv /\ EngineBase /\ EngineInv /\ EngineTypes /\ EvaluationInv
      /\ EvaluationTypes /\ EvaluationFits(c)
      /\ caller[c].pc = "write" /\ caller[c].pc \in ArmPoints
    BY DEF EvaluationIInv, EngineBase, EngineInv, EvaluationInv, ArmAccountingError, At,
           ArmPoints
<1>2. c \in Callers /\ evaluation[c].arm \in ArmOrder
    BY <1>1, ArmKnown
<1>3. Goto(c, "failed") /\ LedgerUnchanged /\ BillUnchanged
    BY DEF ArmAccountingError
<1>4. Orderly /\ OnlyFor({}) /\ UNCHANGED <<attempts, requests, usage, bill>>
    <2>1. "failed" \in Ends \ {"write"}
        BY DEF Ends
    <2> QED
        BY <1>1, <1>2, <1>3, <2>1, QuietEnd
<1>5. EvaluationTypes' /\ Marks(c, "failed")
    <2> DEFINE e == evaluation[c]
               g == [e.result EXCEPT ![e.arm] = "failed"]
               e1 == [e EXCEPT !.result = g]
               f == [e1 EXCEPT !.accounting = TRUE]
    <2>1. /\ e1 \in EvaluationRecords
          /\ e1.arm = e.arm /\ e1.held = e.held /\ e1.evidence = e.evidence
          /\ e1.aborted = e.aborted /\ e1.run = e.run
          /\ e1.result[e.arm] = "failed"
          /\ \A j \in ArmOrder \ {e.arm} : e1.result[j] = e.result[j]
        <3>1. e \in EvaluationRecords /\ "failed" \in Results
            BY <1>1 DEF EvaluationTypes, Results
        <3> QED
            BY <1>2, <3>1, ResultRecord
    <2>2. evaluation' = [evaluation EXCEPT ![c] = f]
        BY <1>1 DEF ArmAccountingError, EvaluationTypes
    <2> HIDE DEF e1
    <2>3. /\ f \in EvaluationRecords
          /\ f.arm = e1.arm /\ f.held = e1.held /\ f.evidence = e1.evidence
          /\ f.aborted = e1.aborted /\ f.run = e1.run /\ f.result = e1.result
        BY <2>1 DEF EvaluationRecords
    <2> HIDE DEF f
    <2>4. evaluation'[c] = f /\ \A d \in Evaluators \ {c} : evaluation'[d] = evaluation[d]
        BY <1>1, <2>2 DEF EvaluationTypes
    <2> QED
        BY <1>1, <2>1, <2>2, <2>3, <2>4 DEF EvaluationTypes, Marks
<1>6. /\ caller'[c].pc = "failed" /\ caller'[c].chain = caller[c].chain
      /\ caller'[c].attempt = caller[c].attempt /\ caller'[c].req = caller[c].req
      /\ \A d \in Callers \ {c} : caller'[d] = caller[d]
    BY <1>1, <1>2, <1>3, GoneFrom
<1>7. "failed" \in ArmPoints /\ [LedgerStep]_vars /\ OnlyFor({caller[c].req})
    BY <1>4 DEF ArmPoints, Orderly, OnlyFor
<1>8. EvaluationFits(c)'
    BY <1>1, <1>4, <1>5, <1>6, <1>7, ArmStep
<1>9. ForeignTo(c, caller[c].req)
    BY <1>1, <1>2, OwnIsForeign
<1> QED
    BY <1>1, <1>4, <1>5, <1>6, <1>7, <1>8, <1>9, EvaluatorKeeps DEF Marks

-------------------------------------------------------------------------------
(* From arm to arm *)

(* The record of a call that begins with an arm.                            *)
ArmCall(req, a) ==
    [Idle EXCEPT !.pc = "reserved", !.chain = <<"paid">>, !.req = req, !.attempt = a]

LEMMA ArmRecord ==
    ASSUME NEW r \in Requests, NEW a \in Attempts
    PROVE  LET k == ArmCall(r, a)
           IN  /\ k \in CallRecords /\ k.pc = "reserved" /\ k.chain = <<"paid">>
               /\ k.req = r /\ k.attempt = a /\ k.paid = 0
<1>1. NoReport \in ReportRecords
    BY DEF NoReport, Report, ReportRecords
<1>2. <<"paid">> \in Seq({"local", "paid"})
    OBVIOUS
<1> DEFINE k1 == [Idle EXCEPT !.pc = "reserved"]
           k2 == [k1 EXCEPT !.chain = <<"paid">>]
           k3 == [k2 EXCEPT !.req = r]
           k4 == [k3 EXCEPT !.attempt = a]
<1>3. k1 \in CallRecords /\ k1.pc = "reserved" /\ k1.paid = 0
    BY <1>1, EmptySeq DEF Idle, CallRecords, Points
<1>4. k4 = ArmCall(r, a)
    BY DEF ArmCall
<1> HIDE DEF k1
<1>5. k2 \in CallRecords /\ k2.pc = "reserved" /\ k2.chain = <<"paid">> /\ k2.paid = 0
    BY <1>2, <1>3 DEF CallRecords
<1> HIDE DEF k2
<1>6. /\ k3 \in CallRecords /\ k3.pc = "reserved" /\ k3.chain = <<"paid">> /\ k3.paid = 0
      /\ k3.req = r
    BY <1>5 DEF CallRecords
<1> HIDE DEF k3
<1>7. /\ k4 \in CallRecords /\ k4.pc = "reserved" /\ k4.chain = <<"paid">> /\ k4.paid = 0
      /\ k4.req = r /\ k4.attempt = a
    BY <1>6 DEF CallRecords
<1> HIDE DEF k4
<1> QED
    BY <1>4, <1>7

LEMMA ArmChosen ==
    ASSUME NEW e \in EvaluationRecords, NEW k \in 0..2
    PROVE  LET f == [e EXCEPT !.arm = k]
           IN  /\ f \in EvaluationRecords /\ f.arm = k /\ f.held = e.held
               /\ f.result = e.result /\ f.evidence = e.evidence /\ f.aborted = e.aborted
               /\ f.accounting = e.accounting /\ f.run = e.run
BY DEF EvaluationRecords

LEMMA NextArmStep ==
    ASSUME EvaluationIInv, NEW c \in Evaluators, NextArm(c)
    PROVE  Orderly /\ EvaluationInv'
<1> DEFINE e == evaluation[c]
           a == e.held[2]
           r == attempts[a].request
           k == ArmCall(r, a)
<1>1. /\ Inv /\ FencesFollow /\ EngineInv /\ EngineTypes /\ PaidIsTold /\ EvaluationInv
      /\ EvaluationTypes /\ EvaluationFits(c) /\ c \in Callers
      /\ caller[c].pc = "written" /\ caller[c].pc \in ArmPoints
      /\ caller \in [Callers -> CallRecords]
      /\ e \in EvaluationRecords /\ evaluation \in [Evaluators -> EvaluationRecords]
    BY EvaluationAssumption
       DEF EvaluationIInv, EngineBase, EngineInv, EngineTypes, EvaluationInv, EvaluationTypes,
           NextArm, GoesOn, At, ArmPoints
<1>2. /\ HoldsPair(c) /\ ArmFits(caller[c], e, attempts, requests, usage)
    BY <1>1, ArmKnown
<1>3. e.arm = 1 /\ e.result[1] = "completed"
    BY DEF NextArm, GoesOn
<1>4. /\ e.result[2] = "none" /\ attempts[a].state = "RESERVED" /\ attempts[a].fence = 0
      /\ AccountedFor(e.held[1], attempts, requests, usage)
      /\ \A j \in ArmOrder : e.evidence[j] = Null
      /\ ~e.aborted /\ ~e.accounting
    BY <1>1, <1>2, <1>3 DEF ArmFits
<1>5. /\ a \in DOMAIN attempts /\ e.held[1] \in DOMAIN attempts /\ e.held[1] # a
      /\ \A b \in DOMAIN attempts : attempts[b].request = r => b = a
      /\ \A d \in Callers \ {c} : caller[d].req # r
      /\ caller[c].req = attempts[e.held[1]].request
    BY <1>1, <1>2, <1>3, ArmsAre DEF HoldsPair, ArmFits
<1>6. /\ r \in DOMAIN requests /\ r \in Requests /\ a \in Attempts /\ r # Null
      /\ \A d \in Callers : caller[d].req # r
    BY <1>1, <1>5, LedgerAssumption DEF Inv, TypeOK
<1>7. UNCHANGED <<clock, policy, attempts, requests, scopes, usage, bill>>
    BY DEF NextArm, LedgerUnchanged, BillUnchanged, vars
<1>8. caller' = [caller EXCEPT ![c] = k]
    BY DEF NextArm, RunArm, ArmCall
<1>9. /\ k \in CallRecords /\ k.pc = "reserved" /\ k.chain = <<"paid">>
      /\ k.req = r /\ k.attempt = a /\ k.paid = 0
    BY <1>6, ArmRecord
<1> HIDE DEF k
<1>10. caller'[c] = k /\ \A d \in Callers \ {c} : caller'[d] = caller[d]
    BY <1>1, <1>8
<1>11. OnlyFor({})
    BY <1>7 DEF OnlyFor
<1>12. EngineInv'
    <2>1. Agrees(k, attempts', requests', bill')
        BY <1>4, <1>5, <1>6, <1>7, <1>9 DEF Agrees, Choosing, Holding, Dispatched, Reported
    <2>2. bill' \in [Attempts -> Nat] /\ BillsFit'
        BY <1>1, <1>7 DEF EngineInv, EngineTypes, BillsFit, BillFits
    <2> QED
        BY <1>1, <1>6, <1>8, <1>9, <1>11, <2>1, <2>2, CallMoves
<1>13. [LedgerStep]_vars
    BY <1>7 DEF vars
<1>14. PaidIsTold'
    <2>1. \A q : SameTold(q)
        BY <1>7 DEF SameTold
    <2>2. ToldFor(attempts', r) = 0
        <3>1. attempts[a].charge = Null
            BY <1>1, <1>4, <1>5 DEF FencesFollow, FenceFollows, Unresolved
        <3>2. \A b \in Attempts : Told(attempts', b, r) = 0
            BY <1>5, <1>7, <3>1 DEF Told
        <3> QED
            BY <3>2, ToldNothing
    <2> QED
        BY <1>1, <1>9, <1>10, <2>1, <2>2, PaidMoves
<1>15. Orderly
    BY <1>1, <1>7, <1>12, <1>13, <1>14, NothingLinked DEF Orderly
<1> DEFINE f == [e EXCEPT !.arm = 2]
<1>16. /\ f \in EvaluationRecords /\ f.arm = 2 /\ f.held = e.held /\ f.result = e.result
       /\ f.evidence = e.evidence /\ f.aborted = e.aborted /\ f.accounting = e.accounting
       /\ f.run = e.run
    <2>1. e \in EvaluationRecords /\ 2 \in 0..2
        BY <1>1
    <2> HIDE DEF e
    <2> QED
        BY <2>1, ArmChosen
<1>17. evaluation' = [evaluation EXCEPT ![c] = f]
    BY <1>1 DEF NextArm
<1> HIDE DEF f
<1>18. /\ evaluation'[c] = f /\ \A d \in Evaluators \ {c} : evaluation'[d] = evaluation[d]
       /\ EvaluationTypes'
    BY <1>1, <1>16, <1>17 DEF EvaluationTypes
<1>19. EvaluationFits(c)'
    <2>1. HoldsPair(c)'
        BY <1>1, <1>2, <1>7, <1>10, <1>13, <1>16, <1>18, OwnPairStays
    <2>2. ArmFits(k, f, attempts', requests', usage')
        BY <1>3, <1>4, <1>7, <1>9, <1>16, ArmsAre DEF ArmFits, Reported
    <2>3. k.pc \notin Fresh \cup After \cup {"saved"} /\ k.pc \in ArmPoints
        BY <1>9 DEF Fresh, After, ArmPoints
    <2>4. f.run = Null
        BY <1>1, <1>16 DEF EvaluationFits, RunFits
    <2>5. EvidenceFits(f, attempts') /\ Faults(f) /\ RunFits(k, f)
        BY <1>4, <1>16, <2>4 DEF EvidenceFits, Faults, RunFits
    <2> QED
        BY <1>10, <1>18, <2>1, <2>2, <2>3, <2>5 DEF EvaluationFits, AfterFits
<1>20. ForeignTo(c, r)
    <2>1. caller[c].pc \notin Fresh
        BY <1>1 DEF Fresh
    <2> QED
        BY <1>1, <2>1, ArmsAre, HeldIsForeign
<1> QED
    BY <1>1, <1>9, <1>10, <1>11, <1>13, <1>15, <1>16, <1>18, <1>19, <1>20, EvaluatorKeeps

(* The record of an evaluation whose arms are over.                         *)
Ended(e, next, k, outcome, failed) ==
    [e EXCEPT !.arm = next, !.result = [e.result EXCEPT ![k] = outcome], !.aborted = failed]

LEMMA EndedRecord ==
    ASSUME NEW e \in EvaluationRecords, NEW k \in ArmOrder, NEW outcome \in Results,
           NEW failed \in BOOLEAN, NEW next \in 0..2
    PROVE  LET f == Ended(e, next, k, outcome, failed)
           IN  /\ f \in EvaluationRecords
               /\ f.arm = next /\ f.held = e.held /\ f.evidence = e.evidence
               /\ f.aborted = failed /\ f.accounting = e.accounting /\ f.run = e.run
               /\ f.result[k] = outcome /\ \A j \in ArmOrder \ {k} : f.result[j] = e.result[j]
<1> DEFINE g == [e.result EXCEPT ![k] = outcome]
           f1 == [e EXCEPT !.arm = next]
           f2 == [f1 EXCEPT !.result = g]
           f3 == [f2 EXCEPT !.aborted = failed]
<1>1. g \in [ArmOrder -> Results] /\ g[k] = outcome
      /\ \A j \in ArmOrder \ {k} : g[j] = e.result[j]
    BY DEF EvaluationRecords, Results
<1>2. f3 = Ended(e, next, k, outcome, failed)
    BY DEF Ended
<1>3. /\ f1 \in EvaluationRecords /\ f1.arm = next /\ f1.held = e.held
      /\ f1.evidence = e.evidence /\ f1.accounting = e.accounting /\ f1.run = e.run
    BY ArmChosen
<1> HIDE DEF g, f1
<1>4. /\ f2 \in EvaluationRecords /\ f2.arm = next /\ f2.held = e.held /\ f2.result = g
      /\ f2.evidence = e.evidence /\ f2.accounting = e.accounting /\ f2.run = e.run
    BY <1>1, <1>3 DEF EvaluationRecords, Results
<1> HIDE DEF f2
<1>5. /\ f3 \in EvaluationRecords /\ f3.arm = next /\ f3.held = e.held /\ f3.result = g
      /\ f3.evidence = e.evidence /\ f3.accounting = e.accounting /\ f3.run = e.run
      /\ f3.aborted = failed
    BY <1>4 DEF EvaluationRecords
<1> HIDE DEF f3
<1> QED
    BY <1>1, <1>2, <1>5

LEMMA EndArmsStep ==
    ASSUME EvaluationIInv, NEW c \in Evaluators, EndArms(c)
    PROVE  Orderly /\ EvaluationInv'
<1> DEFINE e == evaluation[c]
           k == e.arm
           failed == ~At(c, "written") \/ e.result[k] # "completed"
           outcome == IF failed THEN "failed" ELSE e.result[k]
<1>1. /\ Inv /\ EngineBase /\ EngineInv /\ EngineTypes /\ EvaluationInv /\ EvaluationTypes
      /\ EvaluationFits(c) /\ c \in Callers
      /\ caller[c].pc \in {"written", "failed", "aborted"} /\ caller[c].pc \in ArmPoints
      /\ e \in EvaluationRecords
    BY EvaluationAssumption
       DEF EvaluationIInv, EngineBase, EngineInv, EvaluationInv, EvaluationTypes, EndArms, At,
           ArmPoints
<1>2. HoldsPair(c) /\ ArmFits(caller[c], e, attempts, requests, usage) /\ k \in ArmOrder
    BY <1>1, ArmKnown
<1>3. Goto(c, "cleanup") /\ LedgerUnchanged /\ BillUnchanged
    BY DEF EndArms
<1>4. Orderly /\ OnlyFor({}) /\ UNCHANGED <<attempts, requests, usage, bill>>
    <2>1. "cleanup" \in Ends \ {"write"}
        BY DEF Ends
    <2> QED
        BY <1>1, <1>3, <2>1, QuietEnd
<1>5. /\ caller'[c].pc = "cleanup" /\ caller'[c].req = caller[c].req
      /\ \A d \in Callers \ {c} : caller'[d] = caller[d]
    BY <1>1, <1>3, GoneFrom
<1> DEFINE f == Ended(e, 1, k, outcome, failed)
<1>6. evaluation' = [evaluation EXCEPT ![c] = f]
    BY <1>1 DEF EndArms, EvaluationInv, EvaluationTypes, Ended
<1>7. outcome \in Results /\ failed \in BOOLEAN
    BY <1>1, <1>2 DEF EvaluationRecords, Results, At
<1>8. /\ failed => outcome = "failed"
      /\ ~failed => caller[c].pc = "written" /\ e.result[k] = "completed"
                      /\ outcome = "completed"
    BY DEF At
<1>9. /\ f \in EvaluationRecords
      /\ f.arm = 1 /\ f.held = e.held /\ f.evidence = e.evidence
      /\ f.aborted = failed /\ f.accounting = e.accounting /\ f.run = e.run
      /\ f.result[k] = outcome /\ \A j \in ArmOrder \ {k} : f.result[j] = e.result[j]
    <2>1. 1 \in 0..2
        OBVIOUS
    <2> HIDE DEF outcome, failed, e, k
    <2> QED
        BY <1>1, <1>2, <1>7, <2>1, EndedRecord
<1> HIDE DEF f, outcome, failed
<1>10. /\ evaluation'[c] = f /\ \A d \in Evaluators \ {c} : evaluation'[d] = evaluation[d]
       /\ EvaluationTypes'
    BY <1>1, <1>6, <1>9 DEF EvaluationTypes
<1>11. EvaluationFits(c)'
    <2>1. HoldsPair(c)'
        <3>1. \A d \in Evaluators : evaluation'[d].held = evaluation[d].held
            BY <1>9, <1>10
        <3> QED
            BY <1>1, <1>2, <1>4, <1>5, <3>1, OwnPairStays DEF Orderly
    <2>2. \A j \in ArmOrder : f.result[j] = "completed" =>
             AccountedFor(f.held[j], attempts', requests', usage')
        BY <1>1, <1>2, <1>4, <1>8, <1>9, ArmsAre DEF ArmFits
    <2>3. AfterFits(caller'[c], f, attempts', requests', usage')
        BY <1>5, <1>9, <2>2, ArmsAre DEF AfterFits
    <2>4. EvidenceFits(f, attempts') /\ f.run = Null
        BY <1>1, <1>2, <1>9 DEF ArmFits, EvidenceFits, EvaluationFits, RunFits
    <2>5. Faults(f)
        BY <1>1, <1>2, <1>8, <1>9 DEF Faults, EvaluationFits
    <2>6. "cleanup" \notin Fresh \cup ArmPoints \cup {"saved"} /\ "cleanup" \in After
        BY DEF Fresh, ArmPoints, After
    <2> QED
        BY <1>5, <1>10, <2>1, <2>3, <2>4, <2>5, <2>6 DEF EvaluationFits, ArmFits, RunFits
<1>12. ForeignTo(c, caller[c].req)
    BY <1>1, OwnIsForeign
<1> QED
    BY <1>1, <1>4, <1>5, <1>9, <1>10, <1>11, <1>12, EvaluatorKeeps DEF Orderly

-------------------------------------------------------------------------------
(* Cleanup *)

(* A call that is past its row moves on, for a request of no other call.    *)
LEMMA GiveUpFor ==
    ASSUME EngineInv, NEW c \in Callers, NEW p \in Ends, Goto(c, p), NEW R, OnlyFor(R),
           \A d \in Callers \ {c} : caller[d].req \notin R,
           UNCHANGED bill, BillsFit'
    PROVE  EngineInv'
<1>1. PICK k \in CallRecords :
         caller' = [caller EXCEPT ![c] = k] /\ Gone(k, caller[c], p)
    <2>1. p \in Points
        BY DEF Ends, Points
    <2> QED
        BY <2>1, GotoMoves DEF EngineInv
<1>2. caller[c].req # Null => caller[c].req \in DOMAIN requests
    BY DEF EngineInv, CallsAgree, Agrees
<1>3. Agrees(k, attempts', requests', bill')
    BY <1>1, <1>2 DEF Agrees, Gone, Ends, Choosing, Holding, Dispatched, Reported, OnlyFor
<1>4. bill' \in [Attempts -> Nat]
    BY DEF EngineInv, EngineTypes
<1> QED
    BY <1>1, <1>3, <1>4, CallMoves DEF Gone

(* What is known after the arms.                                            *)
LEMMA AfterKnown ==
    ASSUME EvaluationIInv, NEW c \in Evaluators, caller[c].pc \in After
    PROVE  /\ Inv /\ EngineBase /\ EngineInv /\ EngineTypes /\ EvaluationInv
           /\ EvaluationTypes /\ EvaluationFits(c) /\ c \in Callers
           /\ evaluation[c] \in EvaluationRecords /\ HoldsPair(c)
           /\ evaluation[c].arm \in ArmOrder
           /\ AfterFits(caller[c], evaluation[c], attempts, requests, usage)
           /\ EvidenceFits(evaluation[c], attempts) /\ Faults(evaluation[c])
           /\ caller[c].pc # "saved" => evaluation[c].run = Null
           /\ \A j \in ArmOrder : evaluation[c].held[j] \in DOMAIN attempts
<1>1. /\ Inv /\ EngineBase /\ EngineInv /\ EngineTypes /\ EvaluationInv
      /\ EvaluationTypes /\ EvaluationFits(c) /\ c \in Callers
      /\ evaluation[c] \in EvaluationRecords
    BY EvaluationAssumption
       DEF EvaluationIInv, EngineBase, EngineInv, EvaluationInv, EvaluationTypes
<1>2. caller[c].pc \notin Fresh
    BY DEF After, Fresh
<1>3. HoldsPair(c) /\ AfterFits(caller[c], evaluation[c], attempts, requests, usage)
    BY <1>1, <1>2 DEF EvaluationFits
<1> QED
    BY <1>1, <1>3 DEF EvaluationFits, AfterFits, HoldsPair, RunFits

LEMMA ReleaseStep ==
    ASSUME EvaluationIInv, NEW c \in Evaluators, At(c, "cleanup"), NEW p \in {"cleanup", "save"},
           Goto(c, p), BillUnchanged, NEW j \in ArmOrder,
           LedgerUnchanged \/ ReleaseArm(evaluation[c].held[j])
    PROVE  /\ Orderly /\ OnlyFor({attempts[evaluation[c].held[j]].request})
           /\ DOMAIN attempts' = DOMAIN attempts
<1> DEFINE a == evaluation[c].held[j]
           r == attempts[a].request
<1>1. /\ Inv /\ EngineBase /\ EngineInv /\ EngineTypes /\ c \in Callers /\ HoldsPair(c)
      /\ a \in DOMAIN attempts /\ FencesFollow /\ PaidIsTold
    <2>1. caller[c].pc \in After
        BY DEF At, After
    <2> QED
        BY <2>1, AfterKnown DEF EngineBase
<1>2. r \in DOMAIN requests /\ \A d \in Callers \ {c} : caller[d].req # r
    BY <1>1 DEF Inv, TypeOK, HoldsPair
<1>3. p \in Ends \ {"write"}
    BY DEF Ends
<1>4. CASE LedgerUnchanged
    <2>1. Orderly /\ OnlyFor({}) /\ UNCHANGED attempts
        BY <1>1, <1>3, <1>4, QuietEnd
    <2> QED
        BY <2>1 DEF OnlyFor
<1>5. CASE attempts[a].state = "RESERVED" /\ Cancel(a, 0)
    <2>1. Steps(a, "CANCELLED", attempts[a].charge) /\ UNCHANGED bill
        BY <1>1, <1>5, CancelSteps DEF BillUnchanged
    <2>2. OnlyFor({r})
        BY <1>1, <1>2, <2>1, StepsOnlyFor
    <2>3. BillsFit'
        BY <1>1, <1>5, <2>1 DEF EngineInv, BillsFit, BillFits, Steps
    <2>4. EngineInv'
        BY <1>1, <1>2, <1>3, <2>1, <2>2, <2>3, GiveUpFor
    <2>5. [LedgerStep]_vars
        <3>1. Outcomes
            BY <1>1, <1>5 DEF Outcomes
        <3> QED
            BY <3>1 DEF LedgerStep
    <2>6. PaidIsTold'
        <3>1. attempts[a].charge = Null
            BY <1>1, <1>5 DEF FencesFollow, FenceFollows, Unresolved
        <3>2. \A q : SameTold(q)
            BY <1>1, <2>1, <3>1, StepsTell
        <3>3. p \notin Telling
            BY DEF Telling, Choosing, Holding, Dispatched, Reported
        <3> QED
            BY <1>1, <3>2, <3>3, GoneFrom, PaidKept
    <2>7. RowTold /\ DOMAIN attempts' = DOMAIN attempts
        BY <1>1, <2>1, NothingLinked DEF Steps
    <2> QED
        BY <2>2, <2>4, <2>5, <2>6, <2>7 DEF Orderly
<1> QED
    BY <1>4, <1>5 DEF ReleaseArm

(* What was completed stays accounted, whatever the cleanup does.           *)
LEMMA StaysAccounted ==
    ASSUME Inv, [LedgerStep]_vars, NEW k, NEW e, k.pc \in After,
           AfterFits(k, e, attempts, requests, usage),
           \A j \in ArmOrder : e.held[j] \in DOMAIN attempts,
           NEW j \in ArmOrder, e.result[j] = "completed"
    PROVE  AccountedFor(e.held[j], attempts', requests', usage')
BY AccountedStays DEF AfterFits

(* Evidence is what the attempt is after its cleanup.                       *)
EvidenceOf(a) == [state |-> attempts'[a].state, charge |-> attempts'[a].charge]

LEMMA EvidenceThere ==
    ASSUME Inv', NEW a \in DOMAIN attempts'
    PROVE  EvidenceOf(a) \in EvidenceRecords /\ EvidenceOf(a) # Null
<1>1. attempts'[a] \in AttemptRows
    BY DEF Inv, TypeOK
<1>2. EvidenceOf(a) \in EvidenceRecords
    BY <1>1 DEF EvidenceOf, EvidenceRecords, AttemptRows
<1>3. Unresolved \cup {"SETTLED", "CANCELLED", "BREACH"} =
          {"RESERVED", "DISPATCHING", "UNCERTAIN", "SETTLED", "CANCELLED", "BREACH"}
    BY DEF Unresolved
<1> QED
    BY <1>2, <1>3, EvaluationAssumption DEF EvidenceRecords

(* After the arms, evidence is added and nothing else is believed.          *)
LEMMA AfterMoves ==
    ASSUME EvaluationIInv, Inv', [LedgerStep]_vars, NEW c \in Evaluators,
           caller[c].pc \in {"cleanup", "save"}, caller'[c].pc \in After,
           \A d \in Callers \ {c} : caller'[d] = caller[d],
           DOMAIN attempts' = DOMAIN attempts,
           \A d \in Evaluators \ {c} : evaluation'[d] = evaluation[d],
           evaluation'[c].held = evaluation[c].held, evaluation'[c].arm \in ArmOrder,
           \A j \in ArmOrder :
              /\ evaluation'[c].result[j] = "completed" =>
                    /\ evaluation[c].result[j] = "completed"
                    /\ caller'[c].pc # "cleanup" \/ j < evaluation'[c].arm =>
                          evaluation'[c].evidence[j] # Null
              /\ \/ evaluation'[c].evidence[j] = evaluation[c].evidence[j]
                 \/ /\ evaluation'[c].evidence[j] = EvidenceOf(evaluation[c].held[j])
                    /\ attempts'[evaluation[c].held[j]].state # "RESERVED",
           Faults(evaluation'[c]), RunFits(caller'[c], evaluation'[c])
    PROVE  EvaluationFits(c)'
<1> DEFINE e == evaluation[c]
           f == evaluation'[c]
<1>1. /\ Inv /\ EngineInv /\ EvaluationInv /\ c \in Callers /\ HoldsPair(c)
      /\ AfterFits(caller[c], e, attempts, requests, usage) /\ EvidenceFits(e, attempts)
      /\ \A j \in ArmOrder : e.held[j] \in DOMAIN attempts
      /\ caller[c].pc \in After
    <2>1. caller[c].pc \in After
        BY DEF After
    <2> QED
        BY <2>1, AfterKnown
<1>2. HoldsPair(c)'
    <2>1. \A d \in Evaluators : evaluation'[d].held = evaluation[d].held
        OBVIOUS
    <2> QED
        BY <1>1, <2>1, OwnPairStays
<1>3. \A j \in ArmOrder : f.result[j] = "completed" =>
         AccountedFor(f.held[j], attempts', requests', usage')
    BY <1>1, StaysAccounted
<1>4. AfterFits(caller'[c], f, attempts', requests', usage')
    BY <1>3 DEF AfterFits
<1>5. EvidenceFits(f, attempts')
    <2>1. EvidenceFits(e, attempts')
        BY <1>1, EvidenceStays
    <2> SUFFICES ASSUME NEW j \in ArmOrder, f.evidence[j] # Null
                 PROVE  /\ attempts'[f.held[j]].state # "RESERVED"
                        /\ f.evidence[j].state # "RESERVED"
                        /\ f.evidence[j].state \in Resolved =>
                              /\ attempts'[f.held[j]].state = f.evidence[j].state
                              /\ attempts'[f.held[j]].charge = f.evidence[j].charge
                        /\ f.result[j] = "completed" => f.evidence[j].state = "SETTLED"
        BY DEF EvidenceFits
    <2>2. CASE f.evidence[j] = e.evidence[j]
        BY <2>1, <2>2 DEF EvidenceFits
    <2>3. CASE /\ f.evidence[j] = EvidenceOf(e.held[j])
               /\ attempts'[e.held[j]].state # "RESERVED"
        <3>1. f.held[j] = e.held[j]
            OBVIOUS
        <3>2. /\ f.evidence[j].state = attempts'[e.held[j]].state
              /\ f.evidence[j].charge = attempts'[e.held[j]].charge
            BY <2>3 DEF EvidenceOf
        <3>3. f.result[j] = "completed" => attempts'[e.held[j]].state = "SETTLED"
            BY <1>3, <3>1 DEF AccountedFor
        <3> QED
            BY <2>3, <3>1, <3>2, <3>3
    <2> QED
        BY <2>2, <2>3
<1>6. caller'[c].pc \notin Fresh \cup ArmPoints
    BY DEF After, Fresh, ArmPoints
<1> QED
    BY <1>2, <1>4, <1>5, <1>6 DEF EvaluationFits, ArmFits

LEMMA AfterKeeps ==
    ASSUME EvaluationIInv, [LedgerStep]_vars, NEW c \in Evaluators,
           caller[c].pc \in After, NEW j \in ArmOrder,
           OnlyFor({attempts[evaluation[c].held[j]].request}),
           caller'[c].req = caller[c].req, \A d \in Callers \ {c} : caller'[d] = caller[d],
           \A d \in Evaluators \ {c} : evaluation'[d] = evaluation[d],
           evaluation'[c].held = evaluation[c].held, EvaluationTypes', EvaluationFits(c)'
    PROVE  EvaluationInv'
<1>1. Inv /\ EvaluationInv /\ c \in Callers /\ caller[c].pc \notin Fresh
    BY AfterKnown DEF After, Fresh
<1>2. /\ ForeignTo(c, caller[c].req)
      /\ ForeignTo(c, attempts[evaluation[c].held[j]].request)
    BY <1>1, OwnIsForeign, HeldIsForeign
<1> QED
    BY <1>1, <1>2, EvaluatorKeeps

\* The arm the cleanup looks at next.
NextOf(k) == IF k = Len(Arms) THEN k ELSE k + 1

LEMMA NextOfArm ==
    ASSUME NEW k \in ArmOrder
    PROVE  /\ NextOf(k) \in ArmOrder /\ NextOf(k) \in 0..2
           /\ k = Len(Arms) => \A j \in ArmOrder : j # k => j < k
           /\ k # Len(Arms) => \A j \in ArmOrder : j < NextOf(k) => j = k
BY ArmsAre DEF NextOf

\* The record of an evaluation once it has the evidence of an arm.
Witnessed(e, k, evidence) ==
    [e EXCEPT !.evidence = [e.evidence EXCEPT ![k] = evidence], !.arm = NextOf(k)]

LEMMA WitnessedRecord ==
    ASSUME NEW e \in EvaluationRecords, NEW k \in ArmOrder, NEW evidence \in EvidenceRecords
    PROVE  LET f == Witnessed(e, k, evidence)
           IN  /\ f \in EvaluationRecords
               /\ f.arm = NextOf(k) /\ f.held = e.held /\ f.result = e.result
               /\ f.aborted = e.aborted /\ f.accounting = e.accounting /\ f.run = e.run
               /\ f.evidence[k] = evidence
               /\ \A j \in ArmOrder \ {k} : f.evidence[j] = e.evidence[j]
<1> DEFINE g == [e.evidence EXCEPT ![k] = evidence]
           f1 == [e EXCEPT !.evidence = g]
           f2 == [f1 EXCEPT !.arm = NextOf(k)]
<1>1. g \in [ArmOrder -> EvidenceRecords \cup {Null}] /\ g[k] = evidence
      /\ \A j \in ArmOrder \ {k} : g[j] = e.evidence[j]
    BY DEF EvaluationRecords
<1>2. f2 = Witnessed(e, k, evidence)
    BY DEF Witnessed
<1> HIDE DEF g
<1>3. /\ f1 \in EvaluationRecords /\ f1.held = e.held /\ f1.result = e.result
      /\ f1.aborted = e.aborted /\ f1.accounting = e.accounting /\ f1.run = e.run
      /\ f1.evidence = g
    BY <1>1 DEF EvaluationRecords
<1> HIDE DEF f1
<1>4. /\ f2 \in EvaluationRecords /\ f2.arm = NextOf(k) /\ f2.held = e.held
      /\ f2.result = e.result /\ f2.aborted = e.aborted
      /\ f2.accounting = e.accounting /\ f2.run = e.run /\ f2.evidence = g
    <2>1. NextOf(k) \in 0..2
        BY NextOfArm
    <2> QED
        BY <1>3, <2>1, ArmChosen
<1> HIDE DEF f2
<1> QED
    BY <1>1, <1>2, <1>4

LEMMA CleanUpGoes ==
    ASSUME EvaluationIInv, NEW c \in Evaluators, At(c, "cleanup"),
           AfterCleanup(c, evaluation[c].arm), BillUnchanged,
           LedgerUnchanged \/ ReleaseArm(evaluation[c].held[evaluation[c].arm])
    PROVE  LET k == evaluation[c].arm
               a == evaluation[c].held[k]
           IN  /\ Orderly /\ Inv' /\ OnlyFor({attempts[a].request})
               /\ DOMAIN attempts' = DOMAIN attempts /\ a \in DOMAIN attempts'
               /\ k \in ArmOrder /\ evaluation[c] \in EvaluationRecords
               /\ caller'[c].pc = IF k = Len(Arms) THEN "save" ELSE "cleanup"
               /\ caller'[c].req = caller[c].req
               /\ \A d \in Callers \ {c} : caller'[d] = caller[d]
<1> DEFINE k == evaluation[c].arm
           p == IF k = Len(Arms) THEN "save" ELSE "cleanup"
<1>1. caller[c].pc \in After
    BY DEF At, After
<1>2. /\ Inv /\ EngineTypes /\ c \in Callers /\ k \in ArmOrder
      /\ evaluation[c].held[k] \in DOMAIN attempts /\ evaluation[c] \in EvaluationRecords
    BY <1>1, AfterKnown
<1>3. Goto(c, p) /\ p \in {"cleanup", "save"}
    BY DEF AfterCleanup
<1> HIDE DEF p
<1>4. /\ Orderly /\ OnlyFor({attempts[evaluation[c].held[k]].request})
      /\ DOMAIN attempts' = DOMAIN attempts
    BY <1>2, <1>3, ReleaseStep
<1>5. /\ caller'[c].pc = p /\ caller'[c].req = caller[c].req
      /\ \A d \in Callers \ {c} : caller'[d] = caller[d]
    BY <1>2, <1>3, GoneFrom
<1>6. Inv'
    BY <1>2, <1>4, LedgerStepInv DEF Orderly
<1> QED
    BY <1>2, <1>4, <1>5, <1>6 DEF p

LEMMA CleanUpArmStep ==
    ASSUME EvaluationIInv, NEW c \in Evaluators, CleanUpArm(c)
    PROVE  Orderly /\ EvaluationInv'
<1> DEFINE e == evaluation[c]
           k == e.arm
           a == e.held[k]
           f == Witnessed(e, k, EvidenceOf(a))
<1>1. /\ caller[c].pc = "cleanup" /\ caller[c].pc \in After /\ ReleaseArm(a)
      /\ AfterCleanup(c, k)
    BY DEF CleanUpArm, At, After
<1>2. /\ Orderly /\ Inv' /\ OnlyFor({attempts[a].request})
      /\ DOMAIN attempts' = DOMAIN attempts /\ a \in DOMAIN attempts'
      /\ k \in ArmOrder /\ e \in EvaluationRecords
      /\ caller'[c].pc = IF k = Len(Arms) THEN "save" ELSE "cleanup"
      /\ caller'[c].req = caller[c].req
      /\ \A d \in Callers \ {c} : caller'[d] = caller[d]
    BY <1>1, CleanUpGoes DEF CleanUpArm, At
<1>3. /\ Inv /\ EvaluationTypes /\ Faults(e) /\ e.run = Null /\ a \in DOMAIN attempts
      /\ AfterFits(caller[c], e, attempts, requests, usage)
    BY <1>1, <1>2, AfterKnown
<1>4. evaluation' = [evaluation EXCEPT ![c] = f]
    BY <1>3 DEF CleanUpArm, EvaluationTypes, Witnessed, EvidenceOf, NextOf
<1>5. EvidenceOf(a) \in EvidenceRecords /\ EvidenceOf(a) # Null
    BY <1>2, EvidenceThere
<1>6. /\ f \in EvaluationRecords
      /\ f.arm = NextOf(k) /\ f.held = e.held /\ f.result = e.result
      /\ f.aborted = e.aborted /\ f.accounting = e.accounting /\ f.run = e.run
      /\ f.evidence[k] = EvidenceOf(a)
      /\ \A j \in ArmOrder \ {k} : f.evidence[j] = e.evidence[j]
    <2> HIDE DEF e, k, a
    <2> QED
        BY <1>2, <1>5, WitnessedRecord
<1> HIDE DEF f
<1>7. /\ evaluation'[c] = f /\ \A d \in Evaluators \ {c} : evaluation'[d] = evaluation[d]
      /\ EvaluationTypes'
    BY <1>3, <1>4, <1>6 DEF EvaluationTypes
<1>8. attempts'[a].state # "RESERVED"
    <2>1. CASE attempts[a].state = "RESERVED"
        <3>1. Steps(a, "CANCELLED", attempts[a].charge)
            BY <1>1, <1>3, <2>1, CancelSteps DEF ReleaseArm
        <3> QED
            BY <3>1 DEF Steps
    <2>2. CASE attempts[a].state # "RESERVED"
        BY <1>2, <1>3, <2>2, OutcomesStay DEF Orderly
    <2> QED
        BY <2>1, <2>2
<1>9. NextOf(k) \in ArmOrder
      /\ (k = Len(Arms) => \A j \in ArmOrder : j # k => j < k)
      /\ (k # Len(Arms) => \A j \in ArmOrder : j < NextOf(k) => j = k)
    BY <1>2, NextOfArm
<1>10. \A j \in ArmOrder :
          f.result[j] = "completed" /\ (caller'[c].pc # "cleanup" \/ j < f.arm) =>
             f.evidence[j] # Null
    BY <1>1, <1>2, <1>3, <1>5, <1>6, <1>9 DEF AfterFits
<1>11. Faults(f) /\ RunFits(caller'[c], f)
    BY <1>3, <1>6 DEF Faults, RunFits
<1>12. caller'[c].pc \in After
    BY <1>2 DEF After
<1>13. EvaluationFits(c)'
    BY <1>1, <1>2, <1>6, <1>7, <1>8, <1>9, <1>10, <1>11, <1>12, AfterMoves DEF Orderly
<1> QED
    BY <1>1, <1>2, <1>6, <1>7, <1>13, AfterKeeps DEF Orderly

(* Without evidence the arm has failed, and the run was aborted.            *)
LEMMA CleanUpErrorStep ==
    ASSUME EvaluationIInv, NEW c \in Evaluators, CleanUpError(c)
    PROVE  Orderly /\ EvaluationInv'
<1> DEFINE e == evaluation[c]
           k == e.arm
           a == e.held[k]
           failed == TRUE
           f == Ended(e, NextOf(k), k, "failed", failed)
<1>1. /\ caller[c].pc = "cleanup" /\ caller[c].pc \in After
      /\ LedgerUnchanged \/ ReleaseArm(a)
      /\ AfterCleanup(c, k) /\ BillUnchanged
    BY DEF CleanUpError, At, After
<1>2. /\ Orderly /\ Inv' /\ OnlyFor({attempts[a].request})
      /\ DOMAIN attempts' = DOMAIN attempts
      /\ k \in ArmOrder /\ e \in EvaluationRecords
      /\ caller'[c].pc = IF k = Len(Arms) THEN "save" ELSE "cleanup"
      /\ caller'[c].req = caller[c].req
      /\ \A d \in Callers \ {c} : caller'[d] = caller[d]
    BY <1>1, CleanUpGoes DEF At
<1>3. /\ EvaluationTypes /\ e.run = Null
      /\ AfterFits(caller[c], e, attempts, requests, usage)
    BY <1>1, AfterKnown
<1>4. evaluation' = [evaluation EXCEPT ![c] = f]
    BY <1>3 DEF CleanUpError, EvaluationTypes, Ended, NextOf
<1>5. NextOf(k) \in ArmOrder /\ NextOf(k) \in 0..2
      /\ (k = Len(Arms) => \A j \in ArmOrder : j # k => j < k)
      /\ (k # Len(Arms) => \A j \in ArmOrder : j < NextOf(k) => j = k)
    BY <1>2, NextOfArm
<1>6. /\ f \in EvaluationRecords
      /\ f.arm = NextOf(k) /\ f.held = e.held /\ f.evidence = e.evidence
      /\ f.run = e.run
      /\ f.result[k] = "failed" /\ \A j \in ArmOrder \ {k} : f.result[j] = e.result[j]
    <2>1. "failed" \in Results /\ failed \in BOOLEAN
        BY DEF Results
    <2>2. e \in EvaluationRecords /\ k \in ArmOrder /\ NextOf(k) \in 0..2
        BY <1>2, <1>5
    <2> HIDE DEF e, k, a, failed
    <2> QED
        BY <2>1, <2>2, EndedRecord
<1> HIDE DEF f
<1>7. /\ evaluation'[c] = f /\ \A d \in Evaluators \ {c} : evaluation'[d] = evaluation[d]
      /\ EvaluationTypes'
    BY <1>3, <1>4, <1>6 DEF EvaluationTypes
<1>8. \A j \in ArmOrder : f.result[j] = "completed" =>
         /\ e.result[j] = "completed"
         /\ caller'[c].pc # "cleanup" \/ j < f.arm => f.evidence[j] # Null
    BY <1>1, <1>2, <1>3, <1>5, <1>6 DEF AfterFits
<1>9. Faults(f) /\ RunFits(caller'[c], f)
    BY <1>2, <1>3, <1>6 DEF Faults, RunFits
<1>10. caller'[c].pc \in After
    BY <1>2 DEF After
<1>11. EvaluationFits(c)'
    BY <1>1, <1>2, <1>5, <1>6, <1>7, <1>8, <1>9, <1>10, AfterMoves DEF Orderly
<1> QED
    BY <1>1, <1>2, <1>6, <1>7, <1>11, AfterKeeps DEF Orderly

-------------------------------------------------------------------------------
(* The saved run, and the end of an evaluation                              *)

LEMMA RunRecord ==
    ASSUME NEW e \in EvaluationRecords
    PROVE  RunOf(e) \in RunRecords
<1>1. Verdict(e.result) \in {"both_error", "baseline_error", "candidate_error",
                             "both_completed", "inconclusive"}
    BY DEF Verdict
<1>2. BillingKnown(e.evidence) \in BOOLEAN
    BY DEF BillingKnown
<1>3. KnownCost(e.evidence) \in Nat
    <2> DEFINE told == {k \in ArmOrder : e.evidence[k] # Null /\ e.evidence[k].charge # Null}
    <2>1. IsFiniteSet(told)
        <3>1. IsFiniteSet({1} \cup {2})
            BY FS_Singleton, FS_AddElement
        <3>2. told \subseteq {1} \cup {2}
            BY ArmsAre
        <3> QED
            BY <3>1, <3>2, FS_Subset
    <2> QED
        BY <2>1, TotalNat DEF KnownCost
<1>4. Confounders(e) \in SUBSET {"billing_uncertain", "certified_bound_exceeded",
                                 "accounting_write_failed", "aborted_execution"}
    BY DEF Confounders
<1> QED
    BY <1>1, <1>2, <1>3, <1>4 DEF RunOf, RunRecords

Recorded(e, run) == [e EXCEPT !.run = run]

LEMMA SavedRecord ==
    ASSUME NEW e \in EvaluationRecords, NEW run \in RunRecords
    PROVE  LET f == Recorded(e, run)
           IN  /\ f \in EvaluationRecords /\ f.arm = e.arm /\ f.held = e.held
               /\ f.result = e.result /\ f.evidence = e.evidence /\ f.aborted = e.aborted
               /\ f.accounting = e.accounting /\ f.run = run
BY DEF EvaluationRecords, Recorded

LEMMA SaveRunStep ==
    ASSUME EvaluationIInv, NEW c \in Evaluators, SaveRun(c)
    PROVE  Orderly /\ EvaluationInv'
<1> DEFINE e == evaluation[c]
           run == RunOf(e)
           f == Recorded(e, run)
<1>1. /\ caller[c].pc = "save" /\ caller[c].pc \in After /\ Goto(c, "saved")
      /\ LedgerUnchanged /\ BillUnchanged
    BY DEF SaveRun, At, After
<1>2. /\ Inv /\ EngineBase /\ EngineTypes /\ EvaluationTypes /\ Faults(e) /\ c \in Callers
      /\ AfterFits(caller[c], e, attempts, requests, usage) /\ e \in EvaluationRecords
      /\ e.arm \in ArmOrder
    BY <1>1, AfterKnown
<1>3. Orderly /\ OnlyFor({}) /\ UNCHANGED <<attempts, requests, usage, bill>>
    <2>1. "saved" \in Ends \ {"write"}
        BY DEF Ends
    <2> QED
        BY <1>1, <1>2, <2>1, QuietEnd
<1>4. /\ caller'[c].pc = "saved" /\ caller'[c].req = caller[c].req
      /\ \A d \in Callers \ {c} : caller'[d] = caller[d]
    BY <1>1, <1>2, GoneFrom
<1>5. evaluation' = [evaluation EXCEPT ![c] = f]
    BY <1>2 DEF SaveRun, EvaluationTypes, Recorded, RunOf
<1>6. /\ f \in EvaluationRecords /\ f.arm = e.arm /\ f.held = e.held
      /\ f.result = e.result /\ f.evidence = e.evidence /\ f.aborted = e.aborted
      /\ f.accounting = e.accounting /\ f.run = run
    <2>1. run \in RunRecords
        BY <1>2, RunRecord
    <2> HIDE DEF e, run
    <2> QED
        BY <1>2, <2>1, SavedRecord
<1> HIDE DEF f
<1>7. /\ evaluation'[c] = f /\ \A d \in Evaluators \ {c} : evaluation'[d] = evaluation[d]
      /\ EvaluationTypes'
    BY <1>2, <1>5, <1>6 DEF EvaluationTypes
<1>8. RunFits(caller'[c], f)
    <2>1. RunOf(f) = run
        BY <1>6 DEF RunOf, Confounders
    <2> QED
        BY <1>4, <1>6, <2>1 DEF RunFits
<1>9. Faults(f)
    BY <1>2, <1>6 DEF Faults
<1>10. \A j \in ArmOrder : f.result[j] = "completed" =>
          e.result[j] = "completed" /\ f.evidence[j] # Null
    BY <1>1, <1>2, <1>6 DEF AfterFits
<1>11. Inv' /\ caller'[c].pc \in After
    BY <1>2, <1>3, <1>4, LedgerStepInv DEF Orderly, After
<1>12. EvaluationFits(c)'
    BY <1>1, <1>2, <1>3, <1>4, <1>6, <1>7, <1>8, <1>9, <1>10, <1>11, AfterMoves DEF Orderly
<1>13. OnlyFor({attempts[e.held[1]].request}) /\ 1 \in ArmOrder
    BY <1>3, ArmsAre DEF OnlyFor
<1> QED
    BY <1>1, <1>3, <1>4, <1>6, <1>7, <1>12, <1>13, AfterKeeps DEF Orderly

(* A run that cannot be saved, a death and a refusal leave everything as it *)
(* is.                                                                      *)
LEMMA StopStep ==
    ASSUME EvaluationIInv, NEW c \in Evaluators,
           SaveError(c) \/ EvaluatorDies(c) \/ RefuseEvaluation(c)
    PROVE  Orderly /\ EvaluationInv'
<1> DEFINE e == evaluation[c]
<1>1. /\ Inv /\ EngineBase /\ EngineTypes /\ EvaluationInv /\ EvaluationTypes
      /\ EvaluationFits(c) /\ c \in Callers
    BY EvaluationAssumption
       DEF EvaluationIInv, EngineBase, EngineInv, EvaluationInv
<1>2. PICK p \in {"unsaved", "crashed", "refused"} :
         /\ Goto(c, p)
         /\ p = "unsaved" => caller[c].pc = "save"
         /\ p = "crashed" => caller[c].pc \notin {"idle", "refused", "saved"}
         /\ p = "refused" => caller[c].pc = "idle"
    BY DEF SaveError, EvaluatorDies, RefuseEvaluation, At
<1>3. LedgerUnchanged \/ DetectBackwardClock
    BY DEF SaveError, EvaluatorDies, RefuseEvaluation
<1>4. BillUnchanged /\ EvaluationUnchanged
    BY DEF SaveError, EvaluatorDies, RefuseEvaluation
<1>5. Orderly /\ OnlyFor({}) /\ UNCHANGED <<attempts, requests, usage, bill>>
    <2>1. p \in Ends \ {"write"}
        BY DEF Ends
    <2> QED
        BY <1>1, <1>2, <1>3, <1>4, <2>1, QuietEnd
<1>6. /\ caller'[c].pc = p /\ caller'[c].req = caller[c].req
      /\ \A d \in Callers \ {c} : caller'[d] = caller[d]
    BY <1>1, <1>2, GoneFrom
<1>7. UNCHANGED evaluation /\ EvaluationTypes'
    BY <1>1, <1>4 DEF EvaluationUnchanged, EvaluationTypes
<1>8. EvaluationFits(c)'
    <2>1. caller'[c].pc \in Fresh => e = NewEvaluation
        BY <1>1, <1>2, <1>6 DEF EvaluationFits, Fresh
    <2>2. caller'[c].pc \notin Fresh => HoldsPair(c)'
        <3>1. ASSUME caller'[c].pc \notin Fresh
              PROVE  HoldsPair(c)
            BY <1>1, <1>2, <1>6, <3>1 DEF EvaluationFits, Fresh
        <3> QED
            BY <1>1, <1>5, <1>6, <1>7, <3>1, OwnPairStays DEF Orderly
    <2>3. EvidenceFits(e, attempts) /\ Faults(e) /\ e.run = Null
        BY <1>1, <1>2 DEF EvaluationFits, RunFits
    <2>4. AfterFits(caller'[c], e, attempts, requests, usage)
        BY <1>1, <1>2, <1>6 DEF EvaluationFits, AfterFits, After
    <2>5. /\ caller'[c].pc \in Fresh \cup ArmPoints \cup After \cup {"crashed"}
          /\ caller'[c].pc \notin ArmPoints
        BY <1>6 DEF Fresh, ArmPoints, After
    <2> QED
        BY <1>5, <1>7, <2>1, <2>2, <2>3, <2>4, <2>5 DEF EvaluationFits, ArmFits, RunFits
<1>9. ForeignTo(c, caller[c].req)
    BY <1>1, OwnIsForeign
<1> QED
    BY <1>1, <1>5, <1>6, <1>7, <1>8, <1>9, EvaluatorKeeps DEF Orderly

-------------------------------------------------------------------------------
(* Reservation of the pair *)

Paired(e, a, b) == [e EXCEPT !.arm = 1, !.held = <<a, b>>]

LEMMA PairedRecord ==
    ASSUME NEW a \in Attempts, NEW b \in Attempts, NEW e \in EvaluationRecords
    PROVE  LET f == Paired(e, a, b)
           IN  /\ f \in EvaluationRecords /\ f.arm = 1 /\ f.held[1] = a /\ f.held[2] = b
               /\ f.result = e.result /\ f.evidence = e.evidence
               /\ f.aborted = e.aborted /\ f.accounting = e.accounting /\ f.run = e.run
<1> DEFINE held == <<a, b>>
           f1 == [e EXCEPT !.arm = 1]
           f2 == [f1 EXCEPT !.held = held]
<1>1. held \in [ArmOrder -> Attempts \cup {Null}] /\ held[1] = a /\ held[2] = b
    BY ArmsAre
<1>2. f2 = Paired(e, a, b)
    BY DEF Paired
<1> HIDE DEF held
<1>3. /\ f1 \in EvaluationRecords /\ f1.arm = 1
      /\ f1.result = e.result /\ f1.evidence = e.evidence
      /\ f1.aborted = e.aborted /\ f1.accounting = e.accounting /\ f1.run = e.run
    BY DEF EvaluationRecords
<1> HIDE DEF f1
<1>4. /\ f2 \in EvaluationRecords /\ f2.arm = 1 /\ f2.held = held
      /\ f2.result = e.result /\ f2.evidence = e.evidence
      /\ f2.aborted = e.aborted /\ f2.accounting = e.accounting /\ f2.run = e.run
    BY <1>1, <1>3 DEF EvaluationRecords
<1> HIDE DEF f2
<1> QED
    BY <1>1, <1>2, <1>4

LEMMA ReservePairStep ==
    ASSUME EvaluationIInv, NEW c \in Evaluators, ReservePair(c)
    PROVE  Orderly /\ EvaluationInv'
<1> DEFINE e == evaluation[c]
<1>1. /\ Inv /\ EngineInv /\ EngineTypes /\ PaidIsTold /\ EvaluationInv /\ EvaluationTypes
      /\ EvaluationFits(c) /\ c \in Callers /\ caller[c].pc = "idle"
      /\ caller \in [Callers -> CallRecords] /\ e \in EvaluationRecords
    BY EvaluationAssumption
       DEF EvaluationIInv, EngineBase, EngineInv, EngineTypes, EvaluationInv, EvaluationTypes,
           ReservePair, At
<1>2. e = NewEvaluation
    BY <1>1 DEF EvaluationFits, Fresh
<1>3. PICK a \in FreshAttempts, b \in FreshAttempts, r \in FreshRequests, q \in FreshRequests,
           s \in Scopes \ DOMAIN scopes :
         /\ a # b /\ r # q
         /\ \E quote \in [{a, b} -> Quotes], budget \in Budgets :
               ReserveScoped({a, b}, [x \in {a, b} |-> IF x = a THEN r ELSE q],
                             quote, s, budget)
         /\ evaluation' = [evaluation EXCEPT ![c].arm = 1, ![c].held = <<a, b>>]
         /\ RunArm(c, 1, <<a, b>>, r)
    BY DEF ReservePair
<1> DEFINE new == {a, b}
           req == [x \in {a, b} |-> IF x = a THEN r ELSE q]
           k == ArmCall(r, a)
           f == Paired(e, a, b)
<1>4. PICK quote \in [new -> Quotes], budget \in Budgets :
         ReserveScoped(new, req, quote, s, budget)
    BY <1>3
<1>5. /\ a \in Attempts /\ b \in Attempts /\ a \notin DOMAIN attempts /\ b \notin DOMAIN attempts
      /\ r \in Requests /\ q \in Requests /\ r \notin DOMAIN requests /\ q \notin DOMAIN requests
      /\ r # Null /\ q # Null /\ a # Null /\ b # Null /\ budget \in Nanos /\ a # b /\ r # q
    BY <1>3, LedgerAssumption, EvaluationAssumption DEF FreshAttempts, FreshRequests
<1>6. InsertReserved(new, req, quote) /\ InsertRequests(new, req, s) /\ UNCHANGED <<usage, bill>>
    BY <1>4 DEF ReserveScoped, ReservePair, BillUnchanged
<1>7. /\ DOMAIN attempts' = DOMAIN attempts \cup {a, b}
      /\ \A x \in DOMAIN attempts : attempts'[x] = attempts[x]
      /\ attempts'[a].state = "RESERVED" /\ attempts'[a].fence = 0 /\ attempts'[a].request = r
      /\ attempts'[b].state = "RESERVED" /\ attempts'[b].fence = 0 /\ attempts'[b].request = q
    BY <1>5, <1>6 DEF InsertReserved
<1>8. /\ DOMAIN requests \subseteq DOMAIN requests' /\ r \in DOMAIN requests'
      /\ \A x \in DOMAIN requests : requests'[x] = requests[x]
    BY <1>5, <1>6 DEF InsertRequests
<1>9. [LedgerStep]_vars
    <2>1. new \in SUBSET FreshAttempts /\ req \in [new -> FreshRequests]
        BY <1>3
    <2>2. Admissions
        BY <1>4, <1>5, <2>1 DEF Admissions
    <2> QED
        BY <2>2 DEF LedgerStep
<1>10. OnlyFor({r, q})
    BY <1>6, <1>7, <1>8 DEF OnlyFor
<1>11. \A d \in Callers : caller[d].req # Null => caller[d].req \in DOMAIN requests
    BY <1>1 DEF EngineInv, CallsAgree, Agrees
<1>12. \A d \in Callers : caller[d].req \notin {r, q}
    BY <1>5, <1>11
<1>13. caller' = [caller EXCEPT ![c] = k]
    BY <1>3, ArmsAre DEF RunArm, ArmCall
<1>14. /\ k \in CallRecords /\ k.pc = "reserved" /\ k.chain = <<"paid">>
       /\ k.req = r /\ k.attempt = a /\ k.paid = 0
    BY <1>5, ArmRecord
<1> HIDE DEF k
<1>15. caller'[c] = k /\ \A d \in Callers \ {c} : caller'[d] = caller[d]
    BY <1>1, <1>13
<1>16. EngineInv'
    <2>1. Agrees(k, attempts', requests', bill')
        BY <1>7, <1>8, <1>14 DEF Agrees, Choosing, Holding, Dispatched, Reported
    <2>2. bill' \in [Attempts -> Nat]
        BY <1>1, <1>6 DEF EngineTypes
    <2>3. BillsFit'
        BY <1>1, <1>5, <1>6, <1>7 DEF EngineInv, BillsFit, BillFits
    <2> QED
        BY <1>1, <1>10, <1>12, <1>13, <1>14, <2>1, <2>2, <2>3, CallMoves
<1>17. PaidIsTold'
    <2>1. \A x : SameTold(x)
        BY <1>1, <1>3, <1>6, NewAttemptTells
    <2>2. ToldFor(attempts', r) = 0
        BY <1>1, <1>5, <2>1, FreshIsUntold, ToldSame
    <2> QED
        BY <1>1, <1>14, <1>15, <2>1, <2>2, PaidMoves
<1>18. Orderly
    BY <1>1, <1>6, <1>9, <1>16, <1>17, NothingLinked DEF Orderly
<1>19. evaluation' = [evaluation EXCEPT ![c] = f]
    BY <1>1, <1>3 DEF EvaluationTypes, Paired
<1>20. /\ f \in EvaluationRecords /\ f.arm = 1 /\ f.held[1] = a /\ f.held[2] = b
       /\ f.result = e.result /\ f.evidence = e.evidence
       /\ f.aborted = e.aborted /\ f.accounting = e.accounting /\ f.run = e.run
    <2> HIDE DEF e
    <2> QED
        BY <1>1, <1>5, PairedRecord
<1> HIDE DEF f
<1>21. /\ evaluation'[c] = f /\ \A d \in Evaluators \ {c} : evaluation'[d] = evaluation[d]
       /\ EvaluationTypes'
    BY <1>1, <1>19, <1>20 DEF EvaluationTypes
<1>22. HoldsPair(c)'
    <2>1. ASSUME NEW d \in Evaluators \ {c}, NEW i \in ArmOrder
          PROVE  evaluation[d].held[i] \notin {a, b}
        <3>1. EvaluationFits(d)
            BY <1>1 DEF EvaluationInv
        <3>2. CASE caller[d].pc \in Fresh
            BY <1>5, <3>1, <3>2 DEF EvaluationFits, NewEvaluation
        <3>3. CASE caller[d].pc \notin Fresh
            BY <1>5, <3>1, <3>3 DEF EvaluationFits, HoldsPair
        <3> QED
            BY <3>2, <3>3
    <2>2. \A x \in DOMAIN attempts : attempts[x].request \in DOMAIN requests
        BY <1>1 DEF Inv, TypeOK
    <2>3. \A x \in DOMAIN attempts' : /\ attempts'[x].request = r => x = a
                                      /\ attempts'[x].request = q => x = b
        BY <1>5, <1>7, <2>2
    <2>4. \A d \in Callers \ {c} : caller'[d].req # r /\ caller'[d].req # q
        BY <1>12, <1>15
    <2>5. \A d \in Evaluators \ {c}, i \in ArmOrder :
             evaluation'[d].held[i] # a /\ evaluation'[d].held[i] # b
        BY <1>21, <2>1
    <2> QED
        BY <1>5, <1>7, <1>20, <1>21, <2>3, <2>4, <2>5, ArmsAre DEF HoldsPair
<1>23. EvaluationFits(c)'
    <2>1. /\ \A j \in ArmOrder : f.result[j] = "none" /\ f.evidence[j] = Null
          /\ ~f.aborted /\ ~f.accounting /\ f.run = Null
        BY <1>2, <1>20 DEF NewEvaluation
    <2>2. ArmFits(k, f, attempts', requests', usage')
        BY <1>7, <1>14, <1>20, <2>1, ArmsAre DEF ArmFits
    <2>3. k.pc \notin Fresh \cup After \cup {"saved"} /\ k.pc \in ArmPoints
        BY <1>14 DEF Fresh, After, ArmPoints
    <2>4. EvidenceFits(f, attempts') /\ Faults(f) /\ RunFits(k, f)
        BY <2>1 DEF EvidenceFits, Faults, RunFits
    <2> QED
        BY <1>15, <1>21, <1>22, <2>2, <2>3, <2>4 DEF EvaluationFits, AfterFits
<1>24. ForeignTo(c, r) /\ ForeignTo(c, q)
    BY <1>1, <1>5, NewIsForeign
<1>25. \A i \in ArmOrder : f.held[i] \notin DOMAIN attempts
    BY <1>5, <1>20, ArmsAre
<1> QED
    BY <1>1, <1>9, <1>10, <1>14, <1>15, <1>18, <1>21, <1>23, <1>24, <1>25, EvaluatorKeeps

-------------------------------------------------------------------------------
(* The invariant *)

(* A step of somebody else's is none of an evaluation's.                    *)
LEMMA PlainCallStep ==
    ASSUME EvaluationIInv, NEW c \in Callers \ Evaluators, Calls(c), EvaluationUnchanged
    PROVE  Orderly /\ EvaluationInv'
<1>1. Inv /\ EngineBase /\ EngineInv /\ EvaluationInv /\ EvaluationTypes /\ UNCHANGED evaluation
    BY DEF EvaluationIInv, EngineBase, EvaluationInv, EvaluationUnchanged
<1>2. Orderly
    BY <1>1, CallIsOrderly
<1>3. /\ OnlyFor({caller'[c].req}) /\ \A d \in Callers \ {c} : caller'[d] = caller[d]
      /\ caller'[c].req = caller[c].req \/ caller'[c].req \notin DOMAIN requests
    BY <1>1, CallIsOwn
<1>4. ForeignTo(c, caller'[c].req)
    BY <1>1, <1>3, OwnIsForeign, NewIsForeign
<1>5. \A d \in Evaluators \ {c} : EvaluationFits(d)'
    BY <1>1, <1>2, <1>3, <1>4, OthersFit DEF Orderly
<1> QED
    BY <1>1, <1>2, <1>5 DEF EvaluationInv, EvaluationTypes

LEMMA SurroundingsAreForNone ==
    ASSUME Inv, Surroundings
    PROVE  OnlyFor({})
<1>1. UNCHANGED bill
    BY DEF Surroundings
<1>2. ASSUME UNCHANGED <<attempts, requests>>
      PROVE  OnlyFor({})
    BY <1>1, <1>2 DEF OnlyFor
<1>3. ASSUME NEW a \in DOMAIN attempts, NEW charge, Reconcile(a, charge)
      PROVE  OnlyFor({})
    <2>1. Steps(a, Outcome(a, charge), charge) /\ attempts[a].state = "UNCERTAIN"
        BY <1>3, TerminalSteps DEF Reconcile, Reconcilable
    <2> QED
        BY <1>1, <2>1 DEF OnlyFor, Steps
<1> QED
    BY <1>2, <1>3 DEF Surroundings, InitializePolicy, DeleteUsageRow, DeleteRows, ClockStep,
          Tick, ClockStepBack

LEMMA SurroundingsAside ==
    ASSUME EvaluationIInv, Surroundings, EvaluationUnchanged
    PROVE  Orderly /\ EvaluationInv'
<1>1. /\ Inv /\ FencesFollow /\ PaidIsTold /\ EngineInv /\ EvaluationInv /\ EvaluationTypes
      /\ UNCHANGED <<caller, evaluation>>
    BY DEF EvaluationIInv, EngineBase, EvaluationInv, EvaluationUnchanged, Surroundings
<1>2. Orderly
    BY <1>1, SurroundingsStep, SurroundingsOperate, SurroundingsPay, SurroundingsTell
       DEF Orderly
<1>3. OnlyFor({})
    BY <1>1, SurroundingsAreForNone
<1>4. ASSUME NEW c \in Evaluators
      PROVE  EvaluationFits(c)'
    <2>1. EvaluationFits(c) /\ (caller[c].pc \notin Fresh => HoldsPair(c))
        BY <1>1 DEF EvaluationInv, EvaluationFits
    <2>2. caller[c].pc \notin Fresh =>
             \A j \in ArmOrder :
                LET r == attempts[evaluation[c].held[j]].request
                IN  /\ r \notin {}
                    /\ \A d \in Callers \ {c} : caller'[d].req # r
                    /\ \A d \in Evaluators \ {c}, i \in ArmOrder :
                          evaluation'[d].held[i] # evaluation[c].held[j]
        BY <1>1, <2>1 DEF HoldsPair
    <2> QED
        BY <1>1, <1>2, <1>3, <2>1, <2>2, BystanderStays DEF Orderly
<1> QED
    BY <1>1, <1>2, <1>4 DEF EvaluationInv, EvaluationTypes

LEMMA EvaluationInitInv == EvaluationInit => EvaluationIInv
<1> SUFFICES ASSUME EvaluationInit
             PROVE  EvaluationIInv
    OBVIOUS
<1>1. EngineInit
    BY DEF EvaluationInit
<1>2. EngineBase
    BY <1>1, EngineInitInv, EngineInitTold DEF EngineIInv, EngineBase
<1>3. NewEvaluation \in EvaluationRecords
    BY DEF NewEvaluation, EvaluationRecords
<1>4. \A c \in Evaluators : caller[c].pc = "idle" /\ evaluation[c] = NewEvaluation
    BY <1>1, EvaluationAssumption DEF EngineInit, Idle, EvaluationInit
<1>5. EvaluationTypes
    BY <1>3 DEF EvaluationInit, EvaluationTypes
<1>6. ASSUME NEW c \in Evaluators
      PROVE  EvaluationFits(c)
    <2>1. EvidenceFits(NewEvaluation, attempts)
        BY DEF EvidenceFits, NewEvaluation
    <2>2. Faults(NewEvaluation) /\ RunFits(caller[c], NewEvaluation)
        BY DEF Faults, RunFits, NewEvaluation
    <2> QED
        BY <1>4, <2>1, <2>2 DEF EvaluationFits, ArmFits, AfterFits, Fresh, ArmPoints, After
<1> QED
    BY <1>2, <1>5, <1>6 DEF EvaluationIInv, EvaluationInv

LEMMA EvaluationStepInv ==
    ASSUME EvaluationIInv, [EvaluationNext]_evaluationVars
    PROVE  EvaluationIInv' /\ [LedgerStep]_vars /\ RowTold
<1>1. Orderly /\ EvaluationInv'
    <2>1. ASSUME NEW c \in Evaluators,
                 \/ RefuseEvaluation(c) \/ ReservePair(c) \/ Evaluate(c)
                 \/ ArmStorageError(c) \/ ArmAccountingError(c) \/ CleanUpError(c)
                 \/ SaveError(c) \/ EvaluatorDies(c)
          PROVE  Orderly /\ EvaluationInv'
        BY <2>1, StopStep, ReservePairStep, ArmCallStep, WriteArmRowStep, NextArmStep,
           EndArmsStep, CleanUpArmStep, SaveRunStep, ArmAccountingErrorStep, CleanUpErrorStep
           DEF Evaluate
    <2>2. CASE UNCHANGED evaluationVars
        <3>1. UNCHANGED <<clock, policy, attempts, requests, scopes, usage, caller, bill,
                          evaluation>>
            BY <2>2 DEF evaluationVars, engineVars, vars
        <3>2. EngineInv'
            BY <3>1 DEF EvaluationIInv, EngineBase, EngineInv, EngineTypes, CallsAgree,
                        OneCaller, BillsFit, BillFits
        <3>3. PaidIsTold'
            BY <3>1 DEF EvaluationIInv, EngineBase, PaidIsTold
        <3>4. RowTold
            BY <3>1, NothingLinked DEF EvaluationIInv, EngineBase
        <3>5. EvaluationInv'
            BY <3>1 DEF EvaluationIInv, EvaluationInv, EvaluationTypes, EvaluationFits, HoldsPair
        <3>6. [LedgerStep]_vars
            BY <3>1 DEF vars
        <3> QED
            BY <3>2, <3>3, <3>4, <3>5, <3>6 DEF Orderly
    <2> QED
        BY <2>1, <2>2, PlainCallStep, SurroundingsAside DEF EvaluationNext
<1>2. Inv' /\ RequestsAreOrderly'
    BY <1>1, LedgerKeeps DEF EvaluationIInv, EngineBase, Orderly
<1>3. FencesFollow'
    BY <1>1, FencesStep DEF EvaluationIInv, EngineBase, Orderly
<1> QED
    BY <1>1, <1>2, <1>3 DEF EvaluationIInv, EngineBase, Orderly

LEMMA EvaluationSpecInv == EvaluationSpec => []EvaluationIInv /\ [][LedgerStep]_vars
BY EvaluationInitInv, EvaluationStepInv, PTL DEF EvaluationSpec

-------------------------------------------------------------------------------
(* The theorems *)

(* The bills are owed under evaluations as under any calls.                 *)
THEOREM EvaluationCoversBills == EvaluationSpec => []LiabilityCoversBill
<1>1. EvaluationIInv => EngineIInv
    BY DEF EvaluationIInv, EngineBase, EngineIInv
<1>2. EngineIInv => LiabilityCoversBill
    BY BillOwed DEF EngineIInv, EngineInv, BillsFit, BillFits, EngineTypes, LiabilityCoversBill
<1> QED
    BY <1>1, <1>2, EvaluationSpecInv, PTL

(* An arm's row tells the known charge of its attempt, like any other.      *)
THEOREM EvaluationRowTellsCharges == EvaluationSpec => RowTellsTheCharges
<1>1. ASSUME EvaluationIInv, [EvaluationNext]_evaluationVars
      PROVE  [RowTold]_engineVars
    BY <1>1, EvaluationStepInv
<1>2. EvaluationSpec => [][RowTold]_engineVars
    BY <1>1, EvaluationSpecInv, PTL DEF EvaluationSpec
<1> QED
    BY <1>2 DEF RowTellsTheCharges, RowTold

(* The budget of an evaluation is never promised beyond, nor is the day's.  *)
THEOREM EvaluationKeepsCaps == EvaluationSpec => []CapsAreKept
<1>1. EvaluationInit => ScopeCap
    BY DEF EvaluationInit, EngineInit, Init, ScopeCap
<1>2. EvaluationIInv => Inv
    BY DEF EvaluationIInv, EngineBase
<1>3. EvaluationIInv => CapRespected
    BY DEF EvaluationIInv, EngineBase, Inv
<1>4. EvaluationSpec => []ScopeCap
    BY <1>1, <1>2, EvaluationSpecInv, ScopeStep, PTL
       DEF EvaluationSpec
<1> QED
    BY <1>3, <1>4, EvaluationSpecInv, PTL DEF CapsAreKept

(* The evidence of a saved run, once it says that the billing is known.     *)
LEMMA KnownEvidence ==
    ASSUME EvaluationIInv, NEW c \in Evaluators, Saved(c), evaluation[c].run.known,
           NEW j \in ArmOrder
    PROVE  LET a == evaluation[c].held[j]
               told == evaluation[c].evidence[j]
           IN  /\ a \in DOMAIN attempts /\ bill[a] \in Nanos /\ told # Null
               /\ told.charge # Null => told.charge \in Nanos /\ bill[a] <= told.charge
               /\ told.charge = Null => bill[a] = 0
<1> DEFINE e == evaluation[c]
           a == e.held[j]
           told == e.evidence[j]
<1>1. /\ Inv /\ FencesFollow /\ EngineInv /\ EvaluationFits(c)
      /\ e \in EvaluationRecords
    BY DEF EvaluationIInv, EngineBase, EvaluationInv, EvaluationTypes
<1>2. caller[c].pc = "saved" /\ e.run = RunOf(e) /\ HoldsPair(c)
    BY <1>1 DEF EvaluationFits, RunFits, Saved, Fresh
<1>3. told # Null /\ told.state \in Resolved
    BY <1>2 DEF RunOf, BillingKnown
<1>4. /\ a \in DOMAIN attempts /\ attempts[a].state = told.state
      /\ attempts[a].charge = told.charge
    BY <1>1, <1>2, <1>3 DEF HoldsPair, EvaluationFits, EvidenceFits
<1>5. /\ a \in Attempts /\ bill[a] \in Nat /\ BillFits(a)
      /\ attempts[a] \in AttemptRows /\ ColumnsAgree(attempts[a], policy.watermark)
    BY <1>1, <1>4 DEF Inv, TypeOK, LedgerInv, EngineInv, EngineTypes, BillsFit
<1>6. CASE told.state = "CANCELLED"
    <2>1. attempts[a].charge = Null /\ bill[a] = 0
        BY <1>1, <1>4, <1>5, <1>6 DEF FencesFollow, FenceFollows, Unresolved, BillFits
    <2> QED
        BY <1>3, <1>4, <2>1, MaxNanosAssumption DEF Nanos
<1>7. CASE told.state \in {"SETTLED", "BREACH"}
    <2>1. told.charge \in Nanos /\ told.charge # Null
        <3>1. attempts[a].bound \in Nanos /\ attempts[a].charge \in Nanos
            BY <1>4, <1>5, <1>7, MaxNanosAssumption DEF ColumnsAgree, Nanos, AttemptRows
        <3> QED
            BY <1>4, <3>1, LedgerAssumption, MaxNanosAssumption DEF Nanos
    <2>2. bill[a] <= told.charge
        BY <1>4, <1>5, <1>7 DEF BillFits
    <2> QED
        BY <1>3, <1>4, <1>5, <2>1, <2>2, MaxNanosAssumption DEF Nanos
<1> QED
    BY <1>3, <1>6, <1>7 DEF Resolved

(* Two amounts.                                                             *)
LEMMA TotalPair ==
    ASSUME NEW x, NEW y, x # y, NEW f, f[x] \in Nanos, f[y] \in Nanos
    PROVE  TotalOver(f, {x, y}) = f[x] + f[y]
<1>1. TotalOver(f, {x}) = f[x] /\ TotalOver(f, {y}) = f[y]
    BY TotalSingle
<1>2. {x, y} = {x} \cup {y} /\ {x} \cap {y} = {}
    OBVIOUS
<1>3. IsFiniteSet({x}) /\ IsFiniteSet({y})
    BY FS_Singleton
<1>4. TotalOver(f, {x} \cup {y}) = TotalOver(f, {x}) + TotalOver(f, {y})
    BY <1>2, <1>3, TotalDisjoint
<1> QED
    BY <1>1, <1>2, <1>4

(* A saved run that knows its billing tells at least what is ever billed    *)
(* for its pair: the outcomes in its evidence are final.                    *)
THEOREM EvaluationKnowsItsBill == EvaluationSpec => []KnownBillIsCovered
<1>1. ASSUME EvaluationIInv, NEW c \in Evaluators, Saved(c), evaluation[c].run.known
      PROVE  TotalOver([a \in HeldBy(c) |-> bill[a]], HeldBy(c)) <= evaluation[c].run.cost
    <2> DEFINE e == evaluation[c]
               h == e.held
               told == {k \in ArmOrder : e.evidence[k] # Null /\ e.evidence[k].charge # Null}
               f == [a \in HeldBy(c) |-> bill[a]]
               g == [k \in told |-> e.evidence[k].charge]
               amount(k) == IF k \in told THEN e.evidence[k].charge ELSE 0
               all == [k \in ArmOrder |-> amount(k)]
    <2>1. EvaluationFits(c) /\ e.run = RunOf(e) /\ HoldsPair(c)
        BY <1>1 DEF EvaluationIInv, EvaluationInv, EvaluationFits, RunFits, Saved, Fresh
    <2>2. HeldBy(c) = {h[1]} \cup {h[2]} /\ {h[1]} \cap {h[2]} = {}
        BY <2>1, ArmsAre DEF HeldBy, HoldsPair
    <2>3. \A k \in ArmOrder : bill[h[k]] \in Nanos /\ amount(k) \in Nanos /\ bill[h[k]] <= amount(k)
        BY <1>1, KnownEvidence, MaxNanosAssumption DEF Nanos
    <2>4. f[h[1]] = bill[h[1]] /\ f[h[2]] = bill[h[2]]
        BY <2>2
    <2>5. TotalOver(f, HeldBy(c)) = bill[h[1]] + bill[h[2]]
        <3>1. h[1] # h[2] /\ HeldBy(c) = {h[1], h[2]}
            BY <2>2
        <3>2. f[h[1]] \in Nanos /\ f[h[2]] \in Nanos
            BY <2>3, <2>4, ArmsAre
        <3> HIDE DEF f, h
        <3> QED
            BY <2>4, <3>1, <3>2, TotalPair
    <2>6. all[1] = amount(1) /\ all[2] = amount(2) /\ ArmOrder = {1} \cup {2}
        BY ArmsAre
    <2>7. TotalOver(all, ArmOrder) = amount(1) + amount(2)
        <3>1. all[1] \in Nanos /\ all[2] \in Nanos /\ ArmOrder = {1, 2}
            BY <2>3, <2>6, ArmsAre
        <3> HIDE DEF all, amount, told, e
        <3>2. 1 # 2
            OBVIOUS
        <3>3. TotalOver(all, {1, 2}) = all[1] + all[2]
            BY <3>1, <3>2, TotalPair
        <3> QED
            BY <2>6, <3>1, <3>3
    <2>8. TotalOver(all, ArmOrder) = TotalOver(g, told)
        <3>1. told \subseteq ArmOrder /\ \A k \in told : all[k] \in Nat /\ all[k] = g[k]
            BY <2>3, MaxNanosAssumption DEF Nanos
        <3>2. \A k \in ArmOrder \ told : all[k] = 0
            OBVIOUS
        <3>3. IsFiniteSet(ArmOrder)
            BY <2>6, FS_Singleton, FS_Union
        <3> HIDE DEF all, g, told
        <3>4. IsFiniteSet(told) /\ IsFiniteSet(ArmOrder \ told)
            BY <3>1, <3>3, FS_Subset
        <3>5. TotalOver(all, ArmOrder) = TotalOver(all, told) + TotalOver(all, ArmOrder \ told)
            <4>1. ArmOrder = told \cup (ArmOrder \ told) /\ told \cap (ArmOrder \ told) = {}
                BY <3>1
            <4> QED
                BY <3>4, <4>1, TotalDisjoint
        <3>6. TotalOver(all, ArmOrder \ told) = 0 /\ TotalOver(all, told) \in Nat
            BY <3>2, <3>4, TotalZero, TotalNat
        <3>7. TotalOver(all, told) = TotalOver(g, told)
            BY <3>1, <3>4, TotalSame
        <3> QED
            BY <3>5, <3>6, <3>7
    <2>9. e.run.cost = TotalOver(g, told)
        BY <2>1 DEF RunOf, KnownCost
    <2>10. bill[h[1]] + bill[h[2]] <= amount(1) + amount(2)
        <3> HIDE DEF h, amount
        <3> QED
            BY <2>3, ArmsAre, MaxNanosAssumption DEF Nanos
    <2> HIDE DEF f, g, told, amount
    <2> QED
        BY <2>5, <2>7, <2>8, <2>9, <2>10 DEF f
<1>2. EvaluationIInv => KnownBillIsCovered
    BY <1>1 DEF KnownBillIsCovered
<1> QED
    BY <1>2, EvaluationSpecInv, PTL

(* Two completions are paid and accounted for, by a run with no confounder. *)
LEMMA CompletedAreAccounted == EvaluationIInv => CompletionsAreAccounted
<1> SUFFICES ASSUME EvaluationIInv, NEW c \in Evaluators, Saved(c),
                    evaluation[c].run.verdict = "both_completed"
             PROVE  /\ evaluation[c].run.known /\ evaluation[c].run.confounders = {}
                    /\ \A a \in HeldBy(c) :
                          LET row == requests[attempts[a].request].row
                          IN  /\ attempts[a].state = "SETTLED"
                              /\ row # Null /\ usage[row].cost = attempts[a].charge
    BY DEF CompletionsAreAccounted
<1> DEFINE e == evaluation[c]
<1>1. EvaluationFits(c) /\ caller[c].pc = "saved" /\ e.run = RunOf(e)
    BY DEF EvaluationIInv, EvaluationInv, EvaluationFits, RunFits, Saved
<1>2. Verdict(e.result) = "both_completed"
    BY <1>1 DEF RunOf
<1>3. \A j \in ArmOrder : e.result[j] = "completed"
    BY <1>2 DEF Verdict
<1>4. \A j \in ArmOrder : AccountedFor(e.held[j], attempts, requests, usage)
                            /\ e.evidence[j] # Null
    BY <1>1, <1>3 DEF EvaluationFits, AfterFits, After
<1>5. \A j \in ArmOrder : e.evidence[j].state = "SETTLED"
    BY <1>1, <1>3, <1>4 DEF EvaluationFits, EvidenceFits
<1>6. ~e.aborted /\ ~e.accounting
    BY <1>1, <1>3 DEF EvaluationFits, Faults
<1>7. Confounders(e) = {}
    BY <1>4, <1>5, <1>6 DEF Confounders
<1>8. BillingKnown(e.evidence)
    BY <1>4, <1>5 DEF BillingKnown, Resolved
<1>9. e.run.known /\ e.run.confounders = {}
    BY <1>1, <1>7, <1>8 DEF RunOf
<1>10. \A a \in HeldBy(c) : AccountedFor(a, attempts, requests, usage)
    BY <1>4 DEF HeldBy
<1> QED
    BY <1>9, <1>10 DEF AccountedFor

(* An arm with evidence is not reserved, and one that may still be billed   *)
(* makes the run say so.                                                    *)
LEMMA PairsAreReleased == EvaluationIInv => PairIsReleased
<1> SUFFICES ASSUME EvaluationIInv, NEW c \in Evaluators, Saved(c),
                    NEW k \in ArmOrder, evaluation[c].evidence[k] # Null
             PROVE  LET state == attempts[evaluation[c].held[k]].state
                    IN  /\ state # "RESERVED"
                        /\ state \in {"DISPATCHING", "UNCERTAIN"} =>
                              "billing_uncertain" \in evaluation[c].run.confounders
    BY DEF PairIsReleased
<1> DEFINE e == evaluation[c]
           state == attempts[e.held[k]].state
           seen == {e.evidence[j].state : j \in {i \in ArmOrder : e.evidence[i] # Null}}
<1>1. EvaluationFits(c) /\ e.run = RunOf(e) /\ e \in EvaluationRecords
    BY DEF EvaluationIInv, EvaluationInv, EvaluationTypes, EvaluationFits, RunFits, Saved
<1>2. state # "RESERVED"
    BY <1>1 DEF EvaluationFits, EvidenceFits
<1>3. ASSUME state \in {"DISPATCHING", "UNCERTAIN"}
      PROVE  "billing_uncertain" \in e.run.confounders
    <2>1. e.evidence[k] \in EvidenceRecords /\ e.evidence[k].state # "RESERVED"
        BY <1>1 DEF EvaluationRecords, EvaluationFits, EvidenceFits
    <2>2. e.evidence[k].state \notin Resolved
        BY <1>1, <1>3 DEF EvaluationFits, EvidenceFits, Resolved
    <2>3. e.evidence[k].state \in {"DISPATCHING", "UNCERTAIN"}
        BY <2>1, <2>2 DEF EvidenceRecords, Unresolved, Resolved
    <2>4. seen \cap {"UNCERTAIN", "DISPATCHING"} # {}
        BY <2>3
    <2>5. "billing_uncertain" \in Confounders(e)
        BY <2>4 DEF Confounders
    <2> QED
        BY <1>1, <2>5 DEF RunOf
<1> QED
    BY <1>2, <1>3

(* What a saved run says of its pair is final.                              *)
THEOREM EvaluationSettlesItsPair == EvaluationSpec => []PairIsSettled
<1>1. EvaluationIInv => PairIsSettled
    BY CompletedAreAccounted, PairsAreReleased DEF PairIsSettled
<1> QED
    BY <1>1, EvaluationSpecInv, PTL

===============================================================================
