------------------------------ MODULE EdgeProofs ------------------------------
(****************************************************************************)
(* Theorems about the two edges of the system.                              *)
(*                                                                          *)
(* The provider adapters (ProviderAdapter), for any reviewed profiles,      *)
(* tokens, deadlines and clocks: charges cover bills, breaches are told,    *)
(* requests end in time.                                                    *)
(*                                                                          *)
(* The hooks of an editor (EditorHook), for any number of turns and rows:   *)
(* turns name their predecessors, and what the server is told is true.      *)
(****************************************************************************)
EXTENDS ProviderAdapter, EditorHook, TLAPS

-------------------------------------------------------------------------------
(* The provider adapters                                                    *)

(* Products of natural numbers are natural numbers, and grow with them.     *)
LEMMA ProductNat ==
    ASSUME NEW m \in Nat, NEW n \in Nat
    PROVE  m * n \in Nat
BY Z3

LEMMA ProductMonotone ==
    ASSUME NEW m \in Nat, NEW n \in Nat, NEW k \in Nat, m <= n
    PROVE  m * k <= n * k /\ k * m <= k * n
<1> DEFINE d == n - m
<1>1. d \in Nat /\ n = m + d
    OBVIOUS
<1>2. d * k \in Nat
    BY <1>1, ProductNat
<1>3. n * k = m * k + d * k /\ k * n = k * m + d * k
    BY <1>1, Z3
<1>4. m * k \in Nat /\ k * m \in Nat
    BY ProductNat
<1> HIDE DEF d
<1> QED
    BY <1>2, <1>3, <1>4

(* What is charged for an answer covers its bill, when nothing is billed    *)
(* beside the tariff: every token is charged at the ceiling of its kind.    *)
LEMMA ChargeCoversBill ==
    ASSUME NEW p \in Profiles, NEW s \in Service
    PROVE  /\ BillOf(p, s) \in Nat /\ ChargeOf(p, s) \in Nat
           /\ s.extra = 0 => BillOf(p, s) <= ChargeOf(p, s)
<1>1. /\ p.inputBase \in Nat /\ p.inputCeiling \in Nat /\ p.output \in Nat
      /\ p.inputBase <= p.inputCeiling
    BY AdapterAssumption DEF Reviewed
<1>2. s.fresh \in Nat /\ s.written \in Nat /\ s.read \in Nat /\ s.output \in Nat /\ s.extra \in Nat
    BY AdapterAssumption DEF Service
<1> DEFINE plain == s.fresh + s.read
           rate == IF p.provider = "anthropic" THEN p.inputCeiling ELSE p.inputBase
           prompt == PromptTokens(p, s)
<1>3. plain \in Nat /\ rate \in Nat /\ rate <= p.inputCeiling
    BY <1>1, <1>2
<1>4. prompt = plain + s.written
    BY <1>2 DEF PromptTokens, InputCounters
<1> HIDE DEF plain, rate, prompt
<1>5. plain * p.inputBase \in Nat /\ s.written * rate \in Nat /\ s.output * p.output \in Nat
    BY <1>1, <1>2, <1>3, ProductNat
<1>6. plain * p.inputCeiling \in Nat /\ s.written * p.inputCeiling \in Nat
    BY <1>1, <1>2, <1>3, ProductNat
<1>7. plain * p.inputBase <= plain * p.inputCeiling
    BY <1>1, <1>3, ProductMonotone
<1>8. s.written * rate <= s.written * p.inputCeiling
    BY <1>1, <1>2, <1>3, ProductMonotone
<1>9. (plain + s.written) * p.inputCeiling = plain * p.inputCeiling + s.written * p.inputCeiling
    BY <1>1, <1>2, <1>3, Z3
<1>10. BillOf(p, s) = plain * p.inputBase + s.written * rate + s.output * p.output + s.extra
    BY DEF BillOf, plain, rate
<1>11. ChargeOf(p, s) = plain * p.inputCeiling + s.written * p.inputCeiling + s.output * p.output
    BY <1>4, <1>9 DEF ChargeOf, AtCeilings, prompt
<1> QED
    BY <1>2, <1>5, <1>6, <1>7, <1>8, <1>10, <1>11

(* An answer within the ceilings is charged no more than was reserved.      *)
LEMMA ChargeWithinBound ==
    ASSUME NEW p \in Profiles, NEW s \in Service, NEW n \in Nat, WithinCeilings(p, n, s)
    PROVE  ChargeOf(p, s) <= AtCeilings(p, p.inputBound, n)
<1>1. p.inputBound \in Nat /\ p.inputCeiling \in Nat /\ p.output \in Nat
    BY AdapterAssumption DEF Reviewed
<1> DEFINE prompt == PromptTokens(p, s)
<1>2. s.output \in Nat /\ prompt \in Nat
    <2>1. s.fresh \in Nat /\ s.written \in Nat /\ s.read \in Nat /\ s.output \in Nat
        BY AdapterAssumption DEF Service
    <2> QED
        BY <2>1 DEF PromptTokens, InputCounters
<1>3. prompt <= p.inputBound /\ s.output <= n
    BY DEF WithinCeilings
<1> HIDE DEF prompt
<1>4. prompt * p.inputCeiling <= p.inputBound * p.inputCeiling
    BY <1>1, <1>2, <1>3, ProductMonotone
<1>5. s.output * p.output <= n * p.output
    BY <1>1, <1>2, <1>3, ProductMonotone
<1>6. /\ prompt * p.inputCeiling \in Nat /\ p.inputBound * p.inputCeiling \in Nat
      /\ s.output * p.output \in Nat /\ n * p.output \in Nat
    BY <1>1, <1>2, ProductNat
<1> QED
    BY <1>4, <1>5, <1>6 DEF ChargeOf, AtCeilings, prompt

(* Whatever the answer, the verdict on it is one the engine relies on.      *)
LEMMA VerdictIsReportable ==
    ASSUME NEW a, a.profile \in Profiles, a.output \in Nat, a.json \in BOOLEAN,
           a.reply.whole \in BOOLEAN, a.reply.served \in Service,
           a.bound = AtCeilings(a.profile, a.profile.inputBound, a.output),
           a.bound \in Nat
    PROVE  Reportable(Verdict(a), a.bound, BillOf(a.profile, a.reply.served))
<1> DEFINE p == a.profile
           s == a.reply.served
           charge == ChargeOf(p, s)
           billed == BillOf(p, s)
           v == Verdict(a)
<1>1. charge \in Nat /\ billed \in Nat /\ (s.extra = 0 => billed <= charge)
    BY ChargeCoversBill
<1>2. WithinCeilings(p, a.output, s) => charge <= a.bound
    BY ChargeWithinBound
<1>3. UsageIsSupported(s) => s.extra = 0
    BY DEF UsageIsSupported
<1>4. charge # Null
    BY <1>1, AdapterAssumption
<1>5. CASE s.answer = "error"
    BY <1>5 DEF Verdict, Report, Reportable
<1>6. CASE /\ s.answer # "error"
           /\ \/ ~a.reply.whole \/ ~UsageIsSupported(s)
              \/ s.answer = "other_model" \/ charge \notin Nanos
    <2>1. v = Report("violation", Null, FALSE)
        BY <1>6 DEF Verdict, Violation
    <2> QED
        BY <2>1 DEF Report, Reportable
<1>7. CASE /\ s.answer # "error" /\ a.reply.whole /\ UsageIsSupported(s)
           /\ s.answer # "other_model" /\ charge \in Nanos
           /\ ~WithinCeilings(p, a.output, s) \/ s.answer \in {"identity", "envelope"}
    <2>1. v = Report("violation", RetainedCharge(charge, a.bound), FALSE)
        BY <1>7 DEF Verdict, Violation
    <2>2. CASE charge > a.bound
        BY <2>1, <2>2, <1>1, <1>3, <1>4, <1>7 DEF RetainedCharge, Report, Reportable
    <2>3. CASE ~(charge > a.bound)
        BY <2>1, <2>3 DEF RetainedCharge, Report, Reportable
    <2> QED
        BY <2>2, <2>3
<1>8. CASE /\ s.answer # "error" /\ a.reply.whole /\ UsageIsSupported(s)
           /\ s.answer # "other_model" /\ charge \in Nanos
           /\ WithinCeilings(p, a.output, s) /\ s.answer \notin {"identity", "envelope"}
    <2>1. v = Report("failure", charge, FALSE) \/ v = Report("answer", charge, FALSE)
        BY <1>8 DEF Verdict
    <2> QED
        BY <2>1, <1>1, <1>2, <1>3, <1>4, <1>8 DEF Report, Reportable
<1> QED
    BY <1>5, <1>6, <1>7, <1>8

-------------------------------------------------------------------------------
(* The inductive invariant *)

Phases == Early \cup Posting \cup {"replied", "settled"}

Reports ==
    [kind : {"none", "answer", "failure", "violation", "unknown", "interrupt"},
     charge : Nat \cup {Null}, retry : BOOLEAN]

AttemptRow ==
    [phase : Phases, profile : Profiles \cup {Null}, output : Nat, json : BOOLEAN,
     bound : Nat, expires : Nat, sent : BOOLEAN,
     alarm : Int \cup {Null}, patience : Int, watchdog : Int \cup {Null},
     declared : BOOLEAN, reply : [whole : BOOLEAN, served : Service] \cup {Null},
     report : Reports]

TypeOK ==
    /\ utc \in Nat /\ now \in Nat /\ bill \in Nat
    /\ served \in Service \cup {Null}
    /\ attempt \in AttemptRow

\* The quote is that of the attempt, and only what was sent is served.
QuoteInv ==
    /\ attempt.phase # "new" =>
          /\ attempt.profile \in Profiles
          /\ attempt.bound = AtCeilings(attempt.profile, attempt.profile.inputBound,
                                        attempt.output)
    /\ attempt.phase \in Early \cup {"resolving", "connecting", "handshake"} => ~attempt.sent
    /\ served = Null => bill = 0
    /\ served # Null => attempt.sent /\ bill = BillOf(attempt.profile, served)

\* What is reported rests on what was served, if on anything.
ReplyInv ==
    /\ attempt.phase \in {"reading", "replied"} => served # Null
    /\ attempt.phase = "replied" <=> attempt.reply # Null /\ attempt.phase # "settled"
    /\ attempt.reply # Null => served # Null /\ attempt.reply.served = served
    /\ In("settled") =>
          \/ attempt.reply # Null /\ attempt.report = Verdict(attempt)
          \/ /\ attempt.reply = Null
             /\ \E kind \in {"unknown", "interrupt", "violation"} :
                   attempt.report = Report(kind, Null, FALSE)

\* Every wait of a request has an end: the alarm while the socket is made,
\* the watchdog once it is in use.
TimeInv ==
    /\ attempt.phase \in Early => now = 0
    /\ attempt.phase \in Posting => now <= Deadline
    /\ attempt.phase \in {"resolving", "connecting", "handshake"} => attempt.alarm = Deadline
    /\ attempt.phase \in {"sending", "waiting", "reading"} => attempt.watchdog = Deadline

AdapterInv == TypeOK /\ QuoteInv /\ ReplyInv /\ TimeInv

LEMMA AdapterInitInv == AdapterInit => AdapterInv
BY AdapterAssumption DEF AdapterInit, AdapterInv, TypeOK, AttemptRow, QuoteInv, ReplyInv,
   TimeInv, Blank, NoReport, Report, Reports, Phases, Early, Posting, In

(* The row of an attempt stays well typed when an operation is followed by  *)
(* the next, and when its outcome is settled.                               *)
LEMMA ProceedType ==
    ASSUME TypeOK, NEW phase \in Phases
    PROVE  Proceed(phase) \in AttemptRow
<1>1. Remaining \in Int /\ now + Remaining \in Int
    BY AdapterAssumption DEF TypeOK, Remaining
<1> QED
    BY <1>1 DEF TypeOK, AttemptRow, Proceed

LEMMA SettledType ==
    ASSUME TypeOK, NEW report \in Reports
    PROVE  Settled(report) \in AttemptRow
BY DEF TypeOK, AttemptRow, Settled, Phases

LEMMA VerdictType ==
    ASSUME TypeOK, QuoteInv, attempt.phase # "new", attempt.reply # Null
    PROVE  Verdict(attempt) \in Reports
<1> DEFINE s == attempt.reply.served
           charge == ChargeOf(attempt.profile, s)
<1>1. s \in Service /\ attempt.profile \in Profiles
    BY DEF TypeOK, AttemptRow, QuoteInv
<1>2. charge \in Nat
    BY <1>1, ChargeCoversBill
<1>3. RetainedCharge(charge, attempt.bound) \in Nat \cup {Null}
    BY <1>2 DEF RetainedCharge
<1> HIDE DEF charge
<1>4. \E kind \in {"unknown", "violation", "failure", "answer"}, n \in Nat \cup {Null} :
          Verdict(attempt) = Report(kind, n, FALSE)
    BY <1>2, <1>3 DEF Verdict, Violation, charge
<1> QED
    BY <1>4 DEF Report, Reports

(* Every step of the adapter, the clocks and the provider keeps the         *)
(* invariant.                                                               *)
LEMMA AdapterStepInv ==
    ASSUME AdapterInv, [AdapterNext]_adapterVars
    PROVE  AdapterInv'
<1> USE DEF In, InTime, Remaining, EnvironmentUnchanged, Phases, Early, Posting,
            Report, Reports
<1> TypeOK /\ QuoteInv /\ ReplyInv /\ TimeInv
    BY DEF AdapterInv
<1>1. CASE Prepare
    <2>1. TypeOK'
        <3>1. PICK p \in Enabled, n \in Tokens \ {0}, json \in BOOLEAN :
                  /\ AtCeilings(p, p.inputBound, n) \in Nanos
                  /\ attempt' = [attempt EXCEPT
                        !.phase = "prepared", !.profile = p, !.output = n, !.json = json,
                        !.bound = AtCeilings(p, p.inputBound, n),
                        !.expires = Smaller(utc + QuoteLife, TariffExpiry)]
            BY <1>1 DEF Prepare
        <3>2. /\ p \in Profiles /\ n \in Nat /\ AtCeilings(p, p.inputBound, n) \in Nat
              /\ Smaller(utc + QuoteLife, TariffExpiry) \in Nat
            BY <3>1, AdapterAssumption, MaxNanosAssumption DEF TypeOK, Nanos, Smaller
        <3>3. attempt' \in AttemptRow
            BY <3>1, <3>2 DEF TypeOK, AttemptRow
        <3> QED
            BY <1>1, <3>3 DEF TypeOK, Prepare
    <2>2. QuoteInv'
        BY <1>1, AdapterAssumption DEF TypeOK, AttemptRow, QuoteInv, Prepare, Smaller, AtCeilings
    <2>3. ReplyInv'
        BY <1>1, AdapterAssumption DEF TypeOK, AttemptRow, ReplyInv, Prepare, Smaller, AtCeilings
    <2>4. TimeInv'
        BY <1>1, AdapterAssumption DEF TypeOK, AttemptRow, TimeInv, Prepare, Smaller, AtCeilings
    <2> QED
        BY <2>1, <2>2, <2>3, <2>4 DEF AdapterInv
<1>2. CASE Fund
    <2>1. TypeOK'
        BY <1>2, AdapterAssumption DEF TypeOK, AttemptRow, Fund
    <2>2. QuoteInv'
        BY <1>2, AdapterAssumption DEF TypeOK, AttemptRow, QuoteInv, Fund
    <2>3. ReplyInv'
        BY <1>2, AdapterAssumption DEF TypeOK, AttemptRow, ReplyInv, Fund
    <2>4. TimeInv'
        BY <1>2, AdapterAssumption DEF TypeOK, AttemptRow, TimeInv, Fund
    <2> QED
        BY <2>1, <2>2, <2>3, <2>4 DEF AdapterInv
<1>3. CASE BeginDispatch
    <2>1. TypeOK'
        BY <1>3, AdapterAssumption DEF TypeOK, AttemptRow, BeginDispatch
    <2>2. QuoteInv'
        BY <1>3, AdapterAssumption DEF TypeOK, AttemptRow, QuoteInv, BeginDispatch
    <2>3. ReplyInv'
        BY <1>3, AdapterAssumption DEF TypeOK, AttemptRow, ReplyInv, BeginDispatch
    <2>4. TimeInv'
        BY <1>3, AdapterAssumption DEF TypeOK, AttemptRow, TimeInv, BeginDispatch
    <2> QED
        BY <2>1, <2>2, <2>3, <2>4 DEF AdapterInv
<1>4. CASE Refuse
    <2>1. TypeOK'
        BY <1>4, AdapterAssumption DEF TypeOK, AttemptRow, Refuse
    <2>2. QuoteInv'
        BY <1>4, AdapterAssumption DEF TypeOK, AttemptRow, QuoteInv, Refuse
    <2>3. ReplyInv'
        BY <1>4, AdapterAssumption DEF TypeOK, AttemptRow, ReplyInv, Refuse
    <2>4. TimeInv'
        BY <1>4, AdapterAssumption DEF TypeOK, AttemptRow, TimeInv, Refuse
    <2> QED
        BY <2>1, <2>2, <2>3, <2>4 DEF AdapterInv
<1>5. CASE RefuseLate
    <2>1. TypeOK'
        BY <1>5, AdapterAssumption DEF TypeOK, AttemptRow, RefuseLate, Settled
    <2>2. QuoteInv'
        BY <1>5, AdapterAssumption DEF TypeOK, AttemptRow, QuoteInv, RefuseLate, Settled
    <2>3. ReplyInv'
        BY <1>5, AdapterAssumption DEF TypeOK, AttemptRow, ReplyInv, RefuseLate, Settled
    <2>4. TimeInv'
        BY <1>5, AdapterAssumption DEF TypeOK, AttemptRow, TimeInv, RefuseLate, Settled
    <2> QED
        BY <2>1, <2>2, <2>3, <2>4 DEF AdapterInv
<1>6. CASE Post
    <2>1. TypeOK'
        <3>1. now + Deadline \in Int
            BY AdapterAssumption DEF TypeOK
        <3>2. attempt' \in AttemptRow
            BY <1>6, <3>1 DEF Post, TypeOK, AttemptRow
        <3> QED
            BY <1>6, <3>2 DEF TypeOK, Post
    <2>2. QuoteInv'
        BY <1>6, AdapterAssumption DEF TypeOK, AttemptRow, QuoteInv, Post
    <2>3. ReplyInv'
        BY <1>6, AdapterAssumption DEF TypeOK, AttemptRow, ReplyInv, Post
    <2>4. TimeInv'
        BY <1>6, AdapterAssumption DEF TypeOK, AttemptRow, TimeInv, Post
    <2> QED
        BY <2>1, <2>2, <2>3, <2>4 DEF AdapterInv
<1>7. CASE Resolved
    <2>1. TypeOK'
        BY <1>7, ProceedType DEF TypeOK, Resolved
    <2>2. QuoteInv'
        BY <1>7, AdapterAssumption DEF TypeOK, AttemptRow, QuoteInv, Resolved, Proceed
    <2>3. ReplyInv'
        BY <1>7, AdapterAssumption DEF TypeOK, AttemptRow, ReplyInv, Resolved, Proceed
    <2>4. TimeInv'
        BY <1>7, AdapterAssumption DEF TypeOK, AttemptRow, TimeInv, Resolved, Proceed
    <2> QED
        BY <2>1, <2>2, <2>3, <2>4 DEF AdapterInv
<1>8. CASE Connected
    <2>1. TypeOK'
        BY <1>8, ProceedType DEF TypeOK, Connected
    <2>2. QuoteInv'
        BY <1>8, AdapterAssumption DEF TypeOK, AttemptRow, QuoteInv, Connected, Proceed
    <2>3. ReplyInv'
        BY <1>8, AdapterAssumption DEF TypeOK, AttemptRow, ReplyInv, Connected, Proceed
    <2>4. TimeInv'
        BY <1>8, AdapterAssumption DEF TypeOK, AttemptRow, TimeInv, Connected, Proceed
    <2> QED
        BY <2>1, <2>2, <2>3, <2>4 DEF AdapterInv
<1>9. CASE Secured
    <2>1. TypeOK'
        <3>1. Proceed("sending") \in AttemptRow /\ now + Remaining \in Int
            BY ProceedType, AdapterAssumption DEF TypeOK
        <3>2. attempt' \in AttemptRow
            BY <1>9, <3>1 DEF Secured, AttemptRow
        <3> QED
            BY <1>9, <3>2 DEF TypeOK, Secured
    <2>2. QuoteInv'
        BY <1>9, AdapterAssumption DEF TypeOK, AttemptRow, QuoteInv, Secured, Proceed
    <2>3. ReplyInv'
        BY <1>9, AdapterAssumption DEF TypeOK, AttemptRow, ReplyInv, Secured, Proceed
    <2>4. TimeInv'
        BY <1>9, AdapterAssumption DEF TypeOK, AttemptRow, TimeInv, Secured, Proceed
    <2> QED
        BY <2>1, <2>2, <2>3, <2>4 DEF AdapterInv
<1>10. CASE Drip
    <2>1. TypeOK'
        BY <1>10, AdapterAssumption DEF TypeOK, AttemptRow, Drip
    <2>2. QuoteInv'
        BY <1>10, AdapterAssumption DEF TypeOK, AttemptRow, QuoteInv, Drip
    <2>3. ReplyInv'
        BY <1>10, AdapterAssumption DEF TypeOK, AttemptRow, ReplyInv, Drip
    <2>4. TimeInv'
        BY <1>10, AdapterAssumption DEF TypeOK, AttemptRow, TimeInv, Drip
    <2> QED
        BY <2>1, <2>2, <2>3, <2>4 DEF AdapterInv
<1>11. CASE Deliver
    <2>1. TypeOK'
        BY <1>11, AdapterAssumption DEF TypeOK, AttemptRow, Deliver
    <2>2. QuoteInv'
        BY <1>11, AdapterAssumption DEF TypeOK, AttemptRow, QuoteInv, Deliver
    <2>3. ReplyInv'
        BY <1>11, AdapterAssumption DEF TypeOK, AttemptRow, ReplyInv, Deliver
    <2>4. TimeInv'
        BY <1>11, AdapterAssumption DEF TypeOK, AttemptRow, TimeInv, Deliver
    <2> QED
        BY <2>1, <2>2, <2>3, <2>4 DEF AdapterInv
<1>12. CASE Sent
    <2>1. TypeOK'
        BY <1>12, ProceedType DEF TypeOK, Sent
    <2>2. QuoteInv'
        BY <1>12, AdapterAssumption DEF TypeOK, AttemptRow, QuoteInv, Sent, Proceed
    <2>3. ReplyInv'
        BY <1>12, AdapterAssumption DEF TypeOK, AttemptRow, ReplyInv, Sent, Proceed
    <2>4. TimeInv'
        BY <1>12, AdapterAssumption DEF TypeOK, AttemptRow, TimeInv, Sent, Proceed
    <2> QED
        BY <2>1, <2>2, <2>3, <2>4 DEF AdapterInv
<1>13. CASE ReplyHead
    <2>1. TypeOK'
        <3>1. attempt'.phase = "reading" /\ attempt' \in AttemptRow
            <4>1. PICK declared \in BOOLEAN :
                      attempt' = [Proceed("reading") EXCEPT !.declared = declared]
                BY <1>13 DEF ReplyHead
            <4>2. Proceed("reading") \in AttemptRow
                BY ProceedType
            <4> QED
                BY <4>1, <4>2 DEF AttemptRow, Proceed
        <3> QED
            BY <1>13, <3>1 DEF TypeOK, ReplyHead
    <2>2. QuoteInv'
        BY <1>13, AdapterAssumption DEF TypeOK, AttemptRow, QuoteInv, ReplyHead, Proceed
    <2>3. ReplyInv'
        BY <1>13, AdapterAssumption DEF TypeOK, AttemptRow, ReplyInv, ReplyHead, Proceed
    <2>4. TimeInv'
        BY <1>13, AdapterAssumption DEF TypeOK, AttemptRow, TimeInv, ReplyHead, Proceed
    <2> QED
        BY <2>1, <2>2, <2>3, <2>4 DEF AdapterInv
<1>14. CASE Chunk
    <2>1. TypeOK'
        BY <1>14, ProceedType DEF TypeOK, Chunk
    <2>2. QuoteInv'
        BY <1>14, AdapterAssumption DEF TypeOK, AttemptRow, QuoteInv, Chunk, Proceed
    <2>3. ReplyInv'
        BY <1>14, AdapterAssumption DEF TypeOK, AttemptRow, ReplyInv, Chunk, Proceed
    <2>4. TimeInv'
        BY <1>14, AdapterAssumption DEF TypeOK, AttemptRow, TimeInv, Chunk, Proceed
    <2> QED
        BY <2>1, <2>2, <2>3, <2>4 DEF AdapterInv
<1>15. CASE BodyEnds
    <2>1. TypeOK'
        <3>1. served \in Service
            BY <1>15 DEF BodyEnds, TypeOK, ReplyInv
        <3>2. PICK whole \in BOOLEAN :
                  attempt' = [attempt EXCEPT !.phase = "replied",
                                 !.reply = [whole |-> whole, served |-> served]]
            BY <1>15 DEF BodyEnds
        <3>3. [whole |-> whole, served |-> served] \in [whole : BOOLEAN, served : Service]
            BY <3>1
        <3>4. attempt' \in AttemptRow
            BY <3>2, <3>3 DEF TypeOK, AttemptRow
        <3> QED
            BY <1>15, <3>4 DEF TypeOK, BodyEnds
    <2>2. QuoteInv'
        BY <1>15, AdapterAssumption DEF TypeOK, AttemptRow, QuoteInv, BodyEnds
    <2>3. ReplyInv'
        <3>1. PICK whole \in BOOLEAN :
                  attempt' = [attempt EXCEPT !.phase = "replied",
                                 !.reply = [whole |-> whole, served |-> served]]
            BY <1>15 DEF BodyEnds
        <3>2. attempt'.phase = "replied" /\ attempt'.reply = [whole |-> whole, served |-> served]
            BY <3>1 DEF TypeOK, AttemptRow
        <3>3. [whole |-> whole, served |-> served] # Null
            BY <1>15, AdapterAssumption DEF TypeOK, ReplyInv, BodyEnds
        <3> QED
            BY <1>15, <3>2, <3>3 DEF ReplyInv, BodyEnds
    <2>4. TimeInv'
        BY <1>15, AdapterAssumption DEF TypeOK, AttemptRow, TimeInv, BodyEnds
    <2> QED
        BY <2>1, <2>2, <2>3, <2>4 DEF AdapterInv
<1>16. CASE PostFails
    <2>1. TypeOK'
        BY <1>16, SettledType DEF TypeOK, PostFails
    <2>2. QuoteInv'
        BY <1>16, AdapterAssumption DEF TypeOK, AttemptRow, QuoteInv, PostFails, Settled
    <2>3. ReplyInv'
        BY <1>16, AdapterAssumption DEF TypeOK, AttemptRow, ReplyInv, PostFails, Settled
    <2>4. TimeInv'
        BY <1>16, AdapterAssumption DEF TypeOK, AttemptRow, TimeInv, PostFails, Settled
    <2> QED
        BY <2>1, <2>2, <2>3, <2>4 DEF AdapterInv
<1>17. CASE Conclude
    <2>1. TypeOK'
        <3>1. Verdict(attempt) \in Reports
            BY <1>17, VerdictType DEF Conclude, ReplyInv
        <3> QED
            BY <1>17, <3>1, SettledType DEF TypeOK, Conclude
    <2>2. QuoteInv'
        BY <1>17, AdapterAssumption DEF TypeOK, AttemptRow, QuoteInv, Conclude, Settled
    <2>3. ReplyInv'
        <3>1. attempt' = [attempt EXCEPT !.phase = "settled", !.report = Verdict(attempt)]
            BY <1>17 DEF Conclude, Settled
        <3>2. attempt'.report = Verdict(attempt) /\ attempt'.phase = "settled"
              /\ attempt'.reply = attempt.reply
            BY <3>1 DEF TypeOK, AttemptRow
        <3>3. Verdict(attempt') = Verdict(attempt)
            BY <3>1 DEF TypeOK, AttemptRow, Verdict
        <3> QED
            BY <1>17, <3>2, <3>3 DEF ReplyInv, Conclude
    <2>4. TimeInv'
        BY <1>17, AdapterAssumption DEF TypeOK, AttemptRow, TimeInv, Conclude, Settled
    <2> QED
        BY <2>1, <2>2, <2>3, <2>4 DEF AdapterInv
<1>18. CASE Tick
    <2>1. TypeOK'
        BY <1>18, AdapterAssumption DEF TypeOK, AttemptRow, Tick
    <2>2. QuoteInv'
        BY <1>18, AdapterAssumption DEF TypeOK, AttemptRow, QuoteInv, Tick
    <2>3. ReplyInv'
        BY <1>18, AdapterAssumption DEF TypeOK, AttemptRow, ReplyInv, Tick
    <2>4. TimeInv'
        BY <1>18, AdapterAssumption DEF TypeOK, AttemptRow, TimeInv, Tick, Due
    <2> QED
        BY <2>1, <2>2, <2>3, <2>4 DEF AdapterInv
<1>19. CASE Serve
    <2>0. attempt.profile \in Profiles /\ BillOf(attempt.profile, served') \in Nat
        BY <1>19, ChargeCoversBill DEF Serve, QuoteInv, TypeOK, AttemptRow
    <2>1. TypeOK'
        BY <1>19, <2>0 DEF TypeOK, Serve
    <2>2. QuoteInv'
        BY <1>19, <2>0, AdapterAssumption DEF TypeOK, AttemptRow, QuoteInv, Serve
    <2>3. ReplyInv'
        BY <1>19, AdapterAssumption DEF TypeOK, AttemptRow, ReplyInv, Serve
    <2>4. TimeInv'
        BY <1>19, AdapterAssumption DEF TypeOK, AttemptRow, TimeInv, Serve
    <2> QED
        BY <2>1, <2>2, <2>3, <2>4 DEF AdapterInv
<1>20. CASE SetUtc
    <2>1. TypeOK'
        BY <1>20, AdapterAssumption DEF TypeOK, AttemptRow, SetUtc
    <2>2. QuoteInv'
        BY <1>20, AdapterAssumption DEF TypeOK, AttemptRow, QuoteInv, SetUtc
    <2>3. ReplyInv'
        BY <1>20, AdapterAssumption DEF TypeOK, AttemptRow, ReplyInv, SetUtc
    <2>4. TimeInv'
        BY <1>20, AdapterAssumption DEF TypeOK, AttemptRow, TimeInv, SetUtc
    <2> QED
        BY <2>1, <2>2, <2>3, <2>4 DEF AdapterInv
<1>21. CASE UNCHANGED adapterVars
    BY <1>21 DEF adapterVars, AdapterInv, TypeOK, QuoteInv, ReplyInv, TimeInv, Verdict
<1> QED
    BY <1>1, <1>2, <1>3, <1>4, <1>5, <1>6, <1>7, <1>8, <1>9, <1>10, <1>11, <1>12, <1>13, <1>14, <1>15, <1>16, <1>17, <1>18, <1>19, <1>20, <1>21 DEF AdapterNext, AdapterStep

THEOREM AdapterInvariant == AdapterSpec => []AdapterInv
<1>1. AdapterInit => AdapterInv
    BY AdapterInitInv
<1>2. AdapterInv /\ [AdapterNext]_adapterVars => AdapterInv'
    BY AdapterStepInv
<1> QED
    BY <1>1, <1>2, PTL DEF AdapterSpec

(* Whatever the provider answers, however the connection breaks and         *)
(* whichever clock jumps, what the engine settles covers the bill, and what *)
(* it refused costs nothing (NativeProviderAdapter, _dispatch_bounded).     *)
THEOREM AdapterKeepsPromise == AdapterSpec => []OutcomeCoversBill
<1>1. AdapterInv => OutcomeCoversBill
    <2> SUFFICES ASSUME AdapterInv
                 PROVE  OutcomeCoversBill
        OBVIOUS
    <2> USE DEF AdapterInv, TypeOK
    <2>1. ASSUME attempt.phase \in Early
          PROVE  bill = 0
        BY <2>1 DEF QuoteInv
    <2>2. ASSUME In("settled")
          PROVE  Reportable(attempt.report, attempt.bound, bill)
        <3>1. CASE attempt.reply = Null
            <4>1. \E kind \in {"unknown", "interrupt", "violation"} :
                      attempt.report = Report(kind, Null, FALSE)
                BY <2>2, <3>1 DEF ReplyInv
            <4> QED
                BY <4>1 DEF Report, Reportable
        <3>2. CASE attempt.reply # Null
            <4>1. attempt.report = Verdict(attempt) /\ attempt.reply.served = served
                  /\ served # Null
                BY <2>2, <3>2 DEF ReplyInv
            <4>2. /\ attempt.profile \in Profiles /\ bill = BillOf(attempt.profile, served)
                  /\ attempt.bound = AtCeilings(attempt.profile, attempt.profile.inputBound,
                                                attempt.output)
                BY <2>2, <4>1 DEF QuoteInv, In
            <4>3. /\ attempt.output \in Nat /\ attempt.json \in BOOLEAN /\ attempt.bound \in Nat
                  /\ attempt.reply.whole \in BOOLEAN /\ attempt.reply.served \in Service
                BY <3>2 DEF AttemptRow
            <4>4. Reportable(Verdict(attempt), attempt.bound,
                             BillOf(attempt.profile, attempt.reply.served))
                BY <4>2, <4>3, VerdictIsReportable
            <4> QED
                BY <4>1, <4>2, <4>4
        <3> QED
            BY <3>1, <3>2
    <2>3. ASSUME served # Null, served.extra = 0,
                 WithinCeilings(attempt.profile, attempt.output, served)
          PROVE  bill <= attempt.bound
        <3>1. attempt.sent /\ bill = BillOf(attempt.profile, served) /\ served \in Service
            BY <2>3 DEF QuoteInv
        <3>2. /\ attempt.profile \in Profiles /\ attempt.output \in Nat
              /\ attempt.bound = AtCeilings(attempt.profile, attempt.profile.inputBound,
                                            attempt.output)
            BY <3>1 DEF QuoteInv, AttemptRow, Early
        <3>3. /\ bill <= ChargeOf(attempt.profile, served)
              /\ ChargeOf(attempt.profile, served) \in Nat
            BY <2>3, <3>1, <3>2, ChargeCoversBill
        <3>4. ChargeOf(attempt.profile, served) <= attempt.bound
            BY <2>3, <3>1, <3>2, ChargeWithinBound
        <3> QED
            BY <3>3, <3>4 DEF AttemptRow
    <2> QED
        BY <2>1, <2>2, <2>3 DEF OutcomeCoversBill
<1> QED
    BY <1>1, AdapterInvariant, PTL

(* A breach of the bound that the provider reports in order reaches the     *)
(* ledger as the charge it is, for any tariff.                              *)
THEOREM AdapterRetainsBreaches == AdapterSpec => []BreachIsRetained
<1>1. AdapterInv => BreachIsRetained
    <2> SUFFICES ASSUME AdapterInv, In("settled"), attempt.reply # Null,
                        attempt.reply.whole, UsageIsSupported(attempt.reply.served),
                        attempt.reply.served.answer # "other_model",
                        ChargeOf(attempt.profile, attempt.reply.served)
                            \in attempt.bound + 1 .. MaxNanos
                 PROVE  attempt.report.charge
                            = ChargeOf(attempt.profile, attempt.reply.served)
        BY DEF BreachIsRetained
    <2> DEFINE charge == ChargeOf(attempt.profile, attempt.reply.served)
    <2>1. attempt.report = Verdict(attempt)
        BY DEF AdapterInv, ReplyInv
    <2>2. charge \in Nanos /\ charge > attempt.bound
        BY MaxNanosAssumption DEF AdapterInv, TypeOK, AttemptRow, Nanos
    <2>3. RetainedCharge(charge, attempt.bound) = charge
        BY <2>2 DEF RetainedCharge
    <2>4. attempt.reply.served.answer # "error"
        BY DEF UsageIsSupported
    <2> HIDE DEF charge
    <2> QED
        BY <2>1, <2>2, <2>3, <2>4 DEF Verdict, Violation, Report, charge
<1> QED
    BY <1>1, AdapterInvariant, PTL

(* For any deadline, a request whose waits end at their alarms ends by it.  *)
THEOREM RequestsEndInTime == AdapterSpec => []PostEndsInTime
<1>1. AdapterInv => PostEndsInTime
    BY DEF AdapterInv, TimeInv, PostEndsInTime
<1> QED
    BY <1>1, AdapterInvariant, PTL

-------------------------------------------------------------------------------
(* The hooks of an editor                                                   *)

HookPlaces == {"new", "look", "lookAside", "ask", "sidecar", "sidecarOpen",
               "lastTrace", "lastTraceOpen", "accept", "record", "release", "over"}

Hooks == [pc : HookPlaces, kind : {"none", "bypass", "reference", "task", "failed"},
          parent : Nat \cup {None}, verdict : {"same", "apply", "review"},
          trace : (Nat \ {0}) \cup {None}, clean : BOOLEAN]

HookRows == [owner : Turns \cup {None}, accepted : Turns \cup {None}]

HookTypes ==
    /\ hook \in [Turns -> Hooks]
    /\ files \in [{"sidecar", "lastTrace"} -> Nat \cup {None}]
    /\ abandoned \subseteq Turns
    /\ serving \in Turns \cup {None}
    /\ rows \in Seq(HookRows)
    /\ feedback \subseteq [turn : Turns, kept : BOOLEAN]

\* The server improves for a hook that waits for it, and nothing is known of a
\* turn that is still to come.
WaitsFit ==
    /\ \A n \in Turns : serving = n => At(n, "ask")
    /\ \A n \in Turns : At(n, "new") => hook[n].kind = "none"

\* A step of turn k, which is in progress, leaves it in h.
Moves(k, h) ==
    /\ Running(k) /\ h \in Hooks /\ h.pc # "new"
    /\ hook' = [hook EXCEPT ![k] = h]

-------------------------------------------------------------------------------
(* What each action makes of its turn, and what it leaves alone.            *)

(* Where a turn goes when it is done with a file.                           *)
LEMMA AfterPlaces ==
    ASSUME HookTypes, NEW n \in Turns, NEW f \in {"sidecar", "lastTrace"}
    PROVE  /\ AfterAccept(n) \in {"record", "release"}
           /\ AfterTrace(n) \in {"accept", "record", "release"}
           /\ AfterTrace(n) = "accept" => hook[n].verdict # "same"
           /\ AfterFile(n, f) \in {"lastTrace", "accept", "record", "release"}
           /\ AfterFile(n, f) = "lastTrace" => f = "sidecar"
           /\ AfterFile(n, f) = "accept" => hook[n].verdict # "same"
           /\ AfterFile(n, f) # "lastTrace" /\ f = "sidecar" => hook[n].trace = None
BY DEF AfterAccept, AfterTrace, AfterFile

(* Going on changes the place of a turn and nothing else of it.             *)
LEMMA GotoMoves ==
    ASSUME HookTypes, NEW n \in Turns, NEW pc \in HookPlaces \ {"new"}, Running(n), Goto(n, pc)
    PROVE  /\ Moves(n, [hook[n] EXCEPT !.pc = pc])
           /\ hook'[n].pc = pc /\ hook'[n].kind = hook[n].kind
           /\ hook'[n].parent = hook[n].parent /\ hook'[n].verdict = hook[n].verdict
           /\ hook'[n].trace = hook[n].trace /\ hook'[n].clean = hook[n].clean
BY DEF HookTypes, Hooks, Goto, Moves

(* Failing open ends the turn.                                              *)
LEMMA FailMoves ==
    ASSUME HookTypes, NEW n \in Turns, Running(n), hook' = [hook EXCEPT ![n] = FailOpen(@)]
    PROVE  /\ Moves(n, FailOpen(hook[n]))
           /\ hook'[n].pc = "over" /\ hook'[n].kind = "failed" /\ hook'[n].clean = FALSE
BY DEF HookTypes, Hooks, FailOpen, NewTurn, Moves, HookPlaces

-------------------------------------------------------------------------------
(* Turns in order *)

(* Turns are submitted one after the other.  One that is clean has begun    *)
(* after those before it were over, and is alone while it runs.             *)
TurnsInOrder ==
    /\ \A n \in Turns, m \in Turns : m < n /\ ~At(n, "new") => ~At(m, "new")
    /\ \A n \in Turns, m \in Turns :
          m < n /\ ~At(n, "new") /\ hook[n].clean => At(m, "over")
    /\ \A n \in Turns, m \in Turns :
          m # n /\ Running(n) /\ hook[n].clean => ~Running(m)

(* A move of a turn in progress keeps the order, if it does not clean it.   *)
LEMMA MoveKeepsOrder ==
    ASSUME HookTypes, TurnsInOrder, NEW k \in Turns, NEW h, Moves(k, h),
           h.clean => hook[k].clean
    PROVE  TurnsInOrder'
<1>1. \A n \in Turns : /\ hook'[n] = IF n = k THEN h ELSE hook[n]
                       /\ At(n, "new")' <=> At(n, "new")
                       /\ Running(n)' => Running(n)
                       /\ At(n, "over") => At(n, "over")'
                       /\ hook'[n].clean => hook[n].clean
    BY DEF Moves, HookTypes, At, Running
<1> QED
    BY <1>1 DEF TurnsInOrder

(* What Submit does to the turns.                                           *)
LEMMA SubmitMoves ==
    ASSUME HookTypes, NEW k \in Turns, Submit(k)
    PROVE  /\ At(k, "new") /\ \A m \in Turns : m < k => ~At(m, "new")
           /\ hook' \in [Turns -> Hooks]
           /\ \A m \in Turns \ {k} :
                /\ hook'[m].pc = hook[m].pc /\ hook'[m].kind = hook[m].kind
                /\ hook'[m].parent = hook[m].parent /\ hook'[m].verdict = hook[m].verdict
                /\ hook'[m].trace = hook[m].trace
                /\ hook'[m].clean <=> hook[m].clean /\ ~Running(m)
           /\ hook'[k].pc \in {"look", "over"} /\ hook'[k].trace = None
           /\ hook'[k].pc = "over" => hook'[k].kind = "bypass"
           /\ hook'[k].kind # "none"
           /\ hook'[k].clean => \A m \in Turns : ~Running(m)
<1>1. PICK kind \in {"bypass", "reference", "task"} :
         LET h == [NewTurn EXCEPT !.kind = kind, !.pc = "look",
                                  !.clean = \A m \in Turns : ~Running(m)]
         IN  hook' = [m \in Turns |->
                IF m # k THEN [hook[m] EXCEPT !.clean = @ /\ ~Running(m)]
                ELSE IF kind = "bypass" THEN Over(h) ELSE h]
    BY DEF Submit
<1> DEFINE alone == \A m \in Turns : ~Running(m)
           h == [NewTurn EXCEPT !.kind = kind, !.pc = "look", !.clean = alone]
<1>2. alone \in BOOLEAN
    OBVIOUS
<1>3. hook' = [m \in Turns |->
                IF m # k THEN [hook[m] EXCEPT !.clean = @ /\ ~Running(m)]
                ELSE IF kind = "bypass" THEN Over(h) ELSE h]
    BY <1>1
<1>4. /\ At(k, "new") /\ \A m \in Turns : m < k => ~At(m, "new")
    <2>1. At(k, "new") /\ \A m \in 1..(k - 1) : ~At(m, "new")
        BY DEF Submit
    <2>2. \A m \in Turns : m < k => m \in 1..(k - 1)
        BY HookAssumption DEF Turns
    <2> QED
        BY <2>1, <2>2
<1>5. /\ h.pc = "look" /\ h.kind = kind /\ h.trace = None /\ h.clean = alone
      /\ h.parent = None /\ h.verdict = "same" /\ h \in Hooks
    <2> HIDE DEF alone
    <2> QED
        BY <1>2 DEF NewTurn, Hooks, HookPlaces
<1> HIDE DEF h
<1>6. /\ Over(h).pc = "over" /\ Over(h).kind = kind /\ Over(h).trace = None
      /\ Over(h).clean = alone /\ Over(h) \in Hooks
    <2> HIDE DEF alone
    <2> QED
        BY <1>2, <1>5 DEF Over, Hooks, HookPlaces
<1> DEFINE idle(m) == ~Running(m)
<1>7. ASSUME NEW m \in Turns \ {k}
      PROVE  /\ hook'[m].pc = hook[m].pc /\ hook'[m].kind = hook[m].kind
             /\ hook'[m].parent = hook[m].parent /\ hook'[m].verdict = hook[m].verdict
             /\ hook'[m].trace = hook[m].trace
             /\ hook'[m].clean <=> hook[m].clean /\ ~Running(m)
             /\ hook'[m] \in Hooks
    <2>1. hook'[m] = [hook[m] EXCEPT !.clean = @ /\ idle(m)]
        BY <1>3
    <2>2. idle(m) \in BOOLEAN
        BY DEF Running
    <2> HIDE DEF idle
    <2>3. /\ hook[m] \in Hooks
          /\ [hook[m] EXCEPT !.clean = @ /\ idle(m)].clean = (hook[m].clean /\ idle(m))
        BY DEF HookTypes, Hooks
    <2>4. (hook[m].clean /\ idle(m)) \in BOOLEAN
        OBVIOUS
    <2> DEFINE c == hook[m].clean /\ idle(m)
    <2> HIDE DEF c
    <2>5. hook'[m] = [hook[m] EXCEPT !.clean = c]
        BY <2>1 DEF c
    <2>6. /\ hook'[m].pc = hook[m].pc /\ hook'[m].kind = hook[m].kind
          /\ hook'[m].parent = hook[m].parent /\ hook'[m].verdict = hook[m].verdict
          /\ hook'[m].trace = hook[m].trace
          /\ hook'[m].clean = c
          /\ hook'[m] \in Hooks
        BY <2>3, <2>4, <2>5 DEF Hooks, c
    <2> QED
        BY <2>6 DEF c, idle
<1>8. hook'[k] = IF kind = "bypass" THEN Over(h) ELSE h
    BY <1>3
<1>9. hook'[k].pc \in {"look", "over"} /\ hook'[k].trace = None /\ hook'[k] \in Hooks
      /\ hook'[k].kind = kind /\ (hook'[k].pc = "over" => kind = "bypass")
      /\ hook'[k].clean = alone
    BY <1>5, <1>6, <1>8
<1>10. hook' \in [Turns -> Hooks]
    BY <1>3, <1>7, <1>9
<1> QED
    BY <1>4, <1>7, <1>9, <1>10

(* The turn that is submitted is the next one, and whatever runs beside it  *)
(* is not clean any more.                                                   *)
LEMMA SubmitKeepsOrder ==
    ASSUME HookTypes, TurnsInOrder, NEW k \in Turns, Submit(k)
    PROVE  TurnsInOrder'
<1>1. \A m \in Turns \ {k} : /\ At(m, "new")' <=> At(m, "new")
                             /\ At(m, "over")' <=> At(m, "over")
                             /\ Running(m)' <=> Running(m)
                             /\ hook'[m].clean <=> hook[m].clean /\ ~Running(m)
    BY SubmitMoves DEF At, Running
<1>2. /\ At(k, "new") /\ ~At(k, "new")'
      /\ \A m \in Turns : m < k => ~At(m, "new")
      /\ hook'[k].clean => \A m \in Turns : ~Running(m)
    BY SubmitMoves DEF At
<1>3. \A n \in Turns : n > k => At(n, "new")
    <2> SUFFICES ASSUME NEW n \in Turns, n > k, ~At(n, "new")
                 PROVE  FALSE
        OBVIOUS
    <2>1. k < n
        BY HookAssumption DEF Turns
    <2> QED
        BY <1>2, <2>1 DEF TurnsInOrder
<1>4. \A m \in Turns : ~Running(m) <=> At(m, "new") \/ At(m, "over")
    BY DEF Running, At
<1>5. \A n, m \in Turns : n < m \/ n = m \/ m < n
    BY HookAssumption DEF Turns
<1>6. \A n, m \in Turns : m < n /\ ~At(n, "new")' => ~At(m, "new")'
    <2> TAKE n \in Turns, m \in Turns
    <2> HAVE m < n /\ ~At(n, "new")'
    <2>1. CASE n = k
        BY <1>1, <1>2, <2>1 DEF Turns
    <2>2. CASE n # k /\ m # k
        BY <1>1, <2>2 DEF TurnsInOrder
    <2>3. CASE m = k
        BY <1>2, <2>3
    <2> QED
        BY <2>1, <2>2, <2>3
<1>7. \A n, m \in Turns : m < n /\ ~At(n, "new")' /\ hook'[n].clean => At(m, "over")'
    <2> TAKE n \in Turns, m \in Turns
    <2> HAVE m < n /\ ~At(n, "new")' /\ hook'[n].clean
    <2>1. CASE n = k
        <3>1. m # k
            BY <2>1 DEF Turns
        <3> QED
            BY <1>1, <1>2, <1>4, <2>1, <3>1
    <2>2. CASE n # k
        <3>1. ~At(n, "new") /\ hook[n].clean
            BY <1>1, <2>2
        <3>2. m # k
            BY <1>3, <3>1
        <3> QED
            BY <1>1, <3>1, <3>2 DEF TurnsInOrder
    <2> QED
        BY <2>1, <2>2
<1>8. \A n, m \in Turns : m # n /\ Running(n)' /\ hook'[n].clean => ~Running(m)'
    <2> TAKE n \in Turns, m \in Turns
    <2> HAVE m # n /\ Running(n)' /\ hook'[n].clean
    <2>1. n = k
        BY <1>1
    <2> QED
        BY <1>1, <1>2, <2>1
<1> QED
    BY <1>6, <1>7, <1>8 DEF TurnsInOrder

-------------------------------------------------------------------------------
(* A turn names the one before                                              *)

\* Both files name the trace, the second perhaps not readably.
FilesName(trace) ==
    files["sidecar"] = trace /\ files["lastTrace"] \in {trace, Emptied}

\* What a turn that is clean has written by the place where it is.
HasWritten(n) ==
    hook[n].clean /\ hook[n].trace # None =>
        /\ hook[n].pc \in {"lastTrace", "lastTraceOpen"} =>
              files["sidecar"] = hook[n].trace
        /\ hook[n].pc \in {"accept", "record", "release"} => FilesName(hook[n].trace)

\* Turn n is over and has something to pass on.
PassesOn(n) == At(n, "over") /\ hook[n].clean /\ hook[n].trace # None

Looking(n) == hook[n].pc \in {"look", "lookAside"}

\* Until the next turn has read them, the files stay.
FilesAwait(n) ==
    PassesOn(n) /\ (At(n + 1, "new") \/ (hook[n + 1].clean /\ Looking(n + 1)))
        => FilesName(hook[n].trace)

LinkedTo(n) ==
    /\ PassesOn(n) /\ hook[n + 1].clean /\ hook[n + 1].kind # "bypass"
    /\ ~At(n + 1, "new") /\ ~Looking(n + 1)
    => hook[n + 1].parent = hook[n].trace

LinkInv ==
    /\ \A n \in Turns : HasWritten(n)
    /\ \A n \in Turns \ {MaxTurns} : FilesAwait(n) /\ LinkedTo(n)

(* There is a turn after each but the last.                                 *)
LEMMA NextTurn ==
    ASSUME NEW n \in Turns \ {MaxTurns}
    PROVE  n + 1 \in Turns /\ n < n + 1 /\ n # n + 1
BY HookAssumption DEF Turns

(* The links are what the property says.                                    *)
LEMMA LinksAreTurns == LinkInv => TurnsAreLinked
BY DEF LinkInv, LinkedTo, PassesOn, Looking, TurnsAreLinked, At

(* A move of turn k keeps the links if it writes what it should, leaves     *)
(* over what it has written, and reads before it goes on.                   *)
LEMMA MoveKeepsLinks ==
    ASSUME HookTypes, TurnsInOrder, LinkInv, NEW k \in Turns, NEW h, Moves(k, h),
           h.clean => hook[k].clean,
           HasWritten(k)',
           files' = files \/ (~Looking(k) /\ h.pc \notin {"over", "look", "lookAside"}),
           h.pc = "over" /\ h.clean /\ h.trace # None => FilesName(h.trace),
           h.clean /\ Looking(k)' => Looking(k),
           h.clean => h.kind = hook[k].kind,
           h.clean /\ ~Looking(k)' =>
              \/ ~Looking(k) /\ h.parent = hook[k].parent
              \/ /\ Looking(k)
                 /\ \A trace \in Nat \ {0} : FilesName(trace) => h.parent = trace
    PROVE  LinkInv'
<1>1. \A n \in Turns : /\ hook'[n] = IF n = k THEN h ELSE hook[n]
                       /\ hook[n] \in Hooks
    BY DEF Moves, HookTypes
<1>2. Running(k) /\ h \in Hooks /\ ~At(k, "new") /\ ~At(k, "over") /\ h.pc # "new"
    BY DEF Moves, Running, At
<1>3. \A n \in Turns \ {k} : hook[n].clean /\ ~At(n, "new") => At(n, "over")
    BY <1>2 DEF TurnsInOrder, Running, At
<1>4. ASSUME NEW n \in Turns
      PROVE  HasWritten(n)'
    <2>1. CASE n = k
        BY <2>1
    <2>2. CASE n # k
        BY <1>1, <1>3, <2>2 DEF HasWritten, At
    <2> QED
        BY <2>1, <2>2
<1>5. ASSUME NEW n \in Turns \ {MaxTurns}, PassesOn(n)', n # k
      PROVE  PassesOn(n) /\ hook'[n] = hook[n] /\ hook[n].trace \in Nat \ {0}
    BY <1>1, <1>5 DEF PassesOn, At, Hooks
<1>6. ASSUME NEW n \in Turns \ {MaxTurns}
      PROVE  FilesAwait(n)'
    <2> SUFFICES ASSUME PassesOn(n)',
                        At(n + 1, "new")' \/ (hook'[n + 1].clean /\ Looking(n + 1)')
                 PROVE  FilesName(hook[n].trace)'
        BY DEF FilesAwait
    <2>1. n + 1 \in Turns /\ n < n + 1 /\ n # n + 1
        BY NextTurn
    <2>2. CASE n = k
        <3>1. h.pc = "over" /\ h.clean /\ h.trace # None /\ FilesName(h.trace) /\ files' = files
            BY <1>1, <2>2 DEF PassesOn, At
        <3> QED
            BY <1>1, <2>2, <3>1 DEF FilesName
    <2>3. CASE n + 1 = k
        <3>1. h.clean /\ Looking(k)' /\ h.pc \in {"look", "lookAside"}
            BY <1>1, <1>2, <2>3 DEF At, Looking
        <3>2. PassesOn(n) /\ hook'[n] = hook[n] /\ hook[k].clean /\ Looking(k) /\ files' = files
            BY <1>5, <2>1, <2>3, <3>1
        <3> QED
            BY <2>3, <3>2 DEF LinkInv, FilesAwait, FilesName
    <2>4. CASE n # k /\ n + 1 # k
        <3>1. /\ PassesOn(n) /\ hook'[n] = hook[n]
              /\ At(n + 1, "new") \/ (hook[n + 1].clean /\ Looking(n + 1))
            BY <1>1, <1>5, <2>1, <2>4 DEF At, Looking
        <3>2. FilesName(hook[n].trace)
            BY <3>1 DEF LinkInv, FilesAwait
        <3>3. ~At(n + 1, "new")
            <4> SUFFICES ASSUME At(n + 1, "new")
                         PROVE  FALSE
                OBVIOUS
            <4>1. ~(n + 1 < k)
                BY <1>2, <2>1 DEF TurnsInOrder
            <4>2. k < n
                BY <2>1, <2>4, <4>1, HookAssumption DEF Turns
            <4>3. At(k, "over")
                BY <3>1, <4>2 DEF TurnsInOrder, PassesOn, At
            <4> QED
                BY <1>2, <4>3
        <3>4. ~(hook[n + 1].clean /\ Looking(n + 1))
            BY <1>2, <2>1, <2>4 DEF TurnsInOrder, Running, Looking
        <3> QED
            BY <3>1, <3>3, <3>4
    <2> QED
        BY <2>2, <2>3, <2>4
<1>7. ASSUME NEW n \in Turns \ {MaxTurns}
      PROVE  LinkedTo(n)'
    <2> SUFFICES ASSUME PassesOn(n)', hook'[n + 1].clean, hook'[n + 1].kind # "bypass",
                        ~At(n + 1, "new")', ~Looking(n + 1)'
                 PROVE  hook'[n + 1].parent = hook'[n].trace
        BY DEF LinkedTo
    <2>1. n + 1 \in Turns /\ n < n + 1 /\ n # n + 1
        BY NextTurn
    <2>2. CASE n = k
        <3>1. hook[n + 1].clean /\ ~At(n + 1, "new")
            BY <1>1, <2>1, <2>2 DEF At
        <3>2. At(n, "over")
            BY <2>1, <3>1 DEF TurnsInOrder
        <3> QED
            BY <1>2, <2>2, <3>2
    <2>3. CASE n + 1 = k
        <3>1. PassesOn(n) /\ hook'[n] = hook[n] /\ hook[n].trace \in Nat \ {0}
            BY <1>5, <2>1, <2>3
        <3>2. /\ h.clean /\ hook[k].clean /\ ~Looking(k)'
              /\ h.kind = hook[k].kind /\ h.kind # "bypass"
            BY <1>1, <2>1, <2>3
        <3>3. CASE ~Looking(k) /\ h.parent = hook[k].parent
            <4>1. hook[k].parent = hook[n].trace
                BY <1>2, <2>3, <3>1, <3>2, <3>3 DEF LinkInv, LinkedTo
            <4> QED
                BY <1>1, <2>1, <2>3, <3>1, <3>3, <4>1
        <3>4. CASE /\ Looking(k)
                   /\ \A trace \in Nat \ {0} : FilesName(trace) => h.parent = trace
            <4>1. FilesName(hook[n].trace)
                BY <2>3, <3>1, <3>2, <3>4 DEF LinkInv, FilesAwait
            <4> QED
                BY <1>1, <2>1, <2>3, <3>1, <3>4, <4>1
        <3> QED
            BY <3>2, <3>3, <3>4
    <2>4. CASE n # k /\ n + 1 # k
        <3>1. /\ PassesOn(n) /\ hook'[n] = hook[n] /\ hook'[n + 1] = hook[n + 1]
              /\ ~At(n + 1, "new") /\ ~Looking(n + 1)
            BY <1>1, <1>5, <2>1, <2>4 DEF At, Looking
        <3> QED
            BY <3>1 DEF LinkInv, LinkedTo
    <2> QED
        BY <2>2, <2>3, <2>4
<1> QED
    BY <1>4, <1>6, <1>7 DEF LinkInv

(* A turn that begins has read nothing yet and leaves the files alone.      *)
LEMMA SubmitKeepsLinks ==
    ASSUME HookTypes, TurnsInOrder, LinkInv, NEW k \in Turns, Submit(k)
    PROVE  LinkInv'
<1>1. \A m \in Turns \ {k} :
        /\ hook'[m].pc = hook[m].pc /\ hook'[m].kind = hook[m].kind
        /\ hook'[m].parent = hook[m].parent /\ hook'[m].trace = hook[m].trace
        /\ hook'[m].clean => hook[m].clean
    BY SubmitMoves
<1>2. /\ At(k, "new") /\ hook'[k].trace = None
      /\ hook'[k].pc \in {"look", "over"}
      /\ hook'[k].pc = "over" => hook'[k].kind = "bypass"
      /\ files' = files
    BY SubmitMoves DEF Submit
<1>3. \A n \in Turns : HasWritten(n)'
    BY <1>1, <1>2 DEF LinkInv, HasWritten, FilesName
<1>4. ASSUME NEW n \in Turns \ {MaxTurns}
      PROVE  FilesAwait(n)' /\ LinkedTo(n)'
    <2>1. n + 1 \in Turns /\ n # n + 1
        BY NextTurn
    <2>2. PassesOn(n)' => n # k /\ PassesOn(n) /\ hook'[n].trace = hook[n].trace
        BY <1>1, <1>2 DEF PassesOn, At
    <2>3. FilesAwait(n)'
        BY <1>1, <1>2, <2>1, <2>2 DEF LinkInv, FilesAwait, FilesName, At, Looking
    <2>4. LinkedTo(n)'
        <3>1. CASE n + 1 = k
            BY <1>2, <2>1, <3>1 DEF LinkedTo, Looking
        <3>2. CASE n + 1 # k
            BY <1>1, <2>1, <2>2, <3>2 DEF LinkInv, LinkedTo, At, Looking
        <3> QED
            BY <3>1, <3>2
    <2> QED
        BY <2>3, <2>4
<1> QED
    BY <1>3, <1>4 DEF LinkInv

-------------------------------------------------------------------------------
(* What the server is told                                                  *)

Told == {"accept", "record", "release", "over"}

\* An improvement that changed the text has been served, and the turn is past
\* that.
TookOne(n) ==
    hook[n].kind # "failed" => hook[n].verdict # "same" /\ hook[n].pc \in Told

AcceptsFit == \A n \in Turns : At(n, "accept") \/ n \in abandoned => TookOne(n)

MarksFit ==
    \A n \in Turns, u \in DOMAIN rows :
        rows[u].accepted = n =>
            /\ TookOne(n)
            /\ hook[n].kind # "failed" =>
                  rows[u].owner = n \/ \A o \in RowsOf(n) : o < u

EditsFit ==
    \A e \in feedback : hook[e.turn].kind # "failed" =>
        /\ hook[e.turn].pc \in {"release", "over"}
        /\ e.kept <=> hook[e.turn].verdict # "review"

SignalInv == AcceptsFit /\ MarksFit /\ EditsFit

(* The invariant of the signals is stronger than the property.              *)
LEMMA SignalsFollow == HookTypes /\ SignalInv => SignalsAreTrue
BY DEF SignalInv, MarksFit, EditsFit, TookOne, SignalsAreTrue

\* A turn that has told something does not unsay it.
Onward(n) ==
    hook'[n].kind # "failed" =>
        /\ hook[n].kind # "failed"
        /\ hook[n].pc \in Told => /\ hook'[n].pc \in Told
                                  /\ hook'[n].verdict = hook[n].verdict
        /\ hook[n].pc \in {"release", "over"} => hook'[n].pc \in {"release", "over"}
        /\ hook'[n].pc = "accept" => /\ hook'[n].verdict # "same"

Accepting(n) == At(n, "accept") \/ n \in abandoned

\* The row that an acceptance marks, and the row of a call that is served.
Marks(n) == rows' = IF rows = <<>> THEN rows ELSE [rows EXCEPT ![Len(rows)].accepted = n]

(* A row that is written is the latest, and nobody has accepted it.         *)
LEMMA AppendedRows ==
    ASSUME HookTypes, NEW owner \in Turns \cup {None}, AppendRow(owner)
    PROVE  /\ rows' \in Seq(HookRows)
           /\ DOMAIN rows' = DOMAIN rows \cup {Len(rows) + 1}
           /\ \A u \in DOMAIN rows : u < Len(rows) + 1 /\ rows'[u] = rows[u]
           /\ rows'[Len(rows) + 1].owner = owner /\ rows'[Len(rows) + 1].accepted = None
<1>1. [owner |-> owner, accepted |-> None] \in HookRows
    BY DEF HookRows
<1> QED
    BY <1>1 DEF AppendRow, HookTypes

(* An acceptance marks the latest row, whoever wrote it.                    *)
LEMMA MarkedRows ==
    ASSUME HookTypes, NEW n \in Turns, Marks(n), rows # <<>>
    PROVE  /\ rows' \in Seq(HookRows) /\ DOMAIN rows' = DOMAIN rows
           /\ Len(rows) \in DOMAIN rows
           /\ \A u \in DOMAIN rows : u <= Len(rows) /\ rows'[u].owner = rows[u].owner
           /\ rows'[Len(rows)].accepted = n
           /\ \A u \in DOMAIN rows \ {Len(rows)} : rows'[u] = rows[u]
<1>1. Len(rows) \in DOMAIN rows /\ rows \in Seq(HookRows) /\ Len(rows) \in Nat
    BY DEF HookTypes
<1>2. rows' = [rows EXCEPT ![Len(rows)].accepted = n]
    BY DEF Marks
<1>3. rows[Len(rows)] \in HookRows
    BY <1>1
<1>4. [rows[Len(rows)] EXCEPT !.accepted = n] \in HookRows
    BY <1>3 DEF HookRows
<1>5. rows' = [rows EXCEPT ![Len(rows)] = [rows[Len(rows)] EXCEPT !.accepted = n]]
    BY <1>2
<1>6. /\ rows' \in Seq(HookRows) /\ DOMAIN rows' = DOMAIN rows
      /\ rows'[Len(rows)] = [rows[Len(rows)] EXCEPT !.accepted = n]
      /\ \A u \in DOMAIN rows \ {Len(rows)} : rows'[u] = rows[u]
    BY <1>1, <1>4, <1>5
<1>7. /\ [rows[Len(rows)] EXCEPT !.accepted = n].owner = rows[Len(rows)].owner
      /\ [rows[Len(rows)] EXCEPT !.accepted = n].accepted = n
    BY <1>3 DEF HookRows
<1>8. \A u \in DOMAIN rows : u <= Len(rows)
    BY <1>1
<1> QED
    BY <1>1, <1>6, <1>7, <1>8

(* Signals stay true if turns go onward, acceptances and edits come from    *)
(* turns that are there, and a row is written for others or for a turn that *)
(* still asks.                                                              *)
LEMMA StepKeepsSignals ==
    ASSUME HookTypes, SignalInv, \A n \in Turns : Onward(n),
           abandoned' \subseteq Turns,
           \A n \in abandoned' : Accepting(n) /\ (At(n, "accept") => hook'[n].pc \in Told),
           \/ rows' = rows
           \/ \E owner \in Turns \cup {None} :
                 AppendRow(owner) /\ (owner # None => At(owner, "ask"))
           \/ \E n \in Turns : Accepting(n) /\ Marks(n),
           \A e \in feedback' :
              \/ e \in feedback
              \/ /\ At(e.turn, "record") /\ e.turn \in Turns
                 /\ e.kept <=> hook[e.turn].verdict # "review"
                 /\ hook'[e.turn].kind # "failed" => hook'[e.turn].pc \in {"release", "over"}
    PROVE  SignalInv'
<1>1. \A n \in Turns : Accepting(n) => TookOne(n) /\ TookOne(n)'
    BY DEF SignalInv, AcceptsFit, Accepting, TookOne, Onward
<1>2. AcceptsFit'
    <2> SUFFICES ASSUME NEW n \in Turns, At(n, "accept")' \/ n \in abandoned'
                 PROVE  TookOne(n)'
        BY DEF AcceptsFit
    <2>1. CASE At(n, "accept")'
        BY <2>1 DEF At, TookOne, Onward, Told
    <2>2. CASE n \in abandoned'
        BY <1>1, <2>2
    <2> QED
        BY <2>1, <2>2
<1>3. MarksFit'
    <2> SUFFICES ASSUME NEW n \in Turns, NEW u \in DOMAIN rows', rows'[u].accepted = n
                 PROVE  /\ TookOne(n)'
                        /\ hook'[n].kind # "failed" =>
                              rows'[u].owner = n \/ \A o \in RowsOf(n)' : o < u
        BY DEF MarksFit
    <2>1. n # None
        BY HookAssumption DEF Turns
    <2>2. ASSUME u \in DOMAIN rows, rows[u].accepted = n
          PROVE  /\ TookOne(n)'
                 /\ hook'[n].kind # "failed" =>
                      /\ hook[n].pc \in Told
                      /\ rows[u].owner = n \/ \A o \in RowsOf(n) : o < u
        BY <2>2 DEF SignalInv, MarksFit, TookOne, Onward
    <2>3. CASE rows' = rows
        BY <2>2, <2>3 DEF RowsOf
    <2>4. ASSUME NEW owner \in Turns \cup {None}, AppendRow(owner),
                 owner # None => At(owner, "ask")
          PROVE  /\ TookOne(n)'
                 /\ hook'[n].kind # "failed" =>
                       rows'[u].owner = n \/ \A o \in RowsOf(n)' : o < u
        <3>1. u \in DOMAIN rows /\ rows'[u] = rows[u]
            BY <2>1, <2>4, AppendedRows
        <3>2. hook'[n].kind # "failed" => owner # n
            BY <2>1, <2>2, <2>4, <3>1 DEF At, Told
        <3>3. owner # n => RowsOf(n)' \subseteq RowsOf(n)
            BY <2>4, AppendedRows DEF RowsOf
        <3> QED
            BY <2>2, <3>1, <3>2, <3>3
    <2>5. ASSUME NEW m \in Turns, Accepting(m), Marks(m), rows # <<>>
          PROVE  /\ TookOne(n)'
                 /\ hook'[n].kind # "failed" =>
                       rows'[u].owner = n \/ \A o \in RowsOf(n)' : o < u
        <3>1. RowsOf(n)' = RowsOf(n) /\ u \in DOMAIN rows /\ rows'[u].owner = rows[u].owner
            BY <2>5, MarkedRows DEF RowsOf
        <3>2. CASE u = Len(rows)
            <4>1. m = n
                BY <2>5, <3>2, MarkedRows
            <4>2. rows[u].owner = n \/ \A o \in RowsOf(n) : o < u
                <5> SUFFICES ASSUME rows[u].owner # n, NEW o \in RowsOf(n)
                             PROVE  o < u
                    OBVIOUS
                <5>1. o \in DOMAIN rows /\ o # u /\ o <= Len(rows)
                    BY <2>5, MarkedRows DEF RowsOf
                <5>2. o \in Nat /\ Len(rows) \in Nat
                    BY <5>1 DEF HookTypes
                <5> QED
                    BY <3>2, <5>1, <5>2
            <4> QED
                BY <1>1, <2>5, <3>1, <4>1, <4>2
        <3>3. CASE u # Len(rows)
            <4>1. rows[u].accepted = n
                BY <2>5, <3>1, <3>3, MarkedRows
            <4> QED
                BY <2>2, <3>1, <4>1
        <3> QED
            BY <3>2, <3>3
    <2> QED
        BY <2>3, <2>4, <2>5 DEF Marks
<1>4. EditsFit'
    <2> SUFFICES ASSUME NEW e \in feedback', hook'[e.turn].kind # "failed"
                 PROVE  /\ hook'[e.turn].pc \in {"release", "over"}
                        /\ e.kept <=> hook'[e.turn].verdict # "review"
        BY DEF EditsFit
    <2>1. CASE e \in feedback
        <3>1. e.turn \in Turns
            BY <2>1 DEF HookTypes
        <3>2. Onward(e.turn) /\ hook[e.turn].kind # "failed"
            BY <3>1 DEF Onward
        <3>3. hook[e.turn].pc \in {"release", "over"} /\ (e.kept <=> hook[e.turn].verdict # "review")
            BY <2>1, <3>2 DEF SignalInv, EditsFit
        <3> QED
            BY <3>2, <3>3 DEF Onward, Told
    <2>2. CASE e \notin feedback
        <3>1. /\ At(e.turn, "record") /\ e.turn \in Turns
              /\ e.kept <=> hook[e.turn].verdict # "review"
              /\ hook'[e.turn].pc \in {"release", "over"}
            BY <2>2
        <3> QED
            BY <3>1 DEF Onward, Told, At
    <2> QED
        BY <2>1, <2>2
<1> QED
    BY <1>2, <1>3, <1>4 DEF SignalInv

-------------------------------------------------------------------------------
(* Every action keeps the invariant                                         *)

HookInv == HookTypes /\ WaitsFit /\ TurnsInOrder /\ LinkInv /\ SignalInv

\* What an action does outside of the hooks and their files.
Calls(k) ==
    /\ abandoned' \subseteq Turns
    /\ \A n \in Turns : serving' = n => serving = n /\ n # k
    /\ serving' \in Turns \cup {None}
    /\ rows' \in Seq(HookRows)
    /\ feedback' \subseteq [turn : Turns, kept : BOOLEAN]

(* Moves keep types, waits and order.                                       *)
LEMMA MoveKeepsBase ==
    ASSUME HookInv, NEW k \in Turns, NEW h, Moves(k, h), h.clean => hook[k].clean,
           files' \in [{"sidecar", "lastTrace"} -> Nat \cup {None}], Calls(k)
    PROVE  HookTypes' /\ WaitsFit' /\ TurnsInOrder'
<1>1. hook' \in [Turns -> Hooks] /\ \A n \in Turns \ {k} : hook'[n] = hook[n]
    BY DEF HookInv, HookTypes, Moves
<1>2. HookTypes'
    BY <1>1 DEF HookTypes, Calls
<1>3. ~At(k, "new") /\ ~At(k, "new")'
    BY DEF Moves, Running, At, HookInv, HookTypes
<1>4. WaitsFit'
    BY <1>1, <1>3 DEF HookInv, WaitsFit, Calls, At
<1> QED
    BY <1>2, <1>4, MoveKeepsOrder DEF HookInv

\* A move that says nothing to the server.
LEMMA SilentMove ==
    ASSUME HookInv, NEW k \in Turns, NEW h, Moves(k, h), h.clean => hook[k].clean,
           files' \in [{"sidecar", "lastTrace"} -> Nat \cup {None}],
           ~At(k, "ask"), ServerUnchanged, h.kind = hook[k].kind,
           h.verdict = hook[k].verdict, hook[k].pc \in Told => h.pc \in Told,
           hook[k].pc \in {"release", "over"} => h.pc \in {"release", "over"},
           h.pc = "accept" => h.verdict # "same",
           LinkInv'
    PROVE  HookInv'
<1>1. Calls(k)
    BY DEF Calls, ServerUnchanged, serverVars, HookInv, HookTypes, WaitsFit
<1>2. HookTypes' /\ WaitsFit' /\ TurnsInOrder'
    BY <1>1, MoveKeepsBase
<1>3. \A n \in Turns \ {k} : hook'[n] = hook[n]
    BY DEF HookInv, HookTypes, Moves
<1>4. hook'[k] = h /\ k \in Turns
    BY DEF HookInv, HookTypes, Moves
<1>5. AcceptsFit => \A n \in Turns : At(n, "accept") => TookOne(n)
    BY DEF AcceptsFit
<1>6. \A n \in Turns : Onward(n)
    <2> TAKE n \in Turns
    <2>1. CASE n = k
        BY <1>4, <2>1 DEF Onward
    <2>2. CASE n # k
        BY <1>3, <1>5, <2>2 DEF Onward, HookInv, SignalInv, TookOne, At
    <2> QED
        BY <2>1, <2>2
<1>7. \A n \in abandoned' : Accepting(n) /\ (At(n, "accept") => hook'[n].pc \in Told)
    BY <1>3, <1>4 DEF ServerUnchanged, serverVars, Accepting, At, HookInv, HookTypes, Told
<1>8. rows' = rows /\ feedback' = feedback /\ abandoned' \subseteq Turns
    BY <1>1 DEF Calls, ServerUnchanged, serverVars
<1>9. SignalInv'
    BY <1>6, <1>7, <1>8, StepKeepsSignals DEF HookInv
<1> QED
    BY <1>2, <1>9 DEF HookInv

\* Steps of the server and of others, which leave hooks and files alone.
LEMMA QuietHooks ==
    ASSUME HookInv, hook' = hook, files' = files
    PROVE  TurnsInOrder' /\ LinkInv' /\ \A n \in Turns : Onward(n)
<1>1. TurnsInOrder' /\ LinkInv'
    BY DEF HookInv, TurnsInOrder, LinkInv, HasWritten, FilesAwait, LinkedTo, PassesOn, Looking,
           FilesName, At, Running
<1>2. \A n \in Turns : Onward(n)
    BY DEF Onward, HookInv, SignalInv, AcceptsFit, TookOne, At
<1> QED
    BY <1>1, <1>2

(* The prior trace is read, from the one file or from the other.            *)
LEMMA ReadKeeps ==
    ASSUME HookInv, NEW k \in Turns, ReadLastTrace(k) \/ ReadSidecar(k)
    PROVE  HookInv'
<1>1. /\ files["sidecar"] \in Nat \cup {None} /\ files["lastTrace"] \in Nat \cup {None}
      /\ hook[k] \in Hooks /\ hook \in [Turns -> Hooks]
      /\ \A f \in {"sidecar", "lastTrace"} : TraceIn(f) \in Nat \cup {None}
    BY DEF HookInv, HookTypes, TraceIn
<1> DEFINE f == IF At(k, "look") THEN "lastTrace" ELSE "sidecar"
           pc == IF At(k, "look") /\ TraceIn(f) = None THEN "lookAside" ELSE AfterLook(hook[k])
           h == [hook[k] EXCEPT !.parent = TraceIn(f), !.pc = pc]
<1>2. /\ Looking(k) /\ files' = files /\ ServerUnchanged
      /\ hook' = [hook EXCEPT ![k] = h]
    <2>1. CASE ReadLastTrace(k)
        BY <1>1, <2>1 DEF ReadLastTrace, Looking, At
    <2>2. CASE ReadSidecar(k)
        BY <1>1, <2>2 DEF ReadSidecar, Looking, At
    <2> QED
        BY <2>1, <2>2
<1>3. pc \in {"lookAside", "sidecar", "ask"} /\ f \in {"sidecar", "lastTrace"}
    BY DEF AfterLook
<1>4. pc = "lookAside" => f = "lastTrace" /\ TraceIn("lastTrace") = None
    BY DEF AfterLook
<1>5. f = "lastTrace" /\ TraceIn(f) = None => pc = "lookAside"
    OBVIOUS
<1> HIDE DEF pc, f
<1>6. /\ h \in Hooks /\ h.pc = pc /\ h.parent = TraceIn(f) /\ h.kind = hook[k].kind
      /\ h.trace = hook[k].trace /\ h.clean = hook[k].clean /\ h.verdict = hook[k].verdict
    BY <1>1, <1>3 DEF Hooks, HookPlaces
<1> HIDE DEF h
<1>7. Moves(k, h) /\ hook'[k] = h
    BY <1>1, <1>2, <1>3, <1>6 DEF Moves, Running, Looking
<1>8. HasWritten(k)'
    BY <1>3, <1>6, <1>7 DEF HasWritten
<1>9. ASSUME NEW trace \in Nat \ {0}, FilesName(trace), h.pc # "lookAside"
      PROVE  h.parent = trace
    BY <1>3, <1>5, <1>6, <1>9, HookAssumption DEF FilesName, TraceIn, Emptied
<1>10. LinkInv'
    <2>1. ~Looking(k)' => h.pc # "lookAside"
        BY <1>7 DEF Looking
    <2> QED
        BY <1>2, <1>3, <1>6, <1>7, <1>8, <1>9, <2>1, MoveKeepsLinks DEF HookInv
<1> QED
    BY <1>1, <1>2, <1>3, <1>6, <1>7, <1>10, SilentMove DEF Looking, At, Told, HookInv, HookTypes

(* A file is emptied, ...                                                   *)
LEMMA OpenKeeps ==
    ASSUME HookInv, NEW k \in Turns, OpenFile(k)
    PROVE  HookInv'
<1>1. PICK f \in {"sidecar", "lastTrace"} :
         /\ At(k, f) /\ files' = [files EXCEPT ![f] = Emptied]
         /\ Goto(k, OpenAt[f]) /\ ServerUnchanged
    BY DEF OpenFile, OpenAt
<1> DEFINE h == [hook[k] EXCEPT !.pc = OpenAt[f]]
<1>2. OpenAt[f] \in {"sidecarOpen", "lastTraceOpen"} /\ (f = "sidecar" <=> OpenAt[f] = "sidecarOpen")
    BY DEF OpenAt
<1>3. /\ Moves(k, h) /\ hook'[k] = h /\ hook'[k].pc = OpenAt[f]
      /\ hook'[k].kind = hook[k].kind
      /\ hook'[k].parent = hook[k].parent /\ hook'[k].verdict = hook[k].verdict
      /\ hook'[k].trace = hook[k].trace /\ hook'[k].clean = hook[k].clean
    BY <1>1, <1>2, GotoMoves DEF HookInv, HookTypes, HookPlaces, Running, At, Moves
<1> HIDE DEF h
<1>4. files' \in [{"sidecar", "lastTrace"} -> Nat \cup {None}]
    BY <1>1 DEF HookInv, HookTypes, Emptied
<1>5. HasWritten(k)'
    BY <1>1, <1>2, <1>3 DEF HookInv, LinkInv, HasWritten, FilesName, At, HookTypes
<1>6. ~Looking(k) /\ ~Looking(k)'
    BY <1>1, <1>2, <1>3 DEF Looking, At
<1>7. LinkInv'
    BY <1>1, <1>2, <1>3, <1>5, <1>6, MoveKeepsLinks DEF HookInv
<1> QED
    BY <1>1, <1>2, <1>3, <1>4, <1>7, SilentMove DEF At, Told

(* ... and written, the sidecar before the last trace.                      *)
LEMMA WriteKeeps ==
    ASSUME HookInv, NEW k \in Turns, WriteFile(k)
    PROVE  HookInv'
<1>1. PICK f \in {"sidecar", "lastTrace"} :
         /\ At(k, OpenAt[f]) /\ Goto(k, AfterFile(k, f)) /\ ServerUnchanged
         /\ \E text \in Texts(hook[k], f) : files' = [files EXCEPT ![f] = text]
    BY DEF WriteFile, OpenAt
<1>2. PICK text \in Texts(hook[k], f) : files' = [files EXCEPT ![f] = text]
    BY <1>1
<1> DEFINE h == [hook[k] EXCEPT !.pc = AfterFile(k, f)]
<1>3. /\ AfterFile(k, f) \in {"lastTrace", "accept", "record", "release"}
      /\ AfterFile(k, f) = "lastTrace" => f = "sidecar"
      /\ AfterFile(k, f) = "accept" => hook[k].verdict # "same"
      /\ AfterFile(k, f) # "lastTrace" /\ f = "sidecar" => hook[k].trace = None
    BY AfterPlaces DEF HookInv
<1>4. /\ f = "sidecar" => At(k, "sidecarOpen")
      /\ f = "lastTrace" => At(k, "lastTraceOpen")
    BY <1>1 DEF OpenAt
<1>5. /\ Moves(k, h) /\ hook'[k] = h /\ hook'[k].pc = AfterFile(k, f)
      /\ hook'[k].kind = hook[k].kind
      /\ hook'[k].parent = hook[k].parent /\ hook'[k].verdict = hook[k].verdict
      /\ hook'[k].trace = hook[k].trace /\ hook'[k].clean = hook[k].clean
    BY <1>1, <1>3, <1>4, GotoMoves DEF HookInv, HookTypes, HookPlaces, Running, At, Moves
<1> HIDE DEF h
<1>6. /\ hook[k].trace \in Nat \cup {None}
      /\ text \in Nat \cup {None}
      /\ text = hook[k].trace \/ (f = "lastTrace" /\ text = Emptied)
    BY <1>2 DEF HookInv, HookTypes, Hooks, Texts, Emptied
<1>7. files' \in [{"sidecar", "lastTrace"} -> Nat \cup {None}]
    BY <1>2, <1>6 DEF HookInv, HookTypes
<1>8. HasWritten(k)'
    <2>1. HasWritten(k)
        BY DEF HookInv, LinkInv
    <2>2. /\ f = "sidecar" => files'["sidecar"] = hook[k].trace
          /\ f = "lastTrace" => /\ files'["sidecar"] = files["sidecar"]
                                /\ files'["lastTrace"] \in {hook[k].trace, Emptied}
        BY <1>2, <1>6 DEF HookInv, HookTypes
    <2> QED
        BY <1>3, <1>4, <1>5, <2>1, <2>2 DEF HasWritten, FilesName, At
<1>9. ~Looking(k) /\ ~Looking(k)'
    BY <1>3, <1>4, <1>5 DEF Looking, At
<1>10. LinkInv'
    BY <1>3, <1>4, <1>5, <1>8, <1>9, MoveKeepsLinks DEF HookInv
<1> QED
    BY <1>1, <1>3, <1>4, <1>5, <1>7, <1>10, SilentMove DEF At, Told

(* A file that cannot be written makes the turn unclean.                    *)
LEMMA ErrorKeeps ==
    ASSUME HookInv, NEW k \in Turns, FileError(k)
    PROVE  HookInv'
<1>1. PICK f \in {"sidecar", "lastTrace"} :
         /\ At(k, f) \/ At(k, OpenAt[f])
         /\ hook' = [hook EXCEPT ![k].clean = FALSE, ![k].pc = AfterFile(k, f)]
         /\ UNCHANGED files /\ ServerUnchanged
    BY DEF FileError, OpenAt
<1> DEFINE h == [hook[k] EXCEPT !.clean = FALSE, !.pc = AfterFile(k, f)]
<1>2. /\ AfterFile(k, f) \in {"lastTrace", "accept", "record", "release"}
      /\ AfterFile(k, f) = "accept" => hook[k].verdict # "same"
    BY AfterPlaces DEF HookInv
<1>3. hook[k].pc \in {"sidecar", "sidecarOpen", "lastTrace", "lastTraceOpen"}
    BY <1>1 DEF OpenAt, At
<1>4. /\ h \in Hooks /\ h.pc = AfterFile(k, f) /\ h.clean = FALSE
      /\ h.kind = hook[k].kind /\ h.verdict = hook[k].verdict
      /\ hook' = [hook EXCEPT ![k] = h] /\ hook'[k] = h
    BY <1>1, <1>2 DEF HookInv, HookTypes, Hooks, HookPlaces
<1> HIDE DEF h
<1>5. Moves(k, h)
    BY <1>2, <1>3, <1>4 DEF Moves, Running
<1>6. HasWritten(k)'
    BY <1>4 DEF HasWritten
<1>7. LinkInv'
    BY <1>1, <1>4, <1>5, <1>6, MoveKeepsLinks DEF HookInv
<1> QED
    BY <1>1, <1>2, <1>3, <1>4, <1>5, <1>7, SilentMove DEF At, Told, HookInv, HookTypes

(* The prompt goes on, and a clean turn has written both files.             *)
LEMMA ReleaseKeeps ==
    ASSUME HookInv, NEW k \in Turns, Release(k)
    PROVE  HookInv'
<1> DEFINE h == Over(hook[k])
<1>1. /\ At(k, "release") /\ hook' = [hook EXCEPT ![k] = h] /\ files' = files /\ ServerUnchanged
    BY DEF Release
<1>2. /\ h \in Hooks /\ h.pc = "over" /\ h.kind = hook[k].kind /\ h.verdict = hook[k].verdict
      /\ h.clean = hook[k].clean
      /\ h.clean => h.parent = hook[k].parent /\ h.trace = hook[k].trace
    BY DEF HookInv, HookTypes, Hooks, HookPlaces, Over
<1>3. hook'[k] = h
    BY <1>1 DEF HookInv, HookTypes
<1> HIDE DEF h
<1>4. Moves(k, h)
    BY <1>1, <1>2 DEF Moves, Running, At
<1>5. HasWritten(k)'
    BY <1>2, <1>3 DEF HasWritten
<1>6. h.clean /\ h.trace # None => FilesName(h.trace)
    BY <1>1, <1>2 DEF HookInv, LinkInv, HasWritten, At
<1>7. ~Looking(k)
    BY <1>1 DEF Looking, At
<1>8. LinkInv'
    BY <1>1, <1>2, <1>3, <1>4, <1>5, <1>6, <1>7, MoveKeepsLinks DEF HookInv, Looking
<1> QED
    BY <1>1, <1>2, <1>4, <1>8, SilentMove DEF At, Told, HookInv, HookTypes

(* What a call that nobody waits for may still do.                          *)
LEMMA LeavingCalls ==
    ASSUME HookInv, NEW k \in Turns, hook[k].pc \in Calling, LeaveCall(k)
    PROVE  /\ Calls(k) /\ rows' = rows
           /\ \A n \in abandoned' : n \in abandoned \/ (n = k /\ At(k, "accept"))
           /\ \A e \in feedback' :
                 e \in feedback \/ (/\ e.turn = k /\ At(k, "record")
                                    /\ e.kept <=> hook[k].verdict # "review")
<1>1. /\ rows' = rows
      /\ abandoned' = abandoned \/ (At(k, "accept") /\ abandoned' = abandoned \cup {k})
      /\ feedback' = feedback \/ (At(k, "record") /\ Record(k))
      /\ serving' = IF serving = k THEN None ELSE serving
    BY DEF LeaveCall
<1>2. None \notin Turns
    BY HookAssumption DEF Turns
<1>3. KeptAsIs(k) \in BOOLEAN /\ (KeptAsIs(k) <=> hook[k].verdict # "review")
    BY DEF KeptAsIs
<1>4. Record(k) => feedback' = feedback \cup {[turn |-> k, kept |-> KeptAsIs(k)]}
    BY DEF Record
<1>5. feedback' \subseteq [turn : Turns, kept : BOOLEAN]
    BY <1>1, <1>3, <1>4 DEF HookInv, HookTypes
<1> QED
    BY <1>1, <1>2, <1>3, <1>4, <1>5 DEF Calls, HookInv, HookTypes

\* A move that ends a call.
LEMMA CallMove ==
    ASSUME HookInv, NEW k \in Turns, NEW h, Moves(k, h), h.clean => hook[k].clean,
           hook[k].pc \in Calling, files' = files, Calls(k),
           \/ h.kind = "failed"
           \/ /\ h.kind = hook[k].kind
              /\ hook[k].pc \in Told => h.verdict = hook[k].verdict /\ h.pc \in Told
              /\ h.pc # "accept",
           At(k, "accept") => h.pc \in Told,
           At(k, "record") => h.kind = "failed" \/ h.pc \in {"release", "over"},
           LinkInv',
           \A n \in abandoned' : n \in abandoned \/ (n = k /\ At(k, "accept")),
           \/ rows' = rows
           \/ \E n \in Turns : Accepting(n) /\ Marks(n),
           \A e \in feedback' :
              e \in feedback \/ (/\ e.turn = k /\ At(k, "record")
                                 /\ e.kept <=> hook[k].verdict # "review")
    PROVE  HookInv'
<1>1. HookTypes' /\ WaitsFit' /\ TurnsInOrder'
    BY MoveKeepsBase DEF HookInv, HookTypes
<1>2. (\A n \in Turns \ {k} : hook'[n] = hook[n]) /\ hook'[k] = h
    BY DEF HookInv, HookTypes, Moves
<1>3. \A n \in Turns : Onward(n)
    <2> TAKE n \in Turns
    <2>1. CASE n = k
        BY <1>2, <2>1 DEF Onward, Calling
    <2>2. CASE n # k
        BY <1>2, <2>2 DEF Onward, HookInv, SignalInv, AcceptsFit, TookOne, At
    <2> QED
        BY <2>1, <2>2
<1>4. \A n \in abandoned' : Accepting(n) /\ (At(n, "accept") => hook'[n].pc \in Told)
    BY <1>2 DEF Accepting, At, HookInv, HookTypes, Told
<1>5. \A e \in feedback' :
         \/ e \in feedback
         \/ /\ At(e.turn, "record") /\ e.turn \in Turns
            /\ e.kept <=> hook[e.turn].verdict # "review"
            /\ hook'[e.turn].kind # "failed" => hook'[e.turn].pc \in {"release", "over"}
    BY <1>2
<1>6. SignalInv'
    BY <1>3, <1>4, <1>5, StepKeepsSignals DEF HookInv, Calls
<1> QED
    BY <1>1, <1>6 DEF HookInv

(* A hook fails open, by itself or because it is killed.                    *)
LEMMA FailKeeps ==
    ASSUME HookInv, NEW k \in Turns, hook[k].pc \in Calling, LeaveCall(k), files' = files,
           hook' = [hook EXCEPT ![k] = FailOpen(@)]
    PROVE  HookInv'
<1>1. Running(k)
    BY DEF Running, Calling
<1>2. /\ Moves(k, FailOpen(hook[k])) /\ hook'[k] = FailOpen(hook[k])
      /\ hook'[k].pc = "over" /\ hook'[k].kind = "failed" /\ hook'[k].clean = FALSE
    BY <1>1, FailMoves DEF HookInv, HookTypes
<1>3. HasWritten(k)'
    BY <1>2 DEF HasWritten
<1>4. LinkInv'
    BY <1>2, <1>3, MoveKeepsLinks DEF HookInv
<1>5. (\A n \in abandoned' : n \in abandoned \/ (n = k /\ At(k, "accept"))) /\ rows' = rows /\ Calls(k)
    BY LeavingCalls
<1> QED
    BY <1>2, <1>4, <1>5, LeavingCalls, CallMove DEF Told

\* A call returns, or is given up, and the turn goes on to the next thing.
LEMMA GoingOnKeeps ==
    ASSUME HookInv, NEW k \in Turns, NEW pc \in {"record", "release"},
           At(k, "accept") \/ (At(k, "record") /\ pc = "release"),
           Goto(k, pc), files' = files, Calls(k),
           \A n \in abandoned' : n \in abandoned \/ (n = k /\ At(k, "accept")),
           \/ rows' = rows
           \/ \E n \in Turns : Accepting(n) /\ Marks(n),
           \A e \in feedback' :
              e \in feedback \/ (/\ e.turn = k /\ At(k, "record")
                                 /\ e.kept <=> hook[k].verdict # "review")
    PROVE  HookInv'
<1> DEFINE h == [hook[k] EXCEPT !.pc = pc]
<1>1. /\ Moves(k, h) /\ hook'[k] = h /\ hook'[k].pc = pc /\ hook'[k].kind = hook[k].kind
      /\ hook'[k].parent = hook[k].parent /\ hook'[k].verdict = hook[k].verdict
      /\ hook'[k].trace = hook[k].trace /\ hook'[k].clean = hook[k].clean
    BY GotoMoves DEF HookInv, HookTypes, HookPlaces, Running, At, Moves
<1> HIDE DEF h
<1>2. HasWritten(k)'
    BY <1>1 DEF HookInv, LinkInv, HasWritten, FilesName, At
<1>3. LinkInv'
    BY <1>1, <1>2, MoveKeepsLinks DEF HookInv, Looking, At
<1> QED
    BY <1>1, <1>3, CallMove DEF Calling, Told, At

(* A call fails or lasts too long.                                          *)
LEMMA GiveUpKeeps ==
    ASSUME HookInv, NEW k \in Turns, GiveUp(k)
    PROVE  HookInv'
<1>1. hook[k].pc \in Calling /\ LeaveCall(k) /\ files' = files
    BY DEF GiveUp, MayFail
<1>2. CASE At(k, "ask")
    <2>1. hook' = [hook EXCEPT ![k] = FailOpen(@)]
        BY <1>2 DEF GiveUp, At
    <2> QED
        BY <1>1, <2>1, FailKeeps
<1>3. CASE At(k, "accept")
    <2>1. Goto(k, AfterAccept(k)) /\ AfterAccept(k) \in {"record", "release"}
        BY <1>3 DEF GiveUp, At, Goto, AfterAccept
    <2> QED
        BY <1>1, <1>3, <2>1, LeavingCalls, GoingOnKeeps
<1>4. CASE At(k, "record")
    <2>1. Goto(k, "release")
        BY <1>4 DEF GiveUp, At, Goto
    <2> QED
        BY <1>1, <1>4, <2>1, LeavingCalls, GoingOnKeeps
<1> QED
    BY <1>1, <1>2, <1>3, <1>4 DEF Calling, At

(* The server answers.                                                      *)
LEMMA AnswerKeeps ==
    ASSUME HookInv, NEW k \in Turns, Answer(k)
    PROVE  HookInv'
<1>1. PICK trace \in LatestTraces(k), verdict \in {"same", "apply", "review"} :
         hook' = [hook EXCEPT ![k].trace = trace, ![k].verdict = verdict, ![k].pc = "sidecar"]
    BY DEF Answer
<1>2. /\ serving = k /\ serving' = None /\ UNCHANGED <<files, abandoned, rows, feedback>>
      /\ At(k, "ask")
    BY DEF Answer, HookInv, WaitsFit
<1>3. trace \in (Nat \ {0}) \cup {None}
    <2>1. rows # <<>> => Len(rows) \in Nat \ {0}
        BY DEF HookInv, HookTypes
    <2> QED
        BY <2>1 DEF LatestTraces
<1> DEFINE h == [hook[k] EXCEPT !.trace = trace, !.verdict = verdict, !.pc = "sidecar"]
<1>4. /\ h \in Hooks /\ h.pc = "sidecar" /\ h.kind = hook[k].kind
      /\ h.clean = hook[k].clean /\ h.parent = hook[k].parent
      /\ hook' = [hook EXCEPT ![k] = h] /\ hook'[k] = h
    BY <1>1, <1>3 DEF HookInv, HookTypes, Hooks, HookPlaces
<1> HIDE DEF h
<1>5. Moves(k, h)
    BY <1>2, <1>4 DEF Moves, Running, At
<1>6. HasWritten(k)'
    BY <1>4 DEF HasWritten
<1>7. LinkInv'
    BY <1>2, <1>4, <1>5, <1>6, MoveKeepsLinks DEF HookInv, Looking, At
<1>8. Calls(k)
    BY <1>2, HookAssumption DEF Calls, HookInv, HookTypes, Turns
<1> QED
    BY <1>2, <1>4, <1>5, <1>7, <1>8, CallMove DEF Calling, Told, At

(* The server marks a row, perhaps for a hook that has left.                *)
LEMMA MarkKeeps ==
    ASSUME HookInv, NEW k \in Turns, MarkAccepted(k)
    PROVE  HookInv'
<1>1. /\ serving = None /\ UNCHANGED <<files, serving, feedback>>
      /\ Accepting(k) /\ Marks(k)
    BY DEF MarkAccepted, Marks, Accepting
<1>2. rows' \in Seq(HookRows)
    <2>1. CASE rows = <<>>
        BY <1>1, <2>1 DEF Marks, HookInv, HookTypes
    <2>2. CASE rows # <<>>
        BY <1>1, <2>2, MarkedRows DEF HookInv
    <2> QED
        BY <2>1, <2>2
<1>3. abandoned' \subseteq abandoned
    BY DEF MarkAccepted
<1>4. CASE At(k, "accept") /\ Goto(k, AfterAccept(k))
    <2>1. AfterAccept(k) \in {"record", "release"}
        BY DEF AfterAccept
    <2>2. Calls(k)
        BY <1>1, <1>2, <1>3, HookAssumption DEF Calls, HookInv, HookTypes, Turns
    <2> QED
        BY <1>1, <1>3, <1>4, <2>1, <2>2, GoingOnKeeps
<1>5. CASE hook' = hook
    <2>1. TurnsInOrder' /\ LinkInv' /\ \A n \in Turns : Onward(n)
        BY <1>1, <1>5, QuietHooks
    <2>2. HookTypes' /\ WaitsFit'
        BY <1>1, <1>2, <1>3, <1>5 DEF HookInv, HookTypes, WaitsFit, At
    <2>3. \A n \in abandoned' : Accepting(n) /\ (At(n, "accept") => hook'[n].pc \in Told)
        BY <1>3, <1>5 DEF Accepting, At, Told
    <2>4. SignalInv'
        <3>1. abandoned' \subseteq Turns /\ \A e \in feedback' : e \in feedback
            BY <1>1, <1>3 DEF HookInv, HookTypes
        <3> QED
            BY <1>1, <2>1, <2>3, <3>1, StepKeepsSignals DEF HookInv
    <2> QED
        BY <2>1, <2>2, <2>4 DEF HookInv
<1> QED
    BY <1>4, <1>5 DEF MarkAccepted

(* The server records an edit.                                              *)
LEMMA RecordKeeps ==
    ASSUME HookInv, NEW k \in Turns, RecordEdit(k)
    PROVE  HookInv'
<1>1. /\ At(k, "record") /\ Record(k) /\ Goto(k, "release") /\ serving = None
      /\ UNCHANGED <<files, abandoned, serving, rows>>
    BY DEF RecordEdit
<1>2. KeptAsIs(k) \in BOOLEAN /\ (KeptAsIs(k) <=> hook[k].verdict # "review")
    BY DEF KeptAsIs
<1>3. /\ feedback' \subseteq [turn : Turns, kept : BOOLEAN]
      /\ \A e \in feedback' :
            e \in feedback \/ (e.turn = k /\ (e.kept <=> hook[k].verdict # "review"))
    BY <1>1, <1>2 DEF Record, HookInv, HookTypes
<1>4. Calls(k)
    BY <1>1, <1>3, HookAssumption DEF Calls, HookInv, HookTypes, Turns
<1> QED
    BY <1>1, <1>3, <1>4, GoingOnKeeps

\* Rows that are written, and an improvement that begins.
LEMMA ServingKeeps ==
    ASSUME HookInv,
           \/ OthersWrite
           \/ \E k \in Turns : WriteRow(k) \/ StartImproving(k)
    PROVE  HookInv'
<1>1. UNCHANGED <<hook, files, abandoned, feedback>>
    BY DEF OthersWrite, WriteRow, StartImproving
<1>2. \/ rows' = rows
      \/ \E owner \in Turns \cup {None} :
            AppendRow(owner) /\ (owner # None => At(owner, "ask"))
    BY DEF OthersWrite, WriteRow, StartImproving, HookInv, WaitsFit
<1>3. rows' \in Seq(HookRows)
    BY <1>2, AppendedRows DEF HookInv, HookTypes
<1>4. /\ serving' \in Turns \cup {None}
      /\ \A n \in Turns : serving' = n => At(n, "ask")
    BY DEF OthersWrite, WriteRow, StartImproving, HookInv, HookTypes, WaitsFit
<1>5. HookTypes' /\ WaitsFit'
    BY <1>1, <1>3, <1>4 DEF HookInv, HookTypes, WaitsFit, At
<1>6. TurnsInOrder' /\ LinkInv' /\ \A n \in Turns : Onward(n)
    BY <1>1, QuietHooks
<1>7. SignalInv'
    <2>1. abandoned' \subseteq Turns /\ \A e \in feedback' : e \in feedback
        BY <1>1 DEF HookInv, HookTypes
    <2>2. \A n \in abandoned' : Accepting(n) /\ (At(n, "accept") => hook'[n].pc \in Told)
        BY <1>1 DEF Accepting, At, Told
    <2> QED
        BY <1>2, <1>6, <2>1, <2>2, StepKeepsSignals DEF HookInv
<1> QED
    BY <1>5, <1>6, <1>7 DEF HookInv

(* A prompt is submitted.                                                   *)
LEMMA SubmitKeeps ==
    ASSUME HookInv, NEW k \in Turns, Submit(k)
    PROVE  HookInv'
<1>1. ServerUnchanged /\ files' = files
    BY DEF Submit
<1>2. /\ At(k, "new") /\ hook' \in [Turns -> Hooks] /\ hook'[k].kind # "none"
      /\ hook'[k].pc \in {"look", "over"} /\ hook[k].kind = "none"
      /\ \A m \in Turns \ {k} : /\ hook'[m].pc = hook[m].pc /\ hook'[m].kind = hook[m].kind
                                /\ hook'[m].verdict = hook[m].verdict
    BY SubmitMoves DEF HookInv, WaitsFit
<1>3. HookTypes' /\ WaitsFit'
    BY <1>1, <1>2 DEF HookInv, HookTypes, WaitsFit, ServerUnchanged, serverVars, At
<1>4. TurnsInOrder' /\ LinkInv'
    BY SubmitKeepsOrder, SubmitKeepsLinks DEF HookInv
<1>5. \A n \in Turns : Onward(n)
    <2> TAKE n \in Turns
    <2>1. CASE n = k
        BY <1>2, <2>1 DEF Onward, At, Told
    <2>2. CASE n # k
        BY <1>2, <2>2 DEF Onward, HookInv, SignalInv, AcceptsFit, TookOne, At
    <2> QED
        BY <2>1, <2>2
<1>6. SignalInv'
    <2>1. abandoned' = abandoned /\ abandoned' \subseteq Turns /\ rows' = rows /\ feedback' = feedback
        BY <1>1 DEF ServerUnchanged, serverVars, HookInv, HookTypes
    <2>2. \A n \in abandoned' : Accepting(n) /\ (At(n, "accept") => hook'[n].pc \in Told)
        BY <1>2, <2>1 DEF Accepting, At, Told
    <2> QED
        BY <1>5, <2>1, <2>2, StepKeepsSignals DEF HookInv
<1> QED
    BY <1>3, <1>4, <1>6 DEF HookInv

(* Every step keeps the invariant.                                          *)
LEMMA HookStep == HookInv /\ [HookNext]_hookVars => HookInv'
<1> SUFFICES ASSUME HookInv, [HookNext]_hookVars
             PROVE  HookInv'
    OBVIOUS
<1>1. ASSUME NEW k \in Turns, Kill(k)
      PROVE  HookInv'
    BY <1>1, FailKeeps DEF Kill
<1>2. ASSUME NEW k \in Turns, HookGoesOn(k)
      PROVE  HookInv'
    BY <1>2, ReadKeeps, GiveUpKeeps, OpenKeeps, WriteKeeps, ErrorKeeps, ReleaseKeeps
       DEF HookGoesOn
<1>3. ASSUME NEW k \in Turns, Server(k)
      PROVE  HookInv'
    BY <1>3, ServingKeeps, AnswerKeeps, MarkKeeps, RecordKeeps DEF Server
<1>4. CASE UNCHANGED hookVars
    <2>1. UNCHANGED <<hook, files, abandoned, serving, rows, feedback>>
        BY <1>4 DEF hookVars, serverVars
    <2>2. TurnsInOrder' /\ LinkInv'
        BY <2>1, QuietHooks
    <2>3. HookTypes' /\ WaitsFit'
        BY <2>1 DEF HookInv, HookTypes, WaitsFit, At
    <2>4. SignalInv'
        BY <2>1 DEF HookInv, SignalInv, AcceptsFit, MarksFit, EditsFit, TookOne, RowsOf, At
    <2> QED
        BY <2>2, <2>3, <2>4 DEF HookInv
<1> QED
    BY <1>1, <1>2, <1>3, <1>4, SubmitKeeps, ServingKeeps DEF HookNext

(* It holds initially.                                                      *)
LEMMA HookStart == HookInit => HookInv
<1> SUFFICES ASSUME HookInit
             PROVE  HookInv
    OBVIOUS
<1>1. NewTurn \in Hooks /\ NewTurn.pc = "new" /\ NewTurn.kind = "none"
    BY DEF NewTurn, Hooks, HookPlaces
<1>2. /\ hook \in [Turns -> Hooks]
      /\ \A n \in Turns : hook[n].pc = "new" /\ hook[n].kind = "none"
    BY <1>1 DEF HookInit
<1>3. /\ files \in [{"sidecar", "lastTrace"} -> Nat \cup {None}]
      /\ abandoned = {} /\ serving = None /\ rows = <<>> /\ feedback = {} /\ None \notin Turns
    BY HookAssumption DEF HookInit, Turns
<1>4. HookTypes /\ WaitsFit
    BY <1>2, <1>3 DEF HookTypes, WaitsFit, HookRows
<1>5. TurnsInOrder
    BY <1>2 DEF TurnsInOrder, At, Running
<1>6. LinkInv
    BY <1>2 DEF LinkInv, HasWritten, FilesAwait, LinkedTo, PassesOn, At
<1>7. SignalInv
    BY <1>2, <1>3 DEF SignalInv, AcceptsFit, MarksFit, EditsFit, At
<1> QED
    BY <1>4, <1>5, <1>6, <1>7 DEF HookInv

(* So it always holds; fairness is not needed.                              *)
LEMMA HooksKeepInv == HookSpec => []HookInv
BY HookStart, HookStep, PTL DEF HookSpec

(* A turn names the trace of the turn before, however turns overlap, files  *)
(* fail and hooks are killed: only turns that overlapped, lost a file or    *)
(* got no trace are exempt (_read_prior_trace_id, _write_last_trace).       *)
THEOREM HooksLinkTurns == HookSpec => []TurnsAreLinked
<1>1. HookInv => TurnsAreLinked
    BY LinksAreTurns DEF HookInv
<1> QED
    BY <1>1, HooksKeepInv, PTL

(* What hooks report of their prompts is true, whatever calls were left     *)
(* behind and served late: an improvement is marked as taken only if it     *)
(* changed the text, and an edit as kept only if it was not under review.   *)
THEOREM HooksTellTheTruth == HookSpec => []SignalsAreTrue
<1>1. HookInv => SignalsAreTrue
    BY SignalsFollow DEF HookInv
<1> QED
    BY <1>1, HooksKeepInv, PTL

================================================================================
