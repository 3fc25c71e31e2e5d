------------------------------ MODULE ImproverProofs ------------------------------
(****************************************************************************)
(* Proofs about the improver (Improver).  What it serves: every outcome of  *)
(* an answer is faithful to the original (Validation), hence so is          *)
(* everything that a call returns or finds in a cache, however the calls,   *)
(* the workers and the caches are interleaved.  And what it records: a row  *)
(* is told the outcome of its own call as long as no other call writes.     *)
(****************************************************************************)
EXTENDS Improver, FiniteSetTheorems, TLAPS

-------------------------------------------------------------------------------
(* What is salvaged has been compared with the original: its numbers and
   quotations are there on each of the ways to salvage it (salvage.py).     *)
LEMMA SalvageCompares ==
    ASSUME NEW a \in Answers
    PROVE  /\ TrySalvage(a) => a.changed /\ a.numbers /\ a.quotes /\ Structured(a)
           /\ SalvageOmitted(a) => /\ a.numbers /\ a.quotes
                                   /\ a.modals \/ Structured(a)
BY DEF Answers, TrySalvage, SalvageOmitted, Respecified, Structured

LEMMA SalvagedIsFaithful ==
    ASSUME NEW a \in Answers, Salvaged(a)
    PROVE  Faithful(a)
<1>1. CASE TrySalvage(a)
  BY <1>1, SalvageCompares DEF Faithful
<1>2. CASE SalvageOmitted(a)
  BY <1>2, SalvageCompares DEF Faithful
<1> QED
  BY <1>1, <1>2 DEF Salvaged, SalvageFailure, Refusal, Faithful

LEMMA ValidIsFaithful ==
    ASSUME NEW a \in Answers, Refusal(a) = "none"
    PROVE  Faithful(a)
<1>1. CASE a.cited
  BY <1>1 DEF Answers, Refusal, FailureReason, Faithful
<1>2. CASE ~a.cited
  BY <1>2, SalvageCompares DEF Answers, Refusal, Faithful
<1> QED
  BY <1>1, <1>2

(* Whatever the model answers, the text that is made of it is faithful to the
   original (_process_improve_completion, _handle_improve_parse_error).     *)
THEOREM OutcomesAreFaithful == \A o \in Outcomes : o.faithful = TRUE
<1> SUFFICES ASSUME NEW a \in Answers, NEW o \in OutcomesOf(a)
             PROVE  o.faithful = TRUE
  BY DEF Outcomes
<1>1. CASE o \in FromJson(a)
  <2>1. Faithful(a) \in BOOLEAN
    BY DEF Faithful
  <2>2. Refusal(a) = "none" \/ Salvaged(a) => Faithful(a) = TRUE
    BY <2>1, SalvagedIsFaithful, ValidIsFaithful
  <2> QED
    BY <1>1, <2>2 DEF FromJson, Outcome
<1>2. CASE o \in FromSpec(a)
  <2>1. SalvagedSpec(a) => Faithful(a)
    BY SalvageCompares DEF SalvagedSpec, Faithful, Structured
  <2>2. (SalvagedSpec(a) => Faithful(a)) = TRUE
    BY <2>1
  <2>3. o = Outcome("repaired", TRUE)
    BY <1>2, <2>2 DEF FromSpec
  <2> QED
    BY <2>3 DEF Outcome
<1> QED
  BY <1>1, <1>2 DEF OutcomesOf

-------------------------------------------------------------------------------
(* Entries and calls *)

\* Faithful entries whose age and remaining time add up to at most n
Recent(n) == {e \in [age : Nat, left : 0..TTL, faithful : {TRUE}] : e.age + e.left <= n}

Fields == {"n", "pc", "key", "accepted", "kind", "stub", "alone", "age", "faithful"}

\* A call that serves, or will serve, a faithful text that is recent enough
Sound(c) ==
    /\ DOMAIN c = Fields
    /\ c.faithful = TRUE
    /\ c.age \in Nat /\ c.age <= 2 * TTL
    /\ c.pc = "lookup" => c.key \in Keys

(* The induction hypothesis: the table holds entries of one lifetime, the   *)
(* dictionaries of two, and every call is sound.                            *)
CachesSound == /\ memory \in [Processes -> [Keys -> Recent(2 * TTL) \cup {Null}]]
               /\ disk \in [Keys -> Recent(TTL) \cup {Null}]

CallsSound == /\ DOMAIN call = Processes
              /\ \A p \in Processes : Sound(call[p])

ServingInv == CachesSound /\ CallsSound

LEMMA EntryFields ==
    ASSUME NEW n, NEW e \in Recent(n)
    PROVE  /\ e = [age |-> e.age, left |-> e.left, faithful |-> e.faithful]
           /\ e.age \in Nat /\ e.left \in 0..TTL /\ e.faithful = TRUE
           /\ e.age + e.left <= n
<1>1. e \in [age : Nat, left : 0..TTL, faithful : {TRUE}] /\ e.age + e.left <= n
  BY DEF Recent
<1>2. e.faithful \in {TRUE}
  BY <1>1
<1> QED
  BY <1>1, <1>2

LEMMA EntryIsRecent ==
    ASSUME NEW n, NEW age \in Nat, NEW left \in 0..TTL, age + left <= n
    PROVE  [age |-> age, left |-> left, faithful |-> TRUE] \in Recent(n)
<1> DEFINE r == [age |-> age, left |-> left, faithful |-> TRUE]
<1>1. r \in [age : Nat, left : 0..TTL, faithful : {TRUE}]
  OBVIOUS
<1>2. r.age = age /\ r.left = left
  OBVIOUS
<1> HIDE DEF r
<1>3. r \in Recent(n)
  BY <1>1, <1>2 DEF Recent
<1> QED
  BY <1>3 DEF r

LEMMA FreshEntry ==
    ASSUME NEW f, f = TRUE
    PROVE  Entry(0, f) \in Recent(TTL) /\ Entry(0, f) \in Recent(2 * TTL)
BY CacheAssumption, EntryIsRecent DEF Entry

(* An entry of the table that is armed again has two lifetimes at most.     *)
LEMMA ArmedEntry ==
    ASSUME NEW e \in Recent(TTL)
    PROVE  /\ Entry(e.age, e.faithful) \in Recent(2 * TTL)
           /\ e.age \in Nat /\ e.age <= 2 * TTL /\ e.faithful = TRUE
<1>1. /\ e.age \in Nat /\ e.left \in 0..TTL /\ e.faithful = TRUE
      /\ e.age + e.left <= TTL
  BY EntryFields
<1>2. e.age + TTL <= 2 * TTL /\ e.age <= 2 * TTL
  BY <1>1, CacheAssumption
<1>3. Entry(e.age, e.faithful) = [age |-> e.age, left |-> TTL, faithful |-> e.faithful]
  BY DEF Entry
<1>4. TTL \in 0..TTL
  BY CacheAssumption
<1>6. Entry(e.age, e.faithful) \in Recent(2 * TTL)
  BY <1>1, <1>2, <1>3, <1>4, EntryIsRecent
<1> QED
  BY <1>1, <1>2, <1>6

LEMMA HeldEntry ==
    ASSUME NEW e \in Recent(2 * TTL)
    PROVE  e.age \in Nat /\ e.age <= 2 * TTL /\ e.faithful = TRUE
<1>1. /\ e.age \in Nat /\ e.left \in 0..TTL /\ e.faithful = TRUE
      /\ e.age + e.left <= 2 * TTL
  BY EntryFields
<1> QED
  BY <1>1, CacheAssumption

(* Time moves from what is left to the age.                                 *)
LEMMA OlderEntry ==
    ASSUME NEW n \in Nat, NEW e \in Recent(n) \cup {Null}
    PROVE  Older(e) \in Recent(n) \cup {Null}
<1>1. CASE e = Null \/ e.left = 0
  BY <1>1 DEF Older
<1>2. CASE e # Null /\ e.left # 0
  <2>1. /\ e = [age |-> e.age, left |-> e.left, faithful |-> e.faithful]
        /\ e.age \in Nat /\ e.left \in 0..TTL /\ e.faithful = TRUE
        /\ e.age + e.left <= n
    BY <1>2, EntryFields
  <2>2. /\ e.age + 1 \in Nat /\ e.left - 1 \in 0..TTL
        /\ (e.age + 1) + (e.left - 1) <= n
    BY <1>2, <2>1, CacheAssumption
  <2> QED
    BY <1>2, <2>1, <2>2, EntryIsRecent DEF Older
<1> QED
  BY <1>1, <1>2

(* The table and the dictionaries age together.                             *)
LEMMA PassKeepsCaches ==
    ASSUME CachesSound, Pass
    PROVE  CachesSound'
<1>1. TTL \in Nat /\ 2 * TTL \in Nat
  BY CacheAssumption
<1>2. \A p \in Processes, k \in Keys : Older(memory[p][k]) \in Recent(2 * TTL) \cup {Null}
  BY <1>1, OlderEntry DEF CachesSound
<1>3. \A k \in Keys : Older(disk[k]) \in Recent(TTL) \cup {Null}
  BY <1>1, OlderEntry DEF CachesSound
<1> QED
  BY <1>2, <1>3 DEF Pass, CachesSound

(* A call that has returned is as sound as it was.                          *)
LEMMA OverIsSound ==
    ASSUME NEW c, Sound(c)
    PROVE  Sound(Over(c))
BY CacheAssumption DEF Sound, Over, NoCall, Fields

(* An update of a call that keeps its text, its age and its key, and that   *)
(* leaves the lookup, is sound.                                             *)
LEMMA UpdateIsSound ==
    ASSUME NEW c, Sound(c), NEW d, DOMAIN d = Fields,
           d.faithful = c.faithful, d.age = c.age,
           d.pc = "lookup" => c.pc = "lookup" /\ d.key = c.key
    PROVE  Sound(d)
BY DEF Sound

(* A row is appended: the calls only stop being alone.                      *)
LEMMA AppendKeepsCalls ==
    ASSUME NEW row, NEW moved, DOMAIN moved = Processes,
           \A p \in Processes : Sound(moved[p]), AppendRow(row, moved)
    PROVE  CallsSound'
<1>1. DOMAIN call' = Processes
  BY DEF AppendRow
<1>2. ASSUME NEW p \in Processes
      PROVE  Sound(call'[p])
  <2> DEFINE alone == moved[p].alone /\ row.owner = <<p, moved[p].n>>
  <2>1. call'[p] = [moved[p] EXCEPT !.alone = alone]
    BY DEF AppendRow
  <2> HIDE DEF alone
  <2>2. Sound([moved[p] EXCEPT !.alone = alone])
    BY DEF Sound, Fields
  <2> QED
    BY <2>1, <2>2
<1> QED
  BY <1>1, <1>2 DEF CallsSound

(* The call moves on.                                                       *)
LEMMA MoveIsSound ==
    ASSUME CallsSound, NEW p \in Processes, NEW pc, pc # "lookup"
    PROVE  /\ DOMAIN [call EXCEPT ![p].pc = pc] = Processes
           /\ \A q \in Processes : Sound([call EXCEPT ![p].pc = pc][q])
BY DEF CallsSound, Sound, Fields

LEMMA GotoKeepsCalls ==
    ASSUME CallsSound, NEW p \in Processes, NEW pc, pc # "lookup", Goto(p, pc)
    PROVE  CallsSound'
BY MoveIsSound DEF Goto, CallsSound

LEMMA NoCallIsSound == Sound(NoCall)
BY CacheAssumption DEF NoCall, Sound, Fields

LEMMA BeginKeepsCalls ==
    ASSUME CallsSound, NEW p \in Processes, Begin(p) \/ PassThrough(p)
    PROVE  CallsSound'
<1>1. CASE PassThrough(p)
  <2> DEFINE c == [NoCall EXCEPT !.n = call[p].n + 1, !.kind = "reference",
                                 !.alone = FALSE, !.pc = "outcome"]
  <2>1. Sound(c)
    BY CacheAssumption DEF NoCall, Sound, Fields
  <2>2. call' = [call EXCEPT ![p] = c]
    BY <1>1 DEF PassThrough
  <2> HIDE DEF c
  <2> QED
    BY <2>1, <2>2 DEF CallsSound
<1>2. CASE Begin(p)
  <2>1. PICK k \in Keys, accepted \in BOOLEAN :
           LET c == [NoCall EXCEPT !.n = call[p].n + 1, !.key = k, !.accepted = accepted]
           IN  IF accepted THEN Submit(p, c)
               ELSE call' = [call EXCEPT ![p] = [c EXCEPT !.pc = "lookup"]] /\ UNCHANGED jobs
    BY <1>2 DEF Begin
  <2> DEFINE c == [NoCall EXCEPT !.n = call[p].n + 1, !.key = k, !.accepted = accepted]
  <2>2. Sound([c EXCEPT !.pc = "waiting"]) /\ Sound([c EXCEPT !.pc = "lookup"])
    BY CacheAssumption DEF NoCall, Sound, Fields
  <2>3. \/ call' = [call EXCEPT ![p] = [c EXCEPT !.pc = "waiting"]]
        \/ call' = [call EXCEPT ![p] = [c EXCEPT !.pc = "lookup"]]
    BY <2>1 DEF Submit
  <2> HIDE DEF c
  <2> QED
    BY <2>2, <2>3 DEF CallsSound
<1> QED
  BY <1>1, <1>2

(* A text is served from the dictionary, or from the table by way of it.    *)
LEMMA LookupKeepsInv ==
    ASSUME ServingInv, NEW p \in Processes, Lookup(p)
    PROVE  ServingInv'
<1> DEFINE k == call[p].key
<1>1. k \in Keys /\ Sound(call[p]) /\ CallsSound /\ CachesSound
  BY DEF Lookup, At, ServingInv, CallsSound, Sound
<1>2. ASSUME NEW e, e.age \in Nat, e.age <= 2 * TTL, e.faithful = TRUE, ReturnHit(p, e)
      PROVE  CallsSound'
  <2> DEFINE c == [Over(call[p]) EXCEPT !.age = e.age, !.faithful = e.faithful]
  <2>1. Sound(c)
    BY <1>1, <1>2 DEF Over, NoCall, Sound, Fields
  <2>2. call' = [call EXCEPT ![p] = c]
    BY <1>1, <1>2 DEF ReturnHit, CallsSound
  <2> HIDE DEF c
  <2> QED
    BY <1>1, <2>1, <2>2 DEF CallsSound
<1>3. CASE MemoryHit(p, k) /\ ReturnHit(p, memory[p][k])
  <2>1. memory[p][k] \in Recent(2 * TTL)
    BY <1>1, <1>3 DEF MemoryHit, CachesSound
  <2>2. CachesSound'
    BY <1>1, <1>3 DEF MemoryHit, CachesSound, cacheVars
  <2> QED
    BY <1>2, <1>3, <2>1, <2>2, HeldEntry DEF ServingInv
<1>4. CASE DiskHit(p, k) /\ ReturnHit(p, disk[k])
  <2>1. disk[k] \in Recent(TTL)
    BY <1>1, <1>4 DEF DiskHit, CachesSound
  <2>2. Entry(disk[k].age, disk[k].faithful) \in Recent(2 * TTL)
    BY <2>1, ArmedEntry
  <2>3. CachesSound'
    BY <1>1, <1>4, <2>2 DEF DiskHit, CachesSound
  <2> QED
    BY <1>2, <1>4, <2>1, <2>3, ArmedEntry DEF ServingInv
<1>5. CASE Miss(p, k) /\ Submit(p, call[p])
  <2>1. Sound([call[p] EXCEPT !.pc = "waiting"])
    BY <1>1 DEF Sound, Fields
  <2>2. CallsSound'
    BY <1>1, <1>5, <2>1 DEF Submit, CallsSound
  <2> QED
    BY <1>1, <1>5, <2>2 DEF Miss, CachesSound, ServingInv, cacheVars
<1> QED
  BY <1>3, <1>4, <1>5 DEF Lookup

(* A worker's answer becomes a faithful text, or none.                      *)
LEMMA CollectKeepsCalls ==
    ASSUME CallsSound, NEW p \in Processes, Collect(p)
    PROVE  CallsSound'
<1>1. Sound(call[p])
  BY DEF CallsSound
<1>2. PICK o \in Outcomes \cup {Outcome("failed", TRUE)} :
         call' = [call EXCEPT ![p].kind = o.kind, ![p].faithful = o.faithful,
                              ![p].pc = IF o.kind = "improved" /\ ~call[p].accepted
                                        THEN "accept" ELSE "outcome"]
  BY DEF Collect
<1>3. o.faithful = TRUE
  BY OutcomesAreFaithful DEF Outcome
<1> DEFINE pc == IF o.kind = "improved" /\ ~call[p].accepted THEN "accept" ELSE "outcome"
           c == [call[p] EXCEPT !.kind = o.kind, !.faithful = o.faithful, !.pc = pc]
<1>4. pc # "lookup"
  OBVIOUS
<1>5. call' = [call EXCEPT ![p] = c]
  BY <1>1, <1>2 DEF CallsSound
<1> HIDE DEF pc
<1>6. Sound(c)
  BY <1>1, <1>3, <1>4 DEF Sound, Fields
<1> HIDE DEF c
<1> QED
  BY <1>5, <1>6 DEF CallsSound

(* Giving up, and what is written then.                                     *)
LEMMA GivingUpKeepsCalls ==
    ASSUME CallsSound, NEW p \in Processes,
           \/ TimeOut(p) \/ GiveUp(p) \/ WriteStub(p) \/ ReadStubId(p) \/ AddCallback(p)
    PROVE  CallsSound'
<1>1. Sound(call[p])
  BY DEF CallsSound
<1>2. CASE TimeOut(p)
  <2>1. Sound([call[p] EXCEPT !.pc = "grace", !.alone = FALSE])
    BY <1>1 DEF Sound, Fields
  <2>2. call' = [call EXCEPT ![p] = [call[p] EXCEPT !.pc = "grace", !.alone = FALSE]]
    BY <1>2 DEF TimeOut, CallsSound
  <2> QED
    BY <2>1, <2>2 DEF CallsSound
<1>3. CASE GiveUp(p)
  BY <1>3, GotoKeepsCalls DEF GiveUp
<1>4. CASE WriteStub(p)
  BY <1>4, MoveIsSound, AppendKeepsCalls DEF WriteStub
<1>5. CASE ReadStubId(p)
  <2> DEFINE c == [call[p] EXCEPT !.stub = Len(rows), !.pc = "callback"]
  <2>1. Sound(c)
    BY <1>1 DEF Sound, Fields
  <2>2. call' = [call EXCEPT ![p] = c]
    BY <1>5 DEF ReadStubId, CallsSound
  <2> HIDE DEF c
  <2> QED
    BY <2>1, <2>2 DEF CallsSound
<1>6. CASE AddCallback(p)
  <2>1. Sound([call[p] EXCEPT !.kind = "timeout", !.pc = "outcome"])
    BY <1>1 DEF Sound, Fields
  <2>2. ASSUME NEW q \in Processes, NEW alone
        PROVE  Sound([call[q] EXCEPT !.alone = alone])
    BY DEF CallsSound, Sound, Fields
  <2>3. /\ DOMAIN call' = Processes
        /\ \A q \in Processes :
              call'[q] = IF q = p THEN [call[p] EXCEPT !.kind = "timeout", !.pc = "outcome"]
                         ELSE [call[q] EXCEPT !.alone = @ /\ rows' = rows]
    BY <1>6 DEF AddCallback
  <2> QED
    BY <2>1, <2>2, <2>3 DEF CallsSound
<1> QED
  BY <1>2, <1>3, <1>4, <1>5, <1>6

(* What is recorded of an outcome, and the critique's answer.               *)
LEMMA RecordingKeepsCalls ==
    ASSUME CallsSound, NEW p \in Processes,
           \/ MarkAccepted(p) \/ RecordOutcome(p) \/ Critique(p)
    PROVE  CallsSound'
<1>1. Sound(call[p])
  BY DEF CallsSound
<1>2. CASE MarkAccepted(p)
  BY <1>2, GotoKeepsCalls DEF MarkAccepted
<1>3. CASE RecordOutcome(p)
  <2>1. \/ call' = [call EXCEPT ![p] = [call[p] EXCEPT !.pc = "critique"]]
        \/ call' = [call EXCEPT ![p] = [call[p] EXCEPT !.pc = "store"]]
        \/ call' = [call EXCEPT ![p] = Over(call[p])]
    BY <1>3 DEF RecordOutcome, CallsSound
  <2>2. /\ Sound([call[p] EXCEPT !.pc = "critique"])
        /\ Sound([call[p] EXCEPT !.pc = "store"])
        /\ Sound(Over(call[p]))
    BY <1>1, OverIsSound DEF Sound, Fields
  <2> QED
    BY <2>1, <2>2 DEF CallsSound
<1>4. CASE Critique(p)
  <2>1. CASE Goto(p, "store")
    BY <2>1, GotoKeepsCalls
  <2>2. ASSUME NEW faithful \in {call[p].faithful} \cup {o.faithful : o \in Outcomes},
               AppendRow(Row(CallOf(p), "critique"),
                         [call EXCEPT ![p].pc = "store", ![p].faithful = faithful])
        PROVE  CallsSound'
    <3> DEFINE c == [call[p] EXCEPT !.pc = "store", !.faithful = faithful]
               moved == [call EXCEPT ![p].pc = "store", ![p].faithful = faithful]
    <3>1. faithful = TRUE
      BY <1>1, <2>2, OutcomesAreFaithful DEF Sound
    <3>2. Sound(c)
      BY <1>1, <3>1 DEF Sound, Fields
    <3>3. moved = [call EXCEPT ![p] = c]
      BY DEF CallsSound
    <3> HIDE DEF c
    <3>4. DOMAIN moved = Processes /\ \A q \in Processes : Sound(moved[q])
      BY <3>2, <3>3 DEF CallsSound
    <3>5. AppendRow(Row(CallOf(p), "critique"), moved)
      BY <2>2
    <3> HIDE DEF moved
    <3> QED
      BY <3>4, <3>5, AppendKeepsCalls
  <2> QED
    BY <1>4, <2>1, <2>2 DEF Critique
<1> QED
  BY <1>2, <1>3, <1>4

(* What was served is kept, with a lifetime from now.                       *)
LEMMA StoreKeepsInv ==
    ASSUME ServingInv, NEW p \in Processes, Store(p)
    PROVE  ServingInv'
<1>1. Sound(call[p]) /\ CallsSound /\ CachesSound
  BY DEF ServingInv, CallsSound
<1>2. CallsSound'
  BY <1>1, OverIsSound DEF Store, CallsSound
<1>3. CASE CacheUnchanged
  BY <1>1, <1>2, <1>3 DEF CacheUnchanged, cacheVars, CachesSound, ServingInv
<1>4. CASE Fill(p, call[p].key, call[p].faithful)
  <2> DEFINE e == Entry(0, call[p].faithful)
  <2>1. e \in Recent(TTL) /\ e \in Recent(2 * TTL)
    BY <1>1, FreshEntry DEF Sound
  <2>2. /\ memory' = [memory EXCEPT ![p][call[p].key] = e]
        /\ disk' = [disk EXCEPT ![call[p].key] = e]
    BY <1>4 DEF Fill
  <2> HIDE DEF e
  <2>3. CachesSound'
    BY <1>1, <2>1, <2>2 DEF CachesSound
  <2> QED
    BY <1>2, <2>3 DEF ServingInv
<1> QED
  BY <1>3, <1>4 DEF Store

(* Workers answer, write and scrub without touching a text.                 *)
LEMMA WorkKeepsCalls ==
    ASSUME CallsSound, NEW j, Answer(j) \/ WriteRow(j) \/ Scrub(j)
    PROVE  CallsSound'
<1>1. CASE Answer(j)
  BY <1>1 DEF Answer, CallsSound
<1>2. CASE WriteRow(j)
  BY <1>2, AppendKeepsCalls DEF WriteRow, CallsSound
<1>3. CASE Scrub(j)
  <2>1. ASSUME NEW q \in Processes, NEW alone
        PROVE  Sound([call[q] EXCEPT !.alone = alone])
    BY DEF CallsSound, Sound, Fields
  <2> QED
    BY <1>3, <2>1 DEF Scrub, CallsSound
<1> QED
  BY <1>1, <1>2, <1>3

LEMMA ServingInit == ImproverInit => ServingInv
<1> SUFFICES ASSUME ImproverInit
             PROVE  ServingInv
  OBVIOUS
<1>1. CallsSound
  BY NoCallIsSound DEF ImproverInit, CallsSound
<1>2. ASSUME NEW a \in 0..TTL
      PROVE  [age |-> a, left |-> TTL - a, faithful |-> TRUE] \in Recent(TTL)
  <2>1. /\ a \in Nat /\ TTL - a \in 0..TTL /\ a + (TTL - a) <= TTL
    BY CacheAssumption
  <2> QED
    BY <2>1, EntryIsRecent
<1>3. CachesSound
  <2>1. disk \in [Keys -> {Null} \cup {[age |-> a, left |-> TTL - a, faithful |-> TRUE] :
                                        a \in 0..TTL}]
    BY DEF ImproverInit, CacheInit
  <2>2. {[age |-> a, left |-> TTL - a, faithful |-> TRUE] : a \in 0..TTL} \subseteq Recent(TTL)
    BY <1>2
  <2>3. disk \in [Keys -> Recent(TTL) \cup {Null}]
    BY <2>1, <2>2
  <2>4. memory \in [Processes -> [Keys -> Recent(2 * TTL) \cup {Null}]]
    BY DEF ImproverInit, CacheInit
  <2> QED
    BY <2>3, <2>4 DEF CachesSound
<1> QED
  BY <1>1, <1>3 DEF ServingInv

LEMMA ServingNext == ServingInv /\ [ImproverNext]_improverVars => ServingInv'
<1> SUFFICES ASSUME ServingInv, [ImproverNext]_improverVars
             PROVE  ServingInv'
  OBVIOUS
<1>1. CallsSound /\ CachesSound
  BY DEF ServingInv
<1>2. ASSUME CacheUnchanged
      PROVE  CachesSound'
  BY <1>1, <1>2 DEF CacheUnchanged, cacheVars, CachesSound
<1>3. ASSUME NEW p \in Processes, Begin(p) \/ PassThrough(p)
      PROVE  ServingInv'
  BY <1>1, <1>2, <1>3, BeginKeepsCalls DEF Begin, PassThrough, ServingInv
<1>4. ASSUME NEW p \in Processes, Serve(p)
      PROVE  ServingInv'
  <2>1. CASE Lookup(p)
    BY <2>1, LookupKeepsInv
  <2>2. CASE Store(p)
    BY <2>2, StoreKeepsInv
  <2>3. CASE Collect(p)
    BY <1>1, <1>2, <2>3, CollectKeepsCalls DEF Collect, ServingInv
  <2>4. CASE TimeOut(p) \/ GiveUp(p) \/ WriteStub(p) \/ ReadStubId(p) \/ AddCallback(p)
    BY <1>1, <1>2, <2>4, GivingUpKeepsCalls
       DEF TimeOut, GiveUp, WriteStub, ReadStubId, AddCallback, ServingInv
  <2>5. CASE MarkAccepted(p) \/ RecordOutcome(p) \/ Critique(p)
    BY <1>1, <1>2, <2>5, RecordingKeepsCalls DEF MarkAccepted, RecordOutcome, Critique, ServingInv
  <2> QED
    BY <1>4, <2>1, <2>2, <2>3, <2>4, <2>5 DEF Serve
<1>5. ASSUME NEW p \in Processes, Work(p)
      PROVE  ServingInv'
  <2>1. PICK j \in JobsOf(p) : Answer(j) \/ WriteRow(j) \/ Scrub(j)
    BY <1>5 DEF Work
  <2> QED
    BY <1>1, <1>2, <2>1, WorkKeepsCalls DEF Answer, WriteRow, Scrub, ServingInv
<1>6. CASE TimePasses
  BY <1>1, <1>6, PassKeepsCaches DEF TimePasses, CallsSound, ServingInv
<1>7. CASE UNCHANGED improverVars
  BY <1>1, <1>7 DEF improverVars, cacheVars, CallsSound, CachesSound, ServingInv
<1> QED
  BY <1>3, <1>4, <1>5, <1>6, <1>7 DEF ImproverNext

LEMMA ServingAlways == ImproverSpec => []ServingInv
BY ServingInit, ServingNext, PTL DEF ImproverSpec

(* Every text that a call returns is faithful to the original, whether it   *)
(* is fresh, salvaged, criticised or from a cache that another process has  *)
(* filled, for any number of processes, calls and keys.                     *)
THEOREM ServedTextsAreFaithful == ImproverSpec => []ServedTextIsFaithful
<1>1. ServingInv => ServedTextIsFaithful
  BY DEF ServingInv, CallsSound, Sound, ServedTextIsFaithful
<1> QED
  BY <1>1, ServingAlways, PTL

(* No served improvement is older than two lifetimes of an entry.           *)
THEOREM ServedTextsAreRecent == ImproverSpec => []CachedIsRecent
<1>1. ServingInv => CachedIsRecent
  BY DEF ServingInv, CallsSound, Sound, CachedIsRecent
<1> QED
  BY <1>1, ServingAlways, PTL

-------------------------------------------------------------------------------
(* Whose outcome a row tells                                                *)

Kinds == {"completion", "failure", "orphan", "stub", "critique"}
JobFields == {"state", "cancelled", "answered", "scrub"}

RowRecords == [owner : Calls, kind : Kinds, outcome : Calls \cup {Null}]

\* The latest row is of call c, and not its critique's.
Latest(c) ==
    Len(rows) # 0 /\ rows[Len(rows)].owner = c /\ rows[Len(rows)].kind # "critique"

\* A worker that has not been given up, and whose row is the latest when it is done.
Awaited(c) ==
    /\ DOMAIN jobs[c] = JobFields
    /\ ~jobs[c].cancelled /\ jobs[c].scrub = Null
    /\ Finished(c) => Latest(c)

\* What a call that is alone with the rows relies on
OwnRow(p) ==
    /\ call[p].pc \notin {"grace", "stub", "mark", "callback"}
    /\ call[p].pc = "waiting" => Awaited(CallOf(p))
    /\ call[p].pc \in {"accept", "outcome"} => Latest(CallOf(p))
    /\ \A u \in DOMAIN rows : rows[u].outcome = CallOf(p) =>
          rows[u].owner = CallOf(p) /\ rows[u].kind # "critique"

RowsTyped ==
    /\ rows \in Seq(RowRecords)
    /\ \A u \in DOMAIN rows : rows[u].outcome # Null => rows[u].outcome \in Started

CallsCounted ==
    \A p \in Processes :
        /\ call[p].n \in 0..MaxCalls /\ call[p].alone \in BOOLEAN
        /\ call[p].pc # "idle" => call[p].n # 0

OwnInv ==
    /\ ServingInv /\ RowsTyped /\ CallsCounted
    /\ DOMAIN jobs = Calls
    /\ \A p \in Processes : call[p].alone => OwnRow(p)

(* What the rows are after they have been written                           *)

LEMMA AppendedRows ==
    ASSUME NEW R, rows \in Seq(R), NEW row \in R, rows' = Append(rows, row)
    PROVE  /\ rows' \in Seq(R) /\ DOMAIN rows' = DOMAIN rows \cup {Len(rows')}
           /\ Len(rows') # 0 /\ rows'[Len(rows')] = row
           /\ \A u \in DOMAIN rows : u # Len(rows') /\ rows'[u] = rows[u]
OBVIOUS

LEMMA UpdatedRows ==
    ASSUME RowsTyped, NEW p \in Processes, CallOf(p) \in Calls, OnLatestRow(p)
    PROVE  /\ rows' \in Seq(RowRecords) /\ DOMAIN rows' = DOMAIN rows /\ Len(rows') = Len(rows)
           /\ \A u \in DOMAIN rows :
                 /\ rows'[u].owner = rows[u].owner /\ rows'[u].kind = rows[u].kind
                 /\ \/ rows'[u].outcome = rows[u].outcome
                    \/ u = Len(rows) /\ rows'[u].outcome = CallOf(p)
<1>1. rows \in Seq(RowRecords) /\ DOMAIN rows = 1..Len(rows) /\ Len(rows) \in Nat
    BY DEF RowsTyped
<1>2. CASE rows = <<>>
    BY <1>1, <1>2 DEF OnLatestRow
<1>3. CASE rows # <<>>
    <2> DEFINE n == Len(rows)
               row == [rows[n] EXCEPT !.outcome = CallOf(p)]
    <2>1. n \in 1..Len(rows) /\ rows[n] \in RowRecords
        BY <1>1, <1>3
    <2>2. /\ row \in RowRecords /\ row.owner = rows[n].owner /\ row.kind = rows[n].kind
          /\ row.outcome = CallOf(p)
        BY <2>1 DEF RowRecords
    <2>3. rows' = [rows EXCEPT ![n] = row]
        BY <1>1, <1>3, <2>1 DEF OnLatestRow
    <2> HIDE DEF row, n
    <2>4. /\ rows' \in Seq(RowRecords) /\ Len(rows') = Len(rows) /\ DOMAIN rows' = DOMAIN rows
          /\ \A u \in DOMAIN rows : rows'[u] = IF u = n THEN row ELSE rows[u]
        BY <1>1, <2>1, <2>2, <2>3
    <2> QED
        BY <2>2, <2>4 DEF n
<1> QED
    BY <1>2, <1>3

LEMMA OrphanedRows ==
    ASSUME RowsTyped, NEW after, rows' = Orphaned(after)
    PROVE  /\ rows' \in Seq(RowRecords) /\ DOMAIN rows' = DOMAIN rows
           /\ \A u \in DOMAIN rows : rows'[u].outcome = rows[u].outcome
<1>1. /\ rows \in Seq(RowRecords) /\ DOMAIN rows = 1..Len(rows) /\ Len(rows) \in Nat
      /\ \A u \in DOMAIN rows : rows[u] \in RowRecords
    BY DEF RowsTyped
<1>2. \A r \in RowRecords : /\ [r EXCEPT !.kind = "orphan"] \in RowRecords
                            /\ [r EXCEPT !.kind = "orphan"].outcome = r.outcome
    BY DEF RowRecords, Kinds
<1>3. /\ DOMAIN rows' = DOMAIN rows
      /\ \A u \in DOMAIN rows : rows'[u] \in RowRecords /\ rows'[u].outcome = rows[u].outcome
    BY <1>1, <1>2 DEF Orphaned
<1>4. rows' = [u \in 1..Len(rows) |-> rows'[u]]
    BY <1>1 DEF Orphaned
<1>5. rows' \in [1..Len(rows) -> RowRecords]
    BY <1>1, <1>3, <1>4
<1>6. rows' \in Seq(RowRecords)
    BY <1>1, <1>5
<1> QED
    BY <1>3, <1>6

\* More calls have started; what is recorded is about them.
LEMMA StillStarted ==
    ASSUME CallsCounted, CallsCounted',
           \A p \in Processes : call'[p].n = call[p].n \/ call'[p].n = call[p].n + 1
    PROVE  Started \subseteq Started'
<1> SUFFICES ASSUME NEW c \in Started PROVE c[2] <= call'[c[1]].n /\ c \in Calls
    BY DEF Started
<1>1. c \in Calls /\ c[1] \in Processes /\ c[2] \in Nat /\ c[2] <= call[c[1]].n
    BY ImproverAssumption DEF Started, Calls
<1> QED
    BY <1>1, ImproverAssumption DEF CallsCounted

LEMMA OwnCallStarted ==
    ASSUME CallsCounted, NEW p \in Processes, call[p].n # 0
    PROVE  CallOf(p) \in Started /\ CallOf(p) \in Calls
BY ImproverAssumption DEF CallsCounted, Started, Calls, CallOf

\* A process takes another call only if there is one left.
LEMMA RoomForCall ==
    ASSUME CallsCounted, NEW p \in Processes, Cardinality(Started) < MaxCalls
    PROVE  call[p].n + 1 \in 1..MaxCalls
<1> SUFFICES ASSUME call[p].n = MaxCalls PROVE FALSE
    BY ImproverAssumption DEF CallsCounted
<1>1. IsFiniteSet(1..MaxCalls) /\ Cardinality(1..MaxCalls) = MaxCalls
    BY ImproverAssumption, FS_Interval
<1>2. IsFiniteSet(Calls)
    BY <1>1, ImproverAssumption, FS_Product DEF Calls
<1>3. IsFiniteSet({p}) /\ Cardinality({p}) = 1
    BY FS_Singleton
<1>4. Cardinality({p} \X (1..MaxCalls)) = MaxCalls
    <2>1. Cardinality({p} \X (1..MaxCalls)) = 1 * MaxCalls
        BY <1>1, <1>3, FS_Product
    <2> QED
        BY <2>1, ImproverAssumption
<1>5. {p} \X (1..MaxCalls) \subseteq Started
    BY ImproverAssumption DEF Started, Calls
<1>6. IsFiniteSet(Started) /\ Started \subseteq Calls
    BY <1>2, FS_Subset DEF Started
<1>7. MaxCalls <= Cardinality(Started) /\ Cardinality(Started) \in Nat
    BY <1>4, <1>5, <1>6, FS_Subset, FS_CardinalityType
<1> QED
    BY <1>7, ImproverAssumption

-------------------------------------------------------------------------------
(* Calls that do nothing themselves                                         *)

LEMMA OtherCall ==
    ASSUME NEW p \in Processes, NEW q \in Processes, p # q
    PROVE  CallOf(p) # CallOf(q) /\ CallOf(p)' # CallOf(q)
BY DEF CallOf

\* The rows have changed in nothing that call q is concerned with.
SameFor(q) ==
    /\ DOMAIN rows' = DOMAIN rows /\ Len(rows') = Len(rows) /\ Len(rows) \in Nat
    /\ DOMAIN rows = 1..Len(rows)
    /\ \A u \in DOMAIN rows :
          /\ rows'[u].owner = rows[u].owner /\ rows'[u].kind = rows[u].kind
          /\ rows'[u].outcome = rows[u].outcome \/ rows'[u].outcome # CallOf(q)

LEMMA Bystander ==
    ASSUME NEW q \in Processes, OwnRow(q), SameFor(q),
           call'[q].n = call[q].n, call'[q].pc = call[q].pc,
           call[q].pc = "waiting" => jobs'[CallOf(q)] = jobs[CallOf(q)]
    PROVE  OwnRow(q)'
<1>1. CallOf(q)' = CallOf(q)
    BY DEF CallOf
<1>2. call[q].pc = "waiting" => Awaited(CallOf(q))'
    BY <1>1 DEF OwnRow, Awaited, Finished, Latest, SameFor
<1>3. call[q].pc \in {"accept", "outcome"} => Latest(CallOf(q))'
    BY <1>1 DEF OwnRow, Latest, SameFor
<1>4. \A u \in DOMAIN rows' : rows'[u].outcome = CallOf(q) =>
         rows'[u].owner = CallOf(q) /\ rows'[u].kind # "critique"
    BY DEF OwnRow, SameFor
<1> QED
    BY <1>1, <1>2, <1>3, <1>4 DEF OwnRow

LEMMA UnchangedRows ==
    ASSUME RowsTyped, rows' = rows, NEW q
    PROVE  SameFor(q)
BY DEF RowsTyped, SameFor

LEMMA UpdatedForOthers ==
    ASSUME RowsTyped, NEW p \in Processes, CallOf(p) \in Calls, OnLatestRow(p),
           NEW q \in Processes, q # p
    PROVE  SameFor(q)
BY UpdatedRows, OtherCall DEF SameFor, RowsTyped

(* The step of a call: how it stands with the others, with the counts, and  *)
(* what remains to be shown of its own.                                     *)
LEMMA OwnStep ==
    ASSUME OwnInv, ServingInv', CallsCounted', rows' \in Seq(RowRecords), DOMAIN jobs' = Calls,
           \A u \in DOMAIN rows' : rows'[u].outcome # Null => rows'[u].outcome \in Started',
           \A q \in Processes : call'[q].alone => OwnRow(q)'
    PROVE  OwnInv'
BY DEF OwnInv, RowsTyped

\* Call p moves, the others' entries stay, and the rows stay or tell the outcome of p.
Moves(p) ==
    /\ DOMAIN jobs' = Calls
    /\ \A q \in Processes \ {p} :
          call'[q] = call[q] /\ jobs'[CallOf(q)] = jobs[CallOf(q)]
    /\ call'[p].n = call[p].n \/ (call'[p].n = call[p].n + 1 /\ call[p].n + 1 \in 1..MaxCalls)
    /\ call'[p].alone \in BOOLEAN /\ (call'[p].pc # "idle" => call'[p].n # 0)

LEMMA MovesCounted ==
    ASSUME OwnInv, NEW p \in Processes, Moves(p)
    PROVE  CallsCounted' /\ Started \subseteq Started'
<1>1. CallsCounted'
    BY ImproverAssumption DEF OwnInv, CallsCounted, Moves
<1>2. \A q \in Processes : call'[q].n = call[q].n \/ call'[q].n = call[q].n + 1
    BY DEF Moves
<1> QED
    BY <1>1, <1>2, StillStarted DEF OwnInv

LEMMA QuietMove ==
    ASSUME OwnInv, ServingInv', NEW p \in Processes, Moves(p), rows' = rows,
           call'[p].alone => OwnRow(p)'
    PROVE  OwnInv'
<1>1. CallsCounted' /\ Started \subseteq Started'
    BY MovesCounted
<1>2. ASSUME NEW q \in Processes, q # p, call'[q].alone
      PROVE  OwnRow(q)'
    BY <1>2, UnchangedRows, Bystander DEF OwnInv, Moves
<1>3. /\ rows' \in Seq(RowRecords)
      /\ \A u \in DOMAIN rows' : rows'[u].outcome # Null => rows'[u].outcome \in Started'
    BY <1>1 DEF OwnInv, RowsTyped
<1> QED
    BY <1>1, <1>2, <1>3, OwnStep DEF Moves

LEMMA TellingMove ==
    ASSUME OwnInv, ServingInv', NEW p \in Processes, Moves(p), OnLatestRow(p),
           call[p].n # 0, call'[p].alone => OwnRow(p)'
    PROVE  OwnInv'
<1>1. CallsCounted' /\ Started \subseteq Started' /\ CallOf(p) \in Calls
      /\ CallOf(p) \in Started /\ RowsTyped
    BY MovesCounted, OwnCallStarted DEF OwnInv
<1>2. ASSUME NEW q \in Processes, q # p, call'[q].alone
      PROVE  OwnRow(q)'
    BY <1>1, <1>2, UpdatedForOthers, Bystander DEF OwnInv, Moves
<1>3. /\ rows' \in Seq(RowRecords)
      /\ \A u \in DOMAIN rows' : rows'[u].outcome # Null => rows'[u].outcome \in Started'
    BY <1>1, UpdatedRows DEF RowsTyped
<1> QED
    BY <1>1, <1>2, <1>3, OwnStep DEF Moves

\* A row of call p is appended, and its call does not end or begin.
LEMMA AppendingMove ==
    ASSUME OwnInv, ServingInv', NEW p \in Processes, NEW n \in 1..MaxCalls,
           NEW kind \in Kinds, NEW moved, AppendRow(Row(<<p, n>>, kind), moved),
           DOMAIN jobs' = Calls, DOMAIN moved = Processes,
           \A q \in Processes :
               /\ DOMAIN moved[q] = Fields /\ moved[q].n = call[q].n
               /\ moved[q].alone \in BOOLEAN /\ (moved[q].pc # "idle" => call[q].n # 0),
           moved[p].alone /\ n = call[p].n => OwnRow(p)'
    PROVE  OwnInv'
<1> DEFINE row == Row(<<p, n>>, kind)
<1>1. /\ row \in RowRecords /\ row.owner = <<p, n>> /\ row.outcome = Null
    BY DEF Row, RowRecords, Calls
<1>2. /\ rows' = Append(rows, row) /\ RowsTyped /\ CallsCounted
      /\ \A q \in Processes :
            call'[q] = [moved[q] EXCEPT !.alone = @ /\ row.owner = <<q, moved[q].n>>]
    BY DEF AppendRow, OwnInv
<1> HIDE DEF row
<1>3. ASSUME NEW q \in Processes
      PROVE  /\ call'[q].n = call[q].n /\ call'[q].alone \in BOOLEAN
             /\ call'[q].pc = moved[q].pc
             /\ call'[q].alone => moved[q].alone /\ q = p /\ n = call[p].n
    <2> DEFINE b == moved[q].alone /\ row.owner = <<q, moved[q].n>>
    <2>1. call'[q] = [moved[q] EXCEPT !.alone = b] /\ b \in BOOLEAN
        BY <1>2
    <2>2. b => moved[q].alone /\ q = p /\ n = call[p].n
        BY <1>1
    <2> HIDE DEF b
    <2>3. call'[q].alone = b /\ call'[q].n = moved[q].n /\ call'[q].pc = moved[q].pc
        BY <2>1 DEF Fields
    <2> QED
        BY <2>1, <2>2, <2>3
<1>4. CallsCounted'
    BY <1>2, <1>3 DEF CallsCounted
<1>5. Started \subseteq Started'
    BY <1>2, <1>3, <1>4, StillStarted
<1>6. /\ rows' \in Seq(RowRecords) /\ DOMAIN rows' = DOMAIN rows \cup {Len(rows')}
      /\ Len(rows') # 0 /\ rows'[Len(rows')] = row
      /\ \A u \in DOMAIN rows : u # Len(rows') /\ rows'[u] = rows[u]
    BY <1>1, <1>2, AppendedRows DEF RowsTyped
<1>7. \A u \in DOMAIN rows' : rows'[u].outcome # Null => rows'[u].outcome \in Started'
    BY <1>1, <1>2, <1>5, <1>6 DEF RowsTyped
<1> QED
    BY <1>3, <1>4, <1>6, <1>7, OwnStep

(* A row that a worker has written is its call's latest.                    *)
LEMMA AppendedOwn ==
    ASSUME RowsTyped, NEW p \in Processes, NEW n \in 1..MaxCalls, NEW kind \in Kinds,
           rows' = Append(rows, Row(<<p, n>>, kind)),
           call[p].n = n, call'[p].n = n, OwnRow(p)
    PROVE  /\ CallOf(p)' = CallOf(p) /\ CallOf(p) = <<p, n>>
           /\ kind # "critique" => Latest(CallOf(p))'
           /\ \A u \in DOMAIN rows' : rows'[u].outcome = CallOf(p) =>
                 rows'[u].owner = CallOf(p) /\ rows'[u].kind # "critique"
<1> DEFINE row == Row(<<p, n>>, kind)
<1>1. /\ row \in RowRecords /\ row.owner = <<p, n>> /\ row.outcome = Null /\ row.kind = kind
    BY DEF Row, RowRecords, Calls
<1>2. CallOf(p)' = CallOf(p) /\ CallOf(p) = <<p, n>> /\ CallOf(p) # Null
    BY ImproverAssumption DEF CallOf
<1>3. rows' = Append(rows, row)
    OBVIOUS
<1> HIDE DEF row
<1>4. /\ rows' \in Seq(RowRecords) /\ DOMAIN rows' = DOMAIN rows \cup {Len(rows')}
      /\ Len(rows') # 0 /\ rows'[Len(rows')] = row
      /\ \A u \in DOMAIN rows : u # Len(rows') /\ rows'[u] = rows[u]
    BY <1>1, <1>3, AppendedRows DEF RowsTyped
<1> QED
    BY <1>1, <1>2, <1>4 DEF Latest, OwnRow

\* What is told of call p is told to its own row.
LEMMA ToldOwn ==
    ASSUME RowsTyped, NEW p \in Processes, CallOf(p) \in Calls, OnLatestRow(p),
           OwnRow(p), Latest(CallOf(p)), call'[p].n = call[p].n
    PROVE  /\ Latest(CallOf(p))'
           /\ \A u \in DOMAIN rows' : rows'[u].outcome = CallOf(p)' =>
                 rows'[u].owner = CallOf(p)' /\ rows'[u].kind # "critique"
<1>1. CallOf(p)' = CallOf(p) /\ Len(rows) \in DOMAIN rows
    BY DEF CallOf, Latest, RowsTyped
<1> QED
    BY <1>1, UpdatedRows DEF Latest, OwnRow

\* The call of p becomes c.
LEMMA MovedTo ==
    ASSUME OwnInv, NEW p \in Processes, NEW c, call' = [call EXCEPT ![p] = c]
    PROVE  call'[p] = c /\ \A q \in Processes \ {p} : call'[q] = call[q]
BY DEF OwnInv, ServingInv, CallsSound

LEMMA CallFields ==
    ASSUME OwnInv, NEW p \in Processes
    PROVE  /\ DOMAIN call[p] = Fields /\ DOMAIN call = Processes
           /\ call[p].n \in 0..MaxCalls /\ call[p].alone \in BOOLEAN
           /\ call[p].pc # "idle" => call[p].n # 0 /\ CallOf(p) \in Calls
BY OwnCallStarted DEF OwnInv, ServingInv, CallsSound, Sound, CallsCounted

\* Nothing has been told about a call that has not begun.
LEMMA NothingTold ==
    ASSUME OwnInv, NEW p \in Processes, call[p].n + 1 \in 1..MaxCalls, NEW u \in DOMAIN rows
    PROVE  rows[u].outcome # <<p, call[p].n + 1>>
<1> SUFFICES ASSUME rows[u].outcome = <<p, call[p].n + 1>> PROVE FALSE
    OBVIOUS
<1>1. call[p].n \in Nat
    BY CallFields
<1>2. rows[u].outcome # Null
    BY ImproverAssumption
<1>3. <<p, call[p].n + 1>> \in Started
    BY <1>2 DEF OwnInv, RowsTyped
<1>4. call[p].n + 1 <= call[p].n
    BY <1>3 DEF Started
<1> QED
    BY <1>1, <1>4

-------------------------------------------------------------------------------
(* The actions *)

LEMMA BeginIsOwn ==
    ASSUME OwnInv, ServingInv', NEW p \in Processes, Begin(p) \/ PassThrough(p)
    PROVE  OwnInv'
<1>1. Cardinality(Started) < MaxCalls /\ rows' = rows /\ call[p].n + 1 \in 1..MaxCalls
    BY RoomForCall DEF Begin, PassThrough, OwnInv
<1>2. CASE PassThrough(p)
    <2> DEFINE c == [NoCall EXCEPT !.n = call[p].n + 1, !.kind = "reference",
                                   !.alone = FALSE, !.pc = "outcome"]
    <2>1. c.n = call[p].n + 1 /\ c.alone = FALSE /\ c.n # 0
        BY <1>1 DEF NoCall
    <2>2. call' = [call EXCEPT ![p] = c] /\ jobs' = jobs
        BY <1>2 DEF PassThrough
    <2> HIDE DEF c
    <2>3. Moves(p) /\ ~call'[p].alone
        BY <1>1, <2>1, <2>2, MovedTo DEF Moves, OwnInv
    <2> QED
        BY <1>1, <2>3, QuietMove
<1>3. CASE Begin(p)
    <2>1. PICK k \in Keys, accepted \in BOOLEAN :
             LET c == [NoCall EXCEPT !.n = call[p].n + 1, !.key = k, !.accepted = accepted]
             IN  IF accepted THEN Submit(p, c)
                 ELSE call' = [call EXCEPT ![p] = [c EXCEPT !.pc = "lookup"]] /\ UNCHANGED jobs
        BY <1>3 DEF Begin
    <2> DEFINE c == [NoCall EXCEPT !.n = call[p].n + 1, !.key = k, !.accepted = accepted]
               w == [c EXCEPT !.pc = "waiting"]
               l == [c EXCEPT !.pc = "lookup"]
    <2>2. /\ c.n = call[p].n + 1
          /\ w.n = call[p].n + 1 /\ w.alone = TRUE /\ w.pc = "waiting"
          /\ l.n = call[p].n + 1 /\ l.alone = TRUE /\ l.pc = "lookup"
        BY DEF NoCall
    <2>3. \/ call' = [call EXCEPT ![p] = w] /\ jobs' = [jobs EXCEPT ![<<p, c.n>>] = NewJob]
          \/ call' = [call EXCEPT ![p] = l] /\ jobs' = jobs
        BY <2>1 DEF Submit
    <2> HIDE DEF c, w, l
    <2>4. Moves(p) /\ call'[p].n = call[p].n + 1
        <3>1. CASE call' = [call EXCEPT ![p] = w] /\ jobs' = [jobs EXCEPT ![<<p, c.n>>] = NewJob]
            <4>1. /\ call'[p] = w /\ \A q \in Processes \ {p} : call'[q] = call[q]
                BY <3>1, MovedTo
            <4>2. /\ DOMAIN jobs' = Calls
                  /\ \A q \in Processes \ {p} : jobs'[CallOf(q)] = jobs[CallOf(q)]
                BY <3>1 DEF OwnInv, CallOf
            <4>3. call'[p].n = call[p].n + 1 /\ call'[p].n # 0
                BY <1>1, <2>2, <4>1
            <4>4. call'[p].alone \in BOOLEAN
                BY <2>2, <4>1
            <4> QED
                BY <1>1, <4>3, <4>4, <4>1, <4>2 DEF Moves
        <3>2. CASE call' = [call EXCEPT ![p] = l] /\ jobs' = jobs
            <4>1. /\ call'[p] = l /\ \A q \in Processes \ {p} : call'[q] = call[q]
                BY <3>2, MovedTo
            <4>3. call'[p].n = call[p].n + 1 /\ call'[p].n # 0
                BY <1>1, <2>2, <4>1
            <4>4. call'[p].alone \in BOOLEAN
                BY <2>2, <4>1
            <4> QED
                BY <1>1, <4>3, <4>4, <3>2, <4>1 DEF Moves, OwnInv
        <3> QED
            BY <2>3, <3>1, <3>2
    <2>5. CallOf(p)' = <<p, call[p].n + 1>>
        BY <2>4 DEF CallOf
    <2>6. call'[p].pc \in {"waiting", "lookup"}
        BY <2>2, <2>3, MovedTo
    <2>7. call'[p].pc = "waiting" => jobs'[CallOf(p)'] = NewJob
        <3> SUFFICES ASSUME call'[p].pc = "waiting" PROVE jobs'[CallOf(p)'] = NewJob
            OBVIOUS
        <3>1. jobs' = [jobs EXCEPT ![CallOf(p)'] = NewJob]
            BY <2>2, <2>3, <2>5, MovedTo
        <3>2. CallOf(p)' \in Calls
            BY <1>1, <2>5 DEF Calls
        <3> QED
            BY <3>1, <3>2 DEF OwnInv
    <2>8. call'[p].pc = "waiting" => Awaited(CallOf(p))'
        BY <2>7 DEF Awaited, NewJob, JobFields, Finished
    <2>9. \A u \in DOMAIN rows' : rows'[u].outcome # CallOf(p)'
        BY <1>1, <2>5, NothingTold
    <2>10. OwnRow(p)'
        BY <2>6, <2>8, <2>9 DEF OwnRow
    <2> QED
        BY <1>1, <2>4, <2>10, QuietMove
<1> QED
    BY <1>2, <1>3

\* What a hit or the end of a call leaves has nothing left to be told.
LEMMA EndedIsOwn ==
    ASSUME OwnInv, ServingInv', NEW p \in Processes, NEW c, call' = [call EXCEPT ![p] = c],
           DOMAIN jobs' = Calls, \A q \in Processes \ {p} : jobs'[CallOf(q)] = jobs[CallOf(q)],
           rows' = rows, c.n = call[p].n, c.alone = call[p].alone,
           call[p].n # 0,
           c.pc \in {"idle", "critique", "store"} \/ ~call[p].alone
    PROVE  OwnInv'
<1>1. call'[p] = c /\ \A q \in Processes \ {p} : call'[q] = call[q]
    BY MovedTo
<1>2. Moves(p)
    BY <1>1, CallFields DEF Moves
<1>3. ASSUME call'[p].alone PROVE OwnRow(p)'
    <2>1. OwnRow(p) /\ call[p].alone /\ call'[p].pc \in {"idle", "critique", "store"}
        BY <1>1, <1>3 DEF OwnInv
    <2>2. CallOf(p)' = CallOf(p)
        BY <1>1 DEF CallOf
    <2> QED
        BY <2>1, <2>2 DEF OwnRow
<1> QED
    BY <1>2, <1>3, QuietMove

LEMMA LookupIsOwn ==
    ASSUME OwnInv, ServingInv', NEW p \in Processes, Lookup(p)
    PROVE  OwnInv'
<1> DEFINE k == call[p].key
<1>1. /\ rows' = rows /\ call[p].n # 0 /\ CallOf(p) \in Calls
      /\ call[p].n \in 0..MaxCalls /\ call[p].alone \in BOOLEAN /\ DOMAIN call[p] = Fields
      /\ DOMAIN jobs = Calls /\ DOMAIN call = Processes
    BY CallFields DEF Lookup, At, OwnInv
<1>2. ASSUME NEW e, ReturnHit(p, e), jobs' = jobs
      PROVE  OwnInv'
    <2> DEFINE c == [Over(call[p]) EXCEPT !.age = e.age, !.faithful = e.faithful]
    <2>1. c.n = call[p].n /\ c.alone = call[p].alone /\ c.pc = "idle"
        BY DEF Over, NoCall
    <2>2. call' = [call EXCEPT ![p] = c]
        BY <1>1, <1>2 DEF ReturnHit
    <2> HIDE DEF c
    <2> QED
        BY <1>1, <1>2, <2>1, <2>2, EndedIsOwn
<1>3. ASSUME Submit(p, call[p])
      PROVE  OwnInv'
    <2> DEFINE c == [call[p] EXCEPT !.pc = "waiting"]
    <2>1. c.n = call[p].n /\ c.alone = call[p].alone /\ c.pc = "waiting"
        BY <1>1 DEF Fields
    <2>2. call' = [call EXCEPT ![p] = c] /\ jobs' = [jobs EXCEPT ![CallOf(p)] = NewJob]
        BY <1>3 DEF Submit, CallOf
    <2> HIDE DEF c
    <2>3. call'[p] = c /\ \A q \in Processes \ {p} : call'[q] = call[q]
        BY <2>2, MovedTo
    <2>4. \A q \in Processes \ {p} : jobs'[CallOf(q)] = jobs[CallOf(q)]
        BY <2>2, OtherCall
    <2>5. Moves(p) /\ CallOf(p)' = CallOf(p)
        BY <1>1, <2>1, <2>2, <2>3, <2>4 DEF Moves, CallOf
    <2>6. jobs'[CallOf(p)'] = NewJob
        BY <1>1, <2>2, <2>5
    <2>7. Awaited(CallOf(p))'
        BY <2>6 DEF Awaited, NewJob, JobFields, Finished
    <2>8. ASSUME call'[p].alone PROVE OwnRow(p)'
        BY <1>1, <2>1, <2>3, <2>5, <2>7, <2>8 DEF OwnRow, OwnInv
    <2> QED
        BY <1>1, <2>5, <2>8, QuietMove
<1> QED
    BY <1>2, <1>3 DEF Lookup

LEMMA CollectIsOwn ==
    ASSUME OwnInv, ServingInv', NEW p \in Processes, Collect(p)
    PROVE  OwnInv'
<1>1. /\ rows' = rows /\ call[p].n # 0 /\ CallOf(p) \in Calls
      /\ call[p].alone \in BOOLEAN /\ DOMAIN call[p] = Fields
      /\ DOMAIN jobs = Calls /\ DOMAIN call = Processes
      /\ jobs' = [jobs EXCEPT ![CallOf(p)] = Null] /\ Finished(CallOf(p))
      /\ call[p].pc \in {"waiting", "grace"}
    BY CallFields DEF Collect, At, OwnInv
<1>2. PICK o \in Outcomes \cup {Outcome("failed", TRUE)} :
         call' = [call EXCEPT ![p].kind = o.kind, ![p].faithful = o.faithful,
                              ![p].pc = IF o.kind = "improved" /\ ~call[p].accepted
                                        THEN "accept" ELSE "outcome"]
    BY DEF Collect
<1> DEFINE pc == IF o.kind = "improved" /\ ~call[p].accepted THEN "accept" ELSE "outcome"
           c == [call[p] EXCEPT !.kind = o.kind, !.faithful = o.faithful, !.pc = pc]
<1>3. call' = [call EXCEPT ![p] = c] /\ pc \in {"accept", "outcome"}
    BY <1>1, <1>2
<1> HIDE DEF pc
<1>4. c.n = call[p].n /\ c.alone = call[p].alone /\ c.pc = pc
    BY <1>1 DEF Fields
<1> HIDE DEF c
<1>5. call'[p] = c /\ \A q \in Processes \ {p} : call'[q] = call[q]
    BY <1>3, MovedTo
<1>6. \A q \in Processes \ {p} : jobs'[CallOf(q)] = jobs[CallOf(q)]
    BY <1>1, OtherCall
<1>7. Moves(p) /\ CallOf(p)' = CallOf(p)
    BY <1>1, <1>4, <1>5, <1>6 DEF Moves, CallOf
<1>8. ASSUME call'[p].alone PROVE OwnRow(p)'
    <2>1. OwnRow(p)
        BY <1>4, <1>5, <1>8 DEF OwnInv
    <2>2. Latest(CallOf(p))
        BY <1>1, <2>1 DEF OwnRow, Awaited
    <2>3. Latest(CallOf(p))'
        BY <1>1, <1>7, <2>2 DEF Latest
    <2> QED
        BY <1>1, <1>3, <1>4, <1>5, <1>7, <2>1, <2>3 DEF OwnRow
<1> QED
    BY <1>1, <1>7, <1>8, QuietMove

LEMMA TimeOutIsOwn ==
    ASSUME OwnInv, ServingInv', NEW p \in Processes, TimeOut(p)
    PROVE  OwnInv'
<1> DEFINE c == [call[p] EXCEPT !.pc = "grace", !.alone = FALSE]
<1>1. /\ rows' = rows /\ call[p].n # 0 /\ DOMAIN call[p] = Fields
      /\ DOMAIN jobs = Calls /\ DOMAIN call = Processes
      /\ jobs' = [jobs EXCEPT ![CallOf(p)].cancelled = TRUE]
    BY CallFields DEF TimeOut, At, OwnInv
<1>2. call' = [call EXCEPT ![p] = c]
    BY <1>1 DEF TimeOut
<1>3. c.n = call[p].n /\ c.alone = FALSE
    BY <1>1 DEF Fields
<1> HIDE DEF c
<1>4. call'[p] = c /\ \A q \in Processes \ {p} : call'[q] = call[q]
    BY <1>2, MovedTo
<1>5. \A q \in Processes \ {p} : jobs'[CallOf(q)] = jobs[CallOf(q)]
    BY <1>1, OtherCall
<1>6. Moves(p) /\ ~call'[p].alone
    BY <1>1, <1>3, <1>4, <1>5 DEF Moves
<1> QED
    BY <1>1, <1>6, QuietMove

\* A call that has given up is not alone with the rows.
LEMMA GivenUp ==
    ASSUME OwnInv, NEW p \in Processes, call[p].pc \in {"grace", "stub", "mark", "callback"}
    PROVE  ~call[p].alone /\ call[p].n # 0
BY DEF OwnInv, OwnRow, CallsCounted

LEMMA GivingUpIsOwn ==
    ASSUME OwnInv, ServingInv', NEW p \in Processes, GiveUp(p) \/ ReadStubId(p)
    PROVE  OwnInv'
<1>1. /\ rows' = rows /\ jobs' = jobs /\ ~call[p].alone /\ call[p].n # 0
      /\ DOMAIN call[p] = Fields /\ DOMAIN jobs = Calls /\ DOMAIN call = Processes
    BY GivenUp, CallFields DEF GiveUp, GraceIsOver, ReadStubId, At, OwnInv
<1>2. CASE GiveUp(p)
    <2> DEFINE c == [call[p] EXCEPT !.pc = "stub"]
    <2>1. call' = [call EXCEPT ![p] = c] /\ c.n = call[p].n /\ c.alone = call[p].alone
        BY <1>1, <1>2 DEF GiveUp, Goto, Fields
    <2> HIDE DEF c
    <2> QED
        BY <1>1, <2>1, EndedIsOwn
<1>3. CASE ReadStubId(p)
    <2> DEFINE c == [call[p] EXCEPT !.stub = Len(rows), !.pc = "callback"]
    <2>1. call' = [call EXCEPT ![p] = c] /\ c.n = call[p].n /\ c.alone = call[p].alone
        BY <1>1, <1>3 DEF ReadStubId, Fields
    <2> HIDE DEF c
    <2> QED
        BY <1>1, <2>1, EndedIsOwn
<1> QED
    BY <1>2, <1>3

LEMMA WriteStubIsOwn ==
    ASSUME OwnInv, ServingInv', NEW p \in Processes, WriteStub(p)
    PROVE  OwnInv'
<1> DEFINE moved == [call EXCEPT ![p].pc = "mark"]
<1>1. /\ ~call[p].alone /\ call[p].n # 0 /\ call[p].n \in 1..MaxCalls
      /\ DOMAIN call = Processes /\ jobs' = jobs /\ DOMAIN jobs = Calls
    BY GivenUp, CallFields, ImproverAssumption DEF WriteStub, At, OwnInv
<1>2. ASSUME NEW q \in Processes
      PROVE  /\ DOMAIN moved[q] = Fields /\ moved[q].n = call[q].n
             /\ moved[q].alone = call[q].alone /\ call[q].alone \in BOOLEAN
             /\ moved[q].pc = call[q].pc \/ q = p
             /\ call[q].pc # "idle" => call[q].n # 0
    BY <1>1, CallFields DEF Fields
<1>3. DOMAIN moved = Processes /\ AppendRow(Row(<<p, call[p].n>>, "stub"), moved)
    BY <1>1 DEF WriteStub, CallOf
<1> HIDE DEF moved
<1>4. ~moved[p].alone
    BY <1>1, <1>2
<1>5. \A q \in Processes :
         /\ DOMAIN moved[q] = Fields /\ moved[q].n = call[q].n
         /\ moved[q].alone \in BOOLEAN /\ (moved[q].pc # "idle" => call[q].n # 0)
    BY <1>1, <1>2
<1> QED
    BY <1>1, <1>3, <1>4, <1>5, AppendingMove DEF Kinds

\* Rows are neutralised: nobody is alone with them, unless none has changed.
LEMMA NeutralisedIsOwn ==
    ASSUME OwnInv, ServingInv', NEW p \in Processes, NEW after,
           rows' = Orphaned(after) \/ rows' = rows,
           DOMAIN jobs' = Calls,
           \A q \in Processes : call'[q].n = call[q].n /\ call'[q].alone \in BOOLEAN,
           \A q \in Processes : call'[q].pc # "idle" => call[q].n # 0,
           \A q \in Processes : call'[q].alone =>
               /\ rows' = rows /\ call[q].alone /\ call'[q].pc = call[q].pc
               /\ call[q].pc = "waiting" => jobs'[CallOf(q)] = jobs[CallOf(q)]
    PROVE  OwnInv'
<1>1. RowsTyped /\ CallsCounted
    BY DEF OwnInv
<1>2. CallsCounted'
    BY <1>1 DEF CallsCounted
<1>3. Started \subseteq Started'
    BY <1>1, <1>2, StillStarted
<1>4. /\ rows' \in Seq(RowRecords) /\ DOMAIN rows' = DOMAIN rows
      /\ \A u \in DOMAIN rows : rows'[u].outcome = rows[u].outcome
    BY <1>1, OrphanedRows DEF RowsTyped
<1>5. \A u \in DOMAIN rows' : rows'[u].outcome # Null => rows'[u].outcome \in Started'
    BY <1>1, <1>3, <1>4 DEF RowsTyped
<1>6. ASSUME NEW q \in Processes, call'[q].alone
      PROVE  OwnRow(q)'
    <2>1. SameFor(q) /\ OwnRow(q)
        BY <1>1, <1>6, UnchangedRows DEF OwnInv
    <2> QED
        BY <1>6, <2>1, Bystander
<1> QED
    BY <1>2, <1>4, <1>5, <1>6, OwnStep

LEMMA AddCallbackIsOwn ==
    ASSUME OwnInv, ServingInv', NEW p \in Processes, AddCallback(p)
    PROVE  OwnInv'
<1> DEFINE c == [call[p] EXCEPT !.kind = "timeout", !.pc = "outcome"]
<1>1. /\ ~call[p].alone /\ call[p].n # 0 /\ DOMAIN jobs = Calls
      /\ rows' = Orphaned(call[p].stub) \/ rows' = rows
      /\ \/ jobs' = [jobs EXCEPT ![CallOf(p)] = Null]
         \/ jobs' = [jobs EXCEPT ![CallOf(p)].scrub = call[p].stub]
      /\ DOMAIN call[p] = Fields
    BY GivenUp, CallFields DEF AddCallback, At, OwnInv
<1>2. /\ DOMAIN jobs' = Calls
      /\ \A q \in Processes \ {p} : jobs'[CallOf(q)] = jobs[CallOf(q)]
    <2>1. CASE jobs' = [jobs EXCEPT ![CallOf(p)] = Null]
        BY <1>1, <2>1, OtherCall
    <2>2. CASE jobs' = [jobs EXCEPT ![CallOf(p)].scrub = call[p].stub]
        BY <1>1, <2>2, OtherCall
    <2> QED
        BY <1>1, <2>1, <2>2
<1>3. c.n = call[p].n /\ c.alone = call[p].alone
    BY <1>1 DEF Fields
<1>4. call'[p] = c
    BY DEF AddCallback
<1> HIDE DEF c
<1>5. ASSUME NEW q \in Processes, q # p
      PROVE  /\ call'[q].n = call[q].n /\ call'[q].pc = call[q].pc
             /\ call'[q].alone \in BOOLEAN
             /\ call'[q].alone => call[q].alone /\ rows' = rows
    <2> DEFINE b == call[q].alone /\ rows' = rows
    <2>1. call'[q] = [call[q] EXCEPT !.alone = b] /\ b \in BOOLEAN
        BY <1>5 DEF AddCallback
    <2>2. b => call[q].alone /\ rows' = rows
        OBVIOUS
    <2> HIDE DEF b
    <2>3. call'[q].alone = b /\ call'[q].n = call[q].n /\ call'[q].pc = call[q].pc
        BY <2>1, CallFields DEF Fields
    <2> QED
        BY <2>1, <2>2, <2>3
<1>6. /\ call'[p].n = call[p].n /\ call'[p].alone \in BOOLEAN /\ ~call'[p].alone
    BY <1>1, <1>3, <1>4, CallFields
<1>7. \A q \in Processes : call[q].pc # "idle" => call[q].n # 0
    BY CallFields
<1>8. \A q \in Processes : call'[q].n = call[q].n /\ call'[q].alone \in BOOLEAN
    BY <1>5, <1>6
<1>9. \A q \in Processes : call'[q].pc # "idle" => call[q].n # 0
    BY <1>1, <1>5, <1>7
<1>10. \A q \in Processes : call'[q].alone =>
          /\ rows' = rows /\ call[q].alone /\ call'[q].pc = call[q].pc
          /\ call[q].pc = "waiting" => jobs'[CallOf(q)] = jobs[CallOf(q)]
    BY <1>2, <1>5, <1>6
<1> QED
    BY <1>1, <1>2, <1>8, <1>9, <1>10, NeutralisedIsOwn

LEMMA MarkAcceptedIsOwn ==
    ASSUME OwnInv, ServingInv', NEW p \in Processes, MarkAccepted(p)
    PROVE  OwnInv'
<1> DEFINE c == [call[p] EXCEPT !.pc = "outcome"]
<1>1. /\ call[p].pc = "accept" /\ call[p].n # 0 /\ CallOf(p) \in Calls
      /\ call[p].alone \in BOOLEAN /\ DOMAIN call[p] = Fields
      /\ DOMAIN call = Processes /\ DOMAIN jobs = Calls /\ jobs' = jobs
      /\ OnLatestRow(p) /\ RowsTyped
    BY CallFields DEF MarkAccepted, At, OwnInv
<1>2. call' = [call EXCEPT ![p] = c]
    BY <1>1 DEF MarkAccepted, Goto
<1>3. c.n = call[p].n /\ c.alone = call[p].alone /\ c.pc = "outcome"
    BY <1>1 DEF Fields
<1> HIDE DEF c
<1>4. call'[p] = c /\ \A q \in Processes \ {p} : call'[q] = call[q]
    BY <1>2, MovedTo
<1>5. Moves(p)
    BY <1>1, <1>3, <1>4 DEF Moves
<1>6. ASSUME call'[p].alone PROVE OwnRow(p)'
    <2>1. OwnRow(p)
        BY <1>3, <1>4, <1>6 DEF OwnInv
    <2>2. Latest(CallOf(p))
        BY <1>1, <2>1 DEF OwnRow
    <2>3. call'[p].n = call[p].n /\ call'[p].pc = "outcome"
        BY <1>3, <1>4
    <2> QED
        BY <1>1, <2>1, <2>2, <2>3, ToldOwn DEF OwnRow
<1> QED
    BY <1>1, <1>5, <1>6, TellingMove

LEMMA RecordOutcomeIsOwn ==
    ASSUME OwnInv, ServingInv', NEW p \in Processes, RecordOutcome(p)
    PROVE  OwnInv'
<1>1. /\ call[p].pc = "outcome" /\ call[p].n # 0 /\ CallOf(p) \in Calls
      /\ call[p].alone \in BOOLEAN /\ DOMAIN call[p] = Fields
      /\ DOMAIN call = Processes /\ DOMAIN jobs = Calls /\ jobs' = jobs
      /\ OnLatestRow(p) /\ RowsTyped
    BY CallFields DEF RecordOutcome, At, OwnInv
<1> DEFINE c == CASE call[p].kind = "improved" -> [call[p] EXCEPT !.pc = "critique"]
                  [] call[p].kind = "kept" -> [call[p] EXCEPT !.pc = "store"]
                  [] OTHER -> Over(call[p])
<1>2. call' = [call EXCEPT ![p] = c]
    BY <1>1 DEF RecordOutcome
<1>3. c.n = call[p].n /\ c.alone = call[p].alone /\ c.pc \in {"critique", "store", "idle"}
    <2>1. CASE call[p].kind = "improved"
        BY <1>1, <2>1 DEF Fields
    <2>2. CASE call[p].kind = "kept"
        BY <1>1, <2>2 DEF Fields
    <2>3. CASE call[p].kind \notin {"improved", "kept"}
        <3>1. c = Over(call[p])
            BY <2>3
        <3> QED
            BY <3>1 DEF Over, NoCall
    <2> QED
        BY <2>1, <2>2, <2>3
<1> HIDE DEF c
<1>4. call'[p] = c /\ \A q \in Processes \ {p} : call'[q] = call[q]
    BY <1>2, MovedTo
<1>5. Moves(p)
    BY <1>1, <1>3, <1>4 DEF Moves
<1>6. ASSUME call'[p].alone PROVE OwnRow(p)'
    <2>1. OwnRow(p)
        BY <1>3, <1>4, <1>6 DEF OwnInv
    <2>2. Latest(CallOf(p))
        BY <1>1, <2>1 DEF OwnRow
    <2>3. call'[p].n = call[p].n /\ call'[p].pc \in {"critique", "store", "idle"}
        BY <1>3, <1>4
    <2> QED
        BY <1>1, <2>1, <2>2, <2>3, ToldOwn DEF OwnRow
<1> QED
    BY <1>1, <1>5, <1>6, TellingMove

LEMMA CritiqueIsOwn ==
    ASSUME OwnInv, ServingInv', NEW p \in Processes, Critique(p)
    PROVE  OwnInv'
<1>1. /\ call[p].pc = "critique" /\ call[p].n # 0 /\ call[p].n \in 1..MaxCalls
      /\ call[p].alone \in BOOLEAN /\ DOMAIN call[p] = Fields
      /\ DOMAIN call = Processes /\ DOMAIN jobs = Calls /\ jobs' = jobs /\ RowsTyped
    BY CallFields, ImproverAssumption DEF Critique, At, OwnInv
<1>2. CASE Goto(p, "store") /\ rows' = rows
    <2> DEFINE c == [call[p] EXCEPT !.pc = "store"]
    <2>1. /\ call' = [call EXCEPT ![p] = c] /\ c.n = call[p].n /\ c.alone = call[p].alone
          /\ c.pc = "store"
        BY <1>1, <1>2 DEF Goto, Fields
    <2> HIDE DEF c
    <2> QED
        BY <1>1, <1>2, <2>1, EndedIsOwn
<1>3. ASSUME NEW faithful,
             AppendRow(Row(CallOf(p), "critique"),
                       [call EXCEPT ![p].pc = "store", ![p].faithful = faithful])
      PROVE  OwnInv'
    <2> DEFINE moved == [call EXCEPT ![p].pc = "store", ![p].faithful = faithful]
    <2>1. AppendRow(Row(<<p, call[p].n>>, "critique"), moved)
        BY <1>3 DEF CallOf
    <2>2. ASSUME NEW q \in Processes
          PROVE  /\ DOMAIN moved[q] = Fields /\ moved[q].n = call[q].n
                 /\ moved[q].alone = call[q].alone /\ call[q].alone \in BOOLEAN
                 /\ moved[q].pc = call[q].pc \/ q = p
                 /\ call[q].pc # "idle" => call[q].n # 0
        BY <1>1, CallFields DEF Fields
    <2>3. DOMAIN moved = Processes /\ moved[p].pc = "store"
        BY <1>1 DEF Fields
    <2> HIDE DEF moved
    <2>4. \A q \in Processes :
             /\ DOMAIN moved[q] = Fields /\ moved[q].n = call[q].n
             /\ moved[q].alone \in BOOLEAN /\ (moved[q].pc # "idle" => call[q].n # 0)
        BY <1>1, <2>2
    <2>5. rows' = Append(rows, Row(<<p, call[p].n>>, "critique"))
        BY <2>1 DEF AppendRow
    <2>6. call'[p].n = call[p].n /\ call'[p].pc = "store"
        <3> DEFINE b == moved[p].alone /\ Row(<<p, call[p].n>>, "critique").owner
                                           = <<p, moved[p].n>>
        <3>1. call'[p] = [moved[p] EXCEPT !.alone = b]
            BY <2>1 DEF AppendRow
        <3> HIDE DEF b
        <3> QED
            BY <2>3, <2>4, <3>1 DEF Fields
    <2>7. ASSUME moved[p].alone PROVE OwnRow(p)'
        <3>1. OwnRow(p)
            BY <2>2, <2>7 DEF OwnInv
        <3>2. /\ CallOf(p)' = CallOf(p)
              /\ \A u \in DOMAIN rows' : rows'[u].outcome = CallOf(p) =>
                    rows'[u].owner = CallOf(p) /\ rows'[u].kind # "critique"
            BY <1>1, <2>5, <2>6, <3>1, AppendedOwn DEF Kinds
        <3> QED
            BY <2>6, <3>2 DEF OwnRow
    <2> QED
        BY <1>1, <2>1, <2>3, <2>4, <2>7, AppendingMove DEF Kinds
<1> QED
    BY <1>2, <1>3 DEF Critique

LEMMA StoreIsOwn ==
    ASSUME OwnInv, ServingInv', NEW p \in Processes, Store(p)
    PROVE  OwnInv'
<1> DEFINE c == Over(call[p])
<1>1. /\ c.n = call[p].n /\ c.alone = call[p].alone /\ c.pc = "idle"
    BY DEF Over, NoCall
<1>2. call' = [call EXCEPT ![p] = c] /\ jobs' = jobs /\ rows' = rows /\ DOMAIN jobs = Calls
    BY DEF Store, OwnInv
<1>3. call[p].n # 0
    BY CallFields DEF Store, At
<1> HIDE DEF c
<1> QED
    BY <1>1, <1>2, <1>3, EndedIsOwn

LEMMA AnswerIsOwn ==
    ASSUME OwnInv, ServingInv', NEW p \in Processes, NEW n \in 1..call[p].n, Answer(<<p, n>>)
    PROVE  OwnInv'
<1> DEFINE j == <<p, n>>
<1>1. /\ call' = call /\ rows' = rows /\ DOMAIN jobs = Calls /\ jobs[j].state = "running"
      /\ call[p].n \in 0..MaxCalls /\ call[p].alone \in BOOLEAN
      /\ call[p].pc # "idle" => call[p].n # 0
    BY CallFields DEF Answer, OwnInv
<1>2. PICK ok \in BOOLEAN, paid \in BOOLEAN :
         jobs' = [jobs EXCEPT ![j].answered = ok,
                              ![j].state = IF Accounts(j, paid) THEN "writing" ELSE "finished"]
    BY DEF Answer
<1> DEFINE state == IF Accounts(j, paid) THEN "writing" ELSE "finished"
           job == [jobs[j] EXCEPT !.answered = ok, !.state = state]
<1>3. j \in Calls
    BY <1>1, ImproverAssumption DEF Calls
<1>4. jobs' = [jobs EXCEPT ![j] = job]
    BY <1>1, <1>2, <1>3
<1>5. ~jobs[j].cancelled => state = "writing"
    BY DEF Accounts
<1> HIDE DEF state
<1>6. DOMAIN jobs[j] = JobFields =>
         /\ DOMAIN job = JobFields /\ job.state = state
         /\ job.cancelled = jobs[j].cancelled /\ job.scrub = jobs[j].scrub
    BY DEF JobFields
<1> HIDE DEF job
<1>7. DOMAIN jobs' = Calls /\ jobs'[j] = job
      /\ \A q \in Processes \ {p} : jobs'[CallOf(q)] = jobs[CallOf(q)]
    BY <1>1, <1>3, <1>4 DEF CallOf
<1>8. Moves(p)
    BY <1>1, <1>7 DEF Moves
<1>9. ASSUME call'[p].alone PROVE OwnRow(p)'
    <2>1. OwnRow(p) /\ CallOf(p)' = CallOf(p)
        BY <1>1, <1>9 DEF OwnInv, CallOf
    <2>2. CASE j = CallOf(p) /\ call[p].pc = "waiting"
        <3>1. Awaited(j)
            BY <2>1, <2>2 DEF OwnRow
        <3>2. /\ DOMAIN jobs'[j] = JobFields /\ ~jobs'[j].cancelled /\ jobs'[j].scrub = Null
              /\ jobs'[j].state = "writing"
            BY <1>5, <1>6, <1>7, <3>1 DEF Awaited
        <3>3. Awaited(CallOf(p))'
            BY <2>1, <2>2, <3>2 DEF Awaited, Finished
        <3> QED
            BY <1>1, <2>1, <3>3 DEF OwnRow, Latest
    <2>3. CASE ~(j = CallOf(p) /\ call[p].pc = "waiting")
        <3>1. call[p].pc = "waiting" => jobs'[CallOf(p)] = jobs[CallOf(p)]
            BY <1>4, <2>3
        <3> QED
            BY <1>1, <2>1, <3>1, UnchangedRows, Bystander DEF OwnInv
    <2> QED
        BY <2>2, <2>3
<1> QED
    BY <1>1, <1>8, <1>9, QuietMove

LEMMA WriteRowIsOwn ==
    ASSUME OwnInv, ServingInv', NEW p \in Processes, NEW n \in 1..call[p].n, WriteRow(<<p, n>>)
    PROVE  OwnInv'
<1> DEFINE j == <<p, n>>
           kind == IF jobs[j].answered THEN "completion" ELSE "failure"
<1>1. /\ kind \in Kinds /\ kind # "critique"
      /\ AppendRow(Row(<<p, n>>, kind), call) /\ rows' = Append(rows, Row(<<p, n>>, kind))
      /\ jobs' = [jobs EXCEPT ![j].state = "finished"]
    BY DEF Kinds, WriteRow, AppendRow
<1> HIDE DEF kind
<1>2. /\ DOMAIN jobs = Calls /\ DOMAIN call = Processes /\ RowsTyped
      /\ n \in 1..MaxCalls
      /\ \A q \in Processes :
            /\ DOMAIN call[q] = Fields /\ call[q].alone \in BOOLEAN
            /\ call[q].pc # "idle" => call[q].n # 0
    <2>1. call[p].n \in 0..MaxCalls
        BY CallFields
    <2>2. n \in 1..MaxCalls
        BY <2>1, ImproverAssumption
    <2> QED
        BY <2>2, CallFields DEF OwnInv
<1>3. j \in Calls
    BY <1>2 DEF Calls
<1>4. call'[p].n = call[p].n /\ call'[p].pc = call[p].pc
    <2> DEFINE b == call[p].alone /\ Row(<<p, n>>, kind).owner = <<p, call[p].n>>
    <2>1. call'[p] = [call[p] EXCEPT !.alone = b]
        BY <1>1 DEF AppendRow
    <2> HIDE DEF b
    <2> QED
        BY <1>2, <2>1 DEF Fields
<1>5. ASSUME call[p].alone, n = call[p].n PROVE OwnRow(p)'
    <2>1. OwnRow(p)
        BY <1>5 DEF OwnInv
    <2>2. /\ CallOf(p)' = CallOf(p) /\ CallOf(p) = j
          /\ Latest(CallOf(p))'
          /\ \A u \in DOMAIN rows' : rows'[u].outcome = CallOf(p) =>
                rows'[u].owner = CallOf(p) /\ rows'[u].kind # "critique"
        BY <1>1, <1>2, <1>4, <1>5, <2>1, AppendedOwn
    <2>3. call[p].pc = "waiting" => Awaited(CallOf(p))'
        <3> SUFFICES ASSUME call[p].pc = "waiting" PROVE Awaited(CallOf(p))'
            OBVIOUS
        <3>1. DOMAIN jobs[j] = JobFields /\ ~jobs[j].cancelled /\ jobs[j].scrub = Null
            BY <2>1, <2>2 DEF OwnRow, Awaited
        <3> DEFINE job == [jobs[j] EXCEPT !.state = "finished"]
        <3>2. DOMAIN job = JobFields /\ ~job.cancelled /\ job.scrub = Null
            BY <3>1 DEF JobFields
        <3>3. jobs'[j] = job
            BY <1>1, <1>2, <1>3
        <3> HIDE DEF job
        <3> QED
            BY <2>2, <3>2, <3>3 DEF Awaited
    <2> QED
        BY <1>4, <2>1, <2>2, <2>3 DEF OwnRow
<1>6. DOMAIN jobs' = Calls
    BY <1>1, <1>2
<1> QED
    BY <1>1, <1>2, <1>5, <1>6, AppendingMove

LEMMA ScrubIsOwn ==
    ASSUME OwnInv, ServingInv', NEW p \in Processes, NEW n \in 1..call[p].n, Scrub(<<p, n>>)
    PROVE  OwnInv'
<1> DEFINE j == <<p, n>>
<1>1. /\ jobs[j].scrub # Null /\ rows' = Orphaned(jobs[j].scrub)
      /\ jobs' = [jobs EXCEPT ![j] = Null] /\ DOMAIN jobs = Calls
    BY DEF Scrub, OwnInv
<1>2. DOMAIN jobs' = Calls
    BY <1>1
<1>3. ASSUME NEW q \in Processes
      PROVE  /\ call'[q].n = call[q].n /\ call'[q].pc = call[q].pc
             /\ call'[q].alone \in BOOLEAN
             /\ call'[q].alone => call[q].alone /\ rows' = rows
             /\ call'[q].pc # "idle" => call[q].n # 0
    <2> DEFINE b == call[q].alone /\ rows' = rows
    <2>1. call'[q] = [call[q] EXCEPT !.alone = b] /\ b \in BOOLEAN
        BY DEF Scrub
    <2>2. b => call[q].alone /\ rows' = rows
        OBVIOUS
    <2> HIDE DEF b
    <2>3. call'[q].alone = b /\ call'[q].n = call[q].n /\ call'[q].pc = call[q].pc
        BY <2>1, CallFields DEF Fields
    <2>4. call[q].pc # "idle" => call[q].n # 0
        BY CallFields
    <2> QED
        BY <2>1, <2>2, <2>3, <2>4
<1>4. ASSUME NEW q \in Processes, call'[q].alone, call[q].pc = "waiting"
      PROVE  jobs'[CallOf(q)] = jobs[CallOf(q)]
    <2>1. Awaited(CallOf(q))
        BY <1>3, <1>4 DEF OwnInv, OwnRow
    <2>2. CallOf(q) # j
        BY <1>1, <2>1 DEF Awaited
    <2> QED
        BY <1>1, <2>2
<1> HIDE DEF j
<1> QED
    BY <1>1, <1>2, <1>3, <1>4, NeutralisedIsOwn

-------------------------------------------------------------------------------

LEMMA OwnInit == ImproverInit => OwnInv
<1> SUFFICES ASSUME ImproverInit PROVE OwnInv
    OBVIOUS
<1>1. ServingInv /\ DOMAIN jobs = Calls
    BY ServingInit DEF ImproverInit
<1>2. rows = <<>> /\ rows \in Seq(RowRecords) /\ DOMAIN rows = {}
    BY DEF ImproverInit
<1>3. RowsTyped
    BY <1>2 DEF RowsTyped
<1>4. \A p \in Processes : call[p].n = 0 /\ call[p].alone = TRUE /\ call[p].pc = "idle"
    BY DEF ImproverInit, NoCall
<1>5. CallsCounted
    <2>1. 0 \in 0..MaxCalls
        BY ImproverAssumption
    <2>2. \A p \in Processes : call[p].alone \in BOOLEAN
        BY <1>4
    <2> QED
        BY <1>4, <2>1, <2>2 DEF CallsCounted
<1>6. \A p \in Processes : OwnRow(p)
    BY <1>2, <1>4 DEF OwnRow
<1> QED
    BY <1>1, <1>3, <1>5, <1>6 DEF OwnInv

LEMMA OwnNext == OwnInv /\ [ImproverNext]_improverVars => OwnInv'
<1> SUFFICES ASSUME OwnInv, [ImproverNext]_improverVars PROVE OwnInv'
    OBVIOUS
<1>1. ServingInv'
    BY ServingNext DEF OwnInv
<1>2. ASSUME NEW p \in Processes, Serve(p) PROVE OwnInv'
    BY <1>1, <1>2, LookupIsOwn, CollectIsOwn, TimeOutIsOwn, GivingUpIsOwn, WriteStubIsOwn,
       AddCallbackIsOwn, MarkAcceptedIsOwn, RecordOutcomeIsOwn, CritiqueIsOwn, StoreIsOwn
       DEF Serve
<1>3. ASSUME NEW p \in Processes, Work(p) PROVE OwnInv'
    <2>1. PICK n \in 1..call[p].n : Answer(<<p, n>>) \/ WriteRow(<<p, n>>) \/ Scrub(<<p, n>>)
        BY <1>3 DEF Work, JobsOf
    <2> QED
        BY <1>1, <2>1, AnswerIsOwn, WriteRowIsOwn, ScrubIsOwn
<1>4. CASE UNCHANGED <<call, jobs, rows>>
    BY <1>1, <1>4 DEF OwnInv, RowsTyped, CallsCounted, Started, OwnRow, Awaited, Finished,
                      Latest, CallOf
<1> QED
    BY <1>1, <1>2, <1>3, <1>4, BeginIsOwn DEF ImproverNext, TimePasses, improverVars

(* What a row is told is about the call that owns it, and never about its   *)
(* critique's row, as long as no other call writes in between: for any      *)
(* number of processes, with workers that outlive their calls and rows that *)
(* are neutralised late.                                                    *)
THEOREM OutcomesAreOwn == ImproverSpec => []OutcomeIsOwn
<1>1. OwnInv => OutcomeIsOwn
    BY DEF OwnInv, OwnRow, OutcomeIsOwn
<1> QED
    BY <1>1, OwnInit, OwnNext, PTL DEF ImproverSpec

================================================================================
