------------------------------ MODULE ConsoleProofs ------------------------------
(****************************************************************************)
(* Proofs about the template library under the console's governed changes:  *)
(* versions are appended, an apply that nobody has disturbed has done what  *)
(* it records, and the answer of an apply is true of what it did; for any   *)
(* processes, actors, templates, variants and findings.                     *)
(****************************************************************************)
EXTENDS Console, TLAPS

-------------------------------------------------------------------------------
(* The library *)

SaveOps == [kind : {"save"}, template : Templates, source : Sources,
            visibility : {Null} \cup Visibilities, pc : {"read", "write"},
            row : Heads \cup {Null}]
OtherOps == [kind : {"archive", "unarchive", "delete"}, template : Templates,
             pc : {"read", "recall", "write"}]
NoOps == [kind : {"none"}, result : {"none", "ok", "error", "refused"}]

LibraryTyped ==
    /\ heads \in [Templates -> Heads \cup {Null}]
    /\ DOMAIN versions = Templates
    /\ saves \in [Templates -> Nat \cup {Null}]
    /\ listed \in [Processes -> (SUBSET Templates) \cup {Null}]
    /\ op \in [Actors -> SaveOps \cup OtherOps \cup NoOps]

\* A save that has read the head of a template numbers its version by what it has read:
\* it is the next one, or one that somebody else has taken since.
NumbersFit ==
    \A a \in Actors : Doing(a, "save", "write") /\ saves[op[a].template] # Null =>
        NextVersion(op[a]) <= saves[op[a].template] + 1

LibraryInv == LibraryTyped /\ VersionsAreAppended /\ NumbersFit

LEMMA OpKinds ==
    ASSUME NEW o \in SaveOps \cup OtherOps \cup NoOps
    PROVE  /\ o.kind = "save" <=> o \in SaveOps
           /\ o.kind \in {"archive", "unarchive", "delete"} <=> o \in OtherOps
           /\ o.kind = "none" <=> o \in NoOps
           /\ o.kind \in {"none", "save", "archive", "unarchive", "delete"}
BY DEF SaveOps, OtherOps, NoOps

LEMMA OpsAreOps ==
    ASSUME NEW t \in Templates
    PROVE  /\ \A result \in {"none", "ok", "error", "refused"} : NoOp(result) \in NoOps
           /\ \A source \in Sources, visibility \in {Null} \cup Visibilities :
                 SaveOp(t, source, visibility) \in SaveOps
           /\ \A kind \in {"archive", "unarchive", "delete"} : OtherOp(kind, t) \in OtherOps
BY DEF NoOp, NoOps, SaveOp, SaveOps, OtherOp, OtherOps, Sources

\* An actor turns to an operation that does not write next.
LEMMA TurnsTo ==
    ASSUME LibraryInv, NEW a \in Actors, NEW o, o \in SaveOps \cup OtherOps \cup NoOps,
           o.kind = "save" => o.pc = "read",
           op' = [op EXCEPT ![a] = o], UNCHANGED <<heads, versions, listed, saves>>
    PROVE  LibraryInv'
<1>1. op' \in [Actors -> SaveOps \cup OtherOps \cup NoOps]
    BY DEF LibraryInv, LibraryTyped
<1>2. op'[a] = o /\ \A b \in Actors \ {a} : op'[b] = op[b]
    BY DEF LibraryInv, LibraryTyped
<1>3. LibraryTyped'
    BY <1>1 DEF LibraryInv, LibraryTyped
<1>4. VersionsAreAppended'
    BY DEF LibraryInv, VersionsAreAppended, Latest
<1>5. ASSUME NEW b \in Actors, Doing(b, "save", "write")', saves'[op'[b].template] # Null
      PROVE  NextVersion(op'[b]) <= saves'[op'[b].template] + 1
    <2>1. b # a
        BY <1>2, <1>5 DEF Doing
    <2>2. op'[b] = op[b] /\ saves' = saves
        BY <1>2, <2>1
    <2> QED
        BY <1>5, <2>2 DEF LibraryInv, NumbersFit, Doing
<1> QED
    BY <1>3, <1>4, <1>5 DEF LibraryInv, NumbersFit

LEMMA SaveReadKeeps ==
    ASSUME LibraryInv, NEW a \in Actors, SaveRead(a)
    PROVE  LibraryInv'
<1> DEFINE o == op[a]
           t == o.template
           new == [o EXCEPT !.pc = "write", !.row = heads[t]]
<1>1. o \in SaveOps /\ t \in Templates /\ heads[t] \in Heads \cup {Null}
    BY OpKinds DEF SaveRead, Doing, LibraryInv, LibraryTyped, SaveOps
<1>2. /\ new \in SaveOps /\ new.template = t /\ new.row = heads[t]
    BY <1>1 DEF SaveOps
<1>3. op' = [op EXCEPT ![a] = new] /\ UNCHANGED <<heads, versions, listed, saves>>
    BY DEF SaveRead, LibraryInv, LibraryTyped
<1> HIDE DEF new, t
<1>4. /\ op' \in [Actors -> SaveOps \cup OtherOps \cup NoOps]
      /\ op'[a] = new /\ \A b \in Actors \ {a} : op'[b] = op[b]
    BY <1>2, <1>3 DEF LibraryInv, LibraryTyped
<1>5. LibraryTyped' /\ VersionsAreAppended'
    BY <1>3, <1>4 DEF LibraryInv, LibraryTyped, VersionsAreAppended, Latest
<1>6. saves[t] # Null => NextVersion(new) <= saves[t] + 1
    <2> SUFFICES ASSUME saves[t] # Null PROVE NextVersion(new) <= saves[t] + 1
        OBVIOUS
    <2>1. Latest(t) = saves[t] /\ saves[t] \in Nat
        BY <1>1 DEF LibraryInv, VersionsAreAppended, LibraryTyped
    <2>2. CASE heads[t] = Null
        BY <1>2, <2>1, <2>2 DEF NextVersion
    <2>3. CASE heads[t] # Null
        BY <1>2, <2>1, <2>3 DEF NextVersion, Latest
    <2> QED
        BY <2>2, <2>3
<1>7. ASSUME NEW b \in Actors, Doing(b, "save", "write")', saves'[op'[b].template] # Null
      PROVE  NextVersion(op'[b]) <= saves'[op'[b].template] + 1
    <2>1. CASE b = a
        BY <1>2, <1>3, <1>4, <1>6, <1>7, <2>1
    <2>2. CASE b # a
        <3>1. op'[b] = op[b] /\ saves' = saves
            BY <1>3, <1>4, <2>2
        <3> QED
            BY <1>7, <3>1 DEF LibraryInv, NumbersFit, Doing
    <2> QED
        BY <2>1, <2>2
<1> QED
    BY <1>5, <1>7 DEF LibraryInv, NumbersFit

\* What a save writes: the version after the last, on a template that still is there.
LEMMA SaveFacts ==
    ASSUME LibraryInv, NEW a \in Actors, SaveWrite(a)
    PROVE  LET o == op[a]
               t == o.template
           IN  /\ o \in SaveOps /\ t \in Templates
               /\ SavedHead(o) \in Heads /\ SavedHead(o).latest = NextVersion(o)
               /\ SavedHead(o).source = o.source
               /\ NextVersion(o) \in Nat \ {0}
               /\ saves[t] # Null =>
                     /\ saves[t] \in Nat /\ NextVersion(o) = saves[t] + 1
                     /\ ~(o.row # Null /\ heads[t] = Null)
<1> DEFINE o == op[a]
           t == o.template
<1>1. o \in SaveOps /\ o.pc = "write" /\ t \in Templates
      /\ o.row \in Heads \cup {Null} /\ o.source \in Sources
      /\ o.visibility \in {Null} \cup Visibilities
    BY OpKinds DEF SaveWrite, Doing, LibraryInv, LibraryTyped, SaveOps
<1>2. NextVersion(o) \in Nat \ {0} /\ (o.row # Null => NextVersion(o) > 1)
    BY <1>1 DEF NextVersion, Heads
<1> DEFINE visibility == IF o.visibility # Null THEN o.visibility
                         ELSE IF o.row = Null THEN DefaultVisibility(o.source)
                         ELSE o.row.visibility
<1>3. visibility \in Visibilities
    BY <1>1 DEF DefaultVisibility, Visibilities, Heads
<1>4. SavedHead(o) = Head(NextVersion(o), o.source, visibility)
    BY DEF SavedHead
<1> HIDE DEF visibility
<1>5. /\ SavedHead(o) \in Heads /\ SavedHead(o).latest = NextVersion(o)
      /\ SavedHead(o).source = o.source
    BY <1>1, <1>2, <1>3, <1>4 DEF Head, Heads
<1>6. ASSUME saves[t] # Null
      PROVE  /\ saves[t] \in Nat /\ NextVersion(o) = saves[t] + 1
             /\ ~(o.row # Null /\ heads[t] = Null)
    <2>1. /\ saves[t] \in Nat /\ Latest(t) = saves[t] /\ versions[t] = 1..saves[t]
        BY <1>1, <1>6 DEF LibraryInv, VersionsAreAppended, LibraryTyped
    <2>2. NextVersion(o) <= saves[t] + 1
        BY <1>1, <1>6 DEF LibraryInv, NumbersFit, SaveWrite
    <2>3. NextVersion(o) \notin 1..saves[t]
        BY <2>1 DEF SaveWrite, Taken
    <2>4. NextVersion(o) = saves[t] + 1
        BY <1>2, <2>1, <2>2, <2>3
    <2>5. heads[t] = Null => saves[t] = 0
        BY <2>1 DEF Latest
    <2> QED
        BY <1>2, <2>1, <2>4, <2>5
<1> QED
    BY <1>1, <1>2, <1>5, <1>6

LEMMA SaveWriteKeeps ==
    ASSUME LibraryInv, NEW a \in Actors, SaveWrite(a)
    PROVE  LibraryInv'
<1> DEFINE o == op[a]
           t == o.template
           head == SavedHead(o)
           number == NextVersion(o)
<1>1. /\ t \in Templates /\ head \in Heads /\ head.latest = number /\ number \in Nat \ {0}
      /\ saves[t] # Null => /\ saves[t] \in Nat /\ number = saves[t] + 1
                            /\ ~(o.row # Null /\ heads[t] = Null)
    BY SaveFacts
<1>2. /\ versions' = [versions EXCEPT ![t] = @ \cup {number}]
      /\ heads' = IF o.row # Null /\ heads[t] = Null THEN heads ELSE [heads EXCEPT ![t] = head]
      /\ listed' = [listed EXCEPT ![ProcessOf[a]] = Null]
      /\ op' = [op EXCEPT ![a] = NoOp("ok")]
      /\ saves' = [saves EXCEPT ![t] = IF saves[t] = Null THEN Null ELSE saves[t] + 1]
    BY <1>1 DEF SaveWrite, ForgetList, Finish, LibraryInv, LibraryTyped
<1> HIDE DEF head, number
<1>3. /\ NoOp("ok") \in NoOps /\ NoOp("ok").kind = "none"
    BY DEF NoOp, NoOps
<1>4. heads' \in [Templates -> Heads \cup {Null}] /\ DOMAIN versions' = Templates
    BY <1>1, <1>2 DEF LibraryInv, LibraryTyped
<1>5. saves' \in [Templates -> Nat \cup {Null}]
    BY <1>1, <1>2 DEF LibraryInv, LibraryTyped
<1>6. listed' \in [Processes -> (SUBSET Templates) \cup {Null}]
    BY <1>2 DEF LibraryInv, LibraryTyped
<1>7. /\ op' \in [Actors -> SaveOps \cup OtherOps \cup NoOps]
      /\ op'[a].kind = "none" /\ \A b \in Actors \ {a} : op'[b] = op[b]
    BY <1>2, <1>3 DEF LibraryInv, LibraryTyped
<1>8. LibraryTyped'
    BY <1>4, <1>5, <1>6, <1>7 DEF LibraryTyped
<1>9. ASSUME NEW u \in Templates, saves'[u] # Null
      PROVE  Latest(u)' = saves'[u] /\ versions'[u] = 1..saves'[u]
    <2>1. CASE u # t
        <3>1. heads'[u] = heads[u] /\ versions'[u] = versions[u] /\ saves'[u] = saves[u]
            BY <1>1, <1>2, <2>1 DEF LibraryInv, LibraryTyped
        <3> QED
            BY <1>9, <3>1 DEF LibraryInv, VersionsAreAppended, Latest
    <2>2. CASE u = t
        <3>1. saves[t] # Null
            BY <1>1, <1>2, <1>9, <2>2 DEF LibraryInv, LibraryTyped
        <3>2. /\ saves[t] \in Nat /\ number = saves[t] + 1 /\ saves'[t] = saves[t] + 1
              /\ heads'[t] = head /\ versions'[t] = versions[t] \cup {number}
              /\ versions[t] = 1..saves[t]
            BY <1>1, <1>2, <3>1 DEF LibraryInv, LibraryTyped, VersionsAreAppended
        <3>3. Latest(u)' = number
            BY <2>2, <1>1, <3>2, NullAssumption DEF Latest
        <3>4. 1..(saves[t] + 1) = 1..saves[t] \cup {saves[t] + 1}
            BY <3>2
        <3> QED
            BY <2>2, <3>2, <3>3, <3>4
    <2> QED
        BY <2>1, <2>2
<1>10. ASSUME NEW b \in Actors, Doing(b, "save", "write")', saves'[op'[b].template] # Null
       PROVE  NextVersion(op'[b]) <= saves'[op'[b].template] + 1
    <2> DEFINE u == op[b].template
    <2>1. b # a /\ op'[b] = op[b]
        BY <1>7, <1>10 DEF Doing
    <2>2. Doing(b, "save", "write") /\ op[b] \in SaveOps /\ u \in Templates
        BY <1>10, <2>1, OpKinds DEF Doing, LibraryInv, LibraryTyped, SaveOps
    <2>3. saves[u] # Null /\ saves[u] \in Nat /\ saves'[u] \in {saves[u], saves[u] + 1}
        BY <1>1, <1>2, <1>10, <2>1, <2>2 DEF LibraryInv, LibraryTyped
    <2>4. NextVersion(op[b]) <= saves[u] + 1
        BY <2>2, <2>3 DEF LibraryInv, NumbersFit
    <2>5. NextVersion(op[b]) \in Nat
        BY <2>2 DEF NextVersion, SaveOps, Heads
    <2> QED
        BY <2>1, <2>3, <2>4, <2>5
<1> QED
    BY <1>8, <1>9, <1>10 DEF LibraryInv, VersionsAreAppended, NumbersFit

\* The other steps of an operation write no version.
LEMMA StepKeeps ==
    ASSUME LibraryInv, NEW a \in Actors, SaveCollides(a) \/ Check(a) \/ Recall(a)
    PROVE  LibraryInv'
<1>1. op[a] \in SaveOps \cup OtherOps \cup NoOps /\ UNCHANGED <<heads, versions, listed, saves>>
    BY DEF SaveCollides, Check, Recall, LibraryInv, LibraryTyped
<1>2. ASSUME NEW result \in {"none", "ok", "error", "refused"}, Finish(a, result)
      PROVE  LibraryInv'
    <2>1. NoOp(result) \in NoOps /\ NoOp(result).kind = "none"
        BY <1>2 DEF NoOp, NoOps
    <2> QED
        BY <1>1, <1>2, <2>1, TurnsTo DEF Finish
<1>3. ASSUME NEW pc \in {"recall", "write"}, op[a].kind \in {"archive", "unarchive", "delete"},
             Proceed(a, pc)
      PROVE  LibraryInv'
    <2> DEFINE o == [op[a] EXCEPT !.pc = pc]
    <2>1. op[a] \in OtherOps
        BY <1>1, <1>3, OpKinds
    <2>2. o \in OtherOps /\ o.kind # "save"
        BY <1>3, <2>1 DEF OtherOps
    <2>3. op' = [op EXCEPT ![a] = o]
        BY <1>3 DEF Proceed, LibraryInv, LibraryTyped
    <2> HIDE DEF o
    <2> QED
        BY <1>1, <2>2, <2>3, TurnsTo
<1>4. CASE SaveCollides(a)
    BY <1>2, <1>4 DEF SaveCollides
<1>5. CASE Check(a)
    <2>1. PICK kind \in {"archive", "unarchive", "delete"} :
            /\ Doing(a, kind, "read")
            /\ \/ Finish(a, "refused")
               \/ Proceed(a, IF kind = "delete" THEN "write" ELSE "recall")
        BY <1>5 DEF Check
    <2> QED
        BY <1>2, <1>3, <2>1 DEF Doing
<1>6. CASE Recall(a)
    <2>1. /\ op[a].kind \in {"archive", "unarchive"}
          /\ Finish(a, "refused") \/ Proceed(a, "write") \/ Finish(a, "error")
        BY <1>6 DEF Recall, Doing
    <2> QED
        BY <1>2, <1>3, <2>1
<1> QED
    BY <1>4, <1>5, <1>6

\* NumbersFit looks at actors that are saving: one that is not does not count.
LEMMA FitsFrame ==
    ASSUME LibraryInv, NEW a \in Actors, op'[a].kind = "none",
           \A b \in Actors \ {a} : op'[b] = op[b],
           \A t \in Templates : saves'[t] \in {saves[t], Null}
    PROVE  NumbersFit'
<1> SUFFICES ASSUME NEW b \in Actors, Doing(b, "save", "write")', saves'[op'[b].template] # Null
             PROVE  NextVersion(op'[b]) <= saves'[op'[b].template] + 1
    BY DEF NumbersFit
<1>1. b # a /\ op'[b] = op[b]
    BY DEF Doing
<1>2. Doing(b, "save", "write") /\ op[b].template \in Templates
    BY <1>1, OpKinds DEF Doing, LibraryInv, LibraryTyped, SaveOps
<1>3. saves'[op[b].template] = saves[op[b].template] /\ saves[op[b].template] # Null
    BY <1>1, <1>2
<1> QED
    BY <1>1, <1>2, <1>3 DEF LibraryInv, NumbersFit

LEMMA ShowOrHideKeeps ==
    ASSUME LibraryInv, NEW a \in Actors, ShowOrHide(a)
    PROVE  LibraryInv'
<1> DEFINE t == op[a].template
           shown == IF op[a].kind = "archive" THEN "archived" ELSE "private"
           head == [heads[t] EXCEPT !.visibility = shown]
<1>1. t \in Templates /\ shown \in Visibilities
    BY OpKinds DEF ShowOrHide, Doing, LibraryInv, LibraryTyped, OtherOps, Visibilities
<1>2. heads[t] # Null => /\ heads[t] \in Heads /\ head \in Heads
                         /\ head.latest = heads[t].latest
    BY <1>1 DEF LibraryInv, LibraryTyped, Heads
<1>3. /\ \/ heads[t] # Null /\ heads' = [heads EXCEPT ![t] = head] /\ Finish(a, "ok")
         \/ UNCHANGED heads /\ Finish(a, "refused")
      /\ ForgetList(a) /\ UNCHANGED <<versions, saves>>
    BY <1>1 DEF ShowOrHide, LibraryInv, LibraryTyped
<1> HIDE DEF head, shown
<1>4. heads' \in [Templates -> Heads \cup {Null}]
    BY <1>1, <1>2, <1>3 DEF LibraryInv, LibraryTyped
<1>5. \A u \in Templates : Latest(u)' = Latest(u)
    BY <1>1, <1>2, <1>3, NullAssumption DEF LibraryInv, LibraryTyped, Latest
<1>6. /\ op' \in [Actors -> SaveOps \cup OtherOps \cup NoOps]
      /\ op'[a].kind = "none" /\ \A b \in Actors \ {a} : op'[b] = op[b]
    BY <1>3 DEF Finish, NoOp, NoOps, LibraryInv, LibraryTyped
<1>7. listed' \in [Processes -> (SUBSET Templates) \cup {Null}]
    BY <1>3 DEF ForgetList, LibraryInv, LibraryTyped
<1>8. LibraryTyped'
    BY <1>3, <1>4, <1>6, <1>7 DEF LibraryInv, LibraryTyped
<1>9. VersionsAreAppended'
    BY <1>3, <1>5 DEF LibraryInv, VersionsAreAppended
<1> QED
    BY <1>3, <1>6, <1>8, <1>9, FitsFrame DEF LibraryInv

LEMMA DeleteKeeps ==
    ASSUME LibraryInv, NEW a \in Actors, Delete(a)
    PROVE  LibraryInv'
<1> DEFINE t == op[a].template
<1>1. t \in Templates
    BY OpKinds DEF Delete, Doing, LibraryInv, LibraryTyped, OtherOps
<1>2. /\ heads' = [heads EXCEPT ![t] = Null] /\ versions' = [versions EXCEPT ![t] = {}]
      /\ saves' = [saves EXCEPT ![t] = Null] /\ ForgetList(a) /\ Finish(a, "ok")
    BY DEF Delete
<1>3. /\ op' \in [Actors -> SaveOps \cup OtherOps \cup NoOps]
      /\ op'[a].kind = "none" /\ \A b \in Actors \ {a} : op'[b] = op[b]
    BY <1>2 DEF Finish, NoOp, NoOps, LibraryInv, LibraryTyped
<1>4. LibraryTyped'
    BY <1>1, <1>2, <1>3 DEF ForgetList, LibraryInv, LibraryTyped
<1>5. \A u \in Templates : saves'[u] \in {saves[u], Null}
    BY <1>1, <1>2 DEF LibraryInv, LibraryTyped
<1>6. ASSUME NEW u \in Templates, saves'[u] # Null
      PROVE  Latest(u)' = saves'[u] /\ versions'[u] = 1..saves'[u]
    <2>1. u # t
        BY <1>1, <1>2, <1>6 DEF LibraryInv, LibraryTyped
    <2>2. heads'[u] = heads[u] /\ versions'[u] = versions[u] /\ saves'[u] = saves[u]
        BY <1>1, <1>2, <2>1 DEF LibraryInv, LibraryTyped
    <2> QED
        BY <1>6, <2>2 DEF LibraryInv, VersionsAreAppended, Latest
<1> QED
    BY <1>3, <1>4, <1>5, <1>6, FitsFrame DEF LibraryInv, VersionsAreAppended

LEMMA LibraryStepKeeps ==
    ASSUME LibraryInv, NEW a \in Actors, LibraryStep(a)
    PROVE  LibraryInv'
BY SaveReadKeeps, SaveWriteKeeps, StepKeeps, ShowOrHideKeeps, DeleteKeeps DEF LibraryStep

LEMMA ListKeeps ==
    ASSUME LibraryInv, NEW p \in Processes, List(p)
    PROVE  LibraryInv'
<1>1. listed' \in [Processes -> (SUBSET Templates) \cup {Null}]
    BY DEF List, Visible, LibraryInv, LibraryTyped
<1> QED
    BY <1>1 DEF List, LibraryInv, LibraryTyped, VersionsAreAppended, NumbersFit, Latest, Doing

LEMMA StopKeeps ==
    ASSUME LibraryInv, NEW p \in Processes, StopLibrary(p)
    PROVE  LibraryInv'
<1>1. /\ op' \in [Actors -> SaveOps \cup OtherOps \cup NoOps]
      /\ \A b \in Actors : op'[b].kind = "none" \/ op'[b] = op[b]
    BY DEF StopLibrary, NoOp, NoOps, LibraryInv, LibraryTyped
<1>2. listed' \in [Processes -> (SUBSET Templates) \cup {Null}]
    BY DEF StopLibrary, LibraryInv, LibraryTyped
<1>3. LibraryTyped' /\ VersionsAreAppended'
    BY <1>1, <1>2 DEF StopLibrary, LibraryInv, LibraryTyped, VersionsAreAppended, Latest
<1>4. ASSUME NEW b \in Actors, Doing(b, "save", "write")'
      PROVE  Doing(b, "save", "write") /\ op'[b] = op[b]
    BY <1>1, <1>4 DEF Doing
<1> QED
    BY <1>3, <1>4 DEF StopLibrary, LibraryInv, NumbersFit

LEMMA BeginKeeps ==
    ASSUME LibraryInv, NEW a \in Actors,
           (\E o \in Requests : Begin(a, o)) \/ (\E t \in Seeds : EnsureSeed(a, t))
    PROVE  LibraryInv'
<1>1. CASE \E o \in Requests : Begin(a, o)
    <2>1. PICK o \in Requests : Begin(a, o)
        BY <1>1
    <2>2. o \in SaveOps \cup OtherOps /\ (o.kind = "save" => o.pc = "read")
        <3>1. \/ \E kind \in {"archive", "unarchive", "delete"}, t \in Templates :
                    o = OtherOp(kind, t)
              \/ \E t \in Templates, visibility \in {Null, "public"} :
                    o = SaveOp(t, "user", visibility)
            BY DEF Requests
        <3> QED
            BY <3>1 DEF OtherOp, OtherOps, SaveOp, SaveOps, Sources, Visibilities
    <2> QED
        BY <2>1, <2>2, TurnsTo DEF Begin
<1>2. CASE \E t \in Seeds : EnsureSeed(a, t)
    <2>1. PICK t \in Seeds : EnsureSeed(a, t)
        BY <1>2
    <2>2. /\ SaveOp(t, "seed", Null) \in SaveOps
          /\ SaveOp(t, "seed", Null).pc = "read"
        BY LibraryAssumption DEF SaveOp, SaveOps, Sources
    <2> QED
        BY <2>1, <2>2, TurnsTo DEF EnsureSeed
<1> QED
    BY <1>1, <1>2

LEMMA LibraryStarts == LibraryInit => LibraryInv
<1> SUFFICES ASSUME LibraryInit PROVE LibraryInv
    OBVIOUS
<1>1. SeedHead \in Heads /\ Head(1, "user", "public") \in Heads
      /\ Head(2, "user", "public") \in Heads
    BY DEF SeedHead, Head, Heads, Sources, Visibilities
<1>2. heads \in [Templates -> Heads \cup {Null}]
    BY <1>1 DEF LibraryInit
<1>3. \A t \in Templates : Latest(t) \in Nat
    BY <1>2 DEF Latest, Heads
<1>4. LibraryTyped
    BY <1>2, <1>3 DEF LibraryInit, LibraryTyped, NoOp, NoOps
<1>5. VersionsAreAppended
    BY DEF LibraryInit, VersionsAreAppended
<1>6. NumbersFit
    BY DEF LibraryInit, NumbersFit, Doing, NoOp
<1> QED
    BY <1>4, <1>5, <1>6 DEF LibraryInv

-------------------------------------------------------------------------------
(* The console *)

ArchiveKinds == {"archive", "unused", "toxic"}

Proposals ==
    {p \in [kind : Kinds, ids : SUBSET (Templates \cup Variants)] :
        /\ p.kind \in ArchiveKinds \cup {"boost", "learn"} => p.ids \subseteq Templates
        /\ p.kind = "learn" => \E t \in Templates : p.ids = {t}
        /\ p.kind = "winner" => p.ids \subseteq Variants}

ConsoleTyped ==
    /\ preferred \in (SUBSET Templates) \cup {Null}
    /\ active \subseteq Variants
    /\ evidence \in Findings
    /\ page \subseteq Proposals
    /\ req \in [Actors -> Applies \cup {Null}]
    /\ DOMAIN answer = Actors

\* How far an apply r is, and what its actor is doing to the library for it.
Progress(r, o) ==
    /\ r.proposal \in Proposals
    /\ r.pc = "match" => /\ IsSuggestion(r.proposal) /\ ~r.changed
                         /\ r.todo = r.proposal.ids
    /\ r.pc = "set" => r.proposal.kind \in Settings \cup {"boost"}
    /\ r.pc \in {"archive", "archiving"} => /\ r.proposal.kind \in ArchiveKinds
                                            /\ r.todo \subseteq r.proposal.ids
    /\ r.pc = "switch" => /\ r.proposal.kind = "winner"
                          /\ r.todo \subseteq Variants /\ r.todo # {}
    /\ r.pc \in {"save", "saving"} => r.proposal.kind = "learn"
    /\ r.pc = "audit" => r.changed \/ r.proposal.kind = "facts"
    /\ \/ o.kind = "none"
       \/ /\ r.pc = "archiving" /\ o.kind = "archive" /\ o.template \in r.proposal.ids
       \/ /\ r.pc = "saving" /\ o.kind = "save" /\ o.template \in r.proposal.ids
          /\ o.source = "learned"
    /\ (r.pc = "saving" /\ o.kind = "none") => o.result \in {"ok", "error"}

Learnt(ids) == \E t \in ids : heads[t] # Null /\ heads[t].source = "learned"

\* What is archived is not listed; and the templates of an apply are archived.
ArchivedAndHidden(a) ==
    LET ids  == req[a].proposal.ids
        list == listed[ProcessOf[a]]
    IN  /\ ids \cap Archived # {}
        /\ list # Null => Archived \cap list = {}

\* What an apply that nobody has disturbed has achieved so far.
SoFar(a) ==
    LET r == req[a]
    IN  /\ r.pc = "audit" => InEffect(a)
        /\ r.pc = "switch" =>
              \A v \in Variants \ r.todo : v \in active <=> v \in r.proposal.ids
        /\ r.proposal.kind \in ArchiveKinds =>
              /\ r.changed => ArchivedAndHidden(a)
              /\ r.pc = "archiving" /\ op[a].kind = "none" /\ op[a].result = "ok" =>
                    ArchivedAndHidden(a)
        /\ r.pc = "saving" /\ op[a].kind = "none" /\ op[a].result = "ok" =>
              Learnt(r.proposal.ids)
        /\ r.pc = "saving" /\ op[a].kind = "save" /\ op[a].pc = "write" =>
              op[a].row = heads[op[a].template]

ApplyInv(a) ==
    req[a] # Null => /\ Progress(req[a], op[a])
                     /\ ~req[a].disturbed => SoFar(a)

ConsoleInv == ConsoleTyped /\ \A a \in Actors : ApplyInv(a)

Inv == LibraryInv /\ ConsoleInv

-------------------------------------------------------------------------------
(* What an apply is left with when others step *)

LEMMA FrameKeeps ==
    ASSUME ConsoleInv, NEW b \in Actors, req'[b] = req[b], op'[b] = op[b],
           UNCHANGED <<heads, preferred, limit, active>>,
           listed'[ProcessOf[b]] \in {listed[ProcessOf[b]], Null, Visible}
    PROVE  ApplyInv(b)'
<1> SUFFICES ASSUME req[b] # Null
             PROVE  Progress(req[b], op[b]) /\ (~req[b].disturbed => SoFar(b)')
    BY DEF ApplyInv
<1>1. ApplyInv(b)
    BY DEF ConsoleInv
<1> SUFFICES ASSUME ~req[b].disturbed PROVE SoFar(b)'
    BY <1>1 DEF ApplyInv
<1>2. SoFar(b)
    BY <1>1 DEF ApplyInv
<1>3. Archived' = Archived /\ Visible \cap Archived = {}
    BY DEF Archived, Visible
<1>4. ArchivedAndHidden(b) => ArchivedAndHidden(b)'
    BY <1>3 DEF ArchivedAndHidden
<1>5. InEffect(b) => InEffect(b)'
    <2> SUFFICES ASSUME InEffect(b) PROVE InEffect(b)'
        OBVIOUS
    <2>1. CASE KindOf(b) \in Settings \cup {"boost", "winner", "learn", "facts"}
        BY <2>1 DEF InEffect, KindOf, Preferred, Settings, Limit
    <2>2. CASE KindOf(b) \notin Settings \cup {"boost", "winner", "learn", "facts"}
        BY <1>3, <2>2 DEF InEffect, KindOf
    <2> QED
        BY <2>1, <2>2
<1>6. \A ids : Learnt(ids) => Learnt(ids)'
    BY DEF Learnt
<1> QED
    BY <1>2, <1>4, <1>5, <1>6 DEF SoFar

LEMMA DisturbedKeeps ==
    ASSUME ConsoleInv, NEW b \in Actors, req[b] # Null, op'[b] = op[b],
           req'[b] = [req[b] EXCEPT !.disturbed = TRUE]
    PROVE  ApplyInv(b)'
<1> DEFINE r == req[b]
           new == [r EXCEPT !.disturbed = TRUE]
<1>1. r \in Applies /\ Progress(r, op[b])
    BY DEF ConsoleInv, ConsoleTyped, ApplyInv
<1>2. /\ new.disturbed = TRUE /\ new.proposal = r.proposal /\ new.pc = r.pc
      /\ new.todo = r.todo /\ new.changed = r.changed
    BY <1>1 DEF Applies
<1>3. req'[b] = new
    OBVIOUS
<1> HIDE DEF r, new
<1>4. Progress(new, op[b])
    BY <1>1, <1>2 DEF Progress
<1> QED
    BY <1>2, <1>3, <1>4 DEF ApplyInv

LEMMA DisturbedIs ==
    ASSUME ConsoleInv, NEW a \in Actors
    PROVE  /\ Disturbed(a) \in [Actors -> Applies \cup {Null}]
           /\ Disturbed(a)[a] = req[a]
           /\ \A b \in Actors \ {a} : req[b] # Null =>
                 Disturbed(a)[b] = [req[b] EXCEPT !.disturbed = TRUE]
           /\ \A b \in Actors \ {a} : req[b] = Null => Disturbed(a)[b] = Null
<1>1. \A b \in Actors : req[b] # Null => [req[b] EXCEPT !.disturbed = TRUE] \in Applies
    <2> SUFFICES ASSUME NEW b \in Actors, req[b] # Null
                 PROVE  [req[b] EXCEPT !.disturbed = TRUE] \in Applies
        OBVIOUS
    <2>1. req[b] \in Applies
        BY DEF ConsoleInv, ConsoleTyped
    <2> QED
        BY <2>1 DEF Applies
<1> QED
    BY <1>1 DEF Disturbed, ConsoleInv, ConsoleTyped

\* A step of an actor that the applies of the others do not notice ...
LEMMA QuietStep ==
    ASSUME ConsoleInv, NEW a \in Actors, NEW new, new \in Applies \cup {Null},
           req' = [req EXCEPT ![a] = new],
           \A b \in Actors \ {a} : op'[b] = op[b],
           UNCHANGED <<heads, preferred, limit, active, evidence, page>>,
           \A p \in Processes : listed'[p] \in {listed[p], Null},
           DOMAIN answer' = Actors, ApplyInv(a)'
    PROVE  ConsoleInv'
<1>1. ConsoleTyped'
    BY DEF ConsoleInv, ConsoleTyped
<1>2. ASSUME NEW b \in Actors \ {a} PROVE ApplyInv(b)'
    <2>1. req'[b] = req[b] /\ op'[b] = op[b]
        BY <1>2 DEF ConsoleInv, ConsoleTyped
    <2>2. listed'[ProcessOf[b]] \in {listed[ProcessOf[b]], Null}
        BY LibraryAssumption
    <2> QED
        BY <2>1, <2>2, FrameKeeps
<1> QED
    BY <1>1, <1>2 DEF ConsoleInv

\* ... and one that disturbs them.
LEMMA LoudStep ==
    ASSUME ConsoleInv, NEW a \in Actors, NEW new, new \in Applies \cup {Null},
           req' = [Disturbed(a) EXCEPT ![a] = new],
           \A b \in Actors \ {a} : op'[b] = op[b],
           preferred' \in (SUBSET Templates) \cup {Null}, active' \subseteq Variants,
           UNCHANGED <<evidence, page>>,
           DOMAIN answer' = Actors, ApplyInv(a)'
    PROVE  ConsoleInv'
<1>1. ConsoleTyped'
    BY DisturbedIs DEF ConsoleInv, ConsoleTyped
<1>2. ASSUME NEW b \in Actors \ {a} PROVE ApplyInv(b)'
    <2>1. req'[b] = Disturbed(a)[b] /\ op'[b] = op[b]
        BY <1>2, DisturbedIs DEF ConsoleInv, ConsoleTyped
    <2>2. CASE req[b] = Null
        BY <2>1, <2>2, DisturbedIs, <1>2 DEF ApplyInv
    <2>3. CASE req[b] # Null
        BY <2>1, <2>3, DisturbedIs, DisturbedKeeps, <1>2
    <2> QED
        BY <2>2, <2>3
<1> QED
    BY <1>1, <1>2 DEF ConsoleInv

-------------------------------------------------------------------------------
(* The steps of an apply *)

LEMMA PendingAreProposals ==
    ASSUME ConsoleTyped PROVE Pending \subseteq Proposals
<1> SUFFICES ASSUME NEW p \in Pending PROVE p \in Proposals
    OBVIOUS
<1>1. /\ evidence.high \subseteq Templates /\ evidence.zero \subseteq Templates
      /\ evidence.repeated \subseteq Templates /\ evidence.winner \in Variants \cup {Null}
    BY ConsoleAssumption DEF ConsoleTyped
<1>2. \/ \E kind \in {"trim", "facts", "preset"} : p = Proposal(kind, {})
      \/ \E kind \in {"raise", "boost", "archive", "learn"}, t \in Templates :
            p = Proposal(kind, {t})
      \/ \E v \in Variants : p = Proposal("winner", {v})
      \/ \E kind \in {"unused", "toxic"}, ids \in SUBSET Templates : p = Proposal(kind, ids)
    <2>1. CASE p \in Suggestions
        <3>1. CASE p \in ImproverSuggestions
            BY <3>1 DEF ImproverSuggestions
        <3>2. CASE p \in TemplateSuggestions
            <4>1. \/ \E t \in evidence.high : p = Proposal("raise", {t})
                  \/ \E t \in evidence.high : p = Proposal("boost", {t})
                  \/ \E t \in evidence.zero : p = Proposal("archive", {t})
                BY <3>2 DEF TemplateSuggestions
            <4> QED
                BY <1>1, <4>1
        <3>3. CASE p \in PatternSuggestions
            BY <1>1, <3>3 DEF PatternSuggestions
        <3> QED
            BY <2>1, <3>1, <3>2, <3>3 DEF Suggestions
    <2>2. CASE p \in Winners
        BY <1>1, <2>2 DEF Winners
    <2>3. CASE p \in Controls
        <3>1. Unused \subseteq Templates /\ Toxic \subseteq Templates
            BY <1>1 DEF Unused, Toxic, Public
        <3> QED
            BY <2>3, <3>1 DEF Controls
    <2> QED
        BY <2>1, <2>2, <2>3 DEF Pending
<1>3. ASSUME NEW kind \in Kinds, NEW ids \in SUBSET (Templates \cup Variants),
             p = Proposal(kind, ids)
      PROVE  p \in [kind : Kinds, ids : SUBSET (Templates \cup Variants)]
             /\ p.kind = kind /\ p.ids = ids
    BY <1>3 DEF Proposal
<1>4. CASE \E kind \in {"trim", "facts", "preset"} : p = Proposal(kind, {})
    BY <1>3, <1>4 DEF Proposals, Kinds, ArchiveKinds
<1>5. CASE \E kind \in {"raise", "boost", "archive", "learn"}, t \in Templates :
              p = Proposal(kind, {t})
    <2>1. PICK kind \in {"raise", "boost", "archive", "learn"}, t \in Templates :
                p = Proposal(kind, {t})
        BY <1>5
    <2>2. {t} \in SUBSET (Templates \cup Variants) /\ kind \in Kinds
        BY DEF Kinds
    <2>3. /\ p \in [kind : Kinds, ids : SUBSET (Templates \cup Variants)]
          /\ p.kind = kind /\ p.ids = {t}
        BY <1>3, <2>1, <2>2
    <2> QED
        BY <2>3 DEF Proposals, ArchiveKinds
<1>6. CASE \E v \in Variants : p = Proposal("winner", {v})
    <2>1. PICK v \in Variants : p = Proposal("winner", {v})
        BY <1>6
    <2>2. {v} \in SUBSET (Templates \cup Variants) /\ "winner" \in Kinds
        BY DEF Kinds
    <2>3. /\ p \in [kind : Kinds, ids : SUBSET (Templates \cup Variants)]
          /\ p.kind = "winner" /\ p.ids = {v}
        BY <1>3, <2>1, <2>2
    <2> QED
        BY <2>3 DEF Proposals, ArchiveKinds
<1>7. CASE \E kind \in {"unused", "toxic"}, ids \in SUBSET Templates : p = Proposal(kind, ids)
    BY <1>3, <1>7 DEF Proposals, Kinds, ArchiveKinds
<1> QED
    BY <1>2, <1>4, <1>5, <1>6, <1>7

LEMMA ApplyKeeps ==
    ASSUME Inv, NEW a \in Actors, NEW p \in page, Apply(a, p)
    PROVE  ConsoleInv'
<1> DEFINE new == NewApply(p)
<1>1. p \in Proposals /\ p.kind \in Kinds /\ p.ids \in SUBSET (Templates \cup Variants)
    BY DEF Inv, ConsoleInv, ConsoleTyped, Proposals
<1>2. /\ new.proposal = p /\ new.changed = FALSE /\ new.disturbed = FALSE /\ new.seen = {}
      /\ new.pc = IF IsSuggestion(p) THEN "match" ELSE WorkOf(p.kind)
      /\ new.todo = IF p.kind = "winner" THEN Variants ELSE p.ids
    BY DEF NewApply
<1>3. new.pc \in {"match", "set", "archive", "switch", "audit"}
      /\ (new.pc = "match" => IsSuggestion(p))
      /\ (new.pc = "set" => p.kind = "preset")
      /\ (new.pc = "archive" => p.kind \in {"unused", "toxic"})
      /\ (new.pc = "switch" => p.kind = "winner")
      /\ (new.pc = "audit" => p.kind = "facts")
    BY <1>1, <1>2 DEF Kinds, IsSuggestion, WorkOf, Settings
<1>4. new \in Applies
    <2>1. /\ new.proposal \in [kind : Kinds, ids : SUBSET (Templates \cup Variants)]
          /\ new.pc \in Places /\ new.todo \in SUBSET (Templates \cup Variants)
          /\ new.seen \in SUBSET Templates
        BY <1>1, <1>2, <1>3 DEF Proposals, Places
    <2> QED
        BY <2>1, <1>2 DEF NewApply, Applies
<1>5. req' = [req EXCEPT ![a] = new] /\ answer' = [answer EXCEPT ![a] = "none"]
      /\ op[a].kind = "none"
      /\ UNCHANGED <<libraryVars, settingVars, audit, evidence, page>>
    BY DEF Apply, Idle
<1> HIDE DEF new
<1>6. Progress(new, op[a])
    BY <1>1, <1>2, <1>3, <1>5, ConsoleAssumption
       DEF Progress, Settings, ArchiveKinds, IsSuggestion
<1>7. req'[a] = new
    BY <1>5 DEF Inv, ConsoleInv, ConsoleTyped
<1>8. SoFar(a)'
    BY <1>2, <1>3, <1>5, <1>7 DEF SoFar, InEffect, KindOf, Settings
<1>9. ApplyInv(a)'
    BY <1>5, <1>6, <1>7, <1>8 DEF ApplyInv, libraryVars
<1>10. ConsoleInv /\ DOMAIN answer' = Actors
    BY <1>5 DEF Inv, ConsoleInv, ConsoleTyped
<1> QED
    BY <1>4, <1>5, <1>9, <1>10, QuietStep, LibraryAssumption DEF libraryVars, settingVars

\* What is known of an apply that goes on.
LEMMA AtFacts ==
    ASSUME Inv, NEW a \in Actors, NEW pc, At(a, pc)
    PROVE  /\ req[a] \in Applies /\ req[a].pc = pc /\ Progress(req[a], op[a])
           /\ ~req[a].disturbed => SoFar(a)
           /\ op[a].kind = "none" /\ op[a] \in NoOps
           /\ req[a].proposal.kind \in Kinds
           /\ req[a].proposal.ids \in SUBSET (Templates \cup Variants)
<1>1. /\ req[a] \in Applies /\ req[a].pc = pc /\ Progress(req[a], op[a])
      /\ ~req[a].disturbed => SoFar(a)
      /\ op[a].kind = "none"
    BY DEF At, Idle, Inv, ConsoleInv, ConsoleTyped, ApplyInv
<1>2. op[a] \in NoOps
    BY <1>1, OpKinds DEF Inv, LibraryInv, LibraryTyped
<1>3. req[a].proposal \in Proposals
    BY <1>1 DEF Progress
<1> QED
    BY <1>1, <1>2, <1>3 DEF Proposals

\* An apply ends, and has no part in what follows.
LEMMA EndKeeps ==
    ASSUME Inv, NEW a \in Actors, NEW result, End(a, result),
           UNCHANGED <<libraryVars, settingVars, evidence, page>>
    PROVE  ConsoleInv'
<1>1. req' = [req EXCEPT ![a] = Null] /\ answer' = [answer EXCEPT ![a] = result]
    BY DEF End
<1>2. req'[a] = Null /\ DOMAIN answer' = Actors
    BY <1>1 DEF Inv, ConsoleInv, ConsoleTyped
<1>3. ApplyInv(a)'
    BY <1>2 DEF ApplyInv
<1> QED
    BY <1>1, <1>2, <1>3, QuietStep DEF Inv, libraryVars, settingVars

LEMMA MatchKeeps ==
    ASSUME Inv, NEW a \in Actors, Match(a)
    PROVE  ConsoleInv'
<1> DEFINE r == req[a]
           kind == r.proposal.kind
           new == [r EXCEPT !.pc = WorkOf(kind), !.seen = Preferred]
<1>1. /\ r \in Applies /\ r.pc = "match" /\ Progress(r, op[a]) /\ op[a].kind = "none"
      /\ kind \in Kinds
    BY AtFacts DEF Match
<1>2. IsSuggestion(r.proposal) /\ ~r.changed /\ r.todo = r.proposal.ids
    BY <1>1 DEF Progress
<1>3. /\ WorkOf(kind) \in {"set", "archive", "save"}
      /\ WorkOf(kind) = "set" => kind \in Settings \cup {"boost"}
      /\ WorkOf(kind) = "archive" => kind = "archive"
      /\ WorkOf(kind) = "save" => kind = "learn"
    BY <1>2 DEF IsSuggestion, WorkOf, Settings
<1>4. Preferred \in SUBSET Templates
    BY DEF Preferred, Inv, ConsoleInv, ConsoleTyped
<1>5. /\ new \in Applies /\ new.proposal = r.proposal /\ new.pc = WorkOf(kind)
      /\ new.todo = r.todo /\ new.changed = r.changed /\ new.disturbed = r.disturbed
    BY <1>1, <1>3, <1>4 DEF Applies, Places
<1>6. CASE r.proposal \in Suggestions
    <2>1. req' = [req EXCEPT ![a] = new] /\ UNCHANGED answer
        BY <1>6 DEF Match, KindOf, Inv, ConsoleInv, ConsoleTyped
    <2>2. UNCHANGED <<libraryVars, settingVars, evidence, page>>
        BY DEF Match
    <2> HIDE DEF new
    <2>3. req'[a] = new /\ DOMAIN answer' = Actors
        BY <2>1 DEF Inv, ConsoleInv, ConsoleTyped
    <2>4. Progress(new, op[a])
        BY <1>1, <1>2, <1>3, <1>5 DEF Progress, ArchiveKinds
    <2>5. SoFar(a)'
        BY <1>2, <1>3, <1>5, <2>3 DEF SoFar
    <2>6. ApplyInv(a)'
        BY <2>2, <2>3, <2>4, <2>5 DEF ApplyInv, libraryVars
    <2> QED
        BY <1>5, <2>1, <2>2, <2>3, <2>6, QuietStep DEF Inv, libraryVars, settingVars
<1>7. CASE r.proposal \notin Suggestions
    BY <1>7, EndKeeps DEF Match
<1> QED
    BY <1>6, <1>7

LEMMA SetSettingKeeps ==
    ASSUME Inv, NEW a \in Actors, SetSetting(a)
    PROVE  ConsoleInv'
<1> DEFINE r == req[a]
           kind == r.proposal.kind
           new == [r EXCEPT !.pc = "audit", !.changed = TRUE]
<1>1. /\ r \in Applies /\ r.pc = "set" /\ Progress(r, op[a]) /\ op[a].kind = "none"
      /\ kind \in Settings \cup {"boost"}
      /\ kind = "boost" => r.proposal.ids \subseteq Templates
    <2>1. r \in Applies /\ r.pc = "set" /\ Progress(r, op[a]) /\ op[a].kind = "none"
        BY AtFacts DEF SetSetting
    <2> QED
        BY <2>1 DEF Progress, Proposals
<1>2. /\ new \in Applies /\ new.proposal = r.proposal /\ new.pc = "audit" /\ new.seen = r.seen
      /\ new.todo = r.todo /\ new.changed = TRUE /\ new.disturbed = r.disturbed
      /\ r.seen \subseteq Templates
    BY <1>1 DEF Applies, Places
<1>3. req' = [Disturbed(a) EXCEPT ![a] = new]
    BY DisturbedIs DEF SetSetting, Goes, Inv
<1>4. /\ kind = "boost" => preferred' = r.seen \cup r.proposal.ids
      /\ kind # "boost" => limit' = Limit(kind) /\ UNCHANGED preferred
      /\ UNCHANGED <<libraryVars, active, audit, evidence, page, answer, begun>>
    BY DEF SetSetting, KindOf
<1> HIDE DEF new
<1>5. /\ req'[a] = new
      /\ preferred' \in (SUBSET Templates) \cup {Null} /\ active' \subseteq Variants
      /\ DOMAIN answer' = Actors
    BY <1>1, <1>2, <1>3, <1>4, DisturbedIs DEF Inv, ConsoleInv, ConsoleTyped
<1>6. Progress(new, op[a])
    BY <1>1, <1>2 DEF Progress
<1>7. InEffect(a)'
    <2>1. CASE kind = "boost"
        <3>1. preferred' = r.seen \cup r.proposal.ids /\ preferred' # Null
            BY <1>1, <1>2, <1>4, <2>1, NullAssumption
        <3> QED
            BY <1>2, <1>5, <2>1, <3>1 DEF InEffect, KindOf, Preferred, Settings
    <2>2. CASE kind \in Settings
        BY <1>2, <1>4, <1>5, <2>2 DEF InEffect, KindOf, Settings, Limit
    <2> QED
        BY <1>1, <2>1, <2>2
<1>8. SoFar(a)'
    BY <1>1, <1>2, <1>5, <1>7 DEF SoFar, ArchiveKinds, Settings
<1>9. ApplyInv(a)'
    BY <1>4, <1>5, <1>6, <1>8 DEF ApplyInv, libraryVars
<1> QED
    BY <1>2, <1>3, <1>4, <1>5, <1>9, LoudStep DEF Inv, libraryVars

LEMMA ArchiveNextKeeps ==
    ASSUME Inv, NEW a \in Actors, NEW t \in Templates, ArchiveNext(a, t)
    PROVE  Inv'
<1> DEFINE r == req[a]
           o == OtherOp("archive", t)
           new == [r EXCEPT !.todo = @ \ {t}, !.pc = "archiving"]
<1>1. /\ r \in Applies /\ r.pc = "archive" /\ Progress(r, op[a])
      /\ ~r.disturbed => SoFar(a)
    BY AtFacts DEF ArchiveNext
<1>2. t \in r.proposal.ids /\ r.todo \subseteq r.proposal.ids
    BY <1>1 DEF ArchiveNext, Progress
<1>3. /\ new \in Applies /\ new.proposal = r.proposal /\ new.pc = "archiving"
      /\ new.todo = r.todo \ {t} /\ new.changed = r.changed /\ new.disturbed = r.disturbed
    BY <1>1 DEF Applies, Places
<1>4. o \in OtherOps /\ o.kind = "archive" /\ o.template = t
    BY DEF OtherOp, OtherOps
<1>5. /\ req' = [req EXCEPT ![a] = new] /\ op' = [op EXCEPT ![a] = o]
      /\ UNCHANGED <<heads, versions, listed, saves, settingVars, audit, evidence, page, answer>>
    BY DEF ArchiveNext, Inv, ConsoleInv, ConsoleTyped
<1> HIDE DEF new, o
<1>6. /\ req'[a] = new /\ op'[a] = o /\ \A b \in Actors \ {a} : op'[b] = op[b]
      /\ DOMAIN answer' = Actors
    BY <1>5 DEF Inv, ConsoleInv, ConsoleTyped, LibraryInv, LibraryTyped
<1>7. Progress(new, o)
    BY <1>1, <1>2, <1>3, <1>4 DEF Progress
<1>8. ~new.disturbed => SoFar(a)'
    <2> SUFFICES ASSUME ~r.disturbed PROVE SoFar(a)'
        BY <1>3
    <2>1. ArchivedAndHidden(a) => ArchivedAndHidden(a)'
        BY <1>3, <1>5, <1>6 DEF ArchivedAndHidden, Archived
    <2> QED
        BY <1>1, <1>3, <1>4, <1>6, <2>1 DEF SoFar
<1>9. ApplyInv(a)'
    BY <1>6, <1>7, <1>8 DEF ApplyInv
<1>10. ConsoleInv'
    BY <1>3, <1>5, <1>6, <1>9, QuietStep DEF Inv, settingVars
<1>11. LibraryInv'
    BY <1>4, <1>5, TurnsTo DEF Inv
<1> QED
    BY <1>10, <1>11 DEF Inv

LEMMA ArchiveReturnsKeeps ==
    ASSUME Inv, NEW a \in Actors, ArchiveReturns(a)
    PROVE  ConsoleInv'
<1> DEFINE r == req[a]
           done == r.changed \/ op[a].result = "ok"
           new == [r EXCEPT !.pc = "archive", !.changed = done]
<1>1. /\ r \in Applies /\ r.pc = "archiving" /\ Progress(r, op[a]) /\ op[a].kind = "none"
      /\ ~r.disturbed => SoFar(a)
    BY AtFacts DEF ArchiveReturns
<1>2. r.proposal.kind \in ArchiveKinds /\ r.todo \subseteq r.proposal.ids
    BY <1>1 DEF Progress
<1>3. done \in BOOLEAN
    BY <1>1 DEF Applies
<1>4. (~r.disturbed /\ done) => ArchivedAndHidden(a)
    BY <1>1, <1>2 DEF SoFar
<1>5. \/ op[a].result = "error"
      \/ /\ req' = [req EXCEPT ![a].pc = "archive", ![a].changed = done]
         /\ UNCHANGED answer
    BY DEF ArchiveReturns
<1>6. UNCHANGED <<libraryVars, settingVars, audit, evidence, page, begun>>
    BY DEF ArchiveReturns
<1> HIDE DEF done
<1>7. /\ new \in Applies /\ new.proposal = r.proposal /\ new.pc = "archive"
      /\ new.todo = r.todo /\ new.changed = done /\ new.disturbed = r.disturbed
    BY <1>1, <1>3 DEF Applies, Places
<1>8. CASE op[a].result = "error"
    BY <1>6, <1>8, EndKeeps DEF ArchiveReturns
<1>9. CASE op[a].result # "error"
    <2>1. req' = [req EXCEPT ![a] = new] /\ UNCHANGED answer
        BY <1>5, <1>9 DEF Inv, ConsoleInv, ConsoleTyped
    <2> HIDE DEF new
    <2>2. req'[a] = new /\ DOMAIN answer' = Actors
        BY <2>1 DEF Inv, ConsoleInv, ConsoleTyped
    <2>3. Progress(new, op[a])
        BY <1>1, <1>2, <1>7 DEF Progress
    <2>4. ~new.disturbed => SoFar(a)'
        <3> SUFFICES ASSUME ~r.disturbed PROVE SoFar(a)'
            BY <1>7
        <3>1. done => ArchivedAndHidden(a)'
            BY <1>4, <1>6, <1>7, <2>2 DEF ArchivedAndHidden, Archived, libraryVars
        <3> QED
            BY <1>7, <2>2, <3>1 DEF SoFar
    <2>5. ApplyInv(a)'
        BY <1>6, <2>2, <2>3, <2>4 DEF ApplyInv, libraryVars
    <2> QED
        BY <1>6, <1>7, <2>1, <2>2, <2>5, QuietStep DEF Inv, libraryVars, settingVars
<1> QED
    BY <1>8, <1>9

LEMMA ArchivesEndKeeps ==
    ASSUME Inv, NEW a \in Actors, ArchivesEnd(a)
    PROVE  ConsoleInv'
<1> DEFINE r == req[a]
           new == [r EXCEPT !.pc = "audit"]
<1>1. /\ r \in Applies /\ r.pc = "archive" /\ Progress(r, op[a]) /\ op[a].kind = "none"
      /\ ~r.disturbed => SoFar(a)
    BY AtFacts DEF ArchivesEnd
<1>2. r.proposal.kind \in ArchiveKinds
    BY <1>1 DEF Progress
<1>3. /\ new \in Applies /\ new.proposal = r.proposal /\ new.pc = "audit"
      /\ new.todo = r.todo /\ new.changed = r.changed /\ new.disturbed = r.disturbed
    BY <1>1 DEF Applies, Places
<1>4. UNCHANGED <<libraryVars, settingVars, audit, evidence, page, begun>>
    BY DEF ArchivesEnd
<1>5. CASE ~SomeArchived(a)
    BY <1>4, <1>5, EndKeeps DEF ArchivesEnd
<1>6. CASE SomeArchived(a)
    <2>1. req' = [req EXCEPT ![a] = new] /\ UNCHANGED answer /\ r.changed
        BY <1>6 DEF ArchivesEnd, SomeArchived, Inv, ConsoleInv, ConsoleTyped
    <2> HIDE DEF new
    <2>2. req'[a] = new /\ DOMAIN answer' = Actors
        BY <2>1 DEF Inv, ConsoleInv, ConsoleTyped
    <2>3. Progress(new, op[a])
        BY <1>1, <1>3, <2>1 DEF Progress
    <2>4. ~new.disturbed => SoFar(a)'
        <3> SUFFICES ASSUME ~r.disturbed PROVE SoFar(a)'
            BY <1>3
        <3>1. ArchivedAndHidden(a)
            BY <1>1, <1>2, <2>1 DEF SoFar
        <3>2. ArchivedAndHidden(a)'
            BY <1>3, <1>4, <2>2, <3>1 DEF ArchivedAndHidden, Archived, libraryVars
        <3>3. InEffect(a)'
            BY <1>2, <1>3, <2>2, <3>2
               DEF InEffect, KindOf, ArchiveKinds, Settings, ArchivedAndHidden
        <3> QED
            BY <1>3, <2>2, <3>2, <3>3 DEF SoFar
    <2>5. ApplyInv(a)'
        BY <1>4, <2>2, <2>3, <2>4 DEF ApplyInv, libraryVars
    <2> QED
        BY <1>3, <1>4, <2>1, <2>2, <2>5, QuietStep DEF Inv, libraryVars, settingVars
<1> QED
    BY <1>5, <1>6

LEMMA SwitchVariantKeeps ==
    ASSUME Inv, NEW a \in Actors, SwitchVariant(a)
    PROVE  ConsoleInv'
<1> DEFINE r    == req[a]
           ids  == r.proposal.ids
           v    == CHOOSE x \in r.todo : \A y \in r.todo : x <= y
           left == r.todo \ {v}
           pc   == IF left = {} THEN "audit" ELSE "switch"
           new  == [r EXCEPT !.pc = pc, !.changed = TRUE, !.todo = left]
<1>1. /\ r \in Applies /\ r.pc = "switch" /\ Progress(r, op[a]) /\ op[a].kind = "none"
      /\ ~r.disturbed => SoFar(a)
    BY AtFacts DEF SwitchVariant
<1>2. /\ r.proposal.kind = "winner" /\ ids \subseteq Variants /\ r.todo \subseteq Variants
    BY <1>1 DEF Progress, Proposals
<1>3. /\ active' = Switched(a, v)
      /\ UNCHANGED <<libraryVars, preferred, limit, audit, evidence, page, answer, begun>>
    BY DEF SwitchVariant
<1>4. req' = [Goes(a, pc) EXCEPT ![a].todo = left]
    BY DEF SwitchVariant
<1> HIDE DEF v
<1>5. left \subseteq r.todo /\ pc \in {"audit", "switch"} /\ (pc = "switch" => left # {})
      /\ (pc = "audit" => left = {})
    OBVIOUS
<1>6. /\ active' \subseteq Variants
      /\ \A w \in Variants : w \in active' <=> IF w = v THEN w \in ids ELSE w \in active
    BY <1>2, <1>3 DEF Switched, Inv, ConsoleInv, ConsoleTyped
<1>7. ~r.disturbed => \A w \in Variants \ left : w \in active' <=> w \in ids
    BY <1>1, <1>6 DEF SoFar
<1> HIDE DEF left, pc
<1>8. req' = [Disturbed(a) EXCEPT ![a] = new]
    BY <1>4, DisturbedIs DEF Goes, Inv
<1>9. /\ new \in Applies /\ new.proposal = r.proposal /\ new.pc = pc
      /\ new.todo = left /\ new.changed = TRUE /\ new.disturbed = r.disturbed
    BY <1>1, <1>5 DEF Applies, Places
<1> HIDE DEF new
<1>10. req'[a] = new /\ DOMAIN answer' = Actors
    BY <1>3, <1>8, DisturbedIs DEF Inv, ConsoleInv, ConsoleTyped
<1>11. Progress(new, op[a])
    BY <1>1, <1>2, <1>5, <1>9 DEF Progress
<1>12. ~new.disturbed => SoFar(a)'
    <2> SUFFICES ASSUME ~r.disturbed PROVE SoFar(a)'
        BY <1>9
    <2>1. pc = "audit" => active' = ids
        BY <1>2, <1>5, <1>6, <1>7
    <2>2. pc = "audit" => InEffect(a)'
        BY <1>2, <1>9, <1>10, <2>1 DEF InEffect, KindOf, Settings
    <2> QED
        BY <1>2, <1>5, <1>7, <1>9, <1>10, <2>2 DEF SoFar, ArchiveKinds
<1>13. ApplyInv(a)'
    BY <1>3, <1>10, <1>11, <1>12 DEF ApplyInv, libraryVars
<1>14. preferred' \in (SUBSET Templates) \cup {Null}
    BY <1>3 DEF Inv, ConsoleInv, ConsoleTyped
<1> QED
    BY <1>3, <1>6, <1>8, <1>9, <1>10, <1>13, <1>14, LoudStep DEF Inv, libraryVars

LEMMA SaveLearnedKeeps ==
    ASSUME Inv, NEW a \in Actors, SaveLearned(a)
    PROVE  Inv'
<1> DEFINE r == req[a]
           t == CHOOSE x \in r.proposal.ids : TRUE
           o == SaveOp(t, "learned", Null)
           new == [r EXCEPT !.pc = "saving"]
<1>1. /\ r \in Applies /\ r.pc = "save" /\ Progress(r, op[a])
    BY AtFacts DEF SaveLearned
<1>2. r.proposal.kind = "learn" /\ t \in r.proposal.ids /\ t \in Templates
    BY <1>1 DEF Progress, Proposals
<1>3. /\ new \in Applies /\ new.proposal = r.proposal /\ new.pc = "saving"
      /\ new.todo = r.todo /\ new.changed = r.changed /\ new.disturbed = r.disturbed
    BY <1>1 DEF Applies, Places
<1>4. /\ req' = [req EXCEPT ![a] = new] /\ op' = [op EXCEPT ![a] = o]
      /\ UNCHANGED <<heads, versions, listed, saves, settingVars, audit, evidence, page, answer>>
    BY DEF SaveLearned, Inv, ConsoleInv, ConsoleTyped
<1> HIDE DEF t
<1>5. /\ o \in SaveOps /\ o.kind = "save" /\ o.template = t /\ o.source = "learned"
      /\ o.pc = "read"
    BY <1>2 DEF SaveOp, SaveOps, Sources
<1> HIDE DEF new, o
<1>6. /\ req'[a] = new /\ op'[a] = o /\ \A b \in Actors \ {a} : op'[b] = op[b]
      /\ DOMAIN answer' = Actors
    BY <1>4 DEF Inv, ConsoleInv, ConsoleTyped, LibraryInv, LibraryTyped
<1>7. Progress(new, o)
    BY <1>1, <1>2, <1>3, <1>5 DEF Progress
<1>8. SoFar(a)'
    BY <1>2, <1>3, <1>5, <1>6 DEF SoFar, ArchiveKinds
<1>9. ApplyInv(a)'
    BY <1>6, <1>7, <1>8 DEF ApplyInv
<1>10. ConsoleInv'
    BY <1>3, <1>4, <1>6, <1>9, QuietStep DEF Inv, settingVars
<1>11. LibraryInv'
    BY <1>4, <1>5, TurnsTo DEF Inv
<1> QED
    BY <1>10, <1>11 DEF Inv

LEMMA SaveReturnsKeeps ==
    ASSUME Inv, NEW a \in Actors, SaveReturns(a)
    PROVE  ConsoleInv'
<1> DEFINE r == req[a]
           new == [r EXCEPT !.pc = "audit", !.changed = TRUE]
<1>1. /\ r \in Applies /\ r.pc = "saving" /\ Progress(r, op[a]) /\ op[a].kind = "none"
      /\ ~r.disturbed => SoFar(a)
    BY AtFacts DEF SaveReturns
<1>2. r.proposal.kind = "learn" /\ op[a].result \in {"ok", "error"}
    BY <1>1 DEF Progress
<1>3. /\ new \in Applies /\ new.proposal = r.proposal /\ new.pc = "audit"
      /\ new.todo = r.todo /\ new.changed = TRUE /\ new.disturbed = r.disturbed
    BY <1>1 DEF Applies, Places
<1>4. UNCHANGED <<libraryVars, settingVars, audit, evidence, page, begun>>
    BY DEF SaveReturns
<1>5. CASE op[a].result = "error"
    BY <1>4, <1>5, EndKeeps DEF SaveReturns
<1>6. CASE op[a].result = "ok"
    <2>1. req' = [req EXCEPT ![a] = new] /\ UNCHANGED answer
        BY <1>6 DEF SaveReturns, Inv, ConsoleInv, ConsoleTyped
    <2> HIDE DEF new
    <2>2. req'[a] = new /\ DOMAIN answer' = Actors
        BY <2>1 DEF Inv, ConsoleInv, ConsoleTyped
    <2>3. Progress(new, op[a])
        BY <1>1, <1>3 DEF Progress
    <2>4. ~new.disturbed => SoFar(a)'
        <3> SUFFICES ASSUME ~r.disturbed PROVE SoFar(a)'
            BY <1>3
        <3>1. Learnt(r.proposal.ids)
            BY <1>1, <1>6 DEF SoFar
        <3>2. InEffect(a)'
            BY <1>2, <1>3, <1>4, <2>2, <3>1 DEF InEffect, KindOf, Settings, Learnt, libraryVars
        <3> QED
            BY <1>2, <1>3, <2>2, <3>2 DEF SoFar, ArchiveKinds
    <2>5. ApplyInv(a)'
        BY <1>4, <2>2, <2>3, <2>4 DEF ApplyInv, libraryVars
    <2> QED
        BY <1>3, <1>4, <2>1, <2>2, <2>5, QuietStep DEF Inv, libraryVars, settingVars
<1> QED
    BY <1>2, <1>5, <1>6

-------------------------------------------------------------------------------
(* A step of an operation *)

LEMMA OperationIs ==
    ASSUME LibraryInv, NEW a \in Actors, LibraryStep(a)
    PROVE  /\ op[a].kind \in {"save", "archive", "unarchive", "delete"}
           /\ \A b \in Actors \ {a} : op'[b] = op[b]
           /\ \A p \in Processes : listed'[p] \in {listed[p], Null}
<1>1. op[a].kind \in {"save", "archive", "unarchive", "delete"}
    BY DEF LibraryStep, SaveRead, SaveWrite, SaveCollides, Check, Recall, ShowOrHide, Delete,
           Doing
<1>2. \E o : op' = [op EXCEPT ![a] = o]
    <2>1. CASE SaveRead(a)
        <3>1. op' = [op EXCEPT ![a] = [op[a] EXCEPT !.pc = "write", !.row = heads[op[a].template]]]
            BY <2>1 DEF SaveRead, LibraryInv, LibraryTyped
        <3> QED
            BY <3>1
    <2>2. CASE SaveWrite(a) \/ SaveCollides(a) \/ ShowOrHide(a) \/ Delete(a)
        BY <2>2 DEF SaveWrite, SaveCollides, ShowOrHide, Delete, Finish
    <2>3. CASE Check(a) \/ Recall(a)
        <3>1. \/ \E result : Finish(a, result)
              \/ \E pc : Proceed(a, pc)
            BY <2>3 DEF Check, Recall
        <3>2. ASSUME NEW pc, Proceed(a, pc)
              PROVE  op' = [op EXCEPT ![a] = [op[a] EXCEPT !.pc = pc]]
            BY <3>2 DEF Proceed, LibraryInv, LibraryTyped
        <3> QED
            BY <3>1, <3>2 DEF Finish
    <2> QED
        BY <2>1, <2>2, <2>3 DEF LibraryStep
<1>3. \A b \in Actors \ {a} : op'[b] = op[b]
    BY <1>2 DEF LibraryInv, LibraryTyped
<1>4. UNCHANGED listed \/ ForgetList(a)
    BY DEF LibraryStep, SaveRead, SaveWrite, SaveCollides, Check, Recall, ShowOrHide, Delete
<1>5. \A p \in Processes : listed'[p] \in {listed[p], Null}
    BY <1>4 DEF ForgetList, LibraryInv, LibraryTyped
<1> QED
    BY <1>1, <1>3, <1>5

\* The archive that an apply waits for.
LEMMA ArchivingKeeps ==
    ASSUME Inv, NEW a \in Actors, req[a] # Null, op[a].kind = "archive", LibraryStep(a),
           req'[a] = req[a]
    PROVE  ApplyInv(a)'
<1> DEFINE r == req[a]
           t == op[a].template
<1>1. /\ op[a] \in OtherOps /\ t \in Templates
      /\ DOMAIN op = Actors
    BY OpKinds DEF Inv, LibraryInv, LibraryTyped, OtherOps
<1>2. Progress(r, op[a]) /\ (~r.disturbed => SoFar(a))
    BY DEF Inv, ConsoleInv, ApplyInv
<1>3. /\ r.pc = "archiving" /\ t \in r.proposal.ids /\ r.proposal.kind \in ArchiveKinds
    BY <1>2 DEF Progress
<1>4. ASSUME UNCHANGED <<heads, listed>>, op'[a].kind = "archive" => op'[a].template = t,
             op'[a].kind \in {"none", "archive"},
             op'[a].kind = "none" => op'[a].result # "ok"
      PROVE  ApplyInv(a)'
    <2>1. Progress(r, op'[a])
        BY <1>2, <1>3, <1>4 DEF Progress
    <2>2. ArchivedAndHidden(a) => ArchivedAndHidden(a)'
        BY <1>4 DEF ArchivedAndHidden, Archived
    <2>3. ~r.disturbed => SoFar(a)'
        BY <1>2, <1>3, <1>4, <2>2 DEF SoFar
    <2> QED
        BY <2>1, <2>3 DEF ApplyInv
<1>5. CASE Check(a) \/ Recall(a)
    <2>1. /\ UNCHANGED <<heads, listed>>
          /\ \/ Finish(a, "refused") \/ Finish(a, "error")
             \/ Proceed(a, "write") \/ Proceed(a, "recall")
        BY <1>5 DEF Check, Recall, Doing
    <2>2. \/ op'[a] \in {NoOp("refused"), NoOp("error")}
          \/ op'[a].kind = "archive" /\ op'[a].template = t
        BY <1>1, <2>1 DEF Finish, Proceed, OtherOps
    <2>3. /\ op'[a].kind = "archive" => op'[a].template = t
          /\ op'[a].kind \in {"none", "archive"}
          /\ op'[a].kind = "none" => op'[a].result # "ok"
        BY <2>2 DEF NoOp
    <2> QED
        BY <1>4, <2>1, <2>3
<1>6. CASE ShowOrHide(a)
    <2>1. /\ op'[a].kind = "none"
          /\ listed'[ProcessOf[a]] = Null
        BY <1>1, <1>6, LibraryAssumption
           DEF ShowOrHide, Finish, NoOp, ForgetList, Inv, LibraryInv, LibraryTyped
    <2>2. \/ UNCHANGED heads /\ op'[a].result = "refused"
          \/ /\ heads[t] # Null /\ op'[a].result = "ok"
             /\ heads' = [heads EXCEPT ![t].visibility = "archived"]
        BY <1>1, <1>6 DEF ShowOrHide, Finish, NoOp
    <2>3. Progress(r, op'[a])
        BY <1>2, <1>3, <2>1 DEF Progress
    <2>4. CASE UNCHANGED heads /\ op'[a].result = "refused"
        <3>1. ArchivedAndHidden(a) => ArchivedAndHidden(a)'
            BY <2>1, <2>4 DEF ArchivedAndHidden, Archived
        <3>2. ~r.disturbed => SoFar(a)'
            BY <1>2, <1>3, <2>1, <2>4, <3>1 DEF SoFar
        <3> QED
            BY <2>3, <3>2 DEF ApplyInv
    <2>5. CASE /\ heads[t] # Null /\ op'[a].result = "ok"
               /\ heads' = [heads EXCEPT ![t].visibility = "archived"]
        <3>1. heads[t] \in Heads /\ heads'[t] = [heads[t] EXCEPT !.visibility = "archived"]
            BY <1>1, <2>5 DEF Inv, LibraryInv, LibraryTyped
        <3>2. heads'[t] \in Heads /\ heads'[t].visibility = "archived"
            BY <3>1 DEF Heads, Visibilities
        <3>3. t \in Archived'
            BY <1>1, <3>2, NullAssumption DEF Archived
        <3>4. ArchivedAndHidden(a)'
            BY <1>3, <2>1, <3>3 DEF ArchivedAndHidden
        <3>5. SoFar(a)'
            BY <1>3, <2>1, <3>4 DEF SoFar
        <3> QED
            BY <2>3, <3>5 DEF ApplyInv
    <2> QED
        BY <2>2, <2>4, <2>5
<1> QED
    BY <1>5, <1>6 DEF LibraryStep, SaveRead, SaveWrite, SaveCollides, Delete, Doing

\* The save that an apply waits for.
LEMMA SavingKeeps ==
    ASSUME Inv, NEW a \in Actors, req[a] # Null, op[a].kind = "save", LibraryStep(a),
           req'[a] = req[a]
    PROVE  ApplyInv(a)'
<1> DEFINE r == req[a]
           t == op[a].template
<1>1. /\ op[a] \in SaveOps /\ t \in Templates
      /\ DOMAIN op = Actors
    BY OpKinds DEF Inv, LibraryInv, LibraryTyped, SaveOps
<1>2. Progress(r, op[a]) /\ (~r.disturbed => SoFar(a))
    BY DEF Inv, ConsoleInv, ApplyInv
<1>3. /\ r.pc = "saving" /\ t \in r.proposal.ids /\ r.proposal.kind = "learn"
      /\ op[a].source = "learned"
    BY <1>2 DEF Progress
<1>4. CASE SaveRead(a)
    <2>1. /\ op'[a].kind = "save" /\ op'[a].template = t /\ op'[a].source = "learned"
          /\ op'[a].row = heads[t] /\ UNCHANGED heads
        BY <1>1, <1>3, <1>4 DEF SaveRead, SaveOps
    <2>2. Progress(r, op'[a])
        BY <1>2, <1>3, <2>1 DEF Progress
    <2>3. SoFar(a)'
        BY <1>3, <2>1 DEF SoFar, ArchiveKinds
    <2> QED
        BY <2>2, <2>3 DEF ApplyInv
<1>5. CASE SaveCollides(a)
    <2>1. op'[a].kind = "none" /\ op'[a].result = "error"
        BY <1>1, <1>5 DEF SaveCollides, Finish, NoOp
    <2>2. Progress(r, op'[a])
        BY <1>2, <1>3, <2>1 DEF Progress
    <2>3. SoFar(a)'
        BY <1>3, <2>1 DEF SoFar, ArchiveKinds
    <2> QED
        BY <2>2, <2>3 DEF ApplyInv
<1>6. CASE SaveWrite(a)
    <2>1. op'[a].kind = "none" /\ op'[a].result = "ok"
        BY <1>1, <1>6 DEF SaveWrite, Finish, NoOp
    <2>2. Progress(r, op'[a])
        BY <1>2, <1>3, <2>1 DEF Progress
    <2>3. ~r.disturbed => Learnt(r.proposal.ids)'
        <3> SUFFICES ASSUME ~r.disturbed PROVE Learnt(r.proposal.ids)'
            OBVIOUS
        <3>1. op[a].row = heads[t]
            BY <1>2, <1>3, <1>6 DEF SoFar, SaveWrite, Doing
        <3>2. heads' = [heads EXCEPT ![t] = SavedHead(op[a])]
            BY <1>6, <3>1 DEF SaveWrite
        <3>3. SavedHead(op[a]) \in Heads /\ SavedHead(op[a]).source = "learned"
            BY <1>3, <1>6, SaveFacts DEF Inv
        <3>4. heads'[t] = SavedHead(op[a])
            BY <1>1, <3>2 DEF Inv, LibraryInv, LibraryTyped
        <3>5. heads'[t] # Null /\ heads'[t].source = "learned"
            BY <3>3, <3>4, NullAssumption
        <3> QED
            BY <1>3, <3>5 DEF Learnt
    <2>4. ~r.disturbed => SoFar(a)'
        BY <1>3, <2>1, <2>3 DEF SoFar, ArchiveKinds
    <2> QED
        BY <2>2, <2>4 DEF ApplyInv
<1> QED
    BY <1>4, <1>5, <1>6 DEF LibraryStep, Check, Recall, ShowOrHide, Delete, Doing

LEMMA OperateKeeps ==
    ASSUME Inv, NEW a \in Actors, Operate(a)
    PROVE  ConsoleInv'
<1>1. /\ LibraryStep(a) /\ req' = IF heads' = heads THEN req ELSE Disturbed(a)
      /\ UNCHANGED <<settingVars, audit, evidence, page, answer, begun>>
    BY DEF Operate
<1>2. /\ op[a].kind \in {"save", "archive", "unarchive", "delete"}
      /\ \A b \in Actors \ {a} : op'[b] = op[b]
      /\ \A p \in Processes : listed'[p] \in {listed[p], Null}
    BY <1>1, OperationIs DEF Inv
<1>3. req'[a] = req[a]
    BY <1>1, DisturbedIs DEF Inv
<1>4. ApplyInv(a)'
    <2>1. CASE req[a] = Null
        BY <1>3, <2>1 DEF ApplyInv
    <2>2. CASE req[a] # Null
        <3>1. op[a].kind \in {"save", "archive"}
            BY <1>2, <2>2 DEF Inv, ConsoleInv, ApplyInv, Progress
        <3> QED
            BY <1>1, <1>3, <2>2, <3>1, ArchivingKeeps, SavingKeeps
    <2> QED
        BY <2>1, <2>2
<1>5. /\ ConsoleInv /\ req[a] \in Applies \cup {Null} /\ DOMAIN answer' = Actors
      /\ preferred' \in (SUBSET Templates) \cup {Null} /\ active' \subseteq Variants
    BY <1>1 DEF Inv, ConsoleInv, ConsoleTyped, settingVars
<1>6. CASE heads' = heads
    <2>1. req' = [req EXCEPT ![a] = req[a]]
        BY <1>1, <1>6 DEF Inv, ConsoleInv, ConsoleTyped
    <2> QED
        BY <1>1, <1>2, <1>4, <1>5, <1>6, <2>1, QuietStep DEF settingVars
<1>7. CASE heads' # heads
    <2>1. req' = [Disturbed(a) EXCEPT ![a] = req[a]]
        BY <1>1, <1>7, DisturbedIs DEF Inv
    <2> QED
        BY <1>1, <1>2, <1>4, <1>5, <2>1, LoudStep
<1> QED
    BY <1>6, <1>7

-------------------------------------------------------------------------------
(* What goes on around an apply *)

LEMMA DirectKeeps ==
    ASSUME Inv, NEW a \in Actors, Direct(a)
    PROVE  Inv'
<1>1. /\ req[a] = Null
      /\ (\E o \in Requests : Begin(a, o)) \/ (\E t \in Seeds : EnsureSeed(a, t))
      /\ UNCHANGED <<settingVars, audit, evidence, page, req, answer>>
    BY DEF Direct
<1>2. LibraryInv'
    BY <1>1, BeginKeeps DEF Inv
<1>3. UNCHANGED <<heads, listed>> /\ \E o : op' = [op EXCEPT ![a] = o]
    BY <1>1 DEF Begin, EnsureSeed
<1>4. \A b \in Actors \ {a} : op'[b] = op[b]
    BY <1>3 DEF Inv, LibraryInv, LibraryTyped
<1>5. req' = [req EXCEPT ![a] = Null] /\ ApplyInv(a)' /\ DOMAIN answer' = Actors
    BY <1>1 DEF ApplyInv, Inv, ConsoleInv, ConsoleTyped
<1> QED
    BY <1>1, <1>2, <1>3, <1>4, <1>5, QuietStep DEF Inv, settingVars

LEMMA ConfigureKeeps ==
    ASSUME Inv, NEW a \in Actors, Configure(a)
    PROVE  ConsoleInv'
<1>1. /\ req[a] = Null /\ req' = Disturbed(a)
      /\ UNCHANGED <<libraryVars, audit, evidence, page, answer>>
    BY DEF Configure
<1>2. preferred' \in (SUBSET Templates) \cup {Null} /\ active' \subseteq Variants
    <2>1. preferred' = preferred \/ preferred' \in (SUBSET Templates) \cup {Null}
        BY DEF Configure
    <2>2. active' = active \/ \E v \in Variants : active' \in {active \cup {v}, active \ {v}}
        BY DEF Configure
    <2> QED
        BY <2>1, <2>2 DEF Inv, ConsoleInv, ConsoleTyped
<1>3. req' = [Disturbed(a) EXCEPT ![a] = Null] /\ req'[a] = Null
    BY <1>1, DisturbedIs DEF Inv
<1>4. ApplyInv(a)' /\ DOMAIN answer' = Actors
    BY <1>1, <1>3 DEF ApplyInv, Inv, ConsoleInv, ConsoleTyped
<1> QED
    BY <1>1, <1>2, <1>3, <1>4, LoudStep DEF Inv, libraryVars

\* Steps of nobody's that leave the applies as they are.
LEMMA AroundKeeps ==
    ASSUME Inv, UNCHANGED <<heads, op, settingVars, req, answer>>,
           evidence' \in Findings, page' \subseteq Proposals,
           \A p \in Processes : listed'[p] \in {listed[p], Null, Visible}
    PROVE  ConsoleInv'
<1>1. ConsoleTyped'
    BY DEF Inv, ConsoleInv, ConsoleTyped, settingVars
<1>2. ASSUME NEW b \in Actors PROVE ApplyInv(b)'
    <2>1. listed'[ProcessOf[b]] \in {listed[ProcessOf[b]], Null, Visible}
        BY LibraryAssumption
    <2> QED
        BY <2>1, FrameKeeps DEF Inv, settingVars
<1> QED
    BY <1>1, <1>2 DEF ConsoleInv

LEMMA ProcessStopKeeps ==
    ASSUME Inv, NEW p \in Processes, Stop(p)
    PROVE  Inv'
<1>1. /\ StopLibrary(p)
      /\ req' = [a \in Actors |-> IF ProcessOf[a] = p THEN Null ELSE req[a]]
      /\ answer' = [a \in Actors |-> IF ProcessOf[a] = p THEN "none" ELSE answer[a]]
      /\ UNCHANGED <<settingVars, audit, evidence, page, begun>>
    BY DEF Stop
<1>2. LibraryInv'
    BY <1>1, StopKeeps DEF Inv
<1>3. ConsoleTyped'
    BY <1>1 DEF Inv, ConsoleInv, ConsoleTyped, settingVars
<1>4. ASSUME NEW b \in Actors PROVE ApplyInv(b)'
    <2>1. CASE ProcessOf[b] = p
        BY <1>1, <2>1 DEF ApplyInv
    <2>2. CASE ProcessOf[b] # p
        <3>1. req'[b] = req[b] /\ op'[b] = op[b]
            BY <1>1, <2>2 DEF StopLibrary
        <3>2. UNCHANGED heads /\ listed'[ProcessOf[b]] \in {listed[ProcessOf[b]], Null, Visible}
            BY <1>1, LibraryAssumption DEF StopLibrary, Inv, LibraryInv, LibraryTyped
        <3> QED
            BY <1>1, <3>1, <3>2, FrameKeeps DEF Inv, settingVars
    <2> QED
        BY <2>1, <2>2
<1> QED
    BY <1>2, <1>3, <1>4 DEF Inv, ConsoleInv

-------------------------------------------------------------------------------
(* The theorems *)

LEMMA InitInv == Init => Inv
<1> SUFFICES ASSUME Init PROVE Inv
    OBVIOUS
<1>1. LibraryInv
    BY LibraryStarts DEF Init
<1>2. ConsoleTyped
    BY DEF Init, ConsoleTyped
<1>3. \A a \in Actors : ApplyInv(a)
    BY DEF Init, ApplyInv
<1> QED
    BY <1>1, <1>2, <1>3 DEF Inv, ConsoleInv

LEMMA LibraryFrame ==
    ASSUME LibraryInv, UNCHANGED libraryVars PROVE LibraryInv'
BY DEF libraryVars, LibraryInv, LibraryTyped, VersionsAreAppended, NumbersFit, Latest, Doing

LEMMA NextInv == Inv /\ [Next]_vars => Inv'
<1> SUFFICES ASSUME Inv, [Next]_vars PROVE Inv'
    OBVIOUS
<1> USE DEF Inv
<1>1. CASE ShowPage
    <2>1. page' \subseteq Proposals /\ evidence' \in Findings
        BY <1>1, PendingAreProposals DEF ShowPage, ConsoleInv, ConsoleTyped
    <2> QED
        BY <1>1, <2>1, AroundKeeps, LibraryFrame DEF ShowPage, libraryVars
<1>2. CASE Observe
    <2>1. page' \subseteq Proposals /\ evidence' \in Findings
        BY <1>2 DEF Observe, ConsoleInv, ConsoleTyped
    <2> QED
        BY <1>2, <2>1, AroundKeeps, LibraryFrame DEF Observe, libraryVars
<1>3. ASSUME NEW a \in Actors, NEW p \in page, Apply(a, p) PROVE Inv'
    BY <1>3, ApplyKeeps, LibraryFrame DEF Apply
<1>4. ASSUME NEW a \in Actors, ApplyStep(a) PROVE Inv'
    <2>1. CASE Match(a)
        BY <2>1, MatchKeeps, LibraryFrame DEF Match
    <2>2. CASE SetSetting(a)
        BY <2>2, SetSettingKeeps, LibraryFrame DEF SetSetting
    <2>3. CASE \E t \in Templates : ArchiveNext(a, t)
        BY <2>3, ArchiveNextKeeps
    <2>4. CASE ArchiveReturns(a)
        BY <2>4, ArchiveReturnsKeeps, LibraryFrame DEF ArchiveReturns
    <2>5. CASE ArchivesEnd(a)
        BY <2>5, ArchivesEndKeeps, LibraryFrame DEF ArchivesEnd
    <2>6. CASE SwitchVariant(a)
        BY <2>6, SwitchVariantKeeps, LibraryFrame DEF SwitchVariant
    <2>7. CASE SaveLearned(a)
        BY <2>7, SaveLearnedKeeps
    <2>8. CASE SaveReturns(a)
        BY <2>8, SaveReturnsKeeps, LibraryFrame DEF SaveReturns
    <2>9. CASE Record(a)
        BY <2>9, EndKeeps, LibraryFrame DEF Record
    <2> QED
        BY <1>4, <2>1, <2>2, <2>3, <2>4, <2>5, <2>6, <2>7, <2>8, <2>9 DEF ApplyStep
<1>5. ASSUME NEW a \in Actors, Operate(a) PROVE Inv'
    BY <1>5, OperateKeeps, LibraryStepKeeps DEF Operate
<1>6. ASSUME NEW a \in Actors, Direct(a) PROVE Inv'
    BY <1>6, DirectKeeps
<1>7. ASSUME NEW a \in Actors, Configure(a) PROVE Inv'
    BY <1>7, ConfigureKeeps, LibraryFrame DEF Configure
<1>8. ASSUME NEW p \in Processes, ListTemplates(p) PROVE Inv'
    <2>1. LibraryInv'
        BY <1>8, ListKeeps DEF ListTemplates
    <2>2. \A q \in Processes : listed'[q] \in {listed[q], Null, Visible}
        BY <1>8 DEF ListTemplates, List, LibraryInv, LibraryTyped
    <2>3. UNCHANGED <<heads, op, settingVars, req, answer, evidence, page>>
        BY <1>8 DEF ListTemplates, List, consoleVars
    <2> QED
        BY <2>1, <2>2, <2>3, AroundKeeps DEF ConsoleInv, ConsoleTyped
<1>9. ASSUME NEW p \in Processes, Stop(p) PROVE Inv'
    BY <1>9, ProcessStopKeeps
<1>10. CASE UNCHANGED vars
    <2>1. /\ UNCHANGED <<libraryVars, settingVars, evidence, page, req, answer>>
          /\ UNCHANGED <<heads, op, listed>>
        BY <1>10 DEF vars, consoleVars, libraryVars
    <2> QED
        BY <2>1, AroundKeeps, LibraryFrame DEF ConsoleInv, ConsoleTyped
<1> QED
    BY <1>1, <1>2, <1>3, <1>4, <1>5, <1>6, <1>7, <1>8, <1>9, <1>10 DEF Next

LEMMA SpecInv == Spec => []Inv
BY InitInv, NextInv, PTL DEF Spec

(* Saves of a template append its versions, whatever operations of the      *)
(* processes come between the read and the write of each (store.py:243).    *)
THEOREM ConsoleAppends == Spec => []VersionsAreAppended
<1>1. Inv => VersionsAreAppended
    BY DEF Inv, LibraryInv
<1> QED
    BY <1>1, SpecInv, PTL

(* What an apply is about to record is so, unless somebody else has written *)
(* to the library, the settings or the experiment since it began.           *)
THEOREM ConsoleRecordsTheTruth == Spec => []AuditTellsTheTruth
<1>1. Inv => AuditTellsTheTruth
    <2> SUFFICES ASSUME Inv, NEW a \in Actors, At(a, "audit"), ~req[a].disturbed
                 PROVE  InEffect(a)
        BY DEF AuditTellsTheTruth
    <2>1. SoFar(a) /\ req[a].pc = "audit"
        BY AtFacts
    <2> QED
        BY <2>1 DEF SoFar
<1> QED
    BY <1>1, SpecInv, PTL

\* An apply that goes on has no answer yet.
NoAnswerYet == \A a \in Actors : req[a] # Null => answer[a] = "none"

\* How an apply may end.
Ends(a) ==
    \/ End(a, "failed")
    \/ End(a, "refused") /\ ~req[a].changed
    \/ /\ End(a, "applied") /\ req[a].proposal \in audit'
       /\ req[a].changed \/ KindOf(a) = "facts"

LEMMA HowApplyGoes ==
    ASSUME Inv, NEW a \in Actors, ApplyStep(a)
    PROVE  \/ Ends(a)
           \/ UNCHANGED answer /\ \A b \in Actors : req'[b] # Null => req[b] # Null
<1> USE DEF Inv
<1>1. DOMAIN req = Actors /\ DOMAIN Disturbed(a) = Actors
      /\ (\A b \in Actors : Disturbed(a)[b] # Null => req[b] # Null)
      /\ req[a] # Null
    BY DisturbedIs DEF ConsoleInv, ConsoleTyped, ApplyStep, Match, SetSetting, ArchiveNext,
       ArchiveReturns, ArchivesEnd, SwitchVariant, SaveLearned, SaveReturns, Record, At
<1>2. CASE Match(a)
    <2>1. ~req[a].changed
        BY <1>2, AtFacts DEF Match, Progress
    <2> QED
        BY <1>1, <1>2, <2>1 DEF Match, Ends
<1>3. CASE SetSetting(a)
    BY <1>1, <1>3 DEF SetSetting, Goes
<1>4. CASE \E t \in Templates : ArchiveNext(a, t)
    BY <1>1, <1>4 DEF ArchiveNext
<1>5. CASE ArchiveReturns(a)
    <2>1. \/ End(a, "failed")
          \/ UNCHANGED answer /\ \E pc, done : req' = [req EXCEPT ![a].pc = pc, ![a].changed = done]
        BY <1>5 DEF ArchiveReturns
    <2> QED
        BY <1>1, <2>1 DEF Ends
<1>6. CASE ArchivesEnd(a)
    BY <1>1, <1>6 DEF ArchivesEnd, SomeArchived, Ends
<1>7. CASE SwitchVariant(a)
    <2>1. UNCHANGED answer /\ \E pc, left : req' = [Goes(a, pc) EXCEPT ![a].todo = left]
        BY <1>7 DEF SwitchVariant
    <2> QED
        BY <1>1, <2>1 DEF Goes
<1>8. CASE SaveLearned(a)
    BY <1>1, <1>8 DEF SaveLearned
<1>9. CASE SaveReturns(a)
    BY <1>1, <1>9 DEF SaveReturns, Ends
<1>10. CASE Record(a)
    <2>1. req[a].changed \/ KindOf(a) = "facts"
        BY <1>10, AtFacts DEF Record, Progress, KindOf
    <2> QED
        BY <1>10, <2>1 DEF Record, Ends
<1> QED
    BY <1>2, <1>3, <1>4, <1>5, <1>6, <1>7, <1>8, <1>9, <1>10 DEF ApplyStep

LEMMA HowAnswersCome ==
    ASSUME Inv, [Next]_vars
    PROVE  \/ \E a \in Actors : Ends(a)
           \/ UNCHANGED answer /\ \A b \in Actors : req'[b] # Null => req[b] # Null
           \/ \E a \in Actors, p \in page : Apply(a, p)
           \/ \E p \in Processes : Stop(p)
<1>1. ASSUME UNCHANGED req PROVE \A b \in Actors : req'[b] # Null => req[b] # Null
    BY <1>1
<1>2. CASE ShowPage \/ Observe \/ UNCHANGED vars
    BY <1>1, <1>2 DEF ShowPage, Observe, vars, consoleVars
<1>3. CASE \E p \in Processes : ListTemplates(p)
    BY <1>1, <1>3 DEF ListTemplates, consoleVars
<1>4. CASE \E a \in Actors : ApplyStep(a)
    BY <1>4, HowApplyGoes
<1>5. ASSUME NEW a \in Actors, Operate(a) \/ Direct(a) \/ Configure(a)
      PROVE  UNCHANGED answer /\ \A b \in Actors : req'[b] # Null => req[b] # Null
    <2>1. UNCHANGED answer /\ req' \in {req, Disturbed(a)}
        BY <1>5 DEF Operate, Direct, Configure
    <2> QED
        BY <2>1, DisturbedIs DEF Inv
<1> QED
    BY <1>2, <1>3, <1>4, <1>5 DEF Next

LEMMA NoAnswerYetKeeps ==
    ASSUME Inv, NoAnswerYet, [Next]_vars PROVE NoAnswerYet'
<1>1. DOMAIN answer = Actors /\ DOMAIN req = Actors
    BY DEF Inv, ConsoleInv, ConsoleTyped
<1>2. CASE \E a \in Actors : Ends(a)
    BY <1>1, <1>2 DEF Ends, End, NoAnswerYet
<1>3. CASE UNCHANGED answer /\ \A b \in Actors : req'[b] # Null => req[b] # Null
    BY <1>3 DEF NoAnswerYet
<1>4. CASE \E a \in Actors, p \in page : Apply(a, p)
    BY <1>1, <1>4 DEF Apply, NoAnswerYet
<1>5. CASE \E p \in Processes : Stop(p)
    BY <1>5 DEF Stop, NoAnswerYet
<1> QED
    BY <1>2, <1>3, <1>4, <1>5, HowAnswersCome

LEMMA AnswerStep ==
    ASSUME Inv, NoAnswerYet, [Next]_vars, NEW a \in Actors, req[a] # Null, req'[a] = Null
    PROVE  /\ answer'[a] = "refused" => ~req[a].changed
           /\ answer'[a] = "applied" => /\ req[a].proposal \in audit'
                                        /\ req[a].changed \/ KindOf(a) = "facts"
<1>1. DOMAIN answer = Actors /\ DOMAIN req = Actors /\ answer[a] = "none"
    BY DEF Inv, ConsoleInv, ConsoleTyped, NoAnswerYet
<1>2. ASSUME NEW b \in Actors, Ends(b)
      PROVE  /\ answer'[a] = "refused" => ~req[a].changed
             /\ answer'[a] = "applied" => /\ req[a].proposal \in audit'
                                          /\ req[a].changed \/ KindOf(a) = "facts"
    <2>1. CASE b = a
        <3>1. ASSUME NEW result, End(a, result) PROVE answer'[a] = result
            BY <1>1, <3>1 DEF End
        <3> QED
            BY <1>2, <2>1, <3>1 DEF Ends
    <2>2. CASE b # a
        BY <1>1, <1>2, <2>2 DEF Ends, End
    <2> QED
        BY <2>1, <2>2
<1>3. CASE UNCHANGED answer
    BY <1>1, <1>3
<1>4. CASE \E b \in Actors, p \in page : Apply(b, p)
    BY <1>1, <1>4 DEF Apply
<1>5. CASE \E p \in Processes : Stop(p)
    BY <1>1, <1>5 DEF Stop
<1> QED
    BY <1>2, <1>3, <1>4, <1>5, HowAnswersCome

(* An apply that is refused has changed nothing, and one that has been      *)
(* applied has changed something, and the audit log names it.               *)
THEOREM ConsoleAnswersTruly == Spec => AnswersAreTrue
<1>1. Init => NoAnswerYet
    BY DEF Init, NoAnswerYet
<1>2. Inv /\ NoAnswerYet /\ [Next]_vars => NoAnswerYet'
    BY NoAnswerYetKeeps
<1>3. Inv /\ NoAnswerYet /\ [Next]_vars =>
        [\A a \in Actors : req[a] # Null /\ req'[a] = Null =>
          /\ answer'[a] = "refused" => ~req[a].changed
          /\ answer'[a] = "applied" => /\ req[a].proposal \in audit'
                                       /\ req[a].changed \/ KindOf(a) = "facts"]_vars
    BY AnswerStep
<1> QED
    BY <1>1, <1>2, <1>3, SpecInv, PTL DEF Spec, AnswersAreTrue

================================================================================
