----------------------------- MODULE PromptProofs -----------------------------
(***************************************************************************)
(* What is proved of PromptCandidates, PromptCuration, PromptRefresh and   *)
(* SourceCatalogue, for any number of workers, items, texts and listings.  *)
(***************************************************************************)
EXTENDS SourceCatalogue, PromptCuration, FiniteSetTheorems, WellFoundedInduction, TLAPS

-------------------------------------------------------------------------------
(* Acknowledged risk *)

Acknowledged(version) == version.body \in Risky => version.acknowledged

\* A sequence all of whose elements are acknowledged.
AcknowledgedSeq(s) ==
    /\ \E S : s \in Seq(S)
    /\ \A v \in 1..Len(s) : Acknowledged(s[v])

\* A text is saved as it was when the promoter's acknowledgement was asked for.
AcknowledgedWork ==
    /\ DOMAIN work = Workers
    /\ \A w \in Workers : work[w].op = "save" => (work[w].body \in Risky => work[w].ack)

AckInv ==
    /\ AcknowledgedWork
    /\ \A t \in DOMAIN templates : AcknowledgedSeq(templates[t])

\* An acknowledged version appended to acknowledged ones.
LEMMA AppendAcknowledged ==
    ASSUME NEW s, AcknowledgedSeq(s), NEW x, Acknowledged(x)
    PROVE  AcknowledgedSeq(Append(s, x))
<1>1. PICK S : s \in Seq(S)
    BY DEF AcknowledgedSeq
<1> DEFINE T == S \cup {x}
<1>2. s \in Seq(T) /\ x \in T
    BY <1>1
<1>3. /\ Append(s, x) \in Seq(T) /\ Len(Append(s, x)) = Len(s) + 1 /\ Len(s) \in Nat
      /\ Append(s, x)[Len(s) + 1] = x
      /\ \A v \in 1..Len(s) : Append(s, x)[v] = s[v]
    BY <1>2
<1> HIDE DEF T
<1> QED
    BY <1>3 DEF AcknowledgedSeq

LEMMA NoVersions == AcknowledgedSeq(<< >>)
<1>1. << >> \in Seq({}) /\ Len(<< >>) = 0
    OBVIOUS
<1> QED
    BY <1>1 DEF AcknowledgedSeq

\* A step that gives one worker a job other than a save, or none.
LEMMA OtherWork ==
    ASSUME AckInv, NEW w \in Workers, NEW job, job.op # "save",
           work' = [work EXCEPT ![w] = job], UNCHANGED templates
    PROVE  AckInv'
BY DEF AckInv, AcknowledgedWork, AcknowledgedSeq, Acknowledged

LEMMA SaveKeepsAck ==
    ASSUME AckInv, NEW w \in Workers, SaveTemplate(w)
    PROVE  AckInv'
<1> DEFINE job == work[w]
           old == IF job.template \in DOMAIN templates THEN templates[job.template] ELSE << >>
           new == [body |-> BodyToSave(job), acknowledged |-> job.ack]
           link == [op |-> "link", item |-> job.item, template |-> job.template,
                    version |-> NextVersion(old)]
<1>1. /\ job.op = "save"
      /\ templates' = [t \in DOMAIN templates \cup {job.template} |->
                           IF t = job.template THEN Append(old, new) ELSE templates[t]]
      /\ work' = [work EXCEPT ![w] = link]
    BY DEF SaveTemplate
<1>2. Acknowledged(new)
    BY <1>1 DEF AckInv, AcknowledgedWork, Acknowledged, BodyToSave
<1>3. AcknowledgedSeq(old)
    BY NoVersions DEF AckInv
<1>4. AcknowledgedSeq(Append(old, new))
    BY <1>2, <1>3, AppendAcknowledged
<1>5. ASSUME NEW t \in DOMAIN templates'
      PROVE  AcknowledgedSeq(templates'[t])
    <2>1. CASE t = job.template
        BY <1>1, <1>4, <2>1
    <2>2. CASE t # job.template
        <3>1. t \in DOMAIN templates /\ templates'[t] = templates[t]
            BY <1>1, <2>2
        <3> QED
            BY <3>1 DEF AckInv
    <2> QED
        BY <2>1, <2>2
<1>6. AcknowledgedWork'
    <2>1. link.op # "save"
        OBVIOUS
    <2> HIDE DEF link
    <2> QED
        BY <1>1, <2>1 DEF AckInv, AcknowledgedWork
<1> QED
    BY <1>5, <1>6 DEF AckInv, AcknowledgedSeq, Acknowledged

LEMMA AckInvImplies ==
    ASSUME AckInv
    PROVE  RiskIsAcknowledged
BY DEF AckInv, RiskIsAcknowledged, Versions, AcknowledgedSeq, Acknowledged

LEMMA AckStep ==
    ASSUME AckInv, [Next]_vars
    PROVE  AckInv'
<1>1. CASE UNCHANGED vars
    BY <1>1 DEF AckInv, AcknowledgedWork, AcknowledgedSeq, Acknowledged, vars
<1>2. ASSUME NEW w \in Workers, Curate(w)
      PROVE  AckInv'
    <2>1. ASSUME NEW i \in DOMAIN items, Reject(w, i)
          PROVE  AckInv'
        BY <2>1 DEF Reject, AckInv, AcknowledgedWork, AcknowledgedSeq, Acknowledged
    <2>2. ASSUME NEW i \in DOMAIN items, BeginReview(w, i)
          PROVE  AckInv'
        BY <2>2, OtherWork DEF BeginReview
    <2>3. ASSUME NEW i \in DOMAIN items, NEW ack \in Acks, BeginPromote(w, i, ack)
          PROVE  AckInv'
        <3>1. /\ UNCHANGED templates
              /\ items[i].body \in Risky => ack
              /\ work' = [work EXCEPT ![w] = [op |-> "save", item |-> i,
                             body |-> items[i].body, ack |-> ack,
                             template |-> PromotionTarget(i)]]
            BY <2>3 DEF BeginPromote, Promotable
        <3> QED
            BY <3>1 DEF AckInv, AcknowledgedWork, AcknowledgedSeq, Acknowledged
    <2>4. ASSUME FinishReview(w)
          PROVE  AckInv'
        BY <2>4, OtherWork DEF FinishReview, Idle
    <2>5. ASSUME LinkPromotion(w)
          PROVE  AckInv'
        BY <2>5, OtherWork DEF LinkPromotion, Idle
    <2> QED
        BY <1>2, <2>1, <2>2, <2>3, <2>4, <2>5, SaveKeepsAck DEF Curate
<1>3. ASSUME NEW w \in Workers, Ingest(w)
      PROVE  AckInv'
    <2>1. ASSUME NEW listing \in Listings, BeginIngest(w, listing)
          PROVE  AckInv'
        BY <2>1, OtherWork DEF BeginIngest
    <2>2. ASSUME CommitIngest(w)
          PROVE  AckInv'
        BY <2>2, OtherWork DEF CommitIngest, Idle
    <2> QED
        BY <1>3, <2>1, <2>2 DEF Ingest
<1>4. ASSUME NEW w \in Workers, Abandon(w)
      PROVE  AckInv'
    BY <1>4, OtherWork DEF Abandon, Idle
<1> QED
    BY <1>1, <1>2, <1>3, <1>4 DEF Next

\* Whatever the interleaving of ingests, reviews, rejections, promotions and crashes,
\* no template version holds a high-risk text that was not acknowledged
\* (promote_candidate saves the body of the row that it checked).
THEOREM RiskIsAlwaysAcknowledged == Spec => []RiskIsAcknowledged
<1>1. Init => AckInv
    BY DEF Init, AckInv, AcknowledgedWork, Idle
<1> QED
    BY <1>1, AckStep, AckInvImplies, PTL DEF Spec

-------------------------------------------------------------------------------
(* Numbers *)

\* A set of numbers that is not empty has a least one.
LEMMA LeastMember ==
    ASSUME NEW T \in SUBSET Nat, T # {}
    PROVE  \E x \in T : \A y \in T : x <= y
<1>1. \E R : IsWellFoundedOn(R, Nat) /\ \A x, y \in Nat : x < y => <<x, y>> \in R
    <2>1. \A x, y \in Nat : x < y => <<x, y>> \in OpToRel(<, Nat)
        BY DEF OpToRel
    <2> QED
        BY <2>1, NatLessThanWellFounded, Zenon
<1>2. PICK R : IsWellFoundedOn(R, Nat) /\ \A x, y \in Nat : x < y => <<x, y>> \in R
    BY <1>1
<1>3. IsWellFoundedOn(R, Nat) /\ T \subseteq Nat /\ T # {}
    BY <1>2
<1>4. PICK x \in T : \A y \in T : ~(<<y, x>> \in R)
    BY <1>3, WFMin, Zenon
<1>5. ASSUME NEW y \in T PROVE x <= y
    <2>1. ~(<<y, x>> \in R)
        BY <1>4
    <2>2. x \in Nat /\ y \in Nat
        OBVIOUS
    <2>3. ~(y < x)
        BY <1>2, <2>1, <2>2, Zenon
    <2> QED
        BY <2>2, <2>3
<1> QED
    BY <1>5

-------------------------------------------------------------------------------
(* What an ingest writes *)

States == {"candidate_new", "candidate_changed", "quarantined", "reviewed", "promoted",
           "rejected", "removed_upstream"}

IsRow(x) ==
    /\ x = [body |-> x.body, state |-> x.state, link |-> x.link]
    /\ x.state \in States

\* Every row of a table is a row.
TableOk(table) == \A i \in DOMAIN table : IsRow(table[i])

Before == [items |-> items, arrivals |-> arrivals]

\* One item of all, listed or not.
OneItem(s, n, listing, remembered) ==
    IF n \in DOMAIN listing.texts THEN Upsert(s, n, listing.texts[n], remembered) ELSE s

\* The items of a listing that become rows, up to the n-th of all.
Written(listing, n) ==
    {i \in DOMAIN listing.texts : i \in 1..n /\ listing.texts[i] # Blank}

\* What such a list is, up to the m-th item.
IsRun(f, m, listing, remembered) ==
    f = [n \in 0..m |-> IF n = 0 THEN Before
                        ELSE OneItem(f[n - 1], n, listing, remembered)]

\* The recursion over the items has a solution, as far as one likes.
LEMMA RunExists ==
    ASSUME NEW listing, NEW remembered, NEW m \in Nat
    PROVE  \E f : IsRun(f, m, listing, remembered)
<1> DEFINE Run(f, k) == IsRun(f, k, listing, remembered)
           T == {k \in Nat : ~ \E f : Run(f, k)}
<1>1. SUFFICES T = {}
    OBVIOUS
<1>2. SUFFICES ASSUME T # {} PROVE FALSE
    OBVIOUS
<1>3. T \in SUBSET Nat
    OBVIOUS
<1>4. PICK k \in T : \A j \in T : k <= j
    BY <1>2, <1>3, LeastMember
<1>5. k \in Nat /\ ~ \E f : Run(f, k)
    BY <1>4
<1>6. CASE k = 0
    <2> DEFINE g == [n \in {0} |-> Before]
    <2>1. \A n \in {0} : g[n] = Before
        OBVIOUS
    <2>2. 0..0 = {0}
        OBVIOUS
    <2>3. Run(g, 0)
        BY <2>2 DEF IsRun
    <2> QED
        BY <1>5, <1>6, <2>3
<1>7. CASE k # 0
    <2>1. k - 1 \in Nat /\ ~(k <= k - 1)
        BY <1>5, <1>7
    <2>2. k - 1 \notin T
        <3> HIDE DEF T
        <3> QED
            BY <1>4, <2>1
    <2>3. \E f : Run(f, k - 1)
        BY <2>1, <2>2
    <2>4. PICK f : Run(f, k - 1)
        BY <2>3
    <2> DEFINE g == [n \in 0..k |-> IF n = k THEN OneItem(f[k - 1], k, listing, remembered)
                                    ELSE f[n]]
    <2>5. \A n \in 0..(k - 1) : g[n] = f[n]
        BY <1>5
    <2>6. ASSUME NEW n \in 0..k
          PROVE  g[n] = IF n = 0 THEN Before ELSE OneItem(g[n - 1], n, listing, remembered)
        <3>1. CASE n = k
            <4>1. g[n] = OneItem(f[k - 1], k, listing, remembered)
                BY <3>1
            <4>2. k - 1 \in 0..(k - 1)
                BY <1>5, <1>7
            <4>3. g[k - 1] = f[k - 1]
                BY <2>5, <4>2
            <4> QED
                BY <1>7, <3>1, <4>1, <4>3
        <3>2. CASE n # k
            <4>1. n \in 0..(k - 1) /\ g[n] = f[n]
                BY <1>5, <2>5, <3>2
            <4>2. n # 0 => n - 1 \in 0..(k - 1)
                BY <1>5, <4>1
            <4>3. f[n] = IF n = 0 THEN Before ELSE OneItem(f[n - 1], n, listing, remembered)
                BY <2>4, <4>1 DEF IsRun
            <4> QED
                BY <2>5, <4>1, <4>2, <4>3
        <3> QED
            BY <3>1, <3>2
    <2>7. g = [n \in 0..k |-> g[n]]
        OBVIOUS
    <2>8. Run(g, k)
        <3> HIDE DEF g
        <3> QED
            BY <2>6, <2>7 DEF IsRun
    <2> QED
        BY <1>5, <2>8
<1> QED
    BY <1>5, <1>6, <1>7

LEMMA ListedUnfolds ==
    ASSUME NEW listing, NEW remembered
    PROVE  /\ Listed(listing, remembered)[0] = Before
           /\ \A n \in 1..ItemCount :
                 Listed(listing, remembered)[n] =
                    OneItem(Listed(listing, remembered)[n - 1], n, listing, remembered)
<1> DEFINE after == Listed(listing, remembered)
<1>1. ItemCount \in Nat
    BY CandidateAssumption
<1>2. PICK f : IsRun(f, ItemCount, listing, remembered)
    BY <1>1, RunExists
<1>3. f = [n \in 0..ItemCount |->
              IF n = 0 THEN [items |-> items, arrivals |-> arrivals]
              ELSE IF n \in DOMAIN listing.texts
                   THEN Upsert(f[n - 1], n, listing.texts[n], remembered)
                   ELSE f[n - 1]]
    BY <1>2, Zenon DEF IsRun, Before, OneItem
<1>4. after = [n \in 0..ItemCount |->
              IF n = 0 THEN [items |-> items, arrivals |-> arrivals]
              ELSE IF n \in DOMAIN listing.texts
                   THEN Upsert(after[n - 1], n, listing.texts[n], remembered)
                   ELSE after[n - 1]]
    BY <1>3 DEF Listed
<1> HIDE DEF after
<1>5. 0 \in 0..ItemCount /\ \A n \in 1..ItemCount : n \in 0..ItemCount /\ n # 0
    BY <1>1
<1> QED
    BY <1>4, <1>5 DEF after, Before, OneItem

\* A row that an ingest may write for item i.
NewRow(x, i, listing, remembered) ==
    \E suppressed \in BOOLEAN :
       /\ listing.texts[i] \in remembered => suppressed
       /\ x = [body  |-> listing.texts[i],
               state |-> NextState(RowIn(items, i), listing.texts[i], suppressed),
               link  |-> IF RowIn(items, i) = NoRow THEN Null ELSE RowIn(items, i).link]

\* A table whose rows up to item n are as the listing has them.
Rewritten(table, n, listing, remembered) ==
    /\ DOMAIN table = DOMAIN items \cup Written(listing, n)
    /\ \A i \in Written(listing, n) : NewRow(table[i], i, listing, remembered)
    /\ \A i \in DOMAIN items \ Written(listing, n) : table[i] = items[i]

LEMMA OneItemWrites ==
    ASSUME NEW listing, NEW remembered, NEW s, NEW n \in Nat \ {0},
           Rewritten(s.items, n - 1, listing, remembered)
    PROVE  Rewritten(OneItem(s, n, listing, remembered).items, n, listing, remembered)
<1> DEFINE body == listing.texts[n]
           row  == RowIn(s.items, n)
           supp == Suppressed(s, n, body, remembered)
           new  == [body  |-> body,
                    state |-> NextState(row, body, supp),
                    link  |-> IF row = NoRow THEN Null ELSE row.link]
           old  == Written(listing, n - 1)
           after == OneItem(s, n, listing, remembered).items
<1>1. n \notin old
    BY DEF Written
<1>2. row = RowIn(items, n)
    BY <1>1 DEF RowIn, Rewritten
<1>3. CASE n \in DOMAIN listing.texts /\ body # Blank
    <2>1. Written(listing, n) = old \cup {n}
        BY <1>3 DEF Written
    <2>2. after = [j \in DOMAIN s.items \cup {n} |-> IF j = n THEN new ELSE s.items[j]]
        BY <1>3 DEF OneItem, Upsert, Stored
    <2>3. supp \in BOOLEAN /\ (body \in remembered => supp)
        BY DEF Suppressed
    <2>4. NewRow(new, n, listing, remembered)
        <3> HIDE DEF supp
        <3> QED
            BY <1>2, <2>3 DEF NewRow
    <2> HIDE DEF new, old, after
    <2>5. /\ DOMAIN after = DOMAIN s.items \cup {n}
          /\ after[n] = new
          /\ \A i \in DOMAIN s.items \ {n} : after[i] = s.items[i]
        BY <2>2
    <2>6. /\ DOMAIN s.items = DOMAIN items \cup old
          /\ \A i \in old : NewRow(s.items[i], i, listing, remembered)
          /\ \A i \in DOMAIN items \ old : s.items[i] = items[i]
        BY DEF Rewritten, old
    <2>7. \A i \in old \cup {n} : NewRow(after[i], i, listing, remembered)
        BY <1>1, <2>4, <2>5, <2>6
    <2>8. /\ DOMAIN after = DOMAIN items \cup (old \cup {n})
          /\ \A i \in DOMAIN items \ (old \cup {n}) : after[i] = items[i]
        BY <2>5, <2>6
    <2>9. Rewritten(after, n, listing, remembered)
        BY <2>1, <2>7, <2>8 DEF Rewritten
    <2> QED
        BY <2>9 DEF after
<1>4. CASE ~(n \in DOMAIN listing.texts /\ body # Blank)
    <2>1. Written(listing, n) = old
        BY <1>4 DEF Written
    <2>2. after = s.items
        BY <1>4 DEF OneItem, Upsert, Stored
    <2> QED
        BY <2>1, <2>2 DEF Rewritten
<1> QED
    BY <1>3, <1>4

LEMMA ListedRows ==
    ASSUME NEW listing, NEW remembered, NEW n \in 0..ItemCount
    PROVE  Rewritten(Listed(listing, remembered)[n].items, n, listing, remembered)
<1> DEFINE Right(k) == Rewritten(Listed(listing, remembered)[k].items, k, listing, remembered)
           T == {k \in 0..ItemCount : ~Right(k)}
<1>1. ItemCount \in Nat
    BY CandidateAssumption
<1>2. SUFFICES ASSUME T # {} PROVE FALSE
    OBVIOUS
<1>3. T \in SUBSET Nat
    BY <1>1
<1>4. PICK k \in T : \A j \in T : k <= j
    BY <1>2, <1>3, LeastMember
<1>5. k \in 0..ItemCount /\ ~Right(k)
    BY <1>4
<1>6. CASE k = 0
    <2>1. Listed(listing, remembered)[0].items = items
        BY ListedUnfolds DEF Before
    <2>2. Written(listing, 0) = {}
        BY DEF Written
    <2> QED
        BY <1>5, <1>6, <2>1, <2>2 DEF Rewritten
<1>7. CASE k # 0
    <2>1. k \in 1..ItemCount /\ k - 1 \in 0..ItemCount /\ ~(k <= k - 1) /\ k \in Nat \ {0}
        BY <1>1, <1>5, <1>7
    <2>2. k - 1 \notin T
        <3> HIDE DEF T
        <3> QED
            BY <1>4, <2>1
    <2>3. Right(k - 1)
        BY <2>1, <2>2
    <2>4. Listed(listing, remembered)[k]
             = OneItem(Listed(listing, remembered)[k - 1], k, listing, remembered)
        BY <2>1, ListedUnfolds
    <2>5. Right(k)
        BY <2>1, <2>3, <2>4, OneItemWrites
    <2> QED
        BY <1>5, <2>5
<1> QED
    BY <1>5, <1>6, <1>7

-------------------------------------------------------------------------------
(* Decisions *)

LEMMA NextStates ==
    ASSUME NEW row, IsRow(row) \/ row = NoRow, NEW body, NEW suppressed \in BOOLEAN
    PROVE  LET next == NextState(row, body, suppressed)
           IN  /\ next \in States \ {"removed_upstream"}
               /\ row # NoRow /\ row.body # body =>
                     next \in {"candidate_new", "candidate_changed", "quarantined"}
               /\ row # NoRow /\ row.body = body /\ row.state \in Decided =>
                     next \in {row.state, "rejected"}
               /\ row = NoRow /\ suppressed => next = "rejected"
               /\ row # NoRow /\ row.state = "rejected" => next # "promoted"
<1> DEFINE next == NextState(row, body, suppressed)
           unchanged == row # NoRow /\ row.body = body
<1>1. row # NoRow => row.state \in States
    BY DEF IsRow
<1>2. CASE suppressed /\ (row = NoRow \/ unchanged)
    <2>1. next = "rejected"
        BY <1>2 DEF NextState
    <2> QED
        BY <1>2, <2>1 DEF States
<1>3. CASE ~(suppressed /\ (row = NoRow \/ unchanged)) /\ body \in Risky
    <2>1. next = IF unchanged /\ row.state \in Decided THEN row.state ELSE "quarantined"
        BY <1>3 DEF NextState
    <2> QED
        BY <1>3, <2>1 DEF States, Decided
<1>4. CASE ~(suppressed /\ (row = NoRow \/ unchanged)) /\ body \notin Risky
    <2>1. CASE row = NoRow
        <3>1. next = "candidate_new"
            BY <1>4, <2>1 DEF NextState
        <3> QED
            BY <1>4, <2>1, <3>1 DEF States
    <2>2. CASE unchanged /\ row.state # "removed_upstream"
        <3>1. next = row.state
            BY <1>4, <2>2 DEF NextState
        <3> QED
            BY <1>1, <2>2, <3>1 DEF States
    <2>3. CASE unchanged /\ row.state = "removed_upstream"
        <3>1. next = IF row.link = Null THEN "candidate_new" ELSE "promoted"
            BY <1>4, <2>3 DEF NextState
        <3> QED
            BY <2>3, <3>1 DEF States, Decided
    <2>4. CASE row # NoRow /\ ~unchanged
        <3>1. next = IF row.state = "rejected" THEN "candidate_new" ELSE "candidate_changed"
            BY <1>4, <2>4 DEF NextState
        <3> QED
            BY <2>4, <3>1 DEF States
    <2> QED
        BY <2>1, <2>2, <2>3, <2>4
<1> QED
    BY <1>2, <1>3, <1>4

\* What an ingest of a listing makes of the table.
IngestedTable(after, listing, remembered) ==
    LET written == {i \in DOMAIN listing.texts : listing.texts[i] # Blank}
    IN  /\ DOMAIN after = DOMAIN items \cup written
        /\ \A i \in written : NewRow(after[i], i, listing, remembered)
        /\ \A i \in DOMAIN items \ written :
              \/ after[i] = items[i]
              \/ /\ listing.full
                 /\ i \notin DOMAIN listing.texts
                 /\ after[i] = [items[i] EXCEPT !.state = "removed_upstream"]
        /\ listing.full /\ written = DOMAIN listing.texts =>
              \A i \in DOMAIN items \ written :
                 Source[i] = listing.source => after[i].state = "removed_upstream"

LEMMA NewRowIsRow ==
    ASSUME TableOk(items), NEW listing, NEW remembered, NEW i, NEW x,
           NewRow(x, i, listing, remembered)
    PROVE  IsRow(x)
<1>1. PICK suppressed \in BOOLEAN :
         x = [body  |-> listing.texts[i],
              state |-> NextState(RowIn(items, i), listing.texts[i], suppressed),
              link  |-> IF RowIn(items, i) = NoRow THEN Null ELSE RowIn(items, i).link]
    BY DEF NewRow
<1>2. IsRow(RowIn(items, i)) \/ RowIn(items, i) = NoRow
    BY DEF RowIn, TableOk
<1>3. NextState(RowIn(items, i), listing.texts[i], suppressed) \in States
    BY <1>2, NextStates
<1> QED
    BY <1>1, <1>3 DEF IsRow

LEMMA IngestWrites ==
    ASSUME NEW listing \in Listings, NEW remembered, TableOk(items)
    PROVE  IngestedTable(Ingested(listing, remembered).items, listing, remembered)
<1> DEFINE listed  == Listed(listing, remembered)[ItemCount].items
           written == {i \in DOMAIN listing.texts : listing.texts[i] # Blank}
           gone    == Vanished(listed, listing)
           after   == Ingested(listing, remembered).items
<1>1. ItemCount \in Nat /\ ItemCount \in 0..ItemCount
    BY CandidateAssumption
<1>2. Rewritten(listed, ItemCount, listing, remembered)
    BY <1>1, ListedRows
<1>3. Written(listing, ItemCount) = written
    BY CandidateAssumption DEF Written, Items
<1>4. after = [i \in DOMAIN listed |->
                  IF i \in gone THEN [listed[i] EXCEPT !.state = "removed_upstream"]
                  ELSE listed[i]]
    BY DEF Ingested
<1>5. /\ gone \subseteq DOMAIN listed
      /\ \A i \in gone : listing.full /\ i \notin DOMAIN listing.texts
      /\ listing.full /\ written = DOMAIN listing.texts =>
            \A i \in DOMAIN listed \ written : Source[i] = listing.source => i \in gone
    BY DEF Vanished
<1> HIDE DEF listed, gone, after
<1>6. /\ DOMAIN listed = DOMAIN items \cup written
      /\ \A i \in written : NewRow(listed[i], i, listing, remembered)
      /\ \A i \in DOMAIN items \ written : listed[i] = items[i]
    BY <1>2, <1>3 DEF Rewritten
<1>7. DOMAIN after = DOMAIN items \cup written
    BY <1>4, <1>6
<1>8. \A i \in written : after[i] = listed[i]
    BY <1>4, <1>5, <1>6
<1>9. ASSUME NEW i \in DOMAIN items \ written
      PROVE  \/ i \notin gone /\ after[i] = items[i]
             \/ /\ listing.full /\ i \notin DOMAIN listing.texts
                /\ after[i] = [items[i] EXCEPT !.state = "removed_upstream"]
    BY <1>4, <1>5, <1>6
<1>10. ASSUME listing.full, written = DOMAIN listing.texts, NEW i \in DOMAIN items \ written,
              Source[i] = listing.source
       PROVE  after[i].state = "removed_upstream"
    <2>1. IsRow(items[i])
        BY DEF TableOk
    <2>2. i \in gone
        BY <1>5, <1>6, <1>10
    <2>3. after[i] = [items[i] EXCEPT !.state = "removed_upstream"]
        BY <1>9, <2>2
    <2>4. "state" \in DOMAIN items[i]
        BY <2>1 DEF IsRow
    <2> QED
        BY <2>3, <2>4
<1>11. \A i \in written : NewRow(after[i], i, listing, remembered)
    BY <1>6, <1>8
<1> HIDE DEF written
<1>12. /\ DOMAIN after = DOMAIN items \cup written
       /\ \A i \in written : NewRow(after[i], i, listing, remembered)
       /\ \A i \in DOMAIN items \ written :
             \/ after[i] = items[i]
             \/ /\ listing.full /\ i \notin DOMAIN listing.texts
                /\ after[i] = [items[i] EXCEPT !.state = "removed_upstream"]
       /\ listing.full /\ written = DOMAIN listing.texts =>
             \A i \in DOMAIN items \ written :
                Source[i] = listing.source => after[i].state = "removed_upstream"
    BY <1>7, <1>9, <1>10, <1>11
<1> QED
    BY <1>12, Zenon DEF IngestedTable, after, written

LEMMA IngestKeepsRows ==
    ASSUME TableOk(items), NEW listing, NEW remembered, NEW after,
           IngestedTable(after, listing, remembered)
    PROVE  TableOk(after)
<1> SUFFICES ASSUME NEW i \in DOMAIN after
             PROVE  IsRow(after[i])
    BY DEF TableOk
<1>1. CASE NewRow(after[i], i, listing, remembered)
    BY <1>1, NewRowIsRow
<1>2. CASE ~NewRow(after[i], i, listing, remembered)
    <2>1. i \in DOMAIN items /\ IsRow(items[i])
        BY <1>2 DEF IngestedTable, TableOk
    <2>2. \/ after[i] = items[i]
          \/ after[i] = [items[i] EXCEPT !.state = "removed_upstream"]
        BY <1>2, <2>1 DEF IngestedTable
    <2> QED
        BY <2>1, <2>2 DEF IsRow, States
<1> QED
    BY <1>1, <1>2

\* The rows are rows, and what is being ingested is a listing.
RowsInv ==
    /\ TableOk(items)
    /\ DOMAIN work = Workers
    /\ \A w \in Workers : work[w].op = "ingest" => work[w].listing \in Listings

\* A curator's step, which may change the state and the link of a row.
LEMMA CuratorsKeepBodies ==
    ASSUME RowsInv, NEW w \in Workers, Curate(w) \/ Abandon(w)
    PROVE  /\ DOMAIN items' = DOMAIN items
           /\ \A i \in DOMAIN items : items'[i].body = items[i].body
           /\ RowsInv'
<1>1. ASSUME NEW i \in DOMAIN items, NEW s \in States,
             items' = [items EXCEPT ![i].state = s]
      PROVE  /\ DOMAIN items' = DOMAIN items
             /\ \A j \in DOMAIN items : items'[j].body = items[j].body
             /\ TableOk(items)'
    BY <1>1 DEF RowsInv, TableOk, IsRow
<1>2. ASSUME NEW job, job.op # "ingest", work' = [work EXCEPT ![w] = job], TableOk(items)'
      PROVE  RowsInv'
    BY <1>2 DEF RowsInv
<1>3. CASE \E i \in DOMAIN items : Reject(w, i)
    <2>1. PICK i \in DOMAIN items : Reject(w, i)
        BY <1>3
    <2>2. items' = [items EXCEPT ![i].state = "rejected"] /\ UNCHANGED work
        BY <2>1 DEF Reject
    <2> QED
        BY <1>1, <2>2 DEF RowsInv, States
<1>4. CASE \E i \in DOMAIN items : BeginReview(w, i) \/ \E ack \in Acks : BeginPromote(w, i, ack)
    <2>1. UNCHANGED items
        BY <1>4 DEF BeginReview, BeginPromote
    <2>2. \E job : job.op # "ingest" /\ work' = [work EXCEPT ![w] = job]
        <3>1. CASE \E i \in DOMAIN items : BeginReview(w, i)
            <4>1. PICK i \in DOMAIN items : work' = [work EXCEPT ![w] = [op |-> "review", item |-> i]]
                BY <3>1 DEF BeginReview
            <4> QED
                BY <4>1
        <3>2. CASE \E i \in DOMAIN items, ack \in Acks : BeginPromote(w, i, ack)
            <4>1. PICK i \in DOMAIN items, ack \in Acks :
                     work' = [work EXCEPT ![w] =
                        [op |-> "save", item |-> i, body |-> items[i].body,
                         ack |-> ack, template |-> PromotionTarget(i)]]
                BY <3>2 DEF BeginPromote
            <4> QED
                BY <4>1
        <3> QED
            BY <1>4, <3>1, <3>2
    <2>3. RowsInv'
        BY <1>2, <2>1, <2>2 DEF RowsInv, TableOk, IsRow
    <2> QED
        BY <2>1, <2>3
<1>5. CASE FinishReview(w)
    <2>1. /\ items' = [items EXCEPT ![work[w].item].state = "reviewed"]
          /\ work' = [work EXCEPT ![w] = Idle]
        BY <1>5 DEF FinishReview
    <2>2. /\ DOMAIN items' = DOMAIN items
          /\ \A j \in DOMAIN items : items'[j].body = items[j].body
          /\ TableOk(items)'
        BY <2>1 DEF RowsInv, TableOk, IsRow, States
    <2>3. Idle.op # "ingest"
        BY DEF Idle
    <2> QED
        BY <1>2, <2>1, <2>2, <2>3
<1>6. CASE SaveTemplate(w)
    <2>1. UNCHANGED items
        BY <1>6 DEF SaveTemplate
    <2>2. PICK t, v : work' = [work EXCEPT ![w] =
                         [op |-> "link", item |-> work[w].item, template |-> t, version |-> v]]
        BY <1>6 DEF SaveTemplate
    <2> DEFINE job == [op |-> "link", item |-> work[w].item, template |-> t, version |-> v]
    <2>3. job.op # "ingest" /\ TableOk(items)'
        BY <2>1 DEF RowsInv, TableOk, IsRow
    <2> HIDE DEF job
    <2>4. RowsInv'
        BY <1>2, <2>2, <2>3 DEF job
    <2> QED
        BY <2>1, <2>4
<1>7. CASE LinkPromotion(w)
    <2> DEFINE x == <<work[w].template, work[w].version>>
    <2>1. /\ items' = [items EXCEPT ![work[w].item].state = "promoted",
                                    ![work[w].item].link  = x]
          /\ work' = [work EXCEPT ![w] = Idle]
        BY <1>7 DEF LinkPromotion
    <2> HIDE DEF x
    <2>2. /\ DOMAIN items' = DOMAIN items
          /\ \A j \in DOMAIN items : items'[j].body = items[j].body
          /\ TableOk(items)'
        BY <2>1 DEF RowsInv, TableOk, IsRow, States
    <2>3. Idle.op # "ingest"
        BY DEF Idle
    <2> QED
        BY <1>2, <2>1, <2>2, <2>3
<1>8. CASE Abandon(w)
    <2>1. UNCHANGED items /\ work' = [work EXCEPT ![w] = Idle] /\ Idle.op # "ingest"
        BY <1>8 DEF Abandon, Idle
    <2> QED
        BY <1>2, <2>1 DEF RowsInv, TableOk, IsRow
<1> QED
    BY <1>3, <1>4, <1>5, <1>6, <1>7, <1>8 DEF Curate

LEMMA CommitWrites ==
    ASSUME RowsInv, NEW w \in Workers, CommitIngest(w)
    PROVE  /\ IngestedTable(items', work[w].listing, work[w].remembered)
           /\ work[w].listing \in Listings
           /\ RowsInv'
<1>1. /\ work[w].op = "ingest" /\ work' = [work EXCEPT ![w] = Idle]
      /\ items' = Ingested(work[w].listing, work[w].remembered).items
    BY DEF CommitIngest
<1>2. work[w].listing \in Listings
    BY <1>1 DEF RowsInv
<1>3. IngestedTable(items', work[w].listing, work[w].remembered)
    BY <1>1, <1>2, IngestWrites DEF RowsInv
<1>4. TableOk(items')
    BY <1>3, IngestKeepsRows DEF RowsInv
<1>5. Idle.op # "ingest"
    BY DEF Idle
<1>6. RowsInv'
    BY <1>1, <1>4, <1>5 DEF RowsInv, TableOk, IsRow
<1> QED
    BY <1>2, <1>3, <1>6

\* What is read for an ingest is a listing.
LEMMA BeginKeepsRows ==
    ASSUME RowsInv, NEW w \in Workers, NEW listing \in Listings, BeginIngest(w, listing)
    PROVE  RowsInv' /\ UNCHANGED items
<1> DEFINE job == [op |-> "ingest", listing |-> listing, remembered |-> RejectedHashes]
<1>1. UNCHANGED items /\ work' = [work EXCEPT ![w] = job]
    BY DEF BeginIngest
<1>2. job.listing = listing
    OBVIOUS
<1> HIDE DEF job
<1> QED
    BY <1>1, <1>2 DEF RowsInv, TableOk, IsRow

LEMMA RowsStep ==
    ASSUME RowsInv, [Next]_vars
    PROVE  RowsInv'
<1>1. CASE UNCHANGED vars
    BY <1>1 DEF vars, RowsInv, TableOk, IsRow
<1>2. ASSUME NEW w \in Workers, Curate(w) \/ Abandon(w)
      PROVE  RowsInv'
    BY <1>2, CuratorsKeepBodies
<1>3. ASSUME NEW w \in Workers, Ingest(w)
      PROVE  RowsInv'
    BY <1>3, CommitWrites, BeginKeepsRows DEF Ingest
<1> QED
    BY <1>1, <1>2, <1>3 DEF Next

\* The decisions after an ingest are those before it, on texts that stayed.
LEMMA IngestDecides ==
    ASSUME TableOk(items), NEW listing, NEW remembered,
           IngestedTable(items', listing, remembered), NEW i \in DOMAIN items
    PROVE  /\ items'[i].body # items[i].body =>
                 items'[i].state \in {"candidate_new", "candidate_changed", "quarantined"}
           /\ items[i].state \in Decided /\ items'[i].body = items[i].body =>
                 items'[i].state \in {items[i].state, "rejected", "removed_upstream"}
           /\ items[i].state = "rejected" => items'[i].state # "promoted"
           /\ items'[i].link = items[i].link
<1>1. IsRow(items[i]) /\ RowIn(items, i) = items[i] /\ items[i] # NoRow
    BY DEF TableOk, RowIn, NoRow, IsRow, States
<1>2. CASE NewRow(items'[i], i, listing, remembered)
    <2>1. PICK suppressed \in BOOLEAN :
             items'[i] = [body  |-> listing.texts[i],
                          state |-> NextState(items[i], listing.texts[i], suppressed),
                          link  |-> items[i].link]
        BY <1>1, <1>2 DEF NewRow
    <2> DEFINE next == NextState(items[i], listing.texts[i], suppressed)
    <2>2. /\ items[i].body # listing.texts[i] =>
                next \in {"candidate_new", "candidate_changed", "quarantined"}
          /\ items[i].body = listing.texts[i] /\ items[i].state \in Decided =>
                next \in {items[i].state, "rejected"}
          /\ items[i].state = "rejected" => next # "promoted"
        BY <1>1, NextStates
    <2>3. /\ items'[i].body = listing.texts[i] /\ items'[i].state = next
          /\ items'[i].link = items[i].link
        BY <2>1
    <2> QED
        BY <2>2, <2>3
<1>3. CASE ~NewRow(items'[i], i, listing, remembered)
    <2>1. \/ items'[i] = items[i]
          \/ items'[i] = [items[i] EXCEPT !.state = "removed_upstream"]
        BY <1>3 DEF IngestedTable
    <2> QED
        BY <1>1, <2>1 DEF IsRow
<1> QED
    BY <1>2, <1>3

\* A row whose text changes is shown to the curator again, and an ingest that finds a
\* decided text as it was leaves the decision alone, unless a like text was rejected or
\* the item is gone upstream (_next_state, set_state, link_promotion).
THEOREM DecisionsFollow == Spec => DecisionsFollowTexts
<1>1. Init => RowsInv
    BY DEF Init, RowsInv, TableOk, Idle
<1>2. ASSUME RowsInv, [Next]_vars
      PROVE  [/\ \A i \in DOMAIN items : items'[i].body # items[i].body =>
                    items'[i].state \in {"candidate_new", "candidate_changed", "quarantined"}
              /\ \A w \in Workers : CommitIngest(w) =>
                    \A i \in DOMAIN items :
                       items[i].state \in Decided /\ items'[i].body = items[i].body =>
                           items'[i].state \in {items[i].state, "rejected", "removed_upstream"}]_vars
    <2>1. ASSUME NEW w \in Workers, CommitIngest(w), NEW i \in DOMAIN items
          PROVE  /\ items'[i].body # items[i].body =>
                       items'[i].state \in {"candidate_new", "candidate_changed", "quarantined"}
                 /\ items[i].state \in Decided /\ items'[i].body = items[i].body =>
                       items'[i].state \in {items[i].state, "rejected", "removed_upstream"}
        BY <1>2, <2>1, CommitWrites, IngestDecides DEF RowsInv
    <2>2. ASSUME Next, NEW i \in DOMAIN items, items'[i].body # items[i].body
          PROVE  items'[i].state \in {"candidate_new", "candidate_changed", "quarantined"}
        <3>1. ASSUME NEW w \in Workers, Curate(w) \/ Abandon(w)
              PROVE  FALSE
            BY <1>2, <2>2, <3>1, CuratorsKeepBodies
        <3>2. ASSUME NEW w \in Workers, NEW listing \in Listings, BeginIngest(w, listing)
              PROVE  FALSE
            BY <2>2, <3>2 DEF BeginIngest
        <3> QED
            BY <2>1, <2>2, <3>1, <3>2 DEF Next, Ingest
    <2> QED
        BY <1>2, <2>1, <2>2
<1> QED
    BY <1>1, <1>2, RowsStep, PTL DEF Spec, DecisionsFollowTexts

-------------------------------------------------------------------------------
(* The lease *)

Steps == {"resting", "leased", "asking", "unchanged", "fetching", "ingesting",
          "ingested", "closing"}

\* A refresh that has not outlasted its 600 s owns the lease, and the lease is live.
LeaseInv ==
    /\ head \in Nat /\ revision \in Nat
    /\ refresh \in [Workers -> [at : Steps, known : Nat, sha : Nat]]
    /\ lease \in [owner : Workers, expired : BOOLEAN] \cup {Null}
    /\ overruns \in Nat /\ (overruns = 0 => late = {})
    /\ \A r \in Workers \ late : refresh[r].at # "resting" =>
          lease # Null /\ lease.owner = r /\ ~lease.expired

Rows == [at : Steps, known : Nat, sha : Nat]

\* A step of a refresh under way that leaves the lease alone.
LEMMA UnderWay ==
    ASSUME LeaseInv, NEW r \in Workers, refresh[r].at # "resting",
           UNCHANGED <<lease, timeVars>>,
           head' \in Nat, revision' \in Nat, NEW row \in Rows,
           refresh' = [refresh EXCEPT ![r] = row]
    PROVE  LeaseInv'
<1>1. refresh' \in [Workers -> Rows]
    BY DEF LeaseInv, Rows
<1>2. \A q \in Workers : refresh'[q].at # "resting" => refresh[q].at # "resting"
    BY DEF LeaseInv
<1> QED
    BY <1>1, <1>2 DEF LeaseInv, Rows, timeVars

LEMMA StepUnderWay ==
    ASSUME LeaseInv, NEW r \in Workers, refresh[r].at # "resting",
           UNCHANGED <<lease, timeVars>>,
           head' \in Nat, revision' \in Nat, NEW s \in Steps, GoTo(r, s)
    PROVE  LeaseInv'
<1>1. [refresh[r] EXCEPT !.at = s] \in Rows
    BY DEF LeaseInv, Rows
<1>2. refresh' = [refresh EXCEPT ![r] = [refresh[r] EXCEPT !.at = s]]
    BY DEF GoTo
<1> QED
    BY <1>1, <1>2, UnderWay

\* A refresh that ends takes no lease from another.
LEMMA RestKeepsLease ==
    ASSUME LeaseInv, NEW r \in Workers, Rest(r), UNCHANGED <<head, revision, overruns>>,
           lease' \in [owner : Workers, expired : BOOLEAN] \cup {Null},
           \A q \in Workers : q # r /\ lease # Null /\ lease.owner = q => lease' = lease
    PROVE  LeaseInv'
<1>1. /\ refresh' = [refresh EXCEPT ![r] = Resting] /\ late' = late \ {r}
      /\ Resting \in Rows /\ Resting.at = "resting"
    BY DEF Rest, Resting, Rows, Steps
<1>2. /\ refresh' \in [Workers -> Rows] /\ refresh'[r].at = "resting"
      /\ \A q \in Workers \ {r} : refresh'[q] = refresh[q]
    BY <1>1 DEF LeaseInv, Rows
<1>3. ASSUME NEW q \in Workers \ late', refresh'[q].at # "resting"
      PROVE  lease' # Null /\ lease'.owner = q /\ ~lease'.expired
    <2>1. q # r /\ q \notin late /\ refresh[q].at # "resting"
        BY <1>1, <1>2, <1>3
    <2> QED
        BY <2>1 DEF LeaseInv
<1> QED
    BY <1>1, <1>2, <1>3 DEF LeaseInv, Rows

LEMMA LeaseStep ==
    ASSUME LeaseInv, [RefreshNext]_<<vars, refreshVars>>
    PROVE  LeaseInv'
<1>1. CASE UNCHANGED <<vars, refreshVars>>
    BY <1>1 DEF LeaseInv, refreshVars, timeVars
<1>2. CASE Publish
    BY <1>2 DEF Publish, LeaseInv, timeVars
<1>3. CASE Expire
    <2>1. /\ lease # Null /\ lease.owner \in Workers /\ refresh[lease.owner].at = "resting"
          /\ lease' \in [owner : Workers, expired : BOOLEAN]
          /\ UNCHANGED <<head, revision, refresh, late, overruns>>
        BY <1>3 DEF Expire, LeaseInv, timeVars
    <2>2. \A r \in Workers \ late : refresh[r].at = "resting"
        BY <2>1 DEF LeaseInv
    <2> QED
        BY <2>1, <2>2 DEF LeaseInv
<1>4. ASSUME NEW r \in Workers, Outlast(r)
      PROVE  LeaseInv'
    <2>1. /\ late' = late \cup {r} /\ overruns' = overruns + 1
          /\ UNCHANGED <<head, revision, refresh>>
          /\ lease' \in [owner : Workers, expired : BOOLEAN] \cup {Null}
        BY <1>4 DEF Outlast, LeaseInv
    <2>2. overruns' \in Nat /\ overruns' # 0
        BY <2>1 DEF LeaseInv
    <2>3. ASSUME NEW q \in Workers \ late', refresh[q].at # "resting"
          PROVE  lease' # Null /\ lease'.owner = q /\ ~lease'.expired
        <3>1. q # r /\ lease # Null /\ lease.owner = q /\ ~lease.expired
            BY <2>1, <2>3 DEF LeaseInv
        <3> QED
            BY <1>4, <3>1 DEF Outlast
    <2> QED
        BY <2>1, <2>2, <2>3 DEF LeaseInv
<1>5. ASSUME NEW r \in Workers, RefreshStep(r) \/ Fail(r) \/ Die(r)
      PROVE  LeaseInv'
    <2>0. /\ refresh[r] \in Rows /\ head \in Nat /\ revision \in Nat /\ Resting \in Rows
          /\ {"leased", "asking", "unchanged", "fetching", "ingesting", "ingested",
              "closing"} \subseteq Steps
        BY <1>5 DEF LeaseInv, Resting, Rows, Steps
    <2>1. CASE Acquire(r)
        <3>1. \A q \in Workers \ late : refresh[q].at = "resting"
            BY <2>1 DEF Acquire, LeaseIsFree, LeaseInv
        <3>2. /\ lease' = [owner |-> r, expired |-> FALSE] /\ lease' # Null
              /\ lease' \in [owner : Workers, expired : BOOLEAN]
            <4>1. lease' = [owner |-> r, expired |-> FALSE]
                BY <2>1 DEF Acquire
            <4>2. lease' \in [owner : Workers, expired : BOOLEAN]
                BY <1>5, <4>1
            <4> QED
                BY <4>1, <4>2, UpstreamAssumption
        <3>3. refresh' = [refresh EXCEPT ![r] = [refresh[r] EXCEPT !.at = "leased"]]
            BY <2>1 DEF Acquire, GoTo
        <3>4. [refresh[r] EXCEPT !.at = "leased"] \in Rows
            BY <2>0 DEF Rows
        <3>5. /\ refresh' \in [Workers -> Rows]
              /\ \A q \in Workers \ late : q # r => refresh'[q].at = "resting"
            BY <3>1, <3>3, <3>4 DEF LeaseInv, Rows
        <3>6. /\ head' \in Nat /\ revision' \in Nat
              /\ UNCHANGED <<late, overruns>>
            BY <2>0, <2>1 DEF Acquire, timeVars
        <3> QED
            BY <3>2, <3>5, <3>6 DEF LeaseInv, Rows
    <2>2. CASE ReadSource(r)
        <3> DEFINE row == [[refresh[r] EXCEPT !.at = "asking"] EXCEPT !.known = revision]
        <3>1. row \in Rows
            BY <2>0 DEF Rows
        <3>2. /\ refresh' = [refresh EXCEPT ![r] = row] /\ refresh[r].at # "resting"
              /\ UNCHANGED <<lease, timeVars>> /\ head' \in Nat /\ revision' \in Nat
            BY <2>0, <2>2 DEF ReadSource, LeaseInv
        <3> HIDE DEF row
        <3> QED
            BY <1>5, <3>1, <3>2, UnderWay
    <2>3. CASE FetchRevision(r)
        <3> DEFINE next == IF head = refresh[r].known THEN "unchanged" ELSE "fetching"
                   row  == [[refresh[r] EXCEPT !.at = next] EXCEPT !.sha = head]
        <3>1. row \in Rows
            BY <2>0 DEF Rows
        <3>2. /\ refresh' = [refresh EXCEPT ![r] = row] /\ refresh[r].at # "resting"
              /\ UNCHANGED <<lease, timeVars>> /\ head' \in Nat /\ revision' \in Nat
            BY <2>0, <2>3 DEF FetchRevision, LeaseInv
        <3> HIDE DEF row
        <3> QED
            BY <1>5, <3>1, <3>2, UnderWay
    <2>4. CASE FetchFiles(r)
        BY <1>5, <2>0, <2>4, StepUnderWay DEF FetchFiles
    <2>5. CASE IngestFiles(r)
        BY <1>5, <2>0, <2>5, StepUnderWay DEF IngestFiles
    <2>6. CASE MarkSuccess(r)
        <3>1. revision' \in Nat
            BY <2>0, <2>6 DEF MarkSuccess, FetchedRevision, Rows
        <3> QED
            BY <1>5, <2>0, <2>6, <3>1, StepUnderWay DEF MarkSuccess
    <2>7. CASE Fail(r)
        BY <1>5, <2>0, <2>7, StepUnderWay DEF Fail, RevisionAfterError
    <2>8. CASE Release(r)
        <3>1. /\ Rest(r) /\ lease' = Released(r) /\ UNCHANGED <<head, revision, overruns>>
              /\ lease' \in [owner : Workers, expired : BOOLEAN] \cup {Null}
            BY <2>8 DEF Release, Released, LeaseInv
        <3>2. \A q \in Workers : q # r /\ lease # Null /\ lease.owner = q => lease' = lease
            BY <3>1 DEF Released
        <3> QED
            BY <1>5, <2>0, <3>1, <3>2, RestKeepsLease
    <2>9. CASE Die(r)
        BY <1>5, <2>0, <2>9, RestKeepsLease DEF Die, LeaseInv
    <2> QED
        BY <1>5, <2>1, <2>2, <2>3, <2>4, <2>5, <2>6, <2>7, <2>8, <2>9 DEF RefreshStep
<1> QED
    BY <1>1, <1>2, <1>3, <1>4, <1>5 DEF RefreshNext

LEMMA LeaseInvImplies ==
    ASSUME LeaseInv
    PROVE  OneRefreshInTime
<1> DEFINE Busy == {r \in Workers \ late : refresh[r].at # "resting"}
<1>1. CASE Busy = {}
    BY <1>1, FS_EmptySet DEF OneRefreshInTime
<1>2. CASE Busy # {}
    <2>1. PICK r \in Busy : TRUE
        BY <1>2
    <2>2. Busy = {r}
        BY <2>1 DEF LeaseInv
    <2>3. Cardinality({r}) = 1
        BY FS_Singleton
    <2> QED
        BY <2>2, <2>3 DEF OneRefreshInTime
<1> QED
    BY <1>1, <1>2

LEMMA LeaseAtFirst ==
    ASSUME RefreshInit
    PROVE  LeaseInv
BY DEF RefreshInit, LeaseInv, Resting, Steps

\* Whatever the catalogue does is a step of a refresh, or none of its business.
LEMMA CatalogueStep ==
    ASSUME [CatalogueNext]_allVars
    PROVE  [RefreshNext]_<<vars, refreshVars>> \/ UNCHANGED refreshVars
<1>1. CASE UNCHANGED allVars
    BY <1>1 DEF allVars
<1>2. CASE (Publish \/ Expire \/ \E r \in Workers : Outlast(r)) /\ Same
    BY <1>2 DEF RefreshNext
<1>3. CASE Elapse
    BY <1>3 DEF Elapse
<1>4. CASE Operator
    BY <1>4 DEF Operator, CheckCompatible, Enable, Disable
<1>5. ASSUME NEW r \in Workers, Catalogued(r)
      PROVE  RefreshStep(r) \/ Fail(r) \/ Die(r) \/ UNCHANGED refreshVars
    <2>1. CASE TimerStarts(r) \/ NameStarts(r) \/ TurnedAway(r) \/ MarkIncompatible(r)
        BY <2>1 DEF TimerStarts, NameStarts, Start, TurnedAway, MarkIncompatible
    <2>2. CASE Refuse(r) \/ RefreshFails(r) \/ ProcessDies(r)
        BY <2>2 DEF Refuse, RefuseLicence, RefuseLayout, RefreshFails, ProcessDies
    <2>3. CASE ClaimLease(r) \/ Answer(r) \/ AskHead(r) \/ AcceptFiles(r)
                 \/ IngestRevision(r) \/ RecordSuccess(r) \/ Unlock(r)
        BY <2>3 DEF ClaimLease, Answer, AskHead, AcceptFiles, IngestRevision,
                    RecordSuccess, Unlock, RefreshStep
    <2> QED
        BY <1>5, <2>1, <2>2, <2>3 DEF Catalogued
<1>6. ASSUME NEW w \in Workers,
             (\E l \in LocalImports : BeginImport(w, l)) \/ CommitImport(w) \/ ImportFails(w)
      PROVE  UNCHANGED refreshVars
    BY <1>6 DEF BeginImport, CommitImport, ImportFails
<1> QED
    BY <1>1, <1>2, <1>3, <1>4, <1>5, <1>6 DEF CatalogueNext, RefreshNext

LEMMA CatalogueKeepsLease ==
    ASSUME LeaseInv, [CatalogueNext]_allVars
    PROVE  LeaseInv'
<1>1. CASE UNCHANGED refreshVars
    BY <1>1 DEF LeaseInv, refreshVars, timeVars
<1> QED
    BY <1>1, CatalogueStep, LeaseStep

\* Whatever timers, operators and imports do, dies, expires, is outlasted or released late,
\* of the refreshes that are within their 600 s one runs at a time
\* (try_acquire_refresh_lease, release_refresh_lease).
THEOREM LeaseSerializesRefreshes == CatalogueSpec => []OneRefreshInTime
<1>1. CatalogueInit => LeaseInv
    BY LeaseAtFirst DEF CatalogueInit
<1> QED
    BY <1>1, CatalogueKeepsLease, LeaseInvImplies, PTL DEF CatalogueSpec

-------------------------------------------------------------------------------
(* What gets into the table *)

RefreshTypes == head \in Nat /\ revision \in Nat /\ refresh \in [Workers -> Rows]

\* A refresh holds the lock of its source and works on what it ingests only, a revision
\* found fit; a local import brings less than a whole listing.
RefreshWork ==
    /\ \A r \in Workers : refresh[r].at # "resting" => r \in locked
    /\ \A r \in Workers \cap locked : work[r] # Idle => refresh[r].at = "ingesting"
    /\ \A r \in Workers : refresh[r].at = "ingesting" =>
          /\ refresh[r].sha \in Licensed \cap WellLaidOut
          /\ work[r].op = "ingest" /\ work[r].listing = Upstream[refresh[r].sha]
    /\ \A w \in Workers \ locked : work[w].op = "ingest" => ~work[w].listing.full

FitInv == RowsInv /\ RefreshTypes /\ RefreshWork /\ OnlyFitTexts

LEMMA NewRefreshRow ==
    ASSUME RefreshTypes, NEW r \in Workers, NEW row \in Rows,
           refresh' = [refresh EXCEPT ![r] = row]
    PROVE  /\ refresh' \in [Workers -> Rows] /\ refresh'[r] = row
           /\ \A q \in Workers \ {r} : refresh'[q] = refresh[q]
BY DEF RefreshTypes

LEMMA GoesTo ==
    ASSUME RefreshTypes, NEW r \in Workers, NEW s \in Steps, GoTo(r, s)
    PROVE  /\ refresh' \in [Workers -> Rows]
           /\ refresh'[r].at = s
           /\ refresh'[r].known = refresh[r].known /\ refresh'[r].sha = refresh[r].sha
           /\ \A q \in Workers \ {r} : refresh'[q] = refresh[q]
<1>1. refresh[r] \in Rows /\ [refresh[r] EXCEPT !.at = s] \in Rows
    BY DEF RefreshTypes, Rows
<1>2. refresh' = [refresh EXCEPT ![r] = [refresh[r] EXCEPT !.at = s]]
    BY DEF GoTo
<1>3. /\ [refresh[r] EXCEPT !.at = s].at = s
      /\ [refresh[r] EXCEPT !.at = s].known = refresh[r].known
      /\ [refresh[r] EXCEPT !.at = s].sha = refresh[r].sha
    BY <1>1 DEF Rows
<1> QED
    BY <1>1, <1>2, <1>3, NewRefreshRow

\* A step of the refresh of r that goes on, or ends, outside the table.
LEMMA Elsewhere ==
    ASSUME FitInv, NEW r \in Workers, refresh[r].at # "ingesting",
           head' \in Nat, revision' \in Nat,
           refresh' \in [Workers -> Rows],
           \A q \in Workers \ {r} : refresh'[q] = refresh[q],
           refresh'[r].at # "ingesting", r \in locked',
           UNCHANGED <<vars, locked, local>>
    PROVE  FitInv'
<1>1. RowsInv' /\ RefreshTypes'
    BY DEF FitInv, RowsInv, TableOk, IsRow, RefreshTypes, vars
<1>2. RefreshWork'
    BY DEF FitInv, RefreshWork, vars
<1>3. OnlyFitTexts'
    BY DEF FitInv, OnlyFitTexts, vars
<1> QED
    BY <1>1, <1>2, <1>3 DEF FitInv

\* A step that leaves the refreshes and the table as they are.
LEMMA NoRefresh ==
    ASSUME FitInv, UNCHANGED <<vars, revision, refresh, locked, local>>, head' \in Nat
    PROVE  FitInv'
BY DEF FitInv, RowsInv, TableOk, IsRow, RefreshTypes, RefreshWork, OnlyFitTexts, vars

LEMMA LockingKeepsFit ==
    ASSUME FitInv, NEW r \in Workers,
           \/ /\ locked' = locked \cup {r} /\ work[r] = Idle
           \/ /\ locked' = locked \ {r} /\ r \in locked /\ refresh[r].at = "resting",
           UNCHANGED <<vars, revision, refresh, local, head>>
    PROVE  FitInv'
<1>1. RowsInv' /\ RefreshTypes' /\ OnlyFitTexts'
    BY DEF FitInv, RowsInv, TableOk, IsRow, RefreshTypes, OnlyFitTexts, vars
<1>2. Idle.op = "idle"
    BY DEF Idle
<1>3. RefreshWork'
    BY <1>2 DEF FitInv, RefreshWork, vars
<1> QED
    BY <1>1, <1>3 DEF FitInv

\* A worker's job ends without a trace.
LEMMA DroppingKeepsFit ==
    ASSUME FitInv, NEW r \in Workers, DropWork(r), head' \in Nat, revision' \in Nat,
           UNCHANGED <<items, local>>,
           \/ /\ UNCHANGED <<refresh, locked>> /\ r \notin locked
           \/ /\ refresh' \in [Workers -> Rows]
              /\ \A q \in Workers \ {r} : refresh'[q] = refresh[q]
              /\ \/ refresh'[r].at = "closing" /\ UNCHANGED locked /\ r \in locked
                 \/ refresh'[r].at = "resting" /\ locked' = locked \ {r}
    PROVE  FitInv'
<1>1. /\ work' = [work EXCEPT ![r] = Idle] /\ Idle.op = "idle"
    BY DEF DropWork, Idle
<1>2. RowsInv' /\ RefreshTypes' /\ OnlyFitTexts'
    BY <1>1 DEF FitInv, RowsInv, TableOk, IsRow, RefreshTypes, OnlyFitTexts
<1>3. RefreshWork'
    BY <1>1 DEF FitInv, RefreshWork, RowsInv
<1> QED
    BY <1>2, <1>3 DEF FitInv

\* An ingest of a listing whose texts are fit, or are marked as local.
LEMMA IngestFits ==
    ASSUME FitInv, NEW listing, NEW remembered,
           IngestedTable(items', listing, remembered),
           \A i \in DOMAIN listing.texts :
              listing.texts[i] # Blank =>
                 \/ i \in local'
                 \/ \E n \in Licensed \cap WellLaidOut :
                       i \in DOMAIN Upstream[n].texts /\ Upstream[n].texts[i] = listing.texts[i],
           \A i \in local \ local' : i \in DOMAIN listing.texts /\ listing.texts[i] # Blank
    PROVE  OnlyFitTexts'
<1> SUFFICES ASSUME NEW i \in DOMAIN items' \ local'
             PROVE  \E n \in Licensed \cap WellLaidOut :
                       i \in DOMAIN Upstream[n].texts /\ Upstream[n].texts[i] = items'[i].body
    BY DEF OnlyFitTexts
<1>1. CASE i \in DOMAIN listing.texts /\ listing.texts[i] # Blank
    <2>1. NewRow(items'[i], i, listing, remembered)
        BY <1>1 DEF IngestedTable
    <2>2. items'[i].body = listing.texts[i]
        BY <2>1 DEF NewRow
    <2> QED
        BY <1>1, <2>2
<1>2. CASE ~(i \in DOMAIN listing.texts /\ listing.texts[i] # Blank)
    <2>1. i \in DOMAIN items /\ i \notin local
        BY <1>2 DEF IngestedTable
    <2>2. IsRow(items[i])
        BY <2>1 DEF FitInv, RowsInv, TableOk
    <2>3. \/ items'[i] = items[i]
          \/ items'[i] = [items[i] EXCEPT !.state = "removed_upstream"]
        BY <1>2, <2>1 DEF IngestedTable
    <2>4. items'[i].body = items[i].body
        BY <2>2, <2>3 DEF IsRow
    <2> QED
        BY <2>1, <2>4 DEF FitInv, OnlyFitTexts
<1> QED
    BY <1>1, <1>2

LEMMA RefreshKeepsFit ==
    ASSUME FitInv, NEW r \in Workers, Catalogued(r)
    PROVE  FitInv'
<1>1. /\ refresh[r] \in Rows /\ head \in Nat /\ revision \in Nat /\ Resting \in Rows
      /\ {"leased", "asking", "unchanged", "fetching", "ingesting", "ingested",
          "closing"} \subseteq Steps
      /\ RefreshTypes /\ RowsInv
    BY DEF FitInv, RefreshTypes, Resting, Rows, Steps
<1>2. refresh[r].at # "resting" => r \in locked
    BY DEF FitInv, RefreshWork
<1>3. CASE TimerStarts(r) \/ NameStarts(r)
    BY <1>3, LockingKeepsFit DEF TimerStarts, NameStarts, Start, refreshVars, importVars
<1>4. CASE TurnedAway(r)
    BY <1>4, LockingKeepsFit DEF TurnedAway, refreshVars, importVars
<1>5. CASE MarkIncompatible(r)
    BY <1>1, <1>5, NoRefresh DEF MarkIncompatible, refreshVars, importVars
<1>6. CASE ClaimLease(r)
    <2>1. /\ refresh[r].at = "resting" /\ r \in locked /\ GoTo(r, "leased")
          /\ UNCHANGED <<vars, head, revision, locked, local>>
        BY <1>6 DEF ClaimLease, Acquire, Same, catalogueVars, importVars
    <2>2. /\ refresh' \in [Workers -> Rows] /\ refresh'[r].at = "leased"
          /\ \A q \in Workers \ {r} : refresh'[q] = refresh[q]
        BY <1>1, <2>1, GoesTo
    <2> QED
        BY <1>1, <2>1, <2>2, Elsewhere
<1>7. CASE Answer(r)
    <2> DEFINE row == [[refresh[r] EXCEPT !.at = "asking"] EXCEPT !.known = revision]
    <2>1. row \in Rows /\ row.at = "asking"
        BY <1>1 DEF Rows
    <2>2. /\ refresh[r].at = "leased" /\ refresh' = [refresh EXCEPT ![r] = row]
          /\ UNCHANGED <<vars, head, revision, locked, local>>
        BY <1>1, <1>7 DEF Answer, ReadSource, Same, catalogueVars, importVars, RefreshTypes
    <2> HIDE DEF row
    <2>3. /\ refresh' \in [Workers -> Rows] /\ refresh'[r] = row
          /\ \A q \in Workers \ {r} : refresh'[q] = refresh[q]
        BY <1>1, <2>1, <2>2, NewRefreshRow
    <2> QED
        BY <1>1, <1>2, <2>1, <2>2, <2>3, Elsewhere
<1>8. CASE AskHead(r)
    <2> DEFINE next == IF head = refresh[r].known THEN "unchanged" ELSE "fetching"
               row  == [[refresh[r] EXCEPT !.at = next] EXCEPT !.sha = head]
    <2>1. row \in Rows /\ row.at # "ingesting"
        BY <1>1 DEF Rows
    <2>2. /\ refresh[r].at = "asking" /\ refresh' = [refresh EXCEPT ![r] = row]
          /\ UNCHANGED <<vars, head, revision, locked, local>>
        BY <1>1, <1>8 DEF AskHead, FetchRevision, Same, catalogueVars, importVars, RefreshTypes
    <2> HIDE DEF row
    <2>3. /\ refresh' \in [Workers -> Rows] /\ refresh'[r] = row
          /\ \A q \in Workers \ {r} : refresh'[q] = refresh[q]
        BY <1>1, <2>1, <2>2, NewRefreshRow
    <2> QED
        BY <1>1, <1>2, <2>1, <2>2, <2>3, Elsewhere
<1>9. CASE Refuse(r) \/ RefreshFails(r)
    <2>1. /\ Fail(r) /\ UNCHANGED <<locked, local>>
        BY <1>9 DEF Refuse, RefuseLicence, RefuseLayout, RefreshFails, Same,
                    catalogueVars, importVars
    <2>2. /\ refresh[r].at # "resting" /\ DropWork(r) /\ GoTo(r, "closing")
          /\ UNCHANGED <<items, head>> /\ revision' \in Nat
        BY <1>1, <2>1 DEF Fail, RevisionAfterError
    <2>3. /\ refresh' \in [Workers -> Rows] /\ refresh'[r].at = "closing"
          /\ \A q \in Workers \ {r} : refresh'[q] = refresh[q]
        BY <1>1, <2>2, GoesTo
    <2> QED
        BY <1>1, <1>2, <2>1, <2>2, <2>3, DroppingKeepsFit
<1>10. CASE AcceptFiles(r)
    <2> DEFINE listing == Upstream[refresh[r].sha]
    <2>1. /\ refresh[r].at = "fetching" /\ BeginIngest(r, listing) /\ GoTo(r, "ingesting")
          /\ refresh[r].sha \in Licensed \cap WellLaidOut
          /\ UNCHANGED <<head, revision, locked, local>>
        BY <1>10 DEF AcceptFiles, FetchFiles, LicenceMatches, LayoutMatches, importVars
    <2>2. /\ refresh' \in [Workers -> Rows] /\ refresh'[r].at = "ingesting"
          /\ refresh'[r].sha = refresh[r].sha
          /\ \A q \in Workers \ {r} : refresh'[q] = refresh[q]
        BY <1>1, <2>1, GoesTo
    <2>3. listing \in Listings
        BY <2>1, CatalogueAssumption, UpstreamAssumption
    <2>4. RowsInv' /\ UNCHANGED items
        BY <1>1, <2>1, <2>3, BeginKeepsRows
    <2>5. /\ work'[r].op = "ingest" /\ work'[r].listing = listing
          /\ \A q \in Workers \ {r} : work'[q] = work[q]
        BY <1>1, <2>1 DEF BeginIngest, RowsInv
    <2>6. RefreshWork'
        <3>1. r \in locked
            BY <1>2, <2>1
        <3>2. ASSUME NEW q \in Workers
              PROVE  /\ refresh'[q].at # "resting" => q \in locked'
                     /\ q \in locked' /\ work'[q] # Idle => refresh'[q].at = "ingesting"
                     /\ refresh'[q].at = "ingesting" =>
                           /\ refresh'[q].sha \in Licensed \cap WellLaidOut
                           /\ work'[q].op = "ingest"
                           /\ work'[q].listing = Upstream[refresh'[q].sha]
                     /\ q \notin locked' /\ work'[q].op = "ingest" => ~work'[q].listing.full
            <4>1. CASE q = r
                BY <2>1, <2>2, <2>5, <3>1, <4>1
            <4>2. CASE q # r
                BY <2>1, <2>2, <2>5, <4>2 DEF FitInv, RefreshWork
            <4> QED
                BY <4>1, <4>2
        <3> QED
            BY <3>2 DEF RefreshWork
    <2>7. OnlyFitTexts'
        BY <2>1, <2>4 DEF FitInv, OnlyFitTexts
    <2>8. RefreshTypes'
        BY <1>1, <2>1, <2>2 DEF RefreshTypes
    <2> QED
        BY <2>4, <2>6, <2>7, <2>8 DEF FitInv
<1>11. CASE IngestRevision(r)
    <2> DEFINE listing == work[r].listing
    <2>1. /\ refresh[r].at = "ingesting" /\ CommitIngest(r) /\ GoTo(r, "ingested")
          /\ local' = local \ {i \in DOMAIN listing.texts : listing.texts[i] # Blank}
          /\ UNCHANGED <<head, revision, locked>>
        BY <1>11 DEF IngestRevision, IngestFiles
    <2>2. /\ refresh' \in [Workers -> Rows] /\ refresh'[r].at = "ingested"
          /\ \A q \in Workers \ {r} : refresh'[q] = refresh[q]
        BY <1>1, <2>1, GoesTo
    <2>3. RowsInv' /\ IngestedTable(items', listing, work[r].remembered)
        BY <1>1, <2>1, CommitWrites
    <2>4. /\ refresh[r].sha \in Licensed \cap WellLaidOut /\ listing = Upstream[refresh[r].sha]
        BY <2>1 DEF FitInv, RefreshWork
    <2>5. /\ work'[r] = Idle /\ \A q \in Workers \ {r} : work'[q] = work[q]
        BY <1>1, <2>1 DEF CommitIngest, RowsInv
    <2> HIDE DEF listing
    <2>6. \A i \in DOMAIN listing.texts :
             \E n \in Licensed \cap WellLaidOut :
                i \in DOMAIN Upstream[n].texts /\ Upstream[n].texts[i] = listing.texts[i]
        BY <2>4
    <2>7. \A i \in local \ local' : i \in DOMAIN listing.texts /\ listing.texts[i] # Blank
        BY <2>1 DEF listing
    <2>8. OnlyFitTexts'
        BY <2>3, <2>6, <2>7, IngestFits
    <2>9. RefreshWork'
        BY <1>2, <2>1, <2>2, <2>5 DEF FitInv, RefreshWork, Idle
    <2>10. RefreshTypes'
        BY <1>1, <2>1, <2>2 DEF RefreshTypes
    <2> QED
        BY <2>3, <2>8, <2>9, <2>10 DEF FitInv
<1>12. CASE RecordSuccess(r)
    <2>1. /\ refresh[r].at \in {"unchanged", "ingested"} /\ GoTo(r, "closing")
          /\ revision' = refresh[r].sha /\ UNCHANGED <<vars, head, locked, local>>
        BY <1>12 DEF RecordSuccess, MarkSuccess, FetchedRevision, importVars
    <2>2. /\ refresh' \in [Workers -> Rows] /\ refresh'[r].at = "closing"
          /\ \A q \in Workers \ {r} : refresh'[q] = refresh[q]
        BY <1>1, <2>1, GoesTo
    <2>3. revision' \in Nat
        BY <1>1, <2>1 DEF Rows
    <2> QED
        BY <1>1, <1>2, <2>1, <2>2, <2>3, Elsewhere
<1>13. CASE Unlock(r)
    <2>1. /\ refresh[r].at = "closing" /\ refresh' = [refresh EXCEPT ![r] = Resting]
          /\ locked' = locked \ {r} /\ UNCHANGED <<vars, head, revision, local>>
        BY <1>13 DEF Unlock, Release, Rest, importVars
    <2>2. /\ refresh' \in [Workers -> Rows] /\ refresh'[r] = Resting
          /\ \A q \in Workers \ {r} : refresh'[q] = refresh[q]
        BY <1>1, <2>1, NewRefreshRow
    <2>3. Resting.at = "resting"
        BY DEF Resting
    <2>4. work[r] = Idle /\ Idle.op = "idle"
        BY <1>2, <2>1 DEF FitInv, RefreshWork, Idle
    <2>5. RowsInv' /\ OnlyFitTexts' /\ RefreshTypes'
        BY <1>1, <2>1, <2>2 DEF FitInv, RowsInv, TableOk, IsRow, RefreshTypes, OnlyFitTexts, vars
    <2>6. RefreshWork'
        BY <2>1, <2>2, <2>3, <2>4 DEF FitInv, RefreshWork, vars
    <2> QED
        BY <2>5, <2>6 DEF FitInv
<1>14. CASE ProcessDies(r)
    <2>1. /\ DropWork(r) /\ refresh' = [refresh EXCEPT ![r] = Resting]
          /\ locked' = locked \ {r} /\ UNCHANGED <<items, head, revision, local>>
        BY <1>14 DEF ProcessDies, Die, Rest, importVars
    <2>2. /\ refresh' \in [Workers -> Rows] /\ refresh'[r] = Resting
          /\ \A q \in Workers \ {r} : refresh'[q] = refresh[q]
        BY <1>1, <2>1, NewRefreshRow
    <2>3. Resting.at = "resting"
        BY DEF Resting
    <2> QED
        BY <1>1, <2>1, <2>2, <2>3, DroppingKeepsFit
<1> QED
    BY <1>3, <1>4, <1>5, <1>6, <1>7, <1>8, <1>9, <1>10, <1>11, <1>12, <1>13, <1>14
       DEF Catalogued

LEMMA ImportKeepsFit ==
    ASSUME FitInv, NEW w \in Workers,
           \/ \E l \in LocalImports : BeginImport(w, l)
           \/ CommitImport(w) \/ ImportFails(w)
    PROVE  FitInv'
<1>1. RowsInv /\ RefreshTypes
    BY DEF FitInv
<1>2. CASE \E l \in LocalImports : BeginImport(w, l)
    <2>1. PICK l \in LocalImports : BeginImport(w, l)
        BY <1>2
    <2>2. /\ w \notin locked /\ BeginIngest(w, l)
          /\ UNCHANGED <<head, revision, refresh, locked, local>>
        BY <2>1 DEF BeginImport, refreshVars
    <2>3. l \in Listings /\ ~l.full
        BY CatalogueAssumption
    <2>4. RowsInv' /\ UNCHANGED items
        BY <1>1, <2>2, <2>3, BeginKeepsRows
    <2>5. /\ work'[w].listing = l /\ \A q \in Workers \ {w} : work'[q] = work[q]
        BY <1>1, <2>2 DEF BeginIngest, RowsInv
    <2>6. RefreshWork'
        <3>1. refresh[w].at # "ingesting"
            BY <2>2 DEF FitInv, RefreshWork
        <3> QED
            BY <2>2, <2>3, <2>5, <3>1 DEF FitInv, RefreshWork
    <2>7. OnlyFitTexts' /\ RefreshTypes'
        BY <2>2, <2>4 DEF FitInv, OnlyFitTexts, RefreshTypes
    <2> QED
        BY <2>4, <2>6, <2>7 DEF FitInv
<1>3. CASE CommitImport(w)
    <2> DEFINE listing == work[w].listing
    <2>1. /\ w \notin locked /\ CommitIngest(w)
          /\ local' = local \cup {i \in DOMAIN listing.texts : listing.texts[i] # Blank}
          /\ UNCHANGED <<head, revision, refresh, locked>>
        BY <1>3 DEF CommitImport, refreshVars
    <2>2. RowsInv' /\ IngestedTable(items', listing, work[w].remembered)
        BY <1>1, <2>1, CommitWrites
    <2>3. work'[w] = Idle /\ \A q \in Workers \ {w} : work'[q] = work[q]
        BY <1>1, <2>1 DEF CommitIngest, RowsInv
    <2> HIDE DEF listing
    <2>4. /\ \A i \in DOMAIN listing.texts : listing.texts[i] # Blank => i \in local'
          /\ local \ local' = {}
        BY <2>1
    <2>5. OnlyFitTexts'
        BY <2>2, <2>4, IngestFits
    <2>6. refresh[w].at # "ingesting"
        BY <2>1 DEF FitInv, RefreshWork
    <2>7. RefreshWork' /\ RefreshTypes'
        BY <2>1, <2>3, <2>6 DEF FitInv, RefreshWork, RefreshTypes, Idle
    <2> QED
        BY <2>2, <2>5, <2>7 DEF FitInv
<1>4. CASE ImportFails(w)
    <2>1. /\ w \notin locked /\ DropWork(w)
          /\ UNCHANGED <<items, head, revision, refresh, locked, local>>
        BY <1>4 DEF ImportFails, refreshVars, catalogueVars, importVars
    <2>2. head' \in Nat /\ revision' \in Nat
        BY <1>1, <2>1 DEF RefreshTypes
    <2> QED
        BY <2>1, <2>2, DroppingKeepsFit
<1> QED
    BY <1>2, <1>3, <1>4

LEMMA FitStep ==
    ASSUME FitInv, [CatalogueNext]_allVars
    PROVE  FitInv'
<1>1. head \in Nat
    BY DEF FitInv, RefreshTypes
<1>2. CASE UNCHANGED allVars
    BY <1>1, <1>2, NoRefresh DEF allVars, refreshVars, catalogueVars, importVars
<1>3. CASE (Publish \/ Expire \/ \E r \in Workers : Outlast(r)) /\ Same
    BY <1>1, <1>3, NoRefresh DEF Publish, Expire, Outlast, Same, catalogueVars, importVars
<1>4. CASE Elapse \/ Operator
    BY <1>1, <1>4, NoRefresh
       DEF Elapse, Operator, CheckCompatible, Enable, Disable, refreshVars, importVars
<1> QED
    BY <1>2, <1>3, <1>4, RefreshKeepsFit, ImportKeepsFit DEF CatalogueNext

LEMMA FitAtFirst ==
    ASSUME CatalogueInit
    PROVE  FitInv
BY DEF CatalogueInit, RefreshInit, Init, FitInv, RowsInv, TableOk, RefreshTypes, RefreshWork,
       OnlyFitTexts, Idle, Resting, Rows, Steps

\* Only text of a revision that was found fit, or that an operator imported by hand,
\* gets into the table, whatever is published, refused, retried or outlasted meanwhile
\* (_fetch_revision pins what it checks to what it fetches).
THEOREM OnlyFitTextsGetIn == CatalogueSpec => []OnlyFitTexts
<1>1. FitInv => OnlyFitTexts
    BY DEF FitInv
<1> QED
    BY <1>1, FitAtFirst, FitStep, PTL DEF CatalogueSpec

-------------------------------------------------------------------------------
(* What an unchanged source tells *)

\* What a refresh knows of the revisions, and what the rows tell of them.
CurrentInv ==
    /\ revision <= head
    /\ revision = head => Mirrors(head)
    /\ \A r \in Workers :
          /\ refresh[r].at \in {"asking", "unchanged", "fetching", "ingesting", "ingested"}
                => refresh[r].known = revision
          /\ refresh[r].at = "unchanged" => refresh[r].sha = revision
          /\ refresh[r].at \in {"fetching", "ingesting", "ingested"} =>
                revision < refresh[r].sha /\ refresh[r].sha <= head
          /\ refresh[r].at \in {"unchanged", "ingested"} => Mirrors(refresh[r].sha)

\* A step that leaves the table alone leaves what it tells.
LEMMA SameTable ==
    ASSUME UNCHANGED <<items, local>>, NEW n
    PROVE  Mirrors(n)' = Mirrors(n)
BY DEF Mirrors

\* A local import writes the rows that it claims, and takes none away.
LEMMA ImportKeepsMirrors ==
    ASSUME FitInv, NEW w \in Workers, CommitImport(w), NEW n, Mirrors(n)
    PROVE  Mirrors(n)'
<1> DEFINE listing == work[w].listing
           texts == Upstream[n].texts
<1>1. /\ w \notin locked /\ CommitIngest(w) /\ work[w].op = "ingest"
      /\ local' = local \cup {i \in DOMAIN listing.texts : listing.texts[i] # Blank}
    BY DEF CommitImport, CommitIngest
<1>2. IngestedTable(items', listing, work[w].remembered) /\ ~listing.full
    BY <1>1, CommitWrites DEF FitInv, RefreshWork
<1>3. \A i \in DOMAIN items \ local' : i \in DOMAIN items' /\ items'[i] = items[i]
    BY <1>1, <1>2 DEF IngestedTable
<1>4. \A i \in DOMAIN items' \ local' : i \in DOMAIN items
    BY <1>1, <1>2 DEF IngestedTable
<1>5. local \subseteq local'
    BY <1>1
<1> HIDE DEF listing
<1>6. ASSUME NEW i \in DOMAIN texts \ local', texts[i] # Blank
      PROVE  /\ i \in DOMAIN items' /\ items'[i].body = texts[i]
             /\ items'[i].state # "removed_upstream"
    BY <1>3, <1>5, <1>6 DEF Mirrors
<1>7. ASSUME \A i \in DOMAIN texts : texts[i] # Blank,
             NEW i \in DOMAIN items' \ (DOMAIN texts \cup local'), Source[i] = Upstream[n].source
      PROVE  items'[i].state = "removed_upstream"
    BY <1>3, <1>4, <1>5, <1>7 DEF Mirrors
<1> QED
    BY <1>6, <1>7 DEF Mirrors

\* An ingest of a revision makes the rows tell it.
LEMMA IngestMirrors ==
    ASSUME FitInv, NEW r \in Workers, IngestRevision(r)
    PROVE  Mirrors(refresh[r].sha)'
<1> DEFINE listing == work[r].listing
           n == refresh[r].sha
           texts == Upstream[n].texts
           written == {i \in DOMAIN listing.texts : listing.texts[i] # Blank}
<1>1. /\ refresh[r].at = "ingesting" /\ CommitIngest(r) /\ GoTo(r, "ingested")
      /\ local' = local \ written
    BY DEF IngestRevision, IngestFiles
<1>2. listing = Upstream[n] /\ n \in DOMAIN Upstream /\ listing.full
    BY <1>1, CatalogueAssumption, UpstreamAssumption DEF FitInv, RefreshWork
<1>3. IngestedTable(items', listing, work[r].remembered) /\ TableOk(items)
    BY <1>1, CommitWrites DEF FitInv, RowsInv
<1>4. refresh'[r].sha = n
    BY <1>1, GoesTo DEF FitInv, Steps
<1> HIDE DEF n
<1>5. ASSUME NEW i \in written
      PROVE  /\ i \in DOMAIN items' /\ items'[i].body = listing.texts[i]
             /\ items'[i].state # "removed_upstream"
    <2>1. NewRow(items'[i], i, listing, work[r].remembered)
        BY <1>3 DEF IngestedTable
    <2>2. PICK suppressed \in BOOLEAN :
             /\ items'[i].body = listing.texts[i]
             /\ items'[i].state = NextState(RowIn(items, i), listing.texts[i], suppressed)
        BY <2>1 DEF NewRow
    <2>3. IsRow(RowIn(items, i)) \/ RowIn(items, i) = NoRow
        BY <1>3 DEF RowIn, TableOk
    <2>4. items'[i].state # "removed_upstream"
        BY <2>2, <2>3, NextStates
    <2> QED
        BY <1>3, <2>2, <2>4 DEF IngestedTable
<1>6. ASSUME written = DOMAIN listing.texts,
             NEW i \in DOMAIN items' \ DOMAIN listing.texts, Source[i] = listing.source
      PROVE  items'[i].state = "removed_upstream"
    BY <1>2, <1>3, <1>6 DEF IngestedTable
<1> HIDE DEF listing
<1>7. \A i \in DOMAIN texts \ local' : texts[i] # Blank =>
              /\ i \in DOMAIN items' /\ items'[i].body = texts[i]
              /\ items'[i].state # "removed_upstream"
    BY <1>2, <1>5
<1>8. (\A i \in DOMAIN texts : texts[i] # Blank) =>
              \A i \in DOMAIN items' \ (DOMAIN texts \cup local') :
                  Source[i] = Upstream[n].source => items'[i].state = "removed_upstream"
    BY <1>2, <1>6
<1> QED
    BY <1>4, <1>7, <1>8 DEF Mirrors

\* What CurrentInv says of one refresh, told by its row.
KnowsRevisions(row) ==
    /\ row.at \in {"asking", "unchanged", "fetching", "ingesting", "ingested"}
          => row.known = revision
    /\ row.at = "unchanged" => row.sha = revision
    /\ row.at \in {"fetching", "ingesting", "ingested"} => revision < row.sha /\ row.sha <= head
    /\ row.at \in {"unchanged", "ingested"} => Mirrors(row.sha)

LEMMA CurrentByRow ==
    CurrentInv <=> /\ revision <= head
                   /\ revision = head => Mirrors(head)
                   /\ \A r \in Workers : KnowsRevisions(refresh[r])
BY DEF CurrentInv, KnowsRevisions

\* A step that changes neither the table nor what is recorded of it.
LEMMA CurrentElsewhere ==
    ASSUME CurrentInv, NEW r \in Workers, UNCHANGED <<items, local, head, revision>>,
           \A q \in Workers \ {r} : refresh'[q] = refresh[q],
           KnowsRevisions(refresh'[r])
    PROVE  CurrentInv'
<1>1. \A n : Mirrors(n)' = Mirrors(n)
    BY SameTable
<1>2. \A q \in Workers : KnowsRevisions(refresh'[q])
    BY CurrentByRow
<1>3. /\ revision' <= head' /\ (revision' = head' => Mirrors(head)')
    BY <1>1 DEF CurrentInv
<1>4. ASSUME NEW q \in Workers
      PROVE  KnowsRevisions(refresh[q])'
    BY <1>1, <1>2 DEF KnowsRevisions, Mirrors
<1>5. (revision = head => Mirrors(head))'
    BY <1>1, <1>3 DEF Mirrors
<1> QED
    BY <1>3, <1>4, <1>5 DEF CurrentInv, KnowsRevisions

LEMMA OthersRest ==
    ASSUME LeaseInv, overruns = 0, NEW r \in Workers, refresh[r].at # "resting"
    PROVE  \A q \in Workers \ {r} : refresh[q].at = "resting"
BY DEF LeaseInv

LEMMA OverrunsAreCounted ==
    ASSUME LeaseInv, [CatalogueNext]_allVars
    PROVE  overruns' = 0 => overruns = 0
<1>1. CASE UNCHANGED refreshVars
    BY <1>1 DEF refreshVars, timeVars
<1>2. ASSUME NEW r \in Workers, Outlast(r)
      PROVE  overruns' # 0
    BY <1>2 DEF Outlast, LeaseInv
<1>3. CASE UNCHANGED <<vars, refreshVars>> \/ Publish \/ Expire
    BY <1>3 DEF Publish, Expire, refreshVars, timeVars
<1>4. ASSUME NEW r \in Workers, RefreshStep(r) \/ Fail(r) \/ Die(r)
      PROVE  UNCHANGED overruns
    BY <1>4 DEF RefreshStep, Acquire, ReadSource, FetchRevision, FetchFiles, IngestFiles,
                MarkSuccess, Release, Fail, Die, timeVars
<1> QED
    BY <1>1, <1>2, <1>3, <1>4, CatalogueStep DEF RefreshNext

LEMMA RefreshKeepsCurrent ==
    ASSUME LeaseInv, overruns = 0, FitInv, CurrentInv, NEW r \in Workers, Catalogued(r)
    PROVE  CurrentInv'
<1>1. /\ refresh[r] \in Rows /\ head \in Nat /\ revision \in Nat /\ Resting \in Rows
      /\ {"leased", "asking", "unchanged", "fetching", "ingesting", "ingested",
          "closing"} \subseteq Steps
      /\ RefreshTypes /\ RowsInv
    BY DEF FitInv, RefreshTypes, Resting, Rows, Steps
<1>2. KnowsRevisions(refresh[r]) /\ revision <= head
    BY CurrentByRow
<1>3. CASE TimerStarts(r) \/ NameStarts(r) \/ TurnedAway(r) \/ MarkIncompatible(r)
    <2>1. UNCHANGED <<items, local, head, revision, refresh>>
        BY <1>3 DEF TimerStarts, NameStarts, Start, TurnedAway, MarkIncompatible, vars,
                    refreshVars, importVars
    <2> QED
        BY <1>2, <2>1, CurrentElsewhere
<1>4. CASE ClaimLease(r)
    <2>1. /\ GoTo(r, "leased") /\ UNCHANGED <<items, local, head, revision>>
        BY <1>4 DEF ClaimLease, Acquire, Same, catalogueVars, importVars, vars
    <2>2. /\ refresh'[r].at = "leased" /\ \A q \in Workers \ {r} : refresh'[q] = refresh[q]
        BY <1>1, <2>1, GoesTo
    <2> QED
        BY <2>1, <2>2, CurrentElsewhere DEF KnowsRevisions
<1>5. CASE Answer(r)
    <2> DEFINE row == [[refresh[r] EXCEPT !.at = "asking"] EXCEPT !.known = revision]
    <2>1. row \in Rows /\ row.at = "asking" /\ row.known = revision
        BY <1>1 DEF Rows
    <2>2. /\ refresh' = [refresh EXCEPT ![r] = row]
          /\ UNCHANGED <<items, local, head, revision>>
        BY <1>1, <1>5 DEF Answer, ReadSource, Same, catalogueVars, importVars, vars, RefreshTypes
    <2> HIDE DEF row
    <2>3. refresh'[r] = row /\ \A q \in Workers \ {r} : refresh'[q] = refresh[q]
        BY <1>1, <2>1, <2>2, NewRefreshRow
    <2> QED
        BY <2>1, <2>2, <2>3, CurrentElsewhere DEF KnowsRevisions
<1>6. CASE AskHead(r)
    <2> DEFINE next == IF head = refresh[r].known THEN "unchanged" ELSE "fetching"
               row  == [[refresh[r] EXCEPT !.at = next] EXCEPT !.sha = head]
    <2>1. row \in Rows /\ row.at = next /\ row.known = refresh[r].known /\ row.sha = head
        BY <1>1 DEF Rows
    <2>2. /\ refresh[r].at = "asking" /\ refresh' = [refresh EXCEPT ![r] = row]
          /\ UNCHANGED <<items, local, head, revision>>
        BY <1>1, <1>6 DEF AskHead, FetchRevision, Same, catalogueVars, importVars, vars,
                          RefreshTypes
    <2> HIDE DEF row
    <2>3. refresh'[r] = row /\ \A q \in Workers \ {r} : refresh'[q] = refresh[q]
        BY <1>1, <2>1, <2>2, NewRefreshRow
    <2>4. refresh[r].known = revision
        BY <1>2, <2>2 DEF KnowsRevisions
    <2>5. KnowsRevisions(row)
        <3>1. CASE head = revision
            BY <2>1, <2>4, <3>1 DEF CurrentInv, KnowsRevisions
        <3>2. CASE head # revision
            BY <1>1, <1>2, <2>1, <2>4, <3>2 DEF KnowsRevisions
        <3> QED
            BY <3>1, <3>2
    <2> QED
        BY <2>2, <2>3, <2>5, CurrentElsewhere
<1>7. CASE Refuse(r) \/ RefreshFails(r)
    <2>1. /\ Fail(r) /\ UNCHANGED local
        BY <1>7 DEF Refuse, RefuseLicence, RefuseLayout, RefreshFails, Same,
                    catalogueVars, importVars
    <2>2. GoTo(r, "closing") /\ UNCHANGED <<items, head, revision>>
        BY <2>1 DEF Fail, RevisionAfterError
    <2>3. refresh'[r].at = "closing" /\ \A q \in Workers \ {r} : refresh'[q] = refresh[q]
        BY <1>1, <2>2, GoesTo
    <2> QED
        BY <2>1, <2>2, <2>3, CurrentElsewhere DEF KnowsRevisions
<1>8. CASE AcceptFiles(r)
    <2>1. /\ refresh[r].at = "fetching" /\ GoTo(r, "ingesting")
          /\ UNCHANGED <<items, head, revision, local>>
        BY <1>8 DEF AcceptFiles, FetchFiles, BeginIngest, importVars
    <2>2. /\ refresh'[r].at = "ingesting" /\ refresh'[r].known = refresh[r].known
          /\ refresh'[r].sha = refresh[r].sha
          /\ \A q \in Workers \ {r} : refresh'[q] = refresh[q]
        BY <1>1, <2>1, GoesTo
    <2>3. KnowsRevisions(refresh'[r])
        BY <1>2, <2>1, <2>2 DEF KnowsRevisions
    <2> QED
        BY <2>1, <2>2, <2>3, CurrentElsewhere
<1>9. CASE IngestRevision(r)
    <2>1. /\ refresh[r].at = "ingesting" /\ GoTo(r, "ingested") /\ UNCHANGED <<head, revision>>
        BY <1>9 DEF IngestRevision, IngestFiles
    <2>2. /\ refresh'[r].at = "ingested" /\ refresh'[r].known = refresh[r].known
          /\ refresh'[r].sha = refresh[r].sha
          /\ \A q \in Workers \ {r} : refresh'[q] = refresh[q]
        BY <1>1, <2>1, GoesTo
    <2>3. \A q \in Workers \ {r} : refresh'[q].at = "resting"
        BY <2>1, <2>2, OthersRest
    <2>4. Mirrors(refresh[r].sha)'
        BY <1>9, IngestMirrors
    <2>5. /\ refresh'[r].known = revision' /\ revision' < refresh'[r].sha
          /\ refresh'[r].sha <= head' /\ revision' # head' /\ revision' <= head'
        BY <1>1, <1>2, <2>1, <2>2 DEF KnowsRevisions, Rows
    <2> QED
        BY <2>2, <2>3, <2>4, <2>5 DEF CurrentInv
<1>10. CASE RecordSuccess(r)
    <2>1. /\ refresh[r].at \in {"unchanged", "ingested"} /\ GoTo(r, "closing")
          /\ revision' = refresh[r].sha /\ UNCHANGED <<items, head, local>>
        BY <1>10 DEF RecordSuccess, MarkSuccess, FetchedRevision, importVars, vars
    <2>2. /\ refresh'[r].at = "closing" /\ \A q \in Workers \ {r} : refresh'[q] = refresh[q]
        BY <1>1, <2>1, GoesTo
    <2>3. \A q \in Workers \ {r} : refresh'[q].at = "resting"
        BY <2>1, <2>2, OthersRest
    <2>4. revision' <= head' /\ Mirrors(refresh[r].sha)
        BY <1>1, <1>2, <2>1 DEF KnowsRevisions
    <2>5. revision' = head' => Mirrors(head)'
        BY <2>1, <2>4 DEF Mirrors
    <2> QED
        BY <2>2, <2>3, <2>4, <2>5 DEF CurrentInv
<1>11. CASE Unlock(r) \/ ProcessDies(r)
    <2>1. /\ refresh' = [refresh EXCEPT ![r] = Resting]
          /\ UNCHANGED <<items, local, head, revision>>
        BY <1>11 DEF Unlock, Release, ProcessDies, Die, Rest, importVars, vars
    <2>2. refresh'[r] = Resting /\ \A q \in Workers \ {r} : refresh'[q] = refresh[q]
        BY <1>1, <2>1, NewRefreshRow
    <2>3. KnowsRevisions(Resting)
        BY DEF KnowsRevisions, Resting
    <2> QED
        BY <2>1, <2>2, <2>3, CurrentElsewhere
<1> QED
    BY <1>3, <1>4, <1>5, <1>6, <1>7, <1>8, <1>9, <1>10, <1>11 DEF Catalogued

LEMMA CurrentStep ==
    ASSUME LeaseInv, overruns = 0, FitInv, CurrentInv, [CatalogueNext]_allVars
    PROVE  CurrentInv'
<1>1. head \in Nat /\ revision \in Nat /\ revision <= head
    BY DEF FitInv, RefreshTypes, CurrentInv
<1>2. ASSUME UNCHANGED <<items, local, revision, refresh>>, UNCHANGED head \/ head' = head + 1
      PROVE  CurrentInv'
    <2>1. \A n : Mirrors(n)' = Mirrors(n)
        BY <1>2, SameTable
    <2>2. head <= head' /\ (revision' = head' => head' = head)
        BY <1>1, <1>2
    <2>3. revision' <= head' /\ (revision' = head' => Mirrors(head)')
        <3>1. revision' = head' => revision = head /\ Mirrors(head)
            BY <1>2, <2>2 DEF CurrentInv
        <3> QED
            BY <1>1, <1>2, <2>1, <2>2, <3>1 DEF Mirrors
    <2>4. ASSUME NEW r \in Workers
          PROVE  KnowsRevisions(refresh[r])'
        <3>1. KnowsRevisions(refresh[r]) /\ refresh[r].sha \in Nat
            BY CurrentByRow DEF FitInv, RefreshTypes, Rows
        <3>2. refresh[r].sha <= head => refresh[r].sha <= head'
            BY <1>1, <1>2, <3>1
        <3> QED
            BY <1>2, <3>1, <3>2 DEF KnowsRevisions, Mirrors
    <2> QED
        BY <2>3, <2>4 DEF CurrentInv, KnowsRevisions
<1>3. CASE UNCHANGED allVars
    BY <1>2, <1>3 DEF allVars, vars, refreshVars, catalogueVars, importVars
<1>4. CASE (Publish \/ Expire \/ \E r \in Workers : Outlast(r)) /\ Same
    BY <1>2, <1>4 DEF Publish, Expire, Outlast, Same, catalogueVars, importVars, vars
<1>5. CASE Elapse \/ Operator
    BY <1>2, <1>5
       DEF Elapse, Operator, CheckCompatible, Enable, Disable, refreshVars, importVars, vars
<1>6. ASSUME NEW w \in Workers, (\E l \in LocalImports : BeginImport(w, l)) \/ ImportFails(w)
      PROVE  CurrentInv'
    BY <1>2, <1>6
       DEF BeginImport, BeginIngest, ImportFails, refreshVars, catalogueVars, importVars
<1>7. ASSUME NEW w \in Workers, CommitImport(w)
      PROVE  CurrentInv'
    <2>1. UNCHANGED <<head, revision, refresh>>
        BY <1>7 DEF CommitImport, refreshVars
    <2>2. \A n : Mirrors(n) => Mirrors(n)'
        BY <1>7, ImportKeepsMirrors
    <2>3. revision' <= head' /\ (revision' = head' => Mirrors(head)')
        BY <2>1, <2>2 DEF CurrentInv, Mirrors
    <2>4. ASSUME NEW r \in Workers
          PROVE  KnowsRevisions(refresh[r])'
        <3>1. KnowsRevisions(refresh[r]) /\ (Mirrors(refresh[r].sha) => Mirrors(refresh[r].sha)')
            BY <2>1, <2>2, CurrentByRow DEF Mirrors
        <3> QED
            BY <2>1, <3>1 DEF KnowsRevisions
    <2> QED
        BY <2>1, <2>3, <2>4 DEF CurrentInv, KnowsRevisions
<1> QED
    BY <1>3, <1>4, <1>5, <1>6, <1>7, RefreshKeepsCurrent DEF CatalogueNext

\* A refresh that finds its source unchanged is right to skip it: the rows are those of
\* the head revision, but for what local imports have written since; for any revisions,
\* workers and failures, as long as none has outlasted its lease (_fetch_revision,
\* mark_success, mark_error).
THEOREM UnchangedIsCurrent == CatalogueSpec => []UnchangedMeansCurrent
<1> DEFINE Inv == LeaseInv /\ FitInv /\ (overruns = 0 => CurrentInv)
<1>1. CatalogueInit => Inv
    <2>1. CatalogueInit => CurrentInv
        BY DEF CatalogueInit, RefreshInit, CurrentInv, Resting
    <2> QED
        BY <2>1, LeaseAtFirst, FitAtFirst DEF CatalogueInit
<1>2. ASSUME Inv, [CatalogueNext]_allVars
      PROVE  Inv'
    <2>1. LeaseInv' /\ FitInv'
        BY <1>2, CatalogueKeepsLease, FitStep
    <2>2. overruns' = 0 => overruns = 0
        BY <1>2, OverrunsAreCounted
    <2> QED
        BY <1>2, <2>1, <2>2, CurrentStep
<1>3. Inv => UnchangedMeansCurrent
    BY DEF CurrentInv, UnchangedMeansCurrent
<1> QED
    BY <1>1, <1>2, <1>3, PTL DEF CatalogueSpec

-------------------------------------------------------------------------------
(* One operation after the other *)

TemplatesOk ==
    /\ IsFiniteSet(DOMAIN templates)
    /\ \A t \in DOMAIN templates : \E S : templates[t] \in Seq(S)

\* Templates that rows are linked to are there.
LinksExist == \A i \in DOMAIN items : items[i].link # Null => items[i].link[1] \in DOMAIN templates

\* A row of the provenance tells a version that is there.
ProvenanceIsTrue ==
    \A p \in provenance :
       /\ p.template \in DOMAIN templates
       /\ p.version \in 1..Len(templates[p.template])
       /\ p.body = templates[p.template][p.version].body

\* What is saved is the row as it is, in its template or in a new one.
SaveFits(job) ==
    /\ job.item \in DOMAIN items
    /\ items[job.item].body = job.body /\ items[job.item].state # "rejected"
    /\ items[job.item].link # Null => job.template = items[job.item].link[1]
    /\ items[job.item].link = Null => job.template \notin DOMAIN templates

\* What is linked is a version with the text of the row, in no other row's template.
LinkFits(job) ==
    /\ job.item \in DOMAIN items
    /\ items[job.item].state # "rejected"
    /\ job.template \in DOMAIN templates
    /\ job.version \in 1..Len(templates[job.template])
    /\ templates[job.template][job.version].body = items[job.item].body
    /\ \A j \in DOMAIN items \ {job.item} :
          items[j].link # Null => items[j].link[1] # job.template

JobFits(job) ==
    /\ job.op = "ingest" => job.remembered = RejectedHashes
    /\ job.op = "save" => SaveFits(job)
    /\ job.op = "link" => LinkFits(job)

\* One operation at work, and it knows the table as it is.
InTurn ==
    /\ \A v, w \in Workers : work[v] # Idle /\ work[w] # Idle => v = w
    /\ \A w \in Workers : JobFits(work[w])

Sound == LinksAreApart /\ LinksExist /\ ProvenanceIsTrue

CurationInv ==
    /\ RowsInv /\ TemplatesOk
    /\ together \/ (Sound /\ InTurn)

\* A title that no template has yet taken up to gives an id that none has.
LEMMA TargetIsFresh ==
    ASSUME TemplatesOk, NEW i \in DOMAIN items, items[i].link = Null
    PROVE  PromotionTarget(i) \notin DOMAIN templates
<1> DEFINE same  == {u \in DOMAIN templates : u[1] = Title[i]}
           taken == {t[2] : t \in same}
           c     == Cardinality(taken) + 1
           Free(k) == k \notin taken /\ 1..(k - 1) \subseteq taken
<1>1. IsFiniteSet(same)
    BY FS_Subset DEF TemplatesOk
<1>2. IsFiniteSet(taken)
    <2> DEFINE second == [u \in same |-> u[2]]
    <2> HIDE DEF same
    <2>1. second \in Surjection(same, taken)
        BY DEF Surjection
    <2> QED
        BY <1>1, <2>1, FS_Surjection
<1>3. Cardinality(taken) \in Nat
    BY <1>2, FS_CardinalityType
<1>4. ~(1..c \subseteq taken)
    <2> HIDE DEF taken
    <2>1. c \in Nat /\ 1 \in Int /\ c \in Int /\ Cardinality(1..c) = c
        BY <1>3, FS_Interval
    <2>2. (1..c \subseteq taken) => c <= Cardinality(taken)
        BY <1>2, <2>1, FS_Subset
    <2> QED
        BY <1>3, <2>2
<1>5. PICK k \in (1..c) \ taken : \A j \in (1..c) \ taken : k <= j
    <2>1. (1..c) \ taken \in SUBSET Nat /\ (1..c) \ taken # {}
        BY <1>3, <1>4
    <2> HIDE DEF taken, c
    <2> QED
        BY <2>1, LeastMember
<1>6. k \in 1..c /\ Free(k)
    <2> HIDE DEF taken
    <2> QED
        BY <1>3, <1>5
<1>7. PromotionTarget(i) = <<Title[i], CHOOSE k_1 \in 1..c : Free(k_1)>>
    BY DEF PromotionTarget
<1> DEFINE n == CHOOSE k_1 \in 1..c : Free(k_1)
<1>8. n \notin taken
    <2> HIDE DEF taken, c
    <2> QED
        BY <1>6
<1> HIDE DEF n
<1>9. ASSUME <<Title[i], n>> \in DOMAIN templates
      PROVE  FALSE
    <2> DEFINE u == <<Title[i], n>>
    <2>1. u[1] = Title[i] /\ u[2] = n
        OBVIOUS
    <2>2. u \in same /\ u[2] \in taken
        BY <1>9, <2>1
    <2> QED
        BY <1>8, <2>1, <2>2
<1> QED
    BY <1>7, <1>9 DEF n

\* Versions are appended, whatever overlaps.
LEMMA SaveAppends ==
    ASSUME TemplatesOk, NEW w \in Workers, SaveTemplate(w)
    PROVE  LET t == work[w].template
           IN  /\ TemplatesOk'
               /\ DOMAIN templates' = DOMAIN templates \cup {t}
               /\ \A u \in DOMAIN templates : u # t => templates'[u] = templates[u]
               /\ t \in DOMAIN templates =>
                     /\ Len(templates[t]) \in Nat
                     /\ Len(templates'[t]) = Len(templates[t]) + 1
                     /\ \A v \in 1..Len(templates[t]) : templates'[t][v] = templates[t][v]
               /\ \E n \in Nat \ {0} :
                     /\ n = Len(templates'[t])
                     /\ templates'[t][n].body = work[w].body
                     /\ work' = [work EXCEPT ![w] = [op |-> "link", item |-> work[w].item,
                                                     template |-> t, version |-> n]]
<1> DEFINE t   == work[w].template
           old == IF t \in DOMAIN templates THEN templates[t] ELSE << >>
           new == [body |-> work[w].body, acknowledged |-> work[w].ack]
<1>1. /\ templates' = [u \in DOMAIN templates \cup {t} |->
                          IF u = t THEN Append(old, new) ELSE templates[u]]
      /\ work' = [work EXCEPT ![w] = [op |-> "link", item |-> work[w].item,
                                      template |-> t, version |-> NextVersion(old)]]
    BY DEF SaveTemplate, BodyToSave
<1>2. PICK S : old \in Seq(S)
    <2>1. CASE t \in DOMAIN templates
        BY <2>1 DEF TemplatesOk
    <2>2. CASE t \notin DOMAIN templates
        <3>1. old = << >> /\ << >> \in Seq({})
            BY <2>2
        <3> QED
            BY <3>1
    <2> QED
        BY <2>1, <2>2
<1> HIDE DEF old
<1> DEFINE T == S \cup {new}
           after == Append(old, new)
<1>3. old \in Seq(T) /\ new \in T
    BY <1>2
<1> HIDE DEF T
<1>4. /\ after \in Seq(T) /\ Len(after) = Len(old) + 1 /\ Len(old) \in Nat
      /\ after[Len(old) + 1] = new
      /\ \A v \in 1..Len(old) : after[v] = old[v]
    BY <1>3
<1>5. new.body = work[w].body
    OBVIOUS
<1> HIDE DEF after, new
<1>6. /\ DOMAIN templates' = DOMAIN templates \cup {t} /\ templates'[t] = after
      /\ \A u \in DOMAIN templates : u # t => templates'[u] = templates[u]
    BY <1>1 DEF after
<1>7. t \in DOMAIN templates => old = templates[t]
    BY DEF old
<1>8. TemplatesOk'
    <2>1. IsFiniteSet(DOMAIN templates')
        BY <1>6, FS_AddElement DEF TemplatesOk
    <2>2. ASSUME NEW u \in DOMAIN templates'
          PROVE  \E U : templates'[u] \in Seq(U)
        BY <1>4, <1>6 DEF TemplatesOk
    <2> QED
        BY <2>1, <2>2 DEF TemplatesOk
<1> DEFINE n == Len(old) + 1
<1>9. /\ n \in Nat \ {0} /\ n = Len(templates'[t]) /\ templates'[t][n].body = work[w].body
      /\ work' = [work EXCEPT ![w] = [op |-> "link", item |-> work[w].item,
                                      template |-> t, version |-> n]]
    BY <1>1, <1>4, <1>5, <1>6 DEF NextVersion
<1> HIDE DEF n
<1>10. t \in DOMAIN templates =>
          /\ Len(templates[t]) \in Nat
          /\ Len(templates'[t]) = Len(templates[t]) + 1
          /\ \A v \in 1..Len(templates[t]) : templates'[t][v] = templates[t][v]
    BY <1>4, <1>6, <1>7
<1> QED
    BY <1>6, <1>8, <1>9, <1>10

\* The others are idle, before the step of a worker and after it.
LEMMA OthersIdle ==
    ASSUME ~Overlap, NEW w \in Workers, \A q \in Workers \ {w} : work'[q] = work[q]
    PROVE  \A q \in Workers \ {w} : work[q] = Idle /\ work'[q] = Idle
BY DEF Overlap

LEMMA TurnEnds ==
    ASSUME NEW w \in Workers, \A q \in Workers \ {w} : work'[q] = Idle, JobFits(work[w])'
    PROVE  InTurn'
<1>1. ASSUME NEW q \in Workers \ {w} PROVE JobFits(work[q])'
    BY DEF JobFits, Idle
<1> QED
    BY <1>1 DEF InTurn

\* A step that leaves the templates and the links as they are.
LEMMA SoundStays ==
    ASSUME Sound, UNCHANGED <<templates, provenance>>, DOMAIN items' = DOMAIN items,
           \A i \in DOMAIN items : items'[i].link = items[i].link
    PROVE  Sound'
BY DEF Sound, LinksAreApart, LinksExist, ProvenanceIsTrue

LEMMA CuratorsTakeTurns ==
    ASSUME RowsInv, TemplatesOk, Sound, InTurn, ~Overlap, NEW w \in Workers,
           Curate(w) \/ Abandon(w)
    PROVE  Sound' /\ InTurn' /\ TemplatesOk' /\ RejectedStays /\ NewsIsNotRejected
<1>1. /\ DOMAIN items' = DOMAIN items /\ RowsInv'
      /\ \A i \in DOMAIN items : items'[i].body = items[i].body
    BY CuratorsKeepBodies
<1>2. NewsIsNotRejected
    BY <1>1 DEF NewsIsNotRejected
<1>3. /\ \A i \in DOMAIN items : IsRow(items[i])
      /\ DOMAIN work = Workers /\ JobFits(work[w])
    BY DEF RowsInv, TableOk, InTurn
<1>4. Idle.op = "idle"
    BY DEF Idle
\* the table and its links as they were, and a job that needs nothing of them
<1>5. ASSUME \A q \in Workers \ {w} : work'[q] = work[q],
             work'[w].op \notin {"ingest", "save", "link"},
             UNCHANGED <<templates, provenance>>,
             \A i \in DOMAIN items : items'[i].link = items[i].link
      PROVE  Sound' /\ InTurn' /\ TemplatesOk'
    <2>1. Sound'
        BY <1>1, <1>5, SoundStays
    <2>2. JobFits(work[w])'
        BY <1>5 DEF JobFits
    <2>3. InTurn'
        BY <1>5, <2>2, OthersIdle, TurnEnds
    <2> QED
        BY <1>5, <2>1, <2>3 DEF TemplatesOk
<1>6. CASE \E i \in DOMAIN items : Reject(w, i)
    <2>1. PICK i \in DOMAIN items : Reject(w, i)
        BY <1>6
    <2>2. /\ work[w] = Idle /\ UNCHANGED <<work, templates, provenance>>
          /\ items' = [items EXCEPT ![i].state = "rejected"]
        BY <2>1 DEF Reject
    <2>3. \A j \in DOMAIN items : items'[j].link = items[j].link
        BY <1>3, <2>2 DEF IsRow
    <2>4. RejectedStays
        BY <1>3, <2>2 DEF RejectedStays, IsRow
    <2> QED
        BY <1>2, <1>4, <1>5, <2>2, <2>3, <2>4
<1>7. CASE \E i \in DOMAIN items : BeginReview(w, i)
    <2>1. PICK i \in DOMAIN items : BeginReview(w, i)
        BY <1>7
    <2> DEFINE job == [op |-> "review", item |-> i]
    <2>2. /\ work' = [work EXCEPT ![w] = job] /\ UNCHANGED <<items, templates, provenance>>
        BY <2>1 DEF BeginReview
    <2>3. job.op = "review"
        OBVIOUS
    <2> HIDE DEF job
    <2>4. work'[w] = job /\ \A q \in Workers \ {w} : work'[q] = work[q]
        BY <1>3, <2>2
    <2>5. RejectedStays
        BY <2>2 DEF RejectedStays
    <2> QED
        BY <1>2, <1>5, <2>2, <2>3, <2>4, <2>5
<1>8. CASE FinishReview(w)
    <2>1. /\ items' = [items EXCEPT ![work[w].item].state = "reviewed"]
          /\ work' = [work EXCEPT ![w] = Idle] /\ UNCHANGED <<templates, provenance>>
        BY <1>8 DEF FinishReview
    <2>2. \A j \in DOMAIN items : items'[j].link = items[j].link
        BY <1>3, <2>1 DEF IsRow
    <2>3. RejectedStays
        BY <1>3, <2>1 DEF RejectedStays, IsRow
    <2>4. work'[w] = Idle /\ \A q \in Workers \ {w} : work'[q] = work[q]
        BY <1>3, <2>1
    <2> QED
        BY <1>2, <1>4, <1>5, <2>1, <2>2, <2>3, <2>4
<1>9. CASE Abandon(w)
    <2>1. work' = [work EXCEPT ![w] = Idle] /\ UNCHANGED <<items, templates, provenance>>
        BY <1>9 DEF Abandon
    <2>2. work'[w] = Idle /\ \A q \in Workers \ {w} : work'[q] = work[q]
        BY <1>3, <2>1
    <2>3. RejectedStays
        BY <2>1 DEF RejectedStays
    <2> QED
        BY <1>2, <1>4, <1>5, <2>1, <2>2, <2>3
<1>10. CASE \E i \in DOMAIN items, ack \in Acks : BeginPromote(w, i, ack)
    <2>1. PICK i \in DOMAIN items, ack \in Acks : BeginPromote(w, i, ack)
        BY <1>10
    <2> DEFINE job == [op |-> "save", item |-> i, body |-> items[i].body,
                       ack |-> ack, template |-> PromotionTarget(i)]
    <2>2. /\ work' = [work EXCEPT ![w] = job] /\ items[i].state # "rejected"
          /\ UNCHANGED <<items, arrivals, templates, provenance>>
        BY <2>1 DEF BeginPromote, Promotable
    <2>3. /\ job.op = "save" /\ job.item = i /\ job.body = items[i].body
          /\ job.template = PromotionTarget(i)
        OBVIOUS
    <2>4. items[i].link # Null => PromotionTarget(i) = items[i].link[1]
        BY DEF PromotionTarget
    <2> HIDE DEF job
    <2>5. JobFits(job)
        BY <2>2, <2>3, <2>4, TargetIsFresh DEF JobFits, SaveFits
    <2>6. work'[w] = job /\ \A q \in Workers \ {w} : work'[q] = work[q]
        BY <1>3, <2>2
    <2>7. JobFits(work[w])'
        BY <2>2, <2>3, <2>5, <2>6 DEF JobFits, SaveFits
    <2>8. InTurn'
        BY <2>6, <2>7, OthersIdle, TurnEnds
    <2>9. Sound' /\ TemplatesOk' /\ RejectedStays
        BY <2>2, SoundStays DEF TemplatesOk, RejectedStays
    <2> QED
        BY <1>2, <2>8, <2>9
<1>11. CASE SaveTemplate(w)
    <2> DEFINE t == work[w].template
               i == work[w].item
    <2>1. work[w].op = "save" /\ UNCHANGED <<items, provenance>>
        BY <1>11 DEF SaveTemplate
    <2>2. SaveFits(work[w])
        BY <1>3, <2>1 DEF JobFits
    <2>3. /\ TemplatesOk'
          /\ DOMAIN templates' = DOMAIN templates \cup {t}
          /\ \A u \in DOMAIN templates : u # t => templates'[u] = templates[u]
          /\ t \in DOMAIN templates =>
                /\ Len(templates[t]) \in Nat
                /\ Len(templates'[t]) = Len(templates[t]) + 1
                /\ \A v \in 1..Len(templates[t]) : templates'[t][v] = templates[t][v]
          /\ \E n \in Nat \ {0} :
                /\ n = Len(templates'[t])
                /\ templates'[t][n].body = work[w].body
                /\ work' = [work EXCEPT ![w] = [op |-> "link", item |-> i,
                                                template |-> t, version |-> n]]
        BY <1>11, SaveAppends
    <2>4. PICK n \in Nat \ {0} :
             /\ n = Len(templates'[t])
             /\ templates'[t][n].body = work[w].body
             /\ work' = [work EXCEPT ![w] = [op |-> "link", item |-> i,
                                             template |-> t, version |-> n]]
        BY <2>3
    <2> DEFINE job == [op |-> "link", item |-> i, template |-> t, version |-> n]
    <2>5. job.op = "link" /\ job.item = i /\ job.template = t /\ job.version = n
        OBVIOUS
    <2>6. work'[w] = job /\ \A q \in Workers \ {w} : work'[q] = work[q]
        BY <1>3, <2>4
    <2> HIDE DEF job
    <2>7. \A j \in DOMAIN items \ {i} : items[j].link # Null => items[j].link[1] # t
        BY <2>2 DEF Sound, LinksAreApart, LinksExist, SaveFits
    <2>8. LinkFits(work[w])'
        BY <2>1, <2>2, <2>3, <2>4, <2>5, <2>6, <2>7 DEF LinkFits, SaveFits
    <2>9. InTurn'
        BY <2>5, <2>6, <2>8, OthersIdle, TurnEnds DEF JobFits
    <2>10. Sound'
        <3>1. ASSUME NEW p \in provenance
              PROVE  /\ p.template \in DOMAIN templates'
                     /\ p.version \in 1..Len(templates'[p.template])
                     /\ p.body = templates'[p.template][p.version].body
            <4>1. /\ p.template \in DOMAIN templates
                  /\ p.version \in 1..Len(templates[p.template])
                  /\ p.body = templates[p.template][p.version].body
                BY DEF Sound, ProvenanceIsTrue
            <4>2. CASE p.template = t
                BY <2>3, <4>1, <4>2
            <4>3. CASE p.template # t
                BY <2>3, <4>1, <4>3
            <4> QED
                BY <4>2, <4>3
        <3>2. LinksAreApart' /\ LinksExist'
            BY <2>1, <2>3 DEF Sound, LinksAreApart, LinksExist
        <3> QED
            BY <2>1, <3>1, <3>2 DEF Sound, ProvenanceIsTrue
    <2>11. RejectedStays
        BY <2>1 DEF RejectedStays
    <2> QED
        BY <1>2, <2>3, <2>9, <2>10, <2>11
<1>12. CASE LinkPromotion(w)
    <2> DEFINE i == work[w].item
               t == work[w].template
               x == <<t, work[w].version>>
    <2>1. /\ work[w].op = "link" /\ UNCHANGED templates
          /\ items' = [items EXCEPT ![i].state = "promoted", ![i].link = x]
          /\ provenance' = provenance \cup
                {[template |-> t, version |-> work[w].version, item |-> i,
                  body |-> items[i].body]}
          /\ work' = [work EXCEPT ![w] = Idle]
        BY <1>12 DEF LinkPromotion
    <2>2. LinkFits(work[w]) /\ x[1] = t
        BY <1>3, <2>1 DEF JobFits
    <2> HIDE DEF x
    <2>3. /\ \A j \in DOMAIN items \ {i} : items'[j] = items[j]
          /\ items'[i].link = x
        <3>1. i \in DOMAIN items /\ IsRow(items[i])
            BY <1>3, <2>2 DEF LinkFits
        <3> HIDE DEF i
        <3>2. \A j \in DOMAIN items \ {i} : items'[j] = items[j]
            BY <2>1, <3>1
        <3>3. items'[i] = [[items[i] EXCEPT !.state = "promoted"] EXCEPT !.link = x]
            BY <2>1, <3>1
        <3>4. items'[i].link = x
            BY <3>1, <3>3 DEF IsRow
        <3> QED
            BY <3>2, <3>4
    <2>4. LinksAreApart'
        BY <1>1, <2>2, <2>3 DEF Sound, LinksAreApart, LinkFits
    <2>5. LinksExist'
        BY <1>1, <2>1, <2>2, <2>3 DEF Sound, LinksExist, LinkFits
    <2>6. ProvenanceIsTrue'
        BY <2>1, <2>2 DEF Sound, ProvenanceIsTrue, LinkFits
    <2>7. work'[w] = Idle /\ \A q \in Workers \ {w} : work'[q] = work[q]
        BY <1>3, <2>1
    <2>8. JobFits(work[w])'
        BY <1>4, <2>7 DEF JobFits
    <2>9. InTurn'
        BY <2>7, <2>8, OthersIdle, TurnEnds
    <2>10. RejectedStays
        BY <2>2, <2>3 DEF RejectedStays, LinkFits
    <2>11. TemplatesOk'
        BY <2>1 DEF TemplatesOk
    <2> QED
        BY <1>2, <2>4, <2>5, <2>6, <2>9, <2>10, <2>11 DEF Sound
<1> QED
    BY <1>6, <1>7, <1>8, <1>9, <1>10, <1>11, <1>12 DEF Curate

\* An ingest with the rejected hashes of the moment.
LEMMA IngestsTakeTurns ==
    ASSUME RowsInv, TemplatesOk, Sound, InTurn, ~Overlap, NEW w \in Workers, Ingest(w)
    PROVE  Sound' /\ InTurn' /\ TemplatesOk' /\ RejectedStays /\ NewsIsNotRejected
<1>1. DOMAIN work = Workers /\ JobFits(work[w]) /\ TableOk(items)
    BY DEF RowsInv, InTurn
<1>2. CASE \E listing \in Listings : BeginIngest(w, listing)
    <2>1. PICK listing \in Listings : BeginIngest(w, listing)
        BY <1>2
    <2> DEFINE job == [op |-> "ingest", listing |-> listing, remembered |-> RejectedHashes]
    <2>2. work' = [work EXCEPT ![w] = job] /\ UNCHANGED <<items, templates, provenance>>
        BY <2>1 DEF BeginIngest
    <2>3. job.op = "ingest" /\ job.remembered = RejectedHashes
        OBVIOUS
    <2> HIDE DEF job
    <2>4. work'[w] = job /\ \A q \in Workers \ {w} : work'[q] = work[q]
        BY <1>1, <2>2
    <2>5. RejectedHashes' = RejectedHashes
        BY <2>2 DEF RejectedHashes
    <2>6. JobFits(work[w])'
        BY <2>3, <2>4, <2>5 DEF JobFits
    <2>7. InTurn'
        BY <2>4, <2>6, OthersIdle, TurnEnds
    <2> QED
        BY <2>2, <2>7, SoundStays DEF TemplatesOk, RejectedStays, NewsIsNotRejected
<1>3. CASE CommitIngest(w)
    <2> DEFINE listing == work[w].listing
               remembered == work[w].remembered
    <2>1. /\ work[w].op = "ingest" /\ work' = [work EXCEPT ![w] = Idle]
          /\ UNCHANGED <<templates, provenance>>
        BY <1>3 DEF CommitIngest
    <2>2. IngestedTable(items', listing, remembered)
        BY <1>3, CommitWrites
    <2>3. remembered = RejectedHashes
        BY <1>1, <2>1 DEF JobFits
    <2>4. work'[w] = Idle /\ \A q \in Workers \ {w} : work'[q] = work[q]
        BY <1>1, <2>1
    <2> HIDE DEF listing, remembered
    <2>5. ASSUME NEW i \in DOMAIN items' \ DOMAIN items
          PROVE  /\ items'[i].link = Null
                 /\ items'[i].state = "candidate_new" => items'[i].body \notin RejectedHashes
        <3>1. NewRow(items'[i], i, listing, remembered) /\ RowIn(items, i) = NoRow
            BY <2>2 DEF IngestedTable, RowIn
        <3>2. PICK suppressed \in BOOLEAN :
                 /\ listing.texts[i] \in remembered => suppressed
                 /\ items'[i] = [body  |-> listing.texts[i],
                                 state |-> NextState(NoRow, listing.texts[i], suppressed),
                                 link  |-> Null]
            BY <3>1 DEF NewRow
        <3>3. suppressed => NextState(NoRow, listing.texts[i], suppressed) = "rejected"
            BY NextStates
        <3> QED
            BY <2>3, <3>2, <3>3
    <2>6. \A i \in DOMAIN items : /\ i \in DOMAIN items'
                                  /\ items'[i].link = items[i].link
                                  /\ items[i].state = "rejected" => items'[i].state # "promoted"
        BY <1>1, <2>2, IngestDecides DEF IngestedTable
    <2>7. Sound'
        BY <2>1, <2>5, <2>6 DEF Sound, LinksAreApart, LinksExist, ProvenanceIsTrue
    <2>8. JobFits(work[w])'
        BY <2>4 DEF JobFits, Idle
    <2>9. InTurn'
        BY <2>4, <2>8, OthersIdle, TurnEnds
    <2> QED
        BY <2>1, <2>5, <2>6, <2>7, <2>9 DEF TemplatesOk, RejectedStays, NewsIsNotRejected
<1> QED
    BY <1>2, <1>3 DEF Ingest

LEMMA TemplatesStay ==
    ASSUME TemplatesOk, Next
    PROVE  TemplatesOk'
<1>1. ASSUME NEW w \in Workers, SaveTemplate(w)
      PROVE  TemplatesOk'
    BY <1>1, SaveAppends
<1>2. ASSUME NEW w \in Workers, Curate(w) \/ Ingest(w) \/ Abandon(w), ~SaveTemplate(w)
      PROVE  UNCHANGED templates
    BY <1>2 DEF Curate, Ingest, Abandon, Reject, BeginReview, BeginPromote, FinishReview,
                LinkPromotion, BeginIngest, CommitIngest
<1> QED
    BY <1>1, <1>2 DEF Next, TemplatesOk

LEMMA CurationStep ==
    ASSUME CurationInv, [CurationNext]_<<vars, together>>
    PROVE  /\ CurationInv'
           /\ [together \/ (NewsIsNotRejected /\ RejectedStays)]_<<vars, together>>
<1>1. CASE UNCHANGED <<vars, together>>
    <2>1. (RowsInv /\ TemplatesOk)'
        BY <1>1 DEF CurationInv, RowsInv, TableOk, IsRow, TemplatesOk, vars
    <2>2. ~together => Sound'
        BY <1>1, SoundStays DEF CurationInv, vars
    <2>3. ~together => InTurn'
        BY <1>1 DEF CurationInv, InTurn, JobFits, SaveFits, LinkFits, RejectedHashes, vars
    <2> QED
        BY <1>1, <2>1, <2>2, <2>3 DEF CurationInv
<1>2. CASE CurationNext
    <2>1. Next /\ UNCHANGED together /\ (together \/ ~Overlap)
        BY <1>2 DEF CurationNext
    <2>2. (RowsInv /\ TemplatesOk)'
        BY <2>1, RowsStep, TemplatesStay DEF CurationInv
    <2>3. ~together => Sound' /\ InTurn' /\ RejectedStays /\ NewsIsNotRejected
        BY <2>1, CuratorsTakeTurns, IngestsTakeTurns DEF Next, CurationInv
    <2> QED
        BY <2>1, <2>2, <2>3 DEF CurationInv
<1> QED
    BY <1>1, <1>2

LEMMA CurationAtFirst ==
    ASSUME CurationInit
    PROVE  CurationInv
<1>1. /\ items = << >> /\ templates = << >> /\ provenance = {}
      /\ work = [w \in Workers |-> Idle]
    BY DEF CurationInit, Init
<1>2. DOMAIN items = {} /\ DOMAIN templates = {} /\ IsFiniteSet({})
    BY <1>1, FS_EmptySet
<1>3. RowsInv /\ TemplatesOk /\ Sound
    BY <1>1, <1>2 DEF RowsInv, TableOk, TemplatesOk, Sound, LinksAreApart, LinksExist,
                      ProvenanceIsTrue, Idle
<1>4. InTurn
    BY <1>1 DEF InTurn, JobFits, Idle
<1> QED
    BY <1>3, <1>4 DEF CurationInv

\* As long as no two operations overlap, no two prompts are linked to one template, and
\* the provenance of every version tells the text it holds (_promotion_template_id,
\* link_promotion); for any items, titles, listings and number of workers.
THEOREM PromotionsStaySound == CurationSpec => []PromotionsAreSound
<1>1. CurationInv => PromotionsAreSound
    BY DEF CurationInv, Sound, PromotionsAreSound, ProvenanceIsTrue, ProvenanceMatches
<1> QED
    BY <1>1, CurationAtFirst, CurationStep, PTL DEF CurationSpec

\* As long as no two operations overlap, a rejection stands: a text that was rejected
\* does not come up as new under another item, and a rejected item is not promoted
\* (rejected_hashes, _next_state, promote_candidate).
THEOREM RejectionsStand == CurationSpec => RejectionStands
BY CurationAtFirst, CurationStep, PTL DEF CurationSpec, RejectionStands

===============================================================================
