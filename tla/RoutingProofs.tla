----------------------------- MODULE RoutingProofs -----------------------------
(****************************************************************************)
(* Proofs about routing: the chain of a call names models, and every        *)
(* answer has one voice, one row that tells it, and the form of a stream;   *)
(* for any models, providers, settings and number of calls.                 *)
(****************************************************************************)
EXTENDS Routing, FiniteSetTheorems, WellFoundedInduction, TLAPS

-------------------------------------------------------------------------------
(* Numbers and arrangements *)

\* A set of numbers that is not empty has a least one.
LEMMA LeastMember ==
    ASSUME NEW T \in SUBSET Nat, T # {}
    PROVE  \E x \in T : \A y \in T : x <= y
<1>1. \E R : IsWellFoundedOn(R, Nat) /\ \A x, y \in Nat : x < y => <<x, y>> \in R
    <2>1. \A x, y \in Nat : x < y => <<x, y>> \in OpToRel(<, Nat)
        BY DEF OpToRel
    <2> QED
        BY <2>1, NatLessThanWellFounded, Zenon
<1>2. PICK R : IsWellFoundedOn(R, Nat) /\ \A x, y \in Nat : x < y => <<x, y>> \in R
    BY <1>1
<1>3. IsWellFoundedOn(R, Nat) /\ T \subseteq Nat /\ T # {}
    BY <1>2
<1>4. PICK x \in T : \A y \in T : ~(<<y, x>> \in R)
    BY <1>3, WFMin, Zenon
<1>5. ASSUME NEW y \in T PROVE x <= y
    <2>1. ~(<<y, x>> \in R)
        BY <1>4
    <2>2. x \in Nat /\ y \in Nat
        OBVIOUS
    <2>3. ~(y < x)
        BY <1>2, <2>1, <2>2, Zenon
    <2> QED
        BY <2>2, <2>3
<1> QED
    BY <1>5

\* Distinct places among the first so many fill them all.
LEMMA PlacesAreTaken ==
    ASSUME NEW I, IsFiniteSet(I), NEW place \in [I -> 1..Cardinality(I)],
           \A i, j \in I : place[i] = place[j] => i = j
    PROVE  \A k \in 1..Cardinality(I) : \E i \in I : place[i] = k
<1> DEFINE n == Cardinality(I)
<1>1. n \in Nat
    BY FS_CardinalityType
<1>2. IsFiniteSet(1..n) /\ Cardinality(1..n) = n
    BY <1>1, FS_Interval
<1>3. place \in Injection(I, 1..n)
    BY DEF Injection, IsInjective
<1>4. place \in Surjection(I, 1..n)
    BY <1>2, <1>3, FS_Injection
<1> QED
    BY <1>4 DEF Surjection

\* upto gives what is no later than each member of I in some order, place the numbers.
CountsOut(I, upto, place) ==
    /\ IsFiniteSet(I) /\ upto \in [I -> SUBSET I]
    /\ \A i \in I : i \in upto[i]
    /\ \A i, j \in I : i \in upto[j] \/ j \in upto[i]
    /\ \A i, j \in I : (i \in upto[j] /\ j \in upto[i]) => i = j
    /\ \A i, j, k \in I : (i \in upto[j] /\ j \in upto[k]) => i \in upto[k]
    /\ place \in [I -> Nat] /\ \A i \in I : place[i] = Cardinality(upto[i])

\* An order counts out the places of the members.
LEMMA CountedPlaces ==
    ASSUME NEW I, NEW upto, NEW place, CountsOut(I, upto, place)
    PROVE  \A k \in 1..Cardinality(I) : \E i \in I : place[i] = k
<1> USE DEF CountsOut
<1>1. \A i \in I : IsFiniteSet(upto[i]) /\ Cardinality(upto[i]) \in 1..Cardinality(I)
    <2> SUFFICES ASSUME NEW i \in I
                 PROVE  IsFiniteSet(upto[i]) /\ Cardinality(upto[i]) \in 1..Cardinality(I)
        OBVIOUS
    <2>1. upto[i] \in SUBSET I /\ upto[i] # {}
        OBVIOUS
    <2>2. IsFiniteSet(upto[i]) /\ Cardinality(upto[i]) <= Cardinality(I)
        BY <2>1, FS_Subset
    <2>3. Cardinality(upto[i]) \in Nat /\ Cardinality(I) \in Nat
        BY <2>2, FS_CardinalityType
    <2>4. Cardinality(upto[i]) # 0
        BY <2>1, <2>2, FS_EmptySet
    <2> QED
        BY <2>2, <2>3, <2>4
<1>2. ASSUME NEW i \in I, NEW j \in I, Cardinality(upto[i]) = Cardinality(upto[j]),
             i \in upto[j]
      PROVE  i = j
    <2>1. upto[i] \in SUBSET upto[j]
        BY <1>2
    <2>2. upto[i] = upto[j]
        BY <1>1, <1>2, <2>1, FS_Subset
    <2>3. j \in upto[i]
        BY <2>2
    <2> QED
        BY <1>2, <2>3
<1>3. place \in [I -> 1..Cardinality(I)]
    BY <1>1
<1>4. \A i, j \in I : place[i] = place[j] => i = j
    BY <1>2
<1> QED
    BY <1>3, <1>4, PlacesAreTaken

LEMMA ArrangedIs ==
    ASSUME NEW S, NEW list \in Seq(S), NEW I \in SUBSET DOMAIN list, NEW place,
           DOMAIN place = I, IsFiniteSet(I),
           \A k \in 1..Cardinality(I) : \E i \in I : place[i] = k
    PROVE  Arranged(list, place) \in Seq(S) /\ Len(Arranged(list, place)) = Cardinality(I)
<1> DEFINE n == Cardinality(I)
           entry(k) == list[CHOOSE i \in DOMAIN place : place[i] = k]
<1>1. n \in Nat
    BY FS_CardinalityType
<1>2. \A k \in 1..n : entry(k) \in S
    <2> SUFFICES ASSUME NEW k \in 1..n PROVE entry(k) \in S
        OBVIOUS
    <2>1. (CHOOSE i \in DOMAIN place : place[i] = k) \in I
        OBVIOUS
    <2> QED
        BY <2>1
<1>3. Arranged(list, place) = [k \in 1..n |-> entry(k)]
    BY DEF Arranged
<1> HIDE DEF entry, n
<1>4. [k \in 1..n |-> entry(k)] \in Seq(S) /\ Len([k \in 1..n |-> entry(k)]) = n
    BY <1>1, <1>2
<1> QED
    BY <1>3, <1>4 DEF n

LEMMA KeptIs ==
    ASSUME NEW S, NEW list \in Seq(S), NEW I \in SUBSET DOMAIN list
    PROVE  /\ Kept(list, I) \in Seq(S)
           /\ I # {} => Kept(list, I) # << >>
<1> DEFINE upto == [i \in I |-> {j \in I : j <= i}]
           place == [i \in I |-> Cardinality({j \in I : j <= i})]
<1>1. I \subseteq Nat /\ IsFiniteSet(DOMAIN list)
    <2>1. DOMAIN list = 1..Len(list) /\ Len(list) \in Nat
        OBVIOUS
    <2> QED
        BY <2>1, FS_Interval
<1>2. IsFiniteSet(I)
    BY <1>1, FS_Subset
<1>3. upto \in [I -> SUBSET I] /\ \A i, j \in I : j \in upto[i] <=> j <= i
    OBVIOUS
<1>4. \A i \in I : place[i] = Cardinality(upto[i])
    OBVIOUS
<1>5. place \in [I -> Nat]
    <2>1. \A i \in I : Cardinality({j \in I : j <= i}) \in Nat
        <3> TAKE i \in I
        <3>1. {j \in I : j <= i} \in SUBSET I
            OBVIOUS
        <3>2. IsFiniteSet({j \in I : j <= i})
            BY <1>2, <3>1, FS_Subset
        <3> QED
            BY <3>2, FS_CardinalityType
    <2> QED
        BY <2>1
<1>6. Kept(list, I) = Arranged(list, place) /\ DOMAIN place = I
    BY DEF Kept
<1> HIDE DEF upto, place
<1>7. /\ \A i \in I : i \in upto[i]
      /\ \A i, j \in I : i \in upto[j] \/ j \in upto[i]
      /\ \A i, j \in I : (i \in upto[j] /\ j \in upto[i]) => i = j
      /\ \A i, j, k \in I : (i \in upto[j] /\ j \in upto[k]) => i \in upto[k]
    BY <1>1, <1>3
<1>8. CountsOut(I, upto, place)
    BY <1>2, <1>3, <1>4, <1>5, <1>7 DEF CountsOut
<1>9. \A k \in 1..Cardinality(I) : \E i \in I : place[i] = k
    BY <1>8, CountedPlaces
<1>10. Kept(list, I) \in Seq(S) /\ Len(Kept(list, I)) = Cardinality(I)
    BY <1>2, <1>6, <1>9, ArrangedIs
<1>11. I # {} => Cardinality(I) # 0
    BY <1>2, FS_EmptySet
<1> QED
    BY <1>10, <1>11

-------------------------------------------------------------------------------
(* The chain *)

LEMMA SettingsAre ==
    ASSUME settings \in Settings
    PROVE  /\ settings.list \in Seq(Models) /\ settings.list # << >>
           /\ settings.floor \in Models
BY RoutingAssumption

LEMMA PreferredIs ==
    ASSUME settings \in Settings, NEW R, rows \in Seq(R)
    PROVE  Preferred \in Seq(Models)
<1> DEFINE list == settings.list
           I == DOMAIN list
           upto == [i \in I |-> {j \in I : Ahead(list, j, i)}]
           place == [i \in I |-> Cardinality({j \in I : Ahead(list, j, i)})]
<1>1. list \in Seq(Models) /\ I = 1..Len(list) /\ Len(list) \in Nat
    BY SettingsAre
<1> HIDE DEF list
<1>2. IsFiniteSet(I) /\ I \subseteq Nat
    BY <1>1, FS_Interval
<1>3. \A m : Successes(m) \in Nat
    <2> SUFFICES ASSUME NEW m PROVE Successes(m) \in Nat
        OBVIOUS
    <2> DEFINE won == {k \in DOMAIN rows : rows[k].success /\ rows[k].model = m}
    <2>1. DOMAIN rows = 1..Len(rows) /\ Len(rows) \in Nat
        OBVIOUS
    <2>2. IsFiniteSet(DOMAIN rows) /\ won \in SUBSET DOMAIN rows
        BY <2>1, FS_Interval
    <2> HIDE DEF won
    <2>3. IsFiniteSet(won)
        BY <2>2, FS_Subset
    <2>4. Cardinality(won) \in Nat
        BY <2>3, FS_CardinalityType
    <2> QED
        BY <2>4 DEF Successes, won
<1>4. upto \in [I -> SUBSET I] /\ \A i, j \in I : j \in upto[i] <=> Ahead(list, j, i)
    OBVIOUS
<1>5. \A i \in I : place[i] = Cardinality(upto[i])
    OBVIOUS
<1>6. place \in [I -> Nat]
    <2>1. \A i \in I : Cardinality({j \in I : Ahead(list, j, i)}) \in Nat
        <3> TAKE i \in I
        <3> DEFINE those == {j \in I : Ahead(list, j, i)}
        <3>1. those \in SUBSET I
            OBVIOUS
        <3> HIDE DEF those, I
        <3>2. IsFiniteSet(those)
            BY <1>2, <3>1, FS_Subset
        <3>3. Cardinality(those) \in Nat
            BY <3>2, FS_CardinalityType
        <3> QED
            BY <3>3 DEF those
    <2> QED
        BY <2>1
<1>7. Preferred = Arranged(list, place) /\ DOMAIN place = I
    BY DEF Preferred, list
<1> HIDE DEF upto, place
<1>8. \A i, j \in I : j \in upto[i] <=>
        \/ Successes(list[j]) > Successes(list[i])
        \/ Successes(list[j]) = Successes(list[i]) /\ j <= i
    BY <1>4 DEF Ahead
<1>9. /\ \A i \in I : i \in upto[i]
      /\ \A i, j \in I : i \in upto[j] \/ j \in upto[i]
      /\ \A i, j \in I : (i \in upto[j] /\ j \in upto[i]) => i = j
      /\ \A i, j, k \in I : (i \in upto[j] /\ j \in upto[k]) => i \in upto[k]
    BY <1>2, <1>3, <1>8
<1>10. I \in SUBSET DOMAIN list
    OBVIOUS
<1> HIDE DEF I
<1>11. CountsOut(I, upto, place)
    BY <1>2, <1>4, <1>5, <1>6, <1>9 DEF CountsOut
<1>12. \A k \in 1..Cardinality(I) : \E i \in I : place[i] = k
    BY <1>11, CountedPlaces
<1> QED
    BY <1>1, <1>2, <1>7, <1>10, <1>12, ArrangedIs

LEMMA OrderedIs ==
    ASSUME settings \in Settings, NEW R, rows \in Seq(R)
    PROVE  Ordered \in Seq(Models)
<1> DEFINE local == {i \in DOMAIN Preferred : IsLocal(Preferred[i])}
<1>1. Preferred \in Seq(Models)
    BY PreferredIs
<1>2. Ordered = IF settings.cap # Null /\ Spent >= settings.cap
                THEN Kept(Preferred, local) ELSE Preferred
    BY DEF Ordered
<1>3. local \in SUBSET DOMAIN Preferred
    OBVIOUS
<1> HIDE DEF local
<1>4. Kept(Preferred, local) \in Seq(Models)
    BY <1>1, <1>3, KeptIs
<1> QED
    BY <1>1, <1>2, <1>4

\* The cheapest of a pool of ranks is one of them.
LEMMA FromBandIs ==
    ASSUME NEW ordered \in Seq(Models), NEW pool \in SUBSET DOMAIN ordered, pool # {}
    PROVE  FromBand(ordered, pool) \in pool
<1> DEFINE cost(i) == UnitCost[ordered[i]]
           known == {i \in pool : cost(i) > 0}
<1>1. pool \in SUBSET Nat /\ known \in SUBSET pool
    <2>1. DOMAIN ordered = 1..Len(ordered) /\ Len(ordered) \in Nat
        OBVIOUS
    <2> QED
        BY <2>1
<1>2. \A i \in pool : cost(i) \in Nat
    BY RoutingAssumption
<1>3. FromBand(ordered, pool) =
        CHOOSE i \in pool :
            IF known = {} THEN \A j \in pool : i <= j
            ELSE /\ i \in known
                 /\ \A j \in known : \/ cost(i) < cost(j)
                                     \/ cost(i) = cost(j) /\ i <= j
    BY DEF FromBand
<1> HIDE DEF known, cost
<1>4. CASE known = {}
    <2>1. \E i \in pool : \A j \in pool : i <= j
        BY <1>1, LeastMember
    <2> QED
        BY <1>3, <1>4, <2>1
<1>5. CASE known # {}
    <2> DEFINE costs == {cost(i) : i \in known}
    <2>1. costs \in SUBSET Nat /\ costs # {}
        BY <1>1, <1>2, <1>5
    <2> HIDE DEF costs
    <2>2. PICK least \in costs : \A y \in costs : least <= y
        BY <2>1, LeastMember
    <2> DEFINE cheap == {i \in known : cost(i) = least}
    <2>3. cheap \in SUBSET Nat /\ cheap # {}
        BY <1>1, <2>2 DEF costs
    <2> HIDE DEF cheap
    <2>4. PICK i \in cheap : \A j \in cheap : i <= j
        BY <2>3, LeastMember
    <2>5. i \in known /\ i \in pool /\ cost(i) = least
        BY <1>1, <2>4 DEF cheap
    <2>6. ASSUME NEW j \in known
          PROVE  cost(i) < cost(j) \/ (cost(i) = cost(j) /\ i <= j)
        <3>1. cost(j) \in costs /\ cost(j) \in Nat /\ cost(i) \in Nat
            BY <1>1, <1>2, <2>5 DEF costs
        <3>2. least <= cost(j)
            BY <2>2, <3>1
        <3>3. cost(j) = least => i <= j
            BY <2>4 DEF cheap
        <3> QED
            BY <2>5, <3>1, <3>2, <3>3
    <2> QED
        BY <1>3, <1>5, <2>5, <2>6
<1> QED
    BY <1>4, <1>5

LEMMA SelectedIs ==
    ASSUME settings \in Settings, NEW ordered \in Seq(Models)
    PROVE  Selected(ordered) \in Models
<1> DEFINE band == Band(ordered)
<1>1. band \in SUBSET DOMAIN ordered
    BY DEF Band
<1>2. Selected(ordered) = IF band = {} THEN settings.floor ELSE ordered[FromBand(ordered, band)]
    BY DEF Selected
<1> HIDE DEF band
<1>3. band # {} => FromBand(ordered, band) \in band
    BY <1>1, FromBandIs
<1>4. settings.floor \in Models
    BY SettingsAre
<1>5. \A i \in DOMAIN ordered : ordered[i] \in Models
    OBVIOUS
<1> QED
    BY <1>1, <1>2, <1>3, <1>4, <1>5

LEMMA ChainIs ==
    ASSUME settings \in Settings, NEW R, rows \in Seq(R), NEW asked \in Names \cup {Null}
    PROVE  Chain(asked) \in Seq(Models) /\ Chain(asked) # << >>
<1> DEFINE ordered == Ordered
           open == {i \in DOMAIN ordered : Available(ordered[i])}
           head == IF Resolved(asked) = Null THEN << >> ELSE <<Resolved(asked)>>
           all == head \o <<Selected(ordered)>> \o Kept(ordered, open) \o <<settings.floor>>
           first == {i \in DOMAIN all : \A j \in 1..(i - 1) : all[j] # all[i]}
<1>1. ordered \in Seq(Models)
    BY OrderedIs
<1>2. Chain(asked) = Kept(all, first)
    BY DEF Chain
<1>3. open \in SUBSET DOMAIN ordered
    OBVIOUS
<1> HIDE DEF open, ordered
<1>4. Kept(ordered, open) \in Seq(Models)
    BY <1>1, <1>3, KeptIs
<1>5. <<Selected(ordered)>> \in Seq(Models) /\ <<settings.floor>> \in Seq(Models)
    BY <1>1, SelectedIs, SettingsAre
<1>6. head \in Seq(Models)
    <2>1. Resolved(asked) \in Models \cup {Null}
        BY RoutingAssumption DEF Resolved
    <2> QED
        BY <2>1
<1>7. all \in Seq(Models) /\ Len(all) > 0
    <2> DEFINE a == <<Selected(ordered)>>
               b == Kept(ordered, open)
               d == <<settings.floor>>
    <2>1. Len(d) = 1
        OBVIOUS
    <2> HIDE DEF head, a, b, d
    <2>2. head \o a \o b \o d \in Seq(Models) /\ Len(head \o a \o b \o d) > 0
        BY <1>4, <1>5, <1>6, <2>1 DEF a, b, d
    <2> QED
        BY <2>2 DEF a, b, d
<1> HIDE DEF all
<1>8. first \in SUBSET DOMAIN all /\ 1 \in first
    BY <1>7
<1> HIDE DEF first
<1> QED
    BY <1>2, <1>7, <1>8, KeptIs

-------------------------------------------------------------------------------
(* What a client has received *)

Event == Models \cup Words

\* An answer in the voice of m that has not ended.
Open(out, m) ==
    /\ out \in Seq(Event)
    /\ \A k \in DOMAIN out : out[k] \in {"role", "usage", m}
    /\ \A j, k \in DOMAIN out : out[j] = "role" /\ out[k] = "role" => j = k
    /\ \A k \in DOMAIN out : out[k] = m => \E j \in DOMAIN out : j < k /\ out[j] = "role"

LEMMA WordsAreNoModels ==
    ASSUME NEW m \in Models
    PROVE  m \notin {"role", "usage", "finish", "done", "error"}
BY RoutingAssumption DEF Words

LEMMA ToSetIs ==
    ASSUME NEW S, NEW s \in Seq(S), NEW e
    PROVE  e \in ToSet(s) <=> \E k \in DOMAIN s : s[k] = e
<1>1. ToSet(s) = {s[k] : k \in DOMAIN s}
    BY DEF ToSet
<1> QED
    BY <1>1

LEMMA OpenAtFirst ==
    ASSUME NEW m
    PROVE  Open(<< >>, m)
BY DEF Open

LEMMA OpenWithRole ==
    ASSUME NEW m \in Models, NEW out, Open(out, m), "role" \notin ToSet(out)
    PROVE  Open(Append(out, "role"), m)
<1> DEFINE w == Append(out, "role")
<1>1. out \in Seq(Event) /\ "role" \in Event
    BY DEF Open, Event, Words
<1>2. /\ w \in Seq(Event) /\ Len(w) = Len(out) + 1 /\ Len(out) \in Nat
      /\ DOMAIN w = 1..(Len(out) + 1) /\ DOMAIN out = 1..Len(out)
      /\ \A k \in 1..Len(out) : w[k] = out[k]
      /\ w[Len(out) + 1] = "role"
    BY <1>1
<1>3. \A k \in DOMAIN out : out[k] # "role"
    BY <1>1, ToSetIs
<1>4. m \notin Words
    BY WordsAreNoModels DEF Words
<1> HIDE DEF w
<1>5. \A k \in DOMAIN w : w[k] \in {"role", "usage", m}
    BY <1>2 DEF Open
<1>6. \A j, k \in DOMAIN w : w[j] = "role" /\ w[k] = "role" => j = k
    BY <1>2, <1>3
<1>8. \A k \in DOMAIN w : w[k] = m => \E j \in DOMAIN w : j < k /\ w[j] = "role"
    BY <1>2, <1>4 DEF Open, Words
<1> QED
    BY <1>2, <1>5, <1>6, <1>8 DEF Open, w

LEMMA OpenWithText ==
    ASSUME NEW m \in Models, NEW out, Open(out, m), "role" \in ToSet(out)
    PROVE  Open(Append(out, m), m)
<1> DEFINE w == Append(out, m)
<1>1. out \in Seq(Event) /\ m \in Event
    BY DEF Open, Event
<1>2. /\ w \in Seq(Event) /\ Len(w) = Len(out) + 1 /\ Len(out) \in Nat
      /\ DOMAIN w = 1..(Len(out) + 1) /\ DOMAIN out = 1..Len(out)
      /\ \A k \in 1..Len(out) : w[k] = out[k]
      /\ w[Len(out) + 1] = m
    BY <1>1
<1>3. \E k \in DOMAIN out : out[k] = "role"
    BY <1>1, ToSetIs
<1>4. m # "role" /\ m # "usage"
    BY WordsAreNoModels
<1> HIDE DEF w
<1>5. \A k \in DOMAIN w : w[k] \in {"role", "usage", m}
    BY <1>2 DEF Open
<1>6. \A j, k \in DOMAIN w : w[j] = "role" /\ w[k] = "role" => j = k
    BY <1>2, <1>4 DEF Open
<1>8. ASSUME NEW k \in DOMAIN w, w[k] = m
      PROVE  \E j \in DOMAIN w : j < k /\ w[j] = "role"
    <2>1. CASE k = Len(out) + 1
        BY <1>2, <1>3, <2>1
    <2>2. CASE k # Len(out) + 1
        BY <1>2, <1>8, <2>2 DEF Open
    <2> QED
        BY <2>1, <2>2
<1> QED
    BY <1>2, <1>5, <1>6, <1>8 DEF Open, w

\* The role and a delta keep an answer open.
LEMMA OpenSaid ==
    ASSUME NEW m \in Models, NEW out, Open(out, m)
    PROVE  Open(Say(out, m), m)
<1>1. CASE "role" \in ToSet(out)
    BY <1>1, OpenWithText DEF Say
<1>2. CASE "role" \notin ToSet(out)
    <2> DEFINE v == Append(out, "role")
    <2>1. Open(v, m)
        BY <1>2, OpenWithRole
    <2>2. out \in Seq(Event) /\ "role" \in Event /\ m \in Event
        BY DEF Open, Event, Words
    <2>3. v[Len(v)] = "role" /\ Len(v) \in DOMAIN v
        BY <2>2
    <2>4. out \o <<"role", m>> = Append(v, m)
        BY <2>2
    <2> HIDE DEF v
    <2>5. "role" \in ToSet(v)
        BY <2>1, <2>3, ToSetIs DEF Open
    <2>6. Open(Append(v, m), m)
        BY <2>1, <2>5, OpenWithText
    <2> QED
        BY <1>2, <2>1, <2>4, <2>6 DEF Say
<1> QED
    BY <1>1, <1>2

LEMMA OpenWithUsage ==
    ASSUME NEW m \in Models, NEW out, Open(out, m)
    PROVE  Open(Append(out, "usage"), m)
<1> DEFINE w == Append(out, "usage")
<1>1. out \in Seq(Event) /\ "usage" \in Event
    BY DEF Open, Event, Words
<1>2. /\ w \in Seq(Event) /\ Len(w) = Len(out) + 1 /\ Len(out) \in Nat
      /\ DOMAIN w = 1..(Len(out) + 1) /\ DOMAIN out = 1..Len(out)
      /\ \A k \in 1..Len(out) : w[k] = out[k]
      /\ w[Len(out) + 1] = "usage"
    BY <1>1
<1>3. m # "role" /\ m # "usage"
    BY WordsAreNoModels
<1> HIDE DEF w
<1>4. \A k \in DOMAIN w : w[k] \in {"role", "usage", m}
    BY <1>2 DEF Open
<1>5. \A j, k \in DOMAIN w : w[j] = "role" /\ w[k] = "role" => j = k
    BY <1>2 DEF Open
<1>7. \A k \in DOMAIN w : w[k] = m => \E j \in DOMAIN w : j < k /\ w[j] = "role"
    BY <1>2, <1>3 DEF Open
<1> QED
    BY <1>2, <1>4, <1>5, <1>7 DEF Open, w

\* An answer in the voice of m that has ended.
Ended(out, m) == \E w : Open(w, m) /\ out = w \o <<"finish", "done">>

LEMMA ClosedIsEnded ==
    ASSUME NEW m \in Models, NEW out, Open(out, m)
    PROVE  Ended(Close(out), m)
<1> DEFINE w == IF "role" \in ToSet(out) THEN out ELSE Append(out, "role")
<1>1. Open(w, m)
    BY OpenWithRole
<1>2. Close(out) = w \o <<"finish", "done">>
    BY DEF Close
<1> QED
    BY <1>1, <1>2 DEF Ended

\* What an ended answer is made of.
LEMMA EndedIs ==
    ASSUME NEW m \in Models, NEW w, Open(w, m), NEW out, out = w \o <<"finish", "done">>
    PROVE  /\ w \in Seq(Event) /\ out \in Seq(Event)
           /\ Len(w) \in Nat /\ Len(out) = Len(w) + 2 /\ DOMAIN w = 1..Len(w)
           /\ DOMAIN out = 1..(Len(w) + 2)
           /\ \A k \in 1..Len(w) : out[k] = w[k]
           /\ out[Len(w) + 1] = "finish" /\ out[Len(w) + 2] = "done"
<1>1. w \in Seq(Event) /\ "finish" \in Event /\ "done" \in Event
    BY DEF Open, Event, Words
<1> QED
    BY <1>1

LEMMA AtMostOne ==
    ASSUME NEW S, \A x, y \in S : x = y
    PROVE  Cardinality(S) <= 1
<1>1. CASE S = {}
    BY <1>1, FS_EmptySet
<1>2. CASE S # {}
    <2>1. PICK x \in S : TRUE
        BY <1>2
    <2>2. S = {x}
        BY <2>1
    <2>3. Cardinality({x}) = 1
        BY FS_Singleton
    <2> QED
        BY <2>2, <2>3
<1> QED
    BY <1>1, <1>2

\* The form of a stream, as StreamIsWellFormed asks for it.
Formed(out) ==
    LET places(e) == {k \in DOMAIN out : out[k] = e}
    IN  /\ "error" \notin ToSet(out)
        /\ \A e \in {"role", "finish", "done"} : Cardinality(places(e)) <= 1
        /\ \A k \in DOMAIN out : out[k] \in Models => \E j \in places("role") : j < k
        /\ \A k \in places("finish"), j \in DOMAIN out : j > k => out[j] = "done"
        /\ \A k \in places("done") : k = Len(out) /\ out[k - 1] = "finish"

LEMMA OpenIsFormed ==
    ASSUME NEW m \in Models, NEW out, Open(out, m)
    PROVE  Formed(out) /\ ToSet(out) \cap Models \subseteq {m} /\ "done" \notin ToSet(out)
<1> DEFINE places(e) == {k \in DOMAIN out : out[k] = e}
<1>1. out \in Seq(Event)
    BY DEF Open
<1>2. m \notin {"role", "usage", "finish", "done", "error"}
    BY WordsAreNoModels
<1>3. \A k \in DOMAIN out : out[k] \in {"role", "usage", m}
    BY DEF Open
<1>4. "role" \notin Models /\ "usage" \notin Models
    BY WordsAreNoModels
<1>5. "error" \notin ToSet(out) /\ "done" \notin ToSet(out)
    BY <1>1, <1>2, <1>3, ToSetIs
<1>6. ASSUME NEW e \in {"role", "finish", "done"}
      PROVE  Cardinality(places(e)) <= 1
    <2>1. \A j, k \in places(e) : j = k
        BY <1>2, <1>3 DEF Open
    <2> HIDE DEF places
    <2> QED
        BY <2>1, AtMostOne
<1>7. \A k \in DOMAIN out : out[k] \in Models => \E j \in places("role") : j < k
    BY <1>3, <1>4 DEF Open
<1>8. places("finish") = {} /\ places("done") = {}
    BY <1>2, <1>3
<1>9. ToSet(out) \cap Models \subseteq {m}
    BY <1>1, <1>3, <1>4, ToSetIs
<1> QED
    BY <1>5, <1>6, <1>7, <1>8, <1>9 DEF Formed

LEMMA EndedIsFormed ==
    ASSUME NEW m \in Models, NEW out, Ended(out, m)
    PROVE  Formed(out) /\ ToSet(out) \cap Models \subseteq {m}
<1> DEFINE places(e) == {k \in DOMAIN out : out[k] = e}
<1>1. PICK w : Open(w, m) /\ out = w \o <<"finish", "done">>
    BY DEF Ended
<1>2. /\ w \in Seq(Event) /\ out \in Seq(Event)
      /\ Len(w) \in Nat /\ Len(out) = Len(w) + 2 /\ DOMAIN w = 1..Len(w)
      /\ DOMAIN out = 1..(Len(w) + 2)
      /\ \A k \in 1..Len(w) : out[k] = w[k]
      /\ out[Len(w) + 1] = "finish" /\ out[Len(w) + 2] = "done"
    BY <1>1, EndedIs
<1>3. m \notin {"role", "usage", "finish", "done", "error"}
    BY WordsAreNoModels
<1>4. \A k \in DOMAIN w : w[k] \in {"role", "usage", m}
    BY <1>1 DEF Open
<1>5. "role" \notin Models /\ "usage" \notin Models /\ "finish" \notin Models /\ "done" \notin Models
    BY WordsAreNoModels
<1>6. \A k \in DOMAIN out : \/ k \in DOMAIN w /\ out[k] = w[k] /\ w[k] \in {"role", "usage", m}
                            \/ k = Len(w) + 1 /\ out[k] = "finish"
                            \/ k = Len(w) + 2 /\ out[k] = "done"
    BY <1>2, <1>4
<1>7. "error" \notin ToSet(out)
    BY <1>2, <1>3, <1>6, ToSetIs
<1>8. ASSUME NEW e \in {"role", "finish", "done"}
      PROVE  Cardinality(places(e)) <= 1
    <2>1. \A j, k \in DOMAIN out : out[j] = e /\ out[k] = e => j = k
        <3>1. CASE e = "role"
            BY <1>1, <1>6, <3>1 DEF Open
        <3>2. CASE e \in {"finish", "done"}
            BY <1>3, <1>6, <3>2
        <3> QED
            BY <3>1, <3>2
    <2>2. \A j, k \in places(e) : j = k
        BY <2>1
    <2> HIDE DEF places
    <2> QED
        BY <2>2, AtMostOne
<1>9. ASSUME NEW k \in DOMAIN out, out[k] \in Models
      PROVE  \E j \in places("role") : j < k
    <2>1. k \in DOMAIN w /\ w[k] = m
        BY <1>5, <1>6, <1>9
    <2>2. PICK j \in DOMAIN w : j < k /\ w[j] = "role"
        BY <1>1, <2>1 DEF Open
    <2> QED
        BY <1>2, <2>2
<1>10. ASSUME NEW k \in places("finish"), NEW j \in DOMAIN out, j > k
       PROVE  out[j] = "done"
    <2>1. k = Len(w) + 1
        BY <1>3, <1>6
    <2> QED
        BY <1>2, <1>10, <2>1
<1>11. ASSUME NEW k \in places("done")
       PROVE  k = Len(out) /\ out[k - 1] = "finish"
    <2>1. k = Len(w) + 2
        BY <1>3, <1>6
    <2>2. k - 1 = Len(w) + 1
        BY <1>2, <2>1
    <2> QED
        BY <1>2, <2>1, <2>2
<1>12. ToSet(out) \cap Models \subseteq {m}
    BY <1>2, <1>5, <1>6, ToSetIs
<1> QED
    BY <1>7, <1>8, <1>9, <1>10, <1>11, <1>12 DEF Formed

-------------------------------------------------------------------------------
(* The invariant *)

Row == [call : Calls, model : Models, success : BOOLEAN, cost : Nat]

Record ==
    [stage : {"again", "try", "write", "answer", "text", "usage", "over"},
     how : {"json", "stream", "buffered"}, asked : Names \cup {Null},
     chain : Seq(Models), at : Nat, named : Models, cost : Nat, ok : BOOLEAN,
     emitted : BOOLEAN, gone : BOOLEAN,
     why : {"none", "local", "refused", "retryable", "other"}, out : Seq(Event)]

TypeOK ==
    /\ settings \in Settings /\ rows \in Seq(Row)
    /\ call \in [Calls -> {NoCall} \cup Record]

\* The model that a call speaks for, as RowModel has it.
Voice(r) == IF r.how = "stream" THEN r.chain[r.at] ELSE r.named

\* Before its row a call has said nothing that it could have to take back.
FitsBefore(r) ==
    r.stage \in {"again", "try", "write", "answer"} =>
        /\ Open(r.out, Voice(r))
        /\ r.how # "stream" => r.out = << >> /\ ~r.emitted
        /\ ~r.emitted => r.out = << >>

\* A completion that is whole is sent while it is open.
FitsWhole(r) ==
    r.stage \in {"text", "usage"} =>
        r.how = "buffered" /\ Open(r.out, Voice(r))

FitsAfter(r) ==
    r.stage = "over" =>
        \/ r.out = <<"error">>
        \/ r.how = "json" /\ r.out = <<r.named>>
        \/ r.how # "json" /\ (Open(r.out, Voice(r)) \/ Ended(r.out, Voice(r)))

FitsGone(r) ==
    /\ r.stage \in {"again", "try"} => ~r.gone
    /\ r.how # "stream" /\ r.stage # "over" => ~r.gone
    /\ r.how = "stream" /\ r.gone => ~r.ok

Fits(r) ==
    /\ r.at \in 1..Len(r.chain)
    /\ FitsBefore(r) /\ FitsWhole(r) /\ FitsAfter(r) /\ FitsGone(r)

Unwritten(c) == \A k \in DOMAIN rows : rows[k].call # c

\* The one row of a call tells the model it speaks for and its success.
Written(c) ==
    \E k \in DOMAIN rows :
        /\ rows[k].call = c /\ rows[k].model = Voice(call[c])
        /\ rows[k].success = call[c].ok
        /\ \A j \in DOMAIN rows : rows[j].call = c => j = k

RowsFit(c) ==
    /\ call[c].stage \in {"idle", "again", "try", "write"} => Unwritten(c)
    /\ call[c].stage \in {"answer", "text", "usage"} => Written(c)
    /\ call[c].stage = "over" =>
          Written(c) \/ (Unwritten(c) /\ "done" \notin ToSet(call[c].out))

Inv ==
    /\ TypeOK
    /\ \A c \in Calls : call[c] # NoCall => Fits(call[c])
    /\ \A c \in Calls : RowsFit(c)

LEMMA NoCallIs == NoCall \notin Record /\ NoCall.stage = "idle"
<1>1. NoCall.stage = "idle"
    BY DEF NoCall
<1>2. \A r \in Record : r.stage # "idle"
    BY DEF Record
<1> QED
    BY <1>1, <1>2

LEMMA VoiceIs ==
    ASSUME NEW r \in Record, r.at \in 1..Len(r.chain)
    PROVE  Voice(r) \in Models
<1>1. r.chain \in Seq(Models) /\ r.named \in Models
    BY DEF Record
<1> QED
    BY <1>1 DEF Voice

\* A step of one call that writes no row.
LEMMA CallStep ==
    ASSUME Inv, NEW c \in Calls, NEW n \in Record, Fits(n),
           settings' = settings, rows' = rows, call' = [call EXCEPT ![c] = n],
           \/ /\ call[c].stage \in {"idle", "again", "try", "write"}
              /\ \/ n.stage \in {"again", "try", "write"}
                 \/ n.stage = "over" /\ "done" \notin ToSet(n.out)
           \/ /\ call[c].stage \in {"answer", "text", "usage"}
              /\ n.stage \in {"answer", "text", "usage", "over"}
              /\ Voice(n) = Voice(call[c]) /\ n.ok = call[c].ok
    PROVE  Inv'
<1>1. call \in [Calls -> {NoCall} \cup Record]
    BY DEF Inv, TypeOK
<1>2. call'[c] = n /\ \A d \in Calls : d # c => call'[d] = call[d]
    BY <1>1
<1>3. TypeOK'
    BY <1>1 DEF Inv, TypeOK
<1>4. ASSUME NEW d \in Calls, call'[d] # NoCall
      PROVE  Fits(call'[d])
    BY <1>2, <1>4 DEF Inv
<1>5. ASSUME NEW d \in Calls
      PROVE  RowsFit(d)'
    <2>1. RowsFit(d)
        BY DEF Inv
    <2>2. Unwritten(d) <=> Unwritten(d)'
        BY DEF Unwritten
    <2>3. CASE d # c
        <3>1. call'[d] = call[d]
            BY <1>2, <2>3
        <3>2. Written(d) <=> Written(d)'
            BY <3>1 DEF Written
        <3> QED
            BY <2>1, <2>2, <3>1, <3>2 DEF RowsFit
    <2>4. CASE d = c
        <3>1. CASE call[c].stage \in {"idle", "again", "try", "write"}
            <4>1. Unwritten(d)'
                BY <2>1, <2>2, <2>4, <3>1 DEF RowsFit
            <4>2. \/ n.stage \in {"again", "try", "write"}
                  \/ n.stage = "over" /\ "done" \notin ToSet(n.out)
                BY <3>1
            <4>3. call'[d] = n
                BY <1>2, <2>4
            <4> QED
                BY <4>1, <4>2, <4>3 DEF RowsFit
        <3>2. CASE /\ call[c].stage \in {"answer", "text", "usage"}
                   /\ n.stage \in {"answer", "text", "usage", "over"}
                   /\ Voice(n) = Voice(call[c]) /\ n.ok = call[c].ok
            <4>1. Written(d)
                BY <2>1, <2>4, <3>2 DEF RowsFit
            <4>2. Written(d)'
                BY <1>2, <2>4, <3>2, <4>1 DEF Written
            <4>3. call'[d] = n
                BY <1>2, <2>4
            <4> QED
                BY <3>2, <4>2, <4>3 DEF RowsFit
        <3> QED
            BY <3>1, <3>2
    <2> QED
        BY <2>3, <2>4
<1> QED
    BY <1>3, <1>4, <1>5 DEF Inv

\* A call that is under way has a record that fits.
LEMMA UnderWay ==
    ASSUME Inv, NEW c \in Calls, call[c].stage # "idle"
    PROVE  call[c] \in Record /\ Fits(call[c]) /\ Voice(call[c]) \in Models
<1>1. call[c] # NoCall
    BY NoCallIs
<1>2. call[c] \in Record /\ Fits(call[c])
    BY <1>1 DEF Inv, TypeOK
<1> QED
    BY <1>2, VoiceIs DEF Fits

-------------------------------------------------------------------------------
(* A call finds its chain *)

LEMMA NewCallIs ==
    ASSUME NEW stage \in {"again", "try"}, NEW how \in {"json", "stream", "buffered"},
           NEW asked \in Names \cup {Null}, NEW chain \in Seq(Models), chain # << >>
    PROVE  /\ NewCall(stage, how, asked, chain) \in Record
           /\ NewCall(stage, how, asked, chain).stage = stage
           /\ Fits(NewCall(stage, how, asked, chain))
<1> DEFINE n == NewCall(stage, how, asked, chain)
<1>1. Head(chain) \in Models /\ Len(chain) >= 1 /\ Len(chain) \in Nat
    OBVIOUS
<1>2. << >> \in Seq(Event)
    OBVIOUS
<1>3. n \in Record
    BY <1>1, <1>2, Zenon DEF NewCall, Record
<1>4. /\ n.stage = stage /\ n.out = << >> /\ n.emitted = FALSE /\ n.gone = FALSE
      /\ n.at = 1 /\ n.chain = chain
    BY DEF NewCall
<1> HIDE DEF n
<1>5. Open(n.out, Voice(n))
    BY <1>4, OpenAtFirst
<1>6. FitsBefore(n) /\ FitsWhole(n) /\ FitsAfter(n) /\ FitsGone(n)
    BY <1>4, <1>5 DEF FitsBefore, FitsWhole, FitsAfter, FitsGone
<1> QED
    BY <1>1, <1>3, <1>4, <1>6 DEF Fits, n

LEMMA ChainsAre ==
    ASSUME Inv, NEW asked \in Names \cup {Null}
    PROVE  Chain(asked) \in Seq(Models) /\ Chain(asked) # << >>
BY ChainIs DEF Inv, TypeOK

LEMMA RouteStep ==
    ASSUME Inv, NEW c \in Calls, Route(c)
    PROVE  Inv'
<1>1. call[c].stage = "idle" /\ settings' = settings /\ rows' = rows
    BY NoCallIs DEF Route
<1>2. PICK asked \in Names \cup {Null}, stream \in BOOLEAN :
          LET chain == Chain(asked)
          IN  call' = [call EXCEPT ![c] =
                  IF ~stream                  THEN NewCall("try", "json", asked, chain)
                  ELSE IF chain[1] \in Native THEN NewCall("again", "buffered", asked, chain)
                  ELSE                             NewCall("try", "stream", asked, chain)]
    BY DEF Route
<1>3. Chain(asked) \in Seq(Models) /\ Chain(asked) # << >>
    BY ChainsAre
<1>4. PICK stage \in {"again", "try"}, how \in {"json", "stream", "buffered"} :
          call' = [call EXCEPT ![c] = NewCall(stage, how, asked, Chain(asked))]
    BY <1>2
<1> QED
    BY <1>1, <1>3, <1>4, NewCallIs, CallStep

LEMMA RouteAgainStep ==
    ASSUME Inv, NEW c \in Calls, RouteAgain(c)
    PROVE  Inv'
<1> DEFINE asked == call[c].asked
<1>1. call[c].stage = "again" /\ settings' = settings /\ rows' = rows
    BY DEF RouteAgain
<1>2. call[c] \in Record
    BY <1>1, UnderWay
<1>3. asked \in Names \cup {Null}
    BY <1>2 DEF Record
<1>4. call' = [call EXCEPT ![c] = NewCall("try", "buffered", asked, Chain(asked))]
    BY DEF RouteAgain
<1> HIDE DEF asked
<1>5. Chain(asked) \in Seq(Models) /\ Chain(asked) # << >>
    BY <1>3, ChainsAre
<1> QED
    BY <1>1, <1>3, <1>4, <1>5, NewCallIs, CallStep

-------------------------------------------------------------------------------
(* An attempt ends *)

\* The end of the attempts of a call: what it has said stays.
LEMMA EndOfAttempts ==
    ASSUME Inv, NEW c \in Calls, call[c].stage = "try", settings' = settings, rows' = rows,
           NEW n \in Record, call' = [call EXCEPT ![c] = n], n.stage = "write",
           n.how = call[c].how, n.chain = call[c].chain, n.at = call[c].at,
           n.out = call[c].out, n.emitted = call[c].emitted,
           n.how # "stream" => ~n.gone, n.how = "stream" => n.named = call[c].named,
           n.gone => ~n.ok
    PROVE  Inv'
<1>1. call[c] \in Record /\ Fits(call[c])
    BY UnderWay
<1>2. n.how # "stream" => Open(n.out, Voice(n))
    BY <1>1, OpenAtFirst DEF Fits, FitsBefore
<1>3. n.how = "stream" => Voice(n) = Voice(call[c])
    BY DEF Voice
<1>4. FitsBefore(n)
    BY <1>1, <1>2, <1>3 DEF Fits, FitsBefore
<1>5. FitsWhole(n) /\ FitsAfter(n) /\ FitsGone(n)
    BY DEF FitsWhole, FitsAfter, FitsGone
<1>6. Fits(n)
    BY <1>1, <1>4, <1>5 DEF Fits
<1> QED
    BY <1>6, CallStep

\* The next attempt of a call that has said nothing.
LEMMA NextAttempt ==
    ASSUME Inv, NEW c \in Calls, call[c].stage = "try", settings' = settings, rows' = rows,
           ~IsLast(c), call[c].how # "stream" \/ ~call[c].emitted,
           NEW n \in Record, call' = [call EXCEPT ![c] = n], n.stage = "try",
           n.how = call[c].how, n.chain = call[c].chain, n.at = call[c].at + 1,
           n.out = call[c].out, n.emitted = call[c].emitted, n.gone = call[c].gone
    PROVE  Inv'
<1>1. call[c] \in Record /\ Fits(call[c])
    BY UnderWay
<1>2. n.out = << >>
    BY <1>1 DEF Fits, FitsBefore
<1>3. Open(n.out, Voice(n))
    BY <1>2, OpenAtFirst
<1>4. FitsBefore(n)
    BY <1>1, <1>2, <1>3 DEF Fits, FitsBefore
<1>5. FitsWhole(n) /\ FitsAfter(n) /\ FitsGone(n)
    BY <1>1 DEF FitsWhole, FitsAfter, FitsGone, Fits
<1>6. n.at \in 1..Len(n.chain)
    <2>1. call[c].chain \in Seq(Models)
        BY <1>1 DEF Record
    <2> QED
        BY <1>1, <2>1 DEF Fits, IsLast
<1>7. Fits(n)
    BY <1>4, <1>5, <1>6 DEF Fits
<1> QED
    BY <1>7, CallStep

\* A failure ends the attempts.
LEMMA GiveUpStep ==
    ASSUME Inv, NEW c \in Calls, Trying(c), settings' = settings, rows' = rows,
           NEW why \in {"none", "local", "refused", "retryable", "other"}, GiveUp(c, why)
    PROVE  Inv'
<1> DEFINE n == [call[c] EXCEPT !.stage = "write", !.why = why]
<1>1. call[c].stage = "try" /\ call \in [Calls -> {NoCall} \cup Record]
    BY DEF Trying, Inv, TypeOK
<1>2. call[c] \in Record /\ Fits(call[c])
    BY <1>1, UnderWay
<1>3. call' = [call EXCEPT ![c] = n]
    BY <1>1 DEF GiveUp
<1>4. n \in Record
    BY <1>2 DEF Record
<1>5. /\ n.stage = "write" /\ n.at = call[c].at /\ n.named = call[c].named
      /\ n.how = call[c].how /\ n.chain = call[c].chain /\ n.out = call[c].out
      /\ n.emitted = call[c].emitted /\ n.gone = call[c].gone
    BY <1>2 DEF Record
<1> HIDE DEF n
<1>6. ~n.gone
    BY <1>1, <1>2, <1>5 DEF Fits, FitsGone
<1> QED
    BY <1>1, <1>3, <1>4, <1>5, <1>6, EndOfAttempts

LEMMA LocalFailsStep ==
    ASSUME Inv, NEW c \in Calls, LocalFails(c)
    PROVE  Inv'
<1>1. Trying(c) /\ settings' = settings /\ rows' = rows
    BY DEF LocalFails
<1>2. CASE GiveUp(c, "local")
    BY <1>1, <1>2, GiveUpStep
<1>3. CASE MayGoOn(c) /\ GoOn(c, "local")
    <2> DEFINE at == call[c].at + 1
               n == [call[c] EXCEPT !.at = at, !.why = "local"]
    <2>1. call[c].stage = "try" /\ call \in [Calls -> {NoCall} \cup Record]
        BY <1>1 DEF Trying, Inv, TypeOK
    <2>2. call[c] \in Record
        BY <2>1, UnderWay
    <2>3. call' = [call EXCEPT ![c] = n]
        BY <1>3, <2>1 DEF GoOn
    <2>4. at \in Nat
        BY <2>2 DEF Record
    <2> HIDE DEF at
    <2>5. n \in Record
        BY <2>2, <2>4 DEF Record
    <2>6. /\ n.stage = "try" /\ n.at = call[c].at + 1
          /\ n.how = call[c].how /\ n.chain = call[c].chain /\ n.out = call[c].out
          /\ n.emitted = call[c].emitted /\ n.gone = call[c].gone
        BY <2>1, <2>2 DEF Record, at
    <2> HIDE DEF n
    <2>7. ~IsLast(c) /\ ~call[c].emitted
        BY <1>3 DEF MayGoOn
    <2> QED
        BY <1>1, <2>1, <2>3, <2>5, <2>6, <2>7, NextAttempt
<1> QED
    BY <1>2, <1>3 DEF LocalFails

LEMMA PaidRefusedStep ==
    ASSUME Inv, NEW c \in Calls, PaidRefused(c)
    PROVE  Inv'
BY GiveUpStep DEF PaidRefused

\* The attempt of a call that is no stream answers or fails for good.
LEMMA WholeAttempt ==
    ASSUME Inv, NEW c \in Calls, Trying(c), call[c].how # "stream",
           settings' = settings, rows' = rows,
           NEW ok \in BOOLEAN, NEW why \in {"none", "local", "refused", "retryable", "other"},
           NEW named \in Models, NEW cost \in Nat,
           call' = [call EXCEPT ![c] = [@ EXCEPT !.stage = "write", !.ok = ok, !.why = why,
                                                 !.named = named, !.cost = cost]]
    PROVE  Inv'
<1> DEFINE n == [call[c] EXCEPT !.stage = "write", !.ok = ok, !.why = why,
                                !.named = named, !.cost = cost]
<1>1. call[c].stage = "try" /\ call \in [Calls -> {NoCall} \cup Record]
    BY DEF Trying, Inv, TypeOK
<1>2. call[c] \in Record /\ Fits(call[c])
    BY <1>1, UnderWay
<1>3. call' = [call EXCEPT ![c] = n]
    BY <1>1
<1>4. n \in Record
    BY <1>2 DEF Record
<1>5. /\ n.stage = "write" /\ n.at = call[c].at
      /\ n.how = call[c].how /\ n.chain = call[c].chain /\ n.out = call[c].out
      /\ n.emitted = call[c].emitted /\ n.gone = call[c].gone
    BY <1>2 DEF Record
<1> HIDE DEF n
<1>6. ~n.gone
    BY <1>1, <1>2, <1>5 DEF Fits, FitsGone
<1> QED
    BY <1>1, <1>3, <1>4, <1>5, <1>6, EndOfAttempts

LEMMA CurrentIs ==
    ASSUME Inv, NEW c \in Calls, Trying(c)
    PROVE  /\ Current(c) \in Models /\ call[c].named \in Models /\ call[c].cost \in Nat
           /\ call[c].ok \in BOOLEAN
           /\ call[c].why \in {"none", "local", "refused", "retryable", "other"}
<1>1. call[c] \in Record /\ Fits(call[c])
    BY UnderWay DEF Trying
<1>2. call[c].chain \in Seq(Models) /\ call[c].at \in 1..Len(call[c].chain)
    BY <1>1 DEF Record, Fits
<1> QED
    BY <1>1, <1>2 DEF Record, Current

LEMMA LocalAnswersStep ==
    ASSUME Inv, NEW c \in Calls, LocalAnswers(c)
    PROVE  Inv'
<1> DEFINE r == call[c]
<1>1. Trying(c) /\ r.how # "stream" /\ settings' = settings /\ rows' = rows
    BY DEF LocalAnswers
<1>2. /\ Current(c) \in Models /\ r.cost \in Nat
      /\ r.why \in {"none", "local", "refused", "retryable", "other"}
    BY <1>1, CurrentIs
<1>3. call[c] \in Record /\ call \in [Calls -> {NoCall} \cup Record]
    BY <1>1, UnderWay DEF Trying, Inv, TypeOK
<1>4. call' = [call EXCEPT ![c] = [@ EXCEPT !.stage = "write", !.ok = TRUE, !.why = r.why,
                                            !.named = Current(c), !.cost = r.cost]]
    BY <1>3 DEF LocalAnswers, Record
<1> QED
    BY <1>1, <1>2, <1>4, WholeAttempt

LEMMA PaidAnswersStep ==
    ASSUME Inv, NEW c \in Calls, PaidAnswers(c)
    PROVE  Inv'
<1> DEFINE r == call[c]
<1>1. Trying(c) /\ r.how # "stream" /\ settings' = settings /\ rows' = rows
    BY DEF PaidAnswers
<1>2. /\ Current(c) \in Models /\ r.cost \in Nat
      /\ r.why \in {"none", "local", "refused", "retryable", "other"}
    BY <1>1, CurrentIs
<1>3. call[c] \in Record /\ call \in [Calls -> {NoCall} \cup Record]
    BY <1>1, UnderWay DEF Trying, Inv, TypeOK
<1>4. call' = [call EXCEPT ![c] = [@ EXCEPT !.stage = "write", !.ok = TRUE, !.why = r.why,
                                            !.named = Current(c), !.cost = r.cost + 1]]
    BY <1>3 DEF PaidAnswers, Record
<1>5. r.cost + 1 \in Nat
    BY <1>2
<1> QED
    BY <1>1, <1>2, <1>4, <1>5, WholeAttempt

LEMMA PaidFailsStep ==
    ASSUME Inv, NEW c \in Calls, PaidFails(c)
    PROVE  Inv'
<1> DEFINE r == call[c]
<1>1. Trying(c) /\ r.how # "stream" /\ settings' = settings /\ rows' = rows
    BY DEF PaidFails
<1>2. /\ Current(c) \in Models /\ r.named \in Models /\ r.cost \in Nat /\ r.ok \in BOOLEAN
    BY <1>1, CurrentIs
<1>3. call[c] \in Record /\ call \in [Calls -> {NoCall} \cup Record]
    BY <1>1, UnderWay DEF Trying, Inv, TypeOK
<1>4. PICK why \in Failures, k \in {0, 1}, named \in {call[c].named, Current(c)} :
          call' = [call EXCEPT ![c].stage = "write", ![c].why = why, ![c].named = named,
                               ![c].cost = @ + k]
    BY DEF PaidFails
<1> DEFINE cost == r.cost + k
<1>5. call' = [call EXCEPT ![c] = [@ EXCEPT !.stage = "write", !.ok = r.ok, !.why = why,
                                            !.named = named, !.cost = cost]]
    BY <1>3, <1>4 DEF Record
<1>6. cost \in Nat /\ named \in Models /\ r.ok \in BOOLEAN
    BY <1>2, <1>4
<1> HIDE DEF cost
<1>7. why \in {"none", "local", "refused", "retryable", "other"}
    BY <1>4 DEF Failures
<1> QED
    BY <1>1, <1>2, <1>5, <1>6, <1>7, WholeAttempt

LEMMA TrustedFailureStep ==
    ASSUME Inv, NEW c \in Calls, TrustedFailure(c)
    PROVE  Inv'
<1>1. /\ Trying(c) /\ call[c].how # "stream" /\ ~IsLast(c)
      /\ settings' = settings /\ rows' = rows
    BY DEF TrustedFailure
<1>2. call[c].stage = "try" /\ call \in [Calls -> {NoCall} \cup Record]
    BY <1>1 DEF Trying, Inv, TypeOK
<1>3. call[c] \in Record
    BY <1>2, UnderWay
<1>4. PICK why \in Failures, k \in {0, 1} :
          call' = [call EXCEPT ![c].at = @ + 1, ![c].why = why, ![c].cost = @ + k]
    BY DEF TrustedFailure
<1> DEFINE at == call[c].at + 1
           cost == call[c].cost + k
           n == [call[c] EXCEPT !.at = at, !.why = why, !.cost = cost]
<1>5. call' = [call EXCEPT ![c] = n]
    BY <1>2, <1>4
<1>6. at \in Nat /\ cost \in Nat
    BY <1>3 DEF Record
<1> HIDE DEF at, cost
<1>7. n \in Record
    <2>1. why \in {"none", "local", "refused", "retryable", "other"}
        BY <1>4 DEF Failures
    <2> QED
        BY <1>3, <1>6, <2>1 DEF Record
<1>8. /\ n.stage = "try" /\ n.at = call[c].at + 1
      /\ n.how = call[c].how /\ n.chain = call[c].chain /\ n.out = call[c].out
      /\ n.emitted = call[c].emitted /\ n.gone = call[c].gone
    BY <1>2, <1>3 DEF Record, at
<1> HIDE DEF n
<1> QED
    BY <1>1, <1>2, <1>5, <1>7, <1>8, NextAttempt

-------------------------------------------------------------------------------
(* A stream goes on *)

LEMMA StreamingIs ==
    ASSUME Inv, NEW c \in Calls, Streaming(c)
    PROVE  /\ call[c].stage = "try" /\ call[c].how = "stream"
           /\ call \in [Calls -> {NoCall} \cup Record]
           /\ call[c] \in Record /\ Fits(call[c]) /\ ~call[c].gone
           /\ Voice(call[c]) = Current(c) /\ Current(c) \in Models
           /\ Open(call[c].out, Current(c))
<1>1. call[c].stage = "try" /\ call[c].how = "stream"
    BY DEF Streaming, Trying
<1>2. call[c] \in Record /\ Fits(call[c]) /\ Voice(call[c]) \in Models
    BY <1>1, UnderWay
<1>3. Voice(call[c]) = Current(c)
    BY <1>1 DEF Voice, Current
<1>4. call \in [Calls -> {NoCall} \cup Record]
    BY DEF Inv, TypeOK
<1> QED
    BY <1>1, <1>2, <1>3, <1>4 DEF Fits, FitsBefore, FitsGone

\* A chunk keeps the answer open.
LEMMA ChunkStep ==
    ASSUME Inv, NEW c \in Calls, Streaming(c), settings' = settings, rows' = rows,
           NEW out, Open(out, Current(c)),
           call' = [call EXCEPT ![c].emitted = TRUE, ![c].out = out]
    PROVE  Inv'
<1> DEFINE n == [call[c] EXCEPT !.emitted = TRUE, !.out = out]
<1>1. /\ call[c].stage = "try" /\ call[c].how = "stream"
      /\ call \in [Calls -> {NoCall} \cup Record]
      /\ call[c] \in Record /\ Fits(call[c]) /\ ~call[c].gone
      /\ Voice(call[c]) = Current(c)
    BY StreamingIs
<1>2. out \in Seq(Event)
    BY DEF Open
<1>3. call' = [call EXCEPT ![c] = n]
    BY <1>1
<1>4. n \in Record
    BY <1>1, <1>2 DEF Record
<1>5. /\ n.stage = "try" /\ n.how = "stream" /\ n.chain = call[c].chain
      /\ n.at = call[c].at /\ n.out = out /\ n.gone = call[c].gone /\ n.emitted
    BY <1>1 DEF Record
<1> HIDE DEF n
<1>6. Voice(n) = Current(c)
    BY <1>5 DEF Voice, Current
<1>7. FitsBefore(n)
    BY <1>5, <1>6 DEF FitsBefore
<1>8. FitsWhole(n) /\ FitsAfter(n) /\ FitsGone(n)
    BY <1>1, <1>5 DEF FitsWhole, FitsAfter, FitsGone
<1>9. Fits(n)
    BY <1>1, <1>5, <1>7, <1>8 DEF Fits
<1> QED
    BY <1>1, <1>3, <1>4, <1>5, <1>9, CallStep

LEMMA StreamDeltaStep ==
    ASSUME Inv, NEW c \in Calls, StreamDelta(c)
    PROVE  Inv'
<1> DEFINE out == Say(call[c].out, Current(c))
<1>1. Streaming(c) /\ settings' = settings /\ rows' = rows
    BY DEF StreamDelta
<1>2. call' = [call EXCEPT ![c].emitted = TRUE, ![c].out = out]
    BY DEF StreamDelta
<1>3. Open(out, Current(c))
    BY <1>1, StreamingIs, OpenSaid
<1> HIDE DEF out
<1> QED
    BY <1>1, <1>2, <1>3, ChunkStep

LEMMA StreamUsageStep ==
    ASSUME Inv, NEW c \in Calls, StreamUsage(c)
    PROVE  Inv'
<1> DEFINE out == Append(call[c].out, "usage")
<1>1. Streaming(c) /\ settings' = settings /\ rows' = rows
    BY DEF StreamUsage
<1>2. call' = [call EXCEPT ![c].emitted = TRUE, ![c].out = out]
    BY DEF StreamUsage
<1>3. Open(out, Current(c))
    BY <1>1, StreamingIs, OpenWithUsage
<1> HIDE DEF out
<1> QED
    BY <1>1, <1>2, <1>3, ChunkStep

\* A stream comes to an end, or its client hangs up.
LEMMA StreamStops ==
    ASSUME Inv, NEW c \in Calls, Streaming(c), settings' = settings, rows' = rows,
           NEW ok \in BOOLEAN, NEW gone \in BOOLEAN, gone => ~ok,
           call' = [call EXCEPT ![c] = [@ EXCEPT !.stage = "write", !.gone = gone, !.ok = ok]]
    PROVE  Inv'
<1> DEFINE n == [call[c] EXCEPT !.stage = "write", !.gone = gone, !.ok = ok]
<1>1. /\ call[c].stage = "try" /\ call[c].how = "stream"
      /\ call \in [Calls -> {NoCall} \cup Record] /\ call[c] \in Record
    BY StreamingIs
<1>2. call' = [call EXCEPT ![c] = n]
    BY <1>1
<1>3. n \in Record
    BY <1>1 DEF Record
<1>4. /\ n.stage = "write" /\ n.at = call[c].at /\ n.named = call[c].named
      /\ n.how = call[c].how /\ n.chain = call[c].chain /\ n.out = call[c].out
      /\ n.emitted = call[c].emitted
      /\ (n.gone <=> gone) /\ (n.ok <=> ok)
    BY <1>1 DEF Record
<1> HIDE DEF n
<1>5. (n.how # "stream" => ~n.gone) /\ (n.gone => ~n.ok)
    BY <1>1, <1>4
<1> QED
    BY <1>1, <1>2, <1>3, <1>4, <1>5, EndOfAttempts

LEMMA StreamEndsStep ==
    ASSUME Inv, NEW c \in Calls, StreamEnds(c)
    PROVE  Inv'
<1>1. Streaming(c) /\ settings' = settings /\ rows' = rows
    BY DEF StreamEnds
<1>2. call[c] \in Record /\ call \in [Calls -> {NoCall} \cup Record] /\ ~call[c].gone
    BY <1>1, StreamingIs
<1>3. call[c].gone = FALSE
    BY <1>2 DEF Record
<1>4. call' = [call EXCEPT ![c].stage = "write", ![c].ok = TRUE]
    BY DEF StreamEnds
<1>5. call' = [call EXCEPT ![c] = [@ EXCEPT !.stage = "write", !.gone = FALSE, !.ok = TRUE]]
    BY <1>2, <1>3, <1>4 DEF Record
<1> QED
    BY <1>1, <1>5, StreamStops

LEMMA HangUpStep ==
    ASSUME Inv, NEW c \in Calls, HangUp(c)
    PROVE  Inv'
<1>1. Streaming(c) /\ settings' = settings /\ rows' = rows
    BY DEF HangUp
<1>2. call[c] \in Record /\ call \in [Calls -> {NoCall} \cup Record]
    BY <1>1, StreamingIs
<1>3. call' = [call EXCEPT ![c].stage = "write", ![c].gone = TRUE, ![c].ok = FALSE]
    BY DEF HangUp, HangUpSuccess
<1>4. call' = [call EXCEPT ![c] = [@ EXCEPT !.stage = "write", !.gone = TRUE, !.ok = FALSE]]
    BY <1>2, <1>3 DEF Record
<1> QED
    BY <1>1, <1>4, StreamStops

-------------------------------------------------------------------------------
(* The row and the answer *)

LEMMA WriteRowStep ==
    ASSUME Inv, NEW c \in Calls, WriteRow(c)
    PROVE  Inv'
<1> DEFINE r == call[c]
           row == [call |-> c, model |-> RowModel(c), success |-> r.ok, cost |-> r.cost]
           n == [r EXCEPT !.stage = "answer"]
<1>1. r.stage = "write" /\ settings' = settings
    BY DEF WriteRow
<1>2. /\ r \in Record /\ Fits(r) /\ Voice(r) \in Models
      /\ call \in [Calls -> {NoCall} \cup Record] /\ rows \in Seq(Row)
    BY <1>1, UnderWay DEF Inv, TypeOK
<1>3. RowModel(c) = Voice(r)
    BY DEF RowModel, Voice, Current
<1>4. rows' = Append(rows, row) /\ call' = [call EXCEPT ![c] = n]
    BY <1>2 DEF WriteRow
<1>5. row \in Row /\ row.call = c /\ row.model = Voice(r) /\ row.success = r.ok
    BY <1>2, <1>3 DEF Row, Record
<1>6. n \in Record
    BY <1>2 DEF Record
<1>7. /\ n.stage = "answer" /\ n.how = r.how /\ n.chain = r.chain /\ n.at = r.at
      /\ n.named = r.named /\ n.out = r.out /\ n.emitted = r.emitted
      /\ n.gone = r.gone /\ n.ok = r.ok
    BY <1>2 DEF Record
<1> HIDE DEF n, row
<1>8. Voice(n) = Voice(r)
    BY <1>7 DEF Voice
<1>9. Fits(n)
    BY <1>1, <1>2, <1>7, <1>8 DEF Fits, FitsBefore, FitsWhole, FitsAfter, FitsGone
<1>10. /\ rows' \in Seq(Row) /\ Len(rows) \in Nat
       /\ DOMAIN rows = 1..Len(rows) /\ DOMAIN rows' = 1..(Len(rows) + 1)
       /\ \A k \in DOMAIN rows : rows'[k] = rows[k]
       /\ rows'[Len(rows) + 1] = row
    BY <1>2, <1>4, <1>5
<1>11. call'[c] = n /\ \A d \in Calls : d # c => call'[d] = call[d]
    BY <1>2, <1>4
<1>12. TypeOK'
    <2>1. call' \in [Calls -> {NoCall} \cup Record]
        BY <1>2, <1>4, <1>6
    <2> QED
        BY <1>1, <1>10, <2>1 DEF Inv, TypeOK
<1>13. ASSUME NEW d \in Calls, call'[d] # NoCall
       PROVE  Fits(call'[d])
    BY <1>9, <1>11, <1>13 DEF Inv
<1>14. ASSUME NEW d \in Calls
       PROVE  RowsFit(d)'
    <2>1. RowsFit(d)
        BY DEF Inv
    <2>2. CASE d # c
        <3>1. call'[d] = call[d]
            BY <1>11, <2>2
        <3>2. Unwritten(d) => Unwritten(d)'
            BY <1>5, <1>10, <2>2 DEF Unwritten
        <3>3. ASSUME Written(d)
              PROVE  Written(d)'
            <4>1. PICK k \in DOMAIN rows :
                      /\ rows[k].call = d /\ rows[k].model = Voice(call[d])
                      /\ rows[k].success = call[d].ok
                      /\ \A j \in DOMAIN rows : rows[j].call = d => j = k
                BY <3>3 DEF Written
            <4>2. k \in DOMAIN rows' /\ rows'[k] = rows[k]
                BY <1>10, <4>1
            <4>3. \A j \in DOMAIN rows' : rows'[j].call = d => j = k
                BY <1>5, <1>10, <2>2, <4>1
            <4> QED
                BY <3>1, <4>1, <4>2, <4>3 DEF Written
        <3> QED
            BY <2>1, <3>1, <3>2, <3>3 DEF RowsFit
    <2>3. CASE d = c
        <3>1. Unwritten(c)
            BY <1>1, <2>1, <2>3 DEF RowsFit
        <3>2. Len(rows) + 1 \in DOMAIN rows'
            BY <1>10
        <3>3. \A j \in DOMAIN rows' : rows'[j].call = c => j = Len(rows) + 1
            BY <1>10, <3>1 DEF Unwritten
        <3>4. /\ rows'[Len(rows) + 1].call = c
              /\ rows'[Len(rows) + 1].model = Voice(call'[c])
              /\ rows'[Len(rows) + 1].success = call'[c].ok
            BY <1>5, <1>7, <1>8, <1>10, <1>11
        <3>5. Written(c)'
            BY <3>2, <3>3, <3>4 DEF Written
        <3> QED
            BY <1>7, <1>11, <2>3, <3>5 DEF RowsFit
    <2> QED
        BY <2>2, <2>3
<1> QED
    BY <1>12, <1>13, <1>14 DEF Inv

\* What a call that is at its end may say.
Ending(r, stage, out) ==
    /\ r.stage = "write" => stage = "over" /\ "done" \notin ToSet(out)
    /\ stage \in {"text", "usage"} =>
           r.how = "buffered" /\ Open(out, Voice(r))
    /\ stage = "over" =>
           \/ out = <<"error">>
           \/ r.how = "json" /\ out = <<r.named>>
           \/ r.how # "json" /\ (Open(out, Voice(r)) \/ Ended(out, Voice(r)))

\* A call that is at its end keeps its voice and its success.
LEMMA EndStep ==
    ASSUME Inv, NEW c \in Calls, call[c].stage \in {"write", "answer", "text", "usage"},
           settings' = settings, rows' = rows,
           NEW stage \in {"text", "usage", "over"}, NEW out \in Seq(Event),
           NEW gone \in BOOLEAN,
           gone => call[c].gone \/ (call[c].how = "buffered" /\ stage = "over"),
           call' = [call EXCEPT ![c] = [@ EXCEPT !.stage = stage, !.out = out, !.gone = gone]],
           Ending(call[c], stage, out)
    PROVE  Inv'
<1> DEFINE r == call[c]
           n == [r EXCEPT !.stage = stage, !.out = out, !.gone = gone]
<1>1. /\ r \in Record /\ Fits(r) /\ call \in [Calls -> {NoCall} \cup Record]
    BY UnderWay DEF Inv, TypeOK
<1>2. call' = [call EXCEPT ![c] = n]
    BY <1>1
<1>3. n \in Record
    BY <1>1 DEF Record
<1>4. /\ n.stage = stage /\ n.out = out /\ (n.gone <=> gone)
      /\ n.how = r.how /\ n.chain = r.chain /\ n.at = r.at
      /\ n.named = r.named /\ n.ok = r.ok
    BY <1>1 DEF Record
<1> HIDE DEF n
<1>5. Voice(n) = Voice(r)
    BY <1>4 DEF Voice
<1>6. FitsBefore(n)
    BY <1>4 DEF FitsBefore
<1>7. FitsWhole(n)
    BY <1>4, <1>5 DEF FitsWhole, Ending
<1>8. FitsAfter(n)
    BY <1>4, <1>5 DEF FitsAfter, Ending
<1>9. FitsGone(n)
    BY <1>1, <1>4 DEF FitsGone, Fits
<1>10. Fits(n)
    BY <1>1, <1>4, <1>6, <1>7, <1>8, <1>9 DEF Fits
<1>11. CASE r.stage = "write"
    BY <1>2, <1>3, <1>4, <1>10, <1>11, CallStep DEF Ending
<1>12. CASE r.stage \in {"answer", "text", "usage"}
    BY <1>2, <1>3, <1>4, <1>5, <1>10, <1>12, CallStep
<1> QED
    BY <1>11, <1>12

\* The end of a call that leaves its client where it was.
LEMMA PlainEndStep ==
    ASSUME Inv, NEW c \in Calls, call[c].stage \in {"write", "answer", "text", "usage"},
           settings' = settings, rows' = rows,
           NEW stage \in {"text", "usage", "over"}, NEW out \in Seq(Event),
           call' = [call EXCEPT ![c].stage = stage, ![c].out = out],
           Ending(call[c], stage, out)
    PROVE  Inv'
<1> DEFINE gone == call[c].gone
<1>1. call[c] \in Record /\ call \in [Calls -> {NoCall} \cup Record]
    BY UnderWay DEF Inv, TypeOK
<1>2. gone \in BOOLEAN
    BY <1>1 DEF Record
<1>3. call' = [call EXCEPT ![c] = [@ EXCEPT !.stage = stage, !.out = out, !.gone = gone]]
    BY <1>1 DEF Record
<1>4. gone => call[c].gone
    OBVIOUS
<1> HIDE DEF gone
<1> QED
    BY <1>2, <1>3, <1>4, EndStep

LEMMA ErrorIs == <<"error">> \in Seq(Event) /\ "done" \notin ToSet(<<"error">>)
<1>1. "error" \in Event
    BY DEF Event, Words
<1>2. <<"error">> \in Seq(Event) /\ \A k \in DOMAIN <<"error">> : <<"error">>[k] # "done"
    BY <1>1
<1> QED
    BY <1>2, ToSetIs

LEMMA StoreFailsStep ==
    ASSUME Inv, NEW c \in Calls, StoreFails(c)
    PROVE  Inv'
<1> DEFINE r == call[c]
           out == IF r.emitted THEN r.out ELSE <<"error">>
<1>1. r.stage = "write" /\ settings' = settings /\ rows' = rows
    BY DEF StoreFails
<1>2. r \in Record /\ Fits(r) /\ Voice(r) \in Models
    BY <1>1, UnderWay
<1>3. call' = [call EXCEPT ![c].stage = "over", ![c].out = out]
    BY DEF StoreFails, Refusal
<1>4. Open(r.out, Voice(r)) /\ (r.emitted => r.how = "stream")
    BY <1>1, <1>2 DEF Fits, FitsBefore
<1>5. "done" \notin ToSet(r.out) /\ r.out \in Seq(Event)
    BY <1>2, <1>4, OpenIsFormed DEF Open
<1>6. out \in Seq(Event) /\ "done" \notin ToSet(out)
    BY <1>5, ErrorIs
<1>7. out = <<"error">> \/ (r.how # "json" /\ Open(out, Voice(r)))
    BY <1>4
<1> HIDE DEF out
<1>8. Ending(r, "over", out)
    BY <1>6, <1>7 DEF Ending
<1> QED
    BY <1>1, <1>3, <1>6, <1>8, PlainEndStep

LEMMA EndedIsTyped ==
    ASSUME NEW m \in Models, NEW out, Ended(out, m)
    PROVE  out \in Seq(Event)
<1>1. PICK w : Open(w, m) /\ out = w \o <<"finish", "done">>
    BY DEF Ended
<1> QED
    BY <1>1, EndedIs

\* What an answer makes of what was said.
Finished(r) ==
    CASE r.gone                             -> r.out
      [] ~r.gone /\ ~r.ok /\ ~r.emitted     -> Refusal
      [] ~r.gone /\ ~r.ok /\ r.emitted      -> r.out \o <<"finish", "done">>
      [] r.ok /\ r.how = "json"             -> <<r.named>>
      [] r.ok /\ r.how = "stream"           -> Close(r.out)
      [] r.ok /\ r.how = "buffered"         -> r.out

LEMMA FinishedIs ==
    ASSUME NEW r \in Record, Fits(r), r.stage = "answer"
    PROVE  /\ Finished(r) \in Seq(Event)
           /\ r.how = "buffered" /\ r.ok => Open(Finished(r), Voice(r))
           /\ ~(r.how = "buffered" /\ r.ok) =>
                 \/ Finished(r) = <<"error">>
                 \/ r.how = "json" /\ Finished(r) = <<r.named>>
                 \/ /\ r.how # "json"
                    /\ Open(Finished(r), Voice(r)) \/ Ended(Finished(r), Voice(r))
<1>1. Voice(r) \in Models /\ r.named \in Models
    BY VoiceIs DEF Fits, Record
<1>2. /\ Open(r.out, Voice(r)) /\ (r.how # "stream" => r.out = << >> /\ ~r.emitted)
      /\ (r.how # "stream" => ~r.gone) /\ (r.gone => ~r.ok)
    BY DEF Fits, FitsBefore, FitsGone
<1>3. r.how \in {"json", "stream", "buffered"} /\ r.out \in Seq(Event)
    BY <1>2 DEF Record, Open
<1>4. CASE r.gone
    <2>1. Finished(r) = r.out
        BY <1>2, <1>4 DEF Finished
    <2> QED
        BY <1>2, <1>3, <1>4, <2>1
<1>5. CASE ~r.gone /\ ~r.ok /\ ~r.emitted
    <2>1. Finished(r) = <<"error">>
        BY <1>5 DEF Finished, Refusal
    <2> QED
        BY <1>5, <2>1, ErrorIs
<1>6. CASE ~r.gone /\ ~r.ok /\ r.emitted
    <2>1. Finished(r) = r.out \o <<"finish", "done">>
        BY <1>6 DEF Finished
    <2>2. Ended(Finished(r), Voice(r))
        BY <1>2, <2>1 DEF Ended
    <2>3. Finished(r) \in Seq(Event)
        BY <1>1, <2>2, EndedIsTyped
    <2> QED
        BY <1>2, <1>6, <2>2, <2>3
<1>7. CASE r.ok /\ r.how = "json"
    <2>1. Finished(r) = <<r.named>>
        BY <1>2, <1>7 DEF Finished
    <2>2. <<r.named>> \in Seq(Event)
        BY <1>1 DEF Event
    <2> QED
        BY <1>7, <2>1, <2>2
<1>8. CASE r.ok /\ r.how = "stream"
    <2>1. Finished(r) = Close(r.out)
        BY <1>2, <1>8 DEF Finished
    <2>2. Ended(Finished(r), Voice(r))
        BY <1>1, <1>2, <2>1, ClosedIsEnded
    <2>3. Finished(r) \in Seq(Event)
        BY <1>1, <2>2, EndedIsTyped
    <2> QED
        BY <1>8, <2>2, <2>3
<1>9. CASE r.ok /\ r.how = "buffered"
    <2>1. Finished(r) = << >>
        BY <1>2, <1>9 DEF Finished
    <2> QED
        BY <1>1, <1>9, <2>1, OpenAtFirst
<1> QED
    BY <1>3, <1>4, <1>5, <1>6, <1>7, <1>8, <1>9

\* A call that answers ends there, or is sent in chunks.
LEMMA FinishStep ==
    ASSUME Inv, NEW c \in Calls, call[c].stage = "answer", settings' = settings, rows' = rows,
           NEW stage, stage = IF call[c].how = "buffered" /\ call[c].ok THEN "text" ELSE "over",
           NEW out, out = Finished(call[c]),
           call' = [call EXCEPT ![c].stage = stage, ![c].out = out]
    PROVE  Inv'
<1> DEFINE r == call[c]
<1>1. r \in Record /\ Fits(r)
    BY UnderWay
<1>2. /\ out \in Seq(Event)
      /\ r.how = "buffered" /\ r.ok => Open(out, Voice(r))
      /\ ~(r.how = "buffered" /\ r.ok) =>
            \/ out = <<"error">>
            \/ r.how = "json" /\ out = <<r.named>>
            \/ r.how # "json" /\ (Open(out, Voice(r)) \/ Ended(out, Voice(r)))
    BY <1>1, FinishedIs
<1>3. /\ stage \in {"text", "usage", "over"}
      /\ stage \in {"text", "usage"} <=> (r.how = "buffered" /\ r.ok)
      /\ stage = "over" <=> ~(r.how = "buffered" /\ r.ok)
    OBVIOUS
<1>4. Ending(r, stage, out)
    BY <1>2, <1>3 DEF Ending
<1> QED
    BY <1>2, <1>3, <1>4, PlainEndStep

LEMMA AnswerStep ==
    ASSUME Inv, NEW c \in Calls, Answer(c)
    PROVE  Inv'
<1> DEFINE r == call[c]
           stage == IF r.how = "buffered" /\ r.ok THEN "text" ELSE "over"
           out == IF ~r.ok THEN Refusal ELSE IF r.how = "json" THEN <<r.named>> ELSE r.out
<1>1. r.stage = "answer" /\ r.how # "stream" /\ settings' = settings /\ rows' = rows
    BY DEF Answer
<1>2. r \in Record /\ Fits(r) /\ call \in [Calls -> {NoCall} \cup Record]
    BY <1>1, UnderWay DEF Inv, TypeOK
<1>3. ~r.gone /\ ~r.emitted /\ r.how \in {"json", "buffered"}
    BY <1>1, <1>2 DEF Fits, FitsBefore, FitsGone, Record
<1>4. out = Finished(r)
    BY <1>3 DEF Finished
<1>5. call' = [call EXCEPT ![c].stage = stage, ![c].out = out]
    BY <1>2 DEF Answer
<1> HIDE DEF out, stage
<1> QED
    BY <1>1, <1>4, <1>5, FinishStep DEF stage

LEMMA EndStreamStep ==
    ASSUME Inv, NEW c \in Calls, EndStream(c)
    PROVE  Inv'
<1> DEFINE r == call[c]
           out == CASE r.gone                            -> r.out
                    [] ~r.gone /\ r.ok                   -> Close(r.out)
                    [] ~r.gone /\ ~r.ok /\ r.emitted     -> r.out \o <<"finish", "done">>
                    [] ~r.gone /\ ~r.ok /\ ~r.emitted    -> Refusal
<1>1. r.stage = "answer" /\ r.how = "stream" /\ settings' = settings /\ rows' = rows
    BY DEF EndStream
<1>2. r \in Record /\ Fits(r) /\ call \in [Calls -> {NoCall} \cup Record]
    BY <1>1, UnderWay DEF Inv, TypeOK
<1>3. r.gone => ~r.ok
    BY <1>1, <1>2 DEF Fits, FitsGone
<1>4. out = Finished(r)
    BY <1>1, <1>3 DEF Finished
<1>5. call' = [call EXCEPT ![c].stage = "over", ![c].out = out]
    BY <1>2 DEF EndStream
<1>6. "over" = IF r.how = "buffered" /\ r.ok THEN "text" ELSE "over"
    BY <1>1
<1> HIDE DEF out
<1> QED
    BY <1>1, <1>4, <1>5, <1>6, FinishStep

LEMMA SendTextStep ==
    ASSUME Inv, NEW c \in Calls, SendText(c)
    PROVE  Inv'
<1> DEFINE r == call[c]
<1>1. r.stage = "text" /\ settings' = settings /\ rows' = rows
    BY DEF SendText
<1>2. r \in Record /\ Fits(r) /\ Voice(r) \in Models
    BY <1>1, UnderWay
<1>3. r.how = "buffered" /\ Open(r.out, Voice(r)) /\ Voice(r) = r.named
    BY <1>1, <1>2 DEF Fits, FitsWhole, Voice
<1>4. PICK out \in {Say(r.out, r.named), r.out} :
          call' = [call EXCEPT ![c].stage = "usage", ![c].out = out]
    BY DEF SendText
<1>5. Open(out, Voice(r))
    BY <1>2, <1>3, <1>4, OpenSaid
<1>6. out \in Seq(Event) /\ Ending(r, "usage", out)
    BY <1>1, <1>3, <1>5 DEF Open, Ending
<1> QED
    BY <1>1, <1>4, <1>6, PlainEndStep

LEMMA SendUsageStep ==
    ASSUME Inv, NEW c \in Calls, SendUsage(c)
    PROVE  Inv'
<1> DEFINE r == call[c]
           out == Close(Append(r.out, "usage"))
<1>1. r.stage = "usage" /\ settings' = settings /\ rows' = rows
    BY DEF SendUsage
<1>2. r \in Record /\ Fits(r) /\ Voice(r) \in Models
    BY <1>1, UnderWay
<1>3. r.how = "buffered" /\ Open(r.out, Voice(r))
    BY <1>1, <1>2 DEF Fits, FitsWhole
<1>4. call' = [call EXCEPT ![c].stage = "over", ![c].out = out]
    BY DEF SendUsage
<1>5. Ended(out, Voice(r))
    BY <1>2, <1>3, OpenWithUsage, ClosedIsEnded
<1>6. out \in Seq(Event)
    BY <1>2, <1>5, EndedIsTyped
<1> HIDE DEF out
<1>7. Ending(r, "over", out)
    BY <1>1, <1>3, <1>5 DEF Ending
<1> QED
    BY <1>1, <1>4, <1>6, <1>7, PlainEndStep

LEMMA StopSendingStep ==
    ASSUME Inv, NEW c \in Calls, StopSending(c)
    PROVE  Inv'
<1> DEFINE r == call[c]
           out == r.out
<1>1. r.stage = "usage" /\ settings' = settings /\ rows' = rows
    BY DEF StopSending
<1>2. /\ r \in Record /\ Fits(r) /\ call \in [Calls -> {NoCall} \cup Record]
    BY <1>1, UnderWay DEF Inv, TypeOK
<1>3. r.how = "buffered" /\ Open(out, Voice(r))
    BY <1>1, <1>2 DEF Fits, FitsWhole
<1>4. out \in Seq(Event)
    BY <1>3 DEF Open
<1>5. call' = [call EXCEPT ![c].stage = "over", ![c].gone = TRUE]
    BY DEF StopSending
<1>6. call' = [call EXCEPT ![c] = [@ EXCEPT !.stage = "over", !.out = out, !.gone = TRUE]]
    BY <1>2, <1>5 DEF Record
<1> HIDE DEF out
<1>7. Ending(r, "over", out)
    BY <1>1, <1>3 DEF Ending
<1> QED
    BY <1>1, <1>3, <1>4, <1>6, <1>7, EndStep

-------------------------------------------------------------------------------
(* The specification *)

LEMMA InvHoldsAtFirst == Init => Inv
<1> SUFFICES ASSUME Init PROVE Inv
    OBVIOUS
<1>1. TypeOK /\ \A c \in Calls : call[c] = NoCall
    BY DEF Init, TypeOK
<1>2. \A c \in Calls : RowsFit(c)
    BY <1>1, NoCallIs DEF RowsFit, Unwritten, Init
<1> QED
    BY <1>1, <1>2 DEF Inv

\* A step that touches neither the calls nor the rows.
LEMMA IdleStep ==
    ASSUME Inv, settings' \in Settings, rows' = rows, call' = call
    PROVE  Inv'
<1>1. TypeOK' /\ \A c \in Calls : call'[c] # NoCall => Fits(call'[c])
    BY DEF Inv, TypeOK
<1>2. \A c \in Calls : RowsFit(c) <=> RowsFit(c)'
    BY DEF RowsFit, Written, Unwritten
<1> QED
    BY <1>1, <1>2 DEF Inv

LEMMA InvStep == Inv /\ [Next]_vars => Inv'
<1> SUFFICES ASSUME Inv, [Next]_vars PROVE Inv'
    OBVIOUS
<1>1. ASSUME NEW c \in Calls, Route(c) PROVE Inv'
    BY <1>1, RouteStep
<1>2. ASSUME NEW c \in Calls, Attempt(c) PROVE Inv'
    BY <1>2, RouteAgainStep, LocalAnswersStep, LocalFailsStep, PaidRefusedStep,
       PaidAnswersStep, PaidFailsStep, TrustedFailureStep, StreamDeltaStep,
       StreamUsageStep, StreamEndsStep DEF Attempt
<1>3. ASSUME NEW c \in Calls, Report(c) PROVE Inv'
    BY <1>3, WriteRowStep, StoreFailsStep, AnswerStep, EndStreamStep, SendTextStep,
       SendUsageStep, StopSendingStep DEF Report
<1>4. ASSUME NEW c \in Calls, HangUp(c) PROVE Inv'
    BY <1>4, HangUpStep
<1>5. settings \in Settings
    BY DEF Inv, TypeOK
<1>6. CASE CooldownEnds
    BY <1>5, <1>6, IdleStep DEF CooldownEnds
<1>7. CASE Reload
    BY <1>7, IdleStep DEF Reload
<1>8. CASE UNCHANGED vars
    BY <1>5, <1>8, IdleStep DEF vars
<1> QED
    BY <1>1, <1>2, <1>3, <1>4, <1>6, <1>7, <1>8 DEF Next

LEMMA InvAlways == Spec => []Inv
BY InvHoldsAtFirst, InvStep, PTL DEF Spec

-------------------------------------------------------------------------------
(* What follows from it *)

LEMMA ToldIs ==
    ASSUME Inv, NEW c \in Calls, Told(c)
    PROVE  /\ call[c] \in Record /\ Fits(call[c]) /\ RowsFit(c)
           /\ Voice(call[c]) \in Models /\ call[c].stage # "idle"
<1>1. call[c] # NoCall
    BY DEF Told
<1>2. call[c] \in Record /\ RowsFit(c)
    BY <1>1 DEF Inv, TypeOK
<1>3. call[c].stage # "idle"
    BY <1>2 DEF Record
<1> QED
    BY <1>2, <1>3, UnderWay

\* What a client hears is in the voice of its call, and formed.
LEMMA HeardIs ==
    ASSUME NEW r \in Record, Fits(r), Voice(r) \in Models
    PROVE  /\ ToSet(r.out) \cap Models \subseteq {Voice(r)}
           /\ r.how # "json" => r.out = <<"error">> \/ Formed(r.out)
           /\ r.stage # "over" => "done" \notin ToSet(r.out)
<1>1. ToSet(<<"error">>) \cap Models = {}
    <2>1. \A k \in DOMAIN <<"error">> : <<"error">>[k] = "error"
        OBVIOUS
    <2>2. "error" \notin Models
        BY RoutingAssumption DEF Words
    <2>3. \A e \in ToSet(<<"error">>) : e = "error"
        BY <2>1, ErrorIs, ToSetIs
    <2> QED
        BY <2>2, <2>3
<1>2. CASE Open(r.out, Voice(r))
    BY <1>2, OpenIsFormed
<1>3. CASE Ended(r.out, Voice(r)) /\ r.stage = "over"
    BY <1>3, EndedIsFormed
<1>4. CASE r.out = <<"error">> /\ r.stage = "over"
    BY <1>1, <1>4
<1>5. CASE r.how = "json" /\ r.out = <<r.named>> /\ r.stage = "over"
    <2>1. Voice(r) = r.named /\ r.named \in Models
        BY <1>5 DEF Voice, Record
    <2> DEFINE one == <<r.named>>
    <2>2. one \in Seq(Models) /\ \A k \in DOMAIN one : one[k] = r.named
        BY <2>1
    <2>3. r.out = one
        BY <1>5
    <2> HIDE DEF one
    <2>4. \A e \in ToSet(r.out) : e = r.named
        BY <2>2, <2>3, ToSetIs
    <2> QED
        BY <1>5, <2>1, <2>4
<1>6. r.stage \in {"again", "try", "write", "answer", "text", "usage", "over"}
    BY DEF Record
<1> QED
    BY <1>2, <1>3, <1>4, <1>5, <1>6 DEF Fits, FitsBefore, FitsWhole, FitsAfter

\* The rows of a call, if there are any, are one that tells the truth.
LEMMA RowsAre ==
    ASSUME NEW c \in Calls, RowsFit(c), call[c] \in Record
    PROVE  /\ \A j, k \in RowsOf(c) : j = k
           /\ \A k \in RowsOf(c) : /\ rows[k].model = Voice(call[c])
                                   /\ rows[k].success = call[c].ok
           /\ RowsOf(c) = {} => /\ call[c].stage \in {"again", "try", "write", "over"}
                                /\ call[c].stage = "over" => "done" \notin ToSet(call[c].out)
<1>1. call[c].stage \in {"again", "try", "write", "answer", "text", "usage", "over"}
    BY DEF Record
<1>2. Written(c) \/ (/\ Unwritten(c) /\ call[c].stage \in {"again", "try", "write", "over"}
                     /\ call[c].stage = "over" => "done" \notin ToSet(call[c].out))
    BY <1>1 DEF RowsFit
<1>3. CASE Written(c)
    <2>1. PICK k \in DOMAIN rows :
              /\ rows[k].call = c /\ rows[k].model = Voice(call[c])
              /\ rows[k].success = call[c].ok
              /\ \A j \in DOMAIN rows : rows[j].call = c => j = k
        BY <1>3 DEF Written
    <2>2. RowsOf(c) = {k}
        BY <2>1 DEF RowsOf
    <2> QED
        BY <2>1, <2>2
<1>4. CASE Unwritten(c)
    <2>1. RowsOf(c) = {}
        BY <1>4 DEF RowsOf, Unwritten
    <2>2. Written(c) => RowsOf(c) # {}
        BY DEF Written, RowsOf
    <2> QED
        BY <1>2, <2>1, <2>2
<1> QED
    BY <1>2, <1>3, <1>4

\* For any models, settings and number of calls, whatever fell back, was configured or
\* cooled down meanwhile: a client never hears two models in one answer, and the usage row
\* of the call names the one it heard.
THEOREM ClientsHearOneModel == Spec => []OneVoice
<1>1. Inv => OneVoice
    <2> SUFFICES ASSUME Inv, NEW c \in Calls, Told(c)
                 PROVE  /\ Cardinality(Heard(c)) <= 1
                        /\ \A k \in RowsOf(c), m \in Heard(c) : rows[k].model = m
        BY DEF OneVoice
    <2>1. /\ call[c] \in Record /\ Fits(call[c]) /\ RowsFit(c)
          /\ Voice(call[c]) \in Models
        BY ToldIs
    <2>2. Heard(c) \subseteq {Voice(call[c])}
        BY <2>1, HeardIs DEF Heard
    <2>3. Cardinality(Heard(c)) <= 1
        BY <2>2, AtMostOne
    <2>4. \A k \in RowsOf(c) : rows[k].model = Voice(call[c])
        BY <2>1, RowsAre
    <2> QED
        BY <2>2, <2>3, <2>4
<1> QED
    BY <1>1, InvAlways, PTL

\* A closed answer has its one usage row, no answer ever has two, and a stream whose client
\* has gone is no success in the row.
THEOREM OneRowTellsTheAnswer == Spec => []RowTellsTheAnswer
<1>1. Inv => RowTellsTheAnswer
    <2> SUFFICES ASSUME Inv, NEW c \in Calls, Told(c)
                 PROVE  /\ Cardinality(RowsOf(c)) <= 1
                        /\ "done" \in ToSet(call[c].out) => RowsOf(c) # {}
                        /\ call[c].how = "stream" /\ call[c].gone =>
                              \A k \in RowsOf(c) : ~rows[k].success
        BY DEF RowTellsTheAnswer
    <2>1. /\ call[c] \in Record /\ Fits(call[c]) /\ RowsFit(c)
          /\ Voice(call[c]) \in Models
        BY ToldIs
    <2>2. /\ \A j, k \in RowsOf(c) : j = k
          /\ \A k \in RowsOf(c) : rows[k].success = call[c].ok
          /\ RowsOf(c) = {} => (call[c].stage = "over" => "done" \notin ToSet(call[c].out))
        BY <2>1, RowsAre
    <2>3. Cardinality(RowsOf(c)) <= 1
        BY <2>2, AtMostOne
    <2>4. "done" \in ToSet(call[c].out) => call[c].stage = "over"
        BY <2>1, HeardIs
    <2>5. call[c].how = "stream" /\ call[c].gone => ~call[c].ok
        BY <2>1 DEF Fits, FitsGone
    <2> QED
        BY <2>2, <2>3, <2>4, <2>5
<1> QED
    BY <1>1, InvAlways, PTL

\* What the client of a stream has received is well formed at any time: a role ahead of the
\* first delta, one role, one finish, and nothing after the end.
THEOREM StreamsAreWellFormed == Spec => []StreamIsWellFormed
<1>1. Inv => StreamIsWellFormed
    <2> SUFFICES ASSUME Inv, NEW c \in Calls, Told(c), call[c].how # "json"
                 PROVE  call[c].out = <<"error">> \/ Formed(call[c].out)
        BY DEF StreamIsWellFormed, Formed, Refusal
    <2>1. /\ call[c] \in Record /\ Fits(call[c]) /\ Voice(call[c]) \in Models
        BY ToldIs
    <2> QED
        BY <2>1, HeardIs
<1> QED
    BY <1>1, InvAlways, PTL

================================================================================
