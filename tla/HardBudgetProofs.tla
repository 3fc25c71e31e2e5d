--------------------------- MODULE HardBudgetProofs ---------------------------
(****************************************************************************)
(* The budget ledger, proved for every number of attempts, requests, scopes *)
(* and rows and for every clock; and, at the end, that it implements the    *)
(* spending authority.                                                      *)
(****************************************************************************)
EXTENDS LedgerAuthority, FiniteSetTheorems, TLAPS

-------------------------------------------------------------------------------
(* Sums of amounts: TotalOver is a natural number, monotone in the          *)
(* summands, additive over disjoint sets and the amount itself over one     *)
(* row.  Together these facts characterise it as the sum.                   *)

(* A finite set of rows has a finite sum: the set under f is a part of the  *)
(* finite product of rows and amounts.                                      *)
LEMMA PointsFinite ==
    ASSUME NEW S, IsFiniteSet(S), NEW f
    PROVE  IsFiniteSet({p \in S \X (1..MaxNanos) : p[2] <= f[p[1]]})
<1>1. IsFiniteSet(1..MaxNanos)
    BY FS_Interval, MaxNanosAssumption
<1>2. IsFiniteSet(S \X (1..MaxNanos))
    BY <1>1, FS_Product
<1> QED
    BY <1>2, FS_Subset

(* The ledger's totals are natural numbers.                                 *)
LEMMA TotalNat ==
    ASSUME NEW S, IsFiniteSet(S), NEW f
    PROVE  TotalOver(f, S) \in Nat
BY PointsFinite, FS_CardinalityType DEF TotalOver

(* No rows, no liability.                                                   *)
LEMMA TotalEmpty ==
    ASSUME NEW f
    PROVE  TotalOver(f, {}) = 0
<1>1. {p \in {} \X (1..MaxNanos) : p[2] <= f[p[1]]} = {}
    OBVIOUS
<1> QED
    BY <1>1, FS_EmptySet DEF TotalOver

(* Lowering rows, or counting fewer of them, never raises the total.        *)
LEMMA TotalMonotone ==
    ASSUME NEW T, IsFiniteSet(T), NEW S \in SUBSET T, NEW f, NEW g,
           \A x \in S : f[x] \in Nat /\ g[x] \in Nat /\ f[x] <= g[x]
    PROVE  TotalOver(f, S) <= TotalOver(g, T)
<1> DEFINE F == {p \in S \X (1..MaxNanos) : p[2] <= f[p[1]]}
           G == {p \in T \X (1..MaxNanos) : p[2] <= g[p[1]]}
<1>1. F \in SUBSET G
    <2> SUFFICES ASSUME NEW p \in F
                 PROVE  p \in G
        OBVIOUS
    <2>1. p \in T \X (1..MaxNanos) /\ p[1] \in S /\ p[2] \in Int
        BY MaxNanosAssumption
    <2>2. p[2] <= g[p[1]]
        BY <2>1
    <2> QED
        BY <2>1, <2>2
<1>2. IsFiniteSet(G)
    BY PointsFinite
<1> HIDE DEF F, G
<1>3. Cardinality(F) <= Cardinality(G)
    BY <1>1, <1>2, FS_Subset
<1> QED
    BY <1>3 DEF TotalOver, F, G

(* The total depends on the rows it counts and on nothing else.             *)
LEMMA TotalSame ==
    ASSUME NEW S, IsFiniteSet(S), NEW f, NEW g,
           \A x \in S : f[x] \in Nat /\ f[x] = g[x]
    PROVE  TotalOver(f, S) = TotalOver(g, S)
<1>1. TotalOver(f, S) <= TotalOver(g, S)
    BY TotalMonotone
<1>2. TotalOver(g, S) <= TotalOver(f, S)
    BY TotalMonotone
<1> QED
    BY <1>1, <1>2, TotalNat

(* A batch of new rows adds its own total to the total of the old ones.     *)
LEMMA TotalDisjoint ==
    ASSUME NEW S, IsFiniteSet(S), NEW T, IsFiniteSet(T), S \cap T = {}, NEW f
    PROVE  TotalOver(f, S \cup T) = TotalOver(f, S) + TotalOver(f, T)
<1> DEFINE P(R) == {p \in R \X (1..MaxNanos) : p[2] <= f[p[1]]}
<1>1. P(S \cup T) = P(S) \cup P(T) /\ P(S) \cap P(T) = {}
    OBVIOUS
<1>2. IsFiniteSet(P(S)) /\ IsFiniteSet(P(T))
    BY PointsFinite
<1>3. Cardinality(P(S)) \in Nat /\ Cardinality(P(T)) \in Nat
    BY <1>2, FS_CardinalityType
<1>4. TotalOver(f, S) = Cardinality(P(S)) /\ TotalOver(f, T) = Cardinality(P(T))
      /\ TotalOver(f, S \cup T) = Cardinality(P(S \cup T))
    BY DEF TotalOver
<1> HIDE DEF P
<1>5. Cardinality(P(S) \cup P(T))
          = Cardinality(P(S)) + Cardinality(P(T)) - Cardinality(P(S) \cap P(T))
    BY <1>2, FS_Union
<1>6. Cardinality(P(S) \cap P(T)) = 0
    BY <1>1, FS_EmptySet
<1>7. Cardinality(P(S \cup T)) = Cardinality(P(S)) + Cardinality(P(T))
    <2>1. Cardinality(P(S \cup T)) = Cardinality(P(S) \cup P(T))
        BY <1>1, Zenon
    <2>2. Cardinality(P(S) \cup P(T)) = Cardinality(P(S)) + Cardinality(P(T)) - 0
        BY <1>5, <1>6
    <2> QED
        BY <2>1, <2>2, <1>3
<1> QED
    BY <1>4, <1>7

(* The total of one row is its amount.                                      *)
LEMMA TotalSingle ==
    ASSUME NEW x, NEW f, f[x] \in Nanos
    PROVE  TotalOver(f, {x}) = f[x]
<1> DEFINE P == {p \in {x} \X (1..MaxNanos) : p[2] <= f[p[1]]}
           h == [i \in 1..f[x] |-> <<x, i>>]
<1>1. h \in Bijection(1..f[x], P)
    <2>1. h \in [1..f[x] -> P]
        BY MaxNanosAssumption DEF Nanos
    <2>2. \A i, j \in 1..f[x] : h[i] = h[j] => i = j
        OBVIOUS
    <2>3. \A p \in P : \E i \in 1..f[x] : h[i] = p
        <3> SUFFICES ASSUME NEW p \in P
                     PROVE  h[p[2]] = p /\ p[2] \in 1..f[x]
            OBVIOUS
        <3> QED
            BY MaxNanosAssumption DEF Nanos
    <2> QED
        BY <2>1, <2>2, <2>3 DEF Bijection, Injection, Surjection, IsInjective
<1>2. IsFiniteSet(1..f[x]) /\ Cardinality(1..f[x]) = f[x]
    <2>1. f[x] \in Nat
        BY MaxNanosAssumption DEF Nanos
    <2>2. IsFiniteSet(1..f[x]) /\ Cardinality(1..f[x]) = IF 1 > f[x] THEN 0 ELSE f[x] - 1 + 1
        BY <2>1, FS_Interval
    <2> QED
        BY <2>1, <2>2
<1>3. Cardinality(P) = Cardinality(1..f[x])
    BY <1>1, <1>2, FS_Bijection DEF ExistsBijection
<1> QED
    BY <1>2, <1>3 DEF TotalOver

(* Rows without an amount add nothing.                                      *)
LEMMA TotalZero ==
    ASSUME NEW S, NEW f, \A x \in S : f[x] = 0
    PROVE  TotalOver(f, S) = 0
<1>1. {p \in S \X (1..MaxNanos) : p[2] <= f[p[1]]} = {}
    BY MaxNanosAssumption
<1> QED
    BY <1>1, FS_EmptySet DEF TotalOver

(* One row that had no amount gets one, and the total grows by it.          *)
LEMMA TotalGrows ==
    ASSUME NEW S, IsFiniteSet(S), NEW x \in S, NEW f, NEW g, f[x] = 0, g[x] \in Nanos,
           \A y \in S \ {x} : f[y] \in Nat /\ f[y] = g[y]
    PROVE  TotalOver(g, S) = TotalOver(f, S) + g[x]
<1> DEFINE R == S \ {x}
<1>1. IsFiniteSet(R) /\ IsFiniteSet({x}) /\ R \cap {x} = {} /\ S = R \cup {x}
    BY FS_Subset, FS_Singleton
<1>2. TotalOver(f, R) = TotalOver(g, R)
    BY <1>1, TotalSame
<1>3. TotalOver(f, {x}) = 0 /\ TotalOver(g, {x}) = g[x] /\ g[x] \in Nat
    BY TotalZero, TotalSingle, MaxNanosAssumption DEF Nanos
<1>4. TotalOver(f, R) \in Nat
    BY <1>1, TotalNat
<1> HIDE DEF R
<1>5. /\ TotalOver(f, S) = TotalOver(f, R) + TotalOver(f, {x})
      /\ TotalOver(g, S) = TotalOver(g, R) + TotalOver(g, {x})
    BY <1>1, TotalDisjoint
<1> QED
    BY <1>2, <1>3, <1>4, <1>5

(* The induction hypothesis: the tables are well typed, a policy comes      *)
(* first, columns agree with states, and every window keeps room for the    *)
(* reservations that may still land in it.                                  *)
Inv == TypeOK /\ LedgerInv /\ CapRespected

-------------------------------------------------------------------------------
(* The steps of the ledger *)

(* The operations of the ledger with any amounts and batches: Next calls    *)
(* them with the ones an instance enumerates, and so do the engine and the  *)
(* evaluation, which charge, write and authorize other amounts.             *)
Admissions ==
    \/ \E new \in SUBSET FreshAttempts :
         \E req \in [new -> FreshRequests], quote \in [new -> Quotes] :
            \/ Reserve(new, req, quote)
            \/ \E s \in Scopes \ DOMAIN scopes, cap \in Nanos :
                  ReserveScoped(new, req, quote, s, cap)
    \/ \E a \in FreshAttempts, r \in DOMAIN requests, quote \in Quotes :
          Retry(a, r, quote)

Outcomes ==
    \E a \in DOMAIN attempts :
        \/ \E fence \in Nat :
              \/ BeginDispatch(a, fence)
              \/ Cancel(a, fence)
              \/ \E charge \in Nanos \cup {Null} : Settle(a, fence, charge)
        \/ \E charge \in Nanos : Reconcile(a, charge)

RowSteps ==
    \/ \E u \in Rows \ DOMAIN usage, cost \in Nat :
          \/ WriteUsage(u, cost)
          \/ \E r \in DOMAIN requests : LinkUsage(r, u, cost)
    \/ \E D \in SUBSET DOMAIN usage : DeleteRows(D)

LedgerStep == Admissions \/ Outcomes \/ RowSteps \/ PolicyStep \/ ClockStep

(* Every step of Next is one of them.                                       *)
LEMMA NextIsLedgerStep == TypeOK /\ Next => LedgerStep
<1> SUFFICES ASSUME TypeOK, Next
             PROVE  LedgerStep
    OBVIOUS
<1>1. /\ Amounts \subseteq Nanos /\ Costs \subseteq Nat /\ Limits \subseteq Nanos
      /\ Batches \subseteq SUBSET FreshAttempts
    BY LedgerAssumption, MaxNanosAssumption DEF Batches, Nanos
<1>2. CASE Admission
    BY <1>1, <1>2 DEF Admission, Admissions, LedgerStep
<1>3. CASE AttemptStep
    <2>1. \A a \in DOMAIN attempts : 0..attempts[a].fence \subseteq Nat
        BY DEF TypeOK, AttemptRows
    <2>2. Outcomes
        BY <1>1, <1>3, <2>1 DEF AttemptStep, Outcomes
    <2> QED
        BY <2>2 DEF LedgerStep
<1>4. CASE UsageStep
    <2>1. ASSUME NEW u \in DOMAIN usage, DeleteUsageRow(u)
          PROVE  RowSteps
        BY <2>1 DEF DeleteUsageRow, RowSteps
    <2>2. ASSUME NEW days \in 1..MaxTime, PurgeUsage(days)
          PROVE  RowSteps
        BY <2>2 DEF PurgeUsage, RowSteps
    <2> QED
        BY <1>1, <1>4, <2>1, <2>2 DEF UsageStep, RowSteps, LedgerStep
<1> QED
    BY <1>2, <1>3, <1>4 DEF Next, LedgerStep

-------------------------------------------------------------------------------
(* What one row counts for *)

(* Every measure of a well-formed row is a natural number.                  *)
LEMMA RowNat ==
    ASSUME NEW row \in AttemptRows, NEW w \in Time, ColumnsAgree(row, w),
           NEW since \in Int
    PROVE  /\ Liability(row, since) \in Nat
           /\ CertifiedLiability(row, since) \in Nat
           /\ SpentWithin(row, since) \in Nat
           /\ MaySpendWithin(row, since, w) \in Nat
BY MaxNanosAssumption, LedgerAssumption
   DEF AttemptRows, ColumnsAgree, Liability, CertifiedLiability, InWindow,
       SpentWithin, MaySpendWithin, Unresolved, Nanos, Time

(* The exposure counts at least what was certified.                         *)
LEMMA CertifiedIsOwed ==
    ASSUME NEW row \in AttemptRows, NEW w \in Time, ColumnsAgree(row, w),
           NEW since \in Int
    PROVE  CertifiedLiability(row, since) <= Liability(row, since)
BY MaxNanosAssumption, LedgerAssumption
   DEF AttemptRows, ColumnsAgree, Liability, CertifiedLiability, InWindow,
       Unresolved, Nanos, Time

(* What may be spent in a window that is still open at a later instant is   *)
(* part of the exposure at that instant.                                    *)
LEMMA WindowIsOwed ==
    ASSUME NEW row \in AttemptRows, NEW w \in Time, ColumnsAgree(row, w),
           NEW t \in Int, NEW now \in Time, w <= now, t + Day >= now
    PROVE  MaySpendWithin(row, t, now) <= Liability(row, now - Day)
BY MaxNanosAssumption, LedgerAssumption
   DEF AttemptRows, ColumnsAgree, Liability, InWindow, MaySpendWithin,
       SpentWithin, Unresolved, Nanos, Time

(* A window never counts more than is spent in it.                          *)
LEMMA SpentMaySpend ==
    ASSUME NEW row \in AttemptRows, NEW w \in Time, ColumnsAgree(row, w),
           NEW t \in Int
    PROVE  SpentWithin(row, t) <= MaySpendWithin(row, t, w)
BY MaxNanosAssumption, LedgerAssumption
   DEF AttemptRows, ColumnsAgree, MaySpendWithin, SpentWithin, Unresolved, Nanos, Time

(* As the watermark advances, liabilities age and windows close.            *)
LEMMA MeasuresAge ==
    ASSUME NEW row \in AttemptRows, NEW w \in Time, ColumnsAgree(row, w),
           NEW v \in Time, w <= v, NEW t \in Int
    PROVE  /\ ColumnsAgree(row, v)
           /\ CertifiedLiability(row, v - Day) <= CertifiedLiability(row, w - Day)
           /\ MaySpendWithin(row, t, v) <= MaySpendWithin(row, t, w)
BY MaxNanosAssumption, LedgerAssumption
   DEF AttemptRows, ColumnsAgree, MaySpendWithin, SpentWithin, CertifiedLiability,
       Unresolved, Nanos, Time

(* A new reservation counts for its bound.                                  *)
LEMMA ReservedRow ==
    ASSUME NEW row \in AttemptRows, row.state = "RESERVED", row.dispatchedAt = Null,
           NEW since \in Int
    PROVE  /\ row.bound \in Nat
           /\ CertifiedLiability(row, since) = row.bound
           /\ \A w \in Time :
                /\ ColumnsAgree(row, w)
                /\ MaySpendWithin(row, since, w) = IF since + Day >= w THEN row.bound ELSE 0
BY MaxNanosAssumption, LedgerAssumption
   DEF AttemptRows, ColumnsAgree, CertifiedLiability, MaySpendWithin, Unresolved,
       Nanos, Time

-------------------------------------------------------------------------------
(* What a step does to the totals *)

(* The tables are finite.                                                   *)
LEMMA TablesFinite ==
    ASSUME TypeOK
    PROVE  IsFiniteSet(DOMAIN attempts) /\ IsFiniteSet(DOMAIN usage)
BY FS_Subset, LedgerAssumption DEF TypeOK

(* A step that inserts no attempt and lowers no row's standing, with the    *)
(* policy's amounts as they were, keeps both caps.                          *)
LEMMA CapsKept ==
    ASSUME Inv, policy \in Policies,
           NEW w \in Time,
           IsFiniteSet(DOMAIN attempts),
           DOMAIN attempts' = DOMAIN attempts,
           policy'.opening = policy.opening, policy'.limit = policy.limit,
           policy'.watermark = w,
           \A a \in DOMAIN attempts :
              /\ attempts'[a] \in AttemptRows
              /\ ColumnsAgree(attempts'[a], w)
              /\ CertifiedLiability(attempts'[a], w - Day)
                   <= CertifiedLiability(attempts[a], policy.watermark - Day)
              /\ \A t \in Time : MaySpendWithin(attempts'[a], t, w)
                                  <= MaySpendWithin(attempts[a], t, policy.watermark)
    PROVE  CapRespected' /\ WindowCovered'
<1> DEFINE D == DOMAIN attempts
           v == policy.watermark
<1>1. /\ v \in Time /\ policy.opening \in Nat /\ policy.limit \in Nat
      /\ v \in Int /\ w \in Int /\ Day \in Int
      /\ \A t \in Time : t \in Int
    BY LedgerAssumption, MaxNanosAssumption DEF Policies, Nanos, Time
<1>2. \A a \in D : attempts[a] \in AttemptRows /\ ColumnsAgree(attempts[a], v)
    BY DEF Inv, TypeOK, LedgerInv
<1>3. CapRespected'
    <2> DEFINE f == [a \in D |-> CertifiedLiability(attempts[a], v - Day)]
               g == [a \in D |-> CertifiedLiability(attempts'[a], w - Day)]
    <2>1. \A a \in D : g[a] \in Nat /\ f[a] \in Nat /\ g[a] <= f[a]
        BY <1>1, <1>2, RowNat
    <2>2. TotalOver(g, D) <= TotalOver(f, D)
        BY <2>1, TotalMonotone
    <2>3. TotalOver(g, D) \in Nat /\ TotalOver(f, D) \in Nat
        BY TotalNat
    <2>4. D # {} => policy.opening + TotalOver(f, D) <= policy.limit
        BY DEF Inv, CapRespected, CertifiedExposure
    <2>5. D # {} => policy.opening + TotalOver(g, D) <= policy.limit
        BY <1>1, <2>2, <2>3, <2>4
    <2> QED
        BY <2>5 DEF CapRespected, CertifiedExposure
<1>4. WindowCovered'
    <2> SUFFICES ASSUME NEW t \in Time, D # {}
                 PROVE  policy.opening
                          + TotalOver([a \in D |-> MaySpendWithin(attempts'[a], t, w)], D)
                            <= policy.limit
        BY DEF WindowCovered
    <2> DEFINE f == [a \in D |-> MaySpendWithin(attempts[a], t, v)]
               g == [a \in D |-> MaySpendWithin(attempts'[a], t, w)]
    <2>1. \A a \in D : g[a] \in Nat /\ f[a] \in Nat /\ g[a] <= f[a]
        BY <1>1, <1>2, RowNat
    <2>2. TotalOver(g, D) <= TotalOver(f, D)
        BY <2>1, TotalMonotone
    <2>3. TotalOver(g, D) \in Nat /\ TotalOver(f, D) \in Nat
        BY TotalNat
    <2>4. policy.opening + TotalOver(f, D) <= policy.limit
        BY DEF Inv, LedgerInv, WindowCovered
    <2> QED
        BY <1>1, <2>2, <2>3, <2>4
<1> QED
    BY <1>3, <1>4

(* A reservation that passes the checks of reserve_many keeps both caps:    *)
(* the trailing day, which the exposure covers, is the only window that the *)
(* new rows can still land in.                                              *)
LEMMA AdmissionKeepsCaps ==
    ASSUME Inv, NEW new \in SUBSET FreshAttempts,
           NEW req \in [new -> Requests], NEW quote \in [new -> Quotes],
           Admitted(new, quote), AdvanceWatermark, InsertReserved(new, req, quote)
    PROVE  /\ policy \in Policies /\ policy' \in Policies
           /\ DOMAIN attempts' = DOMAIN attempts \cup new
           /\ attempts' \in [DOMAIN attempts' -> AttemptRows]
           /\ \A a \in new : attempts'[a].request = req[a]
           /\ \A a \in DOMAIN attempts : attempts'[a] = attempts[a]
           /\ \A a \in DOMAIN attempts' : ColumnsAgree(attempts'[a], policy'.watermark)
           /\ CapRespected' /\ WindowCovered'
<1> DEFINE D == DOMAIN attempts
           v == policy.watermark
           since == clock - Day
           owed == [a \in D |-> Liability(attempts[a], since)]
           asked == [a \in new |-> quote[a].bound]
<1>1. /\ policy \in Policies /\ clock \in Time /\ v \in Time /\ v <= clock
      /\ policy.opening \in Nat /\ policy.limit \in Nat
      /\ clock \in Int /\ v \in Int /\ since \in Int /\ Day \in Int
      /\ \A t \in Time : t \in Int
    BY LedgerAssumption, MaxNanosAssumption
       DEF Inv, TypeOK, Admitted, PolicyOpen, Policies, Nanos, Time
<1>2. /\ policy' \in Policies /\ policy'.watermark = clock
      /\ policy'.opening = policy.opening /\ policy'.limit = policy.limit
    BY <1>1 DEF AdvanceWatermark, Policies
<1>3. /\ IsFiniteSet(D) /\ IsFiniteSet(new) /\ D \cap new = {}
      /\ new \subseteq Attempts
    BY TablesFinite, LedgerAssumption, FS_Subset DEF Inv, FreshAttempts
<1>4. DOMAIN attempts' = D \cup new
    BY DEF InsertReserved
<1>5. \A a \in D : attempts'[a] = attempts[a]
    BY <1>3 DEF InsertReserved
<1>6. ASSUME NEW a \in new
      PROVE  /\ attempts'[a] \in AttemptRows
             /\ attempts'[a].state = "RESERVED" /\ attempts'[a].dispatchedAt = Null
             /\ attempts'[a].request = req[a]
             /\ attempts'[a].bound = quote[a].bound
    <2>1. /\ quote[a] \in Quotes /\ quote[a].bound \in Nanos /\ quote[a].expires \in Nat
          /\ req[a] \in Requests
        BY LedgerAssumption DEF Quotes
    <2>2. attempts'[a] = [state |-> "RESERVED", request |-> req[a],
                         bound |-> quote[a].bound, charge |-> Null,
                         dispatchedAt |-> Null, expires |-> quote[a].expires,
                         fence |-> 0]
        BY DEF InsertReserved
    <2> QED
        BY <2>1, <2>2 DEF AttemptRows, Unresolved
<1>7. \A a \in D : attempts[a] \in AttemptRows /\ ColumnsAgree(attempts[a], v)
    BY DEF Inv, TypeOK, LedgerInv
<1>8. \A a \in new : /\ attempts'[a] \in AttemptRows /\ attempts'[a].request = req[a]
                      /\ ColumnsAgree(attempts'[a], clock)
    BY <1>1, <1>6, ReservedRow
<1>9. \A a \in D : ColumnsAgree(attempts'[a], clock)
    BY <1>1, <1>5, <1>7, MeasuresAge
<1>10. attempts' \in [DOMAIN attempts' -> AttemptRows]
    BY <1>4, <1>5, <1>7, <1>8 DEF InsertReserved
<1>11. policy.opening + TotalOver(owed, D) + TotalOver(asked, new) <= policy.limit
    <2>1. IsFiniteSet(DOMAIN usage \ Linked)
        BY TablesFinite, FS_Difference DEF Inv
    <2>2. UsageExposure(since) \in Nat
        BY <2>1, TotalNat DEF UsageExposure
    <2>3. TotalOver(owed, D) \in Nat /\ TotalOver(asked, new) \in Nat
        BY <1>3, TotalNat
    <2>4. policy.opening + TotalOver(owed, D) + UsageExposure(since)
            + TotalOver(asked, new) <= policy.limit
        BY DEF Admitted, FitsDailyCap, Exposure, AttemptExposure, Requested
    <2> QED
        BY <1>1, <2>2, <2>3, <2>4
<1>12. ASSUME NEW m, \A a \in D : m[a] \in Nat /\ m[a] <= owed[a],
              \A a \in new : m[a] \in Nat /\ m[a] <= asked[a]
       PROVE  policy.opening + TotalOver(m, D \cup new) <= policy.limit
    <2>1. \A a \in D : owed[a] \in Nat
        BY <1>1, <1>7, RowNat
    <2>2. \A a \in new : asked[a] \in Nat
        BY <1>1, <1>6, ReservedRow
    <2>3. TotalOver(m, D) <= TotalOver(owed, D)
        BY <1>3, <1>12, <2>1, TotalMonotone
    <2>4. TotalOver(m, new) <= TotalOver(asked, new)
        BY <1>3, <1>12, <2>2, TotalMonotone
    <2>5. TotalOver(m, D \cup new) = TotalOver(m, D) + TotalOver(m, new)
        BY <1>3, TotalDisjoint
    <2>6. /\ TotalOver(m, D) \in Nat /\ TotalOver(m, new) \in Nat
          /\ TotalOver(owed, D) \in Nat /\ TotalOver(asked, new) \in Nat
        BY <1>3, TotalNat
    <2> QED
        BY <1>1, <1>11, <2>3, <2>4, <2>5, <2>6
<1>13. CapRespected'
    <2> DEFINE m == [a \in D \cup new |-> CertifiedLiability(attempts'[a], since)]
    <2>1. \A a \in D : m[a] \in Nat /\ m[a] <= owed[a]
        BY <1>1, <1>5, <1>7, RowNat, CertifiedIsOwed
    <2>2. \A a \in new : m[a] \in Nat /\ m[a] <= asked[a]
        <3> SUFFICES ASSUME NEW a \in new
                     PROVE  m[a] \in Nat /\ m[a] <= asked[a]
            OBVIOUS
        <3>1. /\ m[a] = CertifiedLiability(attempts'[a], since)
              /\ attempts'[a].bound = asked[a]
            BY <1>6
        <3> QED
            BY <1>1, <1>6, <3>1, ReservedRow
    <2>3. policy.opening + TotalOver(m, D \cup new) <= policy.limit
        BY <1>12, <2>1, <2>2
    <2> QED
        BY <1>2, <1>4, <2>3 DEF CapRespected, CertifiedExposure
<1>14. WindowCovered'
    <2> SUFFICES ASSUME NEW t \in Time
                 PROVE  policy.opening
                          + TotalOver([a \in D \cup new |-> MaySpendWithin(attempts'[a], t, clock)],
                                      D \cup new) <= policy.limit
        BY <1>2, <1>4 DEF WindowCovered
    <2> DEFINE m == [a \in D \cup new |-> MaySpendWithin(attempts'[a], t, clock)]
    <2>1. CASE t + Day >= clock
        <3>1. \A a \in D : m[a] \in Nat /\ m[a] <= owed[a]
            BY <1>1, <1>5, <1>7, <1>9, <2>1, RowNat, WindowIsOwed
        <3>2. \A a \in new : m[a] \in Nat /\ m[a] <= asked[a]
            <4> SUFFICES ASSUME NEW a \in new
                         PROVE  m[a] \in Nat /\ m[a] <= asked[a]
                OBVIOUS
            <4>1. /\ m[a] = MaySpendWithin(attempts'[a], t, clock)
                  /\ attempts'[a].bound = asked[a]
                BY <1>6
            <4>2. /\ attempts'[a].bound \in Nat
                  /\ MaySpendWithin(attempts'[a], t, clock)
                        = IF t + Day >= clock THEN attempts'[a].bound ELSE 0
                BY <1>1, <1>6, ReservedRow
            <4> QED
                BY <2>1, <4>1, <4>2
        <3> QED
            BY <1>12, <3>1, <3>2
    <2>2. CASE ~(t + Day >= clock)
        <3> DEFINE f == [a \in D |-> MaySpendWithin(attempts[a], t, v)]
        <3>1. \A a \in D : m[a] \in Nat /\ f[a] \in Nat /\ m[a] <= f[a]
            BY <1>1, <1>5, <1>7, <1>9, RowNat, MeasuresAge
        <3>2. \A a \in new : m[a] = 0
            BY <1>1, <1>6, <2>2, ReservedRow
        <3>3. TotalOver(m, D) <= TotalOver(f, D)
            BY <1>3, <3>1, TotalMonotone
        <3>4. TotalOver(m, new) = 0
            <4>1. {p \in new \X (1..MaxNanos) : p[2] <= m[p[1]]} = {}
                <5> SUFFICES ASSUME NEW x \in new, NEW n \in 1..MaxNanos
                             PROVE  ~(n <= m[x])
                    OBVIOUS
                <5> QED
                    BY <3>2, MaxNanosAssumption
            <4> QED
                BY <4>1, FS_EmptySet DEF TotalOver
        <3>5. TotalOver(m, D \cup new) = TotalOver(m, D) + TotalOver(m, new)
            BY <1>3, TotalDisjoint
        <3>6. policy.opening + TotalOver(f, D) <= policy.limit
            <4>1. CASE D # {}
                BY <4>1 DEF Inv, LedgerInv, WindowCovered
            <4>2. CASE D = {}
                <5>1. TotalOver(f, D) = 0
                    BY <4>2, TotalEmpty
                <5>2. TotalOver(owed, D) \in Nat /\ TotalOver(asked, new) \in Nat
                    BY <1>3, TotalNat
                <5> QED
                    BY <1>1, <1>11, <5>1, <5>2
            <4> QED
                BY <4>1, <4>2
        <3>7. TotalOver(m, D) \in Nat /\ TotalOver(f, D) \in Nat
            BY <1>3, TotalNat
        <3> QED
            BY <1>1, <3>3, <3>4, <3>5, <3>6, <3>7
    <2> QED
        BY <2>1, <2>2
<1> QED
    BY <1>1, <1>2, <1>4, <1>5, <1>8, <1>9, <1>10, <1>13, <1>14

-------------------------------------------------------------------------------
(* Every operation keeps the invariant *)

(* With an attempt there is a policy, and the policy is a policy row.       *)
LEMMA PolicyThere ==
    ASSUME Inv, DOMAIN attempts # {}
    PROVE  policy \in Policies /\ policy.watermark \in Time
BY DEF Inv, TypeOK, LedgerInv, PolicyFirst, Policies

(* A row with another state, charge or dispatch date, and the next fence,   *)
(* is a row.                                                                *)
LEMMA RowUpdate ==
    ASSUME NEW x \in AttemptRows,
           NEW s \in Unresolved \cup {"SETTLED", "CANCELLED", "BREACH"},
           NEW c \in Nanos \cup {Null}, NEW d \in Time \cup {Null}
    PROVE  /\ [x EXCEPT !.state = s, !.fence = @ + 1] \in AttemptRows
           /\ [x EXCEPT !.state = s, !.fence = @ + 1, !.dispatchedAt = d] \in AttemptRows
           /\ [x EXCEPT !.state = s, !.charge = c, !.fence = @ + 1] \in AttemptRows
<1> DEFINE y == [x EXCEPT !.state = s]
           z == [y EXCEPT !.charge = c]
           u == [y EXCEPT !.fence = @ + 1]
<1>1. y \in AttemptRows
    BY DEF AttemptRows
<1>2. /\ [x EXCEPT !.state = s, !.fence = @ + 1] = u
      /\ [x EXCEPT !.state = s, !.fence = @ + 1, !.dispatchedAt = d]
             = [u EXCEPT !.dispatchedAt = d]
      /\ [x EXCEPT !.state = s, !.charge = c, !.fence = @ + 1] = [z EXCEPT !.fence = @ + 1]
    BY Zenon
<1> HIDE DEF y
<1>3. u \in AttemptRows /\ z \in AttemptRows
    BY <1>1 DEF AttemptRows
<1> HIDE DEF u, z
<1>4. [u EXCEPT !.dispatchedAt = d] \in AttemptRows /\ [z EXCEPT !.fence = @ + 1] \in AttemptRows
    BY <1>3 DEF AttemptRows
<1> QED
    BY <1>2, <1>3, <1>4

(* Steps that leave attempts alone, and of the policy at most the freeze.   *)
LEMMA QuietKeepsInv ==
    ASSUME Inv, TypeOK', PolicyFirst', attempts' = attempts,
           policy \in Policies => /\ policy'.opening = policy.opening
                                  /\ policy'.limit = policy.limit
                                  /\ policy'.watermark = policy.watermark
    PROVE  Inv'
<1>1. CASE DOMAIN attempts = {}
    BY <1>1 DEF Inv, LedgerInv, CapRespected, WindowCovered
<1>2. CASE DOMAIN attempts # {}
    <2>1. policy \in Policies /\ policy.watermark \in Time
        BY <1>2, PolicyThere
    <2>2. \A a \in DOMAIN attempts :
             /\ attempts[a] \in AttemptRows
             /\ ColumnsAgree(attempts[a], policy.watermark)
        BY DEF Inv, TypeOK, LedgerInv
    <2>3. /\ policy.watermark \in Int /\ policy.watermark <= policy.watermark
          /\ \A t \in Time : t \in Int
        BY <2>1 DEF Time
    <2>4. \A a \in DOMAIN attempts :
             /\ CertifiedLiability(attempts[a], policy.watermark - Day)
                  <= CertifiedLiability(attempts[a], policy.watermark - Day)
             /\ \A t \in Time : MaySpendWithin(attempts[a], t, policy.watermark)
                                 <= MaySpendWithin(attempts[a], t, policy.watermark)
        BY <2>1, <2>2, <2>3, MeasuresAge
    <2>5. IsFiniteSet(DOMAIN attempts)
        BY TablesFinite DEF Inv
    <2>6. CapRespected' /\ WindowCovered'
        BY <2>1, <2>2, <2>4, <2>5, CapsKept
    <2>7. \A a \in DOMAIN attempts' : ColumnsAgree(attempts'[a], policy'.watermark)
        BY <2>1, <2>2
    <2> QED
        BY <2>6, <2>7 DEF Inv, LedgerInv
<1> QED
    BY <1>1, <1>2

(* One row moves on, its standing not raised, the others stay.              *)
LEMMA RowStepKeepsInv ==
    ASSUME Inv, policy \in Policies, NEW a \in DOMAIN attempts, NEW row \in AttemptRows,
           attempts' = [attempts EXCEPT ![a] = row],
           row.request = attempts[a].request,
           policy' \in Policies, policy'.opening = policy.opening,
           policy'.limit = policy.limit, policy'.watermark >= policy.watermark,
           ColumnsAgree(row, policy'.watermark),
           CertifiedLiability(row, policy'.watermark - Day)
               <= CertifiedLiability(attempts[a], policy.watermark - Day),
           \A t \in Time : MaySpendWithin(row, t, policy'.watermark)
                              <= MaySpendWithin(attempts[a], t, policy.watermark),
           UNCHANGED <<clock, requests, scopes, usage>>
    PROVE  Inv'
<1>1. TypeOK'
    BY DEF Inv, TypeOK
<1>2. PolicyFirst'
    BY LedgerAssumption DEF PolicyFirst, Policies, Nanos, Time
<1>3. /\ policy.watermark \in Time /\ policy'.watermark \in Time
      /\ policy.watermark <= policy'.watermark /\ \A t \in Time : t \in Int
    BY DEF Policies, Time
<1>4. \A b \in DOMAIN attempts :
         /\ attempts[b] \in AttemptRows
         /\ ColumnsAgree(attempts[b], policy.watermark)
    BY DEF Inv, TypeOK, LedgerInv
<1>5. ASSUME NEW b \in DOMAIN attempts
      PROVE  /\ attempts'[b] \in AttemptRows
             /\ ColumnsAgree(attempts'[b], policy'.watermark)
             /\ CertifiedLiability(attempts'[b], policy'.watermark - Day)
                  <= CertifiedLiability(attempts[b], policy.watermark - Day)
             /\ \A t \in Time : MaySpendWithin(attempts'[b], t, policy'.watermark)
                                 <= MaySpendWithin(attempts[b], t, policy.watermark)
    <2>1. CASE b = a
        BY <2>1
    <2>2. CASE b # a
        <3>1. attempts'[b] = attempts[b]
            BY <2>2
        <3> QED
            BY <1>3, <1>4, <3>1, MeasuresAge
    <2> QED
        BY <2>1, <2>2
<1>6. DOMAIN attempts' = DOMAIN attempts /\ IsFiniteSet(DOMAIN attempts)
    BY TablesFinite DEF Inv
<1>7. CapRespected' /\ WindowCovered'
    BY <1>3, <1>5, <1>6, CapsKept
<1> QED
    BY <1>1, <1>2, <1>5, <1>6, <1>7 DEF Inv, LedgerInv

(* Admissions of new requests, in a new scope or in none.                    *)
LEMMA ReserveKeepsInv ==
    ASSUME Inv, NEW new \in SUBSET FreshAttempts, NEW req \in [new -> FreshRequests],
           NEW quote \in [new -> Quotes], NEW s \in Scopes \cup {Null},
           Admitted(new, quote), AdvanceWatermark, InsertReserved(new, req, quote),
           InsertRequests(new, req, s), s # Null => s \in DOMAIN scopes',
           DOMAIN scopes \subseteq DOMAIN scopes', DOMAIN scopes' \subseteq Scopes,
           scopes' \in [DOMAIN scopes' -> Nanos], UNCHANGED <<clock, usage>>
    PROVE  Inv'
<1>1. req \in [new -> Requests]
    BY DEF FreshRequests
<1>2. /\ policy' \in Policies
      /\ DOMAIN attempts' = DOMAIN attempts \cup new
      /\ attempts' \in [DOMAIN attempts' -> AttemptRows]
      /\ \A a \in new : attempts'[a].request = req[a]
      /\ \A a \in DOMAIN attempts : attempts'[a] = attempts[a]
      /\ \A a \in DOMAIN attempts' : ColumnsAgree(attempts'[a], policy'.watermark)
      /\ CapRespected' /\ WindowCovered'
    BY <1>1, AdmissionKeepsCaps
<1>3. /\ DOMAIN requests' = DOMAIN requests \cup {req[a] : a \in new}
      /\ \A r \in DOMAIN requests' \ DOMAIN requests :
            requests'[r] = [scope |-> s, row |-> Null]
      /\ \A r \in DOMAIN requests : requests'[r] = requests[r]
    BY DEF InsertRequests
<1>4. requests' \in [DOMAIN requests' -> RequestRows] /\ DOMAIN requests' \subseteq Requests
    <2>1. requests' = [r \in DOMAIN requests' |-> requests'[r]]
        BY DEF InsertRequests
    <2>2. \A r \in DOMAIN requests' : requests'[r] \in RequestRows
        BY <1>3 DEF Inv, TypeOK, RequestRows
    <2> QED
        BY <1>1, <1>3, <2>1, <2>2 DEF Inv, TypeOK
<1>5. DOMAIN attempts' \subseteq Attempts
    BY <1>2 DEF Inv, TypeOK, FreshAttempts
<1>6. \A a \in DOMAIN attempts' : attempts'[a].request \in DOMAIN requests'
    BY <1>2, <1>3 DEF Inv, TypeOK
<1>7. \A r \in DOMAIN requests' :
         requests'[r].scope # Null => requests'[r].scope \in DOMAIN scopes'
    BY <1>3 DEF Inv, TypeOK
<1>8. TypeOK'
    BY <1>2, <1>4, <1>5, <1>6, <1>7 DEF Inv, TypeOK
<1>9. PolicyFirst'
    BY <1>2, LedgerAssumption DEF PolicyFirst, Policies, Nanos, Time
<1> QED
    BY <1>2, <1>8, <1>9 DEF Inv, LedgerInv

(* One more attempt of a request that is already there.                     *)
LEMMA RetryKeepsInv ==
    ASSUME Inv, NEW a \in FreshAttempts, NEW r \in DOMAIN requests, NEW quote \in Quotes,
           Retry(a, r, quote)
    PROVE  Inv'
<1> DEFINE new == {a}
           q == [b \in new |-> quote]
           req == [b \in new |-> r]
<1>1. /\ new \in SUBSET FreshAttempts /\ req \in [new -> Requests] /\ q \in [new -> Quotes]
    BY DEF Inv, TypeOK
<1>2. /\ Admitted(new, q) /\ AdvanceWatermark /\ InsertReserved(new, req, q)
      /\ UNCHANGED <<clock, requests, scopes, usage>>
    BY DEF Retry
<1> HIDE DEF q, req
<1>3. /\ policy' \in Policies
      /\ DOMAIN attempts' = DOMAIN attempts \cup new
      /\ attempts' \in [DOMAIN attempts' -> AttemptRows]
      /\ \A b \in new : attempts'[b].request = req[b]
      /\ \A b \in DOMAIN attempts : attempts'[b] = attempts[b]
      /\ \A b \in DOMAIN attempts' : ColumnsAgree(attempts'[b], policy'.watermark)
      /\ CapRespected' /\ WindowCovered'
    BY <1>1, <1>2, AdmissionKeepsCaps
<1>4. \A b \in DOMAIN attempts' : attempts'[b].request \in DOMAIN requests
    BY <1>3 DEF Inv, TypeOK, req
<1>5. TypeOK'
    BY <1>2, <1>3, <1>4 DEF Inv, TypeOK, FreshAttempts
<1>6. PolicyFirst'
    BY <1>3, LedgerAssumption DEF PolicyFirst, Policies, Nanos, Time
<1> QED
    BY <1>3, <1>5, <1>6 DEF Inv, LedgerInv

(* A dispatch dates the attempt at the new watermark, inside every window   *)
(* its reservation was counted in that this instant belongs to.             *)
LEMMA BeginDispatchKeepsInv ==
    ASSUME Inv, NEW a \in DOMAIN attempts, NEW fence, BeginDispatch(a, fence)
    PROVE  Inv'
<1> DEFINE row == [attempts[a] EXCEPT !.state = "DISPATCHING", !.fence = @ + 1,
                                      !.dispatchedAt = clock]
<1>1. /\ policy \in Policies /\ policy.watermark \in Time /\ clock \in Time
      /\ clock >= policy.watermark /\ attempts[a].state = "RESERVED"
      /\ attempts[a] \in AttemptRows /\ ColumnsAgree(attempts[a], policy.watermark)
    BY PolicyThere DEF BeginDispatch, PolicyOpen, Inv, TypeOK, LedgerInv
<1>2. /\ policy' \in Policies /\ policy'.watermark = clock
      /\ policy'.opening = policy.opening /\ policy'.limit = policy.limit
    BY <1>1 DEF BeginDispatch, AdvanceWatermark, Policies
<1>3. attempts' = [attempts EXCEPT ![a] = row]
    BY <1>1 DEF BeginDispatch, Inv, TypeOK, AttemptRows
<1>4. /\ row \in AttemptRows /\ row.request = attempts[a].request
      /\ row.state = "DISPATCHING" /\ row.bound = attempts[a].bound
      /\ row.dispatchedAt = clock
    <2>1. /\ row.request = attempts[a].request /\ row.state = "DISPATCHING"
          /\ row.bound = attempts[a].bound /\ row.dispatchedAt = clock
        BY <1>1 DEF AttemptRows
    <2>2. row \in AttemptRows
        BY <1>1, RowUpdate DEF Unresolved
    <2> QED
        BY <2>1, <2>2
<1>5. ColumnsAgree(row, clock)
    BY <1>1, <1>4 DEF ColumnsAgree, Time
<1>6. CertifiedLiability(row, clock - Day)
          <= CertifiedLiability(attempts[a], policy.watermark - Day)
    BY <1>1, <1>4, MaxNanosAssumption DEF CertifiedLiability, AttemptRows, Nanos
<1>7. \A t \in Time : MaySpendWithin(row, t, clock)
                         <= MaySpendWithin(attempts[a], t, policy.watermark)
    BY <1>1, <1>4, MaxNanosAssumption, LedgerAssumption
       DEF MaySpendWithin, SpentWithin, AttemptRows, Nanos, Time
<1>8. UNCHANGED <<clock, requests, scopes, usage>>
    BY DEF BeginDispatch
<1> HIDE DEF row
<1> QED
    BY <1>1, <1>2, <1>3, <1>4, <1>5, <1>6, <1>7, <1>8, RowStepKeepsInv

(* A cancelled reservation counts for nothing.                              *)
LEMMA CancelKeepsInv ==
    ASSUME Inv, NEW a \in DOMAIN attempts, NEW fence, Cancel(a, fence)
    PROVE  Inv'
<1> DEFINE row == [attempts[a] EXCEPT !.state = "CANCELLED", !.fence = @ + 1]
<1>1. /\ policy \in Policies /\ policy.watermark \in Time
      /\ attempts[a].state = "RESERVED" /\ policy' = policy
      /\ attempts[a] \in AttemptRows /\ ColumnsAgree(attempts[a], policy.watermark)
    BY PolicyThere DEF Cancel, Inv, TypeOK, LedgerInv
<1>2. attempts' = [attempts EXCEPT ![a] = row]
    BY <1>1 DEF Cancel, Inv, TypeOK, AttemptRows
<1>3. /\ row \in AttemptRows /\ row.request = attempts[a].request
      /\ row.state = "CANCELLED" /\ row.bound = attempts[a].bound
      /\ row.dispatchedAt = Null
    <2>1. /\ row.request = attempts[a].request /\ row.state = "CANCELLED"
          /\ row.bound = attempts[a].bound /\ row.dispatchedAt = Null
        BY <1>1 DEF AttemptRows, ColumnsAgree
    <2>2. row \in AttemptRows
        BY <1>1, RowUpdate
    <2> QED
        BY <2>1, <2>2
<1>4. ColumnsAgree(row, policy.watermark)
    BY <1>3 DEF ColumnsAgree
<1>5. CertifiedLiability(row, policy.watermark - Day)
          <= CertifiedLiability(attempts[a], policy.watermark - Day)
    BY <1>1, <1>3, MaxNanosAssumption DEF CertifiedLiability, AttemptRows, Nanos
<1>6. \A t \in Time : MaySpendWithin(row, t, policy.watermark)
                         <= MaySpendWithin(attempts[a], t, policy.watermark)
    BY <1>1, <1>3, MaxNanosAssumption, LedgerAssumption
       DEF MaySpendWithin, SpentWithin, AttemptRows, Nanos, Time
<1>7. policy.watermark >= policy.watermark
    BY <1>1 DEF Time
<1>8. UNCHANGED <<clock, requests, scopes, usage>>
    BY DEF Cancel
<1> HIDE DEF row
<1> QED
    BY <1>1, <1>2, <1>3, <1>4, <1>5, <1>6, <1>7, <1>8, RowStepKeepsInv

(* A terminal outcome: a charge within the bound replaces it, an unknown    *)
(* charge and a breach keep it.                                             *)
LEMMA TerminalKeepsInv ==
    ASSUME Inv, NEW a \in DOMAIN attempts, NEW charge \in Nanos \cup {Null},
           attempts[a].state \in {"DISPATCHING", "UNCERTAIN"}, Terminal(a, charge)
    PROVE  Inv'
<1> DEFINE state == IF charge = Null THEN "UNCERTAIN"
                    ELSE IF ExceedsBound(a, charge) THEN "BREACH" ELSE "SETTLED"
           row == [attempts[a] EXCEPT !.state = state, !.charge = charge, !.fence = @ + 1]
<1>1. /\ policy \in Policies /\ policy.watermark \in Time
      /\ attempts[a] \in AttemptRows /\ ColumnsAgree(attempts[a], policy.watermark)
      /\ attempts[a].dispatchedAt \in 0..policy.watermark
    BY PolicyThere DEF Inv, TypeOK, LedgerInv, ColumnsAgree
<1>2. /\ policy' \in Policies /\ policy'.watermark = policy.watermark
      /\ policy'.opening = policy.opening /\ policy'.limit = policy.limit
    BY <1>1 DEF Terminal, FreezeForBreach, Policies
<1>3. attempts' = [attempts EXCEPT ![a] = row]
    BY <1>1 DEF Terminal, Inv, TypeOK, AttemptRows
<1>4. /\ row \in AttemptRows /\ row.request = attempts[a].request
      /\ row.state = state /\ row.bound = attempts[a].bound /\ row.charge = charge
      /\ row.dispatchedAt = attempts[a].dispatchedAt
    <2>1. state \in {"UNCERTAIN", "BREACH", "SETTLED"}
        OBVIOUS
    <2> HIDE DEF state
    <2>2. /\ row.request = attempts[a].request /\ row.state = state
          /\ row.bound = attempts[a].bound /\ row.charge = charge
          /\ row.dispatchedAt = attempts[a].dispatchedAt
        BY <1>1 DEF AttemptRows
    <2>3. row \in AttemptRows
        BY <1>1, <2>1, RowUpdate DEF Unresolved
    <2> QED
        BY <2>2, <2>3
<1>5. /\ attempts[a].bound \in Nat
      /\ state = "UNCERTAIN" \/ (state = "BREACH" /\ charge \in Nanos /\ charge > row.bound)
         \/ (state = "SETTLED" /\ charge \in 0..row.bound)
    BY <1>1, <1>4, MaxNanosAssumption, LedgerAssumption
       DEF ExceedsBound, AttemptRows, Nanos
<1> HIDE DEF row, state
<1>6. ColumnsAgree(row, policy.watermark)
    BY <1>1, <1>4, <1>5 DEF ColumnsAgree
<1>7. CertifiedLiability(row, policy.watermark - Day)
          <= CertifiedLiability(attempts[a], policy.watermark - Day)
    BY <1>1, <1>4, <1>5 DEF CertifiedLiability, Time
<1>8. \A t \in Time : MaySpendWithin(row, t, policy.watermark)
                         <= MaySpendWithin(attempts[a], t, policy.watermark)
    BY <1>1, <1>4, <1>5, LedgerAssumption DEF MaySpendWithin, SpentWithin, Time
<1>9. policy.watermark >= policy.watermark
    BY <1>1 DEF Time
<1>10. UNCHANGED <<clock, requests, scopes, usage>>
    BY DEF Terminal
<1> QED
    BY <1>1, <1>2, <1>3, <1>4, <1>6, <1>7, <1>8, <1>9, <1>10, RowStepKeepsInv

(* The usage table, the clock and the freeze are outside the accounts.      *)
LEMMA OtherStepsKeepInv ==
    ASSUME Inv,
           \/ RowSteps
           \/ PolicyStep
           \/ ClockStep
           \/ UNCHANGED vars
    PROVE  Inv'
<1>1. TypeOK /\ PolicyFirst
    BY DEF Inv, LedgerInv
<1>2. CASE \E u \in Rows \ DOMAIN usage, cost \in Nat :
              \/ WriteUsage(u, cost)
              \/ \E r \in DOMAIN requests : LinkUsage(r, u, cost)
    <2>1. PICK u \in Rows \ DOMAIN usage, cost \in Nat :
              \/ WriteUsage(u, cost)
              \/ \E r \in DOMAIN requests : LinkUsage(r, u, cost)
        BY <1>2
    <2>2. [at |-> clock, cost |-> cost] \in UsageRows
        BY <1>1, LedgerAssumption DEF TypeOK, UsageRows
    <2>3. DOMAIN usage' \subseteq Rows /\ usage' \in [DOMAIN usage' -> UsageRows]
        BY <1>1, <2>1, <2>2 DEF TypeOK, WriteUsage, LinkUsage
    <2>4. /\ DOMAIN requests' = DOMAIN requests
          /\ requests' \in [DOMAIN requests -> RequestRows]
          /\ \A r \in DOMAIN requests : requests'[r].scope = requests[r].scope
        <3>1. CASE WriteUsage(u, cost)
            BY <1>1, <3>1 DEF TypeOK, WriteUsage
        <3>2. ASSUME NEW r \in DOMAIN requests, LinkUsage(r, u, cost)
              PROVE  <2>4!:
            BY <1>1, <3>2 DEF TypeOK, LinkUsage, RequestRows
        <3> QED
            BY <2>1, <3>1, <3>2
    <2>5. UNCHANGED <<clock, policy, attempts, scopes>>
        BY <2>1 DEF WriteUsage, LinkUsage
    <2>6. TypeOK' /\ PolicyFirst'
        BY <1>1, <2>3, <2>4, <2>5 DEF TypeOK, PolicyFirst
    <2> QED
        BY <2>5, <2>6, QuietKeepsInv
<1>3. CASE \E D \in SUBSET DOMAIN usage : DeleteRows(D)
    <2>1. PICK D : DeleteRows(D)
        BY <1>3
    <2>2. UNCHANGED <<clock, policy, attempts, requests, scopes>>
        BY <2>1 DEF DeleteRows
    <2>3. DOMAIN usage' \subseteq Rows /\ usage' \in [DOMAIN usage' -> UsageRows]
        BY <1>1, <2>1 DEF DeleteRows, TypeOK
    <2>4. TypeOK' /\ PolicyFirst'
        BY <1>1, <2>2, <2>3 DEF TypeOK, PolicyFirst
    <2> QED
        BY <2>2, <2>4, QuietKeepsInv
<1>4. CASE PolicyStep
    <2>1. UNCHANGED <<clock, attempts, requests, scopes, usage>>
        BY <1>4 DEF PolicyStep, InitializePolicy, DetectBackwardClock, Freeze
    <2>2. /\ policy' \in Policies
          /\ policy \in Policies => /\ policy'.opening = policy.opening
                                    /\ policy'.limit = policy.limit
                                    /\ policy'.watermark = policy.watermark
        <3>1. ASSUME NEW limit \in Limits, NEW opening \in Openings,
                     InitializePolicy(limit, opening)
              PROVE  <2>2!:
            BY <1>1, <3>1, LedgerAssumption
               DEF InitializePolicy, Policies, TypeOK, Nanos, Time
        <3>2. CASE DetectBackwardClock \/ Freeze
            <4>1. policy \in Policies
                BY <1>1, <3>2 DEF TypeOK, DetectBackwardClock, Freeze
            <4> QED
                BY <3>2, <4>1 DEF DetectBackwardClock, Freeze, Policies
        <3> QED
            BY <1>4, <3>1, <3>2 DEF PolicyStep
    <2>3. TypeOK' /\ PolicyFirst'
        BY <1>1, <2>1, <2>2, LedgerAssumption DEF TypeOK, PolicyFirst, Policies, Nanos, Time
    <2> QED
        BY <2>1, <2>2, <2>3, QuietKeepsInv
<1>5. CASE ClockStep
    <2>1. clock' \in Time /\ UNCHANGED <<policy, attempts, requests, scopes, usage>>
        BY <1>1, <1>5, LedgerAssumption DEF ClockStep, Tick, ClockStepBack, TypeOK, Time
    <2>2. TypeOK' /\ PolicyFirst'
        BY <1>1, <2>1 DEF TypeOK, PolicyFirst
    <2> QED
        BY <2>1, <2>2, QuietKeepsInv
<1>6. CASE UNCHANGED vars
    <2>1. TypeOK' /\ PolicyFirst'
        BY <1>1, <1>6 DEF TypeOK, PolicyFirst, vars
    <2> QED
        BY <1>6, <2>1, QuietKeepsInv DEF vars
<1> QED
    BY <1>2, <1>3, <1>4, <1>5, <1>6 DEF RowSteps

(* The invariant holds initially and is kept by every step.                 *)
LEMMA InitInv == Init => Inv
<1> SUFFICES ASSUME Init
             PROVE  Inv
    OBVIOUS
<1>1. DOMAIN attempts = {} /\ DOMAIN requests = {} /\ DOMAIN scopes = {}
      /\ DOMAIN usage = {} /\ policy = Null /\ clock \in Time
    BY LedgerAssumption DEF Init, Time
<1>2. TypeOK
    BY <1>1 DEF Init, TypeOK
<1>3. LedgerInv /\ CapRespected
    BY <1>1 DEF LedgerInv, PolicyFirst, WindowCovered, CapRespected
<1> QED
    BY <1>2, <1>3 DEF Inv

LEMMA LedgerStepInv == Inv /\ [LedgerStep]_vars => Inv'
<1> SUFFICES ASSUME Inv, [LedgerStep]_vars
             PROVE  Inv'
    OBVIOUS
<1>1. ASSUME NEW new \in SUBSET FreshAttempts, NEW req \in [new -> FreshRequests],
             NEW quote \in [new -> Quotes], Reserve(new, req, quote)
      PROVE  Inv'
    <2>1. /\ new \in SUBSET FreshAttempts /\ Null \in Scopes \cup {Null}
          /\ DOMAIN scopes \subseteq Scopes /\ scopes \in [DOMAIN scopes -> Nanos]
        BY DEF Inv, TypeOK
    <2> QED
        BY <1>1, <2>1, ReserveKeepsInv DEF Reserve
<1>2. ASSUME NEW new \in SUBSET FreshAttempts, NEW req \in [new -> FreshRequests],
             NEW quote \in [new -> Quotes], NEW s \in Scopes \ DOMAIN scopes,
             NEW cap \in Nanos, ReserveScoped(new, req, quote, s, cap)
      PROVE  Inv'
    <2>1. /\ new \in SUBSET FreshAttempts /\ s \in Scopes \cup {Null}
          /\ DOMAIN scopes \subseteq Scopes /\ scopes \in [DOMAIN scopes -> Nanos]
        BY DEF Inv, TypeOK
    <2>2. /\ DOMAIN scopes \subseteq DOMAIN scopes' /\ DOMAIN scopes' \subseteq Scopes
          /\ s \in DOMAIN scopes' /\ scopes' \in [DOMAIN scopes' -> Nanos]
        BY <1>2, <2>1, LedgerAssumption DEF ReserveScoped
    <2> QED
        BY <1>2, <2>1, <2>2, ReserveKeepsInv DEF ReserveScoped
<1>3. ASSUME NEW a \in FreshAttempts, NEW r \in DOMAIN requests, NEW quote \in Quotes,
             Retry(a, r, quote)
      PROVE  Inv'
    BY <1>3, RetryKeepsInv
<1>4. CASE Outcomes
    <2>1. ASSUME NEW a \in DOMAIN attempts, NEW fence, BeginDispatch(a, fence)
          PROVE  Inv'
        BY <2>1, BeginDispatchKeepsInv
    <2>2. ASSUME NEW a \in DOMAIN attempts, NEW fence, Cancel(a, fence)
          PROVE  Inv'
        BY <2>2, CancelKeepsInv
    <2>3. ASSUME NEW a \in DOMAIN attempts, NEW fence, NEW charge \in Nanos \cup {Null},
                 Settle(a, fence, charge)
          PROVE  Inv'
        BY <2>3, TerminalKeepsInv, LedgerAssumption DEF Settle
    <2>4. ASSUME NEW a \in DOMAIN attempts, NEW charge \in Nanos, Reconcile(a, charge)
          PROVE  Inv'
        BY <2>4, TerminalKeepsInv, LedgerAssumption DEF Reconcile, Reconcilable
    <2> QED
        BY <1>4, <2>1, <2>2, <2>3, <2>4 DEF Outcomes
<1>5. CASE Admissions
    BY <1>1, <1>2, <1>3, <1>5 DEF Admissions
<1>6. CASE RowSteps \/ PolicyStep \/ ClockStep \/ UNCHANGED vars
    BY <1>6, OtherStepsKeepInv
<1> QED
    BY <1>4, <1>5, <1>6 DEF LedgerStep

LEMMA NextInv == Inv /\ [Next]_vars => Inv' /\ [LedgerStep]_vars
BY LedgerStepInv, NextIsLedgerStep DEF Inv

LEMMA SpecInv == Spec => []Inv /\ [][LedgerStep]_vars
BY InitInv, NextInv, PTL DEF Spec

-------------------------------------------------------------------------------
(* The theorems *)

(* The tables keep their types and foreign keys.                            *)
THEOREM LedgerTypeCorrect == Spec => []TypeOK
<1>1. Inv => TypeOK
    BY DEF Inv
<1> QED
    BY <1>1, SpecInv, PTL

(* The daily cap is never promised twice, whatever the callers do.          *)
THEOREM LedgerRespectsCap == Spec => []CapRespected
<1>1. Inv => CapRespected
    BY DEF Inv
<1> QED
    BY <1>1, SpecInv, PTL

(* Columns, states and open windows agree at every step.                    *)
THEOREM LedgerConsistent == Spec => []LedgerInv
<1>1. Inv => LedgerInv
    BY DEF Inv
<1> QED
    BY <1>1, SpecInv, PTL

(* Every row spends in a window at most what the invariant keeps room for.  *)
LEMMA InvBoundsWindows == Inv => WindowSpend
<1> SUFFICES ASSUME Inv, DOMAIN attempts # {}, NEW t \in Time
             PROVE  policy.opening
                      + TotalOver([a \in DOMAIN attempts |-> SpentWithin(attempts[a], t)],
                                  DOMAIN attempts)
                        <= policy.limit
    BY DEF WindowSpend
<1> DEFINE D == DOMAIN attempts
           f == [a \in D |-> SpentWithin(attempts[a], t)]
           g == [a \in D |-> MaySpendWithin(attempts[a], t, policy.watermark)]
<1>1. /\ policy \in Policies /\ policy.watermark \in Time /\ t \in Int
      /\ policy.watermark \in Int /\ policy.opening \in Nat /\ policy.limit \in Nat
    BY PolicyThere, MaxNanosAssumption DEF Policies, Time, Nanos
<1>2. \A a \in D : /\ attempts[a] \in AttemptRows
                   /\ ColumnsAgree(attempts[a], policy.watermark)
    BY DEF Inv, TypeOK, LedgerInv
<1>3. \A a \in D : f[a] \in Nat /\ g[a] \in Nat /\ f[a] <= g[a]
    BY <1>1, <1>2, RowNat, SpentMaySpend
<1>4. IsFiniteSet(D)
    BY TablesFinite DEF Inv
<1>5. TotalOver(f, D) <= TotalOver(g, D)
    BY <1>3, <1>4, TotalMonotone
<1>6. TotalOver(f, D) \in Nat /\ TotalOver(g, D) \in Nat
    BY <1>4, TotalNat
<1>7. policy.opening + TotalOver(g, D) <= policy.limit
    BY DEF Inv, LedgerInv, WindowCovered
<1> QED
    BY <1>1, <1>5, <1>6, <1>7

(* What is dispatched in any day costs no more than the limit leaves after  *)
(* the opening liability.                                                   *)
THEOREM LedgerBoundsWindows == Spec => []WindowSpend
BY InvBoundsWindows, SpecInv, PTL

-------------------------------------------------------------------------------
(* Requests: attempts with an open outcome or a broken bound.               *)
OpenStates == Unresolved \cup {"BREACH"}

(* What a reservation does to the tables of attempts and requests: the new  *)
(* attempts are reserved, and each belongs to a fresh request of its own,   *)
(* or there is one of them, for a request that takes another attempt.       *)
Reserved(new, s) ==
    /\ new \subseteq FreshAttempts
    /\ DOMAIN attempts' = DOMAIN attempts \cup new
    /\ \A a \in DOMAIN attempts : attempts'[a] = attempts[a]
    /\ \A a \in new : attempts'[a].state = "RESERVED"
    /\ \/ /\ \A a, b \in new : attempts'[a].request = attempts'[b].request => a = b
          /\ \A a \in new : attempts'[a].request \notin DOMAIN requests
          /\ requests' = [r \in DOMAIN requests \cup {attempts'[a].request : a \in new} |->
                            IF r \in DOMAIN requests THEN requests[r]
                            ELSE [scope |-> s, row |-> Null]]
       \/ /\ \A a, b \in new : a = b
          /\ \A a \in new : /\ attempts'[a].request \in DOMAIN requests
                            /\ NotFinalized(attempts'[a].request)
                            /\ NoOpenAttempt(attempts'[a].request)
          /\ requests' = requests

LEMMA ReserveReserves ==
    ASSUME Inv, NEW new \in SUBSET FreshAttempts, NEW req \in [new -> FreshRequests],
           NEW quote, NEW s,
           InsertReserved(new, req, quote), InsertRequests(new, req, s)
    PROVE  Reserved(new, s)
<1>1. /\ DOMAIN attempts' = DOMAIN attempts \cup new
      /\ \A a \in DOMAIN attempts : attempts'[a] = attempts[a]
      /\ \A a \in new : attempts'[a].state = "RESERVED" /\ attempts'[a].request = req[a]
    BY DEF InsertReserved, FreshAttempts
<1>2. {attempts'[a].request : a \in new} = {req[a] : a \in new}
    BY <1>1
<1>3. \A a \in new : req[a] \notin DOMAIN requests
    BY DEF FreshRequests
<1> QED
    BY <1>1, <1>2, <1>3 DEF Reserved, InsertRequests

LEMMA RetryReserves ==
    ASSUME Inv, NEW a \in FreshAttempts, NEW r \in DOMAIN requests, NEW quote,
           Retry(a, r, quote)
    PROVE  Reserved({a}, Null)
<1> DEFINE req == [b \in {a} |-> r]
           q == [b \in {a} |-> quote]
<1>1. /\ InsertReserved({a}, req, q) /\ requests' = requests
      /\ NotFinalized(r) /\ NoOpenAttempt(r)
    BY DEF Retry
<1>2. /\ DOMAIN attempts' = DOMAIN attempts \cup {a}
      /\ \A b \in DOMAIN attempts : attempts'[b] = attempts[b]
      /\ attempts'[a].state = "RESERVED" /\ attempts'[a].request = r
    BY <1>1 DEF InsertReserved, FreshAttempts
<1> QED
    BY <1>1, <1>2 DEF Reserved

(* What a step of an attempt does: one row moves on, within its request,    *)
(* and never back to an open state.                                         *)
Moved(a) ==
    /\ a \in DOMAIN attempts
    /\ DOMAIN attempts' = DOMAIN attempts
    /\ \A b \in DOMAIN attempts : b # a => attempts'[b] = attempts[b]
    /\ attempts'[a].request = attempts[a].request
    /\ attempts[a].state \in Unresolved
    /\ attempts'[a].state \in {"RESERVED", "DISPATCHING"} =>
          attempts[a].state \in {"RESERVED", "DISPATCHING"}
    /\ attempts'[a].state # "RESERVED"
    /\ UNCHANGED <<requests, scopes, usage>>

LEMMA OutcomesMove ==
    ASSUME Inv, Outcomes
    PROVE  \E a \in DOMAIN attempts : Moved(a)
<1>1. PICK a \in DOMAIN attempts :
         \/ \E fence \in Nat :
               \/ BeginDispatch(a, fence)
               \/ Cancel(a, fence)
               \/ \E charge \in Nanos \cup {Null} : Settle(a, fence, charge)
         \/ \E charge \in Nanos : Reconcile(a, charge)
    BY DEF Outcomes
<1>2. attempts \in [DOMAIN attempts -> AttemptRows] /\ attempts[a] \in AttemptRows
    BY DEF Inv, TypeOK
<1>3. CASE \E fence : BeginDispatch(a, fence)
    BY <1>2, <1>3 DEF BeginDispatch, Moved, Unresolved, AttemptRows
<1>4. CASE \E fence : Cancel(a, fence)
    BY <1>2, <1>4 DEF Cancel, Moved, Unresolved, AttemptRows
<1>5. ASSUME NEW charge, Terminal(a, charge), attempts[a].state \in {"DISPATCHING", "UNCERTAIN"}
      PROVE  Moved(a)
    BY <1>2, <1>5 DEF Terminal, Moved, Unresolved, AttemptRows
<1> QED
    BY <1>1, <1>3, <1>4, <1>5 DEF Settle, Reconcile, Reconcilable

(* The steps of the ledger, as far as requests go.                          *)
LEMMA RequestSteps ==
    ASSUME Inv, [LedgerStep]_vars
    PROVE  \/ \E new, s : Reserved(new, s) /\ usage' = usage
           \/ \E a \in DOMAIN attempts : Moved(a)
           \/ \E r \in DOMAIN requests, u \in Rows \ DOMAIN usage, cost \in Nat :
                 LinkUsage(r, u, cost)
           \/ /\ UNCHANGED <<attempts, requests, scopes>>
              /\ Linked \cap DOMAIN usage \subseteq DOMAIN usage'
<1>1. CASE Admissions
    <2>1. ASSUME NEW new \in SUBSET FreshAttempts, NEW req \in [new -> FreshRequests],
                 NEW quote \in [new -> Quotes],
                 \/ Reserve(new, req, quote)
                 \/ \E s \in Scopes \ DOMAIN scopes, cap \in Nanos :
                       ReserveScoped(new, req, quote, s, cap)
          PROVE  \E s : Reserved(new, s) /\ usage' = usage
        <3>1. PICK s : /\ InsertReserved(new, req, quote) /\ InsertRequests(new, req, s)
                       /\ usage' = usage
            BY <2>1 DEF Reserve, ReserveScoped
        <3> QED
            BY <3>1, ReserveReserves
    <2>2. ASSUME NEW a \in FreshAttempts, NEW r \in DOMAIN requests, NEW quote \in Quotes,
                 Retry(a, r, quote)
          PROVE  Reserved({a}, Null) /\ usage' = usage
        BY <2>2, RetryReserves DEF Retry
    <2> QED
        BY <1>1, <2>1, <2>2 DEF Admissions
<1>2. CASE Outcomes
    BY <1>2, OutcomesMove
<1>3. CASE RowSteps
    <2>1. ASSUME NEW D, DeleteRows(D)
          PROVE  Linked \cap DOMAIN usage \subseteq DOMAIN usage'
        <3>1. CASE policy = Null
            <4>1. DOMAIN requests = {}
                BY <3>1 DEF Inv, LedgerInv, PolicyFirst
            <4> QED
                BY <4>1 DEF Linked
        <3>2. CASE policy # Null
            BY <2>1, <3>2 DEF DeleteRows, Deletable
        <3> QED
            BY <3>1, <3>2
    <2>2. ASSUME NEW u \in Rows \ DOMAIN usage, NEW cost \in Nat, WriteUsage(u, cost)
          PROVE  /\ UNCHANGED <<attempts, requests, scopes>>
                 /\ Linked \cap DOMAIN usage \subseteq DOMAIN usage'
        BY <2>2 DEF WriteUsage
    <2>3. ASSUME NEW D, DeleteRows(D)
          PROVE  UNCHANGED <<attempts, requests, scopes>>
        BY <2>3 DEF DeleteRows
    <2> QED
        BY <1>3, <2>1, <2>2, <2>3 DEF RowSteps
<1>4. CASE PolicyStep \/ ClockStep \/ UNCHANGED vars
    BY <1>4 DEF PolicyStep, InitializePolicy, DetectBackwardClock, Freeze, ClockStep,
                Tick, ClockStepBack, vars
<1> QED
    BY <1>1, <1>2, <1>3, <1>4 DEF LedgerStep

-------------------------------------------------------------------------------
(* A logical request has at most one attempt with an open outcome.          *)
LEMMA OneOpenAttemptStep == Inv /\ OneOpenAttempt /\ [LedgerStep]_vars => OneOpenAttempt'
<1> SUFFICES ASSUME Inv, OneOpenAttempt, [LedgerStep]_vars
             PROVE  OneOpenAttempt'
    OBVIOUS
<1>1. \A a \in DOMAIN attempts : attempts[a].request \in DOMAIN requests
    BY DEF Inv, TypeOK
<1>2. ASSUME NEW new, NEW s, Reserved(new, s)
      PROVE  OneOpenAttempt'
    <2> SUFFICES ASSUME NEW a \in DOMAIN attempts', NEW b \in DOMAIN attempts',
                        attempts'[a].request = attempts'[b].request,
                        attempts'[a].state \in OpenStates, attempts'[b].state \in OpenStates
                 PROVE  a = b
        BY DEF OneOpenAttempt, OpenStates
    <2>1. CASE a \in DOMAIN attempts /\ b \in DOMAIN attempts
        BY <1>2, <2>1 DEF Reserved, OneOpenAttempt, OpenStates
    <2>2. CASE a \in new /\ b \in new
        BY <1>2, <2>2 DEF Reserved
    <2>3. ASSUME NEW c \in new, NEW d \in DOMAIN attempts,
                 attempts'[c].request = attempts'[d].request,
                 attempts'[d].state \in OpenStates
          PROVE  FALSE
        BY <1>1, <1>2, <2>3 DEF Reserved, NoOpenAttempt, AttemptsOf, OpenStates, Unresolved
    <2> QED
        BY <1>2, <2>1, <2>2, <2>3 DEF Reserved
<1>3. ASSUME NEW a \in DOMAIN attempts, Moved(a)
      PROVE  OneOpenAttempt'
    BY <1>3 DEF Moved, OneOpenAttempt
<1>4. CASE UNCHANGED attempts
    BY <1>4 DEF OneOpenAttempt
<1> QED
    BY <1>2, <1>3, <1>4, RequestSteps DEF LinkUsage

(* Whatever retries and outcomes come in between, a logical request never   *)
(* has two attempts whose outcome is open or that broke their bound.        *)
THEOREM LedgerHasOneOpenAttempt == Spec => []OneOpenAttempt
<1>1. Init => OneOpenAttempt
    BY DEF Init, OneOpenAttempt
<1> QED
    BY <1>1, SpecInv, OneOpenAttemptStep, PTL DEF Spec

-------------------------------------------------------------------------------
(* A finalized request stays quiet: its row survives, and nothing of it     *)
(* runs.                                                                    *)
LEMMA FinalizedStep == Inv /\ FinalizedIsQuiet /\ [LedgerStep]_vars => FinalizedIsQuiet'
<1> SUFFICES ASSUME Inv, FinalizedIsQuiet, [LedgerStep]_vars
             PROVE  FinalizedIsQuiet'
    OBVIOUS
<1>1. \A a \in DOMAIN attempts : attempts[a].request \in DOMAIN requests
    BY DEF Inv, TypeOK
<1>2. ASSUME NEW new, NEW s, Reserved(new, s), usage' = usage
      PROVE  FinalizedIsQuiet'
    <2> SUFFICES ASSUME NEW r \in DOMAIN requests', requests'[r].row # Null
                 PROVE  /\ \A a \in DOMAIN attempts' : attempts'[a].request = r =>
                              attempts'[a].state \notin {"RESERVED", "DISPATCHING"}
                        /\ requests'[r].row \in DOMAIN usage'
                        /\ \A q \in DOMAIN requests' :
                              requests'[q].row = requests'[r].row => q = r
        BY DEF FinalizedIsQuiet, AttemptsOf
    <2>1. r \in DOMAIN requests /\ requests'[r] = requests[r]
        BY <1>2 DEF Reserved
    <2>2. \A q \in DOMAIN requests' : requests'[q].row # Null =>
             q \in DOMAIN requests /\ requests'[q] = requests[q]
        BY <1>2 DEF Reserved
    <2>3. \A a \in new : attempts'[a].request # r
        BY <1>2, <2>1 DEF Reserved, NotFinalized
    <2> QED
        BY <1>2, <2>1, <2>2, <2>3 DEF Reserved, FinalizedIsQuiet, AttemptsOf
<1>3. ASSUME NEW a \in DOMAIN attempts, Moved(a)
      PROVE  FinalizedIsQuiet'
    BY <1>3 DEF Moved, FinalizedIsQuiet, AttemptsOf
<1>4. ASSUME NEW r \in DOMAIN requests, NEW u \in Rows \ DOMAIN usage, NEW cost \in Nat,
             LinkUsage(r, u, cost)
      PROVE  FinalizedIsQuiet'
    <2>1. /\ requests \in [DOMAIN requests -> RequestRows] /\ u # Null
        BY LedgerAssumption DEF Inv, TypeOK
    <2>2. /\ DOMAIN requests' = DOMAIN requests /\ requests'[r].row = u
          /\ \A q \in DOMAIN requests : q # r => requests'[q] = requests[q]
          /\ attempts' = attempts /\ DOMAIN usage' = DOMAIN usage \cup {u}
        BY <1>4, <2>1 DEF LinkUsage, RequestRows
    <2> QED
        BY <1>4, <2>1, <2>2 DEF LinkUsage, FinalizedIsQuiet, AttemptsOf
<1>5. CASE UNCHANGED <<attempts, requests>> /\ Linked \cap DOMAIN usage \subseteq DOMAIN usage'
    BY <1>5 DEF FinalizedIsQuiet, AttemptsOf, Linked
<1> QED
    BY <1>2, <1>3, <1>4, <1>5, RequestSteps

(* Once its usage row is linked, nothing of a request is reserved or        *)
(* running, and the row stays and is its own.                               *)
THEOREM LedgerFinalizes == Spec => []FinalizedIsQuiet
<1>1. Init => FinalizedIsQuiet
    BY DEF Init, FinalizedIsQuiet
<1> QED
    BY <1>1, SpecInv, FinalizedStep, PTL DEF Spec

(* Retries, settlements and rows of a request come in a legal order only,   *)
(* whoever calls the ledger and however often.                              *)
THEOREM LedgerKeepsRequestsOrderly == Spec => []RequestsAreOrderly
    BY LedgerHasOneOpenAttempt, LedgerFinalizes, PTL DEF RequestsAreOrderly

-------------------------------------------------------------------------------
(* Scopes.  Over the life of a scope a row counts for its certified         *)
(* liability, settled charges of any age included.                          *)
Lifetime(row) == CertifiedLiability(row, 0)

LifetimesNat == \A a \in DOMAIN attempts : Lifetime(attempts[a]) \in Nat

LEMMA LifetimeNat == Inv => LifetimesNat
<1> SUFFICES ASSUME Inv, NEW a \in DOMAIN attempts
             PROVE  Lifetime(attempts[a]) \in Nat
    BY DEF LifetimesNat
<1>1. /\ policy \in Policies /\ policy.watermark \in Time
      /\ attempts[a] \in AttemptRows /\ ColumnsAgree(attempts[a], policy.watermark)
    BY PolicyThere DEF Inv, TypeOK, LedgerInv
<1> QED
    BY <1>1, RowNat DEF Lifetime

LEMMA LifetimeNatNext == Inv' => LifetimesNat'
BY LifetimeNat, PTL

(* An attempt's step never makes it count for more.                         *)
LEMMA LifetimeFalls ==
    ASSUME Inv, Outcomes, NEW b \in DOMAIN attempts
    PROVE  Lifetime(attempts'[b]) <= Lifetime(attempts[b])
<1>1. PICK a \in DOMAIN attempts :
         \/ \E fence \in Nat :
               \/ BeginDispatch(a, fence)
               \/ Cancel(a, fence)
               \/ \E charge \in Nanos \cup {Null} : Settle(a, fence, charge)
         \/ \E charge \in Nanos : Reconcile(a, charge)
    BY DEF Outcomes
<1>2. /\ attempts \in [DOMAIN attempts -> AttemptRows] /\ attempts[a] \in AttemptRows
      /\ attempts[a].bound \in Nat /\ Lifetime(attempts[b]) \in Nat
    BY LifetimeNat, MaxNanosAssumption DEF LifetimesNat, Inv, TypeOK, AttemptRows, Nanos
<1>3. CASE \E fence : BeginDispatch(a, fence)
    BY <1>2, <1>3 DEF BeginDispatch, Lifetime, CertifiedLiability, AttemptRows
<1>4. CASE \E fence : Cancel(a, fence)
    BY <1>2, <1>4 DEF Cancel, Lifetime, CertifiedLiability, AttemptRows
<1>5. ASSUME NEW charge \in Nanos \cup {Null}, Terminal(a, charge),
             attempts[a].state \in {"DISPATCHING", "UNCERTAIN"}
      PROVE  Lifetime(attempts'[b]) <= Lifetime(attempts[b])
    <2>1. CASE b # a
        BY <1>2, <1>5, <2>1 DEF Terminal
    <2>2. CASE b = a
        <3>1. Lifetime(attempts[a]) = attempts[a].bound
            BY <1>5 DEF Lifetime, CertifiedLiability
        <3>2. charge # Null => charge \in Nat
            BY LedgerAssumption, MaxNanosAssumption DEF Nanos
        <3>3. /\ attempts'[a].bound = attempts[a].bound
              /\ attempts'[a].charge = charge
              /\ attempts'[a].state = IF charge = Null THEN "UNCERTAIN"
                                      ELSE IF ExceedsBound(a, charge) THEN "BREACH"
                                      ELSE "SETTLED"
            BY <1>2, <1>5 DEF Terminal, AttemptRows
        <3>4. /\ attempts'[a].state \in {"UNCERTAIN", "BREACH", "SETTLED"}
              /\ attempts'[a].state = "SETTLED" =>
                    charge \in Nat /\ charge <= attempts[a].bound
            BY <1>2, <3>2, <3>3 DEF ExceedsBound
        <3> QED
            BY <1>2, <2>2, <3>1, <3>3, <3>4 DEF Lifetime, CertifiedLiability
    <2> QED
        BY <2>1, <2>2
<1> QED
    BY <1>1, <1>3, <1>4, <1>5 DEF Settle, Reconcile, Reconcilable

LEMMA MembersFinite ==
    ASSUME Inv, Inv', NEW s
    PROVE  IsFiniteSet(ScopeMembers(s)) /\ IsFiniteSet(ScopeMembers(s)')
<1>1. /\ DOMAIN attempts \subseteq Attempts /\ DOMAIN attempts' \subseteq Attempts
      /\ IsFiniteSet(Attempts)
    BY LedgerAssumption DEF Inv, TypeOK
<1>2. ScopeMembers(s) \subseteq Attempts /\ ScopeMembers(s)' \subseteq Attempts
    BY <1>1 DEF ScopeMembers
<1> QED
    BY <1>1, <1>2, FS_Subset

(* What one scope has promised.                                             *)
Promised(s) == CertifiedExposure(ScopeMembers(s), 0)

(* A scope that gets no new attempt, and none of whose attempts counts for  *)
(* more, keeps its cap.                                                     *)
LEMMA ScopeKept ==
    ASSUME Inv, Inv', ScopeCap, NEW s \in DOMAIN scopes, scopes'[s] = scopes[s],
           ScopeMembers(s)' \subseteq ScopeMembers(s),
           \A a \in ScopeMembers(s)' : Lifetime(attempts'[a]) <= Lifetime(attempts[a])
    PROVE  Promised(s)' <= scopes'[s]
<1> DEFINE M == ScopeMembers(s)
           N == ScopeMembers(s)'
           f == [a \in M |-> Lifetime(attempts[a])]
           g == [a \in N |-> Lifetime(attempts'[a])]
<1>1. IsFiniteSet(M) /\ IsFiniteSet(N) /\ M \subseteq DOMAIN attempts
      /\ N \subseteq DOMAIN attempts'
    BY MembersFinite DEF ScopeMembers
<1>2. \A a \in N : g[a] \in Nat /\ f[a] \in Nat /\ g[a] <= f[a]
    BY <1>1, LifetimeNat, LifetimeNatNext DEF LifetimesNat
<1>3. TotalOver(g, N) <= TotalOver(f, M)
    BY <1>1, <1>2, TotalMonotone
<1>4. TotalOver(g, N) \in Nat /\ TotalOver(f, M) \in Nat
    BY <1>1, TotalNat
<1>5. TotalOver(f, M) <= scopes[s] /\ scopes[s] \in Nat
    BY MaxNanosAssumption DEF ScopeCap, CertifiedExposure, Lifetime, Inv, TypeOK, Nanos
<1>6. Promised(s)' = TotalOver(g, N)
    BY DEF Promised, CertifiedExposure, Lifetime
<1> QED
    BY <1>3, <1>4, <1>5, <1>6

(* A new reservation counts for the bound of its quote.                     *)
LEMMA NewLifetime ==
    ASSUME Inv, Inv', NEW new \in SUBSET FreshAttempts, NEW req, NEW quote \in [new -> Quotes],
           InsertReserved(new, req, quote), NEW a \in new
    PROVE  /\ Lifetime(attempts'[a]) = quote[a].bound
           /\ quote[a].bound \in Nat
<1>1. attempts'[a].state = "RESERVED" /\ attempts'[a].bound = quote[a].bound
    BY DEF InsertReserved
<1>2. quote[a].bound \in Nat
    <2>1. quote[a] \in Quotes
        OBVIOUS
    <2>2. quote[a].bound \in Amounts
        BY <2>1 DEF Quotes
    <2>3. Amounts \subseteq Nanos
        BY LedgerAssumption
    <2>4. quote[a].bound \in Nanos
        BY <2>2, <2>3
    <2> QED
        BY <2>4, MaxNanosAssumption DEF Nanos
<1> QED
    BY <1>1, <1>2 DEF Lifetime, CertifiedLiability

(* A new scope gets at most its cap.                                        *)
LEMMA NewScopeCapped ==
    ASSUME Inv, Inv', NEW new \in SUBSET FreshAttempts, NEW req \in [new -> FreshRequests],
           NEW quote \in [new -> Quotes], NEW s \in Scopes \ DOMAIN scopes, NEW cap \in Nanos,
           ReserveScoped(new, req, quote, s, cap)
    PROVE  Promised(s)' <= scopes'[s]
<1> DEFINE N == ScopeMembers(s)'
           g == [a \in N |-> Lifetime(attempts'[a])]
           asked == [a \in new |-> quote[a].bound]
<1>1. /\ InsertReserved(new, req, quote) /\ Reserved(new, s)
      /\ Requested(new, quote) <= cap /\ scopes'[s] = cap
    BY ReserveReserves DEF ReserveScoped
<1>2. \A r \in DOMAIN requests : requests[r].scope # s
    BY LedgerAssumption DEF Inv, TypeOK
<1>3. N \subseteq new
    <2> SUFFICES ASSUME NEW a \in N, a \notin new
                 PROVE  FALSE
        OBVIOUS
    <2>1. a \in DOMAIN attempts /\ attempts'[a] = attempts[a]
        BY <1>1 DEF ScopeMembers, Reserved
    <2>2. attempts[a].request \in DOMAIN requests
        BY <2>1 DEF Inv, TypeOK
    <2>3. requests'[attempts[a].request] = requests[attempts[a].request]
        BY <1>1, <2>2 DEF Reserved
    <2> QED
        BY <1>2, <2>1, <2>2, <2>3 DEF ScopeMembers
<1>4. IsFiniteSet(new)
    BY LedgerAssumption, FS_Subset DEF FreshAttempts
<1>5. \A a \in N : g[a] \in Nat /\ asked[a] \in Nat /\ g[a] <= asked[a]
    BY <1>1, <1>3, NewLifetime
<1>6. TotalOver(g, N) <= TotalOver(asked, new)
    BY <1>3, <1>4, <1>5, TotalMonotone
<1>7. TotalOver(g, N) \in Nat /\ TotalOver(asked, new) \in Nat /\ cap \in Nat
    <2>1. IsFiniteSet(N)
        BY <1>3, <1>4, FS_Subset
    <2>2. TotalOver(g, N) \in Nat /\ TotalOver(asked, new) \in Nat
        BY <1>4, <2>1, TotalNat
    <2>3. cap \in Nat
        BY LedgerAssumption, MaxNanosAssumption DEF Nanos
    <2> QED
        BY <2>2, <2>3
<1>8. Promised(s)' = TotalOver(g, N)
    BY DEF Promised, CertifiedExposure, Lifetime
<1> QED
    BY <1>1, <1>6, <1>7, <1>8 DEF Requested

(* A retry fits in what its scope has left.                                 *)
LEMMA RetryCapped ==
    ASSUME Inv, Inv', NEW a \in FreshAttempts, NEW r \in DOMAIN requests, NEW quote \in Quotes,
           Retry(a, r, quote), requests[r].scope # Null
    PROVE  Promised(requests[r].scope)' <= scopes'[requests[r].scope]
<1> DEFINE s == requests[r].scope
           M == ScopeMembers(s)
           N == ScopeMembers(s)'
           q == [b \in {a} |-> quote]
           req == [b \in {a} |-> r]
           owed == [b \in M |-> Liability(attempts[b], 0)]
           g == [b \in N |-> Lifetime(attempts'[b])]
           asked == [b \in {a} |-> q[b].bound]
<1>1. /\ InsertReserved({a}, req, q) /\ requests' = requests /\ scopes' = scopes
      /\ ScopeExposure(s) + Requested({a}, q) <= scopes[s]
    BY DEF Retry
<1>2. /\ {a} \in SUBSET FreshAttempts /\ q \in [{a} -> Quotes]
      /\ DOMAIN attempts' = DOMAIN attempts \cup {a}
      /\ \A b \in DOMAIN attempts : attempts'[b] = attempts[b]
      /\ attempts'[a].request = r
    BY <1>1 DEF InsertReserved, FreshAttempts
<1>3. N = M \cup {a} /\ M \cap {a} = {} /\ M \subseteq DOMAIN attempts
    BY <1>1, <1>2 DEF ScopeMembers, FreshAttempts
<1>4. IsFiniteSet(M) /\ IsFiniteSet({a}) /\ IsFiniteSet(N)
    <2>1. IsFiniteSet(M) /\ IsFiniteSet(N)
        BY MembersFinite
    <2>2. IsFiniteSet({a})
        BY FS_Singleton
    <2> QED
        BY <2>1, <2>2
<1>5. \A b \in M : g[b] \in Nat /\ owed[b] \in Nat /\ g[b] <= owed[b]
    <2> SUFFICES ASSUME NEW b \in M
                 PROVE  g[b] \in Nat /\ owed[b] \in Nat /\ g[b] <= owed[b]
        OBVIOUS
    <2>1. /\ policy \in Policies /\ policy.watermark \in Time
          /\ attempts[b] \in AttemptRows /\ ColumnsAgree(attempts[b], policy.watermark)
        BY <1>3, PolicyThere DEF Inv, TypeOK, LedgerInv
    <2>2. g[b] = CertifiedLiability(attempts[b], 0) /\ owed[b] = Liability(attempts[b], 0)
        BY <1>2, <1>3 DEF Lifetime
    <2> QED
        BY <2>1, <2>2, RowNat, CertifiedIsOwed
<1>6. g[a] \in Nat /\ asked[a] \in Nat /\ g[a] <= asked[a]
    <2>1. Lifetime(attempts'[a]) = q[a].bound /\ q[a].bound \in Nat
        BY <1>1, <1>2, NewLifetime
    <2>2. g[a] = Lifetime(attempts'[a]) /\ asked[a] = q[a].bound
        BY <1>3
    <2> QED
        BY <2>1, <2>2
<1>7. TotalOver(g, M) <= TotalOver(owed, M)
    BY <1>4, <1>5, TotalMonotone
<1>8. TotalOver(g, {a}) <= TotalOver(asked, {a})
    BY <1>4, <1>6, TotalMonotone
<1>9. TotalOver(g, N) = TotalOver(g, M) + TotalOver(g, {a})
    BY <1>3, <1>4, TotalDisjoint
<1>10. /\ TotalOver(g, M) \in Nat /\ TotalOver(g, {a}) \in Nat
       /\ TotalOver(owed, M) \in Nat /\ TotalOver(asked, {a}) \in Nat
    BY <1>4, TotalNat
<1>11. TotalOver(owed, M) + TotalOver(asked, {a}) <= scopes[s] /\ scopes[s] \in Nat
    <2>1. s \in DOMAIN scopes /\ scopes[s] \in Nat
        BY MaxNanosAssumption DEF Inv, TypeOK, Nanos
    <2> QED
        BY <1>1, <2>1 DEF ScopeExposure, AttemptExposure, Requested
<1>12. Promised(s)' = TotalOver(g, N)
    <2> HIDE DEF s
    <2> QED
        BY <1>1 DEF Promised, CertifiedExposure, Lifetime, s
<1> QED
    BY <1>1, <1>7, <1>8, <1>9, <1>10, <1>11, <1>12

LEMMA ScopeStep == Inv /\ Inv' /\ ScopeCap /\ [LedgerStep]_vars => ScopeCap'
<1> SUFFICES ASSUME Inv, Inv', ScopeCap, [LedgerStep]_vars
             PROVE  \A s \in DOMAIN scopes' : Promised(s)' <= scopes'[s]
    BY DEF ScopeCap, Promised
<1>1. \A a \in DOMAIN attempts : attempts[a].request \in DOMAIN requests
    BY DEF Inv, TypeOK
<1>2. /\ Null \notin Scopes /\ DOMAIN scopes \subseteq Scopes
      /\ \A a \in DOMAIN attempts : Lifetime(attempts[a]) \in Nat
    BY LedgerAssumption, LifetimeNat DEF LifetimesNat, Inv, TypeOK
\* Reservations leave every other scope alone.
<1>3. ASSUME NEW new, NEW t, Reserved(new, t), NEW s \in DOMAIN scopes,
             scopes'[s] = scopes[s],
             \A a \in new : requests'[attempts'[a].request].scope # s
      PROVE  Promised(s)' <= scopes'[s]
    <2>1. ScopeMembers(s)' \subseteq ScopeMembers(s)
        BY <1>1, <1>3 DEF ScopeMembers, Reserved
    <2>2. \A a \in ScopeMembers(s)' : Lifetime(attempts'[a]) <= Lifetime(attempts[a])
        BY <1>2, <1>3, <2>1 DEF ScopeMembers, Reserved
    <2> QED
        BY <1>3, <2>1, <2>2, ScopeKept
<1>4. ASSUME NEW new \in SUBSET FreshAttempts, NEW req \in [new -> FreshRequests],
             NEW quote \in [new -> Quotes], Reserve(new, req, quote),
             NEW s \in DOMAIN scopes'
      PROVE  Promised(s)' <= scopes'[s]
    <2>1. Reserved(new, Null) /\ scopes' = scopes
        BY <1>4, ReserveReserves DEF Reserve
    <2>2. \A a \in new : requests'[attempts'[a].request].scope = Null
        <3>1. /\ InsertRequests(new, req, Null)
              /\ \A a \in new : attempts'[a].request = req[a]
            BY <1>4 DEF Reserve, InsertReserved
        <3>2. \A a \in new : req[a] \notin DOMAIN requests
            BY DEF FreshRequests
        <3> QED
            BY <3>1, <3>2 DEF InsertRequests
    <2> QED
        BY <1>2, <1>3, <2>1, <2>2
<1>5. ASSUME NEW new \in SUBSET FreshAttempts, NEW req \in [new -> FreshRequests],
             NEW quote \in [new -> Quotes], NEW t \in Scopes \ DOMAIN scopes,
             NEW cap \in Nanos, ReserveScoped(new, req, quote, t, cap),
             NEW s \in DOMAIN scopes'
      PROVE  Promised(s)' <= scopes'[s]
    <2>1. CASE s = t
        BY <1>5, <2>1, NewScopeCapped
    <2>2. CASE s # t
        <3>1. /\ Reserved(new, t) /\ s \in DOMAIN scopes /\ scopes'[s] = scopes[s]
            BY <1>5, <2>2, ReserveReserves DEF ReserveScoped
        <3>2. \A a \in new : requests'[attempts'[a].request].scope = t
            <4>1. /\ InsertRequests(new, req, t)
                  /\ \A a \in new : attempts'[a].request = req[a]
                BY <1>5 DEF ReserveScoped, InsertReserved
            <4>2. \A a \in new : req[a] \notin DOMAIN requests
                BY DEF FreshRequests
            <4> QED
                BY <4>1, <4>2 DEF InsertRequests
        <3> QED
            BY <1>3, <2>2, <3>1, <3>2
    <2> QED
        BY <2>1, <2>2
<1>6. ASSUME NEW a \in FreshAttempts, NEW r \in DOMAIN requests, NEW quote \in Quotes,
             Retry(a, r, quote), NEW s \in DOMAIN scopes'
      PROVE  Promised(s)' <= scopes'[s]
    <2>1. CASE requests[r].scope = s
        BY <1>2, <1>6, <2>1, RetryCapped DEF Retry
    <2>2. CASE requests[r].scope # s
        <3>1. /\ Reserved({a}, Null) /\ scopes' = scopes /\ requests' = requests
              /\ attempts'[a].request = r
            BY <1>6, RetryReserves DEF Retry, InsertReserved
        <3> QED
            BY <1>3, <2>2, <3>1
    <2> QED
        BY <2>1, <2>2
<1>7. ASSUME Outcomes, NEW s \in DOMAIN scopes'
      PROVE  Promised(s)' <= scopes'[s]
    <2>1. PICK a \in DOMAIN attempts : Moved(a)
        BY <1>7, OutcomesMove
    <2>2. ScopeMembers(s)' \subseteq ScopeMembers(s) /\ s \in DOMAIN scopes
          /\ scopes'[s] = scopes[s] /\ ScopeMembers(s) \subseteq DOMAIN attempts
        BY <1>7, <2>1 DEF Moved, ScopeMembers
    <2>3. \A b \in ScopeMembers(s)' : Lifetime(attempts'[b]) <= Lifetime(attempts[b])
        BY <1>7, <2>2, LifetimeFalls
    <2> QED
        BY <2>2, <2>3, ScopeKept
<1>8. ASSUME UNCHANGED <<attempts, scopes>>,
             \A r \in DOMAIN requests : r \in DOMAIN requests' /\
                requests'[r].scope = requests[r].scope,
             NEW s \in DOMAIN scopes'
      PROVE  Promised(s)' <= scopes'[s]
    <2>1. ScopeMembers(s)' \subseteq ScopeMembers(s) /\ ScopeMembers(s) \subseteq DOMAIN attempts
        BY <1>1, <1>8 DEF ScopeMembers
    <2>2. \A b \in ScopeMembers(s)' : Lifetime(attempts'[b]) <= Lifetime(attempts[b])
        BY <1>2, <1>8, <2>1
    <2> QED
        BY <1>8, <2>1, <2>2, ScopeKept
<1>9. CASE Admissions
    BY <1>4, <1>5, <1>6, <1>9 DEF Admissions
<1>10. ASSUME NEW r \in DOMAIN requests, NEW u \in Rows, NEW cost, LinkUsage(r, u, cost)
       PROVE  /\ UNCHANGED <<attempts, scopes>>
              /\ \A q \in DOMAIN requests : q \in DOMAIN requests' /\
                    requests'[q].scope = requests[q].scope
    <2>1. \A q \in DOMAIN requests : requests[q] \in RequestRows
        BY DEF Inv, TypeOK
    <2> QED
        BY <1>10, <2>1 DEF LinkUsage, RequestRows
<1>11. CASE RowSteps \/ PolicyStep \/ ClockStep \/ UNCHANGED vars
    <2>1. /\ UNCHANGED <<attempts, scopes>>
          /\ \A q \in DOMAIN requests : q \in DOMAIN requests' /\
                requests'[q].scope = requests[q].scope
        BY <1>10, <1>11
           DEF RowSteps, WriteUsage, DeleteRows, PolicyStep,
               InitializePolicy, DetectBackwardClock, Freeze, ClockStep, Tick,
               ClockStepBack, vars
    <2> QED
        BY <1>8, <2>1
<1> QED
    BY <1>7, <1>9, <1>11 DEF LedgerStep

(* An evaluation scope never promises more than its cap in its whole life,  *)
(* whatever retries it takes and however old its charges are.               *)
THEOREM LedgerCapsScopes == Spec => []ScopeCap
<1>1. Init => ScopeCap
    BY DEF Init, ScopeCap
<1> QED
    BY <1>1, SpecInv, ScopeStep, PTL DEF Spec

(* Neither the cap of the day nor that of a scope is ever promised twice.   *)
THEOREM LedgerKeepsCaps == Spec => []CapsAreKept
    BY LedgerRespectsCap, LedgerCapsScopes, PTL DEF CapsAreKept

-------------------------------------------------------------------------------
(* What callers rely on between their transactions *)

(* The fence of an attempt counts its steps, and only an outcome tells a    *)
(* charge.                                                                  *)
FenceFollows(row) ==
    /\ row.state = "RESERVED" => row.fence = 0
    /\ row.state \in {"CANCELLED", "DISPATCHING"} => row.fence = 1
    /\ row.state = "UNCERTAIN" => row.fence = 2
    /\ row.state \in Unresolved \cup {"CANCELLED"} => row.charge = Null
FencesFollow == \A a \in DOMAIN attempts : FenceFollows(attempts[a])

LEMMA OutcomesFollow ==
    ASSUME Inv, FencesFollow, Outcomes
    PROVE  FencesFollow'
<1>1. PICK a \in DOMAIN attempts :
         \/ \E fence \in Nat :
               \/ BeginDispatch(a, fence)
               \/ Cancel(a, fence)
               \/ \E charge \in Nanos \cup {Null} : Settle(a, fence, charge)
         \/ \E charge \in Nanos : Reconcile(a, charge)
    BY DEF Outcomes
<1>2. /\ attempts \in [DOMAIN attempts -> AttemptRows] /\ attempts[a] \in AttemptRows
      /\ FenceFollows(attempts[a])
    BY DEF Inv, TypeOK, FencesFollow
<1> DEFINE Follows == /\ DOMAIN attempts' = DOMAIN attempts
                      /\ \A b \in DOMAIN attempts : b # a => attempts'[b] = attempts[b]
                      /\ FenceFollows(attempts'[a])
<1>3. ASSUME NEW fence, BeginDispatch(a, fence)
      PROVE  FencesFollow'
    <2>1. /\ attempts'[a].state = "DISPATCHING" /\ attempts'[a].charge = attempts[a].charge
          /\ attempts'[a].fence = attempts[a].fence + 1
        BY <1>2, <1>3 DEF BeginDispatch, AttemptRows
    <2>2. Follows
        BY <1>2, <1>3, <2>1 DEF BeginDispatch, FenceFollows, Unresolved
    <2> QED
        BY <2>2 DEF FencesFollow
<1>4. ASSUME NEW fence, Cancel(a, fence)
      PROVE  FencesFollow'
    <2>1. /\ attempts'[a].state = "CANCELLED" /\ attempts'[a].charge = attempts[a].charge
          /\ attempts'[a].fence = attempts[a].fence + 1
        BY <1>2, <1>4 DEF Cancel, AttemptRows
    <2>2. Follows
        BY <1>2, <1>4, <2>1 DEF Cancel, FenceFollows, Unresolved
    <2> QED
        BY <2>2 DEF FencesFollow
<1>5. ASSUME NEW charge \in Nanos \cup {Null}, Terminal(a, charge),
             attempts[a].state \in {"DISPATCHING", "UNCERTAIN"},
             attempts[a].state = "UNCERTAIN" => charge # Null
      PROVE  FencesFollow'
    <2>1. /\ attempts'[a].charge = charge /\ attempts'[a].fence = attempts[a].fence + 1
          /\ charge = Null => attempts'[a].state = "UNCERTAIN"
          /\ charge # Null => attempts'[a].state \in {"SETTLED", "BREACH"}
        BY <1>2, <1>5 DEF Terminal, AttemptRows
    <2>2. charge = Null => attempts[a].fence = 1
        BY <1>2, <1>5 DEF FenceFollows
    <2>3. FenceFollows(attempts'[a])
        BY <2>1, <2>2 DEF FenceFollows, Unresolved
    <2>4. Follows
        BY <1>2, <1>5, <2>3 DEF Terminal
    <2> QED
        BY <2>4 DEF FencesFollow
<1>6. ASSUME NEW fence, NEW charge \in Nanos \cup {Null}, Settle(a, fence, charge)
      PROVE  FencesFollow'
    <2>1. Terminal(a, charge) /\ attempts[a].state = "DISPATCHING"
        BY <1>6 DEF Settle
    <2> QED
        BY <1>5, <2>1
<1>7. ASSUME NEW charge \in Nanos, Reconcile(a, charge)
      PROVE  FencesFollow'
    <2>1. charge # Null
        BY LedgerAssumption, MaxNanosAssumption DEF Nanos
    <2> QED
        BY <1>5, <1>7, <2>1 DEF Reconcile, Reconcilable
<1> QED
    BY <1>1, <1>3, <1>4, <1>6, <1>7

LEMMA FencesStep == Inv /\ FencesFollow /\ [LedgerStep]_vars => FencesFollow'
<1> SUFFICES ASSUME Inv, FencesFollow, [LedgerStep]_vars
             PROVE  FencesFollow'
    OBVIOUS
<1>1. ASSUME NEW new, NEW req, NEW quote, InsertReserved(new, req, quote)
      PROVE  FencesFollow'
    BY <1>1 DEF InsertReserved, FencesFollow, FenceFollows, Unresolved
<1>2. CASE Admissions
    BY <1>1, <1>2 DEF Admissions, Reserve, ReserveScoped, Retry
<1>3. CASE UNCHANGED attempts
    BY <1>3 DEF FencesFollow
<1> QED
    BY <1>2, <1>3, OutcomesFollow
       DEF LedgerStep, RowSteps, WriteUsage, LinkUsage, DeleteRows, PolicyStep,
           InitializePolicy, DetectBackwardClock, Freeze, ClockStep, Tick, ClockStepBack, vars

(* Outcomes are final, an attempt that left its reservation never returns   *)
(* to it, and every attempt keeps its request.                              *)
LEMMA OutcomesStay ==
    ASSUME Inv, [LedgerStep]_vars, NEW a \in DOMAIN attempts
    PROVE  /\ a \in DOMAIN attempts' /\ attempts'[a].request = attempts[a].request
           /\ attempts[a].state \notin Unresolved => attempts'[a] = attempts[a]
           /\ attempts[a].state # "RESERVED" => attempts'[a].state # "RESERVED"
<1>1. ASSUME NEW new, NEW s, Reserved(new, s)
      PROVE  attempts'[a] = attempts[a] /\ a \in DOMAIN attempts'
    BY <1>1 DEF Reserved
<1>2. ASSUME NEW b \in DOMAIN attempts, Moved(b), b = a,
             attempts[a].state # "RESERVED"
      PROVE  attempts'[a].state # "RESERVED"
    BY <1>2 DEF Moved
<1> QED
    BY <1>1, <1>2, RequestSteps DEF Moved, LinkUsage

(* A linked row stays as it was written.                                    *)
LEMMA LinkedRowsStay ==
    ASSUME Inv, [LedgerStep]_vars, NEW r \in DOMAIN requests, requests[r].row # Null,
           requests[r].row \in DOMAIN usage
    PROVE  /\ r \in DOMAIN requests' /\ requests'[r].row = requests[r].row
           /\ requests[r].row \in DOMAIN usage'
           /\ usage'[requests[r].row] = usage[requests[r].row]
<1> DEFINE u == requests[r].row
<1>1. requests \in [DOMAIN requests -> RequestRows] /\ policy # Null
    BY DEF Inv, TypeOK, LedgerInv, PolicyFirst
<1>2. CASE Admissions
    <2>1. ASSUME NEW new, NEW req, NEW s, InsertRequests(new, req, s)
          PROVE  r \in DOMAIN requests' /\ requests'[r] = requests[r]
        BY <2>1 DEF InsertRequests
    <2> QED
        BY <1>2, <2>1 DEF Admissions, Reserve, ReserveScoped, Retry
<1>3. CASE RowSteps
    <2>1. ASSUME NEW v \in Rows \ DOMAIN usage, NEW cost, WriteUsage(v, cost)
          PROVE  u \in DOMAIN usage' /\ usage'[u] = usage[u] /\ UNCHANGED requests
        BY <2>1 DEF WriteUsage
    <2>2. ASSUME NEW v \in Rows \ DOMAIN usage, NEW cost, NEW q \in DOMAIN requests,
                 LinkUsage(q, v, cost)
          PROVE  /\ u \in DOMAIN usage' /\ usage'[u] = usage[u]
                 /\ r \in DOMAIN requests' /\ requests'[r] = requests[r]
        BY <1>1, <2>2 DEF LinkUsage, NotFinalized
    <2>3. ASSUME NEW D, DeleteRows(D)
          PROVE  u \in DOMAIN usage' /\ usage'[u] = usage[u] /\ UNCHANGED requests
        BY <1>1, <2>3 DEF DeleteRows, Deletable, Linked
    <2> QED
        BY <1>3, <2>1, <2>2, <2>3 DEF RowSteps
<1>4. CASE UNCHANGED <<requests, usage>>
    BY <1>4
<1> QED
    BY <1>2, <1>3, <1>4, OutcomesMove
       DEF LedgerStep, Moved, PolicyStep, InitializePolicy, DetectBackwardClock, Freeze,
           ClockStep, Tick, ClockStepBack, vars

-------------------------------------------------------------------------------
(* Nothing but an outcome makes room *)

(* Every attempt owes a natural number at any instant.                      *)
LiabilitiesNat ==
    \A a \in DOMAIN attempts, since \in Int : Liability(attempts[a], since) \in Nat

LEMMA LiabilityNat == Inv => LiabilitiesNat
<1> SUFFICES ASSUME Inv, NEW a \in DOMAIN attempts, NEW since \in Int
             PROVE  Liability(attempts[a], since) \in Nat
    BY DEF LiabilitiesNat
<1>1. /\ policy \in Policies /\ policy.watermark \in Time
      /\ attempts[a] \in AttemptRows /\ ColumnsAgree(attempts[a], policy.watermark)
    BY PolicyThere DEF Inv, TypeOK, LedgerInv
<1> QED
    BY <1>1, RowNat

LEMMA LiabilityNatNext == Inv' => LiabilitiesNat'
BY LiabilityNat, PTL

(* The tables are finite after a step, too.                                 *)
LEMMA TablesFiniteNext ==
    ASSUME TypeOK'
    PROVE  IsFiniteSet(DOMAIN attempts') /\ IsFiniteSet(DOMAIN usage')
BY FS_Subset, LedgerAssumption DEF TypeOK

(* While no attempt is forgotten or owes less, the attempts owe no less.    *)
LEMMA AttemptsOweNoLess ==
    ASSUME Inv, Inv', NEW since \in Int, DOMAIN attempts \subseteq DOMAIN attempts',
           \A a \in DOMAIN attempts :
              Liability(attempts[a], since) <= Liability(attempts'[a], since)
    PROVE  /\ AttemptExposure(DOMAIN attempts, since) \in Nat
           /\ AttemptExposure(DOMAIN attempts, since)' \in Nat
           /\ AttemptExposure(DOMAIN attempts, since)
                <= AttemptExposure(DOMAIN attempts, since)'
<1> DEFINE f == [a \in DOMAIN attempts |-> Liability(attempts[a], since)]
           g == [a \in DOMAIN attempts' |-> Liability(attempts'[a], since)]
<1>1. IsFiniteSet(DOMAIN attempts) /\ IsFiniteSet(DOMAIN attempts')
    BY TablesFinite, TablesFiniteNext DEF Inv
<1>2. \A a \in DOMAIN attempts : f[a] \in Nat /\ g[a] \in Nat /\ f[a] <= g[a]
    BY LiabilityNat, LiabilityNatNext DEF LiabilitiesNat
<1>3. TotalOver(f, DOMAIN attempts) <= TotalOver(g, DOMAIN attempts')
    BY <1>1, <1>2, TotalMonotone
<1> QED
    BY <1>1, <1>3, TotalNat DEF AttemptExposure

(* While every unlinked row that costs something stays as it is, the rows   *)
(* cost no less.                                                            *)
LEMMA RowsCostNoLess ==
    ASSUME TypeOK, TypeOK', NEW since \in Int,
           \A u \in DOMAIN usage \ Linked :
              \/ usage[u].cost = 0
              \/ u \in DOMAIN usage' /\ u \notin Linked' /\ usage'[u] = usage[u]
    PROVE  /\ UsageExposure(since) \in Nat /\ UsageExposure(since)' \in Nat
           /\ UsageExposure(since) <= UsageExposure(since)'
<1> DEFINE S == DOMAIN usage \ Linked
           T == DOMAIN usage' \ Linked'
           Z == {u \in S : usage[u].cost = 0}
           K == S \ Z
           f == [u \in S |-> IF InWindow(usage[u].at, since) THEN usage[u].cost ELSE 0]
           g == [u \in T |-> IF InWindow(usage'[u].at, since) THEN usage'[u].cost ELSE 0]
<1>1. IsFiniteSet(S) /\ IsFiniteSet(T) /\ IsFiniteSet(Z) /\ IsFiniteSet(K)
    BY TablesFinite, TablesFiniteNext, FS_Subset
<1>2. K \subseteq T /\ K \cap Z = {} /\ S = K \cup Z
    OBVIOUS
<1>3. \A u \in K : f[u] \in Nat /\ g[u] = f[u] /\ g[u] \in Nat /\ f[u] <= g[u]
    <2>1. \A u \in K : u \in DOMAIN usage /\ u \in T /\ usage'[u] = usage[u] /\ usage[u].cost \in Nat
        BY DEF TypeOK, UsageRows
    <2> QED
        BY <2>1
<1>4. \A u \in Z : f[u] = 0
    OBVIOUS
<1>5. UsageExposure(since) = TotalOver(f, S) /\ UsageExposure(since)' = TotalOver(g, T)
    BY DEF UsageExposure
<1> HIDE DEF f, g, S, T, K, Z
<1>6. TotalOver(f, K \cup Z) = TotalOver(f, K) + TotalOver(f, Z)
    BY <1>1, <1>2, TotalDisjoint
<1>7. TotalOver(f, Z) = 0
    BY <1>4, TotalZero
<1>8. TotalOver(f, K) <= TotalOver(g, T)
    BY <1>1, <1>2, <1>3, TotalMonotone
<1>9. TotalOver(f, S) \in Nat /\ TotalOver(g, T) \in Nat /\ TotalOver(f, K) \in Nat
    BY <1>1, TotalNat
<1> QED
    BY <1>2, <1>5, <1>6, <1>7, <1>8, <1>9

(* The outcomes that release a liability.                                   *)
Releases(a) ==
    \/ attempts[a].state = "RESERVED" /\ attempts'[a].state = "CANCELLED"
    \/ /\ attempts[a].state \in {"DISPATCHING", "UNCERTAIN"}
       /\ attempts'[a].state = "SETTLED"

(* A step that releases nothing lowers no liability.                        *)
LEMMA LiabilityFallsByRelease ==
    ASSUME Inv, Outcomes, \A a \in DOMAIN attempts : ~Releases(a),
           NEW b \in DOMAIN attempts, NEW since \in Int
    PROVE  Liability(attempts[b], since) <= Liability(attempts'[b], since)
<1>1. PICK a \in DOMAIN attempts :
         \/ \E fence \in Nat :
               \/ BeginDispatch(a, fence)
               \/ Cancel(a, fence)
               \/ \E charge \in Nanos \cup {Null} : Settle(a, fence, charge)
         \/ \E charge \in Nanos : Reconcile(a, charge)
    BY DEF Outcomes
<1>2. /\ attempts \in [DOMAIN attempts -> AttemptRows] /\ attempts[a] \in AttemptRows
      /\ attempts[a].bound \in Nat /\ Liability(attempts[b], since) \in Nat
    BY LiabilityNat, MaxNanosAssumption DEF LiabilitiesNat, Inv, TypeOK, AttemptRows, Nanos
<1>3. CASE \E fence : BeginDispatch(a, fence)
    BY <1>2, <1>3 DEF BeginDispatch, Liability, Unresolved, AttemptRows
<1>4. CASE \E fence : Cancel(a, fence)
    <2>1. attempts[a].state = "RESERVED" /\ attempts'[a].state = "CANCELLED"
        BY <1>2, <1>4 DEF Cancel, AttemptRows
    <2> QED
        BY <2>1 DEF Releases
<1>5. ASSUME NEW charge \in Nanos \cup {Null}, Terminal(a, charge),
             attempts[a].state \in {"DISPATCHING", "UNCERTAIN"}
      PROVE  Liability(attempts[b], since) <= Liability(attempts'[b], since)
    <2>1. CASE b # a
        BY <1>2, <1>5, <2>1 DEF Terminal
    <2>2. CASE b = a
        <3>1. Liability(attempts[a], since) = attempts[a].bound
            BY <1>5 DEF Liability, Unresolved
        <3>2. charge # Null => charge \in Nat
            BY LedgerAssumption, MaxNanosAssumption DEF Nanos
        <3>3. /\ attempts'[a].bound = attempts[a].bound
              /\ attempts'[a].charge = charge
              /\ attempts'[a].state = IF charge = Null THEN "UNCERTAIN"
                                      ELSE IF ExceedsBound(a, charge) THEN "BREACH"
                                      ELSE "SETTLED"
            BY <1>2, <1>5 DEF Terminal, AttemptRows
        <3>4. attempts'[a].state # "SETTLED"
            BY <1>5 DEF Releases
        <3>5. CASE charge = Null
            BY <1>2, <2>2, <3>1, <3>3, <3>5 DEF Liability, Unresolved
        <3>6. CASE charge # Null
            <4>1. attempts'[a].state = "BREACH" /\ charge > attempts[a].bound
                BY <3>3, <3>4, <3>6 DEF ExceedsBound
            <4>2. Liability(attempts'[a], since) = charge
                BY <3>3, <4>1 DEF Liability, Unresolved
            <4> QED
                BY <1>2, <2>2, <3>1, <3>2, <3>6, <4>1, <4>2
        <3> QED
            BY <3>5, <3>6
    <2> QED
        BY <2>1, <2>2
<1> QED
    BY <1>1, <1>3, <1>4, <1>5 DEF Settle, Reconcile, Reconcilable

(* What a step that releases nothing leaves: every attempt owes as much, and *)
(* every unlinked row that costs something stays.                           *)
LEMMA NothingElseReleases ==
    ASSUME Inv, Inv', policy # Null, LedgerStep,
           \A a \in DOMAIN attempts : ~Releases(a), NEW since \in Int
    PROVE  /\ policy'.opening = policy.opening
           /\ DOMAIN attempts \subseteq DOMAIN attempts'
           /\ \A a \in DOMAIN attempts :
                Liability(attempts[a], since) <= Liability(attempts'[a], since)
           /\ \A u \in DOMAIN usage \ Linked :
                \/ usage[u].cost = 0
                \/ u \in DOMAIN usage' /\ u \notin Linked' /\ usage'[u] = usage[u]
<1>1. /\ policy \in Policies
      /\ \A a \in DOMAIN attempts : Liability(attempts[a], since) \in Nat
    BY LiabilityNat DEF LiabilitiesNat, Inv, TypeOK
<1>2. \A a \in DOMAIN attempts : attempts'[a] = attempts[a] =>
         Liability(attempts[a], since) <= Liability(attempts'[a], since)
    BY <1>1
<1>3. CASE Admissions
    <2>1. /\ AdvanceWatermark /\ usage' = usage
          /\ \E new, s : Reserved(new, s)
        <3>1. ASSUME NEW new \in SUBSET FreshAttempts, NEW req \in [new -> FreshRequests],
                     NEW quote \in [new -> Quotes],
                     \/ Reserve(new, req, quote)
                     \/ \E s \in Scopes \ DOMAIN scopes, cap \in Nanos :
                           ReserveScoped(new, req, quote, s, cap)
              PROVE  <2>1
            <4>1. PICK s : /\ InsertReserved(new, req, quote) /\ InsertRequests(new, req, s)
                           /\ usage' = usage /\ AdvanceWatermark
                BY <3>1 DEF Reserve, ReserveScoped
            <4> QED
                BY <4>1, ReserveReserves
        <3>2. ASSUME NEW a \in FreshAttempts, NEW r \in DOMAIN requests, NEW quote \in Quotes,
                     Retry(a, r, quote)
              PROVE  <2>1
            BY <3>2, RetryReserves DEF Retry
        <3> QED
            BY <1>3, <3>1, <3>2 DEF Admissions
    <2>2. PICK new, s : Reserved(new, s)
        BY <2>1
    <2>3. /\ DOMAIN attempts \subseteq DOMAIN attempts'
          /\ \A a \in DOMAIN attempts : attempts'[a] = attempts[a]
        BY <2>2 DEF Reserved
    <2>4. \A r \in DOMAIN requests' :
             \/ r \in DOMAIN requests /\ requests'[r] = requests[r]
             \/ requests'[r].row = Null
        BY <2>2 DEF Reserved
    <2>5. \A u \in DOMAIN usage : u # Null
        BY LedgerAssumption DEF Inv, TypeOK
    <2>6. \A u \in DOMAIN usage \ Linked : u \notin Linked'
        BY <2>4, <2>5 DEF Linked
    <2>7. policy'.opening = policy.opening
        BY <1>1, <2>1 DEF AdvanceWatermark, Policies
    <2> QED
        BY <1>2, <2>1, <2>3, <2>6, <2>7
<1>4. CASE Outcomes
    <2>1. policy'.opening = policy.opening
        BY <1>1, <1>4 DEF Outcomes, BeginDispatch, AdvanceWatermark, Cancel, Settle, Reconcile,
                          Terminal, FreezeForBreach, Policies
    <2>2. UNCHANGED <<requests, usage>> /\ DOMAIN attempts' = DOMAIN attempts
        BY <1>4, OutcomesMove DEF Moved
    <2>3. \A u \in DOMAIN usage \ Linked : u \in DOMAIN usage' /\ u \notin Linked' /\ usage'[u] = usage[u]
        BY <2>2 DEF Linked
    <2> QED
        BY <1>4, <2>1, <2>2, <2>3, LiabilityFallsByRelease
<1>5. CASE RowSteps
    <2>1. UNCHANGED <<policy, attempts>>
        BY <1>5 DEF RowSteps, WriteUsage, LinkUsage, DeleteRows
    <2>2. ASSUME NEW v \in Rows \ DOMAIN usage, NEW cost, WriteUsage(v, cost),
                 NEW u \in DOMAIN usage \ Linked
          PROVE  u \in DOMAIN usage' /\ u \notin Linked' /\ usage'[u] = usage[u]
        BY <2>2 DEF WriteUsage, Linked
    <2>3. ASSUME NEW v \in Rows \ DOMAIN usage, NEW cost, NEW r \in DOMAIN requests,
                 LinkUsage(r, v, cost), NEW u \in DOMAIN usage \ Linked
          PROVE  u \in DOMAIN usage' /\ u \notin Linked' /\ usage'[u] = usage[u]
        <3>1. requests \in [DOMAIN requests -> RequestRows] /\ u # v
            BY DEF Inv, TypeOK
        <3>2. Linked' \subseteq Linked \cup {v}
            BY <2>3, <3>1 DEF LinkUsage, Linked, RequestRows
        <3> QED
            BY <2>3, <3>1, <3>2 DEF LinkUsage
    <2>4. ASSUME NEW D, DeleteRows(D), NEW u \in DOMAIN usage \ Linked
          PROVE  \/ usage[u].cost = 0
                 \/ u \in DOMAIN usage' /\ u \notin Linked' /\ usage'[u] = usage[u]
        BY <2>4 DEF DeleteRows, Deletable, Linked
    <2>5. \A u \in DOMAIN usage \ Linked :
             \/ usage[u].cost = 0
             \/ u \in DOMAIN usage' /\ u \notin Linked' /\ usage'[u] = usage[u]
        BY <1>5, <2>2, <2>3, <2>4 DEF RowSteps
    <2> QED
        BY <1>2, <2>1, <2>5
<1>6. CASE PolicyStep \/ ClockStep
    <2>1. UNCHANGED <<attempts, requests, usage>> /\ policy'.opening = policy.opening
        BY <1>1, <1>6 DEF PolicyStep, InitializePolicy, DetectBackwardClock, Freeze, Policies,
                          ClockStep, Tick, ClockStepBack
    <2> QED
        BY <1>2, <2>1 DEF Linked
<1> QED
    BY <1>3, <1>4, <1>5, <1>6 DEF LedgerStep

(* Room under the caps is only made by outcomes: linking, deleting and      *)
(* purging rows, freezing, retrying and dispatching never lower the         *)
(* exposure at any instant.                                                 *)
THEOREM LedgerReleasesByOutcome == Spec => ReleasedByOutcome
<1>1. ASSUME Inv, Inv', LedgerStep, policy # Null, NEW t \in Time,
             \A a \in DOMAIN attempts : ~Releases(a)
      PROVE  ~(Exposure(t)' < Exposure(t))
    <2> DEFINE since == t - Day
    <2>1. since \in Int
        BY LedgerAssumption DEF Time
    <2>2. policy.opening \in Nat /\ policy'.opening = policy.opening
        BY <1>1, <2>1, NothingElseReleases, MaxNanosAssumption
           DEF Inv, TypeOK, Policies, Nanos
    <2> HIDE DEF since
    <2>3. /\ AttemptExposure(DOMAIN attempts, since) \in Nat
          /\ AttemptExposure(DOMAIN attempts, since)' \in Nat
          /\ AttemptExposure(DOMAIN attempts, since)
               <= AttemptExposure(DOMAIN attempts, since)'
        BY <1>1, <2>1, NothingElseReleases, AttemptsOweNoLess
    <2>4. /\ UsageExposure(since) \in Nat /\ UsageExposure(since)' \in Nat
          /\ UsageExposure(since) <= UsageExposure(since)'
        BY <1>1, <2>1, NothingElseReleases, RowsCostNoLess DEF Inv
    <2>5. /\ Exposure(t) = policy.opening + AttemptExposure(DOMAIN attempts, since)
                           + UsageExposure(since)
          /\ Exposure(t)' = policy'.opening + AttemptExposure(DOMAIN attempts, since)'
                            + UsageExposure(since)'
        BY DEF Exposure, since
    <2> QED
        BY <2>2, <2>3, <2>4, <2>5
<1>2. Inv /\ Inv' /\ [LedgerStep]_vars =>
         [policy # Null =>
            \A t \in Time : Exposure(t)' < Exposure(t) =>
               \E a \in DOMAIN attempts :
                  \/ attempts[a].state = "RESERVED" /\ attempts'[a].state = "CANCELLED"
                  \/ /\ attempts[a].state \in {"DISPATCHING", "UNCERTAIN"}
                     /\ attempts'[a].state = "SETTLED"]_vars
    BY <1>1 DEF Releases
<1> QED
    BY <1>2, SpecInv, PTL DEF ReleasedByOutcome

-------------------------------------------------------------------------------
(* The budget ledger implements the spending authority, for every number of *)
(* attempts and every clock (LedgerAuthority has the mapping).              *)

(* A step that touches one row of the ledger touches one account.           *)
LEMMA OneAccount ==
    ASSUME Inv, NEW a \in DOMAIN attempts, policy \in Policies, policy' \in Policies,
           policy'.watermark = policy.watermark,
           NEW row, attempts' = [attempts EXCEPT ![a] = row]
    PROVE  /\ DOMAIN Accounted = DOMAIN attempts
           /\ Accounted[a] = AccountOf(attempts[a], policy.watermark)
           /\ Accounted' = [Accounted EXCEPT ![a] = AccountOf(row, policy.watermark)]
BY DEF Accounted

(* What a row stands for before its outcome is known.                       *)
LEMMA OpenAccount ==
    ASSUME NEW row \in AttemptRows, NEW w \in Time, row.state \in Unresolved \cup {"BREACH"}
    PROVE  /\ AmountOf(row) = row.bound
           /\ CountsAt(row, w) = TRUE
           /\ row.state = "RESERVED" => PhaseOf(row) = "held"
           /\ row.state = "DISPATCHING" => PhaseOf(row) = "spending"
           /\ row.state = "UNCERTAIN" => PhaseOf(row) = "unknown"
           /\ row.state = "BREACH" => PhaseOf(row) = "exceeded"
BY DEF AmountOf, CountsAt, PhaseOf, Unresolved

(* A cancelled reservation is released.                                     *)
LEMMA CancelReleases ==
    ASSUME Inv, NEW a \in DOMAIN attempts, NEW fence, Cancel(a, fence)
    PROVE  Authority!Release(a)
<1> DEFINE row == [attempts[a] EXCEPT !.state = "CANCELLED", !.fence = @ + 1]
           w == policy.watermark
<1>1. /\ policy \in Policies /\ w \in Time /\ policy' = policy
      /\ attempts[a] \in AttemptRows /\ attempts[a].state = "RESERVED"
    BY PolicyThere DEF Cancel, Inv, TypeOK
<1>2. attempts' = [attempts EXCEPT ![a] = row]
    BY <1>1 DEF Cancel, Inv, TypeOK, AttemptRows
<1>3. row.state = "CANCELLED"
    BY <1>1 DEF AttemptRows
<1> HIDE DEF row
<1>4. AccountOf(row, w) = [phase |-> "released", amount |-> 0, counts |-> TRUE]
    BY <1>3 DEF AccountOf, PhaseOf, AmountOf, CountsAt
<1>5. /\ DOMAIN Accounted = DOMAIN attempts
      /\ Accounted[a] = AccountOf(attempts[a], w)
      /\ Accounted' = [Accounted EXCEPT ![a] = AccountOf(row, w)]
    BY <1>1, <1>2, OneAccount
<1>6. Accounted[a] = [phase |-> "held", amount |-> attempts[a].bound, counts |-> TRUE]
    BY <1>1, <1>5, OpenAccount DEF AccountOf, Unresolved
<1> QED
    BY <1>1, <1>4, <1>5, <1>6 DEF Authority!Release, Authority!Standing, Room, Stopped

(* A terminal outcome is learned, lost, or exceeds the grant.               *)
LEMMA TerminalAccounts ==
    ASSUME Inv, NEW a \in DOMAIN attempts, NEW charge \in Amounts \cup {Null},
           attempts[a].state \in {"DISPATCHING", "UNCERTAIN"},
           charge = Null => attempts[a].state = "DISPATCHING",
           Terminal(a, charge)
    PROVE  \/ Authority!LoseTrack(a)
           \/ Authority!Exceed(a)
           \/ \E cost \in Amounts, counts \in BOOLEAN : Authority!Learn(a, cost, counts)
<1> DEFINE breach == ExceedsBound(a, charge)
           state == IF charge = Null THEN "UNCERTAIN"
                    ELSE IF breach THEN "BREACH" ELSE "SETTLED"
           row == [attempts[a] EXCEPT !.state = state, !.charge = charge, !.fence = @ + 1]
           w == policy.watermark
<1>1. /\ policy \in Policies /\ w \in Time /\ attempts[a] \in AttemptRows
      /\ attempts[a].bound \in Nat /\ (charge # Null => charge \in Nat)
    BY PolicyThere, LedgerAssumption, MaxNanosAssumption
       DEF Inv, TypeOK, AttemptRows, Nanos
<1>2. /\ policy' \in Policies /\ policy'.watermark = w
      /\ policy'.opening = policy.opening /\ policy'.limit = policy.limit
      /\ breach => policy'.frozen # "no"
      /\ ~breach => policy' = policy
    BY <1>1 DEF Terminal, FreezeForBreach, Policies
<1>3. attempts' = [attempts EXCEPT ![a] = row]
    BY <1>1 DEF Terminal, Inv, TypeOK, AttemptRows
<1>4. /\ row.state = state /\ row.charge = charge
      /\ row.bound = attempts[a].bound
    BY <1>1 DEF AttemptRows
<1>5. /\ Room' = Room
      /\ ~breach => Stopped' = Stopped
      /\ breach => Stopped'
    <2>1. policy # Null /\ policy' # Null
        BY <1>1, <1>2, LedgerAssumption DEF Policies, Time
    <2> QED
        BY <1>2, <2>1 DEF Room, Stopped
<1> HIDE DEF row, state, breach
<1>6. /\ DOMAIN Accounted = DOMAIN attempts
      /\ Accounted[a] = AccountOf(attempts[a], w)
      /\ Accounted' = [Accounted EXCEPT ![a] = AccountOf(row, w)]
    BY <1>1, <1>2, <1>3, OneAccount
<1>7. /\ Accounted[a].phase \in {"spending", "unknown"}
      /\ attempts[a].state = "DISPATCHING" => Accounted[a].phase = "spending"
      /\ Accounted[a].amount = attempts[a].bound
    <2>1. /\ PhaseOf(attempts[a]) \in {"spending", "unknown"}
          /\ attempts[a].state = "DISPATCHING" => PhaseOf(attempts[a]) = "spending"
          /\ AmountOf(attempts[a]) = attempts[a].bound
        BY <1>1, OpenAccount DEF Unresolved
    <2> QED
        BY <1>6, <2>1 DEF AccountOf
<1>8. CASE charge = Null
    <2>1. state = "UNCERTAIN" /\ ~breach
        BY <1>8 DEF ExceedsBound, state, breach
    <2>2. AccountOf(row, w) = [phase |-> "unknown", amount |-> attempts[a].bound,
                               counts |-> TRUE]
        BY <1>4, <2>1 DEF AccountOf, PhaseOf, AmountOf, CountsAt
    <2> QED
        BY <1>5, <1>6, <1>7, <1>8, <2>1, <2>2 DEF Authority!LoseTrack, Authority!Standing
<1>9. CASE charge # Null /\ breach
    <2>1. AccountOf(row, w) = [phase |-> "exceeded", amount |-> attempts[a].bound,
                               counts |-> TRUE]
        BY <1>4, <1>9 DEF AccountOf, PhaseOf, AmountOf, CountsAt, state
    <2>2. Stopped' = TRUE
        BY <1>5, <1>9 DEF Stopped
    <2> QED
        BY <1>5, <1>6, <1>7, <2>1, <2>2 DEF Authority!Exceed, Authority!Standing
<1>10. CASE charge # Null /\ ~breach
    <2> DEFINE counts == CountsAt(row, w)
    <2>1. counts \in BOOLEAN
        BY DEF CountsAt
    <2>2. AccountOf(row, w) = [phase |-> "paid", amount |-> charge, counts |-> counts]
        BY <1>4, <1>10 DEF AccountOf, PhaseOf, AmountOf, state
    <2>3. charge \in Amounts /\ charge <= Accounted[a].amount
        BY <1>1, <1>7, <1>10 DEF ExceedsBound, breach
    <2>4. Authority!Learn(a, charge, counts)
        BY <1>5, <1>6, <1>7, <1>10, <2>2, <2>3 DEF Authority!Learn, Authority!Standing
    <2> QED
        BY <2>1, <2>3, <2>4
<1> QED
    BY <1>8, <1>9, <1>10

(* The authority adds amounts up as the ledger does.                        *)
LEMMA SameTotal == \A f, S : Authority!TotalOver(f, S) = TotalOver(f, S)
BY DEF Authority!TotalOver, TotalOver, Authority!Cardinality, Cardinality

(* What an account counts for is what its row is certified for.             *)
LEMMA CountsAsCertified ==
    ASSUME NEW row \in AttemptRows, NEW w \in Time
    PROVE  (IF AccountOf(row, w).counts THEN AccountOf(row, w).amount ELSE 0)
              = CertifiedLiability(row, w - Day)
BY DEF AccountOf, CountsAt, AmountOf, CertifiedLiability, AttemptRows, Unresolved

(* When the watermark advances to v, known charges may leave the day, and   *)
(* nothing else happens to the accounts.                                    *)
LEMMA AccountsAge ==
    ASSUME Inv, policy \in Policies, NEW v \in Time, policy.watermark <= v
    PROVE  \E F \in SUBSET Authority!Paid :
              Authority!Without(F) = [b \in DOMAIN attempts |-> AccountOf(attempts[b], v)]
<1> DEFINE w == policy.watermark
           F == {b \in DOMAIN attempts : ~CountsAt(attempts[b], v)}
<1>1. w \in Int /\ v \in Int /\ Day \in Int
    BY LedgerAssumption DEF Policies, Time
<1>2. F \in SUBSET Authority!Paid
    BY DEF CountsAt, Accounted, AccountOf, PhaseOf, Authority!Paid
<1>3. ASSUME NEW b \in DOMAIN attempts
      PROVE  (IF b \in F THEN [AccountOf(attempts[b], w) EXCEPT !.counts = FALSE]
              ELSE AccountOf(attempts[b], w)) = AccountOf(attempts[b], v)
    <2>1. attempts[b].state = "SETTLED" => attempts[b].dispatchedAt \in Int
        BY <1>1 DEF Inv, LedgerInv, ColumnsAgree
    <2>2. CASE b \in F
        <3>1. CountsAt(attempts[b], v) = FALSE
            BY <2>2 DEF CountsAt
        <3> QED
            BY <2>2, <3>1 DEF AccountOf
    <2>3. CASE b \notin F
        <3>1. CountsAt(attempts[b], v) = TRUE /\ CountsAt(attempts[b], w) = TRUE
            BY <1>1, <2>1, <2>3 DEF CountsAt
        <3> QED
            BY <2>3, <3>1 DEF AccountOf
    <2> QED
        BY <2>2, <2>3
<1>4. Authority!Without(F) = [b \in DOMAIN attempts |-> AccountOf(attempts[b], v)]
    BY <1>3 DEF Authority!Without, Accounted
<1> QED
    BY <1>2, <1>4

(* A dispatch starts to spend.                                              *)
LEMMA DispatchSpends ==
    ASSUME Inv, NEW a \in DOMAIN attempts, NEW fence, BeginDispatch(a, fence)
    PROVE  \E F \in SUBSET Authority!Paid : Authority!StartSpending(a, F)
<1> DEFINE row == [attempts[a] EXCEPT !.state = "DISPATCHING", !.fence = @ + 1,
                                      !.dispatchedAt = clock]
<1>1. /\ policy \in Policies /\ policy # Null /\ policy.frozen = "no"
      /\ clock \in Time /\ policy.watermark \in Time
      /\ policy.watermark <= clock
      /\ attempts[a] \in AttemptRows /\ attempts[a].state = "RESERVED"
    BY PolicyThere DEF BeginDispatch, PolicyOpen, Inv, TypeOK, Time
<1>2. /\ policy' \in Policies /\ policy' # Null /\ policy'.watermark = clock
      /\ policy'.frozen = "no"
      /\ policy'.opening = policy.opening /\ policy'.limit = policy.limit
    BY <1>1, LedgerAssumption DEF BeginDispatch, AdvanceWatermark, Policies, Time
<1>3. attempts' = [attempts EXCEPT ![a] = row]
    BY <1>1 DEF BeginDispatch, Inv, TypeOK, AttemptRows
<1>4. row.state = "DISPATCHING" /\ row.bound = attempts[a].bound
    BY <1>1 DEF AttemptRows
<1> HIDE DEF row
<1>5. PICK F \in SUBSET Authority!Paid :
         Authority!Without(F) = [b \in DOMAIN attempts |-> AccountOf(attempts[b], clock)]
    BY <1>1, AccountsAge
<1>6. /\ AccountOf(row, clock) = [phase |-> "spending", amount |-> attempts[a].bound,
                                  counts |-> TRUE]
      /\ AccountOf(attempts[a], clock).amount = attempts[a].bound
      /\ Accounted[a].phase = "held"
    BY <1>1, <1>4 DEF Accounted, AccountOf, PhaseOf, AmountOf, CountsAt
<1>7. Accounted' = [[b \in DOMAIN attempts |-> AccountOf(attempts[b], clock)]
                      EXCEPT ![a] = AccountOf(row, clock)]
    BY <1>2, <1>3 DEF Accounted
<1>8. Accounted' = [Authority!Without(F) EXCEPT ![a] = Authority!Standing("spending", @.amount, TRUE)]
    BY <1>5, <1>6, <1>7 DEF Authority!Standing
<1>9. ~Stopped /\ Room' = Room /\ Stopped' = Stopped
    BY <1>1, <1>2 DEF Stopped, Room
<1> QED
    BY <1>6, <1>8, <1>9 DEF Authority!StartSpending

(* A reservation is granted.                                                *)
LEMMA AdmissionGrants ==
    ASSUME Inv, Inv', NEW new \in SUBSET FreshAttempts,
           NEW req, NEW quote \in [new -> Quotes],
           Admitted(new, quote), AdvanceWatermark, InsertReserved(new, req, quote)
    PROVE  \E F \in SUBSET Authority!Paid, amount \in [new -> Amounts] :
              Authority!Grant(new, amount, F)
<1> DEFINE D == DOMAIN attempts
           amount == [a \in new |-> quote[a].bound]
<1>1. /\ policy \in Policies /\ policy # Null /\ policy.frozen = "no"
      /\ clock \in Time /\ policy.watermark \in Time /\ policy.watermark <= clock
      /\ new # {}
    BY DEF Admitted, PolicyOpen, Inv, TypeOK, Policies, Time
<1>2. /\ policy' \in Policies /\ policy' # Null /\ policy'.watermark = clock
      /\ policy'.frozen = "no"
      /\ policy'.opening = policy.opening /\ policy'.limit = policy.limit
      /\ policy.opening \in Int /\ policy.limit \in Int
    BY <1>1, LedgerAssumption, MaxNanosAssumption DEF AdvanceWatermark, Policies, Time, Nanos
<1>3. amount \in [new -> Amounts]
    BY DEF Quotes
<1>4. DOMAIN attempts' = D \cup new /\ D \cap new = {}
    BY DEF InsertReserved, FreshAttempts
<1>5. PICK F \in SUBSET Authority!Paid :
         Authority!Without(F) = [b \in D |-> AccountOf(attempts[b], clock)]
    BY <1>1, AccountsAge
<1>6. ASSUME NEW a \in D \cup new
      PROVE  AccountOf(attempts'[a], clock)
               = IF a \in new THEN Authority!Standing("held", amount[a], TRUE)
                 ELSE Authority!Without(F)[a]
    <2>1. CASE a \in new
        <3>1. attempts'[a].state = "RESERVED" /\ attempts'[a].bound = quote[a].bound
            BY <2>1 DEF InsertReserved
        <3> QED
            BY <2>1, <3>1 DEF AccountOf, PhaseOf, AmountOf, CountsAt, Authority!Standing
    <2>2. CASE a \notin new
        BY <1>5, <2>2 DEF InsertReserved
    <2> QED
        BY <2>1, <2>2
<1>7. /\ DOMAIN Accounted = D
      /\ Accounted' = [a \in D \cup new |-> AccountOf(attempts'[a], clock)]
    BY <1>2, <1>4 DEF Accounted
<1>8. Accounted' = [a \in DOMAIN Accounted \cup new |->
                      IF a \in new THEN Authority!Standing("held", amount[a], TRUE)
                      ELSE Authority!Without(F)[a]]
    BY <1>6, <1>7
<1>9. Authority!Committed' <= Room
    <2> DEFINE counted == [a \in D \cup new |->
                              IF AccountOf(attempts'[a], clock).counts
                              THEN AccountOf(attempts'[a], clock).amount ELSE 0]
               certified == [a \in D \cup new |->
                                CertifiedLiability(attempts'[a], clock - Day)]
    <2>1. \A a \in D \cup new : attempts'[a] \in AttemptRows
        BY <1>4 DEF Inv, TypeOK
    <2>2. counted = certified
        BY <1>1, <2>1, CountsAsCertified
    <2>3. Authority!Committed' = TotalOver(counted, D \cup new)
        <3> DEFINE known == [a \in DOMAIN Accounted' |->
                                IF Accounted'[a].counts THEN Accounted'[a].amount ELSE 0]
        <3>1. DOMAIN Accounted' = D \cup new
            BY <1>7
        <3>2. \A a \in D \cup new : Accounted'[a] = AccountOf(attempts'[a], clock)
            BY <1>7
        <3>3. known = counted
            BY <3>1, <3>2
        <3>4. Authority!Committed' = TotalOver(known, DOMAIN Accounted')
            BY SameTotal DEF Authority!Committed
        <3> QED
            BY <3>1, <3>3, <3>4
    <2>4. policy.opening + TotalOver(certified, D \cup new) <= policy.limit
        BY <1>1, <1>2, <1>4 DEF Inv, CapRespected, CertifiedExposure
    <2>5. TotalOver(certified, D \cup new) \in Nat
        BY <1>4, TablesFinite, FS_Subset, FS_Union, LedgerAssumption, TotalNat
           DEF Inv, FreshAttempts
    <2> QED
        BY <1>1, <1>2, <2>2, <2>3, <2>4, <2>5 DEF Room
<1>10. ~Stopped /\ Room # Null /\ Room' = Room /\ Stopped' = Stopped
    BY <1>1, <1>2, LedgerAssumption DEF Stopped, Room
<1> HIDE DEF amount
<1>11. Authority!Grant(new, amount, F)
    BY <1>1, <1>8, <1>9, <1>10 DEF Authority!Grant
<1> QED
    BY <1>3, <1>5, <1>11

(* While the attempts and the policy stay as they are, so do the accounts.  *)
LEMMA QuietStutters ==
    ASSUME UNCHANGED <<policy, attempts>>
    PROVE  UNCHANGED Authority!aVars
BY DEF Authority!aVars, Room, Stopped, Accounted

(* A policy opens the authority, and a freeze stops it.                     *)
LEMMA PolicyStepsOpenOrStop ==
    ASSUME Inv, PolicyStep
    PROVE  \/ \E n \in (-MaxNanos)..MaxNanos : Authority!Open(n)
           \/ Authority!Stop
<1>1. ASSUME NEW limit \in Limits, NEW opening \in Openings,
             InitializePolicy(limit, opening)
      PROVE  \E n \in (-MaxNanos)..MaxNanos : Authority!Open(n)
    <2>1. /\ policy = Null /\ policy' # Null /\ attempts' = attempts
          /\ DOMAIN attempts = {}
          /\ policy'.limit = limit /\ policy'.opening = opening /\ policy'.frozen = "no"
        <3>1. policy' \in Policies
            BY <1>1, LedgerAssumption DEF InitializePolicy, Policies, Inv, TypeOK, Time, Nanos
        <3> QED
            BY <1>1, <3>1, LedgerAssumption
               DEF InitializePolicy, Inv, LedgerInv, PolicyFirst, Policies, Time
    <2>2. limit - opening \in (-MaxNanos)..MaxNanos
        BY LedgerAssumption, MaxNanosAssumption DEF Nanos
    <2>3. Accounted' = Accounted
        BY <2>1 DEF Accounted
    <2>4. Authority!Open(limit - opening)
        BY <2>1, <2>3 DEF Authority!Open, Room, Stopped
    <2> QED
        BY <2>2, <2>4
<1>2. CASE DetectBackwardClock \/ Freeze
    <2>1. policy \in Policies
        BY <1>2 DEF Inv, TypeOK, DetectBackwardClock, Freeze
    <2>2. /\ policy' \in Policies /\ policy'.frozen # "no" /\ attempts' = attempts
          /\ policy'.limit = policy.limit /\ policy'.opening = policy.opening
          /\ policy'.watermark = policy.watermark
        BY <1>2, <2>1 DEF DetectBackwardClock, Freeze, Policies
    <2>3. policy # Null /\ policy' # Null
        BY <2>1, <2>2, LedgerAssumption DEF Policies, Time
    <2> QED
        BY <2>2, <2>3 DEF Authority!Stop, Room, Stopped, Accounted
<1> QED
    BY <1>1, <1>2 DEF PolicyStep

(* Every step of the ledger is a step of the authority, or none.            *)
LEMMA StepImplements == Inv /\ Inv' /\ [Next]_vars => [Authority!aNext]_(Authority!aVars)
<1> SUFFICES ASSUME Inv, Inv', [Next]_vars
             PROVE  [Authority!aNext]_(Authority!aVars)
    OBVIOUS
<1>1. DOMAIN Accounted = DOMAIN attempts
    BY DEF Accounted
<1>2. CASE Admission
    <2>1. \E new \in SUBSET FreshAttempts, F \in SUBSET Authority!Paid :
             \E amount \in [new -> Amounts] : Authority!Grant(new, amount, F)
        <3>1. ASSUME NEW new \in Batches, NEW req \in [new -> FreshRequests],
                     NEW quote \in [new -> Quotes],
                     \/ Reserve(new, req, quote)
                     \/ \E s \in Scopes \ DOMAIN scopes, cap \in Limits :
                           ReserveScoped(new, req, quote, s, cap)
              PROVE  <2>1
            <4>1. /\ new \in SUBSET FreshAttempts /\ Admitted(new, quote)
                  /\ AdvanceWatermark /\ InsertReserved(new, req, quote)
                BY <3>1 DEF Batches, Reserve, ReserveScoped
            <4> QED
                BY <4>1, AdmissionGrants
        <3>2. ASSUME NEW a \in FreshAttempts, NEW r \in DOMAIN requests,
                     NEW quote \in Quotes, Retry(a, r, quote)
              PROVE  <2>1
            <4> DEFINE q == [b \in {a} |-> quote]
                       req == [b \in {a} |-> r]
            <4>1. /\ {a} \in SUBSET FreshAttempts /\ q \in [{a} -> Quotes]
                  /\ Admitted({a}, q) /\ AdvanceWatermark /\ InsertReserved({a}, req, q)
                BY <3>2 DEF Retry
            <4> QED
                BY <4>1, AdmissionGrants
        <3> QED
            BY <1>2, <3>1, <3>2 DEF Admission
    <2> QED
        BY <1>1, <2>1 DEF Authority!aNext, FreshAttempts
<1>3. CASE AttemptStep
    <2>1. PICK a \in DOMAIN attempts :
             \/ \E fence \in 0..attempts[a].fence :
                   \/ BeginDispatch(a, fence)
                   \/ Cancel(a, fence)
                   \/ \E charge \in Amounts \cup {Null} : Settle(a, fence, charge)
             \/ \E charge \in Amounts : Reconcile(a, charge)
        BY <1>3 DEF AttemptStep
    <2>2. ASSUME NEW fence, BeginDispatch(a, fence)
          PROVE  Authority!aNext
        BY <1>1, <2>2, DispatchSpends DEF Authority!aNext
    <2>3. ASSUME NEW fence, Cancel(a, fence)
          PROVE  Authority!aNext
        BY <1>1, <2>3, CancelReleases DEF Authority!aNext
    <2>4. ASSUME NEW fence, NEW charge \in Amounts \cup {Null}, Settle(a, fence, charge)
          PROVE  Authority!aNext
        <3>1. \/ Authority!LoseTrack(a)
              \/ Authority!Exceed(a)
              \/ \E cost \in Amounts, counts \in BOOLEAN : Authority!Learn(a, cost, counts)
            BY <2>4, TerminalAccounts DEF Settle
        <3> QED
            BY <1>1, <3>1 DEF Authority!aNext
    <2>5. ASSUME NEW charge \in Amounts, Reconcile(a, charge)
          PROVE  Authority!aNext
        <3>1. charge # Null
            BY LedgerAssumption DEF Nanos
        <3>2. \/ Authority!LoseTrack(a)
              \/ Authority!Exceed(a)
              \/ \E cost \in Amounts, counts \in BOOLEAN : Authority!Learn(a, cost, counts)
            BY <2>5, <3>1, TerminalAccounts DEF Reconcile, Reconcilable
        <3> QED
            BY <1>1, <3>2 DEF Authority!aNext
    <2> QED
        BY <2>1, <2>2, <2>3, <2>4, <2>5
<1>4. CASE UsageStep \/ ClockStep \/ UNCHANGED vars
    <2>1. UNCHANGED <<policy, attempts>>
        BY <1>4 DEF UsageStep, WriteUsage, LinkUsage, DeleteUsageRow, PurgeUsage,
                    DeleteRows, ClockStep, Tick, ClockStepBack, vars
    <2> QED
        BY <2>1, QuietStutters
<1>5. CASE PolicyStep
    BY <1>5, PolicyStepsOpenOrStop DEF Authority!aNext
<1> QED
    BY <1>2, <1>3, <1>4, <1>5 DEF Next

(* The ledger implements the spending authority, whatever its callers, the  *)
(* clock and the usage table do.                                            *)
THEOREM LedgerIsAnAuthority == Spec => ImplementsAuthority
<1>1. Init => Authority!aInit
    BY DEF Init, Authority!aInit, Room, Stopped, Accounted
<1> QED
    BY <1>1, SpecInv, StepImplements, PTL
       DEF Spec, ImplementsAuthority, Authority!aSpec

==============================================================================
