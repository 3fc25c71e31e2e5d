---------------------------- MODULE LedgerAuthority ----------------------------
(* The budget ledger as a spending authority: the refinement mapping.       *)
EXTENDS HardBudget

PhaseOf(row) ==
    CASE row.state = "RESERVED" -> "held"
      [] row.state = "DISPATCHING" -> "spending"
      [] row.state = "UNCERTAIN" -> "unknown"
      [] row.state = "SETTLED" -> "paid"
      [] row.state = "CANCELLED" -> "released"
      [] row.state = "BREACH" -> "exceeded"

\* A breach counts for what was admitted; the charge beyond it froze the
\* policy.
AmountOf(row) ==
    CASE row.state = "SETTLED" -> row.charge
      [] row.state = "CANCELLED" -> 0
      [] OTHER -> row.bound

\* Settled charges stop counting when the watermark is a day past their
\* dispatch.
CountsAt(row, w) == row.state = "SETTLED" => row.dispatchedAt >= w - Day

AccountOf(row, w) ==
    [phase |-> PhaseOf(row), amount |-> AmountOf(row), counts |-> CountsAt(row, w)]

Room == IF policy = Null THEN Null ELSE policy.limit - policy.opening
Stopped == policy # Null /\ policy.frozen # "no"
Accounted == [a \in DOMAIN attempts |-> AccountOf(attempts[a], policy.watermark)]

Authority == INSTANCE SpendingAuthority
             WITH room <- Room, stopped <- Stopped, account <- Accounted

(* Whatever callers, clocks and the usage table do, the ledger acts as a
   spending authority: grants fit, only a known outcome makes room, a known
   outcome is final, and after a breach or a freeze nothing is reserved or
   dispatched (HardBudgetStore as a whole).                                 *)
ImplementsAuthority == Authority!aSpec

==============================================================================
