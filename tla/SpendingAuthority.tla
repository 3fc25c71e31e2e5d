--------------------------- MODULE SpendingAuthority ---------------------------
(****************************************************************************)
(* What the budget ledger promises, without tables, clocks or quotes: an    *)
(* authority with a fixed room grants amounts to attempts.  A grant must    *)
(* fit beside everything that counts; a granted amount counts until the     *)
(* attempt is known to have cost less; a known cost stops counting one day, *)
(* and never counts again; and once an attempt has cost more than it was    *)
(* granted, nothing is granted and nothing starts spending any more.        *)
(****************************************************************************)
EXTENDS Nanos

CONSTANTS Attempts,   \* who asks
          Amounts     \* what is granted, and what it turns out to cost

VARIABLES room,       \* what may count at once, Null until it is open
          stopped,    \* no more grants, no more spending
          account     \* by attempt: its phase, its amount, whether it counts

aVars == <<room, stopped, account>>

Accounts == [phase : {"held", "spending", "unknown", "paid", "released", "exceeded"},
             amount : Nanos, counts : BOOLEAN]

Committed ==
    TotalOver([a \in DOMAIN account |->
                  IF account[a].counts THEN account[a].amount ELSE 0],
              DOMAIN account)

Paid == {a \in DOMAIN account : account[a].phase = "paid"}

\* The accounts once the known costs of F have left the day.
Without(F) == [a \in DOMAIN account |->
                  IF a \in F THEN [account[a] EXCEPT !.counts = FALSE] ELSE account[a]]

Standing(phase, amount, counts) == [phase |-> phase, amount |-> amount, counts |-> counts]

Open(n) ==
    /\ room = Null
    /\ room' = n
    /\ UNCHANGED <<stopped, account>>

\* Amounts for fresh attempts, which fit.
Grant(new, amount, F) ==
    /\ room # Null /\ ~stopped /\ new # {}
    /\ account' = [a \in DOMAIN account \cup new |->
                      IF a \in new
                      THEN Standing("held", amount[a], TRUE)
                      ELSE Without(F)[a]]
    /\ Committed' <= room
    /\ UNCHANGED <<room, stopped>>

StartSpending(a, F) ==
    /\ ~stopped
    /\ account[a].phase = "held"
    /\ account' = [Without(F) EXCEPT ![a] = Standing("spending", @.amount, TRUE)]
    /\ UNCHANGED <<room, stopped>>

Release(a) ==
    /\ account[a].phase = "held"
    /\ account' = [account EXCEPT ![a] = Standing("released", 0, TRUE)]
    /\ UNCHANGED <<room, stopped>>

LoseTrack(a) ==
    /\ account[a].phase = "spending"
    /\ account' = [account EXCEPT ![a] = Standing("unknown", @.amount, TRUE)]
    /\ UNCHANGED <<room, stopped>>

\* The cost is known, and it is within what was granted.
Learn(a, cost, counts) ==
    /\ account[a].phase \in {"spending", "unknown"}
    /\ cost <= account[a].amount
    /\ account' = [account EXCEPT ![a] = Standing("paid", cost, counts)]
    /\ UNCHANGED <<room, stopped>>

Exceed(a) ==
    /\ account[a].phase \in {"spending", "unknown"}
    /\ account' = [account EXCEPT ![a] = Standing("exceeded", @.amount, TRUE)]
    /\ stopped' = TRUE
    /\ UNCHANGED room

Stop ==
    /\ stopped' = TRUE
    /\ UNCHANGED <<room, account>>

aInit == /\ room = Null
         /\ stopped = FALSE
         /\ account = [a \in {} |-> Null]

aNext ==
    \/ \E n \in (-MaxNanos)..MaxNanos : Open(n)
    \/ Stop
    \/ \E a \in DOMAIN account :
         \/ Release(a)
         \/ LoseTrack(a)
         \/ Exceed(a)
         \/ \E cost \in Amounts, counts \in BOOLEAN : Learn(a, cost, counts)
         \/ \E F \in SUBSET Paid : StartSpending(a, F)
    \/ \E new \in SUBSET (Attempts \ DOMAIN account), F \in SUBSET Paid :
         \E amount \in [new -> Amounts] : Grant(new, amount, F)

aSpec == aInit /\ [][aNext]_aVars

==============================================================================
