------------------------------ MODULE ImproverCache ------------------------------
(****************************************************************************)
(* The two caches of improvements: a dictionary in each process             *)
(* (src/ylang/improver/improver.py) and the table improver_cache that the   *)
(* processes share (src/ylang/improver/cache_store.py).  Both keep an entry *)
(* for TTL; an entry found in the table is put into the dictionary for a    *)
(* TTL of its own.                                                          *)
(*                                                                          *)
(* A key stands for the text, the tool and the mode; what else goes into an *)
(* improvement (facts, templates, experiments, settings) is not in the key. *)
(* An entry has the time it has left, where the code has the time at which  *)
(* it expires, and one past its time is as good as none.  The monotonic     *)
(* clock of the dictionaries and the wall clock of the table are taken to   *)
(* run at one pace.                                                         *)
(****************************************************************************)
EXTENDS Integers

CONSTANTS
    Processes,      \* servers that share the database
    Keys,           \* cache keys
    Null,
    TTL             \* _IMPROVE_CACHE_TTL_SEC

ASSUME CacheAssumption == TTL \in Nat

VARIABLES
    memory,         \* _improve_cache of each process
    disk            \* the table improver_cache

cacheVars == <<memory, disk>>

-------------------------------------------------------------------------------
\* An entry tells the age of its improvement, which the code does not keep, and
\* whether the text was faithful.
Entry(age, faithful) == [age |-> age, left |-> TTL, faithful |-> faithful]

\* The processes start with what earlier ones have left in the table.
CacheInit ==
    /\ memory = [p \in Processes |-> [k \in Keys |-> Null]]
    /\ disk \in [Keys -> {Null} \cup {[age |-> a, left |-> TTL - a, faithful |-> TRUE] : a \in 0..TTL}]

MemoryHit(p, k) == memory[p][k] # Null /\ UNCHANGED cacheVars

\* The entry of another process, or of an earlier one, is armed again.
DiskHit(p, k) ==
    /\ memory[p][k] = Null /\ disk[k] # Null
    /\ memory' = [memory EXCEPT ![p][k] = Entry(disk[k].age, disk[k].faithful)]
    /\ UNCHANGED disk

Miss(p, k) == memory[p][k] = Null /\ disk[k] = Null /\ UNCHANGED cacheVars

\* _set_cached_improvement
Fill(p, k, faithful) ==
    /\ memory' = [memory EXCEPT ![p][k] = Entry(0, faithful)]
    /\ disk' = [disk EXCEPT ![k] = Entry(0, faithful)]

\* A unit of time passes.

\* (mutant) an entry stays for ever
NeverExpires(e) == IF e = Null THEN Null ELSE [e EXCEPT !.age = @ + 1]

Older(e) ==
    IF e = Null \/ e.left = 0 THEN Null
    ELSE [age |-> e.age + 1, left |-> e.left - 1, faithful |-> e.faithful]

Pass ==
    /\ memory' = [p \in Processes |-> [k \in Keys |-> Older(memory[p][k])]]
    /\ disk' = [k \in Keys |-> Older(disk[k])]

================================================================================
