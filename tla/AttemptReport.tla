---------------------------- MODULE AttemptReport ----------------------------
(****************************************************************************)
(* What an adapter tells the engine of one paid attempt, as                 *)
(* Engine._dispatch_bounded (src/ylang/core/engine.py) receives it: shared  *)
(* by the engine, which acts on any such report, and by the native adapter, *)
(* which must make no other.                                                *)
(****************************************************************************)
EXTENDS Nanos

\* A charge is Null when billability is unknown, and only a trusted failure
\* may be retried.
Report(kind, charge, retry) == [kind |-> kind, charge |-> charge, retry |-> retry]

NoReport == Report("none", Null, FALSE)

\* What the call can see of an attempt with this bound that is billed so
\* much: a validated answer, a trusted failure, an exception without charge
\* evidence, an interrupt of the calling thread, or a contract violation of a
\* native provider, whose charge is told when it is above the bound.
Reportable(report, bound, billed) ==
    \/ /\ report.charge = Null
       /\ report.kind \in {"unknown", "interrupt", "violation"} /\ ~report.retry
    \/ /\ report.charge # Null /\ billed <= report.charge
       /\ \/ report.kind = "answer" /\ ~report.retry /\ report.charge <= bound
          \/ report.kind = "failure" /\ (report.retry => report.charge <= bound)
          \/ report.kind = "violation" /\ ~report.retry /\ report.charge > bound

==============================================================================
