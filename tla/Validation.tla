-------------------------------- MODULE Validation --------------------------------
(****************************************************************************)
(* What becomes of the answer of a model that was asked to improve a prompt *)
(* (src/ylang/improver: parse.py, validate.py, salvage.py, and the paths of *)
(* improver.py between them).                                               *)
(*                                                                          *)
(* An answer is what the checks tell of it, each by a feature: the regular  *)
(* expressions, ratios and similarity measures behind them are left out,    *)
(* and so is the critique's own prompt.  Features that bear on each other   *)
(* are only related as far as a verdict depends on it.                      *)
(****************************************************************************)
EXTENDS Naturals

\* changed: improved differs from original; cited: changes[] is not empty;
\* scope: whether a change has kind scope, and if so _scope_preserves_intent;
\* restructuring: _is_restructuring; numbers, quotes, modals, sequencing: these
\* survive in the improved text; anchored: every change is found in the original
\* and examples have placeholders; replays: _replay does not raise;
\* intent: passes no threshold, that of _try_salvage, or also the others;
\* length: out of bounds, within the bounds if changes are cited, or anyhow;
\* layout: without structure, structured as the original was or as it was not
\* (_has_structured_expansion), or headed (_is_restructured_spec);
\* minor: _is_minor_clarity_edit; working: the mode is one of _SALVAGE_MODES;
\* short: the original is short enough for a skeleton.
Answers ==
    [changed : BOOLEAN, cited : BOOLEAN, scope : {"none", "kept", "lost"},
     restructuring : BOOLEAN, numbers : BOOLEAN, quotes : BOOLEAN, modals : BOOLEAN,
     sequencing : BOOLEAN, anchored : BOOLEAN, replays : BOOLEAN,
     intent : 0..2, length : 0..2, layout : {"plain", "structured", "new", "headed"},
     minor : BOOLEAN, working : BOOLEAN, short : BOOLEAN]

-------------------------------------------------------------------------------
(* Salvage *)

\* Structure that the original did not have
Respecified(a) == a.layout \in {"new", "headed"}

Structured(a) == a.layout # "plain"

\* (mutant) a restructured answer is not compared any more
TrySalvageTrusting(a) ==
    /\ a.changed /\ a.intent >= 1
    /\ \/ Respecified(a)
       \/ a.working /\ Structured(a) /\ a.numbers /\ a.quotes

\* _try_salvage
TrySalvage(a) ==
    /\ a.changed /\ a.intent >= 1 /\ a.numbers /\ a.quotes
    /\ Respecified(a) \/ (a.working /\ Structured(a))

\* _salvage_omitted_changes
SalvageOmitted(a) ==
    /\ a.changed
    /\ a.numbers /\ a.quotes /\ a.length = 2
    /\ \/ a.minor /\ a.modals
       \/ ~a.minor /\ a.intent = 2 /\ (Respecified(a) \/ a.modals)

\* _try_salvage_validation_failure; for changed numbers it asks the question
\* again that has been answered.
SalvageFailure(a, reason) ==
    \/ reason \in {"empty", "anchor"} /\ (SalvageOmitted(a) \/ TrySalvage(a))
    \/ /\ reason = "numbers"
       /\ a.numbers /\ a.quotes /\ a.modals /\ a.intent = 2 /\ a.length >= 1

-------------------------------------------------------------------------------
(* _validate *)

\* _validation_failure_reason and the replay: the first check that fails.
FailureReason(a) ==
    IF a.length = 0 THEN "length"
    ELSE IF ~a.numbers THEN "numbers"
    ELSE IF ~a.quotes THEN "quotes"
    ELSE IF ~a.restructuring /\ ~(a.modals /\ a.sequencing) THEN "words"
    ELSE IF ~a.anchored THEN "anchor"
    ELSE IF a.scope = "lost" THEN "intent"
    ELSE IF ~a.replays /\ a.scope = "none" THEN "anchor"
    ELSE "none"

\* The reason for which an answer is refused.
Refusal(a) ==
    IF a.cited THEN FailureReason(a)
    ELSE IF a.changed /\ ~SalvageOmitted(a) THEN "empty" ELSE "none"

\* _salvage_invalid_result: the model's text is taken after all, ...
Salvaged(a) ==
    \/ TrySalvage(a)
    \/ Refusal(a) = "anchor" /\ SalvageOmitted(a)
    \/ Refusal(a) \in {"empty", "anchor", "numbers"} /\ SalvageFailure(a, Refusal(a))

\* ... or a skeleton is built around the original.
Skeleton(a) == Refusal(a) = "length" /\ a.short

\* _try_salvage_parse_failure
SalvagedSpec(a) == a.numbers /\ a.quotes /\ (a.layout = "headed" \/ TrySalvage(a))

-------------------------------------------------------------------------------
(* Verdicts *)

\* Is the text that is taken from the model faithful to the original?  Numbers
\* and quotations are in it; modal verbs are, unless it is a new specification.
Faithful(a) ==
    \/ ~a.changed
    \/ /\ a.numbers /\ a.quotes
       /\ a.modals \/ a.restructuring \/ Structured(a)

\* An outcome: "improved" is valid and changes the text; "kept" is valid and
\* unchanged, or refused; "repaired" comes from salvage, from a skeleton or
\* from an answer that cannot be parsed.
Outcome(kind, faithful) == [kind |-> kind, faithful |-> faithful]

FromJson(a) ==
    IF Refusal(a) = "none"
    THEN IF a.changed THEN {Outcome("improved", Faithful(a))}
         \* a vague prompt that is not improved gets a skeleton
         ELSE {Outcome(k, TRUE) : k \in IF a.short THEN {"kept", "repaired"} ELSE {"kept"}}
    ELSE IF Salvaged(a) THEN {Outcome("repaired", Faithful(a))}
    ELSE {Outcome(IF Skeleton(a) THEN "repaired" ELSE "kept", TRUE)}

\* Markdown without JSON; prose and broken JSON leave the text as it was.
FromSpec(a) == {Outcome("repaired", SalvagedSpec(a) => Faithful(a))}

OutcomesOf(a) == FromJson(a) \cup FromSpec(a)

\* Everything that can become of an answer.
Outcomes == UNION {OutcomesOf(a) : a \in Answers}

================================================================================
