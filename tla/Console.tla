--------------------------------- MODULE Console ---------------------------------
(****************************************************************************)
(* Governed changes (src/ylang/console/proposals.py, apply_audit.py) over   *)
(* the template library, the runtime settings and the experiments: analytics*)
(* become suggestions (usage/optimizer.py, experiment winners), a page shows*)
(* those that are pending, and an operator applies one, perhaps much later. *)
(* An apply writes and commits piece by piece and records itself in the     *)
(* audit log last; console forms, MCP tools and other applies go on         *)
(* meanwhile, and a process may die.                                        *)
(*                                                                          *)
(* Left out: settings that nothing here reads back; suggestions without an  *)
(* apply action; the cut of pending lists to five and twenty-five.          *)
(****************************************************************************)
EXTENDS Library

CONSTANTS
    Learned,        \* template ids that start with "learned-"
    Variants,       \* variants of the experiment, in the order of their ids
    Findings,       \* what the analytics may say, one at a time
    MaxRequests     \* bound on applies, direct changes and changes of the analytics

ASSUME ConsoleAssumption ==
    /\ Learned \subseteq Templates
    /\ Variants \subseteq Nat /\ Variants # {}
    /\ MaxRequests \in Nat
    /\ Findings \subseteq [slow : BOOLEAN,            \* timeouts, low accept rate
                           high : SUBSET Templates,   \* accept rate of 60% or more
                           zero : SUBSET Templates,   \* accept rate of zero
                           used : SUBSET Templates,   \* injected at least once
                           repeated : SUBSET Templates,  \* patterns, by suggested id
                           winner : Variants \cup {Null}]

VARIABLES
    preferred,      \* runtime setting retrieval_preferred_template_ids
    limit,          \* runtime setting learned_template_limit
    active,         \* active variants of the experiment
    audit,          \* apply_audit_log: the proposals that it names
    evidence,       \* what the analytics say now
    page,           \* the proposals of the page shown last
    req,            \* the apply that each actor is making
    answer,         \* how the last one of each actor has ended
    begun           \* those so far

settingVars == <<preferred, limit, active>>
consoleVars == <<settingVars, audit, evidence, page, req, answer, begun>>
vars == <<libraryVars, consoleVars>>

-------------------------------------------------------------------------------
(* Proposals *)

Proposal(kind, ids) == [kind |-> kind, ids |-> ids]

Preferred == IF preferred = Null THEN {} ELSE preferred

Archived == {t \in Templates : heads[t] # Null /\ heads[t].visibility = "archived"}

Public == {t \in Templates : heads[t] # Null /\ heads[t].visibility = "public"}

\* The proposals that set a setting, and the value they set.
Settings == {"trim", "raise", "preset"}
Limit(kind) == IF kind = "raise" THEN 3 ELSE 1

\* The suggestions that can be applied: for a slow or refused improver, ...
ImproverSuggestions == IF evidence.slow /\ limit # 1 THEN {Proposal("trim", {})} ELSE {}

\* ... for templates that do well or badly, ...
TemplateSuggestions ==
    {Proposal("raise", {t}) : t \in IF limit = 3 THEN {} ELSE evidence.high \cap Learned}
    \cup {Proposal("boost", {t}) : t \in evidence.high \ (Learned \cup Preferred)}
    \cup {Proposal("archive", {t}) : t \in evidence.zero \ Archived}

\* ... and for prompts that repeat.
PatternSuggestions ==
    {Proposal("learn", {t}) : t \in evidence.repeated \ (Archived \cup evidence.zero)}

\* generate_optimization_suggestions
Suggestions == ImproverSuggestions \cup TemplateSuggestions \cup PatternSuggestions

\* _experiment_winners
Winners == IF evidence.winner = Null THEN {} ELSE {Proposal("winner", {evidence.winner})}

\* collect_control_proposals
Unused == {t \in Public : Removable(t)} \ evidence.used
Toxic == {t \in evidence.zero : Removable(t)} \ Archived

Controls ==
    {Proposal("facts", {})}
    \cup {Proposal("unused", ids) : ids \in {Unused} \ {{}}}
    \cup {Proposal("toxic", ids) : ids \in {Toxic} \ {{}}}
    \cup {Proposal("preset", {}) : one \in {Limit("preset")} \ {limit}}

\* filter_already_applied
Pending == (Suggestions \cup Winners \cup Controls) \ audit

IsSuggestion(p) == p.kind \in {"trim", "raise", "boost", "archive", "learn"}

-------------------------------------------------------------------------------
(* An apply: [proposal, pc, todo: ids left, seen: the preferred ids that it *)
(* has read, changed: it has written, disturbed: somebody else has].        *)

Kinds == {"trim", "raise", "boost", "archive", "learn", "winner", "facts", "unused", "toxic",
          "preset"}
Places == {"match", "set", "archive", "archiving", "switch", "save", "saving", "audit"}

Applies == [proposal : [kind : Kinds, ids : SUBSET (Templates \cup Variants)],
            pc : Places, todo : SUBSET (Templates \cup Variants),
            seen : SUBSET Templates, changed : BOOLEAN, disturbed : BOOLEAN]

ASSUME ApplyAssumption == Null \notin Applies

At(a, pc) == req[a] # Null /\ req[a].pc = pc /\ Idle(a)

KindOf(a) == req[a].proposal.kind

\* Where the work of a proposal starts.
WorkOf(kind) ==
    CASE kind \in Settings \cup {"boost"}          -> "set"
      [] kind \in {"archive", "unused", "toxic"}   -> "archive"
      [] kind = "winner"                           -> "switch"
      [] kind = "learn"                            -> "save"
      [] kind = "facts"                            -> "audit"

NewApply(p) ==
    [proposal |-> p, pc |-> IF IsSuggestion(p) THEN "match" ELSE WorkOf(p.kind),
     todo |-> IF p.kind = "winner" THEN Variants ELSE p.ids,
     seen |-> {}, changed |-> FALSE, disturbed |-> FALSE]

End(a, result) ==
    /\ req' = [req EXCEPT ![a] = Null]
    /\ answer' = [answer EXCEPT ![a] = result]

\* What an actor writes outside its own apply disturbs those of the others.
Disturbed(a) ==
    [b \in Actors |-> IF b = a \/ req[b] = Null THEN req[b]
                      ELSE [req[b] EXCEPT !.disturbed = TRUE]]

Goes(a, pc) == [Disturbed(a) EXCEPT ![a].pc = pc, ![a].changed = TRUE]

ShowPage ==
    /\ page' = Pending
    /\ page' # page
    /\ UNCHANGED <<libraryVars, settingVars, audit, evidence, req, answer, begun>>

\* apply_proposal, with the id that a page has shown
Apply(a, p) ==
    /\ begun < MaxRequests /\ begun' = begun + 1
    /\ Idle(a) /\ req[a] = Null
    /\ p \in page
    /\ req' = [req EXCEPT ![a] = NewApply(p)]
    /\ answer' = [answer EXCEPT ![a] = "none"]
    /\ UNCHANGED <<libraryVars, settingVars, audit, evidence, page>>

\* A suggestion must still be one; a boost reads the list it will extend.
Match(a) ==
    /\ At(a, "match")
    /\ IF req[a].proposal \in Suggestions
       THEN /\ req' = [req EXCEPT ![a].pc = WorkOf(KindOf(a)), ![a].seen = Preferred]
            /\ UNCHANGED answer
       ELSE End(a, "refused")
    /\ UNCHANGED <<libraryVars, settingVars, audit, evidence, page, begun>>

\* _apply_runtime_setting
SetSetting(a) ==
    /\ At(a, "set")
    /\ IF KindOf(a) = "boost"
       THEN preferred' = req[a].seen \cup req[a].proposal.ids /\ UNCHANGED limit
       ELSE limit' = Limit(KindOf(a)) /\ UNCHANGED preferred
    /\ req' = Goes(a, "audit")
    /\ UNCHANGED <<libraryVars, active, audit, evidence, page, answer, begun>>

\* _apply_archive_templates: each id in turn
ArchiveNext(a, t) ==
    /\ At(a, "archive") /\ t \in req[a].todo
    /\ op' = [op EXCEPT ![a] = OtherOp("archive", t)]
    /\ req' = [req EXCEPT ![a].todo = @ \ {t}, ![a].pc = "archiving"]
    /\ UNCHANGED <<heads, versions, listed, saves, settingVars, audit, evidence, page,
                   answer, begun>>

\* What archive_template has answered: false counts for nothing, an exception
\* ends the apply.
ArchiveReturns(a) ==
    /\ At(a, "archiving")
    /\ IF op[a].result = "error" THEN End(a, "failed")
       ELSE /\ req' = [req EXCEPT ![a].pc = "archive",
                                  ![a].changed = req[a].changed \/ op[a].result = "ok"]
            /\ UNCHANGED answer
    /\ UNCHANGED <<libraryVars, settingVars, audit, evidence, page, begun>>

\* (mutant) nothing has been archived, and it counts
AllowNone(a) == TRUE

SomeArchived(a) == req[a].changed

ArchivesEnd(a) ==
    /\ At(a, "archive") /\ req[a].todo = {}
    /\ IF SomeArchived(a)
       THEN req' = [req EXCEPT ![a].pc = "audit"] /\ UNCHANGED answer
       ELSE End(a, "refused")
    /\ UNCHANGED <<libraryVars, settingVars, audit, evidence, page, begun>>

\* (mutant) the variant that wins is activated, the others are left
ActivateOnly(a, v) == IF v \in req[a].proposal.ids THEN active \cup {v} ELSE active

Switched(a, v) == IF v \in req[a].proposal.ids THEN active \cup {v} ELSE active \ {v}

\* _apply_experiment_winner: set_active for one variant after the other
SwitchVariant(a) ==
    LET v    == CHOOSE x \in req[a].todo : \A y \in req[a].todo : x <= y
        left == req[a].todo \ {v}
    IN  /\ At(a, "switch")
        /\ active' = Switched(a, v)
        /\ req' = [Goes(a, IF left = {} THEN "audit" ELSE "switch") EXCEPT ![a].todo = left]
        /\ UNCHANGED <<libraryVars, preferred, limit, audit, evidence, page, answer, begun>>

\* save_learned_template
SaveLearned(a) ==
    LET t == CHOOSE x \in req[a].proposal.ids : TRUE
    IN  /\ At(a, "save")
        /\ MayBegin(SaveOp(t, "learned", Null))
        /\ op' = [op EXCEPT ![a] = SaveOp(t, "learned", Null)]
        /\ req' = [req EXCEPT ![a].pc = "saving"]
        /\ UNCHANGED <<heads, versions, listed, saves, settingVars, audit, evidence, page,
                       answer, begun>>

SaveReturns(a) ==
    /\ At(a, "saving")
    /\ IF op[a].result = "error" THEN End(a, "failed")
       ELSE /\ req' = [req EXCEPT ![a].pc = "audit", ![a].changed = TRUE]
            /\ UNCHANGED answer
    /\ UNCHANGED <<libraryVars, settingVars, audit, evidence, page, begun>>

\* record, last of all
Record(a) ==
    /\ At(a, "audit")
    /\ audit' = audit \cup {req[a].proposal}
    /\ End(a, "applied")
    /\ UNCHANGED <<libraryVars, settingVars, evidence, page, begun>>

-------------------------------------------------------------------------------
(* What goes on around an apply *)

\* A step of an operation on the library; a write disturbs the others.
Operate(a) ==
    /\ LibraryStep(a)
    /\ req' = IF heads' = heads THEN req ELSE Disturbed(a)
    /\ UNCHANGED <<settingVars, audit, evidence, page, answer, begun>>

\* Forms and tools that operate on the library by themselves, and commands
\* that open it.
Direct(a) ==
    /\ req[a] = Null
    /\ \/ begun < MaxRequests /\ begun' = begun + 1 /\ \E o \in Requests : Begin(a, o)
       \/ (\E t \in Seeds : EnsureSeed(a, t)) /\ UNCHANGED begun
    /\ UNCHANGED <<settingVars, audit, evidence, page, req, answer>>

\* The settings form, its reset, and the experiments' toggle.
Configure(a) ==
    /\ Idle(a) /\ req[a] = Null
    /\ begun < MaxRequests /\ begun' = begun + 1
    /\ \/ preferred' \in ((SUBSET Templates) \ {{}}) \cup {Null} /\ UNCHANGED <<limit, active>>
       \/ limit' \in {1, 3, Null} /\ UNCHANGED <<preferred, active>>
       \/ \E v \in Variants : active' \in {active \cup {v}, active \ {v}}
                              /\ UNCHANGED <<preferred, limit>>
    /\ req' = Disturbed(a)
    /\ UNCHANGED <<libraryVars, audit, evidence, page, answer>>

\* Calls come in and the analytics change.
Observe ==
    /\ begun < MaxRequests /\ begun' = begun + 1
    /\ evidence' \in Findings \ {evidence}
    /\ UNCHANGED <<libraryVars, settingVars, audit, page, req, answer>>

ListTemplates(p) == List(p) /\ UNCHANGED consoleVars

Stop(p) ==
    /\ StopLibrary(p)
    /\ req' = [a \in Actors |-> IF ProcessOf[a] = p THEN Null ELSE req[a]]
    /\ answer' = [a \in Actors |-> IF ProcessOf[a] = p THEN "none" ELSE answer[a]]
    /\ UNCHANGED <<settingVars, audit, evidence, page, begun>>

Init ==
    /\ LibraryInit
    /\ preferred = Null /\ limit = Null
    /\ active = Variants
    /\ audit = {} /\ page = {}
    /\ evidence \in Findings
    /\ req = [a \in Actors |-> Null]
    /\ answer = [a \in Actors |-> "none"]
    /\ begun = 0

ApplyStep(a) ==
    \/ Match(a) \/ SetSetting(a)
    \/ \E t \in Templates : ArchiveNext(a, t)
    \/ ArchiveReturns(a) \/ ArchivesEnd(a)
    \/ SwitchVariant(a) \/ SaveLearned(a) \/ SaveReturns(a) \/ Record(a)

Next ==
    \/ ShowPage \/ Observe
    \/ \E a \in Actors :
          \/ \E p \in page : Apply(a, p)
          \/ ApplyStep(a) \/ Operate(a) \/ Direct(a) \/ Configure(a)
    \/ \E p \in Processes : ListTemplates(p) \/ Stop(p)

Spec == Init /\ [][Next]_vars

-------------------------------------------------------------------------------
(* Correctness *)

InEffect(a) ==
    LET ids  == req[a].proposal.ids
        list == listed[ProcessOf[a]]
    IN  CASE KindOf(a) = "boost"  -> Preferred = req[a].seen \cup ids
          [] KindOf(a) \in Settings -> limit = Limit(KindOf(a))
          [] KindOf(a) = "winner" -> active = ids
          [] KindOf(a) = "learn"  -> \E t \in ids : heads[t] # Null /\ heads[t].source = "learned"
          [] KindOf(a) = "facts"  -> TRUE
          [] OTHER                -> /\ ids \cap Archived # {}
                                     /\ list # Null => ids \cap Archived \cap list = {}

(* An apply that nobody has disturbed has done what it is about to record:
   the winner alone is active, the list of preferred templates has kept what
   it had, what was to be archived or saved is, and its process does not
   list an archived template any more (proposals.py:300).                   *)
AuditTellsTheTruth ==
    \A a \in Actors : At(a, "audit") /\ ~req[a].disturbed => InEffect(a)

(* An apply that answers "refused" has changed nothing, and one that answers
   "applied" has changed something and is in the audit log; only an apply
   that fails half way, or whose process dies, leaves a change behind that
   no record tells of (apply_audit.py:33).                                  *)
AnswersAreTrue ==
    [][\A a \in Actors : req[a] # Null /\ req'[a] = Null =>
          /\ answer'[a] = "refused" => ~req[a].changed
          /\ answer'[a] = "applied" => /\ req[a].proposal \in audit'
                                       /\ req[a].changed \/ KindOf(a) = "facts"]_vars

================================================================================
