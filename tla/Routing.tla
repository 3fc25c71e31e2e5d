-------------------------------- MODULE Routing --------------------------------
(****************************************************************************)
(* How a chat request finds a model and how its answer reaches the client:  *)
(* ModelRouter (core/model_router.py) builds an attempt chain from the      *)
(* settings, the provider cooldowns and the usage rows; Engine.complete and *)
(* complete_stream (core/engine.py) walk it and write one usage row; the    *)
(* gateway (gateway/routes.py) turns the result into a JSON body or into    *)
(* server-sent events.                                                      *)
(*                                                                          *)
(* The rows feed back: successes reorder the candidates, and costs drop the *)
(* paid ones.  Calls run at once, a client may hang up on a stream, and the *)
(* store may refuse a row.                                                  *)
(*                                                                          *)
(* A chain is built from one reading of the settings, cooldowns and rows; a *)
(* request has one activity; a delta is a text or a tool call; a paid call  *)
(* costs one unit.  Reservations and settlement are BoundedEngine's.        *)
(****************************************************************************)
EXTENDS Naturals, Sequences, FiniteSets, TLC, SequencesExt

CONSTANTS
    Models,
    Provider,     \* the provider of each model, Null for a local one
    Keyed,        \* the providers whose key is configured
    Native,       \* paid models with a native adapter: it reports no failure to retry
    Certified,    \* paid models with an adapter that may report one
    UnitCost,     \* the known unit cost of each model, 0 if unknown
    Settings,     \* what the operator may configure: [list, floor, band, cap]
    Names,        \* what a client may call the model that it asks for
    Alias,        \* the models that some of the names stand for
    Calls,
    MaxChunks,    \* bound on the chunks of a stream
    Null

\* What is sent to a client beside the text of a model.
Words == {"role", "usage", "finish", "done", "error"}

ASSUME RoutingAssumption ==
    /\ Words \cap Models = {}
    /\ \A s \in Settings : /\ s.list \in Seq(Models) /\ s.list # << >> /\ IsInjective(s.list)
                           /\ s.floor \in Models /\ s.band \in Nat /\ s.cap \in Nat \cup {Null}
    /\ UnitCost \in [Models -> Nat]
    /\ DOMAIN Alias \subseteq Names /\ Alias \in [DOMAIN Alias -> Models]
    /\ Native \cap Certified = {}
    /\ \A m \in Native \cup Certified : Provider[m] # Null

VARIABLES
    settings,     \* the settings in force
    cooled,       \* the providers in cooldown
    rows,         \* the usage rows: [call, model, success, cost]
    call          \* the locals of each call, and what its client has received

vars == <<settings, cooled, rows, call>>

-------------------------------------------------------------------------------
(* ModelRouter *)

IsLocal(m) == Provider[m] = Null

\* is_available: not cooled down, and the key is there.
Available(m) == IsLocal(m) \/ Provider[m] \in Keyed \ cooled

Successes(m) == Cardinality({k \in DOMAIN rows : rows[k].success /\ rows[k].model = m})

\* The entries of a list in the order of their places.
Arranged(list, place) ==
    [k \in 1..Cardinality(DOMAIN place) |-> list[CHOOSE i \in DOMAIN place : place[i] = k]]

\* Those of its entries at I, in the order of the list.
Kept(list, I) == Arranged(list, [i \in I |-> Cardinality({j \in I : j <= i})])

\* Is j placed no later than i?  Most successes first, the order of the list in a draw.
Ahead(list, j, i) ==
    \/ Successes(list[j]) > Successes(list[i])
    \/ Successes(list[j]) = Successes(list[i]) /\ j <= i

\* apply_preference_order: a stable sort
Preferred ==
    LET list == settings.list
    IN  Arranged(list, [i \in DOMAIN list |->
                           Cardinality({j \in DOMAIN list : Ahead(list, j, i)})])

Spent == FoldLeft(LAMBDA sum, row : sum + row.cost, 0, rows)

\* apply_budget_filter: only local models once the cap is reached.
Ordered ==
    LET list == Preferred
    IN  IF settings.cap # Null /\ Spent >= settings.cap
        THEN Kept(list, {i \in DOMAIN list : IsLocal(list[i])}) ELSE list

\* The ranks within the band of the best one, in a list of available models.
Band(ordered) ==
    LET ranked == {i \in DOMAIN ordered : Available(ordered[i])}
    IN  {i \in ranked : \A j \in ranked : i <= j + settings.band}

\* select_from_quality_band: the cheapest known cost, the first without one.
FromBand(ordered, pool) ==
    LET known == {i \in pool : UnitCost[ordered[i]] > 0}
    IN  CHOOSE i \in pool :
            IF known = {} THEN \A j \in pool : i <= j
            ELSE /\ i \in known
                 /\ \A j \in known : \/ UnitCost[ordered[i]] < UnitCost[ordered[j]]
                                     \/ UnitCost[ordered[i]] = UnitCost[ordered[j]] /\ i <= j

\* select_model
Selected(ordered) ==
    IF Band(ordered) = {} THEN settings.floor
    ELSE ordered[FromBand(ordered, Band(ordered))]

\* classify_explicit_model: an alias, or the model of that name; any other name, the
\* automatic ones among them, leaves the choice to the router.
Resolved(name) ==
    IF name \in DOMAIN Alias THEN Alias[name] ELSE IF name \in Models THEN name ELSE Null

\* build_attempt_chain: the model asked for, the selected one, the rest, the floor.
Chain(asked) ==
    LET ordered  == Ordered
        explicit == Resolved(asked)
        all      == (IF explicit = Null THEN << >> ELSE <<explicit>>) \o <<Selected(ordered)>>
                        \o Kept(ordered, {i \in DOMAIN ordered : Available(ordered[i])})
                        \o <<settings.floor>>
    IN  Kept(all, {i \in DOMAIN all : \A j \in 1..(i - 1) : all[j] # all[i]})

-------------------------------------------------------------------------------
(* Calls *)

NoCall == [stage |-> "idle"]

\* how: a JSON body, a stream, or the events of a paid completion already whole.
NewCall(stage, how, asked, chain) ==
    [stage |-> stage, how |-> how, asked |-> asked, chain |-> chain, at |-> 1,
     named |-> Head(chain), cost |-> 0, ok |-> FALSE, emitted |-> FALSE, gone |-> FALSE,
     why |-> "none", out |-> << >>]

Current(c) == call[c].chain[call[c].at]
IsLast(c)  == call[c].at = Len(call[c].chain)
Trying(c)  == call[c].stage = "try"

Route(c) ==
    /\ call[c] = NoCall
    /\ \E asked \in Names \cup {Null}, stream \in BOOLEAN :
          LET chain == Chain(asked)
          IN  call' = [call EXCEPT ![c] =
                  IF ~stream                  THEN NewCall("try", "json", asked, chain)
                  ELSE IF chain[1] \in Native THEN NewCall("again", "buffered", asked, chain)
                  ELSE                             NewCall("try", "stream", asked, chain)]
    /\ UNCHANGED <<settings, cooled, rows>>

\* complete_stream hands a native model to complete, which builds its own chain.
RouteAgain(c) ==
    /\ call[c].stage = "again"
    /\ call' = [call EXCEPT ![c] = NewCall("try", "buffered", @.asked, Chain(@.asked))]
    /\ UNCHANGED <<settings, cooled, rows>>

\* The attempt is the last: a row is written next.
GiveUp(c, why) == call' = [call EXCEPT ![c].stage = "write", ![c].why = why]

GoOn(c, why) == call' = [call EXCEPT ![c].at = @ + 1, ![c].why = why]

\* (mutant) a stream that has spoken falls back too
MayGoOnAnyway(c) == ~IsLast(c)

MayGoOn(c) == ~IsLast(c) /\ ~call[c].emitted

\* A local model fails; mark_failed knows no provider of it.
LocalFails(c) ==
    /\ Trying(c) /\ IsLocal(Current(c))
    /\ GiveUp(c, "local") \/ (MayGoOn(c) /\ GoOn(c, "local"))
    /\ UNCHANGED <<settings, cooled, rows>>

LocalAnswers(c) ==
    /\ Trying(c) /\ call[c].how # "stream" /\ IsLocal(Current(c))
    /\ call' = [call EXCEPT ![c].stage = "write", ![c].ok = TRUE, ![c].named = Current(c)]
    /\ UNCHANGED <<settings, cooled, rows>>

\* No adapter, tools, no reservation, or a stream: the chain ends here.
PaidRefused(c) ==
    /\ Trying(c) /\ ~IsLocal(Current(c))
    /\ GiveUp(c, "refused")
    /\ UNCHANGED <<settings, cooled, rows>>

PaidAnswers(c) ==
    /\ Trying(c) /\ call[c].how # "stream" /\ Current(c) \in Native \cup Certified
    /\ call' = [call EXCEPT ![c].stage = "write", ![c].ok = TRUE, ![c].named = Current(c),
                            ![c].cost = @ + 1]
    /\ UNCHANGED <<settings, cooled, rows>>

\* What a failure is classed as: a rate limit or a server error, or anything else.
Failures == {"retryable", "other"}

\* The provider answers with a rate limit or a server error, or the attempt fails
\* otherwise; a response that came names its model.
PaidFails(c) ==
    /\ Trying(c) /\ call[c].how # "stream" /\ Current(c) \in Native \cup Certified
    /\ \E why \in Failures, n \in {0, 1}, named \in {call[c].named, Current(c)} :
          call' = [call EXCEPT ![c].stage = "write", ![c].why = why, ![c].named = named,
                               ![c].cost = @ + n]
    /\ UNCHANGED <<settings, cooled, rows>>

\* A failure with evidence that a certified adapter allows to retry.
TrustedFailure(c) ==
    /\ Trying(c) /\ call[c].how # "stream" /\ Current(c) \in Certified /\ ~IsLast(c)
    /\ \E why \in Failures, n \in {0, 1} :
          /\ call' = [call EXCEPT ![c].at = @ + 1, ![c].why = why, ![c].cost = @ + n]
          /\ cooled' = IF why = "retryable" THEN cooled \cup {Provider[Current(c)]} ELSE cooled
    /\ UNCHANGED <<settings, rows>>

-------------------------------------------------------------------------------
(* A local stream: each chunk becomes events before the next is pulled.     *)

\* What came as a chunk: a delta, or a usage.
Chunks(out) == Len(SelectSeq(out, LAMBDA e : e \in Models \cup {"usage"}))

\* (mutant) a role with every delta
SayWithRole(out, m) == out \o <<"role", m>>

\* The role goes ahead of the first delta.
Say(out, m) == IF "role" \in ToSet(out) THEN Append(out, m) ELSE out \o <<"role", m>>

Streaming(c) == Trying(c) /\ call[c].how = "stream" /\ IsLocal(Current(c))

StreamDelta(c) ==
    /\ Streaming(c) /\ Chunks(call[c].out) < MaxChunks
    /\ call' = [call EXCEPT ![c].emitted = TRUE, ![c].out = Say(@, Current(c))]
    /\ UNCHANGED <<settings, cooled, rows>>

\* As often as the provider reports one.
StreamUsage(c) ==
    /\ Streaming(c) /\ Chunks(call[c].out) < MaxChunks
    /\ call' = [call EXCEPT ![c].emitted = TRUE, ![c].out = Append(@, "usage")]
    /\ UNCHANGED <<settings, cooled, rows>>

StreamEnds(c) ==
    /\ Streaming(c)
    /\ call' = [call EXCEPT ![c].stage = "write", ![c].ok = TRUE]
    /\ UNCHANGED <<settings, cooled, rows>>

\* (mutant) a client that hangs up leaves a success
HangUpContent(c) == call[c].emitted

\* What the row of an abandoned stream says of its success.
HangUpSuccess(c) == FALSE

\* The client hangs up: the generator is closed where it stands.
HangUp(c) ==
    /\ Streaming(c) /\ call[c].emitted
    /\ call' = [call EXCEPT ![c].stage = "write", ![c].gone = TRUE, ![c].ok = HangUpSuccess(c)]
    /\ UNCHANGED <<settings, cooled, rows>>

-------------------------------------------------------------------------------
(* The row and the answer *)

RowModel(c) == IF call[c].how = "stream" THEN Current(c) ELSE call[c].named

\* _write_traced_usage
WriteRow(c) ==
    /\ call[c].stage = "write"
    /\ rows' = Append(rows, [call |-> c, model |-> RowModel(c), success |-> call[c].ok,
                             cost |-> call[c].cost])
    /\ call' = [call EXCEPT ![c].stage = "answer"]
    /\ UNCHANGED <<settings, cooled>>

\* openai_error_response
Refusal == <<"error">>

\* The store refuses: an error, or a stream that breaks off.
StoreFails(c) ==
    /\ call[c].stage = "write"
    /\ call' = [call EXCEPT ![c].stage = "over",
                            ![c].out = IF call[c].emitted THEN @ ELSE Refusal]
    /\ UNCHANGED <<settings, cooled, rows>>

\* The end of event_stream; one without a word gets an empty one.
Close(out) == (IF "role" \in ToSet(out) THEN out ELSE Append(out, "role")) \o <<"finish", "done">>

\* complete returned: a body, an error, or the chunks of a buffered completion.
Answer(c) ==
    LET the == call[c]
    IN  /\ the.stage = "answer" /\ the.how # "stream"
        /\ call' = [call EXCEPT
               ![c].stage = IF the.how = "buffered" /\ the.ok THEN "text" ELSE "over",
               ![c].out = CASE ~the.ok                        -> Refusal
                            [] the.ok /\ the.how = "json"    -> <<the.named>>
                            [] the.ok /\ the.how # "json"    -> @]
        /\ UNCHANGED <<settings, cooled, rows>>

\* complete_stream is over: its client has gone, or hears of the end or the error.
EndStream(c) ==
    LET the == call[c]
    IN  /\ the.stage = "answer" /\ the.how = "stream"
        /\ call' = [call EXCEPT
               ![c].stage = "over",
               ![c].out = CASE the.gone                               -> @
                            [] ~the.gone /\ the.ok                    -> Close(@)
                            [] ~the.gone /\ ~the.ok /\ the.emitted    -> @ \o <<"finish", "done">>
                            [] ~the.gone /\ ~the.ok /\ ~the.emitted   -> Refusal]
        /\ UNCHANGED <<settings, cooled, rows>>

\* The chunks of a completion that is whole: its text, which may be empty, ...
SendText(c) ==
    /\ call[c].stage = "text"
    /\ \E out \in {Say(call[c].out, call[c].named), call[c].out} :
          call' = [call EXCEPT ![c].stage = "usage", ![c].out = out]
    /\ UNCHANGED <<settings, cooled, rows>>

\* ... then its usage and the end, or the client is gone.
SendUsage(c) ==
    /\ call[c].stage = "usage"
    /\ call' = [call EXCEPT ![c].stage = "over", ![c].out = Close(Append(@, "usage"))]
    /\ UNCHANGED <<settings, cooled, rows>>

StopSending(c) ==
    /\ call[c].stage = "usage"
    /\ call' = [call EXCEPT ![c].stage = "over", ![c].gone = TRUE]
    /\ UNCHANGED <<settings, cooled, rows>>

-------------------------------------------------------------------------------
(* The rest of the world *)

CooldownEnds ==
    /\ \E p \in cooled : cooled' = cooled \ {p}
    /\ UNCHANGED <<settings, rows, call>>

\* apply_settings at the start of the next request.
Reload ==
    /\ \E s \in Settings : settings' = s
    /\ UNCHANGED <<cooled, rows, call>>

Init ==
    /\ settings \in Settings
    /\ cooled = {} /\ rows = << >>
    /\ call = [c \in Calls |-> NoCall]

Attempt(c) ==
    \/ RouteAgain(c)
    \/ LocalAnswers(c) \/ LocalFails(c)
    \/ PaidRefused(c) \/ PaidAnswers(c) \/ PaidFails(c) \/ TrustedFailure(c)
    \/ StreamDelta(c) \/ StreamUsage(c) \/ StreamEnds(c)

Report(c) ==
    \/ WriteRow(c) \/ StoreFails(c) \/ Answer(c) \/ EndStream(c)
    \/ SendText(c) \/ SendUsage(c) \/ StopSending(c)

Next ==
    \/ \E c \in Calls : Route(c) \/ Attempt(c) \/ Report(c) \/ HangUp(c)
    \/ CooldownEnds
    \/ Reload

Spec == Init /\ [][Next]_vars

-------------------------------------------------------------------------------
(* Properties *)

Heard(c) == ToSet(call[c].out) \cap Models
RowsOf(c) == {k \in DOMAIN rows : rows[k].call = c}
Told(c) == call[c] # NoCall /\ call[c].out # << >>

\* A client never hears two models in one answer, whatever fell back, was configured
\* or cooled down meanwhile, and the usage row of the call names the one it heard
\* (the `emitted' flag of complete_stream, the chain rebuilt by complete).
OneVoice ==
    \A c \in Calls : Told(c) =>
        /\ Cardinality(Heard(c)) <= 1
        /\ \A k \in RowsOf(c), m \in Heard(c) : rows[k].model = m

\* "write exactly one usage row at end" (engine.py complete_stream): an answer that is
\* closed has its row, and never two; a stream that has lost its client is no success in
\* the row, and so moves no model up.
RowTellsTheAnswer ==
    \A c \in Calls : Told(c) =>
        /\ Cardinality(RowsOf(c)) <= 1
        /\ "done" \in ToSet(call[c].out) => RowsOf(c) # {}
        /\ call[c].how = "stream" /\ call[c].gone => \A k \in RowsOf(c) : ~rows[k].success

\* What the client has received is well formed at any time: a role ahead of the first
\* delta, one role, one finish, and nothing after the end of the stream.
StreamIsWellFormed ==
    \A c \in Calls : Told(c) /\ call[c].how # "json" =>
        LET out == call[c].out
            places(e) == {k \in DOMAIN out : out[k] = e}
        IN  \/ out = Refusal
            \/ /\ "error" \notin ToSet(out)
               /\ \A e \in {"role", "finish", "done"} : Cardinality(places(e)) <= 1
               /\ \A k \in DOMAIN out : out[k] \in Models => \E j \in places("role") : j < k
               /\ \A k \in places("finish"), j \in DOMAIN out : j > k => out[j] = "done"
               /\ \A k \in places("done") : k = Len(out) /\ out[k - 1] = "finish"

===============================================================================
