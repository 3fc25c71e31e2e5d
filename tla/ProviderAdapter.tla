--------------------------- MODULE ProviderAdapter ---------------------------
(****************************************************************************)
(* One paid attempt on a native provider: NativeProviderAdapter             *)
(* (src/ylang/core/provider_adapters.py) over the direct HTTPS transport    *)
(* (core/provider_transport.py), from the quote to the charge that          *)
(* Engine._dispatch_bounded settles.                                        *)
(*                                                                          *)
(* Two clocks: utc, which quotes expire by and which may be set, and now,   *)
(* the monotonic clock of the transport.  now counts from the start of the  *)
(* request.  A wait ends at its alarm at the latest: time does not pass an  *)
(* alarm that is due before the timeout has been served.                    *)
(*                                                                          *)
(* The provider is external.  It serves a request that has reached it,      *)
(* perhaps after the caller has gone, bills it by its tariff and says       *)
(* truthfully what it counted, as far as its answer is readable.            *)
(*                                                                          *)
(* Left out: the texts, the digests (a PreparedAttempt is frozen, so its    *)
(* bytes are those of its quote), credentials, and headers.                 *)
(****************************************************************************)
EXTENDS AttemptReport

CONSTANTS
    Profiles,       \* reviewed models with their tariffs
    Enabled,        \* the profiles with a key, when native providers are on
    Tokens,         \* counts of tokens
    QuoteLife,      \* QUOTE_TTL_SECONDS
    TariffExpiry,   \* TARIFF_EXPIRY
    MaxUtc,         \* bound on the UTC clock
    Deadline,       \* seconds a request may take
    MaxNow          \* bound on the monotonic clock

Reviewed == [provider : {"anthropic", "openai", "mistral"},
             inputBound : Nat, maxOutput : Nat,
             inputBase : Nat, inputCeiling : Nat, output : Nat]

\* What is counted: input that is new, written to a cache or read from one,
\* output, and charges beside tokens or above the reviewed tariff (tools,
\* tiers, geography, audio); and what the answer is: an error, something
\* wrong with its JSON, counters, model, identity or envelope, or a content.
Answers == {"error", "json", "counters", "other_model", "identity", "envelope",
            "empty", "text", "object"}

Service == [fresh : Tokens, written : Tokens, read : Tokens, output : Tokens,
            extra : Tokens, answer : Answers]

ASSUME AdapterAssumption ==
    /\ Null \notin Int /\ Null \notin Service
    /\ Null \notin [whole : BOOLEAN, served : Service]
    /\ Profiles \subseteq Reviewed /\ Enabled \subseteq Profiles
    /\ \A p \in Profiles : p.inputBase <= p.inputCeiling
    /\ Tokens \subseteq Nat
    /\ QuoteLife \in Nat /\ TariffExpiry \in Nat /\ MaxUtc \in Nat
    /\ Deadline \in Nat \ {0} /\ MaxNow \in Nat

VARIABLES
    utc,        \* the clock of quotes
    now,        \* the clock of the transport
    attempt,    \* the attempt and its connection
    served,     \* what the provider has served and counted, or Null
    bill        \* what it bills for that

adapterVars == <<utc, now, attempt, served, bill>>

-------------------------------------------------------------------------------
(* Quotes *)

Smaller(m, n) == IF m <= n THEN m ELSE n

\* The upper liability of so many tokens at the ceilings of the tariff.
AtCeilings(p, prompt, completion) ==
    prompt * p.inputCeiling + completion * p.output

Blank == [phase |-> "new", profile |-> Null, output |-> 0, json |-> FALSE,
          bound |-> 0, expires |-> 0, sent |-> FALSE,
          alarm |-> Null, patience |-> 0, watchdog |-> Null,
          declared |-> FALSE, reply |-> Null, report |-> NoReport]

In(phase) == attempt.phase = phase
EnvironmentUnchanged == UNCHANGED <<utc, served, bill>>

\* prepare freezes the request of a text conversation and quotes the whole
\* context of the model beside the output that was asked for.
Prepare ==
    /\ In("new")
    /\ utc < TariffExpiry
    /\ \E p \in Enabled, n \in Tokens \ {0}, json \in BOOLEAN :
          /\ n <= p.maxOutput
          /\ AtCeilings(p, p.inputBound, n) \in Nanos
          /\ attempt' = [attempt EXCEPT
                !.phase = "prepared", !.profile = p, !.output = n, !.json = json,
                !.bound = AtCeilings(p, p.inputBound, n),
                !.expires = Smaller(utc + QuoteLife, TariffExpiry)]
    /\ UNCHANGED now /\ EnvironmentUnchanged

\* validate_prepared: neither clock nor tariff has left the quote behind.
Valid ==
    /\ utc < TariffExpiry
    /\ utc < attempt.expires
    /\ attempt.expires <= Smaller(utc + QuoteLife, TariffExpiry)

\* The ledger reserves what was quoted, after one validation, and begins the
\* dispatch, after another.
Fund ==
    /\ In("prepared") /\ Valid
    /\ attempt' = [attempt EXCEPT !.phase = "reserved"]
    /\ UNCHANGED now /\ EnvironmentUnchanged

BeginDispatch ==
    /\ In("reserved") /\ Valid
    /\ attempt' = [attempt EXCEPT !.phase = "dispatched"]
    /\ UNCHANGED now /\ EnvironmentUnchanged

\* The ledger refuses, or the quote is out of date: nothing stays reserved.
Refuse ==
    /\ In("prepared") \/ In("reserved")
    /\ attempt' = [attempt EXCEPT !.phase = "refused"]
    /\ UNCHANGED now /\ EnvironmentUnchanged

\* Anybody may set the clock that quotes go by.
SetUtc ==
    /\ attempt.phase \in {"new", "prepared", "reserved", "dispatched"}
    /\ utc' \in 0..MaxUtc
    /\ UNCHANGED <<now, attempt, served, bill>>

-------------------------------------------------------------------------------
(* One request *)

Early == {"new", "prepared", "reserved", "dispatched", "refused"}
Posting == {"resolving", "connecting", "handshake", "sending", "waiting", "reading"}

Settled(report) == [attempt EXCEPT !.phase = "settled", !.report = report]

\* execute validates once more, when the dispatch is already on record: a
\* refusal there is a contract violation to the engine.
RefuseLate ==
    /\ In("dispatched") /\ ~Valid
    /\ attempt' = Settled(Report("violation", Null, FALSE))
    /\ UNCHANGED now /\ EnvironmentUnchanged

\* post: a daemon resolves the host, and its caller waits for it.
Post ==
    /\ In("dispatched") /\ Valid
    /\ attempt' = [attempt EXCEPT !.phase = "resolving", !.alarm = now + Deadline]
    /\ UNCHANGED now /\ EnvironmentUnchanged

\* The deadline is looked at before each operation and sets its timeout.
Remaining == Deadline - now
InTime == now < Deadline

\* An operation that has ended is followed by one that may last this long.
Proceed(phase) ==
    [attempt EXCEPT !.phase = phase, !.patience = Remaining, !.alarm = now + Remaining]

Resolved ==
    /\ In("resolving") /\ InTime
    /\ attempt' = Proceed("connecting")
    /\ UNCHANGED now /\ EnvironmentUnchanged

Connected ==
    /\ In("connecting") /\ InTime
    /\ attempt' = Proceed("handshake")
    /\ UNCHANGED now /\ EnvironmentUnchanged

\* (mutant) the timeout of the socket is all there is
SecuredUnwatched ==
    /\ In("handshake") /\ InTime
    /\ attempt' = Proceed("sending")
    /\ UNCHANGED now /\ EnvironmentUnchanged

\* From here on the timeout of the socket bounds each piece only, so a timer
\* watches the whole.
Secured ==
    /\ In("handshake") /\ InTime
    /\ attempt' = [Proceed("sending") EXCEPT !.watchdog = now + Remaining]
    /\ UNCHANGED now /\ EnvironmentUnchanged

\* A piece of the request, of the head or of the body comes through.
Drip ==
    /\ attempt.phase \in {"sending", "waiting", "reading"}
    /\ attempt' = [attempt EXCEPT !.alarm = now + attempt.patience]
    /\ UNCHANGED now /\ EnvironmentUnchanged

\* The last piece of the request leaves; its sender may not know it yet.
Deliver ==
    /\ In("sending") /\ ~attempt.sent
    /\ attempt' = [attempt EXCEPT !.sent = TRUE]
    /\ UNCHANGED now /\ EnvironmentUnchanged

Sent ==
    /\ In("sending") /\ attempt.sent /\ InTime
    /\ attempt' = Proceed("waiting")
    /\ UNCHANGED now /\ EnvironmentUnchanged

\* The head arrives, with or without a declaration of the body's length.
ReplyHead ==
    /\ In("waiting") /\ served # Null /\ InTime
    /\ \E declared \in BOOLEAN :
          attempt' = [Proceed("reading") EXCEPT !.declared = declared]
    /\ UNCHANGED now /\ EnvironmentUnchanged

\* A chunk, after which the deadline is looked at and the timeout set anew.
Chunk ==
    /\ In("reading") /\ InTime
    /\ attempt' = Proceed("reading")
    /\ UNCHANGED now /\ EnvironmentUnchanged

\* The body ends; one that has a declared length must have it.
BodyEnds ==
    /\ In("reading") /\ InTime
    /\ \E whole \in BOOLEAN :
          /\ attempt.declared => whole
          /\ attempt' = [attempt EXCEPT !.phase = "replied",
                            !.reply = [whole |-> whole, served |-> served]]
    /\ UNCHANGED now /\ EnvironmentUnchanged

\* An error of an operation, its timeout, the watchdog that shuts the socket,
\* a body too long or too short: billing is unknown.  Or the calling thread
\* is interrupted.
PostFails ==
    /\ attempt.phase \in Posting
    /\ \E kind \in {"unknown", "interrupt"} :
          attempt' = Settled(Report(kind, Null, FALSE))
    /\ UNCHANGED now /\ EnvironmentUnchanged

\* An alarm or the watchdog is due.
Due == attempt.phase \in Posting
         /\ \E t \in {attempt.alarm, attempt.watchdog} : t # Null /\ t <= now

Tick ==
    /\ attempt.phase \in Posting /\ ~Due
    /\ now < MaxNow
    /\ now' = now + 1
    /\ UNCHANGED <<utc, attempt, served, bill>>

-------------------------------------------------------------------------------
(* The provider *)

\* No input token costs more than a cache write; only Anthropic charges one.
BillOf(p, s) ==
    (s.fresh + s.read) * p.inputBase
        + s.written * (IF p.provider = "anthropic" THEN p.inputCeiling ELSE p.inputBase)
        + s.output * p.output + s.extra

\* A request that has arrived is served, whether anybody still waits or not.
Serve ==
    /\ attempt.sent /\ served = Null
    /\ served' \in Service
    /\ bill' = BillOf(attempt.profile, served')
    /\ UNCHANGED <<utc, now, attempt>>

-------------------------------------------------------------------------------
(* The answer *)

\* The input counters on the wire: Anthropic counts cached input apart, the
\* others in their total.
InputCounters(p, s) ==
    IF p.provider = "anthropic"
    THEN [input |-> s.fresh, creation |-> s.written, cached |-> s.read]
    ELSE [input |-> s.fresh + s.written + s.read, creation |-> 0, cached |-> s.read]

\* (mutant) cached input of Anthropic is not counted
FreshOnly(p, s) == InputCounters(p, s).input

\* _usage
PromptTokens(p, s) ==
    LET counters == InputCounters(p, s)
    IN  IF p.provider = "anthropic"
        THEN counters.input + counters.creation + counters.cached
        ELSE counters.input

\* The answer is a JSON object with counters, and bills for nothing that the
\* tariff does not cover.
UsageIsSupported(s) ==
    s.answer \notin {"error", "json", "counters"} /\ s.extra = 0

ChargeOf(p, s) == AtCeilings(p, PromptTokens(p, s), s.output)

WithinCeilings(p, output, s) ==
    PromptTokens(p, s) <= p.inputBound /\ s.output <= output

\* (mutant) the charge of a violation is never told
ForgottenCharge(charge, bound) == Null

\* _dispatch_bounded keeps the charge of a violation when it is above the
\* bound that was reserved.
RetainedCharge(charge, bound) == IF charge > bound THEN charge ELSE Null

Violation(charge) == Report("violation", charge, FALSE)

\* execute after the reply, and what the engine makes of it.
Verdict(a) ==
    LET s == a.reply.served
        charge == ChargeOf(a.profile, s)
    IN  IF s.answer = "error"
        THEN Report("unknown", Null, FALSE)
        ELSE IF ~a.reply.whole \/ ~UsageIsSupported(s) \/ s.answer = "other_model"
                  \/ charge \notin Nanos
        THEN Violation(Null)
        ELSE IF ~WithinCeilings(a.profile, a.output, s)
                  \/ s.answer \in {"identity", "envelope"}
        THEN Violation(RetainedCharge(charge, a.bound))
        ELSE IF s.answer = "empty" \/ (a.json /\ s.answer # "object")
        THEN Report("failure", charge, FALSE)
        ELSE Report("answer", charge, FALSE)

Conclude ==
    /\ In("replied")
    /\ attempt' = Settled(Verdict(attempt))
    /\ UNCHANGED now /\ EnvironmentUnchanged

-------------------------------------------------------------------------------
AdapterInit ==
    /\ utc = 0 /\ now = 0
    /\ attempt = Blank
    /\ served = Null /\ bill = 0

AdapterStep ==
    \/ Prepare \/ Fund \/ BeginDispatch \/ Refuse \/ RefuseLate
    \/ Post \/ Resolved \/ Connected \/ Secured \/ Drip \/ Deliver \/ Sent
    \/ ReplyHead \/ Chunk \/ BodyEnds \/ PostFails \/ Conclude

AdapterNext == AdapterStep \/ Tick \/ Serve \/ SetUtc

AdapterSpec == AdapterInit /\ [][AdapterNext]_adapterVars

-------------------------------------------------------------------------------
(* Correctness *)

(* What the engine relies on: an attempt that is refused costs nothing, and
   what is reported of any other is a charge that covers the bill, or no
   charge, for which the ledger keeps the bound; and the bound covers every
   bill of a provider that keeps the ceilings and the tariff.               *)
OutcomeCoversBill ==
    /\ attempt.phase \in Early => bill = 0
    /\ In("settled") => Reportable(attempt.report, attempt.bound, bill)
    /\ served # Null =>
          (WithinCeilings(attempt.profile, attempt.output, served) /\ served.extra = 0
              => bill <= attempt.bound)

(* A tariff amount above the reservation that the provider reports in order
   is not discarded (docs/bounded-providers.md:98).                         *)
BreachIsRetained ==
    In("settled") /\ attempt.reply # Null =>
        LET s == attempt.reply.served
        IN  attempt.reply.whole /\ UsageIsSupported(s) /\ s.answer # "other_model"
              /\ ChargeOf(attempt.profile, s) \in attempt.bound + 1 .. MaxNanos
            => attempt.report.charge = ChargeOf(attempt.profile, s)

(* No request holds its caller beyond the deadline, however slowly names are
   resolved and pieces come (docs/bounded-providers.md:91).                 *)
PostEndsInTime == attempt.phase \in Posting => now <= Deadline

===============================================================================
