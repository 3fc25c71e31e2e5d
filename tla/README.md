# A TLA+ verification of ylang

ylang is a local-first layer between an editor and language-model providers: an
MCP server and an OpenAI-compatible gateway share one engine that routes a
request to a local or paid model, writes a usage row for it, and keeps prompt
templates, facts, experiments and imported prompt candidates in one SQLite file.
Several processes and threads (the server, its worker pool, the command line,
scheduled refreshes) use that file at once.

This directory holds TLA+ models of the parts whose correctness depends on the
order in which those actors act, the TLC runs that check them on small
instances, and proofs checked by TLAPS. Line numbers refer to `src/`; paths
without a directory of their own are under `src/src/ylang/`.

## 1. Inventory

| Component | Sources | State | Operations | What makes it hard | What makes it correct |
|---|---|---|---|---|---|
| Budget ledger | `usage/hard_budget.py`, migration 17 | policy row with limit, opening liability, clock watermark, freeze; attempts; requests; scopes; usage links | initialize, reserve (batch, scope, retry), dispatch, cancel, settle, reconcile, link, freeze | many processes; late dispatch; charges that age out; a clock that steps back; unknown charges | no window of a day costs more than the limit; scopes keep their cap; outcomes are final; only outcomes release money |
| Bounded engine | `core/engine.py`, `core/bounded_completion.py` | locals of each call; the ledger | `complete`, `complete_stream`, `complete_prepared`, `reserve_bounded_pair` | a call is several transactions with a provider in the middle: interrupts, crashes, storage errors, cancellation by the improver | what the provider bills is covered by the ledger; no fallback after an ambiguous failure; the usage row tells the charges |
| Paired evaluation | `importer/evaluate.py` | a pair of reservations in one scope; saved runs | execute, inspect | arms that fail or are interrupted between reservation, dispatch and cleanup | the bill reported is covered; what completes is accounted; nothing stays reserved |
| Model routing | `core/model_router.py`, `core/model_aliases.py`, `core/routing_reason.py` | cooldowns; reads usage rows and settings | build the attempt chain, mark failures, reload | what one call writes reorders the next call's chain | unknown costs do not win; one model speaks in an answer |
| Gateway | `gateway/` | open streams | chat completions | disconnects, failures after the first chunk | well-formed event streams; one row per answer |
| Provider adapters | `core/provider_adapters.py`, `core/provider_transport.py` | none kept | prepare, execute | HTTP failures with unknown billing | an outcome is either trusted evidence or unknown |
| Usage store | `usage/store.py` | usage rows | write, update the latest row, neutralise late improver rows | "the latest row" under concurrency | an update reaches the row of its own request |
| Improver | `improver/improver.py`, `cache_store.py`, `parse.py`, `validate.py`, `salvage.py` | worker pool, timeouts, two caches | improve, timeout, grace, salvage, cache | a timeout racing a late answer; entries copied between caches; many paths through validation | every call returns; what is served is faithful and recent |
| Import candidates | `importer/source_store.py`, `ingest.py`, `promote.py`, `policy.py` | candidate rows and their states | ingest, review, reject, promote | several commits per operation; items that vanish and return | nothing is promoted without a person; rejected bodies stay rejected |
| Source refresh | `importer/refresh.py` | leases, source revisions | acquire, fetch, ingest, mark | leases that expire under a slow owner | one refresher within its lease at a time; no partial revision |
| Template library | `library/store.py`, `hygiene.py`, `seeds.py` | heads, versions, a list cached in each process | save, archive, unarchive, delete, list, seed | reads and writes in different transactions | versions are immutable and dense |
| Experiments and optimizer | `usage/experiments.py`, `usage/optimizer.py` | variants, active flags | assign, switch, suggest | one-by-one updates | the winner alone is active |
| Console proposals | `console/proposals.py`, `console/apply_audit.py` | audit rows | collect, apply | an apply is many commits and its audit is another; stale pages | the audit tells what was done |
| MCP server | `mcp/` | rate-limit windows | tool handlers | tools write to the latest row | limits hold; a signal reaches its own row |
| Editor hooks | `deploy/cursor/hooks/` | two files of a project | improve, leave files, report acceptance and edits, let the prompt go | windows share the files; three calls with timeouts under a timeout of the editor | every prompt goes on; turns are linked; signals are true |
| Opening and upgrading the database | `core/migrations.py`, `core/db.py`, `core/stores.py`, `_ensure_schema` of the stores | the schema and its version | apply pending migrations, check the stores' tables, rebuild the templates, reconnect after a restore | several processes open an old file at once, beside the last release; statements commit one by one; deaths in between | who has started finds all it needs; no template is lost; processes come up |
| Settings, facts, telemetry, command line, console pages, text analysis | the rest | settings overrides, facts | read, write, render | little | not state machines of their own |

How they interact: every completion goes through `Engine`; the engine opens its
own ledger connection per operation (`Engine._ledger`), so ledger transactions
of one call interleave with those of all others; `UsageStore.write_usage` calls
back into the ledger (`link_usage`) for paid requests; the router reads the
usage rows that earlier calls have written; the improver runs `Engine.complete`
on a worker thread and cancels it with an event; evaluation reserves pairs
through the engine; proposals read the usage rows and write the library, the
settings and the experiments; the console and the command line delete usage
rows behind all of them, held back only by SQLite triggers.

The hazards of this code, at the lines where they bite, are listed in
`PROJECT.json`, each with the properties that cover it or a note why none does.

## 2. Modules

| Module | What it is |
|---|---|
| `Nanos` | the amounts `checked_nanos` admits, and sums over tables without recursion |
| `HardBudget` | the ledger: one action per operation of `HardBudgetStore`, the usage rows as far as they are money, the clock |
| `SpendingAuthority` | what the ledger promises, abstractly: an account per attempt, grants that fit, known costs that age, a stop |
| `LedgerAuthority` | the refinement mapping from the ledger to the authority |
| `HardBudgetProofs` | lemmas about sums; the ledger's inductive invariant, its requests and scopes; the refinement |
| `AttemptReport` | what an adapter may tell the engine of an attempt: the engine's assumption and the adapter's promise |
| `ProviderAdapter` | one paid attempt on a native provider, from the quote over its HTTPS request to the charge that is settled |
| `BoundedEngine` | callers of `Engine.complete` over `HardBudget`, with the provider, storage errors and crashes |
| `PairedEvaluation` | evaluations of a baseline and a candidate beside calls of `BoundedEngine`, both over `HardBudget` |
| `EngineProofs` | theorems about the two |
| `Routing`, `RoutingProofs` | the router, the walk of a call along its chain, the stream and what the client receives; theorems |
| `ImproverCache`, `Validation`, `Improver`, `ImproverProofs` | the two caches; what becomes of a model's answer; the calls and workers over both; theorems |
| `PromptCandidates` | imported prompts under ingest, review, rejection and promotion by several processes |
| `PromptRefresh`, `SourceCatalogue` | the refresh of one source over `PromptCandidates`: lease, pinned fetch, ingest, revision; the row of the source, timers, licence and layout, the operator, local imports |
| `PromptCuration` | the same operations several at once, or one after the other |
| `PromptProofs` | theorems about the four |
| `Library`, `Console`, `ConsoleProofs` | the template library; proposals, settings, experiments and the audit log over it; theorems about both |
| `SchemaUpgrade`, `SchemaProofs` | opening a database of any release by several processes, the migrations, the stores' checks, restores; theorems about the templates and about what a started process finds |
| `EditorHook` | the hook processes that improve prompts, their two files, and the MCP tools they call |
| `EdgeProofs` | theorems about the two edges of the system, `ProviderAdapter` and `EditorHook` |
| `MC...` | instances for TLC |

### HardBudget

`policy`, `attempts`, `requests`, `scopes` and `usage` are the tables of
migration 17 and the money columns of `usage`, as functions from identities to
records; `clock` is what the injected clock reads. `HardBudgetStore` runs each
operation inside `BEGIN IMMEDIATE`, which takes SQLite's single writer lock
before anything is read, and reads the clock after that: this is why an
operation is one atomic action whatever process calls it. A `BudgetRefused` or
a storage error rolls the transaction back, a stuttering step. One refusal does
not: `_policy` commits the backward-clock freeze before it raises
(`DetectBackwardClock`). Callers hold a token with a fence; the model lets any
caller present any fence not above the current one, so stale tokens are always
in play.

Two things about time are deliberate. `Liability(row, since)` takes the old end
of the window as a parameter, so that the daily window (`now - 1 day`) and the
lifetime of a scope (0) are the same operator, as they are the same loop in
`_exposure`. And the clock may step back anywhere (`ClockStepBack`), because the
watermark of `_policy` exists for that.

Left out: quote identities and digests (a malformed quote is refused like an
expired one), ordinals, evidence documents (a replay with the same evidence
returns without change), the policy generation (nothing ever changes it),
usage rows with unreadable timestamps or costs (they make `_exposure` refuse,
a stutter), and the float-to-nano rounding of historical costs.

### SpendingAuthority and LedgerAuthority

The authority knows no table, clock or quote. It has a room, an account for each
attempt (a phase, an amount, and whether it still counts) and a stop. `Grant`
must fit beside everything that counts; an amount counts in full until its cost
is known (`Learn`), so losing track of an attempt frees nothing; only known
costs stop counting (the set `F` of a `Grant` or `StartSpending`), and none
counts again; `Exceed` stops the authority, after which nothing is granted or
starts spending. `LedgerAuthority` reads the accounts off the rows: `PhaseOf` a
state, `AmountOf` its bound, its charge or nothing, `CountsAt` whether its
dispatch lies within a day of the watermark. That every step of the ledger is a
step of the authority, or none, is `ImplementsAuthority`: it says in one formula
that outcomes are final, that a breach stops others that hold reservations, that
a dispatch after a stop is refused, and that no step makes room except a known
outcome that ages.

### BoundedEngine

`caller[c]` holds the locals of one `Engine.complete`: the rest of its attempt
chain, the budget request, the current attempt, the charges so far, and a
program counter. A step of a caller is one ledger transaction or the provider
call, so everything else interleaves between them. `bill[a]` is what the
provider bills for attempt `a`, recorded when the request reaches it
(`Transmit`); the caller then sees one of the outcomes `_dispatch_bounded`
distinguishes (`Reports`): an answer, a `BoundedFailure` with a charge (which
may permit a retry), an exception with an unknown charge, a native contract
violation (which freezes the policy), a charge above the bound, or an interrupt.

The one assumption about the provider is `Reportable` of `AttemptReport`: a
charge an adapter reports with evidence is at least the bill. `ProviderAdapter`
shows that the native adapters keep it. Local models cost nothing. Callers in
`Unreliable` may meet a storage error instead of any ledger transaction, and
may die between any two steps; callers in `Cancellable` are run by an improver
worker that may set `usage_cancelled` at any moment.

### PairedEvaluation

`execute_candidate_evaluation` reserves two attempts in one scope in one
transaction (`ReservePair`), runs the baseline and then the candidate with
`complete_prepared`, stops if an arm fails (`GoesOn`), cancels what was never
dispatched (`CleanUpArm`) and saves a run with what it knows of the bill. Each
arm is the dispatch and settlement of `BoundedEngine`; only what
`complete_prepared` does differently (no chain, a finalized row, a
`BoundedEvidenceError`) is its own. The evaluator may die, lose its storage or
be interrupted anywhere. `Evaluators` are the callers that evaluate; the others
make ordinary calls of the engine at the same time, on the same limit.

### ProviderAdapter

`attempt` is one `PreparedAttempt` and its connection: `Prepare` quotes the whole
context of the model beside the output asked for, `Fund` and `BeginDispatch` are
the two validations of the engine around its ledger transactions, and `Post` to
`BodyEnds` follow `provider_transport.post` operation by operation. There are two
clocks. `utc`, by which quotes expire, may be set at any time. `now` is the
monotonic clock of the transport; `alarm` is when the operation in progress times
out, which every piece that arrives puts off (`Drip`), and `watchdog` the timer
that does not move. The provider serves what has reached it, even after the
caller has gone (`Serve`), counts tokens and bills by its tariff (`BillOf`); its
answer may be unreadable, of another model, short, or beyond what was reserved.
`Verdict` is `execute` after the reply together with what `_dispatch_bounded`
makes of its exceptions. Assumed: a readable answer tells what was counted, and
an alarm that is due is served before time goes on.

### Routing

`call[c]` is a request from the gateway: its chain and position, what its client
has received (`out`, a sequence of events) and what its row will say. `Chain`
is `build_attempt_chain` with its sorting by successes, the budget filter, the
quality band and the floor; `Resolved` takes the name a client asks for to a model
(an alias, a model, or neither). `rows` is the usage table as the router reads it.
Streams yield chunk by chunk, so other requests, reloads of the settings and the
end of a cooldown come between any two chunks; `HangUp` closes the generator
where it stands. A provider may report usage in any chunk and more than once, and
each report is passed on; a chunk with neither text, tool calls nor usage is not
passed on by `complete_stream`, so the model has none. `Native` models have the adapters that this repository ships;
`Certified` ones stand for adapters that allow a retry, a contract the engine
supports and no shipped adapter uses. A chain is built from one reading of
settings, cooldowns and rows.

### Improver, ImproverCache, Validation

A process serves one call at a time; its worker may outlive it. `rows` has one
entry per usage row with the call that owns it and the call whose outcome was
recorded on it last, because `update_last_improver_*` address "the latest row".
`alone` remembers whether anybody else has written rows during a call: only then
does the code promise anything about that row, and `OutcomeIsOwn` says what.
`Validation` describes an answer by the results of the checks (numbers,
quotations, modal verbs, structure, length, intent, ...) and follows every path
through `_validate`, the salvages and the skeleton; TLC evaluates it on all
442368 combinations of results. The caches age in units of time and keep the age
of what they hold.

### PromptCandidates

`items` is `prompt_source_items` as far as curation depends on it: the text (by
its content hash), the candidate state and the linked version. `templates` and
`provenance` are the versions that promotion writes and what is recorded of
them; `arrivals` is the order of `first_seen_at`. `work[w]` is what a process is
in the middle of. `ingest_parsed_items` is one transaction
(`CommitIngest`: `Listed` upserts the items of the listing in turn, then come the
removals),
preceded by the read of the rejected hashes (`BeginIngest`). A review is a read
and a write; a promotion is `BeginPromote` (the checks on the row it read),
`SaveTemplate` (`Library.save`) and `LinkPromotion`, which reads the row again
for the provenance. `Abandon` is a crash or a failed statement at any of those
points. The console runs these one after another on one event loop, a command
line beside it; `PromptCuration` has both ways of working: `together`, operations
that overlap, or one after the other. `MCPromptCandidates` has both in one run:
two workers on one item at once, or in turn on three items. `PromotionsAreSound`
and `RejectionStands` are claims about operations that do not overlap: with two
at once, `link_promotion` writes `promoted` over a rejection made since the
check, as nothing holds the row between the two transactions.

Left out: a template id named by the curator, seed templates (which never share
an id with a promotion), promotion baselines, quality scores, parameters, and
the upstream edit of a title. `Library.save` is one step here; `Library` has it
in two.

### PromptRefresh and SourceCatalogue

A refresher goes through the steps of `_refresh_source_locked`; the head of
upstream may move between any two of them, but the files are those of the
revision that was asked for, as their URLs hold its hash. `lease` has no clock.
Its 600 s are over at any moment: `Expire` when who took it has died, `Outlast`
when he is still at work, since nothing renews a lease or looks at it again.
`late` has the refreshers that have outlasted theirs and `overruns` counts them;
a late one goes on, ingests and records beside the next, and releases the lease
only if it is still its own.

`SourceCatalogue` adds the row of the source (`enabled`, `compat`, `due`) and
the conditions under which a refresh is started: `TimerStarts` has those of
`require_enabled`, `NameStarts` none. `locked` is the lock of a process. A
revision may lack its licence (`RefuseLicence`) or its layout (`RefuseLayout`,
followed by `MarkIncompatible` in a transaction of its own). An import of a local
CSV writes under the source's name without lease or licence (`local` marks its
items) and records no revision, so a later refresh may find the source
unchanged and leave the rows it wrote; the properties speak of the others.
`set_enabled` checks and then writes: a refresh that finds the source
incompatible in between leaves it enabled and blocked.

### Library and Console

An operation of `Library` reads in one step and writes in another, because
`save`, `delete`, `archive_template` and `set_visibility` read before their
implicit transaction begins; each process keeps the list of visible templates it
has cached. `Console` adds the apply of a proposal, piece by piece as the code
commits it, with the audit record last. The page shown may be old when an
operator applies from it, forms and tools change the same tables meanwhile
(`Direct`, `Configure`), the analytics change (`Observe`) and a process may die
(`Stop`). `disturbed` marks an apply during which somebody else has written:
what an audit record promises can only be asked of the others.

### SchemaUpgrade

`db` is the committed file: the version of its schema, the tables and groups of
columns it has, the heads of its templates and the copy `templates_new` that a
rebuild has made. `proc[p]` is a process that opens it: `Open` takes the write
lock once (`_verify_connection_writable`), then migrations are applied one after
the other, each looking for its columns (`Look`) before it adds them (`Apply`),
and the stores check their tables. Transactions are those of Python's `sqlite3`
module, and much of what can happen follows from them: a schema statement
commits at once, but the `INSERT` of a version opens a transaction (`draft`,
`lock`) in which the schema statements of later migrations run too, until
`executescript` commits it (`CommitPending`) or the runner does (`CommitLast`).
So migrations with a script are seams where a death leaves a half-upgraded file.
The rebuild of the templates, in migration 10 and in `Library._ensure_schema`,
is four statements of a script, each committed by itself: `CreateCopy`,
`FillCopy`, `DropHeads`, `RenameCopy`.

A process that is refused (a duplicate column, a version that is there already,
a table that is or is not there, five seconds without the lock) ends and is
started again. A server that reconnects after a restore runs the migrations
only, not the stores' checks (`full`), and goes on without a database if it is
refused (`astray`). Processes of the last release may still serve and save
templates; `late` are templates saved while a rebuild has copied and not yet
dropped. A restore is modelled when no other process has the file open; see 5
for the other case. The releases are those that the code provides for: an empty
file, one from before there were migrations, one of version 9, before the
rebuild, and one of version 16, after all but the last migration, and files
whose templates lack what `Library._ensure_schema` adds.

### EditorHook

One record of `hook` is one process of `ylang-improve-prompt.py`. Its `pc`
follows `_run_main`: the parent is looked up in the last-trace file and then in
the sidecar, the server is asked, both files are written, the acceptance and the
edit are reported, and the prompt goes on. A write of a file is two steps,
because `write_text` empties it first; another process may read it in between
or write over it. `GiveUp` is a timeout or an error of a call, each handled as
the code handles it, `Kill` is the editor's own timeout. The server is one tool
call at a time, since the tools are synchronous; what a call that nobody waits
for still does is in `abandoned`, `feedback` and `OthersWrite`. Texts, sessions,
modes and transcripts are left out, as is the row that feedback is filed under
(the latest, like that of an acceptance).

## 3. Runs

| Run | Question | Bounds |
|---|---|---|
| `ledger` | Does any window of a day ever cost more than the cap, however reservations, retries, late dispatches, ageing charges, breaches and clock steps interleave? Does a scope keep its cap after its charges have left the window? Do requests keep one open attempt, and do usage rows (linked, historical, deleted, purged) never make room or unfinalize a request? Does the ledger implement the authority? | 2 attempts, 2 requests, 1 scope, 2 rows, batches up to 2, bounds 1 and 2 and charges of 2 against a limit of 3 with 1 opening, 3 instants, a window of 1 tick; quotes outlive the instants, so that a charge ages while a reservation waits (they expire in `engine_live` and `provider`) |
| `engine_money` | A call of the engine and a paired evaluation on one limit: is what the provider bills covered by the ledger when either dies or loses its storage anywhere? Does the row tell the charges of all attempts? Does an evaluation tell its bill, account what it completes and leave nothing reserved? | 1 caller with two paid models, 1 evaluator, both unreliable, 3 attempts, amounts 1 and 2, limit 2, one instant |
| `engine_live` | Bills within the cap, fallback, cancellation and rows over all kinds of chain; does every hold of a call that keeps running end, beside one that dies or loses its storage? | 2 callers, one cancellable, the other unreliable, chains paid-paid, paid-local, local-paid, limit 1 so that they compete, 1 usage row |
| `provider` | Does what the engine is told of an attempt cover the provider's bill? Is a breach told? Does a request end by its deadline? | 3 profiles, 2 with a key, up to 2 tokens of each kind, a quote that lives 1 of 3 instants, a deadline of 2 |
| `engine_orphan` | A documented recovery that the code does not offer (see 5) | 1 caller, 1 attempt |
| `curate` | Risk, edits and decisions under any interleaving of two workers on an item; titles, texts and provenance when they take turns on three | 2 workers (symmetric), 3 items of 2 sources, a safe and a risky text, 2 versions |
| `refresh_in_time` | With a timer and a refresh by name that fail and die anywhere, one of which may outlast its lease, an operator and local imports: is one at a time within its lease? does only text of fit revisions come in? As long as no lease is outlasted, is every skip right, and does a timer alone come to mirror upstream? | 2 workers, 1 of them a timer, 2 items, 1 local import, 5 revisions that add, lose their layout, lose their licence, drop or break an item and restore it, 1 overrun; from it on upstream is at its first two revisions, no import begins and no operator is between check and flag (`Narrow`) |
| `improver` | Is what is served recent and faithful? Are outcomes recorded on rows of the own call? Does every call return, with workers that may hang? | 2 processes, 2 calls in all, 1 key, a lifetime of 1 unit, all answers |
| `console` | Are versions appended, and do the audit log and the answers tell the truth? | 2 processes, a seed and a learned template, 2 variants, versions up to 2 (and 3 by a racing save), 2 requests (applies, direct changes, changes of the analytics) |
| `routing` | Does one model speak, does the row tell it, is the stream well formed? | 2 requests, 4 models (native, certified, two local), asked for by name, by an alias or by neither, 2 settings, streams of up to 3 chunks, each of text or of usage |
| `upgrade` | Does a process that has started find all it needs? Does every template stay in the file? Do processes come up in the end? | 2 processes, 2 templates, 6 kinds of old database, 2 deaths or restores |
| `editor_hook` | Does every prompt go on? Does a turn name its predecessor? Is what the server is told true, on whatever row it lands? | 2 prompts of one window or two, one that records edits, 2 rows, own or others' |

Why the bounds are enough for the interesting cases: a cap can only be
over-promised by a reservation beside a charge that ages out, and by a late
dispatch between them, which two attempts and an opening liability give; a window needs a tick
before, in and after it; a retry and a concurrent attempt need two requests;
amounts 1 and 2 distinguish a charge below, at and above its bound; two callers
show every interleaving of two, and the ledger's invariants are proved for any
number. Three items are the least that has an oldest lookalike beside a rejected
one, and a revision after each kind of change shows what it leaves. A lifetime
of one unit is enough for an entry to be made, copied at the end of its life and
copied no further; both calls may fall to one process, which lets a worker of
the first write while the second runs. Two requests to the console are an apply
and a rival, or two rival applies. Two chat requests are one that changes what
the other's chain is built from, and chains of three models have a first, a
middle and a last. Two
processes that open a database are a death and a restart, a race, or an upgrade
beside the last release; the kinds of database start behind none, some or all of
the seams of the runner, on either side of migration 10. The ages of charges are
the subject of `ledger`; `engine_money` therefore stands at one instant, which
leaves room for a pair beside a call. Two kinds of counters, one token
more than is allowed and a deadline with an instant before it are what the
adapter distinguishes; the rest of it is proved. Two prompts either follow each other, with a parent to find,
or overlap, and then share the files and the rows. `MaxNanos`, `MaxTime`, `MaxBatch`, `Day`, `Amounts`, `Costs`,
`Limits`, `Openings`, `Expiries`, `Tokens`, `MaxUtc`, `MaxNow`, `MaxVersions`, `MaxVersion`, `MaxCalls`,
`MaxRequests`, `MaxChunks`, `MaxOverruns`, `MaxTurns`, `MaxRows`, `MaxFaults` and `TTL` are the named bounds; the cfg files give
their values. Deadlock checking is off where the system may really stop:
identities, calls, requests or faults of an instance are used up, or the policy
is frozen. It is on in the prompt and routing runs.

Every property has a mutant: an operator marked `(mutant)` beside the
definition it replaces, a plausible slip (a window open at the wrong end, a
retry after an uncertain attempt, a stream that falls back after it has spoken,
a version that replaces another) that TLC then finds.

### Fairness

`engine_live` needs weak fairness of the next step of each call. A
call does not wait on another: transactions wait for SQLite's lock at most the
busy timeout and then fail, transports have deadlines, and every failure is a
next step of its own. `HoldsAreResolved` is about the calls outside of
`Unreliable`, since a process that dies is exactly what leaves a hold behind; it
holds beside one that does. No fairness is assumed of deaths, operators, the
console or the clock.

`ledger`, `engine_money`, `provider`, `curate`, `console` and `routing` are safety
only. That an alarm which is due is served before time passes it is part of
`Tick`; `PostEndsInTime` is about how the alarms are set.

`upgrade` assumes weak fairness of what a process that opens the database does,
its restart included: `deploy/ylang.service` has `Restart=always`, and timers run
again. None is assumed of deaths, restores or those who save.

`refresh_in_time` assumes the timer or cron job that `docs/deployment.md` asks
for: strong fairness of each step of the timer's refresh, so that it comes again
and again, not always while the other worker holds the lease, and no step of it
fails for ever; weak fairness of the lease's expiry, of the interval and of the
end of what a worker has begun. Nothing is assumed of refreshes by name, of local
imports or of the operator. Failures and deaths remain possible at every step,
any number of times. A refresh that outlasts its lease is neither assumed nor
forbidden; `FeedIsMirrored` promises nothing once one has, since a late refresher
may record an older revision over a later one. `Narrow` therefore takes nothing
from it: it restricts steps only after an overrun.

`improver` assumes weak fairness of the thread that serves a call, whose waits
have timeouts, and none of the workers: they may hang in a provider for ever and
keep their thread of the pool.

`editor_hook` assumes weak fairness of what a hook does, its timeouts included
(`asyncio.wait_for`), and nothing of the server, the editor or the user.

## 4. Proofs

What TLC shows of one small instance, the theorems below show for every value of
the constants. Each rests on an inductive invariant, on the named assumptions of
the modules (`LedgerAssumption`, `MaxNanosAssumption`, `EngineAssumption`,
`EvaluationAssumption`, `AdapterAssumption`, ...), which TLC evaluates in every
run, and on facts of the library about finite sets, functions and sequences.
The assumptions ask that attempts and usage rows are finitely many, that amounts
are amounts, and that `Null` is none of the values it is compared with.

### The ledger

`HardBudgetProofs` proves, for every finite set of attempts and usage rows, any
requests and scopes, any amounts, limits, openings, expiries, window and clock
bound:

- `LedgerTypeCorrect`, `LedgerConsistent`: `TypeOK` and `LedgerInv`;
- `LedgerRespectsCap`, `LedgerCapsScopes`, together `LedgerKeepsCaps`:
  `Spec => []CapsAreKept`;
- `LedgerBoundsWindows`: `Spec => []WindowSpend`;
- `LedgerHasOneOpenAttempt`, `LedgerFinalizes`, together
  `LedgerKeepsRequestsOrderly`: `Spec => []RequestsAreOrderly`;
- `LedgerReleasesByOutcome`: `Spec => ReleasedByOutcome`.

`WindowSpend` says what the cap means: in any window of a day, wherever it
starts, attempts dispatched in it cost at most the limit less the opening
liability. It is not inductive. `reserve_many` checks the trailing window at
reservation time only, and `begin_dispatch` later dates the attempt without
looking at the exposure again. The strengthening is `WindowCovered`: for every
window the admission watermark has not passed, the attempts dispatched in it
and *all* reservations still open fit together, because any of these may yet be
dispatched there. It holds after an admission because the exposure counts
holds at every age (`WindowIsOwed`), it is kept by a dispatch because the
reservation already counted in the window it is dated in (the watermark is
never ahead of the clock of an admission), and it is kept by a settlement
because a charge within its bound only shrinks (`ColumnsAgree`; a larger one is
a breach, counted at its bound here and freezing the policy in the code).
`CapRespected` follows the same path for the trailing window, and `TypeOK`
gives the ranges. The induction is over `Inv == TypeOK /\ LedgerInv /\
CapRespected`, one lemma per operation that writes attempts, one
(`QuietKeepsInv`) for all the others.

Sums are a cardinality of points under a function (`Nanos!TotalOver`), not a
recursion, so that the lemmas about them follow from the library's facts about
finite sets.

The induction step is stated for `LedgerStep`, which is `Next` with any amounts
where `Next` has those of the instance. That is what lets the engine and the
evaluations, whose charges and budgets are their own, use every lemma of the
ledger: their specifications imply `[][LedgerStep]_vars`, and with it `Inv`.

Requests and scopes are carried by two descriptions of a step: `Reserved` (new
attempts belong to new requests of their own, or one attempt to a request that
has none open and no row) and `Moved` (one row goes on within its request, never
back to an open state). Each operation is shown to be one of them or to leave
the attempts alone. Then comes what callers rely on between their
transactions: an outcome never changes (`OutcomesStay`), a linked row stays
linked with its cost (`LinkedRowsStay`), the fence of an attempt tells how far it
went (`FencesStep`).

`ReleasedByOutcome` is an action property. It compares the exposure of one instant
before and after a step as a sum of two: the attempts owe no less because each
row owes no less (`LiabilityFallsByRelease`: an unknown charge keeps the bound, a
breach owes more than it), and the unlinked usage rows cost no less because each
of them that costs something stays unlinked and as it is (`RowsCostNoLess`). The
exposure is compared at *every* instant, so nothing has to be known of the clock
or the watermark.

The module ends with the refinement, `LedgerIsAnAuthority`:
`Spec => ImplementsAuthority`. Given `Inv`, every operation of the ledger maps to
one action of the authority: a reservation to `Grant`, whose sum fits because
the exposure that `reserve_many` computed is the authority's `Committed`; a
dispatch to `StartSpending`; a settlement to `Learn`, `LoseTrack` or `Exceed`;
an advancing watermark to the set of charges that stop counting.

### The engine

`EngineProofs` is about any set of callers, unreliable and cancellable ones among
them, any chains and any provider that reports as `Reportable` says; operators
reconcile with a charge that covers the bill. It proves

- `EngineCoversBills`: `EngineSpec => []LiabilityCoversBill`;
- `EngineBillsWithinCap`: `EngineSpec => []BillsWithinCap`;
- `EngineFallsBackOnlyWhenKnown`: `EngineSpec => []NoFallbackWhileUnknown`;
- `EngineAccounts`: `EngineSpec => []DoneIsAccounted`;
- `EngineRowTellsCharges`: `EngineSpec => RowTellsTheCharges`;
- `EngineKeepsLedger`: the ledger's own invariants under `EngineSpec`.

The inductive invariant is `EngineIInv`, the ledger's `Inv` and order of requests
with `EngineInv`: `CallsAgree` says of every place where a call may stand what is
true of its attempt there (its state and fence, and that a report is one the
provider may have made), although the ledger has changed hands since the call
last looked; `OneCaller` that no two calls share a request; `BillsFit` that
nothing is billed before its dispatch and that a known charge covers the bill.
The step is in two halves. A step of one call leaves another's facts alone
because it is `OnlyFor` the request of the one: it adds no attempt elsewhere and
moves none elsewhere, except that an operator may reconcile an uncertain one
(`OthersAgree`). And the call itself gets from each of its places to the next.

`RowTellsTheCharges` needs two more facts. `PaidIsTold`: what a call has summed
up in its local variable is the total of the charges that its own settlements
told, of its request and of no other. `FencesFollow`: the fence distinguishes
these from the charges of a reconciliation (fence 3), which the call never sees.

`EdgeProofs` discharges, in its first part, the assumption about the provider for the native
adapters, for any profiles, tariffs, counts of tokens, quote lives and deadlines:
`AdapterKeepsPromise` is `AdapterSpec => []OutcomeCoversBill`, whose second
conjunct is `Reportable`, `AdapterRetainsBreaches` and `RequestsEndInTime` are the
other two properties of the run. `AdapterInv` says that the bound is that of the
quote, that a reply is what was served, and that alarms and the watchdog are set
no later than the deadline.

### Paired evaluations

The second part of `EngineProofs`, which alone cites `EvaluationAssumption`, is about any
number of evaluators beside any other callers:

- `EvaluationKnowsItsBill`: `EvaluationSpec => []KnownBillIsCovered`;
- `EvaluationSettlesItsPair`: `EvaluationSpec => []PairIsSettled`;
- `EvaluationCoversBills`, `EvaluationRowTellsCharges`, `EvaluationKeepsCaps`: what
  the run checks of the ledger and the rows, with evaluations in play, and the
  caps, which the run leaves to the proof.

`EvaluationIInv` adds to the engine's invariant what an evaluation knows:
`HoldsPair` (each arm has a request of its own that no other call and no other
pair has), `ArmFits` (the arm that runs is the call's attempt; while the baseline
runs the candidate is still reserved, and while the candidate runs the baseline
is accounted; a completion is believed with an answer, then with a settled
attempt, and at last with its row), `AfterFits` (what completed is accounted),
`EvidenceFits` (evidence was true when it was taken; if it is an outcome it is
the attempt's for ever, by `OutcomesStay`, and if not the attempt is not reserved
any more), `Faults` and `RunFits` (a saved run is what its evidence says). The
properties then read off the evidence: an outcome in it is final, so its charge
bounds the bill now and ever after.

### Routing

Three theorems of `Routing!Spec`, for any models, providers, settings and calls:
`ClientsHearOneModel` (`[]OneVoice`), `OneRowTellsTheAnswer` (`[]RowTellsTheAnswer`)
and `StreamsAreWellFormed` (`[]StreamIsWellFormed`).

The chain of a call is built from sorts and filters. `Routing` writes them without
a fold, as entries in the order of their places (`Arranged`), so that what they
yield can be proved: an order on the places of a list counts them out from 1 on
(`CountedPlaces`, by the pigeonhole theorem of the library), hence a stable sort
and a filter of models are sequences of models, and a chain is one that is not
empty (`ChainIs`).

The invariant then follows one call. `Voice` is the model it would name in its row
now. `FitsBefore`: up to its row, what it has said is `Open`, in that voice, one
role ahead of any text; a call that has not emitted has said nothing, which is
why it may still change its voice. `FitsAfter`: at the end the answer is an error,
a JSON body, broken off while open, or closed. `RowsFit` ties this to the usage
rows: none before the row is written, exactly one with the call's voice and
success after it. A call's rows are its own, so steps of other calls, a reload of
the settings and the end of a cooldown leave all of it alone. The assumptions are
those of `RoutingAssumption`: lists of models that are not empty, and events that
are no models.

### The console

Three theorems of `Console!Spec`, for any processes, actors, templates, variants
and findings.

- `ConsoleAppends`: `[]VersionsAreAppended`. A save numbers its version by the row it
  has read, which may be old when it writes; `NumbersFit` says that such a number
  is at most the next one, so that it is the next one or one that exists, on which
  the save collides. A template that has been deleted is excluded, as in the
  property.
- `ConsoleRecordsTheTruth`: `[]AuditTellsTheTruth`. `Progress` ties the place of an
  apply to the kind of its proposal and to the operation that its actor has
  begun for it; `SoFar` is what an undisturbed apply has achieved at each place
  (the variants it has been through are as they should be, the row its save has
  read is still the row, what it has archived is archived and not listed). A
  step of somebody else leaves it alone (`FrameKeeps`: it may at most forget or
  renew the list) or disturbs the apply (`DisturbedKeeps`).
- `ConsoleAnswersTruly`: `Spec => AnswersAreTrue`, from `Progress` and the fact that an
  apply that goes on has no answer yet.

`NullAssumption` and `ApplyAssumption` say that `Null` is none of the values it is
compared with.

### Improver, prompts and upgrades

`ImproverProofs` proves `OutcomesAreFaithful` about every answer, and from it
`ServedTextsAreFaithful` and `ServedTextsAreRecent` for any number of processes,
calls and keys and any lifetime. The induction for the latter is on the age of
an entry and the time it has left: together at most one lifetime in the table
and at most two in a dictionary, because an entry is copied at an age of at most
one.

`OutcomesAreOwn` is `ImproverSpec => []OutcomeIsOwn`. A call writes its outcome on
whatever row is the latest, so the property has to be carried from the moment
the call is alone with the rows: `OwnRow(p)` says of such a call that it has not
given up its worker (`Awaited`: neither cancelled nor to be scrubbed, and once
the worker is finished its row is the latest), that the latest row is its own
while it records (`Latest`), and that no row tells its outcome but its own. A
row of anybody else ends the call's being alone, and so does a late
neutralisation that changes a row; a call that has not begun is told nowhere,
because rows tell started calls only (`RowsTyped`). The lemmas are about the
four ways in which a step moves the rows: not at all (`QuietMove`), the latest
row updated (`TellingMove`), one appended (`AppendingMove`), some neutralised
(`NeutralisedIsOwn`).

`PromptProofs` proves, for any number of workers, items, texts and listings:

- `RiskIsAlwaysAcknowledged`: `Spec => []RiskIsAcknowledged`. The induction
  carries that a promotion in progress holds a text whose risk was acknowledged
  (`AcknowledgedWork`); it is the text that is saved, so no ingest in between can
  slip another one in;
- `LeaseSerializesRefreshes`: `CatalogueSpec => []OneRefreshInTime`, for any number
  of overruns. `LeaseInv` says that whoever is refreshing and not late owns a lease
  that has not expired. A late owner who ends could take the lease of its
  successor and let a third one in; `RestKeepsLease` is that a refresh that ends
  takes no lease from another, dead or late. Every step of the catalogue is a step of
  a refresh or leaves the lease alone;
- `DecisionsFollow`: `Spec => DecisionsFollowTexts`. `NextStates` says what
  `_next_state` may answer for any row, text and suppression; `ListedRows`, that
  after an ingest every listed item has the row `_next_state` gives for the row it
  had *before* the ingest, although the items are written one by one and each
  looks at the rows before it for lookalikes;
- `OnlyFitTextsGetIn`: `CatalogueSpec => []OnlyFitTexts`, leases outlasted or not.
  `RefreshWork` carries that what is being ingested under the lock is the whole
  listing of a revision found fit, and what is ingested outside of it is a local
  import;
- `UnchangedIsCurrent`: `CatalogueSpec => []UnchangedMeansCurrent`, which speaks of
  the time before a first overrun (`CurrentInv` holds as long as `overruns = 0`).
  That a row set mirrors the head is not inductive, since an ingest and the
  record of its revision are two steps. `CurrentInv` orders the revisions: the
  recorded one is at most the head, what is fetched is later than the recorded
  one, and whenever the recorded one *is* the head the rows mirror it. A refresh
  that dies between ingest and record therefore leaves the recorded revision
  behind the head, and the next one fetches again;
- `PromotionsStaySound`, `RejectionsStand`: `CurationSpec => []PromotionsAreSound`
  and `CurationSpec => RejectionStands`. The strengthening is `CurationInv`: when
  operations take turns, one worker at most has a job, and the job agrees with the
  table as it is (`JobFits`): the text to be saved is the row's, its template is
  the row's own or one that nobody has, the version to be linked has the row's
  text. That a free id exists among the first that the title gives
  (`TargetIsFresh`) is a pigeonhole argument over the ids taken.

The fold of an ingest is a recursive function over the item numbers. That it has
a solution (`RunExists`) and what it computes (`ListedRows`) are inductions
without the induction theorems of the library: the least number that fails has a
predecessor that does not (`LeastMember`).

`SchemaProofs` proves `UpgradeKeepsTemplates`: `UpgradeSpec => []TemplatesAreKept`
for any processes, releases, templates and faults. That the table or the copy
has every template is not inductive: the table may be dropped while the copy is
still empty, or two rebuilds may share a copy. `KeptInv` adds that at most one
process is between its `CREATE` and its `RENAME` and that its copy exists
(`OneRebuild`: the second `CREATE` fails while there is a copy, and only the
rename ends it), that the copy has all but the late templates before the drop
(`CopyIsReady`), and that a transaction in progress never differs from the file
in templates (`DraftAgrees`: rebuilds run outside of transactions). The
assumption is `UpgradeAssumption`: no release has left a copy.

`UpgradeCompletes` is `UpgradeSpec => []UpIsComplete`. `CompleteInv` joins `KeptInv`
with `FilesInv`, what holds of the files and the draft (what is recorded is
there, and nothing is ever taken away outside of a rebuild), and with a `Stage`
for each process: `Migrated` is what it has brought by the migration that it is
at, `UsageStored` and `HeadsStored` what the checks of the two stores have added
by the place they are at. A step of another process cannot undo a stage,
because files only grow (`StageGrows`), except that a rebuild drops and renames
the templates, which is why the property speaks of a file without a copy.
`ReleaseAssumption` says what an older release left behind: what it has recorded
it has done, the columns of `usage` excepted, since the store of a later release
may have created that table since.

### The editor hooks

The second part of `EdgeProofs` is about any number of turns, rows and recording
hooks:

- `HooksLinkTurns`: `HookSpec => []TurnsAreLinked`;
- `HooksTellTheTruth`: `HookSpec => []SignalsAreTrue`.

For the first, `TurnsInOrder` says what `clean` amounts to: a clean turn began when
those before it were over, and is alone while it runs. Hence nobody writes the
two files between the end of one clean turn and the reads of the next.
`HasWritten` tells what a clean turn has written by each place, and `FilesAwait`
that the files stay as they are until the next turn has looked: the sidecar
names the trace, and the other file names it too or cannot be read, in which
case the hook falls back to the sidecar. Every action of a hook is a `Moves` of one
turn, and `MoveKeepsLinks` says which moves keep the links.

For the second, an acceptance may be served long after its hook has given up.
`AcceptsFit` therefore also speaks of the turns whose acceptance is abandoned;
`MarksFit` needs that a turn that has accepted writes no more rows, since the
server serves only turns that still ask (`WaitsFit`), so that a mark on somebody
else's row is on a later one. `Onward` says that no step unsays anything:
verdicts stay once they are told, unless the hook is killed.
`HookAssumption` says that the bounds are numbers and that `None` is none.

### Only model-checked

`HoldsAreResolved`, `EveryCallReturns`, `FeedIsMirrored`, `EventuallyUp` and
`EveryPromptGoesOn` are liveness under fairness, which the prover does not reach.
Every other property of a passing run is stated by a theorem.

## 5. Divergences found

### Shown by a run

`docs/evaluation-methodology.md:154` says "Abrupt termination can leave durable
dispatch intent requiring explicit reconciliation". `engine_orphan` shows a
caller that dies after `begin_dispatch`: the attempt is `DISPATCHING`, and
`reconcile` accepts `UNCERTAIN` attempts only (`hard_budget.py:413`); nothing
else in the source moves it there. The hold is safe but can never be released,
and its request can never be finalized.

### Met while modelling

These follow from the models' actions, and no run is devoted to them.

Providers. `execute` validates the quote once more after `begin_dispatch` is on
record (`provider_adapters.py:324`); a quote that expires in between makes the
engine freeze all paid admission as after a contract violation, although nothing
was sent (`engine.py:373`).

Curation. `docs/prompt-intelligence.md:132` says that rejected hashes are
remembered; the removal of a rejected item upstream overwrites its state, the
only memory of the rejection (`ingest.py:82`), and the item returns as
`candidate_new`. An edited promoted prompt that is removed and restored comes
back as `promoted` with a text nobody promoted (`ingest.py:81`, against
`docs/prompt-intelligence.md:33`). The lease is not renewed during a refresh,
whose fetches may take longer than its 600 s, and then two refreshes run
(`source_store.py:677`), against `docs/deployment.md:372`: "Only one refresh per
source runs at a time". The states of `refresh_in_time` include them: one refresher
late, the next at work beside it. `OneRefreshInTime` is what remains true, and a
late one may then set `last_revision` back, or leave rows of a revision that is
not recorded.

Improver. A prompt that only points at a file records its outcome without having
a row, on whatever row is the latest (`improver.py:241`). A worker that finishes
after its call gave up neutralises every later completion row, the next call's
too (`store.py:478`). A local completion accepted within the grace has neither a
row nor a stub (`improver.py:363`, `engine.py:585`), against
`docs/database-schema.md:100`. A paid worker that writes between the end of the
grace and the stub is never scrubbed. The cache key has the text, tool and mode
only: facts, templates and settings changed since are not seen until the entry
expires. The salvage of changed numbers can never succeed: it asks again the
question that failed.

Library and console. Two boosts that overlap lose one of the templates, both are
audited, and the lost one is never offered again, as the audit log filters it. A
winner applied by two requests, or interrupted half way, can leave no variant
active. A save that races an archive makes the template visible again, and one
that races a delete leaves a version without a head, which later blocks that
version number for ever. A save that collides leaves the connection's
transaction open. A suggestion to archive a seed is offered for ever and always
refused. An archive of several templates that fails half way is not audited. The
list cached in another process does not see an archive
(`docs/portal.md:239`).

Routing. `docs/configuration.md:446` says "on failure (rate limit, 5xx, model not
found), try the next available model in the list", but a paid failure goes on
only where the adapter allows a retry (`engine.py:561`), and no native adapter
does (`bounded_completion.py:135`), so the call ends. Nor does the cooldown that
`docs/configuration.md:514` describes ever start for them. An explicitly named cloud model without an adapter ends the chain
before the local floor. A stream that falls back after a local failure stops at
the first cloud model. `provider_cooldown_seconds` is listed as hot-reloadable
(`docs/configuration.md:534`), but `apply_settings` ignores it. A stream that
fails after its first text ends with `finish_reason: stop` and `[DONE]`, which a
client cannot tell from a complete answer. The soft daily cap is overshot by
calls in flight.

Upgrades. `docs/control-plane-evolution/02_TRACE_MODEL.md:15` says "Old DBs
upgrade via `schema_migrations`" and `07_QA_GATES.md:16` that historical
databases upgrade safely. A death between the statements of a rebuild breaks
that: after `DROP TABLE templates` the next start finds no table, skips the
migration and creates an empty one, and the templates are only in
`templates_new`, which nothing reads (`migrations.py:178`); after `CREATE TABLE
templates_new` every later start fails, because the copy is there
(`migrations.py:187`, `library/store.py:62`). This is the exception in
`EventuallyUp` and `UpIsComplete`; dropping a copy that is there, the plain
remedy for the second, would destroy the templates of the first, which is the
mutant of `TemplatesAreKept`. A table without `visibility` or `tags_json` cannot
be copied, so a database from before them and before migration 10 never gets
past it, although `Library._ensure_schema` could add both columns. What the last
release saves between copying and dropping is lost (`late`). A reconnect after a
restore does not run the stores' checks, and `reconnect_stores_after_restore`
catches `OSError` but not the `sqlite3.Error` of a migration, which leaves the
server with a closed connection (`console/context.py:55`). And
`console_ops_restore` replaces the file without its `-wal` file: if another
process has it open, the old log is replayed over the restored database
(`console/route_modules/ops_misc.py:206`).

Editor hooks. When a turn fails open, is skipped or is switched off, the sidecar
of an older turn stays, and `deploy/cursor/ylang-auto-improve.mdc` has the agent
take it as the canonical task of the current turn. The trace that an answer
names, and the row an acceptance marks, are those of the latest row: after a
cache hit, or when a chat writes in between, they are somebody else's, and the
next turn takes that trace as its parent. An improvement that is only put
before the user for review is recorded as accepted
(`deploy/cursor/hooks/ylang-improve-prompt.py:604`), which
`docs/control-plane-evolution/04_EVALUATION_MODEL.md:55` calls an explicit human
judgment. The editor's 20 s come before the three timeouts of 15 s of a hook
(or of the 22 s that `docs/configuration.md:674` mentions): a hook that is
killed has reported an acceptance for a prompt that went on unchanged. Of two
windows with one project, a turn takes the parent that wrote last.

## 6. Not modelled

- HTTP, HTML, argument parsing, text scoring, search and redaction: conversions
  and I/O without state that several actors share.
- The MCP rate limiter, memory facts and the assignment of experiments: small
  state of a single process, or one statement per operation.
- A restore while another process has the database open: what happens then is
  decided by pages of the write-ahead log, below the tables of the models.
- The text checks of the improver themselves: `Validation` takes their results.
- Fetching and the adapters of sources: what they deliver is the `Listings` and
  `Upstream` of the prompt modules.
- Statistics of templates and outcome deltas, dashboards and reports: read-only
  computations over rows, mostly in floating point.
- Liveness of routing: a call's steps are bounded by its chain, and the
  disjuncts that could block are HTTP timeouts of libraries outside `src/`.
- The scripts under `src/deploy/` and `src/scripts/` other than the hook.

What would come next: the baseline that a promotion saves with its version, in
`PromptCandidates`, and the MCP tools that write beside the hook's.
