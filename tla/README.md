# tmx in TLA+

tmx runs *flows*: a YAML/JSON/TOML file names tasks (`exec`, `run`, `fetch`, `prompt`, `read`,
`write`, `store`, `assert`, `flow`, `map`, `eval`), the engine walks them in order, merges the
output of each into one state object, fires the lifecycle hooks around them and answers with a
status, the final state and one result per task. This directory holds TLA+ modules of the engine,
the TLC configurations that check them and the TLAPS proofs about them. Paths below are relative
to the repository, `src/`.

## 1. Inventory

| Component | Code | State it keeps | Operations | What is hard | What makes it correct |
|---|---|---|---|---|---|
| Cancellation token | `crates/tmx-core/src/cancel.rs` | requested reason, hard reason, waker list (one mutex) | `request`, `hard_cancel`, `requested_reason`, `hard_reason`, `register`, `Guard::poll` | lock-free gaps between two reads, the poll of the work and the registration; two triggers | no lost wake-up, first reason wins, a hard stop resolves every guard |
| Watchers | `crates/tmx-cli/src/commands/run.rs` 325–360 | how far each escalation is | request, sleep the grace window, hard-cancel | overlapping windows | a hard stop is reached, once |
| Pipeline runner | `crates/tmx-core/src/runner.rs` | state builder, results, `changed`, failure, cancelled | `run`, `run_tasks`, `run_step`, `fail_task` | cancellation between any two awaits, failing sink, failing merge | state, results, status and events tell one story; teardown is never cancelled |
| Lifecycle hooks | `crates/tmx-core/src/hooks.rs` | the body flow that is on | `fire` | bodies run through the same loop, under one of two tokens | order of hooks, `destroy` last, no hook inside a hook |
| Fan-out | `crates/tmx-core/src/fanout.rs`, `run_map_task`, `run_eval_task` | results per element | `run_map`, `run_eval`, `score_case` | completion order, cancellation of one element, event failures | the answer is the least failing element's; cancellations come up |
| Scheduler | `crates/tmx-adapters/src/scheduler.rs` | permits, in-flight count | `run_indexed` | early returns holding a permit, a drop of the whole call | bounded, every index once, nothing leaks |
| `tmx run` | `crates/tmx-cli/src/commands/run.rs`, `lifecycle.rs` | first failure of a matrix, provider | preflight, deploy, matrix loop, save, clean, exit code | a failure in any of the steps, stop between two combinations | what was deployed is cleaned, first failure is the answer |
| Run store, storing sink | `crates/tmx-adapters/src/runstore.rs` | directories, bytes logged, latched run id | `save`, `append_event`, `list`, `get`, `prune`, `remove` | two processes on one directory, a crash or a failure in a write, the byte cap, two runs through one sink | a log is a prefix of the stream plus at most one marker; only aged or named runs leave |
| State builder | `crates/tmx-core/src/merge.rs` | object and its serialised size | `merge`, `from_state_with_cap` | incremental size arithmetic over overwrites, escapes and blobs | the size is the serialised size, never above the cap |
| Dispatch | `crates/tmx-core/src/dispatch.rs` | – | build the request, call the port, read the answer | the order of what is refused; a drop in the middle | an output is earned; a task that cannot be built reaches nothing |
| Process adapter | `crates/tmx-adapters/src/process.rs` | child, two capped buffers | spawn, write, pump, wait, kill | full pipes in both directions, time limit, cap, a daemon on the pipes | no deadlock, nothing lost below the cap, killed when dropped |
| HTTP, chat and object-store adapters | `crates/tmx-adapters/src/{http,chat,store}.rs` | attempt, body so far | send, retry, read | an answer lost after the request was performed; a body that stops | attempts bounded, only what may be repeated is repeated |
| File system | `crates/tmx-adapters/src/fs.rs` | files | create, read, write, move, copy, delete | a failure half-way | a move or a copy loses nothing, but a copy of a file onto itself |
| Preflight, resolution | `crates/tmx-core/src/preflight.rs`, `crates/tmx-adapters/src/resolve.rs` | documents read, the flow as inlined so far | load, assemble, chase, check | files change between two reads; imports under hooks and shared parts | accepts exactly what can be run |
| Environment providers | `crates/tmx-adapters/src/provider/mod.rs` | – | `bootstrap`, `deploy`, `clean`, `destroy` | a flow provider runs a whole flow through the same ports | a failure is an environment error |
| Expressions, templates | `crates/tmx-core/src/interpolate.rs`, `dispatch.rs` 154–232 | – | `parse`, `evaluate`, `interp_template` | precedence, depth and length limits, scopes | the one tree of the grammar |
| Lint | `crates/tmx-core/src/lint.rs`, `usecases.rs` | – | `analyze_flow`, import walk, options check | it scans texts that the run parses | what it is silent about, the run does not trip over |
| Matchers, scores | `crates/tmx-core/src/matcher.rs`, `fanout.rs` 400–774 | – | `evaluate`, `score_case`, `aggregate_summary`, the gate | equalities that differ, rounding of a rank, empty datasets | matchers imply one another as named; a gate follows the cases |
| Settings of a run | `crates/tmx-cli/src/config.rs`, `commands/run.rs` 77–706, `runner.rs` 1221–1565 | layers | layering, profiles, overrides, coercion, slice, matrix, contexts | precedence over five sources, wrap and bounds | the nearest layer wins; a run is what was asked |
| Other commands | `crates/tmx-cli/src/commands/*.rs` | the project's files, the provider registry | `init`, `fmt`, `validate`, `plan`, `inspect`, `env`, `provider …`, `runs …` | two shells on one file, a write cut short | a refusal leaves no mark; a record is lost to an overlapping command only |
| Secrets, masker | `crates/tmx-core/src/mask.rs`, `crates/tmx-adapters/src/secret.rs`, `runner.rs` 1283–1328, `inspect.rs` | secrets by kind of match | `resolve`, `register`, `redact_*`, projections | secrets within secrets, masking what was masked | the longest secret goes whole, nothing else goes, nothing unmaskable is resolved |
| Loaders, schema types, sinks, arguments | `tmx-schema`, `loader/*`, `sink/*`, `args.rs` | – | parsing and printing | – | shapes of documents only |
| Test kit | `tmx-testkit`, `tmx-conformance` | – | fakes | – | not modelled |

The components interact by calls within one process. `tmx run` spawns the watchers, composes the
ports around one token and calls the runner; the runner calls the scheduler for a fan-out, and the
fan-out calls back into the runner for each element; every adapter call of a task is awaited under
the token's guard; every event goes through one sink, which the run store taps. The executor may
poll two futures on two threads, but all elements of a fan-out are polled by the one task that runs
the flow. Processes meet only on disk: the run store, the provider registry and the project's files,
none of which is locked.

## 2. Modules

| Module | Models | Role |
|---|---|---|
| `TwoPhaseCancel` | token latches and the two escalation steps of each watcher | shared by the next ones |
| `GuardedWork` | what `CancelToken::guard` promises, the first reason of a request included | abstract specification |
| `CancelToken` | the waker protocol of `cancel.rs` | implements `GuardedWork` |
| `RunLifecycle` | the order of events a run may emit | abstract specification |
| `PipelineRunner` | `run`, `run_tasks`, `run_step`, `fail_task`, `HookRunner::fire` | implements `RunLifecycle` |
| `IndexedScheduler` | what the `Scheduler` port promises | abstract specification |
| `FanOut` | `run_map`, `run_eval`, their callbacks, the semaphore scheduler | implements `IndexedScheduler` and `GuardedWork` |
| `RunCommand` | `execute`, `run_once`, `watch`, the environment lifecycle, the matrix, exit codes | uses `TwoPhaseCancel` |
| `RunStore` | the store directory, the storing sink, sweeps, `tmx runs` | several processes on one disk |
| `OsProcess` | one call of the process adapter against its child | composed in `TaskCall` |
| `WebRequest` | one call of the HTTP, chat or object-store adapter against its server | composed in `TaskCall` |
| `TaskCall` | `dispatch_task`, the file system, the provider binary | extends the two above |
| `Preflight` | `preflight` and `resolve`, from files to one inlined flow | composed in `Commands` |
| `Commands` | every command but `run` and `runs`, in shells that share a project | extends `Preflight` |
| `JsonValues` | JSON values, truthiness | shared by the next ones |
| `JsonEquality` | equality of JSON values | for `Expressions` and `Matchers` |
| `Expressions` | tokens, parser, evaluator, templates | |
| `Linting` | the lint scanner and checks | extends `Expressions` |
| `Matchers` | the 25 matchers, scores, summary and gate | |
| `StateBuilder` | the state, its size and depth over merges, the cap | |
| `StateSize` | what JSON values measure, the normalization of outputs | gives `StateBuilder` its values |
| `SecretBook` | sources of secrets, the registry, requests of tasks | |
| `Masking` | redaction, projections of a context | extends `SecretBook` |
| `RunSettings` | layers, overrides, coercion, slice, matrix, contexts | |
| `*_proofs` | theorems about `CancelToken`, `PipelineRunner`, `FanOut`, `RunCommand`, `RunStore`, `TaskCall`, `Commands`, `StateBuilder`, `RunSettings` and `SecretBook` (the last three in `TaskData_proofs`) | section 4 |
| `MC*` | instances for TLC; `MCTaskData` holds the data modules' questions | section 3 |

**`CancelToken`.** The mutex makes what happens under one lock one action; between locks everything
interleaves. `gpc` is the place in `Guard::poll`: `entry` (first read of the flag), `polling` (the
work is polled), `pending` (the waker is registered), `recheck` (second read). `hard_cancel` is
`HardCancelTakesWakers` (flag set, list taken, one lock) followed by one `WakeTaken` per waker. A
waker belongs to an executor task, so two guards of one task share it. A wake of a task that is
being polled is remembered, as the runtime does.

**`PipelineRunner`.** One action per piece of code between two awaits. `pc` is `idle`, `fire` (a
hook is about to fire), `loop` (the head of `run_tasks`), `gate` (before task.start), `work` (the
adapter), `settle` (back in the loop, merge and event), `leave` (the loop is left), `finish`, `over`,
`aborted` (an error left `run` by `?`). The main loop and the loop of a hook body are the same code;
the second one keeps only a frame `hk`, since its state and results are dropped. `state` maps keys
to values, `Absent` for a key that is not there. That an output does not fit the state cap is a
choice at every merge. A hard stop may abandon a step anywhere between its dispatch and its return,
and a step that is done when the guard is polled may still win.

**`FanOut`.** Units in `waiting` queue for a permit, `head` is the head of the element's own
sub-flow loop, `work` an adapter call, `tail` the element's event (map) or its scorers (eval).
`answer` is what the guard around the whole task resolved to. The task itself (map or eval, of leaves
or of sub-flows, recording failures or not) is `shape`.

**`RunCommand`.** One action per piece of the command between two calls that may take time. `pc` is
`watch` (the first fingerprint of a watch), `resolve` (load, retention sweep, token), `prepare` (up
to the `--dry-run` return), `deploy`, `undeploy` (the clean after a failed deploy), `loop` (a combination of the matrix), `clean`,
`emit` (`--state-out`, the record on stdout), `waiting` (the watch polls), `exited`. A combination is
one call of the runner and comes back as its exit code and whether it was a hard error; `first`
latches the first one that failed. `env` is the environment the provider holds, `called` what was
asked of it in this run. Every run of a watch makes its own token and its own watchers. `version`
counts edits of the watched sources, `printed` is the version of the fingerprint the watch compares
with and `read` the one the latest run loaded. Which records the retention sweep removes is left
open (`stored` says only whether the command has changed the store). A SIGINT before the first
token exists ends the process by default, and one that comes after its only listener was spent is
lost; neither is an action.

**`RunStore`.** A process is a program counter over the system calls of its command; a removal, a
record and an append each take several steps, between which another process, a failure or a crash
may fall. `stream[r]` is what run `r` emitted, kept beside the log that the disk has of it, so that
`LogReplaysStream` can compare the two, and `driven` holds the runs that were still driven when a sweep
with a later cutoff began. A listing is a set that a sweep works through from its least id. The book of byte counts is the sink's memory: it is shared
by the runs of one process and starts at 0 for a log it did not write. Ids are UUIDv7, so an id is
the instant its run started and is compared with a cutoff as a number.

**`OsProcess`, `WebRequest`, `TaskCall`.** Child, kernel pipes, the stdin writer, the two readers,
the wait and the time limit move on their own. A pipe holds `PipeSize` units, and a reader that has
`OutputCap` of them goes on counting until it sees more, which kills the child. A server may
perform a request and its answer be lost; a retry asks again. `TaskCall` looks up required fields in
the order `dispatch_task` has, then hands over to one adapter; a hard stop may drop the call at any
point, and dropping a process call kills its child. A file operation is synchronous and may fail in
the middle, leaving its target cut short.

**`Preflight`, `Commands`.** A document is its shape (`flow`, `task`, `environment`, …, `garbled`)
with the parts that are chased or checked. Each read of a file is an action, because it is an await
and an editor may write or remove any file before the next. `loaded` holds the documents of the
target, and `flow` the flow whose references are replaced, slot by slot, by what they name. `Commands` adds the search for a target, the
writes that follow (truncate, then fill), the registry, and the methods of `tmx env`; `ledger` is
what the answered registry commands add up to, `missed` the names recorded since a shell read the
registry, `lost` those whose last record was written over from such an earlier reading, the `marks` of
a session the files it has truncated. A shell that fills a file another has filled since it truncated it
leaves its own text, or that text with the end of the other behind it.

**The data modules.** `Expressions` is the precedence climber as the code has it, beside `Trees`, the
grammar as a set of trees; a source is a sequence of lexemes, with one lexeme for all that the
tokenizer refuses. `Linting` is the scanner that never parses, over the same lexemes, so that its
reads can be compared with `Evaluate`. In `StateBuilder` `Merge` is an action, since the size is
only ever updated; what a value is and how long its JSON is stays open there. `StateSize` computes the
canonical length and the depth of a value from its parts, with JSON escapes and base64 as functions, and `TaskData.cfg`
hands those to the builder. Scores are counted in parts of `ScoreUnit`, and a mean is kept as its sum. In
`RunSettings` a layer is a function of the keys it sets, a question about a run is the one step of a behaviour (`AskSpec`),
and what a text spells as JSON or as a number and which questions are put stay open; `IsRunQuestion` says what such a
question is made of. `SecretBook` reads secrets where
they are defined and keeps the registry; `Masking` replaces those it knows in a text one after
the other, as `scrub_str` does, and compares with `Cuts`, which says which occurrences go without an
order of steps; the order of two secrets of one length, which an unstable sort leaves open, is every
order.

## 3. Runs

| Run | Instance | Shows |
|---|---|---|
| `cancel_token` | 3 guards, 2 executor tasks (one shared by two guards), 2 watchers | parked guards stay reachable, the hard stop resolves every guard, refinement of `GuardedWork` with its liveness and its own statement of who asked first |
| `pipeline` | 3 tasks on 2 keys (one with `if`, one recorded on failure and sharing its key, one sub-flow), 4 hooks of 2 tasks or no hook at all, 2 values, seeded state, 2 watchers | state replays results, `changed` exact, status explained, nothing new after a request, teardown whole, event order, a request reaches the teardown, and ends the run when adapters answer in it |
| `fan_out` | maps and evals, of leaves or sub-flows of 2 tasks, up to 3 elements, up to 2 permits, 2 watchers | answer explained, cancellation comes up, refinement of the port and of the guard, every fan-out ends when adapters answer |
| `run_command` | every command line without `--watch`, and the watches with a store and tasks; up to 2 combinations, 1 edit, 2 watchers | exit code explained, no combination skipped, environment bracketed, a standing one left alone, no edit lost, a stop ends the run |
| `run_store` | one `tmx run` that drives an unrecorded run (the deploy of a flow provider) and a recorded one, two `tmx runs`, an old run, one fault | a log is what its run emitted up to a gap that a fault explains, the cap holds with one marker, sweeps remove the aged and only them, also when one trips over another |
| `task_call` | every task type, every child program of up to 3 steps and three longer ones, every kind of web request, 2 files | answers are earned, attempts bounded, files kept, calls end |
| `front_end` | sample documents in single-file and directory targets with an editor, all provider shapes, two shells with every pair of commands | the verdict is of the files, accepted flows are runnable, the registry adds up but for what overlapping commands write over, refusals leave no mark, `tmx env` answers with its first failure |
| `task_data` | all token sequences of up to 5, chains of up to 4 operands, all linted sources of up to 5 tokens, 19 values, up to 4 scores, merges, layers, all texts of up to 5 characters under up to 3 secrets | the parser is the grammar, lint foresees, verdicts agree, the size is exact, a run is as asked, secrets stay masked |
| `fan_out_swallow`, `run_watch`, `run_dry`, `hook_inputs` | as the runs of their module | the code departs from its own documentation, section 6 |

Deadlock is not checked: each system is a run of a command or one call, and it stops when it is
over; in `task_data` a behaviour puts one question (or merges until nothing fits) and stops.

`fan_out` leaves out one task, the map of sub-flows that records failures: for that one
`CancellationComesUp` does not hold, and `fan_out_swallow` shows it.

Every property of a passing run is also run against a mutant, a definition changed as a plausible
bug would change it (`PROJECT.json`, `mutants`); TLC finds the property violated.

**Bounds.** Three guards are the least number with two on one waker and one on another. Three tasks
are the least with a gated one, an overwritten key and a nested one; two tasks in a hook body let a
cancellation fall before, between and after them; two values let an output equal the one it
replaces. Two reasons are all the code has. Three elements over two permits have one that waits, and
the width and the bound are chosen by the first action, so that the smaller ones (the empty fan-out
and the serial scheduler included) are covered as well. Two combinations are the least to tell the
first failure from the last, one edit the least that can fall before, into or after a run; the hard
errors are represented by two of their codes, 1 and 3.

In `run_store` the cap is 1 with events of size 1 and 2, so that an event may fit, fill the log or
pass it, and two events (`MaxEvents`) tell what happens after the marker; one fault (`MaxFaults`)
may be a write cut short, a write refused, or a crash; the cutoffs 2 and 5 fall between the
old run and the new ones and after them. In `task_call` a pipe of 1 fills at once and a cap of 2
can be met and passed; three steps are the least program that reads after it has filled a pipe and
then writes again; retries 0, 1 and 3 lie below and above `FETCH_RETRIES_MAX`, here 2. In
`front_end` the limits (2 tasks, width 1, concurrency 1, 3 hook tasks) can each be met and passed by
the samples, one edit (`MaxEdits`) falls between any two reads, and one fault between any two steps
of a write. In `task_data` an expression may have 9 lexemes and 4 levels, chains reach past both;
five tokens hold every operator between two operands, a bracketed index and a negated group; states
may grow to 60 bytes and 3 levels, and one seed is larger and one deeper than that. Secrets of 1 to 3 characters lie below and above the scan
floor (2), contain and overlap one another and themselves in a text of 5, and a secret file may pass its
cap of 4. The widths
`U32Max`, `U64Max`, `ConcurrencyMax` and `FanoutWidthMax` are small stand-ins, met and passed by the
inputs.

In the inputs of `task_data` each declared type meets texts that it has a value for and texts that it
has none for, among them a numeral that is no JSON (`007`) and JSON that `str::parse` does not take
(` 1`, ` true`), from the environment, a file and up to two flags.

**Fairness.** The runtime polls a runnable task, leaves a call it is in, and its timers fire: weak
fairness of the engine's own actions and of the end of a grace window. Nothing else is assumed in
`Spec`: a trigger need never fire, an adapter or a provider may hang for ever. In `RunCommand` the
runtime also ends, after the hard stop, whatever runs under the token: a combination and the deploy
of a flow provider. Properties that need more state it as their hypothesis: `TeardownAnswers`
(adapters answer inside the teardown hooks), `AdaptersAnswer` (adapters, scorers and sink answer the
elements), `ProviderAnswers` (deploy and clean return). In `TaskCall` the reader and writer tasks are
polled, the kernel moves bytes, a child whose next step is possible takes it, and a time limit that
is set runs out; a server is under no fairness, so `CallEnds` speaks of timed requests only, and of
processes that have a time limit or leave no daemon on their pipes. `RunStore`, `Commands` and the
data modules have safety properties only.

## 4. Proofs

`CancelToken_proofs` proves for any sets of guards, tasks and reasons:

- `TypeCorrect`;
- `NoWakeupIsLost` and `ParkedGuardsAreReachable`, from the inductive `IInv`. Neither is inductive
  alone: the invariant also says what is known at each place inside `Guard::poll` (a guard that has
  registered, and not yet read the flag again, is on the list, or about to be woken, or sees the
  flag), and that wakers are listed only before the hard stop;
- `ProtocolKeepsPromise`: initial states map to initial states of `GuardedWork`, and every step is a
  step or a stutter of it.

`PipelineRunner_proofs` proves for any flow, policy, hooks and values:

- `TypeCorrect`, from `TInv`, the type invariant with the facts the typing of a step rests on (a hook
  is on where a hook's frame is used, the index is at a task while a step runs);
- `StatusIsExplained`, `NothingNewEnds` and `TeardownIsWhole`, from `TInv /\ ControlInv`.
  `ControlInv` says, for each place of the run, how many results there are, which of them may be the
  one that stopped the run, what `failed` and `cancelled` then hold, and what a step dispatched
  before the request may still add;
- `StateIsReplayed` and `ChangesAreExact`, from `TInv /\ ControlInv /\ ReplayInv`. The two hold together
  or not at all: which tasks are changes is read off the state before each merge. `ControlInv` says
  that the next merge is of the next task, and the lemmas on `Writers` and `LastOf` that one more result
  changes the last writer of its own keys only;
- `RunFollowsLifecycle`, the whole refinement of `RunLifecycle`: initial states map to initial states and
  every step to a step or a stutter of it. `StreamInv` counts, for each place of the run, how often
  each hook has fired, and says which task is open there.

`FanOut_proofs` proves for any width, concurrency, tasks of a sub-flow and reasons:

- `TypeCorrect`;
- `PermitsAreKept`: permits, units in flight and units that wait add up on every path out of a unit,
  so no more are in flight than were asked for;
- `AnswerStandsForElements`, from an invariant that says of each unit, by where it stands, what it has
  recorded and what its end will be. The answer is computed in one step from what units recorded long
  before, so `AnswerIsExplained` needs all of that to be kept since;
- `NoCancellationIsSwallowed`, under the hypothesis that a map that records failures has leaves for
  its elements, which `fan_out_swallow` shows to be needed;
- `FanOutKeepsPromise` and `SemaphoreKeepsPort`: initial states and every step map to those of
  `GuardedWork` and of `IndexedScheduler`.

`RunCommand_proofs` proves for any set of command lines, matrix size, number of edits and hard codes:

- `TypeCorrect`;
- `ExitCodeIsExplained`, `EveryCombinationRuns`, `EnvironmentIsBracketed` and `EditsAreRead`, from the
  inductive `Inv`. The exit code is computed from `first` long after the outcome was latched, so
  `LatchInv` ties `first` to the outcomes seen so far (it is the first failed one, and untold exactly
  if none failed); `MatrixInv` says how many outcomes there are at each place and that only the last
  may be hard; `ProviderInv` says at each place what was called and what the environment then is;
  `WatchInv` orders `read`, `printed` and `version`;
- `StandingEnvironment`, the action property, from the same invariant.

`RunStore_proofs` proves for any writers with any plans, keepers, old runs, cutoffs, cap, event sizes
and number of faults:

- `TypeCorrect` and the action property `NoDrivenRunLeaves`, from the inductive `Control`: where each
  writer is in its plan, that what is being removed is over (driven by nobody, now or later), and that
  only a run that is over has a whole record. A sweep looks at a record long before it removes the
  directory; `Over` is what cannot change in between;
- `NoLogOutgrows` and `LogsReplay`, from `Control /\ Logs`. `Sound` holds whatever was lost: the lines of
  a log are events in their order and their bytes, with those in flight, were counted. `Exact` holds
  until a fault or a removal touches the run, and says how far the log follows the events in each of
  four situations (something in flight or not, stopped or not);
- `AgedRunsGo`, from `Control /\ Sweeping`. A sweep that finds a run gone ends and leaves the rest, so no
  sweep by itself removes what it owes. `CoverOK` is why all of them together do: if a sweep is about
  to trip over a run `t`, then each later run it would have removed is gone or in the listing of
  another sweep that is already past `t`. That in turn needs `ListingOK` (a listing is complete below
  its cutoff) and `OwedOK` (a directory emptied without a fault still has its remover).

`TaskCall_proofs` proves for any tasks, child programs, requests, files, pipe sizes and caps:

- `TypeCorrect`, `OutputsAreEarned` and `AttemptsAreBounded`, from the inductive `Inv`, which has one
  part per actor. `ProcessInv`: what is in a pipe and what the pump has captured add up to what the
  child has written (`Conserved`), and the pump, the readers and the child agree on what has ended
  (`PumpInv`), so an answer that reports an exit has read everything. `WebInv`: the server has acted
  at most once per attempt (`AttemptInv`), and a body is read only of a reply whose status admits one
  (`BodyInv`). `CallInv`: the adapter that works is the one the task's type names, and an answer has
  the cause it states. `RequestsAreBounded` is not inductive alone, since it says nothing of
  how many attempts are left;
- `OperationsKeepFiles`, the action property, from the same invariant.

`Commands_proofs` proves for any number of shells, command lines, files, editors and faults:

- `RegistryAddsUp` and `RefusalsTouchNothing`, from the inductive `Inv`. A command writes at the end of
  its route what an earlier stage has computed, so `SessionOK` says of each session whether it has not
  started, reads, writes or is over, what is left to write and which files it has truncated; the order
  of the stages, from the table of routes, is lemma `StageOrder`. `DiskInv` gives every empty file a
  holder: a shell that is about to fill it or that failed. `RegistryInv` says that every shell about
  to write the registry has in hand what the ledger becomes (`InHand`), but for the names that were lost
  before it read or recorded since; what it writes then loses exactly those, and never its own;
- `EnvironmentIsAnswered`, from the same invariant: `CallInv` ties the first failure to the calls and the
  end of the plan, and `Drives`/`Driven` keep the provider in hand that of an accepted flow, which no
  later step of a preflight or an edit can change;
- `AcceptedRuns` and `VerdictIsRight`, the two properties of `Preflight`, from
  `Inv /\ ReaderInv /\ PreflightInv`. The verdict falls steps after the reads it rests on, so
  `PreflightInv` says at each phase what those reads have settled (`Foreseen`): while documents are
  loaded, that they are the files; while references are replaced, that the flow in hand promises exactly what
  the flow of the files does. `ChaseKeepsPromise` is the heart: putting a file in the place of one
  reference changes neither where the others lead nor the limits and capabilities of the whole.
  `Structure`, `NeedsAreReached` and `CheckDecides` show that the checks, one after the other down to
  the first refusal, decide the one formula `Runnable`; `ChaseBreaksPromise` that a reference that is
  refused refuses the target. Every change of a file counts as an edit, one shell's writes under the
  other's preflight included (`PreflightFrame`). `ReaderInv` says that nothing is read before the
  target is found. `NthIsMember` (no rank in a finite set of numbers is left out, by the pigeonhole
  principle) is what makes the entries of a folder files.

The operations come in two kinds: those of `Reads(s)` leave every file as it is (`QuietStep`, one lemma
each), and the other four write, one half of a write at a time.

The assumptions are those the modules state: distinct markers, subsets of the tasks, positive bounds;
in `TaskCall`, that an HTTP status is not 0, that the method of a provider carries no template, and
that tasks name child programs, requests and files of the model; in `Commands`, that the registry is none
of the project's files, that a command line is one the parser makes, that one shell preflights (a preflight has no effect on
another: it changes no file), that files are documents of the model's types (`IsDocument`) and none is
empty before the commands begin or is written to be (`SituationsAssumption`), that the limits are
numbers (`PreflightAssumption`), and that `None` is neither the code of an error nor the name of a slot
(`NoneAssumption`).

`TaskData_proofs` proves for any values, keys, seeds, caps and limits, and for any flags, variables, files and flow, hosts and secrets:

- `KeptSizeIsExact`: the size that merges keep up to date is always that of the state's canonical JSON, and no merge
  passes the cap or the depth. The size is a sum over a function of the state's keys, a fold of the community modules whose
  definition chooses some recursive function: `SumsExist` shows that there is one, and `TakeOut` that the
  sum does not depend on the order the keys are taken in, so that a merge changes one term of it
  (`SumOfPut`). The invariant also says that the state has finitely many keys and that each value is
  counted in the size, so a replaced one can be subtracted (`ValuesFit`).

- `EveryRunIsAsAsked`: `RunIsAsAsked` for whatever is asked. Each kind of question has a theorem of its own:
  `SettingsAreAsAsked`, `InputsAreAsAsked`, `TasksAreAsAsked`, `MatrixIsAsAsked`, `ContextIsAsAsked`,
  `NamesAreAsAsked`, `TimeIsAsAsked`, `OutputIsAsAsked`. What the code computes by going through a list the model
  has as a fold, and the property says what comes of it without one: the nearest layer, the last supply, the rank of a
  task among those kept, the place of a value in a product. So each fold is opened once (`LeftFoldExists`, then
  `InsertedGoes`, `EffectiveGoes`, `TakenGoes`, `WidthGoes`, `ProductGoes`) into a sequence of what there is after each
  element, and the claim is carried along it by induction. The matrix takes the most: `FlattenIs` says where a cell of rows laid
  end to end comes from, `JoiningIsProper` that entries of one key become one axis, and `TurningGoes`
  that one more axis divides the turn of each earlier one by its length, which rests on
  `DivisionTwice`. Of the inputs the property says both ways when they are refused, and with which error: exactly when
  something supplied is at fault, for the first that is. `CoercedIs` and `EntrySupplied` say it of one supply, `Faulted`
  of the environment's and the file's.

- `EveryBookIsReady`: `BookIsReady`, the part of `SecretsStayMasked` about the registry. The invariant of a book (`SoundBooks`)
  says that its registry is the one a sub-flow builds anew from what was resolved, and knows all of
  it; a request keeps it (`RequestOneIsSound`), so does a task (`RequestedIsSound`), so do the tasks before it (`TasksGo`).
  `GotSoFar` says what the task has got by its i-th name. It assumes that a provider that refuses gives
  a code that is not empty (`AnswersFor`), which holds of every error the code has; definitions may be anything. That
  the registered texts are then redacted is model-checked: replacing is recursive.

The three modules assume that lengths and depths are numbers and that a seed is a finite state (`StateBuilderAssumption`),
that limits are numbers, those of widths in their order (`SettingsBounds`, `MaskBounds`), that objects are finite maps to values
(`JsonValuesAssumption`), that what parses as a number is one (`NumeralsAssumption`), and that questions are made of what the parser, the files and the variables can give
(`QuestionsAssumption`).

That a set of naturals that is not empty has a least element is a lemma (`LeastNumberPrinciple`) from the library's theorem that
`<` on them is well founded; the number of bytes in a log, a recursive function, and the first run of
a listing rest on it.

Only model-checked: every liveness property, and the data modules but the state builder, the settings and the book of secrets. Liveness
under fairness is outside the prover's reach. The other data modules are about what recursive operators
compute on every input (the parser, the equality of values, the redaction), and the prover takes
no module that declares one.

## 5. Hard behaviours and where they are covered

Cancellation interleaving with a poll: `CancelToken`. Cancellation between any two awaits of a run,
stale reads of the soft flag, a step abandoned half-way, an output that does not fit, a refused
event, hooks around and inside the loop: `PipelineRunner`. Completion out of order, permits on every
exit path, a dropped fan-out, cancellation of one element: `FanOut`. A failure or a stop at each step
of a command, first failure against later ones, a standing environment, an edit during a run:
`RunCommand`. Log cap, a record or line cut short, concurrent sweeps, one sink over two runs:
`RunStore`. Full pipes both ways, a daemon on the pipes, a time limit racing the exit, a retry of a
request that was performed, a file operation that breaks: `TaskCall`. Files that change between two
reads, limits and capabilities through imports: `Preflight`. Cycles of imports: `Linting`. Lost updates and torn writes of two shells:
`Commands`. Size arithmetic, precedence of operators and of layers, ranks and gates at their edges,
secrets within secrets: the data modules.

Two hazards have no property: elements that wait start after a stop (section 6), and nested fan-outs
multiply the concurrency cap (section 7).

## 6. Where the code and its documentation differ

Each of these has a run whose counterexample shows it.

- `fan_out_swallow`: `runner.rs:819` says a nested flow can never swallow a stop; a map under
  `continueOnError` records it and succeeds.
- `run_watch`: `.specs/07-cli.md:181` says SIGINT stops the watcher; one that falls into a run cancels
  that run only, and the watch goes on.
- `run_dry`: `run.rs:211` says a dry run writes nothing to the store; the retention sweep comes before
  the dry-run return.
- `hook_inputs`: `docs/tmx.schema.json:560` says the inputs of a hook import are passed into the flow it
  names; `preflight.rs:519` keeps its tasks and drops the inputs.

What follows was met while modelling, is in the models as the code has it, and has no run of its own.

Runs and cancellation. The teardown hooks run under a token nobody triggers, so a hook that hangs
holds a stopped run (`CancelEndsRun` needs `TeardownAnswers`; against `cancel.rs:14`), and so does a
binary provider's deploy, which is under no guard (`StopEndsRun` needs `ProviderAnswers`; against
`.specs/06:133`). Neither scheduler looks at the token, so elements that wait start after a request
(against `.specs/08:138`), and after another element has failed (`fanout.rs:149`, against
`.specs/05:56`). An event the sink refuses ends the run without its `destroy` hook (against
`hooks.rs:36`). An error slot recorded under `continueOnError` changes the state and fires no `change`
hook (`runner.rs:1149`, against `hooks.rs:34`). A matrix stopped after a failed combination exits with
the failure's code and not with 130 (against `run.rs:328`); a provider method whose flow does not load
exits 3 or 4, not 5 (`provider/mod.rs:313`, against `run.rs:223`). Nested flow tasks contribute neither
capabilities nor limits to preflight (`deny.rs:7`). A hook and a bootstrap task are not checked for
width, concurrency or names.

Adapters. A child that closes its stdin early fails the call or not, depending on who is first
(`process.rs:158`, against `provider/mod.rs:9`). A copy of a file onto itself empties it. `exec` ignores
`shell`. `list` of the object store reads the first page only, and `unescape_xml` replaces `&amp;` too
early (`store.rs:451`). The time limit is per attempt, so retries multiply it; a body that runs into it
is `http_request_failed` (`http.rs:234`) where the headers give `task_timeout` (`http.rs:220`). A
duration that does not parse means no time limit (`dispatch.rs:672`). Retention reads
`TMX_RUNS_RETENTION` only.

Front end. An un-kinded environment or context that does not validate is tried as a task first; a task
file is accepted as an environment. A directory that holds a flow or provider file is refused, where
`.specs/03` ignores reserved files. `tmx run environment.yaml` is accepted with no task. A hook's
`{use: …}` without `inputs` is refused by the schema. References inside a referenced environment
resolve against the flow's directory. `fmt --write --to` leaves both files; `init` overwrites; `inspect`
resolves its target twice; `validate` checks no depth. The registry is read, changed and written
without a lock, so of two registrations one may be lost or written over the other, and a torn file is refused from then on; no
run consults it. `provider add` of the specification is `provider register`. `assert_acyclic_flow_imports`
has no caller.

Data. Infix chains deepen the tree past `EXPR_DEPTH_MAX`, which bounds the parser's recursion only
(`interpolate.rs:39`). `${{ a }} … }}` with one opener is taken whole as a lone expression and
refused. Lint checks task names where the state is keyed by `output ?? name`
(`.specs/01-domain-model.md:194`), misses reads across a newline and bracketed ones, admits inner tasks' secrets, looks at
top-level imports only and walks diamonds twice; options that fail to compile are a hard error of lint
(against `usecases.rs:138`), and lint skips absent options where the run validates `{}`. `toMatch` looks
for a substring (against `tmx-schema/src/matcher.rs:104`); a list expected by `toHaveProperty` is spread
into path and value. Two finite weights may sum to infinity and trip an assertion (`fanout.rs:522`).
`--input` splits at the first `:=`, also inside a value, and its JSON form is not checked against the
declared type; a value of an inputs file that is not a string passes uncoerced (against the comment of
`coerce_inputs`, `run.rs:474`). An input the flow does not declare is accepted and bound
(`run.rs:552`, `resolve.rs:118`), and an absent `required` one is not refused, its flag is only listed
(`list.rs:98`, `inspect.rs:239`), both against `docs/CLI.md:183`, which has exit 4 for either. `--env` is laid on the
flow's context, so a task's own may beat it. A `names` table of a nearer layer hides the farther ones
whole; a configuration file that does not parse is an empty layer; `format` in one is never read.
`--from` after `--until` selects nothing and is accepted. A seed over the size or depth limit is
accepted.

Masking. Of two secrets that overlap in a text without one containing the other, the rest of the shorter
one stays (`mask.rs:404`; `Cuts` says so). The keys of objects are left as they are. A secret that is
part of `[REDACTED]` is outside the model: the texts share no character with it. A literal secret is
taken as it is written, where `tmx-schema/src/context.rs:45` has it interpolated.

## 7. Plan

Done: token, runner with hooks, fan-out, `tmx run`; then the run store, the task calls with their
processes and requests and the proofs about them, preflight with the commands, and the data.

Proved: every safety property of the modules that have no recursive operator.

Left: the composition of `FanOut` with itself, for the product of two concurrency caps, and of a nested
task loop with its parent's; the depth that bounds the nesting is in `Linting` (`RunImports`),
where a cycle lint warns of is what meets the bound when run.

A run answers a question of its own; small modules of one kind share one, and liveness is checked
in the run of the safety properties, with its hypothesis in the formula.

## 8. Not modelled, and why

Parsing of files and of arguments, schema validation, and the formatting of events and help texts are
conversions without state: a document is the shape it parses to. How characters make lexemes, and
floating-point rounding, are left out of the data modules. What adapters send over the network is outside the model. Timing appears
only as order: a grace window has no length. The composition root, ids and the in-memory cache are
single calls. The test kit and the conformance harness are read for what they say of the ports.
