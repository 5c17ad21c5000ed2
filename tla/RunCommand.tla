----------------------------- MODULE RunCommand -----------------------------
(***************************************************************************)
(* `tmx run` around the engine (tmx-cli/src/commands/run.rs): it resolves  *)
(* and prepares a flow, deploys its environment, runs the flow once for    *)
(* each matrix combination, cleans the environment and turns the outcome   *)
(* into an exit code; under --watch it starts over when a source changes.  *)
(*                                                                         *)
(* A combination is one run of PipelineRunner and shows here only as its   *)
(* outcome: the exit code of its record, or of the hard error it returned  *)
(* instead of one.  A provider method is a call that answers, fails, or    *)
(* hangs.  SIGINT and --timeout act through the token of the run they      *)
(* fall into, which every run makes anew.                                  *)
(***************************************************************************)
EXTENDS Naturals, Sequences, TwoPhaseCancel

CONSTANTS
  FlagSets,     \* the command lines: the flags that shape the control
  MaxCombos,    \* bound on the combinations of a matrix
  MaxEdits,     \* bound on the edits of the watched sources
  HardCodes,    \* exit codes of the errors a run ends in without a record
  Untold        \* None: no failure has been latched, no code is known

Environment == {"down", "partial", "up"}
StatusCodes == {0, 1, 124, 130}
PrepareCodes == {1, 3, 4, 5}
Codes == StatusCodes \cup HardCodes \cup PrepareCodes
Outcome == [code : Codes, hard : BOOLEAN]

\* `provider` is "none" without a provider and under --local.
Flags ==
  [provider : {"none", "binary", "flow"}, keep : BOOLEAN, noDeploy : BOOLEAN,
   dry : BOOLEAN, watch : BOOLEAN, noStore : BOOLEAN, noTasks : BOOLEAN]

ASSUME FlagsAssumption == FlagSets \subseteq Flags
ASSUME ReasonsAssumption == Reasons \subseteq {"timeout", "interrupt"}
ASSUME BoundsAssumption == MaxCombos \in Nat \ {0} /\ MaxEdits \in Nat
ASSUME HardCodesAssumption == HardCodes \subseteq Nat \ {0}
ASSUME UntoldAssumption == Untold \notin Outcome /\ Untold \notin Codes

VARIABLES
  flags,        \* the command line
  pc,           \* where the command is
  env,          \* what the provider keeps up
  combos,       \* how many combinations this run has
  done,         \* the outcomes of those that have ended
  first,        \* first_failure: the latched outcome
  atStart,      \* the stop that was requested when the call in flight began
  called,       \* the provider methods this run has called
  answer,       \* the exit code of the latest run
  stored,       \* the command has changed the run store
  version,      \* the edits of the watched sources so far
  printed,      \* the edits the fingerprint of the watch stands for
  read          \* the edits the latest preflight has read

runVars == <<combos, done, first, atStart, called>>
watchVars == <<version, printed, read>>
vars == <<tokenVars, flags, pc, env, runVars, answer, stored, watchVars>>

Init ==
  /\ TokenInit
  /\ flags \in FlagSets
  /\ pc = IF flags.watch THEN "watch" ELSE "resolve"
  /\ env \in {"down", "up"}
  /\ combos = 0
  /\ done = << >>
  /\ first = Untold
  /\ atStart = NoReason
  /\ called = {}
  /\ answer = Untold
  /\ stored = FALSE
  /\ version = 0 /\ printed = 0 /\ read = 0

-----------------------------------------------------------------------------
(* Which methods a command line asks for, and what a code says.            *)

\* Mutant of Cleans: --no-deploy is forgotten.
CleansAnyEnvironment == flags.provider # "none" /\ ~flags.keep

Provisions == flags.provider # "none" /\ ~flags.noDeploy
Cleans == Provisions /\ ~flags.keep

\* Mutant of CodeOf: the time limit as a shell reports SIGALRM.
CodeOfSignal(r) == IF r = "timeout" THEN 142 ELSE 130

CodeOf(r) == IF r = "timeout" THEN 124 ELSE 130

Over == pc \in {"waiting", "exited"}

\* The run is over: the command exits with its code, or the watch goes on.
Finish(code) ==
  /\ answer' = code
  /\ pc' = IF flags.watch THEN "waiting" ELSE "exited"

-----------------------------------------------------------------------------
(* Resolving and preparing.                                                *)

\* watch: the paths to watch, and their fingerprint, before the first run.
WatchStarts ==
  /\ pc = "watch"
  /\ printed' = version
  /\ pc' = "resolve"
  /\ UNCHANGED <<tokenVars, flags, env, runVars, answer, stored, version, read>>

WatchIsUnresolved ==
  /\ pc = "watch"
  /\ pc' = "exited"
  /\ answer' = 4
  /\ UNCHANGED <<tokenVars, flags, env, runVars, stored, watchVars>>

ResolveFails ==
  /\ pc = "resolve"
  /\ Finish(4)
  /\ read' = version
  /\ UNCHANGED <<tokenVars, flags, env, runVars, stored, version, printed>>

\* The retention sweep may find records to prune; then the run gets its token
\* and the watchers of the token are spawned.
Resolves ==
  /\ pc = "resolve"
  /\ stored' \in {stored, stored \/ ~flags.noStore}
  /\ requested' = NoReason
  /\ hard' = NoReason
  /\ stage' = [r \in Reasons |-> "armed"]
  /\ pc' = "prepare"
  /\ UNCHANGED <<flags, env, runVars, answer, watchVars>>

\* Preflight, coercion, slicing, the matrix or the provider's manifest fails.
PrepareFails ==
  /\ pc = "prepare"
  /\ \E code \in PrepareCodes : Finish(code)
  /\ read' = version
  /\ UNCHANGED <<tokenVars, flags, env, runVars, stored, version, printed>>

DryRun ==
  /\ pc = "prepare"
  /\ flags.dry
  /\ Finish(0)
  /\ read' = version
  /\ UNCHANGED <<tokenVars, flags, env, runVars, stored, version, printed>>

Prepares ==
  /\ pc = "prepare"
  /\ ~flags.dry
  /\ combos' \in 1 .. MaxCombos
  /\ atStart' = requested
  /\ pc' = IF Provisions THEN "deploy" ELSE "loop"
  /\ read' = version
  /\ UNCHANGED <<tokenVars, flags, env, done, first, called, answer, stored,
                 version, printed>>

-----------------------------------------------------------------------------
(* The environment lifecycle.                                              *)

\* The flow of a flow provider is run under the run's token: it dispatches
\* nothing once a stop is requested.  A binary is called whatever the token
\* says, and no guard cuts it off.
Deploys ==
  /\ pc = "deploy"
  /\ flags.provider = "flow" => atStart = NoReason
  /\ env' = "up"
  /\ called' = called \cup {"deploy"}
  /\ atStart' = requested
  /\ pc' = "loop"
  /\ UNCHANGED <<tokenVars, flags, combos, done, first, answer, stored,
                 watchVars>>

\* The method's flow may not load (3, 4); every other failure, a flow cut off
\* included, is an environment error (5).
DeployCodes == IF flags.provider = "flow" THEN {3, 4, 5} ELSE {5}

\* Mutant of DeployFails: the early return comes before the clean.
DeployFailsUncleaned ==
  /\ pc = "deploy"
  /\ env' \in Environment
  /\ called' = called \cup {"deploy"}
  /\ \E code \in DeployCodes : Finish(code)
  /\ UNCHANGED <<tokenVars, flags, combos, done, first, atStart, stored,
                 watchVars>>

\* A failed deploy leaves anything standing, and is cleaned up after.
DeployFails ==
  /\ pc = "deploy"
  /\ env' \in Environment
  /\ called' = called \cup {"deploy"}
  /\ \E code \in DeployCodes :
       IF flags.keep THEN Finish(code)
       ELSE answer' = code /\ pc' = "undeploy"
  /\ UNCHANGED <<tokenVars, flags, combos, done, first, atStart, stored,
                 watchVars>>

\* invoke_teardown: `clean` under a token that nobody triggers.  Its failure is
\* a warning.
CallClean ==
  /\ env' \in {"down", "partial", env}
  /\ called' = called \cup {"clean"}

CleansUpDeploy ==
  /\ pc = "undeploy"
  /\ CallClean
  /\ Finish(answer)
  /\ UNCHANGED <<tokenVars, flags, combos, done, first, atStart, stored,
                 watchVars>>

CleanAnswers ==
  /\ pc = "clean"
  /\ CallClean
  /\ pc' = "emit"
  /\ UNCHANGED <<tokenVars, flags, combos, done, first, atStart, answer,
                 stored, watchVars>>

-----------------------------------------------------------------------------
(* The matrix.                                                             *)

Failed(o) == o.hard \/ o.code # 0

\* What the status of a combination's record can be.  Requested before it
\* started, a stop leaves all its tasks undispatched; requested since, it may
\* find the last task ended, or failing.  A slice may have left no task.
StatusCode ==
  IF flags.noTasks THEN {0}
  ELSE IF atStart # NoReason THEN {CodeOf(atStart)}
  ELSE {0, 1} \cup {CodeOf(r) : r \in {requested, hard} \ {NoReason}}

CombinationOutcome ==
  [code : StatusCode, hard : {FALSE}] \cup [code : HardCodes, hard : {TRUE}]

\* Mutant of Latch: the latest failure is the command's.
LatchLast(latched, o) == IF Failed(o) THEN o ELSE latched

Latch(latched, o) == IF latched = Untold /\ Failed(o) THEN o ELSE latched

\* Mutant of StopsMatrix: a combination that failed stops the matrix.
StopsOnFailure(o) == Failed(o)

\* A hard error stops the matrix; a record that failed does not.
StopsMatrix(o) == o.hard

AfterCombination(o) ==
  IF ~StopsMatrix(o) /\ Len(done) + 1 < combos THEN "loop"
  ELSE IF Cleans THEN "clean" ELSE "emit"

\* The record is saved unless the store refuses it, which is a warning.
Ends(o) ==
  /\ done' = Append(done, o)
  /\ first' = Latch(first, o)
  /\ stored' \in {stored, stored \/ (~flags.noStore /\ ~o.hard)}
  /\ pc' = AfterCombination(o)

\* Mutant of RunsCombination: a run that was cut off is tried again.
RetriesCutOff ==
  /\ pc = "loop"
  /\ \E o \in CombinationOutcome :
       IF o.code \in {124, 130}
       THEN pc' = "prepare" /\ UNCHANGED <<done, first, stored>>
       ELSE Ends(o)
  /\ atStart' = requested
  /\ UNCHANGED <<tokenVars, flags, env, combos, called, answer, watchVars>>

RunsCombination ==
  /\ pc = "loop"
  /\ \E o \in CombinationOutcome : Ends(o)
  /\ atStart' = requested
  /\ UNCHANGED <<tokenVars, flags, env, combos, called, answer, watchVars>>

Result == IF first # Untold THEN first ELSE done[Len(done)]

\* --state-out and the final state on stdout, for a result with a record;
\* either may be refused, which is then the answer.
Emits ==
  /\ pc = "emit"
  /\ Finish(Result.code) \/ (~Result.hard /\ Finish(1))
  /\ UNCHANGED <<tokenVars, flags, env, runVars, stored, watchVars>>

-----------------------------------------------------------------------------
(* Watching.                                                               *)

\* Mutant of Rerun: the fingerprint is taken when the wait begins.
FingerprintsOnWait ==
  /\ pc = "waiting"
  /\ printed # version
  /\ printed' = version
  /\ UNCHANGED <<tokenVars, flags, pc, env, runVars, answer, stored, version,
                 read>>

\* The poll finds another fingerprint.
Rerun ==
  /\ pc = "waiting"
  /\ printed # version
  /\ printed' = version
  /\ pc' = "resolve"
  /\ combos' = 0
  /\ done' = << >>
  /\ first' = Untold
  /\ atStart' = NoReason
  /\ called' = {}
  /\ UNCHANGED <<tokenVars, flags, env, answer, stored, version, read>>

\* SIGINT while the watch waits.
StopWatching ==
  /\ pc = "waiting"
  /\ pc' = "exited"
  /\ UNCHANGED <<tokenVars, flags, env, runVars, answer, stored, watchVars>>

\* Someone edits a watched source.
Edit ==
  /\ flags.watch /\ pc # "exited"
  /\ version < MaxEdits
  /\ version' = version + 1
  /\ UNCHANGED <<tokenVars, flags, pc, env, runVars, answer, stored, printed,
                 read>>

\* The run holds its token.  The watchers outlive a watched run, but what they
\* then trigger nobody reads; a SIGINT that finds the command waiting is
\* StopWatching.
HasToken == pc \in {"prepare", "deploy", "undeploy", "loop", "clean", "emit"}

Fires(r) ==
  /\ HasToken
  /\ Request(r)
  /\ UNCHANGED <<flags, pc, env, runVars, answer, stored, watchVars>>

GraceEnds(r) ==
  /\ HasToken
  /\ HardCancel(r)
  /\ UNCHANGED <<flags, pc, env, runVars, answer, stored, watchVars>>

-----------------------------------------------------------------------------

Command ==
  \/ WatchStarts \/ WatchIsUnresolved
  \/ ResolveFails \/ Resolves
  \/ PrepareFails \/ DryRun \/ Prepares
  \/ Emits

DeployEnds == Deploys \/ DeployFails
TeardownEnds == CleansUpDeploy \/ CleanAnswers
Watch == Rerun \/ StopWatching

Next ==
  \/ Command \/ DeployEnds \/ TeardownEnds \/ RunsCombination
  \/ Watch \/ Edit
  \/ \E r \in Reasons : Fires(r) \/ GraceEnds(r)

(***************************************************************************)
(* Fairness: the command goes on where it waits for nobody, grace timers   *)
(* fire, and what runs under the token (a combination, the deploy of a     *)
(* flow provider) ends after the hard stop, which PipelineRunner shows for *)
(* adapters that answer the teardown hooks.  A binary may hang.            *)
(***************************************************************************)
Spec ==
  /\ Init /\ [][Next]_vars
  /\ WF_vars(Command)
  /\ \A r \in Reasons : WF_vars(GraceEnds(r))
  /\ WF_vars(hard # NoReason /\ RunsCombination)
  /\ WF_vars(hard # NoReason /\ flags.provider = "flow" /\ DeployEnds)

-----------------------------------------------------------------------------
(* Properties.                                                             *)

TypeOK ==
  /\ TokenTypeOK
  /\ flags \in FlagSets
  /\ pc \in {"watch", "resolve", "prepare", "deploy", "undeploy", "loop",
             "clean", "emit", "waiting", "exited"}
  /\ env \in Environment
  /\ combos \in 0 .. MaxCombos
  /\ done \in Seq(Outcome)
  /\ first \in Outcome \cup {Untold}
  /\ atStart \in Reasons \cup {NoReason}
  /\ called \subseteq {"deploy", "clean"}
  /\ answer \in Codes \cup {Untold}
  /\ stored \in BOOLEAN
  /\ version \in 0 .. MaxEdits
  /\ printed \in 0 .. MaxEdits
  /\ read \in 0 .. MaxEdits

\* The exit code is that of the first combination that failed, or 1 when its
\* record could not be put out, and 0 only if every combination ended well; a
\* command that ran none exits 0 only for a dry run.
AnswerIsExplained ==
  Over =>
    IF done = << >>
    THEN answer \in PrepareCodes \/ (flags.dry /\ answer = 0)
    ELSE \/ /\ answer \in {0, 1}
            /\ Len(done) = combos
            /\ \A i \in DOMAIN done : ~Failed(done[i])
         \/ \E i \in DOMAIN done :
              /\ Failed(done[i])
              /\ \A j \in 1 .. i - 1 : ~Failed(done[j])
              /\ answer = done[i].code \/ (answer = 1 /\ ~done[i].hard)

\* Every combination of the matrix runs, unless a hard error, which can only be
\* the last outcome, has stopped it.
NothingIsSkipped ==
  LET n == Len(done)
  IN  /\ \A i \in 1 .. n : done[i].hard => i = n
      /\ pc \in {"clean", "emit"} \/ (Over /\ n > 0) =>
           n = combos \/ done[n].hard

\* However a run ends, an environment it tried to deploy has been cleaned, or
\* was to be kept.
DeployedIsCleaned ==
  Over /\ "deploy" \in called /\ ~flags.keep => "clean" \in called

\* No combination runs while the environment this run provisions is not up.
CombinationsHaveEnvironment == pc = "loop" /\ Provisions => env = "up"

\* A standing environment stays as it is under --no-deploy, --local and
\* --dry-run; under --keep only a deploy changes it.
StandingIsLeftAlone ==
  [][env' # env => /\ Provisions /\ ~flags.dry
                   /\ flags.keep => pc = "deploy"]_vars

\* While the watch waits, its latest run has read the latest edit, or the next
\* poll finds it: an edit that falls into a run is not lost.
NoEditIsLost == pc = "waiting" => read = version \/ printed # version

\* With a provider that answers, a requested stop ends the run.
ProviderAnswers == WF_vars(DeployEnds) /\ WF_vars(TeardownEnds)

StopEndsRun == ProviderAnswers => ((HasToken /\ requested # NoReason) ~> Over)

-----------------------------------------------------------------------------
(* What the documentation says, and the code does not do.                  *)

\* "SIGINT stops the watcher" (.specs/07): nothing is re-run after a SIGINT.
SigintStopsWatching ==
  [][pc = "waiting" /\ pc' = "resolve" =>
       \A r \in Reasons \ {"timeout"} : stage[r] = "armed"]_vars

\* "--dry-run: execute nothing (no env lifecycle, no task side effect, no store
\* write)" (run.rs).
DryRunWritesNothing == flags.dry => ~stored

=============================================================================
