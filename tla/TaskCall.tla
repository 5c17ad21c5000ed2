------------------------------ MODULE TaskCall ------------------------------
(***************************************************************************)
(* dispatch_task and the adapters below it: one task is built into a port  *)
(* request (its templates interpolated, its required fields looked up),    *)
(* the adapter of its type is called, and the answer becomes the task's    *)
(* output or a typed error.  The binary environment provider takes the     *)
(* same way through the process adapter, with the environment on stdin.    *)
(*                                                                         *)
(* Process and HTTP calls run step by step beside their child or server;   *)
(* a file operation is synchronous.  A hard stop may drop a call between   *)
(* any two steps.                                                          *)
(***************************************************************************)
EXTENDS OsProcess, WebRequest

CONSTANTS
  Calls,        \* the tasks: [type, given, op, bad, child, request, ...]
  Paths,        \* the files of the file system
  Absent,       \* the size of a file that is not there
  FlowDepthMax  \* FLOW_DEPTH_MAX

\* What the provider hands to its binary is no template, so it cannot fail.
ASSUME TaskCallAssumption ==
  /\ FlowDepthMax \in Nat /\ Absent \notin Nat
  /\ \A t \in Calls :
       /\ t.child \in Children /\ t.request \in Requests
       /\ t.path \in Paths /\ t.destination \in Paths
       /\ t.size \in Nat /\ t.depth \in Nat
       /\ t.type = "method" => ~t.bad

VARIABLES
  task,  \* the call in hand
  stage, \* "build", "adapter" or "done"
  out,   \* "output", what the runner must do, or an error code
  files  \* the size of each file, or Absent

callVars == <<task, stage, out, files>>
vars == <<procVars, webVars, callVars>>

ProcessTypes == {"exec", "run", "method"}
WebTypes == {"fetch", "chat", "store"}
FileOps == {"read", "write", "append", "delete", "exists", "copy", "move"}

Sizes == 0..(OutputCap + 1)
-----------------------------------------------------------------------------
Init ==
  \E t \in Calls, f \in [Paths -> Sizes \union {Absent}] :
    /\ t.type # "file" => f = [p \in Paths |-> Absent]
    /\ task = t /\ stage = "build" /\ out = "none" /\ files = f
    /\ ProcessIdle(t.child) /\ WebIdle(t.request)

Done(o) == stage' = "done" /\ out' = o
UnchangedAdapters == UNCHANGED <<procVars, webVars, files>>

\* What a task lacks to become a request, whichever of several is met first.
Lacks(t) ==
  (IF t.bad THEN {"expr_error"} ELSE {})
  \union (IF t.type = "run" /\ t.given \intersect {"script", "file"} = {}
          THEN {"run_missing_source"} ELSE {})
  \union (IF t.type = "file" /\ t.op \notin FileOps
          THEN {"unknown_file_operation"} ELSE {})
  \union (IF t.type = "file" /\ t.op \in {"copy", "move"} /\ "destination" \notin t.given
          THEN {"file_missing_destination"} ELSE {})
  \union (IF t.type = "store" /\ t.op \notin StoreKinds
          THEN {"unknown_store_operation"} ELSE {})
  \union (IF t.type = "store" /\ t.op \in StoreKinds \ {"list"} /\ "key" \notin t.given
          THEN {"store_missing_key"} ELSE {})
  \union (IF t.type = "method" /\ "subcommand" \notin t.given
          THEN {"provider_method_not_subcommand"} ELSE {})
  \union (IF t.type = "method" /\ "binary" \notin t.given
          THEN {"provider_binary_missing"} ELSE {})

CannotBuild ==
  /\ stage = "build"
  /\ \E e \in Lacks(task) : Done(e)
  /\ UNCHANGED task /\ UnchangedAdapters

Builds ==
  /\ stage = "build" /\ Lacks(task) = {}
  /\ task.type \in ProcessTypes \union WebTypes \union {"file"}
  /\ stage' = "adapter"
  /\ UNCHANGED <<task, out>> /\ UnchangedAdapters

\* The control-flow types are handed back to the runner.
Classify ==
  /\ stage = "build" /\ task.type \in {"map", "eval"}
  /\ Done(task.type)
  /\ UNCHANGED task /\ UnchangedAdapters

\* A flow recurses only while its depth is below the bound.
Recurse ==
  /\ stage = "build" /\ task.type = "flow"
  /\ Done(IF task.depth >= FlowDepthMax THEN "flow_depth_exceeded" ELSE "flow")
  /\ UNCHANGED task /\ UnchangedAdapters

\* run_assert: no port; the first assertion that does not hold ends it.
Assert ==
  /\ stage = "build" /\ task.type = "assert" /\ ~task.bad
  /\ \E held \in BOOLEAN : Done(IF held THEN "output" ELSE "assertion_failed")
  /\ UNCHANGED task /\ UnchangedAdapters
-----------------------------------------------------------------------------
(* The adapters at work.                                                   *)

Working(types) == stage = "adapter" /\ task.type \in types

InProcess(Step) ==
  /\ Working(ProcessTypes) /\ Step
  /\ UNCHANGED <<callVars, webVars>>

OnWeb(Step) ==
  /\ Working(WebTypes) /\ Step
  /\ UNCHANGED <<callVars, procVars>>

\* An adapter's answer as the outcome of the task: whatever fails a provider
\* method is an environment failure, and a dropped call has no outcome.
ProcessOutcome(type, a) ==
  IF a = "ok" THEN "output"
  ELSE IF type = "method" /\ a # "dropped" THEN "provider_method_failed"
  ELSE a

ProcessDone ==
  /\ Working(ProcessTypes) /\ phase = "answered"
  /\ Done(ProcessOutcome(task.type, answer))
  /\ UNCHANGED task /\ UnchangedAdapters

WebDone ==
  /\ Working(WebTypes) /\ webPhase = "answered"
  /\ Done(IF webAnswer = "ok" THEN "output" ELSE webAnswer)
  /\ UNCHANGED task /\ UnchangedAdapters
-----------------------------------------------------------------------------
(* LocalFileSystem::perform, one synchronous call.                         *)

Source == task.path
Target == IF task.op \in {"copy", "move"} THEN task.destination ELSE task.path

\* What the operation refuses before it changes anything.
FileRefusal ==
  IF task.op \in {"read", "delete", "copy", "move"} /\ files[Source] = Absent
  THEN "file_not_found"
  ELSE IF task.op = "read" /\ files[Source] > OutputCap THEN "output_too_large"
  ELSE IF task.op = "read" /\ "encoding" \notin task.given THEN "unknown_file_encoding"
  ELSE "none"

\* What a write into a file leaves when all of n units went through.
Filled(n) ==
  IF task.op = "append" /\ files[Target] # Absent THEN files[Target] + n ELSE n

\* Mutant of Moved: the new name is made and the old one stays.
MovedByCopy(f) == [f EXCEPT ![Target] = f[Source]]

\* A rename onto itself changes nothing.
Moved(f) ==
  IF Source = Target THEN f
  ELSE [f EXCEPT ![Target] = f[Source], ![Source] = Absent]

\* std::fs::copy truncates its target before it reads: onto itself it leaves
\* an empty file.
Copied(f) == [f EXCEPT ![Target] = IF Source = Target THEN 0 ELSE f[Source]]

FileSucceeds ==
  /\ Working({"file"}) /\ FileRefusal = "none"
  /\ files' = CASE task.op \in {"write", "append"} ->
                     [files EXCEPT ![Target] = Filled(task.size)]
                [] task.op = "delete" -> [files EXCEPT ![Target] = Absent]
                [] task.op = "copy"   -> Copied(files)
                [] task.op = "move"   -> Moved(files)
                [] OTHER              -> files
  /\ Done("output")
  /\ UNCHANGED <<task, procVars, webVars>>

FileRefused ==
  /\ Working({"file"}) /\ FileRefusal # "none"
  /\ Done(FileRefusal)
  /\ UNCHANGED task /\ UnchangedAdapters

\* A name that is not there yet may be in a directory that is not either.
CanLackDirectory ==
  task.op \in {"write", "append", "copy", "move"} /\ files[Target] = Absent

\* The operating system fails the call: a write, an append or a copy may have
\* got any part of the way.  exists reports a path it cannot read as absent.
FileBreaks ==
  /\ Working({"file"}) /\ FileRefusal = "none" /\ task.op # "exists"
  /\ \/ Done("file_io_failed") /\ UNCHANGED files
     \/ CanLackDirectory /\ Done("file_not_found") /\ UNCHANGED files
     \/ /\ task.op \in {"write", "append"} /\ Done("file_io_failed")
        /\ \E n \in 0..task.size : files' = [files EXCEPT ![Target] = Filled(n)]
     \/ /\ task.op = "copy" /\ Done("file_io_failed")
        /\ \E n \in 0..Copied(files)[Target] : files' = [files EXCEPT ![Target] = n]
  /\ UNCHANGED <<task, procVars, webVars>>
-----------------------------------------------------------------------------
Next ==
  \/ CannotBuild \/ Builds \/ Classify \/ Recurse \/ Assert
  \/ InProcess(ProcessNext) \/ ProcessDone
  \/ OnWeb(WebNext) \/ WebDone
  \/ FileSucceeds \/ FileRefused \/ FileBreaks

\* The runtime polls the call and keeps its timers; a child runs on.  Nothing
\* makes a server answer.
Fairness ==
  /\ WF_vars(CannotBuild \/ Builds \/ Classify \/ Recurse \/ Assert)
  /\ WF_vars(InProcess(Spawn \/ SpawnFails))
  /\ WF_vars(InProcess(WriteStdin \/ StdinBreaks \/ CloseStdin))
  /\ \A s \in Streams : WF_vars(InProcess(Read(s) \/ ReadsEof(s)))
  /\ WF_vars(InProcess(Wait \/ KillOverflown))
  /\ WF_vars(InProcess(TimesOut))
  /\ WF_vars(InProcess(ChildNext))
  /\ WF_vars(OnWeb(BuildFails \/ Send))
  /\ WF_vars(OnWeb(HeadersArrive \/ ReadChunk \/ BodyEnds))
  /\ WF_vars(OnWeb(WebTimesOut))
  /\ WF_vars(ProcessDone \/ WebDone)
  /\ WF_vars(FileSucceeds \/ FileRefused)

Spec == Init /\ [][Next]_vars /\ Fairness
-----------------------------------------------------------------------------
TypeOK ==
  /\ task \in Calls /\ stage \in {"build", "adapter", "done"}
  /\ files \in [Paths -> Nat \union {Absent}]
  /\ ProcessTypeOK /\ WebTypeOK

\* A task has an output only if its adapter earned one, and an adapter was
\* reached only by a task that could be built: a missing field or a template
\* that fails is reported before anything is spawned or sent (dispatch_task).
AnswerIsEarned ==
  /\ ProcessAnswerIsEarned /\ WebAnswerIsEarned
  /\ out = "output" /\ task.type \in ProcessTypes => answer = "ok"
  /\ out = "output" /\ task.type \in WebTypes => webAnswer = "ok"
  /\ out = "flow" => task.depth + 1 <= FlowDepthMax
  /\ task.type = "method" /\ stage = "done" =>
       out \in {"output", "dropped", "provider_method_failed",
                "provider_method_not_subcommand", "provider_binary_missing"}
  /\ Lacks(task) # {} => phase = "idle" /\ webPhase = "idle"

\* A file operation changes its target alone, whether it succeeds or breaks,
\* and one that answers loses nothing: what it moved is there under the new
\* name only, what it copied under both.  Excepted is a copy of a file onto
\* itself, which empties it (LocalFileSystem::perform).
FilesAreKept ==
  [][/\ \A p \in Paths :
          files'[p] # files[p] =>
            p = Target \/ (task.op = "move" /\ p = Source /\ files'[Target] = files[p])
     /\ (/\ task.type = "file" /\ task.op \in {"move", "copy"} /\ out' = "output"
         /\ task.op = "copy" => Source # Target) =>
          /\ files'[Target] = files[Source]
          /\ Source # Target =>
               files'[Source] = IF task.op = "move" THEN Absent ELSE files[Source]
    ]_<<files, out>>

\* A call ends: a process when its child lets go of its pipes, whatever it
\* writes before it reads, and any timed call when its limit has run out.
CallEnds ==
  (/\ stage = "adapter"
   /\ \/ task.type = "file"
      \/ task.type \in ProcessTypes /\ (task.child.timed \/ ~task.child.daemon)
      \/ task.type \in WebTypes /\ (task.request.timed \/ ~task.request.wellFormed))
  ~> stage = "done"
=============================================================================
