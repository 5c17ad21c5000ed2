----------------------------- MODULE OsProcess -----------------------------
(***************************************************************************)
(* OsProcessRunner: one call that spawns a child, feeds its stdin and      *)
(* drains stdout and stderr at once, under a cap and an optional time      *)
(* limit, until the child has closed both and exited.                      *)
(*                                                                         *)
(* The child is any short program of reads, writes and an exit code; it    *)
(* may leave a background process behind that keeps its output pipes open. *)
(* Bytes are counted in units; a pipe holds PipeSize of them.              *)
(***************************************************************************)
EXTENDS Naturals, Sequences, FiniteSets

CONSTANTS
  Children,  \* the children: [program, exit, stdin, timed, daemon]
  PipeSize,  \* what the kernel buffers in a pipe
  OutputCap  \* CAPTURED_OUTPUT_MAX_BYTES, for each of stdout and stderr

ASSUME OsProcessAssumption ==
  /\ PipeSize \in Nat \ {0} /\ OutputCap \in Nat
  /\ \A c \in Children : c.program \in Seq({"in", "out", "err"}) /\ c.stdin \in Nat

VARIABLES
  spec,    \* the child of this call
  child,   \* what has become of it
  ip,      \* the next step of its program
  pipe,    \* units in each of its three pipes
  toWrite, \* units of stdin the parent has still to write
  inOpen,  \* the parent's end of stdin is open
  got,     \* units captured
  eof,     \* read_capped has returned
  phase,   \* where run_inner stands
  answer   \* its result, or "none"

procVars == <<spec, child, ip, pipe, toWrite, inOpen, got, eof, phase, answer>>

Streams == {"out", "err"}
Written(s) == Cardinality({i \in 1..(ip - 1) : spec.program[i] = s})
Produces(s) == Cardinality({i \in DOMAIN spec.program : spec.program[i] = s})
-----------------------------------------------------------------------------
ProcessIdle(c) ==
  /\ spec = c
  /\ child = "unborn" /\ ip = 1
  /\ pipe = [s \in {"in", "out", "err"} |-> 0]
  /\ toWrite = c.stdin /\ inOpen = TRUE
  /\ got = [s \in Streams |-> 0] /\ eof = [s \in Streams |-> FALSE]
  /\ phase = "idle" /\ answer = "none"

Answer(a) == phase' = "answered" /\ answer' = a

\* Mutant of KillOnDrop: kill_on_drop is left at its default.
DropLeavesChild == child' = child

\* A dropped Child is killed: build_command sets kill_on_drop.
KillOnDrop == child' = IF child = "running" THEN "killed" ELSE child

Spawn ==
  /\ phase = "idle"
  /\ phase' = "pumping" /\ child' = "running"
  /\ UNCHANGED <<spec, ip, pipe, toWrite, inOpen, got, eof, answer>>

SpawnFails ==
  /\ phase = "idle"
  /\ Answer("process_spawn_failed")
  /\ UNCHANGED <<spec, child, ip, pipe, toWrite, inOpen, got, eof>>
-----------------------------------------------------------------------------
(* The pump: three futures under try_join!.                                *)

WriteStdin ==
  /\ phase = "pumping" /\ inOpen /\ toWrite > 0
  /\ child = "running" /\ pipe["in"] < PipeSize
  /\ pipe' = [pipe EXCEPT !["in"] = @ + 1]
  /\ toWrite' = toWrite - 1
  /\ UNCHANGED <<spec, child, ip, inOpen, got, eof, phase, answer>>

\* The child is gone and has not read everything: the write fails.
StdinBreaks ==
  /\ phase = "pumping" /\ inOpen /\ toWrite > 0
  /\ child # "running"
  /\ Answer("process_io_failed") /\ KillOnDrop
  /\ UNCHANGED <<spec, ip, pipe, toWrite, inOpen, got, eof>>

CloseStdin ==
  /\ phase = "pumping" /\ inOpen /\ toWrite = 0
  /\ inOpen' = FALSE
  /\ UNCHANGED <<spec, child, ip, pipe, toWrite, got, eof, phase, answer>>

\* Mutant of Drains: output is read only once stdin has been written.
DrainsAfterStdin(s) == ~inOpen /\ ~eof[s]

Drains(s) == ~eof[s]

Read(s) ==
  /\ phase = "pumping" /\ Drains(s) /\ pipe[s] > 0
  /\ pipe' = [pipe EXCEPT ![s] = @ - 1]
  /\ got' = [got EXCEPT ![s] = @ + 1]
  /\ phase' = IF got'[s] > OutputCap THEN "overflown" ELSE phase
  /\ UNCHANGED <<spec, child, ip, toWrite, inOpen, eof, answer>>

\* End of file: nothing buffered, and nobody left who could write.
ReadsEof(s) ==
  /\ phase = "pumping" /\ Drains(s) /\ pipe[s] = 0
  /\ child # "running" /\ ~spec.daemon
  /\ eof' = [eof EXCEPT ![s] = TRUE]
  /\ UNCHANGED <<spec, child, ip, pipe, toWrite, inOpen, got, phase, answer>>

Wait ==
  /\ phase = "pumping" /\ ~inOpen /\ \A s \in Streams : eof[s]
  /\ child = "exited"
  /\ Answer(IF spec.exit = 0 THEN "ok" ELSE "process_exit_nonzero")
  /\ UNCHANGED <<spec, child, ip, pipe, toWrite, inOpen, got, eof>>

\* output_too_large: the pump is abandoned, the child killed and reaped.
KillOverflown ==
  /\ phase = "overflown"
  /\ KillOnDrop /\ Answer("output_too_large")
  /\ UNCHANGED <<spec, ip, pipe, toWrite, inOpen, got, eof>>

\* The per-task timeout: the pump is dropped, the child killed and reaped.
TimesOut ==
  /\ phase = "pumping" /\ spec.timed
  /\ KillOnDrop /\ Answer("task_timeout")
  /\ UNCHANGED <<spec, ip, pipe, toWrite, inOpen, got, eof>>

\* The guard of a hard stop drops the whole call.
ProcessDropped ==
  /\ phase \in {"pumping", "overflown"}
  /\ KillOnDrop /\ Answer("dropped")
  /\ UNCHANGED <<spec, ip, pipe, toWrite, inOpen, got, eof>>
-----------------------------------------------------------------------------
(* The child.                                                              *)

ChildStep ==
  /\ child = "running" /\ ip <= Len(spec.program)
  /\ ip' = ip + 1
  /\ LET op == spec.program[ip] IN
     \/ /\ op = "in" /\ pipe["in"] > 0
        /\ pipe' = [pipe EXCEPT !["in"] = @ - 1]
     \/ op = "in" /\ pipe["in"] = 0 /\ ~inOpen /\ UNCHANGED pipe
     \/ /\ op \in Streams /\ pipe[op] < PipeSize
        /\ pipe' = [pipe EXCEPT ![op] = @ + 1]
  /\ UNCHANGED <<spec, child, toWrite, inOpen, got, eof, phase, answer>>

ChildExits ==
  /\ child = "running" /\ ip > Len(spec.program)
  /\ child' = "exited"
  /\ UNCHANGED <<spec, ip, pipe, toWrite, inOpen, got, eof, phase, answer>>

Pump ==
  \/ WriteStdin \/ StdinBreaks \/ CloseStdin
  \/ \E s \in Streams : Read(s) \/ ReadsEof(s)
  \/ Wait \/ KillOverflown

ChildNext == ChildStep \/ ChildExits

ProcessNext ==
  \/ Spawn \/ SpawnFails \/ Pump \/ TimesOut \/ ProcessDropped
  \/ ChildNext
-----------------------------------------------------------------------------
ProcessTypeOK ==
  /\ spec \in Children
  /\ child \in {"unborn", "running", "exited", "killed"}
  /\ ip \in 1..(Len(spec.program) + 1)
  /\ pipe \in [{"in", "out", "err"} -> 0..PipeSize]
  /\ toWrite \in 0..spec.stdin /\ inOpen \in BOOLEAN
  /\ got \in [Streams -> 0..(OutputCap + 1)] /\ eof \in [Streams -> BOOLEAN]
  /\ phase \in {"idle", "pumping", "overflown", "answered"}
  /\ answer \in {"none", "ok", "process_spawn_failed", "process_io_failed",
                 "process_exit_nonzero", "task_timeout", "output_too_large", "dropped"}

\* A call answers with what its child did: ok means it exited with 0, within
\* the cap, and all it wrote was captured; every failure has its cause; and
\* whatever the answer, no child is left running (run_inner, build_command).
ProcessAnswerIsEarned ==
  /\ answer = "ok" =>
       /\ child = "exited" /\ spec.exit = 0
       /\ \A s \in Streams : got[s] = Produces(s) /\ got[s] <= OutputCap
  /\ answer = "process_exit_nonzero" => child = "exited" /\ spec.exit # 0
  /\ answer = "output_too_large" => \E s \in Streams : Produces(s) > OutputCap
  /\ answer = "task_timeout" => spec.timed
  /\ phase = "answered" => child # "running"

\* With its pumps side by side a call and its child never wait on each other:
\* a call ends when its child does, or at its time limit, whatever the child
\* writes before it reads (try_join! in run_inner).
ProcessAnswers ==
  (phase = "pumping" /\ (spec.timed \/ ~spec.daemon)) ~> (phase = "answered")
=============================================================================
