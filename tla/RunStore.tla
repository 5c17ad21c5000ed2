------------------------------ MODULE RunStore ------------------------------
(***************************************************************************)
(* The local run store, ./.tmx/runs: one directory per run with a          *)
(* record.json and a log.ndjson, shared by every tmx command that runs in  *)
(* the project.                                                            *)
(*                                                                         *)
(* A writer is a `tmx run`: it sweeps the aged runs, then drives the runs  *)
(* of Plan one after the other (the combinations of a matrix, or the       *)
(* deploy run of a flow provider before the main run).  Its StoringSink    *)
(* files each event under the run of the last run.start, and save puts     *)
(* down the record of a run that is Kept.  A keeper is a `tmx runs`        *)
(* command: prune, rm, or a query.                                         *)
(*                                                                         *)
(* Run ids are UUIDv7: an id stands for the instant its run started, so    *)
(* ids, start times and cutoffs are compared as numbers.  A write may      *)
(* fail, half-way or before it did anything, and a writer may be killed.   *)
(***************************************************************************)
EXTENDS Naturals, Sequences, SequencesExt, FiniteSets

CONSTANTS
  OldRuns,    \* runs that are in the store at the start
  Writers,    \* the `tmx run` processes
  Keepers,    \* the `tmx runs` processes
  Plan,       \* Plan[w]: the runs writer w drives, in order
  Kept,       \* the runs whose record is saved: those of the use case itself
  Sizes,      \* what an event takes in the log, its newline included
  Cap,        \* EVENT_LOG_MAX_BYTES
  Cutoffs,    \* the instants sweeps reach back to
  MaxEvents,  \* bound on the events of one run
  MaxFaults   \* bound on failed writes, refused removals and crashes

PlannedOf(w) == Range(Plan[w])
Runs == OldRuns \cup UNION {PlannedOf(w) : w \in Writers}
Procs == Writers \cup Keepers

ASSUME RunStoreAssumption ==
  /\ OldRuns \subseteq Nat \ {0} /\ Sizes \subseteq Nat /\ Cap \in Nat
  /\ Cutoffs \subseteq Nat \ {0} /\ {MaxEvents, MaxFaults} \subseteq Nat
  /\ \A w \in Writers : Plan[w] \in Seq(Nat \ {0})
  /\ \A w \in Writers : PlannedOf(w) \cap OldRuns = {}
  /\ \A v, w \in Writers : v # w => PlannedOf(v) \cap PlannedOf(w) = {}
  /\ \A w \in Writers : IsInjective(Plan[w])
  /\ Writers \cap Keepers = {}

VARIABLES
  disk,     \* disk[r]: the directory of run r, or Absent
  pc,       \* where a process stands
  todo,     \* what is left of the listing a sweep works through
  cut,      \* the cutoff of a sweep
  owed,     \* what a sweep listed as whole and aged (history)
  driven,   \* runs still driven when a sweep reached past them (history)
  at,       \* the writer's position in its plan
  latch,    \* StoringSink.run_id
  book,     \* LocalRunStore.logs of the writer: bytes and stopped, per run
  pending,  \* the line a writer is about to append, and under which run
  stream,   \* the events the sink was given, per run (history)
  damaged,  \* runs a failed write or a crash has touched (history)
  faults    \* how many faults there were (history)

vars == <<disk, pc, todo, cut, owed, driven, at, latch, book, pending, stream, damaged,
          faults>>

Absent == [record |-> "absent", log |-> <<>>]
NoRun == 0
Marker == [n |-> 0, size |-> 0]      \* log.truncated
Fragment == [n |-> 0, size |-> 1]    \* part of a line, without its newline
Garbled == [n |-> 0, size |-> 2]     \* a fragment and the next line in one
Empty == [record |-> "none", log |-> <<>>]
Nothing == [run |-> NoRun, line |-> Marker]

Line == [n : 1..MaxEvents, size : Sizes]
Present == {r \in Runs : disk[r] # Absent}
DirOf(r) == IF disk[r] = Absent THEN Empty ELSE disk[r]   \* ensure_run_dir
Current(w) == Plan[w][at[w]]
Driving(w) == at[w] \in 1..Len(Plan[w])
Started(w) == Driving(w) /\ stream[Current(w)] # <<>>

\* What the lines of a log take, the marker and what is left of a line apart.
Weight(line) == IF line.n > 0 THEN line.size ELSE 0
Bytes(log) ==
  LET sum[i \in 0..Len(log)] == IF i = 0 THEN 0 ELSE sum[i - 1] + Weight(log[i])
  IN  sum[Len(log)]
-----------------------------------------------------------------------------
Init ==
  /\ \E old \in [OldRuns -> {"torn", "whole"}] :
       disk = [r \in Runs |-> IF r \in OldRuns
                               THEN [record |-> old[r], log |-> <<>>] ELSE Absent]
  /\ pc = [p \in Procs |-> "start"]
  /\ todo = [p \in Procs |-> {}]
  /\ cut = [p \in Procs |-> 0]
  /\ owed = [p \in Procs |-> {}]
  /\ driven = {}
  /\ at = [w \in Writers |-> 1]
  /\ latch = [w \in Writers |-> NoRun]
  /\ book = [r \in Runs |-> [bytes |-> 0, stopped |-> FALSE]]
  /\ pending = [w \in Writers |-> Nothing]
  /\ stream = [r \in Runs |-> <<>>]
  /\ damaged = {}
  /\ faults = 0

writing == <<at, latch, pending, stream>>
sweeping == <<todo, cut, owed, driven>>

NoFault == UNCHANGED <<damaged, faults>>
Fault(rs) ==
  /\ faults < MaxFaults
  /\ faults' = faults + 1 /\ damaged' = damaged \cup rs

Go(p, to) == pc' = [pc EXCEPT ![p] = to]
-----------------------------------------------------------------------------
(* The sweep, of `tmx runs prune` and of the start of every `tmx run`.     *)

\* The runs that started before an instant c no later than now.
Begun == {r \in Runs : r \in OldRuns \/ stream[r] # <<>>}
Past == {c \in Cutoffs : \A r \in Runs \ Begun : c <= r}

\* Mutant of AgedOut: a run without a readable start counts as old.
AgedOutUnread(r, c) == disk[r] # Absent /\ r < c

\* LocalRunStore.started_at: a record that does not parse has no start.
AgedOut(r, c) == disk[r].record = "whole" /\ r < c

Driven == {Current(w) : w \in {v \in Writers : Driving(v)}}

\* list: every well-formed directory; a sweep takes them in the order of the ids.
List(p, c) ==
  /\ pc[p] = "start"
  /\ Go(p, "sweeping")
  /\ todo' = [todo EXCEPT ![p] = Present]
  /\ cut' = [cut EXCEPT ![p] = c]
  /\ owed' = [owed EXCEPT ![p] = {r \in Present : AgedOut(r, c)}]
  /\ driven' = driven \cup {r \in Driven : r < c}
  /\ UNCHANGED <<disk, writing, book>> /\ NoFault

First(p) == Min(todo[p])

\* Mutant of Visit: the sweep ends at the first run that is not aged.
VisitBreaks(p) ==
  /\ pc[p] = "sweeping" /\ todo[p] # {}
  /\ IF AgedOut(First(p), cut[p])
     THEN Go(p, "removing") /\ UNCHANGED todo
     ELSE todo' = [todo EXCEPT ![p] = {}] /\ UNCHANGED pc
  /\ UNCHANGED <<disk, cut, owed, driven, writing, book>> /\ NoFault

Visit(p) ==
  /\ pc[p] = "sweeping" /\ todo[p] # {}
  /\ IF AgedOut(First(p), cut[p])
     THEN Go(p, "removing") /\ UNCHANGED todo
     ELSE todo' = [todo EXCEPT ![p] = @ \ {First(p)}] /\ UNCHANGED pc
  /\ UNCHANGED <<disk, cut, owed, driven, writing, book>> /\ NoFault

SweepEnds(p) ==
  /\ pc[p] = "sweeping" /\ todo[p] = {}
  /\ Go(p, IF p \in Writers THEN "running" ELSE "done")
  /\ UNCHANGED <<disk, sweeping, writing, book>> /\ NoFault

\* `?` ends prune; sweep_retention warns and the run goes on all the same.
SweepFails(p) ==
  /\ Go(p, IF p \in Writers THEN "running" ELSE "failed")
  /\ UNCHANGED <<disk, sweeping, writing, book>>
-----------------------------------------------------------------------------
(* remove_dir_all: the files first, then the directory itself.             *)

\* A keeper that removes one run (`rm`) has no listing.
Forgiving(p) == todo[p] = {}
Target(p) == IF Forgiving(p) THEN cut[p] ELSE First(p)

Unlink(p) ==
  /\ pc[p] = "removing" /\ disk[Target(p)] # Absent
  /\ disk' = [disk EXCEPT ![Target(p)] = Empty]
  /\ Go(p, "emptied")
  /\ UNCHANGED <<sweeping, writing, book>> /\ NoFault

Rmdir(p) ==
  /\ pc[p] = "emptied" /\ disk[Target(p)] = Empty
  /\ disk' = [disk EXCEPT ![Target(p)] = Absent]
  /\ todo' = [todo EXCEPT ![p] = @ \ {Target(p)}]
  /\ Go(p, IF Forgiving(p) THEN "done" ELSE "sweeping")
  \* logs.remove(id) finds no entry: a process sweeps before it writes
  /\ UNCHANGED <<cut, owed, driven, writing, book>> /\ NoFault

\* Another process took the directory away: NotFound ends a sweep, not rm.
AlreadyGone(p) ==
  /\ pc[p] \in {"removing", "emptied"} /\ disk[Target(p)] = Absent
  /\ IF Forgiving(p)
     THEN Go(p, "done") /\ UNCHANGED <<disk, sweeping, writing, book>>
     ELSE SweepFails(p)
  /\ NoFault

\* The file system refuses, with the files gone or not.
RemoveRefused(p) ==
  /\ pc[p] \in {"removing", "emptied"} /\ disk[Target(p)] # Absent
  /\ IF Forgiving(p)
     THEN Go(p, "failed") /\ UNCHANGED <<disk, sweeping, writing, book>>
     ELSE SweepFails(p)
  /\ Fault({Target(p)})
-----------------------------------------------------------------------------
(* `tmx runs rm`, `list`, `show`, `state` and `logs`.                      *)

\* require_record: not found without a record, an error when it is torn.
Rm(k, r) ==
  /\ pc[k] = "start"
  /\ IF disk[r].record = "whole"
     THEN /\ Go(k, "removing")
          /\ cut' = [cut EXCEPT ![k] = r] /\ owed' = [owed EXCEPT ![k] = {r}]
     ELSE Go(k, "failed") /\ UNCHANGED <<cut, owed>>
  /\ UNCHANGED <<disk, todo, driven, writing, book>> /\ NoFault

Parses(r) == ~\E i \in DOMAIN disk[r].log : disk[r].log[i] \in {Fragment, Garbled}

Lists == \A r \in Present : disk[r].record # "torn"
Shows(r) == disk[r].record = "whole"
Replays(r) == Shows(r) /\ Parses(r)

Query(k) ==
  /\ pc[k] = "start"
  /\ \E answers \in {Lists} \cup {Shows(r) : r \in Runs} \cup {Replays(r) : r \in Runs} :
       Go(k, IF answers THEN "done" ELSE "failed")
  /\ UNCHANGED <<disk, sweeping, writing, book>> /\ NoFault
-----------------------------------------------------------------------------
(* The writer.                                                             *)

\* Mutant of FiledUnder: the first run of the sink keeps the latch.
LatchesOnce(w, r) == IF latch[w] = NoRun THEN r ELSE latch[w]

\* run_id_for: a run.start, the first event of a run, moves the latch.
FiledUnder(w, r) == IF stream[r] = <<>> THEN r ELSE latch[w]

Fits(entry, size) == entry.bytes + size <= Cap

\* Mutant of Overflow: the marker is written, the log goes on.
OverflowGoesOn(entry) == entry

Overflow(entry) == [entry EXCEPT !.stopped = TRUE]

Counted(entry, size) ==
  IF Fits(entry, size) THEN [entry EXCEPT !.bytes = @ + size] ELSE Overflow(entry)

\* StoringSink::emit, then append_event up to the end of its lock: a line that
\* does not fit stops the log and turns into the marker.
Emit(w, size) ==
  LET r == Current(w)
      under == FiledUnder(w, r)
      line == [n |-> Len(stream[r]) + 1, size |-> size]
      sent == IF Fits(book[under], size) THEN line ELSE Marker
  IN /\ pc[w] = "running" /\ Driving(w) /\ Len(stream[r]) < MaxEvents
     /\ stream' = [stream EXCEPT ![r] = Append(@, line)]
     /\ latch' = [latch EXCEPT ![w] = under]
     /\ IF book[under].stopped
        THEN UNCHANGED <<pc, book, pending>>
        ELSE /\ book' = [book EXCEPT ![under] = Counted(@, size)]
             /\ pending' = [pending EXCEPT ![w] = [run |-> under, line |-> sent]]
             /\ Go(w, "appending")
     /\ UNCHANGED <<disk, sweeping, at>> /\ NoFault

\* append_line: a line after a fragment ends up in one line with it.
Extend(log, line) ==
  IF log # <<>> /\ Last(log) = Fragment THEN Append(Front(log), Garbled)
                                        ELSE Append(log, line)

AppendLine(w) ==
  LET r == pending[w].run IN
  /\ pc[w] = "appending"
  /\ disk' = [disk EXCEPT ![r] =
                [DirOf(r) EXCEPT !.log = Extend(@, pending[w].line)]]
  /\ pending' = [pending EXCEPT ![w] = Nothing]
  /\ Go(w, "running")
  /\ UNCHANGED <<sweeping, at, latch, book, stream>> /\ NoFault

\* A disk that is full, or a signal: all, nothing or a part is written.  The
\* failure is a warning, and the counted bytes stay counted.
AppendFails(w, to) ==
  LET r == pending[w].run IN
  /\ pc[w] = "appending"
  /\ \/ UNCHANGED disk
     \/ disk' = [disk EXCEPT ![r] =
                   [DirOf(r) EXCEPT !.log = Extend(@, Fragment)]]
  /\ pending' = [pending EXCEPT ![w] = Nothing]
  /\ Fault({r})
  /\ Go(w, to)
  /\ UNCHANGED <<sweeping, at, latch, book, stream>>

NextRun(w) ==
  /\ at' = [at EXCEPT ![w] = @ + 1]
  /\ Go(w, "running")
  /\ UNCHANGED <<sweeping, latch, book, pending, stream>>

RunEndsUnrecorded(w) ==
  /\ pc[w] = "running" /\ Started(w) /\ Current(w) \notin Kept
  /\ NextRun(w)
  /\ UNCHANGED disk /\ NoFault

\* save: fs::write creates or truncates the file, then fills it.
OpenRecord(w) ==
  /\ pc[w] = "running" /\ Started(w) /\ Current(w) \in Kept
  /\ disk' = [disk EXCEPT ![Current(w)] = [DirOf(Current(w)) EXCEPT !.record = "torn"]]
  /\ Go(w, "saving")
  /\ UNCHANGED <<sweeping, writing, book>> /\ NoFault

FillRecord(w) ==
  /\ pc[w] = "saving"
  /\ disk' = [disk EXCEPT ![Current(w)] = [DirOf(Current(w)) EXCEPT !.record = "whole"]]
  /\ NextRun(w)
  /\ NoFault

\* A warning: the next combination runs all the same.
SaveFails(w) ==
  /\ \/ pc[w] = "running" /\ Started(w) /\ Current(w) \in Kept
     \/ pc[w] = "saving"
  /\ Fault({Current(w)})
  /\ NextRun(w)
  /\ UNCHANGED disk

WriterEnds(w) ==
  /\ pc[w] = "running" /\ ~Driving(w)
  /\ Go(w, "done")
  /\ UNCHANGED <<disk, sweeping, writing, book>> /\ NoFault

\* The reporter refuses an event: nothing is filed, and the command ends.
SinkRefuses(w) ==
  /\ pc[w] = "running" /\ Driving(w)
  /\ Go(w, "failed")
  /\ UNCHANGED <<disk, sweeping, writing, book>> /\ NoFault

\* A signal ends any command anywhere.
Crash(p) ==
  \/ p \in Writers /\ AppendFails(p, "crashed")
  \/ /\ pc[p] \in {"sweeping", "removing", "emptied", "running", "saving"}
     /\ Fault(CASE pc[p] \in {"removing", "emptied"} -> {Target(p)}
                [] pc[p] \in {"running", "saving"} /\ Driving(p) -> {Current(p)}
                [] OTHER -> {})
     /\ Go(p, "crashed")
     /\ UNCHANGED <<disk, sweeping, writing, book>>
-----------------------------------------------------------------------------
SweepStep(p) ==
  \/ \E c \in Past : List(p, c)
  \/ Visit(p) \/ SweepEnds(p)
  \/ Unlink(p) \/ Rmdir(p) \/ AlreadyGone(p) \/ RemoveRefused(p) \/ Crash(p)

WriterStep(w) ==
  \/ \E size \in Sizes : Emit(w, size)
  \/ AppendLine(w) \/ AppendFails(w, "running") \/ RunEndsUnrecorded(w)
  \/ OpenRecord(w) \/ FillRecord(w) \/ SaveFails(w) \/ SinkRefuses(w)
  \/ WriterEnds(w)

Next ==
  \/ \E p \in Procs : SweepStep(p)
  \/ \E w \in Writers : WriterStep(w)
  \/ \E k \in Keepers : Query(k) \/ \E r \in Runs : Rm(k, r)

Spec == Init /\ [][Next]_vars
-----------------------------------------------------------------------------
Entry == Line \cup {Marker, Fragment, Garbled}

TypeOK ==
  /\ disk \in [Runs -> [record : {"absent", "none", "torn", "whole"}, log : Seq(Entry)]]
  /\ pc \in [Procs -> {"start", "sweeping", "removing", "emptied", "running",
                       "appending", "saving", "done", "failed", "crashed"}]
  /\ todo \in [Procs -> SUBSET Runs] /\ cut \in [Procs -> Nat]
  /\ owed \in [Procs -> SUBSET Runs] /\ driven \subseteq Runs
  /\ at \in [Writers -> Nat] /\ latch \in [Writers -> Runs \cup {NoRun}]
  /\ book \in [Runs -> [bytes : 0..Cap, stopped : BOOLEAN]]
  /\ pending \in [Writers -> [run : Runs \cup {NoRun}, line : Entry]]
  /\ stream \in [Runs -> Seq(Line)] /\ damaged \subseteq Runs
  /\ faults \in 0..MaxFaults

Dying == {Target(p) : p \in {q \in Procs : pc[q] = "emptied"}}

\* What the disk keeps of a run's events: its own, in order; all of them up to
\* the one being appended, or up to the first that did not fit and then the
\* marker.  Only a failed write, a crash or a removal leaves a gap, whatever
\* other runs the same sink has filed (StoringSink::run_id_for, append_event).
LogReplaysStream ==
  \A r \in Present :
    LET log == disk[r].log
        lines == {i \in DOMAIN log : log[i].n > 0}
        inFlight == \E w \in Writers : pending[w].run = r
    IN /\ \A i \in lines : log[i] = stream[r][log[i].n]
       /\ \A i, j \in lines : i < j => log[i].n < log[j].n
       /\ \/ r \in damaged \cup Dying
          \/ /\ IsPrefix(log, stream[r]) /\ ~book[r].stopped
             /\ Len(log) = Len(stream[r]) - (IF inFlight THEN 1 ELSE 0)
          \/ IsPrefix(log, stream[r]) /\ book[r].stopped /\ inFlight
          \/ /\ log # <<>> /\ Last(log) = Marker /\ book[r].stopped
             /\ IsStrictPrefix(Front(log), stream[r])
             /\ Bytes(log) + stream[r][Len(log)].size > Cap

\* The log of a run never outgrows the cap, however its lines were written or
\* lost, and log.truncated comes once and last (append_event).
LogIsCapped ==
  \A r \in Present :
    /\ Bytes(disk[r].log) <= Cap
    /\ \A i \in DOMAIN disk[r].log : disk[r].log[i] = Marker => i = Len(disk[r].log)

\* Between a sweep's look at a record and the removal anything may happen, but
\* what leaves the store is a whole record older than a cutoff or named by an
\* rm, and never the directory of a run some command is still driving.
OnlyAgedRunsLeave ==
  [][\A r \in Present : disk'[r] \in {Absent, Empty} /\ disk'[r] # disk[r]
                          /\ disk[r] # Empty =>
       /\ disk[r].record = "whole"
       /\ \E p \in Procs : r < cut[p] \/ owed[p] = {r}
       /\ \A w \in Writers : pc[w] \notin {"failed", "crashed"} /\ Driving(w)
                               => Current(w) # r]_vars

Wrote(p, r) == p \in Writers /\ r \in PlannedOf(p)

\* Sweeps get in each other's way: one that finds a run gone ends with an error
\* and leaves the rest.  Still the aged runs go: once every sweep is over and
\* nothing failed, what a sweep listed as whole and aged is gone, if it is
\* older than every run named by an rm and than all cutoffs but the one its own
\* writer began with, and was over before a sweep came that reached past it.
SweptTogether ==
  (/\ \A p \in Procs : pc[p] \notin {"sweeping", "removing", "emptied"}
   /\ faults = 0)
  => \A p \in Procs : \A r \in owed[p] \ driven :
       (\A q \in Procs : cut[q] # 0 => r < cut[q] \/ Wrote(q, r))
       => disk[r] = Absent
=============================================================================
