------------------------------ MODULE Commands ------------------------------
(***************************************************************************)
(* The commands of tmx other than `run` and `runs` (tmx-cli), in shells    *)
(* that share one project directory: how a target is found, what follows   *)
(* its preflight, and what the commands that write files leave behind.     *)
(*                                                                         *)
(* A write truncates the file and then fills it; it may fail before or     *)
(* after it truncates, and its shell may be killed in between.  Nothing    *)
(* locks a file: two shells may write the same one at once, and a command  *)
(* writes the registry it read, whatever was recorded since.               *)
(***************************************************************************)
EXTENDS Preflight

CONSTANTS
  Shells,
  Reader,       \* the shell that may preflight a target
  Candidates,   \* the conventional flow files, in the order of the search
  Listing,      \* the references in the order of a directory listing
  Folder,       \* the reference that names the directory itself
  Registry,     \* ./.tmx/providers.json
  Situations,   \* what to start from: [disk, registry, wired, commands]
  MaxFaults     \* bound: failed writes and killed shells

ASSUME CommandsAssumption ==
  /\ Reader \in Shells /\ MaxFaults \in Nat
  /\ Listing \in Seq(Refs) /\ Candidates \in Seq(Refs)
  /\ Registry \notin Refs /\ Folder # None
  /\ None \notin {0, 3, 4, 5, "registry_invalid", "provider_not_registered"}

\* A command line as the parser makes it: files are named by reference, `init`
\* has documents to write and `tmx env` at least one method to call.
Operations == {"plan", "inspect", "env", "validate", "fmt", "init", "register",
               "vet", "remove", "show", "providers"}

\* The commands that preflight a target: one shell runs them, since a preflight
\* reads the files and changes none.
Preflighted == {"plan", "inspect", "env"}

\* No file is empty before the commands begin, and none is written to be.
Full(doc) == IsDocument(doc) /\ doc.shape # "empty"
Writable(w) == w.file \in Refs /\ Full(w.text)

WellFormed(cmd) ==
  /\ Total(cmd, {"op", "file", "flow", "args"})
  /\ cmd.op \in Operations
  /\ {cmd.file, cmd.flow} \subseteq Refs \cup {Folder, None}
  /\ cmd.op = "fmt" => cmd.args \in Seq(Refs)
  /\ cmd.op \in {"env", "init"} => cmd.args \in Seq(Range(cmd.args)) \ {<<>>}
  /\ cmd.op = "init" => \A w \in Range(cmd.args) : Writable(w)

ASSUME SituationsAssumption ==
  /\ \A e \in Edits : e[1] \in Refs /\ (e[2] = Missing \/ Full(e[2]))
  /\ \A s \in Situations :
       /\ s.wired \in SUBSET Capability
       /\ Total(s.disk, Refs)
       /\ \A r \in Refs : s.disk[r] = Missing \/ Full(s.disk[r])
       /\ \A sh \in Shells :
            LET cmd == s.commands[sh]
            IN  cmd = None \/ (WellFormed(cmd) /\ (cmd.op \in Preflighted => sh = Reader))

VARIABLES
  registry,   \* [state, entries]: "absent", "torn" or "whole"; name to manifest
  session,    \* session[s]: the command of shell s and how far it is
  ledger,     \* history: the entries the answered commands add up to
  missed,     \* history: missed[s]: the names recorded since s read the registry
  lost,       \* history: the names whose last record a write has left out
  faults      \* faults so far

history == <<ledger, missed, lost>>
cmdVars == <<registry, session, history, faults>>
vars == <<preVars, cmdVars>>

-----------------------------------------------------------------------------
(* Commands.                                                               *)
(*                                                                         *)
(* A command is [op, file, flow, args]: `--file`, the positional (or else  *)
(* $TMX_FLOW), and what else it is given.  Its route is the stages it goes *)
(* through; it answers 0 at the end of the route, or leaves it earlier     *)
(* with another code.                                                      *)

\* Mutant of Recording: the manifest is recorded first and validated afterwards.
RecordingUnread == <<"registry", "write", "manifest">>

\* A manifest is validated before it is recorded.
Recording == <<"manifest", "registry", "write">>

\* plan stands for `list tasks`, `list inputs`, `context show`, `secrets list`
\* and a dry run, which answer from the preflighted flow; inspect resolves its
\* target to a path first, and the path again.
Route(op) ==
  CASE op = "plan"      -> <<"resolve", "preflight">>
    [] op = "inspect"   -> <<"settle", "resolve", "preflight">>
    [] op = "env"       -> <<"resolve", "preflight", "manifest", "methods">>
    [] op = "validate"  -> <<"single", "paths">>
    [] op = "fmt"       -> <<"single", "format", "write">>
    [] op = "init"      -> <<"write">>
    [] op = "register"  -> Recording
    [] op = "vet"       -> <<"manifest">>
    [] op = "remove"    -> <<"registry", "write">>
    [] op = "show"      -> <<"registry", "manifest">>
    [] op = "providers" -> <<"registry">>

\* A shell before its command runs.  found: the findings of validate; name and
\* ref: the manifest in hand; todo: the writes that are left; open: the first
\* of them has truncated its file; marks: the files it has truncated; calls and
\* first: the methods of the provider called so far, and its first failure.
Waiting(cmd) ==
  [cmd |-> cmd, at |-> 0, over |-> cmd = None, exit |-> None, found |-> FALSE, name |-> None,
   ref |-> None, todo |-> <<>>, open |-> FALSE, marks |-> {}, failed |-> FALSE, calls |-> <<>>,
   first |-> None]

Op(s) == session[s].cmd.op
Active(s) == session[s].at > 0 /\ ~session[s].over
Stage(s) == Route(Op(s))[session[s].at]
At(s, stage) == Active(s) /\ Stage(s) = stage

\* The next stage of a session, or the answer 0 after the last.
Onward(c) ==
  IF c.at = Len(Route(c.cmd.op)) THEN [c EXCEPT !.over = TRUE, !.exit = 0]
  ELSE [c EXCEPT !.at = @ + 1]

Leave(s, code) == session' = [session EXCEPT ![s] = [@ EXCEPT !.over = TRUE, !.exit = code]]

\* exit_code: the category of an error.
ExitCode(code) ==
  CASE code \in {"missing_capability", "no_environment", "no_provider"} -> 5
    [] code \in {"reference_not_found", "unknown_artifact_kind", "duplicate_shared_artifact",
                 "duplicate_task_name", "reference_kind_mismatch", "flow_unresolved",
                 "empty_directory", "requires_file", "provider_not_registered"} -> 4
    [] OTHER -> 3

Init ==
  /\ \E s \in Situations :
       /\ PreflightInit(s.disk, <<>>, s.wired)
       /\ registry = s.registry
       /\ session = [sh \in Shells |-> Waiting(s.commands[sh])]
  /\ ledger = registry.entries /\ missed = [s \in Shells |-> {}] /\ lost = {}
  /\ faults = 0

Begin(s) ==
  /\ session[s].at = 0 /\ ~session[s].over
  /\ session' = [session EXCEPT ![s].at = 1]
  /\ UNCHANGED <<preVars, registry, history, faults>>

-----------------------------------------------------------------------------
(* Finding the target.                                                     *)

Present(r) == disk[r] # Missing

\* is_folder_layout, and enumerate_source_files.
FolderLayout == \E r \in Refs : Present(r) /\ disk[r].stem \in {"environment", "context"}
Entries ==
  LET there == {i \in DOMAIN Listing : Present(Listing[i])}
  IN  [k \in 1 .. Cardinality(there) |->
         Listing[Nth(there, {p \in there \X there : p[1] < p[2]}, k)]]

\* resolve_target: what is named explicitly is authoritative; else the first
\* conventional file, else the folder.  [code, file, entries].
FileTarget(r) == [code |-> None, file |-> r, entries |-> <<r>>]
FolderTarget ==
  [code |-> IF Entries = <<>> THEN "empty_directory" ELSE None, file |-> None, entries |-> Entries]
Unresolved == [code |-> "flow_unresolved", file |-> None, entries |-> <<>>]

ResolveTarget(cmd) ==
  LET named == FirstOf(<<cmd.file, cmd.flow>>)
      found == FirstOf([i \in DOMAIN Candidates |->
                          IF Present(Candidates[i]) THEN Candidates[i] ELSE None])
  IN  IF named = Folder THEN FolderTarget
      ELSE IF named # None THEN IF Present(named) THEN FileTarget(named) ELSE Unresolved
      ELSE IF found # None THEN FileTarget(found)
      ELSE IF FolderLayout THEN FolderTarget ELSE Unresolved

\* The target of the preflight; what changes from here on changes under it.
Resolve(s) ==
  /\ At(s, "resolve")
  /\ LET t == ResolveTarget(session[s].cmd)
     IN  IF t.code # None THEN Leave(s, ExitCode(t.code)) /\ UNCHANGED <<target, edits>>
         ELSE /\ target' = t.entries /\ edits' = 0
              /\ session' = [session EXCEPT ![s] = Onward(@)]
  /\ UNCHANGED <<disk, wired, phase, loaded, flow, error, registry, history, faults>>

\* inspect: the file or the directory, to be named explicitly.
Settle(s) ==
  /\ At(s, "settle")
  /\ LET t == ResolveTarget(session[s].cmd)
         named == IF t.file = None THEN Folder ELSE t.file
     IN  IF t.code # None THEN Leave(s, ExitCode(t.code))
         ELSE session' = [session EXCEPT ![s] = Onward([@ EXCEPT !.cmd.flow = named, !.cmd.file = None])]
  /\ UNCHANGED <<preVars, registry, history, faults>>

\* validate and fmt: what is given, else the one file of the search.
Single(s) ==
  /\ At(s, "single")
  /\ LET t == ResolveTarget(session[s].cmd)
     IN  IF session[s].cmd.args # <<>> THEN session' = [session EXCEPT ![s] = Onward(@)]
         ELSE IF t.code # None THEN Leave(s, ExitCode(t.code))
         ELSE IF t.file = None THEN Leave(s, ExitCode("requires_file"))
         ELSE session' = [session EXCEPT ![s] = Onward([@ EXCEPT !.cmd.args = <<t.file>>])]
  /\ UNCHANGED <<preVars, registry, history, faults>>

-----------------------------------------------------------------------------
(* After the preflight: the provider methods of `tmx env`.                 *)

Teardown == {"clean", "destroy"}

\* The provider of the flow, and why there is none to drive.
ProviderRefusal ==
  IF flow.environment = Absent THEN "no_environment"
  ELSE IF flow.environment.part.provider = None THEN "no_provider"
  ELSE None

Judged(s) ==
  /\ At(s, "preflight") /\ phase \in {"accepted", "refused"}
  /\ IF phase = "refused" THEN Leave(s, ExitCode(error))
     ELSE IF Op(s) # "env" THEN session' = [session EXCEPT ![s] = Onward(@)]
     ELSE IF ProviderRefusal # None THEN Leave(s, ExitCode(ProviderRefusal))
     ELSE session' = [session EXCEPT ![s] =
                        Onward([@ EXCEPT !.ref = flow.environment.part.provider])]
  /\ UNCHANGED <<preVars, registry, history, faults>>

\* load_manifest, and for the environment the check of its options.
ManifestRefusal(op, doc) ==
  IF doc = Missing THEN "reference_not_found"
  ELSE IF doc.shape = "garbled" THEN "source_parse_error"
  ELSE IF doc.shape # "provider" THEN "provider_manifest_invalid"
  ELSE IF op = "env" /\ doc.manifest.wants /\ ~flow.environment.part.options
       THEN "provider_options_invalid"
  ELSE None

\* The manifest named on the command line, in the registry, or by the flow.
LoadManifest(s) ==
  /\ At(s, "manifest")
  /\ LET ref == IF Op(s) \in {"register", "vet"} THEN session[s].cmd.args[1] ELSE session[s].ref
         doc == disk[ref]
         refusal == ManifestRefusal(Op(s), doc)
     IN  IF refusal # None THEN Leave(s, ExitCode(refusal))
         ELSE session' = [session EXCEPT ![s] = Onward([@ EXCEPT !.ref = ref, !.name = doc.manifest.name])]
  /\ UNCHANGED <<preVars, registry, history, faults>>

\* Mutant of PlanIsOver: a teardown, too, ends at its first failure.
PlanStopsAtFailure(c) ==
  Len(c.calls) = Len(c.cmd.args) \/ c.first # None

\* run_plan: a teardown attempts every method, anything else ends at the first
\* failure.
PlanIsOver(c) ==
  Len(c.calls) = Len(c.cmd.args) \/ (c.first # None /\ c.cmd.args[1] \notin Teardown)

\* The codes a method can answer with: 0 or 5, and of a flow provider also what
\* loading its own flow answers.
Codes(r) == {0, 5} \cup IF Present(r) /\ disk[r].shape = "provider" /\ disk[r].manifest.byFlow
                        THEN {3, 4} ELSE {}

Invoke(s) ==
  /\ At(s, "methods")
  /\ \E code \in Codes(session[s].ref) :
       LET methods == session[s].cmd.args
           c == [session[s] EXCEPT
                   !.calls = Append(@, [method |-> methods[Len(@) + 1], code |-> code]),
                   !.first = IF @ = None /\ code # 0 THEN code ELSE @]
       IN  session' = [session EXCEPT ![s] =
             IF ~PlanIsOver(c) THEN c
             ELSE IF c.first = None THEN Onward(c)
             ELSE [c EXCEPT !.over = TRUE, !.exit = c.first]]
  /\ UNCHANGED <<preVars, registry, history, faults>>

-----------------------------------------------------------------------------
(* Reading files and the registry.                                         *)

\* validate: the next path; an unreadable one ends it, a finding does not, and
\* nothing measures how deep a document is.
ValidateNext(s) ==
  /\ At(s, "paths")
  /\ LET paths == session[s].cmd.args
         doc == disk[paths[1]]
         found == session[s].found \/ ~Fits(doc, Class(doc))
     IN  IF LoadRefusal(doc) # None THEN Leave(s, ExitCode(LoadRefusal(doc)))
         ELSE IF Len(paths) > 1
         THEN session' = [session EXCEPT ![s] = [@ EXCEPT !.cmd.args = Tail(paths), !.found = found]]
         ELSE IF found THEN Leave(s, ExitCode("schema_invalid"))
         ELSE session' = [session EXCEPT ![s] = Onward(@)]
  /\ UNCHANGED <<preVars, registry, history, faults>>

\* Of an empty file the emitter makes a null.
Emitted(doc) == IF doc.shape = "empty" THEN [doc EXCEPT !.shape = "null"] ELSE doc

\* fmt --write: what is read is written back, or to the file of the other
\* format beside it.
Format(s) ==
  /\ At(s, "format")
  /\ LET args == session[s].cmd.args
         doc == disk[args[1]]
         to == args[Len(args)]
     IN  IF doc = Missing THEN Leave(s, ExitCode("reference_not_found"))
         ELSE IF doc.shape = "garbled" THEN Leave(s, ExitCode("source_parse_error"))
         ELSE session' = [session EXCEPT ![s] = Onward([@ EXCEPT !.todo = <<[file |-> to, text |-> Emitted(doc)]>>])]
  /\ UNCHANGED <<preVars, registry, history, faults>>

Whole(entries) == [state |-> "whole", entries |-> entries]
Torn == [state |-> "torn", entries |-> <<>>]

With(entries, name, ref) ==
  [n \in DOMAIN entries \cup {name} |-> IF n = name THEN ref ELSE entries[n]]
Without(entries, names) == Restrict(entries, DOMAIN entries \ names)

\* Mutant of RegistryRefusal: a registry that does not parse is an empty one.
TornIsEmpty(op, name) ==
  IF op \in {"show", "remove"} /\ name \notin DOMAIN registry.entries
  THEN "provider_not_registered" ELSE None

\* read_registry, and the lookup of a name.
RegistryRefusal(op, name) ==
  IF registry.state = "torn" THEN "registry_invalid"
  ELSE IF op \in {"show", "remove"} /\ name \notin DOMAIN registry.entries
       THEN "provider_not_registered"
  ELSE None

\* The entries after the command of `c`, whatever they are kept in.
Updated(entries, c) ==
  IF c.cmd.op = "register" THEN With(entries, c.name, c.ref) ELSE Without(entries, {c.name})

ReadRegistry(s) ==
  /\ At(s, "registry")
  /\ LET name == IF Op(s) \in {"show", "remove"} THEN session[s].cmd.args[1] ELSE session[s].name
         refusal == RegistryRefusal(Op(s), name)
         c == [session[s] EXCEPT !.name = name]
     IN  IF refusal # None THEN Leave(s, ExitCode(refusal))
         ELSE session' = [session EXCEPT ![s] =
           Onward(CASE Op(s) = "show" -> [c EXCEPT !.ref = registry.entries[name]]
                    [] Op(s) = "providers" -> c
                    [] OTHER -> [c EXCEPT !.todo =
                         <<[file |-> Registry, text |-> Whole(Updated(registry.entries, c))]>>])]
  /\ missed' = [missed EXCEPT ![s] = {}]
  /\ UNCHANGED <<preVars, registry, ledger, lost, faults>>

-----------------------------------------------------------------------------
(* Writing files.                                                          *)

\* The documents init writes are its whole `args`.
Writes(s) ==
  IF Op(s) = "init" /\ ~session[s].open /\ session[s].marks = {} THEN session[s].cmd.args
  ELSE session[s].todo

Emptied(doc) ==
  [doc EXCEPT !.shape = "empty", !.kind = None, !.deep = FALSE, !.tasks = <<>>,
              !.environment = Absent, !.context = Absent, !.manifest = None]

Garbled(doc) == [Emptied(doc) EXCEPT !.shape = "garbled"]

Put(file, text) ==
  IF file = Registry THEN registry' = text /\ UNCHANGED <<disk, edits>>
  ELSE disk' = [disk EXCEPT ![file] = text] /\ edits' = edits + 1 /\ UNCHANGED registry

Truncate(s) ==
  /\ At(s, "write") /\ ~session[s].open
  /\ LET w == Writes(s)[1]
         c == [session[s] EXCEPT !.open = TRUE, !.todo = Writes(s), !.marks = @ \cup {w.file}]
     IN  /\ Put(w.file, IF w.file = Registry THEN Torn ELSE Emptied(w.text))
         /\ session' = [session EXCEPT ![s] = c]
  /\ UNCHANGED <<target, wired, phase, loaded, flow, error, history, faults>>

\* What a write leaves: its text, unless another filled the file meanwhile, in
\* a longer text whose end stays behind.
Outcomes(w) ==
  LET filled == IF w.file = Registry THEN registry.state = "whole"
                ELSE Present(w.file) /\ disk[w.file].shape # "empty"
      behind == IF w.file = Registry THEN Torn ELSE Garbled(w.text)
  IN  {w.text} \cup IF filled THEN {behind} ELSE {}

\* A command that is recorded was written over what it had read: every other
\* name recorded since then it has left out.
Record(s) ==
  LET c == session[s]
  IN  /\ ledger' = Updated(ledger, c)
      /\ missed' = [t \in Shells |-> missed[t] \cup {c.name}]
      /\ lost' = (lost \cup missed[s]) \ {c.name}

Fill(s) ==
  /\ At(s, "write") /\ session[s].open
  /\ LET w == session[s].todo[1]
         c == [session[s] EXCEPT !.open = FALSE, !.todo = Tail(@)]
     IN  /\ \E text \in Outcomes(w) : Put(w.file, text)
         /\ session' = [session EXCEPT ![s] = IF c.todo = <<>> THEN Onward(c) ELSE c]
  /\ IF Op(s) \in {"register", "remove"} THEN Record(s) ELSE UNCHANGED history
  /\ UNCHANGED <<target, wired, phase, loaded, flow, error, faults>>

\* A write fails, or the shell is killed in the middle of it.
WriteFails(s) ==
  /\ At(s, "write") /\ faults < MaxFaults /\ faults' = faults + 1
  /\ session' = [session EXCEPT ![s] = [@ EXCEPT !.over = TRUE, !.exit = 4, !.failed = TRUE]]
  /\ UNCHANGED <<preVars, registry, history>>

Killed(s) ==
  /\ At(s, "write") /\ session[s].open /\ faults < MaxFaults /\ faults' = faults + 1
  /\ session' = [session EXCEPT ![s] = [@ EXCEPT !.over = TRUE, !.failed = TRUE]]
  /\ UNCHANGED <<preVars, registry, history>>

-----------------------------------------------------------------------------
PreflightRuns == At(Reader, "preflight") /\ PreflightStep /\ UNCHANGED cmdVars

Editor == Edit /\ UNCHANGED cmdVars

Next ==
  \/ PreflightRuns \/ Editor
  \/ \E s \in Shells :
       \/ Begin(s) \/ Resolve(s) \/ Settle(s) \/ Single(s) \/ Judged(s) \/ LoadManifest(s)
       \/ Invoke(s) \/ ValidateNext(s) \/ Format(s) \/ ReadRegistry(s)
       \/ Truncate(s) \/ Fill(s) \/ WriteFails(s) \/ Killed(s)

Spec == Init /\ [][Next]_vars

-----------------------------------------------------------------------------
\* A registry that can be read holds, under each name, what the answered commands
\* add up to, however they overlap: the one way to lose a record is that another
\* command read the registry before it was written and wrote after it.  A torn
\* file is never taken for an empty one, and a failed or killed write is all
\* there or refused from then on.
OnlyOverlapsLose ==
  registry.state # "torn" => Without(registry.entries, lost) = Without(ledger, lost)

\* A command that refuses leaves every file as it found it, unless its own write
\* failed; and a file lies empty only in the hands of a command or of a fault.
RefusalLeavesNoMark ==
  /\ \A s \in Shells :
       session[s].over /\ session[s].exit # 0 /\ ~session[s].failed => session[s].marks = {}
  /\ \A r \in Refs : Present(r) /\ disk[r].shape = "empty" =>
       \E s \in Shells : r \in session[s].marks /\ (session[s].open \/ session[s].failed)

\* `tmx env` calls a provider only for an accepted flow that names one, attempts
\* both methods of a teardown, nothing after a failure on the way up, and answers
\* with the first failure.
EnvironmentAnswer ==
  \A s \in Shells :
    LET c == session[s]
        failed == {i \in DOMAIN c.calls : c.calls[i].code # 0}
    IN  c.calls # <<>> =>
          /\ phase = "accepted" /\ ProviderRefusal = None /\ c.ref = flow.environment.part.provider
          /\ \A i \in DOMAIN c.calls : c.calls[i].method = c.cmd.args[i]
          /\ \A i \in failed : c.cmd.args[1] \notin Teardown => i = Len(c.calls)
          /\ c.over =>
               /\ c.exit = IF failed = {} THEN 0
                           ELSE c.calls[CHOOSE i \in failed : \A j \in failed : i <= j].code
               /\ failed = {} \/ c.cmd.args[1] \in Teardown => Len(c.calls) = Len(c.cmd.args)

=============================================================================
