----------------------------- MODULE MCFrontEnd -----------------------------
\* Sample projects for Commands: the documents, the directories they make up,
\* and the commands that two shells run in them.
EXTENDS Commands

MCListing == <<"ten", "alt", "ctx", "env", "hook", "main", "nine", "prov">>
MCRefs == Range(MCListing)

\* Tasks: one that runs a command, one without a name, one that asks a model
\* inside a map, one whose eval is too concurrent and scored by a command.
Layer(type) == [type |-> type, width |-> None, concurrency |-> None, scorers |-> {}]
Leaf(name, type) == [name |-> name, layers |-> <<Layer(type)>>]
Asks(name) == [name |-> name, layers |-> <<[Layer("map") EXCEPT !.width = 1], Layer("chat-completion")>>]
TooWide(name) == [name |-> name, layers |-> <<Layer("eval"), [Layer("map") EXCEPT !.width = 2], Layer("exec")>>]
Scored(name) == [name |-> name, layers |-> <<[Layer("eval") EXCEPT !.concurrency = 2, !.scorers = {"llmRubric"}], Layer("flow")>>]

RefTo(r) == [form |-> "reference", ref |-> r, inputs |-> FALSE]
Import(r, i) == [form |-> "use", ref |-> r, inputs |-> i]
Body1(tasks) == [form |-> "inline", part |-> tasks, inputs |-> FALSE]

NoHooks == [h \in Range(HookNames) |-> Absent]
Ctx(secrets, hooks) == [form |-> "inline", part |-> [secrets |-> secrets, hooks |-> hooks]]
Env(provider, bootstrap) ==
  [form |-> "inline", part |-> [provider |-> provider, options |-> provider = "prov", bootstrap |-> bootstrap]]

Doc(path, stem, kind, shape) ==
  [path |-> path, stem |-> stem, kind |-> kind, shape |-> shape, deep |-> FALSE,
   tasks |-> <<>>, environment |-> Absent, context |-> Absent, manifest |-> None]
FlowDoc(tasks, env, ctx) ==
  [Doc(<<102>>, "flow", None, "flow") EXCEPT !.tasks = tasks, !.environment = env, !.context = ctx]
TaskDoc(path, task) == [Doc(path, None, None, "task") EXCEPT !.tasks = <<task>>]

Run1 == Leaf("a", "exec")
Run2 == Leaf("b", "fetch")

MainDocs ==
  { FlowDoc(<<Run1, Run2>>, Absent, Absent),
    FlowDoc(<<Run1, Run1>>, Absent, Absent),
    FlowDoc(<<Scored("s")>>, RefTo("env"), RefTo("ctx")),
    FlowDoc(<<Run1>>, RefTo("env"), Ctx("literal", [NoHooks EXCEPT !["create"] = Import("hook", TRUE), !["destroy"] = Body1(<<Run2>>)])),
    FlowDoc(<<Run1>>, Env(None, RefTo("hook")), RefTo("ctx")),
    FlowDoc(<<Run1>>, Absent, Ctx("none", [NoHooks EXCEPT !["error"] = Import("hook", FALSE)])),
    [FlowDoc(<<Run1>>, Absent, Absent) EXCEPT !.deep = TRUE],
    [Doc(<<102>>, None, "unheardOf", "flow") EXCEPT !.tasks = <<Run1>>],
    TaskDoc(<<102>>, Leaf(None, "exec")),
    TaskDoc(<<102>>, TooWide("w")),
    Missing }
EnvDocs ==
  { [Doc(<<101>>, "environment", None, "environment") EXCEPT !.environment = Env("prov", RefTo("hook"))],
    [Doc(<<101>>, None, None, "environment") EXCEPT !.environment = Env("prov", Absent)],
    TaskDoc(<<101>>, Run2),
    Missing }
CtxDocs ==
  { [Doc(<<99>>, "context", None, "context") EXCEPT !.context = Ctx("source", [NoHooks EXCEPT !["create"] = RefTo("hook"), !["error"] = Import("hook", TRUE)])],
    [Doc(<<99>>, "environment", "context", "context") EXCEPT !.context = Ctx("literal", NoHooks)],
    [Doc(<<99>>, "environment", None, "context") EXCEPT !.context = Ctx("literal", NoHooks)],
    TaskDoc(<<99>>, Run2) }
HookDocs ==
  { FlowDoc(<<Run1, Run2>>, Absent, Absent),
    [Doc(<<104>>, None, "task", "task") EXCEPT !.tasks = <<Asks("q")>>],
    [Doc(<<104>>, "context", None, "context") EXCEPT !.context = Ctx("none", NoHooks)],
    Doc(<<104>>, None, None, "garbled") }
TenDocs == { TaskDoc(<<116, 49, 48>>, Run1), TaskDoc(<<116, 49, 48>>, Asks("c")), FlowDoc(<<Run1>>, Absent, Absent) }
NineDocs == { TaskDoc(<<116, 57>>, Run2), TaskDoc(<<116, 48, 57>>, Run1),
              Doc(<<116, 57>>, None, "provider", "provider"),
              [Doc(<<116, 57>>, None, "environment", "environment") EXCEPT !.environment = Env(None, Absent)] }


Manifest(name, wants, byFlow) ==
  [Doc(<<112>>, None, "provider", "provider") EXCEPT
     !.manifest = [name |-> name, wants |-> wants, byFlow |-> byFlow]]

Empty == [r \in MCRefs |-> Missing]
Unregistered == [state |-> "absent", entries |-> <<>>]
Registered == Whole(("cloud" :> "prov") @@ ("kept" :> "hook"))

\* Commands.
Cmd(op, args) == [op |-> op, file |-> None, flow |-> None, args |-> args]
On(cmd, r) == [cmd EXCEPT !.flow = r]
File(r, doc) == [file |-> r, text |-> doc]
Starter == FlowDoc(<<Run1>>, Absent, Absent)
InitFile == Cmd("init", <<File("main", Starter)>>)
InitFolder ==
  Cmd("init", <<File("env", [Doc(<<101>>, "environment", "environment", "environment") EXCEPT !.environment = Env(None, Absent)]),
                File("nine", [TaskDoc(<<116, 57>>, Run1) EXCEPT !.kind = "task"])>>)

Alone(cmd) == [p |-> cmd, q |-> None]
Builds == {{"process", "http", "file", "secret", "provider"} \cup f : f \in {{}, {"chat"}}}
Situation(d, r, w, c) == [disk |-> d, registry |-> r, wired |-> w, commands |-> c]

\* A target is preflighted while an editor is at work.
FileStarts ==
  {Situation([Empty EXCEPT !["main"] = m, !["env"] = e, !["ctx"] = c, !["hook"] = h],
             Unregistered, w, Alone(Cmd("plan", <<>>)))
     : m \in MainDocs, e \in EnvDocs, c \in CtxDocs, h \in HookDocs, w \in Builds}
DirStarts ==
  {Situation([Empty EXCEPT !["ten"] = t, !["nine"] = n, !["env"] = e, !["ctx"] = c, !["hook"] = h],
             Unregistered, w, Alone(On(Cmd("plan", <<>>), Folder)))
     : t \in TenDocs, n \in NineDocs, e \in EnvDocs, c \in CtxDocs, h \in HookDocs \cup {Missing}, w \in Builds}

\* The environment's provider is driven.
Providers ==
  { Manifest("cloud", TRUE, FALSE), Manifest("cloud", FALSE, TRUE),
    TaskDoc(<<112>>, Run1), Doc(<<112>>, None, None, "garbled"), Missing }
Methods == {<<"bootstrap", "deploy">>, <<"clean", "destroy">>, <<"deploy">>, <<"destroy">>}
EnvStarts ==
  {Situation([Empty EXCEPT !["main"] = m, !["env"] = Manifest("bare", TRUE, FALSE), !["prov"] = d],
             Unregistered, w, Alone(On(Cmd("env", a), "main")))
     : m \in {FlowDoc(<<Run1>>, e, Absent) : e \in {Absent, Env(None, Absent), Env("prov", Absent), Env("env", Absent)}},
       d \in Providers, a \in Methods, w \in Builds}

\* Two shells share the project.
Commands2 ==
  { Cmd("register", <<"prov">>), Cmd("register", <<"hook">>), Cmd("remove", <<"cloud">>),
    Cmd("show", <<"cloud">>), Cmd("fmt", <<"main">>), Cmd("fmt", <<"main", "alt">>),
    InitFile, InitFolder }
Commands1 ==
  Commands2 \cup
  { Cmd("vet", <<"prov">>), Cmd("providers", <<>>), Cmd("plan", <<>>), Cmd("inspect", <<>>),
    On(Cmd("plan", <<>>), "ten"), [On(Cmd("inspect", <<>>), "ten") EXCEPT !.file = "alt"],
    Cmd("fmt", <<>>), Cmd("validate", <<>>), Cmd("validate", <<"main", "env">>) }
Projects ==
  { [Empty EXCEPT !["main"] = Starter, !["prov"] = Manifest("cloud", FALSE, FALSE),
                  !["hook"] = Manifest("edge", FALSE, FALSE)],
    [Empty EXCEPT !["alt"] = TaskDoc(<<102>>, Run2), !["hook"] = Doc(<<104>>, None, None, "garbled"),
                  !["env"] = [Doc(<<101>>, "environment", None, "environment") EXCEPT !.environment = Env(None, Absent)]],
    Empty }
PairStarts ==
  {Situation(d, r, w, [p |-> c, q |-> e])
     : d \in Projects, r \in {Unregistered, Torn, Registered},
       w \in {Capability \ {"store"}}, c \in Commands1, e \in Commands2}

MCSituations == FileStarts \cup DirStarts \cup EnvStarts \cup PairStarts
MCEdits == {<<"env", Missing>>, <<"hook", Missing>>,
            <<"hook", TaskDoc(<<104>>, Asks("q"))>>, <<"nine", TaskDoc(<<116, 57>>, Run2)>>}
MCShells == {"p", "q"}
MCCandidates == <<"main", "alt">>
=============================================================================
