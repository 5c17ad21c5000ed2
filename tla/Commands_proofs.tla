-------------------------- MODULE Commands_proofs ---------------------------
(***************************************************************************)
(* Commands for any number of shells, any command lines, any files and any *)
(* faults: what the registry holds, what a refusal leaves behind, what     *)
(* `tmx env` answers, and what the verdict of a preflight is worth.        *)
(***************************************************************************)
EXTENDS Commands, SequenceTheorems, FiniteSetTheorems, WellFoundedInduction, TLAPS

-----------------------------------------------------------------------------
(* Sessions are records, of which few fields have a type of their own.     *)

Fields == {"cmd", "at", "over", "exit", "found", "name", "ref", "todo",
           "open", "marks", "failed", "calls", "first"}

IsSession(c) == Total(c, Fields)

\* The stages that prepare what the next one writes.
Prepares(op, stage) ==
  stage = "format" \/ (stage = "registry" /\ op \in {"register", "remove"})

\* The stages from the preflight of a target on.
Preflighting == {"preflight", "manifest", "methods"}

\* The last stage of a route may write files or call a provider, and what comes
\* right before it has prepared that.
StageOK(op, route, k) ==
  /\ route[k] = "write" =>
       k = Len(route) /\ op \in {"fmt", "init", "register", "remove"}
  /\ route[k] = "methods" => k = Len(route) /\ op = "env"
  /\ route[k] = "format" => op = "fmt"
  /\ route[k] = "single" => op \in {"validate", "fmt"}
  /\ route[k] = "paths" => op = "validate"
  /\ route[k] = "registry" => op \in {"register", "remove", "show", "providers"}
  /\ Prepares(op, route[k]) <=> (k < Len(route) /\ route[k + 1] = "write")
  /\ k < Len(route) /\ route[k + 1] = "methods" => route[k] = "manifest"
  /\ k < Len(route) /\ route[k + 1] = "format" => route[k] = "single"
  /\ k < Len(route) /\ route[k + 1] = "manifest" /\ op = "env" =>
       route[k] = "preflight"
  /\ route[k] \in {"resolve", "preflight"} => op \in Preflighted
  /\ route[k] = "resolve" => k < Len(route) /\ route[k + 1] = "preflight"
  /\ route[k] \in Preflighting /\ k < Len(route) /\ op \in Preflighted =>
       route[k + 1] \in Preflighting

RouteOK(op, route) ==
  /\ Len(route) \in Nat /\ Len(route) >= 1
  /\ \A k \in 1 .. Len(route) : StageOK(op, route, k)
  /\ route[1] = "write" => op = "init"
  /\ route[1] \notin {"methods", "format"}
  /\ op = "env" => route[1] # "manifest"

LEMMA StageOrder == \A op \in Operations : RouteOK(op, Route(op))
<1>1. RouteOK("plan", Route("plan"))
  <2>1. PICK r : r = <<"resolve", "preflight">>
    OBVIOUS
  <2>2. /\ Len(r) = 2 /\ Route("plan") = r
        /\ r[1] = "resolve" /\ r[2] = "preflight"
    BY <2>1 DEF Route
  <2>3. StageOK("plan", r, 1)
    BY ONLY <2>2 DEF StageOK, Prepares, Preflighted, Preflighting
  <2>4. StageOK("plan", r, 2)
    BY ONLY <2>2 DEF StageOK, Prepares, Preflighted, Preflighting
  <2>5. \A k \in 1 .. 2 : k = 1 \/ k = 2
    OBVIOUS
  <2>6. RouteOK("plan", r)
    BY ONLY <2>2, <2>3, <2>4, <2>5 DEF RouteOK
  <2>7. QED
    BY ONLY <2>2, <2>6
<1>2. RouteOK("inspect", Route("inspect"))
  <2>1. PICK r : r = <<"settle", "resolve", "preflight">>
    OBVIOUS
  <2>2. /\ Len(r) = 3 /\ Route("inspect") = r
        /\ r[1] = "settle" /\ r[2] = "resolve" /\ r[3] = "preflight"
    BY <2>1 DEF Route
  <2>3. StageOK("inspect", r, 1)
    BY ONLY <2>2 DEF StageOK, Prepares, Preflighted, Preflighting
  <2>4. StageOK("inspect", r, 2)
    BY ONLY <2>2 DEF StageOK, Prepares, Preflighted, Preflighting
  <2>5. StageOK("inspect", r, 3)
    BY ONLY <2>2 DEF StageOK, Prepares, Preflighted, Preflighting
  <2>6. \A k \in 1 .. 3 : k = 1 \/ k = 2 \/ k = 3
    OBVIOUS
  <2>7. RouteOK("inspect", r)
    BY ONLY <2>2, <2>3, <2>4, <2>5, <2>6 DEF RouteOK
  <2>8. QED
    BY ONLY <2>2, <2>7
<1>3. RouteOK("env", Route("env"))
  <2>1. PICK r : r = <<"resolve", "preflight", "manifest", "methods">>
    OBVIOUS
  <2>2. /\ Len(r) = 4 /\ Route("env") = r
        /\ r[1] = "resolve" /\ r[2] = "preflight" /\ r[3] = "manifest" /\ r[4] = "methods"
    BY <2>1 DEF Route
  <2>3. StageOK("env", r, 1)
    BY ONLY <2>2 DEF StageOK, Prepares, Preflighted, Preflighting
  <2>4. StageOK("env", r, 2)
    BY ONLY <2>2 DEF StageOK, Prepares, Preflighted, Preflighting
  <2>5. StageOK("env", r, 3)
    BY ONLY <2>2 DEF StageOK, Prepares, Preflighted, Preflighting
  <2>6. StageOK("env", r, 4)
    BY ONLY <2>2 DEF StageOK, Prepares, Preflighted, Preflighting
  <2>7. \A k \in 1 .. 4 : k = 1 \/ k = 2 \/ k = 3 \/ k = 4
    OBVIOUS
  <2>8. RouteOK("env", r)
    BY ONLY <2>2, <2>3, <2>4, <2>5, <2>6, <2>7 DEF RouteOK
  <2>9. QED
    BY ONLY <2>2, <2>8
<1>4. RouteOK("validate", Route("validate"))
  <2>1. PICK r : r = <<"single", "paths">>
    OBVIOUS
  <2>2. /\ Len(r) = 2 /\ Route("validate") = r
        /\ r[1] = "single" /\ r[2] = "paths"
    BY <2>1 DEF Route
  <2>3. StageOK("validate", r, 1)
    BY ONLY <2>2 DEF StageOK, Prepares, Preflighted, Preflighting
  <2>4. StageOK("validate", r, 2)
    BY ONLY <2>2 DEF StageOK, Prepares, Preflighted, Preflighting
  <2>5. \A k \in 1 .. 2 : k = 1 \/ k = 2
    OBVIOUS
  <2>6. RouteOK("validate", r)
    BY ONLY <2>2, <2>3, <2>4, <2>5 DEF RouteOK
  <2>7. QED
    BY ONLY <2>2, <2>6
<1>5. RouteOK("fmt", Route("fmt"))
  <2>1. PICK r : r = <<"single", "format", "write">>
    OBVIOUS
  <2>2. /\ Len(r) = 3 /\ Route("fmt") = r
        /\ r[1] = "single" /\ r[2] = "format" /\ r[3] = "write"
    BY <2>1 DEF Route
  <2>3. StageOK("fmt", r, 1)
    BY ONLY <2>2 DEF StageOK, Prepares, Preflighted, Preflighting
  <2>4. StageOK("fmt", r, 2)
    BY ONLY <2>2 DEF StageOK, Prepares, Preflighted, Preflighting
  <2>5. StageOK("fmt", r, 3)
    BY ONLY <2>2 DEF StageOK, Prepares, Preflighted, Preflighting
  <2>6. \A k \in 1 .. 3 : k = 1 \/ k = 2 \/ k = 3
    OBVIOUS
  <2>7. RouteOK("fmt", r)
    BY ONLY <2>2, <2>3, <2>4, <2>5, <2>6 DEF RouteOK
  <2>8. QED
    BY ONLY <2>2, <2>7
<1>6. RouteOK("init", Route("init"))
  <2>1. PICK r : r = <<"write">>
    OBVIOUS
  <2>2. /\ Len(r) = 1 /\ Route("init") = r
        /\ r[1] = "write"
    BY <2>1 DEF Route
  <2>3. StageOK("init", r, 1)
    BY ONLY <2>2 DEF StageOK, Prepares, Preflighted, Preflighting
  <2>4. \A k \in 1 .. 1 : k = 1
    OBVIOUS
  <2>5. RouteOK("init", r)
    BY ONLY <2>2, <2>3, <2>4 DEF RouteOK
  <2>6. QED
    BY ONLY <2>2, <2>5
<1>7. RouteOK("register", Route("register"))
  <2>1. PICK r : r = <<"manifest", "registry", "write">>
    OBVIOUS
  <2>2. /\ Len(r) = 3 /\ Route("register") = r
        /\ r[1] = "manifest" /\ r[2] = "registry" /\ r[3] = "write"
    BY <2>1 DEF Route, Recording
  <2>3. StageOK("register", r, 1)
    BY ONLY <2>2 DEF StageOK, Prepares, Preflighted, Preflighting
  <2>4. StageOK("register", r, 2)
    BY ONLY <2>2 DEF StageOK, Prepares, Preflighted, Preflighting
  <2>5. StageOK("register", r, 3)
    BY ONLY <2>2 DEF StageOK, Prepares, Preflighted, Preflighting
  <2>6. \A k \in 1 .. 3 : k = 1 \/ k = 2 \/ k = 3
    OBVIOUS
  <2>7. RouteOK("register", r)
    BY ONLY <2>2, <2>3, <2>4, <2>5, <2>6 DEF RouteOK
  <2>8. QED
    BY ONLY <2>2, <2>7
<1>8. RouteOK("vet", Route("vet"))
  <2>1. PICK r : r = <<"manifest">>
    OBVIOUS
  <2>2. /\ Len(r) = 1 /\ Route("vet") = r
        /\ r[1] = "manifest"
    BY <2>1 DEF Route
  <2>3. StageOK("vet", r, 1)
    BY ONLY <2>2 DEF StageOK, Prepares, Preflighted, Preflighting
  <2>4. \A k \in 1 .. 1 : k = 1
    OBVIOUS
  <2>5. RouteOK("vet", r)
    BY ONLY <2>2, <2>3, <2>4 DEF RouteOK
  <2>6. QED
    BY ONLY <2>2, <2>5
<1>9. RouteOK("remove", Route("remove"))
  <2>1. PICK r : r = <<"registry", "write">>
    OBVIOUS
  <2>2. /\ Len(r) = 2 /\ Route("remove") = r
        /\ r[1] = "registry" /\ r[2] = "write"
    BY <2>1 DEF Route
  <2>3. StageOK("remove", r, 1)
    BY ONLY <2>2 DEF StageOK, Prepares, Preflighted, Preflighting
  <2>4. StageOK("remove", r, 2)
    BY ONLY <2>2 DEF StageOK, Prepares, Preflighted, Preflighting
  <2>5. \A k \in 1 .. 2 : k = 1 \/ k = 2
    OBVIOUS
  <2>6. RouteOK("remove", r)
    BY ONLY <2>2, <2>3, <2>4, <2>5 DEF RouteOK
  <2>7. QED
    BY ONLY <2>2, <2>6
<1>10. RouteOK("show", Route("show"))
  <2>1. PICK r : r = <<"registry", "manifest">>
    OBVIOUS
  <2>2. /\ Len(r) = 2 /\ Route("show") = r
        /\ r[1] = "registry" /\ r[2] = "manifest"
    BY <2>1 DEF Route
  <2>3. StageOK("show", r, 1)
    BY ONLY <2>2 DEF StageOK, Prepares, Preflighted, Preflighting
  <2>4. StageOK("show", r, 2)
    BY ONLY <2>2 DEF StageOK, Prepares, Preflighted, Preflighting
  <2>5. \A k \in 1 .. 2 : k = 1 \/ k = 2
    OBVIOUS
  <2>6. RouteOK("show", r)
    BY ONLY <2>2, <2>3, <2>4, <2>5 DEF RouteOK
  <2>7. QED
    BY ONLY <2>2, <2>6
<1>11. RouteOK("providers", Route("providers"))
  <2>1. PICK r : r = <<"registry">>
    OBVIOUS
  <2>2. /\ Len(r) = 1 /\ Route("providers") = r
        /\ r[1] = "registry"
    BY <2>1 DEF Route
  <2>3. StageOK("providers", r, 1)
    BY ONLY <2>2 DEF StageOK, Prepares, Preflighted, Preflighting
  <2>4. \A k \in 1 .. 1 : k = 1
    OBVIOUS
  <2>5. RouteOK("providers", r)
    BY ONLY <2>2, <2>3, <2>4 DEF RouteOK
  <2>6. QED
    BY ONLY <2>2, <2>5
<1>12. QED
  BY <1>1, <1>2, <1>3, <1>4, <1>5, <1>6, <1>7, <1>8, <1>9, <1>10, <1>11
  DEF Operations

-----------------------------------------------------------------------------
(* One session.                                                            *)

StageOf(c) == Route(c.cmd.op)[c.at]

\* A session that has left no mark yet.
Unmarked(c) ==
  /\ IsSession(c) /\ WellFormed(c.cmd)
  /\ c.over = FALSE /\ c.failed = FALSE /\ c.open = FALSE /\ c.marks = {}

Placed(c) == c.at \in 1 .. Len(Route(c.cmd.op))

Unstarted(c) == Unmarked(c) /\ c.at = 0 /\ c.todo = <<>>

\* At work in a stage that writes nothing.
Reading(c) ==
  /\ Unmarked(c) /\ Placed(c) /\ c.todo = <<>>
  /\ StageOf(c) # "write"
  /\ StageOf(c) = "format" => c.cmd.args # <<>>

\* The writes that are left: those of `init` are its arguments until it begins.
Left(c) ==
  IF c.cmd.op = "init" /\ ~c.open /\ c.marks = {} THEN c.cmd.args ELSE c.todo

\* Files are written by `fmt` and `init`, the registry by the other two.
Proper(op, ws) ==
  /\ ws \in Seq(Range(ws)) /\ ws # <<>>
  /\ op \in {"fmt", "init"} => \A w \in Range(ws) : Writable(w)
  /\ op \in {"register", "remove"} => Len(ws) = 1 /\ ws[1].file = Registry

Writing(c) ==
  /\ IsSession(c) /\ WellFormed(c.cmd) /\ Placed(c)
  /\ c.over = FALSE /\ c.failed = FALSE /\ c.open \in BOOLEAN
  /\ StageOf(c) = "write"
  /\ Proper(c.cmd.op, Left(c))
  /\ c.open => c.todo[1].file \in c.marks

\* Over: answered, refused before it wrote anything, or failed.
Finished(c) ==
  /\ IsSession(c) /\ c.over = TRUE
  /\ c.failed \in BOOLEAN /\ c.open \in BOOLEAN
  /\ c.failed \/ (c.open = FALSE /\ (c.exit = 0 \/ c.marks = {}))

SessionOK(c) == Unstarted(c) \/ Reading(c) \/ Writing(c) \/ Finished(c)

\* A stage that writes is the last, of a command that writes.
LEMMA WriteStage ==
  ASSUME NEW c, WellFormed(c.cmd), Placed(c)
  PROVE  /\ Len(Route(c.cmd.op)) \in Nat
         /\ StageOf(c) = "write" =>
              /\ c.at = Len(Route(c.cmd.op))
              /\ c.cmd.op \in {"fmt", "init", "register", "remove"}
         /\ StageOf(c) = "methods" =>
              c.at = Len(Route(c.cmd.op)) /\ c.cmd.op = "env"
         /\ StageOf(c) = "format" => c.cmd.op = "fmt"
<1>1. RouteOK(c.cmd.op, Route(c.cmd.op))
  BY StageOrder DEF WellFormed
<1>2. StageOK(c.cmd.op, Route(c.cmd.op), c.at)
  BY <1>1 DEF RouteOK, Placed
<1>3. QED
  BY <1>1, <1>2 DEF RouteOK, StageOK, StageOf

\* Going on from a stage that is not the last brings the next one; after the
\* last one the answer is 0.
LEMMA OnwardSteps ==
  ASSUME NEW c, IsSession(c), WellFormed(c.cmd), Placed(c)
  PROVE  /\ IsSession(Onward(c))
         /\ \A f \in Fields \ {"at", "over", "exit"} : Onward(c)[f] = c[f]
         /\ c.at = Len(Route(c.cmd.op)) =>
              /\ Onward(c).at = c.at
              /\ Onward(c).over = TRUE /\ Onward(c).exit = 0
         /\ c.at # Len(Route(c.cmd.op)) =>
              /\ Onward(c).at = c.at + 1 /\ c.at < Len(Route(c.cmd.op))
              /\ Onward(c).over = c.over /\ Onward(c).exit = c.exit
<1>1. c.at \in Nat /\ Len(Route(c.cmd.op)) \in Nat /\ c.at <= Len(Route(c.cmd.op))
  BY WriteStage DEF Placed
<1>2. CASE c.at = Len(Route(c.cmd.op))
  <2>1. Onward(c) = [c EXCEPT !.over = TRUE, !.exit = 0]
    BY <1>2 DEF Onward
  <2>2. PICK d : d = Onward(c)
    OBVIOUS
  <2>3. QED
    BY <1>2, <2>1, <2>2 DEF IsSession, Total, Fields
<1>3. CASE c.at # Len(Route(c.cmd.op))
  <2>1. Onward(c) = [c EXCEPT !.at = c.at + 1]
    BY <1>3 DEF Onward
  <2>2. c.at < Len(Route(c.cmd.op))
    BY <1>1, <1>3
  <2>3. QED
    BY <1>3, <2>1, <2>2 DEF IsSession, Total, Fields
<1>4. QED
  BY <1>2, <1>3

-----------------------------------------------------------------------------
(* What `tmx env` has called.                                              *)

\* The first failure of the calls, None if there is none yet.
FirstIs(calls, first) ==
  \/ first = None /\ \A i \in DOMAIN calls : calls[i].code = 0
  \/ /\ first \notin {None, 0}
     /\ \E i \in DOMAIN calls :
          calls[i].code = first /\ \A j \in DOMAIN calls : j < i => calls[j].code = 0

CallsOK(c) ==
  /\ c.calls \in Seq(Range(c.calls)) /\ Len(c.calls) <= Len(c.cmd.args)
  /\ \A i \in DOMAIN c.calls : c.calls[i].method = c.cmd.args[i]
  /\ FirstIs(c.calls, c.first)
  /\ \A i \in DOMAIN c.calls :
       c.calls[i].code # 0 /\ c.cmd.args[1] \notin Teardown => i = Len(c.calls)

Silent(c) == c.calls = <<>> /\ c.first = None

\* Where a session may have called its provider: at the methods, not yet at the
\* end of the plan, and after it.
CallInv(c) ==
  IF c.over = TRUE
  THEN c.calls = <<>> \/ (/\ CallsOK(c) /\ PlanIsOver(c)
                          /\ c.exit = IF c.first = None THEN 0 ELSE c.first)
  ELSE IF c.at # 0 /\ StageOf(c) = "methods"
       THEN CallsOK(c) /\ ~PlanIsOver(c)
       ELSE Silent(c)

\* Where `tmx env` has a provider of an accepted flow in hand.
Drives(c) ==
  IF c.over = TRUE THEN c.calls # <<>>
  ELSE /\ c.at # 0 /\ c.cmd.op = "env"
       /\ StageOf(c) \in {"manifest", "methods"}

Driven(ref) ==
  phase = "accepted" /\ ProviderRefusal = None /\ ref = flow.environment.part.provider

-----------------------------------------------------------------------------
(* A step that leaves every file as it is.                                 *)

\* The registry as it will be written is the one that was just read.
Recorded(c) ==
  /\ registry.state # "torn"
  /\ c.todo[1].text = Whole(Updated(registry.entries, c))

Quiet(c, d) ==
  /\ SessionOK(d) /\ d.marks = {} /\ d.open = FALSE /\ d.failed = FALSE
  /\ d.cmd.op = c.cmd.op /\ d.at # 0
  /\ d.at = c.at \/ (d.at = c.at + 1 /\ d.over = FALSE)
  /\ CallInv(d) /\ (Drives(d) => Driven(d.ref))
  /\ d.over = FALSE /\ StageOf(d) = "write" /\ d.cmd.op \in {"register", "remove"} =>
       Recorded(d)

\* What a session shows at the end of a stage, before it goes on.
Ready(c) ==
  /\ IF Prepares(c.cmd.op, StageOf(c)) THEN Proper(c.cmd.op, c.todo) ELSE c.todo = <<>>
  /\ StageOf(c) = "registry" /\ c.cmd.op \in {"register", "remove"} => Recorded(c)
  /\ StageOf(c) = "single" /\ c.cmd.op = "fmt" => c.cmd.args # <<>>
  /\ StageOf(c) \in {"preflight", "manifest"} /\ c.cmd.op = "env" => Driven(c.ref)

LEMMA GoesOn ==
  ASSUME NEW c, Unmarked(c), Placed(c), StageOf(c) \notin {"write", "methods"},
         Silent(c), Ready(c)
  PROVE  Quiet(c, Onward(c))
<1>1. PICK d : d = Onward(c)
  OBVIOUS
<1>2. IsSession(c) /\ WellFormed(c.cmd)
  BY DEF Unmarked
<1>3. /\ IsSession(d)
      /\ \A f \in Fields \ {"at", "over", "exit"} : d[f] = c[f]
      /\ c.at = Len(Route(c.cmd.op)) => d.at = c.at /\ d.over = TRUE /\ d.exit = 0
      /\ c.at # Len(Route(c.cmd.op)) =>
           /\ d.at = c.at + 1 /\ c.at < Len(Route(c.cmd.op))
           /\ d.over = c.over /\ d.exit = c.exit
  BY <1>1, <1>2, OnwardSteps
<1>4. /\ d.cmd = c.cmd /\ d.name = c.name /\ d.ref = c.ref /\ d.todo = c.todo
      /\ d.open = FALSE /\ d.marks = {} /\ d.failed = FALSE
      /\ d.calls = <<>> /\ d.first = None
  BY <1>3 DEF Fields, Unmarked, Silent
<1>5. /\ Len(Route(c.cmd.op)) \in Nat /\ c.at \in 1 .. Len(Route(c.cmd.op))
      /\ \A k \in 1 .. Len(Route(c.cmd.op)) : StageOK(c.cmd.op, Route(c.cmd.op), k)
  BY <1>2, StageOrder DEF WellFormed, RouteOK, Placed
<1>6. StageOK(c.cmd.op, Route(c.cmd.op), c.at)
  BY <1>5
<1>7. CASE c.at = Len(Route(c.cmd.op))
  <2>1. Finished(d)
    BY <1>3, <1>4, <1>7 DEF Finished
  <2>2. QED
    BY <1>1, <1>3, <1>4, <1>5, <1>7, <2>1
    DEF Quiet, SessionOK, CallInv, Drives
<1>8. CASE c.at # Len(Route(c.cmd.op))
  <2>1. /\ d.at = c.at + 1 /\ d.at \in 1 .. Len(Route(c.cmd.op)) /\ d.at # 0
        /\ c.at < Len(Route(c.cmd.op)) /\ d.over = FALSE
    BY <1>3, <1>5, <1>8 DEF Unmarked
  <2>2. /\ StageOf(d) = Route(c.cmd.op)[c.at + 1] /\ StageOf(c) = Route(c.cmd.op)[c.at]
        /\ StageOK(c.cmd.op, Route(c.cmd.op), d.at)
    BY <1>4, <1>5, <2>1 DEF StageOf
  <2>3. Unmarked(d) /\ Placed(d)
    BY <1>2, <1>3, <1>4, <2>1 DEF Unmarked, Placed
  <2>4. Prepares(c.cmd.op, StageOf(c)) <=> StageOf(d) = "write"
    BY <1>6, <2>1, <2>2 DEF StageOK
  <2>5. CASE StageOf(d) = "write"
    <3>1. Proper(c.cmd.op, c.todo)
      BY <2>4, <2>5 DEF Ready
    <3>2. c.cmd.op # "init"
      BY <1>6, <2>2, <2>4, <2>5 DEF StageOK, Prepares, Preflighted, Preflighting
    <3>3. Writing(d)
      BY <1>4, <2>3, <2>5, <3>1, <3>2 DEF Writing, Unmarked, Left
    <3>4. c.cmd.op \in {"register", "remove"} => Recorded(c)
      BY <1>6, <2>2, <2>4, <2>5 DEF StageOK, Prepares, Ready
    <3>5. c.cmd.op \in {"register", "remove"} => Recorded(d)
      BY <1>4, <3>4 DEF Recorded, Updated
    <3>6. CallInv(d) /\ ~Drives(d)
      BY <1>4, <2>1, <2>5 DEF CallInv, Drives, Silent
    <3>7. QED
      BY <1>1, <1>4, <2>1, <3>3, <3>5, <3>6 DEF Quiet, SessionOK
  <2>6. CASE StageOf(d) # "write"
    <3>1. c.todo = <<>>
      BY <2>4, <2>6 DEF Ready
    <3>2. StageOf(d) = "format" => c.cmd.args # <<>>
      BY <1>6, <2>1, <2>2 DEF StageOK, Ready
    <3>3. Reading(d)
      BY <1>4, <2>3, <2>6, <3>1, <3>2 DEF Reading
    <3>4. CallInv(d)
      <4>1. CASE StageOf(d) = "methods"
        <5>1. c.cmd.op = "env"
          BY <2>1, <2>2, <4>1 DEF StageOK
        <5>2. /\ c.cmd.args \in Seq(Range(c.cmd.args)) /\ c.cmd.args # <<>>
          BY <1>2, <5>1 DEF WellFormed
        <5>3. Len(c.cmd.args) \in Nat /\ Len(c.cmd.args) # 0
          BY <5>2
        <5>4. CallsOK(d)
          BY <1>4, <5>3 DEF CallsOK, FirstIs
        <5>5. ~PlanIsOver(d)
          BY <1>4, <5>3 DEF PlanIsOver
        <5>6. QED
          BY <2>1, <4>1, <5>4, <5>5 DEF CallInv
      <4>2. CASE StageOf(d) # "methods"
        BY <1>4, <2>1, <4>2 DEF CallInv, Silent
      <4>3. QED
        BY <4>1, <4>2
    <3>5. Drives(d) => Driven(d.ref)
      <4>1. SUFFICES ASSUME Drives(d) PROVE Driven(c.ref)
        BY <1>4
      <4>2. c.cmd.op = "env" /\ StageOf(d) \in {"manifest", "methods"}
        BY <1>4, <2>1, <4>1 DEF Drives
      <4>3. StageOf(c) \in {"preflight", "manifest"}
        BY <1>6, <2>1, <2>2, <4>2 DEF StageOK
      <4>4. QED
        BY <4>2, <4>3 DEF Ready
    <3>6. QED
      BY <1>1, <1>4, <2>1, <2>6, <3>3, <3>4, <3>5 DEF Quiet, SessionOK
  <2>7. QED
    BY <2>5, <2>6
<1>9. QED
  BY <1>7, <1>8

\* A command that has called nothing and leaves.
LEMMA LeavesQuietly ==
  ASSUME NEW c, Unmarked(c), c.at # 0, Silent(c), NEW code
  PROVE  Quiet(c, [c EXCEPT !.over = TRUE, !.exit = code])
<1>1. PICK d : d = [c EXCEPT !.over = TRUE, !.exit = code]
  OBVIOUS
<1>2. /\ Finished(d) /\ d.marks = {} /\ d.open = FALSE /\ d.failed = FALSE
      /\ d.over = TRUE /\ \A f \in Fields \ {"over", "exit"} : d[f] = c[f]
  BY <1>1 DEF Unmarked, IsSession, Total, Fields, Finished
<1>3. d.cmd = c.cmd /\ d.at = c.at /\ d.calls = <<>>
  BY <1>2 DEF Fields, Silent
<1>4. QED
  BY <1>1, <1>2, <1>3 DEF Quiet, SessionOK, CallInv, Drives

-----------------------------------------------------------------------------
(* The operations that leave every file as it is, one by one.              *)

Good(c) == SessionOK(c) /\ CallInv(c) /\ (Drives(c) => Driven(c.ref))

\* The step takes the session from one that has left no mark to one that has
\* not either.
QuietStep(s) ==
  /\ Unmarked(session[s])
  /\ \E d : Quiet(session[s], d) /\ session' = [session EXCEPT ![s] = d]

LEMMA AtWork ==
  ASSUME NEW s, NEW stage, Good(session[s]), At(s, stage),
         stage \notin {"write", "methods"}
  PROVE  /\ Unmarked(session[s]) /\ Placed(session[s]) /\ Silent(session[s])
         /\ IsSession(session[s]) /\ WellFormed(session[s].cmd)
         /\ session[s].at # 0 /\ session[s].todo = <<>>
         /\ StageOf(session[s]) = stage /\ Op(s) = session[s].cmd.op
         /\ stage = "format" => session[s].cmd.args # <<>> /\ Op(s) = "fmt"
         /\ stage = "single" => Op(s) \in {"validate", "fmt"}
         /\ stage = "paths" => Op(s) = "validate"
<1>1. /\ session[s].at # 0 /\ session[s].over # TRUE /\ Op(s) = session[s].cmd.op
      /\ StageOf(session[s]) = stage
  <2>1. session[s].at > 0 /\ ~session[s].over /\ Stage(s) = stage
    BY DEF At, Active
  <2>2. ~(0 > 0)
    OBVIOUS
  <2>3. session[s].at # 0
    BY ONLY <2>1, <2>2
  <2>4. session[s].over # TRUE
    BY ONLY <2>1
  <2>5. QED
    BY <2>1, <2>3, <2>4 DEF Stage, Op, StageOf
<1>2. Reading(session[s])
  BY <1>1 DEF Good, SessionOK, Unstarted, Writing, Finished
<1>3. Silent(session[s])
  BY <1>1 DEF Good, CallInv
<1>4. StageOK(session[s].cmd.op, Route(session[s].cmd.op), session[s].at)
  BY <1>2, StageOrder DEF Reading, Unmarked, WellFormed, RouteOK, Placed
<1>5. QED
  BY <1>1, <1>2, <1>3, <1>4 DEF Reading, Unmarked, StageOK, StageOf

LEMMA LeaveIsQuiet ==
  ASSUME NEW s, Unmarked(session[s]), session[s].at # 0, Silent(session[s]),
         NEW code, Leave(s, code)
  PROVE  QuietStep(s)
<1>1. PICK d : d = [session[s] EXCEPT !.over = TRUE, !.exit = code]
  OBVIOUS
<1>2. Quiet(session[s], d)
  BY <1>1, LeavesQuietly
<1>3. session' = [session EXCEPT ![s] = d]
  BY <1>1 DEF Leave
<1>4. QED
  BY <1>2, <1>3 DEF QuietStep

\* Going on, with a part of the record that is not about files replaced.
LEMMA GoingOnIsQuiet ==
  ASSUME NEW s, Unmarked(session[s]), NEW c,
         IsSession(c), WellFormed(c.cmd), c.cmd.op = session[s].cmd.op,
         c.at = session[s].at, c.over = session[s].over, c.failed = session[s].failed,
         c.open = session[s].open, c.marks = session[s].marks,
         Placed(c), StageOf(c) \notin {"write", "methods"}, Silent(c), Ready(c),
         session' = [session EXCEPT ![s] = Onward(c)]
  PROVE  QuietStep(s)
<1>1. Unmarked(c)
  BY DEF Unmarked
<1>2. PICK d : d = Onward(c)
  OBVIOUS
<1>3. Quiet(c, d)
  BY <1>1, <1>2, GoesOn
<1>4. Quiet(session[s], d)
  BY <1>3 DEF Quiet
<1>5. QED
  BY <1>2, <1>4 DEF QuietStep

LEMMA BeginIsQuiet ==
  ASSUME NEW s, Good(session[s]), Begin(s)
  PROVE  QuietStep(s)
<1>1. Unstarted(session[s]) /\ Silent(session[s])
  BY DEF Begin, Good, SessionOK, Reading, Writing, Placed, Finished, CallInv
<1>2. PICK c, d : c = session[s] /\ d = [c EXCEPT !.at = 1]
  OBVIOUS
<1>3. session' = [session EXCEPT ![s] = d]
  BY <1>2 DEF Begin
<1>4. /\ IsSession(d) /\ d.at = 1 /\ \A f \in Fields \ {"at"} : d[f] = c[f]
  BY <1>1, <1>2 DEF Unstarted, Unmarked, IsSession, Total, Fields
<1>5. /\ d.cmd = c.cmd /\ d.over = FALSE /\ d.failed = FALSE /\ d.open = FALSE
      /\ d.marks = {} /\ d.todo = <<>> /\ d.calls = <<>> /\ d.first = None
      /\ d.at = c.at + 1
  BY <1>1, <1>2, <1>4 DEF Fields, Unstarted, Unmarked, Silent
<1>6. WellFormed(c.cmd) /\ RouteOK(c.cmd.op, Route(c.cmd.op))
  BY <1>1, <1>2, StageOrder DEF Unstarted, Unmarked, WellFormed
<1>7. /\ StageOf(d) = Route(c.cmd.op)[1] /\ Unmarked(d) /\ Placed(d)
  BY <1>4, <1>5, <1>6 DEF StageOf, Unmarked, Placed, RouteOK
<1>8. SessionOK(d)
  <2>1. CASE StageOf(d) = "write"
    <3>1. c.cmd.op = "init"
      BY <1>6, <1>7, <2>1 DEF RouteOK
    <3>2. Proper(c.cmd.op, c.cmd.args)
      BY <1>6, <3>1 DEF Proper, WellFormed
    <3>3. Writing(d)
      BY <1>5, <1>7, <2>1, <3>1, <3>2 DEF Writing, Unmarked, Left
    <3>4. QED
      BY <3>3 DEF SessionOK
  <2>2. CASE StageOf(d) # "write"
    BY <1>5, <1>6, <1>7, <2>2 DEF SessionOK, Reading, RouteOK
  <2>3. QED
    BY <2>1, <2>2
<1>9. Quiet(c, d)
  BY <1>4, <1>5, <1>6, <1>7, <1>8
  DEF Quiet, CallInv, Drives, RouteOK, Silent
<1>10. QED
  BY <1>1, <1>2, <1>3, <1>9 DEF QuietStep, Unstarted

\* A nonempty set of natural numbers has a least one, for < is well founded.
LEMMA LeastNumberPrinciple ==
  ASSUME NEW S \in SUBSET Nat, S # {}
  PROVE  \E m \in S : \A n \in S : m <= n
<1> DEFINE Less == {ss \in Nat \X Nat : ss[1] < ss[2]}
<1>1. IsWellFoundedOn(Less, Nat)
  BY NatLessThanWellFounded, Zenon DEF OpToRel
<1>2. PICK m \in S : \A n \in S : <<n, m>> \notin Less
  <2>1. S \subseteq Nat /\ S # {}
    OBVIOUS
  <2> HIDE DEF Less
  <2>2. QED
    BY ONLY <1>1, <2>1, WFMin
<1>3. \A n \in S : ~ (n < m)
  <2>1. \A n \in S : <<n, m>> \in Nat \X Nat
    OBVIOUS
  <2>2. QED
    BY <1>2, <2>1
<1>4. QED
  BY <1>3

\* The first of several: all before it are None.
LEMMA FirstIsFirst ==
  ASSUME NEW codes, DOMAIN codes \subseteq Nat
  PROVE  /\ FirstOf(codes) = None <=> \A i \in DOMAIN codes : codes[i] = None
         /\ FirstOf(codes) # None =>
              \E i \in DOMAIN codes : /\ FirstOf(codes) = codes[i]
                                      /\ \A j \in DOMAIN codes : j < i => codes[j] = None
<1>1. PICK real : real = {i \in DOMAIN codes : codes[i] # None}
  OBVIOUS
<1>2. CASE real = {}
  <2>1. \A i \in DOMAIN codes : codes[i] = None
    BY <1>1, <1>2
  <2>2. FirstOf(codes) = None
    BY <1>1, <1>2 DEF FirstOf
  <2>3. QED
    BY <2>1, <2>2
<1>3. CASE real # {}
  <2>1. real \subseteq Nat
    BY <1>1
  <2>2. \E i \in real : \A j \in real : i <= j
    BY <1>3, <2>1, LeastNumberPrinciple
  <2>3. PICK n : n = CHOOSE i \in real : \A j \in real : i <= j
    OBVIOUS
  <2>4. n \in real /\ \A j \in real : n <= j
    BY <2>2, <2>3
  <2>5. FirstOf(codes) = codes[n]
    BY <1>1, <1>3, <2>3 DEF FirstOf
  <2>6. \A j \in DOMAIN codes : j < n => codes[j] = None
    BY <1>1, <2>1, <2>4
  <2>7. n \in DOMAIN codes /\ codes[n] # None
    BY <1>1, <2>4
  <2>8. QED
    BY <2>5, <2>6, <2>7
<1>4. QED
  BY <1>2, <1>3

\* What is found by name or by convention is a file of the project.
LEMMA TargetIsFile ==
  ASSUME NEW cmd, WellFormed(cmd), NEW t, t = ResolveTarget(cmd),
         t.code = None, t.file # None
  PROVE  t.file \in Refs
<1> DEFINE ways == <<cmd.file, cmd.flow>>
           tries == [i \in DOMAIN Candidates |->
                       IF Present(Candidates[i]) THEN Candidates[i] ELSE None]
<1>1. FirstOf(ways) \in Refs \cup {Folder, None}
  <2>1. FirstOf(ways) = None \/ \E i \in DOMAIN ways : FirstOf(ways) = ways[i]
    BY FirstIsFirst
  <2>2. \A i \in DOMAIN ways : ways[i] \in {cmd.file, cmd.flow}
    OBVIOUS
  <2>3. {cmd.file, cmd.flow} \subseteq Refs \cup {Folder, None}
    BY DEF WellFormed
  <2>4. QED
    BY ONLY <2>1, <2>2, <2>3
<1>2. FirstOf(tries) \in Refs \cup {None}
  <2>1. DOMAIN Candidates \subseteq Nat /\ \A i \in DOMAIN Candidates : Candidates[i] \in Refs
    BY CommandsAssumption
  <2>2. DOMAIN tries = DOMAIN Candidates
    OBVIOUS
  <2>3. FirstOf(tries) = None \/ \E i \in DOMAIN tries : FirstOf(tries) = tries[i]
    BY <2>1, <2>2, FirstIsFirst
  <2>4. \A i \in DOMAIN tries : tries[i] \in Refs \cup {None}
    BY <2>1
  <2>5. QED
    BY ONLY <2>3, <2>4
<1>3. PICK named, found : named = FirstOf(ways) /\ found = FirstOf(tries)
  OBVIOUS
<1>4. ResolveTarget(cmd) =
        IF named = Folder THEN FolderTarget
        ELSE IF named # None THEN IF Present(named) THEN FileTarget(named) ELSE Unresolved
        ELSE IF found # None THEN FileTarget(found)
        ELSE IF FolderLayout THEN FolderTarget ELSE Unresolved
  BY <1>3 DEF ResolveTarget
<1>5. FolderTarget.file = None /\ Unresolved.file = None
  BY DEF FolderTarget, Unresolved
<1>6. \A r : FileTarget(r).file = r
  BY DEF FileTarget
<1>7. CASE named = Folder
  BY <1>4, <1>5, <1>7
<1>8. CASE named # Folder /\ named # None
  <2>1. t = IF Present(named) THEN FileTarget(named) ELSE Unresolved
    BY <1>4, <1>8
  <2>2. t.file = named
    BY <1>5, <1>6, <2>1
  <2>3. QED
    BY ONLY <1>1, <1>3, <1>8, <2>2
<1>9. CASE named # Folder /\ named = None
  <2>1. t = IF found # None THEN FileTarget(found)
            ELSE IF FolderLayout THEN FolderTarget ELSE Unresolved
    BY <1>4, <1>9
  <2>2. t.file = found
    BY <1>5, <1>6, <2>1
  <2>3. QED
    BY ONLY <1>2, <1>3, <2>2, t.file # None
<1>10. QED
  BY <1>7, <1>8, <1>9

LEMMA ResolveIsQuiet ==
  ASSUME NEW s, Good(session[s]), Resolve(s)
  PROVE  QuietStep(s)
<1>1. PICK c : c = session[s]
  OBVIOUS
<1>2. /\ Unmarked(c) /\ Placed(c) /\ Silent(c) /\ c.at # 0 /\ c.todo = <<>>
      /\ IsSession(c) /\ WellFormed(c.cmd) /\ StageOf(c) = "resolve"
  BY <1>1, AtWork DEF Resolve
<1>3. PICK t : t = ResolveTarget(session[s].cmd)
  OBVIOUS
<1>4. IF t.code # None THEN Leave(s, ExitCode(t.code))
      ELSE session' = [session EXCEPT ![s] = Onward(c)]
  BY <1>1, <1>3 DEF Resolve
<1>5. Ready(c)
  BY <1>2 DEF Ready, Prepares
<1>6. QED
  BY <1>1, <1>2, <1>4, <1>5, LeaveIsQuiet, GoingOnIsQuiet

LEMMA SettleIsQuiet ==
  ASSUME NEW s, Good(session[s]), Settle(s)
  PROVE  QuietStep(s)
<1>1. PICK c : c = session[s]
  OBVIOUS
<1>2. /\ Unmarked(c) /\ Placed(c) /\ Silent(c) /\ c.at # 0 /\ c.todo = <<>>
      /\ IsSession(c) /\ WellFormed(c.cmd) /\ StageOf(c) = "settle"
  BY <1>1, AtWork DEF Settle
<1>3. PICK t : t = ResolveTarget(c.cmd)
  OBVIOUS
<1>4. PICK named : named = IF t.file = None THEN Folder ELSE t.file
  OBVIOUS
<1>5. PICK e : e = [c EXCEPT !.cmd.flow = named, !.cmd.file = None]
  OBVIOUS
<1>6. IF t.code # None THEN Leave(s, ExitCode(t.code))
      ELSE session' = [session EXCEPT ![s] = Onward(e)]
  BY <1>1, <1>3, <1>4, <1>5 DEF Settle
<1>7. CASE t.code # None
  BY <1>1, <1>2, <1>6, <1>7, LeaveIsQuiet
<1>8. CASE t.code = None
  <2>1. named \in Refs \cup {Folder}
    BY <1>2, <1>3, <1>4, <1>8, TargetIsFile
  <2>2. /\ IsSession(e) /\ e.at = c.at /\ e.over = c.over /\ e.failed = c.failed
        /\ e.open = c.open /\ e.marks = c.marks /\ e.todo = c.todo
        /\ e.calls = c.calls /\ e.first = c.first
        /\ e.cmd = [c.cmd EXCEPT !.flow = named, !.file = None]
    BY <1>2, <1>5 DEF IsSession, Total, Fields
  <2>3. WellFormed(e.cmd) /\ e.cmd.op = c.cmd.op
    <3>1. PICK a, b : a = c.cmd /\ b = e.cmd
      OBVIOUS
    <3>2. Total(a, {"op", "file", "flow", "args"})
      BY <1>2, <3>1 DEF WellFormed
    <3>3. /\ b = [a EXCEPT !.flow = named, !.file = None]
      BY <2>2, <3>1
    <3>4. /\ Total(b, {"op", "file", "flow", "args"}) /\ b.op = a.op /\ b.args = a.args
          /\ b.flow = named /\ b.file = None
      BY <3>2, <3>3 DEF Total
    <3>5. QED
      BY <1>2, <2>1, <3>1, <3>4 DEF WellFormed
  <2>4. StageOf(e) = "settle" /\ Placed(e) /\ Silent(e)
    BY <1>2, <2>2, <2>3 DEF StageOf, Placed, Silent
  <2>5. Ready(e)
    BY <1>2, <2>2, <2>4 DEF Ready, Prepares
  <2>6. QED
    BY <1>1, <1>2, <1>6, <1>8, <2>2, <2>3, <2>4, <2>5, GoingOnIsQuiet
<1>9. QED
  BY <1>7, <1>8

\* A session whose files have been named.
Named(c, args, found) == [c EXCEPT !.cmd.args = args, !.found = found]
Nameable(c, args) ==
  c.cmd.op \in {"validate", "fmt"} /\ (c.cmd.op = "fmt" => args \in Seq(Refs))

LEMMA ArgsNamed ==
  ASSUME NEW c, IsSession(c), WellFormed(c.cmd), NEW args, Nameable(c, args), NEW found,
         NEW e, e = Named(c, args, found)
  PROVE  /\ IsSession(e) /\ WellFormed(e.cmd) /\ e.cmd.op = c.cmd.op
         /\ e.cmd.args = args
         /\ e.at = c.at /\ e.over = c.over /\ e.failed = c.failed
         /\ e.open = c.open /\ e.marks = c.marks /\ e.todo = c.todo
         /\ e.calls = c.calls /\ e.first = c.first
<1>1. /\ IsSession(e) /\ e.at = c.at /\ e.over = c.over /\ e.failed = c.failed
      /\ e.open = c.open /\ e.marks = c.marks /\ e.todo = c.todo
      /\ e.calls = c.calls /\ e.first = c.first
      /\ e.cmd = [c.cmd EXCEPT !.args = args]
  BY DEF Named, IsSession, Total, Fields
<1>2. PICK a, b : a = c.cmd /\ b = e.cmd
  OBVIOUS
<1>3. Total(a, {"op", "file", "flow", "args"}) /\ b = [a EXCEPT !.args = args]
  BY <1>1, <1>2 DEF WellFormed
<1>4. /\ Total(b, {"op", "file", "flow", "args"}) /\ b.op = a.op /\ b.args = args
      /\ b.flow = a.flow /\ b.file = a.file
  BY <1>3 DEF Total
<1>5. QED
  BY <1>1, <1>2, <1>4 DEF WellFormed, Nameable

LEMMA SingleIsQuiet ==
  ASSUME NEW s, Good(session[s]), Single(s)
  PROVE  QuietStep(s)
<1>1. PICK c : c = session[s]
  OBVIOUS
<1>2. /\ Unmarked(c) /\ Placed(c) /\ Silent(c) /\ c.at # 0 /\ c.todo = <<>>
      /\ IsSession(c) /\ WellFormed(c.cmd) /\ StageOf(c) = "single"
      /\ c.cmd.op \in {"validate", "fmt"}
  BY <1>1, AtWork DEF Single
<1>3. PICK t : t = ResolveTarget(c.cmd)
  OBVIOUS
<1>4. PICK e : e = [c EXCEPT !.cmd.args = <<t.file>>]
  OBVIOUS
<1>5. IF c.cmd.args # <<>> THEN session' = [session EXCEPT ![s] = Onward(c)]
      ELSE IF t.code # None THEN Leave(s, ExitCode(t.code))
      ELSE IF t.file = None THEN Leave(s, ExitCode("requires_file"))
      ELSE session' = [session EXCEPT ![s] = Onward(e)]
  BY <1>1, <1>3, <1>4 DEF Single
<1>6. CASE c.cmd.args # <<>>
  <2>1. Ready(c)
    BY <1>2, <1>6 DEF Ready, Prepares
  <2>2. QED
    BY <1>1, <1>2, <1>5, <1>6, <2>1, GoingOnIsQuiet
<1>7. CASE c.cmd.args = <<>> /\ (t.code # None \/ t.file = None)
  BY <1>1, <1>2, <1>5, <1>7, LeaveIsQuiet
<1>8. CASE c.cmd.args = <<>> /\ t.code = None /\ t.file # None
  <2>1. t.file \in Refs
    BY <1>2, <1>3, <1>8, TargetIsFile
  <2>2. <<t.file>> \in Seq(Refs) /\ <<t.file>> # <<>>
    BY <2>1
  <2>3. PICK f, args : f = c.found /\ args = <<t.file>>
    OBVIOUS
  <2>4. e = Named(c, args, f)
    BY <1>2, <1>4, <2>3 DEF Named, IsSession, Total, Fields
  <2>5. /\ IsSession(e) /\ WellFormed(e.cmd) /\ e.cmd.op = c.cmd.op
        /\ e.cmd.args = args
        /\ e.at = c.at /\ e.over = c.over /\ e.failed = c.failed
        /\ e.open = c.open /\ e.marks = c.marks /\ e.todo = c.todo
        /\ e.calls = c.calls /\ e.first = c.first
    <3>1. Nameable(c, args)
      BY <1>2, <2>2, <2>3 DEF Nameable
    <3>2. IsSession(c) /\ WellFormed(c.cmd)
      BY <1>2
    <3>3. QED
      BY ONLY <2>4, <3>1, <3>2, ArgsNamed
  <2>6. StageOf(e) = "single" /\ Placed(e) /\ Silent(e)
    BY <1>2, <2>5 DEF StageOf, Placed, Silent
  <2>7. Ready(e)
    BY <1>2, <2>2, <2>3, <2>5, <2>6 DEF Ready, Prepares
  <2>8. QED
    BY <1>1, <1>2, <1>5, <1>8, <2>5, <2>6, <2>7, GoingOnIsQuiet
<1>9. QED
  BY <1>6, <1>7, <1>8

LEMMA JudgedIsQuiet ==
  ASSUME NEW s, Good(session[s]), Judged(s)
  PROVE  QuietStep(s)
<1>1. PICK c : c = session[s]
  OBVIOUS
<1>2. /\ Unmarked(c) /\ Placed(c) /\ Silent(c) /\ c.at # 0 /\ c.todo = <<>>
      /\ IsSession(c) /\ WellFormed(c.cmd) /\ StageOf(c) = "preflight"
      /\ Op(s) = c.cmd.op
  BY <1>1, AtWork DEF Judged
<1>3. PICK e : e = [c EXCEPT !.ref = flow.environment.part.provider]
  OBVIOUS
<1>4. /\ phase \in {"accepted", "refused"}
      /\ IF phase = "refused" THEN Leave(s, ExitCode(error))
         ELSE IF c.cmd.op # "env" THEN session' = [session EXCEPT ![s] = Onward(c)]
         ELSE IF ProviderRefusal # None THEN Leave(s, ExitCode(ProviderRefusal))
         ELSE session' = [session EXCEPT ![s] = Onward(e)]
  BY <1>1, <1>2, <1>3 DEF Judged
<1>5. CASE phase = "refused" \/ (c.cmd.op = "env" /\ ProviderRefusal # None)
  BY <1>1, <1>2, <1>4, <1>5, LeaveIsQuiet
<1>6. CASE phase # "refused" /\ c.cmd.op # "env"
  <2>1. Ready(c)
    BY <1>2, <1>6 DEF Ready, Prepares
  <2>2. QED
    BY <1>1, <1>2, <1>4, <1>6, <2>1, GoingOnIsQuiet
<1>7. CASE phase # "refused" /\ c.cmd.op = "env" /\ ProviderRefusal = None
  <2>1. /\ IsSession(e) /\ e.cmd = c.cmd
        /\ e.at = c.at /\ e.over = c.over /\ e.failed = c.failed
        /\ e.open = c.open /\ e.marks = c.marks /\ e.todo = c.todo
        /\ e.calls = c.calls /\ e.first = c.first
        /\ e.ref = flow.environment.part.provider
    BY <1>2, <1>3 DEF IsSession, Total, Fields
  <2>2. StageOf(e) = "preflight" /\ Placed(e) /\ Silent(e) /\ WellFormed(e.cmd)
    BY <1>2, <2>1 DEF StageOf, Placed, Silent
  <2>3. Ready(e)
    BY <1>2, <1>4, <1>7, <2>1, <2>2 DEF Ready, Prepares, Driven
  <2>4. QED
    BY <1>1, <1>2, <1>4, <1>7, <2>1, <2>2, <2>3, GoingOnIsQuiet
<1>8. QED
  BY <1>5, <1>6, <1>7

LEMMA LoadManifestIsQuiet ==
  ASSUME NEW s, Good(session[s]), LoadManifest(s)
  PROVE  QuietStep(s)
<1>1. PICK c : c = session[s]
  OBVIOUS
<1>2. /\ Unmarked(c) /\ Placed(c) /\ Silent(c) /\ c.at # 0 /\ c.todo = <<>>
      /\ IsSession(c) /\ WellFormed(c.cmd) /\ StageOf(c) = "manifest"
      /\ Op(s) = c.cmd.op
  BY <1>1, AtWork DEF LoadManifest
<1>3. PICK ref : ref = IF c.cmd.op \in {"register", "vet"} THEN c.cmd.args[1] ELSE c.ref
  OBVIOUS
<1>4. PICK doc, refusal : doc = disk[ref] /\ refusal = ManifestRefusal(c.cmd.op, doc)
  OBVIOUS
<1>5. PICK e : e = [c EXCEPT !.ref = ref, !.name = doc.manifest.name]
  OBVIOUS
<1>6. IF refusal # None THEN Leave(s, ExitCode(refusal))
      ELSE session' = [session EXCEPT ![s] = Onward(e)]
  BY <1>1, <1>2, <1>3, <1>4, <1>5 DEF LoadManifest
<1>7. CASE refusal # None
  BY <1>1, <1>2, <1>6, <1>7, LeaveIsQuiet
<1>8. CASE refusal = None
  <2>1. /\ IsSession(e) /\ e.cmd = c.cmd
        /\ e.at = c.at /\ e.over = c.over /\ e.failed = c.failed
        /\ e.open = c.open /\ e.marks = c.marks /\ e.todo = c.todo
        /\ e.calls = c.calls /\ e.first = c.first /\ e.ref = ref
    BY <1>2, <1>5 DEF IsSession, Total, Fields
  <2>2. StageOf(e) = "manifest" /\ Placed(e) /\ Silent(e) /\ WellFormed(e.cmd)
    BY <1>2, <2>1 DEF StageOf, Placed, Silent
  <2>3. c.cmd.op = "env" => Driven(ref)
    BY <1>1, <1>2, <1>3 DEF Good, Drives, Unmarked
  <2>4. Ready(e)
    BY <1>2, <2>1, <2>2, <2>3 DEF Ready, Prepares
  <2>5. QED
    BY <1>1, <1>2, <1>6, <1>8, <2>1, <2>2, <2>4, GoingOnIsQuiet
<1>9. QED
  BY <1>7, <1>8

LEMMA ValidateNextIsQuiet ==
  ASSUME NEW s, Good(session[s]), ValidateNext(s)
  PROVE  QuietStep(s)
<1>1. PICK c : c = session[s]
  OBVIOUS
<1>2. /\ Unmarked(c) /\ Placed(c) /\ Silent(c) /\ c.at # 0 /\ c.todo = <<>>
      /\ IsSession(c) /\ WellFormed(c.cmd) /\ StageOf(c) = "paths"
      /\ c.cmd.op = "validate"
  BY <1>1, AtWork DEF ValidateNext
<1>3. PICK paths, doc : paths = c.cmd.args /\ doc = disk[c.cmd.args[1]]
  OBVIOUS
<1>4. PICK found, refusal : /\ found = (c.found \/ ~Fits(doc, Class(doc)))
                            /\ refusal = LoadRefusal(doc)
  OBVIOUS
<1>5. PICK rest : rest = Tail(paths)
  OBVIOUS
<1>6. PICK e : e = Named(c, rest, found)
  OBVIOUS
<1>7. IF refusal # None THEN Leave(s, ExitCode(refusal))
      ELSE IF Len(paths) > 1 THEN session' = [session EXCEPT ![s] = e]
      ELSE IF found THEN Leave(s, ExitCode("schema_invalid"))
      ELSE session' = [session EXCEPT ![s] = Onward(c)]
  BY <1>1, <1>3, <1>4, <1>5, <1>6 DEF ValidateNext, Named
<1>8. CASE refusal # None \/ (~(Len(paths) > 1) /\ found)
  BY <1>1, <1>2, <1>7, <1>8, LeaveIsQuiet
<1>9. CASE refusal = None /\ Len(paths) > 1
  <2>1. /\ IsSession(e) /\ WellFormed(e.cmd) /\ e.cmd.op = c.cmd.op
        /\ e.at = c.at /\ e.over = c.over /\ e.failed = c.failed
        /\ e.open = c.open /\ e.marks = c.marks /\ e.todo = c.todo
        /\ e.calls = c.calls /\ e.first = c.first
    <3>1. Nameable(c, rest)
      BY <1>2 DEF Nameable
    <3>2. IsSession(c) /\ WellFormed(c.cmd)
      BY <1>2
    <3>3. QED
      BY ONLY <1>6, <3>1, <3>2, ArgsNamed
  <2>2. StageOf(e) = "paths" /\ Placed(e) /\ Silent(e) /\ Unmarked(e)
    BY <1>2, <2>1 DEF StageOf, Placed, Silent, Unmarked
  <2>3. Reading(e)
    BY <1>2, <2>1, <2>2 DEF Reading
  <2>4. Quiet(c, e)
    BY <1>2, <2>1, <2>2, <2>3 DEF Quiet, SessionOK, CallInv, Drives, Unmarked
  <2>5. QED
    BY <1>1, <1>2, <1>7, <1>9, <2>4 DEF QuietStep
<1>10. CASE refusal = None /\ ~(Len(paths) > 1) /\ ~found
  <2>1. Ready(c)
    BY <1>2 DEF Ready, Prepares
  <2>2. QED
    BY <1>1, <1>2, <1>7, <1>10, <2>1, GoingOnIsQuiet
<1>11. QED
  BY <1>8, <1>9, <1>10

\* Every file is a document, and stays one when it is emptied or formatted.
Shaped == \A r \in Refs : Present(r) => IsDocument(disk[r])

LEMMA StillDocuments ==
  ASSUME NEW doc, IsDocument(doc)
  PROVE  /\ Full(Emitted(doc))
         /\ IsDocument(Emptied(doc)) /\ Emptied(doc).shape = "empty"
         /\ IsDocument(Garbled(doc)) /\ Garbled(doc).shape = "garbled"
<1>1. PICK null : null = [doc EXCEPT !.shape = "null"]
  OBVIOUS
<1>2. /\ Total(null, {"path", "stem", "kind", "shape", "deep", "tasks", "environment",
                      "context", "manifest"})
      /\ null.shape = "null" /\ null.tasks = doc.tasks
      /\ null.environment = doc.environment /\ null.context = doc.context
  BY <1>1 DEF IsDocument, Total
<1>3. IsDocument(null)
  BY <1>2 DEF IsDocument
<1>4. Full(Emitted(doc))
  BY <1>1, <1>2, <1>3 DEF Full, Emitted
<1>5. PICK void : void = Emptied(doc)
  OBVIOUS
<1>6. /\ Total(void, {"path", "stem", "kind", "shape", "deep", "tasks", "environment",
                      "context", "manifest"})
      /\ void.shape = "empty" /\ void.tasks = <<>>
      /\ void.environment = Absent /\ void.context = Absent
  BY <1>5 DEF IsDocument, Total, Emptied
<1>7. IsBody(void.tasks) /\ ~Inline(Absent) /\ ~Reference(Absent)
  BY <1>6 DEF IsBody, Inline, Reference, Absent
<1>8. IsEnvironment(void.environment) /\ IsContext(void.context)
  BY <1>6, <1>7 DEF IsEnvironment, IsContext, Leads
<1>9. IsDocument(void)
  BY <1>6, <1>7, <1>8 DEF IsDocument
<1>11. PICK blot : blot = Garbled(doc)
  OBVIOUS
<1>12. /\ Total(blot, {"path", "stem", "kind", "shape", "deep", "tasks", "environment",
                       "context", "manifest"})
       /\ blot.shape = "garbled" /\ blot.tasks = <<>>
       /\ blot.environment = Absent /\ blot.context = Absent
  BY <1>5, <1>6, <1>11 DEF Garbled, Total
<1>13. IsDocument(blot)
  BY <1>6, <1>7, <1>8, <1>12 DEF IsDocument
<1>10. QED
  BY <1>4, <1>5, <1>6, <1>9, <1>11, <1>12, <1>13

LEMMA FormatIsQuiet ==
  ASSUME NEW s, Good(session[s]), Shaped, Format(s)
  PROVE  QuietStep(s)
<1>1. PICK c : c = session[s]
  OBVIOUS
<1>2. /\ Unmarked(c) /\ Placed(c) /\ Silent(c) /\ c.at # 0 /\ c.todo = <<>>
      /\ IsSession(c) /\ WellFormed(c.cmd) /\ StageOf(c) = "format"
      /\ c.cmd.op = "fmt" /\ c.cmd.args # <<>>
  BY <1>1, AtWork DEF Format
<1>3. PICK args, from, to : /\ args = c.cmd.args /\ from = c.cmd.args[1]
                            /\ to = c.cmd.args[Len(c.cmd.args)]
  OBVIOUS
<1>4. PICK doc, w : doc = disk[from] /\ w = [file |-> to, text |-> Emitted(doc)]
  OBVIOUS
<1>5. PICK ws : ws = <<w>>
  OBVIOUS
<1>6. PICK e : e = [c EXCEPT !.todo = ws]
  OBVIOUS
<1>7. IF doc = Missing THEN Leave(s, ExitCode("reference_not_found"))
      ELSE IF doc.shape = "garbled" THEN Leave(s, ExitCode("source_parse_error"))
      ELSE session' = [session EXCEPT ![s] = Onward(e)]
  BY <1>1, <1>3, <1>4, <1>5, <1>6 DEF Format
<1>8. CASE doc = Missing \/ doc.shape = "garbled"
  BY <1>1, <1>2, <1>7, <1>8, LeaveIsQuiet
<1>9. CASE doc # Missing /\ doc.shape # "garbled"
  <2>1. from \in Refs /\ to \in Refs
    <3>1. args \in Seq(Refs) /\ args # <<>>
      BY <1>2, <1>3 DEF WellFormed
    <3>2. QED
      BY <1>3, <3>1
  <2>2. Full(Emitted(doc))
    <3>1. IsDocument(doc)
      BY <1>4, <1>9, <2>1 DEF Shaped, Present
    <3>2. QED
      BY <3>1, StillDocuments
  <2>3. Writable(w)
    BY <1>4, <2>1, <2>2 DEF Writable
  <2>4. Proper("fmt", ws)
    <3>1. Range(ws) = {w}
      BY <1>5 DEF Range
    <3>2. ws \in Seq({w}) /\ ws # <<>>
      BY <1>5
    <3>3. QED
      BY <2>3, <3>1, <3>2 DEF Proper
  <2>5. /\ IsSession(e) /\ e.cmd = c.cmd
        /\ e.at = c.at /\ e.over = c.over /\ e.failed = c.failed
        /\ e.open = c.open /\ e.marks = c.marks /\ e.todo = ws
        /\ e.calls = c.calls /\ e.first = c.first
    BY <1>2, <1>6 DEF IsSession, Total, Fields
  <2>6. StageOf(e) = "format" /\ Placed(e) /\ Silent(e) /\ WellFormed(e.cmd)
    BY <1>2, <2>5 DEF StageOf, Placed, Silent
  <2>7. Ready(e)
    BY <1>2, <2>4, <2>5, <2>6 DEF Ready, Prepares
  <2>8. QED
    BY <1>1, <1>2, <1>7, <1>9, <2>5, <2>6, <2>7, GoingOnIsQuiet
<1>10. QED
  BY <1>8, <1>9

LEMMA ReadRegistryIsQuiet ==
  ASSUME NEW s, Good(session[s]), ReadRegistry(s)
  PROVE  QuietStep(s)
<1>1. PICK c : c = session[s]
  OBVIOUS
<1>2. /\ Unmarked(c) /\ Placed(c) /\ Silent(c) /\ c.at # 0 /\ c.todo = <<>>
      /\ IsSession(c) /\ WellFormed(c.cmd) /\ StageOf(c) = "registry"
      /\ Op(s) = c.cmd.op
  BY <1>1, AtWork DEF ReadRegistry
<1>3. PICK name : name = IF c.cmd.op \in {"show", "remove"} THEN c.cmd.args[1] ELSE c.name
  OBVIOUS
<1>4. PICK refusal : refusal = RegistryRefusal(c.cmd.op, name)
  OBVIOUS
<1>5. PICK a, w : /\ a = [c EXCEPT !.name = name]
                  /\ w = [file |-> Registry, text |-> Whole(Updated(registry.entries, a))]
  OBVIOUS
<1>6. PICK e : e = CASE c.cmd.op = "show" -> [c EXCEPT !.name = name, !.ref = registry.entries[name]]
                     [] c.cmd.op = "providers" -> [c EXCEPT !.name = name]
                     [] OTHER -> [c EXCEPT !.name = name, !.todo = <<w>>]
  OBVIOUS
<1>7. IF refusal # None THEN Leave(s, ExitCode(refusal))
      ELSE session' = [session EXCEPT ![s] = Onward(e)]
  <2>2. IF refusal # None THEN Leave(s, ExitCode(refusal))
        ELSE session' = [session EXCEPT ![s] = Onward(
          CASE c.cmd.op = "show" -> [a EXCEPT !.ref = registry.entries[name]]
            [] c.cmd.op = "providers" -> a
            [] OTHER -> [a EXCEPT !.todo = <<w>>])]
    BY <1>1, <1>2, <1>3, <1>4, <1>5 DEF ReadRegistry
  <2>3. /\ [a EXCEPT !.ref = registry.entries[name]]
              = [c EXCEPT !.name = name, !.ref = registry.entries[name]]
        /\ [a EXCEPT !.todo = <<w>>] = [c EXCEPT !.name = name, !.todo = <<w>>]
    BY <1>2, <1>5 DEF IsSession, Total, Fields
  <2>4. QED
    BY <1>5, <1>6, <2>2, <2>3
<1>8. CASE refusal # None
  BY <1>1, <1>2, <1>7, <1>8, LeaveIsQuiet
<1>9. CASE refusal = None
  <2>1. registry.state # "torn"
    BY <1>4, <1>9, CommandsAssumption DEF RegistryRefusal
  <2>2. /\ IsSession(e) /\ e.cmd = c.cmd /\ e.name = name
        /\ e.at = c.at /\ e.over = c.over /\ e.failed = c.failed
        /\ e.open = c.open /\ e.marks = c.marks
        /\ e.calls = c.calls /\ e.first = c.first
        /\ c.cmd.op \in {"register", "remove"} => e.todo = <<w>> /\ e.ref = c.ref
        /\ c.cmd.op \in {"show", "providers"} => e.todo = <<>>
    <3>1. CASE c.cmd.op = "show"
      BY <1>2, <1>6, <3>1 DEF IsSession, Total, Fields
    <3>2. CASE c.cmd.op = "providers"
      BY <1>2, <1>6, <3>2 DEF IsSession, Total, Fields
    <3>3. CASE c.cmd.op \notin {"show", "providers"}
      <4>1. e = [c EXCEPT !.name = name, !.todo = <<w>>]
        BY <1>6, <3>3
      <4>2. QED
        BY <1>2, <3>3, <4>1 DEF IsSession, Total, Fields
    <3>4. QED
      BY <3>1, <3>2, <3>3
  <2>3. StageOf(e) = "registry" /\ Placed(e) /\ Silent(e) /\ WellFormed(e.cmd)
    BY <1>2, <2>2 DEF StageOf, Placed, Silent
  <2>4. c.cmd.op \in {"register", "remove", "show", "providers"}
    <3>1. StageOK(c.cmd.op, Route(c.cmd.op), c.at)
      BY <1>2, StageOrder DEF WellFormed, RouteOK, Placed
    <3>2. QED
      BY <1>2, <3>1 DEF StageOK, StageOf
  <2>5. CASE c.cmd.op \in {"register", "remove"}
    <3>1. PICK ws : ws = <<w>>
      OBVIOUS
    <3>2. ws \in Seq(Range(ws)) /\ ws # <<>> /\ Len(ws) = 1 /\ ws[1] = w
      BY <3>1 DEF Range
    <3>3. Proper(c.cmd.op, ws)
      BY <1>5, <2>5, <3>2 DEF Proper
    <3>4. Recorded(e)
      <4>1. a.cmd = e.cmd /\ a.name = e.name /\ a.ref = e.ref
        BY <1>2, <1>5, <2>2, <2>5 DEF IsSession, Total, Fields
      <4>2. Updated(registry.entries, a) = Updated(registry.entries, e)
        BY <4>1 DEF Updated
      <4>3. e.todo[1].text = Whole(Updated(registry.entries, e))
        BY <1>5, <2>2, <2>5, <4>2
      <4>4. QED
        BY <2>1, <4>3 DEF Recorded
    <3>5. Ready(e)
      BY <2>2, <2>3, <2>5, <3>1, <3>3, <3>4 DEF Ready, Prepares
    <3>6. QED
      BY <1>1, <1>2, <1>7, <1>9, <2>2, <2>3, <3>5, GoingOnIsQuiet
  <2>6. CASE c.cmd.op \in {"show", "providers"}
    <3>1. Ready(e)
      BY <2>2, <2>3, <2>6 DEF Ready, Prepares
    <3>2. QED
      BY <1>1, <1>2, <1>7, <1>9, <2>2, <2>3, <3>1, GoingOnIsQuiet
  <2>7. QED
    BY <2>4, <2>5, <2>6
<1>10. QED
  BY <1>8, <1>9

\* One more call of a plan that is not over.
LEMMA OneMoreCall ==
  ASSUME NEW c, CallsOK(c), ~PlanIsOver(c), c.cmd.args \in Seq(Range(c.cmd.args)),
         NEW code \in {0, 3, 4, 5}, NEW call, call.code = code,
         call.method = c.cmd.args[Len(c.calls) + 1],
         NEW d, d.cmd = c.cmd, d.calls = Append(c.calls, call),
         d.first = IF c.first = None /\ code # 0 THEN code ELSE c.first
  PROVE  CallsOK(d)
<1>1. PICK calls, args, n : calls = c.calls /\ args = c.cmd.args /\ n = Len(c.calls)
  OBVIOUS
<1>2. /\ n \in Nat /\ DOMAIN calls = 1 .. n /\ Len(args) \in Nat /\ n < Len(args)
      /\ calls \in Seq(Range(calls))
  BY <1>1 DEF CallsOK, PlanIsOver
<1>3. PICK more : more = Append(calls, call)
  OBVIOUS
<1>4. /\ DOMAIN more = 1 .. n + 1 /\ Len(more) = n + 1 /\ more[n + 1] = call
      /\ \A i \in 1 .. n : more[i] = calls[i]
  <2>1. PICK R : R = Range(calls) \cup {call}
    OBVIOUS
  <2>2. calls \in Seq(R) /\ call \in R
    BY <1>2, <2>1
  <2>3. QED
    BY <1>1, <1>2, <1>3, <2>2
<1>5. more \in Seq(Range(more))
  <2>1. \A i \in 1 .. n + 1 : more[i] \in Range(more)
    BY <1>4 DEF Range
  <2>2. more = [i \in 1 .. n + 1 |-> more[i]]
    <3>1. PICK R : R = Range(calls) \cup {call}
      OBVIOUS
    <3>2. calls \in Seq(R) /\ call \in R
      BY <1>2, <3>1
    <3>3. more \in Seq(R)
      BY <1>3, <3>2
    <3>4. QED
      BY <1>4, <3>3
  <2>3. more \in [1 .. n + 1 -> Range(more)]
    BY <2>1, <2>2
  <2>4. n + 1 \in Nat
    BY <1>2
  <2>5. QED
    BY <2>3, <2>4
<1>6. \A i \in 1 .. n + 1 : more[i].method = args[i]
  <2>1. \A i \in 1 .. n : calls[i].method = args[i]
    BY <1>1, <1>2 DEF CallsOK
  <2>2. \A i \in 1 .. n + 1 : i \in 1 .. n \/ i = n + 1
    BY <1>2
  <2>3. QED
    BY <1>1, <1>4, <2>1, <2>2
<1>7. FirstIs(more, d.first)
  <2>1. FirstIs(calls, c.first)
    BY <1>1 DEF CallsOK
  <2>2. \A i \in 1 .. n + 1 : i \in 1 .. n \/ i = n + 1
    BY <1>2
  <2>3. CASE c.first = None
    <3>1. \A i \in 1 .. n : calls[i].code = 0
      BY <1>2, <2>1, <2>3 DEF FirstIs
    <3>2. CASE code = 0
      BY <1>4, <2>2, <2>3, <3>1, <3>2 DEF FirstIs
    <3>3. CASE code # 0
      <4>1. d.first = code /\ code # None
        BY <2>3, <3>3, CommandsAssumption
      <4>2. n + 1 \in DOMAIN more /\ more[n + 1].code = code
        BY <1>2, <1>4
      <4>3. \A j \in DOMAIN more : j < n + 1 => more[j].code = 0
        BY <1>2, <1>4, <3>1
      <4>4. QED
        BY <3>3, <4>1, <4>2, <4>3 DEF FirstIs
    <3>4. QED
      BY <3>2, <3>3
  <2>4. CASE c.first # None
    <3>1. PICK i \in 1 .. n : /\ calls[i].code = c.first /\ c.first # 0
                              /\ \A j \in 1 .. n : j < i => calls[j].code = 0
      BY <1>2, <2>1, <2>4 DEF FirstIs
    <3>2. i \in DOMAIN more /\ more[i].code = c.first
      BY <1>2, <1>4, <3>1
    <3>3. \A j \in DOMAIN more : j < i => more[j].code = 0
      BY <1>2, <1>4, <3>1
    <3>4. QED
      BY <2>4, <3>1, <3>2, <3>3 DEF FirstIs
  <2>5. QED
    BY <2>3, <2>4
<1>8. \A i \in DOMAIN more : more[i].code # 0 /\ args[1] \notin Teardown => i = n + 1
  <2>1. args[1] \notin Teardown => c.first = None
    BY <1>1 DEF PlanIsOver
  <2>2. c.first = None => \A i \in 1 .. n : calls[i].code = 0
    BY <1>1, <1>2 DEF CallsOK, FirstIs
  <2>3. \A i \in 1 .. n + 1 : i \in 1 .. n \/ i = n + 1
    BY <1>2
  <2>4. QED
    BY <1>4, <2>1, <2>2, <2>3
<1>9. d.calls = more /\ d.cmd.args = args
  BY <1>1, <1>3
<1>10. Len(d.calls) <= Len(d.cmd.args) /\ DOMAIN d.calls = 1 .. n + 1 /\ Len(d.calls) = n + 1
  BY <1>2, <1>4, <1>9
<1>11. QED
  BY <1>5, <1>6, <1>7, <1>8, <1>9, <1>10 DEF CallsOK

LEMMA InvokeIsQuiet ==
  ASSUME NEW s, Good(session[s]), Invoke(s)
  PROVE  QuietStep(s)
<1>1. PICK c : c = session[s]
  OBVIOUS
<1>2. /\ c.at # 0 /\ c.over # TRUE /\ StageOf(c) = "methods"
  <2>1. c.at > 0 /\ ~c.over /\ Stage(s) = "methods"
    BY <1>1 DEF Invoke, At, Active
  <2>2. ~(0 > 0)
    OBVIOUS
  <2>3. c.at # 0
    BY ONLY <2>1, <2>2
  <2>4. c.over # TRUE
    BY ONLY <2>1
  <2>5. QED
    BY <1>1, <2>1, <2>3, <2>4 DEF Stage, Op, StageOf
<1>3. Reading(c)
  BY <1>1, <1>2 DEF Good, SessionOK, Unstarted, Writing, Finished
<1>4. /\ Unmarked(c) /\ Placed(c) /\ IsSession(c) /\ WellFormed(c.cmd) /\ c.todo = <<>>
      /\ c.at = Len(Route(c.cmd.op)) /\ c.cmd.op = "env"
  BY <1>2, <1>3, WriteStage DEF Reading, Unmarked
<1>5. /\ CallsOK(c) /\ ~PlanIsOver(c) /\ Driven(c.ref)
      /\ c.cmd.args \in Seq(Range(c.cmd.args))
  BY <1>1, <1>2, <1>4 DEF Good, CallInv, Drives, WellFormed
<1>6. PICK code \in Codes(session[s].ref) :
        LET methods == session[s].cmd.args
            d == [session[s] EXCEPT
                    !.calls = Append(@, [method |-> methods[Len(@) + 1], code |-> code]),
                    !.first = IF @ = None /\ code # 0 THEN code ELSE @]
        IN  session' = [session EXCEPT ![s] =
              IF ~PlanIsOver(d) THEN d
              ELSE IF d.first = None THEN Onward(d)
              ELSE [d EXCEPT !.over = TRUE, !.exit = d.first]]
  BY DEF Invoke
<1>16. code \in {0, 3, 4, 5}
  BY DEF Codes
<1>7. PICK call : call = [method |-> c.cmd.args[Len(c.calls) + 1], code |-> code]
  OBVIOUS
<1>8. PICK d : d = [c EXCEPT !.calls = Append(c.calls, call),
                             !.first = IF c.first = None /\ code # 0 THEN code ELSE c.first]
  OBVIOUS
<1>9. session' = [session EXCEPT ![s] =
        IF ~PlanIsOver(d) THEN d
        ELSE IF d.first = None THEN Onward(d)
        ELSE [d EXCEPT !.over = TRUE, !.exit = d.first]]
  BY <1>1, <1>6, <1>7, <1>8
<1>10. /\ IsSession(d) /\ d.cmd = c.cmd /\ d.at = c.at /\ d.over = FALSE
       /\ d.failed = FALSE /\ d.open = FALSE /\ d.marks = {} /\ d.todo = <<>>
       /\ d.ref = c.ref /\ d.calls = Append(c.calls, call)
       /\ d.first = IF c.first = None /\ code # 0 THEN code ELSE c.first
  BY <1>4, <1>8 DEF IsSession, Total, Fields, Unmarked
<1>11. CallsOK(d)
  <2>1. call.code = code /\ call.method = c.cmd.args[Len(c.calls) + 1]
    BY <1>7
  <2>2. QED
    BY ONLY <1>5, <1>10, <1>16, <2>1, OneMoreCall
<1>12. Unmarked(d) /\ Placed(d) /\ StageOf(d) = "methods" /\ WellFormed(d.cmd)
  BY <1>2, <1>4, <1>10 DEF Unmarked, Placed, StageOf
<1>13. CASE ~PlanIsOver(d)
  <2>1. Reading(d) /\ CallInv(d)
    BY <1>2, <1>10, <1>11, <1>12, <1>13 DEF Reading, CallInv
  <2>2. Quiet(c, d)
    BY <1>2, <1>5, <1>10, <1>12, <2>1 DEF Quiet, SessionOK
  <2>3. QED
    BY <1>1, <1>4, <1>9, <1>13, <2>2 DEF QuietStep
<1>14. CASE PlanIsOver(d)
  <2>1. PICK e : e = IF d.first = None THEN Onward(d)
                     ELSE [d EXCEPT !.over = TRUE, !.exit = d.first]
    OBVIOUS
  <2>2. session' = [session EXCEPT ![s] = e]
    BY <1>9, <1>14, <2>1
  <2>3. /\ IsSession(e) /\ e.over = TRUE
        /\ e.exit = IF d.first = None THEN 0 ELSE d.first
        /\ \A f \in Fields \ {"at", "over", "exit"} : e[f] = d[f]
        /\ e.at = d.at
    <3>1. CASE d.first = None
      <4>1. e = Onward(d) /\ d.at = Len(Route(d.cmd.op))
        BY <1>4, <1>10, <2>1, <3>1
      <4>2. QED
        BY <1>10, <1>12, <3>1, <4>1, OnwardSteps
    <3>2. CASE d.first # None
      BY <1>10, <2>1, <3>2 DEF IsSession, Total, Fields
    <3>3. QED
      BY <3>1, <3>2
  <2>4. /\ e.cmd = d.cmd /\ e.ref = d.ref /\ e.calls = d.calls /\ e.first = d.first
        /\ e.open = FALSE /\ e.marks = {} /\ e.failed = FALSE
    BY <1>10, <2>3 DEF Fields
  <2>5. CallsOK(e) /\ PlanIsOver(e)
    BY <1>11, <1>14, <2>4 DEF CallsOK, PlanIsOver
  <2>6. CallInv(e) /\ Finished(e)
    BY <2>3, <2>4, <2>5 DEF CallInv, Finished
  <2>7. Quiet(c, e)
    BY <1>2, <1>5, <1>10, <2>3, <2>4, <2>6 DEF Quiet, SessionOK
  <2>8. QED
    BY <1>1, <1>4, <2>2, <2>7 DEF QuietStep
<1>15. QED
  BY <1>13, <1>14

-----------------------------------------------------------------------------
(* The operations that write.                                              *)

LEMMA AtWrite ==
  ASSUME NEW s, Good(session[s]), At(s, "write")
  PROVE  /\ Writing(session[s]) /\ Silent(session[s])
         /\ IsSession(session[s]) /\ WellFormed(session[s].cmd) /\ Placed(session[s])
         /\ StageOf(session[s]) = "write" /\ session[s].at # 0
         /\ session[s].at = Len(Route(session[s].cmd.op))
         /\ session[s].cmd.op \in {"fmt", "init", "register", "remove"}
         /\ session[s].over = FALSE /\ session[s].failed = FALSE
         /\ session[s].open \in BOOLEAN
<1>1. session[s].at # 0 /\ session[s].over # TRUE /\ StageOf(session[s]) = "write"
  <2>1. session[s].at > 0 /\ ~session[s].over /\ Stage(s) = "write"
    BY DEF At, Active
  <2>2. ~(0 > 0)
    OBVIOUS
  <2>3. session[s].at # 0
    BY ONLY <2>1, <2>2
  <2>4. session[s].over # TRUE
    BY ONLY <2>1
  <2>5. QED
    BY <2>1, <2>3, <2>4 DEF Stage, Op, StageOf
<1>2. Writing(session[s])
  BY <1>1 DEF Good, SessionOK, Unstarted, Reading, Finished
<1>3. Silent(session[s])
  BY <1>1 DEF Good, CallInv
<1>4. QED
  BY <1>1, <1>2, <1>3, WriteStage DEF Writing

\* The first of the writes that are left goes to a file of the project, or to
\* the registry.
LEMMA FirstWrite ==
  ASSUME NEW op \in {"fmt", "init", "register", "remove"}, NEW ws, Proper(op, ws)
  PROVE  /\ op \in {"fmt", "init"} =>
              Writable(ws[1]) /\ ws[1].file \in Refs /\ ws[1].file # Registry
         /\ op \in {"register", "remove"} => ws[1].file = Registry
<1>1. ws[1] \in Range(ws)
  BY DEF Proper
<1>2. QED
  BY <1>1, CommandsAssumption DEF Proper, Writable

TruncateStep(s) ==
  \E d, w :
    /\ session' = [session EXCEPT ![s] = d]
    /\ w = Left(session[s])[1]
    /\ session[s].open = FALSE
    /\ SessionOK(d) /\ Silent(d) /\ StageOf(d) = "write"
    /\ d.cmd = session[s].cmd /\ d.at = session[s].at /\ d.over = FALSE
    /\ d.failed = FALSE /\ d.open = TRUE
    /\ d.todo = Left(session[s]) /\ d.name = session[s].name /\ d.ref = session[s].ref
    /\ d.marks = session[s].marks \cup {w.file}
    /\ Put(w.file, IF w.file = Registry THEN Torn
                   ELSE Emptied(w.text))

LEMMA TruncateMarks ==
  ASSUME NEW s, Good(session[s]), Truncate(s)
  PROVE  TruncateStep(s)
<1>1. PICK c : c = session[s]
  OBVIOUS
<1>2. /\ Writing(c) /\ Silent(c) /\ IsSession(c) /\ WellFormed(c.cmd) /\ Placed(c)
      /\ StageOf(c) = "write" /\ c.over = FALSE /\ c.failed = FALSE /\ c.open = FALSE
  BY <1>1, AtWrite DEF Truncate
<1>3. PICK ws, w : ws = Left(c) /\ w = Left(c)[1]
  OBVIOUS
<1>4. Writes(s) = ws
  BY <1>1, <1>2, <1>3 DEF Writes, Left, Op
<1>5. PICK d : d = [c EXCEPT !.open = TRUE, !.todo = ws, !.marks = c.marks \cup {w.file}]
  OBVIOUS
<1>6. /\ session' = [session EXCEPT ![s] = d]
      /\ Put(w.file, IF w.file = Registry THEN Torn
                     ELSE Emptied(w.text))
  <2>1. LET v == Writes(s)[1]
        IN  Put(v.file, IF v.file = Registry THEN Torn
                        ELSE Emptied(v.text))
    BY DEF Truncate
  <2>6. session' = [session EXCEPT ![s] =
          [session[s] EXCEPT !.open = TRUE, !.todo = Writes(s),
                             !.marks = session[s].marks \cup {Writes(s)[1].file}]]
    BY DEF Truncate
  <2>2. Writes(s)[1] = w
    BY <1>3, <1>4
  <2>3. session' = [session EXCEPT ![s] = d]
    BY ONLY <1>1, <1>4, <1>5, <2>2, <2>6
  <2>4. Put(w.file, IF w.file = Registry THEN Torn
                    ELSE Emptied(w.text))
    BY ONLY <2>1, <2>2, Zenon
  <2>5. QED
    BY <2>3, <2>4
<1>7. /\ IsSession(d) /\ d.cmd = c.cmd /\ d.at = c.at /\ d.over = FALSE
      /\ d.failed = FALSE /\ d.open = TRUE /\ d.todo = ws
      /\ d.name = c.name /\ d.ref = c.ref
      /\ d.marks = c.marks \cup {w.file} /\ d.calls = c.calls /\ d.first = c.first
  BY <1>2, <1>5 DEF IsSession, Total, Fields
<1>8. Placed(d) /\ StageOf(d) = "write" /\ Silent(d) /\ Left(d) = ws
  BY <1>2, <1>7 DEF Placed, StageOf, Silent, Left
<1>9. Proper(d.cmd.op, ws)
  BY <1>2, <1>3, <1>7 DEF Writing
<1>10. Writing(d)
  BY <1>2, <1>3, <1>7, <1>8, <1>9 DEF Writing
<1>11. QED
  BY <1>1, <1>2, <1>3, <1>6, <1>7, <1>8, <1>10 DEF TruncateStep, SessionOK

FillStep(s) ==
  \E d, w, text :
    /\ session' = [session EXCEPT ![s] = d]
    /\ w = session[s].todo[1] /\ w = Left(session[s])[1]
    /\ session[s].open = TRUE
    /\ SessionOK(d) /\ d.calls = <<>> /\ d.first = None
    /\ StageOf(d) = "write" /\ d.at = session[s].at
    /\ d.cmd = session[s].cmd /\ d.failed = FALSE /\ d.open = FALSE
    /\ d.marks = session[s].marks
    /\ session[s].cmd.op \in {"register", "remove"} => d.over = TRUE
    /\ Put(w.file, text) /\ text \in Outcomes(w)

LEMMA FillWrites ==
  ASSUME NEW s, Good(session[s]), Fill(s)
  PROVE  FillStep(s)
<1>1. PICK c : c = session[s]
  OBVIOUS
<1>2. /\ Writing(c) /\ Silent(c) /\ IsSession(c) /\ WellFormed(c.cmd) /\ Placed(c)
      /\ StageOf(c) = "write" /\ c.over = FALSE /\ c.failed = FALSE /\ c.open = TRUE
      /\ c.at = Len(Route(c.cmd.op))
      /\ c.cmd.op \in {"fmt", "init", "register", "remove"}
  BY <1>1, AtWrite DEF Fill
<1>3. PICK ws, w, rest : ws = c.todo /\ w = c.todo[1] /\ rest = Tail(c.todo)
  OBVIOUS
<1>4. /\ Left(c) = ws /\ Proper(c.cmd.op, ws) /\ w.file \in c.marks
  BY <1>2, <1>3 DEF Writing, Left
<1>5. PICK e : e = [c EXCEPT !.open = FALSE, !.todo = rest]
  OBVIOUS
<1>6. PICK text :
        /\ session' = [session EXCEPT ![s] = IF e.todo = <<>> THEN Onward(e) ELSE e]
        /\ Put(w.file, text) /\ text \in Outcomes(w)
  BY <1>1, <1>3, <1>5 DEF Fill
<1>7. /\ IsSession(e) /\ e.cmd = c.cmd /\ e.at = c.at /\ e.over = FALSE
      /\ e.failed = FALSE /\ e.open = FALSE /\ e.todo = rest
      /\ e.marks = c.marks /\ e.calls = <<>> /\ e.first = None
  BY <1>2, <1>5 DEF IsSession, Total, Fields, Silent
<1>8. Placed(e) /\ StageOf(e) = "write" /\ WellFormed(e.cmd)
  BY <1>2, <1>7 DEF Placed, StageOf
<1>9. c.cmd.op \in {"register", "remove"} => rest = <<>>
  BY <1>3, <1>4 DEF Proper
<1>10. CASE rest = <<>>
  <2>1. PICK d : d = Onward(e)
    OBVIOUS
  <2>2. /\ IsSession(d) /\ d.over = TRUE /\ d.exit = 0 /\ d.at = e.at
        /\ \A f \in Fields \ {"at", "over", "exit"} : d[f] = e[f]
    BY <1>2, <1>7, <1>8, <2>1, OnwardSteps
  <2>3. /\ d.cmd = c.cmd /\ d.failed = FALSE /\ d.open = FALSE
        /\ d.marks = c.marks /\ d.calls = <<>> /\ d.first = None
    BY <1>7, <2>2 DEF Fields
  <2>4. SessionOK(d) /\ StageOf(d) = "write"
    BY <1>7, <1>8, <2>2, <2>3 DEF SessionOK, Finished, StageOf
  <2>5. session' = [session EXCEPT ![s] = d]
    BY <1>6, <1>7, <1>10, <2>1
  <2>6. QED
    BY <1>1, <1>2, <1>3, <1>4, <1>6, <1>7, <2>2, <2>3, <2>4, <2>5 DEF FillStep
<1>11. CASE rest # <<>>
  <2>1. e.cmd.op \in {"fmt", "init"}
    BY <1>2, <1>7, <1>9, <1>11
  <2>2. Left(e) = rest
    BY <1>4, <1>7 DEF Left
  <2>3. Proper(e.cmd.op, rest)
    <3>1. ws \in Seq(Range(ws)) /\ ws # <<>> /\ \A x \in Range(ws) : Writable(x)
      BY <1>4, <1>7, <2>1 DEF Proper
    <3>2. rest \in Seq(Range(ws)) /\ Len(rest) = Len(ws) - 1 /\ Len(ws) \in Nat
          /\ \A i \in 1 .. Len(rest) : rest[i] = ws[i + 1]
      <4>1. PICK R : R = Range(ws)
        OBVIOUS
      <4>2. ws \in Seq(R) /\ ws # <<>> /\ rest = Tail(ws)
        BY <1>3, <3>1, <4>1
      <4>3. QED
        BY ONLY <4>1, <4>2
    <3>3. Range(rest) \subseteq Range(ws)
      BY <3>2 DEF Range
    <3>4. rest \in Seq(Range(rest))
      <4>1. rest \in [1 .. Len(rest) -> Range(rest)]
        BY <3>2 DEF Range
      <4>2. Len(rest) \in Nat
        BY <3>2
      <4>3. QED
        BY <4>1, <4>2
    <3>5. QED
      BY <1>11, <2>1, <3>1, <3>3, <3>4 DEF Proper
  <2>4. Writing(e)
    BY <1>7, <1>8, <2>2, <2>3 DEF Writing
  <2>5. session' = [session EXCEPT ![s] = e]
    BY <1>6, <1>7, <1>11
  <2>6. QED
    BY <1>1, <1>2, <1>3, <1>4, <1>6, <1>7, <1>8, <2>1, <2>4, <2>5 DEF FillStep, SessionOK
<1>12. QED
  BY <1>10, <1>11

FailStep(s) ==
  \E d :
    /\ session' = [session EXCEPT ![s] = d]
    /\ SessionOK(d) /\ d.calls = <<>> /\ d.over = TRUE /\ d.failed = TRUE
    /\ d.marks = session[s].marks /\ d.at = session[s].at

LEMMA FaultEnds ==
  ASSUME NEW s, Good(session[s]), WriteFails(s) \/ Killed(s)
  PROVE  FailStep(s)
<1>1. PICK c : c = session[s]
  OBVIOUS
<1>2. IsSession(c) /\ Silent(c) /\ c.open \in BOOLEAN
  BY <1>1, AtWrite DEF WriteFails, Killed
<1>3. PICK d : /\ session' = [session EXCEPT ![s] = d]
               /\ \/ d = [c EXCEPT !.over = TRUE, !.exit = 4, !.failed = TRUE]
                  \/ d = [c EXCEPT !.over = TRUE, !.failed = TRUE]
  BY <1>1 DEF WriteFails, Killed
<1>4. /\ IsSession(d) /\ d.over = TRUE /\ d.failed = TRUE /\ d.open = c.open
      /\ d.marks = c.marks /\ d.calls = <<>> /\ d.at = c.at
  BY <1>2, <1>3 DEF IsSession, Total, Fields, Silent
<1>5. Finished(d)
  BY <1>2, <1>4 DEF Finished
<1>6. QED
  BY <1>1, <1>3, <1>4, <1>5 DEF FailStep, SessionOK

-----------------------------------------------------------------------------
(* What all steps keep.                                                    *)

SessInv == Total(session, Shells) /\ \A s \in Shells : Good(session[s])

\* A file that lies empty is in the hands of a shell that is about to fill it,
\* or of one that failed.
Holds(c, r) == r \in c.marks /\ (c.failed = TRUE \/ (c.open = TRUE /\ c.todo[1].file = r))

DiskInv ==
  /\ Total(disk, Refs) /\ Shaped
  /\ \A r \in Refs : Present(r) /\ disk[r].shape = "empty" =>
       \E s \in Shells : Holds(session[s], r)

\* Two registries agree but on the names `but`.
Agree(f, g, but) ==
  \A n : n \notin but =>
    /\ n \in DOMAIN f <=> n \in DOMAIN g
    /\ n \in DOMAIN f => f[n] = g[n]

\* What a shell that has read the registry has in hand is what the ledger
\* becomes, but for what was lost before it read and what it has missed since.
InHand(c, but) ==
  \E entries :
    /\ c.todo[1].text = Whole(entries)
    /\ Agree(entries, Updated(ledger, c), but \ {c.name})

Holding(c) ==
  c.at # 0 /\ c.over = FALSE /\ StageOf(c) = "write" /\ c.cmd.op \in {"register", "remove"}

RegistryInv ==
  /\ Total(missed, Shells)
  /\ registry.state # "torn" => Agree(registry.entries, ledger, lost)
  /\ \A s \in Shells :
       Holding(session[s]) => InHand(session[s], lost \cup missed[s])

Inv == SessInv /\ DiskInv /\ RegistryInv

\* The operations that leave every file as it is.
Reads(s) ==
  \/ Begin(s) \/ Resolve(s) \/ Settle(s) \/ Single(s) \/ Judged(s) \/ LoadManifest(s)
  \/ Invoke(s) \/ ValidateNext(s) \/ Format(s) \/ ReadRegistry(s)

LEMMA ReadsAreQuiet ==
  ASSUME SessInv, DiskInv, NEW s \in Shells, Reads(s)
  PROVE  /\ QuietStep(s)
         /\ UNCHANGED <<disk, phase, flow, registry, ledger, lost>>
         /\ missed' = missed \/ missed' = [missed EXCEPT ![s] = {}]
<1>1. Good(session[s]) /\ Shaped
  BY DEF SessInv, DiskInv
<1>2. CASE Begin(s)
  BY <1>1, <1>2, BeginIsQuiet DEF Begin, preVars, history
<1>3. CASE Resolve(s)
  BY <1>1, <1>3, ResolveIsQuiet DEF Resolve, history
<1>4. CASE Settle(s)
  BY <1>1, <1>4, SettleIsQuiet DEF Settle, preVars, history
<1>5. CASE Single(s)
  BY <1>1, <1>5, SingleIsQuiet DEF Single, preVars, history
<1>6. CASE Judged(s)
  BY <1>1, <1>6, JudgedIsQuiet DEF Judged, preVars, history
<1>7. CASE LoadManifest(s)
  BY <1>1, <1>7, LoadManifestIsQuiet DEF LoadManifest, preVars, history
<1>8. CASE Invoke(s)
  BY <1>1, <1>8, InvokeIsQuiet DEF Invoke, preVars, history
<1>9. CASE ValidateNext(s)
  BY <1>1, <1>9, ValidateNextIsQuiet DEF ValidateNext, preVars, history
<1>10. CASE Format(s)
  BY <1>1, <1>10, FormatIsQuiet DEF Format, preVars, history
<1>11. CASE ReadRegistry(s)
  BY <1>1, <1>11, ReadRegistryIsQuiet DEF ReadRegistry, preVars
<1>12. QED
  BY <1>2, <1>3, <1>4, <1>5, <1>6, <1>7, <1>8, <1>9, <1>10, <1>11 DEF Reads

LEMMA Frame ==
  ASSUME Total(session, Shells), NEW s \in Shells, NEW d,
         session' = [session EXCEPT ![s] = d]
  PROVE  /\ Total(session', Shells) /\ session'[s] = d
         /\ \A t \in Shells \ {s} : session'[t] = session[t]
BY DEF Total

-----------------------------------------------------------------------------
(* Sessions.                                                               *)

\* The flow that was accepted stays what it is.
LEMMA PreflightStands ==
  ASSUME PreflightRuns \/ Editor
  PROVE  /\ UNCHANGED <<registry, session, history>>
         /\ phase = "accepted" => UNCHANGED <<phase, flow>>
BY DEF PreflightRuns, Editor, PreflightStep, Load, Assemble, Chase, Check, Edit, cmdVars

LEMMA SessInvStep ==
  ASSUME SessInv, DiskInv, [Next]_vars
  PROVE  SessInv'
<1> USE DEF SessInv
<1>1. ASSUME UNCHANGED session, phase = "accepted" => UNCHANGED <<phase, flow>>
      PROVE  SessInv'
  <2>1. \A s \in Shells : /\ SessionOK(session[s]) /\ CallInv(session[s])
                          /\ Drives(session[s]) => Driven(session[s].ref)'
    BY <1>1 DEF Good, Driven, ProviderRefusal
  <2>2. QED
    BY <1>1, <2>1 DEF Good
<1>2. ASSUME UNCHANGED <<phase, flow>>, NEW s \in Shells, NEW d,
             session' = [session EXCEPT ![s] = d],
             SessionOK(d), CallInv(d), Drives(d) => Driven(d.ref)
      PROVE  SessInv'
  <2>1. /\ Total(session', Shells) /\ session'[s] = d
        /\ \A t \in Shells \ {s} : session'[t] = session[t]
    BY <1>2, Frame
  <2>2. \A r : Driven(r) => Driven(r)'
    BY <1>2 DEF Driven, ProviderRefusal
  <2>3. \A t \in Shells : /\ SessionOK(session'[t]) /\ CallInv(session'[t])
                          /\ Drives(session'[t]) => Driven(session'[t].ref)
    BY <1>2, <2>1 DEF Good
  <2>4. QED
    BY <2>1, <2>2, <2>3 DEF Good
<1>3. CASE PreflightRuns \/ Editor
  BY <1>1, <1>3, PreflightStands
<1>4. ASSUME NEW s \in Shells, Reads(s) PROVE SessInv'
  <2>1. QuietStep(s) /\ UNCHANGED <<phase, flow>>
    BY <1>4, ReadsAreQuiet
  <2>2. PICK d : Quiet(session[s], d) /\ session' = [session EXCEPT ![s] = d]
    BY <2>1 DEF QuietStep
  <2>3. QED
    BY <1>2, <2>1, <2>2 DEF Quiet
<1>5. ASSUME NEW s \in Shells, Truncate(s) PROVE SessInv'
  <2>1. TruncateStep(s) /\ UNCHANGED <<phase, flow>>
    BY <1>5, TruncateMarks DEF Truncate
  <2>2. PICK d : /\ session' = [session EXCEPT ![s] = d]
                 /\ SessionOK(d) /\ Silent(d) /\ StageOf(d) = "write" /\ d.over = FALSE
    BY <2>1 DEF TruncateStep
  <2>3. CallInv(d) /\ ~Drives(d)
    BY <2>2 DEF CallInv, Drives
  <2>4. QED
    BY <1>2, <2>1, <2>2, <2>3
<1>6. ASSUME NEW s \in Shells, Fill(s) PROVE SessInv'
  <2>1. FillStep(s) /\ UNCHANGED <<phase, flow>>
    BY <1>6, FillWrites DEF Fill
  <2>2. PICK d : /\ session' = [session EXCEPT ![s] = d] /\ SessionOK(d)
                 /\ d.calls = <<>> /\ d.first = None /\ StageOf(d) = "write"
    BY <2>1 DEF FillStep
  <2>3. CallInv(d) /\ ~Drives(d)
    BY <2>2 DEF CallInv, Drives, Silent
  <2>4. QED
    BY <1>2, <2>1, <2>2, <2>3
<1>7. ASSUME NEW s \in Shells, WriteFails(s) \/ Killed(s) PROVE SessInv'
  <2>1. FailStep(s) /\ UNCHANGED <<phase, flow>>
    BY <1>7, FaultEnds DEF WriteFails, Killed, preVars
  <2>2. PICK d : /\ session' = [session EXCEPT ![s] = d] /\ SessionOK(d)
                 /\ d.calls = <<>> /\ d.over = TRUE
    BY <2>1 DEF FailStep
  <2>3. CallInv(d) /\ ~Drives(d)
    BY <2>2 DEF CallInv, Drives
  <2>4. QED
    BY <1>2, <2>1, <2>2, <2>3
<1>8. CASE UNCHANGED vars
  BY <1>1, <1>8 DEF vars, preVars, cmdVars
<1>9. QED
  BY <1>3, <1>4, <1>5, <1>6, <1>7, <1>8 DEF Next, Reads

-----------------------------------------------------------------------------
(* Files.                                                                  *)

\* A document takes the place of a file.
LEMMA FileReplaced ==
  ASSUME DiskInv, NEW r \in Refs, NEW doc, doc = Missing \/ IsDocument(doc),
         disk' = [disk EXCEPT ![r] = doc]
  PROVE  /\ Total(disk', Refs) /\ Shaped' /\ disk'[r] = doc
         /\ \A q \in Refs \ {r} : disk'[q] = disk[q]
<1>1. /\ Total(disk', Refs) /\ disk'[r] = doc
      /\ \A q \in Refs \ {r} : disk'[q] = disk[q]
  BY DEF DiskInv, Total
<1>2. QED
  BY <1>1 DEF DiskInv, Shaped, Present

\* Who holds a file before a step holds it after, unless the step fills it.
LEMMA DiskInvStep ==
  ASSUME SessInv, DiskInv, [Next]_vars
  PROVE  DiskInv'
<1>1. ASSUME UNCHANGED <<disk, session>> PROVE DiskInv'
  BY <1>1 DEF DiskInv, Shaped, Present
<1>2. ASSUME UNCHANGED disk, NEW s \in Shells, NEW d,
             session' = [session EXCEPT ![s] = d],
             \A r \in Refs : Holds(session[s], r) => Holds(d, r)
      PROVE  DiskInv'
  <2>1. /\ session'[s] = d
        /\ \A t \in Shells \ {s} : session'[t] = session[t]
    BY <1>2, Frame DEF SessInv
  <2>2. Total(disk', Refs) /\ Shaped'
    BY <1>2 DEF DiskInv, Shaped, Present
  <2>3. ASSUME NEW r \in Refs, Present(r)', disk'[r].shape = "empty"
        PROVE  \E t \in Shells : Holds(session'[t], r)
    <3>1. Present(r) /\ disk[r].shape = "empty"
      BY <1>2, <2>3 DEF Present
    <3>2. PICK t \in Shells : Holds(session[t], r)
      BY <3>1 DEF DiskInv
    <3>3. Holds(session'[t], r)
      BY <1>2, <2>1, <3>2
    <3>4. QED
      BY <3>3
  <2>4. QED
    BY <2>2, <2>3 DEF DiskInv
<1>3. CASE PreflightRuns \/ UNCHANGED vars
  BY <1>1, <1>3
  DEF PreflightRuns, PreflightStep, Load, Assemble, Chase, Check, cmdVars, vars, preVars
<1>4. CASE Editor
  <2>1. UNCHANGED session
    BY <1>4 DEF Editor, cmdVars
  <2>2. PICK e \in Edits : disk' = [disk EXCEPT ![e[1]] = e[2]]
    BY <1>4 DEF Editor, Edit
  <2>3. PICK r, doc : r = e[1] /\ doc = e[2]
    OBVIOUS
  <2>4. r \in Refs /\ (doc = Missing \/ Full(doc))
    BY <2>3, SituationsAssumption
  <2>5. /\ Total(disk', Refs) /\ Shaped' /\ disk'[r] = doc
        /\ \A q \in Refs \ {r} : disk'[q] = disk[q]
    <3>1. doc = Missing \/ IsDocument(doc)
      BY <2>4 DEF Full
    <3>2. disk' = [disk EXCEPT ![r] = doc]
      BY <2>2, <2>3
    <3>3. QED
      BY <2>4, <3>1, <3>2, FileReplaced
  <2>6. ASSUME NEW q \in Refs, Present(q)', disk'[q].shape = "empty"
        PROVE  \E t \in Shells : Holds(session'[t], q)
    <3>1. q # r
      BY <2>4, <2>5, <2>6 DEF Full, Present
    <3>2. Present(q) /\ disk[q].shape = "empty"
      BY <2>5, <2>6, <3>1 DEF Present
    <3>3. QED
      BY <2>1, <3>2 DEF DiskInv
  <2>7. QED
    BY <2>5, <2>6 DEF DiskInv
<1>5. ASSUME NEW s \in Shells, Reads(s) PROVE DiskInv'
  <2>1. QuietStep(s) /\ UNCHANGED disk
    BY <1>5, ReadsAreQuiet
  <2>2. PICK d : session' = [session EXCEPT ![s] = d]
    BY <2>1 DEF QuietStep
  <2>3. \A r \in Refs : ~Holds(session[s], r)
    BY <2>1 DEF QuietStep, Unmarked, Holds
  <2>4. QED
    BY <1>2, <2>1, <2>2, <2>3
<1>6. ASSUME NEW s \in Shells, Truncate(s) PROVE DiskInv'
  <2>1. TruncateStep(s) /\ Good(session[s]) /\ At(s, "write")
    BY <1>6, TruncateMarks DEF SessInv, Truncate
  <2>2. PICK d, w, text :
          /\ session' = [session EXCEPT ![s] = d]
          /\ w = Left(session[s])[1]
          /\ session[s].open = FALSE
          /\ d.open = TRUE /\ d.todo = Left(session[s])
          /\ d.marks = session[s].marks \cup {w.file}
          /\ text = IF w.file = Registry THEN Torn
                    ELSE Emptied(w.text)
          /\ Put(w.file, text)
    BY <2>1 DEF TruncateStep
  <2>3. \A r \in Refs : ~Holds(session[s], r)
    BY <2>1, <2>2, AtWrite DEF Holds
  <2>4. PICK op : op = session[s].cmd.op
    OBVIOUS
  <2>5. /\ op \in {"fmt", "init"} => Writable(w) /\ w.file \in Refs /\ w.file # Registry
        /\ op \in {"register", "remove"} => w.file = Registry
        /\ op \in {"fmt", "init", "register", "remove"}
    <3>1. op \in {"fmt", "init", "register", "remove"} /\ Proper(op, Left(session[s]))
      BY <2>1, <2>4, AtWrite DEF Writing
    <3>2. QED
      BY <2>2, <3>1, FirstWrite
  <2>6. CASE w.file = Registry
    <3>1. UNCHANGED disk
      BY <2>2, <2>6 DEF Put
    <3>2. QED
      BY <1>2, <2>2, <2>3, <3>1
  <2>7. CASE w.file # Registry
    <3>1. /\ Writable(w) /\ w.file \in Refs /\ disk' = [disk EXCEPT ![w.file] = text]
          /\ text = Emptied(w.text)
      BY <2>2, <2>5, <2>7 DEF Put
    <3>2. IsDocument(text)
      BY <3>1, StillDocuments DEF Writable, Full
    <3>3. /\ Total(disk', Refs) /\ Shaped' /\ disk'[w.file] = text
          /\ \A q \in Refs \ {w.file} : disk'[q] = disk[q]
      BY <3>1, <3>2, FileReplaced
    <3>4. /\ session'[s] = d
          /\ \A t \in Shells \ {s} : session'[t] = session[t]
      BY <2>2, Frame DEF SessInv
    <3>5. ASSUME NEW q \in Refs, Present(q)', disk'[q].shape = "empty"
          PROVE  \E t \in Shells : Holds(session'[t], q)
      <4>1. CASE q = w.file
        <5>1. Holds(d, q)
          BY <2>2, <4>1 DEF Holds
        <5>2. QED
          BY <3>4, <5>1
      <4>2. CASE q # w.file
        <5>1. Present(q) /\ disk[q].shape = "empty"
          BY <3>3, <3>5, <4>2 DEF Present
        <5>2. PICK t \in Shells : Holds(session[t], q)
          BY <5>1 DEF DiskInv
        <5>3. t # s
          BY <2>3, <5>2
        <5>4. QED
          BY <3>4, <5>2, <5>3
      <4>3. QED
        BY <4>1, <4>2
    <3>6. QED
      BY <3>3, <3>5 DEF DiskInv
  <2>8. QED
    BY <2>6, <2>7
<1>7. ASSUME NEW s \in Shells, Fill(s) PROVE DiskInv'
  <2>1. FillStep(s) /\ Good(session[s]) /\ At(s, "write")
    BY <1>7, FillWrites DEF SessInv, Fill
  <2>2. PICK d, w, text :
          /\ session' = [session EXCEPT ![s] = d]
          /\ w = session[s].todo[1] /\ w = Left(session[s])[1]
          /\ session[s].open = TRUE
          /\ Put(w.file, text) /\ text \in Outcomes(w)
    BY <2>1 DEF FillStep
  <2>3. \A r \in Refs : Holds(session[s], r) => r = w.file
    BY <2>1, <2>2, AtWrite DEF Holds
  <2>4. PICK op : op = session[s].cmd.op
    OBVIOUS
  <2>5. /\ op \in {"fmt", "init"} => Writable(w) /\ w.file \in Refs /\ w.file # Registry
        /\ op \in {"register", "remove"} => w.file = Registry
        /\ op \in {"fmt", "init", "register", "remove"}
    <3>1. op \in {"fmt", "init", "register", "remove"} /\ Proper(op, Left(session[s]))
      BY <2>1, <2>4, AtWrite DEF Writing
    <3>2. QED
      BY <2>2, <3>1, FirstWrite
  <2>6. CASE w.file = Registry
    <3>1. UNCHANGED disk
      BY <2>2, <2>6 DEF Put
    <3>2. \A r \in Refs : ~Holds(session[s], r)
      BY <2>3, <2>6, CommandsAssumption
    <3>3. QED
      BY <1>2, <2>2, <3>1, <3>2
  <2>7. CASE w.file # Registry
    <3>1. /\ Writable(w) /\ w.file \in Refs /\ disk' = [disk EXCEPT ![w.file] = text]
      BY <2>2, <2>5, <2>7 DEF Put
    <3>2. IsDocument(text) /\ text.shape # "empty"
      <4>1. IsDocument(w.text) /\ w.text.shape # "empty"
        BY <3>1 DEF Writable, Full
      <4>2. IsDocument(Garbled(w.text)) /\ Garbled(w.text).shape # "empty"
        BY <4>1, StillDocuments
      <4>3. text = w.text \/ text = Garbled(w.text)
        BY <2>2, <2>7 DEF Outcomes
      <4>4. QED
        BY <4>1, <4>2, <4>3
    <3>3. /\ Total(disk', Refs) /\ Shaped' /\ disk'[w.file] = text
          /\ \A q \in Refs \ {w.file} : disk'[q] = disk[q]
      BY <3>1, <3>2, FileReplaced
    <3>4. \A t \in Shells \ {s} : session'[t] = session[t]
      BY <2>2, Frame DEF SessInv
    <3>5. ASSUME NEW q \in Refs, Present(q)', disk'[q].shape = "empty"
          PROVE  \E t \in Shells : Holds(session'[t], q)
      <4>1. q # w.file
        BY <3>2, <3>3, <3>5
      <4>2. Present(q) /\ disk[q].shape = "empty"
        BY <3>3, <3>5, <4>1 DEF Present
      <4>3. PICK t \in Shells : Holds(session[t], q)
        BY <4>2 DEF DiskInv
      <4>4. t # s
        BY <2>3, <4>1, <4>3
      <4>5. QED
        BY <3>4, <4>3, <4>4
    <3>6. QED
      BY <3>3, <3>5 DEF DiskInv
  <2>8. QED
    BY <2>6, <2>7
<1>8. ASSUME NEW s \in Shells, WriteFails(s) \/ Killed(s) PROVE DiskInv'
  <2>1. FailStep(s) /\ UNCHANGED disk
    BY <1>8, FaultEnds DEF SessInv, WriteFails, Killed, preVars
  <2>2. PICK d : /\ session' = [session EXCEPT ![s] = d]
                 /\ d.failed = TRUE /\ d.marks = session[s].marks
    BY <2>1 DEF FailStep
  <2>3. \A r \in Refs : Holds(session[s], r) => Holds(d, r)
    BY <2>2 DEF Holds
  <2>4. QED
    BY <1>2, <2>1, <2>2, <2>3
<1>9. QED
  BY <1>3, <1>4, <1>5, <1>6, <1>7, <1>8 DEF Next, Reads

-----------------------------------------------------------------------------
(* The registry.                                                           *)

\* Two registries that agree are the same without the names they may differ in.
LEMMA AgreeingPartly ==
  ASSUME NEW f, NEW g, NEW but, Agree(f, g, but)
  PROVE  Without(f, but) = Without(g, but)
BY DEF Agree, Without, Restrict

\* What an update makes of entries: its own name, and the rest as it was.
LEMMA UpdatedAt ==
  ASSUME NEW f, NEW c
  PROVE  /\ c.name \in DOMAIN Updated(f, c) <=> c.cmd.op = "register"
         /\ c.cmd.op = "register" => Updated(f, c)[c.name] = c.ref
         /\ \A n : n # c.name =>
              /\ n \in DOMAIN Updated(f, c) <=> n \in DOMAIN f
              /\ n \in DOMAIN f => Updated(f, c)[n] = f[n]
<1>1. CASE c.cmd.op = "register"
  BY <1>1 DEF Updated, With
<1>2. CASE c.cmd.op # "register"
  BY <1>2 DEF Updated, Without, Restrict
<1>3. QED
  BY <1>1, <1>2

\* Two registries that agree still do after the same update, on its name too.
LEMMA UpdatedAgrees ==
  ASSUME NEW f, NEW g, NEW but, NEW c, Agree(f, g, but)
  PROVE  Agree(Updated(f, c), Updated(g, c), but \ {c.name})
BY UpdatedAt DEF Agree

\* An update leaves all other names alone.
LEMMA UpdatedElsewhere ==
  ASSUME NEW f, NEW c
  PROVE  Agree(f, Updated(f, c), {c.name})
BY UpdatedAt DEF Agree

\* What agrees with the same agrees.
LEMMA AgreeThrough ==
  ASSUME NEW f, NEW g, NEW h, NEW a, NEW b, NEW but, Agree(f, g, a), Agree(g, h, b),
         a \cup b \subseteq but
  PROVE  Agree(f, h, but)
BY DEF Agree
\* What any command does to the registry and to what was read of it: it agrees
\* with the ledger but on the names that were recorded while another command
\* held an earlier reading.
LEMMA RegistryInvStep ==
  ASSUME SessInv, DiskInv, RegistryInv, [Next]_vars
  PROVE  RegistryInv'
<1>1. ASSUME UNCHANGED <<session, registry, ledger, missed, lost>> PROVE RegistryInv'
  BY <1>1 DEF RegistryInv, Holding, InHand, StageOf
<1>2. CASE PreflightRuns \/ Editor
  BY <1>1, <1>2, PreflightStands DEF history
<1>3. CASE UNCHANGED vars
  BY <1>1, <1>3 DEF vars, cmdVars, history
\* The file is as it was, or torn; the shell holds what it should.
<1>4. ASSUME NEW s \in Shells, NEW d, session' = [session EXCEPT ![s] = d],
             UNCHANGED <<ledger, lost>>,
             missed' = missed \/ missed' = [missed EXCEPT ![s] = {}],
             registry' = registry \/ registry'.state = "torn",
             Holding(d) => InHand(d, lost \cup missed'[s])
      PROVE  RegistryInv'
  <2>1. /\ session'[s] = d
        /\ \A t \in Shells \ {s} : session'[t] = session[t]
    BY <1>4, Frame DEF SessInv
  <2>2. Total(missed', Shells) /\ \A t \in Shells \ {s} : missed'[t] = missed[t]
    BY <1>4 DEF RegistryInv, Total
  <2>3. (registry.state # "torn" => Agree(registry.entries, ledger, lost))'
    BY <1>4 DEF RegistryInv
  <2>5. ASSUME NEW t \in Shells, Holding(session'[t])
        PROVE  InHand(session[t], lost \cup missed[t])'
    <3>1. InHand(session'[t], lost \cup missed'[t])
      BY <1>4, <2>1, <2>2, <2>5 DEF RegistryInv
    <3>2. QED
      BY <1>4, <3>1 DEF InHand
  <2>6. QED
    BY <2>2, <2>3, <2>5 DEF RegistryInv
<1>5. ASSUME NEW s \in Shells, Reads(s) PROVE RegistryInv'
  <2>1. /\ QuietStep(s) /\ UNCHANGED <<registry, ledger, lost>>
        /\ missed' = missed \/ missed' = [missed EXCEPT ![s] = {}]
    BY <1>5, ReadsAreQuiet
  <2>2. PICK d : Quiet(session[s], d) /\ session' = [session EXCEPT ![s] = d]
    BY <2>1 DEF QuietStep
  <2>3. ASSUME Holding(d) PROVE InHand(d, lost \cup missed'[s])
    <3>1. Recorded(d)
      BY <2>2, <2>3 DEF Quiet, Holding
    <3>2. Agree(registry.entries, ledger, lost)
      BY <3>1 DEF Recorded, RegistryInv
    <3>3. Agree(Updated(registry.entries, d), Updated(ledger, d), lost \ {d.name})
      BY <3>2, UpdatedAgrees
    <3>4. Agree(Updated(registry.entries, d), Updated(ledger, d),
                (lost \cup missed'[s]) \ {d.name})
      BY <3>3 DEF Agree
    <3>5. QED
      BY <3>1, <3>4 DEF Recorded, InHand
  <2>4. QED
    BY <1>4, <2>1, <2>2, <2>3
<1>6. ASSUME NEW s \in Shells, Truncate(s) PROVE RegistryInv'
  <2>1. /\ TruncateStep(s) /\ Good(session[s]) /\ At(s, "write")
        /\ UNCHANGED <<ledger, missed, lost>>
    BY <1>6, TruncateMarks DEF SessInv, Truncate, history
  <2>2. PICK d, w, text :
          /\ session' = [session EXCEPT ![s] = d]
          /\ d.cmd = session[s].cmd /\ d.todo = Left(session[s])
          /\ d.name = session[s].name /\ d.ref = session[s].ref
          /\ text = IF w.file = Registry THEN Torn ELSE Emptied(w.text)
          /\ Put(w.file, text)
    BY <2>1 DEF TruncateStep
  <2>3. registry' = registry \/ registry'.state = "torn"
    <3>1. CASE w.file = Registry
      BY <2>2, <3>1 DEF Put, Torn
    <3>2. CASE w.file # Registry
      BY <2>2, <3>2 DEF Put
    <3>3. QED
      BY <3>1, <3>2
  <2>4. ASSUME Holding(d) PROVE InHand(d, lost \cup missed'[s])
    <3>1. d.todo = session[s].todo
      BY <2>2, <2>4 DEF Left, Holding
    <3>2. Holding(session[s])
      BY <2>1, <2>2, <2>4, AtWrite DEF Holding
    <3>3. InHand(session[s], lost \cup missed[s])
      BY <3>2 DEF RegistryInv
    <3>4. Updated(ledger, d) = Updated(ledger, session[s])
      BY <2>2 DEF Updated
    <3>5. QED
      BY <2>1, <2>2, <3>1, <3>3, <3>4 DEF InHand
  <2>5. QED
    BY <1>4, <2>1, <2>2, <2>3, <2>4
<1>7. ASSUME NEW s \in Shells, Fill(s) PROVE RegistryInv'
  <2>1. FillStep(s) /\ Good(session[s]) /\ At(s, "write")
    BY <1>7, FillWrites DEF SessInv, Fill
  <2>2. PICK c, d, w, text :
          /\ c = session[s]
          /\ session' = [session EXCEPT ![s] = d]
          /\ w = c.todo[1] /\ w = Left(c)[1] /\ d.cmd = c.cmd
          /\ c.cmd.op \in {"register", "remove"} => d.over = TRUE
          /\ Put(w.file, text) /\ text \in Outcomes(w)
    BY <2>1 DEF FillStep
  <2>3. /\ c.cmd.op \in {"fmt", "init"} => w.file # Registry
        /\ c.cmd.op \in {"register", "remove"} => w.file = Registry
        /\ c.cmd.op \in {"fmt", "init", "register", "remove"}
    <3>1. PICK op, ws : op = c.cmd.op /\ ws = Left(c)
      OBVIOUS
    <3>2. op \in {"fmt", "init", "register", "remove"} /\ Proper(op, ws)
      BY <2>1, <2>2, <3>1, AtWrite DEF Writing
    <3>3. QED
      BY <2>2, <3>1, <3>2, FirstWrite
  <2>4. IF c.cmd.op \in {"register", "remove"} THEN Record(s) ELSE UNCHANGED history
    BY <1>7, <2>2 DEF Fill, Op
  <2>5. CASE c.cmd.op \in {"fmt", "init"}
    <3>1. UNCHANGED <<registry, ledger, missed, lost>>
      BY <2>2, <2>3, <2>4, <2>5 DEF Put, history
    <3>2. ~Holding(d)
      BY <2>2, <2>5 DEF Holding
    <3>3. QED
      BY <1>4, <2>2, <3>1, <3>2
  <2>6. CASE c.cmd.op \in {"register", "remove"}
    <3>1. /\ registry' = text /\ d.over = TRUE
          /\ ledger' = Updated(ledger, c)
          /\ missed' = [t \in Shells |-> missed[t] \cup {c.name}]
          /\ lost' = (lost \cup missed[s]) \ {c.name}
      BY <2>2, <2>3, <2>4, <2>6 DEF Put, Record
    <3>2. InHand(c, lost \cup missed[s])
      <4>1. Holding(c)
        BY <2>1, <2>2, <2>6, AtWrite DEF Holding
      <4>2. QED
        BY <2>2, <4>1 DEF RegistryInv
    <3>3. /\ session'[s] = d
          /\ \A t \in Shells \ {s} : session'[t] = session[t]
      BY <2>2, Frame DEF SessInv
    <3>4. (registry.state # "torn" => Agree(registry.entries, ledger, lost))'
      <4>1. PICK entries : /\ w.text = Whole(entries)
                           /\ Agree(entries, ledger', lost')
        BY <2>2, <3>1, <3>2 DEF InHand
      <4>2. text = Whole(entries) \/ text = Torn
        BY <2>2, <2>3, <2>6, <4>1 DEF Outcomes
      <4>3. QED
        BY <3>1, <4>1, <4>2 DEF Whole, Torn
    <3>5. ASSUME NEW t \in Shells, Holding(session'[t])
          PROVE  InHand(session[t], lost \cup missed[t])'
      <4>1. PICK b : b = session[t]
        OBVIOUS
      <4>2. t # s /\ session'[t] = b
        BY <3>1, <3>3, <3>5, <4>1 DEF Holding
      <4>3. PICK entries :
              /\ b.todo[1].text = Whole(entries)
              /\ Agree(entries, Updated(ledger, b), (lost \cup missed[t]) \ {b.name})
        BY <3>5, <4>1, <4>2 DEF RegistryInv, InHand
      <4>4. Agree(Updated(ledger, b), Updated(ledger', b), {c.name} \ {b.name})
        BY <3>1, UpdatedElsewhere, UpdatedAgrees
      <4>5. missed'[t] = missed[t] \cup {c.name}
        BY <3>1
      <4>6. Agree(entries, Updated(ledger', b), (lost' \cup missed'[t]) \ {b.name})
        <5>1. ((lost \cup missed[t]) \ {b.name}) \cup ({c.name} \ {b.name})
                \subseteq (lost' \cup missed'[t]) \ {b.name}
          BY <3>1, <4>5
        <5>2. QED
          BY <4>3, <4>4, <5>1, AgreeThrough
      <4>7. QED
        BY <4>2, <4>3, <4>6 DEF InHand
    <3>6. Total(missed', Shells)
      BY <3>1 DEF Total
    <3>7. QED
      BY <3>4, <3>5, <3>6 DEF RegistryInv
  <2>7. QED
    BY <2>3, <2>5, <2>6
<1>8. ASSUME NEW s \in Shells, WriteFails(s) \/ Killed(s) PROVE RegistryInv'
  <2>1. FailStep(s) /\ UNCHANGED <<registry, ledger, missed, lost>>
    BY <1>8, FaultEnds DEF SessInv, WriteFails, Killed, history
  <2>2. PICK d : session' = [session EXCEPT ![s] = d] /\ d.over = TRUE
    BY <2>1 DEF FailStep
  <2>3. ~Holding(d)
    BY <2>2 DEF Holding
  <2>4. QED
    BY <1>4, <2>1, <2>2, <2>3
<1>9. QED
  BY <1>2, <1>3, <1>5, <1>6, <1>7, <1>8 DEF Next, Reads

-----------------------------------------------------------------------------
(* The slots of a flow.                                                    *)

SlotNames == {"environment", "context", "bootstrap", "create", "change", "destroy", "error"}

LEMMA NamesOfSlots ==
  /\ Range(HookNames) = {"create", "change", "destroy", "error"}
  /\ Hooks = SlotNames \ {"environment", "context"}
  /\ DOMAIN Slots = 1 .. 7 /\ Range(Slots) = SlotNames
  /\ Slots[1] = "environment" /\ Slots[2] = "context"
  /\ \A i \in 1 .. 7 : Slots[i] = "context" => i = 2
  /\ \A i \in 1 .. 7 : Slots[i] = "environment" => i = 1
<1>1. Range(HookNames) = {"create", "change", "destroy", "error"}
  <2>1. DOMAIN HookNames = 1 .. 4
    BY DEF HookNames
  <2>2. /\ HookNames[1] = "create" /\ HookNames[2] = "change"
        /\ HookNames[3] = "destroy" /\ HookNames[4] = "error"
    BY DEF HookNames
  <2>3. \A i \in 1 .. 4 : i = 1 \/ i = 2 \/ i = 3 \/ i = 4
    OBVIOUS
  <2>4. 1 \in 1 .. 4 /\ 2 \in 1 .. 4 /\ 3 \in 1 .. 4 /\ 4 \in 1 .. 4
    OBVIOUS
  <2>5. QED
    BY <2>1, <2>2, <2>3, <2>4 DEF Range
<1>2. Slots = <<"environment", "context", "bootstrap", "create", "change", "destroy", "error">>
  BY DEF Slots
<1>3. PICK slots : slots = <<"environment", "context", "bootstrap", "create", "change",
                             "destroy", "error">>
  OBVIOUS
<1>4. /\ DOMAIN slots = 1 .. 7
      /\ slots[1] = "environment" /\ slots[2] = "context" /\ slots[3] = "bootstrap"
      /\ slots[4] = "create" /\ slots[5] = "change" /\ slots[6] = "destroy"
      /\ slots[7] = "error"
  BY <1>3
<1>5. \A i \in 1 .. 7 : i = 1 \/ i = 2 \/ i = 3 \/ i = 4 \/ i = 5 \/ i = 6 \/ i = 7
  OBVIOUS
<1>6. /\ 1 \in 1 .. 7 /\ 2 \in 1 .. 7 /\ 3 \in 1 .. 7 /\ 4 \in 1 .. 7
      /\ 5 \in 1 .. 7 /\ 6 \in 1 .. 7 /\ 7 \in 1 .. 7
  OBVIOUS
<1>7. Range(slots) = SlotNames
  BY ONLY <1>4, <1>5, <1>6 DEF Range, SlotNames
<1>8. /\ \A i \in 1 .. 7 : slots[i] = "context" => i = 2
      /\ \A i \in 1 .. 7 : slots[i] = "environment" => i = 1
  BY ONLY <1>4, <1>5
<1>9. Hooks = SlotNames \ {"environment", "context"}
  BY <1>1 DEF Hooks, SlotNames
<1>10. QED
  BY <1>1, <1>2, <1>3, <1>4, <1>7, <1>8, <1>9

\* What is chased next: the shared parts before the hooks in them.
LEMMA NextReference ==
  /\ Chased = None <=> \A name \in SlotNames : ~Reference(SlotIn(flow, name))
  /\ Chased # None =>
       /\ Chased \in SlotNames /\ Reference(SlotIn(flow, Chased))
       /\ Chased \in Hooks => ~Reference(flow.environment) /\ ~Reference(flow.context)
<1>1. PICK codes : codes = [i \in DOMAIN Slots |-> Awaits(Slots[i])]
  OBVIOUS
<1>2. Chased = FirstOf(codes)
  BY <1>1 DEF Chased
<1>3. DOMAIN codes = 1 .. 7 /\ \A i \in 1 .. 7 : codes[i] = Awaits(Slots[i])
  BY <1>1, NamesOfSlots
<1>4. \A name \in SlotNames : name # None
  BY NoneAssumption, NamesOfSlots
<1>5. \A i \in 1 .. 7 : Slots[i] \in SlotNames
  BY NamesOfSlots DEF Range
<1>6. \A i \in 1 .. 7 : codes[i] = None <=> ~Reference(SlotIn(flow, Slots[i]))
  BY <1>3, <1>4, <1>5 DEF Awaits
<1>7. /\ Chased = None <=> \A i \in 1 .. 7 : codes[i] = None
      /\ Chased # None =>
           \E i \in 1 .. 7 : Chased = codes[i] /\ \A j \in 1 .. 7 : j < i => codes[j] = None
  <2>1. DOMAIN codes \subseteq Nat
    BY <1>3
  <2>2. QED
    BY <1>2, <1>3, <2>1, FirstIsFirst
<1>8. Chased = None <=> \A name \in SlotNames : ~Reference(SlotIn(flow, name))
  <2>1. \A name \in SlotNames : \E i \in 1 .. 7 : name = Slots[i]
    BY NamesOfSlots DEF Range
  <2>2. QED
    BY <1>5, <1>6, <1>7, <2>1
<1>9. ASSUME Chased # None
      PROVE  /\ Chased \in SlotNames /\ Reference(SlotIn(flow, Chased))
             /\ Chased \in Hooks => ~Reference(flow.environment) /\ ~Reference(flow.context)
  <2>1. PICK i \in 1 .. 7 : Chased = codes[i] /\ \A j \in 1 .. 7 : j < i => codes[j] = None
    BY <1>7, <1>9
  <2>2. Chased = Slots[i] /\ Reference(SlotIn(flow, Slots[i]))
    BY <1>3, <1>9, <2>1 DEF Awaits
  <2>3. ASSUME Chased \in Hooks
        PROVE  ~Reference(flow.environment) /\ ~Reference(flow.context)
    <3>1. i # 1 /\ i # 2
      BY <2>2, <2>3, NamesOfSlots
    <3>2. 1 \in 1 .. 7 /\ 2 \in 1 .. 7 /\ 1 < i /\ 2 < i
      BY <3>1
    <3>3. ~Reference(SlotIn(flow, "environment")) /\ ~Reference(SlotIn(flow, "context"))
      BY <1>6, <2>1, <3>2, NamesOfSlots
    <3>4. QED
      BY <3>3 DEF SlotIn
  <2>4. QED
    BY <1>5, <2>2, <2>3
<1>10. QED
  BY <1>8, <1>9

-----------------------------------------------------------------------------
(* The checks, and what they promise.                                      *)

\* A reference is refused for exactly what keeps it from being followed.
LEMMA RefusedReferences ==
  ASSUME NEW doc, NEW name
  PROVE  InlineRefusal(doc, name) = None <=>
           Usable(doc) /\ ~Mismatch(doc, name) /\ ~Unparsed(doc, name)
<1>1. PICK a, b, c, d :
        /\ a = LoadRefusal(doc)
        /\ b = IF LoadRefusal(doc) = None THEN Unfit(doc) ELSE None
        /\ c = IF LoadRefusal(doc) = None /\ Mismatch(doc, name)
               THEN "reference_kind_mismatch" ELSE None
        /\ d = IF LoadRefusal(doc) = None /\ Unparsed(doc, name)
               THEN "context_parse_error" ELSE None
  OBVIOUS
<1>2. PICK codes : codes = <<a, b, c, d>>
  OBVIOUS
<1>3. InlineRefusal(doc, name) = FirstOf(codes)
  BY <1>1, <1>2 DEF InlineRefusal
<1>4. /\ DOMAIN codes = 1 .. 4
      /\ codes[1] = a /\ codes[2] = b /\ codes[3] = c /\ codes[4] = d
  BY <1>2
<1>5. FirstOf(codes) = None <=> \A i \in 1 .. 4 : codes[i] = None
  <2>1. DOMAIN codes \subseteq Nat
    BY <1>4
  <2>2. QED
    BY <1>4, <2>1, FirstIsFirst
<1>6. (\A i \in 1 .. 4 : codes[i] = None) <=> a = None /\ b = None /\ c = None /\ d = None
  <2>1. \A i \in 1 .. 4 : i = 1 \/ i = 2 \/ i = 3 \/ i = 4
    OBVIOUS
  <2>2. 1 \in 1 .. 4 /\ 2 \in 1 .. 4 /\ 3 \in 1 .. 4 /\ 4 \in 1 .. 4
    OBVIOUS
  <2>3. QED
    BY ONLY <1>4, <2>1, <2>2
<1>7. "reference_kind_mismatch" # None /\ "context_parse_error" # None
  BY NoneAssumption DEF Refusals
<1>8. a = None /\ b = None /\ c = None /\ d = None <=>
        Usable(doc) /\ ~Mismatch(doc, name) /\ ~Unparsed(doc, name)
  BY <1>1, <1>7 DEF Usable
<1>9. QED
  BY <1>3, <1>5, <1>6, <1>8

\* A flow of the model's types.
FlowOK(f) ==
  /\ Total(f, {"tasks", "environment", "context"})
  /\ IsBody(f.tasks) /\ IsEnvironment(f.environment) /\ IsContext(f.context)

\* Nothing in the flow is a reference.
Settled(f) == \A name \in SlotNames : ~Reference(SlotIn(f, name))

LEMMA SettledBodies ==
  ASSUME NEW f, Settled(f)
  PROVE  \A name \in Hooks : Body(f, name) = TasksOf(SlotIn(f, name))
BY NamesOfSlots DEF Settled, Body, Followed

LEMMA Structure ==
  ASSUME NEW f, IsBody(f.tasks), NEW n, n = HookTasks(f), IsContext(f.context)
  PROVE  StructureRefusal(f) = None <=>
           /\ Len(f.tasks) <= TasksMax
           /\ \A i \in DOMAIN f.tasks :
                /\ f.tasks[i].name # None
                /\ \A j \in DOMAIN f.tasks : f.tasks[j].name = f.tasks[i].name => j = i
                /\ TaskRefusal(f.tasks[i]) = None
           /\ n <= HookTasksMax
<1>1. PICK tasks : tasks = f.tasks
  OBVIOUS
<1>2. tasks \in Seq(Range(tasks)) /\ Len(tasks) \in Nat /\ DOMAIN tasks = 1 .. Len(tasks)
  BY <1>1 DEF IsBody
<1>3. PICK names, limits :
        /\ names = [i \in DOMAIN tasks |-> NameRefusal(tasks, i)]
        /\ limits = [i \in DOMAIN tasks |-> TaskRefusal(tasks[i])]
  OBVIOUS
<1>4. PICK a, b, c, d :
        /\ a = IF Len(tasks) > TasksMax THEN "too_many_tasks" ELSE None
        /\ b = FirstOf(names) /\ c = FirstOf(limits)
        /\ d = IF n > HookTasksMax THEN "too_many_hook_tasks" ELSE None
  OBVIOUS
<1>5. PICK codes : codes = <<a, b, c, d>>
  OBVIOUS
<1>6. StructureRefusal(f) = FirstOf(codes)
  BY <1>1, <1>3, <1>4, <1>5 DEF StructureRefusal
<1>7. /\ DOMAIN codes = 1 .. 4
      /\ codes[1] = a /\ codes[2] = b /\ codes[3] = c /\ codes[4] = d
  BY <1>5
<1>8. FirstOf(codes) = None <=> \A i \in 1 .. 4 : codes[i] = None
  <2>1. DOMAIN codes \subseteq Nat
    BY <1>7
  <2>2. QED
    BY <1>7, <2>1, FirstIsFirst
<1>9. (\A i \in 1 .. 4 : codes[i] = None) <=> a = None /\ b = None /\ c = None /\ d = None
  <2>1. \A i \in 1 .. 4 : i = 1 \/ i = 2 \/ i = 3 \/ i = 4
    OBVIOUS
  <2>2. 1 \in 1 .. 4 /\ 2 \in 1 .. 4 /\ 3 \in 1 .. 4 /\ 4 \in 1 .. 4
    OBVIOUS
  <2>3. QED
    BY ONLY <1>7, <2>1, <2>2
<1>10. /\ "too_many_tasks" # None /\ "too_many_hook_tasks" # None
       /\ "missing_task_name" # None /\ "duplicate_task_name" # None
  BY NoneAssumption DEF Refusals
<1>11. a = None <=> Len(tasks) <= TasksMax
  BY <1>2, <1>4, <1>10, PreflightAssumption
<1>12. d = None <=> n <= HookTasksMax
  <2>1. \A name \in Range(HookNames) : Len(TasksOf(SlotIn(f, name))) \in Nat
    <3>1. SUFFICES ASSUME NEW name \in Range(HookNames)
                   PROVE  Len(TasksOf(SlotIn(f, name))) \in Nat
      OBVIOUS
    <3>2. name \in {"create", "change", "destroy", "error"}
      BY NamesOfSlots
    <3>3. PICK slot : slot = SlotIn(f, name)
      OBVIOUS
    <3>4. slot = IF Inline(f.context) THEN f.context.part.hooks[name] ELSE Absent
      BY <3>2, <3>3 DEF SlotIn
    <3>5. IsHook(slot)
      BY <3>4, <3>2, NamesOfSlots DEF IsContext, IsHook, Leads, Reference, Inline, Absent
    <3>6. CASE Inline(slot)
      <4>1. slot.part \in Seq(Range(slot.part))
        BY <3>5, <3>6 DEF IsHook, IsBody
      <4>2. QED
        BY <3>3, <3>6, <4>1 DEF TasksOf
    <3>7. CASE ~Inline(slot)
      BY <3>3, <3>7 DEF TasksOf
    <3>8. QED
      BY <3>6, <3>7
  <2>2. n \in Nat
    BY <2>1, NamesOfSlots DEF HookTasks
  <2>3. QED
    BY <1>4, <1>10, <2>2, PreflightAssumption
<1>13. b = None <=> \A i \in DOMAIN tasks : NameRefusal(tasks, i) = None
  <2>1. /\ DOMAIN names = DOMAIN tasks /\ DOMAIN names \subseteq Nat
        /\ \A i \in DOMAIN tasks : names[i] = NameRefusal(tasks, i)
    BY <1>2, <1>3
  <2>2. QED
    BY <1>4, <2>1, FirstIsFirst
<1>14. c = None <=> \A i \in DOMAIN tasks : TaskRefusal(tasks[i]) = None
  <2>1. /\ DOMAIN limits = DOMAIN tasks /\ DOMAIN limits \subseteq Nat
        /\ \A i \in DOMAIN tasks : limits[i] = TaskRefusal(tasks[i])
    BY <1>2, <1>3
  <2>2. QED
    BY <1>4, <2>1, FirstIsFirst
<1>15. (\A i \in DOMAIN tasks : NameRefusal(tasks, i) = None) <=>
         \A i \in DOMAIN tasks :
           /\ tasks[i].name # None
           /\ \A j \in DOMAIN tasks : tasks[j].name = tasks[i].name => j = i
  <2>1. \A i \in DOMAIN tasks :
          NameRefusal(tasks, i) = None <=>
            /\ tasks[i].name # None
            /\ \A j \in 1 .. i - 1 : tasks[j].name # tasks[i].name
    BY <1>10 DEF NameRefusal
  <2>2. ASSUME \A i \in DOMAIN tasks : \A j \in 1 .. i - 1 : tasks[j].name # tasks[i].name,
               NEW i \in DOMAIN tasks, NEW j \in DOMAIN tasks, tasks[j].name = tasks[i].name
        PROVE  j = i
    <3>1. ~(j \in 1 .. i - 1) /\ ~(i \in 1 .. j - 1)
      BY <2>2
    <3>2. i \in Nat /\ j \in Nat /\ 1 <= i /\ 1 <= j
      BY <1>2
    <3>3. QED
      BY <3>1, <3>2
  <2>3. ASSUME NEW i \in DOMAIN tasks, NEW j \in 1 .. i - 1
        PROVE  j \in DOMAIN tasks /\ j # i
    BY <1>2
  <2>4. QED
    BY <2>1, <2>2, <2>3
<1>16. QED
  BY <1>1, <1>6, <1>8, <1>9, <1>11, <1>12, <1>13, <1>14, <1>15

\* Down the layers of every body, nothing is needed but what is reached.
LEMMA NeedsAreReached ==
  ASSUME NEW f, Settled(f)
  PROVE  /\ Needs(f) \subseteq Capability
         /\ \A port \in Capability : port \in Needs(f) <=> Reaches(f, port)
<1>1. \A type : PortOf(type) \subseteq Capability
  BY DEF PortOf, Capability
<1>2. ASSUME NEW body, NEW port
      PROVE  port \in BodyNeeds(body) <=>
               \E i \in DOMAIN body : \E k \in DOMAIN body[i].layers :
                 \E type \in {body[i].layers[k].type} \cup body[i].layers[k].scorers :
                   port \in PortOf(type)
  <2>1. port \in BodyNeeds(body) <=> \E i \in DOMAIN body : port \in TaskNeeds(body[i])
    BY DEF BodyNeeds
  <2>2. ASSUME NEW task
        PROVE  port \in TaskNeeds(task) <=>
                 \E k \in DOMAIN task.layers :
                   \E type \in {task.layers[k].type} \cup task.layers[k].scorers :
                     port \in PortOf(type)
    BY DEF TaskNeeds
  <2>3. QED
    BY <2>1, <2>2
<1>3. ASSUME NEW port
      PROVE  port \in Needs(f) <=> Reaches(f, port)
  <2>1. EveryBody(f) = {f.tasks} \cup {TasksOf(SlotIn(f, name)) : name \in Hooks}
    BY SettledBodies DEF EveryBody
  <2>2. (\E body \in EveryBody(f) : port \in BodyNeeds(body)) <=>
          port \in BodyNeeds(f.tasks) \/ port \in HookNeeds(f)
    BY <2>1 DEF HookNeeds
  <2>3. /\ port \in SecretNeeds(f) <=>
             port = "secret" /\ Inline(f.context) /\ f.context.part.secrets = "source"
        /\ port \in ProviderNeeds(f) <=>
             port = "provider" /\ Inline(f.environment) /\ f.environment.part.provider # None
    BY DEF SecretNeeds, ProviderNeeds
  <2>4. port \in Needs(f) <=>
          \/ \E body \in EveryBody(f) : port \in BodyNeeds(body)
          \/ port \in SecretNeeds(f) \/ port \in ProviderNeeds(f)
    BY <2>2 DEF Needs
  <2>5. QED
    BY <1>2, <2>3, <2>4 DEF Reaches
<1>4. Needs(f) \subseteq Capability
  <2>1. \A port : Reaches(f, port) => port \in Capability
    BY <1>1 DEF Reaches, Capability
  <2>2. QED
    BY <1>3, <2>1
<1>5. QED
  BY <1>3, <1>4

\* Of a flow without references the last checks accept exactly what can be run.
LEMMA CheckDecides ==
  ASSUME NEW f, FlowOK(f), Settled(f)
  PROVE  CheckRefusal(f) = None <=> Runnable(f)
<1>1. PICK n : n = HookTasks(f)
  OBVIOUS
<1>2. n = Len(Body(f, "create")) + Len(Body(f, "change")) + Len(Body(f, "destroy"))
            + Len(Body(f, "error"))
  <2>1. /\ "create" \in Hooks /\ "change" \in Hooks
        /\ "destroy" \in Hooks /\ "error" \in Hooks
    BY NamesOfSlots DEF SlotNames
  <2>2. QED
    BY <1>1, <2>1, SettledBodies DEF HookTasks
<1>3. StructureRefusal(f) = None <=>
           /\ Len(f.tasks) <= TasksMax
           /\ \A i \in DOMAIN f.tasks :
                /\ f.tasks[i].name # None
                /\ \A j \in DOMAIN f.tasks : f.tasks[j].name = f.tasks[i].name => j = i
                /\ TaskRefusal(f.tasks[i]) = None
           /\ n <= HookTasksMax
  BY <1>1, Structure DEF FlowOK
<1>4. Needs(f) \subseteq wired <=> \A port \in Capability : Reaches(f, port) => port \in wired
  BY NeedsAreReached
<1>5. "missing_capability" # None
  BY NoneAssumption DEF Refusals
<1>6. CheckRefusal(f) = None <=> StructureRefusal(f) = None /\ Needs(f) \subseteq wired
  BY <1>5 DEF CheckRefusal
<1>7. QED
  BY <1>2, <1>3, <1>4, <1>6 DEF Runnable

-----------------------------------------------------------------------------
(* Following a reference.                                                  *)

\* What stands in for a reference is of the type of the slot.
LEMMA PartsFit ==
  ASSUME NEW doc, IsDocument(doc), NEW name \in SlotNames, ~Unparsed(doc, name),
         NEW slot, slot = PartOf(doc, name)
  PROVE  /\ Inline(slot) /\ ~Reference(slot)
         /\ name = "environment" => IsEnvironment(slot)
         /\ name = "context" => IsContext(slot)
         /\ name \in Hooks => IsHook(slot)
<1>1. Inline(slot) => ~Reference(slot)
  BY DEF Inline, Reference
<1>2. CASE name = "environment"
  <2>1. slot = EnvironmentOf(doc)
    BY <1>2 DEF PartOf
  <2>2. CASE doc.shape = "environment"
    BY <1>1, <1>2, <2>1, <2>2, NamesOfSlots DEF EnvironmentOf, IsDocument
  <2>3. CASE doc.shape # "environment"
    <3>1. PICK part : part = [provider |-> None, options |-> FALSE, bootstrap |-> Absent]
      OBVIOUS
    <3>2. slot = [form |-> "inline", part |-> part]
      BY <2>1, <2>3, <3>1 DEF EnvironmentOf
    <3>3. Total(part, {"provider", "options", "bootstrap"}) /\ part.bootstrap = Absent
      BY <3>1 DEF Total
    <3>4. Total(slot, {"form", "part"}) /\ slot.form = "inline" /\ slot.part = part
      BY <3>2 DEF Total
    <3>5. IsHook(Absent)
      BY DEF IsHook, Leads, Reference, Inline, Absent
    <3>6. QED
      BY <1>1, <1>2, <3>3, <3>4, <3>5, NamesOfSlots DEF Inline, IsEnvironment, Leads
  <2>4. QED
    BY <2>2, <2>3
<1>3. CASE name = "context"
  <2>1. slot = doc.context /\ doc.shape = "context"
    BY <1>3 DEF PartOf, Unparsed
  <2>2. QED
    BY <1>1, <1>3, <2>1, NamesOfSlots DEF IsDocument
<1>4. CASE name \in Hooks
  <2>1. name # "environment" /\ name # "context"
    BY <1>4, NamesOfSlots
  <2>2. slot = [form |-> "inline", part |-> doc.tasks, inputs |-> FALSE]
    BY <2>1 DEF PartOf
  <2>3. slot.form = "inline" /\ slot.part = doc.tasks
    BY <2>2
  <2>4. QED
    BY <1>1, <2>1, <2>3 DEF Inline, IsHook, Leads, IsDocument
<1>5. QED
  BY <1>2, <1>3, <1>4, NamesOfSlots

\* A shared part takes its place.
LEMMA FillsShared ==
  ASSUME NEW f, FlowOK(f), NEW slot, NEW g
  PROVE  /\ g = Filled(f, "environment", slot) /\ IsEnvironment(slot) =>
              /\ FlowOK(g) /\ g.tasks = f.tasks
              /\ g.environment = slot /\ g.context = f.context
         /\ g = Filled(f, "context", slot) /\ IsContext(slot) =>
              /\ FlowOK(g) /\ g.tasks = f.tasks
              /\ g.environment = f.environment /\ g.context = slot
<1>1. ASSUME g = Filled(f, "environment", slot), IsEnvironment(slot)
      PROVE  /\ FlowOK(g) /\ g.tasks = f.tasks
             /\ g.environment = slot /\ g.context = f.context
  <2>1. g = [f EXCEPT !.environment = slot]
    BY <1>1 DEF Filled
  <2>2. /\ Total(g, {"tasks", "environment", "context"}) /\ g.tasks = f.tasks
        /\ g.environment = slot /\ g.context = f.context
    BY <2>1 DEF FlowOK, Total
  <2>3. QED
    BY <1>1, <2>2 DEF FlowOK
<1>2. ASSUME g = Filled(f, "context", slot), IsContext(slot)
      PROVE  /\ FlowOK(g) /\ g.tasks = f.tasks
             /\ g.environment = f.environment /\ g.context = slot
  <2>1. g = [f EXCEPT !.context = slot]
    BY <1>2 DEF Filled
  <2>2. /\ Total(g, {"tasks", "environment", "context"}) /\ g.tasks = f.tasks
        /\ g.environment = f.environment /\ g.context = slot
    BY <2>1 DEF FlowOK, Total
  <2>3. QED
    BY <1>2, <2>2 DEF FlowOK
<1>3. QED
  BY <1>1, <1>2

\* A hook takes its place in the shared part it belongs to.
SameBut(f, g, name) ==
  /\ FlowOK(g) /\ g.tasks = f.tasks
  /\ Inline(g.environment) <=> Inline(f.environment)
  /\ Inline(g.context) <=> Inline(f.context)
  /\ Inline(f.environment) => g.environment.part.provider = f.environment.part.provider
  /\ Inline(f.context) => g.context.part.secrets = f.context.part.secrets
  /\ \A other \in Hooks \ {name} : SlotIn(g, other) = SlotIn(f, other)
  /\ ~Reference(g.environment) /\ ~Reference(g.context)

LEMMA FillsHook ==
  ASSUME NEW f, FlowOK(f), ~Reference(f.environment), ~Reference(f.context),
         NEW name \in Hooks, Reference(SlotIn(f, name)),
         NEW slot, IsHook(slot), NEW g, g = Filled(f, name, slot)
  PROVE  SlotIn(g, name) = slot /\ SameBut(f, g, name)
<1>1. ~Reference(Absent)
  BY DEF Reference, Absent
<1>2. CASE name = "bootstrap"
  <2>1. Inline(f.environment)
    BY <1>1, <1>2 DEF SlotIn
  <2>2. PICK env, part : env = f.environment /\ part = f.environment.part
    OBVIOUS
  <2>3. /\ Total(env, {"form", "part"}) /\ Total(part, {"provider", "options", "bootstrap"})
        /\ env.form = "inline" /\ env.part = part
    BY <2>1, <2>2 DEF FlowOK, IsEnvironment, Inline
  <2>4. g = [f EXCEPT !.environment.part.bootstrap = slot]
    BY <1>2 DEF Filled
  <2>5. PICK newPart : newPart = [part EXCEPT !.bootstrap = slot]
    OBVIOUS
  <2>6. PICK new : new = [env EXCEPT !.part = newPart]
    OBVIOUS
  <2>7. g = [f EXCEPT !.environment = new]
    BY <2>2, <2>4, <2>5, <2>6
  <2>8. /\ Total(newPart, {"provider", "options", "bootstrap"})
        /\ newPart.bootstrap = slot /\ newPart.provider = part.provider
    BY <2>3, <2>5 DEF Total
  <2>9. Total(new, {"form", "part"}) /\ new.form = "inline" /\ new.part = newPart
    BY <2>3, <2>6 DEF Total
  <2>10. Inline(new) /\ ~Reference(new) /\ IsEnvironment(new)
    BY <2>8, <2>9 DEF Inline, Reference, IsEnvironment, Leads
  <2>11. FlowOK(g) /\ g.tasks = f.tasks /\ g.environment = new /\ g.context = f.context
    <3>1. g = Filled(f, "environment", new)
      BY <2>7 DEF Filled
    <3>2. QED
      BY <2>10, <3>1, FillsShared
  <2>12. SlotIn(g, name) = slot
    BY <1>2, <2>8, <2>9, <2>10, <2>11 DEF SlotIn
  <2>13. \A other \in Hooks \ {name} : SlotIn(g, other) = SlotIn(f, other)
    BY <1>2, <2>11, NamesOfSlots DEF SlotIn, SlotNames
  <2>14. QED
    BY <2>1, <2>2, <2>8, <2>9, <2>10, <2>11, <2>12, <2>13 DEF SameBut
<1>3. CASE name # "bootstrap"
  <2>1. /\ name \in Range(HookNames)
        /\ name \notin {"environment", "context", "bootstrap"}
    BY <1>3, NamesOfSlots DEF SlotNames
  <2>2. Inline(f.context)
    BY <1>1, <2>1 DEF SlotIn
  <2>3. PICK ctx, part, hooks :
          ctx = f.context /\ part = f.context.part /\ hooks = f.context.part.hooks
    OBVIOUS
  <2>4. /\ Total(ctx, {"form", "part"}) /\ Total(part, {"secrets", "hooks"})
        /\ Total(hooks, Range(HookNames))
        /\ \A h \in Range(HookNames) : IsHook(hooks[h])
        /\ ctx.form = "inline" /\ ctx.part = part /\ part.hooks = hooks
    BY <2>2, <2>3 DEF FlowOK, IsContext, Inline
  <2>5. g = [f EXCEPT !.context.part.hooks[name] = slot]
    BY <2>1 DEF Filled
  <2>6. PICK newHooks : newHooks = [hooks EXCEPT ![name] = slot]
    OBVIOUS
  <2>7. PICK newPart : newPart = [part EXCEPT !.hooks = newHooks]
    OBVIOUS
  <2>8. PICK new : new = [ctx EXCEPT !.part = newPart]
    OBVIOUS
  <2>9. g = [f EXCEPT !.context = new]
    BY <2>3, <2>5, <2>6, <2>7, <2>8
  <2>10. /\ Total(newHooks, Range(HookNames)) /\ newHooks[name] = slot
         /\ \A h \in Range(HookNames) \ {name} : newHooks[h] = hooks[h]
    BY <2>1, <2>4, <2>6 DEF Total
  <2>11. /\ Total(newPart, {"secrets", "hooks"})
         /\ newPart.hooks = newHooks /\ newPart.secrets = part.secrets
    BY <2>4, <2>7 DEF Total
  <2>12. Total(new, {"form", "part"}) /\ new.form = "inline" /\ new.part = newPart
    BY <2>4, <2>8 DEF Total
  <2>13. Inline(new) /\ ~Reference(new) /\ IsContext(new)
    BY <2>4, <2>10, <2>11, <2>12 DEF Inline, Reference, IsContext, Leads
  <2>14. FlowOK(g) /\ g.tasks = f.tasks /\ g.environment = f.environment /\ g.context = new
    <3>1. g = Filled(f, "context", new)
      BY <2>9 DEF Filled
    <3>2. QED
      BY <2>13, <3>1, FillsShared
  <2>15. SlotIn(g, name) = slot
    BY <2>1, <2>10, <2>11, <2>12, <2>13, <2>14 DEF SlotIn
  <2>16. \A other \in Hooks \ {name} : SlotIn(g, other) = SlotIn(f, other)
    <3>1. SUFFICES ASSUME NEW other \in Hooks \ {name}
                   PROVE  SlotIn(g, other) = SlotIn(f, other)
      OBVIOUS
    <3>2. CASE other = "bootstrap"
      BY <2>14, <3>2 DEF SlotIn
    <3>3. CASE other # "bootstrap"
      <4>1. /\ other \in Range(HookNames) \ {name}
            /\ other \notin {"environment", "context", "bootstrap"}
        BY <3>3, NamesOfSlots DEF SlotNames
      <4>2. SlotIn(g, other) = newHooks[other] /\ SlotIn(f, other) = hooks[other]
        BY <2>2, <2>3, <2>11, <2>12, <2>13, <2>14, <4>1 DEF SlotIn
      <4>3. QED
        BY <2>10, <4>1, <4>2
    <3>4. QED
      BY <3>2, <3>3
  <2>17. QED
    BY <2>2, <2>3, <2>11, <2>12, <2>13, <2>14, <2>15, <2>16 DEF SameBut
<1>4. QED
  BY <1>2, <1>3

LEMMA FurnishedAlready ==
  ASSUME NEW f, FlowOK(f), ~Reference(f.environment), ~Reference(f.context)
  PROVE  Furnished(f) = f
<1>1. Furnished(f) = [tasks |-> f.tasks, environment |-> f.environment, context |-> f.context]
  BY DEF Furnished, Followed
<1>2. QED
  BY <1>1 DEF FlowOK, Total

\* What can be run depends on the bodies, and on what the shared parts need.
LEMMA SameRunnable ==
  ASSUME NEW f, NEW g, NEW name \in Hooks, SameBut(f, g, name),
         \A other \in Hooks : Body(g, other) = Body(f, other)
  PROVE  Runnable(g) <=> Runnable(f)
<1>1. EveryBody(g) = EveryBody(f)
  BY DEF SameBut, EveryBody
<1>2. \A port : Reaches(g, port) <=> Reaches(f, port)
  <2>1. SUFFICES ASSUME NEW port PROVE Reaches(g, port) <=> Reaches(f, port)
    OBVIOUS
  <2>2. /\ Inline(g.context) /\ g.context.part.secrets = "source" <=>
             Inline(f.context) /\ f.context.part.secrets = "source"
        /\ Inline(g.environment) /\ g.environment.part.provider # None <=>
             Inline(f.environment) /\ f.environment.part.provider # None
    BY DEF SameBut
  <2>3. QED
    BY <1>1, <2>2 DEF Reaches
<1>3. /\ "create" \in Hooks /\ "change" \in Hooks /\ "destroy" \in Hooks /\ "error" \in Hooks
  BY NamesOfSlots DEF SlotNames
<1>4. /\ Body(g, "create") = Body(f, "create") /\ Body(g, "change") = Body(f, "change")
      /\ Body(g, "destroy") = Body(f, "destroy") /\ Body(g, "error") = Body(f, "error")
      /\ g.tasks = f.tasks
  BY <1>3 DEF SameBut
<1>5. QED
  BY <1>2, <1>4 DEF Runnable

\* To follow a reference changes nothing about where the flow leads.
LEMMA ChaseKeepsPromise ==
  ASSUME FlowOK(flow), Chased # None,
         NEW doc, doc = disk[SlotIn(flow, Chased).ref], IsDocument(doc),
         InlineRefusal(doc, Chased) = None,
         NEW g, g = Filled(flow, Chased, PartOf(doc, Chased))
  PROVE  FlowOK(g) /\ (Promising(g) <=> Promising(flow))
<1>1. PICK f, name, slot, old :
        f = flow /\ name = Chased /\ slot = PartOf(doc, Chased) /\ old = SlotIn(flow, Chased)
  OBVIOUS
<1>2. /\ FlowOK(f) /\ name \in SlotNames /\ Reference(old) /\ old = SlotIn(f, name)
      /\ name \in Hooks => ~Reference(f.environment) /\ ~Reference(f.context)
      /\ doc = disk[old.ref] /\ slot = PartOf(doc, name) /\ g = Filled(f, name, slot)
  BY <1>1, NextReference
<1>3. Usable(doc) /\ ~Mismatch(doc, name) /\ ~Unparsed(doc, name)
  BY <1>1, RefusedReferences
<1>4. /\ Inline(slot) /\ ~Reference(slot)
      /\ name = "environment" => IsEnvironment(slot)
      /\ name = "context" => IsContext(slot)
      /\ name \in Hooks => IsHook(slot)
  BY <1>2, <1>3, PartsFit
<1>5. /\ Follows(old, name) /\ Follows(slot, name)
      /\ Followed(old, name) = slot /\ Followed(slot, name) = slot
  BY <1>2, <1>3, <1>4 DEF Follows, Followed
<1>6. CASE name = "environment"
  <2>1. /\ FlowOK(g) /\ g.tasks = f.tasks /\ g.environment = slot /\ g.context = f.context
        /\ old = f.environment
    BY <1>2, <1>4, <1>6, FillsShared DEF SlotIn
  <2>2. Furnished(g) = Furnished(f)
    BY <1>5, <1>6, <2>1 DEF Furnished
  <2>3. QED
    BY <1>1, <1>5, <1>6, <2>1, <2>2 DEF Promising
<1>7. CASE name = "context"
  <2>1. /\ FlowOK(g) /\ g.tasks = f.tasks /\ g.environment = f.environment /\ g.context = slot
        /\ old = f.context
    BY <1>2, <1>4, <1>7, FillsShared DEF SlotIn
  <2>2. Furnished(g) = Furnished(f)
    BY <1>5, <1>7, <2>1 DEF Furnished
  <2>3. QED
    BY <1>1, <1>5, <1>7, <2>1, <2>2 DEF Promising
<1>8. CASE name \in Hooks
  <2>1. SlotIn(g, name) = slot /\ SameBut(f, g, name)
    BY <1>2, <1>4, <1>8, FillsHook
  <2>2. Furnished(f) = f /\ Furnished(g) = g
    BY <1>2, <1>8, <2>1, FurnishedAlready DEF SameBut
  <2>3. \A other \in Hooks : Body(g, other) = Body(f, other)
    <3>1. Body(g, name) = Body(f, name)
      BY <1>2, <1>5, <2>1 DEF Body
    <3>2. \A other \in Hooks \ {name} : Body(g, other) = Body(f, other)
      BY <2>1 DEF SameBut, Body
    <3>3. QED
      BY <3>1, <3>2
  <2>4. Runnable(g) <=> Runnable(f)
    BY <1>8, <2>1, <2>3, SameRunnable
  <2>5. \A other \in Hooks : Follows(SlotIn(g, other), other) <=> Follows(SlotIn(f, other), other)
    BY <1>2, <1>5, <2>1 DEF SameBut
  <2>6. /\ Follows(f.environment, "environment") /\ Follows(f.context, "context")
        /\ Follows(g.environment, "environment") /\ Follows(g.context, "context")
    BY <1>2, <1>8, <2>1 DEF Follows, SameBut
  <2>7. FlowOK(g)
    BY <2>1 DEF SameBut
  <2>8. QED
    BY <1>1, <2>2, <2>4, <2>5, <2>6, <2>7 DEF Promising
<1>9. QED
  BY <1>2, <1>6, <1>7, <1>8, NamesOfSlots

\* A reference that cannot be followed is a broken promise.
LEMMA ChaseBreaksPromise ==
  ASSUME FlowOK(flow), Chased # None, InlineRefusal(disk[SlotIn(flow, Chased).ref], Chased) # None
  PROVE  ~Promising(flow)
<1>1. PICK f, name, old, doc :
        f = flow /\ name = Chased /\ old = SlotIn(flow, Chased) /\ doc = disk[old.ref]
  OBVIOUS
<1>2. /\ FlowOK(f) /\ name \in SlotNames /\ Reference(old) /\ old = SlotIn(f, name)
      /\ name \in Hooks => ~Reference(f.environment) /\ ~Reference(f.context)
      /\ doc = disk[old.ref] /\ InlineRefusal(doc, name) # None
  BY <1>1, NextReference
<1>3. ~(Usable(doc) /\ ~Mismatch(doc, name) /\ ~Unparsed(doc, name))
  BY <1>2, RefusedReferences
<1>4. ~Follows(old, name)
  BY <1>2, <1>3 DEF Follows
<1>5. CASE name \in {"environment", "context"}
  BY <1>1, <1>2, <1>4, <1>5 DEF Promising, SlotIn
<1>6. CASE name \in Hooks
  <2>1. Furnished(f) = f
    BY <1>2, <1>6, FurnishedAlready
  <2>2. QED
    BY <1>1, <1>2, <1>4, <1>6, <2>1 DEF Promising
<1>7. QED
  BY <1>2, <1>5, <1>6, NamesOfSlots

\* Without references the promise is that the flow can be run.
LEMMA SettledPromise ==
  ASSUME NEW f, FlowOK(f), Settled(f)
  PROVE  Promising(f) <=> Runnable(f)
<1>1. ~Reference(f.environment) /\ ~Reference(f.context)
  <2>1. "environment" \in SlotNames /\ "context" \in SlotNames
    BY DEF SlotNames
  <2>2. QED
    BY <2>1 DEF Settled, SlotIn
<1>2. Furnished(f) = f
  BY <1>1, FurnishedAlready
<1>3. \A name \in Hooks : Follows(SlotIn(f, name), name)
  BY NamesOfSlots DEF Settled, Follows
<1>4. QED
  BY <1>1, <1>2, <1>3 DEF Promising, Follows

\* The flow that is assembled from documents.
LEMMA AssembledFlow ==
  ASSUME NEW docs, docs \in Seq(Range(docs)), \A i \in DOMAIN docs : IsDocument(docs[i]),
         AssemblyRefusal(docs) = None
  PROVE  /\ FlowOK(Assembled(docs))
         /\ \A i \in DOMAIN docs : Unfit(docs[i]) = None
<1>1. /\ docs # <<>> /\ \A i \in DOMAIN docs : Unfit(docs[i]) = None
  <2>1. /\ "empty_target" # None /\ "json_too_deep" # None /\ "schema_invalid" # None
    BY NoneAssumption DEF Refusals
  <2>2. QED
    BY <2>1 DEF AssemblyRefusal
<1>2. Len(docs) \in Nat /\ DOMAIN docs = 1 .. Len(docs)
  OBVIOUS
<1>3. CASE Len(docs) = 1 /\ Class(docs[1]) = "flow"
  <2>1. PICK f : f = Assembled(docs)
    OBVIOUS
  <2>2. f = [tasks |-> docs[1].tasks, environment |-> docs[1].environment,
             context |-> docs[1].context]
    BY <1>3, <2>1 DEF Assembled
  <2>3. IsDocument(docs[1])
    BY <1>2, <1>3
  <2>4. FlowOK(f)
    BY <2>2, <2>3 DEF FlowOK, Total, IsDocument
  <2>5. QED
    BY <1>1, <2>1, <2>4
<1>4. CASE ~(Len(docs) = 1 /\ Class(docs[1]) = "flow")
  <2>1. PICK f, tasks, env, ctx, n :
          /\ f = Assembled(docs) /\ n = Cardinality(Parts(docs))
          /\ tasks = [k \in 1 .. n |-> docs[Nth(Parts(docs), Sooner(docs), k)].tasks[1]]
          /\ env = SharedSlot(docs, "environment") /\ ctx = SharedSlot(docs, "context")
    OBVIOUS
  <2>2. f = [tasks |-> tasks, environment |-> env, context |-> ctx]
    BY <1>4, <2>1 DEF Assembled
  <2>3. n \in Nat
    <3>1. IsFiniteSet(DOMAIN docs)
      BY <1>2, FS_Interval
    <3>2. Parts(docs) \subseteq DOMAIN docs
      BY DEF Parts
    <3>3. QED
      BY <2>1, <3>1, <3>2, FS_Subset, FS_CardinalityType
  <2>4. IsBody(tasks)
    <3>1. DOMAIN tasks = 1 .. n
      BY <2>1
    <3>2. tasks = [k \in 1 .. n |-> tasks[k]]
      BY <2>1
    <3>3. \A k \in 1 .. n : tasks[k] \in Range(tasks)
      BY <3>1 DEF Range
    <3>4. tasks \in [1 .. n -> Range(tasks)]
      BY <3>2, <3>3
    <3>5. QED
      BY <2>3, <3>4 DEF IsBody
  <2>5. IsEnvironment(Absent) /\ IsContext(Absent)
    BY DEF IsEnvironment, IsContext, Leads, Reference, Inline, Absent
  <2>6. IsEnvironment(env)
    <3>1. CASE Shared(docs, "environment") = {}
      BY <2>1, <2>5, <3>1 DEF SharedSlot
    <3>2. CASE Shared(docs, "environment") # {}
      <4>1. PICK k : k = CHOOSE i \in Shared(docs, "environment") : TRUE
        OBVIOUS
      <4>2. k \in DOMAIN docs
        BY <3>2, <4>1 DEF Shared
      <4>3. env = EnvironmentOf(docs[k])
        BY <2>1, <3>2, <4>1 DEF SharedSlot
      <4>4. EnvironmentOf(docs[k]) = PartOf(docs[k], "environment")
        BY DEF PartOf
      <4>5. ~Unparsed(docs[k], "environment") /\ "environment" \in SlotNames
        BY DEF Unparsed, SlotNames
      <4>6. QED
        BY <4>2, <4>3, <4>4, <4>5, PartsFit
    <3>3. QED
      BY <3>1, <3>2
  <2>7. IsContext(ctx)
    <3>1. CASE Shared(docs, "context") = {}
      BY <2>1, <2>5, <3>1 DEF SharedSlot
    <3>2. CASE Shared(docs, "context") # {}
      <4>1. PICK k : k = CHOOSE i \in Shared(docs, "context") : TRUE
        OBVIOUS
      <4>2. k \in DOMAIN docs
        BY <3>2, <4>1 DEF Shared
      <4>3. ctx = docs[k].context
        BY <2>1, <3>2, <4>1 DEF SharedSlot
      <4>4. QED
        BY <4>2, <4>3 DEF IsDocument
    <3>3. QED
      BY <3>1, <3>2
  <2>8. FlowOK(f)
    <3>1. /\ Total(f, {"tasks", "environment", "context"})
          /\ f.tasks = tasks /\ f.environment = env /\ f.context = ctx
      BY <2>2 DEF Total
    <3>2. QED
      BY <2>4, <2>6, <2>7, <3>1 DEF FlowOK
  <2>9. QED
    BY <1>1, <2>1, <2>8
<1>5. QED
  BY <1>3, <1>4

\* The members of a finite set of numbers by rank: different members have
\* different ranks, so that no rank is left out.
LEMMA NthIsMember ==
  ASSUME NEW S \in SUBSET Nat, IsFiniteSet(S), NEW k \in 1 .. Cardinality(S),
         NEW order, order = {p \in S \X S : p[1] < p[2]}
  PROVE  Nth(S, order, k) \in S
<1>1. PICK n, below :
        n = Cardinality(S) /\ below = [i \in S |-> {j \in S : <<j, i>> \in order}]
  OBVIOUS
<1>2. n \in Nat
  BY <1>1, FS_CardinalityType
<1>3. /\ \A i, j \in S : j \in below[i] <=> j < i
      /\ \A i \in S : i \in Int
  BY <1>1
<1>4. \A i \in S : below[i] \subseteq S
  BY <1>1
<1>5. \A i \in S : IsFiniteSet(below[i]) /\ Cardinality(below[i]) \in Nat
  BY <1>4, FS_Subset, FS_CardinalityType
<1>6. ASSUME NEW A, NEW B, IsFiniteSet(B), A \subseteq B, A # B
      PROVE  Cardinality(A) < Cardinality(B)
  <2>1. /\ Cardinality(A) \in Nat /\ Cardinality(B) \in Nat
        /\ Cardinality(A) <= Cardinality(B) /\ Cardinality(A) # Cardinality(B)
    BY <1>6, FS_Subset, FS_CardinalityType
  <2>2. QED
    BY <2>1
<1>7. \A i \in S : Cardinality(below[i]) < n
  <2>1. SUFFICES ASSUME NEW i \in S PROVE Cardinality(below[i]) < n
    OBVIOUS
  <2>2. i \notin below[i]
    BY ONLY <1>3
  <2>3. below[i] # S
    BY <2>2
  <2>4. QED
    BY <1>1, <1>4, <1>6, <2>3
<1>8. \A i, j \in S : i < j => Cardinality(below[i]) < Cardinality(below[j])
  <2>1. SUFFICES ASSUME NEW i \in S, NEW j \in S, i < j
                 PROVE  Cardinality(below[i]) < Cardinality(below[j])
    OBVIOUS
  <2>2. i \in below[j] /\ i \notin below[i]
    BY ONLY <1>3, <2>1
  <2>3. \A m \in below[i] : m \in below[j]
    <3>1. SUFFICES ASSUME NEW m \in S, m \in below[i] PROVE m \in below[j]
      BY <1>4
    <3>2. m < i /\ m \in Int /\ i \in Int /\ j \in Int
      BY ONLY <1>3, <3>1
    <3>3. m < j
      BY ONLY <2>1, <3>2
    <3>4. QED
      BY ONLY <1>3, <3>3
  <2>4. QED
    BY <1>5, <1>6, <2>2, <2>3
<1>9. SUFFICES ASSUME \A i \in S : Cardinality(below[i]) # k - 1 PROVE FALSE
  BY <1>1 DEF Nth
<1>10. PICK all, ranks : all = 0 .. n - 1 /\ ranks = all \ {k - 1}
  OBVIOUS
<1>11. IsFiniteSet(all) /\ Cardinality(all) = n
  <2>1. 0 \in Int /\ n - 1 \in Int
    BY <1>2
  <2>2. IsFiniteSet(0 .. n - 1)
        /\ Cardinality(0 .. n - 1) = IF 0 > n - 1 THEN 0 ELSE (n - 1) - 0 + 1
    BY <2>1, FS_Interval
  <2>3. QED
    BY <1>2, <1>10, <2>2
<1>12. IsFiniteSet(ranks) /\ Cardinality(ranks) < n
  <2>1. k - 1 \in all
    BY <1>1, <1>2, <1>10
  <2>2. ranks \subseteq all /\ ranks # all
    BY <1>10, <2>1
  <2>3. IsFiniteSet(ranks)
    BY <1>11, <2>2, FS_Subset
  <2>4. QED
    BY <1>6, <1>11, <2>2, <2>3
<1>13. PICK rank : rank = [i \in S |-> Cardinality(below[i])]
  OBVIOUS
<1>14. \A i \in S : Cardinality(below[i]) \in ranks
  BY <1>2, <1>5, <1>7, <1>9, <1>10
<1>15. rank \in [S -> ranks]
  BY <1>13, <1>14
<1>16. \E i, j \in S : i # j /\ rank[i] = rank[j]
  BY <1>1, <1>12, <1>15, FS_PigeonHole
<1>17. PICK i \in S, j \in S : i # j /\ Cardinality(below[i]) = Cardinality(below[j])
  BY <1>13, <1>16
<1>18. i < j \/ j < i
  BY ONLY <1>3, <1>17
<1>19. QED
  BY <1>5, <1>8, <1>17, <1>18

\* The entries of a target are files of the project.
LEMMA EntriesAreFiles == Entries \in Seq(Refs)
<1>1. PICK there, order :
        /\ there = {i \in DOMAIN Listing : Present(Listing[i])}
        /\ order = {p \in there \X there : p[1] < p[2]}
  OBVIOUS
<1>2. /\ Listing \in Seq(Refs) /\ DOMAIN Listing = 1 .. Len(Listing) /\ Len(Listing) \in Nat
  BY CommandsAssumption
<1>3. there \in SUBSET Nat /\ there \subseteq DOMAIN Listing /\ IsFiniteSet(there)
  <2>1. IsFiniteSet(DOMAIN Listing)
    BY <1>2, FS_Interval
  <2>2. QED
    BY <1>1, <1>2, <2>1, FS_Subset
<1>4. Cardinality(there) \in Nat
  BY <1>3, FS_CardinalityType
<1>5. \A k \in 1 .. Cardinality(there) : Nth(there, order, k) \in there
  BY <1>1, <1>3, NthIsMember
<1>6. \A k \in 1 .. Cardinality(there) : Listing[Nth(there, order, k)] \in Refs
  <2>1. \A i \in DOMAIN Listing : Listing[i] \in Refs
    BY <1>2
  <2>2. QED
    BY ONLY <1>3, <1>5, <2>1
<1>7. Entries = [k \in 1 .. Cardinality(there) |-> Listing[Nth(there, order, k)]]
  BY <1>1 DEF Entries
<1>8. QED
  BY <1>4, <1>6, <1>7

LEMMA TargetEntries ==
  ASSUME NEW cmd, WellFormed(cmd), NEW t, t = ResolveTarget(cmd), t.code = None
  PROVE  t.entries \in Seq(Refs)
<1>1. PICK named, found :
        /\ named = FirstOf(<<cmd.file, cmd.flow>>)
        /\ found = FirstOf([i \in DOMAIN Candidates |->
                              IF Present(Candidates[i]) THEN Candidates[i] ELSE None])
  OBVIOUS
<1>2. t = IF named = Folder THEN FolderTarget
          ELSE IF named # None THEN IF Present(named) THEN FileTarget(named) ELSE Unresolved
          ELSE IF found # None THEN FileTarget(found)
          ELSE IF FolderLayout THEN FolderTarget ELSE Unresolved
  BY <1>1 DEF ResolveTarget
<1>3. \/ t = FolderTarget \/ t = Unresolved
      \/ \E r : r # None /\ t = FileTarget(r)
  BY <1>2
<1>4. FolderTarget.entries \in Seq(Refs) /\ Unresolved.entries \in Seq(Refs)
  BY EntriesAreFiles DEF FolderTarget, Unresolved
<1>5. ASSUME NEW r, r # None, t = FileTarget(r) PROVE t.entries \in Seq(Refs)
  <2>1. t.file = r /\ t.entries = <<r>>
    BY <1>5 DEF FileTarget
  <2>2. r \in Refs
    BY <1>5, <2>1, TargetIsFile
  <2>3. QED
    BY <2>1, <2>2
<1>6. QED
  BY <1>3, <1>4, <1>5

-----------------------------------------------------------------------------
(* The verdict on a target.                                                *)

\* Before the target of the one preflight is found, nothing has been read.
Unread == phase = "load" /\ loaded = <<>>
Ran(c) == c.at # 0 /\ c.cmd.op \in Preflighted /\ StageOf(c) \in Preflighting

ReaderInv ==
  /\ Unread \/ Ran(session[Reader])
  /\ \A s \in Shells :
       session[s].over = FALSE /\ session[s].cmd.op \in Preflighted => s = Reader

\* What has been read is what is there, and the flow under assembly leads where
\* the assembled one does.
TargetFiles == [i \in DOMAIN target |-> disk[target[i]]]

Foreseen ==
  /\ phase = "load" => \A i \in DOMAIN loaded :
       loaded[i] = TargetFiles[i] /\ LoadRefusal(loaded[i]) = None
  /\ phase = "inline" =>
       /\ \A i \in DOMAIN TargetFiles : Usable(TargetFiles[i])
       /\ AssemblyRefusal(TargetFiles) = None
       /\ Promising(flow) <=> Promising(Assembled(TargetFiles))
  /\ phase = "accepted" => Acceptable
  /\ phase = "refused" => ~Acceptable

PreflightInv ==
  /\ target \in Seq(Refs) /\ edits \in Nat
  /\ loaded \in Seq(Range(loaded)) /\ Len(loaded) <= Len(target)
  /\ \A i \in DOMAIN loaded : IsDocument(loaded[i])
  /\ FlowOK(flow)
  /\ phase = "accepted" => Settled(flow) /\ CheckRefusal(flow) = None
  /\ edits = 0 => Foreseen

\* As long as no file changes, neither does what the files promise.
LEMMA PromiseFrame ==
  ASSUME UNCHANGED <<disk, wired>>
  PROVE  \A f : Promising(f)' <=> Promising(f)
<1>1. \A slot, name : Followed(slot, name)' = Followed(slot, name)
  BY DEF Followed
<1>2. \A f, name : Body(f, name)' = Body(f, name)
  BY <1>1 DEF Body
<1>3. \A f : EveryBody(f)' = EveryBody(f)
  BY <1>2 DEF EveryBody
<1>4. \A f, port : Reaches(f, port)' <=> Reaches(f, port)
  BY <1>3 DEF Reaches
<1>5. \A f : Runnable(f)' <=> Runnable(f)
  BY <1>2, <1>4 DEF Runnable
<1>6. \A slot, name : Follows(slot, name)' <=> Follows(slot, name)
  BY DEF Follows
<1>7. \A f : Furnished(f)' = Furnished(f)
  BY <1>1 DEF Furnished
<1>8. QED
  BY <1>5, <1>6, <1>7 DEF Promising

LEMMA AcceptableFrame ==
  ASSUME UNCHANGED <<disk, wired, target>>
  PROVE  Acceptable' <=> Acceptable
BY PromiseFrame DEF Acceptable

LEMMA AcceptableIs ==
  Acceptable <=> /\ \A i \in DOMAIN TargetFiles : Usable(TargetFiles[i])
                 /\ AssemblyRefusal(TargetFiles) = None
                 /\ Promising(Assembled(TargetFiles))
BY DEF Acceptable, TargetFiles

\* Outside the preflight: nothing it looks at changes, or an edit is counted.
LEMMA PreflightFrame ==
  ASSUME PreflightInv, UNCHANGED <<target, wired, phase, loaded, flow>>,
         UNCHANGED <<disk, edits>> \/ edits' = edits + 1
  PROVE  PreflightInv'
<1>1. edits' \in Nat
  BY DEF PreflightInv
<1>2. phase' = "accepted" => Settled(flow') /\ CheckRefusal(flow)' = None
  BY DEF PreflightInv, CheckRefusal
<1>3. ASSUME edits' = 0 PROVE Foreseen'
  <2>1. UNCHANGED <<disk, edits>> /\ Foreseen
    BY <1>3 DEF PreflightInv
  <2>2. TargetFiles' = TargetFiles
    BY <2>1 DEF TargetFiles
  <2>3. Promising(flow)' <=> Promising(flow)
    BY <2>1, PromiseFrame
  <2>4. \A f : Promising(f)' <=> Promising(f)
    BY <2>1, PromiseFrame
  <2>5. Acceptable' <=> Acceptable
    BY <2>1, AcceptableFrame
  <2>6. QED
    BY <2>1, <2>2, <2>3, <2>4, <2>5 DEF Foreseen
<1>4. QED
  BY <1>1, <1>2, <1>3 DEF PreflightInv

LEMMA LoadStep ==
  ASSUME PreflightInv, DiskInv, Load
  PROVE  PreflightInv'
<1>1. PICK n, doc : n = Len(loaded) + 1 /\ doc = disk[target[n]]
  OBVIOUS
<1>2. /\ phase = "load" /\ Len(loaded) < Len(target)
      /\ IF LoadRefusal(doc) = None
         THEN loaded' = Append(loaded, doc) /\ UNCHANGED <<phase, error>>
         ELSE Refuse(LoadRefusal(doc)) /\ UNCHANGED loaded
      /\ UNCHANGED <<disk, target, wired, flow, edits>>
  BY <1>1 DEF Load
<1>3. /\ target \in Seq(Refs) /\ Len(target) \in Nat /\ DOMAIN target = 1 .. Len(target)
      /\ loaded \in Seq(Range(loaded)) /\ Len(loaded) \in Nat
      /\ DOMAIN loaded = 1 .. Len(loaded)
  BY DEF PreflightInv
<1>4. n \in DOMAIN target /\ target[n] \in Refs /\ TargetFiles[n] = doc
  BY <1>1, <1>2, <1>3 DEF TargetFiles
<1>5. TargetFiles' = TargetFiles /\ DOMAIN TargetFiles = DOMAIN target
  BY <1>2 DEF TargetFiles
<1>6. CASE LoadRefusal(doc) = None
  <2>1. doc # Missing
    <3>1. "reference_not_found" # None
      BY NoneAssumption DEF Refusals
    <3>2. QED
      BY <1>6, <3>1 DEF LoadRefusal
  <2>2. IsDocument(doc)
    BY <1>1, <1>4, <2>1 DEF DiskInv, Shaped, Present
  <2>3. loaded' = Append(loaded, doc) /\ phase' = "load"
    BY <1>2, <1>6
  <2>4. /\ Len(loaded') = n /\ DOMAIN loaded' = 1 .. n
        /\ loaded'[n] = doc /\ \A i \in 1 .. Len(loaded) : loaded'[i] = loaded[i]
    BY <1>1, <1>3, <2>3
  <2>5. \A i \in 1 .. n : i \in 1 .. Len(loaded) \/ i = n
    BY <1>1, <1>3
  <2>6. loaded' \in Seq(Range(loaded'))
    <3>1. \A i \in 1 .. n : loaded'[i] \in Range(loaded')
      BY <2>4 DEF Range
    <3>2. loaded \in Seq(Range(loaded) \cup {doc})
      BY <1>3
    <3>3. loaded' \in Seq(Range(loaded) \cup {doc})
      BY <2>3, <3>2
    <3>4. loaded' = [i \in 1 .. n |-> loaded'[i]]
      BY <2>4, <3>3
    <3>5. n \in Nat
      BY <1>1, <1>3
    <3>6. QED
      BY <3>1, <3>4, <3>5
  <2>7. Len(loaded') <= Len(target)
    BY <1>1, <1>2, <1>3, <2>4
  <2>8. \A i \in DOMAIN loaded' : IsDocument(loaded'[i])
    BY <1>3, <2>2, <2>4, <2>5 DEF PreflightInv
  <2>9. ASSUME edits' = 0 PROVE Foreseen'
    <3>1. \A i \in 1 .. Len(loaded) :
            loaded[i] = TargetFiles[i] /\ LoadRefusal(loaded[i]) = None
      BY <1>2, <1>3, <2>9 DEF PreflightInv, Foreseen
    <3>2. \A i \in DOMAIN loaded' :
            loaded'[i] = TargetFiles[i] /\ LoadRefusal(loaded'[i]) = None
      BY <1>4, <1>6, <2>4, <2>5, <3>1
    <3>3. (\A i \in DOMAIN loaded :
             loaded[i] = TargetFiles[i] /\ LoadRefusal(loaded[i]) = None)'
      BY <1>5, <3>2 DEF LoadRefusal, Class
    <3>4. QED
      BY <2>3, <3>3 DEF Foreseen
  <2>10. QED
    BY <1>2, <1>3, <2>3, <2>6, <2>7, <2>8, <2>9 DEF PreflightInv
<1>7. CASE LoadRefusal(doc) # None
  <2>1. phase' = "refused" /\ loaded' = loaded
    BY <1>2, <1>7 DEF Refuse
  <2>2. ~Acceptable'
    <3>1. ~Acceptable
      BY <1>4, <1>5, <1>7, AcceptableIs DEF Usable
    <3>2. QED
      BY <1>2, <3>1, AcceptableFrame
  <2>3. Foreseen'
    BY <2>1, <2>2 DEF Foreseen
  <2>4. QED
    BY <1>2, <2>1, <2>3 DEF PreflightInv
<1>8. QED
  BY <1>6, <1>7

LEMMA AssembleStep ==
  ASSUME PreflightInv, Assemble
  PROVE  PreflightInv'
<1>1. /\ phase = "load" /\ Len(loaded) = Len(target)
      /\ IF AssemblyRefusal(loaded) = None
         THEN phase' = "inline" /\ flow' = Assembled(loaded) /\ UNCHANGED error
         ELSE Refuse(AssemblyRefusal(loaded)) /\ UNCHANGED flow
      /\ UNCHANGED <<disk, target, wired, loaded, edits>>
  BY DEF Assemble
<1>2. /\ target \in Seq(Refs) /\ Len(target) \in Nat /\ DOMAIN target = 1 .. Len(target)
      /\ loaded \in Seq(Range(loaded)) /\ DOMAIN loaded = 1 .. Len(loaded)
      /\ \A i \in DOMAIN loaded : IsDocument(loaded[i])
  BY DEF PreflightInv
<1>3. TargetFiles' = TargetFiles
  BY <1>1 DEF TargetFiles
<1>4. ASSUME edits = 0
      PROVE  /\ loaded = TargetFiles
             /\ \A i \in DOMAIN loaded : LoadRefusal(loaded[i]) = None
  <2>1. \A i \in DOMAIN loaded :
          loaded[i] = TargetFiles[i] /\ LoadRefusal(loaded[i]) = None
    BY <1>1, <1>4 DEF PreflightInv, Foreseen
  <2>2. TargetFiles = [i \in DOMAIN loaded |-> TargetFiles[i]]
    BY <1>1, <1>2 DEF TargetFiles
  <2>3. loaded = [i \in DOMAIN loaded |-> loaded[i]]
    BY <1>2
  <2>4. QED
    BY <2>1, <2>2, <2>3
<1>5. CASE AssemblyRefusal(loaded) = None
  <2>1. phase' = "inline" /\ flow' = Assembled(loaded)
    BY <1>1, <1>5
  <2>2. /\ FlowOK(Assembled(loaded))
        /\ \A i \in DOMAIN loaded : Unfit(loaded[i]) = None
    BY <1>2, <1>5, AssembledFlow
  <2>3. FlowOK(flow')
    BY <2>1, <2>2
  <2>4. ASSUME edits' = 0 PROVE Foreseen'
    <3>1. loaded = TargetFiles /\ \A i \in DOMAIN loaded : LoadRefusal(loaded[i]) = None
      BY <1>1, <1>4, <2>4
    <3>2. /\ \A i \in DOMAIN TargetFiles : Usable(TargetFiles[i])
          /\ AssemblyRefusal(TargetFiles) = None
      BY <1>5, <2>2, <3>1 DEF Usable
    <3>3. flow' = Assembled(TargetFiles)
      BY <2>1, <3>1
    <3>4. Promising(flow)' <=> Promising(Assembled(TargetFiles))'
      BY <1>3, <3>3 DEF Assembled
    <3>5. QED
      BY <1>3, <2>1, <3>2, <3>4 DEF Foreseen
  <2>5. QED
    BY <1>1, <1>2, <2>1, <2>3, <2>4 DEF PreflightInv
<1>6. CASE AssemblyRefusal(loaded) # None
  <2>1. phase' = "refused" /\ flow' = flow
    BY <1>1, <1>6 DEF Refuse
  <2>2. ASSUME edits' = 0 PROVE Foreseen'
    <3>1. ~Acceptable
      BY <1>1, <1>4, <1>6, <2>2, AcceptableIs
    <3>2. ~Acceptable'
      BY <1>1, <3>1, AcceptableFrame
    <3>3. QED
      BY <2>1, <3>2 DEF Foreseen
  <2>3. QED
    BY <1>1, <2>1, <2>2 DEF PreflightInv
<1>7. QED
  BY <1>5, <1>6

LEMMA ChaseStep ==
  ASSUME PreflightInv, DiskInv, Chase
  PROVE  PreflightInv'
<1>1. PICK doc, slot : slot = SlotIn(flow, Chased) /\ doc = disk[slot.ref]
  OBVIOUS
<1>2. /\ phase = "inline" /\ Chased # None
      /\ IF InlineRefusal(doc, Chased) = None
         THEN /\ flow' = Filled(flow, Chased, PartOf(doc, Chased))
              /\ UNCHANGED <<phase, error>>
         ELSE Refuse(InlineRefusal(doc, Chased)) /\ UNCHANGED flow
      /\ UNCHANGED <<disk, target, wired, loaded, edits>>
  BY <1>1 DEF Chase
<1>3. TargetFiles' = TargetFiles
  BY <1>2 DEF TargetFiles
<1>4. FlowOK(flow)
  BY DEF PreflightInv
<1>5. CASE InlineRefusal(doc, Chased) = None
  <2>1. flow' = Filled(flow, Chased, PartOf(doc, Chased)) /\ phase' = "inline"
    BY <1>2, <1>5
  <2>2. IsDocument(doc)
    <3>1. Chased \in SlotNames /\ Reference(slot)
      BY <1>1, <1>2, NextReference
    <3>2. Leads(slot)
      <4>1. CASE Chased = "environment"
        BY <1>1, <1>4, <4>1 DEF SlotIn, FlowOK, IsEnvironment
      <4>2. CASE Chased = "context"
        BY <1>1, <1>4, <4>2 DEF SlotIn, FlowOK, IsContext
      <4>3. CASE Chased = "bootstrap"
        <5>1. slot = IF Inline(flow.environment) THEN flow.environment.part.bootstrap
                     ELSE Absent
          BY <1>1, <4>3 DEF SlotIn
        <5>2. ~Reference(Absent)
          BY DEF Reference, Absent
        <5>3. QED
          BY <1>4, <3>1, <5>1, <5>2 DEF FlowOK, IsEnvironment, IsHook
      <4>4. CASE Chased \in Range(HookNames)
        <5>1. slot = IF Inline(flow.context) THEN flow.context.part.hooks[Chased] ELSE Absent
          BY <1>1, <4>4, NamesOfSlots DEF SlotIn
        <5>2. ~Reference(Absent)
          BY DEF Reference, Absent
        <5>3. QED
          BY <1>4, <3>1, <4>4, <5>1, <5>2 DEF FlowOK, IsContext, IsHook
      <4>5. QED
        BY <3>1, <4>1, <4>2, <4>3, <4>4, NamesOfSlots DEF SlotNames
    <3>3. slot.ref \in Refs
      BY <3>1, <3>2 DEF Leads
    <3>4. doc # Missing
      <4>1. Usable(doc)
        BY <1>5, RefusedReferences
      <4>2. "reference_not_found" # None
        BY NoneAssumption DEF Refusals
      <4>3. QED
        BY <4>1, <4>2 DEF Usable, LoadRefusal
    <3>5. QED
      BY <1>1, <3>3, <3>4 DEF DiskInv, Shaped, Present
  <2>3. PICK g : g = flow'
    OBVIOUS
  <2>4. FlowOK(g) /\ (Promising(g) <=> Promising(flow))
    BY <1>1, <1>2, <1>4, <1>5, <2>1, <2>2, <2>3, ChaseKeepsPromise
  <2>5. ASSUME edits' = 0 PROVE Foreseen'
    <3>1. /\ \A i \in DOMAIN TargetFiles : Usable(TargetFiles[i])
          /\ AssemblyRefusal(TargetFiles) = None
          /\ Promising(flow) <=> Promising(Assembled(TargetFiles))
      BY <1>2, <2>5 DEF PreflightInv, Foreseen
    <3>2. Promising(g) <=> Promising(Assembled(TargetFiles))
      BY <2>4, <3>1
    <3>3. \A f : Promising(f)' <=> Promising(f)
      BY <1>2, PromiseFrame
    <3>4. Promising(flow)' <=> Promising(g)
      BY <2>3, <3>3
    <3>5. Promising(Assembled(TargetFiles))' <=> Promising(Assembled(TargetFiles))
      <4>1. PICK h : h = Assembled(TargetFiles)
        OBVIOUS
      <4>2. h = Assembled(TargetFiles)'
        BY <1>3, <4>1 DEF Assembled
      <4>3. QED
        BY <3>3, <4>1, <4>2
    <3>6. QED
      BY <1>3, <2>1, <3>1, <3>2, <3>4, <3>5 DEF Foreseen
  <2>6. QED
    BY <1>2, <2>1, <2>3, <2>4, <2>5 DEF PreflightInv
<1>6. CASE InlineRefusal(doc, Chased) # None
  <2>1. phase' = "refused" /\ flow' = flow
    BY <1>2, <1>6 DEF Refuse
  <2>2. ASSUME edits' = 0 PROVE Foreseen'
    <3>1. ~Promising(flow)
      BY <1>1, <1>2, <1>4, <1>6, ChaseBreaksPromise
    <3>2. ~Acceptable
      BY <1>2, <2>2, <3>1, AcceptableIs DEF PreflightInv, Foreseen
    <3>3. ~Acceptable'
      BY <1>2, <3>2, AcceptableFrame
    <3>4. QED
      BY <2>1, <3>3 DEF Foreseen
  <2>3. QED
    BY <1>2, <2>1, <2>2 DEF PreflightInv
<1>7. QED
  BY <1>5, <1>6

LEMMA CheckStep ==
  ASSUME PreflightInv, Check
  PROVE  PreflightInv'
<1>1. /\ phase = "inline" /\ Chased = None
      /\ IF CheckRefusal(flow) = None
         THEN phase' = "accepted" /\ UNCHANGED error
         ELSE Refuse(CheckRefusal(flow))
      /\ UNCHANGED <<disk, target, wired, loaded, flow, edits>>
  BY DEF Check
<1>2. FlowOK(flow) /\ Settled(flow)
  BY <1>1, NextReference DEF PreflightInv, Settled
<1>3. CheckRefusal(flow) = None <=> Promising(flow)
  BY <1>2, CheckDecides, SettledPromise
<1>4. ASSUME edits = 0 PROVE Promising(flow) <=> Acceptable
  BY <1>1, <1>4, AcceptableIs DEF PreflightInv, Foreseen
<1>5. CheckRefusal(flow)' = CheckRefusal(flow)
  BY <1>1 DEF CheckRefusal
<1>6. Acceptable' <=> Acceptable
  BY <1>1, AcceptableFrame
<1>7. CASE CheckRefusal(flow) = None
  <2>1. phase' = "accepted"
    BY <1>1, <1>7
  <2>2. ASSUME edits' = 0 PROVE Foreseen'
    BY <1>1, <1>3, <1>4, <1>6, <1>7, <2>1, <2>2 DEF Foreseen
  <2>3. QED
    BY <1>1, <1>2, <1>5, <1>7, <2>1, <2>2 DEF PreflightInv
<1>8. CASE CheckRefusal(flow) # None
  <2>1. phase' = "refused"
    BY <1>1, <1>8 DEF Refuse
  <2>2. ASSUME edits' = 0 PROVE Foreseen'
    BY <1>1, <1>3, <1>4, <1>6, <1>8, <2>1, <2>2 DEF Foreseen
  <2>3. QED
    BY <1>1, <2>1, <2>2 DEF PreflightInv
<1>9. QED
  BY <1>7, <1>8

\* A target is found before anything is read.
LEMMA ResolveStep ==
  ASSUME PreflightInv, SessInv, ReaderInv, NEW s \in Shells, Resolve(s)
  PROVE  PreflightInv'
<1>1. PICK t : t = ResolveTarget(session[s].cmd)
  OBVIOUS
<1>2. /\ At(s, "resolve")
      /\ IF t.code # None THEN Leave(s, ExitCode(t.code)) /\ UNCHANGED <<target, edits>>
         ELSE target' = t.entries /\ edits' = 0
      /\ UNCHANGED <<disk, wired, phase, loaded, flow, error>>
  BY <1>1 DEF Resolve
<1>3. /\ Unmarked(session[s]) /\ Placed(session[s]) /\ WellFormed(session[s].cmd)
      /\ StageOf(session[s]) = "resolve" /\ session[s].over = FALSE
  BY <1>2, AtWork DEF SessInv, Unmarked
<1>4. CASE t.code # None
  BY <1>2, <1>4, PreflightFrame
<1>5. CASE t.code = None
  <2>1. t.entries \in Seq(Refs)
    BY <1>1, <1>3, <1>5, TargetEntries
  <2>2. session[s].cmd.op \in Preflighted
    <3>1. StageOK(session[s].cmd.op, Route(session[s].cmd.op), session[s].at)
      BY <1>3, StageOrder DEF WellFormed, RouteOK, Placed
    <3>2. QED
      BY <1>3, <3>1 DEF StageOK, StageOf
  <2>3. s = Reader
    BY <1>3, <2>2 DEF ReaderInv
  <2>4. Unread
    BY <1>3, <2>3 DEF ReaderInv, Ran, Preflighting
  <2>5. target' = t.entries /\ edits' = 0
    BY <1>2, <1>5
  <2>6. phase' = "load" /\ loaded' = <<>> /\ Len(loaded') <= Len(target')
    BY <1>2, <2>1, <2>4, <2>5 DEF Unread
  <2>7. Foreseen'
    BY <2>6 DEF Foreseen
  <2>8. QED
    BY <1>2, <2>1, <2>4, <2>5, <2>6, <2>7 DEF PreflightInv, Unread
<1>6. QED
  BY <1>4, <1>5

-----------------------------------------------------------------------------
(* One shell preflights, and one target.                                   *)

\* A session that goes on past the preflight stays past it.
LEMMA StaysRan ==
  ASSUME NEW s, Good(session[s]), NEW d, Unmarked(session[s]), Quiet(session[s], d),
         Ran(session[s])
  PROVE  Ran(d)
<1>1. PICK c : c = session[s]
  OBVIOUS
<1>2. /\ d.cmd.op = c.cmd.op /\ d.at # 0 /\ SessionOK(d)
      /\ d.at = c.at \/ (d.at = c.at + 1 /\ d.over = FALSE)
  BY <1>1 DEF Quiet
<1>3. CASE d.at = c.at
  BY <1>1, <1>2, <1>3 DEF Ran, StageOf
<1>4. CASE d.at = c.at + 1 /\ d.over = FALSE
  <2>1. Placed(d)
    BY <1>2, <1>4 DEF SessionOK, Unstarted, Reading, Writing, Finished
  <2>2. Placed(c) /\ WellFormed(c.cmd)
    <3>1. SessionOK(c) /\ c.at # 0 /\ c.over = FALSE /\ WellFormed(c.cmd)
      BY <1>1 DEF Good, Ran, Unmarked
    <3>2. QED
      BY <3>1 DEF SessionOK, Unstarted, Reading, Writing, Finished
  <2>3. RouteOK(c.cmd.op, Route(c.cmd.op))
    BY <2>2, StageOrder DEF WellFormed
  <2>4. StageOK(c.cmd.op, Route(c.cmd.op), c.at)
    BY <2>2, <2>3 DEF RouteOK, Placed
  <2>5. c.at < Len(Route(c.cmd.op))
    BY <1>2, <1>4, <2>1, <2>2, <2>3 DEF RouteOK, Placed
  <2>6. QED
    BY <1>1, <1>2, <1>4, <2>4, <2>5 DEF Ran, StageOf, StageOK
<1>5. QED
  BY <1>2, <1>3, <1>4

LEMMA ReaderFrame ==
  ASSUME SessInv, ReaderInv, UNCHANGED <<phase, loaded>>,
         NEW s \in Shells, NEW d, session' = [session EXCEPT ![s] = d],
         d.over = FALSE => session[s].over = FALSE /\ d.cmd.op = session[s].cmd.op,
         Ran(session[s]) => Ran(d)
  PROVE  ReaderInv'
<1>1. /\ session'[s] = d /\ \A t \in Shells \ {s} : session'[t] = session[t]
  BY Frame DEF SessInv
<1>2. Unread' \/ Ran(session'[Reader])
  <2>1. Unread \/ Ran(session'[Reader])
    BY <1>1, CommandsAssumption DEF ReaderInv
  <2>2. Unread' <=> Unread
    BY DEF Unread
  <2>3. QED
    BY <2>1, <2>2
<1>3. \A t \in Shells :
        session'[t].over = FALSE /\ session'[t].cmd.op \in Preflighted => t = Reader
  BY <1>1 DEF ReaderInv
<1>4. QED
  BY <1>2, <1>3 DEF ReaderInv, Ran, StageOf

LEMMA ReaderInvStep ==
  ASSUME SessInv, DiskInv, ReaderInv, [Next]_vars
  PROVE  ReaderInv'
<1>1. ASSUME UNCHANGED <<session, phase, loaded>> PROVE ReaderInv'
  BY <1>1 DEF ReaderInv, Unread, Ran, StageOf
<1>2. CASE PreflightRuns
  <2>1. UNCHANGED session /\ At(Reader, "preflight") /\ Reader \in Shells
    BY <1>2, CommandsAssumption DEF PreflightRuns, cmdVars
  <2>2. /\ Placed(session[Reader]) /\ WellFormed(session[Reader].cmd)
        /\ StageOf(session[Reader]) = "preflight" /\ session[Reader].at # 0
    BY <2>1, AtWork DEF SessInv
  <2>3. StageOK(session[Reader].cmd.op, Route(session[Reader].cmd.op), session[Reader].at)
    BY <2>2, StageOrder DEF WellFormed, RouteOK, Placed
  <2>4. Ran(session[Reader])
    BY <2>2, <2>3 DEF Ran, StageOK, StageOf, Preflighting
  <2>5. QED
    BY <2>1, <2>4 DEF ReaderInv, Ran, StageOf
<1>3. CASE Editor
  BY <1>1, <1>3 DEF Editor, Edit, cmdVars
<1>4. ASSUME NEW s \in Shells, Reads(s) PROVE ReaderInv'
  <2>1. QuietStep(s) /\ UNCHANGED <<phase, loaded>>
    BY <1>4, ReadsAreQuiet
    DEF Reads, Begin, Resolve, Settle, Single, Judged, LoadManifest, Invoke, ValidateNext,
        Format, ReadRegistry, preVars
  <2>2. PICK d : Quiet(session[s], d) /\ session' = [session EXCEPT ![s] = d]
    BY <2>1 DEF QuietStep
  <2>3. Unmarked(session[s]) /\ Good(session[s])
    BY <2>1 DEF QuietStep, SessInv
  <2>4. session[s].over = FALSE /\ d.cmd.op = session[s].cmd.op
    BY <2>2, <2>3 DEF Unmarked, Quiet
  <2>5. Ran(session[s]) => Ran(d)
    BY <2>2, <2>3, StaysRan
  <2>6. QED
    BY ONLY SessInv, ReaderInv, <1>4, <2>1, <2>2, <2>4, <2>5, ReaderFrame
<1>5. ASSUME NEW s \in Shells, At(s, "write"), UNCHANGED <<phase, loaded>>, NEW d,
             session' = [session EXCEPT ![s] = d],
             d.over = FALSE => d.cmd = session[s].cmd
      PROVE  ReaderInv'
  <2>1. /\ session[s].over = FALSE
        /\ session[s].cmd.op \in {"fmt", "init", "register", "remove"}
    BY <1>5, AtWrite DEF SessInv
  <2>2. ~Ran(session[s])
    BY <2>1 DEF Ran, Preflighted
  <2>3. QED
    BY <1>5, <2>1, <2>2, ReaderFrame
<1>6. ASSUME NEW s \in Shells, Truncate(s) PROVE ReaderInv'
  <2>1. TruncateStep(s) /\ At(s, "write") /\ UNCHANGED <<phase, loaded>>
    BY <1>6, TruncateMarks DEF Truncate, SessInv
  <2>2. PICK d : session' = [session EXCEPT ![s] = d] /\ d.cmd = session[s].cmd
    BY <2>1 DEF TruncateStep
  <2>3. QED
    BY <1>5, <2>1, <2>2
<1>7. ASSUME NEW s \in Shells, Fill(s) PROVE ReaderInv'
  <2>1. FillStep(s) /\ At(s, "write") /\ UNCHANGED <<phase, loaded>>
    BY <1>7, FillWrites DEF Fill, SessInv
  <2>2. PICK d : session' = [session EXCEPT ![s] = d] /\ d.cmd = session[s].cmd
    BY <2>1 DEF FillStep
  <2>3. QED
    BY <1>5, <2>1, <2>2
<1>8. ASSUME NEW s \in Shells, WriteFails(s) \/ Killed(s) PROVE ReaderInv'
  <2>1. FailStep(s) /\ At(s, "write") /\ UNCHANGED <<phase, loaded>>
    BY <1>8, FaultEnds DEF WriteFails, Killed, SessInv, preVars
  <2>2. PICK d : session' = [session EXCEPT ![s] = d] /\ d.over = TRUE
    BY <2>1 DEF FailStep
  <2>3. QED
    BY <1>5, <2>1, <2>2
<1>9. CASE UNCHANGED vars
  BY <1>1, <1>9 DEF vars, preVars, cmdVars
<1>10. QED
  BY <1>2, <1>3, <1>4, <1>6, <1>7, <1>8, <1>9 DEF Next, Reads

\* Every other operation leaves alone what the preflight has, and counts what
\* it changes of the files.
LEMMA PreflightInvStep ==
  ASSUME SessInv, DiskInv, ReaderInv, PreflightInv, [Next]_vars
  PROVE  PreflightInv'
<1>1. CASE PreflightRuns
  BY <1>1, LoadStep, AssembleStep, ChaseStep, CheckStep DEF PreflightRuns, PreflightStep
<1>2. CASE Editor
  BY <1>2, PreflightFrame DEF Editor, Edit
<1>3. ASSUME NEW s \in Shells, Resolve(s) PROVE PreflightInv'
  BY <1>3, ResolveStep
<1>4. ASSUME NEW s \in Shells,
             \/ Begin(s) \/ Settle(s) \/ Single(s) \/ Judged(s) \/ LoadManifest(s)
             \/ Invoke(s) \/ ValidateNext(s) \/ Format(s) \/ ReadRegistry(s)
             \/ WriteFails(s) \/ Killed(s)
      PROVE  PreflightInv'
  <2>1. UNCHANGED preVars
    BY <1>4
    DEF Begin, Settle, Single, Judged, LoadManifest, Invoke, ValidateNext, Format,
        ReadRegistry, WriteFails, Killed
  <2>2. QED
    BY <2>1, PreflightFrame DEF preVars
<1>5. ASSUME NEW s \in Shells, Truncate(s) \/ Fill(s) PROVE PreflightInv'
  <2>1. UNCHANGED <<target, wired, phase, loaded, flow>>
    BY <1>5 DEF Truncate, Fill
  <2>2. \E file, text : Put(file, text)
    BY <1>5 DEF Truncate, Fill
  <2>3. UNCHANGED <<disk, edits>> \/ edits' = edits + 1
    BY <2>2 DEF Put
  <2>4. QED
    BY <2>1, <2>3, PreflightFrame
<1>6. CASE UNCHANGED vars
  BY <1>6, PreflightFrame DEF vars, preVars
<1>7. QED
  BY <1>1, <1>2, <1>3, <1>4, <1>5, <1>6 DEF Next

-----------------------------------------------------------------------------
(* The beginning.                                                          *)

\* A shell before its command, and one without a command.
LEMMA WaitingIsGood ==
  ASSUME NEW cmd, cmd = None \/ WellFormed(cmd)
  PROVE  /\ SessionOK(Waiting(cmd)) /\ CallInv(Waiting(cmd)) /\ ~Drives(Waiting(cmd))
         /\ Waiting(cmd).at = 0
<1>1. PICK c : c = Waiting(cmd)
  OBVIOUS
<1>2. /\ IsSession(c) /\ c.cmd = cmd /\ c.at = 0 /\ c.over = (cmd = None) /\ c.exit = None
      /\ c.todo = <<>> /\ c.open = FALSE /\ c.marks = {} /\ c.failed = FALSE
      /\ c.calls = <<>> /\ c.first = None
  BY <1>1 DEF Waiting, IsSession, Total, Fields
<1>3. CASE cmd = None
  <2>1. c.over = TRUE
    BY <1>2, <1>3
  <2>2. Finished(c)
    BY <1>2, <2>1 DEF Finished
  <2>3. QED
    BY <1>1, <1>2, <2>1, <2>2 DEF SessionOK, CallInv, Drives
<1>4. CASE cmd # None
  <2>1. c.over = FALSE
    BY <1>2, <1>4
  <2>2. Unstarted(c)
    BY <1>2, <1>4, <2>1 DEF Unstarted, Unmarked
  <2>3. QED
    BY <1>1, <1>2, <2>1, <2>2 DEF SessionOK, CallInv, Drives, Silent
<1>5. QED
  BY <1>3, <1>4

LEMMA InitInv == Init => Inv
<1> SUFFICES ASSUME Init PROVE Inv
  OBVIOUS
<1>1. PICK sit \in Situations :
        /\ disk = sit.disk /\ registry = sit.registry
        /\ session = [sh \in Shells |-> Waiting(sit.commands[sh])]
  BY DEF Init, PreflightInit
<1>2. /\ Total(disk, Refs)
      /\ \A r \in Refs : disk[r] = Missing \/ Full(disk[r])
      /\ \A s \in Shells : sit.commands[s] = None \/ WellFormed(sit.commands[s])
  BY <1>1, SituationsAssumption
<1>3. ledger = registry.entries /\ Total(missed, Shells)
  BY DEF Init, Total
<1>4. \A s \in Shells : /\ SessionOK(session[s]) /\ CallInv(session[s])
                        /\ ~Drives(session[s]) /\ session[s].at = 0
  BY <1>1, <1>2, WaitingIsGood
<1>5. SessInv
  <2>1. Total(session, Shells)
    BY <1>1 DEF Total
  <2>2. QED
    BY <1>4, <2>1 DEF SessInv, Good
<1>6. DiskInv
  BY <1>2 DEF DiskInv, Shaped, Present, Full
<1>7. RegistryInv
  BY <1>3, <1>4 DEF RegistryInv, Agree, Holding
<1>8. QED
  BY <1>5, <1>6, <1>7 DEF Inv

LEMMA InitVerdict == Init => ReaderInv /\ PreflightInv
<1> SUFFICES ASSUME Init PROVE ReaderInv /\ PreflightInv
  OBVIOUS
<1>1. PICK sit \in Situations :
        session = [sh \in Shells |-> Waiting(sit.commands[sh])]
  BY DEF Init
<1>2. /\ target = <<>> /\ phase = "load" /\ loaded = <<>> /\ flow = NoFlow /\ edits = 0
  BY DEF Init, PreflightInit
<1>3. ReaderInv
  <2>1. ASSUME NEW s \in Shells, session[s].over = FALSE, session[s].cmd.op \in Preflighted
        PROVE  s = Reader
    <3>1. session[s].cmd = sit.commands[s] /\ session[s].over = (sit.commands[s] = None)
      BY <1>1 DEF Waiting
    <3>2. sit.commands[s] # None
      BY <2>1, <3>1
    <3>3. QED
      BY <2>1, <3>1, <3>2, SituationsAssumption
  <2>2. QED
    BY <1>2, <2>1 DEF ReaderInv, Unread
<1>4. FlowOK(flow)
  BY <1>2
  DEF FlowOK, NoFlow, IsBody, IsEnvironment, IsContext, Leads, Reference, Inline, Absent, Total
<1>5. Foreseen
  BY <1>2 DEF Foreseen
<1>6. PreflightInv
  <2>1. /\ target \in Seq(Refs) /\ loaded \in Seq(Range(loaded)) /\ Len(loaded) <= Len(target)
        /\ \A i \in DOMAIN loaded : IsDocument(loaded[i])
    BY <1>2
  <2>2. QED
    BY <1>2, <1>4, <1>5, <2>1 DEF PreflightInv
<1>7. QED
  BY <1>3, <1>6

LEMMA SpecInv == Spec => []Inv
<1>1. Inv /\ [Next]_vars => Inv'
  BY SessInvStep, DiskInvStep, RegistryInvStep DEF Inv
<1>2. QED
  BY <1>1, InitInv, PTL DEF Spec

LEMMA SpecVerdict == Spec => []PreflightInv
<1>1. Inv /\ ReaderInv /\ PreflightInv /\ [Next]_vars => ReaderInv' /\ PreflightInv'
  BY ReaderInvStep, PreflightInvStep DEF Inv
<1>2. QED
  BY <1>1, SpecInv, InitVerdict, PTL DEF Spec

-----------------------------------------------------------------------------
(* The results.                                                            *)

\* A registry that can be read holds what the answered commands add up to, for
\* any number of commands that overlap as they like, with any failed and killed
\* ones among them, but for the records another command wrote over from an
\* earlier reading.
THEOREM RegistryAddsUp == Spec => []OnlyOverlapsLose
<1>1. Inv => OnlyOverlapsLose
  BY AgreeingPartly DEF Inv, RegistryInv, OnlyOverlapsLose
<1>2. QED
  BY <1>1, SpecInv, PTL

\* Whatever commands overlap and whatever an editor does, one that refuses has
\* left every file as it found it, and an empty file has someone to answer for
\* it.
THEOREM RefusalsTouchNothing == Spec => []RefusalLeavesNoMark
<1>1. ASSUME SessInv, DiskInv PROVE RefusalLeavesNoMark
  <2>1. ASSUME NEW s \in Shells, session[s].over, session[s].exit # 0, ~session[s].failed
        PROVE  session[s].marks = {}
    <3>1. SessionOK(session[s])
      BY <1>1 DEF SessInv, Good
    <3>2. Finished(session[s])
      BY <2>1, <3>1 DEF SessionOK, Unstarted, Reading, Unmarked, Writing
    <3>3. QED
      BY <2>1, <3>2 DEF Finished
  <2>2. ASSUME NEW r \in Refs, Present(r), disk[r].shape = "empty"
        PROVE  \E s \in Shells :
                 r \in session[s].marks /\ (session[s].open \/ session[s].failed)
    <3>1. PICK s \in Shells : Holds(session[s], r)
      BY <1>1, <2>2 DEF DiskInv
    <3>2. QED
      BY <3>1 DEF Holds
  <2>3. QED
    BY <2>1, <2>2 DEF RefusalLeavesNoMark
<1>2. Inv => RefusalLeavesNoMark
  BY <1>1 DEF Inv
<1>3. QED
  BY <1>2, SpecInv, PTL

\* The first failure is the one the definition of the answer picks.
Failures(calls) == {i \in DOMAIN calls : calls[i].code # 0}
LeastOf(S) == CHOOSE i \in S : \A j \in S : i <= j

LEMMA FirstFailure ==
  ASSUME NEW calls, DOMAIN calls \subseteq Nat, NEW first, FirstIs(calls, first),
         NEW failed, failed = Failures(calls)
  PROVE  IF first = None THEN failed = {}
         ELSE /\ failed # {}
              /\ calls[LeastOf(failed)].code = first
<1>1. CASE first = None
  BY <1>1 DEF FirstIs, Failures
<1>2. CASE first # None
  <2>1. PICK i \in DOMAIN calls : /\ calls[i].code = first /\ first # 0
                                 /\ \A j \in DOMAIN calls : j < i => calls[j].code = 0
    BY <1>2 DEF FirstIs
  <2>2. i \in failed /\ \A j \in failed : j \in Nat /\ ~(j < i)
    BY <2>1 DEF Failures
  <2>3. i \in Nat
    BY <2>1
  <2>4. \A j \in failed : i <= j
    BY <2>2, <2>3
  <2>5. PICK n : n = LeastOf(failed)
    OBVIOUS
  <2>6. n \in failed /\ \A j \in failed : n <= j
    BY <2>2, <2>4, <2>5 DEF LeastOf
  <2>7. n = i
    BY <2>2, <2>3, <2>4, <2>6
  <2>8. QED
    BY <1>2, <2>1, <2>2, <2>5, <2>7
<1>3. QED
  BY <1>1, <1>2

\* For a provider with any number of methods, any of which may fail: who calls
\* it, how far the plan goes, and which failure is the answer.
THEOREM EnvironmentIsAnswered == Spec => []EnvironmentAnswer
<1>1. ASSUME SessInv, NEW s \in Shells, NEW c, c = session[s], c.calls # <<>>,
             NEW failed, failed = {i \in DOMAIN c.calls : c.calls[i].code # 0}
      PROVE  /\ Driven(c.ref)
             /\ \A i \in DOMAIN c.calls : c.calls[i].method = c.cmd.args[i]
             /\ \A i \in failed : c.cmd.args[1] \notin Teardown => i = Len(c.calls)
             /\ c.over =>
                  /\ c.exit = IF failed = {} THEN 0
                              ELSE c.calls[CHOOSE i \in failed : \A j \in failed : i <= j].code
                  /\ failed = {} \/ c.cmd.args[1] \in Teardown =>
                       Len(c.calls) = Len(c.cmd.args)
  <2>1. SessionOK(c) /\ CallInv(c) /\ (Drives(c) => Driven(c.ref))
    BY <1>1 DEF SessInv, Good
  <2>2. c.over # TRUE => Reading(c) /\ StageOf(c) = "methods" /\ c.at # 0
    BY <1>1, <2>1
    DEF SessionOK, Unstarted, Writing, Finished, CallInv, Silent
  <2>3. Drives(c)
    BY <1>1, <2>2, WriteStage DEF Drives, Reading, Unmarked
  <2>4. CallsOK(c)
    BY <1>1, <2>1, <2>2 DEF CallInv
  <2>5. \A i \in DOMAIN c.calls : c.calls[i].method = c.cmd.args[i]
    BY <2>4 DEF CallsOK
  <2>6. \A i \in failed : c.cmd.args[1] \notin Teardown => i = Len(c.calls)
    BY <1>1, <2>4 DEF CallsOK
  <2>7. ASSUME c.over
        PROVE  /\ c.exit = IF failed = {} THEN 0
                           ELSE c.calls[CHOOSE i \in failed : \A j \in failed : i <= j].code
               /\ failed = {} \/ c.cmd.args[1] \in Teardown =>
                    Len(c.calls) = Len(c.cmd.args)
    <3>1. c.over = TRUE
      BY <2>2, <2>7 DEF Reading, Unmarked
    <3>2. PlanIsOver(c) /\ c.exit = IF c.first = None THEN 0 ELSE c.first
      BY <1>1, <2>1, <3>1 DEF CallInv
    <3>3. DOMAIN c.calls \subseteq Nat /\ FirstIs(c.calls, c.first)
      BY <2>4 DEF CallsOK
    <3>4. IF c.first = None THEN failed = {}
          ELSE /\ failed # {}
               /\ c.calls[LeastOf(failed)].code = c.first
      <4>1. failed = Failures(c.calls)
        BY <1>1 DEF Failures
      <4>2. QED
        BY ONLY <3>3, <4>1, FirstFailure
    <3>5. QED
      BY <3>2, <3>4 DEF PlanIsOver, LeastOf
  <2>8. QED
    BY <2>1, <2>3, <2>5, <2>6, <2>7
<1>2. SessInv => EnvironmentAnswer
  BY <1>1 DEF EnvironmentAnswer, Driven
<1>3. Inv => EnvironmentAnswer
  BY <1>2 DEF Inv
<1>4. QED
  BY <1>3, SpecInv, PTL

\* A flow that is accepted can be run as it is, whatever the files were and
\* whoever rewrote them between the reads: preflight checks what it has read.
THEOREM AcceptedRuns == Spec => []AcceptedIsRunnable
<1>1. ASSUME PreflightInv PROVE AcceptedIsRunnable
  <2>1. SUFFICES ASSUME phase = "accepted"
                 PROVE  /\ \A name \in Range(Slots) : ~Reference(SlotIn(flow, name))
                        /\ Runnable(flow)
    BY DEF AcceptedIsRunnable
  <2>2. FlowOK(flow) /\ Settled(flow) /\ CheckRefusal(flow) = None
    BY <1>1, <2>1 DEF PreflightInv
  <2>3. Runnable(flow)
    BY <2>2, CheckDecides
  <2>4. QED
    BY <2>2, <2>3, NamesOfSlots DEF Settled
<1>2. PreflightInv => AcceptedIsRunnable
  BY <1>1
<1>3. QED
  BY <1>2, SpecVerdict, PTL

\* Over files that hold still the verdict is that of the files, for targets of
\* any number of entries and references: reading them one after the other, and
\* refusing at the first error, comes to the same as looking at them all.
THEOREM VerdictIsRight == Spec => []VerdictIsOfTheFiles
<1>1. PreflightInv => VerdictIsOfTheFiles
  BY DEF PreflightInv, Foreseen, VerdictIsOfTheFiles
<1>2. QED
  BY <1>1, SpecVerdict, PTL

=============================================================================
