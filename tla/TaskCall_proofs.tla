-------------------------- MODULE TaskCall_proofs --------------------------
(***************************************************************************)
(* TaskCall for every set of tasks, every child program, every server and  *)
(* every size of the pipes and caps: its types, what its answers stand on, *)
(* and the bound on its requests.                                          *)
(***************************************************************************)
EXTENDS TaskCall, FiniteSetTheorems, TLAPS

USE OsProcessAssumption, WebRequestAssumption, TaskCallAssumption

-----------------------------------------------------------------------------
(* Counting the steps of a child *)

\* The occurrences of s among the first n steps of a program.
Before(program, n, s) == {i \in 1..n : program[i] = s}

\* The occurrences of a step are finitely many.
LEMMA BeforeIsFinite ==
  ASSUME NEW program, NEW n \in Nat, NEW s
  PROVE  IsFiniteSet(Before(program, n, s)) /\ Cardinality(Before(program, n, s)) \in Nat
<1>1. IsFiniteSet(1..n)
  BY FS_Interval
<1>2. Before(program, n, s) \in SUBSET (1..n)
  BY DEF Before
<1>3. IsFiniteSet(Before(program, n, s))
  BY <1>1, <1>2, FS_Subset
<1>4. QED
  BY <1>3, FS_CardinalityType

\* One more step adds one exactly when it is an s.
LEMMA BeforeGrows ==
  ASSUME NEW program, NEW n \in Nat, NEW s
  PROVE  Cardinality(Before(program, n + 1, s)) =
           IF program[n + 1] = s THEN Cardinality(Before(program, n, s)) + 1
           ELSE Cardinality(Before(program, n, s))
<1>1. CASE program[n + 1] = s
  <2>1. Before(program, n + 1, s) = Before(program, n, s) \cup {n + 1}
    BY <1>1 DEF Before
  <2>2. n + 1 \notin Before(program, n, s)
    BY DEF Before
  <2>3. QED
    BY <1>1, <2>1, <2>2, BeforeIsFinite, FS_AddElement
<1>2. CASE program[n + 1] # s
  <2>1. Before(program, n + 1, s) = Before(program, n, s)
    BY <1>2 DEF Before
  <2>2. QED
    BY <1>2, <2>1
<1>3. QED
  BY <1>1, <1>2

\* A part of a program writes no more than the whole.
LEMMA BeforeIsBounded ==
  ASSUME NEW program, NEW n \in Nat, NEW m \in Nat, n <= m, NEW s
  PROVE  Cardinality(Before(program, n, s)) <= Cardinality(Before(program, m, s))
<1>1. Before(program, n, s) \in SUBSET Before(program, m, s)
  BY DEF Before
<1>2. QED
  BY <1>1, BeforeIsFinite, FS_Subset

-----------------------------------------------------------------------------
(* The process *)

\* Nothing is lost between a child and its captured output, until the call
\* has its answer.
Conserved == \A s \in Streams : got[s] + pipe[s] = Written(s)

\* Where the call stands tells how far the child can be.
PumpInv ==
  /\ phase = "idle" => child = "unborn" /\ ip = 1 /\ \A s \in Streams : ~eof[s]
  /\ phase \in {"pumping", "overflown"} => child \in {"running", "exited"}
  /\ phase = "answered" => child # "running"
  /\ phase # "answered" => answer = "none"
  /\ phase \in {"idle", "pumping"} => \A s \in Streams : got[s] <= OutputCap
  /\ phase = "overflown" => \E s \in Streams : got[s] > OutputCap
  /\ child = "exited" => ip = Len(spec.program) + 1
  /\ \A s \in Streams : eof[s] => pipe[s] = 0 /\ child # "running"

ProcessInv == ProcessTypeOK /\ Conserved /\ PumpInv /\ ProcessAnswerIsEarned

\* What the typing of a process call says of its program.
LEMMA ProgramFacts ==
  ASSUME ProcessTypeOK
  PROVE  /\ spec.program \in Seq({"in", "out", "err"})
         /\ Len(spec.program) \in Nat
         /\ ip \in Nat \ {0} /\ ip <= Len(spec.program) + 1
         /\ DOMAIN spec.program = 1..Len(spec.program)
         /\ spec.stdin \in Nat
BY DEF ProcessTypeOK

\* What a child has written of a stream is counted by the steps it has taken.
LEMMA WrittenIsBefore ==
  ASSUME ProcessTypeOK, NEW s
  PROVE  /\ Written(s) = Cardinality(Before(spec.program, ip - 1, s))
         /\ Produces(s) = Cardinality(Before(spec.program, Len(spec.program), s))
         /\ Written(s) \in Nat /\ Produces(s) \in Nat
         /\ Written(s) <= Produces(s)
         /\ ip = Len(spec.program) + 1 => Written(s) = Produces(s)
<1>1. /\ Written(s) = Cardinality(Before(spec.program, ip - 1, s))
      /\ Produces(s) = Cardinality(Before(spec.program, Len(spec.program), s))
  BY ProgramFacts DEF Written, Produces, Before
<1>2. /\ ip - 1 \in Nat /\ Len(spec.program) \in Nat /\ ip - 1 <= Len(spec.program)
  BY ProgramFacts
<1>3. /\ Cardinality(Before(spec.program, ip - 1, s)) \in Nat
      /\ Cardinality(Before(spec.program, Len(spec.program), s)) \in Nat
  BY <1>2, BeforeIsFinite
<1>4. Cardinality(Before(spec.program, ip - 1, s))
        <= Cardinality(Before(spec.program, Len(spec.program), s))
  BY <1>2, BeforeIsBounded
<1>5. ip = Len(spec.program) + 1 => ip - 1 = Len(spec.program)
  BY <1>2
<1>6. QED
  BY <1>1, <1>3, <1>4, <1>5

\* A process call starts in its invariant.
LEMMA ProcessStarts ==
  ASSUME NEW c \in Children, ProcessIdle(c)
  PROVE  ProcessInv
<1>1. c.program \in Seq({"in", "out", "err"}) /\ Len(c.program) \in Nat /\ c.stdin \in Nat
  OBVIOUS
<1>2. ProcessTypeOK
  BY <1>1 DEF ProcessIdle, ProcessTypeOK, Streams
<1>3. \A s \in Streams : Written(s) = 0
  <2> TAKE s \in Streams
  <2>1. {i \in 1..(ip - 1) : spec.program[i] = s} = {}
    BY DEF ProcessIdle
  <2>2. QED
    BY <2>1, FS_EmptySet DEF Written
<1>4. Conserved
  BY <1>3 DEF Conserved, ProcessIdle, Streams
<1>5. PumpInv /\ ProcessAnswerIsEarned
  BY DEF PumpInv, ProcessAnswerIsEarned, ProcessIdle, Streams
<1>6. QED
  BY <1>2, <1>4, <1>5 DEF ProcessInv

\* The actions that leave the program where it is, and what it has written.
LEMMA WrittenStays ==
  ASSUME UNCHANGED <<spec, ip>>
  PROVE  \A s \in Streams : Written(s)' = Written(s) /\ Produces(s)' = Produces(s)
BY DEF Written, Produces

\* A dropped child is not left running.
LEMMA KilledIsGone ==
  ASSUME ProcessTypeOK, KillOnDrop
  PROVE  /\ child' \in {"unborn", "exited", "killed"}
         /\ child' = "exited" => child = "exited"
BY DEF KillOnDrop, ProcessTypeOK

\* An answer given while the pump runs, with nothing captured or written.
LEMMA AnswerKeepsInv ==
  ASSUME ProcessInv, phase \in {"idle", "pumping", "overflown"},
         NEW a \in {"ok", "process_spawn_failed", "process_io_failed",
                    "process_exit_nonzero", "task_timeout", "output_too_large", "dropped"},
         Answer(a), KillOnDrop \/ (child # "running" /\ UNCHANGED child),
         UNCHANGED <<spec, ip, pipe, toWrite, inOpen, got, eof>>,
         a = "ok" => /\ child = "exited" /\ spec.exit = 0 /\ phase = "pumping"
                     /\ \A s \in Streams : eof[s],
         a = "process_exit_nonzero" => child = "exited" /\ spec.exit # 0,
         a = "output_too_large" => phase = "overflown",
         a = "task_timeout" => spec.timed
  PROVE  ProcessInv'
<1> USE DEF Answer
<1>1. /\ child' \in {"unborn", "exited", "killed"}
      /\ child' = "exited" => child = "exited"
      /\ child = "exited" => child' = "exited"
  BY KilledIsGone DEF ProcessInv, ProcessTypeOK, KillOnDrop
<1>2. ProcessTypeOK'
  BY <1>1 DEF ProcessInv, ProcessTypeOK
<1>3. Conserved'
  BY WrittenStays DEF ProcessInv, Conserved
<1>4. PumpInv'
  BY <1>1 DEF ProcessInv, PumpInv
<1>5. ProcessAnswerIsEarned'
  <2>1. a = "ok" => \A s \in Streams : got[s] = Produces(s) /\ got[s] <= OutputCap
    <3> SUFFICES ASSUME a = "ok", NEW s \in Streams
                 PROVE  got[s] = Produces(s) /\ got[s] <= OutputCap
      OBVIOUS
    <3>1. ip = Len(spec.program) + 1 /\ pipe[s] = 0 /\ got[s] <= OutputCap
      BY DEF ProcessInv, PumpInv
    <3>2. got[s] + pipe[s] = Written(s) /\ got[s] \in Nat
      BY DEF ProcessInv, Conserved, ProcessTypeOK
    <3>3. Written(s) = Produces(s)
      BY <3>1, WrittenIsBefore DEF ProcessInv
    <3>4. QED
      BY <3>1, <3>2, <3>3
  <2>2. a = "output_too_large" => \E s \in Streams : Produces(s) > OutputCap
    <3> SUFFICES ASSUME a = "output_too_large"
                 PROVE  \E s \in Streams : Produces(s) > OutputCap
      OBVIOUS
    <3>1. PICK s \in Streams : got[s] > OutputCap
      BY DEF ProcessInv, PumpInv
    <3>2. got[s] + pipe[s] = Written(s) /\ got[s] \in Nat /\ pipe[s] \in Nat
      BY DEF ProcessInv, Conserved, ProcessTypeOK, Streams
    <3>3. Written(s) <= Produces(s) /\ Written(s) \in Nat /\ Produces(s) \in Nat
      BY WrittenIsBefore DEF ProcessInv
    <3>4. QED
      BY <3>1, <3>2, <3>3
  <2>3. QED
    BY <1>1, <2>1, <2>2, WrittenStays DEF ProcessAnswerIsEarned
<1>6. QED
  BY <1>2, <1>3, <1>4, <1>5 DEF ProcessInv

\* Every step of a process call, of the child, the kernel and the pump, keeps
\* its invariant.
LEMMA ProcessStep ==
  ASSUME ProcessInv, ProcessNext
  PROVE  ProcessInv'
<1>1. CASE Spawn
  <2>1. ProcessTypeOK'
    BY <1>1 DEF Spawn, ProcessInv, ProcessTypeOK
  <2>2. Conserved'
    BY <1>1, WrittenStays DEF Spawn, ProcessInv, Conserved
  <2>3. PumpInv'
    BY <1>1 DEF Spawn, ProcessInv, PumpInv
  <2>4. ProcessAnswerIsEarned'
    BY <1>1 DEF Spawn, ProcessInv, PumpInv, ProcessAnswerIsEarned
  <2>5. QED
    BY <2>1, <2>2, <2>3, <2>4 DEF ProcessInv
<1>2. CASE SpawnFails
  BY <1>2, AnswerKeepsInv DEF SpawnFails, ProcessInv, PumpInv
<1>3. CASE WriteStdin
  <2>1. ProcessTypeOK'
    BY <1>3, ProgramFacts DEF WriteStdin, ProcessInv, ProcessTypeOK
  <2>2. Conserved'
    BY <1>3, WrittenStays DEF WriteStdin, ProcessInv, Conserved, ProcessTypeOK, Streams
  <2>3. PumpInv'
    BY <1>3 DEF WriteStdin, ProcessInv, PumpInv, ProcessTypeOK, Streams
  <2>4. ProcessAnswerIsEarned'
    BY <1>3 DEF WriteStdin, ProcessInv, PumpInv, ProcessAnswerIsEarned
  <2>5. QED
    BY <2>1, <2>2, <2>3, <2>4 DEF ProcessInv
<1>4. CASE StdinBreaks
  BY <1>4, AnswerKeepsInv DEF StdinBreaks
<1>5. CASE CloseStdin
  <2>1. ProcessTypeOK'
    BY <1>5 DEF CloseStdin, ProcessInv, ProcessTypeOK
  <2>2. Conserved'
    BY <1>5, WrittenStays DEF CloseStdin, ProcessInv, Conserved
  <2>3. PumpInv'
    BY <1>5 DEF CloseStdin, ProcessInv, PumpInv
  <2>4. ProcessAnswerIsEarned'
    BY <1>5 DEF CloseStdin, ProcessInv, PumpInv, ProcessAnswerIsEarned
  <2>5. QED
    BY <2>1, <2>2, <2>3, <2>4 DEF ProcessInv
<1>6. ASSUME NEW s \in Streams, Read(s)
      PROVE  ProcessInv'
  <2>1. /\ got[s] \in Nat /\ got[s] <= OutputCap /\ OutputCap \in Nat
        /\ pipe[s] \in Nat /\ pipe[s] # 0 /\ pipe[s] <= PipeSize /\ PipeSize \in Nat
    BY <1>6 DEF Read, ProcessInv, ProcessTypeOK, PumpInv, Streams
  <2>2. /\ got' = [got EXCEPT ![s] = got[s] + 1]
        /\ pipe' = [pipe EXCEPT ![s] = pipe[s] - 1]
        /\ got'[s] = got[s] + 1 /\ pipe'[s] = pipe[s] - 1
        /\ \A t \in Streams \ {s} : got'[t] = got[t] /\ pipe'[t] = pipe[t]
    BY <1>6 DEF Read, ProcessInv, ProcessTypeOK, Streams
  <2>3. ProcessTypeOK'
    <3>1. got[s] + 1 \in 0..(OutputCap + 1) /\ pipe[s] - 1 \in 0..PipeSize
      BY <2>1
    <3>2. /\ pipe \in [{"in", "out", "err"} -> 0..PipeSize]
          /\ got \in [Streams -> 0..(OutputCap + 1)]
      BY DEF ProcessInv, ProcessTypeOK
    <3>3. pipe' \in [{"in", "out", "err"} -> 0..PipeSize]
      BY <2>2, <3>1, <3>2
    <3>4. got' \in [Streams -> 0..(OutputCap + 1)]
      BY <2>2, <3>1, <3>2
    <3>5. phase' \in {"pumping", "overflown"}
      BY <1>6 DEF Read
    <3>6. UNCHANGED <<spec, child, ip, toWrite, inOpen, eof, answer>>
      BY <1>6 DEF Read
    <3>7. QED
      BY <3>3, <3>4, <3>5, <3>6 DEF ProcessInv, ProcessTypeOK
  <2>4. Conserved'
    <3> SUFFICES ASSUME NEW t \in Streams PROVE got'[t] + pipe'[t] = Written(t)'
      BY DEF Conserved
    <3>1. Written(t)' = Written(t)
      BY <1>6, WrittenStays DEF Read
    <3>2. got[t] + pipe[t] = Written(t)
      BY DEF ProcessInv, Conserved
    <3>3. CASE t = s
      BY <2>1, <2>2, <3>1, <3>2, <3>3
    <3>4. CASE t # s
      BY <2>2, <3>1, <3>2, <3>4
    <3>5. QED
      BY <3>3, <3>4
  <2>5. PumpInv'
    <3>1. phase' = "pumping" => \A t \in Streams : got'[t] <= OutputCap
      BY <1>6, <2>1, <2>2 DEF Read, ProcessInv, PumpInv
    <3>2. phase' = "overflown" => \E t \in Streams : got'[t] > OutputCap
      BY <1>6 DEF Read
    <3>3. \A t \in Streams : eof'[t] => pipe'[t] = 0 /\ child' # "running"
      BY <1>6, <2>1, <2>2 DEF Read, Drains, ProcessInv, PumpInv
    <3>4. QED
      BY <1>6, <3>1, <3>2, <3>3 DEF Read, ProcessInv, PumpInv
  <2>6. ProcessAnswerIsEarned'
    BY <1>6 DEF Read, ProcessInv, PumpInv, ProcessAnswerIsEarned
  <2>7. QED
    BY <2>3, <2>4, <2>5, <2>6 DEF ProcessInv
<1>7. ASSUME NEW s \in Streams, ReadsEof(s)
      PROVE  ProcessInv'
  <2>1. ProcessTypeOK'
    BY <1>7 DEF ReadsEof, ProcessInv, ProcessTypeOK
  <2>2. Conserved'
    BY <1>7, WrittenStays DEF ReadsEof, ProcessInv, Conserved
  <2>3. PumpInv'
    BY <1>7 DEF ReadsEof, ProcessInv, PumpInv, ProcessTypeOK
  <2>4. ProcessAnswerIsEarned'
    BY <1>7 DEF ReadsEof, ProcessInv, PumpInv, ProcessAnswerIsEarned
  <2>5. QED
    BY <2>1, <2>2, <2>3, <2>4 DEF ProcessInv
<1>8. CASE Wait
  <2>1. CASE spec.exit = 0
    BY <1>8, <2>1, AnswerKeepsInv DEF Wait
  <2>2. CASE spec.exit # 0
    BY <1>8, <2>2, AnswerKeepsInv DEF Wait
  <2>3. QED
    BY <2>1, <2>2
<1>9. CASE KillOverflown
  BY <1>9, AnswerKeepsInv DEF KillOverflown
<1>10. CASE TimesOut
  BY <1>10, AnswerKeepsInv DEF TimesOut
<1>11. CASE ProcessDropped
  BY <1>11, AnswerKeepsInv DEF ProcessDropped
<1>12. CASE ChildStep
  <2> DEFINE op == spec.program[ip]
  <2>1. /\ ip \in Nat \ {0} /\ ip <= Len(spec.program) /\ ip' = ip + 1 /\ ip - 1 \in Nat
        /\ Len(spec.program) \in Nat /\ op \in {"in", "out", "err"}
    BY <1>12, ProgramFacts DEF ChildStep, ProcessInv
  <2>2. /\ UNCHANGED <<spec, child, toWrite, inOpen, got, eof, phase, answer>>
        /\ child = "running"
        /\ pipe \in [{"in", "out", "err"} -> 0..PipeSize]
    BY <1>12 DEF ChildStep, ProcessInv, ProcessTypeOK
  <2>3. /\ pipe' \in [{"in", "out", "err"} -> 0..PipeSize]
        /\ \A s \in Streams : pipe'[s] = IF op = s THEN pipe[s] + 1 ELSE pipe[s]
    BY <1>12, <2>2 DEF ChildStep, Streams
  <2>4. ProcessTypeOK'
    BY <2>1, <2>2, <2>3 DEF ProcessInv, ProcessTypeOK
  <2>5. Conserved'
    <3> SUFFICES ASSUME NEW s \in Streams PROVE got'[s] + pipe'[s] = Written(s)'
      BY DEF Conserved
    <3>1. Written(s) = Cardinality(Before(spec.program, ip - 1, s))
      BY WrittenIsBefore DEF ProcessInv
    <3>2. Written(s)' = Cardinality(Before(spec.program, ip, s))
      BY <2>1, <2>2 DEF Written, Before
    <3>3. (ip - 1) + 1 = ip
      BY <2>1
    <3>4. Cardinality(Before(spec.program, ip, s)) =
            IF op = s THEN Cardinality(Before(spec.program, ip - 1, s)) + 1
            ELSE Cardinality(Before(spec.program, ip - 1, s))
      BY <2>1, <3>3, BeforeGrows
    <3>5. got[s] + pipe[s] = Written(s) /\ got[s] \in Nat /\ pipe[s] \in Nat
      BY <2>2 DEF ProcessInv, Conserved, ProcessTypeOK, Streams
    <3>6. QED
      BY <2>2, <2>3, <3>1, <3>2, <3>4, <3>5
  <2>6. PumpInv'
    BY <2>1, <2>2 DEF ProcessInv, PumpInv
  <2>7. ProcessAnswerIsEarned'
    BY <2>2 DEF ProcessInv, PumpInv, ProcessAnswerIsEarned, Produces
  <2>8. QED
    BY <2>4, <2>5, <2>6, <2>7 DEF ProcessInv
<1>13. CASE ChildExits
  <2>1. ProcessTypeOK'
    BY <1>13 DEF ChildExits, ProcessInv, ProcessTypeOK
  <2>2. Conserved'
    BY <1>13, WrittenStays DEF ChildExits, ProcessInv, Conserved
  <2>3. PumpInv'
    BY <1>13, ProgramFacts DEF ChildExits, ProcessInv, PumpInv
  <2>4. ProcessAnswerIsEarned'
    BY <1>13, WrittenStays DEF ChildExits, ProcessInv, PumpInv, ProcessAnswerIsEarned
  <2>5. QED
    BY <2>1, <2>2, <2>3, <2>4 DEF ProcessInv
<1>14. QED
  BY <1>1, <1>2, <1>3, <1>4, <1>5, <1>6, <1>7, <1>8, <1>9, <1>10, <1>11, <1>12, <1>13
     DEF ProcessNext, Pump, ChildNext

\* So does a step that leaves the process alone.
LEMMA ProcessStutters ==
  ASSUME ProcessInv, UNCHANGED procVars
  PROVE  ProcessInv'
BY WrittenStays DEF procVars, ProcessInv, ProcessTypeOK, Conserved, PumpInv, ProcessAnswerIsEarned

-----------------------------------------------------------------------------
(* The web request *)

WebAnswerSet == {
  "none", "ok", "http_request_failed", "chat_request_failed", "store_request_failed",
  "http_invalid_method", "chat_no_endpoint", "task_timeout", "object_not_found",
  "output_too_large", "chat_api_error", "chat_bad_response", "dropped"}

\* The server has acted once for each attempt before, and once more if there
\* is an answer to this one; a lost answer may also never have been given.
AttemptInv ==
  /\ attempt <= Retries(req)
  /\ performed <= attempt + (IF reply = NoReply THEN 0 ELSE 1)
  /\ reply # NoReply => performed > 0

\* What is known of the answer at each place.
BodyInv ==
  /\ webAnswer \in WebAnswerSet
  /\ webPhase # "answered" => webAnswer = "none" /\ taken <= BodyCap
  /\ webPhase \in {"idle", "sent"} => taken = 0
  /\ webPhase = "body" =>
       /\ reply # NoReply /\ taken <= reply.size
       /\ AnsweredByStatus(req.kind, reply.status) = "body"

WebInv == WebTypeOK /\ AttemptInv /\ BodyInv /\ WebAnswerIsEarned

\* Only fetch has retries, and never more than the cap.
LEMMA RetriesType ==
  ASSUME NEW r \in Requests
  PROVE  /\ Retries(r) \in Nat /\ Retries(r) <= FetchRetriesMax
         /\ r.kind # "fetch" => Retries(r) = 0
BY DEF Retries

\* A web request starts in its invariant.
LEMMA WebStarts ==
  ASSUME NEW r \in Requests, WebIdle(r)
  PROVE  WebInv
<1>1. WebTypeOK
  BY DEF WebIdle, WebTypeOK, NoReply
<1>2. AttemptInv
  BY RetriesType DEF WebIdle, AttemptInv
<1>3. BodyInv /\ WebAnswerIsEarned
  BY DEF WebIdle, BodyInv, WebAnswerSet, WebAnswerIsEarned, WebKinds
<1>4. QED
  BY <1>1, <1>2, <1>3 DEF WebInv

\* The bound is a consequence.
LEMMA RequestsFollow ==
  ASSUME WebInv
  PROVE  RequestsAreBounded
<1>1. /\ req \in Requests /\ attempt \in Nat /\ performed \in Nat
      /\ FetchRetriesMax \in Nat
  BY DEF WebInv, WebTypeOK
<1>2. performed <= attempt + 1
  BY <1>1 DEF WebInv, AttemptInv
<1>3. QED
  BY <1>1, <1>2, RetriesType DEF WebInv, AttemptInv, RequestsAreBounded

\* A failed attempt: the same request again, or the answer.
LEMMA AttemptEnds ==
  ASSUME WebInv, webPhase = "sent", NEW a \in WebAnswerSet,
         Resend \/ GivesUp(a),
         a \notin {"ok", "object_not_found", "output_too_large"},
         a = "task_timeout" => req.timed,
         expired' \in Nat, UNCHANGED <<req, performed, taken>>
  PROVE  WebInv'
<1>1. CASE Resend
  <2>1. WebTypeOK'
    BY <1>1 DEF Resend, WebInv, WebTypeOK, NoReply
  <2>2. AttemptInv'
    <3>1. attempt < Retries(req) /\ attempt' = attempt + 1 /\ reply' = NoReply
      BY <1>1 DEF Resend, SendsAgain
    <3>2. attempt \in Nat /\ performed \in Nat /\ Retries(req) \in Nat
      BY RetriesType DEF WebInv, WebTypeOK
    <3>3. performed <= attempt + 1
      BY <3>2 DEF WebInv, AttemptInv
    <3>4. QED
      BY <3>1, <3>2, <3>3 DEF AttemptInv, Retries
  <2>3. BodyInv'
    BY <1>1 DEF Resend, WebInv, BodyInv
  <2>4. WebAnswerIsEarned'
    BY <1>1 DEF Resend, WebInv, BodyInv, WebAnswerIsEarned
  <2>5. QED
    BY <2>1, <2>2, <2>3, <2>4 DEF WebInv
<1>2. CASE GivesUp(a)
  <2> USE DEF GivesUp, WebAnswers
  <2>1. WebTypeOK'
    BY <1>2 DEF WebInv, WebTypeOK
  <2>2. AttemptInv'
    BY <1>2 DEF WebInv, AttemptInv, Retries
  <2>3. BodyInv'
    BY <1>2 DEF BodyInv
  <2>4. WebAnswerIsEarned'
    BY <1>2 DEF WebAnswerIsEarned
  <2>5. QED
    BY <2>1, <2>2, <2>3, <2>4 DEF WebInv
<1>3. QED
  BY <1>1, <1>2

\* An answer that changes nothing else.
LEMMA WebAnswerKeepsInv ==
  ASSUME WebInv, webPhase # "answered", NEW a \in WebAnswerSet, WebAnswers(a),
         expired' \in Nat, UNCHANGED <<req, attempt, performed, reply, taken>>,
         WebAnswerIsEarned'
  PROVE  WebInv'
<1> USE DEF WebAnswers
<1>1. WebTypeOK'
  BY DEF WebInv, WebTypeOK
<1>2. AttemptInv'
  BY DEF WebInv, AttemptInv, Retries
<1>3. BodyInv'
  BY DEF BodyInv
<1>4. QED
  BY <1>1, <1>2, <1>3 DEF WebInv

\* A refused request answers with one of these.
LEMMA RefusalType ==
  ASSUME NEW kind
  PROVE  Refusal(kind) \in {"http_request_failed", "chat_request_failed", "store_request_failed"}
BY DEF Refusal

\* Every step of a web request and of its server keeps its invariant.
LEMMA WebStep ==
  ASSUME WebInv, WebNext
  PROVE  WebInv'
<1> USE DEF WebAnswerSet
<1>0. expired \in Nat /\ expired + 1 \in Nat
  BY DEF WebInv, WebTypeOK
<1>1. CASE BuildFails
  <2>1. PICK a \in {Refusal(req.kind), "http_invalid_method", "chat_no_endpoint"} : WebAnswers(a)
    BY <1>1 DEF BuildFails
  <2>2. WebAnswerIsEarned'
    BY <2>1, RefusalType DEF WebAnswers, WebAnswerIsEarned
  <2>3. QED
    BY <1>0, <1>1, <2>1, <2>2, RefusalType, WebAnswerKeepsInv DEF BuildFails
<1>2. CASE Send
  <2>1. WebTypeOK'
    BY <1>2 DEF Send, WebInv, WebTypeOK
  <2>2. AttemptInv'
    BY <1>2 DEF Send, WebInv, AttemptInv, Retries
  <2>3. BodyInv' /\ WebAnswerIsEarned'
    BY <1>2 DEF Send, WebInv, BodyInv, WebAnswerIsEarned
  <2>4. QED
    BY <2>1, <2>2, <2>3 DEF WebInv
<1>3. CASE Server
  <2>1. PICK status \in Statuses, size \in 0..(BodyCap + 1) : Perform(status, size)
    BY <1>3 DEF Server
  <2> USE <2>1 DEF Perform
  <2>2. WebTypeOK'
    BY DEF WebInv, WebTypeOK
  <2>3. AttemptInv'
    <3>1. attempt \in Nat /\ performed \in Nat /\ performed <= attempt
      BY DEF WebInv, WebTypeOK, AttemptInv
    <3>2. reply' # NoReply
      BY DEF NoReply
    <3>3. QED
      BY <3>1, <3>2 DEF WebInv, AttemptInv, Retries
  <2>4. BodyInv' /\ WebAnswerIsEarned'
    BY DEF WebInv, BodyInv, WebAnswerIsEarned
  <2>5. QED
    BY <2>2, <2>3, <2>4 DEF WebInv
<1>4. CASE TransportFails
  BY <1>0, <1>4, RefusalType, AttemptEnds DEF TransportFails
<1>5. CASE AttemptTimesOut
  BY <1>0, <1>5, AttemptEnds DEF AttemptTimesOut
<1>6. CASE BodyTimesOut
  <2>1. PICK a \in {"http_request_failed", "task_timeout"} : WebAnswers(a)
    BY <1>6 DEF BodyTimesOut
  <2>2. WebAnswerIsEarned'
    BY <1>6, <2>1 DEF BodyTimesOut, WebAnswers, WebAnswerIsEarned
  <2>3. QED
    BY <1>0, <1>6, <2>1, <2>2, WebAnswerKeepsInv DEF BodyTimesOut
<1>7. CASE HeadersArrive
  <2> DEFINE next == AnsweredByStatus(req.kind, reply.status)
  <2>1. /\ performed > 0 /\ reply # NoReply
        /\ webAnswer = "none" /\ taken \in Nat /\ taken <= BodyCap
    BY <1>7 DEF HeadersArrive, WebInv, WebTypeOK, AttemptInv, BodyInv
  <2>2. CASE next = "body" /\ webPhase' = "body" /\ UNCHANGED webAnswer
    <3>1. WebTypeOK'
      BY <1>7, <2>2 DEF HeadersArrive, WebInv, WebTypeOK
    <3>2. AttemptInv'
      BY <1>7, <2>2 DEF HeadersArrive, WebInv, AttemptInv, Retries
    <3>3. taken = 0 /\ reply.size \in Nat
      BY <1>7 DEF HeadersArrive, WebInv, WebTypeOK, BodyInv
    <3>4. BodyInv'
      BY <1>7, <2>1, <2>2, <3>3 DEF HeadersArrive, BodyInv, AnsweredByStatus
    <3>5. WebAnswerIsEarned'
      BY <1>7, <2>1, <2>2 DEF HeadersArrive, WebAnswerIsEarned
    <3>6. QED
      BY <3>1, <3>2, <3>4, <3>5 DEF WebInv
  <2>3. CASE next # "body" /\ WebAnswers(next)
    <3>1. next \in {"object_not_found", "ok", "store_request_failed"}
      BY <2>3 DEF AnsweredByStatus
    <3>2. next = "object_not_found" => req.kind = "get" /\ reply.status = 404
      BY <2>3 DEF AnsweredByStatus
    <3>3. next = "ok" => /\ req.kind \notin {"fetch", "chat", "get", "list"}
                         /\ \/ Success(reply.status)
                            \/ req.kind \in {"delete", "head"} /\ reply.status = 404
      BY <2>3 DEF AnsweredByStatus
    <3>4. WebAnswerIsEarned'
      BY <1>7, <2>1, <2>3, <3>1, <3>2, <3>3
         DEF HeadersArrive, WebAnswers, WebAnswerIsEarned
    <3>5. QED
      BY <1>0, <1>7, <2>3, <3>1, <3>4, WebAnswerKeepsInv DEF HeadersArrive
  <2>4. QED
    BY <1>7, <2>2, <2>3 DEF HeadersArrive
<1>8. CASE ReadChunk
  <2>1. /\ taken \in Nat /\ taken < reply.size /\ taken' = taken + 1
        /\ reply.size \in 0..(BodyCap + 1) /\ webAnswer = "none" /\ webPhase = "body"
        /\ BodyCap \in Nat /\ taken <= BodyCap
    BY <1>8 DEF ReadChunk, WebInv, WebTypeOK, BodyInv
  <2>2. WebTypeOK'
    BY <1>8, <2>1 DEF ReadChunk, WebAnswers, WebInv, WebTypeOK
  <2>3. AttemptInv'
    BY <1>8 DEF ReadChunk, WebInv, AttemptInv, Retries
  <2>4. BodyInv'
    BY <1>8, <2>1 DEF ReadChunk, WebAnswers, WebInv, BodyInv, AnsweredByStatus
  <2>5. WebAnswerIsEarned'
    BY <1>8, <2>1 DEF ReadChunk, WebAnswers, WebAnswerIsEarned
  <2>6. QED
    BY <2>2, <2>3, <2>4, <2>5 DEF WebInv
<1>9. CASE BodyEnds
  <2>1. /\ performed > 0 /\ taken = reply.size /\ taken <= BodyCap /\ webPhase = "body"
        /\ AnsweredByStatus(req.kind, reply.status) = "body"
    BY <1>9 DEF BodyEnds, WebInv, AttemptInv, BodyInv
  <2>2. req.kind \notin {"fetch", "chat"} => Success(reply.status)
    <3>1. ASSUME req.kind \notin {"fetch", "chat"}, ~Success(reply.status)
          PROVE  AnsweredByStatus(req.kind, reply.status)
                   \in {"object_not_found", "ok", "store_request_failed"}
      BY <3>1 DEF AnsweredByStatus
    <3>2. QED
      BY <2>1, <3>1
  <2>3. PICK a \in {"ok", "chat_api_error", "chat_bad_response"} :
          WebAnswers(a) /\ (a = "ok" => req.kind # "chat" \/ Success(reply.status))
    BY <1>9 DEF BodyEnds
  <2>4. WebAnswerIsEarned'
    BY <1>9, <2>1, <2>2, <2>3 DEF BodyEnds, WebAnswers, WebAnswerIsEarned
  <2>5. QED
    BY <1>0, <1>9, <2>3, <2>4, WebAnswerKeepsInv DEF BodyEnds
<1>10. CASE BodyBreaks
  <2>1. WebAnswerIsEarned'
    BY <1>10, RefusalType DEF BodyBreaks, WebAnswers, WebAnswerIsEarned
  <2>2. QED
    BY <1>0, <1>10, <2>1, RefusalType, WebAnswerKeepsInv DEF BodyBreaks
<1>11. CASE WebDropped
  <2>1. WebAnswerIsEarned'
    BY <1>11 DEF WebDropped, WebAnswers, WebAnswerIsEarned
  <2>2. QED
    BY <1>0, <1>11, <2>1, WebAnswerKeepsInv DEF WebDropped
<1>12. QED
  BY <1>1, <1>2, <1>3, <1>4, <1>5, <1>6, <1>7, <1>8, <1>9, <1>10, <1>11
     DEF WebNext, WebTimesOut

\* So does a step that leaves the request alone.
LEMMA WebStutters ==
  ASSUME WebInv, UNCHANGED webVars
  PROVE  WebInv'
<1> USE DEF webVars
<1>1. WebTypeOK'
  BY DEF WebInv, WebTypeOK
<1>2. AttemptInv'
  BY DEF WebInv, AttemptInv, Retries
<1>3. BodyInv'
  BY DEF WebInv, BodyInv, AnsweredByStatus
<1>4. WebAnswerIsEarned'
  BY DEF WebInv, WebAnswerIsEarned
<1>5. QED
  BY <1>1, <1>2, <1>3, <1>4 DEF WebInv

-----------------------------------------------------------------------------
(* The call *)

CallTypeOK ==
  /\ task \in Calls /\ stage \in {"build", "adapter", "done"}
  /\ files \in [Paths -> Nat \union {Absent}]

\* How far the call is: no adapter is at work before it, and it has an outcome
\* only after it.
StageInv ==
  /\ stage = "build" => phase = "idle" /\ webPhase = "idle"
  /\ stage # "done" => out = "none"
  /\ stage = "adapter" => Lacks(task) = {}
  /\ Lacks(task) # {} => phase = "idle" /\ webPhase = "idle"

\* What an outcome says of the adapter's answer.
OutcomeInv ==
  /\ out = "output" /\ task.type \in ProcessTypes => answer = "ok"
  /\ out = "output" /\ task.type \in WebTypes => webAnswer = "ok"
  /\ out = "flow" => task.depth + 1 <= FlowDepthMax
  /\ task.type = "method" /\ stage = "done" =>
       out \in {"output", "dropped", "provider_method_failed",
                "provider_method_not_subcommand", "provider_binary_missing"}

CallInv == CallTypeOK /\ StageInv /\ OutcomeInv

Inv == CallInv /\ ProcessInv /\ WebInv

\* What a task may lack, and the error that says so.
LEMMA LacksType ==
  ASSUME NEW t \in Calls, NEW e \in Lacks(t)
  PROVE  /\ e \in {"expr_error", "run_missing_source", "unknown_file_operation",
                   "file_missing_destination", "unknown_store_operation", "store_missing_key",
                   "provider_method_not_subcommand", "provider_binary_missing"}
         /\ t.type = "method" =>
              e \in {"provider_method_not_subcommand", "provider_binary_missing"}
BY DEF Lacks

\* Initial states satisfy the invariant.
LEMMA CallStarts == Init => Inv
<1> SUFFICES ASSUME Init PROVE Inv
  OBVIOUS
<1>1. PICK t \in Calls, f \in [Paths -> Sizes \union {Absent}] :
        /\ task = t /\ stage = "build" /\ out = "none" /\ files = f
        /\ ProcessIdle(t.child) /\ WebIdle(t.request)
  BY DEF Init
<1>2. ProcessInv
  BY <1>1, ProcessStarts
<1>3. WebInv
  BY <1>1, WebStarts
<1>4. CallTypeOK
  BY <1>1 DEF CallTypeOK, Sizes
<1>5. StageInv /\ OutcomeInv
  BY <1>1 DEF StageInv, OutcomeInv, ProcessIdle, WebIdle
<1>6. QED
  BY <1>2, <1>3, <1>4, <1>5 DEF Inv, CallInv

\* A file operation answers with one of these.
LEMMA FileRefusalType ==
  FileRefusal \in {"none", "file_not_found", "output_too_large", "unknown_file_encoding"}
BY DEF FileRefusal

\* The files of an operation are files of the model.
LEMMA TargetIsAPath ==
  ASSUME CallTypeOK
  PROVE  Source \in Paths /\ Target \in Paths
BY DEF CallTypeOK, Source, Target

\* The steps of dispatch_task itself, and of the file system: the process and
\* the request stay as they are.
LEMMA OwnStep ==
  ASSUME Inv, UNCHANGED <<task, procVars, webVars>>,
         files' \in [Paths -> Nat \union {Absent}],
         stage' \in {"adapter", "done"}, StageInv', OutcomeInv'
  PROVE  Inv'
<1>1. ProcessInv'
  BY ProcessStutters DEF Inv
<1>2. WebInv'
  BY WebStutters DEF Inv
<1>3. CallTypeOK'
  BY DEF Inv, CallInv, CallTypeOK
<1>4. QED
  BY <1>1, <1>2, <1>3 DEF Inv, CallInv

\* What a file operation leaves of the files, when it succeeds or breaks.
LEMMA FilesStayTyped ==
  ASSUME CallTypeOK, FileSucceeds \/ FileBreaks
  PROVE  files' \in [Paths -> Nat \union {Absent}]
<1> DEFINE Size == Nat \union {Absent}
<1>1. /\ task.size \in Nat /\ files \in [Paths -> Size]
      /\ Source \in Paths /\ Target \in Paths
  BY TargetIsAPath DEF CallTypeOK
<1>2. \A n \in 0..task.size : n \in Nat /\ Filled(n) \in Size
  BY <1>1 DEF Filled
<1>3. Copied(files) \in [Paths -> Size] /\ Moved(files) \in [Paths -> Size]
  BY <1>1 DEF Copied, Moved
<1>4. CASE FileSucceeds
  BY <1>1, <1>2, <1>3, <1>4 DEF FileSucceeds
<1>5. CASE FileBreaks
  <2>1. CASE UNCHANGED files
    BY <1>1, <2>1
  <2>2. CASE \E n \in 0..task.size : files' = [files EXCEPT ![Target] = Filled(n)]
    BY <1>1, <1>2, <2>2
  <2>3. CASE /\ task.op = "copy" /\ FileRefusal = "none"
             /\ \E n \in 0..Copied(files)[Target] : files' = [files EXCEPT ![Target] = n]
    <3>1. Copied(files)[Target] \in Nat
      BY <1>1, <2>3 DEF Copied, FileRefusal
    <3>2. QED
      BY <1>1, <2>3, <3>1
  <2>4. QED
    BY <1>5, <2>1, <2>2, <2>3 DEF FileBreaks
<1>6. QED
  BY <1>4, <1>5

\* Every step keeps the invariant.
LEMMA CallStep == Inv /\ [Next]_vars => Inv'
<1> SUFFICES ASSUME Inv, [Next]_vars PROVE Inv'
  OBVIOUS
<1> USE DEF Done, UnchangedAdapters, Working
<1>0. /\ CallTypeOK /\ StageInv /\ OutcomeInv
      /\ task \in Calls /\ files \in [Paths -> Nat \union {Absent}]
      /\ answer \in {"none", "ok", "process_spawn_failed", "process_io_failed",
                     "process_exit_nonzero", "task_timeout", "output_too_large", "dropped"}
      /\ webAnswer \in WebAnswerSet
  BY DEF Inv, CallInv, CallTypeOK, ProcessInv, ProcessTypeOK, WebInv, BodyInv
<1>1. CASE CannotBuild
  <2>1. PICK e \in Lacks(task) : stage' = "done" /\ out' = e
    BY <1>1 DEF CannotBuild
  <2>2. StageInv'
    BY <1>0, <1>1, <2>1 DEF CannotBuild, StageInv, Lacks, procVars, webVars
  <2>3. OutcomeInv'
    BY <1>0, <1>1, <2>1, LacksType DEF CannotBuild, OutcomeInv
  <2>4. QED
    BY <1>0, <1>1, <2>1, <2>2, <2>3, OwnStep DEF CannotBuild
<1>2. CASE Builds
  <2>1. StageInv'
    BY <1>0, <1>2 DEF Builds, StageInv, Lacks
  <2>2. OutcomeInv'
    BY <1>0, <1>2 DEF Builds, OutcomeInv, StageInv
  <2>3. QED
    BY <1>0, <1>2, <2>1, <2>2, OwnStep DEF Builds
<1>3. CASE Classify
  <2>1. StageInv'
    BY <1>0, <1>3 DEF Classify, StageInv, Lacks, procVars, webVars
  <2>2. OutcomeInv'
    BY <1>0, <1>3 DEF Classify, OutcomeInv, ProcessTypes, WebTypes
  <2>3. QED
    BY <1>0, <1>3, <2>1, <2>2, OwnStep DEF Classify
<1>4. CASE Recurse
  <2>1. StageInv'
    BY <1>0, <1>4 DEF Recurse, StageInv, Lacks, procVars, webVars
  <2>2. OutcomeInv'
    <3>1. task.depth \in Nat /\ FlowDepthMax \in Nat
      BY <1>0
    <3>2. QED
      BY <1>0, <1>4, <3>1 DEF Recurse, OutcomeInv, ProcessTypes, WebTypes
  <2>3. QED
    BY <1>0, <1>4, <2>1, <2>2, OwnStep DEF Recurse
<1>5. CASE Assert
  <2>1. StageInv'
    BY <1>0, <1>5 DEF Assert, StageInv, Lacks, procVars, webVars
  <2>2. OutcomeInv'
    BY <1>0, <1>5 DEF Assert, OutcomeInv, ProcessTypes, WebTypes
  <2>3. QED
    BY <1>0, <1>5, <2>1, <2>2, OwnStep DEF Assert
<1>6. CASE InProcess(ProcessNext)
  <2>1. ProcessNext /\ UNCHANGED <<callVars, webVars>> /\ stage = "adapter"
    BY <1>6 DEF InProcess
  <2>2. ProcessInv'
    BY <2>1, ProcessStep DEF Inv
  <2>3. WebInv'
    BY <2>1, WebStutters DEF Inv
  <2>4. CallInv'
    <3>1. out = "none" /\ Lacks(task) = {}
      BY <1>0, <2>1 DEF StageInv
    <3>2. QED
      BY <1>0, <2>1, <3>1 DEF callVars, CallInv, CallTypeOK, StageInv, OutcomeInv, Lacks
  <2>5. QED
    BY <2>2, <2>3, <2>4 DEF Inv
<1>7. CASE ProcessDone
  <2>1. /\ stage = "adapter" /\ task.type \in ProcessTypes /\ stage' = "done"
        /\ out' = ProcessOutcome(task.type, answer)
        /\ UNCHANGED <<task, procVars, webVars, files>> /\ Lacks(task) = {}
    BY <1>0, <1>7 DEF ProcessDone, StageInv
  <2>2. StageInv'
    BY <1>0, <2>1 DEF StageInv, Lacks
  <2>3. /\ out' = "output" => answer = "ok"
        /\ out' # "flow"
        /\ task.type = "method" => out' \in {"output", "dropped", "provider_method_failed"}
    BY <1>0, <2>1 DEF ProcessOutcome
  <2>4. OutcomeInv'
    BY <2>1, <2>3 DEF OutcomeInv, procVars, ProcessTypes, WebTypes
  <2>5. QED
    BY <1>0, <2>1, <2>2, <2>4, OwnStep
<1>8. CASE OnWeb(WebNext)
  <2>1. WebNext /\ UNCHANGED <<callVars, procVars>> /\ stage = "adapter"
    BY <1>8 DEF OnWeb
  <2>2. ProcessInv'
    BY <2>1, ProcessStutters DEF Inv
  <2>3. WebInv'
    BY <2>1, WebStep DEF Inv
  <2>4. CallInv'
    <3>1. out = "none" /\ Lacks(task) = {}
      BY <1>0, <2>1 DEF StageInv
    <3>2. QED
      BY <1>0, <2>1, <3>1 DEF callVars, CallInv, CallTypeOK, StageInv, OutcomeInv, Lacks
  <2>5. QED
    BY <2>2, <2>3, <2>4 DEF Inv
<1>9. CASE WebDone
  <2>1. /\ stage = "adapter" /\ task.type \in WebTypes /\ stage' = "done"
        /\ out' = IF webAnswer = "ok" THEN "output" ELSE webAnswer
        /\ UNCHANGED <<task, procVars, webVars, files>> /\ Lacks(task) = {}
    BY <1>0, <1>9 DEF WebDone, StageInv
  <2>2. StageInv'
    BY <1>0, <2>1 DEF StageInv, Lacks
  <2>3. (out' = "output" => webAnswer = "ok") /\ out' # "flow"
    BY <1>0, <2>1 DEF WebAnswerSet
  <2>4. OutcomeInv'
    BY <2>1, <2>3 DEF OutcomeInv, webVars, ProcessTypes, WebTypes
  <2>5. QED
    BY <1>0, <2>1, <2>2, <2>4, OwnStep
<1>10. CASE FileSucceeds \/ FileRefused \/ FileBreaks
  <2>1. /\ stage = "adapter" /\ task.type = "file" /\ stage' = "done"
        /\ UNCHANGED <<task, procVars, webVars>> /\ Lacks(task) = {} /\ out' # "flow"
    BY <1>0, <1>10, FileRefusalType
       DEF FileSucceeds, FileRefused, FileBreaks, StageInv
  <2>2. files' \in [Paths -> Nat \union {Absent}]
    BY <1>0, <1>10, FilesStayTyped DEF FileRefused
  <2>3. StageInv'
    BY <1>0, <2>1 DEF StageInv, Lacks
  <2>4. OutcomeInv'
    BY <2>1 DEF OutcomeInv, ProcessTypes, WebTypes
  <2>5. QED
    BY <2>1, <2>2, <2>3, <2>4, OwnStep
<1>11. CASE UNCHANGED vars
  <2>1. ProcessInv' /\ WebInv'
    BY <1>11, ProcessStutters, WebStutters DEF vars, Inv
  <2>2. CallInv'
    BY <1>0, <1>11
       DEF vars, callVars, procVars, webVars, CallInv, CallTypeOK, StageInv, OutcomeInv, Lacks
  <2>3. QED
    BY <2>1, <2>2 DEF Inv
<1>12. QED
  BY <1>1, <1>2, <1>3, <1>4, <1>5, <1>6, <1>7, <1>8, <1>9, <1>10, <1>11 DEF Next

\* The inductive invariant: the call, its process and its request each keep
\* theirs, from the first stage of dispatch_task to its answer or its drop.
THEOREM InvHolds == Spec => []Inv
BY CallStarts, CallStep, PTL DEF Spec

\* Every variable keeps its type: pipes and captured output stay within their
\* caps, a body within its cap, and no size of a file is negative.
THEOREM TypeCorrect == Spec => []TypeOK
<1>1. Inv => TypeOK
  BY DEF Inv, CallInv, CallTypeOK, ProcessInv, WebInv, TypeOK
<1>2. QED
  BY <1>1, InvHolds, PTL

\* An output is earned, and an error has its cause, for any child program, any
\* server and any caps (dispatch_task, run_inner, send_inner).
THEOREM OutputsAreEarned == Spec => []AnswerIsEarned
<1>1. Inv => AnswerIsEarned
  BY DEF Inv, CallInv, StageInv, OutcomeInv, ProcessInv, WebInv, AnswerIsEarned
<1>2. QED
  BY <1>1, InvHolds, PTL

\* However often connections fail and answers get lost, one call never has a
\* server act more often than its retries allow, and only fetch has any
\* (send_inner, FETCH_RETRIES_MAX).
THEOREM AttemptsAreBounded == Spec => []RequestsAreBounded
<1>1. Inv => RequestsAreBounded
  BY RequestsFollow DEF Inv
<1>2. QED
  BY <1>1, InvHolds, PTL

\* A file operation touches its own files only, a move that is done has moved
\* the file, and a copy that is done has left two of it, unless it was a copy
\* onto itself (LocalFileSystem::perform).
THEOREM OperationsKeepFiles == Spec => FilesAreKept
<1> DEFINE Kept ==
      /\ \A p \in Paths :
           files'[p] # files[p] =>
             p = Target \/ (task.op = "move" /\ p = Source /\ files'[Target] = files[p])
      /\ (/\ task.type = "file" /\ task.op \in {"move", "copy"} /\ out' = "output"
          /\ task.op = "copy" => Source # Target) =>
           /\ files'[Target] = files[Source]
           /\ Source # Target =>
                files'[Source] = IF task.op = "move" THEN Absent ELSE files[Source]
<1>1. Inv /\ [Next]_vars => [Kept]_<<files, out>>
  <2> SUFFICES ASSUME Inv, Next, ~UNCHANGED <<files, out>> PROVE Kept
    BY DEF vars, callVars
  <2>1. Source \in Paths /\ Target \in Paths /\ files \in [Paths -> Nat \union {Absent}]
    BY TargetIsAPath DEF Inv, CallInv, CallTypeOK, StageInv
  <2>2. CASE FileSucceeds
    BY <2>1, <2>2 DEF FileSucceeds, Copied, Moved, Target, Source
  <2>3. CASE FileBreaks
    BY <2>1, <2>3 DEF FileBreaks, Done
  <2>4. CASE FileRefused
    BY <2>1, <2>4, FileRefusalType DEF FileRefused, Done, UnchangedAdapters
  <2>5. CASE CannotBuild
    BY <2>5, LacksType DEF CannotBuild, Done, UnchangedAdapters, Inv, CallInv, CallTypeOK
  <2>6. CASE Builds \/ Classify \/ Recurse \/ Assert
    BY <2>6 DEF Builds, Classify, Recurse, Assert, Done, UnchangedAdapters,
                ProcessTypes, WebTypes, Inv, CallInv, StageInv
  <2>7. CASE ProcessDone \/ WebDone
    BY <2>7 DEF ProcessDone, WebDone, Working, Done, UnchangedAdapters, ProcessTypes, WebTypes
  <2>8. CASE InProcess(ProcessNext) \/ OnWeb(WebNext)
    BY <2>8 DEF InProcess, OnWeb, callVars
  <2>9. QED
    BY <2>2, <2>3, <2>4, <2>5, <2>6, <2>7, <2>8 DEF Next
<1>2. QED
  BY <1>1, InvHolds, PTL DEF Spec, FilesAreKept

=============================================================================
