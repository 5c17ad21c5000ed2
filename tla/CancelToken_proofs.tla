------------------------- MODULE CancelToken_proofs -------------------------
(***************************************************************************)
(* CancelToken for any number of guards, tasks and reasons: its types, the *)
(* absence of lost wake-ups, and the safety part of the refinement of      *)
(* GuardedWork.                                                            *)
(***************************************************************************)
EXTENDS CancelToken, TLAPS

\* A guard between its registration and its second read of the flag is on the
\* waker list, unless the hard stop has fired: then the second read sees it.
RecheckIsCovered ==
  \A g \in Guards :
    gpc[g] = "recheck" => hard # NoReason \/ TaskOf[g] \in wakers

\* A watcher that has yet to call hard_cancel holds no wakers.
NothingTakenEarly == \A r \in Reasons : stage[r] # "done" => taken[r] = {}

\* A guard that was abandoned carries the hard reason; one that is still in
\* `poll`, or asleep, has no answer.
ResultsAgree ==
  \A g \in Guards :
    /\ result[g] \in Reasons => result[g] = hard
    /\ gpc[g] = "resolved" <=> result[g] # NoResult

IInv ==
  /\ TypeOK
  /\ NoLostWakeup
  /\ ParkedIsReachable
  /\ RecheckIsCovered
  /\ NothingTakenEarly
  /\ ResultsAgree

USE NoReasonAssumption, TaskOfAssumption, NoResultAssumption

\* The variables have their types in every reachable state.
THEOREM TypeCorrect == Spec => []TypeOK
<1>1. Init => TypeOK
  BY DEF Init, TypeOK, TokenInit, TokenTypeOK, GuardPC
<1>2. TypeOK /\ [Next]_vars => TypeOK'
  <2> SUFFICES ASSUME TypeOK, [Next]_vars PROVE TypeOK'
    OBVIOUS
  <2> USE DEF TypeOK, TokenTypeOK, GuardPC
  <2>1. ASSUME NEW r \in Reasons, RequestCancel(r) PROVE TypeOK'
    BY <2>1 DEF RequestCancel, Request, First, guardVars
  <2>2. ASSUME NEW r \in Reasons, HardCancelTakesWakers(r) PROVE TypeOK'
    BY <2>2 DEF HardCancelTakesWakers, HardCancel, First, guardVars
  <2>3. ASSUME NEW r \in Reasons, NEW t \in Tasks, WakeTaken(r, t)
        PROVE TypeOK'
    BY <2>3 DEF WakeTaken, tokenVars, guardVars
  <2>4. ASSUME NEW t \in Tasks, PollTask(t) PROVE TypeOK'
    BY <2>4 DEF PollTask, tokenVars
  <2>5. ASSUME NEW g \in Guards, CheckHard(g) PROVE TypeOK'
    BY <2>5 DEF CheckHard, ReadHard, tokenVars
  <2>6. ASSUME NEW g \in Guards, PollWork(g) PROVE TypeOK'
    BY <2>6 DEF PollWork, tokenVars
  <2>7. ASSUME NEW g \in Guards, Register(g) PROVE TypeOK'
    <3>1. notified' \in [Tasks -> BOOLEAN] /\ wakers' \subseteq Tasks
      <4>1. CASE hard # NoReason
        BY <2>7, <4>1 DEF Register
      <4>2. CASE hard = NoReason
        BY <2>7, <4>2 DEF Register
      <4>3. QED
        BY <4>1, <4>2
    <3>2. gpc' \in [Guards -> GuardPC]
      BY <2>7 DEF Register
    <3>3. QED
      BY <2>7, <3>1, <3>2 DEF Register, tokenVars
  <2>8. ASSUME NEW g \in Guards, Recheck(g) PROVE TypeOK'
    BY <2>8 DEF Recheck, ReadHard, tokenVars
  <2>9. ASSUME NEW g \in Guards, WorkReady(g) PROVE TypeOK'
    BY <2>9 DEF WorkReady, tokenVars
  <2>10. CASE UNCHANGED vars
    BY <2>10 DEF vars
  <2>11. QED
    BY <2>1, <2>2, <2>3, <2>4, <2>5, <2>6, <2>7, <2>8, <2>9, <2>10
    DEF Next, Watcher, GuardStep
<1>3. QED
  BY <1>1, <1>2, PTL DEF Spec

-----------------------------------------------------------------------------
(* The inductive invariant: one lemma per group of actions.                *)

LEMMA InitIInv == Init => IInv
<1> SUFFICES ASSUME Init PROVE IInv
  OBVIOUS
<1>1. TypeOK
  BY DEF Init, TypeOK, TokenInit, TokenTypeOK, GuardPC
<1>2. NoLostWakeup /\ ParkedIsReachable /\ RecheckIsCovered
  BY DEF Init, TokenInit, NoLostWakeup, ParkedIsReachable, RecheckIsCovered
<1>3. NothingTakenEarly /\ ResultsAgree
  BY DEF Init, TokenInit, NothingTakenEarly, ResultsAgree
<1>4. QED
  BY <1>1, <1>2, <1>3 DEF IInv

\* A watcher's call of the token, or one of the wakes it owes.
LEMMA WatcherKeepsIInv ==
  ASSUME IInv, TypeOK', NEW r \in Reasons, Watcher(r)
  PROVE  IInv'
<1> USE DEF IInv, TypeOK, TokenTypeOK, tokenVars, guardVars
<1>1. CASE RequestCancel(r)
  BY <1>1 DEF RequestCancel, Request, NoLostWakeup, WakePending,
              ParkedIsReachable, RecheckIsCovered, NothingTakenEarly,
              ResultsAgree
<1>2. CASE HardCancelTakesWakers(r)
  <2> USE <1>2 DEF HardCancelTakesWakers, HardCancel, First
  <2>1. hard' # NoReason /\ (hard # NoReason => hard' = hard)
    OBVIOUS
  <2>2. taken[r] = {} /\ taken'[r] = wakers
    BY DEF NothingTakenEarly
  <2>3. \A s \in Reasons \ {r} : taken'[s] = taken[s]
    OBVIOUS
  <2>4. NoLostWakeup'
    <3> SUFFICES ASSUME NEW g \in Guards, gpc[g] = "idle"
                 PROVE  WakePending(TaskOf[g])'
      BY DEF NoLostWakeup
    <3>1. CASE hard = NoReason
      BY <3>1, <2>2 DEF ParkedIsReachable, WakePending
    <3>2. CASE hard # NoReason
      BY <3>2, <2>2, <2>3 DEF NoLostWakeup, WakePending
    <3>3. QED
      BY <3>1, <3>2
  <2>5. ParkedIsReachable' /\ RecheckIsCovered'
    BY <2>1 DEF ParkedIsReachable, RecheckIsCovered
  <2>6. NothingTakenEarly'
    BY <2>3 DEF NothingTakenEarly
  <2>7. ResultsAgree'
    BY <2>1 DEF ResultsAgree
  <2>8. QED
    BY <2>4, <2>5, <2>6, <2>7
<1>3. ASSUME NEW t \in Tasks, WakeTaken(r, t) PROVE IInv'
  <2> USE <1>3 DEF WakeTaken
  <2>1. notified'[t] /\ \A u \in Tasks \ {t} : notified'[u] = notified[u]
    OBVIOUS
  <2>2. \A s \in Reasons, u \in Tasks \ {t} :
          u \in taken[s] <=> u \in taken'[s]
    OBVIOUS
  <2>3. NoLostWakeup'
    BY <2>1, <2>2 DEF NoLostWakeup, WakePending
  <2>4. ParkedIsReachable' /\ RecheckIsCovered' /\ ResultsAgree'
    BY <2>1 DEF ParkedIsReachable, RecheckIsCovered, ResultsAgree
  <2>5. NothingTakenEarly'
    BY DEF NothingTakenEarly
  <2>6. QED
    BY <2>3, <2>4, <2>5
<1>4. QED
  BY <1>1, <1>2, <1>3 DEF Watcher

\* The runtime picks a notified task up.
LEMMA PollTaskKeepsIInv ==
  ASSUME IInv, TypeOK', NEW t \in Tasks, PollTask(t)
  PROVE  IInv'
<1> USE DEF IInv, TypeOK, TokenTypeOK, GuardPC, tokenVars, PollTask
<1>1. \A g \in Guards : gpc'[g] = "idle" =>
         gpc[g] = "idle" /\ TaskOf[g] # t
  OBVIOUS
<1>2. \A u \in Tasks \ {t} : notified'[u] = notified[u]
  OBVIOUS
<1>3. NoLostWakeup' /\ ParkedIsReachable'
  BY <1>1, <1>2 DEF NoLostWakeup, WakePending, ParkedIsReachable
<1>4. RecheckIsCovered' /\ NothingTakenEarly'
  BY DEF RecheckIsCovered, NothingTakenEarly
<1>5. ResultsAgree'
  BY DEF ResultsAgree
<1>6. QED
  BY <1>3, <1>4, <1>5

\* A read of the hard flag that sends the guard on to `next`.  Going to sleep
\* is safe for a guard that is on the waker list.
LEMMA ReadHardKeepsIInv ==
  ASSUME IInv, TypeOK', NEW g \in Guards, NEW next \in {"polling", "idle"},
         gpc[g] \in {"entry", "recheck"}, ReadHard(g, next),
         next = "idle" => gpc[g] = "recheck"
  PROVE  IInv'
<1> USE DEF IInv, TypeOK, TokenTypeOK, GuardPC, tokenVars, ReadHard
<1>1. \A h \in Guards \ {g} : gpc'[h] = gpc[h] /\ result'[h] = result[h]
  BY Zenon
<1>2. CASE hard # NoReason
  <2>1. gpc'[g] = "resolved" /\ result'[g] = hard
    BY <1>2
  <2>2. NoLostWakeup' /\ ParkedIsReachable' /\ RecheckIsCovered'
    BY <1>1, <1>2, <2>1 DEF NoLostWakeup, WakePending, ParkedIsReachable,
                            RecheckIsCovered
  <2>3. ResultsAgree'
    BY <1>1, <1>2, <2>1 DEF ResultsAgree
  <2>4. QED
    BY <2>2, <2>3 DEF NothingTakenEarly
<1>3. CASE hard = NoReason
  <2>1. gpc'[g] = next /\ result'[g] = result[g] /\ result[g] = NoResult
    BY <1>3 DEF ResultsAgree
  <2>2. gpc[g] = "recheck" => TaskOf[g] \in wakers
    BY <1>3 DEF RecheckIsCovered
  <2>3. NoLostWakeup' /\ ParkedIsReachable' /\ RecheckIsCovered'
    BY <1>1, <1>3, <2>1, <2>2
    DEF NoLostWakeup, WakePending, ParkedIsReachable, RecheckIsCovered
  <2>4. ResultsAgree'
    BY <1>1, <1>3, <2>1 DEF ResultsAgree
  <2>5. QED
    BY <2>3, <2>4 DEF NothingTakenEarly
<1>4. QED
  BY <1>2, <1>3

LEMMA GuardStepKeepsIInv ==
  ASSUME IInv, TypeOK', NEW g \in Guards, GuardStep(g)
  PROVE  IInv'
<1> USE DEF IInv, TypeOK, TokenTypeOK, GuardPC, tokenVars
<1>1. CASE CheckHard(g)
  BY <1>1, ReadHardKeepsIInv DEF CheckHard
<1>2. CASE Recheck(g)
  BY <1>2, ReadHardKeepsIInv DEF Recheck
<1>3. CASE PollWork(g)
  <2> USE <1>3 DEF PollWork
  <2>1. \A h \in Guards \ {g} : gpc'[h] = gpc[h] /\ result'[h] = result[h]
    BY Zenon
  <2>2. \/ gpc'[g] = "resolved" /\ result'[g] = "value"
        \/ gpc'[g] = "pending" /\ result'[g] = NoResult
    BY DEF ResultsAgree
  <2>3. NoLostWakeup' /\ ParkedIsReachable' /\ RecheckIsCovered'
    BY <2>1, <2>2 DEF NoLostWakeup, WakePending, ParkedIsReachable,
                      RecheckIsCovered
  <2>4. ResultsAgree'
    BY <2>1, <2>2 DEF ResultsAgree
  <2>5. NothingTakenEarly'
    BY Zenon DEF NothingTakenEarly
  <2>6. QED
    BY <2>3, <2>4, <2>5
<1>4. CASE Register(g)
  <2>1. /\ gpc'[g] = "recheck"
        /\ \A h \in Guards \ {g} : gpc'[h] = gpc[h]
    BY <1>4 DEF Register
  <2>2. /\ UNCHANGED <<requested, hard, stage, taken, result>>
        /\ gpc[g] = "pending"
    BY <1>4 DEF Register
  <2>3. /\ \A t \in Tasks : notified[t] => notified'[t]
        /\ wakers \subseteq wakers'
        /\ hard = NoReason => TaskOf[g] \in wakers'
    <3>1. CASE hard # NoReason
      BY <1>4, <3>1 DEF Register
    <3>2. CASE hard = NoReason
      BY <1>4, <3>2 DEF Register
    <3>3. QED
      BY <3>1, <3>2
  <2>4. NoLostWakeup' /\ ParkedIsReachable'
    BY <2>1, <2>2, <2>3 DEF NoLostWakeup, WakePending, ParkedIsReachable
  <2>5. RecheckIsCovered' /\ NothingTakenEarly'
    BY <2>1, <2>2, <2>3 DEF RecheckIsCovered, NothingTakenEarly
  <2>6. ResultsAgree'
    BY <2>1, <2>2 DEF ResultsAgree
  <2>7. QED
    BY <2>4, <2>5, <2>6
<1>5. QED
  BY <1>1, <1>2, <1>3, <1>4 DEF GuardStep

LEMMA WorkReadyKeepsIInv ==
  ASSUME IInv, TypeOK', NEW g \in Guards, WorkReady(g)
  PROVE  IInv'
<1> USE DEF IInv, TypeOK, TokenTypeOK, tokenVars, WorkReady
<1>1. \A t \in Tasks : notified[t] => notified'[t]
  OBVIOUS
<1>2. NoLostWakeup' /\ ParkedIsReachable'
  BY <1>1 DEF NoLostWakeup, WakePending, ParkedIsReachable
<1>3. RecheckIsCovered' /\ NothingTakenEarly' /\ ResultsAgree'
  BY DEF RecheckIsCovered, NothingTakenEarly, ResultsAgree
<1>4. QED
  BY <1>2, <1>3

LEMMA Inductive == Spec => []IInv
<1>1. IInv /\ TypeOK' /\ [Next]_vars => IInv'
  <2> SUFFICES ASSUME IInv, TypeOK', [Next]_vars PROVE IInv'
    OBVIOUS
  <2>1. CASE Next
    BY <2>1, WatcherKeepsIInv, PollTaskKeepsIInv, GuardStepKeepsIInv,
       WorkReadyKeepsIInv DEF Next
  <2>2. CASE UNCHANGED vars
    BY <2>2 DEF vars, IInv, TypeOK, NoLostWakeup, WakePending,
       ParkedIsReachable, RecheckIsCovered, NothingTakenEarly, ResultsAgree
  <2>3. QED
    BY <2>1, <2>2
<1>2. QED
  BY InitIInv, TypeCorrect, <1>1, PTL DEF Spec

\* No guard sleeps through the hard stop, whatever the interleaving.
THEOREM NoWakeupIsLost == Spec => []NoLostWakeup
<1>1. IInv => NoLostWakeup
  BY DEF IInv
<1>2. QED
  BY <1>1, Inductive, PTL

\* Until the hard stop every sleeping guard is within its reach.
THEOREM ParkedGuardsAreReachable == Spec => []ParkedIsReachable
<1>1. IInv => ParkedIsReachable
  BY DEF IInv
<1>2. QED
  BY <1>1, Inductive, PTL

-----------------------------------------------------------------------------
(* The refinement of GuardedWork, without its fairness.                    *)

\* Every step of the protocol is a step of the promise or changes nothing
\* that the promise speaks of.
LEMMA StepRefines ==
  ASSUME IInv, [Next]_vars
  PROVE  [Promise!Next]_(Promise!vars)
<1> USE DEF IInv, TypeOK, TokenTypeOK, tokenVars, guardVars, Promise!vars,
            Promise!token
<1>1. ASSUME NEW r \in Reasons, Watcher(r)
      PROVE  [Promise!Next]_(Promise!vars)
  <2>1. CASE RequestCancel(r)
    BY <2>1 DEF RequestCancel, Request, First, Promise!Next, Promise!AskSoft,
                Promise!AskedBy
  <2>2. CASE HardCancelTakesWakers(r)
    BY <2>2 DEF HardCancelTakesWakers, HardCancel, First, Promise!Next,
                Promise!StopHard, Promise!AskedBy
  <2>3. ASSUME NEW t \in Tasks, WakeTaken(r, t) PROVE UNCHANGED Promise!vars
    BY <2>3 DEF WakeTaken
  <2>4. QED
    BY <1>1, <2>1, <2>2, <2>3 DEF Watcher
<1>2. ASSUME NEW t \in Tasks, PollTask(t) PROVE UNCHANGED Promise!vars
  BY <1>2 DEF PollTask
<1>3. ASSUME NEW g \in Guards, GuardStep(g)
      PROVE  [Promise!Next]_(Promise!vars)
  <2>1. ASSUME NEW next, ReadHard(g, next), gpc[g] # "resolved"
        PROVE  Promise!Abandon(g) \/ UNCHANGED Promise!vars
    <3>1. result[g] = NoResult
      BY <2>1 DEF ResultsAgree
    <3>2. QED
      BY <2>1, <3>1 DEF ReadHard, Promise!Abandon
  <2>2. CASE PollWork(g)
    <3>1. result[g] = NoResult
      BY <2>2 DEF PollWork, ResultsAgree
    <3>2. Promise!Complete(g) \/ UNCHANGED Promise!vars
      BY <2>2, <3>1 DEF PollWork, Promise!Complete
    <3>3. QED
      BY <3>2 DEF Promise!Next
  <2>3. CASE Register(g)
    BY <2>3 DEF Register
  <2>4. CASE CheckHard(g) \/ Recheck(g)
    BY <2>4, <2>1 DEF CheckHard, Recheck, Promise!Next
  <2>5. QED
    BY <1>3, <2>2, <2>3, <2>4 DEF GuardStep
<1>4. ASSUME NEW g \in Guards, WorkReady(g) PROVE UNCHANGED Promise!vars
  BY <1>4 DEF WorkReady
<1>5. CASE UNCHANGED vars
  BY <1>5 DEF vars
<1>6. QED
  BY <1>1, <1>2, <1>3, <1>4, <1>5 DEF Next

\* `guard` completes with the work's value or with the hard reason, and the
\* hard reason only after the hard stop: the protocol implements the promise.
THEOREM ProtocolKeepsPromise ==
  Spec => Promise!Init /\ [][Promise!Next]_(Promise!vars)
<1>1. Init => Promise!Init
  BY DEF Init, TokenInit, Promise!Init
<1>2. QED
  BY <1>1, Inductive, StepRefines, PTL DEF Spec

=============================================================================
