---------------------------- MODULE FanOut_proofs ---------------------------
(***************************************************************************)
(* FanOut for any width, any concurrency cap and any sub-flow: its types,  *)
(* the permits of its semaphore, what its answer stands for, and the two   *)
(* promises it keeps, the Scheduler port's and the guard's.                *)
(***************************************************************************)
EXTENDS FanOut, FiniteSetTheorems, WellFoundedInduction, TLAPS

USE NoReasonAssumption, BoundAssumption, ShapesAssumption, AnswerAssumption

-----------------------------------------------------------------------------
(* The inductive invariant.                                                *)

Running == {"head", "work", "tail"}

\* The semaphore neither loses a permit nor makes one.
PermitsAreConserved == permits + Cardinality(Active) = limit

\* A unit has an outcome from the end of its inner task on.
OutFollowsUnit ==
  \A e \in Unit : out[e] # NoAnswer <=> unit[e] \in {"tail", "done"}

\* No unit beyond the elements leaves the queue.
OnlyElementsRun == \A e \in Unit : unit[e] # "waiting" => e < width

\* Only a sub-flow has a task loop, and when it works it is at one of its tasks.
WorkIsATask ==
  \A e \in Unit :
    /\ unit[e] = "head" => Inner = "flow"
    /\ unit[e] = "work" /\ Inner = "flow" => at[e] <= SubTasks

\* Only a sub-flow looks at the token.
LeavesAreNeverCancelled == \A e \in Unit : out[e] \in Reasons => Inner = "flow"

AnswerFollowsPhase ==
  /\ phase \in {"idle", "fanning"} => answer = NoAnswer
  /\ phase = "refused" => answer = "failed"
  /\ phase \in {"dropped", "cut"} => answer \in Reasons
  /\ phase = "collected" =>
       /\ \A e \in Elements : unit[e] = "done"
       /\ answer = Verdict \/ (Verdict = "ok" /\ answer = "failed")

\* What holds of the units alone.
UnitsOK ==
  /\ permits \in 0 .. limit
  /\ unit \in [Unit -> UnitPC]
  /\ at \in [Unit -> 1 .. SubTasks + 1]
  /\ out \in [Unit -> Outcome \cup {NoAnswer}]
  /\ PermitsAreConserved
  /\ OutFollowsUnit
  /\ OnlyElementsRun
  /\ WorkIsATask
  /\ LeavesAreNeverCancelled

IInv ==
  /\ TypeOK
  /\ phase \in {"idle", "refused", "cut"} => width = 0
  /\ UnitsOK
  /\ AnswerFollowsPhase

-----------------------------------------------------------------------------
(* Counting the units in flight.                                           *)

LEMMA ActiveIsFinite ==
  /\ IsFiniteSet(Unit)
  /\ IsFiniteSet(Active) /\ Cardinality(Active) \in Nat
<1>1. IsFiniteSet(Unit)
  BY FS_Interval DEF Unit
<1>2. Active \in SUBSET Unit
  BY DEF Active
<1>3. QED
  BY <1>1, <1>2, FS_Subset, FS_CardinalityType

\* A unit that gets its permit is one more in flight.
LEMMA OneMoreActive ==
  ASSUME unit \in [Unit -> UnitPC], NEW e \in Unit, NEW pc \in Running,
         unit[e] \notin Running, unit' = [unit EXCEPT ![e] = pc]
  PROVE  /\ Active' = Active \cup {e}
         /\ Cardinality(Active') = Cardinality(Active) + 1
<1>1. Active' = Active \cup {e} /\ e \notin Active
  BY DEF Active, Running
<1>2. QED
  BY <1>1, ActiveIsFinite, FS_AddElement

\* A unit that goes on keeps it.
LEMMA AsManyActive ==
  ASSUME unit \in [Unit -> UnitPC], NEW e \in Unit, NEW pc \in Running,
         unit[e] \in Running, unit' = [unit EXCEPT ![e] = pc]
  PROVE  Active' = Active
BY DEF Active, Running

\* A unit that is done gives it back.
LEMMA OneLessActive ==
  ASSUME unit \in [Unit -> UnitPC], NEW e \in Unit, unit[e] \in Running,
         unit' = [unit EXCEPT ![e] = "done"]
  PROVE  /\ Active' = Active \ {e}
         /\ Cardinality(Active) \in Nat \ {0}
         /\ Cardinality(Active') = Cardinality(Active) - 1
<1>1. Active' = Active \ {e} /\ e \in Active
  BY DEF Active, Running
<1>2. Cardinality(Active') = Cardinality(Active) - 1
  BY <1>1, ActiveIsFinite, FS_RemoveElement
<1>3. Cardinality(Active) # 0
  BY <1>1, ActiveIsFinite, FS_EmptySet
<1>4. QED
  BY <1>1, <1>2, <1>3, ActiveIsFinite

-----------------------------------------------------------------------------
(* The steps of a unit.                                                    *)

LEMMA AcquireKeepsUnits ==
  ASSUME TypeOK, UnitsOK, NEW e \in Unit, Acquire(e)
  PROVE  UnitsOK'
<1> USE DEF UnitsOK, Acquire, Goes
<1> DEFINE pc == IF Inner = "flow" THEN "head" ELSE "work"
<1>1. pc \in Running /\ unit' = [unit EXCEPT ![e] = pc]
  BY DEF Running
<1>2. limit \in Nat /\ permits \in 1 .. limit
  BY DEF TypeOK
<1>3. permits' + Cardinality(Active') = limit /\ permits' \in 0 .. limit
  <2>1. Cardinality(Active') = Cardinality(Active) + 1
    BY <1>1, OneMoreActive DEF Running
  <2>2. permits' = permits - 1 /\ permits + Cardinality(Active) = limit
    BY DEF PermitsAreConserved
  <2>3. QED
    BY <1>2, <2>1, <2>2, ActiveIsFinite
<1>4. unit' \in [Unit -> UnitPC]
  BY DEF UnitPC
<1>5. OutFollowsUnit' /\ OnlyElementsRun' /\ WorkIsATask'
  BY DEF OutFollowsUnit, OnlyElementsRun, WorkIsATask, Inner
<1>6. LeavesAreNeverCancelled'
  BY DEF LeavesAreNeverCancelled, Inner
<1>7. QED
  BY <1>3, <1>4, <1>5, <1>6 DEF PermitsAreConserved

\* Whatever the inner task came to, its unit has a tail or is done.
LEMMA EndedKeepsUnits ==
  ASSUME TypeOK, UnitsOK, NEW e \in Unit, NEW o \in Outcome,
         unit[e] \in {"head", "work"}, o \in Reasons => Inner = "flow",
         Ended(e, o), UNCHANGED at
  PROVE  UnitsOK'
<1> USE DEF UnitsOK, Ended, Goes
<1>0. limit \in Nat /\ unit[e] \in Running
  BY DEF TypeOK, Running
<1>1. o # NoAnswer
  BY DEF Outcome
<1>2. CASE unit' = [unit EXCEPT ![e] = "done"] /\ permits' = permits + 1
  <2>1. permits' + Cardinality(Active') = limit /\ permits' \in 0 .. limit
    <3>1. /\ Cardinality(Active) \in Nat \ {0}
          /\ Cardinality(Active') = Cardinality(Active) - 1
      BY <1>0, <1>2, OneLessActive
    <3>2. permits' = permits + 1 /\ permits + Cardinality(Active) = limit
      BY <1>2 DEF PermitsAreConserved
    <3>3. QED
      BY <1>0, <3>1, <3>2
  <2>2. /\ unit' \in [Unit -> UnitPC]
        /\ OutFollowsUnit' /\ OnlyElementsRun' /\ WorkIsATask'
    BY <1>1, <1>2 DEF UnitPC, OutFollowsUnit, OnlyElementsRun, WorkIsATask, Inner
  <2>3. LeavesAreNeverCancelled'
    BY DEF LeavesAreNeverCancelled, Inner
  <2>4. QED
    BY <2>1, <2>2, <2>3 DEF PermitsAreConserved
<1>3. CASE unit' = [unit EXCEPT ![e] = "tail"] /\ UNCHANGED permits
  <2>1. Active' = Active
    BY <1>0, <1>3, AsManyActive DEF Running
  <2>2. /\ unit' \in [Unit -> UnitPC]
        /\ OutFollowsUnit' /\ OnlyElementsRun' /\ WorkIsATask'
    BY <1>1, <1>3 DEF UnitPC, OutFollowsUnit, OnlyElementsRun, WorkIsATask, Inner
  <2>3. LeavesAreNeverCancelled'
    BY DEF LeavesAreNeverCancelled, Inner
  <2>4. QED
    BY <1>3, <2>1, <2>2, <2>3 DEF PermitsAreConserved
<1>4. QED
  BY <1>2, <1>3

LEMMA TailKeepsUnits ==
  ASSUME TypeOK, UnitsOK, NEW e \in Unit, TailEnds(e) \/ TailFails(e)
  PROVE  UnitsOK'
<1> USE DEF UnitsOK, TailEnds, TailFails, Goes
<1>0. limit \in Nat /\ unit[e] \in Running
  BY DEF TypeOK, Running
<1>1. /\ unit[e] = "tail" /\ unit' = [unit EXCEPT ![e] = "done"]
      /\ permits' = permits + 1
  OBVIOUS
<1>2. permits' + Cardinality(Active') = limit /\ permits' \in 0 .. limit
  <2>1. /\ Cardinality(Active) \in Nat \ {0}
        /\ Cardinality(Active') = Cardinality(Active) - 1
    BY <1>0, <1>1, OneLessActive
  <2>2. permits' = permits + 1 /\ permits + Cardinality(Active) = limit
    BY <1>1 DEF PermitsAreConserved
  <2>3. QED
    BY <1>0, <2>1, <2>2
<1>3. unit' \in [Unit -> UnitPC] /\ OnlyElementsRun' /\ WorkIsATask'
  BY DEF UnitPC, OnlyElementsRun, WorkIsATask, Inner
<1>4. /\ out' \in [Unit -> Outcome \cup {NoAnswer}]
      /\ OutFollowsUnit' /\ LeavesAreNeverCancelled'
  BY DEF Outcome, OutFollowsUnit, LeavesAreNeverCancelled, Inner
<1>5. QED
  BY <1>2, <1>3, <1>4 DEF PermitsAreConserved

\* A sub-flow goes round its task loop.
LEMMA LoopKeepsUnits ==
  ASSUME TypeOK, UnitsOK, NEW e \in Unit,
         SubFlowDispatches(e) \/ SubTaskEnds(e)
  PROVE  UnitsOK'
<1> USE DEF UnitsOK, SubFlowDispatches, SubTaskEnds, Goes
<1>1. Active' = Active
  BY AsManyActive DEF Running
<1>2. unit' \in [Unit -> UnitPC]
  BY DEF UnitPC
<1>3. at' \in [Unit -> 1 .. SubTasks + 1] /\ WorkIsATask'
  <2>1. CASE SubFlowDispatches(e)
    BY <2>1 DEF WorkIsATask, Inner
  <2>2. CASE SubTaskEnds(e)
    <3>1. at[e] + 1 \in 1 .. SubTasks + 1
      BY <2>2 DEF WorkIsATask
    <3>2. QED
      BY <2>2, <3>1 DEF WorkIsATask, Inner
  <2>3. QED
    BY <2>1, <2>2
<1>4. OutFollowsUnit' /\ OnlyElementsRun' /\ LeavesAreNeverCancelled'
  BY DEF OutFollowsUnit, OnlyElementsRun, LeavesAreNeverCancelled, Inner
<1>5. QED
  BY <1>1, <1>2, <1>3, <1>4 DEF PermitsAreConserved

\* Every step of a unit: what it does to the units, and what it leaves alone.
LEMMA UnitStepKeepsUnits ==
  ASSUME TypeOK, UnitsOK, NEW e \in Unit, Step(e) \/ Await(e)
  PROVE  /\ UnitsOK'
         /\ phase = "fanning"
         /\ UNCHANGED <<tokenVars, shape, phase, width, limit, answer>>
<1>1. CASE Acquire(e)
  BY <1>1, AcquireKeepsUnits DEF Acquire, Fanning
<1>2. CASE SubFlowStops(e)
  <2>1. requested \in Outcome
    BY <1>2 DEF SubFlowStops, TypeOK, TokenTypeOK, Outcome
  <2>2. Inner = "flow"
    BY <1>2 DEF SubFlowStops, UnitsOK, WorkIsATask
  <2>3. QED
    BY <1>2, <2>1, <2>2, EndedKeepsUnits DEF SubFlowStops, Ended, Fanning
<1>3. CASE SubFlowDispatches(e) \/ SubTaskEnds(e)
  BY <1>3, LoopKeepsUnits DEF SubFlowDispatches, SubTaskEnds, Fanning
<1>4. CASE SubFlowEnds(e) \/ LeafEnds(e)
  BY <1>4, EndedKeepsUnits
     DEF SubFlowEnds, LeafEnds, Ended, Fanning, Outcome
<1>5. CASE SubTaskIsAbandoned(e)
  <2>1. hard \in Outcome
    BY <1>5 DEF SubTaskIsAbandoned, TypeOK, TokenTypeOK, Outcome
  <2>2. QED
    BY <1>5, <2>1, EndedKeepsUnits DEF SubTaskIsAbandoned, Ended, Fanning
<1>6. CASE WorkFails(e)
  BY <1>6, EndedKeepsUnits DEF WorkFails, Ended, Fanning, Outcome
<1>7. CASE TailEnds(e) \/ TailFails(e)
  BY <1>7, TailKeepsUnits DEF TailEnds, TailFails, Fanning
<1>8. QED
  BY <1>1, <1>2, <1>3, <1>4, <1>5, <1>6, <1>7 DEF Step, Await

-----------------------------------------------------------------------------
(* The answer.                                                             *)

\* A nonempty set of natural numbers has a least one, for < is well founded.
LEMMA LeastNumberPrinciple ==
  ASSUME NEW S \in SUBSET Nat, S # {}
  PROVE  \E m \in S : \A n \in S : m <= n
<1> DEFINE Less == {ss \in Nat \X Nat : ss[1] < ss[2]}
<1>1. IsWellFoundedOn(Less, Nat)
  BY NatLessThanWellFounded, Zenon DEF OpToRel
<1>2. PICK m \in S : \A n \in S : <<n, m>> \notin Less
  <2>1. S \subseteq Nat /\ S # {}
    OBVIOUS
  <2> HIDE DEF Less
  <2>2. QED
    BY ONLY <1>1, <2>1, WFMin
<1>3. \A n \in S : ~ (n < m)
  <2>1. \A n \in S : <<n, m>> \in Nat \X Nat
    OBVIOUS
  <2>2. QED
    BY <1>2, <2>1
<1>4. QED
  BY <1>3

\* An element that failed: there is a least one.
LEMMA LeastFailingExists ==
  ASSUME Failing # {}
  PROVE  LeastFailing \in Failing /\ \A d \in Failing : LeastFailing <= d
<1>1. Failing \in SUBSET Nat
  BY DEF Failing, Elements, Unit
<1>2. \E e \in Failing : \A d \in Failing : e <= d
  BY <1>1, LeastNumberPrinciple
<1>3. QED
  BY <1>2 DEF LeastFailing

\* The verdict on elements that are done is an outcome, and one that is not a
\* success is the outcome of the first element that has none.
LEMMA VerdictIsExplained ==
  ASSUME UnitsOK, \A e \in Elements : unit[e] = "done"
  PROVE  /\ Verdict \in Outcome
         /\ Verdict = "ok" <=> Failing = {} \/ ContinueOnError
         /\ Verdict # "ok" =>
              \E e \in Elements :
                out[e] = Verdict /\ \A d \in Elements : d < e => out[d] = "ok"
<1>1. CASE Failing = {} \/ ContinueOnError
  BY <1>1 DEF Verdict, Outcome
<1>2. CASE ~(Failing = {} \/ ContinueOnError)
  <2>1. LeastFailing \in Failing /\ \A d \in Failing : LeastFailing <= d
    BY <1>2, LeastFailingExists
  <2>2. Verdict = out[LeastFailing]
    BY <1>2 DEF Verdict
  <2>3. LeastFailing \in Elements /\ out[LeastFailing] # "ok"
    BY <2>1 DEF Failing
  <2>4. out[LeastFailing] \in Outcome
    BY <2>3 DEF UnitsOK, OutFollowsUnit, Elements
  <2>5. \A d \in Elements : d < LeastFailing => out[d] = "ok"
    <3> SUFFICES ASSUME NEW d \in Elements, out[d] # "ok" PROVE LeastFailing <= d
      BY <2>3 DEF Elements, Unit
    <3>1. QED
      BY <2>1 DEF Failing
  <2>6. QED
    BY <1>2, <2>2, <2>3, <2>4, <2>5
<1>3. QED
  BY <1>1, <1>2

\* There is an answer from the end of the fan-out on, and not before.
LEMMA AnswerIsDue ==
  ASSUME IInv
  PROVE  /\ answer = NoAnswer <=> phase \in {"idle", "fanning"}
         /\ answer = NoAnswer \/ answer \in Outcome
<1> USE DEF IInv, AnswerFollowsPhase
<1>1. phase = "collected" => Verdict \in Outcome
  BY VerdictIsExplained
<1>2. NoAnswer \notin Outcome
  BY DEF Outcome
<1>3. QED
  BY <1>1, <1>2 DEF TypeOK, Outcome

-----------------------------------------------------------------------------
(* Every step keeps the invariant.                                         *)

LEMMA InitIInv == Init => IInv
<1> SUFFICES ASSUME Init PROVE IInv
  OBVIOUS
<1> USE DEF Init
<1>1. TypeOK
  BY DEF TokenInit, TypeOK, TokenTypeOK, UnitPC
<1>2. Active = {}
  BY DEF Active
<1>3. PermitsAreConserved
  BY <1>2, FS_EmptySet DEF PermitsAreConserved
<1>4. UnitsOK
  BY <1>1, <1>3 DEF TypeOK, UnitsOK, OutFollowsUnit, OnlyElementsRun,
                    WorkIsATask, LeavesAreNeverCancelled
<1>5. QED
  BY <1>1, <1>4 DEF IInv, AnswerFollowsPhase

\* The effective concurrency is between one and the cap.
LEMMA EffectiveIsBounded ==
  ASSUME NEW asked \in Int, NEW cap \in Int
  PROVE  Effective(asked, cap) \in 1 .. ConcurrencyMax
BY DEF Effective

LEMMA BeginsKeepsIInv ==
  ASSUME IInv, FanOutBegins
  PROVE  IInv'
<1> USE DEF FanOutBegins
<1>1. limit' \in 1 .. ConcurrencyMax /\ width' \in 0 .. WidthMax
  BY EffectiveIsBounded
<1>2. TypeOK'
  BY <1>1 DEF IInv, TypeOK, TokenTypeOK, tokenVars
<1>3. \A e \in Unit : unit[e] = "waiting"
  BY DEF IInv, UnitsOK, OnlyElementsRun, Unit
<1>4. Active' = {}
  BY <1>3 DEF Active
<1>5. PermitsAreConserved'
  BY <1>1, <1>4, FS_EmptySet DEF PermitsAreConserved
<1>6. UnitsOK'
  BY <1>2, <1>3, <1>5 DEF IInv, TypeOK, UnitsOK, OutFollowsUnit,
     OnlyElementsRun, WorkIsATask, LeavesAreNeverCancelled, Inner
<1>7. QED
  BY <1>2, <1>6 DEF IInv, AnswerFollowsPhase

\* The units are as they were.
LEMMA UnitsStay ==
  ASSUME IInv, UNCHANGED <<shape, width, limit, unitVars>>
  PROVE  UnitsOK' /\ Elements' = Elements
<1> USE DEF IInv, unitVars
<1>1. Active' = Active
  BY DEF Active
<1>2. UnitsOK'
  BY <1>1 DEF UnitsOK, PermitsAreConserved, OutFollowsUnit, OnlyElementsRun,
              WorkIsATask, LeavesAreNeverCancelled, Inner
<1>3. QED
  BY <1>2 DEF Elements

LEMMA AnswerKeepsIInv ==
  ASSUME IInv,
         \/ FanOutIsRefused \/ Collect \/ OutputIsRejected
         \/ GuardDropsFanOut
  PROVE  IInv'
<1> USE DEF IInv
<1>1. UNCHANGED <<tokenVars, shape, width, limit, unitVars>>
  BY DEF FanOutIsRefused, Collect, OutputIsRejected, GuardDropsFanOut
<1>2. UnitsOK' /\ Elements' = Elements
  BY <1>1, UnitsStay
<1>3. Verdict' = Verdict
  BY <1>1, <1>2 DEF Verdict, Failing, LeastFailing, ContinueOnError, unitVars
<1>4. CASE FanOutIsRefused
  <2>1. TypeOK'
    BY <1>1, <1>4 DEF FanOutIsRefused, TypeOK, TokenTypeOK, tokenVars, unitVars, Outcome
  <2>2. QED
    BY <1>1, <1>2, <1>4, <2>1 DEF FanOutIsRefused, AnswerFollowsPhase
<1>5. CASE Collect \/ OutputIsRejected
  <2>1. Verdict \in Outcome
    BY <1>5, VerdictIsExplained DEF Collect, OutputIsRejected
  <2>2. /\ answer' = Verdict \/ (Verdict = "ok" /\ answer' = "failed")
        /\ phase = "fanning" /\ phase' = "collected"
        /\ \A e \in Elements : unit[e] = "done"
    BY <1>5 DEF Collect, OutputIsRejected, Fanning
  <2>3. TypeOK'
    BY <1>1, <2>1, <2>2 DEF TypeOK, TokenTypeOK, tokenVars, unitVars, Outcome
  <2>4. AnswerFollowsPhase'
    BY <1>1, <1>2, <1>3, <2>2 DEF AnswerFollowsPhase, unitVars
  <2>5. QED
    BY <1>2, <2>2, <2>3, <2>4
<1>6. CASE GuardDropsFanOut
  <2>1. hard \in Reasons /\ phase \in {"idle", "fanning"}
    BY <1>6, AnswerIsDue DEF GuardDropsFanOut, TypeOK, TokenTypeOK
  <2>2. TypeOK'
    BY <1>1, <1>6, <2>1
       DEF GuardDropsFanOut, TypeOK, TokenTypeOK, tokenVars, unitVars, Outcome
  <2>3. QED
    BY <1>1, <1>2, <1>6, <2>1, <2>2 DEF GuardDropsFanOut, AnswerFollowsPhase
<1>7. QED
  BY <1>4, <1>5, <1>6

LEMMA WatchersKeepIInv ==
  ASSUME IInv, Watchers
  PROVE  IInv'
<1> USE DEF IInv
<1>1. UNCHANGED <<shape, phase, width, limit, unitVars, answer>>
  BY DEF Watchers
<1>2. UnitsOK' /\ Elements' = Elements
  BY <1>1, UnitsStay
<1>3. Verdict' = Verdict
  BY <1>1, <1>2 DEF Verdict, Failing, LeastFailing, ContinueOnError, unitVars
<1>4. TokenTypeOK'
  BY DEF Watchers, Request, HardCancel, First, TypeOK, TokenTypeOK
<1>5. TypeOK' /\ AnswerFollowsPhase'
  BY <1>1, <1>2, <1>3, <1>4 DEF TypeOK, AnswerFollowsPhase, unitVars
<1>6. QED
  BY <1>1, <1>2, <1>5

LEMMA UnitStepKeepsIInv ==
  ASSUME IInv, NEW e \in Unit, Step(e) \/ Await(e)
  PROVE  IInv'
<1>1. /\ UnitsOK' /\ phase = "fanning"
      /\ UNCHANGED <<tokenVars, shape, phase, width, limit, answer>>
  BY UnitStepKeepsUnits DEF IInv
<1>2. TypeOK'
  BY <1>1 DEF IInv, TypeOK, TokenTypeOK, tokenVars, UnitsOK
<1>3. QED
  BY <1>1, <1>2 DEF IInv, AnswerFollowsPhase

LEMMA Inductive == Spec => []IInv
<1>1. IInv /\ [Next]_vars => IInv'
  <2> SUFFICES ASSUME IInv, [Next]_vars PROVE IInv'
    OBVIOUS
  <2>1. CASE Next
    BY <2>1, BeginsKeepsIInv, AnswerKeepsIInv, WatchersKeepIInv,
       UnitStepKeepsIInv DEF Next, Poll
  <2>2. CASE UNCHANGED vars
    <3>1. UnitsOK' /\ Elements' = Elements
      BY <2>2, UnitsStay DEF vars
    <3>2. Verdict' = Verdict
      BY <2>2, <3>1
         DEF vars, unitVars, Verdict, Failing, LeastFailing, ContinueOnError
    <3>3. TypeOK' /\ AnswerFollowsPhase'
      BY <2>2, <3>1, <3>2 DEF vars, unitVars, tokenVars, IInv, TypeOK,
         TokenTypeOK, AnswerFollowsPhase
    <3>4. QED
      BY <2>2, <3>1, <3>3 DEF IInv, vars
  <2>3. QED
    BY <2>1, <2>2
<1>2. QED
  BY InitIInv, <1>1, PTL DEF Spec

-----------------------------------------------------------------------------
(* What every fan-out satisfies.                                           *)

\* Every variable of a fan-out keeps its type, whatever its width, its
\* concurrency and its inner task (fanout.rs).
THEOREM TypeCorrect == Spec => []TypeOK
<1>1. IInv => TypeOK
  BY DEF IInv
<1>2. QED
  BY <1>1, Inductive, PTL

\* No path out of a unit, a success, a failure, a cancellation, a failed
\* scorer or a refused event, keeps its permit (scheduler.rs), and so never
\* more than `limit` elements are in flight.
THEOREM PermitsAreKept == Spec => [](PermitsAreConserved /\ Cardinality(Active) <= limit)
<1>1. IInv => PermitsAreConserved /\ Cardinality(Active) <= limit
  <2> SUFFICES ASSUME IInv PROVE PermitsAreConserved /\ Cardinality(Active) <= limit
    OBVIOUS
  <2>1. /\ permits \in 0 .. limit /\ limit \in Nat
        /\ permits + Cardinality(Active) = limit
    BY DEF IInv, UnitsOK, PermitsAreConserved, TypeOK
  <2>2. QED
    BY <2>1, ActiveIsFinite DEF PermitsAreConserved
<1>2. QED
  BY <1>1, Inductive, PTL

\* The answer of a map or an eval of any width is that of its first failing
\* element, and every element has run to its end (`run_map`, `run_eval`).
THEOREM AnswerStandsForElements == Spec => []AnswerIsExplained
<1>1. IInv => AnswerIsExplained
  <2> SUFFICES ASSUME IInv, phase = "collected"
               PROVE  /\ \A e \in Elements : unit[e] = "done"
                      /\ answer \in Reasons =>
                           \E e \in Elements :
                             /\ out[e] = answer
                             /\ \A d \in Elements : d < e => out[d] = "ok"
                      /\ answer = "ok" =>
                           ContinueOnError \/ \A e \in Elements : out[e] = "ok"
    BY DEF AnswerIsExplained
  <2>1. /\ UnitsOK /\ \A e \in Elements : unit[e] = "done"
        /\ answer = Verdict \/ (Verdict = "ok" /\ answer = "failed")
    BY DEF IInv, AnswerFollowsPhase
  <2>2. answer \in Reasons => answer = Verdict /\ Verdict # "ok"
    BY <2>1
  <2>3. answer = "ok" => Verdict = "ok"
    BY <2>1
  <2>4. QED
    BY <2>1, <2>2, <2>3, VerdictIsExplained DEF Failing
<1>2. QED
  BY <1>1, Inductive, PTL

\* Where a map that records failures has leaves for its elements, a fan-out
\* with a cancelled sub-flow never succeeds ("a nested `flow` can never
\* swallow a `--timeout`/SIGINT", runner.rs).
THEOREM NoCancellationIsSwallowed ==
  ASSUME \A s \in Shapes : s.continueOnError => s.inner = "leaf"
  PROVE  Spec => []CancellationComesUp
<1>1. IInv => CancellationComesUp
  <2> SUFFICES ASSUME IInv, answer = "ok", NEW e \in Elements, out[e] \in Reasons
               PROVE  FALSE
    BY DEF CancellationComesUp
  <2>1. phase = "collected"
    BY DEF IInv, AnswerFollowsPhase, TypeOK
  <2>2. UnitsOK /\ (\A d \in Elements : unit[d] = "done") /\ Verdict = "ok"
    BY <2>1 DEF IInv, AnswerFollowsPhase
  <2>3. e \in Failing /\ e \in Unit
    BY DEF Failing, Elements
  <2>4. ContinueOnError
    BY <2>2, <2>3, VerdictIsExplained
  <2>5. Inner = "flow"
    BY <2>2, <2>3 DEF UnitsOK, LeavesAreNeverCancelled
  <2>6. QED
    BY <2>4, <2>5 DEF IInv, TypeOK, ContinueOnError, Inner
<1>2. QED
  BY <1>1, Inductive, PTL

-----------------------------------------------------------------------------
(* The refinement of GuardedWork, without its fairness.                    *)

\* Every step of the fan-out is a step of the guarded work or a stutter.
LEMMA StepRefinesPromise ==
  ASSUME IInv, [Next]_vars
  PROVE  [Promise!Next]_(Promise!vars)
<1> USE DEF Promise!vars
<1> DEFINE Result == [g \in {"task"} |->
                        IF phase \in {"collected", "refused"} THEN "value"
                        ELSE answer]
<1>1. CASE FanOutBegins
  BY <1>1 DEF FanOutBegins, tokenVars
<1>2. CASE FanOutIsRefused \/ Collect \/ OutputIsRejected
  <2>1. phase \in {"idle", "fanning"} /\ phase' \in {"collected", "refused"}
    BY <1>2 DEF FanOutIsRefused, Collect, OutputIsRejected, Fanning
  <2>2. answer = NoAnswer
    BY <2>1, AnswerIsDue
  <2>3. Promise!Complete("task")
    BY <1>2, <2>1, <2>2 DEF FanOutIsRefused, Collect, OutputIsRejected,
       Promise!Complete, tokenVars, Promise!token
  <2>4. QED
    BY <2>3 DEF Promise!Next
<1>3. CASE GuardDropsFanOut
  <2>1. phase \in {"idle", "fanning"}
    BY <1>3, AnswerIsDue DEF GuardDropsFanOut
  <2>2. Promise!Abandon("task")
    BY <1>3, <2>1
       DEF GuardDropsFanOut, Promise!Abandon, tokenVars, Promise!token
  <2>3. QED
    BY <2>2 DEF Promise!Next
<1>4. CASE Watchers
  BY <1>4 DEF Watchers, Request, HardCancel, First, Promise!Next,
     Promise!AskSoft, Promise!StopHard, Promise!AskedBy
<1>5. ASSUME NEW e \in Unit, Step(e) \/ Await(e)
      PROVE  UNCHANGED Promise!vars
  BY <1>5, UnitStepKeepsUnits DEF IInv, tokenVars
<1>6. CASE UNCHANGED vars
  BY <1>6 DEF vars, tokenVars
<1>7. QED
  BY <1>1, <1>2, <1>3, <1>4, <1>5, <1>6 DEF Next, Poll

\* Whatever its elements do, a fan-out under the guard either completes or is
\* abandoned with the hard reason, and only after the hard stop (cancel.rs).
THEOREM FanOutKeepsPromise ==
  Spec => Promise!Init /\ [][Promise!Next]_(Promise!vars)
<1>1. Init => Promise!Init
  BY DEF Init, TokenInit, Promise!Init
<1>2. QED
  BY <1>1, Inductive, StepRefinesPromise, PTL DEF Spec

-----------------------------------------------------------------------------
(* The refinement of IndexedScheduler: what the port speaks of, as the     *)
(* units have it.                                                          *)

Finished == {e \in Unit : unit[e] = "done"}

\* The indexed results; the port starts with none.
Value == IF Finished = {} THEN <<>> ELSE [e \in Finished |-> out[e]]

Call ==
  CASE phase \in {"idle", "refused", "cut"} -> "none"
    [] phase = "fanning"                    -> "open"
    [] phase = "collected"                  -> "returned"
    [] phase = "dropped"                    -> "dropped"

InFlight == IF phase = "dropped" THEN {} ELSE Active

\* The port counts as this module does.
LEMMA SameCount == \A S : Port!Cardinality(S) = Cardinality(S)
BY DEF Port!Cardinality, Cardinality

LEMMA CallOfPhase ==
  /\ phase \in {"idle", "refused", "cut"} => Call = "none"
  /\ phase = "fanning" => Call = "open"
  /\ phase = "collected" => Call = "returned"
  /\ phase = "dropped" => Call = "dropped"
BY DEF Call

\* A unit that stays in flight or in the queue shows nothing of itself.
LEMMA NothingFinishes ==
  ASSUME UNCHANGED unit, UNCHANGED out
  PROVE  Finished' = Finished /\ Value' = Value /\ Active' = Active
BY DEF Finished, Value, Active

\* A unit gets its permit: the index starts.
LEMMA AcquireStarts ==
  ASSUME IInv, NEW e \in Unit, Acquire(e)
  PROVE  Port!Next
<1> USE DEF IInv, UnitsOK
<1> DEFINE pc == IF Inner = "flow" THEN "head" ELSE "work"
<1>1. /\ phase = "fanning" /\ phase' = "fanning" /\ e < width
      /\ unit[e] = "waiting" /\ unit' = [unit EXCEPT ![e] = pc]
      /\ UNCHANGED <<width, limit, out>>
  BY DEF Acquire, Goes, Fanning
<1>2. pc \in Running
  BY DEF Running
<1>3. Active' = Active \cup {e}
  BY <1>1, <1>2, OneMoreActive DEF Running
<1>4. Finished' = Finished /\ Value' = Value
  BY <1>1 DEF Finished, Value
<1>5. Cardinality(Active) < limit
  <2>1. permits > 0 /\ permits \in 0 .. limit /\ limit \in Nat
    BY DEF Acquire, TypeOK
  <2>2. QED
    BY <2>1, ActiveIsFinite DEF PermitsAreConserved
<1>6. e \notin Active \cup Finished
  BY <1>1 DEF Active, Finished
<1>7. Port!Start(e)
  BY <1>1, <1>3, <1>4, <1>5, <1>6, SameCount
     DEF Port!Start, Finished, Value
<1>8. e \in 0 .. width - 1
  BY <1>1 DEF Unit, TypeOK
<1>9. QED
  BY <1>7, <1>8 DEF Port!Next

\* A unit is done: the index finishes with the outcome of the unit.
LEMMA DoneFinishes ==
  ASSUME IInv, UnitsOK', NEW e \in Unit, unit[e] \in Running,
         unit' = [unit EXCEPT ![e] = "done"],
         \A d \in Unit : d # e => out'[d] = out[d],
         phase = "fanning", UNCHANGED <<phase, width, limit>>
  PROVE  Port!Next
<1> USE DEF IInv, UnitsOK
<1>1. Active' = Active \ {e}
  BY OneLessActive
<1>2. Finished' = Finished \cup {e} /\ e \in Active
  BY DEF Finished, Active, Running
<1>3. PICK o \in Outcome : o = out'[e]
  BY DEF OutFollowsUnit
<1>4. Value' = [d \in Finished' |-> IF d = e THEN o ELSE Value[d]]
  BY <1>2, <1>3 DEF Finished, Value
<1>5. Port!Finish(e, o)
  BY <1>1, <1>2, <1>4 DEF Port!Finish, Finished, Value
<1>6. e \in 0 .. width - 1
  BY DEF Unit, TypeOK, OnlyElementsRun, Running
<1>7. QED
  BY <1>5, <1>6, Zenon DEF Port!Next

\* When all elements are done there are as many results as elements.
LEMMA AllFinished ==
  ASSUME IInv, \A e \in Elements : unit[e] = "done"
  PROVE  Active = {} /\ Cardinality(Finished) = width
<1> USE DEF IInv, UnitsOK
<1>1. width \in 0 .. WidthMax
  BY DEF TypeOK
<1>2. Finished = 0 .. width - 1
  BY <1>1 DEF Finished, Elements, Unit, OnlyElementsRun
<1>3. Active = {}
  BY <1>1 DEF Active, Elements, Unit, OnlyElementsRun
<1>4. QED
  BY <1>1, <1>2, <1>3, FS_Interval

\* Every step of the fan-out is a step of the port or a stutter.
LEMMA StepRefinesPort ==
  ASSUME IInv, IInv', [Next]_vars
  PROVE  [Port!Next]_(Port!vars)
<1> USE DEF Port!vars
<1>1. CASE FanOutBegins
  <2>1. /\ phase = "idle" /\ phase' = "fanning"
        /\ width' \in 0 .. WidthMax /\ limit' \in 1 .. ConcurrencyMax
        /\ UNCHANGED <<unit, out>>
    BY <1>1 DEF FanOutBegins, IInv, TypeOK
  <2>2. Port!RunIndexed(width', limit')
    BY <2>1, NothingFinishes DEF Port!RunIndexed, Finished, Value
  <2>3. QED
    BY <2>1, <2>2 DEF Port!Next
<1>2. CASE Collect \/ OutputIsRejected
  <2>1. /\ phase = "fanning" /\ phase' = "collected"
        /\ \A e \in Elements : unit[e] = "done"
        /\ UNCHANGED <<width, limit, unit, out>>
    BY <1>2 DEF Collect, OutputIsRejected, Fanning, unitVars
  <2>2. Active = {} /\ Cardinality(Finished) = width
    BY <2>1, AllFinished
  <2>3. Port!Return
    BY <2>1, <2>2, NothingFinishes, SameCount DEF Port!Return, Finished, Value
  <2>4. QED
    BY <2>3 DEF Port!Next
<1>3. CASE GuardDropsFanOut
  <2>1. /\ phase \in {"idle", "fanning"}
        /\ phase' = IF phase = "idle" THEN "cut" ELSE "dropped"
        /\ UNCHANGED <<width, limit, unit, out>>
    BY <1>3, AnswerIsDue DEF GuardDropsFanOut, unitVars
  <2>2. Finished' = Finished /\ Value' = Value /\ Active' = Active
    BY <2>1, NothingFinishes
  <2>3. phase = "fanning" => Port!Drop
    BY <2>1, <2>2 DEF Port!Drop, Finished, Value
  <2>4. phase = "idle" => UNCHANGED Port!vars
    BY <2>1, <2>2 DEF Finished, Value
  <2>5. QED
    BY <2>1, <2>3, <2>4 DEF Port!Next
<1>4. CASE FanOutIsRefused
  <2>1. /\ phase = "idle" /\ phase' = "refused"
        /\ UNCHANGED <<width, limit, unit, out>>
    BY <1>4 DEF FanOutIsRefused, unitVars
  <2>2. QED
    BY <2>1, NothingFinishes DEF Finished, Value
<1>5. CASE Watchers \/ UNCHANGED vars
  <2>1. UNCHANGED <<phase, width, limit, unit, out>>
    BY <1>5 DEF Watchers, vars, unitVars
  <2>2. QED
    BY <2>1, NothingFinishes DEF Finished, Value
<1>6. ASSUME NEW e \in Unit, Step(e) \/ Await(e)
      PROVE  [Port!Next]_(Port!vars)
  <2>1. /\ UnitsOK' /\ phase = "fanning"
        /\ UNCHANGED <<phase, width, limit>>
    BY <1>6, UnitStepKeepsUnits DEF IInv
  <2>2. CASE Acquire(e)
    BY <2>2, AcquireStarts
  <2>3. CASE \/ SubFlowStops(e) \/ SubFlowEnds(e) \/ SubTaskIsAbandoned(e)
             \/ LeafEnds(e) \/ WorkFails(e)
    <3>1. PICK o : Ended(e, o)
      BY <2>3 DEF SubFlowStops, SubFlowEnds, SubTaskIsAbandoned, LeafEnds, WorkFails
    <3>2. unit[e] \in {"head", "work"}
      BY <2>3 DEF SubFlowStops, SubFlowEnds, SubTaskIsAbandoned, LeafEnds, WorkFails
    <3>3. out' = [out EXCEPT ![e] = o]
      BY <3>1 DEF Ended
    <3>4. CASE unit' = [unit EXCEPT ![e] = "done"]
      BY <2>1, <3>2, <3>3, <3>4, DoneFinishes DEF IInv, UnitsOK, Running
    <3>5. CASE unit' = [unit EXCEPT ![e] = "tail"]
      <4>1. Active' = Active
        BY <3>2, <3>5, AsManyActive DEF IInv, UnitsOK, Running
      <4>2. Finished' = Finished /\ Value' = Value
        BY <3>2, <3>3, <3>5 DEF IInv, UnitsOK, Finished, Value
      <4>3. QED
        BY <2>1, <4>1, <4>2 DEF Finished, Value
    <3>6. QED
      BY <3>1, <3>4, <3>5 DEF Ended, Goes
  <2>4. CASE SubFlowDispatches(e) \/ SubTaskEnds(e)
    <3>1. PICK pc \in {"head", "work"} :
            /\ unit[e] \in {"head", "work"}
            /\ unit' = [unit EXCEPT ![e] = pc] /\ UNCHANGED out
      BY <2>4 DEF SubFlowDispatches, SubTaskEnds, Goes
    <3>2. Active' = Active
      BY <3>1, AsManyActive DEF IInv, UnitsOK, Running
    <3>3. Finished' = Finished /\ Value' = Value
      BY <3>1 DEF IInv, UnitsOK, Finished, Value
    <3>4. QED
      BY <2>1, <3>2, <3>3 DEF Finished, Value
  <2>5. CASE TailEnds(e) \/ TailFails(e)
    <3>1. /\ unit[e] = "tail" /\ unit' = [unit EXCEPT ![e] = "done"]
          /\ \A d \in Unit : d # e => out'[d] = out[d]
      BY <2>5 DEF TailEnds, TailFails, Goes, IInv, UnitsOK
    <3>2. QED
      BY <2>1, <3>1, DoneFinishes DEF Running
  <2>6. QED
    BY <1>6, <2>2, <2>3, <2>4, <2>5 DEF Step, Await
<1>7. QED
  BY <1>1, <1>2, <1>3, <1>4, <1>5, <1>6 DEF Next, Poll

\* The semaphore and the units keep what the Scheduler port promises: every
\* index runs once, no more at a time than asked, one result per index, and
\* the call returns when all of them have finished (ports/driven.rs).
THEOREM SemaphoreKeepsPort ==
  Spec => Port!Init /\ [][Port!Next]_(Port!vars)
<1>1. Init => Port!Init
  <2> SUFFICES ASSUME Init PROVE Port!Init
    OBVIOUS
  <2>1. Active = {} /\ Finished = {}
    BY DEF Init, Active, Finished
  <2>2. QED
    BY <2>1 DEF Init, Port!Init, Finished, Value
<1>2. QED
  BY <1>1, Inductive, StepRefinesPort, PTL DEF Spec

=============================================================================
