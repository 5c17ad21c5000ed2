-------------------------- MODULE RunCommand_proofs --------------------------
(***************************************************************************)
(* Proofs about `tmx run`, for every set of command lines and every bound. *)
(* Inv says for each place of the command which combinations have ended,   *)
(* which methods were called and what the watch has seen.                  *)
(***************************************************************************)
EXTENDS RunCommand, SequenceTheorems, TLAPS

USE NoReasonAssumption, FlagsAssumption, ReasonsAssumption, BoundsAssumption,
    HardCodesAssumption, UntoldAssumption

\* The latch holds the first outcome that failed.
LatchInv ==
  /\ first = Untold => \A i \in 1 .. Len(done) : ~Failed(done[i])
  /\ first # Untold =>
       \E i \in 1 .. Len(done) :
         /\ done[i] = first /\ Failed(first)
         /\ \A j \in 1 .. i - 1 : ~Failed(done[j])

\* How many combinations have ended, and where a hard error can stand.
MatrixInv ==
  /\ \A i \in 1 .. Len(done) - 1 : ~done[i].hard
  /\ pc \in {"watch", "resolve", "prepare", "deploy", "undeploy"} =>
       done = << >> /\ first = Untold
  /\ pc \in {"deploy", "loop"} => combos # 0
  /\ pc = "loop" =>
       Len(done) < combos /\ \A i \in 1 .. Len(done) : ~done[i].hard
  /\ pc \in {"clean", "emit"} => Len(done) > 0
  /\ pc \in {"clean", "emit"} \/ (Over /\ Len(done) > 0) =>
       Len(done) = combos \/ done[Len(done)].hard
  /\ pc = "undeploy" => answer \in PrepareCodes

\* What has been called, and what is up.
ProviderInv ==
  /\ pc \in {"watch", "resolve", "prepare", "deploy"} => called = {}
  /\ pc \in {"deploy", "undeploy"} => Provisions
  /\ pc \in {"deploy", "undeploy", "loop", "clean", "emit"} => ~flags.dry
  /\ pc = "undeploy" => ~flags.keep
  /\ pc = "loop" /\ Provisions => env = "up"
  /\ pc = "clean" => Cleans
  /\ "deploy" \in called => Provisions
  /\ pc = "emit" \/ Over =>
       ("deploy" \in called /\ ~flags.keep => "clean" \in called)

\* What the watch's fingerprint stands for is never newer than what was read.
WatchInv ==
  /\ printed <= version /\ read <= version
  /\ pc = "watch" => printed = 0
  /\ pc \notin {"watch", "resolve", "prepare"} => printed <= read

Inv ==
  TypeOK /\ LatchInv /\ MatrixInv /\ ProviderInv /\ WatchInv
    /\ AnswerIsExplained

-----------------------------------------------------------------------------
(* Types.                                                                  *)

\* The exit codes a step can produce are codes.
LEMMA CodesAreCodes ==
  /\ StatusCodes \subseteq Codes /\ PrepareCodes \subseteq Codes
  /\ \A r \in Reasons : CodeOf(r) \in StatusCodes
  /\ DeployCodes \subseteq PrepareCodes
BY DEF Codes, StatusCodes, PrepareCodes, CodeOf, DeployCodes

\* A combination can only end in an outcome.
LEMMA OutcomesAreOutcomes ==
  ASSUME TypeOK
  PROVE  CombinationOutcome \subseteq Outcome
<1>1. StatusCode \subseteq StatusCodes
  <2>1. atStart # NoReason => CodeOf(atStart) \in StatusCodes
    BY CodesAreCodes DEF TypeOK
  <2>2. \A r \in {requested, hard} \ {NoReason} : CodeOf(r) \in StatusCodes
    BY CodesAreCodes DEF TypeOK, TokenTypeOK
  <2>3. {0, 1} \subseteq StatusCodes
    BY DEF StatusCodes
  <2>4. QED
    BY <2>1, <2>2, <2>3 DEF StatusCode
<1>2. StatusCode \subseteq Codes /\ HardCodes \subseteq Codes
  BY <1>1 DEF Codes
<1>3. QED
  BY <1>2 DEF CombinationOutcome, Outcome

\* The result in hand when the command puts it out is an outcome.
LEMMA ResultIsOutcome ==
  ASSUME TypeOK, MatrixInv, pc = "emit"
  PROVE  Result \in Outcome
<1>1. CASE first # Untold
  BY <1>1 DEF Result, TypeOK
<1>2. CASE first = Untold
  <2>1. done \in Seq(Outcome) /\ Len(done) > 0
    BY DEF TypeOK, MatrixInv
  <2>2. done[Len(done)] \in Outcome
    BY <2>1
  <2>3. QED
    BY <1>2, <2>2 DEF Result
<1>3. QED
  BY <1>1, <1>2

LEMMA InitTypeOK == Init => TypeOK
<1> SUFFICES ASSUME Init PROVE TypeOK
  OBVIOUS
<1> USE DEF Init, TokenInit
<1>1. TokenTypeOK
  BY DEF TokenTypeOK
<1>2. /\ flags \in FlagSets /\ pc \in {"watch", "resolve"}
      /\ env \in Environment /\ combos \in 0 .. MaxCombos
  BY DEF Environment
<1>3. done \in Seq(Outcome) /\ first \in Outcome \cup {Untold}
  OBVIOUS
<1>4. /\ version \in 0 .. MaxEdits /\ printed \in 0 .. MaxEdits
      /\ read \in 0 .. MaxEdits
  OBVIOUS
<1>5. QED
  BY <1>1, <1>2, <1>3, <1>4 DEF TypeOK

\* A stop keeps the token's types.
LEMMA TokenStepTypes ==
  ASSUME TokenTypeOK, NEW r \in Reasons, Request(r) \/ HardCancel(r)
  PROVE  TokenTypeOK'
<1>1. First(requested, r) \in Reasons \cup {NoReason}
  BY DEF First, TokenTypeOK
<1>2. First(hard, r) \in Reasons \cup {NoReason}
  BY DEF First, TokenTypeOK
<1>3. CASE Request(r)
  BY <1>1, <1>3 DEF Request, TokenTypeOK
<1>4. CASE HardCancel(r)
  BY <1>1, <1>2, <1>4 DEF HardCancel, TokenTypeOK
<1>5. QED
  BY <1>3, <1>4

\* Every step keeps the types.
LEMMA NextTypeOK ==
  ASSUME Inv, [Next]_vars
  PROVE  TypeOK'
<1> USE DEF Inv, TypeOK
<1> USE DEF runVars, watchVars, tokenVars
<1>1. CASE WatchStarts
  BY <1>1 DEF WatchStarts, TokenTypeOK
<1>2. CASE WatchIsUnresolved
  <2>1. 4 \in Codes
    BY DEF Codes, PrepareCodes
  <2>2. QED
    BY <1>2, <2>1 DEF WatchIsUnresolved, TokenTypeOK
<1>3. CASE ResolveFails
  <2>1. 4 \in Codes
    BY DEF Codes, PrepareCodes
  <2>2. QED
    BY <1>3, <2>1 DEF ResolveFails, Finish, TokenTypeOK
<1>4. CASE Resolves
  <2>1. TokenTypeOK'
    BY <1>4 DEF Resolves, TokenTypeOK
  <2>2. QED
    BY <1>4, <2>1 DEF Resolves
<1>5. CASE PrepareFails
  BY <1>5, CodesAreCodes DEF PrepareFails, Finish, TokenTypeOK
<1>6. CASE DryRun
  <2>1. 0 \in Codes
    BY DEF Codes, StatusCodes
  <2>2. QED
    BY <1>6, <2>1 DEF DryRun, Finish, TokenTypeOK
<1>7. CASE Prepares
  <2>1. 1 .. MaxCombos \subseteq 0 .. MaxCombos
    OBVIOUS
  <2>2. atStart' \in Reasons \cup {NoReason}
    BY <1>7 DEF Prepares, TokenTypeOK
  <2>3. QED
    BY <1>7, <2>1, <2>2 DEF Prepares, TokenTypeOK
<1>8. CASE Deploys
  <2>1. atStart' \in Reasons \cup {NoReason}
    BY <1>8 DEF Deploys, TokenTypeOK
  <2>2. env' \in Environment
    BY <1>8 DEF Deploys, Environment
  <2>3. QED
    BY <1>8, <2>1, <2>2 DEF Deploys, TokenTypeOK
<1>9. CASE DeployFails
  <2>1. answer' \in Codes /\ pc' \in {"undeploy", "waiting", "exited"}
    BY <1>9, CodesAreCodes DEF DeployFails, Finish
  <2>2. QED
    BY <1>9, <2>1 DEF DeployFails, TokenTypeOK
<1>10. CASE CleansUpDeploy
  <2>1. env' \in Environment
    BY <1>10 DEF CleansUpDeploy, CallClean, Environment
  <2>2. QED
    BY <1>10, <2>1 DEF CleansUpDeploy, CallClean, Finish, TokenTypeOK
<1>11. CASE CleanAnswers
  <2>1. env' \in Environment
    BY <1>11 DEF CleanAnswers, CallClean, Environment
  <2>2. QED
    BY <1>11, <2>1 DEF CleanAnswers, CallClean, TokenTypeOK
<1>12. CASE RunsCombination
  <2>1. PICK o \in CombinationOutcome : Ends(o)
    BY <1>12 DEF RunsCombination
  <2>2. o \in Outcome
    BY OutcomesAreOutcomes
  <2>3. done' \in Seq(Outcome)
    <3>1. done' = Append(done, o)
      BY <2>1 DEF Ends
    <3>2. QED
      BY <2>2, <3>1, AppendProperties
  <2>4. first' \in Outcome \cup {Untold}
    BY <2>1, <2>2 DEF Ends, Latch
  <2>5. stored' \in BOOLEAN
    <3>1. stored' \in {stored, stored \/ (~flags.noStore /\ ~o.hard)}
      BY <2>1 DEF Ends
    <3>2. QED
      BY <3>1
  <2>6. pc' \in {"loop", "clean", "emit"}
    BY <2>1 DEF Ends, AfterCombination
  <2>7. atStart' \in Reasons \cup {NoReason}
    BY <1>12 DEF RunsCombination, TokenTypeOK
  <2>8. QED
    BY <1>12, <2>3, <2>4, <2>5, <2>6, <2>7 DEF RunsCombination, TokenTypeOK
<1>13. CASE Emits
  <2>1. Result \in Outcome
    BY <1>13, ResultIsOutcome DEF Emits
  <2>2. Result.code \in Codes /\ 1 \in Codes
    BY <2>1 DEF Outcome, Codes, StatusCodes
  <2>3. QED
    BY <1>13, <2>2 DEF Emits, Finish, TokenTypeOK
<1>14. CASE Rerun
  BY <1>14 DEF Rerun, TokenTypeOK
<1>15. CASE StopWatching
  BY <1>15 DEF StopWatching, TokenTypeOK
<1>16. CASE Edit
  <2>1. version' \in 0 .. MaxEdits
    BY <1>16 DEF Edit
  <2>2. QED
    BY <1>16, <2>1 DEF Edit, TokenTypeOK
<1>17. CASE \E r \in Reasons : Fires(r) \/ GraceEnds(r)
  <2>1. TokenTypeOK'
    BY <1>17, TokenStepTypes DEF Fires, GraceEnds
  <2>2. QED
    BY <1>17, <2>1 DEF Fires, GraceEnds
<1>18. CASE UNCHANGED vars
  BY <1>18 DEF vars, TokenTypeOK
<1>19. QED
  BY <1>1, <1>2, <1>3, <1>4, <1>5, <1>6, <1>7, <1>8, <1>9, <1>10, <1>11,
     <1>12, <1>13, <1>14, <1>15, <1>16, <1>17, <1>18
     DEF Next, Command, DeployEnds, TeardownEnds, Watch

-----------------------------------------------------------------------------
(* What happens in a step that ends a combination, and in the others.      *)

\* The steps that leave the outcomes and the latch alone.
LEMMA OutcomesOnlyGrow ==
  ASSUME [Next]_vars
  PROVE  RunsCombination \/ Rerun \/ UNCHANGED <<done, first>>
<1> USE DEF runVars, watchVars
<1>1. CASE Command
  BY <1>1 DEF Command, WatchStarts, WatchIsUnresolved, ResolveFails, Resolves,
              PrepareFails, DryRun, Prepares, Emits
<1>2. CASE DeployEnds \/ TeardownEnds
  BY <1>2 DEF DeployEnds, Deploys, DeployFails, TeardownEnds, CleansUpDeploy,
              CleanAnswers
<1>3. CASE Watch \/ Edit
  BY <1>3 DEF Watch, StopWatching, Edit
<1>4. CASE \E r \in Reasons : Fires(r) \/ GraceEnds(r)
  BY <1>4 DEF Fires, GraceEnds
<1>5. CASE UNCHANGED vars
  BY <1>5 DEF vars
<1>6. QED
  BY <1>1, <1>2, <1>3, <1>4, <1>5 DEF Next

\* What an outcome added to `done` leaves as it was.
LEMMA AddedOutcome ==
  ASSUME TypeOK, NEW o \in CombinationOutcome, Ends(o)
  PROVE  /\ done' \in Seq(Outcome) /\ Len(done') = Len(done) + 1
         /\ Len(done) \in Nat
         /\ done'[Len(done')] = o
         /\ \A i \in 1 .. Len(done) : done'[i] = done[i]
         /\ o \in Outcome
         /\ first' = Latch(first, o)
         /\ pc' = AfterCombination(o)
<1>1. o \in Outcome /\ done \in Seq(Outcome)
  BY OutcomesAreOutcomes DEF TypeOK
<1>2. done' = Append(done, o)
  BY DEF Ends
<1>3. /\ done' \in Seq(Outcome) /\ Len(done') = Len(done) + 1
      /\ \A i \in 1 .. Len(done) : done'[i] = done[i]
      /\ done'[Len(done) + 1] = o
  BY <1>1, <1>2, AppendProperties
<1>4. QED
  BY <1>1, <1>3 DEF Ends

LEMMA NextLatchInv ==
  ASSUME Inv, [Next]_vars
  PROVE  LatchInv'
<1> USE DEF Inv
<1>1. CASE UNCHANGED <<done, first>>
  BY <1>1 DEF LatchInv, Failed
<1>2. CASE Rerun
  <2>1. done' = << >> /\ first' = Untold
    BY <1>2 DEF Rerun
  <2>2. QED
    BY <2>1 DEF LatchInv
<1>3. CASE RunsCombination
  <2>1. PICK o \in CombinationOutcome : Ends(o)
    BY <1>3 DEF RunsCombination
  <2>2. /\ Len(done') = Len(done) + 1 /\ Len(done) \in Nat
        /\ done'[Len(done')] = o /\ o \in Outcome
        /\ \A i \in 1 .. Len(done) : done'[i] = done[i]
        /\ first' = Latch(first, o)
    BY <2>1, AddedOutcome
  <2>3. CASE first # Untold
    <3>1. first' = first
      BY <2>2, <2>3 DEF Latch
    <3>2. PICK i \in 1 .. Len(done) :
            /\ done[i] = first /\ Failed(first)
            /\ \A j \in 1 .. i - 1 : ~Failed(done[j])
      BY <2>3 DEF LatchInv
    <3>3. i \in 1 .. Len(done') /\ done'[i] = first'
      BY <2>2, <3>1, <3>2
    <3>4. \A j \in 1 .. i - 1 : ~Failed(done'[j])
      BY <2>2, <3>2 DEF Failed
    <3>5. Failed(first')
      BY <3>1, <3>2 DEF Failed
    <3>6. \E k \in 1 .. Len(done') :
            /\ done'[k] = first' /\ Failed(first')
            /\ \A j \in 1 .. k - 1 : ~Failed(done'[j])
      BY <3>3, <3>4, <3>5
    <3>7. QED
      BY <2>3, <3>1, <3>6 DEF LatchInv, Failed
  <2>4. CASE first = Untold
    <3>1. \A j \in 1 .. Len(done) : ~Failed(done'[j])
      BY <2>2, <2>4 DEF LatchInv, Failed
    <3>2. CASE Failed(o)
      <4>1. first' = o /\ first' # Untold
        BY <2>2, <2>4, <3>2 DEF Latch
      <4>2. Len(done') \in 1 .. Len(done') /\ Len(done') - 1 = Len(done)
        BY <2>2
      <4>3. \E k \in 1 .. Len(done') :
              /\ done'[k] = first' /\ Failed(first')
              /\ \A j \in 1 .. k - 1 : ~Failed(done'[j])
        BY <2>2, <3>1, <3>2, <4>1, <4>2 DEF Failed
      <4>4. QED
        BY <4>1, <4>3 DEF LatchInv, Failed
    <3>3. CASE ~Failed(o)
      <4>1. first' = Untold
        BY <2>2, <2>4, <3>3 DEF Latch
      <4>2. \A i \in 1 .. Len(done') : ~Failed(done'[i])
        BY <2>2, <3>1, <3>3
      <4>3. QED
        BY <4>1, <4>2 DEF LatchInv, Failed
    <3>4. QED
      BY <3>2, <3>3
  <2>5. QED
    BY <2>3, <2>4
<1>4. QED
  BY <1>1, <1>2, <1>3, OutcomesOnlyGrow

LEMMA NextMatrixInv ==
  ASSUME Inv, [Next]_vars
  PROVE  MatrixInv'
<1> USE DEF Inv, MatrixInv
<1> USE DEF runVars, watchVars, Over
<1>0. done \in Seq(Outcome) /\ Len(done) \in Nat /\ combos \in Nat
  BY DEF TypeOK
<1>1. CASE WatchStarts \/ WatchIsUnresolved
  BY <1>0, <1>1 DEF WatchStarts, WatchIsUnresolved
<1>2. CASE ResolveFails \/ Resolves
  BY <1>0, <1>2 DEF ResolveFails, Resolves, Finish
<1>3. CASE PrepareFails \/ DryRun
  BY <1>0, <1>3 DEF PrepareFails, DryRun, Finish
<1>4. CASE Prepares
  <2>1. /\ done' = << >> /\ first' = Untold /\ combos' \in 1 .. MaxCombos
        /\ pc' \in {"deploy", "loop"}
    BY <1>4 DEF Prepares
  <2>2. Len(done') = 0
    BY <2>1
  <2>3. QED
    BY <2>1, <2>2
<1>5. CASE Deploys
  <2>1. /\ done' = << >> /\ combos' = combos /\ combos # 0 /\ pc' = "loop"
    BY <1>5 DEF Deploys
  <2>2. Len(done') = 0
    BY <2>1
  <2>3. QED
    BY <1>0, <2>1, <2>2
<1>6. CASE DeployFails
  <2>1. /\ done' = << >> /\ first' = Untold
        /\ pc' \in {"undeploy", "waiting", "exited"}
        /\ answer' \in PrepareCodes
    BY <1>6, CodesAreCodes DEF DeployFails, Finish
  <2>2. Len(done') = 0
    BY <2>1
  <2>3. QED
    BY <2>1, <2>2
<1>7. CASE CleansUpDeploy \/ CleanAnswers
  BY <1>0, <1>7 DEF CleansUpDeploy, CleanAnswers, Finish
<1>8. CASE RunsCombination
  <2>1. PICK o \in CombinationOutcome : Ends(o)
    BY <1>8 DEF RunsCombination
  <2>2. /\ Len(done') = Len(done) + 1
        /\ done'[Len(done')] = o
        /\ \A i \in 1 .. Len(done) : done'[i] = done[i]
        /\ pc' = AfterCombination(o)
    BY <2>1, AddedOutcome
  <2>3. /\ Len(done) < combos /\ combos' = combos
        /\ \A i \in 1 .. Len(done) : ~done[i].hard
    BY <1>8 DEF RunsCombination
  <2>4. \A i \in 1 .. Len(done') - 1 : ~done'[i].hard
    BY <1>0, <2>2, <2>3
  <2>5. CASE ~StopsMatrix(o) /\ Len(done) + 1 < combos
    <3>1. pc' = "loop" /\ ~o.hard
      BY <2>2, <2>5 DEF AfterCombination, StopsMatrix
    <3>2. \A i \in 1 .. Len(done') : ~done'[i].hard
      BY <1>0, <2>2, <2>4, <3>1
    <3>3. QED
      BY <1>0, <2>2, <2>3, <2>4, <2>5, <3>1, <3>2
  <2>6. CASE ~(~StopsMatrix(o) /\ Len(done) + 1 < combos)
    <3>1. pc' \in {"clean", "emit"}
      BY <2>2, <2>6 DEF AfterCombination
    <3>2. Len(done') = combos' \/ done'[Len(done')].hard
      BY <1>0, <2>2, <2>3, <2>6 DEF StopsMatrix
    <3>3. QED
      BY <1>0, <2>2, <2>4, <3>1, <3>2
  <2>7. QED
    BY <2>5, <2>6
<1>9. CASE Emits
  BY <1>0, <1>9 DEF Emits, Finish
<1>10. CASE Rerun
  <2>1. done' = << >> /\ first' = Untold /\ pc' = "resolve"
    BY <1>10 DEF Rerun
  <2>2. Len(done') = 0
    BY <2>1
  <2>3. QED
    BY <2>1, <2>2
<1>11. CASE StopWatching \/ Edit
  BY <1>0, <1>11 DEF StopWatching, Edit
<1>12. CASE \E r \in Reasons : Fires(r) \/ GraceEnds(r)
  BY <1>0, <1>12 DEF Fires, GraceEnds
<1>13. CASE UNCHANGED vars
  BY <1>0, <1>13 DEF vars
<1>14. QED
  BY <1>1, <1>2, <1>3, <1>4, <1>5, <1>6, <1>7, <1>8, <1>9, <1>10, <1>11,
     <1>12, <1>13 DEF Next, Command, DeployEnds, TeardownEnds, Watch

LEMMA NextProviderInv ==
  ASSUME Inv, [Next]_vars
  PROVE  ProviderInv'
<1> USE DEF Inv, ProviderInv
<1> USE DEF runVars, watchVars, Over, Provisions, Cleans
<1>1. CASE WatchStarts \/ WatchIsUnresolved
  BY <1>1 DEF WatchStarts, WatchIsUnresolved
<1>2. CASE ResolveFails \/ Resolves
  BY <1>2 DEF ResolveFails, Resolves, Finish
<1>3. CASE PrepareFails \/ DryRun
  BY <1>3 DEF PrepareFails, DryRun, Finish
<1>4. CASE Prepares
  BY <1>4 DEF Prepares
<1>5. CASE Deploys
  BY <1>5 DEF Deploys
<1>6. CASE DeployFails
  <2>1. CASE flags.keep
    BY <1>6, <2>1 DEF DeployFails, Finish
  <2>2. CASE ~flags.keep
    BY <1>6, <2>2 DEF DeployFails
  <2>3. QED
    BY <2>1, <2>2
<1>7. CASE CleansUpDeploy \/ CleanAnswers
  BY <1>7 DEF CleansUpDeploy, CleanAnswers, CallClean, Finish
<1>8. CASE RunsCombination
  <2>1. PICK o \in CombinationOutcome : Ends(o)
    BY <1>8 DEF RunsCombination
  <2>2. pc' = AfterCombination(o)
    BY <2>1 DEF Ends
  <2>3. UNCHANGED <<flags, env, called>> /\ pc = "loop"
    BY <1>8 DEF RunsCombination
  <2>4. \/ pc' = "loop"
        \/ pc' = "clean" /\ Cleans
        \/ pc' = "emit" /\ ~Cleans
    BY <2>2 DEF AfterCombination
  <2>5. QED
    BY <2>3, <2>4
<1>9. CASE Emits
  BY <1>9 DEF Emits, Finish
<1>10. CASE Rerun
  BY <1>10 DEF Rerun
<1>11. CASE StopWatching \/ Edit
  BY <1>11 DEF StopWatching, Edit
<1>12. CASE \E r \in Reasons : Fires(r) \/ GraceEnds(r)
  BY <1>12 DEF Fires, GraceEnds
<1>13. CASE UNCHANGED vars
  BY <1>13 DEF vars
<1>14. QED
  BY <1>1, <1>2, <1>3, <1>4, <1>5, <1>6, <1>7, <1>8, <1>9, <1>10, <1>11,
     <1>12, <1>13 DEF Next, Command, DeployEnds, TeardownEnds, Watch

LEMMA NextWatchInv ==
  ASSUME Inv, [Next]_vars
  PROVE  WatchInv'
<1> USE DEF Inv, WatchInv
<1> USE DEF runVars, watchVars
<1>0. version \in Nat /\ printed \in Nat /\ read \in Nat
  BY DEF TypeOK
<1>1. CASE WatchStarts \/ WatchIsUnresolved
  <2>1. CASE WatchStarts
    BY <1>0, <2>1 DEF WatchStarts
  <2>2. CASE WatchIsUnresolved
    BY <1>0, <2>2 DEF WatchIsUnresolved
  <2>3. QED
    BY <1>1, <2>1, <2>2
<1>2. CASE ResolveFails \/ Resolves
  BY <1>0, <1>2 DEF ResolveFails, Resolves, Finish
<1>3. CASE PrepareFails \/ DryRun \/ Prepares
  BY <1>0, <1>3 DEF PrepareFails, DryRun, Prepares, Finish
<1>4. CASE DeployEnds \/ TeardownEnds \/ RunsCombination \/ Emits
  <2>1. UNCHANGED watchVars /\ pc \notin {"watch", "resolve", "prepare"}
    BY <1>4 DEF DeployEnds, Deploys, DeployFails, TeardownEnds, CleansUpDeploy,
                CleanAnswers, RunsCombination, Emits
  <2>2. pc' # "watch"
    BY <1>4 DEF DeployEnds, Deploys, DeployFails, TeardownEnds, CleansUpDeploy,
                CleanAnswers, RunsCombination, Ends, AfterCombination, Emits,
                Finish
  <2>3. QED
    BY <2>1, <2>2
<1>5. CASE Rerun
  BY <1>0, <1>5 DEF Rerun
<1>6. CASE StopWatching \/ Edit
  BY <1>0, <1>6 DEF StopWatching, Edit
<1>7. CASE \E r \in Reasons : Fires(r) \/ GraceEnds(r)
  BY <1>7 DEF Fires, GraceEnds
<1>8. CASE UNCHANGED vars
  BY <1>8 DEF vars
<1>9. QED
  BY <1>1, <1>2, <1>3, <1>4, <1>5, <1>6, <1>7, <1>8 DEF Next, Command, Watch

\* The result that is put out explains the exit code that Emits gives.
LEMMA EmitsExplained ==
  ASSUME Inv, Emits
  PROVE  AnswerIsExplained'
<1> USE DEF Inv
<1>0. /\ done \in Seq(Outcome) /\ Len(done) \in Nat /\ Len(done) > 0
      /\ Len(done) = combos \/ done[Len(done)].hard
  BY DEF TypeOK, MatrixInv, Emits
<1>1. /\ UNCHANGED <<done, combos, first, flags>>
      /\ answer' = Result.code \/ (answer' = 1 /\ ~Result.hard)
  BY DEF Emits, Finish, runVars
<1>2. done # << >> /\ DOMAIN done = 1 .. Len(done)
  BY <1>0
<1>3. CASE first # Untold
  <2>1. PICK i \in 1 .. Len(done) :
          /\ done[i] = first /\ Failed(first)
          /\ \A j \in 1 .. i - 1 : ~Failed(done[j])
    BY <1>3 DEF LatchInv
  <2>2. Result = done[i]
    BY <1>3, <2>1 DEF Result
  <2>3. \E k \in DOMAIN done :
          /\ Failed(done[k])
          /\ \A j \in 1 .. k - 1 : ~Failed(done[j])
          /\ answer' = done[k].code \/ (answer' = 1 /\ ~done[k].hard)
    BY <1>1, <1>2, <2>1, <2>2
  <2>4. QED
    BY <1>1, <1>2, <2>3 DEF AnswerIsExplained, Failed
<1>4. CASE first = Untold
  <2>1. \A i \in 1 .. Len(done) : ~Failed(done[i])
    BY <1>4 DEF LatchInv
  <2>2. Result = done[Len(done)] /\ ~Failed(Result)
    BY <1>0, <1>4, <2>1 DEF Result
  <2>3. answer' \in {0, 1} /\ Len(done) = combos
    BY <1>0, <1>1, <2>2 DEF Failed
  <2>4. QED
    BY <1>1, <1>2, <2>1, <2>3 DEF AnswerIsExplained, Failed
<1>5. QED
  BY <1>3, <1>4

LEMMA NextAnswerIsExplained ==
  ASSUME Inv, [Next]_vars
  PROVE  AnswerIsExplained'
<1> USE DEF Inv
<1> USE DEF runVars, watchVars, Over
<1>1. CASE Emits
  BY <1>1, EmitsExplained
<1>2. CASE WatchStarts \/ Resolves \/ Prepares \/ Deploys \/ CleanAnswers
           \/ Rerun
  BY <1>2 DEF WatchStarts, Resolves, Prepares, Deploys, CleanAnswers, Rerun,
              AnswerIsExplained
<1>3. CASE WatchIsUnresolved
  BY <1>3 DEF WatchIsUnresolved, MatrixInv, AnswerIsExplained, PrepareCodes
<1>4. CASE ResolveFails
  BY <1>4 DEF ResolveFails, Finish, MatrixInv, AnswerIsExplained, PrepareCodes
<1>5. CASE PrepareFails
  BY <1>5 DEF PrepareFails, Finish, MatrixInv, AnswerIsExplained
<1>6. CASE DryRun
  BY <1>6 DEF DryRun, Finish, MatrixInv, AnswerIsExplained
<1>7. CASE DeployFails
  <2>1. answer' \in PrepareCodes /\ done' = << >>
    BY <1>7, CodesAreCodes DEF DeployFails, Finish, MatrixInv
  <2>2. QED
    BY <2>1 DEF AnswerIsExplained
<1>8. CASE CleansUpDeploy
  <2>1. answer' \in PrepareCodes /\ done' = << >>
    BY <1>8 DEF CleansUpDeploy, Finish, MatrixInv
  <2>2. QED
    BY <2>1 DEF AnswerIsExplained
<1>9. CASE RunsCombination
  <2>1. PICK o \in CombinationOutcome : Ends(o)
    BY <1>9 DEF RunsCombination
  <2>2. pc' \in {"loop", "clean", "emit"}
    BY <2>1 DEF Ends, AfterCombination
  <2>3. QED
    BY <2>2 DEF AnswerIsExplained
<1>10. CASE StopWatching
  BY <1>10 DEF StopWatching, AnswerIsExplained, Failed
<1>11. CASE Edit \/ \E r \in Reasons : Fires(r) \/ GraceEnds(r)
  BY <1>11 DEF Edit, Fires, GraceEnds, AnswerIsExplained, Failed
<1>12. CASE UNCHANGED vars
  BY <1>12 DEF vars, AnswerIsExplained, Failed
<1>13. QED
  BY <1>1, <1>2, <1>3, <1>4, <1>5, <1>6, <1>7, <1>8, <1>9, <1>10, <1>11,
     <1>12 DEF Next, Command, DeployEnds, TeardownEnds, Watch

-----------------------------------------------------------------------------
(* The theorems.                                                           *)

LEMMA InitInv == Init => Inv
<1> SUFFICES ASSUME Init PROVE Inv
  OBVIOUS
<1> USE DEF Init
<1>1. Len(done) = 0 /\ done = << >> /\ pc \in {"watch", "resolve"}
  OBVIOUS
<1>2. LatchInv /\ MatrixInv
  BY <1>1 DEF LatchInv, MatrixInv, Over
<1>3. ProviderInv /\ WatchInv
  BY <1>1 DEF ProviderInv, WatchInv, Over
<1>4. AnswerIsExplained
  BY <1>1 DEF AnswerIsExplained, Over
<1>5. QED
  BY <1>2, <1>3, <1>4, InitTypeOK DEF Inv

LEMMA Invariance == Spec => []Inv
<1>1. Inv /\ [Next]_vars => Inv'
  BY NextTypeOK, NextLatchInv, NextMatrixInv, NextProviderInv, NextWatchInv,
     NextAnswerIsExplained DEF Inv
<1>2. QED
  BY InitInv, <1>1, PTL DEF Spec

\* Every variable of `tmx run` keeps its type.
THEOREM TypeCorrect == Spec => []TypeOK
<1>1. Inv => TypeOK
  BY DEF Inv
<1>2. QED
  BY Invariance, <1>1, PTL

\* The exit code is that of the first combination that failed, for a matrix of
\* any size.
THEOREM ExitCodeIsExplained == Spec => []AnswerIsExplained
<1>1. Inv => AnswerIsExplained
  BY DEF Inv
<1>2. QED
  BY Invariance, <1>1, PTL

\* No combination is left out unless a hard error, the last outcome, came first.
THEOREM EveryCombinationRuns == Spec => []NothingIsSkipped
<1>1. Inv => NothingIsSkipped
  <2> SUFFICES ASSUME Inv PROVE NothingIsSkipped
    OBVIOUS
  <2>1. Len(done) \in Nat
    BY DEF Inv, TypeOK
  <2>2. \A i \in 1 .. Len(done) : done[i].hard => i = Len(done)
    BY <2>1 DEF Inv, MatrixInv
  <2>3. pc \in {"clean", "emit"} \/ (Over /\ Len(done) > 0) =>
          Len(done) = combos \/ done[Len(done)].hard
    BY DEF Inv, MatrixInv
  <2>4. QED
    BY <2>2, <2>3 DEF NothingIsSkipped
<1>2. QED
  BY Invariance, <1>1, PTL

\* What a run tried to deploy it has cleaned when it is over, or was to keep;
\* and no combination runs in an environment that is not up.
THEOREM EnvironmentIsBracketed ==
  Spec => [](DeployedIsCleaned /\ CombinationsHaveEnvironment)
<1>1. Inv => DeployedIsCleaned /\ CombinationsHaveEnvironment
  BY DEF Inv, ProviderInv, DeployedIsCleaned, CombinationsHaveEnvironment
<1>2. QED
  BY Invariance, <1>1, PTL

\* No step touches a standing environment that is not the run's own.
THEOREM StandingEnvironment == Spec => StandingIsLeftAlone
<1>1. ASSUME Inv, [Next]_vars, env' # env
      PROVE  Provisions /\ ~flags.dry /\ (flags.keep => pc = "deploy")
  <2> USE DEF Inv, runVars, watchVars
  <2>1. DeployEnds \/ TeardownEnds
    BY <1>1 DEF Next, vars, Command, WatchStarts, WatchIsUnresolved,
                ResolveFails, Resolves, PrepareFails, DryRun, Prepares, Emits,
                RunsCombination, Watch, Rerun, StopWatching, Edit, Fires,
                GraceEnds
  <2>2. CASE DeployEnds
    BY <1>1, <2>2 DEF DeployEnds, Deploys, DeployFails, ProviderInv
  <2>3. CASE TeardownEnds
    BY <1>1, <2>3 DEF TeardownEnds, CleansUpDeploy, CleanAnswers, ProviderInv,
                      Cleans
  <2>4. QED
    BY <2>1, <2>2, <2>3
<1>2. Inv /\ [Next]_vars =>
        [env' # env => /\ Provisions /\ ~flags.dry
                       /\ flags.keep => pc = "deploy"]_vars
  BY <1>1
<1>3. QED
  BY Invariance, <1>2, PTL DEF Spec, StandingIsLeftAlone

\* An edit is read by the run it falls into, or starts another.
THEOREM EditsAreRead == Spec => []NoEditIsLost
<1>1. Inv => NoEditIsLost
  BY DEF Inv, TypeOK, WatchInv, NoEditIsLost
<1>2. QED
  BY Invariance, <1>1, PTL

=============================================================================
