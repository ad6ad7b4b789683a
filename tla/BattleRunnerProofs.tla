------------------------- MODULE BattleRunnerProofs -------------------------
(***************************************************************************)
(* Proofs of the runner's safety properties, for any number of battles and *)
(* for both kinds of caller.                                               *)
(***************************************************************************)
EXTENDS BattleRunner, TLAPS

-----------------------------------------------------------------------------
(* Type correctness, part by part.                                         *)

LEMMA EnvTypeInductive == ASSUME EnvType, [Next]_vars PROVE EnvType'
  <1> USE RunnerAssumption DEF EnvType
  <1>1. CASE Step \/ BeforeInspection \/ BattleFound \/ CompletionFound
             \/ StartDeadline \/ Inspect \/ Expire
      BY <1>1 DEF Step, BeforeInspection, BattleFound, CompletionFound,
                  StartDeadline, Inspect, Expire, envVars
  <1>2. CASE Probe \/ Parse \/ ParseErrs \/ Confirm
      BY <1>2 DEF Probe, Parse, ParseErrs, Confirm, Reads, envVars
  <1>3. CASE DispatchChallenge \/ DispatchCompletion \/ DispatchAbsent
             \/ DispatchFloor \/ DispatchActive \/ LifecycleRuns
             \/ NoDecisionToAct \/ RecoveryRefused
      BY <1>3 DEF DispatchChallenge, DispatchCompletion, DispatchAbsent,
                  DispatchFloor, DispatchActive, LifecycleRuns,
                  NoDecisionToAct, Answers, RecoveryRefused, envVars
  <1>4. CASE NextBattle
      BY <1>4 DEF NextBattle, Shows, Stages, Pages
  <1>5. CASE Cancel \/ Fails
      BY <1>5 DEF Cancel, Fails, Operation, Clickable, Stages
  <1>6. CASE ResolveChallenge
      BY <1>6 DEF ResolveChallenge, Shows, Stages, Pages
  <1>7. CASE FloorConfirmed \/ TurnReceived \/ DecisionActed
      BY <1>7 DEF FloorConfirmed, TurnReceived, DecisionActed, Received,
                  Confirmed, Answers, Clickable, Operation, After, Shows, Stages, Pages
  <1>8. CASE OutcomeUnknown
      BY <1>8 DEF OutcomeUnknown, Clickable, Operation, After, Stages
  <1>9. CASE RecoveryAccepted
      BY <1>9 DEF RecoveryAccepted, Shows, Stages, Pages
  <1>10. CASE ExitConfirmed \/ ExitUnknown
      BY <1>10 DEF ExitConfirmed, ExitUnknown, Stages, Pages
  <1>11. CASE Reveal \/ TogglePause
      BY <1>11 DEF Reveal, TogglePause, Shows, Stages, Pages
  <1>12. CASE LateExecution \/ ChallengeExpires
      BY <1>12 DEF LateExecution, ChallengeExpires, Plays, After, Stages
  <1>13. CASE UNCHANGED vars
      BY <1>13 DEF vars, envVars
  <1> QED
      BY <1>1, <1>2, <1>3, <1>4, <1>5, <1>6, <1>7, <1>8, <1>9, <1>10, <1>11,
         <1>12, <1>13 DEF Next, Runner, Environment

LEMMA LoopTopType ==
  ASSUME FlowType, StateType, LoopTop
  PROVE  pc' \in {"idle", "check", "probe"} /\ then' \in {then, "deadline"}
         /\ result' \in Results /\ code' \in Codes
  BY DEF LoopTop, Check, Go, DeadlineError, Raise, FlowType, StateType,
         Results, Codes

LEMMA GivenType ==
  ASSUME FlowType, NEW phase \in Phases, Given(phase)
  PROVE  /\ pc' \in {"idle", "check"} /\ then' \in {then, "dispatch"}
         /\ prepared' \in Phases /\ result' \in Results /\ code' \in Codes
  BY DEF Given, Defer, Return, Raise, Check, FlowType, Results, Codes

LEMMA ControlPhase ==
  ASSUME page \in Controls
  PROVE  /\ Control[page] \in {"complete", "nextFloor", "challenge"}
         /\ Control[page] = "complete" <=> page = "complete"
  BY DEF Controls, Control

LEMMA LateType ==
  ASSUME FlowType, Late
  PROVE  /\ pc' = "idle" /\ then' = then /\ prepared' = prepared
         /\ result' \in Results /\ code' \in Codes
  BY DEF Late, DeadlineError, Raise, FlowType, Results, Codes

LEMMA FlowTypeInductive ==
  ASSUME FlowType, StateType, [Next]_vars PROVE FlowType'
  <1>1. CASE Step
    <2>1. prepared' = prepared /\ alive' = alive
      BY <1>1 DEF Step
    <2>2. CASE LoopTop
      <3>1. /\ pc' \in {"idle", "check", "probe"} /\ then' \in {then, "deadline"}
            /\ result' \in Results /\ code' \in Codes
        BY <2>2, LoopTopType
      <3> QED BY <2>1, <3>1 DEF FlowType
    <2>3. CASE Return("completed") \/ Check("inspect")
      <3>1. CASE Return("completed")
        BY <2>1, <3>1 DEF Return, FlowType, Results, Codes
      <3>2. CASE Check("inspect")
        BY <2>1, <3>2 DEF Check, FlowType
      <3> QED BY <2>3, <3>1, <3>2
    <2> QED BY <1>1, <2>2, <2>3 DEF Step
  <1>2. CASE BeforeInspection \/ CompletionFound \/ StartDeadline
             \/ DispatchCompletion \/ DispatchFloor
      BY <1>2 DEF BeforeInspection, CompletionFound, StartDeadline, FlowType,
                  DispatchCompletion, DispatchFloor, PauseGate, Return, Go, Results, Codes
  <1>3. CASE BattleFound \/ DispatchChallenge
      BY <1>3, LoopTopType DEF BattleFound, DispatchChallenge, FlowType
  <1>4. CASE Inspect \/ DispatchAbsent \/ DispatchActive
      BY <1>4 DEF Inspect, DispatchAbsent, DispatchActive, PauseGate, Return,
                  Raise, Check, Go, FlowType, Results, Codes
  <1>5. CASE Probe
      BY <1>5, GivenType, ControlPhase, LateType
         DEF Probe, Reads, Go, FlowType, Phases
  <1>6. CASE Parse \/ LifecycleRuns \/ NoDecisionToAct \/ RecoveryRefused
      BY <1>6 DEF Parse, LifecycleRuns, NoDecisionToAct, Answers,
                  RecoveryRefused, RefusedExhausts, Return, Raise, Go, FlowType,
                  Results, Codes
  <1>7. CASE ParseErrs
      BY <1>7, GivenType, ControlPhase, LateType
         DEF ParseErrs, Reads, Raise, FlowType, Phases, Results, Codes
  <1>8. CASE Confirm
      BY <1>8, GivenType, ControlPhase, LateType
         DEF Confirm, Reads, FlowType, Phases
  <1>9. CASE NextBattle \/ Cancel
      BY <1>9 DEF NextBattle, Cancel, FlowType, Results, Codes
  <1>10. CASE ResolveChallenge \/ FloorConfirmed \/ TurnReceived
              \/ DecisionActed \/ RecoveryAccepted
      BY <1>10 DEF ResolveChallenge, FloorConfirmed, TurnReceived, Received,
                   DecisionActed, Answers, Confirmed, RecoveryAccepted,
                   Resolved, Progress, Return, Go, FlowType, Results, Codes
  <1>11. CASE OutcomeUnknown
      BY <1>11 DEF OutcomeUnknown, Reconcile, Exhausted, Raise, Go, FlowType,
                   Results, Codes
  <1>12. CASE ExitConfirmed \/ ExitUnknown \/ Fails
      BY <1>12 DEF ExitConfirmed, ExitUnknown, Fails, UnknownExitRaises,
                   Return, Raise, FlowType, Results, Codes
  <1>13. CASE Environment \/ Expire
      BY <1>13 DEF Environment, Reveal, LateExecution, ChallengeExpires,
                   TogglePause, Expire, flowVars, FlowType
  <1>14. CASE UNCHANGED vars
      BY <1>14 DEF vars, flowVars, FlowType
  <1> QED
      BY <1>1, <1>2, <1>3, <1>4, <1>5, <1>6, <1>7, <1>8, <1>9, <1>10, <1>11,
         <1>12, <1>13, <1>14 DEF Next, Runner

LEMMA StateTypeInductive ==
  ASSUME EnvType, StateType, [Next]_vars PROVE StateType'
  <1> USE DEF StateType
  <1>1. CASE Step \/ Cancel \/ BeforeInspection \/ CompletionFound
             \/ DispatchChallenge \/ DispatchFloor \/ DispatchActive
             \/ NoDecisionToAct \/ OutcomeUnknown \/ Fails \/ Parse
      BY <1>1 DEF Step, Cancel, BeforeInspection, CompletionFound, Parse,
                  DispatchChallenge, DispatchFloor, DispatchActive,
                  NoDecisionToAct, OutcomeUnknown, Fails, stateVars
  <1>2. CASE NextBattle \/ ExitConfirmed \/ ExitUnknown
      BY <1>2 DEF NextBattle, ExitConfirmed, ExitUnknown, UnknownExitRaises
  <1>3. CASE ResolveChallenge \/ FloorConfirmed \/ TurnReceived
             \/ DecisionActed \/ RecoveryAccepted \/ RecoveryRefused
      BY <1>3 DEF ResolveChallenge, FloorConfirmed, TurnReceived,
                  DecisionActed, Confirmed, RecoveryAccepted, Resolved,
                  RecoveryRefused, stateVars, RefusedExhausts, Progress
  <1>4. CASE BattleFound \/ StartDeadline \/ DispatchAbsent \/ DispatchCompletion
      BY <1>4 DEF BattleFound, StartDeadline, DispatchAbsent,
                  DispatchCompletion, ClearTransition
  <1>5. CASE Inspect
      BY <1>5 DEF Inspect
  <1>6. CASE Probe \/ ParseErrs \/ Confirm
    <2>1. \A phase : Given(phase) =>
             transition' \in BOOLEAN /\ readiness' \in {"off", "on", "expired"}
        BY DEF Given, Defer, ClearTransition
    <2> QED
        BY <1>6, <2>1 DEF Probe, ParseErrs, Confirm, Reads, Late
  <1>7. CASE LifecycleRuns
      BY <1>7 DEF LifecycleRuns, FailureCached
  <1>8. CASE Environment \/ Expire
      BY <1>8 DEF Environment, Reveal, LateExecution, ChallengeExpires,
                  TogglePause, Expire, stateVars
  <1>9. CASE UNCHANGED vars
      BY <1>9 DEF vars, stateVars
  <1> QED
      BY <1>1, <1>2, <1>3, <1>4, <1>5, <1>6, <1>7, <1>8, <1>9 DEF Next, Runner

LEMMA HistoryTypeInductive ==
  ASSUME EnvType, HistoryType, [Next]_vars PROVE HistoryType'
  <1> USE DEF HistoryType
  <1>0. \A n \in 0 .. 2 : Up(n) \in 0 .. 2
      BY DEF Up
  <1>s. Submits => mutations' \in 0 .. 2 /\ strategy' \in {"waited", "acted", "broke"}
      BY <1>0 DEF Submits
  <1>1. CASE Step
      BY <1>1 DEF Step, EnvType
  <1>2. CASE BeforeInspection \/ BattleFound \/ CompletionFound \/ StartDeadline
             \/ DispatchChallenge \/ DispatchCompletion \/ DispatchAbsent
             \/ DispatchFloor \/ DispatchActive
             \/ RecoveryRefused \/ Parse \/ Expire
      BY <1>2 DEF BeforeInspection, BattleFound, CompletionFound, StartDeadline,
                  DispatchChallenge, DispatchCompletion, DispatchAbsent, Expire,
                  DispatchFloor, DispatchActive, RecoveryRefused, Parse,
                  historyVars
  <1>3. CASE NextBattle \/ ResolveChallenge \/ Inspect \/ LifecycleRuns
    <2>1. CASE NextBattle
      <3>1. recoveries' = 0 /\ starts' = 0 /\ exits' = 0 /\ mutations' = mutations
          BY <2>1 DEF NextBattle
      <3>2. /\ accepted' \in BOOLEAN /\ strategy' = strategy
            /\ pausedThroughout' = pausedThroughout /\ unresolved' = unresolved
          BY <2>1 DEF NextBattle
      <3> QED
          BY <3>1, <3>2
    <2>2. CASE ResolveChallenge
        BY <1>s, <2>2 DEF ResolveChallenge
    <2>3. CASE Inspect
        BY <2>3 DEF Inspect
    <2>4. CASE LifecycleRuns
        BY <1>0, <2>4 DEF LifecycleRuns
    <2> QED
        BY <1>3, <2>1, <2>2, <2>3, <2>4
  <1>4. CASE Cancel \/ Fails
    <2>1. CASE Cancel
        BY <1>0, <1>s, <2>1 DEF Cancel
    <2>2. CASE Fails
        BY <1>0, <1>s, <2>2 DEF Fails
    <2> QED
        BY <1>4, <2>1, <2>2
  <1>5. CASE Probe \/ ParseErrs \/ Confirm
    <2>1. \A phase : Given(phase) => accepted' \in BOOLEAN
        BY DEF Given
    <2> QED
        BY <1>5, <2>1 DEF Probe, ParseErrs, Confirm, Reads, Late
  <1>6. CASE FloorConfirmed \/ TurnReceived \/ OutcomeUnknown
    <2>1. CASE FloorConfirmed
        BY <1>s, <2>1 DEF FloorConfirmed, Received, Confirmed
    <2>2. CASE TurnReceived
        BY <1>s, <2>2 DEF TurnReceived, Received
    <2>3. CASE OutcomeUnknown
        BY <1>s, <2>3 DEF OutcomeUnknown
    <2> QED
        BY <1>6, <2>1, <2>2, <2>3
  <1>10. CASE DecisionActed \/ NoDecisionToAct
      BY <1>10 DEF DecisionActed, NoDecisionToAct, Answers, Confirmed
  <1>7. CASE RecoveryAccepted \/ ExitConfirmed \/ ExitUnknown
    <2>1. CASE RecoveryAccepted
        BY <1>0, <2>1 DEF RecoveryAccepted
    <2>2. CASE ExitConfirmed
        BY <1>0, <1>s, <2>2 DEF ExitConfirmed
    <2>3. CASE ExitUnknown
        BY <1>0, <1>s, <2>3 DEF ExitUnknown
    <2> QED
        BY <1>7, <2>1, <2>2, <2>3
  <1>8. CASE Environment
      BY <1>8 DEF Environment, Reveal, LateExecution, ChallengeExpires,
                  TogglePause, historyVars
  <1>9. CASE UNCHANGED vars
      BY <1>9 DEF vars, historyVars
  <1> QED
      BY <1>1, <1>2, <1>3, <1>4, <1>5, <1>6, <1>7, <1>8, <1>9, <1>10
         DEF Next, Runner

(* A probe, or an absent page, always meets a running deadline: the loop   *)
(* goes to a probe with a deadline on, and only progress, a phase other    *)
(* than absent or a fresh check clears it.                                 *)
LEMMA DeadlineInductive ==
  ASSUME FlowType, StateType, DeadlineRuns, [Next]_vars PROVE DeadlineRuns'
  <1> USE DEF DeadlineRuns
  <1>1. CASE Step
      BY <1>1 DEF Step, LoopTop, DeadlineError, Return, Raise, Check, Go,
                  StateType, stateVars
  <1>2. CASE NextBattle \/ Cancel \/ NoDecisionToAct \/ Fails \/ ExitConfirmed
             \/ ExitUnknown \/ RecoveryRefused
      BY <1>2 DEF NextBattle, Cancel, NoDecisionToAct, Answers, Fails,
                  ExitConfirmed, ExitUnknown, RecoveryRefused, UnknownExitRaises,
                  RefusedExhausts, Return, Raise
  <1>3. CASE ResolveChallenge \/ FloorConfirmed \/ TurnReceived
             \/ DecisionActed \/ RecoveryAccepted
      BY <1>3 DEF ResolveChallenge, FloorConfirmed, TurnReceived,
                  DecisionActed, Confirmed, RecoveryAccepted, Resolved,
                  Progress, Return, Go
  <1>4. CASE BeforeInspection \/ CompletionFound \/ StartDeadline
             \/ DispatchCompletion \/ DispatchFloor
      BY <1>4 DEF BeforeInspection, CompletionFound, StartDeadline,
                  DispatchCompletion, DispatchFloor, PauseGate, Return, Go
  <1>5. CASE BattleFound \/ DispatchChallenge
      BY <1>5 DEF BattleFound, DispatchChallenge, NoChallengeYet, LoopTop,
                  DeadlineError, Raise, Check, Go, StateType, stateVars
  <1>6. CASE Inspect \/ DispatchAbsent \/ DispatchActive
      BY <1>6 DEF Inspect, DispatchAbsent, DispatchActive, PauseGate, Return,
                  Raise, Check, Go
  <1>7. CASE Probe \/ ParseErrs \/ Confirm
    <2>1. readiness # "off"
        BY <1>7 DEF Probe, ParseErrs, Confirm
    <2>2. \A phase : Given(phase) => DeadlineRuns'
        BY <2>1 DEF Given, Defer, Return, Raise, Check
    <2>3. Late => DeadlineRuns'
        BY DEF Late, DeadlineError, Raise
    <2> QED
        BY <1>7, <2>1, <2>2, <2>3 DEF Probe, ParseErrs, Confirm, Reads, Go, Raise
  <1>8. CASE Parse \/ LifecycleRuns
      BY <1>8 DEF Parse, LifecycleRuns, Raise, Go, stateVars
  <1>9. CASE OutcomeUnknown
      BY <1>9 DEF OutcomeUnknown, Reconcile, Exhausted, Raise, Go
  <1>10. CASE Environment \/ Expire
      BY <1>10 DEF Environment, Reveal, LateExecution, ChallengeExpires,
                   TogglePause, Expire, stateVars, flowVars
  <1>11. CASE UNCHANGED vars
      BY <1>11 DEF vars, stateVars, flowVars
  <1> QED
      BY <1>1, <1>2, <1>3, <1>4, <1>5, <1>6, <1>7, <1>8, <1>9, <1>10, <1>11
         DEF Next, Runner

LEMMA InitiallyTyped == ASSUME Init PROVE TypeOK
  <1>1. EnvType
      BY RunnerAssumption DEF Init, EnvType, Shows, Stages, Pages
  <1>2. FlowType
      BY DEF Init, FlowType, Phases, Results, Codes
  <1>3. StateType
      BY DEF Init, StateType
  <1>4. HistoryType
    <2>1. /\ mutations \in 0 .. 2 /\ recoveries \in 0 .. 2
          /\ starts \in 0 .. 2 /\ exits \in 0 .. 2
        BY DEF Init
    <2>2. /\ pausedThroughout \in BOOLEAN /\ unresolved \in BOOLEAN
          /\ accepted \in BOOLEAN /\ strategy \in {"waited", "acted", "broke"}
        BY DEF Init
    <2> QED
        BY <2>1, <2>2 DEF HistoryType
  <1>5. DeadlineRuns
      BY DEF Init, DeadlineRuns
  <1> QED
      BY <1>1, <1>2, <1>3, <1>4, <1>5 DEF TypeOK

LEMMA TypeInductive == TypeOK /\ [Next]_vars => TypeOK'
  BY EnvTypeInductive, FlowTypeInductive, StateTypeInductive,
     HistoryTypeInductive, DeadlineInductive DEF TypeOK

(* Every reachable state is well typed, and no probe and no absent page    *)
(* meets a readiness deadline that was not started.                        *)
THEOREM RunnerTypeCorrect == Spec => []TypeOK
  BY InitiallyTyped, TypeInductive, PTL DEF Spec

-----------------------------------------------------------------------------
(* The inductive invariant, part by part.  Each part says what makes its   *)
(* property survive the next step.                                         *)

(* A recovery since the last receipt is remembered in the pending flag,    *)
(* and recover runs only without it.                                       *)
BudgetInv ==
    /\ recoveries <= 1 /\ (~recovery => recoveries = 0)
    /\ pc = "recover" => ~recovery

(* A lifecycle call that ended has left "pending".                         *)
LifecycleInv ==
    /\ starts <= 1 /\ (lifecycle = "pending" => starts = 0)
    /\ pc = "lifecycle" => lifecycle = "pending"

PauseInv == pausedThroughout => paused /\ PausedStepActsNot

(* A running step has submitted nothing yet, unless its strategy has acted *)
(* or it recovers what was submitted; only the strategy breaks its promise.*)
MutationInv ==
    /\ strategy # "broke" =>
           /\ pc = "recover" => mutations = 1
           /\ pc = "decide" => mutations = IF strategy = "acted" THEN 1 ELSE 0
           /\ pc \notin {"idle", "recover", "decide"} =>
                  mutations = 0 /\ strategy = "waited"
    /\ ResultTellsMutations

(* The cached completion and the completed result are the same thing.      *)
CompletionInv ==
    /\ completed => result = "completed" /\ pc = "idle" /\ stage = "left"
    /\ result = "completed" => completed

(* With a caller that stops on errors, an action without receipt is being  *)
(* recovered, or the step that submitted it has ended the run.             *)
SettledInv ==
    unresolved => \/ pc = "recover"
                  \/ pc = "idle" /\ result \in {"raised", "cancelled"}

(* ... and a click on the final control has ended it as well.              *)
ExitInv ==
    /\ exits <= 1
    /\ exits > 0 => pc = "idle" /\ result \in {"completed", "raised", "cancelled"}

(* Where a step stands tells whether the battle's presence is initialized. *)
PresenceInv ==
    /\ \/ pc = "inspect"
       \/ pc = "check" /\ then \in {"inspect", "active", "completion"}
       => ~presence
    /\ \/ pc \in {"probe", "parse", "confirm"}
       \/ pc = "check" /\ then \in {"deadline", "dispatch"}
       => presence

(* A completion given to the runner stays observed by the session and has  *)
(* disarmed the missing-page alarm.                                        *)
CompletionGivenInv ==
    /\ accepted => presence /\ observed /\ ~transition
    /\ NoLostCompletion

RunnerInv ==
    /\ TypeOK /\ BudgetInv /\ LifecycleInv /\ PauseInv /\ MutationInv
    /\ CompletionInv /\ PresenceInv /\ CompletionGivenInv
    /\ ~Relentless => SettledInv /\ ExitInv

-----------------------------------------------------------------------------
(* What a read of the page (a probe, or either read after the parse) may   *)
(* do: end the step, go on parsing, or hand a phase to the challenge check.*)
LEMMA GivenFlow ==
  ASSUME TypeOK, NEW phase, Given(phase)
  PROVE  /\ \/ pc' = "idle" /\ result' \in {"idle", "raised"} /\ code' # "missing"
            \/ pc' = "check" /\ then' = "dispatch" /\ result' = result
         /\ phase = "complete" => pc' = "check" /\ transition' = FALSE
         /\ accepted' => accepted \/ phase = "complete"
         /\ transition' => transition
  BY DEF Given, Defer, Return, Raise, Check, ClearTransition, TypeOK,
         StateType, HistoryType

LEMMA LateFlow ==
  ASSUME Late
  PROVE  /\ pc' = "idle" /\ result' = "raised"
         /\ accepted' = accepted /\ transition' = transition
         /\ code' = "missing" => transition
  BY DEF Late, DeadlineError, Raise

LEMMA ReadFlow ==
  ASSUME TypeOK, Probe \/ ParseErrs \/ Confirm
  PROVE  \/ pc' = "idle" /\ result' \in {"idle", "raised"}
         \/ pc' = "parse" /\ result' = result
         \/ pc' = "check" /\ then' = "dispatch" /\ result' = result
  BY GivenFlow, LateFlow DEF Probe, ParseErrs, Confirm, Reads, Go, Raise

LEMMA ReadKeeps ==
  ASSUME Probe \/ ParseErrs \/ Confirm
  PROVE  UNCHANGED <<envVars, presence, lifecycle, recovery, completed,
                     mutations, strategy, pausedThroughout, unresolved,
                     recoveries, starts, exits>>
  BY DEF Probe, ParseErrs, Confirm, Reads

LEMMA ReadCompletion ==
  ASSUME TypeOK, Probe \/ ParseErrs \/ Confirm
  PROVE  /\ observed' = (observed \/ page = "complete")
         /\ accepted' => accepted \/ (page = "complete" /\ ~transition' /\ pc' # "idle")
         /\ transition' => transition
         /\ pc' = "idle" /\ code' = "missing" => transition
  <1>1. observed' = (observed \/ page = "complete")
      BY DEF Probe, ParseErrs, Confirm, Reads
  <1>2. \/ Late
        \/ pc' = "parse" /\ UNCHANGED <<accepted, transition>>
        \/ Raise("interrupted") /\ UNCHANGED <<accepted, transition>>
        \/ \E phase : Given(phase) /\ (phase = "complete" => page = "complete")
    <2>1. CASE Probe
        BY <2>1, ControlPhase DEF Probe, Reads, Go
    <2>2. CASE ParseErrs
        BY <2>2, ControlPhase DEF ParseErrs, Reads
    <2>3. CASE Confirm
        BY <2>3, ControlPhase DEF Confirm, Reads
    <2> QED
        BY <2>1, <2>2, <2>3
  <1>3. CASE Late
      BY <1>1, <1>3, LateFlow
  <1>4. CASE pc' = "parse" /\ UNCHANGED <<accepted, transition>>
      BY <1>1, <1>4
  <1>5. CASE Raise("interrupted") /\ UNCHANGED <<accepted, transition>>
      BY <1>1, <1>5 DEF Raise
  <1>6. CASE \E phase : Given(phase) /\ (phase = "complete" => page = "complete")
    <2>1. PICK phase : Given(phase) /\ (phase = "complete" => page = "complete")
        BY <1>6
    <2> QED
        BY <1>1, <2>1, GivenFlow
  <1> QED
      BY <1>2, <1>3, <1>4, <1>5, <1>6

LEMMA BudgetInductive ==
  ASSUME TypeOK, BudgetInv, [Next]_vars
  PROVE  BudgetInv'
  <1> USE DEF BudgetInv, Up, TypeOK, StateType, HistoryType
  <1>1. CASE Step
      BY <1>1 DEF Step, LoopTop, DeadlineError, Return, Raise, Check, Go,
              MayStep, envVars, stateVars, historyVars
  <1>2. CASE NextBattle
      BY <1>2 DEF NextBattle, envVars, stateVars, historyVars
  <1>3. CASE Cancel
      BY <1>3 DEF Cancel, envVars, stateVars, historyVars
  <1>4. CASE Fails
      BY <1>4 DEF Fails, Raise, Clickable, envVars, stateVars, historyVars
  <1>5. CASE ResolveChallenge \/ FloorConfirmed \/ TurnReceived \/ DecisionActed
      BY <1>5 DEF ResolveChallenge, FloorConfirmed, TurnReceived, DecisionActed,
              Received, Confirmed, Answers, Resolved, Progress, Return, Go,
              Clickable, envVars, stateVars, historyVars
  <1>6. CASE RecoveryAccepted
      BY <1>6 DEF RecoveryAccepted, Progress, Return, envVars, stateVars,
              historyVars
  <1>7. CASE BeforeInspection \/ CompletionFound \/ StartDeadline \/
          DispatchFloor
      BY <1>7 DEF BeforeInspection, CompletionFound, StartDeadline,
              DispatchFloor, NoChallengeYet, PauseGate, Return, Go, envVars,
              stateVars, historyVars
  <1>8. CASE DispatchCompletion
      BY <1>8 DEF DispatchCompletion, NoChallengeYet, PauseGate, Return, Go,
              ClearTransition, envVars, stateVars, historyVars
  <1>9. CASE BattleFound
      BY <1>9 DEF BattleFound, NoChallengeYet, LoopTop, DeadlineError,
              Raise, Check, Go, ClearTransition, envVars, stateVars,
              historyVars
  <1>10. CASE DispatchChallenge
      BY <1>10 DEF DispatchChallenge, NoChallengeYet, LoopTop,
              DeadlineError, Raise, Check, Go, envVars, stateVars,
              historyVars
  <1>11. CASE Inspect
      BY <1>11 DEF Inspect, Return, Check, envVars, stateVars, historyVars
  <1>12. CASE DispatchAbsent \/ DispatchActive
      BY <1>12 DEF DispatchAbsent, DispatchActive, NoChallengeYet,
              PauseGate, Return, Raise, Go, envVars, stateVars, historyVars
  <1>13. CASE Probe \/ ParseErrs \/ Confirm
      BY <1>13, ReadFlow, ReadKeeps
         DEF Probe, ParseErrs, Confirm, envVars
  <1>14. CASE Parse \/ NoDecisionToAct
      BY <1>14 DEF Parse, NoDecisionToAct, Answers, Go, Return, envVars, stateVars,
              historyVars
  <1>15. CASE LifecycleRuns
      BY <1>15 DEF LifecycleRuns, FailureCached, Go, Raise, envVars,
              stateVars, historyVars
  <1>16. CASE OutcomeUnknown
      BY <1>16 DEF OutcomeUnknown, Reconcile, Exhausted, Raise, Go,
              Clickable, envVars, stateVars, historyVars
  <1>17. CASE RecoveryRefused
      BY <1>17 DEF RecoveryRefused, RefusedExhausts, Raise, envVars,
              stateVars, historyVars
  <1>18. CASE ExitConfirmed \/ ExitUnknown
      BY <1>18 DEF ExitConfirmed, ExitUnknown, UnknownExitRaises, Return,
              Raise, envVars, stateVars, historyVars
  <1>19. CASE Environment
      BY <1>19 DEF Environment, Reveal, LateExecution, ChallengeExpires,
              TogglePause, flowVars, envVars, stateVars, historyVars
  <1>20. CASE Expire
      BY <1>20 DEF Expire, flowVars, envVars, stateVars, historyVars
  <1>21. CASE UNCHANGED vars
      BY <1>21 DEF vars, flowVars, envVars, stateVars, historyVars
  <1> QED
      BY <1>1, <1>2, <1>3, <1>4, <1>5, <1>6, <1>7, <1>8, <1>9, <1>10, <1>11,
              <1>12, <1>13, <1>14, <1>15, <1>16, <1>17, <1>18, <1>19, <1>20,
              <1>21 DEF Next, Runner

LEMMA LifecycleInductive ==
  ASSUME TypeOK, LifecycleInv, [Next]_vars
  PROVE  LifecycleInv'
  <1> USE DEF LifecycleInv, Up, TypeOK, StateType, HistoryType
  <1>1. CASE Step
      BY <1>1 DEF Step, LoopTop, DeadlineError, Return, Raise, Check, Go,
              MayStep, envVars, stateVars, historyVars
  <1>2. CASE NextBattle
      BY <1>2 DEF NextBattle, envVars, stateVars, historyVars
  <1>3. CASE Cancel
      BY <1>3 DEF Cancel, envVars, stateVars, historyVars
  <1>4. CASE Fails
      BY <1>4 DEF Fails, Raise, Clickable, envVars, stateVars, historyVars
  <1>5. CASE ResolveChallenge \/ FloorConfirmed \/ TurnReceived \/ DecisionActed
      BY <1>5 DEF ResolveChallenge, FloorConfirmed, TurnReceived, DecisionActed,
              Received, Confirmed, Answers, Resolved, Progress, Return, Go,
              Clickable, envVars, stateVars, historyVars
  <1>6. CASE RecoveryAccepted
      BY <1>6 DEF RecoveryAccepted, Progress, Return, envVars, stateVars,
              historyVars
  <1>7. CASE BeforeInspection \/ CompletionFound \/ StartDeadline \/
          DispatchFloor
      BY <1>7 DEF BeforeInspection, CompletionFound, StartDeadline,
              DispatchFloor, NoChallengeYet, PauseGate, Return, Go, envVars,
              stateVars, historyVars
  <1>8. CASE DispatchCompletion
      BY <1>8 DEF DispatchCompletion, NoChallengeYet, PauseGate, Return, Go,
              ClearTransition, envVars, stateVars, historyVars
  <1>9. CASE BattleFound
      BY <1>9 DEF BattleFound, NoChallengeYet, LoopTop, DeadlineError,
              Raise, Check, Go, ClearTransition, envVars, stateVars,
              historyVars
  <1>10. CASE DispatchChallenge
      BY <1>10 DEF DispatchChallenge, NoChallengeYet, LoopTop,
              DeadlineError, Raise, Check, Go, envVars, stateVars,
              historyVars
  <1>11. CASE Inspect
      BY <1>11 DEF Inspect, Return, Check, envVars, stateVars, historyVars
  <1>12. CASE DispatchAbsent \/ DispatchActive
      BY <1>12 DEF DispatchAbsent, DispatchActive, NoChallengeYet,
              PauseGate, Return, Raise, Go, envVars, stateVars, historyVars
  <1>13. CASE Probe \/ ParseErrs \/ Confirm
      BY <1>13, ReadFlow, ReadKeeps
         DEF Probe, ParseErrs, Confirm, envVars
  <1>14. CASE Parse \/ NoDecisionToAct
      BY <1>14 DEF Parse, NoDecisionToAct, Answers, Go, Return, envVars, stateVars,
              historyVars
  <1>15. CASE LifecycleRuns
      BY <1>15 DEF LifecycleRuns, FailureCached, Go, Raise, envVars,
              stateVars, historyVars
  <1>16. CASE OutcomeUnknown
      BY <1>16 DEF OutcomeUnknown, Reconcile, Exhausted, Raise, Go,
              Clickable, envVars, stateVars, historyVars
  <1>17. CASE RecoveryRefused
      BY <1>17 DEF RecoveryRefused, RefusedExhausts, Raise, envVars,
              stateVars, historyVars
  <1>18. CASE ExitConfirmed \/ ExitUnknown
      BY <1>18 DEF ExitConfirmed, ExitUnknown, UnknownExitRaises, Return,
              Raise, envVars, stateVars, historyVars
  <1>19. CASE Environment
      BY <1>19 DEF Environment, Reveal, LateExecution, ChallengeExpires,
              TogglePause, flowVars, envVars, stateVars, historyVars
  <1>20. CASE Expire
      BY <1>20 DEF Expire, flowVars, envVars, stateVars, historyVars
  <1>21. CASE UNCHANGED vars
      BY <1>21 DEF vars, flowVars, envVars, stateVars, historyVars
  <1> QED
      BY <1>1, <1>2, <1>3, <1>4, <1>5, <1>6, <1>7, <1>8, <1>9, <1>10, <1>11,
              <1>12, <1>13, <1>14, <1>15, <1>16, <1>17, <1>18, <1>19, <1>20,
              <1>21 DEF Next, Runner

LEMMA PauseInductive ==
  ASSUME TypeOK, PauseInv, [Next]_vars
  PROVE  PauseInv'
  <1> USE DEF PauseInv, PausedStepActsNot, TypeOK, StateType
  <1>1. CASE Step
      BY <1>1 DEF Step, LoopTop, DeadlineError, Return, Raise, Check, Go,
              MayStep, envVars, stateVars, historyVars
  <1>2. CASE NextBattle
      BY <1>2 DEF NextBattle, envVars, stateVars, historyVars
  <1>3. CASE Cancel
      BY <1>3 DEF Cancel, envVars, stateVars, historyVars
  <1>4. CASE Fails
      BY <1>4 DEF Fails, Raise, Clickable, envVars, stateVars, historyVars
  <1>5. CASE ResolveChallenge \/ FloorConfirmed \/ TurnReceived \/ DecisionActed
      BY <1>5 DEF ResolveChallenge, FloorConfirmed, TurnReceived, DecisionActed,
              Received, Confirmed, Answers, Resolved, Progress, Return, Go,
              Clickable, envVars, stateVars, historyVars
  <1>6. CASE RecoveryAccepted
      BY <1>6 DEF RecoveryAccepted, Progress, Return, envVars, stateVars,
              historyVars
  <1>7. CASE BeforeInspection \/ CompletionFound \/ StartDeadline \/
          DispatchFloor
      BY <1>7 DEF BeforeInspection, CompletionFound, StartDeadline,
              DispatchFloor, NoChallengeYet, PauseGate, Return, Go, envVars,
              stateVars, historyVars
  <1>8. CASE DispatchCompletion
      BY <1>8 DEF DispatchCompletion, NoChallengeYet, PauseGate, Return, Go,
              ClearTransition, envVars, stateVars, historyVars
  <1>9. CASE BattleFound
      BY <1>9 DEF BattleFound, NoChallengeYet, LoopTop, DeadlineError,
              Raise, Check, Go, ClearTransition, envVars, stateVars,
              historyVars
  <1>10. CASE DispatchChallenge
      BY <1>10 DEF DispatchChallenge, NoChallengeYet, LoopTop,
              DeadlineError, Raise, Check, Go, envVars, stateVars,
              historyVars
  <1>11. CASE Inspect
      BY <1>11 DEF Inspect, Return, Check, envVars, stateVars, historyVars
  <1>12. CASE DispatchAbsent \/ DispatchActive
      BY <1>12 DEF DispatchAbsent, DispatchActive, NoChallengeYet,
              PauseGate, Return, Raise, Go, envVars, stateVars, historyVars
  <1>13. CASE Probe \/ ParseErrs \/ Confirm
      BY <1>13, ReadFlow, ReadKeeps
         DEF Probe, ParseErrs, Confirm, envVars
  <1>14. CASE Parse \/ NoDecisionToAct
      BY <1>14 DEF Parse, NoDecisionToAct, Answers, Go, Return, envVars, stateVars,
              historyVars
  <1>15. CASE LifecycleRuns
      BY <1>15 DEF LifecycleRuns, FailureCached, Go, Raise, envVars,
              stateVars, historyVars
  <1>16. CASE OutcomeUnknown
      BY <1>16 DEF OutcomeUnknown, Reconcile, Exhausted, Raise, Go,
              Clickable, envVars, stateVars, historyVars
  <1>17. CASE RecoveryRefused
      BY <1>17 DEF RecoveryRefused, RefusedExhausts, Raise, envVars,
              stateVars, historyVars
  <1>18. CASE ExitConfirmed \/ ExitUnknown
      BY <1>18 DEF ExitConfirmed, ExitUnknown, UnknownExitRaises, Return,
              Raise, envVars, stateVars, historyVars
  <1>19. CASE Environment
      BY <1>19 DEF Environment, Reveal, LateExecution, ChallengeExpires,
              TogglePause, flowVars, envVars, stateVars, historyVars
  <1>20. CASE Expire
      BY <1>20 DEF Expire, flowVars, envVars, stateVars, historyVars
  <1>21. CASE UNCHANGED vars
      BY <1>21 DEF vars, flowVars, envVars, stateVars, historyVars
  <1> QED
      BY <1>1, <1>2, <1>3, <1>4, <1>5, <1>6, <1>7, <1>8, <1>9, <1>10, <1>11,
              <1>12, <1>13, <1>14, <1>15, <1>16, <1>17, <1>18, <1>19, <1>20,
              <1>21 DEF Next, Runner

LEMMA LoopTopFlow ==
  ASSUME TypeOK, LoopTop
  PROVE  \/ pc' \in {"check", "probe"}
         \/ pc' = "idle" /\ result' = "raised"
  BY DEF LoopTop, DeadlineError, Raise, Check, Go, TypeOK, StateType

LEMMA MutationInductive ==
  ASSUME TypeOK, MutationInv, CompletionInv, [Next]_vars
  PROVE  MutationInv'
  <1> USE DEF MutationInv, ResultTellsMutations, Up, TypeOK, HistoryType
  <1>1. CASE Step
    <2>1. CASE completed
      <3>1. /\ strategy # "broke" => mutations = 1
            /\ pc' = "idle" /\ result' = "completed"
            /\ mutations' = mutations /\ strategy' = strategy
          BY <1>1, <2>1 DEF CompletionInv, Step, Return
      <3> QED
          BY <3>1
    <2>2. CASE ~completed
      <3>1. mutations' = 0 /\ strategy' = "waited"
          BY <1>1, <2>2 DEF Step
      <3>2. \/ pc' \in {"check", "probe"}
            \/ pc' = "idle" /\ result' = "raised"
          BY <1>1, <2>2, LoopTopFlow DEF Step, Check
      <3> QED
          BY <3>1, <3>2
    <2> QED
        BY <2>1, <2>2
  <1>2. CASE NextBattle
      BY <1>2 DEF NextBattle, envVars, stateVars, historyVars
  <1>3. CASE Cancel
      BY <1>3 DEF Submits, Cancel, envVars, stateVars, historyVars
  <1>4. CASE Fails
      BY <1>4 DEF Submits, Fails, Raise, Clickable, envVars, stateVars, historyVars
  <1>5. CASE ResolveChallenge \/ FloorConfirmed \/ TurnReceived \/ DecisionActed
      BY <1>5 DEF Submits, ResolveChallenge, FloorConfirmed, TurnReceived, DecisionActed,
              Received, Confirmed, Answers, Resolved, Progress, Return, Go,
              Clickable, envVars, stateVars, historyVars
  <1>6. CASE RecoveryAccepted
      BY <1>6 DEF RecoveryAccepted, Progress, Return, envVars, stateVars,
              historyVars
  <1>7. CASE BeforeInspection \/ CompletionFound \/ StartDeadline \/
          DispatchFloor
      BY <1>7 DEF BeforeInspection, CompletionFound, StartDeadline,
              DispatchFloor, NoChallengeYet, PauseGate, Return, Go, envVars,
              stateVars, historyVars
  <1>8. CASE DispatchCompletion
      BY <1>8 DEF DispatchCompletion, NoChallengeYet, PauseGate, Return, Go,
              ClearTransition, envVars, stateVars, historyVars
  <1>9. CASE BattleFound
      BY <1>9 DEF StateType, BattleFound, NoChallengeYet, LoopTop, DeadlineError,
              Raise, Check, Go, ClearTransition, envVars, stateVars,
              historyVars
  <1>10. CASE DispatchChallenge
      BY <1>10 DEF StateType, DispatchChallenge, NoChallengeYet, LoopTop,
              DeadlineError, Raise, Check, Go, envVars, stateVars,
              historyVars
  <1>11. CASE Inspect
      BY <1>11 DEF Inspect, Return, Check, envVars, stateVars, historyVars
  <1>12. CASE DispatchAbsent \/ DispatchActive
      BY <1>12 DEF DispatchAbsent, DispatchActive, NoChallengeYet,
              PauseGate, Return, Raise, Go, envVars, stateVars, historyVars
  <1>13. CASE Probe \/ ParseErrs \/ Confirm
      BY <1>13, ReadFlow, ReadKeeps
         DEF Probe, ParseErrs, Confirm, envVars
  <1>14. CASE Parse \/ NoDecisionToAct
      BY <1>14 DEF Parse, NoDecisionToAct, Answers, Go, Return, envVars, stateVars,
              historyVars
  <1>15. CASE LifecycleRuns
      BY <1>15 DEF LifecycleRuns, FailureCached, Go, Raise, envVars,
              stateVars, historyVars
  <1>16. CASE OutcomeUnknown
      BY <1>16 DEF Submits, OutcomeUnknown, Reconcile, Exhausted, Raise, Go,
              Clickable, envVars, stateVars, historyVars
  <1>17. CASE RecoveryRefused
      BY <1>17 DEF RecoveryRefused, RefusedExhausts, Raise, envVars,
              stateVars, historyVars
  <1>18. CASE ExitConfirmed \/ ExitUnknown
      BY <1>18 DEF Submits, ExitConfirmed, ExitUnknown, UnknownExitRaises, Return,
              Raise, envVars, stateVars, historyVars
  <1>19. CASE Environment
      BY <1>19 DEF Environment, Reveal, LateExecution, ChallengeExpires,
              TogglePause, flowVars, envVars, stateVars, historyVars
  <1>20. CASE Expire
      BY <1>20 DEF Expire, flowVars, envVars, stateVars, historyVars
  <1>21. CASE UNCHANGED vars
      BY <1>21 DEF vars, flowVars, envVars, stateVars, historyVars
  <1> QED
      BY <1>1, <1>2, <1>3, <1>4, <1>5, <1>6, <1>7, <1>8, <1>9, <1>10, <1>11,
              <1>12, <1>13, <1>14, <1>15, <1>16, <1>17, <1>18, <1>19, <1>20,
              <1>21 DEF Next, Runner

LEMMA CompletionInductive ==
  ASSUME TypeOK, CompletionInv, [Next]_vars
  PROVE  CompletionInv'
  <1> USE DEF CompletionInv, Plays, Operation, TypeOK, StateType
  <1>1. CASE Step
      BY <1>1 DEF Step, LoopTop, DeadlineError, Return, Raise, Check, Go,
              MayStep, envVars, stateVars, historyVars
  <1>2. CASE NextBattle
      BY <1>2 DEF NextBattle, envVars, stateVars, historyVars
  <1>3. CASE Cancel
      BY <1>3 DEF Cancel, envVars, stateVars, historyVars
  <1>4. CASE Fails
      BY <1>4 DEF Fails, Raise, Clickable, envVars, stateVars, historyVars
  <1>5. CASE ResolveChallenge \/ FloorConfirmed \/ TurnReceived \/ DecisionActed
      BY <1>5 DEF ResolveChallenge, FloorConfirmed, TurnReceived, DecisionActed,
              Received, Confirmed, Answers, Resolved, Progress, Return, Go,
              Clickable, envVars, stateVars, historyVars
  <1>6. CASE RecoveryAccepted
      BY <1>6 DEF RecoveryAccepted, Progress, Return, envVars, stateVars,
              historyVars
  <1>7. CASE BeforeInspection \/ CompletionFound \/ StartDeadline \/
          DispatchFloor
      BY <1>7 DEF BeforeInspection, CompletionFound, StartDeadline,
              DispatchFloor, NoChallengeYet, PauseGate, Return, Go, envVars,
              stateVars, historyVars
  <1>8. CASE DispatchCompletion
      BY <1>8 DEF DispatchCompletion, NoChallengeYet, PauseGate, Return, Go,
              ClearTransition, envVars, stateVars, historyVars
  <1>9. CASE BattleFound
      BY <1>9 DEF BattleFound, NoChallengeYet, LoopTop, DeadlineError,
              Raise, Check, Go, ClearTransition, envVars, stateVars,
              historyVars
  <1>10. CASE DispatchChallenge
      BY <1>10 DEF DispatchChallenge, NoChallengeYet, LoopTop,
              DeadlineError, Raise, Check, Go, envVars, stateVars,
              historyVars
  <1>11. CASE Inspect
      BY <1>11 DEF Inspect, Return, Check, envVars, stateVars, historyVars
  <1>12. CASE DispatchAbsent \/ DispatchActive
      BY <1>12 DEF DispatchAbsent, DispatchActive, NoChallengeYet,
              PauseGate, Return, Raise, Go, envVars, stateVars, historyVars
  <1>13. CASE Probe \/ ParseErrs \/ Confirm
    <2>1. ~completed /\ result # "completed"
        BY <1>13 DEF Probe, ParseErrs, Confirm
    <2>2. completed' = completed /\ result' \in {result, "idle", "raised"}
        BY <1>13, ReadFlow, ReadKeeps
    <2> QED
        BY <2>1, <2>2
  <1>14. CASE Parse \/ NoDecisionToAct
      BY <1>14 DEF Parse, NoDecisionToAct, Answers, Go, Return, envVars, stateVars,
              historyVars
  <1>15. CASE LifecycleRuns
      BY <1>15 DEF LifecycleRuns, FailureCached, Go, Raise, envVars,
              stateVars, historyVars
  <1>16. CASE OutcomeUnknown
      BY <1>16 DEF OutcomeUnknown, Reconcile, Exhausted, Raise, Go,
              Clickable, envVars, stateVars, historyVars
  <1>17. CASE RecoveryRefused
      BY <1>17 DEF RecoveryRefused, RefusedExhausts, Raise, envVars,
              stateVars, historyVars
  <1>18. CASE ExitConfirmed \/ ExitUnknown
      BY <1>18 DEF ExitConfirmed, ExitUnknown, UnknownExitRaises, Return,
              Raise, envVars, stateVars, historyVars
  <1>19. CASE Environment
      BY <1>19 DEF Environment, Reveal, LateExecution, ChallengeExpires,
              TogglePause, flowVars, envVars, stateVars, historyVars
  <1>20. CASE Expire
      BY <1>20 DEF Expire, flowVars, envVars, stateVars, historyVars
  <1>21. CASE UNCHANGED vars
      BY <1>21 DEF vars, flowVars, envVars, stateVars, historyVars
  <1> QED
      BY <1>1, <1>2, <1>3, <1>4, <1>5, <1>6, <1>7, <1>8, <1>9, <1>10, <1>11,
              <1>12, <1>13, <1>14, <1>15, <1>16, <1>17, <1>18, <1>19, <1>20,
              <1>21 DEF Next, Runner

LEMMA SettledInductive ==
  ASSUME TypeOK, ~Relentless, CompletionInv, SettledInv, [Next]_vars
  PROVE  SettledInv'
  <1> USE DEF SettledInv, CompletionInv
  <1>1. CASE Step
      BY <1>1 DEF Step, LoopTop, DeadlineError, Return, Raise, Check, Go,
              MayStep, envVars, stateVars, historyVars
  <1>2. CASE NextBattle
      BY <1>2 DEF NextBattle, envVars, stateVars, historyVars
  <1>3. CASE Cancel
      BY <1>3 DEF Cancel, envVars, stateVars, historyVars
  <1>4. CASE Fails
      BY <1>4 DEF Fails, Raise, Clickable, envVars, stateVars, historyVars
  <1>5. CASE ResolveChallenge \/ FloorConfirmed \/ TurnReceived \/ DecisionActed
      BY <1>5 DEF ResolveChallenge, FloorConfirmed, TurnReceived, DecisionActed,
              Received, Confirmed, Answers, Resolved, Progress, Return, Go,
              Clickable, envVars, stateVars, historyVars
  <1>6. CASE RecoveryAccepted
      BY <1>6 DEF RecoveryAccepted, Progress, Return, envVars, stateVars,
              historyVars
  <1>7. CASE BeforeInspection \/ CompletionFound \/ StartDeadline \/
          DispatchFloor
      BY <1>7 DEF BeforeInspection, CompletionFound, StartDeadline,
              DispatchFloor, NoChallengeYet, PauseGate, Return, Go, envVars,
              stateVars, historyVars
  <1>8. CASE DispatchCompletion
      BY <1>8 DEF DispatchCompletion, NoChallengeYet, PauseGate, Return, Go,
              ClearTransition, envVars, stateVars, historyVars
  <1>9. CASE BattleFound
      BY <1>9 DEF BattleFound, NoChallengeYet, LoopTop, DeadlineError,
              Raise, Check, Go, ClearTransition, envVars, stateVars,
              historyVars
  <1>10. CASE DispatchChallenge
      BY <1>10 DEF DispatchChallenge, NoChallengeYet, LoopTop,
              DeadlineError, Raise, Check, Go, envVars, stateVars,
              historyVars
  <1>11. CASE Inspect
      BY <1>11 DEF Inspect, Return, Check, envVars, stateVars, historyVars
  <1>12. CASE DispatchAbsent \/ DispatchActive
      BY <1>12 DEF DispatchAbsent, DispatchActive, NoChallengeYet,
              PauseGate, Return, Raise, Go, envVars, stateVars, historyVars
  <1>13. CASE Probe \/ ParseErrs \/ Confirm
      BY <1>13, ReadFlow, ReadKeeps
         DEF Probe, ParseErrs, Confirm, envVars
  <1>14. CASE Parse \/ NoDecisionToAct
      BY <1>14 DEF Parse, NoDecisionToAct, Answers, Go, Return, envVars, stateVars,
              historyVars
  <1>15. CASE LifecycleRuns
      BY <1>15 DEF LifecycleRuns, FailureCached, Go, Raise, envVars,
              stateVars, historyVars
  <1>16. CASE OutcomeUnknown
      BY <1>16 DEF OutcomeUnknown, Reconcile, Exhausted, Raise, Go,
              Clickable, envVars, stateVars, historyVars
  <1>17. CASE RecoveryRefused
      BY <1>17 DEF RecoveryRefused, RefusedExhausts, Raise, envVars,
              stateVars, historyVars
  <1>18. CASE ExitConfirmed \/ ExitUnknown
      BY <1>18 DEF ExitConfirmed, ExitUnknown, UnknownExitRaises, Return,
              Raise, envVars, stateVars, historyVars
  <1>19. CASE Environment
      BY <1>19 DEF Environment, Reveal, LateExecution, ChallengeExpires,
              TogglePause, flowVars, envVars, stateVars, historyVars
  <1>20. CASE Expire
      BY <1>20 DEF Expire, flowVars, envVars, stateVars, historyVars
  <1>21. CASE UNCHANGED vars
      BY <1>21 DEF vars, flowVars, envVars, stateVars, historyVars
  <1> QED
      BY <1>1, <1>2, <1>3, <1>4, <1>5, <1>6, <1>7, <1>8, <1>9, <1>10, <1>11,
              <1>12, <1>13, <1>14, <1>15, <1>16, <1>17, <1>18, <1>19, <1>20,
              <1>21 DEF Next, Runner

LEMMA ExitInductive ==
  ASSUME TypeOK, ~Relentless, CompletionInv, ExitInv, [Next]_vars
  PROVE  ExitInv'
  <1> USE DEF ExitInv, CompletionInv, Up, TypeOK, HistoryType
  <1>1. CASE Step
      BY <1>1 DEF Step, LoopTop, DeadlineError, Return, Raise, Check, Go,
              MayStep, envVars, stateVars, historyVars
  <1>2. CASE NextBattle
      BY <1>2 DEF NextBattle, envVars, stateVars, historyVars
  <1>3. CASE Cancel
      BY <1>3 DEF Cancel, envVars, stateVars, historyVars
  <1>4. CASE Fails
      BY <1>4 DEF Fails, Raise, Clickable, envVars, stateVars, historyVars
  <1>5. CASE ResolveChallenge \/ FloorConfirmed \/ TurnReceived \/ DecisionActed
      BY <1>5 DEF ResolveChallenge, FloorConfirmed, TurnReceived, DecisionActed,
              Received, Confirmed, Answers, Resolved, Progress, Return, Go,
              Clickable, envVars, stateVars, historyVars
  <1>6. CASE RecoveryAccepted
      BY <1>6 DEF RecoveryAccepted, Progress, Return, envVars, stateVars,
              historyVars
  <1>7. CASE BeforeInspection \/ CompletionFound \/ StartDeadline \/
          DispatchFloor
      BY <1>7 DEF BeforeInspection, CompletionFound, StartDeadline,
              DispatchFloor, NoChallengeYet, PauseGate, Return, Go, envVars,
              stateVars, historyVars
  <1>8. CASE DispatchCompletion
      BY <1>8 DEF DispatchCompletion, NoChallengeYet, PauseGate, Return, Go,
              ClearTransition, envVars, stateVars, historyVars
  <1>9. CASE BattleFound
      BY <1>9 DEF BattleFound, NoChallengeYet, LoopTop, DeadlineError,
              Raise, Check, Go, ClearTransition, envVars, stateVars,
              historyVars
  <1>10. CASE DispatchChallenge
      BY <1>10 DEF DispatchChallenge, NoChallengeYet, LoopTop,
              DeadlineError, Raise, Check, Go, envVars, stateVars,
              historyVars
  <1>11. CASE Inspect
      BY <1>11 DEF Inspect, Return, Check, envVars, stateVars, historyVars
  <1>12. CASE DispatchAbsent \/ DispatchActive
      BY <1>12 DEF DispatchAbsent, DispatchActive, NoChallengeYet,
              PauseGate, Return, Raise, Go, envVars, stateVars, historyVars
  <1>13. CASE Probe \/ ParseErrs \/ Confirm
      BY <1>13, ReadFlow, ReadKeeps
         DEF Probe, ParseErrs, Confirm, envVars
  <1>14. CASE Parse \/ NoDecisionToAct
      BY <1>14 DEF Parse, NoDecisionToAct, Answers, Go, Return, envVars, stateVars,
              historyVars
  <1>15. CASE LifecycleRuns
      BY <1>15 DEF LifecycleRuns, FailureCached, Go, Raise, envVars,
              stateVars, historyVars
  <1>16. CASE OutcomeUnknown
      BY <1>16 DEF OutcomeUnknown, Reconcile, Exhausted, Raise, Go,
              Clickable, envVars, stateVars, historyVars
  <1>17. CASE RecoveryRefused
      BY <1>17 DEF RecoveryRefused, RefusedExhausts, Raise, envVars,
              stateVars, historyVars
  <1>18. CASE ExitConfirmed \/ ExitUnknown
      BY <1>18 DEF ExitConfirmed, ExitUnknown, UnknownExitRaises, Return,
              Raise, envVars, stateVars, historyVars
  <1>19. CASE Environment
      BY <1>19 DEF Environment, Reveal, LateExecution, ChallengeExpires,
              TogglePause, flowVars, envVars, stateVars, historyVars
  <1>20. CASE Expire
      BY <1>20 DEF Expire, flowVars, envVars, stateVars, historyVars
  <1>21. CASE UNCHANGED vars
      BY <1>21 DEF vars, flowVars, envVars, stateVars, historyVars
  <1> QED
      BY <1>1, <1>2, <1>3, <1>4, <1>5, <1>6, <1>7, <1>8, <1>9, <1>10, <1>11,
              <1>12, <1>13, <1>14, <1>15, <1>16, <1>17, <1>18, <1>19, <1>20,
              <1>21 DEF Next, Runner

LEMMA PresenceInductive ==
  ASSUME TypeOK, CompletionInv, PresenceInv, [Next]_vars
  PROVE  PresenceInv'
  <1> USE DEF PresenceInv, CompletionInv, TypeOK, StateType
  <1>1. CASE Step
      BY <1>1 DEF Step, LoopTop, DeadlineError, Return, Raise, Check, Go,
              MayStep, envVars, stateVars, historyVars
  <1>2. CASE NextBattle
      BY <1>2 DEF NextBattle, envVars, stateVars, historyVars
  <1>3. CASE Cancel
      BY <1>3 DEF Cancel, envVars, stateVars, historyVars
  <1>4. CASE Fails
      BY <1>4 DEF Fails, Raise, Clickable, envVars, stateVars, historyVars
  <1>5. CASE ResolveChallenge \/ FloorConfirmed \/ TurnReceived \/ DecisionActed
      BY <1>5 DEF ResolveChallenge, FloorConfirmed, TurnReceived, DecisionActed,
              Received, Confirmed, Answers, Resolved, Progress, Return, Go,
              Clickable, envVars, stateVars, historyVars
  <1>6. CASE RecoveryAccepted
      BY <1>6 DEF RecoveryAccepted, Progress, Return, envVars, stateVars,
              historyVars
  <1>7. CASE BeforeInspection \/ CompletionFound \/ StartDeadline \/
          DispatchFloor
      BY <1>7 DEF BeforeInspection, CompletionFound, StartDeadline,
              DispatchFloor, NoChallengeYet, PauseGate, Return, Go, envVars,
              stateVars, historyVars
  <1>8. CASE DispatchCompletion
      BY <1>8 DEF DispatchCompletion, NoChallengeYet, PauseGate, Return, Go,
              ClearTransition, envVars, stateVars, historyVars
  <1>9. CASE BattleFound
      BY <1>9 DEF BattleFound, NoChallengeYet, LoopTop, DeadlineError,
              Raise, Check, Go, ClearTransition, envVars, stateVars,
              historyVars
  <1>10. CASE DispatchChallenge
      BY <1>10 DEF DispatchChallenge, NoChallengeYet, LoopTop,
              DeadlineError, Raise, Check, Go, envVars, stateVars,
              historyVars
  <1>11. CASE Inspect
      BY <1>11 DEF Inspect, Return, Check, envVars, stateVars, historyVars
  <1>12. CASE DispatchAbsent \/ DispatchActive
      BY <1>12 DEF DispatchAbsent, DispatchActive, NoChallengeYet,
              PauseGate, Return, Raise, Go, envVars, stateVars, historyVars
  <1>13. CASE Probe \/ ParseErrs \/ Confirm
      BY <1>13, ReadFlow, ReadKeeps
         DEF Probe, ParseErrs, Confirm, envVars
  <1>14. CASE Parse \/ NoDecisionToAct
      BY <1>14 DEF Parse, NoDecisionToAct, Answers, Go, Return, envVars, stateVars,
              historyVars
  <1>15. CASE LifecycleRuns
      BY <1>15 DEF LifecycleRuns, FailureCached, Go, Raise, envVars,
              stateVars, historyVars
  <1>16. CASE OutcomeUnknown
      BY <1>16 DEF OutcomeUnknown, Reconcile, Exhausted, Raise, Go,
              Clickable, envVars, stateVars, historyVars
  <1>17. CASE RecoveryRefused
      BY <1>17 DEF RecoveryRefused, RefusedExhausts, Raise, envVars,
              stateVars, historyVars
  <1>18. CASE ExitConfirmed \/ ExitUnknown
      BY <1>18 DEF ExitConfirmed, ExitUnknown, UnknownExitRaises, Return,
              Raise, envVars, stateVars, historyVars
  <1>19. CASE Environment
      BY <1>19 DEF Environment, Reveal, LateExecution, ChallengeExpires,
              TogglePause, flowVars, envVars, stateVars, historyVars
  <1>20. CASE Expire
      BY <1>20 DEF Expire, flowVars, envVars, stateVars, historyVars
  <1>21. CASE UNCHANGED vars
      BY <1>21 DEF vars, flowVars, envVars, stateVars, historyVars
  <1> QED
      BY <1>1, <1>2, <1>3, <1>4, <1>5, <1>6, <1>7, <1>8, <1>9, <1>10, <1>11,
              <1>12, <1>13, <1>14, <1>15, <1>16, <1>17, <1>18, <1>19, <1>20,
              <1>21 DEF Next, Runner

LEMMA CompletionGivenInductive ==
  ASSUME TypeOK, PresenceInv, CompletionGivenInv, [Next]_vars
  PROVE  CompletionGivenInv'
  <1> USE DEF CompletionGivenInv, PresenceInv, NoLostCompletion, TypeOK, StateType
  <1>1. CASE Step
      BY <1>1 DEF Step, LoopTop, DeadlineError, Return, Raise, Check, Go,
              MayStep, envVars, stateVars, historyVars
  <1>2. CASE NextBattle
      BY <1>2 DEF NextBattle, envVars, stateVars, historyVars
  <1>3. CASE Cancel
      BY <1>3 DEF Cancel, envVars, stateVars, historyVars
  <1>4. CASE Fails
      BY <1>4 DEF Fails, Raise, Clickable, envVars, stateVars, historyVars
  <1>5. CASE ResolveChallenge \/ FloorConfirmed \/ TurnReceived \/ DecisionActed
      BY <1>5 DEF ResolveChallenge, FloorConfirmed, TurnReceived, DecisionActed,
              Received, Confirmed, Answers, Resolved, Progress, Return, Go,
              Clickable, envVars, stateVars, historyVars
  <1>6. CASE RecoveryAccepted
      BY <1>6 DEF RecoveryAccepted, Progress, Return, envVars, stateVars,
              historyVars
  <1>7. CASE BeforeInspection \/ CompletionFound \/ StartDeadline \/
          DispatchFloor
      BY <1>7 DEF BeforeInspection, CompletionFound, StartDeadline,
              DispatchFloor, NoChallengeYet, PauseGate, Return, Go, envVars,
              stateVars, historyVars
  <1>8. CASE DispatchCompletion
      BY <1>8 DEF DispatchCompletion, NoChallengeYet, PauseGate, Return, Go,
              ClearTransition, envVars, stateVars, historyVars
  <1>9. CASE BattleFound
      BY <1>9 DEF BattleFound, NoChallengeYet, LoopTop, DeadlineError,
              Raise, Check, Go, ClearTransition, envVars, stateVars,
              historyVars
  <1>10. CASE DispatchChallenge
      BY <1>10 DEF DispatchChallenge, NoChallengeYet, LoopTop,
              DeadlineError, Raise, Check, Go, envVars, stateVars,
              historyVars
  <1>11. CASE Inspect
      BY <1>11 DEF Inspect, Return, Check, envVars, stateVars, historyVars
  <1>12. CASE DispatchAbsent \/ DispatchActive
      BY <1>12 DEF DispatchAbsent, DispatchActive, NoChallengeYet,
              PauseGate, Return, Raise, Go, envVars, stateVars, historyVars
  <1>13. CASE Probe \/ ParseErrs \/ Confirm
      BY <1>13, ReadFlow, ReadKeeps, ReadCompletion
         DEF Probe, ParseErrs, Confirm, envVars
  <1>14. CASE Parse \/ NoDecisionToAct
      BY <1>14 DEF Parse, NoDecisionToAct, Answers, Go, Return, envVars, stateVars,
              historyVars
  <1>15. CASE LifecycleRuns
      BY <1>15 DEF LifecycleRuns, FailureCached, Go, Raise, envVars,
              stateVars, historyVars
  <1>16. CASE OutcomeUnknown
      BY <1>16 DEF OutcomeUnknown, Reconcile, Exhausted, Raise, Go,
              Clickable, envVars, stateVars, historyVars
  <1>17. CASE RecoveryRefused
      BY <1>17 DEF RecoveryRefused, RefusedExhausts, Raise, envVars,
              stateVars, historyVars
  <1>18. CASE ExitConfirmed \/ ExitUnknown
      BY <1>18 DEF ExitConfirmed, ExitUnknown, UnknownExitRaises, Return,
              Raise, envVars, stateVars, historyVars
  <1>19. CASE Environment
      BY <1>19 DEF Environment, Reveal, LateExecution, ChallengeExpires,
              TogglePause, flowVars, envVars, stateVars, historyVars
  <1>20. CASE Expire
      BY <1>20 DEF Expire, flowVars, envVars, stateVars, historyVars
  <1>21. CASE UNCHANGED vars
      BY <1>21 DEF vars, flowVars, envVars, stateVars, historyVars
  <1> QED
      BY <1>1, <1>2, <1>3, <1>4, <1>5, <1>6, <1>7, <1>8, <1>9, <1>10, <1>11,
              <1>12, <1>13, <1>14, <1>15, <1>16, <1>17, <1>18, <1>19, <1>20,
              <1>21 DEF Next, Runner

(* RunnerInv holds at the start and survives every step.                   *)
LEMMA RunnerInvInductive == RunnerInv /\ [Next]_vars => RunnerInv'
  <1> SUFFICES ASSUME RunnerInv, [Next]_vars PROVE RunnerInv'
      OBVIOUS
  <1>1. TypeOK'
      BY TypeInductive DEF RunnerInv
  <1>2. BudgetInv' /\ LifecycleInv' /\ PauseInv' /\ MutationInv'
      BY BudgetInductive, LifecycleInductive, PauseInductive, MutationInductive
         DEF RunnerInv
  <1>3. CompletionInv' /\ PresenceInv' /\ CompletionGivenInv'
      BY CompletionInductive, PresenceInductive, CompletionGivenInductive
         DEF RunnerInv
  <1>4. ~Relentless => SettledInv' /\ ExitInv'
      BY SettledInductive, ExitInductive DEF RunnerInv
  <1> QED
      BY <1>1, <1>2, <1>3, <1>4 DEF RunnerInv

LEMMA RunnerInvInitially == ASSUME Init PROVE RunnerInv
  <1>1. BudgetInv /\ LifecycleInv /\ MutationInv
      BY DEF Init, BudgetInv, LifecycleInv, MutationInv, ResultTellsMutations
  <1>2. PauseInv /\ CompletionInv /\ PresenceInv
      BY DEF Init, PauseInv, PausedStepActsNot, CompletionInv, PresenceInv
  <1>3. CompletionGivenInv /\ SettledInv /\ ExitInv
      BY DEF Init, CompletionGivenInv, NoLostCompletion, SettledInv, ExitInv
  <1> QED
      BY <1>1, <1>2, <1>3, InitiallyTyped DEF RunnerInv

LEMMA RunnerAlways == Spec => []RunnerInv
  BY RunnerInvInitially, RunnerInvInductive, PTL DEF Spec

-----------------------------------------------------------------------------
(* Unless the strategy broke its contract, a step that returns progress    *)
(* made exactly one operation, a completion (told again or not) stands for *)
(* exactly one, and idle, absent and stopped for none.                     *)
THEOREM ResultTellsOperations == Spec => []ResultTellsMutations
  <1>1. RunnerInv => ResultTellsMutations
      BY DEF RunnerInv, MutationInv
  <1> QED
      BY <1>1, RunnerAlways, PTL

(* At most one recovery is accepted between two receipts, for every caller: *)
(* a second unknown action is never settled by a second reload.            *)
THEOREM RecoveryBudget == Spec => []OneRecoveryPerReceipt
  <1>1. RunnerInv => OneRecoveryPerReceipt
      BY DEF RunnerInv, BudgetInv, OneRecoveryPerReceipt
  <1> QED
      BY <1>1, RunnerAlways, PTL

(* A lifecycle call that ended is never made again in the battle.          *)
THEOREM LifecycleCalledOnce == Spec => []LifecycleOnce
  <1>1. RunnerInv => LifecycleOnce
      BY DEF RunnerInv, LifecycleInv, LifecycleOnce
  <1> QED
      BY <1>1, RunnerAlways, PTL

(* A pause that spans a step keeps it from every operation.                *)
THEOREM PauseHolds == Spec => []PausedStepActsNot
  <1>1. RunnerInv => PausedStepActsNot
      BY DEF RunnerInv, PauseInv, PausedStepActsNot
  <1> QED
      BY <1>1, RunnerAlways, PTL

(* Completion is reported only of a battle that was left, and a completion *)
(* the runner was given is never reported as missing.                      *)
THEOREM CompletionIsReal == Spec => [](CompletedMeansLeft /\ NoLostCompletion)
  <1>1. RunnerInv => CompletedMeansLeft /\ NoLostCompletion
      BY DEF RunnerInv, CompletionInv, CompletionGivenInv, CompletedMeansLeft
  <1> QED
      BY <1>1, RunnerAlways, PTL

(* A caller that stops on errors never acts over an unsettled action and   *)
(* never has the final control clicked twice.                              *)
THEOREM NothingActsOverUnsettled ==
    Spec => [](~Relentless => SettledBeforeActing /\ FinalControlClickedOnce)
  <1>1. RunnerInv => (~Relentless => SettledBeforeActing /\ FinalControlClickedOnce)
      BY DEF RunnerInv, SettledInv, ExitInv, SettledBeforeActing,
             FinalControlClickedOnce
  <1> QED
      BY <1>1, RunnerAlways, PTL
=============================================================================
