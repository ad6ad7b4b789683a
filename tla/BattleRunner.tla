---------------------------- MODULE BattleRunner ----------------------------
(***************************************************************************)
(* The cooperative runner of one battle (runner.py, BattleRunner): every   *)
(* step probes the page, resolves a PonyChart challenge, and performs at   *)
(* most one operation that changes the battle.                             *)
(*                                                                         *)
(* One action is what Python does between two awaits.  The step lock is    *)
(* held whenever pc is not "idle".  A submitted action is one step here:   *)
(* its own protocol is ElementAction, and what the runner learns of it is  *)
(* the way it ended.  The strategy is the application's: it may submit and *)
(* answer what it likes, but lets an error of what it submits pass.        *)
(***************************************************************************)
EXTENDS Naturals

CONSTANTS Relentless,  \* the caller steps on after an error or a cancellation
          MaxBattles   \* battles one runner is reset for

ASSUME RunnerAssumption == Relentless \in BOOLEAN /\ MaxBattles \in Nat \ {0}

VARIABLES
    \* the page, the server and the user
    page,       \* what a presence probe finds in the tab's document
    stage,      \* the battle as the server knows it
    late,       \* an unsettled action whose request may still be played
    paused,     \* the control panel's pause flag
    battles,    \* battles started so far
    \* the runner
    pc,         \* the await a step stands at
    then,       \* what a finished challenge check goes on with
    alive,      \* the last parse found a live monster
    prepared,   \* the phase the last probe of the page returned
    result,     \* what the last step returned
    code,       \* the diagnostic code of the last error
    presence,   \* _presence_initialized
    lifecycle,  \* _strategy_initialized and its cached error
    readiness,  \* _state_readiness_expires_at
    transition, \* _transition_pending
    recovery,   \* _recovery_pending_receipt
    completed,  \* _completed
    observed,   \* the session's _completion_observed
    \* history
    mutations,  \* operations this step submitted, a challenge that ended included;
                \* a completion told again still stands for the exit it was told of
    strategy,   \* "waited" or "acted" in this step; "broke" the contract of
                \* BattleStrategy: one operation at most, and an answer that says so
    pausedThroughout, \* the pause flag was up during the whole step
    unresolved, \* an action has neither receipt nor accepted recovery
    recoveries, \* accepted recoveries since the last receipt it was told of
    starts,     \* lifecycle calls that ended, in this battle
    exits,      \* clicks on the final control, in this battle
    accepted    \* a probe gave the runner a completion phase, in this battle

envVars == <<page, stage, late, paused, battles>>
flowVars == <<pc, then, alive, prepared, result, code>>
stateVars == <<presence, lifecycle, readiness, transition, recovery, completed,
               observed>>
historyVars == <<mutations, strategy, pausedThroughout, unresolved, recoveries,
                 starts, exits, accepted>>
vars == <<envVars, flowVars, stateVars, historyVars>>

Stages == {"fighting", "challenged", "floorCleared", "won", "left"}
Pages == {"absent", "shell", "active", "next", "complete", "pony", "ponyAlone"}
Challenges == {"pony", "ponyAlone"}
Phases == {"absent", "challenge", "notReady", "active", "nextFloor", "complete"}
Results == {"none", "progress", "idle", "absent", "stopped", "completed",
            "raised", "cancelled"}
Codes == {"none", "missing", "readiness", "exhausted", "unknown",
          "completionUnknown", "lifecycle", "interrupted"}

(* What a document may show of a stage: nothing while it navigates, the    *)
(* bare battle element while it renders, and then the stage itself.        *)
Shows(s) == {"absent"} \cup
    CASE s = "fighting"     -> {"shell", "active"}
      [] s = "challenged"   -> {"shell", "pony", "ponyAlone"}
      [] s = "floorCleared" -> {"shell", "next"}
      [] s = "won"          -> {"shell", "complete"}
      [] s = "left"         -> {}

(* Where a played turn, a played next-floor request and an answered or     *)
(* expired challenge lead.                                                 *)
After(action) ==
    CASE action = "turn"      -> {"fighting", "challenged", "floorCleared", "won"}
      [] action = "floor"     -> {"fighting", "challenged"}
      [] action = "challenge" -> {"fighting"}

Plays(action, s) == \/ action = "turn" /\ s = "fighting"
                    \/ action = "floor" /\ s = "floorCleared"
                    \/ action = "challenge" /\ s = "challenged"

(* The deadline _state_readiness_remaining demands is running.             *)
DeadlineRuns ==
    \/ pc \in {"probe", "parse", "confirm"}
    \/ pc = "check" /\ then = "dispatch" /\ prepared = "absent"
    => readiness # "off"

EnvType ==
    /\ page \in Pages /\ stage \in Stages /\ late \in {"none", "turn", "floor"}
    /\ paused \in BOOLEAN /\ battles \in 1 .. MaxBattles

FlowType ==
    /\ pc \in {"idle", "check", "inspect", "probe", "parse", "confirm",
               "lifecycle", "decide", "floor", "recover", "ack"}
    /\ then \in {"inspect", "active", "completion", "deadline", "dispatch"}
    /\ alive \in BOOLEAN /\ prepared \in Phases
    /\ result \in Results /\ code \in Codes

StateType ==
    /\ presence \in BOOLEAN /\ lifecycle \in {"pending", "done", "failed"}
    /\ readiness \in {"off", "on", "expired"}
    /\ transition \in BOOLEAN /\ recovery \in BOOLEAN
    /\ completed \in BOOLEAN /\ observed \in BOOLEAN

HistoryType ==
    /\ mutations \in 0 .. 2 /\ strategy \in {"waited", "acted", "broke"}
    /\ pausedThroughout \in BOOLEAN
    /\ unresolved \in BOOLEAN /\ recoveries \in 0 .. 2 /\ starts \in 0 .. 2
    /\ exits \in 0 .. 2 /\ accepted \in BOOLEAN

(* Every variable has its type, and no probe or absent page meets the      *)
(* RuntimeError of a readiness deadline that was not started.              *)
TypeOK == EnvType /\ FlowType /\ StateType /\ HistoryType /\ DeadlineRuns

Init ==
    /\ stage \in Stages /\ page \in Shows(stage)
    /\ late = "none" /\ paused \in BOOLEAN /\ battles = 1
    /\ pc = "idle" /\ then = "inspect" /\ alive = FALSE /\ prepared = "absent"
    /\ result = "none" /\ code = "none"
    /\ presence = FALSE /\ lifecycle = "pending" /\ readiness = "off"
    /\ transition = FALSE /\ recovery = FALSE /\ completed = FALSE
    /\ observed = FALSE
    /\ mutations = 0 /\ strategy = "waited"
    /\ pausedThroughout = FALSE /\ unresolved = FALSE
    /\ recoveries = 0 /\ starts = 0 /\ exits = 0 /\ accepted = FALSE

Up(n) == IF n < 2 THEN n + 1 ELSE 2   \* history counters saturate

(* An operation is submitted: by the strategy while it decides.            *)
Submits ==
    /\ mutations' = Up(mutations)
    /\ strategy' = IF pc # "decide" THEN strategy
                   ELSE IF strategy = "waited" THEN "acted" ELSE "broke"

-----------------------------------------------------------------------------
(* Control flow shared by the actions.                                     *)

Return(r) == pc' = "idle" /\ result' = r /\ code' = "none" /\ UNCHANGED then
Raise(c) == pc' = "idle" /\ result' = "raised" /\ code' = c /\ UNCHANGED then
Go(p) == pc' = p /\ UNCHANGED <<then, result, code>>
Check(next) == pc' = "check" /\ then' = next /\ UNCHANGED <<result, code>>

(* _defer_if_paused: a local read of the flag, in front of an operation.   *)
PauseGate(next) == IF paused THEN Return("idle") ELSE Go(next)

DeadlineError == Raise(IF transition THEN "missing" ELSE "readiness")

(* The head of the step loop: a new readiness deadline starts only after a *)
(* challenge check and a pause gate, a running one goes on.                *)
LoopTop ==
    CASE readiness = "off"     -> Check("deadline")
      [] readiness = "on"      -> Go("probe")
      [] readiness = "expired" -> DeadlineError

(* A receipt, an accepted recovery or a resolved challenge.                *)
Progress == Return("progress") /\ readiness' = "off"

-----------------------------------------------------------------------------
(* The caller.                                                             *)

(* run_current steps on after progress and idleness only.                  *)
MayStep == Relentless \/ result \in {"none", "progress", "idle", "completed"}

Step ==
    /\ pc = "idle" /\ MayStep
    /\ pausedThroughout' = paused
    /\ \/ completed /\ Return("completed") /\ UNCHANGED <<mutations, strategy>>
       \/ /\ ~completed
          /\ mutations' = 0 /\ strategy' = "waited"
          /\ IF presence THEN LoopTop ELSE Check("inspect")
    /\ UNCHANGED <<envVars, stateVars, alive, prepared, unresolved, recoveries,
                   starts, exits, accepted>>

(* reset_for_next_battle, and the launcher's next battle.                  *)
NextBattle ==
    /\ pc = "idle" /\ completed /\ battles < MaxBattles
    /\ battles' = battles + 1 /\ stage' = "fighting" /\ result' = "none"
    /\ page' \in Shows("fighting") \ {"absent"}
    /\ presence' = FALSE /\ lifecycle' = "pending" /\ readiness' = "off"
    /\ transition' = FALSE /\ recovery' = FALSE /\ completed' = FALSE
    /\ recoveries' = 0 /\ starts' = 0 /\ exits' = 0 /\ accepted' = FALSE
    /\ UNCHANGED <<late, paused, pc, then, alive, prepared, code, observed,
                   mutations, strategy, pausedThroughout, unresolved>>

(* The caller cancels the step.  What was submitted may have been played.  *)
Cancel ==
    /\ pc # "idle"
    /\ pc' = "idle" /\ result' = "cancelled" /\ code' = "none"
    /\ \/ UNCHANGED <<stage, late, mutations, strategy, unresolved, exits>>
       \/ /\ pc \in {"decide", "floor"} /\ unresolved' = TRUE /\ Submits
          /\ late' = (IF pc = "floor" THEN "floor" ELSE "turn")
          /\ UNCHANGED <<stage, exits>>
       \/ /\ pc = "ack" /\ page = "complete" /\ exits' = Up(exits) /\ Submits
          /\ stage' \in {stage, "left"}
          /\ UNCHANGED <<late, unresolved>>
    /\ UNCHANGED <<page, paused, battles, then, alive, prepared, stateVars,
                   pausedThroughout, recoveries, starts, accepted>>

-----------------------------------------------------------------------------
(* The challenge check and what follows when no challenge is present.      *)

(* Faulty variant: the step goes on after an answered challenge.           *)
ResolvedAndOn == Go("probe") /\ UNCHANGED readiness

(* _confirmed_progress after a resolved challenge ends the step.           *)
Resolved == Progress

(* Answered and received, or expired.                                      *)
ResolveChallenge ==
    /\ pc = "check" /\ page \in Challenges
    /\ Submits
    /\ stage' = (IF Plays("challenge", stage) THEN "fighting" ELSE stage)
    /\ page' \in Shows(stage')
    /\ Resolved
    /\ UNCHANGED <<late, paused, battles, alive, prepared, presence, lifecycle,
                   transition, recovery, completed, observed, pausedThroughout,
                   unresolved, recoveries, starts, exits, accepted>>

ClearTransition == transition' = FALSE

NoChallengeYet(next) == pc = "check" /\ page \notin Challenges /\ then = next

BeforeInspection ==
    /\ NoChallengeYet("inspect") /\ PauseGate("inspect")
    /\ UNCHANGED <<envVars, alive, prepared, stateVars, historyVars>>

(* An active battle whose first challenge check is done.                   *)
BattleFound ==
    /\ NoChallengeYet("active")
    /\ presence' = TRUE /\ ClearTransition
    /\ LoopTop
    /\ UNCHANGED <<envVars, alive, prepared, lifecycle, readiness, recovery,
                   completed, observed, historyVars>>

CompletionFound ==
    /\ NoChallengeYet("completion") /\ PauseGate("ack")
    /\ UNCHANGED <<envVars, alive, prepared, stateVars, historyVars>>

StartDeadline ==
    /\ NoChallengeYet("deadline") /\ PauseGate("probe")
    /\ readiness' = IF paused THEN "off" ELSE "on"
    /\ UNCHANGED <<envVars, alive, prepared, presence, lifecycle, transition,
                   recovery, completed, observed, historyVars>>

-----------------------------------------------------------------------------
(* Reading the page.                                                       *)

(* inspect_battle_presence, and what the runner makes of its answer.       *)
Inspect ==
    /\ pc = "inspect"
    /\ CASE page = "absent"   -> Return("absent") /\ UNCHANGED observed
         [] page = "complete" -> Check("completion") /\ observed' = TRUE
         [] OTHER             -> Check("active") /\ observed' = FALSE
    /\ UNCHANGED <<envVars, alive, prepared, presence, lifecycle, readiness,
                   transition, recovery, completed, mutations, strategy,
                   pausedThroughout, unresolved, recoveries, starts, exits, accepted>>

(* Faulty variant: the deadline starts anew with each step.                *)
DeferAnew == Return("idle") /\ readiness' = "off"

(* _defer_state_not_ready reads the clock once more.                       *)
Defer == \/ Return("idle") /\ UNCHANGED readiness
         \/ Raise("readiness") /\ readiness' = "expired"

(* The runner is given a phase within the readiness deadline.              *)
Given(phase) ==
    /\ prepared' = phase
    /\ accepted' = (accepted \/ phase = "complete")
    /\ IF phase = "notReady"
       THEN Defer /\ UNCHANGED transition
       ELSE /\ Check("dispatch")
            /\ IF phase = "absent" THEN UNCHANGED <<readiness, transition>>
               ELSE readiness' = "off" /\ ClearTransition

Late == DeadlineError /\ UNCHANGED <<prepared, accepted, readiness, transition>>

(* One read of the page by prepare_turn_state: what it remembers, and then *)
(* outcome, unless the answer is late.                                     *)
Reads(outcome) ==
    /\ observed' = (observed \/ page = "complete")
    /\ IF readiness = "expired" THEN Late ELSE outcome
    /\ UNCHANGED <<envVars, presence, lifecycle, recovery, completed, mutations,
                   strategy, pausedThroughout, unresolved, recoveries, starts, exits>>

Control == [complete |-> "complete", next |-> "nextFloor", pony |-> "challenge"]
Controls == DOMAIN Control

Probe ==
    /\ pc = "probe" /\ UNCHANGED alive
    /\ Reads(CASE page \in {"absent", "ponyAlone"} -> Given("absent")
               [] page \in Controls -> Given(Control[page])
               [] OTHER -> /\ Go("parse")
                           /\ UNCHANGED <<prepared, accepted, readiness, transition>>)

(* The content read and its parse.                                         *)
Parse ==
    /\ pc = "parse" /\ Go("confirm") /\ alive' = (page = "active")
    /\ UNCHANGED <<envVars, prepared, stateVars, historyVars>>

(* The read after a parse error only looks for a control.                  *)
ParseErrs ==
    /\ pc = "parse" /\ UNCHANGED alive
    /\ Reads(IF page \in Challenges THEN Given("challenge")
             ELSE IF page \in Controls THEN Given(Control[page])
             ELSE /\ Raise("interrupted")
                  /\ UNCHANGED <<prepared, accepted, readiness, transition>>)

(* The read after the parse: what was parsed is given only if the page     *)
(* still shows no control.                                                 *)
Confirm ==
    /\ pc = "confirm" /\ UNCHANGED alive
    /\ Reads(CASE page = "absent" -> Given("absent")
               [] page = "ponyAlone" -> Given("challenge")
               [] page \in Controls -> Given(Control[page])
               [] OTHER -> Given(IF alive THEN "active" ELSE "notReady"))

-----------------------------------------------------------------------------
(* The phase a probe gave, after the challenge check that follows it.      *)

DispatchChallenge ==
    /\ NoChallengeYet("dispatch") /\ prepared = "challenge"
    /\ LoopTop
    /\ UNCHANGED <<envVars, alive, prepared, stateVars, historyVars>>

DispatchCompletion ==
    /\ NoChallengeYet("dispatch")
    /\ \/ prepared = "complete" /\ UNCHANGED <<readiness, transition>>
       \/ /\ prepared = "absent" /\ observed
          /\ readiness' = "off" /\ ClearTransition
    /\ PauseGate("ack")
    /\ UNCHANGED <<envVars, alive, prepared, presence, lifecycle, recovery,
                   completed, observed, historyVars>>

DispatchAbsent ==
    /\ NoChallengeYet("dispatch") /\ prepared = "absent" /\ ~observed
    /\ transition' = TRUE
    /\ IF readiness = "expired" THEN Raise("missing") ELSE Return("idle")
    /\ UNCHANGED <<envVars, alive, prepared, presence, lifecycle, readiness,
                   recovery, completed, observed, historyVars>>

DispatchFloor ==
    /\ NoChallengeYet("dispatch") /\ prepared = "nextFloor" /\ PauseGate("floor")
    /\ UNCHANGED <<envVars, alive, prepared, stateVars, historyVars>>

DispatchActive ==
    /\ NoChallengeYet("dispatch") /\ prepared = "active"
    /\ IF ~paused /\ lifecycle = "failed" THEN Raise("lifecycle")
       ELSE PauseGate(IF lifecycle = "done" THEN "decide" ELSE "lifecycle")
    /\ UNCHANGED <<envVars, alive, prepared, stateVars, historyVars>>

-----------------------------------------------------------------------------
(* The operations.                                                         *)

FailureCached == lifecycle' = "failed"

(* on_battle_started returns or fails; an error of the browser generation  *)
(* (and a cancellation) leaves it pending.                                 *)
LifecycleRuns ==
    /\ pc = "lifecycle"
    /\ \/ starts' = Up(starts) /\ lifecycle' = "done" /\ Go("decide")
       \/ starts' = Up(starts) /\ FailureCached /\ Raise("lifecycle")
    /\ UNCHANGED <<envVars, alive, prepared, presence, readiness, transition,
                   recovery, completed, observed, mutations, strategy,
                   pausedThroughout, unresolved, recoveries, exits, accepted>>

Operation == [decide |-> "turn", floor |-> "floor"]

(* The control an operation clicks must still be there.                    *)
Clickable == \/ pc = "decide" /\ page = "active"
             \/ pc = "floor" /\ page = "next"

(* The session returns to who submitted: the operation has its receipt.    *)
Received ==
    /\ Clickable /\ Plays(Operation[pc], stage)
    /\ stage' \in After(Operation[pc]) /\ page' \in Shows(stage')
    /\ Submits

(* A receipt the runner is told of ends an incident.                       *)
Confirmed ==
    /\ recovery' = FALSE /\ recoveries' = 0
    /\ Progress
    /\ UNCHANGED <<late, paused, battles, alive, prepared, presence, lifecycle,
                   transition, completed, observed, pausedThroughout, unresolved,
                   starts, exits, accepted>>

FloorConfirmed == pc = "floor" /\ Received /\ Confirmed

TurnReceived ==
    /\ pc = "decide" /\ Received /\ Go("decide")
    /\ UNCHANGED <<late, paused, battles, alive, prepared, stateVars,
                   pausedThroughout, unresolved, recoveries, starts, exits, accepted>>

(* take_turn answers, and is believed.                                     *)
Answers(did) ==
    /\ pc = "decide"
    /\ strategy' = IF strategy = did THEN did ELSE "broke"
    /\ UNCHANGED <<page, stage, mutations>>

DecisionActed == Answers("acted") /\ Confirmed

NoDecisionToAct ==
    /\ Answers("waited") /\ \/ Return("stopped") \/ Return("idle")
    /\ UNCHANGED <<late, paused, battles, alive, prepared, stateVars,
                   pausedThroughout, unresolved, recoveries, starts, exits, accepted>>

Exhausted(eligible) ==
    Raise(IF eligible \/ recovery THEN "exhausted" ELSE "unknown")

(* Faulty variant: a second incident is reconciled like the first.         *)
RecoverAgain(eligible) == IF eligible THEN Go("recover") ELSE Exhausted(eligible)

(* _reconcile_unknown_action: one recovery between two receipts.           *)
Reconcile(eligible) ==
    IF eligible /\ ~recovery THEN Go("recover") ELSE Exhausted(eligible)

(* BattleActionOutcomeUnknownError: the request may be played at any time. *)
OutcomeUnknown ==
    /\ Clickable
    /\ \E eligible \in BOOLEAN : Reconcile(eligible)
    /\ Submits /\ unresolved' = TRUE
    /\ \/ late' = Operation[pc] /\ UNCHANGED stage
       \/ Plays(Operation[pc], stage) /\ stage' \in After(Operation[pc]) /\ UNCHANGED late
    /\ UNCHANGED <<page, paused, battles, alive, prepared, stateVars,
                   pausedThroughout, recoveries, starts, exits, accepted>>

(* recover_unknown_action verified a reloaded document.                    *)
RecoveryAccepted ==
    /\ pc = "recover"
    /\ page' \in Shows(stage) \cap {"active", "next", "complete", "pony"}
    /\ recovery' = TRUE /\ recoveries' = Up(recoveries) /\ unresolved' = FALSE
    /\ observed' = FALSE /\ accepted' = FALSE
    /\ Progress
    /\ UNCHANGED <<stage, late, paused, battles, alive, prepared, presence,
                   lifecycle, transition, completed, mutations, strategy,
                   pausedThroughout, starts, exits>>

(* Faulty variant: the caller is told of progress all the same.            *)
RefusedIsProgress == Progress

RefusedExhausts == Raise("exhausted") /\ UNCHANGED readiness

RecoveryRefused ==
    /\ pc = "recover" /\ RefusedExhausts
    /\ UNCHANGED <<envVars, alive, prepared, presence, lifecycle, transition,
                   recovery, completed, observed, historyVars>>

(* The final control is clicked and the exit is confirmed.                 *)
ExitConfirmed ==
    /\ pc = "ack" /\ page = "complete" /\ stage = "won"
    /\ exits' = Up(exits) /\ Submits
    /\ stage' = "left" /\ page' = "absent"
    /\ completed' = TRUE /\ Return("completed")
    /\ UNCHANGED <<late, paused, battles, alive, prepared, presence, lifecycle,
                   readiness, transition, recovery, observed, pausedThroughout,
                   unresolved, recoveries, starts, accepted>>

(* Faulty variants: an unknown exit completes the battle, or is retried.   *)
UnknownExitCompletes == completed' = TRUE /\ Return("completed")
UnknownExitRaises == UNCHANGED completed /\ Raise("completionUnknown")

ExitUnknown ==
    /\ pc = "ack"
    /\ \/ page # "complete" /\ UNCHANGED <<stage, exits, mutations, strategy>>
       \/ /\ page = "complete" /\ exits' = Up(exits) /\ Submits
          /\ stage' \in {stage, "left"}
    /\ UnknownExitRaises
    /\ UNCHANGED <<page, late, paused, battles, alive, prepared, presence,
                   lifecycle, readiness, transition, recovery, observed,
                   pausedThroughout, unresolved, recoveries, starts, accepted>>

(* Any await raises: the step is interrupted.  What the strategy or the    *)
(* floor's click had submitted stays without a receipt.                    *)
Fails ==
    /\ pc # "idle" /\ Raise("interrupted")
    /\ \/ UNCHANGED <<late, unresolved, mutations, strategy>>
       \/ /\ Clickable /\ unresolved' = TRUE /\ late' = Operation[pc]
          /\ Submits
    /\ UNCHANGED <<page, stage, paused, battles, alive, prepared, stateVars,
                   pausedThroughout, recoveries, starts, exits, accepted>>

-----------------------------------------------------------------------------
(* The page, the server, the user and the clock.                           *)

Reveal ==
    /\ page' \in Shows(stage) \ {page}
    /\ UNCHANGED <<stage, late, paused, battles, flowVars, stateVars, historyVars>>

LateExecution ==
    /\ late # "none" /\ late' = "none"
    /\ stage' \in IF Plays(late, stage) THEN After(late) ELSE {stage}
    /\ UNCHANGED <<page, paused, battles, flowVars, stateVars, historyVars>>

ChallengeExpires ==
    /\ stage = "challenged" /\ stage' \in After("challenge")
    /\ UNCHANGED <<page, late, paused, battles, flowVars, stateVars, historyVars>>

TogglePause ==
    /\ paused' = ~paused /\ pausedThroughout' = FALSE
    /\ UNCHANGED <<page, stage, late, battles, flowVars, stateVars, mutations,
                   strategy, unresolved, recoveries, starts, exits, accepted>>

Expire ==
    /\ readiness = "on" /\ readiness' = "expired"
    /\ UNCHANGED <<envVars, flowVars, presence, lifecycle, transition, recovery,
                   completed, observed, historyVars>>

Environment == \/ Reveal \/ LateExecution \/ ChallengeExpires \/ TogglePause

(* What a step does once it runs, each await bounded by a timeout.         *)
Runner ==
    \/ ResolveChallenge \/ BeforeInspection \/ BattleFound \/ CompletionFound
    \/ StartDeadline \/ Inspect \/ Probe \/ Parse \/ ParseErrs \/ Confirm
    \/ DispatchChallenge \/ DispatchCompletion \/ DispatchAbsent \/ DispatchFloor
    \/ DispatchActive \/ LifecycleRuns \/ FloorConfirmed \/ TurnReceived
    \/ DecisionActed \/ NoDecisionToAct \/ OutcomeUnknown \/ RecoveryAccepted
    \/ RecoveryRefused \/ ExitConfirmed \/ ExitUnknown \/ Fails

Next == Step \/ NextBattle \/ Cancel \/ Runner \/ Environment \/ Expire

Spec == Init /\ [][Next]_vars

(* run_current calls step again, every await of a step is bounded, and     *)
(* time passes.                                                            *)
FairSpec == Spec /\ WF_vars(Step) /\ WF_vars(Runner) /\ WF_vars(Expire)

-----------------------------------------------------------------------------
(* Properties.                                                             *)

(* A result tells what was done to the battle (docstring of step): progress *)
(* and completion stand for exactly one operation, received, recovered or a *)
(* challenge that ended, and idle, absent and stopped for none; a completion *)
(* told again still stands for its one exit, and no step makes two.  Only a  *)
(* step whose strategy broke its contract (strategy.py:9-13) is excepted:    *)
(* the runner does not check what take_turn answers.                         *)
ResultTellsMutations ==
    strategy # "broke" =>
        /\ mutations <= 1
        /\ pc = "idle" /\ result \in {"progress", "completed"} => mutations = 1
        /\ pc = "idle" /\ result \in {"idle", "absent", "stopped"} => mutations = 0

(* Between two receipts the runner is told of, at most one unknown action  *)
(* is settled by a reload, whatever errors and cancellations the caller    *)
(* steps over.  (A recovery that was refused settles nothing and is not    *)
(* counted: a caller that steps on after it may have another one tried.)   *)
OneRecoveryPerReceipt == recoveries <= 1

(* A caller that stops on errors never has a decision taken or a control   *)
(* clicked while an earlier action has neither receipt nor recovery.       *)
SettledBeforeActing == pc \in {"decide", "floor", "ack"} => ~unresolved

(* A pause that lasts from before a step to its end keeps the step from    *)
(* every operation; answering a challenge is the documented exception.     *)
PausedStepActsNot ==
    pausedThroughout => pc \notin {"lifecycle", "decide", "floor", "recover", "ack"}

(* A step reports completion only of a battle that was left.               *)
CompletedMeansLeft == result = "completed" => stage = "left"

(* A caller that stops on errors never has the final control clicked twice.*)
FinalControlClickedOnce == exits <= 1

(* Once a probe gave the runner a completion phase, a document that goes   *)
(* missing is never reported as missing completion evidence.  (What only   *)
(* the inspection of a resumed battle saw is forgotten if the next         *)
(* inspection finds an active battle.)                                     *)
NoLostCompletion == pc = "idle" /\ code = "missing" => ~accepted

(* A lifecycle call that returned or failed is never made again in the     *)
(* battle, whatever errors and cancellations the caller steps over.        *)
LifecycleOnce == starts <= 1

(* An unpaused caller of run_current is not kept waiting forever by a      *)
(* page that stays blank or never leaves its loading shell.                *)
Terminal == pc = "idle" /\ result \notin {"none", "progress", "idle"}
GivesUp == <>[](page \in {"absent", "shell"} /\ ~paused) => <>[]Terminal

(* README: a document that stays unready through the deadline raises the   *)
(* readiness error and is not reported as absent.                          *)
UnreadyIsNotMissing == code = "missing" => prepared # "notReady"
=============================================================================
