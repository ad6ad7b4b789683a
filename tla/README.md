# Verification of hvbattle

hvbattle plays HentaiVerse battles through a browser tab.  It clicks controls of a page it
does not own, over a connection that may answer late or never, against a server that plays
whatever reaches it.  Its central promise is that one decision is submitted at most once, is
on a durable audit log before it can have an effect, and is then either confirmed by evidence
read from the page or reported as an unknown outcome that nobody replays.  This directory
states that promise, and the promises of the components around it, in TLA+; TLC checks them
on small instances and TLAPS proves the central ones for every value of the constants.

Paths below are relative to the package `src/src/hvbattle/` unless they name another place.

## 1. The system

| Component | State it keeps | Operations | Talks to |
|---|---|---|---|
| Element action manager (`hv_battle_action_manager.py`) | action lock, the in-page monitor, what it saw of the receipt | turn click, next-floor click, final-exit click, recovery reads, reload | page, audit trail, dialog tracker |
| Audit (`audit.py`) | trail flags per action, the bus's failure latch, the caller's durable log | record intent, submitted, not submitted, receipt, unknown, reconciled | every mutating component |
| Runner (`runner.py`) | presence, lifecycle, readiness deadline, recovery budget, cached completion | `step`, `run_current`, `reset_for_next_battle` | session, strategy, pause gate |
| Recovery (`recovery.py`) | dialogs bound to the current action | observe, reload once, wait for a stable state, clear hooks | action manager, session |
| Session (`session.py`) | caches of one battle, completion observed | presence and turn-state probes, dialog handler, delegation | all the others |
| Evidence contracts (`contracts.py`) | immutable | which evidence allows recovery | manager, runner, recovery |
| Battle state (`battle_state.py`) | last snapshot, log occurrences | content read, parse, log delta | session |
| Launcher (`battle_launcher.py`) | none between calls | list and start Arena, Ring of Blood, GrindFest | page, audit |
| PonyChart (`hv_battle_ponychart.py`) | publication of the classifier, challenge attempt | resolve a timed challenge, refresh the model | workers, store process, audit |
| Inference and retention workers (`_ponychart_workers.py`) | worker processes, leases, active generation | prepare, activate, reserve, predict, retire, close | PonyChart |
| Model store (`ponychart_model_store.py`) and its process (`_ponychart_store_process.py`) | generation directories, `current.json`, file lock | bootstrap, refresh, compare-and-commit | other processes on the same cache |
| Control panel (`control_panel.py`) | GUI process, RPC sequence, pause flag | RPCs, shutdown | runner's pause gate |
| Skill, item and buff managers | none between calls | choose a control, click it through the manager | action manager |

Interaction.  The caller awaits `BattleRunner.step`; the runner probes the page through the
session, resolves a PonyChart challenge, asks the strategy for a decision and lets the action
manager submit it.  All Python runs on one event loop, so code between two `await`s is
atomic and everything else (page, server, dialogs, pause button, deadlines) may move at every
`await`.  The model store and the control panel add real processes and threads.

What is hard: a click that raises but lands; an answer that reaches the tab before the page
shows it; a second dispatch of the same action; a navigation that removes the monitor; an
audit write that fails after it reached the disk; a cancellation anywhere; a request still
pending on the server while the tab is reloaded; a challenge that appears between two probes;
pause toggled in the middle of a step; deadlines that pass while evidence is being weighed; a
battle form whose answer is lost; a challenge whose image changes under the answer; a worker that is
retired, dies or is closed under a prediction; an answer of the panel's child that comes too late.

## 2. Modules

### 2.1 One action: `AuditTrail`, `BattlePage`, `ElementAction`, `ActionLifecycle`

`AuditTrail` is `_ActionAuditTrail`: a trail is the set of its true flags; `Accepts` holds the
early returns of the six methods, so `Published` is what a call writes and `Marked` what it
leaves set.

`BattlePage` is what the manager's probes look at: the document (document id, battle node,
ready state, log revision, round line, completion pane, challenge), the monitor injected into
it by `_ACTION_STATE_JS`, the server behind it and, per action token, the requests its click
caused.  The monitor is translated from the JavaScript; the document, the network and the
server are external and are as free as the code's defences assume: a request may be sent
twice while it is pending, executed and then lost, answered abnormally, answered before the
page applies the answer; the document may be replaced at any moment.

`ElementAction` is the two methods `click_and_wait_log_locator` (a turn) and
`click_and_wait_transition_locator` (a next floor), one action per `await`:

| pc | code | action |
|---|---|---|
| `idle` | the lock is free | `Begin`, `AcceptReload` |
| `select` | `_select_for_single_click` | `Select` |
| `arm` | the arming probe | `Arm` |
| `intend` | `record_intent` | `RecordIntent` |
| `start` | `_begin_submitted_action` | `StartClick`, `AbortStart` |
| `clicking` | `_click` | `ClickReturns`, `ClickErrs`, `Interrupted` |
| `probe` | the receipt loop | `TurnProbe`, `FloorProbe`, `ProbeErrs`, `StopProbing` |
| `final` | `_final_action_probe` | `TurnFinalProbe`, `StopProbing` |
| `cleanup` | `_cleanup_action_monitor` | `Cleanup` |

A probe and the Python that follows it are one action: the probe returns a snapshot, and what
Python does with it touches nothing the page can see.  Time is abstract: a deadline may pass
at each place the code asks for it (`StopProbing`, `TooLate`, and the choice in `Leave`
between a cleanup and none).  A click that raises `ZendriverOperationTimeout` is a lost
browser generation (`Interrupted`), any other exception is `ClickErrs`, and the click may still
land afterwards (`DeliverClick`).  The dialog seen for the action and the age of a pending
request are chosen where the code reads them, while it builds the recovery evidence.

`MayBegin` is the runner's side of the contract: it goes on only after a confirmation, an
accepted recovery or an action that was given up before its click.

Two variables and one field of the page only record history: `sawDuplicate`, that a probe of the token returned two
dispatches; `page.floor`, the floor on display, which no probe can read; and `floorAt`, that floor when the control was found.
`ConfirmedFloorAdvanced` is stated by the floor on display, not by the server's at the click: the
request of an action that recovery has settled may be played late, and then the page the next action reads is a floor
behind the server, so that its evidence is of the floor it left and of none other.
`AcceptReload` stands for the recovery coordinator.

`ActionLifecycle` is the abstract promise: one token, one click under a recorded intent, at
most one unsettled token.  `ElementAction` implements it through the refinement mapping
`phase <- last event of the token's log`, `clicked <- clicks > 0`.

### 2.2 The runner: `BattleRunner`

`BattleRunner` is one cooperative `BattleRunner` object and the caller that steps it.  An
action is what Python does between two `await`s; `pc` names the `await` a step stands at, and
`pc # "idle"` is the step lock.

| pc | code (`runner.py`, `session.py`) | actions |
|---|---|---|
| `check` | `_resolve_ponychart_progress`, then what `then` says | `ResolveChallenge`, `BeforeInspection`, `BattleFound`, `CompletionFound`, `StartDeadline`, `Dispatch...` |
| `inspect` | `_ensure_presence_initialized` | `Inspect` |
| `probe`, `parse`, `confirm` | `prepare_turn_state`: probe, content read, second probe | `Probe`, `Parse`, `ParseErrs`, `Confirm` |
| `lifecycle` | `_ensure_strategy_initialized` | `LifecycleRuns` |
| `decide` | `strategy.take_turn`, what it submits and what it answers | `TurnReceived`, `DecisionActed`, `NoDecisionToAct`, `OutcomeUnknown`, `Fails` |
| `floor` | `go_next_floor` | `FloorConfirmed`, `OutcomeUnknown`, `Fails` |
| `recover` | `_reconcile_unknown_action` | `RecoveryAccepted`, `RecoveryRefused` |
| `ack` | `_acknowledge_completion` | `ExitConfirmed`, `ExitUnknown` |

A submitted action is one step here: its protocol is `ElementAction`, and the runner learns
only how it ended.  The page is what a probe finds in the tab; the server has its own
`stage` of the battle, which the page may show late, show as a bare shell, or not at all, and
it may still play a request whose outcome was unknown (`LateExecution`).  The user toggles
the pause flag at any time.  `Step` is the caller: with `Relentless = FALSE` it stops at an
error or a cancellation like `run_current`; with `TRUE` it steps on.  `NextBattle` is
`reset_for_next_battle`.  The readiness deadline is a flag that `Expire` raises.

The strategy is the application's code.  Its protocol (`strategy.py:9-13`) is at most one operation a turn,
and an answer that says whether there was one; the runner believes the answer (`runner.py:263-279`) and checks
neither.  The model lets a strategy submit as often as it likes and answer what it likes, and notes
in `strategy` when it broke the protocol: `ResultTellsMutations` excepts such a step and nothing else does.
Two things are assumed of it: that it lets the errors of what it submits pass, and that
`on_battle_started` submits nothing.

### 2.3 Recovery: `BattleRecovery`

`BattleRecovery` is one call of `BattleRecoveryCoordinator.recover` with eligible evidence.
A document has an identity, a realm, a ready state, a kind (what the presence markers and the
parse tell apart; a `shell` has the markers of an active battle and no live monster) and a
log revision.  Every probe is two reads (`FirstRead`, then the action that judges the
second): between them the tab may navigate, redraw, log or become ready.

| pc | code | actions |
|---|---|---|
| `observe` | `_observe_document_change` | `Observe` |
| `enable`, `loader`, `send`, `wait` | `reload_current_page`, `MainFrameDOMContentLoadedWaiter` | `Enable`, `ReadLoader`, `Reload`, `ReloadRejected`, `Loaded`, `WaitEnds` |
| `stable`, `inspect` | `_wait_for_stable_state` | `Stable`, `Inspect` |
| `clear` | `clear_page_action_state` | `Clear` |
| `verify` | the final probe and acceptance | `Verify` |

Any `await` may raise: a lost browser generation or a cancellation is raised to the caller,
any other error refuses the recovery (`AwaitErrs`).  `expired` is the recovery's wall-clock
deadline.  `streak` is history: how often in a row the probes returned one signature, counted
apart from the code's own `matches`.  `parsed` is the snapshot the session still holds from
before the click.

### 2.4 Model store: `ModelStore`

`ModelStore` is any number of processes that bootstrap and refresh one store
(`ponychart_model_store.py`) from one origin.  A file's bytes are the number of its version at
the origin, an ETag is that number or missing, and a generation (named in the code by the
hashes of its two files) is the pair of versions.  `op[p]` is one call: the step it is at, the
file whose turn it is, the pointer it read first, the ETags it saw before, during and after
the transfer, and the bytes it has.

| step | code | actions |
|---|---|---|
| `idle`, `adopt` | `load_or_bootstrap`, the first reads of `refresh` | `ReadPointer`, `Adopt` |
| `before`, `reread` | `_remote_metadata`, the second look at the pointer | `HeadBefore`, `ReRead` |
| `stage`, `during`, `after`, `validate` | `_prepare_download_stage` | `Stage`, `Download`, `HeadAfter`, `Validate` |
| `promote`, `rename`, `sync`, `load` | `_promote_prepared`, `_load_generation` | `Promote`, `Rename`, `SyncPromoted`, `Load` |
| `lock`, `replace`, `syncRoot` | the compare-and-commit of `_publish_prepared` | `Decide`, `Replace`, `SyncRoot` |
| `finish`, `peer` | the end of `_publish_prepared` | `Finish`, `LoadPeer` |

A read of the pointer under the lock is one step, because nothing another process can see
happens between its acquisition and its release.  `Fail` is every exception (deadline, I/O,
TLS, size, a candidate that does not load) and every kill, at any step.  The file system is the
one the code's fsyncs are written for: `gens` is what is visible, `durable` what a power loss
must leave, and `pending` the pointers it may leave.  What the origin's cache or a proxy may
do is left out: an answer describes the version the origin has at that moment.

### 2.5 Inference workers: `InferenceWorkers`

`InferenceWorkers` is `PonyChartInferenceOwner` (`_ponychart_workers.py`) with the callers that
`hv_battle_ponychart.py` gives it: predictions, one preload or refresh at a time, and
`close_ponychart_workers`.  `wk[w]` is one worker process and its bookkeeping (generation,
leases, retirement, who reaps it, its connection), `table`, `pending`,
`active`, `closing` and `starter` are the owner's fields of those names, and `op[c]` is the call of
one caller.  The callers share an event loop, so a step runs to the next `await`; spawning and
killing run in threads and are steps of their own.

| pc | code | actions |
|---|---|---|
| `idle` | `reserve`, `prepare_async`, `_close_at` | `Reserve`, `BeginPrepare`, `BeginClose` |
| `start`, `thread`, `spawn`, `ready` | `_prepare_async`, `_spawn`, `_spawn_supervised` | `Start`, `StartExpires`, `EnterSpawn`, `Spawned`, `SpawnFails`, `Ready`, `NotReady` |
| `queue`, `request` | `predict_reserved` | `Request`, `NoRequest`, `Answer`, `RequestFails` |
| `publish` | `_publish`, `activate` | `Publish` |
| `reap` | `_cleanup_state_async`, `_claim_cleanup`, `_terminate_process_async` | `ClaimReap`, `Reap`, `ReapFails`, `AwaitReaped`, `AfterReap` |
| `settle` | `_close_at` waiting for threads in `_spawn` | `CloseSettled`, `CloseExpires` |

A deadline or a cancellation is a choice at each `await`.  `Dies` ends a process by itself,
and a worker that could not be reaped stays owned, its process perhaps alive, but its connection is closed.  Three
things the code does are modelled and excepted by name rather than forbidden: a lease is
never returned if the challenge's deadline passes between `reserve` and `predict_reserved`
(`lost`; `hv_battle_ponychart.py:2446-2455`); a swap may retire a worker that a prediction is just starting, so that
prediction fails although README.md:138-140 lets predictions in flight finish (`caught`); and a
worker that died unnoticed keeps its place in the table, so later starts of its generation
are refused until it is reaped.

### 2.6 A PonyChart attempt: `PonyChartPage`, `PonyChartChallenge`

`PonyChartPage` is the tab: what the document shows (the riddle, the battle, or nothing yet),
the image requests so far, the receipt monitor of an attempt (`_ARM_PONYCHART_RECEIPT_JS`) with
its copy in the session storage, and the guard that watches the image during its capture
(`_ARM_PONYCHART_IMAGE_READY_JS`).  `RunScript` is `_SELECT_AND_SUBMIT_PONYCHART_JS`, one
uninterrupted run: it answers what stops it, or clicks.  A click records its events exactly,
in part, or not at all, and dispatches the form or not; only that exact evidence implies a
dispatch is assumed.  The challenge may vanish, the tab may leave it, the image may be
replaced, under the same URL too, and the storage may fail, all at any moment.

`PonyChartChallenge` is `PonyChart.check`, with the audit trail of the attempt:

| pc | code | actions |
|---|---|---|
| `idle` | `_check` | `Probe` |
| `arm` | `_arm_challenge_receipt_monitor` | `ArmMonitor` |
| `image`, `match`, `verify` | `_capture_pony_chart_image` | `ImageReady`, `MatchRequest`, `Verify`, `CaptureExpires` |
| `predict` | `_predict_labels`, `record_intent` | `Predict` |
| `select`, `ack` | `_select_and_submit_answer` | `SendScript`, `Land`, `Acknowledged`, `AckLost`, `SelectExpires` |
| `receipt` | `_wait_for_challenge_receipt` | `ProbeReceipt`, `ReceiptExpires` |
| `natural` | `_reconcile_natural_expiration` | `ProbeExpiration`, `ExpirationExpires` |

`Land` runs a script whenever the page comes to it, also after Python has stopped waiting; a
script that is never run is one that lands in no step.  `due` is the deadline of the phase at
hand.  The statuses of the script are abstracted to what Python distinguishes: absent,
submitted, one of the four that may be asked again, and the rest.  The events of a request are
assumed to arrive before the answer that found its image complete; later requests may or may
not be known yet.  Of the probes for a natural expiration, one that finds another origin, or
the challenge and the battle at once, ends the attempt as unresolved (`hv_battle_ponychart.py:2794-2799`); the model does not tell these
from the deadline (`ExpirationExpires`) or an error (`Interrupted`), which end it alike.

This is not a refinement of `ActionLifecycle`: the runner may call `check` again after an
attempt of unknown outcome, because a challenge that is still on display must be answered, so
attempt 2 may begin with attempt 1 unsettled.  What holds instead is that each attempt submits
at most once.  A failed attempt that consumed its image cannot capture the same request again
(`tracked.consumed`); that only costs the attempt.

### 2.7 Starting a battle: `BattleLauncher`

`BattleLauncher` is an application that visits battle lists, reads them, and submits forms
(`battle_launcher.py`), over a tab whose navigations may be replaced, lost or answered late and
a server that takes a form when it reaches it.  `op` is the launcher's operation, `wait` is
`MainFrameDOMContentLoadedWaiter`: the loader looked up before the trigger, whether it was triggered, the
loader that navigated since, and whether that one's DOM was built.

| pc | code | actions |
|---|---|---|
| `idle` | `goto_arena` and its like, `reconcile_startup_battle_route`, `list_...`, `start_...` | `Visit`, `Inspect`, `Start` |
| `look` | `_observe_navigation`, `_validate_observation_identity`, `_raise_if_blocked` | `Look` |
| `enable`, `trigger` | `lifecycle.enable`, `lifecycle.trigger` | `Enable`, `Navigate`, `SendScript` |
| `land` | `lifecycle.wait` in `_get_battle_route` | `Land` |
| `ready` | `_wait_for_battle_route_readiness` | `ProbeRoute` |
| `ack` | the evaluation of the form script | `RunScript`, `Acknowledged`, `AckLost` |
| `receipt` | `lifecycle.wait`, `_confirm_battle_form_receipt` | `Confirm` |

`due` counts the two deadlines of a submission, the pre-submit one and its own.  What blocks a
route is merged to `battle` (active or a challenge, the two markers a receipt may be) and
`ended` (completion or next floor).  A list either is as it was read, has changed, or has lost
the option: the Ring of Blood compares the whole list, the others only look for the option.
A navigation lands on what the server shows, or on a page of another realm or origin (`own` is
false), which may show anything and which the code neither reports nor takes for a receipt.
A refusal that arrives after the pre-submit deadline counts as a lost answer, as in the code.

The application stops after an unknown outcome, which README.md:92-94 requires of it
(`GivenUp`).  A receipt shows that a battle is on, and the code takes any active battle for one:
`ConfirmedIsBattle` says that one of the launcher's forms started it, possibly an earlier one, or
that another client of the account did.

### 2.8 The control panel: `ControlPanel`

`ControlPanel` is the parent's object, its Tk child, and the socket between them
(`control_panel.py`).  `life`, `rpc`, `shutdown`, `listener`, `channel`, `process` and `requestId` are the
fields and locks of the class; `child`, `paused`, `list` and `observed` those of `_run_gui`; `up` and
`down` the frames underway; `call[c]` a thread in `_rpc` and `close[d]` one in `_shutdown_owned`.

| where | code | actions |
|---|---|---|
| constructor | `__init__` | `Spawn`, `Accept`, `StartFails` |
| a call | `_rpc`, `_require_open_locked` | `Call`, `Send`, `NoLock`, `Receive`, `Unanswered` |
| the child | `handle_command`, `toggle_pause`, `_publish_checklist_selection`, `_close_gui` | `Handle`, `TogglePause`, `Tick`, `Gone`, `Ending` |
| shutdown | `aclose`, `destroy`, `_shutdown_owned` | `Close`, `Begin`, `TooLate`, `AskChild`, `ChildAnswers`, `Reap`, `LockAgain`, `Finish` |

A command the child refuses (`get_checklist_selection` of a list it does not have) is answered like any other: the
error is raised to the caller and the panel stays open.  `Unanswered` is the `EOFError`, `OSError` or
`TimeoutError` of `_rpc`; the other exceptions a frame could cause need one beyond the bounds or the encoding
both sides use, so they are left out.
Every wait is bounded in the code, so every wait may end in its timeout here.  `Gone` is every
end of the child that nobody asked for; a child that is gone counts as paused.  `clear` notes
whether the pause flag was clear at some moment of a call; `wish` and `told` note what the user
asked of a choice and whether an acknowledgement has carried it.  The parent's `pause()` may
meet a click on the same button and be toggled back: the model has it, no property forbids it.
Toggles, integers, actions and the title are left out: the child sets and returns one value
for each, under the same request and answer.

## 3. Runs

Every run checks properties of one component; the composition of the action with the page, the
network, the server and the audit trail is in the action runs, that of an attempt with the page
and its audit trail in `ponychart`.

| Run | Instance | Question |
|---|---|---|
| `action_single` | `MCElementAction`: 1 action, turn or floor, 3 documents, 2 rounds, 1 third-party log write, fairness | What does a confirmation mean, is any intent left open, is the action lock given back? |
| `action_sequence` | `MCElementAction`: a turn, then a turn or the floor, 2 documents, 2 rounds | Can evidence of one action be taken for another's, can an old click still land, is the abstract lifecycle implemented? |
| `runner_cooperative` | 2 battles, a caller that stops on errors, fairness | What does a step's result say; is anything submitted over an unsettled action; is a blank page given up? |
| `unready_reported_missing` | 1 battle; violation | A document last seen unready is reported as missing. |
| `recovery` | 3 documents, 2 automatic checks, 2 stable checks, 1 log change, fairness | What has an accepted recovery verified, and does each end? |
| `model_store` | 2 processes, 2 versions of each file, 1 fault, fairness | What does the pointer name, is a newer commit ever lost, do processes come up to date? |
| `lost_generation` | 2 processes, 1 version, 1 fault; violation | A pointer outlives the generation it names. |
| `inference_workers` | 2 generations, 2 workers, 2 predictions, a refresh, a close, 1 fault; symmetric | Is a lease ever lost or a request cut off, is a worker ever given out that cannot answer, does a close leave a process behind? |
| `ponychart` | 2 attempts, 3 documents, 2 loads, 2 image sources, fairness | Is a challenge answered once per attempt and for the image shown, and what does each outcome say? |
| `launcher` | Arena and Ring of Blood, 2 forms, 2 visits, 4 documents | Is one battle asked for per form, what does a receipt show, is every intent settled? |
| `control_panel` | 2 callers, 2 closers, 2 choices, 3 requests and 1 destroy, 1 tick; symmetric | Does a late answer reach the wrong call, a pause get lost, a tick get overwritten, a close leave anything? |
| `lost_choice` | 1 caller, 1 closer, 2 choices, 4 requests, 2 ticks; violation | A tick that an acknowledgement carried unread is overwritten. |

Why the bounds are enough.  Of the action: a document is what a probe can distinguish, so three are a
page, its successor, and a successor of that while the operation is still probing; two
dispatches are the duplicate; two rounds are the floor left and the floor entered.  Runs stop
exploring once the last token is settled (`Unfinished`, `TurnFirst`).  Of the runner: two battles
show what `reset_for_next_battle` must forget; the battle's rounds and turns are stages the page
walks through again and again.  Of recovery: three documents are the clicked one, the reloaded one and one that
replaces it during stabilisation; two stable checks are the least the code allows, and one log
change makes two signatures of one document.  Of the store: two versions of each file are four pairs,
one of which the origin never serves when the files change one after the other; a fault is a
missing ETag, a failed or killed operation, or a power loss.  Of the workers: two of each are the
active one and its successor, and two predictions that hold leases on both; the fault is the
death, the unreapable process or the failed spawn.  Of a PonyChart attempt: two attempts are the one of
unknown outcome and the next; three documents are the riddle, one that replaces it, and the battle.
Of the launcher: the second form starts with whatever the first left underway, and four documents
are the list it reads, the list of a retry, and the battles of both forms.  Of the panel: two callers and two
closers contend for both locks, and three requests are a late answer, the call it could reach, and one more.

Each property has a mutant of the code that TLC finds with these bounds, so none of them is
out of reach of the case it is about.

Fairness.  `ElementAction!FairSpec` gives weak fairness to `BoundedAwait`, because every await before and
after the probing has a timeout of its own, and to `StopProbing`, because the receipt deadline
is wall-clock time and passes whatever the probes return.  Nothing is assumed of the probes,
the page, the network or the server.  `BattleRunner!FairSpec` assumes that the caller steps again
(`run_current` is a loop), that an await of a step ends (each has a protocol timeout), and
that the readiness deadline passes.  `BattleRecovery!FairSpec` assumes the same of the recovery's
awaits and deadline, but neither that a reloaded document becomes ready nor that an await fails.
`ModelStore!FairSpec` assumes that a process refreshes again and that its steps come, each being under
a deadline; the lock needs no strong fairness, because it is only held across two steps of a commit.
`PonyChartChallenge!FairSpec` assumes that the deadline of the phase at hand passes and that an
await of the attempt ends; nothing is assumed of the page.  The other modules state no liveness:
every wait of the launcher, the workers and the panel may end in its timeout as well as in its answer.

Deadlock is checked in `lost_generation` and `model_store`; elsewhere the system may stop: the page, the network or
the child may never answer again once nobody waits for it.

`GivesUp` does not say that a step of the runner ends: a page that never stops changing keeps one
busy, because a challenge that is found at each check and gone at each resolution restarts the loop
of `_step_unlocked` without a bound.  A completion that only the inspection of a resumed battle saw is
forgotten when the next inspection finds an active battle.

`action_sequence` has no third-party writes to the battle log.  `ConfirmedTurnExecutedOnce` holds with them too
(`TurnsPlayedOnce` proves it for any number), although such a write may complete the evidence of a turn whose own
answer the page has not shown yet (section 5).  It is `NoStrayClick` that needs their absence: it is proved for the
states before the first such write (section 4).

In no run, because a proof has them for every instance: `LatchedBusStops`, `LifecycleOnce`,
`PausedStepActsNot`, `FinalControlClickedOnce`, `NoLostCompletion`, `EtagsDescribeBytes`, and the type
invariants of the proved modules.  A caller of the runner that steps on after errors (`Relentless = TRUE`)
is in no run either; the proofs cover both callers.

## 4. Proofs

Eight modules hold proofs.  Each proves its properties from the module's own assumption on the
constants and nothing else, for any number of whatever the runs bound.  The plan of every proof
is the same: an invariant that says, for each place the code can be at, what must hold there for
the property to survive; one lemma per part of it, with one case per action that can disturb
the part; and the theorem as its consequence.

`ElementActionProofs`: `TypeCorrect`, `ClickOnce`, `EveryIntentResolved` and `LatchStops`, from `BoundsAssumption` and
`KindsAssumption`.  `TypeOK` is inductive together with `Started` (an operation in progress has a
token).  `ClickedOnceUnderIntent` and `NoOpenIntent` are not inductive: nothing in them says
that the token about to be clicked is unclicked, or that its trail mirrors its log.  `OpInv`
adds it: `FreshTokens` (tokens not begun have no click and no log), `BeforeIntent` and
`BeforeClick` (what is still empty before those steps), `LiveIsOpen` (while the operation runs
on a sound log, its log starts with the intent, and the trail says whether it is resolved),
and `OthersClosed` (every other token's log is empty or closed).  The lemmas each action needs say what
`Published` and `Marked` give (`ConfirmCloses`, `UnknownCloses`, ...), and what a write may do to a log
(`JournalGrowth`).

What a confirmation means needs the page, the network and the server in the invariant.  `TurnsPlayedOnce`,
`FloorsAdvance` and `DuplicatesRefused` follow from `EvidenceInv`, for any number of third-party writes to the
battle log.  Its parts: `OpenLog`, that the log of the action in progress is still open; `RequestInv`, that nothing is sent
for a token before its click lands (`NotYetSent`), that the server plays no more than was sent and answers
only what it played (`RequestsPlayed`), that a monitor has counted every request of its token and
that the answer which ended its counting is the token's last (`MonitorCounts`), and that a confirmed turn stays as it was when it was
confirmed (`TurnSealed`); `DuplicateInv`, that a duplicate once seen stays in the receipt the operation keeps, so that it is neither
confirmed nor recovered; and `FloorInv`, that a completion pane on display is of a floor the server has cleared (`PaneIsTrue`), and that until the server leaves the floor
of the chosen control no page shows what a confirmation looks for (`FloorChosen`).

`LifecycleImplemented` is the refinement `ElementAction => ActionLifecycle`.  `PhaseInv` adds to `OpInv` that every token
but the current one is quiet (`OthersQuiet`), and that the outcome and the trail of the operation say what its
log ends in (`OutcomeIsLogged`, `TrailIsLogged`).  A step of the manager then writes nothing, or the last event it
writes is an abstract step from the phase the log was in (`LifecycleStep`); a latched bus may have put part of
a write on the disk, and `LastWritten` says that this part ends in a phase too.

`NothingStray` states `NoStrayClick` for as long as no third-party script has written into the battle log, which is
also what its run assumes.  `StrayInv` says that documents and requests are in order (`DocsInOrder`, `SentFrom`), that
nothing an earlier action sent can change the document in the tab any more (`EarlierOver`), and that this document looks
as it did when the monitor was armed until the action's own answer is applied (`StillAsArmed`).  A confirmation needs a
change, so that the click has landed by then (`ConfirmedOver`); a recovery needs a later document (`RecoveredOver`).
A third-party write between arming and dispatch could be that change instead, so that the hypothesis
cannot be dropped from this argument.

`BattleRunnerProofs`: `RunnerTypeCorrect`, `ResultTellsOperations`, `RecoveryBudget`, `LifecycleCalledOnce`, `PauseHolds` and
`CompletionIsReal` for every caller, and `NothingActsOverUnsettled` for one that stops on errors, from
`RunnerAssumption`.  `MutationInv` adds that a running step has submitted nothing unless it is
recovering or the strategy has acted, `BudgetInv` that a recovery is running only with the budget unspent, `CompletionGivenInv`
that a completion handed over has disarmed the missing-page alarm, `PresenceInv` that this
cannot be undone by a later inspection, `SettledInv` and `ExitInv` that an unsettled action has ended
the run.

`BattleRecoveryProofs`: `AcceptsOnlyStable` and `AcceptsOnlyCurrent`, from `RecoveryAssumption`.  `RecoveryInv` adds
`Matched`: the signature being matched is the last probe's, belongs to an eligible document, and was
read at least as often as the code counted; past the polling that is `StableChecks` times.  Acceptance then
follows from the last step alone: only `Verify` accepts, its two reads agree, and their signature is the
one matched.

`ModelStoreProofs`: `StoreTypeCorrect`, `PointerKept`, `EtagsTrue`, `PairsServed` and `CommitsOnlyNewer`, from `StoreAssumption`.
`NewerCommitKept` says nothing about the bytes a process holds, so `StoreInv` does: `NotAhead` that no
pointer is ahead of the origin, and `NotBehind` that what was downloaded since the pointer was read is at
least as new as that pointer, which is still the pointer when it is replaced.  `SyncedFirst` follows a
generation from its rename to the pointer, `TrueEtags` an ETag from its download, and `ModelFirst` and
`Downloaded` say which of the two files have been downloaded.  `PairsServed` needs the origin's history: `PairInv` keeps two
witnesses from it.  One is the pair served while the model was downloaded, with thresholds between the first
answer and the downloaded bytes (`ModelMet`); the other is the pair served while the thresholds were downloaded,
with a model between the downloaded bytes and the last answer (`ThresholdsMet`).  Versions only grow, so two equal ETags on either
side close the interval (`StableAgree`, `PairHeld`), and one of the witnesses is the stage.

`BattleLauncherProofs`: `LauncherTypeCorrect`, `AsksForOneBattle`, `ConfirmsBattles`, `ReportsFreshLists` and
`SettlesEveryIntent`, from `LauncherAssumption`.  `WaiterInv` ties the lifecycle waiter to the navigations there
have been, which is why a list that was on display before is never reported; `ScriptInv` says that a form's script
that was not run yet has sent no form and has its intent on the log, and `FateInv` that a form whose fate is unknown
is the last one, because the application has given up; `PlaceInv` and `CallType` say which of these hold at each place of a call;
`BattleInv` that a battle a page of the game displays was started by a form or by somebody else.

`ControlPanelProofs`: `PanelTypeCorrect`, `ClosedLeavesNothing`, `OpenStreamClean`, `PauseStopsTheCaller` and
`TicksAreKept`, from `PanelAssumption`.  `LockInv` says that each lock belongs to the thread that waits under it.
`LifeInv` adds that only a closing panel has an owner of its shutdown, so that an open one has its channel
and nobody else on it; the channel is closed under `_rpc_lock`, so under no call.  `StreamInv` counts: an open
panel has one frame underway while a call holds the lock, and none otherwise.  `PauseInv` says that the numbers
underway have been used, so that a new request's is on no answer, and that an answer "not paused" bearing
a waiting call's number was true during that call.  `WishInv` says that a list whose revision the child has sent was
sent with everything the user had asked of it, so that only unsent wishes meet a replacement.

`InferenceWorkersProofs`: `OwnerTypes`, `LeasesAddUp`, `RequestsOutliveSwaps`, `UsableWorkersAnswer`, `CloseIsComplete` and
`SupersededWorkersReaped`, from `WorkersAssumption`.  None of them is inductive.  `OwnerInv` adds `OpShape`, what a
prediction, a refresh and a close hold at each of their places (whether a lease is pending or attached, what is to
be reaped and what comes after); `WorkerShape`, that a live worker has a generation, and is reaped only by a call
that has it on its list; `Linked`, that a worker the table names, or is about to, is retired once its connection is
closed or a call has it on its list, and a retired worker is given to nobody; `TableShape`, that the table names no worker that was reaped; `Alone`, that a
worker that is spawned and not yet registered is known to its caller only; `NotCut`, that what a refresh has on
its list no prediction uses or will come to use; and `Closed`, that nothing is being spawned once a close has collected
the workers, and that what lives then is on its list.  The type is not separate from these: that a lease never falls below zero
*is* `LeasesAccounted`.

`PonyChartProofs`: `ChallengeTypes`, `SubmitsOnce`, `UnsubmittedForGood`, `ConfirmationsAreEarned` and `AnswersFit`, from
`PageAssumption`.  `ChallengeInv` adds six parts.  `SendInv`: wherever a script may be sent again or the attempt
be called unsubmitted, nothing has submitted and nothing is underway, and an answer that disclaims a
submission says so truly.  `JournalInv`: an attempt underway is not settled, nor logged as unsubmitted while it
may still send.  `MonitorInv`: exact evidence, in the page or in the storage, is of an answer the page
dispatched.  `CaptureInv`: the monitor of an attempt lives in the document its image was captured in, so only
this document can submit.  `PageInv`: of requests that look alike the earlier ones were taken first.
`GuardInv`: while the image guard holds, the page shows what it showed when the image was complete; with
`PageInv` the one request that fits is then the one on display (`MatchOfShown`).  A step of Python
is shown to log, go on or end in one of a few ways (`Steers`), and a step of the page to replace a
monitor (`Watches`) or a guard; each of these keeps its half of the invariant (`Told`, `Shown`) in one lemma.

Left to TLC: liveness (`OperationEnds`, `ComesUpToDate` and the other temporal properties of the fair specifications), which
this prover does not reach.  Every invariant and every action property of a passing run is proved.

## 5. What is not modelled

- The final-exit click's own probes, the session's construction and dialog handler, the
  delegation of skills and items, the model store's process, the retained PonyChart images:
  not modelled.  In `BattleRunner` a challenge is resolved, retried or expired, and the final
  exit is confirmed, unknown or fails; in `ElementAction` the dialog text is a choice.
- Parsing (`hv_bie`), the strategy, and the choice of skills, items and buffs: the models take
  any parse and any decision, so what holds here holds for every strategy.
- The occurrence-aware log delta, image decoding and geometry, manifests, hashes, TLS: pure
  functions over data the models abstract.
- Log wording, diagnostics files, colours and windows.
- Time is not measured.  A deadline is a flag or a choice that may come true at each place
  the code compares with it; that its length is 5 s or 10 s is not part of any property.
- The Lean model under `formal/` is an independent formalisation and was not translated.

Divergences met while modelling that no run shows, because nothing follows from them for the
properties above: a next floor that navigates has a receipt on record without a submission
event, where README.md:86-88 puts one before it (`hv_battle_action_manager.py:1784`); a log write by another
script between arming and dispatch completes the evidence of a turn, against the comment at
`hv_battle_action_manager.py:184-185`; the reload is sent for whatever document is there by then, where README.md:64-66
says "at most once if that document is still unchanged"; `matches_stalled_single_xhr` (`contracts.py:329-344`) accepts a
next-floor action, where `formal/README.md:89-90` calls the class turn-only.

## 6. Plan

The order of the work was the order of section 2, the most important behaviour first: one
action, the runner, recovery, the store, then the workers, a PonyChart attempt, the launcher
and the control panel.  What would add most next:

1. Proofs: every invariant, action property and refinement of the runs is proved; what remains is to
   bound how third-party writes can break `NoStrayClick`, and the compositions below.
2. `BattleExit`: the final control and its classified outcomes, then `SettledBeforeActing` over the
   composition of the runner with the action and exit modules.
3. The composition of `PonyChartChallenge` with `InferenceWorkers`: the reservation and the
   publication of a classifier inside one attempt.
4. `StoreProcess`: request and answer pipe, deadline, kill and restart of the child, over
   `ModelStore`; the image-retention owner.
5. A refinement of `ModelStore` to an atomic register of generations with compare-and-commit.
