--------------------------- MODULE ElementAction ---------------------------
(***************************************************************************)
(* The element action manager: how one turn click or one next-floor click  *)
(* is submitted exactly once and then either confirmed by evidence read    *)
(* from the page or reported as an unknown outcome                         *)
(* (hv_battle_action_manager.py, click_and_wait_log_locator and            *)
(* click_and_wait_transition_locator).                                     *)
(*                                                                         *)
(* Python runs between two awaits without interruption, so one action is   *)
(* one such run.  A state probe is one action: the view it returns is a    *)
(* snapshot, and what Python does with it touches nothing the page sees.   *)
(* The action lock is held whenever pc is not "idle".                      *)
(***************************************************************************)
EXTENDS BattlePage, AuditTrail

CONSTANT Kinds      \* the kinds of action a run submits

ASSUME KindsAssumption == Kinds \subseteq {"turn", "floor"}

VARIABLES
    pc,        \* where the operation stands
    token,     \* its action id; NoToken before the first operation
    kind,      \* the kind of each token's action
    target,    \* the document the selected element belongs to
    clickLive, \* a started click has not reached the page yet
    clicks,    \* per token: clicks started
    before,    \* the view read while arming
    lastDoc,   \* document of the last view after the click; 0 is "unknown"
    receipt,   \* receipt_monitor: the last matching monitor seen
    trail,     \* the in-memory audit trail of the operation
    erred,     \* click_error or probe_error is set
    outcome,   \* how the last operation ended
    evidence,  \* the recovery evidence attached to an unknown outcome
    bus,       \* the audit event bus's failure latch
    journal,   \* per token: the events that reached the durable log
    sawDuplicate, \* history: a probe of the token returned two dispatches
    floorAt       \* history: the floor on display when the control was found

opVars == <<token, kind, target, before, lastDoc, receipt, trail, erred>>
busVars == <<bus, journal>>
historyVars == <<sawDuplicate, floorAt>>
vars == <<envVars, opVars, busVars, historyVars, pc, clickLive, clicks,
          outcome, evidence>>

PCs == {"idle", "select", "arm", "intend", "start", "clicking", "probe",
        "final", "cleanup"}
Outcomes == {"none", "confirmed", "unknown", "recovered", "notSubmitted",
             "auditFailed", "interrupted"}
Dialogs == {"none", "communication", "other"}

TypeOK ==
    /\ EnvTypeOK
    /\ pc \in PCs
    /\ token \in {NoToken} \cup Tokens
    /\ kind \in [Tokens -> {"turn", "floor"}]
    /\ target \in 1 .. MaxDocs
    /\ clickLive \in BOOLEAN
    /\ clicks \in [Tokens -> Nat]
    /\ before \in Pages
    /\ lastDoc \in 0 .. MaxDocs
    /\ receipt \in Monitors
    /\ trail \in SUBSET TrailFlags
    /\ erred \in BOOLEAN
    /\ outcome \in Outcomes
    /\ evidence \in SUBSET {"communication", "stalled"}
    /\ bus \in {"healthy", "failed"}
    /\ journal \in [Tokens -> Seq(Events)]
    /\ sawDuplicate \in [Tokens -> BOOLEAN]
    /\ floorAt \in [Tokens -> Nat]

Init ==
    /\ EnvInit
    /\ pc = "idle" /\ token = NoToken /\ kind = [t \in Tokens |-> "turn"]
    /\ target = page.doc /\ clickLive = FALSE /\ clicks = [t \in Tokens |-> 0]
    /\ before = page /\ lastDoc = 0 /\ receipt = NoMonitor /\ trail = NewTrail
    /\ erred = FALSE /\ outcome = "none" /\ evidence = {}
    /\ bus = "healthy"
    /\ journal = [t \in Tokens |-> <<>>]
    /\ sawDuplicate = [t \in Tokens |-> FALSE]
    /\ floorAt = [t \in Tokens |-> 0]

-----------------------------------------------------------------------------
(* Evidence.  b is the view before the click, v a view after it.           *)

NormalResponse(m) == m.count = 1 /\ m.done \in Normal

(* A completed request whose answer can never become a receipt.            *)
Abnormal(m) == m.done # "no" /\ ~NormalResponse(m)

AtMostOneDispatch(m) == m.count <= 1

TurnEvidence(b, v) ==
    /\ v.doc = b.doc
    /\ NormalResponse(v.monitor)
    /\ \/ v.monitor.done = "text" /\ (v.monitor.mutated \/ v.log # b.log)
       \/ v.monitor.pane /\ v.pane # b.pane

(* Faulty variant: any new, ready document is the next floor.              *)
AnyNewDocument(b, v) == v.doc # b.doc /\ v.ready

FloorEvidence(b, v) ==
    LET regenerated == v.doc # b.doc \/ v.node # b.node
        advanced    == b.round > 0 /\ v.round > b.round
        initialized == b.pane = "next" /\ b.round = 0 /\ v.round > 0
    IN  \/ v.pony /\ ~b.pony
        \/ v.pane = "finish" /\ b.pane # "finish"
        \/ /\ v.controls /\ v.pane # "next"
           /\ IF regenerated
              THEN v.ready /\ (advanced \/ initialized)
              ELSE advanced \/ (initialized /\ v.log # b.log)

(* What the immutable evidence of an unknown outcome permits, given the    *)
(* last monitor m and document doc seen, the dialog category recorded for  *)
(* the action since its click began, and whether the pending request has   *)
(* been out for _STALLED_XHR_MINIMUM_AGE_MS.                               *)
CommunicationFailed(m, dialog) ==
    /\ dialog = "communication"
    /\ \/ m.count = 1 /\ m.done = "lost"
       \/ m.done = "no" /\ m.count <= 1

StalledRequest(m, doc, dialog, aged) ==
    /\ dialog = "none" /\ doc = before.doc
    /\ m.count = 1 /\ m.done = "no" /\ aged

RecoveryEvidence(m, doc, dialog, aged) ==
    {e \in {"communication", "stalled"} :
        /\ doc # 0
        /\ \/ e = "communication" /\ CommunicationFailed(m, dialog)
           \/ e = "stalled" /\ StalledRequest(m, doc, dialog, aged)}

-----------------------------------------------------------------------------
(* The audit event bus (audit.py, AuditEventBus): the first failed write   *)
(* latches, later events never reach the writer, and every caller of the   *)
(* trail sees the latch.                                                   *)

Record(t, events) ==
    /\ bus = "healthy"
    /\ journal' = [journal EXCEPT ![t] = @ \o events]
    /\ UNCHANGED bus

(* One write of events raises.  It may have reached the disk all the same. *)
RecordFails(t, events) ==
    /\ bus = "healthy" /\ events # <<>>
    /\ bus' = "failed"
    /\ \E n \in 0 .. Len(events) :
          journal' = [journal EXCEPT ![t] = @ \o SubSeq(events, 1, n)]

(* A call that reaches the latched bus, or whose own write fails.          *)
PublicationRaises(t, events) ==
    \/ RecordFails(t, events)
    \/ bus = "failed" /\ events # <<>> /\ UNCHANGED busVars

(* Leaving the operation: with a cleanup of the monitor when it is safe    *)
(* and the deadline still allows one, else straight to the caller.         *)
Leave(result, safe) ==
    /\ outcome' = result
    /\ pc' = "idle" \/ (safe /\ pc' = "cleanup")

(* A write failed.  mark_outcome_unknown in the exception handler meets    *)
(* the latched bus and raises again, so the trail stays as it was.         *)
LeaveUnaudited(events, safe) ==
    /\ PublicationRaises(token, events)
    /\ Leave("auditFailed", safe)
    /\ UNCHANGED <<trail, evidence>>

(* Faulty variant: the error propagates and the intent stays open.         *)
AbandonOpen ==
    /\ Leave("interrupted", FALSE)
    /\ UNCHANGED <<busVars, trail, evidence>>

(* An error or a cancellation after the intent was recorded leaves the     *)
(* operation: the handler first resolves the intent as unknown.  When that *)
(* write fails during a cancellation, cleanup has not been ruled out yet.  *)
Abandon ==
    LET events == Published(trail, "unknown") IN
    \/ /\ Record(token, events)
       /\ trail' = Marked(trail, "unknown")
       /\ Leave("interrupted", FALSE)
       /\ UNCHANGED evidence
    \/ LeaveUnaudited(events, TRUE)

-----------------------------------------------------------------------------
(* Before the click.                                                       *)

(* Faulty variant: an unknown outcome does not stop the caller.            *)
MayAlwaysBegin == outcome # "interrupted"

(* The caller (BattleRunner) starts another action only when the previous  *)
(* one ended without an unknown outcome, or recovery accepted a reload.    *)
(* An audit failure is not excluded: the bus itself refuses the intent.    *)
MayBegin == outcome \in {"none", "confirmed", "recovered", "notSubmitted",
                         "auditFailed"}

(* An earlier click that could still land on the present document.         *)
StrayClick == clickLive /\ page.doc = target

Offered(k) == IF k = "turn" THEN page.controls /\ page.pane = "none"
                            ELSE page.pane = "next"

Begin(k) ==
    /\ pc = "idle" /\ MayBegin /\ token < MaxActions /\ ~StrayClick
    /\ Offered(k) /\ page.ready /\ ~page.pony
    /\ token' = token + 1
    /\ kind' = [kind EXCEPT ![token + 1] = k]
    /\ pc' = "select"
    /\ trail' = NewTrail /\ erred' = FALSE
    /\ lastDoc' = 0 /\ receipt' = NoMonitor /\ clickLive' = FALSE
    /\ UNCHANGED <<envVars, busVars, historyVars, target, before, clicks,
                   outcome, evidence>>

(* A lookup that fails, or a control that went away, costs nothing.        *)
GiveUp(result) == pc' = "idle" /\ outcome' = result

Select ==
    /\ pc = "select"
    /\ \/ /\ Offered(kind[token])
          /\ target' = page.doc /\ pc' = "arm" /\ UNCHANGED outcome
          /\ floorAt' = [floorAt EXCEPT ![token] = page.floor]
       \/ \E result \in {"notSubmitted", "interrupted"} :
             GiveUp(result) /\ UNCHANGED <<target, floorAt>>
    /\ UNCHANGED <<envVars, busVars, sawDuplicate, token, kind, before, lastDoc,
                   receipt, trail, erred, clickLive, clicks, evidence>>

(* One evaluation arms the monitor and reads the view before the click.  A *)
(* failing one may have armed it.                                          *)
Arm ==
    /\ pc = "arm"
    /\ \/ /\ page' = Armed(page, token)
          /\ before' = View(page', token)
          /\ receipt' = IF kind[token] = "turn" THEN NoMonitor
                                                ELSE before'.monitor
          /\ pc' = "intend" /\ UNCHANGED outcome
       \/ /\ page' \in {page, Armed(page, token)}
          /\ \E result \in {"notSubmitted", "interrupted"} : GiveUp(result)
          /\ UNCHANGED <<before, receipt>>
    /\ UNCHANGED <<server, request, foreign, busVars, historyVars, token, kind,
                   target, lastDoc, trail, erred, clickLive, clicks, evidence>>

(* The intent is on the durable log before anything can change the page.   *)
RecordIntent ==
    /\ pc = "intend"
    /\ LET events == Published(trail, "intent") IN
       \/ /\ Record(token, events)
          /\ trail' = Marked(trail, "intent")
          /\ pc' = "start" /\ UNCHANGED <<outcome, evidence>>
       \/ LeaveUnaudited(events, TRUE)
       \/ GiveUp("notSubmitted") /\ UNCHANGED <<busVars, trail, evidence>>
    /\ UNCHANGED <<envVars, historyVars, token, kind, target, before, lastDoc,
                   receipt, erred, clickLive, clicks>>

StartClick ==
    /\ pc = "start"
    /\ clickLive' = TRUE
    /\ clicks' = [clicks EXCEPT ![token] = @ + 1]
    /\ pc' = "clicking"
    /\ UNCHANGED <<envVars, opVars, busVars, historyVars, outcome, evidence>>

(* The dialog observation could not begin: the intent is closed unused.    *)
AbortStart ==
    /\ pc = "start"
    /\ LET events == Published(trail, "notSubmitted") IN
       \/ /\ Record(token, events)
          /\ trail' = Marked(trail, "notSubmitted")
          /\ Leave("notSubmitted", TRUE)
          /\ UNCHANGED evidence
       \/ LeaveUnaudited(events, TRUE)
    /\ UNCHANGED <<envVars, historyVars, token, kind, target, before, lastDoc,
                   receipt, erred, clickLive, clicks>>

-----------------------------------------------------------------------------
(* The click, which is never repeated.                                     *)

ClickReturns ==
    /\ pc = "clicking" /\ ~StrayClick
    /\ pc' = "probe"
    /\ UNCHANGED <<envVars, opVars, busVars, historyVars, clickLive, clicks,
                   outcome, evidence>>

(* Faulty variant: a click that raised is tried again.                     *)
RetryClick ==
    /\ pc = "clicking"
    /\ erred' = TRUE
    /\ pc' = "start"
    /\ UNCHANGED <<envVars, token, kind, target, before, lastDoc, receipt, trail,
                   busVars, historyVars, clickLive, clicks, outcome, evidence>>

(* An ordinary click error is reconciled by the probes that follow; the    *)
(* click may still land.                                                   *)
ClickErrs ==
    /\ pc = "clicking"
    /\ erred' = TRUE
    /\ pc' = "probe"
    /\ UNCHANGED <<envVars, token, kind, target, before, lastDoc, receipt, trail,
                   busVars, historyVars, clickLive, clicks, outcome,
                   evidence>>

-----------------------------------------------------------------------------
(* The probes after the click.                                             *)

(* Faulty variant: a view without a monitor forgets the one seen before.   *)
ObserveLatest(v) ==
    /\ lastDoc' = v.doc
    /\ receipt' = v.monitor
    /\ sawDuplicate' = [sawDuplicate EXCEPT ![token] = @ \/ v.monitor.count = 2]

(* What a successful probe leaves behind, accepted or not.                 *)
Observe(v) ==
    /\ lastDoc' = v.doc
    /\ receipt' = IF v.monitor.id = NoToken THEN receipt ELSE v.monitor
    /\ sawDuplicate' = [sawDuplicate EXCEPT ![token] = @ \/ v.monitor.count = 2]

Seen(v) == IF v.monitor.count = 1 THEN Published(trail, "submitted") ELSE <<>>
TrailSeen(v) == IF v.monitor.count = 1 THEN Marked(trail, "submitted") ELSE trail

(* An error on the way makes the confirmation a reconciliation.            *)
Confirmation == IF erred THEN "reconciled" ELSE "receipt"

Confirm(v, event) ==
    LET events == Seen(v) \o Published(TrailSeen(v), event) IN
    \/ /\ Record(token, events)
       /\ trail' = Marked(TrailSeen(v), event)
       /\ Leave("confirmed", TRUE)
       /\ UNCHANGED evidence
    \/ LeaveUnaudited(events, TRUE)

(* No receipt: the outcome is reported unknown, with the evidence that may *)
(* allow recovery, and the monitor stays for the reload to discard.        *)
ReportUnknown(observed, seenTrail, m, doc) ==
    LET events == observed \o Published(seenTrail, "unknown") IN
    \/ /\ Record(token, events)
       /\ trail' = Marked(seenTrail, "unknown")
       /\ \E dialog \in Dialogs, aged \in BOOLEAN :
             evidence' = RecoveryEvidence(m, doc, dialog, aged)
       /\ Leave("unknown", FALSE)
    \/ LeaveUnaudited(events, TRUE)

(* Not confirmed yet: keep probing, or go to the final probe.              *)
Continue(v, next) ==
    \/ /\ Record(token, Seen(v))
       /\ trail' = TrailSeen(v)
       /\ pc' = next
       /\ UNCHANGED <<outcome, evidence>>
    \/ LeaveUnaudited(Seen(v), TRUE)

(* Evidence found, but the deadline passed while it was being weighed.     *)
TooLate(v) == ReportUnknown(Seen(v), TrailSeen(v), receipt', v.doc)

TurnProbe ==
    LET v == View(page, token) IN
    /\ pc = "probe" /\ kind[token] = "turn"
    /\ Observe(v)
    /\ \/ /\ TurnEvidence(before, v)
          /\ Confirm(v, Confirmation) \/ TooLate(v)
       \/ /\ ~TurnEvidence(before, v)
          /\ Continue(v, IF Abnormal(v.monitor) THEN "final" ELSE "probe")
    /\ UNCHANGED <<envVars, token, kind, target, before, erred, floorAt,
                   clickLive, clicks>>

FloorProbe ==
    LET v == View(page, token)
        accepted == FloorEvidence(before, v) /\ AtMostOneDispatch(receipt')
    IN
    /\ pc = "probe" /\ kind[token] = "floor"
    /\ Observe(v)
    /\ \/ /\ accepted
          /\ Confirm(v, Confirmation) \/ TooLate(v)
       \/ ~accepted /\ Continue(v, "probe")
    /\ UNCHANGED <<envVars, token, kind, target, before, erred, floorAt,
                   clickLive, clicks>>

(* A probe that raises an ordinary error is followed by another one.       *)
ProbeErrs ==
    /\ pc = "probe" /\ ~erred
    /\ erred' = TRUE
    /\ UNCHANGED <<envVars, token, kind, target, before, lastDoc, receipt, trail,
                   busVars, historyVars, pc, clickLive, clicks, outcome, evidence>>

(* Faulty variant: only an error ends the probing, the deadline does not.  *)
StopOnErrorOnly ==
    /\ pc \in {"probe", "final"} /\ erred
    /\ ReportUnknown(<<>>, trail, receipt, lastDoc)
    /\ UNCHANGED <<envVars, token, kind, target, before, lastDoc, receipt, erred,
                   historyVars, clickLive, clicks>>

(* The deadline passes, or a probe times out: the probing ends.            *)
StopProbing ==
    /\ pc \in {"probe", "final"}
    /\ ReportUnknown(<<>>, trail, receipt, lastDoc)
    /\ UNCHANGED <<envVars, token, kind, target, before, lastDoc, receipt, erred,
                   historyVars, clickLive, clicks>>

(* After an abnormal turn answer, one last look.                           *)
TurnFinalProbe ==
    LET v == View(page, token) IN
    /\ pc = "final"
    /\ Observe(v)
    /\ IF TurnEvidence(before, v)
       THEN Confirm(v, "reconciled")
       ELSE ReportUnknown(Seen(v), TrailSeen(v), receipt', v.doc)
    /\ UNCHANGED <<envVars, token, kind, target, before, erred, floorAt,
                   clickLive, clicks>>

(* The browser generation is lost, or the caller cancels: no further probe.*)
Interrupted ==
    /\ pc \in {"clicking", "probe", "final"}
    /\ Abandon
    /\ UNCHANGED <<envVars, token, kind, target, before, lastDoc, receipt, erred,
                   historyVars, clickLive, clicks>>

-----------------------------------------------------------------------------
(* After the operation.                                                    *)

(* The cleanup removes the operation's own monitor; an ordinary error of   *)
(* its own is swallowed, anything else replaces the result.                *)
Cleanup ==
    /\ pc = "cleanup"
    /\ pc' = "idle"
    /\ \/ /\ page' = IF page.monitor.id = token THEN Unmonitored(page) ELSE page
          /\ UNCHANGED outcome
       \/ UNCHANGED <<page, outcome>>
       \/ UNCHANGED page /\ outcome' = "interrupted"
    /\ UNCHANGED <<server, request, foreign, opVars, busVars, historyVars,
                   clickLive, clicks, evidence>>

(* Faulty variant: the old document counts as a recovered one.             *)
AcceptAnyDocument ==
    /\ pc = "idle" /\ outcome = "unknown" /\ evidence # {}
    /\ page.ready
    /\ page' = Unmonitored(page)
    /\ Record(token, <<"recovered">>) /\ outcome' = "recovered"
    /\ UNCHANGED <<server, request, foreign, opVars, historyVars, pc, clickLive,
                   clicks, evidence>>

(* BattleSession.recover_unknown_action: a new, ready document of the same *)
(* battle settles the unknown outcome (the coordinator is BattleRecovery). *)
AcceptReload ==
    /\ pc = "idle" /\ outcome = "unknown" /\ evidence # {}
    /\ page.doc # before.doc /\ page.ready
    /\ page' = Unmonitored(page)
    /\ \/ Record(token, <<"recovered">>) /\ outcome' = "recovered"
       \/ PublicationRaises(token, <<"recovered">>) /\ outcome' = "auditFailed"
    /\ UNCHANGED <<server, request, foreign, opVars, historyVars, pc, clickLive,
                   clicks, evidence>>

-----------------------------------------------------------------------------
(* The environment.                                                        *)

(* The click lands on the document its element came from, or nowhere.      *)
DeliverClick ==
    /\ StrayClick
    /\ clickLive' = FALSE
    /\ \/ Dispatch(token)
       \/ kind[token] = "floor" /\ DispatchByNavigation(token)
       \/ UNCHANGED envVars

Execute(t) == IF kind[t] = "turn" THEN ExecuteTurn(t) ELSE ExecuteFloor(t)
Apply(t) == IF kind[t] = "turn" THEN ApplyTurn(t) ELSE ApplyFloor(t)

EnvStep ==
    /\ \/ \E t \in Tokens : \/ Redispatch(t) \/ Execute(t) \/ Reply(t)
                            \/ Apply(t) \/ LoadEnd(t)
       \/ Navigate \/ Render \/ BecomeReady \/ ForeignLog
    /\ UNCHANGED clickLive

(* BattlePonyChart answers the challenge and the page reloads.             *)
ResolvePonyChart ==
    /\ pc = "idle" /\ page.pony /\ page.doc < MaxDocs
    /\ server' = [server EXCEPT !.pony = FALSE]
    /\ page' = Blank(page)
    /\ UNCHANGED <<request, foreign, clickLive>>

Environment ==
    /\ DeliverClick \/ EnvStep \/ ResolvePonyChart
    /\ UNCHANGED <<opVars, busVars, historyVars, pc, clicks, outcome,
                   evidence>>

-----------------------------------------------------------------------------
Operation ==
    \/ Select \/ Arm \/ RecordIntent \/ StartClick \/ AbortStart
    \/ ClickReturns \/ ClickErrs \/ TurnProbe \/ FloorProbe \/ ProbeErrs
    \/ StopProbing \/ TurnFinalProbe \/ Interrupted \/ Cleanup

Next ==
    \/ \E k \in Kinds : Begin(k)
    \/ Operation \/ AcceptReload
    \/ Environment

Spec == Init /\ [][Next]_vars

(* Every await before and after the probing is bounded by a timeout, and   *)
(* the deadline of the probing passes whatever the probes return.          *)
BoundedAwait == \/ Select \/ Arm \/ RecordIntent \/ StartClick \/ AbortStart
                \/ ClickReturns \/ ClickErrs \/ Cleanup
FairSpec == Spec /\ WF_vars(BoundedAwait) /\ WF_vars(StopProbing)
-----------------------------------------------------------------------------
(* Properties.                                                             *)

Recorded(t, event) == \E i \in DOMAIN journal[t] : journal[t][i] = event
Confirmed(t) == Recorded(t, "receipt") \/ Recorded(t, "reconciled")

(* A token's click is started at most once, and never before its intent    *)
(* is on the durable log (record_intent precedes _click in both methods).  *)
ClickedOnceUnderIntent ==
    \A t \in Tokens :
        /\ clicks[t] <= 1
        /\ clicks[t] = 1 => journal[t] # <<>> /\ journal[t][1] = "intent"

(* A confirmed turn was dispatched once and played once by the server,     *)
(* whatever was sent twice, lost, delayed or reloaded on the way.          *)
ConfirmedTurnExecutedOnce ==
    \A t \in Tokens : kind[t] = "turn" /\ Confirmed(t) =>
        request[t].sent = 1 /\ request[t].executed = 1

(* A confirmed next-floor action means that the server has left the floor  *)
(* whose completion pane held the control, even when the page was behind   *)
(* the server by then (a recovered action's request played late).          *)
ConfirmedFloorAdvanced ==
    \A t \in Tokens : kind[t] = "floor" /\ Confirmed(t) =>
        server.round > floorAt[t]

(* Once any probe has seen two dispatches of a token, no receipt, no       *)
(* reconciliation and no recovery is ever recorded for it, even when the   *)
(* monitor that counted them is gone with its document.                    *)
DuplicateNeverAccepted ==
    \A t \in Tokens : sawDuplicate[t] =>
        ~Confirmed(t) /\ ~Recorded(t, "recovered")

(* Whenever the action lock is free and the log is sound, every recorded   *)
(* intent has its resolution: no error, timeout or cancellation leaves one *)
(* open.                                                                   *)
NoOpenIntent ==
    pc = "idle" /\ bus = "healthy" =>
        \A t \in Tokens : journal[t] # <<>> =>
            journal[t][Len(journal[t])] \notin {"intent", "submitted"}

(* When the caller may go on, no click of an earlier action can still land *)
(* on the document in the tab.                                             *)
NoStrayClick ==
    pc = "idle" /\ outcome \in {"confirmed", "recovered", "notSubmitted"} =>
        ~StrayClick

(* After a failed audit write nothing is clicked and nothing is written.   *)
LatchedBusStops == [][bus = "failed" => UNCHANGED <<clicks, journal>>]_vars

(* The operation implements the lifecycle every battle action promises.    *)
Phase(t) == IF journal[t] = <<>> THEN "new" ELSE journal[t][Len(journal[t])]
Lifecycle == INSTANCE ActionLifecycle WITH
    phase <- [t \in Tokens |-> Phase(t)],
    clicked <- [t \in Tokens |-> clicks[t] > 0]
ImplementsLifecycle == Lifecycle!Spec

(* An operation that holds the action lock gives it back.                  *)
OperationEnds == (pc # "idle") ~> (pc = "idle")

=============================================================================
