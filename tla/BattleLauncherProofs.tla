------------------------ MODULE BattleLauncherProofs ------------------------
(***************************************************************************)
(* The launcher submits one form until its fate is known, settles every    *)
(* intent, and reports only fresh lists, whatever the bounds and the lists *)
(* are.                                                                    *)
(***************************************************************************)
EXTENDS BattleLauncher, TLAPS

USE LauncherAssumption

(* What TypeOK leaves out.                                                 *)
CallType ==
    /\ journal \in [Attempts -> Seq(Events)]
    /\ op \in [kind : {"none", "goto", "startup", "start"}, route : Routes, looked : Nat]
    /\ read = NoList \/ read.route \in Routes
    /\ page.shows = "list" => page.route \in Routes
    /\ reply \in {"none", "submitted", "refused"}

(* The document that is waited for was looked up during the operation and  *)
(* is older than the one that was found.                                   *)
WaiterInv ==
    /\ pc # "idle" => op.looked <= page.doc
    /\ pc \in {"trigger", "land", "ack", "receipt"} =>
          wait.old \in 1 .. page.doc /\ op.looked <= wait.old
    /\ wait.main # 0 => wait.on /\ wait.main \in wait.old + 1 .. page.doc
    /\ wait.done => wait.on /\ wait.main # 0
    /\ pc = "ready" => op.looked < page.doc
    /\ FreshRoute

(* Which operation is at which place, and the trail it has left there.     *)
PlaceInv ==
    /\ pc \in {"ack", "receipt"} => op.kind = "start"
    /\ pc \in {"look", "land", "ready"} => op.kind # "start"
    /\ pc = "idle" <=> op.kind = "none"
    /\ op.kind = "start" => attempt > 0 /\ outcome[attempt] = "none"
    /\ op.kind = "start" /\ pc \in {"enable", "trigger"} => trail = NewTrail
    /\ pc = "ack" => trail = {"intent"}
    /\ pc = "receipt" => trail = {"intent"} \/ trail = {"intent", "submitted"}
    /\ pc \in {"ack", "receipt"} => Logged(attempt, "intent")
    /\ op.kind # "start" => latched \/ ~Open

(* A script that was not run has sent no form, and a refusal leaves none.  *)
ScriptInv ==
    /\ \A a \in Attempts : flight[a] > 0 => form[a] = "none"
    /\ \A a \in Attempts : flight[a] > 0 \/ form[a] # "none" => Logged(a, "intent")
    /\ \A a \in Attempts :
         a > attempt => form[a] = "none" /\ flight[a] = 0 /\ outcome[a] = "none"
    /\ op.kind = "start" /\ pc \in {"enable", "trigger"} =>
         form[attempt] = "none" /\ flight[attempt] = 0
    /\ reply = "refused" => form[attempt] = "none" /\ flight[attempt] = 0
    /\ reply # "none" => pc \in {"ack", "receipt"}

Unsent(a) == form[a] = "none" /\ flight[a] = 0

(* The fate of the forms asked for: of the last one it may be unknown, and *)
(* then the application has given up.                                      *)
FateInv ==
    /\ OneBattleForm
    /\ op.kind # "start" /\ attempt > 0 =>
         outcome[attempt] = "confirmed" \/ Unsent(attempt) \/ GivenUp

(* A battle on display is one the server has on; of what a page of another *)
(* realm or origin displays nothing is known.                              *)
BattleInv ==
    /\ server.battle = "own" => \E b \in 1 .. attempt : form[b] = "battle"
    /\ server.battle = "others" => others
    /\ page.doc > 1 /\ page.own /\ page.shows \in Blockers => server.battle # "none"
    /\ ConfirmedIsBattle

LauncherInv ==
    TypeOK /\ CallType /\ WaiterInv /\ PlaceInv /\ ScriptInv /\ FateInv /\ BattleInv

-----------------------------------------------------------------------------
(* Which actions touch what.                                               *)

LEMMA LauncherKeeps ==
    ASSUME Python
    PROVE  UNCHANGED <<page, server, form, others>>
  <1>1. ASSUME NEW kind \in {"goto", "startup"}, NEW route \in Routes, Visit(kind, route)
        PROVE  UNCHANGED <<page, server, form, others>>
    BY <1>1 DEF Visit, tab, remote
  <1>2. CASE Look \/ Enable \/ Navigate \/ Land \/ ProbeRoute
    BY <1>2 DEF Look, Enable, Navigate, Land, ProbeRoute, tab, remote
  <1>3. CASE Inspect \/ Start \/ SendScript
    BY <1>3 DEF Inspect, Start, SendScript, tab, remote
  <1>4. CASE Acknowledged \/ AckLost \/ Confirm \/ Interrupted \/ Expired
    BY <1>4 DEF Acknowledged, AckLost, Confirm, Interrupted, Expired, tab, remote
  <1>. QED  BY <1>1, <1>2, <1>3, <1>4 DEF Python

LEMMA OnlySendScriptFlies ==
    ASSUME Python, ~SendScript
    PROVE  UNCHANGED flight
  <1>1. ASSUME NEW kind \in {"goto", "startup"}, NEW route \in Routes, Visit(kind, route)
        PROVE  UNCHANGED flight
    BY <1>1 DEF Visit, tab, remote
  <1>2. CASE Look \/ Enable \/ Navigate \/ Land \/ ProbeRoute \/ Inspect \/ Start
    BY <1>2 DEF Look, Enable, Navigate, Land, ProbeRoute, Inspect, Start, tab, remote
  <1>3. CASE Acknowledged \/ AckLost \/ Confirm \/ Interrupted \/ Expired
    BY <1>3 DEF Acknowledged, AckLost, Confirm, Interrupted, Expired, tab, remote
  <1>. QED  BY <1>1, <1>2, <1>3 DEF Python

(* What the rest of the world leaves alone.                                *)
LEMMA OutsideKeeps ==
    ASSUME Outside \/ DeadlinePasses \/ \E a \in Attempts : RunScript(a)
    PROVE  /\ UNCHANGED <<pc, op, attempt, read, trail, journal, latched, result, outcome>>
           /\ (Outside \/ DeadlinePasses) => UNCHANGED <<reply, flight>>
  BY DEF Outside, DeadlinePasses, RunScript, asking, audit, remote, tab, Answer, NavLost, Load,
         Elsewhere, ListChanges, OthersFight, TakeForm
-----------------------------------------------------------------------------
(* The audit trail.                                                        *)

LEMMA LogGrows ==
    ASSUME journal \in [Attempts -> Seq(Events)], attempt \in Attempts, NEW s \in Seq(Events),
           journal' = [journal EXCEPT ![attempt] = @ \o s]
    PROVE  /\ journal' \in [Attempts -> Seq(Events)]
           /\ \A a \in Attempts, e \in Events : Logged(a, e) => Logged(a, e)'
           /\ \A a \in Attempts, e \in Events : a = attempt /\ s = <<e>> => Logged(a, e)'
  <1>1. journal' \in [Attempts -> Seq(Events)]
    OBVIOUS
  <1>2. ASSUME NEW a \in Attempts, NEW e \in Events, Logged(a, e)
        PROVE  Logged(a, e)'
    <2>1. PICK i \in DOMAIN journal[a] : journal[a][i] = e
      BY <1>2 DEF Logged
    <2>2. i \in DOMAIN journal'[a] /\ journal'[a][i] = e
      <3>1. CASE a = attempt
        BY <2>1, <3>1
      <3>2. CASE a # attempt
        BY <2>1, <3>2
      <3>. QED  BY <3>1, <3>2
    <2>. QED  BY <2>2 DEF Logged
  <1>3. ASSUME NEW a \in Attempts, NEW e \in Events, a = attempt, s = <<e>>
        PROVE  Logged(a, e)'
    <2>1. Len(journal[a]) + 1 \in DOMAIN journal'[a] /\ journal'[a][Len(journal[a]) + 1] = e
      BY <1>3
    <2>. QED  BY <2>1 DEF Logged
  <1>. QED  BY <1>1, <1>2, <1>3

(* A publication either reached the log, and what follows it happens, or   *)
(* latched the log and ended the operation.                                *)
LEMMA PublishFacts ==
    ASSUME TypeOK, CallType, attempt \in Attempts, NEW event \in TrailFlags, NEW ACTION Then,
           Publish(event, Then)
    PROVE  /\ journal' \in [Attempts -> Seq(Events)]
           /\ trail' \in SUBSET TrailFlags /\ latched' \in BOOLEAN
           /\ \A a \in Attempts, e \in Events : Logged(a, e) => Logged(a, e)'
           /\ \/ /\ Then /\ latched' = latched /\ trail' = Marked(trail, event)
                 /\ Accepts(trail, event) =>
                      journal' = [journal EXCEPT ![attempt] = @ \o <<event>>]
              \/ Ends("raised") /\ latched' = TRUE /\ trail' = trail /\ journal' = journal
  <1>0. /\ journal \in [Attempts -> Seq(Events)] /\ trail \in SUBSET TrailFlags
        /\ latched \in BOOLEAN /\ event \in Events
    BY DEF TypeOK, CallType, TrailFlags
  <1>1. Published(trail, event) \in Seq(Events)
    BY <1>0 DEF Published
  <1>2. CASE /\ journal' = [journal EXCEPT ![attempt] = @ \o Published(trail, event)]
             /\ trail' = Marked(trail, event) /\ Then /\ latched' = latched
    <2>1. /\ journal' \in [Attempts -> Seq(Events)]
          /\ \A a \in Attempts, e \in Events : Logged(a, e) => Logged(a, e)'
      BY <1>0, <1>1, <1>2, LogGrows
    <2>2. trail' \in SUBSET TrailFlags
      BY <1>0, <1>2 DEF Marked
    <2>3. Accepts(trail, event) => journal' = [journal EXCEPT ![attempt] = @ \o <<event>>]
      BY <1>2 DEF Published
    <2>. QED  BY <1>0, <1>2, <2>1, <2>2, <2>3
  <1>3. CASE latched' = TRUE /\ Ends("raised") /\ UNCHANGED <<trail, journal>>
    BY <1>0, <1>3 DEF Logged
  <1>. QED  BY <1>2, <1>3 DEF Publish

(* What Open says of the trails an operation leaves.                       *)
LEMMA TrailFacts ==
    /\ ~Resolved({}) /\ ~Resolved({"intent"}) /\ ~Resolved({"intent", "submitted"})
    /\ \A t \in SUBSET TrailFlags, e \in {"notSubmitted", "receipt", "unknown", "reconciled"} :
         Resolved(t \cup {e})
  BY DEF Resolved, TrailFlags, Events

(* How an operation that is over leaves the launcher and the audit.        *)
Over ==
    /\ Closed
    /\ journal' \in [Attempts -> Seq(Events)]
    /\ trail' \in SUBSET TrailFlags /\ latched' \in BOOLEAN
    /\ latched' \/ ~Open'
    /\ \A a \in Attempts, e \in Events : Logged(a, e) => Logged(a, e)'

(* An event that resolves the trail ends the operation in one way or the   *)
(* other.                                                                  *)
LEMMA ResolvingEnds ==
    ASSUME LauncherInv, pc \in {"ack", "receipt"}, NEW how,
           NEW event \in {"notSubmitted", "receipt", "unknown", "reconciled"},
           Publish(event, Ends(how)), event = "notSubmitted" => pc = "ack"
    PROVE  /\ Over
           /\ \/ outcome' = [outcome EXCEPT ![attempt] = how]
                 /\ (event = "unknown" => GivenUp')
              \/ outcome' = [outcome EXCEPT ![attempt] = "raised"] /\ GivenUp'
           /\ result' = result
  <1>1. /\ TypeOK /\ CallType /\ attempt \in Attempts
    BY DEF LauncherInv, PlaceInv, TypeOK, Attempts
  <1>2. trail = {"intent"} \/ (trail = {"intent", "submitted"} /\ pc = "receipt")
    BY DEF LauncherInv, PlaceInv
  <1>3. event \in TrailFlags /\ event \in Events
    BY DEF TrailFlags, Events
  <1>4. Accepts(trail, event)
    <2>1. ~Resolved(trail)
      BY <1>2, TrailFacts
    <2>2. trail \cap {"reconciled", "receipt", "notSubmitted"} = {}
      BY <1>2
    <2>3. event = "notSubmitted" => "submitted" \notin trail
      BY <1>2
    <2>. QED  BY <2>1, <2>2, <2>3 DEF Accepts
  <1>5. /\ journal' \in [Attempts -> Seq(Events)]
        /\ trail' \in SUBSET TrailFlags /\ latched' \in BOOLEAN
        /\ \A a \in Attempts, e \in Events : Logged(a, e) => Logged(a, e)'
    BY <1>1, <1>3, PublishFacts
  <1>6. \/ /\ Ends(how) /\ latched' = latched /\ trail' = Marked(trail, event)
           /\ journal' = [journal EXCEPT ![attempt] = @ \o <<event>>]
        \/ Ends("raised") /\ latched' = TRUE
    BY <1>4 DEF Publish, Published
  <1>7. CASE /\ Ends(how) /\ latched' = latched /\ trail' = Marked(trail, event)
             /\ journal' = [journal EXCEPT ![attempt] = @ \o <<event>>]
    <2>1. event = "unknown" => GivenUp'
      <3>1. journal \in [Attempts -> Seq(Events)] /\ <<event>> \in Seq(Events)
        BY <1>1, <1>3 DEF CallType
      <3>2. \A a \in Attempts, e \in Events : a = attempt /\ e = event => Logged(a, e)'
        BY <1>1, <1>3, <1>7, <3>1, LogGrows
      <3>. QED  BY <1>1, <1>3, <3>2 DEF GivenUp
    <2>2. Resolved(trail')
      BY <1>1, <1>4, <1>7, TrailFacts DEF Marked, TypeOK
    <2>3. ~Open'
      BY <2>2 DEF Open
    <2>4. Closed /\ outcome' = [outcome EXCEPT ![attempt] = how] /\ result' = result
      BY <1>7 DEF Ends
    <2>. QED  BY <1>5, <2>1, <2>3, <2>4 DEF Over
  <1>8. CASE Ends("raised") /\ latched' = TRUE
    BY <1>5, <1>8 DEF Ends, Over, GivenUp
  <1>. QED  BY <1>6, <1>7, <1>8

(* An error ends the operation; a submission that was sent is unknown.     *)
LEMMA RaiseFacts ==
    ASSUME LauncherInv, Raise, pc # "idle"
    PROVE  /\ Over
           /\ op.kind # "start" => outcome' = outcome /\ result' = NoResult
           /\ op.kind = "start" => /\ outcome' = [outcome EXCEPT ![attempt] = "raised"]
                                   /\ result' = result
           /\ pc \in {"ack", "receipt"} => GivenUp'
  <1>1. TypeOK /\ CallType /\ PlaceInv
    BY DEF LauncherInv
  <1>2. CASE op.kind # "start"
    <2>1. Returns("raised") /\ UNCHANGED <<trail, journal, latched>>
      BY <1>2 DEF Raise, audit
    <2>2. latched' \/ ~Open'
      BY <1>1, <1>2, <2>1 DEF PlaceInv, Open
    <2>3. pc \notin {"ack", "receipt"}
      BY <1>1, <1>2 DEF PlaceInv
    <2>4. Over
      BY <1>1, <2>1, <2>2 DEF Over, Returns, CallType, TypeOK, Logged
    <2>. QED  BY <1>2, <2>1, <2>3, <2>4 DEF Returns
  <1>3. CASE op.kind = "start" /\ pc \notin {"ack", "receipt"}
    <2>1. trail = {}
      <3>1. pc \in {"enable", "trigger"}
        BY <1>1, <1>3 DEF PlaceInv, TypeOK
      <3>. QED  BY <1>1, <1>3, <3>1 DEF PlaceInv, NewTrail
    <2>2. ~Open
      BY <2>1 DEF Open
    <2>3. Ends("raised") /\ UNCHANGED <<trail, journal, latched>>
      BY <1>3, <2>2 DEF Raise, audit
    <2>4. ~Open'
      BY <2>1, <2>3 DEF Open
    <2>5. Over
      BY <1>1, <2>3, <2>4 DEF Over, Ends, CallType, TypeOK, Logged
    <2>. QED  BY <1>3, <2>3, <2>5 DEF Ends
  <1>4. CASE pc \in {"ack", "receipt"}
    <2>1. op.kind = "start" /\ Open
      BY <1>1, <1>4, TrailFacts DEF PlaceInv, Open
    <2>2. Publish("unknown", Ends("raised"))
      BY <2>1 DEF Raise
    <2>. QED  BY <1>4, <2>1, <2>2, ResolvingEnds
  <1>. QED  BY <1>2, <1>3, <1>4
-----------------------------------------------------------------------------
(* Type correctness.                                                       *)

Pages == [doc : 1 .. MaxDocs, own : BOOLEAN, route : Routes \cup {"else"}, shows : Shows,
          list : Lists, loaded : BOOLEAN]
Navs == [kind : {"none", "get", "form"}, route : Routes, attempt : 0 .. MaxAttempts]
Waits == [old : 0 .. MaxDocs, on : BOOLEAN, main : 0 .. MaxDocs, done : BOOLEAN]
Ops == [kind : {"none", "goto", "startup", "start"}, route : Routes, looked : Nat]

(* The tab, the server, and the forms between them.                        *)
WorldType ==
    /\ page \in Pages /\ (page.shows = "list" => page.route \in Routes)
    /\ server \in [list : Lists, battle : {"none", "own", "others"}]
    /\ nav \in Navs
    /\ flight \in [Attempts -> 0 .. 1]
    /\ form \in [Attempts -> {"none", "sent", "battle", "refused"}]

(* What the waiter, the operation and the audit are left as.               *)
WaitType ==
    /\ wait \in Waits
    /\ wait # NoWait => pc \in {"trigger", "land", "ack", "receipt"}

FlowType ==
    /\ pc \in {"idle", "look", "enable", "trigger", "land", "ready", "ack", "receipt"}
    /\ due \in 0 .. 2 /\ op \in Ops /\ reply \in {"none", "submitted", "refused"}
    /\ outcome \in [Attempts -> {"none", "confirmed", "refused", "raised"}]

AskType ==
    /\ visits \in 0 .. MaxVisits /\ attempt \in 0 .. MaxAttempts
    /\ read = NoList \/ read.route \in Routes

LogType ==
    /\ trail \in SUBSET TrailFlags /\ latched \in BOOLEAN
    /\ journal \in [Attempts -> Seq(Events)]

LEMMA TypeParts ==
    /\ TypeOK /\ CallType <=> WorldType /\ WaitType /\ FlowType /\ AskType /\ LogType
    /\ (TypeOK /\ CallType)' <=> WorldType' /\ WaitType' /\ FlowType' /\ AskType' /\ LogType'
  BY Zenon DEF TypeOK, CallType, WorldType, WaitType, FlowType, AskType, LogType, Pages, Navs, Waits, Ops

LEMMA WorldStep ==
    ASSUME LauncherInv, Next
    PROVE  WorldType'
  <1>0. WorldType /\ WaitType /\ FlowType /\ AskType /\ LogType
    BY TypeParts DEF LauncherInv
  <1>1. ASSUME Python PROVE WorldType'
    <2>1. UNCHANGED <<page, server, form>>
      BY <1>1, LauncherKeeps
    <2>2. flight' \in [Attempts -> 0 .. 1]
      <3>1. CASE SendScript
        BY <1>0, <3>1 DEF SendScript, WorldType
      <3>2. CASE ~SendScript
        BY <1>0, <1>1, <3>2, OnlySendScriptFlies DEF WorldType
      <3>. QED  BY <3>1, <3>2
    <2>3. nav' \in Navs
      <3>1. CASE Navigate
        <4>1. nav' = [kind |-> "get", route |-> op.route, attempt |-> 0] /\ op.route \in Routes
          BY <1>0, <3>1 DEF Navigate, FlowType, Ops
        <4>. QED  BY <4>1 DEF Navs
      <3>2. CASE nav' = nav
        BY <1>0, <3>2 DEF WorldType
      <3>3. Navigate \/ nav' = nav
        BY <1>1 DEF Python, Visit, Look, Enable, Land, ProbeRoute, Inspect, Start, SendScript,
                    Acknowledged, AckLost, Confirm, Interrupted, Expired, tab
      <3>. QED  BY <3>1, <3>2, <3>3
    <2>. QED  BY <1>0, <2>1, <2>2, <2>3 DEF WorldType
  <1>2. ASSUME NEW route \in Routes, NEW own \in BOOLEAN, NEW shows \in Shows, Arrive(route, own, shows)
        PROVE  page' \in Pages /\ page'.route \in Routes /\ nav' \in Navs
    <2>1. page.doc + 1 \in 1 .. MaxDocs /\ server.list \in Lists
      BY <1>0, <1>2 DEF Arrive, WorldType, Pages
    <2>2. page' = [doc |-> page.doc + 1, own |-> own, route |-> route, shows |-> shows,
                   list |-> server.list, loaded |-> FALSE]
      BY <1>2 DEF Arrive
    <2>3. nav' \in Navs
      BY <1>2 DEF Arrive, NoNav, Navs
    <2>. QED  BY <2>1, <2>2, <2>3 DEF Pages
  <1>3. CASE Answer
    <2>1. nav.route \in Routes
      BY <1>0 DEF WorldType, Navs
    <2>2. PICK own \in BOOLEAN, shows \in Shows : Arrive(nav.route, own, shows)
      BY <1>3 DEF Answer, Shows, Blockers
    <2>3. own \in BOOLEAN /\ shows \in Shows
      BY <2>2
    <2>4. UNCHANGED <<server, form, flight>>
      BY <1>3 DEF Answer, remote
    <2>. QED  BY <1>0, <1>2, <2>1, <2>2, <2>3, <2>4 DEF WorldType
  <1>4. CASE NavLost
    BY <1>0, <1>4 DEF NavLost, WorldType, NoNav, Navs, remote
  <1>5. CASE Load
    <2>1. page' \in Pages /\ page'.shows = page.shows /\ page'.route = page.route
      BY <1>0, <1>5 DEF Load, WorldType, Pages
    <2>. QED  BY <1>0, <1>5, <2>1 DEF Load, WorldType, remote
  <1>6. CASE Elsewhere
    <2>1. page' \in Pages /\ page'.shows = "nothing"
      <3>1. page.doc + 1 \in 1 .. MaxDocs /\ "nothing" \in Shows
        BY <1>0, <1>6 DEF Elsewhere, WorldType, Pages, Shows
      <3>2. page' = [page EXCEPT !.doc = page.doc + 1, !.route = "else", !.shows = "nothing", !.loaded = TRUE]
        BY <1>6 DEF Elsewhere
      <3>. QED  BY <1>0, <3>1, <3>2 DEF WorldType, Pages
    <2>2. nav' \in Navs
      BY <1>6 DEF Elsewhere, NoNav, Navs
    <2>. QED  BY <1>0, <1>6, <2>1, <2>2 DEF Elsewhere, WorldType, remote
  <1>7. CASE ListChanges \/ OthersFight
    BY <1>0, <1>7 DEF ListChanges, OthersFight, WorldType, tab
  <1>8. ASSUME NEW a \in Attempts, TakeForm(a) PROVE WorldType'
    BY <1>0, <1>8 DEF TakeForm, WorldType, tab
  <1>9. ASSUME NEW a \in Attempts, RunScript(a) PROVE WorldType'
    <2>1. flight' \in [Attempts -> 0 .. 1] /\ form' \in [Attempts -> {"none", "sent", "battle", "refused"}]
      BY <1>0, <1>9 DEF RunScript, WorldType
    <2>2. nav' \in Navs
      <3>1. CASE nav' = nav
        BY <1>0, <3>1 DEF WorldType
      <3>2. CASE Offered(a) /\ nav' = [kind |-> "form", route |-> page.route, attempt |-> a]
        <4>1. page.route \in Routes /\ a \in 0 .. MaxAttempts
          BY <1>0, <3>2 DEF Offered, WorldType, Attempts
        <4>. QED  BY <3>2, <4>1 DEF Navs
      <3>. QED  BY <1>9, <3>1, <3>2 DEF RunScript
    <2>3. UNCHANGED <<page, server>>
      BY <1>9 DEF RunScript
    <2>. QED  BY <1>0, <2>1, <2>2, <2>3 DEF WorldType
  <1>10. CASE DeadlinePasses
    BY <1>0, <1>10 DEF DeadlinePasses, WorldType, tab, remote
  <1>. QED  BY <1>1, <1>3, <1>4, <1>5, <1>6, <1>7, <1>8, <1>9, <1>10 DEF Next, Outside

(* What a plain end, and a resolution, leave of the types.                 *)
LEMMA OverType ==
    ASSUME LauncherInv, Over, wait' = NoWait,
           outcome' = outcome \/ \E how \in {"confirmed", "refused", "raised"} :
                                     outcome' = [outcome EXCEPT ![attempt] = how],
           UNCHANGED asking
    PROVE  WaitType' /\ FlowType' /\ AskType' /\ LogType'
  <1>0. WorldType /\ WaitType /\ FlowType /\ AskType /\ LogType
    BY TypeParts DEF LauncherInv
  <1>1. NoWait \in Waits /\ NoOp \in Ops
    BY DEF NoWait, Waits, NoOp, Ops
  <1>2. outcome' \in [Attempts -> {"none", "confirmed", "refused", "raised"}]
    BY <1>0 DEF FlowType
  <1>. QED  BY <1>0, <1>1, <1>2 DEF Over, Closed, WaitType, FlowType, AskType, LogType, asking

LEMMA LauncherTypeStep ==
    ASSUME LauncherInv, Next
    PROVE  WaitType' /\ FlowType' /\ AskType' /\ LogType'
  <1>0. WorldType /\ WaitType /\ FlowType /\ AskType /\ LogType
    BY TypeParts DEF LauncherInv
  <1>1. page.doc \in 1 .. MaxDocs
    BY <1>0 DEF WorldType, Pages
  <1>2. NoWait \in Waits /\ NoOp \in Ops /\ wait \in Waits /\ op \in Ops
    BY <1>0 DEF NoWait, Waits, NoOp, Ops, WaitType, FlowType
  <1>3. ASSUME NEW kind \in {"goto", "startup"}, NEW route \in Routes, Visit(kind, route)
        PROVE  WaitType' /\ FlowType' /\ AskType' /\ LogType'
    <2>1. op' \in Ops
      BY <1>1, <1>3 DEF Visit, Ops
    <2>2. visits' \in 0 .. MaxVisits
      BY <1>0, <1>3 DEF Visit, AskType
    <2>. QED  BY <1>0, <1>3, <2>1, <2>2 DEF Visit, tab, audit, WaitType, FlowType, AskType, LogType
  <1>4. CASE Look
    BY <1>0, <1>2, <1>4 DEF Look, Returns, Closed, Goto, tab, asking, audit, WaitType, FlowType, AskType, LogType
  <1>5. CASE Enable
    <2>1. wait' \in Waits
      <3>1. wait' = [old |-> page.doc, on |-> FALSE, main |-> 0, done |-> FALSE]
        BY <1>5 DEF Enable, NoWait
      <3>. QED  BY <1>1, <3>1 DEF Waits
    <2>. QED  BY <1>0, <1>5, <2>1 DEF Enable, Goto, asking, audit, WaitType, FlowType, AskType, LogType
  <1>6. CASE Navigate
    <2>1. wait' \in Waits
      <3>1. wait' = [wait EXCEPT !.on = TRUE]
        BY <1>6 DEF Navigate
      <3>. QED  BY <1>2, <3>1 DEF Waits
    <2>. QED  BY <1>0, <1>6, <2>1 DEF Navigate, Goto, asking, audit, WaitType, FlowType, AskType, LogType
  <1>7. CASE Land
    BY <1>0, <1>2, <1>7 DEF Land, Goto, asking, audit, WaitType, FlowType, AskType, LogType
  <1>8. CASE ProbeRoute
    BY <1>0, <1>2, <1>8 DEF ProbeRoute, Returns, Closed, tab, asking, audit, WaitType, FlowType, AskType, LogType
  <1>9. CASE Inspect
    <2>1. page.shows = "list"
      BY <1>9 DEF Inspect, Sights
    <2>2. read'.route \in Routes
      BY <1>0, <1>9, <2>1 DEF Inspect, WorldType
    <2>. QED  BY <1>0, <1>9, <2>2 DEF Inspect, tab, audit, WaitType, FlowType, AskType, LogType
  <1>10. CASE Start
    <2>1. op' \in Ops
      BY <1>0, <1>10 DEF Start, Ops, AskType
    <2>2. attempt' \in 0 .. MaxAttempts
      BY <1>0, <1>10 DEF Start, AskType
    <2>3. trail' \in SUBSET TrailFlags
      BY <1>10 DEF Start, NewTrail
    <2>. QED  BY <1>0, <1>10, <2>1, <2>2, <2>3 DEF Start, tab, WaitType, FlowType, AskType, LogType
  <1>11. CASE Interrupted \/ Expired
    <2>1. /\ Raise /\ pc # "idle" /\ wait' = NoWait /\ UNCHANGED asking
      BY <1>11 DEF Interrupted, Expired
    <2>2. Over /\ (outcome' = outcome \/ outcome' = [outcome EXCEPT ![attempt] = "raised"])
      BY <2>1, RaiseFacts
    <2>. QED  BY <2>1, <2>2, OverType
  <1>12. CASE SendScript
    <2>1. /\ pc = "trigger" /\ op.kind = "start" /\ trail = {}
          /\ TypeOK /\ CallType /\ attempt \in Attempts /\ "intent" \in TrailFlags
      BY <1>12 DEF SendScript, LauncherInv, PlaceInv, NewTrail, TypeOK, Attempts, TrailFlags, Events
    <2>2. /\ Publish("intent", Goto("ack", "none")) /\ UNCHANGED asking
          /\ (~latched' /\ wait' = [wait EXCEPT !.on = TRUE]) \/ (latched' /\ wait' = NoWait)
      BY <1>12 DEF SendScript
    <2>3. LogType' /\ (Goto("ack", "none") \/ (Ends("raised") /\ latched' = TRUE))
      <3>1. LogType'
        BY <2>1, <2>2, PublishFacts DEF LogType
      <3>. QED  BY <2>2, <3>1 DEF Publish
    <2>4. wait' \in Waits
      BY <1>2, <2>2 DEF Waits
    <2>5. CASE Goto("ack", "none")
      <3>1. FlowType' /\ AskType'
        BY <1>0, <2>2, <2>5 DEF Goto, FlowType, AskType, asking
      <3>2. WaitType'
        BY <2>4, <2>5 DEF Goto, WaitType
      <3>. QED  BY <2>3, <3>1, <3>2
    <2>6. CASE Ends("raised") /\ latched' = TRUE
      <3>1. outcome' \in [Attempts -> {"none", "confirmed", "refused", "raised"}]
        BY <1>0, <2>6 DEF Ends, FlowType
      <3>2. FlowType' /\ AskType'
        BY <1>0, <1>2, <2>2, <2>6, <3>1 DEF Ends, Closed, FlowType, AskType, asking
      <3>3. WaitType'
        BY <1>0, <1>2, <2>2, <2>6 DEF Ends, Closed, WaitType
      <3>. QED  BY <2>3, <3>2, <3>3
    <2>. QED  BY <2>3, <2>5, <2>6
  <1>13. CASE Acknowledged
    <2>0. /\ pc = "ack" /\ pc # "idle" /\ pc \in {"ack", "receipt"} /\ UNCHANGED asking
          /\ wait' = IF pc' = "idle" THEN NoWait ELSE wait
      BY <1>13 DEF Acknowledged
    <2>1. TypeOK /\ CallType /\ attempt \in Attempts /\ "submitted" \in TrailFlags
      BY <2>0 DEF LauncherInv, PlaceInv, TypeOK, Attempts, TrailFlags, Events
    <2>2. CASE Publish("submitted", Goto("receipt", IF due = 0 THEN "submitted" ELSE "error"))
      <3>1. LogType' /\ (\/ Goto("receipt", IF due = 0 THEN "submitted" ELSE "error")
                         \/ Ends("raised"))
        <4>1. LogType'
          BY <2>1, <2>2, PublishFacts DEF LogType
        <4>. QED  BY <2>2, <4>1 DEF Publish
      <3>2. CASE Goto("receipt", IF due = 0 THEN "submitted" ELSE "error")
        <4>1. FlowType' /\ AskType'
          BY <1>0, <2>0, <3>2 DEF Goto, FlowType, AskType, asking
        <4>2. WaitType'
          BY <1>0, <2>0, <3>2 DEF Goto, WaitType
        <4>. QED  BY <3>1, <4>1, <4>2
      <3>3. CASE Ends("raised")
        <4>1. outcome' \in [Attempts -> {"none", "confirmed", "refused", "raised"}]
          BY <1>0, <3>3 DEF Ends, FlowType
        <4>2. FlowType' /\ AskType'
          BY <1>0, <1>2, <2>0, <3>3, <4>1 DEF Ends, Closed, FlowType, AskType, asking
        <4>3. WaitType'
          BY <1>0, <1>2, <2>0, <3>3 DEF Ends, Closed, WaitType
        <4>. QED  BY <3>1, <4>2, <4>3
      <3>. QED  BY <3>1, <3>2, <3>3
    <2>3. ASSUME NEW how \in {"refused", "raised"}, Publish("notSubmitted", Ends(how))
          PROVE  WaitType' /\ FlowType' /\ AskType' /\ LogType'
      <3>1. Over /\ \E h \in {"confirmed", "refused", "raised"} : outcome' = [outcome EXCEPT ![attempt] = h]
        BY <2>0, <2>3, ResolvingEnds
      <3>. QED  BY <2>0, <3>1, OverType DEF Over, Closed
    <2>4. CASE Goto("receipt", "error") /\ UNCHANGED audit
      BY <1>0, <2>0, <2>4 DEF Goto, audit, WaitType, FlowType, AskType, LogType, asking
    <2>5. CASE Raise
      <3>1. Over /\ (outcome' = outcome \/ outcome' = [outcome EXCEPT ![attempt] = "raised"])
        BY <2>0, <2>5, RaiseFacts
      <3>. QED  BY <2>0, <3>1, OverType DEF Over, Closed
    <2>6. Publish("notSubmitted", Ends("refused") \/ Ends("raised")) =>
             Publish("notSubmitted", Ends("refused")) \/ Publish("notSubmitted", Ends("raised"))
      BY DEF Publish
    <2>. QED  BY <1>13, <2>2, <2>3, <2>4, <2>5, <2>6 DEF Acknowledged
  <1>14. CASE AckLost
    BY <1>0, <1>14 DEF AckLost, Goto, tab, asking, audit, WaitType, FlowType, AskType, LogType
  <1>15. CASE Confirm
    <2>0. pc = "receipt" /\ pc # "idle" /\ pc \in {"ack", "receipt"} /\ wait' = NoWait /\ UNCHANGED asking
      BY <1>15 DEF Confirm
    <2>1. ASSUME NEW event \in {"receipt", "reconciled"}, Publish(event, Ends("confirmed"))
          PROVE  WaitType' /\ FlowType' /\ AskType' /\ LogType'
      <3>1. Over /\ \E h \in {"confirmed", "refused", "raised"} : outcome' = [outcome EXCEPT ![attempt] = h]
        BY <2>0, <2>1, ResolvingEnds
      <3>. QED  BY <2>0, <3>1, OverType
    <2>2. CASE Raise
      <3>1. Over /\ (outcome' = outcome \/ outcome' = [outcome EXCEPT ![attempt] = "raised"])
        BY <2>0, <2>2, RaiseFacts
      <3>. QED  BY <2>0, <3>1, OverType
    <2>3. \/ Publish("receipt", Ends("confirmed")) \/ Publish("reconciled", Ends("confirmed")) \/ Raise
      BY <1>15 DEF Confirm
    <2>. QED  BY <2>1, <2>2, <2>3
  <1>16. CASE Outside
    <2>1. /\ UNCHANGED <<pc, op, visits, attempt, read, due, reply, trail, journal, latched, outcome>>
      BY <1>16 DEF Outside, asking, audit
    <2>2. FlowType' /\ AskType' /\ LogType'
      BY <1>0, <2>1 DEF FlowType, AskType, LogType
    <2>3. wait' \in Waits /\ (wait = NoWait => wait' = NoWait)
      <3>1. CASE wait' = wait
        BY <1>2, <3>1
      <3>2. ASSUME NEW route, NEW own, NEW shows, Arrive(route, own, shows)
            PROVE  wait' \in Waits /\ (wait = NoWait => wait' = NoWait)
        <4>1. page.doc + 1 \in 0 .. MaxDocs
          BY <1>1, <3>2 DEF Arrive
        <4>. QED  BY <1>2, <3>2, <4>1 DEF Arrive, Waits, NoWait
      <3>3. CASE Load
        BY <1>2, <3>3 DEF Load, Waits, NoWait
      <3>4. (\E route, own, shows : Arrive(route, own, shows)) \/ Load \/ wait' = wait
        BY <1>16 DEF Outside, Answer, NavLost, Elsewhere, ListChanges, OthersFight, TakeForm, tab
      <3>. QED  BY <3>1, <3>2, <3>3, <3>4
    <2>4. WaitType'
      BY <1>0, <2>1, <2>3 DEF WaitType
    <2>. QED  BY <2>2, <2>4
  <1>17. CASE DeadlinePasses
    BY <1>0, <1>17 DEF DeadlinePasses, tab, asking, audit, WaitType, FlowType, AskType, LogType
  <1>18. ASSUME NEW a \in Attempts, RunScript(a)
         PROVE  WaitType' /\ FlowType' /\ AskType' /\ LogType'
    <2>1. reply' \in {"none", "submitted", "refused"}
      BY <1>0, <1>18 DEF RunScript, FlowType
    <2>. QED  BY <1>0, <1>18, <2>1 DEF RunScript, asking, audit, WaitType, FlowType, AskType, LogType
  <1>. QED
    BY <1>3, <1>4, <1>5, <1>6, <1>7, <1>8, <1>9, <1>10, <1>11, <1>12, <1>13, <1>14, <1>15, <1>16,
       <1>17, <1>18 DEF Next, Python
-----------------------------------------------------------------------------
(* A ready list is a new document.                                         *)

LEMMA ReturnFacts ==
    ASSUME NEW kind, Returns(kind)
    PROVE  /\ Closed /\ outcome' = outcome
           /\ result' = NoResult \/ result' = [looked |-> op.looked, doc |-> page.doc]
           /\ kind # "ready" => result' = NoResult
  BY DEF Returns

(* What is over waits for nothing; a list it reports is newer.             *)
LEMMA ClosedWaiter ==
    ASSUME LauncherInv, Closed, wait' = NoWait,
           result' = result \/ result' = NoResult
             \/ (result' = [looked |-> op.looked, doc |-> page.doc] /\ pc = "ready")
    PROVE  WaiterInv'
  <1>1. FreshRoute'
    BY DEF LauncherInv, WaiterInv, FreshRoute
  <1>2. pc' = "idle" /\ wait'.main = 0 /\ ~wait'.done
    BY DEF Closed, NoWait
  <1>. QED  BY <1>1, <1>2 DEF WaiterInv

LEMMA WaiterStep ==
    ASSUME LauncherInv, Next
    PROVE  WaiterInv'
  <1>0. /\ WaiterInv /\ page \in Pages /\ wait \in Waits /\ op \in Ops
        /\ page.doc \in 1 .. MaxDocs /\ op.looked \in Nat
        /\ (wait # NoWait => pc \in {"trigger", "land", "ack", "receipt"})
    BY TypeParts DEF LauncherInv, WorldType, WaitType, FlowType, Pages, Ops
  <1>1. ASSUME NEW kind \in {"goto", "startup"}, NEW route \in Routes, Visit(kind, route)
        PROVE  WaiterInv'
    BY <1>0, <1>1 DEF Visit, tab, WaiterInv, FreshRoute
  <1>2. CASE Look
    <2>1. wait' = wait /\ page' = page /\ wait = NoWait
      BY <1>0, <1>2 DEF Look, tab
    <2>2. CASE Goto("enable", "none")
      BY <1>0, <1>2, <2>1, <2>2 DEF Look, Goto, WaiterInv, FreshRoute
    <2>3. CASE Returns("raised") \/ Returns("blocked")
      BY <2>1, <2>3, ReturnFacts, ClosedWaiter
    <2>. QED  BY <1>2, <2>2, <2>3 DEF Look
  <1>3. CASE Enable
    <2>1. wait' = [old |-> page.doc, on |-> FALSE, main |-> 0, done |-> FALSE]
      BY <1>3 DEF Enable, NoWait
    <2>. QED  BY <1>0, <1>3, <2>1 DEF Enable, Goto, WaiterInv, FreshRoute
  <1>4. CASE Navigate
    <2>1. wait'.old = wait.old /\ wait'.main = wait.main /\ wait'.done = wait.done /\ wait'.on
      BY <1>0, <1>4 DEF Navigate, Waits
    <2>2. wait.main # 0 => wait.on
      BY <1>0 DEF WaiterInv
    <2>. QED  BY <1>0, <1>4, <2>1, <2>2 DEF Navigate, Goto, WaiterInv, FreshRoute
  <1>5. CASE Land
    <2>1. wait'.main = 0 /\ ~wait'.done
      BY <1>5 DEF Land, NoWait
    <2>2. op.looked < page.doc
      BY <1>0, <1>5 DEF Land, WaiterInv, Waits
    <2>. QED  BY <1>0, <1>5, <2>1, <2>2 DEF Land, Goto, WaiterInv, FreshRoute
  <1>6. CASE ProbeRoute
    <2>1. wait' = wait /\ wait = NoWait /\ pc = "ready"
      BY <1>0, <1>6 DEF ProbeRoute, tab
    <2>2. \E kind : Returns(kind)
      BY <1>6 DEF ProbeRoute
    <2>. QED  BY <2>1, <2>2, ReturnFacts, ClosedWaiter
  <1>7. CASE Inspect
    BY <1>0, <1>7 DEF Inspect, tab, WaiterInv, FreshRoute
  <1>8. CASE Start
    <2>1. op'.looked = 0 /\ result' = NoResult /\ pc' = "enable"
      BY <1>8 DEF Start
    <2>. QED  BY <1>0, <1>8, <2>1 DEF Start, tab, WaiterInv, FreshRoute
  <1>9. CASE SendScript
    <2>1. page' = page /\ pc = "trigger"
      BY <1>9 DEF SendScript
    <2>2. CASE Goto("ack", "none") /\ wait' = [wait EXCEPT !.on = TRUE]
      <3>1. wait'.old = wait.old /\ wait'.main = wait.main /\ wait'.done = wait.done /\ wait'.on
        BY <1>0, <2>2 DEF Waits
      <3>. QED  BY <1>0, <2>1, <2>2, <3>1 DEF Goto, WaiterInv, FreshRoute
    <2>3. ~(Goto("ack", "none") /\ latched')
      <3>1. trail = {}
        BY <1>9, <2>1 DEF SendScript, LauncherInv, PlaceInv, NewTrail
      <3>2. Published(trail, "intent") # <<>>
        BY <3>1 DEF Published, Accepts
      <3>3. pc' = "ack" => latched' = FALSE
        <4>1. latched \in BOOLEAN
          BY DEF LauncherInv, TypeOK
        <4>. QED  BY <1>9, <3>2, <4>1 DEF SendScript, Publish, Ends, Closed
      <3>. QED  BY <3>3 DEF Goto
    <2>4. CASE Ends("raised") /\ wait' = NoWait
      BY <2>4, ClosedWaiter DEF Ends
    <2>5. Goto("ack", "none") \/ Ends("raised")
      BY <1>9 DEF SendScript, Publish
    <2>6. (latched' /\ wait' = NoWait) \/ (~latched' /\ wait' = [wait EXCEPT !.on = TRUE])
      BY <1>9 DEF SendScript
    <2>7. Ends("raised") /\ ~Goto("ack", "none") => wait' = NoWait
      BY <1>9, <2>6 DEF SendScript, Publish
    <2>. QED  BY <2>2, <2>3, <2>4, <2>5, <2>6, <2>7
  <1>10. CASE AckLost
    BY <1>0, <1>10 DEF AckLost, Goto, tab, WaiterInv, FreshRoute
  <1>11. CASE Interrupted \/ Expired
    <2>1. /\ Raise /\ pc # "idle" /\ wait' = NoWait
      BY <1>11 DEF Interrupted, Expired
    <2>2. Over /\ (result' = result \/ result' = NoResult)
      BY <2>1, RaiseFacts
    <2>. QED  BY <2>1, <2>2, ClosedWaiter DEF Over
  <1>12. CASE Acknowledged
    <2>1. /\ pc = "ack" /\ page' = page /\ wait' = IF pc' = "idle" THEN NoWait ELSE wait
      BY <1>12 DEF Acknowledged
    <2>2. ASSUME NEW w, Goto("receipt", w) PROVE WaiterInv'
      BY <1>0, <2>1, <2>2 DEF Goto, WaiterInv, FreshRoute
    <2>3. ASSUME NEW how, Ends(how) PROVE WaiterInv'
      <3>1. Closed /\ result' = result /\ wait' = NoWait
        BY <2>1, <2>3 DEF Ends, Closed
      <3>. QED  BY <3>1, ClosedWaiter
    <2>4. CASE Raise
      <3>1. Over /\ (result' = result \/ result' = NoResult)
        BY <2>1, <2>4, RaiseFacts
      <3>. QED  BY <2>1, <3>1, ClosedWaiter DEF Over, Closed
    <2>. QED  BY <1>12, <2>2, <2>3, <2>4 DEF Acknowledged, Publish
  <1>13. CASE Confirm
    <2>1. pc = "receipt" /\ wait' = NoWait
      BY <1>13 DEF Confirm
    <2>2. ASSUME NEW how, Ends(how) PROVE WaiterInv'
      BY <2>1, <2>2, ClosedWaiter DEF Ends
    <2>3. CASE Raise
      <3>1. Over /\ (result' = result \/ result' = NoResult)
        BY <2>1, <2>3, RaiseFacts
      <3>. QED  BY <2>1, <3>1, ClosedWaiter DEF Over
    <2>. QED  BY <1>13, <2>2, <2>3 DEF Confirm, Publish
  <1>14. CASE DeadlinePasses \/ \E a \in Attempts : RunScript(a)
    BY <1>0, <1>14 DEF DeadlinePasses, RunScript, tab, WaiterInv, FreshRoute
  <1>15. CASE Outside
    <2>0. UNCHANGED <<pc, op, result>>
      BY <1>15 DEF Outside
    <2>1. ASSUME NEW route, NEW own, NEW shows, Arrive(route, own, shows) PROVE WaiterInv'
      <3>1. page'.doc = page.doc + 1
        BY <2>1 DEF Arrive
      <3>2. wait' = wait \/ (wait.on /\ wait' = [wait EXCEPT !.main = page.doc + 1])
        BY <2>1 DEF Arrive
      <3>3. CASE wait' = wait
        BY <1>0, <2>0, <3>1, <3>3 DEF WaiterInv, FreshRoute, Waits
      <3>4. CASE wait.on /\ wait' = [wait EXCEPT !.main = page.doc + 1]
        <4>1. wait'.old = wait.old /\ wait'.main = page.doc + 1 /\ wait'.done = wait.done /\ wait'.on
          BY <1>0, <3>4 DEF Waits
        <4>2. wait # NoWait
          BY <3>4 DEF NoWait
        <4>. QED  BY <1>0, <2>0, <3>1, <3>4, <4>1, <4>2 DEF WaiterInv, FreshRoute, Waits
      <3>. QED  BY <3>2, <3>3, <3>4
    <2>2. CASE Load
      <3>1. page'.doc = page.doc
        BY <1>0, <2>2 DEF Load, Pages
      <3>2. wait' = wait \/ (wait.on /\ wait.main = page.doc /\ wait' = [wait EXCEPT !.done = TRUE])
        BY <2>2 DEF Load
      <3>3. CASE wait' = wait
        BY <1>0, <2>0, <3>1, <3>3 DEF WaiterInv, FreshRoute
      <3>4. CASE wait.on /\ wait.main = page.doc /\ wait' = [wait EXCEPT !.done = TRUE]
        <4>1. wait'.old = wait.old /\ wait'.main = wait.main /\ wait'.done /\ wait'.on
          BY <1>0, <3>4 DEF Waits
        <4>. QED  BY <1>0, <2>0, <3>1, <3>4, <4>1 DEF WaiterInv, FreshRoute
      <3>. QED  BY <3>2, <3>3, <3>4
    <2>3. CASE Elsewhere
      <3>1. page'.doc = page.doc + 1 /\ wait' = wait /\ pc = "idle" /\ wait = NoWait
        BY <1>0, <2>3 DEF Elsewhere, Pages
      <3>. QED  BY <1>0, <2>0, <3>1 DEF WaiterInv, FreshRoute, NoWait
    <2>4. CASE UNCHANGED <<page, wait>>
      BY <1>0, <2>0, <2>4 DEF WaiterInv, FreshRoute
    <2>5. (\E route, own, shows : Arrive(route, own, shows)) \/ Load \/ Elsewhere \/ UNCHANGED <<page, wait>>
      BY <1>15 DEF Outside, Answer, NavLost, ListChanges, OthersFight, TakeForm, tab
    <2>. QED  BY <2>1, <2>2, <2>3, <2>4, <2>5
  <1>. QED
    BY <1>1, <1>2, <1>3, <1>4, <1>5, <1>6, <1>7, <1>8, <1>9, <1>10, <1>11, <1>12, <1>13, <1>14,
       <1>15 DEF Next, Python
-----------------------------------------------------------------------------
(* The end of an operation.                                                *)

(* A script is sent under an intent on record, or not at all.              *)
LEMMA SendFacts ==
    ASSUME LauncherInv, SendScript
    PROVE  /\ pc = "trigger" /\ op.kind = "start" /\ attempt \in Attempts
           /\ Unsent(attempt) /\ attempt' = attempt
           /\ \A a \in Attempts, e \in Events : Logged(a, e) => Logged(a, e)'
           /\ \/ /\ pc' = "ack" /\ op' = op /\ reply' = reply /\ outcome' = outcome
                 /\ trail' = {"intent"} /\ flight' = [flight EXCEPT ![attempt] = 1]
                 /\ Logged(attempt, "intent")'
              \/ Over /\ outcome' = [outcome EXCEPT ![attempt] = "raised"] /\ flight' = flight
  <1>1. /\ pc = "trigger" /\ op.kind = "start" /\ trail = {} /\ Unsent(attempt)
        /\ TypeOK /\ CallType /\ attempt \in Attempts /\ "intent" \in TrailFlags /\ "intent" \in Events
    BY DEF SendScript, LauncherInv, PlaceInv, ScriptInv, Unsent, NewTrail, TypeOK, Attempts, TrailFlags, Events
  <1>2. attempt' = attempt /\ Publish("intent", Goto("ack", "none"))
    BY DEF SendScript, asking
  <1>3. /\ journal' \in [Attempts -> Seq(Events)]
        /\ trail' \in SUBSET TrailFlags /\ latched' \in BOOLEAN
        /\ \A a \in Attempts, e \in Events : Logged(a, e) => Logged(a, e)'
    BY <1>1, <1>2, PublishFacts
  <1>4. Accepts(trail, "intent") /\ Published(trail, "intent") = <<"intent">> /\ <<"intent">> # <<>>
    BY <1>1 DEF Accepts, Published
  <1>5. CASE /\ ~latched /\ latched' = latched /\ Goto("ack", "none")
             /\ journal' = [journal EXCEPT ![attempt] = @ \o <<"intent">>]
             /\ trail' = Marked(trail, "intent")
    <2>1. trail' = {"intent"}
      BY <1>1, <1>4, <1>5 DEF Marked
    <2>2. Logged(attempt, "intent")'
      <3>1. journal \in [Attempts -> Seq(Events)] /\ <<"intent">> \in Seq(Events)
        BY <1>1 DEF CallType
      <3>2. \A a \in Attempts, e \in Events : a = attempt /\ <<"intent">> = <<e>> => Logged(a, e)'
        BY <1>1, <1>5, <3>1, LogGrows
      <3>3. ASSUME NEW a \in Attempts, a = attempt PROVE Logged(a, "intent")'
        BY <1>1, <3>2, <3>3
      <3>. QED  BY <1>1, <1>2, <3>3 DEF Logged
    <2>3. flight' = [flight EXCEPT ![attempt] = 1]
      BY <1>5 DEF SendScript
    <2>. QED  BY <1>1, <1>2, <1>3, <1>5, <2>1, <2>2, <2>3 DEF Goto
  <1>6. CASE Ends("raised") /\ latched' = TRUE
    <2>1. flight' = flight
      BY <1>6 DEF SendScript
    <2>2. Over /\ outcome' = [outcome EXCEPT ![attempt] = "raised"]
      BY <1>3, <1>6 DEF Over, Ends
    <2>. QED  BY <1>1, <1>2, <1>3, <2>1, <2>2
  <1>. QED  BY <1>2, <1>4, <1>5, <1>6 DEF Publish

(* What an answer of the script leads to.                                  *)
LEMMA AnswerFacts ==
    ASSUME LauncherInv, Acknowledged
    PROVE  /\ pc = "ack" /\ op.kind = "start" /\ attempt \in Attempts /\ attempt' = attempt
           /\ \A a \in Attempts, e \in Events : Logged(a, e) => Logged(a, e)'
           /\ \/ /\ pc' = "receipt" /\ op' = op /\ reply' = reply /\ outcome' = outcome
                 /\ trail' \in {{"intent"}, {"intent", "submitted"}}
              \/ /\ Over
                 /\ outcome' \in {[outcome EXCEPT ![attempt] = how] : how \in {"refused", "raised"}}
                 /\ reply = "refused" \/ GivenUp'
  <1>1. /\ pc = "ack" /\ pc # "idle" /\ pc \in {"ack", "receipt"} /\ op.kind = "start" /\ trail = {"intent"}
        /\ TypeOK /\ CallType /\ attempt \in Attempts /\ "submitted" \in TrailFlags /\ attempt' = attempt
    BY DEF Acknowledged, LauncherInv, PlaceInv, TypeOK, Attempts, TrailFlags, Events, asking
  <1>2. CASE Publish("submitted", Goto("receipt", IF due = 0 THEN "submitted" ELSE "error"))
    <2>1. /\ journal' \in [Attempts -> Seq(Events)]
          /\ trail' \in SUBSET TrailFlags /\ latched' \in BOOLEAN
          /\ \A a \in Attempts, e \in Events : Logged(a, e) => Logged(a, e)'
      BY <1>1, <1>2, PublishFacts
    <2>2. CASE /\ Goto("receipt", IF due = 0 THEN "submitted" ELSE "error")
               /\ trail' = Marked(trail, "submitted")
      <3>1. trail' \in {{"intent"}, {"intent", "submitted"}}
        BY <1>1, <2>2 DEF Marked
      <3>. QED  BY <1>1, <2>1, <2>2, <3>1 DEF Goto
    <2>3. CASE Ends("raised") /\ latched' = TRUE
      BY <1>1, <2>1, <2>3 DEF Ends, Over, GivenUp
    <2>. QED  BY <1>2, <2>2, <2>3 DEF Publish
  <1>3. ASSUME NEW how \in {"refused", "raised"}, Publish("notSubmitted", Ends(how)), reply = "refused"
        PROVE  /\ Over
               /\ outcome' \in {[outcome EXCEPT ![attempt] = h] : h \in {"refused", "raised"}}
    BY <1>1, <1>3, ResolvingEnds
  <1>4. CASE Goto("receipt", "error") /\ UNCHANGED audit
    BY <1>1, <1>4 DEF Goto, audit, Logged
  <1>5. CASE Raise
    BY <1>1, <1>5, RaiseFacts DEF Over
  <1>6. Publish("notSubmitted", Ends("refused") \/ Ends("raised")) =>
           Publish("notSubmitted", Ends("refused")) \/ Publish("notSubmitted", Ends("raised"))
    BY DEF Publish
  <1>7. CASE reply = "refused" /\ Publish("notSubmitted", Ends("refused") \/ Ends("raised"))
    <2>1. /\ Over
          /\ outcome' \in {[outcome EXCEPT ![attempt] = h] : h \in {"refused", "raised"}}
      BY <1>3, <1>6, <1>7
    <2>. QED  BY <1>1, <1>7, <2>1 DEF Over
  <1>. QED  BY <1>2, <1>4, <1>5, <1>7 DEF Acknowledged

(* A new document is the receipt of a form, or nothing is known of it.     *)
LEMMA ConfirmFacts ==
    ASSUME LauncherInv, Confirm
    PROVE  /\ pc = "receipt" /\ op.kind = "start" /\ attempt \in Attempts /\ attempt' = attempt
           /\ Over
           /\ \/ /\ outcome' = [outcome EXCEPT ![attempt] = "confirmed"]
                 /\ wait.done /\ page.own /\ page.shows = "battle"
              \/ outcome' = [outcome EXCEPT ![attempt] = "raised"] /\ GivenUp'
  <1>1. /\ pc = "receipt" /\ pc # "idle" /\ pc \in {"ack", "receipt"} /\ op.kind = "start"
        /\ attempt \in Attempts /\ attempt' = attempt
    BY DEF Confirm, LauncherInv, PlaceInv, TypeOK, Attempts, asking
  <1>2. ASSUME NEW event \in {"receipt", "reconciled"}, Publish(event, Ends("confirmed")),
               NEW sight \in Sights, IsReceipt(sight)
        PROVE  /\ Over
               /\ \/ outcome' = [outcome EXCEPT ![attempt] = "confirmed"] /\ page.own /\ page.shows = "battle"
                  \/ outcome' = [outcome EXCEPT ![attempt] = "raised"] /\ GivenUp'
    <2>1. page.own /\ page.shows = "battle"
      BY <1>2 DEF Sights, IsReceipt
    <2>. QED  BY <1>1, <1>2, <2>1, ResolvingEnds
  <1>3. CASE Raise
    BY <1>1, <1>3, RaiseFacts
  <1>4. wait.done
    BY DEF Confirm
  <1>. QED  BY <1>1, <1>2, <1>3, <1>4 DEF Confirm

LEMMA LogKept ==
    ASSUME LauncherInv, Next
    PROVE  \A a \in Attempts, e \in Events : Logged(a, e) => Logged(a, e)'
  <1>1. CASE SendScript \/ Acknowledged \/ Confirm
    BY <1>1, SendFacts, AnswerFacts, ConfirmFacts DEF Over
  <1>2. CASE Interrupted \/ Expired
    <2>1. Raise /\ pc # "idle"
      BY <1>2 DEF Interrupted, Expired
    <2>. QED  BY <2>1, RaiseFacts DEF Over
  <1>3. CASE journal' = journal
    BY <1>3 DEF Logged
  <1>4. \/ SendScript \/ Acknowledged \/ Confirm \/ Interrupted \/ Expired
        \/ journal' = journal
    <2>1. CASE Python
      BY <2>1 DEF Python, Visit, Look, Enable, Navigate, Land, ProbeRoute, Inspect, Start, AckLost, audit
    <2>2. CASE ~Python
      BY <2>2, OutsideKeeps DEF Next
    <2>. QED  BY <2>1, <2>2
  <1>. QED  BY <1>1, <1>2, <1>3, <1>4
-----------------------------------------------------------------------------
(* Places, scripts and fates.                                              *)

(* An operation that is over is at the place of none.                      *)
LEMMA OverPlace ==
    ASSUME Over
    PROVE  /\ PlaceInv' /\ pc' = "idle" /\ op'.kind = "none" /\ reply' = "none"
  <1>1. pc' = "idle" /\ op'.kind = "none" /\ reply' = "none" /\ (latched' \/ ~Open')
    BY DEF Over, Closed, NoOp
  <1>. QED  BY <1>1 DEF PlaceInv

(* Interrupted and expired operations, in one.                             *)
LEMMA BreakFacts ==
    ASSUME LauncherInv, Interrupted \/ Expired
    PROVE  /\ Over /\ attempt' = attempt
           /\ op.kind # "start" => outcome' = outcome
           /\ op.kind = "start" => outcome' = [outcome EXCEPT ![attempt] = "raised"]
           /\ pc \in {"ack", "receipt"} => GivenUp'
           /\ pc # "idle"
  BY RaiseFacts DEF Interrupted, Expired, asking

(* What a visit does, and a start before its script is sent.               *)
LEMMA VisitMoves ==
    ASSUME LauncherInv, Look \/ Enable \/ Navigate \/ Land \/ ProbeRoute
    PROVE  /\ UNCHANGED <<attempt, trail, journal, latched, outcome>>
           /\ \/ op.kind # "start" /\ pc' = "idle" /\ op' = NoOp /\ reply' = "none"
              \/ /\ op' = op /\ reply' = reply
                 /\ \/ pc = "look" /\ pc' = "enable"
                    \/ pc = "enable" /\ pc' = "trigger"
                    \/ pc = "trigger" /\ pc' = "land" /\ op.kind # "start"
                    \/ pc = "land" /\ pc' = "ready"
  <1>1. CASE Look
    BY <1>1 DEF Look, Goto, Returns, Closed, asking, audit, LauncherInv, PlaceInv
  <1>2. CASE Enable \/ Navigate \/ Land
    BY <1>2 DEF Enable, Navigate, Land, Goto, asking, audit
  <1>3. CASE ProbeRoute
    BY <1>3 DEF ProbeRoute, Returns, Closed, asking, audit, LauncherInv, PlaceInv
  <1>. QED  BY <1>1, <1>2, <1>3

LEMMA PlaceStep ==
    ASSUME LauncherInv, Next
    PROVE  PlaceInv'
  <1>0. PlaceInv /\ TypeOK
    BY DEF LauncherInv
  <1>1. ASSUME NEW kind \in {"goto", "startup"}, NEW route \in Routes, Visit(kind, route)
        PROVE  PlaceInv'
    <2>1. op'.kind = kind /\ pc' = "look" /\ op.kind # "start"
      BY <1>0, <1>1 DEF Visit, PlaceInv
    <2>2. (latched \/ ~Open) => (latched \/ ~Open)'
      BY <1>1 DEF Visit, audit, Open
    <2>. QED  BY <1>0, <2>1, <2>2 DEF PlaceInv
  <1>2. CASE Look \/ Enable \/ Navigate \/ Land \/ ProbeRoute
    <2>1. (latched \/ ~Open) => (latched \/ ~Open)'
      BY <1>2, VisitMoves DEF Open
    <2>. QED  BY <1>0, <1>2, <2>1, VisitMoves DEF PlaceInv, NoOp
  <1>3. CASE Inspect
    BY <1>0, <1>3 DEF Inspect, audit, PlaceInv, Open, Logged
  <1>4. CASE Start
    <2>1. op'.kind = "start" /\ pc' = "enable" /\ attempt' = attempt + 1 /\ trail' = NewTrail
          /\ outcome' = outcome
      BY <1>4 DEF Start
    <2>2. attempt + 1 \in Attempts /\ attempt + 1 > 0 /\ outcome[attempt + 1] = "none"
      BY <1>0, <1>4 DEF Start, LauncherInv, ScriptInv, TypeOK, Attempts
    <2>. QED  BY <2>1, <2>2 DEF PlaceInv
  <1>5. CASE SendScript
    <2>1. CASE /\ pc' = "ack" /\ op' = op /\ reply' = reply /\ outcome' = outcome
               /\ trail' = {"intent"} /\ Logged(attempt, "intent")'
      BY <1>0, <1>5, <2>1, SendFacts DEF PlaceInv
    <2>. QED  BY <1>5, <2>1, SendFacts, OverPlace
  <1>6. CASE Acknowledged
    <2>1. CASE /\ pc' = "receipt" /\ op' = op /\ outcome' = outcome
               /\ trail' \in {{"intent"}, {"intent", "submitted"}}
      <3>1. pc = "ack" /\ attempt' = attempt /\ attempt \in Attempts /\ "intent" \in Events
        BY <1>6, AnswerFacts DEF Events
      <3>2. Logged(attempt, "intent") /\ op.kind = "start" /\ attempt > 0 /\ outcome[attempt] = "none"
        BY <1>0, <3>1 DEF PlaceInv
      <3>3. \A a \in Attempts, e \in Events : Logged(a, e) => Logged(a, e)'
        BY <1>6, AnswerFacts
      <3>4. Logged(attempt, "intent")'
        BY <3>1, <3>2, <3>3 DEF Logged
      <3>. QED  BY <2>1, <3>1, <3>2, <3>4 DEF PlaceInv
    <2>. QED  BY <1>6, <2>1, AnswerFacts, OverPlace
  <1>7. CASE AckLost
    <2>1. UNCHANGED <<op, attempt, outcome, trail, journal>> /\ pc = "ack" /\ pc' = "receipt"
      BY <1>7 DEF AckLost, Goto, asking, audit
    <2>2. Logged(attempt, "intent") => Logged(attempt, "intent")'
      BY <2>1 DEF Logged
    <2>. QED  BY <1>0, <2>1, <2>2 DEF PlaceInv
  <1>8. CASE Confirm \/ Interrupted \/ Expired
    BY <1>8, ConfirmFacts, BreakFacts, OverPlace
  <1>9. CASE Outside \/ DeadlinePasses \/ \E a \in Attempts : RunScript(a)
    <2>1. UNCHANGED <<pc, op, attempt, trail, journal, latched, outcome>>
      BY <1>9, OutsideKeeps
    <2>. QED  BY <1>0, <2>1 DEF PlaceInv, Open, Logged
  <1>. QED  BY <1>1, <1>2, <1>3, <1>4, <1>5, <1>6, <1>7, <1>8, <1>9 DEF Next, Python

(* What scripts and forms are said to be stays true while they are alone.  *)
LEMMA ScriptKept ==
    ASSUME LauncherInv, Next, UNCHANGED <<flight, form, attempt, outcome>>,
           reply' = "none" \/ (reply' = reply /\ (pc' = pc \/ pc' \in {"ack", "receipt"})),
           op'.kind = "start" /\ pc' \in {"enable", "trigger"} =>
             op.kind = "start" /\ pc \in {"enable", "trigger"}
    PROVE  ScriptInv'
  <1>1. \A a \in Attempts : Logged(a, "intent") => Logged(a, "intent")'
    BY LogKept DEF Events
  <1>. QED  BY <1>1 DEF LauncherInv, ScriptInv

LEMMA ScriptStep ==
    ASSUME LauncherInv, Next
    PROVE  ScriptInv'
  <1>0. /\ ScriptInv /\ PlaceInv /\ attempt \in 0 .. MaxAttempts /\ Attempts = 1 .. MaxAttempts
        /\ flight \in [Attempts -> 0 .. 1]
        /\ form \in [Attempts -> {"none", "sent", "battle", "refused"}]
        /\ outcome \in [Attempts -> {"none", "confirmed", "refused", "raised"}]
    BY DEF LauncherInv, TypeOK, Attempts
  <1>1. \A a \in Attempts : Logged(a, "intent") => Logged(a, "intent")'
    BY LogKept DEF Events
  <1>2. ASSUME Over, attempt \in Attempts, attempt' = attempt, UNCHANGED <<flight, form>>,
               \A a \in Attempts : a # attempt => outcome'[a] = outcome[a]
        PROVE  ScriptInv'
    BY <1>0, <1>1, <1>2, OverPlace DEF ScriptInv
  <1>3. ASSUME NEW kind \in {"goto", "startup"}, NEW route \in Routes, Visit(kind, route)
        PROVE  ScriptInv'
    <2>1. UNCHANGED <<flight, form, attempt, outcome, reply>> /\ op'.kind # "start" /\ reply = "none"
      BY <1>0, <1>3 DEF Visit, remote, ScriptInv, PlaceInv
    <2>. QED  BY <2>1, ScriptKept
  <1>4. CASE Look \/ Enable \/ Navigate \/ Land \/ ProbeRoute
    <2>1. UNCHANGED <<flight, form>>
      BY <1>4 DEF Look, Enable, Navigate, Land, ProbeRoute, remote
    <2>2. (op.kind = "start" => pc # "look") /\ reply' = "none"
      BY <1>0, <1>4, VisitMoves DEF PlaceInv, ScriptInv
    <2>. QED  BY <1>4, <2>1, <2>2, VisitMoves, ScriptKept DEF NoOp
  <1>5. CASE Inspect
    BY <1>5, ScriptKept DEF Inspect, remote
  <1>6. CASE Start
    <2>1. /\ UNCHANGED <<flight, form, outcome, reply>> /\ reply = "none"
          /\ attempt' = attempt + 1 /\ attempt + 1 \in Attempts /\ attempt' \in Attempts
      BY <1>0, <1>6 DEF Start, remote, ScriptInv, PlaceInv
    <2>2. form[attempt'] = "none" /\ flight[attempt'] = 0
      BY <1>0, <2>1 DEF ScriptInv
    <2>. QED  BY <1>0, <1>1, <2>1, <2>2 DEF ScriptInv
  <1>7. CASE SendScript
    <2>1. form' = form
      BY <1>7 DEF SendScript
    <2>2. CASE /\ pc' = "ack" /\ op' = op /\ reply' = reply /\ outcome' = outcome
               /\ flight' = [flight EXCEPT ![attempt] = 1] /\ Logged(attempt, "intent")'
      <3>1. /\ attempt \in Attempts /\ attempt' = attempt /\ form[attempt] = "none"
            /\ pc = "trigger" /\ op.kind = "start" /\ flight[attempt] = 0
        BY <1>7, SendFacts DEF Unsent
      <3>2. reply # "refused"
        <4>1. reply = "none"
          BY <1>0, <3>1 DEF ScriptInv
        <4>. QED  BY <4>1
      <3>3. ASSUME NEW a \in Attempts, flight'[a] > 0 \/ form'[a] # "none"
            PROVE  Logged(a, "intent")'
        <4>1. CASE a = attempt
          BY <2>2, <3>1, <4>1 DEF Logged
        <4>2. CASE a # attempt
          BY <1>0, <1>1, <2>1, <2>2, <3>3, <4>2 DEF ScriptInv
        <4>. QED  BY <4>1, <4>2
      <3>. QED  BY <1>0, <2>1, <2>2, <3>1, <3>2, <3>3 DEF ScriptInv
    <2>3. CASE Over /\ outcome' = [outcome EXCEPT ![attempt] = "raised"] /\ flight' = flight
      BY <1>0, <1>2, <1>7, <2>1, <2>3, SendFacts
    <2>. QED  BY <1>7, <2>2, <2>3, SendFacts
  <1>8. CASE Acknowledged
    <2>1. UNCHANGED <<flight, form>> /\ attempt' = attempt /\ attempt \in Attempts
      BY <1>8, AnswerFacts DEF Acknowledged, remote
    <2>2. CASE pc' = "receipt" /\ op' = op /\ reply' = reply /\ outcome' = outcome
      BY <2>1, <2>2, ScriptKept
    <2>3. CASE Over /\ outcome' \in {[outcome EXCEPT ![attempt] = how] : how \in {"refused", "raised"}}
      BY <1>0, <1>2, <2>1, <2>3
    <2>. QED  BY <1>8, <2>2, <2>3, AnswerFacts
  <1>9. CASE AckLost
    BY <1>9, ScriptKept DEF AckLost, Goto, remote, asking
  <1>10. CASE Confirm
    <2>1. UNCHANGED <<flight, form>>
      BY <1>10 DEF Confirm, remote
    <2>. QED  BY <1>0, <1>2, <1>10, <2>1, ConfirmFacts
  <1>11. CASE Interrupted \/ Expired
    <2>1. UNCHANGED <<flight, form>>
      BY <1>11 DEF Interrupted, Expired, remote
    <2>2. CASE op.kind = "start"
      <3>1. attempt \in Attempts
        BY <1>0, <2>2 DEF PlaceInv
      <3>. QED  BY <1>0, <1>2, <1>11, <2>1, <2>2, <3>1, BreakFacts
    <2>3. CASE op.kind # "start"
      BY <1>11, <2>1, <2>3, BreakFacts, OverPlace, ScriptKept
    <2>. QED  BY <2>2, <2>3
  <1>12. ASSUME NEW a \in Attempts, RunScript(a) PROVE ScriptInv'
    <2>1. /\ UNCHANGED <<pc, op, attempt, outcome>>
          /\ flight[a] > 0 /\ flight' = [flight EXCEPT ![a] = 0]
          /\ form' = form \/ form' = [form EXCEPT ![a] = "sent"]
          /\ reply' = reply \/ (pc = "ack" /\ attempt = a /\ reply' # "none" /\ (reply' = "refused" => form' = form))
      BY <1>12 DEF RunScript, asking
    <2>2. form[a] = "none" /\ Logged(a, "intent") /\ a <= attempt
      BY <1>0, <2>1 DEF ScriptInv
    <2>3. ~(op.kind = "start" /\ pc \in {"enable", "trigger"} /\ a = attempt)
      BY <1>0, <2>1 DEF ScriptInv
    <2>4. reply = "refused" => a # attempt
      BY <1>0, <2>1 DEF ScriptInv
    <2>5. pc = "ack" => op.kind = "start"
      BY <1>0 DEF PlaceInv
    <2>6. \A b \in Attempts : flight'[b] > 0 => form'[b] = "none"
      BY <1>0, <2>1 DEF ScriptInv
    <2>7. \A b \in Attempts : flight'[b] > 0 \/ form'[b] # "none" => Logged(b, "intent")'
      BY <1>0, <1>1, <2>1, <2>2 DEF ScriptInv
    <2>8. \A b \in Attempts : b > attempt => form'[b] = "none" /\ flight'[b] = 0 /\ outcome'[b] = "none"
      BY <1>0, <2>1, <2>2 DEF ScriptInv
    <2>9. op.kind = "start" /\ pc \in {"enable", "trigger"} => form'[attempt] = "none" /\ flight'[attempt] = 0
      BY <1>0, <2>1, <2>3 DEF ScriptInv, PlaceInv
    <2>10. reply' = "refused" => form'[attempt] = "none" /\ flight'[attempt] = 0
      BY <1>0, <2>1, <2>2, <2>4 DEF ScriptInv
    <2>. QED  BY <1>0, <2>1, <2>5, <2>6, <2>7, <2>8, <2>9, <2>10 DEF ScriptInv
  <1>13. ASSUME NEW a \in Attempts, TakeForm(a), Outside PROVE ScriptInv'
    <2>1. /\ UNCHANGED <<pc, op, attempt, outcome, flight, reply>>
          /\ form[a] = "sent" /\ \E f \in {"battle", "refused"} : form' = [form EXCEPT ![a] = f]
      BY <1>13, OutsideKeeps DEF TakeForm
    <2>. QED  BY <1>0, <1>1, <2>1 DEF ScriptInv
  <1>14. CASE (Outside /\ form' = form) \/ DeadlinePasses
    <2>1. UNCHANGED <<flight, form, attempt, outcome, reply, op, pc>>
      BY <1>14, OutsideKeeps DEF DeadlinePasses, remote
    <2>. QED  BY <2>1, ScriptKept
  <1>15. Outside => form' = form \/ \E a \in Attempts : TakeForm(a)
    BY DEF Outside, Answer, NavLost, Load, Elsewhere, ListChanges, OthersFight, remote
  <1>. QED
    BY <1>3, <1>4, <1>5, <1>6, <1>7, <1>8, <1>9, <1>10, <1>11, <1>12, <1>13, <1>14, <1>15 DEF Next, Python

(* One that gave up never stops having given up.                           *)
LEMMA GivenUpKept ==
    ASSUME LauncherInv, Next, GivenUp
    PROVE  GivenUp'
  <1>1. latched => latched'
    <2>1. CASE Interrupted \/ Expired \/ SendScript \/ Acknowledged \/ Confirm
      BY <2>1 DEF Interrupted, Expired, SendScript, Acknowledged, Confirm, Raise, Publish, audit
    <2>2. CASE Python /\ ~(Interrupted \/ Expired \/ SendScript \/ Acknowledged \/ Confirm)
      BY <2>2 DEF Python, Visit, Look, Enable, Navigate, Land, ProbeRoute, Inspect, Start, AckLost, audit
    <2>3. CASE ~Python
      BY <2>3, OutsideKeeps DEF Next
    <2>. QED  BY <2>1, <2>2, <2>3
  <1>2. \A a \in Attempts : Logged(a, "unknown") => Logged(a, "unknown")'
    BY LogKept DEF Events
  <1>. QED  BY <1>1, <1>2 DEF GivenUp

(* Forms stay as they are but for scripts that run and a server that takes *)
(* them; both concern forms whose fate is open.                            *)
LEMMA UnsentKept ==
    ASSUME LauncherInv, Next, NEW a \in Attempts, Unsent(a), ~(SendScript /\ a = attempt)
    PROVE  Unsent(a)'
  <1>0. /\ flight \in [Attempts -> 0 .. 1]
        /\ form \in [Attempts -> {"none", "sent", "battle", "refused"}]
    BY DEF LauncherInv, TypeOK
  <1>1. CASE SendScript
    <2>1. form' = form /\ (flight' = flight \/ flight' = [flight EXCEPT ![attempt] = 1])
      BY <1>1 DEF SendScript
    <2>. QED  BY <1>0, <1>1, <2>1 DEF Unsent
  <1>2. CASE Python /\ ~SendScript
    BY <1>2, LauncherKeeps, OnlySendScriptFlies DEF Unsent
  <1>3. ASSUME NEW b \in Attempts, RunScript(b) PROVE Unsent(a)'
    BY <1>0, <1>3 DEF RunScript, Unsent
  <1>4. ASSUME NEW b \in Attempts, TakeForm(b) PROVE Unsent(a)'
    BY <1>0, <1>4 DEF TakeForm, Unsent
  <1>5. CASE DeadlinePasses \/ Answer \/ NavLost \/ Load \/ Elsewhere \/ ListChanges \/ OthersFight
    BY <1>5 DEF DeadlinePasses, Answer, NavLost, Load, Elsewhere, ListChanges, OthersFight, remote, Unsent
  <1>. QED  BY <1>1, <1>2, <1>3, <1>4, <1>5 DEF Next, Outside

(* An outcome is that of the last form, and is given when its start ends.  *)
LEMMA EndOfStart ==
    ASSUME LauncherInv, Next
    PROVE  \/ Start /\ outcome' = outcome
           \/ /\ attempt' = attempt
              /\ \/ outcome' = outcome /\ (op'.kind = "start" <=> op.kind = "start")
                 \/ /\ op.kind = "start" /\ attempt \in Attempts
                    /\ \E how \in {"confirmed", "refused", "raised"} :
                         /\ outcome' = [outcome EXCEPT ![attempt] = how]
                         /\ how = "confirmed" \/ Unsent(attempt)' \/ GivenUp'
  <1>0. PlaceInv /\ ScriptInv /\ attempt \in 0 .. MaxAttempts /\ Attempts = 1 .. MaxAttempts
    BY DEF LauncherInv, TypeOK, Attempts
  <1>1. ASSUME NEW kind \in {"goto", "startup"}, NEW route \in Routes, Visit(kind, route)
        PROVE  attempt' = attempt /\ outcome' = outcome /\ op'.kind # "start" /\ op.kind # "start"
    BY <1>0, <1>1 DEF Visit, PlaceInv
  <1>2. CASE Look \/ Enable \/ Navigate \/ Land \/ ProbeRoute
    BY <1>2, VisitMoves DEF NoOp
  <1>3. CASE Inspect \/ Start \/ AckLost
    BY <1>3 DEF Inspect, Start, AckLost, Goto, asking
  <1>4. CASE SendScript
    <2>1. attempt \in Attempts /\ Unsent(attempt) /\ attempt' = attempt /\ op.kind = "start"
      BY <1>4, SendFacts
    <2>2. CASE Over /\ outcome' = [outcome EXCEPT ![attempt] = "raised"] /\ flight' = flight
      <3>1. Unsent(attempt)'
        BY <1>4, <2>1, <2>2 DEF SendScript, Unsent
      <3>. QED  BY <2>1, <2>2, <3>1
    <2>. QED  BY <1>4, <2>1, <2>2, SendFacts
  <1>5. CASE Acknowledged
    <2>1. attempt \in Attempts /\ attempt' = attempt /\ op.kind = "start"
      BY <1>5, AnswerFacts
    <2>2. CASE /\ outcome' \in {[outcome EXCEPT ![attempt] = how] : how \in {"refused", "raised"}}
               /\ reply = "refused" \/ GivenUp'
      <3>1. reply = "refused" => Unsent(attempt)'
        BY <1>0, <1>5, <2>1 DEF Acknowledged, remote, ScriptInv, Unsent
      <3>. QED  BY <2>1, <2>2, <3>1
    <2>. QED  BY <1>5, <2>1, <2>2, AnswerFacts
  <1>6. CASE Confirm
    BY <1>6, ConfirmFacts
  <1>7. CASE Interrupted \/ Expired
    <2>1. /\ attempt' = attempt /\ Over /\ pc # "idle"
          /\ op.kind # "start" => outcome' = outcome
          /\ op.kind = "start" => outcome' = [outcome EXCEPT ![attempt] = "raised"]
          /\ pc \in {"ack", "receipt"} => GivenUp'
      BY <1>7, BreakFacts
    <2>2. CASE op.kind = "start"
      <3>1. attempt \in Attempts
        BY <1>0, <2>2 DEF PlaceInv
      <3>2. pc \in {"enable", "trigger"} => Unsent(attempt)'
        BY <1>0, <1>7, <2>1, <2>2 DEF Interrupted, Expired, remote, ScriptInv, Unsent
      <3>3. pc \in {"enable", "trigger", "ack", "receipt"}
        BY <1>0, <2>1, <2>2 DEF PlaceInv, LauncherInv, TypeOK
      <3>. QED  BY <2>1, <2>2, <3>1, <3>2, <3>3
    <2>3. CASE op.kind # "start"
      BY <2>1, <2>3, OverPlace
    <2>. QED  BY <2>2, <2>3
  <1>8. CASE ~Python
    BY <1>8, OutsideKeeps DEF Next
  <1>. QED  BY <1>1, <1>2, <1>3, <1>4, <1>5, <1>6, <1>7, <1>8 DEF Python

LEMMA FateStep ==
    ASSUME LauncherInv, Next
    PROVE  FateInv'
  <1>0. /\ FateInv /\ PlaceInv /\ attempt \in 0 .. MaxAttempts /\ Attempts = 1 .. MaxAttempts
        /\ outcome \in [Attempts -> {"none", "confirmed", "refused", "raised"}]
    BY DEF LauncherInv, TypeOK, Attempts
  <1>1. \A a \in Attempts : a < attempt /\ Unsent(a) => Unsent(a)'
    BY <1>0, UnsentKept
  <1>2. \A a \in Attempts : a < attempt => outcome[a] = "confirmed" \/ Unsent(a)
    BY <1>0 DEF FateInv, OneBattleForm, Unsent
  <1>3. CASE Start /\ outcome' = outcome
    <2>1. ~GivenUp /\ attempt' = attempt + 1 /\ op'.kind = "start" /\ pc = "idle" /\ ~SendScript
          /\ op.kind # "start" /\ UNCHANGED <<form, flight>>
      BY <1>0, <1>3 DEF Start, SendScript, PlaceInv, remote
    <2>2. attempt > 0 => outcome[attempt] = "confirmed" \/ Unsent(attempt)
      BY <1>0, <2>1 DEF FateInv
    <2>3. \A a \in Attempts : a < attempt' => outcome'[a] = "confirmed" \/ Unsent(a)'
      BY <1>0, <1>2, <1>3, <2>1, <2>2 DEF Unsent
    <2>. QED  BY <2>1, <2>3 DEF FateInv, OneBattleForm, Unsent
  <1>4. CASE /\ attempt' = attempt /\ outcome' = outcome
             /\ op'.kind = "start" <=> op.kind = "start"
    <2>1. OneBattleForm'
      BY <1>0, <1>1, <1>2, <1>4 DEF OneBattleForm, Unsent
    <2>2. ASSUME op'.kind # "start", attempt > 0, outcome[attempt] # "confirmed"
          PROVE  Unsent(attempt)' \/ GivenUp'
      <3>1. Unsent(attempt) \/ GivenUp
        BY <1>0, <1>4, <2>2 DEF FateInv
      <3>2. ~SendScript
        BY <1>4, <2>2 DEF SendScript
      <3>3. attempt \in Attempts
        BY <1>0, <2>2
      <3>4. \A a \in Attempts : Unsent(a) => Unsent(a)'
        BY <3>2, UnsentKept
      <3>. QED  BY <1>4, <3>1, <3>3, <3>4, GivenUpKept DEF Unsent
    <2>. QED  BY <1>4, <2>1, <2>2 DEF FateInv
  <1>5. CASE /\ attempt' = attempt /\ op.kind = "start" /\ attempt \in Attempts
             /\ \E how \in {"confirmed", "refused", "raised"} :
                  /\ outcome' = [outcome EXCEPT ![attempt] = how]
                  /\ how = "confirmed" \/ Unsent(attempt)' \/ GivenUp'
    <2>1. OneBattleForm'
      BY <1>0, <1>1, <1>2, <1>5 DEF OneBattleForm, Unsent
    <2>2. outcome'[attempt] = "confirmed" \/ Unsent(attempt)' \/ GivenUp'
      BY <1>0, <1>5
    <2>. QED  BY <1>5, <2>1, <2>2 DEF FateInv
  <1>. QED  BY <1>3, <1>4, <1>5, EndOfStart

-----------------------------------------------------------------------------
(* A battle on display.                                                    *)

LEMMA ServerStep ==
    ASSUME LauncherInv, Next
    PROVE  /\ server'.battle = "own" => \E b \in 1 .. attempt' : form'[b] = "battle"
           /\ server'.battle = "others" => others'
           /\ page'.doc > 1 /\ page'.own /\ page'.shows \in Blockers => server'.battle # "none"
           /\ others => others'
           /\ \A b \in Attempts : form[b] = "battle" => form'[b] = "battle"
  <1>0. /\ BattleInv /\ ScriptInv /\ attempt \in 0 .. MaxAttempts /\ Attempts = 1 .. MaxAttempts
        /\ page \in Pages /\ server \in [list : Lists, battle : {"none", "own", "others"}]
        /\ form \in [Attempts -> {"none", "sent", "battle", "refused"}]
    BY TypeParts DEF LauncherInv, WorldType, TypeOK, Attempts
  <1>1. CASE Python
    <2>1. attempt' = attempt \/ attempt' = attempt + 1
      BY <1>1, EndOfStart DEF Start
    <2>. QED  BY <1>0, <1>1, <2>1, LauncherKeeps DEF BattleInv
  <1>2. CASE ~Python
    <2>0. attempt' = attempt
      BY <1>2, OutsideKeeps DEF Next
    <2>1. ASSUME NEW a \in Attempts, RunScript(a) PROVE form[a] = "none" /\ UNCHANGED <<page, server, others>>
      BY <1>0, <2>1 DEF RunScript, ScriptInv
    <2>2. CASE \E a \in Attempts : RunScript(a)
      <3>1. PICK a \in Attempts : RunScript(a)
        BY <2>2
      <3>2. form' = form \/ form' = [form EXCEPT ![a] = "sent"]
        BY <3>1 DEF RunScript
      <3>. QED  BY <1>0, <2>0, <2>1, <3>1, <3>2 DEF BattleInv
    <2>3. CASE \E a \in Attempts : TakeForm(a)
      <3>1. PICK a \in Attempts : TakeForm(a)
        BY <2>3
      <3>2. a \in 1 .. attempt /\ form[a] = "sent" /\ UNCHANGED <<page, others>>
        BY <1>0, <3>1 DEF TakeForm, ScriptInv, tab
      <3>3. CASE server' = [server EXCEPT !.battle = "own"] /\ form' = [form EXCEPT ![a] = "battle"]
        BY <1>0, <2>0, <3>2, <3>3 DEF BattleInv
      <3>4. CASE server' = server /\ form' = [form EXCEPT ![a] = "refused"]
        BY <1>0, <2>0, <3>2, <3>4 DEF BattleInv
      <3>. QED  BY <3>1, <3>3, <3>4 DEF TakeForm
    <2>4. CASE Answer
      <3>1. PICK own, shows : /\ Arrive(nav.route, own, shows)
                              /\ own => shows \in IF server.battle = "none" THEN {"list"} ELSE Blockers
        BY <2>4 DEF Answer
      <3>2. page'.own = own /\ page'.shows = shows /\ UNCHANGED <<server, form, others>>
        BY <2>4, <3>1 DEF Arrive, Answer, remote
      <3>. QED  BY <1>0, <2>0, <3>1, <3>2 DEF BattleInv, Blockers
    <2>5. CASE Elsewhere
      <3>1. page'.shows = "nothing" /\ UNCHANGED <<server, form, others>>
        BY <1>0, <2>5 DEF Elsewhere, Pages, remote
      <3>. QED  BY <1>0, <2>0, <3>1 DEF BattleInv, Blockers
    <2>6. CASE NavLost \/ Load \/ DeadlinePasses
      <3>1. page'.doc = page.doc /\ page'.own = page.own /\ page'.shows = page.shows /\ UNCHANGED <<server, form, others>>
        BY <1>0, <2>6 DEF NavLost, Load, DeadlinePasses, Pages, remote, tab
      <3>. QED  BY <1>0, <2>0, <3>1 DEF BattleInv
    <2>7. CASE ListChanges
      <3>1. server'.battle = server.battle /\ UNCHANGED <<page, form, others>>
        BY <1>0, <2>7 DEF ListChanges, tab
      <3>. QED  BY <1>0, <2>0, <3>1 DEF BattleInv
    <2>8. CASE OthersFight
      <3>1. server'.battle = "others" /\ others' /\ UNCHANGED <<page, form>>
        BY <1>0, <2>8 DEF OthersFight, tab
      <3>. QED  BY <1>0, <2>0, <3>1 DEF BattleInv
    <2>. QED  BY <1>2, <2>2, <2>3, <2>4, <2>5, <2>6, <2>7, <2>8 DEF Next, Outside
  <1>. QED  BY <1>1, <1>2

LEMMA BattleStep ==
    ASSUME LauncherInv, Next
    PROVE  BattleInv'
  <1>0. /\ BattleInv /\ WaiterInv /\ attempt \in 0 .. MaxAttempts /\ Attempts = 1 .. MaxAttempts
        /\ page \in Pages /\ wait \in Waits
        /\ server \in [list : Lists, battle : {"none", "own", "others"}]
        /\ outcome \in [Attempts -> {"none", "confirmed", "refused", "raised"}]
    BY TypeParts DEF LauncherInv, WorldType, WaitType, TypeOK, Attempts
  <1>1. ConfirmedIsBattle'
    <2>1. ASSUME NEW a \in Attempts, outcome'[a] = "confirmed", outcome[a] = "confirmed"
          PROVE  others' \/ \E b \in 1 .. a : form'[b] = "battle"
      <3>1. others \/ \E b \in 1 .. a : form[b] = "battle"
        BY <1>0, <2>1 DEF BattleInv, ConfirmedIsBattle
      <3>. QED  BY <1>0, <3>1, ServerStep
    <2>2. ASSUME NEW a \in Attempts, outcome'[a] = "confirmed", outcome[a] # "confirmed"
          PROVE  others' \/ \E b \in 1 .. a : form'[b] = "battle"
      <3>1. Confirm /\ a = attempt
        <4>1. outcome' # outcome
          BY <2>2
        <4>2. CASE Python
          <5>1. ~Confirm => outcome' = outcome \/ \E how \in {"refused", "raised"} :
                                                    outcome' = [outcome EXCEPT ![attempt] = how]
            BY <4>2, VisitMoves, SendFacts, AnswerFacts, BreakFacts
               DEF Python, Visit, Inspect, Start, AckLost, Goto
          <5>2. Confirm => outcome' = [outcome EXCEPT ![attempt] = "confirmed"]
                           \/ outcome' = [outcome EXCEPT ![attempt] = "raised"]
            BY ConfirmFacts
          <5>. QED  BY <1>0, <2>2, <5>1, <5>2
        <4>3. CASE ~Python
          BY <4>1, <4>3, OutsideKeeps DEF Next
        <4>. QED  BY <4>2, <4>3
      <3>2. wait.done /\ page.own /\ page.shows = "battle" /\ pc = "receipt"
        BY <1>0, <2>2, <3>1, ConfirmFacts
      <3>3. page.doc > 1
        BY <1>0, <3>2 DEF WaiterInv, Waits, Pages
      <3>4. others \/ \E b \in 1 .. attempt : form[b] = "battle"
        BY <1>0, <3>2, <3>3 DEF BattleInv, Blockers
      <3>. QED  BY <1>0, <3>1, <3>4, ServerStep
    <2>. QED  BY <2>1, <2>2 DEF ConfirmedIsBattle
  <1>. QED  BY <1>1, ServerStep DEF BattleInv
-----------------------------------------------------------------------------
(* The invariant, and what it says.                                        *)

LEMMA InitLauncherInv == Init => LauncherInv
  <1> SUFFICES ASSUME Init PROVE LauncherInv
    OBVIOUS
  <1>1. /\ page \in [doc : {1}, own : BOOLEAN, route : Routes \cup {"else"}, shows : Shows,
                     list : {"first"}, loaded : {TRUE}]
        /\ page.shows = "list" => page.route # "else"
        /\ server \in [list : {"first"}, battle : {"none", "others"}]
        /\ others = (server.battle = "others")
    BY DEF Init
  <1>2. /\ nav = NoNav /\ wait = NoWait /\ pc = "idle" /\ op = NoOp /\ visits = 0 /\ attempt = 0
        /\ read = NoList /\ due = 0 /\ reply = "none" /\ trail = {} /\ latched = FALSE
        /\ result = NoResult
        /\ flight = [a \in Attempts |-> 0] /\ form = [a \in Attempts |-> "none"]
        /\ journal = [a \in Attempts |-> <<>>] /\ outcome = [a \in Attempts |-> "none"]
    BY DEF Init, NewTrail
  <1>3. 1 \in 1 .. MaxDocs /\ "first" \in Lists
    BY DEF Lists
  <1>4. WorldType
    <2>1. page \in Pages /\ (page.shows = "list" => page.route \in Routes)
      BY <1>1, <1>3 DEF Pages
    <2>2. server \in [list : Lists, battle : {"none", "own", "others"}]
      BY <1>1, <1>3
    <2>3. nav \in Navs
      BY <1>2 DEF NoNav, Navs
    <2>. QED  BY <1>2, <2>1, <2>2, <2>3 DEF WorldType
  <1>5. WaitType
    BY <1>2 DEF WaitType, NoWait, Waits
  <1>6. FlowType /\ AskType
    BY <1>2 DEF FlowType, AskType, NoOp, Ops
  <1>7. LogType
    <2>1. <<>> \in Seq(Events) /\ {} \in SUBSET TrailFlags /\ FALSE \in BOOLEAN
      OBVIOUS
    <2>2. journal \in [Attempts -> Seq(Events)]
      BY <1>2, <2>1
    <2>. QED  BY <1>2, <2>1, <2>2 DEF LogType
  <1>8. WaiterInv
    BY <1>2 DEF WaiterInv, FreshRoute, NoWait
  <1>9. PlaceInv
    BY <1>2 DEF PlaceInv, NoOp, Open
  <1>10. ScriptInv /\ FateInv
    BY <1>2 DEF ScriptInv, NoOp, FateInv, OneBattleForm, Attempts
  <1>11. BattleInv
    <2>1. ~(page.doc > 1) /\ server.battle # "own" /\ (server.battle = "others" => others)
      <3>1. page.doc = 1
        BY <1>1
      <3>2. server.battle # "own"
        BY <1>1
      <3>3. server.battle = "others" => others
        BY <1>1, Zenon
      <3>. QED  BY <3>1, <3>2, <3>3
    <2>2. \A a \in Attempts : outcome[a] # "confirmed"
      BY <1>2
    <2>. QED  BY <2>1, <2>2 DEF BattleInv, ConfirmedIsBattle
  <1>. QED  BY <1>4, <1>5, <1>6, <1>7, <1>8, <1>9, <1>10, <1>11, TypeParts DEF LauncherInv

LEMMA NextLauncherInv == LauncherInv /\ [Next]_vars => LauncherInv'
  <1>1. ASSUME LauncherInv, Next PROVE LauncherInv'
    BY <1>1, WorldStep, LauncherTypeStep, WaiterStep, PlaceStep, ScriptStep, FateStep, BattleStep, TypeParts
       DEF LauncherInv
  <1>2. ASSUME LauncherInv, UNCHANGED vars PROVE LauncherInv'
    <2>1. UNCHANGED <<page, nav, wait, server, form, others, flight, pc, op, visits, attempt, asked, read,
                      due, reply, why, trail, journal, latched, result, outcome>>
      BY <1>2 DEF vars, tab, remote, asking, audit
    <2>2. WorldType' /\ WaitType' /\ FlowType' /\ AskType' /\ LogType'
      BY <1>2, <2>1, TypeParts DEF LauncherInv, WorldType, WaitType, FlowType, AskType, LogType
    <2>3. WaiterInv' /\ FateInv' /\ BattleInv'
      BY <1>2, <2>1 DEF LauncherInv, WaiterInv, FreshRoute, FateInv, OneBattleForm, Unsent, GivenUp,
                        Logged, BattleInv, ConfirmedIsBattle
    <2>4. PlaceInv' /\ ScriptInv'
      BY <1>2, <2>1 DEF LauncherInv, PlaceInv, ScriptInv, Open, Logged
    <2>. QED  BY <2>2, <2>3, <2>4, TypeParts DEF LauncherInv
  <1>. QED  BY <1>1, <1>2

LEMMA LauncherInvHolds == Spec => []LauncherInv
  BY InitLauncherInv, NextLauncherInv, PTL DEF Spec

(* Every variable of the launcher keeps its type, and its waiter is idle   *)
(* unless a navigation was triggered (battle_launcher.py:310-424).         *)
THEOREM LauncherTypeCorrect == Spec => []TypeOK
  <1>1. LauncherInv => TypeOK
    BY DEF LauncherInv
  <1>. QED  BY <1>1, LauncherInvHolds, PTL

(* No form is asked for while an earlier one could still start a battle    *)
(* that nobody confirmed.                                                  *)
THEOREM AsksForOneBattle == Spec => []OneBattleForm
  <1>1. LauncherInv => OneBattleForm
    BY DEF LauncherInv, FateInv
  <1>. QED  BY <1>1, LauncherInvHolds, PTL

(* A start is confirmed only by a battle that is on.                       *)
THEOREM ConfirmsBattles == Spec => []ConfirmedIsBattle
  <1>1. LauncherInv => ConfirmedIsBattle
    BY DEF LauncherInv, BattleInv
  <1>. QED  BY <1>1, LauncherInvHolds, PTL

(* A list is reported from a document that replaced the one at hand when   *)
(* the launcher was called.                                                *)
THEOREM ReportsFreshLists == Spec => []FreshRoute
  <1>1. LauncherInv => FreshRoute
    BY DEF LauncherInv, WaiterInv
  <1>. QED  BY <1>1, LauncherInvHolds, PTL

(* Every form is sent under an intent, and every intent is settled.        *)
THEOREM SettlesEveryIntent == Spec => []IntentSettled
  <1>1. LauncherInv => IntentSettled
    <2>1. LauncherInv => \A a \in Attempts : flight[a] > 0 \/ form[a] # "none" => Logged(a, "intent")
      BY DEF LauncherInv, ScriptInv
    <2>2. LauncherInv => (pc = "idle" /\ ~latched => ~Open)
      BY DEF LauncherInv, PlaceInv
    <2>. QED  BY <2>1, <2>2 DEF IntentSettled
  <1>. QED  BY <1>1, LauncherInvHolds, PTL
=============================================================================
