------------------------ MODULE ElementActionProofs ------------------------
(***************************************************************************)
(* Theorems about ElementAction for every number of tokens, documents and  *)
(* rounds, in this order: the audit log; type correctness; the inductive   *)
(* invariant behind "one click, under a recorded intent"; the evidence a   *)
(* confirmation rests on; the lifecycle that is implemented; and the       *)
(* clicks that are still travelling when the caller goes on.               *)
(***************************************************************************)
EXTENDS ElementAction, SequenceTheorems, TLAPS

-----------------------------------------------------------------------------
(* What the trail asks to be published.                                    *)

(* At most one event, of the kind asked for, and the flag it sets.         *)
LEMMA PublishedType ==
    ASSUME NEW tr \in SUBSET TrailFlags, NEW ev \in TrailFlags
    PROVE  /\ Published(tr, ev) \in Seq(Events)
           /\ Marked(tr, ev) \in SUBSET TrailFlags
           /\ Published(tr, ev) = <<>> \/ Published(tr, ev) = <<ev>>
  <1>1. ev \in Events
    BY DEF TrailFlags
  <1>2. <<ev>> \in Seq(Events) /\ <<>> \in Seq(Events)
    BY <1>1
  <1>3. tr \cup {ev} \in SUBSET TrailFlags
    OBVIOUS
  <1> QED  BY <1>2, <1>3 DEF Published, Marked

(* The events a view leads to, and the trail after them.                   *)
LEMMA SeenType ==
    ASSUME TypeOK, NEW v \in Pages
    PROVE  /\ Seen(v) \in Seq(Events)
           /\ TrailSeen(v) \in SUBSET TrailFlags
  <1>1. trail \in SUBSET TrailFlags /\ "submitted" \in TrailFlags
    BY DEF TypeOK, TrailFlags, Events
  <1> QED  BY <1>1, PublishedType DEF Seen, TrailSeen

(* Concatenation keeps the first element.                                  *)
LEMMA ConcatFirst ==
    ASSUME NEW S, NEW s \in Seq(S), NEW e \in Seq(S)
    PROVE  /\ s \o e \in Seq(S)
           /\ s # <<>> => s \o e # <<>> /\ (s \o e)[1] = s[1]
  <1>1. /\ s \o e \in Seq(S)
        /\ Len(s \o e) = Len(s) + Len(e)
        /\ \A i \in 1 .. Len(s) + Len(e) :
              (s \o e)[i] = IF i <= Len(s) THEN s[i] ELSE e[i - Len(s)]
    BY ConcatProperties
  <1>2. CASE s # <<>>
    <2>1. Len(s) \in Nat \ {0} /\ Len(e) \in Nat
      BY <1>2, EmptySeq, LenProperties
    <2> QED  BY <1>1, <2>1, EmptySeq
  <1> QED  BY <1>1, <1>2

(* Asking the bus to write events leaves every earlier entry in place, and *)
(* changes no other token's entries.                                       *)
LEMMA JournalGrowth ==
    ASSUME TypeOK, NEW t \in Tokens, NEW events \in Seq(Events),
           Record(t, events) \/ PublicationRaises(t, events)
    PROVE  /\ journal' \in [Tokens -> Seq(Events)]
           /\ bus' \in {"healthy", "failed"}
           /\ bus = "failed" => UNCHANGED busVars
           /\ \A u \in Tokens : u # t => journal'[u] = journal[u]
           /\ \A u \in Tokens : journal[u] # <<>> =>
                 journal'[u] # <<>> /\ journal'[u][1] = journal[u][1]
  <1> USE DEF TypeOK
  <1>1. ASSUME NEW e \in Seq(Events), journal' = [journal EXCEPT ![t] = @ \o e]
        PROVE  /\ journal' \in [Tokens -> Seq(Events)]
               /\ \A u \in Tokens : u # t => journal'[u] = journal[u]
               /\ \A u \in Tokens : journal[u] # <<>> =>
                     journal'[u] # <<>> /\ journal'[u][1] = journal[u][1]
    <2>1. journal[t] \in Seq(Events)
      OBVIOUS
    <2>2. /\ journal[t] \o e \in Seq(Events)
          /\ journal[t] # <<>> =>
                journal[t] \o e # <<>> /\ (journal[t] \o e)[1] = journal[t][1]
      BY <2>1, ConcatFirst
    <2> QED  BY <1>1, <2>1, <2>2
  <1>2. CASE Record(t, events)
    BY <1>1, <1>2 DEF Record
  <1>3. CASE RecordFails(t, events)
    <2>1. PICK n \in 0 .. Len(events) :
             journal' = [journal EXCEPT ![t] = @ \o SubSeq(events, 1, n)]
      BY <1>3 DEF RecordFails
    <2>2. SubSeq(events, 1, n) \in Seq(Events)
      BY <2>1
    <2> QED  BY <1>1, <1>3, <2>1, <2>2 DEF RecordFails
  <1>4. CASE bus = "failed" /\ UNCHANGED busVars
    BY <1>4 DEF busVars
  <1> QED  BY <1>2, <1>3, <1>4 DEF PublicationRaises

-----------------------------------------------------------------------------
(* Type correctness.                                                       *)

(* The initial states are well typed.                                      *)
LEMMA InitTypeOK == Init => TypeOK
  <1> SUFFICES ASSUME Init PROVE TypeOK
    OBVIOUS
  <1>1. EnvTypeOK
    <2>1. NoMonitor \in Monitors /\ NoRequest \in Requests
      BY BoundsAssumption DEF Monitors, NoMonitor, MonitorFor, Requests, NoRequest
    <2>2. server \in Servers
      <3>1. PICK q \in {"none", "next"} :
              server = [round |-> 1, pane |-> q, pony |-> FALSE]
        BY DEF Init, EnvInit
      <3> QED  BY <3>1 DEF Servers, Panes
    <2>3. page \in Pages
      <3>1. PICK r \in {0, 1} :
              page = [doc |-> 1, node |-> 0, ready |-> TRUE,
                      controls |-> server.pane = "none", log |-> 0, round |-> r,
                      floor |-> 1, pane |-> server.pane, pony |-> FALSE, monitor |-> NoMonitor]
        BY DEF Init, EnvInit
      <3>2. server.pane \in Panes /\ (server.pane = "none") \in BOOLEAN
        BY <2>2 DEF Servers
      <3> QED  BY <2>1, <3>1, <3>2, BoundsAssumption DEF Pages
    <2> QED  BY <2>1, <2>2, <2>3, BoundsAssumption DEF Init, EnvInit, EnvTypeOK
  <1>2. page \in Pages /\ NoMonitor \in Monitors /\ 0 \in 0 .. MaxDocs
    BY <1>1, BoundsAssumption DEF EnvTypeOK, NoMonitor, MonitorFor, Monitors
  <1>3. page.doc \in 1 .. MaxDocs
    BY <1>2 DEF Pages
  <1>4. [t \in Tokens |-> <<>>] \in [Tokens -> Seq(Events)]
    OBVIOUS
  <1> QED
    BY <1>1, <1>2, <1>3, <1>4
    DEF Init, TypeOK, PCs, Outcomes, NewTrail, TrailFlags

(* The monitor's operations on a page keep it a page.                      *)
LEMMA PageOps ==
    ASSUME NEW p \in Pages, NEW t \in Tokens
    PROVE  /\ View(p, t) \in Pages
           /\ Armed(p, t) \in Pages
           /\ Unmonitored(p) \in Pages
           /\ CountDispatch(p) \in Pages
           /\ MutateLog(p) \in Pages
           /\ p.doc < MaxDocs => Blank(p) \in Pages
  <1>1. /\ MonitorFor(t) \in Monitors
        /\ NoMonitor \in Monitors
        /\ p.monitor \in Monitors
    BY DEF MonitorFor, NoMonitor, Monitors, Pages
  <1>2. Matching(p, t) \in Monitors
    BY <1>1 DEF Matching
  <1>3. ASSUME NEW m \in Monitors
        PROVE  [p EXCEPT !.monitor = m] \in Pages
    BY DEF Pages
  <1>4. View(p, t) \in Pages /\ Armed(p, t) \in Pages /\ Unmonitored(p) \in Pages
    BY <1>1, <1>2, <1>3 DEF View, Armed, Unmonitored
  <1>5. CountDispatch(p) \in Pages
    <2> DEFINE m == p.monitor
    <2>1. Counted(m) \in Monitors
      <3>1. PICK c \in 0 .. 2, b \in BOOLEAN :
               Counted(m) = [m EXCEPT !.count = c, !.mutated = b]
        <4>1. m.mutated \in BOOLEAN /\ m.count \in 0 .. 2
          BY <1>1 DEF Monitors
        <4>2. (IF m.count < 2 THEN m.count + 1 ELSE 2) \in 0 .. 2
          BY <4>1
        <4>3. (IF m.count = 0 THEN FALSE ELSE m.mutated) \in BOOLEAN
          BY <4>1, Zenon
        <4> QED  BY <4>2, <4>3, Zenon DEF Counted
      <3> QED  BY <1>1, <3>1 DEF Monitors
    <2>2. CountDispatch(p) \in {p, [p EXCEPT !.monitor = Counted(p.monitor)]}
      BY DEF CountDispatch
    <2> QED  BY <2>1, <2>2, <1>3
  <1>6. MutateLog(p) \in Pages
    <2>1. LogChanged(p.monitor) \in Monitors
      BY <1>1 DEF LogChanged, Monitors
    <2>2. [p EXCEPT !.monitor = LogChanged(@)] \in Pages
      BY <2>1, <1>3
    <2>3. ASSUME NEW q \in Pages, NEW n \in Nat
          PROVE  [q EXCEPT !.log = n] \in Pages
      BY DEF Pages
    <2>4. p.log + 1 \in Nat
      BY DEF Pages
    <2>5. MutateLog(p) = [[p EXCEPT !.monitor = LogChanged(@)] EXCEPT !.log = p.log + 1]
      BY DEF MutateLog, Pages
    <2> QED  BY <2>2, <2>3, <2>4, <2>5
  <1>7. p.doc < MaxDocs => Blank(p) \in Pages
    BY <1>1, BoundsAssumption DEF Blank, Pages, Panes
  <1> QED  BY <1>4, <1>5, <1>6, <1>7

(* Replacing one token's request by a well-typed one.                      *)
LEMMA RequestUpdate ==
    ASSUME EnvTypeOK, NEW t \in Tokens, NEW q \in Requests,
           request' = [request EXCEPT ![t] = q]
    PROVE  request' \in [Tokens -> Requests]
  <1> QED  BY DEF EnvTypeOK

(* The page, the network and the server stay well typed on their own.      *)
LEMMA EnvStepType ==
    ASSUME TypeOK, EnvStep
    PROVE  EnvTypeOK'
  <1> USE BoundsAssumption
  <1>1. /\ page \in Pages /\ server \in Servers /\ foreign \in 0 .. MaxForeign
        /\ request \in [Tokens -> Requests] /\ EnvTypeOK
    BY DEF TypeOK, EnvTypeOK
  <1>2. page.doc \in 1 .. MaxDocs /\ page.monitor \in Monitors /\ 1 \in Tokens
    BY <1>1 DEF Pages, Tokens
  <1>3. CASE \E t \in Tokens : Redispatch(t)
    <2>1. PICK t \in Tokens : Redispatch(t)
      BY <1>3
    <2>2. request' \in [Tokens -> Requests]
      <3>1. [request[t] EXCEPT !.sent = 2] \in Requests
        BY <1>1 DEF Requests
      <3> QED  BY <1>1, <2>1, <3>1, RequestUpdate DEF Redispatch
    <2> QED  BY <1>1, <2>1, <2>2, PageOps DEF Redispatch, EnvTypeOK
  <1>4. CASE \E t \in Tokens : Execute(t)
    <2>1. PICK t \in Tokens : ExecuteTurn(t) \/ ExecuteFloor(t)
      BY <1>4 DEF Execute
    <2>2. request[t] \in Requests
      BY <1>1
    <2>3. request[t].executed \in 0 .. 2 /\ request[t].sent \in 0 .. 2
      BY <2>2 DEF Requests
    <2>4. request[t].executed < request[t].sent
      BY <2>1 DEF ExecuteTurn, ExecuteFloor
    <2>5. request[t].executed + 1 \in 0 .. 2
      BY <2>3, <2>4
    <2>6. CASE ExecuteTurn(t)
      <3>1. PICK pane \in Panes :
               /\ server' = [server EXCEPT !.pane = pane]
               /\ request' = [request EXCEPT ![t].executed = @ + 1,
                                             ![t].pane = pane # "none"]
        BY <2>6 DEF ExecuteTurn, Panes
      <3>2. server' \in Servers
        BY <1>1, <3>1 DEF Servers
      <3>3. PICK b \in BOOLEAN : b = (pane # "none")
        OBVIOUS
      <3>4. [request[t] EXCEPT !.executed = request[t].executed + 1, !.pane = b]
               \in Requests
        BY <2>2, <2>5 DEF Requests
      <3>5. request' \in [Tokens -> Requests]
        <4>1. request' = [request EXCEPT ![t] =
                 [request[t] EXCEPT !.executed = request[t].executed + 1, !.pane = b]]
          BY <3>1, <3>3, <1>1, Zenon
        <4> QED  BY <1>1, <3>4, <4>1, RequestUpdate
      <3> QED  BY <1>1, <2>6, <3>2, <3>5 DEF ExecuteTurn, EnvTypeOK
    <2>7. CASE ExecuteFloor(t)
      <3>1. server' \in Servers
        BY <1>1, <2>7 DEF ExecuteFloor, Servers, Panes
      <3>2. [request[t] EXCEPT !.executed = request[t].executed + 1] \in Requests
        BY <2>2, <2>5 DEF Requests
      <3>3. request' \in [Tokens -> Requests]
        BY <1>1, <2>7, <3>2, RequestUpdate DEF ExecuteFloor
      <3> QED  BY <1>1, <2>7, <3>1, <3>3 DEF ExecuteFloor, EnvTypeOK
    <2> QED  BY <2>1, <2>6, <2>7
  <1>5. CASE \E t \in Tokens : Reply(t)
    <2>1. PICK t \in Tokens, r \in Replies :
             /\ request' = [request EXCEPT ![t].reply = r]
             /\ UNCHANGED <<page, server, foreign>>
      BY <1>5 DEF Reply
    <2>2. request' \in [Tokens -> Requests]
      <3>1. [request[t] EXCEPT !.reply = r] \in Requests
        BY <1>1 DEF Requests
      <3> QED  BY <1>1, <2>1, <3>1, RequestUpdate
    <2> QED  BY <1>1, <2>1, <2>2 DEF EnvTypeOK
  <1>6. CASE \E t \in Tokens : Apply(t)
    <2>1. PICK t \in Tokens : ApplyTurn(t) \/ ApplyFloor(t)
      BY <1>6 DEF Apply
    <2>2. request' = [request EXCEPT ![t].applied = TRUE] /\ UNCHANGED <<server, foreign>>
      BY <2>1 DEF ApplyTurn, ApplyFloor
    <2>3. request' \in [Tokens -> Requests]
      <3>1. [request[t] EXCEPT !.applied = TRUE] \in Requests
        BY <1>1 DEF Requests
      <3> QED  BY <1>1, <2>2, <3>1, RequestUpdate
    <2>4. MutateLog(page) \in Pages /\ server.pane \in Panes /\ server.round \in Nat
          /\ server.pony \in BOOLEAN
      BY <1>1, PageOps, <2>1 DEF Servers
    <2>5. CASE ApplyTurn(t)
      <3>1. PICK q \in {page, MutateLog(page)} :
               page' \in {q, [q EXCEPT !.floor = server.round, !.pane = server.pane,
                                       !.controls = FALSE]}
        BY <2>5 DEF ApplyTurn
      <3>2. q \in Pages
        BY <1>1, <2>4
      <3>3. [q EXCEPT !.floor = server.round, !.pane = server.pane,
                      !.controls = FALSE] \in Pages
        BY <3>2, <2>4 DEF Pages
      <3> QED  BY <1>1, <2>2, <2>3, <3>1, <3>2, <3>3 DEF EnvTypeOK
    <2>6. CASE ApplyFloor(t)
      <3>1. PICK n \in {page.node, page.node + 1}, b \in BOOLEAN :
               page' = [MutateLog(page) EXCEPT
                          !.node = n, !.round = server.round, !.floor = server.round,
                          !.pane = server.pane, !.pony = server.pony,
                          !.controls = b]
        <4>1. (server.pane = "none" /\ ~server.pony) \in BOOLEAN
          OBVIOUS
        <4> QED  BY <2>6, <4>1, Zenon DEF ApplyFloor
      <3>2. n \in Nat
        BY <1>1 DEF Pages
      <3>3. page' \in Pages
        BY <2>4, <3>1, <3>2 DEF Pages
      <3> QED  BY <1>1, <2>2, <2>3, <3>3 DEF EnvTypeOK
    <2> QED  BY <2>1, <2>5, <2>6
  <1>7. CASE \E t \in Tokens : LoadEnd(t)
    <2>1. PICK t \in Tokens : LoadEnd(t)
      BY <1>7
    <2>2. request[t].reply \in Replies /\ request[t].pane \in BOOLEAN
      BY <1>1, <2>1 DEF LoadEnd, Requests
    <2>3. [page.monitor EXCEPT !.done = request[t].reply, !.pane = request[t].pane]
             \in Monitors
      BY <1>2, <2>2 DEF Monitors
    <2>4. page' \in Pages
      BY <1>1, <2>1, <2>3 DEF LoadEnd, Pages
    <2>5. UNCHANGED <<server, request, foreign>>
      BY <2>1 DEF LoadEnd
    <2> QED  BY <1>1, <2>4, <2>5 DEF EnvTypeOK
  <1>8. CASE Navigate
    BY <1>1, <1>2, <1>8, PageOps DEF Navigate, EnvTypeOK
  <1>9. CASE Render
    <2>1. PICK r \in {0, server.round}, b \in BOOLEAN :
             page' = [page EXCEPT !.round = r, !.floor = server.round,
                                  !.pane = server.pane, !.pony = server.pony, !.controls = b]
      <3>1. (server.pane = "none" /\ ~server.pony) \in BOOLEAN
        OBVIOUS
      <3> QED  BY <1>9, <3>1, Zenon DEF Render
    <2>2. server.pane \in Panes /\ server.round \in Nat /\ server.pony \in BOOLEAN
      BY <1>1 DEF Servers
    <2>3. r \in Nat
      BY <2>2
    <2>4. page' \in Pages
      BY <1>1, <2>1, <2>2, <2>3 DEF Pages
    <2>5. UNCHANGED <<server, request, foreign>>
      BY <1>9 DEF Render
    <2> QED  BY <1>1, <2>4, <2>5 DEF EnvTypeOK
  <1>10. CASE BecomeReady
    <2>1. page' \in Pages
      BY <1>1, <1>10 DEF BecomeReady, Pages
    <2>2. UNCHANGED <<server, request, foreign>>
      BY <1>10 DEF BecomeReady
    <2> QED  BY <1>1, <2>1, <2>2 DEF EnvTypeOK
  <1>11. CASE ForeignLog
    <2>1. foreign' \in 0 .. MaxForeign
      BY <1>1, <1>11 DEF ForeignLog
    <2> QED  BY <1>1, <1>2, <1>11, <2>1, PageOps DEF ForeignLog, EnvTypeOK
  <1> QED
    BY <1>3, <1>4, <1>5, <1>6, <1>7, <1>8, <1>9, <1>10, <1>11 DEF EnvStep

(* What every way of writing events and moving on leaves well typed.       *)
ResultOK ==
    /\ pc \in PCs
    /\ outcome \in Outcomes
    /\ trail \in SUBSET TrailFlags
    /\ evidence \in SUBSET {"communication", "stalled"}
    /\ bus \in {"healthy", "failed"}
    /\ journal \in [Tokens -> Seq(Events)]

LEMMA LeaveType ==
    ASSUME NEW result \in Outcomes, NEW safe \in BOOLEAN, Leave(result, safe)
    PROVE  pc' \in {"idle", "cleanup"} /\ pc' \in PCs /\ outcome' \in Outcomes
  <1> QED  BY DEF Leave, PCs

LEMMA LeaveUnauditedType ==
    ASSUME TypeOK, token \in Tokens, NEW events \in Seq(Events),
           NEW safe \in BOOLEAN, LeaveUnaudited(events, safe)
    PROVE  ResultOK'
  <1>1. "auditFailed" \in Outcomes
    BY DEF Outcomes
  <1>2. /\ journal' \in [Tokens -> Seq(Events)] /\ bus' \in {"healthy", "failed"}
        /\ trail' = trail /\ evidence' = evidence
    BY JournalGrowth DEF LeaveUnaudited
  <1>3. pc' \in PCs /\ outcome' \in Outcomes
    BY <1>1, LeaveType DEF LeaveUnaudited
  <1> QED  BY <1>2, <1>3 DEF TypeOK, ResultOK

(* Confirming, reporting an unknown outcome, going on, and giving up.      *)
LEMMA ConfirmType ==
    ASSUME TypeOK, token \in Tokens, NEW v \in Pages,
           NEW event \in {"receipt", "reconciled"}, Confirm(v, event)
    PROVE  ResultOK'
  <1> DEFINE events == Seen(v) \o Published(TrailSeen(v), event)
  <1>1. event \in TrailFlags /\ "confirmed" \in Outcomes
    BY DEF TrailFlags, Events, Outcomes
  <1>2. Seen(v) \in Seq(Events) /\ TrailSeen(v) \in SUBSET TrailFlags
    BY SeenType
  <1>3. /\ Published(TrailSeen(v), event) \in Seq(Events)
        /\ Marked(TrailSeen(v), event) \in SUBSET TrailFlags
    BY <1>1, <1>2, PublishedType
  <1>4. events \in Seq(Events)
    BY <1>2, <1>3
  <1> HIDE DEF events
  <1>5. CASE LeaveUnaudited(events, TRUE)
    BY <1>4, <1>5, LeaveUnauditedType
  <1>6. CASE /\ Record(token, events)
             /\ trail' = Marked(TrailSeen(v), event)
             /\ Leave("confirmed", TRUE)
             /\ UNCHANGED evidence
    <2>1. journal' \in [Tokens -> Seq(Events)] /\ bus' \in {"healthy", "failed"}
      BY <1>4, <1>6, JournalGrowth
    <2>2. pc' \in PCs /\ outcome' \in Outcomes
      BY <1>1, <1>6, LeaveType
    <2> QED  BY <1>3, <1>6, <2>1, <2>2 DEF ResultOK, TypeOK
  <1> QED  BY <1>5, <1>6 DEF Confirm, events

LEMMA ReportUnknownType ==
    ASSUME TypeOK, token \in Tokens, NEW observed \in Seq(Events),
           NEW seenTrail \in SUBSET TrailFlags, NEW m, NEW doc,
           ReportUnknown(observed, seenTrail, m, doc)
    PROVE  ResultOK'
  <1> DEFINE events == observed \o Published(seenTrail, "unknown")
  <1>1. "unknown" \in TrailFlags /\ "unknown" \in Outcomes
    BY DEF TrailFlags, Events, Outcomes
  <1>2. /\ Published(seenTrail, "unknown") \in Seq(Events)
        /\ Marked(seenTrail, "unknown") \in SUBSET TrailFlags
    BY <1>1, PublishedType
  <1>3. events \in Seq(Events)
    BY <1>2
  <1> HIDE DEF events
  <1>4. CASE LeaveUnaudited(events, TRUE)
    BY <1>3, <1>4, LeaveUnauditedType
  <1>5. CASE /\ Record(token, events)
             /\ trail' = Marked(seenTrail, "unknown")
             /\ \E dialog \in Dialogs, aged \in BOOLEAN :
                   evidence' = RecoveryEvidence(m, doc, dialog, aged)
             /\ Leave("unknown", FALSE)
    <2>1. journal' \in [Tokens -> Seq(Events)] /\ bus' \in {"healthy", "failed"}
      BY <1>3, <1>5, JournalGrowth
    <2>2. pc' \in PCs /\ outcome' \in Outcomes
      BY <1>1, <1>5, LeaveType
    <2>3. evidence' \in SUBSET {"communication", "stalled"}
      BY <1>5 DEF RecoveryEvidence
    <2> QED  BY <1>2, <1>5, <2>1, <2>2, <2>3 DEF ResultOK
  <1> QED  BY <1>4, <1>5 DEF ReportUnknown, events

LEMMA ContinueType ==
    ASSUME TypeOK, token \in Tokens, NEW v \in Pages, NEW next \in PCs,
           Continue(v, next)
    PROVE  ResultOK'
  <1>1. Seen(v) \in Seq(Events) /\ TrailSeen(v) \in SUBSET TrailFlags
    BY SeenType
  <1>2. CASE LeaveUnaudited(Seen(v), TRUE)
    BY <1>1, <1>2, LeaveUnauditedType
  <1>3. CASE /\ Record(token, Seen(v))
             /\ trail' = TrailSeen(v)
             /\ pc' = next
             /\ UNCHANGED <<outcome, evidence>>
    <2>1. journal' \in [Tokens -> Seq(Events)] /\ bus' \in {"healthy", "failed"}
      BY <1>1, <1>3, JournalGrowth
    <2> QED  BY <1>1, <1>3, <2>1 DEF ResultOK, TypeOK
  <1> QED  BY <1>2, <1>3 DEF Continue

LEMMA AbandonType ==
    ASSUME TypeOK, token \in Tokens, Abandon
    PROVE  ResultOK'
  <1> DEFINE events == Published(trail, "unknown")
  <1>1. /\ "unknown" \in TrailFlags /\ "interrupted" \in Outcomes
        /\ trail \in SUBSET TrailFlags
    BY DEF TrailFlags, Events, Outcomes, TypeOK
  <1>2. events \in Seq(Events) /\ Marked(trail, "unknown") \in SUBSET TrailFlags
    BY <1>1, PublishedType
  <1> HIDE DEF events
  <1>3. CASE LeaveUnaudited(events, TRUE)
    BY <1>2, <1>3, LeaveUnauditedType
  <1>4. CASE /\ Record(token, events)
             /\ trail' = Marked(trail, "unknown")
             /\ Leave("interrupted", FALSE)
             /\ UNCHANGED evidence
    <2>1. journal' \in [Tokens -> Seq(Events)] /\ bus' \in {"healthy", "failed"}
      BY <1>2, <1>4, JournalGrowth
    <2>2. pc' \in PCs /\ outcome' \in Outcomes
      BY <1>1, <1>4, LeaveType
    <2> QED  BY <1>2, <1>4, <2>1, <2>2 DEF ResultOK, TypeOK
  <1> QED  BY <1>3, <1>4 DEF Abandon, events

(* Looking at a view.                                                      *)
LEMMA ObserveType ==
    ASSUME TypeOK, token \in Tokens, NEW v \in Pages, Observe(v)
    PROVE  /\ lastDoc' \in 0 .. MaxDocs
           /\ receipt' \in Monitors
           /\ sawDuplicate' \in [Tokens -> BOOLEAN]
  <1>1. v.doc \in 0 .. MaxDocs /\ v.monitor \in Monitors
    BY DEF Pages
  <1>2. sawDuplicate' \in [Tokens -> BOOLEAN]
    <2>1. PICK b \in BOOLEAN : b = (sawDuplicate[token] \/ v.monitor.count = 2)
      BY DEF TypeOK
    <2>2. sawDuplicate' = [sawDuplicate EXCEPT ![token] = b]
      BY <2>1, Zenon DEF Observe
    <2> QED  BY <2>2 DEF TypeOK
  <1> QED  BY <1>1, <1>2 DEF Observe, TypeOK

(* The request a click sends.                                              *)
LEMMA RequestSent ==
    ASSUME NEW q \in Requests, NEW d \in 0 .. MaxDocs
    PROVE  /\ [q EXCEPT !.sent = 1, !.doc = d, !.reply = "pending"] \in Requests
           /\ [q EXCEPT !.sent = 1, !.doc = d] \in Requests
  <1>1. ASSUME NEW n \in 0 .. 2, NEW r \in {"none", "pending"} \cup Replies
        PROVE  /\ [q EXCEPT !.sent = n, !.doc = d, !.reply = r] \in Requests
               /\ [q EXCEPT !.sent = n, !.doc = d] \in Requests
    BY DEF Requests
  <1>2. PICK n \in 0 .. 2 : n = 1
    OBVIOUS
  <1>3. PICK r \in {"none", "pending"} \cup Replies : r = "pending"
    OBVIOUS
  <1> QED  BY <1>1, <1>2, <1>3, Zenon

(* A click that lands, and a challenge that is answered.                   *)
LEMMA DeliverType ==
    ASSUME TypeOK, DeliverClick
    PROVE  EnvTypeOK' /\ clickLive' \in BOOLEAN
  <1> USE BoundsAssumption
  <1>0. page \in Pages /\ request \in [Tokens -> Requests] /\ EnvTypeOK
    BY DEF TypeOK, EnvTypeOK
  <1>5. page.doc \in 1 .. MaxDocs /\ 1 \in Tokens
    BY <1>0 DEF Pages, Tokens
  <1>1. /\ page \in Pages /\ request \in [Tokens -> Requests] /\ EnvTypeOK
        /\ page.doc \in 0 .. MaxDocs /\ clickLive' \in BOOLEAN /\ 1 \in Tokens
    <2>1. page.doc \in 0 .. MaxDocs
      BY <1>5
    <2>2. clickLive' = FALSE
      BY DEF DeliverClick
    <2> QED  BY <1>0, <1>5, <2>1, <2>2
  <1>2. CASE Dispatch(token)
    <2>1. page' \in Pages
      BY <1>1, <1>2, PageOps DEF Dispatch
    <2>2. request' \in [Tokens -> Requests]
      <3>1. CASE token \in Tokens
        <4>0. request[token] \in Requests
          BY <1>1, <3>1
        <4>1. [request[token] EXCEPT !.sent = 1, !.doc = page.doc, !.reply = "pending"]
                 \in Requests
          BY <1>1, <4>0, RequestSent
        <4> QED  BY <1>1, <1>2, <3>1, <4>1, RequestUpdate DEF Dispatch
      <3>2. CASE token \notin Tokens
        BY <1>1, <1>2, <3>2 DEF Dispatch
      <3> QED  BY <3>1, <3>2
    <2>3. UNCHANGED <<server, foreign>>
      BY <1>2 DEF Dispatch
    <2> QED  BY <1>1, <2>1, <2>2, <2>3 DEF EnvTypeOK
  <1>3. CASE DispatchByNavigation(token)
    <2>1. page' \in Pages
      BY <1>1, <1>3, PageOps DEF DispatchByNavigation
    <2>2. request' \in [Tokens -> Requests]
      <3>1. CASE token \in Tokens
        <4>0. request[token] \in Requests
          BY <1>1, <3>1
        <4>1. [request[token] EXCEPT !.sent = 1, !.doc = page.doc] \in Requests
          BY <1>1, <4>0, RequestSent
        <4> QED  BY <1>1, <1>3, <3>1, <4>1, RequestUpdate DEF DispatchByNavigation
      <3>2. CASE token \notin Tokens
        BY <1>1, <1>3, <3>2 DEF DispatchByNavigation
      <3> QED  BY <3>1, <3>2
    <2>3. UNCHANGED <<server, foreign>>
      BY <1>3 DEF DispatchByNavigation
    <2> QED  BY <1>1, <2>1, <2>2, <2>3 DEF EnvTypeOK
  <1>4. CASE UNCHANGED envVars
    BY <1>1, <1>4 DEF envVars, EnvTypeOK
  <1> QED  BY <1>1, <1>2, <1>3, <1>4 DEF DeliverClick

LEMMA ResolveType ==
    ASSUME TypeOK, ResolvePonyChart
    PROVE  EnvTypeOK' /\ clickLive' \in BOOLEAN
  <1>1. /\ page \in Pages /\ server \in Servers /\ EnvTypeOK /\ 1 \in Tokens
        /\ clickLive' \in BOOLEAN /\ UNCHANGED <<request, foreign>>
    BY BoundsAssumption DEF TypeOK, EnvTypeOK, ResolvePonyChart, Tokens
  <1>2. page' \in Pages
    BY <1>1, PageOps DEF ResolvePonyChart
  <1>3. server' \in Servers
    BY <1>1 DEF ResolvePonyChart, Servers
  <1> QED  BY <1>1, <1>2, <1>3 DEF EnvTypeOK

(* Before the first token is taken, nothing has happened.                  *)
Started == token = NoToken => pc = "idle" /\ outcome = "none"
TypeInv == TypeOK /\ Started

LEMMA TypeStep == TypeInv /\ [Next]_vars => TypeInv'
  <1> SUFFICES ASSUME TypeInv, [Next]_vars PROVE TypeInv'
    OBVIOUS
  <1> USE BoundsAssumption
  <1>1. /\ TypeOK /\ EnvTypeOK /\ page \in Pages /\ page.doc \in 1 .. MaxDocs
        /\ token \in {NoToken} \cup Tokens
    BY DEF TypeInv, TypeOK, EnvTypeOK, Pages
  <1>2. pc # "idle" \/ outcome = "unknown" => token \in Tokens
    BY DEF TypeInv, TypeOK, Started
  <1>3. NoMonitor \in Monitors /\ 0 \notin Tokens
    BY DEF NoMonitor, MonitorFor, Monitors, Tokens
  <1>4. CASE UNCHANGED vars
    BY <1>4 DEF vars, envVars, opVars, busVars, historyVars, TypeInv, TypeOK,
                EnvTypeOK, Started
  <1>5. ASSUME NEW k \in Kinds, Begin(k) PROVE TypeInv'
    <2>1. token + 1 \in Tokens
      BY <1>1, <1>5 DEF Begin, Tokens, NoToken
    <2>2. kind' \in [Tokens -> {"turn", "floor"}]
      BY <1>5, <2>1, <1>1, KindsAssumption DEF Begin, TypeOK
    <2>3. pc' \in PCs /\ trail' \in SUBSET TrailFlags /\ receipt' \in Monitors
      BY <1>3, <1>5 DEF Begin, PCs, NewTrail
    <2>4. /\ token' \in Tokens /\ token' # NoToken
          /\ erred' \in BOOLEAN /\ clickLive' \in BOOLEAN /\ lastDoc' \in 0 .. MaxDocs
      <3>1. token' \in Tokens /\ token' # NoToken
        BY <1>3, <1>5, <2>1 DEF Begin, NoToken
      <3>2. lastDoc' = 0 /\ erred' = FALSE /\ clickLive' = FALSE
        BY <1>5 DEF Begin
      <3>3. 0 \in 0 .. MaxDocs
        OBVIOUS
      <3> QED  BY <3>1, <3>2, <3>3
    <2>5. UNCHANGED <<envVars, busVars, historyVars, target, before, clicks,
                      outcome, evidence>>
      BY <1>5 DEF Begin
    <2> QED
      BY <1>1, <2>2, <2>3, <2>4, <2>5
      DEF TypeInv, TypeOK, EnvTypeOK, Started, envVars, busVars, historyVars
  <1>6. CASE Select
    <2>1. pc' \in PCs /\ outcome' \in Outcomes /\ target' \in 1 .. MaxDocs
      BY <1>1, <1>6 DEF Select, GiveUp, PCs, Outcomes, TypeOK
    <2>2. floorAt' \in [Tokens -> Nat]
      BY <1>1, <1>2, <1>6 DEF Select, TypeOK, Pages
    <2> QED
      BY <1>1, <1>2, <1>3, <1>6, <2>1, <2>2
      DEF Select, TypeInv, TypeOK, EnvTypeOK, Started, NoToken, envVars, busVars
  <1>7. CASE Arm
    <2>1. Armed(page, token) \in Pages /\ token \in Tokens
      BY <1>1, <1>2, <1>7, PageOps DEF Arm
    <2>2. page' \in Pages
      BY <1>1, <1>7, <2>1 DEF Arm
    <2>3. View(page', token) \in Pages
      BY <2>1, <2>2, PageOps
    <2>4. before' \in Pages /\ receipt' \in Monitors
      BY <1>1, <1>3, <1>7, <2>3 DEF Arm, TypeOK, Pages
    <2>5. pc' \in PCs /\ outcome' \in Outcomes
      BY <1>1, <1>7 DEF Arm, GiveUp, PCs, Outcomes, TypeOK
    <2> QED
      BY <1>1, <1>3, <1>7, <2>1, <2>2, <2>4, <2>5
      DEF Arm, TypeInv, TypeOK, EnvTypeOK, Started, NoToken, busVars,
          historyVars
  <1>8. CASE RecordIntent
    <2>1. ResultOK'
      <3> DEFINE events == Published(trail, "intent")
      <3>1. "intent" \in TrailFlags /\ trail \in SUBSET TrailFlags /\ token \in Tokens
        BY <1>1, <1>2, <1>8 DEF TrailFlags, Events, TypeOK, RecordIntent
      <3>2. events \in Seq(Events) /\ Marked(trail, "intent") \in SUBSET TrailFlags
        BY <3>1, PublishedType
      <3> HIDE DEF events
      <3>3. CASE /\ Record(token, events)
                 /\ trail' = Marked(trail, "intent")
                 /\ pc' = "start" /\ UNCHANGED <<outcome, evidence>>
        <4>1. journal' \in [Tokens -> Seq(Events)] /\ bus' \in {"healthy", "failed"}
          BY <1>1, <3>1, <3>2, <3>3, JournalGrowth
        <4> QED  BY <1>1, <3>2, <3>3, <4>1 DEF ResultOK, TypeOK, PCs
      <3>4. CASE LeaveUnaudited(events, TRUE)
        BY <1>1, <3>1, <3>2, <3>4, LeaveUnauditedType
      <3>5. CASE GiveUp("notSubmitted") /\ UNCHANGED <<busVars, trail, evidence>>
        BY <1>1, <3>5 DEF GiveUp, busVars, ResultOK, TypeOK, PCs, Outcomes
      <3> QED  BY <1>8, <3>3, <3>4, <3>5 DEF RecordIntent, events
    <2> QED
      BY <1>1, <1>2, <1>3, <1>8, <2>1
      DEF RecordIntent, ResultOK, TypeInv, TypeOK, EnvTypeOK, Started, NoToken,
          envVars, historyVars
  <1>9. CASE StartClick
    <2>1. token \in Tokens
      BY <1>2, <1>9 DEF StartClick
    <2>2. clicks' \in [Tokens -> Nat]
      BY <1>1, <1>9, <2>1 DEF StartClick, TypeOK
    <2>3. pc' \in PCs /\ clickLive' \in BOOLEAN
      BY <1>9 DEF StartClick, PCs
    <2> QED
      BY <1>1, <1>3, <1>9, <2>1, <2>2, <2>3
      DEF StartClick, TypeInv, TypeOK, EnvTypeOK, Started, NoToken, envVars,
          opVars, busVars, historyVars
  <1>10. CASE AbortStart
    <2>1. ResultOK'
      <3> DEFINE events == Published(trail, "notSubmitted")
      <3>1. /\ "notSubmitted" \in TrailFlags /\ "notSubmitted" \in Outcomes
            /\ trail \in SUBSET TrailFlags /\ token \in Tokens
        BY <1>1, <1>2, <1>10 DEF TrailFlags, Events, TypeOK, AbortStart, Outcomes
      <3>2. events \in Seq(Events) /\ Marked(trail, "notSubmitted") \in SUBSET TrailFlags
        BY <3>1, PublishedType
      <3> HIDE DEF events
      <3>3. CASE /\ Record(token, events)
                 /\ trail' = Marked(trail, "notSubmitted")
                 /\ Leave("notSubmitted", TRUE)
                 /\ UNCHANGED evidence
        <4>1. journal' \in [Tokens -> Seq(Events)] /\ bus' \in {"healthy", "failed"}
          BY <1>1, <3>1, <3>2, <3>3, JournalGrowth
        <4>2. pc' \in PCs /\ outcome' \in Outcomes
          BY <3>1, <3>3, LeaveType
        <4> QED  BY <1>1, <3>2, <3>3, <4>1, <4>2 DEF ResultOK, TypeOK
      <3>4. CASE LeaveUnaudited(events, TRUE)
        BY <1>1, <3>1, <3>2, <3>4, LeaveUnauditedType
      <3> QED  BY <1>10, <3>3, <3>4 DEF AbortStart, events
    <2> QED
      BY <1>1, <1>2, <1>3, <1>10, <2>1
      DEF AbortStart, ResultOK, TypeInv, TypeOK, EnvTypeOK, Started, NoToken,
          envVars, historyVars
  <1>11. CASE ClickReturns \/ ClickErrs \/ ProbeErrs
    BY <1>1, <1>2, <1>3, <1>11
    DEF ClickReturns, ClickErrs, ProbeErrs, TypeInv, TypeOK, EnvTypeOK, Started,
        NoToken, envVars, opVars, busVars, historyVars, PCs
  <1>12. CASE TurnProbe \/ FloorProbe \/ TurnFinalProbe
    <2> DEFINE v == View(page, token)
    <2>1. token \in Tokens
      BY <1>2, <1>12 DEF TurnProbe, FloorProbe, TurnFinalProbe
    <2>2. v \in Pages
      BY <1>1, <2>1, PageOps
    <2>3. Seen(v) \in Seq(Events) /\ TrailSeen(v) \in SUBSET TrailFlags
      BY <1>1, <2>2, SeenType
    <2>4. Confirmation \in {"receipt", "reconciled"} /\ "probe" \in PCs /\ "final" \in PCs
      BY DEF Confirmation, PCs
    <2> HIDE DEF v
    <2>5. Observe(v)
      BY <1>12 DEF v, TurnProbe, FloorProbe, TurnFinalProbe
    <2>6. ResultOK'
      <3>1. \/ \E event \in {"receipt", "reconciled"} : Confirm(v, event)
            \/ ReportUnknown(Seen(v), TrailSeen(v), receipt', v.doc)
            \/ \E next \in {"probe", "final"} : Continue(v, next)
        BY <1>12, <2>4 DEF v, TurnProbe, FloorProbe, TurnFinalProbe, TooLate
      <3> QED
        BY <1>1, <2>1, <2>2, <2>3, <2>4, <3>1, ConfirmType, ReportUnknownType,
           ContinueType
    <2>7. /\ lastDoc' \in 0 .. MaxDocs /\ receipt' \in Monitors
          /\ sawDuplicate' \in [Tokens -> BOOLEAN]
      BY <1>1, <2>1, <2>2, <2>5, ObserveType
    <2>8. UNCHANGED <<envVars, token, kind, target, before, erred, floorAt,
                      clickLive, clicks>>
      BY <1>12 DEF TurnProbe, FloorProbe, TurnFinalProbe
    <2> QED
      BY <1>1, <1>3, <2>1, <2>6, <2>7, <2>8
      DEF ResultOK, TypeInv, TypeOK, EnvTypeOK, Started, NoToken, envVars
  <1>13. CASE StopProbing
    <2>1. token \in Tokens /\ trail \in SUBSET TrailFlags
      BY <1>1, <1>2, <1>13 DEF StopProbing, TypeOK
    <2>2. ReportUnknown(<<>>, trail, receipt, lastDoc) /\ <<>> \in Seq(Events)
      BY <1>13 DEF StopProbing
    <2>3. ResultOK'
      BY <1>1, <2>1, <2>2, ReportUnknownType
    <2> QED
      BY <1>1, <1>3, <1>13, <2>1, <2>3
      DEF StopProbing, ResultOK, TypeInv, TypeOK, EnvTypeOK, Started, NoToken,
          envVars, historyVars
  <1>14. CASE Interrupted
    <2>1. token \in Tokens
      BY <1>2, <1>14 DEF Interrupted
    <2>2. ResultOK'
      BY <1>1, <1>14, <2>1, AbandonType DEF Interrupted
    <2> QED
      BY <1>1, <1>3, <1>14, <2>1, <2>2
      DEF Interrupted, ResultOK, TypeInv, TypeOK, EnvTypeOK, Started, NoToken,
          envVars, historyVars
  <1>15. CASE Cleanup
    <2>1. token \in Tokens
      BY <1>2, <1>15 DEF Cleanup
    <2>2. page' \in Pages
      BY <1>1, <1>15, <2>1, PageOps DEF Cleanup
    <2>3. pc' \in PCs /\ outcome' \in Outcomes
      BY <1>1, <1>15 DEF Cleanup, PCs, Outcomes, TypeOK
    <2> QED
      BY <1>1, <1>3, <1>15, <2>1, <2>2, <2>3
      DEF Cleanup, TypeInv, TypeOK, EnvTypeOK, Started, NoToken, opVars, busVars,
          historyVars
  <1>16. CASE AcceptReload
    <2>1. token \in Tokens
      BY <1>2, <1>16 DEF AcceptReload
    <2>2. page' \in Pages
      BY <1>1, <1>16, <2>1, PageOps DEF AcceptReload
    <2>3. <<"recovered">> \in Seq(Events)
      BY DEF Events
    <2>4. journal' \in [Tokens -> Seq(Events)] /\ bus' \in {"healthy", "failed"}
      BY <1>1, <1>16, <2>1, <2>3, JournalGrowth DEF AcceptReload
    <2>5. outcome' \in Outcomes
      BY <1>16 DEF AcceptReload, Outcomes
    <2> QED
      BY <1>1, <1>3, <1>16, <2>1, <2>2, <2>4, <2>5
      DEF AcceptReload, TypeInv, TypeOK, EnvTypeOK, Started, NoToken, opVars,
          historyVars
  <1>17. CASE Environment
    <2>1. EnvTypeOK' /\ clickLive' \in BOOLEAN
      <3>1. CASE EnvStep
        BY <1>1, <3>1, EnvStepType DEF EnvStep, TypeOK
      <3>2. CASE DeliverClick
        BY <1>1, <3>2, DeliverType
      <3>3. CASE ResolvePonyChart
        BY <1>1, <3>3, ResolveType
      <3> QED  BY <1>17, <3>1, <3>2, <3>3 DEF Environment
    <2> QED
      BY <1>1, <1>17, <2>1
      DEF Environment, TypeInv, TypeOK, Started, opVars, busVars, historyVars
  <1> QED
    BY <1>4, <1>5, <1>6, <1>7, <1>8, <1>9, <1>10, <1>11, <1>12, <1>13, <1>14,
       <1>15, <1>16, <1>17
    DEF Next, Operation

(* Every reachable state is well typed.                                    *)
THEOREM TypeCorrect == Spec => []TypeOK
  <1>1. Init => TypeInv
    BY InitTypeOK DEF TypeInv, Started, Init
  <1>2. TypeInv => TypeOK
    BY DEF TypeInv
  <1> QED  BY <1>1, <1>2, TypeStep, PTL DEF Spec

-----------------------------------------------------------------------------
(* The inductive invariant of the operation.                               *)

Closed(t) == journal[t] # <<>> =>
                 journal[t][Len(journal[t])] \notin {"intent", "submitted"}

(* The states from the recorded intent to the resolution.                  *)
Live == pc \in {"start", "clicking", "probe", "final"}

(* A token not yet taken has no click and no entry.                        *)
FreshTokens ==
    \A t \in Tokens : t > token => clicks[t] = 0 /\ journal[t] = <<>>

(* Nothing is clicked or on record before the intent is.                   *)
BeforeIntent ==
    pc \in {"select", "arm", "intend"} =>
        clicks[token] = 0 /\ journal[token] = <<>> /\ trail = {}

(* The only click is still to come when the intent is on record.           *)
BeforeClick ==
    pc = "start" => /\ clicks[token] = 0 /\ journal[token] # <<>>
                    /\ journal[token][1] = "intent" /\ trail = {"intent"}

(* While the operation is live its trail is open and the bus accepts.      *)
LiveIsOpen ==
    Live => bus = "healthy" /\ trail \in {{"intent"}, {"intent", "submitted"}}

(* Every token but the live one is closed, as long as the log is sound.    *)
OthersClosed ==
    bus = "healthy" =>
        \A t \in Tokens : ~(Live /\ t = token) => Closed(t)

OpInv == /\ FreshTokens /\ BeforeIntent /\ BeforeClick /\ LiveIsOpen
         /\ OthersClosed /\ ClickedOnceUnderIntent

(* The last element of a concatenation is that of its second part.         *)
LEMMA ConcatLast ==
    ASSUME NEW S, NEW s \in Seq(S), NEW e \in Seq(S), e # <<>>
    PROVE  /\ s \o e \in Seq(S) /\ s \o e # <<>>
           /\ (s \o e)[Len(s \o e)] = e[Len(e)]
  <1>1. /\ s \o e \in Seq(S)
        /\ Len(s \o e) = Len(s) + Len(e)
        /\ \A i \in 1 .. Len(s) + Len(e) :
              (s \o e)[i] = IF i <= Len(s) THEN s[i] ELSE e[i - Len(s)]
    BY ConcatProperties
  <1>2. Len(s) \in Nat /\ Len(e) \in Nat \ {0}
    BY EmptySeq, LenProperties
  <1>3. Len(s) + Len(e) \in 1 .. Len(s) + Len(e)
    BY <1>2
  <1>4. (s \o e)[Len(s) + Len(e)] = e[(Len(s) + Len(e)) - Len(s)]
    BY <1>1, <1>2, <1>3
  <1>5. (Len(s) + Len(e)) - Len(s) = Len(e)
    BY <1>2
  <1>6. s \o e # <<>>
    BY <1>1, <1>2, EmptySeq
  <1> QED  BY <1>1, <1>4, <1>5, <1>6

(* A write that ends the operation keeps the invariant, provided that what *)
(* it writes closes the token.                                             *)
LEMMA ClosingWrite ==
    ASSUME TypeOK, OpInv, token \in Tokens, NEW events \in Seq(Events),
           Record(token, events) \/ PublicationRaises(token, events),
           Record(token, events) =>
               events # <<>> /\ events[Len(events)] \notin {"intent", "submitted"},
           pc' \in {"idle", "cleanup"}, UNCHANGED <<token, clicks>>
    PROVE  OpInv'
  <1>1. /\ journal' \in [Tokens -> Seq(Events)]
        /\ \A u \in Tokens : u # token => journal'[u] = journal[u]
        /\ \A u \in Tokens : journal[u] # <<>> =>
              journal'[u] # <<>> /\ journal'[u][1] = journal[u][1]
    BY JournalGrowth
  <1>2. FreshTokens'
    <2> SUFFICES ASSUME NEW t \in Tokens, t > token
                 PROVE  clicks[t] = 0 /\ journal'[t] = <<>>
      BY DEF FreshTokens
    <2>1. t # token
      BY DEF Tokens
    <2> QED  BY <1>1, <2>1 DEF OpInv, FreshTokens
  <1>3. BeforeIntent' /\ BeforeClick' /\ LiveIsOpen'
    BY DEF BeforeIntent, BeforeClick, LiveIsOpen, Live
  <1>4. OthersClosed'
    <2>1. CASE Record(token, events)
      <3>1. journal' = [journal EXCEPT ![token] = @ \o events] /\ bus = "healthy"
        BY <2>1 DEF Record
      <3>2. journal[token] \in Seq(Events)
        BY DEF TypeOK
      <3>3. journal'[token] = journal[token] \o events
        BY <3>1 DEF TypeOK
      <3>4. Closed(token)'
        BY <2>1, <3>2, <3>3, ConcatLast DEF Closed
      <3>5. ASSUME NEW t \in Tokens, t # token PROVE Closed(t)'
        BY <1>1, <3>1, <3>5 DEF OpInv, OthersClosed, Closed
      <3> QED  BY <3>4, <3>5 DEF OthersClosed
    <2>2. CASE PublicationRaises(token, events)
      <3>1. bus' = "failed"
        BY <2>2 DEF PublicationRaises, RecordFails, busVars
      <3> QED  BY <3>1 DEF OthersClosed
    <2> QED  BY <2>1, <2>2
  <1>5. ClickedOnceUnderIntent'
    BY <1>1 DEF OpInv, ClickedOnceUnderIntent
  <1> QED  BY <1>2, <1>3, <1>4, <1>5 DEF OpInv

(* Steps that neither write nor click.                                     *)
LEMMA SilentStep ==
    ASSUME OpInv, UNCHANGED <<token, clicks, journal, bus>>,
           \/ Live /\ Live' /\ pc' # "start" /\ UNCHANGED trail
           \/ UNCHANGED <<pc, trail>>
           \/ ~Live /\ pc' \in {"idle", "cleanup"}
    PROVE  OpInv'
  <1>1. FreshTokens' /\ ClickedOnceUnderIntent'
    BY DEF OpInv, FreshTokens, ClickedOnceUnderIntent
  <1>2. BeforeIntent' /\ BeforeClick' /\ LiveIsOpen' /\ OthersClosed'
    BY DEF OpInv, BeforeIntent, BeforeClick, LiveIsOpen, OthersClosed, Live, Closed
  <1> QED  BY <1>1, <1>2 DEF OpInv

(* What an open trail publishes: the resolution it is asked for, and       *)
(* nothing that closes it before.                                          *)
LEMMA OpenTrail ==
    ASSUME NEW tr \in {{"intent"}, {"intent", "submitted"}},
           NEW e \in {"receipt", "reconciled", "unknown"}
    PROVE  Published(tr, e) = <<e>>
  <1>1. ~Resolved(tr)
    BY DEF Resolved
  <1>2. tr \cap {"reconciled", "receipt", "notSubmitted"} = {}
    OBVIOUS
  <1> QED  BY <1>1, <1>2 DEF Published, Accepts

LEMMA OpenTrailSeen ==
    ASSUME trail \in {{"intent"}, {"intent", "submitted"}}, NEW v
    PROVE  TrailSeen(v) \in {{"intent"}, {"intent", "submitted"}}
  <1>1. Marked(trail, "submitted") \in {trail, trail \cup {"submitted"}}
    BY DEF Marked
  <1> QED  BY <1>1 DEF TrailSeen

(* Confirming, reporting and giving up close the token.                    *)
LEMMA ConfirmCloses ==
    ASSUME TypeOK, OpInv, Live, token \in Tokens, NEW v \in Pages,
           NEW event \in {"receipt", "reconciled"}, Confirm(v, event),
           UNCHANGED <<token, clicks>>
    PROVE  OpInv'
  <1> DEFINE events == Seen(v) \o Published(TrailSeen(v), event)
  <1>1. trail \in {{"intent"}, {"intent", "submitted"}}
    BY DEF OpInv, LiveIsOpen
  <1>2. Published(TrailSeen(v), event) = <<event>> /\ event \in Events
    BY <1>1, OpenTrail, OpenTrailSeen DEF Events
  <1>3. Seen(v) \in Seq(Events) /\ <<event>> \in Seq(Events) /\ <<event>> # <<>>
    BY <1>2, SeenType
  <1>4. events \in Seq(Events) /\ events # <<>> /\ events[Len(events)] = event
    BY <1>2, <1>3, ConcatLast
  <1> HIDE DEF events
  <1>5. /\ Record(token, events) \/ PublicationRaises(token, events)
        /\ pc' \in {"idle", "cleanup"}
    BY DEF Confirm, LeaveUnaudited, Leave, events
  <1> QED  BY <1>4, <1>5, ClosingWrite

LEMMA UnknownCloses ==
    ASSUME TypeOK, OpInv, Live, token \in Tokens, NEW observed \in Seq(Events),
           NEW seenTrail \in {{"intent"}, {"intent", "submitted"}}, NEW m, NEW doc,
           ReportUnknown(observed, seenTrail, m, doc), UNCHANGED <<token, clicks>>
    PROVE  OpInv'
  <1> DEFINE events == observed \o Published(seenTrail, "unknown")
  <1>1. Published(seenTrail, "unknown") = <<"unknown">> /\ "unknown" \in Events
    BY OpenTrail DEF Events
  <1>2. /\ <<"unknown">> \in Seq(Events) /\ <<"unknown">> # <<>>
        /\ <<"unknown">>[Len(<<"unknown">>)] = "unknown"
    BY <1>1
  <1>3. events \in Seq(Events) /\ events # <<>> /\ events[Len(events)] = "unknown"
    <2> DEFINE e == <<"unknown">>
    <2>1. /\ e \in Seq(Events) /\ e # <<>> /\ e[Len(e)] = "unknown"
          /\ events = observed \o e
      BY <1>1, <1>2
    <2> HIDE DEF e, events
    <2>2. /\ observed \o e \in Seq(Events) /\ observed \o e # <<>>
          /\ (observed \o e)[Len(observed \o e)] = e[Len(e)]
      BY <2>1, ConcatLast
    <2> QED  BY <2>1, <2>2
  <1> HIDE DEF events
  <1>4. /\ Record(token, events) \/ PublicationRaises(token, events)
        /\ pc' \in {"idle", "cleanup"}
    BY DEF ReportUnknown, LeaveUnaudited, Leave, events
  <1> QED  BY <1>3, <1>4, ClosingWrite

(* A failed write ends the operation, whatever it was about to publish.    *)
LEMMA UnauditedCloses ==
    ASSUME TypeOK, OpInv, token \in Tokens, NEW events \in Seq(Events),
           NEW safe, LeaveUnaudited(events, safe), UNCHANGED <<token, clicks>>
    PROVE  OpInv'
  <1>1. PublicationRaises(token, events) /\ pc' \in {"idle", "cleanup"}
    BY DEF LeaveUnaudited, Leave
  <1>2. ~Record(token, events)
    BY <1>1 DEF PublicationRaises, RecordFails, Record, busVars
  <1> QED  BY <1>1, <1>2, ClosingWrite

(* Going on keeps the token open.                                          *)
LEMMA ContinueStays ==
    ASSUME TypeOK, OpInv, Live, token \in Tokens, NEW v \in Pages,
           NEW next \in {"probe", "final"}, Continue(v, next),
           UNCHANGED <<token, clicks>>
    PROVE  OpInv'
  <1>1. trail \in {{"intent"}, {"intent", "submitted"}}
    BY DEF OpInv, LiveIsOpen
  <1>2. Seen(v) \in Seq(Events) /\ TrailSeen(v) \in {{"intent"}, {"intent", "submitted"}}
    BY <1>1, SeenType, OpenTrailSeen
  <1>3. CASE LeaveUnaudited(Seen(v), TRUE)
    BY <1>2, <1>3, UnauditedCloses
  <1>4. CASE Record(token, Seen(v)) /\ trail' = TrailSeen(v) /\ pc' = next
    <2>1. /\ \A u \in Tokens : u # token => journal'[u] = journal[u]
          /\ \A u \in Tokens : journal[u] # <<>> =>
                journal'[u] # <<>> /\ journal'[u][1] = journal[u][1]
      BY <1>2, <1>4, JournalGrowth
    <2>2. bus' = "healthy" /\ bus = "healthy" /\ Live' /\ pc' # "start"
      BY <1>4 DEF Record, Live
    <2>3. FreshTokens'
      <3> SUFFICES ASSUME NEW t \in Tokens, t > token
                   PROVE  clicks[t] = 0 /\ journal'[t] = <<>>
        BY DEF FreshTokens
      <3>1. t # token
        BY DEF Tokens
      <3> QED  BY <2>1, <3>1 DEF OpInv, FreshTokens
    <2>4. BeforeIntent' /\ BeforeClick' /\ LiveIsOpen'
      BY <1>2, <1>4, <2>2 DEF BeforeIntent, BeforeClick, LiveIsOpen, Live
    <2>5. OthersClosed'
      <3> SUFFICES ASSUME NEW t \in Tokens, t # token PROVE Closed(t)'
        BY <2>2 DEF OthersClosed
      <3>1. Closed(t)
        BY <2>2 DEF OpInv, OthersClosed
      <3> QED  BY <2>1, <3>1 DEF Closed
    <2>6. ClickedOnceUnderIntent'
      BY <2>1 DEF OpInv, ClickedOnceUnderIntent
    <2> QED  BY <2>3, <2>4, <2>5, <2>6 DEF OpInv
  <1> QED  BY <1>3, <1>4 DEF Continue

LEMMA OpStep == TypeInv /\ OpInv /\ [Next]_vars => OpInv'
  <1> SUFFICES ASSUME TypeInv, OpInv, [Next]_vars PROVE OpInv'
    OBVIOUS
  <1>1. TypeOK /\ page \in Pages
    BY DEF TypeInv, TypeOK, EnvTypeOK
  <1>2. pc # "idle" \/ outcome = "unknown" => token \in Tokens
    BY DEF TypeInv, TypeOK, Started
  <1>3. CASE UNCHANGED vars \/ Environment
    BY <1>3, SilentStep DEF vars, Environment, opVars, busVars
  <1>4. ASSUME NEW k \in Kinds, Begin(k) PROVE OpInv'
    <2>1. token \in Nat /\ token + 1 \in Tokens
      BY <1>1, <1>4, BoundsAssumption DEF TypeOK, Begin, Tokens, NoToken
    <2>2. /\ token' = token + 1 /\ pc = "idle" /\ pc' = "select" /\ trail' = {}
          /\ UNCHANGED <<clicks, journal, bus>>
      BY <1>4 DEF Begin, NewTrail, busVars
    <2>3. clicks[token + 1] = 0 /\ journal[token + 1] = <<>>
      BY <2>1 DEF OpInv, FreshTokens
    <2>4. FreshTokens'
      <3> SUFFICES ASSUME NEW t \in Tokens, t > token + 1
                   PROVE  clicks[t] = 0 /\ journal[t] = <<>>
        BY <2>2 DEF FreshTokens
      <3>1. t > token
        BY <2>1 DEF Tokens
      <3> QED  BY <3>1 DEF OpInv, FreshTokens
    <2>5. BeforeIntent' /\ BeforeClick' /\ LiveIsOpen'
      BY <2>2, <2>3 DEF BeforeIntent, BeforeClick, LiveIsOpen, Live
    <2>6. OthersClosed' /\ ClickedOnceUnderIntent'
      BY <2>2 DEF OpInv, OthersClosed, Live, Closed, ClickedOnceUnderIntent
    <2> QED  BY <2>4, <2>5, <2>6 DEF OpInv
  <1>5. CASE Select \/ Arm
    <2>1. /\ pc \in {"select", "arm"} /\ pc' \in {"arm", "intend", "idle"}
          /\ UNCHANGED <<token, trail, clicks, journal, bus>>
      BY <1>5 DEF Select, Arm, GiveUp, busVars
    <2> QED
      BY <2>1 DEF OpInv, FreshTokens, BeforeIntent, BeforeClick, LiveIsOpen, Live,
                  OthersClosed, Closed, ClickedOnceUnderIntent
  <1>6. CASE RecordIntent
    <2>1. /\ pc = "intend" /\ trail = {} /\ clicks[token] = 0 /\ journal[token] = <<>>
          /\ token \in Tokens /\ UNCHANGED <<token, clicks>>
      BY <1>2, <1>6 DEF RecordIntent, OpInv, BeforeIntent
    <2>2. Published(trail, "intent") = <<"intent">> /\ Marked(trail, "intent") = {"intent"}
      BY <2>1 DEF Published, Marked, Accepts
    <2>3. <<"intent">> \in Seq(Events) /\ <<"intent">> # <<>>
      BY DEF Events
    <2>4. CASE /\ Record(token, <<"intent">>) /\ trail' = {"intent"}
               /\ pc' = "start"
      <3>1. \A u \in Tokens : u # token => journal'[u] = journal[u]
        BY <1>1, <2>1, <2>3, <2>4, JournalGrowth
      <3>2. journal'[token] = <<"intent">>
        <4>1. journal'[token] = journal[token] \o <<"intent">>
          BY <1>1, <2>1, <2>4 DEF Record, TypeOK
        <4> QED  BY <2>1, <2>3, <4>1
      <3>3. FreshTokens'
        <4> SUFFICES ASSUME NEW t \in Tokens, t > token
                     PROVE  clicks[t] = 0 /\ journal'[t] = <<>>
          BY <2>1 DEF FreshTokens
        <4>1. t # token
          BY <2>1 DEF Tokens
        <4> QED  BY <3>1, <4>1 DEF OpInv, FreshTokens
      <3>4. BeforeIntent' /\ BeforeClick' /\ LiveIsOpen'
        <4>1. journal'[token] # <<>> /\ journal'[token][1] = "intent"
          BY <2>3, <3>2
        <4> QED
          BY <2>1, <2>4, <4>1
          DEF BeforeIntent, BeforeClick, LiveIsOpen, Live, Record
      <3>5. OthersClosed'
        <4> SUFFICES ASSUME NEW t \in Tokens, t # token PROVE Closed(t)'
          BY <2>1, <2>4 DEF OthersClosed, Live
        <4> QED  BY <2>1, <2>4, <3>1 DEF OpInv, OthersClosed, Closed, Record, Live
      <3>6. ClickedOnceUnderIntent'
        BY <2>1, <3>1 DEF OpInv, ClickedOnceUnderIntent
      <3> QED  BY <3>3, <3>4, <3>5, <3>6 DEF OpInv
    <2>5. CASE LeaveUnaudited(<<"intent">>, TRUE)
      BY <1>1, <2>1, <2>3, <2>5, UnauditedCloses
    <2>6. CASE GiveUp("notSubmitted") /\ UNCHANGED <<busVars, trail, evidence>>
      BY <2>1, <2>6, SilentStep DEF GiveUp, busVars, Live
    <2> QED  BY <1>6, <2>2, <2>4, <2>5, <2>6 DEF RecordIntent
  <1>7. CASE StartClick
    <2>1. /\ pc = "start" /\ pc' = "clicking" /\ token \in Tokens
          /\ clicks' = [clicks EXCEPT ![token] = @ + 1]
          /\ UNCHANGED <<token, trail, journal, bus>>
      BY <1>2, <1>7 DEF StartClick, opVars, busVars
    <2>2. clicks[token] = 0 /\ journal[token] # <<>> /\ journal[token][1] = "intent"
      BY <2>1 DEF OpInv, BeforeClick
    <2>3. clicks'[token] = 1 /\ \A t \in Tokens : t # token => clicks'[t] = clicks[t]
      BY <1>1, <2>1, <2>2 DEF TypeOK
    <2>4. FreshTokens'
      <3> SUFFICES ASSUME NEW t \in Tokens, t > token
                   PROVE  clicks'[t] = 0 /\ journal[t] = <<>>
        BY <2>1 DEF FreshTokens
      <3>1. t # token
        BY <2>1 DEF Tokens
      <3> QED  BY <2>3, <3>1 DEF OpInv, FreshTokens
    <2>5. BeforeIntent' /\ BeforeClick' /\ LiveIsOpen' /\ OthersClosed'
      BY <2>1 DEF OpInv, BeforeIntent, BeforeClick, LiveIsOpen, Live, OthersClosed,
                  Closed
    <2>6. ClickedOnceUnderIntent'
      BY <2>1, <2>2, <2>3 DEF OpInv, ClickedOnceUnderIntent
    <2> QED  BY <2>4, <2>5, <2>6 DEF OpInv
  <1>8. CASE AbortStart
    <2>1. /\ pc = "start" /\ trail \in {{"intent"}, {"intent", "submitted"}}
          /\ token \in Tokens /\ UNCHANGED <<token, clicks>>
      BY <1>2, <1>8 DEF AbortStart, OpInv, LiveIsOpen, Live
    <2> DEFINE events == Published(trail, "notSubmitted")
    <2>2. trail \in SUBSET TrailFlags /\ "notSubmitted" \in TrailFlags
      BY <1>1 DEF TypeOK, TrailFlags, Events
    <2>3. events \in Seq(Events) /\ events \in {<<>>, <<"notSubmitted">>}
      BY <2>2, PublishedType
    <2>4. CASE LeaveUnaudited(events, TRUE)
      BY <1>1, <2>1, <2>3, <2>4, UnauditedCloses
    <2>5. CASE Record(token, events) /\ Leave("notSubmitted", TRUE)
      <3>1. events = <<"notSubmitted">>
        <4>1. trail = {"intent"}
          BY <2>1 DEF OpInv, BeforeClick
        <4>2. ~Resolved(trail) /\ "submitted" \notin trail
          BY <4>1 DEF Resolved
        <4> QED  BY <4>2 DEF Published, Accepts
      <3>2. pc' \in {"idle", "cleanup"}
        BY <2>5 DEF Leave
      <3> QED  BY <1>1, <2>1, <2>3, <2>5, <3>1, <3>2, ClosingWrite
    <2> QED  BY <1>8, <2>4, <2>5 DEF AbortStart
  <1>9. CASE ClickReturns \/ ClickErrs \/ ProbeErrs
    BY <1>9, SilentStep DEF ClickReturns, ClickErrs, ProbeErrs, Live, opVars, busVars
  <1>10. CASE TurnProbe \/ FloorProbe \/ TurnFinalProbe
    <2> DEFINE v == View(page, token)
    <2>1. /\ token \in Tokens /\ Live /\ UNCHANGED <<token, clicks>>
          /\ trail \in {{"intent"}, {"intent", "submitted"}}
      BY <1>2, <1>10 DEF TurnProbe, FloorProbe, TurnFinalProbe, Live, OpInv, LiveIsOpen
    <2>2. v \in Pages
      BY <1>1, <2>1, PageOps
    <2>3. /\ Seen(v) \in Seq(Events)
          /\ TrailSeen(v) \in {{"intent"}, {"intent", "submitted"}}
      BY <1>1, <2>1, <2>2, SeenType, OpenTrailSeen
    <2>4. Confirmation \in {"receipt", "reconciled"}
      BY DEF Confirmation
    <2> HIDE DEF v
    <2>5. \/ \E event \in {"receipt", "reconciled"} : Confirm(v, event)
          \/ ReportUnknown(Seen(v), TrailSeen(v), receipt', v.doc)
          \/ \E next \in {"probe", "final"} : Continue(v, next)
      BY <1>10, <2>4 DEF v, TurnProbe, FloorProbe, TurnFinalProbe, TooLate
    <2> QED
      BY <1>1, <2>1, <2>2, <2>3, <2>5, ConfirmCloses, UnknownCloses, ContinueStays
  <1>11. CASE StopProbing
    <2>1. /\ token \in Tokens /\ Live /\ UNCHANGED <<token, clicks>>
          /\ trail \in {{"intent"}, {"intent", "submitted"}}
          /\ ReportUnknown(<<>>, trail, receipt, lastDoc) /\ <<>> \in Seq(Events)
      BY <1>2, <1>11 DEF StopProbing, Live, OpInv, LiveIsOpen
    <2> QED  BY <1>1, <2>1, UnknownCloses
  <1>12. CASE Interrupted
    <2> DEFINE events == Published(trail, "unknown")
    <2>1. /\ token \in Tokens /\ Live /\ UNCHANGED <<token, clicks>>
          /\ trail \in {{"intent"}, {"intent", "submitted"}} /\ Abandon
      BY <1>2, <1>12 DEF Interrupted, Live, OpInv, LiveIsOpen
    <2>2. events = <<"unknown">> /\ "unknown" \in Events
      BY <2>1, OpenTrail DEF Events
    <2> HIDE DEF events
    <2>3. events \in Seq(Events) /\ events # <<>> /\ events[Len(events)] = "unknown"
      BY <2>2
    <2>4. /\ Record(token, events) \/ PublicationRaises(token, events)
          /\ pc' \in {"idle", "cleanup"}
      BY <2>1 DEF Abandon, LeaveUnaudited, Leave, events
    <2> QED  BY <1>1, <2>1, <2>3, <2>4, ClosingWrite
  <1>13. CASE Cleanup
    BY <1>13, SilentStep DEF Cleanup, opVars, busVars, Live
  <1>14. CASE AcceptReload
    <2> DEFINE events == <<"recovered">>
    <2>1. events \in Seq(Events) /\ events # <<>> /\ events[Len(events)] = "recovered"
      BY DEF Events
    <2>2. /\ Record(token, events) \/ PublicationRaises(token, events)
          /\ pc' = "idle" /\ token \in Tokens /\ UNCHANGED <<token, clicks>>
      BY <1>2, <1>14 DEF AcceptReload, opVars
    <2> HIDE DEF events
    <2> QED  BY <1>1, <2>1, <2>2, ClosingWrite
  <1> QED
    BY <1>3, <1>4, <1>5, <1>6, <1>7, <1>8, <1>9, <1>10, <1>11, <1>12, <1>13, <1>14
    DEF Next, Operation

LEMMA OpInit == Init => OpInv
  <1> SUFFICES ASSUME Init PROVE OpInv
    OBVIOUS
  <1>1. /\ \A t \in Tokens : clicks[t] = 0 /\ journal[t] = <<>>
        /\ pc = "idle"
    BY DEF Init
  <1> QED
    BY <1>1 DEF OpInv, FreshTokens, BeforeIntent, BeforeClick, LiveIsOpen, Live,
                OthersClosed, Closed, ClickedOnceUnderIntent

LEMMA Invariance == Spec => [](TypeInv /\ OpInv)
  <1>1. Init => TypeInv /\ OpInv
    BY InitTypeOK, OpInit DEF TypeInv, Started, Init
  <1> QED  BY <1>1, TypeStep, OpStep, PTL DEF Spec

(* No token's click is started twice, nor before its intent is on record.  *)
THEOREM ClickOnce == Spec => []ClickedOnceUnderIntent
  <1>1. OpInv => ClickedOnceUnderIntent
    BY DEF OpInv
  <1> QED  BY <1>1, Invariance, PTL

(* A sound log has a resolution for every intent once the lock is free.    *)
THEOREM EveryIntentResolved == Spec => []NoOpenIntent
  <1>1. OpInv => NoOpenIntent
    BY DEF OpInv, NoOpenIntent, OthersClosed, Live, Closed
  <1> QED  BY <1>1, Invariance, PTL

(* A failed audit write stops every later click and write.                 *)
THEOREM LatchStops == Spec => LatchedBusStops
  <1>1. TypeInv /\ OpInv /\ [Next]_vars => (bus = "failed" => UNCHANGED <<clicks, journal>>)
    <2> SUFFICES ASSUME TypeInv, OpInv, [Next]_vars, bus = "failed"
                 PROVE  UNCHANGED <<clicks, journal>>
      OBVIOUS
    <2>1. ~Live
      BY DEF OpInv, LiveIsOpen
    <2>2. \A t, events : ~Record(t, events)
                         /\ (PublicationRaises(t, events) => UNCHANGED journal)
      BY DEF Record, PublicationRaises, RecordFails, busVars
    <2>3. CASE RecordIntent \/ AcceptReload
      BY <2>2, <2>3 DEF RecordIntent, AcceptReload, LeaveUnaudited, busVars
    <2>4. CASE UNCHANGED vars \/ Environment \/ Select \/ Arm \/ Cleanup
               \/ \E k \in Kinds : Begin(k)
      BY <2>4 DEF vars, Environment, Select, Arm, Cleanup, Begin, busVars
    <2> QED
      BY <2>1, <2>3, <2>4
      DEF Next, Operation, Live, StartClick, AbortStart, ClickReturns, ClickErrs,
          TurnProbe, FloorProbe, ProbeErrs, StopProbing, TurnFinalProbe, Interrupted
  <1> QED  BY <1>1, Invariance, PTL DEF Spec, LatchedBusStops


-----------------------------------------------------------------------------
(* What the log gains.                                                     *)

(* A step adds nothing to a log but events of S to the current token's.    *)
Wrote(S) ==
    \A u \in Tokens, e \in Events :
        Recorded(u, e)' => Recorded(u, e) \/ (u = token /\ e \in S)

(* An element of a concatenation comes from one of its parts.              *)
LEMMA ConcatElement ==
    ASSUME NEW S, NEW s \in Seq(S), NEW e \in Seq(S), NEW i \in DOMAIN (s \o e)
    PROVE  \/ \E j \in DOMAIN s : s[j] = (s \o e)[i]
           \/ \E j \in DOMAIN e : e[j] = (s \o e)[i]
  <1>1. /\ DOMAIN s = 1 .. Len(s) /\ DOMAIN e = 1 .. Len(e)
        /\ Len(s) \in Nat /\ Len(e) \in Nat
    BY LenProperties
  <1>2. /\ s \o e \in Seq(S) /\ Len(s \o e) = Len(s) + Len(e)
        /\ \A k \in 1 .. Len(s) + Len(e) :
              (s \o e)[k] = IF k <= Len(s) THEN s[k] ELSE e[k - Len(s)]
    BY ConcatProperties
  <1>3. i \in 1 .. Len(s) + Len(e)
    BY <1>1, <1>2, LenProperties
  <1>4. CASE i <= Len(s)
    BY <1>1, <1>2, <1>3, <1>4
  <1>5. CASE ~(i <= Len(s))
    <2>1. i - Len(s) \in 1 .. Len(e)
      BY <1>1, <1>3, <1>5
    <2> QED  BY <1>1, <1>2, <1>3, <1>5, <2>1
  <1> QED  BY <1>4, <1>5

(* Asking the bus to write events of S writes nothing else.                *)
LEMMA WriteAdds ==
    ASSUME TypeOK, token \in Tokens, NEW events \in Seq(Events), NEW S,
           \A i \in DOMAIN events : events[i] \in S,
           Record(token, events) \/ PublicationRaises(token, events)
    PROVE  Wrote(S)
  <1> USE DEF TypeOK
  <1>1. ASSUME NEW e \in Seq(Events), \A i \in DOMAIN e : e[i] \in S,
               journal' = [journal EXCEPT ![token] = @ \o e]
        PROVE  Wrote(S)
    <2> SUFFICES ASSUME NEW u \in Tokens, NEW ev \in Events, Recorded(u, ev)'
                 PROVE  Recorded(u, ev) \/ (u = token /\ ev \in S)
      BY DEF Wrote
    <2>1. CASE u # token
      BY <1>1, <2>1 DEF Recorded
    <2>2. CASE u = token
      <3>1. journal'[u] = journal[u] \o e /\ journal[u] \in Seq(Events)
        BY <1>1, <2>2
      <3>2. PICK i \in DOMAIN (journal[u] \o e) : (journal[u] \o e)[i] = ev
        BY <3>1 DEF Recorded
      <3>3. \/ \E j \in DOMAIN journal[u] : journal[u][j] = ev
            \/ \E j \in DOMAIN e : e[j] = ev
        BY <3>1, <3>2, ConcatElement
      <3> QED  BY <1>1, <2>2, <3>3 DEF Recorded
    <2> QED  BY <2>1, <2>2
  <1>2. CASE Record(token, events)
    BY <1>1, <1>2 DEF Record
  <1>3. CASE RecordFails(token, events)
    <2>1. PICK n \in 0 .. Len(events) :
             journal' = [journal EXCEPT ![token] = @ \o SubSeq(events, 1, n)]
      BY <1>3 DEF RecordFails
    <2>2. SubSeq(events, 1, n) \in Seq(Events)
      BY <2>1
    <2>3. \A i \in DOMAIN SubSeq(events, 1, n) : SubSeq(events, 1, n)[i] \in S
      BY <2>1, SubSeqProperties, LenProperties
    <2> QED  BY <1>1, <2>1, <2>2, <2>3
  <1>4. CASE UNCHANGED busVars
    BY <1>4 DEF busVars, Wrote, Recorded
  <1> QED  BY <1>2, <1>3, <1>4 DEF PublicationRaises

(* What a probe asks to be written: the dispatch it saw, and a resolution. *)
LEMMA EventsOf ==
    ASSUME TypeOK, NEW v \in Pages, NEW tr \in SUBSET TrailFlags,
           NEW x \in TrailFlags
    PROVE  /\ Seen(v) \in Seq(Events)
           /\ \A i \in DOMAIN Seen(v) : Seen(v)[i] \in {"submitted"}
           /\ Published(tr, x) \in Seq(Events)
           /\ \A i \in DOMAIN Published(tr, x) : Published(tr, x)[i] \in {x}
           /\ Seen(v) \o Published(tr, x) \in Seq(Events)
           /\ \A i \in DOMAIN (Seen(v) \o Published(tr, x)) :
                 (Seen(v) \o Published(tr, x))[i] \in {"submitted", x}
  <1>1. trail \in SUBSET TrailFlags /\ "submitted" \in TrailFlags
    BY DEF TypeOK, TrailFlags, Events
  <1>2. /\ Published(tr, x) \in Seq(Events)
        /\ Published(tr, x) = <<>> \/ Published(tr, x) = <<x>>
    BY PublishedType
  <1>3. /\ Seen(v) \in Seq(Events)
        /\ Seen(v) = <<>> \/ Seen(v) = <<"submitted">>
    BY <1>1, PublishedType, SeenType DEF Seen
  <1>4. ASSUME NEW y PROVE \A i \in DOMAIN <<y>> : <<y>>[i] = y
    OBVIOUS
  <1>5. \A i \in DOMAIN Published(tr, x) : Published(tr, x)[i] = x
    BY <1>2, <1>4
  <1>6. \A i \in DOMAIN Seen(v) : Seen(v)[i] = "submitted"
    BY <1>3, <1>4
  <1> DEFINE s == Seen(v)
             e == Published(tr, x)
  <1>7. \A i \in DOMAIN (s \o e) : (s \o e)[i] \in {"submitted", x}
    <2> HIDE DEF s, e
    <2>1. /\ s \in Seq(Events) /\ \A i \in DOMAIN s : s[i] = "submitted"
          /\ e \in Seq(Events) /\ \A i \in DOMAIN e : e[i] = x
      BY <1>2, <1>3, <1>5, <1>6 DEF s, e
    <2>2. ASSUME NEW i \in DOMAIN (s \o e) PROVE (s \o e)[i] \in {"submitted", x}
      <3>1. \/ \E j \in DOMAIN s : s[j] = (s \o e)[i]
            \/ \E j \in DOMAIN e : e[j] = (s \o e)[i]
        BY <2>1, ConcatElement
      <3> QED  BY <2>1, <3>1
    <2> QED  BY <2>2
  <1>8. s \o e \in Seq(Events)
    BY <1>2, <1>3
  <1> QED  BY <1>2, <1>3, <1>5, <1>6, <1>7, <1>8

(* The operation is between its beginning and its resolution.              *)
InUse == pc \notin {"idle", "cleanup"}

(* What the last view has to show for an action to be confirmed.           *)
Earned ==
    LET v == View(page, token) IN
    \/ /\ pc = "final" \/ (pc = "probe" /\ kind[token] = "turn")
       /\ TurnEvidence(before, v)
    \/ /\ pc = "probe" /\ kind[token] = "floor"
       /\ FloorEvidence(before, v) /\ AtMostOneDispatch(receipt')

Resolutions == {"submitted", "notSubmitted", "unknown"}

(* The ways a step treats the log: the operation goes on, is resolved      *)
(* without a receipt, is confirmed, or a recovery settles it.              *)
GoesOn == Wrote({"intent", "submitted"}) /\ UNCHANGED token /\ (InUse' => InUse)
EndsUnconfirmed == Wrote(Resolutions) /\ UNCHANGED token /\ ~InUse'
EndsConfirmed ==
    /\ Wrote({"submitted", "receipt", "reconciled"}) /\ UNCHANGED token /\ ~InUse'
    /\ Observe(View(page, token)) /\ Earned /\ UNCHANGED <<envVars, kind>>
Recovers == Wrote({"recovered"}) /\ UNCHANGED token /\ AcceptReload
Takes == \E k \in Kinds : Begin(k) /\ Wrote({})

LEMMA WroteMore ==
    ASSUME NEW S, NEW T, S \subseteq T, Wrote(S)
    PROVE  Wrote(T)
  <1> QED  BY DEF Wrote

(* A view of the page as one probe step deals with it.                     *)
LEMMA ProbeWrites ==
    ASSUME TypeOK, token \in Tokens, NEW v \in Pages
    PROVE  /\ \A event \in {"receipt", "reconciled"} :
                 Confirm(v, event) =>
                     /\ Wrote({"submitted", "receipt", "reconciled"})
                     /\ pc' \in {"idle", "cleanup"}
           /\ \A m, doc : \A tr \in SUBSET TrailFlags :
                 ReportUnknown(Seen(v), tr, m, doc) =>
                     Wrote(Resolutions) /\ pc' \in {"idle", "cleanup"}
           /\ \A next \in {"probe", "final"} :
                 Continue(v, next) =>
                     /\ Wrote({"submitted"})
                     /\ pc' \in {"idle", "cleanup"} \cup {next}
  <1>1. ASSUME NEW event \in {"receipt", "reconciled"}, Confirm(v, event)
        PROVE  /\ Wrote({"submitted", "receipt", "reconciled"})
               /\ pc' \in {"idle", "cleanup"}
    <2> DEFINE events == Seen(v) \o Published(TrailSeen(v), event)
    <2>1. event \in TrailFlags /\ TrailSeen(v) \in SUBSET TrailFlags
      BY SeenType DEF TrailFlags, Events
    <2>2. events \in Seq(Events) /\ \A i \in DOMAIN events : events[i] \in {"submitted", event}
      BY <2>1, EventsOf
    <2> HIDE DEF events
    <2>3. /\ Record(token, events) \/ PublicationRaises(token, events)
          /\ pc' \in {"idle", "cleanup"}
      BY <1>1 DEF Confirm, LeaveUnaudited, Leave, events
    <2>4. Wrote({"submitted", event})
      BY <2>2, <2>3, WriteAdds
    <2> QED  BY <2>3, <2>4, WroteMore
  <1>2. ASSUME NEW tr \in SUBSET TrailFlags, NEW m, NEW doc,
               ReportUnknown(Seen(v), tr, m, doc)
        PROVE  Wrote(Resolutions) /\ pc' \in {"idle", "cleanup"}
    <2> DEFINE events == Seen(v) \o Published(tr, "unknown")
    <2>1. "unknown" \in TrailFlags
      BY DEF TrailFlags, Events
    <2>2. events \in Seq(Events) /\ \A i \in DOMAIN events : events[i] \in {"submitted", "unknown"}
      BY <2>1, EventsOf
    <2> HIDE DEF events
    <2>3. /\ Record(token, events) \/ PublicationRaises(token, events)
          /\ pc' \in {"idle", "cleanup"}
      BY <1>2 DEF ReportUnknown, LeaveUnaudited, Leave, events
    <2>4. Wrote({"submitted", "unknown"})
      BY <2>2, <2>3, WriteAdds
    <2> QED  BY <2>3, <2>4, WroteMore DEF Resolutions
  <1>3. ASSUME NEW next \in {"probe", "final"}, Continue(v, next)
        PROVE  Wrote({"submitted"}) /\ pc' \in {"idle", "cleanup"} \cup {next}
    <2>1. "unknown" \in TrailFlags /\ {} \in SUBSET TrailFlags
      BY DEF TrailFlags, Events
    <2>2. Seen(v) \in Seq(Events) /\ \A i \in DOMAIN Seen(v) : Seen(v)[i] \in {"submitted"}
      BY <2>1, EventsOf
    <2>3. /\ Record(token, Seen(v)) \/ PublicationRaises(token, Seen(v))
          /\ pc' \in {"idle", "cleanup"} \cup {next}
      BY <1>3 DEF Continue, LeaveUnaudited, Leave
    <2> QED  BY <2>2, <2>3, WriteAdds
  <1> QED  BY <1>1, <1>2, <1>3

LEMMA JournalStep ==
    ASSUME TypeInv, [Next]_vars
    PROVE  GoesOn \/ EndsUnconfirmed \/ EndsConfirmed \/ Recovers \/ Takes
  <1>1. TypeOK /\ page \in Pages /\ trail \in SUBSET TrailFlags
    BY DEF TypeInv, TypeOK, EnvTypeOK
  <1>2. pc # "idle" \/ outcome = "unknown" => token \in Tokens
    BY DEF TypeInv, TypeOK, Started
  <1>3. ASSUME UNCHANGED journal PROVE Wrote({}) /\ Wrote({"intent", "submitted"})
    BY <1>3 DEF Wrote, Recorded
  <1>4. ASSUME NEW x \in TrailFlags, token \in Tokens, NEW tr \in SUBSET TrailFlags,
               \/ Record(token, Published(tr, x))
               \/ PublicationRaises(token, Published(tr, x))
        PROVE  Wrote({x})
    <2>1. /\ Published(tr, x) \in Seq(Events)
          /\ \A i \in DOMAIN Published(tr, x) : Published(tr, x)[i] \in {x}
      <3>1. PICK v \in Pages : v = page
        BY <1>1
      <3> QED  BY <1>1, <3>1, EventsOf
    <2> QED  BY <1>1, <1>4, <2>1, WriteAdds
  <1>5. CASE \/ UNCHANGED vars \/ Environment \/ Select \/ Arm \/ StartClick
             \/ ClickReturns \/ ClickErrs \/ ProbeErrs \/ Cleanup
    <2>1. UNCHANGED <<journal, token>> /\ (InUse' => InUse)
      BY <1>5 DEF vars, opVars, busVars, Environment, Select, Arm, StartClick,
                  ClickReturns, ClickErrs, ProbeErrs, Cleanup, InUse
    <2> QED  BY <1>3, <2>1 DEF GoesOn
  <1>6. ASSUME NEW k \in Kinds, Begin(k) PROVE Takes
    <2>1. UNCHANGED journal
      BY <1>6 DEF Begin, busVars
    <2> QED  BY <1>3, <1>6, <2>1 DEF Takes
  <1>7. CASE RecordIntent
    <2>1. token \in Tokens /\ InUse /\ UNCHANGED token /\ "intent" \in TrailFlags
      BY <1>2, <1>7 DEF RecordIntent, InUse, TrailFlags, Events
    <2>2. \/ Record(token, Published(trail, "intent"))
          \/ PublicationRaises(token, Published(trail, "intent"))
          \/ UNCHANGED busVars
      BY <1>7 DEF RecordIntent, LeaveUnaudited
    <2>3. CASE UNCHANGED busVars
      BY <1>3, <2>1, <2>3 DEF busVars, GoesOn
    <2>4. CASE \/ Record(token, Published(trail, "intent"))
               \/ PublicationRaises(token, Published(trail, "intent"))
      <3>1. Wrote({"intent"})
        BY <1>1, <1>4, <2>1, <2>4
      <3> QED  BY <2>1, <3>1, WroteMore DEF GoesOn
    <2> QED  BY <2>2, <2>3, <2>4
  <1>8. CASE AbortStart
    <2>1. token \in Tokens /\ UNCHANGED token /\ "notSubmitted" \in TrailFlags
      BY <1>2, <1>8 DEF AbortStart, TrailFlags, Events
    <2>2. /\ \/ Record(token, Published(trail, "notSubmitted"))
             \/ PublicationRaises(token, Published(trail, "notSubmitted"))
          /\ ~InUse'
      BY <1>8 DEF AbortStart, LeaveUnaudited, Leave, InUse
    <2>3. Wrote({"notSubmitted"})
      BY <1>1, <1>4, <2>1, <2>2
    <2> QED  BY <2>1, <2>2, <2>3, WroteMore DEF EndsUnconfirmed, Resolutions
  <1>9. CASE Interrupted \/ StopProbing
    <2>1. token \in Tokens /\ UNCHANGED token /\ "unknown" \in TrailFlags
      BY <1>2, <1>9 DEF Interrupted, StopProbing, TrailFlags, Events
    <2>2. CASE Interrupted
      <3>1. /\ \/ Record(token, Published(trail, "unknown"))
               \/ PublicationRaises(token, Published(trail, "unknown"))
            /\ ~InUse'
        BY <2>2 DEF Interrupted, Abandon, LeaveUnaudited, Leave, InUse
      <3>2. Wrote({"unknown"})
        BY <1>1, <1>4, <2>1, <3>1
      <3> QED  BY <2>1, <3>1, <3>2, WroteMore DEF EndsUnconfirmed, Resolutions
    <2>3. CASE StopProbing
      <3> DEFINE e == Published(trail, "unknown")
      <3>1. e \in Seq(Events)
        BY <1>1, <2>1, PublishedType
      <3>2. <<>> \o e = e
        BY <3>1
      <3>3. /\ Record(token, <<>> \o e) \/ PublicationRaises(token, <<>> \o e)
            /\ ~InUse'
        BY <2>3 DEF StopProbing, ReportUnknown, LeaveUnaudited, Leave, InUse
      <3>4. Wrote({"unknown"})
        BY <1>1, <1>4, <2>1, <3>2, <3>3
      <3> QED  BY <2>1, <3>3, <3>4, WroteMore DEF EndsUnconfirmed, Resolutions
    <2> QED  BY <1>9, <2>2, <2>3
  <1>10. CASE TurnProbe \/ FloorProbe \/ TurnFinalProbe
    <2> DEFINE v == View(page, token)
    <2>1. /\ token \in Tokens /\ UNCHANGED <<envVars, token, kind>>
          /\ Observe(v) /\ InUse
      BY <1>2, <1>10 DEF TurnProbe, FloorProbe, TurnFinalProbe, InUse
    <2>2. v \in Pages
      BY <1>1, <2>1, PageOps
    <2>3. Confirmation \in {"receipt", "reconciled"} /\ TrailSeen(v) \in SUBSET TrailFlags
      BY <1>1, <2>2, SeenType DEF Confirmation
    <2>4. \/ Earned /\ \E event \in {"receipt", "reconciled"} : Confirm(v, event)
          \/ ReportUnknown(Seen(v), TrailSeen(v), receipt', v.doc)
          \/ \E next \in {"probe", "final"} : Continue(v, next)
      BY <1>10, <2>3 DEF TurnProbe, FloorProbe, TurnFinalProbe, TooLate, Earned
    <2> HIDE DEF v
    <2>5. CASE Earned /\ \E event \in {"receipt", "reconciled"} : Confirm(v, event)
      BY <1>1, <2>1, <2>2, <2>5, ProbeWrites DEF EndsConfirmed, InUse, v
    <2>6. CASE ReportUnknown(Seen(v), TrailSeen(v), receipt', v.doc)
      BY <1>1, <2>1, <2>2, <2>3, <2>6, ProbeWrites DEF EndsUnconfirmed, InUse
    <2>7. CASE \E next \in {"probe", "final"} : Continue(v, next)
      <3>1. Wrote({"submitted"})
        BY <1>1, <2>1, <2>2, <2>7, ProbeWrites
      <3> QED  BY <2>1, <3>1, WroteMore DEF GoesOn
    <2> QED  BY <2>4, <2>5, <2>6, <2>7
  <1>11. CASE AcceptReload
    <2>1. /\ token \in Tokens /\ UNCHANGED token
          /\ Record(token, <<"recovered">>) \/ PublicationRaises(token, <<"recovered">>)
      BY <1>2, <1>11 DEF AcceptReload, opVars
    <2>2. /\ <<"recovered">> \in Seq(Events)
          /\ \A i \in DOMAIN <<"recovered">> : <<"recovered">>[i] \in {"recovered"}
      BY DEF Events
    <2>3. Wrote({"recovered"})
      BY <1>1, <2>1, <2>2, WriteAdds
    <2> QED  BY <1>11, <2>1, <2>3 DEF Recovers
  <1> QED
    BY <1>5, <1>6, <1>7, <1>8, <1>9, <1>10, <1>11 DEF Next, Operation

-----------------------------------------------------------------------------
(* What a step does to the page and its monitor.                           *)

(* Two pages that show the same battle.                                    *)
Alike(p, q) == /\ q.pane = p.pane /\ q.floor = p.floor
               /\ q.controls = p.controls /\ q.pony = p.pony

(* A monitor that was left alone, or has counted one dispatch more.        *)
Counts(m, n) == /\ n.id = m.id /\ n.done = m.done
                /\ n.count = m.count \/ (m.count < 2 /\ n.count = m.count + 1)

LEMMA PageFields ==
    ASSUME NEW p \in Pages, NEW t \in Tokens
    PROVE  /\ Alike(p, View(p, t)) /\ View(p, t).monitor = Matching(p, t)
           /\ View(p, t).doc = p.doc
           /\ Alike(p, Armed(p, t)) /\ Armed(p, t).monitor = MonitorFor(t)
           /\ Alike(p, Unmonitored(p)) /\ Unmonitored(p).monitor = NoMonitor
           /\ Alike(p, CountDispatch(p))
           /\ Counts(p.monitor, CountDispatch(p).monitor)
           /\ Watching(p.monitor) =>
                 CountDispatch(p).monitor.count =
                     IF p.monitor.count < 2 THEN p.monitor.count + 1 ELSE 2
           /\ Alike(p, MutateLog(p))
           /\ MutateLog(p).monitor.id = p.monitor.id
           /\ MutateLog(p).monitor.done = p.monitor.done
           /\ MutateLog(p).monitor.count = p.monitor.count
           /\ Alike(p, p) /\ Counts(p.monitor, p.monitor)
  <1>1. ASSUME NEW m, NEW q, q = [p EXCEPT !.monitor = m]
        PROVE  Alike(p, q) /\ q.monitor = m /\ q.doc = p.doc
    BY <1>1 DEF Alike, Pages
  <1>2. p.monitor \in Monitors
    BY DEF Pages
  <1>3. /\ View(p, t) = [p EXCEPT !.monitor = Matching(p, t)]
        /\ Armed(p, t) = [p EXCEPT !.monitor = MonitorFor(t)]
        /\ Unmonitored(p) = [p EXCEPT !.monitor = NoMonitor]
    BY DEF View, Armed, Unmonitored
  <1>4. /\ Alike(p, View(p, t)) /\ View(p, t).monitor = Matching(p, t)
        /\ View(p, t).doc = p.doc
        /\ Alike(p, Armed(p, t)) /\ Armed(p, t).monitor = MonitorFor(t)
        /\ Alike(p, Unmonitored(p)) /\ Unmonitored(p).monitor = NoMonitor
    BY <1>1, <1>3, Zenon
  <1>5. Alike(p, p) /\ Counts(p.monitor, p.monitor)
    BY DEF Alike, Counts
  <1>6. ASSUME NEW m \in Monitors
        PROVE  /\ Counts(m, Counted(m))
               /\ Counted(m).count = IF m.count < 2 THEN m.count + 1 ELSE 2
    <2>1. PICK c, b : /\ c = IF m.count < 2 THEN m.count + 1 ELSE 2
                      /\ Counted(m) = [m EXCEPT !.count = c, !.mutated = b]
      BY Zenon DEF Counted
    <2>2. /\ Counted(m).id = m.id /\ Counted(m).done = m.done
          /\ Counted(m).count = c /\ m.count \in 0 .. 2
      BY <2>1 DEF Monitors
    <2>3. m.count < 2 \/ m.count = 2
      BY <2>2
    <2> QED  BY <2>1, <2>2, <2>3 DEF Counts
  <1>7. /\ Alike(p, CountDispatch(p))
        /\ Counts(p.monitor, CountDispatch(p).monitor)
        /\ Watching(p.monitor) =>
              CountDispatch(p).monitor.count =
                  IF p.monitor.count < 2 THEN p.monitor.count + 1 ELSE 2
    <2>1. CASE Watching(p.monitor)
      <3>1. CountDispatch(p) = [p EXCEPT !.monitor = Counted(p.monitor)]
        BY <2>1 DEF CountDispatch
      <3>2. /\ Alike(p, CountDispatch(p))
            /\ CountDispatch(p).monitor = Counted(p.monitor)
        BY <1>1, <3>1
      <3> QED  BY <1>2, <1>6, <3>2
    <2>2. CASE ~Watching(p.monitor)
      BY <1>5, <2>2 DEF CountDispatch
    <2> QED  BY <2>1, <2>2
  <1>8. /\ Alike(p, MutateLog(p))
        /\ MutateLog(p).monitor.id = p.monitor.id
        /\ MutateLog(p).monitor.done = p.monitor.done
        /\ MutateLog(p).monitor.count = p.monitor.count
    <2>1. Alike(p, MutateLog(p)) /\ MutateLog(p).monitor = LogChanged(p.monitor)
      <3>1. PICK n : n = p.log + 1
        OBVIOUS
      <3>2. PICK m : m = LogChanged(p.monitor)
        OBVIOUS
      <3>3. MutateLog(p) = [p EXCEPT !.log = n, !.monitor = m]
        BY <3>1, <3>2 DEF MutateLog
      <3> QED  BY <3>2, <3>3 DEF Alike, Pages
    <2>2. /\ LogChanged(p.monitor).id = p.monitor.id
          /\ LogChanged(p.monitor).done = p.monitor.done
          /\ LogChanged(p.monitor).count = p.monitor.count
      BY <1>2 DEF LogChanged, Monitors
    <2> QED  BY <2>1, <2>2
  <1> QED  BY <1>4, <1>5, <1>7, <1>8

(* The server stays, plays a turn, opens a floor, or ends a challenge.     *)
ServerMoves ==
    \/ UNCHANGED server
    \/ /\ server.pane = "none" /\ ~server.pony
       /\ server'.round = server.round /\ server'.pony = server.pony
    \/ /\ server.pane = "next"
       /\ server'.round = server.round + 1 /\ server'.pane = "none"
    \/ /\ server'.round = server.round /\ server'.pane = server.pane
       /\ ~server'.pony

(* The page keeps what it shows, goes blank, gets the server's pane, or    *)
(* shows all that the server knows.                                        *)
Redrawn ==
    \/ Alike(page, page')
    \/ page'.pane = "none" /\ ~page'.controls /\ ~page'.pony
    \/ /\ page'.pane = server.pane /\ page'.floor = server.round
       /\ ~page'.controls /\ page'.pony = page.pony /\ UNCHANGED server
    \/ /\ page'.pane = server.pane /\ page'.floor = server.round
       /\ page'.controls = (server.pane = "none" /\ ~server.pony)
       /\ page'.pony = server.pony /\ UNCHANGED server

LEMMA BlankFields ==
    ASSUME NEW p
    PROVE  /\ Blank(p).pane = "none" /\ ~Blank(p).controls /\ ~Blank(p).pony
           /\ Blank(p).monitor = NoMonitor
  <1> QED  BY DEF Blank

LEMMA ShowStep ==
    ASSUME TypeInv, [Next]_vars
    PROVE  ServerMoves /\ Redrawn
  <1>1. /\ TypeOK /\ page \in Pages /\ server \in Servers /\ 1 \in Tokens
    BY BoundsAssumption DEF TypeInv, TypeOK, EnvTypeOK, Tokens
  <1>2. pc # "idle" \/ outcome = "unknown" => token \in Tokens
    BY DEF TypeInv, TypeOK, Started
  <1>3. ASSUME UNCHANGED server PROVE ServerMoves
    BY <1>3 DEF ServerMoves
  <1>4. ASSUME UNCHANGED page PROVE Redrawn
    BY <1>1, <1>4, PageFields DEF Redrawn
  <1>5. ASSUME page' = Blank(page) PROVE Redrawn
    BY <1>5, BlankFields DEF Redrawn
  <1>6. CASE UNCHANGED vars
    BY <1>3, <1>4, <1>6 DEF vars, envVars
  <1>7. CASE \/ Select \/ RecordIntent \/ StartClick \/ AbortStart \/ ClickReturns
             \/ ClickErrs \/ TurnProbe \/ FloorProbe \/ ProbeErrs \/ StopProbing
             \/ TurnFinalProbe \/ Interrupted \/ \E k \in Kinds : Begin(k)
    <2>1. UNCHANGED <<page, server>>
      BY <1>7
      DEF Select, RecordIntent, StartClick, AbortStart, ClickReturns, ClickErrs,
          TurnProbe, FloorProbe, ProbeErrs, StopProbing, TurnFinalProbe,
          Interrupted, Begin, envVars
    <2> QED  BY <1>3, <1>4, <2>1
  <1>8. CASE Arm \/ Cleanup \/ AcceptReload
    <2>1. /\ page' \in {page, Armed(page, token), Unmonitored(page)}
          /\ UNCHANGED server /\ token \in Tokens
      BY <1>2, <1>8 DEF Arm, Cleanup, AcceptReload
    <2>2. Alike(page, page')
      BY <1>1, <2>1, PageFields
    <2> QED  BY <1>3, <2>1, <2>2 DEF Redrawn
  <1>9. CASE DeliverClick
    <2>1. /\ page' \in {page, CountDispatch(page), Blank(page)} /\ UNCHANGED server
      BY <1>9 DEF DeliverClick, Dispatch, DispatchByNavigation, envVars
    <2>2. CASE page' \in {page, CountDispatch(page)}
      BY <1>1, <1>3, <2>1, <2>2, PageFields DEF Redrawn
    <2> QED  BY <1>3, <1>5, <2>1, <2>2
  <1>10. CASE ResolvePonyChart
    <2>1. page' = Blank(page) /\ server' = [server EXCEPT !.pony = FALSE]
      BY <1>10 DEF ResolvePonyChart
    <2>2. ServerMoves
      BY <1>1, <2>1 DEF ServerMoves, Servers
    <2> QED  BY <1>5, <2>1, <2>2
  <1>11. CASE EnvStep
    <2>1. ASSUME NEW t \in Tokens, Redispatch(t) PROVE ServerMoves /\ Redrawn
      <3>1. page' = CountDispatch(page) /\ UNCHANGED server
        BY <2>1 DEF Redispatch
      <3> QED  BY <1>1, <1>3, <3>1, PageFields DEF Redrawn
    <2>2. ASSUME NEW t \in Tokens, Execute(t) PROVE ServerMoves /\ Redrawn
      <3>1. UNCHANGED page
        BY <2>2 DEF Execute, ExecuteTurn, ExecuteFloor
      <3>2. CASE ExecuteTurn(t)
        <4>1. PICK pane : server' = [server EXCEPT !.pane = pane]
          BY <3>2 DEF ExecuteTurn
        <4>2. server'.round = server.round /\ server'.pony = server.pony
          BY <1>1, <4>1 DEF Servers
        <4> QED  BY <1>4, <3>1, <3>2, <4>2 DEF ExecuteTurn, ServerMoves
      <3>3. CASE ExecuteFloor(t)
        <4>1. PICK pony : server' = [round |-> server.round + 1, pane |-> "none",
                                     pony |-> pony]
          BY <3>3 DEF ExecuteFloor
        <4>2. server'.round = server.round + 1 /\ server'.pane = "none"
          BY <4>1
        <4> QED  BY <1>4, <3>1, <3>3, <4>2 DEF ExecuteFloor, ServerMoves
      <3> QED  BY <2>2, <3>2, <3>3 DEF Execute
    <2>3. ASSUME NEW t \in Tokens, Reply(t) PROVE ServerMoves /\ Redrawn
      BY <1>3, <1>4, <2>3 DEF Reply
    <2>4. ASSUME NEW t \in Tokens, Apply(t) PROVE ServerMoves /\ Redrawn
      <3>1. UNCHANGED server
        BY <2>4 DEF Apply, ApplyTurn, ApplyFloor
      <3>2. MutateLog(page) \in Pages /\ Alike(page, MutateLog(page))
        BY <1>1, <2>4, PageOps, PageFields
      <3>3. CASE ApplyTurn(t)
        <4>1. PICK q \in {page, MutateLog(page)} :
                 page' \in {q, [q EXCEPT !.floor = server.round, !.pane = server.pane,
                                         !.controls = FALSE]}
          BY <3>3 DEF ApplyTurn
        <4>2. q \in Pages /\ Alike(page, q)
          BY <1>1, <3>2, <4>1, <2>4, PageFields
        <4>3. CASE page' = q
          BY <1>3, <3>1, <4>2, <4>3 DEF Redrawn
        <4>4. CASE page' = [q EXCEPT !.floor = server.round, !.pane = server.pane,
                                     !.controls = FALSE]
          <5>1. /\ page'.pane = server.pane /\ page'.floor = server.round
                /\ ~page'.controls /\ page'.pony = q.pony
            BY <4>2, <4>4 DEF Pages
          <5> QED  BY <1>3, <3>1, <4>2, <5>1 DEF Redrawn, Alike
        <4> QED  BY <1>3, <3>1, <4>1, <4>3, <4>4
      <3>4. CASE ApplyFloor(t)
        <4>1. PICK n, b : /\ b = (server.pane = "none" /\ ~server.pony)
                          /\ page' = [MutateLog(page) EXCEPT
                                        !.node = n, !.round = server.round,
                                        !.floor = server.round,
                                        !.pane = server.pane, !.pony = server.pony,
                                        !.controls = b]
          BY <3>4, Zenon DEF ApplyFloor
        <4>2. /\ page'.pane = server.pane /\ page'.floor = server.round
              /\ page'.controls = b /\ page'.pony = server.pony
          BY <3>2, <4>1 DEF Pages
        <4>3. page'.controls = (server.pane = "none" /\ ~server.pony)
          BY <4>1, <4>2, Zenon
        <4> QED  BY <1>3, <3>1, <4>2, <4>3 DEF Redrawn
      <3> QED  BY <2>4, <3>3, <3>4 DEF Apply
    <2>5. ASSUME NEW t \in Tokens, LoadEnd(t) PROVE ServerMoves /\ Redrawn
      <3>1. PICK m : page' = [page EXCEPT !.monitor = m]
        BY <2>5 DEF LoadEnd
      <3>2. Alike(page, page')
        BY <1>1, <3>1 DEF Alike, Pages
      <3> QED  BY <1>3, <2>5, <3>2 DEF LoadEnd, Redrawn
    <2>6. CASE Navigate
      BY <1>3, <1>5, <2>6 DEF Navigate
    <2>7. CASE Render
      <3>1. PICK r, b : /\ b = (server.pane = "none" /\ ~server.pony)
                        /\ page' = [page EXCEPT !.round = r, !.floor = server.round,
                                      !.pane = server.pane, !.pony = server.pony,
                                      !.controls = b]
        BY <2>7, Zenon DEF Render
      <3>2. /\ page'.pane = server.pane /\ page'.floor = server.round
            /\ page'.controls = b /\ page'.pony = server.pony
        BY <1>1, <3>1 DEF Pages
      <3>3. page'.controls = (server.pane = "none" /\ ~server.pony)
        BY <3>1, <3>2, Zenon
      <3> QED  BY <1>3, <2>7, <3>2, <3>3 DEF Render, Redrawn
    <2>8. CASE BecomeReady
      <3>1. Alike(page, page')
        BY <1>1, <2>8 DEF BecomeReady, Alike, Pages
      <3> QED  BY <1>3, <2>8, <3>1 DEF BecomeReady, Redrawn
    <2>9. CASE ForeignLog
      BY <1>1, <1>3, <2>9, PageFields DEF ForeignLog, Redrawn
    <2> QED
      BY <1>11, <2>1, <2>2, <2>3, <2>4, <2>5, <2>6, <2>7, <2>8, <2>9 DEF EnvStep
  <1> QED
    BY <1>6, <1>7, <1>8, <1>9, <1>10, <1>11 DEF Next, Operation, Environment

-----------------------------------------------------------------------------
(* The log of an operation underway.                                       *)

(* The log of an operation underway holds no resolution.                   *)
OpenLog ==
    InUse => \A e \in Events : Recorded(token, e) => e \in {"intent", "submitted"}

(* A token that was not taken has no entry.                                *)
LEMMA NothingLogged ==
    ASSUME OpInv, NEW t \in Tokens, t > token
    PROVE  \A e : ~Recorded(t, e)
  <1>1. journal[t] = <<>>
    BY DEF OpInv, FreshTokens
  <1> QED  BY <1>1 DEF Recorded

LEMMA OpenLogStep == TypeInv /\ OpInv /\ OpenLog /\ [Next]_vars => OpenLog'
  <1> SUFFICES ASSUME TypeInv, OpInv, OpenLog, [Next]_vars PROVE OpenLog'
    OBVIOUS
  <1>1. ASSUME NEW t \in Tokens, t = token', InUse',
               NEW e \in Events, Recorded(t, e)'
        PROVE  e \in {"intent", "submitted"}
    <2>1. CASE GoesOn
      <3>1. InUse /\ t = token
        BY <1>1, <2>1 DEF GoesOn
      <3> QED  BY <1>1, <2>1, <3>1 DEF GoesOn, Wrote, OpenLog
    <2>2. CASE EndsUnconfirmed \/ EndsConfirmed \/ Recovers
      BY <1>1, <2>2
      DEF EndsUnconfirmed, EndsConfirmed, Recovers, AcceptReload, InUse
    <2>3. CASE Takes
      <3>1. t = token + 1 /\ Wrote({}) /\ token \in Nat
        BY <1>1, <2>3, BoundsAssumption
        DEF Takes, Begin, TypeInv, TypeOK, Tokens, NoToken
      <3> QED  BY <1>1, <3>1, NothingLogged DEF Wrote
    <2> QED  BY <2>1, <2>2, <2>3, JournalStep
  <1>2. InUse' => token' \in Tokens
    BY TypeStep DEF InUse, TypeInv, TypeOK, Started
  <1> QED  BY <1>1, <1>2 DEF OpenLog, Recorded

-----------------------------------------------------------------------------
(* What a confirmed floor means.                                           *)

(* The server has cleared floor f, and opened the next one perhaps.        *)
Cleared(f) ==
    \/ server.round > f
    \/ server.round = f /\ server.pane = "next" /\ ~server.pony

(* A page that offers the next floor shows a cleared one.                  *)
PaneIsTrue ==
    /\ page.pane = "next" => Cleared(page.floor)
    /\ page.controls => page.pane = "none"
    /\ server.pane # "none" => ~server.pony

(* Until the server leaves the floor of the chosen control, no page shows  *)
(* what a confirmation looks for.                                          *)
NothingNew ==
    /\ page.pane # "finish" /\ ~page.controls
    /\ pc \notin {"select", "arm"} /\ page.pony => before.pony

FloorChosen ==
    InUse /\ pc # "select" /\ kind[token] = "floor" =>
        /\ Cleared(floorAt[token])
        /\ server.round = floorAt[token] => NothingNew
        /\ pc # "final"

FloorInv == PaneIsTrue /\ FloorChosen /\ ConfirmedFloorAdvanced

(* A cleared floor stays cleared.                                          *)
LEMMA StaysCleared ==
    ASSUME TypeInv, ServerMoves, NEW f \in Nat, Cleared(f)
    PROVE  /\ Cleared(f)'
           /\ server'.round = f =>
                 server.round = f /\ server.pane = "next" /\ ~server.pony
           /\ server'.round >= server.round
  <1>1. server.round \in Nat
    BY DEF TypeInv, TypeOK, EnvTypeOK, Servers
  <1> QED  BY <1>1 DEF ServerMoves, Cleared

(* Where the operation may go, and what it remembers.                      *)
LEMMA ControlStep ==
    ASSUME TypeInv, [Next]_vars
    PROVE  \/ Select \/ Arm \/ \E k \in Kinds : Begin(k)
           \/ /\ UNCHANGED <<before, floorAt, kind, token>>
              /\ pc' = pc \/ pc \notin {"idle", "cleanup", "select", "arm"} \/ ~InUse'
              /\ pc' \notin {"select", "arm"} \/ pc' = pc
              /\ pc' = "final" => pc = "final" \/ kind[token] = "turn"
  <1>1. CASE UNCHANGED vars \/ Environment
    BY <1>1 DEF vars, Environment, opVars, historyVars
  <1>2. CASE \/ RecordIntent \/ StartClick \/ AbortStart \/ ClickReturns
             \/ ClickErrs \/ ProbeErrs \/ StopProbing \/ Interrupted \/ Cleanup
             \/ AcceptReload
    BY <1>2
    DEF RecordIntent, StartClick, AbortStart, ClickReturns, ClickErrs, ProbeErrs,
        StopProbing, Interrupted, Cleanup, AcceptReload, InUse, opVars, historyVars,
        GiveUp, Leave, LeaveUnaudited, ReportUnknown, Abandon
  <1>3. CASE TurnProbe \/ FloorProbe \/ TurnFinalProbe
    <2> DEFINE v == View(page, token)
    <2>1. UNCHANGED <<before, floorAt, kind, token>>
      BY <1>3 DEF TurnProbe, FloorProbe, TurnFinalProbe
    <2>2. \/ pc' \in {"idle", "cleanup"}
          \/ pc' \in {"probe", "final"} /\ pc = "probe" /\ kind[token] = "turn"
          \/ pc' = "probe" /\ pc = "probe"
      BY <1>3 DEF TurnProbe, FloorProbe, TurnFinalProbe, Confirm, TooLate,
                  ReportUnknown, Continue, LeaveUnaudited, Leave
    <2> QED  BY <2>1, <2>2 DEF InUse
  <1> QED  BY <1>1, <1>2, <1>3 DEF Next, Operation

LEMMA PaneStep == TypeInv /\ PaneIsTrue /\ [Next]_vars => PaneIsTrue'
  <1> SUFFICES ASSUME TypeInv, PaneIsTrue, [Next]_vars PROVE PaneIsTrue'
    OBVIOUS
  <1>1. ServerMoves /\ Redrawn
    BY ShowStep
  <1>2. page.floor \in Nat /\ server.round \in Nat /\ server.pony \in BOOLEAN
    BY DEF TypeInv, TypeOK, EnvTypeOK, Pages, Servers
  <1>3. server'.pane # "none" => ~server'.pony
    BY <1>1 DEF ServerMoves, PaneIsTrue
  <1>4. CASE Alike(page, page')
    <2>1. Cleared(page.floor) => Cleared(page.floor)'
      <3>1. PICK f \in Nat : f = page.floor
        BY <1>2
      <3>2. Cleared(f) => Cleared(f)'
        BY <1>1, StaysCleared
      <3>3. page'.floor = f
        BY <1>4, <3>1 DEF Alike
      <3> QED  BY <3>1, <3>2, <3>3 DEF Cleared
    <2> QED  BY <1>3, <1>4, <2>1 DEF PaneIsTrue, Alike, Cleared
  <1>5. CASE page'.pane = "none" /\ ~page'.controls /\ ~page'.pony
    BY <1>3, <1>5 DEF PaneIsTrue
  <1>6. CASE /\ page'.pane = server.pane /\ page'.floor = server.round
             /\ page'.controls => server.pane = "none"
             /\ UNCHANGED server
    BY <1>2, <1>3, <1>6 DEF PaneIsTrue, Cleared
  <1> QED  BY <1>1, <1>4, <1>5, <1>6 DEF Redrawn

LEMMA ChosenStep ==
    TypeInv /\ PaneIsTrue /\ FloorChosen /\ [Next]_vars => FloorChosen'
  <1> SUFFICES ASSUME TypeInv, PaneIsTrue, FloorChosen, [Next]_vars
               PROVE  FloorChosen'
    OBVIOUS
  <1>1. ServerMoves /\ Redrawn
    BY ShowStep
  <1>2. /\ page \in Pages /\ page.floor \in Nat /\ floorAt \in [Tokens -> Nat]
        /\ pc # "idle" => token \in Tokens
    BY DEF TypeInv, TypeOK, EnvTypeOK, Pages, Started
  <1>3. CASE Select
    <2>1. token \in Tokens /\ UNCHANGED <<page, server, token, kind>>
      BY <1>2, <1>3 DEF Select, envVars
    <2>2. CASE pc' \in {"idle", "cleanup"}
      BY <2>2 DEF FloorChosen, InUse
    <2>3. CASE /\ Offered(kind[token]) /\ pc' = "arm"
               /\ floorAt' = [floorAt EXCEPT ![token] = page.floor]
      <3>1. kind[token] = "floor" => page.pane = "next"
        BY <2>3 DEF Offered
      <3>2. floorAt'[token] = page.floor
        BY <1>2, <2>1, <2>3
      <3> QED
        BY <2>1, <2>3, <3>1, <3>2 DEF FloorChosen, PaneIsTrue, NothingNew, Cleared
    <2> QED  BY <1>3, <2>2, <2>3 DEF Select, GiveUp
  <1>4. CASE Arm
    <2>1. token \in Tokens /\ UNCHANGED <<server, token, kind, floorAt>> /\ pc = "arm"
      BY <1>2, <1>4 DEF Arm, historyVars
    <2>2. CASE pc' = "idle"
      BY <2>2 DEF FloorChosen, InUse
    <2>3. CASE /\ page' = Armed(page, token) /\ before' = View(page', token)
               /\ pc' = "intend"
      <3>1. page' \in Pages /\ Alike(page, page')
        BY <1>2, <2>1, <2>3, PageOps, PageFields
      <3>2. PICK q \in Pages : q = page'
        BY <3>1
      <3>3. Alike(q, View(q, token))
        BY <2>1, PageFields
      <3>4. before'.pony = page'.pony
        BY <2>3, <3>2, <3>3 DEF Alike
      <3> QED
        BY <2>1, <2>3, <3>1, <3>4
        DEF FloorChosen, NothingNew, Cleared, Alike, InUse
    <2> QED  BY <1>4, <2>2, <2>3 DEF Arm, GiveUp
  <1>5. CASE \E k \in Kinds : Begin(k)
    BY <1>5 DEF Begin, FloorChosen, InUse
  <1>6. CASE /\ UNCHANGED <<before, floorAt, kind, token>>
             /\ pc' = pc \/ pc \notin {"idle", "cleanup", "select", "arm"} \/ ~InUse'
             /\ pc' \notin {"select", "arm"} \/ pc' = pc
             /\ pc' = "final" => pc = "final" \/ kind[token] = "turn"
    <2> SUFFICES ASSUME InUse', pc' # "select", kind'[token'] = "floor"
                 PROVE  /\ Cleared(floorAt[token])'
                        /\ server'.round = floorAt'[token'] => NothingNew'
                        /\ pc' # "final"
      BY DEF FloorChosen
    <2>1. InUse /\ pc # "select" /\ kind[token] = "floor" /\ token \in Tokens
      BY <1>2, <1>6 DEF InUse
    <2>2. /\ Cleared(floorAt[token])
          /\ server.round = floorAt[token] => NothingNew
          /\ pc # "final"
      BY <2>1 DEF FloorChosen
    <2>3. PICK f \in Nat : f = floorAt[token]
      BY <1>2, <2>1
    <2>4. /\ Cleared(f)'
          /\ server'.round = f =>
                server.round = f /\ server.pane = "next" /\ ~server.pony
      BY <1>1, <2>2, <2>3, StaysCleared
    <2>5. ASSUME server'.round = f PROVE NothingNew'
      <3>1. NothingNew /\ server.pane = "next" /\ ~server.pony
        BY <2>2, <2>3, <2>4, <2>5
      <3>2. /\ page'.pane \in {page.pane, "none", "next"}
            /\ page'.controls => page.controls
            /\ page'.pony => page.pony
        BY <1>1, <3>1 DEF Redrawn, Alike
      <3>3. pc' \notin {"select", "arm"} => pc \notin {"select", "arm"}
        BY <1>6, <2>1 DEF InUse
      <3> QED  BY <1>6, <3>1, <3>2, <3>3 DEF NothingNew
    <2>6. floorAt'[token'] = f /\ Cleared(floorAt[token])' = Cleared(f)'
      BY <1>6, <2>3 DEF Cleared
    <2> QED  BY <1>6, <2>1, <2>2, <2>4, <2>5, <2>6
  <1> QED  BY <1>3, <1>4, <1>5, <1>6, ControlStep

LEMMA AdvancedStep ==
    ASSUME TypeInv, OpInv, OpenLog, PaneIsTrue, FloorChosen,
           ConfirmedFloorAdvanced, [Next]_vars
    PROVE  ConfirmedFloorAdvanced'
  <1> SUFFICES ASSUME NEW t \in Tokens, kind'[t] = "floor", Confirmed(t)'
               PROVE  server'.round > floorAt'[t]
    BY DEF ConfirmedFloorAdvanced
  <1>1. /\ pc # "idle" => token \in Tokens
        /\ token \in Nat /\ page \in Pages /\ server.round \in Nat
        /\ floorAt \in [Tokens -> Nat] /\ kind \in [Tokens -> {"turn", "floor"}]
    BY BoundsAssumption
    DEF TypeInv, TypeOK, EnvTypeOK, Servers, Started, Tokens, NoToken
  <1>2. server'.round >= server.round /\ server'.round \in Nat
    <2>1. ServerMoves
      BY ShowStep
    <2>2. TypeInv'
      BY TypeStep
    <2> QED
      BY <1>1, <2>1, <2>2 DEF ServerMoves, TypeInv, TypeOK, EnvTypeOK, Servers
  <1>3. "receipt" \in Events /\ "reconciled" \in Events
    BY DEF Events
  <1>4. InUse => ~Confirmed(token)
    BY <1>3 DEF OpenLog, Confirmed
  <1>5. CASE Takes
    <2>1. PICK k \in Kinds : Begin(k)
      BY <1>5 DEF Takes
    <2>2. Confirmed(t)
      BY <1>3, <1>5 DEF Takes, Wrote, Confirmed
    <2>3. ~(t > token)
      BY <2>2, NothingLogged DEF Confirmed
    <2>4. kind'[t] = kind[t] /\ floorAt' = floorAt /\ server' = server
      <3>1. t # token + 1
        BY <1>1, <2>3 DEF Tokens
      <3> QED  BY <1>1, <2>1, <3>1 DEF Begin, historyVars, envVars
    <2> QED  BY <2>2, <2>4 DEF ConfirmedFloorAdvanced
  <1>6. CASE EndsConfirmed /\ t = token
    <2>1. /\ pc \in {"probe", "final"} /\ Earned /\ UNCHANGED <<envVars, kind>>
          /\ token \in Tokens
      BY <1>1, <1>6 DEF EndsConfirmed, Earned
    <2>2. kind[token] = "floor" /\ server' = server
      BY <1>6, <2>1 DEF envVars
    <2>3. /\ Cleared(floorAt[token]) /\ pc # "final"
          /\ server.round = floorAt[token] => NothingNew
      BY <2>1, <2>2 DEF FloorChosen, InUse
    <2>4. FloorEvidence(before, View(page, token)) /\ pc = "probe"
      BY <2>1, <2>2, <2>3 DEF Earned
    <2>5. Alike(page, View(page, token))
      BY <1>1, <2>1, PageFields
    <2>6. server.round # floorAt[token]
      <3> SUFFICES ASSUME NothingNew PROVE FALSE
        BY <2>3
      <3> QED  BY <2>4, <2>5 DEF NothingNew, FloorEvidence, Alike
    <2>7. floorAt' = floorAt
      BY <2>4, ControlStep DEF Select, Arm, Begin
    <2> QED  BY <1>6, <2>2, <2>3, <2>6, <2>7 DEF Cleared
  <1>7. CASE /\ GoesOn \/ EndsUnconfirmed \/ Recovers \/ (EndsConfirmed /\ t # token)
             /\ ~Takes
    <2>1. Confirmed(t) /\ token' = token
      BY <1>3, <1>7
      DEF GoesOn, EndsUnconfirmed, EndsConfirmed, Recovers, Wrote, Confirmed,
          Resolutions
    <2>2. kind' = kind /\ floorAt'[t] = floorAt[t]
      <3>1. CASE Select
        <4>1. t # token
          BY <1>4, <2>1, <3>1 DEF Select, InUse
        <4>2. \/ floorAt' = [floorAt EXCEPT ![token] = page.floor]
              \/ floorAt' = floorAt
          BY <3>1 DEF Select
        <4> QED  BY <1>1, <3>1, <4>1, <4>2 DEF Select
      <3>2. CASE Arm
        BY <3>2 DEF Arm, historyVars
      <3>3. CASE \E k \in Kinds : Begin(k)
        <4>1. token' = token + 1
          BY <3>3 DEF Begin
        <4> QED  BY <1>1, <2>1, <4>1
      <3> QED  BY <3>1, <3>2, <3>3, ControlStep
    <2>3. server.round > floorAt[t]
      BY <2>1, <2>2 DEF ConfirmedFloorAdvanced
    <2> QED  BY <1>1, <1>2, <2>2, <2>3
  <1> QED  BY <1>5, <1>6, <1>7, JournalStep

-----------------------------------------------------------------------------
(* What a confirmed turn means.                                            *)

(* A token that no request was sent for.                                   *)
Unsent(t) == request[t].sent = 0 /\ request[t].reply = "none"

(* The server plays what was sent; a normal answer follows an execution.   *)
RequestsPlayed ==
    \A t \in Tokens : /\ request[t].executed <= request[t].sent
                      /\ request[t].reply \in Normal => request[t].executed > 0

(* Nothing is sent for a token before its click reaches the page.          *)
NotYetSent ==
    /\ \A t \in Tokens : t > token => Unsent(t)
    /\ pc \in {"select", "arm", "intend", "start"} => Unsent(token)
    /\ clickLive => /\ token \in Tokens /\ Unsent(token)
                    /\ pc \notin {"select", "arm", "intend", "start"}

(* The monitor of a token has counted every request sent for it, and the   *)
(* answer that ended its counting is the token's last.                     *)
MonitorCounts ==
    \A t \in Tokens : page.monitor.id = t =>
        /\ t <= token
        /\ request[t].sent <= page.monitor.count
        /\ page.monitor.done # "no" => request[t].reply = page.monitor.done

(* A confirmed turn was sent once, played once and answered.               *)
TurnSealed ==
    \A t \in Tokens : kind[t] = "turn" /\ Confirmed(t) =>
        /\ request[t].sent = 1 /\ request[t].executed = 1
        /\ request[t].reply \in Normal

RequestInv == /\ RequestsPlayed /\ NotYetSent /\ MonitorCounts /\ TurnSealed

(* The request of t is as it was, as far as the invariant looks.           *)
SameRequest(t) ==
    /\ request'[t].sent = request[t].sent
    /\ request'[t].executed = request[t].executed
    /\ request'[t].reply = request[t].reply

SameMonitor ==
    /\ page'.monitor.id = page.monitor.id
    /\ page'.monitor.done = page.monitor.done
    /\ page'.monitor.count = page.monitor.count

(* A dispatch in the present document passes the hooks of its monitor.     *)
CountsDispatch ==
    /\ Counts(page.monitor, page'.monitor)
    /\ Watching(page.monitor) =>
          page'.monitor.count =
              IF page.monitor.count < 2 THEN page.monitor.count + 1 ELSE 2

(* The ways a step moves the requests and the monitor that counts them.    *)
Keeps == /\ \A t \in Tokens : SameRequest(t)
         /\ \/ SameMonitor
            \/ page'.monitor.id = NoToken
            \/ pc = "arm" /\ token \in Tokens /\ page'.monitor = MonitorFor(token)
Ends(t) == /\ \A u \in Tokens : SameRequest(u)
           /\ page.monitor.id = t /\ page.monitor.done = "no"
           /\ page'.monitor.id = t /\ page'.monitor.done = request[t].reply
           /\ page'.monitor.count = page.monitor.count
Sends == /\ clickLive /\ ~clickLive' /\ token \in Tokens
         /\ \A u \in Tokens \ {token} : SameRequest(u)
         /\ request'[token].sent = 1
         /\ request'[token].executed = request[token].executed
         /\ request'[token].reply \in {"pending", request[token].reply}
         /\ CountsDispatch \/ page'.monitor.id = NoToken
Resends(t) == /\ \A u \in Tokens \ {t} : SameRequest(u)
              /\ request[t].sent = 1 /\ request[t].reply = "pending"
              /\ request'[t].sent = 2
              /\ request'[t].executed = request[t].executed
              /\ request'[t].reply = request[t].reply
              /\ CountsDispatch
Plays(t) == /\ \A u \in Tokens \ {t} : SameRequest(u)
            /\ request[t].executed < request[t].sent
            /\ request'[t].executed = request[t].executed + 1
            /\ request'[t].sent = request[t].sent
            /\ request'[t].reply = request[t].reply
            /\ SameMonitor
Answers(t) == /\ \A u \in Tokens \ {t} : SameRequest(u)
              /\ request[t].reply = "pending"
              /\ request'[t].reply \in Replies
              /\ request'[t].reply \in Normal => request[t].executed > 0
              /\ request'[t].sent = request[t].sent
              /\ request'[t].executed = request[t].executed
              /\ SameMonitor

LEMMA RequestStep ==
    ASSUME TypeInv, NotYetSent, [Next]_vars
    PROVE  \/ Keeps \/ Sends
           \/ \E t \in Tokens : Ends(t) \/ Resends(t) \/ Plays(t) \/ Answers(t)
  <1>1. /\ TypeOK /\ page \in Pages /\ request \in [Tokens -> Requests]
        /\ 1 \in Tokens
    BY BoundsAssumption DEF TypeInv, TypeOK, EnvTypeOK, Tokens
  <1>2. pc # "idle" \/ outcome = "unknown" => token \in Tokens
    BY DEF TypeInv, TypeOK, Started
  <1>3. ASSUME UNCHANGED request PROVE \A t \in Tokens : SameRequest(t)
    BY <1>3 DEF SameRequest
  <1>4. ASSUME UNCHANGED page PROVE SameMonitor
    BY <1>4 DEF SameMonitor
  <1>5. ASSUME page' = Blank(page) PROVE page'.monitor.id = NoToken
    BY <1>5 DEF Blank, NoMonitor, MonitorFor
  <1>6. ASSUME NEW t \in Tokens, NEW q \in Requests,
               request' = [request EXCEPT ![t] = q]
        PROVE  /\ \A u \in Tokens \ {t} : SameRequest(u)
               /\ request'[t] = q
    BY <1>1, <1>6 DEF SameRequest
  <1>7. ASSUME NEW t \in Tokens PROVE request[t] \in Requests
    BY <1>1
  <1>8. ASSUME NEW t \in Tokens, page' = CountDispatch(page) PROVE CountsDispatch
    BY <1>1, <1>8, PageFields DEF CountsDispatch
  <1>9. CASE UNCHANGED vars
    BY <1>3, <1>4, <1>9 DEF vars, envVars, Keeps
  <1>10. CASE \/ Select \/ RecordIntent \/ StartClick \/ AbortStart \/ ClickReturns
              \/ ClickErrs \/ TurnProbe \/ FloorProbe \/ ProbeErrs \/ StopProbing
              \/ TurnFinalProbe \/ Interrupted \/ \E k \in Kinds : Begin(k)
    <2>1. UNCHANGED <<page, request>>
      BY <1>10
      DEF Select, RecordIntent, StartClick, AbortStart, ClickReturns, ClickErrs,
          TurnProbe, FloorProbe, ProbeErrs, StopProbing, TurnFinalProbe,
          Interrupted, Begin, envVars
    <2> QED  BY <1>3, <1>4, <2>1 DEF Keeps
  <1>11. CASE Arm \/ Cleanup \/ AcceptReload
    <2>1. /\ \/ page' = page \/ page' = Unmonitored(page)
             \/ page' = Armed(page, token) /\ pc = "arm"
          /\ UNCHANGED request /\ token \in Tokens
      BY <1>2, <1>11 DEF Arm, Cleanup, AcceptReload
    <2>2. page' = Unmonitored(page) => page'.monitor.id = NoToken
      <3>1. Unmonitored(page).monitor = NoMonitor
        BY <1>1, <2>1, PageFields
      <3>2. NoMonitor.id = NoToken
        BY DEF NoMonitor, MonitorFor
      <3> QED  BY <3>1, <3>2
    <2>3. page' = Armed(page, token) => page'.monitor = MonitorFor(token)
      BY <1>1, <2>1, PageFields
    <2> QED  BY <1>3, <1>4, <2>1, <2>2, <2>3 DEF Keeps
  <1>12. CASE ResolvePonyChart
    BY <1>3, <1>5, <1>12 DEF ResolvePonyChart, Keeps
  <1>13. CASE DeliverClick
    <2>1. clickLive /\ ~clickLive'
      BY <1>13 DEF DeliverClick, StrayClick
    <2>2. CASE UNCHANGED envVars
      BY <1>3, <1>4, <2>2 DEF envVars, Keeps
    <2>3. token \in Tokens
      BY <2>1 DEF NotYetSent
    <2>4. CASE Dispatch(token) /\ token \in Tokens
      <3>1. PICK q : q = [request[token] EXCEPT !.sent = 1, !.doc = page.doc,
                                                !.reply = "pending"]
        OBVIOUS
      <3>2. request' = [request EXCEPT ![token] = q] /\ page' = CountDispatch(page)
        BY <2>4, <3>1 DEF Dispatch
      <3>3. q.sent = 1 /\ q.executed = request[token].executed /\ q.reply = "pending"
        BY <1>7, <2>4, <3>1 DEF Requests
      <3>4. /\ \A u \in Tokens \ {token} : SameRequest(u)
            /\ request'[token] = q
        BY <1>1, <2>4, <3>2 DEF SameRequest
      <3> QED  BY <1>8, <2>1, <2>4, <3>2, <3>3, <3>4 DEF Sends
    <2>5. CASE DispatchByNavigation(token) /\ token \in Tokens
      <3>1. PICK q : q = [request[token] EXCEPT !.sent = 1, !.doc = page.doc]
        OBVIOUS
      <3>2. request' = [request EXCEPT ![token] = q] /\ page' = Blank(page)
        BY <2>5, <3>1 DEF DispatchByNavigation
      <3>3. /\ q.sent = 1 /\ q.executed = request[token].executed
            /\ q.reply = request[token].reply
        BY <1>7, <2>5, <3>1 DEF Requests
      <3>4. /\ \A u \in Tokens \ {token} : SameRequest(u)
            /\ request'[token] = q
        BY <1>1, <2>5, <3>2 DEF SameRequest
      <3> QED  BY <1>5, <2>1, <2>5, <3>2, <3>3, <3>4 DEF Sends
    <2> QED  BY <1>13, <2>2, <2>3, <2>4, <2>5 DEF DeliverClick
  <1>14. CASE EnvStep
    <2>1. ASSUME NEW t \in Tokens, Redispatch(t) PROVE Resends(t)
      <3>1. PICK q : q = [request[t] EXCEPT !.sent = 2]
        OBVIOUS
      <3>2. request' = [request EXCEPT ![t] = q] /\ page' = CountDispatch(page)
        BY <2>1, <3>1 DEF Redispatch
      <3>3. /\ q.sent = 2 /\ q.executed = request[t].executed
            /\ q.reply = request[t].reply
        BY <1>7, <3>1 DEF Requests
      <3>4. (\A u \in Tokens \ {t} : SameRequest(u)) /\ request'[t] = q
        BY <1>1, <3>2 DEF SameRequest
      <3> QED  BY <1>8, <2>1, <3>2, <3>3, <3>4 DEF Redispatch, Resends
    <2>2. ASSUME NEW t \in Tokens, Execute(t) PROVE Plays(t)
      <3>1. PICK q : /\ request' = [request EXCEPT ![t] = q]
                     /\ q.executed = request[t].executed + 1
                     /\ q.sent = request[t].sent /\ q.reply = request[t].reply
        <4>1. CASE ExecuteTurn(t)
          <5>1. PICK b : request' = [request EXCEPT ![t].executed = @ + 1, ![t].pane = b]
            BY <4>1 DEF ExecuteTurn
          <5>2. PICK p : p = [request[t] EXCEPT !.executed = @ + 1, !.pane = b]
            OBVIOUS
          <5>3. request' = [request EXCEPT ![t] = p]
            BY <1>1, <5>1, <5>2, Zenon
          <5>4. /\ p.executed = request[t].executed + 1
                /\ p.sent = request[t].sent /\ p.reply = request[t].reply
            BY <1>7, <5>2 DEF Requests
          <5> QED  BY <5>3, <5>4
        <4>2. CASE ExecuteFloor(t)
          <5>1. PICK p : p = [request[t] EXCEPT !.executed = @ + 1]
            OBVIOUS
          <5>2. request' = [request EXCEPT ![t] = p]
            BY <4>2, <5>1 DEF ExecuteFloor
          <5>3. /\ p.executed = request[t].executed + 1
                /\ p.sent = request[t].sent /\ p.reply = request[t].reply
            BY <1>7, <5>1 DEF Requests
          <5> QED  BY <5>2, <5>3
        <4> QED  BY <2>2, <4>1, <4>2 DEF Execute
      <3>2. (\A u \in Tokens \ {t} : SameRequest(u)) /\ request'[t] = q
        BY <1>1, <3>1 DEF SameRequest
      <3>3. UNCHANGED page /\ request[t].executed < request[t].sent
        BY <2>2 DEF Execute, ExecuteTurn, ExecuteFloor
      <3> QED  BY <1>4, <3>1, <3>2, <3>3 DEF Plays
    <2>3. ASSUME NEW t \in Tokens, Reply(t) PROVE Answers(t)
      <3>1. PICK r \in Replies : /\ r \in Normal => request[t].executed > 0
                                 /\ request' = [request EXCEPT ![t].reply = r]
        BY <2>3 DEF Reply
      <3>2. PICK q : q = [request[t] EXCEPT !.reply = r]
        OBVIOUS
      <3>3. /\ q.reply = r /\ q.executed = request[t].executed
            /\ q.sent = request[t].sent
        BY <1>7, <3>2 DEF Requests
      <3>4. (\A u \in Tokens \ {t} : SameRequest(u)) /\ request'[t] = q
        BY <1>1, <3>1, <3>2 DEF SameRequest
      <3> QED  BY <1>4, <2>3, <3>1, <3>3, <3>4 DEF Reply, Answers
    <2>4. ASSUME NEW t \in Tokens, Apply(t) PROVE Keeps
      <3>1. request' = [request EXCEPT ![t].applied = TRUE]
        BY <2>4 DEF Apply, ApplyTurn, ApplyFloor
      <3>2. PICK q : q = [request[t] EXCEPT !.applied = TRUE]
        OBVIOUS
      <3>3. /\ q.reply = request[t].reply /\ q.executed = request[t].executed
            /\ q.sent = request[t].sent
        BY <1>7, <3>2 DEF Requests
      <3>4. \A u \in Tokens : SameRequest(u)
        BY <1>1, <3>1, <3>2, <3>3 DEF SameRequest
      <3>5. \E p \in {page, MutateLog(page)} : page'.monitor = p.monitor
        <4>1. CASE ApplyTurn(t)
          <5>1. PICK p \in {page, MutateLog(page)} :
                   page' \in {p, [p EXCEPT !.floor = server.round,
                                           !.pane = server.pane, !.controls = FALSE]}
            BY <4>1 DEF ApplyTurn
          <5>2. p \in Pages
            BY <1>1, <5>1, PageOps
          <5> QED  BY <5>1, <5>2 DEF Pages
        <4>2. CASE ApplyFloor(t)
          <5>1. PICK n, b : page' = [MutateLog(page) EXCEPT
                                       !.node = n, !.round = server.round,
                                       !.floor = server.round,
                                       !.pane = server.pane, !.pony = server.pony,
                                       !.controls = b]
            BY <4>2, Zenon DEF ApplyFloor
          <5>2. MutateLog(page) \in Pages
            BY <1>1, PageOps
          <5> QED  BY <5>1, <5>2 DEF Pages
        <4> QED  BY <2>4, <4>1, <4>2 DEF Apply
      <3>6. SameMonitor
        BY <1>1, <3>5, PageFields DEF SameMonitor
      <3> QED  BY <3>4, <3>6 DEF Keeps
    <2>5. ASSUME NEW t \in Tokens, LoadEnd(t) PROVE Ends(t)
      <3>1. PICK m : /\ m = [page.monitor EXCEPT !.done = request[t].reply,
                                                 !.pane = request[t].pane]
                     /\ page' = [page EXCEPT !.monitor = m]
        BY <2>5 DEF LoadEnd
      <3>2. page'.monitor = m /\ page.monitor \in Monitors
        BY <1>1, <3>1 DEF Pages
      <3>3. /\ m.id = page.monitor.id /\ m.count = page.monitor.count
            /\ m.done = request[t].reply
        BY <3>1, <3>2 DEF Monitors
      <3> QED  BY <1>3, <2>5, <3>2, <3>3 DEF LoadEnd, Watching, Ends
    <2>6. CASE Navigate
      BY <1>3, <1>5, <2>6 DEF Navigate, Keeps
    <2>7. CASE Render
      <3>1. PICK r, b : page' = [page EXCEPT !.round = r, !.floor = server.round,
                                      !.pane = server.pane, !.pony = server.pony,
                                      !.controls = b]
        BY <2>7, Zenon DEF Render
      <3>2. SameMonitor
        BY <1>1, <3>1 DEF Pages, SameMonitor
      <3> QED  BY <1>3, <2>7, <3>2 DEF Render, Keeps
    <2>8. CASE BecomeReady
      <3>1. SameMonitor
        BY <1>1, <2>8 DEF BecomeReady, SameMonitor, Pages
      <3> QED  BY <1>3, <2>8, <3>1 DEF BecomeReady, Keeps
    <2>9. CASE ForeignLog
      <3>1. SameMonitor
        BY <1>1, <2>9, PageFields DEF ForeignLog, SameMonitor
      <3> QED  BY <1>3, <2>9, <3>1 DEF ForeignLog, Keeps
    <2> QED
      BY <1>14, <2>1, <2>2, <2>3, <2>4, <2>5, <2>6, <2>7, <2>8, <2>9 DEF EnvStep
  <1> QED
    BY <1>9, <1>10, <1>11, <1>12, <1>13, <1>14 DEF Next, Operation, Environment

(* The fields of the requests and of the monitor, as the proofs use them.  *)
LEMMA RequestFields ==
    ASSUME TypeInv
    PROVE  /\ \A t \in Tokens : /\ request[t].sent \in 0 .. 2
                                /\ request[t].executed \in 0 .. 2
                                /\ request[t].reply \in {"none", "pending"} \cup Replies
           /\ page.monitor.count \in 0 .. 2
           /\ page.monitor.done \in {"no"} \cup Replies
           /\ token \in Nat
  <1>1. page.monitor \in Monitors /\ \A t \in Tokens : request[t] \in Requests
    BY DEF TypeInv, TypeOK, EnvTypeOK, Pages
  <1>2. \A t \in Tokens : /\ request[t].sent \in 0 .. 2
                          /\ request[t].executed \in 0 .. 2
                          /\ request[t].reply \in {"none", "pending"} \cup Replies
    BY <1>1 DEF Requests
  <1>3. page.monitor.count \in 0 .. 2 /\ page.monitor.done \in {"no"} \cup Replies
    BY <1>1 DEF Monitors
  <1>4. token \in Nat
    BY BoundsAssumption DEF TypeInv, TypeOK, Tokens, NoToken
  <1> QED  BY <1>2, <1>3, <1>4

LEMMA PlayedStep ==
    TypeInv /\ NotYetSent /\ RequestsPlayed /\ [Next]_vars => RequestsPlayed'
  <1> SUFFICES ASSUME TypeInv, NotYetSent, RequestsPlayed, [Next]_vars,
                      NEW t \in Tokens
               PROVE  /\ request'[t].executed <= request'[t].sent
                      /\ request'[t].reply \in Normal => request'[t].executed > 0
    BY DEF RequestsPlayed
  <1>1. /\ request[t].executed <= request[t].sent
        /\ request[t].reply \in Normal => request[t].executed > 0
        /\ request[t].sent \in 0 .. 2 /\ request[t].executed \in 0 .. 2
    BY RequestFields DEF RequestsPlayed
  <1>2. CASE SameRequest(t)
    BY <1>1, <1>2 DEF SameRequest
  <1>3. CASE Sends /\ t = token
    BY <1>1, <1>3 DEF Sends, NotYetSent, Unsent, Normal
  <1>4. CASE Resends(t) \/ Plays(t) \/ Answers(t)
    BY <1>1, <1>4 DEF Resends, Plays, Answers, Normal
  <1> QED
    BY <1>2, <1>3, <1>4, RequestStep DEF Keeps, Ends, Sends, Resends, Plays, Answers

(* Where the operation stands between its beginning and the click's fate.  *)
LEMMA ClickStep ==
    ASSUME TypeInv, [Next]_vars
    PROVE  \/ \E k \in Kinds : Begin(k)
           \/ /\ UNCHANGED token
              /\ pc' \in {"select", "arm", "intend", "start"} =>
                    pc \in {"select", "arm", "intend", "start"}
              /\ clickLive' => clickLive \/ pc = "start"
              /\ clickLive' /\ pc \in {"select", "arm", "intend", "start"} =>
                    pc' \notin {"select", "arm", "intend", "start"} \/ clickLive
  <1>1. CASE UNCHANGED vars \/ Environment
    BY <1>1 DEF vars, Environment, opVars, DeliverClick, EnvStep, ResolvePonyChart
  <1>2. CASE \/ Select \/ Arm \/ RecordIntent \/ StartClick \/ AbortStart
             \/ ClickReturns \/ ClickErrs \/ ProbeErrs \/ StopProbing \/ Interrupted
             \/ Cleanup \/ AcceptReload
    BY <1>2
    DEF Select, Arm, RecordIntent, StartClick, AbortStart, ClickReturns, ClickErrs,
        ProbeErrs, StopProbing, Interrupted, Cleanup, AcceptReload, opVars,
        GiveUp, Leave, LeaveUnaudited, ReportUnknown, Abandon
  <1>3. CASE TurnProbe \/ FloorProbe \/ TurnFinalProbe
    <2>1. UNCHANGED <<token, clickLive>>
      BY <1>3 DEF TurnProbe, FloorProbe, TurnFinalProbe
    <2>2. pc' \in {"idle", "cleanup", "probe", "final"}
      BY <1>3 DEF TurnProbe, FloorProbe, TurnFinalProbe, Confirm, TooLate,
                  ReportUnknown, Continue, LeaveUnaudited, Leave
    <2> QED  BY <2>1, <2>2
  <1> QED  BY <1>1, <1>2, <1>3 DEF Next, Operation

LEMMA UnsentStep == TypeInv /\ NotYetSent /\ [Next]_vars => NotYetSent'
  <1> SUFFICES ASSUME TypeInv, NotYetSent, [Next]_vars PROVE NotYetSent'
    OBVIOUS
  <1>1. /\ token \in Nat /\ token' \in Nat
        /\ pc # "idle" => token \in Tokens
    BY TypeStep, RequestFields, BoundsAssumption
    DEF TypeInv, TypeOK, Started, Tokens, NoToken
  <1>2. ASSUME NEW t \in Tokens, Unsent(t), ~(Sends /\ t = token)
        PROVE  request'[t].sent = 0 /\ request'[t].reply = "none"
    <2>1. request[t].sent = 0 /\ request[t].reply = "none"
      BY <1>2 DEF Unsent
    <2>2. request[t].executed \in 0 .. 2
      BY RequestFields
    <2>3. ~Resends(t) /\ ~Answers(t)
      BY <2>1 DEF Resends, Answers
    <2>4. \/ SameRequest(t) \/ Plays(t)
      BY <1>2, <2>3, RequestStep DEF Keeps, Ends, Sends, Resends, Plays, Answers
    <2> QED  BY <2>1, <2>4 DEF SameRequest, Plays
  <1>3. CASE \E k \in Kinds : Begin(k)
    <2>1. /\ token' = token + 1 /\ ~clickLive' /\ token + 1 \in Tokens
          /\ UNCHANGED request
      BY <1>1, <1>3, BoundsAssumption DEF Begin, envVars, Tokens, NoToken
    <2>2. \A t \in Tokens : t > token => Unsent(t)'
      BY <2>1 DEF NotYetSent, Unsent
    <2>3. \A t \in Tokens : t > token + 1 => Unsent(t)'
      BY <1>1, <2>2 DEF Tokens
    <2>4. request'[token'].sent = 0 /\ request'[token'].reply = "none"
      BY <1>1, <2>1, <2>2 DEF Unsent
    <2> QED  BY <2>1, <2>3, <2>4 DEF NotYetSent, Unsent
  <1>4. CASE /\ UNCHANGED token
             /\ pc' \in {"select", "arm", "intend", "start"} =>
                   pc \in {"select", "arm", "intend", "start"}
             /\ clickLive' => clickLive \/ pc = "start"
             /\ clickLive' /\ pc \in {"select", "arm", "intend", "start"} =>
                   pc' \notin {"select", "arm", "intend", "start"} \/ clickLive
    <2>1. ASSUME NEW t \in Tokens, t > token PROVE Unsent(t)'
      <3>1. t # token
        BY <1>1, <2>1 DEF Tokens
      <3> QED  BY <1>2, <2>1, <3>1 DEF NotYetSent, Unsent
    <2>2. ASSUME pc' \in {"select", "arm", "intend", "start"}
          PROVE  Unsent(token)'
      <3>1. /\ pc \in {"select", "arm", "intend", "start"} /\ ~clickLive
            /\ token \in Tokens /\ Unsent(token)
        BY <1>1, <1>4, <2>2 DEF NotYetSent
      <3> QED  BY <1>2, <1>4, <3>1 DEF Sends, Unsent
    <2>3. ASSUME clickLive' PROVE token \in Tokens /\ Unsent(token)'
      <3>1. token \in Tokens /\ Unsent(token)
        BY <1>1, <1>4, <2>3 DEF NotYetSent
      <3> QED  BY <1>2, <1>4, <2>3, <3>1 DEF Sends, Unsent
    <2>4. clickLive' => pc' \notin {"select", "arm", "intend", "start"}
      BY <1>4 DEF NotYetSent
    <2> QED  BY <1>4, <2>1, <2>2, <2>3, <2>4 DEF NotYetSent
  <1> QED  BY <1>3, <1>4, ClickStep

LEMMA CountsStep ==
    TypeInv /\ NotYetSent /\ MonitorCounts /\ [Next]_vars => MonitorCounts'
  <1> SUFFICES ASSUME TypeInv, NotYetSent, MonitorCounts, [Next]_vars,
                      NEW t \in Tokens, page'.monitor.id = t
               PROVE  /\ t <= token'
                      /\ request'[t].sent <= page'.monitor.count
                      /\ page'.monitor.done # "no" =>
                            request'[t].reply = page'.monitor.done
    BY DEF MonitorCounts
  <1>1. /\ request[t].sent \in 0 .. 2 /\ page.monitor.count \in 0 .. 2
        /\ page.monitor.done \in {"no"} \cup Replies
        /\ token \in Nat /\ t # NoToken
    BY RequestFields DEF Tokens, NoToken
  <1>2. page.monitor.id = t =>
            /\ t <= token
            /\ request[t].sent <= page.monitor.count
            /\ page.monitor.done # "no" => request[t].reply = page.monitor.done
    BY DEF MonitorCounts
  <1>3. ASSUME t <= token PROVE t <= token'
    <2>1. CASE \E k \in Kinds : Begin(k)
      <3>1. token' = token + 1
        BY <2>1 DEF Begin
      <3> QED  BY <1>1, <1>3, <3>1 DEF Tokens
    <2> QED  BY <1>3, <2>1, ClickStep
  <1>4. CASE SameRequest(t) /\ SameMonitor
    BY <1>2, <1>3, <1>4 DEF SameRequest, SameMonitor
  <1>5. CASE SameRequest(t) /\ CountsDispatch
    <2>1. page.monitor.id = t /\ page'.monitor.done = page.monitor.done
      BY <1>5 DEF CountsDispatch, Counts
    <2>2. page.monitor.count <= page'.monitor.count
      BY <1>1, <1>5 DEF CountsDispatch, Counts
    <2>3. page'.monitor.count \in Nat
      BY <1>1, <1>5 DEF CountsDispatch, Counts
    <2> QED  BY <1>1, <1>2, <1>3, <1>5, <2>1, <2>2, <2>3 DEF SameRequest
  <1>6. CASE Keeps /\ pc = "arm" /\ page'.monitor = MonitorFor(token)
    <2>1. /\ t = token /\ page'.monitor.count = 0 /\ page'.monitor.done = "no"
          /\ request[t].sent = 0
      BY <1>6 DEF MonitorFor, NotYetSent, Unsent
    <2> QED  BY <1>1, <1>3, <1>6, <2>1 DEF Keeps, SameRequest
  <1>7. CASE \E u \in Tokens : Ends(u)
    BY <1>2, <1>3, <1>7 DEF Ends, SameRequest
  <1>8. CASE Sends /\ t = token /\ CountsDispatch
    <2>1. page.monitor.id = t /\ page'.monitor.done = page.monitor.done
      BY <1>8 DEF CountsDispatch, Counts
    <2>2. request[t].reply = "none"
      BY <1>8 DEF Sends, NotYetSent, Unsent
    <2>3. page.monitor.done = "no"
      BY <1>1, <1>2, <2>1, <2>2 DEF Replies, Normal
    <2>4. Watching(page.monitor)
      BY <1>1, <2>1, <2>3 DEF Watching
    <2>5. 1 <= page'.monitor.count
      BY <1>1, <1>8, <2>4 DEF CountsDispatch
    <2> QED  BY <1>1, <1>3, <1>8, <2>1, <2>3, <2>5 DEF Sends
  <1>9. CASE Resends(t)
    <2>1. page.monitor.id = t /\ page'.monitor.done = page.monitor.done
      BY <1>9 DEF Resends, CountsDispatch, Counts
    <2>2. page.monitor.done = "no"
      BY <1>1, <1>2, <1>9, <2>1 DEF Resends, Replies, Normal
    <2>3. Watching(page.monitor) /\ 1 <= page.monitor.count
      BY <1>1, <1>2, <1>9, <2>1, <2>2 DEF Watching, Resends
    <2>4. page'.monitor.count = 2
      BY <1>1, <1>9, <2>3 DEF Resends, CountsDispatch
    <2> QED  BY <1>2, <1>3, <1>9, <2>1, <2>2, <2>4 DEF Resends
  <1>10. CASE Plays(t)
    BY <1>2, <1>3, <1>10 DEF Plays, SameMonitor
  <1>11. CASE Answers(t)
    <2>1. page.monitor.id = t /\ page.monitor.done = "no"
      BY <1>1, <1>2, <1>11 DEF Answers, SameMonitor, Replies, Normal
    <2> QED  BY <1>2, <1>3, <1>11, <2>1 DEF Answers, SameMonitor
  <1>12. ASSUME NEW u \in Tokens, u # t, Resends(u) \/ Plays(u) \/ Answers(u)
         PROVE  SameRequest(t) /\ (SameMonitor \/ CountsDispatch)
    BY <1>12 DEF Resends, Plays, Answers
  <1>13. CASE Sends /\ t # token
    <2>1. SameRequest(t) /\ CountsDispatch
      BY <1>1, <1>13 DEF Sends
    <2> QED  BY <1>5, <2>1
  <1>14. CASE Sends /\ t = token
    BY <1>1, <1>8, <1>14 DEF Sends
  <1>15. CASE Keeps
    BY <1>1, <1>4, <1>6, <1>15 DEF Keeps
  <1> QED
    BY <1>4, <1>5, <1>7, <1>9, <1>10, <1>11, <1>12, <1>13, <1>14, <1>15, RequestStep

LEMMA SealedStep ==
    ASSUME TypeInv, OpInv, RequestsPlayed, NotYetSent, MonitorCounts, TurnSealed,
           [Next]_vars
    PROVE  TurnSealed'
  <1> SUFFICES ASSUME NEW t \in Tokens, kind'[t] = "turn", Confirmed(t)'
               PROVE  /\ request'[t].sent = 1 /\ request'[t].executed = 1
                      /\ request'[t].reply \in Normal
    BY DEF TurnSealed
  <1>1. /\ token \in Nat /\ page \in Pages /\ kind \in [Tokens -> {"turn", "floor"}]
        /\ "receipt" \in Events /\ "reconciled" \in Events
        /\ pc # "idle" => token \in Tokens
    BY RequestFields DEF TypeInv, TypeOK, EnvTypeOK, Events, Started
  <1>2. CASE Confirmed(t)
    <2>1. kind[t] = "turn"
      <3>1. CASE \E k \in Kinds : Begin(k)
        <4>1. ~(t > token)
          BY <1>2, NothingLogged DEF Confirmed
        <4>2. t # token + 1
          BY <1>1, <4>1 DEF Tokens
        <4> QED  BY <1>1, <3>1, <4>2 DEF Begin
      <3>2. CASE UNCHANGED kind
        BY <3>2
      <3> QED  BY <3>1, <3>2, ControlStep DEF Select, Arm
    <2>2. /\ request[t].sent = 1 /\ request[t].executed = 1
          /\ request[t].reply \in Normal
      BY <1>2, <2>1 DEF TurnSealed
    <2>3. ~Resends(t) /\ ~Plays(t) /\ ~Answers(t) /\ ~(Sends /\ t = token)
      BY <2>2 DEF Resends, Plays, Answers, Sends, NotYetSent, Unsent, Normal
    <2>4. SameRequest(t)
      BY <2>3, RequestStep DEF Keeps, Ends, Sends, Resends, Plays, Answers
    <2> QED  BY <2>2, <2>4 DEF SameRequest
  <1>3. CASE ~Confirmed(t)
    <2>1. EndsConfirmed /\ t = token
      BY <1>1, <1>3, JournalStep
      DEF GoesOn, EndsUnconfirmed, EndsConfirmed, Recovers, Takes, Wrote,
          Confirmed, Resolutions
    <2>2. kind[t] = "turn" /\ request' = request /\ token \in Tokens
      BY <2>1 DEF EndsConfirmed, envVars
    <2>3. TurnEvidence(before, View(page, token))
      BY <2>1, <2>2 DEF EndsConfirmed, Earned
    <2>4. View(page, token).monitor = Matching(page, token)
      BY <1>1, <2>2, PageFields
    <2>5. /\ Matching(page, token).count = 1
          /\ Matching(page, token).done \in Normal
      BY <2>3, <2>4 DEF TurnEvidence, NormalResponse
    <2>6. page.monitor.id = token
      <3>1. NoMonitor.count = 0
        BY DEF NoMonitor, MonitorFor
      <3> QED  BY <2>5, <3>1 DEF Matching
    <2>7. page.monitor.count = 1 /\ page.monitor.done \in Normal
      BY <2>5, <2>6 DEF Matching
    <2>8. request[t].sent <= 1 /\ request[t].reply \in Normal
      BY <2>1, <2>2, <2>6, <2>7 DEF MonitorCounts, Normal
    <2>9. request[t].executed > 0 /\ request[t].executed <= request[t].sent
      BY <2>8 DEF RequestsPlayed
    <2>10. request[t].sent \in 0 .. 2 /\ request[t].executed \in 0 .. 2
      BY RequestFields
    <2> QED  BY <2>2, <2>8, <2>9, <2>10
  <1> QED  BY <1>2, <1>3

-----------------------------------------------------------------------------
(* What an observed duplicate rules out.                                   *)

(* A duplicate that was seen is still in the last monitor seen, and in the *)
(* page's own as long as it is there.                                      *)
DuplicateKept ==
    /\ \A t \in Tokens : t > token => ~sawDuplicate[t]
    /\ pc \in {"select", "arm"} => ~sawDuplicate[token]
    /\ token \in Tokens /\ sawDuplicate[token] =>
          /\ receipt.count = 2
          /\ page.monitor.id = token => page.monitor.count = 2

(* It leaves no evidence for a recovery.                                   *)
DuplicateUnrecoverable ==
    outcome = "unknown" => pc = "idle" /\ (sawDuplicate[token] => evidence = {})

DuplicateInv == DuplicateKept /\ DuplicateUnrecoverable /\ DuplicateNeverAccepted


(* What a step learns of the operation's own monitor.                      *)
LEMMA LookStep ==
    ASSUME TypeInv, [Next]_vars
    PROVE  \/ Arm \/ \E k \in Kinds : Begin(k)
           \/ /\ UNCHANGED <<receipt, sawDuplicate, token>>
              /\ pc' \in {"select", "arm"} => pc \in {"select", "arm"}
           \/ /\ Observe(View(page, token)) /\ UNCHANGED <<page, token>>
              /\ InUse /\ pc \notin {"select", "arm"} /\ pc' \notin {"select", "arm"}
  <1>1. CASE UNCHANGED vars \/ Environment
    BY <1>1 DEF vars, Environment, opVars, historyVars
  <1>2. CASE \/ Select \/ RecordIntent \/ StartClick \/ AbortStart
             \/ ClickReturns \/ ClickErrs \/ ProbeErrs \/ StopProbing \/ Interrupted
             \/ Cleanup \/ AcceptReload
    BY <1>2
    DEF Select, RecordIntent, StartClick, AbortStart, ClickReturns, ClickErrs,
        ProbeErrs, StopProbing, Interrupted, Cleanup, AcceptReload, opVars, historyVars,
        GiveUp, Leave, LeaveUnaudited, ReportUnknown, Abandon
  <1>3. CASE TurnProbe \/ FloorProbe \/ TurnFinalProbe
    <2>1. /\ UNCHANGED <<page, token>> /\ Observe(View(page, token))
          /\ pc \in {"probe", "final"}
      BY <1>3 DEF TurnProbe, FloorProbe, TurnFinalProbe, envVars
    <2>2. pc' \in {"idle", "cleanup", "probe", "final"}
      BY <1>3 DEF TurnProbe, FloorProbe, TurnFinalProbe, Confirm, TooLate,
                  ReportUnknown, Continue, LeaveUnaudited, Leave
    <2> QED  BY <2>1, <2>2 DEF InUse
  <1> QED  BY <1>1, <1>2, <1>3 DEF Next, Operation

(* What looking at the page leaves of the monitors.                        *)
LEMMA Observed ==
    ASSUME TypeInv, token \in Tokens, Observe(View(page, token))
    PROVE  /\ \A t \in Tokens : t # token => sawDuplicate'[t] = sawDuplicate[t]
           /\ page.monitor.id = token => receipt' = page.monitor
           /\ page.monitor.id # token => receipt' = receipt
           /\ sawDuplicate'[token] =>
                 \/ sawDuplicate[token]
                 \/ page.monitor.id = token /\ page.monitor.count = 2
  <1> DEFINE v == View(page, token)
  <1>1. page \in Pages /\ sawDuplicate \in [Tokens -> BOOLEAN] /\ token # NoToken
    BY DEF TypeInv, TypeOK, EnvTypeOK, Tokens, NoToken
  <1>2. v.monitor = Matching(page, token)
    BY <1>1, PageFields
  <1>3. NoMonitor.id = NoToken /\ NoMonitor.count = 0
    BY DEF NoMonitor, MonitorFor
  <1>4. /\ page.monitor.id = token => v.monitor = page.monitor
        /\ page.monitor.id # token => v.monitor = NoMonitor
    BY <1>2 DEF Matching
  <1> HIDE DEF v
  <1>5. /\ receipt' = IF v.monitor.id = NoToken THEN receipt ELSE v.monitor
        /\ sawDuplicate' =
              [sawDuplicate EXCEPT ![token] = @ \/ v.monitor.count = 2]
    BY DEF Observe, v
  <1>6. /\ \A t \in Tokens : t # token => sawDuplicate'[t] = sawDuplicate[t]
        /\ sawDuplicate'[token] = (sawDuplicate[token] \/ v.monitor.count = 2)
    BY <1>1, <1>5, Zenon
  <1> QED  BY <1>1, <1>3, <1>4, <1>5, <1>6

LEMMA KeptStep ==
    TypeInv /\ NotYetSent /\ DuplicateKept /\ [Next]_vars => DuplicateKept'
  <1> SUFFICES ASSUME TypeInv, NotYetSent, DuplicateKept, [Next]_vars
               PROVE  DuplicateKept'
    OBVIOUS
  <1>1. /\ token \in Nat
        /\ pc # "idle" => token \in Tokens
        /\ page.monitor.count \in 0 .. 2 /\ \A t \in Tokens : t # NoToken
    BY RequestFields DEF TypeInv, TypeOK, Started, Tokens, NoToken
  <1>2. ASSUME token \in Tokens, pc # "arm", sawDuplicate[token],
               page'.monitor.id = token
        PROVE  page'.monitor.count = 2
    <2>1. page.monitor.id = token => page.monitor.count = 2
      BY <1>2 DEF DuplicateKept
    <2>2. page.monitor.id = token /\ page'.monitor.count \in {page.monitor.count, 2}
      <3>1. CASE CountsDispatch
        BY <1>1, <1>2, <2>1, <3>1 DEF CountsDispatch, Counts
      <3>2. CASE SameMonitor
        BY <1>2, <3>2 DEF SameMonitor
      <3>3. CASE \E t \in Tokens : Ends(t)
        BY <1>2, <3>3 DEF Ends
      <3> QED
        BY <1>1, <1>2, <3>1, <3>2, <3>3, RequestStep
        DEF Keeps, Sends, Resends, Plays, Answers
    <2> QED  BY <2>1, <2>2
  <1>3. CASE \E k \in Kinds : Begin(k)
    <2>1. /\ token' = token + 1 /\ UNCHANGED sawDuplicate
      BY <1>3 DEF Begin, historyVars
    <2>2. \A t \in Tokens : t > token => ~sawDuplicate'[t]
      BY <2>1 DEF DuplicateKept
    <2>3. token + 1 \in Tokens /\ \A t \in Tokens : t > token + 1 => t > token
      BY <1>1, <1>3, BoundsAssumption DEF Begin, Tokens, NoToken
    <2>4. ~sawDuplicate'[token']
      BY <1>1, <2>1, <2>2, <2>3
    <2> QED  BY <2>1, <2>2, <2>3, <2>4 DEF DuplicateKept
  <1>4. CASE Arm
    <2>1. /\ pc = "arm" /\ UNCHANGED <<token, sawDuplicate>>
      BY <1>4 DEF Arm, historyVars
    <2> QED  BY <2>1 DEF DuplicateKept
  <1>5. CASE /\ UNCHANGED <<receipt, sawDuplicate, token>>
             /\ pc' \in {"select", "arm"} => pc \in {"select", "arm"}
    <2>1. token \in Tokens /\ sawDuplicate[token] => pc # "arm"
      BY DEF DuplicateKept
    <2> QED  BY <1>2, <1>5, <2>1 DEF DuplicateKept
  <1>6. CASE /\ Observe(View(page, token)) /\ UNCHANGED <<page, token>>
             /\ InUse /\ pc \notin {"select", "arm"} /\ pc' \notin {"select", "arm"}
    <2>1. token \in Tokens
      BY <1>1, <1>6 DEF InUse
    <2>2. \A t \in Tokens : t > token' => ~sawDuplicate'[t]
      <3> SUFFICES ASSUME NEW t \in Tokens, t > token PROVE ~sawDuplicate'[t]
        BY <1>6
      <3>1. t # token
        BY <1>1 DEF Tokens
      <3> QED  BY <1>6, <2>1, <3>1, Observed DEF DuplicateKept
    <2>3. sawDuplicate'[token] => /\ receipt'.count = 2
                                  /\ page.monitor.id = token => page.monitor.count = 2
      BY <1>6, <2>1, Observed DEF DuplicateKept
    <2> QED  BY <1>6, <2>2, <2>3 DEF DuplicateKept
  <1> QED  BY <1>3, <1>4, <1>5, <1>6, LookStep

(* An outcome becomes unknown with evidence drawn from the last monitor    *)
(* seen, and stays so until a recovery settles it.                         *)
LEMMA UnknownStep ==
    ASSUME TypeInv, DuplicateUnrecoverable, [Next]_vars, outcome' = "unknown"
    PROVE  \/ /\ outcome = "unknown"
              /\ UNCHANGED <<pc, evidence, sawDuplicate, token>>
           \/ /\ pc' = "idle"
              /\ \E doc, dialog, aged :
                    evidence' = RecoveryEvidence(receipt', doc, dialog, aged)
  <1>1. outcome = "unknown" => pc = "idle"
    BY DEF DuplicateUnrecoverable
  <1>2. CASE UNCHANGED vars \/ Environment
    BY <1>2 DEF vars, Environment, opVars, historyVars
  <1>3. CASE \/ Select \/ Arm \/ RecordIntent \/ StartClick \/ AbortStart
             \/ ClickReturns \/ ClickErrs \/ ProbeErrs \/ Interrupted \/ Cleanup
             \/ AcceptReload \/ \E k \in Kinds : Begin(k)
    BY <1>1, <1>3
    DEF Select, Arm, RecordIntent, StartClick, AbortStart, ClickReturns, ClickErrs,
        ProbeErrs, Interrupted, Cleanup, AcceptReload, Begin, MayBegin,
        GiveUp, Leave, LeaveUnaudited, Abandon
  <1>4. CASE StopProbing
    <2>1. ReportUnknown(<<>>, trail, receipt, lastDoc) /\ receipt' = receipt
      BY <1>4 DEF StopProbing
    <2> QED  BY <2>1 DEF ReportUnknown, LeaveUnaudited, Leave
  <1>5. CASE TurnProbe \/ FloorProbe \/ TurnFinalProbe
    <2> DEFINE v == View(page, token)
    <2>1. outcome # "unknown"
      BY <1>1, <1>5 DEF TurnProbe, FloorProbe, TurnFinalProbe
    <2>2. \/ \E event \in {"receipt", "reconciled"} : Confirm(v, event)
          \/ ReportUnknown(Seen(v), TrailSeen(v), receipt', v.doc)
          \/ \E next \in {"probe", "final"} : Continue(v, next)
      BY <1>5 DEF TurnProbe, FloorProbe, TurnFinalProbe, TooLate, Confirmation
    <2> HIDE DEF v
    <2> QED
      BY <2>1, <2>2 DEF Confirm, Continue, ReportUnknown, LeaveUnaudited, Leave
  <1> QED  BY <1>2, <1>3, <1>4, <1>5 DEF Next, Operation

LEMMA UnrecoverableStep ==
    ASSUME TypeInv, DuplicateUnrecoverable, DuplicateKept', [Next]_vars
    PROVE  DuplicateUnrecoverable'
  <1> SUFFICES ASSUME outcome' = "unknown"
               PROVE  pc' = "idle" /\ (sawDuplicate'[token'] => evidence' = {})
    BY DEF DuplicateUnrecoverable
  <1>1. CASE /\ outcome = "unknown"
             /\ UNCHANGED <<pc, evidence, sawDuplicate, token>>
    BY <1>1 DEF DuplicateUnrecoverable
  <1>2. CASE /\ pc' = "idle"
             /\ \E doc, dialog, aged :
                   evidence' = RecoveryEvidence(receipt', doc, dialog, aged)
    <2>1. token' \in Tokens
      BY TypeStep DEF TypeInv, TypeOK, Started
    <2>2. sawDuplicate'[token'] => receipt'.count = 2
      BY <2>1 DEF DuplicateKept
    <2> QED
      BY <1>2, <2>2 DEF RecoveryEvidence, CommunicationFailed, StalledRequest
  <1> QED  BY <1>1, <1>2, UnknownStep

LEMMA NeverAcceptedStep ==
    ASSUME TypeInv, OpInv, OpenLog, DuplicateInv, DuplicateKept', [Next]_vars
    PROVE  DuplicateNeverAccepted'
  <1> SUFFICES ASSUME NEW t \in Tokens, sawDuplicate'[t]
               PROVE  ~Confirmed(t)' /\ ~Recorded(t, "recovered")'
    BY DEF DuplicateNeverAccepted
  <1>1. /\ "receipt" \in Events /\ "reconciled" \in Events /\ "recovered" \in Events
        /\ token \in Nat /\ page \in Pages
        /\ pc # "idle" => token \in Tokens
    BY RequestFields DEF Events, TypeInv, TypeOK, EnvTypeOK, Started
  <1>2. sawDuplicate[t] \/ (t = token /\ InUse)
    <2>1. CASE Observe(View(page, token)) /\ InUse
      <3>1. token \in Tokens
        BY <1>1, <2>1 DEF InUse
      <3> QED  BY <2>1, <3>1, Observed
    <2>2. CASE UNCHANGED sawDuplicate
      BY <2>2
    <2> QED  BY <2>1, <2>2, LookStep DEF Arm, Begin, historyVars
  <1>3. ~Confirmed(t) /\ ~Recorded(t, "recovered")
    BY <1>1, <1>2 DEF DuplicateInv, DuplicateNeverAccepted, OpenLog, Confirmed
  <1>4. CASE EndsConfirmed /\ t = token
    <2> DEFINE v == View(page, token)
    <2>1. receipt'.count = 2
      BY <1>4 DEF EndsConfirmed, DuplicateKept
    <2>2. ~AtMostOneDispatch(receipt')
      BY <2>1 DEF AtMostOneDispatch
    <2>3. TurnEvidence(before, v) /\ Observe(v)
      BY <1>4, <2>2 DEF EndsConfirmed, Earned
    <2>4. v.monitor = Matching(page, token) /\ v.monitor.count = 1
      <3>1. v.monitor.count = 1
        BY <2>3 DEF TurnEvidence, NormalResponse
      <3>2. v.monitor = Matching(page, token)
        BY <1>1, <1>4, PageFields
      <3> QED  BY <3>1, <3>2
    <2>5. page.monitor.id = token /\ page.monitor.count = 1
      BY <2>4 DEF Matching, NoMonitor, MonitorFor
    <2>6. receipt' = page.monitor
      BY <1>4, <2>3, <2>5, Observed
    <2> QED  BY <2>1, <2>5, <2>6
  <1>5. CASE Recovers /\ t = token
    <2>1. /\ outcome = "unknown" /\ evidence # {} /\ UNCHANGED sawDuplicate
      BY <1>5 DEF Recovers, AcceptReload, historyVars
    <2> QED  BY <1>5, <2>1 DEF DuplicateInv, DuplicateUnrecoverable
  <1>6. CASE /\ GoesOn \/ EndsUnconfirmed \/ Takes \/ (EndsConfirmed /\ t # token)
                \/ (Recovers /\ t # token)
    BY <1>1, <1>3, <1>6
    DEF GoesOn, EndsUnconfirmed, Takes, EndsConfirmed, Recovers, Wrote, Resolutions,
        Confirmed
  <1> QED  BY <1>4, <1>5, <1>6, JournalStep

-----------------------------------------------------------------------------
(* The invariant behind the meaning of every resolution.                   *)
EvidenceInv == OpenLog /\ RequestInv /\ DuplicateInv /\ FloorInv

LEMMA EvidenceInit == Init => EvidenceInv
  <1> SUFFICES ASSUME Init PROVE EvidenceInv
    OBVIOUS
  <1>1. /\ pc = "idle" /\ token = NoToken /\ outcome = "none" /\ ~clickLive
        /\ \A t \in Tokens : request[t] = NoRequest /\ ~sawDuplicate[t]
        /\ \A t \in Tokens : \A e : ~Recorded(t, e)
        /\ 0 \notin Tokens /\ NoToken = 0
    BY DEF Init, EnvInit, Recorded, Tokens, NoToken
  <1>2. /\ NoRequest.sent = 0 /\ NoRequest.executed = 0
        /\ NoRequest.reply = "none"
    BY DEF NoRequest
  <1>3. PICK q \in {"none", "next"} :
           server = [round |-> 1, pane |-> q, pony |-> FALSE]
    BY DEF Init, EnvInit
  <1>4. PICK r \in {0, 1}, b \in BOOLEAN :
           /\ b = (server.pane = "none")
           /\ page = [doc |-> 1, node |-> 0, ready |-> TRUE, controls |-> b,
                      log |-> 0, round |-> r, floor |-> 1, pane |-> server.pane,
                      pony |-> FALSE, monitor |-> NoMonitor]
    BY Zenon DEF Init, EnvInit
  <1>5. page.monitor.id \notin Tokens
    BY <1>1, <1>4 DEF NoMonitor, MonitorFor
  <1>6. OpenLog /\ RequestInv
    BY <1>1, <1>2, <1>5
    DEF OpenLog, InUse, RequestInv, RequestsPlayed, NotYetSent, Unsent,
        MonitorCounts, TurnSealed, Confirmed, Normal
  <1>7. DuplicateInv
    BY <1>1 DEF DuplicateInv, DuplicateKept, DuplicateUnrecoverable,
                DuplicateNeverAccepted
  <1>8. PaneIsTrue
    BY <1>3, <1>4 DEF PaneIsTrue, Cleared
  <1>9. FloorChosen /\ ConfirmedFloorAdvanced
    BY <1>1 DEF FloorChosen, InUse, ConfirmedFloorAdvanced, Confirmed
  <1> QED  BY <1>6, <1>7, <1>8, <1>9 DEF EvidenceInv, FloorInv

LEMMA EvidenceStep ==
    TypeInv /\ OpInv /\ EvidenceInv /\ [Next]_vars => EvidenceInv'
  <1> SUFFICES ASSUME TypeInv, OpInv, EvidenceInv, [Next]_vars
               PROVE  EvidenceInv'
    OBVIOUS
  <1>1. OpenLog'
    BY OpenLogStep DEF EvidenceInv
  <1>2. RequestInv'
    BY PlayedStep, UnsentStep, CountsStep, SealedStep DEF EvidenceInv, RequestInv
  <1>3. DuplicateInv'
    <2>1. DuplicateKept'
      BY KeptStep DEF EvidenceInv, RequestInv, DuplicateInv
    <2> QED
      BY <2>1, UnrecoverableStep, NeverAcceptedStep DEF EvidenceInv, DuplicateInv
  <1>4. FloorInv'
    BY PaneStep, ChosenStep, AdvancedStep DEF EvidenceInv, FloorInv
  <1> QED  BY <1>1, <1>2, <1>3, <1>4 DEF EvidenceInv

LEMMA EvidenceInvariance == Spec => []EvidenceInv
  <1>1. Init => EvidenceInv
    BY EvidenceInit
  <1> QED  BY <1>1, EvidenceStep, Invariance, PTL DEF Spec

(* A confirmed turn was sent once and played once, whatever was sent       *)
(* twice, lost, delayed or reloaded on the way.                            *)
THEOREM TurnsPlayedOnce == Spec => []ConfirmedTurnExecutedOnce
  <1>1. EvidenceInv => ConfirmedTurnExecutedOnce
    BY DEF EvidenceInv, RequestInv, TurnSealed, ConfirmedTurnExecutedOnce
  <1> QED  BY <1>1, EvidenceInvariance, PTL

(* A confirmed floor action means that the server has left the floor whose *)
(* pane held the control.                                                  *)
THEOREM FloorsAdvance == Spec => []ConfirmedFloorAdvanced
  <1>1. EvidenceInv => ConfirmedFloorAdvanced
    BY DEF EvidenceInv, FloorInv
  <1> QED  BY <1>1, EvidenceInvariance, PTL

(* An observed duplicate is never confirmed and never recovered.           *)
THEOREM DuplicatesRefused == Spec => []DuplicateNeverAccepted
  <1>1. EvidenceInv => DuplicateNeverAccepted
    BY DEF EvidenceInv, DuplicateInv
  <1> QED  BY <1>1, EvidenceInvariance, PTL


-----------------------------------------------------------------------------
(* The lifecycle that every action implements.                             *)

(* The log of a token shows nothing that has to be settled.                *)
Quiet(t) == Phase(t) \in {"new"} \cup Lifecycle!Settled

(* A token other than the current one is quiet.                            *)
OthersQuiet == bus = "healthy" => \A u \in Tokens : u # token => Quiet(u)

(* What the outcome of an operation says of its log.                       *)
OutcomeIsLogged ==
    bus = "healthy" /\ ~InUse /\ token \in Tokens =>
        /\ MayBegin => Quiet(token)
        /\ outcome = "unknown" => Phase(token) = "unknown"

(* The trail says how far the log of a live operation has come.            *)
TrailIsLogged ==
    Live => Phase(token) = IF "submitted" \in trail THEN "submitted" ELSE "intent"

(* Past the start, the click was started.                                  *)
Clicking == pc \in {"clicking", "probe", "final"}
ClickStarted == Clicking => clicks[token] > 0

FailureLatched == outcome = "auditFailed" => bus = "failed"

PhaseInv == /\ OthersQuiet /\ OutcomeIsLogged /\ TrailIsLogged /\ ClickStarted
            /\ FailureLatched

(* The last event of a log after the bus was asked to write.               *)
LEMMA LastWritten ==
    ASSUME TypeOK, NEW t \in Tokens, NEW events \in Seq(Events),
           Record(t, events) \/ PublicationRaises(t, events)
    PROVE  /\ \A u \in Tokens : u # t => Phase(u)' = Phase(u)
           /\ \/ Phase(t)' = Phase(t)
              \/ \E i \in DOMAIN events : Phase(t)' = events[i]
           /\ bus = "failed" => Phase(t)' = Phase(t)
           /\ Record(t, events) =>
                 /\ bus = "healthy" /\ bus' = "healthy"
                 /\ events = <<>> => Phase(t)' = Phase(t)
                 /\ events # <<>> => Phase(t)' = events[Len(events)]
           /\ PublicationRaises(t, events) => bus' = "failed"
  <1>1. journal[t] \in Seq(Events)
    BY DEF TypeOK
  <1>2. ASSUME NEW u \in Tokens, u # t PROVE Phase(u)' = Phase(u)
    BY <1>2, JournalGrowth DEF Phase
  <1>3. ASSUME NEW e \in Seq(Events), journal' = [journal EXCEPT ![t] = @ \o e]
        PROVE  /\ e = <<>> => Phase(t)' = Phase(t)
               /\ e # <<>> => Phase(t)' = e[Len(e)]
    <2>1. journal'[t] = journal[t] \o e
      BY <1>3 DEF TypeOK
    <2>2. e = <<>> => journal'[t] = journal[t]
      BY <1>1, <2>1
    <2>3. e # <<>> => /\ journal'[t] # <<>>
                      /\ journal'[t][Len(journal'[t])] = e[Len(e)]
      BY <1>1, <2>1, ConcatLast
    <2> QED  BY <2>2, <2>3 DEF Phase
  <1>4. ASSUME NEW e \in Seq(Events), e # <<>>
        PROVE  Len(e) \in DOMAIN e
    BY <1>4, EmptySeq, LenProperties
  <1>5. CASE Record(t, events)
    <2>1. /\ bus = "healthy" /\ bus' = "healthy"
          /\ journal' = [journal EXCEPT ![t] = @ \o events]
      BY <1>5 DEF Record
    <2>2. ~PublicationRaises(t, events)
      BY <2>1 DEF PublicationRaises, RecordFails
    <2> QED  BY <1>2, <1>3, <1>4, <2>1, <2>2
  <1>6. CASE RecordFails(t, events)
    <2>1. PICK n \in 0 .. Len(events) :
             journal' = [journal EXCEPT ![t] = @ \o SubSeq(events, 1, n)]
      BY <1>6 DEF RecordFails
    <2>2. /\ bus = "healthy" /\ bus' = "failed" /\ ~Record(t, events)
      BY <1>6 DEF RecordFails, Record
    <2> DEFINE s == SubSeq(events, 1, n)
    <2>3. s \in Seq(Events) /\ Len(s) = n /\ \A i \in 1 .. n : s[i] = events[i]
      BY <2>1, SubSeqProperties
    <2>4. s # <<>> => n \in DOMAIN events /\ s[Len(s)] = events[n]
      BY <2>1, <2>3, <1>4, LenProperties
    <2> HIDE DEF s
    <2>5. /\ s = <<>> => Phase(t)' = Phase(t)
          /\ s # <<>> => Phase(t)' = s[Len(s)]
      BY <1>3, <2>1, <2>3 DEF s
    <2> QED  BY <1>2, <2>2, <2>4, <2>5
  <1>7. CASE bus = "failed" /\ events # <<>> /\ UNCHANGED busVars
    <2>1. Phase(t)' = Phase(t) /\ bus' = "failed" /\ ~Record(t, events)
      BY <1>7 DEF busVars, Phase, Record
    <2> QED  BY <1>2, <1>7, <2>1
  <1> QED  BY <1>5, <1>6, <1>7 DEF PublicationRaises

(* The log of the current token ends in an event of S, or as it did.       *)
PhaseMoves(S) ==
    /\ UNCHANGED <<token, clicks>>
    /\ \A u \in Tokens : Phase(u)' = Phase(u) \/ (u = token /\ Phase(u)' \in S)

(* Ending the operation keeps what its outcome says of the log.            *)
LEMMA EndKeeps ==
    ASSUME TypeOK, PhaseInv, token \in Tokens, NEW events \in Seq(Events),
           \/ Record(token, events)
           \/ PublicationRaises(token, events) /\ outcome' = "auditFailed",
           Record(token, events) => outcome' # "auditFailed",
           UNCHANGED <<token, clicks>>, ~InUse',
           Record(token, events) /\ MayBegin' =>
               events # <<>> /\ events[Len(events)] \in Lifecycle!Settled,
           Record(token, events) /\ outcome' = "unknown" =>
               events # <<>> /\ events[Len(events)] = "unknown"
    PROVE  PhaseInv'
  <1>1. PICK t \in Tokens : t = token
    OBVIOUS
  <1>2. token' = t /\ ~Live' /\ ~Clicking'
    BY <1>1 DEF InUse, Live, Clicking
  <1>3. TrailIsLogged' /\ ClickStarted'
    BY <1>2 DEF TrailIsLogged, ClickStarted
  <1>4. CASE Record(t, events)
    <2>1. /\ bus = "healthy" /\ bus' = "healthy"
          /\ \A u \in Tokens : u # t => Phase(u)' = Phase(u)
          /\ events # <<>> => Phase(t)' = events[Len(events)]
      BY <1>4, LastWritten
    <2>2. OthersQuiet'
      BY <1>1, <1>2, <2>1 DEF PhaseInv, OthersQuiet, Quiet
    <2>3. MayBegin' => Quiet(t)'
      BY <1>1, <1>4, <2>1 DEF Quiet
    <2>4. outcome' = "unknown" => Phase(t)' = "unknown"
      BY <1>1, <1>4, <2>1
    <2>5. OutcomeIsLogged'
      BY <1>2, <2>3, <2>4 DEF OutcomeIsLogged, Quiet, Phase
    <2>6. FailureLatched'
      BY <1>1, <1>4 DEF FailureLatched
    <2> QED  BY <1>3, <2>2, <2>5, <2>6 DEF PhaseInv
  <1>5. CASE ~Record(t, events)
    <2>1. bus' = "failed"
      BY <1>1, <1>5, LastWritten
    <2> QED
      BY <1>3, <2>1 DEF PhaseInv, OthersQuiet, OutcomeIsLogged, FailureLatched
  <1> QED  BY <1>4, <1>5


(* A write of events of S moves the log to one of them, if anywhere.       *)
LEMMA WriteMoves ==
    ASSUME TypeOK, token \in Tokens, NEW events \in Seq(Events), NEW S,
           \A i \in DOMAIN events : events[i] \in S,
           Record(token, events) \/ PublicationRaises(token, events),
           UNCHANGED <<token, clicks>>
    PROVE  PhaseMoves(S)
  <1>1. PICK t \in Tokens : t = token
    OBVIOUS
  <1>2. /\ \A u \in Tokens : u # t => Phase(u)' = Phase(u)
        /\ Phase(t)' = Phase(t) \/ \E i \in DOMAIN events : Phase(t)' = events[i]
    BY <1>1, LastWritten
  <1> QED  BY <1>1, <1>2 DEF PhaseMoves

(* What a probe of a live operation asks to be written first.              *)
LEMMA SeenCases ==
    ASSUME trail \in {{"intent"}, {"intent", "submitted"}}, NEW v
    PROVE  \/ Seen(v) = <<>> /\ TrailSeen(v) = trail
           \/ Seen(v) = <<"submitted">> /\ TrailSeen(v) = {"intent", "submitted"}
  <1>1. ~Resolved(trail)
    BY DEF Resolved
  <1>2. CASE "submitted" \in trail
    BY <1>1, <1>2 DEF Seen, TrailSeen, Published, Marked, Accepts
  <1>3. CASE "submitted" \notin trail
    BY <1>1, <1>3 DEF Seen, TrailSeen, Published, Marked, Accepts
  <1> QED  BY <1>2, <1>3

(* Confirming, reporting, giving up and going on.                          *)
LEMMA ConfirmKeeps ==
    ASSUME TypeOK, OpInv, PhaseInv, Live, token \in Tokens, NEW v \in Pages,
           NEW event \in {"receipt", "reconciled"}, Confirm(v, event),
           UNCHANGED <<token, clicks>>
    PROVE  PhaseInv' /\ PhaseMoves({"submitted", event})
  <1> DEFINE events == Seen(v) \o Published(TrailSeen(v), event)
  <1>1. trail \in {{"intent"}, {"intent", "submitted"}}
    BY DEF OpInv, LiveIsOpen
  <1>2. /\ Published(TrailSeen(v), event) = <<event>>
        /\ event \in Events /\ event \in TrailFlags
        /\ TrailSeen(v) \in SUBSET TrailFlags
    BY <1>1, OpenTrail, OpenTrailSeen DEF Events, TrailFlags
  <1>3. /\ Seen(v) \in Seq(Events) /\ <<event>> \in Seq(Events) /\ <<event>> # <<>>
        /\ <<event>>[Len(<<event>>)] = event
    BY <1>2, SeenType
  <1>4. events \in Seq(Events) /\ events # <<>> /\ events[Len(events)] = event
    BY <1>2, <1>3, ConcatLast
  <1>5. \A i \in DOMAIN events : events[i] \in {"submitted", event}
    BY <1>2, EventsOf
  <1> HIDE DEF events
  <1>6. /\ \/ Record(token, events) /\ outcome' = "confirmed"
           \/ PublicationRaises(token, events) /\ outcome' = "auditFailed"
        /\ ~InUse'
    BY DEF Confirm, LeaveUnaudited, Leave, events, InUse
  <1>7. ~(Record(token, events) /\ PublicationRaises(token, events))
    BY DEF PublicationRaises, RecordFails, Record
  <1>8. event \in Lifecycle!Settled
    BY DEF Lifecycle!Settled
  <1> QED  BY <1>4, <1>5, <1>6, <1>7, <1>8, EndKeeps, WriteMoves

LEMMA UnknownKeeps ==
    ASSUME TypeOK, OpInv, PhaseInv, Live, token \in Tokens, NEW observed \in Seq(Events),
           \A i \in DOMAIN observed : observed[i] = "submitted",
           NEW seenTrail \in {{"intent"}, {"intent", "submitted"}}, NEW m, NEW doc,
           ReportUnknown(observed, seenTrail, m, doc), UNCHANGED <<token, clicks>>
    PROVE  PhaseInv' /\ PhaseMoves({"submitted", "unknown"})
  <1> DEFINE events == observed \o Published(seenTrail, "unknown")
  <1>1. Published(seenTrail, "unknown") = <<"unknown">> /\ "unknown" \in Events
    BY OpenTrail DEF Events
  <1>2. /\ <<"unknown">> \in Seq(Events) /\ <<"unknown">> # <<>>
        /\ <<"unknown">>[Len(<<"unknown">>)] = "unknown"
        /\ \A i \in DOMAIN <<"unknown">> : <<"unknown">>[i] = "unknown"
    BY <1>1
  <1>3. events \in Seq(Events) /\ events # <<>> /\ events[Len(events)] = "unknown"
    <2> DEFINE e == <<"unknown">>
    <2>1. /\ e \in Seq(Events) /\ e # <<>> /\ e[Len(e)] = "unknown"
          /\ events = observed \o e
      BY <1>1, <1>2
    <2> HIDE DEF e, events
    <2>2. /\ observed \o e \in Seq(Events) /\ observed \o e # <<>>
          /\ (observed \o e)[Len(observed \o e)] = e[Len(e)]
      BY <2>1, ConcatLast
    <2> QED  BY <2>1, <2>2
  <1>4. \A i \in DOMAIN events : events[i] \in {"submitted", "unknown"}
    BY <1>1, <1>2, ConcatElement
  <1> HIDE DEF events
  <1>5. /\ \/ Record(token, events) /\ outcome' = "unknown"
           \/ PublicationRaises(token, events) /\ outcome' = "auditFailed"
        /\ ~InUse'
    BY DEF ReportUnknown, LeaveUnaudited, Leave, events, InUse
  <1>6. ~(Record(token, events) /\ PublicationRaises(token, events))
    BY DEF PublicationRaises, RecordFails, Record
  <1>7. outcome' = "unknown" => ~MayBegin'
    BY DEF MayBegin
  <1> QED  BY <1>3, <1>4, <1>5, <1>6, <1>7, EndKeeps, WriteMoves

LEMMA UnauditedKeeps ==
    ASSUME TypeOK, PhaseInv, token \in Tokens, NEW events \in Seq(Events), NEW S,
           \A i \in DOMAIN events : events[i] \in S,
           NEW safe, LeaveUnaudited(events, safe), UNCHANGED <<token, clicks>>
    PROVE  PhaseInv' /\ PhaseMoves(S)
  <1>1. /\ PublicationRaises(token, events) /\ outcome' = "auditFailed"
        /\ ~InUse'
    BY DEF LeaveUnaudited, Leave, InUse
  <1>2. ~(Record(token, events) /\ PublicationRaises(token, events))
    BY DEF PublicationRaises, RecordFails, Record
  <1> QED  BY <1>1, <1>2, EndKeeps, WriteMoves

LEMMA ContinueKeeps ==
    ASSUME TypeOK, OpInv, PhaseInv, Clicking, token \in Tokens, NEW v \in Pages,
           NEW next \in {"probe", "final"}, Continue(v, next),
           UNCHANGED <<token, clicks>>
    PROVE  PhaseInv' /\ PhaseMoves({"submitted"})
  <1>1. PICK t \in Tokens : t = token
    OBVIOUS
  <1>2. trail \in {{"intent"}, {"intent", "submitted"}} /\ Live
    BY DEF OpInv, LiveIsOpen, Live, Clicking
  <1>3. /\ Seen(v) \in Seq(Events)
        /\ \A i \in DOMAIN Seen(v) : Seen(v)[i] \in {"submitted"}
    <2>1. Seen(v) = <<>> \/ Seen(v) = <<"submitted">>
      BY <1>2, SeenCases
    <2> QED  BY <2>1, SeenType
  <1>4. CASE LeaveUnaudited(Seen(v), TRUE)
    BY <1>3, <1>4, UnauditedKeeps
  <1>5. CASE Record(t, Seen(v)) /\ trail' = TrailSeen(v) /\ pc' = next
             /\ outcome' = outcome
    <2>1. /\ bus = "healthy" /\ bus' = "healthy"
          /\ \A u \in Tokens : u # t => Phase(u)' = Phase(u)
          /\ Seen(v) = <<>> => Phase(t)' = Phase(t)
          /\ Seen(v) # <<>> => Phase(t)' = Seen(v)[Len(Seen(v))]
      BY <1>3, <1>5, LastWritten
    <2>2. Phase(t)' = IF "submitted" \in trail' THEN "submitted" ELSE "intent"
      <3>1. CASE Seen(v) = <<>> /\ trail' = trail
        BY <1>1, <1>2, <2>1, <3>1 DEF PhaseInv, TrailIsLogged
      <3>2. CASE Seen(v) = <<"submitted">> /\ trail' = {"intent", "submitted"}
        <4>1. Seen(v) # <<>> /\ Seen(v)[Len(Seen(v))] = "submitted"
          BY <3>2
        <4> QED  BY <2>1, <3>2, <4>1
      <3> QED  BY <1>2, <1>5, <3>1, <3>2, SeenCases
    <2>3. Clicking' /\ InUse' /\ token' = t
      BY <1>1, <1>5 DEF Clicking, InUse
    <2>4. TrailIsLogged' /\ OutcomeIsLogged'
      BY <2>2, <2>3 DEF TrailIsLogged, OutcomeIsLogged, Phase
    <2>5. OthersQuiet'
      BY <1>1, <2>1, <2>3 DEF PhaseInv, OthersQuiet, Quiet
    <2>6. ClickStarted' /\ FailureLatched'
      BY <1>5, <2>1 DEF PhaseInv, ClickStarted, FailureLatched
    <2>7. PhaseMoves({"submitted"})
      BY <1>1, <1>3, <1>5, WriteMoves
    <2> QED  BY <2>4, <2>5, <2>6, <2>7 DEF PhaseInv
  <1> QED  BY <1>1, <1>4, <1>5 DEF Continue


(* Steps that write nothing and start no click.                            *)
LEMMA QuietStep ==
    ASSUME TypeOK, PhaseInv, UNCHANGED <<token, clicks, journal, bus>>,
           \/ Live /\ Live' /\ (Clicking' => Clicking) /\ UNCHANGED <<trail, outcome>>
           \/ UNCHANGED <<pc, trail, outcome>>
           \/ ~Live /\ InUse /\ ~Live' /\ InUse' /\ UNCHANGED outcome
           \/ pc = "cleanup" /\ pc' = "idle" /\ outcome' \in {outcome, "interrupted"}
           \/ /\ token \in Tokens => Quiet(token)
              /\ pc' = "idle" /\ outcome' \in {"notSubmitted", "interrupted"}
    PROVE  PhaseInv'
  <1>1. \A u : Phase(u)' = Phase(u)
    BY DEF Phase
  <1>2. PICK t : t = token /\ token' = t
    OBVIOUS
  <1>3. Phase(t)' = Phase(t) /\ Phase(token)' = Phase(t) /\ Phase(token) = Phase(t)
    BY <1>2 DEF Phase
  <1>4. OthersQuiet' /\ FailureLatched'
    BY <1>1, <1>2 DEF PhaseInv, OthersQuiet, Quiet, FailureLatched
  <1>5. TrailIsLogged' /\ ClickStarted'
    BY <1>2, <1>3 DEF PhaseInv, TrailIsLogged, ClickStarted, Live, Clicking
  <1>6. OutcomeIsLogged'
    BY <1>2, <1>3 DEF PhaseInv, OutcomeIsLogged, Quiet, MayBegin, Live, InUse
  <1> QED  BY <1>4, <1>5, <1>6 DEF PhaseInv

(* How a step moves the logs and the clicks.                               *)
AfterClick == {"submitted", "receipt", "reconciled", "unknown"}
LifecycleStep ==
    \/ UNCHANGED clicks /\ \A u \in Tokens : Phase(u)' = Phase(u)
    \/ pc = "intend" /\ bus = "healthy" /\ PhaseMoves({"intent"})
    \/ StartClick
    \/ pc = "start" /\ PhaseMoves({"notSubmitted"})
    \/ Clicking /\ PhaseMoves(AfterClick)
    \/ pc = "idle" /\ outcome = "unknown" /\ bus = "healthy" /\ PhaseMoves({"recovered"})

LEMMA MovesMore ==
    ASSUME NEW S, NEW T, S \subseteq T, PhaseMoves(S)
    PROVE  PhaseMoves(T)
  <1> QED  BY DEF PhaseMoves

LEMMA PhaseStep ==
    TypeInv /\ OpInv /\ PhaseInv /\ [Next]_vars => PhaseInv' /\ LifecycleStep
  <1> SUFFICES ASSUME TypeInv, OpInv, PhaseInv, [Next]_vars
               PROVE  PhaseInv' /\ LifecycleStep
    OBVIOUS
  <1>1. TypeOK /\ page \in Pages
    BY DEF TypeInv, TypeOK, EnvTypeOK
  <1>2. pc # "idle" \/ outcome = "unknown" => token \in Tokens
    BY DEF TypeInv, TypeOK, Started
  <1>3. ASSUME UNCHANGED <<journal, clicks>> PROVE LifecycleStep
    BY <1>3 DEF LifecycleStep, Phase
  <1>4. CASE \/ UNCHANGED vars \/ Environment \/ ClickReturns \/ ClickErrs
             \/ ProbeErrs \/ Cleanup
    <2>1. /\ UNCHANGED <<token, clicks, journal, bus>>
          /\ \/ Live /\ Live' /\ (Clicking' => Clicking) /\ UNCHANGED <<trail, outcome>>
             \/ UNCHANGED <<pc, trail, outcome>>
             \/ pc = "cleanup" /\ pc' = "idle" /\ outcome' \in {outcome, "interrupted"}
      BY <1>4 DEF vars, opVars, busVars, Environment, ClickReturns, ClickErrs,
                  ProbeErrs, Cleanup, Live, Clicking
    <2> QED  BY <1>1, <1>3, <2>1, QuietStep
  <1>5. CASE Select \/ Arm
    <2>1. /\ UNCHANGED <<token, clicks, journal, bus>>
          /\ pc \in {"select", "arm"} /\ token \in Tokens
          /\ \/ pc' \in {"arm", "intend"} /\ UNCHANGED outcome
             \/ pc' = "idle" /\ outcome' \in {"notSubmitted", "interrupted"}
      BY <1>2, <1>5 DEF Select, Arm, GiveUp, busVars
    <2>2. Quiet(token)
      BY <2>1 DEF OpInv, BeforeIntent, Quiet, Phase
    <2>3. ~Live /\ InUse /\ (pc' # "idle" => ~Live' /\ InUse')
      BY <2>1 DEF Live, InUse
    <2> QED  BY <1>1, <1>3, <2>1, <2>2, <2>3, QuietStep
  <1>6. ASSUME NEW k \in Kinds, Begin(k) PROVE PhaseInv' /\ LifecycleStep
    <2>1. /\ token \in Nat /\ token' = token + 1 /\ pc = "idle" /\ pc' = "select"
          /\ MayBegin /\ UNCHANGED <<clicks, journal, bus, outcome>>
      BY <1>1, <1>6, BoundsAssumption DEF TypeOK, Begin, Tokens, NoToken, busVars
    <2>2. PICK t : t = token
      OBVIOUS
    <2>3. \A u : Quiet(u)' = Quiet(u)
      BY <2>1 DEF Quiet, Phase
    <2>4. bus = "healthy" => \A u \in Tokens : Quiet(u)
      BY <2>1 DEF PhaseInv, OthersQuiet, OutcomeIsLogged, InUse
    <2>5. OthersQuiet' /\ OutcomeIsLogged' /\ TrailIsLogged' /\ ClickStarted'
          /\ FailureLatched'
      BY <2>1, <2>3, <2>4
      DEF PhaseInv, OthersQuiet, OutcomeIsLogged, TrailIsLogged, ClickStarted,
          FailureLatched, InUse, Live, Clicking
    <2> QED  BY <1>3, <2>1, <2>5 DEF PhaseInv
  <1>7. CASE RecordIntent
    <2>1. /\ pc = "intend" /\ trail = {} /\ journal[token] = <<>>
          /\ token \in Tokens /\ UNCHANGED <<token, clicks>>
      BY <1>2, <1>7 DEF RecordIntent, OpInv, BeforeIntent
    <2>2. PICK t \in Tokens : t = token /\ token' = t
      BY <2>1
    <2>3. Published(trail, "intent") = <<"intent">> /\ Marked(trail, "intent") = {"intent"}
      BY <2>1 DEF Published, Marked, Accepts
    <2> DEFINE e == <<"intent">>
    <2>4. /\ e \in Seq(Events) /\ e # <<>> /\ e[Len(e)] = "intent"
          /\ \A i \in DOMAIN e : e[i] \in {"intent"}
      BY DEF Events
    <2>5. CASE Record(t, e) /\ trail' = {"intent"} /\ pc' = "start"
               /\ UNCHANGED outcome
      <3> HIDE DEF e
      <3>1. /\ bus = "healthy" /\ bus' = "healthy"
            /\ \A u \in Tokens : u # t => Phase(u)' = Phase(u)
            /\ Phase(t)' = "intent"
        BY <1>1, <2>4, <2>5, LastWritten
      <3>2. TrailIsLogged' /\ ClickStarted' /\ OutcomeIsLogged'
        BY <2>2, <2>5, <3>1
        DEF TrailIsLogged, ClickStarted, OutcomeIsLogged, Clicking, InUse, Phase
      <3>3. OthersQuiet'
        BY <2>2, <3>1 DEF PhaseInv, OthersQuiet, Quiet
      <3>4. FailureLatched'
        BY <2>5, <3>1 DEF PhaseInv, FailureLatched
      <3>5. PhaseMoves({"intent"})
        BY <1>1, <2>1, <2>2, <2>4, <2>5, WriteMoves
      <3> QED  BY <2>1, <3>1, <3>2, <3>3, <3>4, <3>5 DEF PhaseInv, LifecycleStep
    <2>6. CASE LeaveUnaudited(e, TRUE)
      <3> HIDE DEF e
      <3>1. PhaseInv' /\ PhaseMoves({"intent"})
        BY <1>1, <2>1, <2>4, <2>6, UnauditedKeeps
      <3>2. bus = "healthy" \/ bus = "failed"
        BY <1>1 DEF TypeOK
      <3>3. bus = "failed" => \A u \in Tokens : Phase(u)' = Phase(u)
        <4>1. PublicationRaises(t, e)
          BY <2>2, <2>6 DEF LeaveUnaudited
        <4> QED  BY <1>1, <2>4, <4>1, LastWritten
      <3> QED  BY <2>1, <3>1, <3>2, <3>3 DEF LifecycleStep
    <2>7. CASE GiveUp("notSubmitted") /\ UNCHANGED <<busVars, trail, evidence>>
      <3>1. Quiet(token)
        BY <2>1 DEF Quiet, Phase
      <3>2. /\ UNCHANGED <<journal, bus>> /\ pc' = "idle"
            /\ outcome' \in {"notSubmitted", "interrupted"}
        BY <2>7 DEF GiveUp, busVars
      <3> QED  BY <1>1, <1>3, <2>1, <3>1, <3>2, QuietStep
    <2> QED  BY <1>7, <2>2, <2>3, <2>5, <2>6, <2>7 DEF RecordIntent
  <1>8. CASE StartClick
    <2>1. /\ pc = "start" /\ pc' = "clicking" /\ token \in Tokens
          /\ clicks' = [clicks EXCEPT ![token] = @ + 1]
          /\ UNCHANGED <<token, trail, journal, bus, outcome>>
      BY <1>2, <1>8 DEF StartClick, opVars, busVars
    <2>2. clicks'[token] > 0
      BY <1>1, <2>1 DEF TypeOK
    <2>3. OthersQuiet' /\ OutcomeIsLogged' /\ TrailIsLogged' /\ FailureLatched'
      BY <2>1 DEF PhaseInv, OthersQuiet, OutcomeIsLogged, TrailIsLogged,
                  FailureLatched, Quiet, Phase, Live, InUse
    <2>4. ClickStarted'
      BY <2>1, <2>2 DEF ClickStarted
    <2> QED  BY <1>8, <2>3, <2>4 DEF PhaseInv, LifecycleStep
  <1>9. CASE AbortStart
    <2>1. /\ pc = "start" /\ trail = {"intent"} /\ token \in Tokens
          /\ UNCHANGED <<token, clicks>>
      BY <1>2, <1>9 DEF AbortStart, OpInv, BeforeClick
    <2>2. Published(trail, "notSubmitted") = <<"notSubmitted">>
      <3>1. ~Resolved(trail) /\ "submitted" \notin trail
        BY <2>1 DEF Resolved
      <3> QED  BY <3>1 DEF Published, Accepts
    <2> DEFINE e == <<"notSubmitted">>
    <2>3. /\ e \in Seq(Events) /\ e # <<>> /\ e[Len(e)] = "notSubmitted"
          /\ \A i \in DOMAIN e : e[i] \in {"notSubmitted"}
      BY DEF Events
    <2>4. "notSubmitted" \in Lifecycle!Settled
      BY DEF Lifecycle!Settled
    <2> HIDE DEF e
    <2>5. CASE LeaveUnaudited(e, TRUE)
      BY <1>1, <2>1, <2>3, <2>5, UnauditedKeeps DEF LifecycleStep
    <2>6. CASE Record(token, e) /\ Leave("notSubmitted", TRUE)
      <3>1. ~InUse' /\ outcome' = "notSubmitted"
        BY <2>6 DEF Leave, InUse
      <3>2. PhaseInv'
        BY <1>1, <2>1, <2>3, <2>4, <2>6, <3>1, EndKeeps
      <3>3. PhaseMoves({"notSubmitted"})
        BY <1>1, <2>1, <2>3, <2>6, WriteMoves
      <3> QED  BY <2>1, <3>2, <3>3 DEF LifecycleStep
    <2> QED  BY <1>9, <2>2, <2>5, <2>6 DEF AbortStart, e
  <1>10. CASE TurnProbe \/ FloorProbe \/ TurnFinalProbe
    <2> DEFINE v == View(page, token)
    <2>1. /\ token \in Tokens /\ Live /\ Clicking /\ UNCHANGED <<token, clicks>>
          /\ trail \in {{"intent"}, {"intent", "submitted"}}
      BY <1>2, <1>10
      DEF TurnProbe, FloorProbe, TurnFinalProbe, Live, Clicking, OpInv, LiveIsOpen
    <2>2. v \in Pages
      BY <1>1, <2>1, PageOps
    <2>3. /\ Seen(v) \in Seq(Events)
          /\ TrailSeen(v) \in {{"intent"}, {"intent", "submitted"}}
          /\ \A i \in DOMAIN Seen(v) : Seen(v)[i] = "submitted"
      <3>1. Seen(v) = <<>> \/ Seen(v) = <<"submitted">>
        BY <2>1, SeenCases
      <3> QED  BY <1>1, <2>1, <2>2, <3>1, SeenType, OpenTrailSeen
    <2>4. Confirmation \in {"receipt", "reconciled"}
      BY DEF Confirmation
    <2> HIDE DEF v
    <2>5. \/ \E event \in {"receipt", "reconciled"} : Confirm(v, event)
          \/ ReportUnknown(Seen(v), TrailSeen(v), receipt', v.doc)
          \/ \E next \in {"probe", "final"} : Continue(v, next)
      BY <1>10, <2>4 DEF v, TurnProbe, FloorProbe, TurnFinalProbe, TooLate
    <2>6. CASE \E event \in {"receipt", "reconciled"} : Confirm(v, event)
      <3>1. PICK event \in {"receipt", "reconciled"} : Confirm(v, event)
        BY <2>6
      <3>2. PhaseInv' /\ PhaseMoves({"submitted", event})
        BY <1>1, <2>1, <2>2, <3>1, ConfirmKeeps
      <3> QED  BY <2>1, <3>2, MovesMore DEF LifecycleStep, AfterClick
    <2>7. CASE ReportUnknown(Seen(v), TrailSeen(v), receipt', v.doc)
      <3>1. PhaseInv' /\ PhaseMoves({"submitted", "unknown"})
        BY <1>1, <2>1, <2>3, <2>7, UnknownKeeps
      <3> QED  BY <2>1, <3>1, MovesMore DEF LifecycleStep, AfterClick
    <2>8. CASE \E next \in {"probe", "final"} : Continue(v, next)
      <3>1. PhaseInv' /\ PhaseMoves({"submitted"})
        BY <1>1, <2>1, <2>2, <2>8, ContinueKeeps
      <3> QED  BY <2>1, <3>1, MovesMore DEF LifecycleStep, AfterClick
    <2> QED  BY <2>5, <2>6, <2>7, <2>8
  <1>11. CASE StopProbing
    <2>1. /\ token \in Tokens /\ Live /\ Clicking /\ UNCHANGED <<token, clicks>>
          /\ trail \in {{"intent"}, {"intent", "submitted"}}
          /\ ReportUnknown(<<>>, trail, receipt, lastDoc) /\ <<>> \in Seq(Events)
          /\ \A i \in DOMAIN <<>> : <<>>[i] = "submitted"
      BY <1>2, <1>11 DEF StopProbing, Live, Clicking, OpInv, LiveIsOpen
    <2>2. PhaseInv' /\ PhaseMoves({"submitted", "unknown"})
      BY <1>1, <2>1, UnknownKeeps
    <2> QED  BY <2>1, <2>2, MovesMore DEF LifecycleStep, AfterClick
  <1>12. CASE Interrupted
    <2> DEFINE e == <<"unknown">>
    <2>1. /\ token \in Tokens /\ Live /\ Clicking /\ UNCHANGED <<token, clicks>>
          /\ trail \in {{"intent"}, {"intent", "submitted"}} /\ Abandon
      BY <1>2, <1>12 DEF Interrupted, Live, Clicking, OpInv, LiveIsOpen
    <2>2. Published(trail, "unknown") = e
      BY <2>1, OpenTrail
    <2>3. /\ e \in Seq(Events) /\ e # <<>> /\ e[Len(e)] = "unknown"
          /\ \A i \in DOMAIN e : e[i] \in {"unknown"}
      BY DEF Events
    <2> HIDE DEF e
    <2>4. CASE LeaveUnaudited(e, TRUE)
      <3>1. PhaseInv' /\ PhaseMoves({"unknown"})
        BY <1>1, <2>1, <2>3, <2>4, UnauditedKeeps
      <3> QED  BY <2>1, <3>1, MovesMore DEF LifecycleStep, AfterClick
    <2>5. CASE Record(token, e) /\ Leave("interrupted", FALSE)
      <3>1. ~InUse' /\ outcome' = "interrupted" /\ ~MayBegin'
        BY <2>5 DEF Leave, InUse, MayBegin
      <3>2. PhaseInv'
        BY <1>1, <2>1, <2>3, <2>5, <3>1, EndKeeps
      <3>3. PhaseMoves({"unknown"})
        BY <1>1, <2>1, <2>3, <2>5, WriteMoves
      <3> QED  BY <2>1, <3>2, <3>3, MovesMore DEF LifecycleStep, AfterClick
    <2> QED  BY <2>1, <2>2, <2>4, <2>5 DEF Abandon
  <1>13. CASE AcceptReload
    <2> DEFINE e == <<"recovered">>
    <2>1. /\ e \in Seq(Events) /\ e # <<>> /\ e[Len(e)] = "recovered"
          /\ \A i \in DOMAIN e : e[i] \in {"recovered"}
      BY DEF Events
    <2>2. "recovered" \in Lifecycle!Settled
      BY DEF Lifecycle!Settled
    <2>3. /\ \/ Record(token, e) /\ outcome' = "recovered"
             \/ PublicationRaises(token, e) /\ outcome' = "auditFailed"
          /\ pc = "idle" /\ outcome = "unknown" /\ token \in Tokens /\ ~InUse'
          /\ UNCHANGED <<token, clicks>>
      BY <1>2, <1>13 DEF AcceptReload, opVars, InUse
    <2> HIDE DEF e
    <2>4. ~(Record(token, e) /\ PublicationRaises(token, e))
      BY DEF PublicationRaises, RecordFails, Record
    <2>5. PhaseInv'
      BY <1>1, <2>1, <2>2, <2>3, <2>4, EndKeeps
    <2>6. PhaseMoves({"recovered"})
      BY <1>1, <2>1, <2>3, WriteMoves
    <2>7. bus = "healthy" \/ bus = "failed"
      BY <1>1 DEF TypeOK
    <2>8. bus = "failed" => \A u \in Tokens : Phase(u)' = Phase(u)
      <3>1. PICK t \in Tokens : t = token
        BY <2>3
      <3> QED  BY <1>1, <2>1, <2>3, <3>1, LastWritten
    <2> QED  BY <2>3, <2>5, <2>6, <2>7, <2>8 DEF LifecycleStep
  <1> QED
    BY <1>4, <1>5, <1>6, <1>7, <1>8, <1>9, <1>10, <1>11, <1>12, <1>13
    DEF Next, Operation


LEMMA PhaseInit == Init => PhaseInv
  <1> SUFFICES ASSUME Init PROVE PhaseInv
    OBVIOUS
  <1>1. /\ pc = "idle" /\ token = NoToken /\ outcome = "none"
        /\ \A t \in Tokens : journal[t] = <<>> /\ t # NoToken
    BY DEF Init, Tokens, NoToken
  <1>2. \A t \in Tokens : Quiet(t)
    BY <1>1 DEF Quiet, Phase
  <1> QED
    BY <1>1, <1>2 DEF PhaseInv, OthersQuiet, OutcomeIsLogged, TrailIsLogged,
                      ClickStarted, FailureLatched, Live, Clicking

(* The phases after the log of one token has moved.                        *)
LEMMA PhaseUpdate ==
    ASSUME NEW S, NEW t \in Tokens, t = token, PhaseMoves(S)
    PROVE  /\ \/ UNCHANGED Lifecycle!vars
              \/ /\ Phase(t)' \in S
                 /\ [u \in Tokens |-> Phase(u)]' =
                       [[u \in Tokens |-> Phase(u)] EXCEPT ![t] = Phase(t)']
           /\ UNCHANGED [u \in Tokens |-> clicks[u] > 0]
  <1>1. UNCHANGED clicks
    BY DEF PhaseMoves
  <1>2. \A u \in Tokens : u # t => Phase(u)' = Phase(u)
    BY DEF PhaseMoves
  <1>3. Phase(t)' = Phase(t) \/ Phase(t)' \in S
    BY DEF PhaseMoves
  <1>4. CASE Phase(t)' = Phase(t)
    <2>1. \A u \in Tokens : Phase(u)' = Phase(u)
      BY <1>2, <1>4
    <2> QED  BY <1>1, <2>1 DEF Lifecycle!vars
  <1>5. CASE Phase(t)' \in S
    BY <1>1, <1>2, <1>5
  <1> QED  BY <1>3, <1>4, <1>5

(* A step of the action manager is a step of the lifecycle, or none.       *)
LEMMA ImplementsStep ==
    ASSUME TypeInv, OpInv, PhaseInv, LifecycleStep
    PROVE  [Lifecycle!Next]_(Lifecycle!vars)
  <1> DEFINE phases == [u \in Tokens |-> Phase(u)]
             clicked == [u \in Tokens |-> clicks[u] > 0]
  <1>1. TypeOK /\ (pc # "idle" \/ outcome = "unknown" => token \in Tokens)
    BY DEF TypeInv, TypeOK, Started
  <1>2. CASE UNCHANGED clicks /\ \A u \in Tokens : Phase(u)' = Phase(u)
    BY <1>2 DEF Lifecycle!vars
  <1>3. ASSUME NEW S, NEW t \in Tokens, t = token, PhaseMoves(S),
               ~UNCHANGED Lifecycle!vars
        PROVE  /\ Phase(t)' \in S /\ phases' = [phases EXCEPT ![t] = Phase(t)']
               /\ UNCHANGED clicked
    BY <1>3, PhaseUpdate
  <1>4. CASE pc = "intend" /\ bus = "healthy" /\ PhaseMoves({"intent"})
    <2>1. PICK t \in Tokens : t = token
      BY <1>1, <1>4
    <2>2. Phase(t) = "new"
      BY <1>4, <2>1 DEF OpInv, BeforeIntent, Phase
    <2>3. \A u \in Tokens \ {t} : Phase(u) \in {"new"} \cup Lifecycle!Settled
      BY <1>4, <2>1 DEF PhaseInv, OthersQuiet, Quiet
    <2>4. SUFFICES ASSUME ~UNCHANGED Lifecycle!vars PROVE Lifecycle!Intend(t)
      BY DEF Lifecycle!Next
    <2>5. phases' = [phases EXCEPT ![t] = "intent"] /\ UNCHANGED clicked
      <3> DEFINE S == {"intent"}
      <3>1. PhaseMoves(S) /\ \A e \in S : e = "intent"
        BY <1>4
      <3> HIDE DEF S
      <3>2. PICK e \in S : phases' = [phases EXCEPT ![t] = e]
        BY <1>3, <1>4, <2>1, <2>4, <3>1
      <3>3. UNCHANGED clicked
        BY <1>3, <1>4, <2>1, <2>4, <3>1
      <3> QED  BY <3>1, <3>2, <3>3
    <2> QED  BY <2>2, <2>3, <2>5 DEF Lifecycle!Intend
  <1>5. CASE StartClick
    <2>1. PICK t \in Tokens : t = token
      BY <1>1, <1>5 DEF StartClick
    <2>2. /\ pc = "start" /\ clicks' = [clicks EXCEPT ![t] = @ + 1]
          /\ UNCHANGED journal /\ clicks \in [Tokens -> Nat]
      BY <1>1, <1>5, <2>1 DEF StartClick, busVars, TypeOK
    <2>3. clicks[t] = 0 /\ trail = {"intent"}
      BY <2>1, <2>2 DEF OpInv, BeforeClick
    <2>4. Phase(t) = "intent"
      BY <2>1, <2>2, <2>3 DEF PhaseInv, TrailIsLogged, Live, Phase
    <2>5. UNCHANGED phases
      BY <2>2 DEF Phase
    <2>6. clicked' = [clicked EXCEPT ![t] = TRUE]
      <3>1. clicks'[t] > 0 /\ \A u \in Tokens : u # t => clicks'[u] = clicks[u]
        BY <2>2, <2>3
      <3>2. ASSUME NEW u \in Tokens
            PROVE  (clicks'[u] > 0) = [clicked EXCEPT ![t] = TRUE][u]
        <4>1. CASE u = t
          BY <3>1, <4>1, Zenon
        <4>2. CASE u # t
          BY <3>1, <4>2, Zenon
        <4> QED  BY <4>1, <4>2
      <3> QED  BY <3>2, Zenon
    <2>7. ~clicked[t]
      <3>1. ~(clicks[t] > 0)
        BY <2>3
      <3> QED  BY <3>1, Zenon
    <2>8. Lifecycle!Click(t)
      BY <2>4, <2>5, <2>6, <2>7 DEF Lifecycle!Click
    <2> QED  BY <2>8 DEF Lifecycle!Next
  <1>6. CASE pc = "start" /\ PhaseMoves({"notSubmitted"})
    <2>1. PICK t \in Tokens : t = token
      BY <1>1, <1>6
    <2>2. clicks[t] = 0 /\ trail = {"intent"}
      BY <1>6, <2>1 DEF OpInv, BeforeClick
    <2>3. Phase(t) = "intent" /\ ~clicked[t]
      <3>1. Phase(t) = "intent"
        BY <1>6, <2>1, <2>2 DEF PhaseInv, TrailIsLogged, Live, Phase
      <3>2. ~(clicks[t] > 0)
        BY <2>2
      <3>3. ~clicked[t]
        BY <3>2, Zenon
      <3> QED  BY <3>1, <3>3
    <2>4. SUFFICES ASSUME ~UNCHANGED Lifecycle!vars PROVE Lifecycle!Abort(t)
      BY DEF Lifecycle!Next
    <2>5. phases' = [phases EXCEPT ![t] = "notSubmitted"] /\ UNCHANGED clicked
      <3> DEFINE S == {"notSubmitted"}
      <3>1. PhaseMoves(S) /\ \A e \in S : e = "notSubmitted"
        BY <1>6
      <3> HIDE DEF S
      <3>2. PICK e \in S : phases' = [phases EXCEPT ![t] = e]
        BY <1>3, <1>6, <2>1, <2>4, <3>1
      <3>3. UNCHANGED clicked
        BY <1>3, <1>6, <2>1, <2>4, <3>1
      <3> QED  BY <3>1, <3>2, <3>3
    <2> QED  BY <2>3, <2>5 DEF Lifecycle!Abort
  <1>7. CASE Clicking /\ PhaseMoves(AfterClick)
    <2>1. PICK t \in Tokens : t = token
      BY <1>1, <1>7 DEF Clicking
    <2>2. clicked[t] /\ Phase(t) \in {"intent", "submitted"}
      BY <1>7, <2>1
      DEF PhaseInv, ClickStarted, TrailIsLogged, Live, Clicking, Phase
    <2>3. SUFFICES ASSUME ~UNCHANGED Lifecycle!vars PROVE Lifecycle!Next
      OBVIOUS
    <2>4. PICK e \in AfterClick : phases' = [phases EXCEPT ![t] = e]
      BY <1>3, <1>7, <2>1, <2>3
    <2>5. UNCHANGED clicked
      BY <1>3, <1>7, <2>1, <2>3
    <2>6. CASE e = "submitted"
      <3>1. Phase(t) = "intent"
        <4>1. ASSUME Phase(t) = "submitted" PROVE phases' = phases
          BY <2>4, <2>6, <4>1
        <4> QED  BY <2>2, <2>3, <2>5, <4>1 DEF Lifecycle!vars
      <3>2. Lifecycle!Submitted(t)
        BY <2>2, <2>4, <2>5, <2>6, <3>1 DEF Lifecycle!Submitted
      <3> QED  BY <3>2 DEF Lifecycle!Next
    <2>7. CASE e \in {"receipt", "reconciled"}
      <3>1. Lifecycle!Confirm(t)
        BY <2>2, <2>4, <2>5, <2>7 DEF Lifecycle!Confirm, Lifecycle!Open
      <3> QED  BY <3>1 DEF Lifecycle!Next
    <2>8. CASE e = "unknown"
      <3>1. Lifecycle!Unknown(t)
        BY <2>2, <2>4, <2>5, <2>8 DEF Lifecycle!Unknown, Lifecycle!Open
      <3> QED  BY <3>1 DEF Lifecycle!Next
    <2> QED  BY <2>6, <2>7, <2>8 DEF AfterClick
  <1>8. CASE /\ pc = "idle" /\ outcome = "unknown" /\ bus = "healthy"
             /\ PhaseMoves({"recovered"})
    <2>1. PICK t \in Tokens : t = token
      BY <1>1, <1>8
    <2>2. Phase(t) = "unknown"
      BY <1>8, <2>1 DEF PhaseInv, OutcomeIsLogged, InUse, Phase
    <2>3. SUFFICES ASSUME ~UNCHANGED Lifecycle!vars PROVE Lifecycle!Recover(t)
      BY DEF Lifecycle!Next
    <2>4. phases' = [phases EXCEPT ![t] = "recovered"] /\ UNCHANGED clicked
      <3> DEFINE S == {"recovered"}
      <3>1. PhaseMoves(S) /\ \A e \in S : e = "recovered"
        BY <1>8
      <3> HIDE DEF S
      <3>2. PICK e \in S : phases' = [phases EXCEPT ![t] = e]
        BY <1>3, <1>8, <2>1, <2>3, <3>1
      <3>3. UNCHANGED clicked
        BY <1>3, <1>8, <2>1, <2>3, <3>1
      <3> QED  BY <3>1, <3>2, <3>3
    <2> QED  BY <2>2, <2>4 DEF Lifecycle!Recover
  <1> QED  BY <1>2, <1>4, <1>5, <1>6, <1>7, <1>8 DEF LifecycleStep

(* The action manager implements the lifecycle: through the durable log    *)
(* alone, every action is seen to be intended while nothing is unsettled,  *)
(* clicked at most once after that, and settled or reported as unknown.    *)
THEOREM LifecycleImplemented == Spec => ImplementsLifecycle
  <1>1. Init => PhaseInv
    BY PhaseInit
  <1>2. Init => Lifecycle!Init
    <2> SUFFICES ASSUME Init PROVE Lifecycle!Init
      OBVIOUS
    <2>1. \A t \in Tokens : Phase(t) = "new" /\ clicks[t] = 0
      BY DEF Init, Phase
    <2>2. [t \in Tokens |-> Phase(t)] = [t \in Tokens |-> "new"]
      BY <2>1
    <2>3. ASSUME NEW t \in Tokens PROVE (clicks[t] > 0) = FALSE
      BY <2>1
    <2>4. [t \in Tokens |-> clicks[t] > 0] = [t \in Tokens |-> FALSE]
      BY <2>3, Zenon
    <2> QED  BY <2>2, <2>4 DEF Lifecycle!Init
  <1>3. TypeInv /\ OpInv /\ PhaseInv /\ [Next]_vars
           => PhaseInv' /\ [Lifecycle!Next]_(Lifecycle!vars)
    BY PhaseStep, ImplementsStep
  <1> QED
    BY <1>1, <1>2, <1>3, Invariance, PTL DEF Spec, ImplementsLifecycle, Lifecycle!Spec


-----------------------------------------------------------------------------
(* Clicks that are still travelling.                                       *)

(* Two pages that show the same in the same document.                      *)
SameLooks(p, q) ==
    /\ q.doc = p.doc /\ q.node = p.node /\ q.log = p.log /\ q.round = p.round
    /\ q.pane = p.pane /\ q.pony = p.pony /\ q.controls = p.controls

(* A document that has shown what it was loaded for.                       *)
Drawn(p) == p.controls \/ p.pane # "none" \/ p.pony

(* The ways a step changes the page: its looks stay and no mutation is     *)
(* seen, a new document, an answer applied, what a document was loaded for *)
(* rendered, or a third party writes.                                      *)
LooksStay ==
    /\ SameLooks(page, page')
    /\ page'.monitor.mutated =>
          page.monitor.mutated /\ page'.monitor.id = page.monitor.id
Reloads == page'.doc = page.doc + 1
AppliesAnswer ==
    /\ page'.doc = page.doc
    /\ \E t \in Tokens : /\ request[t].reply \in Normal /\ ~request[t].applied
                         /\ request[t].doc = page.doc /\ request'[t].applied
Draws == page'.doc = page.doc /\ ~Drawn(page)
Intrudes == page'.doc = page.doc /\ foreign' > 0

LEMMA SameDocument ==
    ASSUME NEW p \in Pages
    PROVE  /\ \A t \in Tokens : /\ SameLooks(p, View(p, t))
                                /\ View(p, t).monitor = Matching(p, t)
                                /\ SameLooks(p, Armed(p, t))
                                /\ Armed(p, t).monitor = MonitorFor(t)
           /\ SameLooks(p, Unmonitored(p)) /\ Unmonitored(p).monitor = NoMonitor
           /\ SameLooks(p, CountDispatch(p))
           /\ CountDispatch(p).monitor.mutated =>
                 p.monitor.mutated /\ CountDispatch(p).monitor.id = p.monitor.id
           /\ MutateLog(p).doc = p.doc
           /\ SameLooks(p, p)
  <1>1. ASSUME NEW m
        PROVE  /\ SameLooks(p, [p EXCEPT !.monitor = m])
               /\ [p EXCEPT !.monitor = m].monitor = m
    BY DEF SameLooks, Pages
  <1>2. ASSUME NEW t \in Tokens
        PROVE  /\ View(p, t) = [p EXCEPT !.monitor = Matching(p, t)]
               /\ Armed(p, t) = [p EXCEPT !.monitor = MonitorFor(t)]
    BY DEF View, Armed
  <1>3. Unmonitored(p) = [p EXCEPT !.monitor = NoMonitor]
    BY DEF Unmonitored
  <1>4. SameLooks(p, p)
    BY DEF SameLooks
  <1>5. /\ SameLooks(p, CountDispatch(p))
        /\ CountDispatch(p).monitor.mutated =>
              p.monitor.mutated /\ CountDispatch(p).monitor.id = p.monitor.id
    <2>1. CASE Watching(p.monitor)
      <3>1. CountDispatch(p) = [p EXCEPT !.monitor = Counted(p.monitor)]
        BY <2>1 DEF CountDispatch
      <3>2. PICK c, b : /\ b = (IF p.monitor.count = 0 THEN FALSE ELSE p.monitor.mutated)
                        /\ Counted(p.monitor) = [p.monitor EXCEPT !.count = c, !.mutated = b]
        BY Zenon DEF Counted
      <3>3. p.monitor \in Monitors
        BY DEF Pages
      <3>4. Counted(p.monitor).id = p.monitor.id /\ Counted(p.monitor).mutated = b
        BY <3>2, <3>3 DEF Monitors
      <3>5. b => p.monitor.mutated
        BY <3>2, Zenon
      <3>6. CountDispatch(p).monitor = Counted(p.monitor) /\ SameLooks(p, CountDispatch(p))
        BY <1>1, <3>1
      <3> QED  BY <3>4, <3>5, <3>6
    <2>2. CASE ~Watching(p.monitor)
      BY <1>4, <2>2 DEF CountDispatch
    <2> QED  BY <2>1, <2>2
  <1>6. MutateLog(p).doc = p.doc
    BY DEF MutateLog, Pages
  <1>7. ASSUME NEW t \in Tokens
        PROVE  /\ SameLooks(p, View(p, t)) /\ View(p, t).monitor = Matching(p, t)
               /\ SameLooks(p, Armed(p, t)) /\ Armed(p, t).monitor = MonitorFor(t)
    BY <1>1, <1>2
  <1>8. SameLooks(p, Unmonitored(p)) /\ Unmonitored(p).monitor = NoMonitor
    BY <1>1, <1>3
  <1> QED  BY <1>4, <1>5, <1>6, <1>7, <1>8

LEMMA DrawStep ==
    ASSUME TypeInv, [Next]_vars
    PROVE  /\ LooksStay \/ Reloads \/ AppliesAnswer \/ Draws \/ Intrudes
           /\ foreign' = 0 => foreign = 0
  <1>1. /\ TypeOK /\ page \in Pages /\ 1 \in Tokens /\ foreign \in Nat
        /\ request \in [Tokens -> Requests]
    BY BoundsAssumption DEF TypeInv, TypeOK, EnvTypeOK, Tokens
  <1>2. pc # "idle" \/ outcome = "unknown" => token \in Tokens
    BY DEF TypeInv, TypeOK, Started
  <1>3. ~MonitorFor(token).mutated /\ ~NoMonitor.mutated
    BY DEF MonitorFor, NoMonitor
  <1>4. ASSUME UNCHANGED page PROVE LooksStay
    BY <1>1, <1>4 DEF LooksStay, SameLooks
  <1>5. ASSUME page' = CountDispatch(page) PROVE LooksStay
    BY <1>1, <1>5, SameDocument DEF LooksStay
  <1>6. ASSUME page' = Blank(page) PROVE Reloads
    BY <1>6 DEF Reloads, Blank
  <1>7. CASE \/ UNCHANGED vars \/ Select \/ RecordIntent \/ StartClick \/ AbortStart
             \/ ClickReturns \/ ClickErrs \/ TurnProbe \/ FloorProbe \/ ProbeErrs
             \/ StopProbing \/ TurnFinalProbe \/ Interrupted
             \/ \E k \in Kinds : Begin(k)
    <2>1. UNCHANGED <<page, foreign>>
      BY <1>7
      DEF Select, RecordIntent, StartClick, AbortStart, ClickReturns, ClickErrs,
          TurnProbe, FloorProbe, ProbeErrs, StopProbing, TurnFinalProbe,
          Interrupted, Begin, vars, envVars
    <2> QED  BY <1>4, <2>1
  <1>8. CASE Arm \/ Cleanup \/ AcceptReload
    <2>1. /\ page' \in {page, Armed(page, token), Unmonitored(page)}
          /\ UNCHANGED foreign /\ token \in Tokens
      BY <1>2, <1>8 DEF Arm, Cleanup, AcceptReload
    <2>2. LooksStay
      BY <1>1, <1>3, <1>4, <2>1, SameDocument DEF LooksStay
    <2> QED  BY <2>1, <2>2
  <1>9. CASE DeliverClick
    <2>1. /\ page' \in {page, CountDispatch(page), Blank(page)} /\ UNCHANGED foreign
      BY <1>9 DEF DeliverClick, Dispatch, DispatchByNavigation, envVars
    <2> QED  BY <1>4, <1>5, <1>6, <2>1
  <1>10. CASE ResolvePonyChart
    BY <1>6, <1>10 DEF ResolvePonyChart
  <1>11. CASE EnvStep
    <2>1. ASSUME NEW t \in Tokens, Redispatch(t) \/ Execute(t) \/ Reply(t) \/ LoadEnd(t)
          PROVE  LooksStay /\ UNCHANGED foreign
      <3>1. CASE Redispatch(t)
        BY <1>5, <3>1 DEF Redispatch
      <3>2. CASE Execute(t) \/ Reply(t)
        BY <1>4, <3>2 DEF Execute, ExecuteTurn, ExecuteFloor, Reply
      <3>3. CASE LoadEnd(t)
        <4>1. PICK r, b : /\ page' = [page EXCEPT !.monitor = [@ EXCEPT !.done = r, !.pane = b]]
                          /\ UNCHANGED foreign
          BY <3>3 DEF LoadEnd
        <4>2. page.monitor \in Monitors
          BY <1>1 DEF Pages
        <4>3. /\ page'.monitor.mutated = page.monitor.mutated
              /\ page'.monitor.id = page.monitor.id
          BY <1>1, <4>1, <4>2 DEF Pages, Monitors
        <4>4. SameLooks(page, page')
          BY <1>1, <4>1 DEF SameLooks, Pages
        <4> QED  BY <4>1, <4>3, <4>4 DEF LooksStay
      <3> QED  BY <2>1, <3>1, <3>2, <3>3
    <2>2. ASSUME NEW t \in Tokens, Apply(t) PROVE AppliesAnswer /\ UNCHANGED foreign
      <3>1. /\ request[t].reply \in Normal /\ ~request[t].applied
            /\ request[t].doc = page.doc /\ UNCHANGED foreign
            /\ request' = [request EXCEPT ![t].applied = TRUE]
        BY <2>2 DEF Apply, ApplyTurn, ApplyFloor
      <3>2. request'[t].applied
        BY <1>1, <2>2, <3>1 DEF Requests
      <3>3. MutateLog(page) \in Pages /\ MutateLog(page).doc = page.doc
        BY <1>1, <2>2, PageOps, SameDocument
      <3>4. page'.doc = page.doc
        <4>1. CASE ApplyTurn(t)
          <5>1. PICK q \in {page, MutateLog(page)} :
                   page' \in {q, [q EXCEPT !.floor = server.round, !.pane = server.pane,
                                           !.controls = FALSE]}
            BY <4>1 DEF ApplyTurn
          <5>2. q \in Pages /\ q.doc = page.doc
            BY <1>1, <3>3
          <5> QED  BY <5>1, <5>2 DEF Pages
        <4>2. CASE ApplyFloor(t)
          <5>1. PICK n, b : page' = [MutateLog(page) EXCEPT
                               !.node = n, !.round = server.round,
                               !.floor = server.round, !.pane = server.pane,
                               !.pony = server.pony, !.controls = b]
            BY <4>2, Zenon DEF ApplyFloor
          <5> QED  BY <3>3, <5>1 DEF Pages
        <4> QED  BY <2>2, <4>1, <4>2 DEF Apply
      <3> QED  BY <3>1, <3>2, <3>4 DEF AppliesAnswer
    <2>3. CASE Navigate
      BY <1>6, <2>3 DEF Navigate
    <2>4. CASE Render
      <3>1. PICK r, b : page' = [page EXCEPT !.round = r, !.floor = server.round,
                                    !.pane = server.pane, !.pony = server.pony,
                                    !.controls = b]
        BY <2>4, Zenon DEF Render
      <3>2. page'.doc = page.doc
        BY <1>1, <3>1 DEF Pages
      <3> QED  BY <2>4, <3>2 DEF Render, Draws, Drawn
    <2>5. CASE BecomeReady
      <3>1. SameLooks(page, page') /\ page'.monitor = page.monitor
        BY <1>1, <2>5 DEF BecomeReady, SameLooks, Pages
      <3> QED  BY <2>5, <3>1 DEF BecomeReady, LooksStay
    <2>6. CASE ForeignLog
      <3>1. foreign' = foreign + 1 /\ page' = MutateLog(page)
        BY <2>6 DEF ForeignLog
      <3> QED  BY <1>1, <3>1, SameDocument DEF Intrudes
    <2> QED  BY <1>11, <2>1, <2>2, <2>3, <2>4, <2>5, <2>6 DEF EnvStep
  <1> QED
    BY <1>7, <1>8, <1>9, <1>10, <1>11 DEF Next, Operation, Environment


(* The ways a step changes the request of t: it goes on, or is sent now.   *)
Carries(t) ==
    /\ request'[t].sent > 0 <=> request[t].sent > 0
    /\ request'[t].doc = request[t].doc
    /\ request[t].applied => request'[t].applied
    /\ request'[t].applied => request[t].applied \/ request[t].reply \in Normal
LandsNow(t) ==
    /\ t = token /\ StrayClick
    /\ request'[t].sent > 0 /\ request'[t].doc = page.doc
    /\ request'[t].applied = request[t].applied

LEMMA DeliveryStep ==
    ASSUME TypeInv, [Next]_vars, NEW u \in Tokens
    PROVE  Carries(u) \/ LandsNow(u)
  <1>1. /\ TypeOK /\ request \in [Tokens -> Requests]
        /\ request[u] \in Requests /\ request[u].sent \in 0 .. 2
    BY DEF TypeInv, TypeOK, EnvTypeOK, Requests
  <1>2. pc # "idle" \/ outcome = "unknown" => token \in Tokens
    BY DEF TypeInv, TypeOK, Started
  <1>3. ASSUME request'[u] = request[u] PROVE Carries(u)
    BY <1>3 DEF Carries
  <1>4. CASE \/ UNCHANGED vars \/ Operation \/ AcceptReload
             \/ \E k \in Kinds : Begin(k)
    <2>1. UNCHANGED request
      BY <1>4
      DEF Operation, Select, Arm, RecordIntent, StartClick, AbortStart, ClickReturns,
          ClickErrs, TurnProbe, FloorProbe, ProbeErrs, StopProbing, TurnFinalProbe,
          Interrupted, Cleanup, AcceptReload, Begin, vars, envVars
    <2> QED  BY <1>3, <2>1
  <1>5. CASE DeliverClick
    <2>1. CASE UNCHANGED request
      BY <1>3, <2>1
    <2>2. CASE Dispatch(token) \/ DispatchByNavigation(token)
      <3>1. StrayClick
        BY <1>5 DEF DeliverClick
      <3>2. CASE u # token
        <4>1. request'[u] = request[u]
          BY <1>1, <2>2, <3>2 DEF Dispatch, DispatchByNavigation
        <4> QED  BY <1>3, <4>1
      <3>3. CASE u = token
        <4>1. /\ request'[u].sent = 1 /\ request'[u].doc = page.doc
              /\ request'[u].applied = request[u].applied
          BY <1>1, <2>2, <3>3 DEF Dispatch, DispatchByNavigation, Requests
        <4> QED  BY <3>1, <3>3, <4>1 DEF LandsNow
      <3> QED  BY <3>2, <3>3
    <2> QED  BY <1>5, <2>1, <2>2 DEF DeliverClick, envVars
  <1>6. CASE ResolvePonyChart
    BY <1>3, <1>6 DEF ResolvePonyChart
  <1>7. CASE EnvStep
    <2>1. CASE UNCHANGED request
      BY <1>3, <2>1
    <2>2. ASSUME NEW t \in Tokens, t # u,
                 Redispatch(t) \/ Execute(t) \/ Reply(t) \/ Apply(t)
          PROVE  request'[u] = request[u]
      BY <1>1, <2>2 DEF Redispatch, Execute, ExecuteTurn, ExecuteFloor, Reply, Apply,
                        ApplyTurn, ApplyFloor
    <2>3. CASE Redispatch(u)
      <3>1. /\ request'[u].sent = 2 /\ request[u].sent = 1
            /\ request'[u].doc = request[u].doc
            /\ request'[u].applied = request[u].applied
        BY <1>1, <2>3 DEF Redispatch, Requests
      <3> QED  BY <3>1 DEF Carries
    <2>4. CASE Execute(u)
      <3>1. PICK b : \/ request' = [request EXCEPT ![u].executed = @ + 1]
                     \/ request' = [request EXCEPT ![u].executed = @ + 1, ![u].pane = b]
        BY <2>4, Zenon DEF Execute, ExecuteTurn, ExecuteFloor
      <3>2. /\ request'[u].sent = request[u].sent
            /\ request'[u].doc = request[u].doc
            /\ request'[u].applied = request[u].applied
        BY <1>1, <3>1 DEF Requests
      <3> QED  BY <3>2 DEF Carries
    <2>5. CASE Reply(u)
      <3>1. PICK r : request' = [request EXCEPT ![u].reply = r]
        BY <2>5 DEF Reply
      <3>2. /\ request'[u].sent = request[u].sent
            /\ request'[u].doc = request[u].doc
            /\ request'[u].applied = request[u].applied
        BY <1>1, <3>1 DEF Requests
      <3> QED  BY <3>2 DEF Carries
    <2>6. CASE Apply(u)
      <3>1. /\ request[u].reply \in Normal
            /\ request' = [request EXCEPT ![u].applied = TRUE]
        BY <2>6 DEF Apply, ApplyTurn, ApplyFloor
      <3>2. /\ request'[u].sent = request[u].sent
            /\ request'[u].doc = request[u].doc /\ request'[u].applied
        BY <1>1, <3>1 DEF Requests
      <3> QED  BY <3>1, <3>2 DEF Carries
    <2>7. \/ UNCHANGED request
          \/ \E t \in Tokens : Redispatch(t) \/ Execute(t) \/ Reply(t) \/ Apply(t)
      BY <1>7 DEF EnvStep, LoadEnd, Navigate, Render, BecomeReady, ForeignLog
    <2> QED  BY <1>3, <2>1, <2>2, <2>3, <2>4, <2>5, <2>6, <2>7
  <1> QED  BY <1>4, <1>5, <1>6, <1>7 DEF Next, Environment

(* The operation has read the page it compares with.                       *)
PastArm == InUse /\ pc \notin {"select", "arm"}
BeforeStarted == pc \in {"select", "arm", "intend", "start"}

(* Where a step takes the operation: it begins, finds its control, arms    *)
(* its monitor, goes on, ends in an outcome, or rests.                     *)
Finds == /\ pc = "select" /\ pc' = "arm" /\ target' = page.doc
         /\ Offered(kind[token]) /\ UNCHANGED <<envVars, before>>
Arms == /\ pc = "arm" /\ pc' = "intend" /\ UNCHANGED target
        /\ page' = Armed(page, token) /\ before' = View(page', token)
Proceeds == PastArm /\ PastArm' /\ UNCHANGED <<target, before>>
Ended ==
    /\ InUse /\ ~InUse' /\ UNCHANGED <<target, before, clickLive>>
    /\ \/ outcome' = "notSubmitted" /\ BeforeStarted
       \/ outcome' = "interrupted"
       \/ outcome' = "auditFailed" /\ bus' = "failed"
       \/ outcome' = "unknown" /\ PastArm
       \/ outcome' = "confirmed" /\ Clicking /\ Earned /\ UNCHANGED envVars
Rests == /\ pc' = pc \/ (pc = "cleanup" /\ pc' = "idle")
         /\ outcome' \in {outcome, "interrupted"}
         /\ UNCHANGED <<target, before>>
Reconciles ==
    /\ pc = "idle" /\ pc' = "idle" /\ outcome = "unknown"
    /\ \/ outcome' = "recovered" /\ page.doc # before.doc
       \/ outcome' = "auditFailed" /\ bus' = "failed"
    /\ UNCHANGED <<target, before>>

LEMMA PlaceStep ==
    ASSUME TypeInv, [Next]_vars
    PROVE  \/ \E k \in Kinds : Begin(k)
           \/ /\ UNCHANGED token
              /\ Finds \/ Arms \/ Proceeds \/ Ended \/ Rests \/ Reconciles
  <1>1. CASE UNCHANGED vars \/ Environment
    BY <1>1 DEF vars, Environment, opVars, Rests
  <1>2. CASE Select
    <2>1. UNCHANGED <<envVars, token, before, clickLive>> /\ pc = "select"
      BY <1>2 DEF Select
    <2>2. \/ Finds
          \/ /\ pc' = "idle" /\ outcome' \in {"notSubmitted", "interrupted"}
             /\ UNCHANGED target
      BY <1>2, <2>1 DEF Select, GiveUp, Finds
    <2> QED  BY <2>1, <2>2 DEF Ended, InUse, BeforeStarted
  <1>3. CASE Arm
    <2>1. UNCHANGED <<token, target, clickLive>> /\ pc = "arm"
      BY <1>3 DEF Arm
    <2>2. \/ Arms
          \/ /\ pc' = "idle" /\ outcome' \in {"notSubmitted", "interrupted"}
             /\ UNCHANGED before
      BY <1>3, <2>1 DEF Arm, GiveUp, Arms
    <2> QED  BY <2>1, <2>2 DEF Ended, InUse, BeforeStarted
  <1>4. ASSUME NEW events, NEW safe, LeaveUnaudited(events, safe)
        PROVE  outcome' = "auditFailed" /\ bus' = "failed" /\ ~InUse'
    BY <1>4 DEF LeaveUnaudited, PublicationRaises, RecordFails, busVars, Leave, InUse
  <1>5. CASE RecordIntent \/ AbortStart
    <2>1. /\ UNCHANGED <<token, target, before, clickLive>>
          /\ pc \in {"intend", "start"}
          /\ \/ pc' = "start"
             \/ outcome' = "notSubmitted" /\ ~InUse'
             \/ outcome' = "auditFailed" /\ bus' = "failed" /\ ~InUse'
      BY <1>4, <1>5 DEF RecordIntent, AbortStart, GiveUp, Leave, InUse
    <2> QED  BY <2>1 DEF Proceeds, Ended, PastArm, InUse, BeforeStarted
  <1>6. CASE StartClick \/ ClickReturns \/ ClickErrs \/ ProbeErrs
    <2>1. /\ UNCHANGED <<token, target, before>>
          /\ pc \in {"start", "clicking", "probe"} /\ pc' \in {"clicking", "probe"}
      BY <1>6 DEF StartClick, ClickReturns, ClickErrs, ProbeErrs, opVars
    <2> QED  BY <2>1 DEF Proceeds, PastArm, InUse
  <1>7. CASE Interrupted \/ StopProbing
    <2>1. /\ UNCHANGED <<token, target, before, clickLive>> /\ Clicking /\ ~InUse'
          /\ \/ outcome' = "interrupted"
             \/ outcome' = "unknown"
             \/ outcome' = "auditFailed" /\ bus' = "failed"
      BY <1>4, <1>7
      DEF Interrupted, StopProbing, Abandon, ReportUnknown, Leave, InUse, Clicking
    <2>2. InUse /\ PastArm
      BY <2>1 DEF Clicking, InUse, PastArm
    <2> QED  BY <2>1, <2>2 DEF Ended
  <1>8. CASE TurnProbe \/ FloorProbe \/ TurnFinalProbe
    <2>1. /\ UNCHANGED <<envVars, clickLive, token, target, before>>
          /\ pc \in {"probe", "final"}
      BY <1>8 DEF TurnProbe, FloorProbe, TurnFinalProbe
    <2>2. \/ outcome' = "confirmed" /\ Earned /\ ~InUse'
          \/ outcome' = "unknown" /\ ~InUse'
          \/ outcome' = "auditFailed" /\ bus' = "failed" /\ ~InUse'
          \/ pc' \in {"probe", "final"}
      BY <1>4, <1>8
      DEF TurnProbe, FloorProbe, TurnFinalProbe, TooLate, Confirm, ReportUnknown,
          Continue, Leave, InUse, Earned
    <2>3. /\ InUse /\ PastArm /\ Clicking
          /\ pc' \in {"probe", "final"} => PastArm'
      BY <2>1 DEF Clicking, InUse, PastArm
    <2> QED  BY <2>1, <2>2, <2>3 DEF Ended, Proceeds
  <1>9. CASE Cleanup
    BY <1>9 DEF Cleanup, Rests, opVars
  <1>10. CASE AcceptReload
    BY <1>10 DEF AcceptReload, Reconciles, opVars, PublicationRaises, RecordFails, busVars
  <1> QED
    BY <1>1, <1>2, <1>3, <1>5, <1>6, <1>7, <1>8, <1>9, <1>10 DEF Next, Operation


(* No document is younger than the one in the tab; the one compared with   *)
(* is no older than the control's.                                         *)
DocsInOrder ==
    /\ target <= page.doc /\ before.doc <= page.doc
    /\ PastArm \/ (~InUse /\ outcome = "unknown") => target <= before.doc

(* A request leaves from the control's document, and only a request that   *)
(* was sent has an answer to apply.                                        *)
SentFrom ==
    /\ \A t \in Tokens : /\ request[t].sent > 0 => request[t].doc <= page.doc
                         /\ request[t].applied => request[t].sent > 0
    /\ token \in Tokens /\ request[token].sent > 0 => request[token].doc = target

(* Nothing that t sent can change the document in the tab any more.        *)
Over(t) ==
    request[t].sent = 0 \/ request[t].doc < page.doc \/ request[t].applied

(* No third party has written into the log, and the audit log is sound.    *)
Undisturbed == foreign = 0 /\ bus = "healthy"

EarlierOver ==
    Undisturbed =>
        \A t \in Tokens : t < token \/ (t = token /\ ~InUse /\ MayBegin) => Over(t)

(* Until its own answer is applied, the document of the control looks as   *)
(* it did when the monitor was armed.                                      *)
LooksAsArmed ==
    /\ Drawn(page) /\ SameLooks(before, page)
    /\ ~(page.monitor.id = token /\ page.monitor.mutated)
StillAsArmed ==
    Undisturbed /\ page.doc = target =>
        /\ pc = "arm" => Drawn(page)
        /\ PastArm /\ ~request[token].applied => LooksAsArmed

Landed ==
    foreign = 0 /\ ~InUse
        /\ outcome \in {"none", "confirmed", "recovered", "notSubmitted"} => ~StrayClick

StrayInv == DocsInOrder /\ SentFrom /\ EarlierOver /\ StillAsArmed /\ Landed

(* What the following lemmas assume.                                       *)
Known == TypeInv /\ OpInv /\ PhaseInv /\ EvidenceInv /\ StrayInv

(* The numbers that are compared.                                          *)
LEMMA StrayTypes ==
    ASSUME TypeInv
    PROVE  /\ page \in Pages /\ before \in Pages
           /\ page.doc \in Nat /\ before.doc \in Nat /\ target \in Nat
           /\ token \in Nat /\ foreign \in Nat
           /\ pc # "idle" => token \in Tokens
           /\ \A t \in Tokens : /\ t \in Nat /\ request[t].sent \in Nat
                                /\ request[t].executed \in Nat
                                /\ request[t].doc \in Nat
  <1>1. /\ page \in Pages /\ before \in Pages /\ target \in 1 .. MaxDocs
        /\ foreign \in 0 .. MaxForeign
        /\ \A t \in Tokens : request[t] \in Requests
    BY DEF TypeInv, TypeOK, EnvTypeOK
  <1>2. page.doc \in Nat /\ before.doc \in Nat
    BY <1>1, BoundsAssumption DEF Pages
  <1>3. target \in Nat /\ foreign \in Nat
    BY <1>1, BoundsAssumption
  <1>4. token \in Nat /\ \A t \in Tokens : t \in Nat
    BY BoundsAssumption DEF TypeInv, TypeOK, Tokens, NoToken
  <1>5. pc # "idle" => token \in Tokens
    BY DEF TypeInv, TypeOK, Started
  <1>6. ASSUME NEW t \in Tokens
        PROVE  /\ request[t].sent \in Nat /\ request[t].executed \in Nat
               /\ request[t].doc \in Nat
    <2>1. request[t] \in Requests
      BY <1>1
    <2> QED  BY <2>1, BoundsAssumption DEF Requests
  <1> QED  BY <1>1, <1>2, <1>3, <1>4, <1>5, <1>6

LEMMA LatchHolds ==
    ASSUME [Next]_vars, bus' = "healthy"
    PROVE  bus = "healthy"
  <1>1. ASSUME NEW t, NEW events, Record(t, events) \/ PublicationRaises(t, events)
        PROVE  bus = "healthy"
    BY <1>1 DEF Record, PublicationRaises, RecordFails, busVars
  <1>2. CASE UNCHANGED bus
    BY <1>2
  <1>3. CASE ~UNCHANGED bus
    BY <1>1, <1>3
    DEF Next, Operation, Environment, vars, Begin, Select, Arm, RecordIntent,
        StartClick, AbortStart, ClickReturns, ClickErrs, TurnProbe, FloorProbe,
        ProbeErrs, StopProbing, TurnFinalProbe, Interrupted, Cleanup, AcceptReload,
        Confirm, TooLate, ReportUnknown, Continue, Abandon, LeaveUnaudited, GiveUp,
        busVars
  <1> QED  BY <1>2, <1>3

(* A page that looks as it was armed shows no evidence.                    *)
LEMMA NotEarned ==
    ASSUME TypeInv, token \in Tokens, LooksAsArmed
    PROVE  ~Earned
  <1> DEFINE v == View(page, token)
  <1>1. /\ SameLooks(page, v) /\ v.monitor = Matching(page, token)
        /\ page \in Pages
    BY StrayTypes, SameDocument
  <1>2. SameLooks(before, v)
    BY <1>1 DEF LooksAsArmed, SameLooks
  <1>3. ~v.monitor.mutated
    BY <1>1 DEF LooksAsArmed, Matching, NoMonitor, MonitorFor
  <1>4. before.round \in Nat
    BY StrayTypes DEF Pages
  <1> HIDE DEF v
  <1>5. ~TurnEvidence(before, v)
    BY <1>2, <1>3 DEF TurnEvidence, SameLooks
  <1>6. ~FloorEvidence(before, v)
    BY <1>2, <1>4 DEF FloorEvidence, SameLooks
  <1> QED  BY <1>5, <1>6 DEF Earned, v

(* An answer that can still be applied is the current token's own.         *)
LEMMA OwnAnswer ==
    ASSUME Known, Undisturbed, NEW t \in Tokens, request[t].reply \in Normal,
           ~request[t].applied, request[t].doc = page.doc
    PROVE  t = token /\ ~BeforeStarted
  <1>1. request[t].sent > 0 /\ request[t].reply # "none"
    BY StrayTypes DEF Known, EvidenceInv, RequestInv, RequestsPlayed, Normal
  <1>2. ~(t > token)
    BY <1>1 DEF Known, EvidenceInv, RequestInv, NotYetSent, Unsent
  <1>3. ~Over(t)
    BY <1>1, StrayTypes DEF Over, Known
  <1>4. ~(t < token)
    BY <1>3 DEF Known, StrayInv, EarlierOver
  <1>5. t = token
    BY <1>2, <1>4, StrayTypes DEF Known
  <1> QED
    BY <1>1, <1>5 DEF Known, EvidenceInv, RequestInv, NotYetSent, Unsent, BeforeStarted


LEMMA DocsStep ==
    ASSUME Known, [Next]_vars
    PROVE  DocsInOrder' /\ page'.doc \in Nat /\ page'.doc >= page.doc
  <1>1. /\ TypeInv /\ DocsInOrder
        /\ page.doc \in Nat /\ before.doc \in Nat /\ target \in Nat
        /\ page \in Pages /\ (pc # "idle" => token \in Tokens)
    BY StrayTypes DEF Known, StrayInv
  <1>2. page'.doc \in {page.doc, page.doc + 1}
    BY <1>1, DrawStep
    DEF LooksStay, SameLooks, Reloads, AppliesAnswer, Draws, Intrudes
  <1>3. page'.doc \in Nat /\ page'.doc >= page.doc
    BY <1>1, <1>2
  <1>4. ASSUME NEW k \in Kinds, Begin(k) PROVE DocsInOrder'
    <2>1. UNCHANGED <<target, before, page>> /\ pc' = "select"
      BY <1>4 DEF Begin, envVars
    <2> QED  BY <1>1, <2>1 DEF DocsInOrder, PastArm, InUse
  <1>5. CASE Finds
    BY <1>1, <1>3, <1>5 DEF Finds, DocsInOrder, PastArm, InUse, envVars
  <1>6. CASE Arms
    <2>1. token \in Tokens /\ before'.doc = page'.doc
      <3>1. token \in Tokens
        BY <1>1, <1>6 DEF Arms
      <3>2. page' \in Pages
        BY <1>1, <1>6, <3>1, PageOps DEF Arms
      <3>3. before' = View(page', token)
        BY <1>6 DEF Arms
      <3>4. PICK t \in Tokens : t = token
        BY <3>1
      <3>5. PICK p \in Pages : p = page'
        BY <3>2
      <3>6. SameLooks(p, View(p, t))
        BY SameDocument
      <3> QED  BY <3>1, <3>3, <3>4, <3>5, <3>6 DEF SameLooks
    <2> QED  BY <1>1, <1>3, <1>6, <2>1 DEF Arms, DocsInOrder
  <1>7. CASE Proceeds \/ Ended \/ Rests \/ Reconciles
    <2>1. UNCHANGED <<target, before>>
      BY <1>7 DEF Proceeds, Ended, Rests, Reconciles
    <2>2. PastArm' \/ (~InUse' /\ outcome' = "unknown")
             => PastArm \/ (~InUse /\ outcome = "unknown")
      BY <1>7 DEF Proceeds, Ended, Rests, Reconciles, PastArm, InUse
    <2> QED  BY <1>1, <1>3, <2>1, <2>2 DEF DocsInOrder
  <1> QED  BY <1>1, <1>3, <1>4, <1>5, <1>6, <1>7, PlaceStep

LEMMA SentStep ==
    ASSUME Known, [Next]_vars
    PROVE  SentFrom'
  <1>1. TypeInv /\ SentFrom /\ DocsInOrder /\ NotYetSent /\ RequestsPlayed
    BY DEF Known, StrayInv, EvidenceInv, RequestInv
  <1>2. page'.doc >= page.doc /\ page.doc \in Nat /\ page'.doc \in Nat
    BY <1>1, DocsStep, StrayTypes
  <1>3. ASSUME NEW t \in Tokens
        PROVE  /\ request'[t].sent > 0 => request'[t].doc <= page'.doc
               /\ request'[t].applied => request'[t].sent > 0
    <2>1. request[t].doc \in Nat /\ request[t].sent \in Nat /\ request[t].executed \in Nat
      BY <1>1, StrayTypes
    <2>2. request[t].reply \in Normal => request[t].sent > 0
      BY <1>1, <2>1 DEF RequestsPlayed
    <2>3. CASE Carries(t)
      BY <1>1, <1>2, <2>1, <2>2, <2>3 DEF SentFrom, Carries
    <2>4. CASE LandsNow(t)
      BY <1>1, <1>2, <2>1, <2>4 DEF SentFrom, LandsNow
    <2> QED  BY <1>1, <2>3, <2>4, DeliveryStep
  <1>4. ASSUME token' \in Tokens, NEW t \in Tokens, t = token', request'[t].sent > 0
        PROVE  request'[t].doc = target'
    <2>1. ASSUME NEW k \in Kinds, Begin(k) PROVE FALSE
      <3>1. t = token + 1 /\ UNCHANGED request /\ token \in Nat
        BY <1>1, <1>4, <2>1, StrayTypes DEF Begin, envVars
      <3>2. Unsent(t)
        BY <1>1, <3>1 DEF NotYetSent
      <3> QED  BY <1>4, <3>1, <3>2 DEF Unsent
    <2>2. ASSUME UNCHANGED token, Finds PROVE FALSE
      <3>1. Unsent(t) /\ UNCHANGED request
        BY <1>1, <1>4, <2>2 DEF Finds, NotYetSent, envVars
      <3> QED  BY <1>4, <3>1 DEF Unsent
    <2>3. CASE UNCHANGED <<token, target>>
      <3>1. CASE Carries(t)
        BY <1>1, <1>4, <2>3, <3>1 DEF SentFrom, Carries
      <3>2. CASE LandsNow(t)
        BY <2>3, <3>2 DEF LandsNow, StrayClick
      <3> QED  BY <1>1, <3>1, <3>2, DeliveryStep
    <2>4. \/ \E k \in Kinds : Begin(k)
          \/ UNCHANGED token /\ Finds
          \/ UNCHANGED <<token, target>>
      BY <1>1, PlaceStep DEF Arms, Proceeds, Ended, Rests, Reconciles
    <2> QED  BY <2>1, <2>2, <2>3, <2>4
  <1> QED  BY <1>3, <1>4 DEF SentFrom

LEMMA ArmedStep ==
    ASSUME Known, [Next]_vars
    PROVE  StillAsArmed'
  <1> SUFFICES ASSUME Undisturbed', page'.doc = target'
               PROVE  /\ pc' = "arm" => Drawn(page)'
                      /\ PastArm' /\ ~request'[token'].applied => LooksAsArmed'
    BY DEF StillAsArmed
  <1>1. /\ TypeInv /\ DocsInOrder /\ StillAsArmed /\ page \in Pages
        /\ page.doc \in Nat /\ target \in Nat /\ page'.doc \in Nat
        /\ page'.doc >= page.doc /\ (pc # "idle" => token \in Tokens)
    BY StrayTypes, DocsStep DEF Known, StrayInv
  <1>2. Undisturbed
    BY <1>1, DrawStep, LatchHolds DEF Undisturbed
  <1>3. foreign' = 0
    BY DEF Undisturbed
  <1>4. ASSUME NEW t \in Tokens, t = token, UNCHANGED target, Drawn(page),
               BeforeStarted \/ ~request'[t].applied
        PROVE  LooksStay /\ Drawn(page)'
    <2>1. page.doc = target /\ page'.doc = page.doc
      BY <1>1, <1>4 DEF DocsInOrder
    <2>2. ~Reloads /\ ~Draws /\ ~Intrudes
      BY <1>1, <1>3, <1>4, <2>1 DEF Reloads, Draws, Intrudes
    <2>3. ~AppliesAnswer
      BY <1>2, <1>4, OwnAnswer DEF AppliesAnswer
    <2>4. LooksStay
      BY <1>1, <2>2, <2>3, DrawStep
    <2> QED  BY <1>4, <2>4 DEF LooksStay, SameLooks, Drawn
  <1>5. ASSUME NEW k \in Kinds, Begin(k) PROVE pc' # "arm" /\ ~PastArm'
    BY <1>5 DEF Begin, PastArm, InUse
  <1>6. ASSUME UNCHANGED token, Finds PROVE ~PastArm' /\ Drawn(page)'
    BY <1>6 DEF Finds, PastArm, InUse, Offered, Drawn, envVars
  <1>7. ASSUME UNCHANGED token, Arms PROVE pc' # "arm" /\ LooksAsArmed'
    <2>1. PICK t \in Tokens : t = token /\ t = token'
      BY <1>1, <1>7 DEF Arms
    <2>2. PICK p \in Pages : p = page'
      BY <1>1, <1>7, <2>1, PageOps DEF Arms
    <2>3. /\ SameLooks(page, p) /\ p.monitor = MonitorFor(t)
          /\ SameLooks(p, View(p, t)) /\ before' = View(p, t)
      BY <1>1, <1>7, <2>1, <2>2, SameDocument DEF Arms
    <2>4. page.doc = target
      BY <1>1, <1>7, <2>2, <2>3 DEF Arms, SameLooks
    <2>5. Drawn(page)
      BY <1>1, <1>2, <1>7, <2>4 DEF StillAsArmed, Arms
    <2>6. Drawn(p) /\ ~p.monitor.mutated
      BY <2>3, <2>5 DEF SameLooks, Drawn, MonitorFor
    <2> QED  BY <1>7, <2>2, <2>3, <2>6 DEF Arms, LooksAsArmed, SameLooks
  <1>8. ASSUME UNCHANGED token, Proceeds \/ Rests
        PROVE  /\ pc' = "arm" => Drawn(page)'
               /\ PastArm' /\ ~request'[token'].applied => LooksAsArmed'
    <2>1. /\ UNCHANGED <<target, before>> /\ (pc' = "arm" => pc = "arm")
          /\ PastArm' => PastArm
      BY <1>8 DEF Proceeds, Rests, PastArm, InUse
    <2>2. page.doc = target
      BY <1>1, <2>1 DEF DocsInOrder
    <2>3. ASSUME pc' = "arm" PROVE Drawn(page)'
      <3>1. Drawn(page) /\ BeforeStarted /\ token \in Tokens
        BY <1>1, <1>2, <2>1, <2>2, <2>3 DEF StillAsArmed, BeforeStarted
      <3> QED  BY <1>4, <2>1, <3>1
    <2>4. ASSUME PastArm', ~request'[token'].applied PROVE LooksAsArmed'
      <3>1. PICK t \in Tokens : t = token /\ t = token'
        BY <1>1, <1>8, <2>1, <2>4 DEF PastArm, InUse
      <3>2. ~request'[t].applied
        BY <2>4, <3>1
      <3>3. ~request[t].applied
        BY <1>1, <3>2, DeliveryStep DEF Carries, LandsNow
      <3>4. LooksAsArmed
        BY <1>1, <1>2, <2>1, <2>2, <2>4, <3>1, <3>3 DEF StillAsArmed
      <3>5. LooksStay /\ Drawn(page)'
        BY <1>4, <2>1, <3>1, <3>2, <3>4 DEF LooksAsArmed
      <3> QED
        BY <2>1, <3>1, <3>4, <3>5 DEF LooksAsArmed, LooksStay, SameLooks
    <2> QED  BY <2>3, <2>4
  <1>9. ASSUME Ended \/ Reconciles PROVE pc' # "arm" /\ ~PastArm'
    BY <1>9 DEF Ended, Reconciles, PastArm, InUse
  <1> QED  BY <1>1, <1>5, <1>6, <1>7, <1>8, <1>9, PlaceStep


(* An action is only confirmed when its click has landed and, in an        *)
(* undisturbed page, its own answer is what changed the page.              *)
LEMMA ConfirmedOver ==
    ASSUME Known, foreign = 0, Clicking, Earned
    PROVE  ~StrayClick /\ Over(token)
  <1>1. token \in Tokens /\ InUse /\ PastArm
    BY StrayTypes DEF Known, Clicking, InUse, PastArm
  <1>2. Undisturbed
    BY DEF Known, OpInv, LiveIsOpen, Live, Clicking, Undisturbed
  <1>3. PICK t \in Tokens : t = token
    BY <1>1
  <1>4. /\ page.doc \in Nat /\ target \in Nat /\ target <= page.doc
        /\ request[t].sent \in Nat /\ request[t].doc \in Nat
    BY StrayTypes DEF Known, StrayInv, DocsInOrder
  <1>5. CASE page.doc = target
    <2>1. request[t].applied
      BY <1>1, <1>2, <1>3, <1>5, NotEarned DEF Known, StrayInv, StillAsArmed
    <2>2. request[t].sent > 0
      BY <2>1 DEF Known, StrayInv, SentFrom
    <2>3. ~clickLive
      BY <1>3, <2>2 DEF Known, EvidenceInv, RequestInv, NotYetSent, Unsent
    <2> QED  BY <1>3, <2>1, <2>3 DEF Over, StrayClick
  <1>6. CASE page.doc # target
    <2>1. request[t].sent > 0 => request[t].doc = target
      BY <1>3 DEF Known, StrayInv, SentFrom
    <2>2. request[t].sent = 0 \/ request[t].doc < page.doc
      BY <1>4, <1>6, <2>1
    <2> QED  BY <1>3, <1>6, <2>2 DEF Over, StrayClick
  <1> QED  BY <1>5, <1>6

(* A click cannot land on a document that recovery has accepted.           *)
LEMMA RecoveredOver ==
    ASSUME Known, Reconciles, outcome' = "recovered"
    PROVE  target < page.doc /\ ~StrayClick
  <1>1. /\ page.doc \in Nat /\ before.doc \in Nat /\ target \in Nat
        /\ before.doc <= page.doc
    BY StrayTypes DEF Known, StrayInv, DocsInOrder
  <1>2. target <= before.doc
    BY DEF Known, StrayInv, DocsInOrder, Reconciles, InUse
  <1>3. page.doc # before.doc
    BY DEF Reconciles
  <1>4. target < page.doc
    BY <1>1, <1>2, <1>3
  <1> QED  BY <1>1, <1>4 DEF StrayClick

LEMMA LandedStep ==
    ASSUME Known, [Next]_vars
    PROVE  Landed'
  <1> SUFFICES ASSUME foreign' = 0, ~InUse',
                      outcome' \in {"none", "confirmed", "recovered", "notSubmitted"},
                      clickLive', page'.doc = target'
               PROVE  FALSE
    BY DEF Landed, StrayClick
  <1>1. /\ TypeInv /\ foreign = 0 /\ page.doc \in Nat /\ target \in Nat
        /\ page'.doc \in Nat /\ page'.doc >= page.doc /\ target <= page.doc
    BY StrayTypes, DocsStep, DrawStep DEF Known, StrayInv, DocsInOrder
  <1>2. ASSUME NEW k \in Kinds, Begin(k) PROVE FALSE
    BY <1>2 DEF Begin, InUse
  <1>3. CASE Finds \/ Arms \/ Proceeds
    BY <1>3 DEF Finds, Arms, Proceeds, PastArm, InUse
  <1>4. CASE Ended
    <2>1. UNCHANGED <<target, clickLive>>
      BY <1>4 DEF Ended
    <2>2. CASE BeforeStarted
      BY <2>1, <2>2 DEF Known, EvidenceInv, RequestInv, NotYetSent, BeforeStarted
    <2>3. CASE Clicking /\ Earned /\ UNCHANGED envVars
      BY <1>1, <2>1, <2>3, ConfirmedOver DEF StrayClick, envVars
    <2> QED  BY <1>4, <2>2, <2>3 DEF Ended
  <1>5. CASE Rests
    <2>1. ~InUse /\ outcome' = outcome /\ UNCHANGED target
      BY <1>5 DEF Rests, InUse
    <2>2. clickLive
      BY <1>1, <1>2, <2>1, ClickStep DEF InUse
    <2>3. page.doc = target
      BY <1>1, <2>1
    <2> QED  BY <1>1, <2>1, <2>2, <2>3 DEF Known, StrayInv, Landed, StrayClick
  <1>6. CASE Reconciles
    <2>1. outcome' = "recovered" /\ UNCHANGED target
      BY <1>6 DEF Reconciles
    <2>2. target < page.doc
      BY <1>6, <2>1, RecoveredOver
    <2> QED  BY <1>1, <2>1, <2>2
  <1> QED  BY <1>1, <1>2, <1>3, <1>4, <1>5, <1>6, PlaceStep

LEMMA OverStep ==
    ASSUME Known, [Next]_vars
    PROVE  EarlierOver'
  <1> SUFFICES ASSUME Undisturbed', NEW t \in Tokens,
                      t < token' \/ (t = token' /\ ~InUse' /\ MayBegin')
               PROVE  Over(t)'
    BY DEF EarlierOver
  <1>1. /\ TypeInv /\ page.doc \in Nat /\ target \in Nat /\ token \in Nat
        /\ page'.doc \in Nat /\ page'.doc >= page.doc
        /\ t \in Nat /\ request[t].sent \in Nat /\ request[t].doc \in Nat
    BY StrayTypes, DocsStep DEF Known
  <1>2. Undisturbed /\ foreign = 0 /\ bus = "healthy" /\ bus' = "healthy"
    BY <1>1, DrawStep, LatchHolds DEF Undisturbed
  <1>3. ASSUME Over(t), Carries(t) PROVE Over(t)'
    <2>1. CASE request[t].sent = 0
      <3>1. request'[t].sent = 0
        <4>1. request'[t] \in Requests
          BY <1>1, TypeStep DEF TypeInv, TypeOK, EnvTypeOK
        <4>2. request'[t].sent \in Nat
          BY <4>1 DEF Requests
        <4> QED  BY <1>1, <1>3, <2>1, <4>2 DEF Carries
      <3> QED  BY <3>1 DEF Over
    <2>2. CASE request[t].doc < page.doc
      <3>1. request'[t].doc = request[t].doc
        BY <1>3 DEF Carries
      <3> QED  BY <1>1, <2>2, <3>1 DEF Over
    <2>3. CASE request[t].applied
      BY <1>3, <2>3 DEF Carries, Over
    <2> QED  BY <1>3, <2>1, <2>2, <2>3 DEF Over
  <1>4. ASSUME Over(t), t # token \/ ~StrayClick PROVE Over(t)'
    <2>1. Carries(t)
      BY <1>1, <1>4, DeliveryStep DEF LandsNow
    <2> QED  BY <1>3, <1>4, <2>1
  <1>5. CASE t < token
    <2>1. Over(t) /\ t # token
      BY <1>1, <1>2, <1>5 DEF Known, StrayInv, EarlierOver
    <2> QED  BY <1>4, <2>1
  <1>6. ASSUME NEW k \in Kinds, Begin(k), ~(t < token) PROVE Over(t)'
    <2>1. t = token /\ pc = "idle" /\ MayBegin /\ ~StrayClick
      BY <1>1, <1>6 DEF Begin, InUse
    <2>2. Over(t)
      BY <1>2, <2>1 DEF Known, StrayInv, EarlierOver, InUse
    <2> QED  BY <1>4, <2>1, <2>2
  <1>7. ASSUME UNCHANGED token, ~(t < token), Ended PROVE Over(t)'
    <2>1. t = token /\ MayBegin'
      BY <1>1, <1>7
    <2>2. CASE BeforeStarted
      <3>1. Unsent(t) /\ ~clickLive
        BY <2>1, <2>2 DEF Known, EvidenceInv, RequestInv, NotYetSent, BeforeStarted
      <3> QED  BY <1>4, <3>1 DEF Over, Unsent, StrayClick
    <2>3. CASE Clicking /\ Earned
      BY <1>2, <1>4, <2>1, <2>3, ConfirmedOver
    <2> QED  BY <1>2, <1>7, <2>1, <2>2, <2>3 DEF Ended, MayBegin
  <1>8. ASSUME UNCHANGED token, ~(t < token), Rests PROVE Over(t)'
    <2>1. t = token /\ ~InUse /\ MayBegin /\ outcome # "interrupted"
      BY <1>1, <1>8 DEF Rests, InUse, MayBegin
    <2>2. Over(t)
      BY <1>2, <2>1 DEF Known, StrayInv, EarlierOver
    <2>3. outcome # "auditFailed"
      BY <1>2 DEF Known, PhaseInv, FailureLatched
    <2>4. ~StrayClick
      BY <1>2, <2>1, <2>3 DEF Known, StrayInv, Landed, MayBegin
    <2> QED  BY <1>4, <2>2, <2>4
  <1>9. ASSUME UNCHANGED token, ~(t < token), Reconciles PROVE Over(t)'
    <2>1. t = token /\ outcome' = "recovered"
      BY <1>1, <1>2, <1>9 DEF Reconciles
    <2>2. target < page.doc /\ ~StrayClick
      BY <1>9, <2>1, RecoveredOver
    <2>3. request[t].sent > 0 => request[t].doc = target
      BY <2>1 DEF Known, StrayInv, SentFrom
    <2>4. Over(t)
      BY <1>1, <2>2, <2>3 DEF Over
    <2> QED  BY <1>4, <2>2, <2>4
  <1>10. ASSUME UNCHANGED token, ~(t < token), Finds \/ Arms \/ Proceeds PROVE FALSE
    BY <1>1, <1>10 DEF Finds, Arms, Proceeds, PastArm, InUse
  <1> QED  BY <1>1, <1>5, <1>6, <1>7, <1>8, <1>9, <1>10, PlaceStep

LEMMA StrayInit == Init => StrayInv
  <1> SUFFICES ASSUME Init PROVE StrayInv
    OBVIOUS
  <1>1. /\ pc = "idle" /\ token = NoToken /\ outcome = "none" /\ ~clickLive
        /\ target = page.doc /\ before = page
        /\ \A t \in Tokens : t > NoToken /\ request[t] = NoRequest
    BY DEF Init, EnvInit, Tokens, NoToken
  <1>2. page.doc \in Nat
    BY InitTypeOK, BoundsAssumption DEF TypeOK, EnvTypeOK, Pages
  <1>3. NoRequest.sent = 0 /\ ~NoRequest.applied
    BY DEF NoRequest
  <1>4. token \notin Tokens /\ \A t \in Tokens : ~(t < token) /\ t # token
    BY <1>1 DEF Tokens, NoToken
  <1>5. DocsInOrder /\ SentFrom
    BY <1>1, <1>2, <1>3, <1>4 DEF DocsInOrder, SentFrom, PastArm, InUse
  <1>6. EarlierOver /\ StillAsArmed /\ Landed
    BY <1>1, <1>4 DEF EarlierOver, StillAsArmed, Landed, StrayClick, PastArm, InUse
  <1> QED  BY <1>5, <1>6 DEF StrayInv

LEMMA StrayStep == Known /\ [Next]_vars => StrayInv'
  <1> SUFFICES ASSUME Known, [Next]_vars PROVE StrayInv'
    OBVIOUS
  <1> QED
    BY DocsStep, SentStep, OverStep, ArmedStep, LandedStep DEF StrayInv

(* When the caller may go on, no click of an earlier action can still land *)
(* on the document in the tab, as long as no third party has written into  *)
(* its log: such a write can complete the evidence of an action whose own  *)
(* click is still on its way.                                              *)
THEOREM NothingStray == Spec => [](foreign = 0 => NoStrayClick)
  <1>1. Init => PhaseInv /\ StrayInv
    BY PhaseInit, StrayInit
  <1>2. /\ TypeInv /\ OpInv /\ EvidenceInv /\ PhaseInv /\ StrayInv /\ [Next]_vars
        => PhaseInv' /\ StrayInv'
    BY PhaseStep, StrayStep DEF Known
  <1>3. StrayInv => (foreign = 0 => NoStrayClick)
    BY DEF StrayInv, Landed, NoStrayClick, InUse
  <1> QED
    BY <1>1, <1>2, <1>3, Invariance, EvidenceInvariance, PTL DEF Spec

=============================================================================
