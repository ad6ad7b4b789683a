----------------------------- MODULE BattlePage -----------------------------
(***************************************************************************)
(* The battle document in the browser tab, the action monitor that         *)
(* hvbattle injects into it, and the game server behind it.                *)
(*                                                                         *)
(* The document, the network and the server are external: they are         *)
(* modelled from what the code of hv_battle_action_manager.py reads and    *)
(* defends against.  The monitor is the JavaScript of _ACTION_STATE_JS,    *)
(* which counts the action's own XMLHttpRequests, records the end of the   *)
(* first one, and counts log mutations in between.                         *)
(***************************************************************************)
EXTENDS Integers, FiniteSets

CONSTANTS MaxActions,  \* action tokens a run may use
          MaxDocs,     \* documents the tab may load
          MaxRound,    \* rounds of the battle
          MaxForeign   \* log mutations by third-party scripts

ASSUME BoundsAssumption ==
    /\ MaxActions \in Nat \ {0}
    /\ MaxDocs \in Nat \ {0}
    /\ MaxRound \in Nat \ {0}
    /\ MaxForeign \in Nat

VARIABLES page,     \* the document in the tab, with its monitor
          server,   \* the battle as the server knows it
          request,  \* per token: the requests its click caused
          foreign   \* third-party log mutations so far

envVars == <<page, server, request, foreign>>

Tokens == 1 .. MaxActions
NoToken == 0
Panes == {"none", "next", "finish"}   \* the completion pane and its control

(* How the first request of an action ended: a normal acknowledgement with *)
(* or without a text log, any other HTTP answer, or a failed transfer.     *)
Normal == {"text", "quiet"}
Replies == Normal \cup {"bad", "lost"}

Monitors == [id : {NoToken} \cup Tokens, count : 0 .. 2,
             done : {"no"} \cup Replies, mutated : BOOLEAN,
             pane : BOOLEAN]
MonitorFor(t) == [id |-> t, count |-> 0, done |-> "no", mutated |-> FALSE,
                  pane |-> FALSE]
NoMonitor == MonitorFor(NoToken)

(* The floor is the one on display, which nothing in the page can be read  *)
(* for certain; the round is what its log lets the code read (0: nothing). *)
Pages == [doc : 1 .. MaxDocs, node : Nat, ready : BOOLEAN, controls : BOOLEAN,
          log : Nat, round : Nat, floor : Nat, pane : Panes, pony : BOOLEAN,
          monitor : Monitors]

Servers == [round : Nat, pane : Panes, pony : BOOLEAN]

Requests == [sent : 0 .. 2, executed : 0 .. 2, doc : 0 .. MaxDocs,
             reply : {"none", "pending"} \cup Replies,
             pane : BOOLEAN, applied : BOOLEAN]
NoRequest == [sent |-> 0, executed |-> 0, doc |-> 0, reply |-> "none",
              pane |-> FALSE, applied |-> FALSE]

(* A battle already under way; the round is unknown (0) when its opening   *)
(* log line has scrolled away before the session attached.                 *)
EnvInit ==
    /\ server \in [round : {1}, pane : {"none", "next"}, pony : {FALSE}]
    /\ \E r \in {0, 1} :
          page = [doc |-> 1, node |-> 0, ready |-> TRUE,
                  controls |-> server.pane = "none", log |-> 0, round |-> r,
                  floor |-> 1, pane |-> server.pane, pony |-> FALSE, monitor |-> NoMonitor]
    /\ request = [t \in Tokens |-> NoRequest]
    /\ foreign = 0

-----------------------------------------------------------------------------
(* The injected monitor.                                                   *)

(* The monitor as a probe of token t returns it.                           *)
Matching(p, t) == IF p.monitor.id = t THEN p.monitor ELSE NoMonitor

(* What one state probe of token t returns.                                *)
View(p, t) == [p EXCEPT !.monitor = Matching(p, t)]

(* Faulty variant: arming adopts a monitor an earlier action left behind.  *)
AdoptsMonitor(p, t) ==
    IF p.monitor.id = NoToken THEN [p EXCEPT !.monitor = MonitorFor(t)]
                              ELSE [p EXCEPT !.monitor = [@ EXCEPT !.id = t]]

(* Arming replaces (and restores) whatever monitor the document still had. *)
Armed(p, t) == [p EXCEPT !.monitor = MonitorFor(t)]

Unmonitored(p) == [p EXCEPT !.monitor = NoMonitor]

(* Restoring the hooks after the first loadend ends all counting.          *)
Watching(m) == m.id # NoToken /\ m.done = "no"

(* The wrapped send counts a dispatch; the first one forgets the log       *)
(* mutations that happened before it.                                      *)
Counted(m) == [m EXCEPT !.count = IF @ < 2 THEN @ + 1 ELSE 2,
                        !.mutated = IF m.count = 0 THEN FALSE ELSE @]
CountDispatch(p) ==
    IF Watching(p.monitor) THEN [p EXCEPT !.monitor = Counted(@)] ELSE p

(* The document's log changes under the observer.                          *)
LogChanged(m) == IF Watching(m) THEN [m EXCEPT !.mutated = TRUE] ELSE m
MutateLog(p) == [p EXCEPT !.log = @ + 1, !.monitor = LogChanged(@)]

(* The loadend listener of the first request.                              *)
LoadEnd(t) ==
    /\ page.monitor.id = t /\ page.monitor.count > 0 /\ Watching(page.monitor)
    /\ request[t].reply \in Replies
    /\ page' = [page EXCEPT !.monitor = [@ EXCEPT !.done = request[t].reply,
                                                  !.pane = request[t].pane]]
    /\ UNCHANGED <<server, request, foreign>>

-----------------------------------------------------------------------------
(* The document and the server, external to hvbattle.                      *)

(* A fresh document: nothing rendered, no monitor.                         *)
Blank(p) == [doc |-> p.doc + 1, node |-> 0, ready |-> FALSE, controls |-> FALSE,
             log |-> 0, round |-> 0, floor |-> 0, pane |-> "none",
             pony |-> FALSE, monitor |-> NoMonitor]

(* The click's handler sends one request.                                  *)
Dispatch(t) ==
    /\ page' = CountDispatch(page)
    /\ request' = [request EXCEPT ![t].sent = 1, ![t].doc = page.doc,
                                  ![t].reply = "pending"]
    /\ UNCHANGED <<server, foreign>>

(* A next-floor control may instead navigate, past the monitor.            *)
DispatchByNavigation(t) ==
    /\ page.doc < MaxDocs
    /\ page' = Blank(page)
    /\ request' = [request EXCEPT ![t].sent = 1, ![t].doc = page.doc]
    /\ UNCHANGED <<server, foreign>>

(* The page submits the same action a second time while the first request  *)
(* is still out.                                                           *)
Redispatch(t) ==
    /\ request[t].sent = 1 /\ request[t].reply = "pending"
    /\ request[t].doc = page.doc
    /\ page' = CountDispatch(page)
    /\ request' = [request EXCEPT ![t].sent = 2]
    /\ UNCHANGED <<server, foreign>>

(* The server plays one turn request, which may clear the floor or the     *)
(* battle.                                                                 *)
ExecuteTurn(t) ==
    /\ request[t].executed < request[t].sent
    /\ server.pane = "none" /\ ~server.pony
    /\ \E pane \in {"none", "finish"} \cup
                     (IF server.round < MaxRound THEN {"next"} ELSE {}) :
          /\ server' = [server EXCEPT !.pane = pane]
          /\ request' = [request EXCEPT ![t].executed = @ + 1,
                                        ![t].pane = pane # "none"]
    /\ UNCHANGED <<page, foreign>>

(* The server opens the next floor, possibly behind a PonyChart challenge. *)
ExecuteFloor(t) ==
    /\ request[t].executed < request[t].sent
    /\ server.pane = "next"
    /\ \E pony \in BOOLEAN :
          server' = [round |-> server.round + 1, pane |-> "none", pony |-> pony]
    /\ request' = [request EXCEPT ![t].executed = @ + 1]
    /\ UNCHANGED <<page, foreign>>

(* The first request's answer reaches the tab.  A normal answer follows an *)
(* execution; a lost or abnormal one says nothing about it.                *)
Reply(t) ==
    /\ request[t].reply = "pending" /\ request[t].doc = page.doc
    /\ \E r \in Replies :
          /\ r \in Normal => request[t].executed > 0
          /\ request' = [request EXCEPT ![t].reply = r]
    /\ UNCHANGED <<page, server, foreign>>

(* The document applies a normal answer of a turn: the new log lines and   *)
(* the completion pane the answer carried.                                 *)
ApplyTurn(t) ==
    /\ request[t].reply \in Normal /\ ~request[t].applied
    /\ request[t].doc = page.doc
    /\ LET logged == IF request[t].reply = "text" THEN MutateLog(page) ELSE page
       IN  page' = IF request[t].pane
                   THEN [logged EXCEPT !.floor = server.round,
                                       !.pane = server.pane, !.controls = FALSE]
                   ELSE logged
    /\ request' = [request EXCEPT ![t].applied = TRUE]
    /\ UNCHANGED <<server, foreign>>

(* The document shows the next floor in place, in a new battle node or not.*)
ApplyFloor(t) ==
    /\ request[t].reply \in Normal /\ ~request[t].applied
    /\ request[t].doc = page.doc
    /\ \E n \in {page.node, page.node + 1} :
          page' = [MutateLog(page) EXCEPT
                     !.node = n, !.round = server.round, !.floor = server.round,
                     !.pane = server.pane, !.pony = server.pony,
                     !.controls = server.pane = "none" /\ ~server.pony]
    /\ request' = [request EXCEPT ![t].applied = TRUE]
    /\ UNCHANGED <<server, foreign>>

(* The tab loads a new document, by the page's own doing or a reload.      *)
Navigate ==
    /\ page.doc < MaxDocs
    /\ page' = Blank(page)
    /\ UNCHANGED <<server, request, foreign>>

(* A loading document shows what the server knows; the round is readable   *)
(* only while its opening line is still in the log.                        *)
Render ==
    /\ ~page.ready /\ ~page.controls /\ page.pane = "none" /\ ~page.pony
    /\ \E r \in {0, server.round} :
          page' = [page EXCEPT !.round = r, !.floor = server.round,
                               !.pane = server.pane, !.pony = server.pony,
                               !.controls = server.pane = "none" /\ ~server.pony]
    /\ UNCHANGED <<server, request, foreign>>

BecomeReady ==
    /\ ~page.ready
    /\ page.controls \/ page.pane # "none" \/ page.pony
    /\ page' = [page EXCEPT !.ready = TRUE]
    /\ UNCHANGED <<server, request, foreign>>

(* A third-party script writes into the battle log before the monitored    *)
(* request is sent, the case wrappedSend means to ignore.                  *)
ForeignLog ==
    /\ foreign < MaxForeign
    /\ Watching(page.monitor) /\ page.monitor.count = 0
    /\ foreign' = foreign + 1
    /\ page' = MutateLog(page)
    /\ UNCHANGED <<server, request>>

EnvTypeOK ==
    /\ page \in Pages
    /\ server \in Servers
    /\ request \in [Tokens -> Requests]
    /\ foreign \in 0 .. MaxForeign
=============================================================================
