---------------------------- MODULE ControlPanel ----------------------------
(* The interactive control panel: ControlPanel of control_panel.py in the    *)
(* parent, and the Tk child process it owns (_run_gui).                      *)
(*                                                                           *)
(* Threads of the parent call the child one at a time over a socket; others  *)
(* close the panel.  The user pauses, ticks choices, or closes the window.   *)
(* Every wait is bounded, so a wait may also end in its timeout.             *)
EXTENDS Integers, Sequences, FiniteSets, TLC

CONSTANTS
    Callers,        \* threads that use the panel
    Closers,        \* threads in aclose or destroy, the constructor's own clean-up included
    Choices,        \* keys a checklist may offer
    MaxRequests,    \* bound: requests of callers
    MaxDestroys,    \* bound: requests of closers, after those
    MaxTicks        \* bound: choices the user ticks or clears

Nobody == "nobody"

ASSUME PanelAssumption ==
    /\ Callers # {} /\ Closers # {} /\ Callers \cap Closers = {}
    /\ Nobody \notin Callers \cup Closers
    /\ {MaxRequests, MaxDestroys, MaxTicks} \subseteq Nat

VARIABLES
    life,           \* _state
    made,           \* the constructor returned
    rpc, shutdown,  \* who holds _rpc_lock, and _shutdown_lock
    listener,       \* the listening socket is open
    channel,        \* the parent's socket: "none", "open", or "shut" for both directions
    process,        \* the parent owns a process whose end is not proven
    requestId,
    child,          \* the child process
    up, down,       \* requests underway, responses underway
    paused,         \* pause_flag; a child that is gone counts as paused
    list, observed, \* the checklist, and checklist_observed_revisions
    ticks,          \* ticks of the user so far
    call,           \* caller |-> where its call stands
    close,          \* closer |-> where its shutdown stands
    wish,           \* choice |-> what the user last asked for, while unread
    told            \* choices of wish the child sent in an acknowledgement

parent == <<life, made, rpc, shutdown, listener, channel, process, requestId>>
gui == <<paused, list, observed, wish, told>>
vars == <<parent, child, up, down, gui, ticks, call, close>>

Idle == [at |-> "idle", command |-> "pause", id |-> 0, clear |-> FALSE, result |-> "none"]
Resting == [at |-> "idle", held |-> FALSE, result |-> "none"]

Init ==
    /\ life = "starting" /\ made = FALSE
    /\ rpc = Nobody /\ shutdown = Nobody
    /\ listener = TRUE /\ channel = "none" /\ process = FALSE /\ requestId = 0
    /\ child = "none" /\ up = <<>> /\ down = <<>>
    /\ paused = FALSE
    /\ list = [revision |-> 0, keys |-> {}, selected |-> {}] /\ observed = 0
    /\ ticks = 0
    /\ call = [c \in Callers |-> Idle] /\ close = [d \in Closers |-> Resting]
    /\ wish = [k \in Choices |-> "none"] /\ told = {}
-----------------------------------------------------------------------------
(* The child *)

(* Nothing of a child survives it; what it had sent can still be read. *)
Dies ==
    /\ child' = "dead" /\ up' = <<>> /\ paused' = TRUE

(* A pause flag that is clear is clear in the call of everybody. *)
NoteClear(flag) ==
    call' = [c \in Callers |-> [call[c] EXCEPT !.clear = @ \/ (~flag /\ call[c].at # "idle")]]

(* The window is closed, a callback fails, the channel ends, or it crashes. *)
Gone ==
    /\ child \in {"starting", "up"}
    /\ Dies
    /\ UNCHANGED <<parent, down, list, observed, wish, told, ticks, call, close>>

(* The answer to a "destroy" was sent, and the main loop ends. *)
Ending ==
    /\ child = "ending"
    /\ Dies
    /\ UNCHANGED <<parent, down, list, observed, wish, told, ticks, call, close>>

TogglePause ==
    /\ child = "up"
    /\ paused' = ~paused /\ NoteClear(paused')
    /\ UNCHANGED <<parent, child, up, down, list, observed, wish, told, ticks, close>>

(* _publish_checklist_selection; a box of a frame that was replaced while it *)
(* was clicked may name a key that is offered no more.                       *)
Tick(k, asked) ==
    /\ child = "up" /\ ticks < MaxTicks /\ list.revision > 0
    /\ ticks' = ticks + 1
    /\ IF k \in list.keys /\ asked = (k \notin list.selected)
       THEN /\ list' = [list EXCEPT !.revision = @ + 1,
                                    !.selected = IF asked THEN @ \cup {k} ELSE @ \ {k}]
            /\ wish' = [wish EXCEPT ![k] = IF asked THEN "ticked" ELSE "cleared"]
            /\ told' = told \ {k}
       ELSE UNCHANGED <<list, wish, told>>
    /\ UNCHANGED <<parent, child, up, down, paused, observed, call, close>>

(* Mutant of Replaced: what the application proposes is taken. *)
ReplacedAlways(keys, proposed) == proposed

(* The selection a checklist is replaced with: _merge_checklist_replacement, *)
(* unless the child answered with the current revision before.               *)
Replaced(keys, proposed) ==
    IF list.revision = observed THEN proposed
    ELSE (list.selected \cap keys) \cup (proposed \ list.keys)

Respond(m, value) == down' = Append(down, [id |-> m.id, command |-> m.command, value |-> value])

(* handle_command, for the command at the head of the stream. *)
Handle ==
    /\ child = "up" /\ up # <<>>
    /\ up' = Tail(up)
    /\ LET m == Head(up)
       IN  \/ /\ m.command = "is_paused"
              /\ Respond(m, paused)
              /\ UNCHANGED <<child, gui>>
           \/ /\ m.command = "pause"
              /\ paused' = TRUE
              /\ Respond(m, FALSE)
              /\ UNCHANGED <<child, list, observed, wish, told>>
           \/ /\ m.command = "get_checklist" /\ list.revision = 0   \* KeyError, sent as an answer
              /\ Respond(m, FALSE)
              /\ UNCHANGED <<child, gui>>
           \/ /\ m.command = "get_checklist" /\ list.revision > 0
              /\ observed' = list.revision
              /\ Respond(m, FALSE)
              /\ wish' = [k \in Choices |-> "none"] /\ told' = {}
              /\ UNCHANGED <<child, paused, list>>
           \/ /\ m.command = "set_checklist"
              /\ \E keys \in SUBSET Choices : \E proposed \in SUBSET keys :
                  LET selected == IF list.revision = 0 THEN proposed ELSE Replaced(keys, proposed)
                      kept == {k \in Choices : k \in selected <=> wish[k] = "ticked"}
                  IN  /\ list' = [revision |-> list.revision + 1, keys |-> keys, selected |-> selected]
                      /\ wish' = [k \in Choices |-> IF k \in keys THEN wish[k] ELSE "none"]
                      /\ told' = {k \in keys : wish[k] # "none"} \cap (told \cup kept)
              /\ observed' = list.revision + 1
              /\ Respond(m, FALSE)
              /\ UNCHANGED <<child, paused>>
           \/ /\ m.command = "destroy"
              /\ paused' = TRUE
              /\ Respond(m, FALSE)
              /\ child' = "ending"
              /\ UNCHANGED <<list, observed, wish, told>>
    /\ UNCHANGED <<parent, ticks, call, close>>
-----------------------------------------------------------------------------
(* The constructor *)

Spawn ==
    /\ life = "starting" /\ child = "none"
    /\ child' = "starting" /\ process' = TRUE
    /\ UNCHANGED <<life, made, rpc, shutdown, listener, channel, requestId, up, down, gui, ticks, call, close>>

(* The child connected and its READY carried the token. *)
Accept ==
    /\ life = "starting" /\ child = "starting"
    /\ child' = "up" /\ channel' = "open" /\ listener' = FALSE
    /\ life' = "open" /\ made' = TRUE
    /\ UNCHANGED <<rpc, shutdown, process, requestId, up, down, gui, ticks, call, close>>

(* _mark_closing. *)
Closing == life' = IF life = "closed" THEN life ELSE "closing"

StartFails(d) ==
    /\ life = "starting" /\ close[d] = Resting
    /\ Closing
    /\ close' = [close EXCEPT ![d].at = "wait"]
    /\ UNCHANGED <<made, rpc, shutdown, listener, channel, process, requestId, child, up, down, gui, ticks, call>>
-----------------------------------------------------------------------------
(* _rpc *)

Commands == {"is_paused", "pause", "get_checklist", "set_checklist"}

Call(c, command) ==
    /\ made /\ call[c].at = "idle" /\ requestId < MaxRequests
    /\ call' = [call EXCEPT ![c] = [Idle EXCEPT !.at = "lock", !.command = command, !.clear = ~paused]]
    /\ UNCHANGED <<parent, child, up, down, gui, ticks, close>>

(* Of what a call returned it is kept whether it lets the caller run. *)
Returns(c, result) ==
    call' = [call EXCEPT ![c] = IF result = "running" THEN [Idle EXCEPT !.clear = call[c].clear, !.result = result]
                                ELSE Idle]

(* _require_open_locked, and the frame that is sent. *)
Send(c) ==
    /\ call[c].at = "lock" /\ rpc = Nobody
    /\ \/ /\ life # "open"
          /\ Returns(c, "raised")
          /\ UNCHANGED <<life, rpc, requestId, up>>
       \/ /\ life = "open" /\ child = "dead"
          /\ Closing /\ Returns(c, "raised")
          /\ UNCHANGED <<rpc, requestId, up>>
       \/ /\ life = "open" /\ requestId < MaxRequests
          /\ rpc' = c /\ requestId' = requestId + 1
          /\ up' = IF child = "up" /\ channel = "open"
                   THEN Append(up, [id |-> requestId', command |-> call[c].command]) ELSE up
          /\ call' = [call EXCEPT ![c].at = "answer", ![c].id = requestId']
          /\ UNCHANGED life
    /\ UNCHANGED <<made, shutdown, listener, channel, process, child, down, gui, ticks, close>>

NoLock(c) ==
    /\ call[c].at = "lock" /\ rpc # Nobody
    /\ Closing /\ Returns(c, "raised")
    /\ UNCHANGED <<made, rpc, shutdown, listener, channel, process, requestId, child, up, down, gui, ticks, close>>

(* The next frame is the answer if its number is; an answer that is late, or *)
(* of no use to the caller, closes the panel.  One that reports an error of  *)
(* the command is an answer: it is raised, and the panel stays open.         *)
Receive(c) ==
    /\ call[c].at = "answer" /\ down # <<>> /\ channel = "open"
    /\ down' = Tail(down)
    /\ LET m == Head(down)
       IN  \/ /\ m.id = call[c].id
              /\ Returns(c, IF m.command = "is_paused" /\ ~m.value THEN "running" ELSE "answered")
              /\ UNCHANGED life
           \/ Closing /\ Returns(c, "raised")
    /\ rpc' = Nobody
    /\ UNCHANGED <<made, shutdown, listener, channel, process, requestId, child, up, gui, ticks, close>>

(* Mutant of Unanswered: the next call is let try. *)
UnansweredGoesOn(c) ==
    /\ call[c].at = "answer"
    /\ Returns(c, "raised")
    /\ rpc' = Nobody
    /\ UNCHANGED <<life, made, shutdown, listener, channel, process, requestId, child, up, down, gui, ticks, close>>

(* Mutant of Unanswered: no answer is taken for "not paused". *)
UnansweredRuns(c) ==
    /\ call[c].at = "answer"
    /\ Closing /\ Returns(c, IF call[c].command = "is_paused" THEN "running" ELSE "raised")
    /\ rpc' = Nobody
    /\ UNCHANGED <<made, shutdown, listener, channel, process, requestId, child, up, down, gui, ticks, close>>

(* EOFError, OSError or TimeoutError, and nothing else: the child's frames   *)
(* are within the bounds the parent checks.                                  *)
Unanswered(c) ==
    /\ call[c].at = "answer"
    /\ Closing /\ Returns(c, "raised")
    /\ rpc' = Nobody
    /\ UNCHANGED <<made, shutdown, listener, channel, process, requestId, child, up, down, gui, ticks, close>>
-----------------------------------------------------------------------------
(* aclose, destroy, and _shutdown_owned *)

Close(d) ==
    /\ made /\ close[d].at = "idle" /\ close[d].result # "closed"
    /\ requestId < MaxRequests + MaxDestroys
    /\ IF life = "closed" THEN close' = [close EXCEPT ![d].result = "closed"] /\ UNCHANGED life
       ELSE close' = [close EXCEPT ![d].at = "wait"] /\ life' = "closing"
    /\ UNCHANGED <<made, rpc, shutdown, listener, channel, process, requestId, child, up, down, gui, ticks, call>>

Ends(d, result) ==
    /\ close' = [close EXCEPT ![d] = [Resting EXCEPT !.result = result]]
    /\ shutdown' = IF shutdown = d THEN Nobody ELSE shutdown
    /\ rpc' = IF close[d].held THEN Nobody ELSE rpc

Begin(d) ==
    /\ close[d].at = "wait" /\ shutdown = Nobody
    /\ \/ /\ life = "closed"
          /\ close' = [close EXCEPT ![d] = [Resting EXCEPT !.result = "closed"]]
          /\ UNCHANGED <<life, shutdown, listener>>
       \/ /\ life # "closed"
          /\ shutdown' = d /\ life' = "closing"
          /\ listener' \in {FALSE, listener}
          /\ close' = [close EXCEPT ![d].at = "lock"]
    /\ UNCHANGED <<made, rpc, channel, process, requestId, child, up, down, gui, ticks, call>>

(* The deadline passes before the lock or the state is had. *)
TooLate(d) ==
    /\ close[d].at = "wait"
    /\ close' = [close EXCEPT ![d] = Resting]
    /\ UNCHANGED <<parent, child, up, down, gui, ticks, call>>

(* With the lock in time the child is asked to end; without it the socket is *)
(* shut under the call that holds it, which then fails.                      *)
AskChild(d) ==
    /\ close[d].at = "lock"
    /\ \/ /\ rpc = Nobody
          /\ rpc' = d
          /\ \/ /\ channel # "none" /\ process
                /\ requestId' = requestId + 1
                /\ up' = IF child = "up" /\ channel = "open"
                         THEN Append(up, [id |-> requestId', command |-> "destroy"]) ELSE up
                /\ close' = [close EXCEPT ![d].at = "answer", ![d].held = TRUE]
             \/ /\ channel = "none" \/ ~process
                /\ close' = [close EXCEPT ![d].at = "reap", ![d].held = TRUE]
                /\ UNCHANGED <<requestId, up>>
          /\ UNCHANGED channel
       \/ /\ rpc # Nobody
          /\ channel' = IF channel = "open" THEN "shut" ELSE channel
          /\ close' = [close EXCEPT ![d].at = "reap"]
          /\ UNCHANGED <<rpc, requestId, up>>
    /\ UNCHANGED <<life, made, shutdown, listener, process, child, down, gui, ticks, call>>

(* The answer to "destroy", any other frame, or none: the owner goes on. *)
ChildAnswers(d) ==
    /\ close[d].at = "answer"
    /\ down' \in {down} \cup (IF down # <<>> /\ channel = "open" THEN {Tail(down)} ELSE {})
    /\ close' = [close EXCEPT ![d].at = "reap"]
    /\ UNCHANGED <<parent, child, up, gui, ticks, call>>

(* OwnedProcess.shutdown returns the exit code of the whole tree, or raises. *)
Reap(d) ==
    /\ close[d].at = "reap"
    /\ \/ process /\ process' = FALSE /\ Dies
       \/ UNCHANGED <<process, child, up, paused>>
    /\ close' = [close EXCEPT ![d].at = "channel"]
    /\ UNCHANGED <<life, made, rpc, shutdown, listener, channel, requestId, down, list, observed, wish, told,
                   ticks, call>>

(* The lock that was not had in time is asked for again. *)
LockAgain(d) ==
    /\ close[d].at = "channel" /\ ~close[d].held /\ rpc = Nobody
    /\ rpc' = d
    /\ close' = [close EXCEPT ![d].held = TRUE]
    /\ UNCHANGED <<life, made, shutdown, listener, channel, process, requestId, child, up, down, gui, ticks, call>>

(* Mutant of MayCloseChannel: the lock is not asked for. *)
MayCloseAnyway(d) == ~process

MayCloseChannel(d) == ~process /\ close[d].held

(* The channel is closed, and the panel with it when nothing is left. *)
Finish(d) ==
    /\ close[d].at = "channel"
    /\ channel' \in {channel} \cup (IF MayCloseChannel(d) THEN {"none"} ELSE {})
    /\ \/ /\ ~process /\ channel' = "none" /\ ~listener
          /\ life' = "closed" /\ Ends(d, "closed")
       \/ life' \in {life} \cup (IF ~process /\ channel' = "none" /\ ~listener THEN {"closed"} ELSE {})
          /\ Ends(d, "none")
    /\ UNCHANGED <<made, listener, process, requestId, child, up, down, gui, ticks, call>>
-----------------------------------------------------------------------------
CallerStep(c) == Send(c) \/ NoLock(c) \/ Receive(c) \/ Unanswered(c)

CloserStep(d) ==
    Begin(d) \/ TooLate(d) \/ AskChild(d) \/ ChildAnswers(d) \/ Reap(d) \/ LockAgain(d) \/ Finish(d)

Next ==
    \/ Spawn \/ Accept \/ Gone \/ Ending \/ TogglePause \/ Handle
    \/ \E k \in Choices, asked \in BOOLEAN : Tick(k, asked)
    \/ \E c \in Callers : CallerStep(c) \/ \E command \in Commands : Call(c, command)
    \/ \E d \in Closers : CloserStep(d) \/ Close(d) \/ StartFails(d)

Spec == Init /\ [][Next]_vars

(* Threads are alike, and so are choices. *)
Alike == Permutations(Callers) \cup Permutations(Closers) \cup Permutations(Choices)
-----------------------------------------------------------------------------
(* Properties *)

TypeOK ==
    /\ life \in {"starting", "open", "closing", "closed"} /\ made \in BOOLEAN
    /\ rpc \in Callers \cup Closers \cup {Nobody} /\ shutdown \in Closers \cup {Nobody}
    /\ listener \in BOOLEAN /\ channel \in {"none", "open", "shut"} /\ process \in BOOLEAN
    /\ child \in {"none", "starting", "up", "ending", "dead"}
    /\ paused \in BOOLEAN
    /\ list.keys \subseteq Choices /\ list.selected \subseteq list.keys
    /\ observed \in 0 .. list.revision
    /\ \A c \in Callers : call[c].at \in {"idle", "lock", "answer"}
    /\ \A d \in Closers : close[d].at \in {"idle", "wait", "lock", "answer", "reap", "channel"}
    /\ \A c \in Callers : rpc = c <=> call[c].at = "answer"
    /\ \A d \in Closers : (rpc = d <=> close[d].held) /\ (close[d].held => shutdown = d)

(* A panel that is closed has no child left, and a thread is told so only of *)
(* a closed panel; and no call was waiting on the socket when it was closed. *)
ClosedIsProven ==
    /\ life = "closed" => child \in {"none", "dead"} /\ ~process /\ channel = "none" /\ ~listener
    /\ \A d \in Closers : close[d].result = "closed" => life = "closed"
    /\ channel = "none" => \A c \in Callers : call[c].at # "answer"

(* While the panel is open and nobody calls it, the stream is empty: the     *)
(* next answer to be read belongs to the next request.                       *)
StreamClean == life = "open" /\ rpc = Nobody => up = <<>> /\ down = <<>>

(* A thread is let run only if the pause flag was clear at some moment of    *)
(* its call, however late the answer, and never once the window is gone.     *)
PauseHonoured == \A c \in Callers : call[c].result = "running" => call[c].clear

Keeps(k) == (k \in list.selected) <=> (wish[k] = "ticked")

(* What the user ticked or cleared since the child last answered about the   *)
(* list survives its replacement, as long as the choice is offered.          *)
UnseenChoiceKept == \A k \in list.keys : wish[k] # "none" /\ k \notin told => Keeps(k)

(* ... and so does every tick the application never read. *)
UnreadChoiceKept == \A k \in list.keys : wish[k] # "none" => Keeps(k)
=============================================================================
