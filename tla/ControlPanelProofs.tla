------------------------- MODULE ControlPanelProofs -------------------------
(***************************************************************************)
(* A closed panel left nothing behind, an open one has a clean stream, a   *)
(* pause is honoured and no tick is lost unseen, for any threads and any   *)
(* number of requests and ticks.                                           *)
(***************************************************************************)
EXTENDS ControlPanel, TLAPS

USE PanelAssumption

Calls == [at : {"idle", "lock", "answer"}, command : Commands, id : Nat, clear : BOOLEAN,
          result : {"none", "running"}]
Shutdowns == [at : {"idle", "wait", "lock", "answer", "reap", "channel"}, held : BOOLEAN,
              result : {"none", "closed"}]
Requests == [id : Nat, command : Commands \cup {"destroy"}]
Answers == [id : Nat, command : Commands \cup {"destroy"}, value : BOOLEAN]
Lists == [revision : Nat, keys : SUBSET Choices, selected : SUBSET Choices]

(* Where a closer owns the shutdown.                                       *)
Owning == {"lock", "answer", "reap", "channel"}

LifeType ==
    /\ life \in {"starting", "open", "closing", "closed"} /\ made \in BOOLEAN
    /\ listener \in BOOLEAN /\ channel \in {"none", "open", "shut"} /\ process \in BOOLEAN
    /\ child \in {"none", "starting", "up", "ending", "dead"}

LockType == rpc \in Callers \cup Closers \cup {Nobody} /\ shutdown \in Closers \cup {Nobody}

ThreadType == call \in [Callers -> Calls] /\ close \in [Closers -> Shutdowns]

StreamType == requestId \in Nat /\ up \in Seq(Requests) /\ down \in Seq(Answers)

ListType ==
    /\ paused \in BOOLEAN
    /\ list \in Lists /\ list.selected \subseteq list.keys
    /\ observed \in 0 .. list.revision
    /\ wish \in [Choices -> {"none", "ticked", "cleared"}] /\ told \in SUBSET Choices

Types == LifeType /\ LockType /\ ThreadType /\ StreamType /\ ListType

(* A lock belongs to the thread that waits under it.                       *)
LockInv ==
    /\ \A c \in Callers : rpc = c <=> call[c].at = "answer"
    /\ \A d \in Closers : rpc = d <=> close[d].held
    /\ \A d \in Closers : close[d].held => shutdown = d
    /\ \A d \in Closers : shutdown = d <=> close[d].at \in Owning

(* Only a panel that is closing is shut down, an open one has its channel, *)
(* and a process that is not owned has no child.                           *)
LifeInv ==
    /\ shutdown # Nobody => life = "closing"
    /\ life = "open" => channel = "open"
    /\ made => life # "starting"
    /\ ~made => \A c \in Callers : call[c].at = "idle"
    /\ ~process => child \in {"none", "dead"}
    /\ ClosedIsProven

(* An open panel has one message underway for a call, and none without.    *)
StreamInv ==
    /\ life = "starting" => Len(up) = 0 /\ Len(down) = 0
    /\ life = "open" => Len(up) + Len(down) <= IF rpc = Nobody THEN 0 ELSE 1

(* Numbers are used once, and an answer tells what was so during its call. *)
PauseInv ==
    /\ \A i \in DOMAIN up : up[i].id <= requestId
    /\ \A i \in DOMAIN down : down[i].id <= requestId
    /\ \A c \in Callers : ~paused /\ call[c].at # "idle" => call[c].clear
    /\ \A c \in Callers, i \in DOMAIN down :
         /\ call[c].at = "answer" /\ down[i].id = call[c].id
         /\ down[i].command = "is_paused" /\ ~down[i].value
         => call[c].clear
    /\ PauseHonoured

(* Choices are wished for in the list; those of a list whose revision the  *)
(* child sent were sent with it.                                           *)
WishInv ==
    /\ \A k \in Choices : wish[k] # "none" => k \in list.keys
    /\ list.revision = 0 => list.keys = {}
    /\ list.revision = observed => \A k \in Choices : wish[k] # "none" => k \in told
    /\ UnseenChoiceKept

PanelInv == Types /\ LockInv /\ LifeInv /\ StreamInv /\ PauseInv /\ WishInv

-----------------------------------------------------------------------------
(* Type correctness.                                                       *)

LEMMA RecordFacts ==
    /\ Idle \in Calls /\ Resting \in Shutdowns
    /\ \A c \in Calls, b \in BOOLEAN : [c EXCEPT !.clear = b] \in Calls
    /\ \A r \in {"none", "running"}, b \in BOOLEAN : [Idle EXCEPT !.clear = b, !.result = r] \in Calls
    /\ \A r \in {"none", "closed"} : [Resting EXCEPT !.result = r] \in Shutdowns
  <1>1. Idle = [at |-> "idle", command |-> "pause", id |-> 0, clear |-> FALSE, result |-> "none"]
        /\ "pause" \in Commands
    BY DEF Idle, Commands
  <1>2. Resting = [at |-> "idle", held |-> FALSE, result |-> "none"]
    BY DEF Resting
  <1>. QED  BY <1>1, <1>2 DEF Calls, Shutdowns

LEMMA ReturnsType ==
    ASSUME Types, NEW c \in Callers, NEW result, Returns(c, result)
    PROVE  /\ call' \in [Callers -> Calls]
           /\ call'[c].at = "idle" /\ \A b \in Callers : b # c => call'[b] = call[b]
           /\ call'[c].result = "running" => result = "running" /\ call'[c].clear = call[c].clear
  <1>1. call \in [Callers -> Calls] /\ call[c].clear \in BOOLEAN
    BY DEF Types, ThreadType, Calls
  <1>2. CASE result = "running"
    <2>1. call' = [call EXCEPT ![c] = [Idle EXCEPT !.clear = call[c].clear, !.result = "running"]]
      BY <1>2 DEF Returns
    <2>2. [Idle EXCEPT !.clear = call[c].clear, !.result = "running"] \in Calls
      BY <1>1, RecordFacts
    <2>3. /\ [Idle EXCEPT !.clear = call[c].clear, !.result = "running"].at = "idle"
          /\ [Idle EXCEPT !.clear = call[c].clear, !.result = "running"].clear = call[c].clear
      BY DEF Idle
    <2>. QED  BY <1>1, <1>2, <2>1, <2>2, <2>3
  <1>3. CASE result # "running"
    <2>1. call' = [call EXCEPT ![c] = Idle]
      BY <1>3 DEF Returns
    <2>2. Idle.at = "idle" /\ Idle.result = "none"
      BY DEF Idle
    <2>. QED  BY <1>1, <2>1, <2>2, RecordFacts
  <1>. QED  BY <1>2, <1>3

LEMMA LifeTypeStep ==
    ASSUME Types, Next
    PROVE  LifeType' /\ LockType'
  <1>0. LifeType /\ LockType
    BY DEF Types
  <1>1. CASE Spawn \/ Accept
    BY <1>0, <1>1 DEF Spawn, Accept, LifeType, LockType
  <1>2. CASE Gone \/ Ending
    BY <1>0, <1>2 DEF Gone, Ending, Dies, parent, LifeType, LockType
  <1>3. CASE TogglePause \/ (\E k \in Choices, asked \in BOOLEAN : Tick(k, asked))
    <2>1. UNCHANGED <<parent, child>>
      BY <1>3 DEF TogglePause, Tick
    <2>. QED  BY <1>0, <2>1 DEF parent, LifeType, LockType
  <1>4. CASE Handle
    <2>1. UNCHANGED <<life, made, rpc, shutdown, listener, channel, process>>
      BY <1>4 DEF Handle, parent
    <2>2. child' = child \/ child' = "ending"
      BY <1>4 DEF Handle, gui
    <2>. QED  BY <1>0, <2>1, <2>2 DEF LifeType, LockType
  <1>5. ASSUME NEW c \in Callers, CallerStep(c) \/ \E command \in Commands : Call(c, command)
        PROVE  LifeType' /\ LockType'
    <2>1. UNCHANGED <<made, shutdown, listener, channel, process, child>>
      BY <1>5 DEF CallerStep, Send, NoLock, Receive, Unanswered, Call, parent
    <2>2. UNCHANGED life \/ Closing
      BY <1>5 DEF CallerStep, Send, NoLock, Receive, Unanswered, Call, parent
    <2>3. UNCHANGED rpc \/ rpc' = c \/ rpc' = Nobody
      BY <1>5 DEF CallerStep, Send, NoLock, Receive, Unanswered, Call, parent
    <2>. QED  BY <1>0, <2>1, <2>2, <2>3 DEF Closing, LifeType, LockType
  <1>6. ASSUME NEW d \in Closers, Begin(d) \/ TooLate(d) \/ AskChild(d) \/ ChildAnswers(d) \/ Reap(d) \/ LockAgain(d)
        PROVE  LifeType' /\ LockType'
    <2>1. CASE Begin(d)
      <3>1. UNCHANGED <<made, rpc, channel, process, child>>
        BY <2>1 DEF Begin
      <3>2. life' \in {life, "closing"} /\ shutdown' \in {shutdown, d} /\ listener' \in {FALSE, listener}
        BY <2>1 DEF Begin
      <3>3. listener' \in BOOLEAN
        BY <1>0, <3>2 DEF LifeType
      <3>4. life' \in {"starting", "open", "closing", "closed"}
        BY <1>0, <3>2 DEF LifeType
      <3>. QED  BY <1>0, <3>1, <3>2, <3>3, <3>4 DEF LifeType, LockType
    <2>5. CASE TooLate(d)
      <3>1. UNCHANGED <<parent, child>>
        BY <2>5 DEF TooLate
      <3>. QED  BY <1>0, <3>1 DEF parent, LifeType, LockType
    <2>2. CASE AskChild(d)
      <3>1. UNCHANGED <<life, made, shutdown, listener, process, child>>
        BY <2>2 DEF AskChild
      <3>2. rpc' \in {rpc, d} /\ channel' \in {channel, "shut"}
        BY <2>2 DEF AskChild
      <3>. QED  BY <1>0, <3>1, <3>2 DEF LifeType, LockType
    <2>3. CASE ChildAnswers(d) \/ LockAgain(d)
      <3>1. UNCHANGED <<life, made, shutdown, listener, channel, process, child>>
        BY <2>3 DEF ChildAnswers, LockAgain, parent
      <3>2. rpc' \in {rpc, d}
        BY <2>3 DEF ChildAnswers, LockAgain, parent
      <3>. QED  BY <1>0, <3>1, <3>2 DEF LifeType, LockType
    <2>4. CASE Reap(d)
      BY <1>0, <2>4 DEF Reap, Dies, LifeType, LockType
    <2>. QED  BY <1>6, <2>1, <2>2, <2>3, <2>4, <2>5
  <1>7. ASSUME NEW d \in Closers, Finish(d) \/ Close(d) \/ StartFails(d)
        PROVE  LifeType' /\ LockType'
    BY <1>0, <1>7 DEF Finish, Ends, Close, StartFails, Closing, LifeType, LockType
  <1>. QED  BY <1>1, <1>2, <1>3, <1>4, <1>5, <1>6, <1>7 DEF Next, CloserStep

LEMMA CallTypeStep ==
    ASSUME Types, Next
    PROVE  call' \in [Callers -> Calls]
  <1>0. call \in [Callers -> Calls] /\ requestId \in Nat /\ paused \in BOOLEAN
    BY DEF Types, ThreadType, StreamType, ListType
  <1>1. CASE TogglePause
    <2>1. paused' \in BOOLEAN
      BY <1>0, <1>1 DEF TogglePause
    <2>2. \A c \in Callers : (call[c].clear \/ (~paused' /\ call[c].at # "idle")) \in BOOLEAN
      OBVIOUS
    <2>3. call' = [c \in Callers |->
                     [call[c] EXCEPT !.clear = call[c].clear \/ (~paused' /\ call[c].at # "idle")]]
      BY <1>1 DEF TogglePause, NoteClear
    <2>4. \A c \in Callers : call'[c] \in Calls
      BY <1>0, <2>2, <2>3, RecordFacts
    <2>. QED  BY <2>3, <2>4
  <1>2. ASSUME NEW c \in Callers, NEW command \in Commands, Call(c, command)
        PROVE  call' \in [Callers -> Calls]
    <2>1. (~paused) \in BOOLEAN
      BY <1>0
    <2>2. call' = [call EXCEPT ![c] = [Idle EXCEPT !.at = "lock", !.command = command, !.clear = ~paused]]
      BY <1>2 DEF Call
    <2>3. [Idle EXCEPT !.at = "lock", !.command = command, !.clear = ~paused] \in Calls
      BY <2>1 DEF Idle, Calls
    <2>. QED  BY <1>0, <2>2, <2>3
  <1>3. ASSUME NEW c \in Callers, Send(c)
        PROVE  call' \in [Callers -> Calls]
    <2>1. CASE call' = [call EXCEPT ![c].at = "answer", ![c].id = requestId'] /\ requestId' = requestId + 1
      <3>1. [call[c] EXCEPT !.at = "answer", !.id = requestId'] \in Calls
        <4>1. \A r \in Calls, n \in Nat : [r EXCEPT !.at = "answer", !.id = n] \in Calls
          BY DEF Calls
        <4>2. requestId' \in Nat /\ call[c] \in Calls
          BY <1>0, <2>1
        <4>. QED  BY <4>1, <4>2
      <3>2. call' = [call EXCEPT ![c] = [call[c] EXCEPT !.at = "answer", !.id = requestId']]
        BY <1>0, <2>1
      <3>. QED  BY <1>0, <3>1, <3>2
    <2>2. CASE Returns(c, "raised")
      BY <2>2, ReturnsType
    <2>. QED  BY <1>3, <2>1, <2>2 DEF Send
  <1>4. ASSUME NEW c \in Callers, NoLock(c) \/ Receive(c) \/ Unanswered(c)
        PROVE  call' \in [Callers -> Calls]
    <2>1. \E result : Returns(c, result)
      BY <1>4 DEF NoLock, Receive, Unanswered
    <2>. QED  BY <2>1, ReturnsType
  <1>5. CASE call' = call
    BY <1>0, <1>5
  <1>6. \/ TogglePause \/ call' = call
        \/ \E c \in Callers : CallerStep(c) \/ \E command \in Commands : Call(c, command)
    <2>1. CASE Spawn \/ Accept \/ Gone \/ Ending \/ Handle \/ \E k \in Choices, asked \in BOOLEAN : Tick(k, asked)
      BY <2>1 DEF Spawn, Accept, Gone, Ending, Handle, Tick
    <2>2. ASSUME NEW d \in Closers, CloserStep(d) \/ Close(d) \/ StartFails(d) PROVE call' = call
      BY <2>2 DEF CloserStep, Begin, TooLate, AskChild, ChildAnswers, Reap, LockAgain, Finish, Close, StartFails
    <2>. QED  BY <2>1, <2>2 DEF Next
  <1>. QED  BY <1>1, <1>2, <1>3, <1>4, <1>5, <1>6 DEF CallerStep

(* What a closer's step does to its own record, the only one it touches.   *)
LEMMA CloseTypeStep ==
    ASSUME Types, Next
    PROVE  close' \in [Closers -> Shutdowns]
  <1>0. close \in [Closers -> Shutdowns]
    BY DEF Types, ThreadType
  <1>1. ASSUME NEW d \in Closers, NEW r \in Shutdowns, close' = [close EXCEPT ![d] = r]
        PROVE  close' \in [Closers -> Shutdowns]
    BY <1>0, <1>1
  <1>2. ASSUME NEW d \in Closers, NEW at \in {"wait", "lock", "answer", "reap", "channel"},
               close' = [close EXCEPT ![d].at = at]
        PROVE  close' \in [Closers -> Shutdowns]
    BY <1>0, <1>2 DEF Shutdowns
  <1>3. ASSUME NEW d \in Closers, NEW at \in {"answer", "reap"},
               close' = [close EXCEPT ![d].at = at, ![d].held = TRUE]
        PROVE  close' \in [Closers -> Shutdowns]
    <2>1. close[d] \in Shutdowns
      BY <1>0
    <2>2. [close[d] EXCEPT !.at = at, !.held = TRUE] \in Shutdowns
      BY <2>1 DEF Shutdowns
    <2>3. close' = [close EXCEPT ![d] = [close[d] EXCEPT !.at = at, !.held = TRUE]]
      BY <1>0, <1>3, <2>1
    <2>. QED  BY <1>1, <2>2, <2>3
  <1>4. ASSUME NEW d \in Closers, Begin(d) \/ TooLate(d) \/ ChildAnswers(d) \/ Reap(d) \/ StartFails(d)
        PROVE  close' \in [Closers -> Shutdowns]
    BY <1>1, <1>2, <1>4, RecordFacts DEF Begin, TooLate, ChildAnswers, Reap, StartFails
  <1>5. ASSUME NEW d \in Closers, AskChild(d)
        PROVE  close' \in [Closers -> Shutdowns]
    BY <1>2, <1>3, <1>5 DEF AskChild
  <1>6. ASSUME NEW d \in Closers, LockAgain(d)
        PROVE  close' \in [Closers -> Shutdowns]
    BY <1>0, <1>6 DEF LockAgain, Shutdowns
  <1>7. ASSUME NEW d \in Closers, Finish(d)
        PROVE  close' \in [Closers -> Shutdowns]
    BY <1>1, <1>7, RecordFacts DEF Finish, Ends
  <1>8. ASSUME NEW d \in Closers, Close(d)
        PROVE  close' \in [Closers -> Shutdowns]
    <2>1. CASE close' = [close EXCEPT ![d].result = "closed"]
      BY <1>0, <2>1 DEF Shutdowns
    <2>2. CASE close' = [close EXCEPT ![d].at = "wait"]
      BY <1>2, <2>2
    <2>. QED  BY <1>8, <2>1, <2>2 DEF Close
  <1>9. CASE close' = close
    BY <1>0, <1>9
  <1>10. \/ close' = close
         \/ \E d \in Closers : CloserStep(d) \/ Close(d) \/ StartFails(d)
    BY DEF Next, Spawn, Accept, Gone, Ending, TogglePause, Handle, Tick, CallerStep, Send, NoLock, Receive,
           Unanswered, Call
  <1>. QED  BY <1>4, <1>5, <1>6, <1>7, <1>8, <1>9, <1>10 DEF CloserStep

(* What a request to the child, and its answer, do to the streams.         *)
LEMMA StreamTypeStep ==
    ASSUME Types, Next
    PROVE  StreamType' /\ requestId' >= requestId
  <1>0. requestId \in Nat /\ up \in Seq(Requests) /\ down \in Seq(Answers)
        /\ call \in [Callers -> Calls] /\ paused \in BOOLEAN
    BY DEF Types, StreamType, ThreadType, ListType
  <1>1. CASE Handle
    <2>1. up # <<>> /\ Head(up) \in Requests /\ Tail(up) \in Seq(Requests) /\ up' = Tail(up)
      BY <1>0, <1>1 DEF Handle
    <2>2. \E value \in BOOLEAN : Respond(Head(up), value)
      BY <1>0, <1>1 DEF Handle
    <2>3. down' \in Seq(Answers)
      <3>1. PICK value \in BOOLEAN : Respond(Head(up), value)
        BY <2>2
      <3>2. [id |-> Head(up).id, command |-> Head(up).command, value |-> value] \in Answers
        BY <2>1 DEF Requests, Answers
      <3>. QED  BY <1>0, <3>1, <3>2 DEF Respond
    <2>4. requestId' = requestId
      BY <1>1 DEF Handle, parent
    <2>. QED  BY <1>0, <2>1, <2>3, <2>4 DEF StreamType
  <1>2. CASE Gone \/ Ending
    <2>1. up' = <<>> /\ down' = down /\ requestId' = requestId
      BY <1>2 DEF Gone, Ending, Dies, parent
    <2>2. <<>> \in Seq(Requests)
      OBVIOUS
    <2>. QED  BY <1>0, <2>1, <2>2 DEF StreamType
  <1>3. ASSUME NEW c \in Callers, Send(c) PROVE StreamType' /\ requestId' >= requestId
    <2>0. down' = down
      BY <1>3 DEF Send
    <2>1. CASE requestId' = requestId + 1
               /\ (up' = up \/ up' = Append(up, [id |-> requestId', command |-> call[c].command]))
      <3>1. [id |-> requestId + 1, command |-> call[c].command] \in Requests
        <4>1. call[c].command \in Commands
          BY <1>0 DEF Calls
        <4>. QED  BY <1>0, <4>1 DEF Requests
      <3>2. Append(up, [id |-> requestId + 1, command |-> call[c].command]) \in Seq(Requests)
        BY <1>0, <3>1
      <3>3. up' \in Seq(Requests) /\ requestId' \in Nat /\ requestId' >= requestId
        BY <1>0, <2>1, <3>2
      <3>. QED  BY <1>0, <2>0, <3>3 DEF StreamType
    <2>2. CASE UNCHANGED <<requestId, up>>
      BY <1>0, <2>0, <2>2 DEF StreamType
    <2>. QED  BY <1>3, <2>1, <2>2 DEF Send
  <1>4. ASSUME NEW c \in Callers, NoLock(c) \/ Unanswered(c) \/ Receive(c) PROVE StreamType' /\ requestId' >= requestId
    <2>1. requestId' = requestId /\ up' = up /\ (down' = down \/ (down # <<>> /\ down' = Tail(down)))
      BY <1>4 DEF NoLock, Unanswered, Receive
    <2>2. down # <<>> => Tail(down) \in Seq(Answers)
      BY <1>0
    <2>3. down' \in Seq(Answers)
      BY <1>0, <2>1, <2>2, Zenon
    <2>. QED  BY <1>0, <2>1, <2>3 DEF StreamType
  <1>5. ASSUME NEW d \in Closers, AskChild(d) PROVE StreamType' /\ requestId' >= requestId
    <2>0. down' = down
      BY <1>5 DEF AskChild
    <2>1. CASE requestId' = requestId + 1
               /\ (up' = up \/ up' = Append(up, [id |-> requestId', command |-> "destroy"]))
      <3>1. [id |-> requestId + 1, command |-> "destroy"] \in Requests
        BY <1>0 DEF Requests
      <3>2. Append(up, [id |-> requestId + 1, command |-> "destroy"]) \in Seq(Requests)
        BY <1>0, <3>1
      <3>3. up' \in Seq(Requests) /\ requestId' \in Nat /\ requestId' >= requestId
        <4>1. up' \in Seq(Requests)
          BY <1>0, <2>1, <3>2, Zenon
        <4>. QED  BY <1>0, <2>1, <4>1
      <3>. QED  BY <1>0, <2>0, <3>3 DEF StreamType
    <2>2. CASE UNCHANGED <<requestId, up>>
      BY <1>0, <2>0, <2>2 DEF StreamType
    <2>. QED  BY <1>5, <2>1, <2>2 DEF AskChild
  <1>6. ASSUME NEW d \in Closers, ChildAnswers(d) \/ Reap(d) PROVE StreamType' /\ requestId' >= requestId
    <2>1. /\ requestId' = requestId /\ up' \in {up, <<>>}
          /\ down' = down \/ (down # <<>> /\ down' = Tail(down))
      BY <1>6 DEF ChildAnswers, Reap, Dies, parent
    <2>2. (down # <<>> => Tail(down) \in Seq(Answers)) /\ <<>> \in Seq(Requests)
      BY <1>0
    <2>3. down' \in Seq(Answers) /\ up' \in Seq(Requests)
      BY <1>0, <2>1, <2>2, Zenon
    <2>. QED  BY <1>0, <2>1, <2>3 DEF StreamType
  <1>7. CASE UNCHANGED <<requestId, up, down>>
    BY <1>0, <1>7 DEF StreamType
  <1>8. \/ Handle \/ Gone \/ Ending \/ UNCHANGED <<requestId, up, down>>
        \/ \E c \in Callers : Send(c) \/ NoLock(c) \/ Unanswered(c) \/ Receive(c)
        \/ \E d \in Closers : AskChild(d) \/ ChildAnswers(d) \/ Reap(d)
    <2>1. CASE Spawn \/ Accept \/ TogglePause \/ \E k \in Choices, asked \in BOOLEAN : Tick(k, asked)
      BY <2>1 DEF Spawn, Accept, TogglePause, Tick, parent
    <2>2. ASSUME NEW c \in Callers, NEW command \in Commands, Call(c, command) PROVE UNCHANGED <<requestId, up, down>>
      BY <2>2 DEF Call, parent
    <2>3. ASSUME NEW d \in Closers, Begin(d) \/ TooLate(d) \/ LockAgain(d) \/ Finish(d) \/ Close(d) \/ StartFails(d)
          PROVE  UNCHANGED <<requestId, up, down>>
      BY <2>3 DEF Begin, TooLate, LockAgain, Finish, Close, StartFails, parent
    <2>. QED  BY <2>1, <2>2, <2>3 DEF Next, CallerStep, CloserStep
  <1>. QED  BY <1>1, <1>2, <1>3, <1>4, <1>5, <1>6, <1>7, <1>8

(* The list, and what the user did to it.                                  *)
LEMMA ReplacedType ==
    ASSUME Types, NEW keys \in SUBSET Choices, NEW proposed \in SUBSET keys
    PROVE  Replaced(keys, proposed) \in SUBSET keys
  BY DEF Replaced

LEMMA OnlyTheChildLists ==
    ASSUME Next
    PROVE  \/ Handle \/ TogglePause \/ \E k \in Choices, asked \in BOOLEAN : Tick(k, asked)
           \/ UNCHANGED <<list, observed, wish, told>> /\ (paused' = paused \/ paused' = TRUE)
  <1>1. CASE Spawn \/ Accept \/ Gone \/ Ending
    BY <1>1 DEF Spawn, Accept, Gone, Ending, Dies, gui
  <1>2. ASSUME NEW c \in Callers, CallerStep(c) \/ \E command \in Commands : Call(c, command)
        PROVE  UNCHANGED <<list, observed, wish, told>> /\ paused' = paused
    BY <1>2 DEF CallerStep, Send, NoLock, Receive, Unanswered, Call, gui
  <1>3. ASSUME NEW d \in Closers, CloserStep(d) \/ Close(d) \/ StartFails(d)
        PROVE  UNCHANGED <<list, observed, wish, told>> /\ (paused' = paused \/ paused' = TRUE)
    BY <1>3 DEF CloserStep, Begin, TooLate, AskChild, ChildAnswers, Reap, Dies, LockAgain, Finish, Close,
                StartFails, gui
  <1>. QED  BY <1>1, <1>2, <1>3 DEF Next

LEMMA ListTypeStep ==
    ASSUME Types, Next
    PROVE  ListType'
  <1>0. ListType /\ list.keys \in SUBSET Choices /\ list.selected \in SUBSET Choices /\ list.revision \in Nat
    BY DEF Types, ListType, Lists
  <1>1. CASE Handle
    <2>1. \/ UNCHANGED gui
          \/ paused' = TRUE /\ UNCHANGED <<list, observed, wish, told>>
          \/ /\ observed' = list.revision /\ wish' = [k \in Choices |-> "none"] /\ told' = {}
             /\ UNCHANGED <<paused, list>>
          \/ /\ \E keys \in SUBSET Choices : \E proposed \in SUBSET keys :
                  LET selected == IF list.revision = 0 THEN proposed ELSE Replaced(keys, proposed)
                      kept == {k \in Choices : k \in selected <=> wish[k] = "ticked"}
                  IN  /\ list' = [revision |-> list.revision + 1, keys |-> keys, selected |-> selected]
                      /\ wish' = [k \in Choices |-> IF k \in keys THEN wish[k] ELSE "none"]
                      /\ told' = {k \in keys : wish[k] # "none"} \cap (told \cup kept)
             /\ observed' = list.revision + 1 /\ paused' = paused
      BY <1>1 DEF Handle
    <2>2. CASE UNCHANGED gui \/ (paused' = TRUE /\ UNCHANGED <<list, observed, wish, told>>)
      BY <1>0, <2>2 DEF ListType, gui
    <2>3. CASE /\ observed' = list.revision /\ wish' = [k \in Choices |-> "none"] /\ told' = {}
               /\ UNCHANGED <<paused, list>>
      BY <1>0, <2>3 DEF ListType
    <2>4. ASSUME NEW keys \in SUBSET Choices, NEW selected \in SUBSET keys, NEW kept,
                 list' = [revision |-> list.revision + 1, keys |-> keys, selected |-> selected],
                 wish' = [k \in Choices |-> IF k \in keys THEN wish[k] ELSE "none"],
                 told' = {k \in keys : wish[k] # "none"} \cap (told \cup kept),
                 observed' = list.revision + 1, paused' = paused
          PROVE  ListType'
      <3>1. list' \in Lists /\ list'.selected \subseteq list'.keys /\ observed' \in 0 .. list'.revision
        BY <1>0, <2>4 DEF Lists
      <3>2. wish' \in [Choices -> {"none", "ticked", "cleared"}]
        BY <1>0, <2>4 DEF ListType
      <3>3. told' \in SUBSET Choices
        BY <2>4
      <3>. QED  BY <1>0, <2>4, <3>1, <3>2, <3>3 DEF ListType
    <2>5. ASSUME NEW keys \in SUBSET Choices, NEW proposed \in SUBSET keys
          PROVE  (IF list.revision = 0 THEN proposed ELSE Replaced(keys, proposed)) \in SUBSET keys
      BY ReplacedType
    <2>. QED  BY <2>1, <2>2, <2>3, <2>4, <2>5
  <1>2. CASE TogglePause
    BY <1>0, <1>2 DEF TogglePause, ListType
  <1>3. ASSUME NEW k \in Choices, NEW asked \in BOOLEAN, Tick(k, asked) PROVE ListType'
    <2>0. UNCHANGED <<paused, observed>>
      BY <1>3 DEF Tick
    <2>1. CASE UNCHANGED <<list, wish, told>>
      BY <1>0, <2>0, <2>1 DEF ListType
    <2>2. CASE /\ k \in list.keys
               /\ list' = [list EXCEPT !.revision = @ + 1,
                                       !.selected = IF asked THEN @ \cup {k} ELSE @ \ {k}]
               /\ wish' = [wish EXCEPT ![k] = IF asked THEN "ticked" ELSE "cleared"]
               /\ told' = told \ {k}
      <3>. DEFINE n == list.revision + 1
                  s == IF asked THEN list.selected \cup {k} ELSE list.selected \ {k}
      <3>1. list \in Lists /\ n \in Nat /\ s \in SUBSET Choices /\ s \subseteq list.keys /\ observed \in 0 .. n
        BY <1>0, <2>2 DEF ListType, Lists
      <3>2. list' = [list EXCEPT !.revision = n, !.selected = s]
        BY <2>2
      <3>. HIDE DEF n, s
      <3>3. list' \in Lists /\ list'.selected \subseteq list'.keys /\ list'.revision = n
        BY <3>1, <3>2 DEF Lists
      <3>4. wish' \in [Choices -> {"none", "ticked", "cleared"}] /\ told' \in SUBSET Choices
        BY <1>0, <2>2 DEF ListType
      <3>. QED  BY <1>0, <2>0, <3>1, <3>3, <3>4 DEF ListType
    <2>. QED  BY <1>3, <2>1, <2>2 DEF Tick
  <1>4. CASE UNCHANGED <<list, observed, wish, told>> /\ (paused' = paused \/ paused' = TRUE)
    BY <1>0, <1>4 DEF ListType
  <1>. QED  BY <1>1, <1>2, <1>3, <1>4, OnlyTheChildLists

LEMMA TypesStep ==
    ASSUME Types, Next
    PROVE  Types'
  BY LifeTypeStep, CallTypeStep, CloseTypeStep, StreamTypeStep, ListTypeStep DEF Types, ThreadType

-----------------------------------------------------------------------------
(* The locks.                                                              *)

(* The step of a closer d changes the record of d alone.                   *)
Becomes(d, at, held, result) ==
    /\ close'[d].at = at /\ close'[d].held = held /\ close'[d].result = result
    /\ \A b \in Closers : b # d => close'[b] = close[b]

LEMMA MovesOn ==
    ASSUME ThreadType, NEW d \in Closers, NEW at, close' = [close EXCEPT ![d].at = at]
    PROVE  Becomes(d, at, close[d].held, close[d].result)
  <1>1. close[d] \in Shutdowns /\ close \in [Closers -> Shutdowns]
    BY DEF ThreadType
  <1>. QED  BY <1>1 DEF Becomes, Shutdowns

LEMMA MovesOnLocked ==
    ASSUME ThreadType, NEW d \in Closers, NEW at, close' = [close EXCEPT ![d].at = at, ![d].held = TRUE]
    PROVE  Becomes(d, at, TRUE, close[d].result)
  <1>1. close[d] \in Shutdowns /\ close \in [Closers -> Shutdowns]
    BY DEF ThreadType
  <1>. QED  BY <1>1 DEF Becomes, Shutdowns

LEMMA Rests ==
    ASSUME ThreadType, NEW d \in Closers, NEW result, close' = [close EXCEPT ![d] = [Resting EXCEPT !.result = result]]
    PROVE  Becomes(d, "idle", FALSE, result)
  <1>1. close \in [Closers -> Shutdowns]
    BY DEF ThreadType
  <1>. QED  BY <1>1 DEF Becomes, Resting

(* What each step of a closer does to its record and to the locks.         *)
CloserMoves(d) ==
    \/ /\ close[d].at \in {"idle", "wait"} /\ UNCHANGED <<rpc, shutdown>>
       /\ \E at \in {"idle", "wait"}, result \in {"none", "closed"} : Becomes(d, at, close[d].held, result)
    \/ /\ close[d].at = "wait" /\ shutdown = Nobody /\ shutdown' = d /\ rpc' = rpc
       /\ Becomes(d, "lock", close[d].held, close[d].result)
    \/ /\ close[d].at \in Owning /\ shutdown' = shutdown
       /\ \E at \in Owning : 
            \/ rpc' = rpc /\ Becomes(d, at, close[d].held, close[d].result)
            \/ rpc = Nobody /\ rpc' = d /\ Becomes(d, at, TRUE, close[d].result)
    \/ /\ close[d].at = "channel"
       /\ shutdown' = IF shutdown = d THEN Nobody ELSE shutdown
       /\ rpc' = IF close[d].held THEN Nobody ELSE rpc
       /\ \E result \in {"none", "closed"} : Becomes(d, "idle", FALSE, result)

LEMMA CloserStepMoves ==
    ASSUME Types, LockInv, NEW d \in Closers, CloserStep(d) \/ Close(d) \/ StartFails(d)
    PROVE  CloserMoves(d) /\ call' = call
  <1>0. ThreadType /\ close[d] \in Shutdowns /\ close[d].held \in BOOLEAN /\ Nobody \notin Closers
    BY DEF Types, ThreadType, Shutdowns
  <1>1. close[d].at \in {"idle", "wait"} => ~close[d].held
    BY DEF LockInv, Owning
  <1>2. CASE Begin(d)
    <2>1. CASE close' = [close EXCEPT ![d] = [Resting EXCEPT !.result = "closed"]] /\ shutdown' = shutdown
      <3>1. Becomes(d, "idle", FALSE, "closed")
        BY <1>0, <2>1, Rests
      <3>2. close[d].held = FALSE
        BY <1>0, <1>1, <1>2 DEF Begin
      <3>. QED  BY <1>2, <2>1, <3>1, <3>2 DEF Begin, CloserMoves
    <2>2. CASE close' = [close EXCEPT ![d].at = "lock"] /\ shutdown' = d
      BY <1>0, <1>2, <2>2, MovesOn DEF Begin, CloserMoves
    <2>. QED  BY <1>2, <2>1, <2>2 DEF Begin
  <1>3. CASE TooLate(d)
    <2>1. Becomes(d, "idle", FALSE, "none")
      BY <1>0, <1>3 DEF TooLate, Becomes, Resting, ThreadType
    <2>2. close[d].held = FALSE
      BY <1>0, <1>1, <1>3 DEF TooLate
    <2>. QED  BY <1>3, <2>1, <2>2 DEF TooLate, parent, CloserMoves
  <1>4. CASE AskChild(d)
    <2>1. ASSUME NEW at \in {"answer", "reap"}, close' = [close EXCEPT ![d].at = at, ![d].held = TRUE]
          PROVE  Becomes(d, at, TRUE, close[d].result)
      BY <1>0, <2>1, MovesOnLocked
    <2>2. close' = [close EXCEPT ![d].at = "reap"] => Becomes(d, "reap", close[d].held, close[d].result)
      BY <1>0, MovesOn
    <2>. QED  BY <1>4, <2>1, <2>2 DEF AskChild, CloserMoves, Owning
  <1>5. CASE ChildAnswers(d) \/ Reap(d)
    <2>1. ASSUME NEW at \in {"reap", "channel"}, close' = [close EXCEPT ![d].at = at]
          PROVE  Becomes(d, at, close[d].held, close[d].result)
      BY <1>0, <2>1, MovesOn
    <2>. QED  BY <1>5, <2>1 DEF ChildAnswers, Reap, parent, CloserMoves, Owning
  <1>6. CASE LockAgain(d)
    <2>1. Becomes(d, "channel", TRUE, close[d].result)
      BY <1>0, <1>6 DEF LockAgain, Becomes, ThreadType, Shutdowns
    <2>. QED  BY <1>6, <2>1 DEF LockAgain, CloserMoves, Owning
  <1>7. CASE Finish(d)
    <2>1. \A result : close' = [close EXCEPT ![d] = [Resting EXCEPT !.result = result]]
                      => Becomes(d, "idle", FALSE, result)
      BY <1>0, Rests
    <2>. QED  BY <1>7, <2>1 DEF Finish, Ends, CloserMoves
  <1>8. CASE Close(d) \/ StartFails(d)
    <2>1. close[d].at = "idle" /\ UNCHANGED <<call, rpc, shutdown>>
      BY <1>8 DEF Close, StartFails, Resting
    <2>2. CASE close' = [close EXCEPT ![d].result = "closed"]
      <3>1. Becomes(d, "idle", close[d].held, "closed")
        BY <1>0, <2>1, <2>2 DEF Becomes, ThreadType, Shutdowns
      <3>. QED  BY <2>1, <3>1 DEF CloserMoves
    <2>3. CASE close' = [close EXCEPT ![d].at = "wait"]
      <3>1. Becomes(d, "wait", close[d].held, close[d].result) /\ close[d].result \in {"none", "closed"}
        BY <1>0, <2>3, MovesOn DEF Shutdowns
      <3>. QED  BY <2>1, <3>1 DEF CloserMoves
    <2>. QED  BY <1>8, <2>2, <2>3 DEF Close, StartFails
  <1>. QED
    BY <1>2, <1>3, <1>4, <1>5, <1>6, <1>7, <1>8 DEF CloserStep, Begin, TooLate, AskChild, ChildAnswers, Reap,
       LockAgain, Finish, Close, StartFails

(* Who answers and who holds changes with the lock.                        *)
LEMMA LockStep ==
    ASSUME Types, LockInv, Next
    PROVE  LockInv'
  <1>0. /\ LockInv /\ call \in [Callers -> Calls] /\ close \in [Closers -> Shutdowns]
        /\ close' \in [Closers -> Shutdowns] /\ call' \in [Callers -> Calls]
        /\ rpc \in Callers \cup Closers \cup {Nobody} /\ shutdown \in Closers \cup {Nobody}
    BY CloseTypeStep, CallTypeStep DEF Types, ThreadType, LockType
  <1>1. CASE UNCHANGED <<rpc, shutdown, close>> /\ \A c \in Callers : call'[c].at = "answer" <=> call[c].at = "answer"
    BY <1>0, <1>1 DEF LockInv
  <1>2. CASE TogglePause
    <2>1. \A c \in Callers : call'[c].at = call[c].at
      BY <1>0, <1>2 DEF TogglePause, NoteClear, Calls
    <2>. QED  BY <1>1, <1>2, <2>1 DEF TogglePause, parent
  <1>3. ASSUME NEW c \in Callers, NEW command \in Commands, Call(c, command) PROVE LockInv'
    <2>1. /\ call' = [call EXCEPT ![c] = [Idle EXCEPT !.at = "lock", !.command = command, !.clear = ~paused]]
          /\ call[c].at = "idle" /\ UNCHANGED <<rpc, shutdown, close>>
      BY <1>3 DEF Call, parent
    <2>2. [Idle EXCEPT !.at = "lock", !.command = command, !.clear = ~paused].at = "lock"
      BY DEF Idle
    <2>3. call'[c].at = "lock" /\ \A b \in Callers : b # c => call'[b] = call[b]
      BY <1>0, <2>1, <2>2
    <2>. QED  BY <1>0, <2>1, <2>3 DEF LockInv
  <1>4. ASSUME NEW c \in Callers, Send(c) PROVE LockInv'
    <2>0. UNCHANGED <<shutdown, close>> /\ rpc = Nobody /\ call[c].at = "lock"
      BY <1>4 DEF Send
    <2>1. CASE rpc' = c /\ call' = [call EXCEPT ![c].at = "answer", ![c].id = requestId']
      <3>1. call'[c].at = "answer" /\ \A b \in Callers : b # c => call'[b] = call[b]
        BY <1>0, <2>1 DEF Calls
      <3>. QED  BY <1>0, <2>0, <2>1, <3>1 DEF LockInv
    <2>2. CASE rpc' = rpc /\ Returns(c, "raised")
      BY <1>0, <2>0, <2>2, ReturnsType DEF LockInv
    <2>. QED  BY <1>4, <2>1, <2>2 DEF Send
  <1>5. ASSUME NEW c \in Callers, NoLock(c) PROVE LockInv'
    <2>1. UNCHANGED <<rpc, shutdown, close>> /\ call[c].at = "lock" /\ Returns(c, "raised")
      BY <1>5 DEF NoLock
    <2>. QED  BY <1>0, <2>1, ReturnsType DEF LockInv
  <1>6. ASSUME NEW c \in Callers, Receive(c) \/ Unanswered(c) PROVE LockInv'
    <2>1. UNCHANGED <<shutdown, close>> /\ call[c].at = "answer" /\ rpc' = Nobody /\ \E result : Returns(c, result)
      BY <1>6 DEF Receive, Unanswered
    <2>2. rpc = c
      BY <1>0, <2>1 DEF LockInv
    <2>. QED  BY <1>0, <2>1, <2>2, ReturnsType DEF LockInv
  <1>7. ASSUME NEW d \in Closers, CloserStep(d) \/ Close(d) \/ StartFails(d) PROVE LockInv'
    <2>0. CloserMoves(d) /\ call' = call
      BY <1>7, CloserStepMoves
    <2>1. close[d].held \in BOOLEAN /\ Nobody \notin Closers /\ Nobody \notin Callers /\ Callers \cap Closers = {}
      BY <1>0 DEF Shutdowns
    <2>2. /\ \A c \in Callers : rpc' = c <=> call'[c].at = "answer"
          /\ \A b \in Closers : rpc' = b <=> close'[b].held
      BY <1>0, <2>0, <2>1 DEF LockInv, CloserMoves, Becomes
    <2>3. \A b \in Closers : shutdown' = b <=> close'[b].at \in Owning
      BY <1>0, <2>0, <2>1 DEF LockInv, CloserMoves, Becomes, Owning
    <2>4. \A b \in Closers : close'[b].held => shutdown' = b
      BY <1>0, <2>0, <2>1, <2>3 DEF LockInv, CloserMoves, Becomes, Owning
    <2>. QED  BY <2>2, <2>3, <2>4 DEF LockInv
  <1>8. CASE Spawn \/ Accept \/ Gone \/ Ending \/ Handle \/ \E k \in Choices, asked \in BOOLEAN : Tick(k, asked)
    BY <1>1, <1>8 DEF Spawn, Accept, Gone, Ending, Handle, Tick, parent
  <1>. QED
    BY <1>2, <1>3, <1>4, <1>5, <1>6, <1>7, <1>8 DEF Next, CallerStep

-----------------------------------------------------------------------------
(* The life of the panel.                                                  *)

(* Who waits for an answer after a step waited before, or has just sent;   *)
(* and a panel that was not made has no caller.                            *)
LEMMA CallerMoves ==
    ASSUME Types, NEW c \in Callers, CallerStep(c) \/ \E command \in Commands : Call(c, command)
    PROVE  /\ \A b \in Callers : b # c => call'[b] = call[b]
           /\ call[c].at = "idle" => made
           /\ call'[c].at = "answer" => life = "open"
           /\ UNCHANGED <<close, made, shutdown, listener, channel, process, child>>
           /\ life' = life \/ Closing
  <1>0. call \in [Callers -> Calls]
    BY DEF Types, ThreadType
  <1>1. ASSUME NEW command \in Commands, Call(c, command)
        PROVE  /\ \A b \in Callers : b # c => call'[b] = call[b]
               /\ call'[c].at = "lock" /\ made /\ UNCHANGED <<close, parent, child>>
    BY <1>0, <1>1 DEF Call, Idle
  <1>2. CASE Send(c)
    <2>1. CASE life = "open" /\ call' = [call EXCEPT ![c].at = "answer", ![c].id = requestId'] /\ life' = life
      <3>1. \A b \in Callers : b # c => call'[b] = call[b]
        BY <1>0, <2>1
      <3>. QED  BY <1>2, <2>1, <3>1 DEF Send
    <2>2. CASE Returns(c, "raised") /\ (life' = life \/ Closing)
      <3>1. call'[c].at = "idle" /\ \A b \in Callers : b # c => call'[b] = call[b]
        BY <2>2, ReturnsType
      <3>. QED  BY <1>2, <2>2, <3>1 DEF Send
    <2>. QED  BY <1>2, <2>1, <2>2 DEF Send
  <1>3. CASE NoLock(c) \/ Receive(c) \/ Unanswered(c)
    <2>1. \E result : Returns(c, result)
      BY <1>3 DEF NoLock, Receive, Unanswered
    <2>2. call'[c].at = "idle" /\ \A b \in Callers : b # c => call'[b] = call[b]
      BY <2>1, ReturnsType
    <2>3. call[c].at # "idle" /\ (life' = life \/ Closing)
          /\ UNCHANGED <<close, made, shutdown, listener, channel, process, child>>
      BY <1>3 DEF NoLock, Receive, Unanswered
    <2>. QED  BY <2>2, <2>3
  <1>. QED  BY <1>1, <1>2, <1>3 DEF CallerStep, parent

LEMMA LifeStep ==
    ASSUME Types, LockInv, LifeInv, Next
    PROVE  LifeInv'
  <1>0. LifeInv /\ ClosedIsProven /\ LifeType /\ ThreadType /\ LockType
    BY DEF Types, LifeInv
  <1>1. CASE Spawn \/ Accept
    BY <1>0, <1>1 DEF Spawn, Accept, LifeInv, ClosedIsProven, LifeType
  <1>2. CASE Gone \/ Ending
    BY <1>0, <1>2 DEF Gone, Ending, Dies, parent, LifeInv, ClosedIsProven
  <1>3. CASE Handle
    <2>1. UNCHANGED <<parent, call, close>> /\ child = "up" /\ process
      BY <1>0, <1>3 DEF Handle, LifeInv, LifeType
    <2>. QED  BY <1>0, <2>1 DEF parent, LifeInv, ClosedIsProven
  <1>4. CASE \E k \in Choices, asked \in BOOLEAN : Tick(k, asked)
    BY <1>0, <1>4 DEF Tick, parent, LifeInv, ClosedIsProven
  <1>5. CASE TogglePause
    <2>1. \A c \in Callers : call'[c].at = call[c].at
      BY <1>0, <1>5 DEF TogglePause, NoteClear, ThreadType, Calls
    <2>. QED  BY <1>0, <1>5, <2>1 DEF TogglePause, parent, LifeInv, ClosedIsProven
  <1>6. ASSUME NEW c \in Callers, CallerStep(c) \/ \E command \in Commands : Call(c, command)
        PROVE  LifeInv'
    <2>1. /\ \A b \in Callers : b # c => call'[b] = call[b]
          /\ call[c].at = "idle" => made
          /\ call'[c].at = "answer" => life = "open"
          /\ UNCHANGED <<close, made, shutdown, listener, channel, process, child>>
          /\ life' = life \/ Closing
      BY <1>6, CallerMoves
    <2>2. made
      BY <1>0, <2>1 DEF LifeInv
    <2>3. \A b \in Callers : call'[b].at = "answer" => channel = "open" \/ call[b].at = "answer"
      BY <1>0, <2>1 DEF LifeInv
    <2>. QED  BY <1>0, <2>1, <2>2, <2>3 DEF Closing, LifeInv, ClosedIsProven
  <1>7. ASSUME NEW d \in Closers, CloserStep(d) \/ Close(d) \/ StartFails(d)
        PROVE  LifeInv'
    <2>0. CloserMoves(d) /\ call' = call /\ d # Nobody
      BY <1>7, CloserStepMoves
    <2>1. \A b \in Closers : close'[b].result = "closed" => life' = "closed"
      <3>1. CASE life = "closed"
        <4>1. life' = "closed"
          BY <1>0, <1>7, <3>1 DEF LifeInv, LockInv, Owning, LockType, CloserStep, Begin, TooLate, AskChild, ChildAnswers, Reap, LockAgain,
             Finish, Close, StartFails, Closing, parent
        <4>. QED  BY <4>1
      <3>2. CASE life # "closed"
        <4>1. \A b \in Closers : b # d => close'[b] = close[b]
          BY <2>0 DEF CloserMoves, Becomes
        <4>2. \A b \in Closers : close[b].result # "closed"
          BY <1>0, <3>2 DEF ClosedIsProven
        <4>3. close'[d].result = "closed" => life' = "closed"
          <5>1. ASSUME NEW at, close' = [close EXCEPT ![d].at = at] \/ close' = [close EXCEPT ![d].at = at, ![d].held = TRUE]
                PROVE  close'[d].result # "closed"
            BY <1>0, <4>2, <5>1, MovesOn, MovesOnLocked DEF Becomes
          <5>2. close' = [close EXCEPT ![d].held = TRUE] => close'[d].result # "closed"
            BY <1>0, <4>2 DEF ThreadType, Shutdowns
          <5>3. close' = [close EXCEPT ![d] = Resting] \/ close' = [close EXCEPT ![d] = [Resting EXCEPT !.result = "none"]]
                => close'[d].result # "closed"
            BY <1>0 DEF ThreadType, Resting
          <5>. QED  BY <1>7, <3>2, <5>1, <5>2, <5>3 DEF CloserStep, Begin, TooLate, AskChild, ChildAnswers, Reap, LockAgain,
                       Finish, Ends, Close, StartFails
        <4>. QED  BY <4>1, <4>2, <4>3
      <3>. QED  BY <3>1, <3>2
    <2>2. close[d].at \in Owning => shutdown = d /\ life = "closing"
      BY <1>0, <2>0 DEF LockInv, LifeInv
    <2>3. shutdown' # Nobody => life' = "closing"
      BY <1>0, <1>7, <2>0, <2>2 DEF LifeInv, LockType, Owning, CloserStep, Begin, TooLate, AskChild, ChildAnswers, Reap, LockAgain,
         Finish, Ends, Close, StartFails, Closing, Resting, parent
    <2>4. /\ life' = "open" => channel' = "open"
          /\ made' => life' # "starting"
          /\ UNCHANGED made
      <3>1. UNCHANGED made /\ life' \in {life, "closing", "closed"}
        BY <1>7 DEF CloserStep, Begin, TooLate, AskChild, ChildAnswers, Reap, LockAgain, Finish, Close, StartFails,
           Closing, parent
      <3>2. life' = "open" => life = "open" /\ channel' = channel
        BY <1>7, <2>2, <3>1 DEF Owning, CloserStep, Begin, TooLate, AskChild, ChildAnswers, Reap, LockAgain, Finish,
           Close, StartFails, parent
      <3>. QED  BY <1>0, <3>1, <3>2 DEF LifeInv
    <2>5. ~process' => child' \in {"none", "dead"}
      BY <1>0, <1>7 DEF LifeInv, CloserStep, Begin, TooLate, AskChild, ChildAnswers, Reap, Dies, LockAgain,
         Finish, Close, StartFails, parent
    <2>6. life' = "closed" => child' \in {"none", "dead"} /\ ~process' /\ channel' = "none" /\ ~listener'
      <3>1. CASE Finish(d)
        BY <1>0, <2>2, <3>1 DEF Finish, LifeInv, Owning
      <3>2. CASE Begin(d)
        BY <1>0, <3>2 DEF Begin, ClosedIsProven
      <3>3. CASE AskChild(d) \/ ChildAnswers(d) \/ Reap(d) \/ LockAgain(d)
        <4>1. life' = life /\ close[d].at \in Owning
          BY <3>3 DEF AskChild, ChildAnswers, Reap, LockAgain, Owning, parent
        <4>. QED  BY <2>2, <4>1
      <3>4. CASE TooLate(d) \/ Close(d) \/ StartFails(d)
        BY <1>0, <3>4 DEF TooLate, Close, StartFails, Closing, ClosedIsProven, parent
      <3>. QED  BY <1>7, <3>1, <3>2, <3>3, <3>4 DEF CloserStep
    <2>7. channel' = "none" => \A c \in Callers : call'[c].at # "answer"
      <3>1. CASE channel = "none"
        BY <1>0, <2>0, <3>1 DEF ClosedIsProven
      <3>2. CASE channel # "none" /\ channel' = "none"
        <4>1. close[d].held
          BY <1>7, <3>2 DEF MayCloseChannel, CloserStep, Begin, TooLate, AskChild, ChildAnswers, Reap, LockAgain,
             Finish, Close, StartFails, parent
        <4>2. rpc = d
          BY <4>1 DEF LockInv
        <4>. QED  BY <2>0, <4>2 DEF LockInv
      <3>. QED  BY <3>1, <3>2
    <2>. QED  BY <1>0, <2>0, <2>1, <2>3, <2>4, <2>5, <2>6, <2>7 DEF LifeInv, ClosedIsProven
  <1>. QED  BY <1>1, <1>2, <1>3, <1>4, <1>5, <1>6, <1>7 DEF Next

-----------------------------------------------------------------------------
(* The stream.                                                             *)

(* While the panel starts or is open, no closer touches it.                *)
LEMMA ClosersKeepOff ==
    ASSUME Types, LockInv, LifeInv, NEW d \in Closers, CloserStep(d) \/ Close(d) \/ StartFails(d),
           life' \in {"starting", "open"}
    PROVE  UNCHANGED <<life, rpc, up, down>>
  <1>1. close[d].at \in Owning => life = "closing"
    BY DEF LockInv, LifeInv
  <1>2. CASE AskChild(d) \/ ChildAnswers(d) \/ Reap(d) \/ LockAgain(d) \/ Finish(d)
    <2>1. close[d].at \in Owning /\ life' \in {life, "closed"}
      BY <1>2 DEF AskChild, ChildAnswers, Reap, LockAgain, Finish, Owning, parent
    <2>. QED  BY <1>1, <2>1
  <1>3. CASE Begin(d) \/ TooLate(d)
    BY <1>3 DEF Begin, TooLate, parent
  <1>4. CASE Close(d) \/ StartFails(d)
    BY <1>4 DEF Close, StartFails, Closing
  <1>. QED  BY <1>2, <1>3, <1>4 DEF CloserStep

LEMMA StreamStep ==
    ASSUME Types, LockInv, LifeInv, StreamInv, Next
    PROVE  StreamInv'
  <1>0. StreamInv /\ StreamType /\ StreamType' /\ LifeType /\ LockType
    BY StreamTypeStep DEF Types
  <1>1. up \in Seq(Requests) /\ down \in Seq(Answers) /\ Len(up) \in Nat /\ Len(down) \in Nat
        /\ up' \in Seq(Requests) /\ down' \in Seq(Answers) /\ Len(up') \in Nat /\ Len(down') \in Nat
    BY <1>0 DEF StreamType
  <1>2. CASE Spawn \/ Accept \/ TogglePause \/ \E k \in Choices, asked \in BOOLEAN : Tick(k, asked)
    <2>1. /\ UNCHANGED <<up, down, rpc>>
          /\ life' = life \/ (life = "starting" /\ life' = "open")
      BY <1>2 DEF Spawn, Accept, TogglePause, Tick, parent
    <2>. QED  BY <1>0, <1>1, <2>1 DEF StreamInv
  <1>3. CASE Gone \/ Ending
    <2>1. up' = <<>> /\ down' = down /\ UNCHANGED <<rpc, life>>
      BY <1>3 DEF Gone, Ending, Dies, parent
    <2>2. Len(up') = 0
      BY <2>1
    <2>. QED  BY <1>0, <1>1, <2>1, <2>2 DEF StreamInv
  <1>4. CASE Handle
    <2>1. up # <<>> /\ up' = Tail(up) /\ (\E value : Respond(Head(up), value)) /\ UNCHANGED <<rpc, life>>
      BY <1>4 DEF Handle, parent
    <2>2. Len(up) > 0 /\ Len(up') = Len(up) - 1
      BY <1>1, <2>1
    <2>3. Len(down') = Len(down) + 1
      BY <1>1, <2>1 DEF Respond
    <2>. QED  BY <1>0, <1>1, <2>1, <2>2, <2>3 DEF StreamInv
  <1>5. ASSUME NEW c \in Callers, CallerStep(c) \/ \E command \in Commands : Call(c, command)
        PROVE  StreamInv'
    <2>1. CASE Closing /\ life # "closed"
      BY <2>1 DEF Closing, StreamInv
    <2>2. CASE UNCHANGED <<life, rpc, up, down>>
      BY <1>0, <2>2 DEF StreamInv
    <2>3. CASE /\ life = "open" /\ life' = life /\ rpc = Nobody /\ rpc' = c /\ down' = down
               /\ \E m : up' = Append(up, m) \/ up' = up
      <3>1. Len(up') <= Len(up) + 1
        BY <1>1, <2>3
      <3>2. c # Nobody
        OBVIOUS
      <3>. QED  BY <1>0, <1>1, <2>3, <3>1, <3>2 DEF StreamInv
    <2>4. CASE /\ call[c].at = "answer" /\ down # <<>> /\ down' = Tail(down) /\ up' = up
               /\ life' = life /\ rpc' = Nobody
      <3>1. rpc = c /\ c # Nobody
        BY <2>4 DEF LockInv
      <3>2. Len(down) > 0 /\ Len(down') = Len(down) - 1
        BY <1>1, <2>4
      <3>. QED  BY <1>0, <1>1, <2>4, <3>1, <3>2 DEF StreamInv
    <2>5. CASE life = "closed" /\ life' = life
      BY <2>5 DEF StreamInv
    <2>6. CASE Send(c)
      BY <2>1, <2>2, <2>3, <2>5, <2>6 DEF Send, Closing
    <2>7. CASE NoLock(c) \/ Unanswered(c)
      BY <2>1, <2>5, <2>7 DEF NoLock, Unanswered, Closing
    <2>8. CASE Receive(c)
      BY <2>1, <2>4, <2>5, <2>8 DEF Receive, Closing
    <2>9. CASE \E command \in Commands : Call(c, command)
      BY <2>2, <2>9 DEF Call, parent
    <2>. QED  BY <1>5, <2>6, <2>7, <2>8, <2>9 DEF CallerStep
  <1>6. ASSUME NEW d \in Closers, CloserStep(d) \/ Close(d) \/ StartFails(d)
        PROVE  StreamInv'
    <2>1. CASE life' \in {"starting", "open"}
      BY <1>0, <1>6, <2>1, ClosersKeepOff DEF StreamInv
    <2>2. CASE life' \notin {"starting", "open"}
      BY <2>2 DEF StreamInv
    <2>. QED  BY <2>1, <2>2
  <1>. QED  BY <1>2, <1>3, <1>4, <1>5, <1>6 DEF Next

-----------------------------------------------------------------------------
(* The choices.                                                            *)

LEMMA WishStep ==
    ASSUME Types, WishInv, Next
    PROVE  WishInv'
  <1>0. /\ WishInv /\ list \in Lists /\ observed \in 0 .. list.revision /\ list.revision \in Nat
        /\ wish \in [Choices -> {"none", "ticked", "cleared"}] /\ told \in SUBSET Choices
        /\ list.keys \in SUBSET Choices
    BY DEF Types, ListType, Lists
  <1>1. CASE UNCHANGED <<list, observed, wish, told>>
    BY <1>0, <1>1 DEF WishInv, UnseenChoiceKept, Keeps
  <1>2. ASSUME NEW k \in Choices, NEW asked \in BOOLEAN, Tick(k, asked),
               ~UNCHANGED <<list, wish, told>>
        PROVE  WishInv'
    <2>1. /\ k \in list.keys /\ observed' = observed
          /\ list' = [list EXCEPT !.revision = @ + 1, !.selected = IF asked THEN @ \cup {k} ELSE @ \ {k}]
          /\ wish' = [wish EXCEPT ![k] = IF asked THEN "ticked" ELSE "cleared"]
          /\ told' = told \ {k}
      BY <1>2 DEF Tick
    <2>. DEFINE n == list.revision + 1
                s == IF asked THEN list.selected \cup {k} ELSE list.selected \ {k}
    <2>2. list' = [list EXCEPT !.revision = n, !.selected = s]
      BY <2>1
    <2>3. list'.revision = n /\ list'.selected = s /\ list'.keys = list.keys
      <3>. HIDE DEF n, s
      <3>. QED  BY <1>0, <2>2 DEF Lists
    <2>4. list'.revision # 0 /\ list'.revision # observed'
      BY <1>0, <2>1, <2>3
    <2>5. \A j \in Choices : j # k => wish'[j] = wish[j] /\ (j \in list'.selected <=> j \in list.selected)
                                      /\ (j \in told' <=> j \in told)
      BY <1>0, <2>1, <2>3
    <2>6. (k \in list'.selected <=> asked) /\ wish'[k] = IF asked THEN "ticked" ELSE "cleared"
      BY <1>0, <2>1, <2>3
    <2>7. \A j \in Choices : wish'[j] # "none" => j \in list'.keys
      BY <1>0, <2>1, <2>3, <2>5 DEF WishInv
    <2>8. UnseenChoiceKept'
      <3>1. (k \in list'.selected) <=> (wish'[k] = "ticked")
        BY <2>6
      <3>2. \A j \in list.keys : j # k /\ wish'[j] # "none" /\ j \notin told' =>
                                ((j \in list'.selected) <=> (wish'[j] = "ticked"))
        BY <1>0, <2>5 DEF WishInv, UnseenChoiceKept, Keeps
      <3>. QED  BY <2>3, <3>1, <3>2 DEF UnseenChoiceKept, Keeps
    <2>. QED  BY <2>4, <2>7, <2>8 DEF WishInv
  <1>3. CASE /\ observed' = list.revision /\ wish' = [k \in Choices |-> "none"] /\ told' = {}
             /\ UNCHANGED <<paused, list>>
    BY <1>0, <1>3 DEF WishInv, UnseenChoiceKept
  <1>4. ASSUME NEW keys \in SUBSET Choices, NEW proposed \in SUBSET keys,
               LET selected == IF list.revision = 0 THEN proposed ELSE Replaced(keys, proposed)
                   kept == {k \in Choices : k \in selected <=> wish[k] = "ticked"}
               IN  /\ list' = [revision |-> list.revision + 1, keys |-> keys, selected |-> selected]
                   /\ wish' = [k \in Choices |-> IF k \in keys THEN wish[k] ELSE "none"]
                   /\ told' = {k \in keys : wish[k] # "none"} \cap (told \cup kept),
               observed' = list.revision + 1
        PROVE  WishInv'
    <2>. DEFINE selected == IF list.revision = 0 THEN proposed ELSE Replaced(keys, proposed)
                kept == {k \in Choices : k \in selected <=> wish[k] = "ticked"}
    <2>0. /\ list' = [revision |-> list.revision + 1, keys |-> keys, selected |-> selected]
          /\ wish' = [k \in Choices |-> IF k \in keys THEN wish[k] ELSE "none"]
          /\ told' = {k \in keys : wish[k] # "none"} \cap (told \cup kept)
          /\ observed' = list.revision + 1
          /\ list.revision # 0 => selected = Replaced(keys, proposed)
          /\ \A k \in Choices : (k \in selected <=> wish[k] = "ticked") => k \in kept
      BY <1>4
    <2>. HIDE DEF selected, kept
    <2>1. \A k \in Choices : wish'[k] # "none" => k \in keys /\ wish[k] # "none"
      BY <2>0
    <2>2. list'.revision = list.revision + 1 /\ list'.keys = keys
      BY <2>0
    <2>3. ASSUME NEW k \in Choices, wish'[k] # "none" PROVE k \in told'
      <3>1. k \in keys /\ wish[k] # "none" /\ k \in list.keys
        BY <1>0, <2>1, <2>3 DEF WishInv
      <3>2. CASE k \in told
        BY <2>0, <3>1, <3>2
      <3>3. CASE k \notin told
        <4>1. list.revision # observed /\ list.revision # 0
          BY <1>0, <3>1, <3>3 DEF WishInv
        <4>2. selected = (list.selected \cap keys) \cup (proposed \ list.keys)
          BY <2>0, <4>1 DEF Replaced
        <4>3. k \in selected <=> k \in list.selected
          BY <3>1, <4>2
        <4>4. (k \in list.selected) <=> (wish[k] = "ticked")
          BY <1>0, <3>1, <3>3 DEF WishInv, UnseenChoiceKept, Keeps
        <4>5. k \in kept
          BY <2>0, <4>3, <4>4
        <4>. QED  BY <2>0, <3>1, <4>5
      <3>. QED  BY <3>2, <3>3
    <2>4. UnseenChoiceKept'
      BY <2>2, <2>3 DEF UnseenChoiceKept
    <2>. QED  BY <1>0, <2>1, <2>2, <2>3, <2>4 DEF WishInv
  <1>5. CASE Handle
    <2>1. \/ UNCHANGED <<list, observed, wish, told>>
          \/ /\ observed' = list.revision /\ wish' = [k \in Choices |-> "none"] /\ told' = {}
             /\ UNCHANGED <<paused, list>>
          \/ /\ \E keys \in SUBSET Choices : \E proposed \in SUBSET keys :
                  LET selected == IF list.revision = 0 THEN proposed ELSE Replaced(keys, proposed)
                      kept == {k \in Choices : k \in selected <=> wish[k] = "ticked"}
                  IN  /\ list' = [revision |-> list.revision + 1, keys |-> keys, selected |-> selected]
                      /\ wish' = [k \in Choices |-> IF k \in keys THEN wish[k] ELSE "none"]
                      /\ told' = {k \in keys : wish[k] # "none"} \cap (told \cup kept)
             /\ observed' = list.revision + 1
      BY <1>5 DEF Handle, gui
    <2>. QED  BY <1>1, <1>3, <1>4, <2>1
  <1>6. ASSUME NEW k \in Choices, NEW asked \in BOOLEAN, Tick(k, asked) PROVE WishInv'
    BY <1>1, <1>2, <1>6 DEF Tick
  <1>7. CASE TogglePause
    BY <1>1, <1>7 DEF TogglePause
  <1>. QED  BY <1>1, <1>5, <1>6, <1>7, OnlyTheChildLists

-----------------------------------------------------------------------------
(* The pause.                                                              *)

NumbersUsed ==
    /\ \A i \in DOMAIN up : up[i].id <= requestId
    /\ \A i \in DOMAIN down : down[i].id <= requestId

(* The answer m lets the call r run.                                       *)
Runs(m, r) == m.id = r.id /\ m.command = "is_paused" /\ ~m.value

AnswersTrue ==
    /\ \A c \in Callers : ~paused /\ call[c].at # "idle" => call[c].clear
    /\ \A c \in Callers, i \in DOMAIN down : call[c].at = "answer" /\ Runs(down[i], call[c]) => call[c].clear
    /\ PauseHonoured

LEMMA PauseParts == PauseInv <=> NumbersUsed /\ AnswersTrue
  BY DEF PauseInv, NumbersUsed, AnswersTrue, Runs

LEMMA TailElements ==
    ASSUME NEW S, NEW q \in Seq(S), q # <<>>
    PROVE  \A i \in DOMAIN Tail(q) : i + 1 \in DOMAIN q /\ Tail(q)[i] = q[i + 1]
  OBVIOUS

LEMMA AppendElements ==
    ASSUME NEW S, NEW q \in Seq(S), NEW m \in S
    PROVE  \A i \in DOMAIN Append(q, m) :
             (i \in DOMAIN q /\ Append(q, m)[i] = q[i]) \/ Append(q, m)[i] = m
  OBVIOUS

(* How the streams may change: nothing is sent whose number was not used.  *)
LEMMA NumbersStep ==
    ASSUME Types, NumbersUsed, Next
    PROVE  NumbersUsed'
  <1>0. /\ requestId \in Nat /\ requestId' \in Nat /\ requestId' >= requestId
        /\ up \in Seq(Requests) /\ down \in Seq(Answers)
    BY StreamTypeStep DEF Types, StreamType
  <1>1. /\ \A i \in DOMAIN up : up[i] \in Requests /\ up[i].id \in Nat /\ up[i].id <= requestId
        /\ \A i \in DOMAIN down : down[i] \in Answers /\ down[i].id \in Nat /\ down[i].id <= requestId
    <2>1. (\A i \in DOMAIN up : up[i] \in Requests) /\ \A i \in DOMAIN down : down[i] \in Answers
      BY <1>0
    <2>2. (\A m \in Requests : m.id \in Nat) /\ \A m \in Answers : m.id \in Nat
      BY DEF Requests, Answers
    <2>. QED  BY <2>1, <2>2 DEF NumbersUsed
  <1>2. ASSUME up' \in {up, <<>>} \/ (up # <<>> /\ up' = Tail(up))
               \/ (requestId' = requestId + 1
                  /\ \E command \in Commands \cup {"destroy"} : up' = Append(up, [id |-> requestId', command |-> command]))
        PROVE  \A i \in DOMAIN up' : up'[i].id <= requestId'
    <2>1. CASE up' = up
      BY <1>0, <1>1, <2>1
    <2>2. CASE up' = <<>>
      BY <2>2
    <2>3. CASE up # <<>> /\ up' = Tail(up)
      <3>1. \A i \in DOMAIN up' : i + 1 \in DOMAIN up /\ up'[i] = up[i + 1]
        BY <1>0, <2>3, TailElements
      <3>. QED  BY <1>0, <1>1, <3>1
    <2>4. ASSUME NEW command \in Commands \cup {"destroy"}, requestId' = requestId + 1,
                 up' = Append(up, [id |-> requestId', command |-> command])
          PROVE  \A i \in DOMAIN up' : up'[i].id <= requestId'
      <3>1. [id |-> requestId', command |-> command] \in Requests
        BY <1>0 DEF Requests
      <3>2. \A i \in DOMAIN up' : (i \in DOMAIN up /\ up'[i] = up[i]) \/ up'[i] = [id |-> requestId', command |-> command]
        BY <1>0, <2>4, <3>1, AppendElements
      <3>3. requestId' <= requestId' /\ \A i \in DOMAIN up : up[i].id <= requestId'
        BY <1>0, <1>1
      <3>. QED  BY <3>2, <3>3
    <2>. QED  BY <1>2, <2>1, <2>2, <2>3, <2>4
  <1>3. ASSUME down' = down \/ (down # <<>> /\ down' = Tail(down))
               \/ (up # <<>> /\ \E value \in BOOLEAN : Respond(Head(up), value))
        PROVE  \A i \in DOMAIN down' : down'[i].id <= requestId'
    <2>1. CASE down' = down
      BY <1>0, <1>1, <2>1
    <2>2. CASE down # <<>> /\ down' = Tail(down)
      <3>1. \A i \in DOMAIN down' : i + 1 \in DOMAIN down /\ down'[i] = down[i + 1]
        BY <1>0, <2>2, TailElements
      <3>. QED  BY <1>0, <1>1, <3>1
    <2>3. ASSUME up # <<>>, NEW value \in BOOLEAN, Respond(Head(up), value)
          PROVE  \A i \in DOMAIN down' : down'[i].id <= requestId'
      <3>. DEFINE m == [id |-> Head(up).id, command |-> Head(up).command, value |-> value]
      <3>1. 1 \in DOMAIN up /\ Head(up) = up[1]
        BY <1>0, <2>3
      <3>2. m \in Answers /\ m.id \in Nat /\ m.id <= requestId'
        BY <1>0, <1>1, <3>1 DEF Requests, Answers
      <3>3. down' = Append(down, m)
        BY <2>3 DEF Respond
      <3>. HIDE DEF m
      <3>4. \A i \in DOMAIN down' : (i \in DOMAIN down /\ down'[i] = down[i]) \/ down'[i] = m
        BY <1>0, <3>2, <3>3, AppendElements
      <3>5. \A i \in DOMAIN down : down[i].id <= requestId'
        BY <1>0, <1>1
      <3>. QED  BY <3>2, <3>4, <3>5
    <2>. QED  BY <1>3, <2>1, <2>2, <2>3
  <1>4. up' \in {up, <<>>} \/ (up # <<>> /\ up' = Tail(up))
        \/ (requestId' = requestId + 1
           /\ \E command \in Commands \cup {"destroy"} : up' = Append(up, [id |-> requestId', command |-> command]))
    <2>1. ASSUME NEW c \in Callers, Send(c) PROVE up' = up \/ (requestId' = requestId + 1
           /\ \E command \in Commands \cup {"destroy"} : up' = Append(up, [id |-> requestId', command |-> command]))
      <3>1. call[c].command \in Commands
        BY DEF Types, ThreadType, Calls
      <3>. QED  BY <2>1, <3>1 DEF Send
    <2>2. ASSUME NEW c \in Callers, NoLock(c) \/ Receive(c) \/ Unanswered(c) \/ \E command \in Commands : Call(c, command)
          PROVE  up' = up
      BY <2>2 DEF NoLock, Receive, Unanswered, Call
    <2>3. ASSUME NEW d \in Closers, AskChild(d) PROVE up' = up \/ (requestId' = requestId + 1
           /\ \E command \in Commands \cup {"destroy"} : up' = Append(up, [id |-> requestId', command |-> command]))
      BY <2>3 DEF AskChild
    <2>4. ASSUME NEW d \in Closers, Begin(d) \/ TooLate(d) \/ ChildAnswers(d) \/ Reap(d) \/ LockAgain(d) \/ Finish(d)
                                   \/ Close(d) \/ StartFails(d)
          PROVE  up' \in {up, <<>>}
      BY <2>4 DEF Begin, TooLate, ChildAnswers, Reap, Dies, LockAgain, Finish, Close, StartFails
    <2>5. CASE Spawn \/ Accept \/ Gone \/ Ending \/ TogglePause \/ \E k \in Choices, asked \in BOOLEAN : Tick(k, asked)
      BY <2>5 DEF Spawn, Accept, Gone, Ending, Dies, TogglePause, Tick
    <2>6. CASE Handle
      BY <2>6 DEF Handle
    <2>. QED  BY <2>1, <2>2, <2>3, <2>4, <2>5, <2>6, Zenon DEF Next, CallerStep, CloserStep
  <1>5. down' = down \/ (down # <<>> /\ down' = Tail(down))
        \/ (up # <<>> /\ \E value \in BOOLEAN : Respond(Head(up), value))
    <2>1. ASSUME NEW c \in Callers, CallerStep(c) \/ \E command \in Commands : Call(c, command)
          PROVE  down' = down \/ (down # <<>> /\ down' = Tail(down))
      BY <2>1, Zenon DEF CallerStep, Send, NoLock, Receive, Unanswered, Call
    <2>2. ASSUME NEW d \in Closers, CloserStep(d) \/ Close(d) \/ StartFails(d)
          PROVE  down' = down \/ (down # <<>> /\ down' = Tail(down))
      <3>1. CASE ChildAnswers(d)
        BY <3>1 DEF ChildAnswers
      <3>. QED  BY <2>2, <3>1 DEF CloserStep, Begin, TooLate, AskChild, Reap, LockAgain, Finish, Close, StartFails
    <2>3. CASE Spawn \/ Accept \/ Gone \/ Ending \/ TogglePause \/ \E k \in Choices, asked \in BOOLEAN : Tick(k, asked)
      BY <2>3 DEF Spawn, Accept, Gone, Ending, TogglePause, Tick
    <2>4. CASE Handle
      BY <2>4 DEF Handle, Types, ListType
    <2>. QED  BY <2>1, <2>2, <2>3, <2>4, Zenon DEF Next
  <1>. QED  BY <1>2, <1>3, <1>4, <1>5 DEF NumbersUsed

(* Every answer underway was underway before.                              *)
NoNewAnswer == \A i \in DOMAIN down' : \E j \in DOMAIN down : down'[i] = down[j]

LEMMA AnswersStep ==
    ASSUME Types, LockInv, NumbersUsed, AnswersTrue, Next
    PROVE  AnswersTrue'
  <1>0. /\ requestId \in Nat /\ up \in Seq(Requests) /\ down \in Seq(Answers)
        /\ call \in [Callers -> Calls] /\ paused \in BOOLEAN
        /\ \A c \in Callers : call[c] \in Calls /\ call[c].clear \in BOOLEAN /\ call[c].id \in Nat
    BY DEF Types, StreamType, ThreadType, ListType, Calls
  <1>1. AnswersTrue /\ PauseHonoured
    BY DEF AnswersTrue
  <1>2. (down' = down \/ (down # <<>> /\ down' = Tail(down))) => NoNewAnswer
    <2>1. CASE down' = down
      BY <2>1 DEF NoNewAnswer
    <2>2. CASE down # <<>> /\ down' = Tail(down)
      BY <1>0, <2>2, TailElements DEF NoNewAnswer
    <2>. QED  BY <2>1, <2>2
  <1>3. ASSUME call' = call, paused' \in {paused, TRUE}, NoNewAnswer
        PROVE  AnswersTrue'
    <2>0. ~paused' => ~paused
      BY <1>3, Zenon
    <2>1. \A c \in Callers : ~paused' /\ call'[c].at # "idle" => call'[c].clear
      BY <1>1, <1>3, <2>0, Zenon DEF AnswersTrue
    <2>2. \A c \in Callers, i \in DOMAIN down' : call'[c].at = "answer" /\ Runs(down'[i], call'[c]) => call'[c].clear
      <3>1. \A c \in Callers, j \in DOMAIN down : call[c].at = "answer" /\ Runs(down[j], call[c]) => call[c].clear
        BY <1>1 DEF AnswersTrue
      <3>2. \A i \in DOMAIN down' : \E j \in DOMAIN down : down'[i] = down[j]
        BY <1>3 DEF NoNewAnswer
      <3>. QED  BY <1>3, <3>1, <3>2
    <2>3. PauseHonoured'
      BY <1>1, <1>3 DEF PauseHonoured
    <2>. QED  BY <2>1, <2>2, <2>3 DEF AnswersTrue
  <1>4. CASE TogglePause
    <2>1. \A c \in Callers : /\ call'[c].at = call[c].at /\ call'[c].id = call[c].id /\ call'[c].result = call[c].result
                             /\ call[c].clear => call'[c].clear
                             /\ ~paused' /\ call[c].at # "idle" => call'[c].clear
      <3>1. call' = [c \in Callers |-> [call[c] EXCEPT !.clear = call[c].clear \/ (~paused' /\ call[c].at # "idle")]]
        BY <1>4 DEF TogglePause, NoteClear
      <3>2. \A r \in Calls : \A b : [r EXCEPT !.clear = b].at = r.at /\ [r EXCEPT !.clear = b].id = r.id
                              /\ [r EXCEPT !.clear = b].result = r.result /\ [r EXCEPT !.clear = b].clear = b
        BY DEF Calls
      <3>3. \A c \in Callers : call'[c] = [call[c] EXCEPT !.clear = call[c].clear \/ (~paused' /\ call[c].at # "idle")]
        BY <3>1
      <3>4. ASSUME NEW c \in Callers
            PROVE  /\ call'[c].at = call[c].at /\ call'[c].id = call[c].id /\ call'[c].result = call[c].result
                   /\ call[c].clear => call'[c].clear
                   /\ ~paused' /\ call[c].at # "idle" => call'[c].clear
        <4>. DEFINE b == call[c].clear \/ (~paused' /\ call[c].at # "idle")
        <4>1. call'[c] = [call[c] EXCEPT !.clear = b] /\ call[c] \in Calls
          BY <1>0, <3>3
        <4>2. /\ call'[c].at = call[c].at /\ call'[c].id = call[c].id /\ call'[c].result = call[c].result
              /\ call'[c].clear = b
          <5>. HIDE DEF b
          <5>. QED  BY <3>2, <4>1
        <4>3. (call[c].clear => b) /\ (~paused' /\ call[c].at # "idle" => b)
          BY Zenon
        <4>. HIDE DEF b
        <4>. QED  BY <4>2, <4>3, Zenon
      <3>. QED  BY <3>4
    <2>2. down' = down
      BY <1>4 DEF TogglePause
    <2>3. \A c \in Callers : ~paused' /\ call'[c].at # "idle" => call'[c].clear
      BY <2>1, Zenon
    <2>4. \A c \in Callers, i \in DOMAIN down' : call'[c].at = "answer" /\ Runs(down'[i], call'[c]) => call'[c].clear
      BY <1>1, <2>1, <2>2, Zenon DEF AnswersTrue, Runs
    <2>5. PauseHonoured'
      BY <1>1, <2>1, Zenon DEF PauseHonoured
    <2>. QED  BY <2>3, <2>4, <2>5 DEF AnswersTrue
  <1>5. ASSUME NEW c \in Callers, NEW command \in Commands, Call(c, command) PROVE AnswersTrue'
    <2>1. call'[c].at = "lock" /\ call'[c].clear = ~paused /\ call'[c].result = "none"
          /\ \A b \in Callers : b # c => call'[b] = call[b]
      BY <1>0, <1>5 DEF Call, Idle
    <2>2. down' = down /\ paused' = paused
      BY <1>5 DEF Call, gui
    <2>. QED  BY <1>0, <1>1, <2>1, <2>2 DEF AnswersTrue, PauseHonoured, Runs
  <1>6. ASSUME NEW c \in Callers, NEW result, Returns(c, result), call[c].at # "idle",
               result = "running" => call[c].clear, paused' = paused, NoNewAnswer
        PROVE  AnswersTrue'
    <2>1. /\ call'[c].at = "idle" /\ \A b \in Callers : b # c => call'[b] = call[b]
          /\ call'[c].result = "running" => result = "running" /\ call'[c].clear = call[c].clear
      BY <1>6, ReturnsType
    <2>. QED  BY <1>1, <1>6, <2>1 DEF AnswersTrue, PauseHonoured, NoNewAnswer, Runs
  <1>7. ASSUME NEW c \in Callers, Send(c) PROVE AnswersTrue'
    <2>0. down' = down /\ paused' = paused /\ call[c].at = "lock"
      BY <1>7 DEF Send, gui
    <2>1. CASE call' = [call EXCEPT ![c].at = "answer", ![c].id = requestId'] /\ requestId' = requestId + 1
      <3>1. /\ call'[c].at = "answer" /\ call'[c].id = requestId + 1 /\ call'[c].clear = call[c].clear
            /\ call'[c].result = call[c].result /\ \A b \in Callers : b # c => call'[b] = call[b]
        BY <1>0, <2>1 DEF Calls
      <3>2. \A i \in DOMAIN down : down[i].id # requestId + 1
        <4>1. \A i \in DOMAIN down : down[i].id <= requestId /\ down[i].id \in Nat
          <5>1. \A i \in DOMAIN down : down[i] \in Answers
            BY <1>0
          <5>2. \A m \in Answers : m.id \in Nat
            BY DEF Answers
          <5>. QED  BY <5>1, <5>2 DEF NumbersUsed
        <4>. QED  BY <1>0, <4>1
      <3>. QED  BY <1>1, <2>0, <3>1, <3>2 DEF AnswersTrue, PauseHonoured, Runs
    <2>2. CASE Returns(c, "raised")
      BY <1>2, <1>6, <2>0, <2>2
    <2>. QED  BY <1>7, <2>1, <2>2 DEF Send
  <1>8. ASSUME NEW c \in Callers, NoLock(c) \/ Unanswered(c) PROVE AnswersTrue'
    <2>1. Returns(c, "raised") /\ call[c].at # "idle" /\ down' = down /\ paused' = paused
      BY <1>8 DEF NoLock, Unanswered, gui
    <2>. QED  BY <1>2, <1>6, <2>1
  <1>9. ASSUME NEW c \in Callers, Receive(c) PROVE AnswersTrue'
    <2>0. down # <<>> /\ down' = Tail(down) /\ paused' = paused /\ call[c].at = "answer"
      BY <1>9 DEF Receive, gui
    <2>1. CASE Returns(c, "raised")
      BY <1>2, <1>6, <2>0, <2>1
    <2>. DEFINE m == Head(down)
                result == IF m.command = "is_paused" /\ ~m.value THEN "running" ELSE "answered"
    <2>2. CASE m.id = call[c].id /\ Returns(c, result)
      <3>1. 1 \in DOMAIN down /\ down[1] = Head(down)
        BY <1>0, <2>0
      <3>2. result = "running" => call[c].clear
        BY <1>1, <2>0, <2>2, <3>1 DEF AnswersTrue, Runs
      <3>. HIDE DEF m, result
      <3>. QED  BY <1>2, <1>6, <2>0, <2>2, <3>2
    <2>. QED  BY <1>9, <2>1, <2>2 DEF Receive
  <1>10. ASSUME NEW d \in Closers, CloserStep(d) \/ Close(d) \/ StartFails(d) PROVE AnswersTrue'
    <2>1. call' = call
      BY <1>10, CloserStepMoves
    <2>2. down' = down \/ (down # <<>> /\ down' = Tail(down))
      <3>1. CASE ChildAnswers(d)
        BY <3>1 DEF ChildAnswers
      <3>. QED  BY <1>10, <3>1 DEF CloserStep, Begin, TooLate, AskChild, Reap, LockAgain, Finish, Close, StartFails
    <2>3. paused' \in {paused, TRUE}
      BY <1>10 DEF CloserStep, Begin, TooLate, AskChild, ChildAnswers, Reap, Dies, LockAgain, Finish, Close, StartFails, gui
    <2>. QED  BY <1>2, <1>3, <2>1, <2>2, <2>3
  <1>11. CASE Spawn \/ Accept \/ Gone \/ Ending \/ \E k \in Choices, asked \in BOOLEAN : Tick(k, asked)
    <2>1. call' = call /\ down' = down /\ paused' \in {paused, TRUE}
      BY <1>11 DEF Spawn, Accept, Gone, Ending, Dies, Tick, gui
    <2>. QED  BY <1>2, <1>3, <2>1
  <1>12. CASE Handle
    <2>1. /\ call' = call /\ up # <<>> /\ Head(up) \in Requests
          /\ \E value \in BOOLEAN : /\ Respond(Head(up), value)
                                    /\ Head(up).command = "is_paused" => value = paused
          /\ paused' \in {paused, TRUE}
      <3>1. up # <<>> /\ call' = call
        BY <1>12 DEF Handle
      <3>2. paused' \in {paused, TRUE}
        BY <1>12 DEF Handle, gui
      <3>3. \E value \in BOOLEAN : /\ Respond(Head(up), value)
                                   /\ Head(up).command = "is_paused" => value = paused
        <4>1. \/ Head(up).command = "is_paused" /\ Respond(Head(up), paused)
              \/ Head(up).command # "is_paused" /\ Respond(Head(up), FALSE)
          BY <1>12 DEF Handle
        <4>. QED  BY <1>0, <4>1
      <3>4. Head(up) \in Requests
        BY <1>0, <3>1
      <3>. QED  BY <3>1, <3>2, <3>3, <3>4
    <2>2. PICK value \in BOOLEAN : Respond(Head(up), value) /\ (Head(up).command = "is_paused" => value = paused)
      BY <2>1
    <2>. DEFINE m == [id |-> Head(up).id, command |-> Head(up).command, value |-> value]
    <2>3. m \in Answers /\ m.command = Head(up).command /\ m.value = value
      BY <2>1 DEF Requests, Answers
    <2>4. down' = Append(down, m)
      BY <2>2 DEF Respond
    <2>5. \A c \in Callers : call[c].at = "answer" /\ Runs(m, call[c]) => call[c].clear
      <3>. SUFFICES ASSUME NEW c \in Callers, call[c].at = "answer", Runs(m, call[c]) PROVE call[c].clear
        OBVIOUS
      <3>1. m.command = "is_paused" /\ ~m.value
        BY DEF Runs
      <3>2. ~paused
        BY <2>2, <2>3, <3>1
      <3>. QED  BY <1>1, <3>2 DEF AnswersTrue
    <2>. HIDE DEF m
    <2>6. \A i \in DOMAIN down' : (i \in DOMAIN down /\ down'[i] = down[i]) \/ down'[i] = m
      BY <1>0, <2>3, <2>4, AppendElements
    <2>7. \A c \in Callers, i \in DOMAIN down' : call'[c].at = "answer" /\ Runs(down'[i], call'[c]) => call'[c].clear
      <3>2. \A c \in Callers, i \in DOMAIN down : call[c].at = "answer" /\ Runs(down[i], call[c]) => call[c].clear
        BY <1>1 DEF AnswersTrue
      <3>3. ASSUME NEW c \in Callers, NEW i \in DOMAIN down', call'[c].at = "answer", Runs(down'[i], call'[c])
            PROVE  call'[c].clear
        <4>1. call[c].at = "answer" /\ Runs(down'[i], call[c]) /\ call'[c] = call[c]
          BY <2>1, <3>3
        <4>2. CASE i \in DOMAIN down /\ down'[i] = down[i]
          BY <3>2, <4>1, <4>2
        <4>3. CASE down'[i] = m
          BY <2>5, <4>1, <4>3
        <4>. QED  BY <2>6, <4>2, <4>3
      <3>. QED  BY <3>3
    <2>8. \A c \in Callers : ~paused' /\ call'[c].at # "idle" => call'[c].clear
      <3>1. ~paused' => ~paused
        BY <2>1, Zenon
      <3>. QED  BY <1>1, <2>1, <3>1, Zenon DEF AnswersTrue
    <2>9. PauseHonoured'
      BY <1>1, <2>1 DEF PauseHonoured
    <2>. QED  BY <2>7, <2>8, <2>9 DEF AnswersTrue
  <1>. QED  BY <1>4, <1>5, <1>7, <1>8, <1>9, <1>10, <1>11, <1>12 DEF Next, CallerStep

-----------------------------------------------------------------------------
(* The invariant and its theorems.                                         *)

LEMMA InitPanel == Init => PanelInv
  <1>. SUFFICES ASSUME Init PROVE PanelInv
    OBVIOUS
  <1>1. /\ Idle.at = "idle" /\ Idle.result = "none" /\ Resting.at = "idle" /\ ~Resting.held /\ Resting.result = "none"
        /\ Nobody \notin Callers \cup Closers
    BY DEF Idle, Resting
  <1>2. /\ \A c \in Callers : call[c] = Idle
        /\ \A d \in Closers : close[d] = Resting
    BY DEF Init
  <1>3. Types
    <2>1. ThreadType
      BY RecordFacts DEF Init, ThreadType
    <2>2. ListType
      <3>1. list = [revision |-> 0, keys |-> {}, selected |-> {}] /\ observed = 0
        BY DEF Init
      <3>2. list \in Lists /\ list.selected \subseteq list.keys /\ observed \in 0 .. list.revision
        BY <3>1 DEF Lists
      <3>3. wish \in [Choices -> {"none", "ticked", "cleared"}] /\ told \in SUBSET Choices /\ paused \in BOOLEAN
        BY DEF Init
      <3>. QED  BY <3>2, <3>3 DEF ListType
    <2>3. StreamType
      BY DEF Init, StreamType
    <2>. QED  BY <2>1, <2>2, <2>3 DEF Init, Types, LifeType, LockType
  <1>4. LockInv
    BY <1>1, <1>2 DEF Init, LockInv, Owning
  <1>5. LifeInv
    BY <1>1, <1>2 DEF Init, LifeInv, ClosedIsProven
  <1>6. StreamInv
    BY DEF Init, StreamInv
  <1>7. PauseInv
    <2>1. NumbersUsed /\ AnswersTrue
      BY <1>1, <1>2 DEF Init, NumbersUsed, AnswersTrue, PauseHonoured
    <2>. QED  BY <2>1, PauseParts
  <1>8. WishInv
    BY DEF Init, WishInv, UnseenChoiceKept
  <1>. QED  BY <1>3, <1>4, <1>5, <1>6, <1>7, <1>8 DEF PanelInv

LEMMA StutterPanel == PanelInv /\ UNCHANGED vars => PanelInv'
  BY DEF PanelInv, vars, parent, gui, Types, LifeType, LockType, ThreadType, StreamType, ListType, LockInv, LifeInv,
     ClosedIsProven, StreamInv, PauseInv, PauseHonoured, WishInv, UnseenChoiceKept, Keeps

LEMMA InductivePanel == PanelInv /\ [Next]_vars => PanelInv'
  <1>1. ASSUME PanelInv, Next PROVE PanelInv'
    <2>0. Types /\ LockInv /\ LifeInv /\ StreamInv /\ WishInv /\ NumbersUsed /\ AnswersTrue
      BY <1>1, PauseParts DEF PanelInv
    <2>1. Types' /\ LockInv' /\ LifeInv'
      BY <1>1, <2>0, TypesStep, LockStep, LifeStep
    <2>2. StreamInv' /\ WishInv'
      BY <1>1, <2>0, StreamStep, WishStep
    <2>3. NumbersUsed' /\ AnswersTrue'
      BY <1>1, <2>0, NumbersStep, AnswersStep
    <2>4. PauseInv'
      BY <2>3 DEF PauseInv, NumbersUsed, AnswersTrue, Runs
    <2>. QED  BY <2>1, <2>2, <2>4 DEF PanelInv
  <1>. QED  BY <1>1, StutterPanel

LEMMA PanelInvariant == Spec => []PanelInv
  BY InitPanel, InductivePanel, PTL DEF Spec

(* Every variable of the panel has its type, and a lock belongs to the     *)
(* thread that waits under it.                                             *)
THEOREM PanelTypeCorrect == Spec => []TypeOK
  <1>1. PanelInv => TypeOK
    BY DEF PanelInv, Types, LifeType, LockType, ThreadType, ListType, LockInv, Lists, Calls, Shutdowns, TypeOK
  <1>. QED  BY <1>1, PanelInvariant, PTL

(* A panel that says it is closed has no child, no socket and no call left *)
(* behind, whatever failed on the way (_shutdown_owned).                   *)
THEOREM ClosedLeavesNothing == Spec => []ClosedIsProven
  <1>1. PanelInv => ClosedIsProven
    BY DEF PanelInv, LifeInv
  <1>. QED  BY <1>1, PanelInvariant, PTL

(* The next answer an open panel reads is the answer to its next request:  *)
(* a late one finds the panel closing (_rpc).                              *)
THEOREM OpenStreamClean == Spec => []StreamClean
  <1>1. PanelInv => StreamClean
    <2>. SUFFICES ASSUME PanelInv, life = "open", rpc = Nobody PROVE up = <<>> /\ down = <<>>
      BY DEF StreamClean
    <2>1. up \in Seq(Requests) /\ down \in Seq(Answers) /\ Len(up) + Len(down) <= 0
      BY DEF PanelInv, Types, StreamType, StreamInv
    <2>. QED  BY <2>1
  <1>. QED  BY <1>1, PanelInvariant, PTL

(* A thread runs only if the pause flag was clear at a moment of its call  *)
(* (is_paused, _rpc).                                                      *)
THEOREM PauseStopsTheCaller == Spec => []PauseHonoured
  <1>1. PanelInv => PauseHonoured
    BY DEF PanelInv, PauseInv
  <1>. QED  BY <1>1, PanelInvariant, PTL

(* A tick the child has not sent yet survives the replacement of the list  *)
(* (_merge_checklist_replacement).                                         *)
THEOREM TicksAreKept == Spec => []UnseenChoiceKept
  <1>1. PanelInv => UnseenChoiceKept
    BY DEF PanelInv, WishInv
  <1>. QED  BY <1>1, PanelInvariant, PTL
=============================================================================
