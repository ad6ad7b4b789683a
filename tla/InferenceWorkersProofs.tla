----------------------- MODULE InferenceWorkersProofs -----------------------
(***************************************************************************)
(* What holds of the PonyChart worker owner for any number of predictions, *)
(* generations and workers: leases add up, a swap cuts off no request, a   *)
(* successful close leaves no process, a superseded worker is reaped.      *)
(***************************************************************************)
EXTENDS InferenceWorkers, TLAPS, FiniteSetTheorems

Process == [gen : Generations \union {Nobody}, alive : BOOLEAN, connected : BOOLEAN,
            leases : Nat, retired : BOOLEAN, reaper : Callers \union {Nobody},
            reaped : BOOLEAN, error : BOOLEAN, user : Predictors \union {Nobody}]

Operation == [pc : Steps, gen : Generations \union {Nobody},
              work : Workers \union {Nobody}, lease : {"none", "pending", "attached"},
              reap : SUBSET Workers,
              then : {"idle", "startFailed", "spawnFailed", "release", "closed"},
              failed : BOOLEAN]

(* The parts of the type invariant that steps disturb one at a time.       *)
OpType == op \in [Callers -> Operation]
WkType == wk \in [Workers -> Process]
OwnerType == /\ table \in [Generations -> Workers \union {Nobody}]
             /\ active \in Generations \union {Nobody}
             /\ published \in Generations \union {Nobody}
             /\ starter \in Callers \union {Nobody}
CountType == /\ pending \in [Generations -> Nat]
             /\ lost \in [Workers \union Generations -> Nat]
             /\ faults \in Nat
FlagType == closing \in BOOLEAN /\ caught \subseteq Workers

LEMMA Types == TypeOK <=> OpType /\ WkType /\ OwnerType /\ CountType /\ FlagType
  BY DEF TypeOK, OpType, WkType, OwnerType, CountType, FlagType, Process, Operation

-----------------------------------------------------------------------------
(* Where an operation stands, and what it then holds.                      *)

Starts == {"startFailed", "spawnFailed"}
Waiting == {"start", "thread", "spawn", "ready"}

PredictorShape(o) ==
    /\ o.pc \in {"idle", "queue", "request", "reap"} \union Waiting
    /\ o.pc = "reap" => o.then \in Starts \union {"release", "idle"}
    /\ o.lease = "pending" <=> (o.pc \in Waiting \/ (o.pc = "reap" /\ o.then \in Starts))
    /\ o.lease = "attached"
         <=> (o.pc \in {"queue", "request"} \/ (o.pc = "reap" /\ o.then = "release"))
    /\ o.lease = "pending" => o.gen \in Generations
    /\ o.lease = "attached" => o.work \in Workers

RefresherShape(o) ==
    /\ o.pc \in {"idle", "publish", "reap"} \union Waiting
    /\ o.pc = "reap" => o.then \in Starts \union {"idle"}
    /\ o.pc \in Waiting \union {"publish"} => o.gen \in Generations
    /\ o.lease = "none"

CloserShape(o) ==
    /\ o.pc \in {"idle", "settle", "reap", "closed"}
    /\ o.pc = "reap" => o.then = "closed"
    /\ o.pc = "closed" => ~o.failed
    /\ o.lease = "none"

(* A caller that has spawned a worker and not yet registered it, or failed *)
(* to.                                                                     *)
Owns(o) == o.pc = "ready" \/ (o.pc = "reap" /\ o.then \in Starts)

OpShape ==
    /\ \A p \in Predictors : PredictorShape(op[p])
    /\ RefresherShape(op[Refresher]) /\ CloserShape(op[Closer])
    /\ \A c \in Callers : /\ op[c].pc # "reap" => op[c].reap = {}
                          /\ Owns(op[c]) => op[c].work \in Workers

(* A live worker is registered, and a worker is reaped by a call that has  *)
(* it on its list.                                                         *)
WorkerShape ==
    \A w \in Workers :
        /\ wk[w].alive => wk[w].gen # Nobody /\ ~wk[w].reaped
        /\ wk[w].reaper # Nobody => w \in op[wk[w].reaper].reap /\ ~wk[w].reaped

TableShape ==
    \A g \in Generations : table[g] # Nobody =>
        wk[table[g]].gen # Nobody /\ ~wk[table[g]].reaped

(* A worker not yet registered is known to its caller only.                *)
Alone == \A c \in Callers : Owns(op[c]) =>
    /\ \A g \in Generations : table[g] # op[c].work
    /\ \A d \in Callers \ {c} : op[d].work # op[c].work

(* A worker in the table, or about to be put there, that has lost its      *)
(* connection or is to be reaped is retired.                               *)
Doomed(w) == ~wk[w].connected \/ \E c \in Callers : w \in op[c].reap
Held(w) == \/ \E g \in Generations : table[g] = w
           \/ \E c \in Callers : op[c].pc = "ready" /\ op[c].work = w
Linked == \A w \in Workers : Held(w) /\ Doomed(w) => wk[w].retired

(* What the refresher reaps no prediction uses or will come to use.        *)
NotCut == \A w \in op[Refresher].reap \ caught :
    /\ wk[w].retired \/ \A g \in Generations : table[g] # w
    /\ \A p \in Predictors : /\ op[p].lease = "attached" => op[p].work # w
                             /\ op[p].pc = "ready" => op[p].work # w

(* From the moment close has seen that nothing is being spawned, nothing   *)
(* is, and what lives is on its list.                                      *)
Closed ==
    /\ op[Closer].pc \in {"settle", "reap", "closed"} => closing
    /\ op[Closer].pc \in {"reap", "closed"} => \A c \in Callers : op[c].pc # "spawn"
    /\ op[Closer].pc \in {"reap", "closed"} /\ ~op[Closer].failed
          => \A w \in Workers : wk[w].alive => w \in op[Closer].reap

OwnerInv == /\ TypeOK /\ OpShape /\ LeasesAccounted /\ WorkerShape /\ TableShape
            /\ Alone /\ NotCut /\ Closed /\ Linked /\ SupersededIsReaped

-----------------------------------------------------------------------------
(* How a step moves the operation of its caller.                           *)

LastReap(w) == Reaping([Idle EXCEPT !.work = w], {w}, "idle")

(* The operation is over; at most its last lease's worker is to be reaped. *)
Leaves(c, w) == \/ op'[c] = Idle
                \/ c \in Predictors /\ w \in Workers /\ op'[c] = LastReap(w) /\ wk'[w].retired

(* The steps inside an operation that is not reaping, and the end of those *)
(* that reap.                                                              *)
Over(c) == \E w : /\ Leaves(c, w)
                  /\ w = op[c].work \/ \E g \in Generations : w = table[g]
Queues(c) ==
    /\ c \in Predictors
    /\ \E w \in Workers :
          /\ op'[c] = [op[c] EXCEPT !.pc = "queue", !.work = w, !.lease = "attached"]
          /\ \/ op[c].pc = "ready" /\ w = op[c].work
             \/ op[c].pc = "start" /\ w = table[op[c].gen] /\ ~wk[w].retired
Reserves(c) ==
    /\ c \in Predictors /\ op[c].pc = "idle" /\ active \in Generations
    /\ \/ /\ table[active] \in Workers /\ ~wk[table[active]].retired
          /\ op'[c] = [Idle EXCEPT !.pc = "queue", !.gen = active,
                                   !.work = table[active], !.lease = "attached"]
       \/ op'[c] = [Idle EXCEPT !.pc = "start", !.gen = active, !.lease = "pending"]
Prepares(c) ==
    /\ c = Refresher
    /\ \E pc \in {"start", "publish"}, g \in Generations :
          op'[c] = [Idle EXCEPT !.pc = pc, !.gen = g]
Proceeds(c) ==
    \E pc \in Steps : /\ op'[c] = [op[c] EXCEPT !.pc = pc]
                      /\ \/ op[c].pc = "start" /\ pc = "thread"
                         \/ op[c].pc = "thread" /\ pc = "spawn" /\ ~closing
                         \/ c \in Predictors /\ op[c].pc = "queue" /\ pc = "request"
                         \/ c = Closer /\ op[c].pc = "idle" /\ pc = "settle" /\ closing'
                         \/ c = Closer /\ op[c].pc = "settle" /\ pc = "idle"
GivesUp(c) ==
    \/ op[c].pc = "ready" /\ op'[c] = Reaping(op[c], {op[c].work}, "startFailed")
    \/ /\ c \in Predictors /\ op[c].pc = "request"
       /\ op'[c] = Reaping(op[c], {op[c].work}, "release") /\ wk'[op[c].work].retired

(* The reap lists of a swap and of close.                                  *)
Swaps ==
    LET others == Owned \ {table[op[Refresher].gen]}
    IN  /\ op'[Refresher] = Reaping(Idle, Unleased(others), "idle")
        /\ \A w \in others : wk'[w].retired
        /\ Unleased(others) \intersect Starting \subseteq caught'
Settles == /\ op[Closer].pc = "settle" /\ Spawning = {}
           /\ op'[Closer] = Reaping(op[Closer], Owned, "closed")
           /\ \A w \in Owned : wk'[w].retired
Closes == /\ op[Closer].pc = "reap" /\ ~op[Closer].failed
          /\ op'[Closer] = [Idle EXCEPT !.pc = "closed"]

Turns(c) == Over(c) \/ Queues(c) \/ Reserves(c) \/ Prepares(c) \/ Proceeds(c) \/ GivesUp(c)

(* Only the operation of c moves.                                          *)
Alters(c) == \A d \in Callers \ {c} : op'[d] = op[d]

LEMMA Distinct == /\ Refresher \in Callers /\ Closer \in Callers /\ Predictors \subseteq Callers
                  /\ Refresher \notin Predictors /\ Closer \notin Predictors
                  /\ Refresher # Closer /\ Nobody \notin Workers /\ Nobody \notin Callers
                  /\ Nobody \notin Generations
  BY WorkersAssumption DEF Callers

LEMMA OperationOf ==
  ASSUME OpType, NEW c \in Callers
  PROVE  /\ op[c] \in Operation
         /\ op[c].pc \in Steps /\ op[c].gen \in Generations \union {Nobody}
         /\ op[c].work \in Workers \union {Nobody}
         /\ op[c].lease \in {"none", "pending", "attached"}
         /\ op[c].reap \subseteq Workers /\ op[c].failed \in BOOLEAN
  <1>1. op[c] \in Operation  BY DEF OpType
  <1> QED BY <1>1 DEF Operation

LEMMA ProcessOf ==
  ASSUME WkType, NEW w \in Workers
  PROVE  /\ wk[w] \in Process
         /\ wk[w].leases \in Nat /\ wk[w].gen \in Generations \union {Nobody}
         /\ wk[w].alive \in BOOLEAN /\ wk[w].retired \in BOOLEAN
         /\ wk[w].reaper \in Callers \union {Nobody} /\ wk[w].reaped \in BOOLEAN
         /\ wk[w].error \in BOOLEAN /\ wk[w].user \in Predictors \union {Nobody}
         /\ wk[w].connected \in BOOLEAN
  <1>1. wk[w] \in Process  BY DEF WkType
  <1> QED BY <1>1 DEF Process

(* What an update of one component of an operation makes of it.            *)
LEMMA Altered ==
  ASSUME OpType, NEW c \in Callers, NEW r, op' = [op EXCEPT ![c] = r]
  PROVE  op'[c] = r /\ Alters(c)
  BY DEF OpType, Alters

LEMMA AlteredTyped ==
  ASSUME OpType, NEW c \in Callers, NEW r \in Operation, op' = [op EXCEPT ![c] = r]
  PROVE  OpType'
  BY DEF OpType

LEMMA IdleTyped == Idle \in Operation
  BY DEF Idle, Operation, Steps

LEMMA ReapingTyped ==
  ASSUME NEW o \in Operation, NEW ws, ws \subseteq Workers,
         NEW then \in {"idle", "startFailed", "spawnFailed", "release", "closed"}
  PROVE  /\ Reaping(o, ws, then) \in Operation
         /\ Reaping(o, ws, then).pc = "reap" /\ Reaping(o, ws, then).reap = ws
         /\ Reaping(o, ws, then).then = then /\ Reaping(o, ws, then).failed = FALSE
         /\ Reaping(o, ws, then).gen = o.gen /\ Reaping(o, ws, then).work = o.work
         /\ Reaping(o, ws, then).lease = o.lease
  BY DEF Reaping, Operation, Steps

LEMMA LastReapTyped ==
  ASSUME NEW w \in Workers
  PROVE  /\ LastReap(w) \in Operation
         /\ LastReap(w).pc = "reap" /\ LastReap(w).then = "idle"
         /\ LastReap(w).lease = "none" /\ LastReap(w).work = w
         /\ LastReap(w).reap = {w}
  <1> DEFINE o == [Idle EXCEPT !.work = w]
             r == Reaping(o, {w}, "idle")
  <1>1. o \in Operation /\ o.lease = "none" /\ o.work = w
    BY IdleTyped DEF Operation, Idle
  <1>2. LastReap(w) = r  BY DEF LastReap
  <1> HIDE DEF o
  <1>3. {w} \subseteq Workers  OBVIOUS
  <1>4. /\ r \in Operation /\ r.pc = "reap" /\ r.reap = {w} /\ r.then = "idle"
        /\ r.work = o.work /\ r.lease = o.lease
    BY <1>1, <1>3 DEF Reaping, Operation, Steps
  <1> HIDE DEF r
  <1> QED BY <1>1, <1>2, <1>4

(* What the steps keep of every worker: where it is in its life.           *)
Kept(base) ==
    \A w \in Workers : /\ base[w].gen = wk[w].gen /\ base[w].alive = wk[w].alive
                       /\ base[w].connected = wk[w].connected
                       /\ base[w].reaper = wk[w].reaper /\ base[w].reaped = wk[w].reaped
                       /\ base[w].error = wk[w].error
                       /\ wk[w].retired => base[w].retired

Quiet == Kept(wk')

Lower(n) == IF n <= 1 THEN 0 ELSE n - 1

LEMMA ReturnKeeps ==
  ASSUME NEW p \in Predictors, NEW w \in Workers, NEW base \in [Workers -> Process],
         Return(p, w, TRUE, base)
  PROVE  /\ WkType'
         /\ Kept(base) => Quiet
         /\ wk'[w].leases = Lower(base[w].leases)
         /\ \A v \in Workers \ {w} : wk'[v] = base[v]
         /\ wk'[w].retired = base[w].retired
  <1> DEFINE leases == Lower(base[w].leases)
             user == IF base[w].user = p THEN Nobody ELSE base[w].user
             r == [base[w] EXCEPT !.leases = leases, !.user = user]
  <1>1. base[w] \in Process  OBVIOUS
  <1>2. wk' = [base EXCEPT ![w] = r]
    BY <1>1 DEF Return, Lower, Process
  <1>3. leases \in Nat  BY <1>1 DEF Lower, Process
  <1>4. user \in Predictors \union {Nobody}  BY <1>1 DEF Process
  <1>7. leases = Lower(base[w].leases)  OBVIOUS
  <1> HIDE DEF leases, user
  <1>5. r \in Process  BY <1>1, <1>3, <1>4 DEF Process
  <1>6. /\ r.leases = leases /\ r.gen = base[w].gen /\ r.alive = base[w].alive
        /\ r.connected = base[w].connected
        /\ r.reaper = base[w].reaper /\ r.reaped = base[w].reaped
        /\ r.error = base[w].error /\ r.retired = base[w].retired
    BY <1>1 DEF Process
  <1> HIDE DEF r
  <1>8. wk'[w] = r /\ \A v \in Workers \ {w} : wk'[v] = base[v]
    BY <1>2
  <1>9. WkType'  BY <1>2, <1>5 DEF WkType
  <1>10. ASSUME Kept(base) PROVE Quiet
    BY <1>6, <1>8, <1>10 DEF Kept, Quiet
  <1> QED BY <1>6, <1>7, <1>8, <1>9, <1>10

LEMMA ReturnMoves ==
  ASSUME OpType, NEW p \in Predictors, NEW w \in Workers, NEW base \in [Workers -> Process],
         Return(p, w, TRUE, base)
  PROVE  /\ op'[p] = IF base[w].retired /\ base[w].leases <= 1 THEN LastReap(w) ELSE Idle
         /\ Leaves(p, w) /\ Alters(p) /\ OpType'
  <1> DEFINE r == IF base[w].retired /\ base[w].leases <= 1 THEN LastReap(w) ELSE Idle
  <1>0. p \in Callers  BY Distinct
  <1>1. op' = [op EXCEPT ![p] = r]
    BY DEF Return, ReapedAtLast, LastReap
  <1>2. r \in {Idle, LastReap(w)}  OBVIOUS
  <1>3. r \in Operation  BY <1>2, IdleTyped, LastReapTyped
  <1>7. r = LastReap(w) /\ r # Idle => wk'[w].retired
    BY ReturnKeeps
  <1> HIDE DEF r
  <1>4. op'[p] = r /\ Alters(p)  BY <1>0, <1>1, Altered
  <1>5. OpType'  BY <1>0, <1>1, <1>3, AlteredTyped
  <1>6. Leaves(p, w)  BY <1>2, <1>4, <1>7 DEF Leaves
  <1> QED BY <1>4, <1>5, <1>6 DEF r

LEMMA AttachedKeeps ==
  ASSUME WkType, NEW p, NEW w \in Workers
  PROVE  /\ Attached(p, w) \in [Workers -> Process] /\ Kept(Attached(p, w))
         /\ Attached(p, w)[w].leases = wk[w].leases + 1
         /\ \A v \in Workers \ {w} : Attached(p, w)[v] = wk[v]
  <1> DEFINE leases == wk[w].leases + 1
             retired == wk[w].retired \/ active # op[p].gen
             r == [wk[w] EXCEPT !.leases = leases, !.retired = retired]
  <1>0. wk[w] \in Process /\ wk \in [Workers -> Process]  BY ProcessOf DEF WkType
  <1>1. Attached(p, w) = [wk EXCEPT ![w] = r]
    BY <1>0 DEF Attached, Process
  <1>2. leases \in Nat /\ retired \in BOOLEAN /\ (wk[w].retired => retired)
    BY <1>0 DEF Process
  <1>3. leases = wk[w].leases + 1  OBVIOUS
  <1> HIDE DEF leases, retired
  <1>4. /\ r \in Process /\ r.leases = leases /\ r.gen = wk[w].gen /\ r.alive = wk[w].alive
        /\ r.connected = wk[w].connected
        /\ r.reaper = wk[w].reaper /\ r.reaped = wk[w].reaped
        /\ r.error = wk[w].error /\ r.retired = retired
    BY <1>0, <1>2 DEF Process
  <1> HIDE DEF r
  <1>5. /\ Attached(p, w)[w] = r /\ Attached(p, w) \in [Workers -> Process]
        /\ \A v \in Workers \ {w} : Attached(p, w)[v] = wk[v]
    BY <1>0, <1>1, <1>4
  <1>6. Kept(Attached(p, w))
    BY <1>2, <1>4, <1>5 DEF Kept
  <1> QED BY <1>3, <1>4, <1>5, <1>6

LEMMA KeptSelf == Kept(wk)
  BY DEF Kept

(* A failure leaves the operation, and gives its lease back.               *)
LEMMA FailsMoves ==
  ASSUME OpType, WkType, OpShape, NEW c \in Predictors \union {Refresher}, Fails(c)
  PROVE  /\ Leaves(c, op[c].work) /\ Alters(c) /\ OpType'
         /\ WkType' /\ Quiet
  <1>0. c \in Callers  BY Distinct
  <1>1. CASE c \in Predictors /\ op[c].lease = "attached"
    <2>1. op[c].work \in Workers  BY <1>1 DEF OpShape, PredictorShape
    <2>2. Return(c, op[c].work, TRUE, wk)
      BY <1>1 DEF Fails
    <2>3. wk \in [Workers -> Process]  BY DEF WkType
    <2> QED BY <1>1, <2>1, <2>2, <2>3, ReturnMoves, ReturnKeeps, KeptSelf
  <1>2. CASE ~(c \in Predictors /\ op[c].lease = "attached")
    <2>1. op' = [op EXCEPT ![c] = Idle] /\ wk' = wk
      BY <1>2, Distinct DEF Fails, Return
    <2>2. op'[c] = Idle /\ Alters(c)  BY <1>0, <2>1, Altered
    <2>3. OpType'  BY <1>0, <2>1, IdleTyped, AlteredTyped
    <2>4. WkType' /\ Quiet  BY <2>1 DEF WkType, Quiet, Kept
    <2> QED BY <2>2, <2>3, <2>4 DEF Leaves
  <1> QED BY <1>1, <1>2

(* What the end of a start makes of the operation: a lease in the queue, a *)
(* publication, or nothing if it came too late.                            *)
Enqueued(c, w) ==
    /\ c \in Predictors
    /\ op'[c] = [op[c] EXCEPT !.pc = "queue", !.work = w, !.lease = "attached"]

LEMMA StartedMoves ==
  ASSUME OpType, WkType, NEW c \in Predictors \union {Refresher}, NEW w \in Workers,
         op[c].gen \in Generations, Started(c, w)
  PROVE  /\ Leaves(c, w) \/ Enqueued(c, w) \/ Prepares(c)
         /\ Alters(c) /\ OpType' /\ WkType' /\ Quiet
  <1>0. c \in Callers  BY Distinct
  <1>1. CASE c \in Predictors
    <2>1. CASE Return(c, w, TRUE, Attached(c, w))
      BY <1>1, <2>1, ReturnMoves, ReturnKeeps, AttachedKeeps
    <2>2. CASE wk' = Attached(c, w)
               /\ op' = [op EXCEPT ![c] = [@ EXCEPT !.pc = "queue", !.work = w, !.lease = "attached"]]
      <3> DEFINE r == [op[c] EXCEPT !.pc = "queue", !.work = w, !.lease = "attached"]
      <3>1. r \in Operation
        <4>1. op[c] \in Operation  BY <1>0, OperationOf
        <4> QED BY <4>1 DEF Operation, Steps
      <3>2. op' = [op EXCEPT ![c] = r]  BY <2>2
      <3>3. op'[c] = r /\ Alters(c) /\ OpType'
        BY <1>0, <3>1, <3>2, Altered, AlteredTyped
      <3>4. WkType' /\ Quiet
        BY <2>2, AttachedKeeps DEF WkType, Quiet
      <3> QED BY <1>1, <3>3, <3>4 DEF Enqueued
    <2> QED BY <1>1, <2>1, <2>2 DEF Started
  <1>2. CASE c = Refresher
    <2> DEFINE r == [Idle EXCEPT !.pc = "publish", !.gen = op[c].gen]
    <2>1. (op' = [op EXCEPT ![c] = Idle] \/ op' = [op EXCEPT ![c] = r]) /\ wk' = wk
      BY <1>2, Distinct DEF Started
    <2>2. r \in Operation
      BY IdleTyped DEF Operation, Steps
    <2>3. WkType' /\ Quiet  BY <2>1 DEF WkType, Quiet, Kept
    <2>4. CASE op' = [op EXCEPT ![c] = Idle]
      <3>1. op'[c] = Idle /\ Alters(c) /\ OpType'
        BY <1>0, <2>4, IdleTyped, Altered, AlteredTyped
      <3> QED BY <2>3, <3>1 DEF Leaves
    <2>5. CASE op' = [op EXCEPT ![c] = r]
      <3>1. op'[c] = r /\ Alters(c) /\ OpType'
        BY <1>0, <2>2, <2>5, Altered, AlteredTyped
      <3> QED BY <1>2, <2>3, <3>1 DEF Prepares
    <2> QED BY <2>1, <2>4, <2>5
  <1> QED BY <1>1, <1>2

-----------------------------------------------------------------------------
(* The steps of a prediction, of a start and of the refresher, as moves.   *)

(* The worker that c has started takes its place in the table.             *)
TableFrom(c) ==
    \/ table' = table
    \/ /\ op[c].pc = "ready" /\ ~Owns(op'[c]) /\ wk[op[c].work].alive
       /\ table' = [table EXCEPT ![op[c].gen] = op[c].work]

Frame(c) == /\ Alters(c) /\ OpType' /\ WkType' /\ Quiet
            /\ op[c].reap = {} /\ (closing => closing') /\ caught \subseteq caught'

(* One worker's record is replaced, and its life goes on.                  *)
LEMMA Reworked ==
  ASSUME WkType, NEW w \in Workers, NEW r \in Process, NEW base, base = [wk EXCEPT ![w] = r],
         r.gen = wk[w].gen, r.alive = wk[w].alive, r.reaper = wk[w].reaper,
         r.connected = wk[w].connected,
         r.reaped = wk[w].reaped, r.error = wk[w].error, wk[w].retired => r.retired
  PROVE  /\ base \in [Workers -> Process] /\ Kept(base)
         /\ base[w] = r /\ \A v \in Workers \ {w} : base[v] = wk[v]
  <1>1. wk \in [Workers -> Process]  BY DEF WkType
  <1>2. base[w] = r /\ \A v \in Workers \ {w} : base[v] = wk[v]  BY <1>1
  <1> QED BY <1>1, <1>2 DEF Kept

LEMMA ReserveTurns ==
  ASSUME OpType, WkType, OwnerType, OpShape, NEW p \in Predictors, Reserve(p)
  PROVE  Turns(p) /\ Frame(p)
  <1>0. p \in Callers /\ op[p].pc = "idle" /\ op[p].reap = {} /\ active \in Generations
    BY Distinct DEF Reserve, OpShape, OwnerType
  <1>1. CASE Usable(active)
    <2> DEFINE w == table[active]
               r == [Idle EXCEPT !.pc = "queue", !.gen = active, !.work = w, !.lease = "attached"]
               s == [wk[w] EXCEPT !.leases = @ + 1]
    <2>1. w \in Workers /\ ~wk[w].retired
      BY <1>0, <1>1 DEF Usable, OwnerType
    <2>2. r \in Operation
      BY <1>0, <2>1, IdleTyped DEF Operation, Steps
    <2>3. op' = [op EXCEPT ![p] = Idle] \/ op' = [op EXCEPT ![p] = r]
      BY <1>1 DEF Reserve
    <2>4. wk' = [wk EXCEPT ![w] = s]
      BY <1>1, <2>1 DEF Reserve, WkType
    <2>5. /\ s \in Process /\ s.gen = wk[w].gen /\ s.alive = wk[w].alive
          /\ s.connected = wk[w].connected
          /\ s.reaper = wk[w].reaper /\ s.reaped = wk[w].reaped
          /\ s.error = wk[w].error /\ (wk[w].retired => s.retired)
      <3>1. wk[w] \in Process  BY <2>1, ProcessOf
      <3> QED BY <3>1 DEF Process
    <2> HIDE DEF s
    <2>6. WkType' /\ Quiet
      <3> HIDE DEF w
      <3>1. wk' \in [Workers -> Process] /\ Kept(wk')
        BY <2>1, <2>4, <2>5, Reworked
      <3> QED BY <3>1 DEF WkType, Quiet
    <2>7. closing' = closing /\ caught' = caught  BY DEF Reserve
    <2>8. CASE op' = [op EXCEPT ![p] = Idle]
      <3>1. op'[p] = Idle /\ Alters(p) /\ OpType'
        BY <1>0, <2>8, IdleTyped, Altered, AlteredTyped
      <3>2. Turns(p)  BY <1>0, <3>1 DEF Turns, Over, Leaves
      <3> QED BY <1>0, <2>6, <2>7, <3>1, <3>2 DEF Frame
    <2>9. CASE op' = [op EXCEPT ![p] = r]
      <3>1. op'[p] = r /\ Alters(p) /\ OpType'
        BY <1>0, <2>2, <2>9, Altered, AlteredTyped
      <3>2. Turns(p)  BY <1>0, <2>1, <3>1 DEF Turns, Reserves
      <3> QED BY <1>0, <2>6, <2>7, <3>1, <3>2 DEF Frame
    <2> QED BY <2>3, <2>8, <2>9
  <1>2. CASE ~Usable(active)
    <2> DEFINE r == [Idle EXCEPT !.pc = "start", !.gen = active, !.lease = "pending"]
    <2>2. r \in Operation
      BY <1>0, IdleTyped DEF Operation, Steps
    <2>3. op' = [op EXCEPT ![p] = Idle] \/ op' = [op EXCEPT ![p] = r]
      BY <1>2 DEF Reserve
    <2>6. WkType' /\ Quiet
      BY <1>2 DEF Reserve, WkType, Quiet, Kept
    <2>7. closing' = closing /\ caught' = caught  BY DEF Reserve
    <2>8. CASE op' = [op EXCEPT ![p] = Idle]
      <3>1. op'[p] = Idle /\ Alters(p) /\ OpType'
        BY <1>0, <2>8, IdleTyped, Altered, AlteredTyped
      <3>2. Turns(p)  BY <1>0, <3>1 DEF Turns, Over, Leaves
      <3> QED BY <1>0, <2>6, <2>7, <3>1, <3>2 DEF Frame
    <2>9. CASE op' = [op EXCEPT ![p] = r]
      <3>1. op'[p] = r /\ Alters(p) /\ OpType'
        BY <1>0, <2>2, <2>9, Altered, AlteredTyped
      <3>2. Turns(p)  BY <1>0, <3>1 DEF Turns, Reserves
      <3> QED BY <1>0, <2>6, <2>7, <3>1, <3>2 DEF Frame
    <2> QED BY <2>3, <2>8, <2>9
  <1> QED BY <1>1, <1>2

LEMMA RequestTurns ==
  ASSUME OpType, WkType, OpShape, NEW p \in Predictors, Request(p)
  PROVE  Turns(p) /\ Frame(p)
  <1> DEFINE w == op[p].work
             r == [op[p] EXCEPT !.pc = "request"]
             s == [wk[w] EXCEPT !.user = p]
  <1>1. p \in Callers /\ op[p].pc = "queue" /\ op[p].reap = {} /\ w \in Workers
    <2>1. p \in Callers /\ op[p].pc = "queue"  BY Distinct DEF Request
    <2>2. op[p].lease = "attached"  BY <2>1 DEF OpShape, PredictorShape
    <2> QED BY <2>1, <2>2 DEF OpShape, PredictorShape
  <1>2. op[p] \in Operation /\ wk[w] \in Process  BY <1>1, OperationOf, ProcessOf
  <1>3. op' = [op EXCEPT ![p] = r] /\ r \in Operation
    BY <1>1, <1>2 DEF Request, Goto, Operation, Steps
  <1>4. wk' = [wk EXCEPT ![w] = s]
    BY <1>1, <1>2 DEF Request, WkType, Process
  <1>5. /\ s \in Process /\ s.gen = wk[w].gen /\ s.alive = wk[w].alive
        /\ s.connected = wk[w].connected
        /\ s.reaper = wk[w].reaper /\ s.reaped = wk[w].reaped
        /\ s.error = wk[w].error /\ (wk[w].retired => s.retired)
    BY <1>2 DEF Process
  <1>6. Turns(p)
    <2>1. op'[p] = r  BY <1>1, <1>3, Altered
    <2>2. Proceeds(p)  BY <1>1, <2>1 DEF Proceeds, Steps
    <2> QED BY <2>2 DEF Turns
  <1>7. Alters(p) /\ OpType'  BY <1>1, <1>3, Altered, AlteredTyped
  <1> HIDE DEF w, r, s
  <1>8. wk' \in [Workers -> Process] /\ Kept(wk')
    BY <1>1, <1>4, <1>5, Reworked
  <1>9. closing' = closing /\ caught' = caught  BY DEF Request, owner, history
  <1> QED BY <1>1, <1>6, <1>7, <1>8, <1>9 DEF Frame, WkType, Quiet

LEMMA FailsTurns ==
  ASSUME OpType, WkType, OpShape, NEW c \in Predictors \union {Refresher}, Fails(c),
         op[c].reap = {}, closing' = closing, caught' = caught
  PROVE  Turns(c) /\ Frame(c)
  BY FailsMoves DEF Turns, Over, Frame

LEMMA AnswerTurns ==
  ASSUME OpType, WkType, OpShape, NEW p \in Predictors, Answer(p)
  PROVE  Turns(p) /\ Frame(p)
  <1> DEFINE w == op[p].work
  <1>1. p \in Callers /\ op[p].pc = "request" /\ op[p].reap = {} /\ w \in Workers
    <2>1. p \in Callers /\ op[p].pc = "request"  BY Distinct DEF Answer
    <2>2. op[p].lease = "attached"  BY <2>1 DEF OpShape, PredictorShape
    <2> QED BY <2>1, <2>2 DEF OpShape, PredictorShape
  <1>2. Return(p, w, TRUE, wk) /\ wk \in [Workers -> Process]
    BY DEF Answer, WkType
  <1>3. closing' = closing /\ caught' = caught  BY DEF Answer, owner, history
  <1>4. Leaves(p, w) /\ Alters(p) /\ OpType' /\ WkType' /\ Quiet
    BY <1>1, <1>2, ReturnMoves, ReturnKeeps, KeptSelf
  <1> QED BY <1>1, <1>3, <1>4 DEF Turns, Over, Frame

LEMMA RequestFailsTurns ==
  ASSUME OpType, WkType, OpShape, NEW p \in Predictors, RequestFails(p)
  PROVE  Turns(p) /\ Frame(p)
  <1> DEFINE w == op[p].work
             r == Reaping(op[p], {w}, "release")
             s == [wk[w] EXCEPT !.retired = TRUE]
  <1>1. p \in Callers /\ op[p].pc = "request" /\ op[p].reap = {} /\ w \in Workers
    <2>1. p \in Callers /\ op[p].pc = "request"  BY Distinct DEF RequestFails
    <2>2. op[p].lease = "attached"  BY <2>1 DEF OpShape, PredictorShape
    <2> QED BY <2>1, <2>2 DEF OpShape, PredictorShape
  <1>2. op[p] \in Operation /\ wk[w] \in Process  BY <1>1, OperationOf, ProcessOf
  <1>3. op' = [op EXCEPT ![p] = r] /\ r \in Operation
    <2>1. op' = [op EXCEPT ![p] = r]  BY DEF RequestFails
    <2>2. {w} \subseteq Workers  BY <1>1
    <2> QED BY <1>2, <2>1, <2>2, ReapingTyped
  <1>4. wk' = [wk EXCEPT ![w] = s]
    BY <1>1, <1>2 DEF RequestFails, Retired, WkType, Process
  <1>5. op'[p] = r /\ Alters(p) /\ OpType'  BY <1>1, <1>3, Altered, AlteredTyped
  <1>6. closing' = closing /\ caught' = caught  BY DEF RequestFails, owner, history
  <1>7. /\ s \in Process /\ s.gen = wk[w].gen /\ s.alive = wk[w].alive
        /\ s.connected = wk[w].connected
        /\ s.reaper = wk[w].reaper /\ s.reaped = wk[w].reaped
        /\ s.error = wk[w].error /\ s.retired
    BY <1>2 DEF Process
  <1>8. wk' \in [Workers -> Process] /\ Kept(wk') /\ wk'[w].retired
    <2> HIDE DEF w, s, r
    <2>1. s.retired /\ (wk[w].retired => s.retired)  BY <1>7
    <2>2. w \in Workers  BY <1>1
    <2>3. /\ wk' \in [Workers -> Process] /\ Kept(wk')
          /\ wk'[w] = s
      BY <1>4, <1>7, <2>1, <2>2, Reworked
    <2> QED BY <2>1, <2>3
  <1>9. GivesUp(p)  BY <1>1, <1>5, <1>8 DEF GivesUp
  <1> HIDE DEF w, r
  <1> QED BY <1>1, <1>5, <1>6, <1>8, <1>9 DEF Turns, Frame, WkType, Quiet

(* Every step of a prediction.                                             *)
LEMMA PredictTurns ==
  ASSUME OpType, WkType, OwnerType, OpShape, NEW p \in Predictors, Predict(p)
  PROVE  Turns(p) /\ Frame(p) /\ table' = table
  <1>1. table' = table
    BY DEF Predict, Reserve, Request, NoRequest, Answer, RequestFails, owner
  <1>2. CASE NoRequest(p)
    <2>1. /\ op[p].pc = "queue" /\ Fails(p) /\ closing' = closing /\ caught' = caught
          /\ p \in Callers
      BY <1>2, Distinct DEF NoRequest, history
    <2>2. op[p].reap = {}  BY <2>1 DEF OpShape
    <2> QED BY <1>1, <2>1, <2>2, FailsTurns
  <1> QED BY <1>1, <1>2, ReserveTurns, RequestTurns, AnswerTurns, RequestFailsTurns DEF Predict

LEMMA StarterOf ==
  ASSUME OpType, OpShape, NEW c \in Predictors \union {Refresher}, op[c].pc \in Waiting
  PROVE  /\ c \in Callers /\ op[c] \in Operation /\ op[c].reap = {}
         /\ op[c].gen \in Generations
         /\ op[c].pc = "ready" => op[c].work \in Workers
  <1>1. c \in Callers  BY Distinct
  <1>2. op[c] \in Operation  BY <1>1, OperationOf
  <1>3. op[c].reap = {}  BY <1>1 DEF OpShape, Waiting
  <1>4. op[c].gen \in Generations
    BY <1>1 DEF OpShape, PredictorShape, RefresherShape
  <1> QED BY <1>1, <1>2, <1>3, <1>4 DEF OpShape, Owns

LEMMA GoesOn ==
  ASSUME OpType, NEW c \in Callers, NEW pc \in Steps, Goto(c, pc)
  PROVE  op'[c] = [op[c] EXCEPT !.pc = pc] /\ Alters(c) /\ OpType'
  <1> DEFINE r == [op[c] EXCEPT !.pc = pc]
  <1>1. op[c] \in Operation  BY OperationOf
  <1>2. r \in Operation  BY <1>1 DEF Operation
  <1>3. op' = [op EXCEPT ![c] = r]  BY DEF Goto
  <1> QED BY <1>2, <1>3, Altered, AlteredTyped

LEMMA StartTurns ==
  ASSUME OpType, WkType, OwnerType, OpShape, NEW c \in Predictors \union {Refresher}, Start(c)
  PROVE  Turns(c) /\ Frame(c) /\ table' = table
  <1>1. op[c].pc = "start" /\ closing' = closing /\ caught' = caught /\ table' = table
    BY DEF Start, history
  <1>2. c \in Callers /\ op[c].gen \in Generations /\ op[c].reap = {}
    BY <1>1, StarterOf DEF Waiting
  <1>3. CASE Usable(op[c].gen)
    <2> DEFINE w == table[op[c].gen]
    <2>1. w \in Workers /\ ~wk[w].retired
      BY <1>2, <1>3 DEF Usable, OwnerType
    <2>2. Started(c, w)  BY <1>3 DEF Start
    <2>3. /\ Leaves(c, w) \/ Enqueued(c, w) \/ Prepares(c)
          /\ Alters(c) /\ OpType' /\ WkType' /\ Quiet
      BY <1>2, <2>1, <2>2, StartedMoves
    <2>4. Enqueued(c, w) => Queues(c)
      BY <1>1, <2>1 DEF Enqueued, Queues
    <2>5. Leaves(c, w) => Over(c)
      BY <1>2 DEF Over
    <2> QED BY <1>1, <1>2, <2>3, <2>4, <2>5 DEF Turns, Frame
  <1>4. CASE ~Usable(op[c].gen)
    <2>1. Goto(c, "thread") /\ wk' = wk  BY <1>4 DEF Start
    <2>2. op'[c] = [op[c] EXCEPT !.pc = "thread"] /\ Alters(c) /\ OpType'
      BY <1>2, <2>1, GoesOn DEF Steps
    <2>3. Proceeds(c)  BY <1>1, <2>2 DEF Proceeds, Steps
    <2>4. WkType' /\ Quiet  BY <2>1 DEF WkType, Quiet, Kept
    <2> QED BY <1>1, <1>2, <2>2, <2>3, <2>4 DEF Turns, Frame
  <1> QED BY <1>3, <1>4

LEMMA EnterSpawnTurns ==
  ASSUME OpType, WkType, OpShape, NEW c \in Predictors \union {Refresher}, EnterSpawn(c)
  PROVE  Turns(c) /\ Frame(c) /\ table' = table
  <1>1. op[c].pc = "thread" /\ closing' = closing /\ caught' = caught /\ table' = table
    BY DEF EnterSpawn, history
  <1>2. c \in Callers /\ op[c].reap = {}
    BY <1>1, StarterOf DEF Waiting
  <1>3. CASE closing
    <2>1. Fails(c)  BY <1>3 DEF EnterSpawn
    <2> QED BY <1>1, <1>2, <2>1, FailsTurns
  <1>4. CASE ~closing
    <2>1. Goto(c, "spawn") /\ wk' = wk  BY <1>4 DEF EnterSpawn
    <2>2. op'[c] = [op[c] EXCEPT !.pc = "spawn"] /\ Alters(c) /\ OpType'
      BY <1>2, <2>1, GoesOn DEF Steps
    <2>3. Proceeds(c)  BY <1>1, <1>4, <2>2 DEF Proceeds, Steps
    <2>4. WkType' /\ Quiet  BY <2>1 DEF WkType, Quiet, Kept
    <2> QED BY <1>1, <1>2, <2>2, <2>3, <2>4 DEF Turns, Frame
  <1> QED BY <1>3, <1>4

LEMMA GivesUpTurns ==
  ASSUME OpType, WkType, OpShape, NEW c \in Predictors \union {Refresher},
         op[c].pc = "ready", op' = [op EXCEPT ![c] = Reaping(@, {op[c].work}, "startFailed")],
         wk' = wk, closing' = closing, caught' = caught
  PROVE  Turns(c) /\ Frame(c)
  <1> DEFINE r == Reaping(op[c], {op[c].work}, "startFailed")
  <1>1. /\ c \in Callers /\ op[c] \in Operation /\ op[c].reap = {}
        /\ {op[c].work} \subseteq Workers
    BY StarterOf DEF Waiting
  <1>2. op' = [op EXCEPT ![c] = r]  OBVIOUS
  <1>3. r \in Operation  BY <1>1, ReapingTyped
  <1>4. op'[c] = r /\ Alters(c) /\ OpType'
    BY <1>1, <1>2, <1>3, Altered, AlteredTyped
  <1>5. GivesUp(c)  BY <1>4 DEF GivesUp
  <1>6. WkType' /\ Quiet  BY DEF WkType, Quiet, Kept
  <1> QED BY <1>1, <1>4, <1>5, <1>6 DEF Turns, Frame

LEMMA ReadyTurns ==
  ASSUME OpType, WkType, OwnerType, OpShape, NEW c \in Predictors \union {Refresher}, Ready(c)
  PROVE  Turns(c) /\ Frame(c) /\ TableFrom(c)
  <1> DEFINE w == op[c].work
             g == op[c].gen
  <1>1. op[c].pc = "ready" /\ wk[w].alive /\ closing' = closing /\ caught' = caught
    BY DEF Ready, owner
  <1>2. c \in Callers /\ g \in Generations /\ w \in Workers /\ op[c].reap = {}
    BY <1>1, StarterOf DEF Waiting
  <1>3. CASE op' = [op EXCEPT ![c] = Reaping(@, {w}, "startFailed")] /\ UNCHANGED <<wk, owner>>
    <2>1. wk' = wk /\ table' = table  BY <1>3 DEF owner
    <2> QED BY <1>1, <1>3, <2>1, GivesUpTurns DEF TableFrom
  <1>4. CASE table' = [table EXCEPT ![g] = w] /\ Started(c, w)
    <2>1. /\ Leaves(c, w) \/ Enqueued(c, w) \/ Prepares(c)
          /\ Alters(c) /\ OpType' /\ WkType' /\ Quiet
      BY <1>2, <1>4, StartedMoves
    <2>2. Enqueued(c, w) => Queues(c)
      BY <1>1, <1>2 DEF Enqueued, Queues
    <2>3. Leaves(c, w) => Over(c)
      BY DEF Over
    <2>4. ~Owns(op'[c])
      <3>1. CASE Leaves(c, w)
        BY <1>2, <3>1, LastReapTyped DEF Leaves, Owns, Idle, Starts
      <3>2. CASE Enqueued(c, w)
        <4>1. op[c] \in Operation  BY <1>2, OperationOf
        <4> QED BY <3>2, <4>1 DEF Enqueued, Owns, Operation
      <3>3. CASE Prepares(c)
        BY <3>3 DEF Prepares, Owns, Idle
      <3> QED BY <2>1, <3>1, <3>2, <3>3
    <2>5. TableFrom(c)  BY <1>1, <1>4, <2>4 DEF TableFrom
    <2> QED BY <1>1, <1>2, <2>1, <2>2, <2>3, <2>5 DEF Turns, Frame
  <1> QED BY <1>3, <1>4 DEF Ready

LEMMA PrepareTurns ==
  ASSUME OpType, WkType, OwnerType, OpShape, NEW c \in Predictors \union {Refresher},
         Prepare(c), ~\E w \in Workers : Spawned(c, w)
  PROVE  Turns(c) /\ Frame(c) /\ TableFrom(c)
  <1>1. CASE StartExpires(c) \/ SpawnFails(c)
    <2>1. /\ Fails(c) /\ closing' = closing /\ caught' = caught /\ table' = table
          /\ op[c].pc \in Waiting
      BY <1>1 DEF StartExpires, SpawnFails, history, Waiting
    <2>2. op[c].reap = {}  BY <2>1, StarterOf
    <2> QED BY <2>1, <2>2, FailsTurns DEF TableFrom
  <1>2. CASE NotReady(c)
    <2>1. /\ op[c].pc = "ready" /\ wk' = wk /\ closing' = closing /\ caught' = caught
          /\ table' = table
          /\ op' = [op EXCEPT ![c] = Reaping(@, {op[c].work}, "startFailed")]
      <3>1. op[c] \in Operation /\ op \in [Callers -> Operation] /\ c \in Callers
        BY OperationOf, Distinct DEF OpType
      <3> QED BY <1>2, <3>1 DEF NotReady, owner, history
    <2> QED BY <2>1, GivesUpTurns DEF TableFrom
  <1> QED BY <1>1, <1>2, StartTurns, EnterSpawnTurns, ReadyTurns DEF Prepare, TableFrom

-----------------------------------------------------------------------------
(* The other steps that leave every worker where it is in its life.        *)

LEMMA BeginPrepareTurns ==
  ASSUME OpType, WkType, OpShape, NEW g \in Generations, BeginPrepare(g)
  PROVE  Turns(Refresher) /\ Frame(Refresher) /\ table' = table
  <1>1. /\ Refresher \in Callers /\ op[Refresher].pc = "idle" /\ op[Refresher].reap = {}
        /\ wk' = wk /\ closing' = closing /\ caught' = caught /\ table' = table
    BY Distinct DEF BeginPrepare, OpShape, owner, history
  <1>2. WkType' /\ Quiet  BY <1>1 DEF WkType, Quiet, Kept
  <1>3. PICK pc \in {"publish", "idle", "start"} :
          op' = [op EXCEPT ![Refresher] = IF pc = "idle" THEN Idle
                                          ELSE [Idle EXCEPT !.pc = pc, !.gen = g]]
    <2>1. \E pc \in IF Usable(g) THEN {"publish", "idle"} ELSE {"start"} :
            op' = [op EXCEPT ![Refresher] = IF pc = "idle" THEN Idle
                                            ELSE [Idle EXCEPT !.pc = pc, !.gen = g]]
      BY DEF BeginPrepare
    <2> QED BY <2>1
  <1>4. CASE pc = "idle"
    <2>1. op' = [op EXCEPT ![Refresher] = Idle]  BY <1>3, <1>4
    <2>2. op'[Refresher] = Idle /\ Alters(Refresher) /\ OpType'
      BY <1>1, <2>1, IdleTyped, Altered, AlteredTyped
    <2>3. Over(Refresher)  BY <2>2 DEF Over, Leaves
    <2> QED BY <1>1, <1>2, <2>2, <2>3 DEF Turns, Frame
  <1>5. CASE pc \in {"publish", "start"}
    <2> DEFINE r == [Idle EXCEPT !.pc = pc, !.gen = g]
    <2>1. op' = [op EXCEPT ![Refresher] = r]  BY <1>3, <1>5
    <2>2. r \in Operation  BY <1>5, IdleTyped DEF Operation, Steps
    <2>3. op'[Refresher] = r /\ Alters(Refresher) /\ OpType'
      BY <1>1, <2>1, <2>2, Altered, AlteredTyped
    <2>4. Prepares(Refresher)  BY <1>5, <2>3 DEF Prepares
    <2> QED BY <1>1, <1>2, <2>3, <2>4 DEF Turns, Frame
  <1> QED BY <1>3, <1>4, <1>5

LEMMA AfterReapTurns ==
  ASSUME OpType, WkType, OpShape, NEW c \in Callers, AfterReap(c)
  PROVE  /\ Turns(c) \/ (c = Closer /\ Closes)
         /\ Frame(c) /\ table' = table
  <1>1. /\ op[c].pc = "reap" /\ op[c].reap = {} /\ table' = table
        /\ closing' = closing /\ caught' = caught
    BY DEF AfterReap, owner, history
  <1>2. CASE Fails(c) /\ op[c].then \in Starts \union {"release"}
    <2>1. c \in Predictors \union {Refresher}
      BY <1>1, <1>2, Distinct DEF OpShape, CloserShape, Callers, Starts
    <2> QED BY <1>1, <1>2, <2>1, FailsTurns
  <1>3. CASE /\ op[c].then \in {"idle", "closed"} /\ wk' = wk
             /\ op' = [op EXCEPT ![c] = IF op[c].then = "closed" /\ ~op[c].failed
                                        THEN [Idle EXCEPT !.pc = "closed"] ELSE Idle]
    <2>1. WkType' /\ Quiet  BY <1>3 DEF WkType, Quiet, Kept
    <2>2. CASE op[c].then = "closed" /\ ~op[c].failed
      <3> DEFINE r == [Idle EXCEPT !.pc = "closed"]
      <3>1. op' = [op EXCEPT ![c] = r]  BY <1>3, <2>2
      <3>2. r \in Operation  BY IdleTyped DEF Operation, Steps
      <3>3. op'[c] = r /\ Alters(c) /\ OpType'
        BY <3>1, <3>2, Altered, AlteredTyped
      <3>4. c = Closer
        BY <1>1, <2>2 DEF OpShape, PredictorShape, RefresherShape, Callers, Starts
      <3>5. Closes  BY <1>1, <2>2, <3>3, <3>4 DEF Closes
      <3> QED BY <1>1, <2>1, <3>3, <3>4, <3>5 DEF Frame
    <2>3. CASE ~(op[c].then = "closed" /\ ~op[c].failed)
      <3>1. op' = [op EXCEPT ![c] = Idle]  BY <1>3, <2>3
      <3>2. op'[c] = Idle /\ Alters(c) /\ OpType'
        BY <3>1, IdleTyped, Altered, AlteredTyped
      <3>3. Over(c)  BY <3>2 DEF Over, Leaves
      <3> QED BY <1>1, <2>1, <3>2, <3>3 DEF Turns, Frame
    <2> QED BY <2>2, <2>3
  <1> QED BY <1>2, <1>3 DEF AfterReap, Starts

LEMMA BeginCloseTurns ==
  ASSUME OpType, WkType, OpShape, BeginClose \/ CloseExpires
  PROVE  Turns(Closer) /\ Frame(Closer) /\ table' = table
  <1>1. /\ Closer \in Callers /\ op[Closer].pc \in {"idle", "settle"} /\ table' = table
        /\ wk' = wk /\ caught' = caught /\ (closing => closing')
    BY Distinct DEF BeginClose, CloseExpires, owner, history
  <1>2. op[Closer].reap = {}  BY <1>1 DEF OpShape
  <1>3. WkType' /\ Quiet  BY <1>1 DEF WkType, Quiet, Kept
  <1>4. PICK pc \in {"settle", "idle"} :
           /\ Goto(Closer, pc)
           /\ \/ op[Closer].pc = "idle" /\ pc = "settle" /\ closing'
              \/ op[Closer].pc = "settle" /\ pc = "idle"
    BY DEF BeginClose, CloseExpires
  <1>5. pc \in Steps  BY DEF Steps
  <1>6. op'[Closer] = [op[Closer] EXCEPT !.pc = pc] /\ Alters(Closer) /\ OpType'
    BY <1>1, <1>4, <1>5, GoesOn
  <1>7. Proceeds(Closer)  BY <1>4, <1>5, <1>6 DEF Proceeds
  <1> QED BY <1>1, <1>2, <1>3, <1>6, <1>7 DEF Turns, Frame

(* A swap and close retire a set of workers, and change nothing else.      *)
LEMMA RetiredAll ==
  ASSUME WkType, NEW ws, wk' = [w \in Workers |-> IF w \in ws THEN Retired(w) ELSE wk[w]]
  PROVE  /\ WkType' /\ Quiet
         /\ \A w \in Workers : /\ wk'[w].leases = wk[w].leases
                               /\ wk'[w].retired = (wk[w].retired \/ w \in ws)
  <1>1. ASSUME NEW w \in Workers
        PROVE  /\ wk'[w] \in Process /\ wk'[w].gen = wk[w].gen /\ wk'[w].alive = wk[w].alive
               /\ wk'[w].reaper = wk[w].reaper /\ wk'[w].reaped = wk[w].reaped
               /\ wk'[w].error = wk[w].error /\ (wk[w].retired => wk'[w].retired)
               /\ wk'[w].connected = wk[w].connected
               /\ wk'[w].leases = wk[w].leases
               /\ wk'[w].retired = (wk[w].retired \/ w \in ws)
    <2>1. wk[w] \in Process  BY ProcessOf
    <2>2. CASE w \in ws
      <3>1. wk'[w] = [wk[w] EXCEPT !.retired = TRUE]  BY <2>2 DEF Retired
      <3> QED BY <2>1, <2>2, <3>1 DEF Process
    <2>3. CASE w \notin ws
      <3>1. wk'[w] = wk[w]  BY <2>3
      <3>2. wk[w].retired \in BOOLEAN  BY <2>1 DEF Process
      <3> QED BY <2>1, <2>3, <3>1, <3>2
    <2> QED BY <2>2, <2>3
  <1>2. wk' \in [Workers -> Process]  BY <1>1
  <1> QED BY <1>1, <1>2 DEF WkType, Quiet, Kept

LEMMA PublishTurns ==
  ASSUME OpType, WkType, OpShape, Publish
  PROVE  /\ Turns(Refresher) \/ Swaps
         /\ Frame(Refresher) /\ table' = table
  <1> DEFINE g == op[Refresher].gen
             others == Owned \ {table[g]}
             r == Reaping(Idle, Unleased(others), "idle")
  <1>1. /\ Refresher \in Callers /\ op[Refresher].pc = "publish" /\ closing' = closing
        /\ table' = table
    BY Distinct DEF Publish
  <1>2. op[Refresher].reap = {}  BY <1>1 DEF OpShape
  <1>3. CASE Usable(g) /\ ~closing
    <2>1. op' = [op EXCEPT ![Refresher] = r]  BY <1>3 DEF Publish
    <2>2. Unleased(others) \subseteq Workers  BY DEF Unleased, Owned
    <2>3. r \in Operation  BY <2>2, IdleTyped, ReapingTyped
    <2>4. op'[Refresher] = r /\ Alters(Refresher) /\ OpType'
      <3> HIDE DEF r
      <3> QED BY <1>1, <2>1, <2>3, Altered, AlteredTyped
    <2>5. wk' = [w \in Workers |-> IF w \in others THEN Retired(w) ELSE wk[w]]
      BY <1>3 DEF Publish
    <2>6. WkType' /\ Quiet /\ \A w \in others : wk'[w].retired
      <3>1. others \subseteq Workers  BY DEF Owned
      <3> HIDE DEF others
      <3> QED BY <2>5, <3>1, RetiredAll
    <2>7. caught' = caught \union (Unleased(others) \intersect Starting)
      BY <1>3 DEF Publish
    <2>8. Swaps  BY <2>4, <2>6, <2>7 DEF Swaps
    <2>9. caught \subseteq caught'  BY <2>7
    <2> HIDE DEF others, r
    <2> QED BY <1>1, <1>2, <2>4, <2>6, <2>8, <2>9 DEF Frame
  <1>4. CASE ~(Usable(g) /\ ~closing)
    <2>1. op' = [op EXCEPT ![Refresher] = Idle] /\ wk' = wk /\ caught' = caught
      BY <1>4 DEF Publish
    <2>2. op'[Refresher] = Idle /\ Alters(Refresher) /\ OpType'
      BY <1>1, <2>1, IdleTyped, Altered, AlteredTyped
    <2>3. Over(Refresher)  BY <2>2 DEF Over, Leaves
    <2>4. WkType' /\ Quiet  BY <2>1 DEF WkType, Quiet, Kept
    <2> QED BY <1>1, <1>2, <2>1, <2>2, <2>3, <2>4 DEF Turns, Frame
  <1> QED BY <1>3, <1>4

LEMMA CloseSettledTurns ==
  ASSUME OpType, WkType, OpShape, CloseSettled
  PROVE  Settles /\ Frame(Closer) /\ table' = table
  <1> DEFINE r == Reaping(op[Closer], Owned, "closed")
  <1>1. /\ Closer \in Callers /\ op[Closer].pc = "settle" /\ closing' = closing
        /\ table' = table /\ caught' = caught /\ Spawning = {}
    BY Distinct DEF CloseSettled, owner, history
  <1>2. op[Closer].reap = {} /\ op[Closer] \in Operation
    BY <1>1, OperationOf DEF OpShape
  <1>3. op' = [op EXCEPT ![Closer] = r]
    BY <1>1 DEF CloseSettled, OpType
  <1>4. r \in Operation
    <2>1. Owned \subseteq Workers  BY DEF Owned
    <2> QED BY <1>2, <2>1, ReapingTyped
  <1>5. op'[Closer] = r /\ Alters(Closer) /\ OpType'
    <2> HIDE DEF r
    <2> QED BY <1>1, <1>3, <1>4, Altered, AlteredTyped
  <1>6. WkType' /\ Quiet /\ \A w \in Owned : wk'[w].retired
    BY RetiredAll DEF CloseSettled, Owned
  <1>7. Settles  BY <1>1, <1>5, <1>6 DEF Settles
  <1> HIDE DEF r
  <1> QED BY <1>1, <1>2, <1>5, <1>6, <1>7 DEF Frame

-----------------------------------------------------------------------------
(* What a move makes of the operation, whatever kind of move it is.        *)

Moves(c) == \/ Turns(c)
            \/ c = Closer /\ (Closes \/ Settles)
            \/ c = Refresher /\ Swaps

Shaped(c) == /\ c \in Predictors => PredictorShape(op'[c])
             /\ c = Refresher => RefresherShape(op'[c])
             /\ c = Closer => CloserShape(op'[c])
             /\ op'[c].pc # "reap" => op'[c].reap = {}
             /\ Owns(op'[c]) => op'[c].work \in Workers

(* Where its worker, its lease and its reap list come from.                *)
WorkFrom(c) == \/ op'[c].work \in {op[c].work, Nobody}
               \/ \E g \in Generations : op'[c].work = table[g]
OwnsFrom(c) == Owns(op'[c]) => Owns(op[c]) /\ op'[c].work = op[c].work
LeaseFrom(c) ==
    c \in Predictors /\ op'[c].lease = "attached" =>
        \/ op'[c].work = op[c].work /\ (op[c].lease = "attached" \/ op[c].pc = "ready")
        \/ \E g \in Generations : op'[c].work = table[g] /\ ~wk[table[g]].retired
ReapFrom(c) ==
    c = Refresher => \/ op'[c].reap = {} \/ Swaps
                     \/ Owns(op[c]) /\ Owns(op'[c]) /\ op'[c].reap = {op[c].work}
PhaseFrom(c) ==
    /\ op'[c].pc # "ready"
    /\ op'[c].pc = "spawn" => c # Closer /\ ~closing
    /\ c = Closer => op'[c].pc \in {"idle", "settle"} \/ Closes \/ Settles
    /\ c = Closer /\ op'[c].pc = "settle" => closing'

Sound(c) == Shaped(c) /\ WorkFrom(c) /\ OwnsFrom(c) /\ LeaseFrom(c) /\ ReapFrom(c) /\ PhaseFrom(c)

LEMMA OverSound ==
  ASSUME OwnerType, NEW c \in Callers, Over(c)
  PROVE  Sound(c)
  <1>1. PICK w : /\ Leaves(c, w)
                 /\ w = op[c].work \/ \E g \in Generations : w = table[g]
    BY DEF Over
  <1>2. CASE op'[c] = Idle
    <2>1. /\ op'[c].pc = "idle" /\ op'[c].work = Nobody /\ op'[c].lease = "none"
          /\ op'[c].reap = {}
      BY <1>2 DEF Idle
    <2>2. Shaped(c)
      BY <2>1 DEF Shaped, PredictorShape, RefresherShape, CloserShape, Owns, Waiting
    <2> QED BY <2>1, <2>2 DEF Sound, WorkFrom, OwnsFrom, LeaseFrom, ReapFrom, PhaseFrom, Owns
  <1>3. CASE c \in Predictors /\ w \in Workers /\ op'[c] = LastReap(w)
    <2>1. /\ op'[c].pc = "reap" /\ op'[c].work = w /\ op'[c].lease = "none"
          /\ op'[c].then = "idle"
      BY <1>3, LastReapTyped
    <2>2. Shaped(c)
      BY <1>3, <2>1, Distinct
      DEF Shaped, PredictorShape, RefresherShape, CloserShape, Owns, Waiting, Starts
    <2> QED BY <1>1, <1>3, <2>1, <2>2, Distinct
        DEF Sound, WorkFrom, OwnsFrom, LeaseFrom, ReapFrom, PhaseFrom, Owns, Starts
  <1> QED BY <1>1, <1>2, <1>3 DEF Leaves

LEMMA QueuesSound ==
  ASSUME OpType, OpShape, OwnerType, NEW c \in Callers, Queues(c), op[c].reap = {}
  PROVE  Sound(c)
  <1>1. PICK w \in Workers :
          /\ op'[c] = [op[c] EXCEPT !.pc = "queue", !.work = w, !.lease = "attached"]
          /\ \/ op[c].pc = "ready" /\ w = op[c].work
             \/ op[c].pc = "start" /\ w = table[op[c].gen] /\ ~wk[w].retired
    BY DEF Queues
  <1>2. op[c] \in Operation /\ c \in Predictors /\ c # Refresher /\ c # Closer
    BY OperationOf, Distinct DEF Queues
  <1>3. /\ op'[c].pc = "queue" /\ op'[c].work = w /\ op'[c].lease = "attached"
        /\ op'[c].reap = {}
    BY <1>1, <1>2 DEF Operation
  <1>4. Shaped(c)
    BY <1>2, <1>3 DEF Shaped, PredictorShape, Owns, Waiting
  <1>5. op[c].gen \in Generations
    BY <1>1, <1>2 DEF OpShape, PredictorShape, Waiting
  <1> QED BY <1>1, <1>2, <1>3, <1>4, <1>5
      DEF Sound, WorkFrom, OwnsFrom, LeaseFrom, ReapFrom, PhaseFrom, Owns

LEMMA ReservesSound ==
  ASSUME NEW c \in Callers, Reserves(c)
  PROVE  Sound(c)
  <1>1. c \in Predictors /\ c # Refresher /\ c # Closer /\ active \in Generations
    BY Distinct DEF Reserves
  <1>2. CASE /\ table[active] \in Workers /\ ~wk[table[active]].retired
             /\ op'[c] = [Idle EXCEPT !.pc = "queue", !.gen = active,
                                      !.work = table[active], !.lease = "attached"]
    <2>1. /\ op'[c].pc = "queue" /\ op'[c].work = table[active] /\ op'[c].lease = "attached"
          /\ op'[c].reap = {}
      BY <1>2 DEF Idle
    <2>2. Shaped(c)
      BY <1>1, <1>2, <2>1 DEF Shaped, PredictorShape, Owns, Waiting
    <2> QED BY <1>1, <1>2, <2>1, <2>2
        DEF Sound, WorkFrom, OwnsFrom, LeaseFrom, ReapFrom, PhaseFrom, Owns
  <1>3. CASE op'[c] = [Idle EXCEPT !.pc = "start", !.gen = active, !.lease = "pending"]
    <2>1. /\ op'[c].pc = "start" /\ op'[c].work = Nobody /\ op'[c].lease = "pending"
          /\ op'[c].gen = active /\ op'[c].reap = {}
      BY <1>3 DEF Idle
    <2>2. Shaped(c)
      BY <1>1, <2>1 DEF Shaped, PredictorShape, Owns, Waiting
    <2> QED BY <1>1, <2>1, <2>2
        DEF Sound, WorkFrom, OwnsFrom, LeaseFrom, ReapFrom, PhaseFrom, Owns
  <1> QED BY <1>2, <1>3 DEF Reserves

LEMMA PreparesSound ==
  ASSUME NEW c \in Callers, Prepares(c)
  PROVE  Sound(c)
  <1>1. c = Refresher /\ c \notin Predictors /\ c # Closer
    BY Distinct DEF Prepares
  <1>2. PICK pc \in {"start", "publish"}, g \in Generations :
          op'[c] = [Idle EXCEPT !.pc = pc, !.gen = g]
    BY DEF Prepares
  <1>3. /\ op'[c].pc = pc /\ op'[c].gen = g /\ op'[c].work = Nobody
        /\ op'[c].lease = "none" /\ op'[c].reap = {}
    BY <1>2 DEF Idle
  <1>4. Shaped(c)
    BY <1>1, <1>2, <1>3 DEF Shaped, RefresherShape, Owns, Waiting
  <1> QED BY <1>1, <1>2, <1>3, <1>4
      DEF Sound, WorkFrom, OwnsFrom, LeaseFrom, ReapFrom, PhaseFrom, Owns

LEMMA ProceedsSound ==
  ASSUME OpType, OpShape, NEW c \in Callers, Proceeds(c), op[c].reap = {}
  PROVE  Sound(c)
  <1>1. PICK pc \in Steps : /\ op'[c] = [op[c] EXCEPT !.pc = pc]
                            /\ \/ op[c].pc = "start" /\ pc = "thread"
                               \/ op[c].pc = "thread" /\ pc = "spawn" /\ ~closing
                               \/ c \in Predictors /\ op[c].pc = "queue" /\ pc = "request"
                               \/ c = Closer /\ op[c].pc = "idle" /\ pc = "settle" /\ closing'
                               \/ c = Closer /\ op[c].pc = "settle" /\ pc = "idle"
    BY DEF Proceeds
  <1>2. op[c] \in Operation  BY OperationOf
  <1>3. /\ op'[c].pc = pc /\ op'[c].gen = op[c].gen /\ op'[c].work = op[c].work
        /\ op'[c].lease = op[c].lease /\ op'[c].reap = {}
    BY <1>1, <1>2 DEF Operation
  <1>4. /\ c = Closer => op[c].pc \notin {"start", "thread"}
        /\ pc \in {"thread", "spawn", "request", "settle", "idle"}
        /\ pc = "spawn" => ~closing
    BY <1>1 DEF OpShape, CloserShape
  <1>5. Shaped(c)
    <2>1. CASE c \in Predictors
      <3>1. c # Closer /\ c # Refresher  BY <2>1, Distinct
      <3>2. PredictorShape(op[c])  BY <2>1 DEF OpShape
      <3>3. PredictorShape(op'[c])
        BY <1>1, <1>3, <3>1, <3>2 DEF PredictorShape, Waiting
      <3> QED BY <1>1, <1>3, <3>1, <3>3 DEF Shaped, Owns
    <2>2. CASE c = Refresher
      <3>1. c # Closer /\ c \notin Predictors  BY <2>2, Distinct
      <3>2. RefresherShape(op[c])  BY <2>2 DEF OpShape
      <3>3. RefresherShape(op'[c])
        BY <1>1, <1>3, <3>1, <3>2 DEF RefresherShape, Waiting
      <3> QED BY <1>1, <1>3, <3>1, <3>3 DEF Shaped, Owns
    <2>3. CASE c = Closer
      <3>1. c # Refresher /\ c \notin Predictors  BY <2>3, Distinct
      <3>2. CloserShape(op[c])  BY <2>3 DEF OpShape
      <3>3. CloserShape(op'[c])
        BY <1>1, <1>3, <3>1, <3>2 DEF CloserShape
      <3> QED BY <1>1, <1>3, <3>1, <3>3 DEF Shaped, Owns
    <2> QED BY <2>1, <2>2, <2>3 DEF Callers
  <1>6. ~Owns(op'[c])  BY <1>3, <1>4 DEF Owns
  <1>7. WorkFrom(c) /\ OwnsFrom(c) /\ LeaseFrom(c) /\ ReapFrom(c)
    BY <1>3, <1>6 DEF WorkFrom, OwnsFrom, LeaseFrom, ReapFrom
  <1>8. PhaseFrom(c)
    BY <1>1, <1>3, <1>4, Distinct DEF PhaseFrom
  <1> QED BY <1>5, <1>7, <1>8 DEF Sound

LEMMA GivesUpSound ==
  ASSUME OpType, OpShape, NEW c \in Callers, GivesUp(c)
  PROVE  Sound(c)
  <1>1. op[c] \in Operation /\ op[c].pc \in {"ready", "request"}
    BY OperationOf DEF GivesUp
  <1>2. c # Closer  BY <1>1 DEF OpShape, CloserShape
  <1>3. op[c].work \in Workers
    BY <1>1, Distinct DEF GivesUp, OpShape, PredictorShape, Owns
  <1>4. PICK then \in {"startFailed", "release"} :
           /\ op'[c] = Reaping(op[c], {op[c].work}, then)
           /\ \/ then = "startFailed" /\ op[c].pc = "ready"
              \/ then = "release" /\ op[c].pc = "request" /\ c \in Predictors
    BY DEF GivesUp
  <1>5. /\ op'[c].pc = "reap" /\ op'[c].then = then /\ op'[c].gen = op[c].gen
        /\ op'[c].work = op[c].work /\ op'[c].lease = op[c].lease
        /\ op'[c].reap = {op[c].work}
    BY <1>1, <1>4 DEF Reaping, Operation
  <1>6. Shaped(c)
    <2>1. CASE c \in Predictors
      <3>1. c # Refresher  BY <2>1, Distinct
      <3>2. PredictorShape(op[c])  BY <2>1 DEF OpShape
      <3>3. PredictorShape(op'[c])
        BY <1>3, <1>4, <1>5, <3>2 DEF PredictorShape, Waiting, Starts
      <3> QED BY <1>2, <1>3, <1>5, <3>1, <3>3 DEF Shaped
    <2>2. CASE c = Refresher
      <3>1. c \notin Predictors  BY <2>2, Distinct
      <3>2. RefresherShape(op[c])  BY <2>2 DEF OpShape
      <3>3. RefresherShape(op'[c])
        BY <1>4, <1>5, <3>1, <3>2 DEF RefresherShape, Waiting, Starts
      <3> QED BY <1>2, <1>3, <1>5, <3>1, <3>3 DEF Shaped
    <2> QED BY <1>2, <2>1, <2>2 DEF Callers
  <1>7. Owns(op'[c]) => Owns(op[c])
    BY <1>4, <1>5 DEF Owns, Starts
  <1>8. WorkFrom(c) /\ OwnsFrom(c)
    BY <1>5, <1>7 DEF WorkFrom, OwnsFrom
  <1>9. LeaseFrom(c)  BY <1>5 DEF LeaseFrom
  <1>10. ReapFrom(c)
    <2>1. ASSUME c = Refresher PROVE Owns(op[c]) /\ Owns(op'[c])
      BY <1>4, <1>5, <2>1, Distinct DEF Owns, Starts
    <2> QED BY <1>5, <2>1 DEF ReapFrom
  <1>11. PhaseFrom(c)  BY <1>2, <1>5 DEF PhaseFrom
  <1> QED BY <1>6, <1>8, <1>9, <1>10, <1>11 DEF Sound

LEMMA EndsSound ==
  ASSUME OpType, OpShape, Closes \/ Settles
  PROVE  Sound(Closer)
  <1>1. Closer # Refresher /\ Closer \notin Predictors /\ op[Closer] \in Operation
    BY Distinct, OperationOf
  <1>2. /\ ~Owns(op'[Closer])
        /\ op'[Closer].work \in {op[Closer].work, Nobody}
        /\ CloserShape(op'[Closer]) /\ op'[Closer].pc \in {"closed", "reap"}
        /\ op'[Closer].pc # "reap" => op'[Closer].reap = {}
    <2>1. CASE Closes
      <3>1. /\ op'[Closer].pc = "closed" /\ op'[Closer].work = Nobody /\ ~op'[Closer].failed
            /\ op'[Closer].lease = "none" /\ op'[Closer].reap = {}
        BY <2>1 DEF Closes, Idle
      <3> QED BY <3>1 DEF CloserShape, Owns
    <2>2. CASE Settles
      <3>1. op[Closer].lease = "none"  BY DEF OpShape, CloserShape
      <3>2. /\ op'[Closer].pc = "reap" /\ op'[Closer].work = op[Closer].work
            /\ op'[Closer].then = "closed" /\ op'[Closer].lease = op[Closer].lease
        BY <1>1, <2>2 DEF Settles, Reaping, Operation
      <3> QED BY <3>1, <3>2 DEF CloserShape, Owns, Starts
    <2> QED BY <2>1, <2>2
  <1>3. Shaped(Closer)  BY <1>1, <1>2 DEF Shaped
  <1> QED BY <1>1, <1>2, <1>3 DEF Sound, WorkFrom, OwnsFrom, LeaseFrom, ReapFrom, PhaseFrom

LEMMA SwapsSound ==
  ASSUME Swaps
  PROVE  Sound(Refresher)
  <1>1. Closer # Refresher /\ Refresher \notin Predictors  BY Distinct
  <1>2. /\ op'[Refresher].pc = "reap" /\ op'[Refresher].then = "idle"
        /\ op'[Refresher].lease = "none" /\ op'[Refresher].work = Nobody
    BY DEF Swaps, Reaping, Idle
  <1>3. ~Owns(op'[Refresher])  BY <1>2 DEF Owns, Starts
  <1>4. Shaped(Refresher)
    BY <1>1, <1>2, <1>3 DEF Shaped, RefresherShape, Waiting
  <1> QED BY <1>1, <1>2, <1>3, <1>4
      DEF Sound, WorkFrom, OwnsFrom, LeaseFrom, ReapFrom, PhaseFrom

LEMMA MovesSound ==
  ASSUME OpType, OpShape, OwnerType, NEW c \in Callers, Moves(c), Frame(c)
  PROVE  Sound(c)
  <1>1. op[c].reap = {}  BY DEF Frame
  <1> QED BY <1>1, OverSound, QueuesSound, ReservesSound, PreparesSound, ProceedsSound,
             GivesUpSound, EndsSound, SwapsSound DEF Moves, Turns

-----------------------------------------------------------------------------
(* What every move preserves.                                              *)

LEMMA MovesShape ==
  ASSUME OpShape, NEW c \in Callers, Alters(c), Shaped(c)
  PROVE  OpShape'
  <1>1. Shaped(c)  OBVIOUS
  <1>2. \A d \in Callers : d # c => op'[d] = op[d]  BY DEF Alters
  <1>3. \A p \in Predictors : PredictorShape(op'[p])
    BY <1>1, <1>2, Distinct DEF OpShape, Shaped
  <1>4. RefresherShape(op'[Refresher]) /\ CloserShape(op'[Closer])
    BY <1>1, <1>2, Distinct DEF OpShape, Shaped
  <1>5. ASSUME NEW d \in Callers
        PROVE  /\ op'[d].pc # "reap" => op'[d].reap = {}
               /\ Owns(op'[d]) => op'[d].work \in Workers
    BY <1>1, <1>2 DEF OpShape, Shaped
  <1> QED BY <1>3, <1>4, <1>5 DEF OpShape, PredictorShape, RefresherShape, CloserShape, Owns

LEMMA MovesWorkers ==
  ASSUME WkType, WorkerShape, NEW c \in Callers, Frame(c)
  PROVE  WorkerShape'
  <1> SUFFICES ASSUME NEW w \in Workers
               PROVE  /\ wk'[w].alive => wk'[w].gen # Nobody /\ ~wk'[w].reaped
                      /\ wk'[w].reaper # Nobody =>
                            w \in op'[wk'[w].reaper].reap /\ ~wk'[w].reaped
    BY DEF WorkerShape
  <1>1. /\ wk'[w].gen = wk[w].gen /\ wk'[w].alive = wk[w].alive
        /\ wk'[w].reaper = wk[w].reaper /\ wk'[w].reaped = wk[w].reaped
    BY DEF Frame, Quiet, Kept
  <1>2. ASSUME wk[w].reaper # Nobody
        PROVE  op'[wk[w].reaper] = op[wk[w].reaper]
    <2>1. w \in op[wk[w].reaper].reap  BY <1>2 DEF WorkerShape
    <2>2. wk[w].reaper # c /\ wk[w].reaper \in Callers
      BY <1>2, <2>1, ProcessOf DEF Frame
    <2> QED BY <2>2 DEF Frame, Alters
  <1> QED BY <1>1, <1>2 DEF WorkerShape

LEMMA MovesTable ==
  ASSUME OpShape, OwnerType, TableShape, WorkerShape, NEW c \in Callers, Frame(c), TableFrom(c)
  PROVE  TableShape'
  <1> SUFFICES ASSUME NEW g \in Generations, table'[g] # Nobody
               PROVE  wk'[table'[g]].gen # Nobody /\ ~wk'[table'[g]].reaped
    BY DEF TableShape
  <1>1. \A w \in Workers : wk'[w].gen = wk[w].gen /\ wk'[w].reaped = wk[w].reaped
    BY DEF Frame, Quiet, Kept
  <1>2. CASE table'[g] = table[g]
    BY <1>1, <1>2 DEF OwnerType, TableShape
  <1>3. CASE op[c].pc = "ready" /\ wk[op[c].work].alive /\ table'[g] = op[c].work
    <2>1. op[c].work \in Workers  BY <1>3 DEF OpShape, Owns
    <2> QED BY <1>1, <1>3, <2>1 DEF WorkerShape
  <1> QED BY <1>2, <1>3 DEF TableFrom, OwnerType

LEMMA MovesAlone ==
  ASSUME OpShape, OwnerType, Alone, NEW c \in Callers, Frame(c), TableFrom(c), Sound(c)
  PROVE  Alone'
  <1> SUFFICES ASSUME NEW d \in Callers, Owns(op'[d])
               PROVE  /\ \A g \in Generations : table'[g] # op'[d].work
                      /\ \A e \in Callers \ {d} : op'[e].work # op'[d].work
    BY DEF Alone, Owns
  <1>1. \A e \in Callers : e # c => op'[e] = op[e]  BY DEF Frame, Alters
  <1>2. CASE d = c
    <2>1. Owns(op[c]) /\ op'[c].work = op[c].work
      BY <1>2 DEF Sound, OwnsFrom
    <2>2. table' = table  BY <1>2 DEF TableFrom
    <2> QED BY <1>1, <1>2, <2>1, <2>2 DEF Alone
  <1>3. CASE d # c
    <2>1. op'[d] = op[d] /\ Owns(op[d]) /\ op[d].work \in Workers
      BY <1>1, <1>3 DEF OpShape
    <2>2. /\ \A g \in Generations : table[g] # op[d].work
          /\ \A e \in Callers \ {d} : op[e].work # op[d].work
      BY <2>1 DEF Alone
    <2>3. ASSUME NEW g \in Generations PROVE table'[g] # op[d].work
      <3>1. table'[g] = table[g] \/ table'[g] = op[c].work
        BY DEF TableFrom, OwnerType
      <3> QED BY <1>3, <2>2, <3>1
    <2>4. ASSUME NEW e \in Callers \ {d} PROVE op'[e].work # op[d].work
      <3>1. CASE e # c
        BY <1>1, <2>2, <3>1
      <3>2. CASE e = c
        <4>1. WorkFrom(c)  BY DEF Sound
        <4> QED BY <1>3, <2>1, <2>2, <3>2, <4>1, Distinct DEF WorkFrom
      <3> QED BY <3>1, <3>2
    <2> QED BY <2>1, <2>3, <2>4
  <1> QED BY <1>2, <1>3

(* A worker that some prediction holds has a lease.                        *)
Users(w) == {p \in Predictors : op[p].lease = "attached" /\ op[p].work = w}
Waiters(g) == {p \in Predictors : op[p].lease = "pending" /\ op[p].gen = g}

LEMMA Accounted ==
  LeasesAccounted <=> /\ \A w \in Workers : wk[w].leases = lost[w] + Cardinality(Users(w))
                      /\ \A g \in Generations : pending[g] = lost[g] + Cardinality(Waiters(g))
  BY DEF LeasesAccounted, Users, Waiters

(* Anything in a finite set is counted.                                    *)
LEMMA Counts ==
  ASSUME NEW U, U \subseteq Predictors
  PROVE  /\ IsFiniteSet(U) /\ Cardinality(U) \in Nat
         /\ \A p \in U : Cardinality(U) >= 1
  <1>1. IsFiniteSet(U)  BY WorkersAssumption, FS_Subset
  <1>2. Cardinality(U) \in Nat  BY <1>1, FS_CardinalityType
  <1>3. Cardinality(U) = 0 <=> U = {}  BY <1>1, FS_EmptySet
  <1> QED BY <1>1, <1>2, <1>3

LEMMA UserCounts ==
  ASSUME CountType, LeasesAccounted, NEW p \in Predictors, NEW w \in Workers,
         op[p].lease = "attached", op[p].work = w
  PROVE  wk[w].leases # 0
  <1>1. Users(w) \subseteq Predictors /\ p \in Users(w)  BY DEF Users
  <1>2. Cardinality(Users(w)) \in Nat /\ Cardinality(Users(w)) >= 1  BY <1>1, Counts
  <1>3. wk[w].leases = lost[w] + Cardinality(Users(w))  BY Accounted
  <1>4. lost[w] \in Nat  BY DEF CountType
  <1> QED BY <1>2, <1>3, <1>4

LEMMA MovesNotCut ==
  ASSUME OpType, OwnerType, CountType, OpShape, LeasesAccounted, TableShape, Alone, NotCut,
         NEW c \in Callers, Frame(c), TableFrom(c), Sound(c), Moves(c)
  PROVE  NotCut'
  <1> SUFFICES ASSUME NEW w \in op'[Refresher].reap, w \notin caught'
               PROVE  /\ wk'[w].retired \/ \A g \in Generations : table'[g] # w
                      /\ \A p \in Predictors : /\ op'[p].lease = "attached" => op'[p].work # w
                                               /\ op'[p].pc = "ready" => op'[p].work # w
    BY DEF NotCut
  <1>0. Refresher \in Callers /\ Refresher \notin Predictors  BY Distinct
  <1>1. \A d \in Callers : d # c => op'[d] = op[d]  BY DEF Frame, Alters
  <1>2. w \notin caught /\ w \in Workers
    <2>1. op'[Refresher].reap \subseteq Workers
      <3>1. op'[Refresher] \in Operation  BY <1>0 DEF Frame, OpType
      <3> QED BY <3>1 DEF Operation
    <2> QED BY <2>1 DEF Frame
  <1>3. CASE c = Refresher
    <2>1. \A p \in Predictors : op'[p] = op[p]
      BY <1>0, <1>1, <1>3, Distinct
    <2>2. CASE Owns(op[c]) /\ Owns(op'[c]) /\ op'[c].reap = {op[c].work}
      <3>1. w = op[c].work /\ table' = table
        BY <1>3, <2>2 DEF TableFrom
      <3>2. \A g \in Generations : table[g] # w
        BY <2>2, <3>1 DEF Alone
      <3>3. \A p \in Predictors : op[p].work # w
        BY <1>0, <1>3, <2>2, <3>1, Distinct DEF Alone
      <3> QED BY <2>1, <3>1, <3>2, <3>3
    <2>3. CASE Swaps
      <3> DEFINE others == Owned \ {table[op[Refresher].gen]}
      <3>1. w \in Unleased(others)
        BY <2>3, IdleTyped DEF Swaps, Reaping, Operation
      <3>2. w \in others /\ wk[w].leases = 0  BY <3>1 DEF Unleased
      <3>3. wk'[w].retired  BY <2>3, <3>2 DEF Swaps
      <3>4. w \notin Starting  BY <2>3, <3>1 DEF Swaps
      <3>5. ASSUME NEW p \in Predictors, op[p].pc = "ready" PROVE op[p].work # w
        BY <3>2, <3>4, <3>5, Distinct DEF Starting
      <3>6. ASSUME NEW p \in Predictors, op[p].lease = "attached" PROVE op[p].work # w
        BY <1>2, <3>2, <3>6, UserCounts
      <3> QED BY <2>1, <3>3, <3>5, <3>6
    <2> QED BY <1>3, <2>2, <2>3 DEF Sound, ReapFrom
  <1>4. CASE c # Refresher
    <2>1. w \in op[Refresher].reap \ caught
      BY <1>0, <1>1, <1>2, <1>4
    <2>2. /\ wk[w].retired \/ \A g \in Generations : table[g] # w
          /\ \A p \in Predictors : /\ op[p].lease = "attached" => op[p].work # w
                                   /\ op[p].pc = "ready" => op[p].work # w
      BY <2>1 DEF NotCut
    <2>3. wk'[w].retired \/ \A g \in Generations : table'[g] # w
      <3>1. wk[w].retired => wk'[w].retired  BY <1>2 DEF Frame, Quiet, Kept
      <3>2. ASSUME op[c].pc = "ready" PROVE op[c].work # w
        <4>1. c \in Predictors
          BY <1>4, <3>2 DEF OpShape, CloserShape, Callers
        <4> QED BY <2>2, <3>2, <4>1
      <3>3. ASSUME NEW g \in Generations, table[g] # w PROVE table'[g] # w
        <4>1. table'[g] = table[g] \/ (op[c].pc = "ready" /\ table'[g] = op[c].work)
          BY DEF TableFrom, OwnerType
        <4> QED BY <3>2, <3>3, <4>1
      <3> QED BY <2>2, <3>1, <3>3
    <2>4. ASSUME NEW p \in Predictors
          PROVE  /\ op'[p].lease = "attached" => op'[p].work # w
                 /\ op'[p].pc = "ready" => op'[p].work # w
      <3>1. CASE p # c
        BY <1>1, <2>2, <3>1, Distinct
      <3>2. CASE p = c
        <4>1. op'[p].pc # "ready"  BY <3>2 DEF Sound, PhaseFrom
        <4>2. ASSUME op'[p].lease = "attached" PROVE op'[p].work # w
          BY <2>2, <3>2, <4>2 DEF Sound, LeaseFrom
        <4> QED BY <4>1, <4>2
      <3> QED BY <3>1, <3>2
    <2> QED BY <2>3, <2>4
  <1> QED BY <1>3, <1>4

(* What a move puts on a list to be reaped is retired, or was never        *)
(* registered.                                                             *)
Condemns(c) == \A w \in op'[c].reap : wk'[w].retired \/ (Owns(op'[c]) /\ w = op'[c].work)

LEMMA MovesCondemn ==
  ASSUME OpType, OpShape, NEW c \in Callers, Moves(c), Frame(c), Sound(c)
  PROVE  Condemns(c)
  <1>0. op[c] \in Operation /\ op[c].reap = {}  BY OperationOf DEF Frame
  <1>1. CASE Over(c)
    <2>1. PICK w : Leaves(c, w)  BY <1>1 DEF Over
    <2>2. CASE op'[c] = Idle
      BY <2>2 DEF Condemns, Idle
    <2>3. CASE w \in Workers /\ op'[c] = LastReap(w) /\ wk'[w].retired
      BY <2>3, LastReapTyped DEF Condemns
    <2> QED BY <2>1, <2>2, <2>3 DEF Leaves
  <1>2. CASE GivesUp(c)
    <2>1. PICK then \in {"startFailed", "release"} :
             /\ op'[c] = Reaping(op[c], {op[c].work}, then)
             /\ then = "startFailed" \/ wk'[op[c].work].retired
      BY <1>2 DEF GivesUp
    <2>2. /\ op'[c].pc = "reap" /\ op'[c].then = then /\ op'[c].work = op[c].work
          /\ op'[c].reap = {op[c].work}
      BY <1>0, <2>1 DEF Reaping, Operation
    <2> QED BY <2>1, <2>2 DEF Condemns, Owns, Starts
  <1>3. CASE op'[c].reap = {}
    BY <1>3 DEF Condemns
  <1>4. CASE c = Refresher /\ Swaps
    <2> DEFINE others == Owned \ {table[op[Refresher].gen]}
    <2>1. op'[c].reap = Unleased(others)
      BY <1>4, IdleTyped DEF Swaps, Reaping, Operation
    <2> QED BY <1>4, <2>1 DEF Condemns, Swaps, Unleased
  <1>5. CASE c = Closer /\ Settles
    <2>1. op'[c].reap = Owned
      BY <1>0, <1>5 DEF Settles, Reaping, Operation
    <2> QED BY <1>5, <2>1 DEF Condemns, Settles
  <1>6. CASE Queues(c) \/ Reserves(c) \/ Prepares(c) \/ Proceeds(c) \/ (c = Closer /\ Closes)
    <2>1. op'[c].pc # "reap"
      BY <1>0, <1>6 DEF Queues, Reserves, Prepares, Proceeds, Closes, Idle, Operation
    <2>2. op'[c].reap = {}  BY <2>1 DEF Sound, Shaped
    <2> QED BY <1>3, <2>2
  <1> QED BY <1>1, <1>2, <1>4, <1>5, <1>6 DEF Moves, Turns

LEMMA MovesLinked ==
  ASSUME OpType, OpShape, OwnerType, Linked, Alone',
         NEW c \in Callers, Moves(c), Frame(c), TableFrom(c), Sound(c)
  PROVE  Linked'
  <1> SUFFICES ASSUME NEW w \in Workers, Held(w)', Doomed(w)'
               PROVE  wk'[w].retired
    BY DEF Linked
  <1>1. \A d \in Callers : d # c => op'[d] = op[d]  BY DEF Frame, Alters
  <1>2. wk'[w].connected = wk[w].connected /\ (wk[w].retired => wk'[w].retired)
    BY DEF Frame, Quiet, Kept
  <1>3. op'[c].pc # "ready"  BY DEF Sound, PhaseFrom
  <1>4. Held(w)
    <2>1. CASE \E g \in Generations : table'[g] = w
      <3>1. PICK g \in Generations : table'[g] = w  BY <2>1
      <3>2. table[g] = w \/ (op[c].pc = "ready" /\ op[c].work = w)
        BY <3>1 DEF TableFrom, OwnerType
      <3> QED BY <3>2 DEF Held
    <2>2. CASE \E d \in Callers : op'[d].pc = "ready" /\ op'[d].work = w
      BY <1>1, <1>3, <2>2 DEF Held
    <2> QED BY <2>1, <2>2 DEF Held
  <1>5. CASE Doomed(w)
    BY <1>2, <1>4, <1>5 DEF Linked
  <1>6. CASE w \in op'[c].reap
    <2>1. CASE Owns(op'[c]) /\ w = op'[c].work
      <3>1. /\ \A g \in Generations : table'[g] # w
            /\ \A d \in Callers \ {c} : op'[d].work # w
        BY <2>1 DEF Alone, Owns
      <3> QED BY <1>3, <3>1 DEF Held
    <2> QED BY <1>6, <2>1, MovesCondemn DEF Condemns
  <1> QED BY <1>1, <1>2, <1>5, <1>6 DEF Doomed

LEMMA MovesClosed ==
  ASSUME WorkerShape, Closed,
         NEW c \in Callers, Frame(c), Sound(c), Moves(c)
  PROVE  Closed'
  <1>1. \A d \in Callers : d # c => op'[d] = op[d]  BY DEF Frame, Alters
  <1>2. \A w \in Workers : wk'[w].alive = wk[w].alive  BY DEF Frame, Quiet, Kept
  <1>3. closing => closing'  BY DEF Frame
  <1>4. PhaseFrom(c)  BY DEF Sound
  <1>5. CASE c # Closer
    <2>1. op'[Closer] = op[Closer]  BY <1>1, <1>5, Distinct
    <2>2. op[Closer].pc \in {"settle", "reap", "closed"} => closing'
      BY <1>3 DEF Closed
    <2>3. ASSUME op[Closer].pc \in {"reap", "closed"}, NEW d \in Callers
          PROVE  op'[d].pc # "spawn"
      <3>1. closing  BY <2>3 DEF Closed
      <3> QED BY <1>1, <1>4, <2>3, <3>1 DEF Closed, PhaseFrom
    <2> QED BY <1>2, <2>1, <2>2, <2>3 DEF Closed
  <1>6. CASE c = Closer
    <2>1. CASE op'[c].pc \in {"idle", "settle"}
      BY <1>4, <1>6, <2>1 DEF PhaseFrom, Closed
    <2>2. CASE Closes
      <3>1. op'[Closer].pc = "closed"
        BY <2>2 DEF Closes, Idle
      <3>2. closing /\ \A d \in Callers : op[d].pc # "spawn"
        BY <2>2 DEF Closes, Closed
      <3>3. \A d \in Callers : op'[d].pc # "spawn"
        BY <1>1, <1>6, <3>1, <3>2
      <3>4. \A w \in Workers : ~wk[w].alive
        BY <1>6, <2>2 DEF Closes, Closed, Frame
      <3> QED BY <1>2, <1>3, <3>2, <3>3, <3>4 DEF Closed
    <2>3. CASE Settles
      <3>1. op'[Closer].pc = "reap" /\ op'[Closer].reap = Owned
        <4>1. op'[Closer] \in Operation  BY Distinct DEF Frame, OpType
        <4> QED BY <2>3, <4>1 DEF Settles, Reaping, Operation
      <3>2. closing  BY <2>3 DEF Settles, Closed
      <3>3. \A d \in Callers : op[d].pc # "spawn"
        BY <2>3 DEF Settles, Spawning
      <3>4. \A d \in Callers : op'[d].pc # "spawn"
        BY <1>1, <1>6, <3>1, <3>3
      <3>5. \A w \in Workers : wk[w].alive => w \in Owned
        BY DEF WorkerShape, Owned
      <3> QED BY <1>2, <1>3, <3>1, <3>2, <3>4, <3>5 DEF Closed
    <2> QED BY <1>4, <1>6, <2>1, <2>2, <2>3 DEF PhaseFrom
  <1> QED BY <1>5, <1>6

-----------------------------------------------------------------------------
(* Leases: a count n of which l are lost, the others held by predictions.  *)
(* A step of one caller changes it as it starts or stops to hold one.      *)
Tally(n, n1, l, l1, held, holds) ==
    \/ n1 = n /\ l1 = l /\ (held <=> holds)
    \/ n1 = n + 1 /\ l1 = l /\ ~held /\ holds
    \/ n1 = n + 1 /\ l1 = l + 1 /\ ~held /\ ~holds
    \/ n1 \in {Lower(n), n - 1} /\ l1 = l /\ held /\ ~holds

LEMMA Balance ==
  ASSUME NEW c, NEW U, NEW V, U \subseteq Predictors, V \subseteq Predictors, U \ {c} = V \ {c},
         NEW l \in Nat, NEW n, NEW n1, NEW l1,
         n = l + Cardinality(U), Tally(n, n1, l, l1, c \in U, c \in V)
  PROVE  n1 = l1 + Cardinality(V) /\ n1 \in Nat /\ l1 \in Nat
  <1>1. /\ IsFiniteSet(U) /\ IsFiniteSet(V)
        /\ Cardinality(U) \in Nat /\ Cardinality(V) \in Nat
        /\ c \in U => Cardinality(U) >= 1
    BY Counts
  <1>2. CASE c \in U <=> c \in V
    <2>1. U = V  BY <1>2
    <2> QED BY <1>1, <1>2, <2>1 DEF Tally
  <1>3. CASE c \notin U /\ c \in V
    <2>1. V = U \union {c}  BY <1>3
    <2>2. Cardinality(V) = Cardinality(U) + 1  BY <1>1, <1>3, <2>1, FS_AddElement
    <2> QED BY <1>1, <1>3, <2>2 DEF Tally
  <1>4. CASE c \in U /\ c \notin V
    <2>1. V = U \ {c}  BY <1>4
    <2>2. Cardinality(V) = Cardinality(U) - 1  BY <1>1, <1>4, <2>1, FS_RemoveElement
    <2> QED BY <1>1, <1>4, <2>2 DEF Tally, Lower
  <1> QED BY <1>2, <1>3, <1>4

Counted(c) ==
    /\ \A w \in Workers :
          Tally(wk[w].leases, wk'[w].leases, lost[w], lost'[w], c \in Users(w), c \in Users(w)')
    /\ \A g \in Generations :
          Tally(pending[g], pending'[g], lost[g], lost'[g], c \in Waiters(g), c \in Waiters(g)')

(* A worker that becomes superseded and unused is listed to be reaped.     *)
Reclaims(c) ==
    \A w \in Workers : wk'[w].retired /\ wk'[w].leases = 0 =>
        \/ wk[w].retired /\ wk[w].leases = 0
        \/ w \in op'[c].reap

(* The counters stay tables, and a step keeps the books.                   *)
Tables == /\ pending' = [g \in Generations |-> pending'[g]]
          /\ lost' = [x \in Workers \union Generations |-> lost'[x]]
Books(c) == Counted(c) /\ Reclaims(c) /\ Tables

LEMMA BooksBalance ==
  ASSUME CountType, LeasesAccounted, NEW c \in Callers, Alters(c), Counted(c), Tables,
         faults' \in Nat
  PROVE  LeasesAccounted' /\ CountType'
  <1>1. \A d \in Predictors : d # c => op'[d] = op[d]
    BY Distinct DEF Alters
  <1>2. ASSUME NEW w \in Workers
        PROVE  wk'[w].leases = lost'[w] + Cardinality(Users(w)') /\ lost'[w] \in Nat
    <2> DEFINE U == Users(w)
               V == Users(w)'
    <2>1. U \subseteq Predictors /\ V \subseteq Predictors  BY DEF Users
    <2>2. U \ {c} = V \ {c}  BY <1>1 DEF Users
    <2>3. wk[w].leases = lost[w] + Cardinality(U)  BY Accounted
    <2>4. lost[w] \in Nat  BY DEF CountType
    <2>5. Tally(wk[w].leases, wk'[w].leases, lost[w], lost'[w], c \in U, c \in V)
      BY DEF Counted
    <2> HIDE DEF U, V
    <2>6. wk'[w].leases = lost'[w] + Cardinality(V) /\ lost'[w] \in Nat
      BY <2>1, <2>2, <2>3, <2>4, <2>5, Balance
    <2> QED BY <2>6 DEF V
  <1>3. ASSUME NEW g \in Generations
        PROVE  /\ pending'[g] = lost'[g] + Cardinality(Waiters(g)')
               /\ pending'[g] \in Nat /\ lost'[g] \in Nat
    <2> DEFINE U == Waiters(g)
               V == Waiters(g)'
    <2>1. U \subseteq Predictors /\ V \subseteq Predictors  BY DEF Waiters
    <2>2. U \ {c} = V \ {c}  BY <1>1 DEF Waiters
    <2>3. pending[g] = lost[g] + Cardinality(U)  BY Accounted
    <2>4. lost[g] \in Nat  BY DEF CountType
    <2>5. Tally(pending[g], pending'[g], lost[g], lost'[g], c \in U, c \in V)
      BY DEF Counted
    <2> HIDE DEF U, V
    <2>6. pending'[g] = lost'[g] + Cardinality(V) /\ lost'[g] \in Nat /\ pending'[g] \in Nat
      BY <2>1, <2>2, <2>3, <2>4, <2>5, Balance
    <2> QED BY <2>6 DEF V
  <1>4. LeasesAccounted'
    BY <1>2, <1>3 DEF LeasesAccounted, Users, Waiters
  <1>5. pending' \in [Generations -> Nat] /\ lost' \in [Workers \union Generations -> Nat]
    BY <1>2, <1>3 DEF Tables
  <1> QED BY <1>4, <1>5 DEF CountType

(* Nothing is counted, reserved or given back.                             *)
LEMMA SameBooks ==
  ASSUME CountType, NEW c \in Callers, pending' = pending, lost' = lost,
         \A w \in Workers : wk'[w].leases = wk[w].leases,
         c \in Predictors => \/ /\ op'[c].lease = op[c].lease /\ op'[c].work = op[c].work
                                /\ op'[c].gen = op[c].gen
                             \/ op'[c].lease = "none" /\ op[c].lease = "none"
  PROVE  Counted(c) /\ Tables
  <1>1. ASSUME NEW w \in Workers PROVE c \in Users(w) <=> c \in Users(w)'
    BY DEF Users
  <1>2. ASSUME NEW g \in Generations PROVE c \in Waiters(g) <=> c \in Waiters(g)'
    BY DEF Waiters
  <1>3. Counted(c)  BY <1>1, <1>2 DEF Counted, Tally
  <1> QED BY <1>3 DEF Tables, CountType

(* A lease is given back: Return, from the workers in base.                *)
LEMMA ReturnCounts ==
  ASSUME OpType, NEW p \in Predictors, NEW w \in Workers, NEW base \in [Workers -> Process],
         Return(p, w, TRUE, base)
  PROVE  /\ op'[p].lease = "none"
         /\ \A v \in Workers \ {w} : wk'[v] = base[v]
         /\ wk'[w].leases = Lower(base[w].leases)
         /\ wk'[w].retired /\ wk'[w].leases = 0 => w \in op'[p].reap
  <1>1. /\ op'[p] = IF base[w].retired /\ base[w].leases <= 1 THEN LastReap(w) ELSE Idle
        /\ wk'[w].leases = Lower(base[w].leases) /\ wk'[w].retired = base[w].retired
        /\ \A v \in Workers \ {w} : wk'[v] = base[v]
    BY ReturnMoves, ReturnKeeps
  <1>2. LastReap(w).lease = "none" /\ Idle.lease = "none" /\ LastReap(w).reap = {w}
    BY LastReapTyped DEF Idle
  <1>3. base[w].leases \in Nat  BY DEF Process
  <1>4. Lower(base[w].leases) = 0 <=> base[w].leases <= 1
    BY <1>3 DEF Lower
  <1> QED BY <1>1, <1>2, <1>4

(* The lease of p on worker w is given back, from workers with the same    *)
(* leases.                                                                 *)
LEMMA ReturnBooks ==
  ASSUME OpType, WkType, CountType, NEW p \in Predictors, NEW w \in Workers,
         op[p].lease = "attached", op[p].work = w,
         NEW base \in [Workers -> Process], Return(p, w, TRUE, base),
         \A v \in Workers : base[v].leases = wk[v].leases /\ base[v].retired = wk[v].retired,
         pending' = pending, lost' = lost
  PROVE  Books(p)
  <1>1. /\ op'[p].lease = "none"
        /\ \A v \in Workers \ {w} : wk'[v] = base[v]
        /\ wk'[w].leases = Lower(base[w].leases)
        /\ wk'[w].retired /\ wk'[w].leases = 0 => w \in op'[p].reap
    BY ReturnCounts
  <1>2. \A v \in Workers : (p \in Users(v) <=> v = w) /\ p \notin Users(v)'
    BY <1>1 DEF Users
  <1>3. \A g \in Generations : p \notin Waiters(g) /\ p \notin Waiters(g)'
    BY <1>1 DEF Waiters
  <1>4. Counted(p)  BY <1>1, <1>2, <1>3 DEF Counted, Tally
  <1>5. Reclaims(p)  BY <1>1 DEF Reclaims
  <1> QED BY <1>4, <1>5 DEF Books, Tables, CountType

LEMMA FailsBooks ==
  ASSUME OpType, WkType, CountType, OpShape, NEW c \in Predictors \union {Refresher}, Fails(c),
         c \in Predictors => op[c].lease # "none", lost' = lost
  PROVE  Books(c)
  <1>0. c \in Callers  BY Distinct
  <1>1. CASE c \in Predictors /\ op[c].lease = "attached"
    <2>1. op[c].work \in Workers  BY <1>1 DEF OpShape, PredictorShape
    <2>2. Return(c, op[c].work, TRUE, wk) /\ pending' = pending
      BY <1>1 DEF Fails
    <2>3. wk \in [Workers -> Process]  BY DEF WkType
    <2> QED BY <1>1, <2>1, <2>2, <2>3, ReturnBooks
  <1>2. CASE c \in Predictors /\ op[c].lease = "pending"
    <2> DEFINE g == op[c].gen
    <2>1. g \in Generations  BY <1>2 DEF OpShape, PredictorShape
    <2>2. wk' = wk /\ op' = [op EXCEPT ![c] = Idle]
      BY <1>2 DEF Fails, Return
    <2>3. pending' = [pending EXCEPT ![g] = Lower(pending[g])]
      BY <1>2 DEF Fails, Lower
    <2>4. op'[c].lease = "none"
      <3>1. op'[c] = Idle  BY <1>0, <2>2, Altered
      <3> QED BY <3>1 DEF Idle
    <2>5. \A v \in Workers : c \notin Users(v) /\ c \notin Users(v)'
      BY <1>2, <2>4 DEF Users
    <2>6. \A h \in Generations : (c \in Waiters(h) <=> h = g) /\ c \notin Waiters(h)'
      BY <1>2, <2>4 DEF Waiters
    <2>7. /\ pending'[g] = Lower(pending[g])
          /\ \A h \in Generations \ {g} : pending'[h] = pending[h]
          /\ pending' = [h \in Generations |-> pending'[h]]
      BY <2>1, <2>3 DEF CountType
    <2> HIDE DEF g
    <2>8. Counted(c)  BY <2>2, <2>5, <2>6, <2>7 DEF Counted, Tally
    <2>9. Reclaims(c)  BY <2>2 DEF Reclaims
    <2> QED BY <2>7, <2>8, <2>9 DEF Books, Tables, CountType
  <1>3. CASE c = Refresher
    <2>1. wk' = wk /\ pending' = pending /\ op' = [op EXCEPT ![c] = Idle]
      BY <1>3, Distinct DEF Fails
    <2>2. Counted(c) /\ Tables
      BY <1>0, <1>3, <2>1, Distinct, SameBooks
    <2> QED BY <2>1, <2>2 DEF Books, Reclaims
  <1> QED BY <1>0, <1>1, <1>2, <1>3, OperationOf

LEMMA StartedBooks ==
  ASSUME OpType, WkType, CountType, NEW c \in Predictors \union {Refresher}, NEW w \in Workers,
         Started(c, w), op[c].gen \in Generations,
         c \in Predictors => op[c].lease = "pending", lost' = lost
  PROVE  Books(c)
  <1>0. c \in Callers  BY Distinct
  <1>1. CASE c \in Predictors
    <2> DEFINE g == op[c].gen
               base == Attached(c, w)
    <2>1. /\ base \in [Workers -> Process] /\ base[w].leases = wk[w].leases + 1
          /\ \A v \in Workers \ {w} : base[v] = wk[v]
      BY AttachedKeeps
    <2>2. pending' = [pending EXCEPT ![g] = pending[g] - 1]
      BY <1>1 DEF Started
    <2>3. /\ pending'[g] = pending[g] - 1
          /\ \A h \in Generations \ {g} : pending'[h] = pending[h]
          /\ pending' = [h \in Generations |-> pending'[h]]
      BY <2>2 DEF CountType
    <2>4. wk[w].leases \in Nat  BY ProcessOf
    <2>5. CASE Return(c, w, TRUE, base)
      <3>1. /\ op'[c].lease = "none"
            /\ \A v \in Workers \ {w} : wk'[v] = base[v]
            /\ wk'[w].leases = Lower(base[w].leases)
            /\ wk'[w].retired /\ wk'[w].leases = 0 => w \in op'[c].reap
        <4> HIDE DEF base
        <4> QED BY <1>1, <2>1, <2>5, ReturnCounts
      <3> HIDE DEF base, g
      <3>2. wk'[w].leases = wk[w].leases  BY <2>1, <2>4, <3>1 DEF Lower
      <3>3. \A v \in Workers : c \notin Users(v) /\ c \notin Users(v)'
        BY <1>1, <3>1 DEF Users
      <3>4. \A h \in Generations : (c \in Waiters(h) <=> h = g) /\ c \notin Waiters(h)'
        BY <1>1, <3>1 DEF Waiters, g
      <3>5. Counted(c)  BY <2>1, <2>3, <3>1, <3>2, <3>3, <3>4 DEF Counted, Tally
      <3>6. Reclaims(c)  BY <2>1, <3>1 DEF Reclaims
      <3> QED BY <2>3, <3>5, <3>6 DEF Books, Tables, CountType
    <2>6. CASE wk' = base
               /\ op' = [op EXCEPT ![c] = [@ EXCEPT !.pc = "queue", !.work = w, !.lease = "attached"]]
      <3> DEFINE r == [op[c] EXCEPT !.pc = "queue", !.work = w, !.lease = "attached"]
      <3>1. op'[c] = r
        <4>1. op' = [op EXCEPT ![c] = r]  BY <2>6
        <4> QED BY <1>0, <4>1, Altered
      <3>2. op'[c].lease = "attached" /\ op'[c].work = w
        <4>1. op[c] \in Operation  BY <1>0, OperationOf
        <4> QED BY <3>1, <4>1 DEF Operation
      <3> HIDE DEF base, g, r
      <3>3. \A v \in Workers : c \notin Users(v) /\ (c \in Users(v)' <=> v = w)
        BY <1>1, <3>2 DEF Users
      <3>4. \A h \in Generations : (c \in Waiters(h) <=> h = g) /\ c \notin Waiters(h)'
        BY <1>1, <3>2 DEF Waiters, g
      <3>5. Counted(c)  BY <2>1, <2>3, <2>6, <3>3, <3>4 DEF Counted, Tally
      <3>6. Reclaims(c)  BY <2>1, <2>4, <2>6 DEF Reclaims
      <3> QED BY <2>3, <3>5, <3>6 DEF Books, Tables, CountType
    <2> QED BY <1>1, <2>5, <2>6 DEF Started
  <1>2. CASE c = Refresher
    <2>1. wk' = wk /\ pending' = pending
      BY <1>2, Distinct DEF Started
    <2>2. Counted(c) /\ Tables
      BY <1>0, <1>2, <2>1, Distinct, SameBooks
    <2> QED BY <2>1, <2>2 DEF Books, Reclaims
  <1> QED BY <1>1, <1>2

LEMMA ReserveBooks ==
  ASSUME OpType, WkType, OwnerType, CountType, OpShape, NEW p \in Predictors, Reserve(p)
  PROVE  Books(p) /\ faults' \in Nat
  <1>0. /\ p \in Callers /\ op[p].pc = "idle" /\ active \in Generations
        /\ active \notin Workers
    BY Distinct, WorkersAssumption DEF Reserve, OwnerType
  <1>1. op[p].lease = "none"
    BY <1>0, OperationOf DEF OpShape, PredictorShape, Waiting
  <1>2. PICK expired \in BOOLEAN :
        /\ faults' = faults + IF expired THEN 1 ELSE 0
        /\ IF Usable(active)
           THEN /\ wk' = [wk EXCEPT ![table[active]].leases = @ + 1]
                /\ lost' = IF expired THEN [lost EXCEPT ![table[active]] = @ + 1] ELSE lost
                /\ op' = [op EXCEPT ![p] = IF expired THEN Idle
                            ELSE [Idle EXCEPT !.pc = "queue", !.gen = active,
                                              !.work = table[active], !.lease = "attached"]]
                /\ pending' = pending
           ELSE /\ pending' = [pending EXCEPT ![active] = @ + 1]
                /\ lost' = IF expired THEN [lost EXCEPT ![active] = @ + 1] ELSE lost
                /\ op' = [op EXCEPT ![p] = IF expired THEN Idle
                            ELSE [Idle EXCEPT !.pc = "start", !.gen = active, !.lease = "pending"]]
                /\ wk' = wk
    BY DEF Reserve
  <1>3. faults' \in Nat  BY <1>2 DEF CountType
  <1>4. ASSUME NEW v \in Workers PROVE p \notin Users(v)
    BY <1>1 DEF Users
  <1>5. ASSUME NEW g \in Generations PROVE p \notin Waiters(g)
    BY <1>1 DEF Waiters
  <1>6. CASE Usable(active)
    <2> DEFINE w == table[active]
    <2>1. w \in Workers  BY <1>0, <1>6 DEF Usable, OwnerType
    <2>2. wk' = [wk EXCEPT ![w] = [wk[w] EXCEPT !.leases = wk[w].leases + 1]]
      BY <1>2, <1>6, <2>1 DEF WkType
    <2>3. /\ wk'[w].leases = wk[w].leases + 1
          /\ \A v \in Workers \ {w} : wk'[v] = wk[v]
      <3>1. wk[w] \in Process  BY <2>1, ProcessOf
      <3> QED BY <2>1, <2>2, <3>1 DEF WkType, Process
    <2>4. /\ expired => op'[p].lease = "none"
          /\ ~expired => op'[p].lease = "attached" /\ op'[p].work = w
      <3> DEFINE r == [Idle EXCEPT !.pc = "queue", !.gen = active,
                                   !.work = w, !.lease = "attached"]
      <3>1. Idle.lease = "none" /\ r.lease = "attached" /\ r.work = w
        BY DEF Idle
      <3>2. /\ expired => op' = [op EXCEPT ![p] = Idle]
            /\ ~expired => op' = [op EXCEPT ![p] = r]
        BY <1>2, <1>6
      <3> HIDE DEF r
      <3>3. (expired => op'[p] = Idle) /\ (~expired => op'[p] = r)
        BY <1>0, <3>2, Altered
      <3> QED BY <3>1, <3>3
    <2>6. /\ lost'[w] = lost[w] + (IF expired THEN 1 ELSE 0)
          /\ \A x \in (Workers \union Generations) \ {w} : lost'[x] = lost[x]
          /\ lost' = [x \in Workers \union Generations |-> lost'[x]]
      BY <1>2, <1>6, <2>1 DEF CountType
    <2>7. pending' = pending  BY <1>2, <1>6
    <2>8. wk[w].leases \in Nat  BY <2>1, ProcessOf
    <2>9. \A g \in Generations : g # w  BY <2>1, WorkersAssumption
    <2> HIDE DEF w
    <2>10. \A v \in Workers : p \in Users(v)' <=> ~expired /\ v = w
      BY <2>4 DEF Users
    <2>11. \A g \in Generations : p \notin Waiters(g)'
      BY <2>4 DEF Waiters
    <2>12. Counted(p)
      <3>1. ASSUME NEW v \in Workers
            PROVE  Tally(wk[v].leases, wk'[v].leases, lost[v], lost'[v], p \in Users(v), p \in Users(v)')
        <4>1. CASE v = w
          BY <1>4, <2>1, <2>3, <2>6, <2>10, <4>1 DEF Tally, CountType
        <4>2. CASE v # w
          BY <1>4, <2>3, <2>6, <2>10, <4>2 DEF Tally
        <4> QED BY <4>1, <4>2
      <3>2. ASSUME NEW g \in Generations
            PROVE  Tally(pending[g], pending'[g], lost[g], lost'[g], p \in Waiters(g), p \in Waiters(g)')
        BY <1>5, <2>6, <2>7, <2>9, <2>11 DEF Tally
      <3> QED BY <3>1, <3>2 DEF Counted
    <2>13. Reclaims(p)  BY <2>3, <2>8 DEF Reclaims
    <2> QED BY <1>3, <2>6, <2>7, <2>12, <2>13 DEF Books, Tables, CountType
  <1>7. CASE ~Usable(active)
    <2>1. wk' = wk  BY <1>2, <1>7
    <2>2. /\ expired => op'[p].lease = "none"
          /\ ~expired => op'[p].lease = "pending" /\ op'[p].gen = active
      <3> DEFINE r == [Idle EXCEPT !.pc = "start", !.gen = active, !.lease = "pending"]
      <3>1. Idle.lease = "none" /\ r.lease = "pending" /\ r.gen = active
        BY DEF Idle
      <3>2. /\ expired => op' = [op EXCEPT ![p] = Idle]
            /\ ~expired => op' = [op EXCEPT ![p] = r]
        BY <1>2, <1>7
      <3> HIDE DEF r
      <3>3. (expired => op'[p] = Idle) /\ (~expired => op'[p] = r)
        BY <1>0, <3>2, Altered
      <3> QED BY <3>1, <3>3
    <2>4. /\ lost'[active] = lost[active] + (IF expired THEN 1 ELSE 0)
          /\ \A x \in (Workers \union Generations) \ {active} : lost'[x] = lost[x]
          /\ lost' = [x \in Workers \union Generations |-> lost'[x]]
      BY <1>0, <1>2, <1>7 DEF CountType
    <2>5. /\ pending'[active] = pending[active] + 1
          /\ \A g \in Generations \ {active} : pending'[g] = pending[g]
          /\ pending' = [g \in Generations |-> pending'[g]]
      BY <1>0, <1>2, <1>7 DEF CountType
    <2>6. \A v \in Workers : p \notin Users(v)'
      BY <2>2 DEF Users
    <2>7. \A g \in Generations : p \in Waiters(g)' <=> ~expired /\ g = active
      BY <2>2 DEF Waiters
    <2>8. Counted(p)
      <3>1. ASSUME NEW v \in Workers
            PROVE  Tally(wk[v].leases, wk'[v].leases, lost[v], lost'[v], p \in Users(v), p \in Users(v)')
        BY <1>0, <1>4, <2>1, <2>4, <2>6 DEF Tally
      <3>2. ASSUME NEW g \in Generations
            PROVE  Tally(pending[g], pending'[g], lost[g], lost'[g], p \in Waiters(g), p \in Waiters(g)')
        <4>1. CASE g = active
          BY <1>5, <2>4, <2>5, <2>7, <4>1 DEF Tally, CountType
        <4>2. CASE g # active
          BY <1>5, <2>4, <2>5, <2>7, <4>2 DEF Tally
        <4> QED BY <4>1, <4>2
      <3> QED BY <3>1, <3>2 DEF Counted
    <2>9. Reclaims(p)  BY <2>1 DEF Reclaims
    <2> QED BY <1>3, <2>4, <2>5, <2>8, <2>9 DEF Books, Tables
  <1> QED BY <1>6, <1>7

LEMMA AnswerBooks ==
  ASSUME OpType, WkType, CountType, OpShape, NEW p \in Predictors, Answer(p)
  PROVE  Books(p)
  <1> DEFINE w == op[p].work
  <1>1. op[p].pc = "request" /\ pending' = pending /\ lost' = lost
    BY DEF Answer, owner, history
  <1>2. op[p].lease = "attached" /\ w \in Workers
    BY <1>1 DEF OpShape, PredictorShape
  <1>3. Return(p, w, TRUE, wk) /\ wk \in [Workers -> Process]
    BY DEF Answer, WkType
  <1> QED BY <1>1, <1>2, <1>3, ReturnBooks

LEMMA Carries ==
  ASSUME OpType, NEW c \in Callers, Proceeds(c) \/ GivesUp(c)
  PROVE  op'[c].lease = op[c].lease /\ op'[c].work = op[c].work /\ op'[c].gen = op[c].gen
  <1>1. op[c] \in Operation  BY OperationOf
  <1> QED BY <1>1 DEF Proceeds, GivesUp, Reaping, Operation

(* Steps that carry their lease on and leave the workers alone.            *)
LEMMA CarriedBooks ==
  ASSUME OpType, CountType, NEW c \in Callers, Proceeds(c) \/ GivesUp(c),
         wk' = wk, pending' = pending, lost' = lost
  PROVE  Books(c)
  <1>1. op'[c].lease = op[c].lease /\ op'[c].work = op[c].work /\ op'[c].gen = op[c].gen
    BY Carries
  <1>2. Counted(c) /\ Tables  BY <1>1, SameBooks
  <1> QED BY <1>2 DEF Books, Reclaims

LEMMA RequestBooks ==
  ASSUME OpType, WkType, CountType, OpShape, NEW p \in Predictors, Request(p) \/ RequestFails(p)
  PROVE  Books(p)
  <1> DEFINE w == op[p].work
  <1>1. /\ p \in Callers /\ op[p].pc \in {"queue", "request"}
        /\ pending' = pending /\ lost' = lost
    BY Distinct DEF Request, RequestFails, owner, history
  <1>2. op[p].lease = "attached" /\ w \in Workers
    BY <1>1 DEF OpShape, PredictorShape
  <1>3. wk[w] \in Process /\ wk \in [Workers -> Process] /\ op[p] \in Operation
    BY <1>1, <1>2, ProcessOf, OperationOf DEF WkType
  <1>4. \A v \in Workers : /\ wk'[v].leases = wk[v].leases
                           /\ v # w \/ Request(p) => wk'[v].retired = wk[v].retired
    <2>1. \A v \in Workers : v # w => wk'[v] = wk[v]
      BY <1>3 DEF Request, RequestFails
    <2>2. CASE Request(p)
      <3>1. wk' = [wk EXCEPT ![w] = [wk[w] EXCEPT !.user = p]]
        BY <1>2, <1>3, <2>2 DEF Request, Process
      <3>2. wk'[w].leases = wk[w].leases /\ wk'[w].retired = wk[w].retired
        BY <1>2, <1>3, <3>1 DEF Process
      <3> QED BY <2>1, <3>2
    <2>3. CASE RequestFails(p)
      <3>1. wk' = [wk EXCEPT ![w] = [wk[w] EXCEPT !.retired = TRUE]]
        BY <1>2, <1>3, <2>3 DEF RequestFails, Retired
      <3>2. wk'[w].leases = wk[w].leases
        BY <1>2, <1>3, <3>1 DEF Process
      <3>3. ~Request(p)
        BY <2>3 DEF Request, RequestFails
      <3> QED BY <2>1, <3>2, <3>3
    <2> QED BY <2>2, <2>3
  <1>5. /\ op'[p].lease = op[p].lease /\ op'[p].work = op[p].work /\ op'[p].gen = op[p].gen
        /\ RequestFails(p) => op'[p].reap = {w}
    <2>1. CASE Request(p)
      <3>1. op' = [op EXCEPT ![p].pc = "request"]  BY <2>1 DEF Request, Goto
      <3>2. op'[p] = [op[p] EXCEPT !.pc = "request"]  BY <1>1, <3>1 DEF OpType
      <3>3. ~RequestFails(p)
        BY <2>1 DEF Request, RequestFails
      <3> QED BY <1>3, <3>2, <3>3 DEF Operation
    <2>2. CASE RequestFails(p)
      <3>1. op'[p] = Reaping(op[p], {w}, "release")
        BY <1>1, <2>2 DEF RequestFails, OpType
      <3> QED BY <1>3, <3>1 DEF Reaping, Operation
    <2> QED BY <2>1, <2>2
  <1>6. Counted(p) /\ Tables
    BY <1>1, <1>4, <1>5, SameBooks
  <1>7. Reclaims(p)
    BY <1>4, <1>5 DEF Reclaims
  <1> QED BY <1>6, <1>7 DEF Books

LEMMA PredictBooks ==
  ASSUME OpType, WkType, OwnerType, CountType, OpShape, NEW p \in Predictors, Predict(p)
  PROVE  Books(p) /\ faults' \in Nat
  <1>1. CASE Reserve(p)  BY <1>1, ReserveBooks
  <1>2. CASE Answer(p)
    <2>1. faults' = faults  BY <1>2 DEF Answer, history
    <2> QED BY <1>2, <2>1, AnswerBooks DEF CountType
  <1>3. CASE Request(p) \/ RequestFails(p)
    <2>1. faults' = faults  BY <1>3 DEF Request, RequestFails, history
    <2> QED BY <1>3, <2>1, RequestBooks DEF CountType
  <1>4. CASE NoRequest(p)
    <2>1. Fails(p) /\ op[p].pc = "queue" /\ lost' = lost /\ faults' = faults
      BY <1>4 DEF NoRequest, history
    <2>2. op[p].lease # "none"  BY <2>1 DEF OpShape, PredictorShape
    <2> QED BY <2>1, <2>2, FailsBooks DEF CountType
  <1> QED BY <1>1, <1>2, <1>3, <1>4 DEF Predict

LEMMA PrepareBooks ==
  ASSUME OpType, WkType, OwnerType, CountType, OpShape, NEW c \in Predictors \union {Refresher},
         Prepare(c), ~\E w \in Workers : Spawned(c, w)
  PROVE  Books(c) /\ faults' \in Nat
  <1>1. op[c].pc \in Waiting /\ lost' = lost /\ faults' = faults
    BY DEF Prepare, Start, StartExpires, EnterSpawn, SpawnFails, Ready, NotReady, Waiting, history
  <1>2. faults' \in Nat  BY <1>1 DEF CountType
  <1>3. c \in Predictors => op[c].lease = "pending"
    BY <1>1 DEF OpShape, PredictorShape
  <1>4. /\ c \in Callers /\ op[c].gen \in Generations
        /\ op[c].pc = "ready" => op[c].work \in Workers
    BY <1>1, StarterOf
  <1>5. CASE Fails(c)
    BY <1>1, <1>2, <1>3, <1>5, FailsBooks
  <1>6. CASE Start(c)
    <2>1. CASE Usable(op[c].gen)
      <3>1. table[op[c].gen] \in Workers  BY <1>4, <2>1 DEF Usable, OwnerType
      <3>2. Started(c, table[op[c].gen])  BY <1>6, <2>1 DEF Start
      <3> QED BY <1>1, <1>2, <1>3, <1>4, <3>1, <3>2, StartedBooks
    <2>2. CASE ~Usable(op[c].gen)
      <3>1. wk' = wk /\ pending' = pending /\ op[c].pc = "start" /\ Goto(c, "thread")
        BY <1>6, <2>2 DEF Start
      <3>2. op'[c] = [op[c] EXCEPT !.pc = "thread"]
        BY <1>4, <3>1, GoesOn DEF Steps
      <3>3. Proceeds(c)  BY <3>1, <3>2 DEF Proceeds, Steps
      <3> QED BY <1>1, <1>2, <1>4, <3>1, <3>3, CarriedBooks
    <2> QED BY <2>1, <2>2
  <1>7. CASE EnterSpawn(c) /\ ~closing
    <2>1. wk' = wk /\ pending' = pending /\ op[c].pc = "thread" /\ Goto(c, "spawn")
      BY <1>7 DEF EnterSpawn
    <2>2. op'[c] = [op[c] EXCEPT !.pc = "spawn"]
      BY <1>4, <2>1, GoesOn DEF Steps
    <2>3. Proceeds(c)  BY <1>7, <2>1, <2>2 DEF Proceeds, Steps
    <2> QED BY <1>1, <1>2, <1>4, <2>1, <2>3, CarriedBooks
  <1>8. CASE /\ op[c].pc = "ready" /\ wk' = wk /\ pending' = pending
             /\ op' = [op EXCEPT ![c] = Reaping(@, {op[c].work}, "startFailed")]
    <2>1. op'[c] = Reaping(op[c], {op[c].work}, "startFailed")
      BY <1>4, <1>8 DEF OpType
    <2>2. GivesUp(c)  BY <1>8, <2>1 DEF GivesUp
    <2> QED BY <1>1, <1>2, <1>4, <1>8, <2>2, CarriedBooks
  <1>9. CASE op[c].pc = "ready" /\ Started(c, op[c].work)
    BY <1>1, <1>2, <1>3, <1>4, <1>9, StartedBooks
  <1>10. CASE Ready(c)
    BY <1>8, <1>9, <1>10 DEF Ready, owner
  <1>11. CASE NotReady(c)
    <2>1. op \in [Callers -> Operation]  BY DEF OpType
    <2> QED BY <1>4, <1>8, <1>11, <2>1 DEF NotReady, owner
  <1>12. CASE StartExpires(c) \/ SpawnFails(c) \/ (EnterSpawn(c) /\ closing)
    BY <1>5, <1>12 DEF StartExpires, SpawnFails, EnterSpawn
  <1> QED BY <1>6, <1>7, <1>10, <1>11, <1>12 DEF Prepare

LEMMA AfterReapBooks ==
  ASSUME OpType, WkType, CountType, OpShape, NEW c \in Callers, AfterReap(c)
  PROVE  Books(c) /\ faults' \in Nat
  <1>1. op[c].pc = "reap" /\ lost' = lost /\ faults' = faults
    BY DEF AfterReap, history
  <1>2. faults' \in Nat  BY <1>1 DEF CountType
  <1>3. CASE Fails(c) /\ op[c].then \in Starts \union {"release"}
    <2>1. c \in Predictors \union {Refresher}
      BY <1>1, <1>3 DEF OpShape, CloserShape, Callers, Starts
    <2>2. c \in Predictors => op[c].lease # "none"
      BY <1>1, <1>3 DEF OpShape, PredictorShape
    <2> QED BY <1>1, <1>2, <1>3, <2>1, <2>2, FailsBooks
  <1>4. CASE /\ op[c].then \in {"idle", "closed"} /\ wk' = wk /\ pending' = pending
             /\ op' = [op EXCEPT ![c] = IF op[c].then = "closed" /\ ~op[c].failed
                                        THEN [Idle EXCEPT !.pc = "closed"] ELSE Idle]
    <2>1. ASSUME c \in Predictors
          PROVE  op'[c].lease = "none" /\ op[c].lease = "none"
      <3>1. op[c].then = "idle" /\ op[c].lease = "none"
        BY <1>1, <1>4, <2>1, OperationOf DEF OpShape, PredictorShape, Starts, Waiting
      <3>2. op' = [op EXCEPT ![c] = Idle]  BY <1>4, <3>1
      <3>3. op'[c] = Idle  BY <3>2, Altered
      <3> QED BY <3>1, <3>3 DEF Idle
    <2>2. Counted(c) /\ Tables
      BY <1>1, <1>4, <2>1, SameBooks
    <2>3. Reclaims(c)  BY <1>4 DEF Reclaims
    <2> QED BY <1>2, <2>2, <2>3 DEF Books
  <1> QED BY <1>3, <1>4 DEF AfterReap, owner, Starts

LEMMA OthersBooks ==
  ASSUME OpType, WkType, CountType, OpShape,
         NEW c \in {Refresher, Closer}, pending' = pending, lost' = lost,
         \A w \in Workers : wk'[w].leases = wk[w].leases, Reclaims(c)
  PROVE  Books(c)
  <1>1. c \in Callers /\ c \notin Predictors  BY Distinct
  <1>2. Counted(c) /\ Tables  BY <1>1, SameBooks
  <1> QED BY <1>2 DEF Books

LEMMA PublishBooks ==
  ASSUME OpType, WkType, CountType, OpShape, Publish
  PROVE  Books(Refresher) /\ faults' \in Nat
  <1> DEFINE others == Owned \ {table[op[Refresher].gen]}
  <1>1. pending' = pending /\ lost' = lost /\ faults' = faults
    BY DEF Publish
  <1>2. CASE wk' = wk
    <2>1. Reclaims(Refresher)  BY <1>2 DEF Reclaims
    <2> QED BY <1>1, <1>2, <2>1, OthersBooks DEF CountType
  <1>3. CASE /\ wk' = [w \in Workers |-> IF w \in others THEN Retired(w) ELSE wk[w]]
             /\ op' = [op EXCEPT ![Refresher] = Reaping(Idle, Unleased(others), "idle")]
    <2>1. \A w \in Workers : /\ wk'[w].leases = wk[w].leases
                             /\ wk'[w].retired = (wk[w].retired \/ w \in others)
      <3> HIDE DEF others
      <3> QED BY <1>3, RetiredAll
    <2>2. op'[Refresher].reap = Unleased(others)
      <3>1. op'[Refresher] = Reaping(Idle, Unleased(others), "idle")
        BY <1>3, Distinct DEF OpType
      <3> QED BY <3>1 DEF Reaping, Idle
    <2>3. Reclaims(Refresher)  BY <2>1, <2>2 DEF Reclaims, Unleased
    <2> HIDE DEF others
    <2> QED BY <1>1, <2>1, <2>3, OthersBooks DEF CountType
  <1> QED BY <1>2, <1>3 DEF Publish

LEMMA CloseBooks ==
  ASSUME OpType, WkType, CountType, OpShape, Close
  PROVE  Books(Closer) /\ faults' \in Nat
  <1>1. pending' = pending /\ lost' = lost /\ faults' = faults
    BY DEF Close, BeginClose, CloseSettled, CloseExpires, owner, history
  <1>2. CASE wk' = wk
    <2>1. Reclaims(Closer)  BY <1>2 DEF Reclaims
    <2> QED BY <1>1, <1>2, <2>1, OthersBooks DEF CountType
  <1>3. CASE CloseSettled
    <2>1. \A w \in Workers : /\ wk'[w].leases = wk[w].leases
                             /\ wk'[w].retired = (wk[w].retired \/ w \in Owned)
      BY <1>3, RetiredAll DEF CloseSettled
    <2>2. op'[Closer].reap = Owned
      <3>1. op[Closer] \in Operation  BY Distinct, OperationOf
      <3>2. op'[Closer] = Reaping(op[Closer], Owned, "closed")
        BY <1>3, Distinct DEF CloseSettled, OpType
      <3> QED BY <3>1, <3>2 DEF Reaping, Operation
    <2>3. Reclaims(Closer)  BY <2>1, <2>2 DEF Reclaims
    <2> QED BY <1>1, <2>1, <2>3, OthersBooks DEF CountType
  <1> QED BY <1>2, <1>3 DEF Close, BeginClose, CloseExpires, owner

LEMMA BeginPrepareBooks ==
  ASSUME OpType, WkType, CountType, OpShape, NEW g \in Generations, BeginPrepare(g)
  PROVE  Books(Refresher) /\ faults' \in Nat
  <1>1. pending' = pending /\ lost' = lost /\ faults' = faults /\ wk' = wk
    BY DEF BeginPrepare, owner, history
  <1>2. Reclaims(Refresher)  BY <1>1 DEF Reclaims
  <1> QED BY <1>1, <1>2, OthersBooks DEF CountType

(* A superseded worker stays on a list through a move.                     *)
LEMMA MovesSuperseded ==
  ASSUME WkType, SupersededIsReaped, NEW c \in Callers, Frame(c), Reclaims(c)
  PROVE  SupersededIsReaped'
  <1> SUFFICES ASSUME NEW w \in Workers, w \in Owned', wk'[w].retired, wk'[w].leases = 0,
                      ~wk'[w].error
               PROVE  \E d \in Callers : w \in op'[d].reap
    BY DEF SupersededIsReaped, Owned
  <1>1. w \in Owned /\ ~wk[w].error
    BY DEF Frame, Quiet, Kept, Owned
  <1>2. CASE wk[w].retired /\ wk[w].leases = 0
    <2>1. PICK d \in Callers : w \in op[d].reap
      BY <1>1, <1>2 DEF SupersededIsReaped
    <2>2. d # c  BY <2>1 DEF Frame
    <2>3. op'[d] = op[d]  BY <2>2 DEF Frame, Alters
    <2> QED BY <2>1, <2>3
  <1>3. CASE w \in op'[c].reap
    BY <1>3
  <1> QED BY <1>2, <1>3 DEF Reclaims

(* A move keeps the whole invariant.                                       *)
LEMMA MovesInductive ==
  ASSUME OwnerInv, NEW c \in Callers, Moves(c), Frame(c), TableFrom(c), Books(c),
         faults' \in Nat, OwnerType', FlagType'
  PROVE  OwnerInv'
  <1>1. /\ OpType /\ WkType /\ OwnerType /\ CountType /\ OpShape /\ LeasesAccounted
        /\ WorkerShape /\ TableShape /\ Alone /\ NotCut /\ Closed /\ SupersededIsReaped
        /\ Linked
    BY Types DEF OwnerInv
  <1>2. Sound(c)  BY <1>1, MovesSound
  <1>3. Alters(c) /\ OpType' /\ WkType'  BY DEF Frame
  <1>4. Counted(c) /\ Reclaims(c) /\ Tables  BY DEF Books
  <1>5. LeasesAccounted' /\ CountType'  BY <1>1, <1>3, <1>4, BooksBalance
  <1>6. OpShape'
    <2>1. Shaped(c)  BY <1>2 DEF Sound
    <2> QED BY <1>1, <1>3, <2>1, MovesShape
  <1>7. WorkerShape'  BY <1>1, MovesWorkers
  <1>8. TableShape'  BY <1>1, MovesTable
  <1>9. Alone'  BY <1>1, <1>2, MovesAlone
  <1>10. NotCut'  BY <1>1, <1>2, MovesNotCut
  <1>11. Closed'  BY <1>1, <1>2, MovesClosed
  <1>12. SupersededIsReaped'  BY <1>1, <1>4, MovesSuperseded
  <1>13. TypeOK'
    <2>1. OpType' /\ WkType' /\ OwnerType' /\ CountType' /\ FlagType'
      BY <1>3, <1>5
    <2> QED BY <2>1, Types, PTL
  <1>14. Linked'  BY <1>1, <1>2, <1>9, MovesLinked
  <1> QED BY <1>5, <1>6, <1>7, <1>8, <1>9, <1>10, <1>11, <1>12, <1>13, <1>14 DEF OwnerInv

-----------------------------------------------------------------------------
(* A process comes to be.                                                  *)

(* What a spawn makes of the worker and of its caller's operation.         *)
Newborn(c, w) ==
    /\ wk'[w].gen = op[c].gen /\ wk'[w].alive /\ wk'[w].connected
    /\ wk'[w].leases = 0 /\ ~wk'[w].retired
    /\ wk'[w].reaper = Nobody /\ ~wk'[w].reaped
    /\ \A v \in Workers : v # w => wk'[v] = wk[v]

Bears(c, w) ==
    /\ Alters(c) /\ op'[c].work = w /\ op'[c].gen = op[c].gen /\ op'[c].lease = op[c].lease
    /\ \/ op'[c].pc = "ready" /\ op'[c].reap = {}
       \/ op'[c].pc = "reap" /\ op'[c].then \in Starts /\ op'[c].reap = {w}

LEMMA SpawnedMoves ==
  ASSUME OpType, WkType, OpShape, NEW c \in Predictors \union {Refresher}, NEW w \in Workers,
         Spawned(c, w)
  PROVE  Newborn(c, w) /\ Bears(c, w) /\ OpType' /\ WkType'
  <1>1. op[c].pc = "spawn"  BY DEF Spawned
  <1>2. c \in Callers /\ op[c] \in Operation /\ op[c].gen \in Generations /\ op[c].reap = {}
    BY <1>1, StarterOf DEF Waiting
  <1>3. Newborn(c, w) /\ WkType'
    <2> DEFINE r == [Unborn EXCEPT !.gen = op[c].gen, !.alive = TRUE, !.connected = TRUE]
    <2>1. wk' = [wk EXCEPT ![w] = r]  BY DEF Spawned
    <2>3. /\ r \in Process /\ r.gen = op[c].gen /\ r.alive /\ r.connected /\ r.leases = 0
          /\ ~r.retired /\ r.reaper = Nobody /\ ~r.reaped
      BY <1>2 DEF Process, Unborn
    <2> HIDE DEF r
    <2>4. wk'[w] = r /\ \A v \in Workers : v # w => wk'[v] = wk[v]
      BY <2>1 DEF WkType
    <2> QED BY <2>1, <2>3, <2>4 DEF Newborn, WkType
  <1>4. CASE op' = [op EXCEPT ![c] = [@ EXCEPT !.pc = "ready", !.work = w]]
    <2> DEFINE r == [op[c] EXCEPT !.pc = "ready", !.work = w]
    <2>1. op' = [op EXCEPT ![c] = r]  BY <1>4
    <2>2. /\ r \in Operation /\ r.pc = "ready" /\ r.work = w /\ r.gen = op[c].gen
          /\ r.lease = op[c].lease /\ r.reap = {}
      BY <1>2 DEF Operation, Steps
    <2> HIDE DEF r
    <2>3. op'[c] = r /\ Alters(c) /\ OpType'
      BY <1>2, <2>1, <2>2, Altered, AlteredTyped
    <2> QED BY <1>3, <2>2, <2>3 DEF Bears
  <1>5. ASSUME NEW then \in Starts,
               op' = [op EXCEPT ![c] = Reaping([@ EXCEPT !.work = w], {w}, then)]
        PROVE  Bears(c, w) /\ OpType'
    <2> DEFINE r == Reaping([op[c] EXCEPT !.work = w], {w}, then)
    <2>1. op' = [op EXCEPT ![c] = r]  BY <1>5
    <2>2. /\ r \in Operation /\ r.pc = "reap" /\ r.work = w /\ r.gen = op[c].gen
          /\ r.lease = op[c].lease /\ r.reap = {w} /\ r.then = then
      BY <1>2 DEF Operation, Steps, Reaping, Starts
    <2> HIDE DEF r
    <2>3. op'[c] = r /\ Alters(c) /\ OpType'
      BY <1>2, <2>1, <2>2, Altered, AlteredTyped
    <2> QED BY <2>2, <2>3 DEF Bears
  <1> QED BY <1>3, <1>4, <1>5 DEF Spawned, Starts

LEMMA SpawnedShape ==
  ASSUME OpShape, NEW c \in Predictors \union {Refresher}, NEW w \in Workers,
         op[c].pc = "spawn", Bears(c, w)
  PROVE  OpShape'
  <1>0. c \in Callers /\ c # Closer  BY Distinct
  <1>1. ASSUME c \in Predictors PROVE Shaped(c)
    <2>1. PredictorShape(op[c]) /\ c # Refresher  BY <1>1, Distinct DEF OpShape
    <2>2. PredictorShape(op'[c])
      BY <2>1 DEF PredictorShape, Bears, Waiting, Starts
    <2> QED BY <1>0, <2>1, <2>2 DEF Shaped, Bears
  <1>2. ASSUME c = Refresher PROVE Shaped(c)
    <2>1. RefresherShape(op[c]) /\ c \notin Predictors  BY <1>2, Distinct DEF OpShape
    <2>2. RefresherShape(op'[c])
      BY <2>1 DEF RefresherShape, Bears, Waiting, Starts
    <2> QED BY <1>0, <2>1, <2>2 DEF Shaped, Bears
  <1>3. Alters(c)  BY DEF Bears
  <1> QED BY <1>0, <1>1, <1>2, <1>3, MovesShape

LEMMA SpawnedInductive ==
  ASSUME OwnerInv, NEW c \in Predictors \union {Refresher}, NEW w \in Workers, Spawned(c, w)
  PROVE  OwnerInv'
  <1>1. /\ OpType /\ WkType /\ OwnerType /\ CountType /\ FlagType /\ OpShape
        /\ LeasesAccounted /\ WorkerShape /\ TableShape /\ Alone /\ NotCut /\ Closed
        /\ SupersededIsReaped /\ Linked
    BY Types DEF OwnerInv
  <1>2. Newborn(c, w) /\ Bears(c, w) /\ OpType' /\ WkType'
    BY <1>1, SpawnedMoves
  <1>3. /\ op[c].pc = "spawn" /\ Unused(w) /\ pending' = pending /\ table' = table
        /\ lost' = [lost EXCEPT ![w] = 0] /\ caught' = caught \ {w}
        /\ closing' = closing /\ active' = active /\ published' = published
        /\ starter' = starter /\ faults' = faults
    BY DEF Spawned, owner
  <1>4. /\ c \in Callers /\ c # Closer /\ op[c].gen \in Generations /\ op[c].reap = {}
        /\ c \in Predictors => op[c].lease = "pending"
    BY <1>1, <1>3, StarterOf, Distinct DEF Waiting, OpShape, PredictorShape
  <1>5. \A d \in Callers : d # c => op'[d] = op[d]
    BY <1>2 DEF Bears, Alters
  <1>6. /\ wk[w].gen = Nobody \/ wk[w].reaped
        /\ \A d \in Callers : op[d].work # w /\ w \notin op[d].reap
    BY <1>3 DEF Unused
  <1>7. \A g \in Generations : table[g] # w
    BY <1>1, <1>6, Distinct DEF TableShape
  <1>8. OpShape'  BY <1>1, <1>2, <1>3, SpawnedShape
  <1>9. WorkerShape'
    <2> SUFFICES ASSUME NEW v \in Workers
                 PROVE  /\ wk'[v].alive => wk'[v].gen # Nobody /\ ~wk'[v].reaped
                        /\ wk'[v].reaper # Nobody =>
                              v \in op'[wk'[v].reaper].reap /\ ~wk'[v].reaped
      BY DEF WorkerShape
    <2>1. CASE v = w
      BY <1>2, <1>4, <2>1, Distinct DEF Newborn
    <2>2. CASE v # w
      <3>1. wk'[v] = wk[v]  BY <1>2, <2>2 DEF Newborn
      <3>2. ASSUME wk[v].reaper # Nobody PROVE op'[wk[v].reaper] = op[wk[v].reaper]
        <4>1. v \in op[wk[v].reaper].reap  BY <1>1, <3>2 DEF WorkerShape
        <4>2. wk[v].reaper # c /\ wk[v].reaper \in Callers
          BY <1>1, <1>4, <3>2, <4>1, ProcessOf
        <4> QED BY <1>5, <4>2
      <3> QED BY <1>1, <3>1, <3>2 DEF WorkerShape
    <2> QED BY <2>1, <2>2
  <1>10. TableShape'
    BY <1>1, <1>2, <1>3, <1>7 DEF TableShape, OwnerType, Newborn
  <1>11. Alone'
    <2> SUFFICES ASSUME NEW d \in Callers, Owns(op'[d])
                 PROVE  /\ \A g \in Generations : table'[g] # op'[d].work
                        /\ \A e \in Callers \ {d} : op'[e].work # op'[d].work
      BY DEF Alone, Owns
    <2>1. op'[c].work = w  BY <1>2 DEF Bears
    <2>2. CASE d = c
      BY <1>3, <1>5, <1>6, <1>7, <2>1, <2>2
    <2>3. CASE d # c
      <3>1. op'[d] = op[d]  BY <1>5, <2>3
      <3> QED BY <1>1, <1>3, <1>5, <1>6, <2>1, <2>3, <3>1 DEF Alone
    <2> QED BY <2>2, <2>3
  <1>12. NotCut'
    <2> SUFFICES ASSUME NEW v \in op'[Refresher].reap, v \notin caught'
                 PROVE  /\ wk'[v].retired \/ \A g \in Generations : table'[g] # v
                        /\ \A p \in Predictors : /\ op'[p].lease = "attached" => op'[p].work # v
                                                 /\ op'[p].pc = "ready" => op'[p].work # v
      BY DEF NotCut
    <2>1. CASE c = Refresher
      <3>1. v = w  BY <1>2, <2>1 DEF Bears
      <3>2. \A p \in Predictors : op'[p] = op[p]  BY <1>5, <2>1, Distinct
      <3> QED BY <1>3, <1>6, <1>7, <3>1, <3>2, Distinct
    <2>2. CASE c # Refresher
      <3>1. v \in op[Refresher].reap  BY <1>5, <2>2, Distinct
      <3>2. v # w  BY <1>6, <3>1, Distinct
      <3>3. v \notin caught  BY <1>3, <3>2
      <3>4. v \in Workers  BY <1>1, <3>1, Distinct, OperationOf
      <3>5. wk'[v] = wk[v]  BY <1>2, <3>2, <3>4 DEF Newborn
      <3>6. ASSUME NEW p \in Predictors
            PROVE  /\ op'[p].lease = "attached" => op'[p].work # v
                   /\ op'[p].pc = "ready" => op'[p].work # v
        <4>1. CASE p = c
          BY <1>2, <3>2, <4>1 DEF Bears
        <4>2. CASE p # c
          BY <1>1, <1>5, <3>1, <3>3, <4>2, Distinct DEF NotCut
        <4> QED BY <4>1, <4>2
      <3> QED BY <1>1, <1>3, <3>1, <3>3, <3>5, <3>6 DEF NotCut
    <2> QED BY <2>1, <2>2
  <1>13. Closed'
    <2>1. op[Closer].pc \notin {"reap", "closed"}
      BY <1>1, <1>3, <1>4 DEF Closed
    <2>2. op'[Closer] = op[Closer]  BY <1>4, <1>5, Distinct
    <2> QED BY <1>1, <1>3, <2>1, <2>2 DEF Closed
  <1>14. SupersededIsReaped'
    <2> SUFFICES ASSUME NEW v \in Workers, v \in Owned', wk'[v].retired, wk'[v].leases = 0,
                        ~wk'[v].error
                 PROVE  \E d \in Callers : v \in op'[d].reap
      BY DEF SupersededIsReaped, Owned
    <2>1. v # w  BY <1>2 DEF Newborn
    <2>2. wk'[v] = wk[v]  BY <1>2, <2>1 DEF Newborn
    <2>3. v \in Owned  BY <2>2 DEF Owned
    <2>4. PICK d \in Callers : v \in op[d].reap
      BY <1>1, <2>2, <2>3 DEF SupersededIsReaped
    <2>5. op'[d] = op[d]  BY <1>4, <1>5, <2>4
    <2> QED BY <2>4, <2>5
  <1>15. lost' \in [Workers \union Generations -> Nat]
    BY <1>1, <1>3 DEF CountType
  <1>16. LeasesAccounted'
    <2>1. \A v \in Workers : Users(v)' = Users(v)
      <3>1. \A p \in Predictors : op'[p].lease = "attached" <=> op[p].lease = "attached"
        BY <1>2, <1>4, <1>5, Distinct DEF Bears
      <3>2. \A p \in Predictors : op[p].lease = "attached" => op'[p].work = op[p].work
        BY <1>4, <1>5, Distinct
      <3> QED BY <3>1, <3>2 DEF Users
    <2>2. \A g \in Generations : Waiters(g)' = Waiters(g)
      <3>1. \A p \in Predictors : op'[p].lease = op[p].lease /\ op'[p].gen = op[p].gen
        BY <1>2, <1>5, Distinct DEF Bears
      <3> QED BY <3>1 DEF Waiters
    <2>3. ASSUME NEW v \in Workers
          PROVE  wk'[v].leases = lost'[v] + Cardinality(Users(v)')
      <3>1. CASE v = w
        <4>1. Users(w) = {}  BY <1>6, Distinct DEF Users
        <4>2. Cardinality(Users(v)') = 0  BY <2>1, <3>1, <4>1, FS_EmptySet
        <4>3. wk'[v].leases = 0 /\ lost'[v] = 0
          BY <1>1, <1>2, <1>3, <3>1 DEF Newborn, CountType
        <4> QED BY <4>2, <4>3
      <3>2. CASE v # w
        BY <1>1, <1>2, <1>3, <2>1, <3>2, Accounted DEF Newborn, CountType
      <3> QED BY <3>1, <3>2
    <2>4. ASSUME NEW g \in Generations
          PROVE  pending'[g] = lost'[g] + Cardinality(Waiters(g)')
      <3>1. g # w  BY WorkersAssumption
      <3> QED BY <1>1, <1>3, <2>2, <3>1, Accounted DEF CountType
    <2> QED BY <2>3, <2>4 DEF LeasesAccounted, Users, Waiters
  <1>17. TypeOK'
    <2>1. OwnerType' /\ FlagType' /\ CountType'
      BY <1>1, <1>3, <1>15 DEF OwnerType, FlagType, CountType
    <2> QED BY <1>2, <2>1, Types, PTL
  <1>18. Linked'
    <2> SUFFICES ASSUME NEW v \in Workers, Held(v)', Doomed(v)'
                 PROVE  wk'[v].retired
      BY DEF Linked
    <2>1. \A d \in Callers : d # c => op'[d].work # w /\ w \notin op'[d].reap
      BY <1>5, <1>6
    <2>2. CASE v = w
      <3>1. PICK d \in Callers : op'[d].pc = "ready" /\ op'[d].work = w
        BY <1>3, <1>7, <2>2 DEF Held
      <3>2. d = c  BY <2>1, <3>1
      <3>3. op'[c].reap = {}  BY <1>2, <3>1, <3>2 DEF Bears
      <3> QED BY <1>2, <2>1, <2>2, <3>3 DEF Newborn, Doomed
    <2>3. CASE v # w
      <3>1. wk'[v] = wk[v]  BY <1>2, <2>3 DEF Newborn
      <3>2. Held(v)  BY <1>2, <1>3, <1>5, <2>3 DEF Held, Bears
      <3>3. Doomed(v)  BY <1>2, <1>5, <2>3, <3>1 DEF Doomed, Bears
      <3> QED BY <1>1, <3>1, <3>2, <3>3 DEF Linked
    <2> QED BY <2>2, <2>3
  <1> QED BY <1>8, <1>9, <1>10, <1>11, <1>12, <1>13, <1>14, <1>16, <1>17, <1>18 DEF OwnerInv

-----------------------------------------------------------------------------
(* The steps of cleaning up, and the death of a process: no operation      *)
(* changes but for its list, which only gets shorter.                      *)

Trims ==
    /\ \A d \in Callers : /\ op'[d].pc = op[d].pc /\ op'[d].gen = op[d].gen
                          /\ op'[d].work = op[d].work /\ op'[d].lease = op[d].lease
                          /\ op'[d].then = op[d].then /\ op'[d].reap \subseteq op[d].reap
                          /\ op[d].pc # "reap" => op'[d] = op[d]
    /\ \A w \in Workers : /\ wk'[w].gen = wk[w].gen /\ wk'[w].leases = wk[w].leases
                          /\ wk'[w].retired = wk[w].retired
                          /\ wk[w].connected => wk'[w].connected \/ Doomed(w)
    /\ \A g \in Generations : table'[g] \in {table[g], Nobody}
    /\ pending' = pending /\ lost' = lost /\ caught' = caught /\ closing' = closing

LEMMA TrimsKeeps ==
  ASSUME OpType, OwnerType, OpShape, LeasesAccounted, Alone, NotCut, Linked, Trims
  PROVE  OpShape' /\ LeasesAccounted' /\ Alone' /\ NotCut' /\ Linked'
  <1>1. OpShape'
    <2>1. ASSUME NEW p \in Predictors PROVE PredictorShape(op'[p])
      <3>1. p \in Callers /\ PredictorShape(op[p])  BY Distinct DEF OpShape
      <3> QED BY <3>1 DEF Trims, PredictorShape
    <2>2. RefresherShape(op'[Refresher])
      <3>1. Refresher \in Callers /\ RefresherShape(op[Refresher])  BY Distinct DEF OpShape
      <3> QED BY <3>1 DEF Trims, RefresherShape
    <2>3. CloserShape(op'[Closer])
      <3>1. Closer \in Callers /\ CloserShape(op[Closer])  BY Distinct DEF OpShape
      <3> QED BY <3>1 DEF Trims, CloserShape
    <2>4. ASSUME NEW d \in Callers
          PROVE  /\ op'[d].pc # "reap" => op'[d].reap = {}
                 /\ Owns(op'[d]) => op'[d].work \in Workers
      BY DEF Trims, OpShape, Owns
    <2> QED BY <2>1, <2>2, <2>3, <2>4
        DEF OpShape, PredictorShape, RefresherShape, CloserShape, Owns
  <1>2. LeasesAccounted'
    <2>1. \A w \in Workers : Users(w)' = Users(w)
      BY Distinct DEF Trims, Users
    <2>2. \A g \in Generations : Waiters(g)' = Waiters(g)
      BY Distinct DEF Trims, Waiters
    <2>3. \A w \in Workers : wk'[w].leases = lost'[w] + Cardinality(Users(w)')
      BY <2>1, Accounted DEF Trims
    <2>4. \A g \in Generations : pending'[g] = lost'[g] + Cardinality(Waiters(g)')
      BY <2>2, Accounted DEF Trims
    <2> QED BY <2>3, <2>4 DEF LeasesAccounted, Users, Waiters
  <1>3. Alone'
    <2> SUFFICES ASSUME NEW d \in Callers, Owns(op'[d])
                 PROVE  /\ \A g \in Generations : table'[g] # op'[d].work
                        /\ \A e \in Callers \ {d} : op'[e].work # op'[d].work
      BY DEF Alone, Owns
    <2>1. Owns(op[d]) /\ op'[d].work = op[d].work  BY DEF Trims, Owns
    <2>2. op[d].work # Nobody  BY <2>1, Distinct DEF OpShape
    <2> QED BY <2>1, <2>2 DEF Alone, Trims
  <1>4. NotCut'
    <2> SUFFICES ASSUME NEW w \in op'[Refresher].reap, w \notin caught'
                 PROVE  /\ wk'[w].retired \/ \A g \in Generations : table'[g] # w
                        /\ \A p \in Predictors : /\ op'[p].lease = "attached" => op'[p].work # w
                                                 /\ op'[p].pc = "ready" => op'[p].work # w
      BY DEF NotCut
    <2>1. w \in op[Refresher].reap \ caught /\ w \in Workers
      BY Distinct, OperationOf DEF Trims
    <2> QED BY <2>1, Distinct DEF NotCut, Trims
  <1>5. Linked'
    <2> SUFFICES ASSUME NEW w \in Workers, Held(w)', Doomed(w)'
                 PROVE  wk'[w].retired
      BY DEF Linked
    <2>1. Held(w)  BY Distinct DEF Held, Trims
    <2>2. Doomed(w)  BY DEF Doomed, Trims
    <2> QED BY <2>1, <2>2 DEF Linked, Trims
  <1> QED BY <1>1, <1>2, <1>3, <1>4, <1>5

(* The rest of the invariant, step by step, makes a whole.                 *)
LEMMA TrimsInductive ==
  ASSUME OwnerInv, Trims, OpType', WkType', table' \in [Generations -> Workers \union {Nobody}],
         active' = active, published' = published, starter' = starter,
         faults' \in Nat, WorkerShape', TableShape', SupersededIsReaped',
         op[Closer].pc \in {"reap", "closed"} /\ ~op'[Closer].failed
            => \A w \in Workers : wk'[w].alive => w \in op'[Closer].reap
  PROVE  OwnerInv'
  <1>1. /\ OpType /\ WkType /\ OwnerType /\ CountType /\ FlagType /\ OpShape
        /\ LeasesAccounted /\ Alone /\ NotCut /\ Closed /\ Linked
    BY Types DEF OwnerInv
  <1>2. OpShape' /\ LeasesAccounted' /\ Alone' /\ NotCut' /\ Linked'  BY <1>1, TrimsKeeps
  <1>3. TypeOK'
    <2>1. OwnerType' /\ CountType' /\ FlagType'
      BY <1>1 DEF Trims, OwnerType, CountType, FlagType
    <2> QED BY <2>1, Types, PTL
  <1>4. Closed'
    <2>1. op'[Closer].pc = op[Closer].pc /\ closing' = closing
          /\ \A c \in Callers : op'[c].pc = op[c].pc
      BY Distinct DEF Trims
    <2> QED BY <1>1, <2>1 DEF Closed
  <1> QED BY <1>2, <1>3, <1>4 DEF OwnerInv

(* One entry leaves the list of c.                                         *)
Drops(o, r, w) ==
    /\ r \in Operation /\ r.pc = o.pc /\ r.gen = o.gen /\ r.work = o.work
    /\ r.lease = o.lease /\ r.then = o.then /\ r.reap = o.reap \ {w}

LEMMA DropsMoves ==
  ASSUME OpType, NEW c \in Callers, op[c].pc = "reap", NEW w, NEW r, Drops(op[c], r, w),
         op' = [op EXCEPT ![c] = r]
  PROVE  /\ OpType' /\ Alters(c) /\ op'[c] = r
         /\ \A d \in Callers : /\ op'[d].pc = op[d].pc /\ op'[d].gen = op[d].gen
                               /\ op'[d].work = op[d].work /\ op'[d].lease = op[d].lease
                               /\ op'[d].then = op[d].then /\ op'[d].reap \subseteq op[d].reap
                               /\ op[d].pc # "reap" => op'[d] = op[d]
  <1>1. op'[c] = r /\ Alters(c) /\ OpType'  BY Altered, AlteredTyped DEF Drops
  <1> QED BY <1>1 DEF Alters, Drops

LEMMA ClaimReapInductive ==
  ASSUME OwnerInv, NEW c \in Callers, NEW w \in Workers, ClaimReap(c, w)
  PROVE  OwnerInv'
  <1>1. /\ OpType /\ WkType /\ OwnerType /\ CountType /\ WorkerShape /\ TableShape
        /\ Closed /\ SupersededIsReaped
    BY Types DEF OwnerInv
  <1>2. /\ w \in op[c].reap /\ ~wk[w].reaped
        /\ wk' = [wk EXCEPT ![w].reaper = c, ![w].error = FALSE]
        /\ op' = op /\ UNCHANGED <<owner, history>>
    BY DEF ClaimReap
  <1> DEFINE s == [wk[w] EXCEPT !.reaper = c, !.error = FALSE]
  <1>3. wk[w] \in Process  BY <1>1, ProcessOf
  <1>4. wk' = [wk EXCEPT ![w] = s]  BY <1>1, <1>2, <1>3 DEF WkType, Process
  <1>5. /\ s \in Process /\ s.gen = wk[w].gen /\ s.alive = wk[w].alive /\ s.leases = wk[w].leases
        /\ s.connected = wk[w].connected
        /\ s.retired = wk[w].retired /\ s.reaped = wk[w].reaped /\ s.reaper = c
    BY <1>3 DEF Process
  <1> HIDE DEF s
  <1>6. WkType' /\ wk'[w] = s /\ \A v \in Workers : v # w => wk'[v] = wk[v]
    BY <1>1, <1>4, <1>5 DEF WkType
  <1>7. Trims /\ OpType'
    BY <1>1, <1>2, <1>5, <1>6 DEF Trims, owner, history, OpType
  <1>8. WorkerShape'
    BY <1>1, <1>2, <1>5, <1>6 DEF WorkerShape
  <1>9. TableShape'
    <2> SUFFICES ASSUME NEW g \in Generations, table'[g] # Nobody
                 PROVE  wk'[table'[g]].gen # Nobody /\ ~wk'[table'[g]].reaped
      BY DEF TableShape
    <2>1. table'[g] = table[g] /\ table[g] \in Workers
      BY <1>1, <1>2 DEF OwnerType, owner
    <2>2. wk'[table[g]].gen = wk[table[g]].gen /\ wk'[table[g]].reaped = wk[table[g]].reaped
      BY <1>5, <1>6, <2>1
    <2> QED BY <1>1, <2>1, <2>2 DEF TableShape
  <1>10. SupersededIsReaped'
    <2> SUFFICES ASSUME NEW v \in Workers, v \in Owned', wk'[v].retired, wk'[v].leases = 0,
                        ~wk'[v].error
                 PROVE  \E d \in Callers : v \in op'[d].reap
      BY DEF SupersededIsReaped, Owned
    <2>1. CASE v = w
      BY <1>2, <2>1
    <2>2. CASE v # w
      <3>1. wk'[v] = wk[v]  BY <1>6, <2>2
      <3>2. v \in Owned  BY <3>1 DEF Owned
      <3> QED BY <1>1, <1>2, <3>1, <3>2 DEF SupersededIsReaped
    <2> QED BY <2>1, <2>2
  <1>11. ASSUME op[Closer].pc \in {"reap", "closed"}, ~op'[Closer].failed,
                NEW v \in Workers, wk'[v].alive
         PROVE  v \in op'[Closer].reap
    BY <1>1, <1>2, <1>5, <1>6, <1>11 DEF Closed
  <1>12. faults' \in Nat /\ table' \in [Generations -> Workers \union {Nobody}]
         /\ active' = active /\ published' = published /\ starter' = starter
    BY <1>1, <1>2 DEF owner, history, CountType, OwnerType
  <1> QED BY <1>6, <1>7, <1>8, <1>9, <1>10, <1>11, <1>12, TrimsInductive

LEMMA ReapInductive ==
  ASSUME OwnerInv, NEW c \in Callers, NEW w \in Workers, Reap(c, w)
  PROVE  OwnerInv'
  <1>1. /\ OpType /\ WkType /\ OwnerType /\ CountType /\ WorkerShape /\ TableShape
        /\ Closed /\ SupersededIsReaped
    BY Types DEF OwnerInv
  <1>2. /\ op[c].pc = "reap" /\ wk[w].reaper = c
        /\ wk' = [wk EXCEPT ![w].reaper = Nobody, ![w].alive = FALSE, ![w].connected = FALSE,
                            ![w].reaped = TRUE]
        /\ table' = [g \in Generations |-> IF table[g] = w THEN Nobody ELSE table[g]]
        /\ op' = [op EXCEPT ![c].reap = @ \ {w}]
        /\ UNCHANGED <<pending, active, published, closing, starter, history>>
    BY DEF Reap
  <1> DEFINE s == [wk[w] EXCEPT !.reaper = Nobody, !.alive = FALSE, !.connected = FALSE,
                                !.reaped = TRUE]
             r == [op[c] EXCEPT !.reap = op[c].reap \ {w}]
  <1>3. wk[w] \in Process /\ op[c] \in Operation  BY <1>1, ProcessOf, OperationOf
  <1>4. wk' = [wk EXCEPT ![w] = s] /\ op' = [op EXCEPT ![c] = r]
    BY <1>1, <1>2, <1>3 DEF WkType, OpType, Process
  <1>5. /\ s \in Process /\ s.gen = wk[w].gen /\ ~s.alive /\ s.leases = wk[w].leases
        /\ s.retired = wk[w].retired /\ s.reaped /\ s.reaper = Nobody
    BY <1>3 DEF Process
  <1>6. Drops(op[c], r, w) /\ r.failed = op[c].failed /\ r.reap = op[c].reap \ {w}
    BY <1>3 DEF Operation, Drops
  <1> HIDE DEF s, r
  <1>7. WkType' /\ wk'[w] = s /\ \A v \in Workers : v # w => wk'[v] = wk[v]
    BY <1>1, <1>4, <1>5 DEF WkType
  <1>8. /\ OpType' /\ Alters(c) /\ op'[c] = r
        /\ \A d \in Callers : /\ op'[d].pc = op[d].pc /\ op'[d].gen = op[d].gen
                              /\ op'[d].work = op[d].work /\ op'[d].lease = op[d].lease
                              /\ op'[d].then = op[d].then /\ op'[d].reap \subseteq op[d].reap
                              /\ op[d].pc # "reap" => op'[d] = op[d]
    BY <1>1, <1>2, <1>4, <1>6, DropsMoves
  <1>9. table' \in [Generations -> Workers \union {Nobody}]
        /\ \A g \in Generations : table'[g] \in {table[g], Nobody} /\ table'[g] # w
    BY <1>1, <1>2, Distinct DEF OwnerType
  <1>10. Trims
    <2>0. Doomed(w)  BY <1>1, <1>2, Distinct DEF WorkerShape, Doomed
    <2>1. \A v \in Workers : /\ wk'[v].gen = wk[v].gen /\ wk'[v].leases = wk[v].leases
                             /\ wk'[v].retired = wk[v].retired
                             /\ wk[v].connected => wk'[v].connected \/ Doomed(v)
      BY <1>5, <1>7, <2>0
    <2>2. pending' = pending /\ lost' = lost /\ caught' = caught /\ closing' = closing
      BY <1>2 DEF history
    <2> QED BY <1>8, <1>9, <2>1, <2>2 DEF Trims
  <1>11. \A d \in Callers, v \in Workers : v # w /\ v \in op[d].reap => v \in op'[d].reap
    BY <1>6, <1>8 DEF Alters
  <1>12. WorkerShape'
    <2> SUFFICES ASSUME NEW v \in Workers
                 PROVE  /\ wk'[v].alive => wk'[v].gen # Nobody /\ ~wk'[v].reaped
                        /\ wk'[v].reaper # Nobody =>
                              v \in op'[wk'[v].reaper].reap /\ ~wk'[v].reaped
      BY DEF WorkerShape
    <2>1. CASE v = w
      BY <1>5, <1>7, <2>1
    <2>2. CASE v # w
      <3>1. wk'[v] = wk[v]  BY <1>7, <2>2
      <3>2. wk[v].reaper # Nobody => wk[v].reaper \in Callers  BY <1>1, ProcessOf
      <3> QED BY <1>1, <1>11, <2>2, <3>1, <3>2 DEF WorkerShape
    <2> QED BY <2>1, <2>2
  <1>13. TableShape'
    <2> SUFFICES ASSUME NEW g \in Generations, table'[g] # Nobody
                 PROVE  wk'[table'[g]].gen # Nobody /\ ~wk'[table'[g]].reaped
      BY DEF TableShape
    <2>1. table'[g] = table[g] /\ table[g] # w /\ table[g] \in Workers
      BY <1>1, <1>9 DEF OwnerType
    <2>2. wk'[table[g]] = wk[table[g]]  BY <1>7, <2>1
    <2> QED BY <1>1, <2>1, <2>2 DEF TableShape
  <1>14. SupersededIsReaped'
    <2> SUFFICES ASSUME NEW v \in Workers, v \in Owned', wk'[v].retired, wk'[v].leases = 0,
                        ~wk'[v].error
                 PROVE  \E d \in Callers : v \in op'[d].reap
      BY DEF SupersededIsReaped, Owned
    <2>1. v # w  BY <1>5, <1>7 DEF Owned
    <2>2. wk'[v] = wk[v]  BY <1>7, <2>1
    <2>3. v \in Owned  BY <2>2 DEF Owned
    <2>4. \E d \in Callers : v \in op[d].reap
      BY <1>1, <2>2, <2>3 DEF SupersededIsReaped
    <2> QED BY <1>11, <2>1, <2>4
  <1>15. ASSUME op[Closer].pc \in {"reap", "closed"}, ~op'[Closer].failed,
                NEW v \in Workers, wk'[v].alive
         PROVE  v \in op'[Closer].reap
    <2>1. v # w /\ wk'[v] = wk[v]  BY <1>5, <1>7, <1>15
    <2>2. op'[Closer].failed = op[Closer].failed
      BY <1>6, <1>8, Distinct DEF Alters
    <2>3. v \in op[Closer].reap  BY <1>1, <1>15, <2>1, <2>2 DEF Closed
    <2> QED BY <1>11, <2>1, <2>3, Distinct
  <1>16. faults' \in Nat /\ active' = active /\ published' = published /\ starter' = starter
        
    BY <1>1, <1>2 DEF history, CountType
  <1> QED BY <1>7, <1>8, <1>9, <1>10, <1>12, <1>13, <1>14, <1>15, <1>16, TrimsInductive

LEMMA ReapFailsInductive ==
  ASSUME OwnerInv, NEW c \in Callers, NEW w \in Workers, ReapFails(c, w)
  PROVE  OwnerInv'
  <1>1. /\ OpType /\ WkType /\ OwnerType /\ CountType /\ WorkerShape /\ TableShape
        /\ Closed /\ SupersededIsReaped
    BY Types DEF OwnerInv
  <1>2. /\ op[c].pc = "reap" /\ wk[w].reaper = c
        /\ op' = [op EXCEPT ![c].reap = @ \ {w}, ![c].failed = TRUE]
        /\ UNCHANGED <<owner, history>>
    BY DEF ReapFails
  <1>3. PICK alive \in {wk[w].alive, FALSE} :
          wk' = [wk EXCEPT ![w].reaper = Nobody, ![w].alive = alive, ![w].connected = FALSE,
                           ![w].error = TRUE]
    BY DEF ReapFails
  <1> DEFINE s == [wk[w] EXCEPT !.reaper = Nobody, !.alive = alive, !.connected = FALSE,
                                !.error = TRUE]
             r == [op[c] EXCEPT !.reap = op[c].reap \ {w}, !.failed = TRUE]
  <1>4. wk[w] \in Process /\ op[c] \in Operation  BY <1>1, ProcessOf, OperationOf
  <1>5. wk' = [wk EXCEPT ![w] = s] /\ op' = [op EXCEPT ![c] = r]
    BY <1>1, <1>2, <1>3, <1>4 DEF WkType, OpType, Process, Operation
  <1>6. /\ s \in Process /\ s.gen = wk[w].gen /\ s.leases = wk[w].leases
        /\ s.alive => wk[w].alive
        /\ s.retired = wk[w].retired /\ s.reaped = wk[w].reaped /\ s.reaper = Nobody /\ s.error
    BY <1>3, <1>4 DEF Process
  <1>7. Drops(op[c], r, w) /\ r.failed /\ r.reap = op[c].reap \ {w}
    BY <1>4 DEF Operation, Drops
  <1> HIDE DEF s, r
  <1>8. WkType' /\ wk'[w] = s /\ \A v \in Workers : v # w => wk'[v] = wk[v]
    BY <1>1, <1>5, <1>6 DEF WkType
  <1>9. /\ OpType' /\ Alters(c) /\ op'[c] = r
        /\ \A d \in Callers : /\ op'[d].pc = op[d].pc /\ op'[d].gen = op[d].gen
                              /\ op'[d].work = op[d].work /\ op'[d].lease = op[d].lease
                              /\ op'[d].then = op[d].then /\ op'[d].reap \subseteq op[d].reap
                              /\ op[d].pc # "reap" => op'[d] = op[d]
    BY <1>1, <1>2, <1>5, <1>7, DropsMoves
  <1>10. Trims
    <2>0. Doomed(w)  BY <1>1, <1>2, Distinct DEF WorkerShape, Doomed
    <2>1. \A v \in Workers : /\ wk'[v].gen = wk[v].gen /\ wk'[v].leases = wk[v].leases
                             /\ wk'[v].retired = wk[v].retired
                             /\ wk[v].connected => wk'[v].connected \/ Doomed(v)
      BY <1>6, <1>8, <2>0
    <2>2. UNCHANGED <<table, pending, lost, caught, closing>>
      BY <1>2 DEF owner, history
    <2> QED BY <1>9, <2>1, <2>2 DEF Trims
  <1>11. \A d \in Callers, v \in Workers : v # w /\ v \in op[d].reap => v \in op'[d].reap
    BY <1>7, <1>9 DEF Alters
  <1>12. WorkerShape'
    <2> SUFFICES ASSUME NEW v \in Workers
                 PROVE  /\ wk'[v].alive => wk'[v].gen # Nobody /\ ~wk'[v].reaped
                        /\ wk'[v].reaper # Nobody =>
                              v \in op'[wk'[v].reaper].reap /\ ~wk'[v].reaped
      BY DEF WorkerShape
    <2>1. CASE v = w
      BY <1>1, <1>6, <1>8, <2>1 DEF WorkerShape
    <2>2. CASE v # w
      <3>1. wk'[v] = wk[v]  BY <1>8, <2>2
      <3>2. wk[v].reaper # Nobody => wk[v].reaper \in Callers  BY <1>1, ProcessOf
      <3> QED BY <1>1, <1>11, <2>2, <3>1, <3>2 DEF WorkerShape
    <2> QED BY <2>1, <2>2
  <1>13. TableShape'
    <2> SUFFICES ASSUME NEW g \in Generations, table'[g] # Nobody
                 PROVE  wk'[table'[g]].gen # Nobody /\ ~wk'[table'[g]].reaped
      BY DEF TableShape
    <2>1. table'[g] = table[g] /\ table[g] \in Workers
      BY <1>1, <1>2 DEF OwnerType, owner
    <2>2. wk'[table[g]].gen = wk[table[g]].gen /\ wk'[table[g]].reaped = wk[table[g]].reaped
      BY <1>6, <1>8, <2>1
    <2> QED BY <1>1, <2>1, <2>2 DEF TableShape
  <1>14. SupersededIsReaped'
    <2> SUFFICES ASSUME NEW v \in Workers, v \in Owned', wk'[v].retired, wk'[v].leases = 0,
                        ~wk'[v].error
                 PROVE  \E d \in Callers : v \in op'[d].reap
      BY DEF SupersededIsReaped, Owned
    <2>1. v # w  BY <1>6, <1>8
    <2>2. wk'[v] = wk[v]  BY <1>8, <2>1
    <2>3. v \in Owned  BY <2>2 DEF Owned
    <2>4. \E d \in Callers : v \in op[d].reap
      BY <1>1, <2>2, <2>3 DEF SupersededIsReaped
    <2> QED BY <1>11, <2>1, <2>4
  <1>15. ASSUME op[Closer].pc \in {"reap", "closed"}, ~op'[Closer].failed,
                NEW v \in Workers, wk'[v].alive
         PROVE  v \in op'[Closer].reap
    <2>1. wk[v].alive  BY <1>6, <1>8, <1>15
    <2>2. c # Closer  BY <1>7, <1>9, <1>15
    <2>3. op'[Closer] = op[Closer]  BY <1>9, <2>2, Distinct DEF Alters
    <2> QED BY <1>1, <1>15, <2>1, <2>3 DEF Closed
  <1>16. faults' \in Nat /\ active' = active /\ published' = published /\ starter' = starter
         /\ table' \in [Generations -> Workers \union {Nobody}]
    BY <1>1, <1>2 DEF owner, history, CountType, OwnerType
  <1> QED BY <1>8, <1>9, <1>10, <1>12, <1>13, <1>14, <1>15, <1>16, TrimsInductive

LEMMA AwaitReapedInductive ==
  ASSUME OwnerInv, NEW c \in Callers, NEW w \in Workers, AwaitReaped(c, w)
  PROVE  OwnerInv'
  <1>1. /\ OpType /\ WkType /\ OwnerType /\ CountType /\ WorkerShape /\ TableShape
        /\ Closed /\ SupersededIsReaped
    BY Types DEF OwnerInv
  <1>2. /\ op[c].pc = "reap"
        /\ wk[w].reaped \/ wk[w].reaper \notin {Nobody, c}
        /\ wk' = wk /\ UNCHANGED <<owner, history>>
    BY DEF AwaitReaped
  <1>3. PICK late \in BOOLEAN :
          /\ ~wk[w].reaped => late
          /\ op' = [op EXCEPT ![c].reap = @ \ {w}, ![c].failed = @ \/ late]
    BY DEF AwaitReaped
  <1> DEFINE failed == op[c].failed \/ late
             r == [op[c] EXCEPT !.reap = op[c].reap \ {w}, !.failed = failed]
  <1>4. op[c] \in Operation /\ wk[w] \in Process /\ failed \in BOOLEAN
    BY <1>1, OperationOf, ProcessOf
  <1>5. op' = [op EXCEPT ![c] = r]
    BY <1>1, <1>3, <1>4 DEF OpType, Operation
  <1>6. /\ Drops(op[c], r, w) /\ r.reap = op[c].reap \ {w}
        /\ (op[c].failed => r.failed) /\ (~wk[w].reaped => r.failed)
    <2>1. (op[c].failed => failed) /\ (~wk[w].reaped => failed)  BY <1>3
    <2> HIDE DEF failed
    <2> QED BY <1>4, <2>1 DEF Operation, Drops
  <1> HIDE DEF r, failed
  <1>7. /\ OpType' /\ Alters(c) /\ op'[c] = r
        /\ \A d \in Callers : /\ op'[d].pc = op[d].pc /\ op'[d].gen = op[d].gen
                              /\ op'[d].work = op[d].work /\ op'[d].lease = op[d].lease
                              /\ op'[d].then = op[d].then /\ op'[d].reap \subseteq op[d].reap
                              /\ op[d].pc # "reap" => op'[d] = op[d]
    BY <1>1, <1>2, <1>5, <1>6, DropsMoves
  <1>8. Trims
    BY <1>2, <1>7 DEF Trims, owner, history
  <1>9. \A d \in Callers, v \in Workers :
           (v # w \/ d # c) /\ v \in op[d].reap => v \in op'[d].reap
    BY <1>6, <1>7 DEF Alters
  <1>10. wk[w].reaper # c
    <2>1. ASSUME wk[w].reaper = c PROVE FALSE
      <3>1. wk[w].reaped /\ wk[w].reaper # Nobody
        BY <1>2, <2>1, Distinct
      <3> QED BY <1>1, <3>1 DEF WorkerShape
    <2> QED BY <2>1
  <1>11. WorkerShape'
    <2> SUFFICES ASSUME NEW v \in Workers
                 PROVE  /\ wk'[v].alive => wk'[v].gen # Nobody /\ ~wk'[v].reaped
                        /\ wk'[v].reaper # Nobody =>
                              v \in op'[wk'[v].reaper].reap /\ ~wk'[v].reaped
      BY DEF WorkerShape
    <2>1. wk[v].reaper # Nobody => wk[v].reaper \in Callers /\ (v # w \/ wk[v].reaper # c)
      BY <1>1, <1>10, ProcessOf
    <2> QED BY <1>1, <1>2, <1>9, <2>1 DEF WorkerShape
  <1>12. TableShape'
    BY <1>1, <1>2 DEF TableShape, owner
  <1>13. SupersededIsReaped'
    <2> SUFFICES ASSUME NEW v \in Workers, v \in Owned', wk'[v].retired, wk'[v].leases = 0,
                        ~wk'[v].error
                 PROVE  \E d \in Callers : v \in op'[d].reap
      BY DEF SupersededIsReaped, Owned
    <2>1. v \in Owned /\ ~wk[v].reaped  BY <1>2 DEF Owned
    <2>2. PICK d \in Callers : v \in op[d].reap
      BY <1>1, <1>2, <2>1 DEF SupersededIsReaped
    <2>3. CASE v # w
      BY <1>9, <2>2, <2>3
    <2>4. CASE v = w
      <3>1. wk[w].reaper # Nobody /\ wk[w].reaper # c /\ wk[w].reaper \in Callers
        BY <1>1, <1>2, <2>1, <2>4, ProcessOf
      <3>2. w \in op[wk[w].reaper].reap  BY <1>1, <3>1 DEF WorkerShape
      <3> QED BY <1>9, <2>4, <3>1, <3>2
    <2> QED BY <2>3, <2>4
  <1>14. ASSUME op[Closer].pc \in {"reap", "closed"}, ~op'[Closer].failed,
                NEW v \in Workers, wk'[v].alive
         PROVE  v \in op'[Closer].reap
    <2>1. wk[v].alive /\ ~wk[v].reaped  BY <1>1, <1>2, <1>14 DEF WorkerShape
    <2>2. ~op[Closer].failed
      BY <1>6, <1>7, <1>14, Distinct DEF Alters
    <2>3. v \in op[Closer].reap  BY <1>1, <1>14, <2>1, <2>2 DEF Closed
    <2>4. v # w \/ Closer # c  BY <1>6, <1>7, <1>14, <2>1
    <2> QED BY <1>9, <2>3, <2>4, Distinct
  <1>15. faults' \in Nat /\ active' = active /\ published' = published /\ starter' = starter
         /\ table' \in [Generations -> Workers \union {Nobody}]
    BY <1>1, <1>2 DEF owner, history, CountType, OwnerType
  <1>16. WkType'  BY <1>1, <1>2 DEF WkType
  <1> QED BY <1>7, <1>8, <1>11, <1>12, <1>13, <1>14, <1>15, <1>16, TrimsInductive

LEMMA DiesInductive ==
  ASSUME OwnerInv, NEW w \in Workers, Dies(w)
  PROVE  OwnerInv'
  <1>1. /\ OpType /\ WkType /\ OwnerType /\ CountType /\ WorkerShape /\ TableShape
        /\ Closed /\ SupersededIsReaped
    BY Types DEF OwnerInv
  <1>2. /\ wk' = [wk EXCEPT ![w].alive = FALSE] /\ faults' = faults + 1
        /\ UNCHANGED <<owner, op, lost, caught>>
    BY DEF Dies
  <1> DEFINE s == [wk[w] EXCEPT !.alive = FALSE]
  <1>3. wk[w] \in Process  BY <1>1, ProcessOf
  <1>4. wk' = [wk EXCEPT ![w] = s]  BY <1>1, <1>2 DEF WkType
  <1>5. /\ s \in Process /\ s.gen = wk[w].gen /\ ~s.alive /\ s.leases = wk[w].leases
        /\ s.retired = wk[w].retired /\ s.reaped = wk[w].reaped /\ s.reaper = wk[w].reaper
        /\ s.error = wk[w].error /\ s.connected = wk[w].connected
    BY <1>3 DEF Process
  <1> HIDE DEF s
  <1>6. WkType' /\ wk'[w] = s /\ \A v \in Workers : v # w => wk'[v] = wk[v]
    BY <1>1, <1>4, <1>5 DEF WkType
  <1>7. \A v \in Workers : /\ wk'[v].gen = wk[v].gen /\ wk'[v].leases = wk[v].leases
                           /\ wk'[v].retired = wk[v].retired /\ wk'[v].reaped = wk[v].reaped
                           /\ wk'[v].reaper = wk[v].reaper /\ wk'[v].error = wk[v].error
                           /\ wk'[v].connected = wk[v].connected
                           /\ (wk'[v].alive => wk[v].alive)
    BY <1>5, <1>6
  <1>8. op' = op /\ table' = table /\ OpType'
    BY <1>1, <1>2 DEF owner, OpType
  <1>9. Trims  BY <1>2, <1>7, <1>8 DEF Trims, owner
  <1>10. WorkerShape'  BY <1>1, <1>7, <1>8 DEF WorkerShape
  <1>11. TableShape'
    <2>1. \A g \in Generations : table[g] # Nobody => table[g] \in Workers
      BY <1>1 DEF OwnerType
    <2> QED BY <1>1, <1>7, <1>8, <2>1 DEF TableShape
  <1>12. SupersededIsReaped'
    <2>1. \A v \in Workers : v \in Owned' => v \in Owned  BY <1>7 DEF Owned
    <2> QED BY <1>1, <1>7, <1>8, <2>1 DEF SupersededIsReaped, Owned
  <1>13. ASSUME op[Closer].pc \in {"reap", "closed"}, ~op'[Closer].failed,
                NEW v \in Workers, wk'[v].alive
         PROVE  v \in op'[Closer].reap
    BY <1>1, <1>7, <1>8, <1>13 DEF Closed
  <1>14. faults' \in Nat /\ active' = active /\ published' = published /\ starter' = starter
         /\ table' \in [Generations -> Workers \union {Nobody}]
    BY <1>1, <1>2 DEF owner, CountType, OwnerType
  <1> QED BY <1>6, <1>8, <1>9, <1>10, <1>11, <1>12, <1>13, <1>14, TrimsInductive

-----------------------------------------------------------------------------
(* The steps that are moves, one kind of step at a time.                   *)

(* The types of the table, the publication and the flags.                  *)
Ruled == OwnerType' /\ FlagType'

LEMMA RulesKept ==
  ASSUME OwnerType, FlagType,
         table' \in [Generations -> Workers \union {Nobody}],
         active' \in Generations \union {Nobody}, published' \in Generations \union {Nobody},
         starter' \in Callers \union {Nobody}, closing' \in BOOLEAN, caught' \subseteq Workers
  PROVE  Ruled
  BY DEF Ruled, OwnerType, FlagType

LEMMA PredictInductive ==
  ASSUME OwnerInv, NEW p \in Predictors, Predict(p)
  PROVE  OwnerInv'
  <1>1. OpType /\ WkType /\ OwnerType /\ CountType /\ FlagType /\ OpShape
    BY Types DEF OwnerInv
  <1>2. Turns(p) /\ Frame(p) /\ TableFrom(p) /\ Books(p) /\ faults' \in Nat
    BY <1>1, PredictTurns, PredictBooks DEF TableFrom
  <1>3. Moves(p) /\ p \in Callers  BY <1>2, Distinct DEF Moves
  <1>4. /\ UNCHANGED <<table, active, published, starter, closing, caught>>
       
    BY DEF Predict, Reserve, Request, NoRequest, Answer, RequestFails, owner, history
  <1>5. Ruled
    <2>1. /\ table \in [Generations -> Workers \union {Nobody}]
          /\ active \in Generations \union {Nobody} /\ published \in Generations \union {Nobody}
          /\ starter \in Callers \union {Nobody} /\ closing \in BOOLEAN /\ caught \subseteq Workers
      BY <1>1 DEF OwnerType, FlagType
    <2> QED BY <1>1, <1>4, <2>1, RulesKept
  <1> QED BY <1>2, <1>3, <1>5, MovesInductive DEF Ruled

LEMMA PrepareInductive ==
  ASSUME OwnerInv, NEW c \in Predictors \union {Refresher}, Prepare(c)
  PROVE  OwnerInv'
  <1>1. OpType /\ WkType /\ OwnerType /\ CountType /\ FlagType /\ OpShape
    BY Types DEF OwnerInv
  <1>2. CASE \E w \in Workers : Spawned(c, w)
    BY <1>2, SpawnedInductive
  <1>3. CASE ~\E w \in Workers : Spawned(c, w)
    <2>1. Turns(c) /\ Frame(c) /\ TableFrom(c) /\ Books(c) /\ faults' \in Nat
      BY <1>1, <1>3, PrepareTurns, PrepareBooks
    <2>2. Moves(c) /\ c \in Callers  BY <2>1, Distinct DEF Moves
    <2>3. /\ UNCHANGED <<active, published, closing, caught>>
          /\ starter' \in {starter, Nobody, c}
      BY <1>3 DEF Prepare, Start, StartExpires, EnterSpawn, SpawnFails, Ready, NotReady, Started,
                  owner, history
    <2>4. table' \in [Generations -> Workers \union {Nobody}]
      <3>1. table \in [Generations -> Workers \union {Nobody}]  BY <1>1 DEF OwnerType
      <3>2. op[c].pc = "ready" => op[c].work \in Workers
        BY <1>1, StarterOf DEF Waiting
      <3> QED BY <2>1, <3>1, <3>2 DEF TableFrom
    <2>5. Ruled
      <3>1. /\ active' \in Generations \union {Nobody}
            /\ published' \in Generations \union {Nobody}
            /\ starter' \in Callers \union {Nobody} /\ closing' \in BOOLEAN
            /\ caught' \subseteq Workers
        BY <1>1, <2>2, <2>3 DEF OwnerType, FlagType
      <3> QED BY <1>1, <2>4, <3>1, RulesKept
    <2> QED BY <2>1, <2>2, <2>5, MovesInductive DEF Ruled
  <1> QED BY <1>2, <1>3

LEMMA AfterReapInductive ==
  ASSUME OwnerInv, NEW c \in Callers, AfterReap(c)
  PROVE  OwnerInv'
  <1>1. OpType /\ WkType /\ OwnerType /\ CountType /\ FlagType /\ OpShape
    BY Types DEF OwnerInv
  <1>2. /\ Moves(c) /\ Frame(c) /\ TableFrom(c) /\ Books(c) /\ faults' \in Nat
    BY <1>1, AfterReapTurns, AfterReapBooks DEF TableFrom, Moves
  <1>3. /\ UNCHANGED <<table, active, published, closing, caught>>
        /\ starter' \in {starter, Nobody}
    BY DEF AfterReap, owner, history
  <1>4. Ruled
    <2>1. /\ table' \in [Generations -> Workers \union {Nobody}]
          /\ active' \in Generations \union {Nobody}
          /\ published' \in Generations \union {Nobody}
          /\ starter' \in Callers \union {Nobody} /\ closing' \in BOOLEAN
          /\ caught' \subseteq Workers
      BY <1>1, <1>3 DEF OwnerType, FlagType
    <2> QED BY <1>1, <2>1, RulesKept
  <1> QED BY <1>2, <1>4, MovesInductive DEF Ruled

LEMMA RefreshInductive ==
  ASSUME OwnerInv, Publish \/ \E g \in Generations : BeginPrepare(g)
  PROVE  OwnerInv'
  <1>1. OpType /\ WkType /\ OwnerType /\ CountType /\ FlagType /\ OpShape
    BY Types DEF OwnerInv
  <1>2. /\ Moves(Refresher) /\ Frame(Refresher) /\ TableFrom(Refresher)
        /\ Books(Refresher) /\ faults' \in Nat
    <2>1. CASE Publish
      BY <1>1, <2>1, PublishTurns, PublishBooks DEF TableFrom, Moves
    <2>2. CASE \E g \in Generations : BeginPrepare(g)
      BY <1>1, <2>2, BeginPrepareTurns, BeginPrepareBooks DEF TableFrom, Moves
    <2> QED BY <2>1, <2>2
  <1>3. /\ UNCHANGED <<table, starter, closing>>
        /\ active' \in Generations \union {Nobody} /\ published' \in Generations \union {Nobody}
        /\ caught' \subseteq Workers
    <2>1. CASE Publish
      <3>1. op[Refresher].gen \in Generations
        BY <1>1, <2>1 DEF Publish, OpShape, RefresherShape
      <3> QED BY <1>1, <2>1, <3>1 DEF Publish, OwnerType, FlagType, Starting, Owned
    <2>2. CASE \E g \in Generations : BeginPrepare(g)
      BY <1>1, <2>2 DEF BeginPrepare, owner, history, OwnerType, FlagType
    <2> QED BY <2>1, <2>2
  <1>4. Ruled
    <2>1. /\ table' \in [Generations -> Workers \union {Nobody}]
          /\ starter' \in Callers \union {Nobody} /\ closing' \in BOOLEAN
      BY <1>1, <1>3 DEF OwnerType, FlagType
    <2> QED BY <1>1, <1>3, <2>1, RulesKept
  <1> QED BY <1>2, <1>4, Distinct, MovesInductive DEF Ruled

LEMMA CloseInductive ==
  ASSUME OwnerInv, Close
  PROVE  OwnerInv'
  <1>1. OpType /\ WkType /\ OwnerType /\ CountType /\ FlagType /\ OpShape
    BY Types DEF OwnerInv
  <1>2. /\ Moves(Closer) /\ Frame(Closer) /\ TableFrom(Closer)
        /\ Books(Closer) /\ faults' \in Nat
    <2>1. Books(Closer) /\ faults' \in Nat  BY <1>1, CloseBooks
    <2>2. CASE CloseSettled
      BY <1>1, <2>1, <2>2, CloseSettledTurns DEF TableFrom, Moves
    <2>3. CASE BeginClose \/ CloseExpires
      BY <1>1, <2>1, <2>3, BeginCloseTurns DEF TableFrom, Moves
    <2> QED BY <2>2, <2>3 DEF Close
  <1>3. /\ UNCHANGED <<table, published, starter, caught>>
        /\ active' \in {active, Nobody} /\ closing' \in {closing, TRUE}
    BY DEF Close, BeginClose, CloseSettled, CloseExpires, owner, history
  <1>4. Ruled
    <2>1. /\ table' \in [Generations -> Workers \union {Nobody}]
          /\ active' \in Generations \union {Nobody}
          /\ published' \in Generations \union {Nobody}
          /\ starter' \in Callers \union {Nobody} /\ closing' \in BOOLEAN
          /\ caught' \subseteq Workers
      BY <1>1, <1>3 DEF OwnerType, FlagType
    <2> QED BY <1>1, <2>1, RulesKept
  <1> QED BY <1>2, <1>4, Distinct, MovesInductive DEF Ruled

LEMMA CleanUpInductive ==
  ASSUME OwnerInv, NEW c \in Callers, CleanUp(c)
  PROVE  OwnerInv'
  BY ClaimReapInductive, ReapInductive, ReapFailsInductive, AwaitReapedInductive,
     AfterReapInductive DEF CleanUp

-----------------------------------------------------------------------------
(* The theorems.                                                           *)

LEMMA OwnerInit == Init => OwnerInv
  <1> SUFFICES ASSUME Init PROVE OwnerInv
    OBVIOUS
  <1>1. /\ op = [c \in Callers |-> Idle] /\ wk = [w \in Workers |-> Unborn]
        /\ table = [g \in Generations |-> Nobody] /\ pending = [g \in Generations |-> 0]
        /\ lost = [x \in Workers \union Generations |-> 0]
    BY DEF Init
  <1>2. /\ Idle \in Operation /\ Idle.pc = "idle" /\ Idle.lease = "none" /\ Idle.reap = {}
        /\ Idle.work = Nobody
    BY IdleTyped DEF Idle
  <1>3. /\ Unborn \in Process /\ Unborn.gen = Nobody /\ Unborn.leases = 0 /\ ~Unborn.alive
        /\ Unborn.reaper = Nobody
    BY DEF Unborn, Process
  <1>4. TypeOK
    <2>1. OpType /\ WkType  BY <1>1, <1>2, <1>3 DEF OpType, WkType
    <2>2. OwnerType /\ CountType /\ FlagType
      BY DEF Init, OwnerType, CountType, FlagType
    <2> QED BY <2>1, <2>2, Types
  <1>5. \A c \in Callers : op[c] = Idle  BY <1>1
  <1>6. OpShape
    BY <1>2, <1>5, Distinct
    DEF OpShape, PredictorShape, RefresherShape, CloserShape, Owns, Waiting
  <1>7. LeasesAccounted
    <2>1. \A w \in Workers : Users(w) = {}  BY <1>2, <1>5, Distinct DEF Users
    <2>2. \A g \in Generations : Waiters(g) = {}  BY <1>2, <1>5, Distinct DEF Waiters
    <2>3. Cardinality({}) = 0  BY FS_EmptySet
    <2> QED BY <1>1, <1>3, <2>1, <2>2, <2>3, Accounted
  <1>8. WorkerShape /\ TableShape
    BY <1>1, <1>3 DEF WorkerShape, TableShape
  <1>9. Alone /\ NotCut /\ Closed
    BY <1>2, <1>5, Distinct DEF Alone, Owns, NotCut, Closed
  <1>10. SupersededIsReaped
    BY <1>1, <1>3 DEF SupersededIsReaped, Owned
  <1>11. Linked
    BY <1>1, <1>2, <1>5, Distinct DEF Linked, Held
  <1> QED BY <1>4, <1>6, <1>7, <1>8, <1>9, <1>10, <1>11 DEF OwnerInv

LEMMA OwnerStutter ==
  ASSUME OwnerInv, UNCHANGED vars
  PROVE  OwnerInv'
  <1>1. UNCHANGED <<wk, table, pending, active, published, closing, starter, op, lost, caught,
                    faults>>
    BY DEF vars, owner, history
  <1>2. /\ TypeOK /\ OpShape /\ LeasesAccounted /\ WorkerShape /\ TableShape
        /\ Alone /\ NotCut /\ Closed /\ Linked /\ SupersededIsReaped
    BY DEF OwnerInv
  <1>3. TypeOK'  BY <1>1, <1>2 DEF TypeOK
  <1>4. OpShape'
    BY <1>1, <1>2 DEF OpShape, PredictorShape, RefresherShape, CloserShape, Owns
  <1>5. LeasesAccounted'  BY <1>1, <1>2 DEF LeasesAccounted
  <1>6. WorkerShape' /\ TableShape'  BY <1>1, <1>2 DEF WorkerShape, TableShape
  <1>7. Alone'  BY <1>1, <1>2 DEF Alone, Owns
  <1>8. NotCut' /\ Closed'  BY <1>1, <1>2 DEF NotCut, Closed
  <1>9. Linked' /\ SupersededIsReaped'
    BY <1>1, <1>2 DEF Linked, Held, Doomed, SupersededIsReaped, Owned
  <1> QED BY <1>3, <1>4, <1>5, <1>6, <1>7, <1>8, <1>9 DEF OwnerInv

LEMMA OwnerNext ==
  ASSUME OwnerInv, Next
  PROVE  OwnerInv'
  BY Distinct, PredictInductive, PrepareInductive, CleanUpInductive, RefreshInductive,
     CloseInductive, DiesInductive DEF Next

(* OwnerInv is an invariant of the worker owner.                           *)
THEOREM OwnerInvariant == Spec => []OwnerInv
  <1>1. OwnerInv /\ [Next]_vars => OwnerInv'
    BY OwnerNext, OwnerStutter
  <1> QED BY OwnerInit, <1>1, PTL DEF Spec

(* Every variable of the worker owner keeps its type: leases and pending   *)
(* leases are never given back below zero.                                 *)
THEOREM OwnerTypes == Spec => []TypeOK
  <1>1. OwnerInv => TypeOK  BY DEF OwnerInv
  <1> QED BY OwnerInvariant, <1>1, PTL

(* A worker counts one lease for each prediction that will use it, and a   *)
(* generation one for each that waits, however reservations, starts,       *)
(* swaps, failures and cancellations interleave.                           *)
THEOREM LeasesAddUp == Spec => []LeasesAccounted
  <1>1. OwnerInv => LeasesAccounted  BY DEF OwnerInv
  <1> QED BY OwnerInvariant, <1>1, PTL

(* The refresher never reaps the worker that answers a request, unless the *)
(* swap found it still being started.                                      *)
THEOREM RequestsOutliveSwaps == Spec => []RequestNotCutOff
  <1>1. OwnerInv => RequestNotCutOff
    <2> SUFFICES ASSUME OwnerInv, NEW p \in Predictors, op[p].pc = "request",
                        op[p].work \notin caught, Refresher = wk[op[p].work].reaper
                 PROVE  FALSE
      BY DEF RequestNotCutOff
    <2> DEFINE w == op[p].work
    <2>1. op[p].lease = "attached"  BY DEF OwnerInv, OpShape, PredictorShape
    <2>2. w \in Workers  BY <2>1 DEF OwnerInv, OpShape, PredictorShape
    <2>3. w \in op[Refresher].reap
      BY <2>2, Distinct DEF OwnerInv, WorkerShape
    <2> QED BY <2>1, <2>3 DEF OwnerInv, NotCut
  <1> QED BY OwnerInvariant, <1>1, PTL

(* A worker that a reservation or a refresh would be given has not lost    *)
(* its connection to a failed attempt to reap it, made by a prediction, a  *)
(* refresh or close while it was in use, idle or just starting.            *)
THEOREM UsableWorkersAnswer == Spec => []UsableCanAnswer
  <1>1. OwnerInv => UsableCanAnswer
    <2> SUFFICES ASSUME OwnerInv, NEW g \in Generations, Usable(g)
                 PROVE  wk[table[g]].connected
      BY DEF UsableCanAnswer
    <2>1. table[g] \in Workers /\ ~wk[table[g]].retired
      BY Types DEF Usable, OwnerInv, OwnerType
    <2>2. Held(table[g])  BY DEF Held
    <2> QED BY <2>1, <2>2 DEF OwnerInv, Linked, Doomed
  <1> QED BY OwnerInvariant, <1>1, PTL

(* When close reports success no worker process is left alive, whatever    *)
(* was being started, used or reaped when it began.                        *)
THEOREM CloseIsComplete == Spec => []CloseLeavesNothing
  <1>1. OwnerInv => CloseLeavesNothing
    <2> SUFFICES ASSUME OwnerInv, op[Closer].pc = "closed", NEW w \in Workers, wk[w].alive
                 PROVE  FALSE
      BY DEF CloseLeavesNothing
    <2>1. ~op[Closer].failed /\ op[Closer].reap = {}
      BY Distinct DEF OwnerInv, OpShape, CloserShape
    <2> QED BY <2>1 DEF OwnerInv, Closed
  <1> QED BY OwnerInvariant, <1>1, PTL

(* A superseded worker that no prediction uses any more is on some call's  *)
(* list to be reaped, unless the attempt to reap it failed.                *)
THEOREM SupersededWorkersReaped == Spec => []SupersededIsReaped
  <1>1. OwnerInv => SupersededIsReaped  BY DEF OwnerInv
  <1> QED BY OwnerInvariant, <1>1, PTL

=============================================================================
