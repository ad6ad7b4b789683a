-------------------------- MODULE InferenceWorkers --------------------------
(* PonyChartInferenceOwner (_ponychart_workers.py): one process per model     *)
(* generation, started, leased to predictions, superseded and reaped.        *)
(*                                                                           *)
(* The callers run on one event loop and spawn or kill processes in threads. *)
(* An action is what one of them does between two awaits.  Three kinds:      *)
(*   - Predictors   _predict_labels, then predict_reserved                   *)
(*   - Refresher    preload and refresh: prepare_async, activate, retire     *)
(*   - Closer       close_ponychart_workers                                  *)
(* The last two hold the lifecycle lock of hv_battle_ponychart.py.           *)
(* A deadline or a cancellation may strike at every await.                   *)
EXTENDS Integers, FiniteSets

CONSTANTS Generations,  \* descriptors the store may hand out
          Workers,      \* identities of worker processes, one per spawn
          Predictors, Refresher, Closer,
          Nobody,
          MaxFaults     \* bound: processes that die, challenges that expire unreserved

Callers == Predictors \union {Refresher, Closer}

ASSUME WorkersAssumption ==
    /\ IsFiniteSet(Predictors) /\ IsFiniteSet(Workers)
    /\ Refresher \notin Predictors /\ Closer \notin Predictors /\ Refresher # Closer
    /\ Nobody \notin Generations \union Workers \union Callers
    /\ Workers \intersect Generations = {}
    /\ MaxFaults \in Nat

VARIABLES
    wk,         \* worker |-> its _InferenceProcess
    table,      \* _states: generation |-> the worker that serves it
    pending,    \* _pending_leases
    active,     \* _active_generation
    published,  \* _generation_descriptor of hv_battle_ponychart.py
    closing,    \* _closing
    starter,    \* who holds _async_start_lock
    op,         \* caller |-> its operation in progress
    lost,       \* history: leases never released, per worker or generation
    caught,     \* history: workers an activation retired while they started
    faults

owner == <<table, pending, active, published, closing, starter>>
history == <<lost, caught, faults>>
vars == <<wk, owner, op, history>>

Unborn == [gen |-> Nobody, alive |-> FALSE, connected |-> FALSE, leases |-> 0, retired |-> FALSE,
           reaper |-> Nobody, reaped |-> FALSE, error |-> FALSE, user |-> Nobody]

Idle == [pc |-> "idle", gen |-> Nobody, work |-> Nobody, lease |-> "none", reap |-> {},
         then |-> "idle", failed |-> FALSE]

Init ==
    /\ wk = [w \in Workers |-> Unborn]
    /\ table = [g \in Generations |-> Nobody]
    /\ pending = [g \in Generations |-> 0]
    /\ active = Nobody /\ published = Nobody /\ closing = FALSE /\ starter = Nobody
    /\ op = [c \in Callers |-> Idle]
    /\ lost = [x \in Workers \union Generations |-> 0]
    /\ caught = {} /\ faults = 0

(* _owned_states: registered and not proved reaped. *)
Owned == {w \in Workers : wk[w].gen # Nobody /\ ~wk[w].reaped}

(* Mutant of Spawning: only registered workers count. *)
NothingSpawning == {}

(* _spawning: threads inside _spawn, the clean-up of a failed one included. *)
Spawning == {c \in Callers : op[c].pc = "spawn" \/ (op[c].pc = "reap" /\ op[c].then = "spawnFailed")}

(* _usable_state_locked. *)
Usable(g) ==
    LET w == table[g]
    IN  w # Nobody /\ ~wk[w].retired /\ wk[w].reaper = Nobody /\ ~wk[w].reaped /\ wk[w].alive

Goto(c, pc) == op' = [op EXCEPT ![c].pc = pc]

Reaping(o, targets, then) == [o EXCEPT !.pc = "reap", !.reap = targets, !.then = then, !.failed = FALSE]

(* Mutant of Retired: the worker is reaped and not marked. *)
Unmarked(w) == wk[w]

Retired(w) == [wk[w] EXCEPT !.retired = TRUE]

(* Mutants of Unleased and ReapedAtLast: a swap reaps every other worker; a  *)
(* lease is given back and nothing more.                                     *)
Superseded(ws) == ws
NeverReaped(o) == FALSE

(* What a swap may reap at once: retire_superseded_async. *)
Unleased(ws) == {w \in ws : wk[w].leases = 0}

(* Whether the return of a lease of worker o makes it nobody's. *)
ReapedAtLast(o) == o.retired /\ o.leases <= 1
-----------------------------------------------------------------------------
(* Leases *)

(* reserve, under the lock that guards the publication.  The challenge's     *)
(* deadline is looked at after it and before predict_reserved: when it has   *)
(* passed, nobody is left to release the lease.                              *)
Reserve(p) ==
    /\ op[p].pc = "idle"
    /\ published # Nobody /\ active = published
    /\ \E expired \in BOOLEAN :
        /\ faults' = faults + IF expired THEN 1 ELSE 0
        /\ faults' <= MaxFaults
        /\ IF Usable(active)
           THEN /\ wk' = [wk EXCEPT ![table[active]].leases = @ + 1]
                /\ lost' = IF expired THEN [lost EXCEPT ![table[active]] = @ + 1] ELSE lost
                /\ op' = [op EXCEPT ![p] = IF expired THEN Idle
                            ELSE [Idle EXCEPT !.pc = "queue", !.gen = active,
                                              !.work = table[active], !.lease = "attached"]]
                /\ UNCHANGED pending
           ELSE /\ pending' = [pending EXCEPT ![active] = @ + 1]
                /\ lost' = IF expired THEN [lost EXCEPT ![active] = @ + 1] ELSE lost
                /\ op' = [op EXCEPT ![p] = IF expired THEN Idle
                            ELSE [Idle EXCEPT !.pc = "start", !.gen = active, !.lease = "pending"]]
                /\ UNCHANGED wk
    /\ UNCHANGED <<table, active, published, closing, starter, caught>>

(* The end of predict_reserved, with the workers as the last await left      *)
(* them: the request lock is given back, then _release_lease, which reaps a  *)
(* superseded worker after its last lease.                                   *)
Return(p, w, attached, base) ==
    IF attached
    THEN /\ wk' = [base EXCEPT ![w].leases = IF @ <= 1 THEN 0 ELSE @ - 1,
                               ![w].user = IF @ = p THEN Nobody ELSE @]
         /\ op' = [op EXCEPT ![p] = IF ReapedAtLast(base[w])
                                    THEN Reaping([Idle EXCEPT !.work = w], {w}, "idle") ELSE Idle]
    ELSE /\ wk' = base
         /\ op' = [op EXCEPT ![p] = Idle]

(* Mutant of Fails: an attached lease is given back to its generation too. *)
FailsTwice(c) ==
    IF c \in Predictors
    THEN /\ Return(c, op[c].work, op[c].lease = "attached", wk)
         /\ pending' = [pending EXCEPT ![op[c].gen] = @ - 1]
    ELSE /\ op' = [op EXCEPT ![c] = Idle]
         /\ UNCHANGED <<wk, pending>>

(* An error leaves the operation of c. *)
Fails(c) ==
    IF c \in Predictors
    THEN LET attached == op[c].lease = "attached"
         IN  /\ Return(c, op[c].work, attached, wk)
             /\ pending' = IF attached THEN pending ELSE [pending EXCEPT ![op[c].gen] = IF @ <= 1 THEN 0 ELSE @ - 1]
    ELSE /\ op' = [op EXCEPT ![c] = Idle]
         /\ UNCHANGED <<wk, pending>>
-----------------------------------------------------------------------------
(* Starting a worker: prepare_async for the refresher, _prepare_async for a  *)
(* prediction whose reservation found none.                                  *)

(* _attach_pending_lease. *)
Attached(p, w) ==
    [wk EXCEPT ![w].leases = @ + 1,
                 ![w].retired = @ \/ active # op[p].gen]

(* The start lock is given back with worker w; the deadline may be over.     *)
Started(c, w) ==
    /\ starter' = Nobody
    /\ \E late \in BOOLEAN :
        IF c \in Predictors
        THEN /\ pending' = [pending EXCEPT ![op[c].gen] = @ - 1]
             /\ IF late
                THEN Return(c, w, TRUE, Attached(c, w))
                ELSE /\ wk' = Attached(c, w)
                     /\ op' = [op EXCEPT ![c] = [@ EXCEPT !.pc = "queue", !.work = w, !.lease = "attached"]]
        ELSE /\ op' = [op EXCEPT ![c] = IF late THEN Idle ELSE [Idle EXCEPT !.pc = "publish", !.gen = op[c].gen]]
             /\ UNCHANGED <<wk, pending>>

(* The first look of prepare_async, before it asks for the start lock. *)
BeginPrepare(g) ==
    /\ op[Refresher].pc = "idle" /\ op[Closer].pc \in {"idle", "closed"}
    /\ \E pc \in IF Usable(g) THEN {"publish", "idle"} ELSE {"start"} :
         op' = [op EXCEPT ![Refresher] = IF pc = "idle" THEN Idle ELSE [Idle EXCEPT !.pc = pc, !.gen = g]]
    /\ UNCHANGED <<wk, owner, history>>

Start(c) ==
    /\ op[c].pc = "start" /\ starter = Nobody
    /\ \/ /\ Usable(op[c].gen)
          /\ Started(c, table[op[c].gen])
          /\ UNCHANGED <<table, active, published, closing>>
       \/ /\ ~Usable(op[c].gen)
          /\ starter' = c
          /\ Goto(c, "thread")
          /\ UNCHANGED <<wk, table, pending, active, published, closing>>
    /\ UNCHANGED history

StartExpires(c) ==
    /\ op[c].pc = "start"
    /\ Fails(c)
    /\ UNCHANGED <<table, active, published, closing, starter, history>>

(* The thread of _spawn begins, and counts, unless the owner is closing. *)
EnterSpawn(c) ==
    /\ op[c].pc = "thread"
    /\ IF closing THEN Fails(c) /\ starter' = Nobody
       ELSE Goto(c, "spawn") /\ UNCHANGED <<wk, pending, starter>>
    /\ UNCHANGED <<table, active, published, closing, history>>

(* An identity is given to a new process once no call refers to the old one. *)
Unused(w) ==
    /\ wk[w].gen = Nobody \/ wk[w].reaped
    /\ \A c \in Callers : op[c].work # w /\ w \notin op[c].reap

(* A process is registered, and either says hello or is reaped by the        *)
(* thread; a cancellation is only acted on once the thread is back.          *)
Spawned(c, w) ==
    /\ op[c].pc = "spawn" /\ Unused(w)
    /\ wk' = [wk EXCEPT ![w] = [Unborn EXCEPT !.gen = op[c].gen, !.alive = TRUE, !.connected = TRUE]]
    /\ \/ op' = [op EXCEPT ![c] = [@ EXCEPT !.pc = "ready", !.work = w]]
       \/ \E then \in {"spawnFailed", "startFailed"} :
            op' = [op EXCEPT ![c] = Reaping([@ EXCEPT !.work = w], {w}, then)]
    /\ lost' = [lost EXCEPT ![w] = 0] /\ caught' = caught \ {w}
    /\ UNCHANGED <<owner, faults>>

(* No process came to be. *)
SpawnFails(c) ==
    /\ op[c].pc = "spawn"
    /\ Fails(c)
    /\ starter' = Nobody
    /\ UNCHANGED <<table, active, published, closing, history>>

(* READY arrived: register the worker, unless its generation still has one.  *)
(* That one is not usable: the start lock was held since it was looked for.  *)
Ready(c) ==
    LET w == op[c].work
        g == op[c].gen
        occupied == table[g] # Nobody /\ ~wk[table[g]].reaped
    IN  /\ op[c].pc = "ready" /\ wk[w].alive /\ wk[w].connected
        /\ \/ /\ closing
              /\ op' = [op EXCEPT ![c] = Reaping(@, {w}, "startFailed")]
              /\ UNCHANGED <<wk, owner>>
           \/ /\ ~closing /\ occupied
              /\ op' = [op EXCEPT ![c] = Reaping(@, {w}, "startFailed")]
              /\ UNCHANGED <<wk, owner>>
           \/ /\ ~closing /\ ~occupied
              /\ table' = [table EXCEPT ![g] = w]
              /\ Started(c, w)
              /\ UNCHANGED <<active, published, closing>>
    /\ UNCHANGED <<lost, caught, faults>>

NotReady(c) ==
    /\ op[c].pc = "ready"
    /\ op' = [op EXCEPT ![c] = Reaping(@, {@.work}, "startFailed")]
    /\ UNCHANGED <<wk, owner, history>>
-----------------------------------------------------------------------------
(* predict_reserved: one request at a time per worker *)

(* The request lock, then the request; from there on the child may have it.  *)
(* On a connection that was closed the send raises: RequestFails.            *)
Request(p) ==
    LET w == op[p].work
    IN  /\ op[p].pc = "queue" /\ wk[w].user = Nobody
        /\ wk[w].alive /\ wk[w].reaper = Nobody
        /\ wk' = [wk EXCEPT ![w].user = p]
        /\ Goto(p, "request")
        /\ UNCHANGED <<owner, history>>

(* The worker is gone, or the deadline passes first. *)
NoRequest(p) ==
    /\ op[p].pc = "queue"
    /\ Fails(p)
    /\ UNCHANGED <<table, active, published, closing, starter, history>>

(* A result, or the child's report that this request failed. *)
Answer(p) ==
    LET w == op[p].work
    IN  /\ op[p].pc = "request" /\ wk[w].alive /\ wk[w].connected
        /\ Return(p, w, TRUE, wk)
        /\ UNCHANGED <<owner, history>>

(* Deadline, cancellation, a broken or a closed connection, or an answer     *)
(* that does not name this request: _retire_request_worker.                  *)
RequestFails(p) ==
    LET w == op[p].work
    IN  /\ op[p].pc = "request"
        /\ wk' = [wk EXCEPT ![w] = Retired(w)]
        /\ op' = [op EXCEPT ![p] = Reaping(@, {w}, "release")]
        /\ UNCHANGED <<owner, history>>

(* The process ends by itself. *)
Dies(w) ==
    /\ w \in Owned /\ wk[w].alive /\ faults < MaxFaults
    /\ wk' = [wk EXCEPT ![w].alive = FALSE]
    /\ faults' = faults + 1
    /\ UNCHANGED <<owner, op, lost, caught>>
-----------------------------------------------------------------------------
(* Publication, and the end of workers *)

(* Workers some call is starting: owned, but not yet anybody's lease. *)
Starting == {w \in Owned : \E c \in Callers : op[c].pc = "ready" /\ op[c].work = w}

(* _publish: activate under the publication lock, then reap the idle rest. *)
Publish ==
    LET g == op[Refresher].gen
        others == Owned \ {table[g]}
        unleased == Unleased(others)
    IN  /\ op[Refresher].pc = "publish"
        /\ IF Usable(g) /\ ~closing
           THEN /\ active' = g /\ published' = g
                /\ wk' = [w \in Workers |-> IF w \in others THEN Retired(w) ELSE wk[w]]
                /\ op' = [op EXCEPT ![Refresher] = Reaping(Idle, unleased, "idle")]
                /\ caught' = caught \union (unleased \intersect Starting)
           ELSE /\ op' = [op EXCEPT ![Refresher] = Idle]
                /\ UNCHANGED <<active, published, wk, caught>>
        /\ UNCHANGED <<table, pending, closing, starter, lost, faults>>

(* _claim_cleanup: one caller reaps, the others wait for it. *)
ClaimReap(c, w) ==
    /\ op[c].pc = "reap" /\ w \in op[c].reap
    /\ wk[w].reaper = Nobody /\ ~wk[w].reaped
    /\ wk' = [wk EXCEPT ![w].reaper = c, ![w].error = FALSE]
    /\ UNCHANGED <<owner, op, history>>

(* TERM, KILL and the proof that the process is gone: _finish_cleanup. *)
Reap(c, w) ==
    /\ op[c].pc = "reap" /\ wk[w].reaper = c
    /\ wk' = [wk EXCEPT ![w].reaper = Nobody, ![w].alive = FALSE, ![w].connected = FALSE,
                        ![w].reaped = TRUE]
    /\ table' = [g \in Generations |-> IF table[g] = w THEN Nobody ELSE table[g]]
    /\ op' = [op EXCEPT ![c].reap = @ \ {w}]
    /\ UNCHANGED <<pending, active, published, closing, starter, history>>

(* No proof before the deadline: the worker stays owned, dead or alive, but  *)
(* its connection is closed all the same.                                    *)
ReapFails(c, w) ==
    /\ op[c].pc = "reap" /\ wk[w].reaper = c
    /\ \E alive \in {wk[w].alive, FALSE} :
         wk' = [wk EXCEPT ![w].reaper = Nobody, ![w].alive = alive, ![w].connected = FALSE,
                          ![w].error = TRUE]
    /\ op' = [op EXCEPT ![c].reap = @ \ {w}, ![c].failed = TRUE]
    /\ UNCHANGED <<owner, history>>

(* Somebody else reaped it, or did not before the deadline. *)
AwaitReaped(c, w) ==
    /\ op[c].pc = "reap" /\ w \in op[c].reap
    /\ wk[w].reaped \/ wk[w].reaper \notin {Nobody, c}
    /\ \E late \in BOOLEAN :
        /\ ~wk[w].reaped => late
        /\ op' = [op EXCEPT ![c].reap = @ \ {w}, ![c].failed = @ \/ late]
    /\ UNCHANGED <<wk, owner, history>>

AfterReap(c) ==
    LET then == op[c].then
    IN  /\ op[c].pc = "reap" /\ op[c].reap = {}
        /\ \/ /\ then \in {"startFailed", "spawnFailed"}
              /\ starter' = Nobody
              /\ Fails(c)
              /\ UNCHANGED <<table, active, published, closing>>
           \/ /\ then = "release"
              /\ Fails(c)
              /\ UNCHANGED <<table, active, published, closing, starter>>
           \/ /\ then \in {"idle", "closed"}
              /\ op' = [op EXCEPT ![c] = IF then = "closed" /\ ~op[c].failed
                                         THEN [Idle EXCEPT !.pc = "closed"] ELSE Idle]
              /\ UNCHANGED <<wk, owner>>
    /\ UNCHANGED history

(* _close_at *)
BeginClose ==
    /\ op[Closer].pc = "idle" /\ op[Refresher].pc = "idle"
    /\ closing' = TRUE /\ active' = Nobody
    /\ Goto(Closer, "settle")
    /\ UNCHANGED <<wk, table, pending, published, starter, history>>

CloseSettled ==
    /\ op[Closer].pc = "settle" /\ Spawning = {}
    /\ wk' = [w \in Workers |-> IF w \in Owned THEN Retired(w) ELSE wk[w]]
    /\ op' = [op EXCEPT ![Closer] = Reaping(@, Owned, "closed")]
    /\ UNCHANGED <<owner, history>>

CloseExpires ==
    /\ op[Closer].pc = "settle"
    /\ Goto(Closer, "idle")
    /\ UNCHANGED <<wk, owner, history>>
-----------------------------------------------------------------------------
Predict(p) == Reserve(p) \/ Request(p) \/ NoRequest(p) \/ Answer(p) \/ RequestFails(p)

Prepare(c) ==
    \/ Start(c) \/ StartExpires(c) \/ EnterSpawn(c) \/ SpawnFails(c) \/ Ready(c) \/ NotReady(c)
    \/ \E w \in Workers : Spawned(c, w)

CleanUp(c) ==
    \/ \E w \in Workers : ClaimReap(c, w) \/ Reap(c, w) \/ ReapFails(c, w) \/ AwaitReaped(c, w)
    \/ AfterReap(c)

Close == BeginClose \/ CloseSettled \/ CloseExpires

Next ==
    \/ \E p \in Predictors : Predict(p) \/ Prepare(p) \/ CleanUp(p)
    \/ \E g \in Generations : BeginPrepare(g)
    \/ Prepare(Refresher) \/ Publish \/ CleanUp(Refresher)
    \/ Close \/ CleanUp(Closer)
    \/ \E w \in Workers : Dies(w)

Spec == Init /\ [][Next]_vars
-----------------------------------------------------------------------------
(* Properties *)

Steps == {"idle", "start", "thread", "spawn", "ready", "queue", "request", "publish", "reap",
          "settle", "closed"}

TypeOK ==
    /\ wk \in [Workers -> [gen : Generations \union {Nobody}, alive : BOOLEAN, connected : BOOLEAN,
                           leases : Nat, retired : BOOLEAN, reaper : Callers \union {Nobody},
                           reaped : BOOLEAN, error : BOOLEAN, user : Predictors \union {Nobody}]]
    /\ table \in [Generations -> Workers \union {Nobody}]
    /\ pending \in [Generations -> Nat]
    /\ active \in Generations \union {Nobody}
    /\ published \in Generations \union {Nobody}
    /\ closing \in BOOLEAN
    /\ starter \in Callers \union {Nobody}
    /\ op \in [Callers -> [pc : Steps, gen : Generations \union {Nobody},
                           work : Workers \union {Nobody}, lease : {"none", "pending", "attached"},
                           reap : SUBSET Workers,
                           then : {"idle", "startFailed", "spawnFailed", "release", "closed"},
                           failed : BOOLEAN]]
    /\ lost \in [Workers \union Generations -> Nat]
    /\ caught \subseteq Workers
    /\ faults \in Nat

(* Accounting.  A worker counts one lease for each prediction that will use  *)
(* it and a generation one pending lease for each that waits for a worker,   *)
(* those of expired challenges aside: no interleaving of reservations,       *)
(* starts, swaps, failures and cancellations returns one twice or keeps one. *)
LeasesAccounted ==
    /\ \A w \in Workers : wk[w].leases = lost[w]
         + Cardinality({p \in Predictors : op[p].lease = "attached" /\ op[p].work = w})
    /\ \A g \in Generations : pending[g] = lost[g]
         + Cardinality({p \in Predictors : op[p].lease = "pending" /\ op[p].gen = g})

(* A prediction whose request is with its worker is not cut off by a swap of *)
(* generations: the refresher never reaps that worker, unless the swap found *)
(* it while it was still being started.                                      *)
RequestNotCutOff ==
    \A p \in Predictors : op[p].pc = "request" /\ op[p].work \notin caught
        => Refresher # wk[op[p].work].reaper

(* The worker that a reservation or a refresh would be given can answer: one *)
(* that was to be reaped and could not be keeps its place in the table, and  *)
(* perhaps its process, but not its connection, and is given to nobody,      *)
(* whoever reaped it and wherever it stood: in use, idle or starting.        *)
UsableCanAnswer ==
    \A g \in Generations : Usable(g) => wk[table[g]].connected

(* When close reports success no worker process is left, whatever was being  *)
(* started, used or reaped when it began.                                    *)
CloseLeavesNothing ==
    op[Closer].pc = "closed" => \A w \in Workers : ~wk[w].alive

(* A superseded worker that no prediction uses any more is on some call's    *)
(* list to be reaped, unless the attempt to reap it failed.                  *)
SupersededIsReaped ==
    \A w \in Owned : wk[w].retired /\ wk[w].leases = 0 /\ ~wk[w].error
        => \E c \in Callers : w \in op[c].reap
=============================================================================
