----------------------------- MODULE ModelStore -----------------------------
(***************************************************************************)
(* ponychart_model_store.py: the immutable, content-addressed generations  *)
(* of the PonyChart classifier's two files, kept in one directory that     *)
(* several processes refresh from one HTTPS origin.  A process reads the   *)
(* pointer current.json, asks the origin for the ETags (HEAD), downloads   *)
(* both files into a staging directory (GET), asks for the ETags again,    *)
(* renames the stage to its generation, and replaces the pointer under a   *)
(* lock if the pointer is still the one it had read.                       *)
(*                                                                         *)
(* A file's bytes are its version at the origin, an ETag names a version,  *)
(* and a generation is the pair of versions whose hashes make its name.    *)
(* The file system is modelled as the explicit fsyncs treat it: a rename   *)
(* or a replace is visible at once, and outlives a power loss for certain  *)
(* only once the directory has been synced.                                *)
(***************************************************************************)
EXTENDS Integers, FiniteSets

CONSTANTS
    Procs,        \* processes that share the store
    MaxVersion,   \* versions of each file the origin publishes
    MaxFaults     \* missing ETags, failed or killed operations, power losses

Nobody == "nobody"

ASSUME StoreAssumption == /\ Nobody \notin Procs
                          /\ MaxVersion \in Nat \ {0}
                          /\ MaxFaults \in Nat

Files == {"model", "thresholds"}
Versions == 1..MaxVersion
Generation == [Files -> Versions]

(* An ETag that is missing, or bytes that are not there yet.               *)
Unknown == 0
Tags == [Files -> Versions \cup {Unknown}]
NoTags == [f \in Files |-> Unknown]

(* current.json: a generation, and the ETags its downloads carried.        *)
Pointer == [gen : Generation, tags : Tags]
NoPointer == [gen |-> NoTags, tags |-> NoTags]

Phases == {"before", "during", "after"}
Steps == {"idle", "adopt", "before", "reread", "stage", "during", "after",
          "validate", "promote", "rename", "sync", "load", "lock", "replace",
          "syncRoot", "finish", "peer"}

VARIABLES
    remote,      \* the version of each file at the origin
    served,      \* history: the pairs of versions the origin has held at once
    gens,        \* the generation directories
    durable,     \* ... that outlive a power loss
    current,     \* current.json
    pending,     \* the pointers a power loss may leave behind
    lock,        \* who holds the update lock
    published,   \* per process, the generation its predictor runs on
    op,          \* per process, the operation in progress
    unsynced,    \* history: generations a process found in place and used
                 \* before the rename that put them there was synced
    faults

storeVars == <<gens, durable, current, pending, lock>>
originVars == <<remote, served>>
historyVars == <<unsynced, faults>>
vars == <<storeVars, originVars, published, op, historyVars>>

(* No operation in progress.                                               *)
Idle == [step |-> "idle", file |-> "model", expected |-> NoPointer,
         target |-> NoTags, seen |-> [ph \in Phases |-> NoTags],
         bytes |-> NoTags, staged |-> FALSE]

Operation == [step : Steps, file : Files, expected : Pointer \cup {NoPointer},
              target : Generation \cup {NoTags}, seen : [Phases -> Tags],
              bytes : Tags, staged : BOOLEAN]

Init == /\ remote = [f \in Files |-> 1]
        /\ served = {remote}
        /\ gens = {} /\ durable = {}
        /\ current = NoPointer /\ pending = {NoPointer}
        /\ lock = Nobody
        /\ published = [p \in Procs |-> NoTags]
        /\ op = [p \in Procs |-> Idle]
        /\ unsynced = {} /\ faults = 0

(***************************************************************************)
(* What the steps share.                                                   *)
(***************************************************************************)
At(p, step) == op[p].step = step
Goto(p, step) == op' = [op EXCEPT ![p].step = step]

(* The operation is over, and the process runs on gen.                     *)
End(p, gen) == /\ published' = [published EXCEPT ![p] = gen]
               /\ op' = [op EXCEPT ![p] = Idle]

(* Syncing the generations directory keeps every rename done in it.        *)
SyncGenerations == durable' = gens

(* A stage still in place is removed, and the directory synced.            *)
DiscardStage(p) == IF op[p].staged THEN SyncGenerations ELSE UNCHANGED durable

(* The origin's answer about a file carries its ETag, or none.             *)
Answer(f, tag) == \/ tag = remote[f] /\ UNCHANGED faults
                  \/ /\ tag = Unknown
                     /\ faults < MaxFaults /\ faults' = faults + 1

(***************************************************************************)
(* load_or_bootstrap and refresh.                                          *)
(***************************************************************************)

(* A process starts, reads the pointer under the lock, and creates the     *)
(* first generation, adopts a peer's, or checks its own and asks the       *)
(* origin.                                                                 *)
ReadPointer(p) ==
    /\ At(p, "idle") /\ lock = Nobody
    /\ \/ /\ current = NoPointer
          /\ Goto(p, "before")
       \/ /\ current # NoPointer /\ current.gen # published[p]
          /\ op' = [op EXCEPT ![p].step = "adopt", ![p].target = current.gen]
       \/ /\ current # NoPointer /\ current.gen = published[p]
          /\ current.gen \in gens
          /\ op' = [op EXCEPT ![p].step = "before", ![p].expected = current]
    /\ UNCHANGED <<storeVars, originVars, published, historyVars>>

(* The pointer of a peer is adopted if its generation can be loaded.       *)
Adopt(p) == /\ At(p, "adopt")
            /\ End(p, IF op[p].target \in gens THEN op[p].target
                                               ELSE published[p])
            /\ UNCHANGED <<storeVars, originVars, historyVars>>

(* Mutant of Note: the latest ETag stands for the downloaded bytes.        *)
NoteLatest(p, phase, tag, next) ==
    op' = [op EXCEPT
             ![p].seen[phase][op[p].file] = tag,
             ![p].seen["during"][op[p].file] = tag,
             ![p].file = IF @ = "model" THEN "thresholds" ELSE "model",
             ![p].step = IF op[p].file = "model" THEN @ ELSE next]

(* HEAD, or the ETag of a GET's answer: the model's, then the thresholds'. *)
Note(p, phase, tag, next) ==
    op' = [op EXCEPT
             ![p].seen[phase][op[p].file] = tag,
             ![p].file = IF @ = "model" THEN "thresholds" ELSE "model",
             ![p].step = IF op[p].file = "model" THEN @ ELSE next]

(* The ETags before the download; a first generation needs no second look  *)
(* at the pointer.                                                         *)
HeadBefore(p) ==
    /\ At(p, "before")
    /\ \E tag \in Versions \cup {Unknown} :
          /\ Answer(op[p].file, tag)
          /\ Note(p, "before", tag,
                  IF op[p].expected = NoPointer THEN "stage" ELSE "reread")
    /\ UNCHANGED <<storeVars, originVars, published, unsynced>>

Complete(tags) == \A f \in Files : tags[f] # Unknown

(* The pointer is read again: a peer's commit is adopted, equal and        *)
(* complete ETags mean there is nothing to do, and anything else means a   *)
(* download.                                                               *)
ReRead(p) ==
    /\ At(p, "reread") /\ lock = Nobody
    /\ \/ /\ current # op[p].expected /\ current.gen # published[p]
          /\ op' = [op EXCEPT ![p].step = "adopt", ![p].target = current.gen]
          /\ UNCHANGED published
       \/ /\ current # op[p].expected /\ current.gen = published[p]
          /\ End(p, published[p])
       \/ /\ current = op[p].expected
          /\ Complete(current.tags) /\ current.tags = op[p].seen["before"]
          /\ End(p, published[p])
       \/ /\ current = op[p].expected
          /\ ~(Complete(current.tags) /\ current.tags = op[p].seen["before"])
          /\ Goto(p, "stage")
          /\ UNCHANGED published
    /\ UNCHANGED <<storeVars, originVars, historyVars>>

(***************************************************************************)
(* _prepare_download_stage.                                                *)
(***************************************************************************)
Stage(p) == /\ At(p, "stage")
            /\ op' = [op EXCEPT ![p].step = "during", ![p].staged = TRUE]
            /\ SyncGenerations
            /\ UNCHANGED <<gens, current, pending, lock, originVars,
                           published, historyVars>>

(* GET: the bytes are what the origin has now, with its ETag or without.   *)
Download(p) ==
    /\ At(p, "during")
    /\ \E tag \in Versions \cup {Unknown} :
          /\ Answer(op[p].file, tag)
          /\ op' = [op EXCEPT
                      ![p].bytes[op[p].file] = remote[op[p].file],
                      ![p].seen["during"][op[p].file] = tag,
                      ![p].file = IF @ = "model" THEN "thresholds"
                                                 ELSE "model",
                      ![p].step = IF op[p].file = "model" THEN @
                                                          ELSE "after"]
    /\ UNCHANGED <<storeVars, originVars, published, unsynced>>

HeadAfter(p) ==
    /\ At(p, "after")
    /\ \E tag \in Versions \cup {Unknown} :
          /\ Answer(op[p].file, tag)
          /\ Note(p, "after", tag, "validate")
    /\ UNCHANGED <<storeVars, originVars, published, unsynced>>

(* Mutant of StableEtags: the ETags after the download are not compared.   *)
StableSoFar(seen, f) ==
    Cardinality({seen[ph][f] : ph \in {"before", "during"}} \ {Unknown}) <= 1

(* _assert_stable_etags: of the three ETags of a file, the known agree.    *)
StableEtags(seen, f) ==
    Cardinality({seen[ph][f] : ph \in Phases} \ {Unknown}) <= 1

Validate(p) ==
    /\ At(p, "validate")
    /\ \/ /\ \A f \in Files : StableEtags(op[p].seen, f)
          /\ Goto(p, "promote")
          /\ UNCHANGED <<durable, published>>
       \/ /\ \E f \in Files : ~StableEtags(op[p].seen, f)
          /\ End(p, published[p])
          /\ DiscardStage(p)
    /\ UNCHANGED <<gens, current, pending, lock, originVars, historyVars>>

(***************************************************************************)
(* _publish_prepared.                                                      *)
(***************************************************************************)

(* _promote_prepared: a generation that is there already is used as it is. *)
(* Of the ETags, only those of the downloads are still of use.             *)
Promoting(p, step) ==
    op' = [op EXCEPT ![p].step = step,
                     ![p].seen["before"] = NoTags, ![p].seen["after"] = NoTags]

Promote(p) ==
    /\ At(p, "promote")
    /\ \/ /\ op[p].bytes \in gens
          /\ Promoting(p, "load")
          /\ unsynced' = unsynced \cup ({op[p].bytes} \ durable)
       \/ /\ op[p].bytes \notin gens
          /\ Promoting(p, "rename")
          /\ UNCHANGED unsynced
    /\ UNCHANGED <<storeVars, originVars, published, faults>>

(* A peer may have renamed the same pair meanwhile: the stage then stays.  *)
Rename(p) ==
    /\ At(p, "rename")
    /\ gens' = gens \cup {op[p].bytes}
    /\ op' = [op EXCEPT ![p].step = "sync",
                        ![p].staged = op[p].bytes \in gens]
    /\ UNCHANGED <<durable, current, pending, lock, originVars, published,
                   historyVars>>

(* Mutant of SyncPromoted: the rename is not synced.                       *)
LoadUnsynced(p) == /\ At(p, "sync")
                   /\ Goto(p, "load")
                   /\ UNCHANGED <<storeVars, originVars, published,
                                  historyVars>>

SyncPromoted(p) == /\ At(p, "sync")
                   /\ SyncGenerations
                   /\ Goto(p, "load")
                   /\ UNCHANGED <<gens, current, pending, lock, originVars,
                                  published, historyVars>>

(* The generation in place is validated and loaded.                        *)
Load(p) == /\ At(p, "load")
           /\ op[p].bytes \in gens
           /\ Goto(p, "lock")
           /\ UNCHANGED <<storeVars, originVars, published, historyVars>>

(* Mutant of Decide: a peer's commit is overwritten.                       *)
CommitAnyway(p) == /\ At(p, "lock") /\ lock = Nobody
                   /\ lock' = p
                   /\ Goto(p, "replace")
                   /\ UNCHANGED <<gens, durable, current, pending, originVars,
                                  published, historyVars>>

(* Under the lock: commit if the pointer is still the one this operation   *)
(* read, otherwise go on with the peer's.                                  *)
Decide(p) ==
    /\ At(p, "lock") /\ lock = Nobody
    /\ \/ /\ current = op[p].expected
          /\ lock' = p
          /\ Goto(p, "replace")
       \/ /\ current # op[p].expected
          /\ op' = [op EXCEPT ![p].step = "peer", ![p].target = current.gen]
          /\ UNCHANGED lock
    /\ UNCHANGED <<gens, durable, current, pending, originVars, published,
                   historyVars>>

(* _commit_pointer: replace, then sync the directory.                      *)
NewPointer(p) == [gen |-> op[p].bytes, tags |-> op[p].seen["during"]]

Replace(p) == /\ At(p, "replace")
              /\ current' = NewPointer(p)
              /\ pending' = pending \cup {NewPointer(p)}
              /\ Goto(p, "syncRoot")
              /\ UNCHANGED <<gens, durable, lock, originVars, published,
                             historyVars>>

SyncRoot(p) == /\ At(p, "syncRoot")
               /\ pending' = {current}
               /\ lock' = Nobody
               /\ Goto(p, "finish")
               /\ UNCHANGED <<gens, durable, current, originVars, published,
                              historyVars>>

Finish(p) == /\ At(p, "finish")
             /\ End(p, op[p].bytes)
             /\ DiscardStage(p)
             /\ UNCHANGED <<gens, current, pending, lock, originVars,
                            historyVars>>

LoadPeer(p) == /\ At(p, "peer")
               /\ End(p, IF op[p].target \in gens THEN op[p].target
                                                  ELSE published[p])
               /\ DiscardStage(p)
               /\ UNCHANGED <<gens, current, pending, lock, originVars,
                              historyVars>>

(***************************************************************************)
(* Failures and the origin.                                                *)
(***************************************************************************)
(* The operating system or the finally clause gives the lock back.         *)
FreeLock(p) == lock' = IF lock = p THEN Nobody ELSE lock

(* A deadline, an I/O error or a candidate that does not load ends the     *)
(* operation and discards its stage; a kill leaves the stage where it is   *)
(* and takes the predictor with it.  Either way the lock goes.             *)
Fail(p) == /\ ~At(p, "idle")
           /\ faults < MaxFaults /\ faults' = faults + 1
           /\ FreeLock(p)
           /\ \/ End(p, published[p]) /\ DiscardStage(p)
              \/ End(p, NoTags) /\ UNCHANGED durable
           /\ UNCHANGED <<gens, current, pending, originVars, unsynced>>

(* The machine loses power: every process is gone, and so are any of the   *)
(* renames and the replace that were not synced.                           *)
PowerLoss == /\ faults < MaxFaults /\ faults' = faults + 1
             /\ \E kept \in SUBSET (gens \ durable) : gens' = durable \cup kept
             /\ durable' = gens'
             /\ current' \in pending
             /\ pending' = {current'}
             /\ lock' = Nobody
             /\ published' = [p \in Procs |-> NoTags]
             /\ op' = [p \in Procs |-> Idle]
             /\ UNCHANGED <<originVars, unsynced>>

(* The origin publishes a new version of one file.                         *)
NewVersion == /\ \E f \in Files : /\ remote[f] < MaxVersion
                                  /\ remote' = [remote EXCEPT ![f] = @ + 1]
              /\ served' = served \cup {remote'}
              /\ UNCHANGED <<storeVars, published, op, historyVars>>

Step(p) == \/ ReadPointer(p) \/ Adopt(p) \/ HeadBefore(p) \/ ReRead(p)
           \/ Stage(p) \/ Download(p) \/ HeadAfter(p) \/ Validate(p)
           \/ Promote(p) \/ Rename(p) \/ SyncPromoted(p) \/ Load(p)
           \/ Decide(p) \/ Replace(p) \/ SyncRoot(p) \/ Finish(p)
           \/ LoadPeer(p)

Next == \/ \E p \in Procs : Step(p) \/ Fail(p)
        \/ PowerLoss \/ NewVersion

Spec == Init /\ [][Next]_vars

(* A process that keeps refreshing, each of whose steps comes: every call, *)
(* transfer and wait of the store is under a deadline.                     *)
FairSpec == Spec /\ \A p \in Procs : WF_vars(Step(p))

(***************************************************************************)
(* Properties.                                                             *)
(***************************************************************************)
TypeOK == /\ remote \in Generation /\ served \subseteq Generation
          /\ gens \subseteq Generation /\ durable \subseteq gens
          /\ current \in Pointer \cup {NoPointer}
          /\ pending \subseteq Pointer \cup {NoPointer}
          /\ lock \in Procs \cup {Nobody}
          /\ published \in [Procs -> Generation \cup {NoTags}]
          /\ op \in [Procs -> Operation]
          /\ unsynced \subseteq Generation /\ faults \in 0..MaxFaults
          \* The lock is held exactly where the pointer is being replaced.
          /\ \A p \in Procs : lock = p <=> op[p].step \in {"replace", "syncRoot"}

(* Whatever a power loss leaves in current.json names a generation that it *)
(* leaves too, unless the process that committed it had found the          *)
(* generation in place and so never synced it.                             *)
PointerNamesGeneration ==
    \A c \in (pending \cup {current}) \ {NoPointer} :
        c.gen \in durable \/ c.gen \in unsynced

(* README: an interrupted update cannot advance the pointer to a partial   *)
(* generation, because the generation is synced before the pointer is      *)
(* replaced.                                                               *)
PowerLossKeepsGeneration == current # NoPointer => current.gen \in gens

(* A slower updater never replaces a newer commit: no replace takes a file *)
(* back to an earlier version.                                             *)
NewerCommitKept ==
    [][current' # current /\ faults' = faults =>
         \A f \in Files : current'.gen[f] >= current.gen[f]]_vars

(* The ETags a pointer carries are those of the bytes it names, so that    *)
(* equal ETags at a later refresh mean equal bytes.                        *)
EtagsDescribeBytes ==
    \A f \in Files : current.tags[f] \in {Unknown, current.gen[f]}

(* The ETags tie the thresholds to a time before the model's download, or  *)
(* the model to a time after the thresholds'.                              *)
Bracketed(seen) ==
    \/ /\ seen["before"]["thresholds"] # Unknown
       /\ seen["during"]["thresholds"] # Unknown
            \/ seen["after"]["thresholds"] # Unknown
    \/ /\ seen["after"]["model"] # Unknown
       /\ seen["during"]["model"] # Unknown
            \/ seen["before"]["model"] # Unknown

(* The two files of a validated stage were at the origin at the same time. *)
PairServedTogether ==
    \A p \in Procs : (op[p].step = "promote" /\ Bracketed(op[p].seen))
                        => op[p].bytes \in served

(* Once the origin and the store are left alone, every process comes to    *)
(* run on the pair the origin serves, unless a power loss has left a       *)
(* pointer to a generation that is gone.                                   *)
ComesUpToDate ==
    <>[](\A p \in Procs : published[p] = remote \/ current.gen \notin gens)
=============================================================================
