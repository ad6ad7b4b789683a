-------------------------- MODULE ModelStoreProofs --------------------------
(***************************************************************************)
(* What holds of the model store for any number of processes, versions and *)
(* faults: the pointer names a generation that is on disk, its ETags are   *)
(* those of its bytes, a promoted pair of files was served together if the *)
(* ETags can tell, and no commit loses a newer one.                        *)
(***************************************************************************)
EXTENDS ModelStore, FiniteSetTheorems, TLAPS

(* Steps whose operation has downloaded both files.                        *)
Past == {"after", "validate", "promote", "rename", "sync", "load", "lock",
         "replace", "syncRoot", "finish"}

(* Each pass over the two files begins with the model.                     *)
ModelFirst == \A p \in Procs :
    op[p].step \notin {"before", "during", "after"} => op[p].file = "model"

(* Bytes are there once they have been downloaded.                         *)
Downloaded == \A p \in Procs :
    /\ op[p].step = "during" /\ op[p].file = "thresholds"
          => op[p].bytes["model"] \in Versions
    /\ op[p].step \in Past => op[p].bytes \in Generation

(* A generation about to be committed is durable, or was not this          *)
(* process's to sync.                                                      *)
Kept(g) == g \in durable \/ g \in unsynced
SyncedFirst ==
    /\ current \in pending
    /\ \A c \in pending \ {NoPointer} : Kept(c.gen)
    /\ \A p \in Procs :
          /\ op[p].step = "sync" => op[p].bytes \in gens
          /\ op[p].step \in {"load", "lock", "replace"} => Kept(op[p].bytes)

(* No version is known before the origin has published it, and bytes are   *)
(* at least as new as the pointer the operation read before it asked.      *)
NotAhead ==
    /\ \A c \in pending, f \in Files : c.gen[f] <= remote[f]
    /\ \A p \in Procs, f \in Files : /\ op[p].expected.gen[f] <= remote[f]
                                     /\ op[p].bytes[f] <= remote[f]
NotBehind == \A p \in Procs :
    /\ op[p].step = "during" /\ op[p].file = "thresholds"
          => op[p].bytes["model"] >= op[p].expected.gen["model"]
    /\ op[p].step \in Past
          => \A f \in Files : op[p].bytes[f] >= op[p].expected.gen[f]
    /\ op[p].step = "replace" => current = op[p].expected

(* The ETag of a download is that of its bytes.                            *)
TrueEtags ==
    /\ \A c \in pending, f \in Files : c.tags[f] \in {Unknown, c.gen[f]}
    /\ \A p \in Procs, f \in Files :
          op[p].seen["during"][f] \in {Unknown, op[p].bytes[f]}

StoreInv == /\ TypeOK /\ ModelFirst /\ Downloaded
            /\ SyncedFirst /\ NotAhead /\ NotBehind /\ TrueEtags

-----------------------------------------------------------------------------
(* The operations of an update.                                            *)

LEMMA Blank == NoTags \in Tags /\ NoPointer.gen = NoTags
               /\ NoPointer.tags = NoTags /\ NoTags \notin Generation
  BY StoreAssumption DEF NoTags, Tags, Unknown, NoPointer, Generation, Versions, Files

LEMMA IdleOperation == Idle \in Operation
  BY Blank DEF Idle, Operation, Steps, Files, Phases

LEMMA OperationOf ==
  ASSUME TypeOK, NEW p \in Procs
  PROVE  /\ op \in [Procs -> Operation]
         /\ op[p] \in Operation
         /\ op[p] = [step |-> op[p].step, file |-> op[p].file,
                     expected |-> op[p].expected, target |-> op[p].target,
                     seen |-> op[p].seen, bytes |-> op[p].bytes,
                     staged |-> op[p].staged]
         /\ op[p].step \in Steps /\ op[p].file \in Files
         /\ op[p].expected \in Pointer \cup {NoPointer}
         /\ op[p].target \in Generation \cup {NoTags}
         /\ op[p].seen \in [Phases -> Tags] /\ op[p].bytes \in Tags
         /\ op[p].staged \in BOOLEAN
  <1>1. op \in [Procs -> Operation]  BY DEF TypeOK
  <1>2. op[p] \in Operation  BY <1>1
  <1> QED BY <1>1, <1>2 DEF Operation

(* An operation is replaced by one of the same shape.                      *)
LEMMA Reshaped ==
  ASSUME TypeOK, NEW p \in Procs, NEW o \in Operation, op' = [op EXCEPT ![p] = o]
  PROVE  op' \in [Procs -> Operation]
  <1>1. op \in [Procs -> Operation]  BY DEF TypeOK
  <1> QED BY <1>1

LEMMA TagSeen ==
  ASSUME NEW seen \in [Phases -> Tags], NEW phase \in Phases, NEW f \in Files,
         NEW tag \in Versions \cup {Unknown}
  PROVE  [seen EXCEPT ![phase][f] = tag] \in [Phases -> Tags]
  <1>1. seen[phase] \in Tags  OBVIOUS
  <1>2. [seen[phase] EXCEPT ![f] = tag] \in Tags  BY <1>1 DEF Tags
  <1> QED BY <1>2

LEMMA Transfer ==
  ASSUME TypeOK, NEW p \in Procs, Download(p)
  PROVE  op' \in [Procs -> Operation]
  <1> DEFINE file == op[p].file
             other == IF file = "model" THEN "thresholds" ELSE "model"
             next == IF file = "model" THEN op[p].step ELSE "after"
             bytes == [op[p].bytes EXCEPT ![file] = remote[file]]
  <1>1. PICK tag \in Versions \cup {Unknown} :
          op' = [op EXCEPT ![p].bytes[op[p].file] = remote[op[p].file],
                           ![p].seen["during"][op[p].file] = tag,
                           ![p].file = IF @ = "model" THEN "thresholds"
                                                      ELSE "model",
                           ![p].step = IF op[p].file = "model" THEN @
                                                               ELSE "after"]
    BY Zenon DEF Download
  <1> DEFINE seen == [op[p].seen EXCEPT !["during"][file] = tag]
             o == [op[p] EXCEPT !.bytes = bytes, !.seen = seen,
                                !.file = other, !.step = next]
  <1>2. op' = [op EXCEPT ![p] = o]
    <2>1. op \in [Procs -> Operation] /\ op[p] \in Operation  BY OperationOf
    <2> QED BY <1>1, <2>1 DEF Operation
  <1>3. op[p].bytes \in Tags /\ file \in Files /\ remote[file] \in Versions
    <2>1. remote \in Generation  BY DEF TypeOK
    <2> QED BY <2>1, OperationOf DEF Generation
  <1>4. bytes \in Tags  BY <1>3 DEF Tags
  <1>5. seen \in [Phases -> Tags]  BY <1>3, OperationOf, TagSeen DEF Phases
  <1>6. other \in Files /\ next \in Steps  BY OperationOf DEF Files, Steps
  <1> HIDE DEF bytes, seen, other, next
  <1>7. o \in Operation  BY <1>4, <1>5, <1>6, OperationOf DEF Operation
  <1> QED BY <1>2, <1>7, Reshaped

LEMMA Noted ==
  ASSUME TypeOK, NEW p \in Procs, NEW phase \in Phases, NEW tag \in Versions \cup {Unknown},
         NEW next \in Steps, Note(p, phase, tag, next)
  PROVE  op' \in [Procs -> Operation]
  <1> DEFINE file == op[p].file
             seen == [op[p].seen EXCEPT ![phase][file] = tag]
             other == IF file = "model" THEN "thresholds" ELSE "model"
             step == IF file = "model" THEN op[p].step ELSE next
             o == [op[p] EXCEPT !.seen = seen, !.file = other, !.step = step]
  <1>1. op' = [op EXCEPT ![p] = o]
    <2>1. op \in [Procs -> Operation] /\ op[p] \in Operation  BY OperationOf
    <2> QED BY <2>1 DEF Note, Operation
  <1>2. seen \in [Phases -> Tags]  BY OperationOf, TagSeen
  <1>3. other \in Files /\ step \in Steps  BY OperationOf DEF Files
  <1> HIDE DEF seen, other, step
  <1>4. o \in Operation  BY <1>2, <1>3, OperationOf DEF Operation
  <1> QED BY <1>1, <1>4, Reshaped

LEMMA Gone ==
  ASSUME TypeOK, NEW p \in Procs, NEW step \in Steps, Goto(p, step)
  PROVE  op' \in [Procs -> Operation]
  <1>1. [op[p] EXCEPT !.step = step] \in Operation
    <2>1. op[p] \in Operation  BY OperationOf
    <2> QED BY <2>1 DEF Operation
  <1>2. op' = [op EXCEPT ![p] = [op[p] EXCEPT !.step = step]]
    BY DEF Goto
  <1> QED BY <1>1, <1>2, Reshaped

LEMMA Aimed ==
  ASSUME TypeOK, NEW p \in Procs, NEW step \in Steps,
         NEW gen \in Generation \cup {NoTags},
         op' = [op EXCEPT ![p].step = step, ![p].target = gen]
  PROVE  op' \in [Procs -> Operation]
  <1> DEFINE o == [op[p] EXCEPT !.step = step, !.target = gen]
  <1>0. op \in [Procs -> Operation] /\ op[p] \in Operation  BY OperationOf
  <1>1. o \in Operation  BY <1>0 DEF Operation
  <1>2. op' = [op EXCEPT ![p] = o]  BY <1>0
  <1> QED BY <1>1, <1>2, Reshaped

LEMMA Expecting ==
  ASSUME TypeOK, NEW p \in Procs, NEW step \in Steps,
         op' = [op EXCEPT ![p].step = step, ![p].expected = current]
  PROVE  op' \in [Procs -> Operation]
  <1> DEFINE o == [op[p] EXCEPT !.step = step, !.expected = current]
  <1>0. op \in [Procs -> Operation] /\ op[p] \in Operation  BY OperationOf
  <1>1. current \in Pointer \cup {NoPointer}  BY DEF TypeOK
  <1>2. o \in Operation  BY <1>0, <1>1 DEF Operation
  <1>3. op' = [op EXCEPT ![p] = o]  BY <1>0
  <1> QED BY <1>2, <1>3, Reshaped

LEMMA Restaged ==
  ASSUME TypeOK, NEW p \in Procs, NEW step \in Steps, NEW staged \in BOOLEAN,
         op' = [op EXCEPT ![p].step = step, ![p].staged = staged]
  PROVE  op' \in [Procs -> Operation]
  <1> DEFINE o == [op[p] EXCEPT !.step = step, !.staged = staged]
  <1>0. op \in [Procs -> Operation] /\ op[p] \in Operation  BY OperationOf
  <1>1. o \in Operation  BY <1>0 DEF Operation
  <1>2. op' = [op EXCEPT ![p] = o]  BY <1>0
  <1> QED BY <1>1, <1>2, Reshaped

LEMMA Promoted ==
  ASSUME TypeOK, NEW p \in Procs, NEW step \in Steps, Promoting(p, step)
  PROVE  op' \in [Procs -> Operation]
  <1> DEFINE seen == [op[p].seen EXCEPT !["before"] = NoTags, !["after"] = NoTags]
             o == [op[p] EXCEPT !.step = step, !.seen = seen]
  <1>0. op \in [Procs -> Operation] /\ op[p] \in Operation  BY OperationOf
  <1>1. seen \in [Phases -> Tags]  BY OperationOf, Blank
  <1>2. op' = [op EXCEPT ![p] = o]  BY <1>0 DEF Promoting, Operation
  <1> HIDE DEF seen
  <1>3. o \in Operation  BY <1>0, <1>1 DEF Operation
  <1> QED BY <1>2, <1>3, Reshaped

LEMMA TypeInit == Init => TypeOK
  BY StoreAssumption, IdleOperation DEF Init, TypeOK, Generation, Versions, Files, Pointer, Idle

-----------------------------------------------------------------------------
(* Which steps touch what.                                                 *)

LEMMA WhoseStep ==
  ASSUME [Next]_vars
  PROVE  \/ UNCHANGED vars
         \/ PowerLoss
         \/ NewVersion
         \/ \E p \in Procs : Step(p) \/ Fail(p)
  BY DEF Next

StoreFrame(p) ==
    /\ UNCHANGED originVars
    /\ UNCHANGED gens \/ Rename(p)
    /\ UNCHANGED <<durable, unsynced>> \/ Promote(p)
          \/ (durable' = gens /\ UNCHANGED <<gens, unsynced>>)
    /\ UNCHANGED <<current, pending>> \/ Replace(p) \/ SyncRoot(p)
    /\ faults' = faults \/ (faults < MaxFaults /\ faults' = faults + 1)
    /\ UNCHANGED published \/ Finish(p) \/ Adopt(p) \/ LoadPeer(p)
          \/ ReRead(p) \/ Validate(p) \/ Fail(p)

LEMMA StepFrame ==
  ASSUME NEW p \in Procs, Step(p) \/ Fail(p)
  PROVE  StoreFrame(p)
  <1>1. CASE ReadPointer(p) \/ Adopt(p) \/ ReRead(p)
    BY <1>1 DEF ReadPointer, Adopt, ReRead, StoreFrame, storeVars, historyVars
  <1>2. CASE HeadBefore(p) \/ Download(p) \/ HeadAfter(p)
    BY <1>2 DEF HeadBefore, Download, HeadAfter, Answer, StoreFrame, storeVars
  <1>3. CASE Stage(p) \/ SyncPromoted(p)
    BY <1>3 DEF Stage, SyncPromoted, SyncGenerations, StoreFrame, historyVars
  <1>4. CASE Validate(p)
    BY <1>4 DEF Validate, DiscardStage, SyncGenerations, StoreFrame, historyVars
  <1>5. CASE Promote(p) \/ Rename(p)
    BY <1>5 DEF Promote, Rename, StoreFrame, storeVars, historyVars
  <1>6. CASE Load(p) \/ Decide(p)
    BY <1>6 DEF Load, Decide, StoreFrame, storeVars, historyVars
  <1>7. CASE Replace(p) \/ SyncRoot(p)
    BY <1>7 DEF Replace, SyncRoot, StoreFrame, historyVars
  <1>8. CASE Finish(p) \/ LoadPeer(p)
    BY <1>8 DEF Finish, LoadPeer, DiscardStage, SyncGenerations, StoreFrame, historyVars
  <1>9. CASE Fail(p)
    BY <1>9 DEF Fail, DiscardStage, SyncGenerations, StoreFrame
  <1> QED BY <1>1, <1>2, <1>3, <1>4, <1>5, <1>6, <1>7, <1>8, <1>9 DEF Step

-----------------------------------------------------------------------------
(* Type correctness.                                                       *)

LEMMA OperationTyped ==
  ASSUME TypeOK, [Next]_vars
  PROVE  op' \in [Procs -> Operation]
  <1>0. op \in [Procs -> Operation]  BY DEF TypeOK
  <1>1. CASE UNCHANGED vars  BY <1>0, <1>1 DEF vars
  <1>2. CASE PowerLoss  BY <1>2, IdleOperation DEF PowerLoss
  <1>3. CASE NewVersion  BY <1>0, <1>3 DEF NewVersion
  <1>4. ASSUME NEW p \in Procs, NEW g, End(p, g) PROVE op' \in [Procs -> Operation]
    BY <1>0, <1>4, IdleOperation DEF End
  <1>5. ASSUME NEW p \in Procs, Fail(p) PROVE op' \in [Procs -> Operation]
    BY <1>4, <1>5 DEF Fail
  <1>6. ASSUME NEW p \in Procs, Step(p) PROVE op' \in [Procs -> Operation]
    <2>1. CASE ReadPointer(p)
      <3>1. current # NoPointer => current.gen \in Generation
        BY DEF TypeOK, Pointer
      <3> QED BY <2>1, <3>1, Gone, Aimed, Expecting DEF ReadPointer, Steps
    <2>2. CASE Adopt(p) \/ Finish(p) \/ LoadPeer(p)
      BY <2>2, <1>4 DEF Adopt, Finish, LoadPeer
    <2>3. CASE HeadBefore(p) \/ HeadAfter(p)
      BY <2>3, Noted DEF HeadBefore, HeadAfter, Phases, Steps
    <2>4. CASE ReRead(p)
      <3>1. current.gen \in Generation \cup {NoTags}
        BY Blank DEF TypeOK, Pointer
      <3> QED BY <2>4, <3>1, <1>4, Gone, Aimed DEF ReRead, Steps
    <2>5. CASE Stage(p)
      BY <2>5, Restaged DEF Stage, Steps
    <2>6. CASE Download(p)
      BY <2>6, Transfer
    <2>7. CASE Validate(p)
      BY <2>7, <1>4, Gone DEF Validate, Steps
    <2>8. CASE Promote(p)
      BY <2>8, Promoted DEF Promote, Steps
    <2>9. CASE Rename(p)
      <3>1. (op[p].bytes \in gens) \in BOOLEAN  OBVIOUS
      <3>2. "sync" \in Steps  BY DEF Steps
      <3> QED BY <2>9, <3>1, <3>2, Restaged, Zenon DEF Rename
    <2>10. CASE SyncPromoted(p) \/ Load(p) \/ Replace(p) \/ SyncRoot(p)
      BY <2>10, Gone DEF SyncPromoted, Load, Replace, SyncRoot, Steps
    <2>11. CASE Decide(p)
      <3>1. current.gen \in Generation \cup {NoTags}
        BY Blank DEF TypeOK, Pointer
      <3> QED BY <2>11, <3>1, Gone, Aimed DEF Decide, Steps
    <2> QED BY <1>6, <2>1, <2>2, <2>3, <2>4, <2>5, <2>6, <2>7, <2>8, <2>9, <2>10, <2>11
            DEF Step
  <1> QED BY <1>1, <1>2, <1>3, <1>5, <1>6, WhoseStep

LEMMA OriginTyped ==
  ASSUME TypeOK, [Next]_vars
  PROVE  /\ remote' \in Generation /\ served' \subseteq Generation
         /\ \A f \in Files : remote'[f] >= remote[f]
  <1>0. remote \in Generation /\ served \subseteq Generation  BY DEF TypeOK
  <1>1. CASE NewVersion
    BY <1>0, <1>1, StoreAssumption DEF NewVersion, Generation, Versions
  <1>2. CASE UNCHANGED originVars
    BY <1>0, <1>2 DEF originVars, Generation, Versions
  <1>3. UNCHANGED vars \/ PowerLoss => UNCHANGED originVars
    BY DEF PowerLoss, vars
  <1> QED BY <1>1, <1>2, <1>3, WhoseStep, StepFrame DEF StoreFrame

LEMMA DirectoriesTyped ==
  ASSUME TypeOK, Downloaded, [Next]_vars
  PROVE  /\ gens' \subseteq Generation /\ durable' \subseteq gens'
         /\ unsynced' \subseteq Generation /\ durable \subseteq durable'
         /\ unsynced \subseteq unsynced'
  <1>0. gens \subseteq Generation /\ durable \subseteq gens /\ unsynced \subseteq Generation
    BY DEF TypeOK
  <1>1. ASSUME NEW p \in Procs, Rename(p) \/ Promote(p)
        PROVE  op[p].bytes \in Generation
    BY <1>1 DEF Downloaded, Rename, Promote, At, Past
  <1>2. CASE PowerLoss  BY <1>0, <1>2 DEF PowerLoss
  <1>3. CASE UNCHANGED <<gens, durable, unsynced>>  BY <1>0, <1>3
  <1>4. CASE \E p \in Procs : Rename(p) \/ Promote(p)
    <2>1. ASSUME NEW p \in Procs, Rename(p)
          PROVE  /\ gens' = gens \cup {op[p].bytes}
                 /\ durable' = durable /\ unsynced' = unsynced
      BY <2>1 DEF Rename, historyVars
    <2>2. ASSUME NEW p \in Procs, Promote(p)
          PROVE  /\ gens' = gens /\ durable' = durable
                 /\ \/ unsynced' = unsynced
                    \/ unsynced' = unsynced \cup ({op[p].bytes} \ durable)
      BY <2>2 DEF Promote, storeVars
    <2> QED BY <1>0, <1>1, <1>4, <2>1, <2>2
  <1>5. CASE gens' = gens /\ durable' = gens /\ unsynced' = unsynced
    BY <1>0, <1>5
  <1>6. UNCHANGED vars \/ NewVersion => UNCHANGED <<gens, durable, unsynced>>
    BY DEF NewVersion, vars, storeVars, historyVars
  <1> QED BY <1>2, <1>3, <1>4, <1>5, <1>6, WhoseStep, StepFrame DEF StoreFrame

(* A step or a failure of one process leaves the others' operations alone. *)
LEMMA OthersStay ==
  ASSUME TypeOK, NEW p \in Procs, Step(p) \/ Fail(p), NEW q \in Procs, q # p
  PROVE  op'[q] = op[q]
  <1>0. op \in [Procs -> Operation]  BY DEF TypeOK
  <1>1. CASE \E gen : End(p, gen)  BY <1>0, <1>1 DEF End
  <1>2. CASE \E step : Goto(p, step) \/ Promoting(p, step)
    BY <1>0, <1>2 DEF Goto, Promoting
  <1>3. CASE ReadPointer(p) \/ Decide(p)
    BY <1>0, <1>2, <1>3 DEF ReadPointer, Decide
  <1>4. CASE HeadBefore(p) \/ HeadAfter(p)
    BY <1>0, <1>4 DEF HeadBefore, HeadAfter, Note
  <1>5. CASE ReRead(p)  BY <1>0, <1>1, <1>2, <1>5 DEF ReRead
  <1>6. CASE Stage(p) \/ Download(p) \/ Rename(p)
    BY <1>0, <1>6 DEF Stage, Download, Rename
  <1>7. CASE Validate(p)  BY <1>1, <1>2, <1>7 DEF Validate
  <1>8. CASE Promote(p) \/ SyncPromoted(p) \/ Load(p) \/ Replace(p) \/ SyncRoot(p)
    BY <1>2, <1>8 DEF Promote, SyncPromoted, Load, Replace, SyncRoot
  <1>9. CASE Adopt(p) \/ Finish(p) \/ LoadPeer(p) \/ Fail(p)
    BY <1>1, <1>9 DEF Adopt, Finish, LoadPeer, Fail
  <1> QED BY <1>3, <1>4, <1>5, <1>6, <1>7, <1>8, <1>9 DEF Step

(* Where an operation goes from where it is.                               *)
LEMMA NextStep ==
  ASSUME TypeOK, NEW p \in Procs
  PROVE  /\ ReadPointer(p) => op'[p].step \in {"before", "adopt"}
         /\ HeadBefore(p) => op'[p].step \in {"before", "stage", "reread"}
         /\ ReRead(p) => op'[p].step \in {"adopt", "idle", "stage"}
         /\ Stage(p) => op'[p].step = "during"
         /\ Download(p) => op'[p].step \in {"during", "after"}
         /\ HeadAfter(p) => op'[p].step \in {"after", "validate"}
         /\ Validate(p) => op'[p].step \in {"promote", "idle"}
         /\ Promote(p) => op'[p].step \in {"load", "rename"}
         /\ Rename(p) => op'[p].step = "sync"
         /\ SyncPromoted(p) => op'[p].step = "load"
         /\ Load(p) => op'[p].step = "lock"
         /\ Decide(p) => op'[p].step \in {"replace", "peer"}
         /\ Replace(p) => op'[p].step = "syncRoot"
         /\ SyncRoot(p) => op'[p].step = "finish"
         /\ Adopt(p) \/ Finish(p) \/ LoadPeer(p) \/ Fail(p) => op'[p] = Idle
  <1>0. op \in [Procs -> Operation]  BY DEF TypeOK
  <1>1. ASSUME NEW gen, End(p, gen) PROVE op'[p] = Idle  BY <1>0, <1>1 DEF End
  <1>2. ASSUME NEW step, Goto(p, step) PROVE op'[p].step = step
    BY <1>0, <1>2 DEF Goto, Operation
  <1>3. ASSUME NEW step, Promoting(p, step) PROVE op'[p].step = step
    BY <1>0, <1>3 DEF Promoting, Operation
  <1>4. ASSUME NEW phase, NEW tag, NEW next, Note(p, phase, tag, next)
        PROVE  op'[p].step \in {op[p].step, next}
    BY <1>0, <1>4 DEF Note, Operation
  <1>5. ReadPointer(p) => op'[p].step \in {"before", "adopt"}
    BY <1>0, <1>2 DEF ReadPointer, Operation
  <1>6. HeadBefore(p) => op'[p].step \in {"before", "stage", "reread"}
    BY <1>4 DEF HeadBefore, At
  <1>7. ReRead(p) => op'[p].step \in {"adopt", "idle", "stage"}
    BY <1>0, <1>1, <1>2 DEF ReRead, Operation, Idle
  <1>8. Stage(p) => op'[p].step = "during"
    BY <1>0 DEF Stage, Operation
  <1>9. Download(p) => op'[p].step \in {"during", "after"}
    BY <1>0 DEF Download, Operation, At
  <1>10. HeadAfter(p) => op'[p].step \in {"after", "validate"}
    BY <1>4 DEF HeadAfter, At
  <1>11. Validate(p) => op'[p].step \in {"promote", "idle"}
    BY <1>1, <1>2 DEF Validate, Idle
  <1>12. Promote(p) => op'[p].step \in {"load", "rename"}
    BY <1>3 DEF Promote
  <1>13. Rename(p) => op'[p].step = "sync"
    BY <1>0 DEF Rename, Operation
  <1>14. Decide(p) => op'[p].step \in {"replace", "peer"}
    BY <1>0, <1>2 DEF Decide, Operation
  <1>15. /\ SyncPromoted(p) => op'[p].step = "load"
         /\ Load(p) => op'[p].step = "lock"
         /\ Replace(p) => op'[p].step = "syncRoot"
         /\ SyncRoot(p) => op'[p].step = "finish"
    BY <1>2 DEF SyncPromoted, Load, Replace, SyncRoot
  <1>16. Adopt(p) \/ Finish(p) \/ LoadPeer(p) \/ Fail(p) => op'[p] = Idle
    BY <1>1 DEF Adopt, Finish, LoadPeer, Fail
  <1> QED BY <1>5, <1>6, <1>7, <1>8, <1>9, <1>10, <1>11, <1>12, <1>13, <1>14,
             <1>15, <1>16, Zenon

Committing == {"replace", "syncRoot"}

LEMMA LockTyped ==
  ASSUME TypeOK, [Next]_vars
  PROVE  /\ lock' \in Procs \cup {Nobody}
         /\ \A q \in Procs : lock' = q <=> op'[q].step \in Committing
  <1>0. /\ lock \in Procs \cup {Nobody} /\ Nobody \notin Procs
        /\ \A q \in Procs : lock = q <=> op[q].step \in Committing
    BY StoreAssumption DEF TypeOK, Committing
  <1>1. CASE UNCHANGED <<lock, op>>  BY <1>0, <1>1
  <1>2. CASE PowerLoss
    BY <1>0, <1>2 DEF PowerLoss, Idle, Committing
  <1>3. ASSUME NEW p \in Procs, Step(p) \/ Fail(p)
        PROVE  /\ lock' \in Procs \cup {Nobody}
               /\ \A q \in Procs : lock' = q <=> op'[q].step \in Committing
    <2>0. \A q \in Procs \ {p} : op'[q] = op[q]  BY <1>3, OthersStay
    <2>1. CASE lock' = lock /\ (op[p].step \in Committing
                                    <=> op'[p].step \in Committing)
      BY <1>0, <2>0, <2>1
    <2>2. CASE Fail(p)
      BY <1>0, <2>0, <2>2, NextStep DEF Fail, FreeLock, Idle, Committing
    <2>3. CASE Decide(p)
      <3>0. op \in [Procs -> Operation]  BY DEF TypeOK
      <3>1. CASE lock' = p /\ Goto(p, "replace")
        <4>1. op'[p].step = "replace"  BY <3>0, <3>1 DEF Goto, Operation
        <4> QED BY <1>0, <2>0, <2>3, <3>1, <4>1 DEF Decide, Committing
      <3>2. CASE lock' = lock
        <4>1. op'[p].step # "syncRoot" /\ op[p].step = "lock"
          BY <2>3, NextStep DEF Decide, At
        <4>2. op'[p].step = "peer" \/ (Goto(p, "replace") /\ lock' = p)
          BY <3>0, <2>3 DEF Decide, Operation
        <4> QED BY <1>0, <2>1, <2>3, <3>1, <3>2, <4>1, <4>2 DEF Committing
      <3> QED BY <2>3, <3>1, <3>2 DEF Decide
    <2>4. CASE SyncRoot(p)
      BY <1>0, <2>0, <2>4, NextStep DEF SyncRoot, At, Committing
    <2>5. CASE Replace(p)
      BY <1>0, <2>0, <2>5, NextStep DEF Replace, At, Committing
    <2>6. CASE ReadPointer(p) \/ HeadBefore(p) \/ ReRead(p) \/ Stage(p) \/ Download(p)
      BY <2>1, <2>6, NextStep DEF ReadPointer, HeadBefore, ReRead, Stage,
         Download, At, Committing, storeVars
    <2>7. CASE HeadAfter(p) \/ Validate(p) \/ Promote(p) \/ Rename(p)
               \/ SyncPromoted(p) \/ Load(p)
      BY <2>1, <2>7, NextStep DEF HeadAfter, Validate, Promote, Rename,
         SyncPromoted, Load, At, Committing, storeVars
    <2>8. CASE Adopt(p) \/ Finish(p) \/ LoadPeer(p)
      BY <2>1, <2>8, NextStep DEF Adopt, Finish, LoadPeer, At, Idle, Committing,
         storeVars
    <2> QED BY <1>3, <2>2, <2>3, <2>4, <2>5, <2>6, <2>7, <2>8 DEF Step
  <1> QED BY <1>1, <1>2, <1>3 DEF Next, NewVersion, storeVars, vars

(* What a commit writes is a pointer.                                      *)
LEMMA WritesPointer ==
  ASSUME TypeOK, Downloaded, NEW p \in Procs, Replace(p)
  PROVE  NewPointer(p) \in Pointer
  <1>1. op[p] \in Operation /\ op[p].step = "replace"
    BY DEF TypeOK, Replace, At
  <1>2. op[p].seen["during"] \in Tags  BY <1>1 DEF Operation, Phases
  <1>3. op[p].bytes \in Generation  BY <1>1 DEF Downloaded, Past
  <1> QED BY <1>2, <1>3 DEF NewPointer, Pointer

LEMMA PointersTyped ==
  ASSUME TypeOK, Downloaded, [Next]_vars
  PROVE  /\ current' \in Pointer \cup {NoPointer}
         /\ pending' \subseteq Pointer \cup {NoPointer}
  <1>0. current \in Pointer \cup {NoPointer} /\ pending \subseteq Pointer \cup {NoPointer}
    BY DEF TypeOK
  <1>1. CASE UNCHANGED <<current, pending>>  BY <1>0, <1>1
  <1>2. CASE PowerLoss  BY <1>0, <1>2 DEF PowerLoss
  <1>3. CASE \E p \in Procs : Replace(p)
    BY <1>0, <1>3, WritesPointer DEF Replace
  <1>4. CASE \E p \in Procs : SyncRoot(p)  BY <1>0, <1>4 DEF SyncRoot
  <1>5. UNCHANGED vars \/ NewVersion => UNCHANGED <<current, pending>>
    BY DEF NewVersion, vars, storeVars
  <1> QED BY <1>1, <1>2, <1>3, <1>4, <1>5, WhoseStep, StepFrame DEF StoreFrame

(* Only a generation that is there is published.                           *)
LEMMA PublishedTyped ==
  ASSUME TypeOK, Downloaded, [Next]_vars
  PROVE  published' \in [Procs -> Generation \cup {NoTags}]
  <1>0. /\ published \in [Procs -> Generation \cup {NoTags}]
        /\ gens \subseteq Generation
    BY DEF TypeOK
  <1>1. ASSUME NEW p \in Procs, NEW gen \in Generation \cup {NoTags}, End(p, gen)
        PROVE  published' \in [Procs -> Generation \cup {NoTags}]
    BY <1>0, <1>1 DEF End
  <1>2. CASE UNCHANGED published  BY <1>0, <1>2
  <1>3. CASE PowerLoss  BY <1>3 DEF PowerLoss
  <1>4. ASSUME NEW p \in Procs, Finish(p) \/ Adopt(p) \/ LoadPeer(p)
        PROVE  published' \in [Procs -> Generation \cup {NoTags}]
    <2>1. CASE Finish(p)
      BY <1>1, <2>1 DEF Finish, At, Downloaded, Past
    <2>2. CASE Adopt(p) \/ LoadPeer(p)
      BY <1>0, <1>1, <2>2 DEF Adopt, LoadPeer
    <2> QED BY <1>4, <2>1, <2>2
  <1>5. ASSUME NEW p \in Procs, ReRead(p) \/ Validate(p) \/ Fail(p)
        PROVE  published' \in [Procs -> Generation \cup {NoTags}]
    BY <1>0, <1>1, <1>2, <1>5 DEF ReRead, Validate, Fail
  <1>6. UNCHANGED vars \/ NewVersion => UNCHANGED published
    BY DEF NewVersion, vars
  <1> QED BY <1>2, <1>3, <1>4, <1>5, <1>6, WhoseStep, StepFrame DEF StoreFrame

LEMMA FaultsTyped == ASSUME TypeOK, [Next]_vars PROVE faults' \in 0..MaxFaults
  <1>0. faults \in 0..MaxFaults  BY DEF TypeOK
  <1>1. CASE faults' = faults  BY <1>0, <1>1
  <1>2. CASE faults < MaxFaults /\ faults' = faults + 1
    BY <1>0, <1>2, StoreAssumption
  <1>3. UNCHANGED vars \/ NewVersion => faults' = faults
    BY DEF NewVersion, vars, historyVars
  <1>4. PowerLoss => faults < MaxFaults /\ faults' = faults + 1
    BY DEF PowerLoss
  <1> QED BY <1>1, <1>2, <1>3, <1>4, WhoseStep, StepFrame DEF StoreFrame

LEMMA TypeStep == ASSUME TypeOK, Downloaded, [Next]_vars PROVE TypeOK'
  BY OperationTyped, OriginTyped, DirectoriesTyped, LockTyped, PointersTyped,
     PublishedTyped, FaultsTyped, Zenon DEF TypeOK, Committing

-----------------------------------------------------------------------------
(* What an operation carries from step to step.                            *)

LEMMA PromotingGoes ==
  ASSUME TypeOK, NEW p \in Procs, NEW step, Promoting(p, step)
  PROVE  op'[p].step = step
  <1>1. op \in [Procs -> Operation]  BY DEF TypeOK
  <1> QED BY <1>1 DEF Promoting, Operation

Carries(p) == /\ op'[p].bytes = op[p].bytes
              /\ op'[p].expected = op[p].expected
              /\ op'[p].seen["during"] = op[p].seen["during"]

LEMMA Carried ==
  ASSUME TypeOK, NEW p \in Procs
  PROVE  /\ \A step : Goto(p, step) \/ Promoting(p, step)
                          => Carries(p) /\ op'[p].file = op[p].file
         /\ Stage(p) \/ Rename(p) \/ Decide(p) \/ Promote(p)
               => Carries(p) /\ op'[p].file = op[p].file
         /\ ReRead(p) \/ Validate(p)
               => \/ op'[p] = Idle
                  \/ Carries(p) /\ op'[p].file = op[p].file
  <1>0. op \in [Procs -> Operation]  BY DEF TypeOK
  <1>1. ASSUME NEW step, Goto(p, step) PROVE Carries(p) /\ op'[p].file = op[p].file
    BY <1>0, <1>1 DEF Goto, Operation, Carries
  <1>2. ASSUME NEW step, Promoting(p, step) PROVE Carries(p) /\ op'[p].file = op[p].file
    BY <1>0, <1>2 DEF Promoting, Operation, Carries, Phases
  <1>3. Stage(p) \/ Rename(p) => Carries(p) /\ op'[p].file = op[p].file
    BY <1>0 DEF Stage, Rename, Operation, Carries
  <1>4. ASSUME NEW gen, op' = [op EXCEPT ![p].step = "peer", ![p].target = gen]
               \/ op' = [op EXCEPT ![p].step = "adopt", ![p].target = gen]
        PROVE  Carries(p) /\ op'[p].file = op[p].file
    BY <1>0, <1>4 DEF Operation, Carries
  <1>5. Decide(p) => Carries(p) /\ op'[p].file = op[p].file
    BY <1>1, <1>4 DEF Decide
  <1>6. Promote(p) => Carries(p) /\ op'[p].file = op[p].file
    BY <1>2 DEF Promote
  <1>7. ASSUME NEW gen, End(p, gen) PROVE op'[p] = Idle  BY <1>0, <1>7 DEF End
  <1>8. ReRead(p) \/ Validate(p)
          => op'[p] = Idle \/ (Carries(p) /\ op'[p].file = op[p].file)
    BY <1>1, <1>4, <1>7 DEF ReRead, Validate
  <1> QED BY <1>1, <1>2, <1>3, <1>5, <1>6, <1>8, Zenon

(* The first and the second file of a pass.                                *)
Turns(p, next) ==
    \/ /\ op[p].file = "model" /\ op'[p].file = "thresholds"
       /\ op'[p].step = op[p].step
    \/ /\ op[p].file = "thresholds" /\ op'[p].file = "model"
       /\ op'[p].step \in next

LEMMA HeadTurns ==
  ASSUME TypeOK, NEW p \in Procs
  PROVE  /\ HeadBefore(p) => Carries(p) /\ Turns(p, {"stage", "reread"})
         /\ HeadAfter(p) => Carries(p) /\ Turns(p, {"validate"})
  <1>0. op \in [Procs -> Operation]  BY DEF TypeOK
  <1>1. ASSUME NEW phase \in {"before", "after"}, NEW tag, NEW next,
               Note(p, phase, tag, next)
        PROVE  Carries(p) /\ Turns(p, {next})
    BY <1>0, <1>1 DEF Note, Operation, Carries, Turns, Files, Phases
  <1>2. HeadAfter(p) => Carries(p) /\ Turns(p, {"validate"})
    BY <1>1 DEF HeadAfter
  <1>3. HeadBefore(p) => Carries(p) /\ Turns(p, {"stage", "reread"})
    BY <1>1 DEF HeadBefore, Turns
  <1> QED BY <1>2, <1>3

LEMMA DownloadTurns ==
  ASSUME TypeOK, NEW p \in Procs, Download(p)
  PROVE  /\ Turns(p, {"after"})
         /\ op'[p].expected = op[p].expected
         /\ op'[p].bytes = [op[p].bytes EXCEPT ![op[p].file] = remote[op[p].file]]
         /\ \E tag \in {Unknown, remote[op[p].file]} :
               op'[p].seen["during"] = [op[p].seen["during"] EXCEPT ![op[p].file] = tag]
  <1>0. op \in [Procs -> Operation]  BY DEF TypeOK
  <1>1. PICK tag \in {Unknown, remote[op[p].file]} :
               op' = [op EXCEPT
                      ![p].bytes[op[p].file] = remote[op[p].file],
                      ![p].seen["during"][op[p].file] = tag,
                      ![p].file = IF @ = "model" THEN "thresholds"
                                                 ELSE "model",
                      ![p].step = IF op[p].file = "model" THEN @
                                                          ELSE "after"]
    BY DEF Download, Answer
  <1>2. Turns(p, {"after"})
    BY <1>0, <1>1 DEF Operation, Turns, Files
  <1>3. op'[p].expected = op[p].expected
    BY <1>0, <1>1 DEF Operation
  <1>4. op'[p].bytes = [op[p].bytes EXCEPT ![op[p].file] = remote[op[p].file]]
    BY <1>0, <1>1 DEF Operation
  <1>5. op'[p].seen["during"] = [op[p].seen["during"] EXCEPT ![op[p].file] = tag]
    BY <1>0, <1>1 DEF Operation, Phases
  <1> QED BY <1>2, <1>3, <1>4, <1>5

LEMMA ReadCarries ==
  ASSUME TypeOK, NEW p \in Procs, ReadPointer(p)
  PROVE  /\ op'[p].bytes = op[p].bytes /\ op'[p].file = op[p].file
         /\ op'[p].seen["during"] = op[p].seen["during"]
         /\ op'[p].expected \in {current, op[p].expected}
  <1>0. op \in [Procs -> Operation]  BY DEF TypeOK
  <1> QED BY <1>0 DEF ReadPointer, Goto, Operation

-----------------------------------------------------------------------------
(* The invariant.                                                          *)

LEMMA DownloadedStep ==
  ASSUME TypeOK, ModelFirst, Downloaded, [Next]_vars
  PROVE  ModelFirst' /\ Downloaded'
  <1> DEFINE First(o) == o.step \notin {"before", "during", "after"} => o.file = "model"
             Has(o) == /\ o.step = "during" /\ o.file = "thresholds"
                              => o.bytes["model"] \in Versions
                       /\ o.step \in Past => o.bytes \in Generation
  <1>0. op \in [Procs -> Operation]  BY DEF TypeOK
  <1>1. \A p \in Procs : First(op[p]) /\ Has(op[p])
    BY DEF ModelFirst, Downloaded
  <1>2. First(Idle) /\ Has(Idle)  BY DEF Idle, Past
  <1>3. SUFFICES \A p \in Procs : First(op'[p]) /\ Has(op'[p])
    BY DEF ModelFirst, Downloaded
  <1>4. CASE UNCHANGED op  BY <1>1, <1>4
  <1>5. CASE PowerLoss  BY <1>2, <1>5 DEF PowerLoss
  <1>6. ASSUME NEW p \in Procs, Step(p) \/ Fail(p)
        PROVE  First(op'[p]) /\ Has(op'[p])
    <2>1. CASE op'[p] = Idle  BY <1>2, <2>1
    <2>2. CASE ReadPointer(p)
      BY <1>1, <2>2, NextStep, ReadCarries DEF ReadPointer, At, Past
    <2>3. CASE HeadBefore(p)
      BY <1>1, <2>3, HeadTurns DEF HeadBefore, At, Turns, Carries, Past
    <2>4. CASE HeadAfter(p)
      BY <1>1, <2>4, HeadTurns DEF HeadAfter, At, Turns, Carries, Past
    <2>5. CASE Download(p)
      <3>1. op[p].step = "during" /\ op[p].bytes \in Tags /\ op[p].file \in Files
        BY <1>0, <2>5 DEF Download, At, Operation
      <3>2. remote \in Generation  BY DEF TypeOK
      <3>3. CASE op[p].file = "model"
        <4>1. op'[p].bytes = [op[p].bytes EXCEPT !["model"] = remote["model"]]
          BY <2>5, <3>3, DownloadTurns
        <4>2. op'[p].bytes["model"] \in Versions
          BY <3>1, <3>2, <4>1 DEF Tags, Files, Generation
        <4> QED BY <2>5, <3>1, <3>3, <4>2, DownloadTurns DEF Turns, Past
      <3>4. CASE op[p].file = "thresholds"
        <4>1. op[p].bytes["model"] \in Versions  BY <1>1, <3>1, <3>4
        <4>2. op'[p].bytes = [op[p].bytes EXCEPT !["thresholds"] = remote["thresholds"]]
          BY <2>5, <3>4, DownloadTurns
        <4>3. op'[p].bytes \in Generation
          BY <3>1, <3>2, <4>1, <4>2 DEF Tags, Files, Generation
        <4> QED BY <2>5, <3>1, <3>4, <4>3, DownloadTurns DEF Turns
      <3> QED BY <3>1, <3>3, <3>4 DEF Files
    <2>6. CASE Stage(p)
      BY <1>1, <2>6, NextStep, Carried DEF Stage, At, Carries, Past
    <2>7. CASE (ReRead(p) \/ Validate(p)) /\ op'[p] # Idle
      BY <1>1, <2>7, NextStep, Carried DEF ReRead, Validate, At, Carries, Past
    <2>8. CASE Promote(p) \/ Rename(p) \/ Decide(p)
      BY <1>1, <2>8, NextStep, Carried DEF Promote, Rename, Decide, At, Carries, Past
    <2>9. CASE SyncPromoted(p) \/ Load(p) \/ Replace(p) \/ SyncRoot(p)
      BY <1>1, <2>9, NextStep, Carried DEF SyncPromoted, Load, Replace, SyncRoot,
         At, Carries, Past
    <2>10. CASE Adopt(p) \/ Finish(p) \/ LoadPeer(p) \/ Fail(p)
      BY <2>1, <2>10, NextStep
    <2> QED BY <1>6, <2>1, <2>2, <2>3, <2>4, <2>5, <2>6, <2>7, <2>8, <2>9, <2>10
            DEF Step
  <1>7. ASSUME NEW p \in Procs, Step(p) \/ Fail(p), NEW q \in Procs
        PROVE  First(op'[q]) /\ Has(op'[q])
    BY <1>1, <1>6, <1>7, OthersStay
  <1> QED BY <1>4, <1>5, <1>7 DEF Next, NewVersion, vars

(* The pointers a power loss may leave are the old ones and a commit's.    *)
LEMMA PendingGrows ==
  ASSUME TypeOK, SyncedFirst, [Next]_vars
  PROVE  /\ current' \in pending'
         /\ \A c \in pending' : \/ c \in pending
                                \/ \E p \in Procs : Replace(p) /\ c = NewPointer(p)
  <1>0. current \in pending  BY DEF SyncedFirst
  <1>1. CASE UNCHANGED <<current, pending>>  BY <1>0, <1>1
  <1>2. CASE PowerLoss  BY <1>2 DEF PowerLoss
  <1>3. CASE \E p \in Procs : Replace(p)  BY <1>3 DEF Replace
  <1>4. CASE \E p \in Procs : SyncRoot(p)  BY <1>0, <1>4 DEF SyncRoot
  <1>5. UNCHANGED vars \/ NewVersion => UNCHANGED <<current, pending>>
    BY DEF NewVersion, vars, storeVars
  <1> QED BY <1>1, <1>2, <1>3, <1>4, <1>5, WhoseStep, StepFrame DEF StoreFrame

LEMMA SyncedFirstStep ==
  ASSUME TypeOK, Downloaded, SyncedFirst, [Next]_vars
  PROVE  SyncedFirst'
  <1> DEFINE Ready(o) == /\ o.step = "sync" => o.bytes \in gens
                         /\ o.step \in {"load", "lock", "replace"} => Kept(o.bytes)
  <1>0. /\ durable \subseteq durable' /\ unsynced \subseteq unsynced'
        /\ durable \subseteq gens
    BY DirectoriesTyped DEF TypeOK
  <1>1. ASSUME NEW g, Kept(g) PROVE Kept(g)'  BY <1>0, <1>1 DEF Kept
  <1>2. \A p \in Procs : Ready(op[p])  BY DEF SyncedFirst
  <1>3. \A c \in pending \ {NoPointer} : Kept(c.gen)  BY DEF SyncedFirst
  <1>4. \A c \in pending' \ {NoPointer} : Kept(c.gen)'
    <2>1. ASSUME NEW p \in Procs, Replace(p) PROVE Kept(NewPointer(p).gen)
      BY <1>2, <2>1 DEF Replace, At, NewPointer
    <2> QED BY <1>1, <1>3, <2>1, PendingGrows
  <1>5. \A p \in Procs : Ready(op[p])'
    <2>1. CASE PowerLoss  BY <2>1 DEF PowerLoss, Idle
    <2>2. CASE NewVersion \/ UNCHANGED vars
      BY <1>2, <2>2 DEF NewVersion, vars, storeVars, historyVars, Kept
    <2>3. ASSUME NEW p \in Procs, Step(p) \/ Fail(p) PROVE \A q \in Procs : Ready(op[q])'
      <3>0. gens \subseteq gens'
        BY <2>3 DEF Step, ReadPointer, Adopt, HeadBefore, ReRead, Stage, Download,
           HeadAfter, Validate, Promote, Rename, SyncPromoted, Load, Decide,
           Replace, SyncRoot, Finish, LoadPeer, Fail, storeVars
      <3>1. ASSUME NEW q \in Procs, q # p PROVE Ready(op[q])'
        BY <1>1, <1>2, <2>3, <3>0, <3>1, OthersStay
      <3>2. Ready(op[p])'
        <4>1. CASE op'[p].step \notin {"sync", "load", "lock", "replace"}
          BY <4>1
        <4>2. CASE Promote(p)
          <5>1. op'[p].bytes = op[p].bytes /\ op'[p].step \in {"load", "rename"}
            BY <4>2, NextStep, Carried DEF Carries
          <5>2. op'[p].step = "load"
                  => unsynced' = unsynced \cup ({op[p].bytes} \ durable)
            BY <4>2, PromotingGoes DEF Promote
          <5>3. durable' = durable  BY <4>2 DEF Promote, storeVars
          <5> QED BY <5>1, <5>2, <5>3 DEF Kept
        <4>3. CASE Rename(p)
          <5>1. op'[p].bytes = op[p].bytes /\ op'[p].step = "sync"
            BY <4>3, NextStep, Carried DEF Carries
          <5>2. op[p].bytes \in gens'  BY <4>3 DEF Rename
          <5> QED BY <5>1, <5>2
        <4>4. CASE SyncPromoted(p)
          BY <1>2, <4>4, NextStep, Carried DEF SyncPromoted, At, SyncGenerations,
             Carries, Kept
        <4>5. CASE Load(p) \/ Decide(p)
          BY <1>1, <1>2, <4>5, NextStep, Carried DEF Load, Decide, At, Carries
        <4>6. CASE Adopt(p) \/ Finish(p) \/ LoadPeer(p) \/ Fail(p)
          BY <4>1, <4>6, NextStep DEF Idle
        <4>7. CASE Replace(p) \/ SyncRoot(p) \/ ReadPointer(p) \/ HeadBefore(p)
                   \/ ReRead(p) \/ Stage(p) \/ Download(p) \/ HeadAfter(p) \/ Validate(p)
          BY <4>1, <4>7, NextStep
        <4> QED BY <2>3, <4>2, <4>3, <4>4, <4>5, <4>6, <4>7 DEF Step
      <3> QED BY <3>1, <3>2
    <2> QED BY <2>1, <2>2, <2>3 DEF Next
  <1> QED BY <1>4, <1>5, PendingGrows DEF SyncedFirst

(* Every step of an operation, by what becomes of what it carries.         *)
LEMMA Fates ==
  ASSUME TypeOK, NEW p \in Procs, Step(p) \/ Fail(p)
  PROVE  \/ op'[p] = Idle
         \/ Carries(p) /\ ~ReadPointer(p)
         \/ ReadPointer(p)
         \/ Download(p)
  <1>1. CASE HeadBefore(p) \/ HeadAfter(p)
    BY <1>1, HeadTurns
  <1>2. CASE Stage(p) \/ Rename(p) \/ Decide(p) \/ Promote(p)
    BY <1>2, Carried
  <1>3. CASE ReRead(p) \/ Validate(p)
    BY <1>3, Carried
  <1>4. CASE SyncPromoted(p) \/ Load(p) \/ Replace(p) \/ SyncRoot(p)
    BY <1>4, Carried DEF SyncPromoted, Load, Replace, SyncRoot
  <1>5. CASE Adopt(p) \/ Finish(p) \/ LoadPeer(p) \/ Fail(p)
    BY <1>5, NextStep
  <1> QED BY <1>1, <1>2, <1>3, <1>4, <1>5 DEF Step

LEMMA NotAheadStep ==
  ASSUME TypeOK, SyncedFirst, NotAhead, [Next]_vars
  PROVE  NotAhead'
  <1> DEFINE Behind(o) == \A f \in Files : /\ o.expected.gen[f] <= remote[f]
                                           /\ o.bytes[f] <= remote[f]
  <1>0. op \in [Procs -> Operation] /\ remote \in Generation  BY DEF TypeOK
  <1>1. \A f \in Files : remote'[f] >= remote[f] /\ remote[f] \in Nat /\ remote'[f] \in Nat
    BY <1>0, OriginTyped, StoreAssumption DEF Generation, Versions
  <1>2. \A c \in pending, f \in Files : c.gen[f] <= remote[f] /\ c.gen[f] \in Nat
    BY Blank, StoreAssumption DEF NotAhead, TypeOK, Pointer, Generation, Versions, NoTags, Unknown
  <1>3. \A p \in Procs : Behind(op[p])  BY DEF NotAhead
  <1>4. \A p \in Procs, f \in Files : /\ op[p].bytes[f] \in Nat
                                      /\ op[p].expected.gen[f] \in Nat
    <2>1. \A p \in Procs : /\ op[p].bytes \in Tags
                           /\ op[p].expected \in Pointer \cup {NoPointer}
      BY <1>0 DEF Operation
    <2> QED BY <2>1, Blank, StoreAssumption DEF Tags, Pointer, Generation, Versions, NoTags, Unknown
  <1>5. \A c \in pending', f \in Files : c.gen[f] <= remote'[f]
    <2>1. ASSUME NEW p \in Procs, Replace(p), NEW f \in Files
          PROVE  NewPointer(p).gen[f] <= remote[f] /\ NewPointer(p).gen[f] \in Nat
      BY <1>3, <1>4, <2>1 DEF NewPointer
    <2> QED BY <1>1, <1>2, <2>1, PendingGrows
  <1>6. \A f \in Files : Idle.expected.gen[f] = 0 /\ Idle.bytes[f] = 0
    BY Blank DEF Idle, NoTags, Unknown
  <1>7. \A p \in Procs : Behind(op[p])'
    <2>1. CASE PowerLoss  BY <1>1, <1>6, <2>1 DEF PowerLoss
    <2>2. CASE UNCHANGED op  BY <1>1, <1>3, <1>4, <2>2
    <2>3. ASSUME NEW p \in Procs, Step(p) \/ Fail(p) PROVE \A q \in Procs : Behind(op[q])'
      <3>1. ASSUME NEW q \in Procs, q # p PROVE Behind(op[q])'
        BY <1>1, <1>3, <1>4, <2>3, <3>1, OthersStay
      <3>2. Behind(op[p])'
        <4>1. CASE op'[p] = Idle  BY <1>1, <1>6, <4>1
        <4>2. CASE Carries(p)  BY <1>1, <1>3, <1>4, <4>2 DEF Carries
        <4>3. CASE ReadPointer(p)
          <5>1. op'[p].bytes = op[p].bytes /\ op'[p].expected \in {current, op[p].expected}
            BY <4>3, ReadCarries
          <5>2. current \in pending  BY DEF SyncedFirst
          <5> QED BY <1>1, <1>2, <1>3, <1>4, <5>1, <5>2
        <4>4. CASE Download(p)
          <5>1. op[p].bytes \in Tags /\ op[p].file \in Files  BY <1>0 DEF Operation
          <5>2. \A f \in Files : op'[p].bytes[f] \in {op[p].bytes[f], remote[f]}
            <6>1. op'[p].bytes = [op[p].bytes EXCEPT ![op[p].file] = remote[op[p].file]]
              BY <4>4, DownloadTurns
            <6> QED BY <5>1, <6>1 DEF Tags
          <5>3. op'[p].expected = op[p].expected  BY <4>4, DownloadTurns
          <5> QED BY <1>1, <1>3, <1>4, <5>2, <5>3
        <4> QED BY <2>3, <4>1, <4>2, <4>3, <4>4, Fates
      <3> QED BY <3>1, <3>2
    <2> QED BY <2>1, <2>2, <2>3 DEF Next, NewVersion, vars
  <1> QED BY <1>5, <1>7 DEF NotAhead

LEMMA TrueEtagsStep ==
  ASSUME TypeOK, SyncedFirst, TrueEtags, [Next]_vars
  PROVE  TrueEtags'
  <1> DEFINE True(o) == \A f \in Files : o.seen["during"][f] \in {Unknown, o.bytes[f]}
  <1>0. op \in [Procs -> Operation]  BY DEF TypeOK
  <1>1. \A p \in Procs : True(op[p])  BY DEF TrueEtags
  <1>2. \A c \in pending', f \in Files : c.tags[f] \in {Unknown, c.gen[f]}
    <2>1. ASSUME NEW p \in Procs, NEW f \in Files
          PROVE  NewPointer(p).tags[f] \in {Unknown, NewPointer(p).gen[f]}
      BY <1>1 DEF NewPointer
    <2> QED BY <2>1, PendingGrows DEF TrueEtags
  <1>3. True(Idle)  BY DEF Idle, NoTags, Phases, Unknown
  <1>4. \A p \in Procs : True(op'[p])
    <2>1. CASE PowerLoss  BY <1>3, <2>1 DEF PowerLoss
    <2>2. CASE UNCHANGED op  BY <1>1, <2>2
    <2>3. ASSUME NEW p \in Procs, Step(p) \/ Fail(p) PROVE \A q \in Procs : True(op'[q])
      <3>1. ASSUME NEW q \in Procs, q # p PROVE True(op'[q])
        BY <1>1, <2>3, <3>1, OthersStay
      <3>2. True(op'[p])
        <4>1. CASE op'[p] = Idle  BY <1>3, <4>1
        <4>2. CASE Carries(p)  BY <1>1, <4>2 DEF Carries
        <4>3. CASE ReadPointer(p)  BY <1>1, <4>3, ReadCarries
        <4>4. CASE Download(p)
          <5>1. /\ op[p].bytes \in Tags /\ op[p].file \in Files
                /\ op[p].seen["during"] \in Tags
            BY <1>0 DEF Operation, Phases
          <5>2. op'[p].bytes = [op[p].bytes EXCEPT ![op[p].file] = remote[op[p].file]]
            BY <4>4, DownloadTurns
          <5>3. PICK tag \in {Unknown, remote[op[p].file]} :
                  op'[p].seen["during"] = [op[p].seen["during"] EXCEPT ![op[p].file] = tag]
            BY <4>4, DownloadTurns
          <5>4. ASSUME NEW f \in Files
                PROVE  op'[p].seen["during"][f] \in {Unknown, op'[p].bytes[f]}
            <6>1. CASE f = op[p].file
              BY <5>1, <5>2, <5>3, <6>1 DEF Tags
            <6>2. CASE f # op[p].file
              BY <1>1, <5>1, <5>2, <5>3, <6>2 DEF Tags
            <6> QED BY <6>1, <6>2
          <5> QED BY <5>4
        <4> QED BY <2>3, <4>1, <4>2, <4>3, <4>4, Fates
      <3> QED BY <3>1, <3>2
    <2> QED BY <2>1, <2>2, <2>3 DEF Next, NewVersion, vars
  <1> QED BY <1>2, <1>4 DEF TrueEtags

LEMMA ExpectedReached ==
  ASSUME TypeOK, NotAhead, NEW p \in Procs, NEW f \in Files
  PROVE  remote[f] >= op[p].expected.gen[f]
  <1>1. op[p].expected \in Pointer \cup {NoPointer} /\ remote \in Generation
    BY DEF TypeOK, Operation
  <1>2. op[p].expected.gen[f] \in Nat /\ remote[f] \in Nat
    BY <1>1, Blank, StoreAssumption DEF Pointer, Generation, Versions, NoTags, Unknown
  <1> QED BY <1>2 DEF NotAhead

LEMMA ModelFirstStaged ==
  ASSUME TypeOK, ModelFirst, NEW p \in Procs, Stage(p)
  PROVE  op'[p].file = "model"
  BY Carried DEF ModelFirst, Stage, At

(* While a process replaces the pointer nobody else can.                   *)
LEMMA StillExpected ==
  ASSUME TypeOK, NotBehind, [Next]_vars, NEW q \in Procs, op'[q].step = "replace"
  PROVE  current' = op'[q].expected
  <1>0. op \in [Procs -> Operation]  BY DEF TypeOK
  <1>1. CASE PowerLoss  BY <1>1 DEF PowerLoss, Idle
  <1>2. CASE UNCHANGED <<op, current>>  BY <1>2 DEF NotBehind
  <1>3. ASSUME NEW p \in Procs, Step(p) \/ Fail(p) PROVE current' = op'[q].expected
    <2>1. CASE p = q
      <3>1. Decide(q)
        BY <1>3, <2>1, NextStep DEF Step, Idle
      <3>2. Goto(q, "replace") /\ current = op[q].expected /\ current' = current
        BY <1>0, <3>1 DEF Decide, Operation
      <3>3. op'[q].expected = op[q].expected  BY <3>1, Carried DEF Carries
      <3> QED BY <3>2, <3>3
    <2>2. CASE p # q
      <3>1. op[q].step = "replace" /\ op'[q] = op[q]
        BY <1>3, <2>2, OthersStay
      <3>2. ~Replace(p)
        BY <2>2, <3>1 DEF TypeOK, Replace, At
      <3>3. current' = current
        BY <1>3, <3>2 DEF Step, ReadPointer, Adopt, HeadBefore, ReRead, Stage,
           Download, HeadAfter, Validate, Promote, Rename, SyncPromoted, Load,
           Decide, SyncRoot, Finish, LoadPeer, Fail, storeVars
      <3> QED BY <3>1, <3>3 DEF NotBehind
    <2> QED BY <2>1, <2>2
  <1> QED BY <1>1, <1>2, <1>3 DEF Next, NewVersion, storeVars, vars

LEMMA NotBehindStep ==
  ASSUME TypeOK, ModelFirst, SyncedFirst, NotAhead, NotBehind, [Next]_vars
  PROVE  NotBehind'
  <1> DEFINE Newer(o) ==
        /\ o.step = "during" /\ o.file = "thresholds"
              => o.bytes["model"] >= o.expected.gen["model"]
        /\ o.step \in Past => \A f \in Files : o.bytes[f] >= o.expected.gen[f]
  <1>0. op \in [Procs -> Operation]  BY DEF TypeOK
  <1>1. \A p \in Procs : Newer(op[p])  BY DEF NotBehind
  <1>2. Newer(Idle)  BY DEF Idle, Past
  <1>3. ASSUME NEW p \in Procs, Step(p) \/ Fail(p) PROVE Newer(op'[p])
    <2>1. CASE op'[p] = Idle  BY <1>2, <2>1
    <2>2. CASE ReadPointer(p)  BY <2>2, NextStep DEF Past
    <2>3. CASE HeadBefore(p)
      BY <2>3, HeadTurns DEF HeadBefore, At, Turns, Past
    <2>4. CASE HeadAfter(p)
      BY <1>1, <2>4, HeadTurns DEF HeadAfter, At, Turns, Carries, Past
    <2>5. CASE Download(p)
      <3>1. op[p].step = "during" /\ op[p].bytes \in Tags /\ op[p].file \in Files
        BY <1>0, <2>5 DEF Download, At, Operation
      <3>2. op'[p].bytes = [op[p].bytes EXCEPT ![op[p].file] = remote[op[p].file]]
        BY <2>5, DownloadTurns
      <3>3. op'[p].expected = op[p].expected  BY <2>5, DownloadTurns
      <3>4. /\ remote["model"] >= op[p].expected.gen["model"]
            /\ remote["thresholds"] >= op[p].expected.gen["thresholds"]
        BY <2>5, ExpectedReached DEF Files
      <3>5. CASE op[p].file = "model"
        <4>1. op'[p].bytes["model"] = remote["model"]
          BY <3>1, <3>2, <3>5 DEF Tags, Files
        <4> QED BY <2>5, <3>1, <3>3, <3>4, <3>5, <4>1, DownloadTurns DEF Turns, Past
      <3>6. CASE op[p].file = "thresholds"
        <4>1. /\ op'[p].bytes["model"] = op[p].bytes["model"]
              /\ op'[p].bytes["thresholds"] = remote["thresholds"]
          BY <3>1, <3>2, <3>6 DEF Tags, Files
        <4>2. op[p].bytes["model"] >= op[p].expected.gen["model"]
          BY <1>1, <3>1, <3>6
        <4>3. \A f \in Files : op'[p].bytes[f] >= op'[p].expected.gen[f]
          BY <3>3, <3>4, <4>1, <4>2 DEF Files
        <4> QED BY <2>5, <3>1, <3>6, <4>3, DownloadTurns DEF Turns
      <3> QED BY <3>1, <3>5, <3>6 DEF Files
    <2>6. CASE Stage(p)
      BY <2>6, NextStep, Carried, ModelFirstStaged DEF Past
    <2>7. CASE (ReRead(p) \/ Validate(p)) /\ op'[p] # Idle
      BY <1>1, <2>7, NextStep, Carried DEF ReRead, Validate, At, Carries, Past
    <2>8. CASE Promote(p) \/ Rename(p) \/ Decide(p)
      BY <1>1, <2>8, NextStep, Carried DEF Promote, Rename, Decide, At, Carries, Past
    <2>9. CASE SyncPromoted(p) \/ Load(p) \/ Replace(p) \/ SyncRoot(p)
      BY <1>1, <2>9, NextStep, Carried DEF SyncPromoted, Load, Replace, SyncRoot,
         At, Carries, Past
    <2>10. CASE Adopt(p) \/ Finish(p) \/ LoadPeer(p) \/ Fail(p)
      BY <2>1, <2>10, NextStep
    <2> QED BY <1>3, <2>1, <2>2, <2>3, <2>4, <2>5, <2>6, <2>7, <2>8, <2>9, <2>10
            DEF Step
  <1>4. \A p \in Procs : Newer(op'[p])
    <2>1. CASE PowerLoss  BY <1>2, <2>1 DEF PowerLoss
    <2>2. CASE UNCHANGED op  BY <1>1, <2>2
    <2>3. ASSUME NEW p \in Procs, Step(p) \/ Fail(p), NEW q \in Procs
          PROVE  Newer(op'[q])
      BY <1>1, <1>3, <2>3, OthersStay
    <2> QED BY <2>1, <2>2, <2>3 DEF Next, NewVersion, vars
  <1>5. \A p \in Procs : op'[p].step = "replace" => current' = op'[p].expected
    BY StillExpected
  <1> QED BY <1>4, <1>5 DEF NotBehind

-----------------------------------------------------------------------------
(* The pair of a validated stage.                                          *)

(* Steps before the files are compared with the origin again, and those at *)
(* which the stage is still tied to what the origin has answered.          *)
Early == {"idle", "adopt", "before", "reread", "stage", "during"}
Judged == {"after", "validate", "promote"}

(* The origin has held the model of o together with thresholds that are no *)
(* older than its first answer and no newer than bound.                    *)
ModelMet(o, bound) == \E x \in served :
    /\ x["model"] = o.bytes["model"]
    /\ o.seen["before"]["thresholds"] <= x["thresholds"]
    /\ x["thresholds"] <= bound

(* The origin has held the thresholds of o together with a model that is   *)
(* no older than that of o and no newer than its last answer.              *)
ThresholdsMet(o) == \E x \in served :
    /\ x["thresholds"] = o.bytes["thresholds"]
    /\ o.bytes["model"] <= x["model"] /\ x["model"] <= remote["model"]
    /\ o.seen["after"]["model"] # Unknown => x["model"] <= o.seen["after"]["model"]

(* The bytes of o lie between its first and its last answer.               *)
Between(o) == \A f \in Files :
    /\ o.seen["before"][f] <= o.bytes[f]
    /\ o.seen["after"][f] = Unknown \/ o.bytes[f] <= o.seen["after"][f]

Met(o) ==
    /\ \A f \in Files : o.seen["before"][f] <= remote[f]
    /\ o.step \in Early => o.seen["after"] = NoTags
    /\ o.step = "during" /\ o.file = "thresholds" =>
          /\ o.seen["before"]["model"] <= o.bytes["model"]
          /\ ModelMet(o, remote["thresholds"])
    /\ o.step \in Judged =>
          Between(o) /\ ModelMet(o, o.bytes["thresholds"]) /\ ThresholdsMet(o)
    /\ o.step = "promote" => \A f \in Files : StableEtags(o.seen, f)

PairInv == remote \in served /\ \A p \in Procs : Met(op[p])

(* Versions are numbers.                                                   *)
LEMMA PairTypes ==
  ASSUME TypeOK
  PROVE  /\ \A f \in Files : remote[f] \in Nat \ {0}
         /\ \A x \in served, f \in Files : x[f] \in Nat
         /\ \A p \in Procs, f \in Files :
               /\ op[p].bytes[f] \in Nat
               /\ \A ph \in Phases : op[p].seen[ph][f] \in Nat
  <1>1. remote \in Generation /\ served \subseteq Generation  BY DEF TypeOK
  <1>2. Versions \subseteq Nat \ {0} /\ Unknown \in Nat
    BY StoreAssumption DEF Versions, Unknown
  <1>3. ASSUME NEW p \in Procs, NEW f \in Files
        PROVE  /\ op[p].bytes[f] \in Nat
               /\ \A ph \in Phases : op[p].seen[ph][f] \in Nat
    <2>1. op[p].bytes \in Tags /\ op[p].seen \in [Phases -> Tags]  BY OperationOf
    <2> QED BY <1>2, <2>1 DEF Tags
  <1> QED BY <1>1, <1>2, <1>3 DEF Generation

(* What was met stays met: the origin only moves on.                       *)
LEMMA MetStays ==
  ASSUME TypeOK, NEW p \in Procs, NEW o, o = op[p], Met(o),
         served \subseteq served', \A f \in Files : remote'[f] \in Nat /\ remote[f] <= remote'[f]
  PROVE  Met(o)'
  <1>1. /\ "model" \in Files /\ "thresholds" \in Files
        /\ "before" \in Phases /\ "after" \in Phases
    BY DEF Files, Phases
  <1>2. /\ \A f \in Files : remote[f] \in Nat /\ o.seen["before"][f] \in Nat
        /\ \A x \in served, f \in Files : x[f] \in Nat
    BY <1>1, PairTypes
  <1>3. \A f \in Files : o.seen["before"][f] <= remote'[f]
    BY <1>2 DEF Met
  <1>4. ASSUME ModelMet(o, remote["thresholds"])
        PROVE  ModelMet(o, remote["thresholds"])'
    BY <1>1, <1>2, <1>4 DEF ModelMet
  <1>5. ASSUME ModelMet(o, o.bytes["thresholds"])
        PROVE  ModelMet(o, o.bytes["thresholds"])'
    BY <1>5 DEF ModelMet
  <1>6. ASSUME ThresholdsMet(o) PROVE ThresholdsMet(o)'
    BY <1>1, <1>2, <1>6 DEF ThresholdsMet
  <1> QED BY <1>3, <1>4, <1>5, <1>6 DEF Met, Between, StableEtags

(* What the steps of an operation leave in what it has seen.               *)
LEMMA NoteSees ==
  ASSUME TypeOK, NEW p \in Procs, NEW phase \in Phases, NEW tag, NEW next,
         Note(p, phase, tag, next)
  PROVE  op'[p].seen = [op[p].seen EXCEPT ![phase][op[p].file] = tag]
  <1>1. op \in [Procs -> Operation] /\ op[p] \in Operation  BY OperationOf
  <1> QED BY <1>1 DEF Note, Operation

LEMMA SeenKept ==
  ASSUME TypeOK, NEW p \in Procs
  PROVE  /\ ReadPointer(p) \/ ReRead(p) \/ Stage(p) \/ Validate(p)
               => op'[p] = Idle \/ op'[p].seen = op[p].seen
         /\ Download(p) => \A ph \in {"before", "after"} : op'[p].seen[ph] = op[p].seen[ph]
  <1>0. op \in [Procs -> Operation] /\ op[p] \in Operation  BY OperationOf
  <1>1. ASSUME NEW step, Goto(p, step) PROVE op'[p].seen = op[p].seen
    BY <1>0, <1>1 DEF Goto, Operation
  <1>2. ASSUME NEW gen, End(p, gen) PROVE op'[p] = Idle
    BY <1>0, <1>2 DEF End
  <1>3. ASSUME NEW gen, op' = [op EXCEPT ![p].step = "adopt", ![p].target = gen]
        PROVE  op'[p].seen = op[p].seen
    BY <1>0, <1>3 DEF Operation
  <1>4. ASSUME op' = [op EXCEPT ![p].step = "before", ![p].expected = current]
        PROVE  op'[p].seen = op[p].seen
    BY <1>0, <1>4 DEF Operation
  <1>5. ReadPointer(p) => op'[p].seen = op[p].seen
    BY <1>1, <1>3, <1>4 DEF ReadPointer
  <1>6. ReRead(p) \/ Validate(p) => op'[p] = Idle \/ op'[p].seen = op[p].seen
    BY <1>1, <1>2, <1>3 DEF ReRead, Validate
  <1>7. Stage(p) => op'[p].seen = op[p].seen
    BY <1>0 DEF Stage, Operation
  <1>8. Download(p) => \A ph \in {"before", "after"} : op'[p].seen[ph] = op[p].seen[ph]
    <2> SUFFICES ASSUME Download(p)
                 PROVE  \A ph \in {"before", "after"} : op'[p].seen[ph] = op[p].seen[ph]
      OBVIOUS
    <2>1. PICK tag : op' = [op EXCEPT
                      ![p].bytes[op[p].file] = remote[op[p].file],
                      ![p].seen["during"][op[p].file] = tag,
                      ![p].file = IF @ = "model" THEN "thresholds"
                                                 ELSE "model",
                      ![p].step = IF op[p].file = "model" THEN @
                                                          ELSE "after"]
      BY DEF Download
    <2>2. op'[p].seen = [op[p].seen EXCEPT !["during"][op[p].file] = tag]
      BY <1>0, <2>1 DEF Operation
    <2> QED BY <1>0, <2>2 DEF Operation, Phases
  <1> QED BY <1>5, <1>6, <1>7, <1>8

(* Of stable ETags, those that are known are equal.                        *)
LEMMA StableAgree ==
  ASSUME NEW seen, NEW f, StableEtags(seen, f),
         NEW a \in Phases, NEW b \in Phases,
         seen[a][f] # Unknown, seen[b][f] # Unknown
  PROVE  seen[a][f] = seen[b][f]
  <1> DEFINE all == {seen[ph][f] : ph \in Phases}
             three == (({} \cup {seen["before"][f]}) \cup {seen["during"][f]})
                         \cup {seen["after"][f]}
             known == all \ {Unknown}
  <1>1. all = three  BY DEF Phases
  <1>2. IsFiniteSet(three)
    <2>1. IsFiniteSet({})  BY FS_EmptySet
    <2> QED BY <2>1, FS_AddElement
  <1>3. IsFiniteSet(known)  BY <1>1, <1>2, FS_RemoveElement
  <1>4. Cardinality(known) <= 1  BY DEF StableEtags
  <1>5. seen[a][f] \in known /\ seen[b][f] \in known  OBVIOUS
  <1> HIDE DEF known
  <1>6. /\ IsFiniteSet(known \ {seen[a][f]})
        /\ Cardinality(known \ {seen[a][f]}) = Cardinality(known) - 1
    BY <1>3, <1>5, FS_RemoveElement
  <1>7. Cardinality(known) \in Nat /\ Cardinality(known \ {seen[a][f]}) \in Nat
    BY <1>3, <1>6, FS_CardinalityType
  <1>8. Cardinality(known \ {seen[a][f]}) = 0  BY <1>4, <1>6, <1>7
  <1>9. known \ {seen[a][f]} = {}  BY <1>6, <1>8, FS_EmptySet
  <1> QED BY <1>5, <1>9

(* What is left of the answers once the stage is being published.          *)
LEMMA PublishingSees ==
  ASSUME TypeOK, NEW p \in Procs,
         \/ Promote(p) \/ Rename(p) \/ SyncPromoted(p) \/ Load(p)
         \/ Decide(p) \/ Replace(p) \/ SyncRoot(p)
  PROVE  op'[p].seen["before"] \in {op[p].seen["before"], NoTags}
  <1>0. op \in [Procs -> Operation] /\ op[p] \in Operation  BY OperationOf
  <1>1. ASSUME NEW step, Goto(p, step) PROVE op'[p].seen = op[p].seen
    BY <1>0, <1>1 DEF Goto, Operation
  <1>2. ASSUME NEW step, Promoting(p, step) PROVE op'[p].seen["before"] = NoTags
    BY <1>0, <1>2 DEF Promoting, Operation, Phases
  <1>3. ASSUME NEW gen, op' = [op EXCEPT ![p].step = "peer", ![p].target = gen]
        PROVE  op'[p].seen = op[p].seen
    BY <1>0, <1>3 DEF Operation
  <1>4. CASE Promote(p)
    BY <1>2, <1>4 DEF Promote
  <1>5. CASE Rename(p)
    BY <1>0, <1>5 DEF Rename, Operation
  <1>6. CASE SyncPromoted(p) \/ Load(p) \/ Replace(p) \/ SyncRoot(p)
    BY <1>1, <1>6 DEF SyncPromoted, Load, Replace, SyncRoot
  <1>7. CASE Decide(p)
    BY <1>1, <1>3, <1>7 DEF Decide
  <1> QED BY <1>4, <1>5, <1>6, <1>7

(* The step of an operation leaves it met.                                 *)
LEMMA MetStep ==
  ASSUME TypeOK, ModelFirst, NotAhead, PairInv, NEW p \in Procs,
         Step(p) \/ Fail(p)
  PROVE  Met(op[p])'
  <1> DEFINE o == op[p]
             n == op'[p]
  <1>0. op \in [Procs -> Operation] /\ o \in Operation  BY OperationOf
  <1>1. /\ UNCHANGED originVars /\ UNCHANGED <<remote, served>>
        /\ remote \in served /\ Met(o)
    BY StepFrame DEF StoreFrame, originVars, PairInv
  <1>2. /\ "model" \in Files /\ "thresholds" \in Files /\ o.file \in Files
        /\ "before" \in Phases /\ "during" \in Phases /\ "after" \in Phases
        /\ o.seen \in [Phases -> Tags] /\ o.bytes \in Tags
    BY OperationOf DEF Files, Phases
  <1>3. /\ \A f \in Files : /\ remote[f] \in Nat /\ remote[f] # Unknown
                            /\ o.bytes[f] \in Nat /\ o.bytes[f] <= remote[f]
                            /\ o.seen["before"][f] \in Nat
                            /\ o.seen["after"][f] \in Nat
        /\ \A x \in served, f \in Files : x[f] \in Nat
    BY <1>2, PairTypes DEF NotAhead, Unknown
  <1>4. SUFFICES Met(n)
    BY <1>1 DEF Met, Between, ModelMet, ThresholdsMet, StableEtags
  <1>5. Met(Idle)
    <2>1. /\ Idle.step = "idle" /\ Idle.seen["after"] = NoTags
          /\ \A f \in Files : Idle.seen["before"][f] = 0
      BY <1>2 DEF Idle, NoTags, Unknown
    <2>2. \A f \in Files : Idle.seen["before"][f] <= remote[f]
      BY <1>3, <2>1
    <2> QED BY <2>1, <2>2 DEF Met, Early, Judged
  <1>6. CASE n = Idle
    BY <1>5, <1>6
  <1>7. CASE n # Idle /\ (ReadPointer(p) \/ ReRead(p))
    <2>1. n.seen = o.seen  BY <1>7, SeenKept
    <2>2. o.step \in Early  BY <1>7 DEF ReadPointer, ReRead, At, Early
    <2>3. n.step \notin {"during"} \cup Judged  BY <1>7, NextStep DEF Judged
    <2> QED BY <1>1, <2>1, <2>2, <2>3 DEF Met, Judged
  <1>8. CASE n # Idle /\ Stage(p)
    <2>1. n.seen = o.seen /\ n.file = o.file  BY <1>8, SeenKept, Carried
    <2>2. o.step \in Early /\ o.file = "model"
      BY <1>8 DEF Stage, At, Early, ModelFirst
    <2>3. n.step = "during"  BY <1>8, NextStep
    <2> QED BY <1>1, <2>1, <2>2, <2>3 DEF Met, Judged
  <1>9. CASE HeadBefore(p)
    <2>1. PICK tag \in {Unknown, remote[o.file]} :
             n.seen = [o.seen EXCEPT !["before"][o.file] = tag]
      BY <1>2, <1>9, NoteSees DEF HeadBefore, Answer
    <2>2. n.seen["after"] = o.seen["after"]
      BY <1>2, <2>1
    <2>3. \A f \in Files : n.seen["before"][f] \in {o.seen["before"][f], Unknown, remote[f]}
      BY <1>2, <2>1 DEF Tags
    <2>4. n.step \notin {"during"} \cup Judged /\ o.step \in Early
      BY <1>9, NextStep DEF HeadBefore, At, Judged, Early
    <2>5. \A f \in Files : n.seen["before"][f] <= remote[f]
      BY <1>1, <1>3, <2>3 DEF Met, Unknown
    <2> QED BY <1>1, <2>2, <2>4, <2>5 DEF Met, Judged
  <1>10. CASE Download(p)
    <2>1. /\ o.step = "during" /\ n.seen["before"] = o.seen["before"]
          /\ n.seen["after"] = NoTags
          /\ n.bytes = [o.bytes EXCEPT ![o.file] = remote[o.file]]
          /\ Turns(p, {"after"})
      BY <1>1, <1>10, SeenKept, DownloadTurns DEF Download, At, Met, Early
    <2>2. \A f \in Files : n.seen["before"][f] <= remote[f]
      BY <1>1, <2>1 DEF Met
    <2>3. CASE o.file = "model"
      <3>1. n.bytes["model"] = remote["model"]
        BY <1>2, <2>1, <2>3 DEF Tags
      <3>2. n.file = "thresholds" /\ n.step = "during"
        BY <2>1, <2>3 DEF Turns
      <3>3. ModelMet(n, remote["thresholds"])
        BY <1>1, <1>2, <1>3, <2>2, <3>1 DEF ModelMet
      <3> QED BY <1>2, <2>1, <2>2, <3>1, <3>2, <3>3 DEF Met, Judged
    <2>4. CASE o.file = "thresholds"
      <3>1. /\ n.bytes["model"] = o.bytes["model"]
            /\ n.bytes["thresholds"] = remote["thresholds"]
        BY <1>2, <2>1, <2>4 DEF Tags, Files
      <3>2. n.step = "after" /\ n.file = "model"
        BY <2>1, <2>4 DEF Turns
      <3>3. \A f \in Files : n.seen["after"][f] = Unknown
        BY <2>1 DEF NoTags
      <3>4. /\ o.seen["before"]["model"] <= o.bytes["model"]
            /\ ModelMet(o, remote["thresholds"])
        BY <1>1, <2>1, <2>4 DEF Met
      <3>5. Between(n)
        BY <2>1, <2>2, <3>1, <3>3, <3>4 DEF Between, Files
      <3>6. ModelMet(n, n.bytes["thresholds"])
        BY <2>1, <3>1, <3>4 DEF ModelMet
      <3>7. ThresholdsMet(n)
        BY <1>1, <1>2, <1>3, <3>1, <3>3 DEF ThresholdsMet
      <3> QED BY <2>2, <3>2, <3>5, <3>6, <3>7 DEF Met, Early
    <2> QED BY <1>2, <2>3, <2>4 DEF Files
  <1>11. CASE HeadAfter(p)
    <2>1. PICK tag \in {Unknown, remote[o.file]} :
             n.seen = [o.seen EXCEPT !["after"][o.file] = tag]
      BY <1>2, <1>11, NoteSees DEF HeadAfter, Answer
    <2>2. n.seen["before"] = o.seen["before"] /\ n.bytes = o.bytes
      BY <1>2, <1>11, <2>1, HeadTurns DEF Carries
    <2>3. \A f \in Files : n.seen["after"][f] \in {o.seen["after"][f], Unknown, remote[f]}
      BY <1>2, <2>1 DEF Tags
    <2>4. n.step \in {"after", "validate"} /\ o.step = "after"
      BY <1>11, NextStep DEF HeadAfter, At
    <2>5. Between(o) /\ ModelMet(o, o.bytes["thresholds"]) /\ ThresholdsMet(o)
      BY <1>1, <2>4 DEF Met, Judged
    <2>6. Between(n)
      BY <1>3, <2>2, <2>3, <2>5 DEF Between
    <2>7. ModelMet(n, n.bytes["thresholds"])
      BY <2>2, <2>5 DEF ModelMet
    <2>8. ThresholdsMet(n)
      BY <1>2, <1>3, <2>2, <2>3, <2>5 DEF ThresholdsMet
    <2>9. \A f \in Files : n.seen["before"][f] <= remote[f]
      BY <1>1, <2>2 DEF Met
    <2> QED BY <2>4, <2>6, <2>7, <2>8, <2>9 DEF Met, Early
  <1>12. CASE n # Idle /\ Validate(p)
    <2>1. n.seen = o.seen /\ n.bytes = o.bytes
      BY <1>12, SeenKept, Carried DEF Carries
    <2>2. /\ o.step = "validate" /\ Goto(p, "promote")
          /\ \A f \in Files : StableEtags(o.seen, f)
      BY <1>0, <1>12 DEF Validate, At, End
    <2>3. n.step = "promote" /\ \A f \in Files : StableEtags(n.seen, f)
      BY <1>0, <2>1, <2>2 DEF Goto, Operation
    <2>4. Between(n) /\ ModelMet(n, n.bytes["thresholds"]) /\ ThresholdsMet(n)
      <3>1. Between(o) /\ ModelMet(o, o.bytes["thresholds"]) /\ ThresholdsMet(o)
        BY <1>1, <2>2 DEF Met, Judged
      <3> QED BY <2>1, <3>1 DEF Between, ModelMet, ThresholdsMet
    <2> QED BY <1>1, <2>1, <2>2, <2>3, <2>4 DEF Met, Early
  <1>13. CASE \/ Promote(p) \/ Rename(p) \/ SyncPromoted(p) \/ Load(p)
              \/ Decide(p) \/ Replace(p) \/ SyncRoot(p)
    <2>1. n.seen["before"] \in {o.seen["before"], NoTags}
      BY <1>13, PublishingSees
    <2>2. n.step \notin {"during"} \cup Early \cup Judged
      BY <1>13, NextStep DEF Early, Judged
    <2>3. \A f \in Files : n.seen["before"][f] <= remote[f]
      BY <1>1, <1>3, <2>1 DEF Met, NoTags, Unknown
    <2> QED BY <2>2, <2>3 DEF Met, Early, Judged
  <1> QED
    <2>1. Adopt(p) \/ Finish(p) \/ LoadPeer(p) \/ Fail(p) => n = Idle
      BY NextStep
    <2> QED
      BY <1>6, <1>7, <1>8, <1>9, <1>10, <1>11, <1>12, <1>13, <2>1 DEF Step

LEMMA PairStep ==
  ASSUME TypeOK, ModelFirst, NotAhead, PairInv, [Next]_vars
  PROVE  PairInv'
  <1>1. /\ remote' \in served' /\ served \subseteq served'
        /\ \A f \in Files : remote'[f] \in Nat /\ remote[f] <= remote'[f]
    <2>1. served \subseteq served' /\ remote' \in served'
      <3>1. CASE UNCHANGED originVars  BY <3>1 DEF originVars, PairInv
      <3>2. CASE NewVersion  BY <3>2 DEF NewVersion
      <3> QED BY <3>1, <3>2, WhoseStep, StepFrame DEF StoreFrame, vars, PowerLoss
    <2>2. \A f \in Files : remote'[f] \in Nat /\ remote[f] <= remote'[f]
      <3>1. /\ remote \in Generation /\ remote' \in Generation
            /\ \A f \in Files : remote'[f] >= remote[f]
        BY OriginTyped DEF TypeOK
      <3>2. Versions \subseteq Nat  BY StoreAssumption DEF Versions
      <3> QED BY <3>1, <3>2 DEF Generation
    <2> QED BY <2>1, <2>2
  <1>2. ASSUME NEW p \in Procs, op'[p] = op[p] PROVE Met(op[p])'
    <2>1. PICK o : o = op[p]  OBVIOUS
    <2>2. Met(o)  BY <2>1 DEF PairInv
    <2>3. Met(o)'  BY <1>1, <2>1, <2>2, MetStays
    <2> QED BY <1>2, <2>1, <2>3
  <1>3. CASE PowerLoss
    <2>1. \A p \in Procs : op'[p] = Idle  BY <1>3 DEF PowerLoss
    <2>2. \A f \in Files : 0 <= remote'[f]  BY <1>1
    <2>3. /\ Idle.step = "idle" /\ Idle.seen["after"] = NoTags
          /\ \A f \in Files : Idle.seen["before"][f] = 0
      BY DEF Idle, NoTags, Unknown, Phases
    <2>4. ASSUME NEW p \in Procs PROVE Met(op[p])'
      BY <2>1, <2>2, <2>3 DEF Met, Early, Judged
    <2> QED BY <1>1, <2>4 DEF PairInv
  <1>4. CASE UNCHANGED op
    BY <1>1, <1>2, <1>4 DEF PairInv
  <1>5. ASSUME NEW p \in Procs, Step(p) \/ Fail(p) PROVE PairInv'
    <2>1. ASSUME NEW q \in Procs PROVE Met(op[q])'
      BY <1>2, <1>5, OthersStay, MetStep
    <2> QED BY <1>1, <2>1 DEF PairInv
  <1> QED BY <1>3, <1>4, <1>5, WhoseStep DEF NewVersion, vars

(* A bracketed stage that was promoted holds a pair the origin has held.   *)
LEMMA PairHeld ==
  ASSUME TypeOK, TrueEtags, PairInv, NEW p \in Procs, op[p].step = "promote",
         Bracketed(op[p].seen)
  PROVE  op[p].bytes \in served
  <1> DEFINE o == op[p]
             before(f) == o.seen["before"][f]
             during(f) == o.seen["during"][f]
             after(f) == o.seen["after"][f]
  <1>1. /\ "model" \in Files /\ "thresholds" \in Files
        /\ "before" \in Phases /\ "during" \in Phases /\ "after" \in Phases
    BY DEF Files, Phases
  <1>2. /\ Between(o) /\ ModelMet(o, o.bytes["thresholds"]) /\ ThresholdsMet(o)
        /\ \A f \in Files : StableEtags(o.seen, f)
    BY DEF PairInv, Met, Judged
  <1>3. \A f \in Files : during(f) \in {Unknown, o.bytes[f]}
    BY DEF TrueEtags
  <1>4. \A f \in Files : /\ o.bytes[f] \in Nat /\ before(f) \in Nat
                         /\ after(f) \in Nat
    BY <1>1, PairTypes
  <1>5. \A x \in served, f \in Files : x[f] \in Nat
    BY PairTypes
  <1>6. /\ \A f \in Files : before(f) # Unknown /\ during(f) # Unknown
                                  => before(f) = during(f)
        /\ \A f \in Files : before(f) # Unknown /\ after(f) # Unknown
                                  => before(f) = after(f)
        /\ \A f \in Files : after(f) # Unknown /\ during(f) # Unknown
                                  => after(f) = during(f)
    BY <1>1, <1>2, StableAgree
  <1>7. \A f \in Files : /\ before(f) <= o.bytes[f]
                         /\ after(f) = Unknown \/ o.bytes[f] <= after(f)
    BY <1>2 DEF Between
  <1>8. ASSUME NEW x \in served, x["model"] = o.bytes["model"],
               x["thresholds"] = o.bytes["thresholds"]
        PROVE  o.bytes \in served
    <2>1. x \in Generation /\ o.bytes \in Tags  BY OperationOf DEF TypeOK
    <2>2. x = [f \in Files |-> x[f]] /\ o.bytes = [f \in Files |-> o.bytes[f]]
      BY <2>1 DEF Generation, Tags
    <2>3. \A f \in Files : x[f] = o.bytes[f]  BY <1>8 DEF Files
    <2>4. x = o.bytes  BY <2>2, <2>3
    <2> QED BY <2>4
  <1>9. CASE before("thresholds") # Unknown
             /\ (during("thresholds") # Unknown \/ after("thresholds") # Unknown)
    <2>1. before("thresholds") = o.bytes["thresholds"]
      <3>1. CASE during("thresholds") # Unknown
        BY <1>1, <1>3, <1>6, <1>9, <3>1
      <3>2. CASE after("thresholds") # Unknown
        <4>1. before("thresholds") = after("thresholds")
          BY <1>1, <1>6, <1>9, <3>2
        <4>2. /\ before("thresholds") <= o.bytes["thresholds"]
              /\ o.bytes["thresholds"] <= after("thresholds")
          BY <1>1, <1>7, <3>2
        <4> QED BY <1>1, <1>4, <4>1, <4>2
      <3> QED BY <1>9, <3>1, <3>2
    <2>2. PICK x \in served : /\ x["model"] = o.bytes["model"]
                              /\ before("thresholds") <= x["thresholds"]
                              /\ x["thresholds"] <= o.bytes["thresholds"]
      BY <1>2 DEF ModelMet
    <2>3. x["thresholds"] = o.bytes["thresholds"]
      BY <1>1, <1>4, <1>5, <2>1, <2>2
    <2> QED BY <1>8, <2>2, <2>3
  <1>10. CASE after("model") # Unknown
              /\ (during("model") # Unknown \/ before("model") # Unknown)
    <2>1. after("model") = o.bytes["model"]
      <3>1. CASE during("model") # Unknown
        BY <1>1, <1>3, <1>6, <1>10, <3>1
      <3>2. CASE before("model") # Unknown
        <4>1. before("model") = after("model")
          BY <1>1, <1>6, <1>10, <3>2
        <4>2. before("model") <= o.bytes["model"] /\ o.bytes["model"] <= after("model")
          BY <1>1, <1>7, <1>10
        <4> QED BY <1>1, <1>4, <4>1, <4>2
      <3> QED BY <1>10, <3>1, <3>2
    <2>2. PICK x \in served : /\ x["thresholds"] = o.bytes["thresholds"]
                              /\ o.bytes["model"] <= x["model"]
                              /\ x["model"] <= after("model")
      BY <1>2, <1>10 DEF ThresholdsMet
    <2>3. x["model"] = o.bytes["model"]
      BY <1>1, <1>4, <1>5, <2>1, <2>2
    <2> QED BY <1>8, <2>2, <2>3
  <1> QED BY <1>9, <1>10 DEF Bracketed

LEMMA InvInit == Init => StoreInv
  <1> SUFFICES ASSUME Init PROVE StoreInv  OBVIOUS
  <1>1. TypeOK  BY TypeInit
  <1>2. ModelFirst /\ Downloaded /\ SyncedFirst /\ TrueEtags
    BY Blank DEF Init, ModelFirst, Downloaded, SyncedFirst, TrueEtags, Idle, Past,
       NoTags, Phases, Unknown
  <1>3. NotAhead /\ NotBehind
    BY Blank DEF Init, NotAhead, NotBehind, Idle, Past, NoTags, Unknown
  <1> QED BY <1>1, <1>2, <1>3 DEF StoreInv

LEMMA PairInit == Init => PairInv
  <1> SUFFICES ASSUME Init PROVE PairInv  OBVIOUS
  <1>1. \A p \in Procs : op[p] = Idle  BY DEF Init
  <1>2. remote \in served /\ \A f \in Files : 0 <= remote[f]  BY DEF Init
  <1> QED
    BY <1>1, <1>2 DEF PairInv, Met, Idle, NoTags, Unknown, Phases, Early, Judged

(* StoreInv is inductive.                                                  *)
THEOREM StoreInvariant == Spec => []StoreInv
  <1>1. StoreInv /\ [Next]_vars => StoreInv'
    BY TypeStep, DownloadedStep, SyncedFirstStep, NotAheadStep, NotBehindStep,
       TrueEtagsStep, Zenon DEF StoreInv
  <1> QED BY InvInit, <1>1, PTL DEF Spec

(* Every state of the store is well typed, and the lock is held exactly    *)
(* while its holder replaces the pointer.                                  *)
THEOREM StoreTypeCorrect == Spec => []TypeOK
  <1>1. StoreInv => TypeOK  BY DEF StoreInv
  <1> QED BY <1>1, StoreInvariant, PTL

(* Whatever a power loss leaves in current.json names a generation that it *)
(* leaves too, or one that its committer had found in place unsynced.      *)
THEOREM PointerKept == Spec => []PointerNamesGeneration
  <1>1. StoreInv => PointerNamesGeneration
    BY DEF StoreInv, SyncedFirst, Kept, PointerNamesGeneration
  <1> QED BY <1>1, StoreInvariant, PTL

(* The two files of a validated stage were at the origin at the same time, *)
(* whenever the ETags that were sent can tell.                             *)
THEOREM PairsServed == Spec => []PairServedTogether
  <1>1. StoreInv /\ PairInv /\ [Next]_vars => PairInv'
    BY PairStep DEF StoreInv
  <1>2. StoreInv /\ PairInv => PairServedTogether
    BY PairHeld DEF StoreInv, PairServedTogether
  <1> QED BY PairInit, <1>1, <1>2, StoreInvariant, PTL DEF Spec

(* The ETags of the pointer are those of the bytes it names.               *)
THEOREM EtagsTrue == Spec => []EtagsDescribeBytes
  <1>1. StoreInv => EtagsDescribeBytes
    BY DEF StoreInv, SyncedFirst, TrueEtags, EtagsDescribeBytes
  <1> QED BY <1>1, StoreInvariant, PTL

(* No commit takes a file back to an earlier version than the pointer's.   *)
THEOREM CommitsOnlyNewer == Spec => NewerCommitKept
  <1>1. ASSUME StoreInv, [Next]_vars, current' # current, faults' = faults,
               NEW f \in Files
        PROVE  current'.gen[f] >= current.gen[f]
    <2>1. TypeOK /\ NotBehind  BY <1>1 DEF StoreInv
    <2>2. ~PowerLoss
      BY <1>1, <2>1, StoreAssumption DEF TypeOK, PowerLoss
    <2>5. UNCHANGED vars \/ NewVersion => current' = current
      BY DEF NewVersion, vars, storeVars
    <2>6. ASSUME NEW p \in Procs, SyncRoot(p) PROVE current' = current
      BY <2>6 DEF SyncRoot
    <2>3. PICK p \in Procs : Replace(p)
      BY <1>1, <2>2, <2>5, <2>6, WhoseStep, StepFrame DEF StoreFrame
    <2>4. current = op[p].expected /\ op[p].bytes[f] >= op[p].expected.gen[f]
      BY <2>1, <2>3 DEF NotBehind, Replace, At, Past
    <2> QED BY <2>3, <2>4 DEF Replace, NewPointer
  <1>2. StoreInv /\ [Next]_vars =>
          [current' # current /\ faults' = faults =>
             \A f \in Files : current'.gen[f] >= current.gen[f]]_vars
    BY <1>1
  <1> QED BY <1>2, StoreInvariant, PTL DEF Spec, NewerCommitKept
=============================================================================
