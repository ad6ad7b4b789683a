------------------------ MODULE BattleRecoveryProofs ------------------------
(***************************************************************************)
(* What an accepted recovery means, for any number of documents, checks    *)
(* and log changes, and whatever kinds of page the game shows.             *)
(***************************************************************************)
EXTENDS BattleRecovery, TLAPS

USE RecoveryAssumption

(* What a read, and what the coordinator remembers of reads, may be.       *)
Reads == Documents \cup {None}

TabType == tab \in Documents /\ expired \in BOOLEAN /\ parsed \in BOOLEAN

FlowType ==
    /\ pc \in {"observe", "enable", "loader", "send", "wait", "stable",
               "inspect", "clear", "verify", "done"}
    /\ verdict \in {"none", "accepted", "refused", "raised"}
    /\ loader \in 0 .. MaxDocs /\ arrived \in BOOLEAN
    /\ pc # "done" => verdict = "none"

ReadType == first \in Reads /\ last \in Reads /\ matches \in 0 .. StableChecks

(* The signature that is being matched was the last probe's, belongs to a  *)
(* new, ready document in the realm, and was read as often as it counts.   *)
(* Beyond the polling it was matched often enough.                         *)
Matched ==
    /\ matches = 0 <=> last = None
    /\ last # None => Eligible(last)
    /\ last # None /\ pc # "done" => streak.sig = last /\ matches <= streak.n
    /\ streak.n \in 0 .. StableChecks + 1
    /\ pc \in {"inspect", "clear", "verify"} => matches = StableChecks

(* Before the polling nothing is matched.                                  *)
NothingMatchedYet ==
    pc \in {"observe", "enable", "loader", "send", "wait"} => last = None

RecoveryInv == TabType /\ FlowType /\ ReadType /\ Matched /\ NothingMatchedYet
               /\ AcceptedWasStable

-----------------------------------------------------------------------------
(* Reading the page.                                                       *)

(* A document is not the absence of one.                                   *)
LEMMA DocumentFacts ==
    ASSUME NEW s \in Documents
    PROVE  s # None /\ s.doc \in 1 .. MaxDocs
  BY DEF Documents, None

(* A probe's signature is a document, of the realm the second read saw.    *)
LEMMA SignatureFacts ==
    ASSUME NEW a \in Documents, NEW b \in Documents
    PROVE  /\ Signature(a, b) \in Documents /\ Signature(a, b) # None
           /\ Signature(a, b).doc = a.doc /\ Signature(a, b).ready = a.ready
           /\ Signature(a, b).kind = a.kind
           /\ Signature(a, b).sameRealm = b.sameRealm
  BY DEF Signature, Documents, None

LEMMA FreshIsDocument ==
    ASSUME NEW d \in 1 .. MaxDocs, NEW same \in BOOLEAN
    PROVE  Fresh(d, same) \in Documents
  BY DEF Fresh, Documents, AllKinds

(* A streak restarts with another signature and counts the same one.       *)
LEMMA StreakFacts ==
    ASSUME NEW s \in Reads, Streak(s), streak.n \in 0 .. StableChecks + 1
    PROVE  /\ streak'.sig = s /\ streak'.n \in 0 .. StableChecks + 1
           /\ s # None /\ s = streak.sig =>
                streak'.n = IF streak.n > StableChecks THEN streak.n ELSE streak.n + 1
           /\ s # None /\ s # streak.sig => streak'.n = 1
  BY DEF Streak

-----------------------------------------------------------------------------
(* RecoveryInv is inductive.                                               *)

LEMMA InitRecoveryInv == Init => RecoveryInv
  <1> SUFFICES ASSUME Init PROVE RecoveryInv
    OBVIOUS
  <1>1. PICK k \in Kinds :
            tab = [Fresh(Clicked, TRUE) EXCEPT !.ready = TRUE, !.kind = k]
    BY DEF Init
  <1>2. k \in AllKinds
    OBVIOUS
  <1>3. Fresh(Clicked, TRUE) \in Documents
    <2>1. Clicked \in 1 .. MaxDocs
      BY DEF Clicked
    <2>. QED  BY <2>1, FreshIsDocument
  <1>4. tab \in Documents
    BY <1>1, <1>2, <1>3 DEF Documents
  <1>5. /\ pc = "observe" /\ verdict = "none" /\ loader = 0
        /\ first = None /\ last = None /\ matches = 0 /\ streak.n = 0
    BY DEF Init
  <1>6. TabType /\ FlowType
    <2>1. arrived \in BOOLEAN /\ expired \in BOOLEAN /\ parsed \in BOOLEAN
      BY Zenon DEF Init
    <2>. QED  BY <1>4, <1>5, <2>1 DEF TabType, FlowType
  <1>7. ReadType /\ Matched /\ NothingMatchedYet
    BY <1>5 DEF ReadType, Reads, Matched, NothingMatchedYet
  <1>. QED
    BY <1>5, <1>6, <1>7 DEF RecoveryInv, AcceptedWasStable

(* The page and the clock touch nothing the coordinator remembers.         *)
LEMMA PageStep ==
    ASSUME RecoveryInv, Page \/ Expire
    PROVE  RecoveryInv'
  <1>1. UNCHANGED coordinatorVars
    BY DEF Page, Expire, Navigate, Render, LogChange, BecomeReady
  <1>2. tab' \in Documents
    <2>1. CASE Navigate
      BY <2>1, FreshIsDocument, DocumentFacts DEF Navigate, RecoveryInv, TabType
    <2>2. CASE Render
      BY <2>2 DEF Render, RecoveryInv, TabType, Documents
    <2>3. CASE LogChange
      BY <2>3 DEF LogChange, RecoveryInv, TabType, Documents
    <2>4. CASE BecomeReady
      BY <2>4 DEF BecomeReady, RecoveryInv, TabType, Documents
    <2>5. CASE Expire
      BY <2>5 DEF Expire, RecoveryInv, TabType
    <2>. QED  BY <2>1, <2>2, <2>3, <2>4, <2>5 DEF Page
  <1>3. expired' \in BOOLEAN /\ arrived' \in BOOLEAN
    BY DEF Page, Expire, Navigate, Render, LogChange, BecomeReady, RecoveryInv,
           TabType, FlowType
  <1>. QED
    BY <1>1, <1>2, <1>3 DEF coordinatorVars, probeVars, observeVars, stableVars,
         RecoveryInv, TabType, FlowType, ReadType, Matched, NothingMatchedYet,
         AcceptedWasStable, Eligible

(* Steps that read nothing only move on, or end.                           *)
LEMMA PlainStep ==
    ASSUME RecoveryInv,
           \/ FirstRead \/ Inspect \/ Enable \/ ReadLoader \/ ReloadRejected
           \/ Loaded \/ WaitEnds \/ Clear \/ AwaitErrs
    PROVE  RecoveryInv'
  <1>1. UNCHANGED <<tab, expired, arrived, parsed, stableVars, streak>>
    BY DEF FirstRead, Inspect, Enable, ReadLoader, ReloadRejected, Loaded, WaitEnds,
           Clear, AwaitErrs, probeVars
  <1>2. first' \in Reads /\ loader' \in 0 .. MaxDocs
    BY DocumentFacts DEF FirstRead, Inspect, Enable, ReadLoader, ReloadRejected, Loaded,
           WaitEnds, Clear, AwaitErrs, probeVars, RecoveryInv, TabType, FlowType, ReadType,
           Reads
  <1>3. pc # "done" /\ verdict = "none"
    BY DEF FirstRead, Inspect, Enable, ReadLoader, ReloadRejected, Loaded, WaitEnds,
           Clear, AwaitErrs, Probing, RecoveryInv, FlowType
  <1>4. \/ pc' = "done" /\ verdict' \in {"refused", "raised"}
        \/ verdict' = "none" /\ pc' = pc
        \/ verdict' = "none" /\ pc = "inspect" /\ pc' \in {"clear", "stable"}
        \/ verdict' = "none" /\ pc = "enable" /\ pc' = "loader"
        \/ verdict' = "none" /\ pc = "loader" /\ pc' = "send"
        \/ verdict' = "none" /\ pc = "wait" /\ pc' = "stable"
        \/ verdict' = "none" /\ pc = "clear" /\ pc' = "verify"
    BY <1>3 DEF FirstRead, Inspect, Enable, ReadLoader, ReloadRejected, Loaded, WaitEnds,
           Clear, AwaitErrs, GoOn, Refuse, End
  <1>. QED
    BY <1>1, <1>2, <1>3, <1>4 DEF stableVars, RecoveryInv, TabType, FlowType, ReadType,
         Matched, NothingMatchedYet, AcceptedWasStable, Eligible

LEMMA ReloadStep ==
    ASSUME RecoveryInv, Reload
    PROVE  RecoveryInv'
  <1>1. tab' \in Documents
    BY FreshIsDocument, DocumentFacts DEF Reload, RecoveryInv, TabType
  <1>2. /\ pc = "send" /\ verdict = "none"
        /\ \/ pc' = "done" /\ verdict' = "refused"
           \/ pc' = "wait" /\ verdict' = "none"
    BY DEF Reload, Refuse, End, GoOn, RecoveryInv, FlowType
  <1>. QED
    BY <1>1, <1>2 DEF Reload, stableVars, probeVars, RecoveryInv, TabType, FlowType, ReadType,
         Matched, NothingMatchedYet, AcceptedWasStable, Eligible

(* A probe of the observation: only another, eligible document is kept.    *)
LEMMA ObserveStep ==
    ASSUME RecoveryInv, Observe
    PROVE  RecoveryInv'
  <1>1. /\ pc = "observe" /\ verdict = "none" /\ last = None /\ matches = 0
        /\ first \in Documents /\ tab \in Documents
    BY DEF Observe, Second, RecoveryInv, FlowType, ReadType, Reads, Matched,
           NothingMatchedYet, TabType
  <1>2. UNCHANGED <<tab, expired, loader, arrived, parsed>> /\ first' = None
    BY DEF Observe, Second
  <1>3. \/ pc' = "done" /\ verdict' = "refused"
        \/ pc' \in {"observe", "enable", "stable"} /\ verdict' = "none"
    BY <1>1 DEF Observe, Refuse, End, GoOn
  <1>. DEFINE s == Signature(first, tab)
              seen == IF Agree(first, tab) THEN s ELSE None
  <1>4. s \in Documents /\ s # None /\ seen \in Reads
    BY <1>1, SignatureFacts DEF Reads
  <1>5. Streak(seen)
    BY DEF Observe
  <1>6. /\ streak'.sig = seen /\ streak'.n \in 0 .. StableChecks + 1
        /\ seen # None => streak'.n >= 1
    <2>. HIDE DEF seen
    <2>1. streak.n \in 0 .. StableChecks + 1
      BY DEF RecoveryInv, Matched
    <2>. QED  BY <1>4, <1>5, <2>1, StreakFacts
  <1>7. TabType' /\ FlowType' /\ first' \in Reads
    BY <1>1, <1>2, <1>3 DEF RecoveryInv, TabType, FlowType, Reads
  <1>8. CASE ~expired /\ Agree(first, tab) /\ s.doc # Clicked /\ Eligible(s)
    <2>1. last' = s /\ matches' = 1 /\ pc' = "stable" /\ seen = s
      BY <1>8 DEF Observe, GoOn
    <2>2. Eligible(last')
      BY <1>8, <2>1
    <2>. HIDE DEF s, seen
    <2>3. ReadType'
      BY <1>4, <1>7, <2>1 DEF ReadType, Reads
    <2>4. Matched' /\ NothingMatchedYet'
      BY <1>4, <1>6, <2>1, <2>2 DEF Matched, NothingMatchedYet, Eligible
    <2>. QED
      BY <1>3, <1>7, <2>1, <2>3, <2>4 DEF RecoveryInv, AcceptedWasStable
  <1>9. CASE ~(~expired /\ Agree(first, tab) /\ s.doc # Clicked /\ Eligible(s))
    <2>1. last' = None /\ matches' = 0
      BY <1>1, <1>9 DEF Observe, stableVars
    <2>. HIDE DEF s, seen
    <2>2. ReadType' /\ Matched' /\ NothingMatchedYet'
      BY <1>3, <1>6, <1>7, <2>1 DEF ReadType, Reads, Matched, NothingMatchedYet
    <2>. QED
      BY <1>3, <1>7, <2>2 DEF RecoveryInv, AcceptedWasStable
  <1>. QED  BY <1>8, <1>9

(* A round of the polling: what does not match starts the count anew.      *)
LEMMA StableStep ==
    ASSUME RecoveryInv, Stable
    PROVE  RecoveryInv'
  <1>. DEFINE s == Signature(first, tab)
              ok == Agree(first, tab) /\ Eligible(s)
              seen == IF Agree(first, tab) THEN s ELSE None
  <1>1. /\ pc = "stable" /\ verdict = "none" /\ first \in Documents /\ tab \in Documents
        /\ streak.n \in 0 .. StableChecks + 1
    BY DEF Stable, Second, RecoveryInv, FlowType, ReadType, Reads, Matched, TabType
  <1>2. UNCHANGED <<tab, expired, loader, arrived, parsed>> /\ first' = None
    BY DEF Stable, Second
  <1>3. s \in Documents /\ s # None /\ seen \in Reads
    BY <1>1, SignatureFacts DEF Reads
  <1>4. Streak(seen)
    BY DEF Stable
  <1>5. streak'.sig = seen /\ streak'.n \in 0 .. StableChecks + 1
    <2>. HIDE DEF seen
    <2>. QED  BY <1>1, <1>3, <1>4, StreakFacts
  <1>6. CASE expired
    BY <1>1, <1>2, <1>5, <1>6 DEF Stable, Refuse, End, stableVars, RecoveryInv, TabType,
         FlowType, ReadType, Reads, Matched, NothingMatchedYet, AcceptedWasStable
  <1>7. CASE ~expired /\ ~ok
    BY <1>1, <1>2, <1>5, <1>7 DEF Stable, NotEligible, GoOn, RecoveryInv, TabType,
         FlowType, ReadType, Reads, Matched, NothingMatchedYet, AcceptedWasStable
  <1>8. CASE ~expired /\ ok
    <2>1. seen = s /\ Eligible(s)
      BY <1>8
    <2>2. /\ last' = s /\ verdict' = "none"
          /\ matches' = IF s # last THEN 1
                        ELSE IF matches < StableChecks THEN matches + 1 ELSE matches
          /\ pc' \in {"stable", "inspect", "clear"}
          /\ pc' # "stable" => ~(matches' < StableChecks)
      BY <1>1, <1>8 DEF Stable, GoOn
    <2>. HIDE DEF s, seen
    <2>3. matches' \in 1 .. StableChecks
      BY <1>3, <2>2 DEF RecoveryInv, ReadType, Matched
    <2>4. matches' <= streak'.n
      BY <1>1, <1>3, <1>4, <1>5, <2>1, <2>2, <2>3, StreakFacts
         DEF RecoveryInv, ReadType, Matched
    <2>. QED
      BY <1>1, <1>2, <1>3, <1>5, <2>1, <2>2, <2>3, <2>4 DEF RecoveryInv, TabType, FlowType,
           ReadType, Reads, Matched, NothingMatchedYet, AcceptedWasStable
  <1>. QED  BY <1>6, <1>7, <1>8

(* The read after the cleanup is one more of the same, or ends it all.     *)
LEMMA VerifyStep ==
    ASSUME RecoveryInv, Verify
    PROVE  /\ RecoveryInv'
           /\ verdict' = "accepted" =>
                /\ last # None /\ Eligible(last) /\ Agree(first, tab)
                /\ Signature(first, tab) = last
                /\ first \in Documents /\ tab \in Documents
  <1>. DEFINE s == Signature(first, tab)
              seen == IF Agree(first, tab) THEN s ELSE None
  <1>1. /\ pc = "verify" /\ verdict = "none" /\ first \in Documents /\ tab \in Documents
        /\ streak.n \in 0 .. StableChecks + 1
        /\ matches = StableChecks /\ last # None /\ Eligible(last)
        /\ streak.sig = last /\ matches <= streak.n
    BY DEF Verify, Second, RecoveryInv, FlowType, ReadType, Reads, Matched, TabType
  <1>2. UNCHANGED <<tab, expired, loader, arrived, stableVars>> /\ first' = None
        /\ parsed' \in BOOLEAN
    BY DEF Verify, Second, Discards, RecoveryInv, TabType
  <1>3. s \in Documents /\ s # None /\ seen \in Reads
    BY <1>1, SignatureFacts DEF Reads
  <1>4. Streak(seen)
    BY DEF Verify
  <1>5. streak'.sig = seen /\ streak'.n \in 0 .. StableChecks + 1
    <2>. HIDE DEF seen
    <2>. QED  BY <1>1, <1>3, <1>4, StreakFacts
  <1>6. /\ pc' = "done" /\ verdict' \in {"accepted", "refused"}
        /\ verdict' = "accepted" => Agree(first, tab) /\ s = last
    BY DEF Verify, End, Refuse, Unaltered
  <1>7. verdict' = "accepted" => streak'.n = StableChecks + 1
    <2>. SUFFICES ASSUME verdict' = "accepted" PROVE streak'.n = StableChecks + 1
      OBVIOUS
    <2>1. seen = s /\ s = streak.sig
      BY <1>1, <1>6
    <2>. HIDE DEF s, seen
    <2>. QED  BY <1>1, <1>3, <1>4, <2>1, StreakFacts
  <1>8. RecoveryInv'
    BY <1>1, <1>2, <1>5, <1>6, <1>7 DEF stableVars, RecoveryInv, TabType, FlowType,
         ReadType, Reads, Matched, NothingMatchedYet, AcceptedWasStable
  <1>. QED  BY <1>1, <1>6, <1>8

LEMMA RecoveryInvStep == RecoveryInv /\ [Next]_vars => RecoveryInv'
  <1> SUFFICES ASSUME RecoveryInv, [Next]_vars PROVE RecoveryInv'
    OBVIOUS
  <1>1. CASE UNCHANGED vars
    BY <1>1 DEF vars, RecoveryInv, TabType, FlowType, ReadType, Reads, Matched,
         NothingMatchedYet, AcceptedWasStable, Eligible
  <1>2. CASE Page \/ Expire
    BY <1>2, PageStep
  <1>3. CASE Coordinator
    BY <1>3, PlainStep, ReloadStep, ObserveStep, StableStep, VerifyStep DEF Coordinator
  <1>. QED  BY <1>1, <1>2, <1>3 DEF Next

-----------------------------------------------------------------------------
(* The theorems.                                                           *)

(* Whatever the page does, an accepted state was read as often as          *)
(* configured in a row and once more after the cleanup.                    *)
THEOREM AcceptsOnlyStable == Spec => []AcceptedWasStable
  <1>1. RecoveryInv => AcceptedWasStable
    BY DEF RecoveryInv
  <1>. QED  BY <1>1, InitRecoveryInv, RecoveryInvStep, PTL DEF Spec

(* Only the last read accepts, and what it sees is what was matched.       *)
LEMMA OnlyVerifyAccepts ==
    ASSUME RecoveryInv, [Next]_vars, Accepts
    PROVE  Verify
  <1>1. verdict # verdict' /\ verdict' = "accepted"
    BY DEF Accepts
  <1>2. Coordinator
    BY <1>1 DEF Next, vars, Page, Navigate, Render, LogChange, BecomeReady, Expire,
         coordinatorVars
  <1>. QED
    BY <1>1, <1>2 DEF Coordinator, FirstRead, Observe, Stable, Inspect, Enable, ReadLoader,
         Reload, ReloadRejected, Loaded, WaitEnds, Clear, AwaitErrs, End, Refuse, GoOn

(* A recovery is accepted over the document it verified, a new and ready   *)
(* one in the expected realm, however often the page changes underneath.   *)
THEOREM AcceptsOnlyCurrent == Spec => AcceptedIsCurrent
  <1>. DEFINE Current ==
         /\ tab.doc # Clicked /\ tab.sameRealm /\ tab.ready
         /\ tab.doc = last.doc /\ Markers(tab.kind) = Markers(last.kind)
         /\ parsed' => Markers(tab.kind) = "complete"
  <1>1. RecoveryInv /\ [Next]_vars => [Accepts => Current]_vars
    <2> SUFFICES ASSUME RecoveryInv, [Next]_vars, Accepts PROVE Current
      OBVIOUS
    <2>1. /\ Eligible(last) /\ Agree(first, tab) /\ Signature(first, tab) = last
          /\ first \in Documents /\ tab \in Documents
      BY OnlyVerifyAccepts, VerifyStep DEF Accepts
    <2>2. /\ last.doc = first.doc /\ last.ready = first.ready
          /\ last.kind = first.kind /\ last.sameRealm = tab.sameRealm
      BY <2>1, SignatureFacts
    <2>3. parsed' => Markers(tab.kind) = "complete"
      BY <2>1, <2>2, OnlyVerifyAccepts DEF Verify, Accepts, Discards, End, Refuse, Agree,
         Markers
    <2>. QED  BY <2>1, <2>2, <2>3 DEF Eligible, Agree
  <1>. QED
    BY <1>1, InitRecoveryInv, RecoveryInvStep, PTL DEF Spec, AcceptedIsCurrent

=============================================================================
