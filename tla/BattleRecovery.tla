--------------------------- MODULE BattleRecovery ---------------------------
(***************************************************************************)
(* The recovery coordinator: after an unknown action with eligible         *)
(* evidence it reads the document until it changed or stayed, reloads it   *)
(* at most once, and accepts only a new, ready, same-realm document that   *)
(* several reads in a row show unchanged (recovery.py,                     *)
(* BattleRecoveryCoordinator.recover; _page_lifecycle.py).                 *)
(*                                                                         *)
(* One action is what Python does between two awaits.  A probe is two      *)
(* reads of the page; what the second one returns is judged at once.       *)
(***************************************************************************)
EXTENDS Naturals

CONSTANTS Kinds,        \* what a document of the game may show
          AutoChecks,   \* auto_reload_checks
          StableChecks, \* stable_checks
          MaxDocs,      \* documents the tab may load
          MaxRevision   \* changes of one document's log

AllKinds == {"blank", "shell", "active", "next", "complete", "challenge"}

ASSUME RecoveryAssumption ==
    /\ Kinds \subseteq AllKinds /\ AutoChecks \in Nat \ {0}
    /\ StableChecks \in Nat \ {0, 1}
    /\ MaxDocs \in Nat \ {0} /\ MaxRevision \in Nat

VARIABLES
    tab,       \* the document in the tab
    expired,   \* the recovery deadline has passed
    pc,        \* the await the coordinator stands at
    first,     \* the first read of the probe in progress
    checks,    \* observation checks of this incident
    check,     \* observation checks made
    unchanged, \* ... that found the clicked document
    last,      \* the signature of the last eligible read
    matches,   \* reads in a row with that signature
    loader,    \* the main frame's loader when lifecycle events were enabled
    arrived,   \* a later main-frame loader reached DOMContentLoaded
    verdict,   \* how the recovery ended
    parsed,    \* the battle parsed before the click is still held
    streak     \* history: the last probe's signature, and how often in a row

probeVars == <<first, streak>>
stableVars == <<last, matches>>
observeVars == <<checks, check, unchanged>>
vars == <<tab, expired, pc, first, checks, check, unchanged, last, matches,
          loader, arrived, verdict, parsed, streak>>

Clicked == 1         \* pre_click_document_id: the document the click was in
None == [doc |-> 0]  \* no read, and no signature

Documents == [doc : 1 .. MaxDocs, sameRealm : BOOLEAN, ready : BOOLEAN,
              kind : AllKinds, revision : 0 .. MaxRevision]

Fresh(d, same) == [doc |-> d, sameRealm |-> same, ready |-> FALSE,
                   kind |-> "blank", revision |-> 0]

TypeOK ==
    /\ tab \in Documents /\ expired \in BOOLEAN
    /\ pc \in {"observe", "enable", "loader", "send", "wait", "stable",
               "inspect", "clear", "verify", "done"}
    /\ first \in Documents \cup {None}
    /\ checks \in {1, AutoChecks} /\ check \in 0 .. checks
    /\ unchanged \in 0 .. check
    /\ last \in Documents \cup {None}
    /\ matches \in 0 .. StableChecks
    /\ loader \in 0 .. MaxDocs /\ arrived \in BOOLEAN /\ parsed \in BOOLEAN
    /\ verdict \in {"none", "accepted", "refused", "raised"}
    /\ streak \in [sig : Documents \cup {None}, n : 0 .. StableChecks + 1]
    /\ (matches = 0) = (last = None)

(* A stalled request is observed once, a lost connection AutoChecks times. *)
Init ==
    /\ tab \in {[Fresh(Clicked, TRUE) EXCEPT !.ready = TRUE, !.kind = k] : k \in Kinds}
    /\ expired = FALSE /\ pc = "observe" /\ first = None
    /\ checks \in {1, AutoChecks} /\ check = 0 /\ unchanged = 0
    /\ last = None /\ matches = 0 /\ loader = 0 /\ arrived = FALSE
    /\ verdict = "none" /\ parsed = TRUE /\ streak = [sig |-> None, n |-> 0]

-----------------------------------------------------------------------------
(* Evidence.                                                               *)

(* The markers both reads report: a shell looks like an active battle.     *)
Markers(kind) == IF kind = "shell" THEN "active" ELSE kind

(* Faulty variant: the two reads may come from different documents.        *)
SameMarkers(a, b) == a.ready = b.ready /\ Markers(a.kind) = Markers(b.kind)

(* _reconcile_recovery_state: did both reads see one document?             *)
Agree(a, b) ==
    /\ a.doc = b.doc /\ a.ready = b.ready
    /\ Markers(a.kind) = Markers(b.kind)

(* The realm is the second read's, everything else the first one's.        *)
Signature(a, b) == [a EXCEPT !.sameRealm = b.sameRealm]

(* _eligible_state *)
Eligible(s) ==
    /\ s.doc # Clicked /\ s.sameRealm /\ s.ready
    /\ s.kind \in {"active", "next", "complete", "challenge"}

Streak(s) == streak' = [sig |-> s, n |-> IF s = None THEN 0
                                         ELSE IF s # streak.sig THEN 1
                                         ELSE IF streak.n > StableChecks THEN streak.n
                                         ELSE streak.n + 1]

-----------------------------------------------------------------------------
(* Endings.                                                                *)

End(v) == pc' = "done" /\ verdict' = v
Refuse == End("refused")
GoOn(p) == pc' = p /\ UNCHANGED verdict

(* An await fails.  Losing the browser generation, or a cancellation, is   *)
(* raised; any other error refuses the recovery.                           *)
AwaitErrs ==
    /\ pc # "done" /\ \/ Refuse \/ End("raised")
    /\ UNCHANGED <<tab, expired, loader, arrived, parsed, observeVars, stableVars, probeVars>>

-----------------------------------------------------------------------------
(* Probes: read_recovery_state.                                            *)

Probing == {"observe", "stable", "verify"}

FirstRead ==
    /\ pc \in Probing /\ first = None
    /\ IF expired THEN Refuse /\ UNCHANGED first
       ELSE first' = tab /\ GoOn(pc)
    /\ UNCHANGED <<tab, expired, loader, arrived, parsed, observeVars, stableVars, streak>>

Second(p) == pc = p /\ first # None /\ first' = None

(* One check of _observe_document_change.  Mismatched reads count as a     *)
(* check that confirms nothing, so they end in refusal or in a change.     *)
Observe ==
    /\ Second("observe") /\ check' = check + 1
    /\ LET s == Signature(first, tab)
           changed == Agree(first, tab) /\ s.doc # Clicked
           same == Agree(first, tab) /\ s.doc = Clicked
       IN  /\ Streak(IF Agree(first, tab) THEN s ELSE None)
           /\ unchanged' = IF same THEN unchanged + 1 ELSE unchanged
           /\ IF ~expired /\ changed /\ Eligible(s) THEN last' = s /\ matches' = 1
              ELSE UNCHANGED stableVars
           /\ IF expired THEN Refuse
              ELSE IF changed THEN GoOn("stable")
              ELSE IF check' < checks THEN GoOn("observe")
              ELSE IF unchanged' = checks THEN GoOn("enable") ELSE Refuse
    /\ UNCHANGED <<tab, expired, checks, loader, arrived, parsed>>

(* Faulty variant: what was matched before another state still counts.     *)
KeepsMatches == UNCHANGED stableVars
NotEligible == last' = None /\ matches' = 0

(* One round of _wait_for_stable_state.                                    *)
Stable ==
    /\ Second("stable")
    /\ LET s == Signature(first, tab)
           ok == Agree(first, tab) /\ Eligible(s)
       IN  /\ Streak(IF Agree(first, tab) THEN s ELSE None)
           /\ IF expired THEN Refuse /\ UNCHANGED stableVars
              ELSE IF ~ok THEN NotEligible /\ GoOn("stable")
              ELSE /\ last' = s
                   /\ matches' = IF s # last THEN 1
                                 ELSE IF matches < StableChecks THEN matches + 1
                                 ELSE matches
                   /\ GoOn(IF matches' < StableChecks THEN "stable"
                           ELSE IF s.kind = "active" THEN "inspect" ELSE "clear")
    /\ UNCHANGED <<tab, expired, loader, arrived, parsed, observeVars>>

(* An active document must also parse with a live monster.  Without one,   *)
(* or after a parse error, the polling goes on with its matches.           *)
Inspect ==
    /\ pc = "inspect"
    /\ IF expired THEN Refuse
       ELSE \/ tab.kind = "active" /\ GoOn("clear")
            \/ GoOn("stable")
    /\ UNCHANGED <<tab, expired, loader, arrived, parsed, observeVars, stableVars, probeVars>>

-----------------------------------------------------------------------------
(* The one reload: reload_current_page with a lifecycle waiter.            *)

Enable ==
    /\ pc = "enable"
    /\ IF expired THEN Refuse ELSE GoOn("loader")
    /\ UNCHANGED <<tab, expired, loader, arrived, parsed, observeVars, stableVars, probeVars>>

ReadLoader ==
    /\ pc = "loader" /\ loader' = tab.doc
    /\ IF expired THEN Refuse ELSE GoOn("send")
    /\ UNCHANGED <<tab, expired, arrived, parsed, observeVars, stableVars, probeVars>>

(* Page.reload names the loader it may reload, and fails for another one.  *)
Reload ==
    /\ pc = "send" /\ tab.doc = loader /\ tab.doc < MaxDocs
    /\ \E same \in BOOLEAN : tab' = Fresh(tab.doc + 1, same)
    /\ IF expired THEN Refuse ELSE GoOn("wait")
    /\ UNCHANGED <<expired, loader, arrived, parsed, observeVars, stableVars, probeVars>>

Loaded ==
    /\ pc = "wait" /\ arrived /\ GoOn("stable")
    /\ UNCHANGED <<tab, expired, loader, arrived, parsed, observeVars, stableVars, probeVars>>

ReloadRejected ==
    /\ pc = "send" /\ tab.doc # loader /\ Refuse
    /\ UNCHANGED <<tab, expired, loader, arrived, parsed, observeVars, stableVars, probeVars>>

(* Faulty variant: the waiter's future is awaited without a timeout.       *)
WaitsForArrival ==
    /\ pc \in {"send", "wait"} /\ expired /\ arrived /\ Refuse
    /\ UNCHANGED <<tab, expired, loader, arrived, parsed, observeVars, stableVars, probeVars>>

WaitEnds ==
    /\ pc \in {"send", "wait"} /\ expired /\ Refuse
    /\ UNCHANGED <<tab, expired, loader, arrived, parsed, observeVars, stableVars, probeVars>>

-----------------------------------------------------------------------------
(* Acceptance.                                                             *)

CleanedSame == tab.doc = last.doc

(* clear_page_action_state returns the document it cleared.                *)
Clear ==
    /\ pc = "clear"
    /\ IF ~expired /\ CleanedSame THEN GoOn("verify") ELSE Refuse
    /\ UNCHANGED <<tab, expired, loader, arrived, parsed, observeVars, stableVars, probeVars>>

Unaltered(s) == s = last

(* Only a completed battle needs no new parse.                             *)
Discards(s) == parsed' = (parsed /\ s.kind = "complete")

Verify ==
    /\ Second("verify")
    /\ LET s == Signature(first, tab)
       IN  /\ Streak(IF Agree(first, tab) THEN s ELSE None)
           /\ IF ~expired /\ Agree(first, tab) /\ Unaltered(s)
              THEN End("accepted") /\ Discards(s) ELSE Refuse /\ UNCHANGED parsed
    /\ UNCHANGED <<tab, expired, loader, arrived, observeVars, stableVars>>

-----------------------------------------------------------------------------
(* The tab and the clock.                                                  *)

coordinatorVars == <<pc, probeVars, observeVars, stableVars, loader, verdict, parsed>>

(* The game reloads its page, or somebody navigates.                       *)
Navigate ==
    /\ tab.doc < MaxDocs
    /\ \E same \in BOOLEAN : tab' = Fresh(tab.doc + 1, same)
    /\ UNCHANGED <<expired, arrived, coordinatorVars>>

Render ==
    /\ \E kind \in Kinds : tab' = [tab EXCEPT !.kind = kind]
    /\ UNCHANGED <<expired, arrived, coordinatorVars>>

LogChange ==
    /\ tab.revision < MaxRevision /\ tab' = [tab EXCEPT !.revision = @ + 1]
    /\ UNCHANGED <<expired, arrived, coordinatorVars>>

(* DOMContentLoaded, which the waiter hears for a loader after its own.    *)
BecomeReady ==
    /\ ~tab.ready /\ tab' = [tab EXCEPT !.ready = TRUE]
    /\ arrived' = (arrived \/ (pc \in {"send", "wait"} /\ tab.doc # loader))
    /\ UNCHANGED <<expired, coordinatorVars>>

Expire == ~expired /\ expired' = TRUE /\ UNCHANGED <<tab, arrived, coordinatorVars>>

Page == pc # "done" /\ (Navigate \/ Render \/ LogChange \/ BecomeReady)

(* What the coordinator does: every await has a protocol timeout.          *)
Coordinator ==
    \/ FirstRead \/ Observe \/ Stable \/ Inspect \/ Enable \/ ReadLoader \/ Reload
    \/ ReloadRejected \/ Loaded \/ WaitEnds \/ Clear \/ Verify \/ AwaitErrs

Next == Coordinator \/ Page \/ Expire

Spec == Init /\ [][Next]_vars

(* A recovery that is not cancelled ends: its awaits are bounded and the   *)
(* deadline is wall-clock time.  No error is needed to end it.             *)
FairSpec ==
    /\ Spec /\ WF_vars(Expire)
    /\ WF_vars(FirstRead \/ Observe \/ Stable \/ Inspect \/ Enable \/ ReadLoader
               \/ Reload \/ ReloadRejected \/ WaitEnds \/ Clear \/ Verify)

-----------------------------------------------------------------------------
(* Properties.                                                             *)

Accepts == verdict # "accepted" /\ verdict' = "accepted"

(* A recovery is accepted only while the tab still holds a document loaded *)
(* after the click, in the expected realm, ready, and showing the kind of  *)
(* state that was verified; and no turn can then be prepared from the      *)
(* battle parsed before the click.                                         *)
AcceptedIsCurrent ==
    [][Accepts => /\ tab.doc # Clicked /\ tab.sameRealm /\ tab.ready
                  /\ tab.doc = last.doc /\ Markers(tab.kind) = Markers(last.kind)
                  /\ parsed' => Markers(tab.kind) = "complete"]_vars

(* An accepted state was read StableChecks times in a row and once more    *)
(* after the cleanup, with no other reading in between.                    *)
AcceptedWasStable == verdict = "accepted" => streak.n = StableChecks + 1

(* The recovery ends.                                                      *)
RecoveryEnds == <>(pc = "done")

=============================================================================
