----------------------------- MODULE AuditTrail -----------------------------
(***************************************************************************)
(* The correlated audit trail one submitted action keeps in memory         *)
(* (audit.py, _ActionAuditTrail) and the lifecycle events it publishes.    *)
(*                                                                         *)
(* A trail is the set of its Boolean flags that are true.  Each mark_* or  *)
(* confirm_* method is split in two: the sequence of events the call       *)
(* publishes from a given trail (empty when the method returns early) and  *)
(* the flag it sets once the write was accepted.                           *)
(***************************************************************************)
EXTENDS Sequences

(* The event types of one action, in the words of the flag each one sets;  *)
(* "recovered" is the reconciliation event the session publishes itself    *)
(* after an accepted reload (evidence SAME_BROWSER_RECOVERY_STABLE_STATE). *)
Events == {"intent", "submitted", "notSubmitted", "receipt", "unknown",
           "reconciled", "recovered"}

TrailFlags == Events \ {"recovered"}

NewTrail == {}

Resolved(trail) ==
    trail \cap {"notSubmitted", "receipt", "unknown", "reconciled"} # {}

(* Which events a call on the trail publishes.  The comparisons are the     *)
(* early returns of the six methods: a receipt is refused after any other  *)
(* resolution, a reconciliation still follows an unknown outcome.          *)
Accepts(trail, event) ==
    CASE event = "intent"       -> "intent" \notin trail
      [] event = "submitted"    -> "submitted" \notin trail /\ ~Resolved(trail)
      [] event = "notSubmitted" -> "submitted" \notin trail /\ ~Resolved(trail)
      [] event = "receipt"      -> ~Resolved(trail)
      [] event = "unknown"      -> ~Resolved(trail)
      [] event = "reconciled"   ->
            trail \cap {"reconciled", "receipt", "notSubmitted"} = {}

(* The events published by asking for event, and the trail once they are   *)
(* written.                                                                *)
Published(trail, event) == IF Accepts(trail, event) THEN <<event>> ELSE <<>>
Marked(trail, event) == IF Accepts(trail, event) THEN trail \cup {event} ELSE trail
=============================================================================
