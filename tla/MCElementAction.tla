-------------------------- MODULE MCElementAction --------------------------
EXTENDS ElementAction

(* Nothing the environment does matters once the last token is settled.    *)
Unfinished == \/ pc # "idle"
              \/ MayBegin /\ token < MaxActions
              \/ outcome = "unknown" /\ evidence # {}

(* A turn, and then another turn or the floor it cleared, with a sound log. *)
TurnFirst == /\ Unfinished
             /\ bus = "healthy"
             /\ kind[1] = "turn"
=============================================================================
