-------------------------- MODULE ActionLifecycle --------------------------
(***************************************************************************)
(* What the element action manager promises about every battle action,     *)
(* without saying how: an action is one token, its intent is on record     *)
(* before the one click it may cause, at most one token is unsettled, and  *)
(* nothing new is intended while an earlier outcome is unknown.            *)
(***************************************************************************)
CONSTANT Tokens

VARIABLES phase,    \* the last lifecycle event on record for each token
          clicked   \* whether the token's click was ever started

vars == <<phase, clicked>>

Open == {"intent", "submitted"}
Settled == {"notSubmitted", "receipt", "reconciled", "recovered"}
Phases == {"new", "unknown"} \cup Open \cup Settled

Init == /\ phase = [t \in Tokens |-> "new"]
        /\ clicked = [t \in Tokens |-> FALSE]

(* A new intent needs every other action to be settled.                    *)
Intend(t) == /\ phase[t] = "new"
             /\ \A u \in Tokens \ {t} : phase[u] \in {"new"} \cup Settled
             /\ phase' = [phase EXCEPT ![t] = "intent"]
             /\ UNCHANGED clicked

(* The click is started once, under a recorded intent.                     *)
Click(t) == /\ phase[t] = "intent"
            /\ ~clicked[t]
            /\ clicked' = [clicked EXCEPT ![t] = TRUE]
            /\ UNCHANGED phase

(* The dispatch of the action's own request was seen.                      *)
Submitted(t) == /\ phase[t] = "intent" /\ clicked[t]
                /\ phase' = [phase EXCEPT ![t] = "submitted"]
                /\ UNCHANGED clicked

(* The action is given up before its click.                                *)
Abort(t) == /\ phase[t] = "intent" /\ ~clicked[t]
            /\ phase' = [phase EXCEPT ![t] = "notSubmitted"]
            /\ UNCHANGED clicked

(* An authoritative receipt, at once or after an error on the way.         *)
Confirm(t) == /\ phase[t] \in Open /\ clicked[t]
              /\ \E e \in {"receipt", "reconciled"} :
                    phase' = [phase EXCEPT ![t] = e]
              /\ UNCHANGED clicked

(* The action ends with no receipt.                                        *)
Unknown(t) == /\ phase[t] \in Open /\ clicked[t]
              /\ phase' = [phase EXCEPT ![t] = "unknown"]
              /\ UNCHANGED clicked

(* A verified new document settles an unknown outcome.                     *)
Recover(t) == /\ phase[t] = "unknown"
              /\ phase' = [phase EXCEPT ![t] = "recovered"]
              /\ UNCHANGED clicked

Next == \E t \in Tokens : \/ Intend(t) \/ Click(t) \/ Submitted(t) \/ Abort(t)
                          \/ Confirm(t) \/ Unknown(t) \/ Recover(t)

Spec == Init /\ [][Next]_vars
=============================================================================
