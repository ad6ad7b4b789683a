------------------------- MODULE PonyChartChallenge -------------------------
(* One PonyChart after another: PonyChart.check of hv_battle_ponychart.py.   *)
(*                                                                           *)
(* An attempt arms its monitor, captures the displayed image, has it         *)
(* classified, records its intent, and has one script select the labels and  *)
(* submit them.  It ends confirmed, expired without a submission, or by an   *)
(* error.  Each action is what Python or the page does between two awaits.   *)
EXTENDS PonyChartPage, AuditTrail

VARIABLES
    pc,         \* where the current attempt stands
    attempt,    \* its number, 0 before the first
    due,        \* the deadline in force has passed
    seen,       \* the image state read when the image was complete
    body,       \* the request whose response body was taken
    captured,   \* attempt |-> the capture its answer was predicted from
    reply,      \* the answer of the submit script
    why,        \* what the receipt or the expiration is looked for after
    trail,      \* its audit trail
    journal,    \* attempt |-> the events the subscriber took
    latched,    \* the event bus has failed
    retired,    \* the browser generation is given up
    outcome     \* attempt |-> how it ended

vars == <<pageVars, pc, attempt, due, seen, body, captured, reply, why, trail, journal, latched,
          retired, outcome>>

NoImage == [doc |-> 0, src |-> FirstSource, load |-> 0]
NoCapture == [doc |-> 0, load |-> 0, shown |-> 0]

Init ==
    /\ PageInit
    /\ pc = "idle" /\ attempt = 0 /\ due = FALSE
    /\ seen = NoImage /\ body = 0
    /\ captured = [a \in Attempts |-> NoCapture]
    /\ reply = NoReply /\ why = "none"
    /\ trail = NewTrail /\ journal = [a \in Attempts |-> <<>>]
    /\ latched = FALSE /\ retired = FALSE
    /\ outcome = [a \in Attempts |-> "none"]

Steps == {"idle", "arm", "image", "match", "verify", "predict", "select", "ack", "receipt", "natural"}

(* The variables of Python that a step inside an attempt leaves alone. *)
capture == <<seen, body, captured>>
audit == <<trail, journal, latched>>

Open == "intent" \in trail /\ ~Resolved(trail)
-----------------------------------------------------------------------------
(* Going on, and ending *)

(* An event is published and then `next` holds; if the subscriber fails, the *)
(* error ends the attempt, and the bus takes no more.                        *)
Publish(event, next) ==
    \/ /\ ~latched \/ Published(trail, event) = <<>>
       /\ journal' = [journal EXCEPT ![attempt] = @ \o Published(trail, event)]
       /\ trail' = Marked(trail, event)
       /\ next
       /\ UNCHANGED latched
    \/ /\ Published(trail, event) # <<>>
       /\ latched' = TRUE
       /\ pc' = "idle" /\ outcome' = [outcome EXCEPT ![attempt] = "raised"]
       /\ UNCHANGED <<journal, trail, reply, why, due>>

(* Mutant of Goto: its arguments are swapped. *)
GotoSwapped(p, w) == pc' = w /\ why' = p /\ due' = FALSE /\ reply' = NoReply /\ UNCHANGED outcome
Goto(p, w) == pc' = p /\ why' = w /\ due' = FALSE /\ reply' = NoReply /\ UNCHANGED outcome

Ends(result) ==
    /\ pc' = "idle" /\ outcome' = [outcome EXCEPT ![attempt] = result]
    /\ reply' = NoReply /\ why' = "none" /\ due' = FALSE

(* except BaseException of check: an open intent becomes an unknown outcome. *)
Raise ==
    IF Open THEN Publish("unknown", Ends("raised")) ELSE Ends("raised") /\ UNCHANGED audit

(* A cancellation, a live browser timeout, or an error nothing handles. *)
Interrupted ==
    /\ pc # "idle"
    /\ Raise
    /\ retired' \in {retired, TRUE}
    /\ seen' = NoImage /\ body' = 0
    /\ UNCHANGED <<pageVars, attempt, captured>>

DeadlinePasses ==
    /\ pc # "idle" /\ ~due
    /\ due' = TRUE
    /\ UNCHANGED <<pageVars, pc, attempt, capture, reply, why, audit, retired, outcome>>
-----------------------------------------------------------------------------
(* Before the answer *)

Probe ==
    /\ pc = "idle" /\ ~retired /\ attempt < MaxAttempts
    /\ page.submit
    /\ pc' = "arm" /\ attempt' = attempt + 1 /\ due' = FALSE
    /\ trail' = NewTrail
    /\ UNCHANGED <<pageVars, capture, reply, why, journal, latched, retired, outcome>>

(* The preparation deadline runs from here. *)
ArmMonitor ==
    /\ pc = "arm"
    /\ \/ /\ page.submit
          /\ Arm(attempt)
          /\ Goto("image", "none")
       \/ /\ ~page.submit
          /\ Ends("expired")
          /\ UNCHANGED <<page, stored>>
    /\ UNCHANGED <<request, storage, flight, history, attempt, capture, audit, retired>>

(* _wait_for_image_loaded; an image that is not complete is waited for. *)
ImageReady ==
    /\ pc = "image" /\ ~due
    /\ GuardImage(attempt)
    /\ seen' = [doc |-> page.doc, src |-> Current.src, load |-> Len(request)]
    /\ pc' = "match"
    /\ UNCHANGED <<request, stored, storage, flight, history, attempt, due, body, captured, reply, why,
                   audit, retired, outcome>>

(* The one settled request that fits, and its body.  Events of what the tab  *)
(* did since the image was complete may not have arrived yet.                *)
MatchRequest ==
    /\ pc = "match" /\ ~due
    /\ \E doc \in {seen.doc, page.doc}, n \in seen.load .. Len(request) :
        LET fit == Matching(doc, seen.src, n)
        IN  /\ fit # {} /\ \A i \in fit : request[i].done # "no"
            /\ IF Cardinality(fit) = 1 /\ \A i \in fit : request[i].done = "ok"
               THEN /\ body' \in fit
                    /\ pc' = "verify"
                    /\ UNCHANGED <<due, reply, why, audit, outcome>>
                    /\ UNCHANGED seen
               ELSE Raise /\ seen' = NoImage /\ UNCHANGED body
    /\ UNCHANGED <<pageVars, attempt, captured, retired>>

(* _verify_raw_response_receipt takes the guard away. *)
Verify ==
    /\ pc = "verify" /\ ~due
    /\ page' = [page EXCEPT !.guard = NoGuard]
    /\ IF Stable(attempt, seen)
       THEN /\ captured' = [captured EXCEPT ![attempt] =
                    [doc |-> page.doc, load |-> body, shown |-> page.load]]
            /\ request' = [request EXCEPT ![body].taken = TRUE]
            /\ pc' = "predict"
            /\ UNCHANGED <<due, reply, why, audit, outcome>>
       ELSE Raise /\ UNCHANGED <<captured, request>>
    /\ seen' = NoImage /\ body' = 0
    /\ UNCHANGED <<stored, storage, flight, history, attempt, retired>>

CaptureExpires ==
    /\ pc \in {"arm", "image", "match", "verify"} /\ due
    /\ Raise
    /\ seen' = NoImage /\ body' = 0
    /\ UNCHANGED <<pageVars, attempt, captured, retired>>

(* _predict_labels, then the intent. *)
Predict ==
    /\ pc = "predict"
    /\ \/ ~due /\ Publish("intent", Goto("select", "none"))
       \/ Goto("natural", "prediction") /\ UNCHANGED audit
    /\ UNCHANGED <<pageVars, attempt, capture, retired>>
-----------------------------------------------------------------------------
(* _select_and_submit_answer *)

SendScript ==
    /\ pc = "select" /\ ~due
    /\ flight' = [flight EXCEPT ![attempt] = @ + 1]
    /\ pc' = "ack" /\ reply' = NoReply
    /\ UNCHANGED <<page, request, stored, storage, history, attempt, due, capture, why, audit, retired, outcome>>

(* Mutant of SelectExpires: a form that is not ready is polled on. *)
PollsOn ==
    /\ pc = "select" /\ due
    /\ pc' = "ack" /\ reply' = NoReply /\ flight' = [flight EXCEPT ![attempt] = @ + 1]
    /\ UNCHANGED <<page, request, stored, storage, history, attempt, due, capture, why, audit, retired, outcome>>

(* The loop ends between two scripts, all of which were answered; a deadline *)
(* that passes within its last check counts as an unknown outcome.           *)
SelectExpires ==
    /\ pc = "select" /\ due
    /\ \/ Publish("notSubmitted", Goto("natural", "notReady"))
       \/ Goto("receipt", "unknown") /\ UNCHANGED audit
    /\ UNCHANGED <<pageVars, attempt, capture, retired>>

(* The page runs a script, whether or not Python still waits for it. *)
Land(a) ==
    /\ flight[a] > 0
    /\ flight' = [flight EXCEPT ![a] = @ - 1]
    /\ \E run \in Runs(a) :
           /\ RunScript(a, run)
           /\ reply' = IF pc = "ack" /\ attempt = a /\ reply = NoReply THEN run.reply ELSE reply
    /\ UNCHANGED <<request, storage, pc, attempt, due, capture, why, audit, retired, outcome>>

(* Mutant of Retriable: the status is trusted without the proof. *)
RetriableUnproved == reply.status \in {"retriable", "evidence-missing"}

(* An acknowledgement that allows another script. *)
Retriable == reply.status = "retriable" /\ Proves(reply.monitor)

(* What Python makes of the answer. *)
Acknowledged ==
    /\ pc = "ack" /\ reply # NoReply
    /\ LET status == reply.status
           interrupted == IF Open THEN Goto("receipt", "unknown") ELSE Ends("raised")
       IN  \/ /\ status = "absent"
              /\ IF Proves(reply.monitor) THEN Publish("notSubmitted", Goto("natural", "absent"))
                 ELSE Goto("natural", "absent") /\ UNCHANGED audit
           \/ /\ status = "submitted"
              /\ Publish("submitted", Goto("receipt", "submitted"))
           \/ /\ Retriable
              /\ pc' = "select" /\ UNCHANGED <<due, reply, why, audit, outcome>>
           \/ /\ status \notin {"absent", "submitted"} /\ ~Retriable
              /\ IF reply.monitor.evidence = "exact" THEN Publish("submitted", Goto("receipt", "unknown"))
                 ELSE IF Proves(reply.monitor) THEN Publish("notSubmitted", Ends("raised"))
                 ELSE interrupted /\ UNCHANGED audit
    /\ UNCHANGED <<pageVars, attempt, capture, retired>>

(* Mutant of AckLost: the script is asked again. *)
AskedAgain ==
    /\ pc = "ack"
    /\ pc' = "select"
    /\ UNCHANGED <<pageVars, attempt, due, capture, reply, why, audit, retired, outcome>>

(* The evaluation fails though the script ran, runs, or will run. *)
AckLost ==
    /\ pc = "ack"
    /\ Goto("receipt", "unknown")
    /\ UNCHANGED <<pageVars, attempt, capture, audit, retired>>
-----------------------------------------------------------------------------
(* After the answer *)

(* _wait_for_challenge_receipt: one probe.  A submission whose transition    *)
(* came too late is not confirmed.                                           *)
ProbeReceipt ==
    /\ pc = "receipt" /\ ~due
    /\ ReadTouches(attempt)
    /\ \/ /\ ConfirmsSubmission(Read(attempt))
          /\ \/ Publish(IF why = "submitted" THEN "receipt" ELSE "reconciled", Ends("confirmed"))
             \/ Raise
       \/ /\ ~ConfirmsSubmission(Read(attempt))
          /\ UNCHANGED <<pc, due, reply, why, audit, outcome>>
    /\ UNCHANGED <<request, storage, flight, history, attempt, capture, retired>>

ReceiptExpires ==
    /\ pc = "receipt" /\ due
    /\ Raise
    /\ UNCHANGED <<pageVars, attempt, capture, retired>>

(* _reconcile_natural_expiration: one probe. *)
ProbeExpiration ==
    /\ pc = "natural" /\ ~due
    /\ ReadTouches(attempt)
    /\ LET m == Read(attempt)
       IN  \/ /\ ConfirmsExpiration(m)
              /\ IF Open THEN Publish("notSubmitted", Ends("expired")) ELSE Ends("expired") /\ UNCHANGED audit
           \/ ~ConfirmsExpiration(m) /\ m.invoked # 0 /\ Raise
           \/ /\ ~ConfirmsExpiration(m) /\ m.invoked = 0
              /\ UNCHANGED <<pc, due, reply, why, audit, outcome>>
    /\ UNCHANGED <<request, storage, flight, history, attempt, capture, retired>>

ExpirationExpires ==
    /\ pc = "natural" /\ due
    /\ Raise
    /\ UNCHANGED <<pageVars, attempt, capture, retired>>
-----------------------------------------------------------------------------
Python ==
    \/ Probe \/ ArmMonitor \/ ImageReady \/ MatchRequest \/ Verify \/ CaptureExpires \/ Predict
    \/ SendScript \/ SelectExpires \/ Acknowledged \/ AckLost
    \/ ProbeReceipt \/ ReceiptExpires \/ ProbeExpiration \/ ExpirationExpires
    \/ Interrupted

TabMoves == Tab /\ UNCHANGED <<pc, attempt, due, capture, reply, why, audit, retired, outcome>>

Next == Python \/ DeadlinePasses \/ TabMoves \/ \E a \in Attempts : Land(a)

Spec == Init /\ [][Next]_vars

(* Deadlines pass, and Python runs when it can: every wait of check has a    *)
(* deadline, that of a script being the live timeout of AckLost's kind.      *)
Waits == CaptureExpires \/ Predict \/ SendScript \/ SelectExpires \/ Acknowledged \/ AckLost
         \/ ReceiptExpires \/ ExpirationExpires

FairSpec == Spec /\ WF_vars(DeadlinePasses) /\ WF_vars(Waits)
-----------------------------------------------------------------------------
(* Properties *)

TypeOK ==
    /\ PageTypeOK
    /\ pc \in Steps
    /\ attempt \in 0 .. MaxAttempts
    /\ due \in BOOLEAN
    /\ captured \in [Attempts -> [doc : 0 .. MaxDocs, load : 0 .. MaxLoads, shown : 0 .. MaxLoads]]
    /\ why \in {"none", "prediction", "notReady", "absent", "submitted", "unknown"}
    /\ trail \in SUBSET TrailFlags
    /\ journal \in [Attempts -> Seq(Events)]
    /\ latched \in BOOLEAN /\ retired \in BOOLEAN
    /\ outcome \in [Attempts -> {"none", "confirmed", "expired", "raised"}]

Logged(a, event) == \E i \in DOMAIN journal[a] : journal[a][i] = event

(* Of the scripts of an attempt at most one has submitted or may still       *)
(* submit, lost answers, late scripts and retries included.                  *)
OneSubmission ==
    \A a \in Attempts :
        flight[a] + clicks[a] <= 1

(* When an attempt is reported or logged as not submitted, none of its       *)
(* scripts has submitted and none is left that could.                        *)
UnsubmittedIsFinal ==
    \A a \in Attempts :
        outcome[a] = "expired" \/ Logged(a, "notSubmitted") => clicks[a] = 0 /\ flight[a] = 0

(* A confirmed attempt did dispatch its answer, though the challenge may     *)
(* have expired or been answered by hand and the battle be shown anyway.     *)
ConfirmedWasAnswered ==
    \A a \in Attempts : outcome[a] = "confirmed" => \E f \in forms : f.attempt = a

(* An answer is dispatched by the document its image was captured in, and    *)
(* was predicted from the bytes of the image shown there.                    *)
AnswerFitsImage ==
    \A f \in forms :
        /\ captured[f.attempt].doc = f.doc
        /\ captured[f.attempt].load = captured[f.attempt].shown

(* check returns or raises. *)
AttemptEnds == (pc # "idle") ~> (pc = "idle")
=============================================================================
