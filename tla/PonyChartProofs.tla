-------------------------- MODULE PonyChartProofs --------------------------
(***************************************************************************)
(* What holds of the PonyChart challenge for any number of attempts,       *)
(* documents and images: an attempt submits at most once, is called        *)
(* unsubmitted or confirmed only when that is true, and its answer is for  *)
(* the image that was shown.                                               *)
(***************************************************************************)
EXTENDS PonyChartChallenge, TLAPS, SequenceTheorems, FiniteSetTheorems

Monitor == [id : 0 .. MaxAttempts, invoked : Nat, evidence : {"none", "partial", "exact"},
            gone : {"no", "early", "after"}]

Guard == [id : 0 .. MaxAttempts, changed : BOOLEAN]

Page == [doc : 1 .. MaxDocs, at : {"riddle", "blank", "battle"}, submit : BOOLEAN,
         ready : BOOLEAN, load : 1 .. MaxLoads, monitor : Monitor, guard : Guard]

Request == [doc : 1 .. MaxDocs, src : Sources, done : {"no", "ok", "failed"}, taken : BOOLEAN]

Capture == [doc : 0 .. MaxDocs, load : 0 .. MaxLoads, shown : 0 .. MaxLoads]

(* The types, by who changes them: the tab, the scripts, Python.           *)
TabType == page \in Page /\ request \in Seq(Request)
           /\ stored \in [Attempts -> Monitor] /\ storage \in BOOLEAN
ScriptType == /\ flight \in [Attempts -> Nat] /\ clicks \in [Attempts -> Nat]
              /\ forms \subseteq [attempt : Attempts, doc : 1 .. MaxDocs]
PythonType == /\ pc \in Steps /\ attempt \in 0 .. MaxAttempts /\ due \in BOOLEAN
              /\ why \in {"none", "prediction", "notReady", "absent", "submitted", "unknown"}
              /\ trail \subseteq TrailFlags /\ journal \in [Attempts -> Seq(Events)]
              /\ latched \in BOOLEAN /\ retired \in BOOLEAN
              /\ outcome \in [Attempts -> {"none", "confirmed", "expired", "raised"}]
CaptureType == captured \in [Attempts -> Capture]
Types == TabType /\ ScriptType /\ PythonType /\ CaptureType /\ reply.monitor \in Monitor

-----------------------------------------------------------------------------
(* The inductive invariant.                                                *)

Capturing == {"arm", "image", "match", "verify"}
Unsent == Capturing \union {"predict", "select", "natural"}
Answering == {"predict", "select", "ack"}

(* No script of the attempt has submitted and none is left that could.     *)
Clean(a) == clicks[a] = 0 /\ flight[a] = 0

(* The answers of a script that has not submitted.                         *)
Disclaims(r) == r.status = "absent" \/ Proves(r.monitor)

Answered(a) == \E f \in forms : f.attempt = a

(* The image shown is the one requested last; of the requests that look    *)
(* alike the earlier ones were taken first.                                *)
PageInv ==
    /\ page.load = Len(request)
    /\ page.at = "riddle" => Current.doc = page.doc
    /\ \A i, j \in 1 .. Len(request) :
          (j < i /\ request[j].doc = request[i].doc /\ request[j].src = request[i].src
             /\ request[i].taken) => request[j].taken

(* The evidence of a submission, live or stored, is true.                  *)
MonitorInv ==
    /\ page.monitor.evidence = "exact" => Answered(page.monitor.id)
    /\ \A a \in Attempts : stored[a].evidence = "exact" => Answered(a)

SendInv ==
    /\ \A a \in Attempts : a > attempt => Clean(a)
    /\ pc \in Unsent => Clean(attempt)
    /\ (pc = "ack" /\ reply # NoReply /\ Disclaims(reply)) => Clean(attempt)

JournalInv ==
    /\ pc # "idle" => attempt \in Attempts /\ outcome[attempt] = "none"
    /\ \A a \in Attempts : a > attempt => journal[a] = <<>> /\ outcome[a] = "none"
    /\ pc \in Capturing \union Answering => ~Logged(attempt, "notSubmitted")

(* An answer can only leave the document its image was captured in.        *)
CaptureInv ==
    /\ \A a \in Attempts : captured[a].load = captured[a].shown
    /\ \A a \in Attempts : a > attempt => captured[a].doc = 0
    /\ pc \in Capturing => captured[attempt].doc = 0
    /\ pc \in Answering => captured[attempt].doc # 0
    /\ \A a \in Attempts : flight[a] > 0 => captured[a].doc # 0
    /\ \A a \in Attempts :
          page.monitor.id = a /\ captured[a].doc # 0 => captured[a].doc = page.doc

(* While the guard of the attempt holds, the page shows what it showed     *)
(* when the image was complete, and the body is that of this image.        *)
Guarded == page.guard.id = attempt /\ ~page.guard.changed

GuardInv ==
    /\ (pc \in {"match", "verify"} /\ Guarded) =>
          /\ page.doc = seen.doc /\ page.at = "riddle"
          /\ page.load = seen.load /\ Current.src = seen.src
    /\ pc = "verify" => body \in 1 .. Len(request)
    /\ (pc = "verify" /\ Guarded) =>
          /\ body = page.load
          /\ \A j \in 1 .. body - 1 :
               (request[j].doc = request[body].doc /\ request[j].src = request[body].src)
                  => request[j].taken

ChallengeInv ==
    /\ Types /\ PageInv /\ MonitorInv /\ SendInv /\ JournalInv /\ CaptureInv /\ GuardInv
    /\ OneSubmission /\ UnsubmittedIsFinal /\ ConfirmedWasAnswered /\ AnswerFitsImage

-----------------------------------------------------------------------------
(* Monitors, and the storage of their copies.                              *)

LEMMA NoMonitorTyped ==
  /\ NoMonitor \in Monitor /\ NoMonitor.id = 0 /\ NoMonitor.evidence = "none"
  /\ NoReply.monitor = NoMonitor /\ NoReply.status = "none"
  BY PageAssumption DEF NoMonitor, Monitor, NoReply, Reply

LEMMA GoneKeeps ==
  ASSUME NEW m \in Monitor
  PROVE  /\ Gone(m) \in Monitor /\ Gone(m).id = m.id /\ Gone(m).evidence = m.evidence
         /\ Gone(m).invoked = m.invoked
  BY DEF Gone, Monitor

LEMMA RefreshedKeeps ==
  ASSUME NEW m \in Monitor
  PROVE  /\ Refreshed(m) \in Monitor /\ Refreshed(m).id = m.id
         /\ Refreshed(m).evidence = m.evidence /\ Refreshed(m).invoked = m.invoked
  BY GoneKeeps DEF Refreshed

LEMMA PersistedTyped ==
  ASSUME stored \in [Attempts -> Monitor], NEW m \in Monitor
  PROVE  /\ Persisted(m) \in [Attempts -> Monitor]
         /\ \A a \in Attempts : \/ Persisted(m)[a] = stored[a]
                                \/ a = m.id /\ Persisted(m)[a] = m
  <1>1. m.id # 0 => m.id \in Attempts  BY DEF Monitor, Attempts
  <1> QED BY <1>1 DEF Persisted

(* What a step makes of the page when only the monitor changes.            *)
Rewatched(m) ==
    /\ page' \in Page /\ page'.monitor = m
    /\ page'.doc = page.doc /\ page'.at = page.at /\ page'.submit = page.submit
    /\ page'.load = page.load /\ page'.guard = page.guard

LEMMA MonitorSet ==
  ASSUME page \in Page, NEW m \in Monitor, page' = [page EXCEPT !.monitor = m]
  PROVE  Rewatched(m)
  BY DEF Page, Rewatched

(* True evidence stays true when a true monitor is written.                *)
LEMMA WatchTrue ==
  ASSUME TabType, MonitorInv, forms \subseteq forms', NEW m \in Monitor, page'.monitor = m,
         stored' \in {stored, Persisted(m)}, m.evidence = "exact" => Answered(m.id)'
  PROVE  MonitorInv' /\ stored' \in [Attempts -> Monitor]
  <1>1. \A a : Answered(a) => Answered(a)'  BY DEF Answered
  <1>2. stored' \in [Attempts -> Monitor]
        /\ \A a \in Attempts : stored'[a] = stored[a] \/ (a = m.id /\ stored'[a] = m)
    BY PersistedTyped DEF TabType
  <1>3. ASSUME NEW a \in Attempts, stored'[a].evidence = "exact" PROVE Answered(a)'
    BY <1>1, <1>2, <1>3 DEF MonitorInv
  <1> QED BY <1>2, <1>3 DEF MonitorInv, Answered

-----------------------------------------------------------------------------
(* One run of the submit script.                                           *)

LEMMA RunOf ==
  ASSUME Types, NEW a \in Attempts, NEW run \in Runs(a)
  PROVE  /\ run.reply.monitor \in Monitor /\ run.reply # NoReply
         /\ run.sent => run.clicked
         /\ run.clicked => OwnMonitor(a) /\ ~Disclaims(run.reply)
         /\ OwnMonitor(a) => run.reply.monitor.id = a
         /\ (OwnMonitor(a) /\ run.reply.monitor.evidence = "exact") =>
               page.monitor.evidence = "exact" \/ run.sent
  <1> DEFINE m == Refreshed(page.monitor)
             stop(s, n) == [reply |-> Reply(s, n), clicked |-> FALSE, sent |-> FALSE]
  <1>1. page.monitor \in Monitor /\ stored[a] \in Monitor  BY DEF Types, TabType, Page
  <1>2. /\ m \in Monitor /\ m.id = page.monitor.id /\ m.evidence = page.monitor.evidence
        /\ m.invoked = page.monitor.invoked
    BY <1>1, RefreshedKeeps
  <1>3. CASE ~OwnMonitor(a)
    <2>1. run = stop("monitor-missing", stored[a])  BY <1>3 DEF Runs
    <2> QED BY <2>1, <1>1, <1>3, NoMonitorTyped DEF Reply
  <1>4. ASSUME OwnMonitor(a), NEW s \in {"absent", "already-submitted", "retriable", "contract-invalid"},
               run = stop(s, m)
        PROVE  /\ run.reply.monitor = m /\ run.reply # NoReply /\ ~run.clicked /\ ~run.sent
    BY <1>4, NoMonitorTyped DEF Reply
  <1>5. CASE OwnMonitor(a) /\ \E s \in {"absent", "already-submitted", "retriable", "contract-invalid"} :
                                 run = stop(s, m)
    BY <1>4, <1>5, <1>2 DEF OwnMonitor
  <1>6. CASE OwnMonitor(a) /\ run \in Click(m) /\ (run.reply.status = "submitted" => run.sent)
    <2>1. PICK evidence \in {"exact", "partial", "none"}, sent \in BOOLEAN :
             run = [reply |-> Reply(IF evidence = "exact" THEN "submitted" ELSE "evidence-missing",
                                    [m EXCEPT !.invoked = 1, !.evidence = evidence]),
                    clicked |-> TRUE, sent |-> sent]
      BY <1>6 DEF Click
    <2> DEFINE n == [m EXCEPT !.invoked = 1, !.evidence = evidence]
    <2>2. n \in Monitor /\ n.id = m.id /\ n.invoked = 1 /\ n.evidence = evidence
      BY <1>2 DEF Monitor
    <2>3. /\ run.reply.monitor = n /\ run.sent = sent /\ run.clicked
          /\ run.reply.status = IF evidence = "exact" THEN "submitted" ELSE "evidence-missing"
      BY <2>1 DEF Reply
    <2> HIDE DEF m, n
    <2>4. ~Disclaims(run.reply)  BY <2>2, <2>3 DEF Disclaims, Proves
    <2>5. run.reply # NoReply  BY <2>3, NoMonitorTyped
    <2>6. n.id = a  BY <2>2, <1>2, <1>6 DEF OwnMonitor
    <2> QED BY <2>2, <2>3, <2>4, <2>5, <2>6, <1>6
  <1>7. OwnMonitor(a) => \/ \E s \in {"absent", "already-submitted", "retriable", "contract-invalid"} :
                               run = stop(s, m)
                         \/ run \in Click(m) /\ (run.reply.status = "submitted" => run.sent)
    BY DEF Runs
  <1> QED BY <1>3, <1>5, <1>6, <1>7

-----------------------------------------------------------------------------
(* What Python does within an attempt: it logs, goes on, or ends.          *)

Logs(event) ==
    /\ journal' = [journal EXCEPT ![attempt] = @ \o Published(trail, event)]
    /\ trail' = Marked(trail, event)
    /\ UNCHANGED latched

BusFails ==
    /\ latched' = TRUE
    /\ pc' = "idle" /\ outcome' = [outcome EXCEPT ![attempt] = "raised"]
    /\ UNCHANGED <<journal, trail, reply, why, due>>

LEMMA LogsKeep ==
  ASSUME PythonType, attempt \in Attempts, NEW e \in TrailFlags, Logs(e)
  PROVE  /\ trail' \subseteq TrailFlags /\ latched' \in BOOLEAN
         /\ journal' \in [Attempts -> Seq(Events)]
         /\ \A a \in Attempts : a # attempt => journal'[a] = journal[a]
         /\ \A x : (\E i \in DOMAIN journal'[attempt] : journal'[attempt][i] = x) =>
               Logged(attempt, x) \/ x = e
  <1> DEFINE was == journal[attempt]
             new == Published(trail, e)
  <1>1. was \in Seq(Events) /\ new \in Seq(Events)
    BY DEF PythonType, Published, TrailFlags
  <1>2. new = <<>> \/ new = <<e>>  BY DEF Published
  <1>3. /\ journal' = [journal EXCEPT ![attempt] = was \o new]
        /\ journal'[attempt] = was \o new
    BY DEF Logs, PythonType
  <1>4. was \o new \in Seq(Events) /\ Len(was \o new) = Len(was) + Len(new)
        /\ \A i \in 1 .. Len(was) + Len(new) :
             (was \o new)[i] = IF i <= Len(was) THEN was[i] ELSE new[i - Len(was)]
    <2> HIDE DEF was, new
    <2> QED BY <1>1, ConcatProperties
  <1>5. Len(was) \in Nat /\ DOMAIN was = 1 .. Len(was) /\ Len(new) \in Nat
    <2> HIDE DEF was, new
    <2> QED BY <1>1, LenProperties
  <1>6. DOMAIN (was \o new) = 1 .. Len(was) + Len(new)
    <2> HIDE DEF was, new
    <2> QED BY <1>4, LenProperties
  <1>7. ASSUME NEW x, NEW i \in 1 .. Len(was) + Len(new), (was \o new)[i] = x
        PROVE  (\E k \in DOMAIN was : was[k] = x) \/ x = e
    <2>1. CASE i <= Len(was)
      <3> HIDE DEF was, new
      <3> QED BY <2>1, <1>4, <1>5, <1>7
    <2>2. CASE i > Len(was)
      <3>1. i - Len(was) \in 1 .. Len(new)
        <4> HIDE DEF was, new
        <4> QED BY <2>2, <1>5
      <3>2. x = new[i - Len(was)]
        <4> HIDE DEF was, new
        <4> QED BY <2>2, <1>4, <1>5, <1>7
      <3>3. \A k \in 1 .. Len(new) : new[k] = e
        <4> HIDE DEF new
        <4> QED BY <1>2
      <3> QED BY <3>1, <3>2, <3>3
    <2> HIDE DEF was, new
    <2> QED BY <2>1, <2>2, <1>5
  <1>8. trail' \subseteq TrailFlags /\ latched' \in BOOLEAN
    BY DEF Logs, PythonType, Marked
  <1>9. /\ journal' \in [Attempts -> Seq(Events)]
        /\ \A a \in Attempts : a # attempt => journal'[a] = journal[a]
    <2> HIDE DEF was, new
    <2> QED BY <1>3, <1>4 DEF PythonType
  <1> QED BY <1>3, <1>6, <1>7, <1>8, <1>9 DEF Logged

(* A step of an attempt other than its first and than sending a script.    *)
Still == UNCHANGED <<attempt, flight, clicks, forms>> /\ retired' \in BOOLEAN

Silent == pc' \notin Capturing \union Answering

Tells ==
    \/ UNCHANGED audit
    \/ \E e \in TrailFlags :
          Logs(e) /\ (e = "notSubmitted" => Clean(attempt) /\ Silent)

GoesOn ==
    /\ pc' \in Steps \ {"idle"} /\ UNCHANGED outcome
    /\ due' \in BOOLEAN /\ reply'.monitor \in Monitor
    /\ why' \in {"none", "prediction", "notReady", "absent", "submitted", "unknown"}
    /\ pc' \in Unsent => Clean(attempt)
    /\ pc' = "ack" => pc = "ack" /\ reply' = reply
    /\ pc' \in Capturing => pc \in Capturing
    /\ pc' \in Answering => pc \in Capturing \union Answering

Finishes ==
    \E r \in {"confirmed", "expired", "raised"} :
        Ends(r) /\ (r = "expired" => Clean(attempt)) /\ (r = "confirmed" => Answered(attempt))

Steers == Still /\ (BusFails \/ (Tells /\ (GoesOn \/ Finishes)))

(* The parts of the invariant that such a step touches.                    *)
Told ==
    /\ ScriptType /\ PythonType /\ reply.monitor \in Monitor
    /\ SendInv /\ JournalInv /\ OneSubmission /\ UnsubmittedIsFinal /\ ConfirmedWasAnswered

LEMMA TellsKeep ==
  ASSUME PythonType, attempt \in Attempts, UNCHANGED attempt, Tells
  PROVE  /\ trail' \subseteq TrailFlags /\ latched' \in BOOLEAN
         /\ journal' \in [Attempts -> Seq(Events)]
         /\ \A a \in Attempts : a # attempt => journal'[a] = journal[a]
         /\ Logged(attempt, "notSubmitted")' =>
               \/ Logged(attempt, "notSubmitted")
               \/ Clean(attempt) /\ Silent
  <1>1. CASE UNCHANGED audit  BY <1>1 DEF audit, PythonType, Logged
  <1>2. ASSUME NEW e \in TrailFlags, Logs(e), e = "notSubmitted" => Clean(attempt) /\ Silent
        PROVE  /\ trail' \subseteq TrailFlags /\ latched' \in BOOLEAN
               /\ journal' \in [Attempts -> Seq(Events)]
               /\ \A a \in Attempts : a # attempt => journal'[a] = journal[a]
               /\ Logged(attempt, "notSubmitted")' =>
                     \/ Logged(attempt, "notSubmitted")
                     \/ Clean(attempt) /\ Silent
    <2>1. Logged(attempt, "notSubmitted")' =>
             \E i \in DOMAIN journal'[attempt] : journal'[attempt][i] = "notSubmitted"
      BY DEF Logged
    <2> QED BY <1>2, <2>1, LogsKeep
  <1> QED BY <1>1, <1>2 DEF Tells

LEMMA SteersTold ==
  ASSUME Told, Types, pc # "idle", Steers
  PROVE  Told'
  <1>1. attempt \in Attempts /\ outcome[attempt] = "none"  BY DEF Told, JournalInv
  <1>2. UNCHANGED <<attempt, flight, clicks, forms>> /\ retired' \in BOOLEAN
    BY DEF Steers, Still
  <1>3. (\A a : Clean(a)' <=> Clean(a)) /\ (\A a : Answered(a)' <=> Answered(a))
    BY <1>2 DEF Clean, Answered
  <1>4. /\ trail' \subseteq TrailFlags /\ latched' \in BOOLEAN
        /\ journal' \in [Attempts -> Seq(Events)]
        /\ \A a \in Attempts : a # attempt => journal'[a] = journal[a]
        /\ Logged(attempt, "notSubmitted")' =>
              \/ Logged(attempt, "notSubmitted")
              \/ Clean(attempt) /\ Silent
    <2>1. CASE BusFails
      BY <2>1, <1>2 DEF BusFails, Told, PythonType, Logged
    <2>2. CASE Tells  BY <2>2, <1>1, <1>2, TellsKeep DEF Told
    <2> QED BY <2>1, <2>2 DEF Steers
  <1>5. /\ pc' \in Steps /\ due' \in BOOLEAN /\ reply'.monitor \in Monitor
        /\ why' \in {"none", "prediction", "notReady", "absent", "submitted", "unknown"}
        /\ outcome' \in [Attempts -> {"none", "confirmed", "expired", "raised"}]
        /\ \A a \in Attempts : a # attempt => outcome'[a] = outcome[a]
        /\ outcome'[attempt] = "expired" => Clean(attempt)
        /\ outcome'[attempt] = "confirmed" => Answered(attempt)
    <2>1. CASE BusFails
      BY <2>1, <1>1 DEF BusFails, Told, PythonType, Steps
    <2>2. CASE GoesOn
      BY <2>2, <1>1 DEF GoesOn, Told, PythonType
    <2>3. ASSUME NEW r \in {"confirmed", "expired", "raised"}, Ends(r),
                 r = "expired" => Clean(attempt), r = "confirmed" => Answered(attempt)
          PROVE  /\ pc' \in Steps /\ due' \in BOOLEAN /\ reply'.monitor \in Monitor
                 /\ why' \in {"none", "prediction", "notReady", "absent", "submitted", "unknown"}
                 /\ outcome' \in [Attempts -> {"none", "confirmed", "expired", "raised"}]
                 /\ \A a \in Attempts : a # attempt => outcome'[a] = outcome[a]
                 /\ outcome'[attempt] = "expired" => Clean(attempt)
                 /\ outcome'[attempt] = "confirmed" => Answered(attempt)
      BY <2>3, <1>1, NoMonitorTyped DEF Ends, Told, PythonType, Steps
    <2> QED BY <2>1, <2>2, <2>3 DEF Steers, Finishes
  <1>6. \/ pc' = "idle"
        \/ /\ pc' # "idle" /\ outcome' = outcome
           /\ pc' \in Unsent => Clean(attempt)
           /\ pc' = "ack" => pc = "ack" /\ reply' = reply
           /\ pc' \in Capturing => pc \in Capturing
           /\ pc' \in Answering => pc \in Capturing \union Answering
    BY DEF Steers, BusFails, Finishes, Ends, GoesOn
  <1>7. ScriptType' /\ PythonType' /\ OneSubmission'
    BY <1>2, <1>4, <1>5 DEF Told, ScriptType, PythonType, OneSubmission
  <1>8. SendInv'
    <2>1. \A a \in Attempts : a > attempt' => Clean(a)'  BY <1>2, <1>3 DEF Told, SendInv
    <2>2. (pc' \in Unsent => Clean(attempt)')
      BY <1>2, <1>3, <1>6 DEF Unsent, Capturing
    <2>3. (pc' = "ack" /\ reply' # NoReply /\ Disclaims(reply')) => Clean(attempt)
      BY <1>6 DEF Told, SendInv
    <2> QED BY <2>1, <2>2, <2>3, <1>2, <1>3 DEF SendInv, Disclaims
  <1>9. JournalInv'
    <2>1. pc' # "idle" => attempt' \in Attempts /\ outcome'[attempt'] = "none"
      BY <1>1, <1>2, <1>6
    <2>2. \A a \in Attempts : a > attempt' => journal'[a] = <<>> /\ outcome'[a] = "none"
      BY <1>1, <1>2, <1>4, <1>5 DEF Told, JournalInv, Attempts
    <2>3. pc' \in Capturing \union Answering => ~Logged(attempt, "notSubmitted")'
      BY <1>4, <1>6 DEF Told, JournalInv, Silent, Capturing, Answering
    <2> QED BY <2>1, <2>2, <2>3, <1>2 DEF JournalInv
  <1>10. UnsubmittedIsFinal'
    <2> SUFFICES ASSUME NEW a \in Attempts,
                        outcome'[a] = "expired" \/ Logged(a, "notSubmitted")'
                 PROVE  Clean(a)
      BY <1>2, <1>3 DEF UnsubmittedIsFinal, Clean
    <2>1. CASE a = attempt
      <3>1. Logged(a, "notSubmitted")' => Logged(a, "notSubmitted") \/ Clean(attempt)
        BY <2>1, <1>2, <1>4 DEF Logged
      <3> QED BY <2>1, <3>1, <1>1, <1>5 DEF Told, UnsubmittedIsFinal, Clean
    <2>2. CASE a # attempt
      <3>1. Logged(a, "notSubmitted")' <=> Logged(a, "notSubmitted")
        BY <2>2, <1>4 DEF Logged
      <3> QED BY <2>2, <3>1, <1>5 DEF Told, UnsubmittedIsFinal, Clean
    <2> QED BY <2>1, <2>2
  <1>11. ConfirmedWasAnswered'
    BY <1>3, <1>5 DEF Told, ConfirmedWasAnswered, Answered
  <1> QED BY <1>5, <1>7, <1>8, <1>9, <1>10, <1>11 DEF Told

-----------------------------------------------------------------------------
(* The parts of the invariant about what is shown and captured.            *)
Shown ==
    /\ TabType /\ CaptureType
    /\ PageInv /\ MonitorInv /\ CaptureInv /\ GuardInv /\ AnswerFitsImage

LEMMA ToldAndShown == ChallengeInv <=> Told /\ Shown
  BY DEF ChallengeInv, Told, Shown, Types

(* A step that begins no capture, no answer and no guard.                  *)
BeginsNothing ==
    /\ pc' \in Capturing => pc \in Capturing
    /\ pc' \in Answering => pc \in Answering
    /\ pc' \in {"match", "verify"} => pc' = pc /\ UNCHANGED <<seen, body>>

(* The monitor becomes m, which is another state of the monitor there was  *)
(* or belongs to an attempt without a capture; a form that is sent fits.   *)
Watches(m) ==
    /\ Rewatched(m) /\ stored' \in {stored, Persisted(m)}
    /\ UNCHANGED <<request, storage, captured, attempt>>
    /\ m.id = page.monitor.id \/ \A a \in Attempts : a = m.id => captured[a].doc = 0
    /\ m.evidence = "exact" => Answered(m.id)'
    /\ forms \subseteq forms'
    /\ \A f \in forms' \ forms : f.attempt \in Attempts /\ captured[f.attempt].doc = f.doc
    /\ \A a \in Attempts : flight'[a] > 0 => captured[a].doc # 0

LEMMA WatchShown ==
  ASSUME Shown, NEW m \in Monitor, Watches(m), BeginsNothing
  PROVE  Shown'
  <1>1. /\ page' \in Page /\ page'.monitor = m
        /\ page'.doc = page.doc /\ page'.at = page.at
        /\ page'.load = page.load /\ page'.guard = page.guard
        /\ UNCHANGED <<request, storage, captured, attempt>>
        /\ Current' = Current
    BY DEF Watches, Rewatched, Current
  <1>2. MonitorInv' /\ stored' \in [Attempts -> Monitor]
    BY WatchTrue, <1>1 DEF Watches, Shown
  <1>3. TabType' /\ CaptureType'  BY <1>1, <1>2 DEF Shown, TabType, CaptureType
  <1>4. PageInv'  BY <1>1 DEF Shown, PageInv
  <1>5. AnswerFitsImage'  BY <1>1 DEF Shown, AnswerFitsImage, CaptureInv, Watches
  <1>6. CaptureInv'
    <2>1. \A a \in Attempts : m.id = a /\ captured[a].doc # 0 => captured[a].doc = page.doc
      BY DEF Watches, Shown, CaptureInv
    <2>2. \A a \in Attempts : flight'[a] > 0 => captured[a].doc # 0  BY DEF Watches
    <2>3. /\ \A a \in Attempts : captured[a].load = captured[a].shown
          /\ \A a \in Attempts : a > attempt => captured[a].doc = 0
          /\ pc \in Capturing => captured[attempt].doc = 0
          /\ pc \in Answering => captured[attempt].doc # 0
      BY DEF Shown, CaptureInv
    <2> QED BY <1>1, <2>1, <2>2, <2>3 DEF CaptureInv, BeginsNothing
  <1>7. GuardInv'
    <2>1. Guarded' <=> Guarded  BY <1>1 DEF Guarded
    <2>2. CASE pc' \notin {"match", "verify"}  BY <2>2 DEF GuardInv
    <2>3. CASE pc' = pc /\ UNCHANGED <<seen, body>>
      <3>1. GuardInv  BY DEF Shown
      <3> QED BY <3>1, <2>1, <2>3, <1>1 DEF GuardInv
    <2> QED BY <2>2, <2>3 DEF BeginsNothing
  <1> QED BY <1>2, <1>3, <1>4, <1>5, <1>6, <1>7 DEF Shown

(* The page does not move.                                                 *)
LEMMA QuietShown ==
  ASSUME Shown, UNCHANGED <<page, request, stored, storage, forms, captured, attempt>>,
         \A a \in Attempts : flight'[a] > 0 => captured[a].doc # 0, BeginsNothing
  PROVE  Shown'
  <1>1. page.monitor \in Monitor  BY DEF Shown, TabType, Page
  <1>2. page.monitor.evidence = "exact" => Answered(page.monitor.id)'
    BY DEF Shown, MonitorInv, Answered
  <1>3. Rewatched(page.monitor)  BY DEF Shown, TabType, Rewatched
  <1>4. Watches(page.monitor)  BY <1>2, <1>3 DEF Watches
  <1> QED BY <1>1, <1>4, WatchShown

(* The common case of the two: a step of Python that leaves the tab alone. *)
LEMMA QuietSteer ==
  ASSUME ChallengeInv, pc # "idle", UNCHANGED <<pageVars, captured>>,
         Steers, BeginsNothing
  PROVE  ChallengeInv'
  <1>1. Told /\ Shown /\ Types  BY ToldAndShown DEF ChallengeInv
  <1>2. Told'  BY <1>1, SteersTold
  <1>3. Shown'
    <2>1. UNCHANGED <<page, request, stored, storage, forms, captured, attempt, flight>>
      BY DEF pageVars, history, Steers, Still
    <2>2. \A a \in Attempts : flight'[a] > 0 => captured[a].doc # 0
      BY <2>1, <1>1 DEF Shown, CaptureInv
    <2> QED BY <1>1, <2>1, <2>2, QuietShown
  <1>4. ChallengeInv' <=> Told' /\ Shown'
    BY DEF ChallengeInv, Told, Shown, Types
  <1> QED BY <1>2, <1>3, <1>4

-----------------------------------------------------------------------------
(* The steps of Python that leave the tab alone.                           *)

LEMMA RaiseSteers ==
  ASSUME Still, Raise
  PROVE  Steers /\ pc' = "idle"
  <1>1. Ends("raised") => Finishes /\ pc' = "idle"  BY DEF Finishes, Ends
  <1>2. CASE Open
    <2>1. BusFails \/ (Logs("unknown") /\ Ends("raised"))
      BY <1>2 DEF Raise, Publish, BusFails, Logs
    <2>2. Logs("unknown") => Tells  BY DEF Tells, TrailFlags, Events
    <2> QED BY <1>1, <2>1, <2>2 DEF Steers, BusFails
  <1>3. CASE ~Open
    <2>1. Ends("raised") /\ UNCHANGED audit  BY <1>3 DEF Raise
    <2> QED BY <1>1, <2>1 DEF Steers, Tells
  <1> QED BY <1>2, <1>3

(* An event is published, and the attempt goes on or ends.                 *)
LEMMA PublishSteers ==
  ASSUME Still, NEW e \in TrailFlags, BusFails \/ (Logs(e) /\ (GoesOn \/ Finishes)),
         e = "notSubmitted" => Clean(attempt) /\ (BusFails \/ Silent)
  PROVE  Steers
  <1>1. CASE BusFails  BY <1>1 DEF Steers
  <1>2. CASE ~BusFails
    <2>1. Tells  BY <1>2 DEF Tells
    <2> QED BY <2>1, <1>2 DEF Steers
  <1> QED BY <1>1, <1>2

LEMMA IdleBegins ==
  ASSUME pc' \in {"idle", "natural", "receipt"}
  PROVE  BeginsNothing /\ Silent
  BY DEF BeginsNothing, Silent, Capturing, Answering

LEMMA InterruptedKeeps ==
  ASSUME ChallengeInv, Interrupted
  PROVE  ChallengeInv'
  <1>1. Still  BY DEF Interrupted, Still, pageVars, history, ChallengeInv, Types, PythonType
  <1>2. Steers /\ pc' = "idle" /\ pc # "idle"  BY <1>1, RaiseSteers DEF Interrupted
  <1>3. UNCHANGED <<pageVars, captured>>  BY DEF Interrupted
  <1> QED BY <1>2, <1>3, IdleBegins, QuietSteer

LEMMA RaisingKeeps ==
  ASSUME ChallengeInv, CaptureExpires \/ ReceiptExpires \/ ExpirationExpires
  PROVE  ChallengeInv'
  <1>1. Still
    BY DEF CaptureExpires, ReceiptExpires, ExpirationExpires, Still, pageVars, history,
           ChallengeInv, Types, PythonType
  <1>2. Raise /\ pc # "idle" /\ UNCHANGED <<pageVars, captured>>
    BY DEF CaptureExpires, ReceiptExpires, ExpirationExpires, capture
  <1>3. Steers /\ pc' = "idle"  BY <1>1, <1>2, RaiseSteers
  <1> QED BY <1>2, <1>3, IdleBegins, QuietSteer

LEMMA DeadlineKeeps ==
  ASSUME ChallengeInv, DeadlinePasses
  PROVE  ChallengeInv'
  <1>1. Told /\ Shown /\ Types  BY ToldAndShown DEF ChallengeInv
  <1>2. /\ UNCHANGED <<pageVars, pc, attempt, seen, body, captured, reply, why, audit, retired, outcome>>
        /\ due' = TRUE
    BY DEF DeadlinePasses, capture
  <1>3. Told'
    BY <1>1, <1>2 DEF Told, ScriptType, PythonType, SendInv, JournalInv, OneSubmission,
                      UnsubmittedIsFinal, ConfirmedWasAnswered, Logged, Clean, audit, pageVars, history
  <1>4. Shown'
    <2>1. BeginsNothing  BY <1>2 DEF BeginsNothing
    <2>2. \A a \in Attempts : flight'[a] > 0 => captured[a].doc # 0
      BY <1>1, <1>2 DEF Shown, CaptureInv, pageVars
    <2> QED BY <1>1, <1>2, <2>1, <2>2, QuietShown DEF pageVars, history
  <1>5. ChallengeInv' <=> Told' /\ Shown'
    BY DEF ChallengeInv, Told, Shown, Types
  <1> QED BY <1>3, <1>4, <1>5

LEMMA PredictKeeps ==
  ASSUME ChallengeInv, Predict
  PROVE  ChallengeInv'
  <1>1. Still  BY DEF Predict, Still, pageVars, history, ChallengeInv, Types, PythonType
  <1>2. pc = "predict" /\ UNCHANGED <<pageVars, captured>>  BY DEF Predict, capture
  <1>3. Clean(attempt)  BY <1>2 DEF ChallengeInv, SendInv, Unsent
  <1>4. Goto("select", "none") => GoesOn /\ BeginsNothing
    BY <1>2, <1>3, NoMonitorTyped
    DEF Goto, GoesOn, BeginsNothing, Capturing, Answering, Steps
  <1>5. Goto("natural", "prediction") => GoesOn /\ BeginsNothing
    BY <1>2, <1>3, NoMonitorTyped
    DEF Goto, GoesOn, BeginsNothing, Capturing, Answering, Steps
  <1>6. CASE Publish("intent", Goto("select", "none"))
    <2>1. BusFails \/ (Logs("intent") /\ Goto("select", "none"))
      BY <1>6 DEF Publish, BusFails, Logs
    <2>2. "intent" \in TrailFlags  BY DEF TrailFlags, Events
    <2>3. Steers  BY <1>1, <1>4, <2>1, <2>2, PublishSteers
    <2>4. BeginsNothing  BY <1>4, <2>1, IdleBegins DEF BusFails
    <2> QED BY <1>2, <2>3, <2>4, QuietSteer
  <1>7. CASE Goto("natural", "prediction") /\ UNCHANGED audit
    <2>1. Steers /\ BeginsNothing  BY <1>1, <1>5, <1>7 DEF Steers, Tells
    <2> QED BY <1>2, <2>1, QuietSteer
  <1> QED BY <1>6, <1>7 DEF Predict

LEMMA SelectExpiresKeeps ==
  ASSUME ChallengeInv, SelectExpires
  PROVE  ChallengeInv'
  <1>1. Still  BY DEF SelectExpires, Still, pageVars, history, ChallengeInv, Types, PythonType
  <1>2. pc = "select" /\ UNCHANGED <<pageVars, captured>>  BY DEF SelectExpires, capture
  <1>3. Clean(attempt)  BY <1>2 DEF ChallengeInv, SendInv, Unsent
  <1>4. ASSUME NEW p \in {"natural", "receipt"}, NEW w \in {"notReady", "unknown"}, Goto(p, w)
        PROVE  GoesOn /\ BeginsNothing /\ Silent
    BY <1>2, <1>3, <1>4, NoMonitorTyped, IdleBegins
    DEF Goto, GoesOn, Capturing, Answering, Steps
  <1>5. CASE Publish("notSubmitted", Goto("natural", "notReady"))
    <2>1. BusFails \/ (Logs("notSubmitted") /\ Goto("natural", "notReady"))
      BY <1>5 DEF Publish, BusFails, Logs
    <2>2. "notSubmitted" \in TrailFlags  BY DEF TrailFlags, Events
    <2>3. Steers  BY <1>1, <1>3, <1>4, <2>1, <2>2, PublishSteers
    <2>4. BeginsNothing  BY <1>4, <2>1, IdleBegins DEF BusFails
    <2> QED BY <1>2, <2>3, <2>4, QuietSteer
  <1>6. CASE Goto("receipt", "unknown") /\ UNCHANGED audit
    <2>1. Steers /\ BeginsNothing  BY <1>1, <1>4, <1>6 DEF Steers, Tells
    <2> QED BY <1>2, <2>1, QuietSteer
  <1> QED BY <1>5, <1>6 DEF SelectExpires

LEMMA AckLostKeeps ==
  ASSUME ChallengeInv, AckLost
  PROVE  ChallengeInv'
  <1>1. Still  BY DEF AckLost, Still, pageVars, history, ChallengeInv, Types, PythonType
  <1>2. pc = "ack" /\ UNCHANGED <<pageVars, captured>>  BY DEF AckLost, capture
  <1>3. GoesOn /\ BeginsNothing
    BY <1>2, NoMonitorTyped, IdleBegins
    DEF AckLost, Goto, GoesOn, Capturing, Answering, Unsent, Steps
  <1>4. Steers  BY <1>1, <1>3 DEF AckLost, Steers, Tells
  <1> QED BY <1>2, <1>3, <1>4, QuietSteer

LEMMA AcknowledgedKeeps ==
  ASSUME ChallengeInv, Acknowledged
  PROVE  ChallengeInv'
  <1>1. Still  BY DEF Acknowledged, Still, pageVars, history, ChallengeInv, Types, PythonType
  <1>2. pc = "ack" /\ reply # NoReply /\ UNCHANGED <<pageVars, captured>>
    BY DEF Acknowledged, capture
  <1>3. Disclaims(reply) => Clean(attempt)  BY <1>2 DEF ChallengeInv, SendInv
  <1>4. ASSUME Goto("receipt", "unknown") \/ Goto("receipt", "submitted")
        PROVE  GoesOn /\ BeginsNothing
    <2>1. GoesOn
      BY <1>4, NoMonitorTyped DEF Goto, GoesOn, Capturing, Answering, Unsent, Steps
    <2>2. pc' = "receipt"  BY <1>4 DEF Goto
    <2> QED BY <2>1, <2>2, IdleBegins
  <1>5. ASSUME Goto("natural", "absent"), Clean(attempt)
        PROVE  GoesOn /\ BeginsNothing /\ Silent
    <2>1. GoesOn
      BY <1>5, NoMonitorTyped DEF Goto, GoesOn, Capturing, Answering, Unsent, Steps
    <2>2. pc' = "natural"  BY <1>5 DEF Goto
    <2> QED BY <2>1, <2>2, IdleBegins
  <1>6. ASSUME Ends("raised") PROVE Finishes /\ BeginsNothing /\ Silent
    BY <1>6, IdleBegins DEF Ends, Finishes
  <1>7. BusFails => BeginsNothing  BY IdleBegins DEF BusFails
  <1>8. "submitted" \in TrailFlags /\ "notSubmitted" \in TrailFlags  BY DEF TrailFlags, Events
  <1> SUFFICES Steers /\ BeginsNothing  BY <1>2, QuietSteer
  <1>9. ASSUME Publish("submitted", Goto("receipt", "submitted"))
               \/ Publish("submitted", Goto("receipt", "unknown"))
        PROVE  Steers /\ BeginsNothing
    <2>1. BusFails \/ (Logs("submitted")
                       /\ (Goto("receipt", "unknown") \/ Goto("receipt", "submitted")))
      BY <1>9 DEF Publish, BusFails, Logs
    <2> QED BY <2>1, <1>1, <1>4, <1>7, <1>8, PublishSteers
  <1>10. CASE /\ reply.status = "absent"
              /\ IF Proves(reply.monitor) THEN Publish("notSubmitted", Goto("natural", "absent"))
                 ELSE Goto("natural", "absent") /\ UNCHANGED audit
    <2>1. Clean(attempt)  BY <1>3, <1>10 DEF Disclaims
    <2>2. CASE Publish("notSubmitted", Goto("natural", "absent"))
      <3>1. BusFails \/ (Logs("notSubmitted") /\ Goto("natural", "absent"))
        BY <2>2 DEF Publish, BusFails, Logs
      <3> QED BY <2>1, <3>1, <1>1, <1>5, <1>7, <1>8, PublishSteers
    <2>3. CASE Goto("natural", "absent") /\ UNCHANGED audit
      BY <2>1, <2>3, <1>1, <1>5 DEF Steers, Tells
    <2> QED BY <1>10, <2>2, <2>3
  <1>11. CASE Retriable /\ pc' = "select" /\ UNCHANGED <<due, reply, why, audit, outcome>>
    <2>1. Clean(attempt)  BY <1>3, <1>11 DEF Disclaims, Retriable
    <2>2. GoesOn
      BY <2>1, <1>2, <1>11
      DEF GoesOn, ChallengeInv, Types, PythonType, Capturing, Answering, Steps
    <2>3. BeginsNothing  BY <1>2, <1>11 DEF BeginsNothing, Capturing, Answering
    <2> QED BY <2>2, <2>3, <1>1, <1>11 DEF Steers, Tells
  <1>12. CASE /\ ~(reply.monitor.evidence = "exact") /\ Proves(reply.monitor)
              /\ Publish("notSubmitted", Ends("raised"))
    <2>1. Clean(attempt)  BY <1>3, <1>12 DEF Disclaims
    <2>2. BusFails \/ (Logs("notSubmitted") /\ Ends("raised"))
      BY <1>12 DEF Publish, BusFails, Logs
    <2> QED BY <2>1, <2>2, <1>1, <1>6, <1>7, <1>8, PublishSteers
  <1>13. CASE (Goto("receipt", "unknown") \/ Ends("raised")) /\ UNCHANGED audit
    BY <1>13, <1>1, <1>4, <1>6 DEF Steers, Tells
  <1> QED BY <1>9, <1>10, <1>11, <1>12, <1>13 DEF Acknowledged

LEMMA SendScriptKeeps ==
  ASSUME ChallengeInv, SendScript
  PROVE  ChallengeInv'
  <1>1. Told /\ Shown /\ Types  BY ToldAndShown DEF ChallengeInv
  <1>2. /\ pc = "select" /\ flight' = [flight EXCEPT ![attempt] = @ + 1]
        /\ pc' = "ack" /\ reply' = NoReply
        /\ UNCHANGED <<page, request, stored, storage, clicks, forms, attempt, due, seen, body,
                       captured, why, trail, journal, latched, retired, outcome>>
    BY DEF SendScript, history, capture, audit
  <1>3. /\ attempt \in Attempts /\ outcome[attempt] = "none"
        /\ Clean(attempt) /\ ~Logged(attempt, "notSubmitted") /\ captured[attempt].doc # 0
    BY <1>1, <1>2 DEF Told, Shown, JournalInv, SendInv, CaptureInv, Unsent, Answering
  <1>4. /\ flight' \in [Attempts -> Nat] /\ flight'[attempt] = 1
        /\ \A a \in Attempts : a # attempt => flight'[a] = flight[a]
    BY <1>1, <1>2, <1>3 DEF Told, ScriptType, Clean
  <1>5. \A a, x : Logged(a, x)' <=> Logged(a, x)  BY <1>2 DEF Logged
  <1>6. Told'
    <2>1. ScriptType' /\ PythonType' /\ reply'.monitor \in Monitor
      BY <1>1, <1>2, <1>4, NoMonitorTyped DEF Told, ScriptType, PythonType, Steps
    <2>2. SendInv'
      <3>1. \A a \in Attempts : a > attempt' => Clean(a)'
        BY <1>1, <1>2, <1>3, <1>4 DEF Told, SendInv, Clean, Attempts
      <3> QED BY <3>1, <1>2 DEF SendInv, Unsent, Capturing
    <2>3. JournalInv'
      BY <1>1, <1>2, <1>3, <1>5 DEF Told, JournalInv
    <2>4. OneSubmission'
      BY <1>1, <1>2, <1>3, <1>4 DEF Told, OneSubmission, Clean
    <2>5. UnsubmittedIsFinal'
      BY <1>1, <1>2, <1>3, <1>4, <1>5 DEF Told, UnsubmittedIsFinal
    <2>6. ConfirmedWasAnswered'
      BY <1>1, <1>2 DEF Told, ConfirmedWasAnswered
    <2> QED BY <2>1, <2>2, <2>3, <2>4, <2>5, <2>6 DEF Told
  <1>7. Shown'
    <2>1. BeginsNothing  BY <1>2 DEF BeginsNothing, Capturing, Answering
    <2>2. \A a \in Attempts : flight'[a] > 0 => captured[a].doc # 0
      BY <1>1, <1>3, <1>4 DEF Shown, CaptureInv
    <2> QED BY <1>1, <1>2, <2>1, <2>2, QuietShown
  <1>8. ChallengeInv' <=> Told' /\ Shown'  BY DEF ChallengeInv, Told, Shown, Types
  <1> QED BY <1>6, <1>7, <1>8

LEMMA ProbeKeeps ==
  ASSUME ChallengeInv, Probe
  PROVE  ChallengeInv'
  <1>1. Told /\ Shown /\ Types  BY ToldAndShown DEF ChallengeInv
  <1>2. /\ attempt < MaxAttempts /\ pc' = "arm" /\ attempt' = attempt + 1 /\ due' = FALSE
        /\ trail' = NewTrail
        /\ UNCHANGED <<page, request, stored, storage, flight, clicks, forms, seen, body, captured,
                       reply, why, journal, latched, retired, outcome>>
    BY DEF Probe, history, capture, pageVars
  <1>3. attempt' \in Attempts /\ attempt' > attempt /\ attempt \in Nat
    BY <1>1, <1>2, PageAssumption DEF Told, PythonType, Attempts
  <1>4. \A a \in Attempts : a > attempt' => a > attempt
    BY <1>3, PageAssumption DEF Attempts
  <1>5. /\ Clean(attempt') /\ journal[attempt'] = <<>> /\ outcome[attempt'] = "none"
        /\ captured[attempt'].doc = 0
    BY <1>1, <1>3 DEF Told, Shown, SendInv, JournalInv, CaptureInv
  <1>6. (\A a : Clean(a)' <=> Clean(a)) /\ (\A a, x : Logged(a, x)' <=> Logged(a, x))
    BY <1>2 DEF Clean, Logged
  <1>7. Told'
    <2>1. ScriptType' /\ reply'.monitor \in Monitor
      BY <1>1, <1>2 DEF Told, ScriptType
    <2>2. PythonType'
      <3>1. attempt' \in 0 .. MaxAttempts  BY <1>3, PageAssumption DEF Attempts
      <3>2. trail' \subseteq TrailFlags /\ pc' \in Steps /\ due' \in BOOLEAN
        BY <1>2 DEF NewTrail, Steps
      <3> QED BY <3>1, <3>2, <1>1, <1>2 DEF Told, PythonType
    <2>3. SendInv'
      BY <1>1, <1>2, <1>4, <1>5, <1>6 DEF Told, SendInv
    <2>4. JournalInv'
      <3>1. \A a \in Attempts : a > attempt' => journal[a] = <<>> /\ outcome[a] = "none"
        BY <1>1, <1>4 DEF Told, JournalInv
      <3>2. ~Logged(attempt', "notSubmitted")  BY <1>5 DEF Logged
      <3> QED BY <1>2, <1>3, <1>5, <1>6, <3>1, <3>2 DEF JournalInv
    <2>5. OneSubmission' /\ UnsubmittedIsFinal' /\ ConfirmedWasAnswered'
      BY <1>1, <1>2, <1>6 DEF Told, OneSubmission, UnsubmittedIsFinal, ConfirmedWasAnswered
    <2> QED BY <2>1, <2>2, <2>3, <2>4, <2>5 DEF Told
  <1>8. Shown'
    <2>1. TabType' /\ CaptureType' /\ PageInv' /\ MonitorInv' /\ AnswerFitsImage'
      BY <1>1, <1>2
      DEF Shown, TabType, CaptureType, PageInv, MonitorInv, Answered, AnswerFitsImage, Current
    <2>2. CaptureInv'
      BY <1>1, <1>2, <1>4, <1>5 DEF Shown, CaptureInv, Capturing, Answering
    <2>3. GuardInv'  BY <1>2 DEF GuardInv
    <2> QED BY <2>1, <2>2, <2>3 DEF Shown
  <1>9. ChallengeInv' <=> Told' /\ Shown'  BY DEF ChallengeInv, Told, Shown, Types
  <1> QED BY <1>7, <1>8, <1>9

LEMMA ArmMonitorKeeps ==
  ASSUME ChallengeInv, ArmMonitor
  PROVE  ChallengeInv'
  <1>1. Told /\ Shown /\ Types  BY ToldAndShown DEF ChallengeInv
  <1>2. /\ pc = "arm" /\ UNCHANGED <<request, storage, flight, clicks, forms, attempt, captured, retired>>
        /\ UNCHANGED <<seen, body>> /\ UNCHANGED audit
    BY DEF ArmMonitor, history, capture
  <1>3. /\ attempt \in Attempts /\ Clean(attempt) /\ captured[attempt].doc = 0
    BY <1>1, <1>2 DEF Told, Shown, JournalInv, SendInv, CaptureInv, Unsent, Capturing
  <1>4. Still /\ Tells  BY <1>1, <1>2 DEF Still, Tells, Types, PythonType
  <1>5. CASE Arm(attempt) /\ Goto("image", "none")
    <2>1. GoesOn
      BY <1>2, <1>3, <1>5, NoMonitorTyped DEF Goto, GoesOn, Capturing, Answering, Unsent, Steps
    <2>2. Told'  BY <1>1, <1>2, <1>4, <2>1, SteersTold DEF Steers
    <2>3. PICK m \in Monitor :
             m = [NoMonitor EXCEPT !.id = attempt] /\ m.id = attempt /\ m.evidence = "none"
      <3> DEFINE armed == [NoMonitor EXCEPT !.id = attempt]
      <3>1. armed \in Monitor /\ armed.id = attempt /\ armed.evidence = "none"
        BY <1>3, NoMonitorTyped DEF Monitor, NoMonitor, Attempts
      <3> HIDE DEF armed
      <3>2. \E m \in Monitor : m = armed /\ m.id = attempt /\ m.evidence = "none"  BY <3>1
      <3> QED BY <3>2 DEF armed
    <2>4. page' = [page EXCEPT !.monitor = m] /\ stored' = Persisted(m)
      BY <1>5, <2>3 DEF Arm
    <2>5. Rewatched(m)  BY <1>1, <2>3, <2>4, MonitorSet DEF Shown, TabType
    <2>6. Watches(m)
      <3>1. \A a \in Attempts : a = m.id => captured[a].doc = 0  BY <1>3, <2>3
      <3>2. \A a \in Attempts : flight'[a] > 0 => captured[a].doc # 0
        BY <1>1, <1>2 DEF Shown, CaptureInv
      <3> QED BY <1>2, <2>3, <2>4, <2>5, <3>1, <3>2 DEF Watches
    <2>7. BeginsNothing  BY <1>2, <1>5 DEF Goto, BeginsNothing, Capturing, Answering
    <2>8. Shown'  BY <1>1, <2>3, <2>6, <2>7, WatchShown
    <2>9. ChallengeInv' <=> Told' /\ Shown'  BY DEF ChallengeInv, Told, Shown, Types
    <2> QED BY <2>2, <2>8, <2>9
  <1>6. CASE Ends("expired") /\ UNCHANGED <<page, stored>>
    <2>1. Finishes  BY <1>3, <1>6 DEF Finishes
    <2>2. BeginsNothing  BY <1>6, IdleBegins DEF Ends
    <2>3. UNCHANGED <<pageVars, captured>>  BY <1>2, <1>6 DEF pageVars, history
    <2> QED BY <1>2, <1>4, <2>1, <2>2, <2>3, QuietSteer DEF Steers
  <1> QED BY <1>5, <1>6 DEF ArmMonitor

-----------------------------------------------------------------------------
(* The probes after the answer.                                            *)

LEMMA ReadIsTrue ==
  ASSUME Shown, attempt \in Attempts
  PROVE  Read(attempt).evidence = "exact" => Answered(attempt)
  <1>1. page.monitor \in Monitor /\ stored[attempt] \in Monitor  BY DEF Shown, TabType, Page
  <1>2. CASE page.monitor.id = attempt
    <2>1. Read(attempt) = Refreshed(page.monitor)  BY <1>2 DEF Read
    <2> QED BY <1>1, <1>2, <2>1, RefreshedKeeps DEF Shown, MonitorInv
  <1>3. CASE page.monitor.id # attempt /\ stored[attempt].id = attempt
    <2>1. Read(attempt) = Refreshed(stored[attempt])  BY <1>3 DEF Read
    <2> QED BY <1>1, <2>1, RefreshedKeeps DEF Shown, MonitorInv
  <1>4. CASE page.monitor.id # attempt /\ stored[attempt].id # attempt
    BY <1>4, NoMonitorTyped DEF Read
  <1> QED BY <1>2, <1>3, <1>4

LEMMA TouchShown ==
  ASSUME Shown, ReadTouches(attempt), BeginsNothing,
         UNCHANGED <<request, storage, flight, forms, captured, attempt>>
  PROVE  Shown'
  <1>1. \A a \in Attempts : flight'[a] > 0 => captured[a].doc # 0  BY DEF Shown, CaptureInv
  <1>2. CASE page.monitor.id = attempt
    <2>1. page.monitor \in Monitor /\ page \in Page  BY DEF Shown, TabType, Page
    <2>2. PICK m \in Monitor :
             m = Refreshed(page.monitor) /\ m.id = page.monitor.id /\ m.evidence = page.monitor.evidence
      BY <2>1, RefreshedKeeps
    <2>3. page' = [page EXCEPT !.monitor = m] /\ stored' = Persisted(m)
      BY <1>2, <2>2 DEF ReadTouches
    <2>4. Rewatched(m)  BY <2>1, <2>2, <2>3, MonitorSet
    <2>5. m.evidence = "exact" => Answered(m.id)'
      BY <2>2 DEF Shown, MonitorInv, Answered
    <2>6. Watches(m)  BY <1>1, <2>2, <2>3, <2>4, <2>5 DEF Watches
    <2> QED BY <2>2, <2>6, WatchShown
  <1>3. CASE page.monitor.id # attempt
    <2>1. UNCHANGED <<page, stored>>  BY <1>3 DEF ReadTouches
    <2> QED BY <1>1, <2>1, QuietShown
  <1> QED BY <1>2, <1>3

(* A probe keeps the invariant if what Python makes of it does.            *)
LEMMA TouchSteer ==
  ASSUME ChallengeInv, pc # "idle", ReadTouches(attempt), BeginsNothing, Steers,
         UNCHANGED <<request, storage, captured>>
  PROVE  ChallengeInv'
  <1>1. Told /\ Shown /\ Types  BY ToldAndShown DEF ChallengeInv
  <1>2. Told'  BY <1>1, SteersTold
  <1>3. Shown'  BY <1>1, TouchShown DEF Steers, Still
  <1>4. ChallengeInv' <=> Told' /\ Shown'  BY DEF ChallengeInv, Told, Shown, Types
  <1> QED BY <1>2, <1>3, <1>4

LEMMA ProbeReceiptKeeps ==
  ASSUME ChallengeInv, ProbeReceipt
  PROVE  ChallengeInv'
  <1>1. /\ pc = "receipt" /\ ReadTouches(attempt)
        /\ UNCHANGED <<request, storage, captured>>
    BY DEF ProbeReceipt, capture
  <1>2. Still  BY DEF ProbeReceipt, Still, history, ChallengeInv, Types, PythonType
  <1>3. attempt \in Attempts  BY <1>1 DEF ChallengeInv, JournalInv
  <1> SUFFICES Steers /\ BeginsNothing  BY <1>1, TouchSteer
  <1>4. CASE ConfirmsSubmission(Read(attempt))
             /\ Publish(IF why = "submitted" THEN "receipt" ELSE "reconciled", Ends("confirmed"))
    <2>1. Answered(attempt)
      BY <1>3, <1>4, ReadIsTrue, ToldAndShown DEF ConfirmsSubmission
    <2>2. PICK e \in {"receipt", "reconciled"} : Publish(e, Ends("confirmed"))  BY <1>4
    <2>3. BusFails \/ (Logs(e) /\ Ends("confirmed"))  BY <2>2 DEF Publish, BusFails, Logs
    <2>4. Ends("confirmed") => Finishes  BY <2>1 DEF Finishes
    <2>5. e \in TrailFlags /\ e # "notSubmitted"  BY DEF TrailFlags, Events
    <2>6. BeginsNothing  BY <2>3, IdleBegins DEF BusFails, Ends
    <2> QED BY <1>2, <2>3, <2>4, <2>5, <2>6, PublishSteers
  <1>5. CASE Raise  BY <1>2, <1>5, RaiseSteers, IdleBegins
  <1>6. CASE UNCHANGED <<pc, due, reply, why, audit, outcome>>
    <2>1. GoesOn
      BY <1>1, <1>6
      DEF GoesOn, ChallengeInv, Types, PythonType, Unsent, Capturing, Answering, Steps
    <2>2. BeginsNothing  BY <1>1, <1>6, IdleBegins
    <2> QED BY <1>2, <1>6, <2>1, <2>2 DEF Steers, Tells
  <1> QED BY <1>4, <1>5, <1>6 DEF ProbeReceipt

LEMMA ProbeExpirationKeeps ==
  ASSUME ChallengeInv, ProbeExpiration
  PROVE  ChallengeInv'
  <1>1. /\ pc = "natural" /\ ReadTouches(attempt)
        /\ UNCHANGED <<request, storage, captured>>
    BY DEF ProbeExpiration, capture
  <1>2. Still  BY DEF ProbeExpiration, Still, history, ChallengeInv, Types, PythonType
  <1>3. Clean(attempt)  BY <1>1 DEF ChallengeInv, SendInv, Unsent
  <1>4. Ends("expired") => Finishes /\ BeginsNothing /\ Silent
    BY <1>3, IdleBegins DEF Finishes, Ends
  <1> SUFFICES Steers /\ BeginsNothing  BY <1>1, TouchSteer
  <1>5. CASE Publish("notSubmitted", Ends("expired"))
    <2>1. BusFails \/ (Logs("notSubmitted") /\ Ends("expired"))
      BY <1>5 DEF Publish, BusFails, Logs
    <2>2. "notSubmitted" \in TrailFlags  BY DEF TrailFlags, Events
    <2>3. BeginsNothing  BY <1>4, <2>1, IdleBegins DEF BusFails
    <2> QED BY <1>2, <1>3, <1>4, <2>1, <2>2, <2>3, PublishSteers
  <1>6. CASE Ends("expired") /\ UNCHANGED audit
    BY <1>2, <1>4, <1>6 DEF Steers, Tells
  <1>7. CASE Raise  BY <1>2, <1>7, RaiseSteers, IdleBegins
  <1>8. CASE UNCHANGED <<pc, due, reply, why, audit, outcome>>
    <2>1. GoesOn
      BY <1>1, <1>3, <1>8
      DEF GoesOn, ChallengeInv, Types, PythonType, Capturing, Answering, Steps
    <2>2. BeginsNothing  BY <1>1, <1>8, IdleBegins
    <2> QED BY <1>2, <1>8, <2>1, <2>2 DEF Steers, Tells
  <1> QED BY <1>5, <1>6, <1>7, <1>8 DEF ProbeExpiration

-----------------------------------------------------------------------------
(* A script lands.                                                         *)

LEMMA LandTold ==
  ASSUME Told, Types, NEW a \in Attempts, flight[a] > 0,
         flight' = [flight EXCEPT ![a] = @ - 1],
         NEW run \in Runs(a),
         clicks' = IF run.clicked THEN [clicks EXCEPT ![a] = @ + 1] ELSE clicks,
         forms' = IF run.sent THEN forms \union {[attempt |-> a, doc |-> page.doc]} ELSE forms,
         reply' = IF pc = "ack" /\ attempt = a /\ reply = NoReply THEN run.reply ELSE reply,
         UNCHANGED <<pc, attempt, due, why, audit, retired, outcome>>
  PROVE  Told'
  <1>1. /\ flight \in [Attempts -> Nat] /\ clicks \in [Attempts -> Nat]
        /\ flight[a] = 1 /\ clicks[a] = 0
    BY DEF Told, ScriptType, OneSubmission
  <1>2. /\ flight' \in [Attempts -> Nat] /\ clicks' \in [Attempts -> Nat]
        /\ flight'[a] = 0 /\ clicks'[a] = IF run.clicked THEN 1 ELSE 0
        /\ \A b \in Attempts : b # a => flight'[b] = flight[b] /\ clicks'[b] = clicks[b]
    BY <1>1
  <1>3. page.doc \in 1 .. MaxDocs  BY DEF Types, TabType, Page
  <1>4. forms \subseteq forms' /\ forms' \subseteq [attempt : Attempts, doc : 1 .. MaxDocs]
    BY <1>3 DEF Told, ScriptType
  <1>5. UNCHANGED <<trail, journal, latched>> /\ \A b, x : Logged(b, x)' <=> Logged(b, x)
    BY DEF audit, Logged
  <1>6. /\ run.reply.monitor \in Monitor
        /\ run.clicked => ~Disclaims(run.reply)
    BY RunOf
  <1>7. ScriptType' /\ PythonType' /\ reply'.monitor \in Monitor
    <2>1. ScriptType'  BY <1>2, <1>4 DEF ScriptType
    <2>2. PythonType'  BY <1>5 DEF Told, PythonType
    <2>3. reply'.monitor \in Monitor  BY <1>6 DEF Told
    <2> QED BY <2>1, <2>2, <2>3
  <1>8. \A b \in Attempts : b # a => (Clean(b)' <=> Clean(b))  BY <1>2 DEF Clean
  <1>9. ~Clean(a) /\ (~run.clicked => Clean(a)')  BY <1>1, <1>2 DEF Clean
  <1>10. SendInv'
    <2>1. \A b \in Attempts : b > attempt => Clean(b)'
      BY <1>8, <1>9 DEF Told, SendInv
    <2>2. pc \in Unsent => attempt # a /\ Clean(attempt)
      BY <1>9 DEF Told, SendInv
    <2>3. pc \in Unsent => attempt \in Attempts
      BY DEF Told, JournalInv, Unsent, Capturing
    <2>4. pc \in Unsent => Clean(attempt)'
      BY <2>2, <2>3, <1>8
    <2>5. ASSUME pc = "ack", reply' # NoReply, Disclaims(reply') PROVE Clean(attempt)'
      <3>1. attempt \in Attempts  BY <2>5 DEF Told, JournalInv
      <3>2. CASE attempt # a
        BY <2>5, <3>1, <3>2, <1>8 DEF Told, SendInv
      <3>3. CASE attempt = a /\ reply = NoReply
        <4>1. ~run.clicked  BY <2>5, <3>3, <1>6
        <4>2. Clean(a)'  BY <4>1, <1>9
        <4> QED BY <3>3, <4>2 DEF Clean
      <3>4. CASE attempt = a /\ reply # NoReply
        BY <2>5, <3>4, <1>9 DEF Told, SendInv
      <3> QED BY <3>2, <3>3, <3>4
    <2> QED BY <2>1, <2>4, <2>5 DEF SendInv, Disclaims, Clean
  <1>11. JournalInv'  BY <1>5 DEF Told, JournalInv
  <1>12. OneSubmission'  BY <1>1, <1>2 DEF Told, OneSubmission
  <1>13. UnsubmittedIsFinal'
    BY <1>1, <1>2, <1>5 DEF Told, UnsubmittedIsFinal
  <1>14. ConfirmedWasAnswered'  BY <1>4 DEF Told, ConfirmedWasAnswered
  <1> QED BY <1>7, <1>10, <1>11, <1>12, <1>13, <1>14 DEF Told

LEMMA LandKeeps ==
  ASSUME ChallengeInv, NEW a \in Attempts, Land(a)
  PROVE  ChallengeInv'
  <1>1. Told /\ Shown /\ Types  BY ToldAndShown DEF ChallengeInv
  <1>2. PICK run \in Runs(a) :
          /\ RunScript(a, run)
          /\ reply' = IF pc = "ack" /\ attempt = a /\ reply = NoReply THEN run.reply ELSE reply
    BY DEF Land
  <1>3. /\ flight[a] > 0 /\ flight' = [flight EXCEPT ![a] = @ - 1]
        /\ UNCHANGED <<request, storage, pc, attempt, due, seen, body, captured, why, audit,
                       retired, outcome>>
    BY DEF Land, capture
  <1>4. /\ clicks' = IF run.clicked THEN [clicks EXCEPT ![a] = @ + 1] ELSE clicks
        /\ forms' = IF run.sent THEN forms \union {[attempt |-> a, doc |-> page.doc]} ELSE forms
    BY <1>2 DEF RunScript
  <1>5. Told'  BY <1>1, <1>2, <1>3, <1>4, LandTold
  <1>6. /\ run.sent => run.clicked
        /\ run.clicked => OwnMonitor(a)
    BY <1>1, <1>2, RunOf
  <1>7. BeginsNothing  BY <1>3 DEF BeginsNothing
  <1>8. \A b \in Attempts : flight'[b] > 0 => captured[b].doc # 0
    BY <1>1, <1>3 DEF Shown, CaptureInv, Told, ScriptType
  <1>9. CASE ~OwnMonitor(a)
    <2>1. UNCHANGED <<page, stored, forms>>  BY <1>2, <1>4, <1>6, <1>9 DEF RunScript
    <2>2. Shown'  BY <1>1, <1>3, <1>7, <1>8, <2>1, QuietShown
    <2> QED BY <1>5, <2>2 DEF ChallengeInv, Told, Shown, Types
  <1>10. CASE OwnMonitor(a)
    <2>1. PICK m \in Monitor : m = run.reply.monitor  BY <1>1, <1>2, RunOf
    <2>2. /\ m.id = a /\ page.monitor.id = a
          /\ m.evidence = "exact" => page.monitor.evidence = "exact" \/ run.sent
      BY <1>1, <1>2, <1>10, <2>1, RunOf DEF OwnMonitor
    <2>3. page' = [page EXCEPT !.monitor = m] /\ stored' = Persisted(m)
      BY <1>2, <1>10, <2>1 DEF RunScript
    <2>4. Rewatched(m)  BY <1>1, <2>3, MonitorSet DEF Shown, TabType
    <2>5. ASSUME m.evidence = "exact" PROVE \E f \in forms' : f.attempt = a
      <3>1. CASE run.sent
        <4>1. [attempt |-> a, doc |-> page.doc] \in forms'  BY <1>4, <3>1
        <4> QED BY <4>1
      <3>2. CASE page.monitor.evidence = "exact"
        BY <1>1, <1>4, <2>2, <3>2 DEF Shown, MonitorInv, Answered
      <3> QED BY <2>2, <2>5, <3>1, <3>2
    <2>6. \A f \in forms' \ forms : f.attempt \in Attempts /\ captured[f.attempt].doc = f.doc
      <3>1. captured[a].doc # 0 /\ captured[a].doc = page.doc
        BY <1>1, <1>3, <2>2 DEF Shown, CaptureInv
      <3> QED BY <3>1, <1>4
    <2>7. Watches(m)  BY <1>3, <1>4, <1>8, <2>2, <2>3, <2>4, <2>5, <2>6 DEF Watches, Answered
    <2>8. Shown'  BY <1>1, <1>7, <2>7, WatchShown
    <2> QED BY <1>5, <2>8 DEF ChallengeInv, Told, Shown, Types
  <1> QED BY <1>9, <1>10

-----------------------------------------------------------------------------
(* The capture.                                                            *)

(* A step of Python that keeps the page but for its guard.                 *)
Reguarded ==
    /\ page' \in Page /\ page'.monitor = page.monitor
    /\ page'.doc = page.doc /\ page'.at = page.at /\ page'.load = page.load

LEMMA GuardSet ==
  ASSUME page \in Page, NEW g \in Guard, page' = [page EXCEPT !.guard = g]
  PROVE  Reguarded /\ page'.guard = g
  BY DEF Page, Reguarded

LEMMA ReguardedShown ==
  ASSUME Shown, Reguarded, UNCHANGED <<request, stored, storage, flight, forms, captured, attempt>>,
         pc' \in Capturing => pc \in Capturing, pc' \notin Answering, GuardInv'
  PROVE  Shown'
  <1>1. TabType' /\ CaptureType'  BY DEF Shown, TabType, CaptureType, Reguarded
  <1>2. PageInv'  BY DEF Shown, PageInv, Reguarded, Current
  <1>3. MonitorInv' /\ AnswerFitsImage'
    BY DEF Shown, MonitorInv, AnswerFitsImage, Answered, Reguarded
  <1>4. CaptureInv'  BY DEF Shown, CaptureInv, Reguarded
  <1> QED BY <1>1, <1>2, <1>3, <1>4 DEF Shown

LEMMA ImageReadyKeeps ==
  ASSUME ChallengeInv, ImageReady
  PROVE  ChallengeInv'
  <1>1. Told /\ Shown /\ Types  BY ToldAndShown DEF ChallengeInv
  <1>2. /\ pc = "image" /\ pc' = "match" /\ GuardImage(attempt)
        /\ seen' = [doc |-> page.doc, src |-> Current.src, load |-> Len(request)]
        /\ UNCHANGED <<request, stored, storage, flight, clicks, forms, attempt, due, captured,
                       reply, why, audit, retired, outcome>>
    BY DEF ImageReady, history
  <1>3. Told'
    <2>1. Still  BY <1>1, <1>2 DEF Still, Types, PythonType
    <2>2. Clean(attempt)  BY <1>1, <1>2 DEF Told, SendInv, Unsent, Capturing
    <2>3. GoesOn
      BY <1>1, <1>2, <2>2 DEF GoesOn, Told, PythonType, Capturing, Answering, Steps
    <2> QED BY <1>1, <1>2, <2>1, <2>3, SteersTold DEF Steers, Tells
  <1>4. Shown'
    <2>1. PICK g \in Guard :
             g = [id |-> attempt, changed |-> FALSE] /\ page' = [page EXCEPT !.guard = g]
      <3>1. [id |-> attempt, changed |-> FALSE] \in Guard
        BY <1>1 DEF Told, PythonType, Guard
      <3> QED BY <1>2, <3>1 DEF GuardImage
    <2>2. Reguarded  BY <1>1, <2>1, GuardSet DEF Shown, TabType
    <2>3. GuardInv'
      <3>1. page'.load = Len(request)  BY <1>1, <2>2 DEF Shown, PageInv, Reguarded
      <3>2. Current' = Current  BY <1>2, <2>2 DEF Current, Reguarded
      <3>3. page.at = "riddle"  BY <1>2 DEF GuardImage
      <3> QED BY <1>2, <2>2, <3>1, <3>2, <3>3 DEF GuardInv, Reguarded
    <2> QED BY <1>1, <1>2, <2>2, <2>3, ReguardedShown DEF Capturing, Answering
  <1> QED BY <1>3, <1>4 DEF ChallengeInv, Told, Shown, Types

(* The request found is of the image shown, if the guard still holds.      *)
LEMMA MatchOfShown ==
  ASSUME Shown, NEW n, NEW b,
         n \in page.load .. Len(request),
         page.at = "riddle",
         b \in Matching(page.doc, Current.src, n),
         Cardinality(Matching(page.doc, Current.src, n)) = 1
  PROVE  /\ b = page.load
         /\ \A j \in 1 .. b - 1 :
              (request[j].doc = request[b].doc /\ request[j].src = request[b].src)
                 => request[j].taken
  <1> DEFINE fit == Matching(page.doc, Current.src, n)
  <1>1. /\ page.load = Len(request) /\ n = page.load /\ page.load \in Nat \ {0}
        /\ Current = request[page.load] /\ Current.doc = page.doc
    BY DEF Shown, PageInv, TabType, Page, Current
  <1>2. /\ fit = {i \in 1 .. page.load : /\ ~request[i].taken /\ request[i].doc = Current.doc
                                         /\ request[i].src = Current.src}
    BY <1>1 DEF Matching
  <1>3. fit = {b}
    <2>1. IsFiniteSet(1 .. page.load)  BY <1>1, FS_Interval
    <2>2. IsFiniteSet(fit)  BY <1>2, <2>1, FS_Subset
    <2> HIDE DEF fit
    <2>3. Cardinality(fit) = 1 /\ b \in fit  BY DEF fit
    <2> QED BY <2>2, <2>3, FS_Singleton
  <1> HIDE DEF fit
  <1>4. ~request[page.load].taken
    <2> SUFFICES ASSUME request[page.load].taken PROVE FALSE  OBVIOUS
    <2>1. b \in 1 .. page.load /\ ~request[b].taken
          /\ request[b].doc = Current.doc /\ request[b].src = Current.src
      BY <1>2, <1>3
    <2>2. b # page.load /\ b < page.load  BY <1>1, <2>1
    <2> QED BY <1>1, <2>1, <2>2 DEF Shown, PageInv
  <1>5. page.load \in fit  BY <1>1, <1>2, <1>4
  <1>6. b = page.load  BY <1>3, <1>5
  <1>7. ASSUME NEW j \in 1 .. b - 1, request[j].doc = request[b].doc, request[j].src = request[b].src,
               ~request[j].taken
        PROVE FALSE
    <2>1. j \in 1 .. page.load /\ j # b  BY <1>1, <1>6, <1>7
    <2>2. j \in fit  BY <1>1, <1>2, <1>6, <1>7, <2>1
    <2> QED BY <1>3, <2>1, <2>2
  <1> QED BY <1>6, <1>7

LEMMA MatchRequestKeeps ==
  ASSUME ChallengeInv, MatchRequest
  PROVE  ChallengeInv'
  <1>1. Told /\ Shown /\ Types  BY ToldAndShown DEF ChallengeInv
  <1>2. /\ pc = "match"
        /\ UNCHANGED <<page, request, stored, storage, flight, clicks, forms, attempt, captured, retired>>
    BY DEF MatchRequest, pageVars, history
  <1>3. Still  BY <1>1, <1>2 DEF Still, Types, PythonType
  <1>4. PICK doc \in {seen.doc, page.doc}, n \in seen.load .. Len(request) :
          \/ /\ Cardinality(Matching(doc, seen.src, n)) = 1
             /\ body' \in Matching(doc, seen.src, n)
             /\ pc' = "verify" /\ UNCHANGED <<due, reply, why, audit, outcome, seen>>
          \/ Raise
    BY DEF MatchRequest
  <1>5. CASE Raise
    <2>1. Steers /\ BeginsNothing  BY <1>3, <1>5, RaiseSteers, IdleBegins
    <2> QED BY <1>2, <2>1, QuietSteer DEF pageVars, history
  <1>6. CASE /\ Cardinality(Matching(doc, seen.src, n)) = 1
             /\ body' \in Matching(doc, seen.src, n)
             /\ pc' = "verify" /\ UNCHANGED <<due, reply, why, audit, outcome, seen>>
    <2>1. Told'
      <3>1. Clean(attempt)  BY <1>1, <1>2 DEF Told, SendInv, Unsent, Capturing
      <3>2. GoesOn
        BY <1>1, <1>2, <1>6, <3>1 DEF GoesOn, Told, PythonType, Capturing, Answering, Steps
      <3> QED BY <1>1, <1>2, <1>3, <1>6, <3>2, SteersTold DEF Steers, Tells
    <2>2. GuardInv'
      <3>1. body' \in 1 .. Len(request)
        <4>1. Len(request) \in Nat  BY <1>1, LenProperties DEF Shown, TabType
        <4> QED BY <1>6, <4>1 DEF Matching
      <3>2. ASSUME Guarded
            PROVE  /\ body' = page.load
                   /\ \A j \in 1 .. body' - 1 :
                        (request[j].doc = request[body'].doc /\ request[j].src = request[body'].src)
                           => request[j].taken
        <4>1. page.doc = seen.doc /\ page.at = "riddle" /\ page.load = seen.load
              /\ Current.src = seen.src
          BY <1>1, <1>2, <3>2 DEF Shown, GuardInv
        <4>2. PICK b : b = body'  OBVIOUS
        <4> QED BY <1>1, <1>4, <1>6, <4>1, <4>2, MatchOfShown
      <3>3. Guarded' <=> Guarded  BY <1>2 DEF Guarded
      <3>4. Current' = Current  BY <1>2 DEF Current
      <3> QED BY <1>1, <1>2, <1>6, <3>1, <3>2, <3>3, <3>4 DEF Shown, GuardInv
    <2>3. Reguarded  BY <1>1, <1>2 DEF Reguarded, Shown, TabType
    <2>4. Shown'
      BY <1>1, <1>2, <1>6, <2>2, <2>3, ReguardedShown DEF Capturing, Answering
    <2> QED BY <2>1, <2>4 DEF ChallengeInv, Told, Shown, Types
  <1> QED BY <1>4, <1>5, <1>6

(* Taking a request after all its earlier look-alikes keeps their order.   *)
LEMMA TakenInOrder ==
  ASSUME TabType, PageInv, NEW b \in 1 .. Len(request),
         \A j \in 1 .. b - 1 :
            (request[j].doc = request[b].doc /\ request[j].src = request[b].src) => request[j].taken,
         request' = [request EXCEPT ![b].taken = TRUE]
  PROVE  /\ request' \in Seq(Request) /\ Len(request') = Len(request)
         /\ \A i, j \in 1 .. Len(request') :
               (j < i /\ request'[j].doc = request'[i].doc /\ request'[j].src = request'[i].src
                  /\ request'[i].taken) => request'[j].taken
         /\ \A i \in 1 .. Len(request) : request'[i].doc = request[i].doc
  <1> DEFINE r == [request[b] EXCEPT !.taken = TRUE]
  <1>1. request[b] \in Request  BY ElementOfSeq DEF TabType
  <1>2. r \in Request /\ r.doc = request[b].doc /\ r.src = request[b].src /\ r.taken
    BY <1>1 DEF Request
  <1>3. request' = [request EXCEPT ![b] = r]  OBVIOUS
  <1> HIDE DEF r
  <1>4. /\ request' \in Seq(Request) /\ Len(request') = Len(request)
        /\ \A i \in 1 .. Len(request) : request'[i] = IF i = b THEN r ELSE request[i]
    <2>1. request \in Seq(Request)  BY DEF TabType
    <2>2. r \in Request  BY <1>2
    <2>3. /\ [request EXCEPT ![b] = r] \in Seq(Request)
          /\ Len([request EXCEPT ![b] = r]) = Len(request)
          /\ \A i \in 1 .. Len(request) :
               [request EXCEPT ![b] = r][i] = IF i = b THEN r ELSE request[i]
      BY <2>1, <2>2, ExceptSeq
    <2> QED BY <1>3, <2>3
  <1>5. \A i \in 1 .. Len(request) :
           /\ request'[i].doc = request[i].doc /\ request'[i].src = request[i].src
           /\ request[i].taken => request'[i].taken
           /\ i # b => request'[i].taken = request[i].taken
    BY <1>2, <1>4
  <1>6. Len(request) \in Nat  BY LenProperties DEF TabType
  <1>7. ASSUME NEW i \in 1 .. Len(request), NEW j \in 1 .. Len(request), j < i,
               request'[j].doc = request'[i].doc, request'[j].src = request'[i].src, request'[i].taken
        PROVE  request'[j].taken
    <2>1. request[j].doc = request[i].doc /\ request[j].src = request[i].src  BY <1>5, <1>7
    <2>2. CASE i = b
      <3>1. j \in 1 .. b - 1  BY <1>6, <1>7, <2>2
      <3> QED BY <1>5, <2>1, <2>2, <3>1
    <2>3. CASE i # b
      <3>1. request[i].taken  BY <1>5, <1>7, <2>3
      <3> QED BY <1>5, <1>7, <2>1, <3>1 DEF PageInv
    <2> QED BY <2>2, <2>3
  <1> QED BY <1>4, <1>5, <1>7

LEMMA VerifyKeeps ==
  ASSUME ChallengeInv, Verify
  PROVE  ChallengeInv'
  <1>1. Told /\ Shown /\ Types  BY ToldAndShown DEF ChallengeInv
  <1>2. /\ pc = "verify" /\ page' = [page EXCEPT !.guard = NoGuard]
        /\ UNCHANGED <<stored, storage, flight, clicks, forms, attempt, retired>>
    BY DEF Verify, history
  <1>3. Still  BY <1>1, <1>2 DEF Still, Types, PythonType
  <1>4. attempt \in Attempts  BY <1>1, <1>2 DEF Told, JournalInv
  <1>5. Reguarded /\ page'.guard = NoGuard
    <2>1. NoGuard \in Guard  BY PageAssumption DEF NoGuard, Guard
    <2> QED BY <1>1, <1>2, <2>1, GuardSet DEF Shown, TabType
  <1>6. CASE Raise /\ UNCHANGED <<captured, request>>
    <2>1. Steers /\ pc' = "idle"  BY <1>3, <1>6, RaiseSteers
    <2>2. Told'  BY <1>1, <1>2, <2>1, SteersTold
    <2>3. Shown'
      BY <1>1, <1>2, <1>5, <1>6, <2>1, ReguardedShown DEF GuardInv, Capturing, Answering
    <2> QED BY <2>2, <2>3 DEF ChallengeInv, Told, Shown, Types
  <1>7. CASE /\ Stable(attempt, seen)
             /\ captured' = [captured EXCEPT ![attempt] =
                    [doc |-> page.doc, load |-> body, shown |-> page.load]]
             /\ request' = [request EXCEPT ![body].taken = TRUE]
             /\ pc' = "predict" /\ UNCHANGED <<due, reply, why, audit, outcome>>
    <2>1. Told'
      <3>1. Clean(attempt)  BY <1>1, <1>2 DEF Told, SendInv, Unsent, Capturing
      <3>2. GoesOn
        BY <1>1, <1>2, <1>7, <3>1 DEF GoesOn, Told, PythonType, Capturing, Answering, Steps
      <3> QED BY <1>1, <1>2, <1>3, <1>7, <3>2, SteersTold DEF Steers, Tells
    <2>2. Guarded  BY <1>7 DEF Stable, Guarded
    <2>3. /\ body \in 1 .. Len(request) /\ body = page.load
          /\ \A j \in 1 .. body - 1 :
               (request[j].doc = request[body].doc /\ request[j].src = request[body].src)
                  => request[j].taken
      BY <1>1, <1>2, <2>2 DEF Shown, GuardInv
    <2>4. /\ request' \in Seq(Request) /\ Len(request') = Len(request)
          /\ \A i, j \in 1 .. Len(request') :
               (j < i /\ request'[j].doc = request'[i].doc /\ request'[j].src = request'[i].src
                  /\ request'[i].taken) => request'[j].taken
          /\ \A i \in 1 .. Len(request) : request'[i].doc = request[i].doc
      BY <1>1, <1>7, <2>3, TakenInOrder DEF Shown
    <2>5. page.doc \in 1 .. MaxDocs /\ page.load \in 1 .. MaxLoads  BY <1>1 DEF Shown, TabType, Page
    <2>6. /\ captured' \in [Attempts -> Capture]
          /\ captured'[attempt].doc = page.doc
          /\ captured'[attempt].load = captured'[attempt].shown
          /\ \A a \in Attempts : a # attempt => captured'[a] = captured[a]
      <3> DEFINE c == [doc |-> page.doc, load |-> body, shown |-> page.load]
      <3>1. c \in Capture /\ c.doc = page.doc /\ c.load = c.shown
        BY <2>3, <2>5 DEF Capture
      <3>2. captured' = [captured EXCEPT ![attempt] = c]  BY <1>7
      <3> HIDE DEF c
      <3> QED BY <1>1, <1>4, <3>1, <3>2 DEF Shown, CaptureType
    <2>7. captured[attempt].doc = 0  BY <1>1, <1>2 DEF Shown, CaptureInv, Capturing
    <2>8. TabType' /\ CaptureType'
      BY <1>1, <1>2, <1>5, <2>4, <2>6 DEF Shown, TabType, CaptureType, Reguarded
    <2>9. PageInv'
      <3>1. Current'.doc = Current.doc
        BY <1>5, <2>3, <2>4 DEF Current, Reguarded
      <3> QED BY <1>1, <1>5, <2>4, <3>1 DEF Shown, PageInv, Reguarded
    <2>10. MonitorInv'
      BY <1>1, <1>2, <1>5 DEF Shown, MonitorInv, Answered, Reguarded
    <2>11. CaptureInv'
      <3>1. \A a \in Attempts : captured'[a].load = captured'[a].shown
        BY <1>1, <2>6 DEF Shown, CaptureInv
      <3>2. \A a \in Attempts : a > attempt' => captured'[a].doc = 0
        BY <1>1, <1>2, <1>4, <2>6 DEF Shown, CaptureInv, Attempts
      <3>3. captured'[attempt'].doc # 0  BY <1>2, <2>5, <2>6
      <3>4. \A a \in Attempts : flight'[a] > 0 => captured'[a].doc # 0
        BY <1>1, <1>2, <2>5, <2>6 DEF Shown, CaptureInv
      <3>5. \A a \in Attempts :
               page'.monitor.id = a /\ captured'[a].doc # 0 => captured'[a].doc = page'.doc
        BY <1>1, <1>5, <2>6 DEF Shown, CaptureInv, Reguarded
      <3> QED BY <1>7, <3>1, <3>2, <3>3, <3>4, <3>5 DEF CaptureInv, Capturing
    <2>12. GuardInv'  BY <1>7 DEF GuardInv
    <2>13. AnswerFitsImage'
      <3>1. ASSUME NEW f \in forms PROVE f.attempt # attempt /\ f.attempt \in Attempts
        <4>1. f.attempt \in Attempts /\ f.doc \in 1 .. MaxDocs
          BY <1>1 DEF Told, ScriptType
        <4> QED BY <1>1, <2>7, <4>1 DEF Shown, AnswerFitsImage
      <3> QED BY <1>1, <1>2, <2>6, <3>1 DEF Shown, AnswerFitsImage
    <2> QED BY <2>1, <2>8, <2>9, <2>10, <2>11, <2>12, <2>13
        DEF ChallengeInv, Told, Shown, Types
  <1> QED BY <1>6, <1>7 DEF Verify

-----------------------------------------------------------------------------
(* What the tab does by itself.                                            *)

python == <<pc, attempt, due, seen, body, captured, reply, why, trail, journal, latched, retired, outcome>>

LEMMA TabTold ==
  ASSUME Told, UNCHANGED python, UNCHANGED <<flight, clicks, forms>>
  PROVE  Told'
  BY DEF Told, python, ScriptType, PythonType, SendInv, JournalInv, OneSubmission,
         UnsubmittedIsFinal, ConfirmedWasAnswered, Logged, Clean, Disclaims, Proves

(* What is left to show of a move of the tab.                              *)
LEMMA TabShown ==
  ASSUME Shown, UNCHANGED python, UNCHANGED <<flight, clicks, forms>>,
         TabType', PageInv', MonitorInv', GuardInv',
         page'.monitor.id \in {page.monitor.id, 0}, page'.doc # page.doc => page'.monitor.id = 0
  PROVE  Shown'
  <1>1. CaptureType' /\ AnswerFitsImage'
    BY DEF Shown, CaptureType, AnswerFitsImage, python
  <1>2. CaptureInv'
    <2>1. \A a \in Attempts :
             page'.monitor.id = a /\ captured[a].doc # 0 => captured[a].doc = page'.doc
      BY DEF Shown, CaptureInv, Attempts
    <2> QED BY <2>1 DEF Shown, CaptureInv, python
  <1> QED BY <1>1, <1>2 DEF Shown

LEMMA RiddleReadyKeeps ==
  ASSUME Shown, UNCHANGED python, RiddleReady
  PROVE  Shown'
  <1>1. /\ page' = [page EXCEPT !.ready = TRUE]
        /\ UNCHANGED <<request, stored, storage, flight, clicks, forms>>
    BY DEF RiddleReady, history
  <1>2. page.monitor \in Monitor /\ page \in Page  BY DEF Shown, TabType, Page
  <1>3. page.monitor.evidence = "exact" => Answered(page.monitor.id)'
    BY <1>1 DEF Shown, MonitorInv, Answered
  <1>4. Rewatched(page.monitor)  BY <1>1, <1>2 DEF Page, Rewatched
  <1>5. Watches(page.monitor)
    BY <1>1, <1>3, <1>4 DEF Watches, Shown, CaptureInv, python
  <1>6. BeginsNothing  BY DEF BeginsNothing, python
  <1> QED BY <1>2, <1>5, <1>6, WatchShown

LEMMA StorageFailsKeeps ==
  ASSUME Shown, UNCHANGED python, StorageFails
  PROVE  Shown'
  <1>1. storage' = FALSE /\ UNCHANGED <<page, request, stored, flight, clicks, forms>>
    BY DEF StorageFails, history
  <1> QED BY <1>1 DEF Shown, TabType, CaptureType, PageInv, MonitorInv, CaptureInv, GuardInv,
                      AnswerFitsImage, Answered, Guarded, Current, python

LEMMA BattleShownKeeps ==
  ASSUME Shown, UNCHANGED python, BattleShown
  PROVE  Shown'
  <1>1. /\ page.at = "blank" /\ page' = [page EXCEPT !.at = "battle"]
        /\ UNCHANGED <<request, stored, storage, flight, clicks, forms>>
    BY DEF BattleShown, history
  <1>2. /\ page' \in Page /\ page'.at = "battle" /\ page'.monitor = page.monitor
        /\ page'.doc = page.doc /\ page'.load = page.load /\ page'.guard = page.guard
    BY <1>1 DEF Shown, TabType, Page
  <1>3. TabType' /\ PageInv' /\ MonitorInv'
    BY <1>1, <1>2 DEF Shown, TabType, PageInv, MonitorInv, Answered
  <1>4. GuardInv'
    BY <1>1, <1>2 DEF Shown, GuardInv, Guarded, python
  <1> QED BY <1>1, <1>2, <1>3, <1>4, TabShown

LEMMA ImageLoadsKeeps ==
  ASSUME Shown, UNCHANGED python, ImageLoads
  PROVE  Shown'
  <1>1. PICK done \in {"ok", "failed"} : request' = [request EXCEPT ![page.load].done = done]
    BY DEF ImageLoads
  <1>2. UNCHANGED <<page, stored, storage, flight, clicks, forms>>
    BY DEF ImageLoads, history
  <1> DEFINE r == [request[page.load] EXCEPT !.done = done]
  <1>3. page.load \in 1 .. Len(request)  BY DEF Shown, TabType, PageInv, Page
  <1>4. request[page.load] \in Request  BY <1>3, ElementOfSeq DEF Shown, TabType
  <1>5. /\ r \in Request /\ r.doc = request[page.load].doc /\ r.src = request[page.load].src
        /\ r.taken = request[page.load].taken
    BY <1>4 DEF Request
  <1>6. request' = [request EXCEPT ![page.load] = r]  BY <1>1
  <1> HIDE DEF r
  <1>7. /\ request' \in Seq(Request) /\ Len(request') = Len(request)
        /\ \A i \in 1 .. Len(request) :
             /\ request'[i].doc = request[i].doc /\ request'[i].src = request[i].src
             /\ request'[i].taken = request[i].taken
    <2>1. request \in Seq(Request) /\ r \in Request  BY <1>5 DEF Shown, TabType
    <2>2. /\ [request EXCEPT ![page.load] = r] \in Seq(Request)
          /\ Len([request EXCEPT ![page.load] = r]) = Len(request)
          /\ \A i \in 1 .. Len(request) :
               [request EXCEPT ![page.load] = r][i] = IF i = page.load THEN r ELSE request[i]
      BY <2>1, <1>3, ExceptSeq
    <2> QED BY <2>2, <1>5, <1>6
  <1>8. TabType' /\ MonitorInv'
    BY <1>2, <1>7 DEF Shown, TabType, MonitorInv, Answered
  <1>9. Current'.doc = Current.doc /\ Current'.src = Current.src
    BY <1>2, <1>3, <1>7 DEF Current
  <1>10. PageInv'  BY <1>2, <1>7, <1>9 DEF Shown, PageInv
  <1>11. GuardInv'
    <2>1. Guarded' <=> Guarded  BY <1>2 DEF Guarded, python
    <2>2. pc = "verify" => body \in 1 .. Len(request)  BY DEF Shown, GuardInv
    <2>3. Len(request) \in Nat  BY LenProperties DEF Shown, TabType
    <2>4. ASSUME pc = "verify", Guarded,
                 NEW j \in 1 .. body - 1, request'[j].doc = request'[body].doc,
                 request'[j].src = request'[body].src
          PROVE  request'[j].taken
      <3>1. j \in 1 .. Len(request)  BY <2>2, <2>3, <2>4
      <3>2. request[j].doc = request[body].doc /\ request[j].src = request[body].src
        BY <1>7, <2>2, <2>4, <3>1
      <3>3. request[j].taken  BY <2>4, <3>2 DEF Shown, GuardInv
      <3> QED BY <1>7, <3>1, <3>3
    <2> QED BY <1>2, <1>7, <1>9, <2>1, <2>4 DEF Shown, GuardInv, python
  <1> QED BY <1>2, <1>8, <1>10, <1>11, TabShown

LEMMA RequestedKeeps ==
  ASSUME TabType, PageInv, NEW doc \in 1 .. MaxDocs, Requested(doc)
  PROVE  /\ request' \in Seq(Request) /\ Len(request') = Len(request) + 1
         /\ Len(request) + 1 \in 1 .. MaxLoads
         /\ \A i \in 1 .. Len(request) : request'[i] = request[i]
         /\ request'[Len(request')].doc = doc
         /\ \A i, j \in 1 .. Len(request') :
               (j < i /\ request'[j].doc = request'[i].doc /\ request'[j].src = request'[i].src
                  /\ request'[i].taken) => request'[j].taken
  <1>1. PICK s \in Sources :
          request' = Append(request, [doc |-> doc, src |-> s, done |-> "no", taken |-> FALSE])
    BY DEF Requested
  <1> DEFINE r == [doc |-> doc, src |-> s, done |-> "no", taken |-> FALSE]
  <1>2. r \in Request /\ r.doc = doc /\ ~r.taken  BY DEF Request
  <1>3. request' = Append(request, r)  BY <1>1
  <1> HIDE DEF r
  <1>4. request \in Seq(Request) /\ Len(request) \in Nat  BY LenProperties DEF TabType
  <1>5. /\ request' \in Seq(Request) /\ Len(request') = Len(request) + 1
        /\ \A i \in 1 .. Len(request) : request'[i] = request[i]
        /\ request'[Len(request) + 1] = r
    BY <1>2, <1>3, <1>4
  <1>6. Len(request) + 1 \in 1 .. MaxLoads  BY <1>4, PageAssumption DEF Requested
  <1>7. ASSUME NEW i \in 1 .. Len(request'), NEW j \in 1 .. Len(request'), j < i,
               request'[j].doc = request'[i].doc, request'[j].src = request'[i].src,
               request'[i].taken
        PROVE  request'[j].taken
    <2>1. i # Len(request) + 1  BY <1>2, <1>5, <1>7
    <2>2. i \in 1 .. Len(request) /\ j \in 1 .. Len(request)  BY <1>4, <1>5, <1>7, <2>1
    <2> QED BY <1>5, <1>7, <2>2 DEF PageInv
  <1> QED BY <1>2, <1>5, <1>6, <1>7

LEMMA ImageReplacedKeeps ==
  ASSUME Shown, JournalInv, UNCHANGED python, ImageReplaced
  PROVE  Shown'
  <1>1. /\ page.at = "riddle" /\ Requested(page.doc)
        /\ page' = [page EXCEPT !.load = Len(request) + 1, !.guard.changed = @ \/ page.guard.id # 0]
        /\ UNCHANGED <<stored, storage, flight, clicks, forms>>
    BY DEF ImageReplaced, history
  <1>2. page \in Page /\ page.doc \in 1 .. MaxDocs /\ page.guard \in Guard
    BY DEF Shown, TabType, Page
  <1>3. /\ request' \in Seq(Request) /\ Len(request') = Len(request) + 1
        /\ Len(request) + 1 \in 1 .. MaxLoads
        /\ \A i \in 1 .. Len(request) : request'[i] = request[i]
        /\ request'[Len(request')].doc = page.doc
        /\ \A i, j \in 1 .. Len(request') :
              (j < i /\ request'[j].doc = request'[i].doc /\ request'[j].src = request'[i].src
                 /\ request'[i].taken) => request'[j].taken
    BY <1>1, <1>2, RequestedKeeps DEF Shown
  <1>4. PICK g \in Guard :
          /\ g.id = page.guard.id /\ (g.id # 0 => g.changed)
          /\ page' = [page EXCEPT !.load = Len(request) + 1, !.guard = g]
    <2> DEFINE n == [page.guard EXCEPT !.changed = @ \/ page.guard.id # 0]
    <2>1. n \in Guard /\ n.id = page.guard.id /\ (n.id # 0 => n.changed)  BY <1>2 DEF Guard
    <2>2. page' = [page EXCEPT !.load = Len(request) + 1, !.guard = n]  BY <1>1
    <2> HIDE DEF n
    <2> QED BY <2>1, <2>2
  <1>5. /\ page' \in Page /\ page'.load = Len(request) + 1 /\ page'.guard = g
        /\ page'.doc = page.doc /\ page'.at = page.at /\ page'.monitor = page.monitor
    BY <1>2, <1>3, <1>4 DEF Page
  <1>6. TabType' /\ MonitorInv'
    BY <1>1, <1>3, <1>5 DEF Shown, TabType, MonitorInv, Answered
  <1>7. PageInv'  BY <1>3, <1>5 DEF PageInv, Current
  <1>8. GuardInv'
    <2>1. pc \in {"match", "verify"} => ~Guarded'
      BY <1>4, <1>5 DEF Guarded, JournalInv, Attempts, python
    <2>2. pc = "verify" => body \in 1 .. Len(request')
      <3>1. Len(request) \in Nat  BY LenProperties DEF Shown, TabType
      <3> QED BY <1>3, <3>1 DEF Shown, GuardInv
    <2> QED BY <2>1, <2>2 DEF GuardInv, python
  <1> QED BY <1>1, <1>5, <1>6, <1>7, <1>8, TabShown

LEMMA VanishesKeeps ==
  ASSUME Shown, JournalInv, UNCHANGED python, Vanishes
  PROVE  Shown'
  <1>1. UNCHANGED <<request, storage, flight, clicks, forms>>  BY DEF Vanishes, history
  <1>2. page \in Page /\ page.guard \in Guard /\ page.monitor \in Monitor
    BY DEF Shown, TabType, Page
  <1>3. PICK m \in Monitor :
          /\ m.id = page.monitor.id /\ (m.evidence = "exact" => page.monitor.evidence = "exact")
          /\ page' = [page EXCEPT !.submit = FALSE, !.at = "battle", !.monitor = m,
                                  !.guard.changed = @ \/ page.guard.id # 0]
          /\ stored' = Persisted(m)
    <2>1. CASE page.monitor.id = 0
      BY <2>1, NoMonitorTyped DEF Vanishes
    <2>2. CASE page.monitor.id # 0
      BY <2>2, <1>2, GoneKeeps DEF Vanishes
    <2> QED BY <2>1, <2>2
  <1>4. PICK g \in Guard :
          /\ g.id = page.guard.id /\ (g.id # 0 => g.changed)
          /\ page' = [page EXCEPT !.submit = FALSE, !.at = "battle", !.monitor = m, !.guard = g]
    <2> DEFINE n == [page.guard EXCEPT !.changed = @ \/ page.guard.id # 0]
    <2>1. n \in Guard /\ n.id = page.guard.id /\ (n.id # 0 => n.changed)  BY <1>2 DEF Guard
    <2>2. page' = [page EXCEPT !.submit = FALSE, !.at = "battle", !.monitor = m, !.guard = n]
      BY <1>3
    <2> HIDE DEF n
    <2> QED BY <2>1, <2>2
  <1>5. /\ page' \in Page /\ page'.load = page.load /\ page'.guard = g
        /\ page'.doc = page.doc /\ page'.at = "battle" /\ page'.monitor = m
    BY <1>2, <1>3, <1>4 DEF Page
  <1>6. m.evidence = "exact" => Answered(m.id)'
    BY <1>1, <1>3 DEF Shown, MonitorInv, Answered
  <1>7. MonitorInv' /\ stored' \in [Attempts -> Monitor]
    BY <1>1, <1>3, <1>5, <1>6, WatchTrue DEF Shown
  <1>8. TabType'  BY <1>1, <1>5, <1>7 DEF Shown, TabType
  <1>9. PageInv'  BY <1>1, <1>5 DEF Shown, PageInv
  <1>10. GuardInv'
    <2>1. pc \in {"match", "verify"} => ~Guarded'
      BY <1>4, <1>5 DEF Guarded, JournalInv, Attempts, python
    <2> QED BY <1>1, <2>1 DEF Shown, GuardInv, python
  <1> QED BY <1>1, <1>3, <1>5, <1>7, <1>8, <1>9, <1>10, TabShown

LEMMA NavigatesKeeps ==
  ASSUME Shown, JournalInv, UNCHANGED python, Navigates
  PROVE  Shown'
  <1>1. page.doc < MaxDocs /\ UNCHANGED <<storage, flight, clicks, forms>>
    BY DEF Navigates, history
  <1>2. page \in Page /\ page.monitor \in Monitor /\ page.doc + 1 \in 1 .. MaxDocs
        /\ page.doc + 1 # page.doc
    BY <1>1, PageAssumption DEF Shown, TabType, Page
  <1>3. /\ stored' \in [Attempts -> Monitor]
        /\ \A a \in Attempts : stored'[a].evidence = "exact" => Answered(a)
    <2>1. CASE stored' = stored  BY <2>1 DEF Shown, TabType, MonitorInv
    <2>2. CASE stored' = Persisted(Gone(page.monitor))
      <3>1. PICK m \in Monitor :
              /\ m = Gone(page.monitor) /\ m.id = page.monitor.id
              /\ m.evidence = page.monitor.evidence
        BY <1>2, GoneKeeps
      <3>2. /\ stored' \in [Attempts -> Monitor]
            /\ \A a \in Attempts : stored'[a] = stored[a] \/ (a = m.id /\ stored'[a] = m)
        BY <2>2, <3>1, PersistedTyped DEF Shown, TabType
      <3> QED BY <3>1, <3>2 DEF Shown, MonitorInv
    <2> QED BY <2>1, <2>2 DEF Navigates
  <1>4. ASSUME page'.doc = page.doc + 1, page'.monitor = NoMonitor, page'.guard = NoGuard,
               TabType', PageInv', Len(request') >= Len(request)
        PROVE  Shown'
    <2>1. MonitorInv'
      BY <1>1, <1>3, <1>4, NoMonitorTyped DEF MonitorInv, Answered
    <2>2. GuardInv'
      <3>1. pc \in {"match", "verify"} => ~Guarded'
        BY <1>4 DEF Guarded, NoGuard, JournalInv, Attempts, python
      <3>2. pc = "verify" => body \in 1 .. Len(request')
        <4>1. Len(request) \in Nat /\ Len(request') \in Nat
          BY <1>4, LenProperties DEF Shown, TabType
        <4> QED BY <1>4, <4>1 DEF Shown, GuardInv
      <3> QED BY <3>1, <3>2 DEF GuardInv, python
    <2> QED BY <1>1, <1>4, <2>1, <2>2, NoMonitorTyped, TabShown
  <1>5. NoGuard \in Guard  BY PageAssumption DEF NoGuard, Guard
  <1>6. CASE /\ page' = [Riddle(page.doc + 1, page.load) EXCEPT !.at = "blank", !.submit = FALSE]
             /\ UNCHANGED request
    <2>1. /\ page' \in Page /\ page'.doc = page.doc + 1 /\ page'.monitor = NoMonitor
          /\ page'.guard = NoGuard /\ page'.at = "blank" /\ page'.load = page.load
      BY <1>2, <1>5, <1>6, NoMonitorTyped DEF Riddle, Page
    <2>2. TabType' /\ PageInv'
      BY <1>1, <1>3, <1>6, <2>1 DEF Shown, TabType, PageInv
    <2>3. Len(request) \in Nat  BY LenProperties DEF Shown, TabType
    <2> QED BY <1>4, <1>6, <2>1, <2>2, <2>3
  <1>7. CASE Requested(page.doc + 1) /\ page' = Riddle(page.doc + 1, Len(request) + 1)
    <2>1. /\ request' \in Seq(Request) /\ Len(request') = Len(request) + 1
          /\ Len(request) + 1 \in 1 .. MaxLoads
          /\ request'[Len(request')].doc = page.doc + 1
          /\ \A i, j \in 1 .. Len(request') :
                (j < i /\ request'[j].doc = request'[i].doc /\ request'[j].src = request'[i].src
                   /\ request'[i].taken) => request'[j].taken
      BY <1>2, <1>7, RequestedKeeps DEF Shown
    <2>2. /\ page' \in Page /\ page'.doc = page.doc + 1 /\ page'.monitor = NoMonitor
          /\ page'.guard = NoGuard /\ page'.at = "riddle" /\ page'.load = Len(request) + 1
      BY <1>2, <1>5, <1>7, <2>1, NoMonitorTyped DEF Riddle, Page
    <2>3. TabType'  BY <1>1, <1>3, <2>1, <2>2 DEF Shown, TabType
    <2>4. PageInv'  BY <2>1, <2>2 DEF PageInv, Current
    <2>5. Len(request) \in Nat  BY LenProperties DEF Shown, TabType
    <2> QED BY <1>4, <2>1, <2>2, <2>3, <2>4, <2>5
  <1> QED BY <1>6, <1>7 DEF Navigates

LEMMA TabKeeps ==
  ASSUME ChallengeInv, TabMoves
  PROVE  ChallengeInv'
  <1>1. Told /\ Shown /\ JournalInv  BY ToldAndShown DEF ChallengeInv
  <1>2. Tab /\ UNCHANGED python  BY DEF TabMoves, python, capture, audit
  <1>3. UNCHANGED <<flight, clicks, forms>>
    BY <1>2 DEF Tab, RiddleReady, ImageLoads, ImageReplaced, Vanishes, Navigates, BattleShown,
                StorageFails, history
  <1>4. Told'  BY <1>1, <1>2, <1>3, TabTold
  <1>5. Shown'
    BY <1>1, <1>2, RiddleReadyKeeps, ImageLoadsKeeps, ImageReplacedKeeps, VanishesKeeps,
       NavigatesKeeps, BattleShownKeeps, StorageFailsKeeps DEF Tab
  <1> QED BY <1>4, <1>5 DEF ChallengeInv, Told, Shown, Types

-----------------------------------------------------------------------------
(* The theorems.                                                           *)

LEMMA ChallengeInit ==
  ASSUME Init
  PROVE  ChallengeInv
  <1> DEFINE r == [doc |-> 1, src |-> FirstSource, done |-> "no", taken |-> FALSE]
  <1>1. FirstSource \in Sources  BY PageAssumption DEF FirstSource
  <1>2. 1 \in 1 .. MaxDocs /\ 1 \in 1 .. MaxLoads /\ 0 \in 0 .. MaxAttempts
        /\ 0 \in 0 .. MaxDocs /\ 0 \in 0 .. MaxLoads
    BY PageAssumption
  <1>3. r \in Request /\ r.doc = 1 /\ ~r.taken  BY <1>1, <1>2 DEF Request
  <1>4. request = <<r>> /\ page = Riddle(1, 1) /\ stored = [a \in Attempts |-> NoMonitor]
        /\ storage = TRUE /\ flight = [a \in Attempts |-> 0] /\ clicks = [a \in Attempts |-> 0]
        /\ forms = {}
    BY DEF Init, PageInit
  <1> HIDE DEF r
  <1>5. request \in Seq(Request) /\ Len(request) = 1 /\ request[1] = r  BY <1>3, <1>4
  <1>6. NoGuard \in Guard /\ NoGuard.id = 0  BY <1>2 DEF NoGuard, Guard
  <1>7. /\ page \in Page /\ page.doc = 1 /\ page.load = 1 /\ page.monitor = NoMonitor
    BY <1>2, <1>4, <1>6, NoMonitorTyped DEF Riddle, Page
  <1>8. /\ pc = "idle" /\ attempt = 0 /\ due = FALSE
        /\ captured = [a \in Attempts |-> NoCapture]
        /\ reply = NoReply /\ why = "none"
        /\ trail = {} /\ journal = [a \in Attempts |-> <<>>]
        /\ latched = FALSE /\ retired = FALSE
        /\ outcome = [a \in Attempts |-> "none"]
    BY DEF Init, NewTrail
  <1>9. NoCapture \in Capture /\ NoCapture.doc = 0 /\ NoCapture.load = NoCapture.shown
    BY <1>2 DEF NoCapture, Capture
  <1>10. Types
    <2>1. TabType  BY <1>4, <1>5, <1>7, NoMonitorTyped DEF TabType
    <2>2. ScriptType  BY <1>4 DEF ScriptType
    <2>3. PythonType
      <3>1. journal \in [Attempts -> Seq(Events)]
        <4>1. <<>> \in Seq(Events)  BY EmptySeq
        <4> QED BY <1>8, <4>1
      <3> QED BY <3>1, <1>2, <1>8 DEF PythonType, Steps
    <2>4. CaptureType  BY <1>8, <1>9 DEF CaptureType
    <2> QED BY <2>1, <2>2, <2>3, <2>4, <1>8, NoMonitorTyped DEF Types
  <1>11. PageInv
    <2>1. Current = r  BY <1>5, <1>7 DEF Current
    <2> QED BY <1>3, <1>5, <1>7, <2>1 DEF PageInv
  <1>12. MonitorInv  BY <1>4, <1>7, NoMonitorTyped DEF MonitorInv
  <1>13. \A a \in Attempts : Clean(a) /\ ~Logged(a, "notSubmitted")
    BY <1>4, <1>8 DEF Clean, Logged
  <1>14. SendInv  BY <1>8, <1>13 DEF SendInv, Unsent, Capturing
  <1>15. JournalInv  BY <1>8 DEF JournalInv, Capturing, Answering
  <1>16. CaptureInv
    BY <1>4, <1>7, <1>8, <1>9 DEF CaptureInv, Capturing, Answering
  <1>17. GuardInv  BY <1>8 DEF GuardInv
  <1>18. OneSubmission  BY <1>4 DEF OneSubmission
  <1>19. UnsubmittedIsFinal  BY <1>4 DEF UnsubmittedIsFinal
  <1>20. ConfirmedWasAnswered  BY <1>8 DEF ConfirmedWasAnswered
  <1>21. AnswerFitsImage  BY <1>4 DEF AnswerFitsImage
  <1> QED BY <1>10, <1>11, <1>12, <1>14, <1>15, <1>16, <1>17, <1>18, <1>19, <1>20, <1>21
      DEF ChallengeInv

LEMMA ChallengeStutter ==
  ASSUME ChallengeInv, UNCHANGED vars
  PROVE  ChallengeInv'
  <1>1. Told /\ Shown  BY ToldAndShown
  <1>2. UNCHANGED python /\ UNCHANGED <<page, request, stored, storage, flight, clicks, forms>>
    BY DEF vars, pageVars, history, python
  <1>3. Told'  BY <1>1, <1>2, TabTold
  <1>4. Shown'
    <2>1. BeginsNothing  BY <1>2 DEF BeginsNothing, python
    <2>2. \A a \in Attempts : flight'[a] > 0 => captured[a].doc # 0
      BY <1>1, <1>2 DEF Shown, CaptureInv
    <2> QED BY <1>1, <1>2, <2>1, <2>2, QuietShown DEF python
  <1> QED BY <1>3, <1>4 DEF ChallengeInv, Told, Shown, Types

LEMMA ChallengeNext ==
  ASSUME ChallengeInv, Next
  PROVE  ChallengeInv'
  BY ProbeKeeps, ArmMonitorKeeps, ImageReadyKeeps, MatchRequestKeeps, VerifyKeeps, RaisingKeeps,
     PredictKeeps, SendScriptKeeps, SelectExpiresKeeps, AcknowledgedKeeps, AckLostKeeps,
     ProbeReceiptKeeps, ProbeExpirationKeeps, InterruptedKeeps, DeadlineKeeps, LandKeeps, TabKeeps
  DEF Next, Python

(* ChallengeInv is an invariant of one PonyChart challenge after another.  *)
THEOREM ChallengeInvariant == Spec => []ChallengeInv
  <1>1. ChallengeInv /\ [Next]_vars => ChallengeInv'
    BY ChallengeNext, ChallengeStutter
  <1> QED BY ChallengeInit, <1>1, PTL DEF Spec

(* Every variable of the challenge keeps its type.                         *)
THEOREM ChallengeTypes == Spec => []TypeOK
  <1>1. ChallengeInv => TypeOK
    <2> SUFFICES ASSUME ChallengeInv PROVE TypeOK  OBVIOUS
    <2>1. TabType /\ ScriptType /\ PythonType /\ CaptureType  BY DEF ChallengeInv, Types
    <2>2. \A i \in DOMAIN request : request[i] \in Request
      BY <2>1, LenProperties, ElementOfSeq DEF TabType
    <2>3. PageTypeOK
      BY <2>1, <2>2 DEF PageTypeOK, TabType, ScriptType, Page, Request, Monitor, Guard
    <2> QED BY <2>1, <2>3 DEF TypeOK, PythonType, CaptureType, Capture
  <1> QED BY ChallengeInvariant, <1>1, PTL

(* Of the scripts of an attempt at most one submits, whatever answers are  *)
(* lost, however late a script lands and however often one is retried.     *)
THEOREM SubmitsOnce == Spec => []OneSubmission
  <1>1. ChallengeInv => OneSubmission  BY DEF ChallengeInv
  <1> QED BY ChallengeInvariant, <1>1, PTL

(* An attempt that is reported or logged as not submitted has submitted    *)
(* nothing, and no script of it is left that could.                        *)
THEOREM UnsubmittedForGood == Spec => []UnsubmittedIsFinal
  <1>1. ChallengeInv => UnsubmittedIsFinal  BY DEF ChallengeInv
  <1> QED BY ChallengeInvariant, <1>1, PTL

(* The page dispatched an answer of every attempt reported as confirmed.   *)
THEOREM ConfirmationsAreEarned == Spec => []ConfirmedWasAnswered
  <1>1. ChallengeInv => ConfirmedWasAnswered  BY DEF ChallengeInv
  <1> QED BY ChallengeInvariant, <1>1, PTL

(* An answer leaves the document its image was captured in, and the bytes  *)
(* classified are those of the image that was shown at the capture.        *)
THEOREM AnswersFit == Spec => []AnswerFitsImage
  <1>1. ChallengeInv => AnswerFitsImage  BY DEF ChallengeInv
  <1> QED BY ChallengeInvariant, <1>1, PTL

=============================================================================
