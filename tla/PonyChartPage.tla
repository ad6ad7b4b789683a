--------------------------- MODULE PonyChartPage ---------------------------
(* The tab of a timed PonyChart challenge, and the scripts that              *)
(* hv_battle_ponychart.py evaluates in it.                                   *)
(*                                                                           *)
(* A document shows the riddle, the battle, or nothing yet.  The receipt     *)
(* monitor of an attempt lives in the document it was armed in; a copy in    *)
(* the session storage outlives the document as long as storage works.       *)
(* Images are numbered in the order of their requests, so a number stands    *)
(* for the bytes of one response.                                            *)
EXTENDS Integers, Sequences, FiniteSets

CONSTANTS MaxAttempts,  \* bound: attempts to resolve a challenge
          MaxDocs,      \* bound: documents the tab shows
          MaxLoads,     \* bound: images requested
          Sources       \* image URLs

ASSUME PageAssumption ==
    MaxAttempts \in Nat \ {0} /\ MaxDocs \in Nat \ {0} /\ MaxLoads \in Nat \ {0} /\ Sources # {}

VARIABLES
    page,       \* what the current document shows, and its two monitors
    request,    \* the image requests so far
    stored,     \* attempt |-> its monitor's copy in the session storage
    storage,    \* whether the session storage accepts writes
    flight,     \* attempt |-> its submit scripts on their way to the page
    clicks,     \* history: attempt |-> submit clicks of its scripts
    forms       \* history: the answers the page dispatched

history == <<clicks, forms>>
pageVars == <<page, request, stored, storage, flight, history>>

Attempts == 1 .. MaxAttempts

(* A receipt monitor: invocations of submit, what its click and submit       *)
(* events prove, and whether the challenge left before or after them.        *)
NoMonitor == [id |-> 0, invoked |-> 0, evidence |-> "none", gone |-> "no"]

(* The image monitor that guards one capture. *)
NoGuard == [id |-> 0, changed |-> FALSE]

Riddle(doc, load) ==
    [doc |-> doc, at |-> "riddle", submit |-> TRUE, ready |-> FALSE, load |-> load,
     monitor |-> NoMonitor, guard |-> NoGuard]

(* Only whether two images share a URL matters, so the first has any URL. *)
FirstSource == CHOOSE s \in Sources : TRUE

PageInit ==
    /\ request = <<[doc |-> 1, src |-> FirstSource, done |-> "no", taken |-> FALSE]>>
    /\ page = Riddle(1, 1)
    /\ stored = [a \in Attempts |-> NoMonitor]
    /\ storage = TRUE
    /\ flight = [a \in Attempts |-> 0]
    /\ clicks = [a \in Attempts |-> 0]
    /\ forms = {}

PageTypeOK ==
    LET monitors == [id : 0 .. MaxAttempts, invoked : Nat, evidence : {"none", "partial", "exact"},
                     gone : {"no", "early", "after"}]
    IN  /\ page \in [doc : 1 .. MaxDocs, at : {"riddle", "blank", "battle"}, submit : BOOLEAN,
                     ready : BOOLEAN, load : 1 .. MaxLoads, monitor : monitors,
                     guard : [id : 0 .. MaxAttempts, changed : BOOLEAN]]
        /\ \A i \in DOMAIN request :
             request[i] \in [doc : 1 .. MaxDocs, src : Sources, done : {"no", "ok", "failed"}, taken : BOOLEAN]
        /\ stored \in [Attempts -> monitors]
        /\ storage \in BOOLEAN
        /\ flight \in [Attempts -> Nat]
        /\ clicks \in [Attempts -> Nat]
        /\ forms \subseteq [attempt : Attempts, doc : 1 .. MaxDocs]
-----------------------------------------------------------------------------
(* The receipt monitor *)

(* The challenge is seen to have left: refresh, and onPageHide. *)
Gone(m) ==
    IF m.gone # "no" THEN m ELSE [m EXCEPT !.gone = IF m.evidence = "none" THEN "early" ELSE "after"]

Refreshed(m) == IF page.submit THEN m ELSE Gone(m)

(* persist, of a monitor in the page. *)
Persisted(m) == IF storage /\ m.id # 0 THEN [stored EXCEPT ![m.id] = m] ELSE stored

(* proves_no_submission; a state nobody can find has only zeros. *)
Proves(m) == m.invoked = 0 /\ m.evidence = "none"

(* What _READ_PONYCHART_RECEIPT_JS finds of attempt a: the live monitor, or  *)
(* the stored copy.                                                          *)
Read(a) ==
    IF page.monitor.id = a THEN Refreshed(page.monitor)
    ELSE IF stored[a].id = a THEN Refreshed(stored[a]) ELSE NoMonitor

(* Its side effect: a live monitor is refreshed and persisted. *)
ReadTouches(a) ==
    IF page.monitor.id = a
    THEN /\ page' = [page EXCEPT !.monitor = Refreshed(@)]
         /\ stored' = Persisted(Refreshed(page.monitor))
    ELSE UNCHANGED <<page, stored>>

(* The page is back on the battle, and a state tells how it got there. *)
Returned(m) == m.id # 0 /\ ~page.submit /\ page.at = "battle" /\ m.gone # "no"

(* Mutant of ConfirmsSubmission: a form event is enough. *)
ConfirmsInvocation(m) == Returned(m) /\ m.invoked = 1 /\ m.gone = "after"

(* confirms_submission; its five seconds are a choice of the caller's. *)
ConfirmsSubmission(m) == Returned(m) /\ m.invoked = 1 /\ m.evidence = "exact" /\ m.gone = "after"

ConfirmsExpiration(m) == Returned(m) /\ Proves(m)

(* _ARM_PONYCHART_RECEIPT_JS, where the challenge is still present. *)
Arm(a) ==
    LET m == [NoMonitor EXCEPT !.id = a]
    IN  /\ page' = [page EXCEPT !.monitor = m]
        /\ stored' = Persisted(m)
-----------------------------------------------------------------------------
(* _SELECT_AND_SUBMIT_PONYCHART_JS, one uninterrupted run in the page        *)

(* The answer of a script: its status and the state of its monitor. *)
Reply(status, m) == [status |-> status, monitor |-> m]
NoReply == Reply("none", NoMonitor)

OwnMonitor(a) == page.monitor.id = a

(* What the click may do: the two events, and the form unless the page keeps *)
(* it back.  Events that are not exact prove nothing about the form.         *)
Click(m) ==
    {[reply |-> Reply(IF evidence = "exact" THEN "submitted" ELSE "evidence-missing",
                      [m EXCEPT !.invoked = 1, !.evidence = evidence]),
      clicked |-> TRUE, sent |-> sent] :
       evidence \in {"exact", "partial", "none"}, sent \in BOOLEAN}

(* The script answers what stops it before the click, a defect of the form   *)
(* among that, or clicks; a click with exact events sent its form.           *)
Runs(a) ==
    LET m == Refreshed(page.monitor)
        stop(status, monitor) == [reply |-> Reply(status, monitor), clicked |-> FALSE, sent |-> FALSE]
    IN  CASE ~OwnMonitor(a) -> {stop("monitor-missing", stored[a])}
          [] OwnMonitor(a) /\ ~page.submit -> {stop("absent", m)}
          [] OwnMonitor(a) /\ page.submit /\ m.invoked # 0 -> {stop("already-submitted", m)}
          [] OwnMonitor(a) /\ page.submit /\ m.invoked = 0 /\ ~page.ready -> {stop("retriable", m)}
          [] OTHER -> {stop("contract-invalid", m)}
                      \cup {run \in Click(m) : run.reply.status = "submitted" => run.sent}

(* What a run does: it leaves the monitor refreshed and persisted.           *)
RunScript(a, run) ==
    /\ IF OwnMonitor(a)
       THEN /\ page' = [page EXCEPT !.monitor = run.reply.monitor]
            /\ stored' = Persisted(run.reply.monitor)
       ELSE UNCHANGED <<page, stored>>
    /\ clicks' = IF run.clicked THEN [clicks EXCEPT ![a] = @ + 1] ELSE clicks
    /\ forms' = IF run.sent THEN forms \union {[attempt |-> a, doc |-> page.doc]} ELSE forms
-----------------------------------------------------------------------------
(* The image *)

Current == request[page.load]

(* _ARM_PONYCHART_IMAGE_READY_JS on a complete image. *)
GuardImage(a) ==
    /\ page.at = "riddle" /\ Current.done = "ok"
    /\ page' = [page EXCEPT !.guard = [id |-> a, changed |-> FALSE]]

(* Mutant of Stable: the document and the URL are compared, and no more. *)
SameSource(a, seen) == page.doc = seen.doc /\ Current.src = seen.src

(* _VERIFY_PONYCHART_RAW_RESPONSE_RECEIPT_JS *)
Stable(a, seen) ==
    /\ page.guard = [id |-> a, changed |-> FALSE]
    /\ page.doc = seen.doc /\ Current.src = seen.src

(* _matching_network_requests, of the first n requests and document doc. *)
Matching(doc, src, n) ==
    {i \in 1 .. n : ~request[i].taken /\ request[i].doc = doc /\ request[i].src = src}
-----------------------------------------------------------------------------
(* The tab by itself *)

RiddleReady ==
    /\ page.submit /\ ~page.ready
    /\ page' = [page EXCEPT !.ready = TRUE]
    /\ UNCHANGED <<request, stored, storage, flight, history>>

ImageLoads ==
    /\ page.at = "riddle" /\ Current.done = "no"
    /\ \E done \in {"ok", "failed"} : request' = [request EXCEPT ![page.load].done = done]
    /\ UNCHANGED <<page, stored, storage, flight, history>>

Requested(doc) ==
    /\ Len(request) < MaxLoads
    /\ \E s \in Sources : request' = Append(request, [doc |-> doc, src |-> s, done |-> "no", taken |-> FALSE])

(* The page shows another image, perhaps under the same URL. *)
ImageReplaced ==
    /\ page.at = "riddle" /\ Current.done # "no"
    /\ Requested(page.doc)
    /\ page' = [page EXCEPT !.load = Len(request) + 1, !.guard.changed = @ \/ page.guard.id # 0]
    /\ UNCHANGED <<stored, storage, flight, history>>

(* The challenge ends without a new document; the observer of the monitor    *)
(* sees it.                                                                  *)
Vanishes ==
    /\ page.submit
    /\ LET m == IF page.monitor.id = 0 THEN NoMonitor ELSE Gone(page.monitor)
       IN  /\ page' = [page EXCEPT !.submit = FALSE, !.at = "battle", !.monitor = m,
                                   !.guard.changed = @ \/ page.guard.id # 0]
           /\ stored' = Persisted(m)
    /\ UNCHANGED <<request, storage, flight, history>>

(* The tab leaves its document: a form, an expired challenge, the user, or   *)
(* the next challenge of the battle.  pagehide reaches the monitor.          *)
Navigates ==
    /\ page.doc < MaxDocs
    /\ stored' = IF page.monitor.id = 0 THEN stored ELSE Persisted(Gone(page.monitor))
    /\ \/ /\ page' = [Riddle(page.doc + 1, page.load) EXCEPT !.at = "blank", !.submit = FALSE]
          /\ UNCHANGED request
       \/ /\ Requested(page.doc + 1)
          /\ page' = Riddle(page.doc + 1, Len(request) + 1)
    /\ UNCHANGED <<storage, flight, history>>

BattleShown ==
    /\ page.at = "blank"
    /\ page' = [page EXCEPT !.at = "battle"]
    /\ UNCHANGED <<request, stored, storage, flight, history>>

StorageFails ==
    /\ storage
    /\ storage' = FALSE
    /\ UNCHANGED <<page, request, stored, flight, history>>

Tab == RiddleReady \/ ImageLoads \/ ImageReplaced \/ Vanishes \/ Navigates \/ BattleShown \/ StorageFails
=============================================================================
