--------------------------- MODULE BattleLauncher ---------------------------
(* Battles chosen by the application: battle_launcher.py.                    *)
(*                                                                           *)
(* The launcher takes the tab to a battle list, reads the list, and submits  *)
(* the form of one choice.  Each navigation is awaited by the waiter of      *)
(* _page_lifecycle.py: a loader other than the one looked up before, whose   *)
(* frame navigated and whose DOM was built after the trigger.                *)
EXTENDS Integers, FiniteSets, AuditTrail

CONSTANTS
    Routes,         \* the battle lists, "ar" (The Arena) among them
    Ring,           \* the one whose whole state is compared before its form is sent
    MaxAttempts,    \* bound: forms the application asks for
    MaxVisits,      \* bound: navigations and startups it asks for
    MaxDocs         \* bound: documents the tab shows, the first included

ASSUME LauncherAssumption ==
    /\ "ar" \in Routes /\ Ring \in Routes
    /\ {MaxAttempts, MaxVisits, MaxDocs} \subseteq Nat \ {0}

Attempts == 1 .. MaxAttempts

VARIABLES
    page,       \* the document of the tab
    server,     \* the list it would serve, and whose battle is on
    nav,        \* the navigation the tab is in
    flight,     \* attempt |-> scripts sent and not run
    form,       \* attempt |-> what became of its form
    others,     \* a battle was started by somebody else
    wait,       \* the lifecycle waiter
    pc, op,     \* the operation of the launcher
    visits,     \* navigations so far
    attempt,    \* forms so far
    asked,      \* attempt |-> the list its option was read from
    read,       \* the list last returned to the application
    due,        \* deadlines passed: 1 the pre-submit one, 2 that of the operation
    reply,      \* the answer of the submit script
    why,        \* "submitted", or "error" when no timely answer said so
    trail, journal, latched,    \* the audit trail of the attempt, and its log
    result,     \* the document of the last list that was ready, and the one before it
    outcome     \* attempt |-> how it ended

tab == <<page, nav, wait>>
remote == <<server, form, others, flight>>
audit == <<trail, journal, latched>>
asking == <<visits, attempt, asked, read>>
vars == <<tab, remote, pc, op, asking, due, reply, why, audit, result, outcome>>

(* A document that blocks shows an active battle or its challenge, or the    *)
(* end of a battle or of a floor.                                            *)
Blockers == {"battle", "ended"}
Shows == Blockers \cup {"list", "nothing"}
Lists == {"first", "changed", "withoutOption"}

NoNav == [kind |-> "none", route |-> "ar", attempt |-> 0]
NoWait == [old |-> 0, on |-> FALSE, main |-> 0, done |-> FALSE]
NoList == [route |-> "else", list |-> "withoutOption"]
NoResult == [looked |-> 0, doc |-> 0]
NoOp == [kind |-> "none", route |-> "ar", looked |-> 0]

Init ==
    /\ page \in [doc : {1}, own : BOOLEAN, route : Routes \cup {"else"}, shows : Shows,
                 list : {"first"}, loaded : {TRUE}]
    /\ page.shows = "list" => page.route # "else"
    /\ server \in [list : {"first"}, battle : {"none", "others"}]
    /\ others = (server.battle = "others")
    /\ nav = NoNav /\ wait = NoWait
    /\ flight = [a \in Attempts |-> 0] /\ form = [a \in Attempts |-> "none"]
    /\ pc = "idle" /\ op = NoOp
    /\ visits = 0 /\ attempt = 0
    /\ asked = [a \in Attempts |-> NoList] /\ read = NoList
    /\ due = 0 /\ reply = "none" /\ why = "none"
    /\ trail = NewTrail /\ journal = [a \in Attempts |-> <<>>] /\ latched = FALSE
    /\ result = NoResult
    /\ outcome = [a \in Attempts |-> "none"]

Logged(a, event) == \E i \in DOMAIN journal[a] : journal[a][i] = event

(* An application that got an unknown outcome starts nothing more. *)
GivenUp == latched \/ \E a \in Attempts : Logged(a, "unknown")

Open == "intent" \in trail /\ ~Resolved(trail)
-----------------------------------------------------------------------------
(* The tab and the server *)

(* What a script may find: while a document is built its marker may be       *)
(* missing still.                                                            *)
Sights == IF page.loaded THEN {page.shows} ELSE {page.shows, "nothing"}

Arrive(route, own, shows) ==
    /\ page.doc < MaxDocs
    /\ page' = [doc |-> page.doc + 1, own |-> own, route |-> route, shows |-> shows,
                list |-> server.list, loaded |-> FALSE]
    /\ nav' = NoNav
    /\ wait' = IF wait.on /\ ~wait.done /\ page.doc + 1 # wait.old
               THEN [wait EXCEPT !.main = page.doc + 1] ELSE wait

(* The server takes a form that was sent, whether or not the tab still waits *)
(* for the answer: it starts the battle, unless one is on or it refuses.     *)
TakeForm(a) ==
    /\ form[a] = "sent"
    /\ \/ /\ server.battle = "none"
          /\ server' = [server EXCEPT !.battle = "own"]
          /\ form' = [form EXCEPT ![a] = "battle"]
       \/ form' = [form EXCEPT ![a] = "refused"] /\ UNCHANGED server
    /\ UNCHANGED <<tab, others, flight>>

(* The navigation lands on the server's answer, or is redirected to another  *)
(* realm or origin, of which the server knows nothing.                       *)
Answer ==
    /\ nav.kind # "none"
    /\ nav.kind = "form" => form[nav.attempt] # "sent"
    /\ \/ \E shows \in IF server.battle = "none" THEN {"list"} ELSE Blockers : Arrive(nav.route, TRUE, shows)
       \/ \E shows \in Shows : Arrive(nav.route, FALSE, shows)
    /\ UNCHANGED remote

NavLost == nav.kind # "none" /\ nav' = NoNav /\ UNCHANGED <<page, wait, remote>>

Load ==
    /\ ~page.loaded
    /\ page' = [page EXCEPT !.loaded = TRUE]
    /\ wait' = IF wait.on /\ wait.main = page.doc THEN [wait EXCEPT !.done = TRUE] ELSE wait
    /\ UNCHANGED <<nav, remote>>

(* Another part of the application leaves the tab elsewhere. *)
Elsewhere ==
    /\ pc = "idle" /\ page.doc < MaxDocs
    /\ page' = [page EXCEPT !.doc = @ + 1, !.route = "else", !.shows = "nothing",
                         !.loaded = TRUE]
    /\ nav' = NoNav
    /\ UNCHANGED <<wait, remote>>

ListChanges ==
    /\ server.list = "first"
    /\ server' \in [list : Lists \ {"first"}, battle : {server.battle}]
    /\ UNCHANGED <<tab, form, others, flight>>

OthersFight ==
    /\ server.battle = "none"
    /\ server' = [server EXCEPT !.battle = "others"] /\ others' = TRUE
    /\ UNCHANGED <<tab, form, flight>>

Outside ==
    /\ \/ Answer \/ NavLost \/ Load \/ Elsewhere \/ ListChanges \/ OthersFight
       \/ \E a \in Attempts : TakeForm(a)
    /\ UNCHANGED <<pc, op, asking, due, reply, why, audit, result, outcome>>
-----------------------------------------------------------------------------
(* Going on, and ending *)

Goto(p, w) == pc' = p /\ why' = w /\ UNCHANGED <<op, due, reply, result, outcome>>

Closed == pc' = "idle" /\ op' = NoOp /\ due' = 0 /\ reply' = "none" /\ why' = "none"

Ends(how) ==
    /\ Closed /\ UNCHANGED result
    /\ outcome' = [outcome EXCEPT ![attempt] = how]

(* A visit returns; of a list that is ready it is kept which document showed *)
(* it.                                                                       *)
Returns(kind) ==
    /\ Closed /\ UNCHANGED outcome
    /\ result' = IF kind = "ready" THEN [looked |-> op.looked, doc |-> page.doc]
                 ELSE NoResult

Publish(event, next) ==
    \/ /\ ~latched \/ Published(trail, event) = <<>>
       /\ journal' = [journal EXCEPT ![attempt] = @ \o Published(trail, event)]
       /\ trail' = Marked(trail, event)
       /\ next
       /\ UNCHANGED latched
    \/ /\ Published(trail, event) # <<>>
       /\ latched' = TRUE
       /\ Ends("raised")
       /\ UNCHANGED <<trail, journal>>

(* Mutant of Raise: only a form that was seen submitted is settled. *)
RaiseLeaves ==
    IF op.kind # "start" THEN Returns("raised") /\ UNCHANGED audit
    ELSE IF Open /\ "submitted" \in trail THEN Publish("unknown", Ends("raised"))
    ELSE Ends("raised") /\ UNCHANGED audit

(* An error; except BaseException of _submit_battle_form settles its intent. *)
Raise ==
    IF op.kind # "start" THEN Returns("raised") /\ UNCHANGED audit
    ELSE IF Open THEN Publish("unknown", Ends("raised"))
    ELSE Ends("raised") /\ UNCHANGED audit

(* A cancellation, a lost browser generation, or an error of a read. *)
Interrupted ==
    /\ pc # "idle"
    /\ Raise
    /\ wait' = NoWait
    /\ UNCHANGED <<page, nav, remote, asking>>

DeadlinePasses ==
    /\ pc # "idle" /\ due < 2
    /\ due' = due + 1
    /\ UNCHANGED <<tab, remote, pc, op, asking, reply, why, audit, result, outcome>>

(* A wait ends at the deadline in force: the pre-submit one until the script *)
(* is sent, then that of the operation.                                      *)
Expired ==
    /\ \/ pc \in {"look", "enable", "trigger", "land", "ready", "receipt"} /\ due = 2
       \/ pc \in {"enable", "trigger"} /\ op.kind = "start" /\ due >= 1
    /\ Raise
    /\ wait' = NoWait
    /\ UNCHANGED <<page, nav, remote, asking>>
-----------------------------------------------------------------------------
(* goto_arena, goto_ring_of_blood, goto_grindfest and the startup check *)

Visit(kind, route) ==
    /\ pc = "idle" /\ visits < MaxVisits /\ ~GivenUp
    /\ kind = "startup" => route = "ar"
    /\ pc' = "look" /\ op' = [kind |-> kind, route |-> route, looked |-> page.doc]
    /\ visits' = visits + 1 /\ due' = 1 /\ result' = NoResult
    /\ UNCHANGED <<tab, remote, attempt, asked, read, reply, why, audit, outcome>>

(* _observe_navigation.  At startup a battle of the realm expected is taken  *)
(* from the document at hand; where nothing blocks, any page may be left.    *)
Look ==
    /\ pc = "look" /\ due < 2
    /\ \E sight \in Sights :
        LET blocked == sight \in Blockers
            trusted == page.own
        IN  \/ /\ ~trusted /\ (blocked \/ op.kind = "goto")
               /\ Returns("raised")
            \/ /\ trusted /\ blocked
               /\ Returns("blocked")
            \/ /\ ~blocked /\ (trusted \/ op.kind = "startup")
               /\ Goto("enable", "none")
    /\ UNCHANGED <<tab, remote, asking, audit>>

(* The waiter's lookup of the loader to be replaced. *)
Enable ==
    /\ pc = "enable" /\ due < IF op.kind = "start" THEN 1 ELSE 2
    /\ wait' = [NoWait EXCEPT !.old = page.doc]
    /\ Goto("trigger", "none")
    /\ UNCHANGED <<page, nav, remote, asking, audit>>

(* The navigation a tab is asked for takes the place of the one it is in. *)
Navigate ==
    /\ pc = "trigger" /\ op.kind # "start" /\ due < 2
    /\ wait' = [wait EXCEPT !.on = TRUE]
    /\ nav' = [kind |-> "get", route |-> op.route, attempt |-> 0]
    /\ Goto("land", "none")
    /\ UNCHANGED <<page, remote, asking, audit>>

(* Mutant of Land: the document is read as soon as the command is accepted. *)
LandAtOnce ==
    /\ pc = "land" /\ due < 2
    /\ wait' = NoWait
    /\ Goto("ready", "none")
    /\ UNCHANGED <<page, nav, remote, asking, audit>>

Land ==
    /\ pc = "land" /\ wait.done /\ due < 2
    /\ wait' = NoWait
    /\ Goto("ready", "none")
    /\ UNCHANGED <<page, nav, remote, asking, audit>>

(* _classify_battle_route_readiness. *)
Classified(sight) ==
    CASE ~page.own                                  -> "untrusted"
      [] page.own /\ sight \in Blockers             -> "blocked"
      [] page.own /\ sight = "list"                 ->
            IF page.route = op.route THEN "ready" ELSE "elsewhere"
      [] OTHER                                      -> "missing"

(* _wait_for_battle_route_readiness: one probe. *)
ProbeRoute ==
    /\ pc = "ready" /\ due < 2
    /\ \E sight \in Sights :
        /\ Classified(sight) \in {"ready", "blocked"}
        /\ Returns(Classified(sight))
    /\ UNCHANGED <<tab, remote, asking, audit>>
-----------------------------------------------------------------------------
(* Reading a list, and submitting a form *)

(* list_arena_options, inspect_ring_of_blood, list_grindfest_options. *)
Inspect ==
    /\ pc = "idle" /\ "list" \in Sights /\ page.list # "withoutOption"
    /\ read' = [route |-> page.route, list |-> page.list]
    /\ UNCHANGED <<tab, remote, pc, op, visits, attempt, asked, due, reply, why, audit, result, outcome>>

Start ==
    /\ pc = "idle" /\ read # NoList /\ attempt < MaxAttempts /\ ~GivenUp
    /\ pc' = "enable" /\ op' = [kind |-> "start", route |-> read.route, looked |-> 0]
    /\ attempt' = attempt + 1 /\ asked' = [asked EXCEPT ![attempt + 1] = read]
    /\ trail' = NewTrail /\ due' = 0 /\ result' = NoResult
    /\ UNCHANGED <<tab, remote, visits, read, reply, why, journal, latched, outcome>>

(* The trigger, the intent, and the script. *)
SendScript ==
    /\ pc = "trigger" /\ op.kind = "start" /\ due = 0
    /\ \/ /\ Publish("intent", Goto("ack", "none")) /\ ~latched'
          /\ wait' = [wait EXCEPT !.on = TRUE]
          /\ flight' = [flight EXCEPT ![attempt] = 1]
       \/ /\ Publish("intent", Goto("ack", "none")) /\ latched'
          /\ wait' = NoWait
          /\ UNCHANGED flight
    /\ UNCHANGED <<page, nav, server, form, others, asking>>

(* The form is on the page, and offers what was asked for. *)
Offered(a) ==
    /\ page.own /\ page.route = asked[a].route
    /\ page.shows = "list" /\ page.list # "withoutOption"
    /\ asked[a].route = Ring => page.list = asked[a].list

(* The page runs the script, whether or not Python still waits for it; a     *)
(* document that is being built may not have its form yet.                   *)
RunScript(a) ==
    LET answers(answer) ==
            reply' = IF pc = "ack" /\ attempt = a /\ reply = "none" THEN answer ELSE reply
    IN  /\ flight[a] > 0
        /\ flight' = [flight EXCEPT ![a] = 0]
        /\ \/ /\ Offered(a)
              /\ form' = [form EXCEPT ![a] = "sent"]
              /\ nav' = [kind |-> "form", route |-> page.route, attempt |-> a]
              /\ answers("submitted")
           \/ /\ ~Offered(a) \/ ~page.loaded
              /\ answers("refused")
              /\ UNCHANGED <<form, nav>>
        /\ UNCHANGED <<page, wait, server, others, pc, op, asking, due, why, audit, result, outcome>>

(* What Python makes of the answer.  One that came after the pre-submit      *)
(* deadline counts as none, a refusal too.                                   *)
Acknowledged ==
    /\ pc = "ack" /\ reply # "none"
    /\ \/ /\ reply = "submitted"
          /\ Publish("submitted", Goto("receipt", IF due = 0 THEN "submitted" ELSE "error"))
       \/ /\ reply = "refused" /\ due = 0
          /\ Publish("notSubmitted", Ends("refused") \/ Ends("raised"))
       \/ /\ reply = "refused" /\ due > 0
          /\ Goto("receipt", "error") /\ UNCHANGED audit
       \/ Raise
    /\ wait' = IF pc' = "idle" THEN NoWait ELSE wait
    /\ UNCHANGED <<page, nav, remote, asking>>

(* Mutant of AckLost: no answer in time is taken for a refusal. *)
AckRefused ==
    /\ pc = "ack"
    /\ Publish("notSubmitted", Ends("refused"))
    /\ wait' = NoWait
    /\ UNCHANGED <<page, nav, remote, asking>>

(* The evaluation fails, though the script ran, runs, or will run. *)
AckLost ==
    /\ pc = "ack"
    /\ Goto("receipt", "error")
    /\ UNCHANGED <<tab, remote, asking, audit>>

(* Mutant of IsReceipt: a trusted page of the site is enough. *)
IsAnyPage(sight) == page.own /\ sight # "nothing"

IsReceipt(sight) == page.own /\ sight = "battle"

(* _confirm_battle_form_receipt: the new document is read once. *)
Confirm ==
    /\ pc = "receipt" /\ wait.done /\ due < 2
    /\ \E sight \in Sights :
           \/ /\ IsReceipt(sight)
              /\ Publish(IF why = "submitted" THEN "receipt" ELSE "reconciled", Ends("confirmed"))
           \/ Raise
    /\ wait' = NoWait
    /\ UNCHANGED <<page, nav, remote, asking>>
-----------------------------------------------------------------------------
Python ==
    \/ \E kind \in {"goto", "startup"}, route \in Routes : Visit(kind, route)
    \/ Look \/ Enable \/ Navigate \/ Land \/ ProbeRoute
    \/ Inspect \/ Start \/ SendScript \/ Acknowledged \/ AckLost \/ Confirm
    \/ Interrupted \/ Expired

Next == Python \/ DeadlinePasses \/ Outside \/ \E a \in Attempts : RunScript(a)

Spec == Init /\ [][Next]_vars

-----------------------------------------------------------------------------
(* Properties *)

TypeOK ==
    /\ page \in [doc : 1 .. MaxDocs, own : BOOLEAN, route : Routes \cup {"else"}, shows : Shows,
                 list : Lists, loaded : BOOLEAN]
    /\ server \in [list : Lists, battle : {"none", "own", "others"}]
    /\ nav \in [kind : {"none", "get", "form"}, route : Routes, attempt : 0 .. MaxAttempts]
    /\ flight \in [Attempts -> 0 .. 1]
    /\ form \in [Attempts -> {"none", "sent", "battle", "refused"}]
    /\ wait \in [old : 0 .. MaxDocs, on : BOOLEAN, main : 0 .. MaxDocs, done : BOOLEAN]
    /\ pc \in {"idle", "look", "enable", "trigger", "land", "ready", "ack", "receipt"}
    /\ due \in 0 .. 2 /\ visits \in 0 .. MaxVisits /\ attempt \in 0 .. MaxAttempts
    /\ trail \in SUBSET TrailFlags /\ latched \in BOOLEAN
    /\ outcome \in [Attempts -> {"none", "confirmed", "refused", "raised"}]
    /\ wait # NoWait => pc \in {"trigger", "land", "ack", "receipt"}

(* Another form is asked for only when each earlier one is confirmed, or was *)
(* never submitted and has no script left that could submit it: an answer    *)
(* lost or late never leads to a second battle.                              *)
OneBattleForm ==
    \A a \in Attempts :
        a < attempt /\ outcome[a] # "confirmed" => form[a] = "none" /\ flight[a] = 0

(* When a start is confirmed a battle is on that a form of the launcher or   *)
(* somebody else started: a refusal, a list shown again or a late navigation *)
(* is never taken for a receipt.                                             *)
ConfirmedIsBattle ==
    \A a \in Attempts :
        outcome[a] = "confirmed" => others \/ \E b \in 1 .. a : form[b] = "battle"

(* A list reported ready, which is how a battle is reported absent, was read *)
(* from a document that replaced the one shown when the launcher was called. *)
FreshRoute == result # NoResult => result.doc > result.looked

(* No form is submitted without an intent on record, and none stays open     *)
(* when the launcher is done, unless the audit log failed.                   *)
IntentSettled ==
    /\ \A a \in Attempts : flight[a] > 0 \/ form[a] # "none" => Logged(a, "intent")
    /\ pc = "idle" /\ ~latched => ~Open

=============================================================================
