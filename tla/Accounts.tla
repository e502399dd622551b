------------------------------ MODULE Accounts ------------------------------
(* One account: its row, its sessions, its closure, the account page that  *)
(* shows them (AccountSecurityPanel.tsx) and the admin's list of users     *)
(* (UserStatusActions.tsx).  A request is sent, reads the rows it decides  *)
(* on in one step and commits in a later one; the ORM writes only columns  *)
(* whose new value differs from the value it read.  Time enters as two     *)
(* facts: a session is fresh for 15 minutes, a closure is due in 30 days.  *)
EXTENDS Naturals, FiniteSets

CONSTANTS
    Listings,      \* the seller's listings
    Sessions,      \* sessions that logins may open; bounds the logins
    Requests,      \* HTTP requests, and the worker's task, at one time
    MaxPasswords   \* bound on the changes of the password

NoOne == "none"

ASSUME SomeRequests == /\ Requests # {} /\ NoOne \notin Requests
                       /\ MaxPasswords \in Nat

VARIABLES
    user,      \* [status, verified, password, mailed]
    closure,   \* [status, due, kept]: kept is the restoration snapshot
    listing,   \* listing -> status
    session,   \* session -> [state, fresh, password]
    request,   \* request -> [step, op, arg, me, user, closure, listing], with the rows it read
    panel,     \* the account page: [open, me, shown, closing, busy]
    console    \* the admin's page shows the account as suspended

vars == <<user, closure, listing, session, request, panel, console>>
rows == <<user, closure, listing, session>>

Public == {"active"}   \* stands for active and reserved, which no step here tells apart
UserStatuses == {"pending_verification", "active", "suspended",
                 "pending_deletion", "deleted"}
Idle == [step |-> "idle"]

ListingStatuses == {"draft", "pending_review", "active", "archived"}
Ops == {"login", "verify", "reset", "revoke", "others", "close", "cancel",
        "finalise", "suspend", "unsuspend", "approve"}
Args == Sessions \cup Listings \cup {NoOne}

User    == [status : UserStatuses, verified : BOOLEAN, mailed : BOOLEAN, password : Nat]
Closure == [status : {"none", "grace_period", "cancelled", "completed"},
            due : BOOLEAN, kept : [Listings -> ListingStatuses \cup {NoOne}]]
Session == [state : {"none", "open", "revoked"}, fresh : BOOLEAN, password : Nat]
Request == {Idle}
           \cup [op : Ops, arg : Args, me : Sessions \cup {NoOne}, step : {"read"},
                 user : User, closure : Closure, listing : [Listings -> ListingStatuses]]
           \cup [op : Ops, arg : Args, step : {"done", "refused"}]
Panel   == [open : BOOLEAN, me : Sessions \cup {NoOne}, shown : SUBSET Sessions,
            closing : BOOLEAN, busy : Requests \cup {NoOne}]

(* The rows, the requests and the pages hold values the code can give.     *)
TypeOK ==
    /\ user \in User /\ closure \in Closure
    /\ listing \in [Listings -> ListingStatuses]
    /\ session \in [Sessions -> Session]
    /\ request \in [Requests -> Request]
    /\ panel \in Panel /\ console \in BOOLEAN

-----------------------------------------------------------------------------
(* deps.py:18-47: who is let in with a session.                            *)
LoggedIn(s) ==
    /\ s \in Sessions
    /\ session[s].state = "open"
    /\ user.status \notin {"suspended", "deleted"}

(* What the handlers check on the rows they read.                          *)
Allowed(q) ==
    CASE q.op = "login"  -> user.status \notin {"suspended", "deleted"}
      [] q.op = "verify" -> user.mailed
      [] q.op = "reset"  -> user.status # "deleted" /\ user.password < MaxPasswords
      [] q.op \in {"revoke", "others"} -> LoggedIn(q.me)
      [] q.op = "close"  -> LoggedIn(q.me) /\ session[q.me].fresh
      [] q.op = "cancel" -> /\ LoggedIn(q.me) /\ session[q.me].fresh
                            /\ closure.status = "grace_period" /\ ~closure.due
      [] q.op = "finalise" -> closure.status = "grace_period" /\ closure.due
      [] q.op = "approve" -> listing[q.arg] \notin Public \cup {"draft"}
      [] OTHER -> TRUE

(* A request arrives and reads; a check that fails ends it without a       *)
(* change.  `me` is the session of the sender's cookie; the worker and the *)
(* admin send with none.                                                   *)
Send(r, op, arg, me) ==
    LET q == [op |-> op, arg |-> arg, me |-> me] IN
    /\ request[r] = Idle
    /\ request' = [request EXCEPT ![r] =
           IF Allowed(q) THEN [op |-> op, arg |-> arg, me |-> me, step |-> "read",
                               user |-> user, closure |-> closure, listing |-> listing]
                         ELSE [op |-> op, arg |-> arg, step |-> "refused"]]

(* Only the account page waits for the answer.                             *)
Commits(r, op) ==
    /\ request[r].step = "read" /\ request[r].op = op
    /\ request' = [request EXCEPT ![r] =
           IF panel.busy = r THEN [op |-> op, arg |-> @.arg, step |-> "done"] ELSE Idle]
    /\ UNCHANGED <<panel, console>>

(* The ORM's write of a column: only a change of the value that was read.  *)
Column(read, new, now) == IF new = read THEN now ELSE new
Status(r, new) == Column(request[r].user.status, new, user.status)

RevokedAll ==
    [s \in Sessions |-> IF session[s].state = "open"
                        THEN [session[s] EXCEPT !.state = "revoked"]
                        ELSE session[s]]

-----------------------------------------------------------------------------
(* auth_service.py:76-97.  The password was compared when it was read.     *)
Login(r) ==
    /\ Commits(r, "login")
    /\ LET seen == request[r].user IN
       user' = [user EXCEPT !.status =
           IF seen.status = "pending_verification" /\ seen.verified
           THEN Status(r, "active") ELSE @]
    /\ session' = [session EXCEPT ![request[r].arg] =
           [state |-> "open", fresh |-> TRUE,
            password |-> request[r].user.password]]
    /\ UNCHANGED <<closure, listing>>

(* auth_service.py:99-103, and one session or all others of the account    *)
(* page (account_service.py:126-193).                                      *)
Revoke(r) ==
    /\ \E op \in {"revoke", "others"} : Commits(r, op)
    /\ LET q == request[r]
           gone == IF q.op = "revoke" THEN {q.arg} ELSE Sessions \ {q.me}
       IN session' = [s \in Sessions |->
              IF s \in gone THEN RevokedAll[s] ELSE session[s]]
    /\ UNCHANGED <<user, closure, listing>>

(* auth_service.py:105-117: the link makes the account active whatever its *)
(* status was.                                                             *)
VerifyEmail(r) ==
    /\ Commits(r, "verify")
    /\ user' = [user EXCEPT !.verified = TRUE, !.mailed = FALSE,
                            !.status = Status(r, "active")]
    /\ UNCHANGED <<closure, listing, session>>

(* auth_service.py:66-74: a new verification link replaces the one before. *)
MailLink ==
    /\ ~user.verified /\ user.status # "deleted"   \* then its address is gone
    /\ user' = [user EXCEPT !.mailed = TRUE]
    /\ UNCHANGED <<closure, listing, session, request, panel, console>>

X_ResetPassword(r) ==   \* mutant
    /\ Commits(r, "reset")
    /\ user' = [user EXCEPT !.password = request[r].user.password + 1]
    /\ UNCHANGED <<closure, listing, session>>

(* auth_service.py:119-155.  A link is mailed on demand to every account   *)
(* that has an address, so it is not a state of its own.                   *)
ResetPassword(r) ==
    /\ Commits(r, "reset")
    /\ user' = [user EXCEPT !.password = request[r].user.password + 1]
    /\ session' = RevokedAll
    /\ UNCHANGED <<closure, listing>>

(* moderation_service.py:145-188 and 43-63.                                *)
Suspend(r) ==
    /\ Commits(r, "suspend")
    /\ user' = [user EXCEPT !.status = Status(r, "suspended")]
    /\ listing' = [l \in Listings |-> IF request[r].listing[l] \in Public
                                      THEN "archived" ELSE listing[l]]
    /\ UNCHANGED <<closure, session>>

Unsuspend(r) ==
    /\ Commits(r, "unsuspend")
    /\ user' = [user EXCEPT !.status = Status(r, "active")]
    /\ UNCHANGED <<closure, listing, session>>

Approve(r) ==
    /\ Commits(r, "approve")
    /\ listing' = [listing EXCEPT ![request[r].arg] = "active"]
    /\ UNCHANGED <<user, closure, session>>

X_RequestClosure(r) ==   \* mutant
    /\ Commits(r, "close")
    /\ session' = [s \in Sessions |-> IF s = panel.me THEN session[s] ELSE RevokedAll[s]]
    /\ LET seen == request[r].listing IN
       /\ closure' = [status |-> "grace_period", due |-> FALSE,
                       kept |-> [l \in Listings |-> IF seen[l] \in Public THEN seen[l] ELSE NoOne]]
       /\ listing' = [l \in Listings |-> IF seen[l] \in Public THEN "archived" ELSE listing[l]]
       /\ user' = [user EXCEPT !.status = Status(r, "pending_deletion")]

(* account_service.py:263-364: a closure already in its grace period only  *)
(* ends the sessions again.                                                *)
RequestClosure(r) ==
    /\ Commits(r, "close")
    /\ session' = RevokedAll
    /\ LET seen == request[r].listing
           again == request[r].closure.status = "grace_period"
       IN \/ again /\ UNCHANGED <<user, closure, listing>>
          \/ /\ ~again
             /\ closure' = [status |-> "grace_period", due |-> FALSE,
                            kept |-> [l \in Listings |->
                                IF seen[l] \in Public THEN seen[l] ELSE NoOne]]
             /\ listing' = [l \in Listings |->
                    IF seen[l] \in Public THEN "archived" ELSE listing[l]]
             /\ user' = [user EXCEPT !.status = Status(r, "pending_deletion")]

X_CancelClosure(r) ==   \* mutant
    /\ Commits(r, "cancel")
    /\ user' = [user EXCEPT !.status = Status(r, "active")]
    /\ UNCHANGED <<session, listing, closure>>

(* account_service.py:366-442: restores what is archived now.              *)
CancelClosure(r) ==
    /\ Commits(r, "cancel")
    /\ LET q == request[r] IN
       /\ listing' = [l \in Listings |->
              IF q.closure.kept[l] # NoOne /\ q.listing[l] = "archived"
              THEN q.closure.kept[l] ELSE listing[l]]
       /\ closure' = [closure EXCEPT !.status = "cancelled"]
       /\ user' = [user EXCEPT !.status = Status(r, "active")]
    /\ UNCHANGED session

(* account_service.py:847-937.                                             *)
Finalise(r) ==
    /\ Commits(r, "finalise")
    /\ user' = [user EXCEPT !.status = Status(r, "deleted"),
                  !.verified = FALSE, !.mailed = FALSE,
                  !.password = MaxPasswords + 1]
    /\ closure' = [closure EXCEPT !.status = "completed"]
    /\ session' = RevokedAll
    /\ UNCHANGED listing

ClosureDue ==
    /\ closure.status = "grace_period" /\ ~closure.due
    /\ closure' = [closure EXCEPT !.due = TRUE]
    /\ UNCHANGED <<user, listing, session, request, panel, console>>

SessionAges(s) ==
    /\ session[s].state = "open" /\ session[s].fresh
    /\ session' = [session EXCEPT ![s].fresh = FALSE]
    /\ UNCHANGED <<user, closure, listing, request, panel, console>>

-----------------------------------------------------------------------------
Closed == [open |-> FALSE, me |-> NoOne, shown |-> {}, closing |-> FALSE, busy |-> NoOne]

(* bezbednost/page.tsx: the page is rendered from three answers.           *)
Load(s) ==
    /\ LoggedIn(s) /\ panel.busy = NoOne
    /\ panel' = [open |-> TRUE, me |-> s, busy |-> NoOne,
                 shown |-> {x \in Sessions : session[x].state = "open"},
                 closing |-> closure.status = "grace_period"]
    /\ UNCHANGED <<rows, request, console>>

(* AccountSecurityPanel.tsx: what its buttons send, all of them disabled   *)
(* while a call is under way.                                              *)
Buttons ==
    {<<"revoke", s>> : s \in panel.shown \ {panel.me}}
    \cup (IF Cardinality(panel.shown) > 1 THEN {<<"others", NoOne>>} ELSE {})
    \cup (IF panel.closing THEN {<<"cancel", NoOne>>} ELSE {<<"close", NoOne>>})

Click(r) ==
    /\ panel.open /\ panel.busy = NoOne
    /\ \E b \in Buttons : Send(r, b[1], b[2], panel.me)
    /\ panel' = [panel EXCEPT !.busy = r]
    /\ UNCHANGED <<rows, console>>

X_Answered(r) ==   \* mutant
    LET q == request[r] IN
    CASE q.op = "revoke" -> [panel EXCEPT !.busy = NoOne, !.shown = @ \ {q.arg}]
      [] q.op = "others" -> [panel EXCEPT !.busy = NoOne, !.shown = {panel.me}]
      [] OTHER -> [panel EXCEPT !.busy = NoOne]

(* AccountSecurityPanel.tsx: the answers; an error changes nothing shown.  *)
Answered(r) ==
    LET q == request[r] IN
    IF q.step = "refused" THEN [panel EXCEPT !.busy = NoOne] ELSE
    CASE q.op = "revoke" -> [panel EXCEPT !.busy = NoOne, !.shown = @ \ {q.arg}]
      [] q.op = "others" -> [panel EXCEPT !.busy = NoOne, !.shown = {panel.me}]
      [] q.op = "close"  -> Closed
      [] OTHER -> [panel EXCEPT !.busy = NoOne, !.closing = FALSE]

Answer(r) ==
    /\ request[r].step \in {"done", "refused"}
    /\ request' = [request EXCEPT ![r] = Idle]
    /\ panel' = IF panel.busy = r THEN Answered(r) ELSE panel
    /\ UNCHANGED <<rows, console>>

(* UserStatusActions.tsx: suspends or reactivates by the status shown.     *)
Toggle(r) ==
    /\ Send(r, IF console THEN "unsuspend" ELSE "suspend", NoOne, NoOne)
    /\ UNCHANGED <<rows, panel, console>>

OpenConsole ==
    /\ console' = (user.status = "suspended")
    /\ UNCHANGED <<rows, request, panel>>

(* The other senders: the login, verification and reset forms, the logout  *)
(* button, moderators, and the worker's cycle.                             *)
Visit(r) ==
    /\ \/ \E s \in Sessions : /\ session[s].state = "none"
                              /\ \A q \in Requests : request[q] # Idle =>
                                     request[q].arg # s
                              /\ Send(r, "login", s, NoOne)
       \/ \E s \in Sessions : LoggedIn(s) /\ Send(r, "revoke", s, s)
       \/ \E op \in {"verify", "reset"} : Send(r, op, NoOne, NoOne)
       \/ \E l \in Listings : Send(r, "approve", l, NoOne)
    /\ UNCHANGED <<rows, panel, console>>

Worker(r) ==
    /\ \A q \in Requests : request[q] # Idle => request[q].op # "finalise"
    /\ closure.due
    /\ Send(r, "finalise", NoOne, NoOne)
    /\ UNCHANGED <<rows, panel, console>>

Handle(r) ==
    \/ Login(r) \/ Revoke(r) \/ VerifyEmail(r) \/ ResetPassword(r)
    \/ Suspend(r) \/ Unsuspend(r) \/ Approve(r)
    \/ RequestClosure(r) \/ CancelClosure(r) \/ Finalise(r)

Init ==
    /\ \E new \in BOOLEAN :
         /\ user = [status |-> IF new THEN "pending_verification" ELSE "active",
                    verified |-> ~new, mailed |-> new,
                    password |-> 0]
         /\ listing \in [Listings -> IF new THEN {"draft"}
                                     ELSE {"active", "pending_review"}]
    /\ closure = [status |-> "none", due |-> FALSE, kept |-> [l \in Listings |-> NoOne]]
    /\ session = [s \in Sessions |-> [state |-> "none", fresh |-> FALSE, password |-> 0]]
    /\ request = [r \in Requests |-> Idle]
    /\ panel = Closed
    /\ console = FALSE

Next ==
    \/ \E r \in Requests : \/ Handle(r) \/ Answer(r)
                           \/ Click(r) \/ Toggle(r) \/ Visit(r) \/ Worker(r)
    \/ MailLink \/ ClosureDue \/ OpenConsole
    \/ \E s \in Sessions : SessionAges(s) \/ Load(s)

Spec == Init /\ [][Next]_vars
=============================================================================
