--------------------------- MODULE Accounts_proofs ---------------------------
(***************************************************************************)
(* For any number of requests, sessions and listings: no open session has  *)
(* an old password, a closure hides the account at once, only a hidden     *)
(* account is erased, and a device that leaves the list of the account     *)
(* page is revoked.                                                        *)
(***************************************************************************)
EXTENDS MCAccounts, TLAPS

(* A login opens a session nobody has had, and no other login opens it;    *)
(* the sessions the page shows have been open.                             *)
Opens(r) == Reading(r) /\ request[r].op = "login"

Orderly ==
    /\ \A r \in Requests : Opens(r) => /\ request[r].arg \in Sessions
                                       /\ session[request[r].arg].state = "none"
    /\ \A r, q \in Requests :
           Opens(r) /\ Opens(q) /\ request[r].arg = request[q].arg => r = q
    /\ panel.open => panel.me \in Sessions /\ session[panel.me].state # "none"
    /\ \A s \in panel.shown : session[s].state # "none"

(* The call the page waits for is its own, and only the page closes the    *)
(* account, cancels the closure or ends the other sessions.                *)
PageOps == {"revoke", "others", "close", "cancel"}

Attended ==
    /\ panel.busy # NoOne =>
          /\ panel.open /\ request[panel.busy] # Idle
          /\ request[panel.busy].op \in PageOps
          /\ Reading(panel.busy) => request[panel.busy].me = panel.me
          /\ request[panel.busy].op = "revoke" => request[panel.busy].arg \in panel.shown
    /\ \A r \in Requests :
          request[r] # Idle /\ request[r].op \in PageOps \ {"revoke"} => panel.busy = r

(* What the page does not know of yet cannot be: a closure, a session that *)
(* it has ended.                                                           *)
Informed ==
    /\ panel.open /\ ~panel.closing /\ closure.status = "grace_period"
          => session[panel.me].state # "open"
    /\ \A r \in Requests : panel.busy = r /\ request[r].step = "done" =>
          /\ request[r].op = "cancel" => closure.status # "grace_period"
          /\ request[r].op = "revoke" => session[request[r].arg].state = "revoked"
          /\ request[r].op = "others" =>
                \A s \in panel.shown \ {panel.me} : session[s].state = "revoked"
    /\ \A r \in Requests : Reading(r) =>
          /\ request[r].op = "close" => request[r].closure.status # "grace_period"
          /\ request[r].op = "finalise" => request[r].closure.status = "grace_period"

(* Before the first race, what a request has read is what the rows say.    *)
Fresh ==
    \A r \in Requests : Reading(r) =>
        /\ request[r].user.status = user.status
        /\ request[r].user.password = user.password
        /\ request[r].closure.status = closure.status
        /\ request[r].listing = listing

Valid == \A s \in Sessions : session[s].state = "open" => session[s].password = user.password

Hidden == closure.status = "grace_period"
             => user.status \in {"pending_deletion", "suspended", "deleted"}

Base == TypeOK /\ Orderly /\ Attended /\ Informed

Calm == ~raced => Fresh /\ Valid /\ (~lifted => Hidden)

-----------------------------------------------------------------------------
LEMMA RequestCases ==
    ASSUME NEW q \in Request
    PROVE  /\ q.step \in {"idle", "read", "done", "refused"}
           /\ q = Idle <=> q.step = "idle"
           /\ q.step # "idle" => q.op \in Ops /\ q.arg \in Args
           /\ q.step = "read" =>
                 /\ q.me \in Sessions \cup {NoOne} /\ q.user \in User
                 /\ q.closure \in Closure /\ q.listing \in [Listings -> ListingStatuses]
  BY DEF Request, Idle

(* The rows are read, or the request is refused.                           *)
Sent(r, op, arg, me) ==
    /\ request[r] = Idle /\ request' \in [Requests -> Request]
    /\ \A q \in Requests \ {r} : request'[q] = request[q]
    /\ request'[r].op = op /\ request'[r].arg = arg
    /\ \/ request'[r].step = "refused"
       \/ /\ request'[r].step = "read" /\ request'[r].me = me
          /\ request'[r].user = user /\ request'[r].closure = closure
          /\ request'[r].listing = listing
          /\ op \in {"revoke", "others", "close"} => LoggedIn(me)
          /\ op = "finalise" => closure.status = "grace_period"

LEMMA Sends ==
    ASSUME TypeOK, NEW r \in Requests, NEW op \in Ops, NEW arg \in Args,
           NEW me \in Sessions \cup {NoOne}, Send(r, op, arg, me)
    PROVE  Sent(r, op, arg, me)
  <1> DEFINE q == [op |-> op, arg |-> arg, me |-> me]
             read == [op |-> op, arg |-> arg, me |-> me, step |-> "read",
                      user |-> user, closure |-> closure, listing |-> listing]
             end == [op |-> op, arg |-> arg, step |-> "refused"]
  <1>0. /\ request \in [Requests -> Request] /\ request[r] = Idle
        /\ user \in User /\ closure \in Closure /\ listing \in [Listings -> ListingStatuses]
    BY DEF TypeOK, Send
  <1>1. /\ read \in Request /\ read.op = op /\ read.arg = arg /\ read.me = me
        /\ read.step = "read" /\ read.user = user /\ read.closure = closure
        /\ read.listing = listing
    BY <1>0 DEF Request
  <1>2. end \in Request /\ end.op = op /\ end.arg = arg /\ end.step = "refused"
    BY DEF Request
  <1>3. Allowed(q) => /\ op \in {"revoke", "others", "close"} => LoggedIn(me)
                      /\ op = "finalise" => closure.status = "grace_period"
    BY DEF Allowed
  <1>4. request' = [request EXCEPT ![r] = IF Allowed(q) THEN read ELSE end]
    BY DEF Send
  <1> HIDE DEF q, read, end
  <1>5. CASE Allowed(q)
    <2>1. request' = [request EXCEPT ![r] = read]
      BY <1>4, <1>5
    <2> QED
      BY <1>0, <1>1, <1>3, <1>5, <2>1 DEF Sent
  <1>6. CASE ~Allowed(q)
    <2>1. request' = [request EXCEPT ![r] = end]
      BY <1>4, <1>6
    <2> QED
      BY <1>0, <1>2, <2>1 DEF Sent
  <1> QED
    BY <1>5, <1>6

(* A request commits: the page hears of its own.                           *)
Committed(r, op) ==
    /\ request[r].step = "read" /\ request[r].op = op
    /\ request' \in [Requests -> Request] /\ panel' = panel /\ console' = console
    /\ \A q \in Requests \ {r} : request'[q] = request[q]
    /\ panel.busy # r => request'[r] = Idle
    /\ panel.busy = r => /\ request'[r].step = "done" /\ request'[r].op = op
                         /\ request'[r].arg = request[r].arg

LEMMA Commitment ==
    ASSUME TypeOK, NEW r \in Requests, NEW op \in Ops, Commits(r, op)
    PROVE  Committed(r, op)
  <1> PICK q \in Request : q = request[r]
    BY DEF TypeOK
  <1> DEFINE done == [op |-> op, arg |-> q.arg, step |-> "done"]
  <1>0. /\ request \in [Requests -> Request] /\ q.step = "read" /\ q.op = op
        /\ request' = [request EXCEPT ![r] = IF panel.busy = r THEN done ELSE Idle]
        /\ panel' = panel /\ console' = console
    BY DEF TypeOK, Commits
  <1>1. /\ done \in Request /\ done.op = op /\ done.arg = q.arg /\ done.step = "done"
        /\ Idle \in Request
    BY <1>0, RequestCases DEF Request
  <1> HIDE DEF done
  <1>2. CASE panel.busy = r
    <2>1. request' = [request EXCEPT ![r] = done]
      BY <1>0, <1>2
    <2> QED
      BY <1>0, <1>1, <1>2, <2>1 DEF Committed
  <1>3. CASE panel.busy # r
    <2>1. request' = [request EXCEPT ![r] = Idle]
      BY <1>0, <1>3
    <2> QED
      BY <1>0, <1>1, <1>3, <2>1 DEF Committed
  <1> QED
    BY <1>2, <1>3

-----------------------------------------------------------------------------
(* What the commit of request r does to the rows.                          *)
Effect(r) ==
    LET q == request[r] IN
    /\ user' \in User /\ closure' \in Closure /\ session' \in [Sessions -> Session]
    /\ listing' \in [Listings -> ListingStatuses]
    /\ q.op \in Ops /\ Committed(r, q.op)
    \* sessions
    /\ \A s \in Sessions :
          \/ session'[s] = session[s]
          \/ session[s].state = "open" /\ session'[s].state = "revoked"
          \/ /\ q.op = "login" /\ s = q.arg
             /\ session'[s].state = "open" /\ session'[s].password = q.user.password
    /\ q.op \in {"reset", "close", "finalise"} => \A s \in Sessions : session'[s].state # "open"
    /\ q.op = "revoke" /\ q.arg \in Sessions => session'[q.arg].state # "open"
    /\ q.op = "others" => \A s \in Sessions \ {q.me} : session'[s].state # "open"
    \* the closure
    /\ q.op \notin {"close", "cancel", "finalise"} => closure' = closure
    /\ q.op = "cancel" => closure'.status = "cancelled"
    /\ q.op = "finalise" => closure'.status = "completed"
    \* the account
    /\ q.op \notin {"reset", "finalise"} => user'.password = user.password
    /\ \/ user'.status = user.status
       \/ q.op = "login" /\ q.user.status = "pending_verification" /\ user'.status = "active"
       \/ q.op \in {"verify", "unsuspend", "cancel"} /\ user'.status = "active"
       \/ q.op = "suspend" /\ user'.status = "suspended"
       \/ q.op = "close" /\ user'.status = "pending_deletion"
       \/ q.op = "finalise"
    /\ q.op = "close" /\ q.closure.status # "grace_period" =>
          /\ q.user.status = user.status => user'.status = "pending_deletion"
          /\ q.listing = listing => \A l \in Listings : listing'[l] \notin Public

LEMMA Revoking ==
    ASSUME session \in [Sessions -> Session]
    PROVE  /\ RevokedAll \in [Sessions -> Session]
           /\ \A s \in Sessions :
                 /\ RevokedAll[s].state # "open"
                 /\ \/ RevokedAll[s] = session[s]
                    \/ session[s].state = "open" /\ RevokedAll[s].state = "revoked"
  <1>1. ASSUME NEW s \in Sessions
        PROVE  LET x == [session[s] EXCEPT !.state = "revoked"] IN
               x \in Session /\ x.state = "revoked"
    BY DEF Session
  <1> QED
    BY <1>1 DEF RevokedAll

LEMMA Rows ==
    ASSUME NEW u \in User, NEW x \in UserStatuses, NEW seen
    PROVE  LET new == [u EXCEPT !.status = Column(seen, x, u.status)] IN
           /\ new \in User /\ new.password = u.password
           /\ new.status = u.status \/ new.status = x
           /\ seen = u.status => new.status = x
  BY DEF User, Column

LEMMA ReadTypes ==
    ASSUME TypeOK, NEW r \in Requests, request[r].step = "read"
    PROVE  LET q == request[r] IN
           /\ q \in Request /\ q.op \in Ops /\ q.arg \in Args /\ q.me \in Sessions \cup {NoOne}
           /\ q.user \in User /\ q.closure \in Closure
           /\ q.listing \in [Listings -> ListingStatuses]
           /\ user \in User /\ closure \in Closure /\ session \in [Sessions -> Session]
           /\ listing \in [Listings -> ListingStatuses]
  BY RequestCases DEF TypeOK

LEMMA LoginEffect ==
    ASSUME TypeOK, NEW r \in Requests, Login(r)
    PROVE  Effect(r)
  <1> PICK q : q = request[r] OBVIOUS
  <1>0. Committed(r, "login") /\ request[r].step = "read"
    BY Commitment DEF Login, Ops, Committed
  <1>1. /\ q.user \in User /\ user \in User /\ session \in [Sessions -> Session]
        /\ closure \in Closure /\ listing \in [Listings -> ListingStatuses] /\ q.op = "login"
    BY <1>0, ReadTypes DEF Committed
  <1> DEFINE x == [state |-> "open", fresh |-> TRUE, password |-> q.user.password]
  <1>2. x \in Session /\ x.state = "open" /\ x.password = q.user.password
    BY <1>1 DEF Session, User
  <1>3. session' = [session EXCEPT ![q.arg] = x] /\ closure' = closure /\ listing' = listing
    BY DEF Login
  <1>4. user' = [user EXCEPT !.status =
           IF q.user.status = "pending_verification" /\ q.user.verified
           THEN Column(q.user.status, "active", user.status) ELSE user.status]
    BY DEF Login, Status
  <1> HIDE DEF x
  <1>5. /\ session' \in [Sessions -> Session]
        /\ \A s \in Sessions : session'[s] = session[s] \/ (s = q.arg /\ session'[s] = x)
    BY <1>1, <1>2, <1>3
  <1>6. /\ user' \in User /\ user'.password = user.password
        /\ \/ user'.status = user.status
           \/ q.user.status = "pending_verification" /\ user'.status = "active"
    <2>1. CASE q.user.status = "pending_verification" /\ q.user.verified
      <3>1. user' = [user EXCEPT !.status = Column(q.user.status, "active", user.status)]
        BY <1>4, <2>1
      <3> QED
        BY <1>1, <2>1, <3>1, Rows DEF UserStatuses
    <2>2. CASE ~(q.user.status = "pending_verification" /\ q.user.verified)
      <3>1. user' = [user EXCEPT !.status = user.status]
        BY <1>4, <2>2
      <3>2. user' = user
        BY <1>1, <3>1 DEF User
      <3> QED
        BY <1>1, <3>2
    <2> QED
      BY <2>1, <2>2
  <1> QED
    BY <1>0, <1>1, <1>2, <1>3, <1>5, <1>6 DEF Effect, Ops

LEMMA RevokeEffect ==
    ASSUME TypeOK, NEW r \in Requests, Revoke(r)
    PROVE  Effect(r)
  <1> PICK op \in {"revoke", "others"} : Commits(r, op)
    BY DEF Revoke
  <1>0. Committed(r, op) /\ request[r].step = "read" /\ request[r].op = op /\ op \in Ops
    BY Commitment DEF Ops, Committed
  <1>1. /\ user' = user /\ closure' = closure /\ listing' = listing
        /\ user \in User /\ closure \in Closure /\ session \in [Sessions -> Session]
        /\ listing \in [Listings -> ListingStatuses]
    BY <1>0, ReadTypes DEF Revoke
  <1> DEFINE gone == IF request[r].op = "revoke" THEN {request[r].arg}
                     ELSE Sessions \ {request[r].me}
  <1>2. session' = [s \in Sessions |-> IF s \in gone THEN RevokedAll[s] ELSE session[s]]
    BY DEF Revoke
  <1>3. /\ op = "revoke" => request[r].arg \in gone
        /\ op = "others" => \A s \in Sessions \ {request[r].me} : s \in gone
    BY <1>0
  <1> HIDE DEF gone
  <1>4. /\ session' \in [Sessions -> Session]
        /\ \A s \in Sessions :
              /\ s \in gone => session'[s].state # "open"
              /\ \/ session'[s] = session[s]
                 \/ session[s].state = "open" /\ session'[s].state = "revoked"
    BY <1>1, <1>2, Revoking
  <1> QED
    BY <1>0, <1>1, <1>3, <1>4 DEF Effect

LEMMA VerifyEffect ==
    ASSUME TypeOK, NEW r \in Requests, VerifyEmail(r)
    PROVE  Effect(r)
  <1>0. Committed(r, "verify") /\ request[r].step = "read"
    BY Commitment DEF VerifyEmail, Ops, Committed
  <1>1. /\ closure' = closure /\ listing' = listing /\ session' = session
        /\ user \in User /\ closure \in Closure /\ session \in [Sessions -> Session]
        /\ listing \in [Listings -> ListingStatuses]
    BY <1>0, ReadTypes DEF VerifyEmail
  <1> DEFINE x == Column(request[r].user.status, "active", user.status)
  <1>2. user' = [user EXCEPT !.verified = TRUE, !.mailed = FALSE, !.status = x]
    BY DEF VerifyEmail, Status
  <1>3. x \in UserStatuses /\ x \in {user.status, "active"}
    BY <1>1 DEF Column, User, UserStatuses
  <1> HIDE DEF x
  <1>4. user' \in User /\ user'.password = user.password /\ user'.status = x
    BY <1>1, <1>2, <1>3 DEF User
  <1> QED
    BY <1>0, <1>1, <1>3, <1>4 DEF Effect, Ops, Committed

LEMMA ResetEffect ==
    ASSUME TypeOK, NEW r \in Requests, ResetPassword(r)
    PROVE  Effect(r)
  <1>0. Committed(r, "reset") /\ request[r].step = "read"
    BY Commitment DEF ResetPassword, Ops, Committed
  <1>1. /\ closure' = closure /\ listing' = listing /\ session' = RevokedAll
        /\ user \in User /\ closure \in Closure /\ session \in [Sessions -> Session]
        /\ listing \in [Listings -> ListingStatuses] /\ request[r].user \in User
    BY <1>0, ReadTypes DEF ResetPassword
  <1> DEFINE x == request[r].user.password + 1
  <1>2. user' = [user EXCEPT !.password = x] /\ x \in Nat
    BY <1>1 DEF ResetPassword, User
  <1> HIDE DEF x
  <1>3. user' \in User /\ user'.status = user.status
    BY <1>1, <1>2 DEF User
  <1> QED
    BY <1>0, <1>1, <1>3, Revoking DEF Effect, Ops, Committed

LEMMA ModerationEffect ==
    ASSUME TypeOK, NEW r \in Requests, Suspend(r) \/ Unsuspend(r) \/ Approve(r)
    PROVE  Effect(r)
  <1> DEFINE x(new) == Column(request[r].user.status, new, user.status)
  <1>1. CASE Suspend(r)
    <2>0. Committed(r, "suspend") /\ request[r].step = "read"
      BY <1>1, Commitment DEF Suspend, Ops, Committed
    <2>1. /\ closure' = closure /\ session' = session
          /\ user \in User /\ closure \in Closure /\ session \in [Sessions -> Session]
          /\ listing \in [Listings -> ListingStatuses]
      BY <1>1, <2>0, ReadTypes DEF Suspend
    <2>2. user' = [user EXCEPT !.status = x("suspended")] /\ "suspended" \in UserStatuses
      BY <1>1 DEF Suspend, Status, UserStatuses
    <2>3. listing' \in [Listings -> ListingStatuses]
      BY <1>1, <2>1 DEF Suspend, ListingStatuses
    <2>4. /\ user' \in User /\ user'.password = user.password
          /\ user'.status = user.status \/ user'.status = "suspended"
      BY <2>1, <2>2, Rows
    <2> QED
      BY <2>0, <2>1, <2>3, <2>4 DEF Effect, Ops, Committed
  <1>2. CASE Unsuspend(r)
    <2>0. Committed(r, "unsuspend") /\ request[r].step = "read"
      BY <1>2, Commitment DEF Unsuspend, Ops, Committed
    <2>1. /\ closure' = closure /\ session' = session /\ listing' = listing
          /\ user \in User /\ closure \in Closure /\ session \in [Sessions -> Session]
          /\ listing \in [Listings -> ListingStatuses]
      BY <1>2, <2>0, ReadTypes DEF Unsuspend
    <2>2. user' = [user EXCEPT !.status = x("active")] /\ "active" \in UserStatuses
      BY <1>2 DEF Unsuspend, Status, UserStatuses
    <2>3. /\ user' \in User /\ user'.password = user.password
          /\ user'.status = user.status \/ user'.status = "active"
      BY <2>1, <2>2, Rows
    <2> QED
      BY <2>0, <2>1, <2>3 DEF Effect, Ops, Committed
  <1>3. CASE Approve(r)
    <2>0. Committed(r, "approve") /\ request[r].step = "read"
      BY <1>3, Commitment DEF Approve, Ops, Committed
    <2>1. /\ closure' = closure /\ session' = session /\ user' = user
          /\ user \in User /\ closure \in Closure /\ session \in [Sessions -> Session]
          /\ listing \in [Listings -> ListingStatuses]
      BY <1>3, <2>0, ReadTypes DEF Approve
    <2>2. listing' \in [Listings -> ListingStatuses]
      BY <1>3, <2>1 DEF Approve, ListingStatuses
    <2> QED
      BY <2>0, <2>1, <2>2 DEF Effect, Ops, Committed
  <1> QED
    BY <1>1, <1>2, <1>3

LEMMA CloseEffect ==
    ASSUME TypeOK, NEW r \in Requests, RequestClosure(r)
    PROVE  Effect(r)
  <1> PICK q : q = request[r] OBVIOUS
  <1>0. Committed(r, "close") /\ q.step = "read" /\ q.op = "close"
    BY Commitment DEF RequestClosure, Ops, Committed
  <1>1. /\ session' = RevokedAll
        /\ user \in User /\ closure \in Closure /\ session \in [Sessions -> Session]
        /\ listing \in [Listings -> ListingStatuses] /\ q.closure \in Closure
        /\ q.listing \in [Listings -> ListingStatuses]
    BY <1>0, ReadTypes DEF RequestClosure
  <1>2. CASE q.closure.status = "grace_period" /\ UNCHANGED <<user, closure, listing>>
    BY <1>0, <1>1, <1>2, Revoking DEF Effect, Ops
  <1>3. CASE /\ closure' = [status |-> "grace_period", due |-> FALSE,
                            kept |-> [l \in Listings |->
                                IF q.listing[l] \in Public THEN q.listing[l] ELSE NoOne]]
             /\ listing' = [l \in Listings |->
                    IF q.listing[l] \in Public THEN "archived" ELSE listing[l]]
             /\ user' = [user EXCEPT !.status =
                             Column(q.user.status, "pending_deletion", user.status)]
    <2>1. closure' \in Closure
      <3> DEFINE kept == [l \in Listings |->
                             IF q.listing[l] \in Public THEN q.listing[l] ELSE NoOne]
      <3>1. kept \in [Listings -> ListingStatuses \cup {NoOne}]
        BY <1>1
      <3> HIDE DEF kept
      <3>2. closure' = [status |-> "grace_period", due |-> FALSE, kept |-> kept]
        BY <1>3 DEF kept
      <3> QED
        BY <3>1, <3>2 DEF Closure
    <2>2. listing' \in [Listings -> ListingStatuses]
      BY <1>1, <1>3 DEF ListingStatuses
    <2>3. /\ user' \in User /\ user'.password = user.password
          /\ user'.status = user.status \/ user'.status = "pending_deletion"
          /\ q.user.status = user.status => user'.status = "pending_deletion"
      BY <1>1, <1>3, Rows DEF UserStatuses
    <2>4. q.listing = listing => \A l \in Listings : listing'[l] \notin Public
      BY <1>3 DEF Public
    <2> QED
      BY <1>0, <1>1, <2>1, <2>2, <2>3, <2>4, Revoking DEF Effect, Ops
  <1> QED
    BY <1>2, <1>3 DEF RequestClosure, Status

LEMMA CancelEffect ==
    ASSUME TypeOK, NEW r \in Requests, CancelClosure(r)
    PROVE  Effect(r)
  <1> PICK q : q = request[r] OBVIOUS
  <1>0. Committed(r, "cancel") /\ q.step = "read" /\ q.op = "cancel"
    BY Commitment DEF CancelClosure, Ops, Committed
  <1>1. /\ session' = session
        /\ user \in User /\ closure \in Closure /\ session \in [Sessions -> Session]
        /\ listing \in [Listings -> ListingStatuses] /\ q.closure \in Closure
    BY <1>0, ReadTypes DEF CancelClosure
  <1>2. /\ listing' = [l \in Listings |->
              IF q.closure.kept[l] # NoOne /\ q.listing[l] = "archived"
              THEN q.closure.kept[l] ELSE listing[l]]
        /\ closure' = [closure EXCEPT !.status = "cancelled"]
        /\ user' = [user EXCEPT !.status = Column(q.user.status, "active", user.status)]
    BY DEF CancelClosure, Status
  <1>3. closure' \in Closure /\ closure'.status = "cancelled"
    BY <1>1, <1>2 DEF Closure
  <1>4. q.closure.kept \in [Listings -> ListingStatuses \cup {NoOne}]
    BY <1>1 DEF Closure
  <1>5. listing' \in [Listings -> ListingStatuses]
    BY <1>1, <1>2, <1>4
  <1>6. /\ user' \in User /\ user'.password = user.password
        /\ user'.status = user.status \/ user'.status = "active"
    BY <1>1, <1>2, Rows DEF UserStatuses
  <1> QED
    BY <1>0, <1>1, <1>3, <1>5, <1>6 DEF Effect, Ops

LEMMA FinaliseEffect ==
    ASSUME TypeOK, NEW r \in Requests, Finalise(r)
    PROVE  Effect(r)
  <1> PICK q : q = request[r] OBVIOUS
  <1>0. Committed(r, "finalise") /\ q.step = "read" /\ q.op = "finalise"
    BY Commitment DEF Finalise, Ops, Committed
  <1>1. /\ session' = RevokedAll /\ listing' = listing
        /\ user \in User /\ closure \in Closure /\ session \in [Sessions -> Session]
        /\ listing \in [Listings -> ListingStatuses]
    BY <1>0, ReadTypes DEF Finalise
  <1> DEFINE x == Column(q.user.status, "deleted", user.status)
             n == MaxPasswords + 1
  <1>2. /\ closure' = [closure EXCEPT !.status = "completed"]
        /\ user' = [user EXCEPT !.status = x, !.verified = FALSE, !.mailed = FALSE,
                                !.password = n]
    BY DEF Finalise, Status
  <1>3. x \in UserStatuses /\ n \in Nat
    BY <1>1, SomeRequests DEF Column, User, UserStatuses
  <1> HIDE DEF x, n
  <1>4. user' \in User
    BY <1>1, <1>2, <1>3 DEF User
  <1>5. closure' \in Closure /\ closure'.status = "completed"
    BY <1>1, <1>2 DEF Closure
  <1> QED
    BY <1>0, <1>1, <1>4, <1>5, Revoking DEF Effect, Ops

LEMMA Effects ==
    ASSUME TypeOK, NEW r \in Requests, Handle(r)
    PROVE  Effect(r)
  BY LoginEffect, RevokeEffect, VerifyEffect, ResetEffect, ModerationEffect, CloseEffect,
     CancelEffect, FinaliseEffect DEF Handle

-----------------------------------------------------------------------------
(* A commit keeps the invariants.                                          *)
LEMMA CommitFacts ==
    ASSUME TypeOK, NEW r \in Requests, Effect(r)
    PROVE  /\ Reading(r) /\ ~Reading(r)' /\ panel' = panel
           /\ \A q \in Requests \ {r} : request'[q] = request[q]
           /\ panel.busy # r => request'[r] = Idle
           /\ panel.busy = r => /\ request'[r].step = "done"
                                /\ request'[r].op = request[r].op
                                /\ request'[r].arg = request[r].arg
  BY DEF Effect, Committed, Reading, Idle

LEMMA CommitOrderly ==
    ASSUME Base, NEW r \in Requests, Effect(r)
    PROVE  TypeOK' /\ Orderly'
  <1>0. TypeOK /\ Orderly /\ session \in [Sessions -> Session] /\ panel \in Panel
    BY DEF Base, TypeOK
  <1>1. TypeOK'
    BY <1>0 DEF TypeOK, Effect, Committed
  <1>2. ASSUME NEW q \in Requests, Opens(q)' PROVE Opens(q) /\ q # r /\ request'[q] = request[q]
    BY <1>0, <1>2, CommitFacts DEF Opens, Reading
  <1>3. \A s \in Sessions :
           \/ session'[s] = session[s] \/ session'[s].state = "revoked"
           \/ Opens(r) /\ s = request[r].arg /\ session'[s].state = "open"
    BY <1>0, CommitFacts DEF Effect, Opens
  <1>4. \A q \in Requests : Opens(q)' =>
           request'[q].arg \in Sessions /\ session'[request'[q].arg].state = "none"
    <2> SUFFICES ASSUME NEW q \in Requests, Opens(q)'
                 PROVE  request'[q].arg \in Sessions /\ session'[request'[q].arg].state = "none"
      OBVIOUS
    <2>1. Opens(q) /\ q # r /\ request'[q] = request[q]
      BY <1>2
    <2>2. /\ request[q].arg \in Sessions /\ session[request[q].arg].state = "none"
          /\ ~(Opens(r) /\ request[q].arg = request[r].arg)
      BY <1>0, <2>1 DEF Orderly
    <2>3. session'[request[q].arg] = session[request[q].arg]
      BY <2>2, <1>0 DEF Effect, Opens, Committed, Reading
    <2> QED
      BY <2>1, <2>2, <2>3
  <1>5. \A p, q \in Requests :
           Opens(p)' /\ Opens(q)' /\ request'[p].arg = request'[q].arg => p = q
    BY <1>0, <1>2 DEF Orderly
  <1>6. \A s \in Sessions : session[s].state # "none" => session'[s].state # "none"
    BY <1>3
  <1>7. panel' = panel
    BY <1>0, CommitFacts
  <1> QED
    BY <1>0, <1>1, <1>4, <1>5, <1>6, <1>7 DEF Orderly, Panel

LEMMA CommitAttended ==
    ASSUME Base, NEW r \in Requests, Effect(r)
    PROVE  Attended'
  <1>0. TypeOK /\ Attended /\ panel' = panel /\ panel.busy \in Requests \cup {NoOne}
    BY CommitFacts DEF Base, TypeOK, Panel
  <1>1. CASE panel.busy = r
    <2>1. /\ request'[r].step = "done" /\ request'[r].op = request[r].op
          /\ request'[r].arg = request[r].arg /\ request'[r] # Idle /\ request[r] # Idle
          /\ ~Reading(r)'
      BY <1>0, <1>1, CommitFacts DEF Idle, Reading
    <2>2. /\ panel.open /\ request[r].op \in PageOps
          /\ request[r].op = "revoke" => request[r].arg \in panel.shown
      BY <1>0, <1>1, SomeRequests DEF Attended
    <2>3. \A q \in Requests \ {r} : request'[q] = request[q]
      BY <1>0, CommitFacts
    <2> QED
      BY <1>0, <1>1, <2>1, <2>2, <2>3 DEF Attended
  <1>2. CASE panel.busy # r
    <2>1. request'[r] = Idle /\ \A q \in Requests \ {r} : request'[q] = request[q]
      BY <1>0, <1>2, CommitFacts
    <2>2. panel.busy # NoOne => /\ panel.busy \in Requests
                                /\ request'[panel.busy] = request[panel.busy]
      BY <1>0, <1>2, <2>1
    <2> QED
      BY <1>0, <1>2, <2>1, <2>2 DEF Attended, Reading
  <1> QED
    BY <1>1, <1>2

LEMMA CommitInformed ==
    ASSUME Base, NEW r \in Requests, Effect(r)
    PROVE  Informed'
  <1>0. /\ TypeOK /\ Orderly /\ Attended /\ Informed /\ session \in [Sessions -> Session]
        /\ panel' = panel /\ panel \in Panel /\ panel.shown \subseteq Sessions
        /\ panel.open => panel.me \in Sessions
    BY CommitFacts DEF Base, TypeOK, Panel, Orderly
  <1>1. \A s \in Sessions : session[s].state # "none" =>
           \/ session'[s] = session[s]
           \/ session[s].state = "open" /\ session'[s].state = "revoked"
    BY <1>0, CommitFacts DEF Effect, Orderly, Opens
  <1>2. \A s \in Sessions : session[s].state # "none" /\ session'[s].state # "open"
                               => session'[s].state = "revoked"
    BY <1>0, <1>1 DEF Session
  <1>3. \/ closure' = closure
        \/ request[r].op = "close" /\ \A s \in Sessions : session'[s].state # "open"
        \/ closure'.status \in {"cancelled", "completed"}
    BY DEF Effect
  <1>4. panel.open /\ ~panel.closing /\ closure'.status = "grace_period"
          => session'[panel.me].state # "open"
    BY <1>0, <1>1, <1>3 DEF Informed, Orderly
  <1>5. ASSUME NEW q \in Requests, panel.busy = q, request'[q].step = "done"
        PROVE  /\ request'[q].op = "cancel" => closure'.status # "grace_period"
               /\ request'[q].op = "revoke" => session'[request'[q].arg].state = "revoked"
               /\ request'[q].op = "others" =>
                     \A s \in panel.shown \ {panel.me} : session'[s].state = "revoked"
    <2>1. CASE q = r
      <3>1. request'[r].op = request[r].op /\ request'[r].arg = request[r].arg
        BY <1>0, <1>5, <2>1, CommitFacts
      <3>2. /\ request[r].me = panel.me
            /\ request[r].op = "revoke" => request[r].arg \in panel.shown
        BY <1>0, <1>5, <2>1, CommitFacts, SomeRequests DEF Attended
      <3>3. \A s \in panel.shown : session[s].state # "none"
        BY <1>0 DEF Orderly
      <3>4. request[r].op = "cancel" => closure'.status # "grace_period"
        BY DEF Effect
      <3>5. request[r].op = "revoke" => session'[request[r].arg].state = "revoked"
        BY <1>0, <1>2, <3>2, <3>3 DEF Effect
      <3>6. request[r].op = "others" =>
                     \A s \in panel.shown \ {panel.me} : session'[s].state = "revoked"
        BY <1>0, <1>2, <3>2, <3>3 DEF Effect
      <3> QED
        BY <2>1, <3>1, <3>4, <3>5, <3>6
    <2>2. CASE q # r
      <3>1. request'[q] = request[q] /\ request[r] # Idle
        BY <1>0, <2>2, CommitFacts DEF Reading, Idle
      <3>2. request[r].op \notin PageOps \ {"revoke"}
        BY <1>0, <1>5, <2>2, <3>1 DEF Attended
      <3>3. closure' = closure \/ closure'.status = "completed"
        BY <3>2 DEF Effect, PageOps
      <3>4. \A s \in Sessions : session[s].state = "revoked" => session'[s].state = "revoked"
        BY <1>1
      <3>5. request[q].op = "revoke" => request[q].arg \in Sessions
        BY <1>0, <1>5, SomeRequests DEF Attended
      <3> QED
        BY <1>0, <1>5, <3>1, <3>3, <3>4, <3>5 DEF Informed
    <2> QED
      BY <2>1, <2>2
  <1>6. \A q \in Requests : Reading(q)' => Reading(q) /\ request'[q] = request[q]
    BY <1>0, CommitFacts DEF Reading
  <1> QED
    BY <1>0, <1>4, <1>5, <1>6 DEF Informed

LEMMA CommitCalm ==
    ASSUME Base, Calm, NEW r \in Requests, Handle(r), Effect(r),
           raced' = (raced \/ Racing),
           lifted' = (closure'.status = "grace_period" /\ (lifted \/ Lifting))
    PROVE  Calm'
  <1> SUFFICES ASSUME ~raced' PROVE (Fresh /\ Valid /\ (~lifted => Hidden))'
    BY DEF Calm
  <1> PICK q : q = request[r] OBVIOUS
  <1>0. TypeOK /\ Informed /\ Fresh /\ Valid /\ (~lifted => Hidden) /\ ~Racing
    BY DEF Base, Calm
  <1>1. \A p \in Requests : ~Reading(p)'
    <2>1. \A p \in Requests \ {r} : ~Reading(p)
      BY <1>0, CommitFacts DEF Racing
    <2> QED
      BY <1>0, <2>1, CommitFacts DEF Reading
  <1>2. /\ q.user.status = user.status /\ q.user.password = user.password
        /\ q.op = "close" => q.closure.status # "grace_period"
    BY <1>0, CommitFacts DEF Fresh, Informed
  <1>3. Fresh'
    BY <1>1 DEF Fresh
  <1>4. Valid'
    BY <1>0, <1>2 DEF Effect, Valid
  <1>5. ASSUME ~lifted', closure'.status = "grace_period"
        PROVE  user'.status \in {"pending_deletion", "suspended", "deleted"}
    <2>1. CASE q.op = "close"
      BY <1>2, <2>1 DEF Effect
    <2>2. CASE q.op # "close"
      <3>1. closure' = closure /\ closure.status = "grace_period"
            /\ q.op \notin {"cancel", "finalise"}
        BY <1>5, <2>2 DEF Effect
      <3>2. ~lifted /\ ~Lifting
        BY <1>5
      <3>3. user.status \in {"pending_deletion", "suspended", "deleted"}
        BY <1>0, <3>1, <3>2 DEF Hidden
      <3>4. q.op \notin {"verify", "unsuspend"}
        <4> SUFFICES ASSUME q.op \in {"verify", "unsuspend"} PROVE FALSE
          OBVIOUS
        <4>1. VerifyEmail(r) \/ Unsuspend(r)
          BY DEF Handle, Login, Revoke, ResetPassword, Suspend, Approve, RequestClosure,
                 CancelClosure, Finalise, Commits
        <4>2. Commits(r, "verify") \/ Commits(r, "unsuspend")
          BY <4>1 DEF VerifyEmail, Unsuspend
        <4> QED
          BY <3>1, <3>2, <4>2 DEF Lifting
      <3> QED
        BY <1>2, <2>2, <3>1, <3>3, <3>4 DEF Effect
    <2> QED
      BY <2>1, <2>2
  <1>6. (~lifted => Hidden)'
    BY <1>5 DEF Hidden
  <1> QED
    BY <1>3, <1>4, <1>6

-----------------------------------------------------------------------------
(* The other steps leave what the requests read as it was.                 *)
Histories ==
    /\ raced => raced'
    /\ closure'.status = "grace_period" /\ lifted => lifted'

LEMMA QuietCalm ==
    ASSUME Calm, Histories,
           user'.status = user.status, user'.password = user.password,
           closure'.status = closure.status, listing' = listing,
           \A s \in Sessions : session'[s].state = "open" =>
               session[s].state = "open" /\ session'[s].password = session[s].password,
           \A r \in Requests : Reading(r)' =>
               \/ Reading(r) /\ request'[r] = request[r]
               \/ /\ request'[r].user = user /\ request'[r].closure = closure
                  /\ request'[r].listing = listing
    PROVE  Calm'
  <1> SUFFICES ASSUME ~raced' PROVE (Fresh /\ Valid /\ (~lifted => Hidden))'
    BY DEF Calm
  <1>0. Fresh /\ Valid /\ (~lifted => Hidden)
    BY DEF Calm, Histories
  <1>1. Fresh'
    <2> SUFFICES ASSUME NEW r \in Requests, Reading(r)'
                 PROVE  /\ request'[r].user.status = user'.status
                        /\ request'[r].user.password = user'.password
                        /\ request'[r].closure.status = closure'.status
                        /\ request'[r].listing = listing'
      BY DEF Fresh
    <2> QED
      BY <1>0 DEF Fresh
  <1>2. Valid'
    BY <1>0 DEF Valid
  <1>3. (~lifted => Hidden)'
    BY <1>0 DEF Hidden, Histories
  <1> QED
    BY <1>1, <1>2, <1>3

(* A request is sent: by the page, which waits for it, or by another.      *)
LEMMA SendSteps ==
    ASSUME Base, NEW r \in Requests, NEW op \in Ops, NEW arg \in Args,
           NEW me \in Sessions \cup {NoOne}, Sent(r, op, arg, me),
           UNCHANGED rows, console' = console,
           op = "login" => /\ arg \in Sessions /\ session[arg].state = "none"
                           /\ \A q \in Requests : request[q] # Idle => request[q].arg # arg,
           \/ panel' = panel /\ op \notin PageOps \ {"revoke"}
           \/ /\ panel.open /\ panel.busy = NoOne /\ panel' = [panel EXCEPT !.busy = r]
              /\ op \in PageOps /\ me = panel.me
              /\ op = "revoke" => arg \in panel.shown
              /\ op = "close" => ~panel.closing
    PROVE  Base' /\ (Calm /\ Histories => Calm')
  <1>0. /\ TypeOK /\ Orderly /\ Attended /\ Informed /\ panel \in Panel
        /\ user' = user /\ closure' = closure /\ listing' = listing /\ session' = session
        /\ panel.busy # r /\ r # NoOne
    BY SomeRequests DEF Base, TypeOK, rows, Sent, Attended
  <1>1. /\ panel' \in Panel /\ panel'.open = panel.open /\ panel'.me = panel.me
        /\ panel'.shown = panel.shown /\ panel'.closing = panel.closing
        /\ \/ panel'.busy = panel.busy /\ op \notin PageOps \ {"revoke"}
           \/ /\ panel'.busy = r /\ panel.busy = NoOne /\ panel.open
              /\ op \in PageOps /\ me = panel.me
              /\ op = "revoke" => arg \in panel.shown
              /\ op = "close" => ~panel.closing
    BY <1>0 DEF Panel
  <1>2. TypeOK'
    BY <1>0, <1>1 DEF TypeOK, Sent
  <1>3. /\ request'[r].op = op /\ request'[r].arg = arg /\ request'[r] # Idle
        /\ request'[r].step \in {"read", "refused"}
        /\ Reading(r)' => /\ request'[r].me = me /\ request'[r].user = user
                          /\ request'[r].closure = closure /\ request'[r].listing = listing
                          /\ op \in {"revoke", "others", "close"} => LoggedIn(me)
                          /\ op = "finalise" => closure.status = "grace_period"
        /\ \A q \in Requests \ {r} : request'[q] = request[q]
    BY DEF Sent, Reading, Idle
  <1>4. Orderly'
    <2>1. \A q \in Requests : Opens(q)' =>
              \/ q = r /\ op = "login"
              \/ q # r /\ Opens(q) /\ request'[q] = request[q]
      BY <1>3 DEF Opens, Reading
    <2>2. \A q \in Requests : Opens(q) => request[q] # Idle
      BY DEF Opens, Reading, Idle
    <2>3. \A q \in Requests : Opens(q)' =>
             request'[q].arg \in Sessions /\ session'[request'[q].arg].state = "none"
      BY <1>0, <1>3, <2>1 DEF Orderly
    <2>4. \A p, q \in Requests :
             Opens(p)' /\ Opens(q)' /\ request'[p].arg = request'[q].arg => p = q
      BY <1>0, <1>3, <2>1, <2>2 DEF Orderly
    <2> QED
      BY <1>0, <1>1, <2>3, <2>4 DEF Orderly
  <1>5. Attended'
    <2>1. CASE panel'.busy = panel.busy /\ op \notin PageOps \ {"revoke"}
      BY <1>0, <1>1, <1>3, <2>1 DEF Attended, Reading, Panel
    <2>2. CASE panel'.busy = r /\ panel.busy = NoOne
      <3>1. \A q \in Requests \ {r} :
               request'[q] # Idle => request'[q].op \notin PageOps \ {"revoke"}
        BY <1>0, <1>3, <2>2, SomeRequests DEF Attended
      <3> QED
        BY <1>0, <1>1, <1>3, <2>2, <3>1 DEF Attended, Reading
    <2> QED
      BY <1>1, <2>1, <2>2
  <1>6. Informed'
    <2>1. panel.open /\ ~panel.closing /\ closure.status = "grace_period"
              => session[panel.me].state # "open"
      BY <1>0 DEF Informed
    <2>2. \A q \in Requests : panel'.busy = q /\ request'[q].step = "done" =>
              q # r /\ panel.busy = q /\ request'[q] = request[q]
      BY <1>1, <1>3
    <2>3. Reading(r)' /\ op = "close" => closure.status # "grace_period"
      BY <1>1, <1>3, <2>1 DEF LoggedIn, PageOps
    <2>4. \A q \in Requests : Reading(q)' =>
              /\ request'[q].op = "close" => request'[q].closure.status # "grace_period"
              /\ request'[q].op = "finalise" => request'[q].closure.status = "grace_period"
      <3> SUFFICES ASSUME NEW q \in Requests, Reading(q)'
                   PROVE  /\ request'[q].op = "close"
                                => request'[q].closure.status # "grace_period"
                          /\ request'[q].op = "finalise"
                                => request'[q].closure.status = "grace_period"
        OBVIOUS
      <3>1. CASE q = r
        BY <1>3, <2>3, <3>1
      <3>2. CASE q # r
        BY <1>0, <1>3, <3>2 DEF Informed, Reading
      <3> QED
        BY <3>1, <3>2
    <2> QED
      BY <1>0, <1>1, <2>1, <2>2, <2>4 DEF Informed
  <1>7. ASSUME Calm, Histories PROVE Calm'
    <2>1. \A q \in Requests : Reading(q)' =>
               \/ Reading(q) /\ request'[q] = request[q]
               \/ /\ request'[q].user = user /\ request'[q].closure = closure
                  /\ request'[q].listing = listing
      BY <1>3 DEF Reading
    <2> QED
      BY <1>0, <1>7, <2>1, QuietCalm
  <1> QED
    BY <1>2, <1>4, <1>5, <1>6, <1>7 DEF Base

LEMMA ClickSteps ==
    ASSUME Base, NEW r \in Requests, Click(r)
    PROVE  Base' /\ (Calm /\ Histories => Calm')
  <1>0. TypeOK /\ panel \in Panel
    BY DEF Base, TypeOK
  <1> PICK b \in Buttons : Send(r, b[1], b[2], panel.me)
    BY DEF Click
  <1>1. /\ b[1] \in PageOps /\ b[2] \in Args
        /\ b[1] = "revoke" => b[2] \in panel.shown
        /\ b[1] = "close" => ~panel.closing
    BY <1>0 DEF Buttons, PageOps, Args, Panel
  <1> PICK op, arg, me : op = b[1] /\ arg = b[2] /\ me = panel.me
    OBVIOUS
  <1>2. op \in Ops /\ arg \in Args /\ me \in Sessions \cup {NoOne}
    BY <1>0, <1>1 DEF PageOps, Ops, Panel
  <1>3. Sent(r, op, arg, me)
    BY <1>0, <1>2, Sends
  <1> QED
    BY <1>1, <1>2, <1>3, SendSteps DEF Click, PageOps

LEMMA OtherSends ==
    ASSUME Base, NEW r \in Requests, Toggle(r) \/ Visit(r) \/ Worker(r)
    PROVE  Base' /\ (Calm /\ Histories => Calm')
  <1>0. TypeOK /\ UNCHANGED rows /\ panel' = panel /\ console' = console
    BY DEF Base, Toggle, Visit, Worker
  <1> DEFINE Other(op, arg, me) ==
           /\ Send(r, op, arg, me) /\ op \notin PageOps \ {"revoke"}
           /\ op = "login" => /\ arg \in Sessions /\ session[arg].state = "none"
                              /\ \A q \in Requests : request[q] # Idle => request[q].arg # arg
             SomeSent == \E op \in Ops, arg \in Args, me \in Sessions \cup {NoOne} :
                             Other(op, arg, me)
  <1>1. SomeSent
    <2>1. CASE Toggle(r)
      BY <2>1 DEF Toggle, Ops, Args, PageOps
    <2>2. CASE Worker(r)
      BY <2>2 DEF Worker, Ops, Args, PageOps
    <2>3. CASE Visit(r)
      <3>1. ASSUME NEW s \in Sessions, session[s].state = "none", Send(r, "login", s, NoOne),
                   \A q \in Requests : request[q] # Idle => request[q].arg # s
            PROVE  SomeSent
        BY <3>1 DEF Ops, Args, PageOps
      <3>2. ASSUME NEW s \in Sessions, Send(r, "revoke", s, s)
            PROVE  SomeSent
        BY <3>2 DEF Ops, Args, PageOps
      <3>3. ASSUME NEW op \in {"verify", "reset"}, Send(r, op, NoOne, NoOne)
            PROVE  SomeSent
        BY <3>3 DEF Ops, Args, PageOps
      <3>4. ASSUME NEW l \in Listings, Send(r, "approve", l, NoOne)
            PROVE  SomeSent
        BY <3>4 DEF Ops, Args, PageOps
      <3> QED
        BY <2>3, <3>1, <3>2, <3>3, <3>4 DEF Visit
    <2> QED
      BY <2>1, <2>2, <2>3
  <1> QED
    BY <1>0, <1>1, Sends, SendSteps

(* An answer: the page learns what its call has done.                      *)
Learns(new) ==
    /\ new \in Panel /\ new.busy = NoOne
    /\ \A s \in new.shown : s \in panel.shown \/ s = panel.me
    /\ new.shown # {} => panel.open
    /\ new.open =>
          /\ panel.open /\ new.me = panel.me
          /\ \A s \in panel.shown \ new.shown : session[s].state = "revoked"
          /\ new.closing = panel.closing \/ closure.status # "grace_period"

LEMMA AnswerFacts ==
    ASSUME Base, NEW r \in Requests, panel.busy = r,
           request[r].step \in {"done", "refused"}
    PROVE  Learns(Answered(r))
  <1> PICK q : q = request[r] OBVIOUS
  <1>0. /\ panel \in Panel /\ panel.open /\ panel.me \in Sessions
        /\ panel.shown \subseteq Sessions /\ q.op \in PageOps
        /\ q.step = "done" =>
              /\ q.op = "cancel" => closure.status # "grace_period"
              /\ q.op = "revoke" => session[q.arg].state = "revoked"
              /\ q.op = "others" => \A s \in panel.shown \ {panel.me} : session[s].state = "revoked"
    BY SomeRequests DEF Base, TypeOK, Panel, Orderly, Attended, Informed
  <1>1. CASE q.step = "refused"
    <2>1. Answered(r) = [panel EXCEPT !.busy = NoOne]
      BY <1>1 DEF Answered
    <2> QED
      BY <1>0, <2>1 DEF Learns, Panel
  <1>2. CASE q.step = "done" /\ q.op = "revoke"
    <2> DEFINE shown == panel.shown \ {q.arg}
    <2>1. Answered(r) = [panel EXCEPT !.busy = NoOne, !.shown = shown]
      BY <1>2 DEF Answered
    <2>2. shown \subseteq Sessions /\ shown \subseteq panel.shown
          /\ \A s \in panel.shown \ shown : session[s].state = "revoked"
      BY <1>0, <1>2
    <2> HIDE DEF shown
    <2> QED
      BY <1>0, <2>1, <2>2 DEF Learns, Panel
  <1>3. CASE q.step = "done" /\ q.op = "others"
    <2> DEFINE shown == {panel.me}
    <2>1. Answered(r) = [panel EXCEPT !.busy = NoOne, !.shown = shown]
      BY <1>3 DEF Answered
    <2>2. shown \subseteq Sessions /\ (\A s \in shown : s = panel.me)
          /\ \A s \in panel.shown \ shown : session[s].state = "revoked"
      BY <1>0, <1>3
    <2> HIDE DEF shown
    <2> QED
      BY <1>0, <2>1, <2>2 DEF Learns, Panel
  <1>4. CASE q.step = "done" /\ q.op = "close"
    <2>1. Answered(r) = Closed
      BY <1>4 DEF Answered
    <2> QED
      BY <2>1 DEF Learns, Panel, Closed
  <1>5. CASE q.step = "done" /\ q.op = "cancel"
    <2>1. Answered(r) = [panel EXCEPT !.busy = NoOne, !.closing = FALSE]
      BY <1>5 DEF Answered
    <2>2. closure.status # "grace_period"
      BY <1>0, <1>5
    <2> QED
      BY <1>0, <2>1, <2>2 DEF Learns, Panel
  <1> QED
    BY <1>0, <1>1, <1>2, <1>3, <1>4, <1>5 DEF PageOps

LEMMA AnswerSteps ==
    ASSUME Base, NEW r \in Requests, Answer(r)
    PROVE  /\ Base' /\ (Calm /\ Histories => Calm')
           /\ panel' = panel \/ Learns(panel')
  <1>0. /\ TypeOK /\ Orderly /\ Attended /\ Informed /\ panel \in Panel
        /\ user' = user /\ closure' = closure /\ listing' = listing /\ session' = session
        /\ console' = console /\ request \in [Requests -> Request]
        /\ request' = [request EXCEPT ![r] = Idle] /\ Idle \in Request
        /\ request[r].step \in {"done", "refused"}
        /\ panel' = IF panel.busy = r THEN Answered(r) ELSE panel
    BY DEF Base, TypeOK, rows, Answer, Request
  <1>1. /\ request' \in [Requests -> Request] /\ request'[r] = Idle
        /\ \A q \in Requests \ {r} : request'[q] = request[q]
        /\ ~Reading(r)' /\ ~Reading(r) /\ ~Opens(r)'
    BY <1>0 DEF Reading, Idle, Opens
  <1>2. \A q \in Requests : Reading(q)' => q # r /\ Reading(q) /\ request'[q] = request[q]
    BY <1>1 DEF Reading
  <1>3. \A q \in Requests : Opens(q)' => q # r /\ Opens(q) /\ request'[q] = request[q]
    BY <1>1 DEF Opens, Reading
  <1>4. \A q \in Requests : Reading(q)' =>
              /\ request'[q].op = "close" => request'[q].closure.status # "grace_period"
              /\ request'[q].op = "finalise" => request'[q].closure.status = "grace_period"
    BY <1>0, <1>2 DEF Informed
  <1>5. Calm /\ Histories => Calm'
    BY <1>0, <1>2, QuietCalm
  <1>6. CASE panel.busy # r
    <2>1. panel' = panel
      BY <1>0, <1>6
    <2>2. Orderly'
      BY <1>0, <1>3, <2>1 DEF Orderly
    <2>3. panel.busy # NoOne => panel.busy \in Requests /\ panel.busy # r
      BY <1>0, <1>6 DEF Panel
    <2>4. Attended'
      BY <1>0, <1>1, <2>1, <2>3 DEF Attended, Reading
    <2>5. Informed'
      BY <1>0, <1>1, <1>4, <1>6, <2>1 DEF Informed
    <2>6. TypeOK'
      BY <1>0, <1>1, <2>1 DEF TypeOK
    <2> QED
      BY <1>5, <2>1, <2>2, <2>4, <2>5, <2>6 DEF Base
  <1>7. CASE panel.busy = r
    <2>1. Learns(panel')
      BY <1>0, <1>7, AnswerFacts
    <2>2. Orderly'
      <3>1. panel'.open => panel'.me \in Sessions /\ session[panel'.me].state # "none"
        BY <1>0, <2>1 DEF Learns, Orderly
      <3>2. \A s \in panel'.shown : session[s].state # "none"
        BY <1>0, <2>1 DEF Learns, Orderly
      <3> QED
        BY <1>0, <1>3, <3>1, <3>2 DEF Orderly
    <2>3. Attended'
      BY <1>0, <1>1, <1>7, <2>1 DEF Attended, Learns
    <2>4. Informed'
      <3>1. panel'.open /\ ~panel'.closing /\ closure.status = "grace_period"
                => session[panel'.me].state # "open"
        BY <1>0, <2>1 DEF Learns, Informed
      <3>2. \A q \in Requests : panel'.busy # q
        BY <2>1, SomeRequests DEF Learns
      <3> QED
        BY <1>0, <1>4, <3>1, <3>2 DEF Informed
    <2>5. TypeOK'
      BY <1>0, <1>1, <2>1 DEF TypeOK, Learns
    <2> QED
      BY <1>5, <2>1, <2>2, <2>3, <2>4, <2>5 DEF Base
  <1> QED
    BY <1>6, <1>7

LEMMA LoadSteps ==
    ASSUME Base, NEW s \in Sessions, Load(s)
    PROVE  /\ Base' /\ (Calm /\ Histories => Calm')
           /\ \A x \in panel.shown \ panel'.shown : session[x].state = "revoked"
  <1> DEFINE shown == {x \in Sessions : session[x].state = "open"}
             closing == closure.status = "grace_period"
             new == [open |-> TRUE, me |-> s, busy |-> NoOne, shown |-> shown,
                     closing |-> closing]
  <1>0. /\ TypeOK /\ Orderly /\ Attended /\ Informed /\ panel \in Panel
        /\ user' = user /\ closure' = closure /\ listing' = listing /\ session' = session
        /\ console' = console /\ request' = request /\ panel' = new
        /\ session \in [Sessions -> Session] /\ session[s].state = "open"
        /\ panel.busy = NoOne
    BY DEF Base, TypeOK, rows, Load, LoggedIn
  <1>1. /\ shown \subseteq Sessions /\ closing \in BOOLEAN
        /\ \A x \in shown : session[x].state = "open"
    OBVIOUS
  <1>2. \A x \in panel.shown \ shown : session[x].state = "revoked"
    <2>1. \A x \in panel.shown : x \in Sessions /\ session[x].state \in {"open", "revoked"}
      BY <1>0 DEF Orderly, Panel, Session
    <2> QED
      BY <2>1
  <1> HIDE DEF shown
  <1>3. /\ panel' \in Panel /\ panel'.open /\ panel'.me = s /\ panel'.shown = shown
        /\ panel'.busy = NoOne
    BY <1>0, <1>1 DEF Panel
  <1>4. panel'.closing \/ closure.status # "grace_period"
    BY <1>0
  <1> HIDE DEF new
  <1>5. TypeOK'
    BY <1>0, <1>3 DEF TypeOK
  <1>6. Orderly'
    BY <1>0, <1>1, <1>3 DEF Orderly, Opens, Reading
  <1>7. Attended'
    BY <1>0, <1>3, SomeRequests DEF Attended
  <1>8. Informed'
    BY <1>0, <1>3, <1>4, SomeRequests DEF Informed, Reading
  <1>9. Calm /\ Histories => Calm'
    BY <1>0, QuietCalm DEF Reading
  <1> QED
    BY <1>2, <1>3, <1>5, <1>6, <1>7, <1>8, <1>9 DEF Base

(* The steps without a request: a link, time, the admin's page.            *)
LEMMA QuietSteps ==
    ASSUME Base, \/ MailLink \/ ClosureDue \/ OpenConsole
                 \/ \E s \in Sessions : SessionAges(s)
    PROVE  Base' /\ (Calm /\ Histories => Calm') /\ panel' = panel
  <1>0. /\ TypeOK /\ Orderly /\ Attended /\ Informed
        /\ user \in User /\ closure \in Closure /\ session \in [Sessions -> Session]
        /\ listing' = listing /\ request' = request /\ panel' = panel
    BY DEF Base, TypeOK, rows, MailLink, ClosureDue, OpenConsole, SessionAges
  <1>1. user' \in User /\ user'.status = user.status /\ user'.password = user.password
    BY <1>0 DEF MailLink, ClosureDue, OpenConsole, SessionAges, rows, User
  <1>2. closure' \in Closure /\ closure'.status = closure.status
    BY <1>0 DEF MailLink, ClosureDue, OpenConsole, SessionAges, rows, Closure
  <1>3. /\ session' \in [Sessions -> Session]
        /\ \A s \in Sessions : /\ session'[s].state = session[s].state
                               /\ session'[s].password = session[s].password
    <2>1. CASE session' = session
      BY <1>0, <2>1
    <2>2. ASSUME NEW s \in Sessions, session' = [session EXCEPT ![s].fresh = FALSE]
          PROVE  <1>3
      <3> DEFINE x == [session[s] EXCEPT !.fresh = FALSE]
      <3>1. x \in Session /\ x.state = session[s].state /\ x.password = session[s].password
        BY <1>0 DEF Session
      <3>2. session' = [session EXCEPT ![s] = x]
        BY <1>0, <2>2
      <3> HIDE DEF x
      <3> QED
        BY <1>0, <3>1, <3>2
    <2> QED
      BY <2>1, <2>2 DEF MailLink, ClosureDue, OpenConsole, SessionAges, rows
  <1>4. TypeOK'
    <2>1. console' \in BOOLEAN
      BY DEF MailLink, ClosureDue, OpenConsole, SessionAges, Base, TypeOK
    <2> QED
      BY <1>0, <1>1, <1>2, <1>3, <2>1 DEF TypeOK
  <1>5. Orderly'
    BY <1>0, <1>3 DEF Orderly, Opens, Reading, TypeOK, Panel
  <1>6. Attended'
    BY <1>0 DEF Attended, Reading
  <1>7. Informed'
    <2>1. /\ panel.shown \subseteq Sessions /\ (panel.open => panel.me \in Sessions)
          /\ \A r \in Requests : panel.busy = r /\ request[r].op = "revoke"
                                   => request[r].arg \in Sessions
      BY <1>0, SomeRequests DEF TypeOK, Panel, Orderly, Attended
    <2>2. panel.open /\ ~panel.closing /\ closure'.status = "grace_period"
             => session'[panel.me].state # "open"
      BY <1>0, <1>2, <1>3, <2>1 DEF Informed
    <2>3. \A r \in Requests : panel.busy = r /\ request[r].step = "done" =>
             /\ request[r].op = "cancel" => closure'.status # "grace_period"
             /\ request[r].op = "revoke" => session'[request[r].arg].state = "revoked"
             /\ request[r].op = "others" =>
                   \A s \in panel.shown \ {panel.me} : session'[s].state = "revoked"
      BY <1>0, <1>2, <1>3, <2>1 DEF Informed
    <2> QED
      BY <1>0, <2>2, <2>3 DEF Informed, Reading
  <1>8. Calm /\ Histories => Calm'
    BY <1>0, <1>1, <1>2, <1>3, QuietCalm DEF Reading
  <1> QED
    BY <1>0, <1>4, <1>5, <1>6, <1>7, <1>8 DEF Base

-----------------------------------------------------------------------------
LEMMA InitBase == MCInit => Base /\ Calm
  <1> SUFFICES ASSUME MCInit PROVE Base /\ Calm
    OBVIOUS
  <1>1. user \in User /\ listing \in [Listings -> ListingStatuses]
    <2> PICK new \in BOOLEAN :
         /\ user = [status |-> IF new THEN "pending_verification" ELSE "active",
                    verified |-> ~new, mailed |-> new, password |-> 0]
         /\ listing \in [Listings -> IF new THEN {"draft"} ELSE {"active", "pending_review"}]
      BY DEF MCInit, Init
    <2>1. (IF new THEN "pending_verification" ELSE "active") \in UserStatuses
      BY DEF UserStatuses
    <2>2. (IF new THEN {"draft"} ELSE {"active", "pending_review"}) \subseteq ListingStatuses
      BY DEF ListingStatuses
    <2> QED
      BY <2>1, <2>2 DEF User
  <1>2. closure \in Closure /\ closure.status = "none"
    BY DEF MCInit, Init, Closure
  <1>3. session \in [Sessions -> Session] /\ \A s \in Sessions : session[s].state = "none"
    BY DEF MCInit, Init, Session
  <1>4. /\ request \in [Requests -> Request]
        /\ \A r \in Requests : request[r] = Idle /\ ~Reading(r) /\ ~Opens(r)
    BY DEF MCInit, Init, Request, Idle, Reading, Opens
  <1>5. /\ panel \in Panel /\ ~panel.open /\ panel.shown = {} /\ panel.busy = NoOne
        /\ console \in BOOLEAN
    BY DEF MCInit, Init, Panel, Closed
  <1> QED
    BY <1>1, <1>2, <1>3, <1>4, <1>5, SomeRequests
       DEF Base, TypeOK, Orderly, Attended, Informed, Calm, Fresh, Valid, Hidden

(* What a step does to the properties about steps.                         *)
Vanishes == \A s \in panel.shown \ panel'.shown :
                panel'.open => session[s].state = "revoked"

HistoriesKept == /\ raced' = (raced \/ Racing)
                 /\ lifted' = (closure'.status = "grace_period" /\ (lifted \/ Lifting))

LEMMA NextSteps ==
    ASSUME Base, Next
    PROVE  /\ Base' /\ Vanishes
           /\ Calm /\ HistoriesKept => Calm'
  <1>1. HistoriesKept => Histories
    BY DEF HistoriesKept, Histories
  <1>2. ASSUME NEW r \in Requests, Handle(r)
        PROVE  /\ Base' /\ Vanishes /\ (Calm /\ HistoriesKept => Calm')
    <2>1. Effect(r) /\ panel' = panel
      BY <1>2, Effects, CommitFacts DEF Base
    <2> QED
      BY <1>2, <2>1, CommitOrderly, CommitAttended, CommitInformed, CommitCalm
         DEF Base, HistoriesKept, Vanishes
  <1>3. ASSUME NEW r \in Requests, Answer(r)
        PROVE  /\ Base' /\ Vanishes /\ (Calm /\ HistoriesKept => Calm')
    BY <1>1, <1>3, AnswerSteps DEF Learns, Vanishes
  <1>4. ASSUME NEW r \in Requests, Click(r)
        PROVE  /\ Base' /\ Vanishes /\ (Calm /\ HistoriesKept => Calm')
    <2>1. panel'.shown = panel.shown
      BY <1>4 DEF Click, Base, TypeOK, Panel
    <2> QED
      BY <1>1, <1>4, <2>1, ClickSteps DEF Vanishes
  <1>5. ASSUME NEW r \in Requests, Toggle(r) \/ Visit(r) \/ Worker(r)
        PROVE  /\ Base' /\ Vanishes /\ (Calm /\ HistoriesKept => Calm')
    <2>1. panel' = panel
      BY <1>5 DEF Toggle, Visit, Worker
    <2> QED
      BY <1>1, <1>5, <2>1, OtherSends DEF Vanishes
  <1>6. ASSUME NEW s \in Sessions, Load(s)
        PROVE  /\ Base' /\ Vanishes /\ (Calm /\ HistoriesKept => Calm')
    BY <1>1, <1>6, LoadSteps DEF Vanishes
  <1>7. ASSUME \/ MailLink \/ ClosureDue \/ OpenConsole
               \/ \E s \in Sessions : SessionAges(s)
        PROVE  /\ Base' /\ Vanishes /\ (Calm /\ HistoriesKept => Calm')
    BY <1>1, <1>7, QuietSteps DEF Vanishes
  <1> QED
    BY <1>2, <1>3, <1>4, <1>5, <1>6, <1>7 DEF Next

MCVars == <<vars, raced, lifted>>

LEMMA Stutters == Base /\ UNCHANGED MCVars => Base' /\ (Calm => Calm')
  BY DEF MCVars, vars, Base, TypeOK, Orderly, Attended, Informed, Calm, Fresh, Valid, Hidden,
         Opens, Reading

LEMMA Invariants == MCSpec => [](Base /\ Calm)
  <1>1. Base /\ Calm /\ [MCNext]_MCVars => (Base /\ Calm)'
    <2>1. Base /\ Calm /\ MCNext => (Base /\ Calm)'
      BY NextSteps DEF MCNext, HistoriesKept
    <2> QED
      BY <2>1, Stutters
  <1> QED
    BY InitBase, <1>1, PTL DEF MCSpec, MCVars

(* The rows, the requests and the pages hold values the code can give.     *)
THEOREM TypeCorrect == MCSpec => []TypeOK
  <1>1. Base /\ Calm => TypeOK
    BY DEF Base
  <1> QED
    BY <1>1, Invariants, PTL

(* Until two requests race, every open session was opened with the         *)
(* account's current password: a reset ends the sessions of the old one    *)
(* (auth_service.py:143-155), whatever else has happened to the account.   *)
THEOREM OldPasswordsOut == MCSpec => []PasswordsUnlessRaced
  <1>1. Base /\ Calm => PasswordsUnlessRaced
    BY DEF Calm, Valid, PasswordsUnlessRaced
  <1> QED
    BY <1>1, Invariants, PTL

(* A device leaves the list of the account page only when its session is   *)
(* revoked, also after races (AccountSecurityPanel.tsx:47-79,              *)
(* account_service.py:126-193).                                            *)
THEOREM VanishedIsOut == MCSpec => VanishedIsRevoked
  <1>1. Base /\ Calm /\ [MCNext]_MCVars =>
            [\A s \in panel.shown \ panel'.shown :
                panel'.open => session[s].state = "revoked"]_MCVars
    BY NextSteps DEF MCNext, Vanishes
  <1> QED
    BY <1>1, Invariants, PTL DEF MCSpec, MCVars, VanishedIsRevoked

-----------------------------------------------------------------------------
(* Only the commit of a request ends it or changes the account's status.   *)
Untouched == /\ user'.status = user.status
             /\ \A r \in Requests : Reading(r) => request'[r] = request[r]

LEMMA OnlyCommits ==
    ASSUME TypeOK, Next
    PROVE  Untouched \/ \E r \in Requests : Handle(r)
  <1>0. request \in [Requests -> Request] /\ user \in User /\ ~(Idle.step = "read")
    BY DEF TypeOK, Idle
  <1>1. ASSUME NEW r \in Requests, NEW op, NEW arg, NEW me, Send(r, op, arg, me)
        PROVE  \A q \in Requests : Reading(q) => request'[q] = request[q]
    <2> PICK x : request' = [request EXCEPT ![r] = x]
      BY <1>1 DEF Send
    <2>1. ~Reading(r)
      BY <1>0, <1>1 DEF Send, Reading
    <2> QED
      BY <1>0, <2>1
  <1>2. ASSUME NEW r \in Requests, Answer(r) PROVE Untouched
    <2>1. ~Reading(r) /\ user' = user /\ request' = [request EXCEPT ![r] = Idle]
      BY <1>2 DEF Answer, Reading, rows
    <2> QED
      BY <1>0, <2>1 DEF Untouched
  <1>3. ASSUME NEW r \in Requests, Click(r) PROVE Untouched
    BY <1>1, <1>3 DEF Click, Untouched, rows
  <1>4. ASSUME NEW r \in Requests, Toggle(r) PROVE Untouched
    BY <1>1, <1>4 DEF Toggle, Untouched, rows
  <1>5. ASSUME NEW r \in Requests, Visit(r) PROVE Untouched
    BY <1>1, <1>5 DEF Visit, Untouched, rows
  <1>6. ASSUME NEW r \in Requests, Worker(r) PROVE Untouched
    BY <1>1, <1>6 DEF Worker, Untouched, rows
  <1>7. ASSUME \/ MailLink \/ ClosureDue \/ OpenConsole
               \/ \E s \in Sessions : SessionAges(s) \/ Load(s)
        PROVE  Untouched
    BY <1>0, <1>7 DEF MailLink, ClosureDue, OpenConsole, SessionAges, Load, Untouched, rows, User
  <1> QED
    BY <1>2, <1>3, <1>4, <1>5, <1>6, <1>7 DEF Next

(* What the properties about steps say of one.                             *)
Erases == user'.status = "deleted" /\ user.status # "deleted"
             => raced' \/ lifted \/ user.status \in {"pending_deletion", "suspended"}

Closes(r) == Commits(r, "close") =>
                \/ raced' \/ lifted
                \/ /\ user'.status = "pending_deletion"
                   /\ \A l \in Listings : listing'[l] \notin Public
                   /\ \A s \in Sessions : session'[s].state # "open"

LEMMA Erasing ==
    ASSUME Base, Calm, Next, HistoriesKept
    PROVE  Erases
  <1> SUFFICES ASSUME user'.status = "deleted", user.status # "deleted", ~raced', ~lifted
               PROVE  user.status \in {"pending_deletion", "suspended"}
    BY DEF Erases
  <1>0. TypeOK /\ Informed /\ Fresh /\ Hidden
    BY DEF Base, Calm, HistoriesKept
  <1>1. PICK r \in Requests : Handle(r)
    BY <1>0, OnlyCommits DEF Untouched
  <1>2. Effect(r) /\ Reading(r)
    BY <1>0, <1>1, Effects, CommitFacts
  <1>3. request[r].op = "finalise"
    BY <1>2 DEF Effect
  <1>4. closure.status = "grace_period"
    BY <1>0, <1>2, <1>3 DEF Informed, Fresh
  <1> QED
    BY <1>0, <1>4 DEF Hidden

LEMMA Closing ==
    ASSUME Base, Calm, Next, HistoriesKept, NEW r \in Requests
    PROVE  Closes(r)
  <1> SUFFICES ASSUME Commits(r, "close"), ~raced', ~lifted
               PROVE  /\ user'.status = "pending_deletion"
                      /\ \A l \in Listings : listing'[l] \notin Public
                      /\ \A s \in Sessions : session'[s].state # "open"
    BY DEF Closes
  <1>0. TypeOK /\ Informed /\ Fresh
    BY DEF Base, Calm, HistoriesKept
  <1>1. Reading(r) /\ ~Reading(r)' /\ request[r].op = "close"
    BY <1>0, Commitment DEF Committed, Reading, Ops, Idle
  <1>2. PICK q \in Requests : Handle(q)
    BY <1>0, <1>1, OnlyCommits DEF Untouched, Reading
  <1>3. Effect(q)
    BY <1>0, <1>2, Effects
  <1>4. q = r
    BY <1>0, <1>1, <1>3, CommitFacts DEF Reading
  <1>5. /\ request[r].closure.status # "grace_period"
        /\ request[r].user.status = user.status /\ request[r].listing = listing
    BY <1>0, <1>1 DEF Informed, Fresh
  <1> QED
    BY <1>1, <1>3, <1>4, <1>5 DEF Effect

(* While no request has raced another and nobody has reactivated the       *)
(* account during its grace period, the worker erases only an account that *)
(* is hidden (account_service.py:847-937).                                 *)
THEOREM OnlyHiddenErased == MCSpec => ErasedUnlessLifted
  <1>1. Base /\ Calm /\ [MCNext]_MCVars =>
            [user'.status = "deleted" /\ user.status # "deleted"
                => raced' \/ lifted \/ user.status \in {"pending_deletion", "suspended"}]_MCVars
    BY Erasing DEF MCNext, HistoriesKept, Erases
  <1> QED
    BY <1>1, Invariants, PTL DEF MCSpec, MCVars, ErasedUnlessLifted

(* Under the same conditions the commit of a closure request leaves the    *)
(* account hidden, no listing public and no session open                   *)
(* (account_service.py:263-364).                                           *)
THEOREM ClosureHides == MCSpec => ClosedUnlessLifted
  <1>1. Base /\ Calm /\ [MCNext]_MCVars =>
            [\A r \in Requests : Commits(r, "close") =>
                \/ raced' \/ lifted
                \/ /\ user'.status = "pending_deletion"
                   /\ \A l \in Listings : listing'[l] \notin Public
                   /\ \A s \in Sessions : session'[s].state # "open"]_MCVars
    BY Closing DEF MCNext, HistoriesKept, Closes
  <1> QED
    BY <1>1, Invariants, PTL DEF MCSpec, MCVars, ClosedUnlessLifted
=============================================================================
