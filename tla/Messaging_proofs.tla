-------------------------- MODULE Messaging_proofs --------------------------
(***************************************************************************)
(* For any number of messages and of overlapping sessions, a badge at 0    *)
(* hides no message, and no counter exceeds the messages there are.  And   *)
(* what its requests owe to each other's absence: a block that no send     *)
(* overlaps silences the pair, a message reopens a notification nobody     *)
(* dismissed meanwhile, and requests served one at a time count exactly.   *)
(***************************************************************************)
EXTENDS MCMessaging, FiniteSetTheorems, TLAPS

(* A session between its checks and its commit, and one that has inserted  *)
(* its message.                                                            *)
Sends(q) == q.at \in {"checked", "written", "holding"}
Owns(q)  == q.at \in {"written", "holding"}

(* What a session loaded never exceeds what is stored, since messages are  *)
(* only added; and its own message is not among them yet.                  *)
Fits(q) ==
    /\ Sends(q) => q.unread <= Cardinality(sent[Other(q.side)])
    /\ Owns(q)  => /\ q.loaded.count <= Cardinality(sent[Other(q.side)])
                   /\ q.msg \in Messages \ Kept

RowsFit ==
    \A s \in Sides : /\ unread[s] <= Cardinality(sent[s])
                     /\ notification[s].count <= Cardinality(sent[s])

SessionsFit == \A r \in Requests : Fits(request[r])

MessagesAreOwned ==
    \A r, q \in Requests : r # q /\ Owns(request[r]) /\ Owns(request[q])
                               => request[r].msg # request[q].msg

IInv == TypeOK /\ RowsFit /\ SessionsFit /\ MessagesAreOwned /\ NoneHidden

-----------------------------------------------------------------------------
(* The two sides are each other's other.                                   *)
LEMMA OtherSide ==
    \A s \in Sides : Other(s) \in Sides /\ Other(s) # s /\ Other(Other(s)) = s
  BY DEF Other, Sides

(* Sets of messages are counted by numbers up to that of all messages, and *)
(* one more message counts for one.                                        *)
LEMMA Sizes ==
    ASSUME NEW S \in SUBSET Messages
    PROVE  /\ Cardinality(S) \in Nat /\ Cardinality(Messages) \in Nat
           /\ Cardinality(S) <= Cardinality(Messages)
           /\ \A m \in Messages \ S : Cardinality(S \cup {m}) = Cardinality(S) + 1
  <1>1. IsFiniteSet(Messages) /\ IsFiniteSet(S)
    BY MessagingAssumption, FS_Subset
  <1>2. Cardinality(S) \in Nat /\ Cardinality(Messages) \in Nat
    BY <1>1, FS_CardinalityType
  <1>3. Cardinality(S) <= Cardinality(Messages)
    BY <1>1, FS_Subset
  <1>4. ASSUME NEW m \in Messages \ S
        PROVE  Cardinality(S \cup {m}) = Cardinality(S) + 1
    BY <1>1, FS_AddElement
  <1> QED
    BY <1>2, <1>3, <1>4

(* A step that changes only one session, to one that fits and is not about *)
(* to answer, keeps the invariant.                                         *)
LEMMA OneSession ==
    ASSUME IInv, NEW r \in Requests, NEW q \in Request,
           ~At(r, "fetching"), Fits(q),
           Owns(q) => \A p \in Requests \ {r} :
                          Owns(request[p]) => request[p].msg # q.msg,
           request' = [request EXCEPT ![r] = q],
           UNCHANGED <<listing, Seen, Rows>>
    PROVE  IInv'
  <1> USE DEF IInv, Rows, Seen
  <1>1. TypeOK'
    BY DEF TypeOK
  <1>2. RowsFit'
    BY DEF RowsFit
  <1>3. SessionsFit'
    BY DEF SessionsFit, Fits, Sends, Owns, Kept, TypeOK
  <1>4. MessagesAreOwned'
    BY DEF MessagesAreOwned, Owns, TypeOK
  <1>5. NoneHidden'
    BY DEF NoneHidden, At, TypeOK
  <1> QED
    BY <1>1, <1>2, <1>3, <1>4, <1>5

(* The table changes, but neither messages nor counters, and sessions keep *)
(* everything but their plans.                                             *)
LEMMA Controls ==
    ASSUME IInv, NEW s \in Sides,
           Block(s) \/ Unblock(s) \/ (\E on \in BOOLEAN : SetMuted(s, on))
               \/ Dismiss(s) \/ Retire(s) \/ ListingChanges
    PROVE  IInv'
  <1> USE DEF IInv
  <1>1. ASSUME NEW S \in SUBSET Sides, Delete(S), UNCHANGED <<unread, sent, Seen>>
        PROVE  /\ notification' \in [Sides -> Notification]
               /\ request' \in [Requests -> Request]
               /\ RowsFit' /\ SessionsFit' /\ MessagesAreOwned' /\ NoneHidden'
    <2>1. notification' \in [Sides -> Notification]
      BY <1>1, Sizes DEF Delete, TypeOK, Notification, Absent, Counts
    <2>2. request' \in [Requests -> Request]
      BY <1>1, SMTT(30) DEF Delete, TypeOK, Request, Plans
    <2>3. \A p \in Requests : /\ request'[p].at = request[p].at
                              /\ request'[p].side = request[p].side
                              /\ request'[p].unread = request[p].unread
                              /\ request'[p].msg = request[p].msg
                              /\ request'[p].loaded = request[p].loaded
      BY <1>1 DEF Delete, TypeOK, Request
    <2>4. RowsFit'
      BY <1>1, Sizes DEF RowsFit, Delete, TypeOK, Absent
    <2>5. SessionsFit'
      BY <1>1, <2>3 DEF SessionsFit, Fits, Sends, Owns, Kept
    <2>6. MessagesAreOwned'
      BY <2>3 DEF MessagesAreOwned, Owns
    <2>7. NoneHidden'
      BY <1>1, <2>3 DEF NoneHidden, At, Seen
    <2> QED
      BY <2>1, <2>2, <2>4, <2>5, <2>6, <2>7
  <1>2. CASE Block(s)
    BY <1>2, <1>1 DEF Block, TypeOK, Seen
  <1>3. CASE Retire(s)
    BY <1>3, <1>1 DEF Retire, TypeOK, Seen
  <1>4. CASE Unblock(s) \/ (\E on \in BOOLEAN : SetMuted(s, on)) \/ ListingChanges
    BY <1>4 DEF Unblock, SetMuted, ListingChanges, TypeOK, RowsFit, SessionsFit,
                Fits, Sends, Owns, Kept, MessagesAreOwned, NoneHidden, At, Rows, Seen
  <1>5. CASE Dismiss(s)
    <2>1. TypeOK'
      BY <1>5 DEF Dismiss, TypeOK, Notification, Seen
    <2>2. RowsFit'
      BY <1>5 DEF Dismiss, RowsFit, TypeOK, Notification
    <2> QED
      BY <1>5, <2>1, <2>2 DEF Dismiss, SessionsFit, Fits, Sends, Owns, Kept,
                              MessagesAreOwned, NoneHidden, At, Seen
  <1> QED
    BY <1>2, <1>3, <1>4, <1>5

-----------------------------------------------------------------------------
(* The steps of a send before its commit: each changes its session only.   *)
LEMMA SendSteps ==
    ASSUME IInv, NEW r \in Requests,
           SendForListing(r) \/ (\E s \in Sides : Reply(r, s)) \/ Write(r)
               \/ TakeRow(r) \/ CommitFails(r)
    PROVE  IInv'
  <1> USE OtherSide DEF IInv
  <1>0. /\ TypeOK /\ request[r] \in Request /\ Idle \in Request
        /\ ~Sends(Idle) /\ ~Owns(Idle)
    BY Sizes DEF TypeOK, Idle, Request, Sides, Counts, Plans, Notification,
                 Absent, Sends, Owns, None
  <1>1. ASSUME NEW s \in Sides, Begin(r, s)
        PROVE  IInv'
    <2> DEFINE q == [Idle EXCEPT !.at = "checked", !.side = s,
                                 !.first = ~conversation,
                                 !.unread = unread[Other(s)]]
    <2>1. q \in Request
      BY <1>0 DEF TypeOK, Request, Idle
    <2>2. Fits(q) /\ ~Owns(q)
      BY <1>0 DEF Fits, Sends, Owns, RowsFit, Idle
    <2> QED
      BY <1>1, <2>1, <2>2, OneSession DEF Begin, At
  <1>2. ASSUME request' = [request EXCEPT ![r] = Idle], ~At(r, "fetching"),
               UNCHANGED <<listing, Seen, Rows>>
        PROVE  IInv'
    BY <1>0, <1>2, OneSession DEF Fits
  <1>3. CASE SendForListing(r) \/ \E s \in Sides : Reply(r, s)
    BY <1>3, <1>1 DEF SendForListing, Reply, Sides
  <1>4. CASE Write(r)
    <2>1. CASE request[r].first /\ conversation
      BY <1>4, <2>1, <1>2 DEF Write, Ends, At
    <2>2. CASE ~(request[r].first /\ conversation)
      <3>1. PICK m \in Unused :
                request' = [request EXCEPT ![r] =
                    [request[r] EXCEPT !.at = "written", !.msg = m,
                                       !.plan = PlanFor(Sender(r)),
                                       !.loaded = notification[Other(Sender(r))]]]
        BY <1>4, <2>2, <1>0 DEF Write, TypeOK
      <3> DEFINE q == [request[r] EXCEPT !.at = "written", !.msg = m,
                                         !.plan = PlanFor(Sender(r)),
                                         !.loaded = notification[Other(Sender(r))]]
      <3>2. PlanFor(Sender(r)) \in Plans
        BY DEF PlanFor, Plans
      <3>3. Sender(r) \in Sides /\ Other(Sender(r)) \in Sides
        BY <1>0 DEF Sender, Request
      <3>4. q \in Request
        BY <1>0, <3>2, <3>3 DEF TypeOK, Request, Unused
      <3>5. q.at = "written" /\ q.side = Sender(r) /\ q.unread = request[r].unread
            /\ q.msg = m /\ q.loaded = notification[Other(Sender(r))]
        BY <1>0 DEF Request, Sender
      <3>6. request[r].unread <= Cardinality(sent[Other(Sender(r))])
        BY <1>4 DEF SessionsFit, Fits, Sends, Write, At, Sender
      <3>7. notification[Other(Sender(r))].count <= Cardinality(sent[Other(Sender(r))])
        BY <3>3 DEF RowsFit
      <3>8. m \in Messages \ Kept /\ \A p \in Requests : request[p].msg # m
        BY DEF Unused
      <3>9. Fits(q)
        BY <3>5, <3>6, <3>7, <3>8 DEF Fits
      <3>10. \A p \in Requests \ {r} : Owns(request[p]) => request[p].msg # q.msg
        BY <3>5, <3>8
      <3> QED
        BY <1>4, <3>1, <3>4, <3>9, <3>10, OneSession DEF Write, At
    <2> QED
      BY <2>1, <2>2
  <1>5. CASE TakeRow(r)
    <2> DEFINE row == notification[Recipient(r)]
               p == [request[r] EXCEPT !.at = "holding", !.plan = "merge",
                                       !.loaded = row]
               h == [request[r] EXCEPT !.at = "holding"]
               q == IF request[r].plan = "insert" /\ row.count > 0 THEN p ELSE h
    <2>1. request' = [request EXCEPT ![r] = q]
      BY <1>5, <1>0 DEF TakeRow, TypeOK
    <2>2. Recipient(r) = Other(request[r].side) /\ Recipient(r) \in Sides
      BY <1>0 DEF Recipient, Request
    <2>3. row \in Notification /\ row.count <= Cardinality(sent[Recipient(r)])
      BY <2>2, <1>0 DEF TypeOK, RowsFit
    <2>4. q \in Request
      BY <1>0, <2>3 DEF Request, Plans
    <2>5. /\ q.at = "holding" /\ q.side = request[r].side
          /\ q.unread = request[r].unread /\ q.msg = request[r].msg
          /\ q.loaded \in {row, request[r].loaded}
      BY <1>0 DEF Request
    <2>6. Fits(request[r]) /\ Owns(request[r]) /\ Sends(request[r])
      BY <1>5 DEF TakeRow, SessionsFit, Owns, Sends, At
    <2>7. Fits(q)
      BY <2>2, <2>3, <2>5, <2>6 DEF Fits
    <2>8. \A t \in Requests \ {r} : Owns(request[t]) => request[t].msg # q.msg
      BY <2>5, <2>6 DEF MessagesAreOwned
    <2> HIDE DEF q
    <2> QED
      BY <1>5, <2>1, <2>4, <2>7, <2>8, OneSession DEF TakeRow, At
  <1>6. CASE CommitFails(r)
    BY <1>6, <1>2 DEF CommitFails, Ends, At
  <1> QED
    BY <1>3, <1>4, <1>5, <1>6

(* The commit of a send: one message more, a counter above 0 that does not *)
(* exceed the messages of its side.                                        *)
LEMMA CommitStep ==
    ASSUME IInv, NEW r \in Requests, Commit(r)
    PROVE  IInv'
  <1> USE OtherSide DEF IInv
  <1> DEFINE q == request[r]
             t == Recipient(r)
  <1>1. /\ TypeOK /\ q \in Request /\ Idle \in Request
        /\ ~Sends(Idle) /\ ~Owns(Idle) /\ Idle.at # "fetching"
        /\ t \in Sides /\ t = Other(q.side)
    BY Sizes DEF TypeOK, Idle, Request, Sides, Counts, Plans, Notification,
                 Absent, Sends, Owns, None, Recipient
  <1>2. /\ q.unread <= Cardinality(sent[t]) /\ q.unread \in Nat
        /\ q.loaded.count <= Cardinality(sent[t]) /\ q.loaded.count \in Nat
        /\ q.loaded.read \in BOOLEAN
        /\ q.msg \in Messages \ Kept /\ Owns(q)
    BY <1>1, Sizes DEF Commit, At, SessionsFit, Fits, Sends, Owns, Request,
                       Notification, Counts
  <1>3. q.msg \in Messages \ sent[t]
    BY <1>1, <1>2 DEF Kept, Sides
  <1>4. \A s \in Sides : sent[s] \in SUBSET Messages /\ sent'[s] \in SUBSET Messages
    BY <1>1, <1>3 DEF Commit, TypeOK
  <1>5. /\ sent'[t] = sent[t] \cup {q.msg}
        /\ \A s \in Sides \ {t} : sent'[s] = sent[s]
    BY <1>1 DEF Commit, TypeOK
  <1>6. /\ Cardinality(sent'[t]) = Cardinality(sent[t]) + 1
        /\ \A s \in Sides : Cardinality(sent[s]) <= Cardinality(sent'[s])
        /\ \A s \in Sides : /\ Cardinality(sent[s]) \in Nat
                            /\ Cardinality(sent'[s]) \in Nat
                            /\ Cardinality(sent'[s]) <= Cardinality(Messages)
    <2>1. \A s \in Sides : /\ Cardinality(sent[s]) \in Nat
                           /\ Cardinality(sent'[s]) \in Nat
                           /\ Cardinality(sent'[s]) <= Cardinality(Messages)
      BY <1>4, Sizes
    <2>2. Cardinality(sent'[t]) = Cardinality(sent[t]) + 1
      BY <1>1, <1>3, <1>4, <1>5, Sizes
    <2>3. ASSUME NEW s \in Sides
          PROVE  Cardinality(sent[s]) <= Cardinality(sent'[s])
      <3>1. CASE s = t
        BY <3>1, <2>1, <2>2
      <3>2. CASE s # t
        BY <3>2, <2>1, <1>5
      <3> QED
        BY <3>1, <3>2
    <2> QED
      BY <2>1, <2>2, <2>3
  <1>7. /\ Announced(r) \in [count : Nat, read : BOOLEAN]
        /\ Announced(r).count <= Cardinality(sent'[t])
    <2>1. /\ notification[t] \in Notification
          /\ notification[t].count <= Cardinality(sent[t])
      BY <1>1 DEF TypeOK, RowsFit
    <2>2. notification[t] \in [count : Nat, read : BOOLEAN]
      BY <2>1, Sizes DEF Notification, Counts
    <2>3. CASE q.plan = "merge"
      <3>1. Announced(r) = [count |-> q.loaded.count + 1,
                            read  |-> IF q.loaded.read THEN FALSE
                                                       ELSE notification[t].read]
        BY <2>3 DEF Announced, Merged
      <3>2. notification[t].read \in BOOLEAN
        BY <2>2
      <3>3. /\ q.loaded.count + 1 \in Nat
            /\ q.loaded.count + 1 <= Cardinality(sent'[t])
        BY <1>1, <1>2, <1>6
      <3> DEFINE read  == IF q.loaded.read THEN FALSE ELSE notification[t].read
                 count == q.loaded.count + 1
      <3>4. read \in BOOLEAN
        BY <3>2
      <3>5. /\ Announced(r) = [count |-> count, read |-> read]
            /\ count \in Nat /\ count <= Cardinality(sent'[t])
        BY <3>1, <3>3
      <3> HIDE DEF read, count
      <3> QED
        BY <3>4, <3>5
    <2>4. CASE q.plan = "insert"
      BY <1>6, <1>1, <2>4 DEF Announced
    <2>5. CASE q.plan \notin {"merge", "insert"}
      BY <1>6, <1>1, <2>1, <2>2, <2>5 DEF Announced
    <2> QED
      BY <2>3, <2>4, <2>5
  <1>8. Announced(r) \in Notification
    BY <1>7, <1>6, <1>1, Sizes DEF Notification, Counts
  <1>9. /\ unread' = [unread EXCEPT ![t] = q.unread + 1]
        /\ q.unread + 1 \in Counts /\ q.unread + 1 <= Cardinality(sent'[t])
    <2>1. unread' = [unread EXCEPT ![t] = q.unread + 1]
      BY DEF Commit, Raised
    <2>2. q.unread + 1 \in Nat /\ q.unread + 1 <= Cardinality(sent'[t])
      BY <1>1, <1>2, <1>6
    <2>3. /\ Cardinality(sent'[t]) <= Cardinality(Messages)
          /\ Cardinality(sent'[t]) \in Nat
      BY <1>1, <1>6
    <2>4. q.unread + 1 \in Counts
      BY <2>2, <2>3, Sizes DEF Counts
    <2> QED
      BY <2>1, <2>2, <2>4
  <1>10. TypeOK'
    BY <1>1, <1>4, <1>8, <1>9 DEF Commit, Ends, TypeOK, Seen
  <1>11. RowsFit'
    <2> SUFFICES ASSUME NEW s \in Sides
                 PROVE  /\ unread'[s] <= Cardinality(sent'[s])
                        /\ notification'[s].count <= Cardinality(sent'[s])
      BY DEF RowsFit
    <2>1. CASE s = t
      BY <1>1, <1>7, <1>9, <2>1 DEF Commit, TypeOK
    <2>2. CASE s # t
      BY <1>1, <1>5, <1>9, <2>2 DEF Commit, TypeOK, RowsFit
    <2> QED
      BY <2>1, <2>2
  <1>12. SessionsFit'
    <2> SUFFICES ASSUME NEW p \in Requests
                 PROVE  Fits(request[p])'
      BY DEF SessionsFit
    <2>1. CASE p = r
      BY <1>1, <2>1 DEF Commit, Ends, TypeOK, Fits
    <2>2. CASE p # r
      <3>1. request'[p] = request[p] /\ request[p] \in Request
        BY <1>1, <2>2 DEF Commit, Ends, TypeOK
      <3>2. Other(request[p].side) \in Sides
        BY <3>1 DEF Request
      <3>3. /\ request[p].unread \in Nat /\ request[p].loaded.count \in Nat
        BY <3>1, Sizes DEF Request, Notification, Counts
      <3>4. Fits(request[p])
        BY DEF SessionsFit
      <3>5. Sends(request[p]) => request[p].unread <= Cardinality(sent'[Other(request[p].side)])
        BY <3>2, <3>3, <3>4, <1>6 DEF Fits
      <3>6. Owns(request[p]) =>
                request[p].loaded.count <= Cardinality(sent'[Other(request[p].side)])
        BY <3>2, <3>3, <3>4, <1>6 DEF Fits
      <3>7. Kept' = Kept \cup {q.msg}
        BY <1>1, <1>5 DEF Kept, Sides
      <3>8. Owns(request[p]) => request[p].msg \in Messages \ Kept'
        BY <3>4, <3>7, <1>2, <2>2 DEF Fits, MessagesAreOwned
      <3> QED
        BY <3>1, <3>5, <3>6, <3>8 DEF Fits, Sends, Owns
    <2> QED
      BY <2>1, <2>2
  <1>13. MessagesAreOwned'
    BY <1>1 DEF Commit, Ends, TypeOK, MessagesAreOwned
  <1>14. NoneHidden'
    <2> SUFFICES ASSUME NEW s \in Sides, unread'[s] = 0,
                        \A p \in Requests : ~(At(p, "fetching") /\ request[p].side = s)'
                 PROVE  sent'[s] \subseteq shown' \cup missed'
      BY DEF NoneHidden
    <2>1. s # t
      BY <1>1, <1>2, <1>9 DEF TypeOK
    <2>2. sent'[s] = sent[s] /\ unread[s] = 0
      BY <2>1, <1>5, <1>9 DEF TypeOK
    <2>3. \A p \in Requests : ~(At(p, "fetching") /\ request[p].side = s)
      BY <1>1 DEF Commit, Ends, At, TypeOK
    <2> QED
      BY <2>2, <2>3 DEF NoneHidden, Commit, Seen
  <1> QED
    BY <1>10, <1>11, <1>12, <1>13, <1>14

(* A reader: until its commit only its session changes; the commit clears  *)
(* the counter, and the answer comes to what was counted.                  *)
LEMMA ReadSteps ==
    ASSUME IInv, NEW r \in Requests, Look(r) \/ Abandon(r)
    PROVE  IInv'
  <1> USE DEF IInv
  <1> DEFINE q == request[r]
             s == request[r].side
  <1>1. /\ TypeOK /\ q \in Request /\ Idle \in Request
        /\ ~Sends(Idle) /\ ~Owns(Idle) /\ Idle.at # "fetching"
        /\ s \in Sides /\ sent[s] \in SUBSET Messages
    BY Sizes DEF TypeOK, Idle, Request, Sides, Counts, Plans, Notification,
                 Absent, Sends, Owns, None
  <1>2. ASSUME NEW t \in Sides, Open(r, t)
        PROVE  IInv'
    <2> DEFINE n == [Idle EXCEPT !.at = "opened", !.side = t, !.unread = unread[t]]
    <2>1. n \in Request /\ Fits(n) /\ ~Owns(n)
      BY <1>1 DEF TypeOK, Request, Idle, Fits, Sends, Owns
    <2> QED
      BY <1>2, <2>1, OneSession DEF Open, At
  <1>3. CASE MarkRead(r)
    <2> DEFINE unreadRow == notification[s].count > 0 /\ ~notification[s].read
               n == [q EXCEPT !.at = "marked",
                              !.plan = IF unreadRow THEN "mark" ELSE "skip"]
    <2>1. request' = [request EXCEPT ![r] = n]
      BY <1>3, <1>1 DEF MarkRead, TypeOK
    <2>2. n \in Request /\ Fits(n) /\ ~Owns(n)
      BY <1>1 DEF Request, Plans, Fits, Sends, Owns
    <2> QED
      BY <1>3, <2>1, <2>2, OneSession DEF MarkRead, At
  <1>4. CASE Clear(r)
    <2> DEFINE n == [q EXCEPT !.at = "fetching", !.plan = "skip"]
    <2>1. request' = [request EXCEPT ![r] = n]
      BY <1>4, <1>1 DEF Clear, TypeOK
    <2>2. n \in Request /\ ~Sends(n) /\ ~Owns(n) /\ n.at = "fetching" /\ n.side = s
      BY <1>1 DEF Request, Plans, Sends, Owns
    <2>3. /\ unread' \in [Sides -> Counts]
          /\ \A t \in Sides : unread'[t] = unread[t] \/ (t = s /\ unread'[t] = 0)
      BY <1>4, <1>1, Sizes DEF Clear, TypeOK, Counts
    <2>4. /\ notification' \in [Sides -> Notification]
          /\ \A t \in Sides : notification'[t].count = notification[t].count
      BY <1>4, <1>1 DEF Clear, TypeOK, Notification
    <2>5. TypeOK'
      BY <1>4, <1>1, <2>1, <2>2, <2>3, <2>4 DEF Clear, TypeOK, Seen
    <2>6. RowsFit'
      BY <1>4, <1>1, <2>3, <2>4, Sizes DEF Clear, RowsFit, TypeOK
    <2>7. SessionsFit'
      BY <1>4, <1>1, <2>1, <2>2 DEF Clear, SessionsFit, Fits, Sends, Owns, Kept, TypeOK
    <2>8. MessagesAreOwned'
      BY <1>1, <2>1, <2>2 DEF MessagesAreOwned, TypeOK
    <2>9. NoneHidden'
      <3> SUFFICES ASSUME NEW t \in Sides, unread'[t] = 0,
                          \A p \in Requests : ~(At(p, "fetching") /\ request[p].side = t)'
                   PROVE  sent'[t] \subseteq shown' \cup missed'
        BY DEF NoneHidden
      <3>1. t # s
        BY <2>1, <2>2, <1>1 DEF At, TypeOK
      <3>2. \A p \in Requests : ~(At(p, "fetching") /\ request[p].side = t)
        BY <3>1, <2>1, <2>2, <1>1 DEF At, TypeOK
      <3> QED
        BY <1>4, <2>3, <3>1, <3>2 DEF NoneHidden, Clear, Seen
    <2> QED
      BY <2>5, <2>6, <2>7, <2>8, <2>9
  <1>5. ASSUME NEW page, Shows(s, page), Ends(r), UNCHANGED <<listing, Rows>>
        PROVE  IInv'
    <2>1. /\ sent[s] \subseteq shown' \cup missed'
          /\ shown \subseteq shown' /\ missed \subseteq missed'
          /\ shown' \subseteq shown \cup sent[s]
          /\ missed' \subseteq missed \cup sent[s]
      BY <1>5 DEF Shows
    <2>2. TypeOK'
      BY <1>1, <1>5, <2>1 DEF Ends, TypeOK, Rows
    <2>3. RowsFit'
      BY <1>5 DEF RowsFit, Rows
    <2>4. SessionsFit' /\ MessagesAreOwned'
      BY <1>1, <1>5 DEF Ends, SessionsFit, MessagesAreOwned, Fits, Sends, Owns,
                        Kept, TypeOK, Rows
    <2>5. NoneHidden'
      <3> SUFFICES ASSUME NEW t \in Sides, unread'[t] = 0,
                          \A p \in Requests : ~(At(p, "fetching") /\ request[p].side = t)'
                   PROVE  sent'[t] \subseteq shown' \cup missed'
        BY DEF NoneHidden
      <3>1. CASE t = s
        BY <3>1, <1>5, <2>1 DEF Rows
      <3>2. CASE t # s
        <4>1. \A p \in Requests : ~(At(p, "fetching") /\ request[p].side = t)
          BY <3>2, <1>1, <1>5 DEF Ends, At, TypeOK
        <4> QED
          BY <4>1, <1>5, <2>1 DEF NoneHidden, Rows
      <3> QED
        BY <3>1, <3>2
    <2> QED
      BY <2>2, <2>3, <2>4, <2>5
  <1>6. CASE Fetch(r)
    BY <1>6, <1>5 DEF Fetch
  <1>7. CASE Abandon(r)
    <2>1. CASE At(r, "fetching")
      BY <1>7, <2>1, <1>5 DEF Abandon
    <2>2. CASE ~At(r, "fetching")
      BY <1>7, <2>2, <1>1, OneSession DEF Abandon, Ends, Fits
    <2> QED
      BY <2>1, <2>2
  <1> QED
    BY <1>2, <1>3, <1>4, <1>6, <1>7 DEF Look

-----------------------------------------------------------------------------
(* The invariant holds of the empty conversation.                          *)
LEMMA Initially == Init => IInv
  <1> SUFFICES ASSUME Init PROVE IInv
    OBVIOUS
  <1>1. Cardinality({}) = 0 /\ Cardinality(Messages) \in Nat
    BY FS_EmptySet, Sizes
  <1>2. 0 \in Counts
    BY <1>1 DEF Counts
  <1>3. Absent \in Notification
    BY <1>2 DEF Absent, Notification
  <1>4. Idle \in Request
    BY <1>2, <1>3 DEF Idle, Request, Sides, Plans
  <1>5. TypeOK
    BY <1>2, <1>3, <1>4 DEF Init, TypeOK
  <1> QED
    BY <1>1, <1>5 DEF Init, IInv, RowsFit, SessionsFit, Fits, Sends, Owns,
                      MessagesAreOwned, NoneHidden, Idle, Absent, Sides, At

(* Every step of the system keeps it.                                      *)
LEMMA Inductive == IInv /\ [Next]_vars => IInv'
  <1> SUFFICES ASSUME IInv, [Next]_vars PROVE IInv'
    OBVIOUS
  <1>1. ASSUME NEW r \in Requests, Send(r)
        PROVE  IInv'
    BY <1>1, SendSteps, CommitStep DEF Send
  <1>2. ASSUME NEW r \in Requests, Look(r) \/ Abandon(r)
        PROVE  IInv'
    BY <1>2, ReadSteps
  <1>3. ASSUME NEW s \in Sides, Dismiss(s) \/ Retire(s)
        PROVE  IInv'
    BY <1>3, Controls
  <1>4. ASSUME NEW s \in Wary, Control(s)
        PROVE  IInv'
    BY <1>4, Controls, MessagingAssumption DEF Control, Sides
  <1>5. CASE ListingChanges
    BY <1>5, Controls DEF Sides
  <1>6. CASE UNCHANGED vars
    BY <1>6 DEF vars, IInv, TypeOK, RowsFit, SessionsFit, Fits, Sends, Owns,
                MessagesAreOwned, NoneHidden, Kept, At
  <1> QED
    BY <1>1, <1>2, <1>3, <1>4, <1>5, <1>6 DEF Next

(* Whatever overlaps, and wherever sessions end: a side whose badge is 0   *)
(* has come to every message it was sent, and neither a badge nor a        *)
(* notification counts more than there is (message_service.py:55-189,      *)
(* notification_service.py:69-152, 236-252, 331-354).                      *)
THEOREM NothingHidden == Spec => [](TypeOK /\ NoneHidden)
  <1>1. IInv => TypeOK /\ NoneHidden
    BY DEF IInv
  <1> QED
    BY <1>1, Initially, Inductive, PTL DEF Spec

-----------------------------------------------------------------------------
(* The notification a session has marked read is there until its commit.   *)
MarkedExist ==
    \A r \in Requests : At(r, "marked") /\ request[r].plan = "mark"
                            => notification[request[r].side].count > 0

(* What a step may do to the notifications, by the kind of step.           *)
LEMMA NotificationSteps ==
    ASSUME IInv, Next
    PROVE  \/ UNCHANGED notification /\ blocks' \subseteq blocks
           \/ \E r \in Requests : Commit(r) \/ Clear(r)
           \/ \E s \in Sides : Block(s) \/ Retire(s) \/ Dismiss(s)
  <1>1. ASSUME NEW r \in Requests, Send(r) \/ Look(r) \/ Abandon(r)
        PROVE  \/ UNCHANGED notification /\ blocks' \subseteq blocks
               \/ Commit(r) \/ Clear(r)
    BY <1>1 DEF Send, Look, Abandon, SendForListing, Reply, Begin, Write, TakeRow,
                CommitFails, Open, MarkRead, Fetch, Rows
  <1>2. ASSUME NEW s \in Sides, Control(s)
        PROVE  \/ UNCHANGED notification /\ blocks' \subseteq blocks
               \/ Block(s)
    BY <1>2 DEF Control, Unblock, SetMuted
  <1>3. ListingChanges => UNCHANGED notification /\ blocks' \subseteq blocks
    BY DEF ListingChanges, Rows
  <1> QED
    BY <1>1, <1>2, <1>3, MessagingAssumption DEF Next, Sides

(* A session that has marked a notification had done so before the step,   *)
(* or does it now.                                                         *)
LEMMA MarkedBefore ==
    ASSUME IInv, Next, NEW q \in Requests, (At(q, "marked") /\ request[q].plan = "mark")'
    PROVE  \/ /\ At(q, "marked") /\ request[q].plan = "mark"
              /\ request'[q].side = request[q].side
           \/ /\ notification[request'[q].side].count > 0
              /\ UNCHANGED notification
  <1> USE DEF At
  <1>1. request \in [Requests -> Request]
    BY DEF IInv, TypeOK
  <1>2. ASSUME NEW r \in Requests, NEW n, request' = [request EXCEPT ![r] = n],
               n.at # "marked"
        PROVE  request'[q] = request[q]
    BY <1>1, <1>2
  <1>3. Idle.at = "idle"
    BY DEF Idle
  <1>4. ASSUME NEW r \in Requests, NEW s \in Sides, Begin(r, s) \/ Open(r, s)
        PROVE  request'[q] = request[q]
    <2>1. request'[r].at \in {"checked", "opened"}
          /\ \A p \in Requests \ {r} : request'[p] = request[p]
      BY <1>1, <1>4 DEF Begin, Open, Idle
    <2> QED
      BY <2>1
  <1>5. ASSUME NEW r \in Requests, Write(r)
        PROVE  request'[q] = request[q]
    <2>1. CASE request[r].first /\ conversation
      BY <1>2, <1>3, <1>5, <2>1 DEF Write, Ends
    <2>2. CASE ~(request[r].first /\ conversation)
      <3>1. PICK m : request' = [request EXCEPT ![r] =
                    [request[r] EXCEPT !.at = "written", !.msg = m,
                                       !.plan = PlanFor(Sender(r)),
                                       !.loaded = notification[Other(Sender(r))]]]
        BY <1>1, <1>5, <2>2 DEF Write
      <3> DEFINE n == [request[r] EXCEPT !.at = "written", !.msg = m,
                                         !.plan = PlanFor(Sender(r)),
                                         !.loaded = notification[Other(Sender(r))]]
      <3>2. request' = [request EXCEPT ![r] = n] /\ n.at = "written"
        BY <1>1, <3>1 DEF Request
      <3> HIDE DEF n
      <3> QED
        BY <1>1, <3>2
    <2> QED
      BY <2>1, <2>2
  <1>6. ASSUME NEW r \in Requests, TakeRow(r)
        PROVE  request'[q] = request[q]
    <2>1. request'[r].at = "holding" /\ \A p \in Requests \ {r} : request'[p] = request[p]
      BY <1>1, <1>6 DEF TakeRow, Request
    <2> QED
      BY <2>1
  <1>7. ASSUME NEW r \in Requests, Ends(r)
        PROVE  request'[q] = request[q]
    BY <1>2, <1>3, <1>7 DEF Ends
  <1>8. ASSUME NEW r \in Requests, MarkRead(r)
        PROVE  \/ request'[q] = request[q]
               \/ /\ notification[request'[q].side].count > 0
                  /\ UNCHANGED notification
    <2> DEFINE s == request[r].side
               unreadRow == notification[s].count > 0 /\ ~notification[s].read
               n == [request[r] EXCEPT !.at = "marked",
                                       !.plan = IF unreadRow THEN "mark" ELSE "skip"]
    <2>1. request' = [request EXCEPT ![r] = n] /\ UNCHANGED notification
      BY <1>1, <1>8 DEF MarkRead, Rows
    <2>2. n.side = s /\ n.plan = IF unreadRow THEN "mark" ELSE "skip"
      BY <1>1 DEF Request
    <2> HIDE DEF n
    <2>3. CASE q = r
      BY <1>1, <2>1, <2>2, <2>3
    <2>4. CASE q # r
      BY <1>1, <2>1, <2>4
    <2> QED
      BY <2>3, <2>4
  <1>9. ASSUME NEW r \in Requests, Clear(r)
        PROVE  request'[q] = request[q]
    <2>1. request'[r].at = "fetching" /\ \A p \in Requests \ {r} : request'[p] = request[p]
      BY <1>1, <1>9 DEF Clear, Request
    <2> QED
      BY <2>1
  <1>10. ASSUME NEW S \in SUBSET Sides, Delete(S)
         PROVE  /\ At(q, "marked") /\ request[q].plan = "mark"
                /\ request'[q].side = request[q].side
    BY <1>1, <1>10 DEF Delete, Request
  <1>11. ASSUME NEW r \in Requests, Send(r) \/ Look(r) \/ Abandon(r)
         PROVE  \/ request'[q] = request[q]
                \/ /\ notification[request'[q].side].count > 0
                   /\ UNCHANGED notification
    BY <1>4, <1>5, <1>6, <1>7, <1>8, <1>9, <1>11
       DEF Send, Look, Abandon, SendForListing, Reply, Commit, CommitFails, Fetch, Sides
  <1>12. ASSUME NEW s \in Sides, Control(s) \/ Dismiss(s) \/ Retire(s) \/ ListingChanges
         PROVE  /\ At(q, "marked") /\ request[q].plan = "mark"
                /\ request'[q].side = request[q].side
    BY <1>10, <1>12 DEF Control, Block, Unblock, SetMuted, Dismiss, Retire, ListingChanges
  <1> QED
    BY <1>11, <1>12, MessagingAssumption DEF Next, Sides

(* A notification in the hands of a reader is not taken away.              *)
LEMMA MarkedStay ==
    ASSUME IInv, MarkedExist, Next
    PROVE  MarkedExist'
  <1> SUFFICES ASSUME NEW q \in Requests, (At(q, "marked") /\ request[q].plan = "mark")'
               PROVE  notification'[request'[q].side].count > 0
    BY DEF MarkedExist
  <1> DEFINE t == request'[q].side
  <1>1. CASE UNCHANGED notification
    <2>1. \/ At(q, "marked") /\ request[q].plan = "mark" /\ t = request[q].side
          \/ notification[t].count > 0
      BY MarkedBefore
    <2>2. notification[t].count > 0
      BY <2>1 DEF MarkedExist
    <2> HIDE DEF t
    <2>3. notification'[t].count > 0
      BY <1>1, <2>2
    <2> QED
      BY <2>3 DEF t
  <1>2. CASE ~UNCHANGED notification
    <2>1. /\ At(q, "marked") /\ request[q].plan = "mark" /\ t = request[q].side
          /\ notification[t].count > 0 /\ t \in Sides
      BY <1>2, MarkedBefore DEF MarkedExist, IInv, TypeOK, Request
    <2> HIDE DEF t
    <2>2. /\ notification \in [Sides -> Notification]
          /\ notification' \in [Sides -> Notification]
          /\ ~NotificationFree(t)
      BY <2>1, Inductive DEF IInv, TypeOK, NotificationFree
    <2>3. ASSUME NEW r \in Requests, Commit(r)
          PROVE  notification'[t].count > 0
      <3>1. Announced(r).count > 0 \/ notification'[t] = notification[t]
        <4>1. CASE request[r].plan = "merge"
          <5>1. Announced(r).count = request[r].loaded.count + 1
            BY <4>1 DEF Announced, Merged
          <5>2. request[r].loaded.count \in Nat
            BY Sizes DEF IInv, TypeOK, Request, Notification, Counts
          <5> QED
            BY <5>1, <5>2
        <4>2. CASE request[r].plan = "insert"
          BY <4>2 DEF Announced
        <4>3. CASE request[r].plan \notin {"merge", "insert"}
          BY <4>3, <2>2, <2>3 DEF Announced, Commit
        <4> QED
          BY <4>1, <4>2, <4>3
      <3> QED
        BY <2>1, <2>2, <2>3, <3>1 DEF Commit
    <2>4. ASSUME NEW r \in Requests, Clear(r)
          PROVE  notification'[t].count > 0
      BY <2>1, <2>2, <2>4 DEF Clear, Notification
    <2>5. ASSUME NEW s \in Sides, Dismiss(s)
          PROVE  notification'[t].count > 0
      BY <2>1, <2>2, <2>5 DEF Dismiss, Notification
    <2>6. ASSUME NEW s \in Sides, Retire(s)
          PROVE  notification'[t].count > 0
      BY <2>1, <2>2, <2>6 DEF Retire, Delete
    <2>7. ASSUME NEW s \in Sides, Block(s)
          PROVE  FALSE
      BY <2>1, <2>2, <2>7 DEF Block, Delete
    <2> QED
      BY <1>2, <2>3, <2>4, <2>5, <2>6, <2>7, NotificationSteps DEF t
  <1> QED
    BY <1>1, <1>2

(* Without a send under way, blocked sides stay silent.                    *)
LEMMA SilenceStays ==
    ASSUME IInv, MarkedExist, Next, BlockedAreSilent, ~Late, ~Late'
    PROVE  BlockedAreSilent'
  <1> SUFFICES ASSUME blocks' # {}, NEW t \in Sides
               PROVE  notification'[t] = Absent
    BY DEF BlockedAreSilent
  <1>1. ASSUME NEW s \in Sides, Block(s)
        PROVE  notification'[t] = Absent
    BY <1>1 DEF Block, Delete
  <1>2. ASSUME NEW r \in Requests, Commit(r) \/ Clear(r)
        PROVE  UNCHANGED blocks
    BY <1>2 DEF Commit, Clear
  <1>3. ASSUME NEW s \in Sides, Retire(s) \/ Dismiss(s)
        PROVE  UNCHANGED blocks
    BY <1>3 DEF Retire, Dismiss
  <1>4. CASE blocks # {}
    <2>1. /\ \A s \in Sides : notification[s] = Absent /\ notification[s].count = 0
          /\ Sending = {}
          /\ notification \in [Sides -> Notification]
      BY <1>4 DEF BlockedAreSilent, Absent, Late, IInv, TypeOK
    <2>2. ASSUME NEW r \in Requests, Commit(r)
          PROVE  FALSE
      BY <2>1, <2>2 DEF Commit, At, Sending
    <2>3. ASSUME NEW r \in Requests, Clear(r)
          PROVE  UNCHANGED notification
      <3>1. request[r].side \in Sides
        BY DEF IInv, TypeOK, Request
      <3>2. request[r].plan # "mark"
        BY <2>1, <2>3, <3>1 DEF MarkedExist, Clear
      <3> QED
        BY <2>3, <3>2 DEF Clear
    <2>4. ASSUME NEW s \in Sides, Dismiss(s)
          PROVE  FALSE
      BY <2>1, <2>4 DEF Dismiss
    <2>5. ASSUME NEW s \in Sides, Retire(s)
          PROVE  FALSE
      BY <2>1, <2>5 DEF Retire
    <2> QED
      BY <1>1, <2>1, <2>2, <2>3, <2>4, <2>5, NotificationSteps
  <1>5. CASE blocks = {}
    BY <1>1, <1>2, <1>3, <1>5, NotificationSteps
  <1> QED
    BY <1>4, <1>5

(* A block that no send overlaps silences the pair until it is lifted,     *)
(* whatever else overlaps: what was there is deleted, no send begins, and  *)
(* no reader brings a deleted notification back                            *)
(* (conversation_safety_service.py:124-150, message_service.py:84-143,     *)
(* notification_service.py:69-152, 331-354).                               *)
THEOREM BlocksSilence == MCSpec => []SilentUnlessLate
  <1> DEFINE Quiet == ~Late /\ BlockedAreSilent
             I == IInv /\ MarkedExist /\ (late \/ Quiet)
  <1>1. MCInit => I
    <2> SUFFICES ASSUME MCInit PROVE I
      OBVIOUS
    <2>1. IInv
      BY Initially DEF MCInit
    <2>2. MarkedExist /\ Quiet
      BY DEF MCInit, Init, MarkedExist, At, Idle, Late, BlockedAreSilent
    <2> QED
      BY <2>1, <2>2
  <1>2. ASSUME I, MCNext
        PROVE  I'
    <2>1. IInv' /\ MarkedExist'
      BY <1>2, Inductive, MarkedStay DEF MCNext
    <2>2. Quiet /\ ~Late' => Quiet'
      BY <1>2, SilenceStays DEF MCNext
    <2>3. late' = (late \/ Late')
      BY <1>2 DEF MCNext
    <2>4. late \/ Quiet
      BY <1>2
    <2> HIDE DEF Quiet
    <2>5. CASE late
      BY <2>1, <2>3, <2>5
    <2>6. CASE Late'
      BY <2>1, <2>3, <2>6
    <2>7. CASE ~late /\ ~Late'
      BY <2>1, <2>2, <2>4, <2>7
    <2> QED
      BY <2>5, <2>6, <2>7
  <1>3. I /\ UNCHANGED <<vars, raced, late, dismissed>> => I'
    BY Inductive DEF vars, MarkedExist, At, Late, Sending, BlockedAreSilent
  <1>4. I => SilentUnlessLate
    BY DEF SilentUnlessLate
  <1> QED
    BY <1>1, <1>2, <1>3, <1>4, PTL DEF MCSpec

(* A message reopens its recipient's notification, unless that was marked  *)
(* read after the send had loaded it: a change of the row clears read_at   *)
(* only if it was loaded set (notification_service.py:106-116, 331-354).   *)
THEOREM MessageReopens == MCSpec => ReopensUnlessDismissed
  <1> DEFINE I == IInv /\ (dismissed \/ ~Dismissing)
  <1>1. MCInit => I
    BY Initially DEF MCInit, Init, Dismissing, Sending, Idle
  <1>2. ASSUME I, MCNext
        PROVE  I'
    <2>1. IInv' /\ dismissed' = (dismissed \/ Dismissing')
      BY <1>2, Inductive DEF MCNext
    <2> QED
      BY <2>1
  <1>3. I /\ UNCHANGED <<vars, raced, late, dismissed>> => I'
    BY Inductive DEF vars, Dismissing, Sending, Recipient
  <1>4. ASSUME I, NEW r \in Requests, Commit(r), request[r].plan \in {"merge", "insert"}
        PROVE  dismissed \/ ~notification'[Recipient(r)].read
    <2> DEFINE t == Recipient(r)
    <2>1. /\ t \in Sides /\ notification \in [Sides -> Notification]
          /\ notification'[t] = Announced(r)
      BY <1>4, OtherSide DEF IInv, TypeOK, Request, Recipient, Commit
    <2>2. CASE request[r].plan = "insert"
      <3>1. Announced(r).read = FALSE
        BY <2>2 DEF Announced
      <3> QED
        BY <2>1, <3>1
    <2>3. CASE request[r].plan = "merge"
      <3>1. Announced(r).read = IF request[r].loaded.read
                                THEN FALSE ELSE notification[t].read
        BY <2>3 DEF Announced, Merged
      <3>2. ~dismissed => (request[r].loaded.read \/ ~notification[t].read)
        <4>1. r \in Sending
          BY <1>4 DEF Commit, At, Sending
        <4> QED
          BY <1>4, <2>3, <4>1 DEF Dismissing
      <3>3. CASE request[r].loaded.read
        BY <2>1, <3>1, <3>3
      <3>4. CASE ~request[r].loaded.read
        BY <2>1, <3>1, <3>2, <3>4
      <3> QED
        BY <3>3, <3>4
    <2> QED
      BY <1>4, <2>2, <2>3
  <1>5. I /\ [MCNext]_<<vars, raced, late, dismissed>>
          => [\A r \in Requests :
                  Commit(r) /\ request[r].plan \in {"merge", "insert"}
                      => dismissed \/ ~notification'[Recipient(r)].read]_vars
    BY <1>4
  <1> QED
    BY <1>1, <1>2, <1>3, <1>5, PTL DEF MCSpec, ReopensUnlessDismissed

-----------------------------------------------------------------------------
(* No message is for both sides, and only stored ones are come to.         *)
Stored ==
    /\ shown \cup missed \subseteq Kept
    /\ \A s \in Sides : sent[s] \cap sent[Other(s)] = {}

(* An answer that clears the counter of s is on its way.                   *)
Answering(s) == \E r \in Requests : At(r, "fetching") /\ request[r].side = s
Unopened(s)  == sent[s] \ (shown \cup missed)

(* What a session loaded is the counter as it is.                          *)
Fresh(q) ==
    /\ Sends(q) => q.unread = unread[Other(q.side)]
    /\ q.at \in {"opened", "marked"} => q.unread = unread[q.side]

Counted ==
    /\ \A s \in Sides :
           unread[s] = IF Answering(s) THEN 0 ELSE Cardinality(Unopened(s))
    /\ \A r \in Requests : Fresh(request[r])

(* A step changes the messages at a commit, the history when an answer     *)
(* arrives or is lost, the counters at a commit and at a clearing, and no  *)
(* more.                                                                   *)
LEMMA StoreSteps ==
    ASSUME Next
    PROVE  \/ \E r \in Requests : Commit(r) \/ Clear(r) \/ Fetch(r) \/ Abandon(r)
           \/ UNCHANGED <<unread, sent, shown, missed>>
  <1>1. ASSUME NEW r \in Requests, Send(r) \/ Look(r)
        PROVE  \/ Commit(r) \/ Clear(r) \/ Fetch(r)
               \/ UNCHANGED <<unread, sent, shown, missed>>
    BY <1>1 DEF Send, Look, SendForListing, Reply, Begin, Write, TakeRow,
                CommitFails, Open, MarkRead, Rows, Seen
  <1>2. ASSUME NEW s, Control(s) \/ Dismiss(s) \/ Retire(s) \/ ListingChanges
        PROVE  UNCHANGED <<unread, sent, shown, missed>>
    BY <1>2 DEF Control, Block, Unblock, SetMuted, Dismiss, Retire, ListingChanges,
                Rows, Seen
  <1> QED
    BY <1>1, <1>2 DEF Next

(* A stored message is for one side, whatever overlaps.                    *)
LEMMA StoredStay ==
    ASSUME IInv, Stored, Next
    PROVE  Stored'
  <1> USE OtherSide
  <1>1. ASSUME NEW r \in Requests, Commit(r)
        PROVE  Stored'
    <2> DEFINE m == request[r].msg
               t == Recipient(r)
    <2>1. t \in Sides /\ sent \in [Sides -> SUBSET Messages] /\ m \notin Kept
      BY <1>1 DEF IInv, TypeOK, Request, Recipient, Commit, At, SessionsFit, Fits, Owns
    <2>2. /\ sent' = [sent EXCEPT ![t] = @ \cup {m}]
          /\ UNCHANGED <<shown, missed>>
      BY <1>1 DEF Commit, Seen
    <2> HIDE DEF m, t
    <2>3. Kept \subseteq Kept'
      BY <2>1, <2>2 DEF Kept, Sides
    <2>4. \A s \in Sides : sent'[s] \cap sent'[Other(s)] = {}
      BY <2>1, <2>2 DEF Stored, Kept, Sides, Other
    <2> QED
      BY <2>2, <2>3, <2>4 DEF Stored
  <1>2. ASSUME NEW s \in Sides, NEW page, Shows(s, page), UNCHANGED sent
        PROVE  Stored'
    BY <1>2 DEF Shows, Stored, Kept, Sides
  <1>3. ASSUME NEW r \in Requests, Fetch(r) \/ Abandon(r)
        PROVE  Stored'
    <2>1. request[r].side \in Sides
      BY DEF IInv, TypeOK, Request
    <2>2. CASE Fetch(r)
      BY <2>1, <2>2, <1>2 DEF Fetch, Rows
    <2>3. CASE Abandon(r) /\ At(r, "fetching")
      BY <2>1, <2>3, <1>2 DEF Abandon, Rows
    <2>4. CASE Abandon(r) /\ ~At(r, "fetching")
      BY <2>4 DEF Abandon, Rows, Seen, Stored, Kept
    <2> QED
      BY <1>3, <2>2, <2>3, <2>4
  <1>4. ASSUME NEW r \in Requests, Clear(r)
        PROVE  Stored'
    BY <1>4 DEF Clear, Seen, Stored, Kept
  <1>5. CASE UNCHANGED <<unread, sent, shown, missed>>
    BY <1>5 DEF Stored, Kept
  <1> QED
    BY <1>1, <1>3, <1>4, <1>5, StoreSteps

(* A step that changes only one session, to one that is fresh and not      *)
(* about to answer, keeps the counters exact.                              *)
LEMMA CountedSession ==
    ASSUME IInv, Counted, NEW r \in Requests, NEW q,
           request' = [request EXCEPT ![r] = q],
           ~At(r, "fetching"), q.at # "fetching", Fresh(q),
           UNCHANGED <<unread, sent, shown, missed>>
    PROVE  Counted'
  <1>1. request \in [Requests -> Request]
    BY DEF IInv, TypeOK
  <1>2. \A p \in Requests : Fresh(request[p])'
    <2>1. \A p \in Requests : request'[p] = q \/ request'[p] = request[p]
      BY <1>1
    <2>2. \A p \in Requests : Fresh(request'[p])
      BY <2>1 DEF Counted
    <2> QED
      BY <2>2 DEF Fresh, Sends
  <1>3. \A s \in Sides : Answering(s)' <=> Answering(s)
    <2>1. /\ request'[r].at # "fetching" /\ request[r].at # "fetching"
          /\ \A p \in Requests \ {r} : request'[p] = request[p]
      BY <1>1 DEF At
    <2> QED
      BY <2>1 DEF Answering, At
  <1>4. \A s \in Sides : Unopened(s)' = Unopened(s)
    BY DEF Unopened
  <1> HIDE DEF Answering, Unopened
  <1>5. \A s \in Sides : unread'[s] = IF Answering(s)' THEN 0
                                                       ELSE Cardinality(Unopened(s)')
    BY <1>3, <1>4 DEF Counted
  <1> QED
    BY <1>2, <1>5 DEF Counted

(* Sends, openings and lost answers before they touch a counter, and the   *)
(* controls, keep the counters exact.                                      *)
LEMMA CountedQuiet ==
    ASSUME IInv, Counted, Next, UNCHANGED <<unread, sent, shown, missed>>,
           \A r \in Requests : ~(Commit(r) \/ Clear(r) \/ Fetch(r)),
           \A r \in Requests : ~(Abandon(r) /\ At(r, "fetching"))
    PROVE  Counted'
  <1> USE OtherSide
  <1>0. request \in [Requests -> Request] /\ Fresh(Idle) /\ Idle.at = "idle"
    BY DEF IInv, TypeOK, Fresh, Sends, Idle
  <1>1. ASSUME NEW r \in Requests, Ends(r), ~At(r, "fetching")
        PROVE  Counted'
    BY <1>0, <1>1, CountedSession DEF Ends
  <1>2. ASSUME NEW r \in Requests, NEW s \in Sides, Begin(r, s) \/ Open(r, s)
        PROVE  Counted'
    <2>1. CASE Begin(r, s)
      <3> DEFINE q == [Idle EXCEPT !.at = "checked", !.side = s,
                                   !.first = ~conversation,
                                   !.unread = unread[Other(s)]]
      <3>1. q.at = "checked" /\ q.side = s /\ q.unread = unread[Other(s)]
        BY DEF Idle
      <3>2. request' = [request EXCEPT ![r] = q] /\ ~At(r, "fetching")
        BY <2>1 DEF Begin, At
      <3> HIDE DEF q
      <3> QED
        BY <3>1, <3>2, CountedSession DEF Fresh
    <2>2. CASE Open(r, s)
      <3> DEFINE q == [Idle EXCEPT !.at = "opened", !.side = s, !.unread = unread[s]]
      <3>1. q.at = "opened" /\ q.side = s /\ q.unread = unread[s]
        BY DEF Idle
      <3>2. request' = [request EXCEPT ![r] = q] /\ ~At(r, "fetching")
        BY <2>2 DEF Open, At
      <3> HIDE DEF q
      <3> QED
        BY <3>1, <3>2, CountedSession DEF Fresh, Sends
    <2> QED
      BY <1>2, <2>1, <2>2
  <1>3. ASSUME NEW r \in Requests, NEW q, request' = [request EXCEPT ![r] = q],
               Sends(request[r]), Sends(q),
               q.side = request[r].side, q.unread = request[r].unread
        PROVE  Counted'
    <2>1. Fresh(q) /\ q.at # "fetching" /\ ~At(r, "fetching")
      BY <1>3 DEF Counted, Fresh, Sends, At
    <2> QED
      BY <1>3, <2>1, CountedSession
  <1>4. ASSUME NEW r \in Requests, Write(r)
        PROVE  Counted'
    <2>1. CASE request[r].first /\ conversation
      BY <1>4, <2>1, <1>1 DEF Write, At
    <2>2. CASE ~(request[r].first /\ conversation)
      <3>1. PICK m : request' = [request EXCEPT ![r] =
                    [request[r] EXCEPT !.at = "written", !.msg = m,
                                       !.plan = PlanFor(Sender(r)),
                                       !.loaded = notification[Other(Sender(r))]]]
        BY <1>0, <1>4, <2>2 DEF Write
      <3> DEFINE q == [request[r] EXCEPT !.at = "written", !.msg = m,
                                         !.plan = PlanFor(Sender(r)),
                                         !.loaded = notification[Other(Sender(r))]]
      <3>2. /\ request' = [request EXCEPT ![r] = q]
            /\ q.at = "written" /\ q.side = request[r].side
            /\ q.unread = request[r].unread
        BY <1>0, <3>1 DEF Request
      <3> HIDE DEF q
      <3>3. Sends(q) /\ Sends(request[r])
        BY <1>4, <3>2 DEF Sends, Write, At
      <3> QED
        BY <1>3, <3>2, <3>3
    <2> QED
      BY <2>1, <2>2
  <1>5. ASSUME NEW r \in Requests, TakeRow(r)
        PROVE  Counted'
    <2> DEFINE row == notification[Recipient(r)]
               q == IF request[r].plan = "insert" /\ row.count > 0
                    THEN [request[r] EXCEPT !.at = "holding", !.plan = "merge",
                                            !.loaded = row]
                    ELSE [request[r] EXCEPT !.at = "holding"]
    <2>1. /\ request' = [request EXCEPT ![r] = q]
          /\ q.at = "holding" /\ q.side = request[r].side
          /\ q.unread = request[r].unread
      BY <1>0, <1>5 DEF TakeRow, Request
    <2> HIDE DEF q
    <2>2. Sends(q) /\ Sends(request[r])
      BY <1>5, <2>1 DEF Sends, TakeRow, At
    <2> QED
      BY <1>3, <2>1, <2>2
  <1>6. ASSUME NEW r \in Requests, MarkRead(r)
        PROVE  Counted'
    <2> DEFINE q == [request[r] EXCEPT
                        !.at = "marked",
                        !.plan = IF /\ notification[request[r].side].count > 0
                                    /\ ~notification[request[r].side].read
                                 THEN "mark" ELSE "skip"]
    <2>1. /\ request' = [request EXCEPT ![r] = q]
          /\ q.at = "marked" /\ q.side = request[r].side
          /\ q.unread = request[r].unread /\ At(r, "opened")
      BY <1>0, <1>6 DEF MarkRead, Request
    <2> HIDE DEF q
    <2>2. Fresh(q) /\ q.at # "fetching" /\ ~At(r, "fetching")
      BY <2>1 DEF Counted, Fresh, Sends, At
    <2> QED
      BY <2>1, <2>2, CountedSession
  <1>7. ASSUME \A p \in Requests : /\ request'[p].at = request[p].at
                                   /\ request'[p].side = request[p].side
                                   /\ request'[p].unread = request[p].unread
        PROVE  Counted'
    <2>1. \A p \in Requests : Fresh(request[p])'
      BY <1>7 DEF Counted, Fresh, Sends
    <2>2. \A s \in Sides : Answering(s)' <=> Answering(s)
      BY <1>7 DEF Answering, At
    <2>3. \A s \in Sides : Unopened(s)' = Unopened(s)
      BY DEF Unopened
    <2> HIDE DEF Answering, Unopened
    <2>4. \A s \in Sides : unread'[s] = IF Answering(s)' THEN 0
                                        ELSE Cardinality(Unopened(s)')
      BY <2>2, <2>3 DEF Counted
    <2> QED
      BY <2>1, <2>4 DEF Counted
  <1>8. ASSUME NEW s \in Sides, Control(s) \/ Dismiss(s) \/ Retire(s) \/ ListingChanges
        PROVE  Counted'
    <2>1. \A p \in Requests : /\ request'[p].at = request[p].at
                              /\ request'[p].side = request[p].side
                              /\ request'[p].unread = request[p].unread
      BY <1>0, <1>8 DEF Control, Block, Unblock, SetMuted, Dismiss, Retire, Delete,
                        ListingChanges, Request
    <2> QED
      BY <1>7, <2>1
  <1>9. ASSUME NEW r \in Requests, Send(r)
        PROVE  Counted'
    BY <1>1, <1>2, <1>4, <1>5, <1>9 DEF Send, SendForListing, Reply, CommitFails, At, Sides
  <1>10. ASSUME NEW r \in Requests, Look(r) \/ Abandon(r)
         PROVE  Counted'
    BY <1>1, <1>2, <1>6, <1>10 DEF Look, Abandon
  <1> QED
    BY <1>8, <1>9, <1>10, MessagingAssumption DEF Next, Sides

(* The commit of a lone send counts its message, which nobody has come to. *)
LEMMA CountedCommit ==
    ASSUME IInv, Stored, Counted, ~Racing, NEW r \in Requests, Commit(r)
    PROVE  Counted'
  <1> USE OtherSide
  <1>0. PICK t, m : t = Recipient(r) /\ m = request[r].msg
    OBVIOUS
  <1>1. /\ request \in [Requests -> Request] /\ request[r] \in Request
        /\ t \in Sides /\ t = Other(request[r].side)
        /\ sent \in [Sides -> SUBSET Messages] /\ unread \in [Sides -> Counts]
    BY <1>0 DEF IInv, TypeOK, Request, Recipient
  <1>2. At(r, "holding") /\ \A p \in Requests \ {r} : At(p, "idle")
    BY DEF Commit, Racing, At
  <1>3. m \in Messages \ Kept /\ request[r].unread = unread[t]
    BY <1>0, <1>1, <1>2 DEF IInv, SessionsFit, Fits, Sends, Owns, At, Counted, Fresh
  <1>4. /\ unread' = [unread EXCEPT ![t] = unread[t] + 1]
        /\ sent' = [sent EXCEPT ![t] = @ \cup {m}]
        /\ UNCHANGED <<shown, missed>>
    BY <1>0, <1>3 DEF Commit, Raised, Seen
  <1>5. \A p \in Requests : request'[p].at = "idle"
    BY <1>1, <1>2 DEF Commit, Ends, At, Idle
  <1>6. \A s \in Sides : ~Answering(s) /\ ~Answering(s)'
    BY <1>2, <1>5 DEF Answering, At
  <1> HIDE DEF Answering
  <1>7. ASSUME NEW s \in Sides
        PROVE  unread'[s] = Cardinality(Unopened(s)')
    <2>1. unread[s] = Cardinality(Unopened(s))
      BY <1>6 DEF Counted
    <2>2. CASE s = t
      <3>1. Unopened(t)' = Unopened(t) \cup {m}
        <4>1. sent'[t] = sent[t] \cup {m} /\ m \notin shown \cup missed
          BY <1>1, <1>3, <1>4 DEF Stored
        <4> QED
          BY <4>1, <1>4 DEF Unopened
      <3>2. Unopened(t) \in SUBSET Messages /\ m \in Messages \ Unopened(t)
        BY <1>1, <1>3 DEF Unopened, Kept, Sides
      <3>3. Cardinality(Unopened(t) \cup {m}) = Cardinality(Unopened(t)) + 1
        BY <3>2, Sizes
      <3> QED
        BY <1>1, <1>4, <2>1, <2>2, <3>1, <3>3
    <2>3. CASE s # t
      <3>1. unread'[s] = unread[s] /\ sent'[s] = sent[s]
        BY <1>1, <1>4, <2>3
      <3>2. Unopened(s)' = Unopened(s)
        BY <1>4, <3>1 DEF Unopened
      <3> QED
        BY <2>1, <3>1, <3>2
    <2> QED
      BY <2>2, <2>3
  <1>8. \A p \in Requests : Fresh(request[p])'
    BY <1>5 DEF Fresh, Sends
  <1> QED
    BY <1>6, <1>7, <1>8 DEF Counted

(* A lone opening resets the counter it loaded.                            *)
LEMMA CountedClear ==
    ASSUME IInv, Counted, ~Racing, NEW r \in Requests, Clear(r)
    PROVE  Counted'
  <1> USE OtherSide
  <1>0. PICK t : t = request[r].side
    OBVIOUS
  <1>1. /\ request \in [Requests -> Request] /\ request[r] \in Request
        /\ t \in Sides /\ unread \in [Sides -> Counts]
    BY <1>0 DEF IInv, TypeOK, Request
  <1>2. At(r, "marked") /\ \A p \in Requests \ {r} : At(p, "idle")
    BY DEF Clear, Racing, At
  <1>3. request[r].unread = unread[t]
    BY <1>0, <1>2 DEF At, Counted, Fresh
  <1>4. /\ unread'[t] = 0 /\ \A s \in Sides \ {t} : unread'[s] = unread[s]
        /\ UNCHANGED <<sent, shown, missed>>
    BY <1>0, <1>1, <1>3 DEF Clear, Seen
  <1>5. /\ \A p \in Requests \ {r} : request'[p].at = "idle"
        /\ request'[r].at = "fetching" /\ request'[r].side = t
    BY <1>0, <1>1, <1>2 DEF Clear, Request, At
  <1>6. /\ \A s \in Sides : ~Answering(s)
        /\ \A s \in Sides \ {t} : ~Answering(s)'
        /\ Answering(t)'
    BY <1>2, <1>5 DEF Answering, At
  <1>7. \A s \in Sides : Unopened(s)' = Unopened(s)
    BY <1>4 DEF Unopened
  <1> HIDE DEF Answering, Unopened
  <1>8. ASSUME NEW s \in Sides
        PROVE  unread'[s] = IF Answering(s)' THEN 0 ELSE Cardinality(Unopened(s)')
    <2>1. CASE s = t
      BY <1>4, <1>6, <2>1
    <2>2. CASE s # t
      <3>1. unread[s] = Cardinality(Unopened(s))
        BY <1>6, <2>2 DEF Counted
      <3>2. unread'[s] = unread[s] /\ ~Answering(s)' /\ Unopened(s)' = Unopened(s)
        BY <1>4, <1>6, <1>7, <2>2
      <3> QED
        BY <3>1, <3>2
    <2> QED
      BY <2>1, <2>2
  <1>9. \A p \in Requests : Fresh(request[p])'
    BY <1>5 DEF Fresh, Sends
  <1> QED
    BY <1>8, <1>9 DEF Counted

(* The answer of a lone opening comes to every message of its side, shown  *)
(* or missed, and to none of the other's.                                  *)
LEMMA CountedAnswer ==
    ASSUME IInv, Stored, Counted, ~Racing, NEW r \in Requests, NEW page,
           At(r, "fetching"), Shows(request[r].side, page), Ends(r),
           UNCHANGED <<unread, sent>>
    PROVE  Counted'
  <1> USE OtherSide
  <1>0. PICK t : t = request[r].side
    OBVIOUS
  <1>1. /\ request \in [Requests -> Request] /\ request[r] \in Request
        /\ t \in Sides
    BY <1>0 DEF IInv, TypeOK, Request
  <1>2. \A p \in Requests \ {r} : At(p, "idle")
    BY DEF Racing, At
  <1>3. \A p \in Requests : request'[p].at = "idle"
    BY <1>1, <1>2 DEF Ends, At, Idle
  <1>4. /\ Answering(t) /\ \A s \in Sides \ {t} : ~Answering(s)
        /\ \A s \in Sides : ~Answering(s)'
    BY <1>0, <1>2, <1>3 DEF Answering, At
  <1>5. /\ Unopened(t)' = {}
        /\ \A s \in Sides \ {t} : Unopened(s)' = Unopened(s)
    <2>1. \A s \in Sides \ {t} : sent[s] \cap sent[t] = {}
      BY <1>1 DEF Stored, Sides, Other
    <2>2. /\ shown' = shown \cup (sent[t] \cap page)
          /\ missed' = missed \cup (sent[t] \ (shown \cup page))
          /\ sent' = sent
      BY <1>0 DEF Shows
    <2>3. Unopened(t)' = {}
      BY <2>2 DEF Unopened
    <2>4. ASSUME NEW s \in Sides \ {t}
          PROVE  Unopened(s)' = Unopened(s)
      BY <2>1, <2>2 DEF Unopened
    <2> QED
      BY <2>3, <2>4
  <1> HIDE DEF Answering, Unopened
  <1>6. ASSUME NEW s \in Sides
        PROVE  unread'[s] = Cardinality(Unopened(s)')
    <2>1. CASE s = t
      <3>1. unread[t] = 0
        BY <1>1, <1>4 DEF Counted
      <3> QED
        BY <1>5, <2>1, <3>1, FS_EmptySet
    <2>2. CASE s # t
      <3>1. unread[s] = Cardinality(Unopened(s))
        BY <1>4, <2>2 DEF Counted
      <3>2. Unopened(s)' = Unopened(s) /\ unread'[s] = unread[s]
        BY <1>5, <2>2
      <3> QED
        BY <3>1, <3>2
    <2> QED
      BY <2>1, <2>2
  <1>7. \A p \in Requests : Fresh(request[p])'
    BY <1>3 DEF Fresh, Sends
  <1> QED
    BY <1>4, <1>6, <1>7 DEF Counted

(* Served one at a time, requests keep every badge exact: it counts the    *)
(* messages that came since its side last opened the conversation          *)
(* (message_service.py:55-81, 84-189).                                     *)
THEOREM BadgesCount == MCSpec => []CountsUnlessRaced
  <1> DEFINE Lone == ~Racing /\ Counted
             I == IInv /\ Stored /\ (raced \/ Lone)
  <1>1. MCInit => I
    <2> SUFFICES ASSUME MCInit PROVE I
      OBVIOUS
    <2>1. IInv
      BY Initially DEF MCInit
    <2>2. Stored /\ ~Racing
      BY OtherSide DEF MCInit, Init, Stored, Kept, Racing, At, Idle, Sides
    <2>3. Counted
      BY OtherSide, FS_EmptySet
         DEF MCInit, Init, Counted, Answering, Unopened, Fresh, Sends, At, Idle
    <2> QED
      BY <2>1, <2>2, <2>3
  <1>2. ASSUME IInv, Stored, Next, Lone
        PROVE  Counted'
    <2>1. ASSUME NEW r \in Requests, Commit(r)
          PROVE  Counted'
      BY <1>2, <2>1, CountedCommit
    <2>2. ASSUME NEW r \in Requests, Clear(r)
          PROVE  Counted'
      BY <1>2, <2>2, CountedClear
    <2>3. ASSUME NEW r \in Requests, Fetch(r) \/ (Abandon(r) /\ At(r, "fetching"))
          PROVE  Counted'
      BY <1>2, <2>3, CountedAnswer DEF Fetch, Abandon, Rows
    <2>4. CASE /\ \A r \in Requests : ~(Commit(r) \/ Clear(r) \/ Fetch(r))
               /\ \A r \in Requests : ~(Abandon(r) /\ At(r, "fetching"))
      <3>1. UNCHANGED <<unread, sent, shown, missed>>
        BY <1>2, <2>4, StoreSteps DEF Abandon, Rows, Seen
      <3> QED
        BY <1>2, <2>4, <3>1, CountedQuiet
    <2> QED
      BY <2>1, <2>2, <2>3, <2>4
  <1>3. ASSUME I, MCNext
        PROVE  I'
    <2>1. IInv' /\ Stored'
      BY <1>3, Inductive, StoredStay DEF MCNext
    <2>2. Lone /\ ~Racing' => Lone'
      BY <1>2, <1>3 DEF MCNext
    <2>3. raced' = (raced \/ Racing')
      BY <1>3 DEF MCNext
    <2>4. raced \/ Lone
      BY <1>3
    <2> HIDE DEF Lone
    <2>5. CASE raced
      BY <2>1, <2>3, <2>5
    <2>6. CASE Racing'
      BY <2>1, <2>3, <2>6
    <2>7. CASE ~raced /\ ~Racing'
      BY <2>1, <2>2, <2>4, <2>7
    <2> QED
      BY <2>5, <2>6, <2>7
  <1>4. I /\ UNCHANGED <<vars, raced, late, dismissed>> => I'
    <2> SUFFICES ASSUME I, UNCHANGED <<vars, raced, late, dismissed>>
                 PROVE  I'
      OBVIOUS
    <2>1. IInv' /\ Stored' /\ raced' = raced
      BY Inductive DEF vars, Stored, Kept
    <2>2. Lone => Lone'
      BY DEF vars, Racing, At, Counted, Answering, Unopened, Fresh, Sends
    <2>3. raced \/ Lone
      OBVIOUS
    <2> HIDE DEF Lone
    <2> QED
      BY <2>1, <2>2, <2>3
  <1>5. I => CountsUnlessRaced
    BY DEF CountsUnlessRaced, CountsAreExact, Counted, Answering, Unopened
  <1> QED
    BY <1>1, <1>3, <1>4, <1>5, PTL DEF MCSpec
=============================================================================
