------------------------------ MODULE Messaging ------------------------------
(***************************************************************************)
(* One conversation between the buyer and the seller of a listing: its     *)
(* messages, the unread counter and the one consolidated notification of   *)
(* each side, muting and blocking.                                         *)
(*                                                                         *)
(* A request loads rows without a lock, changes them in memory and writes  *)
(* them when its session flushes: at the savepoint of a new notification,  *)
(* or at its commit.  PostgreSQL is at READ COMMITTED: a written row stays *)
(* locked until the commit, a second writer waits, and a circle of waiting *)
(* sessions is broken by rolling one of them back.                         *)
(***************************************************************************)
EXTENDS Naturals, FiniteSets

CONSTANTS
    Messages,       \* ids of messages
    Requests,       \* database sessions of HTTP requests
    PageSize,       \* messages on one page of a conversation
    Wary            \* the sides that may mute and block (a bound)

ASSUME MessagingAssumption ==
    /\ IsFiniteSet(Messages) /\ PageSize \in Nat \ {0}
    /\ Wary \subseteq {"buyer", "seller"}

VARIABLES
    listing,        \* the listing: open, quiet (takes no messages), or closed
    conversation,   \* the row of the conversation exists
    unread,         \* buyer_unread_count and seller_unread_count
    sent,           \* the stored messages, by the side they are for
    notification,   \* each side's notification of this conversation
    muted,          \* the sides whose preference mutes the conversation
    blocks,         \* the sides that block the other one
    request,        \* where each session is, and what it has loaded
    shown,          \* history: the messages their recipient was shown
    missed          \* history: those an opening took off the counter without
                    \* showing them, on another page or in a lost answer

vars == <<listing, conversation, unread, sent, notification, muted, blocks,
          request, shown, missed>>

-----------------------------------------------------------------------------
Sides == {"buyer", "seller"}
Other(s) == IF s = "buyer" THEN "seller" ELSE "buyer"

Counts == 0..Cardinality(Messages)

(* group_count, 0 when there is no row; read_at is set.                    *)
Notification == [count : Counts, read : BOOLEAN]
Absent == [count |-> 0, read |-> FALSE]

None == "none"

(* What is to become of the notification: nothing, a new row, a change of  *)
(* the row it loaded, the same of a row that has been deleted since; or    *)
(* the session has marked it read.                                         *)
Plans == {"skip", "insert", "merge", "gone", "mark"}

Request == [at     : {"idle", "checked", "written", "holding",
                      "opened", "marked", "fetching"},
            side   : Sides,
            msg    : Messages \cup {None},
            first  : BOOLEAN,           \* it found no conversation
            unread : Counts,            \* the counter it loaded
            plan   : Plans,
            loaded : Notification]

Idle == [at |-> "idle", side |-> "buyer", msg |-> None, first |-> FALSE,
         unread |-> 0, plan |-> "skip", loaded |-> Absent]

Init ==
    /\ listing      = "open"
    /\ conversation = FALSE
    /\ unread       = [s \in Sides |-> 0]
    /\ sent         = [s \in Sides |-> {}]
    /\ notification = [s \in Sides |-> Absent]
    /\ muted        = {}
    /\ blocks       = {}
    /\ request      = [r \in Requests |-> Idle]
    /\ shown        = {}
    /\ missed       = {}

-----------------------------------------------------------------------------
At(r, place)  == request[r].at = place
Sender(r)     == request[r].side
Recipient(r)  == Other(request[r].side)
Kept          == sent["buyer"] \cup sent["seller"]
Unused        == Messages \ (Kept \cup {request[r].msg : r \in Requests})
Ends(r)       == request' = [request EXCEPT ![r] = Idle]

(* The row of the conversation is written and not yet committed, or is     *)
(* inserted and not yet committed.                                         *)
RowFree(r) == \A q \in Requests \ {r} : ~At(q, "holding")
Inserting(q) == request[q].first /\ (At(q, "written") \/ At(q, "holding"))

(* The notification of s is written and not yet committed.                 *)
NotificationFree(s) ==
    \A q \in Requests : ~(At(q, "marked") /\ request[q].plan = "mark"
                                          /\ request[q].side = s)

Rows == <<conversation, unread, sent, notification, muted, blocks>>
Seen == <<shown, missed>>

-----------------------------------------------------------------------------
(* Sending.  A first message needs a published listing that takes messages,*)
(* a reply only a published one; neither side may block the other.  (Rate  *)
(* limits, and suspended or deleted accounts, only refuse.)                *)

Begin(r, s) ==
    /\ At(r, "idle") /\ blocks = {}
    /\ request' = [request EXCEPT ![r] =
           [Idle EXCEPT !.at = "checked", !.side = s,
                        !.first = ~conversation, !.unread = unread[Other(s)]]]
    /\ UNCHANGED <<listing, Seen, Rows>>

SendForListing(r) == listing = "open" /\ Begin(r, "buyer")

Reply(r, s) == conversation /\ listing # "closed" /\ Begin(r, s)

(* NotificationService.create up to its savepoint: what becomes of the     *)
(* notification, from a second look at the blocks and the row it finds.    *)
PlanFor(s) == CASE Other(s) \in muted \/ blocks # {}   -> "skip"
                [] notification[Other(s)].count > 0    -> "merge"
                [] OTHER                               -> "insert"

Write_Commits(r) ==             \* mutant: the message is committed on its own
    /\ At(r, "checked")
    /\ request[r].first => ~\E q \in Requests : Inserting(q)
    /\ IF request[r].first /\ conversation
       THEN Ends(r) /\ UNCHANGED sent
       ELSE LET s == Sender(r) IN
            \E m \in Unused :
                /\ request' = [request EXCEPT ![r] =
                    [@ EXCEPT !.at = "written", !.msg = m, !.plan = PlanFor(s),
                              !.loaded = notification[Other(s)]]]
                /\ sent' = [sent EXCEPT ![Other(s)] = @ \cup {m}]
    /\ UNCHANGED <<listing, Seen, conversation, unread, notification, muted,
                   blocks>>

(* The flushes of a new conversation, which wait for another session that  *)
(* inserts one and fail once it is there, and of the message; then what is *)
(* done in memory.                                                         *)
Write(r) ==
    /\ At(r, "checked")
    /\ request[r].first => ~\E q \in Requests : Inserting(q)
    /\ IF request[r].first /\ conversation
       THEN Ends(r)
       ELSE LET s == Sender(r) IN
            \E m \in Unused :
                request' = [request EXCEPT ![r] =
                    [@ EXCEPT !.at = "written", !.msg = m, !.plan = PlanFor(s),
                              !.loaded = notification[Other(s)]]]
    /\ UNCHANGED <<listing, Seen, Rows>>

(* The UPDATE of the conversation.  With a new notification it comes with  *)
(* the savepoint: a row another session committed meanwhile refuses the    *)
(* INSERT, and is loaded and changed instead.                              *)
TakeRow(r) ==
    /\ At(r, "written") /\ RowFree(r)
    /\ LET row == notification[Recipient(r)] IN
       request' = [request EXCEPT ![r] =
           IF request[r].plan = "insert" /\ row.count > 0
           THEN [@ EXCEPT !.at = "holding", !.plan = "merge", !.loaded = row]
           ELSE [@ EXCEPT !.at = "holding"]]
    /\ UNCHANGED <<listing, Seen, Rows>>

Merged_StaysRead(row, loaded) ==    \* mutant: the row is not reopened
    [count |-> loaded.count + 1, read |-> row.read]

Merged_Twice(row, loaded) ==        \* mutant: one event is counted twice
    [count |-> loaded.count + 2, read |-> IF loaded.read THEN FALSE ELSE row.read]

(* A change writes the columns that differ from what was loaded: read_at   *)
(* is cleared only if it was loaded set.                                   *)
Merged(row, loaded) == [count |-> loaded.count + 1,
                        read  |-> IF loaded.read THEN FALSE ELSE row.read]

Announced(r) ==
    LET row == notification[Recipient(r)] IN
    CASE request[r].plan = "merge"  -> Merged(row, request[r].loaded)
      [] request[r].plan = "insert" -> [count |-> 1, read |-> FALSE]
      [] OTHER                      -> row

(* The counter as this session knew it, plus one.                          *)
Raised(r) == [unread EXCEPT ![Recipient(r)] = request[r].unread + 1]

Commit(r) ==
    /\ At(r, "holding") /\ request[r].plan # "gone"
    /\ request[r].plan = "merge" => NotificationFree(Recipient(r))
    /\ conversation' = TRUE
    /\ sent'         = [sent EXCEPT ![Recipient(r)] = @ \cup {request[r].msg}]
    /\ unread'       = Raised(r)
    /\ notification' = [notification EXCEPT ![Recipient(r)] = Announced(r)]
    /\ Ends(r)
    /\ UNCHANGED <<listing, muted, blocks, Seen>>

(* The row to change has been deleted: the flush matches nothing and       *)
(* raises, and the message is rolled back with the rest.                   *)
CommitFails(r) ==
    /\ At(r, "holding") /\ request[r].plan = "gone"
    /\ Ends(r)
    /\ UNCHANGED <<listing, Seen, Rows>>

-----------------------------------------------------------------------------
(* Opening the conversation: get_conversation with mark_read, then a page. *)

Open(r, s) ==
    /\ At(r, "idle") /\ conversation
    /\ request' = [request EXCEPT ![r] =
           [Idle EXCEPT !.at = "opened", !.side = s, !.unread = unread[s]]]
    /\ UNCHANGED <<listing, Seen, Rows>>

(* mark_entity_read: an UPDATE of the unread row, if there is one.         *)
MarkRead(r) ==
    LET s == request[r].side
        unreadRow == notification[s].count > 0 /\ ~notification[s].read
    IN  /\ At(r, "opened")
        /\ unreadRow => NotificationFree(s)
        /\ request' = [request EXCEPT ![r] =
               [@ EXCEPT !.at = "marked",
                         !.plan = IF unreadRow THEN "mark" ELSE "skip"]]
        /\ UNCHANGED <<listing, Seen, Rows>>

Clear_Both(r) ==                \* mutant: resets the counter of either side
    LET s == request[r].side IN
    /\ At(r, "marked")
    /\ request[r].unread # 0 => RowFree(r)
    /\ unread' = IF request[r].unread = 0 THEN unread
                                          ELSE [t \in Sides |-> 0]
    /\ notification' = IF request[r].plan = "mark"
                       THEN [notification EXCEPT ![s].read = TRUE]
                       ELSE notification
    /\ request' = [request EXCEPT ![r].at = "fetching", ![r].plan = "skip"]
    /\ UNCHANGED <<listing, conversation, sent, muted, blocks, Seen>>

(* The commit; a counter that was loaded as 0 is not written.              *)
Clear(r) ==
    LET s == request[r].side IN
    /\ At(r, "marked")
    /\ request[r].unread # 0 => RowFree(r)
    /\ unread' = IF request[r].unread = 0 THEN unread
                                          ELSE [unread EXCEPT ![s] = 0]
    /\ notification' = IF request[r].plan = "mark"
                       THEN [notification EXCEPT ![s].read = TRUE]
                       ELSE notification
    /\ request' = [request EXCEPT ![r].at = "fetching", ![r].plan = "skip"]
    /\ UNCHANGED <<listing, conversation, sent, muted, blocks, Seen>>

(* get_messages: everything, if it fits on one page.                       *)
Page(page) == IF Cardinality(Kept) <= PageSize
              THEN page = Kept
              ELSE page # {} /\ Cardinality(page) <= PageSize

Shows(s, page) ==
    /\ shown'  = shown \cup (sent[s] \cap page)
    /\ missed' = missed \cup (sent[s] \ (shown \cup page))

Fetch(r) ==
    /\ At(r, "fetching")
    /\ \E page \in SUBSET Kept : Page(page) /\ Shows(request[r].side, page)
    /\ Ends(r)
    /\ UNCHANGED <<listing, Rows>>

-----------------------------------------------------------------------------
(* One committed transaction each.  A deleted notification is gone for the *)
(* sessions that have loaded it.  (A block also ends follows of the pair.) *)

Delete(S) ==
    /\ \A s \in S : NotificationFree(s)
    /\ notification' = [s \in Sides |-> IF s \in S THEN Absent
                                                   ELSE notification[s]]
    /\ request' = [r \in Requests |->
           IF request[r].plan = "merge" /\ Recipient(r) \in S
           THEN [request[r] EXCEPT !.plan = "gone"]
           ELSE request[r]]

Block_OneWay(s) ==              \* mutant: forgets what the other side received
    /\ conversation
    /\ blocks' = blocks \cup {s}
    /\ Delete({s})
    /\ UNCHANGED <<listing, conversation, unread, sent, muted, Seen>>

Block(s) ==
    /\ conversation
    /\ blocks' = blocks \cup {s}
    /\ Delete(Sides)
    /\ UNCHANGED <<listing, conversation, unread, sent, muted, Seen>>

Unblock(s) ==
    /\ conversation
    /\ blocks' = blocks \ {s}
    /\ UNCHANGED <<listing, conversation, unread, sent, notification, muted,
                   request, Seen>>

SetMuted(s, on) ==
    /\ conversation
    /\ muted' = IF on THEN muted \cup {s} ELSE muted \ {s}
    /\ UNCHANGED <<listing, conversation, unread, sent, notification, blocks,
                   request, Seen>>

(* The recipient marks the notification, or all of them, read.             *)
Dismiss(s) ==
    /\ notification[s].count > 0 /\ ~notification[s].read
    /\ NotificationFree(s)
    /\ notification' = [notification EXCEPT ![s].read = TRUE]
    /\ UNCHANGED <<listing, conversation, unread, sent, muted, blocks,
                   request, Seen>>

(* delete_old_notifications of the worker.                                 *)
Retire(s) ==
    /\ notification[s].count > 0
    /\ Delete({s})
    /\ UNCHANGED <<listing, conversation, unread, sent, muted, blocks, Seen>>

(* The life of the listing and its allow_messages.                         *)
ListingChanges ==
    /\ listing' \in {"open", "quiet", "closed"} \ {listing}
    /\ UNCHANGED <<request, Seen, Rows>>

(* A session ends early and rolls back, its process gone or the session    *)
(* chosen to break a circle of waiting ones: a sender that holds the       *)
(* conversation and waits for the notification of a reader that waits for  *)
(* the conversation.  An answer under way is lost with its messages.       *)
Abandon(r) ==
    /\ ~At(r, "idle")
    /\ Ends(r)
    /\ IF At(r, "fetching") THEN Shows(request[r].side, {}) ELSE UNCHANGED Seen
    /\ UNCHANGED <<listing, Rows>>

-----------------------------------------------------------------------------
Send(r)  == \/ SendForListing(r) \/ \E s \in Sides : Reply(r, s)
            \/ Write(r) \/ TakeRow(r) \/ Commit(r) \/ CommitFails(r)
Look(r)  == \/ \E s \in Sides : Open(r, s)
            \/ MarkRead(r) \/ Clear(r) \/ Fetch(r)
Control(s) == Block(s) \/ Unblock(s) \/ \E on \in BOOLEAN : SetMuted(s, on)

Next == \/ \E r \in Requests : Send(r) \/ Look(r) \/ Abandon(r)
        \/ \E s \in Sides : Dismiss(s) \/ Retire(s)
        \/ \E s \in Wary : Control(s)
        \/ ListingChanges

Spec == Init /\ [][Next]_vars

-----------------------------------------------------------------------------
(* The tables and the sessions hold values the code allows.                *)
TypeOK ==
    /\ listing \in {"open", "quiet", "closed"}
    /\ conversation \in BOOLEAN
    /\ unread \in [Sides -> Counts]
    /\ sent \in [Sides -> SUBSET Messages]
    /\ notification \in [Sides -> Notification]
    /\ muted \subseteq Sides /\ blocks \subseteq Sides
    /\ request \in [Requests -> Request]
    /\ shown \subseteq Messages /\ missed \subseteq Messages

(* A counter at 0 hides nothing: its side has come to every message, or    *)
(* an answer of an opening that cleared the counter is on its way          *)
(* (message_service.py:55-81, 161-167).                                    *)
NoneHidden ==
    \A s \in Sides :
        /\ unread[s] = 0
        /\ \A r \in Requests : ~(At(r, "fetching") /\ request[r].side = s)
        => sent[s] \subseteq shown \cup missed

(* The badge counts the messages that came since its side last opened the  *)
(* conversation (message_service.py:70-80, 162-167).                       *)
CountsAreExact ==
    \A s \in Sides :
        (\A r \in Requests : ~At(r, "fetching"))
        => unread[s] = Cardinality(sent[s] \ (shown \cup missed))

(* docs/conversation-safety.md: a block suppresses the notifications of    *)
(* the pair and "makes messaging unavailable in both directions"; what was *)
(* there is deleted (conversation_safety_service.py:124-150).              *)
BlockedAreSilent ==
    blocks # {} => \A s \in Sides : notification[s] = Absent
=============================================================================
