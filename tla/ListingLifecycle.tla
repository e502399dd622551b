-------------------------- MODULE ListingLifecycle --------------------------
(***************************************************************************)
(* The life of the listings of one seller, from the first draft to the     *)
(* archive, as the HTTP handlers and the background worker change it.      *)
(*                                                                         *)
(* A handler opens a database session, reads the listing without a lock,   *)
(* tests the status it read, assigns to the object and commits.  Between   *)
(* the read and the commit any other session may commit.  PostgreSQL runs  *)
(* at READ COMMITTED, and the ORM writes only the columns whose new value  *)
(* differs from the value the session READ (Merge).  So an operation has   *)
(* two steps here: Load copies the row into the session, and the operation *)
(* itself tests the copy and merges its changes into the current row.      *)
(*                                                                         *)
(* publish_draft and update_draft read the row with SELECT ... FOR UPDATE  *)
(* and are one step.                                                       *)
(***************************************************************************)
EXTENDS Naturals

CONSTANTS
    Listings,       \* ids of the seller's listings
    Requests,       \* database sessions that serve HTTP requests
    Worker,         \* the session of the single background worker
    ReviewMode,     \* settings.listing_review_mode
    Lifetime,       \* listing_lifetime_days, also the 60 days of a renewal
    Retention,      \* DRAFT_RETENTION_DAYS
    MaxTime,        \* bound: the clock stops here
    NULL            \* the SQL null of a date column

ASSUME LifecycleAssumption ==
    /\ Worker \notin Requests
    /\ ReviewMode \in {"manual", "auto"}
    /\ Lifetime \in Nat /\ Retention \in Nat /\ MaxTime \in Nat
    /\ NULL \notin Nat

VARIABLES
    row,            \* the table listings
    referenced,     \* listings a row of another table points to
    task,           \* what each session is doing
    loaded,         \* the listings each session has read
    snap,           \* the values it read
    suspended,      \* the seller's account is suspended
    now,            \* the wall clock
    renewed         \* history: listings their owner has renewed

vars == <<row, referenced, task, loaded, snap, suspended, now, renewed>>

-----------------------------------------------------------------------------
(* Rows.  "unborn" is an id no row has had yet, "gone" that of a deleted   *)
(* row.  reserved_at is abstracted to 0 (null), 1 or 2: all the ORM asks   *)
(* of it is whether the value assigned differs from the value read.        *)

Public == {"active", "reserved"}
Absent == {"unborn", "gone"}
Status == Public \cup Absent \cup
            {"draft", "pending_review", "rejected", "sold", "archived"}

Row == [status         : Status,
        reserved_at    : 0..2,
        approved       : BOOLEAN,           \* approved_at is not null
        expires_at     : Nat \cup {NULL},
        draft_saved_at : Nat \cup {NULL}]

Unborn == [status |-> "unborn", reserved_at |-> 0, approved |-> FALSE,
           expires_at |-> NULL, draft_saved_at |-> NULL]

Exists(l)   == row[l].status \notin Absent
Expired_ActiveOnly(l) ==                 \* mutant: reserved listings are missed
    /\ row[l].status \in {"active", "pending_review"}
    /\ row[l].expires_at # NULL
    /\ row[l].expires_at < now

Expired(l)  == /\ row[l].status \in Public \cup {"pending_review"}
               /\ row[l].expires_at # NULL
               /\ row[l].expires_at < now
Forgotten(l) == /\ row[l].status = "draft"
                /\ row[l].draft_saved_at # NULL
                /\ row[l].draft_saved_at + Retention < now

Sessions == Requests \cup {Worker}
Tasks    == {"idle", "owner", "admin", "suspend", "fingerprint",
             "archive_expired", "delete_stale_drafts"}

(* What the flush of a dirty object does to the current row: a column is   *)
(* written when the value assigned differs from the value loaded.          *)
Column(cur, old, new) == IF new = old THEN cur ELSE new

Merge(cur, old, new) ==
    [status         |-> Column(cur.status, old.status, new.status),
     reserved_at    |-> Column(cur.reserved_at, old.reserved_at, new.reserved_at),
     approved       |-> Column(cur.approved, old.approved, new.approved),
     expires_at     |-> Column(cur.expires_at, old.expires_at, new.expires_at),
     draft_saved_at |-> Column(cur.draft_saved_at, old.draft_saved_at,
                               new.draft_saved_at)]

-----------------------------------------------------------------------------
Init ==
    /\ row        = [l \in Listings |-> Unborn]
    /\ referenced = {}
    /\ task       = [s \in Sessions |-> "idle"]
    /\ loaded     = [s \in Sessions |-> {}]
    /\ snap       = [s \in Sessions |-> [l \in Listings |-> Unborn]]
    /\ suspended  = FALSE
    /\ now        = 0
    /\ renewed    = {}

MayStart(s) == task[s] = "idle"

(* The session goes on as task as, with the listings ls in its identity    *)
(* map and the values seen for them.                                       *)
Hold(s, as, ls, seen) ==
    /\ task'   = [task EXCEPT ![s] = as]
    /\ loaded' = [loaded EXCEPT ![s] = ls]
    /\ snap'   = [snap EXCEPT ![s] = seen]

Nothing == [l \in Listings |-> Unborn]

Read(s, as, ls) ==
    Hold(s, as, ls, [l \in Listings |-> IF l \in ls THEN row[l] ELSE Unborn])

Close(s)             == Hold(s, "idle", {}, Nothing)
ToFingerprint(s, ls) == Hold(s, "fingerprint", ls, Nothing)

(* Commit of the objects new of session s.  An UPDATE that matches no row  *)
(* raises StaleDataError and nothing is committed.                         *)
Commit(s, new) ==
    /\ \A l \in loaded[s] : Exists(l)
    /\ row' = [l \in Listings |-> IF l \in loaded[s]
                                  THEN Merge(row[l], snap[s][l], new[l])
                                  ELSE row[l]]

(* DELETE by primary key of the loaded objects: a row that is already gone *)
(* is only a warning, a row another table points to fails the transaction. *)
CommitDelete(s) ==
    /\ loaded[s] \cap referenced = {}
    /\ row' = [l \in Listings |-> IF l \in loaded[s]
                                  THEN [row[l] EXCEPT !.status = "gone"]
                                  ELSE row[l]]

-----------------------------------------------------------------------------
(* The seller starts a listing.                                            *)

Published_NoExpiry(r) ==                 \* mutant: publishing sets no expiry date
    [r EXCEPT !.status         = IF ReviewMode = "auto" THEN "active"
                                                        ELSE "pending_review",
              !.approved       = (ReviewMode = "auto"),
              !.draft_saved_at = NULL]

Published(r) ==
    [r EXCEPT !.status         = IF ReviewMode = "auto" THEN "active"
                                                        ELSE "pending_review",
              !.approved       = (ReviewMode = "auto"),
              !.expires_at     = now + Lifetime,
              !.draft_saved_at = NULL]

(* The new row is committed first; the duplicate fingerprint is written by *)
(* a second transaction of the same session (Fingerprint).                 *)
Create(s, l) ==
    /\ MayStart(s) /\ ~suspended
    /\ row[l].status = "unborn"
    /\ row' = [row EXCEPT ![l] = Published(Unborn)]
    /\ ToFingerprint(s, {l})
    /\ UNCHANGED <<referenced, suspended, now, renewed>>

CreateDraft(s, l) ==
    /\ MayStart(s) /\ ~suspended
    /\ row[l].status = "unborn"
    /\ row' = [row EXCEPT ![l].status = "draft", ![l].draft_saved_at = now]
    /\ UNCHANGED <<task, loaded, snap, referenced, suspended, now, renewed>>

(* Locked: the row is read again under FOR UPDATE before the status test.  *)
UpdateDraft(s, l) ==
    /\ MayStart(s) /\ ~suspended
    /\ row[l].status = "draft"
    /\ row' = [row EXCEPT ![l].draft_saved_at = now]
    /\ UNCHANGED <<task, loaded, snap, referenced, suspended, now, renewed>>

PublishDraft(s, l) ==
    /\ MayStart(s) /\ ~suspended
    /\ row[l].status = "draft"
    /\ row' = [row EXCEPT ![l] = Published(row[l])]
    /\ ToFingerprint(s, {l})
    /\ UNCHANGED <<referenced, suspended, now, renewed>>

(* fingerprint_listing inserts a row that references the listing.          *)
Fingerprint(s) ==
    /\ task[s] = "fingerprint"
    /\ \A l \in loaded[s] : Exists(l)
    /\ referenced' = referenced \cup loaded[s]
    /\ Close(s)
    /\ UNCHANGED <<row, suspended, now, renewed>>

(* A favourite, a conversation, a report or a promotion order of a buyer.  *)
Engage(l) ==
    /\ row[l].status \in Public
    /\ referenced' = referenced \cup {l}
    /\ UNCHANGED <<row, task, loaded, snap, suspended, now, renewed>>

-----------------------------------------------------------------------------
(* Requests on one existing listing.  A suspended seller is refused by the *)
(* authentication dependency, before the listing is read.                  *)

Load(s, l, role) ==
    /\ s # Worker /\ MayStart(s) /\ Exists(l)
    /\ role = "owner" => ~suspended
    /\ Read(s, role, {l})
    /\ UNCHANGED <<row, referenced, suspended, now, renewed>>

(* The request ends without an effect: its test of the status fails, it is *)
(* refused, it fails, or its process dies before the commit.               *)
Abandon(s) ==
    /\ task[s] # "idle"
    /\ Close(s)
    /\ UNCHANGED <<row, referenced, suspended, now, renewed>>

Off(r, status) == [r EXCEPT !.status = status, !.reserved_at = 0]

(* Session s, in one of these roles, commits new over the listing it read. *)
Save(s, roles, l, new, next) ==
    /\ task[s] \in roles /\ l \in loaded[s]
    /\ Commit(s, [snap[s] EXCEPT ![l] = new])
    /\ IF next = "idle" THEN Close(s) ELSE ToFingerprint(s, loaded[s])
    /\ UNCHANGED <<referenced, suspended, now>>

Either == {"owner", "admin"}

(* A major edit of the owner sends a public listing back to review; an     *)
(* administrator's edit, or one of a hidden listing, keeps the status.     *)
Update(s, l) ==
    LET r == snap[s][l] IN
    /\ r.status # "draft"
    /\ Save(s, Either, l,
            IF task[s] = "owner" /\ r.status \in Public
            THEN Off(r, "pending_review") ELSE r, "fingerprint")
    /\ UNCHANGED renewed

AddImage_KeepsReservation(s, l) ==       \* mutant: only the status is reset
    LET r == snap[s][l] IN
    /\ Save(s, Either, l,
            CASE r.status \in Public -> [r EXCEPT !.status = "pending_review"]
              [] r.status = "draft"  -> [r EXCEPT !.draft_saved_at = now]
              [] OTHER               -> r,
            IF r.status = "draft" THEN "idle" ELSE "fingerprint")
    /\ UNCHANGED renewed

AddImage(s, l) ==
    LET r == snap[s][l] IN
    /\ Save(s, Either, l,
            CASE r.status \in Public -> Off(r, "pending_review")
              [] r.status = "draft"  -> [r EXCEPT !.draft_saved_at = now]
              [] OTHER               -> r,
            IF r.status = "draft" THEN "idle" ELSE "fingerprint")
    /\ UNCHANGED renewed

(* delete_image, set_cover_image and reorder_images, seen from the row.    *)
TouchImages(s, l) ==
    LET r == snap[s][l] IN
    /\ r.status = "draft"
    /\ Save(s, Either, l, [r EXCEPT !.draft_saved_at = now], "idle")
    /\ UNCHANGED renewed

MarkSold(s, l) ==
    LET r == snap[s][l] IN
    /\ r.status \in Public
    /\ Save(s, Either, l, Off(r, "sold"), "idle")
    /\ UNCHANGED renewed

Reserve(s, l) ==
    LET r == snap[s][l] IN
    /\ r.status = "active"
    /\ Save(s, Either, l,
            [r EXCEPT !.status = "reserved",
                      !.reserved_at = IF r.reserved_at = 1 THEN 2 ELSE 1],
            "idle")
    /\ UNCHANGED renewed

Unreserve_AnyStatus(s, l) ==             \* mutant: the status is not tested
    LET r == snap[s][l] IN
    /\ Save(s, Either, l, Off(r, "active"), "idle")
    /\ UNCHANGED renewed

Unreserve(s, l) ==
    LET r == snap[s][l] IN
    /\ r.status = "reserved"
    /\ Save(s, Either, l, Off(r, "active"), "idle")
    /\ UNCHANGED renewed

Archive_Deletes(s, l) ==                 \* mutant: DELETE sets the unused status
    LET r == snap[s][l] IN
    /\ r.status # "draft"
    /\ Save(s, Either, l, Off(r, "deleted"), "idle")
    /\ UNCHANGED renewed

Archive(s, l) ==
    LET r == snap[s][l] IN
    /\ r.status # "draft"
    /\ Save(s, Either, l, Off(r, "archived"), "idle")
    /\ UNCHANGED renewed

Renew_SoldToo(s, l) ==                   \* mutant: a sold listing can be renewed
    LET r == snap[s][l] IN
    /\ r.status \notin {"reserved", "draft", "pending_review"}
    /\ Save(s, {"owner"}, l,
            [r EXCEPT !.status = "active", !.expires_at = now + Lifetime],
            "idle")
    /\ renewed' = renewed \cup {l}

(* Only the owner renews; active, archived and rejected listings pass.     *)
Renew(s, l) ==
    LET r == snap[s][l] IN
    /\ r.status \notin {"reserved", "sold", "draft", "pending_review"}
    /\ Save(s, {"owner"}, l,
            [r EXCEPT !.status = "active", !.expires_at = now + Lifetime],
            "idle")
    /\ renewed' = renewed \cup {l}

(* delete_draft tests the status it read without a lock.                   *)
DeleteDraft(s, l) ==
    /\ task[s] \in Either /\ loaded[s] = {l}
    /\ snap[s][l].status = "draft"
    /\ CommitDelete(s)
    /\ Close(s)
    /\ UNCHANGED <<referenced, suspended, now, renewed>>

-----------------------------------------------------------------------------
(* Moderation.                                                             *)

Approve(s, l) ==
    LET r == snap[s][l] IN
    /\ r.status \notin Public \cup {"draft"}
    /\ Save(s, {"admin"}, l,
            [r EXCEPT !.status = "active", !.approved = TRUE], "idle")
    /\ UNCHANGED renewed

Reject_BackToDraft(s, l) ==              \* mutant: rejection reopens the draft
    LET r == snap[s][l] IN
    /\ r.status # "draft"
    /\ Save(s, {"admin"}, l, [r EXCEPT !.status = "draft"], "idle")
    /\ UNCHANGED renewed

(* Unlike every other exit from the public states, this one leaves the     *)
(* reservation columns alone.                                              *)
Reject(s, l) ==
    LET r == snap[s][l] IN
    /\ r.status # "draft"
    /\ Save(s, {"admin"}, l, [r EXCEPT !.status = "rejected"], "idle")
    /\ UNCHANGED renewed

(* suspend_user reads the seller's public listings, then commits the       *)
(* account status and the archived listings together.                      *)
StartSuspend(s) ==
    /\ s # Worker /\ MayStart(s)
    /\ Read(s, "suspend", {l \in Listings : row[l].status \in Public})
    /\ UNCHANGED <<row, referenced, suspended, now, renewed>>

ArchiveLoaded(s) == Commit(s, [l \in Listings |-> Off(snap[s][l], "archived")])

Suspend(s) ==
    /\ task[s] = "suspend"
    /\ ArchiveLoaded(s)
    /\ suspended' = TRUE
    /\ Close(s)
    /\ UNCHANGED <<referenced, now, renewed>>

Unsuspend(s) ==
    /\ s # Worker /\ MayStart(s)
    /\ suspended /\ suspended' = FALSE
    /\ UNCHANGED <<row, referenced, task, loaded, snap, now, renewed>>

-----------------------------------------------------------------------------
(* The worker runs its tasks one after the other, each in its own session; *)
(* an exception is logged and the task's transaction rolled back (Abandon).*)

StartArchiveExpired ==
    LET due == {l \in Listings : Expired(l)} IN
    /\ MayStart(Worker) /\ due # {}
    /\ Read(Worker, "archive_expired", due)
    /\ UNCHANGED <<row, referenced, suspended, now, renewed>>

ArchiveExpired ==
    /\ task[Worker] = "archive_expired"
    /\ ArchiveLoaded(Worker)
    /\ Close(Worker)
    /\ UNCHANGED <<referenced, suspended, now, renewed>>

StartDeleteStale ==
    LET old == {l \in Listings : Forgotten(l)} IN
    /\ MayStart(Worker) /\ old # {}
    /\ Read(Worker, "delete_stale_drafts", old)
    /\ UNCHANGED <<row, referenced, suspended, now, renewed>>

DeleteStale ==
    /\ task[Worker] = "delete_stale_drafts"
    /\ CommitDelete(Worker)
    /\ Close(Worker)
    /\ UNCHANGED <<referenced, suspended, now, renewed>>

Tick ==
    /\ now < MaxTime
    /\ now' = now + 1
    /\ UNCHANGED <<row, referenced, task, loaded, snap, suspended, renewed>>

-----------------------------------------------------------------------------
Publishing(s, l) == \/ Create(s, l) \/ CreateDraft(s, l)
                    \/ UpdateDraft(s, l) \/ PublishDraft(s, l)

Handling(s, l) == \/ Update(s, l) \/ AddImage(s, l) \/ TouchImages(s, l)
                  \/ MarkSold(s, l) \/ Reserve(s, l) \/ Unreserve(s, l)
                  \/ Archive(s, l) \/ Renew(s, l) \/ DeleteDraft(s, l)
                  \/ Approve(s, l) \/ Reject(s, l)

Request(s) == \/ \E l \in Listings :
                   \/ Publishing(s, l)
                   \/ \E role \in Either : Load(s, l, role)
                   \/ Handling(s, l)
              \/ Fingerprint(s) \/ StartSuspend(s) \/ Suspend(s) \/ Unsuspend(s)
              \/ Abandon(s)

WorkerStep == \/ StartArchiveExpired \/ ArchiveExpired
              \/ StartDeleteStale    \/ DeleteStale
              \/ Abandon(Worker)

Next == \/ \E s \in Requests : Request(s)
        \/ WorkerStep
        \/ \E l \in Listings : Engage(l)
        \/ Tick

Spec == Init /\ [][Next]_vars

(* The worker loops for ever: a task it has begun ends, each task comes    *)
(* round again, and archive_expired does not fail in every single cycle.   *)
Fairness ==
    /\ WF_vars(task[Worker] # "idle" /\ WorkerStep)
    /\ SF_vars(StartArchiveExpired)
    /\ SF_vars(ArchiveExpired)

FairSpec == Spec /\ Fairness

-----------------------------------------------------------------------------
(* The table, the sessions and the clock hold the values the columns and   *)
(* the code allow.                                                         *)
TypeOK ==
    /\ row        \in [Listings -> Row]
    /\ referenced \in SUBSET Listings
    /\ task       \in [Sessions -> Tasks]
    /\ loaded     \in [Sessions -> SUBSET Listings]
    /\ snap       \in [Sessions -> [Listings -> Row]]
    /\ suspended  \in BOOLEAN
    /\ now        \in Nat
    /\ renewed    \in SUBSET Listings

(* Every listing that has been published has an expiry date, whatever      *)
(* sessions raced on it: archive_expired_listings selects on a date that   *)
(* is not null, so a public listing without one would never leave the site.*)
PublishedExpires ==
    \A l \in Listings : row[l].status \notin Absent \cup {"draft"}
                            => row[l].expires_at # NULL

(* Under manual review a listing is public only when a moderator approved  *)
(* it at some time or its owner renewed it: stale sessions that put back a *)
(* status they read earlier cannot publish an unreviewed listing.          *)
Cleared(l) == row[l].approved \/ l \in renewed

ManualReview ==
    ReviewMode = "manual" =>
        \A l \in Listings : row[l].status \in Public => Cleared(l)

(* What a session read may be stale, but never in the direction that would *)
(* let its commit undo a publication, an approval or an expiry date: these *)
(* only ever move forward in the table.                                    *)
StaleIsBehind ==
    \A s \in Sessions : \A l \in loaded[s] :
        LET r == snap[s][l] IN
        /\ row[l].status # "unborn"
        /\ r.approved => row[l].approved
        /\ r.status \notin Absent \cup {"draft"}
              => row[l].status # "draft" /\ r.expires_at # NULL
        /\ ReviewMode = "manual" /\ r.status \in Public => Cleared(l)

(* A published listing never becomes a draft again, also when an image     *)
(* request or an autosave that read it as a draft commits later.           *)
NeverDraftAgain ==
    [][\A l \in Listings : row[l].status \notin {"unborn", "draft"}
                              => row[l].status' # "draft"]_vars

(* docs/listing-handoff-options.md:32: "A reservation is cleared when a    *)
(* listing is sold, archived, suspended with its seller, expires, or is    *)
(* sent back to moderation".                                               *)
ReservationCleared ==
    \A l \in Listings : row[l].status \in {"sold", "archived", "pending_review"}
                            => row[l].reserved_at = 0

(* What a step does to one listing: it is put on the site, it is deleted.  *)
Shows(l)   == row[l].status \notin Public /\ row[l].status' \in Public
Deletes(l) == row[l].status # "gone" /\ row[l].status' = "gone"
Approving  == \E s \in Requests, l \in Listings : Approve(s, l)

(* The worker takes every expired public listing off the site.             *)
ExpiredIsArchived ==
    \A l \in Listings :
        LET Overdue == /\ row[l].status \in Public
                       /\ row[l].expires_at # NULL /\ row[l].expires_at < now
        IN  Overdue ~> ~Overdue
=============================================================================
