----------------------- MODULE ListingLifecycle_proofs -----------------------
(* Proofs about ListingLifecycle for every set of listings and requests,   *)
(* every lifetime and both review modes, with overlapping sessions.        *)
EXTENDS MCListingLifecycle, TLAPS

(* A draft has not been approved.  A session that may still write has read *)
(* rows that existed, and a sweep no drafts.                               *)
DraftsUnapproved ==
    \A l \in Listings : row[l].status \in {"unborn", "draft"} => ~row[l].approved

WritersReadRows ==
    \A s \in Sessions : \A l \in loaded[s] :
        /\ task[s] # "fingerprint" => snap[s][l].status \notin Absent
        /\ task[s] \in {"suspend", "archive_expired"} => snap[s][l].status # "draft"

(* The inductive invariant: PublishedExpires and ManualReview speak of the *)
(* table only, so they need StaleIsBehind about what sessions will write.  *)
IInv == /\ TypeOK /\ PublishedExpires /\ ManualReview /\ StaleIsBehind
        /\ DraftsUnapproved /\ WritersReadRows

(* What an operation may do to the object it read as old: it does not set  *)
(* the status to draft or to an absence, it keeps or sets an approval and  *)
(* an expiry date, it changes the status of a published object only, and   *)
(* publishes only what was cleared.  C is "cleared" for the listing.       *)
Lawful(old, new, C) ==
    /\ new \in Row
    /\ new.approved # old.approved =>
          new.approved = TRUE /\ old.status # "draft"
    /\ new.expires_at # old.expires_at => new.expires_at \in Nat
    /\ new.status # old.status =>
          /\ old.status # "draft"
          /\ new.status \notin Absent \cup {"draft"}
          /\ new.status \in Public /\ ReviewMode = "manual" => C \/ new.approved

LEMMA MergeType ==
    ASSUME NEW cur \in Row, NEW old \in Row, NEW new \in Row
    PROVE  Merge(cur, old, new) \in Row
  BY DEF Merge, Column, Row

(* A lawful write to an existing row keeps it what StaleIsBehind and the   *)
(* table invariants need, although the session that writes is stale.       *)
LEMMA MergeLawful ==
    ASSUME LifecycleAssumption,
           NEW cur \in Row, NEW old \in Row, NEW new \in Row,
           NEW l, NEW R, NEW R2, R \subseteq R2,      \* renewed, before and after
           cur.status \notin Absent,
           Lawful(old, new, cur.approved \/ l \in R2),
           old.approved => cur.approved,
           old.status \notin Absent,
           old.status # "draft" => cur.status # "draft",
           cur.status # "draft" => cur.expires_at # NULL,
           cur.status = "draft" => ~cur.approved,
           ReviewMode = "manual" /\ cur.status \in Public => cur.approved \/ l \in R
    PROVE  LET m == Merge(cur, old, new) IN
           /\ m.status \notin Absent
           /\ cur.approved => m.approved
           /\ cur.status # "draft" => m.status # "draft"
           /\ m.status # "draft" => m.expires_at # NULL
           /\ m.status = "draft" => ~m.approved
           /\ ReviewMode = "manual" /\ m.status \in Public => m.approved \/ l \in R2
<1>1. \/ /\ new.status = old.status
         /\ Merge(cur, old, new).status = cur.status
      \/ /\ new.status # old.status
         /\ Merge(cur, old, new).status = new.status
  BY DEF Merge, Column
<1>2. \/ Merge(cur, old, new).expires_at = cur.expires_at
      \/ Merge(cur, old, new).expires_at \in Nat
  BY DEF Merge, Column, Lawful
<1>3. \/ Merge(cur, old, new).approved = cur.approved
      \/ /\ Merge(cur, old, new).approved = TRUE
         /\ old.status # "draft"
  BY DEF Merge, Column, Lawful
<1>4. new.approved => Merge(cur, old, new).approved
  BY DEF Merge, Column, Row
<1> QED
  BY <1>1, <1>2, <1>3, <1>4 DEF Lawful, LifecycleAssumption

(* After a step each session still holds a listing it held before, or      *)
(* holds a row that exists without having read it: every action that       *)
(* writes to the table.                                                    *)
Forgets == \A t \in Sessions : \A l \in loaded'[t] :
              \/ l \in loaded[t] /\ snap'[t][l] = snap[t][l]
              \/ row'[l].status # "unborn" /\ snap'[t][l] = Unborn

(* A row the other sessions may have read moves forward only.              *)
Forward(old, new) ==
    /\ new.status # "unborn"
    /\ old.approved => new.approved
    /\ old.status # "draft" => new.status # "draft"

RowsForward == \A l \in Listings :
    row'[l] = row[l] \/ row[l].status = "unborn" \/ Forward(row[l], row'[l])

(* The three table invariants of one row, with "cleared" as C.             *)
Sound(r, C) ==
    /\ r.status \notin Absent \cup {"draft"} => r.expires_at # NULL
    /\ r.status \in {"unborn", "draft"} => ~r.approved
    /\ ReviewMode = "manual" /\ r.status \in Public => r.approved \/ C

(* A step that moves rows forward, keeps them sound and loads nothing      *)
(* keeps the invariants about what was read.                               *)
LEMMA ForwardStep ==
    ASSUME LifecycleAssumption, IInv, TypeOK',
           renewed \subseteq renewed', Forgets,
           \A l \in Listings :
              /\ row'[l] = row[l] \/ (row[l].status = "unborn" \/ Forward(row[l], row'[l]))
              /\ Sound(row'[l], l \in renewed'),
           \A l \in Listings : row'[l].status = "unborn" => row[l].status = "unborn"
    PROVE  PublishedExpires' /\ ManualReview' /\ DraftsUnapproved' /\ StaleIsBehind'
<1>1. PublishedExpires' /\ ManualReview' /\ DraftsUnapproved'
  BY DEF PublishedExpires, ManualReview, DraftsUnapproved, Sound, Cleared
<1>2. StaleIsBehind'
  <2> SUFFICES ASSUME NEW s \in Sessions, NEW l \in loaded'[s]
               PROVE  LET r == snap'[s][l] IN
                      /\ row'[l].status # "unborn"
                      /\ r.approved => row'[l].approved
                      /\ r.status \notin Absent \cup {"draft"}
                            => row'[l].status # "draft" /\ r.expires_at # NULL
                      /\ ReviewMode = "manual" /\ r.status \in Public
                            => row'[l].approved \/ l \in renewed'
    BY DEF StaleIsBehind, Cleared
  <2>1. l \in Listings
    BY DEF TypeOK
  <2>2. ASSUME l \in loaded[s]
        PROVE
        /\ row[l].status # "unborn"
        /\ snap[s][l].approved => row[l].approved
        /\ snap[s][l].status \notin Absent \cup {"draft"}
              => row[l].status # "draft" /\ snap[s][l].expires_at # NULL
        /\ ReviewMode = "manual" /\ snap[s][l].status \in Public
              => row[l].approved \/ l \in renewed
    BY <2>1, <2>2 DEF IInv, StaleIsBehind, Cleared
  <2>3. CASE l \in loaded[s] /\ snap'[s][l] = snap[s][l]
    <3>1. /\ row'[l].status # "unborn"
          /\ row[l].approved => row'[l].approved
          /\ row[l].status # "draft" => row'[l].status # "draft"
      BY <2>1, <2>2, <2>3 DEF Forward
    <3> QED  BY <2>2, <2>3, <3>1
  <2>4. CASE row'[l].status # "unborn" /\ snap'[s][l] = Unborn
    BY <2>1, <2>4 DEF Unborn, Absent, Public
  <2> QED  BY <2>3, <2>4 DEF Forgets
<1> QED  BY <1>1, <1>2

(* The commit of a stale session, for any lawful change of what it read.   *)
LEMMA CommitStep ==
    ASSUME LifecycleAssumption, IInv, NEW s \in Sessions,
           NEW new \in [Listings -> Row], Commit(s, new),
           task[s] # "fingerprint", renewed \subseteq renewed',
           \A l \in loaded[s] : Lawful(snap[s][l], new[l], row[l].approved \/ l \in renewed')
    PROVE  /\ row' \in [Listings -> Row]
           /\ \A l \in Listings :
                 /\ row'[l] = row[l] \/ Forward(row[l], row'[l])
                 /\ Sound(row'[l], l \in renewed')
                 /\ row'[l].status = "unborn" => row[l].status = "unborn"
<1>1. /\ row \in [Listings -> Row]
      /\ snap[s] \in [Listings -> Row]
      /\ loaded[s] \subseteq Listings
  BY DEF IInv, TypeOK
<1>2. row' \in [Listings -> Row]
  BY <1>1, MergeType DEF Commit
<1>3. ASSUME NEW l \in Listings
      PROVE  /\ row'[l] = row[l] \/ Forward(row[l], row'[l])
             /\ Sound(row'[l], l \in renewed')
             /\ row'[l].status = "unborn" => row[l].status = "unborn"
  <2>0. Sound(row[l], l \in renewed)
    BY DEF IInv, Sound, PublishedExpires, ManualReview, DraftsUnapproved, Cleared
  <2>1. CASE l \notin loaded[s]
    <3>1. row'[l] = row[l]  BY <2>1 DEF Commit
    <3> QED  BY <3>1, <2>0 DEF Sound
  <2>2. CASE l \in loaded[s]
    <3>1. row'[l] = Merge(row[l], snap[s][l], new[l]) /\ row[l].status \notin Absent
      BY <2>2 DEF Commit, Exists
    <3>2. /\ snap[s][l].status \notin Absent
          /\ snap[s][l].approved => row[l].approved
          /\ snap[s][l].status # "draft" => row[l].status # "draft"
      BY <2>2, <1>3 DEF IInv, StaleIsBehind, WritersReadRows
    <3>3. /\ row[l] \in Row /\ snap[s][l] \in Row /\ new[l] \in Row
      BY <1>1
    <3>4. Lawful(snap[s][l], new[l], row[l].approved \/ l \in renewed')
      BY <2>2
    <3>5. /\ row[l].status # "draft" => row[l].expires_at # NULL
          /\ row[l].status = "draft" => ~row[l].approved
          /\ ReviewMode = "manual" /\ row[l].status \in Public
                => row[l].approved \/ l \in renewed
      BY <2>0, <3>1 DEF Sound
    <3> DEFINE m == Merge(row[l], snap[s][l], new[l])
    <3>6. /\ m.status \notin Absent
          /\ row[l].approved => m.approved
          /\ row[l].status # "draft" => m.status # "draft"
          /\ m.status # "draft" => m.expires_at # NULL
          /\ m.status = "draft" => ~m.approved
          /\ ReviewMode = "manual" /\ m.status \in Public => m.approved \/ l \in renewed'
      <4> HIDE DEF m
      <4> QED  BY <3>1, <3>2, <3>3, <3>4, <3>5, MergeLawful DEF m
    <3> HIDE DEF m
    <3>7. row'[l] = m  BY <3>1 DEF m
    <3> QED  BY <3>6, <3>7 DEF Forward, Sound, Absent
  <2> QED  BY <2>1, <2>2
<1> QED  BY <1>2, <1>3

-----------------------------------------------------------------------------
LEMMA UnbornType == Unborn \in Row
  BY DEF Unborn, Row, Status, Absent

LEMMA OffType ==
    ASSUME NEW r \in Row, NEW st \in Status
    PROVE  /\ Off(r, st) \in Row
           /\ Off(r, st).status = st
           /\ Off(r, st).approved = r.approved
           /\ Off(r, st).expires_at = r.expires_at
<1>1. 0 \in 0..2
  OBVIOUS
<1> QED  BY <1>1 DEF Off, Row

(* A session that reads existing rows, or closes (ls = {}), while the      *)
(* table stays as it is.                                                   *)
LEMMA ReadKeeps ==
    ASSUME IInv, NEW s \in Sessions, NEW as \in Tasks, NEW ls \in SUBSET Listings,
           \A l \in ls : /\ Exists(l)
                         /\ as \in {"suspend", "archive_expired"}
                               => row[l].status # "draft",
           Read(s, as, ls),
           referenced' \in SUBSET Listings,
           UNCHANGED <<row, suspended, now, renewed>>
    PROVE  IInv' /\ RowsForward
<1>1. TypeOK'
  BY UnbornType DEF IInv, TypeOK, Read, Hold
<1>2. PublishedExpires' /\ ManualReview' /\ DraftsUnapproved'
  BY DEF IInv, PublishedExpires, ManualReview, DraftsUnapproved, Cleared
<1>3. ASSUME NEW t \in Sessions, NEW l \in loaded'[t]
      PROVE  \/ l \in loaded[t] /\ snap'[t][l] = snap[t][l] /\ task'[t] = task[t]
             \/ /\ l \in Listings /\ l \in ls /\ snap'[t][l] = row[l]
                /\ task'[t] = as
  <2>1. CASE t = s
    BY <1>3, <2>1 DEF Read, Hold, IInv, TypeOK
  <2>2. CASE t # s
    BY <1>3, <2>2 DEF Read, Hold, IInv, TypeOK
  <2> QED  BY <2>1, <2>2
<1>4. StaleIsBehind' /\ WritersReadRows'
  <2> SUFFICES ASSUME NEW t \in Sessions, NEW l \in loaded'[t]
               PROVE  LET r == snap'[t][l] IN
                      /\ row[l].status # "unborn"
                      /\ r.approved => row[l].approved
                      /\ r.status \notin Absent \cup {"draft"}
                            => row[l].status # "draft" /\ r.expires_at # NULL
                      /\ ReviewMode = "manual" /\ r.status \in Public
                            => row[l].approved \/ l \in renewed
                      /\ task'[t] # "fingerprint" => r.status \notin Absent
                      /\ task'[t] \in {"suspend", "archive_expired"}
                            => r.status # "draft"
    BY DEF StaleIsBehind, WritersReadRows, Cleared
  <2>1. CASE l \in loaded[t] /\ snap'[t][l] = snap[t][l] /\ task'[t] = task[t]
    BY <2>1 DEF IInv, StaleIsBehind, WritersReadRows, Cleared
  <2>2. CASE l \in Listings /\ l \in ls /\ snap'[t][l] = row[l] /\ task'[t] = as
    BY <2>2 DEF IInv, PublishedExpires, ManualReview, Cleared, Exists, Absent
  <2> QED  BY <1>3, <2>1, <2>2
<1> QED  BY <1>1, <1>2, <1>4 DEF IInv, RowsForward

(* A session that ends, or goes on to write the fingerprint of ls.         *)
LEMMA HoldNothing ==
    ASSUME IInv, NEW s \in Sessions, NEW as \in {"idle", "fingerprint"},
           NEW ls \in SUBSET Listings, as = "idle" => ls = {},
           \A l \in ls : row'[l].status # "unborn",
           Hold(s, as, ls, Nothing)
    PROVE  /\ Forgets /\ WritersReadRows'
           /\ task' \in [Sessions -> Tasks]
           /\ loaded' \in [Sessions -> SUBSET Listings]
           /\ snap' \in [Sessions -> [Listings -> Row]]
<1>1. ASSUME NEW t \in Sessions
      PROVE  /\ t = s => task'[t] = as /\ loaded'[t] = ls /\ snap'[t] = Nothing
             /\ t # s => /\ task'[t] = task[t] /\ loaded'[t] = loaded[t]
                        /\ snap'[t] = snap[t]
  BY DEF Hold, IInv, TypeOK
<1>2. Forgets
  BY <1>1, ZenonT(60) DEF Forgets, Nothing
<1>3. WritersReadRows'
  <2>1. ASSUME NEW t \in Sessions, NEW l \in loaded'[t]
        PROVE  /\ task'[t] # "fingerprint" => snap'[t][l].status \notin Absent
               /\ task'[t] \in {"suspend", "archive_expired"}
                     => snap'[t][l].status # "draft"
    <3>1. CASE t = s
      BY <1>1, <3>1
    <3>2. CASE t # s
      <4>1. WritersReadRows
        BY DEF IInv
      <4>2. task'[t] = task[t] /\ loaded'[t] = loaded[t] /\ snap'[t] = snap[t]
        BY <1>1, <3>2
      <4> QED  BY <4>1, <4>2 DEF WritersReadRows
    <3> QED  BY <3>1, <3>2
  <2> QED  BY <2>1 DEF WritersReadRows
<1>4. Nothing \in [Listings -> Row] /\ as \in Tasks
  BY UnbornType DEF Nothing, Tasks
<1>5. /\ task' \in [Sessions -> Tasks]
      /\ loaded' \in [Sessions -> SUBSET Listings]
      /\ snap' \in [Sessions -> [Listings -> Row]]
  BY <1>4 DEF Hold, IInv, TypeOK
<1> QED  BY <1>2, <1>3, <1>5

(* Every handler that loads one listing and saves it.                      *)
LEMMA SaveKeeps ==
    ASSUME LifecycleAssumption, IInv, NEW s \in Sessions, NEW roles,
           "fingerprint" \notin roles,
           NEW l \in Listings, NEW new \in Row, NEW next \in {"idle", "fingerprint"},
           Save(s, roles, l, new, next),
           renewed \subseteq renewed', renewed' \in SUBSET Listings,
           Lawful(snap[s][l], new, row[l].approved \/ l \in renewed')
    PROVE  IInv' /\ RowsForward
<1> DEFINE News == [snap[s] EXCEPT ![l] = new]
<1>1. snap[s] \in [Listings -> Row] /\ loaded[s] \in SUBSET Listings
  BY DEF IInv, TypeOK
<1>2. News \in [Listings -> Row] /\ Commit(s, News) /\ task[s] # "fingerprint"
  BY <1>1 DEF Save
<1>3. ASSUME NEW k \in loaded[s]
      PROVE  Lawful(snap[s][k], News[k], row[k].approved \/ k \in renewed')
  <2>1. CASE k = l
    BY <1>1, <2>1
  <2>2. CASE k # l
    BY <1>1, <2>2 DEF Lawful
  <2> QED  BY <2>1, <2>2
<1>4. /\ row' \in [Listings -> Row]
      /\ \A k \in Listings :
            /\ row'[k] = row[k] \/ Forward(row[k], row'[k])
            /\ Sound(row'[k], k \in renewed')
            /\ row'[k].status = "unborn" => row[k].status = "unborn"
  <2> HIDE DEF News
  <2> QED  BY <1>2, <1>3, CommitStep
<1>5. /\ Forgets /\ WritersReadRows'
      /\ task' \in [Sessions -> Tasks]
      /\ loaded' \in [Sessions -> SUBSET Listings]
      /\ snap' \in [Sessions -> [Listings -> Row]]
  <2>1. CASE next = "idle"
    BY <2>1, HoldNothing DEF Save, Close
  <2>2. CASE next = "fingerprint"
    <3>1. \A k \in loaded[s] : row'[k].status # "unborn"
      BY <1>1, <1>4 DEF IInv, StaleIsBehind
    <3>2. Hold(s, "fingerprint", loaded[s], Nothing)
      BY <2>2 DEF Save, ToFingerprint
    <3> QED  BY <1>1, <3>1, <3>2, HoldNothing
  <2> QED  BY <2>1, <2>2
<1>6. TypeOK'
  BY <1>4, <1>5 DEF Save, IInv, TypeOK
<1>7. PublishedExpires' /\ ManualReview' /\ DraftsUnapproved' /\ StaleIsBehind'
  BY <1>4, <1>5, <1>6, ForwardStep
<1>8. RowsForward
  BY <1>4 DEF RowsForward
<1> QED  BY <1>5, <1>6, <1>7, <1>8 DEF IInv

-----------------------------------------------------------------------------
(* The inserts and the operations that lock: they change one row no stale  *)
(* copy of which can do harm.                                              *)
LEMMA PublishingKeeps ==
    ASSUME LifecycleAssumption, IInv, NEW s \in Sessions, NEW l \in Listings,
           Publishing(s, l)
    PROVE  IInv' /\ RowsForward
<1>1. PICK new \in Row :
         /\ row' = [row EXCEPT ![l] = new]
         /\ row[l].status \in {"unborn", "draft"}
         /\ new.status \in {"draft", "active", "pending_review"}
         /\ new.status = "draft" => new.approved = row[l].approved
         /\ new.status # "draft" => new.expires_at \in Nat
         /\ new.status = "active" => new.approved
  <2>1. row[l] \in Row /\ now \in Nat /\ Unborn \in Row
    BY UnbornType DEF IInv, TypeOK
  <2>2. CASE Create(s, l) \/ PublishDraft(s, l)
    <3>1. ASSUME NEW r \in Row
          PROVE  /\ Published(r) \in Row
                 /\ Published(r).status \in {"active", "pending_review"}
                 /\ Published(r).expires_at \in Nat
                 /\ Published(r).status = "active" => Published(r).approved
      <4>1. now + Lifetime \in Nat
        BY <2>1 DEF LifecycleAssumption
      <4>2. CASE ReviewMode = "auto"
        <5>1. Published(r) = [r EXCEPT !.status = "active", !.approved = TRUE,
                                       !.expires_at = now + Lifetime,
                                       !.draft_saved_at = NULL]
          BY <4>2 DEF Published
        <5> QED  BY <4>1, <5>1 DEF Row, Status, Public
      <4>3. CASE ReviewMode # "auto"
        <5>1. Published(r) = [r EXCEPT !.status = "pending_review", !.approved = FALSE,
                                       !.expires_at = now + Lifetime,
                                       !.draft_saved_at = NULL]
          BY <4>3 DEF Published
        <5> QED  BY <4>1, <5>1 DEF Row, Status, Public
      <4> QED  BY <4>2, <4>3
    <3> QED  BY <2>1, <2>2, <3>1 DEF Create, PublishDraft
  <2>3. CASE CreateDraft(s, l) \/ UpdateDraft(s, l)
    <3>1. row' = [row EXCEPT ![l] = [row[l] EXCEPT !.status = "draft",
                                                   !.draft_saved_at = now]]
      <4>1. CASE CreateDraft(s, l)
        BY <2>1, <4>1 DEF CreateDraft, Row, IInv, TypeOK
      <4>2. CASE UpdateDraft(s, l)
        <5>1. row[l].status = "draft" /\ row[l] \in Row
          BY <2>1, <4>2 DEF UpdateDraft
        <5>2. row' = [row EXCEPT ![l].draft_saved_at = now]
          BY <4>2 DEF UpdateDraft
        <5>3. [row[l] EXCEPT !.status = "draft", !.draft_saved_at = now]
                = [row[l] EXCEPT !.draft_saved_at = now]
          BY <5>1 DEF Row
        <5> QED  BY <5>2, <5>3
      <4> QED  BY <2>3, <4>1, <4>2
    <3>2. [row[l] EXCEPT !.status = "draft", !.draft_saved_at = now] \in Row
      BY <2>1 DEF Row, Status
    <3> QED  BY <2>1, <2>3, <3>1, <3>2 DEF CreateDraft, UpdateDraft, Row
  <2> QED  BY <2>2, <2>3 DEF Publishing
<1>2. row' \in [Listings -> Row] /\ row'[l] = new
      /\ \A k \in Listings \ {l} : row'[k] = row[k]
  BY <1>1 DEF IInv, TypeOK
<1>3. UNCHANGED <<referenced, suspended, now, renewed>>
  BY DEF Publishing, Create, PublishDraft, CreateDraft, UpdateDraft
<1>4. /\ Forgets /\ WritersReadRows'
      /\ task' \in [Sessions -> Tasks]
      /\ loaded' \in [Sessions -> SUBSET Listings]
      /\ snap' \in [Sessions -> [Listings -> Row]]
  <2>1. CASE Create(s, l) \/ PublishDraft(s, l)
    <3>1. Hold(s, "fingerprint", {l}, Nothing)
      BY <2>1 DEF Create, PublishDraft, ToFingerprint
    <3>2. row'[l].status # "unborn"
      BY <1>1, <1>2
    <3> QED  BY <3>1, <3>2, HoldNothing
  <2>2. CASE CreateDraft(s, l) \/ UpdateDraft(s, l)
    <3>1. UNCHANGED <<task, loaded, snap>>
      BY <2>2 DEF CreateDraft, UpdateDraft
    <3> QED  BY <3>1 DEF Forgets, WritersReadRows, IInv, TypeOK
  <2> QED  BY <2>1, <2>2 DEF Publishing
<1>5. TypeOK'
  BY <1>2, <1>3, <1>4 DEF IInv, TypeOK
<1>6. \A k \in Listings : Sound(row[k], k \in renewed)
  BY DEF IInv, Sound, PublishedExpires, ManualReview, DraftsUnapproved, Cleared
<1>7. row[l].status \in {"unborn", "draft"} => ~row[l].approved
  BY DEF IInv, DraftsUnapproved
<1>8. \A k \in Listings :
         /\ row'[k] = row[k] \/ row[k].status = "unborn" \/ Forward(row[k], row'[k])
         /\ Sound(row'[k], k \in renewed')
         /\ row'[k].status = "unborn" => row[k].status = "unborn"
  <2>1. /\ row[l].status = "unborn" \/ Forward(row[l], row'[l])
        /\ Sound(row'[l], l \in renewed')
        /\ row'[l].status # "unborn"
    BY <1>1, <1>2, <1>7 DEF Forward, Sound, LifecycleAssumption, Absent, Public
  <2> QED  BY <1>2, <1>3, <1>6, <2>1
<1>9. PublishedExpires' /\ ManualReview' /\ DraftsUnapproved' /\ StaleIsBehind'
  BY <1>3, <1>4, <1>5, <1>8, ForwardStep
<1>10. RowsForward
  BY <1>8 DEF RowsForward
<1> QED  BY <1>4, <1>5, <1>9, <1>10 DEF IInv

(* DELETE by primary key: the rows go, no session learns of it.            *)
LEMMA DeleteKeeps ==
    ASSUME LifecycleAssumption, IInv, NEW s \in Sessions, CommitDelete(s), Close(s),
           UNCHANGED <<referenced, suspended, now, renewed>>
    PROVE  IInv' /\ RowsForward
<1>1. /\ Forgets /\ WritersReadRows'
      /\ task' \in [Sessions -> Tasks]
      /\ loaded' \in [Sessions -> SUBSET Listings]
      /\ snap' \in [Sessions -> [Listings -> Row]]
  BY HoldNothing DEF Close
<1>2. ASSUME NEW l \in Listings
      PROVE  /\ row'[l] \in Row
             /\ row'[l] = row[l] \/ Forward(row[l], row'[l])
             /\ Sound(row'[l], l \in renewed')
             /\ row'[l].status = "unborn" => row[l].status = "unborn"
  <2>1. row[l] \in Row /\ Sound(row[l], l \in renewed)
    BY DEF IInv, TypeOK, Sound, PublishedExpires, ManualReview, DraftsUnapproved, Cleared
  <2>2. CASE row'[l] = row[l]
    BY <2>1, <2>2 DEF Sound
  <2>3. CASE row'[l] = [row[l] EXCEPT !.status = "gone"]
    <3>1. /\ row'[l] \in Row /\ row'[l].status = "gone"
          /\ row'[l].approved = row[l].approved
      BY <2>1, <2>3 DEF Row, Status, Absent
    <3> QED  BY <2>1, <3>1 DEF Forward, Sound, Absent, Public
  <2> QED  BY <2>2, <2>3 DEF CommitDelete
<1>3. row' \in [Listings -> Row]
  BY <1>2 DEF CommitDelete
<1>4. TypeOK'
  BY <1>1, <1>3 DEF IInv, TypeOK
<1>5. PublishedExpires' /\ ManualReview' /\ DraftsUnapproved' /\ StaleIsBehind'
  BY <1>1, <1>2, <1>4, ForwardStep
<1>6. RowsForward
  BY <1>2 DEF RowsForward
<1> QED  BY <1>1, <1>4, <1>5, <1>6 DEF IInv

(* suspend_user and archive_expired_listings.                              *)
LEMMA SweepKeeps ==
    ASSUME LifecycleAssumption, IInv, NEW s \in Sessions,
           ArchiveLoaded(s), Close(s),
           task[s] \in {"suspend", "archive_expired"},
           suspended' \in BOOLEAN, UNCHANGED <<referenced, now, renewed>>
    PROVE  IInv' /\ RowsForward
<1> DEFINE News == [l \in Listings |-> Off(snap[s][l], "archived")]
<1>1. snap[s] \in [Listings -> Row] /\ loaded[s] \in SUBSET Listings
  BY DEF IInv, TypeOK
<1>2. ASSUME NEW r \in Row
      PROVE  /\ Off(r, "archived") \in Row
             /\ r.status # "draft" => \A C : Lawful(r, Off(r, "archived"), C)
  <2>1. /\ "archived" \in Status
        /\ "archived" \notin Public /\ "archived" \notin Absent \cup {"draft"}
    BY DEF Status, Public, Absent
  <2> QED  BY <2>1, OffType DEF Lawful
<1>3. News \in [Listings -> Row]
  BY <1>1, <1>2
<1>4. \A l \in loaded[s] : snap[s][l].status # "draft"
  BY DEF IInv, WritersReadRows
<1>5. \A l \in loaded[s] :
         Lawful(snap[s][l], News[l], row[l].approved \/ l \in renewed')
  BY <1>1, <1>2, <1>4
<1>6. Commit(s, News)
  BY DEF ArchiveLoaded
<1> HIDE DEF News
<1>7. /\ row' \in [Listings -> Row]
      /\ \A k \in Listings :
            /\ row'[k] = row[k] \/ Forward(row[k], row'[k])
            /\ Sound(row'[k], k \in renewed')
            /\ row'[k].status = "unborn" => row[k].status = "unborn"
  BY <1>3, <1>5, <1>6, CommitStep
<1>8. /\ Forgets /\ WritersReadRows'
      /\ task' \in [Sessions -> Tasks]
      /\ loaded' \in [Sessions -> SUBSET Listings]
      /\ snap' \in [Sessions -> [Listings -> Row]]
  BY HoldNothing DEF Close
<1>9. TypeOK'
  BY <1>7, <1>8 DEF IInv, TypeOK
<1>10. PublishedExpires' /\ ManualReview' /\ DraftsUnapproved' /\ StaleIsBehind'
  BY <1>7, <1>8, <1>9, ForwardStep
<1>11. RowsForward
  BY <1>7 DEF RowsForward
<1> QED  BY <1>8, <1>9, <1>10, <1>11 DEF IInv

LEMMA HandlingKeeps ==
    ASSUME LifecycleAssumption, IInv, NEW s \in Sessions, NEW l \in Listings,
           Handling(s, l), renewed' \in SUBSET Listings
    PROVE  IInv' /\ RowsForward
<1> DEFINE r == snap[s][l]
           C == row[l].approved \/ l \in renewed'
<1>1. /\ r \in Row /\ now \in Nat
      /\ row[l] \in Row /\ row[l].approved \in BOOLEAN
  BY DEF IInv, TypeOK, Row
<1>2. renewed \subseteq renewed'
  BY DEF Handling, Update, AddImage, TouchImages, MarkSold, Reserve, Unreserve,
         Archive, Renew, DeleteDraft, Approve, Reject
<1>3. l \in loaded[s] => (ReviewMode = "manual" /\ r.status \in Public => C)
  BY <1>2 DEF IInv, StaleIsBehind, Cleared
<1>4. ASSUME NEW st \in Status \ (Public \cup Absent \cup {"draft"})
      PROVE  /\ Off(r, st) \in Row
             /\ r.status # "draft" => Lawful(r, Off(r, st), C)
  BY <1>1, OffType DEF Lawful
<1>5. Lawful(r, r, C)
  BY <1>1 DEF Lawful
<1>6. /\ [r EXCEPT !.draft_saved_at = now] \in Row
      /\ Lawful(r, [r EXCEPT !.draft_saved_at = now], C)
  BY <1>1 DEF Lawful, Row
<1>7. {"pending_review", "sold", "archived", "rejected"}
         \subseteq Status \ (Public \cup Absent \cup {"draft"})
  BY DEF Status, Public, Absent
<1>8. r.status \in Public => r.status # "draft"
  BY DEF Public
<1> HIDE DEF r, C
<1>a. CASE Update(s, l)
  <2>1. PICK new \in {r, Off(r, "pending_review")} :
           /\ Save(s, Either, l, new, "fingerprint")
           /\ new # r => r.status \in Public
    BY <1>a DEF Update, r
  <2>2. new \in Row /\ Lawful(r, new, C)
    BY <2>1, <1>1, <1>4, <1>5, <1>7, <1>8
  <2> QED  BY <1>2, <2>1, <2>2, SaveKeeps DEF Either, r, C
<1>b. CASE AddImage(s, l)
  <2> DEFINE next == IF r.status = "draft" THEN "idle" ELSE "fingerprint"
  <2>1. CASE r.status \in Public
    <3>1. Save(s, Either, l, Off(r, "pending_review"), next)
      BY <1>b, <2>1, <1>8 DEF AddImage, r
    <3> QED  BY <1>2, <1>4, <1>7, <1>8, <2>1, <3>1, SaveKeeps DEF Either, r, C
  <2>2. CASE r.status = "draft"
    <3>1. Save(s, Either, l, [r EXCEPT !.draft_saved_at = now], next)
      BY <1>b, <2>2, <1>8 DEF AddImage, r
    <3> QED  BY <1>2, <1>6, <3>1, SaveKeeps DEF Either, r, C
  <2>3. CASE r.status \notin Public \cup {"draft"}
    <3>1. Save(s, Either, l, r, next)
      BY <1>b, <2>3 DEF AddImage, r
    <3> QED  BY <1>1, <1>2, <1>5, <3>1, SaveKeeps DEF Either, r, C
  <2> QED  BY <2>1, <2>2, <2>3
<1>c. CASE TouchImages(s, l)
  BY <1>c, <1>2, <1>6, SaveKeeps DEF TouchImages, Either, r, C
<1>d. CASE MarkSold(s, l)
  <2>1. Off(r, "sold") \in Row /\ Lawful(r, Off(r, "sold"), C)
    BY <1>d, <1>4, <1>7, <1>8 DEF MarkSold, r
  <2> QED  BY <1>d, <1>2, <2>1, SaveKeeps DEF MarkSold, Either, r, C
<1>e. CASE Reserve(s, l)
  <2> DEFINE new == [r EXCEPT !.status = "reserved",
                              !.reserved_at = IF r.reserved_at = 1 THEN 2 ELSE 1]
  <2>1. r.status = "active" /\ Save(s, Either, l, new, "idle")
    BY <1>e DEF Reserve, r
  <2>2. C \/ ReviewMode # "manual"
    BY <1>3, <2>1 DEF Save, Public
  <2>3. /\ new \in Row /\ new.status = "reserved"
        /\ new.approved = r.approved /\ new.expires_at = r.expires_at
    <3>1. "reserved" \in Status /\ 1 \in 0..2 /\ 2 \in 0..2
      BY DEF Status, Public
    <3> QED  BY <1>1, <3>1 DEF Row
  <2> HIDE DEF new
  <2>4. Lawful(r, new, C)
    BY <2>1, <2>2, <2>3 DEF Lawful, Absent
  <2> QED  BY <1>2, <2>1, <2>3, <2>4, SaveKeeps DEF Either, r, C
<1>f. CASE Unreserve(s, l)
  <2>1. r.status = "reserved" /\ Save(s, Either, l, Off(r, "active"), "idle")
    BY <1>f DEF Unreserve, r
  <2>2. C \/ ReviewMode # "manual"
    BY <1>3, <2>1 DEF Save, Public
  <2> DEFINE new == Off(r, "active")
  <2>3. /\ new \in Row /\ new.status = "active"
        /\ new.approved = r.approved /\ new.expires_at = r.expires_at
    <3>1. "active" \in Status
      BY DEF Status, Public
    <3> QED  BY <1>1, <3>1, OffType
  <2> HIDE DEF new
  <2>4. Lawful(r, new, C)
    BY <2>1, <2>2, <2>3 DEF Lawful, Absent
  <2> QED  BY <1>2, <2>1, <2>3, <2>4, SaveKeeps DEF new, Either, r, C
<1>g. CASE Archive(s, l)
  <2>1. Off(r, "archived") \in Row /\ Lawful(r, Off(r, "archived"), C)
    BY <1>g, <1>4, <1>7 DEF Archive, r
  <2> QED  BY <1>g, <1>2, <2>1, SaveKeeps DEF Archive, Either, r, C
<1>h. CASE Renew(s, l)
  <2> DEFINE new == [r EXCEPT !.status = "active", !.expires_at = now + Lifetime]
  <2>1. /\ r.status # "draft" /\ l \in renewed'
        /\ Save(s, {"owner"}, l, new, "idle")
    BY <1>h DEF Renew, r
  <2>2. now + Lifetime \in Nat
    BY <1>1 DEF LifecycleAssumption
  <2>3. new \in Row /\ Lawful(r, new, C)
    BY <1>1, <2>1, <2>2 DEF Lawful, Row, Status, Public, Absent, C
  <2> HIDE DEF new
  <2> QED  BY <1>2, <2>1, <2>3, SaveKeeps DEF r, C
<1>i. CASE Approve(s, l)
  <2> DEFINE new == [r EXCEPT !.status = "active", !.approved = TRUE]
  <2>1. r.status # "draft" /\ Save(s, {"admin"}, l, new, "idle")
    BY <1>i DEF Approve, r
  <2>2. new \in Row /\ Lawful(r, new, C)
    BY <1>1, <2>1 DEF Lawful, Row, Status, Public, Absent
  <2> HIDE DEF new
  <2> QED  BY <1>2, <2>1, <2>2, SaveKeeps DEF r, C
<1>j. CASE Reject(s, l)
  <2> DEFINE new == [r EXCEPT !.status = "rejected"]
  <2>1. r.status # "draft" /\ Save(s, {"admin"}, l, new, "idle")
    BY <1>j DEF Reject, r
  <2>2. new \in Row /\ Lawful(r, new, C)
    BY <1>1, <2>1 DEF Lawful, Row, Status, Public, Absent
  <2> HIDE DEF new
  <2> QED  BY <1>2, <2>1, <2>2, SaveKeeps DEF r, C
<1>k. CASE DeleteDraft(s, l)
  BY <1>k, DeleteKeeps DEF DeleteDraft
<1> QED
  BY <1>a, <1>b, <1>c, <1>d, <1>e, <1>f, <1>g, <1>h, <1>i, <1>j, <1>k DEF Handling

-----------------------------------------------------------------------------
LEMMA InitIInv == LifecycleAssumption /\ Init => IInv
<1> SUFFICES ASSUME LifecycleAssumption, Init  PROVE  IInv
  OBVIOUS
<1>1. TypeOK
  BY UnbornType DEF Init, TypeOK, Tasks
<1>2. PublishedExpires /\ ManualReview /\ DraftsUnapproved
  BY DEF Init, Unborn, PublishedExpires, ManualReview, DraftsUnapproved, Absent, Public
<1>3. StaleIsBehind /\ WritersReadRows
  BY DEF Init, StaleIsBehind, WritersReadRows
<1> QED  BY <1>1, <1>2, <1>3 DEF IInv

LEMMA NextIInv == LifecycleAssumption /\ IInv /\ [Next]_vars => IInv' /\ RowsForward
<1> SUFFICES ASSUME LifecycleAssumption, IInv, [Next]_vars  PROVE  IInv' /\ RowsForward
  OBVIOUS
<1>0. {"idle", "owner", "admin", "suspend", "archive_expired", "delete_stale_drafts"}
         \subseteq Tasks
  BY DEF Tasks
<1>p. IInv /\ UNCHANGED <<row, task, loaded, snap, renewed>> =>
         PublishedExpires' /\ ManualReview' /\ StaleIsBehind' /\ DraftsUnapproved'
            /\ WritersReadRows'
  BY DEF IInv, PublishedExpires, ManualReview, StaleIsBehind, DraftsUnapproved,
         WritersReadRows, Cleared
<1>w. Worker \in Sessions  BY DEF Sessions
<1>1. CASE UNCHANGED vars
  BY <1>1, <1>p DEF vars, IInv, TypeOK, RowsForward
<1>2. CASE \/ Tick \/ \E l \in Listings : Engage(l)
           \/ \E s \in Requests : Unsuspend(s)
  <2>1. TypeOK'
    <3>1. now' \in Nat /\ suspended' \in BOOLEAN /\ referenced' \in SUBSET Listings
      <4>1. now \in Nat /\ suspended \in BOOLEAN /\ referenced \in SUBSET Listings
        BY DEF IInv, TypeOK
      <4>2. CASE Tick
        BY <4>1, <4>2 DEF Tick
      <4>3. CASE \E l \in Listings : Engage(l)
        BY <4>1, <4>3 DEF Engage
      <4>4. CASE \E s \in Requests : Unsuspend(s)
        BY <4>1, <4>4 DEF Unsuspend
      <4> QED  BY <1>2, <4>2, <4>3, <4>4
    <3>2. UNCHANGED <<row, task, loaded, snap, renewed>>
      BY <1>2 DEF Tick, Engage, Unsuspend
    <3> QED  BY <3>1, <3>2 DEF IInv, TypeOK
  <2>2. UNCHANGED <<row, task, loaded, snap, renewed>>
    BY <1>2 DEF Tick, Engage, Unsuspend
  <2> QED  BY <1>p, <2>1, <2>2 DEF IInv, RowsForward
<1>3. ASSUME NEW s \in Sessions, Abandon(s) \/ Fingerprint(s)
      PROVE  IInv' /\ RowsForward
  <2>1. /\ Hold(s, "idle", {}, Nothing) /\ UNCHANGED <<row, suspended, now, renewed>>
        /\ referenced' \in SUBSET Listings
    BY <1>3 DEF Abandon, Fingerprint, Close, IInv, TypeOK
  <2>2. Read(s, "idle", {})
    BY <2>1 DEF Read, Nothing
  <2> QED  BY <1>0, <2>1, <2>2, ReadKeeps
<1>4. ASSUME NEW s \in Requests, NEW l \in Listings,
             Publishing(s, l) \/ (\E role \in Either : Load(s, l, role)) \/ Handling(s, l)
      PROVE  IInv' /\ RowsForward
  <2>0. s \in Sessions  BY DEF Sessions
  <2>1. CASE Publishing(s, l)
    BY <2>0, <2>1, PublishingKeeps
  <2>2. CASE \E role \in Either : Load(s, l, role)
    <3>1. PICK role \in {"owner", "admin"} : Load(s, l, role)
      BY <2>2 DEF Either
    <3>2. /\ Read(s, role, {l}) /\ Exists(l) /\ role \in Tasks
          /\ UNCHANGED <<row, referenced, suspended, now, renewed>>
      BY <1>0, <3>1 DEF Load
    <3> QED  BY <2>0, <3>2, ReadKeeps DEF IInv, TypeOK
  <2>3. CASE Handling(s, l)
    <3>1. renewed' \in SUBSET Listings
      BY <2>3 DEF Handling, Update, AddImage, TouchImages, MarkSold, Reserve,
                  Unreserve, Archive, Renew, DeleteDraft, Approve, Reject, IInv, TypeOK
    <3> QED  BY <2>0, <2>3, <3>1, HandlingKeeps
  <2> QED  BY <1>4, <2>1, <2>2, <2>3
<1>5. ASSUME NEW s \in Requests, StartSuspend(s)
      PROVE  IInv' /\ RowsForward
  <2>1. /\ Read(s, "suspend", {l \in Listings : row[l].status \in Public})
        /\ UNCHANGED <<row, referenced, suspended, now, renewed>>
    BY <1>5 DEF StartSuspend
  <2>2. \A l \in Listings : row[l].status \in Public
                               => Exists(l) /\ row[l].status # "draft"
    BY DEF Exists, Public, Absent
  <2> QED  BY <1>0, <2>1, <2>2, ReadKeeps DEF IInv, TypeOK, Sessions
<1>6. ASSUME NEW s \in Requests, Suspend(s)
      PROVE  IInv' /\ RowsForward
  BY <1>6, SweepKeeps DEF Suspend, Sessions
<1>7. CASE StartArchiveExpired
  <2>1. /\ Read(Worker, "archive_expired", {l \in Listings : Expired(l)})
        /\ UNCHANGED <<row, referenced, suspended, now, renewed>>
    BY <1>7 DEF StartArchiveExpired
  <2>2. \A l \in Listings : Expired(l) => Exists(l) /\ row[l].status # "draft"
    BY DEF Expired, Exists, Public, Absent
  <2> QED  BY <1>0, <1>w, <2>1, <2>2, ReadKeeps DEF IInv, TypeOK
<1>8. CASE ArchiveExpired
  BY <1>8, <1>w, SweepKeeps DEF ArchiveExpired, IInv, TypeOK
<1>9. CASE StartDeleteStale
  <2>1. /\ Read(Worker, "delete_stale_drafts", {l \in Listings : Forgotten(l)})
        /\ UNCHANGED <<row, referenced, suspended, now, renewed>>
    BY <1>9 DEF StartDeleteStale
  <2>2. \A l \in Listings : Forgotten(l) => Exists(l)
    BY DEF Forgotten, Exists, Absent
  <2> QED  BY <1>0, <1>w, <2>1, <2>2, ReadKeeps DEF IInv, TypeOK
<1>10. CASE DeleteStale
  BY <1>10, <1>w, DeleteKeeps DEF DeleteStale
<1> QED
  BY <1>1, <1>2, <1>3, <1>4, <1>5, <1>6, <1>7, <1>8, <1>9, <1>10, <1>w
     DEF Next, Request, WorkerStep, Sessions

(* The invariants of the table hold in every reachable state: whatever     *)
(* sessions overlap, a published listing has an expiry date, a listing is  *)
(* public under manual review only if cleared, and no session has read     *)
(* anything from "the future" of its row.                                  *)
THEOREM Safety ==
    Spec => [](TypeOK /\ PublishedExpires /\ ManualReview /\ StaleIsBehind)
<1>1. Spec => []IInv
  BY InitIInv, NextIInv, LifecycleAssumption, PTL DEF Spec
<1>2. IInv => TypeOK /\ PublishedExpires /\ ManualReview /\ StaleIsBehind
  BY DEF IInv
<1> QED  BY <1>1, <1>2, PTL

(* No step turns a published or deleted listing back into a draft.         *)
THEOREM DraftsStayPublished == Spec => NeverDraftAgain
<1> DEFINE Step == \A l \in Listings : row[l].status \notin {"unborn", "draft"}
                                         => row[l].status' # "draft"
<1>1. IInv /\ [Next]_vars => [Step]_vars
  BY NextIInv, LifecycleAssumption DEF RowsForward, Forward
<1>2. Spec => []IInv
  BY InitIInv, NextIInv, LifecycleAssumption, PTL DEF Spec
<1> QED  BY <1>1, <1>2, PTL DEF Spec, NeverDraftAgain

-----------------------------------------------------------------------------
(* What holds while sessions do not overlap.  One session at most is in    *)
(* the middle of an operation; what it read is still so; an owner at work  *)
(* is not suspended; only a listing on the site, or one that was rejected  *)
(* or deleted on it, may keep a reservation.                               *)
OneBusy == \A s, t \in Sessions : task[s] # "idle" /\ task[t] # "idle" => s = t

FreshIn(s) ==
    /\ task[s] \notin {"idle", "fingerprint"} => \A l \in loaded[s] : snap[s][l] = row[l]
    /\ task[s] = "owner" => ~suspended
    /\ task[s] = "delete_stale_drafts" => \A l \in loaded[s] : row[l].status = "draft"

OffSite == {"sold", "archived", "pending_review", "unborn", "draft"}
ReservedOnSite ==
    \A l \in Listings : row[l].status \in OffSite => row[l].reserved_at = 0

SessionsCalm == OneBusy /\ \A s \in Sessions : FreshIn(s)
Calm == SessionsCalm /\ ReservedOnSite

(* What a step may do to the listings.                                     *)
Kept == \A l \in Listings :
    /\ Deletes(l) => row[l].status = "draft"
    /\ Shows(l) /\ (suspended \/ row[l].status = "sold") => Approving

LEMMA MergeFresh ==
    ASSUME NEW cur \in Row, NEW new \in Row
    PROVE  Merge(cur, cur, new) = new
  BY DEF Merge, Column, Row

(* A session that begins, goes on or ends without overlapping another is   *)
(* alone, so that what it reads now is all that matters.                   *)
LEMMA HoldCalm ==
    ASSUME IInv, ~Racing, NEW s \in Sessions, NEW as, NEW ls, NEW seen,
           Hold(s, as, ls, seen), as # task[s],
           as \notin {"idle", "fingerprint"} => \A l \in ls : seen[l] = row'[l],
           as = "owner" => ~suspended',
           as = "delete_stale_drafts" => \A l \in ls : row'[l].status = "draft"
    PROVE  SessionsCalm'
<1>1. /\ task'[s] = as /\ loaded'[s] = ls /\ snap'[s] = seen
      /\ \A t \in Sessions \ {s} : task'[t] = task[t]
  BY DEF Hold, IInv, TypeOK
<1>2. task' # task
  BY <1>1
<1>3. \A t \in Sessions \ {s} : task'[t] = "idle"
  BY <1>1, <1>2 DEF Racing
<1>4. OneBusy'
  BY <1>3 DEF OneBusy
<1>5. ASSUME NEW t \in Sessions PROVE FreshIn(t)'
  BY <1>1, <1>3 DEF FreshIn
<1> QED  BY <1>4, <1>5 DEF SessionsCalm

(* A step that changes one row, or none.                                   *)
LEMMA RowCalm ==
    ASSUME IInv, ReservedOnSite, NEW l \in Listings, NEW new \in Row,
           row' = [row EXCEPT ![l] = new],
           new.status \in OffSite => new.reserved_at = 0,
           new.status # "gone",
           new.status \in Public =>
              row[l].status \in Public \/ (~suspended /\ row[l].status # "sold") \/ Approving
    PROVE  ReservedOnSite' /\ Kept
<1>1. row'[l] = new /\ \A k \in Listings \ {l} : row'[k] = row[k]
  BY DEF IInv, TypeOK
<1>2. ReservedOnSite'
  BY <1>1 DEF ReservedOnSite
<1>3. ASSUME NEW k \in Listings
      PROVE  /\ Deletes(k) => row[k].status = "draft"
             /\ Shows(k) /\ (suspended \/ row[k].status = "sold") => Approving
  BY <1>1 DEF Deletes, Shows
<1> QED  BY <1>2, <1>3 DEF Kept

LEMMA SameRowsCalm ==
    ASSUME ReservedOnSite, row' = row
    PROVE  ReservedOnSite' /\ Kept
  BY DEF ReservedOnSite, Kept, Deletes, Shows

(* A fresh session saves exactly what its handler assigned.                *)
LEMMA SaveCalm ==
    ASSUME IInv, Calm, ~Racing, NEW s \in Sessions, NEW roles, roles \subseteq Either,
           NEW l \in Listings, NEW new \in Row, NEW next \in {"idle", "fingerprint"},
           Save(s, roles, l, new, next)
    PROVE  /\ row' = [row EXCEPT ![l] = new]
           /\ snap[s][l] = row[l] /\ task[s] \in roles
           /\ task[s] = "owner" => ~suspended
           /\ SessionsCalm'
<1> DEFINE News == [snap[s] EXCEPT ![l] = new]
<1>1. /\ task[s] \in roles /\ l \in loaded[s] /\ Commit(s, News)
      /\ task[s] \notin {"idle", "fingerprint"}
  BY DEF Save, Either
<1>2. /\ snap[s] \in [Listings -> Row] /\ loaded[s] \subseteq Listings
      /\ row \in [Listings -> Row]
  BY DEF IInv, TypeOK
<1>3. \A k \in loaded[s] : snap[s][k] = row[k]
  BY <1>1 DEF Calm, SessionsCalm, FreshIn
<1>4. ASSUME NEW k \in Listings
      PROVE  row'[k] = IF k = l THEN new ELSE row[k]
  <2>1. CASE k \notin loaded[s]
    BY <1>1, <2>1 DEF Commit
  <2>2. CASE k \in loaded[s]
    <3>1. row'[k] = Merge(row[k], row[k], News[k])
      BY <1>1, <1>3, <2>2 DEF Commit
    <3>2. News[k] = IF k = l THEN new ELSE row[k]
      BY <1>2, <1>3, <2>2
    <3> QED  BY <1>2, <3>1, <3>2, MergeFresh
  <2> QED  BY <2>1, <2>2
<1>5. row' = [row EXCEPT ![l] = new]
  <2>1. row' = [k \in Listings |-> row'[k]]
    BY <1>1 DEF Commit
  <2> QED  BY <1>2, <1>4, <2>1
<1>6. SessionsCalm'
  <2>1. CASE next = "idle"
    <3>1. Hold(s, "idle", {}, Nothing)
      BY <2>1 DEF Save, Close
    <3> QED  BY <1>1, <3>1, HoldCalm
  <2>2. CASE next = "fingerprint"
    <3>1. Hold(s, "fingerprint", loaded[s], Nothing)
      BY <2>2 DEF Save, ToFingerprint
    <3> QED  BY <1>1, <3>1, HoldCalm
  <2> QED  BY <2>1, <2>2
<1>7. task[s] = "owner" => ~suspended
  BY DEF Calm, SessionsCalm, FreshIn
<1> QED  BY <1>1, <1>3, <1>5, <1>6, <1>7

(* Each handler: its reservation goes with the listing's place on the      *)
(* site, and nothing but a renewal or an approval brings a listing there.  *)
LEMMA HandlingCalm ==
    ASSUME IInv, Calm, ~Racing, NEW s \in Requests, NEW l \in Listings, Handling(s, l)
    PROVE  Calm' /\ Kept
<1> DEFINE r == snap[s][l]
<1>0. s \in Sessions
  BY DEF Sessions
<1>1. r \in Row /\ now \in Nat /\ row[l] \in Row /\ row \in [Listings -> Row]
  BY <1>0 DEF IInv, TypeOK
<1>2. ASSUME NEW roles, roles \subseteq Either, NEW new \in Row,
             NEW next \in {"idle", "fingerprint"}, Save(s, roles, l, new, next),
             new.status \in OffSite =>
                \/ new.reserved_at = 0
                \/ new.reserved_at = r.reserved_at /\ r.status \in OffSite,
             new.status # "gone" \/ new = r,
             new.status \in Public =>
                \/ r.status \in Public \/ Approving
                \/ roles = {"owner"} /\ r.status # "sold"
      PROVE  Calm' /\ Kept
  <2>1. /\ row' = [row EXCEPT ![l] = new] /\ r = row[l] /\ SessionsCalm'
        /\ roles = {"owner"} => ~suspended
    BY <1>0, <1>2, SaveCalm
  <2>2. ReservedOnSite
    BY DEF Calm
  <2>3. r.status \in OffSite => r.reserved_at = 0
    BY <2>1, <2>2 DEF ReservedOnSite
  <2> HIDE DEF r
  <2>4. CASE new = r
    <3>1. row' = row
      BY <1>1, <2>1, <2>4
    <3> QED  BY <2>1, <2>2, <3>1, SameRowsCalm DEF Calm
  <2>5. CASE new # r
    <3>1. ReservedOnSite' /\ Kept
      BY <1>2, <2>1, <2>2, <2>3, <2>5, RowCalm
    <3> QED  BY <2>1, <3>1 DEF Calm
  <2> QED  BY <2>4, <2>5
<1>3. ASSUME NEW st \in Status
      PROVE  Off(r, st) \in Row /\ Off(r, st).status = st /\ Off(r, st).reserved_at = 0
  BY <1>1, <1>3, OffType DEF Off, Row
<1>4. /\ {"pending_review", "sold", "archived", "rejected", "active", "reserved"} \subseteq Status
      /\ "active" \in Public /\ "reserved" \in Public
      /\ {"pending_review", "sold", "archived", "rejected", "draft"} \cap Public = {}
  BY DEF Status, Public
<1>5. ASSUME NEW st \in {"pending_review", "sold", "archived"}, NEW next \in {"idle", "fingerprint"},
             Save(s, Either, l, Off(r, st), next)
      PROVE  Calm' /\ Kept
  <2>1. /\ Off(r, st) \in Row /\ Off(r, st).status = st /\ Off(r, st).reserved_at = 0
        /\ st \notin Public
    BY <1>3, <1>4
  <2> QED  BY <1>2, <1>5, <2>1
<1>6. ASSUME NEW next \in {"idle", "fingerprint"}, Save(s, Either, l, r, next)
      PROVE  Calm' /\ Kept
  BY <1>1, <1>2, <1>6
<1>7. ASSUME NEW next \in {"idle", "fingerprint"}, r.status = "draft",
             Save(s, Either, l, [r EXCEPT !.draft_saved_at = now], next)
      PROVE  Calm' /\ Kept
  <2> DEFINE new == [r EXCEPT !.draft_saved_at = now]
  <2>1. new \in Row /\ new.status = "draft" /\ new.reserved_at = r.reserved_at
    BY <1>1, <1>7 DEF Row
  <2>2. "draft" \in OffSite
    BY DEF OffSite
  <2> HIDE DEF new
  <2>3. Save(s, Either, l, new, next)
    BY <1>7 DEF new
  <2> QED  BY <1>2, <1>4, <1>7, <2>1, <2>2, <2>3
<1> HIDE DEF r
<1>a. CASE Update(s, l)
  <2>1. \/ Save(s, Either, l, Off(r, "pending_review"), "fingerprint")
        \/ Save(s, Either, l, r, "fingerprint")
    BY <1>a DEF Update, r
  <2> QED  BY <1>5, <1>6, <2>1
<1>b. CASE AddImage(s, l)
  <2> DEFINE next == IF r.status = "draft" THEN "idle" ELSE "fingerprint"
  <2>1. CASE r.status \in Public
    <3>1. Save(s, Either, l, Off(r, "pending_review"), next)
      BY <1>b, <2>1, <1>4 DEF AddImage, r
    <3> QED  BY <1>5, <3>1
  <2>2. CASE r.status = "draft"
    <3>1. Save(s, Either, l, [r EXCEPT !.draft_saved_at = now], next)
      BY <1>b, <2>2, <1>4 DEF AddImage, r
    <3> QED  BY <1>7, <2>2, <3>1
  <2>3. CASE r.status \notin Public \cup {"draft"}
    <3>1. Save(s, Either, l, r, next)
      BY <1>b, <2>3 DEF AddImage, r
    <3> QED  BY <1>6, <3>1
  <2> QED  BY <2>1, <2>2, <2>3
<1>c. CASE TouchImages(s, l)
  BY <1>c, <1>7 DEF TouchImages, r
<1>d. CASE MarkSold(s, l)
  BY <1>d, <1>5 DEF MarkSold, r
<1>e. CASE Reserve(s, l)
  <2> DEFINE new == [r EXCEPT !.status = "reserved",
                              !.reserved_at = IF r.reserved_at = 1 THEN 2 ELSE 1]
  <2>1. r.status = "active" /\ Save(s, Either, l, new, "idle")
    BY <1>e DEF Reserve, r
  <2>2. new \in Row /\ new.status = "reserved"
    <3>1. "reserved" \in Status /\ 1 \in 0..2 /\ 2 \in 0..2
      BY DEF Status, Public
    <3> QED  BY <1>1, <3>1 DEF Row
  <2>3. "reserved" \notin OffSite
    BY DEF OffSite
  <2> HIDE DEF new
  <2> QED  BY <1>2, <1>4, <2>1, <2>2, <2>3
<1>f. CASE Unreserve(s, l)
  <2>1. r.status = "reserved" /\ Save(s, Either, l, Off(r, "active"), "idle")
    BY <1>f DEF Unreserve, r
  <2>2. Off(r, "active") \in Row /\ Off(r, "active").status = "active"
        /\ Off(r, "active").reserved_at = 0
    BY <1>3, <1>4
  <2> QED  BY <1>2, <1>4, <2>1, <2>2
<1>g. CASE Archive(s, l)
  BY <1>g, <1>5 DEF Archive, r
<1>h. CASE Renew(s, l)
  <2> DEFINE new == [r EXCEPT !.status = "active", !.expires_at = now + Lifetime]
  <2>1. r.status # "sold" /\ Save(s, {"owner"}, l, new, "idle")
    BY <1>h DEF Renew, r
  <2>2. now + Lifetime \in Nat
    BY <1>1, LifecycleAssumption DEF LifecycleAssumption
  <2>3. new \in Row /\ new.status = "active"
    BY <1>1, <1>4, <2>2 DEF Row
  <2>4. "active" \notin OffSite /\ {"owner"} \subseteq Either
    BY DEF OffSite, Either
  <2> HIDE DEF new
  <2> QED  BY <1>2, <2>1, <2>3, <2>4
<1>i. CASE Approve(s, l)
  <2> DEFINE new == [r EXCEPT !.status = "active", !.approved = TRUE]
  <2>1. Save(s, {"admin"}, l, new, "idle")
    BY <1>i DEF Approve, r
  <2>2. new \in Row /\ new.status = "active"
    BY <1>1, <1>4 DEF Row
  <2>3. "active" \notin OffSite /\ {"admin"} \subseteq Either /\ Approving
    BY <1>i DEF OffSite, Either, Approving
  <2> HIDE DEF new
  <2> QED  BY <1>2, <2>1, <2>2, <2>3
<1>j. CASE Reject(s, l)
  <2> DEFINE new == [r EXCEPT !.status = "rejected"]
  <2>1. Save(s, {"admin"}, l, new, "idle")
    BY <1>j DEF Reject, r
  <2>2. new \in Row /\ new.status = "rejected"
    BY <1>1, <1>4 DEF Row
  <2>3. "rejected" \notin OffSite /\ {"admin"} \subseteq Either
    BY DEF OffSite, Either
  <2> HIDE DEF new
  <2> QED  BY <1>2, <1>4, <2>1, <2>2, <2>3
<1>k. CASE DeleteDraft(s, l)
  <2>1. /\ task[s] \in Either /\ loaded[s] = {l} /\ r.status = "draft"
        /\ CommitDelete(s) /\ Hold(s, "idle", {}, Nothing)
    BY <1>k DEF DeleteDraft, Close, r
  <2>2. task[s] \notin {"idle", "fingerprint"}
    BY <2>1 DEF Either
  <2>3. row[l].status = "draft"
    BY <1>0, <2>1, <2>2 DEF Calm, SessionsCalm, FreshIn, r
  <2>4. SessionsCalm'
    BY <1>0, <2>1, <2>2, HoldCalm
  <2>5. \A k \in Listings :
           \/ row'[k] = row[k]
           \/ row'[k].status = "gone" /\ row[k].status = "draft"
    BY <1>1, <2>1, <2>3 DEF CommitDelete, Row
  <2>6. ReservedOnSite'
    BY <2>5 DEF Calm, ReservedOnSite, OffSite
  <2>7. Kept
    BY <2>5 DEF Kept, Deletes, Shows, Public
  <2> QED  BY <2>4, <2>6, <2>7 DEF Calm
<1> QED
  BY <1>a, <1>b, <1>c, <1>d, <1>e, <1>f, <1>g, <1>h, <1>i, <1>j, <1>k DEF Handling

(* A step that leaves the sessions where they are.                         *)
LEMMA StillCalm ==
    ASSUME SessionsCalm, ~Racing, UNCHANGED <<task, loaded, snap>>
    PROVE  SessionsCalm'
<1>1. OneBusy'
  BY DEF SessionsCalm, OneBusy
<1>2. ASSUME NEW s \in Sessions PROVE FreshIn(s)'
  <2>1. CASE row' = row /\ suspended' = suspended
    BY <2>1 DEF SessionsCalm, FreshIn
  <2>2. CASE ~(row' = row /\ suspended' = suspended)
    <3>1. task'[s] = "idle"
      BY <2>2 DEF Racing
    <3> QED  BY <3>1 DEF FreshIn
  <2> QED  BY <2>1, <2>2
<1> QED  BY <1>1, <1>2 DEF SessionsCalm

LEMMA PublishedReserves ==
    ASSUME NEW r \in Row, now \in Nat
    PROVE  /\ Published(r) \in Row /\ Published(r).reserved_at = r.reserved_at
           /\ Published(r).status \in {"active", "pending_review"}
<1>1. now + Lifetime \in Nat
  BY LifecycleAssumption DEF LifecycleAssumption
<1>2. CASE ReviewMode = "auto"
  <2>1. Published(r) = [r EXCEPT !.status = "active", !.approved = TRUE,
                                 !.expires_at = now + Lifetime, !.draft_saved_at = NULL]
    BY <1>2 DEF Published
  <2> QED  BY <1>1, <2>1 DEF Row, Status, Public
<1>3. CASE ReviewMode # "auto"
  <2>1. Published(r) = [r EXCEPT !.status = "pending_review", !.approved = FALSE,
                                 !.expires_at = now + Lifetime, !.draft_saved_at = NULL]
    BY <1>3 DEF Published
  <2> QED  BY <1>1, <2>1 DEF Row, Status, Public
<1> QED  BY <1>2, <1>3

LEMMA PublishingCalm ==
    ASSUME IInv, Calm, ~Racing, NEW s \in Requests, NEW l \in Listings, Publishing(s, l)
    PROVE  Calm' /\ Kept
<1>1. s \in Sessions /\ row[l] \in Row /\ row \in [Listings -> Row] /\ now \in Nat
      /\ Unborn \in Row /\ Unborn.reserved_at = 0
  BY UnbornType DEF Sessions, IInv, TypeOK, Unborn
<1>2. /\ ~suspended /\ task[s] = "idle" /\ row[l].status \in {"unborn", "draft"}
      /\ row[l].reserved_at = 0
  <2>1. ~suspended /\ task[s] = "idle" /\ row[l].status \in {"unborn", "draft"}
    BY DEF Publishing, Create, CreateDraft, UpdateDraft, PublishDraft, MayStart
  <2> QED  BY <2>1 DEF Calm, ReservedOnSite, OffSite
<1>3. CASE Create(s, l) \/ PublishDraft(s, l)
  <2>1. PICK r \in Row : row' = [row EXCEPT ![l] = Published(r)] /\ r.reserved_at = 0
    BY <1>1, <1>2, <1>3 DEF Create, PublishDraft
  <2>2. Hold(s, "fingerprint", {l}, Nothing)
    BY <1>3 DEF Create, PublishDraft, ToFingerprint
  <2>3. SessionsCalm'
    BY <1>1, <1>2, <2>2, HoldCalm
  <2>4. ReservedOnSite' /\ Kept
    <3>1. /\ Published(r) \in Row /\ Published(r).reserved_at = 0
          /\ Published(r).status \in {"active", "pending_review"}
      BY <1>1, <2>1, PublishedReserves
    <3> QED  BY <1>2, <2>1, <3>1, RowCalm DEF Calm
  <2> QED  BY <2>3, <2>4 DEF Calm
<1>4. CASE CreateDraft(s, l) \/ UpdateDraft(s, l)
  <2> DEFINE new == [row[l] EXCEPT !.status = "draft", !.draft_saved_at = now]
  <2>1. row' = [row EXCEPT ![l] = new]
    <3>1. CASE CreateDraft(s, l)
      BY <1>1, <3>1 DEF CreateDraft, Row
    <3>2. CASE UpdateDraft(s, l)
      <4>1. row[l].status = "draft"
        BY <3>2 DEF UpdateDraft
      <4>2. row' = [row EXCEPT ![l].draft_saved_at = now]
        BY <3>2 DEF UpdateDraft
      <4>3. new = [row[l] EXCEPT !.draft_saved_at = now]
        BY <1>1, <4>1 DEF Row
      <4> QED  BY <4>2, <4>3
    <3> QED  BY <1>4, <3>1, <3>2
  <2>2. new \in Row /\ new.status = "draft" /\ new.reserved_at = 0
    BY <1>1, <1>2 DEF Row, Status
  <2> HIDE DEF new
  <2>3. ReservedOnSite' /\ Kept
    BY <2>1, <2>2, RowCalm DEF Calm, Public
  <2>4. SessionsCalm'
    BY <1>4, StillCalm DEF CreateDraft, UpdateDraft, Calm
  <2> QED  BY <2>3, <2>4 DEF Calm
<1> QED  BY <1>3, <1>4 DEF Publishing

(* A session that reads, or ends without a commit.                         *)
LEMMA ReadCalm ==
    ASSUME IInv, Calm, ~Racing, NEW s \in Sessions, NEW as, NEW ls \in SUBSET Listings,
           Read(s, as, ls), as # task[s], UNCHANGED <<row, suspended>>,
           as = "owner" => ~suspended,
           as = "delete_stale_drafts" => \A l \in ls : row[l].status = "draft"
    PROVE  Calm' /\ Kept
<1>1. SessionsCalm'
  BY HoldCalm DEF Read
<1> QED  BY <1>1, SameRowsCalm DEF Calm

(* suspend_user, archive_expired_listings and delete_stale_drafts.         *)
LEMMA SweepCalm ==
    ASSUME IInv, Calm, ~Racing, NEW s \in Sessions, Close(s),
           \/ ArchiveLoaded(s) /\ task[s] \in {"suspend", "archive_expired"}
           \/ CommitDelete(s) /\ task[s] = "delete_stale_drafts"
    PROVE  Calm' /\ Kept
<1>1. /\ snap[s] \in [Listings -> Row] /\ loaded[s] \subseteq Listings
      /\ row \in [Listings -> Row]
      /\ \A l \in loaded[s] : snap[s][l] = row[l]
      /\ task[s] = "delete_stale_drafts" => \A l \in loaded[s] : row[l].status = "draft"
  BY DEF IInv, TypeOK, Calm, SessionsCalm, FreshIn
<1>2. SessionsCalm'
  BY HoldCalm DEF Close
<1>3. ASSUME NEW l \in Listings
      PROVE  \/ row'[l] = row[l]
             \/ row'[l].status = "archived" /\ row'[l].reserved_at = 0
             \/ row'[l].status = "gone" /\ row[l].status = "draft"
  <2>1. CASE l \notin loaded[s]
    BY <2>1 DEF ArchiveLoaded, Commit, CommitDelete
  <2>2. CASE l \in loaded[s] /\ ArchiveLoaded(s)
    <3> DEFINE new == Off(row[l], "archived")
    <3>1. "archived" \in Status /\ row[l] \in Row
      BY <1>1 DEF Status
    <3>2. new \in Row /\ new.status = "archived" /\ new.reserved_at = 0
      BY <3>1, OffType DEF Off, Row
    <3>3. row'[l] = Merge(row[l], row[l], new)
      BY <1>1, <2>2 DEF ArchiveLoaded, Commit
    <3> HIDE DEF new
    <3> QED  BY <3>1, <3>2, <3>3, MergeFresh
  <2>3. CASE l \in loaded[s] /\ CommitDelete(s) /\ task[s] = "delete_stale_drafts"
    BY <1>1, <2>3 DEF CommitDelete, Row
  <2> QED  BY <2>1, <2>2, <2>3
<1>4. ReservedOnSite'
  BY <1>3 DEF Calm, ReservedOnSite, OffSite
<1>5. Kept
  BY <1>3 DEF Kept, Deletes, Shows, Public
<1> QED  BY <1>2, <1>4, <1>5 DEF Calm

LEMMA NextCalm == IInv /\ Calm /\ Next /\ ~Racing => Calm' /\ Kept
<1> SUFFICES ASSUME IInv, Calm, Next, ~Racing PROVE Calm' /\ Kept
  OBVIOUS
<1>w. Worker \in Sessions /\ Requests \subseteq Sessions
  BY DEF Sessions
<1>1. ASSUME NEW s \in Requests, NEW l \in Listings, Publishing(s, l) \/ Handling(s, l)
      PROVE  Calm' /\ Kept
  BY <1>1, PublishingCalm, HandlingCalm
<1>2. ASSUME NEW s \in Requests, NEW l \in Listings, NEW role \in Either, Load(s, l, role)
      PROVE  Calm' /\ Kept
  <2>1. /\ Read(s, role, {l}) /\ task[s] = "idle" /\ UNCHANGED <<row, suspended>>
        /\ role = "owner" => ~suspended
    BY <1>2 DEF Load, MayStart
  <2>2. role \in {"owner", "admin"}
    BY DEF Either
  <2> QED  BY <1>w, <2>1, <2>2, ReadCalm
<1>3. ASSUME NEW s \in Sessions, Abandon(s) \/ Fingerprint(s)
      PROVE  Calm' /\ Kept
  <2>1. Hold(s, "idle", {}, Nothing) /\ task[s] # "idle" /\ UNCHANGED <<row, suspended>>
    BY <1>3 DEF Abandon, Fingerprint, Close
  <2>2. Read(s, "idle", {})
    BY <2>1 DEF Read, Nothing
  <2> QED  BY <2>1, <2>2, ReadCalm
<1>4. ASSUME NEW s \in Requests, StartSuspend(s) PROVE Calm' /\ Kept
  BY <1>w, <1>4, ReadCalm DEF StartSuspend, MayStart
<1>5. CASE StartArchiveExpired
  BY <1>w, <1>5, ReadCalm DEF StartArchiveExpired, MayStart
<1>6. CASE StartDeleteStale
  <2>1. \A l \in Listings : Forgotten(l) => row[l].status = "draft"
    BY DEF Forgotten
  <2>2. /\ Read(Worker, "delete_stale_drafts", {l \in Listings : Forgotten(l)})
        /\ task[Worker] = "idle" /\ UNCHANGED <<row, suspended>>
    BY <1>6 DEF StartDeleteStale, MayStart
  <2> QED  BY <1>w, <2>1, <2>2, ReadCalm
<1>7. ASSUME NEW s \in Requests, Suspend(s) PROVE Calm' /\ Kept
  BY <1>w, <1>7, SweepCalm DEF Suspend
<1>8. CASE ArchiveExpired \/ DeleteStale
  BY <1>w, <1>8, SweepCalm DEF ArchiveExpired, DeleteStale
<1>9. CASE \/ Tick \/ \E l \in Listings : Engage(l)
           \/ \E s \in Requests : Unsuspend(s)
  <2>1. UNCHANGED <<task, loaded, snap, row>>
    BY <1>9 DEF Tick, Engage, Unsuspend
  <2> QED  BY <2>1, StillCalm, SameRowsCalm DEF Calm
<1> QED
  BY <1>w, <1>1, <1>2, <1>3, <1>4, <1>5, <1>6, <1>7, <1>8, <1>9
     DEF Next, Request, WorkerStep

-----------------------------------------------------------------------------
LEMMA MCInv == MCSpec => [](IInv /\ (raced \/ Calm))
<1>1. MCInit => IInv /\ (raced \/ Calm)
  <2> SUFFICES ASSUME MCInit PROVE IInv /\ Calm
    OBVIOUS
  <2>1. IInv
    BY InitIInv, LifecycleAssumption DEF MCInit
  <2>2. \A s \in Sessions : task[s] = "idle"
    BY DEF MCInit, Init
  <2>3. SessionsCalm
    BY <2>2 DEF SessionsCalm, OneBusy, FreshIn
  <2>4. ReservedOnSite
    BY DEF MCInit, Init, ReservedOnSite, Unborn
  <2> QED  BY <2>1, <2>3, <2>4 DEF Calm
<1>2. IInv /\ (raced \/ Calm) /\ [MCNext]_<<vars, raced>> => (IInv /\ (raced \/ Calm))'
  <2> SUFFICES ASSUME IInv, raced \/ Calm, [MCNext]_<<vars, raced>>
               PROVE  IInv' /\ (raced' \/ Calm')
    OBVIOUS
  <2>1. IInv'
    BY NextIInv, LifecycleAssumption DEF MCNext, vars
  <2>2. CASE UNCHANGED <<vars, raced>>
    <3>1. Calm => Calm'
      BY <2>2 DEF vars, Calm, SessionsCalm, OneBusy, FreshIn, ReservedOnSite
    <3>2. raced' = raced
      BY <2>2
    <3> QED  BY <2>1, <3>1, <3>2
  <2>3. CASE MCNext
    <3>1. Calm /\ ~Racing => Calm'
      BY <2>3, NextCalm DEF MCNext
    <3>2. raced' = (raced \/ Racing)
      BY <2>3 DEF MCNext
    <3>3. raced \/ Racing => raced'
      BY <3>2
    <3> QED  BY <2>1, <3>1, <3>3
  <2> QED  BY <2>1, <2>2, <2>3
<1> QED  BY <1>1, <1>2, PTL DEF MCSpec

(* Under manual review a listing is public only when a moderator approved  *)
(* it at some time or its owner renewed it, whatever sessions overlap      *)
(* (listings.py, admin.py: every handler that assigns the status).         *)
THEOREM ReviewedBeforePublic == Spec => []ManualReview
  BY Safety, PTL

(* docs/listing-handoff-options.md:32: whatever handlers and the worker do *)
(* in turn, a listing that is sold, archived or in review has no           *)
(* reservation; overlapping sessions are what it takes to keep one.        *)
THEOREM ReservationsEnd == MCSpec => []ClearedUnlessRaced
<1>1. IInv /\ (raced \/ Calm) => ClearedUnlessRaced
  BY DEF Calm, ReservedOnSite, OffSite, ClearedUnlessRaced, ReservationCleared
<1> QED  BY <1>1, MCInv, PTL

(* docs/listing-drafts.md:40-42: only drafts are deleted, and only an      *)
(* approval brings a sold listing or a suspended seller's back to the      *)
(* site, unless sessions overlap.                                          *)
THEOREM HistoryKept == MCSpec => HistoryKeptUnlessRaced
<1> DEFINE Step == raced' \/ \A l \in Listings :
                      /\ Deletes(l) => row[l].status = "draft"
                      /\ Shows(l) /\ (suspended \/ row[l].status = "sold") => Approving
<1>1. IInv /\ (raced \/ Calm) /\ [MCNext]_<<vars, raced>> => [Step]_<<vars, raced>>
  BY NextCalm DEF MCNext, Kept
<1> QED  BY <1>1, MCInv, PTL DEF MCSpec, HistoryKeptUnlessRaced
=============================================================================
