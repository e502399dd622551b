--------------------------- MODULE ListingImages ---------------------------
(***************************************************************************)
(* The photographs of one listing: rows of listing_images in the database  *)
(* and files in the storage, which share no transaction.                   *)
(*                                                                         *)
(* An upload stores the file first and commits the row afterwards; a       *)
(* deletion commits first and removes the file afterwards.  With local     *)
(* storage the worker sweeps the files no row names.  Requests read the    *)
(* gallery without a lock and write the columns whose value differs from   *)
(* the value they read, as in ListingLifecycle.                            *)
(***************************************************************************)
EXTENDS Naturals, FiniteSets

CONSTANTS
    Images,         \* ids of images, each with its storage key
    Requests,       \* database sessions of the owner's requests
    MaxImages,      \* settings.max_listing_images
    MaxRepeats,     \* bound: how many names too many a new order may hold
    LocalStorage    \* TRUE: files on disk, swept; FALSE: object storage

ASSUME ImagesAssumption ==
    /\ IsFiniteSet(Images)
    /\ MaxImages \in Nat \ {0}
    /\ MaxRepeats \in Nat
    /\ LocalStorage \in BOOLEAN

VARIABLES
    listed,         \* the row of the listing exists
    image,          \* the table listing_images
    files,          \* keys of the stored files
    step,           \* what each request does next
    seen,           \* the gallery each request read
    keys,           \* the storage keys each request works on
    sweep,          \* the worker's sweep: the keys it knows, the files it must meet
    missed          \* history: keys whose file a sweep removed not knowing a row

vars == <<listed, image, files, step, seen, keys, sweep, missed>>

-----------------------------------------------------------------------------
(* "taken" is an id whose file was stored and whose row is not committed.  *)
Image == [state : {"unborn", "taken", "row", "gone"}, order : Nat,
          cover : BOOLEAN]
Steps == {"idle", "loaded", "stored", "unlink"}

Rows(g)   == {i \in Images : g[i].state = "row"}
Gallery   == Rows(image)
Blank     == [i \in Images |-> [state |-> "unborn", order |-> 0, cover |-> FALSE]]
Gone      == [state |-> "gone", order |-> 0, cover |-> FALSE]
Idle      == [on |-> FALSE, known |-> {}, must |-> {}]

Init ==
    /\ listed = TRUE
    /\ image  = Blank
    /\ files  = {}
    /\ step   = [r \in Requests |-> "idle"]
    /\ seen   = [r \in Requests |-> Blank]
    /\ keys   = [r \in Requests |-> {}]
    /\ sweep  = Idle
    /\ missed = {}

(* Request r goes on with step s over the keys ks; after its commit it     *)
(* needs what it read no more.                                             *)
Goto(r, s, ks) ==
    /\ step' = [step EXCEPT ![r] = s]
    /\ keys' = [keys EXCEPT ![r] = ks]
    /\ seen' = IF s = "stored" THEN seen ELSE [seen EXCEPT ![r] = Blank]

(* A column is written when its new value differs from the value read.     *)
Column(cur, old, new) == IF new = old THEN cur ELSE new

(* The rows request r writes when it assigns the gallery new, and what the *)
(* table then holds; an UPDATE of a missing row fails the transaction.     *)
Dirty(r, new) == {i \in Rows(seen[r]) : /\ new[i].state = "row"
                                        /\ new[i] # seen[r][i]}
Flush(r, new) ==
    [i \in Images |->
        IF i \in Dirty(r, new)
        THEN [image[i] EXCEPT
                 !.order = Column(@, seen[r][i].order, new[i].order),
                 !.cover = Column(@, seen[r][i].cover, new[i].cover)]
        ELSE image[i]]

-----------------------------------------------------------------------------
(* The owner's requests.                                                   *)

Load(r) ==
    /\ listed /\ step[r] = "idle"
    /\ step' = [step EXCEPT ![r] = "loaded"]
    /\ seen' = [seen EXCEPT ![r] = image]
    /\ UNCHANGED <<listed, image, files, keys, sweep, missed>>

(* Refused, failed, or the process died: what is stored stays stored.      *)
Abandon(r) ==
    /\ step[r] # "idle"
    /\ Goto(r, "idle", {})
    /\ UNCHANGED <<listed, image, files, sweep, missed>>

(* The limit is tested on the gallery the request read.  The key of the    *)
(* file holds a fresh uuid.                                                *)
StoreFile_NoLimit(r, i) ==               \* mutant: the limit is not tested
    /\ step[r] = "loaded"
    /\ image[i].state = "unborn"
    /\ image' = [image EXCEPT ![i].state = "taken"]
    /\ files' = files \cup {i}
    /\ Goto(r, "stored", {i})
    /\ UNCHANGED <<listed, sweep, missed>>

StoreFile(r, i) ==
    /\ step[r] = "loaded"
    /\ Cardinality(Rows(seen[r])) < MaxImages
    /\ image[i].state = "unborn"
    /\ image' = [image EXCEPT ![i].state = "taken"]
    /\ files' = files \cup {i}
    /\ Goto(r, "stored", {i})
    /\ UNCHANGED <<listed, sweep, missed>>

AddImage_OffByOne(r, i) ==               \* mutant: the new image is not counted right
    /\ step[r] = "stored" /\ keys[r] = {i} /\ listed
    /\ LET n == Cardinality(Rows(seen[r])) IN
       image' = [image EXCEPT ![i] = [state |-> "row", order |-> n - 1,
                                      cover |-> n = 0]]
    /\ Goto(r, "idle", {})
    /\ UNCHANGED <<listed, files, sweep, missed>>

(* A listing that is gone fails the foreign key.                           *)
AddImage(r, i) ==
    /\ step[r] = "stored" /\ keys[r] = {i} /\ listed
    /\ LET n == Cardinality(Rows(seen[r])) IN
       image' = [image EXCEPT ![i] = [state |-> "row", order |-> n,
                                      cover |-> n = 0]]
    /\ Goto(r, "idle", {})
    /\ UNCHANGED <<listed, files, sweep, missed>>

(* The ways to number the images of S from 0 on.                           *)
Ranks(S) == {rank \in [S -> 0..(Cardinality(S) - 1)] :
                \A j, k \in S : j # k => rank[j] # rank[k]}

(* The rows that remain are read again, but those the session knows keep   *)
(* the values it knows; they are numbered in that order, and the first one *)
(* becomes the cover when the cover was deleted.                           *)
Remaining(r, i, j) == IF j \in Rows(seen[r]) THEN seen[r][j] ELSE image[j]

DeleteImage_NoNewCover(r, i) ==          \* mutant: no image inherits the cover
    LET rest == Gallery \ {i} IN
    /\ step[r] = "loaded" /\ i \in Rows(seen[r])
    /\ \E rank \in Ranks(rest) :
         /\ \A j, k \in rest : Remaining(r, i, j).order < Remaining(r, i, k).order
                                   => rank[j] < rank[k]
         /\ image' = [j \in Images |->
              CASE j = i -> Gone
                [] j \in rest ->
                     [image[j] EXCEPT
                        !.order = Column(@, Remaining(r, i, j).order, rank[j])]
                [] OTHER -> image[j]]
    /\ Goto(r, "unlink", {i})
    /\ UNCHANGED <<listed, files, sweep, missed>>

DeleteImage_FileFirst(r, i) ==           \* mutant: the file goes before the row
    /\ step[r] = "loaded" /\ i \in Rows(seen[r])
    /\ files' = files \ {i}
    /\ Goto(r, "unlink", {i})
    /\ UNCHANGED <<listed, image, sweep, missed>>

DeleteImage(r, i) ==
    LET rest == Gallery \ {i} IN
    /\ step[r] = "loaded" /\ i \in Rows(seen[r])
    /\ \E rank \in Ranks(rest) :
         /\ \A j, k \in rest : Remaining(r, i, j).order < Remaining(r, i, k).order
                                   => rank[j] < rank[k]
         /\ image' = [j \in Images |->
              CASE j = i -> Gone
                [] j \in rest ->
                     LET old == Remaining(r, i, j) IN
                     [image[j] EXCEPT
                        !.order = Column(@, old.order, rank[j]),
                        !.cover = Column(@, old.cover,
                            old.cover \/ (seen[r][i].cover /\ rank[j] = 0))]
                [] OTHER -> image[j]]
    /\ Goto(r, "unlink", {i})
    /\ UNCHANGED <<listed, files, sweep, missed>>

SetCover(r, i) ==
    LET new == [j \in Images |-> [seen[r][j] EXCEPT !.cover = (j = i)]] IN
    /\ step[r] = "loaded" /\ i \in Rows(seen[r])
    /\ Dirty(r, new) \subseteq Gallery
    /\ image' = Flush(r, new)
    /\ Goto(r, "idle", {})
    /\ UNCHANGED <<listed, files, sweep, missed>>

(* What a list that names the images of S, and no other, makes of their    *)
(* orders: an image gets the place where it is named last, so names that   *)
(* are repeated leave gaps.                                                *)
Places(S) == {place \in [S -> 0..(Cardinality(S) + MaxRepeats - 1)] :
                 \A j, k \in S : j # k => place[j] # place[k]}

ReorderTo(r, place) ==
    LET mine == Rows(seen[r])
        new  == [j \in Images |-> IF j \in mine
                                 THEN [seen[r][j] EXCEPT !.order = place[j]]
                                 ELSE seen[r][j]]
    IN
    /\ step[r] = "loaded" /\ mine # {}
    /\ Dirty(r, new) \subseteq Gallery
    /\ image' = Flush(r, new)
    /\ Goto(r, "idle", {})
    /\ UNCHANGED <<listed, files, sweep, missed>>

(* The list must not be empty, and is compared as a set with the images    *)
(* the request read.                                                       *)
Reorder(r) == \E place \in Places(Rows(seen[r])) : ReorderTo(r, place)

(* delete_draft and the retention task: the images the session read go     *)
(* with the listing; one it does not know fails the foreign key.           *)
DeleteListing(r) ==
    /\ step[r] = "loaded" /\ listed
    /\ Gallery \subseteq Rows(seen[r])
    /\ listed' = FALSE
    /\ image' = [i \in Images |-> IF i \in Gallery
                                  THEN Gone
                                  ELSE image[i]]
    /\ Goto(r, "unlink", Rows(seen[r]))
    /\ UNCHANGED <<files, sweep, missed>>

(* After the commit, one file at a time; a storage error is swallowed.     *)
Unlink(r, i) ==
    /\ step[r] = "unlink" /\ i \in keys[r]
    /\ files' \in {files \ {i}, files}
    /\ IF keys[r] = {i} THEN Goto(r, "idle", {}) ELSE Goto(r, "unlink", keys[r] \ {i})
    /\ UNCHANGED <<listed, image, sweep, missed>>

-----------------------------------------------------------------------------
(* cleanup_orphan_local_uploads: the known keys are read first, the files  *)
(* are walked afterwards.                                                  *)

StartSweep ==
    /\ LocalStorage /\ ~sweep.on /\ files # {}
    /\ sweep' = [on |-> TRUE, known |-> Gallery, must |-> files \ Gallery]
    /\ UNCHANGED <<listed, image, files, step, seen, keys, missed>>

SweepFile_Backwards(i) ==                \* mutant: keeps the files no row names
    /\ sweep.on /\ i \in files \cap sweep.known
    /\ files' = files \ {i}
    /\ UNCHANGED <<listed, image, step, seen, keys, sweep, missed>>

SweepFile(i) ==
    /\ sweep.on /\ i \in files \ sweep.known
    /\ files' = files \ {i}
    /\ missed' = missed \cup {i}
    /\ UNCHANGED <<listed, image, step, seen, keys, sweep>>

(* The walk comes to every file that was there; one stored meanwhile may   *)
(* be missed.                                                              *)
EndSweep ==
    /\ sweep.on /\ sweep.must \cap files = {}
    /\ sweep' = Idle
    /\ UNCHANGED <<listed, image, files, step, seen, keys, missed>>

-----------------------------------------------------------------------------
Request(r) == \/ Load(r) \/ Abandon(r) \/ Reorder(r) \/ DeleteListing(r)
              \/ \E i \in Images :
                   \/ StoreFile(r, i) \/ AddImage(r, i) \/ DeleteImage(r, i)
                   \/ SetCover(r, i) \/ Unlink(r, i)

WorkerStep == StartSweep \/ EndSweep \/ \E i \in Images : SweepFile(i)

Next == WorkerStep \/ \E r \in Requests : Request(r)

Spec == Init /\ [][Next]_vars

(* The worker's cycle: each file is come to, and the sweep ends and starts *)
(* again; unlinking a file on disk succeeds.                               *)
Fairness == /\ WF_vars(StartSweep) /\ WF_vars(EndSweep)
            /\ \A i \in Images : WF_vars(SweepFile(i))

FairSpec == Spec /\ Fairness

-----------------------------------------------------------------------------
(* The tables, the storage and the sessions hold values the code allows.   *)
TypeOK ==
    /\ listed \in BOOLEAN
    /\ image \in [Images -> Image]
    /\ files \subseteq Images
    /\ step \in [Requests -> Steps]
    /\ seen \in [Requests -> [Images -> Image]]
    /\ keys \in [Requests -> SUBSET Images]
    /\ sweep \in [on : BOOLEAN, known : SUBSET Images, must : SUBSET Images]
    /\ missed \subseteq Images

(* Every image a listing shows has its file, at every instant between the  *)
(* transaction of the database and the calls of the storage.  The one file *)
(* a row can lack is one a sweep of local storage removed without knowing  *)
(* the row, and with object storage there is no sweep.                     *)
Accounted == files \cup missed

NoBrokenImage == Gallery \subseteq Accounted

(* Why: a request that is about to add a row still has its file unless a   *)
(* sweep took it, and the keys it is about to unlink belong to no row, nor *)
(* to another upload.                                                      *)
KeysAreOwned ==
    \A r \in Requests :
        /\ step[r] = "stored" => /\ keys[r] \subseteq Accounted
                                 /\ \A i \in keys[r] : image[i].state = "taken"
        /\ step[r] = "unlink" => \A i \in keys[r] : image[i].state = "gone"
        /\ step[r] \in {"idle", "loaded"} => keys[r] = {}
        /\ \A i \in Rows(seen[r]) : image[i].state \in {"row", "gone"}
        /\ \A q \in Requests \ {r} : step[r] = "stored" /\ step[q] = "stored"
                                       => keys[r] \cap keys[q] = {}

(* There is one cover as soon as there is an image.                        *)
OneCover ==
    Gallery # {} =>
        \E i \in Gallery : \A j \in Gallery : image[j].cover <=> j = i

(* The orders are 0, 1, 2 and so on, each given once.                      *)
InOrder == {image[i].order : i \in Gallery} = 0..(Cardinality(Gallery) - 1)

(* serbian_fishing_marketplace_mvp_spec.md:2982: "Max 10 images per        *)
(* listing".                                                               *)
WithinLimit == Cardinality(Gallery) <= MaxImages

(* With local storage a file no row names, and no request holds, goes.     *)
OrphanIsSwept ==
    \A i \in Images :
        i \in files /\ image[i].state # "row"
            ~> i \notin files \/ image[i].state = "row"
=============================================================================
