---------------------------- MODULE BlogArticles ----------------------------
(***************************************************************************)
(* The articles and images of the blog CMS: editors save, publish,         *)
(* withdraw, restore and delete articles and upload and delete images,     *)
(* each in a database transaction.  A save locks the rows of the images it *)
(* refers to, in the order of their ids; deleting an image locks its row   *)
(* and refuses while an article or a retained version refers to it.        *)
(*                                                                         *)
(* Statements read what is committed (READ COMMITTED); nothing locks the   *)
(* row of an article.                                                      *)
(***************************************************************************)
EXTENDS Naturals, Sequences, FiniteSets

CONSTANTS
    Editors,        \* transactions of editors
    Articles,       \* ids of posts
    Images,         \* ids of media
    Slugs,
    MaxVersions,    \* versions.maxPerDoc
    NoImage         \* no cover chosen

ASSUME ArticlesAssumption ==
    /\ IsFiniteSet(Editors)
    /\ Images \subseteq Nat /\ NoImage \notin Images
    /\ Articles # {} /\ Slugs # {}
    /\ MaxVersions \in Nat \ {0}

VARIABLES
    images,         \* the state of each media row
    posts,          \* the table posts
    versions,       \* the image references of each article's retained versions
    tx              \* the transaction of each editor

vars == <<images, posts, versions, tx>>

-----------------------------------------------------------------------------
Post == [status : {"none", "draft", "published", "deleted"},
         slug   : Slugs,
         refs   : SUBSET Images,        \* cover and images of the body
         first  : BOOLEAN]              \* firstPublishedAt is set

Tx == [op   : {"idle", "save", "delete"},
       at   : {"locking", "checked"},
       post : Articles, slug : Slugs, cover : Images \cup {NoImage},
       mode : {"draft", "publish", "withdraw"},
       refs : SUBSET Images,            \* the images to lock
       todo : SUBSET Images,            \* those not locked yet
       first : BOOLEAN]                 \* firstPublishedAt as it was read

AnyPost == CHOOSE p \in Articles : TRUE
AnySlug == CHOOSE s \in Slugs : TRUE

Idle == [op |-> "idle", at |-> "locking", post |-> AnyPost, slug |-> AnySlug,
         cover |-> NoImage, mode |-> "draft", refs |-> {}, todo |-> {},
         first |-> FALSE]

Init ==
    /\ images   = [i \in Images |-> "unused"]
    /\ posts    = [p \in Articles |-> [status |-> "none", slug |-> AnySlug,
                                       refs |-> {}, first |-> FALSE]]
    /\ versions = [p \in Articles |-> <<>>]
    /\ tx       = [e \in Editors |-> Idle]

MayStart(e) == tx[e] = Idle

(* The row locks a transaction holds.                                      *)
Held(e) == tx[e].refs \ tx[e].todo

(* mutant: the ids are locked as given, the cover before the body          *)
IsNext_CoverFirst(e, i) ==
    /\ i \in tx[e].todo
    /\ tx[e].cover \in tx[e].todo => i = tx[e].cover
    /\ tx[e].cover \notin tx[e].todo => \A j \in tx[e].todo : i <= j

(* SELECT ... ORDER BY id FOR UPDATE takes the locks in this order.        *)
IsNext(e, i) == i \in tx[e].todo /\ \A j \in tx[e].todo : i <= j

(* A version is appended and the oldest of too many dropped.               *)
SaveVersion_NeverPruned(s, refs) == Append(s, refs)  \* mutant

SaveVersion(s, refs) ==
    IF Len(s) < MaxVersions THEN Append(s, refs) ELSE Append(Tail(s), refs)

(* An autosave replaces the version the last autosave wrote.               *)
Autosave(s, refs) == IF s = <<>> THEN <<refs>> ELSE [s EXCEPT ![Len(s)] = refs]

Referenced(i) ==
    \E p \in Articles : \/ i \in posts[p].refs
                        \/ \E n \in DOMAIN versions[p] : i \in versions[p][n]

-----------------------------------------------------------------------------
(* Any content may be saved: what is typed, what another save has written  *)
(* since the form was loaded, or what a retained version held.             *)
BeginSave(e, p, slug, cover, body, mode) ==
    LET refs == body \cup (IF cover = NoImage THEN {} ELSE {cover}) IN
    /\ MayStart(e)
    /\ posts[p].status # "deleted"
    /\ posts[p].status = "none" =>                \* the id of a new row
           \A f \in Editors : tx[f].op = "save" => tx[f].post # p
    /\ mode = "publish" => cover # NoImage
    /\ tx' = [tx EXCEPT ![e] =
                [op |-> "save", at |-> "locking", post |-> p, slug |-> slug,
                 cover |-> cover, mode |-> mode, refs |-> refs, todo |-> refs,
                 first |-> FALSE]]
    /\ UNCHANGED <<images, posts, versions>>

(* A missing image refuses the save (Refuse), so the lock is taken of a    *)
(* row that exists.                                                        *)
LockImage(e, i) ==
    /\ IsNext(e, i)
    /\ images[i] = "stored"
    /\ \A f \in Editors \ {e} : i \notin Held(f)
    /\ tx' = [tx EXCEPT ![e].todo = @ \ {i}]
    /\ UNCHANGED <<images, posts, versions>>

(* protectPublication reads the canonical row: the slug of an article that *)
(* was ever published is fixed.                                            *)
CheckPost_PublishedOnly(e) ==            \* mutant: free again once withdrawn
    LET t == tx[e]  row == posts[t.post] IN
    /\ t.op = "save" /\ t.at = "locking" /\ t.todo = {}
    /\ row.status = "published" => t.slug = row.slug
    /\ tx' = [tx EXCEPT ![e].at = "checked", ![e].first = row.first]
    /\ UNCHANGED <<images, posts, versions>>

CheckPost(e) ==
    LET t == tx[e]  row == posts[t.post] IN
    /\ t.op = "save" /\ t.at = "locking" /\ t.todo = {}
    /\ row.first => t.slug = row.slug
    /\ tx' = [tx EXCEPT ![e].at = "checked", ![e].first = row.first]
    /\ UNCHANGED <<images, posts, versions>>

(* A draft save of an existing article writes a version only; the others   *)
(* write the row as well, with firstPublishedAt as it was read.            *)
CommitSave(e) ==
    LET t == tx[e] IN
    /\ t.op = "save" /\ t.at = "checked"
    /\ posts' =
         IF t.mode = "draft" /\ posts[t.post].status # "none" THEN posts
         ELSE [posts EXCEPT ![t.post] =
                 [status |-> IF t.mode = "publish" THEN "published" ELSE "draft",
                  slug |-> t.slug, refs |-> t.refs,
                  first |-> t.first \/ t.mode = "publish"]]
    /\ \/ versions' = [versions EXCEPT ![t.post] = SaveVersion(@, t.refs)]
       \/ /\ t.mode = "draft"
          /\ versions' = [versions EXCEPT ![t.post] = Autosave(@, t.refs)]
    /\ tx' = [tx EXCEPT ![e] = Idle]
    /\ UNCHANGED images

(* The versions go with the article.                                       *)
DeletePost(p) ==
    /\ posts[p].status \in {"draft", "published"}
    /\ posts' = [posts EXCEPT ![p] = [status |-> "deleted", slug |-> AnySlug,
                                      refs |-> {}, first |-> FALSE]]
    /\ versions' = [versions EXCEPT ![p] = <<>>]
    /\ UNCHANGED <<images, tx>>

-----------------------------------------------------------------------------
Upload(i) ==
    /\ images[i] = "unused"
    /\ images' = [images EXCEPT ![i] = "stored"]
    /\ UNCHANGED <<posts, versions, tx>>

BeginDelete(e, i) ==
    /\ MayStart(e)
    /\ images[i] = "stored"
    /\ tx' = [tx EXCEPT ![e].op = "delete", ![e].refs = {i}, ![e].todo = {i}]
    /\ UNCHANGED <<images, posts, versions>>

(* protectMediaDeletion, after the lock.                                   *)
CheckImage_PostsOnly(e) ==               \* mutant: the versions are forgotten
    LET t == tx[e] IN
    /\ t.op = "delete" /\ t.at = "locking" /\ t.todo = {}
    /\ \A i \in t.refs : \A p \in Articles : i \notin posts[p].refs
    /\ tx' = [tx EXCEPT ![e].at = "checked"]
    /\ UNCHANGED <<images, posts, versions>>

CheckImage(e) ==
    LET t == tx[e] IN
    /\ t.op = "delete" /\ t.at = "locking" /\ t.todo = {}
    /\ \A i \in t.refs : ~Referenced(i)
    /\ tx' = [tx EXCEPT ![e].at = "checked"]
    /\ UNCHANGED <<images, posts, versions>>

CommitDelete(e) ==
    LET t == tx[e] IN
    /\ t.op = "delete" /\ t.at = "checked"
    /\ images' = [i \in Images |-> IF i \in t.refs THEN "deleted" ELSE images[i]]
    /\ tx' = [tx EXCEPT ![e] = Idle]
    /\ UNCHANGED <<posts, versions>>

(* A refused or failed operation, or a crash: the transaction rolls back.  *)
Refuse(e) ==
    /\ tx[e] # Idle
    /\ tx' = [tx EXCEPT ![e] = Idle]
    /\ UNCHANGED <<images, posts, versions>>

-----------------------------------------------------------------------------
Save(e) ==
    \/ \E p \in Articles, slug \in Slugs, cover \in Images \cup {NoImage},
          body \in SUBSET Images, mode \in {"draft", "publish", "withdraw"} :
          BeginSave(e, p, slug, cover, body, mode)
    \/ CheckPost(e) \/ CommitSave(e)

Next ==
    \/ \E e \in Editors :
          \/ Save(e) \/ CheckImage(e) \/ CommitDelete(e) \/ Refuse(e)
          \/ \E i \in Images : LockImage(e, i) \/ BeginDelete(e, i)
    \/ \E i \in Images : Upload(i)
    \/ \E p \in Articles : DeletePost(p)

Spec == Init /\ [][Next]_vars

-----------------------------------------------------------------------------
(* Rows, versions and transactions hold values of their kinds, and no more *)
(* versions are retained than maxPerDoc.                                   *)
TypeOK ==
    /\ images \in [Images -> {"unused", "stored", "deleted"}]
    /\ posts \in [Articles -> Post]
    /\ versions \in [Articles -> Seq(SUBSET Images)]
    /\ \A p \in Articles : Len(versions[p]) <= MaxVersions
    /\ tx \in [Editors -> Tx]

(* media-references.ts: no article and no retained version refers to an    *)
(* image that is gone, whatever saves and deletions run at the same time.  *)
ReferencedImagesExist ==
    \A i \in Images : Referenced(i) => images[i] = "stored"

(* Locks taken in the order of the ids: no set of transactions waits in a  *)
(* circle for each other.                                                  *)
Waits(e, f) == \E i \in Held(f) : tx[e].op # "idle" /\ IsNext(e, i)

NoLockCycle ==
    \A S \in SUBSET Editors :
        S # {} => \E e \in S : \A f \in S : ~Waits(e, f)

(* cms/CONTENT_API.md: slugs "freeze after first publication, including    *)
(* while unpublished and during version recovery", and firstPublishedAt is *)
(* preserved.                                                              *)
Fixed(p) == posts[p].first /\ posts'[p].status # "deleted"
                => posts'[p].first /\ posts'[p].slug = posts[p].slug
=============================================================================
