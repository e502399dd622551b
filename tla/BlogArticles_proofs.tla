------------------------ MODULE BlogArticles_proofs ------------------------
(***************************************************************************)
(* The locks keep every referenced image, for any editors, articles and    *)
(* images.                                                                 *)
(*                                                                         *)
(* ReferencedImagesExist is not inductive: the commit of a deletion keeps  *)
(* it only if nothing refers to the image since the check, which needs     *)
(* that every save commits under locks of its own, on rows that exist.     *)
(***************************************************************************)
EXTENDS MCBlogArticles, FiniteSetTheorems, WellFoundedInduction, TLAPS

(* Locked rows exist and are locked by one transaction.                    *)
LocksExist == \A e \in Editors : \A i \in Held(e) : images[i] = "stored"

LocksExclusive ==
    \A e, f \in Editors : \A i \in Held(e) : i \in Held(f) => e = f

(* What a transaction checked, it checked holding all its locks.           *)
CheckedIsLocked ==
    \A e \in Editors : tx[e].at = "checked" => tx[e].todo = {}

(* Nothing refers to an image whose deletion passed its check.             *)
CheckedIsUnreferenced ==
    \A e \in Editors : tx[e].op = "delete" /\ tx[e].at = "checked" =>
        \A i \in tx[e].refs : ~Referenced(i)

TxOK ==
    /\ images \in [Images -> {"unused", "stored", "deleted"}]
    /\ tx \in [Editors -> Tx]

Locks == LocksExist /\ LocksExclusive /\ CheckedIsLocked

Inv == /\ TypeOK
       /\ Locks
       /\ CheckedIsUnreferenced
       /\ ReferencedImagesExist

-----------------------------------------------------------------------------
(* Saving a version keeps a sequence of at most MaxVersions sets, and every*)
(* set in it was there before or is the new one.                           *)
LEMMA SaveVersionLemma ==
    ASSUME NEW s \in Seq(SUBSET Images), NEW r \in SUBSET Images,
           Len(s) <= MaxVersions
    PROVE  /\ SaveVersion(s, r) \in Seq(SUBSET Images)
           /\ Len(SaveVersion(s, r)) <= MaxVersions
           /\ \A n \in DOMAIN SaveVersion(s, r) :
                 \/ SaveVersion(s, r)[n] = r
                 \/ \E m \in DOMAIN s : SaveVersion(s, r)[n] = s[m]
<1>1. CASE Len(s) < MaxVersions
  BY <1>1, ArticlesAssumption DEF SaveVersion
<1>2. CASE ~(Len(s) < MaxVersions)
  <2>1. Len(s) = MaxVersions /\ s # <<>>
    BY <1>2, ArticlesAssumption
  <2>2. /\ Tail(s) \in Seq(SUBSET Images)
        /\ Len(Tail(s)) = Len(s) - 1
        /\ \A n \in 1..Len(s) - 1 : Tail(s)[n] = s[n + 1]
    BY <2>1
  <2>3. SaveVersion(s, r) = Append(Tail(s), r)
    BY <1>2 DEF SaveVersion
  <2>4. /\ Append(Tail(s), r) \in Seq(SUBSET Images)
        /\ Len(Append(Tail(s), r)) = Len(s)
        /\ Append(Tail(s), r)[Len(s)] = r
        /\ \A n \in 1..Len(s) - 1 : Append(Tail(s), r)[n] = s[n + 1]
    BY <2>1, <2>2
  <2> QED  BY <2>1, <2>3, <2>4
<1> QED  BY <1>1, <1>2

(* The same of an autosave, which replaces the last version.               *)
LEMMA AutosaveLemma ==
    ASSUME NEW s \in Seq(SUBSET Images), NEW r \in SUBSET Images,
           Len(s) <= MaxVersions
    PROVE  /\ Autosave(s, r) \in Seq(SUBSET Images)
           /\ Len(Autosave(s, r)) <= MaxVersions
           /\ \A n \in DOMAIN Autosave(s, r) :
                 \/ Autosave(s, r)[n] = r
                 \/ \E m \in DOMAIN s : Autosave(s, r)[n] = s[m]
<1>1. CASE s = <<>>
  BY <1>1, ArticlesAssumption DEF Autosave
<1>2. CASE s # <<>>
  BY <1>2 DEF Autosave
<1> QED  BY <1>1, <1>2

-----------------------------------------------------------------------------
(* The choices behind Idle exist: a transaction has an article and a slug. *)
LEMMA IdleIsTx ==
    /\ Idle \in Tx /\ AnyPost \in Articles /\ AnySlug \in Slugs
    /\ Idle.op = "idle" /\ Idle.at = "locking"
    /\ Idle.refs = {} /\ Idle.todo = {}
BY ArticlesAssumption DEF Idle, Tx, AnyPost, AnySlug

(* A transaction that ends, by commit or rollback, or begins holds no lock *)
(* and leaves the locks and checks of the others as they are.              *)
LEMMA FreshTx ==
    ASSUME TxOK, Locks, NEW e \in Editors, NEW t \in Tx,
           t.refs = t.todo, t.at = "locking",
           tx' = [tx EXCEPT ![e] = t],
           \A f \in Editors \ {e} : \A i \in Held(f) : images'[i] = images[i]
    PROVE  Locks' /\ Held(e)' = {}
                  /\ \A f \in Editors \ {e} : tx'[f] = tx[f] /\ Held(f)' = Held(f)
<1>1. tx'[e] = t /\ \A f \in Editors \ {e} : tx'[f] = tx[f]
  BY DEF TxOK
<1>2. Held(e)' = {} /\ \A f \in Editors \ {e} : Held(f)' = Held(f)
  BY <1>1 DEF Held
<1>3. LocksExist'
  BY <1>2 DEF Locks, LocksExist
<1>4. LocksExclusive'
  BY <1>2 DEF Locks, LocksExclusive
<1>5. CheckedIsLocked'
  BY <1>1 DEF Locks, CheckedIsLocked
<1> QED  BY <1>1, <1>2, <1>3, <1>4, <1>5 DEF Locks

(* References that were there before keep their images, and a checked      *)
(* deletion keeps its check, in a step that leaves rows and versions alone.*)
LEMMA SameReferences ==
    ASSUME UNCHANGED <<posts, versions>>, NEW i
    PROVE  Referenced(i)' <=> Referenced(i)
BY DEF Referenced

-----------------------------------------------------------------------------
LEMMA InitInv == Init => Inv
<1> SUFFICES ASSUME Init PROVE Inv
  OBVIOUS
<1>1. TypeOK
  <2>1. posts \in [Articles -> Post]
    BY IdleIsTx DEF Init, Post
  <2>2. /\ versions \in [Articles -> Seq(SUBSET Images)]
        /\ \A p \in Articles : Len(versions[p]) <= MaxVersions
    BY ArticlesAssumption DEF Init
  <2> QED  BY <2>1, <2>2, IdleIsTx DEF Init, TypeOK
<1>2. Locks
  BY IdleIsTx DEF Init, Locks, LocksExist, LocksExclusive, CheckedIsLocked, Held
<1>3. \A i : ~Referenced(i)
  BY DEF Init, Referenced
<1> QED  BY <1>1, <1>2, <1>3, IdleIsTx
         DEF Inv, CheckedIsUnreferenced, ReferencedImagesExist, Init

LEMMA BeginSaveInv ==
    ASSUME Inv, NEW e \in Editors, NEW p \in Articles, NEW slug \in Slugs,
           NEW cover \in Images \cup {NoImage}, NEW body \in SUBSET Images,
           NEW mode \in {"draft", "publish", "withdraw"},
           BeginSave(e, p, slug, cover, body, mode)
    PROVE  Inv'
<1> DEFINE refs == body \cup (IF cover = NoImage THEN {} ELSE {cover})
           t == [op |-> "save", at |-> "locking", post |-> p, slug |-> slug,
                 cover |-> cover, mode |-> mode, refs |-> refs, todo |-> refs,
                 first |-> FALSE]
<1>1. /\ tx' = [tx EXCEPT ![e] = t]
      /\ UNCHANGED <<images, posts, versions>>
  BY DEF BeginSave
<1>2. t \in Tx /\ t.refs = t.todo /\ t.at = "locking"
  BY DEF Tx
<1>3. TypeOK'
  BY <1>1, <1>2 DEF Inv, TypeOK
<1> HIDE DEF t
<1>4. /\ Locks'
      /\ \A f \in Editors \ {e} : tx'[f] = tx[f] /\ Held(f)' = Held(f)
  BY <1>1, <1>2, FreshTx DEF Inv, TypeOK, TxOK
<1>5. CheckedIsUnreferenced' /\ ReferencedImagesExist'
  BY <1>1, <1>2, <1>4, SameReferences
     DEF Inv, TypeOK, CheckedIsUnreferenced, ReferencedImagesExist
<1> QED  BY <1>3, <1>4, <1>5 DEF Inv

LEMMA BeginDeleteInv ==
    ASSUME Inv, NEW e \in Editors, NEW i \in Images, BeginDelete(e, i)
    PROVE  Inv'
<1> DEFINE t == [tx[e] EXCEPT !.op = "delete", !.refs = {i}, !.todo = {i}]
<1>1. /\ tx' = [tx EXCEPT ![e] = t]
      /\ tx[e] = Idle
      /\ UNCHANGED <<images, posts, versions>>
  BY DEF BeginDelete, MayStart, Inv, TypeOK
<1>2. t \in Tx /\ t.refs = t.todo /\ t.at = "locking"
  BY <1>1, IdleIsTx DEF Tx
<1>3. TypeOK'
  BY <1>1, <1>2 DEF Inv, TypeOK
<1> HIDE DEF t
<1>4. /\ Locks'
      /\ \A f \in Editors \ {e} : tx'[f] = tx[f] /\ Held(f)' = Held(f)
  BY <1>1, <1>2, FreshTx DEF Inv, TypeOK, TxOK
<1>5. CheckedIsUnreferenced' /\ ReferencedImagesExist'
  BY <1>1, <1>2, <1>4, SameReferences
     DEF Inv, TypeOK, CheckedIsUnreferenced, ReferencedImagesExist
<1> QED  BY <1>3, <1>4, <1>5 DEF Inv

LEMMA RefuseInv ==
    ASSUME Inv, NEW e \in Editors, Refuse(e)
    PROVE  Inv'
<1>1. /\ tx' = [tx EXCEPT ![e] = Idle]
      /\ UNCHANGED <<images, posts, versions>>
  BY DEF Refuse
<1>2. TypeOK'
  BY <1>1, IdleIsTx DEF Inv, TypeOK
<1>3. /\ Locks'
      /\ \A f \in Editors \ {e} : tx'[f] = tx[f] /\ Held(f)' = Held(f)
  BY <1>1, IdleIsTx, FreshTx DEF Inv, TypeOK, TxOK
<1>4. CheckedIsUnreferenced' /\ ReferencedImagesExist'
  BY <1>1, <1>3, IdleIsTx, SameReferences
     DEF Inv, TypeOK, CheckedIsUnreferenced, ReferencedImagesExist
<1> QED  BY <1>2, <1>3, <1>4 DEF Inv

LEMMA LockImageInv ==
    ASSUME Inv, NEW e \in Editors, NEW i \in Images, LockImage(e, i)
    PROVE  Inv'
<1>1. /\ i \in tx[e].todo /\ images[i] = "stored"
      /\ \A f \in Editors \ {e} : i \notin Held(f)
      /\ tx' = [tx EXCEPT ![e].todo = @ \ {i}]
      /\ UNCHANGED <<images, posts, versions>>
  BY DEF LockImage, IsNext
<1>2. TypeOK'
  <2>1. tx[e] \in Tx
    BY DEF Inv, TypeOK
  <2>2. [tx[e] EXCEPT !.todo = tx[e].todo \ {i}] \in Tx
    BY <2>1 DEF Tx
  <2>3. tx' = [tx EXCEPT ![e] = [tx[e] EXCEPT !.todo = tx[e].todo \ {i}]]
    BY <1>1
  <2> QED  BY <1>1, <2>2, <2>3 DEF Inv, TypeOK
<1>3. /\ tx'[e].refs = tx[e].refs /\ tx'[e].todo = tx[e].todo \ {i}
      /\ tx'[e].op = tx[e].op /\ tx'[e].at = tx[e].at
      /\ \A f \in Editors \ {e} : tx'[f] = tx[f]
  BY <1>1 DEF Inv, TypeOK, Tx
<1>4. /\ Held(e)' \subseteq Held(e) \cup {i}
      /\ \A f \in Editors \ {e} : Held(f)' = Held(f)
  BY <1>3 DEF Held
<1>5. Locks'
  <2>1. LocksExist'
    BY <1>1, <1>4 DEF Inv, Locks, LocksExist
  <2>2. LocksExclusive'
    BY <1>1, <1>4 DEF Inv, Locks, LocksExclusive
  <2>3. CheckedIsLocked'
    BY <1>3 DEF Inv, Locks, CheckedIsLocked
  <2> QED  BY <2>1, <2>2, <2>3 DEF Locks
<1>6. CheckedIsUnreferenced' /\ ReferencedImagesExist'
  <2>1. \A f \in Editors : /\ tx'[f].op = tx[f].op /\ tx'[f].at = tx[f].at
                           /\ tx'[f].refs = tx[f].refs
    BY <1>3
  <2> QED  BY <1>1, <2>1, SameReferences
           DEF Inv, CheckedIsUnreferenced, ReferencedImagesExist
<1> QED  BY <1>2, <1>5, <1>6 DEF Inv

(* A transaction that passes its check keeps its locks.                    *)
LEMMA CheckedTx ==
    ASSUME Inv, NEW e \in Editors, NEW b \in BOOLEAN, tx[e].todo = {},
           \/ tx' = [tx EXCEPT ![e].at = "checked", ![e].first = b]
           \/ tx' = [tx EXCEPT ![e].at = "checked"],
           UNCHANGED <<images, posts, versions>>
    PROVE  /\ TypeOK' /\ Locks' /\ ReferencedImagesExist'
           /\ tx'[e].op = tx[e].op /\ tx'[e].refs = tx[e].refs
           /\ \A f \in Editors \ {e} : tx'[f] = tx[f]
<1>1. TypeOK'
  <2>1. tx[e] \in Tx
    BY DEF Inv, TypeOK
  <2>2. /\ [tx[e] EXCEPT !.at = "checked"] \in Tx
        /\ [tx[e] EXCEPT !.at = "checked", !.first = b] \in Tx
    BY <2>1 DEF Tx
  <2>3. \/ tx' = [tx EXCEPT ![e] = [tx[e] EXCEPT !.at = "checked", !.first = b]]
        \/ tx' = [tx EXCEPT ![e] = [tx[e] EXCEPT !.at = "checked"]]
    OBVIOUS
  <2>4. tx' \in [Editors -> Tx]
    BY <2>2, <2>3 DEF Inv, TypeOK
  <2> QED  BY <2>4 DEF Inv, TypeOK
<1>2. /\ tx'[e].op = tx[e].op /\ tx'[e].refs = tx[e].refs
      /\ tx'[e].todo = tx[e].todo
      /\ \A f \in Editors \ {e} : tx'[f] = tx[f]
  BY DEF Inv, TypeOK, Tx
<1>3. \A f \in Editors : Held(f)' = Held(f)
  BY <1>2 DEF Held
<1>4. Locks'
  BY <1>2, <1>3 DEF Inv, Locks, LocksExist, LocksExclusive, CheckedIsLocked
<1>5. ReferencedImagesExist'
  BY SameReferences DEF Inv, ReferencedImagesExist
<1> QED  BY <1>1, <1>2, <1>4, <1>5

LEMMA CheckPostInv ==
    ASSUME Inv, NEW e \in Editors, CheckPost(e)
    PROVE  Inv'
<1>1. /\ tx[e].todo = {} /\ tx[e].op = "save"
      /\ tx' = [tx EXCEPT ![e].at = "checked",
                          ![e].first = posts[tx[e].post].first]
      /\ UNCHANGED <<images, posts, versions>>
  BY DEF CheckPost
<1>2. posts[tx[e].post].first \in BOOLEAN
  BY DEF Inv, TypeOK, Tx, Post
<1>3. /\ TypeOK' /\ Locks' /\ ReferencedImagesExist'
      /\ tx'[e].op = tx[e].op
      /\ \A f \in Editors \ {e} : tx'[f] = tx[f]
  BY <1>1, <1>2, CheckedTx
<1>4. CheckedIsUnreferenced'
  BY <1>1, <1>3, SameReferences DEF Inv, CheckedIsUnreferenced
<1> QED  BY <1>3, <1>4 DEF Inv

LEMMA CheckImageInv ==
    ASSUME Inv, NEW e \in Editors, CheckImage(e)
    PROVE  Inv'
<1>1. /\ tx[e].todo = {}
      /\ \A i \in tx[e].refs : ~Referenced(i)
      /\ tx' = [tx EXCEPT ![e].at = "checked"]
      /\ UNCHANGED <<images, posts, versions>>
  BY DEF CheckImage
<1>2. /\ TypeOK' /\ Locks' /\ ReferencedImagesExist'
      /\ tx'[e].refs = tx[e].refs
      /\ \A f \in Editors \ {e} : tx'[f] = tx[f]
  BY <1>1, CheckedTx
<1>3. CheckedIsUnreferenced'
  BY <1>1, <1>2, SameReferences DEF Inv, CheckedIsUnreferenced
<1> QED  BY <1>2, <1>3 DEF Inv

(* The heart of the protocol: what a save writes, it holds locks on, and   *)
(* so does a deletion that passed its check; the two cannot be one image.  *)
LEMMA CommitSaveInv ==
    ASSUME Inv, NEW e \in Editors, CommitSave(e)
    PROVE  Inv'
<1> DEFINE p == tx[e].post
           r == tx[e].refs
<1>1. /\ tx[e].op = "save" /\ tx[e].at = "checked"
      /\ tx' = [tx EXCEPT ![e] = Idle] /\ images' = images
      /\ p \in Articles /\ r \in SUBSET Images
      /\ versions[p] \in Seq(SUBSET Images) /\ Len(versions[p]) <= MaxVersions
  BY DEF CommitSave, Inv, TypeOK, Tx
<1>2. r = Held(e)
  BY <1>1 DEF Held, Inv, Locks, CheckedIsLocked
<1>3. PICK row \in Post :
        /\ posts' = posts \/ posts' = [posts EXCEPT ![p] = row]
        /\ row.refs = r
  <2> DEFINE written ==
        [status |-> IF tx[e].mode = "publish" THEN "published" ELSE "draft",
         slug |-> tx[e].slug, refs |-> r,
         first |-> tx[e].first \/ tx[e].mode = "publish"]
  <2>1. tx[e].slug \in Slugs /\ tx[e].first \in BOOLEAN
    BY DEF Inv, TypeOK, Tx
  <2>2. (tx[e].first \/ tx[e].mode = "publish") \in BOOLEAN
    OBVIOUS
  <2>3. written \in Post /\ written.refs = r
    BY <1>1, <2>1, <2>2 DEF Post
  <2>4. posts' = posts \/ posts' = [posts EXCEPT ![p] = written]
    BY DEF CommitSave
  <2> QED  BY <2>3, <2>4
<1>4. PICK s \in Seq(SUBSET Images) :
        /\ versions' = [versions EXCEPT ![p] = s]
        /\ Len(s) <= MaxVersions
        /\ \A n \in DOMAIN s :
              s[n] = r \/ \E m \in DOMAIN versions[p] : s[n] = versions[p][m]
  <2>1. CASE versions' = [versions EXCEPT ![p] = SaveVersion(@, r)]
    <3>1. versions' = [versions EXCEPT ![p] = SaveVersion(versions[p], r)]
      BY <2>1
    <3> QED  BY <1>1, <3>1, SaveVersionLemma
  <2>2. CASE versions' = [versions EXCEPT ![p] = Autosave(@, r)]
    <3>1. versions' = [versions EXCEPT ![p] = Autosave(versions[p], r)]
      BY <2>2
    <3> QED  BY <1>1, <3>1, AutosaveLemma
  <2> QED  BY <2>1, <2>2 DEF CommitSave
<1> HIDE DEF p, r
<1>5. TypeOK'
  <2>1. posts' \in [Articles -> Post]
    BY <1>1, <1>3 DEF Inv, TypeOK
  <2>2. /\ versions' \in [Articles -> Seq(SUBSET Images)]
        /\ \A q \in Articles : Len(versions'[q]) <= MaxVersions
    BY <1>1, <1>4 DEF Inv, TypeOK
  <2>3. tx' \in [Editors -> Tx]
    BY <1>1, IdleIsTx DEF Inv, TypeOK
  <2> QED  BY <1>1, <2>1, <2>2, <2>3 DEF Inv, TypeOK
<1>6. /\ Locks'
      /\ \A f \in Editors \ {e} : tx'[f] = tx[f] /\ Held(f)' = Held(f)
  BY <1>1, IdleIsTx, FreshTx DEF Inv, TypeOK, TxOK
<1>7. \A i : Referenced(i)' => Referenced(i) \/ i \in r
  <2> SUFFICES ASSUME NEW i, Referenced(i)', i \notin r
               PROVE  Referenced(i)
    OBVIOUS
  <2>1. PICK q \in Articles :
          \/ i \in posts'[q].refs
          \/ \E n \in DOMAIN versions'[q] : i \in versions'[q][n]
    BY DEF Referenced
  <2>2. CASE i \in posts'[q].refs
    <3>1. i \in posts[q].refs
      BY <1>3, <2>2 DEF Inv, TypeOK
    <3> QED  BY <3>1 DEF Referenced
  <2>3. CASE \E n \in DOMAIN versions'[q] : i \in versions'[q][n]
    <3>1. PICK n \in DOMAIN versions'[q] : i \in versions'[q][n]
      BY <2>3
    <3>2. \E m \in DOMAIN versions[q] : i \in versions[q][m]
      <4>1. CASE q = p
        <5>1. versions'[q] = s
          BY <1>4, <4>1 DEF Inv, TypeOK
        <5> QED  BY <1>4, <3>1, <4>1, <5>1
      <4>2. CASE q # p
        <5>1. versions'[q] = versions[q]
          BY <1>4, <4>2 DEF Inv, TypeOK
        <5> QED  BY <3>1, <5>1
      <4> QED  BY <4>1, <4>2
    <3> QED  BY <3>2 DEF Referenced
  <2> QED  BY <2>1, <2>2, <2>3
<1>8. ReferencedImagesExist'
  BY <1>1, <1>2, <1>7 DEF Inv, ReferencedImagesExist, Locks, LocksExist
<1>9. CheckedIsUnreferenced'
  <2> SUFFICES ASSUME NEW f \in Editors,
                      tx'[f].op = "delete", tx'[f].at = "checked",
                      NEW i \in tx'[f].refs, Referenced(i)'
               PROVE  FALSE
    BY DEF CheckedIsUnreferenced
  <2>1. f # e /\ tx'[f] = tx[f]
    BY <1>1, <1>6, IdleIsTx DEF Inv, TypeOK
  <2>2. ~Referenced(i)
    BY <2>1 DEF Inv, CheckedIsUnreferenced
  <2>3. i \in Held(e)
    BY <1>2, <1>7, <2>2
  <2>4. i \in Held(f)
    BY <2>1 DEF Held, Inv, Locks, CheckedIsLocked
  <2> QED  BY <2>1, <2>3, <2>4 DEF Inv, Locks, LocksExclusive
<1> QED  BY <1>5, <1>6, <1>8, <1>9 DEF Inv

LEMMA CommitDeleteInv ==
    ASSUME Inv, NEW e \in Editors, CommitDelete(e)
    PROVE  Inv'
<1>1. /\ tx[e].op = "delete" /\ tx[e].at = "checked"
      /\ images' = [i \in Images |-> IF i \in tx[e].refs THEN "deleted" ELSE images[i]]
      /\ tx' = [tx EXCEPT ![e] = Idle]
      /\ UNCHANGED <<posts, versions>>
  BY DEF CommitDelete
<1>2. tx[e].refs = Held(e) /\ tx[e].refs \subseteq Images
  BY <1>1 DEF Held, Inv, TypeOK, Tx, Locks, CheckedIsLocked
<1>3. TypeOK'
  BY <1>1, IdleIsTx DEF Inv, TypeOK
<1>4. \A f \in Editors \ {e} : \A i \in Held(f) : images'[i] = images[i]
  BY <1>1, <1>2 DEF Inv, TypeOK, Tx, Locks, LocksExclusive, Held
<1>5. /\ Locks'
      /\ \A f \in Editors \ {e} : tx'[f] = tx[f] /\ Held(f)' = Held(f)
  BY <1>1, <1>4, IdleIsTx, FreshTx DEF Inv, TypeOK, TxOK
<1>6. CheckedIsUnreferenced'
  BY <1>1, <1>5, IdleIsTx, SameReferences DEF Inv, TypeOK, CheckedIsUnreferenced
<1>7. ReferencedImagesExist'
  BY <1>1, SameReferences DEF Inv, ReferencedImagesExist, CheckedIsUnreferenced
<1> QED  BY <1>3, <1>5, <1>6, <1>7 DEF Inv

LEMMA UploadInv ==
    ASSUME Inv, NEW i \in Images, Upload(i)
    PROVE  Inv'
<1>1. /\ images' = [images EXCEPT ![i] = "stored"]
      /\ UNCHANGED <<posts, versions, tx>>
  BY DEF Upload
<1>2. TypeOK'
  BY <1>1 DEF Inv, TypeOK
<1>3. \A f \in Editors : Held(f)' = Held(f) /\ Held(f) \subseteq Images
  BY <1>1 DEF Held, Inv, TypeOK, Tx
<1>4. Locks'
  BY <1>1, <1>3
     DEF Inv, TypeOK, Locks, LocksExist, LocksExclusive, CheckedIsLocked
<1>5. CheckedIsUnreferenced' /\ ReferencedImagesExist'
  BY <1>1, SameReferences
     DEF Inv, TypeOK, CheckedIsUnreferenced, ReferencedImagesExist
<1> QED  BY <1>2, <1>4, <1>5 DEF Inv

LEMMA DeletePostInv ==
    ASSUME Inv, NEW p \in Articles, DeletePost(p)
    PROVE  Inv'
<1>1. /\ posts' = [posts EXCEPT ![p] = [status |-> "deleted", slug |-> AnySlug,
                                        refs |-> {}, first |-> FALSE]]
      /\ versions' = [versions EXCEPT ![p] = <<>>]
      /\ UNCHANGED <<images, tx>>
  BY DEF DeletePost
<1>2. TypeOK'
  <2>1. posts' \in [Articles -> Post]
    BY <1>1, IdleIsTx DEF Inv, TypeOK, Post
  <2>2. /\ versions' \in [Articles -> Seq(SUBSET Images)]
        /\ \A q \in Articles : Len(versions'[q]) <= MaxVersions
    BY <1>1, ArticlesAssumption DEF Inv, TypeOK
  <2> QED  BY <1>1, <2>1, <2>2 DEF Inv, TypeOK
<1>3. Locks'
  BY <1>1 DEF Inv, Locks, LocksExist, LocksExclusive, CheckedIsLocked, Held
<1>4. \A i : Referenced(i)' => Referenced(i)
  <2> SUFFICES ASSUME NEW i, NEW q \in Articles,
                      \/ i \in posts'[q].refs
                      \/ \E n \in DOMAIN versions'[q] : i \in versions'[q][n]
               PROVE  /\ q # p
                      /\ \/ i \in posts[q].refs
                         \/ \E n \in DOMAIN versions[q] : i \in versions[q][n]
    BY DEF Referenced
  <2>1. posts'[p].refs = {} /\ versions'[p] = <<>>
    BY <1>1 DEF Inv, TypeOK, Post
  <2>2. q # p
    BY <2>1
  <2> QED  BY <1>1, <2>2 DEF Inv, TypeOK
<1>5. CheckedIsUnreferenced' /\ ReferencedImagesExist'
  BY <1>1, <1>4 DEF Inv, CheckedIsUnreferenced, ReferencedImagesExist
<1> QED  BY <1>2, <1>3, <1>5 DEF Inv

-----------------------------------------------------------------------------
LEMMA NextInv == Inv /\ [Next]_vars => Inv'
<1> SUFFICES ASSUME Inv, [Next]_vars PROVE Inv'
  OBVIOUS
<1>1. ASSUME NEW e \in Editors, Save(e) PROVE Inv'
  BY <1>1, BeginSaveInv, CheckPostInv, CommitSaveInv DEF Save
<1>2. ASSUME NEW e \in Editors, CheckImage(e) PROVE Inv'
  BY <1>2, CheckImageInv
<1>3. ASSUME NEW e \in Editors, CommitDelete(e) PROVE Inv'
  BY <1>3, CommitDeleteInv
<1>4. ASSUME NEW e \in Editors, Refuse(e) PROVE Inv'
  BY <1>4, RefuseInv
<1>5. ASSUME NEW e \in Editors, NEW i \in Images, LockImage(e, i) PROVE Inv'
  BY <1>5, LockImageInv
<1>6. ASSUME NEW e \in Editors, NEW i \in Images, BeginDelete(e, i) PROVE Inv'
  BY <1>6, BeginDeleteInv
<1>7. ASSUME NEW i \in Images, Upload(i) PROVE Inv'
  BY <1>7, UploadInv
<1>8. ASSUME NEW p \in Articles, DeletePost(p) PROVE Inv'
  BY <1>8, DeletePostInv
<1>9. CASE UNCHANGED vars
  BY <1>9 DEF vars, Inv, TypeOK, Locks, LocksExist, LocksExclusive, Held,
              CheckedIsLocked, CheckedIsUnreferenced, ReferencedImagesExist,
              Referenced
<1> QED  BY <1>1, <1>2, <1>3, <1>4, <1>5, <1>6, <1>7, <1>8, <1>9 DEF Next

(* cms/MEDIA_STORAGE.md: "a concurrent save cannot successfully reference a*)
(* file being deleted"; media-references.ts keeps every image an article or*)
(* a retained version refers to, for any number of concurrent editors.     *)
THEOREM ImagesAreKept == Spec => [](TypeOK /\ ReferencedImagesExist)
<1>1. Inv => TypeOK /\ ReferencedImagesExist
  BY DEF Inv
<1> QED  BY InitInv, NextInv, <1>1, PTL DEF Spec

-----------------------------------------------------------------------------
(* The locks a transaction holds come before those it still wants.         *)
Ordered == \A e \in Editors : \A i \in Held(e), j \in tx[e].todo : i < j

LEMMA OrderedInit == Init => Ordered
  BY IdleIsTx DEF Init, Ordered

LEMMA LockImageOrdered ==
    ASSUME Inv, Ordered, NEW e \in Editors, NEW i \in Images, LockImage(e, i)
    PROVE  Ordered'
<1>1. /\ i \in tx[e].todo /\ \A j \in tx[e].todo : i <= j
      /\ tx' = [tx EXCEPT ![e].todo = @ \ {i}]
  BY DEF LockImage, IsNext
<1>2. /\ tx'[e].refs = tx[e].refs /\ tx'[e].todo = tx[e].todo \ {i}
      /\ tx[e].todo \subseteq Nat
      /\ \A f \in Editors \ {e} : tx'[f] = tx[f]
  BY <1>1, ArticlesAssumption DEF Inv, TypeOK, Tx
<1>3. /\ Held(e)' \subseteq Held(e) \cup {i}
      /\ \A f \in Editors \ {e} : Held(f)' = Held(f)
  BY <1>2 DEF Held
<1>4. ASSUME NEW f \in Editors, NEW h \in Held(f)', NEW j \in tx'[f].todo
      PROVE  h < j
  <2>1. CASE f # e
    BY <1>2, <1>3, <1>4, <2>1 DEF Ordered
  <2>2. CASE f = e /\ h \in Held(e)
    BY <1>2, <1>4, <2>2 DEF Ordered
  <2>3. CASE f = e /\ h = i
    BY <1>1, <1>2, <1>4, <2>3
  <2> QED  BY <1>3, <1>4, <2>1, <2>2, <2>3
<1> QED  BY <1>4 DEF Ordered

(* Every other step keeps what a transaction holds and wants, or takes     *)
(* both from it, or gives it a fresh list.                                 *)
LEMMA NextOrdered == Inv /\ Ordered /\ [Next]_vars => Ordered'
<1> SUFFICES ASSUME Inv, Ordered, [Next]_vars PROVE Ordered'
  OBVIOUS
<1>1. ASSUME NEW e \in Editors, NEW t, tx' = [tx EXCEPT ![e] = t],
             \/ t.refs = t.todo
             \/ t.refs = tx[e].refs /\ t.todo = tx[e].todo
      PROVE  Ordered'
  <2>1. tx'[e] = t /\ \A f \in Editors \ {e} : tx'[f] = tx[f]
    BY <1>1 DEF Inv, TypeOK
  <2>2. \A f \in Editors :
            \/ Held(f)' = {}
            \/ Held(f)' = Held(f) /\ tx'[f].todo = tx[f].todo
    BY <1>1, <2>1 DEF Held
  <2> QED  BY <2>2 DEF Ordered
<1>2. ASSUME NEW e \in Editors, Save(e) PROVE Ordered'
  <2>1. ASSUME NEW p \in Articles, NEW slug \in Slugs,
               NEW cover \in Images \cup {NoImage}, NEW body \in SUBSET Images,
               NEW mode \in {"draft", "publish", "withdraw"},
               BeginSave(e, p, slug, cover, body, mode)
        PROVE  Ordered'
    <3> DEFINE refs == body \cup (IF cover = NoImage THEN {} ELSE {cover})
               t == [op |-> "save", at |-> "locking", post |-> p, slug |-> slug,
                     cover |-> cover, mode |-> mode, refs |-> refs, todo |-> refs,
                     first |-> FALSE]
    <3>1. tx' = [tx EXCEPT ![e] = t] /\ t.refs = t.todo
      BY <2>1 DEF BeginSave
    <3> QED  BY <1>1, <3>1
  <2>2. CASE CheckPost(e)
    <3> DEFINE t == [tx[e] EXCEPT !.at = "checked", !.first = posts[tx[e].post].first]
    <3>1. tx' = [tx EXCEPT ![e] = t] /\ t.refs = tx[e].refs /\ t.todo = tx[e].todo
      BY <2>2 DEF CheckPost, Inv, TypeOK, Tx
    <3> HIDE DEF t
    <3> QED  BY <1>1, <3>1
  <2>3. CASE CommitSave(e)
    BY <1>1, <2>3, IdleIsTx DEF CommitSave
  <2> QED  BY <1>2, <2>1, <2>2, <2>3 DEF Save
<1>3. ASSUME NEW e \in Editors, CheckImage(e) PROVE Ordered'
  <2> DEFINE t == [tx[e] EXCEPT !.at = "checked"]
  <2>1. tx' = [tx EXCEPT ![e] = t] /\ t.refs = tx[e].refs /\ t.todo = tx[e].todo
    BY <1>3 DEF CheckImage, Inv, TypeOK, Tx
  <2> HIDE DEF t
  <2> QED  BY <1>1, <2>1
<1>4. ASSUME NEW e \in Editors, CommitDelete(e) \/ Refuse(e) PROVE Ordered'
  BY <1>1, <1>4, IdleIsTx DEF CommitDelete, Refuse
<1>5. ASSUME NEW e \in Editors, NEW i \in Images, BeginDelete(e, i) PROVE Ordered'
  <2> DEFINE t == [tx[e] EXCEPT !.op = "delete", !.refs = {i}, !.todo = {i}]
  <2>0. tx[e] \in Tx
    BY DEF Inv, TypeOK
  <2>1. t.refs = t.todo
    BY <2>0 DEF Tx
  <2>2. tx' = [tx EXCEPT ![e] = t]
    BY <1>5 DEF BeginDelete
  <2> HIDE DEF t
  <2> QED  BY <1>1, <2>1, <2>2
<1>6. CASE tx' = tx
  BY <1>6 DEF Ordered, Held
<1> QED  BY <1>2, <1>3, <1>4, <1>5, <1>6, LockImageOrdered
         DEF Next, vars, Upload, DeletePost

(* Of finitely many, one has the highest number.                           *)
LEMMA Highest ==
    ASSUME NEW S, IsFiniteSet(S), S # {}, NEW m \in [S -> Nat]
    PROVE  \E e \in S : \A f \in S : m[f] <= m[e]
<1> DEFINE Above(e) == {f \in S : m[e] < m[f]}
           T == {Above(e) : e \in S}
<1>1. T \subseteq FiniteSubsetsOf(S) /\ T # {}
  <2>1. \A e \in S : Above(e) \in SUBSET S
    OBVIOUS
  <2>2. FiniteSubsetsOf(S) = SUBSET S
    BY FS_FiniteSubsetsOfFinite
  <2> HIDE DEF Above
  <2>3. \A x \in T : x \in SUBSET S
    BY <2>1
  <2>4. T # {}
    OBVIOUS
  <2> HIDE DEF T
  <2> QED  BY <2>2, <2>3, <2>4
<1>2. IsWellFoundedOn(StrictSubsetOrdering(S), FiniteSubsetsOf(S))
  BY FS_StrictSubsetOrderingWellFounded
<1> HIDE DEF T
<1>3. \E x \in T : \A y \in T : ~(<<y, x>> \in StrictSubsetOrdering(S))
  BY <1>1, <1>2, WFMin
<1>4. PICK e \in S : \A f \in S : ~(<<Above(f), Above(e)>> \in StrictSubsetOrdering(S))
  BY <1>3 DEF T
<1>5. ASSUME NEW f \in S, m[e] < m[f] PROVE FALSE
  <2>1. /\ Above(f) \subseteq Above(e) /\ Above(f) # Above(e)
        /\ Above(f) \in SUBSET S /\ Above(e) \in SUBSET S
    BY <1>5
  <2> HIDE DEF Above
  <2> QED  BY <1>4, <2>1 DEF StrictSubsetOrdering
<1> QED  BY <1>5

(* Along a wait the id that is waited for grows, so that of the            *)
(* transactions of a set the one waiting for the highest waits for none.   *)
LEMMA NoCycle == Inv /\ Ordered => NoLockCycle
<1> SUFFICES ASSUME Inv, Ordered, NEW S \in SUBSET Editors, S # {},
                    \A e \in S : \E f \in S : Waits(e, f)
             PROVE  FALSE
  BY DEF NoLockCycle
<1> DEFINE m == [e \in S |-> CHOOSE i \in Images : IsNext(e, i)]
<1>1. \A e \in S : tx[e].todo \subseteq Images /\ Images \subseteq Nat
  BY ArticlesAssumption DEF Inv, TypeOK, Tx
<1>2. \A e \in S : \E i \in Images : IsNext(e, i)
  BY <1>1 DEF Waits, IsNext
<1>3. \A e \in S : m[e] \in Images /\ IsNext(e, m[e])
  BY <1>2
<1>4. m \in [S -> Nat]
  BY <1>1, <1>3
<1>5. IsFiniteSet(S)
  BY ArticlesAssumption, FS_Subset
<1> HIDE DEF m
<1>6. PICK e \in S : \A f \in S : m[f] <= m[e]
  BY <1>4, <1>5, Highest
<1>7. PICK f \in S : Waits(e, f)
  OBVIOUS
<1>8. m[e] \in Held(f)
  <2>1. PICK i \in Held(f) : IsNext(e, i)
    BY <1>7 DEF Waits
  <2>2. i = m[e]
    BY <1>1, <1>3, <2>1 DEF IsNext
  <2> QED  BY <2>1, <2>2
<1>9. m[f] \in tx[f].todo
  BY <1>3 DEF IsNext
<1>10. m[e] < m[f]
  BY <1>8, <1>9 DEF Ordered
<1> QED  BY <1>4, <1>6, <1>10

(* media-references.ts:30-37: the locks are taken in the order of the ids, *)
(* so that no set of transactions waits in a circle, however many saves    *)
(* and deletions run at the same time.                                     *)
THEOREM NoDeadlock == Spec => []NoLockCycle
<1>1. Init => Inv /\ Ordered
  BY InitInv, OrderedInit
<1>2. Inv /\ Ordered /\ [Next]_vars => (Inv /\ Ordered)'
  BY NextInv, NextOrdered
<1> QED  BY <1>1, <1>2, NoCycle, PTL DEF Spec

-----------------------------------------------------------------------------
(* What a save read when it tested the row is still there, and it keeps to *)
(* the slug, while no other save has overtaken it.                         *)
CheckedIsCurrent ==
    \A e \in Editors : LET t == tx[e] IN
        t.op = "save" /\ t.at = "checked" /\ t.post \notin stale =>
            /\ t.first = posts[t.post].first
            /\ t.first => t.slug = posts[t.post].slug

(* A step of a save, of a deletion or of the library tests the row now,    *)
(* keeps the test of before, or is not past it.                            *)
LEMMA NextChecked ==
    ASSUME Inv, Next, NEW e \in Editors,
           tx'[e].op = "save", tx'[e].at = "checked"
    PROVE  \/ tx'[e] = tx[e]
           \/ /\ tx'[e].first = posts[tx'[e].post].first
              /\ tx'[e].first => tx'[e].slug = posts[tx'[e].post].slug
              /\ posts' = posts
<1>1. ASSUME NEW f \in Editors, NEW t, tx' = [tx EXCEPT ![f] = t],
             t.at = "locking" \/ f # e
      PROVE  tx'[e] = tx[e]
  BY <1>1 DEF Inv, TypeOK
<1>2. ASSUME NEW f \in Editors, f # e, NEW i, tx' = [tx EXCEPT ![f].todo = @ \ {i}]
      PROVE  tx'[e] = tx[e]
  BY <1>2 DEF Inv, TypeOK
<1>3. tx[e] \in Tx /\ tx \in [Editors -> Tx]
  BY DEF Inv, TypeOK
<1>4. CASE CheckPost(e)
  <2>1. /\ tx'[e] = [tx[e] EXCEPT !.at = "checked", !.first = posts[tx[e].post].first]
        /\ posts[tx[e].post].first => tx[e].slug = posts[tx[e].post].slug
        /\ posts' = posts
    BY <1>3, <1>4 DEF CheckPost
  <2> QED  BY <1>3, <2>1 DEF Tx
<1>5. ASSUME NEW f \in Editors, f # e, CheckPost(f) PROVE tx'[e] = tx[e]
  BY <1>3, <1>5 DEF CheckPost
<1>6. ASSUME NEW f \in Editors, NEW p \in Articles, NEW slug \in Slugs,
             NEW cover \in Images \cup {NoImage}, NEW body \in SUBSET Images,
             NEW mode \in {"draft", "publish", "withdraw"},
             BeginSave(f, p, slug, cover, body, mode)
      PROVE  tx'[e] = tx[e]
  <2> DEFINE refs == body \cup (IF cover = NoImage THEN {} ELSE {cover})
             t == [op |-> "save", at |-> "locking", post |-> p, slug |-> slug,
                   cover |-> cover, mode |-> mode, refs |-> refs, todo |-> refs,
                   first |-> FALSE]
  <2>1. tx' = [tx EXCEPT ![f] = t] /\ t.at = "locking"
    BY <1>6 DEF BeginSave
  <2> QED  BY <1>1, <2>1
<1>7. ASSUME NEW f \in Editors, CommitSave(f) \/ CommitDelete(f) \/ Refuse(f)
      PROVE  tx'[e] = tx[e]
  BY <1>1, <1>7, IdleIsTx DEF CommitSave, CommitDelete, Refuse
<1>8. ASSUME NEW f \in Editors, CheckImage(f) PROVE tx'[e] = tx[e]
  BY <1>3, <1>8 DEF CheckImage, Tx
<1>9. ASSUME NEW f \in Editors, NEW i \in Images, LockImage(f, i) PROVE tx'[e] = tx[e]
  <2>1. CASE f # e
    BY <1>3, <1>9, <2>1 DEF LockImage
  <2>2. CASE f = e
    <3>1. tx'[e].at = tx[e].at /\ i \in tx[e].todo
      BY <1>3, <1>9, <2>2 DEF LockImage, IsNext, Tx
    <3> QED  BY <3>1 DEF Inv, Locks, CheckedIsLocked
  <2> QED  BY <2>1, <2>2
<1>10. ASSUME NEW f \in Editors, NEW i \in Images, BeginDelete(f, i) PROVE tx'[e] = tx[e]
  BY <1>3, <1>10, IdleIsTx DEF BeginDelete, Tx
<1>11. CASE tx' = tx
  BY <1>11
<1> QED  BY <1>4, <1>5, <1>6, <1>7, <1>8, <1>9, <1>10, <1>11
         DEF Next, Save, Upload, DeletePost

LEMMA CurrentInv ==
    Inv /\ CheckedIsCurrent /\ [MCNext]_<<vars, stale>> => CheckedIsCurrent'
<1> SUFFICES ASSUME Inv, CheckedIsCurrent, MCNext PROVE CheckedIsCurrent'
  BY DEF CheckedIsCurrent, vars
<1> SUFFICES ASSUME NEW e \in Editors, tx'[e].op = "save", tx'[e].at = "checked",
                    tx'[e].post \notin stale'
             PROVE  /\ tx'[e].first = posts'[tx'[e].post].first
                    /\ tx'[e].first => tx'[e].slug = posts'[tx'[e].post].slug
  BY DEF CheckedIsCurrent
<1>1. CASE tx'[e] = tx[e]
  <2>1. tx[e].post \in Articles /\ tx[e].post \notin stale
    BY <1>1 DEF MCNext, Inv, TypeOK, Tx
  <2>2. posts'[tx[e].post] = posts[tx[e].post]
    BY <1>1, <2>1 DEF MCNext, Overtakes
  <2> QED  BY <1>1, <2>1, <2>2 DEF CheckedIsCurrent
<1>2. CASE tx'[e] # tx[e]
  BY <1>2, NextChecked DEF MCNext
<1> QED  BY <1>1, <1>2

(* Only a commit of a save writes a row that remains.                      *)
LEMMA FixedStep ==
    Inv /\ CheckedIsCurrent /\ MCNext => \A p \in Articles : p \in stale \/ Fixed(p)
<1> SUFFICES ASSUME Inv, CheckedIsCurrent, Next, NEW p \in Articles, p \notin stale
             PROVE  Fixed(p)
  BY DEF MCNext
<1>1. CASE posts' = posts
  BY <1>1 DEF Fixed
<1>2. ASSUME NEW e \in Editors, CommitSave(e) PROVE Fixed(p)
  <2>1. CASE p # tx[e].post
    BY <1>2, <2>1 DEF CommitSave, Fixed, Inv, TypeOK
  <2>2. CASE p = tx[e].post /\ posts' # posts
    <3> DEFINE row == [status |-> IF tx[e].mode = "publish" THEN "published" ELSE "draft",
                       slug |-> tx[e].slug, refs |-> tx[e].refs,
                       first |-> tx[e].first \/ tx[e].mode = "publish"]
    <3>1. posts' = [posts EXCEPT ![p] = row]
      BY <1>2, <2>2 DEF CommitSave
    <3>2. posts'[p] = row
      BY <3>1 DEF Inv, TypeOK
    <3>3. /\ tx[e].first = posts[p].first
          /\ tx[e].first => tx[e].slug = posts[p].slug
      BY <1>2, <2>2 DEF CommitSave, CheckedIsCurrent
    <3>4. posts'[p].slug = tx[e].slug /\ (tx[e].first => posts'[p].first)
      <4>1. posts'[p].slug = tx[e].slug
        BY <3>2
      <4>2. posts'[p].first = (tx[e].first \/ tx[e].mode = "publish")
        BY <3>2
      <4> QED  BY <4>1, <4>2
    <3> QED  BY <3>3, <3>4 DEF Fixed
  <2> QED  BY <1>1, <2>1, <2>2
<1>3. ASSUME NEW q \in Articles, DeletePost(q) PROVE Fixed(p)
  <2> DEFINE row == [status |-> "deleted", slug |-> AnySlug, refs |-> {}, first |-> FALSE]
  <2>1. posts' = [posts EXCEPT ![q] = row] /\ posts \in [Articles -> Post]
    BY <1>3 DEF DeletePost, Inv, TypeOK
  <2>2. CASE p = q
    <3>1. posts'[p].status = "deleted"
      BY <2>1, <2>2
    <3> QED  BY <3>1 DEF Fixed
  <2>3. CASE p # q
    <3>1. posts'[p] = posts[p]
      BY <2>1, <2>3
    <3>2. posts[p].first = posts'[p].first /\ posts'[p].slug = posts[p].slug
      BY <3>1
    <3>3. posts[p].first => posts'[p].first
      BY <3>2
    <3> QED  BY <3>2, <3>3 DEF Fixed
  <2> QED  BY <2>2, <2>3
<1>4. ASSUME NEW e \in Editors,
             \/ Save(e) /\ ~CommitSave(e)
             \/ CheckImage(e) \/ CommitDelete(e) \/ Refuse(e)
             \/ \E i \in Images : LockImage(e, i) \/ BeginDelete(e, i)
      PROVE  posts' = posts
  BY <1>4 DEF Save, BeginSave, CheckPost, CheckImage, CommitDelete, Refuse,
              LockImage, BeginDelete
<1> QED  BY <1>1, <1>2, <1>3, <1>4 DEF Next, Upload

(* cms/CONTENT_API.md:104-106: the slug of an article that was ever        *)
(* published stays, through withdrawals, restored versions and concurrent  *)
(* saves, unless a save overtook another between its test of the row and   *)
(* its commit (Posts.ts:11-57).                                            *)
THEOREM SlugsFreeze == MCSpec => FixedUnlessStale
<1>1. MCInit => Inv /\ CheckedIsCurrent
  <2>1. Init => CheckedIsCurrent
    BY IdleIsTx DEF Init, CheckedIsCurrent
  <2> QED  BY <2>1, InitInv DEF MCInit
<1>2. [MCNext]_<<vars, stale>> => [Next]_vars
  BY DEF MCNext, vars
<1>3. Inv /\ CheckedIsCurrent /\ [MCNext]_<<vars, stale>> => (Inv /\ CheckedIsCurrent)'
  BY <1>2, NextInv, CurrentInv
<1> QED  BY <1>1, <1>3, FixedStep, PTL DEF MCSpec, FixedUnlessStale
=============================================================================
