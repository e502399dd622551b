--------------------------- MODULE Screens_proofs ---------------------------
(***************************************************************************)
(* First the galleries: no listing shows an image whose file is gone,      *)
(* except one that a sweep of local storage took, for any number of        *)
(* images, of overlapping requests, of failures between two of their       *)
(* steps; and while no request works on a gallery that has changed since   *)
(* it was read, the gallery has one cover, no image over the limit, and    *)
(* orders without a gap unless a new order named an image twice.           *)
(*                                                                         *)
(* Then the screens and the handlers behind them, part by part, for any    *)
(* values of the constants: each part has an invariant of its own, named   *)
(* after its instance in MCScreens, and the four lemmas XxInit, XxNext,    *)
(* XxRests and XxSays: it holds at first, every step of the part keeps it, *)
(* so does a step of no variable, and it implies the property.  The        *)
(* theorems at the end put these together.                                 *)
(***************************************************************************)
EXTENDS MCScreens, Sequences, FiniteSetTheorems, TLAPS

IInv == TypeOK /\ KeysAreOwned /\ NoBrokenImage

(* The number of images any request has read is a natural number.          *)
LEMMA RowsCount ==
    ASSUME NEW g PROVE Cardinality(Rows(g)) \in Nat
<1>1. IsFiniteSet(Rows(g))
  BY ImagesAssumption, FS_Subset DEF ImagesAssumption, Rows
<1> QED BY <1>1, FS_CardinalityType

(* An image with another order or another cover flag is an image.          *)
LEMMA ImageFields ==
    ASSUME NEW x \in Image, NEW o \in Nat, NEW c \in BOOLEAN
    PROVE  [x EXCEPT !.order = o] \in Image /\ [x EXCEPT !.cover = c] \in Image
BY DEF Image

(* Goto leaves steps, keys and galleries in their types.                   *)
LEMMA GotoType ==
    ASSUME TypeOK, NEW r \in Requests, NEW s \in Steps, NEW ks \in SUBSET Images,
           Goto(r, s, ks)
    PROVE  /\ step' \in [Requests -> Steps]
           /\ keys' \in [Requests -> SUBSET Images]
           /\ seen' \in [Requests -> [Images -> Image]]
BY DEF TypeOK, Goto, Blank, Image, Steps

LEMMA InitIInv == ASSUME Init PROVE IInv
BY ImagesAssumption DEF ImagesAssumption, Init, IInv, TypeOK, KeysAreOwned,
   NoBrokenImage, Accounted, Gallery, Rows, Blank, Idle, Image, Steps

(* What a step of request r owes to KeysAreOwned: the other requests keep  *)
(* their place, images change state only in the ways an upload or a        *)
(* deletion of r may change them, and r holds its own keys rightly.        *)
LEMMA OwnedStep ==
    ASSUME IInv, NEW r \in Requests,
           \A q \in Requests \ {r} : /\ step'[q] = step[q] /\ keys'[q] = keys[q]
                                     /\ seen'[q] = seen[q],
           \A i \in Images :
               \/ image'[i].state = image[i].state
               \/ image[i].state = "unborn" /\ image'[i].state = "taken"
               \/ image[i].state \in {"row", "gone"} /\ image'[i].state = "gone"
               \/ step[r] = "stored" /\ i \in keys[r] /\ image'[i].state = "row",
           \A i \in Accounted : i \in Accounted' \/ image[i].state = "gone",
           step'[r] = "stored" => /\ keys'[r] \subseteq Accounted'
                                  /\ \A i \in keys'[r] : image'[i].state = "taken"
                                  /\ \A i \in keys'[r] : image[i].state = "unborn",
           step'[r] = "unlink" => \A i \in keys'[r] : image'[i].state = "gone",
           step'[r] \in {"idle", "loaded"} => keys'[r] = {},
           \A i \in Rows(seen'[r]) : image'[i].state \in {"row", "gone"}
    PROVE  KeysAreOwned'
<1> SUFFICES ASSUME NEW q \in Requests
             PROVE  /\ step'[q] = "stored" => /\ keys'[q] \subseteq Accounted'
                          /\ \A j \in keys'[q] : image'[j].state = "taken"
                    /\ step'[q] = "unlink" =>
                          \A j \in keys'[q] : image'[j].state = "gone"
                    /\ step'[q] \in {"idle", "loaded"} => keys'[q] = {}
                    /\ \A j \in Rows(seen'[q]) : image'[j].state \in {"row", "gone"}
                    /\ \A p \in Requests \ {q} :
                          step'[q] = "stored" /\ step'[p] = "stored"
                              => keys'[q] \cap keys'[p] = {}
  BY DEF KeysAreOwned
<1>1. \A p \in Requests : keys[p] \subseteq Images /\ Rows(seen[p]) \subseteq Images
  BY DEF IInv, TypeOK, Rows
<1>2. ASSUME NEW p \in Requests \ {r}
      PROVE  /\ step[p] = "stored" => /\ keys[p] \subseteq Accounted'
                   /\ \A j \in keys[p] : image'[j].state = "taken"
             /\ step[p] = "unlink" => \A j \in keys[p] : image'[j].state = "gone"
             /\ \A j \in Rows(seen[p]) : image'[j].state \in {"row", "gone"}
  <2>1. ASSUME step[p] = "stored", NEW j \in keys[p]
        PROVE  j \in Accounted' /\ image'[j].state = "taken"
    <3>1. j \in Images /\ image[j].state = "taken" /\ j \in Accounted
      BY <1>1, <2>1 DEF IInv, KeysAreOwned
    <3>2. ~(step[r] = "stored" /\ j \in keys[r])
      BY <2>1 DEF IInv, KeysAreOwned
    <3> QED BY <3>1, <3>2
  <2>2. ASSUME step[p] = "unlink", NEW j \in keys[p]
        PROVE  image'[j].state = "gone"
    <3>1. j \in Images /\ image[j].state = "gone"
      BY <1>1, <2>2 DEF IInv, KeysAreOwned
    <3>2. ~(step[r] = "stored" /\ j \in keys[r])
      BY <3>1 DEF IInv, KeysAreOwned
    <3> QED BY <3>1, <3>2
  <2>3. ASSUME NEW j \in Rows(seen[p])
        PROVE  image'[j].state \in {"row", "gone"}
    <3>1. j \in Images /\ image[j].state \in {"row", "gone"}
      BY <1>1 DEF IInv, KeysAreOwned
    <3> QED BY <3>1
  <2> QED BY <2>1, <2>2, <2>3
<1>3. ASSUME NEW p \in Requests \ {r}, step[p] = "stored", step'[r] = "stored"
      PROVE  keys'[r] \cap keys[p] = {}
  BY <1>3 DEF IInv, KeysAreOwned
<1>4. CASE q = r
  BY <1>3, <1>4
<1>5. CASE q # r
  <2>1. \A p \in Requests \ {q} :
          step'[q] = "stored" /\ step'[p] = "stored" => keys'[q] \cap keys'[p] = {}
    BY <1>3, <1>5 DEF IInv, KeysAreOwned
  <2>2. step[q] \in {"idle", "loaded"} => keys[q] = {}
    BY DEF IInv, KeysAreOwned
  <2> QED BY <1>2, <1>5, <2>1, <2>2
<1> QED BY <1>4, <1>5

(* A step of a request that leaves files, and the state of every image, as *)
(* they are and holds no keys afterwards.                                  *)
LEMMA QuietStep ==
    ASSUME IInv, NEW r \in Requests, NEW s \in {"idle", "loaded"},
           Goto(r, s, {}),
           image' \in [Images -> Image],
           \A i \in Images : image'[i].state = image[i].state,
           UNCHANGED <<listed, files, sweep, missed>>
    PROVE  IInv'
<1>1. TypeOK'
  BY GotoType DEF IInv, TypeOK, Steps
<1>2. NoBrokenImage'
  BY DEF IInv, NoBrokenImage, Accounted, Gallery, Rows
<1>3. KeysAreOwned'
  <2>1. \A q \in Requests \ {r} : /\ step'[q] = step[q] /\ keys'[q] = keys[q]
                                  /\ seen'[q] = seen[q]
    BY DEF IInv, TypeOK, Goto
  <2>2. /\ step'[r] \in {"idle", "loaded"} /\ keys'[r] = {}
        /\ Rows(seen'[r]) = {}
    BY DEF IInv, TypeOK, Goto, Rows, Blank
  <2>3. Accounted' = Accounted
    BY DEF Accounted
  <2> QED BY <2>1, <2>2, <2>3, OwnedStep
<1> QED BY <1>1, <1>2, <1>3 DEF IInv

(* What a flush leaves in the table.                                       *)
LEMMA FlushKeeps ==
    ASSUME TypeOK, NEW r \in Requests, NEW new \in [Images -> Image]
    PROVE  /\ Flush(r, new) \in [Images -> Image]
           /\ \A i \in Images : Flush(r, new)[i].state = image[i].state
BY ZenonT(60) DEF TypeOK, Flush, Image, Column, Dirty

LEMMA LoadKeeps ==
    ASSUME IInv, NEW r \in Requests, Load(r) PROVE IInv'
<1>1. TypeOK'
  BY DEF IInv, TypeOK, Load, Steps
<1>2. NoBrokenImage'
  BY DEF IInv, NoBrokenImage, Accounted, Gallery, Rows, Load
<1>3. KeysAreOwned'
  BY DEF IInv, TypeOK, KeysAreOwned, Accounted, Load, Rows
<1> QED BY <1>1, <1>2, <1>3 DEF IInv, Load

LEMMA StoreKeeps ==
    ASSUME IInv, NEW r \in Requests, NEW i \in Images, StoreFile(r, i)
    PROVE  IInv'
<1>1. TypeOK'
  <2>1. image' \in [Images -> Image]
    BY DEF IInv, TypeOK, StoreFile, Image
  <2>2. /\ step' \in [Requests -> Steps] /\ keys' \in [Requests -> SUBSET Images]
        /\ seen' \in [Requests -> [Images -> Image]]
    BY GotoType DEF IInv, StoreFile, Steps
  <2> QED BY <2>1, <2>2 DEF IInv, TypeOK, StoreFile
<1>2. NoBrokenImage'
  BY DEF IInv, TypeOK, NoBrokenImage, Accounted, Gallery, Rows, StoreFile, Image
<1>3. KeysAreOwned'
  <2>1. \A j \in Images \ {i} : image'[j].state = image[j].state
    BY DEF IInv, TypeOK, StoreFile, Image
  <2>2. image[i].state = "unborn" /\ image'[i].state = "taken"
    BY DEF IInv, TypeOK, StoreFile, Image
  <2>3. seen' = seen
    BY DEF StoreFile, Goto
  <2>4. \A p \in Requests \ {r} : step'[p] = step[p] /\ keys'[p] = keys[p]
    BY DEF IInv, TypeOK, StoreFile, Goto
  <2>5. step'[r] = "stored" /\ keys'[r] = {i}
    BY DEF IInv, TypeOK, StoreFile, Goto
  <2>6. Accounted \subseteq Accounted' /\ i \in Accounted'
    BY DEF StoreFile, Accounted
  <2>7. \A j \in Rows(seen'[r]) : image'[j].state \in {"row", "gone"}
    BY <2>1, <2>2, <2>3 DEF IInv, KeysAreOwned, Rows
  <2> QED BY <2>1, <2>2, <2>3, <2>4, <2>5, <2>6, <2>7, OwnedStep
<1> QED BY <1>1, <1>2, <1>3 DEF IInv, StoreFile

LEMMA AddKeeps ==
    ASSUME IInv, NEW r \in Requests, NEW i \in Images, AddImage(r, i)
    PROVE  IInv'
<1>0. image'[i].state = "row" /\ image[i].state = "taken" /\ i \in Accounted
  BY DEF IInv, TypeOK, KeysAreOwned, AddImage
<1>1. TypeOK'
  <2>1. image' \in [Images -> Image]
    BY RowsCount DEF IInv, TypeOK, AddImage, Image
  <2>2. /\ step' \in [Requests -> Steps] /\ keys' \in [Requests -> SUBSET Images]
        /\ seen' \in [Requests -> [Images -> Image]]
    BY GotoType DEF IInv, AddImage, Steps
  <2> QED BY <2>1, <2>2 DEF IInv, TypeOK, AddImage
<1>2. \A j \in Images \ {i} : image'[j] = image[j]
  BY DEF IInv, TypeOK, AddImage
<1>3. NoBrokenImage'
  BY <1>0, <1>2 DEF IInv, NoBrokenImage, Accounted, Gallery, Rows, AddImage
<1>4. KeysAreOwned'
  <2>1. \A q \in Requests \ {r} : /\ step'[q] = step[q] /\ keys'[q] = keys[q]
                                  /\ seen'[q] = seen[q]
    BY DEF IInv, TypeOK, AddImage, Goto
  <2>2. step'[r] = "idle" /\ keys'[r] = {} /\ seen'[r] = Blank
    BY DEF IInv, TypeOK, AddImage, Goto
  <2>3. Accounted' = Accounted /\ step[r] = "stored" /\ i \in keys[r]
    BY DEF AddImage, Accounted
  <2>4. Rows(Blank) = {}
    BY DEF Rows, Blank
  <2> QED BY <1>0, <1>2, <2>1, <2>2, <2>3, <2>4, OwnedStep
<1> QED BY <1>1, <1>3, <1>4 DEF IInv, AddImage

(* Rows of the table become gone, and the request is left to unlink keys   *)
(* that are gone.                                                          *)
LEMMA GoneKeeps ==
    ASSUME IInv, NEW r \in Requests, NEW ks \in SUBSET Images,
           Goto(r, "unlink", ks),
           listed' \in BOOLEAN,
           image' \in [Images -> Image],
           step[r] = "loaded",
           ks \subseteq Rows(seen[r]),
           \A i \in Images : \/ image'[i].state = image[i].state
                             \/ image[i].state \in {"row", "gone"} /\ image'[i].state = "gone",
           \A i \in ks : image'[i].state = "gone",
           UNCHANGED <<files, sweep, missed>>
    PROVE  IInv'
<1>1. TypeOK'
  BY GotoType DEF IInv, TypeOK, Steps
<1>2. NoBrokenImage'
  BY DEF IInv, NoBrokenImage, Accounted, Gallery, Rows
<1>3. KeysAreOwned'
  <2>1. \A q \in Requests \ {r} : /\ step'[q] = step[q] /\ keys'[q] = keys[q]
                                  /\ seen'[q] = seen[q]
    BY DEF IInv, TypeOK, Goto
  <2>2. step'[r] = "unlink" /\ keys'[r] = ks /\ seen'[r] = Blank
    BY DEF IInv, TypeOK, Goto
  <2>3. Rows(Blank) = {} /\ Accounted' = Accounted
    BY DEF Rows, Blank, Accounted
  <2> QED BY <2>1, <2>2, <2>3, OwnedStep
<1> QED BY <1>1, <1>2, <1>3 DEF IInv

LEMMA DeleteKeeps ==
    ASSUME IInv, NEW r \in Requests, NEW i \in Images, DeleteImage(r, i)
    PROVE  IInv'
<1> DEFINE rest == Gallery \ {i}
<1>1. PICK rank \in Ranks(rest) :
         image' = [j \in Images |->
              CASE j = i -> Gone
                [] j \in rest ->
                     LET old == Remaining(r, i, j) IN
                     [image[j] EXCEPT
                        !.order = Column(@, old.order, rank[j]),
                        !.cover = Column(@, old.cover,
                            old.cover \/ (seen[r][i].cover /\ rank[j] = 0))]
                [] OTHER -> image[j]]
  BY DEF DeleteImage
<1>2. \A j \in rest : rank[j] \in Nat
  <2>1. IsFiniteSet(rest)
    BY ImagesAssumption, FS_Subset DEF ImagesAssumption, Gallery, Rows
  <2>2. Cardinality(rest) \in Nat
    BY <2>1, FS_CardinalityType
  <2> QED BY <2>2 DEF Ranks
<1>3. image'[i] = Gone
  BY <1>1
<1>4. \A j \in rest : image'[j] \in Image /\ image'[j].state = image[j].state
  <2> TAKE j \in rest
  <2>1. image[j] \in Image /\ j # i /\ j \in Images
    BY DEF IInv, TypeOK, Gallery, Rows
  <2>2. Remaining(r, i, j) \in Image
    BY <2>1 DEF IInv, TypeOK, Remaining
  <2> DEFINE old == Remaining(r, i, j)
             o   == Column(image[j].order, old.order, rank[j])
             c   == Column(image[j].cover, old.cover,
                           old.cover \/ (seen[r][i].cover /\ rank[j] = 0))
  <2>3. image'[j] = [image[j] EXCEPT !.order = o, !.cover = c]
    BY <1>1, <2>1
  <2>4. o \in Nat
    BY <1>2, <2>1, <2>2 DEF Column, Image
  <2>5. c \in BOOLEAN
    <3>1. image[j].cover \in BOOLEAN
      BY <2>1 DEF Image
    <3>2. (old.cover \/ (seen[r][i].cover /\ rank[j] = 0)) \in BOOLEAN
      OBVIOUS
    <3> QED BY <3>1, <3>2 DEF Column
  <2> HIDE DEF o, c
  <2> QED BY <2>1, <2>3, <2>4, <2>5 DEF Image
<1>5. \A j \in Images : j # i /\ j \notin rest => image'[j] = image[j]
  BY <1>1
<1>6. image' \in [Images -> Image]
  <2>1. Gone \in Image
    BY DEF Gone, Image
  <2>2. \A j \in Images : image'[j] \in Image
    BY <1>3, <1>4, <1>5, <2>1 DEF IInv, TypeOK
  <2>3. DOMAIN image' = Images /\ image' = [j \in Images |-> image'[j]]
    BY <1>1
  <2> QED BY <2>2, <2>3
<1>7. image[i].state \in {"row", "gone"} /\ i \in Rows(seen[r]) /\ step[r] = "loaded"
  BY DEF IInv, KeysAreOwned, DeleteImage
<1>8. \A j \in Images : \/ image'[j].state = image[j].state
                        \/ image[j].state \in {"row", "gone"} /\ image'[j].state = "gone"
  BY <1>3, <1>4, <1>5, <1>7 DEF Gone
<1>9. Goto(r, "unlink", {i}) /\ UNCHANGED <<listed, files, sweep, missed>>
  BY DEF DeleteImage
<1> HIDE DEF rest
<1> QED BY <1>3, <1>6, <1>7, <1>8, <1>9, GoneKeeps DEF IInv, TypeOK, Gone

LEMMA DeleteListingKeeps ==
    ASSUME IInv, NEW r \in Requests, DeleteListing(r) PROVE IInv'
<1>1. image' \in [Images -> Image]
  BY DEF IInv, TypeOK, DeleteListing, Gone, Image
<1>2. \A j \in Images : \/ image'[j].state = image[j].state
                        \/ image[j].state \in {"row", "gone"} /\ image'[j].state = "gone"
  BY DEF IInv, TypeOK, DeleteListing, Gone, Gallery, Rows
<1>3. \A j \in Rows(seen[r]) : image'[j].state = "gone"
  BY DEF IInv, TypeOK, KeysAreOwned, DeleteListing, Gone, Gallery, Rows
<1>4. Rows(seen[r]) \in SUBSET Images
  BY DEF Rows
<1>5. /\ Goto(r, "unlink", Rows(seen[r])) /\ step[r] = "loaded"
      /\ listed' \in BOOLEAN /\ UNCHANGED <<files, sweep, missed>>
  BY DEF DeleteListing
<1> QED BY <1>1, <1>2, <1>3, <1>4, <1>5, GoneKeeps

LEMMA UnlinkKeeps ==
    ASSUME IInv, NEW r \in Requests, NEW i \in Images, Unlink(r, i)
    PROVE  IInv'
<1>1. image[i].state = "gone" /\ image' = image
  BY DEF IInv, KeysAreOwned, Unlink
<1>2. TypeOK'
  <2>1. files' \subseteq Images
    BY DEF IInv, TypeOK, Unlink
  <2>2. /\ step' \in [Requests -> Steps] /\ keys' \in [Requests -> SUBSET Images]
        /\ seen' \in [Requests -> [Images -> Image]]
    <3>1. keys[r] \ {i} \in SUBSET Images
      BY DEF IInv, TypeOK
    <3>2. CASE keys[r] = {i}
      BY <3>2, GotoType DEF IInv, Unlink, Steps
    <3>3. CASE keys[r] # {i}
      BY <3>1, <3>3, GotoType DEF IInv, Unlink, Steps
    <3> QED BY <3>2, <3>3
  <2> QED BY <2>1, <2>2, <1>1 DEF IInv, TypeOK, Unlink
<1>3. Accounted \ {i} \subseteq Accounted'
  BY DEF Unlink, Accounted
<1>4. NoBrokenImage'
  BY <1>1, <1>3 DEF IInv, NoBrokenImage, Accounted, Gallery, Rows
<1>5. KeysAreOwned'
  <2>1. \A q \in Requests \ {r} : /\ step'[q] = step[q] /\ keys'[q] = keys[q]
                                  /\ seen'[q] = seen[q]
    BY DEF IInv, TypeOK, Unlink, Goto
  <2>2. /\ keys'[r] \subseteq keys[r] /\ seen'[r] = Blank
        /\ step'[r] = "unlink" \/ (step'[r] = "idle" /\ keys'[r] = {})
    BY DEF IInv, TypeOK, Unlink, Goto
  <2>3. step[r] = "unlink" /\ Rows(Blank) = {}
    BY DEF Unlink, Rows, Blank
  <2>4. \A j \in keys'[r] : image'[j].state = "gone"
    BY <1>1, <2>2, <2>3 DEF IInv, KeysAreOwned
  <2> QED BY <1>1, <1>3, <2>1, <2>2, <2>3, <2>4, OwnedStep
<1> QED BY <1>2, <1>4, <1>5 DEF IInv, Unlink

(* The places a new order gives are natural numbers.                       *)
LEMMA PlacesAreNatural ==
    ASSUME NEW S, Cardinality(S) \in Nat, NEW place \in Places(S)
    PROVE  \A j \in S : place[j] \in Nat
<1>1. place \in [S -> 0..(Cardinality(S) + MaxRepeats - 1)]
  BY DEF Places
<1> QED BY <1>1, ImagesAssumption DEF ImagesAssumption

(* The step of every request.                                              *)
LEMMA RequestKeeps ==
    ASSUME IInv, NEW r \in Requests, Request(r) PROVE IInv'
<1>1. CASE Load(r)          BY <1>1, LoadKeeps
<1>2. CASE Abandon(r)
  BY <1>2, QuietStep DEF Abandon, IInv, TypeOK
<1>3. CASE Reorder(r)
  <2>1. PICK place \in Places(Rows(seen[r])) : ReorderTo(r, place)
    BY <1>3 DEF Reorder
  <2> DEFINE new == [j \in Images |-> IF j \in Rows(seen[r])
                           THEN [seen[r][j] EXCEPT !.order = place[j]]
                           ELSE seen[r][j]]
  <2>2. new \in [Images -> Image]
    <3>1. \A j \in Rows(seen[r]) : place[j] \in Nat
      BY RowsCount, PlacesAreNatural
    <3>2. ASSUME NEW j \in Images PROVE new[j] \in Image
      <4>1. seen[r][j] \in Image
        BY DEF IInv, TypeOK
      <4>2. j \in Rows(seen[r]) => [seen[r][j] EXCEPT !.order = place[j]] \in Image
        BY <3>1, <4>1, ImageFields
      <4> QED BY <4>1, <4>2
    <3> QED BY <3>2
  <2>3. image' = Flush(r, new)
    BY <2>1 DEF ReorderTo
  <2> HIDE DEF new
  <2>4. /\ image' \in [Images -> Image]
        /\ \A i \in Images : image'[i].state = image[i].state
    BY <2>2, <2>3, FlushKeeps DEF IInv
  <2>5. Goto(r, "idle", {}) /\ UNCHANGED <<listed, files, sweep, missed>>
    BY <2>1 DEF ReorderTo
  <2> QED BY <2>4, <2>5, QuietStep
<1>4. CASE DeleteListing(r) BY <1>4, DeleteListingKeeps
<1>5. ASSUME NEW i \in Images,
             \/ StoreFile(r, i) \/ AddImage(r, i) \/ DeleteImage(r, i)
             \/ SetCover(r, i) \/ Unlink(r, i)
      PROVE  IInv'
  <2>1. CASE StoreFile(r, i)   BY <2>1, StoreKeeps
  <2>2. CASE AddImage(r, i)    BY <2>2, AddKeeps
  <2>3. CASE DeleteImage(r, i) BY <2>3, DeleteKeeps
  <2>4. CASE SetCover(r, i)
    <3> DEFINE new == [j \in Images |-> [seen[r][j] EXCEPT !.cover = (j = i)]]
    <3>1. new \in [Images -> Image]
      <4>1. ASSUME NEW j \in Images PROVE new[j] \in Image
        <5>1. seen[r][j] \in Image /\ (j = i) \in BOOLEAN
          BY DEF IInv, TypeOK
        <5>2. [seen[r][j] EXCEPT !.cover = (j = i)] \in Image
          BY <5>1, ImageFields
        <5> QED BY <5>2
      <4> QED BY <4>1
    <3>2. image' = Flush(r, new)
      BY <2>4 DEF SetCover
    <3> HIDE DEF new
    <3>3. /\ image' \in [Images -> Image]
          /\ \A j \in Images : image'[j].state = image[j].state
      BY <3>1, <3>2, FlushKeeps DEF IInv
    <3>4. Goto(r, "idle", {}) /\ UNCHANGED <<listed, files, sweep, missed>>
      BY <2>4 DEF SetCover
    <3> QED BY <3>3, <3>4, QuietStep
  <2>5. CASE Unlink(r, i)      BY <2>5, UnlinkKeeps
  <2> QED BY <1>5, <2>1, <2>2, <2>3, <2>4, <2>5
<1> QED BY <1>1, <1>2, <1>3, <1>4, <1>5 DEF Request

(* A sweep accounts for the files it takes.                                *)
LEMMA WorkerKeeps == ASSUME IInv, WorkerStep PROVE IInv'
<1>1. /\ UNCHANGED <<listed, image, step, seen, keys>>
      /\ files' \subseteq files /\ missed \subseteq missed'
      /\ files \subseteq files' \cup missed' /\ missed' \subseteq missed \cup files
  BY DEF WorkerStep, StartSweep, EndSweep, SweepFile
<1>2. sweep' \in [on : BOOLEAN, known : SUBSET Images, must : SUBSET Images]
  <2>1. CASE StartSweep
    <3>1. Gallery \in SUBSET Images /\ files \ Gallery \in SUBSET Images
      BY DEF IInv, TypeOK, Gallery, Rows
    <3> QED BY <2>1, <3>1 DEF StartSweep
  <2>2. CASE EndSweep
    BY <2>2 DEF EndSweep, Idle
  <2>3. CASE \E i \in Images : SweepFile(i)
    BY <2>3 DEF SweepFile, IInv, TypeOK
  <2> QED BY <2>1, <2>2, <2>3 DEF WorkerStep
<1>3. TypeOK'
  BY <1>1, <1>2 DEF IInv, TypeOK
<1>4. Accounted \subseteq Accounted'
  BY <1>1 DEF Accounted
<1>5. NoBrokenImage'
  BY <1>1, <1>4 DEF IInv, NoBrokenImage, Gallery, Rows
<1>6. KeysAreOwned'
  BY <1>1, <1>4 DEF IInv, KeysAreOwned, Rows
<1> QED BY <1>3, <1>5, <1>6 DEF IInv

LEMMA NextIInv == ASSUME IInv, [Next]_vars PROVE IInv'
<1>1. CASE WorkerStep
  BY <1>1, WorkerKeeps
<1>2. ASSUME NEW r \in Requests, Request(r) PROVE IInv'
  BY <1>2, RequestKeeps
<1>3. CASE UNCHANGED vars
  BY <1>3 DEF vars, IInv, TypeOK, KeysAreOwned, NoBrokenImage, Accounted, Gallery, Rows
<1> QED BY <1>1, <1>2, <1>3 DEF Next

(* Every row has its file, or a sweep of local storage took it, because    *)
(* uploads store before they commit and deletions unlink after they        *)
(* commit, and no two requests ever hold one key.                          *)
THEOREM ImagesHaveFiles ==
    Spec => [](TypeOK /\ KeysAreOwned /\ NoBrokenImage)
<1>1. Init => IInv
  BY InitIInv
<1>2. IInv /\ [Next]_vars => IInv'
  BY NextIInv
<1>3. IInv => TypeOK /\ KeysAreOwned /\ NoBrokenImage
  BY DEF IInv
<1> QED BY <1>1, <1>2, <1>3, PTL DEF Spec

-----------------------------------------------------------------------------
(* Any set of rows is finite.                                              *)
LEMMA RowsFinite ==
    ASSUME NEW g
    PROVE  /\ IsFiniteSet(Rows(g)) /\ Cardinality(Rows(g)) \in Nat
           /\ \A S \in SUBSET Rows(g) : IsFiniteSet(S) /\ Cardinality(S) \in Nat
<1>1. IsFiniteSet(Rows(g))
  BY ImagesAssumption, FS_Subset DEF ImagesAssumption, Rows
<1>2. \A S \in SUBSET Rows(g) : IsFiniteSet(S)
  BY <1>1, FS_Subset
<1> QED BY <1>1, <1>2, FS_CardinalityType

(* A ranking of a finite set uses every number below its size, each once.  *)
LEMMA Ranking ==
    ASSUME NEW S, IsFiniteSet(S), NEW rank \in Ranks(S)
    PROVE  /\ \A j \in S : rank[j] \in Nat
           /\ \A j, k \in S : j # k => rank[j] # rank[k]
           /\ {rank[j] : j \in S} = 0..(Cardinality(S) - 1)
<1> DEFINE T == 0..(Cardinality(S) - 1)
<1>1. Cardinality(S) \in Nat
  BY FS_CardinalityType
<1>2. IsFiniteSet(T) /\ Cardinality(T) = Cardinality(S)
  <2> PICK n \in Nat : n = Cardinality(S)
    BY <1>1
  <2>1. 0 \in Int /\ n - 1 \in Int /\ T = 0..(n - 1)
    OBVIOUS
  <2> HIDE DEF T
  <2>2. IsFiniteSet(T) /\ Cardinality(T) = IF 0 > n - 1 THEN 0 ELSE (n - 1) - 0 + 1
    BY <2>1, FS_Interval
  <2> QED  BY <2>2
<1>3. rank \in [S -> T] /\ \A j, k \in S : j # k => rank[j] # rank[k]
  BY DEF Ranks
<1>4. rank \in Injection(S, T)
  BY <1>3 DEF Injection, IsInjective
<1>5. rank \in Surjection(S, T)
  BY <1>2, <1>4, FS_Injection
<1>6. \A n \in T : \E j \in S : rank[j] = n
  BY <1>5 DEF Surjection
<1>7. {rank[j] : j \in S} = T
  BY <1>3, <1>6
<1> QED BY <1>3, <1>7

(* A request that has stored a file had found room for it.                 *)
Room == \A r \in Requests :
            step[r] = "stored" => Cardinality(Rows(seen[r])) < MaxImages

InShape == OneCover /\ WithinLimit
InTime  == \A r \in Requests : ~Overtaken(r)

(* What a request that is not overtaken read is the gallery as it is.      *)
LEMMA Current ==
    ASSUME TypeOK, InTime, NEW r \in Requests, step[r] \in {"loaded", "stored"}
    PROVE  /\ Rows(seen[r]) = Gallery
           /\ \A i \in Gallery : seen[r][i] = image[i]
<1>1. \A i \in Rows(seen[r]) \cup Gallery : seen[r][i] = image[i]
  BY DEF InTime, Overtaken
<1>2. Rows(seen[r]) = Gallery
  BY <1>1 DEF Gallery, Rows
<1> QED BY <1>1, <1>2

(* The file comes after the test of the limit.                             *)
LEMMA RoomStays == ASSUME TypeOK, Room, [Next]_vars PROVE Room'
<1>1. ASSUME NEW r \in Requests, NEW s \in Steps, NEW ks, Goto(r, s, ks),
             s = "stored" => Cardinality(Rows(seen[r])) < MaxImages
      PROVE  Room'
  <2> SUFFICES ASSUME NEW q \in Requests, step'[q] = "stored"
               PROVE  Cardinality(Rows(seen'[q])) < MaxImages
    BY DEF Room
  <2>1. CASE q = r
    BY <1>1, <2>1 DEF Goto, TypeOK
  <2>2. CASE q # r
    BY <1>1, <2>2 DEF Goto, TypeOK, Room
  <2> QED BY <2>1, <2>2
<1>2. ASSUME NEW r \in Requests, Load(r) PROVE Room'
  BY <1>2 DEF Load, Room, TypeOK
<1>3. ASSUME NEW r \in Requests, NEW i \in Images, StoreFile(r, i) PROVE Room'
  BY <1>1, <1>3 DEF StoreFile, Steps
<1>4. ASSUME NEW r \in Requests, NEW i \in Images,
             AddImage(r, i) \/ DeleteImage(r, i) \/ SetCover(r, i) \/ Unlink(r, i)
      PROVE  Room'
  BY <1>1, <1>4 DEF AddImage, DeleteImage, SetCover, Unlink, Steps
<1>5. ASSUME NEW r \in Requests, Abandon(r) \/ Reorder(r) \/ DeleteListing(r)
      PROVE  Room'
  BY <1>1, <1>5 DEF Abandon, Reorder, ReorderTo, DeleteListing, Steps
<1>6. CASE WorkerStep
  BY <1>6 DEF WorkerStep, StartSweep, SweepFile, EndSweep, Room
<1>7. CASE UNCHANGED vars
  BY <1>7 DEF vars, Room
<1> QED BY <1>2, <1>3, <1>4, <1>5, <1>6, <1>7 DEF Next, Request

(* A table with the same rows, the same orders and the same covers is in   *)
(* shape as before.                                                        *)
LEMMA SameShape ==
    ASSUME InShape, Gallery' = Gallery, \A i \in Gallery : image'[i] = image[i]
    PROVE  InShape' /\ (InOrder => InOrder')
<1>1. {image'[i].order : i \in Gallery} = {image[i].order : i \in Gallery}
  OBVIOUS
<1>2. OneCover'
  BY DEF InShape, OneCover
<1> QED BY <1>1, <1>2 DEF InShape, WithinLimit, InOrder

(* An uploaded image comes last, and is the cover if it is the only one.   *)
LEMMA AddInShape ==
    ASSUME IInv, Room, InTime, InShape, NEW r \in Requests, NEW i \in Images,
           AddImage(r, i)
    PROVE  InShape' /\ (InOrder => InOrder')
<1> DEFINE n == Cardinality(Gallery)
<1>1. /\ Rows(seen[r]) = Gallery /\ n < MaxImages
      /\ IsFiniteSet(Gallery) /\ n \in Nat /\ image[i].state = "taken"
  BY Current, RowsFinite DEF IInv, AddImage, Room, Gallery, KeysAreOwned
<1>2. image' = [image EXCEPT ![i] = [state |-> "row", order |-> n, cover |-> n = 0]]
  BY <1>1 DEF AddImage
<1>3. /\ image'[i].state = "row" /\ image'[i].order = n
      /\ image'[i].cover = (n = 0)
      /\ \A j \in Images \ {i} : image'[j] = image[j]
  BY <1>2 DEF IInv, TypeOK
<1>4. i \notin Gallery /\ Gallery' = Gallery \cup {i} /\ i \in Gallery'
  BY <1>1, <1>3 DEF Gallery, Rows
<1>5. Cardinality(Gallery') = n + 1
  BY <1>1, <1>4, FS_AddElement
<1>6. \A j \in Gallery : image'[j] = image[j] /\ j \in Gallery'
  BY <1>3, <1>4 DEF Gallery, Rows
<1>7. Gallery = {} <=> n = 0
  BY <1>1, FS_EmptySet
<1> HIDE DEF n
<1>8. \E k \in Gallery' : \A j \in Gallery' : image'[j].cover <=> j = k
  <2>1. CASE n = 0
    BY <1>3, <1>4, <1>7, <2>1
  <2>2. CASE n # 0
    <3>1. PICK k \in Gallery : \A j \in Gallery : image[j].cover <=> j = k
      BY <1>7, <2>2 DEF InShape, OneCover
    <3>2. image'[i].cover = FALSE
      BY <1>3, <2>2
    <3>3. \A j \in Gallery' : image'[j].cover <=> j = k
      BY <1>4, <1>6, <3>1, <3>2
    <3> QED BY <1>6, <3>3
  <2> QED BY <2>1, <2>2
<1>9. ASSUME InOrder PROVE {image'[j].order : j \in Gallery'} = 0..n
  <2>1. {image[j].order : j \in Gallery} = 0..(n - 1)
    BY <1>9 DEF InOrder, n
  <2>2. {image'[j].order : j \in Gallery'} = {image[j].order : j \in Gallery} \cup {n}
    BY <1>3, <1>4, <1>6
  <2>3. 0..(n - 1) \cup {n} = 0..n
    BY <1>1
  <2> QED BY <2>1, <2>2, <2>3
<1>10. Cardinality(Gallery') <= MaxImages
  BY <1>1, <1>5, ImagesAssumption DEF n
<1>11. InShape'
  BY <1>8, <1>10 DEF InShape, OneCover, WithinLimit
<1>12. InOrder => InOrder'
  BY <1>1, <1>5, <1>9 DEF InOrder, n
<1> QED BY <1>11, <1>12

(* A column that is assigned has the new value, if the one read is the one *)
(* stored.                                                                 *)
LEMMA FreshColumn == \A cur, new : Column(cur, cur, new) = new
BY DEF Column

(* What remains is numbered without a gap, and the first image inherits    *)
(* the cover of the one deleted.                                           *)
LEMMA DeleteInShape ==
    ASSUME IInv, InTime, InShape, NEW r \in Requests, NEW i \in Images,
           DeleteImage(r, i)
    PROVE  InShape' /\ InOrder'
<1> DEFINE rest == Gallery \ {i}
<1>1. /\ Rows(seen[r]) = Gallery /\ \A j \in Gallery : seen[r][j] = image[j]
      /\ i \in Gallery /\ Gallery \subseteq Images
  BY Current DEF IInv, DeleteImage, Gallery, Rows
<1>2. \A j \in rest : Remaining(r, i, j) = image[j]
  BY <1>1 DEF Remaining
<1>3. PICK rank \in Ranks(rest) :
         image' = [j \in Images |->
              CASE j = i -> Gone
                [] j \in rest ->
                     LET old == Remaining(r, i, j) IN
                     [image[j] EXCEPT
                        !.order = Column(@, old.order, rank[j]),
                        !.cover = Column(@, old.cover,
                            old.cover \/ (seen[r][i].cover /\ rank[j] = 0))]
                [] OTHER -> image[j]]
  BY DEF DeleteImage
<1>4. IsFiniteSet(rest) /\ Cardinality(rest) \in Nat
  BY RowsFinite DEF Gallery
<1>5. /\ \A j \in rest : rank[j] \in Nat
      /\ \A j, k \in rest : j # k => rank[j] # rank[k]
      /\ {rank[j] : j \in rest} = 0..(Cardinality(rest) - 1)
  BY <1>4, Ranking
<1>6. ASSUME NEW j \in rest
      PROVE  /\ image'[j].state = "row" /\ image'[j].order = rank[j]
             /\ image'[j].cover <=> image[j].cover \/ (image[i].cover /\ rank[j] = 0)
  <2> DEFINE c == image[j].cover \/ (image[i].cover /\ rank[j] = 0)
  <2>1. /\ Remaining(r, i, j) = image[j] /\ seen[r][i] = image[i]
        /\ j # i /\ j \in Images
    BY <1>1, <1>2, <1>6
  <2>2. image'[j] = [image[j] EXCEPT
                        !.order = Column(@, image[j].order, rank[j]),
                        !.cover = Column(@, image[j].cover, c)]
    BY <1>3, <1>6, <2>1
  <2>3. image[j] \in Image /\ image[j].state = "row"
    BY <1>6 DEF IInv, TypeOK, Gallery, Rows
  <2> HIDE DEF c
  <2>4. /\ image'[j].state = "row"
        /\ image'[j].order = Column(image[j].order, image[j].order, rank[j])
        /\ image'[j].cover = Column(image[j].cover, image[j].cover, c)
    BY <2>2, <2>3 DEF Image
  <2>5. image'[j].order = rank[j] /\ image'[j].cover = c
    BY <2>4, FreshColumn
  <2> QED BY <2>4, <2>5 DEF c
<1>7. image'[i].state = "gone" /\ \A j \in Images \ Gallery : image'[j] = image[j]
  BY <1>1, <1>3 DEF Gone
<1>8. Gallery' = rest
  BY <1>1, <1>6, <1>7 DEF Gallery, Rows
<1> HIDE DEF rest
<1>9. WithinLimit'
  <2>1. Cardinality(rest) <= Cardinality(Gallery) /\ Cardinality(Gallery) \in Nat
    BY RowsFinite, FS_Subset DEF rest, Gallery
  <2> QED BY <1>4, <1>8, <2>1, ImagesAssumption DEF InShape, WithinLimit
<1>10. {image'[j].order : j \in rest} = 0..(Cardinality(rest) - 1)
  BY <1>5, <1>6
<1>11. ASSUME rest # {}
       PROVE  \E k \in rest : \A j \in rest : image'[j].cover <=> j = k
  <2>1. PICK k \in Gallery : \A j \in Gallery : image[j].cover <=> j = k
    BY <1>1 DEF InShape, OneCover
  <2>2. \A j \in rest : j \in Gallery /\ j # i
    BY DEF rest
  <2>3. CASE k = i
    <3>1. Cardinality(rest) # 0
      BY <1>4, <1>11, FS_EmptySet
    <3>2. 0 \in {rank[j] : j \in rest}
      BY <1>4, <1>5, <3>1
    <3>3. PICK f \in rest : rank[f] = 0
      BY <3>2
    <3>4. \A j \in rest : rank[j] = 0 <=> j = f
      BY <1>5, <3>3
    <3>5. \A j \in rest : image'[j].cover <=> rank[j] = 0
      BY <1>6, <2>1, <2>2, <2>3
    <3> QED BY <3>3, <3>4, <3>5
  <2>4. CASE k # i
    <3>1. k \in rest /\ ~image[i].cover
      BY <1>1, <2>1, <2>4 DEF rest
    <3>2. \A j \in rest : image'[j].cover <=> j = k
      BY <1>6, <2>1, <2>2, <3>1
    <3> QED BY <3>1, <3>2
  <2> QED BY <2>3, <2>4
<1>12. InShape'
  BY <1>8, <1>9, <1>11 DEF InShape, OneCover
<1> QED BY <1>8, <1>10, <1>12 DEF InOrder

(* A flush of a gallery read in time assigns every row its new values.     *)
LEMMA FreshFlush ==
    ASSUME IInv, InTime, NEW r \in Requests, step[r] = "loaded",
           NEW new \in [Images -> Image],
           \A j \in Gallery : new[j].state = "row",
           image' = Flush(r, new)
    PROVE  /\ Gallery' = Gallery
           /\ \A j \in Gallery : /\ image'[j].order = new[j].order
                                 /\ image'[j].cover = new[j].cover
<1>1. /\ Rows(seen[r]) = Gallery /\ \A j \in Gallery : seen[r][j] = image[j]
      /\ Gallery \subseteq Images /\ image \in [Images -> Image]
  BY Current DEF IInv, TypeOK, Gallery, Rows
<1>2. Gallery' = Gallery
  BY FlushKeeps DEF IInv, Gallery, Rows
<1>3. ASSUME NEW j \in Gallery
      PROVE  image'[j].order = new[j].order /\ image'[j].cover = new[j].cover
  <2>1. CASE j \in Dirty(r, new)
    <3>1. image'[j] = [image[j] EXCEPT
                         !.order = Column(@, image[j].order, new[j].order),
                         !.cover = Column(@, image[j].cover, new[j].cover)]
      BY <1>1, <1>3, <2>1 DEF Flush
    <3>2. image'[j].order = new[j].order /\ image'[j].cover = new[j].cover
      BY <1>1, <1>3, <3>1, FreshColumn DEF Image
    <3> QED BY <3>2
  <2>2. CASE j \notin Dirty(r, new)
    <3>1. new[j] = image[j] /\ image'[j] = image[j]
      BY <1>1, <1>3, <2>2 DEF Dirty, Flush
    <3> QED BY <3>1
  <2> QED BY <2>1, <2>2
<1> QED BY <1>2, <1>3

(* The chosen image becomes the one cover, the orders stay.                *)
LEMMA CoverInShape ==
    ASSUME IInv, InTime, InShape, NEW r \in Requests, NEW i \in Images, SetCover(r, i)
    PROVE  InShape' /\ (InOrder => InOrder')
<1> DEFINE new == [j \in Images |-> [seen[r][j] EXCEPT !.cover = (j = i)]]
<1>1. /\ Rows(seen[r]) = Gallery /\ \A j \in Gallery : seen[r][j] = image[j]
      /\ i \in Gallery /\ Gallery \subseteq Images /\ step[r] = "loaded"
  BY Current DEF IInv, SetCover, Gallery, Rows
<1>2. ASSUME NEW j \in Images
      PROVE  /\ new[j] \in Image /\ new[j].state = seen[r][j].state
             /\ new[j].order = seen[r][j].order /\ new[j].cover = (j = i)
  <2> DEFINE c == (j = i)
  <2>1. seen[r][j] \in Image /\ c \in BOOLEAN
    BY DEF IInv, TypeOK
  <2>2. new[j] = [seen[r][j] EXCEPT !.cover = c]
    OBVIOUS
  <2> HIDE DEF c, new
  <2>3. /\ new[j] \in Image /\ new[j].state = seen[r][j].state
        /\ new[j].order = seen[r][j].order /\ new[j].cover = c
    BY <2>1, <2>2 DEF Image
  <2> QED BY <2>3 DEF c
<1>3. image' = Flush(r, new) /\ new \in [Images -> Image]
  BY <1>2 DEF SetCover
<1> HIDE DEF new
<1>4. \A j \in Gallery : new[j].state = "row"
  BY <1>1, <1>2 DEF Gallery, Rows
<1>5. /\ Gallery' = Gallery
      /\ \A j \in Gallery : /\ image'[j].order = new[j].order
                            /\ image'[j].cover = new[j].cover
  BY <1>1, <1>3, <1>4, FreshFlush
<1>6. \A j \in Gallery : image'[j].order = image[j].order
  BY <1>1, <1>2, <1>5
<1>7. \A j \in Gallery : image'[j].cover <=> j = i
  BY <1>1, <1>2, <1>5
<1>8. {image'[j].order : j \in Gallery} = {image[j].order : j \in Gallery}
  BY <1>6
<1>9. InShape'
  BY <1>1, <1>5, <1>7 DEF InShape, OneCover, WithinLimit
<1> QED BY <1>5, <1>8, <1>9 DEF InOrder

(* The cover stays, and the orders are the ranks unless an image was named *)
(* twice.                                                                  *)
LEMMA ReorderInShape ==
    ASSUME IInv, InTime, InShape, NEW r \in Requests, Reorder(r)
    PROVE  InShape' /\ (InOrder' \/ Repeats(r))
<1>1. PICK place \in Places(Rows(seen[r])) : ReorderTo(r, place)
  BY DEF Reorder
<1>2. /\ Rows(seen[r]) = Gallery /\ \A j \in Gallery : seen[r][j] = image[j]
      /\ Gallery \subseteq Images /\ step[r] = "loaded"
  BY <1>1, Current DEF IInv, ReorderTo, Gallery, Rows
<1>3. \A j \in Gallery : place[j] \in Nat
  BY <1>1, <1>2, RowsCount, PlacesAreNatural
<1> DEFINE new == [j \in Images |-> IF j \in Gallery
                         THEN [seen[r][j] EXCEPT !.order = place[j]]
                         ELSE seen[r][j]]
<1>4. ASSUME NEW j \in Images
      PROVE  /\ new[j] \in Image /\ new[j].state = seen[r][j].state
             /\ new[j].cover = seen[r][j].cover
             /\ j \in Gallery => new[j].order = place[j]
  <2>1. seen[r][j] \in Image
    BY DEF IInv, TypeOK
  <2>2. CASE j \in Gallery
    <3> DEFINE o == place[j]
               x == seen[r][j]
    <3>1. new[j] = [x EXCEPT !.order = o] /\ o \in Nat /\ x \in Image
      BY <1>3, <2>1, <2>2
    <3> HIDE DEF new, o, x
    <3>2. new[j] \in Image /\ new[j].state = x.state /\ new[j].cover = x.cover /\ new[j].order = o
      BY <3>1 DEF Image
    <3> QED BY <3>2 DEF x, o
  <2>3. CASE j \notin Gallery
    <3>1. new[j] = seen[r][j]
      BY <2>3
    <3> HIDE DEF new
    <3> QED BY <2>1, <2>3, <3>1
  <2> QED BY <2>2, <2>3
<1>5. image' = Flush(r, new) /\ new \in [Images -> Image]
  BY <1>1, <1>2, <1>4 DEF ReorderTo
<1> HIDE DEF new
<1>6. \A j \in Gallery : new[j].state = "row"
  BY <1>2, <1>4 DEF Gallery, Rows
<1>7. /\ Gallery' = Gallery
      /\ \A j \in Gallery : /\ image'[j].order = new[j].order
                            /\ image'[j].cover = new[j].cover
  BY <1>2, <1>5, <1>6, FreshFlush
<1>8. \A j \in Gallery : image'[j].order = place[j] /\ image'[j].cover = image[j].cover
  BY <1>2, <1>4, <1>7
<1>9. InShape'
  BY <1>7, <1>8 DEF InShape, OneCover, WithinLimit
<1>10. CASE place \in Ranks(Gallery)
  <2>1. {place[j] : j \in Gallery} = 0..(Cardinality(Gallery) - 1)
    BY <1>10, RowsFinite, Ranking DEF Gallery
  <2>2. {image'[j].order : j \in Gallery} = {place[j] : j \in Gallery}
    BY <1>8
  <2> QED BY <1>7, <1>9, <2>1, <2>2 DEF InOrder
<1>11. CASE place \notin Ranks(Gallery)
  BY <1>1, <1>2, <1>9, <1>11 DEF Repeats
<1> QED BY <1>10, <1>11

(* Every step of requests that are in time leaves the gallery in shape,    *)
(* and its orders whole unless it names an image twice.                    *)
OrderKept == InOrder => InOrder' \/ \E r \in Requests : Repeats(r)

LEMMA ShapeStays ==
    ASSUME IInv, Room, InTime, InShape, Next
    PROVE  InShape' /\ OrderKept
<1>1. ASSUME image' = image PROVE InShape' /\ OrderKept
  BY <1>1, SameShape DEF Gallery, Rows, OrderKept
<1>2. ASSUME NEW r \in Requests, Load(r) \/ Abandon(r) \/ \E i \in Images : Unlink(r, i)
      PROVE  InShape' /\ OrderKept
  BY <1>1, <1>2 DEF Load, Abandon, Unlink
<1>3. CASE WorkerStep
  BY <1>1, <1>3 DEF WorkerStep, StartSweep, SweepFile, EndSweep
<1>4. ASSUME NEW r \in Requests, DeleteListing(r) PROVE InShape' /\ OrderKept
  <2>1. Gallery' = {}
    BY <1>4 DEF DeleteListing, Gallery, Rows, Gone
  <2>2. InShape'
    BY <2>1, FS_EmptySet, ImagesAssumption DEF ImagesAssumption, InShape, OneCover, WithinLimit
  <2>3. InOrder'
    BY <2>1, FS_EmptySet DEF InOrder
  <2> QED BY <2>2, <2>3 DEF OrderKept
<1>5. ASSUME NEW r \in Requests, NEW i \in Images, StoreFile(r, i)
      PROVE  InShape' /\ OrderKept
  <2>1. /\ image[i].state = "unborn" /\ image'[i].state = "taken"
        /\ \A j \in Images \ {i} : image'[j] = image[j]
    BY <1>5 DEF IInv, TypeOK, StoreFile, Image
  <2>2. Gallery' = Gallery /\ \A j \in Gallery : image'[j] = image[j]
    BY <2>1 DEF Gallery, Rows
  <2> QED BY <2>2, SameShape DEF OrderKept
<1>6. ASSUME NEW r \in Requests, Reorder(r) PROVE InShape' /\ OrderKept
  BY <1>6, ReorderInShape DEF OrderKept
<1>7. ASSUME NEW r \in Requests, NEW i \in Images,
             AddImage(r, i) \/ DeleteImage(r, i) \/ SetCover(r, i)
      PROVE  InShape' /\ OrderKept
  BY <1>7, AddInShape, DeleteInShape, CoverInShape DEF OrderKept
<1> QED BY <1>2, <1>3, <1>4, <1>5, <1>6, <1>7 DEF Next, Request

(* While no request works on a gallery that another has changed since it   *)
(* was read: an image is the cover as soon as there is one, and the limit  *)
(* is kept, through any sequence of uploads, deletions, cover changes,     *)
(* reorderings and failures; and the orders have no gap and no tie, unless *)
(* a new order that named an image twice left them so                      *)
(* (listing_service.py:593-656).                                           *)
THEOREM GalleryKept == MCSpec => []GalleryUnlessStale
<1> DEFINE Calm == InTime /\ InShape /\ (repeated \/ InOrder)
           I    == IInv /\ Room /\ (stale \/ Calm)
<1>1. MCInit => I
  <2> SUFFICES ASSUME MCInit PROVE I
    OBVIOUS
  <2>1. IInv /\ Room
    BY InitIInv DEF MCInit, Init, Room
  <2>2. InTime
    BY DEF MCInit, Init, InTime, Overtaken
  <2>3. Gallery = {}
    BY DEF MCInit, Init, Gallery, Rows, Blank
  <2>4. InShape /\ InOrder
    BY <2>3, FS_EmptySet, ImagesAssumption
       DEF ImagesAssumption, InShape, OneCover, WithinLimit, InOrder
  <2> QED BY <2>1, <2>2, <2>4
<1>2. ASSUME I, MCNext PROVE I'
  <2>1. IInv' /\ Room'
    BY <1>2, NextIInv, RoomStays DEF MCNext, IInv
  <2>2. stale' = (stale \/ ~InTime')
    BY <1>2 DEF MCNext, InTime
  <2>3. CASE stale'
    BY <2>1, <2>3
  <2>4. CASE ~stale'
    <3>1. InTime' /\ InTime /\ InShape /\ (repeated \/ InOrder)
      BY <1>2, <2>2, <2>4
    <3>2. InShape' /\ OrderKept
      BY <1>2, <3>1, ShapeStays DEF MCNext
    <3>3. repeated' \/ InOrder'
      BY <1>2, <2>4, <3>1, <3>2 DEF MCNext, OrderKept
    <3> QED BY <2>1, <3>1, <3>2, <3>3
  <2> QED BY <2>3, <2>4
<1>3. I /\ UNCHANGED <<vars, stale, repeated>> => I'
  <2> SUFFICES ASSUME I, UNCHANGED <<vars, stale, repeated>> PROVE I'
    OBVIOUS
  <2>1. IInv' /\ Room' /\ stale' = stale /\ repeated' = repeated
    BY NextIInv, RoomStays DEF IInv
  <2>2. CASE stale
    BY <2>1, <2>2
  <2>3. CASE Calm
    <3>1. InTime'
      BY <2>3 DEF vars, InTime, Overtaken, Gallery, Rows
    <3>2. InShape' /\ (InOrder => InOrder')
      BY <2>3, SameShape DEF vars, Gallery, Rows
    <3> QED BY <2>1, <2>3, <3>1, <3>2
  <2> QED BY <2>2, <2>3
<1>4. I => GalleryUnlessStale
  BY DEF GalleryUnlessStale, InShape
<1> QED BY <1>1, <1>2, <1>3, <1>4, PTL DEF MCSpec

-----------------------------------------------------------------------------
(* What the parts call the variables of MCScreens.                         *)
url == v1
calls == v1
call == v1
none == v2
active == v2
inbox == v2
raced == v2
crossed == v2
drawer == v3
text == v3
tab == v3
page == v3
listing == v3
form == v3
upload == v3
sheet == v4
shown == v4
unread == v4
sale == v4
good == v4
case == v4
phone == v4
landing == v4
panel == v4
saved == v5
timer == v5
events == v5
told == v5
kind == v5
now == v5
report == v5
verified == v5
stored == v5
list == v5
urls == v5
dropped == v6
input == v6
moved == v6
reviews == v6
owner == v6
until == v6
noted == v6
challenge == v6
cover == v6
editing == v6
spent == v6
went == v7
overlapped == v7
resold == v7
fans == v7
order == v7
signal == v7
cooling == v7
failed == v7
preview == v7
count == v8
ready == v8
risk == v8
proved == v8
deleted == v8
overtaken == v9
clearing == v9
reports == v9
guesses == v9
cut == v10
lost == v10
downed == v11
acted == v12

-----------------------------------------------------------------------------
(* The search page.                                                        *)
USE DEF url, none, drawer, sheet, saved, dropped

BrKeys == {"type", "line", "size"}
BrAttributes == [BrKeys -> SUBSET {"a", "b", "x"}]
BrUrls == [category : SUBSET (1 .. 4), attribute : BrAttributes, page : Nat]

(* Every attribute an address uses is one the form of the page offers.     *)
BrSound(u) == Br!Used(u) \subseteq Br!Offered(u)
(* An open form offers what depends on another attribute only while that   *)
(* one is sent with it; and nothing once a category has been chosen.       *)
BrSheet ==
    \E cat \in SUBSET (1 .. 4), off, dis \in SUBSET BrKeys, att \in BrAttributes :
       sheet = [category |-> cat, offered |-> off, disabled |-> dis, attribute |-> att]
BrForm ==
    /\ sheet.offered \subseteq Br!Offered(url)
    /\ \/ sheet.offered \subseteq sheet.disabled
       \/ /\ sheet.category = url.category
          /\ \A k \in sheet.offered \ sheet.disabled :
                LET w == Br!Condition[k].key IN
                w # "none" => /\ w \in sheet.offered \ sheet.disabled
                              /\ sheet.attribute[w] \cap Br!Condition[k].values # {}
BrHolds ==
    /\ BrSound(url) /\ \A s \in saved : BrSound(s)
    /\ drawer = "open" => BrForm
BrInv ==
    /\ url \in BrUrls /\ saved \subseteq BrUrls /\ dropped \in BOOLEAN /\ BrSheet
    /\ dropped \/ BrHolds

LEMMA BrCatalogue ==
    /\ Br!Attributes = BrKeys /\ Br!Categories = 1 .. 4 /\ Br!None = "none"
    /\ \A c \in 1 .. 4 : Br!Root(c) \in 1 .. 4 /\ Br!Root(Br!Root(c)) = Br!Root(c)
    /\ \A k \in BrKeys :
          LET w == Br!Condition[k].key IN
          w # "none" => w \in BrKeys /\ Br!Condition[w].key = "none"
<1>1. Br!Tree = <<0, 1, 1, 0>> /\ DOMAIN Br!Tree = 1 .. 4
  BY DEF Br!Tree
<1> QED BY <1>1 DEF Br!Attributes, BrKeys, Br!Condition, Br!Root, Br!Categories, Br!None

LEMMA BrFour == \A S \in SUBSET (1 .. 4) : IsFiniteSet(S)
<1>1. IsFiniteSet(1 .. 4)
  <2>1. \A n \in Int : IsFiniteSet(1 .. n)
    BY FS_Interval
  <2>2. 4 \in Int
    OBVIOUS
  <2> QED BY <2>1, <2>2, Zenon
<1> QED BY <1>1, FS_Subset

(* The category whose attributes are offered is of the one root of those   *)
(* that are chosen.                                                        *)
LEMMA BrSelects ==
    ASSUME NEW u, u.category \subseteq 1 .. 4, Br!SelectedCategory(u) # 0
    PROVE  /\ Cardinality(Br!Roots(u)) = 1
           /\ Br!Root(Br!SelectedCategory(u)) \in Br!Roots(u)
<1>1. PICK S \in SUBSET (1 .. 4) : S = u.category
  OBVIOUS
<1>2. PICK R \in SUBSET (1 .. 4) : R = Br!Roots(u) /\ R = {Br!Root(c) : c \in S}
  BY <1>1, BrCatalogue DEF Br!Roots
<1>3. IsFiniteSet(S) /\ IsFiniteSet(R)
  BY BrFour
<1>4. \A X : Br!Cardinality(X) = Cardinality(X)
  BY DEF Br!Cardinality, Cardinality
<1>5. CASE Cardinality(S) = 1
  <2>1. PICK x : S = {x}
    BY <1>3, <1>5, FS_Singleton
  <2>2. Br!SelectedCategory(u) = Br!Only(S)
    BY <1>1, <1>4, <1>5 DEF Br!SelectedCategory
  <2>3. Br!Only(S) = x
    BY <2>1 DEF Br!Only
  <2>4. R = {Br!Root(x)}
    BY <1>2, <2>1
  <2> QED BY <1>2, <2>2, <2>3, <2>4, FS_Singleton
<1>6. CASE Cardinality(S) # 1
  <2>1. Cardinality(R) = 1 /\ Br!SelectedCategory(u) = Br!Only(R)
    BY <1>1, <1>2, <1>4, <1>6 DEF Br!SelectedCategory
  <2>2. PICK r : R = {r}
    BY <1>3, <2>1, FS_Singleton
  <2>3. Br!Only(R) = r
    BY <2>2 DEF Br!Only
  <2>4. PICK c \in S : r = Br!Root(c)
    BY <1>2, <2>2
  <2>5. Br!Root(r) = r
    BY <2>4, BrCatalogue
  <2> QED BY <1>2, <2>1, <2>2, <2>3, <2>5
<1> QED BY <1>5, <1>6

(* What is offered, and what the server accepts.                           *)
LEMMA BrOffers ==
    ASSUME NEW u, NEW k
    PROVE  k \in Br!Offered(u) <=>
              /\ k \in BrKeys
              /\ LET c == Br!SelectedCategory(u) IN
                 c # 0 /\ Br!Definer[k] = Br!Root(c) /\ ~Br!Settled(c, k)
              /\ \/ Br!Condition[k].key = "none"
                 \/ u.attribute[Br!Condition[k].key] \cap Br!Condition[k].values # {}
BY BrCatalogue DEF Br!Offered

LEMMA BrAccepts ==
    ASSUME NEW u, u.category \subseteq 1 .. 4,
           \A k \in Br!Used(u) :
              /\ Br!SelectedCategory(u) # 0 /\ Br!Definer[k] = Br!Root(Br!SelectedCategory(u))
              /\ \/ Br!Condition[k].key = "none"
                 \/ u.attribute[Br!Condition[k].key] \cap Br!Condition[k].values # {}
    PROVE  Br!Accepted(u)
<1> SUFFICES ASSUME NEW k \in Br!Used(u)
             PROVE  /\ Br!Cardinality(Br!Roots(u)) = 1
                    /\ Br!Definer[k] \in Br!Roots(u) /\ Br!Applies(u, k)
  BY DEF Br!Accepted
<1>1. Cardinality(Br!Roots(u)) = 1 /\ Br!Definer[k] \in Br!Roots(u)
  BY BrSelects
<1>2. \A X : Br!Cardinality(X) = Cardinality(X)
  BY DEF Br!Cardinality, Cardinality
<1>3. Br!Applies(u, k)
  <2>1. CASE Br!Condition[k].key = "none"
    BY <2>1, BrCatalogue DEF Br!Applies
  <2>2. CASE u.attribute[Br!Condition[k].key] \cap Br!Condition[k].values # {}
    <3>1. PICK w : w = Br!Condition[k].key
      OBVIOUS
    <3>2. u.attribute[w] # {}
      BY <2>2, <3>1
    <3>3. Br!Context(u, w) = u.attribute[w]
      BY <3>2 DEF Br!Context
    <3> QED BY <2>2, <3>1, <3>3 DEF Br!Applies
  <2> QED BY <2>1, <2>2
<1> QED BY <1>1, <1>2, <1>3

LEMMA BrSoundAccepted ==
    ASSUME NEW u, u.category \subseteq 1 .. 4, BrSound(u) PROVE Br!Accepted(u)
BY BrOffers, BrAccepts DEF BrSound

(* Only the categories and the attributes of an address count.             *)
LEMMA BrSame ==
    ASSUME NEW u, NEW w, u.category = w.category
    PROVE  Br!SelectedCategory(u) = Br!SelectedCategory(w)
BY DEF Br!SelectedCategory, Br!Roots

LEMMA BrPages ==
    ASSUME NEW u, NEW w, u.category = w.category, u.attribute = w.attribute
    PROVE  BrSound(u) <=> BrSound(w)
<1>1. Br!Used(u) = Br!Used(w)
  BY DEF Br!Used
<1>2. Br!Offered(u) = Br!Offered(w)
  BY BrSame DEF Br!Offered
<1> QED BY <1>1, <1>2 DEF BrSound

LEMMA BrNothing == Br!NoFilters \in BrUrls /\ Br!Used(Br!NoFilters) = {} /\ BrSound(Br!NoFilters)
<1>1. Br!NoFilters \in BrUrls
  BY BrCatalogue DEF Br!NoFilters, BrUrls, BrAttributes
<1>2. Br!Used(Br!NoFilters) = {}
  BY DEF Br!Used, Br!NoFilters
<1> QED BY <1>1, <1>2 DEF BrSound

(* The form as it is mounted.                                              *)
LEMMA BrMounts ==
    ASSUME NEW u \in BrUrls
    PROVE  \E off \in SUBSET BrKeys :
              /\ off = Br!Offered(u)
              /\ Br!FilterSidebar(u) = [category |-> u.category, offered |-> off, disabled |-> {},
                                        attribute |-> u.attribute]
<1>1. PICK off \in SUBSET BrKeys : off = Br!Offered(u)
  BY BrCatalogue DEF Br!Offered
<1>2. [k \in BrKeys |-> u.attribute[k]] = u.attribute
  BY DEF BrUrls, BrAttributes
<1> QED BY <1>1, <1>2, BrCatalogue DEF Br!FilterSidebar

LEMMA BrEmpty == \E off \in SUBSET BrKeys, cat \in SUBSET (1 .. 4), att \in BrAttributes :
    Br!Empty = [category |-> cat, offered |-> off, disabled |-> {}, attribute |-> att]
<1>1. PICK u \in BrUrls : u = Br!NoFilters
  BY BrNothing
<1>2. u.category \in SUBSET (1 .. 4) /\ u.attribute \in BrAttributes
  BY DEF BrUrls
<1>3. Br!Empty = Br!FilterSidebar(u)
  BY <1>1 DEF Br!Empty
<1> QED BY <1>2, <1>3, BrMounts

LEMMA BrInit == ASSUME Br!MCInit PROVE BrInv
<1>1. BrSheet
  <2>1. sheet = Br!Empty
    BY DEF Br!MCInit, Br!Init
  <2> QED BY <2>1, BrEmpty DEF BrSheet
<1> QED BY <1>1, BrNothing DEF Br!MCInit, Br!Init, BrInv, BrHolds

(* What an open form sends is accepted, and sound again.                   *)
LEMMA BrSends ==
    ASSUME url \in BrUrls, BrSheet
    PROVE  LET u == Br!Submitted(sheet) IN
           /\ u \in BrUrls
           /\ BrSound(url) /\ BrForm => BrSound(u) /\ Br!Accepted(u)
<1>1. PICK cat \in SUBSET (1 .. 4), off \in SUBSET BrKeys, dis \in SUBSET BrKeys, att \in BrAttributes :
         sheet = [category |-> cat, offered |-> off, disabled |-> dis, attribute |-> att]
  BY DEF BrSheet
<1>2. PICK sent \in BrAttributes :
         sent = [k \in BrKeys |-> IF k \in off \ dis THEN att[k] ELSE {}]
  BY DEF BrAttributes
<1>3. PICK u \in BrUrls : u = [category |-> cat, page |-> 1, attribute |-> sent]
  BY DEF BrUrls
<1>4. u = Br!Submitted(sheet)
  BY <1>1, <1>2, <1>3, BrCatalogue DEF Br!Submitted
<1>5. u.category = cat /\ u.attribute = sent
  BY <1>3
<1>6. ASSUME NEW k \in Br!Used(u) PROVE k \in off \ dis
  BY <1>2, <1>5, BrCatalogue DEF Br!Used
<1>7. ASSUME BrSound(url), BrForm PROVE BrSound(u)
  <2>1. CASE off \subseteq dis
    BY <1>6, <2>1 DEF BrSound
  <2>2. CASE ~(off \subseteq dis)
    <3>1. cat = url.category /\ off \subseteq Br!Offered(url)
      BY <1>1, <1>7, <2>2 DEF BrForm
    <3>2. Br!SelectedCategory(u) = Br!SelectedCategory(url)
      BY <1>5, <3>1, BrSame
    <3>3. ASSUME NEW k \in Br!Used(u) PROVE k \in Br!Offered(u)
      <4>1. k \in off \ dis /\ k \in Br!Offered(url) /\ k \in BrKeys
        BY <1>6, <3>1, <3>3
      <4>2. PICK w : w = Br!Condition[k].key
        OBVIOUS
      <4>3. w # "none" => w \in off \ dis /\ att[w] \cap Br!Condition[k].values # {}
        BY <1>1, <1>7, <2>2, <4>1, <4>2 DEF BrForm
      <4>4. w # "none" => u.attribute[w] \cap Br!Condition[k].values # {}
        BY <1>2, <1>5, <4>1, <4>2, <4>3, BrCatalogue
      <4> QED BY <3>2, <4>1, <4>2, <4>4, BrOffers
    <3> QED BY <3>3 DEF BrSound
  <2> QED BY <2>1, <2>2
<1>8. u.category \subseteq 1 .. 4
  BY <1>5
<1> QED BY <1>3, <1>4, <1>7, <1>8, BrSoundAccepted

(* Following a link.                                                       *)
LEMMA BrFollows ==
    ASSUME BrInv, Br!MCNext, NEW u \in BrUrls, url' = u, saved' = saved, drawer' # "open", BrSheet',
           BrHolds /\ ~Br!Drops => BrSound(u)
    PROVE  BrInv'
<1>1. dropped' = IF url' = url THEN dropped
                 ELSE (Br!Drops \/ dropped) /\ (Br!Used(url') # {} \/ saved' # {})
  BY DEF Br!MCNext
<1>2. dropped' \in BOOLEAN
  BY <1>1 DEF BrInv
<1>3. ASSUME ~dropped' PROVE BrHolds'
  <2>1. CASE url' = url
    <3>1. ~dropped
      BY <1>1, <1>3, <2>1
    <3>2. BrHolds
      BY <3>1 DEF BrInv
    <3> QED BY <2>1, <3>2 DEF BrHolds
  <2>2. CASE url' # url /\ ~(Br!Drops \/ dropped)
    <3>1. BrHolds
      BY <2>2 DEF BrInv
    <3> QED BY <2>2, <3>1 DEF BrHolds
  <2>3. CASE url' # url /\ Br!Used(url') = {} /\ saved' = {}
    <3>1. BrSound(u)
      BY <2>3 DEF BrSound
    <3> QED BY <2>3, <3>1 DEF BrHolds
  <2> QED BY <1>1, <1>3, <2>1, <2>2, <2>3
<1> QED BY <1>2, <1>3 DEF BrInv

LEMMA BrSearches ==
    ASSUME NEW s, s \in BrUrls
    PROVE  /\ \A n \in Nat : LET u == [s EXCEPT !.page = n] IN
                 u \in BrUrls /\ u.category = s.category /\ u.attribute = s.attribute
           /\ \A S \in SUBSET (1 .. 4), n \in Nat : [s EXCEPT !.category = S, !.page = n] \in BrUrls
           /\ \A k \in BrKeys : LET u == [s EXCEPT !.attribute[k] = {}, !.page = 1] IN
                 /\ u \in BrUrls /\ u.category = s.category
                 /\ u.attribute = [s.attribute EXCEPT ![k] = {}]
BY DEF BrUrls, BrAttributes

LEMMA BrStays == ASSUME BrInv, sheet' = sheet PROVE BrSheet'
BY DEF BrInv, BrSheet

(* The links beside the form.                                              *)
LEMMA BrLinks ==
    ASSUME BrInv, Br!MCNext,
           \/ \E c \in Br!Categories : Br!RemoveCategory(c) \/ Br!Related(c)
           \/ \E k \in Br!Attributes : Br!RemoveAttribute(k)
           \/ Br!Sort \/ Br!Paging \/ Br!Reset
           \/ \E s \in saved : Br!SearchUrl(s)
    PROVE  BrInv'
<1>1. url \in BrUrls
  BY DEF BrInv
<1>2. CASE \E c \in Br!Categories : Br!RemoveCategory(c) \/ Br!Related(c)
  <2>1. Br!Drops
    BY <1>2 DEF Br!Drops
  <2>2. \E S \in SUBSET (1 .. 4) : Br!Follow([url EXCEPT !.category = S, !.page = 1])
    <3>1. PICK c \in 1 .. 4 : Br!RemoveCategory(c) \/ Br!Related(c)
      BY <1>2, BrCatalogue
    <3>2. CASE Br!RemoveCategory(c)
      <4>1. PICK S \in SUBSET (1 .. 4) : S = url.category \ {c}
        BY <1>1 DEF BrUrls
      <4>2. Br!Follow([url EXCEPT !.category = S, !.page = 1])
        BY <3>2, <4>1 DEF Br!RemoveCategory
      <4> QED BY <4>2
    <3>3. CASE Br!Related(c)
      <4>1. PICK S \in SUBSET (1 .. 4) : S = {c}
        OBVIOUS
      <4>2. Br!Follow([url EXCEPT !.category = S, !.page = 1])
        BY <3>3, <4>1 DEF Br!Related
      <4> QED BY <4>2
    <3> QED BY <3>1, <3>2, <3>3
  <2>3. PICK u \in BrUrls : Br!Follow(u)
    BY <1>1, <2>2, BrSearches
  <2> QED BY <2>1, <2>3, BrFollows, BrStays DEF Br!Follow, Br!Visit
<1>3. CASE \E k \in Br!Attributes : Br!RemoveAttribute(k)
  <2>1. PICK k \in BrKeys : Br!RemoveAttribute(k)
    BY <1>3, BrCatalogue
  <2>2. PICK u \in BrUrls : /\ u = [url EXCEPT !.attribute[k] = {}, !.page = 1]
                            /\ u.category = url.category
                            /\ u.attribute = [url.attribute EXCEPT ![k] = {}]
    BY <1>1, BrSearches
  <2>3. Br!Follow(u)
    BY <2>1, <2>2 DEF Br!RemoveAttribute
  <2>4. ASSUME BrHolds, ~Br!Drops PROVE BrSound(u)
    <3>1. \A d \in BrKeys : Br!Condition[d].key # k
      BY <2>1, <2>4, BrCatalogue DEF Br!Drops
    <3>2. url.attribute \in BrAttributes
      BY <1>1 DEF BrUrls
    <3>3. \A d \in Br!Used(u) : d \in Br!Used(url) /\ d \in BrKeys
      BY <2>2, <3>2, BrCatalogue DEF Br!Used, BrAttributes
    <3>4. Br!SelectedCategory(u) = Br!SelectedCategory(url)
      BY <2>2, BrSame
    <3>5. ASSUME NEW d \in Br!Used(u) PROVE d \in Br!Offered(u)
      <4>1. d \in Br!Offered(url) /\ d \in BrKeys
        BY <2>4, <3>3, <3>5 DEF BrHolds, BrSound
      <4>2. PICK w : w = Br!Condition[d].key
        OBVIOUS
      <4>3. w # k
        BY <3>1, <4>1, <4>2
      <4>4. w # "none" => u.attribute[w] = url.attribute[w]
        BY <2>2, <3>2, <4>1, <4>2, <4>3, BrCatalogue DEF BrAttributes
      <4> QED BY <3>4, <4>1, <4>2, <4>4, BrOffers
    <3> QED BY <3>5 DEF BrSound
  <2> QED BY <2>3, <2>4, BrFollows, BrStays DEF Br!Follow, Br!Visit
<1>4. CASE Br!Sort \/ Br!Paging
  <2>1. PICK n \in Nat : Br!Follow([url EXCEPT !.page = n])
    <3>1. CASE Br!Sort
      BY <3>1 DEF Br!Sort
    <3>2. CASE Br!Paging
      BY <3>2 DEF Br!Paging
    <3> QED BY <1>4, <3>1, <3>2
  <2>2. PICK u \in BrUrls : /\ Br!Follow(u)
                            /\ u.category = url.category /\ u.attribute = url.attribute
    BY <1>1, <2>1, BrSearches
  <2>3. BrHolds => BrSound(u)
    BY <2>2, BrPages DEF BrHolds
  <2> QED BY <2>2, <2>3, BrFollows, BrStays DEF Br!Follow, Br!Visit
<1>5. CASE Br!Reset
  BY <1>5, BrNothing, BrFollows, BrStays DEF Br!Reset, Br!Follow, Br!Visit
<1>6. CASE \E s \in saved : Br!SearchUrl(s)
  <2>1. PICK s \in saved : Br!Follow(s)
    BY <1>6 DEF Br!SearchUrl
  <2>2. s \in BrUrls /\ (BrHolds => BrSound(s))
    BY DEF BrInv, BrHolds
  <2> QED BY <2>1, <2>2, BrFollows, BrStays DEF Br!Follow, Br!Visit
<1> QED BY <1>2, <1>3, <1>4, <1>5, <1>6

(* The drawer and the form in it.                                          *)
LEMMA BrOpens ==
    ASSUME url \in BrUrls, sheet' = Br!FilterSidebar(url), url' = url
    PROVE  BrSheet' /\ (BrSound(url) => BrForm')
<1>1. PICK off \in SUBSET BrKeys, cat \in SUBSET (1 .. 4), att \in BrAttributes :
         /\ off = Br!Offered(url) /\ cat = url.category /\ att = url.attribute
         /\ sheet' = [category |-> cat, offered |-> off, disabled |-> {}, attribute |-> att]
  <2>1. url.category \in SUBSET (1 .. 4) /\ url.attribute \in BrAttributes
    BY DEF BrUrls
  <2> QED BY <2>1, BrMounts
<1>2. sheet'.offered = off /\ sheet'.category = cat /\ sheet'.disabled = {} /\ sheet'.attribute = att
  BY <1>1
<1>3. ASSUME BrSound(url), NEW k \in off, Br!Condition[k].key # "none"
      PROVE  /\ Br!Condition[k].key \in off
             /\ att[Br!Condition[k].key] \cap Br!Condition[k].values # {}
  <2>1. PICK w : w = Br!Condition[k].key
    OBVIOUS
  <2>2. url.attribute[w] \cap Br!Condition[k].values # {}
    BY <1>1, <1>3, <2>1, BrOffers
  <2>3. w \in Br!Used(url)
    BY <1>3, <2>1, <2>2, BrCatalogue DEF Br!Used
  <2> QED BY <1>1, <1>3, <2>1, <2>2, <2>3 DEF BrSound
<1>4. Br!Offered(url') = off
  BY <1>1
<1>5. BrSheet'
  BY <1>1 DEF BrSheet
<1>6. BrSound(url) => BrForm'
  BY <1>1, <1>2, <1>3, <1>4 DEF BrForm
<1> QED BY <1>5, <1>6

LEMMA BrEdits == ASSUME url \in BrUrls, BrSheet, Br!Edit PROVE BrSheet' /\ (BrForm => BrForm')
<1>1. PICK cat \in SUBSET (1 .. 4), off \in SUBSET BrKeys, dis \in SUBSET BrKeys, att \in BrAttributes :
         sheet = [category |-> cat, offered |-> off, disabled |-> dis, attribute |-> att]
  BY DEF BrSheet
<1>2. url' = url /\ (BrForm => off \subseteq Br!Offered(url))
  BY <1>1 DEF Br!Edit, BrForm
<1>3. CASE \E c \in Br!Categories : sheet' = Br!UpdateCategoryChoice(sheet, c)
  <2>1. PICK c \in 1 .. 4 : sheet' = Br!UpdateCategoryChoice(sheet, c)
    BY <1>3, BrCatalogue
  <2>2. PICK chosen \in SUBSET (1 .. 4) : chosen = Br!Chosen(sheet, c)
    BY <1>1 DEF Br!Chosen
  <2>3. sheet' = [category |-> chosen, offered |-> off, disabled |-> off, attribute |-> att]
    BY <1>1, <2>1, <2>2 DEF Br!UpdateCategoryChoice
  <2>4. sheet'.offered = off /\ sheet'.disabled = off
    BY <2>3
  <2> QED BY <1>2, <2>3, <2>4 DEF BrForm, BrSheet
<1>4. CASE \E k \in sheet.offered \ sheet.disabled : \E chosen \in SUBSET Br!Options[k] :
               sheet' = Br!UpdateConditionalControls(sheet, k, chosen)
  <2>1. PICK k \in off \ dis, chosen \in SUBSET {"a", "b", "x"} :
           sheet' = Br!UpdateConditionalControls(sheet, k, chosen)
    <3>1. \A k \in BrKeys : Br!Options[k] \subseteq {"a", "b", "x"}
      BY BrCatalogue DEF Br!Options, BrKeys
    <3> QED BY <1>1, <1>4, <3>1
  <2>2. PICK dependent \in SUBSET BrKeys : dependent = {d \in off : Br!Condition[d].key = k}
    OBVIOUS
  <2>3. PICK dis2 \in SUBSET BrKeys :
           dis2 = (dis \ dependent) \cup {d \in dependent : chosen \cap Br!Condition[d].values = {}}
    OBVIOUS
  <2>4. PICK att2 \in BrAttributes : att2 = [att EXCEPT ![k] = chosen]
    BY DEF BrAttributes
  <2>5. sheet' = [category |-> cat, offered |-> off, disabled |-> dis2, attribute |-> att2]
    BY <1>1, <2>1, <2>2, <2>3, <2>4 DEF Br!UpdateConditionalControls
  <2>6. BrForm => cat = url.category /\ ~(off \subseteq dis)
    BY <1>1, <2>1 DEF BrForm
  <2>7. ASSUME BrForm, NEW d \in off \ dis2, NEW w, w = Br!Condition[d].key, w # "none"
        PROVE  w \in off \ dis2 /\ att2[w] \cap Br!Condition[d].values # {}
    <3>1. w \in BrKeys /\ Br!Condition[w].key = "none" /\ k # "none"
      BY <2>7, BrCatalogue DEF BrKeys
    <3>2. w \notin dependent
      BY <2>2, <3>1
    <3>3. CASE w = k
      <4>1. att2[w] = chosen
        BY <2>4, <3>3 DEF BrAttributes
      <4> QED BY <2>1, <2>2, <2>3, <2>7, <3>2, <3>3, <4>1
    <3>4. CASE w # k
      <4>1. d \in off \ dis
        BY <2>2, <2>3, <2>7, <3>4
      <4>2. w \in off \ dis /\ att[w] \cap Br!Condition[d].values # {}
        BY <1>1, <2>6, <2>7, <4>1 DEF BrForm
      <4>3. att2[w] = att[w]
        BY <2>4, <3>1, <3>4 DEF BrAttributes
      <4> QED BY <2>3, <3>2, <4>2, <4>3
    <3> QED BY <3>3, <3>4
  <2>8. /\ sheet'.offered = off /\ sheet'.category = cat
        /\ sheet'.disabled = dis2 /\ sheet'.attribute = att2
    BY <2>5
  <2>9. BrForm => BrForm'
    BY <1>2, <2>6, <2>7, <2>8 DEF BrForm
  <2> QED BY <2>5, <2>9 DEF BrSheet
<1> QED BY <1>3, <1>4 DEF Br!Edit

LEMMA BrDrawer ==
    ASSUME BrInv, Br!MCNext, Br!Hydrate \/ Br!Open \/ Br!Close \/ Br!Edit PROVE BrInv'
<1>1. url' = url /\ saved' = saved
  BY DEF Br!Hydrate, Br!Open, Br!Close, Br!Edit
<1>2. dropped' = dropped
  BY <1>1 DEF Br!MCNext
<1>3. url \in BrUrls /\ BrSheet
  BY DEF BrInv
<1>4. BrSheet' /\ (~dropped /\ drawer' = "open" => BrForm')
  <2>1. CASE Br!Open
    BY <1>3, <2>1, BrOpens DEF Br!Open, BrInv, BrHolds
  <2>2. CASE Br!Edit
    BY <1>3, <2>2, BrEdits DEF Br!Edit, BrInv, BrHolds
  <2>3. CASE Br!Hydrate
    BY <1>3, <2>3 DEF Br!Hydrate, BrSheet
  <2>4. CASE Br!Close
    BY <2>4, BrEmpty DEF Br!Close, Br!Leave, BrSheet
  <2> QED BY <2>1, <2>2, <2>3, <2>4
<1> QED BY <1>1, <1>2, <1>4 DEF BrInv, BrHolds

LEMMA BrLeaves == ASSUME BrInv, Br!MCNext, Br!Cancel \/ Br!Submit PROVE BrInv'
<1>1. sheet' = Br!Empty /\ drawer' # "open" /\ saved' = saved /\ drawer = "open"
  BY DEF Br!Cancel, Br!Submit, Br!Leave
<1>2. BrSheet'
  BY <1>1, BrEmpty DEF BrSheet
<1>3. CASE Br!Cancel
  BY <1>1, <1>2, <1>3, BrNothing, BrFollows DEF Br!Cancel, Br!Visit
<1>4. CASE Br!Submit
  <2>1. PICK u : u = Br!Submitted(sheet)
    OBVIOUS
  <2>2. url' = u
    BY <1>4, <2>1 DEF Br!Submit, Br!Visit
  <2>3. u \in BrUrls /\ (BrHolds => BrSound(u))
    BY <1>1, <2>1, BrSends DEF BrInv, BrHolds
  <2> QED BY <1>1, <1>2, <2>2, <2>3, BrFollows
<1> QED BY <1>3, <1>4

LEMMA BrSaves ==
    ASSUME BrInv, Br!MCNext, Br!CreateSearch \/ \E s \in saved : Br!DeleteSearch(s) PROVE BrInv'
<1>1. UNCHANGED <<url, none, drawer, sheet>>
  BY DEF Br!CreateSearch, Br!DeleteSearch
<1>2. dropped' = dropped
  BY <1>1 DEF Br!MCNext
<1>3. PICK u \in BrUrls : u = [url EXCEPT !.page = 1] /\ u.category = url.category /\ u.attribute = url.attribute
  BY BrSearches DEF BrInv
<1>4. saved' \subseteq saved \cup {u}
  BY <1>3 DEF Br!CreateSearch, Br!DeleteSearch
<1>5. BrSound(url) => BrSound(u)
  BY <1>3, BrPages
<1>6. (BrForm' <=> BrForm) /\ (BrSheet' <=> BrSheet)
  BY <1>1 DEF BrForm, BrSheet
<1>7. saved' \subseteq BrUrls
  BY <1>4 DEF BrInv
<1>8. dropped' \/ BrHolds'
  <2>1. CASE dropped
    BY <1>2, <2>1
  <2>2. CASE BrHolds
    BY <1>1, <1>4, <1>5, <1>6, <2>2 DEF BrHolds
  <2> QED BY <2>1, <2>2 DEF BrInv
<1> QED BY <1>1, <1>2, <1>6, <1>7, <1>8 DEF BrInv

LEMMA BrNext == ASSUME BrInv, Br!MCNext PROVE BrInv'
<1>1. Br!Next
  BY DEF Br!MCNext
<1> QED BY <1>1, BrLinks, BrDrawer, BrLeaves, BrSaves DEF Br!Next

LEMMA BrRests == ASSUME BrInv, UNCHANGED <<v1, v2, v3, v4, v5, v6>> PROVE BrInv'
BY DEF BrInv, BrHolds, BrSheet, BrForm

LEMMA BrSays == ASSUME BrInv PROVE Br!AcceptedUnlessDropped
<1> SUFFICES ASSUME BrHolds
             PROVE  Br!Accepted(url) /\ (drawer = "open" => Br!Accepted(Br!Submitted(sheet)))
  BY DEF BrInv, Br!AcceptedUnlessDropped
<1>1. url \in BrUrls /\ url.category \subseteq 1 .. 4 /\ BrSheet
  BY DEF BrInv, BrUrls
<1> QED BY <1>1, BrSoundAccepted, BrSends DEF BrHolds
HIDE DEF url, none, drawer, sheet, saved, dropped

-----------------------------------------------------------------------------
(* The search box.                                                         *)
USE DEF calls, active, text, shown, timer, input, went

SbCall(q, l, a) == [query |-> q, latest |-> l, arrived |-> a]

(* The latest request is for the text in the box.                          *)
SbInv ==
    /\ timer \in BOOLEAN
    /\ \A c \in calls : \E q : \E l, a \in BOOLEAN : c = SbCall(q, l, a)
    /\ \A c \in calls : c.latest => c.query = text
    /\ Sb!FreshOrReplaced

LEMMA SbInit == ASSUME Sb!Init PROVE SbInv
BY DEF Sb!Init, SbInv, Sb!FreshOrReplaced

(* A change of the text leaves no latest request.                          *)
LEMMA SbChanges ==
    ASSUME SbInv, NEW new, Sb!Changed(new),
           shown' # Sb!Nothing => shown' = shown /\ new # text /\ new # Sb!Short
    PROVE  SbInv'
<1>1. text' = new
  BY DEF Sb!Changed
<1>2. CASE new = text
  <2>1. UNCHANGED <<timer, calls>>
    BY <1>2 DEF Sb!Changed
  <2> QED BY <1>1, <1>2, <2>1 DEF SbInv, Sb!FreshOrReplaced
<1>3. CASE new # text
  <2>1. /\ timer' = (new # Sb!Short)
        /\ calls' = {[c EXCEPT !.latest = FALSE] : c \in {d \in calls : d.arrived}}
    BY <1>3 DEF Sb!Changed
  <2>2. ASSUME NEW e \in calls'
        PROVE  e.latest = FALSE /\ \E q : \E l, a \in BOOLEAN : e = SbCall(q, l, a)
    <3>1. PICK c \in calls : e = [c EXCEPT !.latest = FALSE]
      BY <2>1
    <3>2. PICK q : \E l, a \in BOOLEAN : c = SbCall(q, l, a)
      BY DEF SbInv
    <3>3. PICK l \in BOOLEAN, a \in BOOLEAN : c = SbCall(q, l, a)
      BY <3>2
    <3>4. e = SbCall(q, FALSE, a)
      BY <3>1, <3>3 DEF SbCall
    <3> QED BY <3>4 DEF SbCall
  <2>3. timer' \in BOOLEAN /\ (new # Sb!Short => timer')
    BY <2>1
  <2>4. Sb!FreshOrReplaced'
    BY <1>1, <1>3, <2>3 DEF Sb!FreshOrReplaced
  <2> QED BY <2>2, <2>3, <2>4 DEF SbInv
<1> QED BY <1>2, <1>3

LEMMA SbTypes ==
    ASSUME SbInv, NEW new, Sb!Type(new) PROVE SbInv'
BY SbChanges DEF Sb!Type

LEMMA SbChooses ==
    ASSUME SbInv, NEW i, Sb!Choose(i) PROVE SbInv'
BY SbChanges DEF Sb!Choose

(* A step that asks nothing and hides suggestions, or shows the same.      *)
LEMMA SbRestful ==
    ASSUME SbInv, UNCHANGED <<text, timer, calls>>, shown' \in {shown, Sb!Nothing} PROVE SbInv'
BY DEF SbInv, Sb!FreshOrReplaced

LEMMA SbAsks == ASSUME SbInv, Sb!Ask PROVE SbInv'
<1> DEFINE c == SbCall(text, TRUE, FALSE)
<1>1. UNCHANGED <<text, shown>> /\ timer' = FALSE /\ calls' = calls \cup {c}
  BY DEF Sb!Ask, SbCall
<1>2. c.latest = TRUE /\ c.query = text
  BY DEF SbCall
<1>3. \A d \in calls' : \E q : \E l, a \in BOOLEAN : d = SbCall(q, l, a)
  BY <1>1 DEF SbInv
<1> HIDE DEF c
<1>4. Sb!FreshOrReplaced'
  BY <1>1, <1>2 DEF Sb!FreshOrReplaced
<1> QED BY <1>1, <1>2, <1>3, <1>4 DEF SbInv

LEMMA SbArrives == ASSUME SbInv, NEW c \in calls, Sb!Arrive(c) PROVE SbInv'
<1>1. PICK q : \E l, a \in BOOLEAN : c = SbCall(q, l, a)
  BY DEF SbInv
<1>2. PICK l \in BOOLEAN, a \in BOOLEAN : c = SbCall(q, l, a)
  BY <1>1
<1>3. PICK d : d = SbCall(q, l, TRUE)
  OBVIOUS
<1>4. UNCHANGED <<text, shown, timer>> /\ calls' = (calls \ {c}) \cup {d}
  BY <1>2, <1>3 DEF Sb!Arrive, SbCall
<1>5. d.latest = c.latest /\ d.query = c.query
  BY <1>2, <1>3 DEF SbCall
<1>6. \A e \in calls' : \E r : \E m, b \in BOOLEAN : e = SbCall(r, m, b)
  BY <1>3, <1>4 DEF SbInv
<1>7. Sb!FreshOrReplaced'
  BY <1>4, <1>5 DEF SbInv, Sb!FreshOrReplaced
<1> QED BY <1>4, <1>5, <1>6, <1>7 DEF SbInv

LEMMA SbSuggests == ASSUME SbInv, NEW c \in calls, Sb!Suggest(c) PROVE SbInv'
<1>1. UNCHANGED <<text, timer>> /\ calls' = calls \ {c}
  BY DEF Sb!Suggest
<1>2. Sb!FreshOrReplaced'
  <2>1. CASE c.latest
    <3>1. shown' = Sb!Nothing \/ shown'.query = text'
      <4>1. shown' \in {[query |-> c.query, items |-> Offers[c.query]], Sb!Nothing} /\ c.query = text
        BY <2>1 DEF Sb!Suggest, SbInv
      <4> QED BY <1>1, <4>1
    <3> QED BY <3>1 DEF Sb!FreshOrReplaced
  <2>2. CASE ~c.latest
    BY <1>1, <2>2 DEF Sb!Suggest, SbInv, Sb!FreshOrReplaced
  <2> QED BY <2>1, <2>2
<1> QED BY <1>1, <1>2 DEF SbInv

LEMMA SbNext == ASSUME SbInv, Sb!Next PROVE SbInv'
<1>1. CASE Sb!Keyboard
  <2>1. CASE Sb!Escape
    BY <2>1, SbRestful DEF Sb!Escape
  <2>2. CASE Sb!Arrow
    BY <2>2, SbRestful DEF Sb!Arrow
  <2>3. CASE Sb!Enter
    <3>1. CASE active > 0
      BY <2>3, <3>1, SbChooses DEF Sb!Enter
    <3>2. CASE ~(active > 0)
      BY <2>3, <3>2, SbRestful DEF Sb!Enter
    <3> QED BY <3>1, <3>2
  <2> QED BY <1>1, <2>1, <2>2, <2>3 DEF Sb!Keyboard
<1>2. CASE Sb!Click
  BY <1>2, SbChooses DEF Sb!Click
<1>3. CASE Sb!Attention
  BY <1>3, SbRestful DEF Sb!Attention
<1> QED BY <1>1, <1>2, <1>3, SbTypes, SbAsks, SbArrives, SbSuggests DEF Sb!Next

LEMMA SbRests == ASSUME SbInv, UNCHANGED <<v1, v2, v3, v4, v5, v6, v7>> PROVE SbInv'
BY DEF SbInv, Sb!FreshOrReplaced

LEMMA SbSays == SbInv => Sb!FreshOrReplaced
BY DEF SbInv
HIDE DEF calls, active, text, shown, timer, input, went

-----------------------------------------------------------------------------
(* The notification center.                                                *)
USE DEF calls, inbox, tab, unread, events, moved, overlapped

IbNotices == {"c", "d", "e"}
IbPlaces ==
    /\ inbox \in Seq(IbNotices) /\ Len(inbox) = 3 /\ DOMAIN inbox = 1 .. 3
    /\ \A i, j \in 1 .. 3 : inbox[i] = inbox[j] => i = j
    /\ \A n \in IbNotices : \E i \in 1 .. 3 : inbox[i] = n
IbLater(m, n) == \E i, j \in 1 .. 3 : i < j /\ inbox[i] = m /\ inbox[j] = n
(* What a list leaves out is on the pages after its cursor.                *)
IbReach(S, cursor) ==
    \A n \in IbNotices \ moved : n \in S \/ (cursor # "end" /\ IbLater(cursor, n))
IbFields == {"items", "marked", "cursor", "more", "bell"}
IbTab(d, o) ==
    /\ IbFields = DOMAIN d /\ d.items \in Seq(IbNotices) /\ d.more \in BOOLEAN
    /\ d.cursor \in IbNotices \cup {"end"}
    /\ d.items = <<>> => d.cursor = "end" /\ ~d.more
    /\ d.items # <<>> /\ ~o => IbReach(Ib!Range(d.items), d.cursor)
IbCall(c, d, o) ==
    /\ c.kind \in {"first", "more", "bell", "read"}
    /\ c.kind \in {"first", "more"} => c.rows \in Seq(IbNotices) /\ c.next \in IbNotices \cup {"end"}
    /\ c.kind = "first" => c.rows # <<>> /\ IbReach(Ib!Range(c.rows), c.next)
    /\ c.kind = "more" => d.more /\ (o \/ IbReach(Ib!Range(d.items) \cup Ib!Range(c.rows), c.next))
IbOk(d, cs, o) ==
    /\ o \in BOOLEAN /\ IbTab(d, o) /\ \A c \in cs : IbCall(c, d, o)
    /\ \A c, b \in cs : c.kind = "more" /\ b.kind = "more" => c = b
IbType ==
    /\ events \in Nat /\ tab = [t \in Desks |-> tab[t]] /\ calls = [t \in Desks |-> calls[t]]
    /\ overlapped = [t \in Desks |-> overlapped[t]]
IbInv == IbPlaces /\ IbType /\ \A t \in Desks : IbOk(tab[t], calls[t], overlapped[t])

LEMMA IbNumber == Ib!Cardinality(IbNotices) = 3
<1>1. \A S : Ib!Cardinality(S) = Cardinality(S)
  BY DEF Ib!Cardinality, Cardinality
<1>2. IsFiniteSet({}) /\ Cardinality({}) = 0
  BY FS_EmptySet
<1>3. IsFiniteSet({"c"}) /\ Cardinality({"c"}) = 1
  BY FS_Singleton
<1>4. IsFiniteSet({"c"} \cup {"d"}) /\ Cardinality({"c"} \cup {"d"}) = 2
  BY <1>3, FS_AddElement
<1>5. Cardinality({"c"} \cup {"d"} \cup {"e"}) = 3
  BY <1>4, FS_AddElement
<1>6. IbNotices = {"c"} \cup {"d"} \cup {"e"}
  BY DEF IbNotices
<1> QED BY <1>1, <1>5, <1>6

LEMMA IbThree ==
    ASSUME NEW f \in [1 .. 3 -> IbNotices], \A i, j \in 1 .. 3 : f[i] = f[j] => i = j
    PROVE  f \in Seq(IbNotices) /\ Len(f) = 3 /\ \A n \in IbNotices : \E i \in 1 .. 3 : f[i] = n
<1>1. f \in Seq(IbNotices) /\ Len(f) = 3
  <2>1. f = [i \in 1 .. 3 |-> f[i]] /\ \A i \in 1 .. 3 : f[i] \in IbNotices
    OBVIOUS
  <2>2. [i \in 1 .. 3 |-> f[i]] \in Seq(IbNotices) /\ Len([i \in 1 .. 3 |-> f[i]]) = 3
    BY <2>1
  <2> QED BY <2>1, <2>2
<1>2. f[1] \in IbNotices /\ f[2] \in IbNotices /\ f[3] \in IbNotices
  OBVIOUS
<1>3. f[1] # f[2] /\ f[2] # f[3] /\ f[1] # f[3]
  OBVIOUS
<1>4. \A n \in IbNotices : n = f[1] \/ n = f[2] \/ n = f[3]
  BY <1>2, <1>3 DEF IbNotices
<1> QED BY <1>1, <1>4

LEMMA IbInit == ASSUME Ib!MCInit PROVE IbInv
<1>1. inbox = CHOOSE f \in [1 .. 3 -> IbNotices] : Ib!IsInjective(f)
  BY IbNumber DEF Ib!MCInit, Ib!Init, IbNotices
<1>2. <<"c", "d", "e">> \in [1 .. 3 -> IbNotices] /\ Ib!IsInjective(<<"c", "d", "e">>)
  BY DEF IbNotices, Ib!IsInjective
<1>3. inbox \in [1 .. 3 -> IbNotices] /\ Ib!IsInjective(inbox)
  BY <1>1, <1>2
<1>4. \A i, j \in 1 .. 3 : inbox[i] = inbox[j] => i = j
  BY <1>3 DEF Ib!IsInjective
<1>5. IbPlaces
  BY <1>3, <1>4, IbThree DEF IbPlaces
<1>6. IbType
  BY DEF Ib!MCInit, Ib!Init, IbType
<1>7. ASSUME NEW t \in Desks PROVE IbOk(tab[t], calls[t], overlapped[t])
  <2>1. tab[t] = [items |-> <<>>, marked |-> {}, cursor |-> "end", more |-> FALSE, bell |-> 0]
    BY DEF Ib!MCInit, Ib!Init, Ib!End
  <2>2. calls[t] = {} /\ overlapped[t] = FALSE
    BY DEF Ib!MCInit, Ib!Init
  <2>3. IbTab(tab[t], overlapped[t])
    BY <2>1 DEF IbTab, IbFields
  <2> QED BY <2>2, <2>3 DEF IbOk
<1> QED BY <1>5, <1>6, <1>7 DEF IbInv

LEMMA IbSays == ASSUME IbInv PROVE Ib!ReachableUnlessOverlapped
<1> SUFFICES ASSUME NEW t \in Desks, tab[t].items # <<>>, ~overlapped[t], NEW n \in IbNotices \ moved
             PROVE  Ib!InReach(t, n)
  BY DEF Ib!ReachableUnlessOverlapped, IbNotices
<1>1. n \in Ib!Range(tab[t].items) \/ (tab[t].cursor # "end" /\ IbLater(tab[t].cursor, n))
  BY DEF IbInv, IbOk, IbTab, IbReach
<1>2. CASE n \in Ib!Range(tab[t].items)
  BY <1>2 DEF Ib!InReach
<1>3. CASE tab[t].cursor # "end" /\ IbLater(tab[t].cursor, n)
  <2>1. PICK i \in 1 .. 3, j \in 1 .. 3 : i < j /\ inbox[i] = tab[t].cursor /\ inbox[j] = n
    BY <1>3 DEF IbLater
  <2>2. Ib!After(tab[t].cursor) = i + 1
    BY <1>3, <2>1 DEF IbInv, IbPlaces, Ib!After, Ib!Place, Ib!End
  <2> QED BY <1>3, <2>1, <2>2 DEF IbInv, IbPlaces, Ib!InReach, Ib!End
<1> QED BY <1>1, <1>2, <1>3

(* A row that moves stays in the list, and the others keep their order.    *)
LEMMA IbMoves ==
    ASSUME IbPlaces, NEW m \in IbNotices, Ib!Event(m)
    PROVE  IbPlaces' /\ \A c : \A n \in IbNotices \ {m} : IbLater(c, n) => IbLater(c, n)'
<1>1. PICK k \in 1 .. 3 : inbox[k] = m
  BY DEF IbPlaces
<1>2. Ib!Place(m) = k
  BY <1>1 DEF IbPlaces, Ib!Place
<1>3. inbox' = [i \in 1 .. 3 |-> IF i = 1 THEN m ELSE IF i <= k THEN inbox[i - 1] ELSE inbox[i]]
  BY <1>2 DEF Ib!Event, IbPlaces
<1>4. inbox[1] \in IbNotices /\ inbox[2] \in IbNotices /\ inbox[3] \in IbNotices
  <2>1. inbox \in Seq(IbNotices) /\ Len(inbox) = 3
    BY DEF IbPlaces
  <2> QED BY <2>1
<1>5. inbox[1] # inbox[2] /\ inbox[2] # inbox[3] /\ inbox[1] # inbox[3]
  BY DEF IbPlaces
<1>6. inbox'[1] = m /\ (k = 1 => inbox'[2] = inbox[2] /\ inbox'[3] = inbox[3])
      /\ (k = 2 => inbox'[2] = inbox[1] /\ inbox'[3] = inbox[3])
      /\ (k = 3 => inbox'[2] = inbox[1] /\ inbox'[3] = inbox[2])
  BY <1>3
<1>7. k = 1 \/ k = 2 \/ k = 3
  OBVIOUS
<1>8. inbox' \in [1 .. 3 -> IbNotices]
  <2>1. inbox'[1] \in IbNotices /\ inbox'[2] \in IbNotices /\ inbox'[3] \in IbNotices
    BY <1>4, <1>6, <1>7
  <2>2. \A i \in 1 .. 3 : i = 1 \/ i = 2 \/ i = 3
    OBVIOUS
  <2>3. \A i \in 1 .. 3 : inbox'[i] \in IbNotices
    BY <2>1, <2>2
  <2> QED BY <1>3, <2>3
<1>9. inbox'[1] # inbox'[2] /\ inbox'[2] # inbox'[3] /\ inbox'[1] # inbox'[3]
  BY <1>1, <1>5, <1>6, <1>7
<1>10. \A i, j \in 1 .. 3 : inbox'[i] = inbox'[j] => i = j
  <2>1. \A i \in 1 .. 3 : i = 1 \/ i = 2 \/ i = 3
    OBVIOUS
  <2> QED BY <1>9, <2>1
<1>11. IbPlaces'
  BY <1>8, <1>10, IbThree DEF IbPlaces
<1>12. ASSUME NEW c, NEW n \in IbNotices \ {m}, IbLater(c, n) PROVE IbLater(c, n)'
  <2>1. PICK i \in 1 .. 3, j \in 1 .. 3 : i < j /\ inbox[i] = c /\ inbox[j] = n
    BY <1>12 DEF IbLater
  <2>2. j # k
    BY <1>1, <2>1
  <2>3. (i = 1 /\ j = 2) \/ (i = 1 /\ j = 3) \/ (i = 2 /\ j = 3)
    BY <2>1
  <2>4. \E x, y \in 1 .. 3 : x < y /\ inbox'[x] = c /\ inbox'[y] = n
    <3>1. CASE inbox'[1] = c /\ inbox'[2] = n
      BY <3>1
    <3>2. CASE inbox'[1] = c /\ inbox'[3] = n
      BY <3>2
    <3>3. CASE inbox'[2] = c /\ inbox'[3] = n
      BY <3>3
    <3> QED BY <1>1, <1>6, <1>7, <2>1, <2>2, <2>3, <3>1, <3>2, <3>3
  <2> QED BY <2>4 DEF IbLater
<1> QED BY <1>11, <1>12

(* So what is in reach of a list stays so, unless it moves.                *)
LEMMA IbStays ==
    ASSUME IbInv, Ib!MCNext
    PROVE  IbPlaces' /\ \A S, c : IbReach(S, c) => IbReach(S, c)'
<1>1. CASE \E m \in IbNotices : Ib!Event(m)
  <2>1. PICK m \in IbNotices : Ib!Event(m)
    BY <1>1
  <2>2. IbPlaces' /\ \A c : \A n \in IbNotices \ {m} : IbLater(c, n) => IbLater(c, n)'
    BY <2>1, IbMoves DEF IbInv
  <2>3. events' # events /\ inbox'[1] = m
    BY <2>1 DEF Ib!Event, IbInv, IbType, IbPlaces
  <2>4. moved' = moved \cup {m}
    BY <2>3 DEF Ib!MCNext, IbNotices
  <2> QED BY <2>2, <2>4 DEF IbReach
<1>2. CASE ~\E m \in IbNotices : Ib!Event(m)
  <2>1. UNCHANGED <<inbox, events>>
    BY <1>2 DEF Ib!MCNext, Ib!Next, Ib!OpenConversation, Ib!Load, Ib!LoadMore, Ib!MarkRead,
                Ib!Answer, Ib!Fail, Ib!Marked, Ib!server, IbNotices
  <2>2. moved' = moved
    BY <2>1 DEF Ib!MCNext
  <2> QED BY <2>1, <2>2 DEF IbInv, IbPlaces, IbReach, IbLater
<1> QED BY <1>1, <1>2

LEMMA IbKeeps ==
    ASSUME IbInv, Ib!MCNext, NEW d, NEW cs, NEW o, IbOk(d, cs, o)
    PROVE  IbOk(d, cs, o)'
<1>1. \A S, c : IbReach(S, c) => IbReach(S, c)'
  BY IbStays
<1>2. IbTab(d, o)'
  BY <1>1 DEF IbOk, IbTab
<1>3. ASSUME NEW c \in cs PROVE IbCall(c, d, o)'
  BY <1>1 DEF IbOk, IbCall
<1> QED BY <1>2, <1>3 DEF IbOk

(* A call that begins asks for no further page.                            *)
LEMMA IbSame ==
    ASSUME NEW d, NEW cs, NEW o, IbOk(d, cs, o), NEW e, DOMAIN e = IbFields,
           e.items = d.items, e.more = d.more, e.cursor = d.cursor, NEW bs,
           \A c \in bs : c \in cs \/ (c.kind # "more" /\ IbCall(c, d, o))
    PROVE  IbOk(e, bs, o)
<1>1. IbTab(e, o)
  BY DEF IbOk, IbTab
<1>2. ASSUME NEW c \in bs PROVE IbCall(c, e, o)
  <2>1. IbCall(c, d, o)
    BY DEF IbOk
  <2> QED BY <2>1 DEF IbCall
<1> QED BY <1>1, <1>2 DEF IbOk

LEMMA IbFirst ==
    ASSUME IbInv, NEW d, NEW o, NEW u
    PROVE  IbCall([kind |-> "first", rows |-> <<inbox[1]>>, unread |-> u, next |-> inbox[1]], d, o)
<1> DEFINE c == [kind |-> "first", rows |-> <<inbox[1]>>, unread |-> u, next |-> inbox[1]]
<1>1. c.kind = "first" /\ c.rows = <<inbox[1]>> /\ c.next = inbox[1]
  OBVIOUS
<1> HIDE DEF c
<1>2. inbox[1] \in IbNotices
  BY DEF IbInv, IbPlaces
<1>3. c.rows \in Seq(IbNotices) /\ c.rows # <<>>
  BY <1>1, <1>2
<1>4. inbox[1] \in Ib!Range(c.rows)
  <2>1. 1 \in DOMAIN c.rows /\ c.rows[1] = inbox[1]
    BY <1>1
  <2> QED BY <2>1 DEF Ib!Range
<1>5. IbReach(Ib!Range(c.rows), c.next)
  <2> SUFFICES ASSUME NEW n \in IbNotices \ moved, n # inbox[1]
               PROVE  inbox[1] # "end" /\ IbLater(inbox[1], n)
    BY <1>1, <1>4 DEF IbReach
  <2>1. inbox[1] # "end"
    BY <1>2 DEF IbNotices
  <2>2. PICK j \in 1 .. 3 : inbox[j] = n
    BY DEF IbInv, IbPlaces
  <2>3. 1 < j
    BY <2>2
  <2> QED BY <2>1, <2>2, <2>3 DEF IbLater
<1> QED BY <1>1, <1>2, <1>3, <1>5 DEF IbCall, c

LEMMA IbPages ==
    ASSUME IbInv
    PROVE  /\ Ib!FirstPage = [kind |-> "first", rows |-> <<inbox[1]>>, unread |-> unread, next |-> inbox[1]]
           /\ Ib!BellCount.kind = "bell"
<1>1. Ib!After("end") = 1 /\ Len(inbox) = 3
  BY DEF IbInv, IbPlaces, Ib!After, Ib!End
<1> QED BY <1>1 DEF Ib!FirstPage, Ib!Page, Ib!End, Ib!BellCount

LEMMA IbBegins ==
    ASSUME IbInv, NEW d, NEW o
    PROVE  \A c \in {Ib!FirstPage, Ib!BellCount} : c.kind # "more" /\ IbCall(c, d, o)
<1>1. Ib!FirstPage.kind = "first" /\ IbCall(Ib!FirstPage, d, o)
  BY IbPages, IbFirst
<1>2. IbCall(Ib!BellCount, d, o)
  BY IbPages DEF IbCall
<1> QED BY <1>1, <1>2, IbPages

(* The steps of one tab, given that its list is in order before.           *)
LEMMA IbTabLoads ==
    ASSUME IbInv, NEW t \in Desks, NEW x \in Desks, Ib!Load(x)
    PROVE  IbOk(tab'[t], calls'[t], overlapped[t])
<1>1. IbOk(tab[t], calls[t], overlapped[t]) /\ DOMAIN tab[t] = IbFields
  BY DEF IbInv, IbOk, IbTab
<1>2. tab'[t] = tab[t]
  BY DEF Ib!Load
<1>3. \A c \in calls'[t] : c \in calls[t] \/ c \in {Ib!FirstPage, Ib!BellCount}
  BY DEF Ib!Load, Ib!Adds, IbInv, IbType
<1>4. \A c \in calls'[t] : c \in calls[t] \/ (c.kind # "more" /\ IbCall(c, tab[t], overlapped[t]))
  BY <1>3, IbBegins
<1> QED BY <1>1, <1>2, <1>4, IbSame

LEMMA IbTabMarks ==
    ASSUME IbInv, NEW t \in Desks, NEW x \in Desks, Ib!MarkRead(x)
    PROVE  IbOk(tab'[t], calls'[t], overlapped[t])
<1>1. IbOk(tab[t], calls[t], overlapped[t]) /\ DOMAIN tab[t] = IbFields
  BY DEF IbInv, IbOk, IbTab
<1>2. PICK rows : /\ tab' = [tab EXCEPT ![x].marked = @ \cup (Ib!Range(tab[x].items) \cap rows)]
                  /\ calls' = [calls EXCEPT ![x] = @ \cup {[kind |-> "read", rows |-> rows]}]
  BY DEF Ib!MarkRead
<1>3. \A c \in calls'[t] : c \in calls[t] \/ c.kind = "read"
  BY <1>2 DEF IbInv, IbType
<1>4. \A c \in calls'[t] : c \in calls[t] \/ (c.kind # "more" /\ IbCall(c, tab[t], overlapped[t]))
  BY <1>3 DEF IbCall
<1>5. /\ DOMAIN tab'[t] = IbFields /\ tab'[t].items = tab[t].items /\ tab'[t].more = tab[t].more
      /\ tab'[t].cursor = tab[t].cursor
  BY <1>1, <1>2 DEF IbInv, IbType, IbFields
<1> QED BY <1>1, <1>4, <1>5, IbSame

LEMMA IbTabLoadsMore ==
    ASSUME IbInv, NEW t \in Desks, NEW x \in Desks, Ib!LoadMore(x)
    PROVE  IbOk(tab'[t], calls'[t], overlapped[t])
<1>1. IbOk(tab[t], calls[t], overlapped[t]) /\ DOMAIN tab[t] = IbFields
  BY DEF IbInv, IbOk, IbTab
<1>2. CASE t # x
  BY <1>1, <1>2 DEF Ib!LoadMore, IbInv, IbType
<1>3. CASE t = x
  <2> DEFINE c == Ib!Page("more", tab[t].cursor)
  <2>1. tab'[t] = [tab[t] EXCEPT !.more = TRUE] /\ calls'[t] = calls[t] \cup {c}
        /\ tab[t].cursor # "end" /\ ~tab[t].more
    BY <1>3 DEF Ib!LoadMore, IbInv, IbType, Ib!End
  <2>2. /\ DOMAIN tab'[t] = IbFields /\ tab'[t].items = tab[t].items /\ tab'[t].more = TRUE
        /\ tab'[t].cursor = tab[t].cursor
    BY <1>1, <2>1 DEF IbFields
  <2>3. tab[t].cursor \in IbNotices
    BY <1>1, <2>1 DEF IbOk, IbTab
  <2>4. PICK i \in 1 .. 3 : inbox[i] = tab[t].cursor
    BY <2>3 DEF IbInv, IbPlaces
  <2>5. Ib!After(tab[t].cursor) = i + 1 /\ Len(inbox) = 3
    BY <2>1, <2>4 DEF IbInv, IbPlaces, Ib!After, Ib!Place, Ib!End
  <2>6. /\ c.kind = "more" /\ c.rows = IF i + 1 <= 3 THEN <<inbox[i + 1]>> ELSE <<>>
        /\ c.next = IF i + 1 < 3 THEN inbox[i + 1] ELSE "end"
    BY <2>5 DEF Ib!Page, Ib!End
  <2> HIDE DEF c
  <2>7. i + 1 <= 3 => inbox[i + 1] \in IbNotices
    BY DEF IbInv, IbPlaces
  <2>8. c.rows \in Seq(IbNotices) /\ c.next \in IbNotices \cup {"end"}
    <3>1. CASE i + 1 <= 3
      BY <2>6, <2>7, <3>1
    <3>2. CASE ~(i + 1 <= 3)
      BY <2>6, <3>2
    <3> QED BY <3>1, <3>2
  <2>9. i + 1 <= 3 => inbox[i + 1] \in Ib!Range(c.rows)
    <3> SUFFICES ASSUME i + 1 <= 3 PROVE inbox[i + 1] \in Ib!Range(c.rows)
      OBVIOUS
    <3>1. 1 \in DOMAIN c.rows /\ c.rows[1] = inbox[i + 1]
      BY <2>6
    <3> QED BY <3>1 DEF Ib!Range
  <2>10. overlapped[t] \/ IbReach(Ib!Range(tab[t].items) \cup Ib!Range(c.rows), c.next)
    <3> SUFFICES ASSUME ~overlapped[t], NEW n \in IbNotices \ moved, n \notin Ib!Range(tab[t].items),
                        n \notin Ib!Range(c.rows)
                 PROVE  c.next # "end" /\ IbLater(c.next, n)
      BY DEF IbReach
    <3>1. IbLater(tab[t].cursor, n)
      BY <1>1, <2>1 DEF IbOk, IbTab, IbReach
    <3>2. PICK j \in 1 .. 3 : i < j /\ inbox[j] = n
      BY <2>4, <3>1 DEF IbLater, IbInv, IbPlaces
    <3>3. j # i + 1
      BY <2>9, <3>2
    <3>4. i + 1 < j /\ i + 1 < 3 /\ i + 1 \in 1 .. 3
      BY <3>2, <3>3
    <3>5. c.next = inbox[i + 1] /\ c.next # "end"
      BY <2>6, <2>7, <3>4 DEF IbNotices
    <3> QED BY <3>2, <3>4, <3>5 DEF IbLater
  <2>11. IbTab(tab'[t], overlapped[t])
    BY <1>1, <2>1, <2>2 DEF IbOk, IbTab
  <2>12. \A b \in calls[t] : b.kind # "more"
    BY <1>1, <2>1 DEF IbOk, IbCall
  <2>13. \A b \in calls[t] : IbCall(b, tab'[t], overlapped[t])
    BY <1>1, <2>12 DEF IbOk, IbCall
  <2>14. IbCall(c, tab'[t], overlapped[t])
    BY <2>2, <2>6, <2>8, <2>10 DEF IbCall
  <2> QED BY <1>1, <2>1, <2>6, <2>11, <2>12, <2>13, <2>14 DEF IbOk
<1> QED BY <1>2, <1>3

(* A first page replaces the list, and a further one still under way is    *)
(* the overlap the property leaves out.                                    *)
LEMMA IbTabRenewed ==
    ASSUME IbInv, NEW t \in Desks, NEW c \in calls[t], c.kind = "first", Ib!Answer(t, c)
    PROVE  IbOk(tab'[t], calls'[t], tab[t].more)
<1>1. IbOk(tab[t], calls[t], overlapped[t]) /\ DOMAIN tab[t] = IbFields
  BY DEF IbInv, IbOk, IbTab
<1>2. tab'[t] = [tab[t] EXCEPT !.items = c.rows, !.cursor = c.next, !.marked = Ib!Range(c.rows) \ c.unread]
  BY DEF Ib!Answer, Ib!Answered, IbInv, IbType
<1>3. /\ DOMAIN tab'[t] = IbFields /\ tab'[t].items = c.rows /\ tab'[t].more = tab[t].more
      /\ tab'[t].cursor = c.next
  BY <1>1, <1>2 DEF IbFields
<1>4. calls'[t] = calls[t] \ {c}
  BY DEF Ib!Answer, IbInv, IbType
<1>5. IbCall(c, tab[t], overlapped[t]) /\ tab[t].more \in BOOLEAN
  BY <1>1 DEF IbOk, IbTab
<1>6. IbTab(tab'[t], tab[t].more)
  BY <1>3, <1>5 DEF IbTab, IbCall
<1>7. ASSUME NEW b \in calls'[t] PROVE IbCall(b, tab'[t], tab[t].more)
  <2>1. IbCall(b, tab[t], overlapped[t])
    BY <1>1, <1>4 DEF IbOk
  <2> QED BY <1>3, <2>1 DEF IbCall
<1> QED BY <1>1, <1>4, <1>5, <1>6, <1>7 DEF IbOk

LEMMA IbExtends ==
    ASSUME NEW a \in Seq(IbNotices), NEW b \in Seq(IbNotices), a # <<>>
    PROVE  a \o b \in Seq(IbNotices) /\ a \o b # <<>> /\ Ib!Range(a \o b) = Ib!Range(a) \cup Ib!Range(b)
<1>1. a \o b \in Seq(IbNotices) /\ Len(a \o b) = Len(a) + Len(b) /\ Len(a) > 0
  OBVIOUS
<1>2. DOMAIN a = 1 .. Len(a) /\ DOMAIN b = 1 .. Len(b) /\ DOMAIN (a \o b) = 1 .. Len(a) + Len(b)
  BY <1>1
<1>3. \A i \in 1 .. Len(a) + Len(b) : (a \o b)[i] = IF i <= Len(a) THEN a[i] ELSE b[i - Len(a)]
  OBVIOUS
<1>4. ASSUME NEW n \in Ib!Range(a \o b) PROVE n \in Ib!Range(a) \cup Ib!Range(b)
  <2>1. PICK i \in 1 .. Len(a) + Len(b) : n = (a \o b)[i]
    BY <1>2 DEF Ib!Range
  <2>2. CASE i <= Len(a)
    BY <1>2, <1>3, <2>1, <2>2 DEF Ib!Range
  <2>3. CASE i > Len(a)
    <3>1. i - Len(a) \in 1 .. Len(b) /\ n = b[i - Len(a)]
      BY <1>3, <2>1, <2>3
    <3> QED BY <1>2, <3>1 DEF Ib!Range
  <2> QED BY <2>2, <2>3
<1>5. ASSUME NEW n \in Ib!Range(a) PROVE n \in Ib!Range(a \o b)
  <2>1. PICK i \in 1 .. Len(a) : n = a[i]
    BY <1>2 DEF Ib!Range
  <2>2. i \in 1 .. Len(a) + Len(b) /\ n = (a \o b)[i]
    BY <1>3, <2>1
  <2> QED BY <1>2, <2>2 DEF Ib!Range
<1>6. ASSUME NEW n \in Ib!Range(b) PROVE n \in Ib!Range(a \o b)
  <2>1. PICK i \in 1 .. Len(b) : n = b[i]
    BY <1>2 DEF Ib!Range
  <2>2. i + Len(a) \in 1 .. Len(a) + Len(b) /\ n = (a \o b)[i + Len(a)]
    BY <1>3, <2>1
  <2> QED BY <1>2, <2>2 DEF Ib!Range
<1> QED BY <1>1, <1>4, <1>5, <1>6

LEMMA IbTabExtended ==
    ASSUME IbInv, NEW t \in Desks, NEW c \in calls[t], c.kind = "more", Ib!Answer(t, c)
    PROVE  IbOk(tab'[t], calls'[t], overlapped[t])
<1>1. IbOk(tab[t], calls[t], overlapped[t]) /\ DOMAIN tab[t] = IbFields
  BY DEF IbInv, IbOk, IbTab
<1>2. tab'[t] = Ib!Extended(t, c)
  BY DEF Ib!Answer, Ib!Answered, IbInv, IbType
<1>3. /\ tab'[t].items = IF Ib!Range(c.rows) \subseteq Ib!Range(tab[t].items)
                         THEN tab[t].items ELSE tab[t].items \o c.rows
      /\ DOMAIN tab'[t] = IbFields /\ tab'[t].more = FALSE /\ tab'[t].cursor = c.next
  BY <1>1, <1>2 DEF IbFields, Ib!Extended
<1>4. calls'[t] = calls[t] \ {c}
  BY DEF Ib!Answer, IbInv, IbType
<1>5. IbCall(c, tab[t], overlapped[t]) /\ tab[t].more /\ tab[t].items \in Seq(IbNotices) /\ tab[t].items # <<>>
  BY <1>1 DEF IbOk, IbTab, IbCall
<1>6. /\ tab'[t].items \in Seq(IbNotices) /\ tab'[t].items # <<>>
      /\ Ib!Range(tab'[t].items) = Ib!Range(tab[t].items) \cup Ib!Range(c.rows)
  <2>1. CASE Ib!Range(c.rows) \subseteq Ib!Range(tab[t].items)
    BY <1>3, <1>5, <2>1
  <2>2. CASE ~(Ib!Range(c.rows) \subseteq Ib!Range(tab[t].items))
    <3>1. c.rows \in Seq(IbNotices)
      BY <1>5 DEF IbCall
    <3> QED BY <1>3, <1>5, <2>2, <3>1, IbExtends
  <2> QED BY <2>1, <2>2
<1>7. IbTab(tab'[t], overlapped[t])
  BY <1>3, <1>5, <1>6 DEF IbTab, IbCall
<1>8. \A b \in calls'[t] : b.kind # "more"
  BY <1>1, <1>4 DEF IbOk
<1>9. \A b \in calls'[t] : IbCall(b, tab'[t], overlapped[t])
  BY <1>1, <1>4, <1>8 DEF IbOk, IbCall
<1> QED BY <1>1, <1>7, <1>8, <1>9 DEF IbOk

LEMMA IbTabAnswered ==
    ASSUME IbInv, NEW t \in Desks, NEW x \in Desks, NEW c \in calls[x], Ib!Answer(x, c),
           ~(t = x /\ c.kind = "first")
    PROVE  IbOk(tab'[t], calls'[t], overlapped[t])
<1>1. IbOk(tab[t], calls[t], overlapped[t]) /\ DOMAIN tab[t] = IbFields
  BY DEF IbInv, IbOk, IbTab
<1>2. CASE t # x
  BY <1>1, <1>2 DEF Ib!Answer, IbInv, IbType
<1>3. CASE t = x /\ c.kind = "more"
  BY <1>3, IbTabExtended
<1>4. CASE t = x /\ c.kind = "bell"
  <2>1. tab'[t] = [tab[t] EXCEPT !.bell = c.count] /\ calls'[t] = calls[t] \ {c}
    BY <1>4 DEF Ib!Answer, Ib!Answered, IbInv, IbType
  <2>2. /\ DOMAIN tab'[t] = IbFields /\ tab'[t].items = tab[t].items /\ tab'[t].more = tab[t].more
        /\ tab'[t].cursor = tab[t].cursor
    BY <1>1, <2>1 DEF IbFields
  <2>3. \A b \in calls'[t] : b \in calls[t]
    BY <2>1
  <2> QED BY <1>1, <2>2, <2>3, IbSame
<1>5. t = x => c.kind \in {"first", "more", "bell"}
  BY <1>1 DEF IbOk, IbCall, Ib!Answer
<1> QED BY <1>2, <1>3, <1>4, <1>5

LEMMA IbTabFails ==
    ASSUME IbInv, NEW t \in Desks, NEW x \in Desks, NEW c \in calls[x], Ib!Fail(x, c)
    PROVE  IbOk(tab'[t], calls'[t], overlapped[t])
<1>1. IbOk(tab[t], calls[t], overlapped[t]) /\ DOMAIN tab[t] = IbFields
  BY DEF IbInv, IbOk, IbTab
<1>2. CASE t # x
  BY <1>1, <1>2 DEF Ib!Fail, IbInv, IbType
<1>3. CASE t = x
  <2>1. \A b \in calls'[t] : b \in calls[t] \ {c} \/ b = Ib!FirstPage
    BY <1>3 DEF Ib!Fail, IbInv, IbType
  <2>2. \A b \in calls'[t] : b \in calls[t] \/ (b.kind # "more" /\ IbCall(b, tab[t], overlapped[t]))
    BY <2>1, IbBegins
  <2>3. CASE c.kind = "more"
    <3>1. tab'[t] = [tab[t] EXCEPT !.more = FALSE]
      BY <1>3, <2>3 DEF Ib!Fail, IbInv, IbType
    <3>2. /\ DOMAIN tab'[t] = IbFields /\ tab'[t].items = tab[t].items /\ tab'[t].more = FALSE
          /\ tab'[t].cursor = tab[t].cursor
      BY <1>1, <3>1 DEF IbFields
    <3>3. IbTab(tab'[t], overlapped[t])
      BY <1>1, <3>2 DEF IbOk, IbTab
    <3>4. \A b \in calls'[t] : b.kind # "more"
      BY <1>1, <1>3, <2>1, <2>3, IbBegins DEF IbOk
    <3>5. ASSUME NEW b \in calls'[t] PROVE IbCall(b, tab'[t], overlapped[t])
      <4>1. IbCall(b, tab[t], overlapped[t])
        BY <1>1, <2>2 DEF IbOk
      <4> QED BY <3>4, <4>1 DEF IbCall
    <3> QED BY <1>1, <3>3, <3>4, <3>5 DEF IbOk
  <2>4. CASE c.kind # "more"
    <3>1. tab'[t] = [tab[t] EXCEPT !.bell = 0] \/ tab'[t] = tab[t]
      BY <1>3, <2>4 DEF Ib!Fail, IbInv, IbType
    <3>2. /\ DOMAIN tab'[t] = IbFields /\ tab'[t].items = tab[t].items /\ tab'[t].more = tab[t].more
          /\ tab'[t].cursor = tab[t].cursor
      BY <1>1, <3>1 DEF IbFields
    <3> QED BY <1>1, <2>2, <3>2, IbSame
  <2> QED BY <2>3, <2>4
<1> QED BY <1>2, <1>3

LEMMA IbTabMarked ==
    ASSUME IbInv, NEW t \in Desks, NEW x \in Desks, NEW c \in calls[x], Ib!Marked(x, c)
    PROVE  IbOk(tab'[t], calls'[t], overlapped[t])
<1>1. IbOk(tab[t], calls[t], overlapped[t]) /\ DOMAIN tab[t] = IbFields
  BY DEF IbInv, IbOk, IbTab
<1>2. tab' = tab /\ inbox' = inbox
  BY DEF Ib!Marked
<1>3. Ib!After("end")' = 1 /\ Len(inbox') = 3
  BY <1>2 DEF IbInv, IbPlaces, Ib!After, Ib!End
<1>4. /\ Ib!FirstPage' = [kind |-> "first", rows |-> <<inbox[1]>>, unread |-> unread', next |-> inbox[1]]
      /\ Ib!BellCount'.kind = "bell"
  BY <1>2, <1>3 DEF Ib!FirstPage, Ib!Page, Ib!End, Ib!BellCount
<1>5. Ib!FirstPage'.kind = "first" /\ IbCall(Ib!FirstPage', tab[t], overlapped[t])
  BY <1>4, IbFirst
<1>6. IbCall(Ib!BellCount', tab[t], overlapped[t])
  BY <1>4 DEF IbCall
<1>7. \A b \in calls'[t] : b \in calls[t] \/ b \in {Ib!FirstPage', Ib!BellCount'}
  BY DEF Ib!Marked
<1>8. \A b \in calls'[t] : b \in calls[t] \/ (b.kind # "more" /\ IbCall(b, tab[t], overlapped[t]))
  BY <1>4, <1>5, <1>6, <1>7
<1> QED BY <1>1, <1>2, <1>8, IbSame

LEMMA IbNext == ASSUME IbInv, Ib!MCNext PROVE IbInv'
<1>1. IbPlaces'
  BY IbStays
<1>2. IbType'
  BY DEF IbInv, IbType, Ib!MCNext, Ib!Next, Ib!Event, Ib!OpenConversation, Ib!Load, Ib!LoadMore,
         Ib!MarkRead, Ib!Answer, Ib!Fail, Ib!Marked, Ib!server
<1>3. ASSUME NEW t \in Desks PROVE IbOk(tab'[t], calls'[t], overlapped'[t])
  <2>1. CASE Ib!Renewed(t)
    <3>1. overlapped'[t] = tab[t].more
      BY <2>1 DEF Ib!MCNext
    <3> QED BY <2>1, <3>1, IbTabRenewed DEF Ib!Renewed
  <2>2. CASE ~Ib!Renewed(t)
    <3>1. overlapped'[t] = overlapped[t]
      BY <2>2 DEF Ib!MCNext
    <3>2. CASE UNCHANGED <<tab, calls>>
      BY <3>1, <3>2 DEF IbInv
    <3>3. ASSUME NEW x \in Desks, Ib!Load(x) \/ Ib!LoadMore(x) \/ Ib!MarkRead(x)
          PROVE  IbOk(tab'[t], calls'[t], overlapped[t])
      BY <3>3, IbTabLoads, IbTabLoadsMore, IbTabMarks
    <3>4. ASSUME NEW x \in Desks, NEW c \in calls[x], Ib!Answer(x, c) \/ Ib!Fail(x, c) \/ Ib!Marked(x, c)
          PROVE  IbOk(tab'[t], calls'[t], overlapped[t])
      BY <2>2, <3>4, IbTabAnswered, IbTabFails, IbTabMarked DEF Ib!Renewed
    <3> QED BY <3>1, <3>2, <3>3, <3>4 DEF Ib!MCNext, Ib!Next, Ib!Event, Ib!OpenConversation
  <2> QED BY <2>1, <2>2
<1>4. ASSUME NEW t \in Desks PROVE IbOk(tab[t], calls[t], overlapped[t])'
  <2>1. PICK d, cs, o : d = tab'[t] /\ cs = calls'[t] /\ o = overlapped'[t]
    OBVIOUS
  <2>2. IbOk(d, cs, o)'
    BY <1>3, <2>1, IbKeeps
  <2> QED BY <2>1, <2>2
<1> QED BY <1>1, <1>2, <1>4 DEF IbInv

LEMMA IbRests == ASSUME IbInv, UNCHANGED <<v1, v2, v3, v4, v5, v6, v7>> PROVE IbInv'
<1>1. UNCHANGED <<inbox, events, tab, calls, moved, overlapped>>
  OBVIOUS
<1>2. IbPlaces' /\ IbType'
  BY <1>1 DEF IbInv, IbPlaces, IbType
<1>3. \A S, c : IbReach(S, c)' <=> IbReach(S, c)
  BY <1>1 DEF IbReach, IbLater
<1> QED BY <1>1, <1>2, <1>3 DEF IbInv, IbOk, IbTab, IbCall
HIDE DEF calls, inbox, tab, unread, events, moved, overlapped

-----------------------------------------------------------------------------
(* Sales.                                                                  *)
USE DEF call, raced, tab, sale, told, reviews, resold

SaBuyers == Pairs \cup {Sa!Nobody}
SaRows == [status : {"active", "reserved", "sold", "archived"}, buyer : SaBuyers]
SaLoads == SaRows \cup {Sa!NotAllowed}
SaActions == {"reserve", "unreserve", "mark-sold", "archive"}
SaOwnerCalls == [tab : Tabs, page : {"list", "gone", "edit"}, action : SaActions,
                 buyer : SaBuyers, step : {"choosing", "sent", "loaded"}, loaded : SaLoads]
SaReviewCalls == [tab : {"none"}, action : {"review"}, step : {"sent", "loaded"},
                  loaded : SaLoads, from : Sa!People, to : Sa!People]
SaCalls == {Sa!Free} \cup SaOwnerCalls \cup SaReviewCalls

(* A request that has loaded the row holds the row as it is; a review      *)
(* under way is between the two sides of the sale.                         *)
SaInTime ==
    \A r \in Requests :
        /\ call[r].step = "loaded" => call[r].loaded = sale
        /\ call[r] \in SaReviewCalls =>
               sale.buyer # Sa!Nobody /\ {call[r].from, call[r].to} = {Sa!Seller, sale.buyer}
(* A listing that has a buyer is off sale, and without a buyer nobody was  *)
(* told or reviewed.                                                       *)
SaOneSale ==
    /\ sale.buyer # Sa!Nobody => sale.status \notin Sa!Public
    /\ sale.buyer = Sa!Nobody => told = {} /\ reviews = {}
    /\ told \subseteq {sale.buyer}
    /\ \A v \in reviews : {v[1], v[2]} = {Sa!Seller, sale.buyer}
SaHolds == sale \in SaRows /\ call \in [Requests -> SaCalls] /\ SaInTime /\ SaOneSale
SaInv == raced \in BOOLEAN /\ resold \in BOOLEAN /\ (raced \/ resold \/ SaHolds)

(* The three kinds of call are told apart by their fields.                 *)
LEMMA SaKinds ==
    ASSUME NEW c \in SaCalls
    PROVE  /\ c \in SaOwnerCalls => c \notin SaReviewCalls /\ c # Sa!Free
           /\ c.step = "loaded" => c # Sa!Free
           /\ c.tab \in Tabs => c \in SaOwnerCalls
           /\ c \in SaReviewCalls => c.tab \notin Tabs
           /\ c.step = "choosing" => c \in SaOwnerCalls
           /\ c.step = "loaded" /\ c.action = "review" => c \in SaReviewCalls
           /\ c.step = "loaded" /\ c.action # "review" => c \in SaOwnerCalls
<1>1. "none" \notin Tabs
  BY ScreensAssumption
<1> QED BY <1>1 DEF SaCalls, SaOwnerCalls, SaReviewCalls, SaActions, Sa!Free

(* Closing a panel loses none of its calls.                                *)
LEMMA SaUnmounted ==
    ASSUME call \in [Requests -> SaCalls], NEW t \in Tabs
    PROVE  /\ Sa!Unmounted(t) \in [Requests -> SaCalls]
           /\ \A r \in Requests : LET c == Sa!Unmounted(t)[r] IN
                  /\ c.step = call[r].step
                  /\ c.step = "loaded" => c.loaded = call[r].loaded
                  /\ c \in SaReviewCalls => c = call[r]
<1> DEFINE U == Sa!Unmounted(t)
<1>1. ASSUME NEW r \in Requests
      PROVE  /\ U[r] \in SaCalls
             /\ U[r].step = call[r].step
             /\ U[r].step = "loaded" => U[r].loaded = call[r].loaded
             /\ U[r] \in SaReviewCalls => U[r] = call[r]
  <2>1. PICK c : c = call[r]
    OBVIOUS
  <2>2. U[r] = IF c.tab = t /\ c.page = "list" THEN [c EXCEPT !.page = "gone"] ELSE c
    BY <2>1 DEF Sa!Unmounted
  <2>3. c \in SaCalls
    BY <2>1
  <2>4. CASE c.tab = t /\ c.page = "list"
    <3>1. c \in SaOwnerCalls
      BY <2>3, <2>4, SaKinds
    <3>2. [c EXCEPT !.page = "gone"] \in SaOwnerCalls /\ [c EXCEPT !.page = "gone"].step = c.step
          /\ [c EXCEPT !.page = "gone"].loaded = c.loaded
      BY <3>1 DEF SaOwnerCalls
    <3>3. U[r] \in SaOwnerCalls /\ U[r] \in SaCalls
      BY <2>2, <2>4, <3>2 DEF SaCalls
    <3>4. U[r] \notin SaReviewCalls
      BY <3>3, SaKinds
    <3> QED BY <2>1, <2>2, <2>4, <3>2, <3>3, <3>4
  <2>5. CASE ~(c.tab = t /\ c.page = "list")
    BY <2>1, <2>2, <2>3, <2>5
  <2> QED BY <2>4, <2>5
<1>2. U = [r \in Requests |-> U[r]]
  BY DEF Sa!Unmounted
<1> HIDE DEF U
<1>3. U \in [Requests -> SaCalls]
  BY <1>1, <1>2
<1> QED BY <1>1, <1>3 DEF U

(* A step that leaves the row and its sides alone owes this to the calls.  *)
LEMMA SaRowRests ==
    ASSUME SaHolds, UNCHANGED <<sale, told, reviews>>,
           call' \in [Requests -> SaCalls],
           \A r \in Requests :
              /\ call'[r].step = "loaded" =>
                     \/ call'[r].loaded = sale
                     \/ (call[r].step = "loaded" /\ call'[r].loaded = call[r].loaded)
              /\ call'[r] \in SaReviewCalls =>
                     \/ call[r] \in SaReviewCalls /\ call'[r].from = call[r].from /\ call'[r].to = call[r].to
                     \/ sale.buyer # Sa!Nobody /\ {call'[r].from, call'[r].to} = {Sa!Seller, sale.buyer}
    PROVE  SaHolds'
<1>1. SaInTime'
  BY DEF SaHolds, SaInTime
<1>2. SaOneSale' /\ (sale \in SaRows)'
  BY DEF SaHolds, SaOneSale
<1> QED BY <1>1, <1>2 DEF SaHolds

(* What a handler makes of the row it works on alone.                      *)
LEMMA SaHandled ==
    ASSUME SaHolds, NEW b \in SaBuyers, NEW a \in SaActions,
           Sa!Handled(a, sale, b) # Sa!NotAllowed
    PROVE  LET new == Sa!Handled(a, sale, b) IN
           /\ new \in SaRows
           /\ a = "mark-sold" => /\ sale.status \in Sa!Public
                                 /\ new = [status |-> "sold", buyer |-> b]
           /\ a # "mark-sold" => /\ new.buyer = sale.buyer
                                 /\ sale.status \notin Sa!Public => new.status \notin Sa!Public
<1>1. PICK row : row = sale
  OBVIOUS
<1>2. row \in SaRows
  BY <1>1 DEF SaHolds
<1>3. a \in {"mark-sold", "reserve", "unreserve", "archive"}
  BY DEF SaActions
<1>4. Sa!Handled(a, row, b) # Sa!NotAllowed
  BY <1>1
<1> SUFFICES /\ Sa!Handled(a, row, b) \in SaRows
             /\ a = "mark-sold" => /\ row.status \in Sa!Public
                                   /\ Sa!Handled(a, row, b) = [status |-> "sold", buyer |-> b]
             /\ a # "mark-sold" => /\ Sa!Handled(a, row, b).buyer = row.buyer
                                   /\ row.status \notin Sa!Public => Sa!Handled(a, row, b).status \notin Sa!Public
  BY <1>1
<1>5. CASE a = "mark-sold"
  BY <1>2, <1>4, <1>5 DEF Sa!Handled, SaRows, Sa!Public, SaBuyers
<1>6. CASE a = "reserve"
  BY <1>2, <1>4, <1>6 DEF Sa!Handled, SaRows, Sa!Public
<1>7. CASE a = "unreserve"
  BY <1>2, <1>4, <1>7 DEF Sa!Handled, SaRows, Sa!Public
<1>8. CASE a = "archive"
  BY <1>2, <1>4, <1>8 DEF Sa!Handled, SaRows, Sa!Public
<1> QED BY <1>3, <1>5, <1>6, <1>7, <1>8

(* The row a fresh commit writes is the row as the handler left it.        *)
LEMMA SaMerged ==
    ASSUME sale \in SaRows, NEW new \in SaRows PROVE Sa!Merge(sale, new) = new
<1>1. PICK row : row = sale
  OBVIOUS
<1>2. DOMAIN row = {"status", "buyer"} /\ DOMAIN new = {"status", "buyer"}
      /\ new = [f \in {"status", "buyer"} |-> new[f]]
  BY <1>1 DEF SaRows
<1>3. Sa!Merge(sale, new) = [f \in DOMAIN row |-> IF new[f] = row[f] THEN row[f] ELSE new[f]]
  BY <1>1 DEF Sa!Merge
<1>4. [f \in DOMAIN row |-> IF new[f] = row[f] THEN row[f] ELSE new[f]]
      = [f \in {"status", "buyer"} |-> new[f]]
  BY <1>2
<1> QED BY <1>2, <1>3, <1>4

(* A commit of a request that worked alone: the others have loaded nothing.*)
LEMMA SaCommits ==
    ASSUME SaHolds, NEW r \in Requests, Sa!Commit(r), ~Sa!Racing PROVE SaHolds'
<1>1. PICK c : c = call[r]
  OBVIOUS
<1> DEFINE new == Sa!Handled(c.action, c.loaded, c.buyer)
<1>2. c \in SaCalls /\ c.step = "loaded" /\ c.action # "review"
  BY <1>1 DEF SaHolds, Sa!Commit
<1>3. c \in SaOwnerCalls
  BY <1>2, SaKinds
<1>4. c.tab \in Tabs /\ c.action \in SaActions /\ c.buyer \in SaBuyers
  BY <1>3 DEF SaOwnerCalls
<1>5. c.loaded = sale
  BY <1>1, <1>2 DEF SaHolds, SaInTime
<1>6. PICK before \in {call, Sa!Unmounted(c.tab)} : call' = [before EXCEPT ![r] = Sa!Free]
  BY <1>1 DEF Sa!Commit
<1>7. /\ before \in [Requests -> SaCalls]
      /\ \A q \in Requests : /\ before[q].step = call[q].step
                             /\ before[q] \in SaReviewCalls => before[q] = call[q]
  BY <1>4, <1>6, SaUnmounted DEF SaHolds
<1>8. call' \in [Requests -> SaCalls] /\ call'[r] = Sa!Free
  BY <1>6, <1>7 DEF SaCalls
<1>9. Sa!Loaded = {r}
  BY <1>1, <1>2, <1>8 DEF Sa!Racing, Sa!Loaded, Sa!Free
<1>10. ASSUME NEW q \in Requests
       PROVE  /\ call'[q].step # "loaded"
              /\ call'[q] \in SaReviewCalls => q # r /\ call'[q] = call[q]
  <2>1. CASE q = r
    BY <1>8, <2>1, SaKinds DEF Sa!Free, SaReviewCalls
  <2>2. CASE q # r
    BY <1>6, <1>7, <1>9, <2>2 DEF Sa!Loaded
  <2> QED BY <2>1, <2>2
<1>11. reviews' = reviews
  BY DEF Sa!Commit
<1>12. CASE new = Sa!NotAllowed
  <2>1. UNCHANGED <<sale, told, reviews>>
    BY <1>1, <1>11, <1>12 DEF Sa!Commit
  <2> QED BY <1>8, <1>10, <2>1, SaRowRests
<1>13. CASE new # Sa!NotAllowed
  <2>1. /\ new \in SaRows
        /\ c.action = "mark-sold" => /\ sale.status \in Sa!Public
                                     /\ new = [status |-> "sold", buyer |-> c.buyer]
        /\ c.action # "mark-sold" => /\ new.buyer = sale.buyer
                                     /\ sale.status \notin Sa!Public => new.status \notin Sa!Public
    BY <1>4, <1>5, <1>13, SaHandled
  <2>2. /\ sale' = Sa!Merge(sale, new)
        /\ told' = told \cup (IF c.action = "mark-sold" THEN {c.buyer} \ {Sa!Nobody} ELSE {})
    BY <1>1, <1>5, <1>13 DEF Sa!Commit
  <2> HIDE DEF new
  <2>3. sale' = new
    BY <2>1, <2>2, SaMerged DEF SaHolds
  <2>4. CASE c.action = "mark-sold"
    <3>1. sale.buyer = Sa!Nobody /\ told = {} /\ reviews = {}
      BY <2>1, <2>4 DEF SaHolds, SaOneSale
    <3>2. sale'.buyer = c.buyer /\ sale'.status = "sold" /\ told' = {c.buyer} \ {Sa!Nobody} /\ reviews' = {}
      BY <1>11, <2>1, <2>2, <2>3, <2>4, <3>1
    <3>3. SaOneSale'
      BY <3>2 DEF SaOneSale, Sa!Public
    <3>4. SaInTime'
      BY <1>10, <3>1 DEF SaHolds, SaInTime
    <3> QED BY <1>8, <2>1, <2>3, <3>3, <3>4 DEF SaHolds
  <2>5. CASE c.action # "mark-sold"
    <3>1. sale'.buyer = sale.buyer /\ told' = told
          /\ (sale.status \notin Sa!Public => sale'.status \notin Sa!Public)
      BY <2>1, <2>2, <2>3, <2>5
    <3>2. SaOneSale'
      BY <1>11, <3>1 DEF SaHolds, SaOneSale
    <3>3. SaInTime'
      BY <1>10, <3>1 DEF SaHolds, SaInTime
    <3> QED BY <1>8, <2>1, <2>3, <3>2, <3>3 DEF SaHolds
  <2> QED BY <2>4, <2>5
<1> QED BY <1>12, <1>13

(* A renewal that meets no request at work and offers no sold listing.     *)
LEMMA SaRenews ==
    ASSUME SaHolds, Sa!RenewListing, ~Sa!Racing, sale.buyer = Sa!Nobody PROVE SaHolds'
<1>1. Sa!Loaded = {}
  BY DEF Sa!Racing
<1>2. PICK row : row = sale
  OBVIOUS
<1>3. sale' = Sa!Handled("renew", row, Sa!Nobody) /\ sale' # Sa!NotAllowed /\ row \in SaRows
  BY <1>2 DEF Sa!RenewListing, SaHolds
<1>4. sale' \in SaRows /\ sale'.buyer = row.buyer
  BY <1>3 DEF Sa!Handled, SaRows
<1>5. UNCHANGED <<told, reviews, call>>
  BY DEF Sa!RenewListing
<1>6. SaOneSale'
  BY <1>2, <1>4, <1>5 DEF SaHolds, SaOneSale
<1>7. SaInTime'
  BY <1>1, <1>5 DEF SaHolds, SaInTime, Sa!Loaded
<1> QED BY <1>4, <1>5, <1>6, <1>7 DEF SaHolds

(* A review is written only for the sale the request has loaded.           *)
LEMMA SaReviewed ==
    ASSUME SaHolds, NEW r \in Requests, Sa!CreateReview(r) PROVE SaHolds'
<1>1. PICK c : c = call[r]
  OBVIOUS
<1>2. c \in SaCalls /\ c.step = "loaded" /\ c.action = "review"
  BY <1>1 DEF SaHolds, Sa!CreateReview
<1>3. c \in SaReviewCalls
  BY <1>2, SaKinds
<1>4. sale.buyer # Sa!Nobody /\ {c.from, c.to} = {Sa!Seller, sale.buyer}
  BY <1>1, <1>3 DEF SaHolds, SaInTime
<1>5. reviews' \in {reviews, reviews \cup {<<c.from, c.to>>}} /\ UNCHANGED <<sale, told>>
  BY <1>1 DEF Sa!CreateReview
<1>6. SaOneSale'
  BY <1>4, <1>5 DEF SaHolds, SaOneSale
<1>7. call' = [call EXCEPT ![r] = Sa!Free] /\ call \in [Requests -> SaCalls]
  BY DEF Sa!CreateReview, SaHolds
<1>8. call' \in [Requests -> SaCalls] /\ call'[r] = Sa!Free
      /\ \A q \in Requests \ {r} : call'[q] = call[q]
  BY <1>7 DEF SaCalls
<1>9. Sa!Free.step # "loaded" /\ Sa!Free \notin SaReviewCalls
  BY DEF Sa!Free, SaReviewCalls
<1>10. SaInTime'
  BY <1>5, <1>8, <1>9 DEF SaHolds, SaInTime
<1> QED BY <1>5, <1>6, <1>8, <1>10 DEF SaHolds

(* The steps of the pages and the loads: one call is new or goes on.       *)
LEMMA SaOneCall ==
    ASSUME SaHolds, UNCHANGED <<sale, told, reviews>>, NEW r \in Requests, NEW c \in SaCalls,
           call' = [call EXCEPT ![r] = c],
           c.step = "loaded" => c.loaded = sale,
           c \in SaReviewCalls =>
               \/ call[r] \in SaReviewCalls /\ c.from = call[r].from /\ c.to = call[r].to
               \/ sale.buyer # Sa!Nobody /\ {c.from, c.to} = {Sa!Seller, sale.buyer}
    PROVE  SaHolds'
<1>1. call' \in [Requests -> SaCalls] /\ call'[r] = c
      /\ \A q \in Requests \ {r} : call'[q] = call[q]
  BY DEF SaHolds
<1>2. ASSUME NEW q \in Requests
      PROVE  /\ call'[q].step = "loaded" =>
                     \/ call'[q].loaded = sale
                     \/ (call[q].step = "loaded" /\ call'[q].loaded = call[q].loaded)
             /\ call'[q] \in SaReviewCalls =>
                     \/ call[q] \in SaReviewCalls /\ call'[q].from = call[q].from /\ call'[q].to = call[q].to
                     \/ sale.buyer # Sa!Nobody /\ {call'[q].from, call'[q].to} = {Sa!Seller, sale.buyer}
  <2>1. CASE q = r
    BY <1>1, <2>1
  <2>2. CASE q # r
    BY <1>1, <2>2
  <2> QED BY <2>1, <2>2
<1> QED BY <1>1, <1>2, SaRowRests

LEMMA SaAsks ==
    ASSUME SaHolds, NEW t \in Tabs, NEW r \in Requests, NEW a \in SaActions,
           NEW view \in {"list", "edit"}, call' = [call EXCEPT ![r] = Sa!Request(t, view, a)],
           UNCHANGED <<sale, told, reviews>>
    PROVE  SaHolds'
<1> DEFINE c == Sa!Request(t, view, a)
<1>1. c \in SaOwnerCalls /\ c.step # "loaded"
  BY DEF Sa!Request, SaOwnerCalls, SaLoads, SaBuyers
<1> HIDE DEF c
<1>2. c \in SaCalls /\ c \notin SaReviewCalls
  BY <1>1, SaKinds DEF SaCalls
<1> QED BY <1>1, <1>2, SaOneCall DEF c

LEMMA SaChooses ==
    ASSUME SaHolds, NEW r \in Requests, Sa!ChooseBuyerId(r) PROVE SaHolds'
<1>1. PICK c : c = call[r]
  OBVIOUS
<1>2. c \in SaOwnerCalls
  BY <1>1, SaKinds DEF SaHolds, Sa!ChooseBuyerId
<1>3. UNCHANGED <<sale, told, reviews>>
  BY DEF Sa!ChooseBuyerId
<1>4. ASSUME NEW b \in SaBuyers,
             call' = [call EXCEPT ![r].step = "sent", ![r].buyer = b]
      PROVE  SaHolds'
  <2> DEFINE d == [c EXCEPT !.step = "sent", !.buyer = b]
  <2>1. d \in SaOwnerCalls /\ d.step # "loaded"
    BY <1>2 DEF SaOwnerCalls
  <2>2. call' = [call EXCEPT ![r] = d]
    BY <1>1, <1>4 DEF SaHolds
  <2> HIDE DEF d
  <2>3. d \in SaCalls /\ d \notin SaReviewCalls
    BY <2>1, SaKinds DEF SaCalls
  <2> QED BY <1>3, <2>1, <2>2, <2>3, SaOneCall
<1>5. ASSUME call' = [call EXCEPT ![r] = Sa!Free] PROVE SaHolds'
  BY <1>3, <1>5, SaOneCall DEF SaCalls, Sa!Free, SaReviewCalls
<1> QED BY <1>4, <1>5 DEF Sa!ChooseBuyerId, SaBuyers

LEMMA SaLoaded ==
    ASSUME SaHolds, NEW r \in Requests, Sa!Load(r) PROVE SaHolds'
<1>1. PICK c : c = call[r]
  OBVIOUS
<1>2. PICK row : row = sale
  OBVIOUS
<1>3. c \in SaCalls /\ c.step = "sent" /\ row \in SaLoads
  BY <1>1, <1>2 DEF SaHolds, Sa!Load, SaLoads
<1> DEFINE d == [c EXCEPT !.step = "loaded", !.loaded = row]
<1>4. call' = [call EXCEPT ![r] = d] /\ UNCHANGED <<sale, told, reviews>>
  BY <1>1, <1>2 DEF SaHolds, Sa!Load
<1>5. CASE c \in SaOwnerCalls
  <2>1. d \in SaOwnerCalls /\ d.loaded = row
    BY <1>3, <1>5 DEF SaOwnerCalls
  <2> HIDE DEF d
  <2>2. d \in SaCalls /\ d \notin SaReviewCalls
    BY <2>1, SaKinds DEF SaCalls
  <2> QED BY <1>2, <1>4, <2>1, <2>2, SaOneCall
<1>6. CASE c \in SaReviewCalls
  <2>1. d \in SaReviewCalls /\ d.loaded = row /\ d.from = c.from /\ d.to = c.to
    BY <1>3, <1>6 DEF SaReviewCalls
  <2> HIDE DEF d
  <2> QED BY <1>1, <1>2, <1>4, <1>6, <2>1, SaOneCall DEF SaCalls
<1>7. c # Sa!Free
  BY <1>3 DEF Sa!Free
<1> QED BY <1>3, <1>5, <1>6, <1>7 DEF SaCalls

LEMMA SaReviewing ==
    ASSUME SaHolds, NEW r \in Requests, NEW from \in Sa!People, NEW to \in Sa!People,
           Sa!ReviewForm(r, from, to)
    PROVE  SaHolds'
<1> DEFINE c == [tab |-> "none", action |-> "review", step |-> "sent",
                 loaded |-> Sa!NotAllowed, from |-> from, to |-> to]
<1>1. call' = [call EXCEPT ![r] = c] /\ UNCHANGED <<sale, told, reviews>>
  BY DEF Sa!ReviewForm
<1>2. c \in SaReviewCalls /\ c.step # "loaded" /\ c.from = from /\ c.to = to
  BY DEF SaReviewCalls, SaLoads
<1>3. sale.buyer # Sa!Nobody /\ {from, to} = {Sa!Seller, sale.buyer}
  BY DEF Sa!ReviewForm, Sa!MyReviews
<1> HIDE DEF c
<1> QED BY <1>1, <1>2, <1>3, SaOneCall DEF SaCalls

LEMMA SaNextHolds ==
    ASSUME SaHolds, Sa!Next, ~Sa!Racing,
           ~(Sa!RenewListing /\ sale.buyer # Sa!Nobody)
    PROVE  SaHolds'
<1>1. ASSUME NEW t \in Tabs, Sa!MyListingsPage(t) PROVE SaHolds'
  BY <1>1, SaRowRests DEF Sa!MyListingsPage, SaHolds, SaInTime
<1>2. ASSUME NEW t \in Tabs, Sa!EditListingPage(t) PROVE SaHolds'
  <2>1. call' = Sa!Unmounted(t) /\ UNCHANGED <<sale, told, reviews>>
    BY <1>2 DEF Sa!EditListingPage
  <2> QED BY <2>1, SaUnmounted, SaRowRests DEF SaHolds, SaInTime
<1>3. ASSUME NEW t \in Tabs, NEW r \in Requests, Sa!RunOwnerAction(t, r) PROVE SaHolds'
  BY <1>3, SaAsks DEF Sa!RunOwnerAction, SaActions
<1>4. ASSUME NEW t \in Tabs, NEW r \in Requests, NEW a \in Sa!Buttons(t), Sa!RunAction(t, r, a)
      PROVE  SaHolds'
  <2>1. a \in SaActions
    BY DEF Sa!Buttons, SaActions
  <2> QED BY <1>4, <2>1, SaAsks DEF Sa!RunAction
<1>5. ASSUME Sa!RenewListing PROVE SaHolds'
  BY <1>5, SaRenews
<1> QED BY <1>1, <1>2, <1>3, <1>4, <1>5, SaChooses, SaLoaded, SaCommits, SaReviewed,
           SaReviewing DEF Sa!Next

LEMMA SaInit == ASSUME Sa!MCInit PROVE SaInv
<1>1. call \in [Requests -> SaCalls] /\ sale \in SaRows
  BY DEF Sa!MCInit, Sa!Init, SaCalls, SaRows, SaBuyers
<1>2. SaInTime
  BY DEF Sa!MCInit, Sa!Init, SaInTime, Sa!Free, SaReviewCalls
<1>3. SaOneSale
  BY DEF Sa!MCInit, Sa!Init, SaOneSale
<1> QED BY <1>1, <1>2, <1>3 DEF SaHolds, SaInv, Sa!MCInit

LEMMA SaNext == ASSUME SaInv, Sa!MCNext PROVE SaInv'
<1>1. /\ raced' = (raced \/ Sa!Racing)
      /\ resold' = (resold \/ (Sa!RenewListing /\ sale.buyer # Sa!Nobody))
      /\ Sa!Next
  BY DEF Sa!MCNext
<1>2. raced' \in BOOLEAN /\ resold' \in BOOLEAN
  BY <1>1
<1>3. CASE raced' \/ resold'
  BY <1>2, <1>3 DEF SaInv
<1>4. CASE ~raced' /\ ~resold'
  <2>1. SaHolds
    BY <1>1, <1>4 DEF SaInv
  <2>2. SaHolds'
    BY <1>1, <1>4, <2>1, SaNextHolds
  <2> QED BY <1>2, <2>2 DEF SaInv
<1> QED BY <1>3, <1>4

LEMMA SaSays == SaInv => Sa!OneBuyerUnlessRaced
BY DEF SaInv, SaHolds, SaOneSale, Sa!OneBuyerUnlessRaced

LEMMA SaRests == ASSUME SaInv, UNCHANGED <<v1, v2, v3, v4, v5, v6, v7>> PROVE SaInv'
BY DEF SaInv, SaHolds, SaInTime, SaOneSale
HIDE DEF call, raced, tab, sale, told, reviews, resold

-----------------------------------------------------------------------------
(* The buttons for favourites, followed sellers and muted conversations.   *)
USE DEF call, raced, page, shown, kind, owner, fans, count, overtaken

CoSent == [want : BOOLEAN, step : {"sent", "loaded", "done", "refused"}, had : BOOLEAN, count : Nat]
CoPages == {"none", "listing", "seller", "conversation", "cards", "favorites"}
CoType ==
    /\ owner \in [Tabs -> Pairs] /\ fans \subseteq Pairs /\ count \in Nat
    /\ page \in [Tabs -> CoPages] /\ shown \in [Co!Buttons -> BOOLEAN]
    /\ call \in [Co!Buttons -> CoSent \cup {Co!None}]
CoCounts == kind = "favorite" => IsFiniteSet(fans) /\ count = Cardinality(fans)
(* What a handler has loaded has not changed since.                        *)
CoFresh ==
    \A b \in Co!Buttons : call[b].step = "loaded" => (call[b].had <=> Co!Stored(b[1])) /\ call[b].count = count
(* A button shows the mark that is stored; one whose call is done asked    *)
(* for it.                                                                 *)
CoTells(b) ==
    /\ Co!Mounted(b) /\ call[b].step # "done" => (shown[b] <=> Co!Stored(b[1]))
    /\ call[b].step = "done" => (call[b].want <=> Co!Stored(b[1]))
CoHolds == CoType /\ CoCounts /\ CoFresh /\ \A b \in Co!Buttons \ overtaken : CoTells(b)
CoInv == raced \in BOOLEAN /\ (raced \/ CoHolds)

LEMMA CoInit == ASSUME Co!MCInit PROVE CoInv
<1>1. CoType
  BY DEF Co!MCInit, Co!Init, CoType, CoPages
<1>2. CoCounts
  BY FS_EmptySet DEF Co!MCInit, Co!Init, CoCounts
<1>3. CoFresh
  BY DEF Co!MCInit, Co!Init, CoFresh, Co!None
<1>4. ASSUME NEW b \in Co!Buttons PROVE CoTells(b)
  <2>1. call[b].step = "none" /\ b[1] \in Tabs
    BY DEF Co!MCInit, Co!Init, Co!None, Co!Buttons
  <2>2. page[b[1]] = "none"
    BY <2>1 DEF Co!MCInit, Co!Init
  <2>3. Co!On("none") = {}
    BY DEF Co!On
  <2>4. ~Co!Mounted(b)
    BY <2>2, <2>3 DEF Co!Mounted
  <2> QED BY <2>1, <2>4 DEF CoTells
<1> QED BY <1>1, <1>2, <1>3, <1>4 DEF CoInv, CoHolds, Co!MCInit

LEMMA CoFree == Co!None.step = "none" /\ Co!None \notin CoSent
BY DEF Co!None, CoSent

LEMMA CoButton == ASSUME NEW b \in Co!Buttons PROVE b[1] \in Tabs
BY DEF Co!Buttons

LEMMA CoMark == ASSUME NEW t \in Tabs PROVE \E h \in BOOLEAN : h = Co!Stored(t)
<1>1. CASE Co!Stored(t)
  <2>1. TRUE = Co!Stored(t)
    BY <1>1
  <2> QED BY <2>1
<1>2. CASE ~Co!Stored(t)
  <2>1. FALSE = Co!Stored(t)
    BY <1>2 DEF Co!Stored
  <2> QED BY <2>1
<1> QED BY <1>1, <1>2

(* The mark is of one kind, and the buttons are those of the kind.         *)
LEMMA CoKind ==
    ASSUME Co!Next
    PROVE  kind' = kind /\ owner' = owner /\ Co!Buttons' = Co!Buttons
<1>1. kind' = kind /\ owner' = owner
  BY DEF Co!Next, Co!ListingDetailPage, Co!SellerPage, Co!ConversationPage, Co!ListingCard,
         Co!FavoritesContent, Co!Visit, Co!FavoriteButton, Co!FavoriteIconButton,
         Co!FollowSellerButton, Co!ConversationSafetyControls, Co!Press, Co!Click, Co!Answer,
         Co!Load, Co!Favorite, Co!Mark, Co!Refuse, Co!Lost
<1>2. Co!Names' = Co!Names
  BY <1>1 DEF Co!Names
<1> QED BY <1>1, <1>2 DEF Co!Buttons

LEMMA CoOneCall ==
    ASSUME CoType, NEW b \in Co!Buttons, NEW d \in CoSent \cup {Co!None}, call' = [call EXCEPT ![b] = d]
    PROVE  /\ call' \in [Co!Buttons -> CoSent \cup {Co!None}] /\ call'[b] = d
           /\ \A x \in Co!Buttons \ {b} : call'[x] = call[x]
BY DEF CoType

(* A step of a call overtakes, if the marks change, the other buttons of   *)
(* its user, and only them.                                                *)
LEMMA CoOvertakes ==
    ASSUME Co!MCNext, NEW b \in Co!Buttons, call'[b] # call[b],
           \A x \in Co!Buttons \ {b} : call'[x] = call[x]
    PROVE  /\ overtaken' = (overtaken \cup Co!Unanswered \cup Co!Rivals) \ Co!Done
           /\ Co!Done \subseteq {b} /\ Co!Changed \subseteq {b}
<1>1. Co!Opened = {}
  BY DEF Co!Opened
<1>2. overtaken' = ((overtaken \cup Co!Unanswered \cup Co!Rivals) \ (Co!Done \cup Co!Opened))
           \cup {x \in Co!Opened : page'[x[1]] = "cards" /\ Co!Stored(x[1])}
  BY DEF Co!MCNext
<1>3. Co!Done \subseteq {b}
  BY DEF Co!Done, Co!Working
<1> QED BY <1>1, <1>2, <1>3 DEF Co!Changed

(* A step of a call that changes no mark.                                  *)
LEMMA CoQuiet ==
    ASSUME CoHolds, Co!MCNext, NEW b \in Co!Buttons, NEW d \in CoSent \cup {Co!None},
           call' = [call EXCEPT ![b] = d], call[b] # d,
           UNCHANGED <<fans, count, page>>, shown' \in [Co!Buttons -> BOOLEAN],
           d.step = "loaded" => (d.had <=> Co!Stored(b[1])) /\ d.count = count,
           \A x \in Co!Buttons \ {b} : shown'[x] = shown[x] \/ (shown'[x] <=> Co!Stored(x[1])),
           b \in overtaken' \/ /\ Co!Mounted(b) /\ d.step # "done" => (shown'[b] <=> Co!Stored(b[1]))
                               /\ d.step = "done" => (d.want <=> Co!Stored(b[1]))
    PROVE  CoHolds'
<1>1. kind' = kind /\ owner' = owner /\ Co!Buttons' = Co!Buttons
  BY CoKind DEF Co!MCNext
<1>2. /\ call' \in [Co!Buttons -> CoSent \cup {Co!None}] /\ call'[b] = d
      /\ \A x \in Co!Buttons \ {b} : call'[x] = call[x]
  BY CoOneCall DEF CoHolds
<1>3. CoType'
  BY <1>1, <1>2 DEF CoHolds, CoType
<1>4. CoCounts'
  BY <1>1 DEF CoHolds, CoCounts
<1>5. \A x \in Co!Buttons : (Co!Stored(x[1])' <=> Co!Stored(x[1])) /\ (Co!Mounted(x)' <=> Co!Mounted(x))
  BY <1>1 DEF Co!Stored, Co!Mounted, Co!On, Co!Names
<1>6. CoFresh'
  BY <1>1, <1>2, <1>5 DEF CoHolds, CoFresh
<1>7. ASSUME NEW x \in Co!Buttons \ overtaken' PROVE CoTells(x)'
  <2>1. CASE x = b
    BY <1>2, <1>5, <1>7, <2>1 DEF CoTells
  <2>2. CASE x # b
    <3>1. x \notin overtaken
      BY <1>2, <2>2, CoOvertakes
    <3>2. CoTells(x)
      BY <3>1 DEF CoHolds
    <3> QED BY <1>2, <1>5, <2>2, <3>2 DEF CoTells
  <2> QED BY <2>1, <2>2
<1> QED BY <1>1, <1>3, <1>4, <1>6, <1>7 DEF CoHolds

(* A handler that changes a mark was the only one that had loaded it.      *)
LEMMA CoChanges ==
    ASSUME CoHolds, Co!MCNext, raced' = FALSE, NEW b \in Co!Buttons, NEW d \in CoSent,
           call[b].step = "loaded", call' = [call EXCEPT ![b] = d], d.step = "done", d.want = call[b].want,
           fans' = IF d.want THEN fans \cup {owner[b[1]]} ELSE fans \ {owner[b[1]]},
           fans' # fans, UNCHANGED <<page, shown>>, count' \in Nat, CoCounts'
    PROVE  CoHolds'
<1>1. kind' = kind /\ owner' = owner /\ Co!Buttons' = Co!Buttons
  BY CoKind DEF Co!MCNext
<1>2. /\ call' \in [Co!Buttons -> CoSent \cup {Co!None}] /\ call'[b] = d
      /\ \A x \in Co!Buttons \ {b} : call'[x] = call[x]
  BY CoOneCall DEF CoHolds
<1>3. b[1] \in Tabs /\ owner[b[1]] \in Pairs
  BY CoButton DEF CoHolds, CoType
<1>4. fans' \subseteq Pairs
  <2>1. CASE d.want
    BY <1>3, <2>1 DEF CoHolds, CoType
  <2>2. CASE ~d.want
    BY <2>2 DEF CoHolds, CoType
  <2> QED BY <2>1, <2>2
<1>5. CoType'
  BY <1>1, <1>2, <1>4 DEF CoHolds, CoType
<1>6. b \in Co!Changed
  BY <1>2 DEF Co!Changed, Co!Done, Co!Working
<1>7. Co!Working("loaded") = {b}
  BY <1>6 DEF Co!MCNext
<1>8. \A x \in Co!Buttons : call'[x].step # "loaded"
  BY <1>2, <1>7 DEF Co!Working
<1>9. CoFresh'
  BY <1>1, <1>8 DEF CoFresh
<1>10. d.want <=> Co!Stored(b[1])'
  <2>1. CASE d.want
    BY <1>1, <2>1 DEF Co!Stored
  <2>2. CASE ~d.want
    BY <1>1, <2>2 DEF Co!Stored
  <2> QED BY <2>1, <2>2
<1>11. ASSUME NEW x \in Co!Buttons \ overtaken' PROVE CoTells(x)'
  <2>1. CASE x = b
    BY <1>2, <1>10, <2>1 DEF CoTells
  <2>2. CASE x # b
    <3>1. x \notin overtaken /\ x \notin Co!Rivals
      BY <1>2, <2>2, CoOvertakes
    <3>2. owner[x[1]] # owner[b[1]]
      BY <1>6, <2>2, <3>1 DEF Co!Rivals
    <3>3. Co!Stored(x[1])' <=> Co!Stored(x[1])
      <4>1. CASE d.want
        BY <1>1, <3>2, <4>1 DEF Co!Stored
      <4>2. CASE ~d.want
        BY <1>1, <3>2, <4>2 DEF Co!Stored
      <4> QED BY <4>1, <4>2
    <3>4. Co!Mounted(x)' <=> Co!Mounted(x)
      BY <1>1 DEF Co!Mounted, Co!On, Co!Names
    <3>5. CoTells(x)
      BY <3>1 DEF CoHolds
    <3> QED BY <1>2, <2>2, <3>3, <3>4, <3>5 DEF CoTells
  <2> QED BY <2>1, <2>2
<1> QED BY <1>1, <1>5, <1>9, <1>11 DEF CoHolds

LEMMA CoSettles ==
    ASSUME CoHolds, NEW b \in Co!Buttons, call[b].step # "none",
           NEW st \in {"done", "refused"}, Co!Settle(b, st)
    PROVE  \E d \in CoSent : /\ call' = [call EXCEPT ![b] = d]
                             /\ d.step = st /\ d.want = call[b].want /\ d.had = call[b].had
<1>1. PICK r : r = call[b]
  OBVIOUS
<1>2. r \in CoSent
  BY <1>1, CoFree DEF CoHolds, CoType
<1> DEFINE d == [r EXCEPT !.step = st]
<1>3. call' = [call EXCEPT ![b] = d]
  BY <1>1 DEF Co!Settle, CoHolds, CoType
<1>4. d \in CoSent /\ d.step = st /\ d.want = r.want /\ d.had = r.had
  BY <1>2 DEF CoSent
<1> HIDE DEF d
<1> QED BY <1>1, <1>3, <1>4

LEMMA CoFavorites ==
    ASSUME CoHolds, Co!MCNext, raced' = FALSE, NEW b \in Co!Buttons, Co!Favorite(b) PROVE CoHolds'
<1>1. PICK r : r = call[b]
  OBVIOUS
<1>2. /\ kind = "favorite" /\ r.step = "loaded" /\ r \in CoSent
      /\ UNCHANGED <<kind, owner, page, shown>>
  BY <1>1, CoFree DEF Co!Favorite, CoHolds, CoType
<1>3. (r.had <=> Co!Stored(b[1])) /\ r.count = count
  BY <1>1, <1>2 DEF CoHolds, CoFresh
<1>4. shown' \in [Co!Buttons -> BOOLEAN] /\ \A x \in Co!Buttons \ {b} : shown'[x] = shown[x]
  BY <1>2 DEF CoHolds, CoType
<1>5. b \notin overtaken => /\ Co!Mounted(b) => (shown[b] <=> Co!Stored(b[1]))
  BY <1>1, <1>2 DEF CoHolds, CoTells
<1>6. r.want \in BOOLEAN /\ r.had \in BOOLEAN
  BY <1>2 DEF CoSent
<1>7. CASE r.want = r.had
  <2>1. PICK d \in CoSent : call' = [call EXCEPT ![b] = d] /\ d.step = "done" /\ d.want = r.want
    BY <1>1, <1>2, <1>7, CoSettles DEF Co!Favorite
  <2>2. UNCHANGED <<fans, count>>
    BY <1>1, <1>7 DEF Co!Favorite
  <2>3. d.want <=> Co!Stored(b[1])
    BY <1>3, <1>6, <1>7, <2>1
  <2> QED BY <1>1, <1>2, <1>4, <2>1, <2>2, <2>3, CoQuiet
<1>8. CASE r.want # r.had /\ r.want /\ owner[b[1]] \in fans
  BY <1>3, <1>6, <1>8 DEF Co!Stored
<1>9. CASE r.want # r.had /\ ~(r.want /\ owner[b[1]] \in fans)
  <2>1. PICK d \in CoSent : call' = [call EXCEPT ![b] = d] /\ d.step = "done" /\ d.want = r.want
    BY <1>1, <1>2, <1>9, CoSettles DEF Co!Favorite
  <2>2. /\ fans' = IF r.want THEN fans \cup {owner[b[1]]} ELSE fans \ {owner[b[1]]}
        /\ count' = IF r.want THEN count + 1 ELSE IF count > 0 THEN count - 1 ELSE 0
    BY <1>1, <1>3, <1>9 DEF Co!Favorite
  <2>3. IsFiniteSet(fans) /\ count = Cardinality(fans) /\ count \in Nat
    BY <1>2 DEF CoHolds, CoCounts, CoType
  <2>4. PICK u : u = owner[b[1]]
    OBVIOUS
  <2>5. IsFiniteSet(fans') /\ count' = Cardinality(fans') /\ fans' # fans
    <3>1. CASE r.want
      <4>1. u \notin fans
        BY <1>9, <2>4, <3>1
      <4>2. IsFiniteSet(fans \cup {u}) /\ Cardinality(fans \cup {u}) = count + 1
        BY <2>3, <4>1, FS_AddElement
      <4> QED BY <2>2, <2>4, <3>1, <4>1, <4>2
    <3>2. CASE ~r.want
      <4>1. u \in fans
        BY <1>3, <1>6, <1>9, <2>4, <3>2 DEF Co!Stored
      <4>2. IsFiniteSet(fans \ {u}) /\ Cardinality(fans \ {u}) = count - 1
        BY <2>3, <4>1, FS_RemoveElement
      <4>3. count # 0
        BY <2>3, <4>1, FS_EmptySet
      <4>4. count' = count - 1
        BY <2>2, <2>3, <3>2, <4>3
      <4> QED BY <2>2, <2>4, <3>2, <4>1, <4>2, <4>4
    <3> QED BY <3>1, <3>2
  <2>6. count' \in Nat /\ CoCounts'
    BY <2>5, FS_CardinalityType DEF CoCounts
  <2> QED BY <1>1, <1>2, <2>1, <2>2, <2>5, <2>6, CoChanges
<1> QED BY <1>7, <1>8, <1>9

LEMMA CoMarks ==
    ASSUME CoHolds, Co!MCNext, raced' = FALSE, NEW b \in Co!Buttons, Co!Mark(b) PROVE CoHolds'
<1>1. PICK r : r = call[b]
  OBVIOUS
<1>2. /\ kind # "favorite" /\ r.step = "loaded" /\ r \in CoSent
      /\ UNCHANGED <<kind, owner, count, page, shown>>
  BY <1>1, CoFree DEF Co!Mark, CoHolds, CoType
<1>3. PICK d \in CoSent : call' = [call EXCEPT ![b] = d] /\ d.step = "done" /\ d.want = r.want
  BY <1>1, <1>2, CoSettles DEF Co!Mark
<1>4. fans' = IF d.want THEN fans \cup {owner[b[1]]} ELSE fans \ {owner[b[1]]}
  BY <1>1, <1>3 DEF Co!Mark
<1>5. CASE fans' = fans
  <2>1. d.want <=> Co!Stored(b[1])
    <3>1. CASE d.want
      BY <1>4, <1>5, <3>1 DEF Co!Stored
    <3>2. CASE ~d.want
      BY <1>4, <1>5, <3>2 DEF Co!Stored
    <3> QED BY <3>1, <3>2
  <2>2. shown' \in [Co!Buttons -> BOOLEAN] /\ \A x \in Co!Buttons \ {b} : shown'[x] = shown[x]
    BY <1>2 DEF CoHolds, CoType
  <2> QED BY <1>1, <1>2, <1>3, <1>5, <2>1, <2>2, CoQuiet
<1>6. CASE fans' # fans
  <2>1. count' \in Nat /\ CoCounts'
    BY <1>2 DEF CoHolds, CoType, CoCounts
  <2> QED BY <1>1, <1>2, <1>3, <1>4, <1>6, <2>1, CoChanges
<1> QED BY <1>5, <1>6

(* A call that goes on, and leaves the marks and the buttons alone.        *)
LEMMA CoGoesOn ==
    ASSUME CoHolds, Co!MCNext, NEW b \in Co!Buttons, NEW d \in CoSent \cup {Co!None},
           call' = [call EXCEPT ![b] = d], call[b] # d, UNCHANGED <<fans, count, page, shown>>,
           call[b].step # "done", d.step # "done",
           d.step = "loaded" => (d.had <=> Co!Stored(b[1])) /\ d.count = count
    PROVE  CoHolds'
<1>1. /\ call'[b] = d /\ \A x \in Co!Buttons \ {b} : call'[x] = call[x]
  BY CoOneCall DEF CoHolds
<1>2. b \notin Co!Done
  BY <1>1 DEF Co!Done
<1>3. b \in overtaken' \/ b \notin overtaken
  BY <1>1, <1>2, CoOvertakes
<1>4. b \in overtaken' \/ (Co!Mounted(b) => (shown[b] <=> Co!Stored(b[1])))
  BY <1>3 DEF CoHolds, CoTells
<1>5. shown' \in [Co!Buttons -> BOOLEAN] /\ \A x \in Co!Buttons \ {b} : shown'[x] = shown[x]
  BY DEF CoHolds, CoType
<1> QED BY <1>4, <1>5, CoQuiet

LEMMA CoLoads == ASSUME CoHolds, Co!MCNext, NEW b \in Co!Buttons, Co!Load(b) PROVE CoHolds'
<1>1. PICK r : r = call[b]
  OBVIOUS
<1>2. r.step = "sent" /\ r \in CoSent /\ UNCHANGED <<fans, count, page, shown>>
  BY <1>1, CoFree DEF Co!Load, CoHolds, CoType
<1>3. PICK h \in BOOLEAN : h = Co!Stored(b[1])
  BY CoMark, CoButton
<1> DEFINE d == [r EXCEPT !.step = "loaded", !.had = h, !.count = count]
<1>4. call' = [call EXCEPT ![b] = d]
  BY <1>1, <1>3 DEF Co!Load, CoHolds, CoType
<1>5. d \in CoSent /\ d.step = "loaded" /\ d.had = h /\ d.count = count
  BY <1>2 DEF CoSent, CoHolds, CoType
<1> HIDE DEF d
<1>6. d.had <=> Co!Stored(b[1])
  BY <1>3, <1>5
<1> QED BY <1>1, <1>2, <1>4, <1>5, <1>6, CoGoesOn

LEMMA CoRefuses == ASSUME CoHolds, Co!MCNext, NEW b \in Co!Buttons, Co!Refuse(b) PROVE CoHolds'
<1>1. PICK d \in CoSent : call' = [call EXCEPT ![b] = d] /\ d.step = "refused"
  BY CoSettles DEF Co!Refuse
<1>2. call[b].step = "sent" /\ UNCHANGED <<fans, count, page, shown>>
  BY DEF Co!Refuse
<1> QED BY <1>1, <1>2, CoGoesOn

LEMMA CoClicks == ASSUME CoHolds, Co!MCNext, NEW b \in Co!Buttons, Co!Click(b) PROVE CoHolds'
<1>1. PICK w \in BOOLEAN : w = ~shown[b]
  BY DEF CoHolds, CoType
<1> DEFINE d == [want |-> w, step |-> "sent", had |-> FALSE, count |-> 0]
<1>2. call' = [call EXCEPT ![b] = d] /\ call[b] = Co!None /\ UNCHANGED <<fans, count, page, shown>>
  BY <1>1 DEF Co!Click
<1>3. d \in CoSent /\ d.step = "sent"
  BY DEF CoSent
<1> HIDE DEF d
<1> QED BY <1>2, <1>3, CoFree, CoGoesOn

LEMMA CoAnswers == ASSUME CoHolds, Co!MCNext, NEW b \in Co!Buttons, Co!Answer(b) PROVE CoHolds'
<1>1. PICK r : r = call[b]
  OBVIOUS
<1>2. /\ r.step \in {"done", "refused"} /\ r \in CoSent
      /\ call' = [call EXCEPT ![b] = Co!None] /\ UNCHANGED <<fans, count, page>>
  BY <1>1, CoFree DEF Co!Answer, CoHolds, CoType
<1>3. PICK n \in CoSent \cup {Co!None} : n = Co!None /\ n.step = "none"
  BY CoFree
<1>4. /\ call'[b] = n /\ \A x \in Co!Buttons \ {b} : call'[x] = call[x]
  BY <1>2, <1>3, CoOneCall DEF CoHolds
<1>5. b \in overtaken' \/ b \notin overtaken
  <2>1. b \notin Co!Done
    BY <1>3, <1>4 DEF Co!Done
  <2> QED BY <1>1, <1>2, <1>3, <1>4, <2>1, CoOvertakes
<1>6. b \in overtaken' \/ CoTells(b)
  BY <1>5 DEF CoHolds
<1>7. call[b] # n /\ call' = [call EXCEPT ![b] = n]
  BY <1>1, <1>2, <1>3
<1>8. CASE r.step = "refused"
  <2>1. shown' = shown
    BY <1>1, <1>8 DEF Co!Answer
  <2>2. b \in overtaken' \/ (Co!Mounted(b) => (shown[b] <=> Co!Stored(b[1])))
    BY <1>1, <1>6, <1>8 DEF CoTells
  <2>3. shown' \in [Co!Buttons -> BOOLEAN] /\ \A x \in Co!Buttons \ {b} : shown'[x] = shown[x]
    BY <2>1 DEF CoHolds, CoType
  <2> QED BY <1>2, <1>3, <1>7, <2>1, <2>2, <2>3, CoQuiet
<1>9. CASE r.step = "done" /\ b[2] = "block"
  <2>1. PICK h \in BOOLEAN : h = Co!Stored(b[1])
    BY CoMark, CoButton
  <2>2. shown' = [x \in Co!Buttons |-> IF x[1] = b[1] THEN h ELSE shown[x]]
    BY <1>1, <1>9, <2>1 DEF Co!Answer
  <2>3. shown' \in [Co!Buttons -> BOOLEAN]
    BY <2>2 DEF CoHolds, CoType
  <2>4. \A x \in Co!Buttons : IF x[1] = b[1] THEN shown'[x] = h ELSE shown'[x] = shown[x]
    BY <2>2
  <2>5. ASSUME NEW x \in Co!Buttons \ {b} PROVE shown'[x] = shown[x] \/ (shown'[x] <=> Co!Stored(x[1]))
    <3>1. CASE x[1] = b[1]
      BY <2>1, <2>4, <3>1
    <3>2. CASE x[1] # b[1]
      BY <2>4, <3>2
    <3> QED BY <3>1, <3>2
  <2>6. shown'[b] <=> Co!Stored(b[1])
    BY <2>1, <2>4
  <2> QED BY <1>2, <1>3, <1>7, <2>3, <2>5, <2>6, CoQuiet
<1>10. CASE r.step = "done" /\ b[2] # "block"
  <2>1. shown' = [shown EXCEPT ![b] = r.want] /\ r.want \in BOOLEAN
    BY <1>1, <1>2, <1>10 DEF Co!Answer, CoSent
  <2>2. shown' \in [Co!Buttons -> BOOLEAN] /\ shown'[b] = r.want
        /\ \A x \in Co!Buttons \ {b} : shown'[x] = shown[x]
    BY <2>1 DEF CoHolds, CoType
  <2>3. b \in overtaken' \/ (shown'[b] <=> Co!Stored(b[1]))
    BY <1>1, <1>6, <1>10, <2>2 DEF CoTells
  <2> QED BY <1>2, <1>3, <1>7, <2>2, <2>3, CoQuiet
<1> QED BY <1>2, <1>8, <1>9, <1>10

LEMMA CoLoses == ASSUME CoHolds, Co!MCNext, NEW b \in Co!Buttons, Co!Lost(b) PROVE CoHolds'
<1>1. PICK r : r = call[b]
  OBVIOUS
<1>2. /\ r.step = "done" /\ r \in CoSent
      /\ call' = [call EXCEPT ![b] = Co!None] /\ UNCHANGED <<fans, count, page, shown>>
  BY <1>1, CoFree DEF Co!Lost, CoHolds, CoType
<1>3. PICK n \in CoSent \cup {Co!None} : n = Co!None /\ n.step = "none"
  BY CoFree
<1>4. /\ call'[b] = n /\ \A x \in Co!Buttons \ {b} : call'[x] = call[x]
  BY <1>2, <1>3, CoOneCall DEF CoHolds
<1>5. b \in overtaken' \/ (b \notin overtaken /\ shown[b] = r.want)
  <2>1. b \notin Co!Done
    BY <1>3, <1>4 DEF Co!Done
  <2>2. shown[b] = r.want \/ b \in Co!Unanswered
    BY <1>1, <1>2, <1>3, <1>4 DEF Co!Unanswered, Co!Working
  <2> QED BY <1>1, <1>2, <1>3, <1>4, <2>1, <2>2, CoOvertakes
<1>6. b \in overtaken' \/ (shown'[b] <=> Co!Stored(b[1]))
  BY <1>1, <1>2, <1>5 DEF CoHolds, CoTells
<1>7. shown' \in [Co!Buttons -> BOOLEAN] /\ \A x \in Co!Buttons \ {b} : shown'[x] = shown[x]
  BY <1>2 DEF CoHolds, CoType
<1> QED BY <1>1, <1>2, <1>3, <1>6, <1>7, CoQuiet

(* A page shows the marks there are, on cards none.                        *)
LEMMA CoVisits ==
    ASSUME CoHolds, Co!MCNext, NEW t \in Tabs, NEW p \in CoPages \ {"none"}, NEW i \in BOOLEAN,
           Co!Visit(t, p, i), (i <=> Co!Stored(t)) \/ (p = "cards" /\ i = FALSE)
    PROVE  CoHolds'
<1>1. kind' = kind /\ owner' = owner /\ Co!Buttons' = Co!Buttons
  BY CoKind DEF Co!MCNext
<1>2. /\ page' = [page EXCEPT ![t] = p] /\ UNCHANGED <<fans, count, call>>
      /\ shown' = [b \in Co!Buttons |-> IF b[1] = t THEN i ELSE shown[b]]
      /\ \A b \in Co!Buttons : b[1] = t => call[b] = Co!None
  BY DEF Co!Visit, Co!Under
<1>3. /\ page' \in [Tabs -> CoPages] /\ page'[t] = p /\ \A u \in Tabs \ {t} : page'[u] = page[u]
      /\ shown' \in [Co!Buttons -> BOOLEAN]
  BY <1>2 DEF CoHolds, CoType
<1>4. \A b \in Co!Buttons : IF b[1] = t THEN shown'[b] = i ELSE shown'[b] = shown[b]
  BY <1>2
<1>5. CoType' /\ CoCounts'
  BY <1>1, <1>2, <1>3 DEF CoHolds, CoType, CoCounts
<1>6. \A b \in Co!Buttons : Co!Stored(b[1])' <=> Co!Stored(b[1])
  BY <1>1, <1>2 DEF Co!Stored
<1>7. CoFresh'
  BY <1>1, <1>2, <1>6 DEF CoHolds, CoFresh
<1>8. Co!Done = {} /\ Co!Changed = {}
  BY <1>2 DEF Co!Done, Co!Changed, Co!Working
<1>9. Co!Rivals = {}
  BY <1>8 DEF Co!Rivals
<1>10. overtaken' = ((overtaken \cup Co!Unanswered) \ Co!Opened)
           \cup {b \in Co!Opened : page'[b[1]] = "cards" /\ Co!Stored(b[1])}
  BY <1>8, <1>9 DEF Co!MCNext
<1>11. ASSUME NEW b \in Co!Buttons \ overtaken' PROVE CoTells(b)'
  <2>1. b[1] \in Tabs
    BY CoButton
  <2>2. CASE b \in Co!Opened
    <3>1. b[1] = t
      <4>1. b[1] # t => page'[b[1]] = page[b[1]] /\ shown'[b] = shown[b]
        BY <1>3, <1>4, <2>1
      <4> QED BY <2>2, <4>1 DEF Co!Opened
    <3>2. ~(p = "cards" /\ Co!Stored(t))
      BY <1>3, <1>10, <1>11, <2>2, <3>1
    <3>3. i <=> Co!Stored(t)
      BY <3>2
    <3>4. shown'[b] <=> Co!Stored(b[1])'
      BY <1>4, <1>6, <3>1, <3>3
    <3>5. call'[b].step = "none"
      BY <1>2, <3>1, CoFree
    <3> QED BY <3>4, <3>5 DEF CoTells
  <2>3. CASE b \notin Co!Opened
    <3>1. b \notin overtaken
      BY <1>10, <1>11, <2>3
    <3>2. page'[b[1]] = page[b[1]] /\ shown'[b] = shown[b]
      BY <1>2, <2>3 DEF Co!Opened
    <3>3. Co!Mounted(b)' <=> Co!Mounted(b)
      BY <1>1, <3>2 DEF Co!Mounted, Co!On, Co!Names
    <3>4. CoTells(b)
      BY <3>1 DEF CoHolds
    <3> QED BY <1>2, <1>6, <3>2, <3>3, <3>4 DEF CoTells
  <2> QED BY <2>2, <2>3
<1> QED BY <1>1, <1>5, <1>7, <1>11 DEF CoHolds

LEMMA CoPress ==
    ASSUME CoHolds, Co!MCNext, NEW t \in Tabs, NEW name, Co!Press(t, name) PROVE CoHolds'
<1>1. <<t, name>> \in Co!Buttons /\ (Co!Click(<<t, name>>) \/ Co!Answer(<<t, name>>))
  BY DEF Co!Press, Co!Buttons
<1> QED BY <1>1, CoClicks, CoAnswers

LEMMA CoNext == ASSUME CoInv, Co!MCNext PROVE CoInv'
<1>1. raced' \in BOOLEAN /\ (~raced' => ~raced)
  BY DEF CoInv, Co!MCNext
<1>2. ASSUME raced' = FALSE PROVE CoHolds'
  <2>1. CoHolds
    BY <1>1, <1>2 DEF CoInv
  <2>2. Co!Next
    BY DEF Co!MCNext
  <2>3. ASSUME NEW t \in Tabs,
               \/ Co!ListingDetailPage(t) \/ Co!SellerPage(t) \/ Co!ConversationPage(t)
               \/ Co!ListingCard(t) \/ Co!FavoritesContent(t)
        PROVE  CoHolds'
    <3>1. PICK h \in BOOLEAN : h = Co!Stored(t)
      BY CoMark
    <3>2. /\ Co!Stored(t) <=> h = TRUE
          /\ {"listing", "seller", "conversation", "cards", "favorites"} \subseteq CoPages \ {"none"}
      BY <3>1 DEF CoPages
    <3>3. CASE Co!ListingDetailPage(t) \/ Co!SellerPage(t) \/ Co!ConversationPage(t)
      <4>1. \E p \in CoPages \ {"none"} : Co!Visit(t, p, h)
        BY <3>1, <3>2, <3>3 DEF Co!ListingDetailPage, Co!SellerPage, Co!ConversationPage
      <4> QED BY <2>1, <3>1, <4>1, CoVisits
    <3>4. CASE Co!ListingCard(t)
      <4>1. Co!Visit(t, "cards", FALSE)
        BY <3>4 DEF Co!ListingCard
      <4> QED BY <2>1, <3>2, <4>1, CoVisits
    <3>5. CASE Co!FavoritesContent(t)
      <4>1. Co!Visit(t, "favorites", TRUE) /\ Co!Stored(t)
        BY <3>5 DEF Co!FavoritesContent
      <4> QED BY <2>1, <3>2, <4>1, CoVisits
    <3> QED BY <2>3, <3>3, <3>4, <3>5
  <2>4. ASSUME NEW t \in Tabs,
               \/ Co!FavoriteButton(t) \/ Co!FavoriteIconButton(t) \/ Co!FollowSellerButton(t)
               \/ Co!ConversationSafetyControls(t)
        PROVE  CoHolds'
    BY <2>1, <2>4, CoPress DEF Co!FavoriteButton, Co!FavoriteIconButton, Co!FollowSellerButton,
       Co!ConversationSafetyControls
  <2>5. ASSUME NEW b \in Co!Buttons,
               Co!Load(b) \/ Co!Favorite(b) \/ Co!Mark(b) \/ Co!Refuse(b) \/ Co!Lost(b)
        PROVE  CoHolds'
    BY <1>2, <2>1, <2>5, CoLoads, CoFavorites, CoMarks, CoRefuses, CoLoses
  <2> QED BY <2>2, <2>3, <2>4, <2>5 DEF Co!Next
<1> QED BY <1>1, <1>2 DEF CoInv

LEMMA CoRests ==
    ASSUME CoInv, UNCHANGED <<v1, v2, v3, v4, v5, v6, v7, v8, v9>> PROVE CoInv'
<1>1. Co!Buttons' = Co!Buttons /\ Co!Names' = Co!Names
  <2>1. Co!Names' = Co!Names
    BY DEF Co!Names
  <2> QED BY <2>1 DEF Co!Buttons
<1>2. (CoType' <=> CoType) /\ (CoCounts' <=> CoCounts)
  BY <1>1 DEF CoType, CoCounts
<1>3. \A b \in Co!Buttons : CoTells(b)' <=> CoTells(b)
  BY <1>1 DEF CoTells, Co!Mounted, Co!On, Co!Stored
<1>4. CoFresh' <=> CoFresh
  BY <1>1 DEF CoFresh, Co!Stored
<1> QED BY <1>1, <1>2, <1>3, <1>4 DEF CoInv, CoHolds

LEMMA CoSays == ASSUME CoInv PROVE Co!ButtonsTellUnlessOvertaken
<1> SUFFICES ASSUME CoHolds
             PROVE  /\ kind = "favorite" => count = Co!Cardinality(fans)
                    /\ \A b \in Co!Buttons \ overtaken :
                          Co!Mounted(b) /\ call[b] = Co!None => shown[b] = Co!Stored(b[1])
  BY DEF CoInv, Co!ButtonsTellUnlessOvertaken
<1>1. Co!Cardinality(fans) = Cardinality(fans)
  BY DEF Co!Cardinality, Cardinality
<1>2. ASSUME NEW b \in Co!Buttons \ overtaken, Co!Mounted(b), call[b] = Co!None
      PROVE  shown[b] = Co!Stored(b[1])
  <2>1. shown[b] <=> Co!Stored(b[1])
    BY <1>2, CoFree DEF CoHolds, CoTells
  <2>2. shown[b] \in BOOLEAN
    BY DEF CoHolds, CoType
  <2>3. PICK h \in BOOLEAN : h = Co!Stored(b[1])
    BY CoMark, CoButton
  <2> QED BY <2>1, <2>2, <2>3
<1> QED BY <1>1, <1>2 DEF CoHolds, CoCounts
HIDE DEF call, raced, page, shown, kind, owner, fans, count, overtaken

-----------------------------------------------------------------------------
(* Promotions.                                                             *)
USE DEF call, raced, page, good, now, until, order, ready, clearing, cut

PrTabs == {"seller", "admin"}
PrOps == {"request", "approve", "reject"}
PrOf(ops, orders) ==
    [tab : PrTabs, op : ops, order : orders,
     step : {"sent", "loaded", "done"}, until : Nat, pending : SUBSET Pairs]
PrCalls == {Pr!None} \cup PrOf(PrOps, Pairs) \cup PrOf({"save", "set"}, {"none"})
PrOrders == [status : {"new", "pending", "paid", "rejected"}, starts : Nat, ends : Nat]
PrPages == [open : BOOLEAN, shows : SUBSET Pairs, live : BOOLEAN]
PrType ==
    /\ good \in {"featured", "homepage", "bump", "shop"}
    /\ now \in Nat /\ until \in Nat /\ clearing \in BOOLEAN
    /\ order \in [Pairs -> PrOrders] /\ page \in [PrTabs -> PrPages]
    /\ call \in [Requests -> PrCalls]

(* What a handler has tested when it has read the rows.                    *)
PrTested ==
    \A c \in Requests : call[c].step = "loaded" =>
        /\ call[c].op = "request" => call[c].pending = {}
        /\ call[c].op \in {"approve", "reject"} => call[c].order \in call[c].pending
PrOneWaits == \A o, p \in Pr!Pending : o = p
(* Every period paid for has ended or is within the promotion, and no two  *)
(* overlap.                                                                *)
PrInTurn ==
    good \in {"featured", "shop"} =>
        \A o \in Pr!Paid :
            /\ until >= order[o].ends \/ order[o].ends < now
            /\ \A p \in Pr!Paid \ {o} : \/ order[o].ends <= order[p].starts
                                        \/ order[p].ends <= order[o].starts
PrHolds == PrType /\ PrTested /\ PrOneWaits /\ PrInTurn
PrInv == raced \in BOOLEAN /\ cut \in BOOLEAN /\ (raced \/ cut \/ PrHolds)

LEMMA PrInit == ASSUME Pr!MCInit PROVE PrInv
<1>1. PrType
  BY DEF Pr!MCInit, Pr!Init, PrType, PrTabs, PrPages, PrOrders, PrCalls
<1>2. Pr!Pending = {} /\ Pr!Paid = {}
  BY DEF Pr!MCInit, Pr!Init, Pr!Pending, Pr!Paid
<1>3. PrTested
  BY DEF Pr!MCInit, Pr!Init, PrTested, Pr!None
<1> QED BY <1>1, <1>2, <1>3 DEF PrInv, PrHolds, PrOneWaits, PrInTurn, Pr!MCInit

(* A step that leaves the orders and the promotion alone.                  *)
LEMMA PrOrdersRest ==
    ASSUME PrHolds, PrType', PrTested', UNCHANGED <<good, order, until>>, now' >= now
    PROVE  PrHolds'
<1>1. Pr!Pending' = Pr!Pending /\ Pr!Paid' = Pr!Paid
  BY DEF Pr!Pending, Pr!Paid
<1>2. PrOneWaits'
  BY <1>1 DEF PrHolds, PrOneWaits
<1>3. \A o \in Pr!Paid : order[o].ends \in Nat
  BY DEF PrHolds, PrType, Pr!Paid, PrOrders
<1>4. PrInTurn'
  BY <1>1, <1>3 DEF PrHolds, PrInTurn, PrType
<1> QED BY <1>2, <1>4 DEF PrHolds

(* The calls, when only one of them changes.                               *)
LEMMA PrOneCall ==
    ASSUME PrHolds, NEW c \in Requests, NEW d \in PrCalls, call' = [call EXCEPT ![c] = d],
           d.step # "loaded"
    PROVE  call' \in [Requests -> PrCalls] /\ PrTested'
<1>1. call' \in [Requests -> PrCalls] /\ call'[c] = d
      /\ \A q \in Requests \ {c} : call'[q] = call[q]
  BY DEF PrHolds, PrType
<1> QED BY <1>1 DEF PrHolds, PrTested

LEMMA PrSends ==
    ASSUME PrHolds, NEW t \in PrTabs, NEW op, NEW o,
           (op \in PrOps /\ o \in Pairs) \/ (op \in {"save", "set"} /\ o = "none"),
           Pr!Send(t, op, o)
    PROVE  PrHolds'
<1>1. UNCHANGED <<good, now, until, order, ready, clearing, page>>
  BY DEF Pr!Send, Pr!server
<1> DEFINE d == [tab |-> t, op |-> op, order |-> o, step |-> "sent", until |-> 0, pending |-> {}]
<1>2. PICK c \in Requests : call' = [call EXCEPT ![c] = d]
  BY DEF Pr!Send
<1>3. d \in PrCalls /\ d.step # "loaded"
  BY DEF PrCalls, PrOf
<1> HIDE DEF d
<1>4. call' \in [Requests -> PrCalls] /\ PrTested'
  BY <1>2, <1>3, PrOneCall
<1>5. PrType' /\ now' >= now
  BY <1>1, <1>4 DEF PrHolds, PrType
<1> QED BY <1>1, <1>4, <1>5, PrOrdersRest

LEMMA PrRendered == ASSUME PrHolds PROVE Pr!Rendered \in PrPages
<1>1. Pr!Pending \subseteq Pairs
  BY DEF Pr!Pending
<1>2. (IF good = "shop" THEN until > now ELSE ready = "yes") \in BOOLEAN
  <2>1. (until > now) \in BOOLEAN /\ (ready = "yes") \in BOOLEAN
    BY DEF PrHolds, PrType
  <2>2. CASE good = "shop"
    BY <2>1, <2>2
  <2>3. CASE good # "shop"
    BY <2>1, <2>3
  <2> QED BY <2>2, <2>3
<1> QED BY <1>1, <1>2 DEF Pr!Rendered, PrPages

LEMMA PrRenders ==
    ASSUME PrHolds, NEW t \in PrTabs, Pr!Render(t) PROVE PrHolds'
<1>1. UNCHANGED <<good, now, until, order, ready, clearing, call>>
  BY DEF Pr!Render, Pr!server
<1>2. page' = [page EXCEPT ![t] = Pr!Rendered]
  BY DEF Pr!Render
<1>3. page' \in [PrTabs -> PrPages]
  BY <1>2, PrRendered DEF PrHolds, PrType
<1>4. PrType' /\ PrTested' /\ now' >= now
  BY <1>1, <1>3 DEF PrHolds, PrType, PrTested
<1> QED BY <1>1, <1>4, PrOrdersRest

LEMMA PrButtons ==
    ASSUME PrHolds,
           \/ Pr!FeatureRequestPanel \/ Pr!ShopSettingsForm \/ Pr!FeatureRequestManager
           \/ Pr!FeatureListingManager \/ Pr!ShopSubscriptionManager \/ Pr!AdminShopManager
    PROVE  PrHolds'
<1>1. page["admin"].shows \subseteq Pairs
  BY DEF PrHolds, PrType, PrTabs, PrPages
<1>2. \E t \in PrTabs :
          \/ \E op \in PrOps, o \in Pairs : Pr!Send(t, op, o)
          \/ \E op \in {"save", "set"} : Pr!Send(t, op, "none")
  <2>1. ASSUME Pr!Ask PROVE \E o \in Pairs : Pr!Send("seller", "request", o)
    BY <2>1 DEF Pr!Ask
  <2>2. "seller" \in PrTabs /\ "admin" \in PrTabs /\ {"request", "approve", "reject"} = PrOps
    BY DEF PrTabs, PrOps
  <2>3. CASE Pr!FeatureRequestPanel
    BY <2>1, <2>2, <2>3 DEF Pr!FeatureRequestPanel
  <2>4. CASE Pr!ShopSettingsForm
    BY <2>1, <2>2, <2>4 DEF Pr!ShopSettingsForm
  <2>5. CASE Pr!FeatureRequestManager
    BY <1>1, <2>2, <2>5 DEF Pr!FeatureRequestManager
  <2>6. CASE Pr!FeatureListingManager
    BY <2>2, <2>6 DEF Pr!FeatureListingManager
  <2>7. CASE Pr!ShopSubscriptionManager
    BY <1>1, <2>2, <2>7 DEF Pr!ShopSubscriptionManager
  <2>8. CASE Pr!AdminShopManager
    BY <2>2, <2>8 DEF Pr!AdminShopManager
  <2> QED BY <2>3, <2>4, <2>5, <2>6, <2>7, <2>8
<1> QED BY <1>2, PrSends

LEMMA PrLoads ==
    ASSUME PrHolds, NEW c \in Requests, Pr!Load(c) PROVE PrHolds'
<1>1. PICK d : d = call[c]
  OBVIOUS
<1>2. d \in PrCalls /\ d # Pr!None /\ d.step = "sent"
  BY <1>1 DEF PrHolds, PrType, Pr!Load, Pr!None
<1>3. PICK u \in Nat : u = until
  BY DEF PrHolds, PrType
<1>4. PICK waiting \in SUBSET Pairs : waiting = Pr!Pending
  BY DEF Pr!Pending
<1>5. UNCHANGED <<good, now, until, order, ready, clearing, page>>
  BY DEF Pr!Load, Pr!server
<1>6. call' \in [Requests -> PrCalls] /\ PrTested'
  <2>1. CASE Pr!Tests(c)
    <3> DEFINE e == [d EXCEPT !.step = "loaded", !.until = u, !.pending = waiting]
    <3>1. call' = [call EXCEPT ![c] = e]
      BY <1>1, <1>3, <1>4, <2>1 DEF Pr!Load, PrHolds, PrType
    <3>2. e \in PrCalls /\ e.op = d.op /\ e.order = d.order /\ e.pending = waiting
      BY <1>2 DEF PrCalls, PrOf, Pr!None
    <3> HIDE DEF e
    <3>3. /\ d.op = "request" => waiting = {} /\ order[d.order].status = "new"
          /\ d.op \in {"approve", "reject"} => d.order \in waiting
      BY <1>1, <1>4, <2>1 DEF Pr!Tests
    <3>4. call' \in [Requests -> PrCalls] /\ call'[c] = e
          /\ \A q \in Requests \ {c} : call'[q] = call[q]
      BY <3>1, <3>2 DEF PrHolds, PrType
    <3> QED BY <3>2, <3>3, <3>4 DEF PrHolds, PrTested
  <2>2. CASE ~Pr!Tests(c)
    <3>1. call' = [call EXCEPT ![c] = Pr!None]
      BY <2>2 DEF Pr!Load
    <3>2. Pr!None \in PrCalls /\ Pr!None.step # "loaded"
      BY DEF PrCalls, Pr!None
    <3> QED BY <3>1, <3>2, PrOneCall
  <2> QED BY <2>1, <2>2
<1>7. PrType' /\ now' >= now
  BY <1>5, <1>6 DEF PrHolds, PrType
<1> QED BY <1>5, <1>6, <1>7, PrOrdersRest

LEMMA PrRefuses ==
    ASSUME PrHolds, NEW c \in Requests, Pr!Refuse(c) PROVE PrHolds'
<1>1. call' = [call EXCEPT ![c] = Pr!None]
      /\ UNCHANGED <<good, now, until, order, ready, clearing, page>>
  BY DEF Pr!Refuse, Pr!server
<1>2. Pr!None \in PrCalls /\ Pr!None.step # "loaded"
  BY DEF PrCalls, Pr!None
<1>3. call' \in [Requests -> PrCalls] /\ PrTested'
  BY <1>1, <1>2, PrOneCall
<1>4. PrType' /\ now' >= now
  BY <1>1, <1>3 DEF PrHolds, PrType
<1> QED BY <1>1, <1>3, <1>4, PrOrdersRest

LEMMA PrAnswers ==
    ASSUME PrHolds, NEW c \in Requests, Pr!Answer(c) PROVE PrHolds'
<1>1. call' = [call EXCEPT ![c] = Pr!None]
      /\ UNCHANGED <<good, now, until, order, ready, clearing>>
  BY DEF Pr!Answer, Pr!server
<1>2. Pr!None \in PrCalls /\ Pr!None.step # "loaded"
  BY DEF PrCalls, Pr!None
<1>3. call' \in [Requests -> PrCalls] /\ PrTested'
  BY <1>1, <1>2, PrOneCall
<1>4. page' \in [PrTabs -> PrPages]
  <2>1. PICK d : d = call[c]
    OBVIOUS
  <2>2. d \in PrCalls /\ d.step = "done"
    BY <2>1 DEF Pr!Answer, PrHolds, PrType
  <2>3. d.tab \in PrTabs
    BY <2>2 DEF PrCalls, PrOf, Pr!None
  <2>4. PICK t \in PrTabs : t = d.tab
    BY <2>3
  <2>5. PICK view : view = page[t]
    OBVIOUS
  <2>6. view \in PrPages
    BY <2>5 DEF PrHolds, PrType
  <2> DEFINE hid == [view EXCEPT !.shows = @ \ {d.order}]
             over == [view EXCEPT !.live = FALSE]
  <2>7. hid \in PrPages /\ over \in PrPages
    BY <2>6 DEF PrPages
  <2>8. \/ page' = [page EXCEPT ![t] = Pr!Rendered]
        \/ page' = [page EXCEPT ![t] = over]
        \/ page' = [page EXCEPT ![t] = hid]
        \/ page' = page
    BY <2>1, <2>4, <2>5 DEF Pr!Answer, PrHolds, PrType
  <2> HIDE DEF hid, over
  <2> QED BY <2>7, <2>8, PrRendered DEF PrHolds, PrType
<1>5. PrType' /\ now' >= now
  BY <1>1, <1>3, <1>4 DEF PrHolds, PrType
<1> QED BY <1>1, <1>3, <1>5, PrOrdersRest

(* A handler that commits what it read in time.                            *)
LEMMA PrDone ==
    ASSUME PrHolds, NEW c \in Requests, NEW op, Pr!Done(c, op), raced' = FALSE,
           Pr!MCNext
    PROVE  /\ UNCHANGED <<good, now, clearing, page>>
           /\ call' \in [Requests -> PrCalls] /\ PrTested'
           /\ call[c].until = until /\ call[c].pending = Pr!Pending
           /\ call[c].step = "loaded" /\ call[c].op = op /\ call'[c].step = "done"
           /\ op \in PrOps => call[c].order \in Pairs
<1>1. PICK d : d = call[c]
  OBVIOUS
<1>2. d \in PrCalls /\ d.step = "loaded" /\ d.op = op /\ d # Pr!None
  BY <1>1 DEF Pr!Done, PrHolds, PrType, Pr!None
<1> DEFINE e == [d EXCEPT !.step = "done", !.until = 0, !.pending = {}]
<1>3. e \in PrCalls /\ e.step = "done"
  BY <1>2 DEF PrCalls, PrOf, Pr!None
<1>4. call' = [call EXCEPT ![c] = e]
  BY <1>1 DEF Pr!Done, PrHolds, PrType
<1> HIDE DEF e
<1>5. call' \in [Requests -> PrCalls] /\ PrTested'
  BY <1>3, <1>4, PrOneCall
<1>6. call'[c] = e /\ call'[c] # call[c]
  BY <1>1, <1>2, <1>3, <1>4 DEF PrHolds, PrType
<1>7. ~Pr!Stale(c)
  BY <1>1, <1>2, <1>6 DEF Pr!MCNext, Pr!Loaded
<1>8. op \in PrOps => d.order \in Pairs
  BY <1>2 DEF PrCalls, PrOf, PrOps, Pr!None
<1> QED BY <1>1, <1>2, <1>3, <1>5, <1>6, <1>7, <1>8 DEF Pr!Done, Pr!Stale

(* What writing one order does to the pending and the paid ones.           *)
LEMMA PrWrites ==
    ASSUME PrHolds, NEW c \in Requests, call[c].order \in Pairs,
           NEW status \in {"pending", "paid", "rejected"}, NEW starts \in Nat, NEW ends \in Nat,
           Pr!Write(c, status, starts, ends)
    PROVE  LET o == call[c].order IN
           /\ order' \in [Pairs -> PrOrders]
           /\ Pr!Pending' = IF status = "pending" THEN Pr!Pending \cup {o} ELSE Pr!Pending \ {o}
           /\ Pr!Paid' = IF status = "paid" THEN Pr!Paid \cup {o} ELSE Pr!Paid \ {o}
           /\ order'[o] = [status |-> status, starts |-> starts, ends |-> ends]
           /\ \A p \in Pairs \ {o} : order'[p] = order[p]
<1>1. PICK o \in Pairs : o = call[c].order
  OBVIOUS
<1> DEFINE new == [status |-> status, starts |-> starts, ends |-> ends]
<1>2. order' = [order EXCEPT ![o] = new]
  BY <1>1 DEF Pr!Write
<1>3. new \in PrOrders /\ new.status = status
  BY DEF PrOrders
<1> HIDE DEF new
<1>4. order' \in [Pairs -> PrOrders] /\ order'[o] = new
      /\ \A p \in Pairs \ {o} : order'[p] = order[p]
  BY <1>2, <1>3 DEF PrHolds, PrType
<1>5. Pr!Pending' = IF status = "pending" THEN Pr!Pending \cup {o} ELSE Pr!Pending \ {o}
  BY <1>3, <1>4 DEF Pr!Pending
<1>6. Pr!Paid' = IF status = "paid" THEN Pr!Paid \cup {o} ELSE Pr!Paid \ {o}
  BY <1>3, <1>4 DEF Pr!Paid
<1> QED BY <1>1, <1>4, <1>5, <1>6 DEF new

LEMMA PrCreates ==
    ASSUME PrHolds, Pr!MCNext, raced' = FALSE, NEW c \in Requests, Pr!CreateRequest(c)
    PROVE  PrHolds'
<1>1. /\ UNCHANGED <<good, now, clearing, page, until>>
      /\ call' \in [Requests -> PrCalls] /\ PrTested'
      /\ call[c].pending = Pr!Pending /\ call[c].step = "loaded" /\ call[c].op = "request"
      /\ call[c].order \in Pairs
  BY PrDone DEF Pr!CreateRequest, PrOps
<1>2. Pr!Pending = {}
  BY <1>1 DEF PrHolds, PrTested
<1>3. PICK o \in Pairs : o = call[c].order
  BY <1>1
<1>4. /\ order' \in [Pairs -> PrOrders]
      /\ Pr!Pending' = Pr!Pending \cup {o} /\ Pr!Paid' = Pr!Paid \ {o}
      /\ \A p \in Pairs \ {o} : order'[p] = order[p]
  BY <1>1, <1>3, PrWrites DEF Pr!CreateRequest
<1>5. PrType'
  BY <1>1, <1>4 DEF PrHolds, PrType
<1>6. PrOneWaits'
  BY <1>2, <1>4 DEF PrOneWaits
<1>7. PrInTurn'
  BY <1>1, <1>4 DEF PrHolds, PrInTurn, Pr!Paid
<1> QED BY <1>1, <1>5, <1>6, <1>7 DEF PrHolds

LEMMA PrRejects ==
    ASSUME PrHolds, Pr!MCNext, raced' = FALSE, NEW c \in Requests, Pr!Reject(c)
    PROVE  PrHolds'
<1>1. /\ UNCHANGED <<good, now, clearing, page, until>>
      /\ call' \in [Requests -> PrCalls] /\ PrTested'
      /\ call[c].order \in Pairs
  BY PrDone DEF Pr!Reject, PrOps
<1>2. PICK o \in Pairs : o = call[c].order
  BY <1>1
<1>3. /\ order' \in [Pairs -> PrOrders]
      /\ Pr!Pending' = Pr!Pending \ {o} /\ Pr!Paid' = Pr!Paid \ {o}
      /\ \A p \in Pairs \ {o} : order'[p] = order[p]
  BY <1>1, <1>2, PrWrites DEF Pr!Reject
<1>4. PrType'
  BY <1>1, <1>3 DEF PrHolds, PrType
<1>5. PrOneWaits'
  BY <1>3 DEF PrHolds, PrOneWaits
<1>6. PrInTurn'
  BY <1>1, <1>3 DEF PrHolds, PrInTurn, Pr!Paid
<1> QED BY <1>1, <1>4, <1>5, <1>6 DEF PrHolds

(* A new period starts where the last one ends.                            *)
LEMMA PrApproves ==
    ASSUME PrHolds, Pr!MCNext, raced' = FALSE, NEW c \in Requests, Pr!Approve(c)
    PROVE  PrHolds'
<1>1. /\ UNCHANGED <<good, now, clearing, page>>
      /\ call' \in [Requests -> PrCalls] /\ PrTested'
      /\ call[c].until = until /\ call[c].pending = Pr!Pending
      /\ call[c].step = "loaded" /\ call[c].op = "approve"
      /\ call[c].order \in Pairs
  BY PrDone DEF Pr!Approve, PrOps
<1>2. PICK o \in Pairs : o = call[c].order
  BY <1>1
<1>3. o \in Pr!Pending /\ o \notin Pr!Paid
  BY <1>1, <1>2 DEF PrHolds, PrTested, Pr!Pending, Pr!Paid
<1>4. PICK starts : starts = IF good \in {"featured", "shop"} THEN Pr!Max2(now, until) ELSE now
  OBVIOUS
<1>5. PICK ends : ends = IF good = "bump" THEN starts ELSE starts + Days
  OBVIOUS
<1>6. /\ starts \in Nat /\ ends \in Nat /\ now \in Nat /\ until \in Nat
      /\ good \in {"featured", "shop"} =>
            starts >= now /\ starts >= until /\ ends >= starts
  BY <1>4, <1>5, ScreensAssumption DEF PrHolds, PrType, Pr!Max2
<1>7. /\ Pr!Write(c, "paid", starts, ends)
      /\ until' = IF good \in {"featured", "shop"} THEN ends ELSE until
  BY <1>1, <1>4, <1>5 DEF Pr!Approve
<1>8. /\ order' \in [Pairs -> PrOrders]
      /\ Pr!Pending' = Pr!Pending \ {o} /\ Pr!Paid' = Pr!Paid \cup {o}
      /\ order'[o].starts = starts /\ order'[o].ends = ends
      /\ \A p \in Pairs \ {o} : order'[p] = order[p]
  <2>1. /\ order' \in [Pairs -> PrOrders]
        /\ Pr!Pending' = Pr!Pending \ {call[c].order}
        /\ Pr!Paid' = Pr!Paid \cup {call[c].order}
        /\ order'[call[c].order] = [status |-> "paid", starts |-> starts, ends |-> ends]
        /\ \A p \in Pairs \ {call[c].order} : order'[p] = order[p]
    BY <1>1, <1>6, <1>7, PrWrites
  <2> QED BY <1>2, <2>1
<1>9. PrType'
  BY <1>1, <1>6, <1>7, <1>8 DEF PrHolds, PrType
<1>10. PrOneWaits'
  BY <1>8 DEF PrHolds, PrOneWaits
<1>11. PrInTurn'
  <2> SUFFICES ASSUME good \in {"featured", "shop"}
               PROVE  \A p \in Pr!Paid' :
                         /\ until' >= order'[p].ends \/ order'[p].ends < now'
                         /\ \A q \in Pr!Paid' \ {p} : \/ order'[p].ends <= order'[q].starts
                                                      \/ order'[q].ends <= order'[p].starts
    BY <1>1 DEF PrInTurn
  <2>1. until' = ends /\ now' = now
    BY <1>1, <1>7
  <2>2. \A p \in Pr!Paid : /\ p \in Pairs \ {o} /\ order'[p] = order[p]
                           /\ order[p].ends \in Nat /\ order[p].starts \in Nat
    BY <1>3, <1>8 DEF PrHolds, PrType, Pr!Paid, PrOrders
  <2>3. \A p \in Pr!Paid : order[p].ends <= starts
    BY <1>6, <2>2 DEF PrHolds, PrInTurn
  <2>4. \A p \in Pr!Paid : /\ until' >= order'[p].ends
                           /\ order'[p].ends <= order'[o].starts
    BY <1>6, <1>8, <2>1, <2>2, <2>3
  <2>5. \A p \in Pr!Paid : \A q \in Pr!Paid \ {p} :
            \/ order'[p].ends <= order'[q].starts
            \/ order'[q].ends <= order'[p].starts
    BY <2>2 DEF PrHolds, PrInTurn
  <2>6. until' >= order'[o].ends
    BY <1>6, <1>8, <2>1
  <2> QED BY <1>3, <1>8, <2>4, <2>5, <2>6
<1> QED BY <1>1, <1>9, <1>10, <1>11 DEF PrHolds

LEMMA PrSaves ==
    ASSUME PrHolds, Pr!MCNext, raced' = FALSE, NEW c \in Requests, Pr!UpdateProfile(c)
    PROVE  PrHolds'
<1>1. /\ UNCHANGED <<good, now, clearing, page, until, order>>
      /\ call' \in [Requests -> PrCalls] /\ PrTested'
  BY PrDone DEF Pr!UpdateProfile
<1>2. PrType' /\ now' >= now
  BY <1>1 DEF PrHolds, PrType
<1> QED BY <1>1, <1>2, PrOrdersRest

(* The worker clears a promotion that has expired.                         *)
LEMMA PrClears ==
    ASSUME PrHolds, Pr!MCNext, raced' = FALSE, Pr!ClearExpired PROVE PrHolds'
<1>1. UNCHANGED <<good, now, order, ready, page, call>>
  BY DEF Pr!ClearExpired
<1>2. PrTested'
  BY <1>1 DEF PrHolds, PrTested
<1>3. CASE clearing
  <2>1. until' = 0 /\ clearing' = FALSE
    BY <1>3 DEF Pr!ClearExpired
  <2>2. ~(until >= now)
    BY <1>3, <2>1 DEF Pr!MCNext
  <2>3. PrType'
    BY <1>1, <2>1 DEF PrHolds, PrType
  <2>4. Pr!Pending' = Pr!Pending /\ Pr!Paid' = Pr!Paid
    BY <1>1 DEF Pr!Pending, Pr!Paid
  <2>5. \A p \in Pr!Paid : order[p].ends \in Nat
    BY DEF PrHolds, PrType, Pr!Paid, PrOrders
  <2>6. PrInTurn'
    BY <1>1, <2>2, <2>4, <2>5 DEF PrHolds, PrInTurn, PrType
  <2>7. PrOneWaits'
    BY <2>4 DEF PrHolds, PrOneWaits
  <2> QED BY <1>2, <2>3, <2>6, <2>7 DEF PrHolds
<1>4. CASE ~clearing
  <2>1. until' = until /\ clearing' = TRUE
    BY <1>4 DEF Pr!ClearExpired
  <2>2. PrType' /\ now' >= now
    BY <1>1, <2>1 DEF PrHolds, PrType
  <2> QED BY <1>1, <1>2, <2>1, <2>2, PrOrdersRest
<1> QED BY <1>3, <1>4

LEMMA PrClock ==
    ASSUME PrHolds, Pr!ListingChanges \/ Pr!Tick PROVE PrHolds'
<1>1. UNCHANGED <<good, until, order, clearing, page, call>> /\ now' \in {now, now + 1}
  BY DEF Pr!ListingChanges, Pr!Tick
<1>2. PrType' /\ PrTested' /\ now' >= now
  BY <1>1 DEF PrHolds, PrType, PrTested
<1> QED BY <1>1, <1>2, PrOrdersRest

LEMMA PrNext == ASSUME PrInv, Pr!MCNext PROVE PrInv'
<1>1. raced' \in BOOLEAN /\ cut' \in BOOLEAN
  BY DEF PrInv, Pr!MCNext
<1>2. CASE raced' \/ cut'
  BY <1>1, <1>2 DEF PrInv
<1>3. CASE ~raced' /\ ~cut'
  <2>1. PrHolds /\ raced' = FALSE
    BY <1>1, <1>3 DEF PrInv, Pr!MCNext
  <2>2. ASSUME NEW c \in Requests, Pr!SetUntil(c) PROVE FALSE
    <3>1. call[c].step = "loaded" /\ call[c].op = "set" /\ call'[c].step = "done"
      BY <2>1, <2>2, PrDone DEF Pr!SetUntil
    <3> QED BY <1>3, <3>1 DEF Pr!MCNext, Pr!Loaded
  <2>3. ASSUME \/ Pr!MyListingsPage \/ Pr!FeaturedAdminPage \/ Pr!AccountShopPage
               \/ Pr!AdminShopsPage
        PROVE  PrHolds'
    BY <2>1, <2>3, PrRenders DEF PrTabs, Pr!MyListingsPage, Pr!FeaturedAdminPage,
       Pr!AccountShopPage, Pr!AdminShopsPage
  <2>4. PrHolds'
    BY <2>1, <2>2, <2>3, PrButtons, PrLoads, PrCreates, PrApproves, PrRejects, PrSaves,
       PrRefuses, PrAnswers, PrClears, PrClock DEF Pr!MCNext, Pr!Next
  <2> QED BY <1>1, <2>4 DEF PrInv
<1> QED BY <1>2, <1>3

LEMMA PrRests == ASSUME PrInv, UNCHANGED <<v1, v2, v3, v4, v5, v6, v7, v8, v9, v10>> PROVE PrInv'
BY DEF PrInv, PrHolds, PrType, PrTested, PrOneWaits, PrInTurn, Pr!Pending, Pr!Paid

LEMMA PrCounts == ASSUME NEW S PROVE Pr!Cardinality(S) = Cardinality(S)
BY DEF Pr!Cardinality, Cardinality

LEMMA PrSays == PrInv => Pr!PeriodsAddUpUnlessRaced
<1>1. ASSUME PrHolds PROVE Cardinality(Pr!Pending) <= 1
  <2>1. CASE Pr!Pending = {}
    BY <2>1, FS_EmptySet
  <2>2. CASE Pr!Pending # {}
    <3>1. PICK o : Pr!Pending = {o}
      BY <1>1, <2>2 DEF PrHolds, PrOneWaits
    <3>2. Cardinality({o}) = 1
      BY FS_Singleton
    <3> QED BY <3>1, <3>2
  <2> QED BY <2>1, <2>2
<1>2. PrHolds => PrInTurn
  BY DEF PrHolds
<1>3. CASE raced \/ cut
  BY <1>3 DEF Pr!PeriodsAddUpUnlessRaced
<1>4. CASE ~raced /\ ~cut
  <2> SUFFICES ASSUME PrInv PROVE Pr!PeriodsAddUpUnlessRaced
    OBVIOUS
  <2>1. Cardinality(Pr!Pending) <= 1 /\ PrInTurn
    BY <1>1, <1>2, <1>4 DEF PrInv
  <2> QED BY <2>1, PrCounts DEF PrInTurn, Pr!PeriodsAddUpUnlessRaced
<1> QED BY <1>3, <1>4
HIDE DEF call, raced, page, good, now, until, order, ready, clearing, cut

-----------------------------------------------------------------------------
(* Moderation.                                                             *)
USE DEF call, raced, listing, case, report, noted, signal, risk, reports,
        lost, downed, acted

MoFinals == {"clear", "approve", "reject"}
MoReports == {"resolved", "dismissed", "takedown"}
MoOf(ops, sets) ==
    [by : Desks, op : ops, todo : sets, dirty : SUBSET Pairs,
     step : {"sent", "loaded", "rejected", "done"}]
MoCalls == {Mo!None} \cup MoOf(MoFinals, SUBSET Pairs) \cup MoOf({"assign"}, {{c} : c \in Pairs})
           \cup MoOf(MoReports, {{l} : l \in Tabs})
MoCases == [status : {"none", "open", "reviewing", "cleared", "approved", "rejected"},
            about : Tabs \cup {"none", "conversation"}]
MoType ==
    /\ listing \in [Tabs -> {"pending", "public", "rejected"}]
    /\ case \in [Pairs -> MoCases] /\ signal \in [Pairs -> Tabs \cup {"new", "done"}]
    /\ risk \in [Desks -> SUBSET Pairs] /\ reports \in [Desks -> SUBSET Tabs]
    /\ call \in [Requests -> MoCalls]

MoOpen(c) == case[c].status \in Mo!Open
MoKnows(c) == case[c].status # "none"
MoDecides(k) == call[k].op \in MoFinals

(* One open case about a listing, and none about the listing of a signal   *)
(* that found none.                                                        *)
MoOneOpen ==
    /\ \A c, d \in Pairs :
          MoOpen(c) /\ MoOpen(d) /\ case[c].about = case[d].about /\ case[c].about \in Tabs => c = d
    /\ \A s \in Pairs : signal[s] \in Tabs =>
          /\ \A t \in Pairs \ {s} : signal[t] # signal[s]
          /\ \A c \in Pairs : MoOpen(c) => case[c].about # signal[s]
(* What is decided or shown is a case there is.                            *)
MoKnown ==
    /\ acted \subseteq Pairs /\ \A c \in acted : MoKnows(c)
    /\ \A a \in Desks : \A c \in risk[a] : MoKnows(c)
    /\ \A k \in Requests : MoDecides(k) => \A c \in call[k].todo \cup call[k].dirty : MoKnows(c)
(* The decision of a case whose listing was moved is still to be written.  *)
MoDecided ==
    \A c \in acted : MoOpen(c) => \E k \in Requests : MoDecides(k) /\ c \in call[k].dirty
MoDowned ==
    /\ noted \subseteq downed
    /\ \A k \in Requests : call[k].step = "rejected" => call[k].todo \subseteq downed
MoHolds == MoType /\ MoOneOpen /\ MoKnown /\ MoDecided /\ MoDowned
MoInv == raced \in BOOLEAN /\ (raced \/ lost # {} \/ MoHolds)

LEMMA MoInit == ASSUME Mo!MCInit PROVE MoInv
<1>1. MoType
  BY DEF Mo!MCInit, Mo!Init, MoType, MoCases, MoCalls
<1>2. MoOneOpen
  BY ScreensAssumption DEF Mo!MCInit, Mo!Init, MoOneOpen, MoOpen, Mo!Open
<1>3. MoKnown /\ MoDecided
  BY DEF Mo!MCInit, Mo!Init, MoKnown, MoDecided, MoDecides, MoFinals, Mo!None
<1>4. MoDowned
  BY DEF Mo!MCInit, Mo!Init, MoDowned, Mo!None
<1> QED BY <1>1, <1>2, <1>3, <1>4 DEF MoInv, MoHolds, Mo!MCInit

LEMMA MoFinalDomain == DOMAIN Mo!Final = MoFinals /\ \A op \in MoFinals : Mo!Final[op] \in {"cleared", "approved", "rejected"}
BY DEF Mo!Final, MoFinals

(* The fields of a call that is not free.                                  *)
LEMMA MoFields ==
    ASSUME NEW d \in MoCalls, d.step # "none"
    PROVE  /\ d.by \in Desks /\ d.dirty \subseteq Pairs
           /\ d.step \in {"sent", "loaded", "rejected", "done"}
           /\ d.op \in MoFinals \cup MoReports \cup {"assign"}
           /\ d.op \in MoFinals => d.todo \subseteq Pairs /\ d \in MoOf(MoFinals, SUBSET Pairs)
           /\ d.op = "assign" => /\ \E c \in Pairs : d.todo = {c}
                                 /\ d \in MoOf({"assign"}, {{c} : c \in Pairs})
           /\ d.op \in MoReports => /\ \E l \in Tabs : d.todo = {l}
                                    /\ d \in MoOf(MoReports, {{l} : l \in Tabs})
BY DEF MoCalls, MoOf, MoFinals, MoReports, Mo!None

LEMMA MoFree == Mo!None \in MoCalls /\ Mo!None.step = "none" /\ Mo!None.op \notin MoFinals
BY DEF MoCalls, Mo!None, MoFinals

LEMMA MoDecider ==
    ASSUME MoType, NEW k \in Requests, MoDecides(k)
    PROVE  /\ call[k] \in MoOf(MoFinals, SUBSET Pairs)
           /\ call[k].todo \subseteq Pairs /\ call[k].dirty \subseteq Pairs
<1>1. PICK d : d = call[k]
  OBVIOUS
<1>2. d \in MoCalls /\ d.op \in MoFinals
  BY <1>1 DEF MoType, MoDecides
<1>3. d \in MoOf(MoFinals, SUBSET Pairs)
  BY <1>2 DEF MoCalls, MoOf, MoFinals, MoReports, Mo!None
<1> QED BY <1>1, <1>3 DEF MoOf

(* A step that writes no decision, and opens no case about a listing.      *)
LEMMA MoQuiet ==
    ASSUME MoHolds, MoType', acted' = acted, downed \subseteq downed', noted' \subseteq noted \cup downed',
           signal' = signal,
           \A c \in Pairs :
              /\ MoKnows(c) => MoKnows(c)'
              /\ MoOpen(c)' => \/ MoOpen(c) /\ case'[c].about = case[c].about
                               \/ ~MoKnows(c) /\ case'[c].about = "conversation",
           \A k \in Requests : MoDecides(k) => call'[k] = call[k],
           \A k \in Requests : MoDecides(k)' =>
              \/ call'[k] = call[k]
              \/ \A c \in call'[k].todo \cup call'[k].dirty : c \in Pairs /\ MoKnows(c),
           \A k \in Requests : call'[k].step = "rejected" =>
              \/ call'[k].todo \subseteq downed'
              \/ call'[k] = call[k],
           \A a \in Desks : \A c \in risk'[a] : c \in Pairs /\ (c \in risk[a] \/ MoKnows(c))
    PROVE  MoHolds'
<1>1. MoOneOpen'
  <2>1. "conversation" \notin Tabs
    BY ScreensAssumption
  <2>2. \A c \in Pairs : MoOpen(c)' /\ case'[c].about \in Tabs => MoOpen(c) /\ case'[c].about = case[c].about
    BY <2>1
  <2> QED BY <2>2 DEF MoHolds, MoOneOpen
<1>2. MoKnown'
  <2>1. acted' \subseteq Pairs /\ \A c \in acted' : MoKnows(c)'
    BY DEF MoHolds, MoKnown
  <2>2. \A a \in Desks : \A c \in risk'[a] : MoKnows(c)'
    BY DEF MoHolds, MoKnown
  <2>3. ASSUME NEW k \in Requests, MoDecides(k)', NEW c \in call'[k].todo \cup call'[k].dirty
        PROVE  MoKnows(c)'
    <3>1. CASE call'[k] = call[k]
      <4>1. MoDecides(k)
        BY <2>3, <3>1 DEF MoDecides
      <4>2. c \in Pairs
        BY <2>3, <3>1, <4>1, MoDecider DEF MoHolds
      <4> QED BY <3>1, <4>1, <4>2 DEF MoHolds, MoKnown
    <3>2. CASE call'[k] # call[k]
      BY <2>3, <3>2
    <3> QED BY <3>1, <3>2
  <2> QED BY <2>1, <2>2, <2>3 DEF MoKnown
<1>3. MoDecided'
  <2> SUFFICES ASSUME NEW c \in acted, MoOpen(c)'
               PROVE  \E k \in Requests : MoDecides(k)' /\ c \in call'[k].dirty
    BY DEF MoDecided
  <2>1. c \in Pairs /\ MoOpen(c)
    BY DEF MoHolds, MoKnown
  <2>2. PICK k \in Requests : MoDecides(k) /\ c \in call[k].dirty
    BY <2>1 DEF MoHolds, MoDecided
  <2> QED BY <2>2 DEF MoDecides
<1>4. MoDowned'
  BY DEF MoHolds, MoDowned
<1> QED BY <1>1, <1>2, <1>3, <1>4 DEF MoHolds

(* The calls after a step of one that decides no case.                     *)
LEMMA MoOneCall ==
    ASSUME MoHolds, NEW k \in Requests, NEW d \in MoCalls, call' = [call EXCEPT ![k] = d]
    PROVE  /\ call' \in [Requests -> MoCalls] /\ call'[k] = d
           /\ \A q \in Requests \ {k} : call'[q] = call[q]
BY DEF MoHolds, MoType

LEMMA MoHistory ==
    ASSUME Mo!MCNext
    PROVE  /\ downed' = downed \cup {l \in Tabs : listing'[l] = "rejected"}
           /\ lost' = lost \cup UNION {Mo!Losing(k) : k \in Requests}
           /\ listing' = listing => acted' = acted
           /\ listing' # listing =>
                  acted' = acted \cup UNION {call[k].todo \ call'[k].todo : k \in Mo!Deciders}
BY DEF Mo!MCNext

(* What users do: reports of listings and of conversations.                *)
LEMMA MoUsers ==
    ASSUME MoHolds, Mo!MCNext, (\E l \in Tabs : Mo!ReportButton(l)) \/ Mo!SafetyReportButton
    PROVE  MoHolds'
<1>1. CASE \E l \in Tabs : Mo!ReportButton(l)
  <2>1. UNCHANGED <<listing, case, signal, risk, reports, call>> /\ noted' \subseteq noted
    BY <1>1 DEF Mo!ReportButton
  <2>2. MoType'
    BY <2>1 DEF MoHolds, MoType
  <2>3. \A a \in Desks : \A c \in risk'[a] : c \in Pairs
    BY <2>1 DEF MoHolds, MoType
  <2> QED BY <2>1, <2>2, <2>3, MoHistory, MoQuiet DEF MoKnows, MoOpen, MoDecides
<1>2. CASE Mo!SafetyReportButton
  <2> DEFINE new == [status |-> "open", about |-> "conversation"]
  <2>1. PICK c \in Pairs \ Mo!Existing : case' = [case EXCEPT ![c] = new]
    BY <1>2 DEF Mo!SafetyReportButton
  <2>2. UNCHANGED <<listing, report, noted, signal, risk, reports, call>>
    BY <1>2 DEF Mo!SafetyReportButton
  <2>3. new \in MoCases /\ new.about = "conversation" /\ new.status = "open"
    BY DEF MoCases
  <2> HIDE DEF new
  <2>4. case' \in [Pairs -> MoCases] /\ case'[c] = new /\ \A d \in Pairs \ {c} : case'[d] = case[d]
    BY <2>1, <2>3 DEF MoHolds, MoType
  <2>5. MoType'
    BY <2>2, <2>4 DEF MoHolds, MoType
  <2>6. ~MoKnows(c)
    BY <2>1 DEF Mo!Existing, MoKnows
  <2>7. \A d \in Pairs :
            /\ MoKnows(d) => MoKnows(d)'
            /\ MoOpen(d)' => \/ MoOpen(d) /\ case'[d].about = case[d].about
                             \/ ~MoKnows(d) /\ case'[d].about = "conversation"
    BY <2>3, <2>4, <2>6 DEF MoKnows, MoOpen
  <2>8. \A a \in Desks : \A d \in risk'[a] : d \in Pairs
    BY <2>2 DEF MoHolds, MoType
  <2> QED BY <2>2, <2>5, <2>7, <2>8, MoHistory, MoQuiet DEF MoDecides
<1> QED BY <1>1, <1>2

LEMMA MoPages ==
    ASSUME MoHolds, Mo!MCNext, NEW a \in Desks, Mo!ModerationRiskPage(a) \/ Mo!AdminReportsPage(a)
    PROVE  MoHolds'
<1>1. UNCHANGED <<listing, case, report, noted, signal, call>>
  BY DEF Mo!ModerationRiskPage, Mo!AdminReportsPage
<1>2. /\ risk' \in [Desks -> SUBSET Pairs] /\ reports' \in [Desks -> SUBSET Tabs]
      /\ \A b \in Desks : \A c \in risk'[b] : c \in Pairs /\ (c \in risk[b] \/ MoKnows(c))
  <2>1. CASE Mo!ModerationRiskPage(a)
    <3>1. PICK S \in SUBSET Pairs : S = Mo!Existing
      BY DEF Mo!Existing
    <3>2. risk' = [risk EXCEPT ![a] = S] /\ reports' = reports
      BY <2>1, <3>1 DEF Mo!ModerationRiskPage
    <3>3. \A c \in S : MoKnows(c)
      BY <3>1 DEF Mo!Existing, MoKnows
    <3> QED BY <3>2, <3>3 DEF MoHolds, MoType
  <2>2. CASE Mo!AdminReportsPage(a)
    <3>1. PICK S \in SUBSET Tabs : reports' = [reports EXCEPT ![a] = S]
      BY <2>2 DEF Mo!AdminReportsPage
    <3>2. risk' = risk
      BY <2>2 DEF Mo!AdminReportsPage
    <3> QED BY <3>1, <3>2 DEF MoHolds, MoType
  <2> QED BY <2>1, <2>2
<1>3. MoType'
  BY <1>1, <1>2 DEF MoHolds, MoType
<1> QED BY <1>1, <1>2, <1>3, MoHistory, MoQuiet DEF MoKnows, MoOpen, MoDecides

LEMMA MoSends ==
    ASSUME MoHolds, Mo!MCNext, NEW a \in Desks, NEW op, NEW on,
           \/ op \in MoFinals /\ on \subseteq Pairs /\ \A c \in on : MoKnows(c)
           \/ op = "assign" /\ \E c \in Pairs : on = {c}
           \/ op \in MoReports /\ \E l \in Tabs : on = {l},
           Mo!Send(a, op, on)
    PROVE  MoHolds'
<1> DEFINE d == [by |-> a, op |-> op, todo |-> on, dirty |-> {}, step |-> "sent"]
<1>1. PICK k \in Requests : call[k] = Mo!None /\ call' = [call EXCEPT ![k] = d]
  BY DEF Mo!Send
<1>2. d \in MoCalls /\ d.todo = on /\ d.dirty = {} /\ d.step = "sent" /\ d.op = op
  BY DEF MoCalls, MoOf
<1> HIDE DEF d
<1>3. call' \in [Requests -> MoCalls] /\ call'[k] = d
      /\ \A q \in Requests \ {k} : call'[q] = call[q]
  BY <1>1, <1>2, MoOneCall
<1>4. UNCHANGED <<listing, case, report, noted, signal, risk, reports>>
  BY DEF Mo!Send
<1>5. MoType'
  BY <1>3, <1>4 DEF MoHolds, MoType
<1>6. "assign" \notin MoFinals /\ MoReports \cap MoFinals = {}
  BY DEF MoFinals, MoReports
<1>7. \A q \in Requests : MoDecides(q) => call'[q] = call[q]
  BY <1>1, <1>3, MoFree DEF MoDecides
<1>8. \A q \in Requests : MoDecides(q)' =>
              \/ call'[q] = call[q]
              \/ \A c \in call'[q].todo \cup call'[q].dirty : c \in Pairs /\ MoKnows(c)
  BY <1>2, <1>3, <1>6 DEF MoDecides
<1>9. \A q \in Requests : call'[q].step = "rejected" => call'[q] = call[q]
  BY <1>2, <1>3
<1>10. \A b \in Desks : \A c \in risk'[b] : c \in Pairs /\ c \in risk[b]
  BY <1>4 DEF MoHolds, MoType
<1> QED BY <1>4, <1>5, <1>7, <1>8, <1>9, <1>10, MoHistory, MoQuiet DEF MoKnows, MoOpen

LEMMA MoButtons ==
    ASSUME MoHolds, Mo!MCNext, NEW a \in Desks, Mo!ModerationRiskQueue(a) \/ Mo!AdminReportActions(a)
    PROVE  MoHolds'
<1>1. risk[a] \subseteq Pairs /\ reports[a] \subseteq Tabs /\ \A c \in risk[a] : MoKnows(c)
  BY DEF MoHolds, MoType, MoKnown
<1>2. CASE Mo!BulkAction(a)
  <2>1. PICK S \in SUBSET risk[a], op \in MoFinals : Mo!Send(a, op, S)
    BY <1>2, MoFinalDomain DEF Mo!BulkAction
  <2> QED BY <1>1, <2>1, MoSends
<1>3. CASE Mo!ToggleAssignment(a)
  BY <1>1, <1>3, MoSends DEF Mo!ToggleAssignment
<1>4. CASE Mo!AdminReportActions(a)
  BY <1>1, <1>4, MoSends DEF Mo!AdminReportActions, MoReports
<1> QED BY <1>2, <1>3, <1>4 DEF Mo!ModerationRiskQueue

(* A signal that has found no open case opens one.                         *)
LEMMA MoCreates ==
    ASSUME MoHolds, Mo!MCNext, raced' = FALSE, NEW s \in Pairs, Mo!CreateCase(s) PROVE MoHolds'
<1>1. UNCHANGED <<listing, report, noted, risk, reports, call>>
  BY DEF Mo!CreateCase
<1>2. {"none", "new", "done", "conversation"} \cap Tabs = {}
  BY ScreensAssumption
<1>3. \A t, u \in Pairs : t # u /\ signal'[t] \in Tabs => signal'[u] # signal'[t]
  BY DEF Mo!MCNext
<1>4. MoKnown' /\ MoDecided' /\ MoDowned' /\ MoType' /\ MoOneOpen'
  <2>1. CASE case' = case
    <3>1. PICK l \in Tabs : signal[s] = "new" /\ signal' = [signal EXCEPT ![s] = IF Mo!OpenCases(l) = {} THEN l ELSE "done"]
      <4>1. CASE \E l \in Tabs :
             /\ signal[s] = "new"
             /\ signal' = [signal EXCEPT ![s] = IF Mo!OpenCases(l) = {} THEN l ELSE "done"]
        BY <4>1
      <4>2. CASE \E c \in Pairs \ Mo!Existing :
                    case' = [case EXCEPT ![c] = [status |-> "open", about |-> signal[s]]]
        <5>1. PICK c \in Pairs \ Mo!Existing :
                    case' = [case EXCEPT ![c] = [status |-> "open", about |-> signal[s]]]
          BY <4>2
        <5>2. case'[c].status = "open" /\ case[c].status = "none"
          BY <5>1 DEF MoHolds, MoType, Mo!Existing
        <5> QED BY <2>1, <5>2
      <4> QED BY <4>1, <4>2 DEF Mo!CreateCase
    <3>2. PICK x \in Tabs \cup {"done"} : signal' = [signal EXCEPT ![s] = x] /\ (x \in Tabs => x = l /\ Mo!OpenCases(l) = {})
      BY <1>2, <3>1
    <3>3. signal' \in [Pairs -> Tabs \cup {"new", "done"}] /\ signal'[s] = x
          /\ \A t \in Pairs \ {s} : signal'[t] = signal[t]
      BY <3>2 DEF MoHolds, MoType
    <3>4. MoType'
      BY <1>1, <2>1, <3>3 DEF MoHolds, MoType
    <3>5. MoKnown' /\ MoDecided'
      BY <1>1, <2>1, MoHistory DEF MoHolds, MoKnown, MoDecided, MoKnows, MoOpen, MoDecides
    <3>6. MoDowned'
      BY <1>1, MoHistory DEF MoHolds, MoDowned
    <3>7. x \in Tabs => \A c \in Pairs : MoOpen(c) => case[c].about # x
      BY <3>2 DEF Mo!OpenCases, MoOpen
    <3>8. \A t \in Pairs : signal'[t] \in Tabs => \A c \in Pairs : MoOpen(c) => case[c].about # signal'[t]
      BY <3>3, <3>7 DEF MoHolds, MoOneOpen
    <3>9. MoOneOpen'
      BY <1>3, <2>1, <3>8 DEF MoHolds, MoOneOpen, MoOpen
    <3> QED BY <3>4, <3>5, <3>6, <3>9
  <2>2. ASSUME signal[s] \in Tabs, signal' = [signal EXCEPT ![s] = "done"],
               NEW c \in Pairs \ Mo!Existing,
               case' = [case EXCEPT ![c] = [status |-> "open", about |-> signal[s]]]
        PROVE  MoKnown' /\ MoDecided' /\ MoDowned' /\ MoType' /\ MoOneOpen'
    <3>1. PICK l \in Tabs : l = signal[s]
      BY <2>2
    <3> DEFINE new == [status |-> "open", about |-> l]
    <3>2. new \in MoCases /\ new.about = l /\ new.status = "open"
      BY DEF MoCases
    <3>3. case' = [case EXCEPT ![c] = new]
      BY <2>2, <3>1
    <3> HIDE DEF new
    <3>4. case' \in [Pairs -> MoCases] /\ case'[c] = new /\ \A d \in Pairs \ {c} : case'[d] = case[d]
      BY <3>2, <3>3 DEF MoHolds, MoType
    <3>5. signal' \in [Pairs -> Tabs \cup {"new", "done"}] /\ signal'[s] = "done"
          /\ \A t \in Pairs \ {s} : signal'[t] = signal[t]
      BY <2>2 DEF MoHolds, MoType
    <3>6. MoType'
      BY <1>1, <3>4, <3>5 DEF MoHolds, MoType
    <3>7. ~MoKnows(c) /\ MoOpen(c)' /\ case'[c].about = l /\ MoKnows(c)'
      BY <3>2, <3>4 DEF Mo!Existing, MoKnows, MoOpen, Mo!Open
    <3>8. \A d \in Pairs \ {c} : (MoKnows(d)' <=> MoKnows(d)) /\ (MoOpen(d)' <=> MoOpen(d))
      BY <3>4 DEF MoKnows, MoOpen
    <3>9. MoKnown'
      <4>1. \A k \in Requests : MoDecides(k)' <=> MoDecides(k)
        BY <1>1 DEF MoDecides
      <4>2. \A k \in Requests : MoDecides(k) => \A d \in call[k].todo \cup call[k].dirty : d \in Pairs /\ MoKnows(d)
        BY MoDecider DEF MoHolds, MoKnown
      <4>3. \A a \in Desks : \A d \in risk[a] : d \in Pairs /\ MoKnows(d)
        BY DEF MoHolds, MoKnown, MoType
      <4>4. \A d \in acted : d \in Pairs /\ MoKnows(d)
        BY DEF MoHolds, MoKnown
      <4>5. \A d \in Pairs : MoKnows(d) => MoKnows(d)'
        BY <3>7, <3>8
      <4>6. acted' = acted
        BY <1>1, MoHistory
      <4> QED BY <1>1, <4>1, <4>2, <4>3, <4>4, <4>5, <4>6 DEF MoKnown
    <3>10. MoDecided'
      <4>1. \A d \in acted : d \in Pairs \ {c}
        BY <3>7 DEF MoHolds, MoKnown
      <4>2. \A d \in acted : MoOpen(d)' => \E k \in Requests : MoDecides(k) /\ d \in call[k].dirty
        BY <3>8, <4>1 DEF MoHolds, MoDecided
      <4> QED BY <1>1, <4>2, MoHistory DEF MoDecided, MoDecides
    <3>11. MoDowned'
      BY <1>1, MoHistory DEF MoHolds, MoDowned
    <3>12. \A d \in Pairs : MoOpen(d) => case[d].about # l
      BY <3>1 DEF MoHolds, MoOneOpen
    <3>13. \A d, e \in Pairs :
              MoOpen(d)' /\ MoOpen(e)' /\ case'[d].about = case'[e].about /\ case'[d].about \in Tabs => d = e
      <4> SUFFICES ASSUME NEW d \in Pairs, NEW e \in Pairs, MoOpen(d)', MoOpen(e)',
                          case'[d].about = case'[e].about, case'[d].about \in Tabs, d # e
                   PROVE  FALSE
        OBVIOUS
      <4>1. CASE d = c
        BY <3>4, <3>7, <3>8, <3>12, <4>1
      <4>2. CASE e = c
        BY <3>4, <3>7, <3>8, <3>12, <4>2
      <4>3. CASE d # c /\ e # c
        BY <3>4, <3>8, <4>3 DEF MoHolds, MoOneOpen
      <4> QED BY <4>1, <4>2, <4>3
    <3>14. ASSUME NEW t \in Pairs, signal'[t] \in Tabs, NEW d \in Pairs, MoOpen(d)'
           PROVE  case'[d].about # signal'[t]
      <4>1. t # s /\ signal[t] = signal'[t]
        BY <1>2, <3>5, <3>14
      <4>2. CASE d = c
        BY <3>1, <3>7, <3>14, <4>1, <4>2 DEF MoHolds, MoOneOpen
      <4>3. CASE d # c
        BY <3>4, <3>8, <3>14, <4>1, <4>3 DEF MoHolds, MoOneOpen
      <4> QED BY <4>2, <4>3
    <3>15. MoOneOpen'
      BY <1>3, <3>13, <3>14 DEF MoOneOpen
    <3> QED BY <3>6, <3>9, <3>10, <3>11, <3>15
  <2> QED BY <2>1, <2>2 DEF Mo!CreateCase
<1> QED BY <1>4 DEF MoHolds

(* Assignment of a case that is open, as its request has read it.          *)
LEMMA MoAssigns ==
    ASSUME MoHolds, Mo!MCNext, lost' = {}, NEW k \in Requests, Mo!Assign(k) PROVE MoHolds'
<1>1. PICK d : d = call[k]
  OBVIOUS
<1>2. d \in MoCalls /\ d.op = "assign" /\ d.step \in {"sent", "loaded"}
  BY <1>1 DEF Mo!Assign, MoHolds, MoType
<1>3. PICK c \in Pairs : d.todo = {c}
  BY <1>2, MoFields
<1>4. (CHOOSE x \in d.todo : TRUE) = c
  BY <1>3
<1>5. UNCHANGED <<listing, report, noted, signal, risk, reports>>
  BY DEF Mo!Assign
<1>6. PICK e \in MoCalls : call' = [call EXCEPT ![k] = e] /\ e.step \in {"none", "loaded"} /\ e.op \notin MoFinals
  <2>1. CASE call' = [call EXCEPT ![k] = Mo!None]
    BY <2>1, MoFree
  <2>2. CASE call' = [call EXCEPT ![k].step = "loaded"]
    <3> DEFINE f == [d EXCEPT !.step = "loaded"]
    <3>1. call' = [call EXCEPT ![k] = f]
      BY <1>1, <2>2 DEF MoHolds, MoType
    <3>2. d \in MoOf({"assign"}, {{x} : x \in Pairs})
      BY <1>2, MoFields
    <3>3. f \in MoOf({"assign"}, {{x} : x \in Pairs}) /\ f.step = "loaded" /\ f.op = "assign"
      BY <3>2 DEF MoOf
    <3> HIDE DEF f
    <3> QED BY <3>1, <3>3 DEF MoCalls, MoFinals
  <2> QED BY <2>1, <2>2 DEF Mo!Assign
<1>7. call' \in [Requests -> MoCalls] /\ call'[k] = e
      /\ \A q \in Requests \ {k} : call'[q] = call[q]
  BY <1>6, MoOneCall
<1>8. /\ case' \in [Pairs -> MoCases]
      /\ \A b \in Pairs : /\ MoKnows(b) => MoKnows(b)'
                          /\ MoOpen(b)' => MoOpen(b) /\ case'[b].about = case[b].about
  <2>1. CASE case' = case
    BY <2>1 DEF MoHolds, MoType, MoKnows, MoOpen
  <2>2. CASE d.step = "loaded" /\ case' = [case EXCEPT ![c].status = "reviewing"]
    <3>1. PICK g : g = case[c]
      OBVIOUS
    <3>2. g \in MoCases
      BY <3>1 DEF MoHolds, MoType
    <3> DEFINE h == [g EXCEPT !.status = "reviewing"]
    <3>3. case' = [case EXCEPT ![c] = h]
      BY <2>2, <3>1 DEF MoHolds, MoType
    <3>4. h \in MoCases /\ h.status = "reviewing" /\ h.about = g.about
      BY <3>2 DEF MoCases
    <3> HIDE DEF h
    <3>5. case' \in [Pairs -> MoCases] /\ case'[c] = h /\ \A b \in Pairs \ {c} : case'[b] = case[b]
      BY <3>3, <3>4 DEF MoHolds, MoType
    <3>6. Mo!Losing(k) = {x \in d.todo : case[x].status # "open"}
      <4>1. call'[k] # call[k]
        BY <1>1, <2>2, <3>3, <1>7, <1>6 DEF Mo!Assign, Mo!None, MoHolds, MoType
      <4>2. k \notin Mo!Deciders
        BY <1>1, <1>2, MoFinalDomain DEF Mo!Deciders, MoFinals
      <4> QED BY <1>1, <2>2, <4>1, <4>2 DEF Mo!Losing
    <3>7. Mo!Losing(k) = {}
      BY MoHistory
    <3>8. g.status = "open"
      BY <1>3, <3>1, <3>6, <3>7
    <3> QED BY <3>1, <3>4, <3>5, <3>8 DEF MoKnows, MoOpen, Mo!Open
  <2> QED BY <1>1, <1>4, <2>1, <2>2 DEF Mo!Assign
<1>9. MoType'
  BY <1>5, <1>7, <1>8 DEF MoHolds, MoType
<1>10. \A q \in Requests : /\ MoDecides(q) => call'[q] = call[q]
                           /\ MoDecides(q)' => call'[q] = call[q]
                           /\ call'[q].step = "rejected" => call'[q] = call[q]
  BY <1>1, <1>2, <1>6, <1>7 DEF MoDecides, MoFinals
<1>11. \A a \in Desks : \A x \in risk'[a] : x \in Pairs /\ x \in risk[a]
  BY <1>5 DEF MoHolds, MoType
<1> QED BY <1>5, <1>8, <1>9, <1>10, <1>11, MoHistory, MoQuiet

(* What the commit of a bulk request does to the cases.                    *)
LEMMA MoCommits ==
    ASSUME MoHolds, NEW k \in Requests, MoDecides(k), case' = Mo!Committed(k)
    PROVE  /\ case' \in [Pairs -> MoCases]
           /\ \A b \in Pairs : /\ MoKnows(b) => MoKnows(b)'
                               /\ MoOpen(b)' => MoOpen(b) /\ case'[b].about = case[b].about
                                                /\ b \notin call[k].dirty
<1>1. PICK st \in {"cleared", "approved", "rejected"} : st = Mo!Final[call[k].op]
  BY MoFinalDomain DEF MoDecides
<1>2. ASSUME NEW b \in Pairs
      PROVE  /\ case'[b] \in MoCases
             /\ MoKnows(b) => MoKnows(b)'
             /\ MoOpen(b)' => MoOpen(b) /\ case'[b].about = case[b].about /\ b \notin call[k].dirty
  <2>1. PICK g : g = case[b]
    OBVIOUS
  <2>2. g \in MoCases
    BY <2>1 DEF MoHolds, MoType
  <2>3. [g EXCEPT !.status = st] \in MoCases /\ [g EXCEPT !.status = st].status = st
    BY <2>2 DEF MoCases
  <2>4. CASE b \in call[k].dirty
    <3>1. case'[b] = [g EXCEPT !.status = st]
      BY <1>1, <2>1, <2>4 DEF Mo!Committed
    <3> QED BY <2>3, <3>1 DEF MoKnows, MoOpen, Mo!Open
  <2>5. CASE b \notin call[k].dirty
    <3>1. case'[b] = case[b]
      BY <2>5 DEF Mo!Committed
    <3> QED BY <2>1, <2>2, <2>5, <3>1 DEF MoKnows, MoOpen
  <2> QED BY <2>4, <2>5
<1>3. case' = [b \in Pairs |-> case'[b]]
  BY DEF Mo!Committed
<1> QED BY <1>2, <1>3

(* A step of a bulk request.                                               *)
LEMMA MoDecision ==
    ASSUME MoHolds, NEW k \in Requests, MoDecides(k), NEW e \in MoCalls,
           call' = [call EXCEPT ![k] = e], e.step # "rejected",
           e.op \in MoFinals => \A b \in e.todo \cup e.dirty : b \in Pairs /\ MoKnows(b),
           case' \in [Pairs -> MoCases],
           \A b \in Pairs : /\ MoKnows(b) => MoKnows(b)'
                            /\ MoOpen(b)' => MoOpen(b) /\ case'[b].about = case[b].about,
           listing' \in [Tabs -> {"pending", "public", "rejected"}],
           UNCHANGED <<noted, signal, risk, reports>>, downed \subseteq downed',
           \A b \in acted' :
              /\ b \in Pairs /\ MoKnows(b)
              /\ MoOpen(b)' => \/ b \in acted /\ b \notin call[k].dirty
                               \/ e.op \in MoFinals /\ b \in e.dirty
    PROVE  MoHolds'
<1>1. call' \in [Requests -> MoCalls] /\ call'[k] = e
      /\ \A q \in Requests \ {k} : call'[q] = call[q]
  BY MoOneCall
<1>2. MoType'
  BY <1>1 DEF MoHolds, MoType
<1>3. MoOneOpen'
  BY DEF MoHolds, MoOneOpen
<1>4. MoKnown'
  <2>1. acted' \subseteq Pairs /\ \A b \in acted' : MoKnows(b)'
    OBVIOUS
  <2>2. \A a \in Desks : \A b \in risk'[a] : MoKnows(b)'
    BY DEF MoHolds, MoKnown, MoType
  <2>3. ASSUME NEW q \in Requests, MoDecides(q)', NEW b \in call'[q].todo \cup call'[q].dirty
        PROVE  MoKnows(b)'
    <3>1. CASE q = k
      BY <1>1, <2>3, <3>1 DEF MoDecides
    <3>2. CASE q # k
      <4>1. MoDecides(q) /\ b \in call[q].todo \cup call[q].dirty
        BY <1>1, <2>3, <3>2 DEF MoDecides
      <4>2. b \in Pairs
        BY <4>1, MoDecider DEF MoHolds
      <4> QED BY <4>1, <4>2 DEF MoHolds, MoKnown
    <3> QED BY <3>1, <3>2
  <2> QED BY <2>1, <2>2, <2>3 DEF MoKnown
<1>5. MoDecided'
  <2> SUFFICES ASSUME NEW b \in acted', MoOpen(b)'
               PROVE  \E q \in Requests : MoDecides(q)' /\ b \in call'[q].dirty
    BY DEF MoDecided
  <2>1. CASE e.op \in MoFinals /\ b \in e.dirty
    BY <1>1, <2>1 DEF MoDecides
  <2>2. CASE b \in acted /\ b \notin call[k].dirty
    <3>1. MoOpen(b)
      OBVIOUS
    <3>2. PICK q \in Requests : MoDecides(q) /\ b \in call[q].dirty
      BY <2>2, <3>1 DEF MoHolds, MoDecided
    <3> QED BY <1>1, <2>2, <3>2 DEF MoDecides
  <2> QED BY <2>1, <2>2
<1>6. MoDowned'
  BY <1>1 DEF MoHolds, MoDowned
<1> QED BY <1>2, <1>3, <1>4, <1>5, <1>6 DEF MoHolds

LEMMA MoBulkEnds ==
    ASSUME MoHolds, Mo!MCNext, NEW k \in Requests, Mo!BulkEnd(k) PROVE MoHolds'
<1>1. /\ MoDecides(k) /\ case' = Mo!Committed(k) /\ call' = [call EXCEPT ![k] = Mo!None]
      /\ UNCHANGED <<listing, report, noted, signal, risk, reports>>
  BY MoFinalDomain DEF Mo!BulkEnd, MoDecides
<1>2. acted' = acted /\ downed \subseteq downed'
  BY <1>1, MoHistory
<1>3. \A b \in acted : b \in Pairs /\ MoKnows(b)
  BY DEF MoHolds, MoKnown
<1>4. listing' \in [Tabs -> {"pending", "public", "rejected"}]
  BY <1>1 DEF MoHolds, MoType
<1> QED BY <1>1, <1>2, <1>3, <1>4, MoCommits, MoFree, MoDecision

LEMMA MoBulks ==
    ASSUME MoHolds, Mo!MCNext, NEW k \in Requests, NEW c \in Pairs, Mo!BulkCase(k, c) PROVE MoHolds'
<1>1. PICK d : d = call[k]
  OBVIOUS
<1>2. MoDecides(k) /\ d.step = "sent" /\ c \in d.todo
  BY <1>1, MoFinalDomain DEF Mo!BulkCase, MoDecides
<1>3. d \in MoOf(MoFinals, SUBSET Pairs) /\ d.todo \subseteq Pairs /\ d.dirty \subseteq Pairs
  BY <1>1, <1>2, MoDecider DEF MoHolds
<1>4. \A b \in d.todo \cup d.dirty : b \in Pairs /\ MoKnows(b)
  BY <1>1, <1>2, <1>3 DEF MoHolds, MoKnown
<1>5. UNCHANGED <<report, noted, signal, risk, reports>>
  BY DEF Mo!BulkCase
<1>6. downed \subseteq downed'
  BY MoHistory
<1>7. ASSUME NEW written \in SUBSET Pairs
      PROVE  LET e == [d EXCEPT !.todo = @ \ {c}, !.dirty = written] IN
             /\ e \in MoOf(MoFinals, SUBSET Pairs) /\ e \in MoCalls
             /\ e.op = d.op /\ e.step = "sent" /\ e.todo = d.todo \ {c} /\ e.dirty = written
  <2> DEFINE e == [d EXCEPT !.todo = @ \ {c}, !.dirty = written]
  <2>1. /\ e \in MoOf(MoFinals, SUBSET Pairs)
        /\ e.op = d.op /\ e.step = d.step /\ e.todo = d.todo \ {c} /\ e.dirty = written
    BY <1>3 DEF MoOf
  <2> QED BY <1>2, <2>1 DEF MoCalls
<1>8. CASE listing' = listing /\ UNCHANGED case
           /\ call' = [call EXCEPT ![k].todo = @ \ {c}, ![k].dirty = @ \cup {c}]
  <2>1. PICK written \in SUBSET Pairs : written = d.dirty \cup {c}
    BY <1>3
  <2> DEFINE e == [d EXCEPT !.todo = @ \ {c}, !.dirty = written]
  <2>2. call' = [call EXCEPT ![k] = e]
    BY <1>1, <1>8, <2>1 DEF MoHolds, MoType
  <2>3. /\ e \in MoCalls /\ e.op = d.op /\ e.step = "sent" /\ e.todo = d.todo \ {c} /\ e.dirty = written
    BY <1>7
  <2> HIDE DEF e
  <2>4. acted' = acted
    BY <1>8, MoHistory
  <2>5. e.op \in MoFinals /\ \A b \in e.todo \cup e.dirty : b \in Pairs /\ MoKnows(b)
    BY <1>1, <1>2, <1>3, <1>4, <2>1, <2>3 DEF MoDecides
  <2>6. \A b \in acted' : /\ b \in Pairs /\ MoKnows(b)
                          /\ (b \in acted /\ b \notin d.dirty) \/ b \in e.dirty
    BY <2>1, <2>3, <2>4 DEF MoHolds, MoKnown
  <2>7. /\ case' \in [Pairs -> MoCases] /\ listing' \in [Tabs -> {"pending", "public", "rejected"}]
        /\ \A b \in Pairs : (MoKnows(b)' <=> MoKnows(b)) /\ (MoOpen(b)' <=> MoOpen(b)) /\ case'[b] = case[b]
    BY <1>8 DEF MoHolds, MoType, MoKnows, MoOpen
  <2> QED BY <1>1, <1>2, <1>5, <1>6, <2>2, <2>3, <2>5, <2>6, <2>7, MoDecision
<1>9. ASSUME NEW l \in Tabs, NEW st \in {"public", "rejected"}, listing[l] # st,
             listing' = [listing EXCEPT ![l] = st], case' = Mo!Committed(k),
             call' = [call EXCEPT ![k].todo = @ \ {c}, ![k].dirty = {c}]
      PROVE  MoHolds'
  <2>1. PICK written \in SUBSET Pairs : written = {c}
    OBVIOUS
  <2> DEFINE e == [d EXCEPT !.todo = @ \ {c}, !.dirty = written]
  <2>2. call' = [call EXCEPT ![k] = e]
    BY <1>1, <1>9, <2>1 DEF MoHolds, MoType
  <2>3. /\ e \in MoCalls /\ e.op = d.op /\ e.step = "sent" /\ e.todo = d.todo \ {c} /\ e.dirty = written
    BY <1>7
  <2> HIDE DEF e
  <2>4. listing' \in [Tabs -> {"pending", "public", "rejected"}] /\ listing' # listing
    BY <1>9 DEF MoHolds, MoType
  <2>5. call'[k] = e /\ \A q \in Requests \ {k} : call'[q] = call[q]
    BY <2>2, <2>3, MoOneCall
  <2>6. \A q \in Requests : call[q].todo \ call'[q].todo \subseteq {c}
    BY <1>1, <1>2, <2>3, <2>5
  <2>7. acted' \subseteq acted \cup {c}
    BY <2>4, <2>6, MoHistory DEF Mo!Deciders
  <2>8. e.op \in MoFinals /\ \A b \in e.todo \cup e.dirty : b \in Pairs /\ MoKnows(b)
    BY <1>1, <1>2, <1>3, <1>4, <2>1, <2>3 DEF MoDecides
  <2>9. /\ case' \in [Pairs -> MoCases]
        /\ \A b \in Pairs : /\ MoKnows(b) => MoKnows(b)'
                            /\ MoOpen(b)' => MoOpen(b) /\ case'[b].about = case[b].about
                                             /\ b \notin call[k].dirty
    BY <1>2, <1>9, MoCommits
  <2>10. \A b \in acted' : /\ b \in Pairs /\ MoKnows(b)
                           /\ MoOpen(b)' => (b \in acted /\ b \notin call[k].dirty) \/ b \in e.dirty
    <3>1. \A b \in acted : b \in Pairs /\ MoKnows(b)
      BY DEF MoHolds, MoKnown
    <3> QED BY <1>2, <1>4, <2>1, <2>3, <2>7, <2>9, <3>1
  <2> QED BY <1>2, <1>5, <1>6, <2>2, <2>3, <2>4, <2>8, <2>9, <2>10, MoDecision
<1> QED BY <1>8, <1>9 DEF Mo!BulkCase

LEMMA MoRejects ==
    ASSUME MoHolds, Mo!MCNext, NEW k \in Requests, Mo!RejectListing(k) PROVE MoHolds'
<1>1. PICK d : d = call[k]
  OBVIOUS
<1>2. d \in MoCalls /\ d.op = "takedown" /\ d.step = "sent"
  BY <1>1 DEF Mo!RejectListing, MoHolds, MoType
<1>3. PICK l \in Tabs : d.todo = {l}
  BY <1>2, MoFields DEF MoReports
<1>4. (CHOOSE x \in d.todo : TRUE) = l
  BY <1>3
<1>5. listing' = [listing EXCEPT ![l] = "rejected"] /\ UNCHANGED <<case, report, noted, signal, risk, reports>>
  BY <1>1, <1>4 DEF Mo!RejectListing
<1> DEFINE e == [d EXCEPT !.step = "rejected"]
<1>6. call' = [call EXCEPT ![k] = e]
  BY <1>1 DEF Mo!RejectListing, MoHolds, MoType
<1>7. d \in MoOf(MoReports, {{x} : x \in Tabs})
  BY <1>2, MoFields DEF MoReports
<1>8. e \in MoCalls /\ e.todo = {l} /\ e.op \notin MoFinals
  <2>1. /\ e \in MoOf(MoReports, {{x} : x \in Tabs})
        /\ e.op = d.op /\ e.todo = d.todo
    BY <1>7 DEF MoOf
  <2> QED BY <1>2, <1>3, <2>1 DEF MoCalls, MoFinals
<1> HIDE DEF e
<1>9. call' \in [Requests -> MoCalls] /\ call'[k] = e /\ \A q \in Requests \ {k} : call'[q] = call[q]
  BY <1>6, <1>8, MoOneCall
<1>10. listing' \in [Tabs -> {"pending", "public", "rejected"}] /\ listing'[l] = "rejected"
  BY <1>5 DEF MoHolds, MoType
<1>11. l \in downed' /\ downed \subseteq downed'
  BY <1>10, MoHistory
<1>12. k \notin Mo!Deciders
  BY <1>1, <1>2, MoFinalDomain DEF Mo!Deciders, MoFinals
<1>13. acted' = acted
  <2>1. \A q \in Mo!Deciders : call[q].todo \ call'[q].todo = {}
    BY <1>9, <1>12 DEF Mo!Deciders
  <2>2. UNION {call[q].todo \ call'[q].todo : q \in Mo!Deciders} = {}
    BY ONLY <2>1
  <2>3. acted \cup UNION {call[q].todo \ call'[q].todo : q \in Mo!Deciders} = acted
    BY <2>2
  <2> QED BY <2>3, MoHistory
<1>14. MoType'
  BY <1>5, <1>9, <1>10 DEF MoHolds, MoType
<1>15. \A q \in Requests : /\ MoDecides(q) => call'[q] = call[q]
                           /\ MoDecides(q)' => call'[q] = call[q]
  BY <1>1, <1>2, <1>8, <1>9 DEF MoDecides, MoFinals
<1>16. \A q \in Requests : call'[q].step = "rejected" => call'[q].todo \subseteq downed' \/ call'[q] = call[q]
  BY <1>8, <1>9, <1>11
<1>17. \A b \in Pairs : (MoKnows(b)' <=> MoKnows(b)) /\ (MoOpen(b)' <=> MoOpen(b)) /\ case'[b] = case[b]
  BY <1>5 DEF MoKnows, MoOpen
<1>18. \A a \in Desks : \A x \in risk'[a] : x \in Pairs /\ x \in risk[a]
  BY <1>5 DEF MoHolds, MoType
<1> QED BY <1>5, <1>11, <1>13, <1>14, <1>15, <1>16, <1>17, <1>18, MoQuiet

(* A step of a request that decides no case, and writes none.              *)
LEMMA MoAside ==
    ASSUME MoHolds, Mo!MCNext, NEW k \in Requests, ~MoDecides(k),
           NEW e \in MoCalls, e.op \notin MoFinals, e.step # "rejected",
           call' = [call EXCEPT ![k] = e], reports' \in [Desks -> SUBSET Tabs],
           UNCHANGED <<listing, case, signal, risk>>, noted' \subseteq noted \cup downed
    PROVE  MoHolds'
<1>1. call' \in [Requests -> MoCalls] /\ call'[k] = e /\ \A q \in Requests \ {k} : call'[q] = call[q]
  BY MoOneCall
<1>2. MoType'
  BY <1>1 DEF MoHolds, MoType
<1>3. \A q \in Requests : /\ MoDecides(q) => call'[q] = call[q]
                          /\ MoDecides(q)' => call'[q] = call[q]
                          /\ call'[q].step = "rejected" => call'[q] = call[q]
  BY <1>1 DEF MoDecides
<1>4. \A b \in Pairs : (MoKnows(b)' <=> MoKnows(b)) /\ (MoOpen(b)' <=> MoOpen(b)) /\ case'[b] = case[b]
  BY DEF MoKnows, MoOpen
<1>5. \A a \in Desks : \A x \in risk'[a] : x \in Pairs /\ x \in risk[a]
  BY DEF MoHolds, MoType
<1>6. acted' = acted /\ downed \subseteq downed'
  BY MoHistory
<1> QED BY <1>2, <1>3, <1>4, <1>5, <1>6, MoQuiet

LEMMA MoResolves ==
    ASSUME MoHolds, Mo!MCNext, NEW k \in Requests, Mo!ResolveReport(k) PROVE MoHolds'
<1>1. PICK d : d = call[k]
  OBVIOUS
<1>2. d \in MoCalls /\ d.op \in MoReports /\ d.step \in {"sent", "rejected"}
      /\ (d.op = "takedown" => d.step = "rejected")
  BY <1>1 DEF Mo!ResolveReport, MoHolds, MoType, MoReports
<1>3. PICK l \in Tabs : d.todo = {l}
  BY <1>2, MoFields
<1>4. (CHOOSE x \in d.todo : TRUE) = l
  BY <1>3
<1>5. UNCHANGED <<listing, case, signal, risk, reports>>
  BY DEF Mo!ResolveReport
<1>6. noted' \subseteq noted \cup downed
  <2>1. d.op = "takedown" => l \in downed
    BY <1>1, <1>2, <1>3 DEF MoHolds, MoDowned
  <2>2. noted' = IF d.op = "takedown" THEN noted \cup {l} ELSE noted \ {l}
    BY <1>1, <1>4 DEF Mo!ResolveReport
  <2> QED BY <2>1, <2>2
<1> DEFINE e == [d EXCEPT !.step = "done"]
<1>7. call' = [call EXCEPT ![k] = e]
  BY <1>1 DEF Mo!ResolveReport, MoHolds, MoType
<1>8. d \in MoOf(MoReports, {{x} : x \in Tabs})
  BY <1>2, MoFields
<1>9. e \in MoCalls /\ e.op \notin MoFinals /\ e.step = "done"
  <2>1. /\ e \in MoOf(MoReports, {{x} : x \in Tabs}) /\ e.op = d.op /\ e.step = "done"
    BY <1>8 DEF MoOf
  <2> QED BY <1>2, <2>1 DEF MoCalls, MoReports, MoFinals
<1> HIDE DEF e
<1>10. ~MoDecides(k)
  BY <1>1, <1>2 DEF MoDecides, MoReports, MoFinals
<1>11. reports' \in [Desks -> SUBSET Tabs]
  BY <1>5 DEF MoHolds, MoType
<1> QED BY <1>5, <1>6, <1>7, <1>9, <1>10, <1>11, MoAside

LEMMA MoEnds ==
    ASSUME MoHolds, Mo!MCNext, lost' = {}, NEW k \in Requests, Mo!Fail(k) \/ Mo!Answer(k) PROVE MoHolds'
<1>1. call' = [call EXCEPT ![k] = Mo!None] /\ UNCHANGED <<listing, case, report, noted, signal, risk>>
  BY DEF Mo!Fail, Mo!Answer
<1>2. reports' \in [Desks -> SUBSET Tabs]
  <2>1. CASE reports' = reports
    BY <2>1 DEF MoHolds, MoType
  <2>2. CASE Mo!Answer(k)
    <3>1. PICK S \in SUBSET Tabs : S = {l \in Tabs : report[l] # "none"}
      OBVIOUS
    <3>2. reports' = [reports EXCEPT ![call[k].by] = S]
      BY <2>2, <3>1 DEF Mo!Answer
    <3> QED BY <3>2 DEF MoHolds, MoType
  <2> QED BY <2>1, <2>2 DEF Mo!Fail
<1>3. CASE ~MoDecides(k)
  BY <1>1, <1>2, <1>3, MoFree, MoAside
<1>4. CASE Mo!BulkEnd(k)
  BY <1>4, MoBulkEnds
<1>5. CASE MoDecides(k) /\ ~Mo!BulkEnd(k)
  <2>1. call'[k] = Mo!None
    BY <1>1 DEF MoHolds, MoType
  <2>2. k \in Mo!Deciders
    BY <1>5, MoFinalDomain DEF MoDecides, Mo!Deciders
  <2>3. Mo!Losing(k) = call[k].dirty
    BY <1>5, <2>1, <2>2 DEF Mo!Losing
  <2>4. call[k].dirty = {}
    BY <2>3, MoHistory
  <2>5. acted' = acted /\ downed \subseteq downed'
    BY <1>1, MoHistory
  <2>6. \A b \in acted' : b \in Pairs /\ MoKnows(b) /\ b \in acted /\ b \notin call[k].dirty
    BY <2>4, <2>5 DEF MoHolds, MoKnown
  <2>7. case' \in [Pairs -> MoCases] /\ listing' \in [Tabs -> {"pending", "public", "rejected"}]
        /\ \A b \in Pairs : (MoKnows(b)' <=> MoKnows(b)) /\ (MoOpen(b)' <=> MoOpen(b)) /\ case'[b] = case[b]
    BY <1>1 DEF MoHolds, MoType, MoKnows, MoOpen
  <2>8. MoType'
    <3>1. call' \in [Requests -> MoCalls]
      BY <1>1, MoFree, MoOneCall
    <3> QED BY <1>1, <1>2, <2>7, <3>1 DEF MoHolds, MoType
  <2>9. \A q \in Requests \ {k} : call'[q] = call[q]
    BY <1>1, MoFree, MoOneCall
  <2>10. MoOneOpen' /\ MoDowned'
    BY <1>1, <2>1, <2>5, <2>7, <2>9, MoFree DEF MoHolds, MoOneOpen, MoDowned
  <2>11. MoKnown'
    <3>1. \A a \in Desks : \A b \in risk'[a] : MoKnows(b)'
      BY <1>1, <2>7 DEF MoHolds, MoKnown, MoType
    <3>2. ASSUME NEW q \in Requests, MoDecides(q)', NEW b \in call'[q].todo \cup call'[q].dirty
          PROVE  MoKnows(b)'
      <4>1. q # k /\ MoDecides(q) /\ b \in call[q].todo \cup call[q].dirty
        BY <2>1, <2>9, <3>2, MoFree DEF MoDecides
      <4>2. b \in Pairs
        BY <4>1, MoDecider DEF MoHolds
      <4> QED BY <2>7, <4>1, <4>2 DEF MoHolds, MoKnown
    <3> QED BY <2>6, <2>7, <3>1, <3>2 DEF MoKnown
  <2>12. MoDecided'
    <3> SUFFICES ASSUME NEW b \in acted', MoOpen(b)'
                 PROVE  \E q \in Requests : MoDecides(q)' /\ b \in call'[q].dirty
      BY DEF MoDecided
    <3>1. MoOpen(b)
      BY <2>6, <2>7
    <3>2. PICK q \in Requests : MoDecides(q) /\ b \in call[q].dirty
      BY <2>5, <3>1 DEF MoHolds, MoDecided
    <3> QED BY <2>4, <2>9, <3>2 DEF MoDecides
  <2> QED BY <2>8, <2>10, <2>11, <2>12 DEF MoHolds
<1> QED BY <1>3, <1>4, <1>5

LEMMA MoNext == ASSUME MoInv, Mo!MCNext PROVE MoInv'
<1>1. raced' \in BOOLEAN /\ (~raced' => ~raced)
  BY DEF MoInv, Mo!MCNext
<1>2. lost \subseteq lost'
  BY MoHistory
<1>3. ASSUME raced' = FALSE, lost' = {} PROVE MoHolds'
  <2>1. MoHolds
    BY <1>1, <1>2, <1>3 DEF MoInv
  <2>2. Mo!Next
    BY DEF Mo!MCNext
  <2>3. CASE \E s \in Pairs : Mo!CreateCase(s)
    BY <1>3, <2>1, <2>3, MoCreates
  <2>4. CASE (\E l \in Tabs : Mo!ReportButton(l)) \/ Mo!SafetyReportButton
    BY <2>1, <2>4, MoUsers
  <2>5. CASE \E a \in Desks :
                Mo!ModerationRiskPage(a) \/ Mo!AdminReportsPage(a) \/ Mo!ModerationRiskQueue(a) \/ Mo!AdminReportActions(a)
    BY <2>1, <2>5, MoPages, MoButtons
  <2>6. ASSUME NEW k \in Requests,
               \/ Mo!Assign(k) \/ Mo!BulkEnd(k) \/ Mo!RejectListing(k) \/ Mo!ResolveReport(k) \/ Mo!Fail(k) \/ Mo!Answer(k)
               \/ \E c \in Pairs : Mo!BulkCase(k, c)
        PROVE  MoHolds'
    <3>1. CASE Mo!Assign(k)
      BY <1>3, <2>1, <3>1, MoAssigns
    <3>2. CASE Mo!BulkEnd(k)
      BY <2>1, <3>2, MoBulkEnds
    <3>3. CASE Mo!RejectListing(k)
      BY <2>1, <3>3, MoRejects
    <3>4. CASE Mo!ResolveReport(k)
      BY <2>1, <3>4, MoResolves
    <3>5. CASE Mo!Fail(k) \/ Mo!Answer(k)
      BY <1>3, <2>1, <3>5, MoEnds
    <3>6. CASE \E c \in Pairs : Mo!BulkCase(k, c)
      BY <2>1, <3>6, MoBulks
    <3> QED BY <2>6, <3>1, <3>2, <3>3, <3>4, <3>5, <3>6
  <2> QED BY <2>2, <2>3, <2>4, <2>5, <2>6 DEF Mo!Next
<1> QED BY <1>1, <1>3 DEF MoInv

LEMMA MoRests ==
    ASSUME MoInv, UNCHANGED <<v1, v2, v3, v4, v5, v6, v7, v8, v9, v10, v11, v12>> PROVE MoInv'
<1>1. (MoType' <=> MoType) /\ (MoOneOpen' <=> MoOneOpen) /\ (MoKnown' <=> MoKnown)
  BY DEF MoType, MoOneOpen, MoKnown, MoKnows, MoOpen, MoDecides
<1>2. (MoDecided' <=> MoDecided) /\ (MoDowned' <=> MoDowned)
  BY DEF MoDecided, MoDowned, MoOpen, MoDecides
<1> QED BY <1>1, <1>2 DEF MoInv, MoHolds

LEMMA MoSays == ASSUME MoInv PROVE Mo!DecisionsStandUnlessRaced
<1> SUFFICES ASSUME MoHolds
             PROVE  /\ \A l \in Tabs : Mo!Cardinality(Mo!OpenCases(l)) <= 1
                    /\ \A c \in acted : case[c].status \in Mo!Open => Mo!Deciding(c)
                    /\ noted \subseteq downed
  BY DEF MoInv, Mo!DecisionsStandUnlessRaced
<1>1. ASSUME NEW l \in Tabs PROVE Mo!Cardinality(Mo!OpenCases(l)) <= 1
  <2>1. PICK S : S = Mo!OpenCases(l)
    OBVIOUS
  <2>2. \A c, d \in S : c = d
    BY <2>1 DEF Mo!OpenCases, MoHolds, MoOneOpen, MoOpen
  <2>3. S = {} \/ \E c : S = {c}
    BY <2>2
  <2>4. Cardinality(S) <= 1
    <3>1. CASE S = {}
      BY <3>1, FS_EmptySet
    <3>2. ASSUME NEW c, S = {c} PROVE Cardinality(S) <= 1
      <4>1. Cardinality({c}) = 1
        BY FS_Singleton
      <4> QED BY <3>2, <4>1
    <3> QED BY <2>3, <3>1, <3>2
  <2>5. Mo!Cardinality(S) = Cardinality(S)
    BY DEF Mo!Cardinality, Cardinality
  <2> QED BY <2>1, <2>4, <2>5
<1>2. \A c \in acted : case[c].status \in Mo!Open => Mo!Deciding(c)
  BY MoFinalDomain DEF MoHolds, MoDecided, MoOpen, MoDecides, Mo!Deciding, Mo!Deciders
<1> QED BY <1>1, <1>2 DEF MoHolds, MoDowned
HIDE DEF call, raced, listing, case, report, noted, signal, risk, reports,
         lost, downed, acted

-----------------------------------------------------------------------------
(* Phone verification.                                                     *)
USE DEF call, raced, form, phone, verified, challenge, cooling, proved,
        guesses

PhNumbers == Tabs \cup {"none"}
PhCalls(op, args) ==
    [tab : Desks, op : {op}, arg : args, right : BOOLEAN, step : {"sent", "loaded", "done"},
     phone : PhNumbers, verified : BOOLEAN, attempts : Nat]
PhAsked == PhCalls("save", PhNumbers) \cup PhCalls("request", Pairs \cup {"none"})
           \cup PhCalls("confirm", Pairs \cup {"none"})
PhCallSet == {Ph!None} \cup PhAsked
PhForms == [phone : PhNumbers, verified : BOOLEAN, typed : PhNumbers,
            challenge : Pairs \cup {"none", "closed"}]
PhChallenges == [status : {"new", "live", "expired", "consumed"}, phone : PhNumbers, attempts : Nat]
PhType ==
    /\ phone \in PhNumbers /\ verified \in BOOLEAN /\ cooling \in BOOLEAN
    /\ challenge \in [Pairs -> PhChallenges] /\ form \in [Desks -> PhForms]
    /\ call \in [Requests -> PhCallSet] /\ guesses \in [Pairs -> Nat]

(* A confirmation under way is of a challenge, and one that was loaded     *)
(* had a code left to try.                                                 *)
PhTested ==
    \A k \in Requests : call[k].step \in {"sent", "loaded"} /\ call[k].op = "confirm" =>
        /\ call[k].arg \in Pairs
        /\ call[k].step = "loaded" => /\ call[k].attempts < MaxAttempts
                                      /\ challenge[call[k].arg].status # "new"
(* What a request for a code answers is a challenge.                       *)
PhGiven ==
    \A k \in Requests : call[k].step = "done" /\ call[k].op = "request" => call[k].arg \in Pairs
(* The attempts a challenge counts are the wrong codes tried.              *)
PhCounted ==
    \A c \in Pairs :
        /\ guesses[c] = challenge[c].attempts /\ guesses[c] <= MaxAttempts
        /\ challenge[c].status = "new" => guesses[c] = 0
PhProved ==
    /\ verified => phone \in proved
    /\ \A t \in Desks : form[t].verified => form[t].phone \in proved
PhHolds == PhType /\ PhTested /\ PhGiven /\ PhCounted /\ PhProved
PhInv == raced \in BOOLEAN /\ (raced \/ PhHolds)

LEMMA PhInit == ASSUME Ph!MCInit PROVE PhInv
<1>1. PhType
  BY DEF Ph!MCInit, Ph!Init, PhType, PhNumbers, PhCallSet, PhForms, PhChallenges, Ph!Closed
<1>2. PhTested /\ PhGiven
  BY DEF Ph!MCInit, Ph!Init, PhTested, PhGiven, Ph!None
<1>3. PhCounted
  BY ScreensAssumption DEF Ph!MCInit, Ph!Init, PhCounted
<1>4. PhProved
  BY DEF Ph!MCInit, Ph!Init, PhProved, Ph!Closed
<1> QED BY <1>1, <1>2, <1>3, <1>4 DEF PhInv, PhHolds, Ph!MCInit

(* The fields of a call that is not free.                                  *)
LEMMA PhFields ==
    ASSUME NEW d \in PhCallSet, d.step # "none"
    PROVE  /\ d \in PhAsked /\ d.tab \in Desks /\ d.op \in {"save", "request", "confirm"}
           /\ d.step \in {"sent", "loaded", "done"} /\ d.right \in BOOLEAN
           /\ d.phone \in PhNumbers /\ d.verified \in BOOLEAN /\ d.attempts \in Nat
           /\ d.op = "save" => d.arg \in PhNumbers
BY DEF PhCallSet, PhAsked, PhCalls, Ph!None

(* A step of one call that is not a confirmation counts no code.           *)
LEMMA PhNoCode ==
    ASSUME PhHolds, Ph!MCNext,
           \A k \in Requests : call[k].step = "loaded" /\ call[k].op = "confirm" => call'[k] = call[k]
    PROVE  proved' = proved /\ guesses' = guesses
<1>1. \A k \in Requests : ~Ph!Confirms(k)
  BY DEF Ph!Confirms, Ph!Writes
<1>2. {k \in Requests : Ph!Confirms(k) /\ call[k].right} = {}
  BY <1>1
<1>3. proved' = proved
  BY <1>2 DEF Ph!MCNext
<1>4. ASSUME NEW c \in Pairs PROVE Ph!Cardinality(Ph!Wrong(c)) = 0
  <2>1. Ph!Wrong(c) = {}
    BY <1>1 DEF Ph!Wrong
  <2>2. Ph!Cardinality({}) = Cardinality({})
    BY DEF Ph!Cardinality, Cardinality
  <2> QED BY <2>1, <2>2, FS_EmptySet
<1>5. guesses' = [c \in Pairs |-> guesses[c] + Ph!Cardinality(Ph!Wrong(c))]
  BY DEF Ph!MCNext
<1>6. guesses \in [Pairs -> Nat]
  BY DEF PhHolds, PhType
<1>7. guesses' = guesses
  BY <1>4, <1>5, <1>6
<1> QED BY <1>3, <1>7

(* The calls, when only one of them changes and none is loaded anew.       *)
LEMMA PhOneCall ==
    ASSUME PhHolds, NEW k \in Requests, NEW d \in PhCallSet, call' = [call EXCEPT ![k] = d],
           \/ d.step = "none"
           \/ d.step = "sent" /\ (d.op = "confirm" => d.arg \in Pairs)
           \/ d.step = "done" /\ (d.op = "request" => d.arg \in Pairs),
           \A c \in Pairs : challenge[c].status # "new" => challenge'[c].status # "new"
    PROVE  call' \in [Requests -> PhCallSet] /\ PhTested' /\ PhGiven'
<1>1. call' \in [Requests -> PhCallSet] /\ call'[k] = d
      /\ \A q \in Requests \ {k} : call'[q] = call[q]
  BY DEF PhHolds, PhType
<1>2. PhTested'
  <2> SUFFICES ASSUME NEW q \in Requests, call'[q].step \in {"sent", "loaded"}, call'[q].op = "confirm"
               PROVE  /\ call'[q].arg \in Pairs
                      /\ call'[q].step = "loaded" => /\ call'[q].attempts < MaxAttempts
                                                     /\ challenge'[call'[q].arg].status # "new"
    BY DEF PhTested
  <2>1. CASE q = k
    BY <1>1, <2>1
  <2>2. CASE q # k
    BY <1>1, <2>2 DEF PhHolds, PhTested
  <2> QED BY <2>1, <2>2
<1>3. PhGiven'
  BY <1>1 DEF PhHolds, PhGiven
<1> QED BY <1>1, <1>2, <1>3

(* A step that touches neither the profile nor the codes.                  *)
LEMMA PhCodesRest ==
    ASSUME PhHolds, Ph!MCNext, UNCHANGED <<phone, verified>>, cooling' \in BOOLEAN,
           \A k \in Requests : call[k].step = "loaded" /\ call[k].op = "confirm" => call'[k] = call[k],
           call' \in [Requests -> PhCallSet], PhTested', PhGiven',
           challenge' \in [Pairs -> PhChallenges],
           \A c \in Pairs : /\ challenge'[c].attempts = challenge[c].attempts
                            /\ challenge'[c].status = "new" => challenge[c].status = "new",
           form' \in [Desks -> PhForms],
           \A t \in Desks : form'[t].verified => form'[t].phone \in proved
    PROVE  PhHolds'
<1>1. proved' = proved /\ guesses' = guesses
  BY PhNoCode
<1>2. PhType'
  BY <1>1 DEF PhHolds, PhType
<1>3. PhCounted'
  BY <1>1 DEF PhHolds, PhCounted
<1>4. PhProved'
  BY <1>1 DEF PhHolds, PhProved
<1> QED BY <1>2, <1>3, <1>4 DEF PhHolds

LEMMA PhProfiles ==
    ASSUME PhHolds, NEW chal \in Pairs \cup {"none", "closed"}
    PROVE  /\ Ph!Profile(chal) \in PhForms
           /\ Ph!Profile(chal).verified => Ph!Profile(chal).phone \in proved
<1>1. phone \in PhNumbers /\ verified \in BOOLEAN /\ (verified => phone \in proved)
  BY DEF PhHolds, PhType, PhProved
<1> QED BY <1>1 DEF Ph!Profile, PhForms

(* The pages.                                                              *)
LEMMA PhPages ==
    ASSUME PhHolds, Ph!MCNext, NEW t \in Desks, Ph!ProfilePage(t) \/ Ph!Type(t) PROVE PhHolds'
<1>1. UNCHANGED <<phone, verified, challenge, cooling, call>>
  BY DEF Ph!ProfilePage, Ph!Type
<1>2. PICK f \in PhForms : form' = [form EXCEPT ![t] = f] /\ (f.verified => f.phone \in proved)
  <2>1. CASE Ph!ProfilePage(t)
    BY <2>1, PhProfiles DEF Ph!ProfilePage
  <2>2. CASE Ph!Type(t)
    <3>1. PICK g : g = form[t]
      OBVIOUS
    <3>2. g \in PhForms /\ (g.verified => g.phone \in proved)
      BY <3>1 DEF PhHolds, PhType, PhProved
    <3>3. PICK n \in PhNumbers : form' = [form EXCEPT ![t] = [g EXCEPT !.typed = n]]
      BY <2>2, <3>1 DEF Ph!Type, Ph!Values, PhNumbers, PhHolds, PhType
    <3>4. [g EXCEPT !.typed = n] \in PhForms /\ [g EXCEPT !.typed = n].phone = g.phone
          /\ [g EXCEPT !.typed = n].verified = g.verified
      BY <3>2 DEF PhForms
    <3> QED BY <3>2, <3>3, <3>4
  <2> QED BY <2>1, <2>2
<1>3. form' \in [Desks -> PhForms] /\ \A u \in Desks : form'[u].verified => form'[u].phone \in proved
  BY <1>2 DEF PhHolds, PhType, PhProved
<1>4. PhTested' /\ PhGiven'
  BY <1>1 DEF PhHolds, PhTested, PhGiven
<1> QED BY <1>1, <1>3, <1>4, PhCodesRest DEF PhHolds, PhType

LEMMA PhSends ==
    ASSUME PhHolds, Ph!MCNext, NEW t \in Desks, NEW op, NEW arg, NEW right \in BOOLEAN,
           \/ op = "save" /\ arg \in PhNumbers
           \/ op = "request" /\ arg = "none"
           \/ op = "confirm" /\ arg \in Pairs,
           Ph!Send(t, op, arg, right)
    PROVE  PhHolds'
<1> DEFINE d == [tab |-> t, op |-> op, arg |-> arg, right |-> right, step |-> "sent",
                 phone |-> "none", verified |-> FALSE, attempts |-> 0]
<1>1. PICK k \in Requests : call[k] = Ph!None /\ call' = [call EXCEPT ![k] = d]
  BY DEF Ph!Send
<1>2. UNCHANGED <<phone, verified, challenge, cooling, form>>
  BY DEF Ph!Send
<1>3. d \in PhCallSet /\ d.step = "sent" /\ (d.op = "confirm" => d.arg \in Pairs)
  BY DEF PhCallSet, PhAsked, PhCalls, PhNumbers
<1> HIDE DEF d
<1>4. call' \in [Requests -> PhCallSet] /\ PhTested' /\ PhGiven'
  BY <1>1, <1>2, <1>3, PhOneCall
<1>5. \A q \in Requests : call[q].step = "loaded" => call'[q] = call[q]
  BY <1>1 DEF Ph!None, PhHolds, PhType
<1> QED BY <1>2, <1>4, <1>5, PhCodesRest DEF PhHolds, PhType, PhProved

LEMMA PhButtons ==
    ASSUME PhHolds, Ph!MCNext, NEW t \in Desks, Ph!Submit(t) \/ Ph!PhoneVerificationPanel(t)
    PROVE  PhHolds'
<1>1. form[t].typed \in PhNumbers
  BY DEF PhHolds, PhType, PhForms
<1>2. CASE Ph!Submit(t)
  BY <1>1, <1>2, PhSends DEF Ph!Submit
<1>3. CASE Ph!RequestCode(t)
  BY <1>3, PhSends DEF Ph!RequestCode
<1>4. CASE Ph!ConfirmCode(t)
  BY <1>4, PhSends DEF Ph!ConfirmCode
<1> QED BY <1>2, <1>3, <1>4 DEF Ph!PhoneVerificationPanel

LEMMA PhLoads ==
    ASSUME PhHolds, Ph!MCNext, NEW k \in Requests, Ph!Load(k) PROVE PhHolds'
<1>1. PICK d : d = call[k]
  OBVIOUS
<1>2. d \in PhCallSet /\ d.step = "sent" /\ d \in PhAsked
  BY <1>1, PhFields DEF PhHolds, PhType, Ph!Load
<1>3. UNCHANGED <<phone, verified, cooling, form>>
  BY DEF Ph!Load
<1>4. d.op = "confirm" => d.arg \in Pairs
  BY <1>1, <1>2 DEF PhHolds, PhTested
<1>5. /\ challenge' \in [Pairs -> PhChallenges]
      /\ \A c \in Pairs : /\ challenge'[c].attempts = challenge[c].attempts
                          /\ challenge'[c].status = "new" <=> challenge[c].status = "new"
                          /\ challenge[c].status = "live" => challenge'[c] = challenge[c]
  <2>1. CASE d.op = "confirm" /\ challenge[d.arg].status = "expired"
    <3>1. PICK c \in Pairs : c = d.arg
      BY <1>4, <2>1
    <3>2. PICK g : g = challenge[c]
      OBVIOUS
    <3>3. g \in PhChallenges /\ g.status = "expired"
      BY <2>1, <3>1, <3>2 DEF PhHolds, PhType
    <3> DEFINE used == [g EXCEPT !.status = "consumed"]
    <3>4. challenge' = [challenge EXCEPT ![c] = used]
      BY <1>1, <2>1, <3>1, <3>2 DEF Ph!Load, PhHolds, PhType
    <3>5. used \in PhChallenges /\ used.status = "consumed" /\ used.attempts = g.attempts
      BY <3>3 DEF PhChallenges
    <3> HIDE DEF used
    <3>6. challenge' \in [Pairs -> PhChallenges] /\ challenge'[c] = used
          /\ \A e \in Pairs \ {c} : challenge'[e] = challenge[e]
      BY <3>4, <3>5 DEF PhHolds, PhType
    <3> QED BY <3>2, <3>3, <3>5, <3>6
  <2>2. CASE ~(d.op = "confirm" /\ challenge[d.arg].status = "expired")
    BY <1>1, <2>2 DEF Ph!Load, PhHolds, PhType
  <2> QED BY <2>1, <2>2
<1>6. call' \in [Requests -> PhCallSet] /\ PhTested' /\ PhGiven'
      /\ \A q \in Requests \ {k} : call'[q] = call[q]
  <2>1. CASE Ph!Tests(k)
    <3>1. PICK n \in Nat : n = IF d.op = "confirm" THEN challenge[d.arg].attempts ELSE 0
      BY <1>4 DEF PhHolds, PhType, PhChallenges
    <3>2. PICK p \in PhNumbers, v \in BOOLEAN : p = phone /\ v = verified
      BY DEF PhHolds, PhType
    <3> DEFINE e == [d EXCEPT !.step = "loaded", !.phone = p, !.verified = v, !.attempts = n]
    <3>3. call' = [call EXCEPT ![k] = e]
      BY <1>1, <2>1, <3>1, <3>2 DEF Ph!Load, PhHolds, PhType
    <3>4. e \in PhCallSet /\ e.op = d.op /\ e.arg = d.arg /\ e.attempts = n /\ e.step = "loaded"
      <4>1. ASSUME NEW op, NEW args, d \in PhCalls(op, args) PROVE
                 e \in PhCalls(op, args) /\ e.op = d.op /\ e.arg = d.arg /\ e.attempts = n /\ e.step = "loaded"
        BY <4>1 DEF PhCalls
      <4> HIDE DEF e
      <4> QED BY <1>2, <4>1 DEF PhCallSet, PhAsked
    <3> HIDE DEF e
    <3>5. d.op = "confirm" => challenge[d.arg].status = "live" /\ challenge[d.arg].attempts < MaxAttempts
      BY <1>1, <2>1 DEF Ph!Tests
    <3>6. call' \in [Requests -> PhCallSet] /\ call'[k] = e
          /\ \A q \in Requests \ {k} : call'[q] = call[q]
      BY <3>3, <3>4 DEF PhHolds, PhType
    <3>7. PhTested'
      <4> SUFFICES ASSUME NEW q \in Requests, call'[q].step \in {"sent", "loaded"}, call'[q].op = "confirm"
                   PROVE  /\ call'[q].arg \in Pairs
                          /\ call'[q].step = "loaded" => /\ call'[q].attempts < MaxAttempts
                                                         /\ challenge'[call'[q].arg].status # "new"
        BY DEF PhTested
      <4>1. CASE q = k
        <5>1. PICK c \in Pairs : c = d.arg /\ challenge[c].status = "live" /\ n = challenge[c].attempts
                                 /\ n < MaxAttempts
          BY <1>4, <3>1, <3>4, <3>5, <3>6, <4>1
        <5>2. challenge'[c].status # "new"
          BY <1>5, <5>1
        <5> QED BY <3>4, <3>6, <4>1, <5>1, <5>2
      <4>2. CASE q # k
        <5>1. call'[q] = call[q]
          BY <3>6, <4>2
        <5>2. /\ call[q].arg \in Pairs
              /\ call[q].step = "loaded" => /\ call[q].attempts < MaxAttempts
                                            /\ challenge[call[q].arg].status # "new"
          BY <5>1 DEF PhHolds, PhTested
        <5> QED BY <1>5, <5>1, <5>2
      <4> QED BY <4>1, <4>2
    <3>8. PhGiven'
      BY <3>4, <3>6 DEF PhHolds, PhGiven
    <3> QED BY <3>6, <3>7, <3>8
  <2>2. CASE ~Ph!Tests(k)
    <3>1. call' = [call EXCEPT ![k] = Ph!None]
      BY <2>2 DEF Ph!Load
    <3>2. Ph!None \in PhCallSet /\ Ph!None.step = "none"
      BY DEF PhCallSet, Ph!None
    <3>3. \A c \in Pairs : challenge[c].status # "new" => challenge'[c].status # "new"
      BY <1>5
    <3> QED BY <3>1, <3>2, <3>3, PhOneCall DEF PhHolds, PhType
  <2> QED BY <2>1, <2>2
<1>7. \A q \in Requests : call[q].step = "loaded" => call'[q] = call[q]
  BY <1>1, <1>2, <1>6
<1> QED BY <1>3, <1>5, <1>6, <1>7, PhCodesRest DEF PhHolds, PhType, PhProved

(* A handler that is done, and the values it read if it was in time.       *)
LEMMA PhDone ==
    ASSUME PhHolds, Ph!MCNext, NEW k \in Requests, NEW op, Ph!At(k, op), call'[k] # call[k],
           raced' = FALSE, op \in {"save", "confirm"}
    PROVE  /\ call[k].phone = phone /\ call[k].verified = verified
           /\ op = "confirm" => call[k].attempts = challenge[call[k].arg].attempts
<1>1. ~Ph!Stale(k)
  BY DEF Ph!At, Ph!MCNext, Ph!Writes
<1> QED BY <1>1 DEF Ph!Stale, Ph!At

LEMMA PhAnswered ==
    ASSUME PhHolds, NEW k \in Requests, NEW op, Ph!At(k, op), NEW chal \in Pairs \cup {"none"},
           Ph!Answered(k, chal), op = "request" => chal \in Pairs, op = "save" => chal = "none",
           \A c \in Pairs : challenge[c].status # "new" => challenge'[c].status # "new"
    PROVE  /\ call' \in [Requests -> PhCallSet] /\ PhTested' /\ PhGiven'
           /\ call'[k] # call[k]
           /\ \A q \in Requests \ {k} : call'[q] = call[q]
<1>1. PICK d : d = call[k]
  OBVIOUS
<1>2. d \in PhAsked /\ d.step = "loaded" /\ d.op = op
  BY <1>1, PhFields DEF PhHolds, PhType, Ph!At
<1> DEFINE e == [d EXCEPT !.step = "done", !.arg = chal, !.phone = "none",
                          !.verified = FALSE, !.attempts = 0]
<1>3. call' = [call EXCEPT ![k] = e]
  BY <1>1 DEF Ph!Answered, PhHolds, PhType
<1>4. e \in PhCallSet /\ e.step = "done" /\ e.op = op /\ e.arg = chal
  <2>1. CASE d \in PhCalls("save", PhNumbers)
    <3>1. op = "save" /\ chal \in PhNumbers
      BY <1>2, <2>1 DEF PhCalls, PhNumbers
    <3>2. e \in PhCalls("save", PhNumbers) /\ e.step = "done" /\ e.op = op /\ e.arg = chal
      BY <1>2, <2>1, <3>1 DEF PhCalls, PhNumbers
    <3> QED BY <3>2 DEF PhCallSet, PhAsked
  <2>2. CASE d \in PhCalls("request", Pairs \cup {"none"})
    <3>1. e \in PhCalls("request", Pairs \cup {"none"}) /\ e.step = "done" /\ e.op = op /\ e.arg = chal
      BY <1>2, <2>2 DEF PhCalls, PhNumbers
    <3> QED BY <3>1 DEF PhCallSet, PhAsked
  <2>3. CASE d \in PhCalls("confirm", Pairs \cup {"none"})
    <3>1. e \in PhCalls("confirm", Pairs \cup {"none"}) /\ e.step = "done" /\ e.op = op /\ e.arg = chal
      BY <1>2, <2>3 DEF PhCalls, PhNumbers
    <3> QED BY <3>1 DEF PhCallSet, PhAsked
  <2> QED BY <1>2, <2>1, <2>2, <2>3 DEF PhAsked
<1> HIDE DEF e
<1>5. call' \in [Requests -> PhCallSet] /\ PhTested' /\ PhGiven'
  BY <1>3, <1>4, PhOneCall
<1>6. call'[k] = e /\ \A q \in Requests \ {k} : call'[q] = call[q]
  BY <1>3 DEF PhHolds, PhType
<1> QED BY <1>1, <1>2, <1>4, <1>5, <1>6

(* A saved number that differs from the one read is no longer verified.    *)
LEMMA PhSaves ==
    ASSUME PhHolds, Ph!MCNext, raced' = FALSE, NEW k \in Requests, Ph!UpdateProfile(k)
    PROVE  PhHolds'
<1>1. Ph!At(k, "save") /\ Ph!Answered(k, "none") /\ UNCHANGED <<challenge, cooling, form>>
  BY DEF Ph!UpdateProfile
<1>2. /\ call' \in [Requests -> PhCallSet] /\ PhTested' /\ PhGiven' /\ call'[k] # call[k]
      /\ \A q \in Requests \ {k} : call'[q] = call[q]
  BY <1>1, PhAnswered
<1>3. call[k].phone = phone /\ call[k].verified = verified
  BY <1>1, <1>2, PhDone
<1>4. PICK n : n = call[k].arg
  OBVIOUS
<1>5. n \in PhNumbers
  BY <1>1, <1>4, PhFields DEF Ph!At, PhHolds, PhType
<1>6. phone' = n /\ verified' = (verified /\ ~(n # phone /\ verified))
  BY <1>3, <1>4 DEF Ph!UpdateProfile
<1>7. proved' = proved /\ guesses' = guesses
  BY <1>1, <1>2, PhNoCode DEF Ph!At
<1>8. verified' \in BOOLEAN /\ (verified' => verified /\ phone' = phone)
  BY <1>6
<1>9. PhType'
  BY <1>1, <1>2, <1>5, <1>6, <1>7, <1>8 DEF PhHolds, PhType
<1>10. PhCounted'
  BY <1>1, <1>7 DEF PhHolds, PhCounted
<1>11. PhProved'
  BY <1>1, <1>7, <1>8 DEF PhHolds, PhProved
<1> QED BY <1>2, <1>9, <1>10, <1>11 DEF PhHolds

(* A new code uses up the live challenges.                                 *)
LEMMA PhNewCode ==
    ASSUME PhHolds, Ph!MCNext, NEW k \in Requests, Ph!RequestChallenge(k)
    PROVE  PhHolds'
<1>1. PICK d : d = call[k]
  OBVIOUS
<1>2. PICK p : p = d.phone
  OBVIOUS
<1>3. p \in PhNumbers
  BY <1>1, <1>2, PhFields DEF Ph!RequestChallenge, Ph!At, PhHolds, PhType
<1> DEFINE fresh == [status |-> "live", phone |-> p, attempts |-> 0]
<1>4. PICK c \in Pairs :
         /\ challenge[c].status = "new" /\ Ph!Answered(k, c)
         /\ challenge' = [e \in Pairs |-> IF e = c THEN fresh
                ELSE IF e \in Ph!Live THEN [challenge[e] EXCEPT !.status = "consumed"]
                ELSE challenge[e]]
  BY <1>1, <1>2 DEF Ph!RequestChallenge
<1>5. fresh \in PhChallenges /\ fresh.status = "live" /\ fresh.attempts = 0
  BY <1>3 DEF PhChallenges
<1> HIDE DEF fresh
<1>6. ASSUME NEW e \in Pairs
      PROVE  /\ challenge'[e] \in PhChallenges
             /\ challenge'[e].attempts = challenge[e].attempts
             /\ challenge'[e].status = "new" => challenge[e].status = "new"
  <2>1. PICK g : g = challenge[e]
    OBVIOUS
  <2>2. g \in PhChallenges
    BY <2>1 DEF PhHolds, PhType
  <2>3. CASE e = c
    BY <1>4, <1>5, <2>1, <2>3 DEF PhHolds, PhCounted
  <2>4. CASE e # c
    <3>1. [g EXCEPT !.status = "consumed"] \in PhChallenges
          /\ [g EXCEPT !.status = "consumed"].attempts = g.attempts
          /\ [g EXCEPT !.status = "consumed"].status = "consumed"
      BY <2>2 DEF PhChallenges
    <3>2. challenge'[e] = [g EXCEPT !.status = "consumed"] \/ challenge'[e] = g
      BY <1>4, <2>1, <2>4
    <3> QED BY <2>1, <2>2, <3>1, <3>2
  <2> QED BY <2>3, <2>4
<1>7. challenge' \in [Pairs -> PhChallenges]
  BY <1>4, <1>6
<1>8. Ph!At(k, "request") /\ cooling' = TRUE /\ UNCHANGED <<phone, verified, form>>
  BY DEF Ph!RequestChallenge
<1>9. \A e \in Pairs : challenge[e].status # "new" => challenge'[e].status # "new"
  BY <1>6
<1>10. /\ call' \in [Requests -> PhCallSet] /\ PhTested' /\ PhGiven'
       /\ \A q \in Requests \ {k} : call'[q] = call[q]
  BY <1>4, <1>8, <1>9, PhAnswered
<1>11. \A q \in Requests : call[q].step = "loaded" /\ call[q].op = "confirm" => call'[q] = call[q]
  BY <1>8, <1>10 DEF Ph!At
<1> QED BY <1>6, <1>7, <1>8, <1>10, <1>11, PhCodesRest DEF PhHolds, PhType, PhProved

(* A confirmation, of a right code or a wrong one, on what it read.        *)
LEMMA PhConfirms ==
    ASSUME PhHolds, Ph!MCNext, raced' = FALSE, NEW k \in Requests, Ph!Confirm(k)
    PROVE  PhHolds'
<1>1. PICK d : d = call[k]
  OBVIOUS
<1>2. PICK c : c = d.arg
  OBVIOUS
<1>3. d \in PhCallSet /\ d.step = "loaded" /\ d.op = "confirm" /\ d.right \in BOOLEAN /\ d.attempts \in Nat
      /\ Ph!At(k, "confirm")
  BY <1>1, PhFields DEF Ph!Confirm, Ph!At, PhHolds, PhType
<1>4. c \in Pairs /\ d.attempts < MaxAttempts /\ challenge[c].status # "new"
  BY <1>1, <1>2, <1>3 DEF PhHolds, PhTested
<1>5. PICK g : g = challenge[c]
  OBVIOUS
<1>6. g \in PhChallenges
  BY <1>4, <1>5 DEF PhHolds, PhType
<1>7. UNCHANGED <<phone, cooling, form>>
  BY DEF Ph!Confirm
<1>8. \/ call' = [call EXCEPT ![k] = Ph!None]
      \/ Ph!Answered(k, "none")
  BY DEF Ph!Confirm
<1>9. call'[k] # call[k] /\ \A q \in Requests \ {k} : call'[q] = call[q]
  <2>1. CASE call' = [call EXCEPT ![k] = Ph!None]
    BY <1>1, <1>3, <2>1 DEF Ph!None, PhHolds, PhType
  <2>2. CASE Ph!Answered(k, "none")
    <3>1. PICK e : e = [d EXCEPT !.step = "done", !.arg = "none", !.phone = "none",
                                 !.verified = FALSE, !.attempts = 0]
      OBVIOUS
    <3>2. call' = [call EXCEPT ![k] = e]
      BY <1>1, <2>2, <3>1 DEF Ph!Answered, PhHolds, PhType
    <3>3. d \in PhAsked
      BY <1>3, PhFields
    <3>4. e.step = "done"
      BY <3>1, <3>3 DEF PhAsked, PhCalls
    <3> QED BY <1>1, <1>3, <3>2, <3>4 DEF PhHolds, PhType
  <2> QED BY <1>8, <2>1, <2>2
<1>10. d.phone = phone /\ d.verified = verified /\ d.attempts = g.attempts
  BY <1>1, <1>2, <1>3, <1>5, <1>9, PhDone
<1>11. \A q \in Requests : Ph!Confirms(q) <=> q = k
  BY <1>1, <1>3, <1>9 DEF Ph!Confirms, Ph!Writes
<1>12. guesses' = [e \in Pairs |-> guesses[e] + Ph!Cardinality(Ph!Wrong(e))]
  BY DEF Ph!MCNext
<1>13. Ph!Cardinality({}) = 0 /\ Ph!Cardinality({k}) = 1
  <2>1. \A S : Ph!Cardinality(S) = Cardinality(S)
    BY DEF Ph!Cardinality, Cardinality
  <2> QED BY <2>1, FS_EmptySet, FS_Singleton
<1>14. \A e \in Pairs : Ph!Wrong(e) = IF e = c /\ ~d.right THEN {k} ELSE {}
  BY <1>1, <1>2, <1>11 DEF Ph!Wrong
<1>15. /\ guesses' \in [Pairs -> Nat]
       /\ \A e \in Pairs : guesses'[e] = IF e = c /\ ~d.right THEN guesses[e] + 1 ELSE guesses[e]
  <2>1. guesses \in [Pairs -> Nat]
    BY DEF PhHolds, PhType
  <2>2. ASSUME NEW e \in Pairs
        PROVE  Ph!Cardinality(Ph!Wrong(e)) = IF e = c /\ ~d.right THEN 1 ELSE 0
    <3>1. CASE e = c /\ ~d.right
      BY <1>13, <1>14, <3>1
    <3>2. CASE ~(e = c /\ ~d.right)
      BY <1>13, <1>14, <3>2
    <3> QED BY <3>1, <3>2
  <2>3. ASSUME NEW e \in Pairs
        PROVE  /\ guesses'[e] = IF e = c /\ ~d.right THEN guesses[e] + 1 ELSE guesses[e]
               /\ guesses'[e] \in Nat
    <3>1. guesses'[e] = guesses[e] + Ph!Cardinality(Ph!Wrong(e))
      BY <1>12
    <3>2. CASE e = c /\ ~d.right
      BY <2>1, <2>2, <3>1, <3>2
    <3>3. CASE ~(e = c /\ ~d.right)
      BY <2>1, <2>2, <3>1, <3>3
    <3> QED BY <3>2, <3>3
  <2> QED BY <1>12, <2>3
<1>16. CASE ~d.right
  <2> DEFINE new == [g EXCEPT !.attempts = d.attempts + 1]
  <2>1. challenge' = [challenge EXCEPT ![c] = new] /\ call' = [call EXCEPT ![k] = Ph!None]
        /\ verified' = verified
    BY <1>1, <1>2, <1>4, <1>5, <1>16 DEF Ph!Confirm, PhHolds, PhType
  <2>2. new \in PhChallenges /\ new.status = g.status /\ new.attempts = d.attempts + 1
    BY <1>3, <1>6 DEF PhChallenges
  <2> HIDE DEF new
  <2>3. challenge' \in [Pairs -> PhChallenges] /\ challenge'[c] = new
        /\ \A e \in Pairs \ {c} : challenge'[e] = challenge[e]
    BY <1>4, <2>1, <2>2 DEF PhHolds, PhType
  <2>4. call' \in [Requests -> PhCallSet] /\ PhTested' /\ PhGiven'
    <3>1. Ph!None \in PhCallSet /\ Ph!None.step = "none"
      BY DEF PhCallSet, Ph!None
    <3>2. \A e \in Pairs : challenge[e].status # "new" => challenge'[e].status # "new"
      BY <1>5, <2>2, <2>3
    <3> QED BY <2>1, <3>1, <3>2, PhOneCall
  <2>5. {q \in Requests : Ph!Confirms(q) /\ call[q].right} = {}
    BY <1>1, <1>11, <1>16
  <2>6. proved' = proved
    BY <2>5 DEF Ph!MCNext
  <2>7. PhCounted'
    <3> SUFFICES ASSUME NEW e \in Pairs
                 PROVE  /\ guesses'[e] = challenge'[e].attempts /\ guesses'[e] <= MaxAttempts
                        /\ challenge'[e].status = "new" => guesses'[e] = 0
      BY DEF PhCounted
    <3>1. CASE e = c
      <4>1. guesses[c] = g.attempts
        BY <1>4, <1>5 DEF PhHolds, PhCounted
      <4>2. guesses'[c] = d.attempts + 1
        BY <1>4, <1>10, <1>15, <1>16, <4>1
      <4> QED BY <1>3, <1>4, <1>5, <2>2, <2>3, <3>1, <4>2, ScreensAssumption
    <3>2. CASE e # c
      BY <1>15, <2>3, <3>2 DEF PhHolds, PhCounted
    <3> QED BY <3>1, <3>2
  <2>8. PhType'
    BY <1>7, <1>15, <2>1, <2>3, <2>4 DEF PhHolds, PhType
  <2>9. PhProved'
    BY <1>7, <2>1, <2>6 DEF PhHolds, PhProved
  <2> QED BY <2>4, <2>7, <2>8, <2>9 DEF PhHolds
<1>17. CASE d.right
  <2> DEFINE new == [g EXCEPT !.status = "consumed"]
  <2>1. challenge' = [challenge EXCEPT ![c] = new]
    BY <1>1, <1>2, <1>4, <1>5, <1>17 DEF Ph!Confirm, PhHolds, PhType
  <2>2. new \in PhChallenges /\ new.status = "consumed" /\ new.attempts = g.attempts
    BY <1>6 DEF PhChallenges
  <2> HIDE DEF new
  <2>3. challenge' \in [Pairs -> PhChallenges] /\ challenge'[c] = new
        /\ \A e \in Pairs \ {c} : challenge'[e] = challenge[e]
    BY <1>4, <2>1, <2>2 DEF PhHolds, PhType
  <2>4. call' \in [Requests -> PhCallSet] /\ PhTested' /\ PhGiven'
    <3>1. Ph!None \in PhCallSet /\ Ph!None.step = "none"
      BY DEF PhCallSet, Ph!None
    <3>2. \A e \in Pairs : challenge[e].status # "new" => challenge'[e].status # "new"
      BY <2>2, <2>3
    <3>3. CASE call' = [call EXCEPT ![k] = Ph!None]
      BY <3>1, <3>2, <3>3, PhOneCall
    <3>4. CASE Ph!Answered(k, "none")
      BY <1>3, <3>2, <3>4, PhAnswered
    <3> QED BY <1>8, <3>3, <3>4
  <2>5. {q \in Requests : Ph!Confirms(q) /\ call[q].right} = {k}
    BY <1>1, <1>11, <1>17
  <2>6. proved' = proved \cup {challenge[call[q].arg].phone : q \in {k}}
    BY <2>5 DEF Ph!MCNext
  <2>7. proved' = proved \cup {g.phone}
    BY <1>1, <1>2, <1>5, <2>6
  <2>8. verified' = verified \/ (verified' = TRUE /\ phone = g.phone)
    BY <1>1, <1>2, <1>5, <1>10, <1>17 DEF Ph!Confirm
  <2>9. PhCounted'
    <3> SUFFICES ASSUME NEW e \in Pairs
                 PROVE  /\ guesses'[e] = challenge'[e].attempts /\ guesses'[e] <= MaxAttempts
                        /\ challenge'[e].status = "new" => guesses'[e] = 0
      BY DEF PhCounted
    <3>1. guesses'[e] = guesses[e]
      BY <1>15, <1>17
    <3>2. /\ guesses[e] = challenge[e].attempts /\ guesses[e] <= MaxAttempts
          /\ challenge[e].status = "new" => guesses[e] = 0
      BY DEF PhHolds, PhCounted
    <3>3. CASE e = c
      BY <1>5, <2>2, <2>3, <3>1, <3>2, <3>3
    <3>4. CASE e # c
      BY <2>3, <3>1, <3>2, <3>4
    <3> QED BY <3>3, <3>4
  <2>10. PhType'
    BY <1>7, <1>15, <2>3, <2>4, <2>8 DEF PhHolds, PhType
  <2>11. PhProved'
    BY <1>7, <2>7, <2>8 DEF PhHolds, PhProved
  <2> QED BY <2>4, <2>9, <2>10, <2>11 DEF PhHolds
<1> QED BY <1>3, <1>16, <1>17

LEMMA PhAnswers ==
    ASSUME PhHolds, Ph!MCNext, NEW k \in Requests, Ph!Answer(k) \/ Ph!Refuse(k) PROVE PhHolds'
<1>1. PICK d : d = call[k]
  OBVIOUS
<1>2. d \in PhCallSet /\ d.step \in {"sent", "done"}
  BY <1>1 DEF Ph!Answer, Ph!Refuse, PhHolds, PhType
<1>3. UNCHANGED <<phone, verified, challenge, cooling>> /\ call' = [call EXCEPT ![k] = Ph!None]
  BY DEF Ph!Answer, Ph!Refuse
<1>4. Ph!None \in PhCallSet /\ Ph!None.step = "none"
  BY DEF PhCallSet, Ph!None
<1>5. call' \in [Requests -> PhCallSet] /\ PhTested' /\ PhGiven'
  BY <1>3, <1>4, PhOneCall
<1>6. \A q \in Requests : call[q].step = "loaded" => call'[q] = call[q]
  BY <1>1, <1>2, <1>3 DEF PhHolds, PhType
<1>7. \/ form' = form
      \/ \E t \in Desks, f \in PhForms : form' = [form EXCEPT ![t] = f] /\ (f.verified => f.phone \in proved)
  <2>1. CASE Ph!Refuse(k)
    BY <2>1 DEF Ph!Refuse
  <2>2. CASE Ph!Answer(k)
    <3>1. PICK t \in Desks : t = d.tab
      BY <1>2, PhFields
    <3>2. PICK g : g = form[t]
      OBVIOUS
    <3>3. g \in PhForms /\ (g.verified => g.phone \in proved) /\ g.challenge \in Pairs \cup {"none", "closed"}
      BY <3>2 DEF PhHolds, PhType, PhProved, PhForms
    <3>4. d.op \in {"save", "request", "confirm"} /\ d.step = "done"
      BY <1>1, <1>2, <2>2, PhFields DEF Ph!Answer
    <3>5. CASE d.op = "save"
      BY <1>1, <2>2, <3>1, <3>2, <3>3, <3>5, PhProfiles DEF Ph!Answer, PhHolds, PhType
    <3>6. CASE d.op = "confirm"
      BY <1>1, <2>2, <3>1, <3>6, PhProfiles DEF Ph!Answer, PhHolds, PhType
    <3>7. CASE d.op = "request"
      <4>1. PICK c \in Pairs : c = d.arg
        BY <1>1, <3>4, <3>7 DEF PhHolds, PhGiven
      <4> DEFINE f == [g EXCEPT !.challenge = c]
      <4>2. f \in PhForms /\ f.phone = g.phone /\ f.verified = g.verified
        BY <3>3 DEF PhForms
      <4>3. form' = [form EXCEPT ![t] = f]
        BY <1>1, <2>2, <3>1, <3>2, <3>7, <4>1 DEF Ph!Answer, PhHolds, PhType
      <4> HIDE DEF f
      <4> QED BY <3>3, <4>2, <4>3
    <3> QED BY <3>4, <3>5, <3>6, <3>7
  <2> QED BY <2>1, <2>2
<1>8. form' \in [Desks -> PhForms] /\ \A t \in Desks : form'[t].verified => form'[t].phone \in proved
  <2>1. CASE form' = form
    BY <2>1 DEF PhHolds, PhType, PhProved
  <2>2. ASSUME NEW t \in Desks, NEW f \in PhForms, form' = [form EXCEPT ![t] = f],
               f.verified => f.phone \in proved
        PROVE  form' \in [Desks -> PhForms] /\ \A u \in Desks : form'[u].verified => form'[u].phone \in proved
    BY <2>2 DEF PhHolds, PhType, PhProved
  <2> QED BY <1>7, <2>1, <2>2
<1> QED BY <1>3, <1>5, <1>6, <1>8, PhCodesRest DEF PhHolds, PhType

LEMMA PhTime ==
    ASSUME PhHolds, Ph!MCNext, Ph!Time PROVE PhHolds'
<1>1. UNCHANGED <<phone, verified, form, call>> /\ cooling' \in BOOLEAN
  BY DEF Ph!Time, PhHolds, PhType
<1>2. /\ challenge' \in [Pairs -> PhChallenges]
      /\ \A e \in Pairs : /\ challenge'[e].attempts = challenge[e].attempts
                          /\ challenge'[e].status = "new" <=> challenge[e].status = "new"
  <2>1. CASE challenge' = challenge
    BY <2>1 DEF PhHolds, PhType
  <2>2. ASSUME NEW c \in Pairs, challenge[c].status = "live",
               challenge' = [challenge EXCEPT ![c].status = "expired"]
        PROVE  /\ challenge' \in [Pairs -> PhChallenges]
               /\ \A e \in Pairs : /\ challenge'[e].attempts = challenge[e].attempts
                                   /\ challenge'[e].status = "new" <=> challenge[e].status = "new"
    <3>1. PICK g : g = challenge[c]
      OBVIOUS
    <3>2. g \in PhChallenges /\ g.status = "live"
      BY <2>2, <3>1 DEF PhHolds, PhType
    <3> DEFINE old == [g EXCEPT !.status = "expired"]
    <3>3. old \in PhChallenges /\ old.status = "expired" /\ old.attempts = g.attempts
      BY <3>2 DEF PhChallenges
    <3>4. challenge' = [challenge EXCEPT ![c] = old]
      BY <2>2, <3>1 DEF PhHolds, PhType
    <3> HIDE DEF old
    <3>5. challenge' \in [Pairs -> PhChallenges] /\ challenge'[c] = old
          /\ \A e \in Pairs \ {c} : challenge'[e] = challenge[e]
      BY <3>3, <3>4 DEF PhHolds, PhType
    <3> QED BY <3>1, <3>2, <3>3, <3>5
  <2> QED BY <2>1, <2>2 DEF Ph!Time
<1>3. PhTested' /\ PhGiven'
  <2>1. PhGiven'
    BY <1>1 DEF PhHolds, PhGiven
  <2>2. ASSUME NEW q \in Requests, call[q].step \in {"sent", "loaded"}, call[q].op = "confirm"
        PROVE  /\ call[q].arg \in Pairs
               /\ call[q].step = "loaded" => /\ call[q].attempts < MaxAttempts
                                             /\ challenge'[call[q].arg].status # "new"
    <3>1. PICK c : c = call[q].arg
      OBVIOUS
    <3>2. c \in Pairs /\ (call[q].step = "loaded" => call[q].attempts < MaxAttempts /\ challenge[c].status # "new")
      BY <2>2, <3>1 DEF PhHolds, PhTested
    <3>3. challenge'[c].status # "new" \/ challenge[c].status = "new"
      BY <1>2, <3>2
    <3> QED BY <3>1, <3>2, <3>3
  <2>3. PhTested'
    BY <1>1, <2>2 DEF PhTested
  <2> QED BY <2>1, <2>3
<1>4. /\ call' \in [Requests -> PhCallSet] /\ form' \in [Desks -> PhForms]
      /\ \A t \in Desks : form'[t].verified => form'[t].phone \in proved
  BY <1>1 DEF PhHolds, PhType, PhProved
<1>5. \A e \in Pairs : /\ challenge'[e].attempts = challenge[e].attempts
                       /\ challenge'[e].status = "new" => challenge[e].status = "new"
  BY <1>2
<1>6. \A k \in Requests : call'[k] = call[k]
  BY <1>1
<1> QED BY <1>1, <1>2, <1>3, <1>4, <1>5, <1>6, PhCodesRest

LEMMA PhNext == ASSUME PhInv, Ph!MCNext PROVE PhInv'
<1>1. raced' \in BOOLEAN
  BY DEF PhInv, Ph!MCNext
<1>2. CASE raced'
  BY <1>1, <1>2 DEF PhInv
<1>3. CASE ~raced'
  <2>1. PhHolds /\ raced' = FALSE
    BY <1>1, <1>3 DEF PhInv, Ph!MCNext
  <2>2. PhHolds'
    BY <2>1, PhPages, PhButtons, PhLoads, PhSaves, PhNewCode, PhConfirms, PhAnswers, PhTime
       DEF Ph!MCNext, Ph!Next, Ph!ProfileForm
  <2> QED BY <1>1, <2>2 DEF PhInv
<1> QED BY <1>2, <1>3

LEMMA PhRests == ASSUME PhInv, UNCHANGED <<v1, v2, v3, v4, v5, v6, v7, v8, v9>> PROVE PhInv'
BY DEF PhInv, PhHolds, PhType, PhTested, PhGiven, PhCounted, PhProved

LEMMA PhSays == PhInv => Ph!VerifiedUnlessRaced
BY DEF PhInv, PhHolds, PhCounted, PhProved, Ph!VerifiedUnlessRaced
HIDE DEF call, raced, form, phone, verified, challenge, cooling, proved,
         guesses

-----------------------------------------------------------------------------
(* The screen of a listing's photographs.                                  *)
USE DEF call, crossed, upload, shown, stored, cover, failed, deleted

GaRow == [id : Images, order : Nat, cover : BOOLEAN]
GaList(s) == s \in Seq(GaRow) /\ \A i, j \in DOMAIN s : s[i].id = s[j].id => i = j
GaShows(s) == GaList(s) /\ Ga!Ids(s) = Ga!Range(stored) /\ (~deleted => s = Ga!Rows)
GaStored ==
    /\ stored \in Seq(Images) /\ \A i, j \in DOMAIN stored : stored[i] = stored[j] => i = j
    /\ stored # <<>> => cover \in Ga!Range(stored)
(* A photograph is stored that the screen does not show yet.               *)
GaAdds(s, x) ==
    /\ GaList(s) /\ x \in GaRow /\ x.id \notin Ga!Ids(s) /\ Ga!Ids(s) \cup {x.id} = Ga!Range(stored)
    /\ ~deleted => Append(s, x) = Ga!Rows
GaFree == \A k \in Requests : call[k] = Ga!None
GaResting == upload = Ga!Idle /\ GaFree /\ GaShows(shown)
GaSending ==
    /\ \E l : upload = [left |-> l, next |-> shown, step |-> "sent", got |-> <<>>]
    /\ GaFree /\ GaShows(shown)
GaAdded ==
    /\ \E l, x : /\ upload = [left |-> l, next |-> shown, step |-> "added", got |-> <<x>>]
                 /\ GaAdds(shown, x)
    /\ GaFree
GaFields == {"op", "id", "was", "ids", "step", "got"}
(* What the screen and the server make of a call, before and after its     *)
(* handler ran.                                                            *)
GaSent(c) ==
    /\ c.step = "sent"
    /\ c.op = "move" => /\ GaList(shown) /\ Ga!Ids(shown) = Ga!Range(stored)
                        /\ c.ids = [i \in DOMAIN shown |-> shown[i].id]
    /\ c.op # "move" => c.was = shown /\ GaShows(shown)
    /\ c.op = "delete" => c.id \in Ga!Ids(shown)
GaDone(c) ==
    /\ c.step = "done" /\ GaShows(Ga!Answered(c))
    /\ c.op \in {"move", "save"} => c.got = Ga!Rows
GaCalling(k) ==
    /\ upload = Ga!Idle /\ \A q \in Requests \ {k} : call[q] = Ga!None
    /\ DOMAIN call[k] = GaFields /\ call[k].op \in {"delete", "cover", "move", "save"}
    /\ GaSent(call[k]) \/ GaDone(call[k])
GaHolds ==
    /\ GaStored /\ call = [k \in Requests |-> call[k]] /\ deleted \in BOOLEAN
    /\ GaResting \/ GaSending \/ GaAdded \/ \E k \in Requests : GaCalling(k)
GaInv == crossed \in BOOLEAN /\ failed \in BOOLEAN /\ (crossed \/ failed \/ GaHolds)

LEMMA GaInit == ASSUME Ga!MCInit PROVE GaInv
<1>1. stored = <<>> /\ shown = <<>> /\ deleted = FALSE /\ upload = Ga!Idle
  BY DEF Ga!MCInit, Ga!Init
<1>2. GaStored
  BY <1>1 DEF GaStored
<1>3. GaFree /\ call = [k \in Requests |-> call[k]]
  BY DEF Ga!MCInit, Ga!Init, GaFree
<1>4. Ga!Ids(shown) = {} /\ Ga!Range(stored) = {} /\ GaList(shown)
  BY <1>1 DEF Ga!Ids, Ga!Range, GaList
<1>5. shown = Ga!Rows
  <2>1. Ga!Rows = [i \in {} |-> Ga!At(i)]
    BY <1>1 DEF Ga!Rows
  <2>2. \A f, g : f = [i \in {} |-> f[i]] /\ g = [i \in {} |-> g[i]] => f = g
    OBVIOUS
  <2> QED BY <1>1, <2>1, <2>2
<1>6. GaResting
  BY <1>1, <1>3, <1>4, <1>5 DEF GaResting, GaShows
<1> QED BY <1>1, <1>2, <1>3, <1>6 DEF GaInv, GaHolds, Ga!MCInit

LEMMA GaCounts ==
    /\ \A S : Ga!Cardinality(S) = Cardinality(S)
    /\ Cardinality({}) = 0 /\ \A a : Cardinality({a}) = 1
    /\ \A a, b : a # b => Cardinality({a, b}) = 2
<1>1. \A S : Ga!Cardinality(S) = Cardinality(S)
  BY DEF Ga!Cardinality, Cardinality
<1>2. Cardinality({}) = 0
  BY FS_EmptySet
<1>3. \A a : IsFiniteSet({a}) /\ Cardinality({a}) = 1
  BY FS_Singleton
<1>4. ASSUME NEW a, NEW b, a # b PROVE Cardinality({a, b}) = 2
  <2>1. Cardinality({a} \cup {b}) = Cardinality({a}) + 1
    BY <1>3, <1>4, FS_AddElement
  <2>2. {a} \cup {b} = {a, b}
    OBVIOUS
  <2> QED BY <1>3, <2>1, <2>2
<1> QED BY <1>1, <1>2, <1>3, <1>4

LEMMA GaBusyUpload ==
    ASSUME GaFree, upload # Ga!Idle
    PROVE  Ga!Busy(upload, call) > 0
<1>1. {k \in Requests : call[k] # Ga!None} = {}
  BY DEF GaFree
<1> QED BY <1>1, GaCounts DEF Ga!Busy

LEMMA GaBusyCall ==
    ASSUME NEW k \in Requests, GaCalling(k)
    PROVE  Ga!Busy(upload, call) > 0
<1>1. call[k] # Ga!None
  BY DEF GaCalling, GaSent, GaDone, Ga!None
<1>2. {q \in Requests : call[q] # Ga!None} = {k}
  BY <1>1 DEF GaCalling
<1>3. Ga!Cardinality({k}) = 1
  BY GaCounts
<1>4. upload = Ga!Idle
  BY DEF GaCalling
<1>5. Ga!Busy(upload, call) = Ga!Cardinality({k}) + 0
  BY <1>2, <1>4 DEF Ga!Busy
<1> QED BY <1>3, <1>5

LEMMA GaSays == ASSUME GaInv PROVE Ga!ShowsStoredUnlessCrossed
<1>1. CASE crossed \/ failed
  BY <1>1 DEF Ga!ShowsStoredUnlessCrossed
<1>2. CASE GaHolds
  <2>1. CASE GaResting
    BY <2>1 DEF GaResting, GaShows, Ga!ShowsStoredUnlessCrossed
  <2>2. CASE GaSending \/ GaAdded
    <3>1. upload # Ga!Idle /\ GaFree
      BY <2>2 DEF GaSending, GaAdded, Ga!Idle
    <3> QED BY <3>1, GaBusyUpload DEF Ga!ShowsStoredUnlessCrossed
  <2>3. CASE \E k \in Requests : GaCalling(k)
    BY <2>3, GaBusyCall DEF Ga!ShowsStoredUnlessCrossed
  <2> QED BY <1>2, <2>1, <2>2, <2>3 DEF GaHolds
<1> QED BY <1>1, <1>2 DEF GaInv

(* A call that begins while something is under way crosses it.             *)
LEMMA GaCrosses ==
    ASSUME GaHolds, Ga!MCNext, crossed' = FALSE, NEW k \in Requests, call[k] = Ga!None,
           call' = [call EXCEPT ![k] = call'[k]], call'[k] # Ga!None, upload' = upload
    PROVE  GaResting
<1> DEFINE S == {q \in Requests : call'[q] # Ga!None}
<1>1. Ga!Busy(upload', call') = Cardinality(S) + (IF upload' = Ga!Idle THEN 0 ELSE 1)
  BY GaCounts DEF Ga!Busy
<1>2. ~(Ga!Busy(upload', call') > 1)
  BY DEF Ga!MCNext
<1>3. k \in S /\ \A q \in Requests : q # k => call'[q] = call[q]
  BY DEF GaHolds
<1>4. CASE GaSending \/ GaAdded
  <2>1. upload # Ga!Idle /\ GaFree
    BY <1>4 DEF GaSending, GaAdded, Ga!Idle
  <2>2. S = {k}
    BY <1>3, <2>1 DEF GaFree
  <2>3. Cardinality(S) = 1
    BY <2>2, GaCounts
  <2> QED BY <1>1, <1>2, <2>1, <2>3
<1>5. CASE \E q \in Requests : GaCalling(q)
  <2>1. PICK q \in Requests : GaCalling(q)
    BY <1>5
  <2>2. call[q] # Ga!None
    BY <2>1 DEF GaCalling, GaSent, GaDone, Ga!None
  <2>3. q # k /\ S = {k, q} /\ upload = Ga!Idle
    BY <1>3, <2>1, <2>2 DEF GaCalling
  <2> HIDE DEF S
  <2>4. Cardinality({k, q}) = 2
    BY <2>3, GaCounts
  <2>5. Cardinality(S) = 2
    BY <2>3, <2>4
  <2> QED BY <1>1, <1>2, <2>3, <2>5
<1> QED BY <1>4, <1>5 DEF GaHolds

(* The list with a row less, or a row more.                                *)
GaShorter(s, i, f) ==
    /\ Len(f) = Len(s) - 1
    /\ \A j \in 1 .. Len(s) : j # i => \E m \in 1 .. Len(s) - 1 : f[m] = s[j]
    /\ \A m \in 1 .. Len(s) - 1 : \E j \in 1 .. Len(s) : j # i /\ f[m] = s[j]
    /\ \A m, n \in 1 .. Len(s) - 1 : m # n => \E j, l \in 1 .. Len(s) :
           j # l /\ f[m] = s[j] /\ f[n] = s[l]

LEMMA GaCut ==
    ASSUME NEW R, NEW s \in Seq(R), NEW i \in 1 .. Len(s)
    PROVE  Ga!Cut(s, i) \in Seq(R) /\ GaShorter(s, i, Ga!Cut(s, i))
<1> SUFFICES ASSUME NEW f, f = Ga!Cut(s, i) PROVE f \in Seq(R) /\ GaShorter(s, i, f)
  OBVIOUS
<1>0. f = [j \in 1 .. Len(s) - 1 |-> IF j < i THEN s[j] ELSE s[j + 1]]
  BY DEF Ga!Cut
<1>1. Len(s) \in Nat /\ Len(s) - 1 \in Nat
  OBVIOUS
<1>2. \A j \in 1 .. Len(s) - 1 : j \in 1 .. Len(s) /\ j + 1 \in 1 .. Len(s)
  BY <1>1
<1>3. \A j \in 1 .. Len(s) : s[j] \in R
  OBVIOUS
<1>4. \A j \in 1 .. Len(s) - 1 : f[j] = (IF j < i THEN s[j] ELSE s[j + 1]) /\ f[j] \in R
  BY <1>0, <1>2, <1>3
<1>5. f \in Seq(R) /\ Len(f) = Len(s) - 1
  BY <1>0, <1>1, <1>4
<1>7. ASSUME NEW j \in 1 .. Len(s), j # i PROVE \E m \in 1 .. Len(s) - 1 : f[m] = s[j]
  <2>1. CASE j < i
    BY <1>1, <1>4, <2>1
  <2>2. CASE j > i
    <3>1. j - 1 \in 1 .. Len(s) - 1 /\ ~(j - 1 < i) /\ (j - 1) + 1 = j
      BY <1>1, <2>2
    <3> QED BY <1>4, <3>1
  <2> QED BY <1>7, <2>1, <2>2
<1>8. ASSUME NEW m \in 1 .. Len(s) - 1 PROVE \E j \in 1 .. Len(s) : j # i /\ f[m] = s[j]
  <2>1. CASE m < i
    BY <1>2, <1>4, <2>1
  <2>2. CASE ~(m < i)
    <3>1. m + 1 \in 1 .. Len(s) /\ m + 1 # i /\ f[m] = s[m + 1]
      BY <1>2, <1>4, <2>2
    <3> QED BY <3>1
  <2> QED BY <2>1, <2>2
<1>9. ASSUME NEW m \in 1 .. Len(s) - 1, NEW n \in 1 .. Len(s) - 1, m # n
      PROVE  \E j, l \in 1 .. Len(s) : j # l /\ f[m] = s[j] /\ f[n] = s[l]
  <2> DEFINE j == IF m < i THEN m ELSE m + 1
             l == IF n < i THEN n ELSE n + 1
  <2>1. j \in 1 .. Len(s) /\ l \in 1 .. Len(s) /\ j # l
    BY <1>1, <1>9
  <2>2. f[m] = s[j] /\ f[n] = s[l]
    BY <1>4
  <2> HIDE DEF j, l
  <2> QED BY <2>1, <2>2
<1> QED BY <1>5, <1>7, <1>8, <1>9 DEF GaShorter

GaLonger(s, x, n, f) ==
    /\ n = Cardinality({i \in DOMAIN s : s[i].order <= x.order})
    /\ Len(f) = Len(s) + 1
    /\ \A i \in 1 .. Len(s) + 1 : f[i] = IF i <= n THEN s[i] ELSE IF i = n + 1 THEN x ELSE s[i - 1]

LEMMA GaSorted ==
    ASSUME NEW R, NEW s \in Seq(R), NEW x \in R
    PROVE  \E n \in 0 .. Len(s) : Ga!Sorted(s, x) \in Seq(R) /\ GaLonger(s, x, n, Ga!Sorted(s, x))
<1> DEFINE S == {i \in DOMAIN s : s[i].order <= x.order}
           n == Cardinality(S)
           f == [i \in 1 .. Len(s) + 1 |-> IF i <= n THEN s[i] ELSE IF i = n + 1 THEN x ELSE s[i - 1]]
<1>1. Len(s) \in Nat /\ DOMAIN s = 1 .. Len(s)
  OBVIOUS
<1>2. \A m \in Int : IsFiniteSet(1 .. m) /\ Cardinality(1 .. m) = IF 1 > m THEN 0 ELSE m - 1 + 1
  BY FS_Interval
<1>3. IsFiniteSet(1 .. Len(s)) /\ Cardinality(1 .. Len(s)) = Len(s)
  BY <1>1, <1>2
<1>4. S \subseteq 1 .. Len(s)
  BY <1>1
<1>5. IsFiniteSet(S) /\ Cardinality(S) <= Cardinality(1 .. Len(s))
  BY <1>3, <1>4, FS_Subset
<1>6. n \in Nat
  BY <1>5, FS_CardinalityType
<1>7. n \in 0 .. Len(s)
  BY <1>1, <1>3, <1>5, <1>6
<1>8. Ga!Sorted(s, x) = f
  BY GaCounts DEF Ga!Sorted
<1> HIDE DEF S, n
<1>9. \A i \in 1 .. Len(s) : s[i] \in R
  OBVIOUS
<1>10. ASSUME NEW i \in 1 .. Len(s) + 1
       PROVE  f[i] = (IF i <= n THEN s[i] ELSE IF i = n + 1 THEN x ELSE s[i - 1]) /\ f[i] \in R
  <2>1. CASE i <= n
    BY <1>7, <1>9, <2>1
  <2>2. CASE i = n + 1
    BY <1>7, <2>2
  <2>3. CASE ~(i <= n) /\ i # n + 1
    <3>1. i - 1 \in 1 .. Len(s)
      BY <1>1, <1>7, <2>3
    <3> QED BY <1>9, <2>3, <3>1
  <2> QED BY <2>1, <2>2, <2>3
<1>11. f \in Seq(R) /\ Len(f) = Len(s) + 1
  BY <1>1, <1>10
<1> HIDE DEF f
<1>12. n = Cardinality({i \in DOMAIN s : s[i].order <= x.order})
  BY DEF n, S
<1>13. GaLonger(s, x, n, f)
  BY <1>10, <1>11, <1>12 DEF GaLonger
<1> QED BY <1>7, <1>8, <1>11, <1>13

LEMMA GaWithout ==
    ASSUME NEW s, GaList(s), NEW i \in DOMAIN s, NEW f, f = Ga!Cut(s, i)
    PROVE  GaList(f) /\ Ga!Ids(f) = Ga!Ids(s) \ {s[i].id}
<1>1. s \in Seq(GaRow) /\ DOMAIN s = 1 .. Len(s) /\ \A m, n \in 1 .. Len(s) : s[m].id = s[n].id => m = n
  BY DEF GaList
<1>2. f \in Seq(GaRow) /\ GaShorter(s, i, f)
  <2>1. s \in Seq(GaRow) /\ i \in 1 .. Len(s)
    BY <1>1
  <2> QED BY <2>1, GaCut
<1>3. DOMAIN f = 1 .. Len(s) - 1
  BY <1>2 DEF GaShorter
<1>4. \A m, n \in DOMAIN f : f[m].id = f[n].id => m = n
  <2> SUFFICES ASSUME NEW m \in 1 .. Len(s) - 1, NEW n \in 1 .. Len(s) - 1, m # n
               PROVE  f[m].id # f[n].id
    BY <1>3
  <2>1. PICK j \in 1 .. Len(s), l \in 1 .. Len(s) : j # l /\ f[m] = s[j] /\ f[n] = s[l]
    BY <1>2 DEF GaShorter
  <2> QED BY <1>1, <2>1
<1>5. ASSUME NEW p \in Ga!Ids(f) PROVE p \in Ga!Ids(s) \ {s[i].id}
  <2>1. PICK m \in 1 .. Len(s) - 1 : p = f[m].id
    BY <1>3 DEF Ga!Ids
  <2>2. PICK j \in 1 .. Len(s) : j # i /\ f[m] = s[j]
    BY <1>2 DEF GaShorter
  <2> QED BY <1>1, <2>1, <2>2 DEF Ga!Ids
<1>6. ASSUME NEW p \in Ga!Ids(s) \ {s[i].id} PROVE p \in Ga!Ids(f)
  <2>1. PICK j \in 1 .. Len(s) : p = s[j].id
    BY <1>1 DEF Ga!Ids
  <2>2. PICK m \in 1 .. Len(s) - 1 : f[m] = s[j]
    BY <1>2, <1>6, <2>1 DEF GaShorter
  <2> QED BY <1>3, <2>1, <2>2 DEF Ga!Ids
<1> QED BY <1>2, <1>4, <1>5, <1>6 DEF GaList

LEMMA GaDrops ==
    ASSUME GaStored, NEW i \in DOMAIN stored, NEW f, f = Ga!Cut(stored, i)
    PROVE  /\ f \in Seq(Images) /\ Len(f) = Len(stored) - 1 /\ Len(stored) \in Nat
           /\ \A m, n \in DOMAIN f : f[m] = f[n] => m = n
           /\ Ga!Range(f) = Ga!Range(stored) \ {stored[i]}
<1>1. /\ stored \in Seq(Images) /\ DOMAIN stored = 1 .. Len(stored)
      /\ \A m, n \in 1 .. Len(stored) : stored[m] = stored[n] => m = n
  BY DEF GaStored
<1>2. f \in Seq(Images) /\ GaShorter(stored, i, f)
  <2>1. stored \in Seq(Images) /\ i \in 1 .. Len(stored)
    BY <1>1
  <2> QED BY <2>1, GaCut
<1>3. DOMAIN f = 1 .. Len(stored) - 1
  BY <1>2 DEF GaShorter
<1>4. \A m, n \in DOMAIN f : f[m] = f[n] => m = n
  <2> SUFFICES ASSUME NEW m \in 1 .. Len(stored) - 1, NEW n \in 1 .. Len(stored) - 1, m # n
               PROVE  f[m] # f[n]
    BY <1>3
  <2>1. PICK j \in 1 .. Len(stored), l \in 1 .. Len(stored) : j # l /\ f[m] = stored[j] /\ f[n] = stored[l]
    BY <1>2 DEF GaShorter
  <2> QED BY <1>1, <2>1
<1>5. ASSUME NEW p \in Ga!Range(f) PROVE p \in Ga!Range(stored) \ {stored[i]}
  <2>1. PICK m \in 1 .. Len(stored) - 1 : p = f[m]
    BY <1>3 DEF Ga!Range
  <2>2. PICK j \in 1 .. Len(stored) : j # i /\ f[m] = stored[j]
    BY <1>2 DEF GaShorter
  <2> QED BY <1>1, <2>1, <2>2 DEF Ga!Range
<1>6. ASSUME NEW p \in Ga!Range(stored) \ {stored[i]} PROVE p \in Ga!Range(f)
  <2>1. PICK j \in 1 .. Len(stored) : p = stored[j]
    BY <1>1 DEF Ga!Range
  <2>2. PICK m \in 1 .. Len(stored) - 1 : f[m] = stored[j]
    BY <1>2, <1>6, <2>1 DEF GaShorter
  <2> QED BY <1>3, <2>1, <2>2 DEF Ga!Range
<1> QED BY <1>1, <1>2, <1>4, <1>5, <1>6 DEF GaShorter

(* What a list shows rests on the gallery and the history alone.           *)
LEMMA GaSame ==
    ASSUME UNCHANGED <<stored, cover, deleted>>
    PROVE  /\ Ga!Rows' = Ga!Rows /\ (GaStored => GaStored')
           /\ \A s : (GaShows(s) => GaShows(s)') /\ \A x : GaAdds(s, x) => GaAdds(s, x)'
<1>1. Ga!Rows' = Ga!Rows
  BY DEF Ga!Rows, Ga!At
<1> QED BY <1>1 DEF GaStored, GaShows, GaAdds

LEMMA GaNotTaken ==
    ASSUME Ga!MCNext, GaStored, stored' = stored, deleted \in BOOLEAN, ~Ga!TakenOver
    PROVE  deleted' = deleted
<1>1. ~(Len(stored') < Len(stored))
  BY DEF GaStored
<1> QED BY <1>1 DEF Ga!MCNext

LEMMA GaUploadBegins ==
    ASSUME GaHolds, Ga!MCNext, crossed' = FALSE, Ga!UploadImages
    PROVE  GaHolds'
<1>1. PICK l : upload' = [left |-> l, next |-> shown, step |-> "sent", got |-> <<>>]
  BY DEF Ga!UploadImages
<1>2. upload = Ga!Idle /\ UNCHANGED <<stored, cover, shown, call>> /\ upload' # Ga!Idle
  BY <1>1 DEF Ga!UploadImages, Ga!Idle
<1>3. ~\E k \in Requests : GaCalling(k)
  <2> SUFFICES ASSUME NEW k \in Requests, GaCalling(k) PROVE FALSE
    OBVIOUS
  <2>1. call[k] # Ga!None
    BY DEF GaCalling, GaSent, GaDone, Ga!None
  <2>2. {q \in Requests : call'[q] # Ga!None} = {k}
    BY <1>2, <2>1 DEF GaCalling
  <2>3. Ga!Cardinality({k}) = 1
    BY GaCounts
  <2>4. Ga!Busy(upload', call') = Ga!Cardinality({k}) + 1
    BY <1>2, <2>2 DEF Ga!Busy
  <2>5. ~(Ga!Busy(upload', call') > 1)
    BY DEF Ga!MCNext
  <2> QED BY <2>3, <2>4, <2>5
<1>4. GaResting
  BY <1>2, <1>3 DEF GaHolds, GaSending, GaAdded, Ga!Idle
<1>5. ~Ga!TakenOver
  BY <1>2 DEF Ga!TakenOver, Ga!Ended
<1>6. deleted' = deleted
  BY <1>2, <1>5, GaNotTaken DEF GaHolds
<1>7. GaStored' /\ GaShows(shown)'
  BY <1>2, <1>4, <1>6, GaSame DEF GaHolds, GaResting, GaShows
<1>8. GaSending'
  BY <1>1, <1>2, <1>4, <1>7 DEF GaSending, GaResting, GaFree
<1> QED BY <1>2, <1>6, <1>7, <1>8 DEF GaHolds

LEMMA GaUploadNext ==
    ASSUME GaStored', call = [k \in Requests |-> call[k]], call' = call, deleted' \in BOOLEAN, GaFree,
           GaShows(shown)', Ga!NextFile(shown')
    PROVE  GaHolds'
<1>1. GaFree'
  BY DEF GaFree
<1>2. \/ upload' = Ga!Idle
      \/ \E l : upload' = [left |-> l, next |-> shown', step |-> "sent", got |-> <<>>]
  BY DEF Ga!NextFile
<1>3. GaResting' \/ GaSending'
  BY <1>1, <1>2 DEF GaResting, GaSending, Ga!Idle
<1> QED BY <1>3 DEF GaHolds

LEMMA GaUploadFails ==
    ASSUME GaHolds, Ga!MCNext, failed' = FALSE, Ga!UploadFails
    PROVE  GaHolds'
<1>1. ~GaAdded
  <2>1. shown' = shown /\ ~Ga!Failing
    BY DEF Ga!MCNext, Ga!UploadFails
  <2> QED BY <2>1 DEF GaAdded, Ga!Failing
<1>2. GaSending
  BY <1>1 DEF GaHolds, GaResting, GaCalling, Ga!UploadFails, Ga!Idle
<1>3. UNCHANGED <<stored, cover, shown, call>> /\ Ga!NextFile(shown)
  BY <1>2 DEF GaSending, Ga!UploadFails
<1>4. ~Ga!TakenOver
  BY <1>3 DEF Ga!TakenOver, Ga!Ended
<1>5. deleted' = deleted
  BY <1>3, <1>4, GaNotTaken DEF GaHolds
<1>6. GaStored' /\ GaShows(shown)'
  BY <1>2, <1>3, <1>5, GaSame DEF GaHolds, GaSending, GaShows
<1> QED BY <1>2, <1>3, <1>5, <1>6, GaUploadNext DEF GaHolds, GaSending

LEMMA GaAppend ==
    ASSUME GaStored, NEW p \in Images \ Ga!Range(stored), stored' = Append(stored, p),
           cover' = IF stored = <<>> THEN p ELSE cover
    PROVE  /\ GaStored' /\ Ga!Range(stored)' = Ga!Range(stored) \cup {p}
           /\ Len(stored') = Len(stored) + 1 /\ Len(stored) \in Nat
           /\ \A i \in 1 .. Len(stored) : stored'[i] = stored[i]
           /\ stored'[Len(stored) + 1] = p
<1>1. /\ stored \in Seq(Images) /\ DOMAIN stored = 1 .. Len(stored) /\ Len(stored) \in Nat
      /\ \A m, n \in 1 .. Len(stored) : stored[m] = stored[n] => m = n
  BY DEF GaStored
<1>2. /\ stored' \in Seq(Images) /\ Len(stored') = Len(stored) + 1
      /\ \A i \in 1 .. Len(stored) : stored'[i] = stored[i]
      /\ stored'[Len(stored) + 1] = p
  BY <1>1
<1>3. DOMAIN stored' = 1 .. Len(stored) + 1
  BY <1>1, <1>2
<1>4. \A m \in 1 .. Len(stored) + 1 : m \in 1 .. Len(stored) \/ m = Len(stored) + 1
  BY <1>1
<1>5. \A m \in 1 .. Len(stored) : stored[m] \in Ga!Range(stored) /\ m \in 1 .. Len(stored) + 1
  BY <1>1 DEF Ga!Range
<1>6. Ga!Range(stored)' = Ga!Range(stored) \cup {p}
  <2>1. \A n \in Ga!Range(stored)' : n \in Ga!Range(stored) \cup {p}
    BY <1>2, <1>3, <1>4, <1>5 DEF Ga!Range
  <2>2. p \in Ga!Range(stored)'
    BY <1>1, <1>2, <1>3 DEF Ga!Range
  <2>3. \A n \in Ga!Range(stored) : n \in Ga!Range(stored)'
    BY <1>1, <1>2, <1>3, <1>5 DEF Ga!Range
  <2> QED BY <2>1, <2>2, <2>3
<1>7. \A m, n \in DOMAIN stored' : stored'[m] = stored'[n] => m = n
  BY <1>1, <1>2, <1>3, <1>4, <1>5
<1>8. cover' \in Ga!Range(stored)'
  BY <1>6 DEF GaStored
<1> QED BY <1>1, <1>2, <1>6, <1>7, <1>8 DEF GaStored

LEMMA GaUploadAdds ==
    ASSUME GaHolds, Ga!MCNext, Ga!AddImage
    PROVE  GaHolds'
<1>1. GaSending
  BY DEF GaHolds, GaResting, GaAdded, GaCalling, Ga!AddImage, Ga!Idle
<1>2. PICK p \in Images \ Ga!Range(stored) :
          /\ p \notin Ga!Ids(shown)
          /\ stored' = Append(stored, p) /\ cover' = (IF stored = <<>> THEN p ELSE cover)
          /\ upload' = [upload EXCEPT !.step = "added",
                 !.got = <<[id |-> p, order |-> Len(stored), cover |-> stored = <<>>]>>]
  BY DEF Ga!AddImage
<1>3. UNCHANGED <<shown, call>>
  BY DEF Ga!AddImage
<1>4. /\ GaStored' /\ Ga!Range(stored)' = Ga!Range(stored) \cup {p}
      /\ Len(stored') = Len(stored) + 1 /\ Len(stored) \in Nat
      /\ \A i \in 1 .. Len(stored) : stored'[i] = stored[i]
      /\ stored'[Len(stored) + 1] = p
  BY <1>2, GaAppend DEF GaHolds
<1>5. PICK x : x = [id |-> p, order |-> Len(stored), cover |-> stored = <<>>]
  OBVIOUS
<1>6. x \in GaRow /\ x.id = p /\ x.order = Len(stored) /\ x.cover = (stored = <<>>)
  BY <1>4, <1>5 DEF GaRow
<1>7. PICK l : upload = [left |-> l, next |-> shown, step |-> "sent", got |-> <<>>]
  BY <1>1 DEF GaSending
<1>8. upload' = [left |-> l, next |-> shown', step |-> "added", got |-> <<x>>]
  BY <1>2, <1>3, <1>5, <1>7
<1>9. ~Ga!TakenOver
  BY <1>3 DEF Ga!TakenOver, Ga!Ended
<1>10. deleted' = deleted
  <2>1. ~(Len(stored') < Len(stored))
    BY <1>4
  <2> QED BY <1>9, <2>1 DEF Ga!MCNext, GaHolds
<1>11. GaList(shown') /\ Ga!Ids(shown') \cup {x.id} = Ga!Range(stored)' /\ x.id \notin Ga!Ids(shown')
  BY <1>1, <1>2, <1>3, <1>4, <1>6 DEF GaSending, GaShows
<1>12. ASSUME ~deleted PROVE Append(shown', x) = Ga!Rows'
  <2>1. shown' = Ga!Rows
    BY <1>1, <1>3, <1>12 DEF GaSending, GaShows
  <2>2. stored \in Seq(Images) /\ DOMAIN stored = 1 .. Len(stored) /\ DOMAIN stored' = 1 .. Len(stored) + 1
    BY <1>4 DEF GaHolds, GaStored
  <2>3. Ga!Rows = [i \in 1 .. Len(stored) |-> Ga!At(i)]
    BY <2>2 DEF Ga!Rows
  <2>4. Ga!Rows' = [i \in 1 .. Len(stored) + 1 |-> Ga!At(i)']
    BY <2>2 DEF Ga!Rows
  <2>5. \A i \in 1 .. Len(stored) : Ga!At(i)' = Ga!At(i)
    <3> SUFFICES ASSUME NEW i \in 1 .. Len(stored) PROVE Ga!At(i)' = Ga!At(i)
      OBVIOUS
    <3>1. cover' = cover
      BY <1>2, <1>4, <2>2
    <3> QED BY <1>4, <3>1 DEF Ga!At
  <2>6. ASSUME NEW j, j = Len(stored) + 1 PROVE Ga!At(j)' = x
    <3>1. (p = cover') = (stored = <<>>)
      BY <1>2 DEF GaHolds, GaStored
    <3>2. Ga!At(j)' = [id |-> stored'[j], order |-> j - 1, cover |-> stored'[j] = cover']
      BY DEF Ga!At
    <3>3. stored'[j] = p /\ j - 1 = Len(stored)
      BY <1>4, <2>6
    <3> QED BY <1>5, <3>1, <3>2, <3>3
  <2>7. Ga!Rows \in Seq(GaRow) /\ Len(Ga!Rows) = Len(stored)
    BY <1>4, <1>11, <2>1, <2>3 DEF GaList
  <2>8. PICK f : f = Append(Ga!Rows, x)
    OBVIOUS
  <2>9. /\ f \in Seq(GaRow) /\ Len(f) = Len(stored) + 1
        /\ \A i \in 1 .. Len(stored) : f[i] = Ga!Rows[i]
        /\ f[Len(stored) + 1] = x
    BY <1>4, <1>6, <2>7, <2>8
  <2>10. ASSUME NEW i \in 1 .. Len(stored) + 1 PROVE f[i] = Ga!At(i)'
    <3>1. i \in 1 .. Len(stored) \/ i = Len(stored) + 1
      BY <1>4
    <3>2. CASE i \in 1 .. Len(stored)
      BY <2>3, <2>5, <2>9, <3>2
    <3>3. CASE i = Len(stored) + 1
      BY <2>6, <2>9, <3>3
    <3> QED BY <3>1, <3>2, <3>3
  <2>11. f = [i \in 1 .. Len(stored) + 1 |-> f[i]]
    BY <1>4, <2>9
  <2>12. f = Ga!Rows'
    BY <2>4, <2>10, <2>11
  <2> QED BY <2>1, <2>8, <2>12
<1>13. GaAdds(shown, x)'
  BY <1>6, <1>10, <1>11, <1>12 DEF GaAdds
<1>14. GaAdded'
  BY <1>1, <1>3, <1>8, <1>13 DEF GaAdded, GaSending, GaFree
<1> QED BY <1>3, <1>4, <1>10, <1>14 DEF GaHolds

LEMMA GaTakesIn ==
    ASSUME NEW s, NEW x, GaAdds(s, x)
    PROVE  GaShows(Ga!Sorted(s, x))
<1>1. s \in Seq(GaRow) /\ x \in GaRow /\ DOMAIN s = 1 .. Len(s) /\ Len(s) \in Nat
  BY DEF GaAdds, GaList
<1>2. PICK n \in 0 .. Len(s) : Ga!Sorted(s, x) \in Seq(GaRow) /\ GaLonger(s, x, n, Ga!Sorted(s, x))
  BY <1>1, GaSorted
<1>3. PICK f : f = Ga!Sorted(s, x)
  OBVIOUS
<1>4. /\ f \in Seq(GaRow) /\ Len(f) = Len(s) + 1 /\ DOMAIN f = 1 .. Len(s) + 1
      /\ \A i \in 1 .. Len(s) + 1 : f[i] = IF i <= n THEN s[i] ELSE IF i = n + 1 THEN x ELSE s[i - 1]
  BY <1>1, <1>2, <1>3 DEF GaLonger
<1>5. /\ \A i \in 1 .. Len(s) + 1 : i <= n => i \in 1 .. Len(s) /\ f[i] = s[i]
      /\ n + 1 \in 1 .. Len(s) + 1 /\ f[n + 1] = x
      /\ \A i \in 1 .. Len(s) + 1 : i > n + 1 => i - 1 \in 1 .. Len(s) /\ f[i] = s[i - 1]
      /\ \A i \in 1 .. Len(s) + 1 : i <= n \/ i = n + 1 \/ i > n + 1
  <2>1. n \in Nat /\ n <= Len(s)
    BY <1>1
  <2>2. ASSUME NEW i \in 1 .. Len(s) + 1, i <= n PROVE i \in 1 .. Len(s) /\ f[i] = s[i]
    BY <1>1, <1>4, <2>1, <2>2
  <2>3. n + 1 \in 1 .. Len(s) + 1 /\ f[n + 1] = x
    BY <1>1, <1>4, <2>1
  <2>4. ASSUME NEW i \in 1 .. Len(s) + 1, i > n + 1 PROVE i - 1 \in 1 .. Len(s) /\ f[i] = s[i - 1]
    BY <1>1, <1>4, <2>1, <2>4
  <2>5. \A i \in 1 .. Len(s) + 1 : i <= n \/ i = n + 1 \/ i > n + 1
    BY <1>1, <2>1
  <2> QED BY <2>2, <2>3, <2>4, <2>5
<1>6. \A i \in 1 .. Len(s) : s[i].id # x.id
  BY <1>1 DEF GaAdds, Ga!Ids
<1>7. \A i, j \in 1 .. Len(s) : s[i].id = s[j].id => i = j
  BY <1>1 DEF GaAdds, GaList
<1>8. GaList(f)
  <2> SUFFICES ASSUME NEW i \in 1 .. Len(s) + 1, NEW j \in 1 .. Len(s) + 1, f[i].id = f[j].id PROVE i = j
    BY <1>4 DEF GaList
  <2>1. CASE i = n + 1 \/ j = n + 1
    BY <1>5, <1>6, <2>1
  <2>2. CASE i <= n /\ j <= n
    BY <1>5, <1>7, <2>2
  <2>3. CASE i > n + 1 /\ j > n + 1
    <3>1. i - 1 = j - 1
      BY <1>5, <1>7, <2>3
    <3> QED BY <3>1
  <2>4. CASE i <= n /\ j > n + 1
    <3>1. i = j - 1
      BY <1>5, <1>7, <2>4
    <3> QED BY <2>4, <3>1
  <2>5. CASE i > n + 1 /\ j <= n
    <3>1. i - 1 = j
      BY <1>5, <1>7, <2>5
    <3> QED BY <2>5, <3>1
  <2> QED BY <2>1, <2>2, <2>3, <2>4, <2>5
<1>9. Ga!Ids(f) = Ga!Range(stored)
  <2>1. ASSUME NEW p \in Ga!Ids(f) PROVE p \in Ga!Ids(s) \cup {x.id}
    <3>1. PICK i \in 1 .. Len(s) + 1 : p = f[i].id
      BY <1>4 DEF Ga!Ids
    <3>2. CASE i <= n
      BY <1>1, <1>5, <3>1, <3>2 DEF Ga!Ids
    <3>3. CASE i = n + 1
      BY <1>5, <3>1, <3>3
    <3>4. CASE i > n + 1
      BY <1>1, <1>5, <3>1, <3>4 DEF Ga!Ids
    <3> QED BY <1>5, <3>2, <3>3, <3>4
  <2>2. ASSUME NEW p \in Ga!Ids(s) PROVE p \in Ga!Ids(f)
    <3>1. PICK i \in 1 .. Len(s) : p = s[i].id
      BY <1>1 DEF Ga!Ids
    <3>2. CASE i <= n
      <4>1. i \in 1 .. Len(s) + 1 /\ f[i] = s[i]
        BY <1>1, <1>5, <3>2
      <4> QED BY <1>4, <3>1, <4>1 DEF Ga!Ids
    <3>3. CASE i > n
      <4>1. i + 1 \in 1 .. Len(s) + 1 /\ f[i + 1] = s[i]
        BY <1>1, <1>4, <3>3
      <4> QED BY <1>4, <3>1, <4>1 DEF Ga!Ids
    <3> QED BY <3>2, <3>3
  <2>3. x.id \in Ga!Ids(f)
    <3>1. n + 1 \in 1 .. Len(s) + 1 /\ f[n + 1] = x
      BY <1>1, <1>4
    <3> QED BY <1>4, <3>1 DEF Ga!Ids
  <2>4. Ga!Ids(s) \cup {x.id} = Ga!Range(stored)
    BY DEF GaAdds
  <2> QED BY <2>1, <2>2, <2>3, <2>4
<1>10. ASSUME ~deleted PROVE f = Ga!Rows
  <2>1. PICK a : a = Append(s, x)
    OBVIOUS
  <2>2. /\ a \in Seq(GaRow) /\ Len(a) = Len(s) + 1 /\ DOMAIN a = 1 .. Len(s) + 1
        /\ \A i \in 1 .. Len(s) : a[i] = s[i]
        /\ a[Len(s) + 1] = x
    BY <1>1, <2>1
  <2>3. a = Ga!Rows
    BY <1>10, <2>1 DEF GaAdds
  <2>4. \A i \in 1 .. Len(s) + 1 : a[i] = Ga!At(i)
    BY <2>2, <2>3 DEF Ga!Rows
  <2>5. \A i \in 1 .. Len(s) + 1 : a[i].order = i - 1
    <3> SUFFICES ASSUME NEW i \in 1 .. Len(s) + 1 PROVE a[i].order = i - 1
      OBVIOUS
    <3>1. a[i] = [id |-> stored[i], order |-> i - 1, cover |-> stored[i] = cover]
      BY <2>4 DEF Ga!At
    <3> QED BY <3>1
  <2>6. Len(s) + 1 \in 1 .. Len(s) + 1 /\ Len(s) + 1 - 1 = Len(s)
    BY <1>1
  <2>7. x.order = Len(s)
    BY <2>2, <2>5, <2>6
  <2>8. \A i \in 1 .. Len(s) : s[i].order <= x.order
    <3> SUFFICES ASSUME NEW i \in 1 .. Len(s) PROVE s[i].order <= x.order
      OBVIOUS
    <3>1. s[i].order = i - 1
      BY <1>1, <2>2, <2>5
    <3> QED BY <1>1, <2>7, <3>1
  <2>9. {i \in DOMAIN s : s[i].order <= x.order} = 1 .. Len(s)
    BY <1>1, <2>8
  <2>10. \A m \in Int : Cardinality(1 .. m) = IF 1 > m THEN 0 ELSE m - 1 + 1
    BY FS_Interval
  <2>11. n = Len(s)
    <3>1. n = Cardinality(1 .. Len(s))
      BY <1>2, <2>9 DEF GaLonger
    <3> QED BY <1>1, <2>10, <3>1
  <2>12. \A i \in 1 .. Len(s) + 1 : f[i] = a[i]
    BY <1>1, <1>5, <2>2, <2>11
  <2>13. f = [i \in 1 .. Len(s) + 1 |-> f[i]] /\ a = [i \in 1 .. Len(s) + 1 |-> a[i]]
    BY <1>1, <1>4, <2>2
  <2> QED BY <2>3, <2>12, <2>13
<1> QED BY <1>3, <1>8, <1>9, <1>10 DEF GaShows

LEMMA GaUploaded ==
    ASSUME GaHolds, Ga!MCNext, Ga!Uploaded
    PROVE  GaHolds'
<1>1. GaAdded
  BY DEF GaHolds, GaResting, GaSending, GaCalling, Ga!Uploaded, Ga!Idle
<1>2. PICK l, x : /\ upload = [left |-> l, next |-> shown, step |-> "added", got |-> <<x>>]
                  /\ GaAdds(shown, x)
  BY <1>1 DEF GaAdded
<1>3. upload.next = shown /\ upload.got[1] = x
  BY <1>2
<1>4. shown' = Ga!Sorted(shown, x) /\ Ga!NextFile(shown') /\ UNCHANGED <<stored, cover, call>>
  BY <1>3 DEF Ga!Uploaded
<1>5. ~Ga!TakenOver
  BY <1>4 DEF Ga!TakenOver, Ga!Ended
<1>6. deleted' = deleted
  BY <1>4, <1>5, GaNotTaken DEF GaHolds
<1>7. GaShows(shown')
  BY <1>2, <1>4, GaTakesIn
<1>8. GaStored' /\ GaShows(shown)'
  BY <1>4, <1>6, <1>7, GaSame DEF GaHolds, GaShows
<1> QED BY <1>1, <1>4, <1>6, <1>8, GaUploadNext DEF GaHolds, GaAdded

(* A call that begins is the only one, at a screen that shows the gallery. *)
LEMMA GaBegins ==
    ASSUME GaHolds, Ga!MCNext, crossed' = FALSE, UNCHANGED <<stored, cover, upload>>,
           NEW k \in Requests, call[k] = Ga!None, NEW c, call' = [call EXCEPT ![k] = c],
           DOMAIN c = GaFields, c.step = "sent"
    PROVE  /\ GaResting /\ deleted' = deleted /\ GaStored' /\ deleted' \in BOOLEAN
           /\ call' = [q \in Requests |-> call'[q]] /\ call'[k] = c
           /\ upload' = Ga!Idle /\ \A q \in Requests \ {k} : call'[q] = Ga!None
<1>1. call'[k] = c /\ call' = [q \in Requests |-> call'[q]] /\ \A q \in Requests \ {k} : call'[q] = call[q]
  BY DEF GaHolds
<1>2. c # Ga!None
  BY DEF Ga!None
<1>3. GaResting
  BY <1>1, <1>2, GaCrosses
<1>4. ~Ga!TakenOver
  BY <1>1, <1>2 DEF Ga!TakenOver, Ga!Ended
<1>5. deleted' = deleted
  BY <1>4, GaNotTaken DEF GaHolds
<1>6. GaStored'
  BY <1>5, GaSame DEF GaHolds
<1> QED BY <1>1, <1>3, <1>5, <1>6 DEF GaResting, GaFree, GaHolds

LEMMA GaPresses ==
    ASSUME GaHolds, Ga!MCNext, crossed' = FALSE,
           Ga!DeleteButton \/ Ga!CoverButton \/ Ga!Autosave
    PROVE  GaHolds'
<1>1. UNCHANGED <<stored, cover, shown, upload>>
  BY DEF Ga!DeleteButton, Ga!CoverButton, Ga!Autosave
<1>2. PICK op, p, ids :
          op \in {"delete", "cover", "save"} /\ Ga!Send(op, p, ids) /\ (op = "delete" => p \in Ga!Ids(shown))
  BY DEF Ga!DeleteButton, Ga!CoverButton, Ga!Autosave
<1>3. PICK k \in Requests : /\ call[k] = Ga!None
                            /\ call' = [call EXCEPT ![k] = [op |-> op, id |-> p, was |-> shown, ids |-> ids,
                                                            step |-> "sent", got |-> <<>>]]
  BY <1>2 DEF Ga!Send
<1>4. PICK c : c = [op |-> op, id |-> p, was |-> shown, ids |-> ids, step |-> "sent", got |-> <<>>]
  OBVIOUS
<1>5. DOMAIN c = GaFields /\ c.step = "sent" /\ c.op = op /\ c.id = p /\ c.was = shown
  BY <1>4 DEF GaFields
<1>6. /\ GaResting /\ deleted' = deleted /\ GaStored' /\ deleted' \in BOOLEAN
      /\ call' = [q \in Requests |-> call'[q]] /\ call'[k] = c
      /\ upload' = Ga!Idle /\ \A q \in Requests \ {k} : call'[q] = Ga!None
  BY <1>1, <1>3, <1>4, <1>5, GaBegins
<1>7. GaShows(shown)'
  BY <1>1, <1>6, GaSame DEF GaResting, GaShows
<1>8. GaSent(c)'
  BY <1>1, <1>2, <1>5, <1>7 DEF GaSent, Ga!Ids
<1>9. GaSent(call[k])'
  BY <1>6, <1>8
<1>10. GaCalling(k)'
  BY <1>2, <1>5, <1>6, <1>9 DEF GaCalling
<1> QED BY <1>6, <1>10 DEF GaHolds

(* Two neighbours change their places.                                     *)
LEMMA GaSwaps ==
    ASSUME NEW s, GaList(s), s = shown, NEW i \in DOMAIN s, NEW j \in DOMAIN s, i # j,
           NEW f, f = Ga!Swapped(i, j)
    PROVE  GaList(f) /\ Ga!Ids(f) = Ga!Ids(s) /\ DOMAIN f = DOMAIN s
<1>1. /\ s \in Seq(GaRow) /\ DOMAIN s = 1 .. Len(s) /\ Len(s) \in Nat
      /\ \A m, n \in 1 .. Len(s) : s[m].id = s[n].id => m = n
  BY DEF GaList
<1>2. \A n \in 1 .. Len(s) : s[n] \in GaRow
  BY <1>1
<1> DEFINE at(n) == IF n = i THEN j ELSE IF n = j THEN i ELSE n
<1>3. ASSUME NEW n \in 1 .. Len(s) PROVE at(n) \in 1 .. Len(s) /\ at(at(n)) = n
  BY <1>1
<1>4. f = [n \in 1 .. Len(s) |-> [(CASE n = i -> s[j] [] n = j -> s[i] [] OTHER -> s[n]) EXCEPT !.order = n - 1]]
  BY <1>1 DEF Ga!Swapped
<1>5. ASSUME NEW n \in 1 .. Len(s) PROVE f[n] \in GaRow /\ f[n].id = s[at(n)].id
  <2>1. (CASE n = i -> s[j] [] n = j -> s[i] [] OTHER -> s[n]) = s[at(n)]
    BY <1>5
  <2>2. f[n] = [s[at(n)] EXCEPT !.order = n - 1]
    BY <1>4, <2>1
  <2>3. s[at(n)] \in GaRow /\ n - 1 \in Nat
    BY <1>1, <1>2, <1>3
  <2> HIDE DEF at
  <2> QED BY <2>2, <2>3 DEF GaRow
<1> HIDE DEF at
<1>6. f \in Seq(GaRow) /\ DOMAIN f = 1 .. Len(s)
  <2>1. f = [n \in 1 .. Len(s) |-> f[n]]
    BY <1>4
  <2>2. \A n \in 1 .. Len(s) : f[n] \in GaRow
    BY <1>5
  <2> QED BY <1>1, <2>1, <2>2
<1>7. GaList(f)
  <2> SUFFICES ASSUME NEW m \in 1 .. Len(s), NEW n \in 1 .. Len(s), f[m].id = f[n].id PROVE m = n
    BY <1>6 DEF GaList
  <2>1. s[at(m)].id = s[at(n)].id
    BY <1>5
  <2>2. at(m) = at(n)
    BY <1>1, <1>3, <2>1
  <2> QED BY <1>3, <2>2
<1>8. Ga!Ids(f) = Ga!Ids(s)
  <2>1. ASSUME NEW p \in Ga!Ids(f) PROVE p \in Ga!Ids(s)
    <3>1. PICK n \in 1 .. Len(s) : p = f[n].id
      BY <1>6 DEF Ga!Ids
    <3> QED BY <1>1, <1>3, <1>5, <3>1 DEF Ga!Ids
  <2>2. ASSUME NEW p \in Ga!Ids(s) PROVE p \in Ga!Ids(f)
    <3>1. PICK n \in 1 .. Len(s) : p = s[n].id
      BY <1>1 DEF Ga!Ids
    <3>2. at(n) \in 1 .. Len(s) /\ f[at(n)].id = s[n].id
      <4>1. at(n) \in 1 .. Len(s) /\ at(at(n)) = n
        BY <1>3
      <4>2. f[at(n)].id = s[at(at(n))].id
        BY <1>5, <4>1
      <4> QED BY <4>1, <4>2
    <3> QED BY <1>6, <3>1, <3>2 DEF Ga!Ids
  <2> QED BY <2>1, <2>2
<1> QED BY <1>1, <1>6, <1>7, <1>8

LEMMA GaMoves ==
    ASSUME GaHolds, Ga!MCNext, crossed' = FALSE, Ga!MoveImage
    PROVE  GaHolds'
<1>1. PICK i \in DOMAIN shown, j \in DOMAIN shown :
          /\ j \in {i + 1} \/ i \in {j + 1}
          /\ shown' = Ga!Swapped(i, j)
          /\ Ga!Send("move", shown[i].id, [n \in DOMAIN shown |-> Ga!Swapped(i, j)[n].id])
  BY DEF Ga!MoveImage
<1>2. PICK k, p, ids :
          /\ k \in Requests /\ call[k] = Ga!None /\ ids = [n \in DOMAIN shown |-> shown'[n].id]
          /\ call' = [call EXCEPT ![k] = [op |-> "move", id |-> p, was |-> shown, ids |-> ids,
                                          step |-> "sent", got |-> <<>>]]
  BY <1>1 DEF Ga!Send
<1>3. UNCHANGED <<stored, cover, upload>>
  BY DEF Ga!MoveImage
<1>4. PICK c : c = [op |-> "move", id |-> p, was |-> shown, ids |-> ids, step |-> "sent", got |-> <<>>]
  OBVIOUS
<1>5. DOMAIN c = GaFields /\ c.step = "sent" /\ c.op = "move" /\ c.ids = ids
  BY <1>4 DEF GaFields
<1>6. /\ GaResting /\ deleted' = deleted /\ GaStored' /\ deleted' \in BOOLEAN
      /\ call' = [q \in Requests |-> call'[q]] /\ call'[k] = c
      /\ upload' = Ga!Idle /\ \A q \in Requests \ {k} : call'[q] = Ga!None
  BY <1>2, <1>3, <1>4, <1>5, GaBegins
<1>7. GaList(shown) /\ Ga!Ids(shown) = Ga!Range(stored)
  BY <1>6 DEF GaResting, GaShows
<1>8. i # j
  BY <1>1, <1>7 DEF GaList
<1>9. GaList(shown') /\ Ga!Ids(shown') = Ga!Ids(shown) /\ DOMAIN shown' = DOMAIN shown
  BY <1>1, <1>7, <1>8, GaSwaps
<1>10. GaSent(c)'
  <2>1. GaList(shown)' /\ Ga!Ids(shown)' = Ga!Range(stored)' /\ c.ids = [n \in DOMAIN shown' |-> shown'[n].id]
    <3>1. GaList(shown)'
      BY <1>9 DEF GaList
    <3>2. Ga!Ids(shown)' = Ga!Range(stored)'
      BY <1>3, <1>7, <1>9 DEF Ga!Ids, Ga!Range
    <3>3. c.ids = [n \in DOMAIN shown |-> shown'[n].id]
      BY <1>2, <1>5
    <3> QED BY <1>9, <3>1, <3>2, <3>3
  <2> QED BY <1>5, <2>1 DEF GaSent
<1>11. GaSent(call[k])'
  BY <1>6, <1>10
<1>12. GaCalling(k)'
  BY <1>5, <1>6, <1>11 DEF GaCalling
<1>13. \E q \in Requests : GaCalling(q)'
  BY <1>2, <1>12
<1>14. GaStored' /\ call' = [q \in Requests |-> call'[q]] /\ deleted' \in BOOLEAN
  BY <1>6
<1> QED BY <1>13, <1>14 DEF GaHolds

LEMMA GaMine ==
    ASSUME GaHolds, NEW k \in Requests, call[k].step \in {"sent", "done"}
    PROVE  GaCalling(k) /\ (call[k].step = "sent" => GaSent(call[k])) /\ (call[k].step = "done" => GaDone(call[k]))
<1>1. call[k] # Ga!None
  BY DEF Ga!None
<1>2. GaCalling(k)
  BY <1>1 DEF GaHolds, GaResting, GaSending, GaAdded, GaFree, GaCalling
<1> QED BY <1>2 DEF GaCalling, GaSent, GaDone

(* A handler has run: what the screen will make of the answer is right.    *)
LEMMA GaHandled ==
    ASSUME GaHolds, Ga!MCNext, NEW k \in Requests, call[k].step = "sent", NEW d, NEW got,
           d = [call[k] EXCEPT !.step = "done", !.got = got], Ga!Handled(k, got),
           UNCHANGED <<shown, upload>>, GaStored', GaList(Ga!Answered(d)),
           Ga!Ids(Ga!Answered(d)) = Ga!Range(stored'), ~deleted' => Ga!Answered(d) = Ga!Rows',
           d.op \in {"move", "save"} => got = Ga!Rows'
    PROVE  GaHolds'
<1>1. GaCalling(k)
  BY GaMine
<1>2. call'[k] = d /\ call' = [q \in Requests |-> call'[q]] /\ \A q \in Requests \ {k} : call'[q] = call[q]
  BY DEF GaHolds, Ga!Handled
<1>3. DOMAIN d = GaFields /\ d.op = call[k].op /\ d.step = "done" /\ d.got = got
  BY <1>1 DEF GaCalling, GaFields
<1>4. deleted' \in BOOLEAN
  BY DEF Ga!MCNext
<1>5. PICK a : a = Ga!Answered(d)
  OBVIOUS
<1>6. GaShows(a)'
  <2>1. GaList(a) /\ Ga!Ids(a) = Ga!Range(stored') /\ (~deleted' => a = Ga!Rows')
    BY <1>5
  <2>2. GaList(a)'
    BY <2>1 DEF GaList
  <2>3. Ga!Ids(a)' = Ga!Range(stored)'
    BY <2>1 DEF Ga!Ids, Ga!Range
  <2> QED BY <2>1, <2>2, <2>3 DEF GaShows
<1>7. GaDone(d)'
  BY <1>3, <1>5, <1>6 DEF GaDone, Ga!Answered
<1>8. GaDone(call[k])'
  BY <1>2, <1>7
<1>9. GaCalling(k)'
  BY <1>1, <1>2, <1>3, <1>8 DEF GaCalling
<1> QED BY <1>2, <1>4, <1>9 DEF GaHolds

LEMMA GaDeletes ==
    ASSUME GaHolds, Ga!MCNext, NEW k \in Requests, Ga!DeleteImage(k)
    PROVE  GaHolds'
<1>1. call[k].step = "sent" /\ call[k].op = "delete" /\ UNCHANGED <<shown, upload>> /\ call[k].id \in Ga!Range(stored)
  BY DEF Ga!DeleteImage, Ga!Handler
<1>2. GaSent(call[k]) /\ GaCalling(k)
  BY <1>1, GaMine
<1>3. PICK p : p = call[k].id
  OBVIOUS
<1>4. /\ Ga!Handled(k, <<>>)
      /\ stored' = Ga!Cut(stored, CHOOSE i \in DOMAIN stored : stored[i] = p)
      /\ cover' = IF cover # p THEN cover ELSE IF stored' = <<>> THEN "none" ELSE stored'[1]
  BY <1>3 DEF Ga!DeleteImage
<1>5. PICK i : i = CHOOSE m \in DOMAIN stored : stored[m] = p
  OBVIOUS
<1>6. i \in DOMAIN stored /\ stored[i] = p
  BY <1>1, <1>3, <1>5 DEF Ga!Range
<1>7. /\ stored' \in Seq(Images) /\ Len(stored') = Len(stored) - 1 /\ Len(stored) \in Nat
      /\ \A m, n \in DOMAIN stored' : stored'[m] = stored'[n] => m = n
      /\ Ga!Range(stored') = Ga!Range(stored) \ {p}
  <2>1. GaStored /\ stored' = Ga!Cut(stored, i)
    BY <1>4, <1>5 DEF GaHolds
  <2>2. PICK f : f = stored'
    OBVIOUS
  <2>3. f = Ga!Cut(stored, i)
    BY <2>1, <2>2
  <2>4. /\ f \in Seq(Images) /\ Len(f) = Len(stored) - 1 /\ Len(stored) \in Nat
        /\ \A m, n \in DOMAIN f : f[m] = f[n] => m = n
        /\ Ga!Range(f) = Ga!Range(stored) \ {stored[i]}
    BY <1>6, <2>1, <2>3, GaDrops
  <2> QED BY <1>6, <2>2, <2>4
<1>8. GaStored'
  <2>1. ASSUME stored' # <<>> PROVE cover' \in Ga!Range(stored')
    <3>1. CASE cover # p
      <4>1. stored # <<>>
        BY <1>6
      <4> QED BY <1>4, <1>7, <3>1, <4>1 DEF GaHolds, GaStored
    <3>2. CASE cover = p
      <4>1. 1 \in DOMAIN stored'
        BY <1>7, <2>1
      <4> QED BY <1>4, <2>1, <3>2, <4>1 DEF Ga!Range
    <3> QED BY <3>1, <3>2
  <2> QED BY <1>7, <2>1 DEF GaStored, Ga!Range
<1>9. deleted' = TRUE
  <2>1. Len(stored') < Len(stored)
    BY <1>7
  <2>2. \A q \in Requests : q # k => call'[q] = call[q]
    BY <1>4 DEF GaHolds, Ga!Handled
  <2>3. ~Ga!TakenOver
    BY <1>1, <1>2, <2>2 DEF Ga!TakenOver, Ga!Ended, GaCalling
  <2> QED BY <2>1, <2>3 DEF Ga!MCNext
<1>10. PICK d : d = [call[k] EXCEPT !.step = "done", !.got = <<>>]
  OBVIOUS
<1>11. d.op = "delete" /\ d.id = p /\ d.was = shown
  BY <1>1, <1>2, <1>3, <1>10 DEF GaCalling, GaSent, GaFields
<1>12. PICK j : j = CHOOSE m \in DOMAIN shown : shown[m].id = p
  OBVIOUS
<1>13. j \in DOMAIN shown /\ shown[j].id = p
  BY <1>1, <1>2, <1>3, <1>12 DEF GaSent, Ga!Ids
<1>14. Ga!Answered(d) = Ga!Cut(shown, j)
  BY <1>11, <1>12 DEF Ga!Answered
<1>15. GaList(shown) /\ Ga!Ids(shown) = Ga!Range(stored)
  BY <1>1, <1>2 DEF GaSent, GaShows
<1>16. GaList(Ga!Answered(d)) /\ Ga!Ids(Ga!Answered(d)) = Ga!Ids(shown) \ {p}
  BY <1>13, <1>14, <1>15, GaWithout
<1>17. Ga!Ids(Ga!Answered(d)) = Ga!Range(stored')
  BY <1>7, <1>15, <1>16
<1>18. d.op \notin {"move", "save"}
  BY <1>11
<1> QED BY <1>1, <1>4, <1>8, <1>9, <1>10, <1>16, <1>17, <1>18, GaHandled

LEMMA GaRowsOf ==
    ASSUME NEW s \in Seq(Images), \A i, j \in DOMAIN s : s[i] = s[j] => i = j, NEW p, NEW f,
           f = [i \in DOMAIN s |-> [id |-> s[i], order |-> i - 1, cover |-> s[i] = p]]
    PROVE  GaList(f) /\ Ga!Ids(f) = Ga!Range(s)
<1>1. DOMAIN s = 1 .. Len(s) /\ Len(s) \in Nat /\ \A i \in 1 .. Len(s) : s[i] \in Images
  OBVIOUS
<1>2. ASSUME NEW i \in 1 .. Len(s) PROVE f[i] \in GaRow /\ f[i].id = s[i]
  <2>1. f[i] = [id |-> s[i], order |-> i - 1, cover |-> s[i] = p]
    BY <1>1
  <2>2. i - 1 \in Nat /\ (s[i] = p) \in BOOLEAN /\ s[i] \in Images
    BY <1>1
  <2> QED BY <2>1, <2>2 DEF GaRow
<1>3. DOMAIN f = 1 .. Len(s) /\ f = [i \in 1 .. Len(s) |-> f[i]]
  BY <1>1
<1>4. f \in Seq(GaRow)
  BY <1>1, <1>2, <1>3
<1>5. GaList(f)
  BY <1>1, <1>2, <1>3, <1>4 DEF GaList
<1>6. Ga!Ids(f) = Ga!Range(s)
  BY <1>1, <1>2, <1>3 DEF Ga!Ids, Ga!Range
<1> QED BY <1>5, <1>6

LEMMA GaCovers ==
    ASSUME GaHolds, Ga!MCNext, NEW k \in Requests, Ga!SetCover(k)
    PROVE  GaHolds'
<1>1. /\ call[k].step = "sent" /\ call[k].op = "cover" /\ UNCHANGED <<stored, shown, upload>>
      /\ call[k].id \in Ga!Range(stored) /\ cover' = call[k].id /\ Ga!Handled(k, <<>>)
  BY DEF Ga!SetCover, Ga!Handler
<1>2. GaSent(call[k]) /\ GaCalling(k)
  BY <1>1, GaMine
<1>3. GaStored'
  BY <1>1 DEF GaHolds, GaStored, Ga!Range
<1>4. PICK d : d = [call[k] EXCEPT !.step = "done", !.got = <<>>]
  OBVIOUS
<1>5. d.op = "cover" /\ d.id = cover' /\ d.was = shown
  BY <1>1, <1>2, <1>4 DEF GaCalling, GaSent, GaFields
<1>6. PICK f : f = Ga!Answered(d)
  OBVIOUS
<1>7. f = [i \in DOMAIN shown |-> [shown[i] EXCEPT !.cover = (shown[i].id = cover')]]
  BY <1>5, <1>6 DEF Ga!Answered
<1>8. GaList(shown) /\ Ga!Ids(shown) = Ga!Range(stored) /\ (~deleted => shown = Ga!Rows)
  BY <1>1, <1>2 DEF GaSent, GaShows
<1>9. /\ shown \in Seq(GaRow) /\ DOMAIN shown = 1 .. Len(shown) /\ Len(shown) \in Nat
      /\ \A m, n \in 1 .. Len(shown) : shown[m].id = shown[n].id => m = n
      /\ \A m \in 1 .. Len(shown) : shown[m] \in GaRow
  BY <1>8 DEF GaList
<1>10. ASSUME NEW i \in 1 .. Len(shown)
       PROVE  /\ f[i] \in GaRow /\ f[i].id = shown[i].id
              /\ f[i] = [id |-> shown[i].id, order |-> shown[i].order, cover |-> shown[i].id = cover']
  <2>1. f[i] = [shown[i] EXCEPT !.cover = (shown[i].id = cover')]
    BY <1>7, <1>9
  <2>2. PICK a \in Images, o \in Nat, c \in BOOLEAN : shown[i] = [id |-> a, order |-> o, cover |-> c]
    BY <1>9 DEF GaRow
  <2>3. f[i] = [id |-> a, order |-> o, cover |-> a = cover']
    BY <2>1, <2>2
  <2> QED BY <2>2, <2>3 DEF GaRow
<1>11. DOMAIN f = 1 .. Len(shown) /\ f = [i \in 1 .. Len(shown) |-> f[i]]
  BY <1>7, <1>9
<1>12. f \in Seq(GaRow)
  <2>1. \A i \in 1 .. Len(shown) : f[i] \in GaRow
    BY <1>10
  <2> QED BY <1>9, <1>11, <2>1
<1>13. GaList(f)
  BY <1>9, <1>10, <1>11, <1>12 DEF GaList
<1>14. Ga!Ids(f) = Ga!Range(stored')
  <2>1. Ga!Ids(f) = Ga!Ids(shown)
    BY <1>9, <1>10, <1>11 DEF Ga!Ids
  <2> QED BY <1>1, <1>8, <2>1
<1>15. ~Ga!TakenOver
  <2>1. \A q \in Requests : q # k => call'[q] = call[q]
    BY <1>1 DEF GaHolds, Ga!Handled
  <2> QED BY <1>1, <1>2, <2>1 DEF Ga!TakenOver, Ga!Ended, GaCalling
<1>16. deleted' = deleted
  BY <1>1, <1>15, GaNotTaken DEF GaHolds
<1>17. ASSUME ~deleted' PROVE f = Ga!Rows'
  <2>1. shown = [i \in DOMAIN stored |-> Ga!At(i)]
    BY <1>8, <1>16, <1>17 DEF Ga!Rows
  <2>2. DOMAIN stored = 1 .. Len(shown)
    BY <1>9, <2>1
  <2>3. Ga!Rows' = [i \in 1 .. Len(shown) |-> Ga!At(i)']
    BY <1>1, <2>2 DEF Ga!Rows
  <2>4. ASSUME NEW i \in 1 .. Len(shown) PROVE f[i] = Ga!At(i)'
    <3>1. shown[i] = [id |-> stored[i], order |-> i - 1, cover |-> stored[i] = cover]
      BY <2>1, <2>2 DEF Ga!At
    <3>2. shown[i].id = stored[i] /\ shown[i].order = i - 1
      BY <3>1
    <3>3. f[i] = [id |-> stored[i], order |-> i - 1, cover |-> stored[i] = cover']
      BY <1>10, <3>2
    <3>4. Ga!At(i)' = [id |-> stored[i], order |-> i - 1, cover |-> stored[i] = cover']
      BY <1>1 DEF Ga!At
    <3> QED BY <3>3, <3>4
  <2> QED BY <1>11, <2>3, <2>4
<1> QED BY <1>1, <1>3, <1>4, <1>5, <1>6, <1>13, <1>14, <1>17, GaHandled

LEMMA GaRowsNow ==
    ASSUME GaStored'
    PROVE  GaList(Ga!Rows') /\ Ga!Ids(Ga!Rows') = Ga!Range(stored')
<1>1. PICK s, p, f : s = stored' /\ p = cover' /\ f = Ga!Rows'
  OBVIOUS
<1>2. s \in Seq(Images) /\ \A i, j \in DOMAIN s : s[i] = s[j] => i = j
  BY <1>1 DEF GaStored
<1>3. f = [i \in DOMAIN s |-> [id |-> s[i], order |-> i - 1, cover |-> s[i] = p]]
  BY <1>1 DEF Ga!Rows, Ga!At
<1>4. GaList(f) /\ Ga!Ids(f) = Ga!Range(s)
  BY <1>2, <1>3, GaRowsOf
<1> QED BY <1>1, <1>4

LEMMA GaReorders ==
    ASSUME GaHolds, Ga!MCNext, NEW k \in Requests, Ga!ReorderImages(k)
    PROVE  GaHolds'
<1>1. /\ call[k].step = "sent" /\ call[k].op = "move" /\ UNCHANGED <<cover, shown, upload>>
      /\ Ga!Range(call[k].ids) = Ga!Range(stored) /\ stored' = call[k].ids
  BY DEF Ga!ReorderImages, Ga!Handler
<1>2. GaSent(call[k]) /\ GaCalling(k)
  BY <1>1, GaMine
<1>3. GaList(shown) /\ stored' = [i \in DOMAIN shown |-> shown[i].id]
  BY <1>1, <1>2 DEF GaSent
<1>4. /\ shown \in Seq(GaRow) /\ DOMAIN shown = 1 .. Len(shown) /\ Len(shown) \in Nat
      /\ \A m, n \in 1 .. Len(shown) : shown[m].id = shown[n].id => m = n
      /\ \A m \in 1 .. Len(shown) : shown[m].id \in Images
  <2>1. /\ shown \in Seq(GaRow) /\ DOMAIN shown = 1 .. Len(shown) /\ Len(shown) \in Nat
        /\ \A m, n \in 1 .. Len(shown) : shown[m].id = shown[n].id => m = n
    BY <1>3 DEF GaList
  <2>2. \A m \in 1 .. Len(shown) : shown[m] \in GaRow
    BY <2>1
  <2> QED BY <2>1, <2>2 DEF GaRow
<1>5. stored' \in Seq(Images) /\ \A m, n \in DOMAIN stored' : stored'[m] = stored'[n] => m = n
  BY <1>3, <1>4
<1>6. GaStored'
  <2>1. ASSUME stored' # <<>> PROVE cover' \in Ga!Range(stored')
    <3>1. 1 \in DOMAIN stored'
      BY <1>5, <2>1
    <3>2. Ga!Range(stored') # {}
      BY <3>1 DEF Ga!Range
    <3>3. Ga!Range(stored) # {}
      BY <1>1, <3>2
    <3>4. stored # <<>>
      BY <3>3 DEF Ga!Range
    <3> QED BY <1>1, <3>4 DEF GaHolds, GaStored
  <2> QED BY <1>5, <2>1 DEF GaStored, Ga!Range
<1>7. PICK got : got = [i \in DOMAIN call[k].ids |->
           [id |-> call[k].ids[i], order |-> i - 1, cover |-> call[k].ids[i] = cover]]
  OBVIOUS
<1>8. got = Ga!Rows' /\ Ga!Handled(k, got)
  <2>1. Ga!Handled(k, got)
    BY <1>7 DEF Ga!ReorderImages
  <2>2. got = Ga!Rows'
    BY <1>1, <1>7 DEF Ga!Rows, Ga!At
  <2> QED BY <2>1, <2>2
<1>9. PICK d : d = [call[k] EXCEPT !.step = "done", !.got = got]
  OBVIOUS
<1>10. d.op = "move" /\ d.got = got
  BY <1>1, <1>2, <1>9 DEF GaCalling, GaFields
<1>11. Ga!Answered(d) = got
  BY <1>10 DEF Ga!Answered
<1>12. GaList(got) /\ Ga!Ids(got) = Ga!Range(stored')
  BY <1>6, <1>8, GaRowsNow
<1> QED BY <1>1, <1>6, <1>8, <1>9, <1>11, <1>12, GaHandled

LEMMA GaSaves ==
    ASSUME GaHolds, Ga!MCNext, NEW k \in Requests, Ga!SaveDraft(k)
    PROVE  GaHolds'
<1>1. /\ call[k].step = "sent" /\ call[k].op = "save" /\ UNCHANGED <<stored, cover, shown, upload>>
      /\ Ga!Handled(k, Ga!Rows)
  BY DEF Ga!SaveDraft, Ga!Handler
<1>2. GaSent(call[k]) /\ GaCalling(k)
  BY <1>1, GaMine
<1>3. GaStored' /\ Ga!Rows' = Ga!Rows
  BY <1>1 DEF GaHolds, GaStored, Ga!Range, Ga!Rows, Ga!At
<1>4. PICK got, d : got = Ga!Rows /\ d = [call[k] EXCEPT !.step = "done", !.got = got]
  OBVIOUS
<1>5. d.op = "save" /\ d.got = got
  BY <1>1, <1>2, <1>4 DEF GaCalling, GaFields
<1>6. Ga!Answered(d) = got
  BY <1>5 DEF Ga!Answered
<1>7. GaList(got) /\ Ga!Ids(got) = Ga!Range(stored') /\ got = Ga!Rows' /\ Ga!Handled(k, got)
  BY <1>1, <1>3, <1>4, GaRowsNow
<1> QED BY <1>1, <1>3, <1>4, <1>6, <1>7, GaHandled

(* A call ends at a screen that shows the gallery.                         *)
LEMMA GaEnds ==
    ASSUME GaHolds, Ga!MCNext, NEW k \in Requests, GaCalling(k), call' = [call EXCEPT ![k] = Ga!None],
           UNCHANGED <<stored, cover, upload>>, GaShows(shown'), Ga!TakenOver => shown' = Ga!Rows
    PROVE  GaHolds'
<1>1. call' = [q \in Requests |-> call'[q]] /\ GaFree'
  BY DEF GaHolds, GaCalling, GaFree
<1>2. deleted' \in BOOLEAN
  BY DEF Ga!MCNext
<1>3. GaStored' /\ Ga!Rows' = Ga!Rows
  BY DEF GaHolds, GaStored, Ga!Range, Ga!Rows, Ga!At
<1>4. GaList(shown') /\ Ga!Ids(shown') = Ga!Range(stored') /\ (~deleted' => shown' = Ga!Rows)
  <2>1. CASE Ga!TakenOver
    BY <2>1 DEF GaShows
  <2>2. CASE ~Ga!TakenOver
    <3>1. deleted' = deleted
      BY <2>2, GaNotTaken DEF GaHolds
    <3> QED BY <3>1 DEF GaShows
  <2> QED BY <2>1, <2>2
<1>5. GaShows(shown)'
  BY <1>3, <1>4 DEF GaShows, GaList, Ga!Ids, Ga!Range
<1>6. GaResting'
  BY <1>1, <1>5 DEF GaResting, GaCalling
<1> QED BY <1>1, <1>2, <1>3, <1>6 DEF GaHolds

LEMMA GaAnswers ==
    ASSUME GaHolds, Ga!MCNext, NEW k \in Requests, call[k].step = "done",
           call' = [call EXCEPT ![k] = Ga!None], shown' = Ga!Answered(call[k]),
           UNCHANGED <<stored, cover, upload>>
    PROVE  GaHolds'
<1>1. GaDone(call[k]) /\ GaCalling(k)
  BY GaMine
<1>2. GaShows(shown')
  BY <1>1 DEF GaDone
<1>3. ASSUME Ga!TakenOver PROVE shown' = Ga!Rows
  <2>1. PICK q \in Requests : Ga!Ended(q) /\ call[q].op \in {"move", "save"} /\ shown' = call[q].got
    BY <1>3 DEF Ga!TakenOver
  <2>2. q = k
    BY <1>1, <2>1 DEF GaCalling, Ga!Ended
  <2> QED BY <1>1, <2>1, <2>2 DEF GaDone
<1> QED BY <1>1, <1>2, <1>3, GaEnds

LEMMA GaFails ==
    ASSUME GaHolds, Ga!MCNext, failed' = FALSE, NEW k \in Requests, Ga!Fails(k)
    PROVE  GaHolds'
<1>1. call[k] # Ga!None /\ call' = [call EXCEPT ![k] = Ga!None] /\ UNCHANGED <<stored, cover, shown, upload>>
  BY DEF Ga!Fails
<1>2. GaCalling(k)
  BY <1>1 DEF GaHolds, GaResting, GaSending, GaAdded, GaFree, GaCalling
<1>3. Ga!Ended(k) /\ ~Ga!Failing
  BY <1>1 DEF GaHolds, Ga!MCNext, Ga!Ended
<1>4. CASE call[k].step = "sent"
  <2>1. call[k].op # "move"
    BY <1>3, <1>4 DEF Ga!Failing
  <2>2. GaShows(shown')
    BY <1>1, <1>4, <2>1, GaMine DEF GaSent
  <2>3. ~Ga!TakenOver
    BY <1>1, <1>2, <1>4 DEF Ga!TakenOver, Ga!Ended, GaCalling
  <2> QED BY <1>1, <1>2, <2>2, <2>3, GaEnds
<1>5. CASE call[k].step = "done"
  <2>1. shown' = Ga!Answered(call[k])
    BY <1>3, <1>5 DEF Ga!Failing
  <2> QED BY <1>1, <1>5, <2>1, GaAnswers
<1> QED BY <1>2, <1>4, <1>5 DEF GaCalling, GaSent, GaDone

LEMMA GaNext == ASSUME GaInv, Ga!MCNext PROVE GaInv'
<1>1. crossed' \in BOOLEAN /\ failed' \in BOOLEAN
  BY DEF Ga!MCNext
<1>2. CASE crossed' \/ failed'
  BY <1>1, <1>2 DEF GaInv
<1>3. CASE ~crossed' /\ ~failed'
  <2>1. crossed' = FALSE /\ failed' = FALSE /\ ~crossed /\ ~failed
    BY <1>1, <1>3 DEF Ga!MCNext, GaInv
  <2>2. GaHolds
    BY <2>1 DEF GaInv
  <2> SUFFICES GaHolds'
    BY <1>1 DEF GaInv
  <2>3. CASE Ga!UploadImages \/ Ga!AddImage \/ Ga!Uploaded \/ Ga!UploadFails
    <3>1. CASE Ga!UploadImages
      BY <2>1, <2>2, <3>1, GaUploadBegins
    <3>2. CASE Ga!AddImage
      BY <2>2, <3>2, GaUploadAdds
    <3>3. CASE Ga!Uploaded
      BY <2>2, <3>3, GaUploaded
    <3>4. CASE Ga!UploadFails
      BY <2>1, <2>2, <3>4, GaUploadFails
    <3> QED BY <2>3, <3>1, <3>2, <3>3, <3>4
  <2>4. CASE Ga!DeleteButton \/ Ga!CoverButton \/ Ga!Autosave \/ Ga!MoveImage
    <3>1. CASE Ga!MoveImage
      BY <2>1, <2>2, <3>1, GaMoves
    <3>2. CASE ~Ga!MoveImage
      BY <2>1, <2>2, <2>4, <3>2, GaPresses
    <3> QED BY <3>1, <3>2
  <2>5. ASSUME NEW k \in Requests,
               \/ Ga!DeleteImage(k) \/ Ga!SetCover(k) \/ Ga!ReorderImages(k)
               \/ Ga!SaveDraft(k) \/ Ga!Answer(k) \/ Ga!Fails(k)
        PROVE  GaHolds'
    <3>1. CASE Ga!Answer(k)
      BY <2>2, <3>1, GaAnswers DEF Ga!Answer
    <3>2. CASE ~Ga!Answer(k)
      BY <2>1, <2>2, <2>5, <3>2, GaDeletes, GaCovers, GaReorders, GaSaves, GaFails
    <3> QED BY <3>1, <3>2
  <2>6. Ga!Next
    BY DEF Ga!MCNext
  <2> QED BY <2>3, <2>4, <2>5, <2>6 DEF Ga!Next
<1> QED BY <1>2, <1>3

LEMMA GaRests == ASSUME GaInv, UNCHANGED <<v1, v2, v3, v4, v5, v6, v7, v8>> PROVE GaInv'
<1>1. UNCHANGED <<call, crossed, upload, shown, stored, cover, failed, deleted>>
  OBVIOUS
<1>2. CASE crossed \/ failed
  BY <1>1, <1>2 DEF GaInv
<1>3. CASE ~crossed /\ ~failed
  <2>1. GaStored /\ Ga!Rows' = Ga!Rows /\ Ga!Range(stored)' = Ga!Range(stored)
    BY <1>1, <1>3 DEF GaInv, GaHolds, Ga!Rows, Ga!At, Ga!Range
  <2>2. \A s : GaList(s)' <=> GaList(s)
    BY DEF GaList
  <2>3. \A s : GaShows(s) => GaShows(s)'
    BY <1>1, GaSame
  <2>4. \A s, x : GaAdds(s, x) => GaAdds(s, x)'
    BY <1>1, GaSame
  <2>5. GaStored'
    BY <1>1, <2>1, GaSame
  <2>6. ASSUME NEW c PROVE (GaSent(c) => GaSent(c)') /\ (GaDone(c) => GaDone(c)')
    <3>1. GaList(shown)' <=> GaList(shown)
      BY <1>1 DEF GaList
    <3>2. GaShows(shown) => GaShows(shown)'
      BY <1>1, <2>3 DEF GaShows, GaList, Ga!Ids
    <3>3. Ga!Ids(shown)' = Ga!Ids(shown)
      BY <1>1 DEF Ga!Ids
    <3>4. GaSent(c) => GaSent(c)'
      BY <1>1, <2>1, <3>1, <3>2, <3>3 DEF GaSent
    <3>5. GaDone(c) => GaDone(c)'
      BY <2>1, <2>3 DEF GaDone, Ga!Answered
    <3> QED BY <3>4, <3>5
  <2>7. (GaResting => GaResting') /\ (GaSending => GaSending') /\ (GaAdded => GaAdded')
    <3>1. GaFree => GaFree'
      BY <1>1 DEF GaFree
    <3>2. GaShows(shown) => GaShows(shown)'
      BY <1>1, <2>3 DEF GaShows, GaList, Ga!Ids
    <3>3. ASSUME NEW x, GaAdds(shown, x) PROVE GaAdds(shown, x)'
      <4>1. GaList(shown)' /\ x \in GaRow
        BY <1>1, <3>3 DEF GaAdds, GaList
      <4>2. Ga!Ids(shown)' = Ga!Ids(shown)
        BY <1>1 DEF Ga!Ids
      <4>3. x.id \notin Ga!Ids(shown)' /\ Ga!Ids(shown)' \cup {x.id} = Ga!Range(stored)'
        BY <2>1, <3>3, <4>2 DEF GaAdds
      <4>4. ~deleted' => Append(shown', x) = Ga!Rows'
        BY <1>1, <2>1, <3>3 DEF GaAdds
      <4> QED BY <4>1, <4>3, <4>4 DEF GaAdds
    <3> QED BY <1>1, <3>1, <3>2, <3>3 DEF GaResting, GaSending, GaAdded
  <2>8. ASSUME NEW k \in Requests, GaCalling(k) PROVE GaCalling(k)'
    <3>1. PICK c : c = call[k]
      OBVIOUS
    <3>2. (GaSent(c) => GaSent(c)') /\ (GaDone(c) => GaDone(c)')
      BY <2>6
    <3> QED BY <1>1, <2>8, <3>1, <3>2 DEF GaCalling
  <2>9. GaHolds'
    BY <1>1, <1>3, <2>5, <2>7, <2>8 DEF GaInv, GaHolds
  <2> QED BY <1>1, <2>9 DEF GaInv
<1> QED BY <1>2, <1>3
HIDE DEF call, crossed, upload, shown, stored, cover, failed, deleted

-----------------------------------------------------------------------------
(* The form of the SEO landings.                                           *)
USE DEF call, crossed, form, landing, list, editing, preview

SeForm(s, f) == [scope |-> s, from |-> f]

SeLandings ==
    /\ landing \in [Tabs -> Images \cup {"none"}]
    /\ \A l, m \in Tabs : (l # m /\ landing[l] # "none") => landing[l] # landing[m]
(* A call under way was sent from the landing that is still being edited.  *)
SeInPlace ==
    /\ \E s, f : form = SeForm(s, f)
    /\ editing = form.from
    /\ \/ call = Se!None
       \/ /\ {"from", "step", "got"} \subseteq DOMAIN call
          /\ call.step # "none" /\ call.from = editing
SeInv == SeLandings /\ crossed \in BOOLEAN /\ (crossed \/ SeInPlace)

LEMMA SeInit == ASSUME Se!MCInit PROVE SeInv
<1>1. landing \in {f \in [Tabs -> Images \cup {"none"}] :
           \A l, m \in Tabs : l # m => f[l] = "none" \/ f[l] # f[m]}
  BY DEF Se!MCInit, Se!Init
<1>2. SeLandings
  BY <1>1 DEF SeLandings
<1>3. SeInPlace /\ crossed = FALSE
  BY DEF Se!MCInit, Se!Init, SeInPlace, SeForm, Se!Empty
<1> QED BY <1>2, <1>3 DEF SeInv

(* Two landings never share a scope, crossed or not.                       *)
LEMMA SeApart == ASSUME SeLandings, Se!Next PROVE SeLandings'
<1>1. CASE Se!Upsert
  <2>1. PICK l \in Tabs : ~Se!Taken(call.scope, l) /\ landing' = [landing EXCEPT ![l] = call.scope]
    BY <1>1 DEF Se!Upsert
  <2>2. PICK s \in Images : s = call.scope
    BY <1>1 DEF Se!Upsert
  <2>3. landing' \in [Tabs -> Images \cup {"none"}] /\ landing'[l] = s
        /\ \A m \in Tabs \ {l} : landing'[m] = landing[m]
    BY <2>1, <2>2 DEF SeLandings
  <2>4. \A m \in Tabs \ {l} : landing[m] # s
    BY <2>1, <2>2 DEF Se!Taken
  <2> QED BY <2>3, <2>4 DEF SeLandings
<1>2. CASE landing' = landing
  BY <1>2 DEF SeLandings
<1> QED BY <1>1, <1>2 DEF Se!Next, Se!SelectLanding, Se!Reset, Se!Fields, Se!RunPreview, Se!Save,
           Se!Send, Se!Preview, Se!Refused, Se!Answer, Se!AdminSeoPage

(* While no other landing is picked under a call, form and target agree.   *)
LEMMA SeStays ==
    ASSUME SeInPlace, Se!Next,
           ~(call.step # "none" /\ call' = call /\ editing' # editing)
    PROVE  SeInPlace'
<1>1. PICK s, f : form = SeForm(s, f)
  BY DEF SeInPlace
<1>2. editing = f
  BY <1>1 DEF SeInPlace, SeForm
<1>3. \/ call = Se!None
      \/ /\ {"from", "step", "got"} \subseteq DOMAIN call
         /\ call.step # "none" /\ call.from = editing
  BY DEF SeInPlace
<1>4. ASSUME call' = call, \E r : form' = SeForm(r, editing') PROVE SeInPlace'
  <2>1. call = Se!None \/ editing' = editing
    BY <1>3, <1>4
  <2>2. \/ call' = Se!None
        \/ /\ {"from", "step", "got"} \subseteq DOMAIN call'
           /\ call'.step # "none" /\ call'.from = editing'
    BY <1>3, <1>4, <2>1
  <2>3. PICK r : form' = SeForm(r, editing')
    BY <1>4
  <2>4. form'.from = editing'
    BY <2>3 DEF SeForm
  <2>5. \E q, h : form' = SeForm(q, h)
    BY <2>3
  <2> QED BY <2>2, <2>4, <2>5 DEF SeInPlace
<1>5. ASSUME NEW l \in Tabs, Se!SelectLanding(l) PROVE SeInPlace'
  <2>1. form' = SeForm(list[l], l) /\ editing' = l /\ call' = call
    BY <1>5 DEF Se!SelectLanding, SeForm
  <2> QED BY <1>4, <2>1
<1>6. CASE Se!Reset
  BY <1>4, <1>6 DEF Se!Reset, Se!Empty, SeForm
<1>7. CASE Se!Fields
  <2>1. PICK r : form' = [form EXCEPT !.scope = r]
    BY <1>7 DEF Se!Fields
  <2>2. form' = SeForm(r, f)
    BY <1>1, <2>1 DEF SeForm
  <2> QED BY <1>2, <1>4, <1>7, <2>2 DEF Se!Fields
<1>8. CASE Se!RunPreview \/ Se!Save
  <2>1. PICK o : Se!Send(o)
    BY <1>8 DEF Se!RunPreview, Se!Save
  <2>2. /\ call' = [op |-> o, to |-> editing, scope |-> form.scope, from |-> form.from,
                    step |-> "sent", got |-> "none"]
        /\ UNCHANGED <<form, editing>>
    BY <2>1 DEF Se!Send
  <2>3. {"from", "step", "got"} \subseteq DOMAIN call' /\ call'.step # "none" /\ call'.from = form.from
    BY <2>2
  <2> QED BY <2>2, <2>3 DEF SeInPlace
<1>9. CASE Se!Preview \/ Se!Upsert
  <2>1. UNCHANGED <<form, editing>> /\ call.step = "sent"
    BY <1>9 DEF Se!Preview, Se!Upsert
  <2>2. PICK g : call' = [call EXCEPT !.step = "done", !.got = g]
    BY <1>9 DEF Se!Preview, Se!Upsert
  <2>3. {"from", "step", "got"} \subseteq DOMAIN call /\ call.from = editing
    BY <1>3, <2>1 DEF Se!None
  <2>4. PICK c : c = call
    OBVIOUS
  <2> DEFINE d == [c EXCEPT !.step = "done", !.got = g]
  <2>5. DOMAIN d = DOMAIN c /\ d.step = "done" /\ d.from = c.from
    BY <2>3, <2>4
  <2>6. call' = d
    BY <2>2, <2>4
  <2> HIDE DEF d
  <2> QED BY <2>1, <2>3, <2>4, <2>5, <2>6 DEF SeInPlace
<1>10. CASE Se!Refused
  BY <1>10 DEF Se!Refused, SeInPlace
<1>11. CASE Se!Answer
  <2>1. call.from = editing /\ call' = Se!None
    BY <1>3, <1>11 DEF Se!Answer, Se!None
  <2>2. CASE call.op = "save"
    <3>1. editing' = call.got /\ form' = [form EXCEPT !.from = call.got]
      BY <1>1, <1>2, <1>11, <2>1, <2>2 DEF Se!Answer, SeForm
    <3>2. form' = SeForm(s, editing')
      BY <1>1, <3>1 DEF SeForm
    <3> QED BY <2>1, <3>2 DEF SeInPlace, SeForm
  <2>3. CASE call.op # "save"
    BY <1>11, <2>1, <2>3 DEF Se!Answer, SeInPlace
  <2> QED BY <2>2, <2>3
<1>12. CASE Se!AdminSeoPage
  <2>1. call = Se!None /\ call' = call /\ form' = Se!Empty /\ editing' = "new"
    BY <1>12 DEF Se!AdminSeoPage
  <2> QED BY <1>4, <2>1 DEF Se!Empty, SeForm
<1> QED BY <1>5, <1>6, <1>7, <1>8, <1>9, <1>10, <1>11, <1>12 DEF Se!Next

LEMMA SeNext == ASSUME SeInv, Se!MCNext PROVE SeInv'
<1>1. Se!Next /\ crossed' = (crossed \/ (call.step # "none" /\ call' = call /\ editing' # editing))
  BY DEF Se!MCNext
<1>2. SeLandings' /\ crossed' \in BOOLEAN
  BY <1>1, SeApart DEF SeInv
<1>3. CASE crossed'
  BY <1>2, <1>3 DEF SeInv
<1>4. CASE ~crossed'
  BY <1>1, <1>2, <1>4, SeStays DEF SeInv
<1> QED BY <1>3, <1>4

LEMMA SeRests == ASSUME SeInv, UNCHANGED <<v1, v2, v3, v4, v5, v6, v7>> PROVE SeInv'
BY DEF SeInv, SeLandings, SeInPlace

LEMMA SeSays == SeInv => Se!SavesTheEditedUnlessCrossed
BY DEF SeInv, SeLandings, SeInPlace, Se!SavesTheEditedUnlessCrossed
HIDE DEF call, crossed, form, landing, list, editing, preview

-----------------------------------------------------------------------------
(* The cards for social networks.                                          *)
USE DEF call, active, text, panel, urls, spent

ScPanels == [card : Tabs \cup {"none"}, busy : BOOLEAN]
ScSent ==
    [by : Pairs, input : Tabs, mine : BOOLEAN, aborted : BOOLEAN,
     step : {"sent", "charged", "running", "done"}, failed : BOOLEAN, drawn : Tabs \cup {"none"}]
ScType ==
    /\ text \in [Pairs -> Tabs] /\ panel \in [Pairs -> ScPanels]
    /\ call \in [Requests -> ScSent \cup {Sc!NoCall}]

ScHeld(c) == call[c] \in ScSent /\ call[c].mine
(* What a call draws is the text it was sent; the panel that waits for it  *)
(* waits for no other, and shows no card.                                  *)
ScWaits ==
    /\ \A e \in Pairs :
          /\ panel[e].card \in {"none", text[e]}
          /\ panel[e].busy => panel[e].card = "none" /\ \E c \in Requests : ScHeld(c) /\ call[c].by = e
    /\ \A c \in Requests : call[c] \in ScSent =>
          /\ call[c].drawn \in {"none", call[c].input}
          /\ ScHeld(c) => panel[call[c].by].busy /\ call[c].input = text[call[c].by]
    /\ \A c, d \in Requests : ScHeld(c) /\ ScHeld(d) /\ call[c].by = call[d].by => c = d
ScShown == {e \in Pairs : panel[e].card # "none"}
ScUrls == IsFiniteSet(ScShown) /\ urls = Cardinality(ScShown)
ScRunning == {c \in Requests : call[c].step = "running"}
ScPlaces ==
    /\ IsFiniteSet(ScRunning) /\ active = Cardinality(ScRunning) /\ active <= MaxConcurrent
ScInv == ScType /\ ScWaits /\ ScUrls /\ ScPlaces

LEMMA ScInit == ASSUME Sc!Init PROVE ScInv
<1>1. ScType
  BY DEF Sc!Init, Sc!Blank, Sc!None, ScType, ScPanels
<1>2. Sc!NoCall \notin ScSent
  BY DEF Sc!NoCall, ScSent
<1>3. ScWaits
  BY <1>2 DEF Sc!Init, Sc!Blank, Sc!None, ScWaits, ScHeld
<1>4. ScShown = {} /\ ScRunning = {}
  BY DEF Sc!Init, Sc!Blank, Sc!None, Sc!NoCall, ScShown, ScRunning
<1> QED BY <1>1, <1>3, <1>4, FS_EmptySet, ScreensAssumption DEF Sc!Init, ScInv, ScUrls, ScPlaces

(* One panel changes, and with it the URLs.                                *)
LEMMA ScOnePanel ==
    ASSUME ScInv, NEW e \in Pairs, NEW p \in ScPanels, panel' = [panel EXCEPT ![e] = p],
           urls' = (urls - Sc!Owns(e)) + IF p.card = "none" THEN 0 ELSE 1
    PROVE  /\ panel' \in [Pairs -> ScPanels] /\ panel'[e] = p
           /\ \A f \in Pairs \ {e} : panel'[f] = panel[f]
           /\ ScUrls'
<1>1. /\ panel' \in [Pairs -> ScPanels] /\ panel'[e] = p
      /\ \A f \in Pairs \ {e} : panel'[f] = panel[f]
  BY DEF ScInv, ScType
<1>2. IsFiniteSet(ScShown) /\ urls = Cardinality(ScShown) /\ urls \in Nat
  BY FS_CardinalityType DEF ScInv, ScUrls
<1>3. PICK rest : rest = ScShown \ {e}
  OBVIOUS
<1>4. IsFiniteSet(rest) /\ Cardinality(rest) = IF e \in ScShown THEN urls - 1 ELSE urls
  BY <1>2, <1>3, FS_RemoveElement
<1>5. Sc!Owns(e) = IF e \in ScShown THEN 1 ELSE 0
  BY DEF Sc!Owns, Sc!None, ScShown
<1>6. Cardinality(rest) = urls - Sc!Owns(e)
  BY <1>2, <1>4, <1>5
<1>7. CASE p.card = "none"
  <2>1. ScShown' = rest
    BY <1>1, <1>3, <1>7 DEF ScShown
  <2> QED BY <1>1, <1>2, <1>4, <1>5, <1>6, <1>7, <2>1 DEF ScUrls
<1>8. CASE p.card # "none"
  <2>1. ScShown' = rest \cup {e}
    BY <1>1, <1>3, <1>8 DEF ScShown
  <2>2. IsFiniteSet(rest \cup {e}) /\ Cardinality(rest \cup {e}) = Cardinality(rest) + 1
    BY <1>3, <1>4, FS_AddElement
  <2>3. urls' = Cardinality(rest) + 1
    BY <1>6, <1>8
  <2> QED BY <1>1, <2>1, <2>2, <2>3 DEF ScUrls
<1> QED BY <1>7, <1>8

(* One call changes, and with it the places taken.                         *)
LEMMA ScOneCall ==
    ASSUME ScInv, NEW c \in Requests, NEW d \in ScSent \cup {Sc!NoCall},
           call' = [call EXCEPT ![c] = d],
           \/ active' = active /\ (d.step = "running" <=> call[c].step = "running")
           \/ active' = active + 1 /\ active' <= MaxConcurrent /\ d.step = "running" /\ call[c].step # "running"
           \/ active' = active - 1 /\ d.step # "running" /\ call[c].step = "running"
    PROVE  /\ call' \in [Requests -> ScSent \cup {Sc!NoCall}] /\ call'[c] = d
           /\ \A b \in Requests \ {c} : call'[b] = call[b]
           /\ ScPlaces'
<1>1. /\ call' \in [Requests -> ScSent \cup {Sc!NoCall}] /\ call'[c] = d
      /\ \A b \in Requests \ {c} : call'[b] = call[b]
  BY DEF ScInv, ScType
<1>2. IsFiniteSet(ScRunning) /\ active = Cardinality(ScRunning) /\ active \in Nat /\ active <= MaxConcurrent
  BY FS_CardinalityType DEF ScInv, ScPlaces
<1>3. CASE active' = active /\ (d.step = "running" <=> call[c].step = "running")
  <2>1. ScRunning' = ScRunning
    BY <1>1, <1>3 DEF ScRunning
  <2> QED BY <1>1, <1>2, <1>3, <2>1 DEF ScPlaces
<1>4. CASE active' = active + 1 /\ active' <= MaxConcurrent /\ d.step = "running" /\ call[c].step # "running"
  <2>1. ScRunning' = ScRunning \cup {c} /\ c \notin ScRunning
    BY <1>1, <1>4 DEF ScRunning
  <2>2. IsFiniteSet(ScRunning \cup {c}) /\ Cardinality(ScRunning \cup {c}) = active + 1
    BY <1>2, <2>1, FS_AddElement
  <2> QED BY <1>1, <1>4, <2>1, <2>2 DEF ScPlaces
<1>5. CASE active' = active - 1 /\ d.step # "running" /\ call[c].step = "running"
  <2>1. ScRunning' = ScRunning \ {c} /\ c \in ScRunning
    BY <1>1, <1>5 DEF ScRunning
  <2>2. IsFiniteSet(ScRunning \ {c}) /\ Cardinality(ScRunning \ {c}) = active - 1
    BY <1>2, <2>1, FS_RemoveElement
  <2>3. active - 1 <= MaxConcurrent
    BY <1>2, ScreensAssumption
  <2> QED BY <1>1, <1>5, <2>1, <2>2, <2>3 DEF ScPlaces
<1> QED BY <1>1, <1>3, <1>4, <1>5

LEMMA ScFields ==
    ASSUME NEW c \in Requests, ScInv, call[c].step # "none"
    PROVE  /\ call[c] \in ScSent
           /\ call[c].drawn \in {"none", call[c].input} /\ call[c].input \in Tabs
BY DEF ScInv, ScType, ScWaits, Sc!NoCall, ScSent

(* What happens to a call at the endpoint, and to its subprocess.          *)
LEMMA ScServed ==
    ASSUME ScInv, NEW c \in Requests, call[c] \in ScSent,
           NEW d \in ScSent, d.by = call[c].by, d.input = call[c].input, d.mine = call[c].mine,
           d.drawn \in {"none", d.input}, call' = [call EXCEPT ![c] = d],
           UNCHANGED <<text, panel, urls>>,
           \/ active' = active /\ (d.step = "running" <=> call[c].step = "running")
           \/ active' = active + 1 /\ active' <= MaxConcurrent /\ d.step = "running" /\ call[c].step # "running"
           \/ active' = active - 1 /\ d.step # "running" /\ call[c].step = "running"
    PROVE  ScInv'
<1>1. /\ call' \in [Requests -> ScSent \cup {Sc!NoCall}] /\ call'[c] = d
      /\ \A b \in Requests \ {c} : call'[b] = call[b]
      /\ ScPlaces'
  BY ScOneCall
<1>2. ScType'
  BY <1>1 DEF ScInv, ScType
<1>3. ScUrls'
  BY DEF ScInv, ScUrls, ScShown
<1>4. \A b \in Requests : /\ call'[b] \in ScSent <=> call[b] \in ScSent
                          /\ call'[b].by = call[b].by /\ call'[b].input = call[b].input
                          /\ ScHeld(b)' <=> ScHeld(b)
                          /\ b # c => call'[b].drawn = call[b].drawn
  BY <1>1 DEF ScHeld
<1>5. ScWaits'
  <2>1. \A e \in Pairs :
          /\ panel'[e].card \in {"none", text'[e]}
          /\ panel'[e].busy => panel'[e].card = "none" /\ \E b \in Requests : ScHeld(b)' /\ call'[b].by = e
    BY <1>4 DEF ScInv, ScWaits
  <2>2. \A b \in Requests : call'[b] \in ScSent =>
          /\ call'[b].drawn \in {"none", call'[b].input}
          /\ ScHeld(b)' => panel'[call'[b].by].busy /\ call'[b].input = text'[call'[b].by]
    BY <1>1, <1>4 DEF ScInv, ScWaits
  <2>3. \A a, b \in Requests : ScHeld(a)' /\ ScHeld(b)' /\ call'[a].by = call'[b].by => a = b
    BY <1>4 DEF ScInv, ScWaits
  <2> QED BY <2>1, <2>2, <2>3 DEF ScWaits
<1> QED BY <1>1, <1>2, <1>3, <1>5 DEF ScInv

LEMMA ScServing ==
    ASSUME ScInv, NEW c \in Requests,
           \/ Sc!Refuse(c) \/ Sc!CreateRenderBudget(c) \/ Sc!RenderSocialCard(c) \/ Sc!Cancelled(c)
           \/ Sc!Stop(c) \/ Sc!RenderSocialCardCore(c) \/ Sc!Close(c)
    PROVE  ScInv'
<1>1. call[c].step # "none" /\ UNCHANGED <<text, panel, urls>>
  BY DEF Sc!Refuse, Sc!CreateRenderBudget, Sc!RenderSocialCard, Sc!Cancelled, Sc!Stop, Sc!RenderSocialCardCore, Sc!Close
<1>2. PICK r : r = call[c]
  OBVIOUS
<1>3. r \in ScSent /\ r.drawn \in {"none", r.input} /\ r.input \in Tabs
  BY <1>1, <1>2, ScFields
<1>4. call \in [Requests -> ScSent \cup {Sc!NoCall}]
  BY DEF ScInv, ScType
<1>5. ASSUME NEW st \in {"sent", "charged", "running", "done"}, call' = [call EXCEPT ![c].step = st],
             \/ active' = active /\ (st = "running" <=> r.step = "running")
             \/ active' = active + 1 /\ active' <= MaxConcurrent /\ st = "running" /\ r.step # "running"
      PROVE  ScInv'
  <2> DEFINE d == [r EXCEPT !.step = st]
  <2>1. call' = [call EXCEPT ![c] = d]
    BY <1>2, <1>4, <1>5
  <2>2. d \in ScSent /\ d.by = r.by /\ d.input = r.input /\ d.mine = r.mine /\ d.drawn = r.drawn /\ d.step = st
    BY <1>3 DEF ScSent
  <2> HIDE DEF d
  <2> QED BY <1>1, <1>2, <1>3, <1>5, <2>1, <2>2, ScServed
<1>6. CASE Sc!Refuse(c) \/ Sc!Cancelled(c)
  BY <1>2, <1>5, <1>6 DEF Sc!Refuse, Sc!Cancelled
<1>7. CASE Sc!CreateRenderBudget(c)
  BY <1>2, <1>5, <1>7 DEF Sc!CreateRenderBudget
<1>8. CASE Sc!RenderSocialCard(c)
  <2>1. active \in Nat /\ MaxConcurrent \in Nat
    BY FS_CardinalityType, ScreensAssumption DEF ScInv, ScPlaces
  <2>2. CASE active >= MaxConcurrent
    BY <1>2, <1>5, <1>8, <2>2 DEF Sc!RenderSocialCard
  <2>3. CASE ~(active >= MaxConcurrent)
    <3>1. active' = active + 1 /\ active + 1 <= MaxConcurrent
      BY <1>8, <2>1, <2>3 DEF Sc!RenderSocialCard
    <3> QED BY <1>2, <1>5, <1>8, <2>3, <3>1 DEF Sc!RenderSocialCard
  <2> QED BY <2>2, <2>3
<1>9. CASE Sc!Stop(c)
  <2> DEFINE d == [r EXCEPT !.failed = TRUE]
  <2>1. call' = [call EXCEPT ![c] = d] /\ active' = active
    BY <1>2, <1>4, <1>9 DEF Sc!Stop
  <2>2. d \in ScSent /\ d.by = r.by /\ d.input = r.input /\ d.mine = r.mine /\ d.drawn = r.drawn /\ d.step = r.step
    BY <1>3 DEF ScSent
  <2> HIDE DEF d
  <2> QED BY <1>1, <1>2, <1>3, <2>1, <2>2, ScServed
<1>10. CASE Sc!RenderSocialCardCore(c)
  <2> DEFINE d == [r EXCEPT !.drawn = r.input]
  <2>1. call' = [call EXCEPT ![c] = d] /\ active' = active
    BY <1>2, <1>4, <1>10 DEF Sc!RenderSocialCardCore
  <2>2. d \in ScSent /\ d.by = r.by /\ d.input = r.input /\ d.mine = r.mine /\ d.drawn = r.input /\ d.step = r.step
    BY <1>3 DEF ScSent
  <2> HIDE DEF d
  <2> QED BY <1>1, <1>2, <1>3, <2>1, <2>2, ScServed
<1>11. CASE Sc!Close(c)
  <2>1. PICK x \in {"none", r.input} : call' = [call EXCEPT ![c].step = "done", ![c].drawn = x]
    BY <1>2, <1>3, <1>4, <1>11 DEF Sc!Close, Sc!None
  <2> DEFINE d == [r EXCEPT !.step = "done", !.drawn = x]
  <2>2. call' = [call EXCEPT ![c] = d] /\ active' = active - 1 /\ r.step = "running"
    BY <1>2, <1>4, <1>11, <2>1 DEF Sc!Close
  <2>3. d \in ScSent /\ d.by = r.by /\ d.input = r.input /\ d.mine = r.mine /\ d.drawn = x /\ d.step = "done"
    BY <1>3 DEF ScSent
  <2> HIDE DEF d
  <2> QED BY <1>1, <1>2, <1>3, <2>1, <2>2, <2>3, ScServed
<1> QED BY <1>6, <1>7, <1>8, <1>9, <1>10, <1>11

LEMMA ScGenerates == ASSUME ScInv, NEW e \in Pairs, Sc!Generate(e) PROVE ScInv'
<1> DEFINE p == [card |-> "none", busy |-> TRUE]
           d == [by |-> e, input |-> text[e], mine |-> TRUE,
                 aborted |-> FALSE, step |-> "sent", failed |-> FALSE, drawn |-> "none"]
<1>1. PICK c \in Requests : call[c] = Sc!NoCall /\ call' = [call EXCEPT ![c] = d]
  BY DEF Sc!Generate, Sc!None
<1>2. p \in ScPanels /\ p.card = "none" /\ p.busy
  BY DEF ScPanels
<1>3. text[e] \in Tabs
  BY DEF ScInv, ScType
<1>4. /\ d \in ScSent /\ d.by = e /\ d.input = text[e] /\ d.mine /\ d.step = "sent" /\ d.drawn = "none"
  BY <1>3 DEF ScSent
<1>5. panel' = [panel EXCEPT ![e] = p] /\ urls' = urls - Sc!Owns(e) /\ UNCHANGED <<text, active>> /\ ~panel[e].busy
  BY DEF Sc!Generate, Sc!None
<1> HIDE DEF p, d
<1>6. /\ panel' \in [Pairs -> ScPanels] /\ panel'[e] = p
      /\ \A f \in Pairs \ {e} : panel'[f] = panel[f]
      /\ ScUrls'
  <2>1. urls \in Nat /\ Sc!Owns(e) \in Nat
    BY FS_CardinalityType DEF ScInv, ScUrls, Sc!Owns
  <2>2. urls' = (urls - Sc!Owns(e)) + IF p.card = "none" THEN 0 ELSE 1
    BY <1>2, <1>5, <2>1
  <2> QED BY <1>2, <1>5, <2>2, ScOnePanel
<1>7. Sc!NoCall.step = "none" /\ Sc!NoCall \notin ScSent
  BY DEF Sc!NoCall, ScSent
<1>8. /\ call' \in [Requests -> ScSent \cup {Sc!NoCall}] /\ call'[c] = d
      /\ \A b \in Requests \ {c} : call'[b] = call[b]
      /\ ScPlaces'
  BY <1>1, <1>4, <1>5, <1>7, ScOneCall
<1>9. ScType'
  BY <1>5, <1>6, <1>8 DEF ScInv, ScType
<1>10. ~ScHeld(c) /\ ScHeld(c)' /\ \A b \in Requests \ {c} : ScHeld(b)' <=> ScHeld(b)
  BY <1>1, <1>4, <1>7, <1>8 DEF ScHeld
<1>11. \A b \in Requests : ScHeld(b) => call[b].by \in Pairs \ {e}
  BY <1>5 DEF ScInv, ScWaits, ScHeld, ScSent
<1>12. ScWaits'
  <2>1. ASSUME NEW f \in Pairs
        PROVE  /\ panel'[f].card \in {"none", text'[f]}
               /\ panel'[f].busy => panel'[f].card = "none" /\ \E b \in Requests : ScHeld(b)' /\ call'[b].by = f
    <3>1. CASE f = e
      BY <1>2, <1>4, <1>6, <1>8, <1>10, <3>1
    <3>2. CASE f # e
      <4>1. panel'[f] = panel[f] /\ text'[f] = text[f]
        BY <1>5, <1>6, <3>2
      <4>2. panel[f].busy => \E b \in Requests : ScHeld(b) /\ call[b].by = f
        BY DEF ScInv, ScWaits
      <4>3. panel[f].busy => \E b \in Requests : ScHeld(b)' /\ call'[b].by = f
        BY <1>8, <1>10, <4>2
      <4> QED BY <4>1, <4>3 DEF ScInv, ScWaits
    <3> QED BY <3>1, <3>2
  <2>2. ASSUME NEW b \in Requests, call'[b] \in ScSent
        PROVE  /\ call'[b].drawn \in {"none", call'[b].input}
               /\ ScHeld(b)' => panel'[call'[b].by].busy /\ call'[b].input = text'[call'[b].by]
    <3>1. CASE b = c
      BY <1>2, <1>4, <1>5, <1>6, <1>8, <3>1
    <3>2. CASE b # c
      BY <1>5, <1>6, <1>8, <1>10, <1>11, <2>2, <3>2 DEF ScInv, ScWaits
    <3> QED BY <3>1, <3>2
  <2>3. ASSUME NEW a \in Requests, NEW b \in Requests, ScHeld(a)', ScHeld(b)', call'[a].by = call'[b].by
        PROVE  a = b
    <3>1. CASE a = c \/ b = c
      BY <1>4, <1>8, <1>10, <1>11, <2>3, <3>1
    <3>2. CASE a # c /\ b # c
      BY <1>8, <1>10, <2>3, <3>2 DEF ScInv, ScWaits
    <3> QED BY <3>1, <3>2
  <2> QED BY <2>1, <2>2, <2>3 DEF ScWaits
<1> QED BY <1>6, <1>8, <1>9, <1>12 DEF ScInv

(* The request a panel waits for ends, with a card or without.             *)
LEMMA ScAnswered ==
    ASSUME ScInv, NEW c \in Requests, ScHeld(c), NEW e \in Pairs, e = call[c].by,
           NEW p \in ScPanels, ~p.busy, p.card \in {"none", text[e]}, panel' = [panel EXCEPT ![e] = p],
           urls' = urls + IF p.card = "none" THEN 0 ELSE 1,
           NEW d \in ScSent \cup {Sc!NoCall},
           d \in ScSent => ~d.mine /\ d.drawn \in {"none", d.input},
           call' = [call EXCEPT ![c] = d],
           UNCHANGED <<text, active>>, d.step = "running" <=> call[c].step = "running"
    PROVE  ScInv'
<1>1. panel[e].busy /\ panel[e].card = "none"
  BY DEF ScInv, ScWaits, ScHeld
<1>2. /\ panel' \in [Pairs -> ScPanels] /\ panel'[e] = p
      /\ \A f \in Pairs \ {e} : panel'[f] = panel[f]
      /\ ScUrls'
  <2>1. urls \in Nat /\ Sc!Owns(e) = 0
    BY <1>1, FS_CardinalityType DEF ScInv, ScUrls, Sc!Owns, Sc!None
  <2>2. urls' = (urls - Sc!Owns(e)) + IF p.card = "none" THEN 0 ELSE 1
    BY <2>1
  <2> QED BY <2>2, ScOnePanel
<1>3. /\ call' \in [Requests -> ScSent \cup {Sc!NoCall}] /\ call'[c] = d
      /\ \A b \in Requests \ {c} : call'[b] = call[b]
      /\ ScPlaces'
  BY ScOneCall
<1>4. ScType'
  BY <1>2, <1>3 DEF ScInv, ScType
<1>5. ~ScHeld(c)' /\ \A b \in Requests \ {c} : ScHeld(b)' <=> ScHeld(b)
  BY <1>3 DEF ScHeld
<1>6. \A b \in Requests \ {c} : ScHeld(b) => call[b].by \in Pairs \ {e}
  BY DEF ScInv, ScWaits, ScHeld, ScSent
<1>7. ScWaits'
  <2>1. ASSUME NEW f \in Pairs
        PROVE  /\ panel'[f].card \in {"none", text'[f]}
               /\ panel'[f].busy => panel'[f].card = "none" /\ \E b \in Requests : ScHeld(b)' /\ call'[b].by = f
    <3>1. CASE f = e
      BY <1>2, <3>1
    <3>2. CASE f # e
      <4>1. panel'[f] = panel[f] /\ text'[f] = text[f]
        BY <1>2, <3>2
      <4>2. panel[f].busy => \E b \in Requests : ScHeld(b) /\ call[b].by = f
        BY DEF ScInv, ScWaits
      <4>3. panel[f].busy => \E b \in Requests : ScHeld(b)' /\ call'[b].by = f
        BY <1>3, <1>5, <3>2, <4>2
      <4> QED BY <4>1, <4>3 DEF ScInv, ScWaits
    <3> QED BY <3>1, <3>2
  <2>2. ASSUME NEW b \in Requests, call'[b] \in ScSent
        PROVE  /\ call'[b].drawn \in {"none", call'[b].input}
               /\ ScHeld(b)' => panel'[call'[b].by].busy /\ call'[b].input = text'[call'[b].by]
    <3>1. CASE b = c
      BY <1>3, <1>5, <2>2, <3>1
    <3>2. CASE b # c
      BY <1>2, <1>3, <1>5, <1>6, <2>2, <3>2 DEF ScInv, ScWaits
    <3> QED BY <3>1, <3>2
  <2>3. ASSUME NEW a \in Requests, NEW b \in Requests, ScHeld(a)', ScHeld(b)', call'[a].by = call'[b].by
        PROVE  a = b
    BY <1>3, <1>5, <2>3 DEF ScInv, ScWaits
  <2> QED BY <2>1, <2>2, <2>3 DEF ScWaits
<1> QED BY <1>2, <1>3, <1>4, <1>7 DEF ScInv

LEMMA ScGivesUp == ASSUME ScInv, NEW c \in Requests, Sc!GiveUp(c) PROVE ScInv'
<1>1. PICK r : r = call[c]
  OBVIOUS
<1>2. r \in ScSent /\ r.mine /\ r.drawn \in {"none", r.input}
  BY <1>1 DEF Sc!GiveUp, ScInv, ScType, ScWaits
<1>3. PICK e \in Pairs : e = r.by
  BY <1>2 DEF ScSent
<1> DEFINE d == [r EXCEPT !.mine = FALSE, !.aborted = TRUE]
           p == [card |-> "none", busy |-> FALSE]
<1>4. call' = [call EXCEPT ![c] = d] /\ panel' = [panel EXCEPT ![e] = p] /\ UNCHANGED <<text, urls, active>>
  <2>1. call \in [Requests -> ScSent \cup {Sc!NoCall}]
    BY DEF ScInv, ScType
  <2>2. call' = [call EXCEPT ![c] = d]
    BY <1>1, <2>1 DEF Sc!GiveUp
  <2> QED BY <1>1, <1>3, <2>2 DEF Sc!GiveUp, Sc!Blank, Sc!None
<1>5. d \in ScSent /\ ~d.mine /\ d.drawn = r.drawn /\ d.input = r.input /\ d.step = r.step
  BY <1>2 DEF ScSent
<1>6. p \in ScPanels /\ ~p.busy /\ p.card = "none"
  BY DEF ScPanels
<1> HIDE DEF d, p
<1>7. ScHeld(c)
  BY <1>1, <1>2 DEF ScHeld
<1>8. urls' = urls + IF p.card = "none" THEN 0 ELSE 1
  BY <1>4, <1>6, FS_CardinalityType DEF ScInv, ScUrls
<1> QED BY <1>1, <1>2, <1>3, <1>4, <1>5, <1>6, <1>7, <1>8, ScAnswered

LEMMA ScArrives == ASSUME ScInv, NEW c \in Requests, Sc!Arrive(c) PROVE ScInv'
<1>1. PICK r : r = call[c]
  OBVIOUS
<1>2. r \in ScSent /\ r.drawn \in {"none", r.input} /\ r.step = "done"
  BY <1>1, ScFields DEF Sc!Arrive
<1>3. PICK e \in Pairs : e = r.by
  BY <1>2 DEF ScSent
<1>4. PICK d : d = Sc!NoCall
  OBVIOUS
<1>5. d \in ScSent \cup {Sc!NoCall} /\ d \notin ScSent /\ d.step = "none"
  BY <1>4 DEF Sc!NoCall, ScSent
<1>6. call' = [call EXCEPT ![c] = d] /\ UNCHANGED <<text, active>>
  BY <1>4 DEF Sc!Arrive
<1>7. CASE r.mine
  <2> DEFINE p == [card |-> r.drawn, busy |-> FALSE]
  <2>1. p \in ScPanels /\ ~p.busy /\ p.card = r.drawn
    BY <1>2 DEF ScPanels, ScSent
  <2>2. panel' = [panel EXCEPT ![e] = p]
    BY <1>1, <1>3, <1>7 DEF Sc!Arrive
  <2> HIDE DEF p
  <2>3. urls' = urls + IF p.card = "none" THEN 0 ELSE 1
    BY <1>1, <1>7, <2>1, FS_CardinalityType DEF Sc!Arrive, Sc!None, ScInv, ScUrls
  <2>4. ScHeld(c) /\ r.input = text[e]
    BY <1>1, <1>2, <1>3, <1>7 DEF ScHeld, ScInv, ScWaits
  <2> QED BY <1>1, <1>2, <1>3, <1>5, <1>6, <2>1, <2>2, <2>3, <2>4, ScAnswered
<1>8. CASE ~r.mine
  <2>1. UNCHANGED <<panel, urls>>
    BY <1>1, <1>8 DEF Sc!Arrive
  <2>2. /\ call' \in [Requests -> ScSent \cup {Sc!NoCall}] /\ call'[c] = d
        /\ \A b \in Requests \ {c} : call'[b] = call[b]
        /\ ScPlaces'
    BY <1>1, <1>2, <1>5, <1>6, ScOneCall
  <2>3. \A b \in Requests : /\ ScHeld(b)' <=> ScHeld(b)
                            /\ ScHeld(b)' => call'[b] = call[b]
                            /\ call'[b] \in ScSent => call'[b] = call[b]
    BY <1>1, <1>5, <1>8, <2>2 DEF ScHeld
  <2>4. ScType' /\ ScUrls'
    BY <1>6, <2>1, <2>2 DEF ScInv, ScType, ScUrls, ScShown
  <2>5. ScWaits'
    <3>1. \A f \in Pairs :
             /\ panel'[f].card \in {"none", text'[f]}
             /\ panel'[f].busy => panel'[f].card = "none" /\ \E b \in Requests : ScHeld(b)' /\ call'[b].by = f
      BY <1>6, <2>1, <2>3 DEF ScInv, ScWaits
    <3>2. \A b \in Requests : call'[b] \in ScSent =>
             /\ call'[b].drawn \in {"none", call'[b].input}
             /\ ScHeld(b)' => panel'[call'[b].by].busy /\ call'[b].input = text'[call'[b].by]
      BY <1>6, <2>1, <2>3 DEF ScInv, ScWaits
    <3>3. \A a, b \in Requests : ScHeld(a)' /\ ScHeld(b)' /\ call'[a].by = call'[b].by => a = b
      BY <2>3 DEF ScInv, ScWaits
    <3> QED BY <3>1, <3>2, <3>3 DEF ScWaits
  <2> QED BY <2>2, <2>4, <2>5 DEF ScInv
<1> QED BY <1>7, <1>8

LEMMA ScEdits == ASSUME ScInv, NEW e \in Pairs, NEW t \in Tabs, Sc!Edit(e, t) PROVE ScInv'
<1> DEFINE p == [card |-> "none", busy |-> FALSE]
<1>1. p \in ScPanels /\ ~p.busy /\ p.card = "none"
  BY DEF ScPanels
<1>2. panel' = [panel EXCEPT ![e] = p] /\ urls' = urls - Sc!Owns(e) /\ active' = active
  BY DEF Sc!Edit, Sc!Blank, Sc!None
<1> HIDE DEF p
<1>3. /\ panel' \in [Pairs -> ScPanels] /\ panel'[e] = p
      /\ \A f \in Pairs \ {e} : panel'[f] = panel[f]
      /\ ScUrls'
  <2>1. urls \in Nat /\ Sc!Owns(e) \in Nat
    BY FS_CardinalityType DEF ScInv, ScUrls, Sc!Owns
  <2>2. urls' = (urls - Sc!Owns(e)) + IF p.card = "none" THEN 0 ELSE 1
    BY <1>1, <1>2, <2>1
  <2> QED BY <1>1, <1>2, <2>2, ScOnePanel
<1>4. text' \in [Pairs -> Tabs] /\ \A f \in Pairs \ {e} : text'[f] = text[f]
  BY DEF Sc!Edit, ScInv, ScType
<1>5. ASSUME NEW c \in Requests
      PROVE  /\ call'[c] \in ScSent \cup {Sc!NoCall}
             /\ call'[c] \in ScSent <=> call[c] \in ScSent
             /\ call'[c].by = call[c].by /\ call'[c].step = call[c].step
             /\ call'[c] \in ScSent => call'[c].input = call[c].input /\ call'[c].drawn = call[c].drawn
             /\ ScHeld(c)' <=> ScHeld(c) /\ call[c].by # e
  <2>1. PICK r : r = call[c]
    OBVIOUS
  <2>2. r \in ScSent \cup {Sc!NoCall} /\ Sc!NoCall \notin ScSent
    BY <2>1 DEF ScInv, ScType, Sc!NoCall, ScSent
  <2>3. CASE ScHeld(c) /\ r.by = e
    <3> DEFINE d == [r EXCEPT !.mine = FALSE, !.aborted = TRUE]
    <3>1. call'[c] = d
      BY <2>1, <2>3 DEF Sc!Edit, Sc!Waiting, ScHeld
    <3>2. r \in ScSent
      BY <2>1, <2>3 DEF ScHeld
    <3>3. d \in ScSent /\ d.by = r.by /\ d.step = r.step /\ d.input = r.input /\ d.drawn = r.drawn /\ ~d.mine
      BY <3>2 DEF ScSent
    <3> HIDE DEF d
    <3> QED BY <2>1, <2>3, <3>1, <3>2, <3>3 DEF ScHeld
  <2>4. CASE ~(ScHeld(c) /\ r.by = e)
    <3>1. c \notin Sc!Waiting(e)
      <4>1. CASE r \in ScSent
        BY <2>1, <2>4, <4>1 DEF Sc!Waiting, ScHeld
      <4>2. CASE r = Sc!NoCall
        <5>1. call[c].by = "none"
          BY <2>1, <4>2 DEF Sc!NoCall, Sc!None
        <5>2. e # "none"
          BY ScreensAssumption
        <5> QED BY <5>1, <5>2 DEF Sc!Waiting
      <4> QED BY <2>2, <4>1, <4>2
    <3>2. call'[c] = call[c]
      BY <3>1 DEF Sc!Edit
    <3> QED BY <2>1, <2>2, <2>4, <3>2 DEF ScHeld
  <2> QED BY <2>3, <2>4
<1>6. call' \in [Requests -> ScSent \cup {Sc!NoCall}]
  <2>1. call' = [c \in Requests |-> call'[c]]
    BY DEF Sc!Edit
  <2> QED BY <1>5, <2>1
<1>7. ScPlaces'
  <2>1. ScRunning' = ScRunning
    BY <1>5 DEF ScRunning
  <2> QED BY <1>2, <2>1 DEF ScInv, ScPlaces
<1>8. ScWaits'
  <2>1. ASSUME NEW f \in Pairs
        PROVE  /\ panel'[f].card \in {"none", text'[f]}
               /\ panel'[f].busy => panel'[f].card = "none" /\ \E b \in Requests : ScHeld(b)' /\ call'[b].by = f
    <3>1. CASE f = e
      BY <1>1, <1>3, <3>1
    <3>2. CASE f # e
      <4>1. panel'[f] = panel[f] /\ text'[f] = text[f]
        BY <1>3, <1>4, <3>2
      <4>2. panel[f].busy => \E b \in Requests : ScHeld(b) /\ call[b].by = f
        BY DEF ScInv, ScWaits
      <4>3. panel[f].busy => \E b \in Requests : ScHeld(b)' /\ call'[b].by = f
        BY <1>5, <3>2, <4>2
      <4> QED BY <4>1, <4>3 DEF ScInv, ScWaits
    <3> QED BY <3>1, <3>2
  <2>2. ASSUME NEW b \in Requests, call'[b] \in ScSent
        PROVE  /\ call'[b].drawn \in {"none", call'[b].input}
               /\ ScHeld(b)' => panel'[call'[b].by].busy /\ call'[b].input = text'[call'[b].by]
    <3>1. /\ call[b] \in ScSent /\ call'[b].drawn = call[b].drawn /\ call'[b].input = call[b].input
          /\ call'[b].by = call[b].by
          /\ ScHeld(b)' <=> ScHeld(b) /\ call[b].by # e
      BY <1>5, <2>2
    <3>2. call[b].by \in Pairs
      BY <3>1 DEF ScSent
    <3> QED BY <1>3, <1>4, <3>1, <3>2 DEF ScInv, ScWaits
  <2>3. ASSUME NEW a \in Requests, NEW b \in Requests, ScHeld(a)', ScHeld(b)', call'[a].by = call'[b].by
        PROVE  a = b
    BY <1>5, <2>3 DEF ScInv, ScWaits
  <2> QED BY <2>1, <2>2, <2>3 DEF ScWaits
<1> QED BY <1>3, <1>4, <1>6, <1>7, <1>8 DEF ScInv, ScType

LEMMA ScNext == ASSUME ScInv, Sc!Next PROVE ScInv'
<1>1. CASE Sc!MinutePasses
  BY <1>1 DEF Sc!MinutePasses, ScInv, ScType, ScWaits, ScHeld, ScUrls, ScShown, ScPlaces, ScRunning
<1> QED BY <1>1, ScGenerates, ScEdits, ScGivesUp, ScArrives, ScServing DEF Sc!Next

LEMMA ScRests == ASSUME ScInv, UNCHANGED <<v1, v2, v3, v4, v5, v6>> PROVE ScInv'
BY DEF ScInv, ScType, ScWaits, ScHeld, ScUrls, ScShown, ScPlaces, ScRunning

LEMMA ScSays == ASSUME ScInv PROVE Sc!CardsAreTheirs
<1>1. \A e \in Pairs : /\ panel[e].card \in {"none", text[e]}
                       /\ panel[e].busy => Sc!Waiting(e) # {}
  BY DEF ScInv, ScWaits, ScHeld, Sc!Waiting
<1>2. \A S : Sc!Cardinality(S) = Cardinality(S)
  BY DEF Sc!Cardinality, Cardinality
<1> QED BY <1>1, <1>2 DEF Sc!CardsAreTheirs, Sc!None, ScInv, ScUrls, ScShown, ScPlaces, ScRunning
HIDE DEF call, active, text, panel, urls, spent


-----------------------------------------------------------------------------
(* A behaviour is about one part, and only that part takes steps.          *)
(* The browse page's address and form send what the filter service         *)
(* accepts, after any order of edits over the catalogue of MCBrowse,       *)
(* unless a link beside the form dropped a filter others depend on         *)
(* (BrowseContent.tsx, FilterSidebar.tsx:58-121).                          *)
THEOREM BrowseIsAccepted == ScreensSpec => []BrowseAccepts
<1> DEFINE I == part = "browse" => BrInv
<1>1. ScreensInit => I
  BY BrInit DEF ScreensInit
<1>2. I /\ [ScreensNext]_all => I'
  <2> SUFFICES ASSUME I, [ScreensNext]_all PROVE I'
    OBVIOUS
  <2>1. part' = part
    BY DEF ScreensNext, all
  <2>2. ASSUME part = "browse" PROVE BrInv'
    <3>1. CASE ScreensNext
      <4>1. Br!MCNext
        BY <2>2, <3>1 DEF ScreensNext
      <4> QED BY <2>2, <4>1, BrNext
    <3>2. CASE UNCHANGED all
      <4>1. UNCHANGED <<v1, v2, v3, v4, v5, v6>>
        BY <3>2 DEF all
      <4> QED BY <2>2, <4>1, BrRests
    <3> QED BY <3>1, <3>2
  <2> QED BY <2>1, <2>2
<1>3. I => BrowseAccepts
  BY BrSays DEF BrowseAccepts
<1> QED BY <1>1, <1>2, <1>3, PTL DEF ScreensSpec

(* No late answer stays under the search box: suggestions for another text *)
(* are about to be replaced (SearchCombobox.tsx:53-90).                    *)
THEOREM SuggestionsAreFresh == ScreensSpec => []SuggestionsFresh
<1> DEFINE I == part = "search" => SbInv
<1>1. ScreensInit => I
  BY SbInit DEF ScreensInit
<1>2. I /\ [ScreensNext]_all => I'
  <2> SUFFICES ASSUME I, [ScreensNext]_all PROVE I'
    OBVIOUS
  <2>1. part' = part
    BY DEF ScreensNext, all
  <2>2. ASSUME part = "search" PROVE SbInv'
    <3>1. CASE ScreensNext
      <4>1. Sb!Next
        BY <2>2, <3>1 DEF ScreensNext
      <4> QED BY <2>2, <4>1, SbNext
    <3>2. CASE UNCHANGED all
      <4>1. UNCHANGED <<v1, v2, v3, v4, v5, v6, v7>>
        BY <3>2 DEF all
      <4> QED BY <2>2, <4>1, SbRests
    <3> QED BY <3>1, <3>2
  <2> QED BY <2>1, <2>2
<1>3. I => SuggestionsFresh
  BY SbSays DEF SuggestionsFresh
<1> QED BY <1>1, <1>2, <1>3, PTL DEF ScreensSpec

(* A notification that has not moved is in a tab's list or on the pages    *)
(* its button still loads, unless a first page arrived while a further one *)
(* was being loaded (NotificationCenter.tsx:40-94).                        *)
THEOREM NotificationsAreReachable == ScreensSpec => []NotificationsReachable
<1> DEFINE I == part = "center" => IbInv
<1>1. ScreensInit => I
  BY IbInit DEF ScreensInit
<1>2. I /\ [ScreensNext]_all => I'
  <2> SUFFICES ASSUME I, [ScreensNext]_all PROVE I'
    OBVIOUS
  <2>1. part' = part
    BY DEF ScreensNext, all
  <2>2. ASSUME part = "center" PROVE IbInv'
    <3>1. CASE ScreensNext
      <4>1. Ib!MCNext
        BY <2>2, <3>1 DEF ScreensNext
      <4> QED BY <2>2, <4>1, IbNext
    <3>2. CASE UNCHANGED all
      <4>1. UNCHANGED <<v1, v2, v3, v4, v5, v6, v7>>
        BY <3>2 DEF all
      <4> QED BY <2>2, <4>1, IbRests
    <3> QED BY <3>1, <3>2
  <2> QED BY <2>1, <2>2
<1>3. I => NotificationsReachable
  BY IbSays DEF NotificationsReachable
<1> QED BY <1>1, <1>2, <1>3, PTL DEF ScreensSpec

(* One sale has one buyer, and only the two sides review each other,       *)
(* unless two handlers worked on the listing at once or it was renewed     *)
(* after a sale (listing_service.py:473-591, reviews.py:17-58).            *)
THEOREM OneBuyerOnly == ScreensSpec => []OneBuyer
<1> DEFINE I == part = "sales" => SaInv
<1>1. ScreensInit => I
  BY SaInit DEF ScreensInit
<1>2. I /\ [ScreensNext]_all => I'
  <2> SUFFICES ASSUME I, [ScreensNext]_all PROVE I'
    OBVIOUS
  <2>1. part' = part
    BY DEF ScreensNext, all
  <2>2. ASSUME part = "sales" PROVE SaInv'
    <3>1. CASE ScreensNext
      <4>1. Sa!MCNext
        BY <2>2, <3>1 DEF ScreensNext
      <4> QED BY <2>2, <4>1, SaNext
    <3>2. CASE UNCHANGED all
      <4>1. UNCHANGED <<v1, v2, v3, v4, v5, v6, v7>>
        BY <3>2 DEF all
      <4> QED BY <2>2, <4>1, SaRests
    <3> QED BY <3>1, <3>2
  <2> QED BY <2>1, <2>2
<1>3. I => OneBuyer
  BY SaSays DEF OneBuyer
<1> QED BY <1>1, <1>2, <1>3, PTL DEF ScreensSpec

(* A favourite, follow or mute button at rest shows the mark that is       *)
(* stored, unless handlers raced or it was overtaken                       *)
(* (ListingActions.tsx:27-98, listing_service.py:443-471).                 *)
THEOREM ButtonsTellTruth == ScreensSpec => []ButtonsTell
<1> DEFINE I == part = "buttons" => CoInv
<1>1. ScreensInit => I
  BY CoInit DEF ScreensInit
<1>2. I /\ [ScreensNext]_all => I'
  <2> SUFFICES ASSUME I, [ScreensNext]_all PROVE I'
    OBVIOUS
  <2>1. part' = part
    BY DEF ScreensNext, all
  <2>2. ASSUME part = "buttons" PROVE CoInv'
    <3>1. CASE ScreensNext
      <4>1. Co!MCNext
        BY <2>2, <3>1 DEF ScreensNext
      <4> QED BY <2>2, <4>1, CoNext
    <3>2. CASE UNCHANGED all
      <4>1. UNCHANGED <<v1, v2, v3, v4, v5, v6, v7, v8, v9>>
        BY <3>2 DEF all
      <4> QED BY <2>2, <4>1, CoRests
    <3> QED BY <3>1, <3>2
  <2> QED BY <2>1, <2>2
<1>3. I => ButtonsTell
  BY CoSays DEF ButtonsTell
<1> QED BY <1>1, <1>2, <1>3, PTL DEF ScreensSpec

(* At most one request waits for approval and the paid periods follow one  *)
(* another, unless requests raced or an administrator set the end          *)
(* (feature_service.py:147-246).                                           *)
THEOREM PeriodsDoAddUp == ScreensSpec => []PeriodsAddUp
<1> DEFINE I == part = "promotions" => PrInv
<1>1. ScreensInit => I
  BY PrInit DEF ScreensInit
<1>2. I /\ [ScreensNext]_all => I'
  <2> SUFFICES ASSUME I, [ScreensNext]_all PROVE I'
    OBVIOUS
  <2>1. part' = part
    BY DEF ScreensNext, all
  <2>2. ASSUME part = "promotions" PROVE PrInv'
    <3>1. CASE ScreensNext
      <4>1. Pr!MCNext
        BY <2>2, <3>1 DEF ScreensNext
      <4> QED BY <2>2, <4>1, PrNext
    <3>2. CASE UNCHANGED all
      <4>1. UNCHANGED <<v1, v2, v3, v4, v5, v6, v7, v8, v9, v10>>
        BY <3>2 DEF all
      <4> QED BY <2>2, <4>1, PrRests
    <3> QED BY <3>1, <3>2
  <2> QED BY <2>1, <2>2
<1>3. I => PeriodsAddUp
  BY PrSays DEF PeriodsAddUp
<1> QED BY <1>1, <1>2, <1>3, PTL DEF ScreensSpec

(* A listing has one open case at most, decided cases do not wait, and a   *)
(* seller told of a removal had one, unless handlers raced or a call was   *)
(* lost (risk_service.py:161-190, moderation_case_service.py:168-230).     *)
THEOREM DecisionsDoStand == ScreensSpec => []DecisionsStand
<1> DEFINE I == part = "moderation" => MoInv
<1>1. ScreensInit => I
  BY MoInit DEF ScreensInit
<1>2. I /\ [ScreensNext]_all => I'
  <2> SUFFICES ASSUME I, [ScreensNext]_all PROVE I'
    OBVIOUS
  <2>1. part' = part
    BY DEF ScreensNext, all
  <2>2. ASSUME part = "moderation" PROVE MoInv'
    <3>1. CASE ScreensNext
      <4>1. Mo!MCNext
        BY <2>2, <3>1 DEF ScreensNext
      <4> QED BY <2>2, <4>1, MoNext
    <3>2. CASE UNCHANGED all
      <4>1. UNCHANGED <<v1, v2, v3, v4, v5, v6, v7, v8, v9, v10, v11, v12>>
        BY <3>2 DEF all
      <4> QED BY <2>2, <4>1, MoRests
    <3> QED BY <3>1, <3>2
  <2> QED BY <2>1, <2>2
<1>3. I => DecisionsStand
  BY MoSays DEF DecisionsStand
<1> QED BY <1>1, <1>2, <1>3, PTL DEF ScreensSpec

(* A number counts as verified, in the account and on the page, only if    *)
(* the code sent to it was entered, within the attempts allowed, unless a  *)
(* handler wrote over a newer row (phone_verification_service.py:209-298). *)
THEOREM VerifiedNumberIsProved == ScreensSpec => []VerifiedIsProved
<1> DEFINE I == part = "telephone" => PhInv
<1>1. ScreensInit => I
  BY PhInit DEF ScreensInit
<1>2. I /\ [ScreensNext]_all => I'
  <2> SUFFICES ASSUME I, [ScreensNext]_all PROVE I'
    OBVIOUS
  <2>1. part' = part
    BY DEF ScreensNext, all
  <2>2. ASSUME part = "telephone" PROVE PhInv'
    <3>1. CASE ScreensNext
      <4>1. Ph!MCNext
        BY <2>2, <3>1 DEF ScreensNext
      <4> QED BY <2>2, <4>1, PhNext
    <3>2. CASE UNCHANGED all
      <4>1. UNCHANGED <<v1, v2, v3, v4, v5, v6, v7, v8, v9>>
        BY <3>2 DEF all
      <4> QED BY <2>2, <4>1, PhRests
    <3> QED BY <3>1, <3>2
  <2> QED BY <2>1, <2>2
<1>3. I => VerifiedIsProved
  BY PhSays DEF VerifiedIsProved
<1> QED BY <1>1, <1>2, <1>3, PTL DEF ScreensSpec

(* At rest the screen of a listing's photographs shows those stored,       *)
(* unless calls crossed or failed (ListingImageManager.tsx:61-159); a save *)
(* goes to the landing page its form was filled from, unless another       *)
(* choice overtook it (SeoLandingManager.tsx:60-130); and the card on the  *)
(* screen is that of the text in the form (SocialPreview.tsx:9-73), while  *)
(* the places taken are the subprocesses there are (runner.ts:5-55).       *)
THEOREM EditorsDoShowTheirs == ScreensSpec => []EditorsShowTheirs
<1> DEFINE I == /\ (part = "manager" => GaInv)
             /\ (part = "seo" => SeInv)
             /\ (part = "card" => ScInv)
<1>1. ScreensInit => I
  BY GaInit, SeInit, ScInit DEF ScreensInit
<1>2. I /\ [ScreensNext]_all => I'
  <2> SUFFICES ASSUME I, [ScreensNext]_all PROVE I'
    OBVIOUS
  <2>1. part' = part
    BY DEF ScreensNext, all
  <2>2. ASSUME part = "manager" PROVE GaInv'
    <3>1. CASE ScreensNext
      <4>1. Ga!MCNext
        BY <2>2, <3>1 DEF ScreensNext
      <4> QED BY <2>2, <4>1, GaNext
    <3>2. CASE UNCHANGED all
      <4>1. UNCHANGED <<v1, v2, v3, v4, v5, v6, v7, v8>>
        BY <3>2 DEF all
      <4> QED BY <2>2, <4>1, GaRests
    <3> QED BY <3>1, <3>2
  <2>3. ASSUME part = "seo" PROVE SeInv'
    <3>1. CASE ScreensNext
      <4>1. Se!MCNext
        BY <2>3, <3>1 DEF ScreensNext
      <4> QED BY <2>3, <4>1, SeNext
    <3>2. CASE UNCHANGED all
      <4>1. UNCHANGED <<v1, v2, v3, v4, v5, v6, v7>>
        BY <3>2 DEF all
      <4> QED BY <2>3, <4>1, SeRests
    <3> QED BY <3>1, <3>2
  <2>4. ASSUME part = "card" PROVE ScInv'
    <3>1. CASE ScreensNext
      <4>1. Sc!Next
        BY <2>4, <3>1 DEF ScreensNext
      <4> QED BY <2>4, <4>1, ScNext
    <3>2. CASE UNCHANGED all
      <4>1. UNCHANGED <<v1, v2, v3, v4, v5, v6>>
        BY <3>2 DEF all
      <4> QED BY <2>4, <4>1, ScRests
    <3> QED BY <3>1, <3>2
  <2> QED BY <2>1, <2>2, <2>3, <2>4
<1>3. I => EditorsShowTheirs
  BY GaSays, SeSays, ScSays DEF EditorsShowTheirs
<1> QED BY <1>1, <1>2, <1>3, PTL DEF ScreensSpec
=============================================================================
