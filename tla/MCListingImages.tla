--------------------------- MODULE MCListingImages ---------------------------
(* Values for the constants of ListingImages, and what its requests owe to *)
(* each other's absence: stale remembers that a request once worked on a   *)
(* gallery that another had changed since it was read; repeated, that,     *)
(* with no such race, a new order which named an image twice has left a    *)
(* gap or a tie, and that the orders have not been whole again since.      *)
EXTENDS ListingImages, TLC

VARIABLES stale, repeated

Overtaken(r) == /\ step[r] \in {"loaded", "stored"}
                /\ \E i \in Rows(seen[r]) \cup Gallery : seen[r][i] # image[i]

Repeats(r) == LET mine == Rows(seen[r]) IN
              \E place \in Places(mine) \ Ranks(mine) : ReorderTo(r, place)

MCInit == Init /\ stale = FALSE /\ repeated = FALSE
MCNext ==
    /\ Next
    /\ stale'    = (stale \/ \E r \in Requests : Overtaken(r)')
    /\ repeated' = (/\ ~(stale' \/ InOrder')
                    /\ repeated \/ \E r \in Requests : Repeats(r))
MCSpec == MCInit /\ [][MCNext]_<<vars, stale, repeated>>

(* Bound: after a race, which may leave gaps and ties as well, an order    *)
(* with a place beyond the number of images is followed no further.        *)
ImagesExplored == stale => \A i \in Gallery : image[i].order < Cardinality(Gallery)

ImageSymmetry == Permutations(Images) \cup Permutations(Requests)

(* While no request works on a stale gallery, uploads, deletions, cover    *)
(* changes and reorderings leave one cover and no more images than         *)
(* allowed, and number them without a gap or a tie, until a new order      *)
(* names an image twice (listing_service.py:593-656).                      *)
GalleryUnlessStale ==
    stale \/ (OneCover /\ WithinLimit /\ (repeated \/ InOrder))
=============================================================================
