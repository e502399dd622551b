--------------------------- MODULE MCBlogArticles ---------------------------
(* Values for the constants of BlogArticles.  Image ids are numbers, whose *)
(* order the locks follow, so they are not symmetric.  stale remembers the *)
(* articles one of whose saves was committed between another save's test   *)
(* of the canonical row and its commit.                                    *)
EXTENDS BlogArticles, TLC

VARIABLE stale

Overtakes(e, p) == /\ tx[e].op = "save" /\ tx[e].at = "checked" /\ tx[e].post = p
                   /\ posts'[p] # posts[p] /\ tx'[e] = tx[e]

MCInit == Init /\ stale = {}
MCNext == /\ Next
          /\ stale' = stale \cup {p \in Articles : \E e \in Editors : Overtakes(e, p)}
MCSpec == MCInit /\ [][MCNext]_<<vars, stale>>

ArticleSymmetry == Permutations(Editors)

(* cms/CONTENT_API.md:104-106: slugs freeze after the first publication;   *)
(* so they do, as long as no save of the article overtakes another one     *)
(* between its test and its commit (Posts.ts:11-57).                       *)
FixedUnlessStale ==
    [][\A p \in Articles : p \in stale \/ Fixed(p)]_<<vars, stale>>
=============================================================================
