----------------------------- MODULE MCPromotions ---------------------------
(* Promotions with two histories: a handler or the clearing worker wrote   *)
(* what it computed from rows that have changed since (raced), and an      *)
(* administrator set the end of a period by hand (cut).                    *)
EXTENDS Promotions

VARIABLES raced, cut

Paid == {o \in Orders : order[o].status = "paid"}
Loaded(c) == call[c].step = "loaded"
Stale(c) == call[c].until # until \/ call[c].pending # Pending

MCInit == Init /\ raced = FALSE /\ cut = FALSE
MCNext ==
    /\ Next
    /\ raced' = \/ raced
                \/ \E c \in Calls : Loaded(c) /\ call'[c] # call[c] /\ Stale(c)
                \/ clearing /\ ~clearing' /\ until >= now
    /\ cut' = (cut \/ \E c \in Calls : Loaded(c) /\ call[c].op = "set" /\ call'[c].step = "done")

Explored == ~raced /\ ~cut

(* At most one request waits for approval, and the paid periods of a       *)
(* featured listing or a shop follow one another: none is lost in another, *)
(* and the promotion lasts until the end of the last                       *)
(* (feature_service.py:147-246).                                           *)
PeriodsAddUpUnlessRaced ==
    \/ raced \/ cut
    \/ /\ Cardinality(Pending) <= 1
       /\ good \in {"featured", "shop"} =>
              \A o \in Paid :
                  /\ until >= order[o].ends \/ order[o].ends < now
                  /\ \A p \in Paid \ {o} : \/ order[o].ends <= order[p].starts
                                           \/ order[p].ends <= order[o].starts
=============================================================================
