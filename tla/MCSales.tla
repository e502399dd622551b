------------------------------- MODULE MCSales ------------------------------
(* Sales with two histories: two handlers worked on the listing at once    *)
(* (raced), and a sold listing was renewed and can be sold again (resold). *)
EXTENDS Sales

VARIABLES raced, resold

Loaded == {r \in Requests : call[r].step = "loaded"}
Racing == \/ \E r \in Loaded : call'[r].step = "free" /\ Loaded # {r}
          \/ RenewListing /\ Loaded # {}

MCInit == Init /\ raced = FALSE /\ resold = FALSE
MCNext == /\ Next
          /\ raced' = (raced \/ Racing)
          /\ resold' = (resold \/ (RenewListing /\ sale.buyer # Nobody))

(* What follows is not explored: the property says nothing there.  One of  *)
(* the tabs still shows the listing on sale, the edit page has one call    *)
(* under way, and no other call is under way with a review.                *)
Explored == /\ ~raced /\ ~resold
            /\ \A t, u \in Tabs : t # u => {tab[t].shown, tab[u].shown} \cap Public # {}
            /\ \A q, r \in Requests :
                  q # r => \/ Free \in {call[q], call[r]}
                           \/ /\ "none" \notin {call[q].tab, call[r].tab}
                              /\ "list" \in {call[q].page, call[r].page}

(* One sale has one buyer: nobody else is told of it or asked for a        *)
(* review, and only the two sides review each other, whatever the tabs of  *)
(* the seller show (listing_service.py:473-591, reviews.py:17-58).         *)
OneBuyerUnlessRaced ==
    \/ raced \/ resold
    \/ told \subseteq {sale.buyer} /\ \A v \in reviews : {v[1], v[2]} = {Seller, sale.buyer}
=============================================================================
