------------------------------ MODULE MCControls ----------------------------
(* Controls with two histories: a handler committed while another one had  *)
(* loaded its rows (raced), and the buttons whose mark was changed by      *)
(* another button or whose answer was lost (overtaken).                    *)
EXTENDS Controls

VARIABLES raced, overtaken

Working(step) == {b \in Buttons : call[b].step = step}
Done    == {b \in Working("loaded") : call'[b].step = "done"}
Changed == IF fans' # fans THEN Done ELSE {}
Opened  == {b \in Buttons : call' = call /\ (page'[b[1]] # page[b[1]] \/ shown'[b] # shown[b])}

Unanswered == {b \in Working("done") :
    call'[b] = None /\ shown' = shown /\ shown[b] # call[b].want}
Rivals == {b \in Buttons : \E d \in Changed : d # b /\ owner[d[1]] = owner[b[1]]}

MCInit == Init /\ raced = FALSE /\ overtaken = {}
MCNext ==
    /\ Next
    /\ raced' = (raced \/ \E b \in Changed : Working("loaded") # {b})
    /\ overtaken' = ((overtaken \cup Unanswered \cup Rivals) \ (Done \cup Opened))
           \cup {b \in Opened : page'[b[1]] = "cards" /\ Stored(b[1])}

(* Two tabs do not both show lists, whose buttons are those of a listing;  *)
(* the marks of two users meet in the counter of favourites only.          *)
Explored == /\ ~raced
            /\ \A t, u \in Tabs :
                  t # u => /\ page[t] = "listing" \/ page[u] \notin {"cards", "favorites"}
                           /\ kind = "favorite" \/ owner[t] = owner[u]

(* A button at rest shows the mark that is stored, and the counter of a    *)
(* listing counts its favourites (ListingActions.tsx:27-98,                *)
(* FollowSellerButton.tsx:22-60, listing_service.py:443-471): not when a   *)
(* handler raced, another button of the same user changed the mark since,  *)
(* its answer was lost, or it is on a card, which is rendered unmarked.    *)
ButtonsTellUnlessOvertaken ==
    \/ raced
    \/ /\ kind = "favorite" => count = Cardinality(fans)
       /\ \A b \in Buttons \ overtaken :
              Mounted(b) /\ call[b] = None => shown[b] = Stored(b[1])
=============================================================================
