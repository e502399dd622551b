-------------------------------- MODULE Sales -------------------------------
(* The sale of one listing: the owner reserves it, sells it to a buyer     *)
(* chosen from the conversations, archives it and offers it again, from    *)
(* several tabs; seller and buyer then review each other.  The server      *)
(* tests the row it loaded and commits later.                              *)
EXTENDS Naturals, FiniteSets

CONSTANTS
    Tabs,      \* the owner's pages
    Requests,
    Buyers     \* who has a conversation about the listing

VARIABLES
    sale,      \* the listing: [status, buyer]
    told,      \* who has been notified that a purchase is recorded
    reviews,   \* <<reviewer, reviewee>>
    tab,       \* tab -> [shown, busy]: the status its list of listings shows, or
               \* another page; the action it waits for
    call       \* request -> [tab, page, action, buyer, step, loaded] or Free

vars == <<sale, told, reviews, tab, call>>

Nobody == "nobody"
Seller == "seller"
Public == {"active", "reserved"}
Elsewhere == {"edit", "listing"}
Free == [step |-> "free", tab |-> "none"]
People == Buyers \cup {Seller}
NotAllowed == [status |-> "none", buyer |-> Nobody]   \* also: nothing loaded yet

-----------------------------------------------------------------------------
(* ListingActions.tsx:257-309: the buttons; only the button of the action  *)
(* under way is disabled.                                                  *)
Buttons(t) ==
    {a \in {"reserve", "unreserve", "mark-sold", "archive"} :
        /\ tab[t].shown \notin Elsewhere /\ tab[t].busy # a
        /\ a = "reserve" => tab[t].shown = "active"
        /\ a = "unreserve" => tab[t].shown = "reserved"
        /\ a = "mark-sold" => tab[t].shown \in Public}

Request(t, page, a) ==
    [tab |-> t, page |-> page, action |-> a, buyer |-> Nobody,
     step |-> IF a = "mark-sold" THEN "choosing" ELSE "sent", loaded |-> NotAllowed]

(* ListingActions.tsx:237-243: selling first asks for the buyers and only  *)
(* then disables the button.                                               *)
RunAction(t, r, a) ==
    /\ a \in Buttons(t) /\ call[r] = Free
    /\ call' = [call EXCEPT ![r] = Request(t, "list", a)]
    /\ tab' = IF a = "mark-sold" THEN tab ELSE [tab EXCEPT ![t].busy = a]
    /\ UNCHANGED <<sale, told, reviews>>

(* CreateListingForm.tsx:684-698: the edit page has two buttons of its own *)
(* whatever the listing is, and disables none.                             *)
RunOwnerAction(t, r) ==
    /\ tab[t].shown = "edit" /\ call[r] = Free
    /\ \E a \in {"mark-sold", "archive"} : call' = [call EXCEPT ![r] = Request(t, "edit", a)]
    /\ UNCHANGED <<sale, told, reviews, tab>>

(* ListingActions.tsx:222-235: a buyer, none, or the dialog is cancelled.  *)
ChooseBuyerId(r) ==
    /\ call[r].step = "choosing"
    /\ \/ /\ \E b \in Buyers \cup {Nobody} :
                call' = [call EXCEPT ![r].step = "sent", ![r].buyer = b]
          /\ tab' = IF call[r].page = "list"
                    THEN [tab EXCEPT ![call[r].tab].busy = "mark-sold"] ELSE tab
       \/ call' = [call EXCEPT ![r] = Free] /\ UNCHANGED tab
    /\ UNCHANGED <<sale, told, reviews>>

(* nalog/oglasi/page.tsx:11-96: the page is rendered or refreshed.         *)
MyListingsPage(t) ==
    /\ tab[t].shown # sale.status
    /\ tab' = [tab EXCEPT ![t].shown = sale.status]
    /\ UNCHANGED <<sale, told, reviews, call>>

(* izmeni-oglas/[id]/page.tsx: the panel of the list is gone, its calls    *)
(* are not.                                                                *)
Unmounted(t) ==
    [r \in Requests |-> IF call[r].tab = t /\ call[r].page = "list"
                         THEN [call[r] EXCEPT !.page = "gone"] ELSE call[r]]
EditListingPage(t) ==
    /\ tab[t].shown # "edit"
    /\ tab' = [tab EXCEPT ![t] = [shown |-> "edit", busy |-> "none"]]
    /\ call' = Unmounted(t)
    /\ UNCHANGED <<sale, told, reviews>>

-----------------------------------------------------------------------------
Load(r) ==
    /\ call[r].step = "sent"
    /\ call' = [call EXCEPT ![r].step = "loaded", ![r].loaded = sale]
    /\ UNCHANGED <<sale, told, reviews, tab>>

(* The row as a handler leaves it, or NotAllowed: listing_service.py:      *)
(* 476-496, 539-547, 569-577, 583-588 and feature_service.py:275-293.      *)
X_Handled(a, row, buyer) ==   \* mutant
    CASE a = "mark-sold" -> [status |-> "sold", buyer |-> buyer]
      [] a = "reserve" -> IF row.status = "active" THEN [row EXCEPT !.status = "reserved"]
                          ELSE NotAllowed
      [] a = "unreserve" -> IF row.status = "reserved" THEN [row EXCEPT !.status = "active"]
                            ELSE NotAllowed
      [] a = "archive" -> [row EXCEPT !.status = "archived"]
      [] a = "renew" -> IF row.status \in {"reserved", "sold"} THEN NotAllowed
                        ELSE [row EXCEPT !.status = "active"]
Handled(a, row, buyer) ==
    CASE a = "mark-sold" -> IF row.status \in Public
                            THEN [status |-> "sold", buyer |-> buyer] ELSE NotAllowed
      [] a = "reserve" -> IF row.status = "active" THEN [row EXCEPT !.status = "reserved"]
                          ELSE NotAllowed
      [] a = "unreserve" -> IF row.status = "reserved" THEN [row EXCEPT !.status = "active"]
                            ELSE NotAllowed
      [] a = "archive" -> [row EXCEPT !.status = "archived"]
      [] a = "renew" -> IF row.status \in {"reserved", "sold"} THEN NotAllowed
                        ELSE [row EXCEPT !.status = "active"]

Merge(loaded, new) ==
    [c \in DOMAIN sale |-> IF new[c] = loaded[c] THEN sale[c] ELSE new[c]]

(* ListingActions.tsx:250, CreateListingForm.tsx:706-713: what the tab      *)
(* shows after a success.  The list is refreshed; the edit page leaves for *)
(* the list or for the listing, wherever the seller has gone since.        *)
Lands(c) ==
    CASE c.page = "edit" /\ c.action = "mark-sold" -> "listing"
      [] c.page = "edit" /\ c.action = "archive" -> sale'.status
      [] c.page # "edit" -> IF tab[c.tab].shown \in Elsewhere THEN tab[c.tab].shown ELSE sale'.status

(* The commit with its notice to the buyer (listing_service.py:519-535),   *)
(* and its answer, which may be lost.                                      *)
Commit(r) ==
    LET c == call[r]
        new == Handled(c.action, c.loaded, c.buyer)
    IN
    /\ c.step = "loaded" /\ c.action \notin {"review", "renew"}
    /\ IF new = NotAllowed THEN UNCHANGED <<sale, told>>
       ELSE /\ sale' = Merge(c.loaded, new)
            /\ told' = told \cup (IF c.action = "mark-sold" THEN {c.buyer} \ {Nobody} ELSE {})
    /\ \E shown \in {tab[c.tab].shown} \cup (IF new = NotAllowed THEN {} ELSE {Lands(c)}) :
          /\ tab' = [tab EXCEPT ![c.tab].shown = shown,
                        ![c.tab].busy = IF c.page = "list" \/ shown \in Elsewhere THEN "none" ELSE @]
          /\ call' = [(IF shown \in Elsewhere THEN Unmounted(c.tab) ELSE call) EXCEPT ![r] = Free]
    /\ UNCHANGED reviews

(* feature_service.py:273-295: renewal, which has no button.               *)
RenewListing ==
    LET new == Handled("renew", sale, Nobody) IN
    /\ new # NotAllowed /\ sale' = new
    /\ UNCHANGED <<told, reviews, tab, call>>

-----------------------------------------------------------------------------
(* users.py:220-264 and ReviewForm.tsx: a form for the other side of every *)
(* sold listing not yet reviewed.                                          *)
MyReviews(p) ==
    IF sale.status # "sold" \/ sale.buyer = Nobody \/ p \notin {Seller, sale.buyer} THEN {}
    ELSE {q \in {Seller, sale.buyer} \ {p} : <<p, q>> \notin reviews}

ReviewForm(r, from, to) ==
    /\ call[r] = Free /\ to \in MyReviews(from)
    /\ call' = [call EXCEPT ![r] = [tab |-> "none", action |-> "review", step |-> "sent",
                                    loaded |-> NotAllowed, from |-> from, to |-> to]]
    /\ UNCHANGED <<sale, told, reviews, tab>>

(* reviews.py:17-58; one review per reviewer and reviewee.                 *)
CreateReview(r) ==
    LET c == call[r] IN
    /\ c.step = "loaded" /\ c.action = "review"
    /\ reviews' = IF /\ c.loaded.status = "sold"
                     /\ {c.from, c.to} \subseteq {Seller, c.loaded.buyer}
                  THEN reviews \cup {<<c.from, c.to>>} ELSE reviews
    /\ call' = [call EXCEPT ![r] = Free]
    /\ UNCHANGED <<sale, told, tab>>

Init ==
    /\ sale = [status |-> "active", buyer |-> Nobody]
    /\ told = {} /\ reviews = {}
    /\ tab = [t \in Tabs |-> [shown |-> "active", busy |-> "none"]]
    /\ call = [r \in Requests |-> Free]

Next ==
    \/ \E t \in Tabs : MyListingsPage(t) \/ EditListingPage(t)
    \/ \E t \in Tabs, r \in Requests : RunOwnerAction(t, r) \/ \E a \in Buttons(t) : RunAction(t, r, a)
    \/ \E r \in Requests : ChooseBuyerId(r) \/ Load(r) \/ Commit(r) \/ CreateReview(r)
    \/ \E r \in Requests, from, to \in People : ReviewForm(r, from, to)
    \/ RenewListing

Spec == Init /\ [][Next]_vars
=============================================================================
