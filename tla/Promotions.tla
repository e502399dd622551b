----------------------------- MODULE Promotions -----------------------------
(* The paid orders for one good: a promotion of a listing ("featured",     *)
(* "homepage", "bump") or the subscription of a shop.  A seller asks for   *)
(* an order, an administrator confirms the payment or rejects it, and the  *)
(* end of the paid period is moved.  Handlers read, then commit.           *)
EXTENDS Naturals, FiniteSets

CONSTANTS
    Calls,
    Orders,
    Days,      \* the length of a package
    MaxTime    \* bound on the clock

VARIABLES
    good,      \* what is ordered
    now,
    until,     \* listings.featured_until or profiles.shop_active_until, 0 for none
    order,     \* the orders and subscription requests
    ready,     \* "yes": the listing is active, the shop has a name and a tax number
    clearing,  \* the worker has read the listing as expired
    page,      \* "seller", "admin" -> [open, shows, live]: what it was rendered with
    call       \* call -> [tab, op, order, step, until, pending] or None

vars == <<good, now, until, order, ready, clearing, page, call>>
server == <<now, until, order, ready, clearing>>

None == [step |-> "none"]
Pending == {o \in Orders : order[o].status = "pending"}
Under(t) == {c \in Calls : call[c] # None /\ call[c].tab = t}
Asking(t, op) == \E c \in Under(t) : call[c].op = op
Max2(a, b) == IF a > b THEN a ELSE b

(* What the page of a tab shows: the pending orders, and whether it has    *)
(* the controls that need an active listing or an active shop.             *)
Rendered ==
    [open |-> TRUE, shows |-> Pending,
     live |-> IF good = "shop" THEN until > now ELSE ready = "yes"]
Render(t) ==
    /\ Under(t) = {} /\ page' = [page EXCEPT ![t] = Rendered]
    /\ UNCHANGED <<good, server, call>>

MyListingsPage    == good # "shop" /\ Render("seller")
FeaturedAdminPage == good # "shop" /\ Render("admin")
AccountShopPage   == good = "shop" /\ Render("seller")
AdminShopsPage    == good = "shop" /\ Render("admin")

-----------------------------------------------------------------------------
(* The buttons.                                                            *)
Send(t, op, o) ==
    /\ page[t].open
    /\ \E c \in Calls :
          /\ call[c] = None
          /\ call' = [call EXCEPT ![c] = [tab |-> t, op |-> op, order |-> o,
                          step |-> "sent", until |-> 0, pending |-> {}]]
    /\ UNCHANGED <<good, server, page>>
Ask ==
    /\ page["seller"].shows = {}
    /\ \E o \in Orders : order[o].status = "new" /\ Send("seller", "request", o)

FeatureRequestPanel ==
    good # "shop" /\ page["seller"].live /\ ~Asking("seller", "request") /\ Ask

(* Two submits of one form; asking is not guarded while a call is under    *)
(* way.                                                                    *)
ShopSettingsForm ==
    good = "shop" /\ (Ask \/ (~Asking("seller", "save") /\ Send("seller", "save", "none")))

FeatureRequestManager ==
    /\ good # "shop"
    /\ \E o \in page["admin"].shows, op \in {"approve", "reject"} : Send("admin", op, o)

FeatureListingManager ==
    good # "shop" /\ page["admin"].live /\ Send("admin", "set", "none")

ShopSubscriptionManager ==
    /\ good = "shop"
    /\ \E o \in page["admin"].shows, op \in {"approve", "reject"} :
          (\A c \in Under("admin") : call[c].order # o) /\ Send("admin", op, o)

AdminShopManager ==
    /\ good = "shop" /\ page["admin"].live
    /\ ~Asking("admin", "set") /\ Send("admin", "set", "none")

-----------------------------------------------------------------------------
(* The handlers: what one has read is what it writes from; a refusal only  *)
(* shows a message.                                                        *)
Tests(c) ==
    CASE call[c].op = "request" -> ready = "yes" /\ Pending = {} /\ order[call[c].order].status = "new"
      [] call[c].op \in {"approve", "reject"} -> call[c].order \in Pending
      [] OTHER -> TRUE

Load(c) ==
    /\ call[c].step = "sent"
    /\ call' = IF Tests(c) THEN [call EXCEPT ![c].step = "loaded",
                                    ![c].until = until, ![c].pending = Pending]
               ELSE [call EXCEPT ![c] = None]
    /\ UNCHANGED <<good, server, page>>

Done(c, op) ==
    /\ call[c].step = "loaded" /\ call[c].op = op
    /\ call' = [call EXCEPT ![c] = [@ EXCEPT !.step = "done", !.until = 0, !.pending = {}]]
    /\ UNCHANGED <<good, now, clearing, page>>
Write(c, status, starts, ends) ==
    order' = [order EXCEPT ![call[c].order] = [status |-> status, starts |-> starts, ends |-> ends]]

(* feature_service.py:147-187, shop_service.py:84-108.                     *)
CreateRequest(c) ==
    /\ Done(c, "request") /\ Write(c, "pending", 0, 0)
    /\ UNCHANGED <<until, ready>>

(* feature_service.py:189-246, shop_service.py:181-219: a new period is    *)
(* added after the one that runs; a homepage slot starts at once.          *)
X_Approve(c) ==   \* mutant
    LET ends == now + Days IN
    /\ Done(c, "approve") /\ Write(c, "paid", now, ends)
    /\ until' = IF good \in {"featured", "shop"} THEN ends ELSE until
    /\ UNCHANGED ready
Approve(c) ==
    LET starts == IF good \in {"featured", "shop"} THEN Max2(now, call[c].until) ELSE now
        ends == IF good = "bump" THEN starts ELSE starts + Days
    IN  /\ Done(c, "approve") /\ Write(c, "paid", starts, ends)
        /\ until' = IF good \in {"featured", "shop"} THEN ends ELSE until
        /\ UNCHANGED ready

Reject(c) ==
    /\ Done(c, "reject") /\ Write(c, "rejected", 0, 0)
    /\ UNCHANGED <<until, ready>>

(* moderation_service.py:134-143 takes any date; shop_service.py:246-253   *)
(* ends the subscription now.                                              *)
SetUntil(c) ==
    /\ Done(c, "set")
    /\ \E d \in IF good = "shop" THEN {now} ELSE 1 .. MaxTime : until' = d
    /\ UNCHANGED <<order, ready>>

(* shop_service.py:60-73: a name is never taken away, a tax number may be. *)
UpdateProfile(c) ==
    /\ Done(c, "save") /\ ready' \in {"named", "yes"}
    /\ UNCHANGED <<until, order>>

(* No session, not the owner, no network: nothing is done.                 *)
Refuse(c) ==
    /\ call[c].step = "sent" /\ call' = [call EXCEPT ![c] = None]
    /\ UNCHANGED <<good, server, page>>

(* The answer: the promotion pages are refreshed, the shop pages change    *)
(* their own copy, the shop form changes nothing.                          *)
Answer(c) ==
    /\ call[c].step = "done" /\ call' = [call EXCEPT ![c] = None]
    /\ LET t == call[c].tab IN
       page' = IF good # "shop" THEN [page EXCEPT ![t] = Rendered]
               ELSE CASE call[c].op = "set" -> [page EXCEPT ![t].live = FALSE]
                      [] call[c].op \in {"approve", "reject"} ->
                            [page EXCEPT ![t].shows = @ \ {call[c].order}]
                      [] OTHER -> page
    /\ UNCHANGED <<good, server>>

-----------------------------------------------------------------------------
(* The worker of listing_tasks.py:44-57; a subscription only lapses.       *)
ClearExpired ==
    /\ IF clearing THEN until' = 0 /\ clearing' = FALSE
       ELSE good = "featured" /\ until # 0 /\ until < now /\ clearing' = TRUE /\ UNCHANGED until
    /\ UNCHANGED <<good, now, order, ready, page, call>>

ListingChanges ==
    /\ good # "shop" /\ ready' \in {"no", "yes"} \ {ready}
    /\ UNCHANGED <<good, now, until, order, clearing, page, call>>

Tick ==
    /\ now < MaxTime /\ now' = now + 1
    /\ UNCHANGED <<good, until, order, ready, clearing, page, call>>

Init ==
    /\ good \in {"featured", "homepage", "bump", "shop"} /\ now = 1 /\ until = 0
    /\ order = [o \in Orders |-> [status |-> "new", starts |-> 0, ends |-> 0]]
    /\ ready = "no" /\ clearing = FALSE
    /\ page = [t \in {"seller", "admin"} |-> [open |-> FALSE, shows |-> {}, live |-> FALSE]]
    /\ call = [c \in Calls |-> None]

Next ==
    \/ MyListingsPage \/ FeaturedAdminPage \/ AccountShopPage \/ AdminShopsPage
    \/ FeatureRequestPanel \/ ShopSettingsForm \/ FeatureRequestManager
    \/ FeatureListingManager \/ ShopSubscriptionManager \/ AdminShopManager
    \/ \E c \in Calls :
          \/ Load(c) \/ CreateRequest(c) \/ Approve(c) \/ Reject(c) \/ SetUntil(c)
          \/ UpdateProfile(c) \/ Refuse(c) \/ Answer(c)
    \/ ClearExpired \/ ListingChanges \/ Tick

Spec == Init /\ [][Next]_vars
=============================================================================
