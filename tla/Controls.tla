------------------------------- MODULE Controls -----------------------------
(* The buttons that mark something for their user: a favourite listing, a  *)
(* followed seller, a muted or blocked conversation.  A button is mounted  *)
(* with what the page was rendered with and keeps its own copy; a refresh  *)
(* of the page does not change it.  One kind of mark at a time, as they    *)
(* never meet.                                                             *)
EXTENDS Naturals, FiniteSets

CONSTANTS
    Tabs,
    Users,
    MaxCalls   \* bound on the calls under way

VARIABLES
    kind,   \* the mark: "favorite", "follow", "mute" or "block"
    owner,  \* tab -> its user
    fans,   \* the users with the mark
    count,  \* listings.favorite_count
    page,   \* tab -> the page it shows
    shown,  \* button -> whether it shows the mark
    call    \* button -> [want, step, had, count] or None

vars == <<kind, owner, fans, count, page, shown, call>>

Names ==
    CASE kind = "favorite" -> {"FavoriteButton", "FavoriteIconButton"}
      [] kind = "follow" -> {"FollowSellerButton"}
      [] kind = "mute" -> {"toggleMute"}
      [] kind = "block" -> {"block"}
Buttons == Tabs \X Names
None == [step |-> "none"]
Stored(t) == owner[t] \in fans

(* The buttons of a page; a card on any other list than the favourites is  *)
(* rendered as not saved (listing_service.py:880, ListingCard.tsx:89).     *)
On(p) ==
    CASE p = "none" -> {}
      [] p \in {"cards", "favorites"} -> {"FavoriteIconButton"}
      [] OTHER -> Names
Mounted(b) == b[2] \in On(page[b[1]])
Under(t) == {b \in Buttons : b[1] = t /\ call[b] # None}

(* A page is opened in a tab; what a tab leaves unanswered is a lost answer. *)
Visit(t, p, initial) ==
    /\ Under(t) = {}
    /\ page' = [page EXCEPT ![t] = p]
    /\ shown' = [b \in Buttons |-> IF b[1] = t THEN initial ELSE shown[b]]
    /\ UNCHANGED <<kind, owner, fans, count, call>>

ListingDetailPage(t) == kind \in {"favorite", "follow"} /\ Visit(t, "listing", Stored(t))
SellerPage(t)        == kind = "follow" /\ Visit(t, "seller", Stored(t))
ConversationPage(t)  == kind \in {"mute", "block"} /\ Visit(t, "conversation", Stored(t))
ListingCard(t)       == kind = "favorite" /\ Visit(t, "cards", FALSE)
FavoritesContent(t)  == kind = "favorite" /\ Stored(t) /\ Visit(t, "favorites", TRUE)

-----------------------------------------------------------------------------
(* The server: each handler tests what it has loaded.                      *)
Load(b) ==
    /\ call[b].step = "sent"
    /\ call' = [call EXCEPT ![b].step = "loaded", ![b].had = Stored(b[1]), ![b].count = count]
    /\ UNCHANGED <<kind, owner, fans, count, page, shown>>

Settle(b, step) == call' = [call EXCEPT ![b].step = step]

(* listing_service.py:443-471: the count is changed with the row; a second *)
(* row breaks the unique constraint.                                       *)
X_Favorite(b) ==   \* mutant
    LET c == call[b] user == owner[b[1]] IN
    /\ kind = "favorite" /\ c.step = "loaded"
    /\ IF c.want /\ ~c.had /\ user \in fans THEN UNCHANGED <<fans, count>> /\ Settle(b, "refused")
       ELSE /\ fans' = IF c.want THEN fans \cup {user} ELSE fans \ {user}
            /\ count' = IF c.want THEN c.count + 1 ELSE IF c.count > 0 THEN c.count - 1 ELSE 0
            /\ Settle(b, "done")
    /\ UNCHANGED <<kind, owner, page, shown>>
Favorite(b) ==
    LET c == call[b] user == owner[b[1]] IN
    /\ kind = "favorite" /\ c.step = "loaded"
    /\ IF c.want = c.had THEN UNCHANGED <<fans, count>> /\ Settle(b, "done")
       ELSE IF c.want /\ user \in fans THEN UNCHANGED <<fans, count>> /\ Settle(b, "refused")
       ELSE /\ fans' = IF c.want THEN fans \cup {user} ELSE fans \ {user}
            /\ count' = IF c.want THEN c.count + 1 ELSE IF c.count > 0 THEN c.count - 1 ELSE 0
            /\ Settle(b, "done")
    /\ UNCHANGED <<kind, owner, page, shown>>

(* follow_service.py:28-68 and conversation_safety_service.py:114-170: the *)
(* mark is set or removed, whatever it was.                                *)
Mark(b) ==
    /\ kind # "favorite" /\ call[b].step = "loaded"
    /\ fans' = IF call[b].want THEN fans \cup {owner[b[1]]} ELSE fans \ {owner[b[1]]}
    /\ Settle(b, "done")
    /\ UNCHANGED <<kind, owner, count, page, shown>>

(* No session, a listing that is not public, a block, no network.          *)
Refuse(b) ==
    /\ call[b].step = "sent" /\ Settle(b, "refused")
    /\ UNCHANGED <<kind, owner, fans, count, page, shown>>

-----------------------------------------------------------------------------
(* A button is disabled while its call is under way.                       *)
X_Click(b) ==   \* mutant
    /\ Mounted(b) /\ call[b] = None
    /\ Cardinality({d \in Buttons : call[d] # None}) < MaxCalls
    /\ call' = [call EXCEPT ![b] =
           [want |-> ~shown[b], step |-> "sent", had |-> FALSE, count |-> 0]]
    /\ shown' = [shown EXCEPT ![b] = ~@]
    /\ UNCHANGED <<kind, owner, fans, count, page>>
Click(b) ==
    /\ Mounted(b) /\ call[b] = None
    /\ Cardinality({d \in Buttons : call[d] # None}) < MaxCalls
    /\ call' = [call EXCEPT ![b] =
           [want |-> ~shown[b], step |-> "sent", had |-> FALSE, count |-> 0]]
    /\ UNCHANGED <<kind, owner, fans, count, page, shown>>

(* The answer: the button takes what it asked for; the one for blocking    *)
(* has no copy and shows what the refreshed page says.                     *)
Answer(b) ==
    /\ call[b].step \in {"done", "refused"}
    /\ shown' = IF call[b].step = "refused" THEN shown
                ELSE IF b[2] = "block"
                THEN [d \in Buttons |-> IF d[1] = b[1] THEN Stored(b[1]) ELSE shown[d]]
                ELSE [shown EXCEPT ![b] = call[b].want]
    /\ call' = [call EXCEPT ![b] = None]
    /\ UNCHANGED <<kind, owner, fans, count, page>>

Lost(b) ==
    /\ call[b].step = "done" /\ call' = [call EXCEPT ![b] = None]
    /\ UNCHANGED <<kind, owner, fans, count, page, shown>>

Press(t, name) == name \in Names /\ (Click(<<t, name>>) \/ Answer(<<t, name>>))
FavoriteButton(t)     == Press(t, "FavoriteButton")
FavoriteIconButton(t) == Press(t, "FavoriteIconButton")
FollowSellerButton(t) == Press(t, "FollowSellerButton")
ConversationSafetyControls(t) == Press(t, "toggleMute") \/ Press(t, "block")

Init ==
    /\ kind \in {"favorite", "follow", "mute", "block"} /\ owner \in [Tabs -> Users]
    /\ fans = {} /\ count = 0
    /\ page = [t \in Tabs |-> "none"] /\ shown = [b \in Buttons |-> FALSE]
    /\ call = [b \in Buttons |-> None]

Next ==
    \/ \E t \in Tabs :
          \/ ListingDetailPage(t) \/ SellerPage(t) \/ ConversationPage(t)
          \/ ListingCard(t) \/ FavoritesContent(t)
          \/ FavoriteButton(t) \/ FavoriteIconButton(t) \/ FollowSellerButton(t)
          \/ ConversationSafetyControls(t)
    \/ \E b \in Buttons : Load(b) \/ Favorite(b) \/ Mark(b) \/ Refuse(b) \/ Lost(b)

Spec == Init /\ [][Next]_vars
=============================================================================
