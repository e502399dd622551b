------------------------------ MODULE MCScreens -----------------------------
(* The screens and the handlers behind them, each explored by itself: they *)
(* share no rows, and part says which one a behaviour is about.  The parts *)
(* take turns in the variables v1 to v12, so that a state stays small; the *)
(* rows of ListingImages, whose invariants are stated here directly, keep  *)
(* their names and rest while another part is explored.                    *)
EXTENDS MCListingImages

CONSTANTS
    Pairs,      \* two interchangeable things: cases, orders, users, challenges...
    Tabs,       \* two interchangeable tabs, listings or numbers
    Desks,      \* tabs or administrators, where one is enough
    Texts,      \* what may be typed into the search box
    Offers,     \* and the suggestions for it
    MaxPage, MaxSaved, MaxEvents, MaxCalls, Days, MaxTime, MaxAttempts,
    MaxPhotos, MaxFiles, MaxConcurrent, Budget    \* bounds, explained in the parts

(* The names the code gives to nothing and to its own pages are no tabs,   *)
(* numbers or orders; limits and days are counted.                         *)
ASSUME ScreensAssumption ==
    /\ {"none", "new", "done", "conversation"} \cap Tabs = {}
    /\ "none" \notin Pairs
    /\ Days \in Nat /\ MaxAttempts \in Nat /\ MaxConcurrent \in Nat

VARIABLES part, v1, v2, v3, v4, v5, v6, v7, v8, v9, v10, v11, v12

all == <<vars, stale, repeated, part,
         v1, v2, v3, v4, v5, v6, v7, v8, v9, v10, v11, v12>>

-----------------------------------------------------------------------------
Answers == [t \in {"a", "b", "c"} |-> CASE t = "a" -> <<"b", "a">>
                                        [] t = "b" -> <<"c">>
                                        [] OTHER -> <<>>]

Br == INSTANCE MCBrowse WITH
    url <- v1, none <- v2, drawer <- v3, sheet <- v4, saved <- v5, dropped <- v6
Sb == INSTANCE SearchBox WITH
    calls <- v1, active <- v2, text <- v3, shown <- v4, timer <- v5, input <- v6,
    went <- v7
Ib == INSTANCE MCInbox WITH
    Tabs <- Desks, Notices <- {"c", "d", "e"}, Chat <- "c",
    calls <- v1, inbox <- v2, tab <- v3, unread <- v4, events <- v5, moved <- v6,
    overlapped <- v7
Sa == INSTANCE MCSales WITH
    Buyers <- Pairs,
    call <- v1, raced <- v2, tab <- v3, sale <- v4, told <- v5, reviews <- v6,
    resold <- v7
Co == INSTANCE MCControls WITH
    Users <- Pairs,
    call <- v1, raced <- v2, page <- v3, shown <- v4, kind <- v5, owner <- v6,
    fans <- v7, count <- v8, overtaken <- v9
Pr == INSTANCE MCPromotions WITH
    Calls <- Requests, Orders <- Pairs,
    call <- v1, raced <- v2, page <- v3, good <- v4, now <- v5, until <- v6,
    order <- v7, ready <- v8, clearing <- v9, cut <- v10
Mo == INSTANCE MCModeration WITH
    Admins <- Desks, Calls <- Requests, Cases <- Pairs, Signals <- Pairs,
    Listings <- Tabs,
    call <- v1, raced <- v2, listing <- v3, case <- v4, report <- v5, noted <- v6,
    signal <- v7, risk <- v8, reports <- v9, lost <- v10, downed <- v11, acted <- v12
Ph == INSTANCE MCPhoneVerification WITH
    Tabs <- Desks, Calls <- Requests, Challenges <- Pairs, Numbers <- Tabs,
    call <- v1, raced <- v2, form <- v3, phone <- v4, verified <- v5,
    challenge <- v6, cooling <- v7, proved <- v8, guesses <- v9
Ga == INSTANCE Gallery WITH
    Photos <- Images, Calls <- Requests, MaxImages <- MaxPhotos,
    call <- v1, crossed <- v2, upload <- v3, shown <- v4, stored <- v5, cover <- v6,
    failed <- v7, deleted <- v8
Se == INSTANCE SeoForm WITH
    Landings <- Tabs, Scopes <- Images,
    call <- v1, crossed <- v2, form <- v3, landing <- v4, list <- v5, editing <- v6,
    preview <- v7
Sc == INSTANCE SocialCard WITH
    Editors <- Pairs, Texts <- Tabs, Calls <- Requests,
    call <- v1, active <- v2, text <- v3, panel <- v4, urls <- v5, spent <- v6

(* How many of the variables a part takes.                                 *)
Takes == [gallery |-> 0, browse |-> 6, search |-> 7, center |-> 7, sales |-> 7,
          buttons |-> 9, promotions |-> 10, moderation |-> 12, telephone |-> 9,
          manager |-> 8, seo |-> 7, card |-> 6]
Spare(n) == n > Takes[part]

ScreensInit ==
    /\ part \in DOMAIN Takes /\ MCInit
    /\ part = "browse" => Br!MCInit
    /\ part = "search" => Sb!Init
    /\ part = "center" => Ib!MCInit
    /\ part = "sales" => Sa!MCInit
    /\ part = "buttons" => Co!MCInit
    /\ part = "promotions" => Pr!MCInit
    /\ part = "moderation" => Mo!MCInit
    /\ part = "telephone" => Ph!MCInit
    /\ part = "manager" => Ga!MCInit
    /\ part = "seo" => Se!MCInit
    /\ part = "card" => Sc!Init
    /\ (Spare(1) => v1 = "rests") /\ (Spare(2) => v2 = "rests")
    /\ (Spare(3) => v3 = "rests") /\ (Spare(4) => v4 = "rests")
    /\ (Spare(5) => v5 = "rests") /\ (Spare(6) => v6 = "rests")
    /\ (Spare(7) => v7 = "rests") /\ (Spare(8) => v8 = "rests")
    /\ (Spare(9) => v9 = "rests") /\ (Spare(10) => v10 = "rests")
    /\ (Spare(11) => v11 = "rests") /\ (Spare(12) => v12 = "rests")

ScreensNext ==
    /\ \/ part = "gallery" /\ MCNext
       \/ part = "browse" /\ Br!MCNext
       \/ part = "search" /\ Sb!Next
       \/ part = "center" /\ Ib!MCNext
       \/ part = "sales" /\ Sa!MCNext
       \/ part = "buttons" /\ Co!MCNext
       \/ part = "promotions" /\ Pr!MCNext
       \/ part = "moderation" /\ Mo!MCNext
       \/ part = "telephone" /\ Ph!MCNext
       \/ part = "manager" /\ Ga!MCNext
       \/ part = "seo" /\ Se!MCNext
       \/ part = "card" /\ Sc!Next
    /\ UNCHANGED part /\ (part # "gallery" => UNCHANGED <<vars, stale, repeated>>)
    /\ (Spare(1) => UNCHANGED v1) /\ (Spare(2) => UNCHANGED v2)
    /\ (Spare(3) => UNCHANGED v3) /\ (Spare(4) => UNCHANGED v4)
    /\ (Spare(5) => UNCHANGED v5) /\ (Spare(6) => UNCHANGED v6)
    /\ (Spare(7) => UNCHANGED v7) /\ (Spare(8) => UNCHANGED v8)
    /\ (Spare(9) => UNCHANGED v9) /\ (Spare(10) => UNCHANGED v10)
    /\ (Spare(11) => UNCHANGED v11) /\ (Spare(12) => UNCHANGED v12)

ScreensSpec == ScreensInit /\ [][ScreensNext]_all

(* What the parts leave unexplored.                                        *)
Explored ==
    /\ ImagesExplored
    /\ part = "browse" => Br!Explored
    /\ part = "center" => Ib!Explored
    /\ part = "sales" => Sa!Explored
    /\ part = "buttons" => Co!Explored
    /\ part = "promotions" => Pr!Explored
    /\ part = "moderation" => Mo!Explored
    /\ part = "telephone" => Ph!Explored
    /\ part = "manager" => Ga!Explored

ScreenSymmetry == Permutations(Pairs) \cup Permutations(Tabs) \cup Permutations(Requests)
-----------------------------------------------------------------------------
(* The properties of the parts, each stated and explained in its module.   *)

(* MCBrowse: BrowseContent.tsx, FilterSidebar.tsx, filter_service.py.      *)
BrowseAccepts == part = "browse" => Br!AcceptedUnlessDropped
(* SearchBox: SearchCombobox.tsx.                                          *)
SuggestionsFresh == part = "search" => Sb!FreshOrReplaced
(* MCInbox: NotificationCenter.tsx, notification_service.py.               *)
NotificationsReachable == part = "center" => Ib!ReachableUnlessOverlapped
(* MCSales: OwnerListingActions, listing_service.py:473-591, reviews.py.   *)
OneBuyer == part = "sales" => Sa!OneBuyerUnlessRaced
(* MCControls: the favourite, follow and mute buttons and their handlers.  *)
ButtonsTell == part = "buttons" => Co!ButtonsTellUnlessOvertaken
(* MCPromotions: the request panels, feature_service.py, listing_tasks.py. *)
PeriodsAddUp == part = "promotions" => Pr!PeriodsAddUpUnlessRaced
(* MCModeration: the risk queue, reports, moderation_case_service.py.      *)
DecisionsStand == part = "moderation" => Mo!DecisionsStandUnlessRaced
(* MCPhoneVerification: the profile page, phone_verification_service.py.   *)
VerifiedIsProved == part = "telephone" => Ph!VerifiedUnlessRaced
(* Gallery: ListingImageManager.tsx; SeoForm: SeoLandingManager.tsx,       *)
(* seo_landing_service.py; SocialCard: SocialPreview.tsx, endpoint.ts and  *)
(* runner.ts of cms/src/social-card.                                       *)
EditorsShowTheirs ==
    /\ part = "manager" => Ga!ShowsStoredUnlessCrossed
    /\ part = "seo" => Se!SavesTheEditedUnlessCrossed
    /\ part = "card" => Sc!CardsAreTheirs
=============================================================================
