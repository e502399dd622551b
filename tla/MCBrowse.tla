------------------------------ MODULE MCBrowse ------------------------------
(* Browse over a small catalogue: a root with two leaves that stand for    *)
(* the two values of its attribute "type", another root, an attribute      *)
(* "line" that is offered for the first type only, and an attribute "size" *)
(* of the second root.                                                     *)
EXTENDS TLC, FiniteSets, Naturals

CONSTANTS MaxPage, MaxSaved

VARIABLES url, none, drawer, sheet, saved, dropped

Tree == <<0, 1, 1, 0>>
Attributes == {"type", "line", "size"}
Definer == [k \in Attributes |-> IF k = "size" THEN 4 ELSE 1]
Options == [k \in Attributes |-> IF k = "type" THEN {"a", "b"} ELSE {"x"}]
Condition == [k \in Attributes |-> IF k = "line" THEN [key |-> "type", values |-> {"a"}]
                                   ELSE [key |-> "none", values |-> {}]]
Leaves == (2 :> [key |-> "type", values |-> {"a"}]) @@ (3 :> [key |-> "type", values |-> {"b"}])

INSTANCE Browse WITH Parent <- Tree, Keys <- Attributes, DefinedBy <- Definer,
    Values <- Options, When <- Condition, Gives <- Leaves

(* dropped: since the last address without attributes a chip or a related  *)
(* category has taken away what another attribute filter depends on.       *)
Drops == \/ \E c \in Categories : RemoveCategory(c) \/ Related(c)
         \/ \E k, d \in Attributes : RemoveAttribute(k) /\ Condition[d].key = k

MCInit == Init /\ dropped = FALSE
MCNext == /\ Next
          /\ dropped' = IF url' = url THEN dropped
                        ELSE (Drops \/ dropped) /\ (Used(url') # {} \/ saved' # {})

(* Neither pages nor the drawer are followed together with a saved search. *)
Explored == saved # {} => url.page = 1 /\ drawer # "open"

(* The address of the page is a search the server accepts, and so is what  *)
(* the form in the drawer would send after any order of edits: attributes  *)
(* whose category or condition is gone are not sent                        *)
(* (FilterSidebar.tsx:58-121).  Only the links beside the form drop a      *)
(* filter on which another one depends (BrowseContent.tsx:68-169, 387).    *)
AcceptedUnlessDropped ==
    \/ dropped
    \/ Accepted(url) /\ (drawer = "open" => Accepted(Submitted(sheet)))
=============================================================================
