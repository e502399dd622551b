------------------------------- MODULE Browse -------------------------------
(* The results page (oglasi): its URL is the search.  Chips, related       *)
(* categories, sorting and paging are links made from the URL; the mobile  *)
(* drawer holds a form of the URL's filters that is mounted anew each time *)
(* it opens.  Attribute filters belong to a category, and some are offered *)
(* only for some values of another one.  Filters that no other filter      *)
(* depends on (price, brand, city, words) are left out.                    *)
EXTENDS Naturals, FiniteSets

CONSTANTS
    Parent,     \* category -> its root, 0 for a root; categories are numbered in menu order
    Keys,       \* filterable attributes
    DefinedBy,  \* key -> the root category that defines it
    Values,     \* key -> its values
    When,       \* key -> [key, values] it is visible for, or [key |-> None]
    Gives,      \* leaf -> [key, values]: the discriminator values it stands for
    MaxPage,    \* bound on the pages of a result
    MaxSaved    \* MAX_SAVED_SEARCHES

Categories == DOMAIN Parent
None == "none"

VARIABLES
    url,    \* [category, attribute, page]
    none,   \* the page shows that there are no listings
    drawer, \* "off" before hydration, "closed" or "open"
    sheet,  \* the form in the open drawer
    saved   \* saved searches

vars == <<url, none, drawer, sheet, saved>>

Root(c) == IF Parent[c] = 0 THEN c ELSE Parent[c]
Roots(u) == {Root(c) : c \in u.category}
Used(u) == {k \in Keys : u.attribute[k] # {}}
Only(S) == CHOOSE x \in S : TRUE
Least(S) == CHOOSE x \in S : \A y \in S : x <= y
NoFilters == [category |-> {}, attribute |-> [k \in Keys |-> {}], page |-> 1]

-----------------------------------------------------------------------------
(* filter_service.py:112-137, 177-218: which searches the server answers.  *)
(* A leaf gives the value of its discriminator where the URL has none; of  *)
(* several leaves the first one does.                                      *)
Context(u, k) ==
    LET giving == {c \in u.category \cap DOMAIN Gives : Gives[c].key = k} IN
    IF u.attribute[k] # {} \/ giving = {} THEN u.attribute[k]
    ELSE Gives[Least(giving)].values

Applies(u, k) == When[k].key # None => Context(u, When[k].key) \cap When[k].values # {}

Accepted(u) ==
    Used(u) # {} => /\ Cardinality(Roots(u)) = 1
                    /\ \A k \in Used(u) : DefinedBy[k] \in Roots(u) /\ Applies(u, k)

-----------------------------------------------------------------------------
(* FilterSidebar.tsx:147-159: the category whose attributes are offered.   *)
SelectedCategory(u) ==
    CASE Cardinality(u.category) = 1 -> Only(u.category)
      [] Cardinality(u.category) > 1 /\ Cardinality(Roots(u)) = 1 -> Only(Roots(u))
      [] OTHER -> 0

(* The catalogue hides a discriminator that the leaf has settled.          *)
Settled(c, k) == /\ c \in DOMAIN Gives
                 /\ Gives[c].key = k /\ Cardinality(Gives[c].values) = 1

(* FilterSidebar.tsx:362-467: the attribute controls that are rendered.    *)
Offered(u) ==
    LET c == SelectedCategory(u) IN
    {k \in Keys : /\ c # 0 /\ DefinedBy[k] = Root(c) /\ ~Settled(c, k)
                  /\ \/ When[k].key = None
                     \/ u.attribute[When[k].key] \cap When[k].values # {}}

(* FilterSidebar.tsx:123-229: the form as it is mounted.                   *)
FilterSidebar(u) ==
    [category |-> u.category, offered |-> Offered(u), disabled |-> {},
     attribute |-> [k \in Keys |-> u.attribute[k]]]

(* What a submitted form sends: its enabled controls, and no page.         *)
Submitted(f) ==
    [category |-> f.category, page |-> 1,
     attribute |-> [k \in Keys |->
         IF k \in f.offered \ f.disabled THEN f.attribute[k] ELSE {}]]

(* FilterSidebar.tsx:66-85: a parent and a child of one root exclude each  *)
(* other.                                                                  *)
Chosen(f, c) ==
    IF c \in f.category THEN f.category \ {c}
    ELSE {d \in f.category : Root(d) # Root(c) \/ (Parent[c] # 0 /\ Parent[d] # 0)} \cup {c}

(* FilterSidebar.tsx:58-64: a change of category disables every attribute. *)
X_UpdateCategoryChoice(f, c) == [f EXCEPT !.category = Chosen(f, c)]   \* mutant
UpdateCategoryChoice(f, c) ==
    [f EXCEPT !.category = Chosen(f, c), !.disabled = f.offered]

(* FilterSidebar.tsx:97-121: the controls that depend on the changed one   *)
(* are hidden and disabled unless one of its values is theirs.             *)
UpdateConditionalControls(f, k, chosen) ==
    LET dependent == {d \in f.offered : When[d].key = k} IN
    [f EXCEPT !.attribute[k] = chosen,
              !.disabled = (@ \ dependent)
                  \cup {d \in dependent : chosen \cap When[d].values = {}}]

-----------------------------------------------------------------------------
(* BrowseContent.tsx:176-230: the page asks the server again; a refused    *)
(* search looks like one without results.                                  *)
Visit(u) ==
    /\ url' = u
    /\ none' \in {b \in BOOLEAN : ~Accepted(u) => b}

(* A link navigates within the page; the open drawer covers the links.     *)
Follow(u) == drawer # "open" /\ Visit(u) /\ UNCHANGED <<drawer, sheet, saved>>

(* BrowseContent.tsx:68-169, the chips: one category, or all the values of *)
(* one attribute.                                                          *)
RemoveCategory(c) ==
    c \in url.category /\ Follow([url EXCEPT !.category = @ \ {c}, !.page = 1])
RemoveAttribute(k) ==
    k \in Used(url) /\ Follow([url EXCEPT !.attribute[k] = {}, !.page = 1])

(* BrowseContent.tsx:345-432 and search_discovery_service.py:273-320: the  *)
(* way out of an empty page.                                               *)
RelatedCategories ==
    LET parents == {Parent[c] : c \in url.category} \ {0} IN
    IF url.category = {} THEN {}
    ELSE IF parents # {}
         THEN ({c \in Categories : Parent[c] \in parents} \cup parents) \ url.category
         ELSE {c \in Categories : Parent[c] \in url.category \cup {0}} \ url.category
Related(c) ==
    /\ none /\ c \in RelatedCategories
    /\ Follow([url EXCEPT !.category = {c}, !.page = 1])

(* BrowseContent.tsx:251-265, 298-309 and 317-343.                         *)
Sort == Follow([url EXCEPT !.page = 1])
Paging == ~none /\ \E p \in 1..MaxPage : Follow([url EXCEPT !.page = p])
Reset == Follow(NoFilters)

(* Drawer.tsx:52-181: a closed drawer forgets the form; a submitted one    *)
(* loads the page anew.                                                    *)
Empty == FilterSidebar(NoFilters)
Leave == drawer = "open" /\ sheet' = Empty

Hydrate == drawer = "off" /\ drawer' = "closed" /\ UNCHANGED <<url, none, sheet, saved>>
Open == /\ drawer = "closed" /\ drawer' = "open"
        /\ sheet' = FilterSidebar(url)
        /\ UNCHANGED <<url, none, saved>>
Close  == Leave /\ drawer' = "closed" /\ UNCHANGED <<url, none, saved>>
Cancel == Leave /\ drawer' = "closed" /\ Visit(NoFilters) /\ UNCHANGED saved
Submit == Leave /\ drawer' = "off" /\ Visit(Submitted(sheet)) /\ UNCHANGED saved

Edit ==
    /\ drawer = "open"
    /\ \/ \E c \in Categories : sheet' = UpdateCategoryChoice(sheet, c)
       \/ \E k \in sheet.offered \ sheet.disabled : \E chosen \in SUBSET Values[k] :
              sheet' = UpdateConditionalControls(sheet, k, chosen)
    /\ UNCHANGED <<url, none, drawer, saved>>

-----------------------------------------------------------------------------
(* SavedSearchManager.tsx and saved_searches.py:40-108: the filters of the *)
(* URL without its page; the server runs the search before it saves it.    *)
CreateSearch ==
    /\ url # NoFilters /\ Accepted(url) /\ Cardinality(saved) < MaxSaved
    /\ saved' = saved \cup {[url EXCEPT !.page = 1]}
    /\ UNCHANGED <<url, none, drawer, sheet>>
DeleteSearch(s) == s \in saved /\ saved' = saved \ {s} /\ UNCHANGED <<url, none, drawer, sheet>>
SearchUrl(s) == s \in saved /\ Follow(s)

Init == /\ url = NoFilters /\ none \in BOOLEAN
        /\ drawer = "off" /\ sheet = Empty /\ saved = {}

Next ==
    \/ \E c \in Categories : RemoveCategory(c) \/ Related(c)
    \/ \E k \in Keys : RemoveAttribute(k)
    \/ Sort \/ Paging \/ Reset
    \/ Hydrate \/ Open \/ Close \/ Cancel \/ Submit \/ Edit
    \/ CreateSearch
    \/ \E s \in saved : DeleteSearch(s) \/ SearchUrl(s)

Spec == Init /\ [][Next]_vars
=============================================================================
