-------------------------- MODULE MCListingDrafts --------------------------
(* ListingDrafts with one tab or two, and histories of the tabs in which   *)
(* the seller typed while a stored draft was loading: the change handler   *)
(* of the form does not see those edits (CreateListingForm.tsx:499); of    *)
(* those whose submission waited for a save already under way, which holds *)
(* older content (CreateListingForm.tsx:358); and of those left quiet by a *)
(* refresh that dropped the timer of an edit (CreateListingForm.tsx:513),  *)
(* until the seller types or saves again.                                  *)
EXTENDS ListingDrafts, TLC

VARIABLES blind, joined, silenced

MCInit == Init /\ blind = {} /\ joined = {} /\ silenced = {}

MCNext ==
    /\ Next
    /\ blind'  = blind \cup {t \in Tabs : /\ Loading(t) /\ Loading(t)'
                                          /\ form'[t].values # form[t].values}
    /\ joined' = joined \cup {t \in Tabs : form'[t].submit = "joined"}
    /\ silenced' = {t \in Tabs : /\ Quiet(t)'
                                 /\ \/ t \in silenced
                                    \/ Refresh(t) /\ form[t].timer}

MCVars     == <<vars, blind, joined, silenced>>
MCSpec     == MCInit /\ [][MCNext]_MCVars
MCFairSpec == MCSpec /\ Fairness

TabSymmetry == Permutations(Tabs)

(* A form that shows no unsaved edits and is at the server's version shows *)
(* what the server holds (SavedIsStored), as long as its handler has seen  *)
(* every edit.                                                             *)
SavedUnlessBlind == \A t \in Tabs \ blind : ShowsStored(t)

(* What is published is what the form held when the seller submitted it,   *)
(* unless the submission joined a save under way.                          *)
SubmittedUnlessJoined ==
    [][\A i \in Ids : row'[i].by \notin joined => PublishesSubmitted(i)]_MCVars

(* Edits that are not saved are about to be, or the form says why not: no  *)
(* order of edits, saves, replies and loads leaves the form quiet with     *)
(* edits nobody will send, other than a refresh that drops the timer.      *)
NeverStuckUnlessSilenced == \A t \in Tabs \ silenced : ~Quiet(t)

(* Edits settle: saved, or the form shows that they are not, unless a      *)
(* refresh drops their timer.                                              *)
EditsSettleUnlessSilenced ==
    \A t \in Tabs :
        IsOpen(t) /\ form[t].unsaved
            ~> \/ ~IsOpen(t) \/ ~form[t].unsaved \/ t \in silenced
               \/ form[t].state \in {"offline", "conflict", "error"}
=============================================================================
