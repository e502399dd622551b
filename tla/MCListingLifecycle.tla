------------------------- MODULE MCListingLifecycle -------------------------
(* Values for the constants of ListingLifecycle, and what holds as long as *)
(* sessions do not overlap: raced remembers that a session once changed    *)
(* the table, the account or its own task while another was in the middle  *)
(* of an operation.                                                        *)
EXTENDS ListingLifecycle, TLC

VARIABLE raced

Racing == /\ \E s \in Sessions : task[s] # "idle" /\ task'[s] = task[s]
          /\ <<row, task, suspended>>' # <<row, task, suspended>>

MCInit == Init /\ raced = FALSE
MCNext == Next /\ raced' = (raced \/ Racing)
MCSpec == MCInit /\ [][MCNext]_<<vars, raced>>
MCFairSpec == MCSpec /\ Fairness

RequestSymmetry == Permutations(Requests)

(* docs/listing-handoff-options.md:32: a reservation is cleared when its   *)
(* listing leaves the site; every handler and the worker do so, as long as *)
(* none of them works on a row it read before another one's commit.        *)
ClearedUnlessRaced == raced \/ ReservationCleared

(* docs/listing-drafts.md:40-42: only drafts are deleted, and only a       *)
(* moderator's approval brings a sold listing, or one of a suspended       *)
(* seller, back to the site, as long as no two sessions overlap.           *)
HistoryKeptUnlessRaced ==
    [][raced' \/ \A l \in Listings :
          /\ Deletes(l) => row[l].status = "draft"
          /\ Shows(l) /\ (suspended \/ row[l].status = "sold") => Approving
      ]_<<vars, raced>>
=============================================================================
