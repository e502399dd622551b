----------------------------- MODULE MCAccounts -----------------------------
(* Values for the constants of Accounts, and two histories: a transaction  *)
(* committed while another one had read (raced), and an account in its     *)
(* grace period was made active other than by its user's cancellation      *)
(* (lifted).                                                               *)
EXTENDS Accounts, TLC

VARIABLES raced, lifted

Reading(r) == request[r].step = "read"
Racing == \E r, q \in Requests : r # q /\ Reading(r) /\ Reading(q) /\ ~Reading(r)'

Lifting == \E r \in Requests :
    /\ closure.status = "grace_period"
    /\ \E op \in {"verify", "unsuspend"} : Commits(r, op)

MCInit == Init /\ raced = FALSE /\ lifted = FALSE
MCNext == /\ Next
          /\ raced' = (raced \/ Racing)
          /\ lifted' = (closure'.status = "grace_period" /\ (lifted \/ Lifting))
MCSpec == MCInit /\ [][MCNext]_<<vars, raced, lifted>>

(* What follows a race is not explored: the properties say nothing there.  *)
NotYetRaced == ~raced

AccountSymmetry == Permutations(Sessions) \cup Permutations(Requests)

(* Only a hidden account is anonymised (account_service.py:847-937): the   *)
(* worker goes by the closure row alone, so this fails once an admin's     *)
(* reactivation or a verification link has made the account active again   *)
(* and left its closure scheduled (auth_service.py:114,                    *)
(* moderation_service.py:175), or when the cancellation races the worker.  *)
ErasedUnlessLifted ==
    [][user'.status = "deleted" /\ user.status # "deleted"
           => raced' \/ lifted \/ user.status \in {"pending_deletion", "suspended"}]_<<vars, raced, lifted>>

(* docs/account-security-privacy.md: a closure request that succeeds hides *)
(* the account at once, also when repeated (account_service.py:281-351).   *)
ClosedUnlessLifted ==
    [][\A r \in Requests :
           Commits(r, "close") =>
              \/ raced' \/ lifted
              \/ /\ user'.status = "pending_deletion"
                 /\ \A l \in Listings : listing'[l] \notin Public
                 /\ \A s \in Sessions : session'[s].state # "open"]_<<vars, raced, lifted>>

(* A session opened with a password that is no longer valid is revoked     *)
(* (auth_service.py:143-155) unless the login had read the password before *)
(* the reset was committed.                                                *)
PasswordsUnlessRaced ==
    raced \/ \A s \in Sessions :
                 session[s].state = "open" => session[s].password = user.password

(* A device that leaves the list of the account page cannot act any more   *)
(* (AccountSecurityPanel.tsx:47-79, account_service.py:126-193).           *)
VanishedIsRevoked ==
    [][\A s \in panel.shown \ panel'.shown :
           panel'.open => session[s].state = "revoked"]_<<vars, raced, lifted>>
=============================================================================
