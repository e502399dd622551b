----------------------------- MODULE MCModeration ---------------------------
(* Moderation with histories: two signals of one listing both found no     *)
(* open case (raced); the cases whose decision was lost with its request   *)
(* or written over one made since (lost); the listings ever taken down and *)
(* the cases whose listing a decision moved.                               *)
EXTENDS Moderation

VARIABLES raced, lost, downed, acted

Deciders == {k \in Calls : call[k].op \in DOMAIN Final}
Losing(k) ==
    IF k \in Deciders /\ call'[k] = None /\ ~BulkEnd(k) THEN call[k].dirty
    ELSE IF call[k].step = "loaded" /\ call'[k] # call[k]
         THEN {c \in call[k].todo : case[c].status # "open"}
         ELSE {}

MCInit == Init /\ raced = FALSE /\ lost = {} /\ downed = {} /\ acted = {}
MCNext ==
    /\ Next
    /\ raced' = (raced \/ \E s, t \in Signals :
                              s # t /\ signal'[s] \in Listings /\ signal'[t] = signal'[s])
    /\ lost' = lost \cup UNION {Losing(k) : k \in Calls}
    /\ downed' = downed \cup {l \in Listings : listing'[l] = "rejected"}
    /\ acted' = IF listing' = listing THEN acted
                ELSE acted \cup UNION {call[k].todo \ call'[k].todo : k \in Deciders}

(* A report and a case are not followed together, and the signals come     *)
(* while no call is under way.  A conversation is reported after the case  *)
(* of a listing has been opened; one call at a time is then under way.     *)
Explored == /\ ~raced /\ lost = {}
            /\ \A c \in Cases : case[c].about = "conversation"
                  => /\ \E d \in Cases : case[d].about \in Listings
                     /\ Cardinality({k \in Calls : call[k] # None}) <= 1
                     /\ \A s \in Signals : signal[s] = "done"
            /\ Existing = {} \/ \A l \in Listings : report[l] = "none"
            /\ \A s \in Signals, k \in Calls : signal[s] \in Listings => call[k] = None

Deciding(c) == \E k \in Deciders : c \in call[k].todo \cup call[k].dirty

(* A listing has one open case at most; a case whose listing a decision    *)
(* has moved does not wait for another one; and a seller who is told of a  *)
(* removal had the listing removed (risk_service.py:161-190,               *)
(* moderation_case_service.py:168-230, moderation_service.py:98-132).      *)
DecisionsStandUnlessRaced ==
    \/ raced \/ lost # {}
    \/ /\ \A l \in Listings : Cardinality(OpenCases(l)) <= 1
       /\ \A c \in acted : case[c].status \in Open => Deciding(c)
       /\ noted \subseteq downed
=============================================================================
