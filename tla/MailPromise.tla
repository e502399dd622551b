----------------------------- MODULE MailPromise ----------------------------
(* What the outbox promises of a mail: it is settled as sent only after it *)
(* has been delivered, it is not delivered once settled unless somebody    *)
(* asks again, and it is settled in the end.                               *)
EXTENDS Naturals

CONSTANTS Mails, MaxCopies   \* bound: copies are counted up to it

VARIABLES
    outcome,  \* mail -> "none", "open", "sent" or "given_up"
    copies    \* mail -> copies its recipient has received

vars == <<outcome, copies>>

Init == outcome = [m \in Mails |-> "none"] /\ copies = [m \in Mails |-> 0]

Accept(m) ==
    /\ outcome[m] = "none" /\ outcome' = [outcome EXCEPT ![m] = "open"]
    /\ UNCHANGED copies

Deliver(m) ==
    /\ outcome[m] = "open"
    /\ copies' = [copies EXCEPT ![m] = IF @ = MaxCopies THEN @ ELSE @ + 1]
    /\ UNCHANGED outcome

Settle(batch) ==
    /\ \A m \in batch : outcome[m] = "open"
    /\ outcome' \in [Mails -> {"none", "open", "sent", "given_up"}]
    /\ \A m \in Mails \ batch : outcome'[m] = outcome[m]
    /\ \A m \in batch : outcome'[m] \in {"sent", "given_up"}
    /\ \A m \in batch : outcome'[m] = "sent" => copies[m] > 0
    /\ UNCHANGED copies

AskAgain(m) ==
    /\ outcome[m] \in {"sent", "given_up"}
    /\ outcome' = [outcome EXCEPT ![m] = "open"]
    /\ UNCHANGED copies

Next ==
    \/ \E m \in Mails : Accept(m) \/ Deliver(m) \/ AskAgain(m)
    \/ \E batch \in SUBSET Mails : Settle(batch)

Settled == \A m \in Mails : outcome[m] = "open" ~> outcome[m] # "open"

Spec == Init /\ [][Next]_vars /\ Settled
=============================================================================
