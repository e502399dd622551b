---------------------------- MODULE MCEmailOutbox ---------------------------
(* EmailOutbox with one history: the mails whose delivery is in doubt,     *)
(* because the worker died after it had sent them, the provider delivered  *)
(* and yet failed, or an administrator put a sent mail back.               *)
EXTENDS EmailOutbox

VARIABLES doubted

Doubts == {m \in Mails :
    \/ Die /\ m \in DOMAIN worker.row \ worker.left
    \/ SendEmail(m, FALSE, TRUE)
    \/ email[m].status = "sent" /\ email'[m].status = "pending"}

MCInit == Init /\ doubted = {}
MCNext == Next /\ doubted' = doubted \cup Doubts
MCSpec == MCInit /\ [][MCNext]_<<vars, doubted>> /\ Fairness

(* A mail is received once, whatever batches, deaths of the worker and     *)
(* clicks of the administrator it goes through, unless its delivery was in *)
(* doubt (email_tasks.py:16-54).                                           *)
OnceUnlessDoubted == \A m \in Mails : received[m] > 1 => m \in doubted

(* The outbox keeps its promise (MailPromise): sent means delivered, what  *)
(* is settled is left alone until somebody asks again, and every mail is   *)
(* settled in the end (email_tasks.py:14-55, admin.py:655-666).            *)
KeepsPromise == Promise!Spec
=============================================================================
