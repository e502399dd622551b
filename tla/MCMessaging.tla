----------------------------- MODULE MCMessaging -----------------------------
(* Values for the constants of Messaging, and what its requests owe to     *)
(* each other's absence: two of them were under way at once (raced), a     *)
(* block came between a send's checks and its commit (late), a             *)
(* notification was marked read after a send had loaded it (dismissed).    *)
EXTENDS Messaging, TLC

VARIABLES raced, late, dismissed

Sending == {r \in Requests : request[r].at \in {"checked", "written", "holding"}}

Racing == \E r, q \in Requests : r # q /\ ~At(r, "idle") /\ ~At(q, "idle")
Late == blocks # {} /\ Sending # {}
Dismissing == \E r \in Sending : /\ request[r].plan = "merge"
                                 /\ ~request[r].loaded.read
                                 /\ notification[Recipient(r)].read

MCInit == Init /\ raced = FALSE /\ late = FALSE /\ dismissed = FALSE
MCNext == /\ Next
          /\ raced' = (raced \/ Racing')
          /\ late' = (late \/ Late')
          /\ dismissed' = (dismissed \/ Dismissing')
MCSpec == MCInit /\ [][MCNext]_<<vars, raced, late, dismissed>>

MessageSymmetry == Permutations(Messages) \cup Permutations(Requests)

(* Served one at a time, any sequence of sends, openings, dismissals,      *)
(* blocks and lost answers keeps the badges exact                          *)
(* (message_service.py:70-80, 162-167).                                    *)
CountsUnlessRaced == raced \/ CountsAreExact

(* docs/in-app-notifications.md:18: "messages in the same conversation     *)
(* update one notification and reopen it as unread", unless the recipient  *)
(* marked it read while the message was on its way                         *)
(* (notification_service.py:106-116, 331-354).                             *)
ReopensUnlessDismissed ==
    [][\A r \in Requests :
           Commit(r) /\ request[r].plan \in {"merge", "insert"}
               => dismissed \/ ~notification'[Recipient(r)].read]_vars

(* While a side blocks the other no notification stands between them,      *)
(* unless a send had passed its checks when the block came                 *)
(* (conversation_safety_service.py:124-150).                               *)
SilentUnlessLate == late \/ BlockedAreSilent
=============================================================================
