------------------------------- MODULE MCInbox ------------------------------
(* Inbox with two histories: the notifications that were written or moved  *)
(* after the list began, and the tabs that loaded a first page over a list *)
(* already extended by a page under way.                                   *)
EXTENDS Inbox

VARIABLES moved, overlapped

Renewed(t) == \E c \in calls[t] : c.kind = "first" /\ Answer(t, c)

MCInit == Init /\ moved = {} /\ overlapped = [t \in Tabs |-> FALSE]
MCNext ==
    /\ Next
    /\ moved' = moved \cup {n \in Notices : events' # events /\ inbox'[1] = n}
    /\ overlapped' = [t \in Tabs |-> IF Renewed(t) THEN tab[t].more ELSE overlapped[t]]

(* Marks and events are not followed together, nor the bell with a list    *)
(* of several pages.                                                       *)
Explored == /\ events = 0 \/ unread = Notices
            /\ \A t \in Tabs : tab[t].bell = 0 \/ Len(tab[t].items) <= 1

InReach(t, n) ==
    \/ n \in Range(tab[t].items)
    \/ tab[t].cursor # End /\ \E i \in DOMAIN inbox : i >= After(tab[t].cursor) /\ inbox[i] = n

(* A notification that has not moved is in a tab's list or on the pages    *)
(* its button still loads, whatever answers overtook one another           *)
(* (NotificationCenter.tsx:40-94), unless a first page arrived while a     *)
(* further one was being loaded.                                           *)
ReachableUnlessOverlapped ==
    \A t \in Tabs : tab[t].items # <<>> /\ ~overlapped[t]
                        => \A n \in Notices \ moved : InReach(t, n)
=============================================================================
