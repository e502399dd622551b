-------------------------------- MODULE Inbox -------------------------------
(* The notification center and the bell of the header, in several tabs of  *)
(* one user.  Each tab polls, reloads when it gets the focus and           *)
(* when a tab announces a change, and pages backwards through a list whose *)
(* rows move to the front when they are merged.  Answers overtake one      *)
(* another.                                                                *)
EXTENDS Naturals, FiniteSets, Sequences, Functions

CONSTANTS
    Tabs,
    Notices,      \* notifications; Chat is the one about the conversation
    Chat,
    MaxEvents, \* bound on what happens elsewhere
    MaxCalls   \* bound on the calls of one tab

VARIABLES
    inbox,    \* the rows, the newest first
    unread,   \* the unread rows
    events,
    tab,      \* tab -> [items, marked, cursor, more, bell]
    calls     \* tab -> answers and posts under way

vars == <<inbox, unread, events, tab, calls>>
server == <<inbox, unread, events>>
End == "end"

(* A page of one row: the row after the cursor (notification_service.py:   *)
(* 154-192); a cursor whose row is gone is refused.                        *)
Place(n) == CHOOSE i \in DOMAIN inbox : inbox[i] = n
After(cursor) == IF cursor = End THEN 1 ELSE Place(cursor) + 1
Page(kind, cursor) ==
    LET i == After(cursor) IN
    [kind |-> kind, rows |-> IF i <= Len(inbox) THEN <<inbox[i]>> ELSE <<>>,
     unread |-> unread,
     next |-> IF i < Len(inbox) THEN inbox[i] ELSE End]
FirstPage == Page("first", End)
BellCount == [kind |-> "bell", count |-> Cardinality(unread)]

Adds(t, c) == IF Cardinality(calls[t]) < MaxCalls THEN calls[t] \cup {c} ELSE calls[t]

-----------------------------------------------------------------------------
(* Something happens elsewhere: a row is merged, and moves to the front.   *)
Event(n) ==
    /\ events < MaxEvents /\ events' = events + 1
    /\ inbox' = [i \in DOMAIN inbox |->
           IF i = 1 THEN n ELSE IF i <= Place(n) THEN inbox[i - 1] ELSE inbox[i]]
    /\ unread' = unread \cup {n}
    /\ UNCHANGED <<tab, calls>>

(* poruke/[id]/page.tsx:26-48: rendering the conversation reads it.        *)
OpenConversation ==
    /\ unread' = unread \ {Chat}
    /\ UNCHANGED <<inbox, events, tab, calls>>

(* NotificationCenter.tsx:40-71, NotificationBell.tsx:13-23: the loads of  *)
(* a visible tab; a hidden one does not load.                              *)
Load(t) ==
    /\ \E c \in {FirstPage, BellCount} : calls' = [calls EXCEPT ![t] = Adds(t, c)]
    /\ UNCHANGED <<server, tab>>

(* NotificationCenter.tsx:73-94.                                           *)
LoadMore(t) ==
    /\ tab[t].cursor # End /\ ~tab[t].more
    /\ Cardinality(calls[t]) < MaxCalls
    /\ tab' = [tab EXCEPT ![t].more = TRUE]
    /\ calls' = [calls EXCEPT ![t] = @ \cup {Page("more", tab[t].cursor)}]
    /\ UNCHANGED server

(* An answer arrives, or the call fails.                                   *)
Extended(t, c) ==
    [tab[t] EXCEPT !.items = IF Range(c.rows) \subseteq Range(@) THEN @ ELSE @ \o c.rows,
                   !.marked = @ \cup (Range(c.rows) \ (Range(tab[t].items) \cup c.unread)),
                   !.cursor = c.next, !.more = FALSE]
X_Answered(t, c) ==   \* mutant
    CASE c.kind = "first" -> [tab[t] EXCEPT !.items = c.rows, !.marked = Range(c.rows) \ c.unread]
      [] c.kind = "more" -> Extended(t, c)
      [] c.kind = "bell" -> [tab[t] EXCEPT !.bell = c.count]
Answered(t, c) ==
    CASE c.kind = "first" -> [tab[t] EXCEPT !.items = c.rows, !.cursor = c.next,
                                            !.marked = Range(c.rows) \ c.unread]
      [] c.kind = "more" -> Extended(t, c)
      [] c.kind = "bell" -> [tab[t] EXCEPT !.bell = c.count]

Answer(t, c) ==
    /\ c.kind # "read"
    /\ tab' = [tab EXCEPT ![t] = Answered(t, c)]
    /\ calls' = [calls EXCEPT ![t] = @ \ {c}]
    /\ UNCHANGED server

Fail(t, c) ==
    /\ tab' = [tab EXCEPT ![t] =
           CASE c.kind = "more" -> [@ EXCEPT !.more = FALSE]
             [] c.kind = "bell" -> [@ EXCEPT !.bell = 0]
             [] OTHER -> @]
    /\ \E hidden \in BOOLEAN :
           calls' = [calls EXCEPT ![t] =
               IF c.kind = "read" /\ ~hidden THEN (@ \ {c}) \cup {FirstPage} ELSE @ \ {c}]
    /\ UNCHANGED server

(* NotificationCenter.tsx:96-126: one row or all are shown read at once.   *)
MarkRead(t) ==
    \E rows \in {{n} : n \in Range(tab[t].items)} \cup {Notices} :
        /\ (Range(tab[t].items) \cap rows) \ tab[t].marked # {}
        /\ Cardinality(calls[t]) < MaxCalls
        /\ tab' = [tab EXCEPT ![t].marked = @ \cup (Range(tab[t].items) \cap rows)]
        /\ calls' = [calls EXCEPT ![t] = @ \cup {[kind |-> "read", rows |-> rows]}]
        /\ UNCHANGED server

(* notification_service.py:209-234; then notification-events.ts:4-12 tells *)
(* every tab, this one too, and the visible ones reload the center and the *)
(* bell.                                                                   *)
Marked(t, c) ==
    /\ c.kind = "read"
    /\ unread' = unread \ c.rows /\ UNCHANGED <<inbox, events, tab>>
    /\ \E visible \in SUBSET Tabs :
           calls' = [s \in Tabs |->
               (calls[s] \ (IF s = t THEN {c} ELSE {}))
                   \cup (IF s \in visible THEN {FirstPage', BellCount'} ELSE {})]

Init ==
    /\ inbox = CHOOSE f \in [1 .. Cardinality(Notices) -> Notices] : IsInjective(f)
    /\ unread = Notices /\ events = 0
    /\ tab = [t \in Tabs |-> [items |-> <<>>, marked |-> {},
                              cursor |-> End, more |-> FALSE, bell |-> 0]]
    /\ calls = [t \in Tabs |-> {}]

Next ==
    \/ \E n \in Notices : Event(n)
    \/ OpenConversation
    \/ \E t \in Tabs :
          \/ Load(t) \/ LoadMore(t) \/ MarkRead(t)
          \/ \E c \in calls[t] : Answer(t, c) \/ Fail(t, c) \/ Marked(t, c)

Spec == Init /\ [][Next]_vars
=============================================================================
