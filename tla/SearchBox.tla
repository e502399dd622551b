------------------------------ MODULE SearchBox -----------------------------
(* The search box (SearchCombobox.tsx): every change of its text starts a  *)
(* timer, and then a request for suggestions.  A newer change aborts the   *)
(* request, which does not stop an answer that has already arrived.        *)
EXTENDS Naturals, Sequences

CONSTANTS
    Texts,  \* texts that are long enough for suggestions
    Offers  \* text -> sequence of the suggestions the server has for it; each is a text

Short == "short"   \* a text of fewer than two characters

VARIABLES
    text,     \* the text in the box
    shown,    \* [query, items]: the suggestions and the text they answer
    active,   \* index of the highlighted one, 0 for none
    timer,    \* the timer of the latest change is running
    calls,    \* requests under way: [query, latest, arrived]
    input,    \* [focus, open, blurred]: DOM focus, its copy in the state, timers of blurs
    went      \* where the box has led: the text, or the chosen suggestion

vars == <<text, shown, active, timer, calls, input, went>>

Nothing == [query |-> Short, items |-> <<>>]
IsOpen == input.open /\ shown.items # <<>>

-----------------------------------------------------------------------------
(* SearchCombobox.tsx:49-58, 86-90: the effect of a change of the text.    *)
Changed(new) ==
    /\ text' = new
    /\ IF new = text THEN UNCHANGED <<timer, calls>>
       ELSE /\ timer' = (new # Short)
            /\ calls' = {[c EXCEPT !.latest = FALSE] : c \in {d \in calls : d.arrived}}

(* SearchCombobox.tsx:45-58, 132-134: the user types, or the page has a new *)
(* search; a short text clears the suggestions.                            *)
Type(new) ==
    /\ new # text /\ Changed(new)
    /\ IF new = Short THEN shown' = Nothing /\ active' = 0 ELSE UNCHANGED <<shown, active>>
    /\ UNCHANGED <<input, went>>

(* SearchCombobox.tsx:59-84.                                               *)
Ask ==
    /\ timer /\ timer' = FALSE
    /\ calls' = calls \cup {[query |-> text, latest |-> TRUE, arrived |-> FALSE]}
    /\ UNCHANGED <<text, shown, active, input, went>>

Arrive(c) ==
    /\ ~c.arrived /\ calls' = (calls \ {c}) \cup {[c EXCEPT !.arrived = TRUE]}
    /\ UNCHANGED <<text, shown, active, timer, input, went>>

X_Suggest(c) ==   \* mutant
    /\ c.arrived /\ calls' = calls \ {c}
    /\ shown' \in {[query |-> c.query, items |-> Offers[c.query]], Nothing}
    /\ active' = 0
    /\ UNCHANGED <<text, timer, input, went>>
Suggest(c) ==
    /\ c.arrived /\ calls' = calls \ {c}
    /\ IF c.latest
       THEN /\ shown' \in {[query |-> c.query, items |-> Offers[c.query]], Nothing}
            /\ active' = 0
       ELSE UNCHANGED <<shown, active>>
    /\ UNCHANGED <<text, timer, input, went>>

(* SearchCombobox.tsx:92-102.                                              *)
Choose(i) ==
    /\ Changed(shown.items[i]) /\ went' = shown.items[i]
    /\ shown' = Nothing /\ active' = 0
    /\ UNCHANGED input

(* SearchCombobox.tsx:104-130 and the buttons of the list; Enter without a *)
(* highlighted suggestion submits the form with the text.                  *)
Escape == /\ shown' = Nothing /\ active' = 0
          /\ UNCHANGED <<text, timer, calls, input, went>>
Arrow == /\ shown.items # <<>>
         /\ active' \in {IF active >= Len(shown.items) THEN 1 ELSE active + 1,
                         IF active <= 1 THEN Len(shown.items) ELSE active - 1}
         /\ UNCHANGED <<text, shown, timer, calls, input, went>>
Enter == IF active > 0 THEN Choose(active)
         ELSE went' = text /\ UNCHANGED <<text, shown, active, timer, calls, input>>
Click == IsOpen /\ \E i \in DOMAIN shown.items : Choose(i)
Keyboard == input.focus /\ (Escape \/ Arrow \/ Enter)

(* SearchCombobox.tsx:136-143, 159-160: the list is closed 100 ms after    *)
(* the blur, even if the box has the focus again.                          *)
Focus == ~input.focus /\ input' = [input EXCEPT !.focus = TRUE, !.open = TRUE]
Blur == input.focus /\ input' = [input EXCEPT !.focus = FALSE, !.blurred = TRUE]
BlurTimer == input.blurred /\ input' = [input EXCEPT !.open = FALSE, !.blurred = FALSE]
Attention == (Focus \/ Blur \/ BlurTimer) /\ UNCHANGED <<text, shown, active, timer, calls, went>>

Init ==
    /\ text \in Texts \cup {Short} /\ shown = Nothing /\ active = 0
    /\ timer = (text # Short) /\ calls = {} /\ went = Short
    /\ input = [focus |-> FALSE, open |-> FALSE, blurred |-> FALSE]

Next ==
    \/ \E new \in Texts \cup {Short} : Type(new)
    \/ Ask \/ \E c \in calls : Arrive(c) \/ Suggest(c)
    \/ Keyboard \/ Click \/ Attention

Spec == Init /\ [][Next]_vars
-----------------------------------------------------------------------------
(* Suggestions that do not answer the text in the box are on their way     *)
(* out: their replacement is due or being asked for, so no late answer     *)
(* stays (SearchCombobox.tsx:53-90).                                       *)
FreshOrReplaced ==
    shown # Nothing /\ shown.query # text =>
        timer \/ \E c \in calls : c.latest /\ c.query = text

=============================================================================
