------------------------- MODULE MCPhoneVerification ------------------------
(* PhoneVerification with histories: a handler wrote on rows that had      *)
(* changed since it read them (raced), the numbers whose code was once     *)
(* entered, and the wrong codes tried per challenge.                       *)
EXTENDS PhoneVerification

VARIABLES raced, proved, guesses

Writes(k)   == call[k].step = "loaded" /\ call'[k] # call[k]
Confirms(k) == Writes(k) /\ call[k].op = "confirm"
Stale(k) == \/ call[k].phone # phone \/ call[k].verified # verified
            \/ /\ call[k].op = "confirm"
               /\ call[k].attempts # challenge[call[k].arg].attempts
Wrong(c) == {k \in Calls : Confirms(k) /\ call[k].arg = c /\ ~call[k].right}

MCInit == Init /\ raced = FALSE /\ proved = {} /\ guesses = [c \in Challenges |-> 0]
MCNext ==
    /\ Next
    /\ raced' = \/ raced
                \/ \E k \in Calls : Writes(k) /\ call[k].op \in {"save", "confirm"} /\ Stale(k)
    /\ proved' = proved \cup
           {challenge[call[k].arg].phone : k \in {k \in Calls : Confirms(k) /\ call[k].right}}
    /\ guesses' = [c \in Challenges |-> guesses[c] + Cardinality(Wrong(c))]

Explored == ~raced

(* A number stands as verified, in the account and on the profile page,    *)
(* only if the code sent to that number was entered, and a challenge       *)
(* allows so many wrong codes and no more                                  *)
(* (phone_verification_service.py:209-298, users.py:284-331,               *)
(* PhoneVerificationPanel.tsx:34-83).                                      *)
VerifiedUnlessRaced ==
    \/ raced
    \/ /\ verified => phone \in proved
       /\ \A c \in Challenges : guesses[c] <= MaxAttempts
       /\ \A t \in Tabs : form[t].verified => form[t].phone \in proved
=============================================================================
