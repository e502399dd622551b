-------------------------- MODULE PhoneVerification -------------------------
(* The phone number of one account, its verification by a code, and the    *)
(* profile forms the number is typed into.  Handlers read, then commit.    *)
EXTENDS Naturals, FiniteSets

CONSTANTS
    Tabs,
    Numbers,
    Calls,
    Challenges,   \* as many as the daily limit allows
    MaxAttempts   \* MAX_CONFIRMATION_ATTEMPTS

VARIABLES
    phone,      \* profiles.phone_number, or "none"
    verified,   \* profiles.phone_verified_at is set
    challenge,  \* challenge -> [status, phone, attempts]
    cooling,    \* a code may not be sent again yet
    form,       \* tab -> [phone, verified, typed, challenge] or Closed
    call        \* call -> [tab, op, arg, right, step, phone, verified, attempts] or None

vars == <<phone, verified, challenge, cooling, form, call>>

None == [step |-> "none"]
Closed == [phone |-> "none", verified |-> FALSE, typed |-> "none", challenge |-> "closed"]
Values == Numbers \cup {"none"}
Live == {c \in Challenges : challenge[c].status \in {"live", "expired"}}
Asking(t, ops) == \E k \in Calls : call[k] # None /\ call[k].tab = t /\ call[k].op \in ops
Dirty(t) == form[t].typed # form[t].phone

(* The form is rendered with the profile, and takes over the profile of an *)
(* answer with everything that was typed.                                  *)
Profile(chal) == [phone |-> phone, verified |-> verified, typed |-> phone, challenge |-> chal]
ProfilePage(t) ==
    /\ form[t] = Closed /\ form' = [form EXCEPT ![t] = Profile("none")]
    /\ UNCHANGED <<phone, verified, challenge, cooling, call>>
Type(t) ==
    /\ form[t] # Closed /\ \E n \in Values : form' = [form EXCEPT ![t].typed = n]
    /\ UNCHANGED <<phone, verified, challenge, cooling, call>>

Send(t, op, arg, right) ==
    /\ form[t] # Closed
    /\ \E k \in Calls :
          /\ call[k] = None
          /\ call' = [call EXCEPT ![k] = [tab |-> t, op |-> op, arg |-> arg, right |-> right,
                 step |-> "sent", phone |-> "none", verified |-> FALSE, attempts |-> 0]]
    /\ UNCHANGED <<phone, verified, challenge, cooling, form>>
Submit(t) == ~Asking(t, {"save"}) /\ Send(t, "save", form[t].typed, TRUE)
RequestCode(t) ==
    /\ form[t].phone # "none" /\ ~Dirty(t) /\ ~form[t].verified
    /\ ~Asking(t, {"request", "confirm"}) /\ Send(t, "request", "none", TRUE)
ConfirmCode(t) ==
    /\ form[t].challenge \in Challenges /\ ~Dirty(t) /\ ~form[t].verified
    /\ ~Asking(t, {"request", "confirm"})
    /\ \E right \in BOOLEAN : Send(t, "confirm", form[t].challenge, right)
PhoneVerificationPanel(t) == RequestCode(t) \/ ConfirmCode(t)
ProfileForm(t) == Type(t) \/ Submit(t)

-----------------------------------------------------------------------------
(* The handlers.  A refusal shows a message.                               *)
Tests(k) ==
    CASE call[k].op = "request" ->
            /\ phone # "none" /\ ~verified /\ ~(cooling /\ Live # {})
            /\ \E c \in Challenges : challenge[c].status = "new"
      [] call[k].op = "confirm" ->
            challenge[call[k].arg].status = "live" /\ challenge[call[k].arg].attempts < MaxAttempts
      [] OTHER -> TRUE
Load(k) ==
    /\ call[k].step = "sent"
    /\ call' = IF Tests(k)
               THEN [call EXCEPT ![k].step = "loaded", ![k].phone = phone, ![k].verified = verified,
                        ![k].attempts = IF call[k].op = "confirm" THEN challenge[call[k].arg].attempts ELSE 0]
               ELSE [call EXCEPT ![k] = None]
    /\ challenge' = IF call[k].op = "confirm" /\ challenge[call[k].arg].status = "expired"
                    THEN [challenge EXCEPT ![call[k].arg].status = "consumed"] ELSE challenge
    /\ UNCHANGED <<phone, verified, cooling, form>>

At(k, op) == call[k].step = "loaded" /\ call[k].op = op
Answered(k, chal) ==
    call' = [call EXCEPT ![k] = [@ EXCEPT !.step = "done", !.arg = chal, !.phone = "none",
                                          !.verified = FALSE, !.attempts = 0]]

(* users.py:284-331: a changed number is no longer verified, if it was     *)
(* when it was read.                                                       *)
X_UpdateProfile(k) ==   \* mutant
    /\ At(k, "save") /\ phone' = call[k].arg
    /\ Answered(k, "none") /\ UNCHANGED <<verified, challenge, cooling, form>>
UpdateProfile(k) ==
    /\ At(k, "save") /\ phone' = call[k].arg
    /\ verified' = (verified /\ ~(call[k].arg # call[k].phone /\ call[k].verified))
    /\ Answered(k, "none") /\ UNCHANGED <<challenge, cooling, form>>

(* phone_verification_service.py:100-207: the code goes to the number that *)
(* was read; the live challenges are used up.                              *)
RequestChallenge(k) ==
    /\ At(k, "request")
    /\ \E c \in Challenges :
          /\ challenge[c].status = "new"
          /\ challenge' = [d \in Challenges |->
                 IF d = c THEN [status |-> "live", phone |-> call[k].phone, attempts |-> 0]
                 ELSE IF d \in Live THEN [challenge[d] EXCEPT !.status = "consumed"]
                 ELSE challenge[d]]
          /\ Answered(k, c)
    /\ cooling' = TRUE /\ UNCHANGED <<phone, verified, form>>

(* phone_verification_service.py:209-298.                                  *)
Confirm(k) ==
    LET c == call[k].arg IN
    /\ At(k, "confirm")
    /\ IF ~call[k].right
       THEN /\ challenge' = [challenge EXCEPT ![c].attempts = call[k].attempts + 1]
            /\ call' = [call EXCEPT ![k] = None] /\ UNCHANGED verified
       ELSE /\ challenge' = [challenge EXCEPT ![c].status = "consumed"]
            /\ IF call[k].phone = challenge[c].phone
               THEN verified' = TRUE /\ Answered(k, "none")
               ELSE call' = [call EXCEPT ![k] = None] /\ UNCHANGED verified
    /\ UNCHANGED <<phone, cooling, form>>

Answer(k) ==
    LET t == call[k].tab IN
    /\ call[k].step = "done" /\ call' = [call EXCEPT ![k] = None]
    /\ form' = [form EXCEPT ![t] =
           CASE call[k].op = "save" -> Profile(@.challenge)
             [] call[k].op = "confirm" -> Profile("none")
             [] OTHER -> [@ EXCEPT !.challenge = call[k].arg]]
    /\ UNCHANGED <<phone, verified, challenge, cooling>>

(* No session, an invalid number, no provider, no network.                 *)
Refuse(k) ==
    /\ call[k].step = "sent" /\ call' = [call EXCEPT ![k] = None]
    /\ UNCHANGED <<phone, verified, challenge, cooling, form>>

Time ==
    /\ \/ cooling /\ cooling' = FALSE /\ UNCHANGED challenge
       \/ \E c \in Challenges :
             challenge[c].status = "live" /\ challenge' = [challenge EXCEPT ![c].status = "expired"]
             /\ UNCHANGED cooling
    /\ UNCHANGED <<phone, verified, form, call>>

Init ==
    /\ phone = "none" /\ verified = FALSE /\ cooling = FALSE
    /\ challenge = [c \in Challenges |-> [status |-> "new", phone |-> "none", attempts |-> 0]]
    /\ form = [t \in Tabs |-> Closed] /\ call = [k \in Calls |-> None]

Next ==
    \/ \E t \in Tabs : ProfilePage(t) \/ ProfileForm(t) \/ PhoneVerificationPanel(t)
    \/ \E k \in Calls :
          \/ Load(k) \/ UpdateProfile(k) \/ RequestChallenge(k) \/ Confirm(k) \/ Answer(k) \/ Refuse(k)
    \/ Time

Spec == Init /\ [][Next]_vars
=============================================================================
