------------------------------ MODULE AuthForms -----------------------------
(* The registration, login, password and first-message forms, one at a     *)
(* time, and the challenge in front of them.  A risk rule counts the       *)
(* attempts of one network address; over its limit, or after two failed    *)
(* challenges, an attempt needs a token that Turnstile hands out for one   *)
(* use.  The form shows a widget when the answer asks for it, and sends    *)
(* the token it holds with the next attempt.                               *)
EXTENDS Naturals, FiniteSets

CONSTANTS
    Limit,     \* attempts without a challenge (ACTION_RULES)
    MaxTokens  \* bound on the tokens Turnstile hands out

VARIABLES
    kind,      \* the form on the page
    form,      \* [asked, token, sending, done]
    script,    \* Turnstile's script: "absent", "loading", "ready" or "failed"
    widget,    \* the form's widget is rendered
    made,      \* how often the server did what the form asks for, up to 2
    attempts,  \* recorded attempts, counted up to Limit
    failed,    \* recorded failed challenges, counted up to 2
    spent,     \* tokens Turnstile has verified once
    handed     \* the last token handed out

vars == <<kind, form, script, widget, made, attempts, failed, spent, handed>>

Forms == {"register", "login", "forgot", "reset", "message"}
Null == 0

-----------------------------------------------------------------------------
(* risk_service.py:58-118: whether an attempt with this token passes.      *)
ChallengeNeeded == attempts >= Limit \/ failed >= 2
Passes(token) == ~ChallengeNeeded \/ (token # Null /\ token \notin spent)

(* risk_service.py:77-124 and record_action, 126-142.                      *)
Enforce(token) ==
    /\ spent' = IF ChallengeNeeded THEN spent \cup ({token} \ {Null}) ELSE spent
    /\ attempts' = IF Passes(token) /\ attempts < Limit THEN attempts + 1 ELSE attempts
    /\ failed' = IF Passes(token) \/ failed = 2 THEN failed ELSE failed + 1

(* What the server makes of an attempt that passes; an account is          *)
(* registered once and a reset link works once.                            *)
Outcome(right) ==
    IF ~Passes(form.token) THEN "challenge"
    ELSE IF right /\ (kind \in {"register", "reset"} => made = 0) THEN "ok" ELSE "error"

(* A form is sent with right or wrong data and the token it holds; only    *)
(* the registration form stays after a success.                            *)
Submit(right) ==
    /\ form.sending = "no" /\ (kind # "register" => ~form.done)
    /\ form' = [form EXCEPT !.sending = Outcome(right)]
    /\ made' = IF Outcome(right) = "ok" /\ made < 2 THEN made + 1 ELSE made
    /\ Enforce(form.token)
    /\ UNCHANGED <<kind, script, widget, handed>>

(* The answer to a request for a challenge drops the token and mounts a    *)
(* new widget; any other error, a lost answer too, leaves both.            *)
X_Challenge ==   \* mutant
    /\ form.sending = "challenge"
    /\ form' = [form EXCEPT !.sending = "no", !.asked = TRUE]
    /\ UNCHANGED <<kind, script, widget, made, attempts, failed, spent, handed>>
Challenge ==
    /\ form.sending = "challenge"
    /\ form' = [form EXCEPT !.sending = "no", !.asked = TRUE, !.token = Null]
    /\ widget' = FALSE
    /\ UNCHANGED <<kind, script, made, attempts, failed, spent, handed>>

Answer ==
    /\ form.sending \in {"ok", "error"}
    /\ form' = [form EXCEPT !.sending = "no", !.done = (form.sending = "ok")]
    /\ UNCHANGED <<kind, script, widget, made, attempts, failed, spent, handed>>

Lost ==
    /\ form.sending # "no"
    /\ form' = [form EXCEPT !.sending = "no"]
    /\ UNCHANGED <<kind, script, widget, made, attempts, failed, spent, handed>>

(* The five components; what they send and where they go differs in        *)
(* Outcome and Submit.                                                     *)
Form == (\E right \in BOOLEAN : Submit(right)) \/ Challenge \/ Answer \/ Lost
RegisterForm       == kind = "register" /\ Form
LoginForm          == kind = "login" /\ Form
ForgotPasswordForm == kind = "forgot" /\ Form
ResetPasswordForm  == kind = "reset" /\ Form
MessageForm        == kind = "message" /\ Form

-----------------------------------------------------------------------------
(* TurnstileChallenge.tsx:27-69: a widget is rendered once the script has  *)
(* loaded.  A second mount waits for the load of the first's script        *)
(* element; if that element has failed it waits for ever.                  *)
Mount ==
    /\ form.asked /\ ~widget
    /\ \/ script = "absent" /\ script' = "loading" /\ UNCHANGED widget
       \/ script = "ready" /\ widget' = TRUE /\ UNCHANGED script
    /\ UNCHANGED <<kind, form, made, attempts, failed, spent, handed>>

ScriptSettles ==
    /\ script = "loading" /\ script' \in {"ready", "failed"}
    /\ UNCHANGED <<kind, form, widget, made, attempts, failed, spent, handed>>

(* TurnstileChallenge.tsx:44-49: the callbacks of the mounted widget.      *)
Solve ==
    /\ widget /\ form.token = Null /\ handed < MaxTokens
    /\ handed' = handed + 1
    /\ form' = [form EXCEPT !.token = handed + 1]
    /\ UNCHANGED <<kind, script, widget, made, attempts, failed, spent>>

Expire ==
    /\ form.token # Null
    /\ form' = [form EXCEPT !.token = Null]
    /\ UNCHANGED <<kind, script, widget, made, attempts, failed, spent, handed>>

Init ==
    /\ kind \in Forms
    /\ form = [asked |-> FALSE, token |-> Null, sending |-> "no", done |-> FALSE]
    /\ script = "absent" /\ widget = FALSE /\ made = 0
    /\ attempts = 0 /\ failed = 0 /\ spent = {} /\ handed = 0

Next ==
    \/ RegisterForm \/ LoginForm \/ ForgotPasswordForm \/ ResetPasswordForm \/ MessageForm
    \/ Mount \/ ScriptSettles \/ Solve \/ Expire

(* The user tries again while the form allows it, solves the widget, and   *)
(* sometimes submits before the token expires; the script element settles. *)
SubmitsRight == Passes(form.token) /\ Submit(TRUE)
Fairness ==
    /\ SF_vars(Challenge) /\ SF_vars(Answer) /\ SF_vars(Solve) /\ SF_vars(SubmitsRight)
    /\ WF_vars(Mount) /\ WF_vars(Submit(TRUE)) /\ WF_vars(ScriptSettles)

Spec == Init /\ [][Next]_vars /\ Fairness
-----------------------------------------------------------------------------
(* A user who keeps trying with right data gets what the form asks for,    *)
(* whatever wrong attempts, spent tokens and expired widgets lie between   *)
(* (RegisterForm.tsx:28-52, LoginForm.tsx:30-52, TurnstileChallenge.tsx),  *)
(* unless Turnstile's script does not load or it hands out no more tokens. *)
GetsIn == <>(made > 0 \/ script = "failed" \/ handed = MaxTokens)
=============================================================================
