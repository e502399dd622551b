----------------------------- MODULE EmailOutbox ----------------------------
(* The outbox (email_outbox): services queue mails, the worker sends a     *)
(* batch mail by mail and commits it once, an administrator puts failed    *)
(* mails back.  A batch whose worker dies is sent again, and a call to the *)
(* provider may deliver a mail and yet fail.                               *)
EXTENDS Naturals, FiniteSets

CONSTANTS
    Mails,
    Requests,     \* retry requests
    MaxAttempts,  \* MAX_ATTEMPTS
    MaxCopies,    \* bound: copies are counted up to it
    MaxDeaths,    \* bound on the deaths of the worker inside a batch
    MaxRetries    \* bound on the clicks of the administrator

ASSUME EmailOutboxConstants == MaxAttempts \in Nat \ {0} /\ MaxCopies \in Nat \ {0}

VARIABLES
    email,    \* mail -> [status, attempts, due]
    worker,   \* [loaded: the rows of its batch, left: those not yet tried, row: as changed]
    request,  \* retry -> [mail, loaded] or Idle
    listed,   \* the mails on the administrator's page
    key,      \* the provider's key: "set", or missing in "production" or "development"
    received, \* mail -> copies received
    bounds    \* [deaths, retries] so far

vars == <<email, worker, request, listed, key, received, bounds>>

Unqueued == [status |-> "none", attempts |-> 0, due |-> FALSE]
NoBatch == [loaded |-> <<>>, left |-> {}, row |-> <<>>]
Idle == [mail |-> "none"]
Working == worker # NoBatch
Failed == {m \in Mails : email[m].status = "failed"}

(* A commit writes the columns that differ from what its session loaded.   *)
Merge(current, loaded, new) ==
    [c \in DOMAIN current |-> IF new[c] = loaded[c] THEN current[c] ELSE new[c]]

-----------------------------------------------------------------------------
(* email.py:60-69: a service queues a mail with its own commit.            *)
EnqueueEmail(m) ==
    /\ email[m] = Unqueued
    /\ email' = [email EXCEPT ![m] = [status |-> "pending", attempts |-> 0, due |-> TRUE]]
    /\ UNCHANGED <<worker, request, listed, key, received, bounds>>

(* The time of the next attempt comes.                                     *)
Due(m) ==
    /\ email[m].status = "pending" /\ ~email[m].due
    /\ email' = [email EXCEPT ![m].due = TRUE]
    /\ UNCHANGED <<worker, request, listed, key, received, bounds>>

X_StartBatch ==   \* mutant
    LET batch == {m \in Mails : email[m].status \in {"pending", "sent"} /\ email[m].due} IN
    /\ ~Working /\ batch # {}
    /\ worker' = [loaded |-> [m \in batch |-> email[m]], left |-> batch,
                  row |-> [m \in batch |-> email[m]]]
    /\ UNCHANGED <<email, request, listed, key, received, bounds>>

(* email_tasks.py:16-25.                                                   *)
StartBatch ==
    LET batch == {m \in Mails : email[m].status = "pending" /\ email[m].due} IN
    /\ ~Working /\ batch # {}
    /\ worker' = [loaded |-> [m \in batch |-> email[m]], left |-> batch,
                  row |-> [m \in batch |-> email[m]]]
    /\ UNCHANGED <<email, request, listed, key, received, bounds>>

(* email_tasks.py:27-51: what becomes of a mail that the provider took or  *)
(* did not take.                                                           *)
X_Tried(row, ok) ==   \* mutant
    [row EXCEPT !.attempts = @ + 1, !.status = "sent"]
Tried(row, ok) ==
    CASE key = "production" -> [row EXCEPT !.status = "failed"]
      [] key = "development" -> [row EXCEPT !.status = "skipped"]
      [] OTHER ->
           [row EXCEPT !.attempts = @ + 1,
                       !.status = IF ok THEN "sent"
                                  ELSE IF row.attempts + 1 >= MaxAttempts THEN "failed" ELSE @,
                       !.due = IF ok \/ row.attempts + 1 >= MaxAttempts THEN @ ELSE FALSE]

(* email.py:14-57: a timeout leaves open whether the mail was delivered.   *)
SendEmail(m, ok, delivered) ==
    /\ m \in worker.left
    /\ IF key = "set" THEN ok => delivered ELSE ~ok /\ ~delivered
    /\ worker' = [worker EXCEPT !.left = @ \ {m}, !.row[m] = Tried(@, ok)]
    /\ received' = IF delivered /\ received[m] < MaxCopies
                   THEN [received EXCEPT ![m] = @ + 1] ELSE received
    /\ UNCHANGED <<email, request, listed, key, bounds>>

(* email_tasks.py:52-54.                                                   *)
CommitBatch ==
    /\ Working /\ worker.left = {}
    /\ email' = [m \in Mails |->
           IF m \in DOMAIN worker.row THEN Merge(email[m], worker.loaded[m], worker.row[m])
           ELSE email[m]]
    /\ worker' = NoBatch
    /\ UNCHANGED <<request, listed, key, received, bounds>>

Die ==
    /\ Working /\ bounds.deaths < MaxDeaths
    /\ worker' = NoBatch /\ bounds' = [bounds EXCEPT !.deaths = @ + 1]
    /\ UNCHANGED <<email, request, listed, key, received>>

-----------------------------------------------------------------------------
(* FailedEmailManager.tsx:21-57: the page lists the failed mails as they   *)
(* were when it was rendered, and nothing stops a second click.            *)
FailedEmailManager ==
    /\ listed # Failed /\ listed' = Failed
    /\ UNCHANGED <<email, worker, request, key, received, bounds>>

Retry(r, m) ==
    /\ m \in listed /\ request[r] = Idle /\ bounds.retries < MaxRetries
    /\ request' = [request EXCEPT ![r] = [mail |-> m, loaded |-> email[m]]]
    /\ bounds' = [bounds EXCEPT !.retries = @ + 1]
    /\ UNCHANGED <<email, worker, listed, key, received>>

(* admin.py:655-666, and the refresh of the page unless the answer is lost. *)
RetryEmail(r) ==
    LET m == request[r].mail IN
    /\ request[r] # Idle
    /\ email' = [email EXCEPT ![m] = Merge(@, request[r].loaded,
                     [status |-> "pending", attempts |-> 0, due |-> TRUE])]
    /\ request' = [request EXCEPT ![r] = Idle]
    /\ listed' \in {listed, Failed'}
    /\ UNCHANGED <<worker, key, received, bounds>>

Init ==
    /\ email = [m \in Mails |-> Unqueued]
    /\ worker = NoBatch
    /\ request = [r \in Requests |-> Idle]
    /\ listed = {} /\ key \in {"set", "production", "development"}
    /\ received = [m \in Mails |-> 0]
    /\ bounds = [deaths |-> 0, retries |-> 0]

Next ==
    \/ \E m \in Mails : EnqueueEmail(m) \/ Due(m)
    \/ StartBatch \/ CommitBatch \/ Die
    \/ \E m \in Mails, ok, delivered \in BOOLEAN : SendEmail(m, ok, delivered)
    \/ FailedEmailManager
    \/ \E r \in Requests : (\E m \in Mails : Retry(r, m)) \/ RetryEmail(r)

(* The worker loops for ever and the clock goes on.                        *)
Send == \E m \in Mails, ok, delivered \in BOOLEAN : SendEmail(m, ok, delivered)
Fairness ==
    /\ WF_vars(StartBatch) /\ WF_vars(Send) /\ WF_vars(CommitBatch)
    /\ \A m \in Mails : WF_vars(Due(m))

Spec == Init /\ [][Next]_vars /\ Fairness

(* What a status means for the promise.                                    *)
OutcomeOf(status) ==
    CASE status = "pending" -> "open"
      [] status \in {"failed", "skipped"} -> "given_up"
      [] OTHER -> status

Outcome == [m \in Mails |-> OutcomeOf(email[m].status)]

Promise == INSTANCE MailPromise WITH outcome <- Outcome, copies <- received
=============================================================================
