------------------------- MODULE EmailOutbox_proofs -------------------------
(***************************************************************************)
(* The outbox takes the steps its promise allows, and nobody gets a mail   *)
(* twice whose delivery was never in doubt, for any mails and retries.     *)
(*                                                                         *)
(* Neither follows from the rows alone: while a batch is under way they    *)
(* say "pending" of a mail that has been delivered.  The invariant says    *)
(* what the worker's copy owes to the rows and to the recipients.          *)
(***************************************************************************)
EXTENDS MCEmailOutbox, TLAPS

Statuses == {"none", "pending", "sent", "failed", "skipped"}
Row   == [status : Statuses, attempts : Nat, due : BOOLEAN]
Batch == DOMAIN worker.row

(* Rows, the worker's copies and counters hold values of their kinds; a    *)
(* retry is about a mail that was queued.                                  *)
TypeOK ==
    /\ email \in [Mails -> Row]
    /\ received \in [Mails -> 0..MaxCopies]
    /\ worker = NoBatch \/ /\ Batch \subseteq Mails /\ DOMAIN worker.loaded = Batch
                           /\ worker.left \subseteq Batch
                           /\ worker.row \in [Batch -> Row]
                           /\ worker.loaded \in [Batch -> Row]
    /\ \A r \in Requests : request[r] # Idle =>
           request[r].mail \in Mails /\ request[r].loaded \in Row
    /\ listed \subseteq Mails

(* The rows of a batch were open when they were loaded and still are.      *)
BatchIsOpen ==
    Working => \A m \in Batch : worker.loaded[m].status = "pending" /\ email[m].status = "pending"

(* The copy of a mail not yet tried is as it was loaded, and a copy says   *)
(* "sent" only of a mail that was delivered.                               *)
CopiesTell ==
    Working => /\ \A m \in worker.left : worker.row[m].status = "pending"
               /\ \A m \in Batch : worker.row[m].status \in Statuses \ {"none"}
               /\ \A m \in Batch : worker.row[m].status = "sent" => received[m] > 0

(* A queued mail stays queued, and only such mails are put back.           *)
RetriesAreQueued ==
    /\ \A m \in listed : email[m].status # "none"
    /\ \A r \in Requests : request[r] # Idle => email[request[r].mail].status # "none"

(* Where a mail stands whose delivery is certain: its row says so, or the  *)
(* worker's copy of a row that is open.                                    *)
DeliveredIsSettled ==
    \A m \in Mails \ doubted : received[m] > 0 =>
        \/ email[m].status = "sent"
        \/ Working /\ m \in Batch \ worker.left /\ worker.row[m].status = "sent"

OnceOnly == \A m \in Mails \ doubted : received[m] <= 1

IInv == /\ TypeOK /\ BatchIsOpen /\ CopiesTell /\ RetriesAreQueued
        /\ DeliveredIsSettled /\ OnceOnly

-----------------------------------------------------------------------------
(* A merged row is a row, with the status that was written or the current. *)
LEMMA MergeLemma ==
    ASSUME NEW cur \in Row, NEW old \in Row, NEW new \in Row
    PROVE  /\ Merge(cur, old, new) \in Row
           /\ Merge(cur, old, new).status
                 = IF new.status = old.status THEN cur.status ELSE new.status
<1>1. DOMAIN cur = {"status", "attempts", "due"}
  BY DEF Row
<1>2. Merge(cur, old, new) =
          [status   |-> IF new.status = old.status THEN cur.status ELSE new.status,
           attempts |-> IF new.attempts = old.attempts THEN cur.attempts ELSE new.attempts,
           due      |-> IF new.due = old.due THEN cur.due ELSE new.due]
  BY <1>1 DEF Merge
<1> QED  BY <1>2 DEF Row

(* A row after an attempt.                                                 *)
LEMMA TriedLemma ==
    ASSUME NEW row \in Row, row.status = "pending", NEW ok \in BOOLEAN
    PROVE  /\ Tried(row, ok) \in Row
           /\ Tried(row, ok).status # "none"
           /\ Tried(row, ok).status = "sent" => ok
           /\ key = "set" /\ ok => Tried(row, ok).status = "sent"
<1>1. CASE key = "production"
  <2>1. Tried(row, ok) = [row EXCEPT !.status = "failed"]
    BY <1>1 DEF Tried
  <2> QED  BY <1>1, <2>1 DEF Row, Statuses
<1>2. CASE key = "development"
  <2>1. Tried(row, ok) = [row EXCEPT !.status = "skipped"]
    BY <1>2 DEF Tried
  <2> QED  BY <1>2, <2>1 DEF Row, Statuses
<1>3. CASE key \notin {"production", "development"}
  <2> DEFINE t == Tried(row, ok)
             last == row.attempts + 1 >= MaxAttempts
  <2>1. row.attempts + 1 \in Nat /\ row.due \in BOOLEAN
    BY DEF Row
  <2>2. CASE ok
    <3>1. t = [status |-> "sent", attempts |-> row.attempts + 1, due |-> row.due]
      BY <1>3, <2>2 DEF Tried, Row
    <3>2. t \in Row /\ t.status = "sent"
      BY <2>1, <3>1 DEF Row, Statuses
    <3> QED  BY <2>2, <3>2
  <2>3. CASE ~ok
    <3>1. t = [status |-> IF last THEN "failed" ELSE "pending",
               attempts |-> row.attempts + 1, due |-> IF last THEN row.due ELSE FALSE]
      BY <1>3, <2>3 DEF Tried, Row
    <3>2. t \in Row /\ t.status \in {"failed", "pending"}
      <4> HIDE DEF t, last
      <4> QED  BY <2>1, <3>1 DEF Row, Statuses
    <3> QED  BY <2>3, <3>2
  <2> QED  BY <2>2, <2>3
<1> QED  BY <1>1, <1>2, <1>3

LEMMA InitInv == MCInit => IInv
BY EmailOutboxConstants DEF MCInit, Init, IInv, TypeOK, BatchIsOpen, CopiesTell,
   RetriesAreQueued, DeliveredIsSettled, OnceOnly, Working, NoBatch, Unqueued, Row, Statuses

-----------------------------------------------------------------------------
(* The steps that leave the batch and what has been received alone.        *)
LEMMA RowsInv ==
    ASSUME IInv, UNCHANGED <<worker, received>>, doubted \subseteq doubted',
           email' \in [Mails -> Row],
           \A m \in Mails : /\ email[m].status # "none" => email'[m].status # "none"
                            /\ email[m].status = "pending" => email'[m].status = "pending"
                            /\ email[m].status = "sent" => email'[m].status = "sent" \/ m \in doubted',
           listed' \subseteq Mails, \A m \in listed' : email'[m].status # "none",
           \A r \in Requests : request'[r] # Idle =>
               /\ request'[r].mail \in Mails /\ request'[r].loaded \in Row
               /\ email'[request'[r].mail].status # "none"
    PROVE  IInv'
<1>1. TypeOK'
  BY DEF IInv, TypeOK, Batch
<1>2. BatchIsOpen'
  BY DEF IInv, TypeOK, BatchIsOpen, Batch, Working
<1>3. CopiesTell'
  BY DEF IInv, CopiesTell, Batch, Working
<1>4. RetriesAreQueued'
  BY DEF RetriesAreQueued
<1>5. DeliveredIsSettled' /\ OnceOnly'
  BY DEF IInv, DeliveredIsSettled, OnceOnly, Batch, Working
<1> QED  BY <1>1, <1>2, <1>3, <1>4, <1>5 DEF IInv

(* The steps that leave the rows and the retries alone.                    *)
LEMMA WorkerInv ==
    ASSUME IInv, UNCHANGED <<email, request, listed>>,
           TypeOK', BatchIsOpen', CopiesTell', DeliveredIsSettled', OnceOnly'
    PROVE  IInv'
BY DEF IInv, RetriesAreQueued

LEMMA EnqueueInv ==
    ASSUME IInv, NEW m \in Mails, EnqueueEmail(m) \/ Due(m), doubted \subseteq doubted'
    PROVE  IInv'
<1>1. /\ UNCHANGED <<worker, received, request, listed>>
      /\ email \in [Mails -> Row] /\ email' \in [Mails -> Row]
      /\ \A n \in Mails \ {m} : email'[n] = email[n]
      /\ email'[m].status = "pending"
      /\ email[m].status \in {"none", "pending"}
  <2>1. email \in [Mails -> Row] /\ email[m] \in Row
    BY DEF IInv, TypeOK
  <2>2. CASE EnqueueEmail(m)
    BY <2>1, <2>2 DEF EnqueueEmail, Unqueued, Row, Statuses
  <2>3. CASE Due(m)
    BY <2>1, <2>3 DEF Due, Row
  <2> QED  BY <2>2, <2>3
<1> QED  BY <1>1, RowsInv DEF IInv, TypeOK, RetriesAreQueued

LEMMA StartBatchInv ==
    ASSUME IInv, StartBatch, doubted \subseteq doubted'
    PROVE  IInv'
<1> DEFINE batch == {m \in Mails : email[m].status = "pending" /\ email[m].due}
<1>1. /\ worker' = [loaded |-> [m \in batch |-> email[m]], left |-> batch,
                    row |-> [m \in batch |-> email[m]]]
      /\ ~Working /\ UNCHANGED <<email, request, listed, received>>
  BY DEF StartBatch
<1>2. TypeOK'
  BY <1>1 DEF IInv, TypeOK, Batch
<1>3. BatchIsOpen' /\ CopiesTell'
  BY <1>1 DEF BatchIsOpen, CopiesTell, Batch, Statuses
<1>4. DeliveredIsSettled' /\ OnceOnly'
  BY <1>1 DEF IInv, DeliveredIsSettled, OnceOnly
<1> QED  BY <1>1, <1>2, <1>3, <1>4, WorkerInv

(* An attempt: if the provider delivered the mail and yet failed, its      *)
(* delivery is in doubt from then on.                                      *)
LEMMA SendEmailInv ==
    ASSUME IInv, NEW m \in Mails, NEW ok \in BOOLEAN, NEW delivered \in BOOLEAN,
           SendEmail(m, ok, delivered), doubted \subseteq doubted',
           delivered /\ ~ok => m \in doubted'
    PROVE  IInv'
<1> DEFINE t == Tried(worker.row[m], ok)
<1>1. /\ Working /\ m \in Batch /\ m \in worker.left /\ Batch \subseteq Mails
      /\ worker.row \in [Batch -> Row] /\ worker.loaded \in [Batch -> Row]
      /\ DOMAIN worker.loaded = Batch /\ worker.left \subseteq Batch
      /\ worker.row[m] \in Row /\ worker.row[m].status = "pending"
  <2>1. m \in worker.left
    BY DEF SendEmail
  <2>2. worker # NoBatch
    BY <2>1 DEF NoBatch
  <2> QED  BY <2>1, <2>2 DEF IInv, TypeOK, CopiesTell, Working
<1>2. t \in Row /\ t.status # "none" /\ (t.status = "sent" => ok)
      /\ (key = "set" /\ ok => t.status = "sent")
  BY <1>1, TriedLemma
<1>3. /\ worker' = [worker EXCEPT !.left = @ \ {m}, !.row[m] = t]
      /\ UNCHANGED <<email, request, listed>>
  BY DEF SendEmail
<1>4. received' = IF delivered /\ received[m] < MaxCopies
                  THEN [received EXCEPT ![m] = @ + 1] ELSE received
  BY DEF SendEmail
<1>5. (ok => delivered) /\ (delivered => key = "set")
  BY DEF SendEmail
<1> HIDE DEF t
<1>6. /\ worker'.row = [worker.row EXCEPT ![m] = t] /\ worker'.left = worker.left \ {m}
      /\ worker'.loaded = worker.loaded
  <2>1. CASE worker = NoBatch
    BY <1>1, <2>1 DEF Working
  <2> QED  BY <1>3
<1>7. Batch' = Batch /\ worker'.row \in [Batch -> Row] /\ worker'.row[m] = t
      /\ \A n \in Batch \ {m} : worker'.row[n] = worker.row[n]
  BY <1>1, <1>2, <1>6 DEF Batch
<1>8. /\ received' \in [Mails -> 0..MaxCopies]
      /\ \A n \in Mails \ {m} : received'[n] = received[n]
      /\ delivered => received'[m] > 0 /\ received'[m] <= received[m] + 1
      /\ ~delivered => received'[m] = received[m]
      /\ received'[m] >= received[m]
  BY <1>4, EmailOutboxConstants DEF IInv, TypeOK
<1>9. TypeOK'
  BY <1>1, <1>3, <1>6, <1>7, <1>8 DEF IInv, TypeOK
<1>10. BatchIsOpen'
  BY <1>1, <1>3, <1>6, <1>7 DEF IInv, BatchIsOpen
<1>11. CopiesTell'
  <2>1. received[m] \in Nat /\ \A n \in Mails : received[n] \in Nat
    BY EmailOutboxConstants DEF IInv, TypeOK
  <2>2. t.status \in Statuses \ {"none"} /\ (t.status = "sent" => received'[m] > 0)
    BY <1>2, <1>5, <1>8 DEF Row
  <2> QED  BY <1>1, <1>6, <1>7, <1>8, <2>2 DEF IInv, CopiesTell
<1>12. ASSUME NEW n \in Mails \ doubted' PROVE
           /\ received'[n] <= 1
           /\ received'[n] > 0 => \/ email'[n].status = "sent"
                                  \/ n \in Batch' \ worker'.left /\ worker'.row[n].status = "sent"
  <2>1. received[n] \in Nat /\ received[n] <= 1
    BY EmailOutboxConstants DEF IInv, TypeOK, OnceOnly
  <2>2. CASE n # m
    BY <1>3, <1>6, <1>7, <1>8, <2>1, <2>2 DEF IInv, DeliveredIsSettled
  <2>3. CASE n = m
    <3>1. received[m] = 0
      BY <1>1, <2>1, <2>3 DEF IInv, DeliveredIsSettled, BatchIsOpen
    <3>2. CASE delivered
      <4>1. ok /\ t.status = "sent"
        BY <1>2, <1>5, <2>3, <3>2
      <4> QED  BY <1>1, <1>6, <1>7, <1>8, <2>3, <3>1, <3>2, <4>1
    <3>3. CASE ~delivered
      BY <1>8, <2>3, <3>1, <3>3
    <3> QED  BY <3>2, <3>3
  <2> QED  BY <2>2, <2>3
<1>13. Working'
  <2>1. Batch' # {}
    BY <1>1, <1>7
  <2> QED  BY <2>1 DEF Working, NoBatch, Batch
<1>14. DeliveredIsSettled' /\ OnceOnly'
  BY <1>12, <1>13 DEF DeliveredIsSettled, OnceOnly
<1> QED  BY <1>3, <1>9, <1>10, <1>11, <1>14, WorkerInv

(* The commit of a batch writes what became of its open rows.              *)
LEMMA CommitBatchRows ==
    ASSUME IInv, CommitBatch
    PROVE  /\ Working /\ worker.left = {} /\ Batch \subseteq Mails
           /\ email' \in [Mails -> Row]
           /\ \A m \in Mails \ Batch : email'[m] = email[m]
           /\ \A m \in Batch : email'[m].status = worker.row[m].status
<1>1. Working /\ worker.left = {} /\ email \in [Mails -> Row] /\ Batch \subseteq Mails
      /\ worker.row \in [Batch -> Row] /\ worker.loaded \in [Batch -> Row]
  BY DEF CommitBatch, IInv, TypeOK, Working
<1>2. email' = [m \in Mails |->
           IF m \in Batch THEN Merge(email[m], worker.loaded[m], worker.row[m]) ELSE email[m]]
  BY DEF CommitBatch, Batch
<1>3. \A m \in Batch :
          /\ Merge(email[m], worker.loaded[m], worker.row[m]) \in Row
          /\ Merge(email[m], worker.loaded[m], worker.row[m]).status = worker.row[m].status
  BY <1>1, MergeLemma DEF IInv, BatchIsOpen
<1> QED  BY <1>1, <1>2, <1>3

LEMMA CommitBatchInv ==
    ASSUME IInv, CommitBatch, doubted \subseteq doubted'
    PROVE  IInv'
<1>1. worker' = NoBatch /\ UNCHANGED <<request, listed, received>>
  BY DEF CommitBatch
<1>2. /\ Working /\ worker.left = {} /\ Batch \subseteq Mails
      /\ email' \in [Mails -> Row]
      /\ \A m \in Mails \ Batch : email'[m] = email[m]
      /\ \A m \in Batch : email'[m].status = worker.row[m].status
  BY CommitBatchRows
<1>3. TypeOK' /\ BatchIsOpen' /\ CopiesTell'
  BY <1>1, <1>2 DEF IInv, TypeOK, BatchIsOpen, CopiesTell, Working
<1>4. RetriesAreQueued'
  BY <1>1, <1>2 DEF IInv, TypeOK, RetriesAreQueued, CopiesTell
<1>5. OnceOnly'
  BY <1>1 DEF IInv, OnceOnly
<1>6. ASSUME NEW m \in Mails \ doubted', received'[m] > 0
      PROVE  email'[m].status = "sent"
  <2>1. \/ email[m].status = "sent"
        \/ m \in Batch /\ worker.row[m].status = "sent"
    BY <1>1, <1>6 DEF IInv, DeliveredIsSettled
  <2>2. m \in Batch => email[m].status = "pending"
    BY <1>2 DEF IInv, BatchIsOpen
  <2> QED  BY <1>2, <2>1, <2>2
<1>7. DeliveredIsSettled'
  BY <1>6 DEF DeliveredIsSettled
<1> QED  BY <1>3, <1>4, <1>5, <1>7 DEF IInv

(* A worker that dies leaves the mails it tried in doubt.                  *)
LEMMA DieInv ==
    ASSUME IInv, Die, doubted \subseteq doubted', Batch \ worker.left \subseteq doubted'
    PROVE  IInv'
<1>1. worker' = NoBatch /\ UNCHANGED <<email, request, listed, received>>
  BY DEF Die
<1>2. TypeOK' /\ BatchIsOpen' /\ CopiesTell'
  BY <1>1 DEF IInv, TypeOK, BatchIsOpen, CopiesTell, Working
<1>3. ASSUME NEW m \in Mails \ doubted'
      PROVE  received'[m] <= 1 /\ (received'[m] > 0 => email'[m].status = "sent")
  <2>1. m \in Mails \ doubted /\ ~(m \in Batch \ worker.left)
    OBVIOUS
  <2> QED  BY <1>1, <2>1 DEF IInv, DeliveredIsSettled, OnceOnly
<1>4. OnceOnly'
  BY <1>3 DEF OnceOnly
<1>5. DeliveredIsSettled'
  BY <1>3 DEF DeliveredIsSettled
<1> QED  BY <1>1, <1>2, <1>4, <1>5, WorkerInv

LEMMA RequestInv ==
    ASSUME IInv, doubted \subseteq doubted',
           FailedEmailManager \/ \E r \in Requests, m \in Mails : Retry(r, m)
    PROVE  IInv'
<1>1. UNCHANGED <<email, worker, received>> /\ email \in [Mails -> Row]
  BY DEF FailedEmailManager, Retry, IInv, TypeOK
<1>2. listed' \subseteq Mails /\ \A m \in listed' : email[m].status # "none"
  <2>1. CASE FailedEmailManager
    BY <2>1 DEF FailedEmailManager, Failed
  <2>2. CASE listed' = listed
    BY <2>2 DEF IInv, TypeOK, RetriesAreQueued
  <2> QED  BY <2>1, <2>2 DEF Retry
<1>3. \A r \in Requests : request'[r] # Idle =>
          /\ request'[r].mail \in Mails /\ request'[r].loaded \in Row
          /\ email[request'[r].mail].status # "none"
  <2>1. CASE request' = request
    BY <2>1 DEF IInv, TypeOK, RetriesAreQueued
  <2>2. ASSUME NEW r \in Requests, NEW m \in Mails, Retry(r, m),
               NEW q \in Requests, request'[q] # Idle
        PROVE  /\ request'[q].mail \in Mails /\ request'[q].loaded \in Row
               /\ email[request'[q].mail].status # "none"
    <3>1. /\ request' = [request EXCEPT ![r] = [mail |-> m, loaded |-> email[m]]]
          /\ email[m] \in Row /\ email[m].status # "none"
      BY <1>1, <2>2 DEF Retry, IInv, RetriesAreQueued
    <3>2. CASE request'[q] = request[q]
      BY <2>2, <3>2 DEF IInv, TypeOK, RetriesAreQueued
    <3>3. CASE request'[q] = [mail |-> m, loaded |-> email[m]]
      BY <3>1, <3>3
    <3> QED  BY <2>2, <3>1, <3>2, <3>3
  <2> QED  BY <2>1, <2>2 DEF FailedEmailManager
<1> QED  BY <1>1, <1>2, <1>3, RowsInv

(* A retry put back a mail that is queued.                                 *)
LEMMA RetryEmailRow ==
    ASSUME IInv, NEW r \in Requests, RetryEmail(r), NEW m, m = request[r].mail
    PROVE  /\ m \in Mails /\ email[m].status # "none"
           /\ email' \in [Mails -> Row]
           /\ \A n \in Mails \ {m} : email'[n] = email[n]
           /\ email'[m].status \in {"pending", email[m].status}
<1> DEFINE new == [status |-> "pending", attempts |-> 0, due |-> TRUE]
<1>1. /\ m \in Mails /\ request[r].loaded \in Row /\ email[m].status # "none"
      /\ email \in [Mails -> Row] /\ new \in Row
  BY DEF RetryEmail, IInv, TypeOK, RetriesAreQueued, Row, Statuses
<1>2. email' = [email EXCEPT ![m] = Merge(email[m], request[r].loaded, new)]
  BY DEF RetryEmail
<1>3. /\ Merge(email[m], request[r].loaded, new) \in Row
      /\ Merge(email[m], request[r].loaded, new).status \in {"pending", email[m].status}
  BY <1>1, MergeLemma
<1> QED  BY <1>1, <1>2, <1>3

LEMMA RetryEmailInv ==
    ASSUME IInv, NEW r \in Requests, RetryEmail(r), doubted \subseteq doubted',
           \A m \in Mails : email[m].status = "sent" /\ email'[m].status = "pending"
                                => m \in doubted'
    PROVE  IInv'
<1> DEFINE m == request[r].mail
<1>1. /\ m \in Mails /\ email[m].status # "none"
      /\ email' \in [Mails -> Row] /\ email \in [Mails -> Row]
      /\ \A n \in Mails \ {m} : email'[n] = email[n]
      /\ email'[m].status \in {"pending", email[m].status}
  BY RetryEmailRow DEF IInv, TypeOK
<1>2. \A n \in Mails : /\ email[n].status # "none" => email'[n].status # "none"
                       /\ email[n].status = "pending" => email'[n].status = "pending"
                       /\ email[n].status = "sent" => email'[n].status = "sent" \/ n \in doubted'
  BY <1>1
<1>3. UNCHANGED <<worker, received>> /\ listed' \in {listed, Failed'}
  BY DEF RetryEmail
<1>4. listed' \subseteq Mails /\ \A n \in listed' : email'[n].status # "none"
  <2>1. CASE listed' = listed
    BY <1>2, <2>1 DEF IInv, TypeOK, RetriesAreQueued
  <2>2. CASE listed' = Failed'
    BY <2>2 DEF Failed
  <2> QED  BY <1>3, <2>1, <2>2
<1>5. \A q \in Requests : request'[q] # Idle =>
          /\ request'[q].mail \in Mails /\ request'[q].loaded \in Row
          /\ email'[request'[q].mail].status # "none"
  <2>1. request' = [request EXCEPT ![r] = Idle]
    BY DEF RetryEmail
  <2> QED  BY <1>2, <2>1 DEF IInv, TypeOK, RetriesAreQueued
<1> QED  BY <1>1, <1>2, <1>3, <1>4, <1>5, RowsInv

-----------------------------------------------------------------------------
LEMMA NextInv == IInv /\ [MCNext]_<<vars, doubted>> => IInv'
<1> SUFFICES ASSUME IInv, [MCNext]_<<vars, doubted>> PROVE IInv'
  OBVIOUS
<1>1. CASE UNCHANGED <<vars, doubted>>
  BY <1>1 DEF vars, IInv, TypeOK, BatchIsOpen, CopiesTell, RetriesAreQueued,
              DeliveredIsSettled, OnceOnly, Batch, Working
<1>2. CASE MCNext
  <2>1. Next /\ doubted \subseteq doubted' /\ Doubts \subseteq doubted'
    BY <1>2 DEF MCNext
  <2>2. ASSUME NEW m \in Mails, EnqueueEmail(m) \/ Due(m) PROVE IInv'
    BY <2>1, <2>2, EnqueueInv
  <2>3. CASE StartBatch
    BY <2>1, <2>3, StartBatchInv
  <2>4. CASE CommitBatch
    BY <2>1, <2>4, CommitBatchInv
  <2>5. CASE Die
    <3>1. Batch \ worker.left \subseteq doubted'
      BY <2>1, <2>5 DEF Doubts, Batch, IInv, TypeOK, Die, Working
    <3> QED  BY <2>1, <2>5, <3>1, DieInv
  <2>6. ASSUME NEW m \in Mails, NEW ok \in BOOLEAN, NEW delivered \in BOOLEAN,
               SendEmail(m, ok, delivered)
        PROVE  IInv'
    <3>1. delivered /\ ~ok => SendEmail(m, FALSE, TRUE)
      BY <2>6
    <3>2. delivered /\ ~ok => m \in doubted'
      BY <2>1, <3>1 DEF Doubts
    <3> QED  BY <2>1, <2>6, <3>2, SendEmailInv
  <2>7. CASE FailedEmailManager \/ \E r \in Requests, m \in Mails : Retry(r, m)
    BY <2>1, <2>7, RequestInv
  <2>8. ASSUME NEW r \in Requests, RetryEmail(r) PROVE IInv'
    <3>1. \A m \in Mails : email[m].status = "sent" /\ email'[m].status = "pending"
                               => m \in doubted'
      BY <2>1 DEF Doubts
    <3> QED  BY <2>1, <2>8, <3>1, RetryEmailInv
  <2> QED  BY <2>1, <2>2, <2>3, <2>4, <2>5, <2>6, <2>7, <2>8 DEF Next
<1> QED  BY <1>1, <1>2

(* email_tasks.py:16-54: whatever batches, deaths of the worker, timeouts  *)
(* and clicks of administrators, a mail reaches its recipient twice only   *)
(* if its delivery was in doubt.                                           *)
THEOREM OnceForSure == MCSpec => []OnceUnlessDoubted
<1>1. IInv => OnceUnlessDoubted
  BY DEF IInv, OnceOnly, OnceUnlessDoubted, TypeOK
<1> QED  BY InitInv, NextInv, <1>1, PTL DEF MCSpec

-----------------------------------------------------------------------------
LEMMA OutcomeLemma ==
    /\ OutcomeOf("none") = "none" /\ OutcomeOf("pending") = "open"
    /\ OutcomeOf("sent") = "sent"
    /\ OutcomeOf("failed") = "given_up" /\ OutcomeOf("skipped") = "given_up"
  BY DEF OutcomeOf

(* A mail whose status stays keeps its outcome.                            *)
LEMMA SameOutcome ==
    ASSUME \A m \in Mails : email'[m].status = email[m].status
    PROVE  Outcome' = Outcome
  BY DEF Outcome

(* Where one mail changes, its outcome does.                               *)
LEMMA OneOutcome ==
    ASSUME NEW m \in Mails, \A n \in Mails \ {m} : email'[n] = email[n]
    PROVE  Outcome' = [Outcome EXCEPT ![m] = OutcomeOf(email'[m].status)]
  BY DEF Outcome

LEMMA EnqueueMaps ==
    ASSUME IInv, NEW m \in Mails, EnqueueEmail(m)
    PROVE  Promise!Accept(m)
<1>1. /\ email[m].status = "none" /\ email'[m].status = "pending"
      /\ \A n \in Mails \ {m} : email'[n] = email[n]
      /\ received' = received
  BY DEF EnqueueEmail, Unqueued, IInv, TypeOK
<1>2. Outcome[m] = "none"
  BY <1>1, OutcomeLemma DEF Outcome
<1> QED  BY <1>1, <1>2, OneOutcome, OutcomeLemma DEF Promise!Accept

(* A delivery is of a mail that is open.                                   *)
LEMMA SendMaps ==
    ASSUME IInv, NEW m \in Mails, NEW ok \in BOOLEAN, NEW delivered \in BOOLEAN,
           SendEmail(m, ok, delivered)
    PROVE  Promise!Deliver(m) \/ UNCHANGED Promise!vars
<1>1. Outcome' = Outcome
  BY SameOutcome DEF SendEmail
<1>2. Outcome[m] = "open"
  <2>1. Working /\ m \in Batch
    BY DEF SendEmail, IInv, TypeOK, Working, NoBatch
  <2>2. email[m].status = "pending"
    BY <2>1 DEF IInv, BatchIsOpen
  <2> QED  BY <2>2, OutcomeLemma DEF Outcome
<1>3. CASE received' = received
  BY <1>1, <1>3 DEF Promise!vars
<1>4. CASE received' # received
  <2>1. received[m] < MaxCopies /\ received' = [received EXCEPT ![m] = @ + 1]
    BY <1>4 DEF SendEmail
  <2>2. received[m] # MaxCopies
    BY <2>1, EmailOutboxConstants DEF IInv, TypeOK
  <2> QED  BY <1>1, <1>2, <2>1, <2>2 DEF Promise!Deliver
<1> QED  BY <1>3, <1>4

(* A commit settles the mails of the batch whose attempts are over.        *)
LEMMA CommitMaps ==
    ASSUME IInv, CommitBatch
    PROVE  \E batch \in SUBSET Mails : Promise!Settle(batch)
<1> DEFINE batch == {m \in Batch : worker.row[m].status # "pending"}
<1>1. /\ Working /\ Batch \subseteq Mails
      /\ \A m \in Mails \ Batch : email'[m] = email[m]
      /\ \A m \in Batch : email'[m].status = worker.row[m].status
      /\ received' = received
  BY CommitBatchRows DEF CommitBatch
<1>2. \A m \in Batch : email[m].status = "pending"
  BY <1>1 DEF IInv, BatchIsOpen
<1>3. \A m \in batch : Outcome[m] = "open"
  BY <1>1, <1>2, OutcomeLemma DEF Outcome
<1>4. \A m \in Mails \ batch : Outcome'[m] = Outcome[m]
  BY <1>1, <1>2 DEF Outcome
<1>5. ASSUME NEW m \in batch
      PROVE  /\ Outcome'[m] \in {"sent", "given_up"}
             /\ Outcome'[m] = "sent" => received[m] > 0
  <2>1. /\ worker.row[m].status \in {"sent", "failed", "skipped"}
        /\ worker.row[m].status = "sent" => received[m] > 0
    BY <1>1 DEF IInv, CopiesTell, Statuses
  <2>2. Outcome'[m] = OutcomeOf(worker.row[m].status)
    BY <1>1 DEF Outcome
  <2> QED  BY <2>1, <2>2, OutcomeLemma
<1>6. Outcome' \in [Mails -> {"none", "open", "sent", "given_up"}]
  <2>1. \A m \in Mails : email'[m].status \in Statuses
    BY CommitBatchRows DEF Row
  <2>2. \A m \in Mails : OutcomeOf(email'[m].status) \in {"none", "open", "sent", "given_up"}
    BY <2>1, OutcomeLemma DEF Statuses
  <2> QED  BY <2>2 DEF Outcome
<1>7. batch \in SUBSET Mails
  BY <1>1
<1> QED  BY <1>1, <1>3, <1>4, <1>5, <1>6, <1>7 DEF Promise!Settle

(* An administrator puts a settled mail back, or changes nothing.          *)
LEMMA RetryMaps ==
    ASSUME IInv, NEW r \in Requests, RetryEmail(r)
    PROVE  (\E m \in Mails : Promise!AskAgain(m)) \/ UNCHANGED Promise!vars
<1> DEFINE m == request[r].mail
<1>1. /\ m \in Mails /\ email[m].status # "none" /\ email[m].status \in Statuses
      /\ \A n \in Mails \ {m} : email'[n] = email[n]
      /\ email'[m].status \in {"pending", email[m].status}
      /\ received' = received
  <2>1. /\ m \in Mails /\ email[m].status # "none"
        /\ \A n \in Mails \ {m} : email'[n] = email[n]
        /\ email'[m].status \in {"pending", email[m].status}
    BY RetryEmailRow
  <2>2. email \in [Mails -> Row] /\ received' = received
    BY DEF RetryEmail, IInv, TypeOK
  <2> HIDE DEF m
  <2>3. email[m] \in Row
    BY <2>1, <2>2
  <2> QED  BY <2>1, <2>2, <2>3 DEF Row
<1> HIDE DEF m
<1>2. CASE email'[m].status = email[m].status
  BY <1>1, <1>2, SameOutcome DEF Promise!vars
<1>3. CASE email'[m].status = "pending" /\ email[m].status # "pending"
  <2>1. Outcome[m] \in {"sent", "given_up"}
    BY <1>1, <1>3, OutcomeLemma DEF Outcome, Statuses
  <2>2. Outcome' = [Outcome EXCEPT ![m] = "open"]
    BY <1>1, <1>3, OneOutcome, OutcomeLemma
  <2> QED  BY <1>1, <2>1, <2>2 DEF Promise!AskAgain
<1> QED  BY <1>1, <1>2, <1>3

LEMMA StepMaps == IInv /\ [MCNext]_<<vars, doubted>> => [Promise!Next]_(Promise!vars)
<1> SUFFICES ASSUME IInv, [MCNext]_<<vars, doubted>> PROVE [Promise!Next]_(Promise!vars)
  OBVIOUS
<1>1. CASE email' = email /\ received' = received
  BY <1>1 DEF Promise!vars, Outcome
<1>2. CASE MCNext /\ ~(email' = email /\ received' = received)
  <2>1. ASSUME NEW m \in Mails, EnqueueEmail(m) PROVE Promise!Next
    BY <2>1, EnqueueMaps DEF Promise!Next
  <2>2. ASSUME NEW m \in Mails, Due(m) PROVE UNCHANGED Promise!vars
    <3>1. \A n \in Mails : email'[n].status = email[n].status
      BY <2>2 DEF Due, IInv, TypeOK, Row
    <3> QED  BY <2>2, <3>1, SameOutcome DEF Due, Promise!vars
  <2>3. CASE CommitBatch
    BY <2>3, CommitMaps DEF Promise!Next
  <2>4. ASSUME NEW m \in Mails, NEW ok \in BOOLEAN, NEW delivered \in BOOLEAN,
               SendEmail(m, ok, delivered)
        PROVE  [Promise!Next]_(Promise!vars)
    BY <2>4, SendMaps DEF Promise!Next
  <2>5. ASSUME NEW r \in Requests, RetryEmail(r) PROVE [Promise!Next]_(Promise!vars)
    BY <2>5, RetryMaps DEF Promise!Next
  <2>6. CASE StartBatch \/ Die \/ FailedEmailManager
                \/ \E r \in Requests, m \in Mails : Retry(r, m)
    BY <1>2, <2>6 DEF StartBatch, Die, FailedEmailManager, Retry
  <2> QED  BY <1>2, <2>1, <2>2, <2>3, <2>4, <2>5, <2>6 DEF MCNext, Next
<1> QED  BY <1>1, <1>2 DEF vars

(* email_tasks.py:14-55, email.py:60-69, admin.py:655-666: the outbox      *)
(* implements MailPromise, its liveness apart: every step of the outbox is *)
(* a step the promise allows or changes nothing it speaks of.              *)
THEOREM KeepsPromiseSafely == MCSpec => Promise!Init /\ [][Promise!Next]_(Promise!vars)
<1>1. MCInit => Promise!Init
  BY OutcomeLemma DEF MCInit, Init, Unqueued, Outcome, Promise!Init
<1> QED  BY <1>1, InitInv, NextInv, StepMaps, PTL DEF MCSpec
=============================================================================
