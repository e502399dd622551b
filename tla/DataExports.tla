---------------------------- MODULE DataExports ----------------------------
(***************************************************************************)
(* The data exports of one account: a request, the worker that packages    *)
(* and stores the archive, the one-time link, and the ends of an archive:  *)
(* download, expiry, and with local storage the sweep of the worker.       *)
(*                                                                         *)
(* The archive and the row of the job share no transaction, and every      *)
(* handler reads its row without a lock.  Time is kept as ages and         *)
(* remaining lifetimes, so the clock needs no bound.                       *)
(***************************************************************************)
EXTENDS Naturals

CONSTANTS
    Exports,        \* ids of export jobs
    Requests,       \* database sessions of HTTP requests
    Cooldown,       \* EXPORT_COOLDOWN, in ticks
    Lifetime,       \* EXPORT_LIFETIME, in ticks
    MaxAttempts,    \* MAX_EXPORT_ATTEMPTS
    LocalStorage,   \* archives lie under the swept upload directory
    Faults          \* the process may die between two steps, and a storage
                    \* call may report an error after it took effect

ASSUME ExportsAssumption ==
    /\ Cooldown \in Nat /\ Lifetime \in Nat \ {0} /\ MaxAttempts \in Nat \ {0}
    /\ LocalStorage \in BOOLEAN /\ Faults \in BOOLEAN

VARIABLES
    job,            \* the table data_export_requests
    archives,       \* the archives in the storage, by job
    worker,         \* where the worker is, and with which job
    request,        \* where each HTTP request is, and with which job
    served,         \* history: how often each archive was handed out, up to 2
    swept           \* history: jobs whose archive the sweep of images took

vars == <<job, archives, worker, request, served, swept>>

-----------------------------------------------------------------------------
Job == [status   : {"none", "pending", "processing", "ready", "downloaded",
                    "expired", "failed"},
        attempts : 0..MaxAttempts,
        left     : 0..Lifetime,             \* ticks until expires_at
        age      : 0..Cooldown + 1]         \* ticks since created_at

None == "none"
WorkerAt  == [at : {"idle", "building", "stored", "cleaning"},
              job : Exports \cup {None}]
RequestAt == [at : {"idle", "asking", "reading", "removing"},
              job : Exports \cup {None}]
Idle == [at |-> "idle", job |-> None]

Init ==
    /\ job      = [e \in Exports |-> [status |-> "none", attempts |-> 0,
                                      left |-> 0, age |-> Cooldown + 1]]
    /\ archives = {}
    /\ worker   = Idle
    /\ request  = [r \in Requests |-> Idle]
    /\ served   = [e \in Exports |-> 0]
    /\ swept    = {}

MayStart(r) == request[r] = Idle

Go(r, at, e) == request' = [request EXCEPT ![r] = [at |-> at, job |-> e]]

-----------------------------------------------------------------------------
(* The account asks for an export: no job may be as young as the cooldown. *)

AskExport_PendingOnly(r) ==              \* mutant: only unfinished jobs count
    /\ MayStart(r)
    /\ \A e \in Exports : job[e].status \notin {"pending", "processing"}
    /\ Go(r, "asking", None)
    /\ UNCHANGED <<job, archives, worker, served, swept>>

AskExport(r) ==
    /\ MayStart(r)
    /\ \A e \in Exports : job[e].age > Cooldown
    /\ Go(r, "asking", None)
    /\ UNCHANGED <<job, archives, worker, served, swept>>

InsertExport(r, e) ==
    /\ request[r].at = "asking" /\ job[e].status = "none"
    /\ job' = [job EXCEPT ![e].status = "pending", ![e].age = 0]
    /\ request' = [request EXCEPT ![r] = Idle]
    /\ UNCHANGED <<archives, worker, served, swept>>

(* The link is looked up and the archive read; a missing archive is an     *)
(* exception and leaves the link as it is.                                 *)
OpenLink(r, e) ==
    /\ MayStart(r)
    /\ job[e].status = "ready" /\ job[e].left > 0
    /\ e \in archives
    /\ Go(r, "reading", e)
    /\ UNCHANGED <<job, archives, worker, served, swept>>

(* The status read was "ready", so it is written whatever it is by now.    *)
CommitDownload(r) ==
    LET e == request[r].job IN
    /\ request[r].at = "reading"
    /\ job' = [job EXCEPT ![e].status = "downloaded"]
    /\ Go(r, "removing", e)
    /\ UNCHANGED <<archives, worker, served, swept>>

(* Removed after the commit, then handed out.                              *)
RemoveArchive_Keeps(r) ==                \* mutant: the archive is not removed
    LET e == request[r].job IN
    /\ request[r].at = "removing"
    /\ served'   = [served EXCEPT ![e] = IF @ = 2 THEN 2 ELSE @ + 1]
    /\ request'  = [request EXCEPT ![r] = Idle]
    /\ UNCHANGED <<job, archives, worker, swept>>

RemoveArchive(r) ==
    LET e == request[r].job IN
    /\ request[r].at = "removing"
    /\ archives' = archives \ {e}
    /\ served'   = [served EXCEPT ![e] = IF @ = 2 THEN 2 ELSE @ + 1]
    /\ request'  = [request EXCEPT ![r] = Idle]
    /\ UNCHANGED <<job, worker, swept>>

RequestDies(r) ==
    /\ Faults /\ request[r] # Idle
    /\ request' = [request EXCEPT ![r] = Idle]
    /\ UNCHANGED <<job, archives, worker, served, swept>>

-----------------------------------------------------------------------------
(* The worker, one task after the other.  process_data_exports commits the *)
(* attempt before it builds the archive.                                   *)

BeginJob_AnyStatus(e) ==                 \* mutant: finished jobs start again
    /\ worker = Idle
    /\ job[e].status # "none" /\ job[e].attempts < MaxAttempts
    /\ job' = [job EXCEPT ![e].status = "processing", ![e].attempts = @ + 1]
    /\ worker' = [at |-> "building", job |-> e]
    /\ UNCHANGED <<archives, request, served, swept>>

BeginJob_NoLimit(e) ==                   \* mutant: jobs a crash left are taken up
    /\ worker = Idle                     \* again, and the attempts are not limited
    /\ job[e].status \in {"pending", "processing"}
    /\ job' = [job EXCEPT ![e].status = "processing", ![e].attempts = @ + 1]
    /\ worker' = [at |-> "building", job |-> e]
    /\ UNCHANGED <<archives, request, served, swept>>

BeginJob(e) ==
    /\ worker = Idle
    /\ job[e].status = "pending" /\ job[e].attempts < MaxAttempts
    /\ job' = [job EXCEPT ![e].status = "processing", ![e].attempts = @ + 1]
    /\ worker' = [at |-> "building", job |-> e]
    /\ UNCHANGED <<archives, request, served, swept>>

StoreArchive ==
    /\ worker.at = "building"
    /\ archives' = archives \cup {worker.job}
    /\ worker' = [worker EXCEPT !.at = "stored"]
    /\ UNCHANGED <<job, request, served, swept>>

(* An exception in the try block: the account is unavailable, or the       *)
(* storage fails, which may have kept the object.                          *)
JobFails_AlwaysAgain ==                  \* mutant: the last failure is not final
    /\ worker.at = "building"
    /\ job' = [job EXCEPT ![worker.job].status = "pending"]
    /\ worker' = Idle
    /\ archives' \in {archives} \cup (IF Faults THEN {archives \cup {worker.job}}
                                                ELSE {})
    /\ UNCHANGED <<request, served, swept>>

JobFails ==
    LET e == worker.job IN
    /\ worker.at = "building"
    /\ job' = [job EXCEPT ![e].status =
                  IF job[e].attempts >= MaxAttempts THEN "failed" ELSE "pending"]
    /\ worker' = Idle
    /\ archives' \in {archives} \cup (IF Faults THEN {archives \cup {e}} ELSE {})
    /\ UNCHANGED <<request, served, swept>>

(* The link, its expiry and the email are one commit.                      *)
FinishJob ==
    /\ worker.at = "stored"
    /\ job' = [job EXCEPT ![worker.job].status = "ready",
                          ![worker.job].left = Lifetime]
    /\ worker' = Idle
    /\ UNCHANGED <<archives, request, served, swept>>

(* cleanup_expired_exports: the archive first, the row afterwards.  The    *)
(* code commits its batch once; the rows are independent of each other.    *)
CleanUp_Early(e) ==                      \* mutant: the expiry is not tested
    /\ worker = Idle
    /\ job[e].status = "ready"
    /\ archives' = archives \ {e}
    /\ worker' = [at |-> "cleaning", job |-> e]
    /\ UNCHANGED <<job, request, served, swept>>

CleanUp(e) ==
    /\ worker = Idle
    /\ job[e].status = "ready" /\ job[e].left = 0
    /\ archives' = archives \ {e}
    /\ worker' = [at |-> "cleaning", job |-> e]
    /\ UNCHANGED <<job, request, served, swept>>

CommitCleanUp ==
    /\ worker.at = "cleaning"
    /\ job' = [job EXCEPT ![worker.job].status = "expired"]
    /\ worker' = Idle
    /\ UNCHANGED <<archives, request, served, swept>>

(* cleanup_orphan_local_uploads knows the keys of listing images only.     *)
SweepArchives ==
    /\ LocalStorage /\ worker = Idle /\ archives # {}
    /\ archives' = {}
    /\ swept' = swept \cup archives
    /\ UNCHANGED <<job, worker, request, served>>

WorkerDies ==
    /\ Faults /\ worker # Idle
    /\ worker' = Idle
    /\ UNCHANGED <<job, archives, request, served, swept>>

Tick ==
    /\ job' = [e \in Exports |->
                 [job[e] EXCEPT !.age  = IF @ > Cooldown THEN @ ELSE @ + 1,
                                !.left = IF @ = 0 THEN 0 ELSE @ - 1]]
    /\ UNCHANGED <<archives, worker, request, served, swept>>

-----------------------------------------------------------------------------
Handle(r) == \/ AskExport(r) \/ CommitDownload(r) \/ RemoveArchive(r)
             \/ \E e \in Exports : InsertExport(r, e) \/ OpenLink(r, e)

Work == \/ \E e \in Exports : BeginJob(e) \/ CleanUp(e)
        \/ StoreArchive \/ JobFails \/ FinishJob \/ CommitCleanUp

Next == \/ \E r \in Requests : Handle(r) \/ RequestDies(r)
        \/ Work \/ SweepArchives \/ WorkerDies \/ Tick

Spec == Init /\ [][Next]_vars

(* The worker loops, comes to every job, and finishes what it began unless *)
(* it dies; requests that are being served end; time passes.               *)
Fairness ==
    /\ WF_vars(worker # Idle /\ Work)
    /\ \A e \in Exports : SF_vars(BeginJob(e)) /\ SF_vars(CleanUp(e))
    /\ \A r \in Requests : WF_vars(CommitDownload(r) \/ RemoveArchive(r))
    /\ WF_vars(Tick)

FairSpec == Spec /\ Fairness

-----------------------------------------------------------------------------
(* Jobs, worker and requests hold the values the code gives them, and no   *)
(* job is attempted more often than the limit.                             *)
TypeOK ==
    /\ job \in [Exports -> Job]
    /\ archives \subseteq Exports
    /\ worker \in WorkerAt
    /\ request \in [Requests -> RequestAt]
    /\ served \in [Exports -> 0..2]
    /\ swept \subseteq Exports

(* A link that still works has its archive, through downloads, clean-ups,  *)
(* failed attempts and crashes; only the sweep of local images, which      *)
(* takes archives for orphans, can part them.                              *)
ReadyHasArchive ==
    \A e \in Exports : job[e].status = "ready" /\ job[e].left > 0
                           => e \in archives \cup swept

(* docs/account-security-privacy.md: the link is a "one-time application   *)
(* link"; "a successful download invalidates the token".                   *)
ServedOnce == \A e \in Exports : served[e] <= 1

(* docs/account-security-privacy.md: "at most one request in seven days".  *)
OncePerCooldown ==
    \A e, f \in Exports : job[e].age <= Cooldown /\ job[f].age <= Cooldown => e = f
=============================================================================
