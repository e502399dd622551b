------------------------- MODULE DataExports_proofs -------------------------
(***************************************************************************)
(* A link that works has its archive, for any jobs, requests, limits and   *)
(* lifetimes, whatever dies on the way.                                    *)
(*                                                                         *)
(* ReadyHasArchive is not inductive: the worker makes a link of what it    *)
(* stored a step ago, and a request removes what it read longer ago.       *)
(***************************************************************************)
EXTENDS MCDataExports, TLAPS

Settled == {"downloaded", "expired"}

(* The job the worker builds is in no other hands, and what it has stored  *)
(* is still there, or swept.                                               *)
WorkerOwns ==
    /\ worker.at # "idle" => worker.job \in Exports
    /\ worker.at \in {"building", "stored"} => job[worker.job].status = "processing"
    /\ worker.at = "stored" => worker.job \in archives \cup swept

(* A request that read a link works on a job that was ready; one that      *)
(* removes an archive has made its link invalid.                           *)
RequestsFollow ==
    \A r \in Requests :
        /\ request[r].at \in {"reading", "removing"} => request[r].job \in Exports
        /\ request[r].at = "reading"
               => job[request[r].job].status \in Settled \cup {"ready"}
        /\ request[r].at = "removing" => job[request[r].job].status \in Settled

IInv == TypeOK /\ ReadyHasArchive /\ WorkerOwns /\ RequestsFollow

-----------------------------------------------------------------------------
LEMMA InitIInv == ASSUME Init PROVE IInv
BY ExportsAssumption DEF ExportsAssumption, Init, IInv, TypeOK, ReadyHasArchive,
   WorkerOwns, RequestsFollow, Job, WorkerAt, RequestAt, Idle

(* A row with another status, age, or lifetime within bounds is a row.     *)
LEMMA JobFields ==
    ASSUME NEW x \in Job, NEW s \in {"pending", "processing", "ready", "downloaded",
                                     "expired", "failed"}
    PROVE  /\ [x EXCEPT !.status = s] \in Job
           /\ [x EXCEPT !.status = s, !.age = 0] \in Job
           /\ [x EXCEPT !.status = s, !.left = Lifetime] \in Job
           /\ x.attempts < MaxAttempts
                 => [x EXCEPT !.status = s, !.attempts = x.attempts + 1] \in Job
<1>1. 0 \in 0..Cooldown + 1 /\ Lifetime \in 0..Lifetime
  BY ExportsAssumption DEF ExportsAssumption
<1>2. x.attempts < MaxAttempts => x.attempts + 1 \in 0..MaxAttempts
  BY ExportsAssumption DEF ExportsAssumption, Job
<1> QED  BY <1>1, <1>2 DEF Job

(* A request goes to another step, and the rest stays.                     *)
LEMMA GoKeeps ==
    ASSUME IInv, NEW r \in Requests, NEW x \in RequestAt,
           request' = [request EXCEPT ![r] = x],
           UNCHANGED <<job, archives, worker, served, swept>>,
           x.at \in {"reading", "removing"} => x.job \in Exports,
           x.at = "reading" => job[x.job].status \in Settled \cup {"ready"},
           x.at # "removing"
    PROVE  IInv'
<1>1. TypeOK'
  BY DEF IInv, TypeOK
<1>2. ReadyHasArchive' /\ WorkerOwns'
  BY DEF IInv, ReadyHasArchive, WorkerOwns
<1>3. RequestsFollow'
  BY DEF IInv, TypeOK, RequestsFollow
<1> QED  BY <1>1, <1>2, <1>3 DEF IInv

(* One job's row changes to new while the archives stay: what that row has *)
(* to keep for the worker, for the requests and for its link.              *)
LEMMA JobKeeps ==
    ASSUME IInv, NEW e \in Exports, NEW new \in Job,
           job' = [job EXCEPT ![e] = new],
           UNCHANGED <<archives, request, served, swept>>,
           worker' \in WorkerAt,
           new.status = "ready" => e \in archives \cup swept,
           WorkerOwns',
           job[e].status \in Settled \cup {"ready"} => new.status \in Settled
    PROVE  IInv'
<1>1. TypeOK'
  BY DEF IInv, TypeOK
<1>2. ReadyHasArchive'
  BY DEF IInv, TypeOK, ReadyHasArchive
<1>3. RequestsFollow'
  <2> SUFFICES ASSUME NEW r \in Requests, request[r].at \in {"reading", "removing"}
               PROVE  /\ request[r].job \in Exports
                      /\ request[r].at = "reading"
                            => job'[request[r].job].status \in Settled \cup {"ready"}
                      /\ request[r].at = "removing"
                            => job'[request[r].job].status \in Settled
    BY DEF RequestsFollow
  <2>1. request[r].job \in Exports
    BY DEF IInv, RequestsFollow
  <2>2. CASE request[r].job = e
    BY <2>1, <2>2 DEF IInv, TypeOK, RequestsFollow
  <2>3. CASE request[r].job # e
    BY <2>1, <2>3 DEF IInv, TypeOK, RequestsFollow
  <2> QED  BY <2>2, <2>3
<1> QED  BY <1>1, <1>2, <1>3 DEF IInv

-----------------------------------------------------------------------------
LEMMA HandleKeeps ==
    ASSUME IInv, NEW r \in Requests, Handle(r) \/ RequestDies(r)
    PROVE  IInv'
<1>0. Idle \in RequestAt /\ Idle.at = "idle" /\ request[r] \in RequestAt
  BY DEF Idle, RequestAt, IInv, TypeOK
<1>1. CASE AskExport(r)
  <2> DEFINE x == [at |-> "asking", job |-> None]
  <2>1. x \in RequestAt /\ x.at = "asking"
    BY DEF RequestAt
  <2>2. request' = [request EXCEPT ![r] = x]
        /\ UNCHANGED <<job, archives, worker, served, swept>>
    BY <1>1 DEF AskExport, Go
  <2> HIDE DEF x
  <2> QED  BY <2>1, <2>2, GoKeeps
<1>2. ASSUME NEW e \in Exports, InsertExport(r, e)  PROVE IInv'
  <2> DEFINE new == [job[e] EXCEPT !.status = "pending", !.age = 0]
  <2>0. job[e] \in Job /\ job \in [Exports -> Job]
    BY DEF IInv, TypeOK
  <2>1. job' = [job EXCEPT ![e] = new] /\ new \in Job /\ new.status = "pending"
    <3>1. job' = [job EXCEPT ![e] = new]
      BY <1>2, <2>0 DEF InsertExport
    <3>2. new \in Job
      BY <2>0, JobFields
    <3>3. new.status = "pending"
      BY <2>0 DEF Job
    <3> QED  BY <3>1, <3>2, <3>3
  <2>2. job[e].status = "none"
    BY <1>2 DEF InsertExport
  <2>3. TypeOK'
    BY <1>0, <1>2, <2>1 DEF InsertExport, IInv, TypeOK
  <2>4. ReadyHasArchive' /\ WorkerOwns'
    BY <1>2, <2>1, <2>2 DEF InsertExport, IInv, TypeOK, ReadyHasArchive, WorkerOwns
  <2>5. RequestsFollow'
    BY <1>0, <1>2, <2>1, <2>2 DEF InsertExport, IInv, TypeOK, RequestsFollow, Settled
  <2> QED  BY <2>3, <2>4, <2>5 DEF IInv
<1>3. ASSUME NEW e \in Exports, OpenLink(r, e)  PROVE IInv'
  <2> DEFINE x == [at |-> "reading", job |-> e]
  <2>1. x \in RequestAt /\ x.at = "reading" /\ x.job = e
    BY DEF RequestAt
  <2>2. request' = [request EXCEPT ![r] = x] /\ job[e].status = "ready"
        /\ UNCHANGED <<job, archives, worker, served, swept>>
    BY <1>3 DEF OpenLink, Go
  <2> HIDE DEF x
  <2> QED  BY <2>1, <2>2, GoKeeps
<1>4. CASE CommitDownload(r)
  <2> DEFINE e   == request[r].job
             new == [job[e] EXCEPT !.status = "downloaded"]
  <2>1. e \in Exports /\ job[e].status \in Settled \cup {"ready"}
    BY <1>4 DEF CommitDownload, IInv, RequestsFollow
  <2>2. job' = [job EXCEPT ![e] = new] /\ new \in Job /\ new.status = "downloaded"
    BY <1>4, <2>1 DEF CommitDownload, IInv, TypeOK, Job
  <2>3. TypeOK'
    BY <1>4, <2>1, <2>2 DEF CommitDownload, Go, IInv, TypeOK, RequestAt
  <2>4. ReadyHasArchive' /\ WorkerOwns'
    BY <1>4, <2>1, <2>2 DEF CommitDownload, IInv, TypeOK, ReadyHasArchive, WorkerOwns, Settled
  <2>5. RequestsFollow'
    BY <1>4, <2>1, <2>2 DEF CommitDownload, Go, IInv, TypeOK, RequestsFollow, Settled
  <2> QED  BY <2>3, <2>4, <2>5 DEF IInv
<1>5. CASE RemoveArchive(r)
  <2> DEFINE e == request[r].job
  <2>1. e \in Exports /\ job[e].status \in Settled
    BY <1>5 DEF RemoveArchive, IInv, RequestsFollow
  <2>2. TypeOK'
    BY <1>0, <1>5, <2>1 DEF RemoveArchive, IInv, TypeOK
  <2>3. ReadyHasArchive' /\ WorkerOwns'
    BY <1>5, <2>1 DEF RemoveArchive, IInv, ReadyHasArchive, WorkerOwns, Settled
  <2>4. RequestsFollow'
    BY <1>0, <1>5 DEF RemoveArchive, IInv, TypeOK, RequestsFollow
  <2> QED  BY <2>2, <2>3, <2>4 DEF IInv
<1>6. CASE RequestDies(r)
  BY <1>0, <1>6, GoKeeps DEF RequestDies
<1> QED  BY <1>1, <1>2, <1>3, <1>4, <1>5, <1>6 DEF Handle

LEMMA WorkKeeps ==
    ASSUME IInv, Work
    PROVE  IInv'
<1>0. /\ Idle \in WorkerAt /\ Idle.at = "idle" /\ worker \in WorkerAt
      /\ worker.at # "idle" => worker.job \in Exports /\ job[worker.job] \in Job
  BY DEF Idle, WorkerAt, IInv, TypeOK, WorkerOwns
<1>1. ASSUME NEW e \in Exports, BeginJob(e)  PROVE IInv'
  <2> DEFINE new == [job[e] EXCEPT !.status = "processing", !.attempts = @ + 1]
  <2>0. job[e] \in Job /\ job \in [Exports -> Job]
    BY DEF IInv, TypeOK
  <2>1. job' = [job EXCEPT ![e] = new] /\ new \in Job /\ new.status = "processing"
    <3>1. job' = [job EXCEPT ![e] = new]
      BY <1>1, <2>0 DEF BeginJob
    <3>2. new \in Job
      BY <1>1, <2>0, JobFields DEF BeginJob
    <3>3. new.status = "processing"
      BY <2>0 DEF Job
    <3> QED  BY <3>1, <3>2, <3>3
  <2>2. worker' \in WorkerAt /\ WorkerOwns'
    BY <1>1, <2>1 DEF BeginJob, WorkerAt, WorkerOwns, IInv, TypeOK
  <2>3. job[e].status = "pending" /\ UNCHANGED <<archives, request, served, swept>>
    BY <1>1 DEF BeginJob
  <2> QED  BY <2>1, <2>2, <2>3, JobKeeps DEF Settled
<1>2. ASSUME NEW e \in Exports, CleanUp(e)  PROVE IInv'
  <2>1. TypeOK'
    BY <1>2 DEF CleanUp, IInv, TypeOK, WorkerAt
  <2>2. ReadyHasArchive' /\ WorkerOwns'
    BY <1>2 DEF CleanUp, IInv, ReadyHasArchive, WorkerOwns
  <2>3. RequestsFollow'
    BY <1>2 DEF CleanUp, IInv, RequestsFollow
  <2> QED  BY <2>1, <2>2, <2>3 DEF IInv
<1>3. CASE StoreArchive
  <2>1. worker.job \in Exports
    BY <1>0, <1>3 DEF StoreArchive
  <2>2. TypeOK'
    BY <1>3, <2>1 DEF StoreArchive, IInv, TypeOK, WorkerAt
  <2>3. ReadyHasArchive' /\ WorkerOwns'
    BY <1>0, <1>3, <2>1 DEF StoreArchive, IInv, ReadyHasArchive, WorkerOwns, WorkerAt
  <2>4. RequestsFollow'
    BY <1>3 DEF StoreArchive, IInv, RequestsFollow
  <2> QED  BY <2>2, <2>3, <2>4 DEF IInv
<1>4. CASE JobFails
  <2> DEFINE e   == worker.job
             new == [job[e] EXCEPT !.status =
                        IF job[e].attempts >= MaxAttempts THEN "failed" ELSE "pending"]
  <2>1. e \in Exports /\ job[e].status = "processing"
    BY <1>0, <1>4 DEF JobFails, IInv, WorkerOwns
  <2>2. job' = [job EXCEPT ![e] = new] /\ new \in Job
        /\ new.status \in {"failed", "pending"}
    BY <1>4, <2>1 DEF JobFails, IInv, TypeOK, Job
  <2>3. archives \subseteq archives' /\ archives' \subseteq Exports /\ worker' = Idle
        /\ UNCHANGED <<request, served, swept>>
    BY <1>4, <2>1 DEF JobFails, IInv, TypeOK
  <2>4. TypeOK'
    BY <1>0, <2>1, <2>2, <2>3 DEF IInv, TypeOK
  <2>5. ReadyHasArchive' /\ WorkerOwns'
    BY <1>0, <2>1, <2>2, <2>3 DEF IInv, TypeOK, ReadyHasArchive, WorkerOwns
  <2>6. RequestsFollow'
    BY <2>1, <2>2, <2>3 DEF IInv, TypeOK, RequestsFollow, Settled
  <2> QED  BY <2>4, <2>5, <2>6 DEF IInv
<1>5. CASE FinishJob
  <2> DEFINE e   == worker.job
             new == [job[e] EXCEPT !.status = "ready", !.left = Lifetime]
  <2>1. /\ e \in Exports /\ job[e].status = "processing"
        /\ e \in archives \cup swept
    BY <1>0, <1>5 DEF FinishJob, IInv, WorkerOwns
  <2>2. job' = [job EXCEPT ![e] = new] /\ new \in Job /\ new.status = "ready"
    <3>1. job[e] \in Job /\ job \in [Exports -> Job]
      BY <2>1 DEF IInv, TypeOK
    <3>2. job' = [job EXCEPT ![e] = new]
      BY <1>5, <3>1 DEF FinishJob
    <3>3. new \in Job
      BY <3>1, JobFields
    <3>4. new.status = "ready"
      BY <3>1 DEF Job
    <3> QED  BY <3>2, <3>3, <3>4
  <2>3. worker' = Idle /\ UNCHANGED <<archives, request, served, swept>>
    BY <1>5 DEF FinishJob
  <2>4. WorkerOwns'
    BY <1>0, <2>3 DEF WorkerOwns
  <2> QED  BY <1>0, <2>1, <2>2, <2>3, <2>4, JobKeeps DEF Settled
<1>6. CASE CommitCleanUp
  <2> DEFINE e   == worker.job
             new == [job[e] EXCEPT !.status = "expired"]
  <2>1. e \in Exports
    BY <1>0, <1>6 DEF CommitCleanUp
  <2>2. job' = [job EXCEPT ![e] = new] /\ new \in Job /\ new.status = "expired"
    BY <1>6, <2>1 DEF CommitCleanUp, IInv, TypeOK, Job
  <2>3. worker' = Idle /\ UNCHANGED <<archives, request, served, swept>>
    BY <1>6 DEF CommitCleanUp
  <2>4. WorkerOwns'
    BY <1>0, <2>3 DEF WorkerOwns
  <2> QED  BY <1>0, <2>1, <2>2, <2>3, <2>4, JobKeeps DEF Settled
<1> QED  BY <1>1, <1>2, <1>3, <1>4, <1>5, <1>6 DEF Work

LEMMA OtherKeeps ==
    ASSUME IInv, SweepArchives \/ WorkerDies \/ Tick
    PROVE  IInv'
<1>1. CASE SweepArchives
  BY <1>1 DEF SweepArchives, IInv, TypeOK, ReadyHasArchive, WorkerOwns, RequestsFollow
<1>2. CASE WorkerDies
  BY <1>2 DEF WorkerDies, Idle, WorkerAt, IInv, TypeOK, ReadyHasArchive, WorkerOwns,
     RequestsFollow
<1>3. CASE Tick
  <2>1. \A e \in Exports : /\ job'[e] \in Job /\ job'[e].status = job[e].status
                           /\ job'[e].left > 0 => job[e].left > 0
    <3> SUFFICES ASSUME NEW e \in Exports
                 PROVE  /\ job'[e] \in Job /\ job'[e].status = job[e].status
                        /\ job'[e].left > 0 => job[e].left > 0
      OBVIOUS
    <3> DEFINE a == IF job[e].age > Cooldown THEN job[e].age ELSE job[e].age + 1
               n == IF job[e].left = 0 THEN 0 ELSE job[e].left - 1
    <3>1. job[e] \in Job /\ Cooldown \in Nat /\ Lifetime \in Nat
      BY ExportsAssumption DEF ExportsAssumption, IInv, TypeOK
    <3>2. job'[e] = [job[e] EXCEPT !.age = a, !.left = n]
      BY <1>3 DEF Tick
    <3>3. a \in 0..Cooldown + 1 /\ n \in 0..Lifetime /\ (n > 0 => job[e].left > 0)
      BY <3>1 DEF Job
    <3> HIDE DEF a, n
    <3> QED  BY <3>1, <3>2, <3>3 DEF Job
  <2>2. TypeOK'
    BY <1>3, <2>1 DEF Tick, IInv, TypeOK
  <2>3. UNCHANGED <<archives, worker, request, served, swept>>
    BY <1>3 DEF Tick
  <2>4. ReadyHasArchive'
    BY <2>1, <2>3 DEF IInv, ReadyHasArchive
  <2>5. WorkerOwns'
    <3>1. worker.at \in {"building", "stored"} => worker.job \in Exports
      BY DEF IInv, WorkerOwns
    <3> QED  BY <2>1, <2>3, <3>1 DEF IInv, WorkerOwns
  <2>6. RequestsFollow'
    <3>1. \A r \in Requests : request[r].at \in {"reading", "removing"}
                                 => request[r].job \in Exports
      BY DEF IInv, RequestsFollow
    <3> QED  BY <2>1, <2>3, <3>1 DEF IInv, RequestsFollow
  <2> QED  BY <2>2, <2>4, <2>5, <2>6 DEF IInv
<1> QED  BY <1>1, <1>2, <1>3

LEMMA NextKeeps == IInv /\ [Next]_vars => IInv'
<1>1. IInv /\ UNCHANGED vars => IInv'
  BY DEF vars, IInv, TypeOK, ReadyHasArchive, WorkerOwns, RequestsFollow
<1> QED  BY <1>1, HandleKeeps, WorkKeeps, OtherKeeps DEF Next

(* Whatever requests, the worker, the sweep and deaths do, in any order, a *)
(* link that still works (account_service.py:788-808) has its archive,     *)
(* except one that the sweep of local images took.                         *)
THEOREM LinksWork == Spec => [](TypeOK /\ ReadyHasArchive)
<1>1. Init => IInv
  BY InitIInv
<1>2. IInv => TypeOK /\ ReadyHasArchive
  BY DEF IInv
<1> QED  BY <1>1, <1>2, NextKeeps, PTL DEF Spec

-----------------------------------------------------------------------------
(* A request that may still insert its job found no young one.             *)
AskedAlone ==
    \A r \in Requests : request[r].at = "asking" => \A e \in Exports : job[e].age > Cooldown

(* An archive was handed out of a job that is settled for good, and not    *)
(* yet by the request that is about to.                                    *)
ServedIsSettled ==
    /\ \A e \in Exports : served[e] > 0 => job[e].status \in Settled
    /\ \A r \in Requests : request[r].at \in {"reading", "removing"}
                               => served[request[r].job] = 0

(* What holds while no two requests overlap.                               *)
Alone == ~Racing /\ ServedOnce /\ OncePerCooldown /\ AskedAlone /\ ServedIsSettled

(* A step that takes no job out of its settled state, makes none younger   *)
(* and serves none.                                                        *)
LEMMA AloneKeeps ==
    ASSUME IInv, Alone, ~Racing',
           \A e \in Exports : /\ job[e].status \in Settled => job'[e].status \in Settled
                              /\ job'[e].age <= Cooldown => job[e].age <= Cooldown
                              /\ job'[e].age \in Nat /\ job[e].age \in Nat,
           served' = served,
           \A r \in Requests :
              /\ request'[r].at = "asking" =>
                     request[r].at = "asking" \/ \A e \in Exports : job[e].age > Cooldown
              /\ request'[r].at \in {"reading", "removing"} =>
                     /\ request'[r].job \in Exports
                     /\ served[request'[r].job] = 0
    PROVE  Alone'
<1>1. ServedOnce' /\ ServedIsSettled'
  BY DEF Alone, ServedOnce, ServedIsSettled
<1>2. OncePerCooldown'
  BY DEF Alone, OncePerCooldown
<1>3. AskedAlone'
  <2> SUFFICES ASSUME NEW r \in Requests, request'[r].at = "asking", NEW e \in Exports
               PROVE  job'[e].age > Cooldown
    BY DEF AskedAlone
  <2>1. job[e].age > Cooldown
    BY DEF Alone, AskedAlone
  <2> QED  BY <2>1, ExportsAssumption
<1> QED  BY <1>1, <1>2, <1>3 DEF Alone

LEMMA HandleAlone ==
    ASSUME IInv, Alone, ~Racing', NEW r \in Requests, Handle(r) \/ RequestDies(r)
    PROVE  Alone'
<1>0. /\ Idle.at = "idle" /\ request \in [Requests -> RequestAt]
      /\ \A e \in Exports : job[e] \in Job /\ job[e].age \in Nat
      /\ served \in [Exports -> 0..2]
  BY ExportsAssumption DEF Idle, IInv, TypeOK, Job
<1>1. ASSUME NEW x, request' = [request EXCEPT ![r] = x], served' = served,
             \A e \in Exports : /\ job[e].status \in Settled => job'[e].status \in Settled
                                /\ job'[e].age = job[e].age,
             x.at = "asking" => \A e \in Exports : job[e].age > Cooldown,
             x.at \in {"reading", "removing"} => x.job \in Exports /\ served[x.job] = 0
      PROVE  Alone'
  <2>1. \A q \in Requests : request'[q] = request[q] \/ request'[q] = x
    BY <1>0, <1>1
  <2>2. \A q \in Requests : request[q].at \in {"reading", "removing"} =>
            request[q].job \in Exports /\ served[request[q].job] = 0
    BY DEF IInv, RequestsFollow, Alone, ServedIsSettled
  <2> QED  BY <1>0, <1>1, <2>1, <2>2, AloneKeeps
<1>2. CASE AskExport(r)
  <2> DEFINE x == [at |-> "asking", job |-> None]
  <2>1. /\ request' = [request EXCEPT ![r] = x] /\ x.at = "asking"
        /\ UNCHANGED <<job, served>>
        /\ \A e \in Exports : job[e].age > Cooldown
    BY <1>2 DEF AskExport, Go
  <2> HIDE DEF x
  <2> QED  BY <1>1, <2>1
<1>3. ASSUME NEW e \in Exports, InsertExport(r, e) PROVE Alone'
  <2>1. /\ request[r].at = "asking" /\ job[e].status = "none"
        /\ request' = [request EXCEPT ![r] = Idle] /\ served' = served
        /\ job' = [job EXCEPT ![e].status = "pending", ![e].age = 0]
    BY <1>3 DEF InsertExport
  <2>2. \A f \in Exports \ {e} : job'[f] = job[f]
    BY <2>1 DEF IInv, TypeOK
  <2>3. \A f \in Exports : job[f].age > Cooldown
    BY <2>1 DEF Alone, AskedAlone
  <2>4. \A q \in Requests \ {r} : request[q] = Idle
    BY <1>0, <2>1 DEF Alone, Racing
  <2>5. \A q \in Requests : request'[q].at = "idle"
    BY <1>0, <2>1, <2>4
  <2>6. OncePerCooldown'
    <3>1. \A f \in Exports \ {e} : ~(job'[f].age <= Cooldown)
      BY <1>0, <2>2, <2>3, ExportsAssumption
    <3> QED  BY <3>1 DEF OncePerCooldown
  <2>7. AskedAlone'
    BY <2>5 DEF AskedAlone
  <2>8. ServedIsSettled' /\ ServedOnce'
    BY <2>1, <2>2, <2>5 DEF Alone, ServedOnce, ServedIsSettled, Settled
  <2> QED  BY <2>6, <2>7, <2>8 DEF Alone
<1>4. ASSUME NEW e \in Exports, OpenLink(r, e) PROVE Alone'
  <2> DEFINE x == [at |-> "reading", job |-> e]
  <2>1. /\ request' = [request EXCEPT ![r] = x] /\ x.at = "reading" /\ x.job = e
        /\ UNCHANGED <<job, served>> /\ job[e].status = "ready"
    BY <1>4 DEF OpenLink, Go
  <2>2. served[e] = 0
    BY <1>0, <2>1 DEF Alone, ServedIsSettled, Settled
  <2> HIDE DEF x
  <2> QED  BY <1>1, <2>1, <2>2
<1>5. CASE CommitDownload(r)
  <2> DEFINE x == [at |-> "removing", job |-> request[r].job]
  <2>1. /\ request[r].at = "reading"
        /\ request' = [request EXCEPT ![r] = x] /\ x.at = "removing"
        /\ x.job = request[r].job /\ served' = served
        /\ job' = [job EXCEPT ![x.job].status = "downloaded"]
    BY <1>5 DEF CommitDownload, Go
  <2>2. x.job \in Exports /\ served[x.job] = 0
    BY <2>1 DEF IInv, RequestsFollow, Alone, ServedIsSettled
  <2> HIDE DEF x
  <2>3. \A e \in Exports : /\ job[e].status \in Settled => job'[e].status \in Settled
                           /\ job'[e].age = job[e].age
    BY <1>0, <2>1, <2>2 DEF IInv, TypeOK, Job, Settled
  <2> QED  BY <1>1, <2>1, <2>2, <2>3
<1>6. CASE RemoveArchive(r)
  <2> DEFINE e == request[r].job
  <2>1. /\ e \in Exports /\ job[e].status \in Settled /\ served[e] = 0
        /\ request' = [request EXCEPT ![r] = Idle] /\ job' = job
        /\ request[r] # Idle
    BY <1>0, <1>6 DEF RemoveArchive, IInv, RequestsFollow, Alone, ServedIsSettled
  <2>2. served' = [served EXCEPT ![e] = 1]
    BY <1>6, <2>1 DEF RemoveArchive
  <2> HIDE DEF e
  <2>3. \A q \in Requests \ {r} : request[q] = Idle
    BY <2>1 DEF Alone, Racing
  <2>4. \A q \in Requests : request'[q].at = "idle"
    BY <1>0, <2>1, <2>3
  <2>5. ServedOnce' /\ ServedIsSettled'
    BY <1>0, <2>1, <2>2, <2>4 DEF Alone, ServedOnce, ServedIsSettled
  <2>6. OncePerCooldown' /\ AskedAlone'
    BY <2>1, <2>4 DEF Alone, OncePerCooldown, AskedAlone
  <2> QED  BY <2>5, <2>6 DEF Alone
<1>7. CASE RequestDies(r)
  BY <1>0, <1>1, <1>7 DEF RequestDies
<1> QED  BY <1>2, <1>3, <1>4, <1>5, <1>6, <1>7 DEF Handle

(* The worker, the sweep and the clock leave the requests alone.           *)
LEMMA OtherAlone ==
    ASSUME IInv, Alone, ~Racing', Work \/ SweepArchives \/ WorkerDies \/ Tick
    PROVE  Alone'
<1>1. /\ \A e \in Exports : job[e] \in Job /\ job[e].age \in Nat
      /\ job \in [Exports -> Job]
      /\ worker.at # "idle" => worker.job \in Exports
      /\ worker.at \in {"building", "stored"} => job[worker.job].status = "processing"
  BY ExportsAssumption DEF IInv, TypeOK, WorkerOwns, Job
<1>2. UNCHANGED <<request, served>>
  BY DEF Work, BeginJob, CleanUp, StoreArchive, JobFails, FinishJob, CommitCleanUp,
         SweepArchives, WorkerDies, Tick
<1>3. \A r \in Requests : request[r].at \in {"reading", "removing"} =>
          request[r].job \in Exports /\ served[request[r].job] = 0
  BY DEF IInv, RequestsFollow, Alone, ServedIsSettled
<1>4. ASSUME \A e \in Exports :
                /\ job[e].status \in Settled => job'[e].status \in Settled
                /\ job'[e].age \in Nat /\ job'[e].age >= job[e].age
      PROVE  Alone'
  <2>1. \A e \in Exports : job'[e].age <= Cooldown => job[e].age <= Cooldown
    BY <1>1, <1>4, ExportsAssumption
  <2> QED  BY <1>1, <1>2, <1>3, <1>4, <2>1, AloneKeeps
<1>5. ASSUME NEW e \in Exports, BeginJob(e) PROVE Alone'
  <2>1. \A f \in Exports :
           /\ job[f].status \in Settled => job'[f].status \in Settled
           /\ job'[f].age = job[f].age
    BY <1>1, <1>5 DEF BeginJob, Job, Settled
  <2> QED  BY <1>1, <1>4, <2>1
<1>6. CASE JobFails
  <2>1. \A f \in Exports :
           /\ job[f].status \in Settled => job'[f].status \in Settled
           /\ job'[f].age = job[f].age
    BY <1>1, <1>6 DEF JobFails, Job, Settled
  <2> QED  BY <1>1, <1>4, <2>1
<1>7. CASE FinishJob
  <2>1. \A f \in Exports :
           /\ job[f].status \in Settled => job'[f].status \in Settled
           /\ job'[f].age = job[f].age
    BY <1>1, <1>7 DEF FinishJob, Job, Settled
  <2> QED  BY <1>1, <1>4, <2>1
<1>8. CASE CommitCleanUp
  <2>1. \A f \in Exports :
           /\ job[f].status \in Settled => job'[f].status \in Settled
           /\ job'[f].age = job[f].age
    BY <1>1, <1>8 DEF CommitCleanUp, Job, Settled
  <2> QED  BY <1>1, <1>4, <2>1
<1>9. CASE Tick
  <2>1. ASSUME NEW e \in Exports
        PROVE  /\ job'[e].status = job[e].status
               /\ job'[e].age \in Nat /\ job'[e].age >= job[e].age
    <3> DEFINE a == IF job[e].age > Cooldown THEN job[e].age ELSE job[e].age + 1
               n == IF job[e].left = 0 THEN 0 ELSE job[e].left - 1
    <3>1. job'[e] = [job[e] EXCEPT !.age = a, !.left = n]
      BY <1>9 DEF Tick
    <3>2. a \in Nat /\ a >= job[e].age
      BY <1>1
    <3> HIDE DEF a, n
    <3> QED  BY <1>1, <3>1, <3>2 DEF Job
  <2> QED  BY <1>4, <2>1
<1>10. CASE job' = job
  BY <1>1, <1>4, <1>10
<1> QED  BY <1>5, <1>6, <1>7, <1>8, <1>9, <1>10
         DEF Work, CleanUp, StoreArchive, SweepArchives, WorkerDies

(* account_service.py:202-231, 788-822: a job for a cooldown and a         *)
(* download for a job, whatever dies and however long the worker takes, as *)
(* long as no two requests of the account overlap.                         *)
THEOREM OneAtATime == MCSpec => []OneJobOneDownloadUnlessRaced
<1> DEFINE RInv == IInv /\ (raced \/ Alone)
<1>1. MCInit => RInv
  <2> SUFFICES ASSUME MCInit PROVE RInv
    OBVIOUS
  <2>1. IInv /\ \A r \in Requests : request[r] = Idle
    BY InitIInv DEF MCInit, Init
  <2>2. ~Racing /\ AskedAlone
    BY <2>1 DEF Racing, AskedAlone, Idle
  <2>3. \A e \in Exports : served[e] = 0 /\ job[e].age = Cooldown + 1
    BY DEF MCInit, Init
  <2>4. ServedOnce /\ OncePerCooldown /\ ServedIsSettled
    BY <2>1, <2>3, ExportsAssumption DEF ServedOnce, OncePerCooldown, ServedIsSettled, Idle
  <2> QED  BY <2>1, <2>2, <2>4 DEF Alone
<1>2. RInv /\ [MCNext]_<<vars, raced, died>> => RInv'
  <2>1. CASE UNCHANGED <<vars, raced, died>>
    BY <2>1, NextKeeps DEF vars, Alone, Racing, ServedOnce, OncePerCooldown, AskedAlone,
                           ServedIsSettled
  <2>2. ASSUME RInv, MCNext, ~raced' PROVE Alone'
    <3>1. Alone /\ ~Racing' /\ IInv /\ Next
      BY <2>2 DEF MCNext
    <3> QED  BY <3>1, HandleAlone, OtherAlone DEF Next
  <2>3. RInv /\ MCNext => IInv'
    BY NextKeeps DEF MCNext
  <2> QED  BY <2>1, <2>2, <2>3
<1>3. RInv => OneJobOneDownloadUnlessRaced
  BY DEF Alone, OneJobOneDownloadUnlessRaced
<1> QED  BY <1>1, <1>2, <1>3, PTL DEF MCSpec
=============================================================================
