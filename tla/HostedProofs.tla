---------------------------- MODULE HostedProofs ----------------------------
(****************************************************************************)
(* Proofs about the hosted processing.  Of ManagedJobs, for every number of *)
(* requests, keys, workers and attempts: what a worker may rely on, that    *)
(* finished notes stay, and that racing requests leave no unit behind.  Of  *)
(* the announcement of finished notes (Integrations) as HostedWork runs it, *)
(* with any runs, maintenance passes and page loads at work together: a     *)
(* destination is told once.                                                *)
(****************************************************************************)
EXTENDS ManagedJobs, HostedWork, FiniteSetTheorems, TLAPS

----------------------------------------------------------------------------
(* The job of an upload *)

\* A queued job has its attempts before it; claims count up to the limit.
FreshBudget == job.status = "queued" => job.attempts = 0

TypeInv == TypeOK /\ FreshBudget

\* What the assumptions say of the constants and of the records at rest.
LEMMA Constants ==
  /\ AnyKey \in Keys
  /\ MaxAttempts \in Nat /\ MaxAttempts >= 2
  /\ NoJob \in AJob /\ IdleWorker \in AWorker /\ IdleSweep \in ASweep /\ Over \in ARequest
  /\ \A k \in Keys : Queued(k) \in AJob
<1>1. AnyKey \in Keys
  BY KeysAssumption DEF AnyKey
<1>2. MaxAttempts \in Nat /\ MaxAttempts >= 2
  BY MaxAttemptsAssumption
<1>3. NoJob \in AJob
  BY <1>1, <1>2 DEF NoJob, AJob, JobStatus
<1>4. \A k \in Keys : Queued(k) \in AJob
  BY <1>3 DEF Queued, AJob, JobStatus
<1>5. IdleWorker \in AWorker
  BY <1>1 DEF IdleWorker, AWorker
<1>6. IdleSweep \in ASweep
  BY <1>1 DEF IdleSweep, ASweep, JobStatus
<1>7. Over \in ARequest
  BY <1>1 DEF Over, ARequest
<1>. QED
  BY <1>1, <1>2, <1>3, <1>4, <1>5, <1>6, <1>7

\* The records of requests, workers and the cleaner keep their types.
LEMMA RequestTypes ==
  ASSUME req \in [Requests -> ARequest], NEW r \in Requests,
         NEW pc \in {"new", "find", "reserve", "write", "giveback", "done"}, Step(r, pc)
  PROVE  req' \in [Requests -> ARequest]
<1>1. [req[r] EXCEPT !.pc = pc] \in ARequest
  BY DEF ARequest
<1>. QED
  BY <1>1, Constants DEF Step

\* A worker that moves on keeps its type.
LEMMA WorkerTypes ==
  ASSUME wrk \in [Workers -> AWorker], NEW w \in Workers,
         NEW pc \in {"idle", "call", "finalize", "purge", "rows", "fail", "exhaust", "release"}, Goto(w, pc)
  PROVE  wrk' \in [Workers -> AWorker]
<1>1. [wrk[w] EXCEPT !.pc = pc] \in AWorker
  BY DEF AWorker
<1>. QED
  BY <1>1, Constants DEF Goto

\* A cleaner that moves on keeps its type.
LEMMA SweepTypes ==
  ASSUME sweep \in ASweep,
         NEW pc \in {"idle", "fail", "release", "objects", "rows", "mark", "drop"}, SweepTo(pc)
  PROVE  sweep' \in ASweep
<1>1. [sweep EXCEPT !.pc = pc] \in ASweep
  BY DEF ASweep
<1>. QED
  BY <1>1, Constants DEF SweepTo

\* Every step keeps the types, and a queued job has all of its attempts.
LEMMA TypeStep ==
  ASSUME TypeInv, [Next]_vars
  PROVE  TypeInv'
<1> USE Constants DEF TypeInv, TypeOK, FreshBudget, staged
<1>1. ASSUME NEW r \in Requests, RequestStep(r)
      PROVE  TypeInv'
  <2>1. CASE CheckUpload(r)
    BY <2>1, RequestTypes DEF CheckUpload
  <2>2. CASE FindJob(r)
    <3>0. [pc |-> "reserve", key |-> job.key, retry |-> TRUE] \in ARequest
      BY DEF ARequest, AJob
    <3>1. req' \in [Requests -> ARequest]
      BY <2>2, <3>0, RequestTypes DEF FindJob
    <3>. QED
      BY <2>2, <3>1 DEF FindJob
  <2>3. CASE Reserve(r)
    <3>1. req' \in [Requests -> ARequest]
      BY <2>3, RequestTypes DEF Reserve
    <3>2. req[r].key \in Keys
      BY DEF ARequest
    <3>. QED
      BY <2>3, <3>1, <3>2 DEF Reserve
  <2>4. CASE WriteJob(r)
    <3>1. req' \in [Requests -> ARequest]
      BY <2>4, RequestTypes DEF WriteJob, Requeue, Create
    <3>2. job' = job \/ job' = Queued(req[r].key)
      BY <2>4 DEF WriteJob, Requeue, Create
    <3>3. req[r].key \in Keys /\ Queued(req[r].key).attempts = 0
      BY DEF ARequest, Queued, NoJob
    <3>. QED
      BY <2>4, <3>1, <3>2, <3>3 DEF WriteJob
  <2>5. CASE GiveBack(r)
    <3>1. req' \in [Requests -> ARequest]
      BY <2>5, RequestTypes DEF GiveBack
    <3>2. req[r].key \in Keys
      BY DEF ARequest
    <3>. QED
      BY <2>5, <3>1, <3>2 DEF GiveBack
  <2>. QED
    BY <1>1, <2>1, <2>2, <2>3, <2>4, <2>5 DEF RequestStep
<1>2. ASSUME NEW w \in Workers, WorkerStep(w) \/ Heartbeat(w) \/ Crash(w)
      PROVE  TypeInv'
  <2>0. wrk[w].key \in Keys /\ wrk[w].result \in {"none", "notes", "silent"} /\ job.key \in Keys
    BY DEF AWorker, AJob
  <2>1. CASE Claim(w)
    <3>1. job.attempts + 1 \in 0..MaxAttempts
      BY <2>1 DEF Claim, Claimable, AJob
    <3>2. job' \in AJob /\ job'.status = "processing"
      BY <2>1, <3>1 DEF Claim, Claimed, AJob, JobStatus
    <3>3. wrk' \in [Workers -> AWorker]
      BY <2>0, <2>1 DEF Claim, AWorker
    <3>. QED
      BY <2>1, <3>2, <3>3 DEF Claim
  <2>2. CASE Heartbeat(w)
    BY <2>2 DEF Heartbeat, AJob
  <2>3. CASE CallProviders(w)
    <3>1. wrk' \in [Workers -> AWorker]
      BY <2>3, WorkerTypes DEF CallProviders, AWorker
    <3>. QED
      BY <2>3, <3>1 DEF CallProviders
  <2>4. CASE Finalize(w)
    <3>1. wrk' \in [Workers -> AWorker]
      BY <2>4, WorkerTypes DEF Finalize
    <3>. QED
      BY <2>0, <2>4, <3>1 DEF Finalize, AJob, JobStatus
  <2>5. CASE PurgeObjects(w)
    BY <2>5, WorkerTypes DEF PurgeObjects, AfterPurge
  <2>6. CASE PurgeRows(w)
    BY <2>6, WorkerTypes DEF PurgeRows, AfterPurge
  <2>7. CASE Fail(w)
    <3>1. wrk' \in [Workers -> AWorker]
      BY <2>7, WorkerTypes DEF Fail
    <3>. QED
      BY <2>7, <3>1 DEF Fail, AJob, JobStatus
  <2>8. CASE Release(w)
    BY <2>0, <2>8, WorkerTypes DEF Release
  <2>9. CASE FindExhausted(w)
    <3>1. wrk' \in [Workers -> AWorker]
      BY <2>0, <2>9 DEF FindExhausted, AWorker
    <3>. QED
      BY <2>9, <3>1 DEF FindExhausted
  <2>10. CASE FailExhausted(w)
    <3>1. wrk' \in [Workers -> AWorker]
      BY <2>10, WorkerTypes DEF FailExhausted
    <3>. QED
      BY <2>10, <3>1 DEF FailExhausted, AJob, JobStatus
  <2>11. CASE Crash(w)
    BY <2>11, WorkerTypes DEF Crash
  <2>. QED
    BY <1>2, <2>1, <2>2, <2>3, <2>4, <2>5, <2>6, <2>7, <2>8, <2>9, <2>10, <2>11 DEF WorkerStep
<1>3. CASE SweepStep
  <2>1. CASE FindUpload
    <3>1. sweep' \in ASweep
      BY <2>1 DEF FindUpload, ASweep, AJob
    <3>. QED
      BY <2>1, <3>1 DEF FindUpload
  <2>2. CASE SweepFail
    <3>1. sweep' \in ASweep
      BY <2>2, SweepTypes DEF SweepFail
    <3>. QED
      BY <2>2, <3>1 DEF SweepFail, AJob, JobStatus
  <2>3. CASE SweepRelease
    <3>1. sweep' \in ASweep /\ sweep.key \in Keys
      BY <2>3, SweepTypes DEF SweepRelease, ASweep
    <3>. QED
      BY <2>3, <3>1 DEF SweepRelease
  <2>4. CASE SweepObjects \/ SweepRows \/ SweepMark
    BY <2>4, SweepTypes DEF SweepObjects, SweepRows, SweepMark
  <2>5. CASE SweepDrop
    <3>1. sweep' \in ASweep /\ NoJob.status = "none"
      BY <2>5, SweepTypes DEF SweepDrop, NoJob
    <3>. QED
      BY <2>5, <3>1 DEF SweepDrop
  <2>. QED
    BY <1>3, <2>1, <2>2, <2>3, <2>4, <2>5 DEF SweepStep
<1>4. CASE LeaseLapses
  <2>0. \A w \in Workers, b \in BOOLEAN : [wrk[w] EXCEPT !.lapsed = b] \in AWorker
    BY DEF AWorker
  <2>1. wrk' \in [Workers -> AWorker]
    <3>1. PICK b \in BOOLEAN : wrk' = [wrk EXCEPT ![job.token] = [wrk[job.token] EXCEPT !.lapsed = b]]
      BY <1>4 DEF LeaseLapses
    <3>. QED
      BY <2>0, <3>1
  <2>2. job' \in AJob /\ job'.status = "processing"
    BY <1>4 DEF LeaseLapses, AJob
  <2>. QED
    BY <1>4, <2>1, <2>2 DEF LeaseLapses
<1>5. CASE DeadlinePasses \/ UNCHANGED vars
  BY <1>5 DEF DeadlinePasses, vars
<1>. QED
  BY <1>1, <1>2, <1>3, <1>4, <1>5 DEF Next

-----------------------------------------------------------------------------
(****************************************************************************)
(* The inductive invariant behind the properties.                           *)
(****************************************************************************)

\* The cleaner: a deleted upload has no job and is never touched again, and an
\* unfinished job is failed or dropped only after the deadline.
Swept ==
  /\ upload = "deleted" => job.status = "none"
  /\ sweep.pc # "idle" => upload # "deleted"
  /\ sweep.pc = "fail" => late
  /\ sweep.pc # "idle" /\ sweep.status = "none" => late
  /\ sweep.pc = "drop" => sweep.status = "none"

\* The lease: a worker that is at work and did not let its lease lapse holds it;
\* while failExhaustedJobs is between its two statements, a lapsed job is out of
\* attempts and a job out of attempts has no such worker.
Busy == {"call", "finalize", "fail"}
Stood(w) == wrk[w].pc \in Busy /\ ~wrk[w].lapsed
Exhausted == job.attempts >= MaxAttempts

LeaseHeld ==
  /\ \A w \in Workers : Stood(w) /\ ~late => Owns(w)
  /\ job.status = "processing" /\ job.stale => \A w \in Workers : Owns(w) => ~Stood(w)
  /\ \A v \in Workers : wrk[v].pc = "exhaust" /\ job.status = "processing" =>
       /\ job.stale => Exhausted
       /\ Exhausted => \A w \in Workers : Owns(w) => ~Stood(w)

\* Notes come with a complete job, which only the deletion of the upload ends.
NotesFinal == notes # "none" => job.status = "complete" \/ upload = "deleted"

\* A unit under another key than the job's belongs to a request on its way; a
\* request that retries carries the job's own key.
UnitsOwed ==
  upload # "deleted" =>
    /\ \A r \in Requests : req[r].retry => job.status # "none" /\ req[r].key = job.key
    /\ \A k \in Keys : ledger[k] # 0 /\ (job.status = "none" \/ job.key # k) =>
         \E r \in Requests : req[r].key = k /\ req[r].pc \in {"write", "giveback"}

Inv == TypeInv /\ Swept /\ LeaseHeld /\ NotesFinal /\ UnitsOwed

\* What the steps of a request, a worker and the cleaner change of themselves.
LEMMA RequestMoves ==
  ASSUME TypeOK, NEW r \in Requests, NEW pc, Step(r, pc)
  PROVE  /\ req'[r].pc = pc
         /\ IF pc = "done" THEN ~req'[r].retry ELSE UNCHANGED <<req[r].key, req[r].retry>>
         /\ \A q \in Requests \ {r} : req'[q] = req[q]
BY DEF TypeOK, Step, Over, ARequest

\* A step of a worker leaves the other workers alone.
LEMMA WorkerMoves ==
  ASSUME TypeOK, NEW w \in Workers, NEW pc, Goto(w, pc)
  PROVE  /\ wrk'[w].pc = pc /\ (pc # "idle" => UNCHANGED wrk[w].lapsed)
         /\ \A v \in Workers \ {w} : wrk'[v] = wrk[v]
BY DEF TypeOK, Goto, IdleWorker, AWorker

\* A step of the cleaner keeps what it remembers of the job.
LEMMA SweepMoves ==
  ASSUME TypeOK, NEW pc, SweepTo(pc)
  PROVE  sweep'.pc = pc /\ (pc # "idle" => UNCHANGED <<sweep.status, sweep.key>>)
BY DEF TypeOK, SweepTo, IdleSweep, ASweep

\* The steps that a worker takes without touching the job, the notes or a unit.
QuietWork(w) == CallProviders(w) \/ PurgeObjects(w) \/ PurgeRows(w) \/ FindExhausted(w) \/ Crash(w)

\* The job rows that creation, requeueing and claiming write.
LEMMA JobStatusSteps ==
  /\ NoJob.status = "none"
  /\ \A k : Queued(k).status = "queued" /\ Queued(k).key = k /\ Queued(k).attempts = 0 /\ ~Queued(k).stale
  /\ TypeOK => \A w : /\ Claimed(w).status = "processing" /\ Claimed(w).token = w /\ ~Claimed(w).stale
                      /\ Claimed(w).key = job.key /\ Claimed(w).attempts = job.attempts + 1
BY DEF NoJob, Queued, Claimed, TypeOK, AJob

\* What the cleaner found is still so when it acts on it.
LEMMA SweptStep ==
  ASSUME TypeOK, Swept, [Next]_vars
  PROVE  Swept'
<1> USE JobStatusSteps DEF Swept, staged
<1>1. ASSUME NEW r \in Requests, RequestStep(r)
      PROVE  Swept'
  <2>1. CASE CheckUpload(r) \/ FindJob(r) \/ Reserve(r) \/ GiveBack(r)
    BY <2>1 DEF CheckUpload, FindJob, Reserve, GiveBack
  <2>2. CASE WriteJob(r)
    BY <2>2 DEF WriteJob, Requeue, Create
  <2>. QED
    BY <1>1, <2>1, <2>2 DEF RequestStep
<1>2. ASSUME NEW w \in Workers, WorkerStep(w) \/ Heartbeat(w) \/ Crash(w)
      PROVE  Swept'
  <2>1. CASE QuietWork(w) \/ Release(w)
    BY <2>1 DEF QuietWork, CallProviders, PurgeObjects, PurgeRows, FindExhausted, Crash, Release
  <2>2. CASE Claim(w) \/ Heartbeat(w) \/ Finalize(w) \/ Fail(w) \/ FailExhausted(w)
    <3>1. upload' = upload /\ late' = late /\ sweep' = sweep /\ (job.status = "none" => job' = job)
      BY <2>2 DEF Claim, Claimable, Heartbeat, Finalize, Fail, FailExhausted, MayFinalize, MayFail, Owns
    <3>. QED
      BY <3>1
  <2>. QED
    BY <1>2, <2>1, <2>2 DEF WorkerStep, QuietWork
<1>3. CASE SweepStep
  <2>1. CASE FindUpload
    BY <2>1 DEF FindUpload
  <2>2. CASE SweepFail
    BY <2>2, SweepMoves DEF SweepFail, Sweeping
  <2>3. CASE SweepRelease \/ SweepObjects \/ SweepRows \/ SweepMark
    BY <2>3, SweepMoves DEF SweepRelease, SweepObjects, SweepRows, SweepMark, Sweeping
  <2>4. CASE SweepDrop
    BY <2>4, SweepMoves DEF SweepDrop
  <2>. QED
    BY <1>3, <2>1, <2>2, <2>3, <2>4 DEF SweepStep
<1>4. CASE LeaseLapses
  BY <1>4 DEF LeaseLapses
<1>5. CASE DeadlinePasses \/ UNCHANGED vars
  BY <1>5 DEF DeadlinePasses, vars
<1>. QED
  BY <1>1, <1>2, <1>3, <1>4, <1>5 DEF Next

\* The notes are written once, by the transaction that completes the job.
LEMMA NotesStep ==
  ASSUME TypeOK, Swept, NotesFinal, [Next]_vars
  PROVE  NotesFinal' /\ (notes # "none" => notes' = notes)
<1> USE JobStatusSteps DEF Swept, NotesFinal, staged
<1>1. ASSUME NEW r \in Requests, RequestStep(r)
      PROVE  NotesFinal' /\ notes' = notes
  <2>1. CASE CheckUpload(r) \/ FindJob(r) \/ Reserve(r) \/ GiveBack(r)
    BY <2>1 DEF CheckUpload, FindJob, Reserve, GiveBack
  <2>2. CASE WriteJob(r)
    BY <2>2 DEF WriteJob, Requeue, Create
  <2>. QED
    BY <1>1, <2>1, <2>2 DEF RequestStep
<1>2. ASSUME NEW w \in Workers, WorkerStep(w) \/ Heartbeat(w) \/ Crash(w)
      PROVE  NotesFinal' /\ (notes # "none" => notes' = notes)
  <2>1. CASE QuietWork(w) \/ Release(w)
    BY <2>1 DEF QuietWork, CallProviders, PurgeObjects, PurgeRows, FindExhausted, Crash, Release
  <2>2. CASE Claim(w) \/ Heartbeat(w) \/ Fail(w) \/ FailExhausted(w)
    BY <2>2 DEF Claim, Claimable, Heartbeat, Fail, FailExhausted, MayFail, Owns
  <2>3. CASE Finalize(w)
    <3>1. CASE MayFinalize(w)
      BY <2>3, <3>1 DEF Finalize, MayFinalize, Owns, TypeOK, AJob
    <3>2. CASE ~MayFinalize(w)
      BY <2>3, <3>2 DEF Finalize
    <3>. QED
      BY <3>1, <3>2
  <2>. QED
    BY <1>2, <2>1, <2>2, <2>3 DEF WorkerStep, QuietWork
<1>3. CASE SweepStep
  BY <1>3 DEF SweepStep, FindUpload, SweepFail, SweepRelease, SweepObjects, SweepRows, SweepMark, SweepDrop, Sweeping
<1>4. CASE LeaseLapses \/ DeadlinePasses \/ UNCHANGED vars
  BY <1>4 DEF LeaseLapses, DeadlinePasses, vars
<1>. QED
  BY <1>1, <1>2, <1>3, <1>4 DEF Next

\* A unit that is not the job's always has a request that will give it back.
LEMMA UnitsStep ==
  ASSUME TypeOK, Swept, UnitsOwed, [Next]_vars
  PROVE  UnitsOwed'
<1> USE JobStatusSteps DEF staged
\* Steps of others: requests stay, no unit is taken, the job keeps its key.
<1>0. ASSUME upload' # "deleted" => upload # "deleted", req' = req, \A k \in Keys : ledger'[k] # 0 => ledger[k] # 0,
             upload' # "deleted" => (job'.key = job.key /\ (job'.status = "none" <=> job.status = "none"))
      PROVE  UnitsOwed'
  BY <1>0 DEF UnitsOwed
<1>1. ASSUME NEW r \in Requests, RequestStep(r)
      PROVE  UnitsOwed'
  <2>1. CASE CheckUpload(r)
    <3>1. req[r].pc = "new" /\ \E pc \in {"find", "done"} : Step(r, pc)
      BY <2>1 DEF CheckUpload, At
    <3>2. upload' = "deleted" <=> upload = "deleted"
      BY <2>1 DEF CheckUpload
    <3>3. UNCHANGED <<job, ledger>>
      BY <2>1 DEF CheckUpload
    <3>. QED
      BY <3>1, <3>2, <3>3, RequestMoves DEF UnitsOwed
  <2>2. CASE FindJob(r)
    <3>1. req[r].pc = "find" /\ UNCHANGED <<upload, job, ledger>>
          /\ \A q \in Requests \ {r} : req'[q] = req[q]
      BY <2>2, RequestMoves DEF FindJob, At, TypeOK
    <3>2. ASSUME upload # "deleted", req'[r].retry
          PROVE  job.status # "none" /\ req'[r].key = job.key
      <4>1. CASE req' = [req EXCEPT ![r] = [pc |-> "reserve", key |-> job.key, retry |-> TRUE]] /\ job.status = "error"
        BY <4>1 DEF TypeOK
      <4>2. CASE Step(r, "reserve")
        BY <3>2, <4>2, RequestMoves DEF UnitsOwed
      <4>3. CASE Step(r, "done")
        BY <3>2, <4>3, RequestMoves
      <4>. QED
        BY <2>2, <4>1, <4>2, <4>3 DEF FindJob
    <3>3. \A q \in Requests : req[q].pc \in {"write", "giveback"} => q # r
      BY <3>1
    <3>. QED
      BY <3>1, <3>2, <3>3 DEF UnitsOwed
  <2>3. CASE Reserve(r)
    <3>1. PICK pc \in {"write", "done"} : Step(r, pc) /\ (pc = "done" => ledger' = ledger)
      BY <2>3 DEF Reserve
    <3>2. req[r].pc = "reserve" /\ UNCHANGED <<upload, job>>
          /\ \A k \in Keys : k # req[r].key => ledger'[k] = ledger[k]
      BY <2>3 DEF Reserve, At, TypeOK
    <3>. QED
      BY <3>1, <3>2, RequestMoves DEF UnitsOwed
  <2>4. CASE WriteJob(r)
    <3>0. req[r].pc = "write" /\ UNCHANGED <<upload, ledger>>
      BY <2>4 DEF WriteJob, At
    <3>1. CASE Requeue(r)
      <4>1. Step(r, "done") /\ req[r].retry /\ (job' = job \/ (job.status = "error" /\ job' = Queued(req[r].key)))
        BY <3>1 DEF Requeue
      <4>2. upload # "deleted" => req[r].key = job.key /\ job.status # "none"
        BY <4>1 DEF UnitsOwed
      <4>3. upload # "deleted" => job'.key = job.key /\ job'.status # "none"
        BY <4>1, <4>2
      <4>. QED
        BY <3>0, <4>1, <4>2, <4>3, RequestMoves DEF UnitsOwed
    <3>2. CASE Create(r)
      <4>1. CASE job.status = "none" /\ upload # "deleted"
        <5>1. Step(r, "done") /\ job' = Queued(req[r].key)
          BY <3>2, <4>1 DEF Create
        <5>. QED
          BY <3>0, <4>1, <5>1, RequestMoves DEF UnitsOwed
      <4>2. CASE job.status # "none" /\ job.key # req[r].key
        <5>1. Step(r, "giveback") /\ job' = job
          BY <3>2, <4>2 DEF Create
        <5>. QED
          BY <3>0, <5>1, RequestMoves DEF UnitsOwed
      <4>3. CASE job.status # "none" /\ job.key = req[r].key
        <5>1. Step(r, "done") /\ job' = job
          BY <3>2, <4>3 DEF Create
        <5>. QED
          BY <3>0, <4>3, <5>1, RequestMoves DEF UnitsOwed
      <4>4. CASE upload = "deleted"
        BY <3>0, <4>4 DEF UnitsOwed
      <4>. QED
        BY <4>1, <4>2, <4>3, <4>4
    <3>. QED
      BY <2>4, <3>1, <3>2 DEF WriteJob
  <2>5. CASE GiveBack(r)
    <3>1. Step(r, "done") /\ UNCHANGED <<upload, job>> /\ ledger' = [ledger EXCEPT ![req[r].key] = 0]
      BY <2>5 DEF GiveBack
    <3>2. \A k \in Keys : ledger'[k] # 0 => ledger[k] # 0 /\ k # req[r].key
      BY <3>1 DEF TypeOK
    <3>. QED
      BY <3>1, <3>2, RequestMoves DEF UnitsOwed
  <2>. QED
    BY <1>1, <2>1, <2>2, <2>3, <2>4, <2>5 DEF RequestStep
<1>2. ASSUME NEW w \in Workers, WorkerStep(w) \/ Heartbeat(w) \/ Crash(w)
      PROVE  UnitsOwed'
  <2>1. CASE QuietWork(w)
    BY <1>0, <2>1 DEF QuietWork, CallProviders, PurgeObjects, PurgeRows, FindExhausted, Crash
  <2>2. CASE Release(w)
    BY <1>0, <2>2 DEF Release, TypeOK
  <2>3. CASE Claim(w) \/ Heartbeat(w) \/ Finalize(w) \/ Fail(w) \/ FailExhausted(w)
    <3>1. UNCHANGED <<upload, req, ledger>>
      BY <2>3 DEF Claim, Heartbeat, Finalize, Fail, FailExhausted
    <3>2. job'.key = job.key /\ (job'.status = "none" <=> job.status = "none")
      <4>1. CASE Claim(w)
        BY <4>1 DEF Claim, Claimable
      <4>2. CASE Heartbeat(w)
        BY <4>2 DEF Heartbeat, TypeOK, AJob
      <4>3. CASE Finalize(w) \/ Fail(w) \/ FailExhausted(w)
        BY <4>3 DEF Finalize, Fail, FailExhausted, MayFinalize, MayFail, Owns, TypeOK, AJob
      <4>. QED
        BY <2>3, <4>1, <4>2, <4>3
    <3>. QED
      BY <1>0, <3>1, <3>2
  <2>. QED
    BY <1>2, <2>1, <2>2, <2>3 DEF WorkerStep, QuietWork
<1>3. CASE SweepStep
  <2>1. CASE FindUpload \/ SweepObjects \/ SweepRows
    BY <1>0, <2>1 DEF FindUpload, SweepObjects, SweepRows
  <2>2. CASE SweepMark
    BY <1>0, <2>2 DEF SweepMark, Sweeping, Swept
  <2>3. CASE SweepRelease
    BY <1>0, <2>3 DEF SweepRelease, TypeOK
  <2>4. CASE SweepFail
    BY <1>0, <2>4 DEF SweepFail, TypeOK, AJob
  <2>5. CASE SweepDrop
    BY <2>5 DEF SweepDrop, UnitsOwed
  <2>. QED
    BY <1>3, <2>1, <2>2, <2>3, <2>4, <2>5 DEF SweepStep
<1>4. CASE LeaseLapses
  BY <1>0, <1>4 DEF LeaseLapses, TypeOK, AJob
<1>5. CASE DeadlinePasses \/ UNCHANGED vars
  BY <1>0, <1>5 DEF DeadlinePasses, vars
<1>. QED
  BY <1>1, <1>2, <1>3, <1>4, <1>5 DEF Next

\* A lease that was renewed in time is lost to nobody before the deadline.
LEMMA LeaseStep ==
  ASSUME TypeInv, Swept, LeaseHeld, [Next]_vars
  PROVE  LeaseHeld'
<1>0. MaxAttempts \in Nat /\ MaxAttempts >= 2 /\ TypeOK /\ job.attempts \in Nat
  BY Constants DEF TypeInv, TypeOK, AJob
<1> USE <1>0, JobStatusSteps DEF staged
\* Steps that leave the job alone and put nobody to work.
<1>a. ASSUME job' = job, ~late' => ~late, \A w \in Workers : Stood(w)' => Stood(w),
             \A w \in Workers : wrk'[w].pc = "exhaust" => wrk[w].pc = "exhaust"
      PROVE  LeaseHeld'
  BY <1>a DEF LeaseHeld, Owns, Exhausted
\* Steps after which nobody has the job, and that nobody without a lapse had.
<1>b. ASSUME job'.status # "processing", \A w \in Workers : Stood(w)' /\ ~late' => Stood(w) /\ ~late /\ ~Owns(w)
      PROVE  LeaseHeld'
  BY <1>b DEF LeaseHeld, Owns
<1>c. ASSUME wrk' = wrk
      PROVE  \A w \in Workers : Stood(w)' <=> Stood(w)
  BY <1>c DEF Stood
<1>1. ASSUME NEW r \in Requests, RequestStep(r)
      PROVE  LeaseHeld'
  <2>0. wrk' = wrk /\ late' = late
    BY <1>1 DEF RequestStep, CheckUpload, FindJob, Reserve, WriteJob, GiveBack
  <2>1. CASE job' = job
    BY <1>a, <1>c, <2>0, <2>1
  <2>2. CASE job.status \in {"none", "error"} /\ job'.status = "queued"
    BY <1>b, <1>c, <2>0, <2>2 DEF Owns, LeaseHeld
  <2>. QED
    BY <1>1, <2>1, <2>2 DEF RequestStep, CheckUpload, FindJob, Reserve, WriteJob, GiveBack, Requeue, Create
<1>2. ASSUME NEW w \in Workers, WorkerStep(w) \/ Heartbeat(w) \/ Crash(w)
      PROVE  LeaseHeld'
  <2>0. late' = late
    BY <1>2 DEF WorkerStep, Claim, CallProviders, Finalize, PurgeObjects, PurgeRows, Fail, Release, FindExhausted,
                FailExhausted, Heartbeat, Crash
  <2>a. ASSUME NEW pc \in {"idle", "rows", "release", "purge"}, Goto(w, pc)
        PROVE  /\ ~Stood(w)' /\ \A v \in Workers : Stood(v)' => Stood(v) /\ v # w
               /\ \A v \in Workers : wrk'[v].pc = "exhaust" => wrk[v].pc = "exhaust"
    BY <2>a, WorkerMoves DEF Stood, Busy
  <2>1. CASE Claim(w)
    <3>1. Claimable /\ job' = Claimed(w) /\ wrk[w].pc = "idle"
      BY <2>1 DEF Claim, Working
    <3>2. /\ wrk'[w].pc = "call" /\ \A v \in Workers \ {w} : wrk'[v] = wrk[v]
      BY <2>1 DEF Claim, TypeOK
    <3>3. \A v \in Workers \ {w} : Stood(v)' => Stood(v)
      BY <3>2 DEF Stood
    <3>4. \A v \in Workers : Stood(v) => late
      BY <3>1 DEF Claimable, LeaseHeld, Owns
    <3>5. ASSUME NEW v \in Workers, wrk'[v].pc = "exhaust" PROVE job'.attempts < MaxAttempts
      <4>1. wrk[v].pc = "exhaust"
        BY <3>2, <3>5
      <4>2. CASE job.status = "queued"
        BY <3>1, <4>2 DEF TypeInv, FreshBudget
      <4>3. CASE job.status = "processing" /\ job.stale
        BY <3>1, <4>1, <4>3 DEF LeaseHeld, Exhausted, Claimable
      <4>. QED
        BY <3>1, <4>2, <4>3 DEF Claimable
    <3>6. Owns(w)' /\ ~job'.stale
      BY <3>1 DEF Owns
    <3>7. \A v \in Workers : Stood(v)' /\ ~late' => Owns(v)'
      BY <2>0, <3>3, <3>4, <3>6
    <3>8. \A v \in Workers : wrk'[v].pc = "exhaust" => ~Exhausted'
      <4>1. job'.attempts \in Nat
        BY <3>1
      <4>. QED
        BY <3>5, <4>1 DEF Exhausted
    <3>. QED
      BY <3>6, <3>7, <3>8 DEF LeaseHeld
  <2>2. CASE Heartbeat(w)
    <3>1. wrk' = wrk /\ job' = [job EXCEPT !.stale = FALSE]
      BY <2>2 DEF Heartbeat
    <3>2. ~job'.stale /\ (Exhausted' <=> Exhausted) /\ job'.status = job.status
          /\ \A v \in Workers : Owns(v)' <=> Owns(v)
      BY <3>1 DEF TypeOK, AJob, Exhausted, Owns
    <3>. QED
      BY <1>c, <2>0, <3>1, <3>2 DEF LeaseHeld
  <2>3. CASE CallProviders(w)
    <3>1. wrk[w].pc = "call" /\ job' = job
      BY <2>3 DEF CallProviders, Working
    <3>2. wrk'[w].pc \in {"finalize", "fail"} /\ wrk'[w].lapsed = wrk[w].lapsed
          /\ \A v \in Workers \ {w} : wrk'[v] = wrk[v]
      BY <2>3, WorkerMoves DEF CallProviders, TypeOK, AWorker
    <3>3. \A v \in Workers : Stood(v)' => Stood(v)
      BY <3>1, <3>2 DEF Stood, Busy
    <3>. QED
      BY <1>a, <2>0, <3>1, <3>2, <3>3
  <2>4. CASE Finalize(w) \/ Fail(w)
    <3>1. CASE Owns(w) /\ job'.status # "processing" /\ \E pc \in {"purge", "release"} : Goto(w, pc)
      BY <1>b, <2>0, <2>a, <3>1 DEF Owns
    <3>2. CASE job' = job /\ Goto(w, "idle")
      BY <1>a, <2>0, <2>a, <3>2
    <3>. QED
      BY <2>4, <3>1, <3>2 DEF Finalize, Fail, MayFinalize, MayFail, TypeOK, AJob
  <2>5. CASE PurgeObjects(w) \/ PurgeRows(w) \/ Release(w) \/ Crash(w)
    <3>1. job' = job /\ \E pc \in {"idle", "rows", "release", "purge"} : Goto(w, pc)
      BY <2>5 DEF PurgeObjects, PurgeRows, Release, Crash, AfterPurge
    <3>. QED
      BY <1>a, <2>0, <2>a, <3>1
  <2>6. CASE FindExhausted(w)
    <3>1. job' = job /\ job.status = "processing" /\ job.stale /\ Exhausted
      BY <2>6 DEF FindExhausted, Exhausted
    <3>2. \A v \in Workers : Stood(v)' => Stood(v)
      BY <2>6 DEF FindExhausted, Stood, Busy, TypeOK, AWorker
    <3>3. \A v \in Workers : (Owns(v)' <=> Owns(v)) /\ (Owns(v) => ~Stood(v))
      BY <3>1 DEF LeaseHeld, Owns
    <3>. QED
      BY <2>0, <3>1, <3>2, <3>3 DEF LeaseHeld, Exhausted
  <2>7. CASE FailExhausted(w)
    <3>1. CASE job.status = "processing" /\ Exhausted /\ job'.status = "error" /\ Goto(w, "release")
      <4>1. \A v \in Workers : Owns(v) => ~Stood(v)
        BY <2>7, <3>1 DEF LeaseHeld, FailExhausted, Working
      <4>2. \A v \in Workers : Stood(v) => late
        BY <4>1 DEF LeaseHeld
      <4>. QED
        BY <1>b, <2>0, <2>a, <3>1, <4>2
    <3>2. CASE job' = job /\ Goto(w, "idle")
      BY <1>a, <2>0, <2>a, <3>2
    <3>. QED
      BY <2>7, <3>1, <3>2 DEF FailExhausted, Exhausted, TypeOK, AJob
  <2>. QED
    BY <1>2, <2>1, <2>2, <2>3, <2>4, <2>5, <2>6, <2>7 DEF WorkerStep
<1>3. CASE SweepStep
  <2>0. wrk' = wrk /\ late' = late
    BY <1>3 DEF SweepStep, FindUpload, SweepFail, SweepRelease, SweepObjects, SweepRows, SweepMark, SweepDrop
  <2>1. CASE job' = job
    BY <1>a, <1>c, <2>0, <2>1
  <2>2. CASE late /\ job'.status # "processing"
    BY <1>b, <1>c, <2>0, <2>2
  <2>. QED
    BY <1>3, <2>1, <2>2 DEF SweepStep, FindUpload, SweepFail, SweepRelease, SweepObjects, SweepRows, SweepMark,
                            SweepDrop, Sweeping, Swept, TypeOK, AJob
<1>4. CASE LeaseLapses
  <2>1. /\ \A v \in Workers : wrk[v].pc # "exhaust"
        /\ job.status = "processing" /\ late' = late
        /\ job' = [job EXCEPT !.stale = TRUE]
    BY <1>4 DEF LeaseLapses, Working
  <2>2. \A v \in Workers : (Owns(v)' <=> Owns(v)) /\ wrk'[v].pc = wrk[v].pc
    BY <1>4, <2>1 DEF LeaseLapses, Owns, TypeOK, AJob, AWorker
  <2>3. \A v \in Workers : job.token # v => wrk'[v] = wrk[v]
    BY <1>4 DEF LeaseLapses, TypeOK
  <2>4. ASSUME NEW v \in Workers, Owns(v) PROVE ~Stood(v)'
    <3>1. wrk'[v].pc \in Busy => wrk'[v].lapsed
      BY <1>4, <2>4 DEF LeaseLapses, Owns, TypeOK, AWorker, Busy
    <3>. QED
      BY <3>1 DEF Stood
  <2>5. \A v \in Workers : Stood(v)' => Stood(v)
    BY <2>1, <2>3, <2>4 DEF Stood, Owns
  <2>. QED
    BY <2>1, <2>2, <2>4, <2>5 DEF LeaseHeld
<1>5. CASE DeadlinePasses \/ UNCHANGED vars
  BY <1>a, <1>c, <1>5 DEF DeadlinePasses, vars
<1>. QED
  BY <1>1, <1>2, <1>3, <1>4, <1>5 DEF Next

\* The invariant holds initially.
LEMMA InvInit == Init => Inv
<1> SUFFICES ASSUME Init PROVE Inv
  OBVIOUS
<1>1. \A k \in Keys : [pc |-> "new", key |-> k, retry |-> FALSE] \in ARequest
  BY DEF ARequest
<1>2. \A r \in Requests : req[r] \in ARequest /\ ~req[r].retry
  BY <1>1 DEF Init
<1>3. req \in [Requests -> ARequest]
  BY <1>2 DEF Init
<1>4. TypeInv
  <2>1. job \in AJob /\ job.status = "none"
    BY Constants, JobStatusSteps DEF Init
  <2>2. wrk \in [Workers -> AWorker] /\ sweep \in ASweep
    BY Constants DEF Init
  <2>3. ledger \in [Keys -> 0..1]
    BY DEF Init
  <2>. QED
    BY <1>3, <2>1, <2>2, <2>3 DEF Init, TypeInv, TypeOK, FreshBudget
<1>5. job.status = "none" /\ sweep.pc = "idle" /\ \A w \in Workers : wrk[w].pc = "idle"
  BY JobStatusSteps DEF Init, IdleSweep, IdleWorker
<1>6. Swept /\ NotesFinal
  BY <1>5 DEF Init, Swept, NotesFinal
<1>7. LeaseHeld
  BY <1>5 DEF LeaseHeld, Stood, Busy
<1>8. UnitsOwed
  BY <1>2 DEF Init, UnitsOwed
<1>. QED
  BY <1>4, <1>6, <1>7, <1>8 DEF Inv

\* Every step of the specification keeps the invariant.
LEMMA InvStep ==
  ASSUME Inv, [Next]_vars
  PROVE  Inv'
BY TypeStep, SweptStep, LeaseStep, NotesStep, UnitsStep DEF Inv, TypeInv

\* The inductive invariant: types, what the cleaner may assume, who holds the
\* lease, which notes are final and who owes which unit of the ledger.
THEOREM InvAlways == Spec => []Inv
BY InvInit, InvStep, PTL DEF Spec

\* A worker that renewed its lease in time still holds the job when it has the
\* result, and the types are as declared, for any number of workers and requests.
THEOREM ResultIsKept == Spec => []ResultKept
<1>1. Inv => ResultKept
  BY DEF Inv, TypeInv, LeaseHeld, Stood, Busy, ResultKept
<1>. QED
  BY <1>1, InvAlways, PTL

\* Finalized notes are never replaced, by whichever worker, retry or cleaner.
THEOREM NotesAreStable == Spec => NotesStable
<1>1. Inv /\ [Next]_vars => [notes # "none" => notes' = notes]_vars
  BY NotesStep DEF Inv, TypeInv
<1>. QED
  BY <1>1, InvAlways, PTL DEF Spec, NotesStable

\* When no request is on its way, only the job's own unit is reserved.
THEOREM NoUnitIsLeft == Spec => []NoStrayUnit
<1>1. Inv => NoStrayUnit
  <2> SUFFICES ASSUME Inv, job.status # "none", \A r \in Requests : req[r].pc \in {"new", "done"},
                      NEW k \in Keys \ {job.key}
               PROVE  ledger[k] = 0
    BY DEF NoStrayUnit
  <2>. QED
    BY DEF Inv, Swept, UnitsOwed
<1>. QED
  BY <1>1, InvAlways, PTL

----------------------------------------------------------------------------
(* Announcing finished notes *)

\* The records of a delivery and of a sender.
Items == Deliveries \X Nat \X Nat
ARow == [status : {"pending", "delivered", "failed", "skipped"}, attempts : Nat, due : BOOLEAN, stamp : Nat]
AStarter == [pc : {"claim-note", "create"}, note : Notes, to : SUBSET Hooks]
APass == [pc : {"claim"}, todo : SUBSET Items]
AHolder == [pc : {"look", "send"}, row : Deliveries, attempt : Nat, todo : SUBSET Items]
AWriter == [pc : {"write"}, row : Deliveries, attempt : Nat,
            result : {"delivered", "failed", "skipped", "again"}, todo : SUBSET Items]
ASender == {Resting, [pc |-> "read"]} \cup AStarter \cup APass \cup AHolder \cup AWriter

HookTypes ==
  /\ delivery \in [Deliveries -> {NoRow} \cup ARow]
  /\ notified \subseteq Notes
  /\ sender \in [Senders -> ASender]
  /\ accepted \in [Deliveries -> Nat] /\ doubt \in [Deliveries -> Nat] /\ lapsed \in [Deliveries -> Nat]

\* What a sender still has to try, and whether an entry of that list is of the row as it is.
Todo(s) == IF sender[s].pc \in {"claim", "look", "send", "write"} THEN sender[s].todo ELSE {}
Dated(x) == Exists(x[1]) =>
  /\ x[2] <= delivery[x[1]].stamp
  /\ x[2] = delivery[x[1]].stamp => delivery[x[1]].due /\ x[3] = delivery[x[1]].attempts
ListsDated == \A s \in Senders : \A x \in Todo(s) : Dated(x)

\* Nothing has happened to a delivery yet.
Untouched(d) ==
  /\ delivery[d] = NoRow /\ accepted[d] = 0 /\ Holding(d) = {}
  /\ \A s \in Senders : \A x \in Todo(s) : x[1] # d

\* The rows of a note are created once, and before anything happens to them.
Starting(s) ==
  /\ sender[s].note \in notified
  /\ \A i \in Hooks : Untouched(<<sender[s].note, i>>)
  /\ \A t \in Senders \ {s} : Doing(t, "create") => sender[t].note # sender[s].note
CreatedOnce ==
  /\ \A n \in Notes \ notified : \A i \in Hooks : Untouched(<<n, i>>)
  /\ \A s \in Senders : Doing(s, "create") => Starting(s)

Within(d, n) == delivery[d].attempts <= n + lapsed[d]
Below(d, n) == delivery[d].attempts < n + lapsed[d]

\* Claims of a row after that of a holder were made after a lapse each.
BehindOne(d, s) == Within(d, sender[s].attempt) /\ (Pending(d) /\ delivery[d].due => Below(d, sender[s].attempt))
Behind(d) == Exists(d) => \A s \in Holding(d) : BehindOne(d, s)

\* A row that can be claimed has an attempt left.
Counted(d) == Exists(d) =>
  /\ Within(d, MaxDeliveries)
  /\ Pending(d) /\ (delivery[d].due \/ Holding(d) = {}) => Below(d, MaxDeliveries)

\* While no claim has lapsed, a row that is held cannot be claimed.
Alone(d) == lapsed[d] = 0 =>
  /\ \A s, t \in Holding(d) : s = t
  /\ Holding(d) # {} /\ Exists(d) /\ Pending(d) => ~delivery[d].due

\* An acceptance the server knows of is about to be written, or the row has rested.
Reporting(s) == sender[s].pc = "write" /\ sender[s].result = "delivered"
Told(d) == lapsed[d] = 0 =>
  /\ accepted[d] <= doubt[d] + 1
  /\ accepted[d] > doubt[d] => /\ \A s \in Holding(d) : Reporting(s)
                               /\ Holding(d) = {} => ~(Exists(d) /\ Pending(d))

EachRow == \A d \in Deliveries : Behind(d) /\ Counted(d) /\ Alone(d) /\ Told(d)
HooksInv == HookTypes /\ ListsDated /\ CreatedOnce /\ EachRow

\* The steps of Integrations as the composition takes them.
SenderActs(s) ==
  \/ \E n \in Notes : notifyNoteReady(s, n)
  \/ claimNote(s) \/ createDeliveries(s) \/ runIntegrationMaintenance(s) \/ readDue(s) \/ claimDelivery(s)
  \/ lookUp(s) \/ defaultSender(s) \/ writeResult(s) \/ SenderDies(s)
OwnerActs ==
  \/ \E i : createIntegration(i) \/ setIntegrationEnabled(i) \/ deleteIntegration(i) \/ openConfigFails(i)
  \/ \E n : MoveNoteToTrash(n)
HooksNext ==
  \/ \E s \in Senders : SenderActs(s)
  \/ \E d \in Deliveries : AttemptTimeComes(d) \/ purgeDeliveries(d)
  \/ OwnerActs

\* Which record a sender has at each of its statements.
LEMMA SenderKinds ==
  ASSUME HookTypes, NEW s \in Senders
  PROVE  /\ sender[s].pc \in {"claim-note", "create"} => sender[s] \in AStarter
         /\ sender[s].pc = "claim" => sender[s] \in APass
         /\ sender[s].pc \in {"look", "send"} => sender[s] \in AHolder
         /\ sender[s].pc = "write" => sender[s] \in AWriter
         /\ sender[s].pc \in {"idle", "read", "claim-note", "create", "claim", "look", "send", "write"}
<1>1. sender[s] \in ASender
  BY DEF HookTypes
<1>. QED
  BY <1>1 DEF ASender, AStarter, APass, AHolder, AWriter, Resting

\* The rows a sender holds and the list it works on change only with its record.
LEMMA HoldingAfter ==
  ASSUME HookTypes, NEW s \in Senders, NEW x, Does(s, x), NEW d
  PROVE  Holding(d)' = {t \in Holding(d) : t # s}
                         \cup (IF x.pc \in {"look", "send", "write"} /\ x.row = d THEN {s} ELSE {})
BY DEF Does, Holding, HookTypes

\* The list of every other sender stays; that of the one that moves is its new record's.
LEMMA TodoAfter ==
  ASSUME HookTypes, NEW s \in Senders, NEW x, Does(s, x), NEW t \in Senders
  PROVE  Todo(t)' = IF t # s THEN Todo(t)
                    ELSE IF x.pc \in {"claim", "look", "send", "write"} THEN x.todo ELSE {}
BY DEF Does, Todo, HookTypes

\* The entries of a list are of rows, with a stamp and a count.
LEMMA TodoType ==
  ASSUME HookTypes, NEW s \in Senders
  PROVE  Todo(s) \subseteq Items
BY SenderKinds DEF Todo, APass, AHolder, AWriter

\* The same after a step, from the types after it.
LEMMA TodoAfterType ==
  ASSUME HookTypes', NEW s \in Senders
  PROVE  Todo(s)' \subseteq Items
<1>1. sender'[s] \in ASender
  BY DEF HookTypes
<1>. QED
  BY <1>1 DEF Todo, ASender, AStarter, APass, AHolder, AWriter, Resting

\* A pass goes on with the rest of its list, or is over.
LEMMA BatchType ==
  ASSUME NEW S \in SUBSET Items, NEW s
  PROVE  Batch(s, S) \in ASender /\ Batch(s, S).pc \in {"idle", "claim"}
         /\ (Batch(s, S).pc = "claim" => Batch(s, S).todo = S)
BY DEF Batch, ASender, APass, Resting

\* The record of every row keeps its type.
LEMMA RowKinds ==
  ASSUME HookTypes, NEW d \in Deliveries
  PROVE  Exists(d) <=> delivery[d] \in ARow
BY DEF HookTypes, Exists, ARow, NoRow

\* A sender's step keeps the types of its record.
LEMMA SenderTypes ==
  ASSUME HookTypes, NEW s \in Senders, SenderActs(s)
  PROVE  sender' \in [Senders -> ASender]
<1>0. sender \in [Senders -> ASender]
  BY DEF HookTypes
<1>1. SUFFICES \E x \in ASender : Does(s, x)
  BY <1>0 DEF Does
<1>2. Resting \in ASender /\ [pc |-> "read"] \in ASender
  BY DEF ASender
<1>3. ASSUME NEW n \in Notes, notifyNoteReady(s, n)
      PROVE  \E x \in ASender : Does(s, x)
  <2>1. [pc |-> "claim-note", note |-> n, to |-> Enabled] \in ASender
    BY DEF ASender, AStarter, Enabled
  <2>. QED
    BY <1>2, <1>3, <2>1 DEF notifyNoteReady
<1>4. CASE claimNote(s)
  <2>1. sender[s] \in AStarter
    BY <1>4, SenderKinds DEF claimNote, Doing
  <2>2. [sender[s] EXCEPT !.pc = "create"] \in ASender
    BY <2>1 DEF ASender, AStarter
  <2>. QED
    BY <1>2, <1>4, <2>2 DEF claimNote
<1>5. CASE createDeliveries(s)
  BY <1>2, <1>5 DEF createDeliveries
<1>6. CASE runIntegrationMaintenance(s)
  BY <1>2, <1>6 DEF runIntegrationMaintenance
<1>7. CASE readDue(s)
  <2>1. PICK S \in SUBSET {d \in Deliveries : Exists(d) /\ Pending(d) /\ delivery[d].due} :
          Does(s, Batch(s, {<<d, delivery[d].stamp, delivery[d].attempts>> : d \in S}))
    BY <1>7 DEF readDue
  <2>2. \A d \in S : delivery[d].stamp \in Nat /\ delivery[d].attempts \in Nat
    BY RowKinds DEF ARow
  <2>3. {<<d, delivery[d].stamp, delivery[d].attempts>> : d \in S} \in SUBSET Items
    BY <2>2 DEF Items
  <2>. QED
    BY <2>1, <2>3, BatchType
<1>8. CASE claimDelivery(s)
  <2>1. sender[s] \in APass
    BY <1>8, SenderKinds DEF claimDelivery, Doing
  <2>2. PICK x \in sender[s].todo :
          IF claimable(x[1], x[2])
          THEN Does(s, [pc |-> "look", row |-> x[1], attempt |-> x[3] + 1, todo |-> sender[s].todo \ {x}])
          ELSE Does(s, Batch(s, sender[s].todo \ {x}))
    BY <1>8 DEF claimDelivery
  <2>3. x \in Items /\ sender[s].todo \ {x} \in SUBSET Items
    BY <2>1 DEF APass
  <2>4. x[1] \in Deliveries /\ x[3] + 1 \in Nat
    BY <2>3 DEF Items
  <2>5. [pc |-> "look", row |-> x[1], attempt |-> x[3] + 1, todo |-> sender[s].todo \ {x}] \in AHolder
    BY <2>3, <2>4 DEF AHolder
  <2>. QED
    BY <2>2, <2>3, <2>5, BatchType DEF ASender
<1>9. CASE lookUp(s)
  <2>1. sender[s] \in AHolder
    BY <1>9, SenderKinds DEF lookUp, Doing
  <2>2. [sender[s] EXCEPT !.pc = "send"] \in AHolder
    BY <2>1 DEF AHolder
  <2>3. \A r \in {"skipped", "failed"} :
          [pc |-> "write", row |-> sender[s].row, attempt |-> sender[s].attempt,
           result |-> r, todo |-> sender[s].todo] \in AWriter
    BY <2>1 DEF AHolder, AWriter
  <2>4. \E x \in AHolder \cup AWriter : Does(s, x)
    BY <1>9, <2>2, <2>3 DEF lookUp
  <2>. QED
    BY <2>4 DEF ASender
<1>10. CASE defaultSender(s)
  <2>1. sender[s] \in AHolder
    BY <1>10, SenderKinds DEF defaultSender, Doing
  <2>2. \A r \in {"delivered", "again"} :
          [pc |-> "write", row |-> sender[s].row, attempt |-> sender[s].attempt,
           result |-> r, todo |-> sender[s].todo] \in AWriter
    BY <2>1 DEF AHolder, AWriter
  <2>3. \E x \in AWriter : Does(s, x)
    BY <1>10, <2>2 DEF defaultSender
  <2>. QED
    BY <2>3 DEF ASender
<1>11. CASE writeResult(s)
  <2>1. sender[s] \in AWriter
    BY <1>11, SenderKinds DEF writeResult, Doing
  <2>2. sender[s].todo \in SUBSET Items
    BY <2>1 DEF AWriter
  <2>. QED
    BY <1>2, <1>11, <2>2, BatchType DEF writeResult
<1>12. CASE SenderDies(s)
  BY <1>2, <1>12 DEF SenderDies
<1>. QED
  BY <1>3, <1>4, <1>5, <1>6, <1>7, <1>8, <1>9, <1>10, <1>11, <1>12 DEF SenderActs

\* What each step does to a row: nothing, its creation, a claim, a result, its time, its end.
RowAs(d, r) == delivery' = [delivery EXCEPT ![d] = r]
ClaimedRow(r) == [status |-> r.status, attempts |-> r.attempts + 1, due |-> FALSE, stamp |-> r.stamp + 1]
NewRow == [status |-> "pending", attempts |-> 0, due |-> TRUE, stamp |-> 0]
RestedRow(r, status) == [status |-> status, attempts |-> r.attempts, due |-> r.due, stamp |-> r.stamp]
GivenUpRow(r) == [status |-> "failed", attempts |-> r.attempts, due |-> r.due, stamp |-> r.stamp + 1]
RetriedRow(r) == [status |-> "pending", attempts |-> r.attempts, due |-> FALSE, stamp |-> r.stamp + 1]
DueRow(r) == [status |-> r.status, attempts |-> r.attempts, due |-> TRUE, stamp |-> r.stamp]

\* A row is its fields.
RowIs(r, status, n, due, stamp) ==
  r \in ARow /\ r.status = status /\ r.attempts = n /\ r.due = due /\ r.stamp = stamp

\* Two rows with the same fields are the same.
LEMMA RowIsOne ==
  ASSUME NEW r, NEW q, NEW st, NEW n, NEW b, NEW k, RowIs(r, st, n, b, k), RowIs(q, st, n, b, k)
  PROVE  r = q
BY DEF RowIs, ARow

\* One field is written at a time.
LEMMA StatusWritten ==
  ASSUME NEW r, NEW st, NEW n, NEW b, NEW k, RowIs(r, st, n, b, k),
         NEW x \in {"pending", "delivered", "failed", "skipped"}, NEW a, a = [r EXCEPT !.status = x]
  PROVE  RowIs(a, x, n, b, k)
BY DEF RowIs, ARow

\* Writing the stamp leaves the other fields.
LEMMA StampWritten ==
  ASSUME NEW r, NEW st, NEW n, NEW b, NEW k, RowIs(r, st, n, b, k),
         NEW x \in Nat, NEW a, a = [r EXCEPT !.stamp = x]
  PROVE  RowIs(a, st, n, b, x)
BY DEF RowIs, ARow

\* Writing the count of attempts leaves the other fields.
LEMMA AttemptsWritten ==
  ASSUME NEW r, NEW st, NEW n, NEW b, NEW k, RowIs(r, st, n, b, k),
         NEW x \in Nat, NEW a, a = [r EXCEPT !.attempts = x]
  PROVE  RowIs(a, st, x, b, k)
BY DEF RowIs, ARow

\* Writing whether the time has come leaves the other fields.
LEMMA DueWritten ==
  ASSUME NEW r, NEW st, NEW n, NEW b, NEW k, RowIs(r, st, n, b, k),
         NEW x \in BOOLEAN, NEW a, a = [r EXCEPT !.due = x]
  PROVE  RowIs(a, st, n, x, k)
BY DEF RowIs, ARow

\* The updates of the model, written out.
LEMMA RowUpdates ==
  ASSUME NEW r \in ARow
  PROVE  /\ [r EXCEPT !.status = "failed", !.stamp = @ + 1] = GivenUpRow(r)
         /\ [r EXCEPT !.status = "pending", !.due = FALSE, !.stamp = @ + 1] = RetriedRow(r)
         /\ [r EXCEPT !.due = TRUE] = DueRow(r)
         /\ \A x \in {"delivered", "failed", "skipped"} : [r EXCEPT !.status = x] = RestedRow(r, x)
         /\ [r EXCEPT !.attempts = @ + 1, !.stamp = @ + 1, !.due = FALSE] = ClaimedRow(r)
<1>0. PICK st, n, b, k : RowIs(r, st, n, b, k)
  BY DEF RowIs
<1>1. PICK k1, n1 : k1 = r.stamp + 1 /\ n1 = r.attempts + 1
  OBVIOUS
<1>2. k1 \in Nat /\ n1 \in Nat /\ FALSE \in BOOLEAN /\ TRUE \in BOOLEAN
  BY <1>1 DEF ARow
<1>3. RowIs(GivenUpRow(r), "failed", n, b, k1)
  BY <1>0, <1>1, <1>2 DEF RowIs, GivenUpRow, ARow
<1>4. RowIs(RetriedRow(r), "pending", n, FALSE, k1)
  BY <1>0, <1>1, <1>2 DEF RowIs, RetriedRow, ARow
<1>5. RowIs(DueRow(r), st, n, TRUE, k)
  BY <1>0 DEF RowIs, DueRow, ARow
<1>6. \A x \in {"delivered", "failed", "skipped"} : RowIs(RestedRow(r, x), x, n, b, k)
  BY <1>0 DEF RowIs, RestedRow, ARow
<1>7. RowIs(ClaimedRow(r), st, n1, FALSE, k1)
  BY <1>0, <1>1, <1>2 DEF RowIs, ClaimedRow, ARow
<1>8. [r EXCEPT !.status = "failed", !.stamp = @ + 1] = GivenUpRow(r)
  <2>1. PICK x : x = [r EXCEPT !.status = "failed"]
    OBVIOUS
  <2>2. PICK y : y = [x EXCEPT !.stamp = k1]
    OBVIOUS
  <2>3. RowIs(x, "failed", n, b, k)
    BY <1>0, <2>1, StatusWritten
  <2>4. RowIs(y, "failed", n, b, k1)
    BY <1>2, <2>2, <2>3, StampWritten
  <2>5. y = GivenUpRow(r)
    BY <1>3, <2>4, RowIsOne
  <2>. QED
    BY <1>1, <2>1, <2>2, <2>5, Zenon
<1>9. [r EXCEPT !.status = "pending", !.due = FALSE, !.stamp = @ + 1] = RetriedRow(r)
  <2>1. PICK x : x = [r EXCEPT !.status = "pending"]
    OBVIOUS
  <2>2. PICK y : y = [x EXCEPT !.due = FALSE]
    OBVIOUS
  <2>3. PICK z : z = [y EXCEPT !.stamp = k1]
    OBVIOUS
  <2>4. RowIs(x, "pending", n, b, k)
    BY <1>0, <2>1, StatusWritten
  <2>5. RowIs(y, "pending", n, FALSE, k)
    BY <1>2, <2>2, <2>4, DueWritten
  <2>6. RowIs(z, "pending", n, FALSE, k1)
    BY <1>2, <2>3, <2>5, StampWritten
  <2>7. z = RetriedRow(r)
    BY <1>4, <2>6, RowIsOne
  <2>. QED
    BY <1>1, <2>1, <2>2, <2>3, <2>7, Zenon
<1>10. [r EXCEPT !.attempts = @ + 1, !.stamp = @ + 1, !.due = FALSE] = ClaimedRow(r)
  <2>1. PICK x : x = [r EXCEPT !.attempts = n1]
    OBVIOUS
  <2>2. PICK y : y = [x EXCEPT !.stamp = k1]
    OBVIOUS
  <2>3. PICK z : z = [y EXCEPT !.due = FALSE]
    OBVIOUS
  <2>4. RowIs(x, st, n1, b, k)
    BY <1>0, <1>2, <2>1, AttemptsWritten
  <2>5. RowIs(y, st, n1, b, k1)
    BY <1>2, <2>2, <2>4, StampWritten
  <2>6. RowIs(z, st, n1, FALSE, k1)
    BY <1>2, <2>3, <2>5, DueWritten
  <2>7. z = ClaimedRow(r)
    BY <1>7, <2>6, RowIsOne
  <2>. QED
    BY <1>1, <2>1, <2>2, <2>3, <2>7, Zenon
<1>11. [r EXCEPT !.due = TRUE] = DueRow(r)
  <2>1. PICK x : x = [r EXCEPT !.due = TRUE]
    OBVIOUS
  <2>2. RowIs(x, st, n, TRUE, k)
    BY <1>0, <1>2, <2>1, DueWritten
  <2>. QED
    BY <1>5, <2>1, <2>2, RowIsOne, Zenon
<1>12. ASSUME NEW x \in {"delivered", "failed", "skipped"}
       PROVE  [r EXCEPT !.status = x] = RestedRow(r, x)
  <2>1. PICK y : y = [r EXCEPT !.status = x]
    OBVIOUS
  <2>2. RowIs(y, x, n, b, k)
    BY <1>0, <2>1, StatusWritten
  <2>. QED
    BY <1>6, <2>1, <2>2, RowIsOne, Zenon
<1>. QED
  BY <1>8, <1>9, <1>10, <1>11, <1>12, Zenon

\* All of them are rows.
LEMMA RowRecords ==
  ASSUME NEW r \in ARow
  PROVE  /\ ClaimedRow(r) \in ARow /\ GivenUpRow(r) \in ARow /\ RetriedRow(r) \in ARow /\ DueRow(r) \in ARow
         /\ NewRow \in ARow /\ \A x \in {"delivered", "failed", "skipped"} : RestedRow(r, x) \in ARow
BY DEF ARow, ClaimedRow, GivenUpRow, RetriedRow, DueRow, NewRow, RestedRow

\* What a step is to one row.  The others that hold the row go on holding it as they did.
CountsStay(d) == accepted'[d] = accepted[d] /\ doubt'[d] = doubt[d] /\ lapsed'[d] = lapsed[d]
StayBut(d, s) == \A t \in Holding(d) \ {s} : sender'[t] = sender[t]
Left(d, s) == s \in Holding(d) /\ Holding(d)' = Holding(d) \ {s} /\ StayBut(d, s)

StillHeld(d) ==
  /\ Holding(d)' = Holding(d)
  /\ \A t \in Holding(d) : sender'[t].attempt = sender[t].attempt /\ (Reporting(t) => Reporting(t)')
RowRests(d) == StillHeld(d) /\ CountsStay(d) /\ delivery'[d] = delivery[d]
RowGoes(d) == StillHeld(d) /\ CountsStay(d) /\ delivery'[d] = NoRow
RowStarts(d) ==
  /\ delivery[d] = NoRow /\ accepted[d] = 0 /\ Holding(d) = {}
  /\ Holding(d)' = {} /\ CountsStay(d) /\ delivery'[d] = NewRow
RowIsClaimed(d) == \E s \in Senders :
  /\ Exists(d) /\ Pending(d) /\ delivery[d].due
  /\ Holding(d)' = Holding(d) \cup {s} /\ StayBut(d, s) /\ s \notin Holding(d)
  /\ sender'[s].attempt = delivery[d].attempts + 1 /\ sender'[s].pc = "look"
  /\ CountsStay(d) /\ delivery'[d] = ClaimedRow(delivery[d])
RowIsSent(d) == \E s \in Holding(d) :
  /\ sender[s].pc = "send" /\ sender'[s].attempt = sender[s].attempt
  /\ Holding(d)' = Holding(d) /\ StayBut(d, s)
  /\ lapsed'[d] = lapsed[d] /\ delivery'[d] = delivery[d]
  /\ \/ accepted'[d] = accepted[d] + 1 /\ doubt'[d] = doubt[d] /\ Reporting(s)'
     \/ accepted'[d] = accepted[d] + 1 /\ doubt'[d] = doubt[d] + 1
     \/ accepted'[d] = accepted[d] /\ doubt'[d] = doubt[d]
Written(d, s) ==
  LET r == delivery[d] IN
  \/ sender[s].result \in {"delivered", "failed", "skipped"} /\ delivery'[d] = RestedRow(r, sender[s].result)
  \/ sender[s].result = "again" /\ delivery'[d] = GivenUpRow(r)
  \/ sender[s].result = "again" /\ sender[s].attempt < MaxDeliveries /\ delivery'[d] = RetriedRow(r)
RowIsWritten(d) == \E s \in Senders :
  /\ sender[s].pc = "write" /\ Left(d, s) /\ CountsStay(d)
  /\ IF Exists(d) THEN Written(d, s) ELSE delivery'[d] = delivery[d]
RowIsLost(d) == \E s \in Senders :
  /\ Left(d, s) /\ delivery'[d] = delivery[d]
  /\ accepted'[d] = accepted[d] /\ doubt'[d] = doubt[d] /\ lapsed'[d] = lapsed[d] + 1
RowComesDue(d) ==
  /\ Exists(d) /\ Pending(d) /\ ~delivery[d].due
  /\ Holding(d)' = Holding(d) /\ sender' = sender
  /\ accepted'[d] = accepted[d] /\ doubt'[d] = doubt[d] /\ delivery'[d] = DueRow(delivery[d])
  /\ lapsed'[d] = IF Holding(d) # {} THEN lapsed[d] + 1 ELSE lapsed[d]
RowStep(d) ==
  \/ RowRests(d) \/ RowGoes(d) \/ RowStarts(d) \/ RowIsClaimed(d) \/ RowIsSent(d)
  \/ RowIsWritten(d) \/ RowIsLost(d) \/ RowComesDue(d)

RowSound(d) == Behind(d) /\ Counted(d) /\ Alone(d) /\ Told(d)

\* The numbers the row invariants compare.
LEMMA RowNumbers ==
  ASSUME HookTypes, NEW d \in Deliveries
  PROVE  /\ accepted[d] \in Nat /\ doubt[d] \in Nat /\ lapsed[d] \in Nat
         /\ MaxDeliveries \in Nat /\ MaxDeliveries > 0
         /\ \A s \in Holding(d) : s \in Senders /\ sender[s].attempt \in Nat
         /\ Exists(d) => /\ delivery[d] \in ARow /\ delivery[d].attempts \in Nat /\ delivery[d].stamp \in Nat
                         /\ delivery[d].due \in BOOLEAN
<1>1. accepted[d] \in Nat /\ doubt[d] \in Nat /\ lapsed[d] \in Nat
  BY DEF HookTypes
<1>2. MaxDeliveries \in Nat /\ MaxDeliveries > 0
  BY DeliveryAssumption
<1>3. \A s \in Holding(d) : s \in Senders /\ sender[s].attempt \in Nat
  BY SenderKinds DEF Holding, AHolder, AWriter
<1>4. Exists(d) => /\ delivery[d] \in ARow /\ delivery[d].attempts \in Nat /\ delivery[d].stamp \in Nat
                   /\ delivery[d].due \in BOOLEAN
  BY RowKinds DEF ARow
<1>. QED
  BY <1>1, <1>2, <1>3, <1>4

\* A row that rests or goes.
LEMMA RestsSound ==
  ASSUME HookTypes, HookTypes', NEW d \in Deliveries, RowSound(d), RowRests(d) \/ RowGoes(d)
  PROVE  RowSound(d)'
<1>1. Exists(d)' => Exists(d) /\ delivery'[d] = delivery[d]
  BY DEF Exists, RowRests, RowGoes
<1>2. StillHeld(d) /\ CountsStay(d)
  BY DEF RowRests, RowGoes
<1>3. Behind(d)' /\ Counted(d)' /\ Alone(d)'
  BY <1>1, <1>2 DEF RowSound, Behind, BehindOne, Counted, Alone, Within, Below, StillHeld, CountsStay, Pending
<1>4. Told(d)'
  BY <1>1, <1>2 DEF RowSound, Told, StillHeld, CountsStay, Pending
<1>. QED
  BY <1>3, <1>4 DEF RowSound

\* A row that is created has all of its attempts left.
LEMMA StartsSound ==
  ASSUME HookTypes, HookTypes', NEW d \in Deliveries, RowSound(d), RowStarts(d)
  PROVE  RowSound(d)'
<1>1. lapsed'[d] \in Nat /\ doubt[d] \in Nat /\ MaxDeliveries \in Nat /\ MaxDeliveries > 0
  BY RowNumbers DEF HookTypes
<1>2. delivery'[d].attempts = 0
  BY DEF RowStarts, NewRow
<1>. QED
  BY <1>1, <1>2 DEF RowSound, Behind, Counted, Alone, Told, Within, Below, RowStarts, CountsStay

\* A claim uses one of the attempts that were left, and finds nobody else unless a claim lapsed.
LEMMA ClaimSound ==
  ASSUME HookTypes, HookTypes', NEW d \in Deliveries, RowSound(d), RowIsClaimed(d)
  PROVE  RowSound(d)'
<1>1. PICK s \in Senders :
        /\ Exists(d) /\ Pending(d) /\ delivery[d].due
        /\ Holding(d)' = Holding(d) \cup {s} /\ StayBut(d, s) /\ s \notin Holding(d)
        /\ sender'[s].attempt = delivery[d].attempts + 1 /\ sender'[s].pc = "look"
        /\ CountsStay(d) /\ delivery'[d] = ClaimedRow(delivery[d])
  BY DEF RowIsClaimed
<1>2. /\ delivery'[d].attempts = delivery[d].attempts + 1 /\ delivery'[d].due = FALSE
      /\ delivery'[d].status = delivery[d].status
  BY <1>1 DEF ClaimedRow
<1>3. \A t \in Holding(d) : sender'[t] = sender[t]
  BY <1>1 DEF StayBut
<1>4. Behind(d)'
  BY <1>1, <1>2, <1>3, RowNumbers DEF RowSound, Behind, BehindOne, Within, Below, CountsStay
<1>5. Counted(d)'
  BY <1>1, <1>2, RowNumbers DEF RowSound, Counted, Within, Below, CountsStay
<1>6. Alone(d)'
  BY <1>1, <1>2 DEF RowSound, Alone, CountsStay
<1>7. Told(d)'
  BY <1>1, <1>2, RowNumbers DEF RowSound, Alone, Told, CountsStay
<1>. QED
  BY <1>4, <1>5, <1>6, <1>7 DEF RowSound

\* A request is sent by the one that holds the row, which has not been told yet.
LEMMA SendSound ==
  ASSUME HookTypes, HookTypes', NEW d \in Deliveries, RowSound(d), RowIsSent(d)
  PROVE  RowSound(d)'
<1>1. PICK s \in Holding(d) :
        /\ sender[s].pc = "send" /\ sender'[s].attempt = sender[s].attempt
        /\ Holding(d)' = Holding(d) /\ StayBut(d, s)
        /\ lapsed'[d] = lapsed[d] /\ delivery'[d] = delivery[d]
        /\ \/ accepted'[d] = accepted[d] + 1 /\ doubt'[d] = doubt[d] /\ Reporting(s)'
           \/ accepted'[d] = accepted[d] + 1 /\ doubt'[d] = doubt[d] + 1
           \/ accepted'[d] = accepted[d] /\ doubt'[d] = doubt[d]
  BY DEF RowIsSent
<1>2. \A t \in Holding(d) : sender'[t].attempt = sender[t].attempt
  BY <1>1 DEF StayBut
<1>3. Behind(d)' /\ Counted(d)' /\ Alone(d)'
  BY <1>1, <1>2 DEF RowSound, Behind, BehindOne, Counted, Alone, Within, Below, Exists, Pending
<1>4. lapsed[d] = 0 => accepted[d] <= doubt[d] /\ Holding(d) = {s}
  BY <1>1, RowNumbers DEF RowSound, Alone, Told, Reporting
<1>5. Told(d)'
  BY <1>1, <1>4, RowNumbers DEF Told
<1>. QED
  BY <1>3, <1>5 DEF RowSound

\* A result is written by one that held the row, and nobody holds it longer.
LEMMA WriteSound ==
  ASSUME HookTypes, HookTypes', NEW d \in Deliveries, RowSound(d), RowIsWritten(d)
  PROVE  RowSound(d)'
<1>1. PICK s \in Senders :
        /\ sender[s].pc = "write" /\ Left(d, s) /\ CountsStay(d)
        /\ IF Exists(d) THEN Written(d, s) ELSE delivery'[d] = delivery[d]
  BY DEF RowIsWritten
<1>2. s \in Holding(d) /\ Holding(d)' = Holding(d) \ {s} /\ \A t \in Holding(d)' : sender'[t] = sender[t]
  BY <1>1 DEF Left, StayBut
<1>3. Exists(d)' => Exists(d)
  BY <1>1 DEF Exists
<1>4. Exists(d) =>
        /\ delivery'[d].attempts = delivery[d].attempts
        /\ delivery'[d].due = TRUE => delivery[d].due = TRUE
        /\ \/ delivery'[d].status # "pending" /\ sender[s].result \in {"delivered", "failed", "skipped", "again"}
           \/ /\ delivery'[d].status = "pending" /\ sender[s].result = "again" /\ delivery'[d].due = FALSE
              /\ sender[s].attempt < MaxDeliveries
  BY <1>1 DEF Written, RestedRow, GivenUpRow, RetriedRow
<1>5. Behind(d)'
  BY <1>1, <1>2, <1>3, <1>4 DEF RowSound, Behind, BehindOne, Within, Below, CountsStay, Pending
<1>6. Counted(d)'
  BY <1>1, <1>2, <1>3, <1>4, RowNumbers DEF RowSound, Behind, BehindOne, Counted, Within, Below, CountsStay, Pending
<1>7. Alone(d)'
  BY <1>1, <1>2, <1>3, <1>4 DEF RowSound, Alone, CountsStay, Pending
<1>8. lapsed[d] = 0 => Holding(d)' = {}
  BY <1>2 DEF RowSound, Alone
<1>9. lapsed[d] = 0 /\ accepted[d] > doubt[d] => sender[s].result = "delivered"
  BY <1>2 DEF RowSound, Told, Reporting
<1>10. Told(d)'
  BY <1>1, <1>2, <1>3, <1>4, <1>8, <1>9 DEF RowSound, Told, CountsStay, Pending
<1>. QED
  BY <1>5, <1>6, <1>7, <1>10 DEF RowSound

\* A holder that dies is a lapse.
LEMMA LossSound ==
  ASSUME HookTypes, HookTypes', NEW d \in Deliveries, RowSound(d), RowIsLost(d)
  PROVE  RowSound(d)'
<1>1. PICK s \in Senders :
        /\ Left(d, s) /\ delivery'[d] = delivery[d]
        /\ accepted'[d] = accepted[d] /\ doubt'[d] = doubt[d] /\ lapsed'[d] = lapsed[d] + 1
  BY DEF RowIsLost
<1>2. Holding(d)' \subseteq Holding(d) /\ \A t \in Holding(d)' : sender'[t] = sender[t]
  BY <1>1 DEF Left, StayBut
<1>3. Behind(d)' /\ Counted(d)'
  BY <1>1, <1>2, RowNumbers DEF RowSound, Behind, BehindOne, Counted, Within, Below, Exists, Pending
<1>4. Alone(d)' /\ Told(d)'
  BY <1>1, RowNumbers DEF Alone, Told
<1>. QED
  BY <1>3, <1>4 DEF RowSound

\* A row comes due, and that is a lapse when somebody holds it.
LEMMA DueSound ==
  ASSUME HookTypes, HookTypes', NEW d \in Deliveries, RowSound(d), RowComesDue(d)
  PROVE  RowSound(d)'
<1>1. /\ Exists(d) /\ Pending(d) /\ ~delivery[d].due
      /\ Holding(d)' = Holding(d) /\ sender' = sender
      /\ accepted'[d] = accepted[d] /\ doubt'[d] = doubt[d]
      /\ lapsed'[d] = IF Holding(d) # {} THEN lapsed[d] + 1 ELSE lapsed[d]
  BY DEF RowComesDue
<1>2. /\ delivery'[d].attempts = delivery[d].attempts /\ delivery'[d].status = delivery[d].status
      /\ delivery'[d].due = TRUE
  BY DEF RowComesDue, DueRow
<1>3. Behind(d)' /\ Counted(d)'
  BY <1>1, <1>2, RowNumbers DEF RowSound, Behind, BehindOne, Counted, Within, Below, Pending
<1>4. Alone(d)' /\ Told(d)'
  BY <1>1, <1>2, RowNumbers DEF RowSound, Alone, Told, Pending
<1>. QED
  BY <1>3, <1>4 DEF RowSound

\* Whatever happens to a row, its invariants are kept.
LEMMA RowSoundStep ==
  ASSUME HookTypes, HookTypes', NEW d \in Deliveries, RowSound(d), RowStep(d)
  PROVE  RowSound(d)'
BY RestsSound, StartsSound, ClaimSound, SendSound, WriteSound, LossSound, DueSound DEF RowStep

\* A step that creates no row, adds only rows as they are to a list, and lets nobody begin to create.
CalmRow(d) == RowStep(d) /\ (delivery[d] = NoRow => delivery'[d] = NoRow)
ListsFollow == \A s \in Senders : \A x \in Todo(s)' :
  x \in Todo(s) \/ (delivery' = delivery /\ Exists(x[1]) /\ Dated(x))
Calm ==
  /\ \A d \in Deliveries : CalmRow(d)
  /\ ListsFollow /\ notified' = notified
  /\ \A s \in Senders : Doing(s, "create")' => sender'[s] = sender[s]

\* An entry that was of an older row stays so.
LEMMA DatedStep ==
  ASSUME HookTypes, HookTypes', NEW d \in Deliveries, CalmRow(d),
         NEW x \in Items, x[1] = d, Dated(x)
  PROVE  Dated(x)'
<1>1. Exists(d)' => Exists(d)
  BY DEF CalmRow, Exists
<1>2. Exists(d) => delivery[d].stamp \in Nat
  BY RowNumbers
<1>3. Exists(d)' =>
        \/ delivery'[d] = delivery[d]
        \/ delivery'[d].stamp = delivery[d].stamp + 1
        \/ /\ delivery'[d].stamp = delivery[d].stamp /\ delivery'[d].attempts = delivery[d].attempts
           /\ delivery'[d].due = delivery[d].due \/ delivery'[d].due = TRUE
  <2>1. CASE RowRests(d) \/ RowGoes(d) \/ RowIsSent(d) \/ RowIsLost(d)
    BY <2>1 DEF RowRests, RowGoes, RowIsSent, RowIsLost, Exists
  <2>2. CASE RowStarts(d)
    BY <2>2, <1>1 DEF RowStarts, Exists
  <2>3. CASE RowIsClaimed(d)
    BY <2>3 DEF RowIsClaimed, ClaimedRow
  <2>4. CASE RowIsWritten(d)
    BY <1>1, <2>4 DEF RowIsWritten, Written, RestedRow, GivenUpRow, RetriedRow
  <2>5. CASE RowComesDue(d)
    BY <2>5 DEF RowComesDue, DueRow
  <2>. QED
    BY <2>1, <2>2, <2>3, <2>4, <2>5 DEF CalmRow, RowStep
<1>4. x[2] \in Nat
  BY DEF Items
<1>5. x[1] = d
  OBVIOUS
<1>. QED
  BY <1>1, <1>2, <1>3, <1>4, <1>5 DEF Dated

\* Rows that nothing has happened to stay so.
LEMMA UntouchedStep ==
  ASSUME HookTypes, NEW d \in Deliveries, CalmRow(d), ListsFollow, Untouched(d)
  PROVE  Untouched(d)'
<1>1. delivery[d] = NoRow /\ ~Exists(d) /\ accepted[d] = 0 /\ Holding(d) = {}
  BY DEF Untouched, Exists
<1>2. delivery'[d] = NoRow /\ RowStep(d)
  BY <1>1 DEF CalmRow
<1>3. ~RowIsClaimed(d) /\ ~RowIsSent(d) /\ ~RowIsWritten(d) /\ ~RowIsLost(d) /\ ~RowComesDue(d)
  BY <1>1 DEF RowIsClaimed, RowIsSent, RowIsWritten, RowIsLost, RowComesDue, Left
<1>4. ~RowStarts(d)
  BY <1>2 DEF RowStarts, NewRow, NoRow
<1>5. accepted'[d] = 0 /\ Holding(d)' = {}
  BY <1>1, <1>2, <1>3, <1>4 DEF RowStep, RowRests, RowGoes, StillHeld, CountsStay
<1>6. \A s \in Senders : \A x \in Todo(s)' : x[1] # d
  BY <1>1 DEF Untouched, ListsFollow
<1>. QED
  BY <1>2, <1>5, <1>6 DEF Untouched

\* What a step that creates no row keeps, whoever begins to create.
LEMMA RowsStay ==
  ASSUME HooksInv, HookTypes', \A d \in Deliveries : CalmRow(d), ListsFollow
  PROVE  /\ EachRow' /\ ListsDated'
         /\ \A d \in Deliveries : Untouched(d) => Untouched(d)'
<1>0. HookTypes /\ ListsDated /\ EachRow
  BY DEF HooksInv
<1>1. EachRow'
  BY <1>0, RowSoundStep DEF EachRow, RowSound, CalmRow
<1>2. ListsDated'
  <2>. SUFFICES ASSUME NEW s \in Senders, NEW x \in Todo(s)'
                PROVE  Dated(x)'
    BY DEF ListsDated
  <2>1. x \in Items
    BY TodoAfterType
  <2>2. x[1] \in Deliveries
    BY <2>1 DEF Items
  <2>3. CASE x \in Todo(s)
    BY <1>0, <2>1, <2>2, <2>3, DatedStep DEF ListsDated
  <2>4. CASE delivery' = delivery /\ Exists(x[1]) /\ Dated(x)
    BY <2>4 DEF Dated, Exists
  <2>. QED
    BY <2>3, <2>4 DEF ListsFollow
<1>3. \A d \in Deliveries : Untouched(d) => Untouched(d)'
  BY <1>0, UntouchedStep
<1>. QED
  BY <1>1, <1>2, <1>3

\* A calm step keeps the invariant.
LEMMA CalmStep ==
  ASSUME HooksInv, HookTypes', Calm
  PROVE  HooksInv'
<1>0. HookTypes /\ CreatedOnce
  BY DEF HooksInv
<1>1. EachRow' /\ ListsDated' /\ \A d \in Deliveries : Untouched(d) => Untouched(d)'
  BY RowsStay DEF Calm
<1>4. CreatedOnce'
  <2>1. \A n \in Notes \ notified' : \A i \in Hooks : Untouched(<<n, i>>)'
    BY <1>0, <1>1 DEF CreatedOnce, Calm, Deliveries
  <2>2. ASSUME NEW s \in Senders, Doing(s, "create")'
        PROVE  Starting(s)'
    <3>0. sender'[s] = sender[s] /\ notified' = notified
      BY <2>2 DEF Calm
    <3>1. sender'[s] = sender[s] /\ Doing(s, "create") /\ notified' = notified
      BY <2>2, <3>0 DEF Doing
    <3>2. Starting(s) /\ sender[s].note \in Notes
      BY <1>0, <3>1, SenderKinds DEF CreatedOnce, AStarter, Doing
    <3>n. PICK n \in Notes : n = sender[s].note /\ n = sender'[s].note
      BY <3>1, <3>2
    <3>3. \A i \in Hooks : <<n, i>> \in Deliveries /\ Untouched(<<n, i>>)
      BY <3>2, <3>n DEF Starting, Deliveries
    <3>5. \A i \in Hooks : Untouched(<<n, i>>)'
      BY <1>1, <3>3
    <3>4. \A t \in Senders \ {s} : Doing(t, "create")' => sender'[t].note # sender'[s].note
      <4>. SUFFICES ASSUME NEW t \in Senders \ {s}, Doing(t, "create")'
                    PROVE  sender'[t].note # sender'[s].note
        OBVIOUS
      <4>1. sender'[t] = sender[t]
        BY DEF Calm
      <4>2. Doing(t, "create")
        BY <4>1 DEF Doing
      <4>. QED
        BY <3>1, <3>2, <4>1, <4>2 DEF Starting
    <3>. QED
      BY <3>1, <3>2, <3>n, <3>4, <3>5 DEF Starting
  <2>. QED
    BY <2>1, <2>2 DEF CreatedOnce
<1>. QED
  BY <1>1, <1>4 DEF HooksInv

\* The record of everybody else stays when a sender moves on.
LEMMA OthersStay ==
  ASSUME HookTypes, NEW s \in Senders, NEW x, Does(s, x)
  PROVE  /\ sender'[s] = x
         /\ \A t \in Senders \ {s} : sender'[t] = sender[t]
         /\ \A d \in Deliveries : StayBut(d, s)
<1>1. sender'[s] = x /\ \A t \in Senders \ {s} : sender'[t] = sender[t]
  BY DEF Does, HookTypes
<1>2. \A d \in Deliveries : Holding(d) \subseteq Senders
  BY DEF Holding
<1>. QED
  BY <1>1, <1>2 DEF StayBut

\* A row that a sender does not work on rests.
LEMMA Bystander ==
  ASSUME HookTypes, NEW s \in Senders, NEW x, Does(s, x), NEW d \in Deliveries,
         s \notin Holding(d), ~(x.pc \in {"look", "send", "write"} /\ x.row = d),
         CountsStay(d), delivery'[d] = delivery[d]
  PROVE  RowRests(d)
<1>1. Holding(d)' = Holding(d)
  BY HoldingAfter
<1>2. \A t \in Holding(d) : sender'[t] = sender[t]
  BY OthersStay DEF StayBut
<1>3. StillHeld(d)
  BY <1>1, <1>2 DEF StillHeld, Reporting
<1>. QED
  BY <1>3 DEF RowRests

\* The lists of the others stay; that of the sender that moved on is checked.
LEMMA ListsAfter ==
  ASSUME HookTypes, NEW s \in Senders, NEW x, Does(s, x),
         \A y \in Todo(s)' : y \in Todo(s) \/ (delivery' = delivery /\ Exists(y[1]) /\ Dated(y))
  PROVE  ListsFollow
<1>. SUFFICES ASSUME NEW t \in Senders, NEW y \in Todo(t)'
              PROVE  y \in Todo(t) \/ (delivery' = delivery /\ Exists(y[1]) /\ Dated(y))
  BY DEF ListsFollow
<1>1. CASE t = s
  BY <1>1
<1>2. CASE t # s
  BY <1>2, TodoAfter
<1>. QED
  BY <1>1, <1>2

\* Steps of a sender that holds no row and takes none.
LEMMA FreeStep ==
  ASSUME HooksInv, HookTypes', NEW s \in Senders, NEW x, Does(s, x),
         sender[s].pc \notin {"look", "send", "write"}, x.pc \notin {"look", "send", "write", "create"},
         UNCHANGED <<delivery, notified, accepted, doubt, lapsed>>,
         \A y \in Todo(s)' : y \in Todo(s) \/ (Exists(y[1]) /\ Dated(y))
  PROVE  HooksInv'
<1>0. HookTypes
  BY DEF HooksInv
<1>1. ASSUME NEW d \in Deliveries
      PROVE  CalmRow(d)
  <2>1. s \notin Holding(d)
    BY DEF Holding
  <2>2. RowRests(d)
    BY <1>0, <2>1, Bystander DEF CountsStay
  <2>. QED
    BY <2>2 DEF CalmRow, RowStep
<1>2. ListsFollow
  BY <1>0, ListsAfter
<1>3. \A t \in Senders : Doing(t, "create")' => sender'[t] = sender[t]
  BY <1>0, OthersStay DEF Doing
<1>. QED
  BY <1>1, <1>2, <1>3, CalmStep DEF Calm

\* A caller begins to announce a note with nothing in hand.
LEMMA AnnounceKeeps ==
  ASSUME HooksInv, HookTypes', NEW s \in Senders, NEW n \in Notes, notifyNoteReady(s, n)
  PROVE  HooksInv'
<1>0. HookTypes
  BY DEF HooksInv
<1>1. PICK x : Does(s, x) /\ x.pc \in {"idle", "claim-note"}
  BY DEF notifyNoteReady, Resting
<1>2. sender[s].pc = "idle" /\ UNCHANGED <<delivery, notified, accepted, doubt, lapsed>>
  BY DEF notifyNoteReady, Doing, hookHistory
<1>3. Todo(s)' = {}
  BY <1>0, <1>1, TodoAfter
<1>. QED
  BY <1>0, <1>1, <1>2, <1>3, FreeStep

\* A pass of the maintenance begins with nothing in hand.
LEMMA MaintenanceKeeps ==
  ASSUME HooksInv, HookTypes', NEW s \in Senders, runIntegrationMaintenance(s)
  PROVE  HooksInv'
<1>0. HookTypes
  BY DEF HooksInv
<1>1. PICK x : Does(s, x) /\ x.pc = "read"
  BY DEF runIntegrationMaintenance
<1>2. sender[s].pc = "idle" /\ UNCHANGED <<delivery, notified, accepted, doubt, lapsed>>
  BY DEF runIntegrationMaintenance, Doing, hookHistory
<1>3. Todo(s)' = {}
  BY <1>0, <1>1, TodoAfter
<1>. QED
  BY <1>0, <1>1, <1>2, <1>3, FreeStep

\* The rows a pass reads are entered as they are.
LEMMA ReadKeeps ==
  ASSUME HooksInv, HookTypes', NEW s \in Senders, readDue(s)
  PROVE  HooksInv'
<1>0. HookTypes
  BY DEF HooksInv
<1>1. PICK S \in SUBSET {d \in Deliveries : Exists(d) /\ Pending(d) /\ delivery[d].due} :
        Does(s, Batch(s, {<<d, delivery[d].stamp, delivery[d].attempts>> : d \in S}))
  BY DEF readDue
<1>2. sender[s].pc = "read" /\ UNCHANGED <<delivery, notified, accepted, doubt, lapsed>>
  BY DEF readDue, Doing, hookHistory
<1>3. PICK L : L = {<<d, delivery[d].stamp, delivery[d].attempts>> : d \in S}
  OBVIOUS
<1>4. \A y \in L : Exists(y[1]) /\ Dated(y)
  <2>. SUFFICES ASSUME NEW d \in S
                PROVE  Exists(d) /\ Dated(<<d, delivery[d].stamp, delivery[d].attempts>>)
    BY <1>3
  <2>1. Exists(d) /\ delivery[d].due /\ delivery[d].stamp \in Nat
    BY <1>0, RowNumbers
  <2>. QED
    BY <2>1 DEF Dated
<1>5. PICK x : x = Batch(s, L)
  OBVIOUS
<1>6. x.pc \in {"idle", "claim"} /\ (x.pc = "claim" => x.todo = L)
  BY <1>5 DEF Batch, Resting
<1>7. Does(s, x)
  BY <1>1, <1>3, <1>5
<1>8. \A y \in Todo(s)' : y \in L
  BY <1>0, <1>6, <1>7, TodoAfter
<1>. QED
  BY <1>2, <1>4, <1>6, <1>7, <1>8, FreeStep

\* A claim takes a row that is as it was read.
LEMMA ClaimKeeps ==
  ASSUME HooksInv, HookTypes', NEW s \in Senders, claimDelivery(s)
  PROVE  HooksInv'
<1>0. HookTypes /\ ListsDated
  BY DEF HooksInv
<1>1. sender[s].pc = "claim" /\ UNCHANGED <<notified, accepted, doubt, lapsed>>
  BY DEF claimDelivery, Doing, hookHistory
<1>2. sender[s] \in APass
  BY <1>0, <1>1, SenderKinds
<1>3. PICK y \in sender[s].todo, L \in SUBSET sender[s].todo : L = sender[s].todo \ {y} /\
        IF claimable(y[1], y[2])
        THEN /\ delivery' = [delivery EXCEPT ![y[1]] = leased(@)]
             /\ Does(s, [pc |-> "look", row |-> y[1], attempt |-> y[3] + 1, todo |-> L])
        ELSE Does(s, Batch(s, L)) /\ UNCHANGED delivery
  BY DEF claimDelivery
<1>4. y \in Todo(s) /\ L \subseteq Todo(s) /\ y \in Items
  BY <1>1, <1>2, <1>3 DEF Todo, APass
<1>5. CASE ~claimable(y[1], y[2])
  <2>1. PICK x : x = Batch(s, L)
    OBVIOUS
  <2>2. x.pc \in {"idle", "claim"} /\ (x.pc = "claim" => x.todo = L) /\ Does(s, x) /\ UNCHANGED delivery
    BY <1>3, <1>5, <2>1 DEF Batch, Resting
  <2>3. \A z \in Todo(s)' : z \in Todo(s)
    BY <1>0, <1>4, <2>2, TodoAfter
  <2>. QED
    BY <1>1, <2>2, <2>3, FreeStep
<1>6. CASE claimable(y[1], y[2])
  <2>1. PICK d : d = y[1]
    OBVIOUS
  <2>2. d \in Deliveries /\ Exists(d) /\ Pending(d) /\ delivery[d].stamp = y[2]
    BY <1>4, <1>6, <2>1 DEF Items, claimable
  <2>3. delivery[d].due /\ y[3] = delivery[d].attempts
    BY <1>0, <1>4, <2>1, <2>2 DEF ListsDated, Dated
  <2>4. delivery[d] \in ARow
    BY <1>0, <2>2, RowNumbers
  <2>5. delivery' = [delivery EXCEPT ![d] = leased(@)]
    BY <1>3, <1>6, <2>1, Zenon
  <2>6. delivery' = [delivery EXCEPT ![d] = ClaimedRow(delivery[d])]
    <3>1. leased(delivery[d]) = ClaimedRow(delivery[d])
      BY <2>4, RowUpdates, Zenon DEF leased
    <3>. QED
      BY <2>5, <3>1, Zenon
  <2>7. delivery'[d] = ClaimedRow(delivery[d]) /\ \A e \in Deliveries \ {d} : delivery'[e] = delivery[e]
    BY <1>0, <2>2, <2>6 DEF HookTypes
  <2>8. PICK x : x = [pc |-> "look", row |-> d, attempt |-> y[3] + 1, todo |-> L]
    OBVIOUS
  <2>9. Does(s, x) /\ x.pc = "look" /\ x.row = d /\ x.attempt = y[3] + 1 /\ x.todo = L
    BY <1>3, <1>6, <2>1, <2>8
  <2>10. s \notin Holding(d) /\ \A e \in Deliveries : s \notin Holding(e)
    BY <1>1, <2>2 DEF Holding
  <2>11. sender'[s] = x /\ StayBut(d, s) /\ \A t \in Senders \ {s} : sender'[t] = sender[t]
    BY <1>0, <2>2, <2>9, OthersStay
  <2>12. Holding(d)' = Holding(d) \cup {s}
    BY <1>0, <2>9, <2>10, HoldingAfter
  <2>13. RowIsClaimed(d)
    BY <1>1, <2>2, <2>3, <2>7, <2>9, <2>10, <2>11, <2>12 DEF RowIsClaimed, CountsStay
  <2>14. ASSUME NEW e \in Deliveries
         PROVE  CalmRow(e)
    <3>1. CASE e = d
      BY <2>2, <2>13, <3>1 DEF CalmRow, RowStep, Exists
    <3>2. CASE e # d
      <4>1. RowRests(e)
        BY <1>0, <1>1, <2>7, <2>9, <2>10, <3>2, Bystander DEF CountsStay
      <4>2. delivery'[e] = delivery[e]
        BY <2>7, <3>2
      <4>. QED
        BY <4>1, <4>2 DEF CalmRow, RowStep
    <3>. QED
      BY <3>1, <3>2
  <2>15. ListsFollow
    BY <1>0, <1>4, <2>9, TodoAfter, ListsAfter
  <2>16. \A t \in Senders : Doing(t, "create")' => sender'[t] = sender[t]
    BY <2>9, <2>11 DEF Doing
  <2>. QED
    BY <1>1, <2>14, <2>15, <2>16, CalmStep DEF Calm
<1>. QED
  BY <1>5, <1>6

\* A holder goes on holding its row, and its list stays.
LEMMA HolderMoves ==
  ASSUME HookTypes, NEW s \in Senders, NEW x, Does(s, x), NEW d \in Deliveries,
         sender[s].pc \in {"look", "send", "write"}, sender[s].row = d,
         x.pc \in {"look", "send", "write"}, x.row = d, x.todo = sender[s].todo
  PROVE  /\ s \in Holding(d) /\ Holding(d)' = Holding(d) /\ sender'[s] = x /\ StayBut(d, s)
         /\ \A e \in Deliveries \ {d} :
              delivery' = delivery /\ CountsStay(e) => RowRests(e)
         /\ ListsFollow
         /\ \A t \in Senders : Doing(t, "create")' => sender'[t] = sender[t]
<1>1. s \in Holding(d)
  BY DEF Holding
<1>2. Holding(d)' = Holding(d)
  <2>1. Holding(d)' = {t \in Holding(d) : t # s} \cup {s}
    BY HoldingAfter
  <2>. QED
    BY <1>1, <2>1
<1>3. sender'[s] = x /\ StayBut(d, s) /\ \A t \in Senders \ {s} : sender'[t] = sender[t]
  BY OthersStay
<1>4. ASSUME NEW e \in Deliveries \ {d}, delivery' = delivery, CountsStay(e)
      PROVE  RowRests(e)
  <2>1. s \notin Holding(e)
    BY DEF Holding
  <2>. QED
    BY <1>4, <2>1, Bystander
<1>5. Todo(s)' = Todo(s)
  BY TodoAfter DEF Todo
<1>6. ListsFollow
  BY <1>5, ListsAfter
<1>7. \A t \in Senders : Doing(t, "create")' => sender'[t] = sender[t]
  BY <1>3 DEF Doing
<1>. QED
  BY <1>1, <1>2, <1>3, <1>4, <1>6, <1>7

\* Looking at the integration and the note changes nothing of the row.
LEMMA LookKeeps ==
  ASSUME HooksInv, HookTypes', NEW s \in Senders, lookUp(s)
  PROVE  HooksInv'
<1>0. HookTypes
  BY DEF HooksInv
<1>1. sender[s].pc = "look" /\ UNCHANGED <<delivery, notified, accepted, doubt, lapsed>>
  BY DEF lookUp, Doing, hookHistory
<1>2. sender[s] \in AHolder
  BY <1>0, <1>1, SenderKinds
<1>3. PICK d \in Deliveries : sender[s].row = d
  BY <1>2 DEF AHolder
<1>4. \E x : /\ Does(s, x) /\ x.pc \in {"send", "write"} /\ x.row = sender[s].row /\ x.attempt = sender[s].attempt
             /\ x.todo = sender[s].todo
  <2>1. /\ [sender[s] EXCEPT !.pc = "send"].pc = "send" /\ [sender[s] EXCEPT !.pc = "send"].row = sender[s].row
        /\ [sender[s] EXCEPT !.pc = "send"].attempt = sender[s].attempt
        /\ [sender[s] EXCEPT !.pc = "send"].todo = sender[s].todo
    BY <1>2 DEF AHolder
  <2>2. \/ Does(s, [sender[s] EXCEPT !.pc = "send"])
        \/ \E f : Does(s, [pc |-> "write", row |-> sender[s].row, attempt |-> sender[s].attempt,
                          result |-> f, todo |-> sender[s].todo])
    BY DEF lookUp
  <2>3. CASE Does(s, [sender[s] EXCEPT !.pc = "send"])
    BY <2>1, <2>3
  <2>4. ASSUME NEW f, Does(s, [pc |-> "write", row |-> sender[s].row, attempt |-> sender[s].attempt,
                               result |-> f, todo |-> sender[s].todo])
        PROVE  \E x : /\ Does(s, x) /\ x.pc \in {"send", "write"} /\ x.row = sender[s].row
                      /\ x.attempt = sender[s].attempt /\ x.todo = sender[s].todo
    <3>1. PICK x : x = [pc |-> "write", row |-> sender[s].row, attempt |-> sender[s].attempt,
                        result |-> f, todo |-> sender[s].todo]
      OBVIOUS
    <3>2. x.pc = "write" /\ x.row = sender[s].row /\ x.attempt = sender[s].attempt /\ x.todo = sender[s].todo
      BY <3>1
    <3>. QED
      BY <2>4, <3>1, <3>2
  <2>. QED
    BY <2>2, <2>3, <2>4
<1>5. PICK x : /\ Does(s, x) /\ x.pc \in {"send", "write"} /\ x.row = sender[s].row /\ x.attempt = sender[s].attempt
               /\ x.todo = sender[s].todo
  BY <1>4
<1>6. /\ Holding(d)' = Holding(d) /\ sender'[s] = x /\ StayBut(d, s)
      /\ \A e \in Deliveries \ {d} : RowRests(e)
      /\ ListsFollow /\ \A t \in Senders : Doing(t, "create")' => sender'[t] = sender[t]
  BY <1>0, <1>1, <1>3, <1>5, HolderMoves DEF CountsStay
<1>7. \A t \in Holding(d) : sender'[t].attempt = sender[t].attempt /\ (Reporting(t) => Reporting(t)')
  BY <1>1, <1>5, <1>6 DEF StayBut, Reporting
<1>8. RowRests(d)
  BY <1>1, <1>6, <1>7 DEF RowRests, StillHeld, CountsStay
<1>9. \A e \in Deliveries : CalmRow(e)
  BY <1>1, <1>6, <1>8 DEF CalmRow, RowStep
<1>. QED
  BY <1>1, <1>6, <1>9, CalmStep DEF Calm

\* The request.
LEMMA SendKeeps ==
  ASSUME HooksInv, HookTypes', NEW s \in Senders, defaultSender(s)
  PROVE  HooksInv'
<1>0. HookTypes
  BY DEF HooksInv
<1>1. sender[s].pc = "send" /\ UNCHANGED <<delivery, notified, lapsed>>
  BY DEF defaultSender, Doing, hookHistory
<1>2. sender[s] \in AHolder
  BY <1>0, <1>1, SenderKinds
<1>3. PICK d \in Deliveries : sender[s].row = d
  BY <1>2 DEF AHolder
<1>4. PICK taken \in BOOLEAN, answered \in BOOLEAN :
        /\ accepted' = IF taken THEN [accepted EXCEPT ![d] = @ + 1] ELSE accepted
        /\ doubt' = IF taken /\ ~answered THEN [doubt EXCEPT ![d] = @ + 1] ELSE doubt
        /\ Does(s, [pc |-> "write", row |-> d, attempt |-> sender[s].attempt,
                    result |-> IF taken /\ answered THEN "delivered" ELSE "again", todo |-> sender[s].todo])
  BY <1>3 DEF defaultSender
<1>5. PICK x : x = [pc |-> "write", row |-> d, attempt |-> sender[s].attempt,
                    result |-> IF taken /\ answered THEN "delivered" ELSE "again", todo |-> sender[s].todo]
  OBVIOUS
<1>6. /\ Does(s, x) /\ x.pc = "write" /\ x.row = d /\ x.attempt = sender[s].attempt /\ x.todo = sender[s].todo
      /\ x.result = IF taken /\ answered THEN "delivered" ELSE "again"
  BY <1>4, <1>5
<1>7. \A e \in Deliveries \ {d} : CountsStay(e)
  BY <1>0, <1>1, <1>4 DEF CountsStay, HookTypes
<1>8. /\ s \in Holding(d) /\ Holding(d)' = Holding(d) /\ sender'[s] = x /\ StayBut(d, s)
      /\ \A e \in Deliveries \ {d} : RowRests(e)
      /\ ListsFollow /\ \A t \in Senders : Doing(t, "create")' => sender'[t] = sender[t]
  BY <1>0, <1>1, <1>3, <1>6, <1>7, HolderMoves
<1>9. \/ accepted'[d] = accepted[d] + 1 /\ doubt'[d] = doubt[d] /\ Reporting(s)'
      \/ accepted'[d] = accepted[d] + 1 /\ doubt'[d] = doubt[d] + 1
      \/ accepted'[d] = accepted[d] /\ doubt'[d] = doubt[d]
  BY <1>0, <1>4, <1>6, <1>8 DEF Reporting, HookTypes
<1>10. RowIsSent(d)
  BY <1>1, <1>6, <1>8, <1>9 DEF RowIsSent
<1>11. \A e \in Deliveries : CalmRow(e)
  BY <1>1, <1>8, <1>10 DEF CalmRow, RowStep
<1>. QED
  BY <1>1, <1>8, <1>11, CalmStep DEF Calm

\* A sender gives its row up: its record no longer holds one.
LEMMA HolderLeaves ==
  ASSUME HookTypes, NEW s \in Senders, NEW x, Does(s, x), NEW d \in Deliveries,
         sender[s].pc \in {"look", "send", "write"}, sender[s].row = d,
         x.pc \in {"idle", "claim"}, x.pc = "claim" => x.todo = sender[s].todo
  PROVE  /\ Left(d, s)
         /\ \A e \in Deliveries \ {d} : delivery'[e] = delivery[e] /\ CountsStay(e) => RowRests(e)
         /\ ListsFollow
         /\ \A t \in Senders : Doing(t, "create")' => sender'[t] = sender[t]
<1>1. s \in Holding(d)
  BY DEF Holding
<1>2. Holding(d)' = {t \in Holding(d) : t # s}
  BY HoldingAfter
<1>3. sender'[s] = x /\ StayBut(d, s) /\ \A t \in Senders \ {s} : sender'[t] = sender[t]
  BY OthersStay
<1>4. ASSUME NEW e \in Deliveries \ {d}, delivery'[e] = delivery[e], CountsStay(e)
      PROVE  RowRests(e)
  <2>1. s \notin Holding(e)
    BY DEF Holding
  <2>. QED
    BY <1>4, <2>1, Bystander
<1>5. \A y \in Todo(s)' : y \in Todo(s)
  BY TodoAfter DEF Todo
<1>6. ListsFollow
  BY <1>5, ListsAfter
<1>7. \A t \in Senders : Doing(t, "create")' => sender'[t] = sender[t]
  BY <1>3 DEF Doing
<1>. QED
  BY <1>1, <1>2, <1>3, <1>4, <1>6, <1>7 DEF Left

\* The result of a delivery is written to its row, if there is one.
LEMMA WriteKeeps ==
  ASSUME HooksInv, HookTypes', NEW s \in Senders, writeResult(s)
  PROVE  HooksInv'
<1>0. HookTypes
  BY DEF HooksInv
<1>1. sender[s].pc = "write" /\ UNCHANGED <<notified, accepted, doubt, lapsed>>
  BY DEF writeResult, Doing, hookHistory
<1>2. sender[s] \in AWriter
  BY <1>0, <1>1, SenderKinds
<1>3. PICK d \in Deliveries : sender[s].row = d
  BY <1>2 DEF AWriter
<1>4. /\ ~Exists(d) => Does(s, Resting) /\ delivery' = delivery
      /\ Exists(d) => /\ delivery' = [delivery EXCEPT ![d] = finished(@, sender[s].result, sender[s].attempt)]
                      /\ Does(s, Batch(s, sender[s].todo))
  BY <1>3 DEF writeResult
<1>5. PICK x : /\ Does(s, x) /\ x.pc \in {"idle", "claim"} /\ (x.pc = "claim" => x.todo = sender[s].todo)
  BY <1>4 DEF Batch, Resting
<1>6. \A e \in Deliveries : CountsStay(e)
  BY <1>1 DEF CountsStay
<1>7. \A e \in Deliveries \ {d} : delivery'[e] = delivery[e]
  BY <1>0, <1>4 DEF HookTypes
<1>8. /\ Left(d, s) /\ \A e \in Deliveries \ {d} : RowRests(e)
      /\ ListsFollow /\ \A t \in Senders : Doing(t, "create")' => sender'[t] = sender[t]
  BY <1>0, <1>1, <1>3, <1>5, <1>6, <1>7, HolderLeaves
<1>9. Exists(d) => Written(d, s)
  <2>. SUFFICES ASSUME Exists(d)
                PROVE  Written(d, s)
    OBVIOUS
  <2>1. delivery[d] \in ARow
    BY <1>0, RowNumbers
  <2>2. PICK r : r = finished(delivery[d], sender[s].result, sender[s].attempt)
    OBVIOUS
  <2>3. delivery'[d] = r
    BY <1>0, <1>4, <2>2 DEF HookTypes
  <2>4. sender[s].result \in {"delivered", "failed", "skipped", "again"} /\ sender[s].attempt \in Nat
    BY <1>2 DEF AWriter
  <2>5. CASE sender[s].result # "again"
    <3>1. r = RestedRow(delivery[d], sender[s].result)
      BY <2>1, <2>2, <2>4, <2>5, RowUpdates DEF finished
    <3>. QED
      BY <2>3, <2>4, <2>5, <3>1 DEF Written
  <2>6. CASE sender[s].result = "again" /\ sender[s].attempt >= MaxDeliveries
    <3>1. r = GivenUpRow(delivery[d])
      BY <2>1, <2>2, <2>6, RowUpdates, Zenon DEF finished
    <3>. QED
      BY <2>3, <2>6, <3>1 DEF Written
  <2>7. CASE sender[s].result = "again" /\ ~(sender[s].attempt >= MaxDeliveries)
    <3>1. r = RetriedRow(delivery[d])
      BY <2>1, <2>2, <2>7, RowUpdates, Zenon DEF finished
    <3>. QED
      BY <2>3, <2>4, <2>7, <3>1, DeliveryAssumption DEF Written
  <2>. QED
    BY <2>5, <2>6, <2>7
<1>10. RowIsWritten(d)
  BY <1>1, <1>4, <1>6, <1>8, <1>9 DEF RowIsWritten
<1>11. delivery[d] = NoRow => delivery'[d] = NoRow
  BY <1>4 DEF Exists
<1>12. \A e \in Deliveries : CalmRow(e)
  BY <1>7, <1>8, <1>10, <1>11 DEF CalmRow, RowStep
<1>. QED
  BY <1>1, <1>8, <1>12, CalmStep DEF Calm

\* A sender that dies lets its claim lapse.
LEMMA DeathKeeps ==
  ASSUME HooksInv, HookTypes', NEW s \in Senders, SenderDies(s)
  PROVE  HooksInv'
<1>0. HookTypes
  BY DEF HooksInv
<1>1. Does(s, Resting) /\ UNCHANGED <<delivery, notified, accepted, doubt>>
  BY DEF SenderDies
<1>2. \A d \in Deliveries : lapsed'[d] = IF s \in Holding(d) THEN lapsed[d] + 1 ELSE lapsed[d]
  BY DEF SenderDies
<1>3. PICK x : x = Resting
  OBVIOUS
<1>4. x.pc = "idle" /\ Does(s, x)
  BY <1>1, <1>3 DEF Resting
<1>5. sender'[s] = x /\ \A t \in Senders \ {s} : sender'[t] = sender[t]
  BY <1>0, <1>4, OthersStay
<1>6. ASSUME NEW d \in Deliveries
      PROVE  CalmRow(d)
  <2>1. CASE s \in Holding(d)
    <3>1. Holding(d)' = {t \in Holding(d) : t # s}
      BY <1>0, <1>4, HoldingAfter
    <3>2. Left(d, s)
      BY <1>0, <1>4, <2>1, <3>1, OthersStay DEF Left
    <3>3. RowIsLost(d)
      BY <1>1, <1>2, <2>1, <3>2 DEF RowIsLost
    <3>. QED
      BY <1>1, <3>3 DEF CalmRow, RowStep
  <2>2. CASE s \notin Holding(d)
    <3>1. RowRests(d)
      BY <1>0, <1>1, <1>2, <1>4, <2>2, Bystander DEF CountsStay
    <3>. QED
      BY <1>1, <3>1 DEF CalmRow, RowStep
  <2>. QED
    BY <2>1, <2>2
<1>7. ListsFollow
  <2>1. Todo(s)' = {}
    BY <1>0, <1>4, TodoAfter
  <2>. QED
    BY <1>0, <1>4, <2>1, ListsAfter
<1>8. \A t \in Senders : Doing(t, "create")' => sender'[t] = sender[t]
  BY <1>4, <1>5 DEF Doing
<1>. QED
  BY <1>1, <1>6, <1>7, <1>8, CalmStep DEF Calm

\* Steps that leave the senders alone.
LEMMA SendersStay ==
  ASSUME UNCHANGED sender
  PROVE  /\ \A d : Holding(d)' = Holding(d)
         /\ ListsFollow
         /\ \A t \in Senders : Doing(t, "create")' => sender'[t] = sender[t]
         /\ \A d \in Deliveries : StillHeld(d)
<1>1. \A d : Holding(d)' = Holding(d)
  BY DEF Holding
<1>2. ListsFollow
  BY DEF ListsFollow, Todo
<1>3. \A d \in Deliveries : StillHeld(d)
  BY <1>1 DEF StillHeld, Reporting
<1>. QED
  BY <1>1, <1>2, <1>3

\* The time of a row comes.
LEMMA TimeKeeps ==
  ASSUME HooksInv, HookTypes', NEW d \in Deliveries, AttemptTimeComes(d)
  PROVE  HooksInv'
<1>0. HookTypes
  BY DEF HooksInv
<1>1. /\ Exists(d) /\ Pending(d) /\ ~delivery[d].due /\ UNCHANGED <<notified, sender, accepted, doubt>>
      /\ lapsed' = IF Holding(d) # {} THEN [lapsed EXCEPT ![d] = @ + 1] ELSE lapsed
  BY DEF AttemptTimeComes
<1>2. delivery' = [delivery EXCEPT ![d] = DueRow(delivery[d])]
  <2>1. delivery[d] \in ARow
    BY <1>0, <1>1, RowNumbers
  <2>2. [delivery[d] EXCEPT !.due = TRUE] = DueRow(delivery[d])
    BY <2>1, RowUpdates, Zenon
  <2>3. delivery' = [delivery EXCEPT ![d] = [delivery[d] EXCEPT !.due = TRUE]]
    BY Zenon DEF AttemptTimeComes
  <2>. QED
    BY <2>2, <2>3, Zenon
<1>3. delivery'[d] = DueRow(delivery[d]) /\ \A e \in Deliveries \ {d} : delivery'[e] = delivery[e]
  BY <1>0, <1>2 DEF HookTypes
<1>4. \A e \in Deliveries : lapsed'[e] = IF e = d /\ Holding(d) # {} THEN lapsed[e] + 1 ELSE lapsed[e]
  BY <1>0, <1>1 DEF HookTypes
<1>5. /\ Holding(d)' = Holding(d) /\ ListsFollow /\ \A e \in Deliveries : StillHeld(e)
      /\ \A t \in Senders : Doing(t, "create")' => sender'[t] = sender[t]
  BY <1>1, SendersStay
<1>6. RowComesDue(d)
  BY <1>1, <1>3, <1>4, <1>5 DEF RowComesDue
<1>7. ASSUME NEW e \in Deliveries
      PROVE  CalmRow(e)
  <2>1. CASE e = d
    BY <1>1, <1>6, <2>1 DEF CalmRow, RowStep, Exists
  <2>2. CASE e # d
    BY <1>1, <1>3, <1>4, <1>5, <2>2 DEF CalmRow, RowStep, RowRests, CountsStay
  <2>. QED
    BY <2>1, <2>2
<1>. QED
  BY <1>1, <1>5, <1>7, CalmStep DEF Calm

\* Rows go with their age or with their integration.
LEMMA RowsGoKeep ==
  ASSUME HooksInv, HookTypes', UNCHANGED <<notified, sender, accepted, doubt, lapsed>>,
         \A d \in Deliveries : delivery'[d] \in {delivery[d], NoRow}
  PROVE  HooksInv'
<1>1. ASSUME NEW d \in Deliveries
      PROVE  CalmRow(d)
  BY SendersStay DEF CalmRow, RowStep, RowRests, RowGoes, CountsStay
<1>. QED
  BY <1>1, SendersStay, CalmStep DEF Calm

\* The caller that announces a note finds it untouched.
LEMMA NoteClaimKeeps ==
  ASSUME HooksInv, HookTypes', NEW s \in Senders, claimNote(s)
  PROVE  HooksInv'
<1>0. HookTypes /\ CreatedOnce
  BY DEF HooksInv
<1>1. sender[s].pc = "claim-note" /\ UNCHANGED <<delivery, accepted, doubt, lapsed>>
  BY DEF claimNote, Doing, hookHistory
<1>2. sender[s] \in AStarter
  BY <1>0, <1>1, SenderKinds
<1>3. PICK n \in Notes : n = sender[s].note
  BY <1>2 DEF AStarter
<1>4. \/ Does(s, Resting) /\ notified' = notified
      \/ n \notin notified /\ notified' = notified \cup {n} /\ Does(s, [sender[s] EXCEPT !.pc = "create"])
  BY <1>3 DEF claimNote
<1>5. CASE Does(s, Resting) /\ notified' = notified
  <2>1. PICK x : x = Resting
    OBVIOUS
  <2>2. x.pc = "idle" /\ Does(s, x)
    BY <1>5, <2>1 DEF Resting
  <2>3. Todo(s)' = {}
    BY <1>0, <2>2, TodoAfter
  <2>. QED
    BY <1>1, <1>5, <2>2, <2>3, FreeStep
<1>6. CASE n \notin notified /\ notified' = notified \cup {n} /\ Does(s, [sender[s] EXCEPT !.pc = "create"])
  <2>1. PICK x : x = [sender[s] EXCEPT !.pc = "create"]
    OBVIOUS
  <2>2. x.pc = "create" /\ x.note = n /\ Does(s, x)
    BY <1>2, <1>3, <1>6, <2>1 DEF AStarter
  <2>3. sender'[s] = x /\ \A t \in Senders \ {s} : sender'[t] = sender[t]
    BY <1>0, <2>2, OthersStay
  <2>4. ASSUME NEW d \in Deliveries
        PROVE  CalmRow(d)
    <3>1. s \notin Holding(d)
      BY <1>1 DEF Holding
    <3>2. RowRests(d)
      BY <1>0, <1>1, <2>2, <3>1, Bystander DEF CountsStay
    <3>. QED
      BY <1>1, <3>2 DEF CalmRow, RowStep
  <2>5. ListsFollow
    <3>1. Todo(s)' = {}
      BY <1>0, <2>2, TodoAfter
    <3>. QED
      BY <1>0, <2>2, <3>1, ListsAfter
  <2>6. EachRow' /\ ListsDated' /\ \A d \in Deliveries : Untouched(d) => Untouched(d)'
    BY <2>4, <2>5, RowsStay
  <2>7. \A m \in Notes \ notified' : \A i \in Hooks : Untouched(<<m, i>>)'
    BY <1>0, <1>6, <2>6 DEF CreatedOnce, Deliveries
  <2>8. \A i \in Hooks : Untouched(<<n, i>>)'
    BY <1>0, <1>6, <2>6 DEF CreatedOnce, Deliveries
  <2>9. ASSUME NEW t \in Senders \ {s}, Doing(t, "create")'
        PROVE  Starting(t) /\ sender'[t] = sender[t] /\ sender'[t].note \in notified
    <3>1. sender'[t] = sender[t] /\ Doing(t, "create")
      BY <2>3, <2>9 DEF Doing
    <3>. QED
      BY <1>0, <3>1 DEF CreatedOnce, Starting
  <2>10. Starting(s)'
    <3>1. sender'[s].note = n /\ n \in notified'
      BY <1>6, <2>2, <2>3
    <3>2. \A t \in Senders \ {s} : Doing(t, "create")' => sender'[t].note # n
      BY <1>6, <2>9
    <3>. QED
      BY <2>8, <3>1, <3>2 DEF Starting
  <2>11. ASSUME NEW t \in Senders \ {s}, Doing(t, "create")'
         PROVE  Starting(t)'
    <3>1. Starting(t) /\ sender'[t] = sender[t] /\ sender'[t].note \in notified
      BY <2>9, <2>11
    <3>2. PICK m : m = sender[t].note
      OBVIOUS
    <3>3. m \in Notes /\ sender'[t].note = m /\ m \in notified' /\ m # n
      BY <1>0, <1>6, <3>1, <3>2 DEF HookTypes
    <3>4. \A i \in Hooks : Untouched(<<m, i>>)'
      BY <2>6, <3>1, <3>2, <3>3 DEF Starting, Deliveries
    <3>5. \A u \in Senders \ {t} : Doing(u, "create")' => sender'[u].note # m
      <4>. SUFFICES ASSUME NEW u \in Senders \ {t}, Doing(u, "create")'
                    PROVE  sender'[u].note # m
        OBVIOUS
      <4>1. CASE u = s
        BY <2>2, <2>3, <3>3, <4>1
      <4>2. CASE u # s
        <5>1. sender'[u] = sender[u]
          BY <2>3, <4>2
        <5>2. Doing(u, "create")
          BY <5>1 DEF Doing
        <5>. QED
          BY <3>1, <3>2, <5>1, <5>2 DEF Starting
      <4>. QED
        BY <4>1, <4>2
    <3>. QED
      BY <3>3, <3>4, <3>5 DEF Starting
  <2>12. CreatedOnce'
    BY <2>7, <2>10, <2>11 DEF CreatedOnce
  <2>. QED
    BY <2>6, <2>12 DEF HooksInv
<1>. QED
  BY <1>4, <1>5, <1>6

\* The rows of a note are created where nothing has happened yet.
LEMMA CreateKeeps ==
  ASSUME HooksInv, HookTypes', NEW s \in Senders, createDeliveries(s)
  PROVE  HooksInv'
<1>0. HookTypes /\ ListsDated /\ CreatedOnce /\ EachRow
  BY DEF HooksInv
<1>1. sender[s].pc = "create" /\ UNCHANGED <<notified, accepted, doubt, lapsed>>
  BY DEF createDeliveries, Doing, hookHistory
<1>2. sender[s] \in AStarter
  BY <1>0, <1>1, SenderKinds
<1>3. PICK n \in Notes, to \in SUBSET Hooks : n = sender[s].note /\ to = sender[s].to
  BY <1>2 DEF AStarter
<1>4. \/ Does(s, Resting) /\ delivery' = delivery
      \/ /\ delivery' = [d \in Deliveries |-> IF d[1] = n /\ d[2] \in to THEN NewRow ELSE delivery[d]]
         /\ Does(s, [pc |-> "read"])
  BY <1>3 DEF createDeliveries, NewRow
<1>5. CASE Does(s, Resting) /\ delivery' = delivery
  <2>1. PICK x : x = Resting
    OBVIOUS
  <2>2. x.pc = "idle" /\ Does(s, x)
    BY <1>5, <2>1 DEF Resting
  <2>3. Todo(s)' = {}
    BY <1>0, <2>2, TodoAfter
  <2>. QED
    BY <1>1, <1>5, <2>2, <2>3, FreeStep
<1>6. CASE /\ delivery' = [d \in Deliveries |-> IF d[1] = n /\ d[2] \in to THEN NewRow ELSE delivery[d]]
           /\ Does(s, [pc |-> "read"])
  <2>1. PICK x : x = [pc |-> "read"]
    OBVIOUS
  <2>2. x.pc = "read" /\ Does(s, x)
    BY <1>6, <2>1
  <2>3. sender'[s] = x /\ \A t \in Senders \ {s} : sender'[t] = sender[t]
    BY <1>0, <2>2, OthersStay
  <2>4. Starting(s)
    BY <1>0, <1>1 DEF CreatedOnce, Doing
  <2>5. n \in notified /\ \A i \in Hooks : Untouched(<<n, i>>)
    BY <1>3, <2>4 DEF Starting
  <2>6. ASSUME NEW d \in Deliveries
        PROVE  /\ Holding(d)' = Holding(d)
               /\ d[1] = n /\ d[2] \in to => Untouched(d) /\ RowStarts(d)
               /\ ~(d[1] = n /\ d[2] \in to) => RowRests(d) /\ delivery'[d] = delivery[d]
    <3>1. s \notin Holding(d)
      BY <1>1 DEF Holding
    <3>2. Holding(d)' = Holding(d)
      BY <1>0, <2>2, <3>1, HoldingAfter
    <3>3. CASE d[1] = n /\ d[2] \in to
      <4>1. Untouched(d)
        BY <2>5, <3>3 DEF Deliveries
      <4>2. delivery'[d] = NewRow
        BY <1>6, <3>3
      <4>. QED
        BY <1>1, <3>2, <3>3, <4>1, <4>2 DEF RowStarts, Untouched, CountsStay
    <3>4. CASE ~(d[1] = n /\ d[2] \in to)
      <4>1. delivery'[d] = delivery[d]
        BY <1>6, <3>4
      <4>2. RowRests(d)
        BY <1>0, <1>1, <2>2, <3>1, <4>1, Bystander DEF CountsStay
      <4>. QED
        BY <3>2, <3>4, <4>1, <4>2
    <3>. QED
      BY <3>3, <3>4
  <2>7. EachRow'
    <3>1. \A d \in Deliveries : RowStep(d)
      BY <2>6 DEF RowStep
    <3>. QED
      BY <1>0, <3>1, RowSoundStep DEF EachRow, RowSound
  <2>8. \A t \in Senders : Todo(t)' \subseteq Todo(t)
    BY <1>0, <2>2, TodoAfter
  <2>9. ListsDated'
    <3>. SUFFICES ASSUME NEW t \in Senders, NEW y \in Todo(t)'
                  PROVE  Dated(y)'
      BY DEF ListsDated
    <3>1. y \in Todo(t)
      BY <2>8
    <3>2. Dated(y) /\ y[1] \in Deliveries
      BY <1>0, <3>1, TodoType DEF ListsDated, Items
    <3>3. ~Untouched(y[1])
      BY <3>1 DEF Untouched
    <3>4. delivery'[y[1]] = delivery[y[1]]
      BY <2>6, <3>2, <3>3
    <3>. QED
      BY <3>2, <3>4 DEF Dated, Exists
  <2>10. ASSUME NEW d \in Deliveries, Untouched(d), d[1] # n
         PROVE  Untouched(d)'
    <3>1. delivery'[d] = delivery[d] /\ Holding(d)' = Holding(d) /\ accepted'[d] = accepted[d]
      BY <1>1, <2>6, <2>10
    <3>2. \A t \in Senders : \A y \in Todo(t)' : y[1] # d
      BY <2>8, <2>10 DEF Untouched
    <3>. QED
      BY <2>10, <3>1, <3>2 DEF Untouched
  <2>11. \A m \in Notes \ notified' : \A i \in Hooks : Untouched(<<m, i>>)'
    <3>. SUFFICES ASSUME NEW m \in Notes \ notified', NEW i \in Hooks
                  PROVE  Untouched(<<m, i>>)'
      OBVIOUS
    <3>1. m # n /\ Untouched(<<m, i>>) /\ <<m, i>> \in Deliveries
      BY <1>0, <1>1, <2>5 DEF CreatedOnce, Deliveries
    <3>2. PICK d \in Deliveries : d = <<m, i>>
      BY <3>1
    <3>3. Untouched(d) /\ d[1] # n
      BY <3>1, <3>2
    <3>4. Untouched(d)'
      BY <2>10, <3>3
    <3>. QED
      BY <3>2, <3>4
  <2>12. ASSUME NEW t \in Senders, Doing(t, "create")'
         PROVE  Starting(t)'
    <3>1. t # s /\ sender'[t] = sender[t] /\ Doing(t, "create")
      BY <2>2, <2>3, <2>12 DEF Doing
    <3>2. Starting(t)
      BY <1>0, <3>1 DEF CreatedOnce
    <3>3. PICK m : m = sender[t].note
      OBVIOUS
    <3>4. m \in Notes /\ m \in notified' /\ sender'[t].note = m /\ m # n
      BY <1>0, <1>1, <1>3, <2>4, <3>1, <3>2, <3>3 DEF HookTypes, Starting
    <3>5. \A i \in Hooks : Untouched(<<m, i>>)'
      <4>. SUFFICES ASSUME NEW i \in Hooks
                    PROVE  Untouched(<<m, i>>)'
        OBVIOUS
      <4>1. PICK d \in Deliveries : d = <<m, i>>
        BY <3>4 DEF Deliveries
      <4>2. Untouched(d) /\ d[1] # n
        BY <3>2, <3>3, <3>4, <4>1 DEF Starting
      <4>3. Untouched(d)'
        BY <2>10, <4>2
      <4>. QED
        BY <4>1, <4>3
    <3>6. \A u \in Senders \ {t} : Doing(u, "create")' => sender'[u].note # m
      <4>. SUFFICES ASSUME NEW u \in Senders \ {t}, Doing(u, "create")'
                    PROVE  sender'[u].note # m
        OBVIOUS
      <4>1. u # s /\ sender'[u] = sender[u] /\ Doing(u, "create")
        BY <2>2, <2>3 DEF Doing
      <4>. QED
        BY <3>2, <3>3, <4>1 DEF Starting
    <3>. QED
      BY <3>4, <3>5, <3>6 DEF Starting
  <2>13. CreatedOnce'
    BY <2>11, <2>12 DEF CreatedOnce
  <2>. QED
    BY <2>7, <2>9, <2>13 DEF HooksInv
<1>. QED
  BY <1>4, <1>5, <1>6

\* A sender's step keeps the types of the rows.
LEMMA RowTypes ==
  ASSUME HookTypes, NEW s \in Senders, SenderActs(s)
  PROVE  delivery' \in [Deliveries -> {NoRow} \cup ARow]
<1>0. delivery \in [Deliveries -> {NoRow} \cup ARow]
  BY DEF HookTypes
<1>1. CASE claimDelivery(s)
  <2>1. sender[s] \in APass
    BY <1>1, SenderKinds DEF claimDelivery, Doing
  <2>2. PICK y \in sender[s].todo :
          IF claimable(y[1], y[2]) THEN delivery' = [delivery EXCEPT ![y[1]] = leased(@)] ELSE UNCHANGED delivery
    BY <1>1 DEF claimDelivery
  <2>3. CASE claimable(y[1], y[2])
    <3>1. PICK d \in Deliveries : d = y[1]
      BY <2>1 DEF APass, Items
    <3>2. delivery[d] \in ARow
      BY <2>3, <3>1, RowNumbers DEF claimable
    <3>3. leased(delivery[d]) \in ARow
      BY <3>2, RowUpdates, RowRecords, Zenon DEF leased
    <3>4. delivery' = [delivery EXCEPT ![d] = leased(@)]
      BY <2>2, <2>3, <3>1, Zenon
    <3>. QED
      BY <1>0, <3>3, <3>4
  <2>. QED
    BY <1>0, <2>2, <2>3
<1>2. CASE createDeliveries(s)
  <2>1. delivery' = delivery \/ delivery' = [d \in Deliveries |->
          IF d[1] = sender[s].note /\ d[2] \in sender[s].to THEN NewRow ELSE delivery[d]]
    BY <1>2 DEF createDeliveries, NewRow
  <2>2. NewRow \in ARow
    BY DEF NewRow, ARow
  <2>. QED
    BY <1>0, <2>1, <2>2
<1>3. CASE writeResult(s)
  <2>1. sender[s] \in AWriter
    BY <1>3, SenderKinds DEF writeResult, Doing
  <2>2. PICK d \in Deliveries : d = sender[s].row
    BY <2>1 DEF AWriter
  <2>3. sender[s].result \in {"delivered", "failed", "skipped", "again"}
    BY <2>1 DEF AWriter
  <2>4. \/ delivery' = delivery
        \/ Exists(d) /\ delivery' = [delivery EXCEPT ![d] = finished(@, sender[s].result, sender[s].attempt)]
    BY <1>3, <2>2 DEF writeResult
  <2>5. Exists(d) => finished(delivery[d], sender[s].result, sender[s].attempt) \in ARow
    <3>. SUFFICES ASSUME Exists(d)
                  PROVE  finished(delivery[d], sender[s].result, sender[s].attempt) \in ARow
      OBVIOUS
    <3>1. delivery[d] \in ARow
      BY RowNumbers
    <3>2. /\ GivenUpRow(delivery[d]) \in ARow /\ RetriedRow(delivery[d]) \in ARow
          /\ \A x \in {"delivered", "failed", "skipped"} : RestedRow(delivery[d], x) \in ARow
      BY <3>1, RowRecords
    <3>3. CASE sender[s].result # "again"
      <4>1. finished(delivery[d], sender[s].result, sender[s].attempt) = RestedRow(delivery[d], sender[s].result)
        BY <2>3, <3>1, <3>3, RowUpdates DEF finished
      <4>. QED
        BY <2>3, <3>2, <3>3, <4>1
    <3>4. CASE sender[s].result = "again"
      <4>1. \/ finished(delivery[d], sender[s].result, sender[s].attempt) = GivenUpRow(delivery[d])
            \/ finished(delivery[d], sender[s].result, sender[s].attempt) = RetriedRow(delivery[d])
        BY <3>1, <3>4, RowUpdates, Zenon DEF finished
      <4>. QED
        BY <3>2, <4>1, Zenon
    <3>. QED
      BY <3>3, <3>4
  <2>. QED
    BY <1>0, <2>4, <2>5
<1>4. CASE ~claimDelivery(s) /\ ~createDeliveries(s) /\ ~writeResult(s)
  <2>1. delivery' = delivery
    BY <1>4 DEF SenderActs, notifyNoteReady, claimNote, runIntegrationMaintenance, readDue, lookUp, defaultSender, SenderDies
  <2>. QED
    BY <1>0, <2>1
<1>. QED
  BY <1>1, <1>2, <1>3, <1>4

\* A sender's step keeps the types of the marks and the histories.
LEMMA HistoryTypes ==
  ASSUME HookTypes, NEW s \in Senders, SenderActs(s)
  PROVE  /\ notified' \subseteq Notes
         /\ accepted' \in [Deliveries -> Nat] /\ doubt' \in [Deliveries -> Nat] /\ lapsed' \in [Deliveries -> Nat]
<1>0. /\ notified \subseteq Notes
      /\ accepted \in [Deliveries -> Nat] /\ doubt \in [Deliveries -> Nat] /\ lapsed \in [Deliveries -> Nat]
  BY DEF HookTypes
<1>1. CASE claimNote(s)
  <2>1. sender[s] \in AStarter
    BY <1>1, SenderKinds DEF claimNote, Doing
  <2>2. notified' = notified \/ notified' = notified \cup {sender[s].note}
    BY <1>1 DEF claimNote
  <2>3. sender[s].note \in Notes
    BY <2>1 DEF AStarter
  <2>4. UNCHANGED <<accepted, doubt, lapsed>>
    BY <1>1 DEF claimNote, hookHistory
  <2>. QED
    BY <1>0, <2>2, <2>3, <2>4
<1>2. CASE defaultSender(s)
  <2>1. sender[s] \in AHolder
    BY <1>2, SenderKinds DEF defaultSender, Doing
  <2>2. PICK d \in Deliveries : d = sender[s].row
    BY <2>1 DEF AHolder
  <2>3. /\ accepted' = accepted \/ accepted' = [accepted EXCEPT ![d] = @ + 1]
        /\ doubt' = doubt \/ doubt' = [doubt EXCEPT ![d] = @ + 1]
        /\ notified' = notified /\ lapsed' = lapsed
    BY <1>2, <2>2 DEF defaultSender
  <2>. QED
    BY <1>0, <2>3
<1>3. CASE SenderDies(s)
  <2>1. lapsed' = [d \in Deliveries |-> IF s \in Holding(d) THEN lapsed[d] + 1 ELSE lapsed[d]]
    BY <1>3 DEF SenderDies
  <2>2. UNCHANGED <<notified, accepted, doubt>>
    BY <1>3 DEF SenderDies
  <2>. QED
    BY <1>0, <2>1, <2>2
<1>4. CASE ~claimNote(s) /\ ~defaultSender(s) /\ ~SenderDies(s)
  <2>1. UNCHANGED <<notified, accepted, doubt, lapsed>>
    BY <1>4 DEF SenderActs, notifyNoteReady, createDeliveries, runIntegrationMaintenance, readDue, claimDelivery,
         lookUp, writeResult, hookHistory
  <2>. QED
    BY <1>0, <2>1
<1>. QED
  BY <1>1, <1>2, <1>3, <1>4

\* What the owners do to the rows.
LEMMA OwnersOnly ==
  ASSUME HookTypes, OwnerActs \/ \E d \in Deliveries : purgeDeliveries(d)
  PROVE  /\ UNCHANGED <<notified, sender, accepted, doubt, lapsed>>
         /\ delivery' \in [Deliveries -> {NoRow} \cup ARow]
         /\ \A d \in Deliveries : delivery'[d] \in {delivery[d], NoRow}
<1>0. delivery \in [Deliveries -> {NoRow} \cup ARow]
  BY DEF HookTypes
<1>1. UNCHANGED <<notified, sender, accepted, doubt, lapsed>>
  BY DEF OwnerActs, createIntegration, setIntegrationEnabled, deleteIntegration, openConfigFails, MoveNoteToTrash,
       purgeDeliveries, hookHistory
<1>2. \/ delivery' = delivery
      \/ \E i : delivery' = [d \in Deliveries |-> IF d[2] = i THEN NoRow ELSE delivery[d]]
      \/ \E e \in Deliveries : delivery' = [delivery EXCEPT ![e] = NoRow]
  <2>1. ASSUME NEW i, deleteIntegration(i)
        PROVE  delivery' = [d \in Deliveries |-> IF d[2] = i THEN NoRow ELSE delivery[d]]
    BY <2>1, Zenon DEF deleteIntegration
  <2>2. ASSUME NEW e \in Deliveries, purgeDeliveries(e)
        PROVE  delivery' = [delivery EXCEPT ![e] = NoRow]
    BY <2>2 DEF purgeDeliveries
  <2>3. ASSUME NEW i, createIntegration(i) \/ setIntegrationEnabled(i) \/ openConfigFails(i) \/ MoveNoteToTrash(i)
        PROVE  delivery' = delivery
    BY <2>3 DEF createIntegration, setIntegrationEnabled, openConfigFails, MoveNoteToTrash
  <2>4. \/ \E i : deleteIntegration(i)
        \/ \E e \in Deliveries : purgeDeliveries(e)
        \/ \E i : createIntegration(i) \/ setIntegrationEnabled(i) \/ openConfigFails(i) \/ MoveNoteToTrash(i)
    BY Zenon DEF OwnerActs
  <2>5. CASE \E i : deleteIntegration(i)
    BY <2>1, <2>5, Zenon
  <2>6. CASE \E e \in Deliveries : purgeDeliveries(e)
    BY <2>2, <2>6, Zenon
  <2>. QED
    BY <2>3, <2>4, <2>5, <2>6, Zenon
<1>3. ASSUME NEW i, delivery' = [d \in Deliveries |-> IF d[2] = i THEN NoRow ELSE delivery[d]]
      PROVE  /\ delivery' \in [Deliveries -> {NoRow} \cup ARow]
             /\ \A d \in Deliveries : delivery'[d] \in {delivery[d], NoRow}
  BY <1>0, <1>3
<1>4. ASSUME NEW e \in Deliveries, delivery' = [delivery EXCEPT ![e] = NoRow]
      PROVE  /\ delivery' \in [Deliveries -> {NoRow} \cup ARow]
             /\ \A d \in Deliveries : delivery'[d] \in {delivery[d], NoRow}
  BY <1>0, <1>4
<1>. QED
  BY <1>0, <1>1, <1>2, <1>3, <1>4

\* Every step of the deliveries keeps the types.
LEMMA HookTypesStep ==
  ASSUME HookTypes, HooksNext
  PROVE  HookTypes'
<1>1. ASSUME NEW s \in Senders, SenderActs(s)
      PROVE  HookTypes'
  BY <1>1, SenderTypes, RowTypes, HistoryTypes DEF HookTypes
<1>2. ASSUME NEW d \in Deliveries, AttemptTimeComes(d)
      PROVE  HookTypes'
  <2>1. delivery \in [Deliveries -> {NoRow} \cup ARow] /\ lapsed \in [Deliveries -> Nat]
    BY DEF HookTypes
  <2>2. delivery[d] \in ARow
    BY <1>2, RowNumbers DEF AttemptTimeComes
  <2>3. [delivery[d] EXCEPT !.due = TRUE] \in ARow
    BY <2>2, RowUpdates, RowRecords, Zenon
  <2>4. delivery' = [delivery EXCEPT ![d] = [delivery[d] EXCEPT !.due = TRUE]]
    BY <1>2, Zenon DEF AttemptTimeComes
  <2>5. PICK r \in ARow : delivery' = [delivery EXCEPT ![d] = r]
    BY <2>3, <2>4, Zenon
  <2>6. delivery' \in [Deliveries -> {NoRow} \cup ARow]
    BY <2>1, <2>5
  <2>7. lapsed' \in [Deliveries -> Nat]
    BY <1>2, <2>1 DEF AttemptTimeComes
  <2>8. UNCHANGED <<notified, sender, accepted, doubt>>
    BY <1>2 DEF AttemptTimeComes
  <2>. QED
    BY <2>6, <2>7, <2>8 DEF HookTypes
<1>3. CASE OwnerActs \/ \E d \in Deliveries : purgeDeliveries(d)
  BY <1>3, OwnersOnly DEF HookTypes
<1>. QED
  BY <1>1, <1>2, <1>3 DEF HooksNext

\* Every step of the deliveries keeps the invariant.
LEMMA HooksStep ==
  ASSUME HooksInv, HooksNext
  PROVE  HooksInv'
<1>0. HookTypes /\ HookTypes'
  BY HookTypesStep DEF HooksInv
<1>1. ASSUME NEW s \in Senders, SenderActs(s)
      PROVE  HooksInv'
  BY <1>0, <1>1, AnnounceKeeps, NoteClaimKeeps, CreateKeeps, MaintenanceKeeps, ReadKeeps, ClaimKeeps, LookKeeps,
     SendKeeps, WriteKeeps, DeathKeeps DEF SenderActs
<1>2. CASE OwnerActs \/ \E d \in Deliveries : purgeDeliveries(d)
  BY <1>0, <1>2, OwnersOnly, RowsGoKeep
<1>. QED
  BY <1>0, <1>1, <1>2, TimeKeeps DEF HooksNext

\* Nothing is announced at first.
LEMMA HooksStart ==
  ASSUME HooksInit
  PROVE  HooksInv
<1>1. /\ delivery = [d \in Deliveries |-> NoRow] /\ notified = {} /\ sender = [s \in Senders |-> Resting]
      /\ accepted = [d \in Deliveries |-> 0] /\ doubt = [d \in Deliveries |-> 0] /\ lapsed = [d \in Deliveries |-> 0]
  BY DEF HooksInit
<1>2. HookTypes
  BY <1>1 DEF HookTypes, ASender
<1>3. \A s \in Senders : sender[s].pc = "idle" /\ Todo(s) = {}
  BY <1>1 DEF Resting, Todo
<1>4. \A d \in Deliveries : Holding(d) = {} /\ ~Exists(d) /\ accepted[d] = 0 /\ doubt[d] = 0
  BY <1>1, <1>3 DEF Holding, Exists
<1>5. \A d \in Deliveries : Untouched(d)
  BY <1>1, <1>3, <1>4 DEF Untouched
<1>6. ListsDated
  BY <1>3 DEF ListsDated
<1>7. CreatedOnce
  BY <1>3, <1>5 DEF CreatedOnce, Doing, Deliveries
<1>8. EachRow
  BY <1>4 DEF EachRow, Behind, Counted, Alone, Told
<1>. QED
  BY <1>2, <1>6, <1>7, <1>8 DEF HooksInv

\* Steps elsewhere.
LEMMA HooksElsewhere ==
  ASSUME HooksInv, UNCHANGED hookVars
  PROVE  HooksInv'
<1>1. UNCHANGED <<delivery, notified, sender, accepted, doubt, lapsed>>
  BY DEF hookVars
<1>2. HookTypes'
  BY <1>1 DEF HooksInv, HookTypes
<1>3. \A d \in Deliveries : delivery'[d] \in {delivery[d], NoRow}
  BY <1>1
<1>. QED
  BY <1>1, <1>2, <1>3, RowsGoKeep

----------------------------------------------------------------------------
(* Runs, questions and the maintenance around it *)

\* A run that was started has a job, whose note it announces.
Places == {"off", "slot", "claim", "decode", "adjust", "work", "summary", "finalize", "announce", "announcing",
           "fail", "giveback", "leave", "done"}
ARun == [pc : Places, job : Jobs \cup {None}, slot : Nat, speech : BOOLEAN, seconds : Nat]
RunsHaveJobs == run \in [Runs -> ARun] /\ \A r \in Runs : run[r].pc = "off" \/ run[r].job \in Jobs

\* A run that moves on keeps its job.
LEMMA RunMoves ==
  ASSUME RunsHaveJobs, NEW r \in Runs, ~AtStep(r, "off"), NEW p \in Places, RunTo(r, p)
  PROVE  RunsHaveJobs'
BY DEF RunsHaveJobs, AtStep, RunTo, ARun

\* A run that is written with a job has one.
LEMMA RunChanges ==
  ASSUME RunsHaveJobs, NEW r \in Runs, NEW x \in ARun, x.job \in Jobs, run' = [run EXCEPT ![r] = x]
  PROVE  RunsHaveJobs'
BY DEF RunsHaveJobs

\* A step of a run starts it with a job or moves it on.
LEMMA RunJobsStep ==
  ASSUME RunsHaveJobs, NEW r \in Runs, RunStep(r)
  PROVE  RunsHaveJobs'
<1>0. run[r] \in ARun /\ (run[r].pc = "off" \/ run[r].job \in Jobs)
  BY DEF RunsHaveJobs
<1>1. CASE PollNext(r) \/ RunRoute(r)
  <2>1. PICK j \in Jobs : run' = [run EXCEPT ![r] = Begin(r, j)]
    BY <1>1 DEF PollNext, RunRoute
  <2>2. Begin(r, j) \in ARun /\ Begin(r, j).job = j
    BY DEF Begin, ARun, Places
  <2>. QED
    BY <2>1, <2>2, RunChanges
<1>2. CASE withWorkerSlot(r)
  <2>1. AtStep(r, "slot") /\ run[r].job \in Jobs
    BY <1>0, <1>2 DEF withWorkerSlot, AtStep
  <2>2. RunTo(r, "claim") \/ RunTo(r, "done") \/ run' = [run EXCEPT ![r].slot = run[r].slot + 1]
    BY <1>2 DEF withWorkerSlot
  <2>3. CASE run' = [run EXCEPT ![r].slot = run[r].slot + 1]
    <3>1. [run[r] EXCEPT !.slot = run[r].slot + 1] \in ARun /\ [run[r] EXCEPT !.slot = run[r].slot + 1].job = run[r].job
      BY <1>0 DEF ARun
    <3>. QED
      BY <2>1, <2>3, <3>1, RunChanges
  <2>. QED
    BY <2>1, <2>2, <2>3, RunMoves DEF Places, AtStep
<1>3. CASE transcribeImport(r)
  <2>1. AtStep(r, "decode") /\ run[r].job \in Jobs
    BY <1>0, <1>3 DEF transcribeImport, AtStep
  <2>2. CASE RunTo(r, "fail")
    BY <2>1, <2>2, RunMoves DEF Places, AtStep
  <2>3. CASE ~RunTo(r, "fail")
    <3>1. PICK claimed \in {0, PlanSeconds + 1}, seconds \in 0..(PlanSeconds + 2) :
            run' = IF decodeToPcm(claimed, seconds) = None THEN [run EXCEPT ![r].pc = "fail"]
                   ELSE [run EXCEPT ![r].pc = "adjust", ![r].seconds = decodeToPcm(claimed, seconds)]
      BY <1>3, <2>3 DEF transcribeImport
    <3>2. PICK got : got = decodeToPcm(claimed, seconds)
      OBVIOUS
    <3>3. got # None /\ run' = [run EXCEPT ![r].pc = "adjust", ![r].seconds = got]
      BY <2>3, <3>1, <3>2 DEF RunTo
    <3>4. got \in Nat
      <4>1. PlanSeconds \in Nat
        BY PlanAssumption
      <4>2. PICK m : m = Min({seconds, PlanSeconds + 1})
        OBVIOUS
      <4>3. m \in {seconds, PlanSeconds + 1}
        <5>1. \E a \in {seconds, PlanSeconds + 1} : \A b \in {seconds, PlanSeconds + 1} : a <= b
          BY <4>1
        <5>. QED
          BY <4>2, <5>1 DEF Min
      <4>4. got = m
        BY <3>2, <3>3, <4>2 DEF decodeToPcm
      <4>. QED
        BY <4>1, <4>3, <4>4
    <3>5. PICK x : x = [run[r] EXCEPT !.pc = "adjust", !.seconds = got]
      OBVIOUS
    <3>6. x \in ARun /\ x.job = run[r].job
      BY <1>0, <3>4, <3>5 DEF ARun, Places
    <3>7. run' = [run EXCEPT ![r] = x]
      BY <3>3, <3>5
    <3>. QED
      BY <2>1, <3>6, <3>7, RunChanges
  <2>. QED
    BY <2>2, <2>3
<1>4. CASE tracksSettled(r)
  <2>1. AtStep(r, "work") /\ run[r].job \in Jobs
    BY <1>0, <1>4 DEF tracksSettled, AtStep
  <2>2. CASE RunTo(r, "fail")
    BY <2>1, <2>2, RunMoves DEF Places, AtStep
  <2>3. CASE ~RunTo(r, "fail")
    <3>1. PICK speech \in BOOLEAN :
            run' = [run EXCEPT ![r].pc = IF speech THEN "summary" ELSE "finalize", ![r].speech = speech]
      BY <1>4, <2>3 DEF tracksSettled
    <3>2. PICK x : x = [run[r] EXCEPT !.pc = IF speech THEN "summary" ELSE "finalize", !.speech = speech]
      OBVIOUS
    <3>3. x \in ARun /\ x.job = run[r].job
      BY <1>0, <3>2 DEF ARun, Places
    <3>4. run' = [run EXCEPT ![r] = x]
      BY <3>1, <3>2
    <3>. QED
      BY <2>1, <3>3, <3>4, RunChanges
  <2>. QED
    BY <2>2, <2>3
<1>5. CASE slotHeartbeat(r) \/ jobHeartbeat(r)
  BY <1>5 DEF slotHeartbeat, jobHeartbeat, RunsHaveJobs
<1>6. CASE \/ claimJob(r) \/ adjustReservedAudioSeconds(r) \/ summarize(r) \/ finalizeJob(r) \/ announceNote(r)
           \/ failJob(r) \/ releaseMeetingProcessing(r) \/ leaveSlot(r) \/ RunDies(r)
  <2>1. ~AtStep(r, "off")
    BY <1>6 DEF claimJob, adjustReservedAudioSeconds, summarize, finalizeJob, announceNote, failJob,
         releaseMeetingProcessing, leaveSlot, RunDies, AtStep
  <2>2. \E p \in Places : RunTo(r, p)
    BY <1>6 DEF claimJob, adjustReservedAudioSeconds, summarize, finalizeJob, announceNote, failJob,
         releaseMeetingProcessing, leaveSlot, RunDies, Places
  <2>. QED
    BY <2>1, <2>2, RunMoves
<1>. QED
  BY <1>1, <1>2, <1>3, <1>4, <1>5, <1>6 DEF RunStep

\* No other step moves a run.
LEMMA RunJobsElsewhere ==
  ASSUME RunsHaveJobs, HostedNext, ~\E r \in Runs : RunStep(r)
  PROVE  RunsHaveJobs'
<1>1. run' = run
  <2>1. ASSUME NEW c \in Callers, JobRequest(c)
        PROVE  run' = run
    BY <2>1 DEF JobRequest, workVars
  <2>2. ASSUME NEW q \in Asks, AskStep(q)
        PROVE  run' = run
    BY <2>2 DEF AskStep, askNotes, reserveChatQuestion, askProvider, answerQuestion, releaseChatQuestion, AskDies, workVars
  <2>3. ASSUME NEW i, SlotLapses(i) \/ JobLapses(i) \/ DeliveryTime(i)
        PROVE  run' = run
    BY <2>3 DEF SlotLapses, JobLapses, DeliveryTime, Others, workVars
  <2>4. CASE DayEnds \/ OwnerStep
    BY <2>4 DEF DayEnds, OwnerStep, Others, workVars
  <2>5. ASSUME NEW s \in Senders, \/ withMaintenanceLease(s) \/ leaveMaintenance(s) \/ PageLoad(s)
                                  \/ SenderStep(s) \/ ServerStops(s)
                                  \/ \E n \in Notes : saveMeeting(s, n)
        PROVE  run' = run
    BY <2>5 DEF withMaintenanceLease, leaveMaintenance, PageLoad, SenderStep, ServerStops, saveMeeting, Others, workVars
  <2>. QED
    BY <2>1, <2>2, <2>3, <2>4, <2>5, Zenon DEF HostedNext
<1>. QED
  BY <1>1 DEF RunsHaveJobs

\* What a run does to the deliveries: it announces its note, or it dies.
LEMMA RunsAnnounce ==
  ASSUME RunsHaveJobs, NEW r \in Runs, RunStep(r)
  PROVE  HooksNext \/ UNCHANGED hookVars
<1>0. r \in Senders /\ Jobs = Notes
  BY SendersAssumption
<1>1. CASE announceNote(r)
  <2>1. (AtStep(r, "announce") /\ notifyNoteReady(r, run[r].job)) \/ UNCHANGED hookVars
    BY <1>1 DEF announceNote
  <2>2. CASE AtStep(r, "announce") /\ notifyNoteReady(r, run[r].job)
    <3>1. run[r].job \in Notes
      BY <1>0, <2>2 DEF RunsHaveJobs, AtStep
    <3>. QED
      BY <1>0, <2>2, <3>1 DEF HooksNext, SenderActs
  <2>. QED
    BY <2>1, <2>2
<1>2. CASE RunDies(r)
  <2>1. SenderDies(r) \/ UNCHANGED hookVars
    BY <1>2 DEF RunDies
  <2>. QED
    BY <1>0, <2>1 DEF HooksNext, SenderActs
<1>3. CASE ~announceNote(r) /\ ~RunDies(r)
  <2>1. UNCHANGED hookVars
    BY <1>3 DEF RunStep, PollNext, RunRoute, withWorkerSlot, claimJob, transcribeImport, adjustReservedAudioSeconds,
         tracksSettled, summarize, finalizeJob, failJob, releaseMeetingProcessing, leaveSlot, slotHeartbeat, jobHeartbeat
  <2>. QED
    BY <2>1
<1>. QED
  BY <1>1, <1>2, <1>3

\* Every step of the composition is one of the deliveries or leaves them alone.
LEMMA HostedSteps ==
  ASSUME RunsHaveJobs, HostedNext
  PROVE  HooksNext \/ UNCHANGED hookVars
<1>1. ASSUME NEW c \in Callers, JobRequest(c)
      PROVE  UNCHANGED hookVars
  BY <1>1 DEF JobRequest
<1>2. ASSUME NEW q \in Asks, AskStep(q)
      PROVE  UNCHANGED hookVars
  BY <1>2 DEF AskStep, askNotes, reserveChatQuestion, askProvider, answerQuestion, releaseChatQuestion, AskDies
<1>3. ASSUME NEW i, SlotLapses(i) \/ JobLapses(i)
      PROVE  UNCHANGED hookVars
  BY <1>3 DEF SlotLapses, JobLapses
<1>4. DayEnds => UNCHANGED hookVars
  BY DEF DayEnds
<1>5. ASSUME NEW s \in Senders, \/ withMaintenanceLease(s) \/ leaveMaintenance(s) \/ PageLoad(s)
                                \/ SenderStep(s) \/ ServerStops(s)
                                \/ \E n \in Notes : saveMeeting(s, n)
      PROVE  HooksNext \/ UNCHANGED hookVars
  <2>1. SenderActs(s) \/ UNCHANGED hookVars
    BY <1>5 DEF withMaintenanceLease, leaveMaintenance, PageLoad, SenderStep, ServerStops, saveMeeting, SenderActs
  <2>. QED
    BY <2>1 DEF HooksNext
<1>6. OwnerStep => HooksNext
  <2>. SUFFICES ASSUME OwnerStep
                PROVE  HooksNext
    OBVIOUS
  <2>1. \/ \E i : createIntegration(i) \/ setIntegrationEnabled(i) \/ deleteIntegration(i) \/ openConfigFails(i)
        \/ \E n : MoveNoteToTrash(n)
        \/ \E d \in Deliveries : purgeDeliveries(d)
    BY Zenon DEF OwnerStep
  <2>. QED
    BY <2>1, Zenon DEF HooksNext, OwnerActs
<1>7. ASSUME NEW d \in Deliveries, DeliveryTime(d)
      PROVE  HooksNext
  BY <1>7, Zenon DEF DeliveryTime, HooksNext
<1>. QED
  BY <1>1, <1>2, <1>3, <1>4, <1>5, <1>6, <1>7, RunsAnnounce, Zenon DEF HostedNext

\* What the invariant says of a row is what ToldOnce promises of it.
LEMMA HooksTold ==
  ASSUME HooksInv
  PROVE  ToldOnce
<1>. SUFFICES ASSUME NEW d \in Deliveries
              PROVE  /\ lapsed[d] = 0 => Cardinality(Holding(d)) <= 1 /\ accepted[d] <= 1 + doubt[d]
                     /\ Exists(d) => delivery[d].attempts <= MaxDeliveries + lapsed[d]
  BY DEF ToldOnce
<1>0. HookTypes /\ Counted(d) /\ Alone(d) /\ Told(d)
  BY DEF HooksInv, EachRow
<1>1. lapsed[d] = 0 => Cardinality(Holding(d)) <= 1
  <2>. SUFFICES ASSUME lapsed[d] = 0
                PROVE  Cardinality(Holding(d)) <= 1
    OBVIOUS
  <2>1. CASE Holding(d) = {}
    BY <2>1, FS_EmptySet
  <2>2. ASSUME NEW s \in Holding(d)
        PROVE  Cardinality(Holding(d)) <= 1
    <3>1. Holding(d) = {s}
      BY <1>0 DEF Alone
    <3>2. Cardinality({s}) = 1
      BY FS_Singleton, Zenon
    <3>. QED
      BY <3>1, <3>2
  <2>. QED
    BY <2>1, <2>2
<1>2. lapsed[d] = 0 => accepted[d] <= 1 + doubt[d]
  BY <1>0, RowNumbers DEF Told
<1>3. Exists(d) => delivery[d].attempts <= MaxDeliveries + lapsed[d]
  BY <1>0 DEF Counted, Within
<1>. QED
  BY <1>1, <1>2, <1>3

\* While no claim has run out under its sender, a delivery has one sender at a
\* time and the destination takes it at most once more than the times its
\* answer was lost, and every row ends its attempts at their maximum plus the
\* claims that ran out: for every number of runs, maintenance passes and page
\* loads together, of notes, integrations and attempts (integrations.ts,
\* notifyNoteReady and processDeliveries).
THEOREM NotesAreToldOnce == HostedSpec => []ToldOnce
<1>1. HostedInit => HooksInv /\ RunsHaveJobs
  <2>. SUFFICES ASSUME HostedInit
                PROVE  HooksInv /\ RunsHaveJobs
    OBVIOUS
  <2>1. HooksInv
    BY HooksStart DEF HostedInit
  <2>2. run = [r \in Runs |-> [pc |-> "off", job |-> None, slot |-> 0, speech |-> FALSE, seconds |-> 0]]
    BY DEF HostedInit
  <2>3. RunsHaveJobs
    BY <2>2 DEF RunsHaveJobs, ARun, Places
  <2>. QED
    BY <2>1, <2>3
<1>2. HooksInv /\ RunsHaveJobs /\ [HostedNext]_hostedVars => (HooksInv /\ RunsHaveJobs)'
  <2>. SUFFICES ASSUME HooksInv, RunsHaveJobs, [HostedNext]_hostedVars
                PROVE  (HooksInv /\ RunsHaveJobs)'
    OBVIOUS
  <2>1. CASE HostedNext
    <3>1. HooksInv'
      BY <2>1, HostedSteps, HooksStep, HooksElsewhere
    <3>2. RunsHaveJobs'
      BY <2>1, RunJobsStep, RunJobsElsewhere
    <3>. QED
      BY <3>1, <3>2
  <2>2. CASE UNCHANGED hostedVars
    <3>1. UNCHANGED hookVars /\ run' = run
      BY <2>2 DEF hostedVars, workVars
    <3>2. RunsHaveJobs'
      BY <3>1 DEF RunsHaveJobs
    <3>. QED
      BY <3>1, <3>2, HooksElsewhere
  <2>. QED
    BY <2>1, <2>2
<1>3. HooksInv => ToldOnce
  BY HooksTold
<1>. QED
  BY <1>1, <1>2, <1>3, PTL DEF HostedSpec
=============================================================================
