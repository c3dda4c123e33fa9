------------------------------ MODULE ManagedJobs ------------------------------
(****************************************************************************)
(* Hosted processing of one uploaded recording (webapp/src/lib/             *)
(* managedJobs.ts, managedWorker.ts and usageLedger.ts).                    *)
(*                                                                          *)
(* Requests enqueue the job of the upload and reserve a unit of the plan,   *)
(* workers claim it under a lease, call the providers and finalize the      *)
(* notes, and the cleaner removes staged audio once the job is complete or  *)
(* the upload is past its deadline. They share a database, whose statements *)
(* and transactions are atomic, and the object store that holds the audio;  *)
(* every step below is one statement, transaction or call.                  *)
(****************************************************************************)
EXTENDS Naturals

CONSTANTS
    Keys,         \* idempotency keys of process requests
    Requests,     \* bound: calls of enqueueManagedJob
    Workers,      \* workers, each with at most one job
    NoWorker,     \* the absence of a lease token
    MaxAttempts   \* MANAGED_JOB_MAX_ATTEMPTS

\* With a single attempt ResultKept would fail: the two statements of
\* failExhaustedJobs could enclose a failure, a retry and a fresh claim.
ASSUME MaxAttemptsAssumption == MaxAttempts \in Nat \ {0, 1}
ASSUME KeysAssumption == Keys # {}
ASSUME NoWorkerAssumption == NoWorker \notin Workers

VARIABLES
    late,     \* has expiresAt passed?
    upload,   \* status of the ManagedUpload row, or "deleted"
    chunks,   \* do the UploadChunk rows exist?
    objects,  \* are the chunks in the object store?
    job,      \* the ProcessingJob row of the upload
    ledger,   \* units of the UsageLedgerEntry of each key
    notes,    \* the finalized notes: "none", "notes" or "silent" (NO_SPEECH_SUMMARY)
    req,      \* where each request is, and what it has read
    wrk,      \* where each worker is, and what it has read
    sweep     \* where the cleaner is, and what it has read

staged == <<upload, chunks, objects>>
vars == <<late, staged, job, ledger, notes, req, wrk, sweep>>

JobStatus == {"none", "queued", "processing", "error", "complete"}
AJob == [status : JobStatus, key : Keys, token : Workers \cup {NoWorker},
         attempts : 0..MaxAttempts, stale : BOOLEAN]
ARequest == [pc : {"new", "find", "reserve", "write", "giveback", "done"},
             key : Keys, retry : BOOLEAN]
AWorker == [pc : {"idle", "call", "finalize", "purge", "rows", "fail", "exhaust", "release"},
            key : Keys, audio : BOOLEAN, result : {"none", "notes", "silent"},
            lapsed : BOOLEAN]
ASweep == [pc : {"idle", "fail", "release", "objects", "rows", "mark", "drop"},
           status : JobStatus, key : Keys]

TypeOK ==
    /\ late \in BOOLEAN
    /\ upload \in {"complete", "expired", "deleted"}
    /\ chunks \in BOOLEAN /\ objects \in BOOLEAN
    /\ job \in AJob
    /\ ledger \in [Keys -> 0..1]
    /\ notes \in {"none", "notes", "silent"}
    /\ req \in [Requests -> ARequest]
    /\ wrk \in [Workers -> AWorker]
    /\ sweep \in ASweep

AnyKey == CHOOSE k \in Keys : TRUE
IdleWorker == [pc |-> "idle", key |-> AnyKey, audio |-> FALSE, result |-> "none",
               lapsed |-> FALSE]
IdleSweep == [pc |-> "idle", status |-> "none", key |-> AnyKey]
NoJob == [status |-> "none", key |-> AnyKey, token |-> NoWorker,
          attempts |-> 0, stale |-> FALSE]

\* An upload that has just been completed (completeManagedUpload).
Init ==
    /\ late = FALSE
    /\ upload = "complete" /\ chunks = TRUE /\ objects = TRUE
    /\ job = NoJob
    /\ ledger = [k \in Keys |-> 0]
    /\ notes = "none"
    /\ req \in [Requests -> {[pc |-> "new", key |-> k, retry |-> FALSE] : k \in Keys}]
    /\ wrk = [w \in Workers |-> IdleWorker]
    /\ sweep = IdleSweep

-----------------------------------------------------------------------------
(* enqueueManagedJob.                                                       *)

At(r, pc) == req[r].pc = pc
Over == [pc |-> "done", key |-> AnyKey, retry |-> FALSE]
Step(r, pc) == req' = [req EXCEPT ![r] = IF pc = "done" THEN Over ELSE [@ EXCEPT !.pc = pc]]

\* getUpload: an upload past its deadline is marked, and refused.
CheckUpload(r) ==
    /\ At(r, "new")
    /\ Step(r, IF upload = "complete" /\ ~late THEN "find" ELSE "done")
    /\ upload' = IF late /\ upload = "complete" THEN "expired" ELSE upload
    /\ UNCHANGED <<late, chunks, objects, job, ledger, notes, wrk, sweep>>

\* One job per upload: only a failed job is queued again, under its own key.
FindJob(r) ==
    /\ At(r, "find")
    /\ \/ job.status = "none" /\ Step(r, "reserve")
       \/ /\ job.status = "error"
          /\ req' = [req EXCEPT ![r] = [pc |-> "reserve", key |-> job.key, retry |-> TRUE]]
       \/ job.status \notin {"none", "error"} /\ Step(r, "done")
    /\ UNCHANGED <<late, staged, job, ledger, notes, wrk, sweep>>

\* reserveMeetingProcessing, one serializable transaction: a live reservation is
\* kept; a new one is refused when other meetings have used up the plan.
Reserve(r) ==
    /\ At(r, "reserve")
    /\ \/ ledger' = [ledger EXCEPT ![req[r].key] = 1] /\ Step(r, "write")
       \/ ledger[req[r].key] = 0 /\ ledger' = ledger /\ Step(r, "done")
    /\ UNCHANGED <<late, staged, job, notes, wrk, sweep>>

Queued(key) == [NoJob EXCEPT !.status = "queued", !.key = key]

\* The failed job is queued again unless another retry did so first.
Requeue(r) ==
    /\ req[r].retry
    /\ job' = IF job.status = "error" THEN Queued(req[r].key) ELSE job
    /\ Step(r, "done")

\* Mutant: the loser of the race keeps the unit that it reserved.
CreateKeepsUnit(r) ==
    /\ ~req[r].retry
    /\ job' = IF job.status = "none" /\ upload # "deleted" THEN Queued(req[r].key) ELSE job
    /\ Step(r, "done")

\* The job is created, unless the upload is gone or another request created it;
\* a loser with another key gives its unit back.
Create(r) ==
    /\ ~req[r].retry
    /\ job' = IF job.status = "none" /\ upload # "deleted" THEN Queued(req[r].key) ELSE job
    /\ Step(r, IF job.status # "none" /\ job.key # req[r].key THEN "giveback" ELSE "done")

WriteJob(r) ==
    /\ At(r, "write")
    /\ Requeue(r) \/ Create(r)
    /\ UNCHANGED <<late, staged, ledger, notes, wrk, sweep>>

GiveBack(r) ==
    /\ At(r, "giveback")
    /\ ledger' = [ledger EXCEPT ![req[r].key] = 0]
    /\ Step(r, "done")
    /\ UNCHANGED <<late, staged, job, notes, wrk, sweep>>

-----------------------------------------------------------------------------
(* Workers: nextManagedJob and executeManagedJob.                           *)

Working(w, pc) == wrk[w].pc = pc
Owns(w) == job.status = "processing" /\ job.token = w
Goto(w, pc) ==
    wrk' = [wrk EXCEPT ![w] = IF pc = "idle" THEN IdleWorker ELSE [@ EXCEPT !.pc = pc]]

Claimable ==
    \/ job.status = "queued"
    \/ job.status = "processing" /\ job.stale /\ job.attempts < MaxAttempts

\* Mutant: claims are not counted.
ClaimedUncounted(w) == [job EXCEPT !.status = "processing", !.token = w, !.stale = FALSE]

Claimed(w) ==
    [job EXCEPT !.status = "processing", !.token = w, !.stale = FALSE, !.attempts = @ + 1]

\* The claim, and the chunk rows read in the same transaction.
Claim(w) ==
    /\ Working(w, "idle")
    /\ Claimable
    /\ job' = Claimed(w)
    /\ wrk' = [wrk EXCEPT ![w] = [pc |-> "call", key |-> job.key, audio |-> chunks,
                                  result |-> "none", lapsed |-> FALSE]]
    /\ UNCHANGED <<late, staged, ledger, notes, req, sweep>>

Heartbeat(w) ==
    /\ Owns(w) /\ job.stale
    /\ wrk[w].pc \in {"call", "finalize", "fail"}
    /\ job' = [job EXCEPT !.stale = FALSE]
    /\ UNCHANGED <<late, staged, ledger, notes, req, wrk, sweep>>

\* The lease runs out: its worker died, or could not renew it in time. (It
\* outlasts the time between the two statements of failExhaustedJobs.)
LeaseLapses ==
    /\ job.status = "processing" /\ ~job.stale
    /\ \A w \in Workers : ~Working(w, "exhaust")
    /\ job' = [job EXCEPT !.stale = TRUE]
    /\ wrk' = [wrk EXCEPT ![job.token].lapsed = (wrk[job.token].pc # "idle")]
    /\ UNCHANGED <<late, staged, ledger, notes, req, sweep>>

\* The provider calls read the objects of the rows; without rows there is
\* nothing to transcribe. They fail for lack of an object or on their own.
CallProviders(w) ==
    /\ Working(w, "call")
    /\ \/ /\ wrk[w].audio => objects
          /\ \E result \in {"silent"} \cup (IF wrk[w].audio THEN {"notes"} ELSE {}) :
               wrk' = [wrk EXCEPT ![w].pc = "finalize", ![w].result = result]
       \/ Goto(w, "fail")
    /\ UNCHANGED <<late, staged, job, ledger, notes, req, sweep>>

\* Mutant: a job that another worker has completed is finalized again.
FinalizesAgain(w) == Owns(w) \/ job.status = "complete"

MayFinalize(w) == Owns(w)

\* One transaction: the job is complete and the notes are replaced, if the
\* worker still holds the lease.
Finalize(w) ==
    /\ Working(w, "finalize")
    /\ \/ /\ MayFinalize(w)
          /\ job' = [job EXCEPT !.status = "complete", !.stale = FALSE]
          /\ notes' = wrk[w].result
          /\ Goto(w, "purge")
       \/ /\ ~MayFinalize(w)
          /\ Goto(w, "idle")
          /\ UNCHANGED <<job, notes>>
    /\ UNCHANGED <<late, staged, ledger, req, sweep>>

\* deleteManagedUploadAudio of a finished job: objects, then rows. A silent
\* recording gives its unit back.
AfterPurge(w) == IF wrk[w].result = "silent" THEN "release" ELSE "idle"

PurgeObjects(w) ==
    /\ Working(w, "purge")
    /\ \/ objects' = FALSE /\ Goto(w, "rows")
       \/ objects' = objects /\ Goto(w, AfterPurge(w))
    /\ UNCHANGED <<late, upload, chunks, job, ledger, notes, req, sweep>>

PurgeRows(w) ==
    /\ Working(w, "rows")
    /\ chunks' = FALSE
    /\ Goto(w, AfterPurge(w))
    /\ UNCHANGED <<late, upload, objects, job, ledger, notes, req, sweep>>

\* Mutant: the failure is recorded whoever holds the lease.
FailAnyClaim(w) == job.status = "processing"

MayFail(w) == Owns(w)

\* The error path: the job fails if the worker still holds the lease ...
Fail(w) ==
    /\ Working(w, "fail")
    /\ \/ MayFail(w) /\ job' = [job EXCEPT !.status = "error", !.stale = FALSE] /\ Goto(w, "release")
       \/ ~MayFail(w) /\ job' = job /\ Goto(w, "idle")
    /\ UNCHANGED <<late, staged, ledger, notes, req, sweep>>

\* ... and its unit is given back, which may fail.
Release(w) ==
    /\ Working(w, "release")
    /\ \/ ledger' = [ledger EXCEPT ![wrk[w].key] = 0]
       \/ ledger' = ledger
    /\ Goto(w, "idle")
    /\ UNCHANGED <<late, staged, job, notes, req, sweep>>

\* failExhaustedJobs: a job whose workers keep dying is found ...
FindExhausted(w) ==
    /\ Working(w, "idle")
    /\ job.status = "processing" /\ job.stale /\ job.attempts >= MaxAttempts
    /\ wrk' = [wrk EXCEPT ![w].pc = "exhaust", ![w].key = job.key]
    /\ UNCHANGED <<late, staged, job, ledger, notes, req, sweep>>

\* ... and failed.
FailExhausted(w) ==
    /\ Working(w, "exhaust")
    /\ \/ /\ job.status = "processing" /\ job.attempts >= MaxAttempts
          /\ job' = [job EXCEPT !.status = "error", !.stale = FALSE, !.token = NoWorker]
          /\ Goto(w, "release")
       \/ /\ job.status # "processing" \/ job.attempts < MaxAttempts
          /\ job' = job
          /\ Goto(w, "idle")
    /\ UNCHANGED <<late, staged, ledger, notes, req, sweep>>

\* The process of a worker dies at any point.
Crash(w) ==
    /\ ~Working(w, "idle")
    /\ Goto(w, "idle")
    /\ UNCHANGED <<late, staged, job, ledger, notes, req, sweep>>

-----------------------------------------------------------------------------
(* The cleaner: expireManagedUploads.                                       *)

DeadlinePasses ==
    /\ ~late /\ late' = TRUE
    /\ UNCHANGED <<staged, job, ledger, notes, req, wrk, sweep>>

Sweeping(pc) == sweep.pc = pc
SweepTo(pc) == sweep' = IF pc = "idle" THEN IdleSweep ELSE [sweep EXCEPT !.pc = pc]

\* The upload and its job are read. A recent processing job is left alone;
\* another unfinished one is failed before the audio is removed.
FindUpload ==
    /\ Sweeping("idle")
    /\ upload # "deleted"
    /\ \/ job.status = "complete" /\ chunks
       \/ late /\ (upload = "complete" \/ chunks)
    /\ ~(job.status = "processing" /\ ~job.stale)
    /\ sweep' = [pc |-> IF job.status \in {"queued", "processing"} THEN "fail" ELSE "objects",
                 status |-> job.status, key |-> job.key]
    /\ UNCHANGED <<late, staged, job, ledger, notes, req, wrk>>

SweepFail ==
    /\ Sweeping("fail")
    /\ \/ /\ job.status \in {"queued", "processing"}
          /\ job' = [job EXCEPT !.status = "error", !.stale = FALSE, !.token = NoWorker]
          /\ SweepTo("release")
       \/ /\ job.status \notin {"queued", "processing"}
          /\ job' = job
          /\ SweepTo("objects")
    /\ UNCHANGED <<late, staged, ledger, notes, req, wrk>>

SweepRelease ==
    /\ Sweeping("release")
    /\ \/ ledger' = [ledger EXCEPT ![sweep.key] = 0]
       \/ ledger' = ledger
    /\ SweepTo("objects")
    /\ UNCHANGED <<late, staged, job, notes, req, wrk>>

\* deleteManagedUploadAudio; an upload whose objects cannot be removed is left
\* to the next pass.
SweepObjects ==
    /\ Sweeping("objects")
    /\ \/ ~chunks /\ objects' = objects /\ SweepTo("mark")
       \/ chunks /\ objects' = FALSE /\ SweepTo("rows")
       \/ chunks /\ objects' = objects /\ SweepTo("idle")
    /\ UNCHANGED <<late, upload, chunks, job, ledger, notes, req, wrk>>

SweepRows ==
    /\ Sweeping("rows")
    /\ chunks' = FALSE
    /\ SweepTo("mark")
    /\ UNCHANGED <<late, upload, objects, job, ledger, notes, req, wrk>>

\* An unfinished upload becomes expired, and is deleted if it had no job.
SweepMark ==
    /\ Sweeping("mark")
    /\ upload' = IF sweep.status = "complete" THEN upload ELSE "expired"
    /\ SweepTo(IF sweep.status = "none" THEN "drop" ELSE "idle")
    /\ UNCHANGED <<late, chunks, objects, job, ledger, notes, req, wrk>>

\* The row is deleted, and with it (onDelete: Cascade) a job created meanwhile.
SweepDrop ==
    /\ Sweeping("drop")
    /\ upload' = "deleted" /\ job' = NoJob /\ chunks' = FALSE
    /\ SweepTo("idle")
    /\ UNCHANGED <<late, objects, ledger, notes, req, wrk>>

-----------------------------------------------------------------------------
RequestStep(r) ==
    CheckUpload(r) \/ FindJob(r) \/ Reserve(r) \/ WriteJob(r) \/ GiveBack(r)

WorkerStep(w) ==
    \/ Claim(w) \/ CallProviders(w) \/ Finalize(w) \/ PurgeObjects(w) \/ PurgeRows(w)
    \/ Fail(w) \/ Release(w) \/ FindExhausted(w) \/ FailExhausted(w)

SweepStep ==
    \/ FindUpload \/ SweepFail \/ SweepRelease \/ SweepObjects \/ SweepRows
    \/ SweepMark \/ SweepDrop

Next ==
    \/ \E r \in Requests : RequestStep(r)
    \/ \E w \in Workers : WorkerStep(w) \/ Heartbeat(w) \/ Crash(w)
    \/ SweepStep \/ LeaseLapses \/ DeadlinePasses

Spec == Init /\ [][Next]_vars

\* The worker of the lease is gone, so nothing renews it.
Orphaned == job.status = "processing" /\ wrk[job.token].pc = "idle"

\* Workers poll and go on with what they have begun, though they may die; one
\* that finds an exhausted job again and again does not die each time before it
\* has failed it; and an unrenewed lease runs out.
Fairness ==
    /\ \A w \in Workers : WF_vars(WorkerStep(w)) /\ SF_vars(FailExhausted(w))
    /\ WF_vars(Orphaned /\ LeaseLapses)

FairSpec == Spec /\ Fairness

-----------------------------------------------------------------------------
(****************************************************************************)
(* Properties.                                                              *)
(****************************************************************************)

\* A worker that has renewed its lease in time still holds it when it has the
\* result, before the deadline of the upload: no other worker, retry, poll or
\* late failure of an earlier attempt takes the paid work away from it
\* (managedWorker.ts, executeManagedJob and failExhaustedJobs).
ResultKept ==
    /\ TypeOK
    /\ \A w \in Workers :
        wrk[w].pc \in {"call", "finalize", "fail"} /\ ~wrk[w].lapsed /\ ~late => Owns(w)

\* Finalized notes are never replaced, neither by a worker that lost its lease
\* and comes back late nor by another run, which would find the audio purged
\* (managedWorker.ts, executeManagedJob; managedJobs.ts, enqueueManagedJob:
\* "would finalize an empty transcript over the real one").
NotesStable == [][notes # "none" => notes' = notes]_vars

\* Once all requests are over, no unit stays reserved under a key other than the
\* job's: racing requests for one upload cost one unit (managedJobs.ts,
\* enqueueManagedJob; usageLedger.ts).
NoStrayUnit ==
    job.status # "none" /\ (\A r \in Requests : req[r].pc \in {"new", "done"}) =>
        \A k \in Keys \ {job.key} : ledger[k] = 0

\* A job does not stay queued or processing for good, however often its workers
\* die: it completes or fails (managedWorker.ts, MANAGED_JOB_LEASE_MS "A crashed
\* worker must not strand a hosted meeting forever").
JobSettles == job.status \in {"queued", "processing"} ~> job.status \notin {"queued", "processing"}

=============================================================================
