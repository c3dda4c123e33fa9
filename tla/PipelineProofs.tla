---------------------------- MODULE PipelineProofs ----------------------------
(****************************************************************************)
(* Proofs about Pipeline: the recording pipeline implements the retry queue *)
(* it is built on, for every length of recording, number of jobs and faults. *)
(****************************************************************************)
EXTENDS Pipeline, SequenceTheorems, FiniteSetTheorems, WellFoundedInduction, TLAPS

\* The steps of a call that speak of the current job have one: transcribe and
\* process_due_retries hold a job id from before the provider is called until
\* its success or failure is recorded.
HasJob == {"provider", "cursor", "success", "failed"}
CurrentIsJob == cur \subseteq Jobs /\ (at \in HasJob => cur # {})

\* Under that invariant the job the call works on is a job of the queue.
LEMMA CurrentInJobs ==
  ASSUME CurrentIsJob, at \in HasJob
  PROVE  Current \in Jobs
<1>1. cur # {} /\ cur \subseteq Jobs
  BY DEF CurrentIsJob
<1>. QED
  BY <1>1 DEF Current

\* What returns to the caller, or forgets the call, leaves no current job.
LEMMA ReturnLeavesJob ==
  ASSUME NEW isDown, Return(isDown)
  PROVE  CurrentIsJob'
<1>1. cur' = {} /\ at' \in {"idle", "settle", "walk"}
  BY DEF Return, Goto
<1>. QED
  BY <1>1 DEF CurrentIsJob, HasJob

\* Every step keeps the worker's current entry a job, or none.
LEMMA CurrentStep ==
  ASSUME CurrentIsJob, [Next]_vars
  PROVE  CurrentIsJob'
<1> USE DEF CurrentIsJob, HasJob, locals, At, Goto
<1>1. CASE UserStep \/ StartRetryWorker
  BY <1>1 DEF UserStep, StartRecording, ResumeRecording, RetryNotes, ResetMeta, HandleAudioChunk,
              StopRecording, Flush, StartRetryWorker, Idle
<1>2. CASE ComesDue \/ Crash
  BY <1>2 DEF ComesDue, ComesDueJob, Crash, Forget
<1>3. CASE Tick \/ RetryFails \/ RecordRetryFailure \/ AfterFailure \/ WorkerSummary
  BY <1>3 DEF Tick, RetryFails, RecordRetryFailure, AfterFailure, WorkerSummary, Idle
<1>4. CASE NextDueJob
  BY <1>4 DEF NextDueJob
<1>5. CASE EndTick
  BY <1>5 DEF EndTick, Forget
<1>6. CASE MarkSummaryPending \/ Settle
  BY <1>6 DEF MarkSummaryPending, Settle, Flush
<1>7. CASE EnqueueRange
  BY <1>7, ReturnLeavesJob DEF EnqueueRange
<1>8. CASE SaveText \/ SaveTextFails \/ MarkTranscribed
  BY <1>8 DEF SaveText, SaveTextFails, MarkTranscribed
<1>9. CASE RecordSuccess \/ ProviderFails \/ RecordFirstFailure \/ HonorRateLimit
  BY <1>9, ReturnLeavesJob DEF RecordSuccess, ProviderFails, RecordFirstFailure, HonorRateLimit
<1>10. CASE RequeueExhausted \/ QueueSecondWrite \/ WalkSavedAudio \/ EnqueueSavedRange \/ FinishRecovery
  BY <1>10 DEF RequeueExhausted, QueueSecondWrite, WalkSavedAudio, EnqueueSavedRange, FinishRecovery
<1>11. CASE NoSummary \/ LeaveAudioOnly \/ WriteSummary \/ MarkProcessed
  BY <1>11 DEF NoSummary, LeaveAudioOnly, WriteSummary, MarkProcessed, SummaryReturn
<1>12. CASE UNCHANGED vars
  BY <1>12 DEF vars
<1>. QED
  BY <1>1, <1>2, <1>3, <1>4, <1>5, <1>6, <1>7, <1>8, <1>9, <1>10, <1>11, <1>12 DEF Next, WorkerStep, CallStep

\* Every step of the pipeline is a step of the queue or leaves it alone.
LEMMA QueueStep ==
  ASSUME CurrentIsJob, [Next]_vars
  PROVE  [RQ!Next]_(RQ!vars)
<1>1. UNCHANGED queue => UNCHANGED RQ!vars
  BY DEF queue, RQ!vars
<1>2. RQ!LoadOrCreate \/ RQ!OtherWriteFails \/ RQ!Crash \/ RQ!Quit => RQ!Next
  BY DEF RQ!Next
<1>3. RQ!RequeueDead \/ RQ!UnlinkDead \/ RQ!DeferUntil => RQ!Next
  BY DEF RQ!Next
<1>4. \A j \in Jobs : \/ \E wait \in {"due", "held"} : RQ!Enqueue(j, wait)
                      \/ RQ!RecordFailure(j)
                      \/ RQ!Exhaust(j)
                      \/ RQ!GiveUp(j)
                      \/ RQ!RetainAndPersist(j)
                      \/ RQ!RecordSuccess(j)
                      \/ RQ!ComesDue(j)
                  => RQ!Next
  BY DEF RQ!Next
<1>5. at \in HasJob => Current \in Jobs
  BY CurrentInJobs
<1> USE <1>1, <1>2, <1>3, <1>4
<1>6. CASE UserStep \/ StartRetryWorker
  BY <1>6 DEF UserStep, StartRecording, ResumeRecording, RetryNotes, ResetMeta, HandleAudioChunk,
              StopRecording, StartRetryWorker
<1>7. CASE ComesDue \/ Crash
  BY <1>7 DEF ComesDue, ComesDueJob, Crash
<1>8. CASE WorkerStep
  BY <1>5, <1>8 DEF WorkerStep, Tick, NextDueJob, RetryFails, RecordRetryFailure, AfterFailure,
                    WorkerSummary, EndTick, DeferAll, At, HasJob
<1>9. CASE MarkSummaryPending \/ Settle \/ SaveText \/ SaveTextFails \/ MarkTranscribed \/ ProviderFails
  BY <1>9 DEF MarkSummaryPending, Settle, SaveText, SaveTextFails, MarkTranscribed, ProviderFails
<1>10. CASE EnqueueRange \/ EnqueueSavedRange
  BY <1>10 DEF EnqueueRange, EnqueueSavedRange
<1>11. CASE RecordSuccess \/ RecordFirstFailure
  BY <1>5, <1>11 DEF RecordSuccess, RecordFirstFailure, At, HasJob
<1>12. CASE HonorRateLimit \/ RequeueExhausted \/ QueueSecondWrite \/ WalkSavedAudio \/ FinishRecovery
  BY <1>12 DEF HonorRateLimit, DeferAll, RequeueExhausted, QueueSecondWrite, WalkSavedAudio, FinishRecovery
<1>13. CASE NoSummary \/ LeaveAudioOnly \/ WriteSummary \/ MarkProcessed
  BY <1>13 DEF NoSummary, LeaveAudioOnly, WriteSummary, MarkProcessed
<1>14. CASE UNCHANGED vars
  BY <1>14 DEF vars
<1>. QED
  BY <1>6, <1>7, <1>8, <1>9, <1>10, <1>11, <1>12, <1>13, <1>14 DEF Next, CallStep

\* The pipeline and its retry worker use the queue only through the operations
\* of resilience.rs, in their order, and on jobs of the queue: every behaviour
\* of the pipeline is, seen through the queue's files, one of RetryQueue.
THEOREM PipelineImplementsQueue == Spec => RetryQueueSpec
<1>1. Init => RQ!Init /\ CurrentIsJob
  BY DEF Init, CurrentIsJob, HasJob
<1>2. CurrentIsJob /\ [Next]_vars => CurrentIsJob'
  BY CurrentStep
<1>3. CurrentIsJob /\ [Next]_vars => [RQ!Next]_(RQ!vars)
  BY QueueStep
<1>. QED
  BY <1>1, <1>2, <1>3, PTL DEF Spec, RetryQueueSpec, RQ!Spec

-----------------------------------------------------------------------------
(****************************************************************************)
(* What the queue promises, RetryQueueProofs shows of RetryQueue. The       *)
(* pipeline inherits it through the refinement.                             *)
(****************************************************************************)
QP == INSTANCE RetryQueueProofs

\* The two instances of the queue are the same module on the same variables.
LEMMA SameQueue ==
  /\ RQ!Init => QP!Init
  /\ [RQ!Next]_(RQ!vars) => [QP!Next]_(QP!vars)
  /\ QP!TypeOK <=> RQ!TypeOK
  /\ QP!NoAckedJobVanishes <=> RQ!NoAckedJobVanishes
  /\ QP!NoDuplicateWork <=> RQ!NoDuplicateWork
<1>1. RQ!Init => QP!Init
  BY DEF RQ!Init, QP!Init, RQ!NoJobs, QP!NoJobs, RQ!NoDead, QP!NoDead, RQ!Idle, QP!Idle
<1>2. RQ!Next => QP!Next
  BY DEF RQ!vars, QP!vars, RQ!queueVars, QP!queueVars, RQ!history, QP!history, RQ!FaultKinds,
         QP!FaultKinds, RQ!Entry, QP!Entry, RQ!Fresh, QP!Fresh, RQ!Idle, QP!Idle, RQ!Retaining,
         QP!Retaining, RQ!Unlinking, QP!Unlinking, RQ!NoJobs, QP!NoJobs, RQ!NoDead, QP!NoDead,
         RQ!Ready, QP!Ready, RQ!NoFault, QP!NoFault, RQ!Fault, QP!Fault, RQ!PersistOk,
         QP!PersistOk, RQ!PersistFails, QP!PersistFails, RQ!Persist, QP!Persist, RQ!LoadOrCreate,
         QP!LoadOrCreate, RQ!Crash, QP!Crash, RQ!Quit, QP!Quit, RQ!Enqueue, QP!Enqueue, RQ!Bury,
         QP!Bury, RQ!BuryFails, QP!BuryFails, RQ!Removing, QP!Removing, RQ!RetainAndPersist,
         QP!RetainAndPersist, RQ!Failed, QP!Failed, RQ!Exhausts, QP!Exhausts, RQ!RecordFailure,
         QP!RecordFailure, RQ!Exhaust, QP!Exhaust, RQ!GiveUp, QP!GiveUp, RQ!RecordSuccess,
         QP!RecordSuccess, RQ!DeferUntil, QP!DeferUntil, RQ!Revived, QP!Revived, RQ!RequeueDead,
         QP!RequeueDead, RQ!UnlinkDead, QP!UnlinkDead, RQ!ComesDue, QP!ComesDue,
         RQ!OtherWriteFails, QP!OtherWriteFails, RQ!Next, QP!Next
<1>3. UNCHANGED RQ!vars => UNCHANGED QP!vars
  BY DEF RQ!vars, QP!vars
<1>4. QP!TypeOK <=> RQ!TypeOK
  BY DEF QP!TypeOK, RQ!TypeOK, QP!Entry, RQ!Entry, QP!Calls, RQ!Calls, QP!FaultKinds, RQ!FaultKinds
<1>5. QP!NoAckedJobVanishes <=> RQ!NoAckedJobVanishes
  BY DEF RQ!NoAckedJobVanishes, QP!NoAckedJobVanishes, RQ!Undamaged, QP!Undamaged,
         RQ!Damage, QP!Damage, RQ!OnDisk, QP!OnDisk
<1>6. QP!NoDuplicateWork <=> RQ!NoDuplicateWork
  BY DEF RQ!NoDuplicateWork, QP!NoDuplicateWork, RQ!Damage, QP!Damage, RQ!Ready, QP!Ready,
         RQ!Idle, QP!Idle
<1>. QED
  BY <1>1, <1>2, <1>3, <1>4, <1>5, <1>6

\* Through every recording, recovery and retry the meeting's queue is well typed,
\* loses no transcription job whose enqueue returned (NoAckedJobVanishes) and,
\* while nothing interrupts a call, hands none out twice (NoDuplicateWork).
THEOREM PipelineKeepsItsJobs ==
  Spec => []RQ!TypeOK /\ []RQ!NoAckedJobVanishes /\ []RQ!NoDuplicateWork /\ []QP!OnlyIssued
<1>1. MaxAttempts \in Nat \ {0} /\ Faults \subseteq QP!FaultKinds /\ MaxFaults \in Nat
  BY QueueAssumption DEF RQ!FaultKinds, QP!FaultKinds
<1>2. QP!Spec => []QP!TypeOK
  BY <1>1, QP!TypeCorrect
<1>3. QP!Spec => []QP!NoAckedJobVanishes
  BY <1>1, QP!AckedJobsSurvive
<1>4. QP!Spec => []QP!NoDuplicateWork /\ []QP!OnlyIssued
  BY <1>1, QP!NoJobHandedOutTwice
<1>5. RQ!Spec => QP!Spec
  BY SameQueue, PTL DEF RQ!Spec, QP!Spec
<1>6. RQ!Spec => []RQ!TypeOK /\ []RQ!NoAckedJobVanishes /\ []RQ!NoDuplicateWork /\ []QP!OnlyIssued
  BY <1>2, <1>3, <1>4, <1>5, SameQueue, PTL
<1>. QED
  BY <1>6, PipelineImplementsQueue, PTL DEF RetryQueueSpec

-----------------------------------------------------------------------------
(****************************************************************************)
(* Type correctness of the pipeline.                                        *)
(****************************************************************************)
\* A set of naturals has a least element.
LEMMA NatMin ==
  ASSUME NEW S, S \subseteq Nat, S # {}
  PROVE  \E x \in S : \A y \in S : x <= y
<1>1. \E x \in S : \A y \in S : ~ (<<y, x>> \in OpToRel(<, Nat))
  BY NatLessThanWellFounded, WFMin
<1>2. \A x, y \in Nat : <<y, x>> \in OpToRel(<, Nat) <=> y < x
  BY DEF OpToRel
<1>3. PICK x \in S : \A y \in S : ~ (<<y, x>> \in OpToRel(<, Nat))
  BY <1>1
<1>4. \A y \in S : x \in Nat /\ y \in Nat /\ ~ (y < x)
  BY <1>2, <1>3
<1>5. \A y \in S : x <= y
  BY <1>4
<1>. QED
  BY <1>5

\* What Min and Max return.
LEMMA Least ==
  ASSUME NEW S, S \subseteq Nat, S # {}
  PROVE  Min(S) \in S /\ \A y \in S : Min(S) <= y
  BY NatMin DEF Min

\* The greatest of some numbers that are bounded.
LEMMA Greatest ==
  ASSUME NEW n \in Nat, NEW S, S \subseteq 0..n, S # {}
  PROVE  Max(S) \in S /\ \A y \in S : y <= Max(S)
<1> DEFINE T == {n - x : x \in S}
<1>0. \A x \in S : x \in Int /\ 0 <= x /\ x <= n
  OBVIOUS
<1>1. T \subseteq Nat /\ T # {}
  <2>1. \A x \in S : n - x \in Nat
    BY <1>0
  <2>. QED
    BY <2>1
<1>2. PICK t \in T : \A y \in T : t <= y
  BY <1>1, NatMin
<1>3. PICK x \in S : t = n - x
  OBVIOUS
<1>4. \A y \in S : x >= y
  <2> TAKE y \in S
  <2>1. n - y \in T
    OBVIOUS
  <2>2. n - x <= n - y
    BY <1>2, <1>3, <2>1
  <2>3. x \in Int /\ y \in Int
    BY <1>0
  <2>. QED
    BY <2>2, <2>3
<1>5. \E z \in S : \A y \in S : z >= y
  BY <1>4
<1>6. Max(S) \in S /\ \A y \in S : Max(S) >= y
  BY <1>5 DEF Max
<1>. QED
  BY <1>6

\* The greater and the smaller of two numbers.
LEMMA OfTwo ==
  ASSUME NEW a \in Int, NEW b \in Int
  PROVE  /\ Max({a, b}) = IF a >= b THEN a ELSE b
         /\ Min({a, b}) = IF a <= b THEN a ELSE b
<1>1. Max({a, b}) \in {a, b} /\ \A y \in {a, b} : Max({a, b}) >= y
  <2>1. \E x \in {a, b} : \A y \in {a, b} : x >= y
    OBVIOUS
  <2>. QED
    BY <2>1 DEF Max
<1>2. Min({a, b}) \in {a, b} /\ \A y \in {a, b} : Min({a, b}) <= y
  <2>1. \E x \in {a, b} : \A y \in {a, b} : x <= y
    OBVIOUS
  <2>. QED
    BY <2>1 DEF Min
<1>. QED
  BY <1>1, <1>2

\* The jobs an operation of the queue leaves drawn: only enqueue draws one.
LEMMA QueueIssues ==
  /\ RQ!LoadOrCreate \/ RQ!OtherWriteFails \/ RQ!Crash \/ RQ!Quit \/ RQ!RequeueDead
       \/ RQ!UnlinkDead \/ RQ!DeferUntil => issued' = issued
  /\ \A j : RQ!RecordFailure(j) \/ RQ!Exhaust(j) \/ RQ!GiveUp(j) \/ RQ!RetainAndPersist(j)
              \/ RQ!RecordSuccess(j) \/ RQ!ComesDue(j) => issued' = issued
  /\ \A j, wait : RQ!Enqueue(j, wait) => j \notin issued /\ issued' = issued \cup {j}
  /\ UNCHANGED queue => issued' = issued
  /\ DeferAll => issued' = issued
BY DEF RQ!LoadOrCreate, RQ!OtherWriteFails, RQ!Crash, RQ!Quit, RQ!RequeueDead, RQ!UnlinkDead,
       RQ!DeferUntil, RQ!RecordFailure, RQ!Exhaust, RQ!GiveUp, RQ!RetainAndPersist,
       RQ!RecordSuccess, RQ!ComesDue, RQ!Enqueue, RQ!history, queue, DeferAll

\* A job that is due in memory is one that was drawn.
LEMMA DueIssued ==
  ASSUME RQ!TypeOK, QP!OnlyIssued, NEW j \in Jobs
  PROVE  DueEntries(j) \in Nat /\ (DueEntries(j) > 0 => j \in issued)
<1> DEFINE D == {i \in DOMAIN mem[j] : mem[j][i].wait = "due"}
<1>1. mem[j] \in Seq(RQ!Entry)
  BY DEF RQ!TypeOK
<1>2. DOMAIN mem[j] = 1..Len(mem[j]) /\ Len(mem[j]) \in Nat
  BY <1>1, LenProperties
<1>3. IsFiniteSet(D)
  <2>1. IsFiniteSet(1..Len(mem[j]))
    BY <1>2, FS_Interval
  <2>2. D \subseteq 1..Len(mem[j])
    BY <1>2
  <2>. QED
    BY <2>1, <2>2, FS_Subset
<1>4. Cardinality(D) \in Nat
  BY <1>3, FS_CardinalityType
<1>5. mem[j] = <<>> => D = {}
  BY <1>1, <1>2, EmptySeq
<1>6. mem[j] = <<>> => Cardinality(D) = 0
  BY <1>5, FS_EmptySet
<1>. QED
  BY <1>4, <1>6 DEF DueEntries, QP!OnlyIssued

\* What TypeOK says of the pipeline's own state, with what that needs to be
\* inductive: the notes are made from text of saved audio, the jobs of a tick
\* were drawn, and every range is a piece of audio.
OwnTypes ==
  /\ len \in 0..MaxLen /\ cursor \in 0..len /\ offset \in 0..len
  /\ text \in [Units -> 0..2]
  /\ state \in {"none", "recording", "stopped", "processed"}
  /\ owes \in BOOLEAN /\ accepting \in BOOLEAN
  /\ notes = NoNotes \/ notes \subseteq 1..len
  /\ payload \in [Jobs -> SUBSET (1..len)]
  /\ pending \subseteq 1..len /\ range \subseteq 1..len
  /\ completed \subseteq issued /\ cur \subseteq issued
  /\ at \in Steps /\ ctx \in Contexts
  /\ down \in {"no", "yes", "limited"}
  /\ todo \in [Jobs -> Nat]
  /\ tries \in 0..MaxSummaryAttempts /\ backoff \in Nat
  /\ retries \in 0..MaxNotesRetries
  /\ Transcribed \subseteq 1..len
  /\ \A j \in Jobs : todo[j] > 0 => j \in issued
  /\ \A j \in issued : payload[j] # {}
  /\ at \in {"enqueue", "save"} => range # {}

\* Where the walk over the saved audio may end its next range.
LEMMA BatchEndType ==
  ASSUME OwnTypes, RQ!TypeOK, QP!OnlyIssued, offset < len
  PROVE  BatchEnd \in (offset + 1)..len
<1>1. len \in Nat /\ offset \in Nat /\ BatchUnits \in Nat /\ BatchUnits >= 1
  BY BoundsAssumption, BatchAssumption DEF OwnTypes
<1>2. \A q \in QueuedRanges : q # {} /\ q \subseteq 1..len
  BY DEF QueuedRanges, Queued, QP!OnlyIssued, OwnTypes
<1>3. \A q \in QueuedRanges : Min(q) \in 1..len
  <2> TAKE q \in QueuedRanges
  <2>1. q # {} /\ q \subseteq 1..len /\ q \subseteq Nat
    BY <1>1, <1>2
  <2>. QED
    BY <2>1, Least
<1>4. \A first \in NextQueued : first \in 1..len /\ first > offset + 1
  BY <1>3 DEF NextQueued
<1> DEFINE S == {offset + BatchUnits, len} \cup {first - 1 : first \in NextQueued}
<1>5. \A x \in S : x \in Nat /\ x >= offset + 1
  BY <1>1, <1>4
<1>6. Min(S) \in S /\ \A y \in S : Min(S) <= y
  BY <1>5, Least
<1>7. Min(S) \in Nat /\ Min(S) >= offset + 1 /\ Min(S) <= len
  BY <1>5, <1>6
<1>. QED
  BY <1>1, <1>7 DEF BatchEnd

\* Every step keeps the types of the pipeline's own state.
LEMMA OwnTypesStep ==
  ASSUME OwnTypes, RQ!TypeOK, QP!OnlyIssued, CurrentIsJob, [Next]_vars
  PROVE  OwnTypes'
<1>0. len \in Nat /\ cursor \in Nat /\ offset \in Nat
  BY BoundsAssumption DEF OwnTypes
<1>i. issued \subseteq Jobs
  BY DEF RQ!TypeOK
<1> USE <1>0, BoundsAssumption, QueueIssues DEF OwnTypes, Steps, Contexts, locals, worker, disk, volatile, At, Goto, Transcribed
<1>1. CASE StartRecording
  BY <1>1 DEF StartRecording
<1>12. CASE StartRetryWorker
  BY <1>12 DEF StartRetryWorker
<1>2. CASE ResumeRecording
  BY <1>2 DEF ResumeRecording
<1>3. CASE RetryNotes
  BY <1>3 DEF RetryNotes
<1>4. CASE ResetMeta
  BY <1>4 DEF ResetMeta
<1>5. CASE HandleAudioChunk
  <2>1. len + 1 \in 0..MaxLen /\ 1..len \subseteq 1..(len + 1) /\ len + 1 \in 1..(len + 1)
    BY <1>5 DEF HandleAudioChunk
  <2>2. payload \in [Jobs -> SUBSET (1..(len + 1))]
    BY <2>1
  <2>3. pending' \subseteq 1..len' /\ range' \subseteq 1..len' /\ (at' \in {"enqueue", "save"} => range' # {})
    BY <1>5, <2>1 DEF HandleAudioChunk, Idle
  <2>4. at' \in Steps /\ ctx' \in Contexts
    BY <1>5 DEF HandleAudioChunk
  <2>. QED
    BY <1>5, <2>1, <2>2, <2>3, <2>4 DEF HandleAudioChunk
<1>6. CASE StopRecording
  BY <1>6 DEF StopRecording, Flush
<1>7. CASE MarkSummaryPending
  BY <1>7 DEF MarkSummaryPending, Flush
<1>8. CASE Settle
  BY <1>8 DEF Settle
<1>9. CASE ComesDue
  BY <1>9 DEF ComesDue, ComesDueJob
<1>10. ASSUME Forget, issued' = issued, UNCHANGED <<len, text, cursor, state, notes, payload>>, owes' = owes
       PROVE  OwnTypes'
  <2>1. todo' \in [Jobs -> Nat] /\ \A j \in Jobs : todo'[j] = 0
    BY <1>10 DEF Forget, NoTodo
  <2>2. /\ accepting' \in BOOLEAN /\ pending' = {} /\ completed' = {} /\ at' = "idle" /\ ctx' = "none"
        /\ cur' = {} /\ range' = {} /\ offset' = 0 /\ down' = "no"
        /\ tries' = 0 /\ backoff' = 0 /\ retries' = retries
    BY <1>10 DEF Forget
  <2>3. 0 \in 0..len /\ 0 \in 0..MaxSummaryAttempts /\ 0 \in Nat
    OBVIOUS
  <2>. QED
    BY <1>10, <2>1, <2>2, <2>3
<1>11. CASE Crash
  BY <1>10, <1>11 DEF Crash
<1>13. CASE Tick
  <2>1. \A j \in Jobs : DueEntries(j) \in Nat /\ (DueEntries(j) > 0 => j \in issued)
    BY DueIssued
  <2>2. todo' \in [Jobs -> Nat] /\ \A j \in Jobs : todo'[j] > 0 => j \in issued
    BY <1>13, <2>1 DEF Tick
  <2>3. backoff' \in Nat
    <3>1. backoff \in Nat /\ Max({backoff - 1, 0}) = IF backoff - 1 >= 0 THEN backoff - 1 ELSE 0
      BY OfTwo
    <3>. QED
      BY <1>13, <3>1 DEF Tick
  <2>. QED
    BY <1>13, <2>2, <2>3 DEF Tick, Idle
<1>14. CASE NextDueJob
  <2>1. PICK j \in Jobs :
          /\ todo[j] > 0
          /\ todo' = [todo EXCEPT ![j] = @ - 1]
          /\ \/ j \in completed /\ RQ!RecordSuccess(j) /\ completed' \subseteq completed
                 /\ at' = "jobs" /\ UNCHANGED <<cur, range>>
             \/ cur' = {j} /\ range' = payload[j] /\ at' = "provider"
                 /\ UNCHANGED <<queue, completed>>
    BY <1>14 DEF NextDueJob
  <2>2. ctx' = ctx /\ issued' = issued /\ j \in issued
    BY <1>14, <2>1 DEF NextDueJob
  <2>3. todo' \in [Jobs -> Nat] /\ \A i \in Jobs : todo'[i] > 0 => i \in issued
    BY <2>1, <2>2
  <2>. QED
    BY <1>14, <2>1, <2>2, <2>3 DEF NextDueJob
<1>15. CASE RetryFails
  BY <1>15 DEF RetryFails
<1>16. CASE RecordRetryFailure
  BY <1>16 DEF RecordRetryFailure
<1>17. CASE AfterFailure
  <2>1. at \in {"kept", "parked"} /\ issued' = issued /\ UNCHANGED <<disk, volatile, offset, todo, worker>>
    BY <1>17 DEF AfterFailure
  <2>2. /\ at' \in {"kept", "parked", "summary", "jobs"} /\ ctx' = ctx
        /\ down' \in {"no", "yes", "limited"}
    BY <1>17, <2>1 DEF AfterFailure
  <2>3. cur' \subseteq issued' /\ range' \subseteq 1..len
    BY <1>17, <2>1 DEF AfterFailure
  <2>. QED
    BY <2>1, <2>2, <2>3
<1>18. CASE WorkerSummary
  <2>1. todo' \in [Jobs -> Nat] /\ \A j \in Jobs : todo'[j] = 0
    BY <1>18 DEF WorkerSummary, NoTodo
  <2>2. tries' \in 0..MaxSummaryAttempts
    <3>1. tries \in Int /\ tries + 1 \in Int /\ MaxSummaryAttempts \in Int
      OBVIOUS
    <3>2. Min({tries + 1, MaxSummaryAttempts})
            = IF tries + 1 <= MaxSummaryAttempts THEN tries + 1 ELSE MaxSummaryAttempts
      BY <3>1, OfTwo
    <3>. QED
      BY <1>18, <3>2 DEF WorkerSummary
  <2>. QED
    BY <1>18, <2>1, <2>2 DEF WorkerSummary
<1>19. CASE EndTick
  <2>1. backoff' \in Nat \/ Forget
    <3>1. Min({tries, 7}) \in 0..7
      <4>1. tries \in Int /\ 7 \in Int
        OBVIOUS
      <4>2. Min({tries, 7}) = IF tries <= 7 THEN tries ELSE 7
        BY <4>1, OfTwo
      <4>. QED
        BY <4>2
    <3>2. BackoffTicks(tries) \in Nat
      BY <3>1 DEF BackoffTicks
    <3>. QED
      BY <1>19, <3>2 DEF EndTick
  <2>2. CASE RQ!Quit /\ Forget /\ UNCHANGED <<owes, state>>
    <3>1. issued' = issued /\ UNCHANGED <<len, text, cursor, state, notes, payload>> /\ owes' = owes
      BY <1>19, <2>2 DEF EndTick
    <3>. QED
      BY <1>10, <2>2, <3>1
  <2>3. CASE ~ (RQ!Quit /\ Forget /\ UNCHANGED <<owes, state>>)
    <3>1. UNCHANGED <<volatile, locals, retries>> /\ at' = "idle" /\ ctx' = "none" /\ tries' \in {0, tries}
      BY <1>19, <2>3 DEF EndTick
    <3>2. issued' = issued
      BY <1>19, <2>3 DEF EndTick
    <3>3. owes' \in BOOLEAN /\ state' \in {"none", "recording", "stopped", "processed"}
      BY <1>19, <2>3 DEF EndTick, ClearSummaryPending
    <3>4. backoff' \in Nat
      BY <1>19, <2>1, <2>3 DEF EndTick, Forget
    <3>. QED
      BY <1>19, <3>1, <3>2, <3>3, <3>4 DEF EndTick
  <2>. QED
    BY <2>2, <2>3
<1>20. ASSUME NEW isDown, Return(isDown)
       PROVE  /\ cur' = {} /\ range' = {} /\ down' \in {"no", "yes", "limited"}
              /\ at' \in {"idle", "settle", "walk"} /\ ctx' \in Contexts
  BY <1>20 DEF Return
<1>21. ASSUME NEW wait, RQ!Enqueue(Fresh, wait), Fresh \in Jobs, range # {},
              payload' = [payload EXCEPT ![Fresh] = range]
       PROVE  /\ payload' \in [Jobs -> SUBSET (1..len)] /\ \A j \in issued' : payload'[j] # {}
              /\ issued' = issued \cup {Fresh}
  BY <1>21, <1>i
<1>22. CASE EnqueueRange
  <2>1. /\ payload' \in [Jobs -> SUBSET (1..len)] /\ \A j \in issued' : payload'[j] # {}
        /\ issued' = issued \cup {Fresh}
    BY <1>21, <1>22 DEF EnqueueRange
  <2>2. /\ range' \subseteq 1..len /\ cur' \subseteq issued' /\ at' \in Steps \ {"enqueue", "save"}
        /\ ctx' \in Contexts /\ down' \in {"no", "yes", "limited"}
    BY <1>20, <1>22, <2>1 DEF EnqueueRange
  <2>. QED
    BY <1>22, <2>1, <2>2 DEF EnqueueRange
<1>23. CASE EnqueueSavedRange
  <2>1. /\ payload' \in [Jobs -> SUBSET (1..len)] /\ \A j \in issued' : payload'[j] # {}
        /\ issued' = issued \cup {Fresh}
    BY <1>21, <1>23 DEF EnqueueSavedRange
  <2>2. /\ range' \subseteq 1..len /\ at' \in {"walk", "enqueue"} /\ (at' = "enqueue" => range' # {})
        /\ ctx' = ctx
    BY <1>23 DEF EnqueueSavedRange
  <2>. QED
    BY <1>23, <2>1, <2>2 DEF EnqueueSavedRange
<1>24. CASE SaveText
  <2>1. /\ text' = [u \in Units |-> IF u \in range THEN Min({text[u] + 1, 2}) ELSE text[u]]
        /\ at' = "cursor" /\ ctx' = ctx /\ UNCHANGED queue
    BY <1>24 DEF SaveText
  <2>2. \A u \in Units : text[u] \in 0..2 /\ Min({text[u] + 1, 2}) \in 0..2
    <3> TAKE u \in Units
    <3>1. text[u] \in 0..2 /\ text[u] + 1 \in Int /\ 2 \in Int
      OBVIOUS
    <3>2. Min({text[u] + 1, 2}) = IF text[u] + 1 <= 2 THEN text[u] + 1 ELSE 2
      BY <3>1, OfTwo
    <3>. QED
      BY <3>1, <3>2
  <2>3. text' \in [Units -> 0..2] /\ {u \in Units : text'[u] > 0} \subseteq 1..len
    BY <2>1, <2>2
  <2>. QED
    BY <1>24, <2>1, <2>3 DEF SaveText
<1>25. CASE SaveTextFails
  BY <1>25 DEF SaveTextFails
<1>26. CASE MarkTranscribed
  <2>1. Max({cursor} \cup range) \in 0..len
    <3>1. {cursor} \cup range \subseteq 0..len
      OBVIOUS
    <3>. QED
      BY <3>1, Greatest
  <2>. QED
    BY <1>26, <2>1 DEF MarkTranscribed
<1>27. CASE RecordSuccess
  BY <1>20, <1>27 DEF RecordSuccess
<1>28. CASE ProviderFails
  BY <1>20, <1>28 DEF ProviderFails
<1>29. CASE RecordFirstFailure \/ HonorRateLimit
  BY <1>20, <1>29 DEF RecordFirstFailure, HonorRateLimit
<1>30. CASE RequeueExhausted
  BY <1>30 DEF RequeueExhausted
<1>31. CASE QueueSecondWrite
  <2>1. /\ issued' = issued /\ ctx' = ctx /\ at' \in {at, "parked", "kept"}
    BY <1>31 DEF QueueSecondWrite
  <2>. QED
    BY <1>31, <2>1 DEF QueueSecondWrite
<1>32. CASE WalkSavedAudio
  <2>1. CASE offset >= len
    <3>1. /\ at' = "stop" /\ UNCHANGED <<offset, range, ctx, queue, disk, volatile, cur, down, todo, worker>>
      BY <1>32, <2>1 DEF WalkSavedAudio
    <3>. QED
      BY <3>1
  <2>2. ASSUME NEW r \in QueuedRanges, offset + 1 \in r
        PROVE  Max(r) \in 0..len
    <3>1. r \subseteq 0..len /\ r # {}
      BY <2>2 DEF QueuedRanges, Queued
    <3>. QED
      BY <3>1, Greatest
  <2>3. offset < len => /\ BatchEnd \in 0..len /\ (offset + 1)..BatchEnd \subseteq 1..len
                        /\ (offset + 1)..BatchEnd # {}
    BY BatchEndType
  <2>4. CASE offset < len
    <3>1. /\ offset' \in 0..len /\ range' \subseteq 1..len /\ at' \in {"walk", "enqueue", "save"}
          /\ (at' \in {"enqueue", "save"} => range' # {})
      <4>1. CASE /\ \E r \in QueuedRanges : offset + 1 \in r /\ offset' = Max(r)
                 /\ at' = "walk" /\ range' = range
        BY <2>2, <4>1
      <4>2. CASE range' = (offset + 1)..BatchEnd /\ offset' = BatchEnd /\ at' \in {"enqueue", "save"}
        BY <2>3, <2>4, <4>2
      <4>. QED
        BY <1>32, <2>4, <4>1, <4>2 DEF WalkSavedAudio
    <3>2. UNCHANGED <<ctx, queue, disk, volatile, cur, down, todo, worker>>
      BY <1>32 DEF WalkSavedAudio
    <3>. QED
      BY <3>1, <3>2
  <2>. QED
    BY <2>1, <2>4
<1>33. CASE FinishRecovery
  BY <1>33 DEF FinishRecovery
<1>34. CASE NoSummary
  BY <1>34 DEF NoSummary, SummaryReturn
<1>35. CASE LeaveAudioOnly
  BY <1>35 DEF LeaveAudioOnly, SummaryReturn, ClearSummaryPending
<1>36. CASE WriteSummary
  BY <1>36 DEF WriteSummary
<1>37. CASE MarkProcessed
  BY <1>37 DEF MarkProcessed, SummaryReturn
<1>38. CASE UNCHANGED vars
  BY <1>38 DEF vars, queue
<1>. QED
  BY <1>1, <1>2, <1>3, <1>4, <1>5, <1>6, <1>7, <1>8, <1>9, <1>11, <1>12, <1>13, <1>14, <1>15, <1>16,
     <1>17, <1>18, <1>19, <1>22, <1>23, <1>24, <1>25, <1>26, <1>27, <1>28, <1>29, <1>30, <1>31,
     <1>32, <1>33, <1>34, <1>35, <1>36, <1>37, <1>38
     DEF Next, UserStep, WorkerStep, CallStep

\* The pipeline is well typed, with every length of recording and every fault.
THEOREM PipelineTypeCorrect == Spec => [](TypeOK /\ OwnTypes /\ CurrentIsJob)
<1>1. Init => OwnTypes /\ CurrentIsJob
  <2> SUFFICES ASSUME Init PROVE OwnTypes /\ CurrentIsJob
    OBVIOUS
  <2>1. todo \in [Jobs -> Nat] /\ \A j \in Jobs : todo[j] = 0
    BY DEF Init, NoTodo
  <2>2. text \in [Units -> 0..2] /\ Transcribed = {}
    BY DEF Init, Transcribed
  <2>3. payload \in [Jobs -> SUBSET (1..len)] /\ issued = {}
    BY DEF Init, RQ!Init
  <2>4. CurrentIsJob
    BY DEF Init, CurrentIsJob, HasJob
  <2>5. owes \in BOOLEAN /\ accepting \in BOOLEAN
    BY DEF Init
  <2>6. len = 0 /\ cursor = 0 /\ offset = 0 /\ tries = 0 /\ backoff = 0 /\ retries = 0
    BY DEF Init
  <2>7. len \in 0..MaxLen /\ tries \in 0..MaxSummaryAttempts /\ retries \in 0..MaxNotesRetries
    BY <2>6, BoundsAssumption
  <2>. QED
    BY <2>1, <2>2, <2>3, <2>4, <2>5, <2>6, <2>7 DEF Init, OwnTypes, Steps, Contexts
<1>2. OwnTypes /\ CurrentIsJob /\ RQ!TypeOK /\ QP!OnlyIssued /\ [Next]_vars => OwnTypes' /\ CurrentIsJob'
  BY OwnTypesStep, CurrentStep
<1>3. OwnTypes /\ RQ!TypeOK => TypeOK
  BY DEF OwnTypes, TypeOK
<1>. QED
  BY <1>1, <1>2, <1>3, PipelineKeepsItsJobs, PTL DEF Spec

-----------------------------------------------------------------------------
(****************************************************************************)
(* No audio is forgotten.                                                   *)
(****************************************************************************)
In(q, j) == q[j] # <<>>
Held(j) == In(mem, j) \/ In(file, j) \/ dead[j] > 0

\* The audio that is transcribed or has a job somewhere, and the range that is
\* about to get one.
Covered == Transcribed \cup RangesOf({j \in Jobs : Held(j)})
Claimed == IF at \in {"enqueue", "save"} THEN range ELSE {}

\* What the queue must keep: without a failed write the file has what memory
\* has; only finished or parked jobs are in the file and not in memory.
Excused(j) == dead[j] > 0 \/ payload[j] \subseteq Transcribed
QueueSafe ==
  /\ "write" \notin seen => \A j \in Jobs : In(mem, j) => In(file, j)
  /\ proc = "down" => \A j \in Jobs : ~In(mem, j)
  /\ call.op = "retain" => \A j \in call.jobs : dead[j] > 0
  /\ call.op = "unlink" => \A j \in Jobs : dead[j] > 0 => In(mem, j) /\ In(file, j)
  /\ proc = "up" => \A j \in Jobs : In(file, j) /\ ~In(mem, j) => Excused(j)

\* What the pipeline must keep: everything before a queued range, before the
\* cursor, before the walk's offset and, while it records, before the pending
\* batch is covered; a transcribed job may go.
AudioSafe ==
  /\ \A j \in issued : \A u \in payload[j] : 1..u \subseteq Covered
  /\ 1..cursor \subseteq Covered
  /\ accepting => 1..len \subseteq Covered \cup pending \cup Claimed
  /\ at = "owe" => 1..len \subseteq Covered \cup pending
  /\ ctx = "recover" => 1..offset \subseteq Covered \cup Claimed
  /\ \A u \in Claimed : 1..u \subseteq Covered \cup Claimed
  /\ at \in HasJob => \A j \in cur : payload[j] = range
  /\ at \in {"cursor", "success"} => range \subseteq Transcribed
  /\ \A j \in completed : payload[j] \subseteq Transcribed

NothingForgotten == Intact => QueueSafe /\ AudioSafe

\* An operation of the loaded queue: what it removes from memory is parked or
\* transcribed, and the file follows memory or stays as it is.
LEMMA QueueKeeps ==
  ASSUME QueueSafe, proc = "up", seen \subseteq seen',
         \A j \in Jobs : In(mem, j) /\ ~In(mem', j) => dead'[j] > 0 \/ payload[j] \subseteq Transcribed,
         \A j \in Jobs : dead[j] > 0 => dead'[j] > 0 \/ In(mem', j),
         \/ \A j \in Jobs : In(file', j) <=> In(mem', j)
         \/ "write" \in seen' /\ \A j \in Jobs : In(file', j) <=> In(file, j)
         \/ \A j \in Jobs : (In(file', j) <=> In(file, j)) /\ (In(mem', j) => In(mem, j))
  PROVE  /\ \A j \in Jobs : Held(j) => Held(j)' \/ payload[j] \subseteq Transcribed
         /\ "write" \notin seen' => \A j \in Jobs : In(mem', j) => In(file', j)
         /\ \A j \in Jobs : In(file', j) /\ ~In(mem', j) =>
              dead'[j] > 0 \/ payload[j] \subseteq Transcribed
<1>1. \A j \in Jobs : In(file, j) /\ ~In(mem, j) => dead[j] > 0 \/ payload[j] \subseteq Transcribed
  BY DEF QueueSafe, Excused
<1>2. "write" \notin seen' => \A j \in Jobs : In(mem, j) => In(file, j)
  BY DEF QueueSafe
<1>3. ASSUME NEW j \in Jobs, Held(j)
      PROVE  Held(j)' \/ payload[j] \subseteq Transcribed
  <2>1. Held(j)' <=> In(mem', j) \/ In(file', j) \/ dead'[j] > 0
    BY DEF Held, In
  <2>. QED
    BY <1>1, <1>3, <2>1 DEF Held
<1>4. ASSUME NEW j \in Jobs, In(file', j), ~In(mem', j)
      PROVE  dead'[j] > 0 \/ payload[j] \subseteq Transcribed
  BY <1>1, <1>4
<1>5. "write" \notin seen' => \A j \in Jobs : In(mem', j) => In(file', j)
  BY <1>2
<1>. QED
  BY <1>3, <1>4, <1>5

\* What each operation of the queue does to the jobs it holds.
LEMMA QueueFacts ==
  ASSUME RQ!TypeOK
  PROVE  /\ \A j \in Jobs, wait \in {"due", "held"} : RQ!Enqueue(j, wait) =>
              \A i \in Jobs : In(mem', i) <=> In(mem, i) \/ i = j
         /\ \A j \in Jobs : RQ!RecordFailure(j) \/ RQ!Exhaust(j) =>
              \A i \in Jobs : In(mem', i) <=> In(mem, i)
         /\ \A j \in Jobs : RQ!RetainAndPersist(j) \/ RQ!RecordSuccess(j) =>
              \A i \in Jobs : In(mem', i) <=> In(mem, i) /\ i # j
         /\ RQ!DeferUntil => \A i \in Jobs : In(mem', i) <=> In(mem, i)
         /\ \A j \in Jobs : RQ!ComesDue(j) =>
              \A i \in Jobs : (In(mem', i) <=> In(mem, i)) /\ (In(file', i) <=> In(file, i))
         /\ RQ!RequeueDead => \A i \in Jobs : In(mem, i) => In(mem', i)
         /\ RQ!RequeueDead /\ RQ!Undamaged' => \A i \in Jobs : In(mem', i) <=> In(mem, i) \/ dead[i] > 0
<1>0. \A i \in Jobs : mem[i] \in Seq(RQ!Entry) /\ file[i] \in Seq(RQ!Entry) /\ dead[i] \in Nat
  BY DEF RQ!TypeOK
<1>m. mem = [i \in Jobs |-> mem[i]] /\ file = [i \in Jobs |-> file[i]]
  BY DEF RQ!TypeOK
<1>1. ASSUME NEW j \in Jobs, NEW wait \in {"due", "held"}, RQ!Enqueue(j, wait)
      PROVE  \A i \in Jobs : In(mem', i) <=> In(mem, i) \/ i = j
  <2>1. mem' = [mem EXCEPT ![j] = Append(mem[j], RQ!Fresh(wait))]
    BY <1>1 DEF RQ!Enqueue
  <2>2. RQ!Fresh(wait) \in RQ!Entry
    BY QueueAssumption DEF RQ!Fresh, RQ!Entry
  <2>3. Append(mem[j], RQ!Fresh(wait)) # <<>>
    BY <1>0, <2>2, AppendProperties
  <2>. QED
    BY <1>m, <2>1, <2>3 DEF In
<1>2. ASSUME NEW j \in Jobs, NEW wait \in {"due", "held"}, In(mem, j), mem' = RQ!Failed(j, wait)
      PROVE  \A i \in Jobs : In(mem', i) <=> In(mem, i)
  <2> DEFINE new == [attempts |-> IF mem[j][1].attempts < MaxAttempts
                                    THEN mem[j][1].attempts + 1 ELSE MaxAttempts,
                     wait |-> wait]
             s == [mem[j] EXCEPT ![1] = new]
  <2>1. Len(mem[j]) \in Nat /\ 1 \in 1..Len(mem[j]) /\ DOMAIN mem[j] = 1..Len(mem[j])
    BY <1>0, <1>2, EmptySeq, LenProperties DEF In
  <2>2. 1 \in DOMAIN s
    BY <2>1
  <2>3. s # <<>>
    BY <2>2
  <2>4. RQ!Failed(j, wait) = [mem EXCEPT ![j] = s]
    BY DEF RQ!Failed
  <2>. QED
    BY <1>m, <1>2, <2>3, <2>4 DEF In
<1>3. ASSUME NEW j \in Jobs, RQ!RecordFailure(j)
      PROVE  \A i \in Jobs : In(mem', i) <=> In(mem, i)
  BY <1>2, <1>3 DEF RQ!RecordFailure, In
<1>4. ASSUME NEW j \in Jobs, RQ!Exhaust(j)
      PROVE  \A i \in Jobs : In(mem', i) <=> In(mem, i)
  <2>1. In(mem, j) /\ mem' = RQ!Failed(j, mem[j][1].wait)
    BY <1>4 DEF RQ!Exhaust, In
  <2>2. 1 \in 1..Len(mem[j])
    BY <1>0, <2>1, EmptySeq, LenProperties DEF In
  <2>3. mem[j][1] \in RQ!Entry
    BY <1>0, <2>2, ElementOfSeq
  <2>4. mem[j][1].wait \in {"due", "held"}
    BY <2>3 DEF RQ!Entry
  <2>. QED
    BY <1>2, <2>1, <2>4
<1>5. ASSUME NEW j \in Jobs, RQ!RetainAndPersist(j) \/ RQ!RecordSuccess(j)
      PROVE  \A i \in Jobs : In(mem', i) <=> In(mem, i) /\ i # j
  BY <1>m, <1>5 DEF RQ!RetainAndPersist, RQ!RecordSuccess, In
<1>6. ASSUME NEW s \in Seq(RQ!Entry), NEW e, e = [i \in DOMAIN s |-> e[i]]
      PROVE  e # <<>> <=> s # <<>>
  <2>1. s = <<>> <=> DOMAIN s = {}
    BY LenProperties, EmptySeq
  <2>2. DOMAIN e # {} => e # <<>>
    OBVIOUS
  <2>. QED
    BY <1>6, <2>1, <2>2
<1>7. ASSUME RQ!DeferUntil
      PROVE  \A i \in Jobs : In(mem', i) <=> In(mem, i)
  <2> TAKE i \in Jobs
  <2> DEFINE e == [n \in DOMAIN mem[i] |-> [mem[i][n] EXCEPT !.wait = "held"]]
  <2>1. mem'[i] = e
    BY <1>7 DEF RQ!DeferUntil
  <2>2. e # <<>> <=> mem[i] # <<>>
    BY <1>0, <1>6
  <2>. QED
    BY <2>1, <2>2 DEF In
<1>8. ASSUME NEW j \in Jobs, RQ!ComesDue(j)
      PROVE  \A i \in Jobs : (In(mem', i) <=> In(mem, i)) /\ (In(file', i) <=> In(file, i))
  <2> DEFINE due(s) == [n \in DOMAIN s |-> [s[n] EXCEPT !.wait = "due"]]
  <2>1. mem' = [mem EXCEPT ![j] = due(mem[j])] /\ file' = [file EXCEPT ![j] = due(file[j])]
    BY <1>8 DEF RQ!ComesDue
  <2>2. \A s \in Seq(RQ!Entry) : due(s) # <<>> <=> s # <<>>
    BY <1>6
  <2>3. (due(mem[j]) # <<>> <=> mem[j] # <<>>) /\ (due(file[j]) # <<>> <=> file[j] # <<>>)
    BY <1>0, <2>2
  <2> HIDE DEF due
  <2>. QED
    BY <1>m, <2>1, <2>3 DEF In
<1>9. ASSUME NEW i \in Jobs
      PROVE  mem[i] \o RQ!Revived(dead[i]) # <<>> <=> mem[i] # <<>> \/ dead[i] > 0
  <2>1. mem[i] \in Seq(RQ!Entry) /\ dead[i] \in Nat
    BY <1>0
  <2>2. RQ!Fresh("due") \in RQ!Entry
    BY QueueAssumption DEF RQ!Fresh, RQ!Entry
  <2>3. RQ!Revived(dead[i]) \in Seq(RQ!Entry)
    BY <2>1, <2>2, IsASeq DEF RQ!Revived
  <2>4. Len(RQ!Revived(dead[i])) = dead[i]
    <3>1. DOMAIN RQ!Revived(dead[i]) = 1..dead[i]
      BY DEF RQ!Revived
    <3>2. Len(RQ!Revived(dead[i])) \in Nat
          /\ DOMAIN RQ!Revived(dead[i]) = 1..Len(RQ!Revived(dead[i]))
      BY <2>3, LenProperties
    <3>. QED
      BY <2>1, <3>1, <3>2
  <2>5. /\ mem[i] \o RQ!Revived(dead[i]) \in Seq(RQ!Entry)
        /\ Len(mem[i] \o RQ!Revived(dead[i])) = Len(mem[i]) + Len(RQ!Revived(dead[i]))
    BY <2>1, <2>3, ConcatProperties
  <2>6. \A s \in Seq(RQ!Entry) : Len(s) \in Nat /\ (s = <<>> <=> Len(s) = 0)
    BY LenProperties, EmptySeq
  <2>7. /\ Len(mem[i]) \in Nat /\ (mem[i] = <<>> <=> Len(mem[i]) = 0)
        /\ mem[i] \o RQ!Revived(dead[i]) = <<>> <=> Len(mem[i]) + dead[i] = 0
    BY <2>1, <2>4, <2>5, <2>6
  <2>. QED
    BY <2>1, <2>7
<1>10. ASSUME RQ!RequeueDead
       PROVE  \A i \in Jobs : \/ In(mem', i) <=> In(mem, i) \/ dead[i] > 0
                              \/ (In(mem', i) <=> In(mem, i)) /\ "read" \in seen'
  <2>1. CASE mem' = [i \in Jobs |-> mem[i] \o RQ!Revived(dead[i])]
    BY <1>9, <2>1 DEF In
  <2>2. CASE mem' = mem /\ RQ!Fault("read")
    BY <2>2 DEF In, RQ!Fault
  <2>. QED
    BY <1>10, <2>1, <2>2 DEF RQ!RequeueDead
<1>11. RQ!Undamaged' => "read" \notin seen'
  BY DEF RQ!Undamaged, RQ!Damage
<1>. QED
  BY <1>1, <1>3, <1>4, <1>5, <1>7, <1>8, <1>10, <1>11

\* How the pipeline uses its queue: it reports only transcribed jobs as done,
\* and drops the queue only when it is empty.
CarefulUse ==
  \/ UNCHANGED queue
  \/ RQ!LoadOrCreate
  \/ RQ!OtherWriteFails
  \/ RQ!Crash
  \/ RQ!Quit /\ Queued(mem) = {}
  \/ RQ!RequeueDead
  \/ RQ!UnlinkDead
  \/ RQ!DeferUntil
  \/ \E j \in Jobs :
       \/ \E wait \in {"due", "held"} : RQ!Enqueue(j, wait)
       \/ RQ!RecordFailure(j)
       \/ RQ!Exhaust(j)
       \/ RQ!GiveUp(j)
       \/ RQ!RetainAndPersist(j)
       \/ RQ!ComesDue(j)
       \/ RQ!RecordSuccess(j) /\ payload[j] \subseteq Transcribed

\* The queue stays safe under such a use, and keeps every job it holds unless
\* its text is saved.
LEMMA QueueOperation ==
  ASSUME RQ!TypeOK, QueueSafe, CarefulUse,
         RQ!Undamaged', ~ ({"crash", "write"} \subseteq seen'),
         \A j \in Jobs : Held(j) => payload'[j] = payload[j],
         Transcribed \subseteq Transcribed'
  PROVE  /\ QueueSafe'
         /\ \A j \in Jobs : Held(j) => Held(j)' \/ payload[j] \subseteq Transcribed
<1> DEFINE Kept == \A j \in Jobs : Held(j) => Held(j)' \/ payload[j] \subseteq Transcribed
<1>a. RQ!Idle.op = "idle" /\ RQ!Unlinking.op = "unlink"
      /\ \A j : RQ!Retaining(j).op = "retain" /\ RQ!Retaining(j).jobs = {j}
  BY DEF RQ!Idle, RQ!Unlinking, RQ!Retaining
<1>b. \A j \in Jobs : Held(j)' <=> In(mem', j) \/ In(file', j) \/ dead'[j] > 0
  BY DEF Held, In
<1>c. QueueSafe' <=>
        /\ "write" \notin seen' => \A j \in Jobs : In(mem', j) => In(file', j)
        /\ proc' = "down" => \A j \in Jobs : ~In(mem', j)
        /\ call'.op = "retain" => \A j \in call'.jobs : dead'[j] > 0
        /\ call'.op = "unlink" => \A j \in Jobs : dead'[j] > 0 => In(mem', j) /\ In(file', j)
        /\ proc' = "up" => \A j \in Jobs : In(file', j) /\ ~In(mem', j) =>
                              dead'[j] > 0 \/ payload'[j] \subseteq Transcribed'
  BY DEF QueueSafe, Excused, In
<1>d. dead \in [Jobs -> Nat]
  BY DEF RQ!TypeOK
\* A loaded queue, by QueueKeeps.
<1>1. ASSUME proc = "up", proc' = "up", seen \subseteq seen',
             \A j \in Jobs : In(mem, j) /\ ~In(mem', j) => dead'[j] > 0 \/ payload[j] \subseteq Transcribed,
             \A j \in Jobs : dead[j] > 0 => dead'[j] > 0 \/ In(mem', j),
             \/ \A j \in Jobs : In(file', j) <=> In(mem', j)
             \/ "write" \in seen' /\ \A j \in Jobs : In(file', j) <=> In(file, j)
             \/ \A j \in Jobs : (In(file', j) <=> In(file, j)) /\ (In(mem', j) => In(mem, j)),
             call'.op = "retain" => \A j \in call'.jobs : dead'[j] > 0,
             call'.op = "unlink" => \A j \in Jobs : dead'[j] > 0 => In(mem', j) /\ In(file', j)
      PROVE  QueueSafe' /\ Kept
  <2>1. /\ Kept
        /\ "write" \notin seen' => \A j \in Jobs : In(mem', j) => In(file', j)
        /\ \A j \in Jobs : In(file', j) /\ ~In(mem', j) =>
              dead'[j] > 0 \/ payload[j] \subseteq Transcribed
    BY <1>1, QueueKeeps
  <2>2. \A j \in Jobs : In(file', j) /\ ~In(mem', j) => Held(j)
    BY <1>1 DEF Held
  <2>3. \A j \in Jobs : In(file', j) /\ ~In(mem', j) => dead'[j] > 0 \/ payload'[j] \subseteq Transcribed'
    BY <2>1, <2>2
  <2>. QED
    BY <1>1, <1>c, <2>1, <2>3
\* Steps that leave the jobs where they are.
<1>2. ASSUME seen \subseteq seen', UNCHANGED <<proc, dead, call>>,
             \A j \in Jobs : (In(mem', j) <=> In(mem, j)) /\ (In(file', j) <=> In(file, j))
      PROVE  QueueSafe' /\ Kept
  <2>1. \A j \in Jobs : In(file, j) => Held(j)
    BY DEF Held
  <2>2. proc = "up" => \A j \in Jobs : In(file, j) /\ ~In(mem, j) =>
                         dead[j] > 0 \/ payload'[j] \subseteq Transcribed'
    BY <2>1 DEF QueueSafe, Excused
  <2>3. QueueSafe'
    BY <1>2, <1>c, <2>2 DEF QueueSafe
  <2>4. Kept
    BY <1>2, <1>b DEF Held
  <2>. QED
    BY <2>3, <2>4
<1> HIDE DEF Kept
<1>3. CASE RQ!LoadOrCreate
  <2>1. "corrupt" \notin seen'
    BY DEF RQ!Undamaged, RQ!Damage
  <2>2. mem' = file /\ file' = file /\ dead' = dead /\ proc = "down" /\ proc' = "up" /\ call' = call /\ seen' = seen
    BY <1>3, <2>1 DEF RQ!LoadOrCreate, RQ!NoFault, RQ!Fault
  <2>3. Kept
    BY <1>b, <2>2 DEF Kept, QueueSafe, Held
  <2>4. QueueSafe'
    BY <1>c, <2>2 DEF QueueSafe, In
  <2>. QED
    BY <2>3, <2>4 DEF Kept
<1>4. ASSUME proc' = "down", mem' = RQ!NoJobs, UNCHANGED <<file, dead>>, call'.op = "idle",
             \A j \in Jobs : In(mem, j) => In(file, j)
      PROVE  QueueSafe' /\ Kept
  <2>1. \A j \in Jobs : ~In(mem', j)
    BY <1>4 DEF RQ!NoJobs, In
  <2>2. QueueSafe'
    BY <1>4, <1>c, <2>1
  <2>3. Kept
    BY <1>4, <1>b DEF Kept, Held
  <2>. QED
    BY <2>2, <2>3
<1>5. CASE RQ!Crash
  <2>1. seen' = seen \cup {"crash"} /\ "write" \notin seen
    BY <1>5 DEF RQ!Crash, RQ!Fault
  <2>. QED
    BY <1>a, <1>4, <1>5, <2>1 DEF RQ!Crash, QueueSafe, Kept
<1>6. CASE RQ!Quit /\ Queued(mem) = {}
  <2>1. \A j \in Jobs : ~In(mem, j)
    BY <1>6 DEF Queued, In
  <2>. QED
    BY <1>a, <1>4, <1>6, <2>1 DEF RQ!Quit, RQ!Ready, Kept
<1>7. CASE RQ!OtherWriteFails \/ UNCHANGED queue
  BY <1>2, <1>7 DEF RQ!OtherWriteFails, RQ!queueVars, RQ!Fault, queue, Kept, In
<1>8. ASSUME NEW j \in Jobs, RQ!ComesDue(j)
      PROVE  QueueSafe' /\ Kept
  BY <1>2, <1>8, QueueFacts DEF RQ!ComesDue
<1>9. RQ!Persist => /\ seen \subseteq seen'
                    /\ \/ \A j \in Jobs : In(file', j) <=> In(mem', j)
                       \/ "write" \in seen' /\ \A j \in Jobs : In(file', j) <=> In(file, j)
  BY DEF RQ!Persist, RQ!PersistOk, RQ!PersistFails, RQ!NoFault, RQ!Fault, In
<1>10. CASE RQ!DeferUntil
  <2>1. proc = "up" /\ proc' = "up" /\ call'.op = "idle" /\ dead' = dead /\ RQ!Persist
    BY <1>a, <1>10 DEF RQ!DeferUntil, RQ!Ready
  <2>2. \A j \in Jobs : In(mem', j) <=> In(mem, j)
    BY <1>10, QueueFacts
  <2>. QED
    BY <1>1, <1>9, <2>1, <2>2 DEF Kept
<1>11. ASSUME NEW j \in Jobs, RQ!RecordFailure(j)
       PROVE  QueueSafe' /\ Kept
  <2>1. proc = "up" /\ proc' = "up" /\ call'.op = "idle" /\ dead' = dead /\ RQ!Persist
    BY <1>a, <1>11 DEF RQ!RecordFailure, RQ!Ready
  <2>2. \A i \in Jobs : In(mem', i) <=> In(mem, i)
    BY <1>11, QueueFacts
  <2>. QED
    BY <1>1, <1>9, <2>1, <2>2
<1>12. ASSUME NEW j \in Jobs, NEW wait \in {"due", "held"}, RQ!Enqueue(j, wait)
       PROVE  QueueSafe' /\ Kept
  <2>1. proc = "up" /\ proc' = "up" /\ call'.op = "idle" /\ dead' = dead /\ RQ!Persist
    BY <1>a, <1>12 DEF RQ!Enqueue, RQ!Ready, RQ!Persist
  <2>2. \A i \in Jobs : In(mem', i) <=> In(mem, i) \/ i = j
    BY <1>12, QueueFacts
  <2>. QED
    BY <1>1, <1>9, <2>1, <2>2
<1>13. ASSUME NEW j \in Jobs, RQ!RecordSuccess(j), payload[j] \subseteq Transcribed
       PROVE  QueueSafe' /\ Kept
  <2>1. proc = "up" /\ proc' = "up" /\ call'.op = "idle" /\ dead' = dead /\ RQ!Persist
    BY <1>a, <1>13 DEF RQ!RecordSuccess, RQ!Ready
  <2>2. \A i \in Jobs : In(mem', i) <=> In(mem, i) /\ i # j
    BY <1>13, QueueFacts
  <2>3. \A i \in {j} : payload[i] \subseteq Transcribed
    BY <1>13
  <2>. QED
    BY <1>1, <1>9, <2>1, <2>2, <2>3
<1>14. ASSUME NEW j \in Jobs, RQ!RetainAndPersist(j)
       PROVE  QueueSafe' /\ Kept
  <2>1. proc = "up" /\ proc' = "up" /\ call'.op = "idle" /\ dead' = dead /\ RQ!Persist
    BY <1>a, <1>14 DEF RQ!RetainAndPersist
  <2>2. \A i \in Jobs : In(mem', i) <=> In(mem, i) /\ i # j
    BY <1>14, QueueFacts
  <2>3. \A i \in {j} : dead'[i] > 0
    BY <1>a, <1>14, <2>1 DEF RQ!RetainAndPersist, QueueSafe
  <2>. QED
    BY <1>1, <1>9, <2>1, <2>2, <2>3
<1>15. ASSUME NEW j \in Jobs, RQ!Ready, \A i \in Jobs : In(mem', i) <=> In(mem, i), file' = file, proc' = proc,
              \/ RQ!Bury(j) /\ RQ!Removing(j)
              \/ RQ!BuryFails /\ call' = call
       PROVE  QueueSafe' /\ Kept
  <2>1. proc = "up" /\ proc' = "up" /\ call = RQ!Idle /\ \A i \in Jobs : In(file', i) <=> In(file, i)
    BY <1>15 DEF RQ!Ready, In
  <2>2. seen \subseteq seen' /\ "read" \notin seen'
    BY <1>15 DEF RQ!Bury, RQ!BuryFails, RQ!NoFault, RQ!Fault, RQ!Undamaged, RQ!Damage
  <2>3. CASE RQ!Bury(j) /\ RQ!Removing(j)
    <3>1. dead' = [dead EXCEPT ![j] = @ + 1] /\ call' = RQ!Retaining(j)
      BY <2>2, <2>3 DEF RQ!Bury, RQ!Removing, RQ!Fault
    <3>2. dead'[j] > 0 /\ \A i \in Jobs : dead[i] > 0 => dead'[i] > 0
      BY <1>d, <3>1
    <3>3. call'.op = "retain" /\ \A i \in call'.jobs : dead'[i] > 0
      BY <1>a, <3>1, <3>2
    <3>. QED
      BY <1>1, <1>15, <2>1, <2>2, <3>2, <3>3
  <2>4. CASE RQ!BuryFails /\ call' = call
    <3>1. dead' = dead /\ call'.op = "idle"
      BY <1>a, <2>1, <2>4 DEF RQ!BuryFails
    <3>. QED
      BY <1>1, <1>15, <2>1, <2>2, <3>1
  <2>. QED
    BY <1>15, <2>3, <2>4
<1>16. ASSUME NEW j \in Jobs, RQ!Exhaust(j)
       PROVE  QueueSafe' /\ Kept
  BY <1>15, <1>16, QueueFacts DEF RQ!Exhaust
<1>17. ASSUME NEW j \in Jobs, RQ!GiveUp(j)
       PROVE  QueueSafe' /\ Kept
  BY <1>15, <1>17 DEF RQ!GiveUp, In
<1>18. CASE RQ!RequeueDead
  <2>1. proc = "up" /\ proc' = "up" /\ dead' = dead /\ call = RQ!Idle
    BY <1>18 DEF RQ!RequeueDead, RQ!Ready
  <2>2. \A i \in Jobs : In(mem', i) <=> In(mem, i) \/ dead[i] > 0
    BY <1>18, QueueFacts
  <2>3. "read" \notin seen'
    BY DEF RQ!Undamaged, RQ!Damage
  <2>4. CASE RQ!PersistOk /\ call' = RQ!Unlinking
    <3>1. seen' = seen /\ \A i \in Jobs : In(file', i) <=> In(mem', i)
      BY <2>4 DEF RQ!PersistOk, RQ!NoFault, In
    <3>2. call'.op = "unlink"
      BY <1>a, <2>4
    <3>. QED
      BY <1>1, <2>1, <2>2, <3>1, <3>2 DEF Kept
  <2>5. CASE RQ!PersistFails /\ call' = call
    <3>1. RQ!Persist /\ call'.op = "idle"
      BY <1>a, <2>1, <2>5 DEF RQ!Persist
    <3>. QED
      BY <1>1, <1>9, <2>1, <2>2, <3>1 DEF Kept
  <2>. QED
    BY <1>18, <2>3, <2>4, <2>5 DEF RQ!RequeueDead, RQ!Fault
<1>19. CASE RQ!UnlinkDead
  <2>1. proc = "up" /\ proc' = "up" /\ mem' = mem /\ file' = file /\ call'.op = "idle"
        /\ call.op = "unlink" /\ seen \subseteq seen'
    BY <1>a, <1>19 DEF RQ!UnlinkDead, RQ!NoFault, RQ!Fault
  <2>2. \A i \in Jobs : dead[i] > 0 => In(mem', i)
    BY <2>1 DEF QueueSafe
  <2>3. \A i \in Jobs : (In(file', i) <=> In(file, i)) /\ (In(mem', i) <=> In(mem, i))
    BY <2>1
  <2>. QED
    BY <1>1, <2>1, <2>2, <2>3 DEF Kept
<1>. QED
  BY <1>3, <1>5, <1>6, <1>7, <1>8, <1>10, <1>11, <1>12, <1>13, <1>14, <1>16, <1>17, <1>18, <1>19
     DEF CarefulUse, Kept

\* The pipeline is careful: the job whose success it records has its text saved
\* (transcribe_pending_reporting, process_due_retries, completed_jobs).
LEMMA PipelineIsCareful ==
  ASSUME AudioSafe, CurrentIsJob, completed \subseteq Jobs, [Next]_vars
  PROVE  CarefulUse
<1>1. at \in HasJob => Current \in Jobs
  BY CurrentInJobs
<1>2. at = "success" => payload[Current] \subseteq Transcribed
  <2> SUFFICES ASSUME at = "success" PROVE payload[Current] \subseteq Transcribed
    OBVIOUS
  <2>1. cur # {} /\ range \subseteq Transcribed /\ \A j \in cur : payload[j] = range
    BY DEF AudioSafe, HasJob, CurrentIsJob
  <2>2. Current \in cur
    BY <2>1 DEF Current
  <2>. QED
    BY <2>1, <2>2
<1>3. \A j \in completed : payload[j] \subseteq Transcribed
  BY DEF AudioSafe
<1>4. CASE UserStep \/ StartRetryWorker
  BY <1>4 DEF CarefulUse, UserStep, StartRecording, ResumeRecording, RetryNotes, ResetMeta, HandleAudioChunk,
              StopRecording, StartRetryWorker
<1>5. CASE ComesDue \/ Crash
  BY <1>5 DEF CarefulUse, ComesDue, ComesDueJob, Crash
<1>6. CASE NextDueJob
  BY <1>3, <1>6 DEF CarefulUse, NextDueJob
<1>7. CASE Tick \/ RetryFails \/ RecordRetryFailure \/ AfterFailure \/ WorkerSummary \/ EndTick
  BY <1>1, <1>7 DEF CarefulUse, Tick, RetryFails, RecordRetryFailure, AfterFailure,
                    WorkerSummary, EndTick, DeferAll, At, HasJob
<1>9. CASE MarkSummaryPending \/ Settle \/ SaveText \/ SaveTextFails \/ MarkTranscribed \/ ProviderFails
  BY <1>9 DEF CarefulUse, MarkSummaryPending, Settle, SaveText, SaveTextFails, MarkTranscribed, ProviderFails
<1>10. CASE EnqueueRange \/ EnqueueSavedRange
  BY <1>10 DEF CarefulUse, EnqueueRange, EnqueueSavedRange
<1>11. CASE RecordSuccess \/ RecordFirstFailure
  BY <1>1, <1>2, <1>11 DEF CarefulUse, RecordSuccess, RecordFirstFailure, At, HasJob
<1>12. CASE HonorRateLimit \/ RequeueExhausted \/ QueueSecondWrite \/ WalkSavedAudio \/ FinishRecovery
  BY <1>12 DEF CarefulUse, HonorRateLimit, DeferAll, RequeueExhausted, QueueSecondWrite, WalkSavedAudio, FinishRecovery
<1>13. CASE NoSummary \/ LeaveAudioOnly \/ WriteSummary \/ MarkProcessed
  BY <1>13 DEF CarefulUse, NoSummary, LeaveAudioOnly, WriteSummary, MarkProcessed
<1>14. CASE UNCHANGED vars
  BY <1>14 DEF CarefulUse, vars
<1>. QED
  BY <1>4, <1>5, <1>6, <1>7, <1>9, <1>10, <1>11, <1>12, <1>13, <1>14 DEF Next, WorkerStep, CallStep

\* A drawn job keeps its range.
LEMMA RangesKept ==
  ASSUME OwnTypes, [Next]_vars
  PROVE  \A j \in issued : payload'[j] = payload[j]
<1>1. CASE EnqueueRange \/ EnqueueSavedRange
  <2>1. payload' = [payload EXCEPT ![Fresh] = range] /\ Fresh \notin issued
    BY <1>1, QueueIssues DEF EnqueueRange, EnqueueSavedRange
  <2>. QED
    BY <2>1 DEF OwnTypes
<1>2. CASE ~(EnqueueRange \/ EnqueueSavedRange)
  BY <1>2 DEF Next, UserStep, WorkerStep, CallStep, vars, disk,
       StartRecording, ResumeRecording, RetryNotes, ResetMeta, HandleAudioChunk, StopRecording,
       StartRetryWorker, ComesDue, ComesDueJob, Crash, Tick, NextDueJob, RetryFails,
       RecordRetryFailure, AfterFailure, WorkerSummary, EndTick, MarkSummaryPending, Settle,
       SaveText, SaveTextFails, MarkTranscribed, RecordSuccess, ProviderFails,
       RecordFirstFailure, HonorRateLimit, RequeueExhausted, QueueSecondWrite, WalkSavedAudio,
       FinishRecovery, NoSummary, LeaveAudioOnly, WriteSummary, MarkProcessed
<1>. QED
  BY <1>1, <1>2

\* Until the notes are made again, saved text stays.
LEMMA TextStays ==
  ASSUME OwnTypes, retries' = 0, [Next]_vars
  PROVE  retries = 0 /\ Transcribed \subseteq Transcribed'
<1>1. CASE SaveText
  <2>1. /\ text' = [u \in Units |-> IF u \in range THEN Min({text[u] + 1, 2}) ELSE text[u]]
        /\ retries' = retries
    BY <1>1 DEF SaveText, worker
  <2>2. \A u \in Units : text[u] \in 0..2 /\ Min({text[u] + 1, 2}) > 0
    <3> TAKE u \in Units
    <3>1. text[u] \in 0..2 /\ text[u] + 1 \in Int /\ 2 \in Int
      BY DEF OwnTypes
    <3>2. Min({text[u] + 1, 2}) = IF text[u] + 1 <= 2 THEN text[u] + 1 ELSE 2
      BY <3>1, OfTwo
    <3>. QED
      BY <3>1, <3>2
  <2>. QED
    BY <2>1, <2>2 DEF Transcribed
<1>2. CASE ~SaveText
  <2>1. retries \in Nat
    BY BoundsAssumption DEF OwnTypes
  <2>2. ~RetryNotes
    BY <2>1 DEF RetryNotes
  <2>3. text' = text /\ retries' = retries
    BY <1>2, <2>2 DEF Next, UserStep, WorkerStep, CallStep, vars, disk, worker, Forget,
       StartRecording, ResumeRecording, ResetMeta, HandleAudioChunk, StopRecording,
       StartRetryWorker, ComesDue, ComesDueJob, Crash, Tick, NextDueJob, RetryFails,
       RecordRetryFailure, AfterFailure, WorkerSummary, EndTick, MarkSummaryPending, Settle,
       EnqueueRange, SaveTextFails, MarkTranscribed, RecordSuccess, ProviderFails,
       RecordFirstFailure, HonorRateLimit, RequeueExhausted, QueueSecondWrite, WalkSavedAudio,
       EnqueueSavedRange, FinishRecovery, NoSummary, LeaveAudioOnly, WriteSummary, MarkProcessed
  <2>. QED
    BY <2>3 DEF Transcribed
<1>. QED
  BY <1>1, <1>2

\* The order of the calls: capture ends with the process; a job is removed only
\* after a failed retry, in process_due_retries; a summary is owed and made only
\* for a stopped meeting; only remade notes reset the metadata.
Orderly ==
  /\ proc = "down" => ~accepting /\ call = RQ!Idle /\ ctx # "recover"
  /\ call.op = "retain" => at = "kept"
  /\ accepting => state = "recording"
  /\ ctx = "recover" => ~accepting
  /\ at \in {"owe", "processed"} \/ owes \/ notes # NoNotes => state \notin {"none", "recording"}
  /\ at = "reset" => retries > 0 /\ ~owes /\ notes = NoNotes
  /\ at \in {"requeue", "walk", "save", "stop"} => ctx = "recover"
  /\ at = "owe" => ctx \in {"stop", "recover"}
  /\ at = "stop" => offset >= len
  /\ state = "none" => proc = "down" /\ at = "idle" /\ len = 0 /\ completed = {}

\* Every step keeps the order in which a call and a recording proceed.
LEMMA OrderlyStep ==
  ASSUME Orderly, OwnTypes, [Next]_vars
  PROVE  Orderly'
<1>1. RQ!Idle.op = "idle" /\ RQ!Unlinking.op = "unlink" /\ \A j : RQ!Retaining(j).op = "retain"
  BY DEF RQ!Idle, RQ!Unlinking, RQ!Retaining
<1>2. /\ RQ!LoadOrCreate => proc = "down" /\ proc' = "up" /\ call' = call
      /\ RQ!OtherWriteFails \/ UNCHANGED queue => proc' = proc /\ call' = call
      /\ \A j : RQ!ComesDue(j) => proc' = proc /\ call' = call
      /\ RQ!Crash \/ RQ!Quit => call' = RQ!Idle
  BY DEF RQ!LoadOrCreate, RQ!OtherWriteFails, RQ!ComesDue, RQ!queueVars, queue, RQ!Crash, RQ!Quit, RQ!Ready
<1>3. /\ RQ!RequeueDead \/ RQ!UnlinkDead => proc = "up" /\ proc' = "up" /\ call'.op # "retain"
      /\ DeferAll /\ call = RQ!Idle => proc' = proc /\ call' = call
      /\ \A j : RQ!RecordFailure(j) \/ RQ!RecordSuccess(j) => proc = "up" /\ proc' = "up" /\ call' = call
      /\ \A j, wait : RQ!Enqueue(j, wait) => proc = "up" /\ proc' = "up" /\ call' = call
      /\ \A j : RQ!Exhaust(j) \/ RQ!GiveUp(j) => proc = "up" /\ proc' = "up"
      /\ \A j : RQ!RetainAndPersist(j) => proc = "up" /\ proc' = "up" /\ call.op = "retain" /\ call' = RQ!Idle
  BY <1>1 DEF RQ!RequeueDead, RQ!UnlinkDead, RQ!Ready, RQ!DeferUntil, DeferAll, queue, RQ!RecordFailure,
         RQ!RecordSuccess, RQ!Enqueue, RQ!Exhaust, RQ!GiveUp, RQ!RetainAndPersist
<1>4. retries \in Nat
  BY BoundsAssumption DEF OwnTypes
<1> USE <1>1, <1>2, <1>3 DEF Orderly, disk, volatile, worker, locals, At, Goto, Idle
<1>5. CASE StartRecording \/ StartRetryWorker \/ ResumeRecording
  BY <1>5 DEF StartRecording, StartRetryWorker, ResumeRecording
<1>6. CASE RetryNotes \/ ResetMeta
  <2>1. CASE RetryNotes
    BY <1>4, <2>1 DEF RetryNotes, NothingPending, queue
  <2>2. CASE ResetMeta
    BY <2>2 DEF ResetMeta, queue
  <2>. QED
    BY <1>6, <2>1, <2>2
<1>7. CASE HandleAudioChunk \/ StopRecording
  BY <1>7 DEF HandleAudioChunk, StopRecording, Flush
<1>8. CASE ComesDue
  BY <1>8 DEF ComesDue, ComesDueJob
<1>9. CASE Crash
  BY <1>9 DEF Crash, Forget, RQ!Crash
<1>10. CASE EndTick
  <2>1. state' = state /\ (owes' => owes) /\ UNCHANGED <<len, notes>>
    BY <1>10 DEF EndTick, ClearSummaryPending
  <2>2. at' = "idle" /\ ctx' = "none" /\ (accepting' => accepting) /\ (completed' # {} => completed # {})
    BY <1>10 DEF EndTick, Forget
  <2>3. (proc' = proc /\ call' = call /\ accepting' = accepting) \/ (~accepting' /\ call' = RQ!Idle)
    BY <1>10 DEF EndTick, Forget
  <2>4. at = "end"
    BY <1>10 DEF EndTick
  <2>. QED
    BY <2>1, <2>2, <2>3, <2>4
<1>11. CASE Tick \/ NextDueJob \/ AfterFailure \/ WorkerSummary
  BY <1>11 DEF Tick, NextDueJob, AfterFailure, WorkerSummary
<1>12. CASE RetryFails \/ RecordRetryFailure
  BY <1>12 DEF RetryFails, RecordRetryFailure
<1>13. CASE MarkSummaryPending \/ Settle \/ EnqueueRange \/ SaveText \/ SaveTextFails \/ MarkTranscribed
  <2>1. CASE MarkSummaryPending
    BY <2>1 DEF MarkSummaryPending, Flush
  <2>2. CASE Settle
    BY <2>2 DEF Settle
  <2>3. CASE EnqueueRange
    BY <2>3 DEF EnqueueRange, Return
  <2>4. CASE SaveText \/ SaveTextFails \/ MarkTranscribed
    BY <2>4 DEF SaveText, SaveTextFails, MarkTranscribed
  <2>. QED
    BY <1>13, <2>1, <2>2, <2>3, <2>4
<1>14. CASE RecordSuccess \/ ProviderFails \/ RecordFirstFailure \/ HonorRateLimit
  BY <1>14 DEF RecordSuccess, ProviderFails, RecordFirstFailure, HonorRateLimit, Return
<1>15. CASE RequeueExhausted \/ WalkSavedAudio \/ EnqueueSavedRange \/ FinishRecovery
  <2>1. CASE RequeueExhausted
    BY <2>1 DEF RequeueExhausted, queue
  <2>2. CASE WalkSavedAudio
    BY <2>2 DEF WalkSavedAudio, queue
  <2>3. CASE EnqueueSavedRange
    BY <2>3 DEF EnqueueSavedRange
  <2>4. CASE FinishRecovery
    BY <2>4 DEF FinishRecovery, queue
  <2>. QED
    BY <1>15, <2>1, <2>2, <2>3, <2>4
<1>16. CASE QueueSecondWrite
  <2>1. call'.op # "retain" /\ proc = "up" /\ proc' = "up" /\ at' \in {at, "parked", "kept"}
        /\ UNCHANGED <<state, accepting, retries, ctx, owes, notes, len, offset, completed>>
    BY <1>16 DEF QueueSecondWrite
  <2>. QED
    BY <2>1
<1>17. CASE NoSummary \/ LeaveAudioOnly \/ WriteSummary \/ MarkProcessed
  <2>2. CASE NoSummary
    BY <2>2 DEF NoSummary, SummaryReturn
  <2>3. CASE LeaveAudioOnly
    <3>1. /\ at = "summary" /\ at' \in {"idle", "jobs", "end"} /\ ctx' \in {ctx, "none"} /\ ~owes' /\ state' = state
          /\ UNCHANGED <<proc, call, len, accepting, completed, retries, offset, notes>>
      BY <2>3 DEF LeaveAudioOnly, SummaryReturn, ClearSummaryPending, SummaryDue, queue
    <3>. QED
      BY <3>1
  <2>4. CASE WriteSummary
    BY <2>4 DEF WriteSummary, SummaryDue, queue
  <2>5. CASE MarkProcessed
    BY <2>5 DEF MarkProcessed, SummaryReturn, queue
  <2>. QED
    BY <1>17, <2>2, <2>3, <2>4, <2>5
<1>18. CASE UNCHANGED vars
  BY <1>18 DEF vars, queue
<1>. QED
  BY <1>5, <1>6, <1>7, <1>8, <1>9, <1>10, <1>11, <1>12, <1>13, <1>14, <1>15, <1>16, <1>17, <1>18
     DEF Next, UserStep, WorkerStep, CallStep

\* Faults do not heal, and notes that were made again stay so.
LEMMA BeforeIntact ==
  ASSUME OwnTypes, CurrentIsJob, Intact', [Next]_vars
  PROVE  Intact
<1>1. seen \subseteq seen'
  <2>1. [RQ!Next]_(RQ!vars)
    BY QueueStep
  <2>2. MaxAttempts \in Nat \ {0} /\ Faults \subseteq QP!FaultKinds /\ MaxFaults \in Nat
    BY QueueAssumption DEF RQ!FaultKinds, QP!FaultKinds
  <2>3. [QP!Next]_(QP!vars)
    BY <2>1, SameQueue
  <2>. QED
    BY <2>2, <2>3, QP!SeenGrows
<1>2. retries = 0
  BY TextStays DEF Intact
<1>. QED
  BY <1>1, <1>2 DEF Intact, RQ!Undamaged

\* While nothing unrecoverable happened, covered audio stays covered.
LEMMA CoveredStays ==
  ASSUME OwnTypes, RQ!TypeOK, QP!OnlyIssued, CurrentIsJob, QueueSafe, AudioSafe,
         Intact', [Next]_vars
  PROVE  QueueSafe' /\ Covered \subseteq Covered' /\ Transcribed \subseteq Transcribed'
<1>1. Transcribed \subseteq Transcribed'
  BY TextStays DEF Intact
<1>2. \A j \in Jobs : Held(j) => j \in issued /\ payload'[j] = payload[j]
  <2>1. dead \in [Jobs -> Nat]
    BY DEF RQ!TypeOK
  <2>2. \A j \in Jobs : Held(j) => j \in issued
    BY <2>1 DEF Held, In, QP!OnlyIssued
  <2>. QED
    BY <2>2, RangesKept
<1>3. CarefulUse
  BY PipelineIsCareful DEF OwnTypes, RQ!TypeOK
<1>4. QueueSafe' /\ \A j \in Jobs : Held(j) => Held(j)' \/ payload[j] \subseteq Transcribed
  BY <1>1, <1>2, <1>3, QueueOperation DEF Intact
<1>5. ASSUME NEW u \in Covered
      PROVE  u \in Covered'
  <2>1. CASE u \in Transcribed
    BY <1>1, <2>1 DEF Covered
  <2>2. ASSUME NEW j \in Jobs, Held(j), u \in payload[j]
        PROVE  u \in Covered'
    <3>1. u \in payload'[j]
      BY <1>2, <2>2
    <3>2. Held(j)' \/ u \in Transcribed'
      BY <1>1, <1>4, <2>2
    <3>. QED
      BY <3>1, <3>2 DEF Covered, RangesOf
  <2>. QED
    BY <1>5, <2>1, <2>2 DEF Covered, RangesOf
<1>. QED
  BY <1>1, <1>4, <1>5

\* The steps that draw no job, save no text and move no cursor.
LEMMA AudioFrame ==
  ASSUME AudioSafe, Covered \subseteq Covered', Transcribed \subseteq Transcribed',
         UNCHANGED <<issued, payload, cursor, len>>,
         Claimed' = {} \/ Claimed' = Claimed,
         accepting' => accepting /\ pending' = pending /\ Claimed \subseteq Covered' \cup Claimed',
         at' = "owe" => at = "owe" /\ pending' = pending,
         ctx' = "recover" => ctx = "recover" /\ offset' = offset /\ Claimed \subseteq Covered' \cup Claimed',
         at' \in HasJob => at \in HasJob /\ UNCHANGED <<cur, range>>,
         at' \in {"cursor", "success"} => at \in {"cursor", "success"},
         \A j \in completed' : payload[j] \subseteq Transcribed'
  PROVE  AudioSafe'
<1>1. \A j \in issued' : \A u \in payload'[j] : 1..u \subseteq Covered'
  BY DEF AudioSafe
<1>2. 1..cursor' \subseteq Covered'
  BY DEF AudioSafe
<1>3. accepting' => 1..len' \subseteq Covered' \cup pending' \cup Claimed'
  BY DEF AudioSafe
<1>4. ctx' = "recover" => 1..offset' \subseteq Covered' \cup Claimed'
  BY DEF AudioSafe
<1>5. \A u \in Claimed' : 1..u \subseteq Covered' \cup Claimed'
  BY DEF AudioSafe
<1>6. at' \in HasJob => \A j \in cur' : payload'[j] = range'
  BY DEF AudioSafe
<1>7. at' \in {"cursor", "success"} => range' \subseteq Transcribed'
  BY DEF AudioSafe, HasJob
<1>8. at' = "owe" => 1..len' \subseteq Covered' \cup pending'
  BY DEF AudioSafe
<1>. QED
  BY <1>1, <1>2, <1>3, <1>4, <1>5, <1>6, <1>7, <1>8 DEF AudioSafe

\* Every step keeps the audio findable, as long as nothing unrecoverable happened.
LEMMA AudioSafeStep ==
  ASSUME OwnTypes, OwnTypes', RQ!TypeOK, RQ!TypeOK', QP!OnlyIssued, CurrentIsJob, Orderly,
         QueueSafe, AudioSafe, Intact', [Next]_vars, ~StartRecording
  PROVE  AudioSafe'
<1>a. Covered \subseteq Covered' /\ Transcribed \subseteq Transcribed'
  BY CoveredStays
<1>b. \A j \in completed : payload[j] \subseteq Transcribed'
  BY <1>a DEF AudioSafe
<1>c. Claimed' = IF at' \in {"enqueue", "save"} THEN range' ELSE {}
  BY DEF Claimed
<1> USE <1>a, <1>b, <1>c, QueueIssues, AudioFrame DEF HasJob, locals, worker, disk, volatile, At, Goto
<1>1. CASE StartRetryWorker
  BY <1>1 DEF StartRetryWorker, Claimed
<1>2. CASE ResumeRecording
  <2>1. at' = "requeue" /\ offset' = cursor /\ UNCHANGED <<issued, disk, volatile, cur, range>>
    BY <1>2 DEF ResumeRecording
  <2>2. ~accepting'
    BY <2>1, <1>2 DEF ResumeRecording, RQ!LoadOrCreate, Orderly
  <2>. QED
    BY <2>1, <2>2 DEF AudioSafe
<1>3. CASE RetryNotes \/ ResetMeta
  <2>1. retries \in Nat /\ retries' = 0
    BY BoundsAssumption DEF OwnTypes, Intact
  <2>. QED
    BY <1>3, <2>1 DEF RetryNotes, ResetMeta, Orderly
<1>4. CASE HandleAudioChunk
  <2>1. /\ at = "idle" /\ accepting /\ len' = len + 1 /\ UNCHANGED <<issued, payload, cursor, offset, completed>>
        /\ \/ at' = "enqueue" /\ ctx' = "live" /\ pending' = {} /\ range' = pending \cup {len + 1}
           \/ at' = "idle" /\ ctx' = ctx /\ pending' = pending \cup {len + 1} /\ range' = range
    BY <1>4 DEF HandleAudioChunk, Idle
  <2>2. Claimed = {} /\ 1..len \subseteq Covered \cup pending
    BY <2>1 DEF Claimed, AudioSafe
  <2>3. len \in Nat /\ 1..(len + 1) = (1..len) \cup {len + 1}
    BY BoundsAssumption DEF OwnTypes
  <2>4. 1..len' \subseteq Covered' \cup pending' \cup Claimed'
    BY <2>1, <2>2, <2>3
  <2>5. \A u \in Claimed' : 1..u \subseteq Covered' \cup Claimed'
    <3> SUFFICES ASSUME NEW u \in Claimed', NEW v \in 1..u PROVE v \in Covered' \cup Claimed'
      OBVIOUS
    <3>1. at' = "enqueue" /\ pending' = {}
      BY <2>1
    <3>2. u \in 1..len'
      BY <3>1 DEF OwnTypes
    <3>3. v \in 1..len'
      BY <2>1, <2>3, <3>2
    <3>. QED
      BY <2>4, <3>1, <3>3
  <2>6. ctx' = "recover" => 1..offset' \subseteq Covered' \cup Claimed'
    BY <2>1, <2>2 DEF AudioSafe
  <2>. QED
    BY <2>1, <2>4, <2>5, <2>6 DEF AudioSafe
<1>5. CASE StopRecording
  <2>1. /\ at = "idle" /\ accepting /\ ~accepting' /\ UNCHANGED <<issued, len, payload, cursor, completed>>
        /\ \/ at' = "owe" /\ ctx' = "stop" /\ pending' = pending
           \/ at' \in {"enqueue", "settle"} /\ ctx' = "stopFailed" /\ range' = pending
    BY <1>5 DEF StopRecording, Flush, Idle
  <2>2. Claimed = {} /\ 1..len \subseteq Covered \cup pending
    BY <2>1 DEF Claimed, AudioSafe
  <2>3. \A u \in Claimed' : 1..u \subseteq Covered' \cup Claimed'
    <3> SUFFICES ASSUME NEW u \in Claimed', NEW v \in 1..u PROVE v \in Covered' \cup Claimed'
      OBVIOUS
    <3>1. Claimed' = pending /\ u \in 1..len /\ len \in Nat
      BY <2>1, BoundsAssumption DEF OwnTypes
    <3>2. v \in 1..len
      BY <3>1
    <3>. QED
      BY <2>2, <3>1, <3>2
  <2>. QED
    BY <2>1, <2>2, <2>3 DEF AudioSafe
<1>6. CASE ComesDue \/ Crash
  BY <1>6 DEF ComesDue, ComesDueJob, Crash, Forget, Claimed
<1>7. CASE Tick
  BY <1>7 DEF Tick, Idle, Claimed
<1>8. CASE NextDueJob
  <2>1. PICK j \in Jobs :
          \/ at' = "jobs" /\ completed' \subseteq completed /\ UNCHANGED <<issued, cur, range>>
          \/ at' = "provider" /\ cur' = {j} /\ range' = payload[j] /\ UNCHANGED <<issued, completed>>
    BY <1>8 DEF NextDueJob
  <2>2. at = "jobs" /\ Claimed = {} /\ Claimed' = {}
        /\ UNCHANGED <<ctx, payload, cursor, len, accepting, pending, offset>>
    BY <1>8, <2>1 DEF NextDueJob, Claimed
  <2>. QED
    BY <2>1, <2>2 DEF AudioSafe
<1>9. CASE RetryFails
  BY <1>9 DEF RetryFails, Claimed
<1>10. CASE RecordRetryFailure
  BY <1>10 DEF RecordRetryFailure, Claimed
<1>11. CASE AfterFailure
  BY <1>11 DEF AfterFailure, Claimed
<1>12. CASE WorkerSummary
  BY <1>12 DEF WorkerSummary, Claimed
<1>13. CASE EndTick
  BY <1>13 DEF EndTick, Forget, Claimed
<1>14. CASE MarkSummaryPending
  <2>1. /\ at = "owe" /\ Claimed = {} /\ UNCHANGED <<issued, len, payload, cursor, completed, accepting, offset>>
        /\ \/ at' \in {"enqueue", "settle"} /\ range' = pending /\ pending' = {}
              /\ (ctx' \in {ctx, "stopFailed"})
           \/ at' = "idle" /\ ctx' = "none" /\ pending' = pending
    BY <1>14 DEF MarkSummaryPending, Flush, Claimed
  <2>2. ~accepting /\ 1..len \subseteq Covered \cup pending
    BY <2>1 DEF Orderly, AudioSafe
  <2>3. \A u \in Claimed' : 1..u \subseteq Covered' \cup Claimed'
    <3> SUFFICES ASSUME NEW u \in Claimed', NEW v \in 1..u PROVE v \in Covered' \cup Claimed'
      OBVIOUS
    <3>1. Claimed' = pending /\ u \in 1..len /\ len \in Nat
      BY <2>1, BoundsAssumption DEF OwnTypes
    <3>2. v \in 1..len
      BY <3>1
    <3>. QED
      BY <2>2, <3>1, <3>2
  <2>4. ctx' = "recover" => 1..offset' \subseteq Covered' \cup Claimed'
    BY <2>1 DEF AudioSafe
  <2>. QED
    BY <2>1, <2>2, <2>3, <2>4 DEF AudioSafe
<1>15. CASE Settle
  BY <1>15 DEF Settle, Claimed
<1>e. ASSUME NEW j \in Jobs, NEW wait \in {"due", "held"}, RQ!Enqueue(j, wait),
             payload' = [payload EXCEPT ![j] = range]
      PROVE  /\ issued' = issued \cup {j} /\ payload'[j] = range
             /\ \A i \in issued : payload'[i] = payload[i]
             /\ range \subseteq Covered'
  <2>1. issued' = issued \cup {j} /\ j \notin issued /\ issued \subseteq Jobs
    BY <1>e DEF RQ!TypeOK
  <2>2. payload'[j] = range /\ \A i \in issued : payload'[i] = payload[i]
    BY <1>e, <2>1 DEF OwnTypes
  <2>3. In(mem', j)
    BY <1>e, QueueFacts
  <2>4. Held(j)'
    BY <2>3 DEF Held, In
  <2>. QED
    BY <2>1, <2>2, <2>4 DEF Covered, RangesOf
\* The claimed range gets its job.
<1>f. ASSUME issued' \subseteq Jobs, range \subseteq Covered', Claimed = range, cursor' = cursor, len' = len,
             UNCHANGED <<accepting, pending, offset, completed>>, ctx' = "recover" => ctx = "recover",
             \A j \in issued : payload'[j] = payload[j],
             \A j \in issued' \ issued : payload'[j] = range,
             Claimed' = {} \/ Claimed' = range, at' # "owe",
             at' \in HasJob => at' = "provider" /\ range' = range /\ cur' \subseteq issued' \ issued
      PROVE  AudioSafe'
  <2>1. Covered \cup Claimed \subseteq Covered'
    BY <1>f
  <2>2. \A j \in issued' : \A u \in payload'[j] : 1..u \subseteq Covered'
    BY <1>f, <2>1 DEF AudioSafe
  <2>3. \A u \in Claimed' : 1..u \subseteq Covered'
    BY <1>f, <2>1 DEF AudioSafe
  <2>4. \A j \in completed' : payload'[j] \subseteq Transcribed'
    BY <1>f DEF OwnTypes
  <2>5. at' \in HasJob => \A j \in cur' : payload'[j] = range'
    BY <1>f
  <2>6. ~ (at' \in {"cursor", "success"})
    BY <1>f
  <2>. QED
    BY <1>f, <2>1, <2>2, <2>3, <2>4, <2>5, <2>6 DEF AudioSafe
<1>16. CASE EnqueueRange
  <2>1. /\ issued' = issued \cup {Fresh} /\ payload'[Fresh] = range /\ Fresh \notin issued
        /\ \A i \in issued : payload'[i] = payload[i]
        /\ range \subseteq Covered'
    BY <1>16, <1>e DEF EnqueueRange
  <2>2. /\ at = "enqueue" /\ UNCHANGED <<cursor, len, accepting, pending, offset, completed>>
        /\ (ctx' = "recover" => ctx = "recover")
        /\ \/ at' = "provider" /\ cur' = {Fresh} /\ range' = range
           \/ at' \in {"idle", "settle", "walk"}
    BY <1>16 DEF EnqueueRange, Return
  <2>3. Claimed = range /\ Claimed' = {}
    BY <2>2 DEF Claimed
  <2>4. issued' \subseteq Jobs
    BY DEF RQ!TypeOK
  <2>. QED
    BY <1>f, <2>1, <2>2, <2>3, <2>4
<1>17. CASE SaveText
  <2>1. at = "provider" /\ at' = "cursor" /\ range \subseteq Units
        /\ text' = [u \in Units |-> IF u \in range THEN Min({text[u] + 1, 2}) ELSE text[u]]
        /\ UNCHANGED <<ctx, issued, payload, cursor, len, accepting, pending, offset, cur, range, completed>>
    BY <1>17, BoundsAssumption DEF SaveText, OwnTypes, Units
  <2>2. \A u \in range : text'[u] > 0
    <3> TAKE u \in range
    <3>1. text[u] \in 0..2 /\ text[u] + 1 \in Int /\ 2 \in Int
      BY <2>1 DEF OwnTypes
    <3>2. Min({text[u] + 1, 2}) = IF text[u] + 1 <= 2 THEN text[u] + 1 ELSE 2
      BY <3>1, OfTwo
    <3>. QED
      BY <2>1, <3>1, <3>2
  <2>3. range' \subseteq Transcribed'
    BY <2>1, <2>2 DEF Transcribed
  <2>4. Claimed = {} /\ Claimed' = {}
    BY <2>1 DEF Claimed
  <2>. QED
    BY <2>1, <2>3, <2>4 DEF AudioSafe
<1>18. CASE SaveTextFails
  BY <1>18 DEF SaveTextFails, Claimed
<1>19. CASE MarkTranscribed
  <2>1. at = "cursor" /\ at' = "success" /\ cursor' \in {cursor, Max({cursor} \cup range)}
        /\ UNCHANGED <<ctx, issued, payload, len, accepting, pending, offset, cur, range, completed>>
    BY <1>19 DEF MarkTranscribed
  <2>2. cur # {} /\ cur \subseteq issued /\ \A j \in cur : payload[j] = range
    BY <2>1 DEF CurrentIsJob, AudioSafe, OwnTypes
  <2>3. \A u \in range : 1..u \subseteq Covered
    BY <2>2 DEF AudioSafe
  <2>4. len \in Nat /\ {cursor} \cup range \subseteq 0..len
    BY BoundsAssumption DEF OwnTypes
  <2>5. cursor' \in {cursor} \cup range
    BY <2>1, <2>4, Greatest
  <2>6. 1..cursor' \subseteq Covered'
    BY <2>3, <2>5 DEF AudioSafe
  <2>7. Claimed = {} /\ Claimed' = {}
    BY <2>1 DEF Claimed
  <2>. QED
    BY <2>1, <2>6, <2>7 DEF AudioSafe
<1>20. CASE RecordSuccess
  <2>1. /\ at = "success" /\ completed' \subseteq completed \cup cur /\ at' \in {"idle", "settle", "walk", "jobs", "summary"}
        /\ UNCHANGED <<issued, payload, cursor, len, accepting, pending, offset>>
        /\ (ctx' = "recover" => ctx = "recover")
    BY <1>20 DEF RecordSuccess, Return
  <2>2. \A j \in cur : payload[j] \subseteq Transcribed
    BY <2>1 DEF AudioSafe
  <2>3. Claimed = {} /\ Claimed' = {}
    BY <2>1 DEF Claimed
  <2>. QED
    BY <2>1, <2>2, <2>3
<1>21. CASE ProviderFails
  BY <1>21 DEF ProviderFails, Return, Claimed
<1>22. CASE RecordFirstFailure
  BY <1>22 DEF RecordFirstFailure, Return, Claimed
<1>23. CASE HonorRateLimit
  BY <1>23 DEF HonorRateLimit, Return, Claimed
<1>24. CASE RequeueExhausted
  BY <1>24 DEF RequeueExhausted, Claimed
<1>25. CASE QueueSecondWrite
  <2>1. CASE RQ!UnlinkDead /\ Goto(at)
    BY <1>25, <2>1 DEF QueueSecondWrite, Claimed
  <2>2. ASSUME NEW j \in Jobs, RQ!RetainAndPersist(j), at' \in {"parked", "kept"}
        PROVE  AudioSafe'
    <3>1. at = "kept"
      BY <2>2 DEF RQ!RetainAndPersist, RQ!Retaining, Orderly
    <3>2. Claimed = {} /\ Claimed' = {}
      BY <2>2, <3>1 DEF Claimed
    <3>. QED
      BY <1>25, <2>2, <3>1, <3>2 DEF QueueSecondWrite
  <2>. QED
    BY <1>25, <2>1, <2>2 DEF QueueSecondWrite
<1>26. CASE WalkSavedAudio
  <2>1. /\ at = "walk" /\ UNCHANGED <<issued, payload, cursor, len, accepting, pending, completed, cur, ctx>>
        /\ Claimed = {} /\ completed' = completed
    BY <1>26 DEF WalkSavedAudio, Claimed
  <2>2. CASE at' = "stop" /\ offset' = offset
    BY <2>1, <2>2
  <2>3. ASSUME NEW r \in QueuedRanges, offset' = Max(r), offset + 1 \in r, at' = "walk"
        PROVE  AudioSafe'
    <3>1. PICK j \in issued : r = payload[j]
      BY <2>3 DEF QueuedRanges, Queued, QP!OnlyIssued
    <3>2. r \subseteq 0..len /\ r # {}
      <4>1. j \in Jobs
        BY DEF RQ!TypeOK
      <4>. QED
        BY <2>3, <3>1, <4>1 DEF OwnTypes
    <3>3. Max(r) \in r
      <4>1. len \in Nat
        BY BoundsAssumption DEF OwnTypes
      <4>. QED
        BY <3>2, <4>1, Greatest
    <3>4. 1..offset' \subseteq Covered
      BY <2>3, <3>1, <3>3 DEF AudioSafe
    <3>5. Claimed' = {}
      BY <2>3
    <3>. QED
      BY <2>1, <2>3, <3>4, <3>5 DEF AudioSafe
  <2>4. ASSUME offset < len, range' = (offset + 1)..BatchEnd, offset' = BatchEnd, at' \in {"enqueue", "save"}
        PROVE  AudioSafe'
    <3>1. offset \in Nat /\ len \in Nat
      BY BoundsAssumption DEF OwnTypes
    <3>2. BatchEnd \in (offset + 1)..len
      BY <2>4, BatchEndType
    <3>3. Claimed' = (offset + 1)..BatchEnd
      BY <2>4
    <3>4. 1..offset \subseteq Covered
      BY <2>1 DEF AudioSafe, Orderly
    <3>5. 1..BatchEnd = (1..offset) \cup ((offset + 1)..BatchEnd)
      BY <3>1, <3>2
    <3>6. 1..offset' \subseteq Covered' \cup Claimed'
      BY <2>4, <3>3, <3>4, <3>5
    <3>7. \A u \in Claimed' : 1..u \subseteq Covered' \cup Claimed'
      <4> SUFFICES ASSUME NEW u \in Claimed', NEW v \in 1..u PROVE v \in Covered' \cup Claimed'
        OBVIOUS
      <4>1. v \in 1..BatchEnd
        BY <3>1, <3>2, <3>3
      <4>. QED
        BY <2>4, <3>6, <4>1
    <3>. QED
      BY <2>1, <2>4, <3>6, <3>7 DEF AudioSafe
  <2>. QED
    BY <1>26, <2>2, <2>3, <2>4 DEF WalkSavedAudio
<1>27. CASE EnqueueSavedRange
  <2>1. /\ issued' = issued \cup {Fresh} /\ payload'[Fresh] = range /\ Fresh \notin issued
        /\ \A i \in issued : payload'[i] = payload[i]
        /\ range \subseteq Covered'
    BY <1>27, <1>e DEF EnqueueSavedRange
  <2>2. /\ at = "save" /\ UNCHANGED <<cursor, len, accepting, pending, offset, completed, ctx>>
        /\ \/ at' = "walk"
           \/ (at' = "enqueue" /\ range' = range)
    BY <1>27 DEF EnqueueSavedRange
  <2>3. Claimed = range /\ (Claimed' = {} \/ Claimed' = range)
    BY <2>2 DEF Claimed
  <2>4. issued' \subseteq Jobs
    BY DEF RQ!TypeOK
  <2>. QED
    BY <1>f, <2>1, <2>2, <2>3, <2>4
<1>28. CASE FinishRecovery
  <2>1. /\ at = "stop" /\ Claimed = {} /\ Claimed' = {} /\ UNCHANGED <<issued, len, payload, cursor, completed, accepting, pending, offset, range, cur>>
        /\ at' \in {"owe", "idle"} /\ ctx' \in {ctx, "none"}
    BY <1>28 DEF FinishRecovery, Claimed
  <2>2. 1..len \subseteq 1..offset /\ 1..offset \subseteq Covered
    BY <2>1, BoundsAssumption DEF Orderly, AudioSafe, OwnTypes
  <2>. QED
    BY <2>1, <2>2 DEF AudioSafe
<1>29. CASE NoSummary
  BY <1>29 DEF NoSummary, SummaryReturn, Claimed
<1>30. CASE LeaveAudioOnly
  BY <1>30 DEF LeaveAudioOnly, SummaryReturn, Claimed
<1>31. CASE WriteSummary
  BY <1>31 DEF WriteSummary, Claimed
<1>32. CASE MarkProcessed
  BY <1>32 DEF MarkProcessed, SummaryReturn, Claimed
<1>33. CASE UNCHANGED vars
  BY <1>33 DEF vars, queue, Claimed
<1>. QED
  BY <1>1, <1>2, <1>3, <1>4, <1>5, <1>6, <1>7, <1>8, <1>9, <1>10, <1>11, <1>12, <1>13, <1>14, <1>15, <1>16,
     <1>17, <1>18, <1>19, <1>20, <1>21, <1>22, <1>23, <1>24, <1>25, <1>26, <1>27, <1>28, <1>29, <1>30,
     <1>31, <1>32, <1>33
     DEF Next, UserStep, WorkerStep, CallStep

\* A recording starts with nothing to forget.
LEMMA NothingForgottenStart ==
  ASSUME OwnTypes, RQ!TypeOK, Orderly, Intact', StartRecording
  PROVE  QueueSafe' /\ AudioSafe'
<1>1. /\ len = 0 /\ at = "idle" /\ completed = {} /\ call.op = "idle"
      /\ UNCHANGED <<len, cursor, payload, offset, pending, completed, at, ctx>>
  BY DEF Orderly, StartRecording, locals, RQ!Idle
<1>2. "corrupt" \notin seen'
  BY DEF Intact, RQ!Undamaged, RQ!Damage
<1>3. mem' = file' /\ proc' = "up" /\ call' = call /\ issued' = issued
  BY <1>2 DEF StartRecording, RQ!LoadOrCreate, RQ!NoFault, RQ!Fault, RQ!history
<1>4. QueueSafe'
  BY <1>1, <1>3 DEF QueueSafe, In
<1>5. cursor = 0 /\ offset = 0
  BY <1>1 DEF OwnTypes
<1>6. \A j \in issued : payload[j] = {}
  <2>1. payload \in [Jobs -> SUBSET (1..0)] /\ issued \subseteq Jobs
    BY <1>1 DEF OwnTypes, RQ!TypeOK
  <2>. QED
    BY <2>1
<1>7. Claimed' = {}
  BY <1>1 DEF Claimed
<1>8. 1..0 = {}
  OBVIOUS
<1>9. AudioSafe'
  BY <1>1, <1>3, <1>5, <1>6, <1>7, <1>8 DEF AudioSafe, HasJob
<1>. QED
  BY <1>4, <1>9

\* Every step keeps all recorded audio accounted for.
LEMMA NothingForgottenStep ==
  ASSUME OwnTypes, OwnTypes', RQ!TypeOK, RQ!TypeOK', QP!OnlyIssued, CurrentIsJob, Orderly,
         NothingForgotten, [Next]_vars
  PROVE  NothingForgotten'
<1> SUFFICES ASSUME Intact' PROVE QueueSafe' /\ AudioSafe'
  BY DEF NothingForgotten
<1>1. CASE StartRecording
  BY <1>1, NothingForgottenStart
<1>2. CASE ~StartRecording
  <2>1. QueueSafe /\ AudioSafe
    BY <1>2, BeforeIntact DEF NothingForgotten
  <2>2. QueueSafe'
    BY <2>1, CoveredStays
  <2>3. AudioSafe'
    BY <1>2, <2>1, AudioSafeStep
  <2>. QED
    BY <2>2, <2>3
<1>. QED
  BY <1>1, <1>2

\* Before the first recording there is nothing to forget.
LEMMA NothingForgottenInit == Init => Orderly /\ NothingForgotten
<1> SUFFICES ASSUME Init PROVE Orderly /\ NothingForgotten
  OBVIOUS
<1>1. Orderly
  BY DEF Init, RQ!Init, RQ!Idle, Orderly
<1>2. \A j \in Jobs : ~In(mem, j) /\ ~In(file, j) /\ payload[j] = {}
  BY DEF Init, RQ!Init, RQ!NoJobs, In
<1>3. QueueSafe
  BY <1>2 DEF QueueSafe, Init, RQ!Init, RQ!Idle
<1>4. AudioSafe
  BY DEF AudioSafe, Init, RQ!Init, HasJob, Claimed
<1>. QED
  BY <1>1, <1>3, <1>4 DEF NothingForgotten

\* What is covered is transcribed, on disk or, after a failed write, in memory.
LEMMA CoveredIsKept ==
  ASSUME QueueSafe
  PROVE  Covered \subseteq Transcribed \cup OnDisk \cup Unsaved
<1> SUFFICES ASSUME NEW j \in Jobs, Held(j), NEW u \in payload[j]
             PROVE  u \in OnDisk \cup Unsaved
  BY DEF Covered, RangesOf
<1>1. CASE In(file, j) \/ dead[j] > 0
  BY <1>1 DEF OnDisk, RangesOf, In
<1>2. CASE In(mem, j) /\ ~In(file, j)
  <2>1. "write" \in seen
    BY <1>2 DEF QueueSafe
  <2>. QED
    BY <1>2, <2>1 DEF Unsaved, RangesOf, Queued, In
<1>. QED
  BY <1>1, <1>2 DEF Held

\* A recording that can still be recovered has forgotten none of its audio, for
\* every length of recording, every number of retries and every combination of
\* crashes and of failed writes, removals and provider calls that leaves the
\* files readable. With the queue's jobs and everything before the cursor
\* covered, recover_recording finds what is left after the cursor.
THEOREM NoAudioIsForgotten == Spec => []NoAudioForgotten
<1>1. Init => Orderly /\ NothingForgotten
  BY NothingForgottenInit
<1>2. TypeOK /\ OwnTypes' /\ TypeOK' /\ OwnTypes /\ CurrentIsJob /\ QP!OnlyIssued /\ Orderly
        /\ NothingForgotten /\ [Next]_vars => Orderly' /\ NothingForgotten'
  BY OrderlyStep, NothingForgottenStep DEF TypeOK
<1>3. TypeOK /\ OwnTypes /\ NothingForgotten => NoAudioForgotten
  <2> SUFFICES ASSUME TypeOK, OwnTypes, NothingForgotten, Intact,
                      NEW u \in 1..len, u \notin Transcribed \cup OnDisk \cup Unsaved
               PROVE  u \in (cursor + 1)..len
    BY DEF NoAudioForgotten
  <2>1. Covered \subseteq Transcribed \cup OnDisk \cup Unsaved /\ 1..cursor \subseteq Covered
    BY CoveredIsKept DEF NothingForgotten, AudioSafe
  <2>2. u \notin 1..cursor
    BY <2>1
  <2>3. len \in Nat /\ cursor \in Nat
    BY BoundsAssumption DEF OwnTypes
  <2>. QED
    BY <2>2, <2>3
<1>. QED
  BY <1>1, <1>2, <1>3, PipelineTypeCorrect, PipelineKeepsItsJobs, PTL DEF Spec

-----------------------------------------------------------------------------
(****************************************************************************)
(* A crash loses at most one batch.                                         *)
(****************************************************************************)
\* While it records, the pipeline holds less than a batch; what is not covered
\* when the recording stops is never more than that.
FewLost ==
  /\ Cardinality(pending) < BatchUnits
  /\ Intact /\ state \in {"stopped", "processed"} => Cardinality((1..len) \ Covered) < BatchUnits

\* Sets of saved units are finite, and a part is no larger than the whole.
LEMMA SmallerPart ==
  ASSUME NEW n \in Nat, NEW T, T \subseteq 1..n, NEW S, S \subseteq T
  PROVE  Cardinality(S) \in Nat /\ Cardinality(T) \in Nat /\ Cardinality(S) <= Cardinality(T)
<1>1. IsFiniteSet(1..n)
  BY FS_Interval
<1>2. IsFiniteSet(T)
  BY <1>1, FS_Subset
<1>. QED
  BY <1>2, FS_Subset, FS_CardinalityType

\* What is batched is less than a batch.
LEMMA PendingStep ==
  ASSUME OwnTypes, OwnTypes', Cardinality(pending) < BatchUnits, [Next]_vars
  PROVE  Cardinality(pending') < BatchUnits
<1>1. BatchUnits \in Nat /\ BatchUnits >= 1 /\ Cardinality({}) = 0
  BY BatchAssumption, BoundsAssumption, FS_EmptySet
<1>2. CASE HandleAudioChunk
  <2>1. \/ pending' = {}
        \/ pending' = pending \cup {len + 1} /\ ~ (Cardinality(pending \cup {len + 1}) >= BatchUnits)
    BY <1>2 DEF HandleAudioChunk
  <2>2. len' \in Nat /\ pending' \subseteq 1..len'
    BY BoundsAssumption DEF OwnTypes
  <2>3. Cardinality(pending') \in Nat
    BY <2>2, SmallerPart
  <2>4. CASE pending' = {}
    <3>1. Cardinality(pending') = 0
      BY <1>1, <2>4
    <3>. QED
      BY <1>1, <3>1
  <2>5. CASE pending' = pending \cup {len + 1} /\ ~ (Cardinality(pending \cup {len + 1}) >= BatchUnits)
    <3>1. ~ (Cardinality(pending') >= BatchUnits)
      BY <2>5
    <3>. QED
      BY <1>1, <2>3, <3>1
  <2>. QED
    BY <2>1, <2>4, <2>5
<1>3. CASE ~HandleAudioChunk
  <2>1. pending' = pending \/ pending' = {}
    BY <1>3 DEF Next, UserStep, WorkerStep, CallStep, vars, disk, volatile, Forget, Flush,
       StartRecording, ResumeRecording, RetryNotes, ResetMeta, StopRecording,
       StartRetryWorker, ComesDue, ComesDueJob, Crash, Tick, NextDueJob, RetryFails,
       RecordRetryFailure, AfterFailure, WorkerSummary, EndTick, MarkSummaryPending, Settle,
       EnqueueRange, SaveText, SaveTextFails, MarkTranscribed, RecordSuccess, ProviderFails,
       RecordFirstFailure, HonorRateLimit, RequeueExhausted, QueueSecondWrite, WalkSavedAudio,
       EnqueueSavedRange, FinishRecovery, NoSummary, LeaveAudioOnly, WriteSummary, MarkProcessed
  <2>2. CASE pending' = pending
    BY <2>2
  <2>3. CASE pending' = {}
    <3>1. Cardinality(pending') = 0
      BY <1>1, <2>3
    <3>. QED
      BY <1>1, <3>1
  <2>. QED
    BY <2>1, <2>2, <2>3
<1>. QED
  BY <1>2, <1>3

\* Only StopRecording, with less than a batch in memory, and the end of a complete
\* walk stop a recording; afterwards nothing is recorded and nothing is forgotten.
LEMMA FewLostStep ==
  ASSUME OwnTypes, OwnTypes', RQ!TypeOK, QP!OnlyIssued, CurrentIsJob, Orderly, NothingForgotten, FewLost, [Next]_vars
  PROVE  FewLost'
<1>1. Cardinality(pending') < BatchUnits
  BY PendingStep DEF FewLost
<1>2. SUFFICES ASSUME Intact', state' \in {"stopped", "processed"}
               PROVE  Cardinality((1..len') \ Covered') < BatchUnits
  BY <1>1 DEF FewLost
<1>3. Intact /\ QueueSafe /\ AudioSafe
  BY <1>2, BeforeIntact DEF NothingForgotten
<1>4. Covered \subseteq Covered'
  BY <1>2, <1>3, CoveredStays
<1>5. len \in Nat /\ pending \subseteq 1..len /\ BatchUnits \in Nat /\ Cardinality({}) = 0 /\ BatchUnits >= 1
  BY BoundsAssumption, BatchAssumption, FS_EmptySet DEF OwnTypes
<1>6. ASSUME NEW T, T \subseteq 1..len, Cardinality(T) < BatchUnits, (1..len) \ Covered \subseteq T, len' = len
      PROVE  Cardinality((1..len') \ Covered') < BatchUnits
  <2>1. (1..len') \ Covered' \subseteq T
    BY <1>4, <1>6
  <2>2. /\ Cardinality((1..len') \ Covered') \in Nat /\ Cardinality(T) \in Nat
        /\ Cardinality((1..len') \ Covered') <= Cardinality(T)
    BY <1>5, <1>6, <2>1, SmallerPart
  <2>. QED
    BY <1>5, <1>6, <2>2
<1>7. CASE state \in {"stopped", "processed"}
  <2>1. ~HandleAudioChunk
    BY <1>7 DEF HandleAudioChunk, Orderly
  <2>2. len' = len
    BY <2>1 DEF Next, UserStep, WorkerStep, CallStep, vars, disk,
       StartRecording, ResumeRecording, RetryNotes, ResetMeta, StopRecording,
       StartRetryWorker, ComesDue, ComesDueJob, Crash, Tick, NextDueJob, RetryFails,
       RecordRetryFailure, AfterFailure, WorkerSummary, EndTick, MarkSummaryPending, Settle,
       EnqueueRange, SaveText, SaveTextFails, MarkTranscribed, RecordSuccess, ProviderFails,
       RecordFirstFailure, HonorRateLimit, RequeueExhausted, QueueSecondWrite, WalkSavedAudio,
       EnqueueSavedRange, FinishRecovery, NoSummary, LeaveAudioOnly, WriteSummary, MarkProcessed
  <2>. QED
    BY <1>3, <1>6, <1>7, <2>2 DEF FewLost
<1>8. CASE StopRecording
  <2>1. at = "idle" /\ accepting /\ len' = len
    BY <1>8 DEF StopRecording, Idle
  <2>2. (1..len) \ Covered \subseteq pending
    BY <1>3, <2>1 DEF AudioSafe, Claimed
  <2>. QED
    BY <1>5, <1>6, <2>1, <2>2 DEF FewLost
<1>9. CASE FinishRecovery
  <2>1. at = "stop" /\ len' = len
    BY <1>9 DEF FinishRecovery, At
  <2>2. (1..len) \ Covered \subseteq {}
    BY <1>3, <1>5, <2>1 DEF AudioSafe, Claimed, Orderly, OwnTypes
  <2>. QED
    BY <1>5, <1>6, <2>1, <2>2
<1>10. ASSUME state \notin {"stopped", "processed"}, ~StopRecording, ~FinishRecovery
       PROVE  FALSE
  <2>1. state \in {"none", "recording"}
    BY <1>10 DEF OwnTypes
  <2>2. ~owes /\ at # "processed"
    BY <2>1 DEF Orderly
  <2>3. ~LeaveAudioOnly /\ ~MarkProcessed
    BY <2>2 DEF LeaveAudioOnly, MarkProcessed, SummaryDue, At
  <2>4. EndTick => state' = state
    BY <2>2 DEF EndTick
  <2>. QED
    BY <1>2, <1>10, <2>1, <2>3, <2>4 DEF Next, UserStep, WorkerStep, CallStep, vars, disk,
       StartRecording, ResumeRecording, RetryNotes, ResetMeta, HandleAudioChunk,
       StartRetryWorker, ComesDue, ComesDueJob, Crash, Tick, NextDueJob, RetryFails,
       RecordRetryFailure, AfterFailure, WorkerSummary, MarkSummaryPending, Settle,
       EnqueueRange, SaveText, SaveTextFails, MarkTranscribed, RecordSuccess, ProviderFails,
       RecordFirstFailure, HonorRateLimit, RequeueExhausted, QueueSecondWrite, WalkSavedAudio,
       EnqueueSavedRange, NoSummary, WriteSummary
<1>. QED
  BY <1>7, <1>8, <1>9, <1>10

\* Notes cover the whole recording up to an unfinished batch, for every length of
\* recording and batch and every combination of crashes and of failed writes,
\* removals and provider calls that leaves the files readable (pipeline.rs,
\* handle_audio_chunk, stop_recording and recover_recording).
THEOREM AtMostOneBatchIsLost == Spec => []CrashLosesAtMostOneBatch
<1>1. Init => Orderly /\ NothingForgotten /\ FewLost
  <2>1. Cardinality({}) = 0 /\ BatchUnits >= 1 /\ BatchUnits \in Nat
    BY BatchAssumption, BoundsAssumption, FS_EmptySet
  <2>2. Init => FewLost
    BY <2>1 DEF Init, FewLost
  <2>. QED
    BY <2>2, NothingForgottenInit
<1>2. TypeOK /\ OwnTypes' /\ TypeOK' /\ OwnTypes /\ CurrentIsJob /\ QP!OnlyIssued /\ Orderly
        /\ NothingForgotten /\ FewLost /\ [Next]_vars => Orderly' /\ NothingForgotten' /\ FewLost'
  BY OrderlyStep, NothingForgottenStep, FewLostStep DEF TypeOK
<1>3. OwnTypes /\ Orderly /\ NothingForgotten /\ FewLost => CrashLosesAtMostOneBatch
  <2> SUFFICES ASSUME OwnTypes, Orderly, NothingForgotten, FewLost, notes # NoNotes, Intact
               PROVE  Cardinality((1..len) \ (Transcribed \cup OnDisk \cup InMemory)) < BatchUnits
    BY DEF CrashLosesAtMostOneBatch
  <2>1. state \in {"stopped", "processed"}
    BY DEF Orderly, OwnTypes
  <2>2. Covered \subseteq Transcribed \cup OnDisk \cup InMemory
    BY DEF Covered, OnDisk, InMemory, RangesOf, Held, In, Queued
  <2>3. len \in Nat /\ BatchUnits \in Nat
    BY BoundsAssumption, BatchAssumption DEF OwnTypes
  <2>4. (1..len) \ (Transcribed \cup OnDisk \cup InMemory) \subseteq (1..len) \ Covered /\ (1..len) \ Covered \subseteq 1..len
    BY <2>2
  <2>5. /\ Cardinality((1..len) \ Covered) \in Nat
        /\ Cardinality((1..len) \ (Transcribed \cup OnDisk \cup InMemory)) \in Nat
        /\ Cardinality((1..len) \ (Transcribed \cup OnDisk \cup InMemory)) <= Cardinality((1..len) \ Covered)
    BY <2>3, <2>4, SmallerPart
  <2>6. Cardinality((1..len) \ Covered) < BatchUnits
    BY <2>1 DEF FewLost
  <2>. QED
    BY <2>3, <2>5, <2>6
<1>. QED
  BY <1>1, <1>2, <1>3, PipelineTypeCorrect, PipelineKeepsItsJobs, PTL DEF Spec

-----------------------------------------------------------------------------
(****************************************************************************)
(* The notes are faithful. Four invariants carry the proof: Paced says      *)
(* where each call holds audio, Pieces that every range is one piece of it, *)
(* NotesAfterQueue that notes are made from a drained queue, and TextOnce   *)
(* that a part of the recording is in one place.                            *)
(****************************************************************************)

\* The calls that hold audio of the recording: a chunk, the stop, the recovery.
Taking == {"live", "stop", "stopFailed", "recover"}
Convex(S) == \A a, b \in S : a..b \subseteq S

\* Where a call is and what it may hold there. Audio is handed over only before
\* there are notes, and a tick of the worker comes only after the capture.
Paced ==
  /\ at = "idle" <=> ctx = "none"
  /\ proc = "down" => at \in {"idle", "reset"}
  /\ at \in {"enqueue", "settle"} => ctx \in Taking
  /\ at \in {"jobs", "kept", "parked"} => ctx = "tick"
  /\ at = "end" => ctx = "worker"
  /\ ctx \in {"tick", "worker"} => ~accepting
  /\ pending # {} => (at = "idle" /\ accepting) \/ (at = "owe" /\ ctx = "stop")
  /\ cur # {} => at \in HasJob \cup {"limited", "kept", "parked"}
  /\ at = "reset" => Transcribed = {}
  /\ notes # NoNotes /\ ctx \in Taking => at = "processed"

\* What is batched is the end of the audio, and every range is one piece of it.
Pieces ==
  /\ \A a \in pending : a..len \subseteq pending
  /\ at \in {"enqueue", "save"} => Convex(range)
  /\ \A j \in issued : Convex(payload[j])

\* What is batched up to the end of the audio is one piece of it.
LEMMA PendingConvex ==
  ASSUME OwnTypes, \A a \in pending : a..len \subseteq pending
  PROVE  Convex(pending)
<1> SUFFICES ASSUME NEW a \in pending, NEW b \in pending, NEW c \in a..b PROVE c \in pending
  BY DEF Convex
<1>1. pending \subseteq 1..len /\ len \in Nat
  BY BoundsAssumption DEF OwnTypes
<1>2. a \in Int /\ b \in Int /\ b <= len
  BY <1>1
<1>3. c \in a..len
  BY <1>1, <1>2
<1>. QED
  BY <1>3

\* Every step keeps the ranges in one piece.
LEMMA PiecesStep ==
  ASSUME OwnTypes, OwnTypes', RQ!TypeOK, QP!OnlyIssued, Orderly, Pieces, [Next]_vars
  PROVE  Pieces'
<1>0. len \in Nat /\ pending \subseteq 1..len /\ range \subseteq 1..len /\ Convex({})
  BY BoundsAssumption DEF OwnTypes, Convex
<1>1. Convex(pending)
  BY PendingConvex DEF Pieces
<1>2. CASE HandleAudioChunk
  <2>1. /\ at = "idle" /\ len' = len + 1 /\ UNCHANGED <<issued, payload>>
        /\ \/ pending' = {} /\ range' = pending \cup {len + 1}
           \/ at' = "idle" /\ pending' = pending \cup {len + 1}
    BY <1>2 DEF HandleAudioChunk, Idle, queue
  <2>2. \A a \in pending \cup {len + 1} : a..(len + 1) \subseteq pending \cup {len + 1}
    <3> SUFFICES ASSUME NEW a \in pending \cup {len + 1}, NEW c \in a..(len + 1), c # len + 1
                 PROVE  c \in pending
      OBVIOUS
    <3>1. a \in 1..(len + 1)
      BY <1>0
    <3>2. a # len + 1 /\ c \in a..len
      BY <1>0, <3>1
    <3>. QED
      BY <3>2 DEF Pieces
  <2>3. Convex(pending \cup {len + 1})
    <3> SUFFICES ASSUME NEW a \in pending \cup {len + 1}, NEW b \in pending \cup {len + 1}, NEW c \in a..b
                 PROVE  c \in pending \cup {len + 1}
      BY DEF Convex
    <3>1. a \in 1..(len + 1) /\ b \in 1..(len + 1)
      BY <1>0
    <3>2. c \in a..(len + 1)
      BY <1>0, <3>1
    <3>. QED
      BY <2>2, <3>2
  <2>. QED
    BY <2>1, <2>2, <2>3 DEF Pieces
<1>3. CASE EnqueueRange \/ EnqueueSavedRange
  <2>1. /\ payload' = [payload EXCEPT ![Fresh] = range] /\ issued' = issued \cup {Fresh}
        /\ at \in {"enqueue", "save"} /\ pending' = pending /\ len' = len
        /\ at' \in {"enqueue", "save"} => range' = range
    BY <1>3, QueueIssues DEF EnqueueRange, EnqueueSavedRange, At, Goto, Return, volatile
  <2>2. \A j \in issued' : Convex(payload'[j])
    <3>1. issued \cup {Fresh} \subseteq Jobs /\ payload \in [Jobs -> SUBSET (1..len)]
      BY <1>3 DEF RQ!TypeOK, OwnTypes, EnqueueRange, EnqueueSavedRange
    <3>. QED
      BY <2>1, <3>1 DEF Pieces
  <2>. QED
    BY <2>1, <2>2 DEF Pieces
<1>4. CASE WalkSavedAudio
  <2>1. UNCHANGED <<issued, payload, pending, len>>
    BY <1>4 DEF WalkSavedAudio, queue, disk, volatile
  <2>2. at' \in {"enqueue", "save"} => range' = (offset + 1)..BatchEnd /\ offset < len
    BY <1>4 DEF WalkSavedAudio, Goto
  <2>3. offset < len => Convex((offset + 1)..BatchEnd)
    <3> SUFFICES ASSUME offset < len, NEW a \in (offset + 1)..BatchEnd, NEW b \in (offset + 1)..BatchEnd,
                        NEW c \in a..b
                 PROVE  c \in (offset + 1)..BatchEnd
      BY DEF Convex
    <3>1. offset \in Int /\ BatchEnd \in Int
      BY <1>0, BatchEndType DEF OwnTypes
    <3>. QED
      BY <3>1
  <2>. QED
    BY <2>1, <2>2, <2>3 DEF Pieces
<1>5. CASE StopRecording \/ MarkSummaryPending
  BY <1>0, <1>1, <1>5, QueueIssues DEF StopRecording, MarkSummaryPending, Flush, Pieces, At
<1>6. CASE ~ (HandleAudioChunk \/ EnqueueRange \/ EnqueueSavedRange \/ WalkSavedAudio
                \/ StopRecording \/ MarkSummaryPending)
  <2>1. /\ issued' = issued /\ payload' = payload /\ len' = len /\ pending' \in {pending, {}}
        /\ at' \in {"enqueue", "save"} => at' = at /\ range' = range
    <3> USE QueueIssues DEF disk, volatile, worker, locals, Goto, At
    <3>1. CASE UserStep \/ StartRetryWorker \/ ComesDue \/ Crash \/ UNCHANGED vars
      BY <1>6, <3>1 DEF UserStep, StartRecording, ResumeRecording, RetryNotes, ResetMeta,
             StartRetryWorker, ComesDue, ComesDueJob, Crash, Forget, vars, queue
    <3>2. CASE WorkerStep
      BY <3>2 DEF WorkerStep, Tick, NextDueJob, RetryFails,
       RecordRetryFailure, AfterFailure, WorkerSummary, EndTick, Forget, queue
    <3>3. CASE CallStep
      BY <1>6, <3>3, OrderlyStep DEF CallStep, Settle, SaveText, SaveTextFails, MarkTranscribed, RecordSuccess,
             ProviderFails, RecordFirstFailure, HonorRateLimit, RequeueExhausted, QueueSecondWrite,
             FinishRecovery, NoSummary, LeaveAudioOnly, WriteSummary, MarkProcessed, SummaryReturn, Return, queue
    <3>. QED
      BY <3>1, <3>2, <3>3 DEF Next
  <2>. QED
    BY <2>1 DEF Pieces
<1>. QED
  BY <1>2, <1>3, <1>4, <1>5, <1>6

\* Every step keeps to the pace.
LEMMA PacedStep ==
  ASSUME OwnTypes, Orderly, Paced, [Next]_vars
  PROVE  Paced'
<1> USE DEF Paced, Orderly, Taking, HasJob, disk, volatile, worker, locals, At, Goto, Idle
<1>1. CASE StartRecording \/ StartRetryWorker \/ ResumeRecording
  BY <1>1 DEF StartRecording, StartRetryWorker, ResumeRecording, RQ!LoadOrCreate, Transcribed
<1>2. CASE RetryNotes \/ ResetMeta
  <2>1. CASE RetryNotes
    <3>1. Transcribed' = {}
      BY <2>1 DEF RetryNotes, Transcribed
    <3>. QED
      BY <2>1, <3>1 DEF RetryNotes, queue
  <2>2. CASE ResetMeta
    BY <2>2 DEF ResetMeta, queue
  <2>. QED
    BY <1>2, <2>1, <2>2
<1>3. CASE HandleAudioChunk
  BY <1>3 DEF HandleAudioChunk, Transcribed, queue
<1>4. CASE StopRecording
  BY <1>4 DEF StopRecording, Flush, Transcribed, queue, RQ!OtherWriteFails, RQ!queueVars
<1>5. CASE ComesDue
  BY <1>5 DEF ComesDue, ComesDueJob, RQ!ComesDue, Transcribed
<1>6. CASE Crash
  BY <1>6 DEF Crash, Forget
<1>7. CASE Tick \/ WorkerSummary
  BY <1>7 DEF Tick, WorkerSummary, queue
<1>8. CASE NextDueJob
  <2>1. /\ proc = "up" /\ at = "jobs" /\ UNCHANGED <<ctx, notes, pending, accepting>>
        /\ \/ at' = "jobs" /\ cur' = cur
           \/ at' = "provider"
    BY <1>8 DEF NextDueJob
  <2>2. proc' = "up"
    BY <1>8, <2>1 DEF NextDueJob, RQ!RecordSuccess, queue
  <2>. QED
    BY <2>1, <2>2
<1>9. CASE RetryFails
  BY <1>9 DEF RetryFails, RQ!GiveUp, queue
<1>10. CASE RecordRetryFailure
  BY <1>10 DEF RecordRetryFailure, RQ!RecordFailure, RQ!Exhaust, queue
<1>11. CASE AfterFailure
  BY <1>11 DEF AfterFailure, DeferAll, RQ!DeferUntil, queue
<1>12. CASE EndTick
  <2>1. at = "end" /\ at' = "idle" /\ ctx' = "none" /\ (cur' = cur \/ cur' = {}) /\ (pending' = pending \/ pending' = {})
    BY <1>12 DEF EndTick, Forget
  <2>. QED
    BY <2>1
<1>13. CASE MarkSummaryPending
  BY <1>13 DEF MarkSummaryPending, Flush, queue, RQ!OtherWriteFails, RQ!queueVars
<1>14. CASE Settle
  BY <1>14 DEF Settle, queue
<1>15. CASE EnqueueRange
  BY <1>15 DEF EnqueueRange, Return, RQ!Enqueue
<1>16. CASE SaveText \/ SaveTextFails \/ MarkTranscribed
  BY <1>16 DEF SaveText, SaveTextFails, MarkTranscribed, queue, RQ!OtherWriteFails, RQ!queueVars
<1>17. CASE RecordSuccess
  BY <1>17 DEF RecordSuccess, Return, RQ!RecordSuccess
<1>18. CASE ProviderFails \/ RecordFirstFailure \/ HonorRateLimit
  BY <1>18 DEF ProviderFails, RecordFirstFailure, HonorRateLimit, Return, queue, RQ!RecordFailure, DeferAll,
               RQ!DeferUntil
<1>19. CASE RequeueExhausted \/ WalkSavedAudio
  BY <1>19 DEF RequeueExhausted, WalkSavedAudio, queue, RQ!RequeueDead
<1>20. CASE QueueSecondWrite
  <2>1. /\ UNCHANGED <<ctx, notes, pending, accepting, cur, text>>
        /\ at' = at \/ (call.op = "retain" /\ at' \in {"parked", "kept"})
        /\ proc = "up" /\ proc' = "up"
    BY <1>20 DEF QueueSecondWrite, RQ!UnlinkDead, RQ!RetainAndPersist, RQ!Retaining
  <2>. QED
    BY <2>1 DEF Transcribed
<1>21. CASE EnqueueSavedRange \/ FinishRecovery
  BY <1>21 DEF EnqueueSavedRange, FinishRecovery, RQ!Enqueue, queue, RQ!OtherWriteFails, RQ!queueVars
<1>22. CASE NoSummary
  BY <1>22 DEF NoSummary, SummaryReturn, queue, RQ!OtherWriteFails, RQ!queueVars
<1>23. CASE LeaveAudioOnly
  BY <1>23 DEF LeaveAudioOnly, SummaryReturn, queue
<1>24. CASE WriteSummary
  BY <1>24 DEF WriteSummary, queue
<1>25. CASE MarkProcessed
  BY <1>25 DEF MarkProcessed, SummaryReturn, queue
<1>26. CASE UNCHANGED vars
  BY <1>26 DEF vars, queue, Transcribed
<1>. QED
  BY <1>1, <1>2, <1>3, <1>4, <1>5, <1>6, <1>7, <1>8, <1>9, <1>10, <1>11, <1>12, <1>13, <1>14, <1>15, <1>16,
     <1>17, <1>18, <1>19, <1>20, <1>21, <1>22, <1>23, <1>24, <1>25, <1>26 DEF Next, UserStep, WorkerStep, CallStep

\* No write of the meeting's files has failed and none has turned out unreadable.
Clean == "write" \notin seen /\ RQ!Undamaged

\* Then the file has the jobs that memory has.
InSync ==
  /\ \A j \in Jobs : In(mem, j) => In(file, j)
  /\ proc = "up" => \A j \in Jobs : In(file, j) => In(mem, j)

\* The notes are made from a drained queue: no job is left when a summary is
\* written, none comes after it, and a summary without any speech is not written
\* while a job is parked.
NotesAfterQueue ==
  Clean =>
    /\ completed = {}
    /\ InSync
    /\ at \in {"summary", "processed"} => Queued(mem) = {}
    /\ notes # NoNotes => Queued(file) = {}
    /\ notes # NoNotes /\ notes \cap Speech = {} => dead = RQ!NoDead

\* The operations of the queue that bring no job to it.
BringsNoJob ==
  \/ UNCHANGED queue \/ RQ!LoadOrCreate \/ RQ!OtherWriteFails \/ RQ!Crash \/ RQ!Quit
  \/ RQ!UnlinkDead \/ RQ!DeferUntil
  \/ \E j \in Jobs : \/ RQ!RecordFailure(j) \/ RQ!Exhaust(j) \/ RQ!GiveUp(j)
                     \/ RQ!RetainAndPersist(j) \/ RQ!RecordSuccess(j) \/ RQ!ComesDue(j)

\* A job comes to the queue only with a new range, and when a recovery revives
\* what was parked.
LEMMA JobsCome ==
  ASSUME CurrentIsJob, [Next]_vars, ~EnqueueRange, ~EnqueueSavedRange, ~RequeueExhausted
  PROVE  BringsNoJob
<1>5. at \in HasJob => Current \in Jobs
  BY CurrentInJobs
<1>6. CASE UserStep \/ StartRetryWorker
  BY <1>6 DEF UserStep, StartRecording, ResumeRecording, RetryNotes, ResetMeta, HandleAudioChunk,
              StopRecording, StartRetryWorker, BringsNoJob
<1>7. CASE ComesDue \/ Crash
  BY <1>7 DEF ComesDue, ComesDueJob, Crash, BringsNoJob
<1>8. CASE WorkerStep
  BY <1>5, <1>8 DEF WorkerStep, Tick, NextDueJob, RetryFails, RecordRetryFailure, AfterFailure,
                    WorkerSummary, EndTick, DeferAll, At, HasJob, BringsNoJob
<1>9. CASE MarkSummaryPending \/ Settle \/ SaveText \/ SaveTextFails \/ MarkTranscribed \/ ProviderFails
  BY <1>9 DEF MarkSummaryPending, Settle, SaveText, SaveTextFails, MarkTranscribed, ProviderFails, BringsNoJob
<1>10. CASE RecordSuccess \/ RecordFirstFailure
  BY <1>5, <1>10 DEF RecordSuccess, RecordFirstFailure, At, HasJob, BringsNoJob
<1>11. CASE HonorRateLimit \/ QueueSecondWrite \/ WalkSavedAudio \/ FinishRecovery
  BY <1>11 DEF HonorRateLimit, DeferAll, QueueSecondWrite, WalkSavedAudio, FinishRecovery, BringsNoJob
<1>12. CASE NoSummary \/ LeaveAudioOnly \/ WriteSummary \/ MarkProcessed
  BY <1>12 DEF NoSummary, LeaveAudioOnly, WriteSummary, MarkProcessed, BringsNoJob
<1>13. CASE UNCHANGED vars
  BY <1>13 DEF vars, BringsNoJob
<1>. QED
  BY <1>6, <1>7, <1>8, <1>9, <1>10, <1>11, <1>12, <1>13 DEF Next, CallStep

\* Faults do not heal.
LEMMA SeenGrows ==
  ASSUME CurrentIsJob, [Next]_vars
  PROVE  seen \subseteq seen'
<1>1. [QP!Next]_(QP!vars)
  BY QueueStep, SameQueue
<1>2. MaxAttempts \in Nat \ {0} /\ Faults \subseteq QP!FaultKinds /\ MaxFaults \in Nat
  BY QueueAssumption DEF RQ!FaultKinds, QP!FaultKinds
<1>. QED
  BY <1>1, <1>2, QP!SeenGrows

\* What such an operation leaves, where no write fails: no job that was not there,
\* in memory, in the file or parked; only a queued job is parked.
LEMMA QueueShrinks ==
  ASSUME RQ!TypeOK, RQ!TypeOK', InSync, Clean', BringsNoJob
  PROVE  /\ InSync'
         /\ issued' = issued
         /\ \A j \in Jobs : /\ In(file', j) => In(file, j)
                            /\ In(mem', j) => In(file, j)
                            /\ proc = "up" /\ In(mem', j) => In(mem, j)
                            /\ dead'[j] > 0 => dead[j] > 0 \/ In(mem, j)
<1>0. \A j \in Jobs : dead[j] \in Nat /\ dead'[j] \in Nat
  BY DEF RQ!TypeOK
<1>a. "write" \notin seen' /\ "read" \notin seen' /\ "corrupt" \notin seen'
  BY DEF Clean, RQ!Undamaged, RQ!Damage
<1>b. RQ!Persist => file' = mem'
  BY <1>a DEF RQ!Persist, RQ!PersistOk, RQ!PersistFails, RQ!Fault
<1>c. InSync' <=> /\ \A j \in Jobs : In(mem', j) => In(file', j)
                  /\ proc' = "up" => \A j \in Jobs : In(file', j) => In(mem', j)
  BY DEF InSync, In
<1>d. ASSUME proc' = "up", proc = "up", file' = mem', \A i \in Jobs : In(mem', i) => In(mem, i),
             \A i \in Jobs : dead'[i] > 0 => dead[i] > 0 \/ In(mem, i), issued' = issued
      PROVE  /\ InSync' /\ issued' = issued
             /\ \A j \in Jobs : /\ In(file', j) => In(file, j)
                                /\ In(mem', j) => In(file, j)
                                /\ proc = "up" /\ In(mem', j) => In(mem, j)
                                /\ dead'[j] > 0 => dead[j] > 0 \/ In(mem, j)
  <2>1. \A i \in Jobs : In(file', i) <=> In(mem', i)
    BY <1>d
  <2>. QED
    BY <1>c, <1>d, <2>1 DEF InSync
<1>e. ASSUME proc' = proc, \A i \in Jobs : (In(mem', i) <=> In(mem, i)) /\ (In(file', i) <=> In(file, i)),
             \A i \in Jobs : dead'[i] > 0 => dead[i] > 0 \/ In(mem, i), issued' = issued
      PROVE  /\ InSync' /\ issued' = issued
             /\ \A j \in Jobs : /\ In(file', j) => In(file, j)
                                /\ In(mem', j) => In(file, j)
                                /\ proc = "up" /\ In(mem', j) => In(mem, j)
                                /\ dead'[j] > 0 => dead[j] > 0 \/ In(mem, j)
  BY <1>c, <1>e DEF InSync
<1>1. CASE UNCHANGED queue
  BY <1>1, <1>e DEF queue
<1>2. CASE RQ!LoadOrCreate
  <2>1. proc = "down" /\ proc' = "up" /\ mem' = file /\ file' = file /\ dead' = dead /\ issued' = issued
    BY <1>2, <1>a DEF RQ!LoadOrCreate, RQ!Fault, RQ!history
  <2>2. \A j \in Jobs : (In(mem', j) <=> In(file, j)) /\ (In(file', j) <=> In(file, j))
    BY <2>1
  <2>. QED
    BY <1>c, <2>1, <2>2
<1>3. CASE RQ!OtherWriteFails
  BY <1>3, <1>a DEF RQ!OtherWriteFails, RQ!Fault
<1>4. CASE RQ!Crash \/ RQ!Quit
  <2>1. proc = "up" /\ proc' = "down" /\ mem' = RQ!NoJobs /\ file' = file /\ dead' = dead /\ issued' = issued
    BY <1>4 DEF RQ!Crash, RQ!Quit, RQ!Ready, RQ!history
  <2>2. \A j \in Jobs : ~In(mem', j) /\ (In(file', j) <=> In(file, j))
    BY <2>1 DEF RQ!NoJobs, In
  <2>. QED
    BY <1>c, <2>1, <2>2
<1>5. CASE RQ!UnlinkDead
  <2>1. proc' = proc /\ mem' = mem /\ file' = file /\ (dead' = dead \/ dead' = RQ!NoDead) /\ issued' = issued
    BY <1>5 DEF RQ!UnlinkDead, RQ!history
  <2>2. \A i \in Jobs : (In(mem', i) <=> In(mem, i)) /\ (In(file', i) <=> In(file, i))
    BY <2>1
  <2>3. \A i \in Jobs : dead'[i] > 0 => dead[i] > 0
    BY <2>1 DEF RQ!NoDead
  <2>. QED
    BY <1>e, <2>1, <2>2, <2>3
<1>6. CASE RQ!DeferUntil
  <2>1. proc = "up" /\ proc' = "up" /\ dead' = dead /\ file' = mem' /\ issued' = issued
    BY <1>6, <1>b DEF RQ!DeferUntil, RQ!Ready, RQ!history
  <2>. QED
    BY <1>6, <1>d, <2>1, QueueFacts
<1>7. ASSUME NEW j \in Jobs, RQ!RecordFailure(j) \/ RQ!RetainAndPersist(j) \/ RQ!RecordSuccess(j)
      PROVE  /\ InSync' /\ issued' = issued
             /\ \A i \in Jobs : /\ In(file', i) => In(file, i)
                                /\ In(mem', i) => In(file, i)
                                /\ proc = "up" /\ In(mem', i) => In(mem, i)
                                /\ dead'[i] > 0 => dead[i] > 0 \/ In(mem, i)
  <2>1. proc = "up" /\ proc' = "up" /\ dead' = dead /\ file' = mem' /\ issued' = issued
    BY <1>7, <1>b DEF RQ!RecordFailure, RQ!RetainAndPersist, RQ!RecordSuccess, RQ!Ready, RQ!history
  <2>2. \A i \in Jobs : In(mem', i) => In(mem, i)
    BY <1>7, QueueFacts
  <2>. QED
    BY <1>d, <2>1, <2>2
<1>8. ASSUME NEW j \in Jobs, RQ!Exhaust(j) \/ RQ!GiveUp(j)
      PROVE  /\ InSync' /\ issued' = issued
             /\ \A i \in Jobs : /\ In(file', i) => In(file, i)
                                /\ In(mem', i) => In(file, i)
                                /\ proc = "up" /\ In(mem', i) => In(mem, i)
                                /\ dead'[i] > 0 => dead[i] > 0 \/ In(mem, i)
  <2>1. proc' = proc /\ file' = file /\ In(mem, j) /\ issued' = issued
        /\ (dead' = dead \/ dead' = [dead EXCEPT ![j] = @ + 1])
    BY <1>8, <1>a DEF RQ!Exhaust, RQ!GiveUp, RQ!Bury, RQ!BuryFails, RQ!Fault, RQ!history, In
  <2>2. \A i \in Jobs : In(mem', i) <=> In(mem, i)
    BY <1>8, QueueFacts DEF RQ!GiveUp
  <2>3. \A i \in Jobs : In(file', i) <=> In(file, i)
    BY <2>1
  <2>4. \A i \in Jobs : dead'[i] > 0 => dead[i] > 0 \/ In(mem, i)
    BY <2>1 DEF RQ!TypeOK
  <2>. QED
    BY <1>e, <2>1, <2>2, <2>3, <2>4
<1>9. ASSUME NEW j \in Jobs, RQ!ComesDue(j)
      PROVE  /\ InSync' /\ issued' = issued
             /\ \A i \in Jobs : /\ In(file', i) => In(file, i)
                                /\ In(mem', i) => In(file, i)
                                /\ proc = "up" /\ In(mem', i) => In(mem, i)
                                /\ dead'[i] > 0 => dead[i] > 0 \/ In(mem, i)
  <2>1. proc' = proc /\ dead' = dead /\ issued' = issued
    BY <1>9 DEF RQ!ComesDue, RQ!history
  <2>2. \A i \in Jobs : (In(mem', i) <=> In(mem, i)) /\ (In(file', i) <=> In(file, i))
    BY <1>9, QueueFacts
  <2>. QED
    BY <1>e, <2>1, <2>2
<1>. QED
  BY <1>1, <1>2, <1>3, <1>4, <1>5, <1>6, <1>7, <1>8, <1>9 DEF BringsNoJob

\* A new range, or a revived one, comes before there are notes.
LEMMA QueueGrows ==
  ASSUME RQ!TypeOK, OwnTypes, Orderly, Paced, InSync, Clean', EnqueueRange \/ EnqueueSavedRange \/ RequeueExhausted
  PROVE  /\ InSync'
         /\ notes' = notes /\ notes = NoNotes
         /\ completed' = completed
         /\ at' \notin {"summary", "processed"}
<1>a. "write" \notin seen' /\ "read" \notin seen'
  BY DEF Clean, RQ!Undamaged, RQ!Damage
<1>1. CASE EnqueueRange \/ EnqueueSavedRange
  <2>1. PICK j \in Jobs, wait \in {"due", "held"} : RQ!Enqueue(j, wait)
    BY <1>1 DEF EnqueueRange, EnqueueSavedRange
  <2>2. proc' = proc /\ file' = mem'
    BY <1>a, <2>1 DEF RQ!Enqueue, RQ!PersistOk, RQ!PersistFails, RQ!Fault
  <2>3. at \in {"enqueue", "save"} /\ notes' = notes /\ completed' = completed
        /\ at' \in {"provider", "idle", "settle", "walk", "enqueue"}
    BY <1>1 DEF EnqueueRange, EnqueueSavedRange, At, Goto, Return, volatile
  <2>4. notes = NoNotes
    BY <2>3 DEF Paced, Orderly, Taking
  <2>. QED
    BY <2>2, <2>3, <2>4 DEF InSync, In
<1>2. CASE RequeueExhausted
  <2>1. at = "requeue" /\ at' = "walk" /\ notes' = notes /\ completed' = completed
        /\ (RQ!RequeueDead \/ UNCHANGED queue)
    BY <1>2 DEF RequeueExhausted, At, Goto, disk, volatile
  <2>2. notes = NoNotes
    BY <2>1 DEF Paced, Orderly, Taking
  <2>3. file' = mem' \/ UNCHANGED <<proc, mem, file>>
    BY <1>a, <2>1 DEF RQ!RequeueDead, RQ!PersistOk, RQ!PersistFails, RQ!Fault, queue
  <2>4. InSync'
    BY <2>3 DEF InSync, In
  <2>. QED
    BY <2>1, <2>2, <2>4
<1>. QED
  BY <1>1, <1>2

\* A job is reported done only when its entry is gone: nothing is remembered.
LEMMA NothingRemembered ==
  ASSUME Clean', completed = {}, [Next]_vars
  PROVE  completed' = {}
<1>1. \A j : RQ!RecordSuccess(j) => file' = mem'
  BY DEF Clean, RQ!RecordSuccess, RQ!Persist, RQ!PersistOk, RQ!PersistFails, RQ!Fault
<1>2. CASE RecordSuccess
  BY <1>1, <1>2 DEF RecordSuccess
<1>3. CASE ~RecordSuccess
  BY <1>3 DEF Next, UserStep, WorkerStep, CallStep, vars, disk, volatile, Forget, Flush,
       StartRecording, ResumeRecording, RetryNotes, ResetMeta, HandleAudioChunk, StopRecording,
       StartRetryWorker, ComesDue, ComesDueJob, Crash, Tick, NextDueJob, RetryFails,
       RecordRetryFailure, AfterFailure, WorkerSummary, EndTick, MarkSummaryPending, Settle,
       EnqueueRange, SaveText, SaveTextFails, MarkTranscribed, ProviderFails,
       RecordFirstFailure, HonorRateLimit, RequeueExhausted, QueueSecondWrite, WalkSavedAudio,
       EnqueueSavedRange, FinishRecovery, NoSummary, LeaveAudioOnly, WriteSummary, MarkProcessed
<1>. QED
  BY <1>2, <1>3

\* A summary is begun only when no job is left, and only it writes notes.
LEMMA SummaryAfterQueue ==
  ASSUME Orderly, completed = {}, completed' = {}, [Next]_vars, at' \in {"summary", "processed"}
  PROVE  Queued(mem') = {} \/ at \in {"summary", "processed"}
<1> USE DEF At, Goto, locals
<1>1. CASE UserStep \/ StartRetryWorker \/ Crash
  BY <1>1 DEF UserStep, StartRecording, ResumeRecording, RetryNotes, ResetMeta, HandleAudioChunk,
              StopRecording, Flush, StartRetryWorker, Crash, Forget, Idle, RQ!LoadOrCreate
<1>2. CASE ComesDue
  BY <1>2 DEF ComesDue, ComesDueJob
<1>3. CASE Tick \/ NextDueJob \/ RetryFails \/ RecordRetryFailure
  BY <1>3 DEF Tick, NextDueJob, RetryFails, RecordRetryFailure
<1>4. CASE AfterFailure
  BY <1>4 DEF AfterFailure, HasPendingRetries, Queued, queue
<1>5. CASE WorkerSummary
  BY <1>5 DEF WorkerSummary, Queued, queue
<1>6. CASE EndTick
  BY <1>6 DEF EndTick, Forget
<1>7. CASE MarkSummaryPending \/ EnqueueRange \/ SaveText \/ SaveTextFails \/ MarkTranscribed
  BY <1>7 DEF MarkSummaryPending, Flush, EnqueueRange, Return, SaveText, SaveTextFails, MarkTranscribed
<1>8. CASE Settle
  BY <1>8 DEF Settle, HasPendingRetries, Queued, queue
<1>9. CASE RecordSuccess
  BY <1>9 DEF RecordSuccess, Return, HasPendingRetries, Queued
<1>10. CASE ProviderFails \/ RecordFirstFailure \/ HonorRateLimit
  BY <1>10 DEF ProviderFails, RecordFirstFailure, HonorRateLimit, Return
<1>11. CASE RequeueExhausted \/ WalkSavedAudio \/ EnqueueSavedRange \/ FinishRecovery
  BY <1>11 DEF RequeueExhausted, WalkSavedAudio, EnqueueSavedRange, FinishRecovery
<1>12. CASE QueueSecondWrite
  BY <1>12 DEF QueueSecondWrite, RQ!UnlinkDead, RQ!RetainAndPersist
<1>13. CASE NoSummary \/ LeaveAudioOnly \/ MarkProcessed
  BY <1>13 DEF NoSummary, LeaveAudioOnly, MarkProcessed, SummaryReturn
<1>14. CASE WriteSummary
  BY <1>14 DEF WriteSummary
<1>15. CASE UNCHANGED vars
  BY <1>15 DEF vars, queue
<1>. QED
  BY <1>1, <1>2, <1>3, <1>4, <1>5, <1>6, <1>7, <1>8, <1>9, <1>10, <1>11, <1>12, <1>13, <1>14, <1>15
     DEF Next, WorkerStep, CallStep

\* Only WriteSummary makes notes.
LEMMA NotesWritten ==
  ASSUME [Next]_vars, ~WriteSummary
  PROVE  notes' = notes
BY DEF Next, UserStep, WorkerStep, CallStep, vars, disk,
       StartRecording, ResumeRecording, RetryNotes, ResetMeta, HandleAudioChunk, StopRecording,
       StartRetryWorker, ComesDue, ComesDueJob, Crash, Tick, NextDueJob, RetryFails,
       RecordRetryFailure, AfterFailure, WorkerSummary, EndTick, MarkSummaryPending, Settle,
       EnqueueRange, SaveText, SaveTextFails, MarkTranscribed, RecordSuccess, ProviderFails,
       RecordFirstFailure, HonorRateLimit, RequeueExhausted, QueueSecondWrite, WalkSavedAudio,
       EnqueueSavedRange, FinishRecovery, NoSummary, LeaveAudioOnly, MarkProcessed

\* Every step keeps the notes after the queue.
LEMMA NotesAfterQueueStep ==
  ASSUME OwnTypes, RQ!TypeOK, RQ!TypeOK', CurrentIsJob, Orderly, Paced, NotesAfterQueue, [Next]_vars
  PROVE  NotesAfterQueue'
<1> SUFFICES ASSUME Clean'
             PROVE  /\ completed' = {}
                    /\ InSync'
                    /\ at' \in {"summary", "processed"} => Queued(mem') = {}
                    /\ notes' # NoNotes => Queued(file') = {}
                    /\ notes' # NoNotes /\ notes' \cap Speech = {} => dead' = RQ!NoDead
  BY DEF NotesAfterQueue, Queued, RQ!NoDead
<1>0. Clean
  BY SeenGrows DEF Clean, RQ!Undamaged
<1>1. /\ completed = {}
      /\ InSync
      /\ at \in {"summary", "processed"} => Queued(mem) = {}
      /\ notes # NoNotes => Queued(file) = {}
      /\ notes # NoNotes /\ notes \cap Speech = {} => dead = RQ!NoDead
  BY <1>0 DEF NotesAfterQueue
<1>2. completed' = {}
  BY <1>1, NothingRemembered
<1>3. CASE EnqueueRange \/ EnqueueSavedRange \/ RequeueExhausted
  BY <1>1, <1>2, <1>3, QueueGrows
<1>4. CASE ~ (EnqueueRange \/ EnqueueSavedRange \/ RequeueExhausted)
  <2>1. /\ InSync'
        /\ \A j \in Jobs : /\ In(file', j) => In(file, j)
                           /\ proc = "up" /\ In(mem', j) => In(mem, j)
                           /\ dead'[j] > 0 => dead[j] > 0 \/ In(mem, j)
    BY <1>1, <1>4, JobsCome, QueueShrinks
  <2>2. at' \in {"summary", "processed"} => Queued(mem') = {}
    <3> SUFFICES ASSUME at' \in {"summary", "processed"}, Queued(mem') # {} PROVE FALSE
      OBVIOUS
    <3>1. at \in {"summary", "processed"}
      BY <1>1, <1>2, SummaryAfterQueue
    <3>2. proc = "up"
      BY <3>1 DEF Paced, RQ!TypeOK
    <3>. QED
      BY <1>1, <2>1, <3>1, <3>2 DEF Queued, In
  <2>3. CASE WriteSummary
    <3>1. /\ at = "summary" /\ proc = "up" /\ ~NoRangeTranscribed /\ notes' = Transcribed
          /\ mem' = mem /\ file' = file /\ dead' = dead
      BY <2>3 DEF WriteSummary, At, queue
    <3>2. Queued(file') = {}
      BY <1>1, <3>1 DEF InSync, Queued, In
    <3>3. notes' \cap Speech = {} => dead' = RQ!NoDead
      BY <3>1 DEF NoRangeTranscribed
    <3>. QED
      BY <1>2, <2>1, <2>2, <3>2, <3>3
  <2>4. CASE ~WriteSummary
    <3>1. notes' = notes
      BY <2>4, NotesWritten
    <3>2. notes # NoNotes => Queued(file') = {}
      BY <1>1, <2>1 DEF Queued, In
    <3>3. ASSUME notes # NoNotes, notes \cap Speech = {}
          PROVE  dead' = RQ!NoDead
      <4>1. \A j \in Jobs : dead[j] = 0 /\ ~In(mem, j)
        BY <1>1, <3>3 DEF RQ!NoDead, InSync, Queued, In
      <4>2. \A j \in Jobs : dead'[j] = 0
        <5>1. \A j \in Jobs : dead'[j] \in Nat
          BY DEF RQ!TypeOK
        <5>. QED
          BY <2>1, <4>1, <5>1
      <4>3. dead' \in [Jobs -> Nat]
        BY DEF RQ!TypeOK
      <4>. QED
        BY <4>2, <4>3 DEF RQ!NoDead
    <3>. QED
      BY <1>2, <2>1, <2>2, <3>1, <3>2, <3>3
  <2>. QED
    BY <2>3, <2>4
<1>. QED
  BY <1>3, <1>4

\* While nothing fails, a part of the recording is in one place: transcribed,
\* batched, in the range of the running call or in the range of one job; the
\* worker's list names each due job once; notes have all the text there is.
TextSaved == {"cursor", "success"}
OnePlace ==
  /\ \A u \in Units : text[u] <= 1
  /\ \A j \in Jobs : Held(j) /\ (at \in TextSaved => j \notin cur) => payload[j] \cap Transcribed = {}
  /\ \A i, j \in Jobs : Held(i) /\ Held(j) /\ i # j => payload[i] \cap payload[j] = {}
  /\ pending \cap Transcribed = {} /\ \A j \in Jobs : Held(j) => payload[j] \cap pending = {}
  /\ at \in {"enqueue", "save"} =>
       range \cap Transcribed = {} /\ \A j \in Jobs : Held(j) => payload[j] \cap range = {}
  /\ at \in HasJob => \E j \in Jobs : cur = {j} /\ In(mem, j) /\ payload[j] = range
  /\ ctx = "recover" => Transcribed \subseteq 1..offset
  /\ ctx = "recover" /\ at \in {"enqueue", "save"} \cup HasJob => range \subseteq 1..offset
  /\ at \in TextSaved => \A j \in cur : dead[j] = 0
OneTurn ==
  /\ state = "recording" =>
       \/ accepting
       \/ ctx = "recover" /\ at \notin {"owe", "settle", "summary", "processed"}
       \/ proc = "down" /\ Transcribed = {}
  /\ proc = "down" => Queued(file) = {}
  /\ ctx = "recover" /\ at # "requeue" => dead = RQ!NoDead \/ call = RQ!Unlinking
  /\ \A j \in Jobs : todo[j] > 0 => todo[j] = 1 /\ In(mem, j) /\ j \notin cur /\ j \notin call.jobs
  /\ at = "processed" \/ state = "processed" => notes = Transcribed
TextOnce == seen = {} => OnePlace /\ OneTurn

\* The steps that bring no job, save no text and walk no audio.
LEMMA PlaceFrame ==
  ASSUME OnePlace, text' = text, payload' = payload, pending' \in {pending, {}},
         \A j \in Jobs : Held(j)' => Held(j),
         at' \in {"enqueue", "save"} => at \in {"enqueue", "save"} /\ range' = range,
         at' \in HasJob => /\ at \in HasJob /\ cur' = cur /\ range' = range
                           /\ \A j \in cur : In(mem, j) => In(mem', j),
         at \in TextSaved <=> at' \in TextSaved,
         at' \in TextSaved => \A j \in cur : dead[j] = 0 => dead'[j] = 0,
         ctx' = "recover" => ctx = "recover" /\ offset' = offset
  PROVE  OnePlace'
<1>0. Transcribed' = Transcribed
  BY DEF Transcribed
<1>1. \A j \in Jobs : Held(j)' /\ (at' \in TextSaved => j \notin cur') => payload'[j] \cap Transcribed' = {}
  BY <1>0 DEF OnePlace, TextSaved, HasJob
<1>2. \A i, j \in Jobs : Held(i)' /\ Held(j)' /\ i # j => payload'[i] \cap payload'[j] = {}
  BY DEF OnePlace
<1>3. pending' \cap Transcribed' = {} /\ \A j \in Jobs : Held(j)' => payload'[j] \cap pending' = {}
  BY <1>0 DEF OnePlace
<1>4. at' \in {"enqueue", "save"} =>
        range' \cap Transcribed' = {} /\ \A j \in Jobs : Held(j)' => payload'[j] \cap range' = {}
  BY <1>0 DEF OnePlace
<1>5. at' \in HasJob => \E j \in Jobs : cur' = {j} /\ In(mem', j) /\ payload'[j] = range'
  BY DEF OnePlace
<1>6. ctx' = "recover" => Transcribed' \subseteq 1..offset'
  BY <1>0 DEF OnePlace
<1>7. ctx' = "recover" /\ at' \in {"enqueue", "save"} \cup HasJob => range' \subseteq 1..offset'
  BY DEF OnePlace
<1>8. at' \in TextSaved => \A j \in cur' : dead'[j] = 0
  BY DEF OnePlace, TextSaved, HasJob
<1>9. \A u \in Units : text'[u] <= 1
  BY DEF OnePlace
<1>. QED
  BY <1>1, <1>2, <1>3, <1>4, <1>5, <1>6, <1>7, <1>8, <1>9 DEF OnePlace, In

\* What the operations of the queue keep, where nothing fails.
LEMMA JobsKept ==
  ASSUME RQ!TypeOK, InSync, Clean'
  PROVE  /\ \/ UNCHANGED queue \/ RQ!LoadOrCreate \/ RQ!UnlinkDead \/ DeferAll \/ RQ!RequeueDead
            \/ \E j \in Jobs : RQ!ComesDue(j)
            => /\ \A i \in Jobs : In(mem, i) => In(mem', i)
               /\ call'.jobs \subseteq call.jobs
         /\ \A j \in Jobs : RQ!RecordFailure(j) \/ RQ!Exhaust(j) \/ RQ!GiveUp(j)
            => /\ \A i \in Jobs : In(mem, i) => In(mem', i)
               /\ call'.jobs \subseteq call.jobs \cup {j}
         /\ \A j \in Jobs, wait \in {"due", "held"} : RQ!Enqueue(j, wait)
            => /\ \A i \in Jobs : In(mem, i) => In(mem', i)
               /\ call'.jobs \subseteq call.jobs
               /\ j \in acked' /\ file' = mem' /\ dead' = dead /\ proc' = proc /\ call' = call
         /\ \A j \in Jobs : RQ!RetainAndPersist(j) \/ RQ!RecordSuccess(j)
            => /\ \A i \in Jobs : i # j => (In(mem, i) => In(mem', i))
               /\ ~In(mem', j) /\ file' = mem' /\ dead' = dead /\ proc' = proc /\ call'.jobs \subseteq call.jobs
         /\ \A j \in Jobs : RQ!RetainAndPersist(j) => call.jobs = {j}
<1>a. "write" \notin seen' /\ "corrupt" \notin seen' /\ "read" \notin seen'
  BY DEF Clean, RQ!Undamaged, RQ!Damage
<1>b. RQ!Idle.jobs = {} /\ RQ!Unlinking.jobs = {} /\ \A j : RQ!Retaining(j).jobs = {j}
  BY DEF RQ!Idle, RQ!Unlinking, RQ!Retaining
<1>c. RQ!Persist => file' = mem'
  BY <1>a DEF RQ!Persist, RQ!PersistOk, RQ!PersistFails, RQ!Fault
<1>1. UNCHANGED queue => (\A i \in Jobs : In(mem, i) => In(mem', i)) /\ call'.jobs \subseteq call.jobs
  BY DEF queue, In
<1>2. RQ!LoadOrCreate => (\A i \in Jobs : In(mem, i) => In(mem', i)) /\ call'.jobs \subseteq call.jobs
  BY <1>a DEF RQ!LoadOrCreate, RQ!Fault, InSync, In
<1>3. RQ!UnlinkDead => (\A i \in Jobs : In(mem, i) => In(mem', i)) /\ call'.jobs \subseteq call.jobs
  BY <1>b DEF RQ!UnlinkDead, In
<1>4. RQ!DeferUntil => (\A i \in Jobs : In(mem, i) => In(mem', i)) /\ call'.jobs \subseteq call.jobs
  BY QueueFacts DEF RQ!DeferUntil
<1>5. RQ!RequeueDead => (\A i \in Jobs : In(mem, i) => In(mem', i)) /\ call'.jobs \subseteq call.jobs
  BY <1>b, QueueFacts DEF RQ!RequeueDead
<1>6. \A j \in Jobs : RQ!ComesDue(j) => (\A i \in Jobs : In(mem, i) => In(mem', i)) /\ call'.jobs \subseteq call.jobs
  BY QueueFacts DEF RQ!ComesDue
<1>7. ASSUME NEW j \in Jobs, RQ!RecordFailure(j) \/ RQ!Exhaust(j) \/ RQ!GiveUp(j)
      PROVE  (\A i \in Jobs : In(mem, i) => In(mem', i)) /\ call'.jobs \subseteq call.jobs \cup {j}
  <2>1. call' = call \/ call' = RQ!Retaining(j)
    BY <1>7 DEF RQ!RecordFailure, RQ!Exhaust, RQ!GiveUp, RQ!Removing
  <2>2. \A i \in Jobs : In(mem, i) => In(mem', i)
    BY <1>7, QueueFacts DEF RQ!GiveUp
  <2>. QED
    BY <1>b, <2>1, <2>2
<1>8. ASSUME NEW j \in Jobs, NEW wait \in {"due", "held"}, RQ!Enqueue(j, wait)
      PROVE  /\ \A i \in Jobs : In(mem, i) => In(mem', i)
             /\ call'.jobs \subseteq call.jobs
             /\ j \in acked' /\ file' = mem' /\ dead' = dead /\ proc' = proc /\ call' = call
  <2>1. j \in acked' /\ file' = mem' /\ dead' = dead /\ proc' = proc /\ call' = call
    BY <1>8, <1>a DEF RQ!Enqueue, RQ!PersistOk, RQ!PersistFails, RQ!Fault
  <2>. QED
    BY <1>8, <2>1, QueueFacts
<1>9. ASSUME NEW j \in Jobs, RQ!RetainAndPersist(j) \/ RQ!RecordSuccess(j)
      PROVE  /\ \A i \in Jobs : i # j => (In(mem, i) => In(mem', i))
             /\ ~In(mem', j) /\ file' = mem' /\ dead' = dead /\ proc' = proc /\ call'.jobs \subseteq call.jobs
  <2>1. file' = mem' /\ dead' = dead /\ proc' = proc /\ (call' = call \/ call' = RQ!Idle)
    BY <1>9, <1>c DEF RQ!RetainAndPersist, RQ!RecordSuccess
  <2>2. \A i \in Jobs : In(mem', i) <=> In(mem, i) /\ i # j
    BY <1>9, QueueFacts
  <2>. QED
    BY <1>b, <2>1, <2>2
<1>10. \A j \in Jobs : RQ!RetainAndPersist(j) => call.jobs = {j}
  BY <1>b DEF RQ!RetainAndPersist
<1>. QED
  BY <1>1, <1>2, <1>3, <1>4, <1>5, <1>6, <1>7, <1>8, <1>9, <1>10 DEF DeferAll

\* A job is held only from when its range was handed on; no held job is new.
LEMMA HeldStays ==
  ASSUME RQ!TypeOK, RQ!TypeOK', InSync, Clean', BringsNoJob \/ RQ!RequeueDead
  PROVE  \A j \in Jobs : Held(j)' => Held(j)
<1>1. CASE BringsNoJob
  <2>1. \A j \in Jobs : /\ In(file', j) => In(file, j)
                        /\ In(mem', j) => In(file, j)
                        /\ dead'[j] > 0 => dead[j] > 0 \/ In(mem, j)
    BY <1>1, QueueShrinks
  <2>. QED
    BY <2>1 DEF Held, In
<1>2. CASE RQ!RequeueDead
  <2>1. \A i \in Jobs : In(mem', i) <=> In(mem, i) \/ dead[i] > 0
    BY <1>2, QueueFacts DEF Clean
  <2>2. dead' = dead /\ file' \in {file, mem'}
    BY <1>2 DEF RQ!RequeueDead, Clean, RQ!Undamaged, RQ!Damage, RQ!Fault, RQ!PersistOk, RQ!PersistFails
  <2>. QED
    BY <2>1, <2>2 DEF Held, In
<1>. QED
  BY <1>1, <1>2

\* The steps that draw up no list of jobs and write no notes.
LEMMA TurnFrame ==
  ASSUME OneTurn,
         state' = "recording" =>
           \/ accepting'
           \/ ctx' = "recover" /\ at' \notin {"owe", "settle", "summary", "processed"}
           \/ proc' = "down" /\ Transcribed' = {},
         proc' = "down" => Queued(file') = {},
         ctx' = "recover" /\ at' # "requeue" => dead' = RQ!NoDead \/ call' = RQ!Unlinking,
         todo' = todo \/ todo' = NoTodo,
         cur' \subseteq cur, call'.jobs \subseteq call.jobs \cup cur,
         \A j \in Jobs : In(mem, j) /\ j \notin cur /\ j \notin call.jobs => In(mem', j),
         at' = "processed" \/ state' = "processed" => notes' = Transcribed'
  PROVE  OneTurn'
<1>1. \A j \in Jobs : todo'[j] > 0 => todo'[j] = 1 /\ In(mem', j) /\ j \notin cur' /\ j \notin call'.jobs
  BY DEF OneTurn, NoTodo
<1>2. Queued(file)' = Queued(file') /\ RQ!NoDead' = RQ!NoDead /\ RQ!Unlinking' = RQ!Unlinking
  BY DEF Queued, RQ!NoDead, RQ!Unlinking
<1>. QED
  BY <1>1, <1>2 DEF OneTurn, In

\* While a recording runs nobody but capture or recovery is at work.
LEMMA RecordingTurn ==
  ASSUME OneTurn, Paced, Orderly, RQ!TypeOK, state = "recording"
  PROVE  /\ proc = "up" => ctx \notin {"tick", "worker"}
         /\ proc = "down" => Transcribed = {}
         /\ ctx = "recover" => at \notin {"owe", "settle", "summary", "processed"}
         /\ proc = "up" => accepting \/ ctx = "recover"
BY DEF OneTurn, Paced, Orderly, RQ!TypeOK

\* Where nothing fails no notes are left without the text that was saved.
LEMMA OnceFacts ==
  ASSUME OwnTypes, RQ!TypeOK, RQ!TypeOK', CurrentIsJob, NotesAfterQueue, TextOnce, [Next]_vars, seen' = {}
  PROVE  /\ seen = {} /\ OnePlace /\ OneTurn
         /\ Clean /\ Clean' /\ InSync /\ completed = {}
         /\ notes # NoNotes => Queued(file) = {} /\ Queued(mem) = {}
         /\ ~RQ!Crash /\ ~RQ!OtherWriteFails
         /\ RQ!UnlinkDead => dead' = RQ!NoDead
         /\ NoNotes # Transcribed
<1>1. seen = {}
  BY SeenGrows
<1>2. Clean /\ Clean'
  BY <1>1 DEF Clean, RQ!Undamaged, RQ!Damage
<1>3. InSync /\ completed = {} /\ (notes # NoNotes => Queued(file) = {})
  BY <1>2 DEF NotesAfterQueue
<1>4. notes # NoNotes => Queued(mem) = {}
  BY <1>3 DEF InSync, Queued, In
<1>5. \A kind : ~RQ!Fault(kind)
  BY DEF RQ!Fault
<1>6. NoNotes # Transcribed
  <2>1. 0 \notin Units
    BY BoundsAssumption DEF Units
  <2>. QED
    BY <2>1 DEF NoNotes, Transcribed
<1>. QED
  BY <1>1, <1>2, <1>3, <1>4, <1>5, <1>6 DEF TextOnce, RQ!Crash, RQ!OtherWriteFails, RQ!UnlinkDead

\* Capture, the start and the end of a recording, and the remaking of notes.
LEMMA OnceUser ==
  ASSUME OwnTypes, OwnTypes', RQ!TypeOK, RQ!TypeOK', QP!OnlyIssued, CurrentIsJob, Orderly, Orderly',
         Paced, Paced', Pieces, NotesAfterQueue, TextOnce, seen' = {}, [Next]_vars,
         UserStep \/ StartRetryWorker
  PROVE  OnePlace' /\ OneTurn'
<1>0. /\ seen = {} /\ OnePlace /\ OneTurn
      /\ Clean /\ Clean' /\ InSync /\ completed = {}
      /\ notes # NoNotes => Queued(file) = {} /\ Queued(mem) = {}
      /\ ~RQ!Crash /\ ~RQ!OtherWriteFails
      /\ NoNotes # Transcribed
  BY OnceFacts
<1>a. \A kind : ~RQ!Fault(kind)
  BY DEF RQ!Fault
<1>b. proc \in {"up", "down"} /\ proc' \in {"up", "down"}
  BY DEF RQ!TypeOK
<1>c. RQ!LoadOrCreate =>
        /\ proc = "down" /\ proc' = "up" /\ mem' = file /\ file' = file /\ dead' = dead /\ call' = call
        /\ \A j \in Jobs : Held(j)' => Held(j)
        /\ \A j \in Jobs : In(mem, j) => In(mem', j)
  <2>1. RQ!LoadOrCreate => /\ proc = "down" /\ proc' = "up" /\ mem' = file /\ file' = file /\ dead' = dead
                           /\ call' = call
    BY <1>a DEF RQ!LoadOrCreate
  <2>. QED
    BY <1>0, <2>1, HeldStays, JobsKept DEF BringsNoJob
<1> USE DEF disk, volatile, worker, locals, At, Goto, Idle, TextSaved, HasJob
<1>1. CASE StartRecording
  <2>1. /\ RQ!LoadOrCreate /\ state' = "recording" /\ accepting' /\ at = "idle"
        /\ UNCHANGED <<text, payload, pending, at, ctx, cur, range, offset, todo, notes>>
    BY <1>1 DEF StartRecording, Orderly
  <2>2. OnePlace'
    BY <1>0, <1>c, <2>1, PlaceFrame
  <2>3. OneTurn'
    BY <1>0, <1>c, <2>1, TurnFrame DEF Orderly, Paced
  <2>. QED
    BY <2>2, <2>3
<1>2. CASE StartRetryWorker
  <2>1. /\ RQ!LoadOrCreate /\ UNCHANGED <<text, payload, pending, at, ctx, cur, range, offset, todo, notes, state, accepting>>
        /\ (Queued(mem') # {} \/ owes)
    BY <1>2 DEF StartRetryWorker
  <2>2. at \in {"idle", "reset"} /\ ctx # "recover" /\ state # "recording"
    <3>1. Queued(file) = {}
      BY <1>0, <1>c, <2>1 DEF OneTurn
    <3>2. owes
      BY <1>c, <2>1, <3>1
    <3>. QED
      BY <1>c, <2>1, <3>2 DEF Paced, Orderly
  <2>3. OnePlace'
    BY <1>0, <1>c, <2>1, <2>2, PlaceFrame
  <2>4. Transcribed' = Transcribed
    BY <2>1 DEF Transcribed
  <2>5. OneTurn'
    BY <1>0, <1>c, <2>1, <2>2, <2>4, TurnFrame DEF OneTurn
  <2>. QED
    BY <2>3, <2>5
<1>3. CASE ResumeRecording
  <2>1. /\ RQ!LoadOrCreate /\ state = "recording" /\ at' = "requeue" /\ ctx' = "recover"
        /\ UNCHANGED <<text, payload, pending, cur, range, todo, notes, state, accepting>>
    BY <1>3 DEF ResumeRecording
  <2>2. Transcribed = {} /\ Transcribed' = {}
    BY <1>0, <1>c, <2>1, RecordingTurn DEF Transcribed
  <2>3. \A i, j \in Jobs : Held(i)' /\ Held(j)' /\ i # j => payload'[i] \cap payload'[j] = {}
    BY <1>0, <1>c, <2>1 DEF OnePlace
  <2>4. \A j \in Jobs : Held(j)' => payload'[j] \cap pending' = {}
    BY <1>0, <1>c, <2>1 DEF OnePlace
  <2>5. \A u \in Units : text'[u] <= 1
    BY <1>0, <2>1 DEF OnePlace
  <2>6. OnePlace'
    BY <2>1, <2>2, <2>3, <2>4, <2>5 DEF OnePlace
  <2>7. OneTurn'
    BY <1>0, <1>c, <2>1, TurnFrame
  <2>. QED
    BY <2>6, <2>7
<1>4. CASE RetryNotes
  <2>1. /\ text' = [u \in Units |-> 0] /\ at' = "reset" /\ ctx' = "notes" /\ proc = "down" /\ state # "recording"
        /\ notes = NoNotes /\ at = "idle"
        /\ UNCHANGED <<queue, payload, pending, cur, range, offset, todo, notes, state, accepting>>
    BY <1>4 DEF RetryNotes
  <2>2. Transcribed' = {}
    BY <2>1 DEF Transcribed
  <2>3. state # "processed"
    BY <1>0, <2>1 DEF OneTurn
  <2>4. \A j \in Jobs : Held(j)' <=> Held(j)
    BY <2>1 DEF queue, Held, In
  <2>5. \A i, j \in Jobs : Held(i)' /\ Held(j)' /\ i # j => payload'[i] \cap payload'[j] = {}
    BY <1>0, <2>1, <2>4 DEF OnePlace
  <2>6. \A j \in Jobs : Held(j)' => payload'[j] \cap pending' = {}
    BY <1>0, <2>1, <2>4 DEF OnePlace
  <2>7. \A u \in Units : text'[u] <= 1
    BY <2>1
  <2>8. OnePlace'
    BY <2>1, <2>2, <2>5, <2>6, <2>7 DEF OnePlace
  <2>9. OneTurn'
    BY <1>0, <2>1, <2>3, TurnFrame DEF queue, OneTurn, In
  <2>. QED
    BY <2>8, <2>9
<1>5. CASE ResetMeta
  <2>1. /\ at = "reset" /\ at' = "idle" /\ ctx' = "none" /\ proc = "down" /\ (state' = "recording" \/ state' = state)
        /\ UNCHANGED <<queue, text, payload, pending, cur, range, offset, todo, notes, accepting>>
    BY <1>5 DEF ResetMeta
  <2>2. Transcribed = {} /\ Transcribed' = {}
    BY <2>1 DEF Paced, Transcribed
  <2>3. \A j \in Jobs : Held(j)' <=> Held(j)
    BY <2>1 DEF queue, Held, In
  <2>4. OnePlace'
    BY <1>0, <2>1, <2>3, PlaceFrame
  <2>5. OneTurn'
    BY <1>0, <2>1, <2>2, TurnFrame DEF queue, OneTurn, In
  <2>. QED
    BY <2>4, <2>5
<1>6. CASE HandleAudioChunk
  <2>1. /\ at = "idle" /\ proc = "up" /\ accepting /\ len' = len + 1
        /\ UNCHANGED <<queue, text, payload, cur, offset, todo, notes, state, accepting>>
        /\ \/ at' = "enqueue" /\ ctx' = "live" /\ pending' = {} /\ range' = pending \cup {len + 1}
           \/ at' = "idle" /\ ctx' = ctx /\ pending' = pending \cup {len + 1} /\ range' = range
    BY <1>6 DEF HandleAudioChunk
  <2>2. \A j \in Jobs : Held(j)' <=> Held(j)
    BY <2>1 DEF queue, Held, In
  <2>3. len + 1 \notin Transcribed /\ \A j \in Jobs : len + 1 \notin payload[j]
    <3>1. len \in Nat /\ Transcribed \subseteq 1..len /\ \A j \in Jobs : payload[j] \subseteq 1..len
      BY BoundsAssumption DEF OwnTypes
    <3>. QED
      BY <3>1
  <2>4. Transcribed' = Transcribed
    BY <2>1 DEF Transcribed
  <2>5. /\ (pending \cup {len + 1}) \cap Transcribed = {}
        /\ \A j \in Jobs : Held(j) => payload[j] \cap (pending \cup {len + 1}) = {}
    BY <1>0, <2>3 DEF OnePlace
  <2>6. ctx # "recover" /\ ctx' # "recover"
    BY <2>1 DEF Orderly
  <2>7. \A j \in Jobs : Held(j)' => payload'[j] \cap Transcribed' = {}
    BY <1>0, <2>1, <2>2, <2>4 DEF OnePlace
  <2>8. \A i, j \in Jobs : Held(i)' /\ Held(j)' /\ i # j => payload'[i] \cap payload'[j] = {}
    BY <1>0, <2>1, <2>2 DEF OnePlace
  <2>9. pending' \cap Transcribed' = {} /\ \A j \in Jobs : Held(j)' => payload'[j] \cap pending' = {}
    BY <2>1, <2>2, <2>4, <2>5
  <2>10. at' \in {"enqueue", "save"} =>
           range' \cap Transcribed' = {} /\ \A j \in Jobs : Held(j)' => payload'[j] \cap range' = {}
    BY <2>1, <2>2, <2>4, <2>5
  <2>11. \A u \in Units : text'[u] <= 1
    BY <1>0, <2>1 DEF OnePlace
  <2>12. OnePlace'
    BY <2>1, <2>6, <2>7, <2>8, <2>9, <2>10, <2>11 DEF OnePlace
  <2>13. OneTurn'
    BY <1>0, <2>1, <2>4, <2>6, TurnFrame DEF queue, OneTurn, In
  <2>. QED
    BY <2>12, <2>13
<1>7. CASE StopRecording
  <2>1. /\ at = "idle" /\ proc = "up" /\ at' = "owe" /\ ctx' = "stop" /\ state' = "stopped"
        /\ UNCHANGED <<queue, text, payload, pending, range, cur, offset, todo, notes>>
    BY <1>0, <1>7 DEF StopRecording
  <2>2. \A j \in Jobs : Held(j)' <=> Held(j)
    BY <2>1 DEF queue, Held, In
  <2>3. OnePlace'
    BY <1>0, <2>1, <2>2, PlaceFrame
  <2>4. OneTurn'
    BY <1>0, <2>1, TurnFrame DEF queue, In
  <2>. QED
    BY <2>3, <2>4
<1>. QED
  BY <1>1, <1>2, <1>3, <1>4, <1>5, <1>6, <1>7 DEF UserStep

\* The retry worker.
LEMMA OnceWorker ==
  ASSUME OwnTypes, OwnTypes', RQ!TypeOK, RQ!TypeOK', QP!OnlyIssued, RQ!NoDuplicateWork, CurrentIsJob,
         Orderly, Orderly', Paced, Paced', NotesAfterQueue, TextOnce, seen' = {}, [Next]_vars, WorkerStep
  PROVE  OnePlace' /\ OneTurn'
<1>0. /\ seen = {} /\ OnePlace /\ OneTurn
      /\ Clean /\ Clean' /\ InSync /\ completed = {}
      /\ notes # NoNotes => Queued(file) = {} /\ Queued(mem) = {}
      /\ ~RQ!Crash /\ ~RQ!OtherWriteFails
  BY OnceFacts
<1>a. \A kind : ~RQ!Fault(kind)
  BY DEF RQ!Fault
<1>b. Transcribed' = Transcribed /\ payload' = payload /\ text' = text /\ notes' = notes
  BY DEF WorkerStep, Tick, NextDueJob, RetryFails, RecordRetryFailure, AfterFailure, WorkerSummary, EndTick,
         Transcribed, disk
<1>c. BringsNoJob
  <2>1. ~EnqueueRange /\ ~EnqueueSavedRange /\ ~RequeueExhausted
    BY DEF WorkerStep, Tick, NextDueJob, RetryFails, RecordRetryFailure, AfterFailure, WorkerSummary, EndTick,
           EnqueueRange, EnqueueSavedRange, RequeueExhausted, At, Idle, Paced
  <2>. QED
    BY <2>1, JobsCome
<1>d. \A j \in Jobs : Held(j)' => Held(j)
  BY <1>0, <1>c, HeldStays
<1>e. /\ UNCHANGED queue \/ DeferAll =>
           /\ proc' = proc /\ \A i \in Jobs : In(mem, i) => In(mem', i)
           /\ call'.jobs \subseteq call.jobs
      /\ \A j \in Jobs : RQ!RecordFailure(j) \/ RQ!Exhaust(j) \/ RQ!GiveUp(j) =>
           /\ proc' = proc /\ \A i \in Jobs : In(mem, i) => In(mem', i)
           /\ call'.jobs \subseteq call.jobs \cup {j}
  <2>1. UNCHANGED queue \/ DeferAll => proc' = proc
    BY DEF queue, DeferAll, RQ!DeferUntil
  <2>2. \A j : RQ!RecordFailure(j) \/ RQ!Exhaust(j) \/ RQ!GiveUp(j) => proc' = proc
    BY DEF RQ!RecordFailure, RQ!Exhaust, RQ!GiveUp
  <2>. QED
    BY <1>0, <2>1, <2>2, JobsKept
<1>f. at \in HasJob => Current \in Jobs /\ Current \in cur
  BY CurrentInJobs DEF CurrentIsJob, Current
<1>g. (state = "processed" \/ at = "processed") => notes = Transcribed
  BY <1>0 DEF OneTurn
<1> USE <1>a, <1>b, <1>d, <1>e, <1>g DEF disk, volatile, worker, locals, At, Goto, Idle, TextSaved, HasJob
<1>1. CASE Tick
  <2>1. /\ at = "idle" /\ at' = "jobs" /\ ctx' = "tick" /\ proc = "up" /\ ~accepting /\ call = RQ!Idle
        /\ todo' = [j \in Jobs |-> DueEntries(j)]
        /\ UNCHANGED <<queue, state, accepting, pending, cur, range, offset>>
    BY <1>1 DEF Tick
  <2>2. ctx = "none" /\ cur = {} /\ call.jobs = {} /\ proc' = "up" /\ state # "recording"
    BY <1>0, <2>1, RecordingTurn DEF Paced, RQ!Idle, queue
  <2>3. \A j \in Jobs : Len(mem[j]) + dead[j] <= 1
    BY <1>0, <2>1 DEF RQ!NoDuplicateWork, RQ!Ready, RQ!Damage
  <2>4. ASSUME NEW j \in Jobs, DueEntries(j) > 0
        PROVE  DueEntries(j) = 1 /\ In(mem, j)
    <3>1. mem[j] \in Seq(RQ!Entry) /\ dead[j] \in Nat
      BY DEF RQ!TypeOK
    <3>2. Len(mem[j]) \in Nat /\ DOMAIN mem[j] = 1..Len(mem[j])
      BY <3>1, LenProperties
    <3>3. Len(mem[j]) <= 1
      BY <2>3, <3>1, <3>2
    <3> DEFINE D == {i \in DOMAIN mem[j] : mem[j][i].wait = "due"}
    <3>4. Cardinality({}) = 0 /\ Cardinality({1}) = 1
      BY FS_EmptySet, FS_Singleton
    <3>5. D = {} \/ D = {1}
      BY <3>2, <3>3
    <3>6. DueEntries(j) = Cardinality(D)
      BY DEF DueEntries
    <3>7. D # {} /\ Cardinality(D) = 1
      BY <2>4, <3>4, <3>5, <3>6
    <3>8. mem[j] # <<>>
      BY <3>7
    <3>. QED
      BY <3>6, <3>7, <3>8 DEF In
  <2>5. OnePlace'
    BY <1>0, <2>1, PlaceFrame
  <2>6. mem' = mem /\ file' = file /\ call' = call
    BY <2>1 DEF queue
  <2>7. OneTurn'
    BY <1>0, <2>1, <2>2, <2>4, <2>6 DEF OneTurn, In
  <2>. QED
    BY <2>5, <2>7
<1>2. CASE NextDueJob
  <2>1. PICK j \in Jobs :
          /\ todo[j] > 0 /\ todo' = [todo EXCEPT ![j] = @ - 1]
          /\ cur' = {j} /\ range' = payload[j] /\ at' = "provider" /\ UNCHANGED queue
    BY <1>0, <1>2 DEF NextDueJob
  <2>2. at = "jobs" /\ ctx = "tick" /\ ctx' = "tick" /\ proc = "up" /\ UNCHANGED <<state, accepting, pending, offset>>
    BY <1>2, <2>1 DEF NextDueJob, Paced
  <2>3. todo[j] = 1 /\ In(mem, j) /\ j \notin call.jobs
    BY <1>0, <2>1 DEF OneTurn
  <2>4. mem' = mem /\ file' = file /\ call' = call /\ proc' = proc
    BY <2>1 DEF queue
  <2>5. state # "recording"
    BY <1>0, <2>2, RecordingTurn
  <2>6. \A i \in Jobs : Held(i)' => payload'[i] \cap Transcribed' = {}
    BY <1>0, <2>2 DEF OnePlace
  <2>7. \A i, k \in Jobs : Held(i)' /\ Held(k)' /\ i # k => payload'[i] \cap payload'[k] = {}
    BY <1>0 DEF OnePlace
  <2>8. pending' \cap Transcribed' = {} /\ \A i \in Jobs : Held(i)' => payload'[i] \cap pending' = {}
    BY <1>0, <2>2 DEF OnePlace
  <2>9. \E i \in Jobs : cur' = {i} /\ In(mem', i) /\ payload'[i] = range'
    BY <2>1, <2>3, <2>4
  <2>10. \A u \in Units : text'[u] <= 1
    BY <1>0 DEF OnePlace
  <2>11. OnePlace'
    BY <2>1, <2>2, <2>6, <2>7, <2>8, <2>9, <2>10 DEF OnePlace
  <2>12. \A i \in Jobs : todo'[i] > 0 => todo'[i] = 1 /\ In(mem', i) /\ i \notin cur' /\ i \notin call'.jobs
    <3> SUFFICES ASSUME NEW i \in Jobs, todo'[i] > 0
                 PROVE  todo'[i] = 1 /\ In(mem', i) /\ i \notin cur' /\ i \notin call'.jobs
      OBVIOUS
    <3>1. todo \in [Jobs -> Nat]
      BY DEF OwnTypes
    <3>2. i # j
      BY <2>1, <2>3, <3>1
    <3>3. todo'[i] = todo[i]
      BY <2>1, <3>1, <3>2
    <3>. QED
      BY <1>0, <2>1, <2>4, <3>2, <3>3 DEF OneTurn, In
  <2>13. OneTurn'
    BY <1>0, <2>1, <2>2, <2>4, <2>5, <2>12 DEF OneTurn
  <2>. QED
    BY <2>11, <2>13
<1>3. CASE RetryFails
  <2>1. /\ at = "provider" /\ ctx = "tick" /\ ctx' = "tick" /\ proc = "up" /\ at' \in {"kept", "failed"}
        /\ (RQ!GiveUp(Current) /\ at' = "kept") \/ UNCHANGED queue
        /\ UNCHANGED <<state, accepting, pending, cur, range, offset, todo>>
    BY <1>3 DEF RetryFails
  <2>2. state # "recording"
    BY <1>0, <2>1, RecordingTurn
  <2>3. proc' = "up" /\ (\A i \in Jobs : In(mem, i) => In(mem', i)) /\ call'.jobs \subseteq call.jobs \cup cur
    BY <1>f, <2>1
  <2>4. OnePlace'
    <3>1. \A j \in cur : In(mem, j) => In(mem', j)
      BY <1>0, <2>1, <2>3 DEF OnePlace
    <3>. QED
      BY <1>0, <2>1, <3>1, PlaceFrame
  <2>5. OneTurn'
    BY <1>0, <2>1, <2>2, <2>3, TurnFrame
  <2>. QED
    BY <2>4, <2>5
<1>4. CASE RecordRetryFailure
  <2>1. /\ at = "failed" /\ ctx = "tick" /\ ctx' = "tick" /\ proc = "up" /\ at' = "kept"
        /\ RQ!RecordFailure(Current) \/ RQ!Exhaust(Current) \/ UNCHANGED queue
        /\ UNCHANGED <<state, accepting, pending, cur, range, offset, todo>>
    BY <1>4 DEF RecordRetryFailure
  <2>2. state # "recording"
    BY <1>0, <2>1, RecordingTurn
  <2>3. proc' = "up" /\ (\A i \in Jobs : In(mem, i) => In(mem', i)) /\ call'.jobs \subseteq call.jobs \cup cur
    BY <1>f, <2>1
  <2>4. OnePlace'
    BY <1>0, <2>1, <2>3, PlaceFrame
  <2>5. OneTurn'
    BY <1>0, <2>1, <2>2, <2>3, TurnFrame
  <2>. QED
    BY <2>4, <2>5
<1>5. CASE AfterFailure
  <2>1. /\ at \in {"kept", "parked"} /\ ctx = "tick" /\ ctx' = "tick" /\ proc = "up"
        /\ at' \in {at, "summary", "jobs"} /\ (DeferAll \/ UNCHANGED queue) /\ cur' \subseteq cur
        /\ UNCHANGED <<state, accepting, pending, offset, todo>>
    BY <1>5 DEF AfterFailure, Paced
  <2>2. state # "recording"
    BY <1>0, <2>1, RecordingTurn
  <2>3. proc' = "up" /\ (\A i \in Jobs : In(mem, i) => In(mem', i)) /\ call'.jobs \subseteq call.jobs
    BY <2>1
  <2>4. OnePlace'
    BY <1>0, <2>1, <2>3, PlaceFrame
  <2>5. OneTurn'
    BY <1>0, <2>1, <2>2, <2>3, TurnFrame
  <2>. QED
    BY <2>4, <2>5
<1>6. CASE WorkerSummary
  <2>1. /\ at = "jobs" /\ ctx = "tick" /\ ctx' = "worker" /\ proc = "up" /\ at' \in {"summary", "end"}
        /\ todo' = NoTodo
        /\ UNCHANGED <<queue, state, accepting, pending, cur, range, offset>>
    BY <1>6 DEF WorkerSummary, Paced
  <2>2. state # "recording"
    BY <1>0, <2>1, RecordingTurn
  <2>3. proc' = "up" /\ (\A i \in Jobs : In(mem, i) => In(mem', i)) /\ call'.jobs \subseteq call.jobs
    BY <2>1
  <2>4. OnePlace'
    BY <1>0, <2>1, <2>3, PlaceFrame
  <2>5. OneTurn'
    BY <1>0, <2>1, <2>2, <2>3, TurnFrame
  <2>. QED
    BY <2>4, <2>5
<1>7. CASE EndTick
  <2>1. /\ at = "end" /\ ctx = "worker" /\ proc = "up" /\ at' = "idle" /\ ctx' = "none"
        /\ state' = state \/ state' = "stopped"
        /\ \/ UNCHANGED <<queue, pending, cur, todo>>
           \/ Queued(mem) = {} /\ RQ!Quit /\ pending' = {} /\ cur' = {} /\ todo' = NoTodo
    BY <1>0, <1>7 DEF EndTick, Forget, ClearSummaryPending, Paced
  <2>2. state # "recording"
    BY <1>0, <2>1, RecordingTurn
  <2>3. OnePlace'
    BY <1>0, <2>1, PlaceFrame
  <2>4. CASE UNCHANGED <<queue, pending, cur, todo>>
    <3>1. /\ mem' = mem /\ file' = file /\ call' = call /\ proc' = proc
          /\ cur' = cur /\ todo' = todo
      BY <2>4 DEF queue
    <3>2. \A i \in Jobs : In(mem, i) => In(mem', i)
      BY <3>1
    <3>3. state' # "recording" /\ proc' # "down" /\ ctx' # "recover" /\ at' # "processed"
      BY <2>1, <2>2, <3>1
    <3>4. state' = "processed" => notes' = Transcribed'
      BY <2>1
    <3>6. /\ proc' = "down" => Queued(file') = {}
          /\ todo' = todo \/ todo' = NoTodo
          /\ cur' \subseteq cur /\ call'.jobs \subseteq call.jobs \cup cur
          /\ \A j \in Jobs : In(mem, j) /\ j \notin cur /\ j \notin call.jobs => In(mem', j)
      BY <3>1, <3>2, <3>3
    <3>7. /\ state' = "recording" =>
               \/ accepting'
               \/ ctx' = "recover" /\ at' \notin {"owe", "settle", "summary", "processed"}
               \/ proc' = "down" /\ Transcribed' = {}
          /\ ctx' = "recover" /\ at' # "requeue" => dead' = RQ!NoDead \/ call' = RQ!Unlinking
          /\ at' = "processed" \/ state' = "processed" => notes' = Transcribed'
      BY <3>3, <3>4
    <3>. QED
      BY <1>0, <2>3, <3>6, <3>7, TurnFrame
  <2>5. CASE Queued(mem) = {} /\ RQ!Quit /\ pending' = {} /\ cur' = {} /\ todo' = NoTodo
    <3>1. file' = file /\ call' = call /\ dead' = dead
      BY <2>5 DEF RQ!Quit
    <3>2. \A i \in Jobs : ~In(mem, i)
      BY <2>5 DEF Queued, In
    <3>3. \A i \in Jobs : ~In(file, i)
      BY <1>0, <2>1, <3>2 DEF InSync
    <3>4. Queued(file') = {}
      BY <3>1, <3>3 DEF Queued, In
    <3>5. state' # "recording" /\ ctx' # "recover" /\ at' # "processed"
      BY <2>1, <2>2
    <3>6. /\ proc' = "down" => Queued(file') = {}
          /\ todo' = todo \/ todo' = NoTodo
          /\ cur' \subseteq cur /\ call'.jobs \subseteq call.jobs \cup cur
          /\ \A j \in Jobs : In(mem, j) /\ j \notin cur /\ j \notin call.jobs => In(mem', j)
      BY <2>5, <3>1, <3>2, <3>4
    <3>7. /\ state' = "recording" =>
               \/ accepting'
               \/ ctx' = "recover" /\ at' \notin {"owe", "settle", "summary", "processed"}
               \/ proc' = "down" /\ Transcribed' = {}
          /\ ctx' = "recover" /\ at' # "requeue" => dead' = RQ!NoDead \/ call' = RQ!Unlinking
          /\ at' = "processed" \/ state' = "processed" => notes' = Transcribed'
      BY <2>1, <3>5
    <3>. QED
      BY <1>0, <2>3, <3>6, <3>7, TurnFrame
  <2>. QED
    BY <2>1, <2>4, <2>5
<1>. QED
  BY <1>1, <1>2, <1>3, <1>4, <1>5, <1>6, <1>7 DEF WorkerStep

\* The steps of a call that bring no range, save no text and walk no audio.
QuietStep ==
  \/ Settle \/ SaveTextFails \/ MarkTranscribed \/ ProviderFails \/ RecordFirstFailure \/ HonorRateLimit
  \/ RequeueExhausted \/ QueueSecondWrite \/ FinishRecovery \/ NoSummary \/ LeaveAudioOnly

\* Where a quiet step is taken.
LEMMA QuietPlaces ==
  ASSUME Orderly, QuietStep
  PROVE  \/ RequeueExhausted
         \/ QueueSecondWrite /\ RQ!UnlinkDead /\ call = RQ!Unlinking /\ call # RQ!Idle
         \/ QueueSecondWrite /\ (\E j \in Jobs : RQ!RetainAndPersist(j)) /\ call # RQ!Idle /\ at = "kept"
         \/ at \in {"settle", "provider", "cursor", "failed", "limited", "stop", "summary", "processed"}
            /\ call = RQ!Idle /\ ~RequeueExhausted /\ ~QueueSecondWrite
<1>1. RQ!Idle.op = "idle" /\ RQ!Unlinking.op = "unlink" /\ \A j : RQ!Retaining(j).op = "retain"
  BY DEF RQ!Idle, RQ!Unlinking, RQ!Retaining
<1>2. CASE QueueSecondWrite
  BY <1>1, <1>2 DEF QueueSecondWrite, RQ!UnlinkDead, RQ!RetainAndPersist, Orderly
<1>3. ASSUME call = RQ!Idle, at # "requeue"
      PROVE  ~RequeueExhausted /\ ~QueueSecondWrite
  BY <1>1, <1>3 DEF RequeueExhausted, QueueSecondWrite, RQ!UnlinkDead, RQ!RetainAndPersist, At
<1>4. CASE Settle \/ SaveTextFails \/ MarkTranscribed \/ ProviderFails \/ RecordFirstFailure
             \/ HonorRateLimit \/ FinishRecovery \/ NoSummary \/ LeaveAudioOnly
  BY <1>3, <1>4 DEF Settle, SaveTextFails, MarkTranscribed, ProviderFails, RecordFirstFailure,
     HonorRateLimit, FinishRecovery, NoSummary, LeaveAudioOnly, At
<1>. QED
  BY <1>2, <1>4 DEF QuietStep

\* Where such a step takes the call.
LEMMA QuietSteps ==
  ASSUME Orderly, QuietStep, ~RQ!OtherWriteFails
  PROVE  /\ UNCHANGED <<text, payload, pending, notes, accepting, todo, offset>>
         /\ proc = "up"
         /\ \/ at' = at /\ cur' = cur /\ range' = range /\ RQ!UnlinkDead
            \/ at = "cursor" /\ at' = "success" /\ cur' = cur /\ range' = range /\ UNCHANGED queue
            \/ at' \notin {"enqueue", "save", "processed", "requeue"} \cup HasJob /\ at \notin TextSaved
               /\ cur' \subseteq cur
         /\ ctx' \in {ctx, "none"}
         /\ state' = state \/ state' = "stopped"
         /\ at' \in {"owe", "settle", "summary"} =>
              \/ at \in {"processed", "summary", "settle", "owe"} \/ FinishRecovery \/ ctx # "recover"
<1> USE DEF HasJob, TextSaved, At, Goto, disk, volatile, worker, locals
<1>1. CASE Settle \/ SaveTextFails \/ MarkTranscribed
  BY <1>1 DEF Settle, SaveTextFails, MarkTranscribed
<1>2. CASE ProviderFails \/ RecordFirstFailure \/ HonorRateLimit
  BY <1>2 DEF ProviderFails, RecordFirstFailure, HonorRateLimit, Return
<1>3. CASE RequeueExhausted \/ FinishRecovery \/ NoSummary \/ LeaveAudioOnly
  BY <1>3 DEF RequeueExhausted, FinishRecovery, NoSummary, LeaveAudioOnly, SummaryReturn, ClearSummaryPending
<1>4. CASE QueueSecondWrite
  <2>1. CASE RQ!UnlinkDead /\ Goto(at)
    BY <1>4, <2>1 DEF QueueSecondWrite, RQ!UnlinkDead
  <2>2. CASE \E j \in Jobs : RQ!RetainAndPersist(j)
    <3>1. at = "kept" /\ proc = "up"
      BY <2>2 DEF Orderly, RQ!RetainAndPersist, RQ!Retaining
    <3>2. ~RQ!UnlinkDead
      BY <2>2 DEF RQ!RetainAndPersist, RQ!UnlinkDead, RQ!Retaining, RQ!Unlinking
    <3>. QED
      BY <1>4, <3>1, <3>2 DEF QueueSecondWrite
  <2>. QED
    BY <1>4, <2>1, <2>2 DEF QueueSecondWrite
<1>. QED
  BY <1>1, <1>2, <1>3, <1>4 DEF QuietStep

\* What such a step does to the queue.
LEMMA QuietQueue ==
  ASSUME QuietStep, ~RQ!OtherWriteFails, CurrentIsJob
  PROVE  \/ UNCHANGED queue \/ DeferAll \/ RQ!UnlinkDead \/ (RQ!RequeueDead /\ RequeueExhausted)
         \/ \E j \in cur \cap Jobs : RQ!RecordFailure(j)
         \/ \E j \in Jobs : RQ!RetainAndPersist(j) /\ QueueSecondWrite
<1>1. at \in HasJob => Current \in cur \cap Jobs
  BY CurrentInJobs DEF CurrentIsJob, Current
<1>2. CASE RecordFirstFailure
  BY <1>1, <1>2 DEF RecordFirstFailure, At, HasJob
<1>3. CASE QueueSecondWrite
  BY <1>3 DEF QueueSecondWrite
<1>4. CASE RequeueExhausted
  <2>1. RQ!RequeueDead \/ UNCHANGED queue
    BY <1>4 DEF RequeueExhausted
  <2>. QED
    BY <1>4, <2>1
<1>5. CASE Settle \/ SaveTextFails \/ MarkTranscribed \/ ProviderFails \/ HonorRateLimit
             \/ FinishRecovery \/ NoSummary \/ LeaveAudioOnly
  <2>1. UNCHANGED queue \/ DeferAll
    <3>1. Settle \/ ProviderFails \/ LeaveAudioOnly => UNCHANGED queue
      BY DEF Settle, ProviderFails, LeaveAudioOnly
    <3>2. MarkTranscribed \/ FinishRecovery => UNCHANGED queue
      BY DEF MarkTranscribed, FinishRecovery
    <3>3. NoSummary => UNCHANGED queue
      BY DEF NoSummary
    <3>4. HonorRateLimit => DeferAll
      BY DEF HonorRateLimit
    <3>5. ~SaveTextFails
      BY DEF SaveTextFails
    <3>. QED
      BY <1>5, <3>1, <3>2, <3>3, <3>4, <3>5
  <2>. QED
    BY <2>1
<1>. QED
  BY <1>2, <1>3, <1>4, <1>5 DEF QuietStep

\* The quiet steps of a call.
LEMMA OnceQuiet ==
  ASSUME OwnTypes, OwnTypes', RQ!TypeOK, RQ!TypeOK', CurrentIsJob,
         Orderly, Orderly', Paced, Paced', NotesAfterQueue, TextOnce, seen' = {}, [Next]_vars, QuietStep
  PROVE  OnePlace' /\ OneTurn'
<1>0. /\ seen = {} /\ OnePlace /\ OneTurn
      /\ Clean /\ Clean' /\ InSync /\ completed = {}
      /\ ~RQ!Crash /\ ~RQ!OtherWriteFails
      /\ RQ!UnlinkDead => dead' = RQ!NoDead
  BY OnceFacts
<1>1. /\ Transcribed' = Transcribed /\ UNCHANGED <<text, payload, pending, notes, accepting, todo, offset>>
      /\ ctx' \in {ctx, "none"} /\ (state' = state \/ state' = "stopped") /\ proc = "up"
  BY <1>0, QuietSteps DEF Transcribed
<1>2. \A j \in Jobs : Held(j)' => Held(j)
  <2>1. CASE RequeueExhausted
    <3>1. RQ!RequeueDead \/ UNCHANGED queue
      BY <2>1 DEF RequeueExhausted
    <3>. QED
      BY <1>0, <3>1, HeldStays DEF BringsNoJob
  <2>2. CASE ~RequeueExhausted
    <3>1. ~EnqueueRange /\ ~EnqueueSavedRange
      BY <2>2, QuietPlaces DEF EnqueueRange, EnqueueSavedRange, At
    <3>. QED
      BY <1>0, <2>2, <3>1, JobsCome, HeldStays
  <2>. QED
    BY <2>1, <2>2
<1>3. proc' = "up" /\ (\A j \in Jobs : In(mem, j) /\ j \notin call.jobs => In(mem', j))
      /\ call'.jobs \subseteq call.jobs \cup cur
  <2>1. CASE UNCHANGED queue \/ DeferAll \/ RQ!RequeueDead \/ RQ!UnlinkDead
    <3>1. proc' = "up"
      BY <1>1, <2>1 DEF queue, DeferAll, RQ!DeferUntil, RQ!RequeueDead, RQ!UnlinkDead
    <3>. QED
      BY <1>0, <2>1, <3>1, JobsKept
  <2>2. CASE \E j \in cur \cap Jobs : RQ!RecordFailure(j)
    <3>1. proc' = "up"
      BY <1>1, <2>2 DEF RQ!RecordFailure
    <3>. QED
      BY <1>0, <2>2, <3>1, JobsKept
  <2>3. CASE \E j \in Jobs : RQ!RetainAndPersist(j)
    BY <1>0, <1>1, <2>3, JobsKept
  <2>. QED
    BY <1>0, <2>1, <2>2, <2>3, QuietQueue
<1>4. OnePlace'
  <2>1. CASE at' = at /\ cur' = cur /\ range' = range /\ RQ!UnlinkDead
    <3>1. mem' = mem /\ dead' = RQ!NoDead
      BY <1>0, <2>1 DEF RQ!UnlinkDead
    <3>2. \A j \in cur : j \in Jobs
      BY DEF CurrentIsJob
    <3>3. \A j \in cur : (In(mem, j) => In(mem', j)) /\ dead'[j] = 0
      BY <3>1, <3>2 DEF RQ!NoDead
    <3>. QED
      BY <1>0, <1>1, <1>2, <2>1, <3>3, PlaceFrame
  <2>2. CASE at = "cursor" /\ at' = "success" /\ cur' = cur /\ range' = range /\ UNCHANGED queue
    <3>1. mem' = mem /\ dead' = dead
      BY <2>2 DEF queue
    <3>. QED
      BY <1>0, <1>1, <1>2, <2>2, <3>1, PlaceFrame DEF HasJob, TextSaved
  <2>3. CASE at' \notin {"enqueue", "save", "processed", "requeue"} \cup HasJob /\ at \notin TextSaved /\ cur' \subseteq cur
    BY <1>0, <1>1, <1>2, <2>3, PlaceFrame DEF HasJob, TextSaved
  <2>. QED
    BY <1>0, <2>1, <2>2, <2>3, QuietSteps
<1>5. state' = "recording" =>
        \/ accepting'
        \/ ctx' = "recover" /\ at' \notin {"owe", "settle", "summary", "processed"}
  <2> SUFFICES ASSUME state' = "recording", ~accepting
               PROVE  ctx' = "recover" /\ at' \notin {"owe", "settle", "summary", "processed"}
    BY <1>1
  <2>1. state = "recording" /\ ctx = "recover" /\ at \notin {"owe", "settle", "summary", "processed"}
    BY <1>0, <1>1, RecordingTurn
  <2>2. ~FinishRecovery
    BY <1>0 DEF FinishRecovery
  <2>3. at' \notin {"owe", "settle", "summary", "processed"}
    BY <1>0, <2>1, <2>2, QuietSteps
  <2>4. ctx' = ctx
    <3>1. ~Settle /\ ~NoSummary /\ ~LeaveAudioOnly
      BY <2>1 DEF Settle, NoSummary, LeaveAudioOnly, At
    <3>. QED
      BY <2>1, <2>2, <3>1 DEF QuietStep, SaveTextFails, MarkTranscribed, ProviderFails, RecordFirstFailure,
         HonorRateLimit, RequeueExhausted, QueueSecondWrite, Return, Goto
  <2>. QED
    BY <2>1, <2>3, <2>4
<1>6. ctx' = "recover" /\ at' # "requeue" => dead' = RQ!NoDead \/ call' = RQ!Unlinking
  <2> SUFFICES ASSUME ctx' = "recover", at' # "requeue" PROVE dead' = RQ!NoDead \/ call' = RQ!Unlinking
    OBVIOUS
  <2>1. ctx = "recover"
    BY <1>1
  <2>2. CASE RQ!UnlinkDead
    BY <1>0, <2>2
  <2>3. CASE RequeueExhausted
    BY <1>0, <2>3 DEF RequeueExhausted, RQ!RequeueDead, RQ!Fault, RQ!PersistFails, RQ!NoFault, queue, Clean, RQ!Undamaged, RQ!Damage
  <2>4. CASE ~RQ!UnlinkDead /\ ~RequeueExhausted
    <3>1. at # "requeue"
      BY <2>4, QuietPlaces
    <3>2. dead' = dead /\ call' = call
      <4>1. \A j : ~RQ!RetainAndPersist(j)
        BY <2>1 DEF Orderly, Paced, RQ!RetainAndPersist, RQ!Retaining
      <4>2. \A j : RQ!RecordFailure(j) => dead' = dead /\ call' = call
        BY DEF RQ!RecordFailure
      <4>. QED
        BY <1>0, <2>4, <4>1, <4>2, QuietQueue DEF queue, DeferAll, RQ!DeferUntil
    <3>. QED
      BY <1>0, <2>1, <3>1, <3>2 DEF OneTurn
  <2>. QED
    BY <2>2, <2>3, <2>4
<1>7. at' = "processed" \/ state' = "processed" => notes' = Transcribed'
  <2>1. at' = "processed" => at = "processed"
    BY <1>0, QuietSteps DEF HasJob
  <2>. QED
    BY <1>0, <1>1, <2>1 DEF OneTurn
<1>8. cur' \subseteq cur
  BY <1>0, QuietSteps
<1>9. OneTurn'
  BY <1>0, <1>1, <1>3, <1>5, <1>6, <1>7, <1>8, TurnFrame
<1>. QED
  BY <1>4, <1>9

\* A job's wait, a summary that is owed, written or done, and stuttering.
LEMMA OnceSummary ==
  ASSUME OwnTypes, OwnTypes', RQ!TypeOK, RQ!TypeOK', CurrentIsJob,
         Orderly, Orderly', Paced, Paced', NotesAfterQueue, TextOnce, seen' = {}, [Next]_vars,
         ComesDue \/ MarkSummaryPending \/ WriteSummary \/ MarkProcessed \/ UNCHANGED vars
  PROVE  OnePlace' /\ OneTurn'
<1>0. /\ seen = {} /\ OnePlace /\ OneTurn
      /\ Clean /\ Clean' /\ InSync /\ completed = {}
      /\ ~RQ!Crash /\ ~RQ!OtherWriteFails
  BY OnceFacts
<1>a. /\ UNCHANGED <<text, payload, proc, dead, call>> /\ Transcribed' = Transcribed
      /\ UNCHANGED <<accepting, cur, offset, todo>>
      /\ \A i \in Jobs : (In(mem', i) <=> In(mem, i)) /\ (In(file', i) <=> In(file, i))
  <2>1. UNCHANGED <<text, payload, accepting, cur, offset, todo>> /\ (ComesDue \/ UNCHANGED queue)
    BY <1>0 DEF ComesDue, ComesDueJob, MarkSummaryPending, WriteSummary, MarkProcessed, vars, disk, volatile, locals, Flush
  <2>2. CASE UNCHANGED queue
    BY <2>1, <2>2 DEF queue, Transcribed
  <2>3. CASE ComesDue
    <3>1. PICK j \in Jobs : RQ!ComesDue(j)
      BY <2>3 DEF ComesDue, ComesDueJob
    <3>2. UNCHANGED <<proc, dead, call>>
      BY <3>1 DEF RQ!ComesDue
    <3>. QED
      BY <2>1, <3>1, <3>2, QueueFacts DEF Transcribed
  <2>. QED
    BY <2>1, <2>2, <2>3
<1>b. \A j \in Jobs : Held(j)' <=> Held(j)
  BY <1>a DEF Held, In
<1>c. /\ proc' = "down" => Queued(file') = {}
      /\ \A j \in Jobs : In(mem, j) /\ j \notin cur /\ j \notin call.jobs => In(mem', j)
      /\ cur' \subseteq cur /\ call'.jobs \subseteq call.jobs \cup cur
  BY <1>0, <1>a DEF OneTurn, Queued, In
<1> USE DEF HasJob, TextSaved, At, Goto
<1>1. CASE ComesDue \/ UNCHANGED vars
  <2>1. UNCHANGED <<pending, at, ctx, range, state, notes>>
    BY <1>1 DEF ComesDue, ComesDueJob, vars, disk, volatile, locals
  <2>2. OnePlace'
    BY <1>0, <1>a, <1>b, <2>1, PlaceFrame DEF CurrentIsJob
  <2>3. OneTurn'
    BY <1>0, <1>a, <1>c, <2>1, TurnFrame DEF OneTurn
  <2>. QED
    BY <2>2, <2>3
<1>2. CASE MarkSummaryPending
  <2>1. /\ at = "owe" /\ ctx' = ctx /\ range' = pending /\ pending' = {} /\ UNCHANGED <<state, notes>>
        /\ at' \in {"enqueue", "settle"} /\ (at' = "enqueue" => pending # {})
    BY <1>0, <1>2 DEF MarkSummaryPending, Flush
  <2>2. ctx = "recover" => at' = "settle"
    BY <2>1 DEF Paced
  <2>3. state # "recording" /\ proc' # "down"
    BY <1>a, <1>2, <2>1 DEF Orderly, MarkSummaryPending
  <2>4. /\ pending \cap Transcribed' = {}
        /\ \A j \in Jobs : Held(j)' => payload'[j] \cap Transcribed' = {}
        /\ \A j \in Jobs : Held(j)' => payload'[j] \cap pending = {}
        /\ \A i, j \in Jobs : Held(i)' /\ Held(j)' /\ i # j => payload'[i] \cap payload'[j] = {}
        /\ \A u \in Units : text'[u] <= 1
        /\ ctx' = "recover" => Transcribed' \subseteq 1..offset'
    BY <1>0, <1>a, <1>b, <2>1 DEF OnePlace
  <2>5. OnePlace'
    BY <2>1, <2>2, <2>4 DEF OnePlace
  <2>6. OneTurn'
    BY <1>0, <1>a, <1>c, <2>1, <2>3, TurnFrame DEF OneTurn
  <2>. QED
    BY <2>5, <2>6
<1>3. CASE WriteSummary
  <2>1. /\ at = "summary" /\ at' = "processed" /\ ctx' = ctx /\ notes' = Transcribed'
        /\ UNCHANGED <<state, pending, range>>
    BY <1>a, <1>3 DEF WriteSummary, volatile, locals
  <2>2. state = "recording" => accepting'
    BY <1>0, <1>a, <1>3, <2>1, RecordingTurn DEF WriteSummary
  <2>3. OnePlace'
    BY <1>0, <1>a, <1>b, <2>1, PlaceFrame
  <2>4. OneTurn'
    BY <1>0, <1>a, <1>c, <2>1, <2>2, TurnFrame DEF OneTurn
  <2>. QED
    BY <2>3, <2>4
<1>4. CASE MarkProcessed
  <2>1. /\ at = "processed" /\ at' \in {"idle", "jobs", "end"} /\ ctx' \in {ctx, "none"} /\ notes' = notes
        /\ state' = "processed" /\ UNCHANGED <<pending, range>>
    BY <1>4 DEF MarkProcessed, SummaryReturn, volatile, locals
  <2>2. notes' = Transcribed'
    BY <1>0, <1>a, <2>1 DEF OneTurn
  <2>3. OnePlace'
    BY <1>0, <1>a, <1>b, <2>1, PlaceFrame
  <2>4. OneTurn'
    BY <1>0, <1>a, <1>c, <2>1, <2>2, TurnFrame DEF OneTurn
  <2>. QED
    BY <2>3, <2>4
<1>. QED
  BY <1>1, <1>2, <1>3, <1>4

\* A range is put into the queue: its job holds it, and nothing else does.
LEMMA OnceQueued ==
  ASSUME OwnTypes, OwnTypes', RQ!TypeOK, RQ!TypeOK', QP!OnlyIssued, CurrentIsJob,
         Orderly, Orderly', Paced, Paced', NotesAfterQueue, TextOnce, seen' = {}, [Next]_vars,
         EnqueueRange \/ EnqueueSavedRange
  PROVE  OnePlace' /\ OneTurn'
<1>0. /\ seen = {} /\ OnePlace /\ OneTurn
      /\ Clean /\ Clean' /\ InSync /\ completed = {}
      /\ ~RQ!Crash /\ ~RQ!OtherWriteFails
  BY OnceFacts
<1> USE DEF HasJob, TextSaved, At, Goto
<1>1. PICK wait \in {"due", "held"} : RQ!Enqueue(Fresh, wait)
  BY DEF EnqueueRange, EnqueueSavedRange
<1>2. Fresh \in Jobs /\ Fresh \notin issued /\ payload' = [payload EXCEPT ![Fresh] = range]
  BY <1>1 DEF EnqueueRange, EnqueueSavedRange, RQ!Enqueue
<1>3. /\ \A i \in Jobs : In(mem, i) => In(mem', i)
      /\ call' = call /\ Fresh \in acked' /\ file' = mem' /\ dead' = dead /\ proc' = proc
  BY <1>0, <1>1, <1>2, JobsKept
<1>4. \A i \in Jobs : In(mem', i) <=> In(mem, i) \/ i = Fresh
  BY <1>1, <1>2, QueueFacts
<1>5. ~Held(Fresh)
  BY <1>2 DEF QP!OnlyIssued, Held, In, RQ!TypeOK
<1>6. \A j \in Jobs : Held(j)' => Held(j) \/ j = Fresh
  BY <1>3, <1>4 DEF Held, In
<1>7. /\ payload'[Fresh] = range /\ \A j \in Jobs : j # Fresh => payload'[j] = payload[j]
  BY <1>2 DEF OwnTypes
<1>8. /\ proc = "up" /\ call = RQ!Idle /\ at \in {"enqueue", "save"} /\ ctx' = ctx
      /\ UNCHANGED <<text, notes, state, accepting, pending, offset, todo>>
      /\ \/ at = "enqueue" /\ at' = "provider" /\ cur' = {Fresh} /\ range' = range
         \/ at = "save" /\ at' = "walk" /\ range' = {} /\ cur' = cur
  BY <1>3 DEF EnqueueRange, EnqueueSavedRange, volatile
<1>9. Transcribed' = Transcribed /\ pending = {}
  BY <1>8 DEF Transcribed, Paced
<1>10. OnePlace'
  <2>1. \A j \in Jobs : Held(j)' => payload'[j] \cap Transcribed' = {}
    BY <1>0, <1>6, <1>7, <1>8, <1>9 DEF OnePlace
  <2>2. \A i, j \in Jobs : Held(i)' /\ Held(j)' /\ i # j => payload'[i] \cap payload'[j] = {}
    BY <1>0, <1>6, <1>7, <1>8 DEF OnePlace
  <2>3. at' \in HasJob => \E j \in Jobs : cur' = {j} /\ In(mem', j) /\ payload'[j] = range'
    BY <1>2, <1>4, <1>7, <1>8
  <2>4. \A u \in Units : text'[u] <= 1
    BY <1>0, <1>8 DEF OnePlace
  <2>5. ctx' = "recover" => Transcribed' \subseteq 1..offset'
    BY <1>0, <1>8, <1>9 DEF OnePlace
  <2>6. ctx' = "recover" /\ at' \in {"enqueue", "save"} \cup HasJob => range' \subseteq 1..offset'
    BY <1>0, <1>8 DEF OnePlace
  <2>7. pending' \cap Transcribed' = {} /\ \A j \in Jobs : Held(j)' => payload'[j] \cap pending' = {}
    BY <1>8, <1>9
  <2>8. at' \notin {"enqueue", "save"} \cup TextSaved
    BY <1>8
  <2>. QED
    BY <2>1, <2>2, <2>3, <2>4, <2>5, <2>6, <2>7, <2>8 DEF OnePlace, In
<1>11. OneTurn'
  <2>1. \A j \in Jobs : todo'[j] > 0 => todo'[j] = 1 /\ In(mem', j) /\ j \notin cur' /\ j \notin call'.jobs
    <3> SUFFICES ASSUME NEW j \in Jobs, todo'[j] > 0
                 PROVE  todo'[j] = 1 /\ In(mem', j) /\ j \notin cur' /\ j \notin call'.jobs
      OBVIOUS
    <3>1. todo[j] = 1 /\ In(mem, j) /\ j \notin cur /\ j \notin call.jobs
      BY <1>0, <1>8 DEF OneTurn
    <3>2. j # Fresh
      BY <1>5, <3>1 DEF Held
    <3>. QED
      BY <1>3, <1>8, <3>1, <3>2
  <2>2. /\ state' = "recording" => accepting' \/ (ctx' = "recover" /\ at' \notin {"owe", "settle", "summary", "processed"})
        /\ proc' # "down" /\ at' # "processed"
    BY <1>0, <1>3, <1>8, RecordingTurn
  <2>3. ctx' = "recover" => dead' = RQ!NoDead \/ call' = RQ!Unlinking
    BY <1>0, <1>3, <1>8 DEF OneTurn
  <2>4. state' = "processed" => notes' = Transcribed'
    BY <1>0, <1>8, <1>9 DEF OneTurn
  <2>. QED
    BY <2>1, <2>2, <2>3, <2>4 DEF OneTurn, In
<1>. QED
  BY <1>10, <1>11

\* The text of a range is saved, once.
LEMMA OnceText ==
  ASSUME OwnTypes, OwnTypes', RQ!TypeOK, RQ!TypeOK', RQ!NoDuplicateWork, CurrentIsJob,
         Orderly, Orderly', Paced, Paced', NotesAfterQueue, TextOnce, seen' = {}, [Next]_vars, SaveText
  PROVE  OnePlace' /\ OneTurn'
<1>0. /\ seen = {} /\ OnePlace /\ OneTurn
      /\ Clean /\ Clean' /\ InSync /\ completed = {}
      /\ notes # NoNotes => Queued(file) = {} /\ Queued(mem) = {}
      /\ NoNotes # Transcribed
  BY OnceFacts
<1> USE DEF HasJob, TextSaved
<1>1. /\ at = "provider" /\ at' = "cursor" /\ ctx' = ctx /\ proc = "up" /\ call = RQ!Idle
      /\ text' = [u \in Units |-> IF u \in range THEN Min({text[u] + 1, 2}) ELSE text[u]]
      /\ mem' = mem /\ file' = file /\ dead' = dead /\ proc' = proc /\ call' = call
      /\ UNCHANGED <<state, notes, payload, accepting, pending, cur, range, offset, todo>>
  BY DEF SaveText, At, Goto, queue, volatile, locals
<1>2. PICK c \in Jobs : cur = {c} /\ In(mem, c) /\ payload[c] = range
  BY <1>0, <1>1 DEF OnePlace
<1>3. Held(c) /\ range \cap Transcribed = {} /\ pending = {}
  BY <1>0, <1>1, <1>2 DEF OnePlace, Held, Paced
<1>4. range \subseteq Units /\ text \in [Units -> 0..2]
  <2>1. len \in Nat /\ len <= MaxLen /\ range \subseteq 1..len /\ MaxLen \in Nat
    BY BoundsAssumption DEF OwnTypes
  <2>. QED
    BY <2>1 DEF OwnTypes, Units
<1>5. \A u \in range : text[u] = 0 /\ text'[u] = 1
  <2> TAKE u \in range
  <2>1. text[u] = 0
    BY <1>3, <1>4 DEF Transcribed
  <2>2. Min({1, 2}) = 1
    BY OfTwo
  <2>3. text'[u] = Min({0 + 1, 2})
    BY <1>1, <1>4, <2>1
  <2>. QED
    BY <2>1, <2>2, <2>3
<1>6. \A u \in Units : u \notin range => text'[u] = text[u]
  BY <1>1
<1>7. Transcribed' = Transcribed \cup range
  BY <1>4, <1>5, <1>6 DEF Transcribed
<1>8. \A u \in Units : text'[u] <= 1
  BY <1>0, <1>5, <1>6 DEF OnePlace
<1>9. \A j \in Jobs : Held(j)' <=> Held(j)
  BY <1>1 DEF Held, In
<1>10. dead[c] = 0
  <2>1. Len(mem[c]) + dead[c] <= 1
    BY <1>0, <1>1 DEF RQ!NoDuplicateWork, RQ!Ready, RQ!Damage
  <2>2. mem[c] \in Seq(RQ!Entry) /\ dead[c] \in Nat /\ mem[c] # <<>>
    BY <1>2 DEF RQ!TypeOK, In
  <2>3. Len(mem[c]) \in Nat /\ Len(mem[c]) # 0
    BY <2>2, EmptySeq, LenProperties
  <2>. QED
    BY <2>1, <2>2, <2>3
<1>11. OnePlace'
  <2>1. \A j \in Jobs : Held(j)' /\ j \notin cur' => payload'[j] \cap Transcribed' = {}
    <3> SUFFICES ASSUME NEW j \in Jobs, Held(j), j # c PROVE payload[j] \cap (Transcribed \cup range) = {}
      BY <1>1, <1>2, <1>7, <1>9
    <3>1. payload[j] \cap Transcribed = {}
      BY <1>0, <1>1 DEF OnePlace
    <3>2. payload[j] \cap payload[c] = {}
      BY <1>0, <1>3 DEF OnePlace
    <3>. QED
      BY <1>2, <3>1, <3>2
  <2>2. \A i, j \in Jobs : Held(i)' /\ Held(j)' /\ i # j => payload'[i] \cap payload'[j] = {}
    BY <1>0, <1>1, <1>9 DEF OnePlace
  <2>3. \E j \in Jobs : cur' = {j} /\ In(mem', j) /\ payload'[j] = range'
    BY <1>1, <1>2
  <2>4. ctx' = "recover" => Transcribed' \subseteq 1..offset' /\ range' \subseteq 1..offset'
    BY <1>0, <1>1, <1>7 DEF OnePlace
  <2>5. \A j \in cur' : dead'[j] = 0
    BY <1>1, <1>2, <1>10
  <2>6. pending' = {}
    BY <1>1, <1>3
  <2>. QED
    BY <1>1, <1>8, <2>1, <2>2, <2>3, <2>4, <2>5, <2>6 DEF OnePlace, In
<1>12. OneTurn'
  <2>1. state # "processed"
    BY <1>0, <1>2 DEF OneTurn, Queued, In
  <2>2. state = "recording" => accepting \/ ctx = "recover"
    BY <1>0, <1>1, RecordingTurn
  <2>3. \A j \in Jobs : todo'[j] > 0 => todo'[j] = 1 /\ In(mem', j) /\ j \notin cur' /\ j \notin call'.jobs
    BY <1>0, <1>1 DEF OneTurn
  <2>4. ctx' = "recover" => dead' = RQ!NoDead \/ call' = RQ!Unlinking
    BY <1>0, <1>1 DEF OneTurn
  <2>. QED
    BY <1>1, <2>1, <2>2, <2>3, <2>4 DEF OneTurn, In
<1>. QED
  BY <1>11, <1>12

\* The job whose text is saved leaves the queue.
LEMMA OnceDone ==
  ASSUME OwnTypes, OwnTypes', RQ!TypeOK, RQ!TypeOK', CurrentIsJob,
         Orderly, Orderly', Paced, Paced', NotesAfterQueue, TextOnce, seen' = {}, [Next]_vars, RecordSuccess
  PROVE  OnePlace' /\ OneTurn'
<1>0. /\ seen = {} /\ OnePlace /\ OneTurn
      /\ Clean /\ Clean' /\ InSync /\ completed = {}
  BY OnceFacts
<1> USE DEF HasJob, TextSaved
<1>1. /\ at = "success" /\ proc = "up" /\ RQ!RecordSuccess(Current)
      /\ cur' = {} /\ range' = {} /\ ctx' \in {ctx, "none"}
      /\ at' \in {"idle", "settle", "walk", "jobs", "summary"}
      /\ at' = "settle" => ctx # "recover"
      /\ at' = "summary" => ctx = "tick"
      /\ ctx' = "none" => ctx = "live"
      /\ UNCHANGED <<text, state, notes, payload, accepting, pending, offset, todo>>
  BY DEF RecordSuccess, Return, At, Goto, disk
<1>2. PICK c \in Jobs : cur = {c} /\ In(mem, c) /\ payload[c] = range
  BY <1>0, <1>1 DEF OnePlace
<1>3. Current = c /\ dead[c] = 0
  BY <1>0, <1>1, <1>2 DEF Current, OnePlace
<1>4. /\ \A i \in Jobs : i # c => (In(mem, i) => In(mem', i))
      /\ ~In(mem', c) /\ file' = mem' /\ dead' = dead /\ proc' = proc /\ call'.jobs \subseteq call.jobs
  BY <1>0, <1>1, <1>3, JobsKept
<1>5. \A j \in Jobs : Held(j)' => Held(j)
  <2>1. BringsNoJob
    BY <1>1, <1>3 DEF BringsNoJob
  <2>. QED
    BY <1>0, <2>1, HeldStays
<1>6. ~Held(c)'
  BY <1>3, <1>4 DEF Held, In
<1>7. Transcribed' = Transcribed /\ call' = call
  BY <1>1 DEF Transcribed, RQ!RecordSuccess
<1>8. OnePlace'
  <2>1. \A j \in Jobs : Held(j)' => payload'[j] \cap Transcribed' = {}
    <3> SUFFICES ASSUME NEW j \in Jobs, Held(j)' PROVE payload[j] \cap Transcribed = {}
      BY <1>1, <1>7
    <3>1. j # c /\ Held(j)
      BY <1>5, <1>6
    <3>. QED
      BY <1>0, <1>2, <3>1 DEF OnePlace
  <2>2. \A i, j \in Jobs : Held(i)' /\ Held(j)' /\ i # j => payload'[i] \cap payload'[j] = {}
    BY <1>0, <1>1, <1>5 DEF OnePlace
  <2>3. pending' \cap Transcribed' = {} /\ \A j \in Jobs : Held(j)' => payload'[j] \cap pending' = {}
    BY <1>0, <1>1, <1>5, <1>7 DEF OnePlace
  <2>4. ctx' = "recover" => Transcribed' \subseteq 1..offset'
    BY <1>0, <1>1, <1>7 DEF OnePlace
  <2>5. \A u \in Units : text'[u] <= 1
    BY <1>0, <1>1 DEF OnePlace
  <2>. QED
    BY <1>1, <2>1, <2>2, <2>3, <2>4, <2>5 DEF OnePlace
<1>9. OneTurn'
  <2>1. state' = "recording" =>
          \/ accepting'
          \/ ctx' = "recover" /\ at' \notin {"owe", "settle", "summary", "processed"}
    BY <1>0, <1>1, RecordingTurn
  <2>2. ctx' = "recover" => dead' = RQ!NoDead \/ call' = RQ!Unlinking
    BY <1>0, <1>1, <1>4, <1>7 DEF OneTurn
  <2>3. at' = "processed" \/ state' = "processed" => notes' = Transcribed'
    BY <1>0, <1>1, <1>7 DEF OneTurn
  <2>4. \A j \in Jobs : In(mem, j) /\ j \notin cur /\ j \notin call.jobs => In(mem', j)
    BY <1>2, <1>4
  <2>. QED
    BY <1>0, <1>1, <1>4, <2>1, <2>2, <2>3, <2>4, TurnFrame
<1>. QED
  BY <1>8, <1>9

\* The range that the walk cuts next touches no range that still has a job.
LEMMA WalkBetween ==
  ASSUME OwnTypes, RQ!TypeOK, QP!OnlyIssued, Pieces, completed = {}, offset < len,
         \A r \in QueuedRanges : offset + 1 \notin r,
         NEW j \in Jobs, In(mem, j)
  PROVE  payload[j] \cap ((offset + 1)..BatchEnd) = {}
<1>0. len \in Nat /\ offset \in Nat /\ BatchUnits \in Nat /\ BatchUnits >= 1
  BY BoundsAssumption, BatchAssumption DEF OwnTypes
<1>1. payload[j] \in QueuedRanges
  BY DEF QueuedRanges, Queued, In
<1>2. j \in issued /\ payload[j] # {} /\ payload[j] \subseteq 1..len /\ Convex(payload[j])
  BY DEF QP!OnlyIssued, In, OwnTypes, Pieces
<1>3. Min(payload[j]) \in payload[j]
  <2>1. payload[j] \subseteq Nat
    BY <1>0, <1>2
  <2>. QED
    BY <1>2, <2>1, Least
<1>4. \A q \in QueuedRanges : Min(q) \in Nat
  <2> TAKE q \in QueuedRanges
  <2>1. q # {} /\ q \subseteq 1..len
    BY DEF QueuedRanges, Queued, QP!OnlyIssued, OwnTypes
  <2>2. q \subseteq Nat
    BY <1>0, <2>1
  <2>. QED
    BY <2>1, <2>2, Least
<1> SUFFICES ASSUME NEW x \in payload[j], x \in (offset + 1)..BatchEnd PROVE FALSE
  OBVIOUS
<1>5. Min(payload[j]) \in Nat /\ x \in Nat /\ offset + 1 <= x /\ x <= BatchEnd
  BY <1>0, <1>1, <1>2, <1>4
<1>6. Min(payload[j]) <= x
  <2>1. payload[j] \subseteq Nat
    BY <1>0, <1>2
  <2>. QED
    BY <1>2, <2>1, Least
<1>7. CASE Min(payload[j]) <= offset + 1
  <2>1. offset + 1 \in Min(payload[j])..x
    BY <1>0, <1>5, <1>7
  <2>2. offset + 1 \in payload[j]
    BY <1>2, <1>3, <2>1 DEF Convex
  <2>. QED
    BY <1>1, <2>2
<1>8. CASE Min(payload[j]) > offset + 1
  <2> DEFINE S == {offset + BatchUnits, len} \cup {first - 1 : first \in NextQueued}
  <2>1. Min(payload[j]) \in NextQueued
    BY <1>1, <1>8 DEF NextQueued
  <2>2. \A first \in NextQueued : first \in Nat /\ first > offset + 1
    BY <1>4 DEF NextQueued
  <2>3. \A y \in S : y \in Nat
    <3> TAKE y \in S
    <3>1. CASE y \in {offset + BatchUnits, len}
      BY <1>0, <3>1
    <3>2. CASE y \in {first - 1 : first \in NextQueued}
      BY <1>0, <2>2, <3>2
    <3>. QED
      BY <3>1, <3>2
  <2>4. \A y \in S : Min(S) <= y
    BY <2>3, Least
  <2>5. Min(payload[j]) - 1 \in S
    BY <2>1
  <2>6. BatchEnd <= Min(payload[j]) - 1 /\ BatchEnd \in Nat
    <3>1. BatchEnd = Min(S)
      BY DEF BatchEnd
    <3>2. Min(S) \in S
      BY <2>3, Least
    <3>. QED
      BY <2>3, <2>4, <2>5, <3>1, <3>2
  <2>. QED
    BY <1>5, <1>6, <2>6
<1>. QED
  BY <1>0, <1>5, <1>7, <1>8

\* The walk over the saved audio goes around what still has a job.
LEMMA OnceWalk ==
  ASSUME OwnTypes, OwnTypes', RQ!TypeOK, RQ!TypeOK', QP!OnlyIssued, CurrentIsJob,
         Orderly, Orderly', Paced, Paced', Pieces, NotesAfterQueue, TextOnce, seen' = {}, [Next]_vars,
         WalkSavedAudio
  PROVE  OnePlace' /\ OneTurn'
<1>0. /\ seen = {} /\ OnePlace /\ OneTurn
      /\ Clean /\ Clean' /\ InSync /\ completed = {}
  BY OnceFacts
<1> USE DEF HasJob, TextSaved
<1>1. /\ at = "walk" /\ ctx = "recover" /\ ctx' = ctx /\ proc = "up" /\ call = RQ!Idle
      /\ at' \in {"stop", "walk", "enqueue", "save"}
      /\ UNCHANGED <<text, state, notes, payload, accepting, pending, cur, todo>>
      /\ mem' = mem /\ file' = file /\ dead' = dead /\ proc' = proc /\ call' = call
  BY DEF WalkSavedAudio, At, Goto, disk, volatile, queue, Orderly
<1>2. \A j \in Jobs : Held(j)' <=> Held(j)
  BY <1>1 DEF Held, In
<1>3. Transcribed' = Transcribed /\ Transcribed \subseteq 1..offset /\ pending = {}
  BY <1>0, <1>1 DEF Transcribed, OnePlace, Paced
<1>4. OneTurn'
  <2>1. /\ state' = "recording" =>
             \/ accepting'
             \/ ctx' = "recover" /\ at' \notin {"owe", "settle", "summary", "processed"}
        /\ proc' # "down" /\ at' # "processed"
    BY <1>1
  <2>2. dead' = RQ!NoDead \/ call' = RQ!Unlinking
    BY <1>0, <1>1 DEF OneTurn
  <2>3. state' = "processed" => notes' = Transcribed'
    BY <1>0, <1>1, <1>3 DEF OneTurn
  <2>4. /\ \A j \in Jobs : In(mem, j) /\ j \notin cur /\ j \notin call.jobs => In(mem', j)
        /\ cur' \subseteq cur /\ call'.jobs \subseteq call.jobs \cup cur
    BY <1>1
  <2>. QED
    BY <1>0, <1>1, <2>1, <2>2, <2>3, <2>4, TurnFrame
<1>5. \A j \in Jobs : Held(j) => In(mem, j)
  <2>1. dead = RQ!NoDead
    BY <1>0, <1>1 DEF OneTurn, RQ!Idle, RQ!Unlinking
  <2>. QED
    BY <1>0, <1>1, <2>1 DEF Held, InSync, RQ!NoDead
<1>6. offset \in Nat /\ len \in Nat
  BY BoundsAssumption DEF OwnTypes
<1>7. OnePlace'
  <2>1. CASE offset' = offset /\ at' = "stop"
    BY <1>0, <1>1, <1>2, <2>1, PlaceFrame
  <2>2. CASE /\ at' = "walk" /\ range' = range
             /\ \E r \in QueuedRanges : offset + 1 \in r /\ offset' = Max(r)
    <3>1. PICK r \in QueuedRanges : offset + 1 \in r /\ offset' = Max(r)
      BY <2>2
    <3>2. r \subseteq 1..len
      BY <3>1 DEF QueuedRanges, Queued, OwnTypes
    <3>3. offset' \in r /\ offset + 1 <= offset'
      <4>1. r \subseteq 0..len
        BY <1>6, <3>2
      <4>. QED
        BY <1>6, <3>1, <4>1, Greatest
    <3>4. offset' \in Nat
      BY <1>6, <3>2, <3>3
    <3>5. Transcribed' \subseteq 1..offset'
      BY <1>3, <1>6, <3>3, <3>4
    <3>6. /\ \A j \in Jobs : Held(j)' => payload'[j] \cap Transcribed' = {}
          /\ \A i, j \in Jobs : Held(i)' /\ Held(j)' /\ i # j => payload'[i] \cap payload'[j] = {}
          /\ \A u \in Units : text'[u] <= 1
      BY <1>0, <1>1, <1>2, <1>3 DEF OnePlace
    <3>. QED
      BY <1>1, <1>3, <2>2, <3>5, <3>6 DEF OnePlace
  <2>3. CASE /\ offset < len /\ at' \in {"enqueue", "save"}
             /\ \A r \in QueuedRanges : offset + 1 \notin r
             /\ range' = (offset + 1)..BatchEnd /\ offset' = BatchEnd
    <3>1. BatchEnd \in (offset + 1)..len
      BY <2>3, BatchEndType
    <3>2. BatchEnd \in Nat /\ offset <= BatchEnd
      BY <1>6, <3>1
    <3>3. Transcribed' \subseteq 1..offset' /\ range' \subseteq 1..offset' /\ range' \cap Transcribed' = {}
      BY <1>3, <1>6, <2>3, <3>2
    <3>4. \A j \in Jobs : Held(j)' => payload'[j] \cap range' = {}
      BY <1>0, <1>1, <1>2, <1>5, <2>3, WalkBetween
    <3>5. /\ \A j \in Jobs : Held(j)' => payload'[j] \cap Transcribed' = {}
          /\ \A i, j \in Jobs : Held(i)' /\ Held(j)' /\ i # j => payload'[i] \cap payload'[j] = {}
          /\ \A u \in Units : text'[u] <= 1
      BY <1>0, <1>1, <1>2, <1>3 DEF OnePlace
    <3>. QED
      BY <1>1, <1>3, <2>3, <3>3, <3>4, <3>5 DEF OnePlace
  <2>. QED
    BY <1>1, <2>1, <2>2, <2>3 DEF WalkSavedAudio, Goto
<1>. QED
  BY <1>4, <1>7

\* Every step keeps each part of the recording in one place.
LEMMA TextOnceStep ==
  ASSUME OwnTypes, OwnTypes', RQ!TypeOK, RQ!TypeOK', QP!OnlyIssued, RQ!NoDuplicateWork, CurrentIsJob,
         Orderly, Orderly', Paced, Paced', Pieces, NotesAfterQueue, TextOnce, [Next]_vars
  PROVE  TextOnce'
<1> SUFFICES ASSUME seen' = {} PROVE OnePlace' /\ OneTurn'
  BY DEF TextOnce
<1>1. CASE UserStep \/ StartRetryWorker
  BY <1>1, OnceUser
<1>2. CASE WorkerStep
  BY <1>2, OnceWorker
<1>3. CASE EnqueueRange \/ EnqueueSavedRange
  BY <1>3, OnceQueued
<1>4. CASE SaveText
  BY <1>4, OnceText
<1>5. CASE RecordSuccess
  BY <1>5, OnceDone
<1>6. CASE WalkSavedAudio
  BY <1>6, OnceWalk
<1>7. CASE ComesDue \/ MarkSummaryPending \/ WriteSummary \/ MarkProcessed \/ UNCHANGED vars
  BY <1>7, OnceSummary
<1>8. CASE QuietStep
  BY <1>8, OnceQuiet
<1>9. ~Crash
  BY OnceFacts DEF Crash
<1>. QED
  BY <1>1, <1>2, <1>3, <1>4, <1>5, <1>6, <1>7, <1>8, <1>9 DEF Next, CallStep, QuietStep

\* Before the first recording no audio is anywhere.
LEMMA FaithfulInit ==
  ASSUME Init
  PROVE  Paced /\ Pieces /\ NotesAfterQueue /\ TextOnce
<1>1. Transcribed = {}
  BY DEF Init, Transcribed
<1>2. Queued(mem) = {} /\ Queued(file) = {} /\ dead = RQ!NoDead
  BY DEF Init, Queued, RQ!Init, RQ!NoJobs
<1>3. \A j \in Jobs : ~In(mem, j) /\ ~In(file, j) /\ ~Held(j)
  BY <1>2 DEF Queued, In, Held, RQ!NoDead
<1>4. Paced
  BY <1>1 DEF Init, RQ!Init, Paced, Taking, HasJob
<1>5. Pieces
  BY DEF Init, RQ!Init, Pieces, Convex
<1>6. NotesAfterQueue
  BY <1>2, <1>3 DEF Init, NotesAfterQueue, InSync
<1>7. OnePlace
  BY <1>1, <1>3 DEF Init, OnePlace, TextSaved, HasJob
<1>8. OneTurn
  BY <1>1, <1>2 DEF Init, OneTurn, NoTodo
<1>. QED
  BY <1>4, <1>5, <1>6, <1>7, <1>8 DEF TextOnce

\* While nothing fails no part of the recording enters the transcript twice, through
\* retries, recoveries and remade notes; the notes of a processed meeting were made
\* from all the text it has; and no failed write makes a silent meeting of one whose
\* transcription was given up (NotesFaithful).
THEOREM NotesAreFaithful == Spec => []NotesFaithful
<1> DEFINE Types == OwnTypes /\ CurrentIsJob /\ RQ!TypeOK /\ RQ!NoDuplicateWork /\ QP!OnlyIssued
           Inv == Orderly /\ Paced /\ Pieces /\ NotesAfterQueue /\ TextOnce
<1>1. Init => Inv
  BY FaithfulInit, NothingForgottenInit
<1>2. Types /\ Types' /\ Inv /\ [Next]_vars => Inv'
  <2> SUFFICES ASSUME Types, Types', Inv, [Next]_vars PROVE Inv'
    OBVIOUS
  <2>1. Orderly'
    BY OrderlyStep
  <2>2. Paced'
    BY PacedStep
  <2>3. Pieces'
    BY PiecesStep
  <2>4. NotesAfterQueue'
    BY NotesAfterQueueStep
  <2>5. TextOnce'
    BY <2>1, <2>2, TextOnceStep
  <2>. QED
    BY <2>1, <2>2, <2>3, <2>4, <2>5
<1>3. Types /\ Inv => NotesFaithful
  <2> SUFFICES ASSUME Types, Inv PROVE NotesFaithful
    OBVIOUS
  <2>1. TextAtMostOnce
    BY DEF TextAtMostOnce, TextOnce, OnePlace
  <2>2. state = "processed" /\ seen = {} => notes = Transcribed
    BY DEF TextOnce, OneTurn
  <2>3. notes # NoNotes /\ notes \cap Speech = {} /\ "write" \notin seen /\ RQ!Undamaged => dead = RQ!NoDead
    BY DEF NotesAfterQueue, Clean
  <2>. QED
    BY <2>1, <2>2, <2>3 DEF NotesFaithful
<1>4. Spec => []Types
  BY PipelineTypeCorrect, PipelineKeepsItsJobs, PTL
<1>. QED
  BY <1>1, <1>2, <1>3, <1>4, PTL DEF Spec

=============================================================================
