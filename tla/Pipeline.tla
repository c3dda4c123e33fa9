------------------------------- MODULE Pipeline -------------------------------
(****************************************************************************)
(* The desktop recording pipeline (helper/crates/core/src/pipeline.rs) with *)
(* the retry worker that drives it (helper/crates/app/src/main.rs), for one *)
(* meeting, one audio channel and a batch (not streaming) provider.         *)
(*                                                                          *)
(* A pipeline call runs under the meeting's mutex, so calls do not overlap; *)
(* what can come between two of its steps is the death of the process. The  *)
(* variable at is the point a call has reached: one step per durable write  *)
(* or provider call. The retry queue is module RetryQueue, instantiated on  *)
(* the variables of the same names.                                         *)
(*                                                                          *)
(* Audio is counted in units of one captured frame; a range of saved audio  *)
(* is the set of its units.                                                 *)
(****************************************************************************)
EXTENDS Integers, Sequences, FiniteSetsExt

CONSTANTS
    MaxJobs,            \* bound: retry jobs (UUIDs) one execution draws
    MaxAttempts,        \* MAX_ATTEMPTS of the retry queue
    Faults, MaxFaults,  \* faults injected, see RetryQueue
    MaxLen,             \* bound: units of audio one recording captures
    BatchUnits,         \* TRANSCRIPTION_BATCH_SECONDS, in units
    Speech,             \* the units in which somebody speaks
    MaxSummaryAttempts, \* MAX_SUMMARY_ATTEMPTS of the retry worker
    MaxNotesRetries     \* bound: how often the user asks to make the notes again

Jobs == 1..MaxJobs
Units == 1..MaxLen

ASSUME BoundsAssumption ==
    MaxJobs \in Nat /\ MaxLen \in Nat /\ MaxSummaryAttempts \in Nat /\ MaxNotesRetries \in Nat
ASSUME BatchAssumption == BatchUnits \in 1..MaxLen /\ Speech \subseteq Units

VARIABLES
    \* The retry queue.
    proc, mem, file, dead, call, faults, seen, issued, acked, finished,
    \* What is on disk: saved audio, transcript, metadata, notes.
    len,        \* units of audio saved
    text,       \* how many times the transcript holds each unit's words
    cursor,     \* transcribed_<channel>_bytes
    state,      \* MeetingState, or "none" before the recording starts
    owes,       \* summary_pending
    notes,      \* summary.json: the units it was made from
    payload,    \* the saved range each retry job stands for
    \* The pipeline in memory.
    accepting,  \* accepting_audio
    pending,    \* pending_<channel>: units batched and not yet handed on
    completed,  \* completed_jobs
    \* The call in progress and the worker's own counters.
    at,         \* the step the call has reached
    ctx,        \* which call it is
    cur,        \* {} or the job it works on
    range,      \* the range it transcribes
    offset,     \* recover_recording: how far the saved audio has been walked
    down,       \* provider_down: "no", "yes", or "limited" by a Retry-After
    todo,       \* process_due_retries: the jobs of this tick
    tries,      \* summary_attempts
    retries,    \* how often the notes were made again
    backoff     \* ticks until summary_backoff_until; 0 when there is none

RQ == INSTANCE RetryQueue WITH
        Jobs <- Jobs, MaxAttempts <- MaxAttempts, Faults <- Faults,
        MaxFaults <- MaxFaults, proc <- proc, mem <- mem, file <- file,
        dead <- dead, call <- call, faults <- faults, seen <- seen,
        issued <- issued, acked <- acked, finished <- finished

ASSUME QueueAssumption ==
    MaxAttempts \in Nat \ {0} /\ MaxFaults \in Nat /\ Faults \subseteq RQ!FaultKinds

queue == <<proc, mem, file, dead, call, faults, seen, issued, acked, finished>>
disk == <<len, text, cursor, state, owes, notes, payload>>
volatile == <<accepting, pending, completed>>
worker == <<tries, backoff, retries>>
locals == <<cur, range, offset, down, todo>>
vars == <<queue, disk, volatile, at, ctx, locals, worker>>

NoNotes == {0}
NoTodo == [j \in Jobs |-> 0]

Init ==
    /\ RQ!Init
    /\ len = 0 /\ text = [u \in Units |-> 0] /\ cursor = 0
    /\ state = "none" /\ owes = FALSE /\ notes = NoNotes
    /\ payload = [j \in Jobs |-> {}]
    /\ accepting = FALSE /\ pending = {} /\ completed = {}
    /\ at = "idle" /\ ctx = "none"
    /\ cur = {} /\ range = {} /\ offset = 0 /\ down = "no" /\ todo = NoTodo
    /\ tries = 0 /\ backoff = 0 /\ retries = 0

-----------------------------------------------------------------------------
(* Helpers over the queue.                                                  *)

Queued(q) == {j \in Jobs : q[j] # <<>>}
Current == CHOOSE j \in cur : TRUE
Fresh == Cardinality(issued) + 1
Idle == proc = "up" /\ call = RQ!Idle /\ at = "idle"

\* A step of a call: no step of the queue is half done.
At(step) == proc = "up" /\ call = RQ!Idle /\ at = step
Goto(step) == at' = step /\ ctx' = ctx

\* Mutant: the summary does not wait for retries.
HasPendingRetriesIgnored(q, done) == FALSE

\* has_pending_retries and queued_ranges leave out completed jobs.
HasPendingRetries(q, done) == Queued(q) \ done # {}
QueuedRanges == {payload[j] : j \in Queued(mem) \ completed}

\* no_range_transcribed: blank text although transcription gave up on a range.
Transcribed == {u \in Units : text[u] > 0}
NoRangeTranscribed == Transcribed \cap Speech = {} /\ dead # RQ!NoDead

\* clear_summary_pending.
ClearSummaryPending ==
    /\ owes' = FALSE
    /\ state' = IF state = "recording" THEN "stopped" ELSE state

\* flush_pending_audio: the unfinished batch is transcribed before the call ends.
Flush ==
    /\ range' = pending /\ pending' = {}
    /\ at' = IF pending # {} THEN "enqueue" ELSE "settle"

-----------------------------------------------------------------------------
(* The pipeline comes and goes.                                             *)

\* A new recording: Pipeline::new over an empty queue, then start_recording.
StartRecording ==
    /\ state = "none"
    /\ RQ!LoadOrCreate
    /\ state' = "recording"
    /\ accepting' = TRUE
    /\ UNCHANGED <<len, text, cursor, owes, notes, payload, pending, completed,
                   at, ctx, locals, worker>>

\* start_pending_retry_workers: at startup, for a meeting with a queued job or
\* a pending summary (pending_processing_meeting_ids, build_retry_pipeline).
StartRetryWorker ==
    /\ state # "none"
    /\ RQ!LoadOrCreate
    /\ Queued(mem') # {} \/ owes
    /\ tries' = 0 /\ backoff' = 0 /\ UNCHANGED retries
    /\ UNCHANGED <<disk, volatile, at, ctx, locals>>

\* launch_desktop_recovery refuses while a worker runs, and handles Settings first:
\* with a job in the queue file or a summary owed that starts a worker, a second
\* owner of the queue. This module follows the recoveries that have one owner.
NothingPending == Queued(file) = {} /\ ~owes

\* Mutant: the meeting is stopped before its audio has been walked.
ResumeStopsFirst ==
    /\ state = "recording" /\ NothingPending
    /\ Cardinality(issued) + MaxLen <= MaxJobs
    /\ len > 0
    /\ RQ!LoadOrCreate
    /\ state' = "stopped" /\ owes' = TRUE
    /\ at' = "requeue" /\ ctx' = "recover"
    /\ offset' = cursor /\ down' = "no"
    /\ tries' = 0 /\ backoff' = 0 /\ UNCHANGED retries
    /\ UNCHANGED <<len, text, cursor, notes, payload, volatile, cur, range, todo>>

\* ResumeRecording of an interrupted meeting: a pipeline over the queue file,
\* then recover_recording, which starts by requeueing the dead jobs.
ResumeRecording ==
    /\ state = "recording" /\ NothingPending
    /\ Cardinality(issued) + MaxLen <= MaxJobs   \* bound
    /\ len > 0
    /\ RQ!LoadOrCreate
    /\ at' = "requeue" /\ ctx' = "recover"
    /\ offset' = cursor /\ down' = "no"
    /\ tries' = 0 /\ backoff' = 0 /\ UNCHANGED retries
    /\ UNCHANGED <<disk, volatile, cur, range, todo>>

\* prepare_notes_retry: the transcript is emptied, then the metadata is reset.
RetryNotes ==
    /\ proc = "down" /\ at = "idle" /\ NothingPending
    /\ state \in {"stopped", "processed"} /\ notes = NoNotes /\ len > 0
    /\ retries < MaxNotesRetries
    /\ retries' = retries + 1
    /\ text' = [u \in Units |-> 0]
    /\ at' = "reset" /\ ctx' = "notes"
    /\ UNCHANGED <<queue, len, cursor, state, owes, notes, payload, volatile,
                   locals, tries, backoff>>

ResetMeta ==
    /\ proc = "down" /\ at = "reset"
    /\ \/ state' = "recording" /\ cursor' = 0
       \/ UNCHANGED <<state, cursor>>   \* the process dies before this write
    /\ at' = "idle" /\ ctx' = "none"
    /\ UNCHANGED <<queue, len, text, owes, notes, payload, volatile, locals, worker>>

\* What the death, or the end, of a pipeline takes with it.
Forget ==
    /\ accepting' = FALSE /\ pending' = {} /\ completed' = {}
    /\ at' = "idle" /\ ctx' = "none"
    /\ cur' = {} /\ range' = {} /\ offset' = 0 /\ down' = "no" /\ todo' = NoTodo
    /\ tries' = 0 /\ backoff' = 0 /\ UNCHANGED retries

Crash == RQ!Crash /\ Forget /\ UNCHANGED disk

\* Time passes a job's next_retry_at.
ComesDueJob(j) ==
    /\ RQ!ComesDue(j)
    /\ UNCHANGED <<disk, volatile, at, ctx, locals, worker>>

ComesDue == \E j \in Jobs : ComesDueJob(j)

-----------------------------------------------------------------------------
(* Capture.                                                                 *)

\* handle_audio_chunk: the frame is saved, then batched; a full batch is
\* handed to the provider.
HandleAudioChunk ==
    /\ Idle /\ accepting
    /\ len < MaxLen
    /\ len' = len + 1
    /\ LET batch == pending \cup {len + 1}
       IN  IF Cardinality(batch) >= BatchUnits
             THEN /\ pending' = {} /\ range' = batch
                  /\ at' = "enqueue" /\ ctx' = "live"
             ELSE /\ pending' = batch
                  /\ UNCHANGED <<range, at, ctx>>
    /\ UNCHANGED <<queue, text, cursor, state, owes, notes, payload, accepting,
                   completed, cur, offset, down, todo, worker>>

\* stop_recording: mark_stopped, then mark_summary_pending, then the flush of
\* what is still batched. If the metadata cannot be written the flush still
\* runs, and the call ends there (ctx "stopFailed").
StopRecording ==
    /\ Idle /\ accepting
    /\ accepting' = FALSE
    /\ \/ /\ state' = "stopped" /\ UNCHANGED queue
          /\ at' = "owe" /\ ctx' = "stop" /\ UNCHANGED <<range, pending>>
       \/ /\ state' = state /\ RQ!OtherWriteFails
          /\ ctx' = "stopFailed" /\ Flush
    /\ UNCHANGED <<len, text, cursor, owes, notes, payload,
                   completed, cur, offset, down, todo, worker>>

\* mark_summary_pending, in stop_recording and in recover_recording.
MarkSummaryPending ==
    /\ At("owe")
    /\ \/ owes' = TRUE /\ UNCHANGED queue /\ ctx' = ctx /\ Flush
       \/ /\ owes' = owes /\ RQ!OtherWriteFails
          /\ \/ ctx = "stop" /\ ctx' = "stopFailed" /\ Flush
             \/ ctx = "recover" /\ ctx' = "none" /\ at' = "idle"
                /\ UNCHANGED <<range, pending>>
    /\ UNCHANGED <<len, text, cursor, state, notes, payload, accepting,
                   completed, cur, offset, down, todo, worker>>

\* The end of stop_recording and of recover_recording: the summary waits for
\* the transcription retries.
Settle ==
    /\ At("settle")
    /\ IF ctx = "stopFailed" \/ HasPendingRetries(mem, completed)
         THEN at' = "idle" /\ ctx' = "none"
         ELSE Goto("summary")
    /\ UNCHANGED <<queue, disk, volatile, locals, worker>>

-----------------------------------------------------------------------------
(* transcribe_pending_reporting: the job is on disk before the provider is  *)
(* called.                                                                  *)

\* Back in the caller, with whether every further request would fail too.
Return(isDown) ==
    /\ cur' = {} /\ range' = {}
    /\ down' = IF ctx = "recover" /\ isDown THEN "yes" ELSE down
    /\ \/ ctx = "live" /\ at' = "idle" /\ ctx' = "none"
       \/ ctx \in {"stop", "stopFailed"} /\ Goto("settle")
       \/ ctx = "recover" /\ Goto("walk")

EnqueueRange ==
    /\ At("enqueue")
    /\ Fresh \in Jobs
    /\ RQ!Enqueue(Fresh, "due")
    /\ payload' = [payload EXCEPT ![Fresh] = range]
    /\ \/ /\ Fresh \in acked'
          /\ cur' = {Fresh}
          /\ Goto("provider")
          /\ UNCHANGED <<range, down>>
       \/ /\ Fresh \notin acked'
          /\ Return(FALSE)
    /\ UNCHANGED <<len, text, cursor, state, owes, notes, volatile, offset, todo,
                   worker>>

\* The provider answered and append_transcript_segments_at saved the text.
SaveText ==
    /\ At("provider")
    /\ text' = [u \in Units |-> IF u \in range THEN Min({text[u] + 1, 2}) ELSE text[u]]
    /\ Goto("cursor")
    /\ UNCHANGED <<queue, len, cursor, state, owes, notes, payload, volatile,
                   locals, worker>>

\* The provider answered and the text could not be saved.
SaveTextFails ==
    /\ At("provider")
    /\ RQ!OtherWriteFails
    /\ Goto("failed")
    /\ UNCHANGED <<disk, volatile, locals, worker>>

\* Mutant: the cursor is set one unit too far.
MarkTranscribedTooFar ==
    /\ At("cursor")
    /\ cursor' = Max({cursor} \cup range) + 1
    /\ Goto("success")
    /\ UNCHANGED <<queue, len, text, state, owes, notes, payload, volatile,
                   locals, worker>>

\* mark_audio_transcribed: the cursor only moves forward; an error is ignored.
MarkTranscribed ==
    /\ At("cursor")
    /\ \/ cursor' = Max({cursor} \cup range) /\ UNCHANGED queue
       \/ cursor' = cursor /\ RQ!OtherWriteFails
    /\ Goto("success")
    /\ UNCHANGED <<len, text, state, owes, notes, payload, volatile,
                   locals, worker>>

\* record_success; a job whose entry could not be removed is remembered.
RecordSuccess ==
    /\ At("success")
    /\ RQ!RecordSuccess(Current)
    /\ completed' = IF file' = mem' THEN completed ELSE completed \cup cur
    /\ \/ ctx # "tick" /\ Return(FALSE)
       \/ /\ ctx = "tick"
          /\ cur' = {} /\ range' = {} /\ down' = down
          /\ Goto(IF HasPendingRetries(mem', completed') THEN "jobs" ELSE "summary")
    /\ UNCHANGED <<disk, accepting, pending, offset, todo, worker>>

\* The first call for a range failed: its job is on disk, and due.
ProviderFails ==
    /\ At("provider") /\ ctx # "tick"
    /\ \/ Return(FALSE)                                    \* BadResponse, Rejected
       \/ Return(TRUE)                                     \* Unreachable, AuthFailed
       \/ Goto("limited") /\ UNCHANGED <<cur, range, down>> \* RateLimited
    /\ UNCHANGED <<queue, disk, volatile, offset, todo, worker>>

\* record_failure of a job whose text could not be saved, outside a tick.
RecordFirstFailure ==
    /\ At("failed") /\ ctx # "tick"
    /\ RQ!RecordFailure(Current)
    /\ Return(FALSE)
    /\ UNCHANGED <<disk, volatile, offset, todo, worker>>

\* honor_rate_limit: every queued job that is due waits out the Retry-After.
DeferAll ==
    \/ RQ!DeferUntil
    \/ UNCHANGED queue /\ \A j \in Jobs : \A i \in DOMAIN mem[j] : mem[j][i].wait = "held"

HonorRateLimit ==
    /\ At("limited")
    /\ DeferAll
    /\ Return(TRUE)
    /\ UNCHANGED <<disk, volatile, offset, todo, worker>>

-----------------------------------------------------------------------------
(* recover_recording: requeue what was given up on, then walk the saved     *)
(* audio from the cursor to its end, around the ranges still queued.        *)

\* Mutant: the dead file is removed before the queue is written.
RequeueUnlinksFirst ==
    /\ At("requeue")
    /\ dead' = RQ!NoDead
    /\ mem' = [j \in Jobs |-> mem[j] \o RQ!Revived(dead[j])]
    /\ Goto("walk")
    /\ UNCHANGED <<proc, file, call, faults, seen, issued, acked, finished, disk,
                   volatile, locals, worker>>

RequeueExhausted ==
    /\ At("requeue")
    /\ \/ RQ!RequeueDead
       \/ dead = RQ!NoDead /\ UNCHANGED queue
    /\ Goto("walk")
    /\ UNCHANGED <<disk, volatile, locals, worker>>

\* The second file of a queue operation that writes two.
QueueSecondWrite ==
    /\ \/ RQ!UnlinkDead /\ Goto(at)
       \/ /\ \E j \in Jobs : RQ!RetainAndPersist(j)
          /\ Goto(IF file' = mem' THEN "parked" ELSE "kept")
    /\ UNCHANGED <<disk, volatile, locals, worker>>

NextQueued == {Min(r) : r \in {q \in QueuedRanges : Min(q) > offset + 1}}
BatchEnd == Min({offset + BatchUnits, len} \cup {first - 1 : first \in NextQueued})

WalkSavedAudio ==
    /\ At("walk")
    /\ \/ /\ offset >= len
          /\ Goto("stop")
          /\ UNCHANGED <<offset, range>>
       \/ /\ offset < len
          /\ \E r \in QueuedRanges : offset + 1 \in r /\ offset' = Max(r)
          /\ Goto("walk")
          /\ UNCHANGED range
       \/ /\ offset < len
          /\ \A r \in QueuedRanges : offset + 1 \notin r
          /\ range' = (offset + 1)..BatchEnd
          /\ offset' = BatchEnd
          /\ Goto(IF down = "no" THEN "enqueue" ELSE "save")
    /\ UNCHANGED <<queue, disk, volatile, cur, down, todo, worker>>

\* enqueue_saved_range, while the provider is down; on an error the range is
\* transcribed after all.
EnqueueSavedRange ==
    /\ At("save")
    /\ Fresh \in Jobs
    /\ \E wait \in {"due", "held"} : RQ!Enqueue(Fresh, wait)
    /\ payload' = [payload EXCEPT ![Fresh] = range]
    /\ \/ Fresh \in acked' /\ range' = {} /\ Goto("walk")
       \/ Fresh \notin acked' /\ range' = range /\ Goto("enqueue")
    /\ UNCHANGED <<len, text, cursor, state, owes, notes, volatile, cur, offset,
                   down, todo, worker>>

\* mark_stopped at the end of recover_recording, which returns on an error.
FinishRecovery ==
    /\ At("stop")
    /\ \/ state' = "stopped" /\ UNCHANGED queue /\ Goto("owe")
       \/ state' = state /\ RQ!OtherWriteFails /\ at' = "idle" /\ ctx' = "none"
    /\ UNCHANGED <<len, text, cursor, owes, notes, payload, volatile,
                   locals, worker>>

-----------------------------------------------------------------------------
(* spawn_retry_worker and process_due_retries: one tick.                    *)

\* A backoff is armed at the end of a tick for 5 s * 2^tries and at most 600 s,
\* the ticks are 5 s apart: a wait of one tick may or may not be over at the next.
BackoffTicks(n) == <<1, 2, 4, 8, 16, 32, 64, 120>>[Min({n, 7}) + 1]

DueEntries(j) == Cardinality({i \in DOMAIN mem[j] : mem[j][i].wait = "due"})

Tick ==
    /\ Idle /\ ~accepting
    /\ backoff' \in IF backoff = 1 THEN {0, 1} ELSE {Max({backoff - 1, 0})}
    /\ todo' = [j \in Jobs |-> DueEntries(j)]
    /\ down' = "no"
    /\ at' = "jobs" /\ ctx' = "tick"
    /\ UNCHANGED <<queue, disk, volatile, cur, range, offset, tries, retries>>

\* The next due job of the tick, unless the provider turned out to be down.
NextDueJob ==
    /\ At("jobs") /\ down = "no"
    /\ \E j \in Jobs :
         /\ todo[j] > 0
         /\ todo' = [todo EXCEPT ![j] = @ - 1]
         /\ \/ /\ j \in completed   \* only its queue entry is stale
               /\ RQ!RecordSuccess(j)
               /\ completed' = IF file' = mem' THEN completed \ {j} ELSE completed
               /\ Goto("jobs")
               /\ UNCHANGED <<cur, range>>
            \/ /\ j \notin completed
               /\ cur' = {j} /\ range' = payload[j]
               /\ Goto("provider")
               /\ UNCHANGED <<queue, completed>>
    /\ UNCHANGED <<disk, accepting, pending, offset, down, worker>>

\* A retry failed: give_up for a refused request, else record_failure_after.
\* A read of the saved audio that fails is recorded like a bad response.
RetryFails ==
    /\ At("provider") /\ ctx = "tick"
    /\ \/ /\ down' = down
          /\ \/ RQ!GiveUp(Current) /\ Goto("kept")               \* Rejected
             \/ mem[Current] = <<>> /\ UNCHANGED queue /\ Goto("kept")
       \/ /\ down' \in {"no", "yes", "limited"}
          /\ Goto("failed")
          /\ UNCHANGED queue
    /\ UNCHANGED <<disk, volatile, cur, range, offset, todo, worker>>

\* Mutant: a failed retry is not counted.
RetryFailureForgotten ==
    /\ At("failed") /\ ctx = "tick"
    /\ Goto("kept")
    /\ UNCHANGED <<queue, disk, volatile, locals, worker>>

\* record_failure_after in a tick; a job that is already gone is no error.
RecordRetryFailure ==
    /\ At("failed") /\ ctx = "tick"
    /\ \/ RQ!RecordFailure(Current) \/ RQ!Exhaust(Current)
       \/ mem[Current] = <<>> /\ UNCHANGED queue
    /\ Goto("kept")
    /\ UNCHANGED <<disk, volatile, locals, worker>>

\* After the failure: hold the others back, summarize what there is if this
\* was the last job (summarize_after_giving_up), then go on or break.
AfterFailure ==
    /\ at \in {"kept", "parked"} /\ At(at)
    /\ \/ /\ down = "limited"
          /\ DeferAll
          /\ down' = "yes"
          /\ Goto(at)
          /\ UNCHANGED <<cur, range>>
       \/ /\ down # "limited"
          /\ cur' = {} /\ range' = {}
          /\ Goto(IF at = "parked" /\ ~HasPendingRetries(mem, completed)
                    THEN "summary" ELSE "jobs")
          /\ UNCHANGED <<queue, down>>
    /\ UNCHANGED <<disk, volatile, offset, todo, worker>>

\* The jobs are done: the summary is tried once the queue is empty.
WorkerSummary ==
    /\ At("jobs")
    /\ down = "yes" \/ todo = NoTodo
    /\ todo' = NoTodo /\ down' = "no"
    /\ ctx' = "worker"
    /\ IF backoff = 0 /\ Queued(mem) = {}
         THEN at' = "summary" /\ tries' = Min({tries + 1, MaxSummaryAttempts})
         ELSE at' = "end" /\ tries' = tries
    /\ UNCHANGED <<queue, disk, volatile, cur, range, offset, backoff, retries>>

\* A summary still owed is dropped at the attempt limit and backed off before
\* it; once nothing is owed and queued the worker ends.
EndTick ==
    /\ At("end")
    /\ \/ /\ owes
          /\ at' = "idle" /\ ctx' = "none"
          /\ \/ /\ tries >= MaxSummaryAttempts
                /\ tries' = 0 /\ UNCHANGED <<backoff, retries>>
                /\ \/ ClearSummaryPending /\ UNCHANGED queue
                   \/ UNCHANGED <<owes, state>> /\ RQ!OtherWriteFails
             \/ /\ tries < MaxSummaryAttempts
                /\ backoff' = BackoffTicks(tries)
                /\ UNCHANGED <<queue, owes, state, tries, retries>>
          /\ UNCHANGED <<volatile, locals>>
       \/ /\ ~owes /\ Queued(mem) # {}
          /\ at' = "idle" /\ ctx' = "none"
          /\ tries' = 0 /\ backoff' = 0 /\ UNCHANGED retries
          /\ UNCHANGED <<queue, owes, state, volatile, locals>>
       \/ /\ ~owes /\ Queued(mem) = {}
          /\ RQ!Quit /\ Forget
          /\ UNCHANGED <<owes, state>>
    /\ UNCHANGED <<len, text, cursor, notes, payload>>

-----------------------------------------------------------------------------
(* process_pending_summary and resummarize_if_finalized.                    *)

SummaryDue ==
    /\ owes
    /\ IF ctx = "tick" THEN state # "recording"
                        ELSE ~HasPendingRetries(mem, completed)

SummaryReturn ==
    \/ ctx \in {"stop", "recover"} /\ at' = "idle" /\ ctx' = "none"
    \/ ctx = "tick" /\ Goto("jobs")
    \/ ctx = "worker" /\ Goto("end")

\* Nothing owed, or the provider failed, or a file could not be written.
NoSummary ==
    /\ At("summary") \/ At("processed")
    /\ \/ /\ at = "summary" /\ UNCHANGED queue
          /\ ~SummaryDue \/ (Transcribed \cap Speech # {})
       \/ SummaryDue /\ RQ!OtherWriteFails
    /\ SummaryReturn
    /\ UNCHANGED <<disk, volatile, locals, worker>>

\* leave_audio_only: no silent-recording note for audio nobody transcribed.
LeaveAudioOnly ==
    /\ At("summary") /\ SummaryDue /\ NoRangeTranscribed
    /\ ClearSummaryPending
    /\ SummaryReturn
    /\ UNCHANGED <<queue, len, text, cursor, notes, payload, volatile, locals, worker>>

WriteSummary ==
    /\ At("summary") /\ SummaryDue /\ ~NoRangeTranscribed
    /\ notes' = Transcribed
    /\ Goto("processed")
    /\ UNCHANGED <<queue, len, text, cursor, state, owes, payload, volatile,
                   locals, worker>>

MarkProcessed ==
    /\ At("processed")
    /\ state' = "processed" /\ owes' = FALSE
    /\ SummaryReturn
    /\ UNCHANGED <<queue, len, text, cursor, notes, payload, volatile, locals, worker>>

-----------------------------------------------------------------------------
WorkerStep ==
    \/ Tick \/ NextDueJob \/ RetryFails \/ RecordRetryFailure \/ AfterFailure
    \/ WorkerSummary \/ EndTick

CallStep ==
    \/ MarkSummaryPending \/ Settle \/ EnqueueRange \/ SaveText \/ SaveTextFails
    \/ MarkTranscribed \/ RecordSuccess \/ ProviderFails \/ RecordFirstFailure
    \/ HonorRateLimit \/ RequeueExhausted \/ QueueSecondWrite \/ WalkSavedAudio
    \/ EnqueueSavedRange \/ FinishRecovery \/ NoSummary \/ LeaveAudioOnly
    \/ WriteSummary \/ MarkProcessed

UserStep == StartRecording \/ ResumeRecording \/ RetryNotes \/ ResetMeta
              \/ HandleAudioChunk \/ StopRecording

Next ==
    \/ UserStep \/ StartRetryWorker \/ WorkerStep \/ CallStep
    \/ ComesDue \/ Crash

Spec == Init /\ [][Next]_vars

\* The runtime keeps polling the task that holds the pipeline; the worker keeps
\* ticking; clocks advance; the app is started again after a crash.
Fairness ==
    /\ WF_vars(WorkerStep \/ CallStep)
    /\ WF_vars(StartRetryWorker)
    /\ \A j \in Jobs : WF_vars(ComesDueJob(j))

FairSpec == Spec /\ Fairness

-----------------------------------------------------------------------------
(****************************************************************************)
(* Properties.                                                              *)
(****************************************************************************)
Steps == {"idle", "owe", "settle", "enqueue", "provider", "cursor", "success",
          "failed", "limited", "requeue", "walk", "save", "stop", "reset", "jobs",
          "kept", "parked", "summary", "processed", "end"}
Contexts == {"none", "live", "stop", "stopFailed", "recover", "notes", "tick", "worker"}

TypeOK ==
    /\ RQ!TypeOK
    /\ len \in 0..MaxLen /\ cursor \in 0..len /\ offset \in 0..len
    /\ text \in [Units -> 0..2]
    /\ state \in {"none", "recording", "stopped", "processed"}
    /\ owes \in BOOLEAN /\ accepting \in BOOLEAN
    /\ notes = NoNotes \/ notes \subseteq 1..len
    /\ payload \in [Jobs -> SUBSET (1..len)]
    /\ pending \subseteq 1..len /\ range \subseteq 1..len
    /\ completed \subseteq issued /\ cur \subseteq issued
    /\ at \in Steps /\ ctx \in Contexts
    /\ down \in {"no", "yes", "limited"}
    /\ todo \in [Jobs -> Nat]
    /\ tries \in 0..MaxSummaryAttempts /\ backoff \in Nat
    /\ retries \in 0..MaxNotesRetries

\* What the queue, the dead file and the running call still hold of the audio.
RangesOf(jobs) == UNION {payload[j] : j \in jobs}
OnDisk == RangesOf({j \in Jobs : file[j] # <<>> \/ dead[j] > 0})
InMemory == RangesOf(Queued(mem)) \cup pending \cup range
Unsaved == IF "write" \in seen THEN RangesOf(Queued(mem)) ELSE {}

\* The files can be read, no failed write was followed by a crash (or the other
\* way round), and the notes have not been made again.
Intact == retries = 0 /\ RQ!Undamaged /\ ~ ({"crash", "write"} \subseteq seen)

\* A recording that can still be recovered has forgotten none of its audio:
\* a saved unit is transcribed, waits in the queue or the dead file, or lies
\* after the cursor, where recover_recording starts to walk. It holds at every
\* moment a crash may come (pipeline.rs, recover_recording). Where the queue
\* file could not be written, the running process still holds the range: such
\* a failure and a crash together do lose audio, because the cursor may move
\* past a range that only memory knows. The promise ends when the notes are
\* made again: recovery then requeues a parked range before its walk, and a
\* worker that transcribes it first moves the cursor over audio before it.
NoAudioForgotten ==
    /\ TypeOK
    /\ state = "recording" /\ Intact =>
         (1..len) \ (Transcribed \cup OnDisk \cup Unsaved) \subseteq (cursor + 1)..len

\* Notes cover the whole recording up to an unfinished batch: "A crash can
\* therefore lose at most the in-memory transcription batch" (pipeline.rs,
\* handle_audio_chunk). Everything else is transcribed, queued or parked.
CrashLosesAtMostOneBatch ==
    notes # NoNotes /\ Intact =>
      Cardinality((1..len) \ (Transcribed \cup OnDisk \cup InMemory)) < BatchUnits

\* Without faults no part of the recording enters the transcript twice, with
\* retries, recoveries and remade notes ("Transcribing them here as well would
\* save their text twice", pipeline.rs, recover_recording; completed_jobs).
\* A failed write ends this: completed_jobs is in memory only, so that a job
\* whose entry could not be removed runs again after a restart.
TextAtMostOnce == seen = {} => \A u \in Units : text[u] <= 1

\* The notes of a processed meeting were made from all the text it has, each
\* part of it once (TextAtMostOnce): a summary waits for the transcription
\* retries, and a late retry makes a new one (pipeline.rs, stop_recording and
\* resummarize_if_finalized). And "no speech was transcribed" is never written
\* for audio on which the transcription gave up (pipeline.rs,
\* no_range_transcribed), unless a write failed: the entry of a transcribed job
\* that could not be removed runs again after a restart, and may then fail.
NotesFaithful ==
    /\ TextAtMostOnce
    /\ state = "processed" /\ seen = {} => notes = Transcribed
    /\ notes # NoNotes /\ notes \cap Speech = {} /\ "write" \notin seen /\ RQ!Undamaged =>
         dead = RQ!NoDead

\* The pipeline uses its retry queue only through the operations of
\* resilience.rs, and in their order.
RetryQueueSpec == RQ!Spec

\* Once a recording has stopped, every transcription retry comes to an end: it
\* succeeds or is parked, so that the queue drains however long the provider
\* fails and whatever crashes (pipeline.rs, process_due_retries). A failed
\* write may leave the entry of a job that ended in the file until the restart.
QueueDrains ==
    (state = "stopped" /\ Queued(file) # {}) ~> (Queued(file) = {} \/ "write" \in seen)

=============================================================================
