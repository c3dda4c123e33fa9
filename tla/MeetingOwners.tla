----------------------------- MODULE MeetingOwners -----------------------------
(****************************************************************************)
(* Who owns the processing of one meeting in the desktop app                *)
(* (helper/crates/app/src/main.rs).                                         *)
(*                                                                          *)
(* AppState maps a meeting to its pipeline and to its retry worker. Requests*)
(* (start, settings, finish notes, resume) run as concurrent tasks that look*)
(* the maps up, build a pipeline over the retry queue file and put it into  *)
(* the maps, with awaits in between. Every pipeline has its own copy of the *)
(* queue in memory and replaces the whole file when it persists. The steps  *)
(* of a pipeline are those of module Pipeline, here one per retry job.      *)
(****************************************************************************)
EXTENDS Naturals, FiniteSets

CONSTANTS
    Jobs,          \* the retry jobs (saved ranges) of the meeting
    Tasks,         \* bound: requests that may run at the same time
    MaxPipelines   \* bound: pipelines built in one execution

ASSUME MaxPipelinesAssumption == MaxPipelines \in Nat

Pipelines == 1..MaxPipelines

VARIABLES
    \* On disk.
    file,        \* the jobs in retry-<id>.json
    parked,      \* the jobs in retry-<id>.json.dead
    owed,        \* summary_pending
    state,       \* MeetingState, or "none" before the first start
    \* AppState: a map entry is a set with at most one pipeline.
    active,      \* active: the capture and the pipeline that it feeds
    pipelines,   \* pipelines
    retryTasks,  \* retry_tasks
    recovering,  \* is the meeting in the recovering set?
    configured,  \* settings: has a Settings message been handled?
    stopping,    \* is the meeting in STOPS_IN_FLIGHT?
    draining,    \* the pipeline of the capture that a stop took over
    \* The pipelines, their workers and the tasks.
    built,       \* how many pipelines have been built
    mem,         \* the queue in the memory of each pipeline
    worker,      \* "none", "running", or "gone" (ended or aborted)
    quits,       \* stop_when_empty
    busy,        \* the job a worker has handed to the provider
    task,        \* what each task runs, where it is, and the pipeline it built
    offered,     \* has the extension been told that the meeting was interrupted?
    \* History.
    issued,      \* jobs ever enqueued
    over         \* jobs transcribed

disk == <<file, parked, owed, state>>
maps == <<active, pipelines, retryTasks, recovering, configured>>
stops == <<stopping, draining>>
workers == <<worker, quits, busy>>
history == <<offered, issued, over>>
vars == <<disk, maps, stops, built, mem, workers, task, history>>

Requests == {"start", "settings", "finish", "resume"}
Steps == {"idle", "capture", "prepare", "launch", "sweep", "insert", "resume", "recover", "register"}
NoTask == [kind |-> "settings", pc |-> "idle", own |-> {}]

TypeOK ==
    /\ file \subseteq issued /\ parked \subseteq issued /\ issued \subseteq Jobs
    /\ over \subseteq issued
    /\ state \in {"none", "recording", "stopped"}
    /\ \A entry \in {active, pipelines, retryTasks, draining} :
         entry \subseteq 1..built /\ Cardinality(entry) <= 1
    /\ recovering \in BOOLEAN /\ configured \in BOOLEAN /\ offered \in BOOLEAN
    /\ owed \in BOOLEAN /\ stopping \in BOOLEAN
    /\ built \in 0..MaxPipelines
    /\ mem \in [Pipelines -> SUBSET issued]
    /\ worker \in [Pipelines -> {"none", "running", "gone"}]
    /\ quits \in [Pipelines -> BOOLEAN]
    /\ busy \in [Pipelines -> SUBSET issued]
    /\ task \in [Tasks -> [kind : Requests, pc : Steps, own : SUBSET Pipelines]]

\* The app starts before the first recording, or after it died in one and left
\* jobs in the queue file or the dead file.
Init ==
    /\ state \in {"none", "recording"}
    /\ file \in SUBSET Jobs /\ parked \in SUBSET (Jobs \ file)
    /\ state = "none" => file = {} /\ parked = {}
    /\ owed = FALSE
    /\ active = {} /\ pipelines = {} /\ retryTasks = {} /\ draining = {}
    /\ recovering = FALSE /\ configured = FALSE /\ stopping = FALSE
    /\ built = 0 /\ mem = [p \in Pipelines |-> {}]
    /\ worker = [p \in Pipelines |-> "none"]
    /\ quits = [p \in Pipelines |-> FALSE]
    /\ busy = [p \in Pipelines |-> {}]
    /\ task = [t \in Tasks |-> NoTask]
    /\ offered = (state = "recording")
    /\ issued = file \cup parked /\ over = {}

-----------------------------------------------------------------------------
\* build_retry_pipeline and Pipeline::new: the queue is loaded from its file.
Build(p, jobs) ==
    /\ built < MaxPipelines
    /\ p = built + 1
    /\ built' = p
    /\ mem' = [mem EXCEPT ![p] = jobs]

\* spawn_retry_worker, with the entries of pipelines and retry_tasks. An older
\* entry is replaced: its task is dropped, which does not stop it.
Install(p, quit) ==
    /\ pipelines' = {p} /\ retryTasks' = {p}
    /\ worker' = [worker EXCEPT ![p] = "running"]
    /\ quits' = [quits EXCEPT ![p] = quit]
    /\ busy' = busy

\* RetryWorker::abort of the mapped worker, and both entries removed.
AbortAndRemove ==
    /\ worker' = [p \in Pipelines |-> IF p \in retryTasks THEN "gone" ELSE worker[p]]
    /\ busy' = [p \in Pipelines |-> IF p \in retryTasks THEN {} ELSE busy[p]]
    /\ pipelines' = {} /\ retryTasks' = {}
    /\ quits' = quits

Running(t, pc) == task[t].pc = pc
Goto(t, pc) == task' = [task EXCEPT ![t].pc = pc]
Start(t, kind, pc, own) == task' = [task EXCEPT ![t] = [kind |-> kind, pc |-> pc, own |-> own]]

Starting == \E t \in Tasks : Running(t, "capture")

WorkerRunning == \E p \in retryTasks : worker[p] = "running"

-----------------------------------------------------------------------------
(* Capture.                                                                 *)

\* StartRecording, under start_lock: the pipeline and its worker are mapped ...
\* (Every start has a new meeting id, so this happens once.)
StartRecording(t) ==
    /\ Running(t, "idle")
    /\ configured /\ state = "none"
    /\ active = {} /\ ~stopping
    /\ \E p \in Pipelines :
         /\ Build(p, file)
         /\ Install(p, FALSE)
         /\ Start(t, "start", "capture", {p})
    /\ state' = "recording"
    /\ UNCHANGED <<file, parked, owed, active, recovering, configured, stops, history>>

\* ... and then the device is opened; on an error all is undone.
StartCapture(t) ==
    /\ Running(t, "capture")
    /\ Start(t, "start", "idle", {})
    /\ \/ /\ active' = task[t].own
          /\ UNCHANGED <<state, pipelines, retryTasks, workers>>
       \/ /\ active' = active
          /\ AbortAndRemove
          /\ state' = "stopped"
    /\ UNCHANGED <<file, parked, owed, recovering, configured, stops, built, mem, history>>

\* The provider fails for a batch of the capture: its job is queued for later.
BatchFails(p) ==
    /\ p \in active \cup draining
    /\ \E j \in Jobs \ issued :
         /\ mem' = [mem EXCEPT ![p] = @ \cup {j}]
         /\ file' = mem'[p]
         /\ issued' = issued \cup {j}
    /\ UNCHANGED <<parked, owed, state, maps, stops, built, workers, task, offered, over>>

\* release_interrupted_capture: a full or slow disk ends the capture, and the
\* meeting stays recoverable.
ReleaseInterruptedCapture ==
    /\ active # {}
    /\ active' = {}
    /\ AbortAndRemove
    /\ UNCHANGED <<disk, recovering, configured, stops, built, mem, task, history>>

\* StopRecording takes the capture over, or stops a meeting that only has a
\* mapped pipeline ... (It names a meeting whose start has been answered: a
\* desktop client learns the id from the answer, and the messages of one
\* extension are handled one after the other.)
StopRecording ==
    /\ ~stopping /\ ~Starting
    /\ active # {} \/ pipelines # {}
    /\ active' = {} /\ stopping' = TRUE /\ draining' = active
    /\ UNCHANGED <<disk, pipelines, retryTasks, recovering, configured, built, mem,
                   workers, task, history>>

\* ... and, once the frames are drained, finalizes the mapped pipeline (whose
\* lock a worker may hold) and lets the mapped worker end with an empty queue.
\* A storage error, or no mapped pipeline, leaves the meeting as it is.
FinishStop ==
    /\ stopping
    /\ \A p \in pipelines : busy[p] = {}
    /\ stopping' = FALSE /\ draining' = {}
    /\ \/ pipelines # {} /\ state' = "stopped" /\ owed' \in BOOLEAN
       \/ UNCHANGED <<state, owed>>
    /\ quits' = [p \in Pipelines |-> quits[p] \/ p \in retryTasks]
    /\ UNCHANGED <<file, parked, maps, built, mem, worker, busy, task, history>>

-----------------------------------------------------------------------------
(* Requests.                                                                *)

\* Hello of a connecting extension: it is told of an interrupted meeting. (That
\* it connects while a capture is being opened is left out.)
Hello ==
    /\ state = "recording" /\ active = {} /\ ~offered /\ ~Starting
    /\ offered' = TRUE
    /\ UNCHANGED <<disk, maps, stops, built, mem, workers, task, issued, over>>

\* A Settings message: at startup, when they are saved, or from the extension.
Settings(t) ==
    /\ Running(t, "idle")
    /\ Start(t, "settings", "sweep", {})
    /\ configured' = TRUE
    /\ UNCHANGED <<disk, active, pipelines, retryTasks, recovering, stops, built,
                   mem, workers, history>>

\* start_desktop_recovery ("Finish notes"): one recovery of a meeting at a time.
FinishNotes(t) ==
    /\ Running(t, "idle")
    /\ state # "none" /\ ~recovering
    /\ recovering' = TRUE
    /\ Start(t, "finish", "launch", {})
    /\ UNCHANGED <<disk, active, pipelines, retryTasks, configured, stops, built, mem,
                   workers, history>>

\* retry_meeting_notes looks for an owner of the meeting ...
RetryNotes(t) ==
    /\ Running(t, "idle")
    /\ state = "stopped"
    /\ active = {} /\ pipelines = {} /\ ~WorkerRunning
    /\ Start(t, "finish", "prepare", {})
    /\ UNCHANGED <<disk, maps, stops, built, mem, workers, history>>

\* ... and then prepare_notes_retry makes a finished meeting an interrupted one.
\* (It also refuses one that has a summary, which is left open here.)
Prepare(t) ==
    /\ Running(t, "prepare")
    /\ \/ /\ ~recovering /\ state = "stopped" /\ ~owed
          /\ recovering' = TRUE /\ state' = "recording"
          /\ Goto(t, "launch")
       \/ /\ Goto(t, "idle")
          /\ UNCHANGED <<recovering, state>>
    /\ UNCHANGED <<file, parked, owed, active, pipelines, retryTasks, configured, stops,
                   built, mem, workers, history>>

\* The end of a request; a desktop recovery leaves the recovering set.
Finish(t) ==
    /\ task' = [task EXCEPT ![t].own = {}, ![t].pc = "idle"]
    /\ recovering' = (recovering /\ task[t].kind # "finish")

\* launch_desktop_recovery: refused while recording and while the mapped worker
\* runs. Its task handles a Settings and then a ResumeRecording message.
Launch(t) ==
    /\ Running(t, "launch")
    /\ \/ /\ active = {} /\ state = "recording" /\ ~WorkerRunning
          /\ Goto(t, "sweep")
          /\ configured' = TRUE
          /\ recovering' = recovering
       \/ /\ active # {} \/ state # "recording" \/ WorkerRunning
          /\ Finish(t)
          /\ configured' = configured
    /\ UNCHANGED <<disk, active, pipelines, retryTasks, stops, built, mem, workers,
                   history>>

\* A ResumeRecording message of the extension.
ResumeRequest(t) ==
    /\ Running(t, "idle")
    /\ configured /\ offered
    /\ Start(t, "resume", "resume", {})
    /\ UNCHANGED <<disk, maps, stops, built, mem, workers, history>>

AfterSweep(t) == IF task[t].kind = "finish" THEN "resume" ELSE "idle"

\* start_pending_retry_workers: a meeting with queued jobs or a pending summary
\* and no pipeline in the map gets one. (That a worker died in a panic and left
\* its pipeline in the map is left out.)
Sweep(t) ==
    /\ Running(t, "sweep")
    /\ \/ /\ (file = {} /\ ~owed) \/ pipelines # {}
          /\ Goto(t, AfterSweep(t))
          /\ UNCHANGED <<built, mem>>
       \/ /\ file # {} \/ owed
          /\ pipelines = {}
          /\ \E p \in Pipelines :
               /\ Build(p, file)
               /\ task' = [task EXCEPT ![t].own = {p}, ![t].pc = "insert"]
    /\ UNCHANGED <<disk, maps, stops, workers, history>>

Insert(t) ==
    /\ Running(t, "insert")
    /\ \E p \in task[t].own : Install(p, TRUE)
    /\ task' = [task EXCEPT ![t].own = {}, ![t].pc = AfterSweep(t)]
    /\ UNCHANGED <<disk, active, recovering, configured, stops, built, mem, history>>

\* ResumeRecording: a live capture is a reason to refuse (none is met here: a
\* start has a new id), a running worker or a stop in flight is not.
\* recover_recording of the new pipeline puts the parked jobs back.
Resume(t) ==
    /\ Running(t, "resume")
    /\ active = {}
    /\ \E p \in Pipelines :
         /\ Build(p, file \cup parked)
         /\ task' = [task EXCEPT ![t].own = {p}, ![t].pc = "recover"]
    /\ file' = file \cup parked
    /\ parked' = {}
    /\ UNCHANGED <<owed, state, maps, stops, workers, history>>

\* recover_recording walks the rest of the audio; a range that fails is queued.
RecoverRange(t) ==
    /\ Running(t, "recover")
    /\ \E p \in task[t].own, j \in Jobs \ issued :
         /\ mem' = [mem EXCEPT ![p] = @ \cup {j}]
         /\ file' = mem'[p]
         /\ issued' = issued \cup {j}
    /\ UNCHANGED <<parked, owed, state, maps, stops, built, workers, task, offered, over>>

\* It stops the meeting, and makes the summary or leaves it pending; a storage
\* error ends it early.
RecoverDone(t) ==
    /\ Running(t, "recover")
    /\ \/ state' = "stopped" /\ owed' \in BOOLEAN
       \/ UNCHANGED <<state, owed>>
    /\ Goto(t, "register")
    /\ UNCHANGED <<file, parked, maps, stops, built, mem, workers, history>>

\* Mutant: a pipeline that another one is mapped for is forgotten.
RegisterUnlessMapped(t) ==
    /\ Running(t, "register")
    /\ \E p \in task[t].own :
         \/ pipelines = {} /\ (mem[p] # {} \/ owed) /\ Install(p, TRUE)
         \/ /\ pipelines # {} \/ (mem[p] = {} /\ ~owed)
            /\ UNCHANGED <<pipelines, retryTasks, workers>>
    /\ Finish(t)
    /\ UNCHANGED <<disk, active, configured, stops, built, mem, history>>

\* With work left, the pipeline and a worker of its own are mapped.
Register(t) ==
    /\ Running(t, "register")
    /\ \E p \in task[t].own :
         \/ (mem[p] # {} \/ owed) /\ Install(p, TRUE)
         \/ mem[p] = {} /\ ~owed /\ UNCHANGED <<pipelines, retryTasks, workers>>
    /\ Finish(t)
    /\ UNCHANGED <<disk, active, configured, stops, built, mem, history>>

-----------------------------------------------------------------------------
(* Retry workers.                                                           *)

\* A worker leaves a live or stopping capture alone.
Ticks(p) == worker[p] = "running" /\ active = {} /\ ~stopping

Pick(p) ==
    /\ Ticks(p) /\ busy[p] = {}
    /\ \E j \in mem[p] : busy' = [busy EXCEPT ![p] = {j}]
    /\ UNCHANGED <<disk, maps, stops, built, mem, worker, quits, task, history>>

\* The job leaves the queue of this pipeline, which replaces the file.
RemoveJob(p) ==
    /\ mem' = [mem EXCEPT ![p] = @ \ busy[p]]
    /\ file' = mem'[p]
    /\ busy' = [busy EXCEPT ![p] = {}]

\* The provider answers: the text is saved, then the job is removed.
Transcribe(p) ==
    /\ worker[p] = "running" /\ busy[p] # {}
    /\ over' = over \cup busy[p]
    /\ RemoveJob(p)
    /\ UNCHANGED <<parked, owed, state, maps, stops, built, worker, quits, task, offered,
                   issued>>

\* The provider fails: the job is tried again later, or given up on.
Fail(p) ==
    /\ worker[p] = "running" /\ busy[p] # {}
    /\ \/ busy' = [busy EXCEPT ![p] = {}] /\ UNCHANGED <<file, parked, mem>>
       \/ parked' = parked \cup busy[p] /\ RemoveJob(p)
    /\ UNCHANGED <<owed, state, maps, stops, built, worker, quits, task, history>>

\* With an empty queue the pending summary is made, or given up on.
Summarize(p) ==
    /\ Ticks(p) /\ busy[p] = {} /\ mem[p] = {} /\ owed
    /\ owed' = FALSE
    /\ UNCHANGED <<file, parked, state, maps, stops, built, mem, workers, task, history>>

\* The worker ends with an empty queue, and removes the entries of the meeting.
EndWorker(p) ==
    /\ Ticks(p) /\ busy[p] = {} /\ mem[p] = {} /\ ~owed /\ quits[p]
    /\ worker' = [worker EXCEPT ![p] = "gone"]
    /\ pipelines' = {} /\ retryTasks' = {}
    /\ UNCHANGED <<disk, active, recovering, configured, stops, built, mem, quits,
                   busy, task, history>>

-----------------------------------------------------------------------------
TaskStep(t) ==
    \/ StartRecording(t) \/ StartCapture(t) \/ Settings(t) \/ FinishNotes(t)
    \/ RetryNotes(t) \/ Prepare(t) \/ Launch(t) \/ ResumeRequest(t) \/ Sweep(t)
    \/ Insert(t) \/ Resume(t) \/ RecoverRange(t) \/ RecoverDone(t) \/ Register(t)

PipelineStep(p) ==
    \/ BatchFails(p) \/ Pick(p) \/ Transcribe(p) \/ Fail(p) \/ Summarize(p)
    \/ EndWorker(p)

Next ==
    \/ \E t \in Tasks : TaskStep(t)
    \/ \E p \in Pipelines : PipelineStep(p)
    \/ ReleaseInterruptedCapture \/ StopRecording \/ FinishStop \/ Hello

Spec == Init /\ [][Next]_vars

-----------------------------------------------------------------------------
(****************************************************************************)
(* Properties.                                                              *)
(****************************************************************************)

\* The pipelines that can still write the queue file.
Live ==
    {p \in Pipelines : \/ worker[p] = "running"
                       \/ p \in active \cup draining
                       \/ \E t \in Tasks : p \in task[t].own}

\* No job is dropped while the app runs, however the requests interleave and
\* whichever pipelines replace each other's queue file: it is in the file, in
\* the dead file or in a pipeline that will still write it (main.rs,
\* start_pending_retry_workers, ResumeRecording, release_interrupted_capture).
\* And the pipeline of a live capture stays mapped, so that a stop finds it and
\* can finalize it: a worker that ends removes the entries of its meeting,
\* whichever pipeline they hold.
NoJobDropped ==
    /\ TypeOK
    /\ \A j \in issued \ over : j \in file \cup parked \cup UNION {mem[p] : p \in Live}
    /\ active \subseteq pipelines

=============================================================================
