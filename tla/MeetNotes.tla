------------------------------ MODULE MeetNotes ------------------------------
(****************************************************************************)
(* How the extension turns stored recordings into notes and passes them on  *)
(* (extension/src/lib/backgroundController.ts, webappSync.ts, storage.ts,   *)
(* managedClient.ts, drive.ts; meet/browserProcessing.ts; meeting/          *)
(* meeting.ts).                                                             *)
(*                                                                          *)
(* A recording made in Chrome by an earlier version is processed by the     *)
(* service worker itself: hosted (upload, then poll the job) or with the    *)
(* user's keys (transcribe segment by segment, then summarise). The browser *)
(* ends the worker whenever it likes: runs, the drain of hosted recordings  *)
(* and requests under way are lost, the records, the audio, the cache of    *)
(* transcribed segments and the outbox stay. A recording of the desktop app *)
(* is mirrored from the events of the helper. Pages edit finished notes.    *)
(****************************************************************************)
EXTENDS Integers, Sequences, FiniteSets, FiniteSetsExt

CONSTANTS
    Meetings,
    Gone,          \* no record
    SegCount,      \* segments of a recording with speech in them
    Scenes,        \* bound: recordings and connections looked at together, with how many
                   \* ends of the worker, failed requests and writes, edits, deletions and
                   \* changes of account there may be
    HelperScripts  \* what the helper may report of a desktop recording, in order

ASSUME MeetNotesAssumption ==
    /\ SegCount \in Nat \ {0}
    /\ Scenes \subseteq [kind : [Meetings -> {"local", "managed", "desktop", "absent"}], sync : BOOLEAN, drive : BOOLEAN,
                    kills : Nat, faults : Nat, edits : Nat, deletes : Nat, toggles : Nat]

Segs == 1 .. SegCount

VARIABLES
    conf,     \* the scene: the recordings, whether a web app and Drive are connected
    rec,      \* the stored record: status, hosted job, version, segments the notes cover
    audio,    \* stored audio of each recording
    cache,    \* transcribed segments kept for a retry
    outbox,   \* meetings the web app has still to be told about
    hosted,   \* signed in to the hosted workspace the recordings belong to
    up,       \* the service worker runs
    run,      \* processing run of each recording (meetFinishRuns)
    drain,    \* managedMeetDrain: records read, the one being processed
    resume,   \* interrupted local recordings still to be taken up, the one being processed
    flush,    \* the outbox as it was read: meeting and version
    syncs,    \* requests to the web app under way
    export,   \* Drive export of each meeting
    script,   \* what the helper will still report
    late,     \* helper events whose second half waits for the record
    job,      \* the server's job of each recording
    webapp,   \* the version of each meeting the web app has
    erasing,  \* meetings whose deletion has begun
    kills, faults, edits, toggles,
    paid,     \* history: times each segment was transcribed
    spoiled,  \* history: transcribed segments that could not be kept
    known,    \* history: recordings whose job was accepted and saved, and not failed or forgotten since
    again,    \* history: recordings uploaded although their job was known
    noted,    \* history: meetings that had their notes
    stale,    \* history: runs begun from a record read before the notes were made
    missed,   \* history: meetings with two deliveries at once, or one cut off
    refused,  \* history: meetings the web app will not take
    litter    \* history: empty documents left in Drive

stores == <<rec, audio, cache, outbox>>
memory == <<run, drain, resume, flush, late>>
bounds == <<kills, faults, edits, toggles>>
history == <<paid, spoiled, known, again, noted, stale, missed, refused, litter>>
vars == <<conf, hosted, up, syncs, export, script, webapp, erasing, stores, memory, job, bounds, history>>

NoRun == [pc |-> "none", snap |-> "none", acc |-> FALSE, failed |-> FALSE, got |-> {}]
NoDrain == [on |-> FALSE, todo |-> {}, at |-> Gone]
NoResume == [todo |-> {}, at |-> Gone]

Blank(status) == [status |-> status, mp |-> "none", ver |-> 0, notes |-> {}]
Recorded(m) == conf.kind[m] \in {"local", "managed"}

Init ==
    /\ conf \in Scenes
    /\ rec = [m \in Meetings |-> CASE conf.kind[m] = "absent" -> Gone
                                   [] conf.kind[m] = "desktop" -> Blank("recording")
                                   [] OTHER -> Blank("processing")]
    /\ audio = [m \in Meetings |-> IF Recorded(m) THEN Segs ELSE {}]
    /\ cache = [m \in Meetings |-> {}] /\ outbox = {}
    /\ hosted = TRUE /\ up = FALSE
    /\ run = [m \in Meetings |-> NoRun] /\ drain = NoDrain /\ resume = NoResume
    /\ flush = {} /\ syncs = {} /\ export = [m \in Meetings |-> "none"]
    /\ script \in (IF \E m \in Meetings : conf.kind[m] = "desktop" THEN HelperScripts ELSE {<<>>}) /\ late = {}
    /\ job = [m \in Meetings |-> "none"]
    /\ webapp = [m \in Meetings |-> 0] /\ erasing = {}
    /\ kills = 0 /\ faults = 0 /\ edits = 0 /\ toggles = 0
    /\ paid = [m \in Meetings |-> [s \in Segs |-> 0]] /\ spoiled = [m \in Meetings |-> 0]
    /\ known = {} /\ again = {} /\ noted = {} /\ stale = {} /\ missed = {} /\ refused = {} /\ litter = {}

Fault == faults < conf.faults /\ faults' = faults + 1
NoFault == UNCHANGED faults

-----------------------------------------------------------------------------
(* The store: a record that is gone is not written again *)

updateMeeting(m, r) == IF rec[m] = Gone THEN rec ELSE [rec EXCEPT ![m] = r]

With(m, status, mp) == [rec[m] EXCEPT !.status = status, !.mp = mp]

listMeetings == {m \in Meetings : rec[m] # Gone}

streamBrowserMeetChunks(m) == audio[m]

clearBrowserMeetChunks(m) == [audio EXCEPT ![m] = {}]

-----------------------------------------------------------------------------
(* Delivery to the user's web app *)

getWebappSyncOutbox == {<<m, rec[m].ver>> : m \in outbox \cap listMeetings}

Sync(m, v, q, by) == [m |-> m, ver |-> v, queue |-> q, by |-> by, st |-> "sent"]

(* A delivery that meets another one of the same meeting, under way or      *)
(* about to be repeated from what was read earlier, may end in any order.   *)
StartSync(m, v, q, by) ==
    IF ~conf.sync THEN UNCHANGED <<syncs, missed>> ELSE
    /\ syncs' = syncs \cup {Sync(m, v, q, by)}
    /\ missed' = IF \/ \E s \in syncs : s.m = m
                    \/ \E f \in flush : f[1] = m /\ q
                 THEN missed \cup {m} ELSE missed

queueWebappSync(m) == IF rec[m] = Gone THEN outbox ELSE outbox \cup {m}

(* the request reaches the web app, or fails before or after it did *)
Deliver(s) ==
    /\ s \in syncs /\ s.st = "sent"
    /\ \/ /\ NoFault /\ webapp' = [webapp EXCEPT ![s.m] = s.ver] /\ UNCHANGED refused
          /\ syncs' = (syncs \ {s}) \cup {[s EXCEPT !.st = "ok"]}
       \/ /\ Fault /\ UNCHANGED webapp /\ refused' = refused \cup {s.m}
          /\ syncs' = (syncs \ {s}) \cup {[s EXCEPT !.st = "ok"]}
       \/ /\ Fault /\ webapp' \in {webapp, [webapp EXCEPT ![s.m] = s.ver]} /\ UNCHANGED refused
          /\ syncs' = (syncs \ {s}) \cup {[s EXCEPT !.st = "lost"]}
    /\ UNCHANGED <<conf, hosted, up, export, script, erasing, stores, memory, job, kills, edits, toggles,
                   paid, spoiled, known, again, noted, stale, missed, litter>>

NeverQueues(s) == FALSE

QueueOnFailure(s) == s.queue

syncMeetingToWebapp(s) ==
    /\ s \in syncs /\ s.st # "sent"
    /\ syncs' = syncs \ {s}
    /\ outbox' = CASE s.st = "ok" -> outbox \ {s.m}
                   [] s.st = "lost" /\ QueueOnFailure(s) -> queueWebappSync(s.m)
                   [] OTHER -> outbox
    /\ UNCHANGED <<conf, hosted, up, export, script, webapp, erasing, rec, audio, cache, memory, job, bounds, history>>

(* the worker's flush delivers one after the other what it read at its start *)
flushWebappSyncOutbox ==
    /\ up /\ flush # {} /\ ~ \E s \in syncs : s.by = "flush"
    /\ LET f == CHOOSE x \in flush : TRUE IN
       /\ StartSync(f[1], f[2], FALSE, "flush")
       /\ flush' = flush \ {f}
    /\ UNCHANGED <<conf, hosted, up, export, script, webapp, erasing, stores, run, drain, resume, late, job, bounds,
                   paid, spoiled, known, again, noted, stale, refused, litter>>

(* a page ticks an action item, sets a due date or renames the meeting *)
EditNotes(m) ==
    /\ edits < conf.edits /\ edits' = edits + 1
    /\ rec[m] # Gone /\ rec[m].status = "complete"
    /\ LET v == rec[m].ver + 1 IN
       /\ rec' = updateMeeting(m, [rec[m] EXCEPT !.ver = v])
       /\ StartSync(m, v, TRUE, "page")
    /\ UNCHANGED <<conf, hosted, up, export, script, webapp, erasing, audio, cache, outbox, memory, job,
                   kills, faults, toggles, paid, spoiled, known, again, noted, stale, refused, litter>>

-----------------------------------------------------------------------------
(* Google Drive *)

StartExport(m) == export' = IF conf.drive THEN [export EXCEPT ![m] = "create"] ELSE export

retryDriveExport(m) ==
    /\ up /\ rec[m] # Gone /\ export[m] = "error"
    /\ StartExport(m)
    /\ UNCHANGED <<conf, hosted, up, syncs, script, webapp, erasing, stores, memory, job, bounds, history>>

(* The document is created and then filled; one that cannot be filled is    *)
(* deleted again, if that works.                                            *)
Exported(m, ok) ==
    CASE export[m] = "create" -> IF ok THEN "fill" ELSE "error"
      [] export[m] = "fill" -> IF ok THEN "exported" ELSE "undo"
      [] OTHER -> "error"

Exporting(m) == export[m] \in {"create", "fill", "undo"}

exportMeetingToDrive(m) ==
    /\ up /\ Exporting(m)
    /\ \E ok \in BOOLEAN :
       /\ IF ok THEN NoFault ELSE Fault
       /\ export' = [export EXCEPT ![m] = Exported(m, ok)]
       /\ litter' = IF Exported(m, ok) = "error" /\ (export[m] = "fill" \/ (export[m] = "undo" /\ ~ok))
                    THEN litter \cup {m} ELSE litter
    /\ UNCHANGED <<conf, hosted, up, syncs, script, webapp, erasing, stores, memory, job, kills, edits, toggles,
                   paid, spoiled, known, again, noted, stale, missed, refused>>

-----------------------------------------------------------------------------
(* The service worker *)

(* the records the drain will process, as they are now *)
Drainable ==
    {m \in listMeetings : conf.kind[m] = "managed" /\ rec[m].status \in {"processing", "error"} /\ rec[m].mp # "complete"}

drainManagedMeetOutbox ==
    IF drain.on \/ ~hosted' THEN drain
    ELSE [on |-> TRUE, todo |-> {<<m, rec[m].mp>> : m \in Drainable}, at |-> Gone]

NothingInterrupted == {}

Interrupted == {m \in listMeetings : conf.kind[m] = "local" /\ rec[m].status = "processing"}

init ==
    /\ ~up /\ up' = TRUE
    /\ UNCHANGED hosted
    /\ flush' = getWebappSyncOutbox
    /\ drain' = drainManagedMeetOutbox
    /\ resume' = [todo |-> Interrupted, at |-> Gone]
    /\ UNCHANGED <<conf, syncs, export, script, webapp, erasing, stores, run, late, job, bounds, history>>

saveSettings ==
    /\ up /\ toggles < conf.toggles /\ toggles' = toggles + 1
    /\ hosted' = ~hosted
    /\ flush' = flush \cup getWebappSyncOutbox
    /\ drain' = drainManagedMeetOutbox
    /\ UNCHANGED <<conf, up, syncs, export, script, webapp, erasing, stores, run, resume, late, job,
                   kills, faults, edits, history>>

(* Chrome ends the worker *)
Kill ==
    /\ up /\ kills < conf.kills /\ kills' = kills + 1
    /\ up' = FALSE
    /\ run' = [m \in Meetings |-> NoRun] /\ drain' = NoDrain /\ resume' = NoResume /\ flush' = {} /\ late' = {}
    /\ syncs' = {s \in syncs : s.by = "page"}
    /\ missed' = missed \cup {s.m : s \in {x \in syncs : x.by = "worker"}}
    /\ spoiled' = [m \in Meetings |-> spoiled[m] + IF run[m].pc = "save" THEN 1 ELSE 0]
    /\ litter' = litter \cup {m \in Meetings : export[m] \in {"fill", "undo"}}
    /\ export' = [m \in Meetings |-> IF Exporting(m) THEN "pending" ELSE export[m]]
    /\ UNCHANGED <<conf, hosted, script, webapp, erasing, stores, job, faults, edits, toggles,
                   paid, known, again, noted, stale, refused>>

(* one run per recording: whoever comes second waits for the first *)
finishBrowserMeetRecording(m, snap) ==
    run' = [run EXCEPT ![m] = IF @.pc # "none" THEN @ ELSE [NoRun EXCEPT !.pc = "begin", !.snap = snap]]

Idle(m) == m # Gone => run[m].pc = "none"

DrainNext ==
    /\ up /\ drain.on
    /\ Idle(drain.at)
    /\ IF drain.todo = {} THEN drain' = NoDrain /\ UNCHANGED <<run, stale>>
       ELSE \E x \in drain.todo :
            /\ drain' = [drain EXCEPT !.todo = @ \ {x}, !.at = x[1]]
            /\ finishBrowserMeetRecording(x[1], x[2])
            /\ stale' = IF rec[x[1]] # Gone => rec[x[1]].mp # x[2] THEN stale \cup {x[1]} ELSE stale
    /\ UNCHANGED <<conf, hosted, up, syncs, export, script, webapp, erasing, stores, resume, flush, late, job, bounds,
                   paid, spoiled, known, again, noted, missed, refused, litter>>

resumeInterruptedLocalMeetProcessing ==
    /\ up /\ resume # NoResume
    /\ Idle(resume.at)
    /\ IF resume.todo = {} THEN resume' = NoResume /\ UNCHANGED run
       ELSE \E m \in resume.todo :
            /\ resume' = [todo |-> resume.todo \ {m}, at |-> m]
            /\ IF run[m].pc # "none" THEN UNCHANGED run ELSE finishBrowserMeetRecording(m, "none")
    /\ UNCHANGED <<conf, hosted, up, syncs, export, script, webapp, erasing, stores, drain, flush, late, job, bounds, history>>

retryProcessing(m) ==
    /\ up /\ Recorded(m) /\ rec[m] # Gone /\ rec[m].status = "error"
    /\ rec' = updateMeeting(m, [rec[m] EXCEPT !.status = "processing"])
    /\ finishBrowserMeetRecording(m, rec[m].mp)
    /\ UNCHANGED <<conf, hosted, up, syncs, export, script, webapp, erasing, audio, cache, outbox, drain, resume, flush, late,
                   job, bounds, history>>

(* a page asks for it when the time to undo it is over; a live recording is refused *)
Deletable(m) == rec[m] # Gone /\ rec[m].status # "recording"

(* deleteMeeting: the audio first, then the record *)
deleteMeeting(m) ==
    /\ up /\ Deletable(m)
    /\ m \in erasing \/ Cardinality(erasing) < conf.deletes
    /\ IF m \notin erasing
       THEN /\ erasing' = erasing \cup {m} /\ audio' = clearBrowserMeetChunks(m)
            /\ UNCHANGED <<rec, cache, outbox>>
       ELSE /\ rec' = [rec EXCEPT ![m] = Gone] /\ cache' = [cache EXCEPT ![m] = {}] /\ outbox' = outbox \ {m}
            /\ UNCHANGED <<erasing, audio>>
    /\ UNCHANGED <<conf, hosted, up, syncs, export, script, webapp, memory, job, bounds, history>>

-----------------------------------------------------------------------------
(* A processing run *)

Go(m, pc) == run' = [run EXCEPT ![m].pc = pc]

(* A run refused because the user is signed in elsewhere fails as one whose *)
(* job was never accepted, and the record forgets a job that is alive.      *)
RunBegin(m) ==
    /\ run[m].pc = "begin"
    /\ known' = IF conf.kind[m] = "managed" /\ ~hosted THEN known \ {m} ELSE known
    /\ CASE conf.kind[m] = "local" -> Go(m, "segments")
         [] conf.kind[m] = "managed" /\ ~hosted -> Go(m, "fail")
         [] conf.kind[m] = "managed" /\ hosted /\ run[m].snap \in {"queued", "processing", "complete"} ->
              run' = [run EXCEPT ![m].pc = "poll", ![m].acc = TRUE]
         [] OTHER -> Go(m, "upload")
    /\ UNCHANGED <<stores, job, faults, syncs, export, missed, paid, spoiled, again, noted>>

(* managedAudioChunkSource: the stored frames packed by channel *)
HasChunks(m) == streamBrowserMeetChunks(m) # {}

(* Register, create the upload, send its chunks and complete it: the server *)
(* knows the upload by the meeting, so one it has completely is not sent    *)
(* again.                                                                   *)
uploadManagedMeeting(m) ==
    /\ run[m].pc = "upload"
    /\ again' = IF m \in known /\ job[m] # "error" THEN again \cup {m} ELSE again
    /\ \/ ~HasChunks(m) /\ NoFault /\ Go(m, "fail")
       \/ HasChunks(m) /\ NoFault /\ Go(m, "process")
       \/ HasChunks(m) /\ Fault /\ Go(m, "fail")
    /\ UNCHANGED <<stores, job, syncs, export, missed, paid, spoiled, known, noted>>

(* the server makes one job of an upload; a failed one it starts again *)
ProcessJob(m) == IF job[m] \in {"none", "error"} THEN [job EXCEPT ![m] = "running"] ELSE job

RunProcess(m) ==
    /\ run[m].pc = "process"
    /\ job' = ProcessJob(m)
    /\ \/ NoFault /\ Go(m, "accept")
       \/ Fault /\ Go(m, "fail")
    /\ UNCHANGED <<stores, syncs, export, missed, paid, spoiled, known, again, noted>>

RunAccept(m) ==
    /\ run[m].pc = "accept"
    /\ rec' = updateMeeting(m, With(m, "processing", "queued"))
    /\ run' = [run EXCEPT ![m].pc = "poll", ![m].acc = TRUE]
    /\ known' = IF rec[m] = Gone THEN known ELSE known \cup {m}
    /\ UNCHANGED <<audio, cache, outbox, job, faults, syncs, export, missed, paid, spoiled, again, noted>>

getManagedJob(m) ==
    /\ run[m].pc = "poll"
    /\ \/ NoFault /\ job[m] = "complete" /\ Go(m, "notes")
       \/ NoFault /\ job[m] = "error" /\ run' = [run EXCEPT ![m].pc = "fail", ![m].failed = TRUE]
       \/ NoFault /\ job[m] = "running" /\ Go(m, "fail")      \* MANAGED_JOB_POLL_ATTEMPTS
       \/ Fault /\ Go(m, "fail")
    /\ UNCHANGED <<stores, job, syncs, export, missed, paid, spoiled, known, again, noted>>

(* segmentAudio: a recording is cut at the same places every time *)
Unheard(m) == streamBrowserMeetChunks(m) \ run[m].got

Cached(m, s) == s \in cache[m]

(* Deepgram or Groq answers, or all attempts fail *)
Transcribe(m, s) ==
    \/ /\ NoFault /\ paid' = [paid EXCEPT ![m][s] = @ + 1]
       /\ run' = [run EXCEPT ![m].got = @ \cup {s}, ![m].pc = "save"]
    \/ Fault /\ Go(m, "fail") /\ UNCHANGED paid

(* processBrowserMeetRecording takes the next segment from the cache or pays the provider for it *)
TranscribeSegment(m) ==
    /\ run[m].pc = "segments" /\ Unheard(m) # {}
    /\ LET s == Min(Unheard(m)) IN
       IF Cached(m, s) THEN run' = [run EXCEPT ![m].got = @ \cup {s}] /\ NoFault /\ UNCHANGED paid
       ELSE Transcribe(m, s)
    /\ UNCHANGED <<stores, job, syncs, export, missed, spoiled, known, again, noted>>

saveTranscriptionSegment(m) ==
    /\ run[m].pc = "save"
    /\ LET s == Max(run[m].got) IN
       \/ NoFault /\ cache' = [cache EXCEPT ![m] = @ \cup {s}] /\ UNCHANGED spoiled
       \/ Fault /\ UNCHANGED cache /\ spoiled' = [spoiled EXCEPT ![m] = @ + 1]
    /\ Go(m, "segments")
    /\ UNCHANGED <<rec, audio, outbox, job, syncs, export, missed, paid, known, again, noted>>

summarizeTranscript(m) ==
    /\ run[m].pc = "segments" /\ Unheard(m) = {}
    /\ \/ NoFault /\ Go(m, "notes")
       \/ run[m].got # {} /\ Fault /\ Go(m, "fail")
    /\ UNCHANGED <<stores, job, syncs, export, missed, paid, spoiled, known, again, noted>>

(* whatever was heard is in the transcript *)
buildTurns(m) == run[m].got

(* the notes become durable; then they are delivered and exported *)
SaveNotes(m) ==
    /\ run[m].pc = "notes"
    /\ rec' = updateMeeting(m, [rec[m] EXCEPT !.status = "complete", !.ver = @ + 1,
                  !.mp = IF conf.kind[m] = "managed" THEN "complete" ELSE @,
                  !.notes = IF conf.kind[m] = "managed" THEN Segs ELSE buildTurns(m)])
    /\ IF rec[m] = Gone THEN Go(m, "clear") /\ UNCHANGED <<syncs, missed, export, noted>>
       ELSE /\ StartSync(m, rec[m].ver + 1, TRUE, "worker") /\ StartExport(m)
            /\ noted' = noted \cup {m} /\ Go(m, "sync")
    /\ UNCHANGED <<audio, cache, outbox, job, faults, paid, spoiled, known, again>>

(* the delivery is awaited, then come the attendee link and the notes tab (best effort) *)
onNotesComplete(m) ==
    /\ run[m].pc = "sync" /\ ~ \E s \in syncs : s.m = m /\ s.by = "worker"
    /\ Go(m, "clear")
    /\ UNCHANGED <<stores, job, faults, syncs, export, missed, paid, spoiled, known, again, noted>>

clearCompletedMeetChunks(m) ==
    /\ run[m].pc = "clear"
    /\ \/ NoFault /\ audio' = clearBrowserMeetChunks(m)
       \/ Fault /\ UNCHANGED audio
    /\ cache' = [cache EXCEPT ![m] = {}]
    /\ run' = [run EXCEPT ![m] = NoRun]
    /\ UNCHANGED <<rec, outbox, job, syncs, export, missed, paid, spoiled, known, again, noted>>

ForgetJob(m) == "error"

(* what a failed run leaves of its job: one the server accepted lives on unless it failed itself *)
JobAfterFailure(m) == IF run[m].acc /\ ~run[m].failed THEN "processing" ELSE "error"

RunFail(m) ==
    /\ run[m].pc = "fail"
    /\ rec' = updateMeeting(m, With(m, "error", IF conf.kind[m] = "managed" THEN JobAfterFailure(m) ELSE rec[m].mp))
    /\ run' = [run EXCEPT ![m] = NoRun]
    /\ known' = IF run[m].failed THEN known \ {m} ELSE known
    /\ UNCHANGED <<audio, cache, outbox, job, faults, syncs, export, missed, paid, spoiled, again, noted>>

Run(m) ==
    /\ up
    /\ \/ RunBegin(m) \/ uploadManagedMeeting(m) \/ RunProcess(m) \/ RunAccept(m) \/ getManagedJob(m)
       \/ TranscribeSegment(m) \/ saveTranscriptionSegment(m) \/ summarizeTranscript(m)
       \/ SaveNotes(m) \/ onNotesComplete(m) \/ clearCompletedMeetChunks(m) \/ RunFail(m)
    /\ UNCHANGED <<conf, hosted, up, script, webapp, erasing, drain, resume, flush, late, kills, edits, toggles,
                   stale, refused, litter>>

(* the server's worker *)
ServerWorks(m) ==
    /\ job[m] = "running"
    /\ \/ NoFault /\ job' = [job EXCEPT ![m] = "complete"]
       \/ Fault /\ job' = [job EXCEPT ![m] = "error"]
    /\ UNCHANGED <<conf, hosted, up, syncs, export, script, webapp, erasing, stores, memory, kills, edits, toggles, history>>

-----------------------------------------------------------------------------
(* A recording of the desktop app, as the helper reports it *)

HandleSummaryReady(m) ==
    /\ rec' = updateMeeting(m, [rec[m] EXCEPT !.status = "complete", !.ver = @ + 1, !.notes = Segs])
    /\ IF rec[m] = Gone THEN UNCHANGED <<syncs, missed, export, noted>>
       ELSE StartSync(m, rec[m].ver + 1, TRUE, "worker") /\ StartExport(m) /\ noted' = noted \cup {m}

HandleManagedJobStatus(m, st) ==
    IF st = "complete"
    THEN /\ rec' = updateMeeting(m, [rec[m] EXCEPT !.status = "complete", !.mp = st, !.ver = @ + 1, !.notes = Segs])
         /\ IF rec[m] = Gone THEN UNCHANGED <<syncs, missed, export, noted>>
            ELSE StartSync(m, rec[m].ver + 1, TRUE, "worker") /\ StartExport(m) /\ noted' = noted \cup {m}
    ELSE /\ rec' = updateMeeting(m, With(m, IF st = "error" THEN "error" ELSE "processing", st))
         /\ UNCHANGED <<syncs, missed, export, noted>>

(* an event is lost while there is no worker; stop and error first read the record *)
HelperReport(m) ==
    /\ conf.kind[m] = "desktop" /\ script # <<>>
    /\ script' = Tail(script)
    /\ LET e == Head(script) IN
       IF ~up \/ e = "warning" THEN UNCHANGED <<rec, syncs, missed, export, noted, late>>
       ELSE CASE e = "summary" -> HandleSummaryReady(m) /\ UNCHANGED late
              [] e \in {"processing", "complete", "error"} -> HandleManagedJobStatus(m, e) /\ UNCHANGED late
              [] e = "stopped" /\ rec[m] # Gone /\ rec[m].status = "recording" ->
                   late' = late \cup {e} /\ UNCHANGED <<rec, syncs, missed, export, noted>>
              [] e = "failed" /\ rec[m] # Gone -> late' = late \cup {e} /\ UNCHANGED <<rec, syncs, missed, export, noted>>
              [] OTHER -> UNCHANGED <<rec, syncs, missed, export, noted, late>>
    /\ UNCHANGED <<conf, hosted, up, webapp, erasing, audio, cache, outbox, run, drain, resume, flush, job, bounds,
                   paid, spoiled, known, again, stale, refused, litter>>

StoppedAlways(m) == "processing"

(* only a meeting that is still recording is moved on *)
Stopped(m) == IF rec[m].status = "recording" THEN "processing" ELSE rec[m].status

HandleRecordingStopped(m) ==
    /\ "stopped" \in late /\ late' = late \ {"stopped"}
    /\ rec' = updateMeeting(m, [rec[m] EXCEPT !.status = Stopped(m)])

HandleError(m) ==
    /\ "failed" \in late /\ late' = late \ {"failed"}
    /\ rec' = updateMeeting(m, [rec[m] EXCEPT !.status = "error"])

HelperEventStored(m) ==
    /\ conf.kind[m] = "desktop" /\ up
    /\ HandleRecordingStopped(m) \/ HandleError(m)
    /\ UNCHANGED <<conf, hosted, up, syncs, export, script, webapp, erasing, audio, cache, outbox, run, drain, resume, flush,
                   job, bounds, history>>

-----------------------------------------------------------------------------
Next ==
    \/ init \/ saveSettings \/ Kill \/ DrainNext \/ resumeInterruptedLocalMeetProcessing \/ flushWebappSyncOutbox
    \/ \E s \in syncs : Deliver(s) \/ syncMeetingToWebapp(s)
    \/ \E m \in Meetings :
          \/ retryProcessing(m) \/ deleteMeeting(m) \/ EditNotes(m) \/ Run(m) \/ ServerWorks(m)
          \/ retryDriveExport(m) \/ exportMeetingToDrive(m)
          \/ HelperReport(m) \/ HelperEventStored(m)

Spec == Init /\ [][Next]_vars

(* Chrome starts the worker again on the next event; a running worker gets  *)
(* on with what it does, and every request ends: it is answered or timed    *)
(* out. The drain waits for the very run it began, so it goes on when that *)
(* one ends even if the user begins another at once.                        *)
FairSpec ==
    /\ Spec
    /\ WF_vars(init) /\ SF_vars(DrainNext) /\ SF_vars(resumeInterruptedLocalMeetProcessing)
    /\ \A m \in Meetings : WF_vars(Run(m))
    /\ \A m \in Meetings : WF_vars(\E s \in syncs : s.m = m /\ s.by = "worker" /\ (Deliver(s) \/ syncMeetingToWebapp(s)))

-----------------------------------------------------------------------------
(* Properties *)

Steps == {"none", "begin", "upload", "process", "accept", "poll", "segments", "save", "notes", "sync", "clear", "fail"}

TypeOK ==
    /\ \A m \in Meetings : rec[m] = Gone \/
          /\ rec[m].status \in {"recording", "processing", "complete", "error"}
          /\ rec[m].mp \in {"none", "queued", "processing", "complete", "error"}
          /\ rec[m].ver \in Nat /\ rec[m].notes \subseteq Segs
    /\ \A m \in Meetings : run[m].pc \in Steps /\ run[m].got \subseteq Segs /\ cache[m] \subseteq Segs
    /\ outbox \subseteq Meetings /\ job \in [Meetings -> {"none", "running", "complete", "error"}]

(* audio is thrown away only for finished notes, and those cover all of it *)
AudioUntilNotes ==
    \A m \in listMeetings : Recorded(m) /\ m \notin erasing \cup stale =>
        /\ audio[m] = {} => rec[m].status = "complete"
        /\ rec[m].status = "complete" => rec[m].notes = Segs

(* finished notes stay finished *)
NotesStand == \A m \in (noted \cap listMeetings) \ stale : rec[m].status = "complete"

(* The store of the extension is sound: a recording keeps its audio until   *)
(* notes that cover all of it are saved, unless its deletion was asked for; *)
(* finished notes are never moved back by a retry, a drain or a late report *)
(* of the helper (but see stale); the outbox names no deleted meeting,      *)
(* whatever was under way when it was deleted; an empty document stays in   *)
(* Drive only after two failures or the end of the worker.                  *)
StoreSound ==
    /\ TypeOK
    /\ AudioUntilNotes /\ NotesStand
    /\ outbox \subseteq listMeetings
    /\ litter # {} => faults >= 2 \/ kills > 0

(* Nothing is paid for twice: a segment is transcribed again only when its  *)
(* text could not be kept, and a recording whose job is known to be alive   *)
(* is polled, not uploaded again, over retries, drains and ends of the      *)
(* worker.                                                                  *)
NothingPaidTwice ==
    /\ \A m \in Meetings, s \in Segs : paid[m][s] <= 1 + spoiled[m]
    /\ again \subseteq stale

(* Finished notes and every edit of them reach the web app or stay queued   *)
(* for it, unless two deliveries of one meeting met, the worker ended       *)
(* during one, or the web app refused the meeting.                          *)
SyncKept ==
    \A m \in listMeetings : conf.sync /\ rec[m].status = "complete" /\ m \notin missed \cup refused =>
        \/ webapp[m] = rec[m].ver
        \/ m \in outbox
        \/ \E s \in syncs : s.m = m /\ s.ver = rec[m].ver /\ s.queue

(* A recording that is being processed ends with notes or an error the user *)
(* can retry, however often the worker ends, unless it is a hosted one and  *)
(* the user is signed in elsewhere.                                         *)
ProcessingSettles ==
    \A m \in Meetings :
        rec[m] # Gone /\ Recorded(m) /\ rec[m].status = "processing" ~>
            rec[m] = Gone \/ (rec[m] # Gone /\ rec[m].status # "processing") \/ (conf.kind[m] = "managed" /\ ~hosted)
=============================================================================
