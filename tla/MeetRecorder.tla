----------------------------- MODULE MeetRecorder -----------------------------
(****************************************************************************)
(* Recording a browser call (extension/src/background.ts, lib/              *)
(* backgroundController.ts, meet/session.ts, meet/meetCapture.ts, meet/     *)
(* offscreen.ts, meet/browserStorage.ts, lib/storage.ts).                   *)
(*                                                                          *)
(* The service worker holds the state of the recording in memory and may be *)
(* killed between any two steps; the offscreen page captures the audio and  *)
(* sends it to the worker chunk by chunk, retrying what was not answered;   *)
(* meeting records and chunks are durable, the map of captures lives as     *)
(* long as the browser session. One step is what runs between two awaits.   *)
(* The model has one tab: a start refused because another tab is recording  *)
(* changes nothing.                                                         *)
(****************************************************************************)
EXTENDS Integers, Sequences, FiniteSets

CONSTANTS
    Meetings,    \* bound: meeting ids that startRecording generates
    None,        \* no meeting
    Chunks,      \* bound: audio chunks that the page produces
    Starts,      \* bound: calls of startMeetRecording
    Stops,       \* bound: calls of stopMeetRecording and of finishMeetCaptureForTab
    MaxKills,    \* bound: times the worker is killed
    MaxCrashes   \* bound: times the offscreen page disappears

ASSUME RecorderAssumption ==
    /\ None \notin Meetings
    /\ Starts \cap Stops = {}
    /\ IsFiniteSet(Chunks)
    /\ MaxKills \in Nat /\ MaxCrashes \in Nat

VARIABLES
    mem,      \* worker memory: activeMeetingId, the id behind startInFlight, activeMeetings,
              \* MeetCaptureController.starting and meetChunkSequence; up is FALSE once killed
    task,     \* where each start and each stop is, the meeting it is about, whether the
              \* capture is direct, and which start it has joined
    chain,    \* meetChunkWrites: chunks waiting to be written, in arrival order
    index,    \* meeting ids in the durable index, oldest first
    rec,      \* status of the durable record of each meeting
    store,    \* durable chunks of each meeting, with their sequence numbers
    session,  \* the capture map in chrome.storage.session
    page,     \* the offscreen page and the meeting it captures
    chunk,    \* where each chunk is, and its meeting
    errors,   \* captures to be stopped after an error, and whether the meeting is yet to fail
    stray,    \* history: captures that the worker was killed while starting (not yet in session
              \* storage) or while stopping after an error (meeting no longer "recording"), and
              \* those that a second start was begun for once they ran
    kills, crashes

durable == <<index, rec, store, session>>
vars == <<mem, task, chain, durable, page, chunk, errors, stray, kills, crashes>>

Calls == Starts \cup Stops
Id == Meetings \cup {None}
Gone == [state |-> "gone", m |-> None]
NotStarting == [m |-> None, cancelled |-> FALSE]
Asleep == [up |-> FALSE, active |-> None, creating |-> None, captures |-> {},
           starting |-> NotStarting, seq |-> [m \in Meetings |-> -1]]
Idle == [pc |-> "new", m |-> None, direct |-> TRUE]
Over == [Idle EXCEPT !.pc = "done"]

TypeOK ==
    /\ mem \in [up : BOOLEAN, active : Id, creating : Id, captures : SUBSET Meetings,
                starting : [m : Id, cancelled : BOOLEAN],
                seq : [Meetings -> Nat \cup {-1}]]
    /\ task \in [Calls -> [pc : {"new", "create", "join", "save", "await", "prepare", "open",
                                 "capture", "persist", "undo", "abort", "erase",
                                 "teardown", "final", "fail", "done"},
                           m : Id, direct : BOOLEAN]]
    /\ chain \in Seq(Chunks)
    /\ index \in Seq(Meetings)
    /\ rec \in [Meetings -> {"none", "recording", "saved", "error", "deleted"}]
    /\ store \in [Meetings -> SUBSET (Chunks \X Nat)]
    /\ session \subseteq Meetings
    /\ page \in [state : {"gone", "idle", "capturing", "stopping"}, m : Id]
    /\ chunk \in [Chunks -> [state : {"unborn", "sent", "queued", "saved", "refused", "acked", "retry", "lost"},
                             m : Id]]
    /\ errors \subseteq Meetings \X BOOLEAN
    /\ stray \subseteq Meetings
    /\ kills \in 0..MaxKills /\ crashes \in 0..MaxCrashes

Init ==
    /\ mem = [Asleep EXCEPT !.up = TRUE]
    /\ task = [c \in Calls |-> Idle]
    /\ chain = <<>> /\ index = <<>>
    /\ rec = [m \in Meetings |-> "none"]
    /\ store = [m \in Meetings |-> {}]
    /\ session = {} /\ errors = {}
    /\ page = Gone
    /\ chunk = [c \in Chunks |-> [state |-> "unborn", m |-> None]]
    /\ stray = {}
    /\ kills = 0 /\ crashes = 0

At(c, pc) == mem.up /\ task[c].pc = pc
Goto(c, pc) == task' = [task EXCEPT ![c] = IF pc = "done" THEN Over ELSE [@ EXCEPT !.pc = pc]]
Stored(m) == {e[1] : e \in store[m]}
LastSequence(m) == IF store[m] = {} THEN -1 ELSE CHOOSE n \in {e[2] : e \in store[m]} : \A e \in store[m] : e[2] <= n
IsActive(m) == m \in mem.captures \/ mem.starting.m = m
Released(m) == IF mem.active = m THEN None ELSE mem.active
PlaceOf(s, m) == CHOOSE i \in DOMAIN s : s[i] = m
Without(s, m) ==
    IF \E i \in DOMAIN s : s[i] = m
    THEN SubSeq(s, 1, PlaceOf(s, m) - 1) \o SubSeq(s, PlaceOf(s, m) + 1, Len(s)) ELSE s

\* updateMeeting: a read-modify-write under the meeting's lock; a deleted record
\* is not written again.
Update(m, status) ==
    rec' = [rec EXCEPT ![m] = IF @ \in {"none", "deleted"} THEN @ ELSE status]

-----------------------------------------------------------------------------
(* startMeetRecording.                                                      *)

\* Only a start that finds no recording, and passes the preflight, goes on.
StartRequested(s) ==
    /\ At(s, "new") /\ s \in Starts
    /\ \/ mem.active = None /\ Goto(s, "create")
       \/ Goto(s, "done")
    /\ UNCHANGED <<mem, chain, durable, page, chunk, errors, stray, kills, crashes>>

\* generateMeetingId: an id that was never used.
Unused == {m \in Meetings : rec[m] = "none" /\ \A c \in Calls : task[c].m # m}
FreshId == CHOOSE m \in Unused : TRUE

\* BackgroundController.startRecording and MeetCaptureController.start: the
\* active meeting and a creation in flight are shared, otherwise a new meeting
\* claims the slot. One capture starts at a time: a second start of the same
\* meeting shares its outcome, one of another meeting is refused.
Create(s) ==
    \/ /\ mem.active # None
       /\ \/ /\ mem.starting.m = None
             /\ mem' = [mem EXCEPT !.starting = [m |-> mem.active, cancelled |-> FALSE]]
             /\ task' = [task EXCEPT ![s].pc = "prepare", ![s].m = mem.active]
             /\ stray' = stray \cup {mem.active}
          \/ /\ mem.starting.m # None
             /\ task' = [task EXCEPT ![s].pc = IF mem.starting.m = mem.active THEN "await" ELSE "abort",
                                     ![s].m = mem.active]
             /\ UNCHANGED <<mem, stray>>
    \/ /\ mem.active = None /\ mem.creating # None
       /\ task' = [task EXCEPT ![s].pc = "join", ![s].m = mem.creating]
       /\ UNCHANGED <<mem, stray>>
    \/ /\ mem.active = None /\ mem.creating = None /\ Unused # {}
       /\ task' = [task EXCEPT ![s].pc = "save", ![s].m = FreshId]
       /\ mem' = [mem EXCEPT !.creating = FreshId]
       /\ stray' = stray

CreateMeeting(s) ==
    /\ At(s, "create")
    /\ Create(s)
    /\ UNCHANGED <<chain, durable, page, chunk, errors, kills, crashes>>

\* saveMeeting; then the meeting becomes the active one and its capture starts,
\* with no await in between. Starts that joined the creation go on with it.
SaveMeeting(s) ==
    LET m == task[s].m
        free == mem.starting.m = None IN
    /\ At(s, "save")
    /\ rec' = [rec EXCEPT ![m] = "recording"]
    /\ index' = Append(index, m)
    /\ mem' = [mem EXCEPT !.creating = None, !.active = m, !.seq[m] = 0,
                          !.starting = IF free THEN [m |-> m, cancelled |-> FALSE] ELSE @]
    /\ task' = [c \in Calls |->
        IF c = s THEN [task[c] EXCEPT !.pc = IF free THEN "prepare" ELSE "abort"]
        ELSE IF task[c].pc = "join" THEN [task[c] EXCEPT !.pc = IF free THEN "await" ELSE "abort"]
        ELSE task[c]]
    /\ UNCHANGED <<chain, store, session, page, chunk, errors, stray, kills, crashes>>

\* The start and those that joined it are settled together.
Settle(s, pc) ==
    task' = [c \in Calls |->
        IF c = s \/ (task[c].pc = "await" /\ task[c].m = task[s].m)
        THEN IF pc = "done" THEN Over ELSE [task[c] EXCEPT !.pc = pc] ELSE task[c]]

\* prepare: direct Meet audio where it is preferred and the page offers it,
\* ordinary tab capture otherwise.
Sources(preferDirect) == IF preferDirect THEN BOOLEAN ELSE {FALSE}

\* prepare() asks for the tab, the microphone and a source of tab audio. The
\* capture is entered before the page is asked to begin.
Prepare(s) ==
    LET m == task[s].m IN
    /\ At(s, "prepare")
    /\ \/ /\ ~mem.starting.cancelled
          /\ \E direct \in Sources(task[s].direct) :
               task' = [task EXCEPT ![s].pc = "open", ![s].direct = direct]
          /\ mem' = [mem EXCEPT !.captures = @ \cup {m}]
       \/ Settle(s, "abort") /\ mem' = [mem EXCEPT !.starting = NotStarting]
    /\ UNCHANGED <<chain, durable, page, chunk, errors, stray, kills, crashes>>

\* The offscreen document is created and the direct offer obtained.
OpenPage(s) ==
    /\ At(s, "open")
    /\ page' = IF page.state = "gone" THEN [state |-> "idle", m |-> None] ELSE page
    /\ \/ ~mem.starting.cancelled /\ Goto(s, "capture")
       \/ Goto(s, "undo")
    /\ UNCHANGED <<mem, chain, durable, chunk, errors, stray, kills, crashes>>

\* MEET_CAPTURE_START: the page ends the capture it has, if any, and begins this
\* one, or fails to.
CapturePage(s) ==
    /\ At(s, "capture")
    /\ \/ page.state = "capturing" /\ page' = [page EXCEPT !.state = "stopping"] /\ task' = task
       \/ /\ page.state = "idle"
          /\ page' = [state |-> "capturing", m |-> task[s].m]
          /\ Goto(s, IF mem.starting.cancelled THEN "undo" ELSE "persist")
       \/ page.state \in {"idle", "gone"} /\ page' = page /\ Goto(s, "undo")
    /\ UNCHANGED <<mem, chain, durable, chunk, errors, stray, kills, crashes>>

\* The capture of a meeting that was stopped meanwhile is stopped as well.
Confirmed(m) == IF mem.active = m THEN "done" ELSE "teardown"

\* persistCaptures, whose failure is ignored; the start is then confirmed.
PersistCaptures(s) ==
    /\ At(s, "persist")
    /\ session' \in {mem.captures, session}
    /\ mem' = [mem EXCEPT !.starting = NotStarting]
    /\ Settle(s, Confirmed(task[s].m))
    /\ UNCHANGED <<chain, index, rec, store, page, chunk, errors, stray, kills, crashes>>

\* The page has ended its capture and answered, or is gone.
PageQuiet == page.state \in {"idle", "gone"}
StopPage == page.state = "capturing" /\ page' = [page EXCEPT !.state = "stopping"]

\* A failed attempt stops the page, forgets the capture and closes the page; a
\* direct attempt that was not cancelled is repeated with ordinary tab capture.
UndoCapture(s) ==
    LET m == task[s].m IN
    /\ At(s, "undo")
    /\ \/ /\ StopPage
          /\ UNCHANGED <<mem, task, session>>
       \/ /\ PageQuiet
          /\ page' = Gone
          /\ session' = mem.captures \ {m}
          /\ \/ /\ task[s].direct /\ ~mem.starting.cancelled
                /\ task' = [task EXCEPT ![s].pc = "prepare", ![s].direct = FALSE]
                /\ mem' = [mem EXCEPT !.captures = @ \ {m}]
             \/ /\ ~task[s].direct \/ mem.starting.cancelled
                /\ Settle(s, "abort")
                /\ mem' = [mem EXCEPT !.captures = @ \ {m}, !.starting = NotStarting]
    /\ UNCHANGED <<chain, index, rec, store, chunk, errors, stray, kills, crashes>>

\* Mutant: the meeting is forgotten without looking for audio.
AbortBlindly(s) ==
    /\ At(s, "abort")
    /\ Goto(s, "erase")
    /\ UNCHANGED <<mem, chain, durable, page, chunk, errors, stray, kills, crashes>>

\* abortStart waits for the writes under way and looks for saved audio (a failed
\* look counts as audio): with audio the meeting fails, without it is forgotten.
AbortStart(s) ==
    LET m == task[s].m IN
    /\ At(s, "abort")
    /\ \A i \in DOMAIN chain : chunk[chain[i]].m # m
    /\ Goto(s, IF store[m] = {} THEN "erase" ELSE "fail")
    /\ UNCHANGED <<mem, chain, durable, page, chunk, errors, stray, kills, crashes>>

EraseMeeting(s) ==
    LET m == task[s].m IN
    /\ At(s, "erase")
    /\ store' = [store EXCEPT ![m] = {}]
    /\ rec' = [rec EXCEPT ![m] = "deleted"]
    /\ index' = Without(index, m)
    /\ mem' = [mem EXCEPT !.active = Released(m), !.seq[m] = -1]
    /\ Goto(s, "done")
    /\ UNCHANGED <<chain, session, page, chunk, errors, stray, kills, crashes>>

FailRecording(c) ==
    LET m == task[c].m IN
    /\ At(c, "fail")
    /\ Update(m, "error")
    /\ mem' = [mem EXCEPT !.active = Released(m)]
    /\ Goto(c, "done")
    /\ UNCHANGED <<chain, index, store, session, page, chunk, errors, stray, kills, crashes>>

-----------------------------------------------------------------------------
(* stopMeetRecording and finishMeetCaptureForTab.                           *)

\* A capture that is ending cancels a start that is under way.
Cancelled(m) == IF mem.starting.m = m THEN [mem EXCEPT !.starting.cancelled = TRUE] ELSE mem

\* Stop, from a view or the shortcut, of the recording that is shown.
StopRequested(c) ==
    /\ At(c, "new") /\ c \in Stops
    /\ \E m \in {mem.active} \cap Meetings :
         /\ task' = [task EXCEPT ![c].pc = IF IsActive(m) THEN "teardown" ELSE "final", ![c].m = m]
         /\ mem' = Cancelled(m)
    /\ UNCHANGED <<chain, durable, page, chunk, errors, stray, kills, crashes>>

\* stopForTab: the tab is closed or leaves the call; its captures are ended.
TabEnded(c) ==
    /\ At(c, "new") /\ c \in Stops
    /\ \E m \in mem.captures :
         /\ task' = [task EXCEPT ![c].pc = "teardown", ![c].m = m]
         /\ mem' = Cancelled(m)
    /\ UNCHANGED <<chain, durable, page, chunk, errors, stray, kills, crashes>>

\* MeetCaptureController.stop: a start under way is cancelled and awaited, the
\* page flushes its tail and answers once its writes have settled; only then is
\* the capture forgotten and the page closed.
Teardown(c) ==
    LET m == task[c].m IN
    /\ At(c, "teardown") /\ mem.starting.m # m
    /\ \/ StopPage /\ UNCHANGED <<mem, task, session>>
       \/ /\ PageQuiet
          /\ page' = Gone /\ session' = mem.captures \ {m}
          /\ mem' = [mem EXCEPT !.captures = @ \ {m}]
          /\ Goto(c, IF c \in Starts THEN "done" ELSE "final")
    /\ UNCHANGED <<chain, index, rec, store, chunk, errors, stray, kills, crashes>>

\* BackgroundController.stopRecording; a browser recording ends as saved. A late
\* or duplicate stop returns early.
StopRecording(c) ==
    LET m == task[c].m IN
    /\ At(c, "final")
    /\ IF rec[m] = "recording" \/ rec[m] = "deleted"
       THEN Update(m, "saved") /\ mem' = [mem EXCEPT !.active = Released(m)]
       ELSE UNCHANGED <<rec, mem>>
    /\ Goto(c, "done")
    /\ UNCHANGED <<chain, index, store, session, page, chunk, errors, stray, kills, crashes>>

\* releaseLostCaptures: captures with no page behind them, unless one is starting.
LostCaptures == IF mem.starting.m = None /\ page.state = "gone" THEN mem.captures ELSE {}

\* finishLostMeetCaptures, run before every report of the state: lost captures
\* are finished from the audio that is saved.
SettleLostCaptures ==
    /\ mem.up /\ LostCaptures # {}
    /\ mem' = [mem EXCEPT !.captures = {}, !.active = IF @ \in LostCaptures THEN None ELSE @]
    /\ session' = {}
    /\ rec' = [m \in Meetings |-> IF m \in LostCaptures /\ rec[m] = "recording" THEN "saved" ELSE rec[m]]
    /\ UNCHANGED <<task, chain, index, store, page, chunk, errors, stray, kills, crashes>>

-----------------------------------------------------------------------------
(* Audio: the offscreen page and the worker's MEET_AUDIO_CHUNK handler.     *)

Pending(c) == chunk[c].state \in {"sent", "queued", "saved", "refused", "retry"}
\* A chunk whose page is gone is written all the same, with nobody to answer.
Answer(c, state) == chunk' = [chunk EXCEPT ![c].state = IF @ = "lost" THEN @ ELSE state]
Move(c, state) == chunk' = [chunk EXCEPT ![c].state = state]

Unborn == {c \in Chunks : chunk[c].state = "unborn"}
NextChunk == CHOOSE c \in Unborn : TRUE

\* A full buffer, or the flushed tail of a capture that is ending.
EmitChunk(c) ==
    /\ Unborn # {} /\ c = NextChunk
    /\ page.state \in {"capturing", "stopping"}
    /\ chunk' = [chunk EXCEPT ![c] = [state |-> "sent", m |-> page.m]]
    /\ UNCHANGED <<mem, task, chain, durable, page, errors, stray, kills, crashes>>

\* A capture that the worker has forgotten is entered again if its meeting is
\* the active one. A chunk of any other capture is answered and dropped.
ReceiveChunk(c) ==
    LET m == chunk[c].m
        captures == IF ~IsActive(m) /\ mem.active = m THEN mem.captures \cup {m} ELSE mem.captures IN
    /\ mem.up /\ chunk[c].state = "sent"
    /\ \/ m \in captures /\ Move(c, "queued") /\ chain' = Append(chain, c)
       \/ m \notin captures /\ Move(c, "saved") /\ chain' = chain
    /\ mem' = [mem EXCEPT !.captures = captures]
    /\ UNCHANGED <<task, durable, page, errors, stray, kills, crashes>>

NextSequence(m) == IF mem.seq[m] >= 0 THEN mem.seq[m] ELSE LastSequence(m) + 1

\* The first durable copy of a chunk is kept: lookup and insertion share one
\* transaction.
KeepFirst(c, n) == IF c \in Stored(chunk[c].m) THEN store[chunk[c].m] ELSE store[chunk[c].m] \cup {<<c, n>>}

\* The head of the write chain is stored ...
WriteChunk ==
    /\ mem.up /\ chain # <<>>
    /\ LET c == Head(chain)
           m == chunk[c].m
           n == NextSequence(m) IN
       /\ mem' = [mem EXCEPT !.seq[m] = n + 1]
       /\ store' = [store EXCEPT ![m] = KeepFirst(c, n)]
       /\ Answer(c, "saved")
    /\ chain' = Tail(chain)
    /\ UNCHANGED <<task, index, rec, session, page, errors, stray, kills, crashes>>

\* Mutant: a refused write fails the meeting and leaves its capture running.
StopNothing(m) == errors

StopAfterRefusal(m) == errors \cup {<<m, FALSE>>}

\* ... or is refused: the meeting fails, and its capture is to be stopped.
WriteFails ==
    /\ mem.up /\ chain # <<>>
    /\ LET c == Head(chain)
           m == chunk[c].m IN
       /\ mem' = [mem EXCEPT !.seq[m] = NextSequence(m) + 1, !.active = Released(m)]
       /\ Update(m, "error")
       /\ Answer(c, "refused")
       /\ errors' = StopAfterRefusal(m)
    /\ chain' = Tail(chain)
    /\ UNCHANGED <<task, index, store, session, page, stray, kills, crashes>>

\* The page learns the answer, ...
ChunkAnswered(c) ==
    /\ chunk[c].state = "saved" /\ Move(c, "acked")
    /\ UNCHANGED <<mem, task, chain, durable, page, errors, stray, kills, crashes>>

\* ... repeats a chunk whose answer was lost with the worker, ...
ResendChunk(c) ==
    /\ chunk[c].state = "retry" /\ Move(c, "sent")
    /\ UNCHANGED <<mem, task, chain, durable, page, errors, stray, kills, crashes>>

\* ... or gives up: failCapture reports the error, which a worker that is down
\* does not receive, and ends the capture.
LoseChunk(c) ==
    /\ chunk[c].state \in {"retry", "refused"}
    /\ Move(c, "lost")
    /\ errors' = IF mem.up THEN errors \cup {<<chunk[c].m, TRUE>>} ELSE errors
    /\ page' = IF page = [state |-> "capturing", m |-> chunk[c].m]
               THEN [page EXCEPT !.state = "stopping"] ELSE page
    /\ UNCHANGED <<mem, task, chain, durable, stray, kills, crashes>>

\* MEET_CAPTURE_ERROR: capture.stop, then failRecording; the stop alone after a
\* refused write, which has failed the meeting already.
CaptureError(m, fails) ==
    /\ mem.up /\ <<m, fails>> \in errors
    /\ \/ /\ mem.starting = [m |-> m, cancelled |-> FALSE]
          /\ mem' = [mem EXCEPT !.starting.cancelled = TRUE]
          /\ UNCHANGED <<errors, page, session, rec>>
       \/ /\ mem.starting.m # m /\ StopPage
          /\ UNCHANGED <<errors, mem, session, rec>>
       \/ /\ mem.starting.m # m /\ PageQuiet
          /\ errors' = errors \ {<<m, fails>>}
          /\ page' = Gone /\ session' = mem.captures \ {m}
          /\ mem' = [mem EXCEPT !.captures = @ \ {m}, !.active = IF fails THEN Released(m) ELSE @]
          /\ IF fails THEN Update(m, "error") ELSE rec' = rec
    /\ UNCHANGED <<task, chain, index, store, chunk, stray, kills, crashes>>

\* stopCapture waits for the writes of the page, then releases the streams.
PageStopped ==
    /\ page.state = "stopping"
    /\ \A c \in Chunks : ~Pending(c)
    /\ page' = [state |-> "idle", m |-> None]
    /\ UNCHANGED <<mem, task, chain, durable, chunk, errors, stray, kills, crashes>>

\* The page disappears, and what it had not got through with it.
PageCrashes ==
    /\ crashes < MaxCrashes /\ page.state # "gone"
    /\ crashes' = crashes + 1
    /\ page' = Gone
    /\ chunk' = [c \in Chunks |->
        IF chunk[c].state \in {"sent", "queued", "saved", "refused", "retry"} THEN [chunk[c] EXCEPT !.state = "lost"] ELSE chunk[c]]
    /\ UNCHANGED <<mem, task, chain, durable, errors, stray, kills>>

-----------------------------------------------------------------------------
(* The worker is killed, and started again by the next event.               *)

KillWorker ==
    /\ mem.up /\ kills < MaxKills
    /\ kills' = kills + 1
    /\ mem' = Asleep
    /\ task' = [c \in Calls |-> IF task[c].pc = "new" THEN Idle ELSE Over]
    /\ chain' = <<>>
    /\ chunk' = [c \in Chunks |->
        IF chunk[c].state \in {"sent", "queued", "saved", "refused"}
        THEN [chunk[c] EXCEPT !.state = "retry"] ELSE chunk[c]]
    /\ errors' = {}
    /\ stray' = stray \cup {m \in {page.m} \ {None} : m \notin session \/ rec[m] # "recording"}
    /\ UNCHANGED <<durable, page, crashes>>

Latest == IF index = <<>> THEN None ELSE index[Len(index)]

\* Mutant: a recording without a capture is left as it is.
OrphanKept(m, live) == rec

\* init: a recording that no capture stands behind is saved.
OrphanSaved(m, live) == IF m # None /\ ~live THEN [rec EXCEPT ![m] = IF @ = "recording" THEN "saved" ELSE @] ELSE rec

\* restoreCaptures, less the captures that are then found without a page.
Restored == IF page.state = "gone" THEN {} ELSE session

\* The worker starts: the latest meeting is taken up again if a capture and a
\* page stand behind it, and finished otherwise.
WakeWorker ==
    LET m == Latest
        live == m # None /\ rec[m] = "recording" /\ m \in Restored IN
    /\ ~mem.up
    /\ mem' = [Asleep EXCEPT !.up = TRUE, !.active = IF live THEN m ELSE None, !.captures = Restored,
                             !.seq = IF live THEN [@ EXCEPT ![m] = LastSequence(m) + 1] ELSE @]
    /\ session' = Restored
    /\ rec' = OrphanSaved(m, live)
    /\ UNCHANGED <<task, chain, index, store, page, chunk, errors, stray, kills, crashes>>

-----------------------------------------------------------------------------
StartStep(s) ==
    \/ StartRequested(s) \/ CreateMeeting(s) \/ SaveMeeting(s)
    \/ Prepare(s) \/ OpenPage(s) \/ CapturePage(s)
    \/ PersistCaptures(s) \/ UndoCapture(s) \/ AbortStart(s)
    \/ EraseMeeting(s)

StopStep(c) == StopRequested(c) \/ TabEnded(c) \/ StopRecording(c)

PageStep ==
    \/ \E c \in Chunks :
         EmitChunk(c) \/ ReceiveChunk(c) \/ ChunkAnswered(c) \/ ResendChunk(c) \/ LoseChunk(c)
    \/ WriteChunk \/ WriteFails \/ PageStopped

Next ==
    \/ \E s \in Starts : StartStep(s)
    \/ \E c \in Stops : StopStep(c)
    \/ \E c \in Calls : Teardown(c) \/ FailRecording(c)
    \/ \E m \in Meetings, fails \in BOOLEAN : CaptureError(m, fails)
    \/ PageStep \/ SettleLostCaptures \/ PageCrashes \/ KillWorker \/ WakeWorker

Spec == Init /\ [][Next]_vars

-----------------------------------------------------------------------------
(****************************************************************************)
(* Properties.                                                              *)
(****************************************************************************)

\* Audio that the worker acknowledged to the page is stored (offscreen.ts:
\* "Provider audio leaves the extension only after the worker acknowledges its
\* local durable write"; backgroundController.ts, abortStart: "Never delete that
\* durable audio as if recording never began").
\* And the chunks of a meeting have distinct places in its order, however often
\* the worker restarts: a reader that goes on after the last place it has seen
\* misses none (backgroundController.ts, sendMeetAudioChunk;
\* browserStorage.ts, streamBrowserMeetChunks).
AckedAudioStored ==
    /\ TypeOK
    /\ \A c \in Chunks : chunk[c].state = "acked" /\ chunk[c].m \notin stray => c \in Stored(chunk[c].m)
    /\ \A m \in Meetings : \A d, e \in store[m] : (d[1] = e[1]) <=> (d[2] = e[2])

\* However many views press start together, one call is recorded once
\* (backgroundController.ts, startRecording: "Both would reach the helper with
\* different meeting ids and capture the same call twice"), and the page never
\* captures into a finished meeting with nothing to stop it (session.ts,
\* startMeetRecording: "a capture left running would record into it with
\* nothing to stop it").
OneCapture ==
    /\ Cardinality({m \in Meetings : rec[m] = "recording"}) <= 1
    /\ page.state = "capturing" /\ mem.up /\ page.m \notin stray =>
         \/ rec[page.m] = "recording"
         \/ \E c \in Calls : task[c].m = page.m
         \/ \E e \in errors : e[1] = page.m

\* A meeting that reads "recording" while its page is gone is one that the
\* worker will finish: its lost capture is still known, or a start, a stop or an
\* error is about to (meetCapture.ts, releaseLostCaptures: "its meeting would
\* read 'recording' until someone pressed Stop").
LostPageIsSettled ==
    \A m \in Meetings : mem.up /\ rec[m] = "recording" /\ page.state = "gone" =>
        \/ m \in mem.captures
        \/ \E c \in Calls : task[c].m = m
        \/ \E e \in errors : e[1] = m

=============================================================================
