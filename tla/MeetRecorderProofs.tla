------------------------- MODULE MeetRecorderProofs -------------------------
(****************************************************************************)
(* Proofs about MeetRecorder, for every number of meetings, chunks, starts, *)
(* stops, kills and crashes.                                                *)
(*                                                                          *)
(* The properties speak of meetings, chunks and the page; what makes them   *)
(* inductive is which meeting each call, each capture and each error is     *)
(* about, and that it has begun: a meeting whose record is not yet written  *)
(* is known to the start that creates it only.                              *)
(****************************************************************************)
EXTENDS MeetRecorder, TLAPS, FiniteSetTheorems, SequenceTheorems

Started(m) == rec[m] # "none"
Held == page.state \in {"capturing", "stopping"}

\* While the worker is down its memory, its calls and its queues are empty.
Sleep ==
    /\ \A c \in Calls : task[c].pc \in {"new", "create", "done"} <=> task[c].m = None
    /\ ~mem.up => /\ mem = Asleep /\ chain = <<>> /\ errors = {}
                  /\ \A c \in Calls : task[c].pc \in {"new", "done"}

\* A start that creates a meeting is alone in knowing it, but for those that
\* have joined it; no meeting is active before.
Slot == mem.creating # None => mem.active = None
Makers == \A c \in Calls : task[c].pc \in {"save", "join"} => mem.creating = task[c].m
OneMaker == \A c, d \in Calls : task[c].pc = "save" /\ task[d].pc = "save" => c = d
Unmade == \A c \in Calls : task[c].pc = "save" => ~Started(task[c].m)
Made == \A c \in Calls : task[c].m # None /\ task[c].pc \notin {"save", "join"} => Started(task[c].m)
Creating == Slot /\ Makers /\ OneMaker /\ Unmade /\ Made

\* Whatever else speaks of a meeting speaks of one that has started.
KnownCaptures == \A m \in mem.captures \cup session : Started(m)
KnownStart == mem.starting.m # None => Started(mem.starting.m)
KnownPage == page.m # None => Started(page.m)
KnownChunks == \A c \in Chunks : chunk[c].m # None => Started(chunk[c].m)
KnownErrors == \A e \in errors : Started(e[1])
KnownStore == \A m \in Meetings : ~Started(m) => store[m] = {}
Known == KnownCaptures /\ KnownStart /\ KnownPage /\ KnownChunks /\ KnownErrors /\ KnownStore

\* The start under way is one call's, and those that wait for it are about the
\* same meeting.
Attempt == {"prepare", "open", "capture", "persist", "undo"}
Starters == \A c \in Calls : task[c].pc \in Attempt \cup {"await"} => mem.starting.m = task[c].m
Capturers == \A c \in Calls : task[c].pc \in Attempt \ {"prepare"} => task[c].m \in mem.captures
OneAttempt == \A c, d \in Calls : task[c].pc \in Attempt /\ task[d].pc \in Attempt => c = d
Attempting == Starters /\ Capturers /\ OneAttempt

\* Nothing captures m, or is about to.
Closed(m) == m \notin mem.captures /\ mem.starting.m # m /\ page.m # m

\* A call that prepares a capture finds none of its meeting.
Prepared == \A c \in Calls : task[c].pc = "prepare" /\ task[c].m \notin stray =>
              task[c].m \notin mem.captures /\ page.m # task[c].m

\* A call that gives a meeting up does so when nothing captures it.
GivingUp == {"abort", "erase", "final", "fail"}
GivenUp == \A c \in Calls : task[c].pc \in GivingUp /\ task[c].m \notin stray => Closed(task[c].m)
Refused ==
    mem.active # None /\ mem.starting.m \notin {None, mem.active} /\ mem.active \notin stray
      => Closed(mem.active)
Erased == \A c \in Calls, d \in Chunks :
            task[c].pc = "erase" /\ task[c].m \notin stray /\ chunk[d].m = task[c].m
                => chunk[d].state \notin {"saved", "acked"}
Closing == Prepared /\ GivenUp /\ Refused /\ Erased

\* The recording that goes on is the active one, and the latest.
Current == mem.up => \A m \in Meetings : mem.active = m <=> rec[m] = "recording"
Newest == \A m \in Meetings : rec[m] = "recording" => Latest = m
Active == Current /\ Newest

\* The page captures a meeting whose capture the worker knows, or will find again.
Paged ==
    /\ Held <=> page.m # None
    /\ page.m # None /\ page.m \notin stray =>
         /\ mem.up => page.m \in mem.captures
         /\ ~mem.up => page.m \in session /\ rec[page.m] = "recording"

\* A chunk that the page waits for is of the meeting it captures; it is in the
\* write chain at most once, and stored once it was answered.
Born == \A c \in Chunks : chunk[c].state = "unborn" <=> chunk[c].m = None
Awaited == \A c \in Chunks : Pending(c) => chunk[c].m = page.m
Chained ==
    /\ \A i \in DOMAIN chain : chunk[chain[i]].state \in {"queued", "lost"}
    /\ \A i, j \in DOMAIN chain : chain[i] = chain[j] => i = j
Answered == \A c \in Chunks : chunk[c].state \in {"saved", "acked"} /\ chunk[c].m \notin stray =>
              c \in Stored(chunk[c].m)
Audio == Born /\ Awaited /\ Chained /\ Answered

\* The chunks of a meeting are numbered, and the next number is beyond them.
Numbered ==
    \A m \in Meetings :
      /\ \A d, e \in store[m] : (d[1] = e[1]) <=> (d[2] = e[2])
      /\ store[m] = {} \/ \E d \in store[m] : \A e \in store[m] : e[2] <= d[2]
      /\ mem.seq[m] >= 0 => \A e \in store[m] : e[2] < mem.seq[m]

\* Somebody is about to deal with m.
Minded(m) == (\E c \in Calls : task[c].m = m) \/ \E e \in errors : e[1] = m

EndedStarts == \A c \in Starts : task[c].pc = "teardown" => rec[task[c].m] # "recording"
EndedErrors == \A m \in Meetings : <<m, FALSE>> \in errors => rec[m] # "recording"
Looked == \A m \in Meetings : mem.up /\ rec[m] = "recording" => m \in mem.captures \/ Minded(m)
Stoppable == page.state = "capturing" /\ mem.up /\ page.m \notin stray =>
               rec[page.m] = "recording" \/ Minded(page.m)
Watched == EndedStarts /\ EndedErrors /\ Looked /\ Stoppable

Inv ==
    /\ TypeOK /\ Sleep /\ Creating /\ Known /\ Attempting /\ Closing /\ Active /\ Paged
    /\ Audio /\ Numbered /\ Watched

-----------------------------------------------------------------------------
(* Types, one variable after another.                                       *)

Pcs == {"new", "create", "join", "save", "await", "prepare", "open", "capture", "persist", "undo",
        "abort", "erase", "teardown", "final", "fail", "done"}
CallState == [pc : Pcs, m : Id, direct : BOOLEAN]
MemoryState == [up : BOOLEAN, active : Id, creating : Id, captures : SUBSET Meetings,
                starting : [m : Id, cancelled : BOOLEAN], seq : [Meetings -> Nat \cup {-1}]]
ChunkState == [state : {"unborn", "sent", "queued", "saved", "refused", "acked", "retry", "lost"}, m : Id]
PageState == [state : {"gone", "idle", "capturing", "stopping"}, m : Id]
Status == {"none", "recording", "saved", "error", "deleted"}

MemoryTyped == mem \in MemoryState
CallsTyped == task \in [Calls -> CallState]
ChunksTyped == chunk \in [Chunks -> ChunkState] /\ chain \in Seq(Chunks)
RecordsTyped == index \in Seq(Meetings) /\ rec \in [Meetings -> Status] /\ session \subseteq Meetings
StoreTyped == store \in [Meetings -> SUBSET (Chunks \X Nat)]
PageTyped == page \in PageState
RestTyped == /\ errors \subseteq Meetings \X BOOLEAN /\ stray \subseteq Meetings
             /\ kills \in 0..MaxKills /\ crashes \in 0..MaxCrashes

LEMMA TypesApart ==
  TypeOK <=> /\ MemoryTyped /\ CallsTyped /\ ChunksTyped /\ RecordsTyped /\ StoreTyped
             /\ PageTyped /\ RestTyped
  BY DEF TypeOK, MemoryTyped, CallsTyped, ChunksTyped, RecordsTyped, StoreTyped, PageTyped, RestTyped,
         MemoryState, CallState, Pcs, ChunkState, PageState, Status

-----------------------------------------------------------------------------
(* What the steps do to the calls and to the memory of the worker: which    *)
(* calls move, and where to, and what the memory holds afterwards.          *)

\* The calls of S are at pc now, about m; the others are where they were.
Told(S, pc, m) ==
    /\ task' \in [Calls -> CallState]
    /\ \A x \in Calls : task'[x].pc = IF x \in S THEN pc ELSE task[x].pc
    /\ \A x \in Calls : task'[x].m = IF x \in S THEN m ELSE task[x].m

\* The memory holds these afterwards; up and the sequence numbers stay.
Holds(active, creating, captures, starting) ==
    /\ mem' \in MemoryState
    /\ mem'.up = mem.up /\ mem'.seq = mem.seq
    /\ mem'.active = active /\ mem'.creating = creating
    /\ mem'.captures = captures /\ mem'.starting.m = starting

Waiting(m) == {c \in Calls : task[c].pc = "await" /\ task[c].m = m}

LEMMA Going ==
  ASSUME TypeOK, NEW c \in Calls, NEW pc \in Pcs, Goto(c, pc)
  PROVE  Told({c}, pc, IF pc = "done" THEN None ELSE task[c].m)
<1>1. task \in [Calls -> CallState]
  BY TypesApart DEF CallsTyped
<1>2. CASE pc = "done"
  <2>1. task' = [task EXCEPT ![c] = Over]
    BY <1>2 DEF Goto
  <2>2. Over \in CallState /\ Over.pc = "done" /\ Over.m = None
    BY DEF Over, Idle, CallState, Pcs, Id
  <2> HIDE DEF Over, CallState
  <2> QED BY <1>1, <1>2, <2>1, <2>2 DEF Told
<1>3. CASE pc # "done"
  <2>1. task' = [task EXCEPT ![c].pc = pc]
    BY <1>3, <1>1 DEF Goto
  <2> QED BY <1>1, <1>3, <2>1 DEF Told, CallState
<1> QED BY <1>2, <1>3

LEMMA Settling ==
  ASSUME TypeOK, NEW s \in Calls, NEW pc \in Pcs, Settle(s, pc)
  PROVE  Told({s} \cup Waiting(task[s].m), pc, IF pc = "done" THEN None ELSE task[s].m)
<1>1. task \in [Calls -> CallState]
  BY TypesApart DEF CallsTyped
<1>2. Over \in CallState /\ Over.pc = "done" /\ Over.m = None
  BY DEF Over, Idle, CallState, Pcs, Id
<1>3. ASSUME NEW x \in Calls
      PROVE  /\ task'[x] \in CallState
             /\ task'[x].pc = IF x \in {s} \cup Waiting(task[s].m) THEN pc ELSE task[x].pc
             /\ task'[x].m = IF x \in {s} \cup Waiting(task[s].m)
                             THEN IF pc = "done" THEN None ELSE task[s].m ELSE task[x].m
  <2> DEFINE In == x = s \/ (task[x].pc = "await" /\ task[x].m = task[s].m)
  <2>1. In <=> x \in {s} \cup Waiting(task[s].m)
    BY DEF Waiting
  <2>2. In => task[x].m = task[s].m
    OBVIOUS
  <2>3. task'[x] = IF In THEN IF pc = "done" THEN Over ELSE [task[x] EXCEPT !.pc = pc] ELSE task[x]
    BY DEF Settle
  <2>4. task[x] \in CallState
    BY <1>1
  <2> HIDE DEF In
  <2>5. CASE ~In
    BY <2>1, <2>3, <2>4, <2>5
  <2>6. CASE In /\ pc = "done"
    BY <1>2, <2>1, <2>3, <2>6
  <2>7. CASE In /\ pc # "done"
    BY <2>1, <2>2, <2>3, <2>4, <2>7 DEF CallState
  <2> QED BY <2>5, <2>6, <2>7
<1>4. task' \in [Calls -> CallState]
  BY <1>3 DEF Settle
<1> QED BY <1>3, <1>4 DEF Told

LEMMA Taking ==
  ASSUME TypeOK, NEW c \in Calls, NEW pc \in Pcs, NEW m \in Id,
         task' = [task EXCEPT ![c].pc = pc, ![c].m = m]
  PROVE  Told({c}, pc, m)
<1>1. task \in [Calls -> CallState]
  BY TypesApart DEF CallsTyped
<1> QED BY <1>1 DEF Told, CallState

LEMMA Trying ==
  ASSUME TypeOK, NEW c \in Calls, NEW pc \in Pcs, NEW direct \in BOOLEAN,
         task' = [task EXCEPT ![c].pc = pc, ![c].direct = direct]
  PROVE  Told({c}, pc, task[c].m)
<1>1. task \in [Calls -> CallState]
  BY TypesApart DEF CallsTyped
<1> QED BY <1>1 DEF Told, CallState

LEMMA StartRequestedMoves ==
  ASSUME TypeOK, NEW s \in Starts, StartRequested(s)
  PROVE  /\ At(s, "new")
         /\ UNCHANGED <<mem, chain, index, rec, store, session, page, chunk, errors, stray>>
         /\ \/ mem.active = None /\ Told({s}, "create", task[s].m)
            \/ Told({s}, "done", None)
BY Going DEF StartRequested, Calls, Pcs, durable

\* A start that finds a recording shares it or is refused, one that finds a
\* creation joins it, and any other creates a meeting.
Shares(s) ==
    /\ mem.active # None /\ mem.starting.m = None
    /\ Holds(mem.active, mem.creating, mem.captures, mem.active)
    /\ stray' = stray \cup {mem.active}
    /\ Told({s}, "prepare", mem.active)
Follows(s) ==
    /\ mem.active # None /\ mem.starting.m # None
    /\ UNCHANGED <<mem, stray>>
    /\ \/ mem.starting.m = mem.active /\ Told({s}, "await", mem.active)
       \/ mem.starting.m # mem.active /\ Told({s}, "abort", mem.active)
Joins(s) ==
    /\ mem.active = None /\ mem.creating # None
    /\ UNCHANGED <<mem, stray>> /\ Told({s}, "join", mem.creating)
Creates(s) ==
    /\ mem.active = None /\ mem.creating = None
    /\ FreshId \in Unused
    /\ Holds(None, FreshId, mem.captures, mem.starting.m) /\ UNCHANGED stray
    /\ Told({s}, "save", FreshId)

LEMMA CreateMoves ==
  ASSUME TypeOK, NEW s \in Starts, CreateMeeting(s)
  PROVE  /\ At(s, "create")
         /\ UNCHANGED <<chain, index, rec, store, session, page, chunk, errors>>
         /\ Shares(s) \/ Follows(s) \/ Joins(s) \/ Creates(s)
<1>a. /\ At(s, "create")
      /\ UNCHANGED <<chain, index, rec, store, session, page, chunk, errors>>
  BY DEF CreateMeeting, durable
<1> s \in Calls
  BY DEF Calls
<1>0. mem \in MemoryState
  BY TypesApart DEF MemoryTyped
<1>1. mem.active \in Id /\ mem.creating \in Id
  BY <1>0 DEF MemoryState
<1>2. CASE mem.active # None
  <2>1. CASE mem.starting.m = None
    <3>1. mem' = [mem EXCEPT !.starting = [m |-> mem.active, cancelled |-> FALSE]]
      BY <1>2, <2>1 DEF CreateMeeting, Create
    <3>2. Holds(mem.active, mem.creating, mem.captures, mem.active)
      BY <1>0, <3>1 DEF Holds, MemoryState
    <3>3. Told({s}, "prepare", mem.active) /\ stray' = stray \cup {mem.active}
      BY <1>1, <1>2, <2>1, Taking DEF CreateMeeting, Create, Pcs
    <3> QED BY <1>a, <1>2, <2>1, <3>2, <3>3 DEF Shares
  <2>2. CASE mem.starting.m # None
    <3>1. CASE mem.starting.m = mem.active
      BY <1>a, <1>1, <1>2, <2>2, <3>1, Taking DEF CreateMeeting, Create, Follows, Pcs
    <3>2. CASE mem.starting.m # mem.active
      BY <1>a, <1>1, <1>2, <2>2, <3>2, Taking DEF CreateMeeting, Create, Follows, Pcs
    <3> QED BY <3>1, <3>2
  <2> QED BY <2>1, <2>2
<1>3. CASE mem.active = None /\ mem.creating # None
  BY <1>a, <1>1, <1>3, Taking DEF CreateMeeting, Create, Joins, Pcs
<1>4. CASE mem.active = None /\ mem.creating = None
  <2>1. Unused # {}
    BY <1>4 DEF CreateMeeting, Create
  <2>2. FreshId \in Unused
    BY <2>1 DEF FreshId
  <2>3. FreshId \in Id
    BY <2>2 DEF Unused, Id
  <2>4. task' = [task EXCEPT ![s].pc = "save", ![s].m = FreshId] /\ stray' = stray
        /\ mem' = [mem EXCEPT !.creating = FreshId]
    BY <1>4 DEF CreateMeeting, Create
  <2>5. Told({s}, "save", FreshId)
    BY <2>3, <2>4, Taking DEF Pcs
  <2>6. Holds(None, FreshId, mem.captures, mem.starting.m)
    BY <1>0, <1>4, <2>3, <2>4 DEF Holds, MemoryState
  <2> QED BY <1>a, <1>4, <2>2, <2>4, <2>5, <2>6 DEF Creates
<1> QED BY <1>2, <1>3, <1>4

\* The meeting is there: it is the active one, and its start and those that
\* joined it go on.
LEMMA SaveMoves ==
  ASSUME TypeOK, Sleep, NEW s \in Starts, SaveMeeting(s)
  PROVE  /\ At(s, "save") /\ rec' = [rec EXCEPT ![task[s].m] = "recording"] /\ index' = Append(index, task[s].m)
         /\ UNCHANGED <<chain, store, session, page, chunk, errors, stray>>
         /\ task' \in [Calls -> CallState]
         /\ \A x \in Calls : task'[x].m = task[x].m
         /\ \A x \in Calls : task'[x].pc =
              IF x = s THEN IF mem.starting.m = None THEN "prepare" ELSE "abort"
              ELSE IF task[x].pc = "join" THEN IF mem.starting.m = None THEN "await" ELSE "abort"
              ELSE task[x].pc
         /\ task[s].m \in Meetings
         /\ mem' \in MemoryState /\ mem'.up = mem.up
         /\ mem'.active = task[s].m /\ mem'.creating = None /\ mem'.captures = mem.captures
         /\ mem'.starting.m = IF mem.starting.m = None THEN task[s].m ELSE mem.starting.m
         /\ mem'.seq = [mem.seq EXCEPT ![task[s].m] = 0]
<1>a. /\ At(s, "save") /\ rec' = [rec EXCEPT ![task[s].m] = "recording"] /\ index' = Append(index, task[s].m)
      /\ UNCHANGED <<chain, store, session, page, chunk, errors, stray>>
  BY DEF SaveMeeting, durable
<1> s \in Calls
  BY DEF Calls
<1>1. task \in [Calls -> CallState] /\ mem \in MemoryState
  BY TypesApart DEF CallsTyped, MemoryTyped
<1>2. ASSUME NEW x \in Calls
      PROVE  /\ task'[x] \in CallState
             /\ task'[x].m = task[x].m
             /\ task'[x].pc =
              IF x = s THEN IF mem.starting.m = None THEN "prepare" ELSE "abort"
              ELSE IF task[x].pc = "join" THEN IF mem.starting.m = None THEN "await" ELSE "abort"
              ELSE task[x].pc
  BY <1>1 DEF SaveMeeting, CallState, Pcs
<1>3. task' \in [Calls -> CallState]
  BY <1>2 DEF SaveMeeting
<1>4. task[s].m \in Meetings
  BY <1>1 DEF Sleep, SaveMeeting, At, CallState, Id
<1>5. /\ mem' \in MemoryState /\ mem'.up = mem.up
      /\ mem'.active = task[s].m /\ mem'.creating = None /\ mem'.captures = mem.captures
      /\ mem'.starting.m = IF mem.starting.m = None THEN task[s].m ELSE mem.starting.m
      /\ mem'.seq = [mem.seq EXCEPT ![task[s].m] = 0]
  <2> PICK m \in Meetings : m = task[s].m
    BY <1>4
  <2> PICK st \in [m : Id, cancelled : BOOLEAN] :
        st = IF mem.starting.m = None THEN [m |-> m, cancelled |-> FALSE] ELSE mem.starting
    BY <1>1 DEF MemoryState, Id
  <2>1. mem' = [mem EXCEPT !.creating = None, !.active = m, !.seq[m] = 0, !.starting = st]
    BY DEF SaveMeeting
  <2> QED BY <1>1, <2>1 DEF MemoryState, Id
<1> QED BY <1>a, <1>2, <1>3, <1>4, <1>5

LEMMA PrepareMoves ==
  ASSUME TypeOK, Sleep, NEW s \in Starts, Prepare(s)
  PROVE  /\ At(s, "prepare")
         /\ UNCHANGED <<chain, index, rec, store, session, page, chunk, errors, stray>>
         /\ \/ /\ Told({s}, "open", task[s].m)
               /\ Holds(mem.active, mem.creating, mem.captures \cup {task[s].m}, mem.starting.m)
            \/ /\ Told({s} \cup Waiting(task[s].m), "abort", task[s].m)
               /\ Holds(mem.active, mem.creating, mem.captures, None)
<1>a. /\ At(s, "prepare")
      /\ UNCHANGED <<chain, index, rec, store, session, page, chunk, errors, stray>>
  BY DEF Prepare, durable
<1> s \in Calls
  BY DEF Calls
<1>0. task \in [Calls -> CallState] /\ mem \in MemoryState
  BY TypesApart DEF CallsTyped, MemoryTyped
<1>1. Settle(s, "abort") => Told({s} \cup Waiting(task[s].m), "abort", task[s].m)
  BY Settling DEF Pcs
<1>2. ASSUME NEW direct \in Sources(task[s].direct), task' = [task EXCEPT ![s].pc = "open", ![s].direct = direct]
      PROVE  Told({s}, "open", task[s].m)
  BY <1>2, Trying DEF Sources, Pcs
<1>3. task[s].m \in Meetings
  BY <1>0 DEF Sleep, Prepare, At, CallState, Id
<1>4. mem' = [mem EXCEPT !.captures = @ \cup {task[s].m}]
      => Holds(mem.active, mem.creating, mem.captures \cup {task[s].m}, mem.starting.m)
  BY <1>0, <1>3 DEF Holds, MemoryState
<1>5. ASSUME mem' = [mem EXCEPT !.starting = NotStarting]
      PROVE  Holds(mem.active, mem.creating, mem.captures, None)
  BY <1>0, <1>5 DEF Holds, MemoryState, NotStarting, Id
<1> QED BY <1>a, <1>1, <1>2, <1>4, <1>5 DEF Prepare

LEMMA OpenMoves ==
  ASSUME TypeOK, NEW s \in Starts, OpenPage(s)
  PROVE  /\ At(s, "open")
         /\ UNCHANGED <<mem, chain, index, rec, store, session, chunk, errors, stray>>
         /\ Told({s}, "capture", task[s].m) \/ Told({s}, "undo", task[s].m)
BY Going DEF OpenPage, Calls, Pcs, durable

\* The page is asked to end another capture first, begins, or cannot.
LEMMA CaptureMoves ==
  ASSUME TypeOK, NEW s \in Starts, CapturePage(s)
  PROVE  /\ At(s, "capture")
         /\ UNCHANGED <<mem, chain, index, rec, store, session, chunk, errors, stray>>
         /\ \/ page.state = "capturing" /\ page' = [page EXCEPT !.state = "stopping"] /\ task' = task
            \/ /\ page' = [state |-> "capturing", m |-> task[s].m] /\ page.state = "idle"
               /\ Told({s}, "undo", task[s].m) \/ Told({s}, "persist", task[s].m)
            \/ page' = page /\ Told({s}, "undo", task[s].m)
<1>a. /\ At(s, "capture")
      /\ UNCHANGED <<mem, chain, index, rec, store, session, chunk, errors, stray>>
  BY DEF CapturePage, durable
<1> s \in Calls
  BY DEF Calls
<1>1. CASE mem.starting.cancelled
  BY <1>a, <1>1, Going DEF CapturePage, Pcs
<1>2. CASE ~mem.starting.cancelled
  BY <1>a, <1>2, Going DEF CapturePage, Pcs
<1> QED BY <1>a, <1>1, <1>2

LEMMA PersistMoves ==
  ASSUME TypeOK, NEW s \in Starts, PersistCaptures(s)
  PROVE  /\ At(s, "persist") /\ session' \in {mem.captures, session}
         /\ UNCHANGED <<chain, index, rec, store, page, chunk, errors, stray>>
         /\ \/ mem.active = task[s].m /\ Told({s} \cup Waiting(task[s].m), "done", None)
            \/ mem.active # task[s].m /\ Told({s} \cup Waiting(task[s].m), "teardown", task[s].m)
         /\ Holds(mem.active, mem.creating, mem.captures, None)
<1>a. /\ At(s, "persist") /\ session' \in {mem.captures, session}
      /\ UNCHANGED <<chain, index, rec, store, page, chunk, errors, stray>>
  BY DEF PersistCaptures, durable
<1> s \in Calls
  BY DEF Calls
<1>3. mem \in MemoryState
  BY TypesApart DEF MemoryTyped
<1>4. mem' = [mem EXCEPT !.starting = NotStarting]
  BY DEF PersistCaptures
<1>5. Holds(mem.active, mem.creating, mem.captures, None)
  BY <1>3, <1>4 DEF Holds, MemoryState, NotStarting, Id
<1>6. \/ mem.active = task[s].m /\ Told({s} \cup Waiting(task[s].m), "done", None)
      \/ mem.active # task[s].m /\ Told({s} \cup Waiting(task[s].m), "teardown", task[s].m)
  <2>1. CASE mem.active = task[s].m
    BY <2>1, Settling DEF PersistCaptures, Confirmed, Pcs
  <2>2. CASE mem.active # task[s].m
    BY <2>2, Settling DEF PersistCaptures, Confirmed, Pcs
  <2> QED BY <2>1, <2>2
<1> QED BY <1>a, <1>5, <1>6

LEMMA UndoMoves ==
  ASSUME TypeOK, NEW s \in Starts, UndoCapture(s)
  PROVE  /\ At(s, "undo")
         /\ UNCHANGED <<chain, index, rec, store, chunk, errors, stray>>
         /\ \/ StopPage /\ UNCHANGED <<mem, task, session>>
            \/ /\ PageQuiet /\ page' = Gone /\ session' = mem.captures \ {task[s].m}
               /\ \/ /\ Told({s}, "prepare", task[s].m)
                     /\ Holds(mem.active, mem.creating, mem.captures \ {task[s].m}, mem.starting.m)
                  \/ /\ Told({s} \cup Waiting(task[s].m), "abort", task[s].m)
                     /\ Holds(mem.active, mem.creating, mem.captures \ {task[s].m}, None)
<1>a. /\ At(s, "undo")
      /\ UNCHANGED <<chain, index, rec, store, chunk, errors, stray>>
  BY DEF UndoCapture, durable
<1> s \in Calls
  BY DEF Calls
<1>0. mem \in MemoryState
  BY TypesApart DEF MemoryTyped
<1>1. Settle(s, "abort") => Told({s} \cup Waiting(task[s].m), "abort", task[s].m)
  BY Settling DEF Pcs
<1>2. task' = [task EXCEPT ![s].pc = "prepare", ![s].direct = FALSE] => Told({s}, "prepare", task[s].m)
  BY Trying DEF Pcs
<1>3. mem' = [mem EXCEPT !.captures = @ \ {task[s].m}]
      => Holds(mem.active, mem.creating, mem.captures \ {task[s].m}, mem.starting.m)
  BY <1>0 DEF Holds, MemoryState
<1>4. ASSUME mem' = [mem EXCEPT !.captures = @ \ {task[s].m}, !.starting = NotStarting]
      PROVE  Holds(mem.active, mem.creating, mem.captures \ {task[s].m}, None)
  <2>1. NotStarting \in [m : Id, cancelled : BOOLEAN] /\ NotStarting.m = None
    BY DEF NotStarting, Id
  <2> HIDE DEF NotStarting
  <2> QED BY <1>0, <1>4, <2>1 DEF Holds, MemoryState
<1> QED BY <1>a, <1>1, <1>2, <1>3, <1>4 DEF UndoCapture

LEMMA AbortMoves ==
  ASSUME TypeOK, NEW s \in Starts, AbortStart(s)
  PROVE  /\ At(s, "abort") /\ \A i \in DOMAIN chain : chunk[chain[i]].m # task[s].m
         /\ UNCHANGED <<mem, chain, index, rec, store, session, page, chunk, errors, stray>>
         /\ \/ store[task[s].m] = {} /\ Told({s}, "erase", task[s].m)
            \/ store[task[s].m] # {} /\ Told({s}, "fail", task[s].m)
<1>a. /\ At(s, "abort") /\ \A i \in DOMAIN chain : chunk[chain[i]].m # task[s].m
      /\ UNCHANGED <<mem, chain, index, rec, store, session, page, chunk, errors, stray>>
  BY DEF AbortStart, durable
<1> s \in Calls
  BY DEF Calls
<1>1. CASE store[task[s].m] = {}
  BY <1>a, <1>1, Going DEF AbortStart, Pcs
<1>2. CASE store[task[s].m] # {}
  BY <1>a, <1>2, Going DEF AbortStart, Pcs
<1> QED BY <1>a, <1>1, <1>2

LEMMA EraseMoves ==
  ASSUME TypeOK, Sleep, NEW s \in Starts, EraseMeeting(s)
  PROVE  /\ At(s, "erase") /\ rec' = [rec EXCEPT ![task[s].m] = "deleted"] /\ store' = [store EXCEPT ![task[s].m] = {}] /\ index' = Without(index, task[s].m)
         /\ UNCHANGED <<chain, session, page, chunk, errors, stray>>
         /\ task[s].m \in Meetings /\ Told({s}, "done", None)
         /\ mem' \in MemoryState /\ mem'.up = mem.up /\ mem'.active = Released(task[s].m)
         /\ mem'.creating = mem.creating /\ mem'.captures = mem.captures
         /\ mem'.starting = mem.starting /\ mem'.seq = [mem.seq EXCEPT ![task[s].m] = -1]
<1>a. /\ At(s, "erase") /\ rec' = [rec EXCEPT ![task[s].m] = "deleted"] /\ store' = [store EXCEPT ![task[s].m] = {}] /\ index' = Without(index, task[s].m)
      /\ UNCHANGED <<chain, session, page, chunk, errors, stray>>
  BY DEF EraseMeeting, durable
<1> s \in Calls
  BY DEF Calls
<1>0. task \in [Calls -> CallState] /\ mem \in MemoryState
  BY TypesApart DEF CallsTyped, MemoryTyped
<1>1. Told({s}, "done", None)
  BY Going DEF EraseMeeting, Pcs
<1>2. task[s].m \in Meetings
  BY <1>0 DEF Sleep, EraseMeeting, At, CallState, Id
<1>3. PICK m \in Meetings : m = task[s].m
  BY <1>2
<1>4. mem' = [mem EXCEPT !.active = Released(m), !.seq[m] = -1]
  BY <1>3 DEF EraseMeeting
<1>5. Released(m) \in Id
  BY <1>0 DEF Released, MemoryState, Id
<1>6. /\ mem' \in MemoryState /\ mem'.up = mem.up /\ mem'.active = Released(m)
      /\ mem'.creating = mem.creating /\ mem'.captures = mem.captures
      /\ mem'.starting = mem.starting /\ mem'.seq = [mem.seq EXCEPT ![m] = -1]
  BY <1>0, <1>4, <1>5 DEF MemoryState
<1> QED BY <1>a, <1>1, <1>2, <1>3, <1>6

LEMMA FailMoves ==
  ASSUME TypeOK, NEW c \in Calls, FailRecording(c)
  PROVE  /\ At(c, "fail") /\ Update(task[c].m, "error")
         /\ UNCHANGED <<chain, index, store, session, page, chunk, errors, stray>>
         /\ Told({c}, "done", None)
         /\ Holds(Released(task[c].m), mem.creating, mem.captures, mem.starting.m)
<1>a. /\ At(c, "fail") /\ Update(task[c].m, "error")
      /\ UNCHANGED <<chain, index, store, session, page, chunk, errors, stray>>
  BY DEF FailRecording, durable
<1>1. Told({c}, "done", None)
  BY Going DEF FailRecording, Pcs
<1>2. mem \in MemoryState
  BY TypesApart DEF MemoryTyped
<1>3. mem' = [mem EXCEPT !.active = Released(task[c].m)] /\ Released(task[c].m) \in Id
  BY <1>2 DEF FailRecording, Released, MemoryState, Id
<1>4. Holds(Released(task[c].m), mem.creating, mem.captures, mem.starting.m)
  BY <1>2, <1>3 DEF Holds, MemoryState
<1> QED BY <1>a, <1>1, <1>4

LEMMA CancelHolds ==
  ASSUME TypeOK, NEW m, mem' = Cancelled(m)
  PROVE  Holds(mem.active, mem.creating, mem.captures, mem.starting.m)
<1>1. mem \in MemoryState
  BY TypesApart DEF MemoryTyped
<1>2. CASE mem.starting.m = m
  <2>1. mem' = [mem EXCEPT !.starting = [mem.starting EXCEPT !.cancelled = TRUE]]
    BY <1>2 DEF Cancelled
  <2>2. PICK old \in [m : Id, cancelled : BOOLEAN] : old = mem.starting
    BY <1>1 DEF MemoryState
  <2>3. PICK st \in [m : Id, cancelled : BOOLEAN] :
          st = [old EXCEPT !.cancelled = TRUE] /\ st.m = old.m
    <3>1. [old EXCEPT !.cancelled = TRUE] \in [m : Id, cancelled : BOOLEAN]
      OBVIOUS
    <3>2. [old EXCEPT !.cancelled = TRUE].m = old.m
      OBVIOUS
    <3> QED BY <3>1, <3>2
  <2> QED BY <1>1, <2>1, <2>2, <2>3 DEF Holds, MemoryState
<1>3. CASE mem.starting.m # m
  BY <1>1, <1>3 DEF Cancelled, Holds
<1> QED BY <1>2, <1>3

LEMMA StopMoves ==
  ASSUME TypeOK, NEW c \in Stops, StopRequested(c)
  PROVE  /\ At(c, "new")
         /\ UNCHANGED <<chain, index, rec, store, session, page, chunk, errors, stray>>
         /\ mem.active \in Meetings
         /\ Holds(mem.active, mem.creating, mem.captures, mem.starting.m)
         /\ \/ IsActive(mem.active) /\ Told({c}, "teardown", mem.active)
            \/ ~IsActive(mem.active) /\ Told({c}, "final", mem.active)
<1>a. /\ At(c, "new")
      /\ UNCHANGED <<chain, index, rec, store, session, page, chunk, errors, stray>>
  BY DEF StopRequested, durable
<1> c \in Calls
  BY DEF Calls
<1>1. mem.active \in Meetings /\ mem.active \in Id /\ mem' = Cancelled(mem.active)
  BY DEF StopRequested, Id
<1>2. CASE IsActive(mem.active)
  BY <1>a, <1>1, <1>2, Taking, CancelHolds DEF StopRequested, Pcs
<1>3. CASE ~IsActive(mem.active)
  BY <1>a, <1>1, <1>3, Taking, CancelHolds DEF StopRequested, Pcs
<1> QED BY <1>1, <1>2, <1>3

LEMMA TabMoves ==
  ASSUME TypeOK, NEW c \in Stops, TabEnded(c)
  PROVE  /\ At(c, "new")
         /\ UNCHANGED <<chain, index, rec, store, session, page, chunk, errors, stray>>
         /\ \E m \in mem.captures : Told({c}, "teardown", m)
         /\ Holds(mem.active, mem.creating, mem.captures, mem.starting.m)
<1>a. /\ At(c, "new")
      /\ UNCHANGED <<chain, index, rec, store, session, page, chunk, errors, stray>>
  BY DEF TabEnded, durable
<1> c \in Calls
  BY DEF Calls
<1>1. PICK m \in mem.captures :
        task' = [task EXCEPT ![c].pc = "teardown", ![c].m = m] /\ mem' = Cancelled(m)
  BY DEF TabEnded
<1>2. m \in Id
  BY DEF TypeOK, Id
<1> QED BY <1>a, <1>1, <1>2, Taking, CancelHolds DEF Pcs

LEMMA TeardownMoves ==
  ASSUME TypeOK, NEW c \in Calls, Teardown(c)
  PROVE  /\ At(c, "teardown")
         /\ UNCHANGED <<chain, index, rec, store, chunk, errors, stray>>
         /\ \/ StopPage /\ UNCHANGED <<mem, task, session>>
            \/ /\ PageQuiet /\ page' = Gone /\ session' = mem.captures \ {task[c].m}
               /\ Holds(mem.active, mem.creating, mem.captures \ {task[c].m}, mem.starting.m)
               /\ \/ c \in Starts /\ Told({c}, "done", None)
                  \/ c \notin Starts /\ Told({c}, "final", task[c].m)
<1>a. /\ At(c, "teardown")
      /\ UNCHANGED <<chain, index, rec, store, chunk, errors, stray>>
  BY DEF Teardown, durable
<1>0. mem \in MemoryState
  BY TypesApart DEF MemoryTyped
<1>1. c \in Starts /\ Goto(c, IF c \in Starts THEN "done" ELSE "final") => Told({c}, "done", None)
  BY Going DEF Pcs
<1>2. c \notin Starts /\ Goto(c, IF c \in Starts THEN "done" ELSE "final") => Told({c}, "final", task[c].m)
  BY Going DEF Pcs
<1>3. mem' = [mem EXCEPT !.captures = @ \ {task[c].m}]
      => Holds(mem.active, mem.creating, mem.captures \ {task[c].m}, mem.starting.m)
  BY <1>0 DEF Holds, MemoryState
<1> QED BY <1>a, <1>1, <1>2, <1>3 DEF Teardown

LEMMA FinalMoves ==
  ASSUME TypeOK, NEW c \in Stops, StopRecording(c)
  PROVE  /\ At(c, "final")
         /\ UNCHANGED <<chain, index, store, session, page, chunk, errors, stray>>
         /\ Told({c}, "done", None)
         /\ \/ /\ rec[task[c].m] \in {"recording", "deleted"} /\ Update(task[c].m, "saved")
               /\ Holds(Released(task[c].m), mem.creating, mem.captures, mem.starting.m)
            \/ rec[task[c].m] \notin {"recording", "deleted"} /\ UNCHANGED <<rec, mem>>
<1>a. /\ At(c, "final")
      /\ UNCHANGED <<chain, index, store, session, page, chunk, errors, stray>>
  BY DEF StopRecording, durable
<1>1. Told({c}, "done", None)
  BY Going DEF StopRecording, Calls, Pcs
<1>2. mem \in MemoryState
  BY TypesApart DEF MemoryTyped
<1>3. Released(task[c].m) \in Id
  BY <1>2 DEF Released, MemoryState, Id
<1>4. mem' = [mem EXCEPT !.active = Released(task[c].m)]
      => Holds(Released(task[c].m), mem.creating, mem.captures, mem.starting.m)
  BY <1>2, <1>3 DEF Holds, MemoryState
<1> QED BY <1>a, <1>1, <1>4 DEF StopRecording

LEMMA KillMoves ==
  ASSUME TypeOK, KillWorker
  PROVE  /\ mem.up /\ mem' = Asleep /\ chain' = <<>> /\ errors' = {}
         /\ UNCHANGED <<index, rec, store, session, page>>
         /\ task' \in [Calls -> CallState]
         /\ \A x \in Calls : task'[x].pc = (IF task[x].pc = "new" THEN "new" ELSE "done") /\ task'[x].m = None
<1>a. /\ mem.up /\ mem' = Asleep /\ chain' = <<>> /\ errors' = {}
      /\ UNCHANGED <<index, rec, store, session, page>>
  BY DEF KillWorker, durable
<1>1. Idle \in CallState /\ Idle.pc = "new" /\ Idle.m = None
  BY DEF Idle, CallState, Pcs, Id
<1>2. Over \in CallState /\ Over.pc = "done" /\ Over.m = None
  BY DEF Over, Idle, CallState, Pcs, Id
<1>3. task' = [c \in Calls |-> IF task[c].pc = "new" THEN Idle ELSE Over]
  BY DEF KillWorker
<1> HIDE DEF Idle, Over, CallState
<1> QED BY <1>a, <1>1, <1>2, <1>3

LEMMA ErrorMoves ==
  ASSUME TypeOK, NEW m \in Meetings, NEW fails \in BOOLEAN, CaptureError(m, fails)
  PROVE  /\ mem.up /\ <<m, fails>> \in errors
         /\ UNCHANGED <<task, chain, index, store, chunk, stray>>
         /\ \/ /\ mem.starting.m = m /\ UNCHANGED <<errors, page, session, rec>>
               /\ Holds(mem.active, mem.creating, mem.captures, mem.starting.m)
            \/ mem.starting.m # m /\ StopPage /\ UNCHANGED <<errors, mem, session, rec>>
            \/ /\ mem.starting.m # m /\ PageQuiet
               /\ errors' = errors \ {<<m, fails>>} /\ page' = Gone /\ session' = mem.captures \ {m}
               /\ Holds(IF fails THEN Released(m) ELSE mem.active, mem.creating, mem.captures \ {m}, mem.starting.m)
               /\ IF fails THEN Update(m, "error") ELSE rec' = rec
<1>a. /\ mem.up /\ <<m, fails>> \in errors
      /\ UNCHANGED <<task, chain, index, store, chunk, stray>>
  BY DEF CaptureError, durable
<1>1. mem \in MemoryState
  BY TypesApart DEF MemoryTyped
<1>2. ASSUME mem.starting = [m |-> m, cancelled |-> FALSE], mem' = [mem EXCEPT !.starting.cancelled = TRUE]
      PROVE  mem.starting.m = m /\ Holds(mem.active, mem.creating, mem.captures, mem.starting.m)
  <2>1. mem.starting.m = m
    BY <1>2
  <2>2. mem' = Cancelled(m)
    BY <1>2, <2>1 DEF Cancelled
  <2> QED BY <2>1, <2>2, CancelHolds
<1>3. PICK a \in Id : a = IF fails THEN Released(m) ELSE mem.active
  BY <1>1 DEF Released, MemoryState, Id
<1>4. mem' = [mem EXCEPT !.captures = @ \ {m}, !.active = IF fails THEN Released(m) ELSE @]
      => Holds(a, mem.creating, mem.captures \ {m}, mem.starting.m)
  BY <1>1, <1>3 DEF Holds, MemoryState
<1> QED BY <1>a, <1>2, <1>3, <1>4 DEF CaptureError

LEMMA SettleMoves ==
  ASSUME TypeOK, SettleLostCaptures
  PROVE  /\ mem.up /\ LostCaptures # {} /\ session' = {}
         /\ UNCHANGED <<task, chain, index, store, page, chunk, errors, stray>>
         /\ Holds(IF mem.active \in LostCaptures THEN None ELSE mem.active, mem.creating, {}, mem.starting.m)
<1>a. /\ mem.up /\ LostCaptures # {} /\ session' = {}
      /\ UNCHANGED <<task, chain, index, store, page, chunk, errors, stray>>
  BY DEF SettleLostCaptures, durable
<1>1. mem \in MemoryState
  BY TypesApart DEF MemoryTyped
<1>2. PICK a \in Id : a = IF mem.active \in LostCaptures THEN None ELSE mem.active
  BY <1>1 DEF MemoryState, Id
<1>3. mem' = [mem EXCEPT !.captures = {}, !.active = a]
  BY <1>2 DEF SettleLostCaptures
<1> QED BY <1>a, <1>1, <1>2, <1>3 DEF Holds, MemoryState

LEMMA ReceiveMoves ==
  ASSUME TypeOK, Audio, NEW c \in Chunks, ReceiveChunk(c)
  PROVE  /\ mem.up /\ chunk[c].state = "sent"
         /\ UNCHANGED <<task, index, rec, store, session, page, errors, stray>>
         /\ \E captures \in SUBSET Meetings :
              /\ \/ captures = mem.captures
                 \/ mem.active = chunk[c].m /\ captures = mem.captures \cup {chunk[c].m}
              /\ \/ chunk[c].m \in captures /\ Move(c, "queued") /\ chain' = Append(chain, c)
                 \/ chunk[c].m \notin captures /\ Move(c, "saved") /\ chain' = chain
              /\ Holds(mem.active, mem.creating, captures, mem.starting.m)
<1>a. /\ mem.up /\ chunk[c].state = "sent"
      /\ UNCHANGED <<task, index, rec, store, session, page, errors, stray>>
  BY DEF ReceiveChunk, durable
<1>0. mem \in MemoryState /\ chunk \in [Chunks -> ChunkState]
  BY TypesApart DEF MemoryTyped, ChunksTyped
<1>1. PICK captures \in {mem.captures, mem.captures \cup {chunk[c].m}} :
        /\ captures = IF ~IsActive(chunk[c].m) /\ mem.active = chunk[c].m
                      THEN mem.captures \cup {chunk[c].m} ELSE mem.captures
        /\ \/ chunk[c].m \in captures /\ Move(c, "queued") /\ chain' = Append(chain, c)
           \/ chunk[c].m \notin captures /\ Move(c, "saved") /\ chain' = chain
        /\ mem' = [mem EXCEPT !.captures = captures]
  BY DEF ReceiveChunk
<1>2. captures \in SUBSET Meetings
  <2>1. chunk[c].m # None
    BY DEF Audio, Born, ReceiveChunk
  <2>2. chunk[c].m \in Meetings /\ mem.captures \subseteq Meetings
    BY <1>0, <2>1 DEF ChunkState, MemoryState, Id
  <2> QED BY <1>1, <2>2
<1>3. Holds(mem.active, mem.creating, captures, mem.starting.m)
  BY <1>0, <1>1, <1>2 DEF Holds, MemoryState
<1> QED BY <1>a, <1>1, <1>2, <1>3

\* The next number is beyond those of the chunks stored.
LEMMA LastNumber ==
  ASSUME TypeOK, Numbered, NEW m \in Meetings
  PROVE  LastSequence(m) + 1 \in Nat /\ \A e \in store[m] : e[2] < LastSequence(m) + 1
<1>1. store[m] \subseteq Chunks \X Nat
  BY TypesApart DEF StoreTyped
<1>2. CASE store[m] = {}
  BY <1>2 DEF LastSequence
<1>3. CASE store[m] # {}
  <2> DEFINE N == {e[2] : e \in store[m]}
  <2>1. \E n \in N : \A e \in store[m] : e[2] <= n
    BY <1>3 DEF Numbered
  <2>2. LastSequence(m) \in N /\ \A e \in store[m] : e[2] <= LastSequence(m)
    BY <1>3, <2>1 DEF LastSequence
  <2>3. \A e \in store[m] : e[2] \in Nat
    BY <1>1
  <2> QED BY <2>2, <2>3
<1> QED BY <1>2, <1>3

LEMMA NextNumber ==
  ASSUME TypeOK, Numbered, NEW m \in Meetings
  PROVE  NextSequence(m) \in Nat /\ \A e \in store[m] : e[2] < NextSequence(m)
<1>1. mem.seq[m] \in Nat \cup {-1}
  BY TypesApart DEF MemoryTyped, MemoryState
<1>2. CASE mem.seq[m] >= 0
  BY <1>1, <1>2 DEF NextSequence, Numbered
<1>3. CASE ~(mem.seq[m] >= 0)
  BY <1>3, LastNumber DEF NextSequence
<1> QED BY <1>2, <1>3

\* The head of the write chain is a chunk that the worker has received.
LEMMA ChainHead ==
  ASSUME TypeOK, Audio, chain # <<>>
  PROVE  /\ Head(chain) \in Chunks /\ chunk[Head(chain)].m \in Meetings
         /\ chunk[Head(chain)].state \in {"queued", "lost"}
         /\ Tail(chain) \in Seq(Chunks)
         /\ \A i \in DOMAIN Tail(chain) : i + 1 \in DOMAIN chain /\ Tail(chain)[i] = chain[i + 1]
         /\ \A i \in DOMAIN Tail(chain) : Tail(chain)[i] # Head(chain)
<1>1. chain \in Seq(Chunks) /\ chunk \in [Chunks -> ChunkState]
  BY TypesApart DEF ChunksTyped
<1>2. Head(chain) = chain[1] /\ 1 \in DOMAIN chain /\ Head(chain) \in Chunks
  BY <1>1, HeadTailProperties
<1>3. Tail(chain) \in Seq(Chunks) /\ \A i \in DOMAIN Tail(chain) : i + 1 \in DOMAIN chain /\ Tail(chain)[i] = chain[i + 1]
  BY <1>1
<1>4. chunk[Head(chain)].state \in {"queued", "lost"} /\ chunk[Head(chain)].m # None
  BY <1>2 DEF Audio, Born, Chained
<1>5. chunk[Head(chain)].m \in Meetings
  BY <1>1, <1>2, <1>4 DEF ChunkState, Id
<1>6. \A i \in DOMAIN Tail(chain) : i + 1 # 1
  BY <1>1, <1>3
<1>7. \A i \in DOMAIN Tail(chain) : Tail(chain)[i] # Head(chain)
  BY <1>2, <1>3, <1>6 DEF Audio, Born, Chained
<1> QED BY <1>2, <1>3, <1>4, <1>5, <1>7

LEMMA WriteMoves ==
  ASSUME TypeOK, Audio, Numbered, WriteChunk
  PROVE  /\ mem.up /\ chain # <<>> /\ chain' = Tail(chain)
         /\ UNCHANGED <<task, index, rec, session, page, errors, stray>>
         /\ LET m == chunk[Head(chain)].m IN
            /\ mem' \in MemoryState /\ mem'.up = mem.up /\ mem'.active = mem.active
            /\ mem'.creating = mem.creating /\ mem'.captures = mem.captures
            /\ mem'.starting = mem.starting /\ mem'.seq = [mem.seq EXCEPT ![m] = NextSequence(m) + 1]
<1>a. /\ mem.up /\ chain # <<>> /\ chain' = Tail(chain)
      /\ UNCHANGED <<task, index, rec, session, page, errors, stray>>
  BY DEF WriteChunk, durable
<1>1. mem \in MemoryState
  BY TypesApart DEF MemoryTyped
<1>2. PICK m \in Meetings : m = chunk[Head(chain)].m
  BY ChainHead DEF WriteChunk
<1>3. PICK n \in Nat : n = NextSequence(m) + 1
  BY NextNumber
<1>4. mem' = [mem EXCEPT !.seq[m] = n]
  BY <1>2, <1>3 DEF WriteChunk
<1> QED BY <1>a, <1>1, <1>2, <1>3, <1>4 DEF MemoryState

LEMMA RefuseMoves ==
  ASSUME TypeOK, Audio, Numbered, WriteFails
  PROVE  /\ mem.up /\ chain # <<>> /\ chain' = Tail(chain)
         /\ UNCHANGED <<task, index, store, session, page, stray>>
         /\ LET m == chunk[Head(chain)].m IN
            /\ mem' \in MemoryState /\ mem'.up = mem.up /\ mem'.active = Released(m)
            /\ mem'.creating = mem.creating /\ mem'.captures = mem.captures
            /\ mem'.starting = mem.starting /\ mem'.seq = [mem.seq EXCEPT ![m] = NextSequence(m) + 1]
<1>a. /\ mem.up /\ chain # <<>> /\ chain' = Tail(chain)
      /\ UNCHANGED <<task, index, store, session, page, stray>>
  BY DEF WriteFails, durable
<1>1. mem \in MemoryState
  BY TypesApart DEF MemoryTyped
<1>2. PICK m \in Meetings : m = chunk[Head(chain)].m
  BY ChainHead DEF WriteFails
<1>3. PICK n \in Nat : n = NextSequence(m) + 1
  BY NextNumber
<1>4. mem' = [mem EXCEPT !.seq[m] = n, !.active = Released(m)] /\ Released(m) \in Id
  BY <1>1, <1>2, <1>3 DEF WriteFails, Released, MemoryState, Id
<1> QED BY <1>a, <1>1, <1>2, <1>3, <1>4 DEF MemoryState

LEMMA AsleepTyped == Asleep \in MemoryState /\ Asleep.active = None /\ Asleep.creating = None
                     /\ Asleep.captures = {} /\ Asleep.starting.m = None
                     /\ Asleep.seq \in [Meetings -> {-1}]
  BY DEF Asleep, NotStarting, MemoryState, Id

LEMMA WakeMoves ==
  ASSUME TypeOK, Numbered, WakeWorker
  PROVE  /\ ~mem.up
         /\ UNCHANGED <<task, chain, index, store, page, chunk, errors, stray>>
         /\ LET live == Latest # None /\ rec[Latest] = "recording" /\ Latest \in Restored IN
            /\ mem' \in MemoryState /\ mem'.up /\ mem'.active = IF live THEN Latest ELSE None
            /\ mem'.creating = None /\ mem'.captures = Restored /\ mem'.starting.m = None
            /\ session' = Restored /\ Restored \subseteq Meetings /\ Restored \in {{}, session}
            /\ rec' = OrphanSaved(Latest, live)
            /\ \A m \in Meetings : mem'.seq[m] \in {-1, LastSequence(m) + 1}
<1>a. /\ ~mem.up
      /\ UNCHANGED <<task, chain, index, store, page, chunk, errors, stray>>
  BY DEF WakeWorker, durable
<1> DEFINE live == Latest # None /\ rec[Latest] = "recording" /\ Latest \in Restored
<1>1. Restored \subseteq Meetings /\ Restored \in {{}, session} /\ session' = Restored /\ rec' = OrphanSaved(Latest, live)
  BY TypesApart DEF WakeWorker, Restored, RecordsTyped
<1>2. PICK a \in Id : a = IF live THEN Latest ELSE None
  BY <1>1 DEF Id
<1>3. PICK q \in [Meetings -> Nat \cup {-1}] :
        /\ q = IF live THEN [Asleep.seq EXCEPT ![Latest] = LastSequence(Latest) + 1] ELSE Asleep.seq
        /\ \A m \in Meetings : q[m] \in {-1, LastSequence(m) + 1}
  <2>1. CASE live
    <3>1. Latest \in Meetings /\ LastSequence(Latest) + 1 \in Nat
      BY <1>1, <2>1, LastNumber
    <3>2. PICK old \in [Meetings -> {-1}] : old = Asleep.seq
      BY AsleepTyped
    <3>3. PICK q \in [Meetings -> Nat \cup {-1}] : q = [old EXCEPT ![Latest] = LastSequence(Latest) + 1]
      BY <3>1
    <3>4. \A m \in Meetings : q[m] \in {-1, LastSequence(m) + 1}
      BY <3>3
    <3> QED BY <2>1, <3>2, <3>3, <3>4
  <2>2. CASE ~live
    BY <2>2, AsleepTyped
  <2> QED BY <2>1, <2>2
<1>4. mem' = [Asleep EXCEPT !.up = TRUE, !.active = a, !.captures = Restored, !.seq = q]
  BY <1>2, <1>3 DEF WakeWorker
<1> HIDE DEF live
<1>5. /\ mem' \in MemoryState /\ mem'.up /\ mem'.active = a /\ mem'.creating = None
      /\ mem'.captures = Restored /\ mem'.starting.m = None /\ mem'.seq = q
  BY <1>1, <1>4, AsleepTyped DEF MemoryState
<1> QED BY <1>a, <1>1, <1>2, <1>3, <1>5 DEF live

-----------------------------------------------------------------------------
(* The index without a meeting.                                             *)

LEMMA WithoutIndex ==
  ASSUME NEW s \in Seq(Meetings), NEW m \in Meetings
  PROVE  /\ Without(s, m) \in Seq(Meetings)
         /\ s # <<>> /\ s[Len(s)] # m => Without(s, m) # <<>> /\ Without(s, m)[Len(Without(s, m))] = s[Len(s)]
<1>1. CASE ~\E i \in DOMAIN s : s[i] = m
  BY <1>1 DEF Without
<1>2. CASE \E i \in DOMAIN s : s[i] = m
  <2>1. PICK i \in DOMAIN s : i = PlaceOf(s, m) /\ s[i] = m
    BY <1>2 DEF PlaceOf
  <2>2. i \in 1..Len(s) /\ Len(s) \in Nat
    OBVIOUS
  <2> DEFINE a == SubSeq(s, 1, i - 1)
             b == SubSeq(s, i + 1, Len(s))
  <2>3. a \in Seq(Meetings) /\ Len(a) = i - 1
    BY <2>2, SubSeqProperties
  <2>4. b \in Seq(Meetings) /\ Len(b) = Len(s) - i /\ \A k \in 1..Len(b) : b[k] = s[i + k]
    BY <2>2, SubSeqProperties
  <2>5. Without(s, m) = a \o b
    BY <1>2, <2>1 DEF Without
  <2> HIDE DEF a, b
  <2>6. /\ a \o b \in Seq(Meetings) /\ Len(a \o b) = Len(a) + Len(b)
        /\ \A k \in 1..(Len(a) + Len(b)) : (a \o b)[k] = IF k <= Len(a) THEN a[k] ELSE b[k - Len(a)]
    BY <2>3, <2>4, ConcatProperties
  <2>7. ASSUME s # <<>>, s[Len(s)] # m
        PROVE  a \o b # <<>> /\ (a \o b)[Len(s) - 1] = s[Len(s)]
    <3>1. i < Len(s)
      BY <2>1, <2>2, <2>7
    <3>0. Len(b) = Len(s) - i /\ Len(s) \in Nat /\ i \in Nat
      BY <2>2, <2>4
    <3>a. PICK n \in Nat : n = Len(s)
      BY <3>0
    <3>b. n - i \in 1..(n - i) /\ i + (n - i) = n
      BY <3>0, <3>1, <3>a
    <3>2. Len(s) - i \in 1..Len(b) /\ i + (Len(s) - i) = Len(s)
      BY <3>0, <3>a, <3>b
    <3>3. b[Len(s) - i] = s[Len(s)]
      BY <2>4, <3>2
    <3>4. Len(s) - 1 \in 1..(Len(a) + Len(b)) /\ ~(Len(s) - 1 <= Len(a)) /\ (Len(s) - 1) - Len(a) = Len(s) - i
      BY <2>2, <2>3, <2>4, <3>1
    <3>5. (a \o b)[Len(s) - 1] = b[Len(s) - i]
      BY <2>6, <3>4
    <3>6. a \o b # <<>>
      BY <2>2, <2>3, <2>4, <2>6, <3>1
    <3> QED BY <3>3, <3>5, <3>6
  <2>8. Len(a \o b) = Len(s) - 1
    BY <2>2, <2>3, <2>4, <2>6
  <2> QED BY <2>5, <2>6, <2>7, <2>8
<1> QED BY <1>1, <1>2

LEMMA Updating ==
  ASSUME TypeOK, NEW m, NEW status, Update(m, status)
  PROVE  \A x \in Meetings :
           rec'[x] = IF x = m /\ rec[x] \notin {"none", "deleted"} THEN status ELSE rec[x]
  BY TypesApart DEF RecordsTyped, Update

\* What everything that names a meeting names.
LEMMA Ids ==
  ASSUME TypeOK
  PROVE  /\ \A c \in Calls : task[c].m \in Meetings \cup {None}
         /\ \A c \in Chunks : chunk[c].m \in Meetings \cup {None}
         /\ mem.active \in Meetings \cup {None} /\ mem.creating \in Meetings \cup {None}
         /\ mem.starting.m \in Meetings \cup {None} /\ page.m \in Meetings \cup {None}
         /\ mem.captures \subseteq Meetings /\ session \subseteq Meetings
         /\ \A e \in errors : e[1] \in Meetings
  BY TypesApart DEF CallsTyped, CallState, ChunksTyped, ChunkState, MemoryTyped, MemoryState, PageTyped, PageState,
                    RecordsTyped, RestTyped, Id

\* The meeting that an error is about.
LEMMA ErrorOf == \A m : <<m, TRUE>>[1] = m /\ <<m, FALSE>>[1] = m
<1>1. \A m, b : <<m, b>>[1] = m
  OBVIOUS
<1> QED BY <1>1

LEMMA Extending ==
  ASSUME NEW s \in Seq(Chunks), NEW c \in Chunks
  PROVE  \A i \in DOMAIN Append(s, c) :
           (i \in DOMAIN s /\ Append(s, c)[i] = s[i]) \/ (i = Len(s) + 1 /\ Append(s, c)[i] = c)
<1>1. DOMAIN s = 1..Len(s) /\ Len(s) \in Nat
  OBVIOUS
<1>2. ASSUME NEW n \in Nat, NEW i \in 1..(n + 1) PROVE i \in 1..n \/ (~(i <= n) /\ i = n + 1)
  OBVIOUS
<1>3. /\ DOMAIN Append(s, c) = 1..(Len(s) + 1)
      /\ \A i \in 1..(Len(s) + 1) : Append(s, c)[i] = IF i <= Len(s) THEN s[i] ELSE c
  OBVIOUS
<1> QED BY <1>1, <1>2, <1>3
LEMMA CallsTypedStep ==
  ASSUME Inv, [Next]_vars
  PROVE  CallsTyped'
<1>. USE RecorderAssumption, TypesApart DEF Inv
<1>1. ASSUME NEW s \in Starts, StartRequested(s) PROVE CallsTyped'
  BY <1>1, StartRequestedMoves DEF CallsTyped, At, Told, Holds, Calls
<1>2. ASSUME NEW s \in Starts, CreateMeeting(s) PROVE CallsTyped'
  BY <1>2, CreateMoves DEF CallsTyped, At, Shares, Follows, Joins, Creates, Unused, Told, Holds, Calls
<1>3. ASSUME NEW s \in Starts, SaveMeeting(s) PROVE CallsTyped'
  BY <1>3, SaveMoves DEF CallsTyped, At, Calls
<1>4. ASSUME NEW s \in Starts, Prepare(s) PROVE CallsTyped'
  BY <1>4, PrepareMoves DEF CallsTyped, At, Told, Waiting, Holds, Calls
<1>5. ASSUME NEW s \in Starts, OpenPage(s) PROVE CallsTyped'
  BY <1>5, OpenMoves DEF CallsTyped, At, Told, Holds, Calls
<1>6. ASSUME NEW s \in Starts, CapturePage(s) PROVE CallsTyped'
  BY <1>6, CaptureMoves DEF CallsTyped, At, Told, Holds, Calls
<1>7. ASSUME NEW s \in Starts, PersistCaptures(s) PROVE CallsTyped'
  BY <1>7, PersistMoves DEF CallsTyped, At, Told, Waiting, Holds, Calls
<1>8. ASSUME NEW s \in Starts, UndoCapture(s) PROVE CallsTyped'
  BY <1>8, UndoMoves DEF CallsTyped, At, StopPage, PageQuiet, Gone, Told, Waiting, Holds, Calls
<1>9. ASSUME NEW s \in Starts, AbortStart(s) PROVE CallsTyped'
  BY <1>9, AbortMoves DEF CallsTyped, At, Told, Holds, Calls
<1>10. ASSUME NEW s \in Starts, EraseMeeting(s) PROVE CallsTyped'
  BY <1>10, EraseMoves DEF CallsTyped, At, Released, Told, Calls
<1>11. ASSUME NEW c \in Stops, StopRequested(c) PROVE CallsTyped'
  BY <1>11, StopMoves DEF CallsTyped, At, IsActive, Told, Holds, Calls
<1>12. ASSUME NEW c \in Stops, TabEnded(c) PROVE CallsTyped'
  BY <1>12, TabMoves DEF CallsTyped, At, Told, Holds, Calls
<1>13. ASSUME NEW c \in Stops, StopRecording(c) PROVE CallsTyped'
  BY <1>13, FinalMoves, Updating DEF CallsTyped, At, Released, Told, Holds, Calls
<1>14. ASSUME NEW c \in Calls, Teardown(c) PROVE CallsTyped'
  BY <1>14, TeardownMoves DEF CallsTyped, At, StopPage, PageQuiet, Gone, Told, Holds
<1>15. ASSUME NEW c \in Calls, FailRecording(c) PROVE CallsTyped'
  BY <1>15, FailMoves, Updating DEF CallsTyped, At, Released, Told, Holds
<1>16. ASSUME KillWorker PROVE CallsTyped'
  BY <1>16, KillMoves, AsleepTyped DEF CallsTyped, KillWorker, durable
<1>17. ASSUME NEW m \in Meetings, NEW fails \in BOOLEAN, CaptureError(m, fails)
      PROVE  CallsTyped'
  BY <1>17 DEF CallsTyped, CaptureError, durable
<1>18. ASSUME NEW c \in Chunks, EmitChunk(c) \/ ReceiveChunk(c) \/ ChunkAnswered(c) \/ ResendChunk(c) \/
         LoseChunk(c)
      PROVE  CallsTyped'
  BY <1>18 DEF CallsTyped, EmitChunk, ReceiveChunk, ChunkAnswered, ResendChunk, LoseChunk, durable
<1>19. ASSUME WriteChunk \/ WriteFails \/ PageStopped \/ SettleLostCaptures \/ PageCrashes \/ WakeWorker
      PROVE  CallsTyped'
  BY <1>19 DEF CallsTyped, WriteChunk, WriteFails, PageStopped, SettleLostCaptures, PageCrashes, WakeWorker,
     durable
<1>20. CASE UNCHANGED vars
  BY <1>20 DEF vars, durable, CallsTyped
<1> QED BY <1>1, <1>2, <1>3, <1>4, <1>5, <1>6, <1>7, <1>8, <1>9, <1>10, <1>11, <1>12, <1>13, <1>14, <1>15,
         <1>16, <1>17, <1>18, <1>19, <1>20 DEF Next, StartStep, StopStep, PageStep

LEMMA MemoryTypedStep ==
  ASSUME Inv, [Next]_vars
  PROVE  MemoryTyped'
<1>. USE RecorderAssumption, TypesApart DEF Inv
<1>1. ASSUME NEW s \in Starts, CreateMeeting(s) PROVE MemoryTyped'
  BY <1>1, CreateMoves DEF MemoryTyped, At, Shares, Follows, Joins, Creates, Unused, Told, Holds, Calls
<1>2. ASSUME NEW s \in Starts, SaveMeeting(s) PROVE MemoryTyped'
  BY <1>2, SaveMoves DEF MemoryTyped, At, Calls
<1>3. ASSUME NEW s \in Starts, Prepare(s) PROVE MemoryTyped'
  BY <1>3, PrepareMoves DEF MemoryTyped, At, Told, Waiting, Holds, Calls
<1>4. ASSUME NEW s \in Starts, PersistCaptures(s) PROVE MemoryTyped'
  BY <1>4, PersistMoves DEF MemoryTyped, At, Told, Waiting, Holds, Calls
<1>5. ASSUME NEW s \in Starts, UndoCapture(s) PROVE MemoryTyped'
  BY <1>5, UndoMoves DEF MemoryTyped, At, StopPage, PageQuiet, Gone, Told, Waiting, Holds, Calls
<1>6. ASSUME NEW s \in Starts, EraseMeeting(s) PROVE MemoryTyped'
  BY <1>6, EraseMoves DEF MemoryTyped, At, Released, Told, Calls
<1>7. ASSUME NEW c \in Stops, StopRequested(c) PROVE MemoryTyped'
  BY <1>7, StopMoves DEF MemoryTyped, At, IsActive, Told, Holds, Calls
<1>8. ASSUME NEW c \in Stops, TabEnded(c) PROVE MemoryTyped'
  BY <1>8, TabMoves DEF MemoryTyped, At, Told, Holds, Calls
<1>9. ASSUME NEW c \in Stops, StopRecording(c) PROVE MemoryTyped'
  BY <1>9, FinalMoves, Updating DEF MemoryTyped, At, Released, Told, Holds, Calls
<1>10. ASSUME NEW c \in Calls, Teardown(c) PROVE MemoryTyped'
  BY <1>10, TeardownMoves DEF MemoryTyped, At, StopPage, PageQuiet, Gone, Told, Holds
<1>11. ASSUME NEW c \in Calls, FailRecording(c) PROVE MemoryTyped'
  BY <1>11, FailMoves, Updating DEF MemoryTyped, At, Released, Told, Holds
<1>12. ASSUME NEW m \in Meetings, NEW fails \in BOOLEAN, CaptureError(m, fails) PROVE MemoryTyped'
  BY <1>12, ErrorMoves, Updating DEF MemoryTyped, StopPage, PageQuiet, Gone, Released, Holds
<1>13. ASSUME NEW c \in Chunks, ReceiveChunk(c) PROVE MemoryTyped'
  BY <1>13, ReceiveMoves DEF MemoryTyped, Move, Holds
<1>14. ASSUME WriteChunk PROVE MemoryTyped'
  BY <1>14, WriteMoves, ChainHead DEF MemoryTyped, WriteChunk, Answer, KeepFirst, durable
<1>15. ASSUME WriteFails PROVE MemoryTyped'
  BY <1>15, RefuseMoves, ChainHead, Updating DEF MemoryTyped, WriteFails, Answer, Released,
     StopAfterRefusal, durable
<1>16. ASSUME SettleLostCaptures PROVE MemoryTyped'
  BY <1>16, SettleMoves DEF MemoryTyped, SettleLostCaptures, LostCaptures, Holds, durable
<1>17. ASSUME KillWorker PROVE MemoryTyped'
  BY <1>17, KillMoves, AsleepTyped DEF MemoryTyped, KillWorker, durable
<1>18. ASSUME WakeWorker PROVE MemoryTyped'
  BY <1>18, WakeMoves DEF MemoryTyped, OrphanSaved
<1>19. ASSUME NEW s \in Starts, StartRequested(s) \/ OpenPage(s) \/ CapturePage(s) \/ AbortStart(s)
      PROVE  MemoryTyped'
  BY <1>19 DEF MemoryTyped, StartRequested, OpenPage, CapturePage, AbortStart, durable
<1>20. ASSUME NEW c \in Chunks, EmitChunk(c) \/ ChunkAnswered(c) \/ ResendChunk(c) \/ LoseChunk(c)
      PROVE  MemoryTyped'
  BY <1>20 DEF MemoryTyped, EmitChunk, ChunkAnswered, ResendChunk, LoseChunk, durable
<1>21. ASSUME PageStopped \/ PageCrashes
      PROVE  MemoryTyped'
  BY <1>21 DEF MemoryTyped, PageStopped, PageCrashes, durable
<1>22. CASE UNCHANGED vars
  BY <1>22 DEF vars, durable, MemoryTyped
<1> QED BY <1>1, <1>2, <1>3, <1>4, <1>5, <1>6, <1>7, <1>8, <1>9, <1>10, <1>11, <1>12, <1>13, <1>14, <1>15,
         <1>16, <1>17, <1>18, <1>19, <1>20, <1>21, <1>22 DEF Next, StartStep, StopStep, PageStep

LEMMA ChunksTypedStep ==
  ASSUME Inv, [Next]_vars
  PROVE  ChunksTyped'
<1>. USE RecorderAssumption, TypesApart DEF Inv
<1>1. ASSUME NEW c \in Chunks, EmitChunk(c) PROVE ChunksTyped'
  BY <1>1 DEF ChunksTyped, ChunkState, EmitChunk, PageTyped, PageState, durable
<1>2. ASSUME NEW c \in Chunks, ReceiveChunk(c) PROVE ChunksTyped'
  <2>1. chunk \in [Chunks -> ChunkState] /\ chain \in Seq(Chunks)
    BY DEF ChunksTyped
  <2>2. chain' \in Seq(Chunks)
    <3>1. chain' = chain \/ chain' = Append(chain, c)
      BY <1>2, ReceiveMoves
    <3> QED BY <2>1, <3>1
  <2>3. chunk' = [chunk EXCEPT ![c].state = "queued"] \/ chunk' = [chunk EXCEPT ![c].state = "saved"]
    BY <1>2, ReceiveMoves DEF Move
  <2> QED BY <2>1, <2>2, <2>3 DEF ChunksTyped, ChunkState
<1>3. ASSUME NEW c \in Chunks, ChunkAnswered(c) PROVE ChunksTyped'
  BY <1>3 DEF ChunksTyped, ChunkState, ChunkAnswered, Move, durable
<1>4. ASSUME NEW c \in Chunks, ResendChunk(c) PROVE ChunksTyped'
  BY <1>4 DEF ChunksTyped, ChunkState, ResendChunk, Move, durable
<1>5. ASSUME NEW c \in Chunks, LoseChunk(c) PROVE ChunksTyped'
  BY <1>5 DEF ChunksTyped, ChunkState, LoseChunk, Move, durable
<1>6. ASSUME WriteChunk PROVE ChunksTyped'
  BY <1>6, WriteMoves, ChainHead DEF ChunksTyped, ChunkState, WriteChunk, Answer, KeepFirst, durable
<1>7. ASSUME WriteFails PROVE ChunksTyped'
  BY <1>7, RefuseMoves, ChainHead, Updating DEF ChunksTyped, ChunkState, WriteFails, Answer, Released,
     StopAfterRefusal, durable
<1>8. ASSUME PageCrashes PROVE ChunksTyped'
  BY <1>8 DEF ChunksTyped, ChunkState, PageCrashes, Gone, durable
<1>9. ASSUME KillWorker PROVE ChunksTyped'
  BY <1>9, KillMoves, AsleepTyped DEF ChunksTyped, ChunkState, KillWorker, durable
<1>10. ASSUME NEW s \in Starts, StartRequested(s) \/ CreateMeeting(s) \/ SaveMeeting(s) \/ Prepare(s) \/
         OpenPage(s) \/ CapturePage(s) \/ PersistCaptures(s) \/ UndoCapture(s) \/ AbortStart(s) \/
         EraseMeeting(s)
      PROVE  ChunksTyped'
  BY <1>10 DEF ChunksTyped, ChunkState, StartRequested, CreateMeeting, SaveMeeting, Prepare, OpenPage,
     CapturePage, PersistCaptures, UndoCapture, AbortStart, EraseMeeting, durable
<1>11. ASSUME NEW c \in Stops, StopRequested(c) \/ TabEnded(c) \/ StopRecording(c)
      PROVE  ChunksTyped'
  BY <1>11 DEF ChunksTyped, ChunkState, StopRequested, TabEnded, StopRecording, durable
<1>12. ASSUME NEW c \in Calls, Teardown(c) \/ FailRecording(c)
      PROVE  ChunksTyped'
  BY <1>12 DEF ChunksTyped, ChunkState, Teardown, FailRecording, durable
<1>13. ASSUME NEW m \in Meetings, NEW fails \in BOOLEAN, CaptureError(m, fails)
      PROVE  ChunksTyped'
  BY <1>13 DEF ChunksTyped, ChunkState, CaptureError, durable
<1>14. ASSUME PageStopped \/ SettleLostCaptures \/ WakeWorker
      PROVE  ChunksTyped'
  BY <1>14 DEF ChunksTyped, ChunkState, PageStopped, SettleLostCaptures, WakeWorker, durable
<1>15. CASE UNCHANGED vars
  BY <1>15 DEF vars, durable, ChunksTyped, ChunkState
<1> QED BY <1>1, <1>2, <1>3, <1>4, <1>5, <1>6, <1>7, <1>8, <1>9, <1>10, <1>11, <1>12, <1>13, <1>14, <1>15
         DEF Next, StartStep, StopStep, PageStep

LEMMA RecordsTypedStep ==
  ASSUME Inv, [Next]_vars
  PROVE  RecordsTyped'
<1>. USE RecorderAssumption, TypesApart DEF Inv
<1>1. ASSUME NEW s \in Starts, SaveMeeting(s) PROVE RecordsTyped'
  <2>1. index \in Seq(Meetings) /\ rec \in [Meetings -> Status] /\ session \subseteq Meetings
    BY DEF RecordsTyped
  <2>2. index' = Append(index, task[s].m) /\ rec' = [rec EXCEPT ![task[s].m] = "recording"] /\ session' = session
    BY <1>1 DEF SaveMeeting
  <2>3. task[s].m \in Meetings
    BY <1>1, SaveMoves
  <2> QED BY <2>1, <2>2, <2>3 DEF RecordsTyped, Status
<1>2. ASSUME NEW s \in Starts, PersistCaptures(s) PROVE RecordsTyped'
  BY <1>2, PersistMoves DEF RecordsTyped, Status, At, Told, Waiting, Holds, Calls, MemoryTyped, MemoryState
<1>3. ASSUME NEW s \in Starts, UndoCapture(s) PROVE RecordsTyped'
  BY <1>3, UndoMoves DEF RecordsTyped, Status, At, StopPage, PageQuiet, Gone, Told, Waiting, Holds, Calls,
     MemoryTyped, MemoryState
<1>4. ASSUME NEW s \in Starts, EraseMeeting(s) PROVE RecordsTyped'
  <2>1. index \in Seq(Meetings) /\ rec \in [Meetings -> Status] /\ session \subseteq Meetings
    BY DEF RecordsTyped
  <2>2. index' = Without(index, task[s].m) /\ rec' = [rec EXCEPT ![task[s].m] = "deleted"] /\ session' = session
    BY <1>4 DEF EraseMeeting
  <2>3. task[s].m \in Meetings
    BY <1>4, EraseMoves
  <2> QED BY <2>1, <2>2, <2>3, WithoutIndex DEF RecordsTyped, Status
<1>5. ASSUME NEW c \in Stops, StopRecording(c) PROVE RecordsTyped'
  BY <1>5, FinalMoves, Updating DEF RecordsTyped, Status, At, Released, Told, Holds, Calls, Update
<1>6. ASSUME NEW c \in Calls, Teardown(c) PROVE RecordsTyped'
  BY <1>6, TeardownMoves DEF RecordsTyped, Status, At, StopPage, PageQuiet, Gone, Told, Holds, MemoryTyped,
     MemoryState
<1>7. ASSUME NEW c \in Calls, FailRecording(c) PROVE RecordsTyped'
  BY <1>7, FailMoves, Updating DEF RecordsTyped, Status, At, Released, Told, Holds, Update
<1>8. ASSUME NEW m \in Meetings, NEW fails \in BOOLEAN, CaptureError(m, fails) PROVE RecordsTyped'
  <2>1. index \in Seq(Meetings) /\ rec \in [Meetings -> Status] /\ session \subseteq Meetings
    BY DEF RecordsTyped
  <2>2. index' = index /\ (rec' = rec \/ Update(m, "error"))
    BY <1>8, ErrorMoves DEF CaptureError
  <2>3. session' = session \/ session' = mem.captures \ {m}
    BY <1>8, ErrorMoves
  <2>4. session' \subseteq Meetings
    BY <2>1, <2>3 DEF MemoryTyped, MemoryState
  <2>5. rec' \in [Meetings -> Status]
    BY <2>1, <2>2 DEF Update, Status
  <2> QED BY <2>1, <2>2, <2>4, <2>5 DEF RecordsTyped
<1>9. ASSUME WriteFails PROVE RecordsTyped'
  BY <1>9, RefuseMoves, ChainHead, Updating DEF RecordsTyped, Status, WriteFails, Answer, Released,
     StopAfterRefusal, Update, durable
<1>10. ASSUME SettleLostCaptures PROVE RecordsTyped'
  BY <1>10, SettleMoves DEF RecordsTyped, Status, SettleLostCaptures, LostCaptures, Holds, durable
<1>11. ASSUME WakeWorker PROVE RecordsTyped'
  BY <1>11, WakeMoves DEF RecordsTyped, Status, OrphanSaved
<1>12. ASSUME NEW s \in Starts, StartRequested(s) \/ CreateMeeting(s) \/ Prepare(s) \/ OpenPage(s) \/
         CapturePage(s) \/ AbortStart(s)
      PROVE  RecordsTyped'
  BY <1>12 DEF RecordsTyped, Status, StartRequested, CreateMeeting, Prepare, OpenPage, CapturePage,
     AbortStart, durable
<1>13. ASSUME NEW c \in Stops, StopRequested(c) \/ TabEnded(c)
      PROVE  RecordsTyped'
  BY <1>13 DEF RecordsTyped, Status, StopRequested, TabEnded, durable
<1>14. ASSUME NEW c \in Chunks, EmitChunk(c) \/ ReceiveChunk(c) \/ ChunkAnswered(c) \/ ResendChunk(c) \/
         LoseChunk(c)
      PROVE  RecordsTyped'
  BY <1>14 DEF RecordsTyped, Status, EmitChunk, ReceiveChunk, ChunkAnswered, ResendChunk, LoseChunk, durable
<1>15. ASSUME WriteChunk \/ PageStopped \/ PageCrashes \/ KillWorker
      PROVE  RecordsTyped'
  BY <1>15 DEF RecordsTyped, Status, WriteChunk, PageStopped, PageCrashes, KillWorker, durable
<1>16. CASE UNCHANGED vars
  BY <1>16 DEF vars, durable, RecordsTyped, Status
<1> QED BY <1>1, <1>2, <1>3, <1>4, <1>5, <1>6, <1>7, <1>8, <1>9, <1>10, <1>11, <1>12, <1>13, <1>14, <1>15,
         <1>16 DEF Next, StartStep, StopStep, PageStep

LEMMA StoreTypedStep ==
  ASSUME Inv, [Next]_vars
  PROVE  StoreTyped'
<1>. USE RecorderAssumption, TypesApart DEF Inv
<1>1. ASSUME NEW s \in Starts, EraseMeeting(s) PROVE StoreTyped'
  BY <1>1 DEF StoreTyped, EraseMeeting, At, Released, Calls, durable
<1>2. ASSUME WriteChunk PROVE StoreTyped'
  <2>1. PICK c \in Chunks, m \in Meetings : c = Head(chain) /\ m = chunk[c].m
    BY <1>2, ChainHead DEF WriteChunk
  <2>2. NextSequence(m) \in Nat
    BY NextNumber
  <2>3. store' = [store EXCEPT ![m] = KeepFirst(c, NextSequence(m))]
    BY <1>2, <2>1 DEF WriteChunk
  <2>4. KeepFirst(c, NextSequence(m)) \subseteq Chunks \X Nat
    BY <2>1, <2>2 DEF StoreTyped, KeepFirst
  <2> QED BY <2>3, <2>4 DEF StoreTyped
<1>3. ASSUME NEW s \in Starts, StartRequested(s) \/ CreateMeeting(s) \/ SaveMeeting(s) \/ Prepare(s) \/
         OpenPage(s) \/ CapturePage(s) \/ PersistCaptures(s) \/ UndoCapture(s) \/ AbortStart(s)
      PROVE  StoreTyped'
  BY <1>3 DEF StoreTyped, StartRequested, CreateMeeting, SaveMeeting, Prepare, OpenPage, CapturePage,
     PersistCaptures, UndoCapture, AbortStart, durable
<1>4. ASSUME NEW c \in Stops, StopRequested(c) \/ TabEnded(c) \/ StopRecording(c)
      PROVE  StoreTyped'
  BY <1>4 DEF StoreTyped, StopRequested, TabEnded, StopRecording, durable
<1>5. ASSUME NEW c \in Calls, Teardown(c) \/ FailRecording(c)
      PROVE  StoreTyped'
  BY <1>5 DEF StoreTyped, Teardown, FailRecording, durable
<1>6. ASSUME NEW m \in Meetings, NEW fails \in BOOLEAN, CaptureError(m, fails)
      PROVE  StoreTyped'
  BY <1>6 DEF StoreTyped, CaptureError, durable
<1>7. ASSUME NEW c \in Chunks, EmitChunk(c) \/ ReceiveChunk(c) \/ ChunkAnswered(c) \/ ResendChunk(c) \/
         LoseChunk(c)
      PROVE  StoreTyped'
  BY <1>7 DEF StoreTyped, EmitChunk, ReceiveChunk, ChunkAnswered, ResendChunk, LoseChunk, durable
<1>8. ASSUME WriteFails \/ PageStopped \/ SettleLostCaptures \/ PageCrashes \/ KillWorker \/ WakeWorker
      PROVE  StoreTyped'
  BY <1>8 DEF StoreTyped, WriteFails, PageStopped, SettleLostCaptures, PageCrashes, KillWorker, WakeWorker,
     durable
<1>9. CASE UNCHANGED vars
  BY <1>9 DEF vars, durable, StoreTyped
<1> QED BY <1>1, <1>2, <1>3, <1>4, <1>5, <1>6, <1>7, <1>8, <1>9 DEF Next, StartStep, StopStep, PageStep

LEMMA PageTypedStep ==
  ASSUME Inv, [Next]_vars
  PROVE  PageTyped'
<1>. USE RecorderAssumption, TypesApart DEF Inv
<1>1. ASSUME NEW s \in Starts, OpenPage(s) PROVE PageTyped'
  BY <1>1 DEF PageTyped, PageState, Id, OpenPage, At, Calls, durable
<1>2. ASSUME NEW s \in Starts, CapturePage(s) PROVE PageTyped'
  BY <1>2, CaptureMoves DEF PageTyped, PageState, Id, At, Told, Holds, Calls, CallsTyped, CallState
<1>3. ASSUME NEW s \in Starts, UndoCapture(s) PROVE PageTyped'
  <2>1. page' = [page EXCEPT !.state = "stopping"] \/ page' = Gone
    BY <1>3, UndoMoves DEF StopPage
  <2> QED BY <2>1 DEF PageTyped, PageState, Gone, Id
<1>4. ASSUME NEW c \in Calls, Teardown(c) PROVE PageTyped'
  BY <1>4, TeardownMoves DEF PageTyped, PageState, Id, At, StopPage, PageQuiet, Gone, Told, Holds
<1>5. ASSUME NEW m \in Meetings, NEW fails \in BOOLEAN, CaptureError(m, fails) PROVE PageTyped'
  <2>1. page' = page \/ page' = [page EXCEPT !.state = "stopping"] \/ page' = Gone
    BY <1>5, ErrorMoves DEF StopPage
  <2> QED BY <2>1 DEF PageTyped, PageState, Gone, Id
<1>6. ASSUME NEW c \in Chunks, LoseChunk(c) PROVE PageTyped'
  BY <1>6 DEF PageTyped, PageState, Id, LoseChunk, Move, durable
<1>7. ASSUME PageStopped PROVE PageTyped'
  BY <1>7 DEF PageTyped, PageState, Id, PageStopped, durable
<1>8. ASSUME PageCrashes PROVE PageTyped'
  BY <1>8 DEF PageTyped, PageState, Id, PageCrashes, Gone, durable
<1>9. ASSUME NEW s \in Starts, StartRequested(s) \/ CreateMeeting(s) \/ SaveMeeting(s) \/ Prepare(s) \/
         PersistCaptures(s) \/ AbortStart(s) \/ EraseMeeting(s)
      PROVE  PageTyped'
  BY <1>9 DEF PageTyped, PageState, Id, StartRequested, CreateMeeting, SaveMeeting, Prepare,
     PersistCaptures, AbortStart, EraseMeeting, durable
<1>10. ASSUME NEW c \in Stops, StopRequested(c) \/ TabEnded(c) \/ StopRecording(c)
      PROVE  PageTyped'
  BY <1>10 DEF PageTyped, PageState, Id, StopRequested, TabEnded, StopRecording, durable
<1>11. ASSUME NEW c \in Calls, FailRecording(c)
      PROVE  PageTyped'
  BY <1>11 DEF PageTyped, PageState, Id, FailRecording, durable
<1>12. ASSUME NEW c \in Chunks, EmitChunk(c) \/ ReceiveChunk(c) \/ ChunkAnswered(c) \/ ResendChunk(c)
      PROVE  PageTyped'
  BY <1>12 DEF PageTyped, PageState, Id, EmitChunk, ReceiveChunk, ChunkAnswered, ResendChunk, durable
<1>13. ASSUME WriteChunk \/ WriteFails \/ SettleLostCaptures \/ KillWorker \/ WakeWorker
      PROVE  PageTyped'
  BY <1>13 DEF PageTyped, PageState, Id, WriteChunk, WriteFails, SettleLostCaptures, KillWorker, WakeWorker,
     durable
<1>14. CASE UNCHANGED vars
  BY <1>14 DEF vars, durable, PageTyped, PageState, Id
<1> QED BY <1>1, <1>2, <1>3, <1>4, <1>5, <1>6, <1>7, <1>8, <1>9, <1>10, <1>11, <1>12, <1>13, <1>14 DEF Next,
         StartStep, StopStep, PageStep

LEMMA RestTypedStep ==
  ASSUME Inv, [Next]_vars
  PROVE  RestTyped'
<1>. USE RecorderAssumption, TypesApart DEF Inv
<1>1. ASSUME NEW s \in Starts, CreateMeeting(s) PROVE RestTyped'
  BY <1>1 DEF RestTyped, CreateMeeting, At, Create, Unused, FreshId, Calls, MemoryTyped, MemoryState, Id,
     durable
<1>2. ASSUME NEW m \in Meetings, NEW fails \in BOOLEAN, CaptureError(m, fails) PROVE RestTyped'
  BY <1>2 DEF RestTyped, CaptureError, StopPage, PageQuiet, Gone, Released, Update, durable
<1>3. ASSUME NEW c \in Chunks, LoseChunk(c) PROVE RestTyped'
  <2>1. chunk[c].m \in Meetings
    BY <1>3 DEF LoseChunk, Audio, Born, ChunksTyped, ChunkState, Id
  <2>2. errors' \subseteq errors \cup {<<chunk[c].m, TRUE>>} /\ UNCHANGED <<stray, kills, crashes>>
    BY <1>3 DEF LoseChunk
  <2>3. <<chunk[c].m, TRUE>> \in Meetings \X BOOLEAN
    BY <2>1
  <2> QED BY <2>2, <2>3 DEF RestTyped
<1>4. ASSUME WriteFails PROVE RestTyped'
  <2>1. chunk[Head(chain)].m \in Meetings
    BY <1>4, ChainHead DEF WriteFails
  <2>2. errors' = errors \cup {<<chunk[Head(chain)].m, FALSE>>} /\ UNCHANGED <<stray, kills, crashes>>
    BY <1>4 DEF WriteFails, StopAfterRefusal
  <2>3. <<chunk[Head(chain)].m, FALSE>> \in Meetings \X BOOLEAN
    BY <2>1
  <2> QED BY <2>2, <2>3 DEF RestTyped
<1>5. ASSUME PageCrashes PROVE RestTyped'
  BY <1>5 DEF RestTyped, PageCrashes, Gone, durable
<1>6. ASSUME KillWorker PROVE RestTyped'
  BY <1>6 DEF RestTyped, KillWorker, PageTyped, PageState, Id, durable
<1>7. ASSUME NEW s \in Starts, StartRequested(s) \/ SaveMeeting(s) \/ Prepare(s) \/ OpenPage(s) \/
         CapturePage(s) \/ PersistCaptures(s) \/ UndoCapture(s) \/ AbortStart(s) \/ EraseMeeting(s)
      PROVE  RestTyped'
  BY <1>7 DEF RestTyped, StartRequested, SaveMeeting, Prepare, OpenPage, CapturePage, PersistCaptures,
     UndoCapture, AbortStart, EraseMeeting, durable
<1>8. ASSUME NEW c \in Stops, StopRequested(c) \/ TabEnded(c) \/ StopRecording(c)
      PROVE  RestTyped'
  BY <1>8 DEF RestTyped, StopRequested, TabEnded, StopRecording, durable
<1>9. ASSUME NEW c \in Calls, Teardown(c) \/ FailRecording(c)
      PROVE  RestTyped'
  BY <1>9 DEF RestTyped, Teardown, FailRecording, durable
<1>10. ASSUME NEW c \in Chunks, EmitChunk(c) \/ ReceiveChunk(c) \/ ChunkAnswered(c) \/ ResendChunk(c)
      PROVE  RestTyped'
  BY <1>10 DEF RestTyped, EmitChunk, ReceiveChunk, ChunkAnswered, ResendChunk, durable
<1>11. ASSUME WriteChunk \/ PageStopped \/ SettleLostCaptures \/ WakeWorker
      PROVE  RestTyped'
  BY <1>11 DEF RestTyped, WriteChunk, PageStopped, SettleLostCaptures, WakeWorker, durable
<1>12. CASE UNCHANGED vars
  BY <1>12 DEF vars, durable, RestTyped
<1> QED BY <1>1, <1>2, <1>3, <1>4, <1>5, <1>6, <1>7, <1>8, <1>9, <1>10, <1>11, <1>12 DEF Next, StartStep,
         StopStep, PageStep

LEMMA TypeStep == Inv /\ [Next]_vars => TypeOK'
<1>1. TypeOK' <=> /\ MemoryTyped' /\ CallsTyped' /\ ChunksTyped' /\ RecordsTyped' /\ StoreTyped'
                  /\ PageTyped' /\ RestTyped'
  BY TypesApart, PTL
<1> QED BY <1>1, MemoryTypedStep, CallsTypedStep, ChunksTypedStep, RecordsTypedStep, StoreTypedStep, PageTypedStep,
          RestTypedStep

-----------------------------------------------------------------------------
(* The steps preserve the invariant, one part after another.                *)

\* A meeting that has started stays so, only the start that creates a meeting
\* begins its record, and a recording that has ended stays ended.
RecordKept ==
    \A m \in Meetings :
        /\ Started(m) => rec'[m] # "none"
        /\ mem'.creating = mem.creating /\ rec'[m] # rec[m] =>
             Started(m) /\ rec'[m] \in {"saved", "error", "deleted"}

LEMMA RecordsStay ==
  ASSUME Inv, TypeOK', [Next]_vars
  PROVE  RecordKept
<1>. USE RecorderAssumption, Ids, TypesApart DEF Inv, Creating, Known, Attempting, Closing, Active, Audio, Watched
<1>1. ASSUME NEW s \in Starts, SaveMeeting(s) PROVE RecordKept
  <2>1. /\ At(s, "save") /\ task[s].m \in Meetings
        /\ mem'.creating = None
        /\ rec' = [rec EXCEPT ![task[s].m] = "recording"]
    BY <1>1, SaveMoves
  <2> QED BY <1>1, <2>1 DEF RecordKept, Started, RecordsTyped, Makers, Unmade, Made, Sleep, At, Calls
<1>2. ASSUME NEW s \in Starts, EraseMeeting(s) PROVE RecordKept
  <2>1. At(s, "erase") /\ mem'.creating = mem.creating /\ rec' = [rec EXCEPT ![task[s].m] = "deleted"]
    BY <1>2, EraseMoves
  <2> QED BY <1>2, <2>1 DEF RecordKept, Started, RecordsTyped, Makers, Unmade, Made, Sleep, At, Calls
<1>3. ASSUME NEW c \in Stops, StopRecording(c) PROVE RecordKept
  <2>1. /\ At(c, "final")
        /\ \/ /\ rec[task[c].m] \in {"recording", "deleted"}
              /\ mem'.creating = mem.creating
              /\ Update(task[c].m, "saved")
           \/ /\ rec[task[c].m] \notin {"recording", "deleted"}
              /\ mem'.creating = mem.creating
              /\ rec' = rec
    BY <1>3, FinalMoves, Updating DEF Holds
  <2>2. CASE /\ rec[task[c].m] \in {"recording", "deleted"}
               /\ mem'.creating = mem.creating
               /\ Update(task[c].m, "saved")
    BY <1>3, <2>1, <2>2 DEF RecordKept, Started, RecordsTyped, Makers, Unmade, Made, Sleep, At, Update,
       Calls
  <2>3. CASE /\ rec[task[c].m] \notin {"recording", "deleted"}
               /\ mem'.creating = mem.creating
               /\ rec' = rec
    BY <1>3, <2>1, <2>3 DEF RecordKept, Started, RecordsTyped, Makers, Unmade, Made, Sleep, At, Update,
       Calls
  <2> QED BY <2>1, <2>2, <2>3
<1>4. ASSUME NEW c \in Calls, FailRecording(c) PROVE RecordKept
  <2>1. At(c, "fail") /\ mem'.creating = mem.creating /\ Update(task[c].m, "error")
    BY <1>4, FailMoves, Updating DEF Holds
  <2> QED BY <1>4, <2>1 DEF RecordKept, Started, RecordsTyped, Makers, Unmade, Made, Sleep, At, Update
<1>5. ASSUME NEW m \in Meetings, NEW fails \in BOOLEAN, CaptureError(m, fails) PROVE RecordKept
  <2>1. /\ mem.up /\ <<m, fails>> \in errors
        /\ \/ mem'.creating = mem.creating /\ rec' = rec
           \/ mem.starting.m # m /\ mem'.creating = mem.creating /\ rec' = rec
           \/ /\ mem.starting.m # m /\ PageQuiet
              /\ mem'.creating = mem.creating
              /\ (IF fails THEN Update(m, "error") ELSE rec' = rec)
    BY <1>5, ErrorMoves, Updating DEF Holds
  <2>2. CASE /\ mem'.creating = mem.creating
               /\ rec' = rec
    BY <1>5, <2>1, <2>2 DEF RecordKept, Started, RecordsTyped, Makers, Unmade, Made, Sleep, PageQuiet,
       Update
  <2>3. CASE /\ mem.starting.m # m
               /\ mem'.creating = mem.creating
               /\ rec' = rec
    BY <1>5, <2>1, <2>3 DEF RecordKept, Started, RecordsTyped, Makers, Unmade, Made, Sleep, PageQuiet,
       Update
  <2>4. CASE /\ mem.starting.m # m /\ PageQuiet
               /\ mem'.creating = mem.creating
               /\ (IF fails THEN Update(m, "error") ELSE rec' = rec)
    BY <1>5, <2>1, <2>4 DEF RecordKept, Started, RecordsTyped, Makers, Unmade, Made, Sleep, PageQuiet,
       Update
  <2> QED BY <2>1, <2>2, <2>3, <2>4
<1>6. ASSUME WriteFails PROVE RecordKept
  BY <1>6, RefuseMoves, ChainHead, Updating DEF RecordKept, Started, RecordsTyped, Makers, Unmade, Made,
     Sleep, WriteFails, StopAfterRefusal, Update
<1>7. ASSUME SettleLostCaptures PROVE RecordKept
  BY <1>7, SettleMoves DEF RecordKept, Started, RecordsTyped, Makers, Unmade, Made, Sleep, Holds,
     SettleLostCaptures, LostCaptures
<1>8. ASSUME WakeWorker PROVE RecordKept
  BY <1>8, WakeMoves DEF RecordKept, Started, RecordsTyped, Makers, Unmade, Made, Sleep, OrphanSaved
<1>9. ASSUME NEW s \in Starts, StartRequested(s) \/ CreateMeeting(s) \/ Prepare(s) \/ OpenPage(s) \/
         CapturePage(s) \/ PersistCaptures(s) \/ UndoCapture(s) \/ AbortStart(s)
      PROVE  RecordKept
  BY <1>9 DEF RecordKept, Started, StartRequested, CreateMeeting, Prepare, OpenPage, CapturePage,
     PersistCaptures, UndoCapture, AbortStart, durable
<1>10. ASSUME NEW c \in Stops, StopRequested(c) \/ TabEnded(c)
      PROVE  RecordKept
  BY <1>10 DEF RecordKept, Started, StopRequested, TabEnded, durable
<1>11. ASSUME NEW c \in Calls, Teardown(c)
      PROVE  RecordKept
  BY <1>11 DEF RecordKept, Started, Teardown, durable
<1>12. ASSUME NEW c \in Chunks, EmitChunk(c) \/ ReceiveChunk(c) \/ ChunkAnswered(c) \/ ResendChunk(c) \/
         LoseChunk(c)
      PROVE  RecordKept
  BY <1>12 DEF RecordKept, Started, EmitChunk, ReceiveChunk, ChunkAnswered, ResendChunk, LoseChunk, durable
<1>13. ASSUME WriteChunk \/ PageStopped \/ PageCrashes \/ KillWorker
      PROVE  RecordKept
  BY <1>13 DEF RecordKept, Started, WriteChunk, PageStopped, PageCrashes, KillWorker, durable
<1>14. CASE UNCHANGED vars
  BY <1>14 DEF vars, durable, RecordKept, Started
<1> QED BY <1>1, <1>2, <1>3, <1>4, <1>5, <1>6, <1>7, <1>8, <1>9, <1>10, <1>11, <1>12, <1>13, <1>14 DEF Next,
         StartStep, StopStep, PageStep


LEMMA SleepStep ==
  ASSUME Inv, TypeOK', RecordKept, [Next]_vars
  PROVE  Sleep'
<1>. USE RecorderAssumption, Ids, TypesApart DEF Inv, Creating, Known, Attempting, Closing, Active, Audio, Watched
<1>1. ASSUME NEW s \in Starts, StartRequested(s) PROVE Sleep'
  BY <1>1, StartRequestedMoves DEF Sleep, Calls, At, Told
<1>2. ASSUME NEW s \in Starts, CreateMeeting(s) PROVE Sleep'
  BY <1>2, CreateMoves DEF Sleep, Shares, Follows, Joins, Creates, Holds, Told, At, Unused, Calls
<1>3. ASSUME NEW s \in Starts, SaveMeeting(s) PROVE Sleep'
  <2>1. /\ At(s, "save") /\ task[s].m \in Meetings
        /\ (\A x \in Calls : task'[x].m = task[x].m)
        /\ (\A x \in Calls : task'[x].pc =
              IF x = s THEN IF mem.starting.m = None THEN "prepare" ELSE "abort"
              ELSE IF task[x].pc = "join" THEN IF mem.starting.m = None THEN "await" ELSE "abort"
              ELSE task[x].pc)
        /\ mem'.up = mem.up
        /\ chain' = chain
        /\ errors' = errors
    BY <1>3, SaveMoves
  <2> QED BY <1>3, <2>1 DEF Sleep, At, Calls
<1>4. ASSUME NEW s \in Starts, Prepare(s) PROVE Sleep'
  BY <1>4, PrepareMoves DEF Sleep, Holds, Told, Waiting, At, Calls
<1>5. ASSUME NEW s \in Starts, OpenPage(s) PROVE Sleep'
  BY <1>5, OpenMoves DEF Sleep, OpenPage, Told, At, Calls
<1>6. ASSUME NEW s \in Starts, CapturePage(s) PROVE Sleep'
  BY <1>6, CaptureMoves DEF Sleep, Told, At, Calls
<1>7. ASSUME NEW s \in Starts, PersistCaptures(s) PROVE Sleep'
  BY <1>7, PersistMoves DEF Sleep, Holds, Told, Waiting, At, Calls
<1>8. ASSUME NEW s \in Starts, UndoCapture(s) PROVE Sleep'
  BY <1>8, UndoMoves DEF Sleep, Holds, Told, Waiting, At, PageQuiet, Calls
<1>9. ASSUME NEW s \in Starts, AbortStart(s) PROVE Sleep'
  BY <1>9, AbortMoves DEF Sleep, Told, At, Calls
<1>10. ASSUME NEW s \in Starts, EraseMeeting(s) PROVE Sleep'
  <2>1. /\ At(s, "erase")
        /\ Told({s}, "done", None)
        /\ mem'.up = mem.up
        /\ chain' = chain
        /\ errors' = errors
    BY <1>10, EraseMoves
  <2> QED BY <1>10, <2>1 DEF Sleep, Told, At, Calls
<1>11. ASSUME NEW c \in Stops, StopRequested(c) PROVE Sleep'
  BY <1>11, StopMoves DEF Sleep, Holds, Told, At, IsActive, Calls
<1>12. ASSUME NEW c \in Stops, TabEnded(c) PROVE Sleep'
  BY <1>12, TabMoves DEF Sleep, Holds, Told, At, Calls
<1>13. ASSUME NEW c \in Stops, StopRecording(c) PROVE Sleep'
  BY <1>13, FinalMoves, Updating DEF Sleep, Holds, Told, At, Calls
<1>14. ASSUME NEW c \in Calls, Teardown(c) PROVE Sleep'
  <2>1. /\ At(c, "teardown") /\ mem.starting.m # task[c].m
        /\ \/ UNCHANGED task /\ mem'.up = mem.up /\ chain' = chain /\ errors' = errors
           \/ /\ c \in Starts /\ PageQuiet
              /\ Told({c}, "done", None)
              /\ mem'.up = mem.up
              /\ chain' = chain
              /\ errors' = errors
           \/ /\ c \notin Starts /\ PageQuiet
              /\ Told({c}, "final", task[c].m)
              /\ mem'.up = mem.up
              /\ chain' = chain
              /\ errors' = errors
    BY <1>14, TeardownMoves DEF Holds, Teardown
  <2>2. CASE /\ UNCHANGED task
               /\ mem'.up = mem.up
               /\ chain' = chain
               /\ errors' = errors
    BY <1>14, <2>1, <2>2 DEF Sleep, Told, At, PageQuiet
  <2>3. CASE /\ c \in Starts /\ PageQuiet
               /\ Told({c}, "done", None)
               /\ mem'.up = mem.up
               /\ chain' = chain
               /\ errors' = errors
    BY <1>14, <2>1, <2>3 DEF Sleep, Told, At, PageQuiet
  <2>4. CASE /\ c \notin Starts /\ PageQuiet
               /\ Told({c}, "final", task[c].m)
               /\ mem'.up = mem.up
               /\ chain' = chain
               /\ errors' = errors
    BY <1>14, <2>1, <2>4 DEF Sleep, Told, At, PageQuiet
  <2> QED BY <2>1, <2>2, <2>3, <2>4
<1>15. ASSUME NEW c \in Calls, FailRecording(c) PROVE Sleep'
  BY <1>15, FailMoves, Updating DEF Sleep, Holds, Told, At
<1>16. ASSUME NEW m \in Meetings, NEW fails \in BOOLEAN, CaptureError(m, fails) PROVE Sleep'
  <2>1. /\ mem.up /\ <<m, fails>> \in errors
        /\ \/ UNCHANGED task /\ mem'.up = mem.up /\ chain' = chain /\ errors' = errors
           \/ /\ mem.starting.m # m
              /\ UNCHANGED task
              /\ mem'.up = mem.up
              /\ chain' = chain
              /\ errors' = errors
           \/ /\ mem.starting.m # m /\ PageQuiet
              /\ UNCHANGED task
              /\ mem'.up = mem.up
              /\ chain' = chain
              /\ errors' = errors \ {<<m, fails>>}
    BY <1>16, ErrorMoves, Updating DEF Holds
  <2> QED BY <1>16, <2>1 DEF Sleep, PageQuiet
<1>17. ASSUME NEW c \in Chunks, ReceiveChunk(c) PROVE Sleep'
  BY <1>17, ReceiveMoves DEF Sleep, Holds
<1>18. ASSUME NEW c \in Chunks, LoseChunk(c) PROVE Sleep'
  BY <1>18 DEF Sleep, LoseChunk, Move, durable
<1>19. ASSUME WriteChunk PROVE Sleep'
  BY <1>19, WriteMoves, ChainHead DEF Sleep, WriteChunk
<1>20. ASSUME WriteFails PROVE Sleep'
  BY <1>20, RefuseMoves, ChainHead, Updating DEF Sleep, WriteFails, StopAfterRefusal
<1>21. ASSUME SettleLostCaptures PROVE Sleep'
  BY <1>21, SettleMoves DEF Sleep, Holds, SettleLostCaptures, LostCaptures
<1>22. ASSUME KillWorker PROVE Sleep'
  BY <1>22, KillMoves, AsleepTyped DEF Sleep
<1>23. ASSUME WakeWorker PROVE Sleep'
  BY <1>23, WakeMoves DEF Sleep, OrphanSaved
<1>24. ASSUME NEW c \in Chunks, EmitChunk(c) \/ ChunkAnswered(c) \/ ResendChunk(c)
      PROVE  Sleep'
  BY <1>24 DEF Sleep, EmitChunk, ChunkAnswered, ResendChunk, durable
<1>25. ASSUME PageStopped \/ PageCrashes
      PROVE  Sleep'
  BY <1>25 DEF Sleep, PageStopped, PageCrashes, durable
<1>26. CASE UNCHANGED vars
  BY <1>26 DEF vars, durable, Sleep
<1> QED BY <1>1, <1>2, <1>3, <1>4, <1>5, <1>6, <1>7, <1>8, <1>9, <1>10, <1>11, <1>12, <1>13, <1>14, <1>15,
         <1>16, <1>17, <1>18, <1>19, <1>20, <1>21, <1>22, <1>23, <1>24, <1>25, <1>26 DEF Next, StartStep,
         StopStep, PageStep


LEMMA SlotStep ==
  ASSUME Inv, TypeOK', RecordKept, [Next]_vars
  PROVE  Slot'
<1>. USE RecorderAssumption, Ids, TypesApart DEF Inv, Creating, Known, Attempting, Closing, Active, Audio, Watched
<1>1. ASSUME NEW s \in Starts, CreateMeeting(s) PROVE Slot'
  BY <1>1, CreateMoves DEF Slot, Shares, Follows, Joins, Creates, Holds, At, Unused, Calls
<1>2. ASSUME NEW s \in Starts, SaveMeeting(s) PROVE Slot'
  BY <1>2, SaveMoves DEF Slot, At, Calls
<1>3. ASSUME NEW s \in Starts, Prepare(s) PROVE Slot'
  BY <1>3, PrepareMoves DEF Slot, Holds, At, Calls
<1>4. ASSUME NEW s \in Starts, PersistCaptures(s) PROVE Slot'
  BY <1>4, PersistMoves DEF Slot, Holds, At, Calls
<1>5. ASSUME NEW s \in Starts, UndoCapture(s) PROVE Slot'
  BY <1>5, UndoMoves DEF Slot, Holds, At, PageQuiet, Calls
<1>6. ASSUME NEW s \in Starts, EraseMeeting(s) PROVE Slot'
  BY <1>6, EraseMoves DEF Slot, At, Released, Calls
<1>7. ASSUME NEW c \in Stops, StopRequested(c) PROVE Slot'
  BY <1>7, StopMoves DEF Slot, Holds, At, IsActive, Calls
<1>8. ASSUME NEW c \in Stops, TabEnded(c) PROVE Slot'
  BY <1>8, TabMoves DEF Slot, Holds, At, Calls
<1>9. ASSUME NEW c \in Stops, StopRecording(c) PROVE Slot'
  BY <1>9, FinalMoves, Updating DEF Slot, Holds, At, Released, Calls
<1>10. ASSUME NEW c \in Calls, Teardown(c) PROVE Slot'
  BY <1>10, TeardownMoves DEF Slot, Holds, Teardown, At, PageQuiet
<1>11. ASSUME NEW c \in Calls, FailRecording(c) PROVE Slot'
  BY <1>11, FailMoves, Updating DEF Slot, Holds, At, Released
<1>12. ASSUME NEW m \in Meetings, NEW fails \in BOOLEAN, CaptureError(m, fails) PROVE Slot'
  BY <1>12, ErrorMoves, Updating DEF Slot, Holds, Released, PageQuiet
<1>13. ASSUME NEW c \in Chunks, ReceiveChunk(c) PROVE Slot'
  BY <1>13, ReceiveMoves DEF Slot, Holds
<1>14. ASSUME WriteChunk PROVE Slot'
  BY <1>14, WriteMoves, ChainHead DEF Slot, WriteChunk
<1>15. ASSUME WriteFails PROVE Slot'
  BY <1>15, RefuseMoves, ChainHead, Updating DEF Slot, WriteFails, StopAfterRefusal, Released
<1>16. ASSUME SettleLostCaptures PROVE Slot'
  BY <1>16, SettleMoves DEF Slot, Holds, SettleLostCaptures, LostCaptures
<1>17. ASSUME KillWorker PROVE Slot'
  BY <1>17, KillMoves, AsleepTyped DEF Slot, Asleep, NotStarting, KillWorker
<1>18. ASSUME WakeWorker PROVE Slot'
  BY <1>18, WakeMoves DEF Slot, OrphanSaved
<1>19. ASSUME NEW s \in Starts, StartRequested(s) \/ OpenPage(s) \/ CapturePage(s) \/ AbortStart(s)
      PROVE  Slot'
  BY <1>19 DEF Slot, StartRequested, OpenPage, CapturePage, AbortStart, durable
<1>20. ASSUME NEW c \in Chunks, EmitChunk(c) \/ ChunkAnswered(c) \/ ResendChunk(c) \/ LoseChunk(c)
      PROVE  Slot'
  BY <1>20 DEF Slot, EmitChunk, ChunkAnswered, ResendChunk, LoseChunk, durable
<1>21. ASSUME PageStopped \/ PageCrashes
      PROVE  Slot'
  BY <1>21 DEF Slot, PageStopped, PageCrashes, durable
<1>22. CASE UNCHANGED vars
  BY <1>22 DEF vars, durable, Slot
<1> QED BY <1>1, <1>2, <1>3, <1>4, <1>5, <1>6, <1>7, <1>8, <1>9, <1>10, <1>11, <1>12, <1>13, <1>14, <1>15,
         <1>16, <1>17, <1>18, <1>19, <1>20, <1>21, <1>22 DEF Next, StartStep, StopStep, PageStep


LEMMA MakersStep ==
  ASSUME Inv, TypeOK', RecordKept, [Next]_vars
  PROVE  Makers'
<1>. USE RecorderAssumption, Ids, TypesApart DEF Inv, Creating, Known, Attempting, Closing, Active, Audio, Watched
<1>1. ASSUME NEW s \in Starts, StartRequested(s) PROVE Makers'
  BY <1>1, StartRequestedMoves DEF Makers, Sleep, Calls, At, Told
<1>2. ASSUME NEW s \in Starts, CreateMeeting(s) PROVE Makers'
  BY <1>2, CreateMoves DEF Makers, Sleep, Shares, Follows, Joins, Creates, Holds, Told, At, Unused, Calls
<1>3. ASSUME NEW s \in Starts, SaveMeeting(s) PROVE Makers'
  <2>1. /\ At(s, "save") /\ task[s].m \in Meetings
        /\ (\A x \in Calls : task'[x].m = task[x].m)
        /\ (\A x \in Calls : task'[x].pc =
              IF x = s THEN IF mem.starting.m = None THEN "prepare" ELSE "abort"
              ELSE IF task[x].pc = "join" THEN IF mem.starting.m = None THEN "await" ELSE "abort"
              ELSE task[x].pc)
        /\ mem'.creating = None
    BY <1>3, SaveMoves
  <2> SUFFICES ASSUME NEW x \in Calls, task'[x].pc \in {"save", "join"}
               PROVE  mem'.creating = task'[x].m
    BY DEF Makers
  <2> QED BY <1>3, <2>1 DEF Makers, Sleep, At, Calls, OneMaker
<1>4. ASSUME NEW s \in Starts, Prepare(s) PROVE Makers'
  BY <1>4, PrepareMoves DEF Makers, Sleep, Holds, Told, Waiting, At, Calls
<1>5. ASSUME NEW s \in Starts, OpenPage(s) PROVE Makers'
  BY <1>5, OpenMoves DEF Makers, Sleep, OpenPage, Told, At, Calls
<1>6. ASSUME NEW s \in Starts, CapturePage(s) PROVE Makers'
  BY <1>6, CaptureMoves DEF Makers, Sleep, Told, At, Calls
<1>7. ASSUME NEW s \in Starts, PersistCaptures(s) PROVE Makers'
  BY <1>7, PersistMoves DEF Makers, Sleep, Holds, Told, Waiting, At, Calls
<1>8. ASSUME NEW s \in Starts, UndoCapture(s) PROVE Makers'
  BY <1>8, UndoMoves DEF Makers, Sleep, Holds, Told, Waiting, At, PageQuiet, Calls
<1>9. ASSUME NEW s \in Starts, AbortStart(s) PROVE Makers'
  BY <1>9, AbortMoves DEF Makers, Sleep, Told, At, Calls
<1>10. ASSUME NEW s \in Starts, EraseMeeting(s) PROVE Makers'
  <2>1. At(s, "erase") /\ Told({s}, "done", None) /\ mem'.creating = mem.creating
    BY <1>10, EraseMoves
  <2> QED BY <1>10, <2>1 DEF Makers, Sleep, Told, At, Calls
<1>11. ASSUME NEW c \in Stops, StopRequested(c) PROVE Makers'
  BY <1>11, StopMoves DEF Makers, Sleep, Holds, Told, At, IsActive, Calls
<1>12. ASSUME NEW c \in Stops, TabEnded(c) PROVE Makers'
  BY <1>12, TabMoves DEF Makers, Sleep, Holds, Told, At, Calls
<1>13. ASSUME NEW c \in Stops, StopRecording(c) PROVE Makers'
  BY <1>13, FinalMoves, Updating DEF Makers, Sleep, Holds, Told, At, Calls
<1>14. ASSUME NEW c \in Calls, Teardown(c) PROVE Makers'
  <2>1. /\ At(c, "teardown") /\ mem.starting.m # task[c].m
        /\ \/ UNCHANGED task /\ mem'.creating = mem.creating
           \/ c \in Starts /\ PageQuiet /\ Told({c}, "done", None) /\ mem'.creating = mem.creating
           \/ /\ c \notin Starts /\ PageQuiet
              /\ Told({c}, "final", task[c].m)
              /\ mem'.creating = mem.creating
    BY <1>14, TeardownMoves DEF Holds, Teardown
  <2> QED BY <1>14, <2>1 DEF Makers, Sleep, Told, At, PageQuiet
<1>15. ASSUME NEW c \in Calls, FailRecording(c) PROVE Makers'
  BY <1>15, FailMoves, Updating DEF Makers, Sleep, Holds, Told, At
<1>16. ASSUME NEW m \in Meetings, NEW fails \in BOOLEAN, CaptureError(m, fails) PROVE Makers'
  <2>1. /\ mem.up /\ <<m, fails>> \in errors
        /\ \/ UNCHANGED task /\ mem'.creating = mem.creating
           \/ mem.starting.m # m /\ UNCHANGED task /\ mem'.creating = mem.creating
           \/ mem.starting.m # m /\ PageQuiet /\ UNCHANGED task /\ mem'.creating = mem.creating
    BY <1>16, ErrorMoves, Updating DEF Holds
  <2> QED BY <1>16, <2>1 DEF Makers, Sleep, PageQuiet
<1>17. ASSUME NEW c \in Chunks, ReceiveChunk(c) PROVE Makers'
  BY <1>17, ReceiveMoves DEF Makers, Sleep, Holds
<1>18. ASSUME WriteChunk PROVE Makers'
  BY <1>18, WriteMoves, ChainHead DEF Makers, Sleep, WriteChunk
<1>19. ASSUME WriteFails PROVE Makers'
  BY <1>19, RefuseMoves, ChainHead, Updating DEF Makers, Sleep, WriteFails, StopAfterRefusal
<1>20. ASSUME SettleLostCaptures PROVE Makers'
  BY <1>20, SettleMoves DEF Makers, Sleep, Holds, SettleLostCaptures, LostCaptures
<1>21. ASSUME KillWorker PROVE Makers'
  BY <1>21, KillMoves, AsleepTyped DEF Makers, Sleep, Asleep, NotStarting, KillWorker
<1>22. ASSUME WakeWorker PROVE Makers'
  BY <1>22, WakeMoves DEF Makers, Sleep, OrphanSaved
<1>23. ASSUME NEW c \in Chunks, EmitChunk(c) \/ ChunkAnswered(c) \/ ResendChunk(c) \/ LoseChunk(c)
      PROVE  Makers'
  BY <1>23 DEF Makers, EmitChunk, ChunkAnswered, ResendChunk, LoseChunk, durable
<1>24. ASSUME PageStopped \/ PageCrashes
      PROVE  Makers'
  BY <1>24 DEF Makers, PageStopped, PageCrashes, durable
<1>25. CASE UNCHANGED vars
  BY <1>25 DEF vars, durable, Makers
<1> QED BY <1>1, <1>2, <1>3, <1>4, <1>5, <1>6, <1>7, <1>8, <1>9, <1>10, <1>11, <1>12, <1>13, <1>14, <1>15,
         <1>16, <1>17, <1>18, <1>19, <1>20, <1>21, <1>22, <1>23, <1>24, <1>25 DEF Next, StartStep, StopStep,
         PageStep


LEMMA OneMakerStep ==
  ASSUME Inv, TypeOK', RecordKept, [Next]_vars
  PROVE  OneMaker'
<1>. USE RecorderAssumption, Ids, TypesApart DEF Inv, Creating, Known, Attempting, Closing, Active, Audio, Watched
<1>1. ASSUME NEW s \in Starts, StartRequested(s) PROVE OneMaker'
  BY <1>1, StartRequestedMoves DEF OneMaker, Makers, Sleep, Calls, At, Told
<1>2. ASSUME NEW s \in Starts, CreateMeeting(s) PROVE OneMaker'
  BY <1>2, CreateMoves DEF OneMaker, Makers, Shares, Follows, Joins, Creates, Holds, Told, At, Unused,
     Calls, Sleep
<1>3. ASSUME NEW s \in Starts, SaveMeeting(s) PROVE OneMaker'
  <2>1. /\ At(s, "save") /\ task[s].m \in Meetings
        /\ (\A x \in Calls : task'[x].m = task[x].m)
        /\ (\A x \in Calls : task'[x].pc =
              IF x = s THEN IF mem.starting.m = None THEN "prepare" ELSE "abort"
              ELSE IF task[x].pc = "join" THEN IF mem.starting.m = None THEN "await" ELSE "abort"
              ELSE task[x].pc)
        /\ mem'.creating = None
    BY <1>3, SaveMoves
  <2> QED BY <1>3, <2>1 DEF OneMaker, Makers, At, Calls
<1>4. ASSUME NEW s \in Starts, Prepare(s) PROVE OneMaker'
  BY <1>4, PrepareMoves DEF OneMaker, Makers, Holds, Told, Waiting, At, Calls
<1>5. ASSUME NEW s \in Starts, OpenPage(s) PROVE OneMaker'
  BY <1>5, OpenMoves DEF OneMaker, Makers, OpenPage, Told, At, Calls
<1>6. ASSUME NEW s \in Starts, CapturePage(s) PROVE OneMaker'
  BY <1>6, CaptureMoves DEF OneMaker, Makers, Told, At, Calls
<1>7. ASSUME NEW s \in Starts, PersistCaptures(s) PROVE OneMaker'
  BY <1>7, PersistMoves DEF OneMaker, Makers, Holds, Told, Waiting, At, Calls
<1>8. ASSUME NEW s \in Starts, UndoCapture(s) PROVE OneMaker'
  BY <1>8, UndoMoves DEF OneMaker, Makers, Holds, Told, Waiting, At, PageQuiet, Calls
<1>9. ASSUME NEW s \in Starts, AbortStart(s) PROVE OneMaker'
  BY <1>9, AbortMoves DEF OneMaker, Makers, Told, At, Calls
<1>10. ASSUME NEW s \in Starts, EraseMeeting(s) PROVE OneMaker'
  <2>1. At(s, "erase") /\ Told({s}, "done", None) /\ mem'.creating = mem.creating
    BY <1>10, EraseMoves
  <2> QED BY <1>10, <2>1 DEF OneMaker, Makers, Told, At, Calls
<1>11. ASSUME NEW c \in Stops, StopRequested(c) PROVE OneMaker'
  BY <1>11, StopMoves DEF OneMaker, Makers, Holds, Told, At, IsActive, Calls
<1>12. ASSUME NEW c \in Stops, TabEnded(c) PROVE OneMaker'
  BY <1>12, TabMoves DEF OneMaker, Makers, Holds, Told, At, Calls
<1>13. ASSUME NEW c \in Stops, StopRecording(c) PROVE OneMaker'
  BY <1>13, FinalMoves, Updating DEF OneMaker, Makers, Holds, Told, At, Calls
<1>14. ASSUME NEW c \in Calls, Teardown(c) PROVE OneMaker'
  <2>1. /\ At(c, "teardown") /\ mem.starting.m # task[c].m
        /\ \/ UNCHANGED task /\ mem'.creating = mem.creating
           \/ c \in Starts /\ PageQuiet /\ Told({c}, "done", None) /\ mem'.creating = mem.creating
           \/ /\ c \notin Starts /\ PageQuiet
              /\ Told({c}, "final", task[c].m)
              /\ mem'.creating = mem.creating
    BY <1>14, TeardownMoves DEF Holds, Teardown
  <2> QED BY <1>14, <2>1 DEF OneMaker, Makers, Told, At, PageQuiet
<1>15. ASSUME NEW c \in Calls, FailRecording(c) PROVE OneMaker'
  BY <1>15, FailMoves, Updating DEF OneMaker, Makers, Holds, Told, At
<1>16. ASSUME KillWorker PROVE OneMaker'
  BY <1>16, KillMoves, AsleepTyped DEF OneMaker, Makers, Asleep, NotStarting, KillWorker
<1>17. ASSUME NEW m \in Meetings, NEW fails \in BOOLEAN, CaptureError(m, fails)
      PROVE  OneMaker'
  BY <1>17 DEF OneMaker, Makers, CaptureError, durable
<1>18. ASSUME NEW c \in Chunks, EmitChunk(c) \/ ReceiveChunk(c) \/ ChunkAnswered(c) \/ ResendChunk(c) \/
         LoseChunk(c)
      PROVE  OneMaker'
  BY <1>18 DEF OneMaker, Makers, EmitChunk, ReceiveChunk, ChunkAnswered, ResendChunk, LoseChunk, durable
<1>19. ASSUME WriteChunk \/ WriteFails \/ PageStopped \/ SettleLostCaptures \/ PageCrashes \/ WakeWorker
      PROVE  OneMaker'
  BY <1>19 DEF OneMaker, Makers, WriteChunk, WriteFails, PageStopped, SettleLostCaptures, PageCrashes,
     WakeWorker, durable
<1>20. CASE UNCHANGED vars
  BY <1>20 DEF vars, durable, OneMaker, Makers
<1> QED BY <1>1, <1>2, <1>3, <1>4, <1>5, <1>6, <1>7, <1>8, <1>9, <1>10, <1>11, <1>12, <1>13, <1>14, <1>15,
         <1>16, <1>17, <1>18, <1>19, <1>20 DEF Next, StartStep, StopStep, PageStep


LEMMA UnmadeStep ==
  ASSUME Inv, TypeOK', RecordKept, [Next]_vars
  PROVE  Unmade'
<1>. USE RecorderAssumption, Ids, TypesApart DEF Inv, Creating, Known, Attempting, Closing, Active, Audio, Watched
<1>1. ASSUME NEW s \in Starts, StartRequested(s) PROVE Unmade'
  BY <1>1, StartRequestedMoves DEF Unmade, Started, RecordKept, Sleep, Calls, At, Told
<1>2. ASSUME NEW s \in Starts, CreateMeeting(s) PROVE Unmade'
  BY <1>2, CreateMoves DEF Unmade, Started, RecordKept, Sleep, Shares, Follows, Joins, Creates, Holds, Told,
     At, Unused, Calls
<1>3. ASSUME NEW s \in Starts, SaveMeeting(s) PROVE Unmade'
  <2>1. /\ At(s, "save") /\ task[s].m \in Meetings
        /\ (\A x \in Calls : task'[x].m = task[x].m)
        /\ (\A x \in Calls : task'[x].pc =
              IF x = s THEN IF mem.starting.m = None THEN "prepare" ELSE "abort"
              ELSE IF task[x].pc = "join" THEN IF mem.starting.m = None THEN "await" ELSE "abort"
              ELSE task[x].pc)
        /\ mem'.creating = None
    BY <1>3, SaveMoves
  <2> SUFFICES ASSUME NEW x \in Calls, task'[x].pc = "save"
               PROVE  rec'[task'[x].m] = "none"
    BY DEF Unmade, Started
  <2> QED BY <1>3, <2>1 DEF Unmade, Started, RecordKept, Sleep, At, Calls, OneMaker
<1>4. ASSUME NEW s \in Starts, Prepare(s) PROVE Unmade'
  BY <1>4, PrepareMoves DEF Unmade, Started, RecordKept, Sleep, Holds, Told, Waiting, At, Calls
<1>5. ASSUME NEW s \in Starts, OpenPage(s) PROVE Unmade'
  BY <1>5, OpenMoves DEF Unmade, Started, RecordKept, Sleep, OpenPage, Told, At, Calls
<1>6. ASSUME NEW s \in Starts, CapturePage(s) PROVE Unmade'
  BY <1>6, CaptureMoves DEF Unmade, Started, RecordKept, Sleep, Told, At, Calls
<1>7. ASSUME NEW s \in Starts, PersistCaptures(s) PROVE Unmade'
  BY <1>7, PersistMoves DEF Unmade, Started, RecordKept, Sleep, Holds, Told, Waiting, At, Calls
<1>8. ASSUME NEW s \in Starts, UndoCapture(s) PROVE Unmade'
  BY <1>8, UndoMoves DEF Unmade, Started, RecordKept, Sleep, Holds, Told, Waiting, At, PageQuiet, Calls
<1>9. ASSUME NEW s \in Starts, AbortStart(s) PROVE Unmade'
  BY <1>9, AbortMoves DEF Unmade, Started, RecordKept, Sleep, Told, At, Calls
<1>10. ASSUME NEW s \in Starts, EraseMeeting(s) PROVE Unmade'
  <2>1. At(s, "erase") /\ Told({s}, "done", None) /\ mem'.creating = mem.creating
    BY <1>10, EraseMoves
  <2> SUFFICES ASSUME NEW x \in Calls, task'[x].pc = "save"
               PROVE  rec'[task'[x].m] = "none"
    BY DEF Unmade, Started
  <2> QED BY <1>10, <2>1 DEF Unmade, Started, RecordKept, Sleep, Told, At, Calls
<1>11. ASSUME NEW c \in Stops, StopRequested(c) PROVE Unmade'
  BY <1>11, StopMoves DEF Unmade, Started, RecordKept, Sleep, Holds, Told, At, IsActive, Calls
<1>12. ASSUME NEW c \in Stops, TabEnded(c) PROVE Unmade'
  BY <1>12, TabMoves DEF Unmade, Started, RecordKept, Sleep, Holds, Told, At, Calls
<1>13. ASSUME NEW c \in Stops, StopRecording(c) PROVE Unmade'
  BY <1>13, FinalMoves, Updating DEF Unmade, Started, RecordKept, Sleep, Holds, Told, At, Calls
<1>14. ASSUME NEW c \in Calls, Teardown(c) PROVE Unmade'
  <2>1. /\ At(c, "teardown") /\ mem.starting.m # task[c].m
        /\ \/ UNCHANGED task /\ mem'.creating = mem.creating
           \/ c \in Starts /\ PageQuiet /\ Told({c}, "done", None) /\ mem'.creating = mem.creating
           \/ /\ c \notin Starts /\ PageQuiet
              /\ Told({c}, "final", task[c].m)
              /\ mem'.creating = mem.creating
    BY <1>14, TeardownMoves DEF Holds, Teardown
  <2> SUFFICES ASSUME NEW x \in Calls, task'[x].pc = "save"
               PROVE  rec'[task'[x].m] = "none"
    BY DEF Unmade, Started
  <2>2. CASE /\ UNCHANGED task
               /\ mem'.creating = mem.creating
    BY <1>14, <2>1, <2>2 DEF Unmade, Started, RecordKept, Sleep, Told, At, PageQuiet
  <2>3. CASE /\ c \in Starts /\ PageQuiet
               /\ Told({c}, "done", None)
               /\ mem'.creating = mem.creating
    BY <1>14, <2>1, <2>3 DEF Unmade, Started, RecordKept, Sleep, Told, At, PageQuiet
  <2>4. CASE /\ c \notin Starts /\ PageQuiet
               /\ Told({c}, "final", task[c].m)
               /\ mem'.creating = mem.creating
    BY <1>14, <2>1, <2>4 DEF Unmade, Started, RecordKept, Sleep, Told, At, PageQuiet
  <2> QED BY <2>1, <2>2, <2>3, <2>4
<1>15. ASSUME NEW c \in Calls, FailRecording(c) PROVE Unmade'
  BY <1>15, FailMoves, Updating DEF Unmade, Started, RecordKept, Sleep, Holds, Told, At
<1>16. ASSUME NEW m \in Meetings, NEW fails \in BOOLEAN, CaptureError(m, fails) PROVE Unmade'
  <2>1. /\ mem.up /\ <<m, fails>> \in errors
        /\ \/ UNCHANGED task /\ mem'.creating = mem.creating
           \/ mem.starting.m # m /\ UNCHANGED task /\ mem'.creating = mem.creating
           \/ mem.starting.m # m /\ PageQuiet /\ UNCHANGED task /\ mem'.creating = mem.creating
    BY <1>16, ErrorMoves, Updating DEF Holds
  <2> SUFFICES ASSUME NEW x \in Calls, task'[x].pc = "save"
               PROVE  rec'[task'[x].m] = "none"
    BY DEF Unmade, Started
  <2>2. CASE /\ UNCHANGED task
               /\ mem'.creating = mem.creating
    BY <1>16, <2>1, <2>2 DEF Unmade, Started, RecordKept, Sleep, PageQuiet
  <2>3. CASE /\ mem.starting.m # m
               /\ UNCHANGED task
               /\ mem'.creating = mem.creating
    BY <1>16, <2>1, <2>3 DEF Unmade, Started, RecordKept, Sleep, PageQuiet
  <2>4. CASE /\ mem.starting.m # m /\ PageQuiet
               /\ UNCHANGED task
               /\ mem'.creating = mem.creating
    BY <1>16, <2>1, <2>4 DEF Unmade, Started, RecordKept, Sleep, PageQuiet
  <2> QED BY <2>1, <2>2, <2>3, <2>4
<1>17. ASSUME WriteFails PROVE Unmade'
  BY <1>17, RefuseMoves, ChainHead, Updating DEF Unmade, Started, RecordKept, Sleep, WriteFails,
     StopAfterRefusal
<1>18. ASSUME SettleLostCaptures PROVE Unmade'
  BY <1>18, SettleMoves DEF Unmade, Started, RecordKept, Sleep, Holds, SettleLostCaptures, LostCaptures
<1>19. ASSUME KillWorker PROVE Unmade'
  BY <1>19, KillMoves, AsleepTyped DEF Unmade, Started, RecordKept, Sleep, Asleep, NotStarting, KillWorker
<1>20. ASSUME WakeWorker PROVE Unmade'
  BY <1>20, WakeMoves DEF Unmade, Started, RecordKept, Sleep, OrphanSaved
<1>21. ASSUME NEW c \in Chunks, EmitChunk(c) \/ ReceiveChunk(c) \/ ChunkAnswered(c) \/ ResendChunk(c) \/
         LoseChunk(c)
      PROVE  Unmade'
  BY <1>21 DEF Unmade, Started, RecordKept, EmitChunk, ReceiveChunk, ChunkAnswered, ResendChunk, LoseChunk,
     durable
<1>22. ASSUME WriteChunk \/ PageStopped \/ PageCrashes
      PROVE  Unmade'
  BY <1>22 DEF Unmade, Started, RecordKept, WriteChunk, PageStopped, PageCrashes, durable
<1>23. CASE UNCHANGED vars
  BY <1>23 DEF vars, durable, Unmade, Started, RecordKept
<1> QED BY <1>1, <1>2, <1>3, <1>4, <1>5, <1>6, <1>7, <1>8, <1>9, <1>10, <1>11, <1>12, <1>13, <1>14, <1>15,
         <1>16, <1>17, <1>18, <1>19, <1>20, <1>21, <1>22, <1>23 DEF Next, StartStep, StopStep, PageStep


LEMMA MadeStep ==
  ASSUME Inv, TypeOK', RecordKept, [Next]_vars
  PROVE  Made'
<1>. USE RecorderAssumption, Ids, TypesApart DEF Inv, Creating, Known, Attempting, Closing, Active, Audio, Watched
<1>1. ASSUME NEW s \in Starts, StartRequested(s) PROVE Made'
  BY <1>1, StartRequestedMoves DEF Made, Started, RecordKept, Sleep, KnownCaptures, Current, Calls, At, Told
<1>2. ASSUME NEW s \in Starts, CreateMeeting(s) PROVE Made'
  BY <1>2, CreateMoves DEF Made, Started, RecordKept, Sleep, KnownCaptures, Current, Shares, Follows, Joins,
     Creates, Holds, Told, At, Unused, Calls
<1>3. ASSUME NEW s \in Starts, SaveMeeting(s) PROVE Made'
  <2>1. /\ At(s, "save") /\ task[s].m \in Meetings
        /\ (\A x \in Calls : task'[x].m = task[x].m)
        /\ (\A x \in Calls : task'[x].pc =
              IF x = s THEN IF mem.starting.m = None THEN "prepare" ELSE "abort"
              ELSE IF task[x].pc = "join" THEN IF mem.starting.m = None THEN "await" ELSE "abort"
              ELSE task[x].pc)
        /\ mem'.creating = None
        /\ rec' = [rec EXCEPT ![task[s].m] = "recording"]
    BY <1>3, SaveMoves
  <2> SUFFICES ASSUME NEW x \in Calls, task'[x].m # None, task'[x].pc \notin {"save", "join"}
               PROVE  rec'[task'[x].m] # "none"
    BY DEF Made, Started
  <2> QED BY <1>3, <2>1 DEF Made, Started, RecordKept, Sleep, KnownCaptures, Current, At, Calls, Makers,
         RecordsTyped
<1>4. ASSUME NEW s \in Starts, Prepare(s) PROVE Made'
  BY <1>4, PrepareMoves DEF Made, Started, RecordKept, Sleep, KnownCaptures, Current, Holds, Told, Waiting,
     At, Calls
<1>5. ASSUME NEW s \in Starts, OpenPage(s) PROVE Made'
  BY <1>5, OpenMoves DEF Made, Started, RecordKept, Sleep, KnownCaptures, Current, OpenPage, Told, At, Calls
<1>6. ASSUME NEW s \in Starts, CapturePage(s) PROVE Made'
  BY <1>6, CaptureMoves DEF Made, Started, RecordKept, Sleep, KnownCaptures, Current, Told, At, Calls
<1>7. ASSUME NEW s \in Starts, PersistCaptures(s) PROVE Made'
  BY <1>7, PersistMoves DEF Made, Started, RecordKept, Sleep, KnownCaptures, Current, Holds, Told, Waiting,
     At, Calls
<1>8. ASSUME NEW s \in Starts, UndoCapture(s) PROVE Made'
  BY <1>8, UndoMoves DEF Made, Started, RecordKept, Sleep, KnownCaptures, Current, Holds, Told, Waiting, At,
     PageQuiet, Calls
<1>9. ASSUME NEW s \in Starts, AbortStart(s) PROVE Made'
  BY <1>9, AbortMoves DEF Made, Started, RecordKept, Sleep, KnownCaptures, Current, Told, At, Calls
<1>10. ASSUME NEW s \in Starts, EraseMeeting(s) PROVE Made'
  <2>1. At(s, "erase") /\ Told({s}, "done", None)
    BY <1>10, EraseMoves
  <2> QED BY <1>10, <2>1 DEF Made, Started, RecordKept, Sleep, KnownCaptures, Current, Told, At, Calls
<1>11. ASSUME NEW c \in Stops, StopRequested(c) PROVE Made'
  BY <1>11, StopMoves DEF Made, Started, RecordKept, Sleep, KnownCaptures, Current, Holds, Told, At,
     IsActive, Calls
<1>12. ASSUME NEW c \in Stops, TabEnded(c) PROVE Made'
  BY <1>12, TabMoves DEF Made, Started, RecordKept, Sleep, KnownCaptures, Current, Holds, Told, At, Calls
<1>13. ASSUME NEW c \in Stops, StopRecording(c) PROVE Made'
  BY <1>13, FinalMoves, Updating DEF Made, Started, RecordKept, Sleep, KnownCaptures, Current, Holds, Told,
     At, Calls
<1>14. ASSUME NEW c \in Calls, Teardown(c) PROVE Made'
  <2>1. /\ At(c, "teardown") /\ mem.starting.m # task[c].m
        /\ \/ UNCHANGED task
           \/ c \in Starts /\ PageQuiet /\ Told({c}, "done", None)
           \/ c \notin Starts /\ PageQuiet /\ Told({c}, "final", task[c].m)
    BY <1>14, TeardownMoves DEF Holds, Teardown
  <2> QED BY <1>14, <2>1 DEF Made, Started, RecordKept, Sleep, KnownCaptures, Current, Told, At, PageQuiet
<1>15. ASSUME NEW c \in Calls, FailRecording(c) PROVE Made'
  BY <1>15, FailMoves, Updating DEF Made, Started, RecordKept, Sleep, KnownCaptures, Current, Holds, Told,
     At
<1>16. ASSUME NEW m \in Meetings, NEW fails \in BOOLEAN, CaptureError(m, fails) PROVE Made'
  <2>1. /\ mem.up /\ <<m, fails>> \in errors
        /\ \/ UNCHANGED task
           \/ mem.starting.m # m /\ UNCHANGED task
           \/ mem.starting.m # m /\ PageQuiet /\ UNCHANGED task
    BY <1>16, ErrorMoves, Updating DEF Holds
  <2> QED BY <1>16, <2>1 DEF Made, Started, RecordKept, Sleep, KnownCaptures, Current, PageQuiet
<1>17. ASSUME WriteFails PROVE Made'
  BY <1>17, RefuseMoves, ChainHead, Updating DEF Made, Started, RecordKept, Sleep, KnownCaptures, Current,
     WriteFails, StopAfterRefusal
<1>18. ASSUME SettleLostCaptures PROVE Made'
  BY <1>18, SettleMoves DEF Made, Started, RecordKept, Sleep, KnownCaptures, Current, Holds,
     SettleLostCaptures, LostCaptures
<1>19. ASSUME KillWorker PROVE Made'
  BY <1>19, KillMoves, AsleepTyped DEF Made, Started, RecordKept, Sleep, KnownCaptures, Current, Asleep,
     NotStarting, KillWorker
<1>20. ASSUME WakeWorker PROVE Made'
  BY <1>20, WakeMoves DEF Made, Started, RecordKept, Sleep, KnownCaptures, Current, OrphanSaved
<1>21. ASSUME NEW c \in Chunks, EmitChunk(c) \/ ReceiveChunk(c) \/ ChunkAnswered(c) \/ ResendChunk(c) \/
         LoseChunk(c)
      PROVE  Made'
  BY <1>21 DEF Made, Started, RecordKept, EmitChunk, ReceiveChunk, ChunkAnswered, ResendChunk, LoseChunk,
     durable
<1>22. ASSUME WriteChunk \/ PageStopped \/ PageCrashes
      PROVE  Made'
  BY <1>22 DEF Made, Started, RecordKept, WriteChunk, PageStopped, PageCrashes, durable
<1>23. CASE UNCHANGED vars
  BY <1>23 DEF vars, durable, Made, Started, RecordKept
<1> QED BY <1>1, <1>2, <1>3, <1>4, <1>5, <1>6, <1>7, <1>8, <1>9, <1>10, <1>11, <1>12, <1>13, <1>14, <1>15,
         <1>16, <1>17, <1>18, <1>19, <1>20, <1>21, <1>22, <1>23 DEF Next, StartStep, StopStep, PageStep


LEMMA KnownCapturesStep ==
  ASSUME Inv, TypeOK', RecordKept, [Next]_vars
  PROVE  KnownCaptures'
<1>. USE RecorderAssumption, Ids, TypesApart DEF Inv, Creating, Known, Attempting, Closing, Active, Audio, Watched
<1>1. ASSUME NEW s \in Starts, CreateMeeting(s) PROVE KnownCaptures'
  BY <1>1, CreateMoves DEF KnownCaptures, Started, RecordKept, Made, Sleep, Current, RecordsTyped, Shares,
     Follows, Joins, Creates, Holds, At, Unused, Calls
<1>2. ASSUME NEW s \in Starts, SaveMeeting(s) PROVE KnownCaptures'
  BY <1>2, SaveMoves DEF KnownCaptures, Started, RecordKept, Made, Sleep, Current, RecordsTyped, At, Calls
<1>3. ASSUME NEW s \in Starts, Prepare(s) PROVE KnownCaptures'
  <2>1. /\ At(s, "prepare")
        /\ \/ mem'.captures = mem.captures \cup {task[s].m} /\ session' = session
           \/ mem'.captures = mem.captures /\ session' = session
    BY <1>3, PrepareMoves DEF Holds
  <2> SUFFICES ASSUME NEW x \in mem'.captures \cup session'
               PROVE  rec'[x] # "none"
    BY DEF KnownCaptures, Started
  <2>2. CASE /\ mem'.captures = mem.captures \cup {task[s].m}
               /\ session' = session
    BY <1>3, <2>1, <2>2 DEF KnownCaptures, Started, RecordKept, Made, Sleep, Current, RecordsTyped, At,
       Calls
  <2>3. CASE /\ mem'.captures = mem.captures
               /\ session' = session
    BY <1>3, <2>1, <2>3 DEF KnownCaptures, Started, RecordKept, Made, Sleep, Current, RecordsTyped, At,
       Calls
  <2> QED BY <2>1, <2>2, <2>3
<1>4. ASSUME NEW s \in Starts, PersistCaptures(s) PROVE KnownCaptures'
  <2>1. /\ At(s, "persist")
        /\ \/ /\ mem.active = task[s].m
              /\ mem'.captures = mem.captures
              /\ session' \in {mem.captures, session}
           \/ /\ mem.active # task[s].m
              /\ mem'.captures = mem.captures
              /\ session' \in {mem.captures, session}
    BY <1>4, PersistMoves DEF Holds
  <2> QED BY <1>4, <2>1 DEF KnownCaptures, Started, RecordKept, Made, Sleep, Current, RecordsTyped, At,
         Calls
<1>5. ASSUME NEW s \in Starts, UndoCapture(s) PROVE KnownCaptures'
  <2>1. /\ At(s, "undo")
        /\ \/ mem'.captures = mem.captures /\ session' = session
           \/ /\ PageQuiet
              /\ mem'.captures = mem.captures \ {task[s].m}
              /\ session' = mem.captures \ {task[s].m}
    BY <1>5, UndoMoves DEF Holds
  <2> QED BY <1>5, <2>1 DEF KnownCaptures, Started, RecordKept, Made, Sleep, Current, RecordsTyped, At,
         PageQuiet, Calls
<1>6. ASSUME NEW s \in Starts, EraseMeeting(s) PROVE KnownCaptures'
  BY <1>6, EraseMoves DEF KnownCaptures, Started, RecordKept, Made, Sleep, Current, RecordsTyped, At, Calls
<1>7. ASSUME NEW c \in Stops, StopRequested(c) PROVE KnownCaptures'
  <2>1. /\ At(c, "new") /\ mem.active \in Meetings
        /\ \/ IsActive(mem.active) /\ mem'.captures = mem.captures /\ session' = session
           \/ ~IsActive(mem.active) /\ mem'.captures = mem.captures /\ session' = session
    BY <1>7, StopMoves DEF Holds
  <2> QED BY <1>7, <2>1 DEF KnownCaptures, Started, RecordKept, Made, Sleep, Current, RecordsTyped, At,
         IsActive, Calls
<1>8. ASSUME NEW c \in Stops, TabEnded(c) PROVE KnownCaptures'
  BY <1>8, TabMoves DEF KnownCaptures, Started, RecordKept, Made, Sleep, Current, RecordsTyped, Holds, At,
     Calls
<1>9. ASSUME NEW c \in Stops, StopRecording(c) PROVE KnownCaptures'
  <2>1. /\ At(c, "final")
        /\ \/ /\ rec[task[c].m] \in {"recording", "deleted"}
              /\ mem'.captures = mem.captures
              /\ session' = session
           \/ /\ rec[task[c].m] \notin {"recording", "deleted"}
              /\ mem'.captures = mem.captures
              /\ session' = session
    BY <1>9, FinalMoves, Updating DEF Holds
  <2> QED BY <1>9, <2>1 DEF KnownCaptures, Started, RecordKept, Made, Sleep, Current, RecordsTyped, At,
         Calls
<1>10. ASSUME NEW c \in Calls, Teardown(c) PROVE KnownCaptures'
  <2>1. /\ At(c, "teardown") /\ mem.starting.m # task[c].m
        /\ \/ mem'.captures = mem.captures /\ session' = session
           \/ /\ c \in Starts /\ PageQuiet
              /\ mem'.captures = mem.captures \ {task[c].m}
              /\ session' = mem.captures \ {task[c].m}
           \/ /\ c \notin Starts /\ PageQuiet
              /\ mem'.captures = mem.captures \ {task[c].m}
              /\ session' = mem.captures \ {task[c].m}
    BY <1>10, TeardownMoves DEF Holds, Teardown
  <2> QED BY <1>10, <2>1 DEF KnownCaptures, Started, RecordKept, Made, Sleep, Current, RecordsTyped, At,
         PageQuiet
<1>11. ASSUME NEW c \in Calls, FailRecording(c) PROVE KnownCaptures'
  BY <1>11, FailMoves, Updating DEF KnownCaptures, Started, RecordKept, Made, Sleep, Current, RecordsTyped,
     Holds, At
<1>12. ASSUME NEW m \in Meetings, NEW fails \in BOOLEAN, CaptureError(m, fails) PROVE KnownCaptures'
  <2>1. /\ mem.up /\ <<m, fails>> \in errors
        /\ \/ mem'.captures = mem.captures /\ session' = session
           \/ mem.starting.m # m /\ mem'.captures = mem.captures /\ session' = session
           \/ /\ mem.starting.m # m /\ PageQuiet
              /\ mem'.captures = mem.captures \ {m}
              /\ session' = mem.captures \ {m}
    BY <1>12, ErrorMoves, Updating DEF Holds
  <2> QED BY <1>12, <2>1 DEF KnownCaptures, Started, RecordKept, Made, Sleep, Current, RecordsTyped,
         PageQuiet
<1>13. ASSUME NEW c \in Chunks, ReceiveChunk(c) PROVE KnownCaptures'
  BY <1>13, ReceiveMoves DEF KnownCaptures, Started, RecordKept, Made, Sleep, Current, RecordsTyped, Holds,
     Born
<1>14. ASSUME WriteChunk PROVE KnownCaptures'
  BY <1>14, WriteMoves, ChainHead DEF KnownCaptures, Started, RecordKept, Made, Sleep, Current,
     RecordsTyped, WriteChunk
<1>15. ASSUME WriteFails PROVE KnownCaptures'
  BY <1>15, RefuseMoves, ChainHead, Updating DEF KnownCaptures, Started, RecordKept, Made, Sleep, Current,
     RecordsTyped, WriteFails, StopAfterRefusal
<1>16. ASSUME SettleLostCaptures PROVE KnownCaptures'
  BY <1>16, SettleMoves DEF KnownCaptures, Started, RecordKept, Made, Sleep, Current, RecordsTyped, Holds,
     SettleLostCaptures, LostCaptures
<1>17. ASSUME KillWorker PROVE KnownCaptures'
  BY <1>17, KillMoves, AsleepTyped DEF KnownCaptures, Started, RecordKept, Made, Sleep, Current,
     RecordsTyped, Asleep, NotStarting, KillWorker
<1>18. ASSUME WakeWorker PROVE KnownCaptures'
  BY <1>18, WakeMoves DEF KnownCaptures, Started, RecordKept, Made, Sleep, Current, RecordsTyped,
     OrphanSaved, Restored
<1>19. ASSUME NEW s \in Starts, StartRequested(s) \/ OpenPage(s) \/ CapturePage(s) \/ AbortStart(s)
      PROVE  KnownCaptures'
  BY <1>19 DEF KnownCaptures, Started, RecordKept, StartRequested, OpenPage, CapturePage, AbortStart,
     durable
<1>20. ASSUME NEW c \in Chunks, EmitChunk(c) \/ ChunkAnswered(c) \/ ResendChunk(c) \/ LoseChunk(c)
      PROVE  KnownCaptures'
  BY <1>20 DEF KnownCaptures, Started, RecordKept, EmitChunk, ChunkAnswered, ResendChunk, LoseChunk, durable
<1>21. ASSUME PageStopped \/ PageCrashes
      PROVE  KnownCaptures'
  BY <1>21 DEF KnownCaptures, Started, RecordKept, PageStopped, PageCrashes, durable
<1>22. CASE UNCHANGED vars
  BY <1>22 DEF vars, durable, KnownCaptures, Started, RecordKept
<1> QED BY <1>1, <1>2, <1>3, <1>4, <1>5, <1>6, <1>7, <1>8, <1>9, <1>10, <1>11, <1>12, <1>13, <1>14, <1>15,
         <1>16, <1>17, <1>18, <1>19, <1>20, <1>21, <1>22 DEF Next, StartStep, StopStep, PageStep


LEMMA KnownStartStep ==
  ASSUME Inv, TypeOK', RecordKept, [Next]_vars
  PROVE  KnownStart'
<1>. USE RecorderAssumption, Ids, TypesApart DEF Inv, Creating, Known, Attempting, Closing, Active, Audio, Watched
<1>1. ASSUME NEW s \in Starts, CreateMeeting(s) PROVE KnownStart'
  BY <1>1, CreateMoves DEF KnownStart, Started, RecordKept, Current, Made, Shares, Follows, Joins, Creates,
     Holds, At, Unused, Calls
<1>2. ASSUME NEW s \in Starts, SaveMeeting(s) PROVE KnownStart'
  <2>1. /\ At(s, "save") /\ task[s].m \in Meetings
        /\ mem'.starting.m = IF mem.starting.m = None THEN task[s].m ELSE mem.starting.m
        /\ rec' = [rec EXCEPT ![task[s].m] = "recording"]
    BY <1>2, SaveMoves
  <2> SUFFICES ASSUME mem'.starting.m # None
               PROVE  rec'[mem'.starting.m] # "none"
    BY DEF KnownStart, Started
  <2> QED BY <1>2, <2>1 DEF KnownStart, Started, RecordKept, Current, Made, At, Calls, RecordsTyped
<1>3. ASSUME NEW s \in Starts, Prepare(s) PROVE KnownStart'
  BY <1>3, PrepareMoves DEF KnownStart, Started, RecordKept, Current, Made, Holds, At, Calls
<1>4. ASSUME NEW s \in Starts, PersistCaptures(s) PROVE KnownStart'
  BY <1>4, PersistMoves DEF KnownStart, Started, RecordKept, Current, Made, Holds, At, Calls
<1>5. ASSUME NEW s \in Starts, UndoCapture(s) PROVE KnownStart'
  BY <1>5, UndoMoves DEF KnownStart, Started, RecordKept, Current, Made, Holds, At, PageQuiet, Calls
<1>6. ASSUME NEW s \in Starts, EraseMeeting(s) PROVE KnownStart'
  <2>1. At(s, "erase") /\ mem'.starting.m = mem.starting.m
    BY <1>6, EraseMoves
  <2> QED BY <1>6, <2>1 DEF KnownStart, Started, RecordKept, Current, Made, At, Calls
<1>7. ASSUME NEW c \in Stops, StopRequested(c) PROVE KnownStart'
  BY <1>7, StopMoves DEF KnownStart, Started, RecordKept, Current, Made, Holds, At, IsActive, Calls
<1>8. ASSUME NEW c \in Stops, TabEnded(c) PROVE KnownStart'
  BY <1>8, TabMoves DEF KnownStart, Started, RecordKept, Current, Made, Holds, At, Calls
<1>9. ASSUME NEW c \in Stops, StopRecording(c) PROVE KnownStart'
  <2>1. /\ At(c, "final")
        /\ \/ rec[task[c].m] \in {"recording", "deleted"} /\ mem'.starting.m = mem.starting.m
           \/ rec[task[c].m] \notin {"recording", "deleted"} /\ mem'.starting.m = mem.starting.m
    BY <1>9, FinalMoves, Updating DEF Holds
  <2> QED BY <1>9, <2>1 DEF KnownStart, Started, RecordKept, Current, Made, At, Calls
<1>10. ASSUME NEW c \in Calls, Teardown(c) PROVE KnownStart'
  BY <1>10, TeardownMoves DEF KnownStart, Started, RecordKept, Current, Made, Holds, Teardown, At, PageQuiet
<1>11. ASSUME NEW c \in Calls, FailRecording(c) PROVE KnownStart'
  <2>1. At(c, "fail") /\ mem'.starting.m = mem.starting.m
    BY <1>11, FailMoves, Updating DEF Holds
  <2> QED BY <1>11, <2>1 DEF KnownStart, Started, RecordKept, Current, Made, At
<1>12. ASSUME NEW m \in Meetings, NEW fails \in BOOLEAN, CaptureError(m, fails) PROVE KnownStart'
  <2>1. /\ mem.up /\ <<m, fails>> \in errors
        /\ \/ mem'.starting.m = mem.starting.m
           \/ mem.starting.m # m /\ mem'.starting.m = mem.starting.m
           \/ mem.starting.m # m /\ PageQuiet /\ mem'.starting.m = mem.starting.m
    BY <1>12, ErrorMoves, Updating DEF Holds
  <2> QED BY <1>12, <2>1 DEF KnownStart, Started, RecordKept, Current, Made, PageQuiet
<1>13. ASSUME NEW c \in Chunks, ReceiveChunk(c) PROVE KnownStart'
  BY <1>13, ReceiveMoves DEF KnownStart, Started, RecordKept, Current, Made, Holds
<1>14. ASSUME WriteChunk PROVE KnownStart'
  BY <1>14, WriteMoves, ChainHead DEF KnownStart, Started, RecordKept, Current, Made, WriteChunk
<1>15. ASSUME WriteFails PROVE KnownStart'
  BY <1>15, RefuseMoves, ChainHead, Updating DEF KnownStart, Started, RecordKept, Current, Made, WriteFails,
     StopAfterRefusal
<1>16. ASSUME SettleLostCaptures PROVE KnownStart'
  BY <1>16, SettleMoves DEF KnownStart, Started, RecordKept, Current, Made, Holds, SettleLostCaptures,
     LostCaptures
<1>17. ASSUME KillWorker PROVE KnownStart'
  BY <1>17, KillMoves, AsleepTyped DEF KnownStart, Started, RecordKept, Current, Made, Asleep, NotStarting,
     KillWorker
<1>18. ASSUME WakeWorker PROVE KnownStart'
  BY <1>18, WakeMoves DEF KnownStart, Started, RecordKept, Current, Made, OrphanSaved
<1>19. ASSUME NEW s \in Starts, StartRequested(s) \/ OpenPage(s) \/ CapturePage(s) \/ AbortStart(s)
      PROVE  KnownStart'
  BY <1>19 DEF KnownStart, Started, RecordKept, StartRequested, OpenPage, CapturePage, AbortStart, durable
<1>20. ASSUME NEW c \in Chunks, EmitChunk(c) \/ ChunkAnswered(c) \/ ResendChunk(c) \/ LoseChunk(c)
      PROVE  KnownStart'
  BY <1>20 DEF KnownStart, Started, RecordKept, EmitChunk, ChunkAnswered, ResendChunk, LoseChunk, durable
<1>21. ASSUME PageStopped \/ PageCrashes
      PROVE  KnownStart'
  BY <1>21 DEF KnownStart, Started, RecordKept, PageStopped, PageCrashes, durable
<1>22. CASE UNCHANGED vars
  BY <1>22 DEF vars, durable, KnownStart, Started, RecordKept
<1> QED BY <1>1, <1>2, <1>3, <1>4, <1>5, <1>6, <1>7, <1>8, <1>9, <1>10, <1>11, <1>12, <1>13, <1>14, <1>15,
         <1>16, <1>17, <1>18, <1>19, <1>20, <1>21, <1>22 DEF Next, StartStep, StopStep, PageStep


LEMMA KnownPageStep ==
  ASSUME Inv, TypeOK', RecordKept, [Next]_vars
  PROVE  KnownPage'
<1>. USE RecorderAssumption, Ids, TypesApart DEF Inv, Creating, Known, Attempting, Closing, Active, Audio, Watched
<1>1. ASSUME NEW s \in Starts, SaveMeeting(s) PROVE KnownPage'
  <2>1. At(s, "save") /\ task[s].m \in Meetings /\ page' = page
    BY <1>1, SaveMoves
  <2> QED BY <1>1, <2>1 DEF KnownPage, Started, RecordKept, Made, Sleep, At, Calls
<1>2. ASSUME NEW s \in Starts, OpenPage(s) PROVE KnownPage'
  BY <1>2, OpenMoves DEF KnownPage, Started, RecordKept, Made, Sleep, OpenPage, At, Calls
<1>3. ASSUME NEW s \in Starts, CapturePage(s) PROVE KnownPage'
  <2>1. /\ At(s, "capture")
        /\ \/ page.state = "capturing" /\ page' = [page EXCEPT !.state = "stopping"]
           \/ page.state = "idle" /\ page' = [state |-> "capturing", m |-> task[s].m]
           \/ page' = page
    BY <1>3, CaptureMoves
  <2> SUFFICES ASSUME page'.m # None
               PROVE  rec'[page'.m] # "none"
    BY DEF KnownPage, Started
  <2>2. CASE /\ page.state = "capturing"
               /\ page' = [page EXCEPT !.state = "stopping"]
    BY <1>3, <2>1, <2>2 DEF KnownPage, Started, RecordKept, Made, Sleep, At, Calls
  <2>3. CASE /\ page.state = "idle"
               /\ page' = [state |-> "capturing", m |-> task[s].m]
    BY <1>3, <2>1, <2>3 DEF KnownPage, Started, RecordKept, Made, Sleep, At, Calls
  <2>4. CASE page' = page
    BY <1>3, <2>1, <2>4 DEF KnownPage, Started, RecordKept, Made, Sleep, At, Calls
  <2> QED BY <2>1, <2>2, <2>3, <2>4
<1>4. ASSUME NEW s \in Starts, UndoCapture(s) PROVE KnownPage'
  <2>1. /\ At(s, "undo")
        /\ \/ StopPage
           \/ PageQuiet /\ page' = Gone
    BY <1>4, UndoMoves DEF Holds
  <2> SUFFICES ASSUME page'.m # None
               PROVE  rec'[page'.m] # "none"
    BY DEF KnownPage, Started
  <2>2. CASE StopPage
    BY <1>4, <2>1, <2>2 DEF KnownPage, Started, RecordKept, Made, Sleep, At, StopPage, PageQuiet, Gone,
       Calls
  <2>3. CASE /\ PageQuiet
               /\ page' = Gone
    BY <1>4, <2>1, <2>3 DEF KnownPage, Started, RecordKept, Made, Sleep, At, StopPage, PageQuiet, Gone,
       Calls
  <2> QED BY <2>1, <2>2, <2>3
<1>5. ASSUME NEW s \in Starts, EraseMeeting(s) PROVE KnownPage'
  <2>1. At(s, "erase") /\ page' = page
    BY <1>5, EraseMoves
  <2> QED BY <1>5, <2>1 DEF KnownPage, Started, RecordKept, Made, Sleep, At, Calls
<1>6. ASSUME NEW c \in Stops, StopRecording(c) PROVE KnownPage'
  <2>1. /\ At(c, "final")
        /\ \/ rec[task[c].m] \in {"recording", "deleted"} /\ page' = page
           \/ rec[task[c].m] \notin {"recording", "deleted"} /\ page' = page
    BY <1>6, FinalMoves, Updating DEF Holds
  <2> QED BY <1>6, <2>1 DEF KnownPage, Started, RecordKept, Made, Sleep, At, Calls
<1>7. ASSUME NEW c \in Calls, Teardown(c) PROVE KnownPage'
  <2>1. /\ At(c, "teardown") /\ mem.starting.m # task[c].m
        /\ \/ StopPage
           \/ c \in Starts /\ PageQuiet /\ page' = Gone
           \/ c \notin Starts /\ PageQuiet /\ page' = Gone
    BY <1>7, TeardownMoves DEF Holds, Teardown
  <2> SUFFICES ASSUME page'.m # None
               PROVE  rec'[page'.m] # "none"
    BY DEF KnownPage, Started
  <2>2. CASE StopPage
    BY <1>7, <2>1, <2>2 DEF KnownPage, Started, RecordKept, Made, Sleep, At, StopPage, PageQuiet, Gone
  <2>3. CASE /\ c \in Starts /\ PageQuiet
               /\ page' = Gone
    BY <1>7, <2>1, <2>3 DEF KnownPage, Started, RecordKept, Made, Sleep, At, StopPage, PageQuiet, Gone
  <2>4. CASE /\ c \notin Starts /\ PageQuiet
               /\ page' = Gone
    BY <1>7, <2>1, <2>4 DEF KnownPage, Started, RecordKept, Made, Sleep, At, StopPage, PageQuiet, Gone
  <2> QED BY <2>1, <2>2, <2>3, <2>4
<1>8. ASSUME NEW c \in Calls, FailRecording(c) PROVE KnownPage'
  <2>1. At(c, "fail") /\ page' = page
    BY <1>8, FailMoves, Updating DEF Holds
  <2> QED BY <1>8, <2>1 DEF KnownPage, Started, RecordKept, Made, Sleep, At
<1>9. ASSUME NEW m \in Meetings, NEW fails \in BOOLEAN, CaptureError(m, fails) PROVE KnownPage'
  <2>1. /\ mem.up /\ <<m, fails>> \in errors
        /\ \/ page' = page
           \/ mem.starting.m # m /\ StopPage
           \/ mem.starting.m # m /\ PageQuiet /\ page' = Gone
    BY <1>9, ErrorMoves, Updating DEF Holds
  <2> SUFFICES ASSUME page'.m # None
               PROVE  rec'[page'.m] # "none"
    BY DEF KnownPage, Started
  <2>2. CASE page' = page
    BY <1>9, <2>1, <2>2 DEF KnownPage, Started, RecordKept, Made, Sleep, StopPage, PageQuiet, Gone
  <2>3. CASE /\ mem.starting.m # m
               /\ StopPage
    BY <1>9, <2>1, <2>3 DEF KnownPage, Started, RecordKept, Made, Sleep, StopPage, PageQuiet, Gone
  <2>4. CASE /\ mem.starting.m # m /\ PageQuiet
               /\ page' = Gone
    BY <1>9, <2>1, <2>4 DEF KnownPage, Started, RecordKept, Made, Sleep, StopPage, PageQuiet, Gone
  <2> QED BY <2>1, <2>2, <2>3, <2>4
<1>10. ASSUME NEW c \in Chunks, LoseChunk(c) PROVE KnownPage'
  BY <1>10 DEF KnownPage, Started, RecordKept, Made, Sleep, LoseChunk, Move, durable
<1>11. ASSUME WriteFails PROVE KnownPage'
  BY <1>11, RefuseMoves, ChainHead, Updating DEF KnownPage, Started, RecordKept, Made, Sleep, WriteFails,
     StopAfterRefusal
<1>12. ASSUME PageStopped PROVE KnownPage'
  BY <1>12 DEF KnownPage, Started, RecordKept, Made, Sleep, PageStopped, durable
<1>13. ASSUME SettleLostCaptures PROVE KnownPage'
  BY <1>13, SettleMoves DEF KnownPage, Started, RecordKept, Made, Sleep, Holds, SettleLostCaptures,
     LostCaptures
<1>14. ASSUME PageCrashes PROVE KnownPage'
  BY <1>14 DEF KnownPage, Started, RecordKept, Made, Sleep, PageCrashes, Gone, durable
<1>15. ASSUME WakeWorker PROVE KnownPage'
  BY <1>15, WakeMoves DEF KnownPage, Started, RecordKept, Made, Sleep, OrphanSaved
<1>16. ASSUME NEW s \in Starts, StartRequested(s) \/ CreateMeeting(s) \/ Prepare(s) \/ PersistCaptures(s) \/
         AbortStart(s)
      PROVE  KnownPage'
  BY <1>16 DEF KnownPage, Started, RecordKept, StartRequested, CreateMeeting, Prepare, PersistCaptures,
     AbortStart, durable
<1>17. ASSUME NEW c \in Stops, StopRequested(c) \/ TabEnded(c)
      PROVE  KnownPage'
  BY <1>17 DEF KnownPage, Started, RecordKept, StopRequested, TabEnded, durable
<1>18. ASSUME NEW c \in Chunks, EmitChunk(c) \/ ReceiveChunk(c) \/ ChunkAnswered(c) \/ ResendChunk(c)
      PROVE  KnownPage'
  BY <1>18 DEF KnownPage, Started, RecordKept, EmitChunk, ReceiveChunk, ChunkAnswered, ResendChunk, durable
<1>19. ASSUME WriteChunk \/ KillWorker
      PROVE  KnownPage'
  BY <1>19 DEF KnownPage, Started, RecordKept, WriteChunk, KillWorker, durable
<1>20. CASE UNCHANGED vars
  BY <1>20 DEF vars, durable, KnownPage, Started, RecordKept
<1> QED BY <1>1, <1>2, <1>3, <1>4, <1>5, <1>6, <1>7, <1>8, <1>9, <1>10, <1>11, <1>12, <1>13, <1>14, <1>15,
         <1>16, <1>17, <1>18, <1>19, <1>20 DEF Next, StartStep, StopStep, PageStep


LEMMA KnownChunksStep ==
  ASSUME Inv, TypeOK', RecordKept, [Next]_vars
  PROVE  KnownChunks'
<1>. USE RecorderAssumption, Ids, TypesApart DEF Inv, Creating, Known, Attempting, Closing, Active, Audio, Watched
<1>1. ASSUME NEW s \in Starts, SaveMeeting(s) PROVE KnownChunks'
  <2>1. At(s, "save") /\ task[s].m \in Meetings /\ chunk' = chunk
    BY <1>1, SaveMoves
  <2> QED BY <1>1, <2>1 DEF KnownChunks, Started, RecordKept, ChunksTyped, ChunkState, KnownPage, Paged,
         Held, At, Calls
<1>2. ASSUME NEW s \in Starts, EraseMeeting(s) PROVE KnownChunks'
  <2>1. At(s, "erase") /\ chunk' = chunk
    BY <1>2, EraseMoves
  <2> QED BY <1>2, <2>1 DEF KnownChunks, Started, RecordKept, ChunksTyped, ChunkState, KnownPage, Paged,
         Held, At, Calls
<1>3. ASSUME NEW c \in Stops, StopRecording(c) PROVE KnownChunks'
  <2>1. /\ At(c, "final")
        /\ \/ rec[task[c].m] \in {"recording", "deleted"} /\ chunk' = chunk
           \/ rec[task[c].m] \notin {"recording", "deleted"} /\ chunk' = chunk
    BY <1>3, FinalMoves, Updating DEF Holds
  <2> QED BY <1>3, <2>1 DEF KnownChunks, Started, RecordKept, ChunksTyped, ChunkState, KnownPage, Paged,
         Held, At, Calls
<1>4. ASSUME NEW c \in Calls, FailRecording(c) PROVE KnownChunks'
  <2>1. At(c, "fail") /\ chunk' = chunk
    BY <1>4, FailMoves, Updating DEF Holds
  <2> QED BY <1>4, <2>1 DEF KnownChunks, Started, RecordKept, ChunksTyped, ChunkState, KnownPage, Paged,
         Held, At
<1>5. ASSUME NEW m \in Meetings, NEW fails \in BOOLEAN, CaptureError(m, fails) PROVE KnownChunks'
  <2>1. /\ mem.up /\ <<m, fails>> \in errors
        /\ \/ chunk' = chunk
           \/ mem.starting.m # m /\ chunk' = chunk
           \/ mem.starting.m # m /\ PageQuiet /\ chunk' = chunk
    BY <1>5, ErrorMoves, Updating DEF Holds
  <2> QED BY <1>5, <2>1 DEF KnownChunks, Started, RecordKept, ChunksTyped, ChunkState, KnownPage, Paged,
         Held, PageQuiet
<1>6. ASSUME NEW c \in Chunks, EmitChunk(c) PROVE KnownChunks'
  <2> SUFFICES ASSUME NEW x \in Chunks, chunk'[x].m # None
               PROVE  rec'[chunk'[x].m] # "none"
    BY DEF KnownChunks, Started
  <2> QED BY <1>6 DEF KnownChunks, Started, RecordKept, ChunksTyped, ChunkState, KnownPage, Paged, Held,
         EmitChunk, durable
<1>7. ASSUME NEW c \in Chunks, ReceiveChunk(c) PROVE KnownChunks'
  BY <1>7, ReceiveMoves DEF KnownChunks, Started, RecordKept, ChunksTyped, ChunkState, KnownPage, Paged,
     Held, Holds, Move
<1>8. ASSUME NEW c \in Chunks, ChunkAnswered(c) PROVE KnownChunks'
  BY <1>8 DEF KnownChunks, Started, RecordKept, ChunksTyped, ChunkState, KnownPage, Paged, Held,
     ChunkAnswered, Move, durable
<1>9. ASSUME NEW c \in Chunks, ResendChunk(c) PROVE KnownChunks'
  BY <1>9 DEF KnownChunks, Started, RecordKept, ChunksTyped, ChunkState, KnownPage, Paged, Held,
     ResendChunk, Move, durable
<1>10. ASSUME NEW c \in Chunks, LoseChunk(c) PROVE KnownChunks'
  BY <1>10 DEF KnownChunks, Started, RecordKept, ChunksTyped, ChunkState, KnownPage, Paged, Held, LoseChunk,
     Move, durable
<1>11. ASSUME WriteChunk PROVE KnownChunks'
  BY <1>11, WriteMoves, ChainHead DEF KnownChunks, Started, RecordKept, ChunksTyped, ChunkState, KnownPage,
     Paged, Held, WriteChunk, Answer
<1>12. ASSUME WriteFails PROVE KnownChunks'
  BY <1>12, RefuseMoves, ChainHead, Updating DEF KnownChunks, Started, RecordKept, ChunksTyped, ChunkState,
     KnownPage, Paged, Held, WriteFails, StopAfterRefusal, Answer
<1>13. ASSUME SettleLostCaptures PROVE KnownChunks'
  BY <1>13, SettleMoves DEF KnownChunks, Started, RecordKept, ChunksTyped, ChunkState, KnownPage, Paged,
     Held, Holds, SettleLostCaptures, LostCaptures
<1>14. ASSUME PageCrashes PROVE KnownChunks'
  BY <1>14 DEF KnownChunks, Started, RecordKept, ChunksTyped, ChunkState, KnownPage, Paged, Held,
     PageCrashes, Gone, durable
<1>15. ASSUME KillWorker PROVE KnownChunks'
  BY <1>15, KillMoves, AsleepTyped DEF KnownChunks, Started, RecordKept, ChunksTyped, ChunkState, KnownPage,
     Paged, Held, Asleep, NotStarting, KillWorker
<1>16. ASSUME WakeWorker PROVE KnownChunks'
  BY <1>16, WakeMoves DEF KnownChunks, Started, RecordKept, ChunksTyped, ChunkState, KnownPage, Paged, Held,
     OrphanSaved
<1>17. ASSUME NEW s \in Starts, StartRequested(s) \/ CreateMeeting(s) \/ Prepare(s) \/ OpenPage(s) \/
         CapturePage(s) \/ PersistCaptures(s) \/ UndoCapture(s) \/ AbortStart(s)
      PROVE  KnownChunks'
  BY <1>17 DEF KnownChunks, Started, RecordKept, StartRequested, CreateMeeting, Prepare, OpenPage,
     CapturePage, PersistCaptures, UndoCapture, AbortStart, durable
<1>18. ASSUME NEW c \in Stops, StopRequested(c) \/ TabEnded(c)
      PROVE  KnownChunks'
  BY <1>18 DEF KnownChunks, Started, RecordKept, StopRequested, TabEnded, durable
<1>19. ASSUME NEW c \in Calls, Teardown(c)
      PROVE  KnownChunks'
  BY <1>19 DEF KnownChunks, Started, RecordKept, Teardown, durable
<1>20. ASSUME PageStopped
      PROVE  KnownChunks'
  BY <1>20 DEF KnownChunks, Started, RecordKept, PageStopped, durable
<1>21. CASE UNCHANGED vars
  BY <1>21 DEF vars, durable, KnownChunks, Started, RecordKept
<1> QED BY <1>1, <1>2, <1>3, <1>4, <1>5, <1>6, <1>7, <1>8, <1>9, <1>10, <1>11, <1>12, <1>13, <1>14, <1>15,
         <1>16, <1>17, <1>18, <1>19, <1>20, <1>21 DEF Next, StartStep, StopStep, PageStep


LEMMA KnownErrorsStep ==
  ASSUME Inv, TypeOK', RecordKept, [Next]_vars
  PROVE  KnownErrors'
<1>. USE RecorderAssumption, Ids, TypesApart DEF Inv, Creating, Known, Attempting, Closing, Active, Audio, Watched
<1>1. ASSUME NEW s \in Starts, SaveMeeting(s) PROVE KnownErrors'
  BY <1>1, SaveMoves DEF KnownErrors, Started, RecordKept, KnownChunks, Born, At, Calls
<1>2. ASSUME NEW s \in Starts, EraseMeeting(s) PROVE KnownErrors'
  BY <1>2, EraseMoves DEF KnownErrors, Started, RecordKept, KnownChunks, Born, At, Calls
<1>3. ASSUME NEW c \in Stops, StopRecording(c) PROVE KnownErrors'
  BY <1>3, FinalMoves, Updating DEF KnownErrors, Started, RecordKept, KnownChunks, Born, Holds, At, Calls
<1>4. ASSUME NEW c \in Calls, FailRecording(c) PROVE KnownErrors'
  BY <1>4, FailMoves, Updating DEF KnownErrors, Started, RecordKept, KnownChunks, Born, Holds, At
<1>5. ASSUME NEW m \in Meetings, NEW fails \in BOOLEAN, CaptureError(m, fails) PROVE KnownErrors'
  <2>1. /\ mem.up /\ <<m, fails>> \in errors
        /\ \/ errors' = errors
           \/ mem.starting.m # m /\ errors' = errors
           \/ mem.starting.m # m /\ PageQuiet /\ errors' = errors \ {<<m, fails>>}
    BY <1>5, ErrorMoves, Updating DEF Holds
  <2> QED BY <1>5, <2>1 DEF KnownErrors, Started, RecordKept, KnownChunks, Born, PageQuiet
<1>6. ASSUME NEW c \in Chunks, LoseChunk(c) PROVE KnownErrors'
  <2>1. chunk[c].m # None /\ rec' = rec
    BY <1>6 DEF LoseChunk, Born, durable
  <2>2. \A x \in errors' : x \in errors \/ x[1] = chunk[c].m
    BY <1>6, ErrorOf DEF LoseChunk
  <2> QED BY <2>1, <2>2 DEF KnownErrors, KnownChunks, Started
<1>7. ASSUME WriteFails PROVE KnownErrors'
  <2>1. /\ mem.up /\ chain # <<>> /\ Head(chain) \in Chunks /\ chunk[Head(chain)].m \in Meetings
        /\ chunk[Head(chain)].state \in {"queued", "lost"}
        /\ errors' = errors \cup {<<chunk[Head(chain)].m, FALSE>>}
    BY <1>7, RefuseMoves, ChainHead, Updating DEF WriteFails, StopAfterRefusal
  <2>2. chunk[Head(chain)].m # None
    BY <2>1
  <2>3. \A x \in errors' : x \in errors \/ x[1] = chunk[Head(chain)].m
    BY <2>1, ErrorOf
  <2>4. \A x \in errors' : x[1] \in Meetings /\ Started(x[1])
    BY <2>1, <2>2, <2>3 DEF KnownErrors, KnownChunks
  <2> QED BY <2>4 DEF KnownErrors, RecordKept, Started
<1>8. ASSUME SettleLostCaptures PROVE KnownErrors'
  BY <1>8, SettleMoves DEF KnownErrors, Started, RecordKept, KnownChunks, Born, Holds, SettleLostCaptures,
     LostCaptures
<1>9. ASSUME KillWorker PROVE KnownErrors'
  BY <1>9, KillMoves, AsleepTyped DEF KnownErrors, Started, RecordKept, KnownChunks, Born, Asleep,
     NotStarting, KillWorker
<1>10. ASSUME WakeWorker PROVE KnownErrors'
  BY <1>10, WakeMoves DEF KnownErrors, Started, RecordKept, KnownChunks, Born, OrphanSaved
<1>11. ASSUME NEW s \in Starts, StartRequested(s) \/ CreateMeeting(s) \/ Prepare(s) \/ OpenPage(s) \/
         CapturePage(s) \/ PersistCaptures(s) \/ UndoCapture(s) \/ AbortStart(s)
      PROVE  KnownErrors'
  BY <1>11 DEF KnownErrors, Started, RecordKept, StartRequested, CreateMeeting, Prepare, OpenPage,
     CapturePage, PersistCaptures, UndoCapture, AbortStart, durable
<1>12. ASSUME NEW c \in Stops, StopRequested(c) \/ TabEnded(c)
      PROVE  KnownErrors'
  BY <1>12 DEF KnownErrors, Started, RecordKept, StopRequested, TabEnded, durable
<1>13. ASSUME NEW c \in Calls, Teardown(c)
      PROVE  KnownErrors'
  BY <1>13 DEF KnownErrors, Started, RecordKept, Teardown, durable
<1>14. ASSUME NEW c \in Chunks, EmitChunk(c) \/ ReceiveChunk(c) \/ ChunkAnswered(c) \/ ResendChunk(c)
      PROVE  KnownErrors'
  BY <1>14 DEF KnownErrors, Started, RecordKept, EmitChunk, ReceiveChunk, ChunkAnswered, ResendChunk,
     durable
<1>15. ASSUME WriteChunk \/ PageStopped \/ PageCrashes
      PROVE  KnownErrors'
  BY <1>15 DEF KnownErrors, Started, RecordKept, WriteChunk, PageStopped, PageCrashes, durable
<1>16. CASE UNCHANGED vars
  BY <1>16 DEF vars, durable, KnownErrors, Started, RecordKept
<1> QED BY <1>1, <1>2, <1>3, <1>4, <1>5, <1>6, <1>7, <1>8, <1>9, <1>10, <1>11, <1>12, <1>13, <1>14, <1>15,
         <1>16 DEF Next, StartStep, StopStep, PageStep


LEMMA KnownStoreStep ==
  ASSUME Inv, TypeOK', RecordKept, [Next]_vars
  PROVE  KnownStore'
<1>. USE RecorderAssumption, Ids, TypesApart DEF Inv, Creating, Known, Attempting, Closing, Active, Audio, Watched
<1>1. ASSUME NEW s \in Starts, SaveMeeting(s) PROVE KnownStore'
  BY <1>1, SaveMoves DEF KnownStore, Started, RecordKept, StoreTyped, Made, Unmade, KnownChunks, At, Calls
<1>2. ASSUME NEW s \in Starts, EraseMeeting(s) PROVE KnownStore'
  <2>1. At(s, "erase") /\ mem'.creating = mem.creating /\ store' = [store EXCEPT ![task[s].m] = {}]
    BY <1>2, EraseMoves
  <2> QED BY <1>2, <2>1 DEF KnownStore, Started, RecordKept, StoreTyped, Made, Unmade, KnownChunks, At,
         Calls
<1>3. ASSUME NEW c \in Stops, StopRecording(c) PROVE KnownStore'
  BY <1>3, FinalMoves, Updating DEF KnownStore, Started, RecordKept, StoreTyped, Made, Unmade, KnownChunks,
     Holds, At, Calls
<1>4. ASSUME NEW c \in Calls, FailRecording(c) PROVE KnownStore'
  BY <1>4, FailMoves, Updating DEF KnownStore, Started, RecordKept, StoreTyped, Made, Unmade, KnownChunks,
     Holds, At
<1>5. ASSUME NEW m \in Meetings, NEW fails \in BOOLEAN, CaptureError(m, fails) PROVE KnownStore'
  <2>1. /\ mem.up /\ <<m, fails>> \in errors
        /\ \/ mem'.creating = mem.creating /\ store' = store
           \/ mem.starting.m # m /\ mem'.creating = mem.creating /\ store' = store
           \/ mem.starting.m # m /\ PageQuiet /\ mem'.creating = mem.creating /\ store' = store
    BY <1>5, ErrorMoves, Updating DEF Holds
  <2> QED BY <1>5, <2>1 DEF KnownStore, Started, RecordKept, StoreTyped, Made, Unmade, KnownChunks,
         PageQuiet
<1>6. ASSUME WriteChunk PROVE KnownStore'
  <2>1. /\ mem.up /\ chain # <<>> /\ Head(chain) \in Chunks /\ chunk[Head(chain)].m \in Meetings
        /\ chunk[Head(chain)].state \in {"queued", "lost"}
        /\ mem'.creating = mem.creating
        /\ store' = [store EXCEPT ![chunk[Head(chain)].m] = KeepFirst(Head(chain), NextSequence(chunk[Head(chain)].m))]
    BY <1>6, WriteMoves, ChainHead DEF WriteChunk, durable
  <2> SUFFICES ASSUME NEW x \in Meetings, rec'[x] = "none"
               PROVE  store'[x] = {}
    BY DEF KnownStore, Started
  <2> QED BY <1>6, <2>1 DEF KnownStore, Started, RecordKept, StoreTyped, Made, Unmade, KnownChunks
<1>7. ASSUME WriteFails PROVE KnownStore'
  BY <1>7, RefuseMoves, ChainHead, Updating DEF KnownStore, Started, RecordKept, StoreTyped, Made, Unmade,
     KnownChunks, WriteFails, StopAfterRefusal
<1>8. ASSUME SettleLostCaptures PROVE KnownStore'
  BY <1>8, SettleMoves DEF KnownStore, Started, RecordKept, StoreTyped, Made, Unmade, KnownChunks, Holds,
     SettleLostCaptures, LostCaptures
<1>9. ASSUME WakeWorker PROVE KnownStore'
  BY <1>9, WakeMoves DEF KnownStore, Started, RecordKept, StoreTyped, Made, Unmade, KnownChunks, OrphanSaved
<1>10. ASSUME NEW s \in Starts, StartRequested(s) \/ CreateMeeting(s) \/ Prepare(s) \/ OpenPage(s) \/
         CapturePage(s) \/ PersistCaptures(s) \/ UndoCapture(s) \/ AbortStart(s)
      PROVE  KnownStore'
  BY <1>10 DEF KnownStore, Started, RecordKept, StartRequested, CreateMeeting, Prepare, OpenPage,
     CapturePage, PersistCaptures, UndoCapture, AbortStart, durable
<1>11. ASSUME NEW c \in Stops, StopRequested(c) \/ TabEnded(c)
      PROVE  KnownStore'
  BY <1>11 DEF KnownStore, Started, RecordKept, StopRequested, TabEnded, durable
<1>12. ASSUME NEW c \in Calls, Teardown(c)
      PROVE  KnownStore'
  BY <1>12 DEF KnownStore, Started, RecordKept, Teardown, durable
<1>13. ASSUME NEW c \in Chunks, EmitChunk(c) \/ ReceiveChunk(c) \/ ChunkAnswered(c) \/ ResendChunk(c) \/
         LoseChunk(c)
      PROVE  KnownStore'
  BY <1>13 DEF KnownStore, Started, RecordKept, EmitChunk, ReceiveChunk, ChunkAnswered, ResendChunk,
     LoseChunk, durable
<1>14. ASSUME PageStopped \/ PageCrashes \/ KillWorker
      PROVE  KnownStore'
  BY <1>14 DEF KnownStore, Started, RecordKept, PageStopped, PageCrashes, KillWorker, durable
<1>15. CASE UNCHANGED vars
  BY <1>15 DEF vars, durable, KnownStore, Started, RecordKept
<1> QED BY <1>1, <1>2, <1>3, <1>4, <1>5, <1>6, <1>7, <1>8, <1>9, <1>10, <1>11, <1>12, <1>13, <1>14, <1>15
         DEF Next, StartStep, StopStep, PageStep


LEMMA StartersStep ==
  ASSUME Inv, TypeOK', RecordKept, [Next]_vars
  PROVE  Starters'
<1>. USE RecorderAssumption, Ids, TypesApart DEF Inv, Creating, Known, Attempting, Closing, Active, Audio, Watched
<1>1. ASSUME NEW s \in Starts, StartRequested(s) PROVE Starters'
  BY <1>1, StartRequestedMoves DEF Starters, Attempt, OneAttempt, Sleep, Calls, At, Told
<1>2. ASSUME NEW s \in Starts, CreateMeeting(s) PROVE Starters'
  BY <1>2, CreateMoves DEF Starters, Attempt, OneAttempt, Sleep, Shares, Follows, Joins, Creates, Holds,
     Told, At, Unused, Calls
<1>3. ASSUME NEW s \in Starts, SaveMeeting(s) PROVE Starters'
  <2>1. /\ At(s, "save") /\ task[s].m \in Meetings
        /\ (\A x \in Calls : task'[x].m = task[x].m)
        /\ (\A x \in Calls : task'[x].pc =
              IF x = s THEN IF mem.starting.m = None THEN "prepare" ELSE "abort"
              ELSE IF task[x].pc = "join" THEN IF mem.starting.m = None THEN "await" ELSE "abort"
              ELSE task[x].pc)
        /\ mem'.starting.m = IF mem.starting.m = None THEN task[s].m ELSE mem.starting.m
    BY <1>3, SaveMoves
  <2> SUFFICES ASSUME NEW x \in Calls, task'[x].pc \in Attempt \cup {"await"}
               PROVE  mem'.starting.m = task'[x].m
    BY DEF Starters, Attempt
  <2> QED BY <1>3, <2>1 DEF Starters, Attempt, OneAttempt, Sleep, At, Calls, Makers
<1>4. ASSUME NEW s \in Starts, Prepare(s) PROVE Starters'
  BY <1>4, PrepareMoves DEF Starters, Attempt, OneAttempt, Sleep, Holds, Told, Waiting, At, Calls
<1>5. ASSUME NEW s \in Starts, OpenPage(s) PROVE Starters'
  BY <1>5, OpenMoves DEF Starters, Attempt, OneAttempt, Sleep, OpenPage, Told, At, Calls
<1>6. ASSUME NEW s \in Starts, CapturePage(s) PROVE Starters'
  BY <1>6, CaptureMoves DEF Starters, Attempt, OneAttempt, Sleep, Told, At, Calls
<1>7. ASSUME NEW s \in Starts, PersistCaptures(s) PROVE Starters'
  BY <1>7, PersistMoves DEF Starters, Attempt, OneAttempt, Sleep, Holds, Told, Waiting, At, Calls
<1>8. ASSUME NEW s \in Starts, UndoCapture(s) PROVE Starters'
  BY <1>8, UndoMoves DEF Starters, Attempt, OneAttempt, Sleep, Holds, Told, Waiting, At, PageQuiet, Calls
<1>9. ASSUME NEW s \in Starts, AbortStart(s) PROVE Starters'
  BY <1>9, AbortMoves DEF Starters, Attempt, OneAttempt, Sleep, Told, At, Calls
<1>10. ASSUME NEW s \in Starts, EraseMeeting(s) PROVE Starters'
  <2>1. At(s, "erase") /\ Told({s}, "done", None) /\ mem'.starting.m = mem.starting.m
    BY <1>10, EraseMoves
  <2> QED BY <1>10, <2>1 DEF Starters, Attempt, OneAttempt, Sleep, Told, At, Calls
<1>11. ASSUME NEW c \in Stops, StopRequested(c) PROVE Starters'
  BY <1>11, StopMoves DEF Starters, Attempt, OneAttempt, Sleep, Holds, Told, At, IsActive, Calls
<1>12. ASSUME NEW c \in Stops, TabEnded(c) PROVE Starters'
  BY <1>12, TabMoves DEF Starters, Attempt, OneAttempt, Sleep, Holds, Told, At, Calls
<1>13. ASSUME NEW c \in Stops, StopRecording(c) PROVE Starters'
  BY <1>13, FinalMoves, Updating DEF Starters, Attempt, OneAttempt, Sleep, Holds, Told, At, Calls
<1>14. ASSUME NEW c \in Calls, Teardown(c) PROVE Starters'
  <2>1. /\ At(c, "teardown") /\ mem.starting.m # task[c].m
        /\ \/ UNCHANGED task /\ mem'.starting.m = mem.starting.m
           \/ c \in Starts /\ PageQuiet /\ Told({c}, "done", None) /\ mem'.starting.m = mem.starting.m
           \/ /\ c \notin Starts /\ PageQuiet
              /\ Told({c}, "final", task[c].m)
              /\ mem'.starting.m = mem.starting.m
    BY <1>14, TeardownMoves DEF Holds, Teardown
  <2> QED BY <1>14, <2>1 DEF Starters, Attempt, OneAttempt, Sleep, Told, At, PageQuiet
<1>15. ASSUME NEW c \in Calls, FailRecording(c) PROVE Starters'
  BY <1>15, FailMoves, Updating DEF Starters, Attempt, OneAttempt, Sleep, Holds, Told, At
<1>16. ASSUME NEW m \in Meetings, NEW fails \in BOOLEAN, CaptureError(m, fails) PROVE Starters'
  <2>1. /\ mem.up /\ <<m, fails>> \in errors
        /\ \/ UNCHANGED task /\ mem'.starting.m = mem.starting.m
           \/ mem.starting.m # m /\ UNCHANGED task /\ mem'.starting.m = mem.starting.m
           \/ mem.starting.m # m /\ PageQuiet /\ UNCHANGED task /\ mem'.starting.m = mem.starting.m
    BY <1>16, ErrorMoves, Updating DEF Holds
  <2> QED BY <1>16, <2>1 DEF Starters, Attempt, OneAttempt, Sleep, PageQuiet
<1>17. ASSUME NEW c \in Chunks, ReceiveChunk(c) PROVE Starters'
  BY <1>17, ReceiveMoves DEF Starters, Attempt, OneAttempt, Sleep, Holds
<1>18. ASSUME WriteChunk PROVE Starters'
  BY <1>18, WriteMoves, ChainHead DEF Starters, Attempt, OneAttempt, Sleep, WriteChunk
<1>19. ASSUME WriteFails PROVE Starters'
  BY <1>19, RefuseMoves, ChainHead, Updating DEF Starters, Attempt, OneAttempt, Sleep, WriteFails,
     StopAfterRefusal
<1>20. ASSUME SettleLostCaptures PROVE Starters'
  BY <1>20, SettleMoves DEF Starters, Attempt, OneAttempt, Sleep, Holds, SettleLostCaptures, LostCaptures
<1>21. ASSUME KillWorker PROVE Starters'
  BY <1>21, KillMoves, AsleepTyped DEF Starters, Attempt, OneAttempt, Sleep, Asleep, NotStarting, KillWorker
<1>22. ASSUME WakeWorker PROVE Starters'
  BY <1>22, WakeMoves DEF Starters, Attempt, OneAttempt, Sleep, OrphanSaved
<1>23. ASSUME NEW c \in Chunks, EmitChunk(c) \/ ChunkAnswered(c) \/ ResendChunk(c) \/ LoseChunk(c)
      PROVE  Starters'
  BY <1>23 DEF Starters, Attempt, EmitChunk, ChunkAnswered, ResendChunk, LoseChunk, durable
<1>24. ASSUME PageStopped \/ PageCrashes
      PROVE  Starters'
  BY <1>24 DEF Starters, Attempt, PageStopped, PageCrashes, durable
<1>25. CASE UNCHANGED vars
  BY <1>25 DEF vars, durable, Starters, Attempt
<1> QED BY <1>1, <1>2, <1>3, <1>4, <1>5, <1>6, <1>7, <1>8, <1>9, <1>10, <1>11, <1>12, <1>13, <1>14, <1>15,
         <1>16, <1>17, <1>18, <1>19, <1>20, <1>21, <1>22, <1>23, <1>24, <1>25 DEF Next, StartStep, StopStep,
         PageStep


LEMMA CapturersStep ==
  ASSUME Inv, TypeOK', RecordKept, [Next]_vars
  PROVE  Capturers'
<1>. USE RecorderAssumption, Ids, TypesApart DEF Inv, Creating, Known, Attempting, Closing, Active, Audio, Watched
<1>1. ASSUME NEW s \in Starts, StartRequested(s) PROVE Capturers'
  BY <1>1, StartRequestedMoves DEF Capturers, Attempt, OneAttempt, Starters, Sleep, Calls, At, Told
<1>2. ASSUME NEW s \in Starts, CreateMeeting(s) PROVE Capturers'
  BY <1>2, CreateMoves DEF Capturers, Attempt, OneAttempt, Starters, Sleep, Shares, Follows, Joins, Creates,
     Holds, Told, At, Unused, Calls
<1>3. ASSUME NEW s \in Starts, SaveMeeting(s) PROVE Capturers'
  <2>1. /\ At(s, "save") /\ task[s].m \in Meetings
        /\ (\A x \in Calls : task'[x].m = task[x].m)
        /\ (\A x \in Calls : task'[x].pc =
              IF x = s THEN IF mem.starting.m = None THEN "prepare" ELSE "abort"
              ELSE IF task[x].pc = "join" THEN IF mem.starting.m = None THEN "await" ELSE "abort"
              ELSE task[x].pc)
        /\ mem'.captures = mem.captures
    BY <1>3, SaveMoves
  <2> QED BY <1>3, <2>1 DEF Capturers, Attempt, OneAttempt, Starters, Sleep, At, Calls
<1>4. ASSUME NEW s \in Starts, Prepare(s) PROVE Capturers'
  BY <1>4, PrepareMoves DEF Capturers, Attempt, OneAttempt, Starters, Sleep, Holds, Told, Waiting, At, Calls
<1>5. ASSUME NEW s \in Starts, OpenPage(s) PROVE Capturers'
  BY <1>5, OpenMoves DEF Capturers, Attempt, OneAttempt, Starters, Sleep, OpenPage, Told, At, Calls
<1>6. ASSUME NEW s \in Starts, CapturePage(s) PROVE Capturers'
  BY <1>6, CaptureMoves DEF Capturers, Attempt, OneAttempt, Starters, Sleep, Told, At, Calls
<1>7. ASSUME NEW s \in Starts, PersistCaptures(s) PROVE Capturers'
  BY <1>7, PersistMoves DEF Capturers, Attempt, OneAttempt, Starters, Sleep, Holds, Told, Waiting, At, Calls
<1>8. ASSUME NEW s \in Starts, UndoCapture(s) PROVE Capturers'
  BY <1>8, UndoMoves DEF Capturers, Attempt, OneAttempt, Starters, Sleep, Holds, Told, Waiting, At,
     PageQuiet, Calls
<1>9. ASSUME NEW s \in Starts, AbortStart(s) PROVE Capturers'
  BY <1>9, AbortMoves DEF Capturers, Attempt, OneAttempt, Starters, Sleep, Told, At, Calls
<1>10. ASSUME NEW s \in Starts, EraseMeeting(s) PROVE Capturers'
  <2>1. At(s, "erase") /\ Told({s}, "done", None) /\ mem'.captures = mem.captures
    BY <1>10, EraseMoves
  <2> QED BY <1>10, <2>1 DEF Capturers, Attempt, OneAttempt, Starters, Sleep, Told, At, Calls
<1>11. ASSUME NEW c \in Stops, StopRequested(c) PROVE Capturers'
  BY <1>11, StopMoves DEF Capturers, Attempt, OneAttempt, Starters, Sleep, Holds, Told, At, IsActive, Calls
<1>12. ASSUME NEW c \in Stops, TabEnded(c) PROVE Capturers'
  BY <1>12, TabMoves DEF Capturers, Attempt, OneAttempt, Starters, Sleep, Holds, Told, At, Calls
<1>13. ASSUME NEW c \in Stops, StopRecording(c) PROVE Capturers'
  BY <1>13, FinalMoves, Updating DEF Capturers, Attempt, OneAttempt, Starters, Sleep, Holds, Told, At, Calls
<1>14. ASSUME NEW c \in Calls, Teardown(c) PROVE Capturers'
  <2>1. /\ At(c, "teardown") /\ mem.starting.m # task[c].m
        /\ \/ UNCHANGED task /\ mem'.captures = mem.captures
           \/ /\ c \in Starts /\ PageQuiet
              /\ Told({c}, "done", None)
              /\ mem'.captures = mem.captures \ {task[c].m}
           \/ /\ c \notin Starts /\ PageQuiet
              /\ Told({c}, "final", task[c].m)
              /\ mem'.captures = mem.captures \ {task[c].m}
    BY <1>14, TeardownMoves DEF Holds, Teardown
  <2> SUFFICES ASSUME NEW x \in Calls, task'[x].pc \in Attempt \ {"prepare"}
               PROVE  task'[x].m \in mem'.captures
    BY DEF Capturers, Attempt
  <2>2. CASE /\ UNCHANGED task
               /\ mem'.captures = mem.captures
    BY <1>14, <2>1, <2>2 DEF Capturers, Attempt, OneAttempt, Starters, Sleep, Told, At, PageQuiet
  <2>3. CASE /\ c \in Starts /\ PageQuiet
               /\ Told({c}, "done", None)
               /\ mem'.captures = mem.captures \ {task[c].m}
    BY <1>14, <2>1, <2>3 DEF Capturers, Attempt, OneAttempt, Starters, Sleep, Told, At, PageQuiet
  <2>4. CASE /\ c \notin Starts /\ PageQuiet
               /\ Told({c}, "final", task[c].m)
               /\ mem'.captures = mem.captures \ {task[c].m}
    BY <1>14, <2>1, <2>4 DEF Capturers, Attempt, OneAttempt, Starters, Sleep, Told, At, PageQuiet
  <2> QED BY <2>1, <2>2, <2>3, <2>4
<1>15. ASSUME NEW c \in Calls, FailRecording(c) PROVE Capturers'
  BY <1>15, FailMoves, Updating DEF Capturers, Attempt, OneAttempt, Starters, Sleep, Holds, Told, At
<1>16. ASSUME NEW m \in Meetings, NEW fails \in BOOLEAN, CaptureError(m, fails) PROVE Capturers'
  <2>1. /\ mem.up /\ <<m, fails>> \in errors
        /\ \/ UNCHANGED task /\ mem'.captures = mem.captures
           \/ mem.starting.m # m /\ UNCHANGED task /\ mem'.captures = mem.captures
           \/ mem.starting.m # m /\ PageQuiet /\ UNCHANGED task /\ mem'.captures = mem.captures \ {m}
    BY <1>16, ErrorMoves, Updating DEF Holds
  <2> SUFFICES ASSUME NEW x \in Calls, task'[x].pc \in Attempt \ {"prepare"}
               PROVE  task'[x].m \in mem'.captures
    BY DEF Capturers, Attempt
  <2>2. CASE /\ UNCHANGED task
               /\ mem'.captures = mem.captures
    BY <1>16, <2>1, <2>2 DEF Capturers, Attempt, OneAttempt, Starters, Sleep, PageQuiet
  <2>3. CASE /\ mem.starting.m # m
               /\ UNCHANGED task
               /\ mem'.captures = mem.captures
    BY <1>16, <2>1, <2>3 DEF Capturers, Attempt, OneAttempt, Starters, Sleep, PageQuiet
  <2>4. CASE /\ mem.starting.m # m /\ PageQuiet
               /\ UNCHANGED task
               /\ mem'.captures = mem.captures \ {m}
    BY <1>16, <2>1, <2>4 DEF Capturers, Attempt, OneAttempt, Starters, Sleep, PageQuiet
  <2> QED BY <2>1, <2>2, <2>3, <2>4
<1>17. ASSUME NEW c \in Chunks, ReceiveChunk(c) PROVE Capturers'
  BY <1>17, ReceiveMoves DEF Capturers, Attempt, OneAttempt, Starters, Sleep, Holds
<1>18. ASSUME WriteChunk PROVE Capturers'
  BY <1>18, WriteMoves, ChainHead DEF Capturers, Attempt, OneAttempt, Starters, Sleep, WriteChunk
<1>19. ASSUME WriteFails PROVE Capturers'
  BY <1>19, RefuseMoves, ChainHead, Updating DEF Capturers, Attempt, OneAttempt, Starters, Sleep,
     WriteFails, StopAfterRefusal
<1>20. ASSUME SettleLostCaptures PROVE Capturers'
  BY <1>20, SettleMoves DEF Capturers, Attempt, OneAttempt, Starters, Sleep, Holds, SettleLostCaptures,
     LostCaptures
<1>21. ASSUME KillWorker PROVE Capturers'
  BY <1>21, KillMoves, AsleepTyped DEF Capturers, Attempt, OneAttempt, Starters, Sleep, Asleep, NotStarting,
     KillWorker
<1>22. ASSUME WakeWorker PROVE Capturers'
  BY <1>22, WakeMoves DEF Capturers, Attempt, OneAttempt, Starters, Sleep, OrphanSaved
<1>23. ASSUME NEW c \in Chunks, EmitChunk(c) \/ ChunkAnswered(c) \/ ResendChunk(c) \/ LoseChunk(c)
      PROVE  Capturers'
  BY <1>23 DEF Capturers, Attempt, EmitChunk, ChunkAnswered, ResendChunk, LoseChunk, durable
<1>24. ASSUME PageStopped \/ PageCrashes
      PROVE  Capturers'
  BY <1>24 DEF Capturers, Attempt, PageStopped, PageCrashes, durable
<1>25. CASE UNCHANGED vars
  BY <1>25 DEF vars, durable, Capturers, Attempt
<1> QED BY <1>1, <1>2, <1>3, <1>4, <1>5, <1>6, <1>7, <1>8, <1>9, <1>10, <1>11, <1>12, <1>13, <1>14, <1>15,
         <1>16, <1>17, <1>18, <1>19, <1>20, <1>21, <1>22, <1>23, <1>24, <1>25 DEF Next, StartStep, StopStep,
         PageStep


LEMMA OneAttemptStep ==
  ASSUME Inv, TypeOK', RecordKept, [Next]_vars
  PROVE  OneAttempt'
<1>. USE RecorderAssumption, Ids, TypesApart DEF Inv, Creating, Known, Attempting, Closing, Active, Audio, Watched
<1>1. ASSUME NEW s \in Starts, StartRequested(s) PROVE OneAttempt'
  BY <1>1, StartRequestedMoves DEF OneAttempt, Starters, Attempt, Sleep, Calls, At, Told
<1>2. ASSUME NEW s \in Starts, CreateMeeting(s) PROVE OneAttempt'
  BY <1>2, CreateMoves DEF OneAttempt, Starters, Attempt, Shares, Follows, Joins, Creates, Holds, Told, At,
     Unused, Calls, Sleep
<1>3. ASSUME NEW s \in Starts, SaveMeeting(s) PROVE OneAttempt'
  <2>1. /\ At(s, "save") /\ task[s].m \in Meetings
        /\ (\A x \in Calls : task'[x].m = task[x].m)
        /\ (\A x \in Calls : task'[x].pc =
              IF x = s THEN IF mem.starting.m = None THEN "prepare" ELSE "abort"
              ELSE IF task[x].pc = "join" THEN IF mem.starting.m = None THEN "await" ELSE "abort"
              ELSE task[x].pc)
    BY <1>3, SaveMoves
  <2> SUFFICES ASSUME NEW x \in Calls, NEW y \in Calls, task'[x].pc \in Attempt, task'[y].pc \in Attempt
               PROVE  x = y
    BY DEF OneAttempt, Attempt
  <2> QED BY <1>3, <2>1 DEF OneAttempt, Starters, Attempt, At, Calls, Sleep, OneMaker
<1>4. ASSUME NEW s \in Starts, Prepare(s) PROVE OneAttempt'
  BY <1>4, PrepareMoves DEF OneAttempt, Starters, Attempt, Holds, Told, Waiting, At, Calls
<1>5. ASSUME NEW s \in Starts, OpenPage(s) PROVE OneAttempt'
  BY <1>5, OpenMoves DEF OneAttempt, Starters, Attempt, OpenPage, Told, At, Calls
<1>6. ASSUME NEW s \in Starts, CapturePage(s) PROVE OneAttempt'
  BY <1>6, CaptureMoves DEF OneAttempt, Starters, Attempt, Told, At, Calls
<1>7. ASSUME NEW s \in Starts, PersistCaptures(s) PROVE OneAttempt'
  BY <1>7, PersistMoves DEF OneAttempt, Starters, Attempt, Holds, Told, Waiting, At, Calls
<1>8. ASSUME NEW s \in Starts, UndoCapture(s) PROVE OneAttempt'
  BY <1>8, UndoMoves DEF OneAttempt, Starters, Attempt, Holds, Told, Waiting, At, PageQuiet, Calls
<1>9. ASSUME NEW s \in Starts, AbortStart(s) PROVE OneAttempt'
  BY <1>9, AbortMoves DEF OneAttempt, Starters, Attempt, Told, At, Calls
<1>10. ASSUME NEW s \in Starts, EraseMeeting(s) PROVE OneAttempt'
  <2>1. At(s, "erase") /\ Told({s}, "done", None)
    BY <1>10, EraseMoves
  <2> QED BY <1>10, <2>1 DEF OneAttempt, Starters, Attempt, Told, At, Calls
<1>11. ASSUME NEW c \in Stops, StopRequested(c) PROVE OneAttempt'
  BY <1>11, StopMoves DEF OneAttempt, Starters, Attempt, Holds, Told, At, IsActive, Calls
<1>12. ASSUME NEW c \in Stops, TabEnded(c) PROVE OneAttempt'
  BY <1>12, TabMoves DEF OneAttempt, Starters, Attempt, Holds, Told, At, Calls
<1>13. ASSUME NEW c \in Stops, StopRecording(c) PROVE OneAttempt'
  BY <1>13, FinalMoves, Updating DEF OneAttempt, Starters, Attempt, Holds, Told, At, Calls
<1>14. ASSUME NEW c \in Calls, Teardown(c) PROVE OneAttempt'
  <2>1. /\ At(c, "teardown") /\ mem.starting.m # task[c].m
        /\ \/ UNCHANGED task
           \/ c \in Starts /\ PageQuiet /\ Told({c}, "done", None)
           \/ c \notin Starts /\ PageQuiet /\ Told({c}, "final", task[c].m)
    BY <1>14, TeardownMoves DEF Holds, Teardown
  <2> QED BY <1>14, <2>1 DEF OneAttempt, Starters, Attempt, Told, At, PageQuiet
<1>15. ASSUME NEW c \in Calls, FailRecording(c) PROVE OneAttempt'
  BY <1>15, FailMoves, Updating DEF OneAttempt, Starters, Attempt, Holds, Told, At
<1>16. ASSUME KillWorker PROVE OneAttempt'
  BY <1>16, KillMoves, AsleepTyped DEF OneAttempt, Starters, Attempt, Asleep, NotStarting, KillWorker
<1>17. ASSUME NEW m \in Meetings, NEW fails \in BOOLEAN, CaptureError(m, fails)
      PROVE  OneAttempt'
  BY <1>17 DEF OneAttempt, Starters, Attempt, CaptureError, durable
<1>18. ASSUME NEW c \in Chunks, EmitChunk(c) \/ ReceiveChunk(c) \/ ChunkAnswered(c) \/ ResendChunk(c) \/
         LoseChunk(c)
      PROVE  OneAttempt'
  BY <1>18 DEF OneAttempt, Starters, Attempt, EmitChunk, ReceiveChunk, ChunkAnswered, ResendChunk,
     LoseChunk, durable
<1>19. ASSUME WriteChunk \/ WriteFails \/ PageStopped \/ SettleLostCaptures \/ PageCrashes \/ WakeWorker
      PROVE  OneAttempt'
  BY <1>19 DEF OneAttempt, Starters, Attempt, WriteChunk, WriteFails, PageStopped, SettleLostCaptures,
     PageCrashes, WakeWorker, durable
<1>20. CASE UNCHANGED vars
  BY <1>20 DEF vars, durable, OneAttempt, Starters, Attempt
<1> QED BY <1>1, <1>2, <1>3, <1>4, <1>5, <1>6, <1>7, <1>8, <1>9, <1>10, <1>11, <1>12, <1>13, <1>14, <1>15,
         <1>16, <1>17, <1>18, <1>19, <1>20 DEF Next, StartStep, StopStep, PageStep


LEMMA PreparedStep ==
  ASSUME Inv, TypeOK', RecordKept, [Next]_vars
  PROVE  Prepared'
<1>. USE RecorderAssumption, Ids, TypesApart DEF Inv, Creating, Known, Attempting, Closing, Active, Audio, Watched
<1>1. ASSUME NEW s \in Starts, StartRequested(s) PROVE Prepared'
  BY <1>1, StartRequestedMoves DEF Prepared, Sleep, Calls, At, Told
<1>2. ASSUME NEW s \in Starts, CreateMeeting(s) PROVE Prepared'
  BY <1>2, CreateMoves DEF Prepared, Shares, Follows, Joins, Creates, Holds, Told, At, Unused, Calls,
     Unmade, Started, KnownCaptures, KnownStart, KnownPage, Sleep, Current
<1>3. ASSUME NEW s \in Starts, SaveMeeting(s) PROVE Prepared'
  <2>1. /\ At(s, "save") /\ task[s].m \in Meetings
        /\ (\A x \in Calls : task'[x].m = task[x].m)
        /\ (\A x \in Calls : task'[x].pc =
              IF x = s THEN IF mem.starting.m = None THEN "prepare" ELSE "abort"
              ELSE IF task[x].pc = "join" THEN IF mem.starting.m = None THEN "await" ELSE "abort"
              ELSE task[x].pc)
        /\ mem'.captures = mem.captures
        /\ stray' = stray
        /\ page' = page
    BY <1>3, SaveMoves
  <2> SUFFICES ASSUME NEW x \in Calls, task'[x].pc = "prepare", task'[x].m \notin stray'
               PROVE  task'[x].m \notin mem'.captures /\ page'.m # task'[x].m
    BY DEF Prepared
  <2> QED BY <1>3, <2>1 DEF Prepared, At, Calls, Unmade, Started, KnownCaptures, KnownStart, KnownPage,
         Sleep, Makers, OneMaker, RecordsTyped
<1>4. ASSUME NEW s \in Starts, Prepare(s) PROVE Prepared'
  BY <1>4, PrepareMoves DEF Prepared, Holds, Told, Waiting, At, Calls, Starters, Attempt, OneAttempt, Sleep
<1>5. ASSUME NEW s \in Starts, OpenPage(s) PROVE Prepared'
  BY <1>5, OpenMoves DEF Prepared, OpenPage, Told, At, Calls, Paged, Held, Sleep
<1>6. ASSUME NEW s \in Starts, CapturePage(s) PROVE Prepared'
  BY <1>6, CaptureMoves DEF Prepared, Told, At, Calls, OneAttempt, Attempt, Sleep, Starters
<1>7. ASSUME NEW s \in Starts, PersistCaptures(s) PROVE Prepared'
  BY <1>7, PersistMoves DEF Prepared, Holds, Told, Waiting, At, Calls
<1>8. ASSUME NEW s \in Starts, UndoCapture(s) PROVE Prepared'
  BY <1>8, UndoMoves DEF Prepared, Holds, Told, Waiting, At, StopPage, PageQuiet, Gone, Calls, OneAttempt,
     Attempt, Sleep, Capturers, Paged, Held
<1>9. ASSUME NEW s \in Starts, AbortStart(s) PROVE Prepared'
  BY <1>9, AbortMoves DEF Prepared, Told, At, Calls
<1>10. ASSUME NEW s \in Starts, EraseMeeting(s) PROVE Prepared'
  <2>1. /\ At(s, "erase")
        /\ Told({s}, "done", None)
        /\ mem'.captures = mem.captures
        /\ stray' = stray
        /\ page' = page
    BY <1>10, EraseMoves
  <2> SUFFICES ASSUME NEW x \in Calls, task'[x].pc = "prepare", task'[x].m \notin stray'
               PROVE  task'[x].m \notin mem'.captures /\ page'.m # task'[x].m
    BY DEF Prepared
  <2> QED BY <1>10, <2>1 DEF Prepared, Told, At, Calls
<1>11. ASSUME NEW c \in Stops, StopRequested(c) PROVE Prepared'
  BY <1>11, StopMoves DEF Prepared, Holds, Told, At, IsActive, Calls
<1>12. ASSUME NEW c \in Stops, TabEnded(c) PROVE Prepared'
  BY <1>12, TabMoves DEF Prepared, Holds, Told, At, Calls
<1>13. ASSUME NEW c \in Stops, StopRecording(c) PROVE Prepared'
  BY <1>13, FinalMoves, Updating DEF Prepared, Holds, Told, At, Calls
<1>14. ASSUME NEW c \in Calls, Teardown(c) PROVE Prepared'
  <2>1. /\ At(c, "teardown") /\ mem.starting.m # task[c].m
        /\ \/ UNCHANGED task /\ mem'.captures = mem.captures /\ stray' = stray /\ StopPage
           \/ /\ c \in Starts /\ PageQuiet
              /\ Told({c}, "done", None)
              /\ mem'.captures = mem.captures \ {task[c].m}
              /\ stray' = stray
              /\ page' = Gone
           \/ /\ c \notin Starts /\ PageQuiet
              /\ Told({c}, "final", task[c].m)
              /\ mem'.captures = mem.captures \ {task[c].m}
              /\ stray' = stray
              /\ page' = Gone
    BY <1>14, TeardownMoves DEF Holds, Teardown
  <2> SUFFICES ASSUME NEW x \in Calls, task'[x].pc = "prepare", task'[x].m \notin stray'
               PROVE  task'[x].m \notin mem'.captures /\ page'.m # task'[x].m
    BY DEF Prepared
  <2>2. CASE /\ UNCHANGED task
               /\ mem'.captures = mem.captures
               /\ stray' = stray
               /\ StopPage
    BY <1>14, <2>1, <2>2 DEF Prepared, Told, At, StopPage, PageQuiet, Gone, Sleep
  <2>3. CASE /\ c \in Starts /\ PageQuiet
               /\ Told({c}, "done", None)
               /\ mem'.captures = mem.captures \ {task[c].m}
               /\ stray' = stray
               /\ page' = Gone
    BY <1>14, <2>1, <2>3 DEF Prepared, Told, At, StopPage, PageQuiet, Gone, Sleep
  <2>4. CASE /\ c \notin Starts /\ PageQuiet
               /\ Told({c}, "final", task[c].m)
               /\ mem'.captures = mem.captures \ {task[c].m}
               /\ stray' = stray
               /\ page' = Gone
    BY <1>14, <2>1, <2>4 DEF Prepared, Told, At, StopPage, PageQuiet, Gone, Sleep
  <2> QED BY <2>1, <2>2, <2>3, <2>4
<1>15. ASSUME NEW c \in Calls, FailRecording(c) PROVE Prepared'
  BY <1>15, FailMoves, Updating DEF Prepared, Holds, Told, At
<1>16. ASSUME NEW m \in Meetings, NEW fails \in BOOLEAN, CaptureError(m, fails) PROVE Prepared'
  <2>1. /\ mem.up /\ <<m, fails>> \in errors
        /\ \/ UNCHANGED task /\ mem'.captures = mem.captures /\ stray' = stray /\ page' = page
           \/ /\ mem.starting.m # m
              /\ UNCHANGED task
              /\ mem'.captures = mem.captures
              /\ stray' = stray
              /\ StopPage
           \/ /\ mem.starting.m # m /\ PageQuiet
              /\ UNCHANGED task
              /\ mem'.captures = mem.captures \ {m}
              /\ stray' = stray
              /\ page' = Gone
    BY <1>16, ErrorMoves, Updating DEF Holds
  <2> SUFFICES ASSUME NEW x \in Calls, task'[x].pc = "prepare", task'[x].m \notin stray'
               PROVE  task'[x].m \notin mem'.captures /\ page'.m # task'[x].m
    BY DEF Prepared
  <2>2. CASE /\ UNCHANGED task
               /\ mem'.captures = mem.captures
               /\ stray' = stray
               /\ page' = page
    BY <1>16, <2>1, <2>2 DEF Prepared, StopPage, PageQuiet, Gone, Sleep
  <2>3. CASE /\ mem.starting.m # m
               /\ UNCHANGED task
               /\ mem'.captures = mem.captures
               /\ stray' = stray
               /\ StopPage
    BY <1>16, <2>1, <2>3 DEF Prepared, StopPage, PageQuiet, Gone, Sleep
  <2>4. CASE /\ mem.starting.m # m /\ PageQuiet
               /\ UNCHANGED task
               /\ mem'.captures = mem.captures \ {m}
               /\ stray' = stray
               /\ page' = Gone
    BY <1>16, <2>1, <2>4 DEF Prepared, StopPage, PageQuiet, Gone, Sleep
  <2> QED BY <2>1, <2>2, <2>3, <2>4
<1>17. ASSUME NEW c \in Chunks, ReceiveChunk(c) PROVE Prepared'
  BY <1>17, ReceiveMoves DEF Prepared, Holds, Awaited, Pending, Sleep, Born
<1>18. ASSUME NEW c \in Chunks, LoseChunk(c) PROVE Prepared'
  BY <1>18 DEF Prepared, LoseChunk, Move, durable
<1>19. ASSUME WriteChunk PROVE Prepared'
  BY <1>19, WriteMoves, ChainHead DEF Prepared, WriteChunk
<1>20. ASSUME WriteFails PROVE Prepared'
  BY <1>20, RefuseMoves, ChainHead, Updating DEF Prepared, WriteFails, StopAfterRefusal
<1>21. ASSUME PageStopped PROVE Prepared'
  <2> SUFFICES ASSUME NEW x \in Calls, task'[x].pc = "prepare", task'[x].m \notin stray'
               PROVE  task'[x].m \notin mem'.captures /\ page'.m # task'[x].m
    BY DEF Prepared
  <2> QED BY <1>21 DEF Prepared, PageStopped, Sleep, durable
<1>22. ASSUME SettleLostCaptures PROVE Prepared'
  BY <1>22, SettleMoves DEF Prepared, Holds, SettleLostCaptures, LostCaptures
<1>23. ASSUME PageCrashes PROVE Prepared'
  <2> SUFFICES ASSUME NEW x \in Calls, task'[x].pc = "prepare", task'[x].m \notin stray'
               PROVE  task'[x].m \notin mem'.captures /\ page'.m # task'[x].m
    BY DEF Prepared
  <2> QED BY <1>23 DEF Prepared, PageCrashes, Gone, Sleep, durable
<1>24. ASSUME KillWorker PROVE Prepared'
  BY <1>24, KillMoves, AsleepTyped DEF Prepared, Asleep, NotStarting, KillWorker
<1>25. ASSUME WakeWorker PROVE Prepared'
  BY <1>25, WakeMoves DEF Prepared, OrphanSaved, Sleep, Restored
<1>26. ASSUME NEW c \in Chunks, EmitChunk(c) \/ ChunkAnswered(c) \/ ResendChunk(c)
      PROVE  Prepared'
  BY <1>26 DEF Prepared, EmitChunk, ChunkAnswered, ResendChunk, durable
<1>27. CASE UNCHANGED vars
  BY <1>27 DEF vars, durable, Prepared
<1> QED BY <1>1, <1>2, <1>3, <1>4, <1>5, <1>6, <1>7, <1>8, <1>9, <1>10, <1>11, <1>12, <1>13, <1>14, <1>15,
         <1>16, <1>17, <1>18, <1>19, <1>20, <1>21, <1>22, <1>23, <1>24, <1>25, <1>26, <1>27 DEF Next,
         StartStep, StopStep, PageStep


LEMMA GivenUpStep ==
  ASSUME Inv, TypeOK', RecordKept, [Next]_vars
  PROVE  GivenUp'
<1>. USE RecorderAssumption, Ids, TypesApart DEF Inv, Creating, Known, Attempting, Closing, Active, Audio, Watched
<1>1. ASSUME NEW s \in Starts, StartRequested(s) PROVE GivenUp'
  BY <1>1, StartRequestedMoves DEF GivenUp, GivingUp, Closed, Sleep, Calls, At, Told
<1>2. ASSUME NEW s \in Starts, CreateMeeting(s) PROVE GivenUp'
  BY <1>2, CreateMoves DEF GivenUp, GivingUp, Closed, Shares, Follows, Joins, Creates, Holds, Told, At,
     Unused, Calls, Unmade, Started, KnownCaptures, KnownStart, KnownPage, Sleep, Refused
<1>3. ASSUME NEW s \in Starts, SaveMeeting(s) PROVE GivenUp'
  <2>1. /\ At(s, "save") /\ task[s].m \in Meetings
        /\ (\A x \in Calls : task'[x].m = task[x].m)
        /\ (\A x \in Calls : task'[x].pc =
              IF x = s THEN IF mem.starting.m = None THEN "prepare" ELSE "abort"
              ELSE IF task[x].pc = "join" THEN IF mem.starting.m = None THEN "await" ELSE "abort"
              ELSE task[x].pc)
        /\ mem'.captures = mem.captures
        /\ mem'.starting.m = IF mem.starting.m = None THEN task[s].m ELSE mem.starting.m
        /\ stray' = stray
        /\ page' = page
    BY <1>3, SaveMoves
  <2> SUFFICES ASSUME NEW x \in Calls, task'[x].pc \in GivingUp, task'[x].m \notin stray'
               PROVE  task'[x].m \notin mem'.captures /\ mem'.starting.m # task'[x].m /\ page'.m # task'[x].m
    BY DEF GivenUp, GivingUp, Closed
  <2> QED BY <1>3, <2>1 DEF GivenUp, GivingUp, Closed, At, Calls, Unmade, Started, KnownCaptures,
         KnownStart, KnownPage, Sleep, Made, Makers, OneMaker
<1>4. ASSUME NEW s \in Starts, Prepare(s) PROVE GivenUp'
  BY <1>4, PrepareMoves DEF GivenUp, GivingUp, Closed, Holds, Told, Waiting, At, Calls, Prepared, Starters,
     Attempt, OneAttempt, Sleep
<1>5. ASSUME NEW s \in Starts, OpenPage(s) PROVE GivenUp'
  BY <1>5, OpenMoves DEF GivenUp, GivingUp, Closed, OpenPage, Told, At, Calls, Paged, Held, Sleep
<1>6. ASSUME NEW s \in Starts, CapturePage(s) PROVE GivenUp'
  <2>1. /\ At(s, "capture")
        /\ \/ /\ page.state = "capturing"
              /\ UNCHANGED task
              /\ mem'.captures = mem.captures
              /\ mem'.starting.m = mem.starting.m
              /\ stray' = stray
              /\ page' = [page EXCEPT !.state = "stopping"]
           \/ /\ page.state = "idle"
              /\ (Told({s}, "undo", task[s].m) \/ Told({s}, "persist", task[s].m))
              /\ mem'.captures = mem.captures
              /\ mem'.starting.m = mem.starting.m
              /\ stray' = stray
              /\ page' = [state |-> "capturing", m |-> task[s].m]
           \/ /\ Told({s}, "undo", task[s].m)
              /\ mem'.captures = mem.captures
              /\ mem'.starting.m = mem.starting.m
              /\ stray' = stray
              /\ page' = page
    BY <1>6, CaptureMoves
  <2> SUFFICES ASSUME NEW x \in Calls, task'[x].pc \in GivingUp, task'[x].m \notin stray'
               PROVE  task'[x].m \notin mem'.captures /\ mem'.starting.m # task'[x].m /\ page'.m # task'[x].m
    BY DEF GivenUp, GivingUp, Closed
  <2>2. CASE /\ page.state = "capturing"
               /\ UNCHANGED task
               /\ mem'.captures = mem.captures
               /\ mem'.starting.m = mem.starting.m
               /\ stray' = stray
               /\ page' = [page EXCEPT !.state = "stopping"]
    BY <1>6, <2>1, <2>2 DEF GivenUp, GivingUp, Closed, Told, At, Calls, Starters, OneAttempt, Attempt, Sleep
  <2>3. CASE /\ page.state = "idle"
               /\ (Told({s}, "undo", task[s].m) \/ Told({s}, "persist", task[s].m))
               /\ mem'.captures = mem.captures
               /\ mem'.starting.m = mem.starting.m
               /\ stray' = stray
               /\ page' = [state |-> "capturing", m |-> task[s].m]
    BY <1>6, <2>1, <2>3 DEF GivenUp, GivingUp, Closed, Told, At, Calls, Starters, OneAttempt, Attempt, Sleep
  <2>4. CASE /\ Told({s}, "undo", task[s].m)
               /\ mem'.captures = mem.captures
               /\ mem'.starting.m = mem.starting.m
               /\ stray' = stray
               /\ page' = page
    BY <1>6, <2>1, <2>4 DEF GivenUp, GivingUp, Closed, Told, At, Calls, Starters, OneAttempt, Attempt, Sleep
  <2> QED BY <2>1, <2>2, <2>3, <2>4
<1>7. ASSUME NEW s \in Starts, PersistCaptures(s) PROVE GivenUp'
  BY <1>7, PersistMoves DEF GivenUp, GivingUp, Closed, Holds, Told, Waiting, At, Calls, Starters, Attempt,
     Sleep
<1>8. ASSUME NEW s \in Starts, UndoCapture(s) PROVE GivenUp'
  <2>1. /\ At(s, "undo")
        /\ \/ /\ UNCHANGED task
              /\ mem'.captures = mem.captures
              /\ mem'.starting.m = mem.starting.m
              /\ stray' = stray
              /\ StopPage
           \/ /\ PageQuiet
              /\ Told({s}, "prepare", task[s].m)
              /\ mem'.captures = mem.captures \ {task[s].m}
              /\ mem'.starting.m = mem.starting.m
              /\ stray' = stray
              /\ page' = Gone
           \/ /\ PageQuiet
              /\ Told({s} \cup Waiting(task[s].m), "abort", task[s].m)
              /\ mem'.captures = mem.captures \ {task[s].m}
              /\ mem'.starting.m = None
              /\ stray' = stray
              /\ page' = Gone
    BY <1>8, UndoMoves DEF Holds
  <2> SUFFICES ASSUME NEW x \in Calls, task'[x].pc \in GivingUp, task'[x].m \notin stray'
               PROVE  task'[x].m \notin mem'.captures /\ mem'.starting.m # task'[x].m /\ page'.m # task'[x].m
    BY DEF GivenUp, GivingUp, Closed
  <2>2. CASE /\ UNCHANGED task
               /\ mem'.captures = mem.captures
               /\ mem'.starting.m = mem.starting.m
               /\ stray' = stray
               /\ StopPage
    BY <1>8, <2>1, <2>2 DEF GivenUp, GivingUp, Closed, Told, Waiting, At, StopPage, PageQuiet, Gone, Calls,
       Starters, OneAttempt, Attempt, Sleep, Paged, Held
  <2>3. CASE /\ PageQuiet
               /\ Told({s}, "prepare", task[s].m)
               /\ mem'.captures = mem.captures \ {task[s].m}
               /\ mem'.starting.m = mem.starting.m
               /\ stray' = stray
               /\ page' = Gone
    BY <1>8, <2>1, <2>3 DEF GivenUp, GivingUp, Closed, Told, Waiting, At, StopPage, PageQuiet, Gone, Calls,
       Starters, OneAttempt, Attempt, Sleep, Paged, Held
  <2>4. CASE /\ PageQuiet
               /\ Told({s} \cup Waiting(task[s].m), "abort", task[s].m)
               /\ mem'.captures = mem.captures \ {task[s].m}
               /\ mem'.starting.m = None
               /\ stray' = stray
               /\ page' = Gone
    BY <1>8, <2>1, <2>4 DEF GivenUp, GivingUp, Closed, Told, Waiting, At, StopPage, PageQuiet, Gone, Calls,
       Starters, OneAttempt, Attempt, Sleep, Paged, Held
  <2> QED BY <2>1, <2>2, <2>3, <2>4
<1>9. ASSUME NEW s \in Starts, AbortStart(s) PROVE GivenUp'
  BY <1>9, AbortMoves DEF GivenUp, GivingUp, Closed, Told, At, Calls
<1>10. ASSUME NEW s \in Starts, EraseMeeting(s) PROVE GivenUp'
  <2>1. /\ At(s, "erase")
        /\ Told({s}, "done", None)
        /\ mem'.captures = mem.captures
        /\ mem'.starting.m = mem.starting.m
        /\ stray' = stray
        /\ page' = page
    BY <1>10, EraseMoves
  <2> QED BY <1>10, <2>1 DEF GivenUp, GivingUp, Closed, Told, At, Calls
<1>11. ASSUME NEW c \in Stops, StopRequested(c) PROVE GivenUp'
  BY <1>11, StopMoves DEF GivenUp, GivingUp, Closed, Holds, Told, At, IsActive, Calls, Refused, Sleep,
     Capturers, Paged, Held
<1>12. ASSUME NEW c \in Stops, TabEnded(c) PROVE GivenUp'
  BY <1>12, TabMoves DEF GivenUp, GivingUp, Closed, Holds, Told, At, Calls
<1>13. ASSUME NEW c \in Stops, StopRecording(c) PROVE GivenUp'
  BY <1>13, FinalMoves, Updating DEF GivenUp, GivingUp, Closed, Holds, Told, At, Calls
<1>14. ASSUME NEW c \in Calls, Teardown(c) PROVE GivenUp'
  <2>1. /\ At(c, "teardown") /\ mem.starting.m # task[c].m
        /\ \/ /\ UNCHANGED task
              /\ mem'.captures = mem.captures
              /\ mem'.starting.m = mem.starting.m
              /\ stray' = stray
              /\ StopPage
           \/ /\ c \in Starts /\ PageQuiet
              /\ Told({c}, "done", None)
              /\ mem'.captures = mem.captures \ {task[c].m}
              /\ mem'.starting.m = mem.starting.m
              /\ stray' = stray
              /\ page' = Gone
           \/ /\ c \notin Starts /\ PageQuiet
              /\ Told({c}, "final", task[c].m)
              /\ mem'.captures = mem.captures \ {task[c].m}
              /\ mem'.starting.m = mem.starting.m
              /\ stray' = stray
              /\ page' = Gone
    BY <1>14, TeardownMoves DEF Holds, Teardown
  <2> SUFFICES ASSUME NEW x \in Calls, task'[x].pc \in GivingUp, task'[x].m \notin stray'
               PROVE  task'[x].m \notin mem'.captures /\ mem'.starting.m # task'[x].m /\ page'.m # task'[x].m
    BY DEF GivenUp, GivingUp, Closed
  <2>2. CASE /\ UNCHANGED task
               /\ mem'.captures = mem.captures
               /\ mem'.starting.m = mem.starting.m
               /\ stray' = stray
               /\ StopPage
    BY <1>14, <2>1, <2>2 DEF GivenUp, GivingUp, Closed, Told, At, StopPage, PageQuiet, Gone, Sleep, Paged,
       Held
  <2>3. CASE /\ c \in Starts /\ PageQuiet
               /\ Told({c}, "done", None)
               /\ mem'.captures = mem.captures \ {task[c].m}
               /\ mem'.starting.m = mem.starting.m
               /\ stray' = stray
               /\ page' = Gone
    BY <1>14, <2>1, <2>3 DEF GivenUp, GivingUp, Closed, Told, At, StopPage, PageQuiet, Gone, Sleep, Paged,
       Held
  <2>4. CASE /\ c \notin Starts /\ PageQuiet
               /\ Told({c}, "final", task[c].m)
               /\ mem'.captures = mem.captures \ {task[c].m}
               /\ mem'.starting.m = mem.starting.m
               /\ stray' = stray
               /\ page' = Gone
    BY <1>14, <2>1, <2>4 DEF GivenUp, GivingUp, Closed, Told, At, StopPage, PageQuiet, Gone, Sleep, Paged,
       Held
  <2> QED BY <2>1, <2>2, <2>3, <2>4
<1>15. ASSUME NEW c \in Calls, FailRecording(c) PROVE GivenUp'
  BY <1>15, FailMoves, Updating DEF GivenUp, GivingUp, Closed, Holds, Told, At
<1>16. ASSUME NEW m \in Meetings, NEW fails \in BOOLEAN, CaptureError(m, fails) PROVE GivenUp'
  <2>1. /\ mem.up /\ <<m, fails>> \in errors
        /\ \/ /\ UNCHANGED task
              /\ mem'.captures = mem.captures
              /\ mem'.starting.m = mem.starting.m
              /\ stray' = stray
              /\ page' = page
           \/ /\ mem.starting.m # m
              /\ UNCHANGED task
              /\ mem'.captures = mem.captures
              /\ mem'.starting.m = mem.starting.m
              /\ stray' = stray
              /\ StopPage
           \/ /\ mem.starting.m # m /\ PageQuiet
              /\ UNCHANGED task
              /\ mem'.captures = mem.captures \ {m}
              /\ mem'.starting.m = mem.starting.m
              /\ stray' = stray
              /\ page' = Gone
    BY <1>16, ErrorMoves, Updating DEF Holds
  <2> SUFFICES ASSUME NEW x \in Calls, task'[x].pc \in GivingUp, task'[x].m \notin stray'
               PROVE  task'[x].m \notin mem'.captures /\ mem'.starting.m # task'[x].m /\ page'.m # task'[x].m
    BY DEF GivenUp, GivingUp, Closed
  <2>2. CASE /\ UNCHANGED task
               /\ mem'.captures = mem.captures
               /\ mem'.starting.m = mem.starting.m
               /\ stray' = stray
               /\ page' = page
    BY <1>16, <2>1, <2>2 DEF GivenUp, GivingUp, Closed, StopPage, PageQuiet, Gone, Sleep
  <2>3. CASE /\ mem.starting.m # m
               /\ UNCHANGED task
               /\ mem'.captures = mem.captures
               /\ mem'.starting.m = mem.starting.m
               /\ stray' = stray
               /\ StopPage
    BY <1>16, <2>1, <2>3 DEF GivenUp, GivingUp, Closed, StopPage, PageQuiet, Gone, Sleep
  <2>4. CASE /\ mem.starting.m # m /\ PageQuiet
               /\ UNCHANGED task
               /\ mem'.captures = mem.captures \ {m}
               /\ mem'.starting.m = mem.starting.m
               /\ stray' = stray
               /\ page' = Gone
    BY <1>16, <2>1, <2>4 DEF GivenUp, GivingUp, Closed, StopPage, PageQuiet, Gone, Sleep
  <2> QED BY <2>1, <2>2, <2>3, <2>4
<1>17. ASSUME NEW c \in Chunks, ReceiveChunk(c) PROVE GivenUp'
  BY <1>17, ReceiveMoves DEF GivenUp, GivingUp, Closed, Holds, Awaited, Pending, Sleep, Born
<1>18. ASSUME NEW c \in Chunks, LoseChunk(c) PROVE GivenUp'
  BY <1>18 DEF GivenUp, GivingUp, Closed, LoseChunk, Move, durable
<1>19. ASSUME WriteChunk PROVE GivenUp'
  BY <1>19, WriteMoves, ChainHead DEF GivenUp, GivingUp, Closed, WriteChunk
<1>20. ASSUME WriteFails PROVE GivenUp'
  BY <1>20, RefuseMoves, ChainHead, Updating DEF GivenUp, GivingUp, Closed, WriteFails, StopAfterRefusal
<1>21. ASSUME PageStopped PROVE GivenUp'
  <2> SUFFICES ASSUME NEW x \in Calls, task'[x].pc \in GivingUp, task'[x].m \notin stray'
               PROVE  task'[x].m \notin mem'.captures /\ mem'.starting.m # task'[x].m /\ page'.m # task'[x].m
    BY DEF GivenUp, GivingUp, Closed
  <2> QED BY <1>21 DEF GivenUp, GivingUp, Closed, PageStopped, Sleep, durable
<1>22. ASSUME SettleLostCaptures PROVE GivenUp'
  BY <1>22, SettleMoves DEF GivenUp, GivingUp, Closed, Holds, SettleLostCaptures, LostCaptures
<1>23. ASSUME PageCrashes PROVE GivenUp'
  <2> SUFFICES ASSUME NEW x \in Calls, task'[x].pc \in GivingUp, task'[x].m \notin stray'
               PROVE  task'[x].m \notin mem'.captures /\ mem'.starting.m # task'[x].m /\ page'.m # task'[x].m
    BY DEF GivenUp, GivingUp, Closed
  <2> QED BY <1>23 DEF GivenUp, GivingUp, Closed, PageCrashes, Gone, Sleep, durable
<1>24. ASSUME KillWorker PROVE GivenUp'
  BY <1>24, KillMoves, AsleepTyped DEF GivenUp, GivingUp, Closed, Asleep, NotStarting, KillWorker
<1>25. ASSUME WakeWorker PROVE GivenUp'
  BY <1>25, WakeMoves DEF GivenUp, GivingUp, Closed, OrphanSaved, Sleep, Restored
<1>26. ASSUME NEW c \in Chunks, EmitChunk(c) \/ ChunkAnswered(c) \/ ResendChunk(c)
      PROVE  GivenUp'
  BY <1>26 DEF GivenUp, GivingUp, Closed, EmitChunk, ChunkAnswered, ResendChunk, durable
<1>27. CASE UNCHANGED vars
  BY <1>27 DEF vars, durable, GivenUp, GivingUp, Closed
<1> QED BY <1>1, <1>2, <1>3, <1>4, <1>5, <1>6, <1>7, <1>8, <1>9, <1>10, <1>11, <1>12, <1>13, <1>14, <1>15,
         <1>16, <1>17, <1>18, <1>19, <1>20, <1>21, <1>22, <1>23, <1>24, <1>25, <1>26, <1>27 DEF Next,
         StartStep, StopStep, PageStep


LEMMA RefusedStep ==
  ASSUME Inv, TypeOK', RecordKept, [Next]_vars
  PROVE  Refused'
<1>. USE RecorderAssumption, Ids, TypesApart DEF Inv, Creating, Known, Attempting, Closing, Active, Audio, Watched
<1>1. ASSUME NEW s \in Starts, CreateMeeting(s) PROVE Refused'
  <2>1. /\ At(s, "create")
        /\ \/ /\ mem.active # None /\ mem.starting.m = None
              /\ mem'.active = mem.active
              /\ mem'.captures = mem.captures
              /\ mem'.starting.m = mem.active
              /\ stray' = stray \cup {mem.active}
              /\ page' = page
           \/ /\ mem.active # None /\ mem.starting.m = mem.active
              /\ mem'.active = mem.active
              /\ mem'.captures = mem.captures
              /\ mem'.starting.m = mem.starting.m
              /\ stray' = stray
              /\ page' = page
           \/ /\ mem.active # None /\ mem.starting.m \notin {None, mem.active}
              /\ mem'.active = mem.active
              /\ mem'.captures = mem.captures
              /\ mem'.starting.m = mem.starting.m
              /\ stray' = stray
              /\ page' = page
           \/ /\ mem.active = None /\ mem.creating # None
              /\ mem'.active = mem.active
              /\ mem'.captures = mem.captures
              /\ mem'.starting.m = mem.starting.m
              /\ stray' = stray
              /\ page' = page
           \/ /\ mem.active = None /\ mem.creating = None /\ FreshId \in Unused
              /\ mem'.active = mem.active
              /\ mem'.captures = mem.captures
              /\ mem'.starting.m = mem.starting.m
              /\ stray' = stray
              /\ page' = page
    BY <1>1, CreateMoves DEF Shares, Follows, Joins, Creates, Holds
  <2> QED BY <1>1, <2>1 DEF Refused, Closed, At, Unused, Calls
<1>2. ASSUME NEW s \in Starts, SaveMeeting(s) PROVE Refused'
  <2>1. /\ At(s, "save") /\ task[s].m \in Meetings
        /\ mem'.active = task[s].m
        /\ mem'.captures = mem.captures
        /\ mem'.starting.m = IF mem.starting.m = None THEN task[s].m ELSE mem.starting.m
        /\ stray' = stray
        /\ page' = page
    BY <1>2, SaveMoves
  <2> QED BY <1>2, <2>1 DEF Refused, Closed, At, Calls, Unmade, Started, KnownCaptures, KnownStart,
         KnownPage, Sleep
<1>3. ASSUME NEW s \in Starts, Prepare(s) PROVE Refused'
  <2>1. /\ At(s, "prepare")
        /\ \/ /\ mem'.active = mem.active
              /\ mem'.captures = mem.captures \cup {task[s].m}
              /\ mem'.starting.m = mem.starting.m
              /\ stray' = stray
              /\ page' = page
           \/ /\ mem'.active = mem.active
              /\ mem'.captures = mem.captures
              /\ mem'.starting.m = None
              /\ stray' = stray
              /\ page' = page
    BY <1>3, PrepareMoves DEF Holds
  <2>2. CASE /\ mem'.active = mem.active
               /\ mem'.captures = mem.captures \cup {task[s].m}
               /\ mem'.starting.m = mem.starting.m
               /\ stray' = stray
               /\ page' = page
    BY <1>3, <2>1, <2>2 DEF Refused, Closed, At, Calls, Starters, Attempt, Sleep
  <2>3. CASE /\ mem'.active = mem.active
               /\ mem'.captures = mem.captures
               /\ mem'.starting.m = None
               /\ stray' = stray
               /\ page' = page
    BY <1>3, <2>1, <2>3 DEF Refused, Closed, At, Calls, Starters, Attempt, Sleep
  <2> QED BY <2>1, <2>2, <2>3
<1>4. ASSUME NEW s \in Starts, OpenPage(s) PROVE Refused'
  BY <1>4, OpenMoves DEF Refused, Closed, OpenPage, At, Calls, Paged, Held
<1>5. ASSUME NEW s \in Starts, CapturePage(s) PROVE Refused'
  <2>1. /\ At(s, "capture")
        /\ \/ /\ page.state = "capturing"
              /\ mem'.active = mem.active
              /\ mem'.captures = mem.captures
              /\ mem'.starting.m = mem.starting.m
              /\ stray' = stray
              /\ page' = [page EXCEPT !.state = "stopping"]
           \/ /\ page.state = "idle"
              /\ mem'.active = mem.active
              /\ mem'.captures = mem.captures
              /\ mem'.starting.m = mem.starting.m
              /\ stray' = stray
              /\ page' = [state |-> "capturing", m |-> task[s].m]
           \/ /\ mem'.active = mem.active
              /\ mem'.captures = mem.captures
              /\ mem'.starting.m = mem.starting.m
              /\ stray' = stray
              /\ page' = page
    BY <1>5, CaptureMoves
  <2>2. CASE /\ page.state = "capturing"
               /\ mem'.active = mem.active
               /\ mem'.captures = mem.captures
               /\ mem'.starting.m = mem.starting.m
               /\ stray' = stray
               /\ page' = [page EXCEPT !.state = "stopping"]
    BY <1>5, <2>1, <2>2 DEF Refused, Closed, At, Calls, Starters, Attempt, Sleep
  <2>3. CASE /\ page.state = "idle"
               /\ mem'.active = mem.active
               /\ mem'.captures = mem.captures
               /\ mem'.starting.m = mem.starting.m
               /\ stray' = stray
               /\ page' = [state |-> "capturing", m |-> task[s].m]
    BY <1>5, <2>1, <2>3 DEF Refused, Closed, At, Calls, Starters, Attempt, Sleep
  <2>4. CASE /\ mem'.active = mem.active
               /\ mem'.captures = mem.captures
               /\ mem'.starting.m = mem.starting.m
               /\ stray' = stray
               /\ page' = page
    BY <1>5, <2>1, <2>4 DEF Refused, Closed, At, Calls, Starters, Attempt, Sleep
  <2> QED BY <2>1, <2>2, <2>3, <2>4
<1>6. ASSUME NEW s \in Starts, PersistCaptures(s) PROVE Refused'
  BY <1>6, PersistMoves DEF Refused, Closed, Holds, At, Calls
<1>7. ASSUME NEW s \in Starts, UndoCapture(s) PROVE Refused'
  <2>1. /\ At(s, "undo")
        /\ \/ /\ mem'.active = mem.active
              /\ mem'.captures = mem.captures
              /\ mem'.starting.m = mem.starting.m
              /\ stray' = stray
              /\ StopPage
           \/ /\ PageQuiet
              /\ mem'.active = mem.active
              /\ mem'.captures = mem.captures \ {task[s].m}
              /\ mem'.starting.m = mem.starting.m
              /\ stray' = stray
              /\ page' = Gone
           \/ /\ PageQuiet
              /\ mem'.active = mem.active
              /\ mem'.captures = mem.captures \ {task[s].m}
              /\ mem'.starting.m = None
              /\ stray' = stray
              /\ page' = Gone
    BY <1>7, UndoMoves DEF Holds
  <2>2. CASE /\ mem'.active = mem.active
               /\ mem'.captures = mem.captures
               /\ mem'.starting.m = mem.starting.m
               /\ stray' = stray
               /\ StopPage
    BY <1>7, <2>1, <2>2 DEF Refused, Closed, At, StopPage, PageQuiet, Gone, Calls, Starters, Attempt, Sleep
  <2>3. CASE /\ PageQuiet
               /\ mem'.active = mem.active
               /\ mem'.captures = mem.captures \ {task[s].m}
               /\ mem'.starting.m = mem.starting.m
               /\ stray' = stray
               /\ page' = Gone
    BY <1>7, <2>1, <2>3 DEF Refused, Closed, At, StopPage, PageQuiet, Gone, Calls, Starters, Attempt, Sleep
  <2>4. CASE /\ PageQuiet
               /\ mem'.active = mem.active
               /\ mem'.captures = mem.captures \ {task[s].m}
               /\ mem'.starting.m = None
               /\ stray' = stray
               /\ page' = Gone
    BY <1>7, <2>1, <2>4 DEF Refused, Closed, At, StopPage, PageQuiet, Gone, Calls, Starters, Attempt, Sleep
  <2> QED BY <2>1, <2>2, <2>3, <2>4
<1>8. ASSUME NEW s \in Starts, EraseMeeting(s) PROVE Refused'
  <2>1. /\ At(s, "erase")
        /\ mem'.active = Released(task[s].m)
        /\ mem'.captures = mem.captures
        /\ mem'.starting.m = mem.starting.m
        /\ stray' = stray
        /\ page' = page
    BY <1>8, EraseMoves
  <2> QED BY <1>8, <2>1 DEF Refused, Closed, At, Released, Calls
<1>9. ASSUME NEW c \in Stops, StopRequested(c) PROVE Refused'
  <2>1. /\ At(c, "new") /\ mem.active \in Meetings
        /\ \/ /\ IsActive(mem.active)
              /\ mem'.active = mem.active
              /\ mem'.captures = mem.captures
              /\ mem'.starting.m = mem.starting.m
              /\ stray' = stray
              /\ page' = page
           \/ /\ ~IsActive(mem.active)
              /\ mem'.active = mem.active
              /\ mem'.captures = mem.captures
              /\ mem'.starting.m = mem.starting.m
              /\ stray' = stray
              /\ page' = page
    BY <1>9, StopMoves DEF Holds
  <2> QED BY <1>9, <2>1 DEF Refused, Closed, At, IsActive, Calls
<1>10. ASSUME NEW c \in Stops, TabEnded(c) PROVE Refused'
  <2>1. /\ At(c, "new")
        /\ mem'.active = mem.active
        /\ mem'.captures = mem.captures
        /\ mem'.starting.m = mem.starting.m
        /\ stray' = stray
        /\ page' = page
    BY <1>10, TabMoves DEF Holds
  <2> QED BY <1>10, <2>1 DEF Refused, Closed, At, Calls
<1>11. ASSUME NEW c \in Stops, StopRecording(c) PROVE Refused'
  <2>1. /\ At(c, "final")
        /\ \/ /\ rec[task[c].m] \in {"recording", "deleted"}
              /\ mem'.active = Released(task[c].m)
              /\ mem'.captures = mem.captures
              /\ mem'.starting.m = mem.starting.m
              /\ stray' = stray
              /\ page' = page
           \/ /\ rec[task[c].m] \notin {"recording", "deleted"}
              /\ mem'.active = mem.active
              /\ mem'.captures = mem.captures
              /\ mem'.starting.m = mem.starting.m
              /\ stray' = stray
              /\ page' = page
    BY <1>11, FinalMoves, Updating DEF Holds
  <2> QED BY <1>11, <2>1 DEF Refused, Closed, At, Released, Calls
<1>12. ASSUME NEW c \in Calls, Teardown(c) PROVE Refused'
  <2>1. /\ At(c, "teardown") /\ mem.starting.m # task[c].m
        /\ \/ /\ mem'.active = mem.active
              /\ mem'.captures = mem.captures
              /\ mem'.starting.m = mem.starting.m
              /\ stray' = stray
              /\ StopPage
           \/ /\ c \in Starts /\ PageQuiet
              /\ mem'.active = mem.active
              /\ mem'.captures = mem.captures \ {task[c].m}
              /\ mem'.starting.m = mem.starting.m
              /\ stray' = stray
              /\ page' = Gone
           \/ /\ c \notin Starts /\ PageQuiet
              /\ mem'.active = mem.active
              /\ mem'.captures = mem.captures \ {task[c].m}
              /\ mem'.starting.m = mem.starting.m
              /\ stray' = stray
              /\ page' = Gone
    BY <1>12, TeardownMoves DEF Holds, Teardown
  <2>2. CASE /\ mem'.active = mem.active
               /\ mem'.captures = mem.captures
               /\ mem'.starting.m = mem.starting.m
               /\ stray' = stray
               /\ StopPage
    BY <1>12, <2>1, <2>2 DEF Refused, Closed, At, StopPage, PageQuiet, Gone
  <2>3. CASE /\ c \in Starts /\ PageQuiet
               /\ mem'.active = mem.active
               /\ mem'.captures = mem.captures \ {task[c].m}
               /\ mem'.starting.m = mem.starting.m
               /\ stray' = stray
               /\ page' = Gone
    BY <1>12, <2>1, <2>3 DEF Refused, Closed, At, StopPage, PageQuiet, Gone
  <2>4. CASE /\ c \notin Starts /\ PageQuiet
               /\ mem'.active = mem.active
               /\ mem'.captures = mem.captures \ {task[c].m}
               /\ mem'.starting.m = mem.starting.m
               /\ stray' = stray
               /\ page' = Gone
    BY <1>12, <2>1, <2>4 DEF Refused, Closed, At, StopPage, PageQuiet, Gone
  <2> QED BY <2>1, <2>2, <2>3, <2>4
<1>13. ASSUME NEW c \in Calls, FailRecording(c) PROVE Refused'
  <2>1. /\ At(c, "fail")
        /\ mem'.active = Released(task[c].m)
        /\ mem'.captures = mem.captures
        /\ mem'.starting.m = mem.starting.m
        /\ stray' = stray
        /\ page' = page
    BY <1>13, FailMoves, Updating DEF Holds
  <2> QED BY <1>13, <2>1 DEF Refused, Closed, At, Released
<1>14. ASSUME NEW m \in Meetings, NEW fails \in BOOLEAN, CaptureError(m, fails) PROVE Refused'
  <2>1. /\ mem.up /\ <<m, fails>> \in errors
        /\ \/ /\ mem'.active = mem.active
              /\ mem'.captures = mem.captures
              /\ mem'.starting.m = mem.starting.m
              /\ stray' = stray
              /\ page' = page
           \/ /\ mem.starting.m # m
              /\ mem'.active = mem.active
              /\ mem'.captures = mem.captures
              /\ mem'.starting.m = mem.starting.m
              /\ stray' = stray
              /\ StopPage
           \/ /\ mem.starting.m # m /\ PageQuiet
              /\ mem'.active = IF fails THEN Released(m) ELSE mem.active
              /\ mem'.captures = mem.captures \ {m}
              /\ mem'.starting.m = mem.starting.m
              /\ stray' = stray
              /\ page' = Gone
    BY <1>14, ErrorMoves, Updating DEF Holds
  <2>2. mem'.active \in {None, mem.active}
    BY <2>1 DEF Released
  <2>3. /\ mem'.captures \subseteq mem.captures /\ mem'.starting.m = mem.starting.m /\ stray' = stray
        /\ page'.m \in {None, page.m}
    BY <2>1 DEF StopPage, Gone, PageTyped, PageState
  <2> QED BY <2>2, <2>3 DEF Refused, Closed
<1>15. ASSUME NEW c \in Chunks, ReceiveChunk(c) PROVE Refused'
  BY <1>15, ReceiveMoves DEF Refused, Closed, Holds, Awaited, Pending, Born
<1>16. ASSUME NEW c \in Chunks, LoseChunk(c) PROVE Refused'
  BY <1>16 DEF Refused, Closed, LoseChunk, Move, durable
<1>17. ASSUME WriteChunk PROVE Refused'
  BY <1>17, WriteMoves, ChainHead DEF Refused, Closed, WriteChunk
<1>18. ASSUME WriteFails PROVE Refused'
  BY <1>18, RefuseMoves, ChainHead, Updating DEF Refused, Closed, WriteFails, StopAfterRefusal, Released
<1>19. ASSUME PageStopped PROVE Refused'
  BY <1>19 DEF Refused, Closed, PageStopped, durable
<1>20. ASSUME SettleLostCaptures PROVE Refused'
  BY <1>20, SettleMoves DEF Refused, Closed, Holds, SettleLostCaptures, LostCaptures
<1>21. ASSUME PageCrashes PROVE Refused'
  BY <1>21 DEF Refused, Closed, PageCrashes, Gone, durable
<1>22. ASSUME KillWorker PROVE Refused'
  BY <1>22, KillMoves, AsleepTyped DEF Refused, Closed, Asleep, NotStarting, KillWorker
<1>23. ASSUME WakeWorker PROVE Refused'
  BY <1>23, WakeMoves DEF Refused, Closed, OrphanSaved
<1>24. ASSUME NEW s \in Starts, StartRequested(s) \/ AbortStart(s)
      PROVE  Refused'
  BY <1>24 DEF Refused, Closed, StartRequested, AbortStart, durable
<1>25. ASSUME NEW c \in Chunks, EmitChunk(c) \/ ChunkAnswered(c) \/ ResendChunk(c)
      PROVE  Refused'
  BY <1>25 DEF Refused, Closed, EmitChunk, ChunkAnswered, ResendChunk, durable
<1>26. CASE UNCHANGED vars
  BY <1>26 DEF vars, durable, Refused, Closed
<1> QED BY <1>1, <1>2, <1>3, <1>4, <1>5, <1>6, <1>7, <1>8, <1>9, <1>10, <1>11, <1>12, <1>13, <1>14, <1>15,
         <1>16, <1>17, <1>18, <1>19, <1>20, <1>21, <1>22, <1>23, <1>24, <1>25, <1>26 DEF Next, StartStep,
         StopStep, PageStep


LEMMA ErasedStep ==
  ASSUME Inv, TypeOK', RecordKept, [Next]_vars
  PROVE  Erased'
<1>. USE RecorderAssumption, Ids, TypesApart DEF Inv, Creating, Known, Attempting, Closing, Active, Audio, Watched
<1>1. ASSUME NEW s \in Starts, StartRequested(s) PROVE Erased'
  BY <1>1, StartRequestedMoves DEF Erased, Sleep, Calls, At, Told
<1>2. ASSUME NEW s \in Starts, CreateMeeting(s) PROVE Erased'
  BY <1>2, CreateMoves DEF Erased, Shares, Follows, Joins, Creates, Holds, Told, At, Unused, Calls
<1>3. ASSUME NEW s \in Starts, SaveMeeting(s) PROVE Erased'
  <2>1. /\ At(s, "save") /\ task[s].m \in Meetings
        /\ (\A x \in Calls : task'[x].m = task[x].m)
        /\ (\A x \in Calls : task'[x].pc =
              IF x = s THEN IF mem.starting.m = None THEN "prepare" ELSE "abort"
              ELSE IF task[x].pc = "join" THEN IF mem.starting.m = None THEN "await" ELSE "abort"
              ELSE task[x].pc)
        /\ stray' = stray
        /\ chunk' = chunk
    BY <1>3, SaveMoves
  <2> QED BY <1>3, <2>1 DEF Erased, At, Calls
<1>4. ASSUME NEW s \in Starts, Prepare(s) PROVE Erased'
  BY <1>4, PrepareMoves DEF Erased, Holds, Told, Waiting, At, Calls
<1>5. ASSUME NEW s \in Starts, OpenPage(s) PROVE Erased'
  BY <1>5, OpenMoves DEF Erased, OpenPage, Told, At, Calls
<1>6. ASSUME NEW s \in Starts, CapturePage(s) PROVE Erased'
  BY <1>6, CaptureMoves DEF Erased, Told, At, Calls
<1>7. ASSUME NEW s \in Starts, PersistCaptures(s) PROVE Erased'
  BY <1>7, PersistMoves DEF Erased, Holds, Told, Waiting, At, Calls
<1>8. ASSUME NEW s \in Starts, UndoCapture(s) PROVE Erased'
  BY <1>8, UndoMoves DEF Erased, Holds, Told, Waiting, At, PageQuiet, Calls
<1>9. ASSUME NEW s \in Starts, AbortStart(s) PROVE Erased'
  <2>1. /\ At(s, "abort")
        /\ \/ /\ store[task[s].m] = {}
              /\ Told({s}, "erase", task[s].m)
              /\ stray' = stray
              /\ chunk' = chunk
           \/ Told({s}, "fail", task[s].m) /\ stray' = stray /\ chunk' = chunk
    BY <1>9, AbortMoves
  <2> SUFFICES ASSUME NEW x \in Calls, NEW y \in Chunks, task'[x].pc = "erase", task'[x].m \notin stray',
                      chunk'[y].m = task'[x].m
               PROVE  chunk'[y].state \notin {"saved", "acked"}
    BY DEF Erased
  <2>2. CASE /\ store[task[s].m] = {}
               /\ Told({s}, "erase", task[s].m)
               /\ stray' = stray
               /\ chunk' = chunk
    BY <1>9, <2>1, <2>2 DEF Erased, Told, At, Calls, Answered, Stored, Sleep
  <2>3. CASE /\ Told({s}, "fail", task[s].m)
               /\ stray' = stray
               /\ chunk' = chunk
    BY <1>9, <2>1, <2>3 DEF Erased, Told, At, Calls, Answered, Stored, Sleep
  <2> QED BY <2>1, <2>2, <2>3
<1>10. ASSUME NEW s \in Starts, EraseMeeting(s) PROVE Erased'
  <2>1. At(s, "erase") /\ Told({s}, "done", None) /\ stray' = stray /\ chunk' = chunk
    BY <1>10, EraseMoves
  <2> QED BY <1>10, <2>1 DEF Erased, Told, At, Calls
<1>11. ASSUME NEW c \in Stops, StopRequested(c) PROVE Erased'
  BY <1>11, StopMoves DEF Erased, Holds, Told, At, IsActive, Calls
<1>12. ASSUME NEW c \in Stops, TabEnded(c) PROVE Erased'
  BY <1>12, TabMoves DEF Erased, Holds, Told, At, Calls
<1>13. ASSUME NEW c \in Stops, StopRecording(c) PROVE Erased'
  BY <1>13, FinalMoves, Updating DEF Erased, Holds, Told, At, Calls
<1>14. ASSUME NEW c \in Calls, Teardown(c) PROVE Erased'
  <2>1. /\ At(c, "teardown") /\ mem.starting.m # task[c].m
        /\ \/ UNCHANGED task /\ stray' = stray /\ chunk' = chunk
           \/ c \in Starts /\ PageQuiet /\ Told({c}, "done", None) /\ stray' = stray /\ chunk' = chunk
           \/ /\ c \notin Starts /\ PageQuiet
              /\ Told({c}, "final", task[c].m)
              /\ stray' = stray
              /\ chunk' = chunk
    BY <1>14, TeardownMoves DEF Holds, Teardown
  <2> QED BY <1>14, <2>1 DEF Erased, Told, At, PageQuiet
<1>15. ASSUME NEW c \in Calls, FailRecording(c) PROVE Erased'
  BY <1>15, FailMoves, Updating DEF Erased, Holds, Told, At
<1>16. ASSUME NEW c \in Chunks, EmitChunk(c) PROVE Erased'
  <2> SUFFICES ASSUME NEW x \in Calls, NEW y \in Chunks, task'[x].pc = "erase", task'[x].m \notin stray',
                      chunk'[y].m = task'[x].m
               PROVE  chunk'[y].state \notin {"saved", "acked"}
    BY DEF Erased
  <2> QED BY <1>16 DEF Erased, EmitChunk, ChunksTyped, ChunkState, durable
<1>17. ASSUME NEW c \in Chunks, ReceiveChunk(c) PROVE Erased'
  BY <1>17, ReceiveMoves DEF Erased, Holds, Move, ChunksTyped, ChunkState, Awaited, Pending, GivenUp,
     GivingUp, Closed
<1>18. ASSUME NEW c \in Chunks, ChunkAnswered(c) PROVE Erased'
  <2> SUFFICES ASSUME NEW x \in Calls, NEW y \in Chunks, task'[x].pc = "erase", task'[x].m \notin stray',
                      chunk'[y].m = task'[x].m
               PROVE  chunk'[y].state \notin {"saved", "acked"}
    BY DEF Erased
  <2> QED BY <1>18 DEF Erased, ChunkAnswered, Move, ChunksTyped, ChunkState, durable
<1>19. ASSUME NEW c \in Chunks, ResendChunk(c) PROVE Erased'
  <2> SUFFICES ASSUME NEW x \in Calls, NEW y \in Chunks, task'[x].pc = "erase", task'[x].m \notin stray',
                      chunk'[y].m = task'[x].m
               PROVE  chunk'[y].state \notin {"saved", "acked"}
    BY DEF Erased
  <2> QED BY <1>19 DEF Erased, ResendChunk, Move, ChunksTyped, ChunkState, durable
<1>20. ASSUME NEW c \in Chunks, LoseChunk(c) PROVE Erased'
  <2> SUFFICES ASSUME NEW x \in Calls, NEW y \in Chunks, task'[x].pc = "erase", task'[x].m \notin stray',
                      chunk'[y].m = task'[x].m
               PROVE  chunk'[y].state \notin {"saved", "acked"}
    BY DEF Erased
  <2> QED BY <1>20 DEF Erased, LoseChunk, Move, ChunksTyped, ChunkState, durable
<1>21. ASSUME WriteChunk PROVE Erased'
  BY <1>21, WriteMoves, ChainHead DEF Erased, WriteChunk, Answer, ChunksTyped, ChunkState, Awaited, Pending,
     GivenUp, GivingUp, Closed
<1>22. ASSUME WriteFails PROVE Erased'
  BY <1>22, RefuseMoves, ChainHead, Updating DEF Erased, WriteFails, StopAfterRefusal, Answer, ChunksTyped,
     ChunkState
<1>23. ASSUME PageCrashes PROVE Erased'
  <2> SUFFICES ASSUME NEW x \in Calls, NEW y \in Chunks, task'[x].pc = "erase", task'[x].m \notin stray',
                      chunk'[y].m = task'[x].m
               PROVE  chunk'[y].state \notin {"saved", "acked"}
    BY DEF Erased
  <2> QED BY <1>23 DEF Erased, PageCrashes, Gone, ChunksTyped, ChunkState, durable
<1>24. ASSUME KillWorker PROVE Erased'
  BY <1>24, KillMoves, AsleepTyped DEF Erased, Asleep, NotStarting, KillWorker, ChunksTyped, ChunkState,
     Sleep
<1>25. ASSUME NEW m \in Meetings, NEW fails \in BOOLEAN, CaptureError(m, fails)
      PROVE  Erased'
  BY <1>25 DEF Erased, CaptureError, durable
<1>26. ASSUME PageStopped \/ SettleLostCaptures \/ WakeWorker
      PROVE  Erased'
  BY <1>26 DEF Erased, PageStopped, SettleLostCaptures, WakeWorker, durable
<1>27. CASE UNCHANGED vars
  BY <1>27 DEF vars, durable, Erased
<1> QED BY <1>1, <1>2, <1>3, <1>4, <1>5, <1>6, <1>7, <1>8, <1>9, <1>10, <1>11, <1>12, <1>13, <1>14, <1>15,
         <1>16, <1>17, <1>18, <1>19, <1>20, <1>21, <1>22, <1>23, <1>24, <1>25, <1>26, <1>27 DEF Next,
         StartStep, StopStep, PageStep


LEMMA CurrentStep ==
  ASSUME Inv, TypeOK', RecordKept, [Next]_vars
  PROVE  Current'
<1>. USE RecorderAssumption, Ids, TypesApart DEF Inv, Creating, Known, Attempting, Closing, Active, Audio, Watched
<1>1. ASSUME NEW s \in Starts, CreateMeeting(s) PROVE Current'
  <2>1. /\ At(s, "create")
        /\ \/ /\ mem.active # None /\ mem.starting.m = None
              /\ mem'.up = mem.up
              /\ mem'.active = mem.active
              /\ rec' = rec
           \/ /\ mem.active # None /\ mem.starting.m = mem.active
              /\ mem'.up = mem.up
              /\ mem'.active = mem.active
              /\ rec' = rec
           \/ /\ mem.active # None /\ mem.starting.m \notin {None, mem.active}
              /\ mem'.up = mem.up
              /\ mem'.active = mem.active
              /\ rec' = rec
           \/ /\ mem.active = None /\ mem.creating # None
              /\ mem'.up = mem.up
              /\ mem'.active = mem.active
              /\ rec' = rec
           \/ /\ mem.active = None /\ mem.creating = None /\ FreshId \in Unused
              /\ mem'.up = mem.up
              /\ mem'.active = mem.active
              /\ rec' = rec
    BY <1>1, CreateMoves DEF Shares, Follows, Joins, Creates, Holds
  <2> QED BY <1>1, <2>1 DEF Current, At, Unused, Calls
<1>2. ASSUME NEW s \in Starts, SaveMeeting(s) PROVE Current'
  <2>1. /\ At(s, "save") /\ task[s].m \in Meetings
        /\ mem'.up = mem.up
        /\ mem'.active = task[s].m
        /\ rec' = [rec EXCEPT ![task[s].m] = "recording"]
    BY <1>2, SaveMoves
  <2> SUFFICES ASSUME mem'.up, NEW x \in Meetings
               PROVE  mem'.active = x <=> rec'[x] = "recording"
    BY DEF Current
  <2> QED BY <1>2, <2>1 DEF Current, At, Calls, RecordsTyped, Sleep, Unmade, Started, Slot, Makers
<1>3. ASSUME NEW s \in Starts, Prepare(s) PROVE Current'
  BY <1>3, PrepareMoves DEF Current, Holds, At, Calls
<1>4. ASSUME NEW s \in Starts, PersistCaptures(s) PROVE Current'
  BY <1>4, PersistMoves DEF Current, Holds, At, Calls
<1>5. ASSUME NEW s \in Starts, UndoCapture(s) PROVE Current'
  BY <1>5, UndoMoves DEF Current, Holds, At, PageQuiet, Calls
<1>6. ASSUME NEW s \in Starts, EraseMeeting(s) PROVE Current'
  <2>1. /\ At(s, "erase")
        /\ mem'.up = mem.up
        /\ mem'.active = Released(task[s].m)
        /\ rec' = [rec EXCEPT ![task[s].m] = "deleted"]
    BY <1>6, EraseMoves
  <2> SUFFICES ASSUME mem'.up, NEW x \in Meetings
               PROVE  mem'.active = x <=> rec'[x] = "recording"
    BY DEF Current
  <2> QED BY <1>6, <2>1 DEF Current, At, Released, Calls, RecordsTyped, Sleep
<1>7. ASSUME NEW c \in Stops, StopRequested(c) PROVE Current'
  BY <1>7, StopMoves DEF Current, Holds, At, IsActive, Calls
<1>8. ASSUME NEW c \in Stops, TabEnded(c) PROVE Current'
  BY <1>8, TabMoves DEF Current, Holds, At, Calls
<1>9. ASSUME NEW c \in Stops, StopRecording(c) PROVE Current'
  <2>1. /\ At(c, "final")
        /\ \/ /\ rec[task[c].m] \in {"recording", "deleted"}
              /\ mem'.up = mem.up
              /\ mem'.active = Released(task[c].m)
              /\ Update(task[c].m, "saved")
           \/ /\ rec[task[c].m] \notin {"recording", "deleted"}
              /\ mem'.up = mem.up
              /\ mem'.active = mem.active
              /\ rec' = rec
    BY <1>9, FinalMoves, Updating DEF Holds
  <2> SUFFICES ASSUME mem'.up, NEW x \in Meetings
               PROVE  mem'.active = x <=> rec'[x] = "recording"
    BY DEF Current
  <2>2. CASE /\ rec[task[c].m] \in {"recording", "deleted"}
               /\ mem'.up = mem.up
               /\ mem'.active = Released(task[c].m)
               /\ Update(task[c].m, "saved")
    BY <1>9, <2>1, <2>2 DEF Current, At, Released, Update, Calls, RecordsTyped, Sleep
  <2>3. CASE /\ rec[task[c].m] \notin {"recording", "deleted"}
               /\ mem'.up = mem.up
               /\ mem'.active = mem.active
               /\ rec' = rec
    BY <1>9, <2>1, <2>3 DEF Current, At, Released, Update, Calls, RecordsTyped, Sleep
  <2> QED BY <2>1, <2>2, <2>3
<1>10. ASSUME NEW c \in Calls, Teardown(c) PROVE Current'
  <2>1. /\ At(c, "teardown") /\ mem.starting.m # task[c].m
        /\ \/ mem'.up = mem.up /\ mem'.active = mem.active /\ rec' = rec
           \/ c \in Starts /\ PageQuiet /\ mem'.up = mem.up /\ mem'.active = mem.active /\ rec' = rec
           \/ /\ c \notin Starts /\ PageQuiet
              /\ mem'.up = mem.up
              /\ mem'.active = mem.active
              /\ rec' = rec
    BY <1>10, TeardownMoves DEF Holds, Teardown
  <2> QED BY <1>10, <2>1 DEF Current, At, PageQuiet
<1>11. ASSUME NEW c \in Calls, FailRecording(c) PROVE Current'
  <2>1. /\ At(c, "fail")
        /\ mem'.up = mem.up
        /\ mem'.active = Released(task[c].m)
        /\ Update(task[c].m, "error")
    BY <1>11, FailMoves, Updating DEF Holds
  <2> SUFFICES ASSUME mem'.up, NEW x \in Meetings
               PROVE  mem'.active = x <=> rec'[x] = "recording"
    BY DEF Current
  <2> QED BY <1>11, <2>1 DEF Current, At, Released, Update, RecordsTyped, Sleep
<1>12. ASSUME NEW m \in Meetings, NEW fails \in BOOLEAN, CaptureError(m, fails) PROVE Current'
  <2>1. /\ mem.up /\ <<m, fails>> \in errors
        /\ \/ mem'.up = mem.up /\ mem'.active = mem.active /\ rec' = rec
           \/ mem.starting.m # m /\ mem'.up = mem.up /\ mem'.active = mem.active /\ rec' = rec
           \/ /\ mem.starting.m # m /\ PageQuiet
              /\ mem'.up = mem.up
              /\ mem'.active = IF fails THEN Released(m) ELSE mem.active
              /\ (IF fails THEN Update(m, "error") ELSE rec' = rec)
    BY <1>12, ErrorMoves, Updating DEF Holds
  <2> SUFFICES ASSUME mem'.up, NEW x \in Meetings
               PROVE  mem'.active = x <=> rec'[x] = "recording"
    BY DEF Current
  <2>2. CASE /\ mem'.up = mem.up
               /\ mem'.active = mem.active
               /\ rec' = rec
    BY <1>12, <2>1, <2>2 DEF Current, Released, PageQuiet, Update, RecordsTyped
  <2>3. CASE /\ mem.starting.m # m
               /\ mem'.up = mem.up
               /\ mem'.active = mem.active
               /\ rec' = rec
    BY <1>12, <2>1, <2>3 DEF Current, Released, PageQuiet, Update, RecordsTyped
  <2>4. CASE /\ mem.starting.m # m /\ PageQuiet
               /\ mem'.up = mem.up
               /\ mem'.active = IF fails THEN Released(m) ELSE mem.active
               /\ (IF fails THEN Update(m, "error") ELSE rec' = rec)
    BY <1>12, <2>1, <2>4 DEF Current, Released, PageQuiet, Update, RecordsTyped
  <2> QED BY <2>1, <2>2, <2>3, <2>4
<1>13. ASSUME NEW c \in Chunks, ReceiveChunk(c) PROVE Current'
  <2>1. /\ mem.up /\ chunk[c].state = "sent"
        /\ \/ /\ chunk[c].m \in mem.captures
              /\ mem'.up = mem.up
              /\ mem'.active = mem.active
              /\ rec' = rec
           \/ mem.active = chunk[c].m /\ mem'.up = mem.up /\ mem'.active = mem.active /\ rec' = rec
           \/ /\ chunk[c].m \notin mem.captures
              /\ mem'.up = mem.up
              /\ mem'.active = mem.active
              /\ rec' = rec
    BY <1>13, ReceiveMoves DEF Holds
  <2> QED BY <1>13, <2>1 DEF Current
<1>14. ASSUME WriteChunk PROVE Current'
  BY <1>14, WriteMoves, ChainHead DEF Current, WriteChunk
<1>15. ASSUME WriteFails PROVE Current'
  BY <1>15, RefuseMoves, ChainHead, Updating DEF Current, WriteFails, StopAfterRefusal, Released, Update,
     RecordsTyped
<1>16. ASSUME SettleLostCaptures PROVE Current'
  BY <1>16, SettleMoves DEF Current, Holds, SettleLostCaptures, LostCaptures
<1>17. ASSUME KillWorker PROVE Current'
  BY <1>17, KillMoves, AsleepTyped DEF Current, Asleep, NotStarting, KillWorker
<1>18. ASSUME WakeWorker PROVE Current'
  BY <1>18, WakeMoves DEF Current, OrphanSaved, RecordsTyped, Newest, Latest
<1>19. ASSUME NEW s \in Starts, StartRequested(s) \/ OpenPage(s) \/ CapturePage(s) \/ AbortStart(s)
      PROVE  Current'
  BY <1>19 DEF Current, StartRequested, OpenPage, CapturePage, AbortStart, durable
<1>20. ASSUME NEW c \in Chunks, EmitChunk(c) \/ ChunkAnswered(c) \/ ResendChunk(c) \/ LoseChunk(c)
      PROVE  Current'
  BY <1>20 DEF Current, EmitChunk, ChunkAnswered, ResendChunk, LoseChunk, durable
<1>21. ASSUME PageStopped \/ PageCrashes
      PROVE  Current'
  BY <1>21 DEF Current, PageStopped, PageCrashes, durable
<1>22. CASE UNCHANGED vars
  BY <1>22 DEF vars, durable, Current
<1> QED BY <1>1, <1>2, <1>3, <1>4, <1>5, <1>6, <1>7, <1>8, <1>9, <1>10, <1>11, <1>12, <1>13, <1>14, <1>15,
         <1>16, <1>17, <1>18, <1>19, <1>20, <1>21, <1>22 DEF Next, StartStep, StopStep, PageStep


LEMMA NewestStep ==
  ASSUME Inv, TypeOK', RecordKept, [Next]_vars
  PROVE  Newest'
<1>. USE RecorderAssumption, Ids, TypesApart DEF Inv, Creating, Known, Attempting, Closing, Active, Audio, Watched
<1>1. ASSUME NEW s \in Starts, SaveMeeting(s) PROVE Newest'
  <2>1. /\ At(s, "save") /\ task[s].m \in Meetings
        /\ rec' = [rec EXCEPT ![task[s].m] = "recording"]
        /\ index' = Append(index, task[s].m)
    BY <1>1, SaveMoves
  <2> SUFFICES ASSUME NEW x \in Meetings, rec'[x] = "recording"
               PROVE  Latest' = x
    BY DEF Newest
  <2> QED BY <1>1, <2>1 DEF Newest, Latest, At, Calls, RecordsTyped, Current, Slot, Makers
<1>2. ASSUME NEW s \in Starts, EraseMeeting(s) PROVE Newest'
  <2>1. /\ At(s, "erase")
        /\ rec' = [rec EXCEPT ![task[s].m] = "deleted"]
        /\ index' = Without(index, task[s].m)
    BY <1>2, EraseMoves
  <2> SUFFICES ASSUME NEW x \in Meetings, rec'[x] = "recording"
               PROVE  Latest' = x
    BY DEF Newest
  <2> QED BY <1>2, <2>1, WithoutIndex DEF Newest, Latest, At, Calls, RecordsTyped, Sleep
<1>3. ASSUME NEW c \in Stops, StopRecording(c) PROVE Newest'
  <2>1. /\ At(c, "final")
        /\ \/ /\ rec[task[c].m] \in {"recording", "deleted"}
              /\ Update(task[c].m, "saved")
              /\ index' = index
           \/ rec[task[c].m] \notin {"recording", "deleted"} /\ rec' = rec /\ index' = index
    BY <1>3, FinalMoves, Updating DEF Holds
  <2> SUFFICES ASSUME NEW x \in Meetings, rec'[x] = "recording"
               PROVE  Latest' = x
    BY DEF Newest
  <2>2. CASE /\ rec[task[c].m] \in {"recording", "deleted"}
               /\ Update(task[c].m, "saved")
               /\ index' = index
    BY <1>3, <2>1, <2>2 DEF Newest, Latest, At, Update, Calls, RecordsTyped
  <2>3. CASE /\ rec[task[c].m] \notin {"recording", "deleted"}
               /\ rec' = rec
               /\ index' = index
    BY <1>3, <2>1, <2>3 DEF Newest, Latest, At, Update, Calls, RecordsTyped
  <2> QED BY <2>1, <2>2, <2>3
<1>4. ASSUME NEW c \in Calls, FailRecording(c) PROVE Newest'
  <2>1. At(c, "fail") /\ Update(task[c].m, "error") /\ index' = index
    BY <1>4, FailMoves, Updating DEF Holds
  <2> QED BY <1>4, <2>1 DEF Newest, Latest, At, Update, RecordsTyped
<1>5. ASSUME NEW m \in Meetings, NEW fails \in BOOLEAN, CaptureError(m, fails) PROVE Newest'
  <2>1. /\ mem.up /\ <<m, fails>> \in errors
        /\ \/ rec' = rec /\ index' = index
           \/ mem.starting.m # m /\ rec' = rec /\ index' = index
           \/ /\ mem.starting.m # m /\ PageQuiet
              /\ (IF fails THEN Update(m, "error") ELSE rec' = rec)
              /\ index' = index
    BY <1>5, ErrorMoves, Updating DEF Holds
  <2> SUFFICES ASSUME NEW x \in Meetings, rec'[x] = "recording"
               PROVE  Latest' = x
    BY DEF Newest
  <2>2. CASE /\ rec' = rec
               /\ index' = index
    BY <1>5, <2>1, <2>2 DEF Newest, Latest, PageQuiet, Update, RecordsTyped
  <2>3. CASE /\ mem.starting.m # m
               /\ rec' = rec
               /\ index' = index
    BY <1>5, <2>1, <2>3 DEF Newest, Latest, PageQuiet, Update, RecordsTyped
  <2>4. CASE /\ mem.starting.m # m /\ PageQuiet
               /\ (IF fails THEN Update(m, "error") ELSE rec' = rec)
               /\ index' = index
    BY <1>5, <2>1, <2>4 DEF Newest, Latest, PageQuiet, Update, RecordsTyped
  <2> QED BY <2>1, <2>2, <2>3, <2>4
<1>6. ASSUME WriteFails PROVE Newest'
  BY <1>6, RefuseMoves, ChainHead, Updating DEF Newest, Latest, WriteFails, StopAfterRefusal, Update,
     RecordsTyped
<1>7. ASSUME SettleLostCaptures PROVE Newest'
  BY <1>7, SettleMoves DEF Newest, Latest, Holds, SettleLostCaptures, LostCaptures
<1>8. ASSUME WakeWorker PROVE Newest'
  BY <1>8, WakeMoves DEF Newest, Latest, OrphanSaved, RecordsTyped
<1>9. ASSUME NEW s \in Starts, StartRequested(s) \/ CreateMeeting(s) \/ Prepare(s) \/ OpenPage(s) \/
         CapturePage(s) \/ PersistCaptures(s) \/ UndoCapture(s) \/ AbortStart(s)
      PROVE  Newest'
  BY <1>9 DEF Newest, Latest, StartRequested, CreateMeeting, Prepare, OpenPage, CapturePage,
     PersistCaptures, UndoCapture, AbortStart, durable
<1>10. ASSUME NEW c \in Stops, StopRequested(c) \/ TabEnded(c)
      PROVE  Newest'
  BY <1>10 DEF Newest, Latest, StopRequested, TabEnded, durable
<1>11. ASSUME NEW c \in Calls, Teardown(c)
      PROVE  Newest'
  BY <1>11 DEF Newest, Latest, Teardown, durable
<1>12. ASSUME NEW c \in Chunks, EmitChunk(c) \/ ReceiveChunk(c) \/ ChunkAnswered(c) \/ ResendChunk(c) \/
         LoseChunk(c)
      PROVE  Newest'
  BY <1>12 DEF Newest, Latest, EmitChunk, ReceiveChunk, ChunkAnswered, ResendChunk, LoseChunk, durable
<1>13. ASSUME WriteChunk \/ PageStopped \/ PageCrashes \/ KillWorker
      PROVE  Newest'
  BY <1>13 DEF Newest, Latest, WriteChunk, PageStopped, PageCrashes, KillWorker, durable
<1>14. CASE UNCHANGED vars
  BY <1>14 DEF vars, durable, Newest, Latest
<1> QED BY <1>1, <1>2, <1>3, <1>4, <1>5, <1>6, <1>7, <1>8, <1>9, <1>10, <1>11, <1>12, <1>13, <1>14 DEF Next,
         StartStep, StopStep, PageStep


LEMMA PagedStep ==
  ASSUME Inv, TypeOK', RecordKept, [Next]_vars
  PROVE  Paged'
<1>. USE RecorderAssumption, Ids, TypesApart DEF Inv, Creating, Known, Attempting, Closing, Active, Audio, Watched
<1>1. ASSUME NEW s \in Starts, CreateMeeting(s) PROVE Paged'
  <2>1. /\ At(s, "create")
        /\ \/ /\ mem.active # None /\ mem.starting.m = None
              /\ mem'.up = mem.up
              /\ mem'.captures = mem.captures
              /\ stray' = stray \cup {mem.active}
              /\ page' = page
              /\ session' = session
              /\ rec' = rec
           \/ /\ mem.active # None /\ mem.starting.m = mem.active
              /\ mem'.up = mem.up
              /\ mem'.captures = mem.captures
              /\ stray' = stray
              /\ page' = page
              /\ session' = session
              /\ rec' = rec
           \/ /\ mem.active # None /\ mem.starting.m \notin {None, mem.active}
              /\ mem'.up = mem.up
              /\ mem'.captures = mem.captures
              /\ stray' = stray
              /\ page' = page
              /\ session' = session
              /\ rec' = rec
           \/ /\ mem.active = None /\ mem.creating # None
              /\ mem'.up = mem.up
              /\ mem'.captures = mem.captures
              /\ stray' = stray
              /\ page' = page
              /\ session' = session
              /\ rec' = rec
           \/ /\ mem.active = None /\ mem.creating = None /\ FreshId \in Unused
              /\ mem'.up = mem.up
              /\ mem'.captures = mem.captures
              /\ stray' = stray
              /\ page' = page
              /\ session' = session
              /\ rec' = rec
    BY <1>1, CreateMoves DEF Shares, Follows, Joins, Creates, Holds
  <2> QED BY <1>1, <2>1 DEF Paged, Held, At, Unused, Calls
<1>2. ASSUME NEW s \in Starts, SaveMeeting(s) PROVE Paged'
  <2>1. /\ At(s, "save") /\ task[s].m \in Meetings
        /\ mem'.up = mem.up
        /\ mem'.captures = mem.captures
        /\ stray' = stray
        /\ page' = page
        /\ session' = session
        /\ rec' = [rec EXCEPT ![task[s].m] = "recording"]
    BY <1>2, SaveMoves
  <2> QED BY <1>2, <2>1 DEF Paged, Held, At, Calls
<1>3. ASSUME NEW s \in Starts, Prepare(s) PROVE Paged'
  <2>1. /\ At(s, "prepare")
        /\ \/ /\ mem'.up = mem.up
              /\ mem'.captures = mem.captures \cup {task[s].m}
              /\ stray' = stray
              /\ page' = page
              /\ session' = session
              /\ rec' = rec
           \/ /\ mem'.up = mem.up
              /\ mem'.captures = mem.captures
              /\ stray' = stray
              /\ page' = page
              /\ session' = session
              /\ rec' = rec
    BY <1>3, PrepareMoves DEF Holds
  <2> QED BY <1>3, <2>1 DEF Paged, Held, At, Calls
<1>4. ASSUME NEW s \in Starts, OpenPage(s) PROVE Paged'
  BY <1>4, OpenMoves DEF Paged, Held, OpenPage, At, Calls
<1>5. ASSUME NEW s \in Starts, CapturePage(s) PROVE Paged'
  <2>1. /\ At(s, "capture")
        /\ \/ /\ page.state = "capturing"
              /\ mem'.up = mem.up
              /\ mem'.captures = mem.captures
              /\ stray' = stray
              /\ page' = [page EXCEPT !.state = "stopping"]
              /\ session' = session
              /\ rec' = rec
           \/ /\ page.state = "idle"
              /\ mem'.up = mem.up
              /\ mem'.captures = mem.captures
              /\ stray' = stray
              /\ page' = [state |-> "capturing", m |-> task[s].m]
              /\ session' = session
              /\ rec' = rec
           \/ /\ mem'.up = mem.up
              /\ mem'.captures = mem.captures
              /\ stray' = stray
              /\ page' = page
              /\ session' = session
              /\ rec' = rec
    BY <1>5, CaptureMoves
  <2>2. CASE /\ page.state = "capturing"
               /\ mem'.up = mem.up
               /\ mem'.captures = mem.captures
               /\ stray' = stray
               /\ page' = [page EXCEPT !.state = "stopping"]
               /\ session' = session
               /\ rec' = rec
    BY <1>5, <2>1, <2>2 DEF Paged, Held, At, Calls, Capturers, Attempt, Sleep
  <2>3. CASE /\ page.state = "idle"
               /\ mem'.up = mem.up
               /\ mem'.captures = mem.captures
               /\ stray' = stray
               /\ page' = [state |-> "capturing", m |-> task[s].m]
               /\ session' = session
               /\ rec' = rec
    BY <1>5, <2>1, <2>3 DEF Paged, Held, At, Calls, Capturers, Attempt, Sleep
  <2>4. CASE /\ mem'.up = mem.up
               /\ mem'.captures = mem.captures
               /\ stray' = stray
               /\ page' = page
               /\ session' = session
               /\ rec' = rec
    BY <1>5, <2>1, <2>4 DEF Paged, Held, At, Calls, Capturers, Attempt, Sleep
  <2> QED BY <2>1, <2>2, <2>3, <2>4
<1>6. ASSUME NEW s \in Starts, PersistCaptures(s) PROVE Paged'
  <2>1. /\ At(s, "persist")
        /\ \/ /\ mem.active = task[s].m
              /\ mem'.up = mem.up
              /\ mem'.captures = mem.captures
              /\ stray' = stray
              /\ page' = page
              /\ session' \in {mem.captures, session}
              /\ rec' = rec
           \/ /\ mem.active # task[s].m
              /\ mem'.up = mem.up
              /\ mem'.captures = mem.captures
              /\ stray' = stray
              /\ page' = page
              /\ session' \in {mem.captures, session}
              /\ rec' = rec
    BY <1>6, PersistMoves DEF Holds
  <2> QED BY <1>6, <2>1 DEF Paged, Held, At, Calls
<1>7. ASSUME NEW s \in Starts, UndoCapture(s) PROVE Paged'
  <2>1. /\ At(s, "undo")
        /\ \/ /\ mem'.up = mem.up
              /\ mem'.captures = mem.captures
              /\ stray' = stray
              /\ StopPage
              /\ session' = session
              /\ rec' = rec
           \/ /\ PageQuiet
              /\ mem'.up = mem.up
              /\ mem'.captures = mem.captures \ {task[s].m}
              /\ stray' = stray
              /\ page' = Gone
              /\ session' = mem.captures \ {task[s].m}
              /\ rec' = rec
    BY <1>7, UndoMoves DEF Holds
  <2>2. CASE /\ mem'.up = mem.up
               /\ mem'.captures = mem.captures
               /\ stray' = stray
               /\ StopPage
               /\ session' = session
               /\ rec' = rec
    BY <1>7, <2>1, <2>2 DEF Paged, Held, At, StopPage, PageQuiet, Gone, Calls, Sleep
  <2>3. CASE /\ PageQuiet
               /\ mem'.up = mem.up
               /\ mem'.captures = mem.captures \ {task[s].m}
               /\ stray' = stray
               /\ page' = Gone
               /\ session' = mem.captures \ {task[s].m}
               /\ rec' = rec
    BY <1>7, <2>1, <2>3 DEF Paged, Held, At, StopPage, PageQuiet, Gone, Calls, Sleep
  <2> QED BY <2>1, <2>2, <2>3
<1>8. ASSUME NEW s \in Starts, EraseMeeting(s) PROVE Paged'
  <2>1. /\ At(s, "erase")
        /\ mem'.up = mem.up
        /\ mem'.captures = mem.captures
        /\ stray' = stray
        /\ page' = page
        /\ session' = session
        /\ rec' = [rec EXCEPT ![task[s].m] = "deleted"]
    BY <1>8, EraseMoves
  <2> QED BY <1>8, <2>1 DEF Paged, Held, At, Calls
<1>9. ASSUME NEW c \in Stops, StopRequested(c) PROVE Paged'
  <2>1. /\ At(c, "new") /\ mem.active \in Meetings
        /\ \/ /\ IsActive(mem.active)
              /\ mem'.up = mem.up
              /\ mem'.captures = mem.captures
              /\ stray' = stray
              /\ page' = page
              /\ session' = session
              /\ rec' = rec
           \/ /\ ~IsActive(mem.active)
              /\ mem'.up = mem.up
              /\ mem'.captures = mem.captures
              /\ stray' = stray
              /\ page' = page
              /\ session' = session
              /\ rec' = rec
    BY <1>9, StopMoves DEF Holds
  <2> QED BY <1>9, <2>1 DEF Paged, Held, At, IsActive, Calls
<1>10. ASSUME NEW c \in Stops, TabEnded(c) PROVE Paged'
  <2>1. /\ At(c, "new")
        /\ mem'.up = mem.up
        /\ mem'.captures = mem.captures
        /\ stray' = stray
        /\ page' = page
        /\ session' = session
        /\ rec' = rec
    BY <1>10, TabMoves DEF Holds
  <2> QED BY <1>10, <2>1 DEF Paged, Held, At, Calls
<1>11. ASSUME NEW c \in Stops, StopRecording(c) PROVE Paged'
  <2>1. /\ At(c, "final")
        /\ \/ /\ rec[task[c].m] \in {"recording", "deleted"}
              /\ mem'.up = mem.up
              /\ mem'.captures = mem.captures
              /\ stray' = stray
              /\ page' = page
              /\ session' = session
              /\ Update(task[c].m, "saved")
           \/ /\ rec[task[c].m] \notin {"recording", "deleted"}
              /\ mem'.up = mem.up
              /\ mem'.captures = mem.captures
              /\ stray' = stray
              /\ page' = page
              /\ session' = session
              /\ rec' = rec
    BY <1>11, FinalMoves, Updating DEF Holds
  <2> QED BY <1>11, <2>1 DEF Paged, Held, At, Update, Calls
<1>12. ASSUME NEW c \in Calls, Teardown(c) PROVE Paged'
  <2>1. /\ At(c, "teardown") /\ mem.starting.m # task[c].m
        /\ \/ /\ mem'.up = mem.up
              /\ mem'.captures = mem.captures
              /\ stray' = stray
              /\ StopPage
              /\ session' = session
              /\ rec' = rec
           \/ /\ c \in Starts /\ PageQuiet
              /\ mem'.up = mem.up
              /\ mem'.captures = mem.captures \ {task[c].m}
              /\ stray' = stray
              /\ page' = Gone
              /\ session' = mem.captures \ {task[c].m}
              /\ rec' = rec
           \/ /\ c \notin Starts /\ PageQuiet
              /\ mem'.up = mem.up
              /\ mem'.captures = mem.captures \ {task[c].m}
              /\ stray' = stray
              /\ page' = Gone
              /\ session' = mem.captures \ {task[c].m}
              /\ rec' = rec
    BY <1>12, TeardownMoves DEF Holds, Teardown
  <2>2. CASE /\ mem'.up = mem.up
               /\ mem'.captures = mem.captures
               /\ stray' = stray
               /\ StopPage
               /\ session' = session
               /\ rec' = rec
    BY <1>12, <2>1, <2>2 DEF Paged, Held, At, StopPage, PageQuiet, Gone
  <2>3. CASE /\ c \in Starts /\ PageQuiet
               /\ mem'.up = mem.up
               /\ mem'.captures = mem.captures \ {task[c].m}
               /\ stray' = stray
               /\ page' = Gone
               /\ session' = mem.captures \ {task[c].m}
               /\ rec' = rec
    BY <1>12, <2>1, <2>3 DEF Paged, Held, At, StopPage, PageQuiet, Gone
  <2>4. CASE /\ c \notin Starts /\ PageQuiet
               /\ mem'.up = mem.up
               /\ mem'.captures = mem.captures \ {task[c].m}
               /\ stray' = stray
               /\ page' = Gone
               /\ session' = mem.captures \ {task[c].m}
               /\ rec' = rec
    BY <1>12, <2>1, <2>4 DEF Paged, Held, At, StopPage, PageQuiet, Gone
  <2> QED BY <2>1, <2>2, <2>3, <2>4
<1>13. ASSUME NEW c \in Calls, FailRecording(c) PROVE Paged'
  <2>1. /\ At(c, "fail")
        /\ mem'.up = mem.up
        /\ mem'.captures = mem.captures
        /\ stray' = stray
        /\ page' = page
        /\ session' = session
        /\ Update(task[c].m, "error")
    BY <1>13, FailMoves, Updating DEF Holds
  <2> QED BY <1>13, <2>1 DEF Paged, Held, At, Update
<1>14. ASSUME NEW m \in Meetings, NEW fails \in BOOLEAN, CaptureError(m, fails) PROVE Paged'
  <2>1. /\ mem.up /\ <<m, fails>> \in errors
        /\ \/ /\ mem'.up = mem.up
              /\ mem'.captures = mem.captures
              /\ stray' = stray
              /\ page' = page
              /\ session' = session
              /\ rec' = rec
           \/ /\ mem.starting.m # m
              /\ mem'.up = mem.up
              /\ mem'.captures = mem.captures
              /\ stray' = stray
              /\ StopPage
              /\ session' = session
              /\ rec' = rec
           \/ /\ mem.starting.m # m /\ PageQuiet
              /\ mem'.up = mem.up
              /\ mem'.captures = mem.captures \ {m}
              /\ stray' = stray
              /\ page' = Gone
              /\ session' = mem.captures \ {m}
              /\ (IF fails THEN Update(m, "error") ELSE rec' = rec)
    BY <1>14, ErrorMoves, Updating DEF Holds
  <2>2. CASE /\ mem'.up = mem.up
               /\ mem'.captures = mem.captures
               /\ stray' = stray
               /\ page' = page
               /\ session' = session
               /\ rec' = rec
    BY <1>14, <2>1, <2>2 DEF Paged, Held, StopPage, PageQuiet, Gone, Update
  <2>3. CASE /\ mem.starting.m # m
               /\ mem'.up = mem.up
               /\ mem'.captures = mem.captures
               /\ stray' = stray
               /\ StopPage
               /\ session' = session
               /\ rec' = rec
    BY <1>14, <2>1, <2>3 DEF Paged, Held, StopPage, PageQuiet, Gone, Update
  <2>4. CASE /\ mem.starting.m # m /\ PageQuiet
               /\ mem'.up = mem.up
               /\ mem'.captures = mem.captures \ {m}
               /\ stray' = stray
               /\ page' = Gone
               /\ session' = mem.captures \ {m}
               /\ (IF fails THEN Update(m, "error") ELSE rec' = rec)
    BY <1>14, <2>1, <2>4 DEF Paged, Held, StopPage, PageQuiet, Gone, Update
  <2> QED BY <2>1, <2>2, <2>3, <2>4
<1>15. ASSUME NEW c \in Chunks, ReceiveChunk(c) PROVE Paged'
  BY <1>15, ReceiveMoves DEF Paged, Held, Holds
<1>16. ASSUME NEW c \in Chunks, LoseChunk(c) PROVE Paged'
  BY <1>16 DEF Paged, Held, LoseChunk, Move, durable
<1>17. ASSUME WriteChunk PROVE Paged'
  BY <1>17, WriteMoves, ChainHead DEF Paged, Held, WriteChunk
<1>18. ASSUME WriteFails PROVE Paged'
  BY <1>18, RefuseMoves, ChainHead, Updating DEF Paged, Held, WriteFails, StopAfterRefusal, Update
<1>19. ASSUME PageStopped PROVE Paged'
  BY <1>19 DEF Paged, Held, PageStopped, durable
<1>20. ASSUME SettleLostCaptures PROVE Paged'
  BY <1>20, SettleMoves DEF Paged, Held, Holds, SettleLostCaptures, LostCaptures
<1>21. ASSUME PageCrashes PROVE Paged'
  BY <1>21 DEF Paged, Held, PageCrashes, Gone, durable
<1>22. ASSUME KillWorker PROVE Paged'
  BY <1>22, KillMoves, AsleepTyped DEF Paged, Held, Asleep, NotStarting, KillWorker, Current
<1>23. ASSUME WakeWorker PROVE Paged'
  BY <1>23, WakeMoves DEF Paged, Held, OrphanSaved, Current, Newest, Restored
<1>24. ASSUME NEW s \in Starts, StartRequested(s) \/ AbortStart(s)
      PROVE  Paged'
  BY <1>24 DEF Paged, Held, StartRequested, AbortStart, durable
<1>25. ASSUME NEW c \in Chunks, EmitChunk(c) \/ ChunkAnswered(c) \/ ResendChunk(c)
      PROVE  Paged'
  BY <1>25 DEF Paged, Held, EmitChunk, ChunkAnswered, ResendChunk, durable
<1>26. CASE UNCHANGED vars
  BY <1>26 DEF vars, durable, Paged, Held
<1> QED BY <1>1, <1>2, <1>3, <1>4, <1>5, <1>6, <1>7, <1>8, <1>9, <1>10, <1>11, <1>12, <1>13, <1>14, <1>15,
         <1>16, <1>17, <1>18, <1>19, <1>20, <1>21, <1>22, <1>23, <1>24, <1>25, <1>26 DEF Next, StartStep,
         StopStep, PageStep


LEMMA BornStep ==
  ASSUME Inv, TypeOK', RecordKept, [Next]_vars
  PROVE  Born'
<1>. USE RecorderAssumption, Ids, TypesApart DEF Inv, Creating, Known, Attempting, Closing, Active, Audio, Watched
<1>1. ASSUME NEW c \in Chunks, EmitChunk(c) PROVE Born'
  <2> SUFFICES ASSUME NEW x \in Chunks
               PROVE  chunk'[x].state = "unborn" <=> chunk'[x].m = None
    BY DEF Born
  <2> QED BY <1>1 DEF Born, EmitChunk, ChunksTyped, ChunkState, Paged, Held, durable
<1>2. ASSUME NEW c \in Chunks, ReceiveChunk(c) PROVE Born'
  BY <1>2, ReceiveMoves DEF Born, Holds, Move, ChunksTyped, ChunkState
<1>3. ASSUME NEW c \in Chunks, ChunkAnswered(c) PROVE Born'
  BY <1>3 DEF Born, ChunkAnswered, Move, ChunksTyped, ChunkState, durable
<1>4. ASSUME NEW c \in Chunks, ResendChunk(c) PROVE Born'
  BY <1>4 DEF Born, ResendChunk, Move, ChunksTyped, ChunkState, durable
<1>5. ASSUME NEW c \in Chunks, LoseChunk(c) PROVE Born'
  BY <1>5 DEF Born, LoseChunk, Move, ChunksTyped, ChunkState, durable
<1>6. ASSUME WriteChunk PROVE Born'
  BY <1>6, WriteMoves, ChainHead DEF Born, WriteChunk, Answer, ChunksTyped, ChunkState
<1>7. ASSUME WriteFails PROVE Born'
  BY <1>7, RefuseMoves, ChainHead, Updating DEF Born, WriteFails, StopAfterRefusal, Answer, ChunksTyped,
     ChunkState
<1>8. ASSUME PageCrashes PROVE Born'
  BY <1>8 DEF Born, PageCrashes, Gone, ChunksTyped, ChunkState, durable
<1>9. ASSUME KillWorker PROVE Born'
  BY <1>9, KillMoves, AsleepTyped DEF Born, Asleep, NotStarting, KillWorker, ChunksTyped, ChunkState
<1>10. ASSUME NEW s \in Starts, StartRequested(s) \/ CreateMeeting(s) \/ SaveMeeting(s) \/ Prepare(s) \/
         OpenPage(s) \/ CapturePage(s) \/ PersistCaptures(s) \/ UndoCapture(s) \/ AbortStart(s) \/
         EraseMeeting(s)
      PROVE  Born'
  BY <1>10 DEF Born, StartRequested, CreateMeeting, SaveMeeting, Prepare, OpenPage, CapturePage,
     PersistCaptures, UndoCapture, AbortStart, EraseMeeting, durable
<1>11. ASSUME NEW c \in Stops, StopRequested(c) \/ TabEnded(c) \/ StopRecording(c)
      PROVE  Born'
  BY <1>11 DEF Born, StopRequested, TabEnded, StopRecording, durable
<1>12. ASSUME NEW c \in Calls, Teardown(c) \/ FailRecording(c)
      PROVE  Born'
  BY <1>12 DEF Born, Teardown, FailRecording, durable
<1>13. ASSUME NEW m \in Meetings, NEW fails \in BOOLEAN, CaptureError(m, fails)
      PROVE  Born'
  BY <1>13 DEF Born, CaptureError, durable
<1>14. ASSUME PageStopped \/ SettleLostCaptures \/ WakeWorker
      PROVE  Born'
  BY <1>14 DEF Born, PageStopped, SettleLostCaptures, WakeWorker, durable
<1>15. CASE UNCHANGED vars
  BY <1>15 DEF vars, durable, Born
<1> QED BY <1>1, <1>2, <1>3, <1>4, <1>5, <1>6, <1>7, <1>8, <1>9, <1>10, <1>11, <1>12, <1>13, <1>14, <1>15
         DEF Next, StartStep, StopStep, PageStep


LEMMA AwaitedStep ==
  ASSUME Inv, TypeOK', RecordKept, [Next]_vars
  PROVE  Awaited'
<1>. USE RecorderAssumption, Ids, TypesApart DEF Inv, Creating, Known, Attempting, Closing, Active, Audio, Watched
<1>1. ASSUME NEW s \in Starts, OpenPage(s) PROVE Awaited'
  BY <1>1, OpenMoves DEF Awaited, Pending, OpenPage, At, Calls, Paged, Held
<1>2. ASSUME NEW s \in Starts, CapturePage(s) PROVE Awaited'
  <2>1. /\ At(s, "capture")
        /\ \/ page.state = "capturing" /\ page' = [page EXCEPT !.state = "stopping"] /\ chunk' = chunk
           \/ /\ page.state = "idle"
              /\ page' = [state |-> "capturing", m |-> task[s].m]
              /\ chunk' = chunk
           \/ page' = page /\ chunk' = chunk
    BY <1>2, CaptureMoves
  <2> SUFFICES ASSUME NEW x \in Chunks, Pending(x)'
               PROVE  chunk'[x].m = page'.m
    BY DEF Awaited
  <2>2. CASE /\ page.state = "capturing"
               /\ page' = [page EXCEPT !.state = "stopping"]
               /\ chunk' = chunk
    BY <1>2, <2>1, <2>2 DEF Awaited, Pending, At, Calls, Paged, Held, Born
  <2>3. CASE /\ page.state = "idle"
               /\ page' = [state |-> "capturing", m |-> task[s].m]
               /\ chunk' = chunk
    BY <1>2, <2>1, <2>3 DEF Awaited, Pending, At, Calls, Paged, Held, Born
  <2>4. CASE /\ page' = page
               /\ chunk' = chunk
    BY <1>2, <2>1, <2>4 DEF Awaited, Pending, At, Calls, Paged, Held, Born
  <2> QED BY <2>1, <2>2, <2>3, <2>4
<1>3. ASSUME NEW s \in Starts, UndoCapture(s) PROVE Awaited'
  <2>1. /\ At(s, "undo")
        /\ \/ StopPage /\ chunk' = chunk
           \/ PageQuiet /\ page' = Gone /\ chunk' = chunk
    BY <1>3, UndoMoves DEF Holds
  <2> SUFFICES ASSUME NEW x \in Chunks, Pending(x)'
               PROVE  chunk'[x].m = page'.m
    BY DEF Awaited
  <2>2. CASE /\ StopPage
               /\ chunk' = chunk
    BY <1>3, <2>1, <2>2 DEF Awaited, Pending, At, StopPage, PageQuiet, Gone, Calls, Paged, Held, Born
  <2>3. CASE /\ PageQuiet
               /\ page' = Gone
               /\ chunk' = chunk
    BY <1>3, <2>1, <2>3 DEF Awaited, Pending, At, StopPage, PageQuiet, Gone, Calls, Paged, Held, Born
  <2> QED BY <2>1, <2>2, <2>3
<1>4. ASSUME NEW c \in Calls, Teardown(c) PROVE Awaited'
  <2>1. /\ At(c, "teardown") /\ mem.starting.m # task[c].m
        /\ \/ StopPage /\ chunk' = chunk
           \/ c \in Starts /\ PageQuiet /\ page' = Gone /\ chunk' = chunk
           \/ c \notin Starts /\ PageQuiet /\ page' = Gone /\ chunk' = chunk
    BY <1>4, TeardownMoves DEF Holds, Teardown
  <2> SUFFICES ASSUME NEW x \in Chunks, Pending(x)'
               PROVE  chunk'[x].m = page'.m
    BY DEF Awaited
  <2>2. CASE /\ StopPage
               /\ chunk' = chunk
    BY <1>4, <2>1, <2>2 DEF Awaited, Pending, At, StopPage, PageQuiet, Gone, Paged, Held, Born
  <2>3. CASE /\ c \in Starts /\ PageQuiet
               /\ page' = Gone
               /\ chunk' = chunk
    BY <1>4, <2>1, <2>3 DEF Awaited, Pending, At, StopPage, PageQuiet, Gone, Paged, Held, Born
  <2>4. CASE /\ c \notin Starts /\ PageQuiet
               /\ page' = Gone
               /\ chunk' = chunk
    BY <1>4, <2>1, <2>4 DEF Awaited, Pending, At, StopPage, PageQuiet, Gone, Paged, Held, Born
  <2> QED BY <2>1, <2>2, <2>3, <2>4
<1>5. ASSUME NEW m \in Meetings, NEW fails \in BOOLEAN, CaptureError(m, fails) PROVE Awaited'
  <2>1. /\ mem.up /\ <<m, fails>> \in errors
        /\ \/ page' = page /\ chunk' = chunk
           \/ mem.starting.m # m /\ StopPage /\ chunk' = chunk
           \/ mem.starting.m # m /\ PageQuiet /\ page' = Gone /\ chunk' = chunk
    BY <1>5, ErrorMoves, Updating DEF Holds
  <2> SUFFICES ASSUME NEW x \in Chunks, Pending(x)'
               PROVE  chunk'[x].m = page'.m
    BY DEF Awaited
  <2>2. CASE /\ page' = page
               /\ chunk' = chunk
    BY <1>5, <2>1, <2>2 DEF Awaited, Pending, StopPage, PageQuiet, Gone, Paged, Held, Born
  <2>3. CASE /\ mem.starting.m # m
               /\ StopPage
               /\ chunk' = chunk
    BY <1>5, <2>1, <2>3 DEF Awaited, Pending, StopPage, PageQuiet, Gone, Paged, Held, Born
  <2>4. CASE /\ mem.starting.m # m /\ PageQuiet
               /\ page' = Gone
               /\ chunk' = chunk
    BY <1>5, <2>1, <2>4 DEF Awaited, Pending, StopPage, PageQuiet, Gone, Paged, Held, Born
  <2> QED BY <2>1, <2>2, <2>3, <2>4
<1>6. ASSUME NEW c \in Chunks, EmitChunk(c) PROVE Awaited'
  BY <1>6 DEF Awaited, Pending, EmitChunk, ChunksTyped, ChunkState, durable
<1>7. ASSUME NEW c \in Chunks, ReceiveChunk(c) PROVE Awaited'
  <2>1. /\ mem.up /\ chunk[c].state = "sent"
        /\ \/ chunk[c].m \in mem.captures /\ page' = page /\ Move(c, "queued")
           \/ mem.active = chunk[c].m /\ page' = page /\ Move(c, "queued")
           \/ chunk[c].m \notin mem.captures /\ page' = page /\ Move(c, "saved")
    BY <1>7, ReceiveMoves DEF Holds
  <2> SUFFICES ASSUME NEW x \in Chunks, Pending(x)'
               PROVE  chunk'[x].m = page'.m
    BY DEF Awaited
  <2>2. CASE /\ chunk[c].m \in mem.captures
               /\ page' = page
               /\ Move(c, "queued")
    BY <1>7, <2>1, <2>2 DEF Awaited, Pending, Move, ChunksTyped, ChunkState
  <2>3. CASE /\ mem.active = chunk[c].m
               /\ page' = page
               /\ Move(c, "queued")
    BY <1>7, <2>1, <2>3 DEF Awaited, Pending, Move, ChunksTyped, ChunkState
  <2>4. CASE /\ chunk[c].m \notin mem.captures
               /\ page' = page
               /\ Move(c, "saved")
    BY <1>7, <2>1, <2>4 DEF Awaited, Pending, Move, ChunksTyped, ChunkState
  <2> QED BY <2>1, <2>2, <2>3, <2>4
<1>8. ASSUME NEW c \in Chunks, ChunkAnswered(c) PROVE Awaited'
  BY <1>8 DEF Awaited, Pending, ChunkAnswered, Move, ChunksTyped, ChunkState, durable
<1>9. ASSUME NEW c \in Chunks, ResendChunk(c) PROVE Awaited'
  BY <1>9 DEF Awaited, Pending, ResendChunk, Move, ChunksTyped, ChunkState, durable
<1>10. ASSUME NEW c \in Chunks, LoseChunk(c) PROVE Awaited'
  BY <1>10 DEF Awaited, Pending, LoseChunk, Move, ChunksTyped, ChunkState, durable
<1>11. ASSUME WriteChunk PROVE Awaited'
  BY <1>11, WriteMoves, ChainHead DEF Awaited, Pending, WriteChunk, Answer, ChunksTyped, ChunkState
<1>12. ASSUME WriteFails PROVE Awaited'
  BY <1>12, RefuseMoves, ChainHead, Updating DEF Awaited, Pending, WriteFails, StopAfterRefusal, Answer,
     ChunksTyped, ChunkState
<1>13. ASSUME PageStopped PROVE Awaited'
  BY <1>13 DEF Awaited, Pending, PageStopped, durable
<1>14. ASSUME PageCrashes PROVE Awaited'
  BY <1>14 DEF Awaited, Pending, PageCrashes, Gone, ChunksTyped, ChunkState, durable
<1>15. ASSUME KillWorker PROVE Awaited'
  BY <1>15, KillMoves, AsleepTyped DEF Awaited, Pending, Asleep, NotStarting, KillWorker, ChunksTyped,
     ChunkState
<1>16. ASSUME NEW s \in Starts, StartRequested(s) \/ CreateMeeting(s) \/ SaveMeeting(s) \/ Prepare(s) \/
         PersistCaptures(s) \/ AbortStart(s) \/ EraseMeeting(s)
      PROVE  Awaited'
  BY <1>16 DEF Awaited, Pending, StartRequested, CreateMeeting, SaveMeeting, Prepare, PersistCaptures,
     AbortStart, EraseMeeting, durable
<1>17. ASSUME NEW c \in Stops, StopRequested(c) \/ TabEnded(c) \/ StopRecording(c)
      PROVE  Awaited'
  BY <1>17 DEF Awaited, Pending, StopRequested, TabEnded, StopRecording, durable
<1>18. ASSUME NEW c \in Calls, FailRecording(c)
      PROVE  Awaited'
  BY <1>18 DEF Awaited, Pending, FailRecording, durable
<1>19. ASSUME SettleLostCaptures \/ WakeWorker
      PROVE  Awaited'
  BY <1>19 DEF Awaited, Pending, SettleLostCaptures, WakeWorker, durable
<1>20. CASE UNCHANGED vars
  BY <1>20 DEF vars, durable, Awaited, Pending
<1> QED BY <1>1, <1>2, <1>3, <1>4, <1>5, <1>6, <1>7, <1>8, <1>9, <1>10, <1>11, <1>12, <1>13, <1>14, <1>15,
         <1>16, <1>17, <1>18, <1>19, <1>20 DEF Next, StartStep, StopStep, PageStep


LEMMA ChainedStep ==
  ASSUME Inv, TypeOK', RecordKept, [Next]_vars
  PROVE  Chained'
<1>. USE RecorderAssumption, Ids, TypesApart DEF Inv, Creating, Known, Attempting, Closing, Active, Audio, Watched
<1>1. ASSUME NEW c \in Chunks, EmitChunk(c) PROVE Chained'
  <2>1. c \in Unborn /\ chain' = chain /\ \A d \in Chunks : d # c => chunk'[d] = chunk[d]
    BY <1>1 DEF EmitChunk, NextChunk, ChunksTyped
  <2>2. \A i \in DOMAIN chain : chain[i] \in Chunks
    BY DEF ChunksTyped
  <2>3. \A i \in DOMAIN chain : chain[i] # c
    BY <2>1 DEF Chained, Unborn
  <2> QED BY <2>1, <2>2, <2>3 DEF Chained
<1>2. ASSUME NEW c \in Chunks, ReceiveChunk(c) PROVE Chained'
  <2>1. /\ mem.up /\ chunk[c].state = "sent"
        /\ \/ chunk[c].m \in mem.captures /\ Move(c, "queued") /\ chain' = Append(chain, c)
           \/ mem.active = chunk[c].m /\ Move(c, "queued") /\ chain' = Append(chain, c)
           \/ chunk[c].m \notin mem.captures /\ Move(c, "saved") /\ chain' = chain
    BY <1>2, ReceiveMoves DEF Holds
  <2>2. chain \in Seq(Chunks) /\ chunk \in [Chunks -> ChunkState]
    BY DEF ChunksTyped
  <2>3. \A i \in DOMAIN chain : chain[i] \in Chunks /\ chain[i] # c
    BY <2>1, <2>2 DEF Chained
  <2>4. \A d \in Chunks : d # c => chunk'[d].state = chunk[d].state
    BY <2>1, <2>2 DEF Move
  <2>5. CASE chain' = chain
    BY <2>3, <2>4, <2>5 DEF Chained
  <2>6. CASE chain' = Append(chain, c) /\ Move(c, "queued")
    <3>1. chunk'[c].state = "queued"
      BY <2>2, <2>6 DEF Move, ChunkState
    <3>2. \A i \in DOMAIN chain' : (i \in DOMAIN chain /\ chain'[i] = chain[i]) \/ (i = Len(chain) + 1 /\ chain'[i] = c)
      <4>1. \A i \in DOMAIN Append(chain, c) :
              (i \in DOMAIN chain /\ Append(chain, c)[i] = chain[i]) \/ (i = Len(chain) + 1 /\ Append(chain, c)[i] = c)
        BY <2>2, Extending
      <4> QED BY <2>6, <4>1
    <3> QED BY <2>3, <2>4, <3>1, <3>2 DEF Chained
  <2> QED BY <2>1, <2>5, <2>6
<1>3. ASSUME NEW c \in Chunks, ChunkAnswered(c) PROVE Chained'
  BY <1>3 DEF Chained, ChunkAnswered, Move, ChunksTyped, ChunkState, durable
<1>4. ASSUME NEW c \in Chunks, ResendChunk(c) PROVE Chained'
  BY <1>4 DEF Chained, ResendChunk, Move, ChunksTyped, ChunkState, durable
<1>5. ASSUME NEW c \in Chunks, LoseChunk(c) PROVE Chained'
  BY <1>5 DEF Chained, LoseChunk, Move, ChunksTyped, ChunkState, durable
<1>6. ASSUME WriteChunk PROVE Chained'
  <2>1. /\ mem.up /\ chain # <<>> /\ Head(chain) \in Chunks /\ chunk[Head(chain)].m \in Meetings
        /\ chunk[Head(chain)].state \in {"queued", "lost"}
        /\ Answer(Head(chain), "saved")
        /\ chain' = Tail(chain)
    BY <1>6, WriteMoves, ChainHead DEF WriteChunk
  <2>2. chain \in Seq(Chunks) /\ chunk \in [Chunks -> ChunkState]
    BY DEF ChunksTyped
  <2>3. \A i \in DOMAIN chain' : /\ i + 1 \in DOMAIN chain /\ chain'[i] = chain[i + 1]
                                 /\ chain'[i] \in Chunks /\ chain'[i] # Head(chain)
    BY <2>1, <2>2, ChainHead
  <2>4. \A i \in DOMAIN chain' : chunk'[chain'[i]].state \in {"queued", "lost"}
    BY <2>1, <2>2, <2>3 DEF Chained, Answer
  <2>5. \A i, j \in DOMAIN chain' : chain'[i] = chain'[j] => i = j
    <3>1. DOMAIN chain' \subseteq Nat
      BY <2>1, <2>2
    <3>2. \A i, j \in DOMAIN chain' : i + 1 = j + 1 => i = j
      BY <3>1
    <3> QED BY <2>3, <3>2 DEF Chained
  <2> QED BY <2>4, <2>5 DEF Chained
<1>7. ASSUME WriteFails PROVE Chained'
  <2>1. /\ mem.up /\ chain # <<>> /\ Head(chain) \in Chunks /\ chunk[Head(chain)].m \in Meetings
        /\ chunk[Head(chain)].state \in {"queued", "lost"}
        /\ Answer(Head(chain), "refused")
        /\ chain' = Tail(chain)
    BY <1>7, RefuseMoves, ChainHead, Updating DEF WriteFails, StopAfterRefusal
  <2>2. chain \in Seq(Chunks) /\ chunk \in [Chunks -> ChunkState]
    BY DEF ChunksTyped
  <2>3. \A i \in DOMAIN chain' : /\ i + 1 \in DOMAIN chain /\ chain'[i] = chain[i + 1]
                                 /\ chain'[i] \in Chunks /\ chain'[i] # Head(chain)
    BY <2>1, <2>2, ChainHead
  <2>4. \A i \in DOMAIN chain' : chunk'[chain'[i]].state \in {"queued", "lost"}
    BY <2>1, <2>2, <2>3 DEF Chained, Answer
  <2>5. \A i, j \in DOMAIN chain' : chain'[i] = chain'[j] => i = j
    <3>1. DOMAIN chain' \subseteq Nat
      BY <2>1, <2>2
    <3>2. \A i, j \in DOMAIN chain' : i + 1 = j + 1 => i = j
      BY <3>1
    <3> QED BY <2>3, <3>2 DEF Chained
  <2> QED BY <2>4, <2>5 DEF Chained
<1>8. ASSUME PageCrashes PROVE Chained'
  BY <1>8 DEF Chained, PageCrashes, Gone, ChunksTyped, ChunkState, durable
<1>9. ASSUME KillWorker PROVE Chained'
  BY <1>9, KillMoves, AsleepTyped DEF Chained, Asleep, NotStarting, KillWorker
<1>10. ASSUME NEW s \in Starts, StartRequested(s) \/ CreateMeeting(s) \/ SaveMeeting(s) \/ Prepare(s) \/
         OpenPage(s) \/ CapturePage(s) \/ PersistCaptures(s) \/ UndoCapture(s) \/ AbortStart(s) \/
         EraseMeeting(s)
      PROVE  Chained'
  BY <1>10 DEF Chained, StartRequested, CreateMeeting, SaveMeeting, Prepare, OpenPage, CapturePage,
     PersistCaptures, UndoCapture, AbortStart, EraseMeeting, durable
<1>11. ASSUME NEW c \in Stops, StopRequested(c) \/ TabEnded(c) \/ StopRecording(c)
      PROVE  Chained'
  BY <1>11 DEF Chained, StopRequested, TabEnded, StopRecording, durable
<1>12. ASSUME NEW c \in Calls, Teardown(c) \/ FailRecording(c)
      PROVE  Chained'
  BY <1>12 DEF Chained, Teardown, FailRecording, durable
<1>13. ASSUME NEW m \in Meetings, NEW fails \in BOOLEAN, CaptureError(m, fails)
      PROVE  Chained'
  BY <1>13 DEF Chained, CaptureError, durable
<1>14. ASSUME PageStopped \/ SettleLostCaptures \/ WakeWorker
      PROVE  Chained'
  BY <1>14 DEF Chained, PageStopped, SettleLostCaptures, WakeWorker, durable
<1>15. CASE UNCHANGED vars
  BY <1>15 DEF vars, durable, Chained
<1> QED BY <1>1, <1>2, <1>3, <1>4, <1>5, <1>6, <1>7, <1>8, <1>9, <1>10, <1>11, <1>12, <1>13, <1>14, <1>15
         DEF Next, StartStep, StopStep, PageStep


LEMMA AnsweredStep ==
  ASSUME Inv, TypeOK', RecordKept, [Next]_vars
  PROVE  Answered'
<1>. USE RecorderAssumption, Ids, TypesApart DEF Inv, Creating, Known, Attempting, Closing, Active, Audio, Watched
<1>1. ASSUME NEW s \in Starts, CreateMeeting(s) PROVE Answered'
  BY <1>1, CreateMoves DEF Answered, Stored, Shares, Follows, Joins, Creates, Holds, At, Unused, Calls
<1>2. ASSUME NEW s \in Starts, EraseMeeting(s) PROVE Answered'
  <2>1. /\ At(s, "erase")
        /\ stray' = stray
        /\ store' = [store EXCEPT ![task[s].m] = {}]
        /\ chunk' = chunk
    BY <1>2, EraseMoves
  <2> SUFFICES ASSUME NEW x \in Chunks, chunk'[x].state \in {"saved", "acked"}, chunk'[x].m \notin stray'
               PROVE  \E e \in store'[chunk'[x].m] : e[1] = x
    BY DEF Answered, Stored
  <2> QED BY <1>2, <2>1 DEF Answered, Stored, At, Calls, Erased, StoreTyped, Sleep
<1>3. ASSUME NEW c \in Chunks, EmitChunk(c) PROVE Answered'
  BY <1>3 DEF Answered, Stored, EmitChunk, ChunksTyped, ChunkState, durable
<1>4. ASSUME NEW c \in Chunks, ReceiveChunk(c) PROVE Answered'
  BY <1>4, ReceiveMoves DEF Answered, Stored, Holds, Move, ChunksTyped, ChunkState, Awaited, Pending, Paged,
     Held, Born
<1>5. ASSUME NEW c \in Chunks, ChunkAnswered(c) PROVE Answered'
  BY <1>5 DEF Answered, Stored, ChunkAnswered, Move, ChunksTyped, ChunkState, durable
<1>6. ASSUME NEW c \in Chunks, ResendChunk(c) PROVE Answered'
  BY <1>6 DEF Answered, Stored, ResendChunk, Move, ChunksTyped, ChunkState, durable
<1>7. ASSUME NEW c \in Chunks, LoseChunk(c) PROVE Answered'
  BY <1>7 DEF Answered, Stored, LoseChunk, Move, ChunksTyped, ChunkState, durable
<1>8. ASSUME WriteChunk PROVE Answered'
  <2>1. /\ mem.up /\ chain # <<>> /\ Head(chain) \in Chunks /\ chunk[Head(chain)].m \in Meetings
        /\ chunk[Head(chain)].state \in {"queued", "lost"}
        /\ stray' = stray
        /\ store' = [store EXCEPT ![chunk[Head(chain)].m] = KeepFirst(Head(chain), NextSequence(chunk[Head(chain)].m))]
        /\ Answer(Head(chain), "saved")
    BY <1>8, WriteMoves, ChainHead DEF WriteChunk
  <2> SUFFICES ASSUME NEW x \in Chunks, chunk'[x].state \in {"saved", "acked"}, chunk'[x].m \notin stray'
               PROVE  \E e \in store'[chunk'[x].m] : e[1] = x
    BY DEF Answered, Stored
  <2> DEFINE h == Head(chain)
             kept == KeepFirst(h, NextSequence(chunk[h].m))
  <2>2. chunk'[x].m = chunk[x].m /\ (chunk[x].state \in {"saved", "acked"} \/ x = h)
    BY <2>1 DEF Answer, ChunksTyped, ChunkState
  <2>3. chunk[x].m \in Meetings /\ store'[chunk[x].m] = IF chunk[x].m = chunk[h].m THEN kept ELSE store[chunk[x].m]
    BY <2>1, <2>2 DEF StoreTyped, Born
  <2>4. store[chunk[h].m] \subseteq kept /\ \E e \in kept : e[1] = h
    <3>1. CASE h \in Stored(chunk[h].m)
      BY <3>1 DEF KeepFirst, Stored
    <3>2. CASE h \notin Stored(chunk[h].m)
      <4>1. \A n : <<h, n>>[1] = h
        OBVIOUS
      <4>2. kept = store[chunk[h].m] \cup {<<h, NextSequence(chunk[h].m)>>}
        BY <3>2 DEF KeepFirst
      <4> QED BY <4>1, <4>2
    <3> QED BY <3>1, <3>2
  <2>5. CASE x = h
    BY <2>2, <2>3, <2>4, <2>5
  <2>6. CASE x # h
    <3>1. \E e \in store[chunk[x].m] : e[1] = x
      BY <2>1, <2>2, <2>6 DEF Answered, Stored
    <3> QED BY <2>2, <2>3, <2>4, <3>1
  <2> QED BY <2>5, <2>6
<1>9. ASSUME WriteFails PROVE Answered'
  BY <1>9, RefuseMoves, ChainHead, Updating DEF Answered, Stored, WriteFails, StopAfterRefusal, Answer,
     ChunksTyped, ChunkState
<1>10. ASSUME PageCrashes PROVE Answered'
  BY <1>10 DEF Answered, Stored, PageCrashes, Gone, ChunksTyped, ChunkState, durable
<1>11. ASSUME KillWorker PROVE Answered'
  BY <1>11, KillMoves, AsleepTyped DEF Answered, Stored, Asleep, NotStarting, KillWorker, ChunksTyped,
     ChunkState
<1>12. ASSUME NEW s \in Starts, StartRequested(s) \/ SaveMeeting(s) \/ Prepare(s) \/ OpenPage(s) \/
         CapturePage(s) \/ PersistCaptures(s) \/ UndoCapture(s) \/ AbortStart(s)
      PROVE  Answered'
  BY <1>12 DEF Answered, Stored, StartRequested, SaveMeeting, Prepare, OpenPage, CapturePage,
     PersistCaptures, UndoCapture, AbortStart, durable
<1>13. ASSUME NEW c \in Stops, StopRequested(c) \/ TabEnded(c) \/ StopRecording(c)
      PROVE  Answered'
  BY <1>13 DEF Answered, Stored, StopRequested, TabEnded, StopRecording, durable
<1>14. ASSUME NEW c \in Calls, Teardown(c) \/ FailRecording(c)
      PROVE  Answered'
  BY <1>14 DEF Answered, Stored, Teardown, FailRecording, durable
<1>15. ASSUME NEW m \in Meetings, NEW fails \in BOOLEAN, CaptureError(m, fails)
      PROVE  Answered'
  BY <1>15 DEF Answered, Stored, CaptureError, durable
<1>16. ASSUME PageStopped \/ SettleLostCaptures \/ WakeWorker
      PROVE  Answered'
  BY <1>16 DEF Answered, Stored, PageStopped, SettleLostCaptures, WakeWorker, durable
<1>17. CASE UNCHANGED vars
  BY <1>17 DEF vars, durable, Answered, Stored
<1> QED BY <1>1, <1>2, <1>3, <1>4, <1>5, <1>6, <1>7, <1>8, <1>9, <1>10, <1>11, <1>12, <1>13, <1>14, <1>15,
         <1>16, <1>17 DEF Next, StartStep, StopStep, PageStep


\* Only a start that creates a meeting, the deletion of one, a write and a new
\* worker change the numbers.
LEMMA NumberedStep ==
  ASSUME Inv, TypeOK', [Next]_vars
  PROVE  Numbered'
<1>. USE RecorderAssumption, Ids, TypesApart DEF Inv, Creating, Known, Audio, MemoryTyped, MemoryState, StoreTyped
<1>0. ASSUME store' = store, mem'.seq = mem.seq PROVE Numbered'
  BY <1>0 DEF Numbered
<1>1. ASSUME NEW s \in Starts, CreateMeeting(s) PROVE Numbered'
  BY <1>0, <1>1, CreateMoves DEF Shares, Follows, Joins, Creates, Holds
<1>2. ASSUME NEW s \in Starts, SaveMeeting(s) PROVE Numbered'
  <2>1. At(s, "save") /\ store' = store /\ task[s].m \in Meetings /\ mem'.seq = [mem.seq EXCEPT ![task[s].m] = 0]
    BY <1>2, SaveMoves
  <2>2. store[task[s].m] = {}
    BY <2>1 DEF At, Calls, Unmade, KnownStore
  <2> QED BY <2>1, <2>2 DEF Numbered
<1>3. ASSUME NEW s \in Starts, Prepare(s) PROVE Numbered'
  BY <1>0, <1>3, PrepareMoves DEF Holds
<1>4. ASSUME NEW s \in Starts, OpenPage(s) PROVE Numbered'
  BY <1>0, <1>4, OpenMoves
<1>5. ASSUME NEW s \in Starts, CapturePage(s) PROVE Numbered'
  BY <1>0, <1>5, CaptureMoves
<1>6. ASSUME NEW s \in Starts, PersistCaptures(s) PROVE Numbered'
  BY <1>0, <1>6, PersistMoves DEF Holds
<1>7. ASSUME NEW s \in Starts, UndoCapture(s) PROVE Numbered'
  BY <1>0, <1>7, UndoMoves DEF Holds
<1>8. ASSUME NEW s \in Starts, EraseMeeting(s) PROVE Numbered'
  <2>1. /\ store' = [store EXCEPT ![task[s].m] = {}] /\ task[s].m \in Meetings
        /\ mem'.seq = [mem.seq EXCEPT ![task[s].m] = -1]
    BY <1>8, EraseMoves
  <2>2. \A m \in Meetings : m # task[s].m => store'[m] = store[m] /\ mem'.seq[m] = mem.seq[m]
    BY <2>1
  <2>3. store'[task[s].m] = {} /\ mem'.seq[task[s].m] = -1
    BY <2>1
  <2> QED BY <2>2, <2>3 DEF Numbered
<1>9. ASSUME NEW c \in Stops, StopRequested(c) PROVE Numbered'
  BY <1>0, <1>9, StopMoves DEF Holds
<1>10. ASSUME NEW c \in Stops, TabEnded(c) PROVE Numbered'
  BY <1>0, <1>10, TabMoves DEF Holds
<1>11. ASSUME NEW c \in Stops, StopRecording(c) PROVE Numbered'
  BY <1>0, <1>11, FinalMoves DEF Holds
<1>12. ASSUME NEW c \in Calls, Teardown(c) PROVE Numbered'
  BY <1>0, <1>12, TeardownMoves DEF Holds
<1>13. ASSUME NEW c \in Calls, FailRecording(c) PROVE Numbered'
  BY <1>0, <1>13, FailMoves DEF Holds
<1>14. ASSUME NEW m \in Meetings, NEW fails \in BOOLEAN, CaptureError(m, fails) PROVE Numbered'
  <2>1. store' = store /\ mem'.seq = mem.seq
    BY <1>14 DEF CaptureError
  <2> QED BY <1>0, <2>1
<1>15. ASSUME NEW c \in Chunks, ReceiveChunk(c) PROVE Numbered'
  BY <1>0, <1>15, ReceiveMoves DEF Holds
<1>16. ASSUME WriteChunk PROVE Numbered'
  <2>1. PICK h \in Chunks, m \in Meetings, n \in Nat : h = Head(chain) /\ m = chunk[h].m /\ n = NextSequence(m)
    BY <1>16, ChainHead, NextNumber DEF WriteChunk
  <2>2. mem'.seq = [mem.seq EXCEPT ![m] = n + 1] /\ store' = [store EXCEPT ![m] = KeepFirst(h, n)]
    BY <1>16, <2>1, WriteMoves DEF WriteChunk
  <2>3. \A e \in store[m] : e[2] < n /\ e[2] \in Nat
    BY <2>1, NextNumber
  <2>4. PICK kept \in SUBSET (Chunks \X Nat) : kept = KeepFirst(h, n)
    <3>1. store[m] \in SUBSET (Chunks \X Nat) /\ store[m] \cup {<<h, n>>} \in SUBSET (Chunks \X Nat)
      BY <2>1
    <3>2. KeepFirst(h, n) \in {store[m], store[m] \cup {<<h, n>>}}
      BY <2>1 DEF KeepFirst
    <3> QED BY <3>1, <3>2
  <2>5. /\ \A d, e \in kept : (d[1] = e[1]) <=> (d[2] = e[2])
        /\ kept = {} \/ \E d \in kept : \A e \in kept : e[2] <= d[2]
        /\ \A e \in kept : e[2] < n + 1
    <3>1. CASE h \in Stored(m)
      <4>1. kept = store[m]
        BY <2>1, <2>4, <3>1 DEF KeepFirst
      <4>2. \A e \in kept : e[2] < n + 1
        BY <2>1, <2>3, <4>1
      <4> QED BY <4>1, <4>2 DEF Numbered
    <3>2. CASE h \notin Stored(m)
      <4>1. kept = store[m] \cup {<<h, n>>}
        BY <2>1, <2>4, <3>2 DEF KeepFirst
      <4>2. \A e \in kept : e \in store[m] \/ (e[1] = h /\ e[2] = n)
        BY <4>1
      <4>3. \A e \in store[m] : e[1] # h
        BY <3>2 DEF Stored
      <4>4. \A d, e \in store[m] : (d[1] = e[1]) <=> (d[2] = e[2])
        BY DEF Numbered
      <4>5. \A d, e \in kept : (d[1] = e[1]) <=> (d[2] = e[2])
        BY <2>1, <2>3, <4>2, <4>3, <4>4
      <4>6. \A e \in kept : e[2] <= n /\ e[2] < n + 1
        BY <2>1, <2>3, <4>2
      <4>7. \E d \in kept : d[2] = n
        <5>1. <<h, n>>[2] = n /\ <<h, n>> \in kept
          BY <4>1
        <5> QED BY <5>1
      <4> QED BY <4>5, <4>6, <4>7
    <3> QED BY <3>1, <3>2
  <2>6. store'[m] = kept /\ mem'.seq[m] = n + 1
    BY <2>2, <2>4
  <2>7. \A x \in Meetings : x # m => store'[x] = store[x] /\ mem'.seq[x] = mem.seq[x]
    BY <2>2
  <2> QED BY <2>5, <2>6, <2>7 DEF Numbered
<1>17. ASSUME WriteFails PROVE Numbered'
  <2>1. PICK m \in Meetings, n \in Nat : m = chunk[Head(chain)].m /\ n = NextSequence(m)
    BY <1>17, ChainHead, NextNumber DEF WriteFails
  <2>2. mem'.seq = [mem.seq EXCEPT ![m] = n + 1] /\ store' = store
    BY <1>17, <2>1, RefuseMoves
  <2>3. \A e \in store[m] : e[2] < n + 1
    <3>1. \A e \in store[m] : e[2] < n /\ e[2] \in Nat
      BY <2>1, NextNumber
    <3> QED BY <2>1, <3>1
  <2>4. mem'.seq[m] = n + 1 /\ \A x \in Meetings : x # m => mem'.seq[x] = mem.seq[x]
    BY <2>2
  <2> QED BY <2>2, <2>3, <2>4 DEF Numbered
<1>18. ASSUME SettleLostCaptures PROVE Numbered'
  BY <1>0, <1>18, SettleMoves DEF Holds
<1>19. ASSUME KillWorker PROVE Numbered'
  <2>1. store' = store /\ \A m \in Meetings : mem'.seq[m] = -1
    BY <1>19, KillMoves, AsleepTyped
  <2> QED BY <2>1 DEF Numbered
<1>20. ASSUME WakeWorker PROVE Numbered'
  <2>1. store' = store /\ \A m \in Meetings : mem'.seq[m] \in {-1, LastSequence(m) + 1}
    BY <1>20, WakeMoves
  <2>2. \A m \in Meetings : \A e \in store[m] : e[2] < LastSequence(m) + 1
    BY LastNumber
  <2> QED BY <2>1, <2>2 DEF Numbered
<1>21. ASSUME NEW s \in Starts, StartRequested(s) \/ AbortStart(s) PROVE Numbered'
  BY <1>0, <1>21 DEF StartRequested, AbortStart, durable
<1>22. ASSUME NEW c \in Chunks, EmitChunk(c) \/ ChunkAnswered(c) \/ ResendChunk(c) \/ LoseChunk(c)
       PROVE  Numbered'
  BY <1>0, <1>22 DEF EmitChunk, ChunkAnswered, ResendChunk, LoseChunk, durable
<1>23. CASE PageStopped \/ PageCrashes \/ UNCHANGED vars
  BY <1>0, <1>23 DEF PageStopped, PageCrashes, vars, durable
<1> QED BY <1>1, <1>2, <1>3, <1>4, <1>5, <1>6, <1>7, <1>8, <1>9, <1>10, <1>11, <1>12, <1>13, <1>14,
           <1>15, <1>16, <1>17, <1>18, <1>19, <1>20, <1>21, <1>22, <1>23
        DEF Next, StartStep, StopStep, PageStep

LEMMA EndedStartsStep ==
  ASSUME Inv, TypeOK', RecordKept, [Next]_vars
  PROVE  EndedStarts'
<1>. USE RecorderAssumption, Ids, TypesApart DEF Inv, Creating, Known, Attempting, Closing, Active, Audio, Watched
<1>1. ASSUME NEW s \in Starts, StartRequested(s) PROVE EndedStarts'
  BY <1>1, StartRequestedMoves DEF EndedStarts, Calls, Sleep, At, Told
<1>2. ASSUME NEW s \in Starts, CreateMeeting(s) PROVE EndedStarts'
  BY <1>2, CreateMoves DEF EndedStarts, Calls, Shares, Follows, Joins, Creates, Holds, Told, At, Unused
<1>3. ASSUME NEW s \in Starts, SaveMeeting(s) PROVE EndedStarts'
  <2>1. /\ At(s, "save") /\ task[s].m \in Meetings
        /\ (\A x \in Calls : task'[x].m = task[x].m)
        /\ (\A x \in Calls : task'[x].pc =
              IF x = s THEN IF mem.starting.m = None THEN "prepare" ELSE "abort"
              ELSE IF task[x].pc = "join" THEN IF mem.starting.m = None THEN "await" ELSE "abort"
              ELSE task[x].pc)
        /\ rec' = [rec EXCEPT ![task[s].m] = "recording"]
    BY <1>3, SaveMoves
  <2> SUFFICES ASSUME NEW x \in Starts, task'[x].pc = "teardown"
               PROVE  rec'[task'[x].m] # "recording"
    BY DEF EndedStarts
  <2> QED BY <1>3, <2>1 DEF EndedStarts, Calls, At, RecordsTyped, Sleep, Unmade, Made, Started, OneMaker
<1>4. ASSUME NEW s \in Starts, Prepare(s) PROVE EndedStarts'
  BY <1>4, PrepareMoves DEF EndedStarts, Calls, Holds, Told, Waiting, At
<1>5. ASSUME NEW s \in Starts, OpenPage(s) PROVE EndedStarts'
  BY <1>5, OpenMoves DEF EndedStarts, Calls, OpenPage, Told, At
<1>6. ASSUME NEW s \in Starts, CapturePage(s) PROVE EndedStarts'
  BY <1>6, CaptureMoves DEF EndedStarts, Calls, Told, At
<1>7. ASSUME NEW s \in Starts, PersistCaptures(s) PROVE EndedStarts'
  BY <1>7, PersistMoves DEF EndedStarts, Calls, Holds, Told, Waiting, At, Current, Sleep, Starters, Attempt
<1>8. ASSUME NEW s \in Starts, UndoCapture(s) PROVE EndedStarts'
  BY <1>8, UndoMoves DEF EndedStarts, Calls, Holds, Told, Waiting, At, PageQuiet
<1>9. ASSUME NEW s \in Starts, AbortStart(s) PROVE EndedStarts'
  BY <1>9, AbortMoves DEF EndedStarts, Calls, Told, At
<1>10. ASSUME NEW s \in Starts, EraseMeeting(s) PROVE EndedStarts'
  <2>1. At(s, "erase") /\ Told({s}, "done", None) /\ rec' = [rec EXCEPT ![task[s].m] = "deleted"]
    BY <1>10, EraseMoves
  <2> QED BY <1>10, <2>1 DEF EndedStarts, Calls, Told, At, RecordsTyped, Sleep
<1>11. ASSUME NEW c \in Stops, StopRequested(c) PROVE EndedStarts'
  BY <1>11, StopMoves DEF EndedStarts, Calls, Holds, Told, At, IsActive
<1>12. ASSUME NEW c \in Stops, TabEnded(c) PROVE EndedStarts'
  BY <1>12, TabMoves DEF EndedStarts, Calls, Holds, Told, At
<1>13. ASSUME NEW c \in Stops, StopRecording(c) PROVE EndedStarts'
  BY <1>13, FinalMoves, Updating DEF EndedStarts, Calls, Holds, Told, At, Update, RecordsTyped, Sleep
<1>14. ASSUME NEW c \in Calls, Teardown(c) PROVE EndedStarts'
  <2>1. /\ At(c, "teardown") /\ mem.starting.m # task[c].m
        /\ \/ UNCHANGED task /\ rec' = rec
           \/ c \in Starts /\ PageQuiet /\ Told({c}, "done", None) /\ rec' = rec
           \/ c \notin Starts /\ PageQuiet /\ Told({c}, "final", task[c].m) /\ rec' = rec
    BY <1>14, TeardownMoves DEF Holds, Teardown
  <2> SUFFICES ASSUME NEW x \in Starts, task'[x].pc = "teardown"
               PROVE  rec'[task'[x].m] # "recording"
    BY DEF EndedStarts
  <2>2. CASE /\ UNCHANGED task
               /\ rec' = rec
    BY <1>14, <2>1, <2>2 DEF EndedStarts, Calls, Told, At, PageQuiet
  <2>3. CASE /\ c \in Starts /\ PageQuiet
               /\ Told({c}, "done", None)
               /\ rec' = rec
    BY <1>14, <2>1, <2>3 DEF EndedStarts, Calls, Told, At, PageQuiet
  <2>4. CASE /\ c \notin Starts /\ PageQuiet
               /\ Told({c}, "final", task[c].m)
               /\ rec' = rec
    BY <1>14, <2>1, <2>4 DEF EndedStarts, Calls, Told, At, PageQuiet
  <2> QED BY <2>1, <2>2, <2>3, <2>4
<1>15. ASSUME NEW c \in Calls, FailRecording(c) PROVE EndedStarts'
  BY <1>15, FailMoves, Updating DEF EndedStarts, Calls, Holds, Told, At, Update, RecordsTyped, Sleep
<1>16. ASSUME NEW m \in Meetings, NEW fails \in BOOLEAN, CaptureError(m, fails) PROVE EndedStarts'
  <2>1. /\ mem.up /\ <<m, fails>> \in errors
        /\ \/ UNCHANGED task /\ rec' = rec
           \/ mem.starting.m # m /\ UNCHANGED task /\ rec' = rec
           \/ /\ mem.starting.m # m /\ PageQuiet
              /\ UNCHANGED task
              /\ (IF fails THEN Update(m, "error") ELSE rec' = rec)
    BY <1>16, ErrorMoves, Updating DEF Holds
  <2> SUFFICES ASSUME NEW x \in Starts, task'[x].pc = "teardown"
               PROVE  rec'[task'[x].m] # "recording"
    BY DEF EndedStarts
  <2>2. CASE /\ UNCHANGED task
               /\ rec' = rec
    BY <1>16, <2>1, <2>2 DEF EndedStarts, Calls, PageQuiet, Update, RecordsTyped, Sleep
  <2>3. CASE /\ mem.starting.m # m
               /\ UNCHANGED task
               /\ rec' = rec
    BY <1>16, <2>1, <2>3 DEF EndedStarts, Calls, PageQuiet, Update, RecordsTyped, Sleep
  <2>4. CASE /\ mem.starting.m # m /\ PageQuiet
               /\ UNCHANGED task
               /\ (IF fails THEN Update(m, "error") ELSE rec' = rec)
    BY <1>16, <2>1, <2>4 DEF EndedStarts, Calls, PageQuiet, Update, RecordsTyped, Sleep
  <2> QED BY <2>1, <2>2, <2>3, <2>4
<1>17. ASSUME WriteFails PROVE EndedStarts'
  BY <1>17, RefuseMoves, ChainHead, Updating DEF EndedStarts, Calls, WriteFails, StopAfterRefusal, Update,
     RecordsTyped
<1>18. ASSUME SettleLostCaptures PROVE EndedStarts'
  BY <1>18, SettleMoves DEF EndedStarts, Calls, Holds, SettleLostCaptures, LostCaptures, Sleep
<1>19. ASSUME KillWorker PROVE EndedStarts'
  BY <1>19, KillMoves, AsleepTyped DEF EndedStarts, Calls, Asleep, NotStarting, KillWorker
<1>20. ASSUME WakeWorker PROVE EndedStarts'
  <2>1. /\ ~mem.up
        /\ \/ /\ Latest # None /\ rec[Latest] = "recording" /\ Latest \in Restored
              /\ UNCHANGED task
              /\ rec' = rec
           \/ /\ ~(Latest # None /\ rec[Latest] = "recording" /\ Latest \in Restored)
              /\ UNCHANGED task
              /\ (rec' = IF Latest # None THEN [rec EXCEPT ![Latest] = IF @ = "recording" THEN "saved" ELSE @] ELSE rec)
    BY <1>20, WakeMoves DEF OrphanSaved
  <2> SUFFICES ASSUME NEW x \in Starts, task'[x].pc = "teardown"
               PROVE  rec'[task'[x].m] # "recording"
    BY DEF EndedStarts
  <2>2. CASE /\ Latest # None /\ rec[Latest] = "recording" /\ Latest \in Restored
               /\ UNCHANGED task
               /\ rec' = rec
    BY <1>20, <2>1, <2>2 DEF EndedStarts, Calls, RecordsTyped
  <2>3. CASE /\ ~(Latest # None /\ rec[Latest] = "recording" /\ Latest \in Restored)
               /\ UNCHANGED task
               /\ (rec' = IF Latest # None THEN [rec EXCEPT ![Latest] = IF @ = "recording" THEN "saved" ELSE @] ELSE rec)
    BY <1>20, <2>1, <2>3 DEF EndedStarts, Calls, RecordsTyped
  <2> QED BY <2>1, <2>2, <2>3
<1>21. ASSUME NEW c \in Chunks, EmitChunk(c) \/ ReceiveChunk(c) \/ ChunkAnswered(c) \/ ResendChunk(c) \/
         LoseChunk(c)
      PROVE  EndedStarts'
  BY <1>21 DEF EndedStarts, Calls, EmitChunk, ReceiveChunk, ChunkAnswered, ResendChunk, LoseChunk, durable
<1>22. ASSUME WriteChunk \/ PageStopped \/ PageCrashes
      PROVE  EndedStarts'
  BY <1>22 DEF EndedStarts, Calls, WriteChunk, PageStopped, PageCrashes, durable
<1>23. CASE UNCHANGED vars
  BY <1>23 DEF vars, durable, EndedStarts, Calls
<1> QED BY <1>1, <1>2, <1>3, <1>4, <1>5, <1>6, <1>7, <1>8, <1>9, <1>10, <1>11, <1>12, <1>13, <1>14, <1>15,
         <1>16, <1>17, <1>18, <1>19, <1>20, <1>21, <1>22, <1>23 DEF Next, StartStep, StopStep, PageStep


LEMMA EndedErrorsStep ==
  ASSUME Inv, TypeOK', RecordKept, [Next]_vars
  PROVE  EndedErrors'
<1>. USE RecorderAssumption, Ids, TypesApart DEF Inv, Creating, Known, Attempting, Closing, Active, Audio, Watched
<1>1. ASSUME NEW s \in Starts, SaveMeeting(s) PROVE EndedErrors'
  <2>1. /\ At(s, "save") /\ task[s].m \in Meetings
        /\ rec' = [rec EXCEPT ![task[s].m] = "recording"]
        /\ errors' = errors
    BY <1>1, SaveMoves
  <2> SUFFICES ASSUME NEW x \in Meetings, <<x, FALSE>> \in errors'
               PROVE  rec'[x] # "recording"
    BY DEF EndedErrors
  <2> QED BY <1>1, <2>1 DEF EndedErrors, At, Calls, RecordsTyped, Unmade, Started, KnownErrors
<1>2. ASSUME NEW s \in Starts, EraseMeeting(s) PROVE EndedErrors'
  <2>1. At(s, "erase") /\ rec' = [rec EXCEPT ![task[s].m] = "deleted"] /\ errors' = errors
    BY <1>2, EraseMoves
  <2> SUFFICES ASSUME NEW x \in Meetings, <<x, FALSE>> \in errors'
               PROVE  rec'[x] # "recording"
    BY DEF EndedErrors
  <2> QED BY <1>2, <2>1 DEF EndedErrors, At, Calls, RecordsTyped
<1>3. ASSUME NEW c \in Stops, StopRecording(c) PROVE EndedErrors'
  <2>1. /\ At(c, "final")
        /\ \/ /\ rec[task[c].m] \in {"recording", "deleted"}
              /\ Update(task[c].m, "saved")
              /\ errors' = errors
           \/ rec[task[c].m] \notin {"recording", "deleted"} /\ rec' = rec /\ errors' = errors
    BY <1>3, FinalMoves, Updating DEF Holds
  <2> SUFFICES ASSUME NEW x \in Meetings, <<x, FALSE>> \in errors'
               PROVE  rec'[x] # "recording"
    BY DEF EndedErrors
  <2>2. CASE /\ rec[task[c].m] \in {"recording", "deleted"}
               /\ Update(task[c].m, "saved")
               /\ errors' = errors
    BY <1>3, <2>1, <2>2 DEF EndedErrors, At, Update, Calls, RecordsTyped
  <2>3. CASE /\ rec[task[c].m] \notin {"recording", "deleted"}
               /\ rec' = rec
               /\ errors' = errors
    BY <1>3, <2>1, <2>3 DEF EndedErrors, At, Update, Calls, RecordsTyped
  <2> QED BY <2>1, <2>2, <2>3
<1>4. ASSUME NEW c \in Calls, FailRecording(c) PROVE EndedErrors'
  <2>1. At(c, "fail") /\ Update(task[c].m, "error") /\ errors' = errors
    BY <1>4, FailMoves, Updating DEF Holds
  <2> SUFFICES ASSUME NEW x \in Meetings, <<x, FALSE>> \in errors'
               PROVE  rec'[x] # "recording"
    BY DEF EndedErrors
  <2> QED BY <1>4, <2>1 DEF EndedErrors, At, Update, RecordsTyped
<1>5. ASSUME NEW m \in Meetings, NEW fails \in BOOLEAN, CaptureError(m, fails) PROVE EndedErrors'
  <2>1. /\ mem.up /\ <<m, fails>> \in errors
        /\ \/ rec' = rec /\ errors' = errors
           \/ mem.starting.m # m /\ rec' = rec /\ errors' = errors
           \/ /\ mem.starting.m # m /\ PageQuiet
              /\ (IF fails THEN Update(m, "error") ELSE rec' = rec)
              /\ errors' = errors \ {<<m, fails>>}
    BY <1>5, ErrorMoves, Updating DEF Holds
  <2> SUFFICES ASSUME NEW x \in Meetings, <<x, FALSE>> \in errors'
               PROVE  rec'[x] # "recording"
    BY DEF EndedErrors
  <2>2. CASE /\ rec' = rec
               /\ errors' = errors
    BY <1>5, <2>1, <2>2 DEF EndedErrors, PageQuiet, Update, RecordsTyped
  <2>3. CASE /\ mem.starting.m # m
               /\ rec' = rec
               /\ errors' = errors
    BY <1>5, <2>1, <2>3 DEF EndedErrors, PageQuiet, Update, RecordsTyped
  <2>4. CASE /\ mem.starting.m # m /\ PageQuiet
               /\ (IF fails THEN Update(m, "error") ELSE rec' = rec)
               /\ errors' = errors \ {<<m, fails>>}
    BY <1>5, <2>1, <2>4 DEF EndedErrors, PageQuiet, Update, RecordsTyped
  <2> QED BY <2>1, <2>2, <2>3, <2>4
<1>6. ASSUME NEW c \in Chunks, LoseChunk(c) PROVE EndedErrors'
  BY <1>6, ErrorOf DEF EndedErrors, LoseChunk, Move, durable
<1>7. ASSUME WriteFails PROVE EndedErrors'
  <2>1. /\ mem.up /\ chain # <<>> /\ Head(chain) \in Chunks /\ chunk[Head(chain)].m \in Meetings
        /\ chunk[Head(chain)].state \in {"queued", "lost"}
        /\ Update(chunk[Head(chain)].m, "error")
        /\ errors' = errors \cup {<<chunk[Head(chain)].m, FALSE>>}
    BY <1>7, RefuseMoves, ChainHead, Updating DEF WriteFails, StopAfterRefusal, durable
  <2> SUFFICES ASSUME NEW x \in Meetings, <<x, FALSE>> \in errors'
               PROVE  rec'[x] # "recording"
    BY DEF EndedErrors
  <2> QED BY <1>7, <2>1, ErrorOf DEF EndedErrors, Update, RecordsTyped
<1>8. ASSUME SettleLostCaptures PROVE EndedErrors'
  BY <1>8, SettleMoves DEF EndedErrors, Holds, SettleLostCaptures, LostCaptures
<1>9. ASSUME KillWorker PROVE EndedErrors'
  BY <1>9, KillMoves, AsleepTyped DEF EndedErrors, Asleep, NotStarting, KillWorker
<1>10. ASSUME WakeWorker PROVE EndedErrors'
  <2>1. /\ ~mem.up
        /\ \/ /\ Latest # None /\ rec[Latest] = "recording" /\ Latest \in Restored
              /\ rec' = rec
              /\ errors' = errors
           \/ /\ ~(Latest # None /\ rec[Latest] = "recording" /\ Latest \in Restored)
              /\ (rec' = IF Latest # None THEN [rec EXCEPT ![Latest] = IF @ = "recording" THEN "saved" ELSE @] ELSE rec)
              /\ errors' = errors
    BY <1>10, WakeMoves DEF OrphanSaved
  <2> SUFFICES ASSUME NEW x \in Meetings, <<x, FALSE>> \in errors'
               PROVE  rec'[x] # "recording"
    BY DEF EndedErrors
  <2>2. CASE /\ Latest # None /\ rec[Latest] = "recording" /\ Latest \in Restored
               /\ rec' = rec
               /\ errors' = errors
    BY <1>10, <2>1, <2>2 DEF EndedErrors, RecordsTyped
  <2>3. CASE /\ ~(Latest # None /\ rec[Latest] = "recording" /\ Latest \in Restored)
               /\ (rec' = IF Latest # None THEN [rec EXCEPT ![Latest] = IF @ = "recording" THEN "saved" ELSE @] ELSE rec)
               /\ errors' = errors
    BY <1>10, <2>1, <2>3 DEF EndedErrors, RecordsTyped
  <2> QED BY <2>1, <2>2, <2>3
<1>11. ASSUME NEW s \in Starts, StartRequested(s) \/ CreateMeeting(s) \/ Prepare(s) \/ OpenPage(s) \/
         CapturePage(s) \/ PersistCaptures(s) \/ UndoCapture(s) \/ AbortStart(s)
      PROVE  EndedErrors'
  BY <1>11 DEF EndedErrors, StartRequested, CreateMeeting, Prepare, OpenPage, CapturePage, PersistCaptures,
     UndoCapture, AbortStart, durable
<1>12. ASSUME NEW c \in Stops, StopRequested(c) \/ TabEnded(c)
      PROVE  EndedErrors'
  BY <1>12 DEF EndedErrors, StopRequested, TabEnded, durable
<1>13. ASSUME NEW c \in Calls, Teardown(c)
      PROVE  EndedErrors'
  BY <1>13 DEF EndedErrors, Teardown, durable
<1>14. ASSUME NEW c \in Chunks, EmitChunk(c) \/ ReceiveChunk(c) \/ ChunkAnswered(c) \/ ResendChunk(c)
      PROVE  EndedErrors'
  BY <1>14 DEF EndedErrors, EmitChunk, ReceiveChunk, ChunkAnswered, ResendChunk, durable
<1>15. ASSUME WriteChunk \/ PageStopped \/ PageCrashes
      PROVE  EndedErrors'
  BY <1>15 DEF EndedErrors, WriteChunk, PageStopped, PageCrashes, durable
<1>16. CASE UNCHANGED vars
  BY <1>16 DEF vars, durable, EndedErrors
<1> QED BY <1>1, <1>2, <1>3, <1>4, <1>5, <1>6, <1>7, <1>8, <1>9, <1>10, <1>11, <1>12, <1>13, <1>14, <1>15,
         <1>16 DEF Next, StartStep, StopStep, PageStep


LEMMA LookedStep ==
  ASSUME Inv, TypeOK', RecordKept, [Next]_vars
  PROVE  Looked'
<1>. USE RecorderAssumption, Ids, TypesApart DEF Inv, Creating, Known, Attempting, Closing, Active, Audio, Watched
<1>1. ASSUME NEW s \in Starts, StartRequested(s) PROVE Looked'
  BY <1>1, StartRequestedMoves DEF Looked, Minded, Sleep, Calls, At, Told
<1>2. ASSUME NEW s \in Starts, CreateMeeting(s) PROVE Looked'
  <2>1. /\ At(s, "create")
        /\ \/ /\ mem.active # None /\ mem.starting.m = None
              /\ Told({s}, "prepare", mem.active)
              /\ mem'.up = mem.up
              /\ mem'.captures = mem.captures
              /\ rec' = rec
              /\ errors' = errors
           \/ /\ mem.active # None /\ mem.starting.m = mem.active
              /\ Told({s}, "await", mem.active)
              /\ mem'.up = mem.up
              /\ mem'.captures = mem.captures
              /\ rec' = rec
              /\ errors' = errors
           \/ /\ mem.active # None /\ mem.starting.m \notin {None, mem.active}
              /\ Told({s}, "abort", mem.active)
              /\ mem'.up = mem.up
              /\ mem'.captures = mem.captures
              /\ rec' = rec
              /\ errors' = errors
           \/ /\ mem.active = None /\ mem.creating # None
              /\ Told({s}, "join", mem.creating)
              /\ mem'.up = mem.up
              /\ mem'.captures = mem.captures
              /\ rec' = rec
              /\ errors' = errors
           \/ /\ mem.active = None /\ mem.creating = None /\ FreshId \in Unused
              /\ Told({s}, "save", FreshId)
              /\ mem'.up = mem.up
              /\ mem'.captures = mem.captures
              /\ rec' = rec
              /\ errors' = errors
    BY <1>2, CreateMoves DEF Shares, Follows, Joins, Creates, Holds
  <2> SUFFICES ASSUME mem'.up, NEW x \in Meetings, rec'[x] = "recording"
               PROVE  x \in mem'.captures \/ (\E d \in Calls : task'[d].m = x) \/ \E e \in errors' : e[1] = x
    BY DEF Looked, Minded
  <2>2. CASE /\ mem.active # None /\ mem.starting.m = None
               /\ Told({s}, "prepare", mem.active)
               /\ mem'.up = mem.up
               /\ mem'.captures = mem.captures
               /\ rec' = rec
               /\ errors' = errors
    BY <1>2, <2>1, <2>2 DEF Looked, Minded, Told, At, Unused, Calls, Sleep
  <2>3. CASE /\ mem.active # None /\ mem.starting.m = mem.active
               /\ Told({s}, "await", mem.active)
               /\ mem'.up = mem.up
               /\ mem'.captures = mem.captures
               /\ rec' = rec
               /\ errors' = errors
    BY <1>2, <2>1, <2>3 DEF Looked, Minded, Told, At, Unused, Calls, Sleep
  <2>4. CASE /\ mem.active # None /\ mem.starting.m \notin {None, mem.active}
               /\ Told({s}, "abort", mem.active)
               /\ mem'.up = mem.up
               /\ mem'.captures = mem.captures
               /\ rec' = rec
               /\ errors' = errors
    BY <1>2, <2>1, <2>4 DEF Looked, Minded, Told, At, Unused, Calls, Sleep
  <2>5. CASE /\ mem.active = None /\ mem.creating # None
               /\ Told({s}, "join", mem.creating)
               /\ mem'.up = mem.up
               /\ mem'.captures = mem.captures
               /\ rec' = rec
               /\ errors' = errors
    BY <1>2, <2>1, <2>5 DEF Looked, Minded, Told, At, Unused, Calls, Sleep
  <2>6. CASE /\ mem.active = None /\ mem.creating = None /\ FreshId \in Unused
               /\ Told({s}, "save", FreshId)
               /\ mem'.up = mem.up
               /\ mem'.captures = mem.captures
               /\ rec' = rec
               /\ errors' = errors
    BY <1>2, <2>1, <2>6 DEF Looked, Minded, Told, At, Unused, Calls, Sleep
  <2> QED BY <2>1, <2>2, <2>3, <2>4, <2>5, <2>6
<1>3. ASSUME NEW s \in Starts, SaveMeeting(s) PROVE Looked'
  <2>1. /\ At(s, "save") /\ task[s].m \in Meetings
        /\ (\A x \in Calls : task'[x].m = task[x].m)
        /\ (\A x \in Calls : task'[x].pc =
              IF x = s THEN IF mem.starting.m = None THEN "prepare" ELSE "abort"
              ELSE IF task[x].pc = "join" THEN IF mem.starting.m = None THEN "await" ELSE "abort"
              ELSE task[x].pc)
        /\ mem'.up = mem.up
        /\ mem'.captures = mem.captures
        /\ rec' = [rec EXCEPT ![task[s].m] = "recording"]
        /\ errors' = errors
    BY <1>3, SaveMoves
  <2> QED BY <1>3, <2>1 DEF Looked, Minded, At, Calls, RecordsTyped, Sleep, Current, Slot, Makers
<1>4. ASSUME NEW s \in Starts, Prepare(s) PROVE Looked'
  <2>1. /\ At(s, "prepare")
        /\ \/ /\ Told({s}, "open", task[s].m)
              /\ mem'.up = mem.up
              /\ mem'.captures = mem.captures \cup {task[s].m}
              /\ rec' = rec
              /\ errors' = errors
           \/ /\ Told({s} \cup Waiting(task[s].m), "abort", task[s].m)
              /\ mem'.up = mem.up
              /\ mem'.captures = mem.captures
              /\ rec' = rec
              /\ errors' = errors
    BY <1>4, PrepareMoves DEF Holds
  <2> QED BY <1>4, <2>1 DEF Looked, Minded, Told, Waiting, At, Calls
<1>5. ASSUME NEW s \in Starts, OpenPage(s) PROVE Looked'
  BY <1>5, OpenMoves DEF Looked, Minded, OpenPage, Told, At, Calls
<1>6. ASSUME NEW s \in Starts, CapturePage(s) PROVE Looked'
  BY <1>6, CaptureMoves DEF Looked, Minded, Told, At, Calls
<1>7. ASSUME NEW s \in Starts, PersistCaptures(s) PROVE Looked'
  <2>1. /\ At(s, "persist")
        /\ \/ /\ mem.active = task[s].m
              /\ Told({s} \cup Waiting(task[s].m), "done", None)
              /\ mem'.up = mem.up
              /\ mem'.captures = mem.captures
              /\ rec' = rec
              /\ errors' = errors
           \/ /\ mem.active # task[s].m
              /\ Told({s} \cup Waiting(task[s].m), "teardown", task[s].m)
              /\ mem'.up = mem.up
              /\ mem'.captures = mem.captures
              /\ rec' = rec
              /\ errors' = errors
    BY <1>7, PersistMoves DEF Holds
  <2> SUFFICES ASSUME mem'.up, NEW x \in Meetings, rec'[x] = "recording"
               PROVE  x \in mem'.captures \/ (\E d \in Calls : task'[d].m = x) \/ \E e \in errors' : e[1] = x
    BY DEF Looked, Minded
  <2>2. CASE /\ mem.active = task[s].m
               /\ Told({s} \cup Waiting(task[s].m), "done", None)
               /\ mem'.up = mem.up
               /\ mem'.captures = mem.captures
               /\ rec' = rec
               /\ errors' = errors
    BY <1>7, <2>1, <2>2 DEF Looked, Minded, Told, Waiting, At, Calls, Capturers, Starters, Attempt, Sleep
  <2>3. CASE /\ mem.active # task[s].m
               /\ Told({s} \cup Waiting(task[s].m), "teardown", task[s].m)
               /\ mem'.up = mem.up
               /\ mem'.captures = mem.captures
               /\ rec' = rec
               /\ errors' = errors
    BY <1>7, <2>1, <2>3 DEF Looked, Minded, Told, Waiting, At, Calls, Capturers, Starters, Attempt, Sleep
  <2> QED BY <2>1, <2>2, <2>3
<1>8. ASSUME NEW s \in Starts, UndoCapture(s) PROVE Looked'
  <2>1. /\ At(s, "undo")
        /\ \/ /\ UNCHANGED task
              /\ mem'.up = mem.up
              /\ mem'.captures = mem.captures
              /\ rec' = rec
              /\ errors' = errors
           \/ /\ PageQuiet
              /\ Told({s}, "prepare", task[s].m)
              /\ mem'.up = mem.up
              /\ mem'.captures = mem.captures \ {task[s].m}
              /\ rec' = rec
              /\ errors' = errors
           \/ /\ PageQuiet
              /\ Told({s} \cup Waiting(task[s].m), "abort", task[s].m)
              /\ mem'.up = mem.up
              /\ mem'.captures = mem.captures \ {task[s].m}
              /\ rec' = rec
              /\ errors' = errors
    BY <1>8, UndoMoves DEF Holds
  <2> QED BY <1>8, <2>1 DEF Looked, Minded, Told, Waiting, At, PageQuiet, Calls
<1>9. ASSUME NEW s \in Starts, AbortStart(s) PROVE Looked'
  BY <1>9, AbortMoves DEF Looked, Minded, Told, At, Calls
<1>10. ASSUME NEW s \in Starts, EraseMeeting(s) PROVE Looked'
  <2>1. /\ At(s, "erase")
        /\ Told({s}, "done", None)
        /\ mem'.up = mem.up
        /\ mem'.captures = mem.captures
        /\ rec' = [rec EXCEPT ![task[s].m] = "deleted"]
        /\ errors' = errors
    BY <1>10, EraseMoves
  <2> SUFFICES ASSUME mem'.up, NEW x \in Meetings, rec'[x] = "recording"
               PROVE  x \in mem'.captures \/ (\E d \in Calls : task'[d].m = x) \/ \E e \in errors' : e[1] = x
    BY DEF Looked, Minded
  <2> QED BY <1>10, <2>1 DEF Looked, Minded, Told, At, Calls, RecordsTyped, Sleep
<1>11. ASSUME NEW c \in Stops, StopRequested(c) PROVE Looked'
  <2>1. /\ At(c, "new") /\ mem.active \in Meetings
        /\ \/ /\ IsActive(mem.active)
              /\ Told({c}, "teardown", mem.active)
              /\ mem'.up = mem.up
              /\ mem'.captures = mem.captures
              /\ rec' = rec
              /\ errors' = errors
           \/ /\ ~IsActive(mem.active)
              /\ Told({c}, "final", mem.active)
              /\ mem'.up = mem.up
              /\ mem'.captures = mem.captures
              /\ rec' = rec
              /\ errors' = errors
    BY <1>11, StopMoves DEF Holds
  <2> SUFFICES ASSUME mem'.up, NEW x \in Meetings, rec'[x] = "recording"
               PROVE  x \in mem'.captures \/ (\E d \in Calls : task'[d].m = x) \/ \E e \in errors' : e[1] = x
    BY DEF Looked, Minded
  <2>2. CASE /\ IsActive(mem.active)
               /\ Told({c}, "teardown", mem.active)
               /\ mem'.up = mem.up
               /\ mem'.captures = mem.captures
               /\ rec' = rec
               /\ errors' = errors
    BY <1>11, <2>1, <2>2 DEF Looked, Minded, Told, At, IsActive, Calls, Sleep
  <2>3. CASE /\ ~IsActive(mem.active)
               /\ Told({c}, "final", mem.active)
               /\ mem'.up = mem.up
               /\ mem'.captures = mem.captures
               /\ rec' = rec
               /\ errors' = errors
    BY <1>11, <2>1, <2>3 DEF Looked, Minded, Told, At, IsActive, Calls, Sleep
  <2> QED BY <2>1, <2>2, <2>3
<1>12. ASSUME NEW c \in Stops, TabEnded(c) PROVE Looked'
  <2>1. /\ At(c, "new")
        /\ (\E m \in mem.captures : Told({c}, "teardown", m))
        /\ mem'.up = mem.up
        /\ mem'.captures = mem.captures
        /\ rec' = rec
        /\ errors' = errors
    BY <1>12, TabMoves DEF Holds
  <2> SUFFICES ASSUME mem'.up, NEW x \in Meetings, rec'[x] = "recording"
               PROVE  x \in mem'.captures \/ (\E d \in Calls : task'[d].m = x) \/ \E e \in errors' : e[1] = x
    BY DEF Looked, Minded
  <2> QED BY <1>12, <2>1 DEF Looked, Minded, Told, At, Calls, Sleep
<1>13. ASSUME NEW c \in Stops, StopRecording(c) PROVE Looked'
  <2>1. /\ At(c, "final")
        /\ \/ /\ rec[task[c].m] \in {"recording", "deleted"}
              /\ Told({c}, "done", None)
              /\ mem'.up = mem.up
              /\ mem'.captures = mem.captures
              /\ Update(task[c].m, "saved")
              /\ errors' = errors
           \/ /\ rec[task[c].m] \notin {"recording", "deleted"}
              /\ Told({c}, "done", None)
              /\ mem'.up = mem.up
              /\ mem'.captures = mem.captures
              /\ rec' = rec
              /\ errors' = errors
    BY <1>13, FinalMoves, Updating DEF Holds
  <2> SUFFICES ASSUME mem'.up, NEW x \in Meetings, rec'[x] = "recording"
               PROVE  x \in mem'.captures \/ (\E d \in Calls : task'[d].m = x) \/ \E e \in errors' : e[1] = x
    BY DEF Looked, Minded
  <2>2. CASE /\ rec[task[c].m] \in {"recording", "deleted"}
               /\ Told({c}, "done", None)
               /\ mem'.up = mem.up
               /\ mem'.captures = mem.captures
               /\ Update(task[c].m, "saved")
               /\ errors' = errors
    BY <1>13, <2>1, <2>2 DEF Looked, Minded, Told, At, Update, Calls, RecordsTyped, Sleep
  <2>3. CASE /\ rec[task[c].m] \notin {"recording", "deleted"}
               /\ Told({c}, "done", None)
               /\ mem'.up = mem.up
               /\ mem'.captures = mem.captures
               /\ rec' = rec
               /\ errors' = errors
    BY <1>13, <2>1, <2>3 DEF Looked, Minded, Told, At, Update, Calls, RecordsTyped, Sleep
  <2> QED BY <2>1, <2>2, <2>3
<1>14. ASSUME NEW c \in Calls, Teardown(c) PROVE Looked'
  BY <1>14, TeardownMoves DEF Looked, Minded, Holds, Teardown, Told, At, PageQuiet, EndedStarts, Calls
<1>15. ASSUME NEW c \in Calls, FailRecording(c) PROVE Looked'
  <2>1. /\ At(c, "fail")
        /\ Told({c}, "done", None)
        /\ mem'.up = mem.up
        /\ mem'.captures = mem.captures
        /\ Update(task[c].m, "error")
        /\ errors' = errors
    BY <1>15, FailMoves, Updating DEF Holds
  <2> SUFFICES ASSUME mem'.up, NEW x \in Meetings, rec'[x] = "recording"
               PROVE  x \in mem'.captures \/ (\E d \in Calls : task'[d].m = x) \/ \E e \in errors' : e[1] = x
    BY DEF Looked, Minded
  <2> QED BY <1>15, <2>1 DEF Looked, Minded, Told, At, Update, RecordsTyped, Sleep
<1>16. ASSUME NEW m \in Meetings, NEW fails \in BOOLEAN, CaptureError(m, fails) PROVE Looked'
  <2>1. /\ mem.up /\ <<m, fails>> \in errors
        /\ \/ /\ UNCHANGED task
              /\ mem'.up = mem.up
              /\ mem'.captures = mem.captures
              /\ rec' = rec
              /\ errors' = errors
           \/ /\ mem.starting.m # m
              /\ UNCHANGED task
              /\ mem'.up = mem.up
              /\ mem'.captures = mem.captures
              /\ rec' = rec
              /\ errors' = errors
           \/ /\ mem.starting.m # m /\ PageQuiet
              /\ UNCHANGED task
              /\ mem'.up = mem.up
              /\ mem'.captures = mem.captures \ {m}
              /\ (IF fails THEN Update(m, "error") ELSE rec' = rec)
              /\ errors' = errors \ {<<m, fails>>}
    BY <1>16, ErrorMoves, Updating DEF Holds
  <2> SUFFICES ASSUME mem'.up, NEW x \in Meetings, rec'[x] = "recording"
               PROVE  x \in mem'.captures \/ (\E d \in Calls : task'[d].m = x) \/ \E e \in errors' : e[1] = x
    BY DEF Looked, Minded
  <2>2. \A e \in errors : e \in errors' \/ e[1] = m
    <3>1. \A b : <<m, b>>[1] = m
      OBVIOUS
    <3> QED BY <2>1, <3>1
  <2>3. rec[x] = "recording"
    BY <2>1 DEF Update, RecordsTyped
  <2>4. x \in mem.captures \/ (\E d \in Calls : task[d].m = x) \/ \E e \in errors : e[1] = x
    BY <2>1, <2>3 DEF Looked, Minded
  <2>5. x = m => errors' = errors /\ mem'.captures = mem.captures
    BY <2>1, <2>3 DEF EndedErrors, Update, RecordsTyped
  <2> QED BY <2>1, <2>2, <2>4, <2>5
<1>17. ASSUME NEW c \in Chunks, ReceiveChunk(c) PROVE Looked'
  <2>1. /\ mem.up /\ chunk[c].state = "sent"
        /\ \/ /\ chunk[c].m \in mem.captures
              /\ UNCHANGED task
              /\ mem'.up = mem.up
              /\ mem'.captures = mem.captures
              /\ rec' = rec
              /\ errors' = errors
           \/ /\ mem.active = chunk[c].m
              /\ UNCHANGED task
              /\ mem'.up = mem.up
              /\ mem'.captures = mem.captures \cup {chunk[c].m}
              /\ rec' = rec
              /\ errors' = errors
           \/ /\ chunk[c].m \notin mem.captures
              /\ UNCHANGED task
              /\ mem'.up = mem.up
              /\ mem'.captures = mem.captures
              /\ rec' = rec
              /\ errors' = errors
    BY <1>17, ReceiveMoves DEF Holds
  <2> QED BY <1>17, <2>1 DEF Looked, Minded
<1>18. ASSUME NEW c \in Chunks, LoseChunk(c) PROVE Looked'
  BY <1>18 DEF Looked, Minded, LoseChunk, Move, durable
<1>19. ASSUME WriteChunk PROVE Looked'
  BY <1>19, WriteMoves, ChainHead DEF Looked, Minded, WriteChunk
<1>20. ASSUME WriteFails PROVE Looked'
  <2>1. /\ mem.up /\ chain # <<>> /\ Head(chain) \in Chunks /\ chunk[Head(chain)].m \in Meetings
        /\ chunk[Head(chain)].state \in {"queued", "lost"}
        /\ UNCHANGED task
        /\ mem'.up = mem.up
        /\ mem'.captures = mem.captures
        /\ Update(chunk[Head(chain)].m, "error")
        /\ errors' = errors \cup {<<chunk[Head(chain)].m, FALSE>>}
    BY <1>20, RefuseMoves, ChainHead, Updating DEF WriteFails, StopAfterRefusal, durable
  <2> SUFFICES ASSUME mem'.up, NEW x \in Meetings, rec'[x] = "recording"
               PROVE  x \in mem'.captures \/ (\E d \in Calls : task'[d].m = x) \/ \E e \in errors' : e[1] = x
    BY DEF Looked, Minded
  <2> QED BY <1>20, <2>1, ErrorOf DEF Looked, Minded, Update, RecordsTyped
<1>21. ASSUME SettleLostCaptures PROVE Looked'
  BY <1>21, SettleMoves DEF Looked, Minded, Holds, SettleLostCaptures, LostCaptures
<1>22. ASSUME KillWorker PROVE Looked'
  BY <1>22, KillMoves, AsleepTyped DEF Looked, Minded, Asleep, NotStarting, KillWorker
<1>23. ASSUME WakeWorker PROVE Looked'
  BY <1>23, WakeMoves DEF Looked, Minded, OrphanSaved, RecordsTyped, Newest
<1>24. ASSUME NEW c \in Chunks, EmitChunk(c) \/ ChunkAnswered(c) \/ ResendChunk(c)
      PROVE  Looked'
  BY <1>24 DEF Looked, Minded, EmitChunk, ChunkAnswered, ResendChunk, durable
<1>25. ASSUME PageStopped \/ PageCrashes
      PROVE  Looked'
  BY <1>25 DEF Looked, Minded, PageStopped, PageCrashes, durable
<1>26. CASE UNCHANGED vars
  BY <1>26 DEF vars, durable, Looked, Minded
<1> QED BY <1>1, <1>2, <1>3, <1>4, <1>5, <1>6, <1>7, <1>8, <1>9, <1>10, <1>11, <1>12, <1>13, <1>14, <1>15,
         <1>16, <1>17, <1>18, <1>19, <1>20, <1>21, <1>22, <1>23, <1>24, <1>25, <1>26 DEF Next, StartStep,
         StopStep, PageStep


LEMMA StoppableStep ==
  ASSUME Inv, TypeOK', RecordKept, [Next]_vars
  PROVE  Stoppable'
<1>. USE RecorderAssumption, Ids, TypesApart DEF Inv, Creating, Known, Attempting, Closing, Active, Audio, Watched
<1>1. ASSUME NEW s \in Starts, StartRequested(s) PROVE Stoppable'
  BY <1>1, StartRequestedMoves DEF Stoppable, Minded, Sleep, Calls, At, Told
<1>2. ASSUME NEW s \in Starts, CreateMeeting(s) PROVE Stoppable'
  <2>1. /\ At(s, "create")
        /\ \/ /\ mem.active # None /\ mem.starting.m = None
              /\ Told({s}, "prepare", mem.active)
              /\ mem'.up = mem.up
              /\ stray' = stray \cup {mem.active}
              /\ page' = page
              /\ rec' = rec
              /\ errors' = errors
           \/ /\ mem.active # None /\ mem.starting.m = mem.active
              /\ Told({s}, "await", mem.active)
              /\ mem'.up = mem.up
              /\ stray' = stray
              /\ page' = page
              /\ rec' = rec
              /\ errors' = errors
           \/ /\ mem.active # None /\ mem.starting.m \notin {None, mem.active}
              /\ Told({s}, "abort", mem.active)
              /\ mem'.up = mem.up
              /\ stray' = stray
              /\ page' = page
              /\ rec' = rec
              /\ errors' = errors
           \/ /\ mem.active = None /\ mem.creating # None
              /\ Told({s}, "join", mem.creating)
              /\ mem'.up = mem.up
              /\ stray' = stray
              /\ page' = page
              /\ rec' = rec
              /\ errors' = errors
           \/ /\ mem.active = None /\ mem.creating = None /\ FreshId \in Unused
              /\ Told({s}, "save", FreshId)
              /\ mem'.up = mem.up
              /\ stray' = stray
              /\ page' = page
              /\ rec' = rec
              /\ errors' = errors
    BY <1>2, CreateMoves DEF Shares, Follows, Joins, Creates, Holds
  <2> SUFFICES ASSUME page'.state = "capturing", mem'.up, page'.m \notin stray'
               PROVE  rec'[page'.m] = "recording" \/ (\E d \in Calls : task'[d].m = page'.m) \/ \E e \in errors' : e[1] = page'.m
    BY DEF Stoppable, Minded
  <2>2. CASE /\ mem.active # None /\ mem.starting.m = None
               /\ Told({s}, "prepare", mem.active)
               /\ mem'.up = mem.up
               /\ stray' = stray \cup {mem.active}
               /\ page' = page
               /\ rec' = rec
               /\ errors' = errors
    BY <1>2, <2>1, <2>2 DEF Stoppable, Minded, Told, At, Unused, Calls, Sleep, Paged, Held
  <2>3. CASE /\ mem.active # None /\ mem.starting.m = mem.active
               /\ Told({s}, "await", mem.active)
               /\ mem'.up = mem.up
               /\ stray' = stray
               /\ page' = page
               /\ rec' = rec
               /\ errors' = errors
    BY <1>2, <2>1, <2>3 DEF Stoppable, Minded, Told, At, Unused, Calls, Sleep, Paged, Held
  <2>4. CASE /\ mem.active # None /\ mem.starting.m \notin {None, mem.active}
               /\ Told({s}, "abort", mem.active)
               /\ mem'.up = mem.up
               /\ stray' = stray
               /\ page' = page
               /\ rec' = rec
               /\ errors' = errors
    BY <1>2, <2>1, <2>4 DEF Stoppable, Minded, Told, At, Unused, Calls, Sleep, Paged, Held
  <2>5. CASE /\ mem.active = None /\ mem.creating # None
               /\ Told({s}, "join", mem.creating)
               /\ mem'.up = mem.up
               /\ stray' = stray
               /\ page' = page
               /\ rec' = rec
               /\ errors' = errors
    BY <1>2, <2>1, <2>5 DEF Stoppable, Minded, Told, At, Unused, Calls, Sleep, Paged, Held
  <2>6. CASE /\ mem.active = None /\ mem.creating = None /\ FreshId \in Unused
               /\ Told({s}, "save", FreshId)
               /\ mem'.up = mem.up
               /\ stray' = stray
               /\ page' = page
               /\ rec' = rec
               /\ errors' = errors
    BY <1>2, <2>1, <2>6 DEF Stoppable, Minded, Told, At, Unused, Calls, Sleep, Paged, Held
  <2> QED BY <2>1, <2>2, <2>3, <2>4, <2>5, <2>6
<1>3. ASSUME NEW s \in Starts, SaveMeeting(s) PROVE Stoppable'
  <2>1. /\ At(s, "save") /\ task[s].m \in Meetings
        /\ (\A x \in Calls : task'[x].m = task[x].m)
        /\ (\A x \in Calls : task'[x].pc =
              IF x = s THEN IF mem.starting.m = None THEN "prepare" ELSE "abort"
              ELSE IF task[x].pc = "join" THEN IF mem.starting.m = None THEN "await" ELSE "abort"
              ELSE task[x].pc)
        /\ mem'.up = mem.up
        /\ stray' = stray
        /\ page' = page
        /\ rec' = [rec EXCEPT ![task[s].m] = "recording"]
        /\ errors' = errors
    BY <1>3, SaveMoves
  <2> QED BY <1>3, <2>1 DEF Stoppable, Minded, At, Calls, RecordsTyped, Sleep
<1>4. ASSUME NEW s \in Starts, Prepare(s) PROVE Stoppable'
  <2>1. /\ At(s, "prepare")
        /\ \/ /\ Told({s}, "open", task[s].m)
              /\ mem'.up = mem.up
              /\ stray' = stray
              /\ page' = page
              /\ rec' = rec
              /\ errors' = errors
           \/ /\ Told({s} \cup Waiting(task[s].m), "abort", task[s].m)
              /\ mem'.up = mem.up
              /\ stray' = stray
              /\ page' = page
              /\ rec' = rec
              /\ errors' = errors
    BY <1>4, PrepareMoves DEF Holds
  <2> QED BY <1>4, <2>1 DEF Stoppable, Minded, Told, Waiting, At, Calls
<1>5. ASSUME NEW s \in Starts, OpenPage(s) PROVE Stoppable'
  BY <1>5, OpenMoves DEF Stoppable, Minded, OpenPage, Told, At, Calls
<1>6. ASSUME NEW s \in Starts, CapturePage(s) PROVE Stoppable'
  <2>1. /\ At(s, "capture")
        /\ \/ /\ page.state = "capturing"
              /\ UNCHANGED task
              /\ mem'.up = mem.up
              /\ stray' = stray
              /\ page' = [page EXCEPT !.state = "stopping"]
              /\ rec' = rec
              /\ errors' = errors
           \/ /\ page.state = "idle"
              /\ (Told({s}, "undo", task[s].m) \/ Told({s}, "persist", task[s].m))
              /\ mem'.up = mem.up
              /\ stray' = stray
              /\ page' = [state |-> "capturing", m |-> task[s].m]
              /\ rec' = rec
              /\ errors' = errors
           \/ /\ Told({s}, "undo", task[s].m)
              /\ mem'.up = mem.up
              /\ stray' = stray
              /\ page' = page
              /\ rec' = rec
              /\ errors' = errors
    BY <1>6, CaptureMoves
  <2> SUFFICES ASSUME page'.state = "capturing", mem'.up, page'.m \notin stray'
               PROVE  rec'[page'.m] = "recording" \/ (\E d \in Calls : task'[d].m = page'.m) \/ \E e \in errors' : e[1] = page'.m
    BY DEF Stoppable, Minded
  <2>2. CASE /\ page.state = "capturing"
               /\ UNCHANGED task
               /\ mem'.up = mem.up
               /\ stray' = stray
               /\ page' = [page EXCEPT !.state = "stopping"]
               /\ rec' = rec
               /\ errors' = errors
    BY <1>6, <2>1, <2>2 DEF Stoppable, Minded, Told, At, Calls, Sleep
  <2>3. CASE /\ page.state = "idle"
               /\ (Told({s}, "undo", task[s].m) \/ Told({s}, "persist", task[s].m))
               /\ mem'.up = mem.up
               /\ stray' = stray
               /\ page' = [state |-> "capturing", m |-> task[s].m]
               /\ rec' = rec
               /\ errors' = errors
    BY <1>6, <2>1, <2>3 DEF Stoppable, Minded, Told, At, Calls, Sleep
  <2>4. CASE /\ Told({s}, "undo", task[s].m)
               /\ mem'.up = mem.up
               /\ stray' = stray
               /\ page' = page
               /\ rec' = rec
               /\ errors' = errors
    BY <1>6, <2>1, <2>4 DEF Stoppable, Minded, Told, At, Calls, Sleep
  <2> QED BY <2>1, <2>2, <2>3, <2>4
<1>7. ASSUME NEW s \in Starts, PersistCaptures(s) PROVE Stoppable'
  <2>1. /\ At(s, "persist")
        /\ \/ /\ mem.active = task[s].m
              /\ Told({s} \cup Waiting(task[s].m), "done", None)
              /\ mem'.up = mem.up
              /\ stray' = stray
              /\ page' = page
              /\ rec' = rec
              /\ errors' = errors
           \/ /\ mem.active # task[s].m
              /\ Told({s} \cup Waiting(task[s].m), "teardown", task[s].m)
              /\ mem'.up = mem.up
              /\ stray' = stray
              /\ page' = page
              /\ rec' = rec
              /\ errors' = errors
    BY <1>7, PersistMoves DEF Holds
  <2> SUFFICES ASSUME page'.state = "capturing", mem'.up, page'.m \notin stray'
               PROVE  rec'[page'.m] = "recording" \/ (\E d \in Calls : task'[d].m = page'.m) \/ \E e \in errors' : e[1] = page'.m
    BY DEF Stoppable, Minded
  <2>2. CASE /\ mem.active = task[s].m
               /\ Told({s} \cup Waiting(task[s].m), "done", None)
               /\ mem'.up = mem.up
               /\ stray' = stray
               /\ page' = page
               /\ rec' = rec
               /\ errors' = errors
    BY <1>7, <2>1, <2>2 DEF Stoppable, Minded, Told, Waiting, At, Calls, Current, Sleep, Starters, Attempt
  <2>3. CASE /\ mem.active # task[s].m
               /\ Told({s} \cup Waiting(task[s].m), "teardown", task[s].m)
               /\ mem'.up = mem.up
               /\ stray' = stray
               /\ page' = page
               /\ rec' = rec
               /\ errors' = errors
    BY <1>7, <2>1, <2>3 DEF Stoppable, Minded, Told, Waiting, At, Calls, Current, Sleep, Starters, Attempt
  <2> QED BY <2>1, <2>2, <2>3
<1>8. ASSUME NEW s \in Starts, UndoCapture(s) PROVE Stoppable'
  <2>1. /\ At(s, "undo")
        /\ \/ /\ UNCHANGED task
              /\ mem'.up = mem.up
              /\ stray' = stray
              /\ StopPage
              /\ rec' = rec
              /\ errors' = errors
           \/ /\ PageQuiet
              /\ Told({s}, "prepare", task[s].m)
              /\ mem'.up = mem.up
              /\ stray' = stray
              /\ page' = Gone
              /\ rec' = rec
              /\ errors' = errors
           \/ /\ PageQuiet
              /\ Told({s} \cup Waiting(task[s].m), "abort", task[s].m)
              /\ mem'.up = mem.up
              /\ stray' = stray
              /\ page' = Gone
              /\ rec' = rec
              /\ errors' = errors
    BY <1>8, UndoMoves DEF Holds
  <2> SUFFICES ASSUME page'.state = "capturing", mem'.up, page'.m \notin stray'
               PROVE  rec'[page'.m] = "recording" \/ (\E d \in Calls : task'[d].m = page'.m) \/ \E e \in errors' : e[1] = page'.m
    BY DEF Stoppable, Minded
  <2>2. CASE /\ UNCHANGED task
               /\ mem'.up = mem.up
               /\ stray' = stray
               /\ StopPage
               /\ rec' = rec
               /\ errors' = errors
    BY <1>8, <2>1, <2>2 DEF Stoppable, Minded, Told, Waiting, At, StopPage, PageQuiet, Gone, Calls, Sleep,
       Paged, Held
  <2>3. CASE /\ PageQuiet
               /\ Told({s}, "prepare", task[s].m)
               /\ mem'.up = mem.up
               /\ stray' = stray
               /\ page' = Gone
               /\ rec' = rec
               /\ errors' = errors
    BY <1>8, <2>1, <2>3 DEF Stoppable, Minded, Told, Waiting, At, StopPage, PageQuiet, Gone, Calls, Sleep,
       Paged, Held
  <2>4. CASE /\ PageQuiet
               /\ Told({s} \cup Waiting(task[s].m), "abort", task[s].m)
               /\ mem'.up = mem.up
               /\ stray' = stray
               /\ page' = Gone
               /\ rec' = rec
               /\ errors' = errors
    BY <1>8, <2>1, <2>4 DEF Stoppable, Minded, Told, Waiting, At, StopPage, PageQuiet, Gone, Calls, Sleep,
       Paged, Held
  <2> QED BY <2>1, <2>2, <2>3, <2>4
<1>9. ASSUME NEW s \in Starts, AbortStart(s) PROVE Stoppable'
  BY <1>9, AbortMoves DEF Stoppable, Minded, Told, At, Calls
<1>10. ASSUME NEW s \in Starts, EraseMeeting(s) PROVE Stoppable'
  <2>1. /\ At(s, "erase")
        /\ Told({s}, "done", None)
        /\ mem'.up = mem.up
        /\ stray' = stray
        /\ page' = page
        /\ rec' = [rec EXCEPT ![task[s].m] = "deleted"]
        /\ errors' = errors
    BY <1>10, EraseMoves
  <2> SUFFICES ASSUME page'.state = "capturing", mem'.up, page'.m \notin stray'
               PROVE  rec'[page'.m] = "recording" \/ (\E d \in Calls : task'[d].m = page'.m) \/ \E e \in errors' : e[1] = page'.m
    BY DEF Stoppable, Minded
  <2> QED BY <1>10, <2>1 DEF Stoppable, Minded, Told, At, Calls, RecordsTyped, Sleep, GivenUp, GivingUp,
         Closed
<1>11. ASSUME NEW c \in Stops, StopRequested(c) PROVE Stoppable'
  <2>1. /\ At(c, "new") /\ mem.active \in Meetings
        /\ \/ /\ IsActive(mem.active)
              /\ Told({c}, "teardown", mem.active)
              /\ mem'.up = mem.up
              /\ stray' = stray
              /\ page' = page
              /\ rec' = rec
              /\ errors' = errors
           \/ /\ ~IsActive(mem.active)
              /\ Told({c}, "final", mem.active)
              /\ mem'.up = mem.up
              /\ stray' = stray
              /\ page' = page
              /\ rec' = rec
              /\ errors' = errors
    BY <1>11, StopMoves DEF Holds
  <2> SUFFICES ASSUME page'.state = "capturing", mem'.up, page'.m \notin stray'
               PROVE  rec'[page'.m] = "recording" \/ (\E d \in Calls : task'[d].m = page'.m) \/ \E e \in errors' : e[1] = page'.m
    BY DEF Stoppable, Minded
  <2>2. CASE /\ IsActive(mem.active)
               /\ Told({c}, "teardown", mem.active)
               /\ mem'.up = mem.up
               /\ stray' = stray
               /\ page' = page
               /\ rec' = rec
               /\ errors' = errors
    BY <1>11, <2>1, <2>2 DEF Stoppable, Minded, Told, At, IsActive, Calls, Sleep, Paged, Held
  <2>3. CASE /\ ~IsActive(mem.active)
               /\ Told({c}, "final", mem.active)
               /\ mem'.up = mem.up
               /\ stray' = stray
               /\ page' = page
               /\ rec' = rec
               /\ errors' = errors
    BY <1>11, <2>1, <2>3 DEF Stoppable, Minded, Told, At, IsActive, Calls, Sleep, Paged, Held
  <2> QED BY <2>1, <2>2, <2>3
<1>12. ASSUME NEW c \in Stops, TabEnded(c) PROVE Stoppable'
  <2>1. /\ At(c, "new")
        /\ (\E m \in mem.captures : Told({c}, "teardown", m))
        /\ mem'.up = mem.up
        /\ stray' = stray
        /\ page' = page
        /\ rec' = rec
        /\ errors' = errors
    BY <1>12, TabMoves DEF Holds
  <2> SUFFICES ASSUME page'.state = "capturing", mem'.up, page'.m \notin stray'
               PROVE  rec'[page'.m] = "recording" \/ (\E d \in Calls : task'[d].m = page'.m) \/ \E e \in errors' : e[1] = page'.m
    BY DEF Stoppable, Minded
  <2> QED BY <1>12, <2>1 DEF Stoppable, Minded, Told, At, Calls, Sleep, Paged, Held
<1>13. ASSUME NEW c \in Stops, StopRecording(c) PROVE Stoppable'
  <2>1. /\ At(c, "final")
        /\ \/ /\ rec[task[c].m] \in {"recording", "deleted"}
              /\ Told({c}, "done", None)
              /\ mem'.up = mem.up
              /\ stray' = stray
              /\ page' = page
              /\ Update(task[c].m, "saved")
              /\ errors' = errors
           \/ /\ rec[task[c].m] \notin {"recording", "deleted"}
              /\ Told({c}, "done", None)
              /\ mem'.up = mem.up
              /\ stray' = stray
              /\ page' = page
              /\ rec' = rec
              /\ errors' = errors
    BY <1>13, FinalMoves, Updating DEF Holds
  <2> SUFFICES ASSUME page'.state = "capturing", mem'.up, page'.m \notin stray'
               PROVE  rec'[page'.m] = "recording" \/ (\E d \in Calls : task'[d].m = page'.m) \/ \E e \in errors' : e[1] = page'.m
    BY DEF Stoppable, Minded
  <2>2. CASE /\ rec[task[c].m] \in {"recording", "deleted"}
               /\ Told({c}, "done", None)
               /\ mem'.up = mem.up
               /\ stray' = stray
               /\ page' = page
               /\ Update(task[c].m, "saved")
               /\ errors' = errors
    BY <1>13, <2>1, <2>2 DEF Stoppable, Minded, Told, At, Update, Calls, RecordsTyped, Sleep, GivenUp,
       GivingUp, Closed
  <2>3. CASE /\ rec[task[c].m] \notin {"recording", "deleted"}
               /\ Told({c}, "done", None)
               /\ mem'.up = mem.up
               /\ stray' = stray
               /\ page' = page
               /\ rec' = rec
               /\ errors' = errors
    BY <1>13, <2>1, <2>3 DEF Stoppable, Minded, Told, At, Update, Calls, RecordsTyped, Sleep, GivenUp,
       GivingUp, Closed
  <2> QED BY <2>1, <2>2, <2>3
<1>14. ASSUME NEW c \in Calls, Teardown(c) PROVE Stoppable'
  <2>1. /\ At(c, "teardown") /\ mem.starting.m # task[c].m
        /\ \/ /\ UNCHANGED task
              /\ mem'.up = mem.up
              /\ stray' = stray
              /\ StopPage
              /\ rec' = rec
              /\ errors' = errors
           \/ /\ c \in Starts /\ PageQuiet
              /\ Told({c}, "done", None)
              /\ mem'.up = mem.up
              /\ stray' = stray
              /\ page' = Gone
              /\ rec' = rec
              /\ errors' = errors
           \/ /\ c \notin Starts /\ PageQuiet
              /\ Told({c}, "final", task[c].m)
              /\ mem'.up = mem.up
              /\ stray' = stray
              /\ page' = Gone
              /\ rec' = rec
              /\ errors' = errors
    BY <1>14, TeardownMoves DEF Holds, Teardown
  <2> SUFFICES ASSUME page'.state = "capturing", mem'.up, page'.m \notin stray'
               PROVE  rec'[page'.m] = "recording" \/ (\E d \in Calls : task'[d].m = page'.m) \/ \E e \in errors' : e[1] = page'.m
    BY DEF Stoppable, Minded
  <2>2. CASE /\ UNCHANGED task
               /\ mem'.up = mem.up
               /\ stray' = stray
               /\ StopPage
               /\ rec' = rec
               /\ errors' = errors
    BY <1>14, <2>1, <2>2 DEF Stoppable, Minded, Told, At, StopPage, PageQuiet, Gone, Paged, Held
  <2>3. CASE /\ c \in Starts /\ PageQuiet
               /\ Told({c}, "done", None)
               /\ mem'.up = mem.up
               /\ stray' = stray
               /\ page' = Gone
               /\ rec' = rec
               /\ errors' = errors
    BY <1>14, <2>1, <2>3 DEF Stoppable, Minded, Told, At, StopPage, PageQuiet, Gone, Paged, Held
  <2>4. CASE /\ c \notin Starts /\ PageQuiet
               /\ Told({c}, "final", task[c].m)
               /\ mem'.up = mem.up
               /\ stray' = stray
               /\ page' = Gone
               /\ rec' = rec
               /\ errors' = errors
    BY <1>14, <2>1, <2>4 DEF Stoppable, Minded, Told, At, StopPage, PageQuiet, Gone, Paged, Held
  <2> QED BY <2>1, <2>2, <2>3, <2>4
<1>15. ASSUME NEW c \in Calls, FailRecording(c) PROVE Stoppable'
  <2>1. /\ At(c, "fail")
        /\ Told({c}, "done", None)
        /\ mem'.up = mem.up
        /\ stray' = stray
        /\ page' = page
        /\ Update(task[c].m, "error")
        /\ errors' = errors
    BY <1>15, FailMoves, Updating DEF Holds
  <2> SUFFICES ASSUME page'.state = "capturing", mem'.up, page'.m \notin stray'
               PROVE  rec'[page'.m] = "recording" \/ (\E d \in Calls : task'[d].m = page'.m) \/ \E e \in errors' : e[1] = page'.m
    BY DEF Stoppable, Minded
  <2> QED BY <1>15, <2>1 DEF Stoppable, Minded, Told, At, Update, RecordsTyped, Sleep, GivenUp, GivingUp,
         Closed
<1>16. ASSUME NEW m \in Meetings, NEW fails \in BOOLEAN, CaptureError(m, fails) PROVE Stoppable'
  <2>1. /\ mem.up /\ <<m, fails>> \in errors
        /\ \/ /\ UNCHANGED task
              /\ mem'.up = mem.up
              /\ stray' = stray
              /\ page' = page
              /\ rec' = rec
              /\ errors' = errors
           \/ /\ mem.starting.m # m
              /\ UNCHANGED task
              /\ mem'.up = mem.up
              /\ stray' = stray
              /\ StopPage
              /\ rec' = rec
              /\ errors' = errors
           \/ /\ mem.starting.m # m /\ PageQuiet
              /\ UNCHANGED task
              /\ mem'.up = mem.up
              /\ stray' = stray
              /\ page' = Gone
              /\ (IF fails THEN Update(m, "error") ELSE rec' = rec)
              /\ errors' = errors \ {<<m, fails>>}
    BY <1>16, ErrorMoves, Updating DEF Holds
  <2> SUFFICES ASSUME page'.state = "capturing", mem'.up, page'.m \notin stray'
               PROVE  rec'[page'.m] = "recording" \/ (\E d \in Calls : task'[d].m = page'.m) \/ \E e \in errors' : e[1] = page'.m
    BY DEF Stoppable, Minded
  <2>2. CASE /\ UNCHANGED task
               /\ mem'.up = mem.up
               /\ stray' = stray
               /\ page' = page
               /\ rec' = rec
               /\ errors' = errors
    BY <1>16, <2>1, <2>2 DEF Stoppable, Minded, StopPage, PageQuiet, Gone, Update, RecordsTyped, Paged, Held
  <2>3. CASE /\ mem.starting.m # m
               /\ UNCHANGED task
               /\ mem'.up = mem.up
               /\ stray' = stray
               /\ StopPage
               /\ rec' = rec
               /\ errors' = errors
    BY <1>16, <2>1, <2>3 DEF Stoppable, Minded, StopPage, PageQuiet, Gone, Update, RecordsTyped, Paged, Held
  <2>4. CASE /\ mem.starting.m # m /\ PageQuiet
               /\ UNCHANGED task
               /\ mem'.up = mem.up
               /\ stray' = stray
               /\ page' = Gone
               /\ (IF fails THEN Update(m, "error") ELSE rec' = rec)
               /\ errors' = errors \ {<<m, fails>>}
    BY <1>16, <2>1, <2>4 DEF Stoppable, Minded, StopPage, PageQuiet, Gone, Update, RecordsTyped, Paged, Held
  <2> QED BY <2>1, <2>2, <2>3, <2>4
<1>17. ASSUME NEW c \in Chunks, ReceiveChunk(c) PROVE Stoppable'
  <2>1. /\ mem.up /\ chunk[c].state = "sent"
        /\ \/ /\ chunk[c].m \in mem.captures
              /\ UNCHANGED task
              /\ mem'.up = mem.up
              /\ stray' = stray
              /\ page' = page
              /\ rec' = rec
              /\ errors' = errors
           \/ /\ mem.active = chunk[c].m
              /\ UNCHANGED task
              /\ mem'.up = mem.up
              /\ stray' = stray
              /\ page' = page
              /\ rec' = rec
              /\ errors' = errors
           \/ /\ chunk[c].m \notin mem.captures
              /\ UNCHANGED task
              /\ mem'.up = mem.up
              /\ stray' = stray
              /\ page' = page
              /\ rec' = rec
              /\ errors' = errors
    BY <1>17, ReceiveMoves DEF Holds
  <2> QED BY <1>17, <2>1 DEF Stoppable, Minded
<1>18. ASSUME NEW c \in Chunks, LoseChunk(c) PROVE Stoppable'
  BY <1>18 DEF Stoppable, Minded, LoseChunk, Move, durable
<1>19. ASSUME WriteChunk PROVE Stoppable'
  BY <1>19, WriteMoves, ChainHead DEF Stoppable, Minded, WriteChunk
<1>20. ASSUME WriteFails PROVE Stoppable'
  <2>1. /\ mem.up /\ chain # <<>> /\ Head(chain) \in Chunks /\ chunk[Head(chain)].m \in Meetings
        /\ chunk[Head(chain)].state \in {"queued", "lost"}
        /\ UNCHANGED task
        /\ mem'.up = mem.up
        /\ stray' = stray
        /\ page' = page
        /\ Update(chunk[Head(chain)].m, "error")
        /\ errors' = errors \cup {<<chunk[Head(chain)].m, FALSE>>}
    BY <1>20, RefuseMoves, ChainHead, Updating DEF WriteFails, StopAfterRefusal
  <2> SUFFICES ASSUME page'.state = "capturing", mem'.up, page'.m \notin stray'
               PROVE  rec'[page'.m] = "recording" \/ (\E d \in Calls : task'[d].m = page'.m) \/ \E e \in errors' : e[1] = page'.m
    BY DEF Stoppable, Minded
  <2>2. \E e \in errors' : e[1] = chunk[Head(chain)].m
    BY <2>1, ErrorOf
  <2>3. page.m # chunk[Head(chain)].m => rec'[page.m] = rec[page.m]
    BY <2>1 DEF Update, RecordsTyped
  <2> QED BY <2>1, <2>2, <2>3 DEF Stoppable, Minded
<1>21. ASSUME PageStopped PROVE Stoppable'
  BY <1>21 DEF Stoppable, Minded, PageStopped, durable
<1>22. ASSUME SettleLostCaptures PROVE Stoppable'
  BY <1>22, SettleMoves DEF Stoppable, Minded, Holds, SettleLostCaptures, LostCaptures
<1>23. ASSUME PageCrashes PROVE Stoppable'
  BY <1>23 DEF Stoppable, Minded, PageCrashes, Gone, durable
<1>24. ASSUME KillWorker PROVE Stoppable'
  BY <1>24, KillMoves, AsleepTyped DEF Stoppable, Minded, Asleep, NotStarting, KillWorker
<1>25. ASSUME WakeWorker PROVE Stoppable'
  BY <1>25, WakeMoves DEF Stoppable, Minded, OrphanSaved, RecordsTyped, Current, Paged, Held, Newest,
     Restored
<1>26. ASSUME NEW c \in Chunks, EmitChunk(c) \/ ChunkAnswered(c) \/ ResendChunk(c)
      PROVE  Stoppable'
  BY <1>26 DEF Stoppable, Minded, EmitChunk, ChunkAnswered, ResendChunk, durable
<1>27. CASE UNCHANGED vars
  BY <1>27 DEF vars, durable, Stoppable, Minded
<1> QED BY <1>1, <1>2, <1>3, <1>4, <1>5, <1>6, <1>7, <1>8, <1>9, <1>10, <1>11, <1>12, <1>13, <1>14, <1>15,
         <1>16, <1>17, <1>18, <1>19, <1>20, <1>21, <1>22, <1>23, <1>24, <1>25, <1>26, <1>27 DEF Next,
         StartStep, StopStep, PageStep


-----------------------------------------------------------------------------
(* The theorems.                                                            *)

LEMMA InvInit == Init => Inv
<1> SUFFICES ASSUME Init PROVE Inv
  OBVIOUS
<1>. USE RecorderAssumption, AsleepTyped DEF Init
<1>1. /\ mem \in MemoryState /\ mem.up /\ mem.active = None /\ mem.creating = None /\ mem.captures = {}
      /\ mem.starting.m = None /\ mem.seq = Asleep.seq
  BY DEF MemoryState
<1>2. /\ task \in [Calls -> CallState]
      /\ \A c \in Calls : task[c].pc = "new" /\ task[c].m = None
  BY DEF Idle, CallState, Pcs, Id
<1>3. page \in PageState /\ page.state = "gone" /\ page.m = None
  BY DEF Gone, PageState, Id
<1>4. /\ chunk \in [Chunks -> ChunkState]
      /\ \A c \in Chunks : chunk[c].state = "unborn" /\ chunk[c].m = None
  BY DEF ChunkState, Id
<1>5. TypeOK
  <2>1. MemoryTyped /\ CallsTyped /\ PageTyped /\ ChunksTyped
    BY <1>1, <1>2, <1>3, <1>4 DEF MemoryTyped, CallsTyped, PageTyped, ChunksTyped
  <2>2. RecordsTyped /\ StoreTyped /\ RestTyped
    BY DEF RecordsTyped, StoreTyped, RestTyped, Status
  <2> QED BY <2>1, <2>2, TypesApart
<1>6. Sleep
  BY <1>1, <1>2 DEF Sleep
<1>7. Creating
  BY <1>1, <1>2 DEF Creating, Slot, Makers, OneMaker, Unmade, Made
<1>8. Known
  BY <1>1, <1>3, <1>4 DEF Known, KnownCaptures, KnownStart, KnownPage, KnownChunks, KnownErrors, KnownStore
<1>9. Attempting
  BY <1>2 DEF Attempting, Starters, Capturers, OneAttempt, Attempt
<1>10. Closing
  BY <1>1, <1>2 DEF Closing, Prepared, GivenUp, GivingUp, Refused, Erased
<1>11. Active
  BY <1>1 DEF Active, Current, Newest
<1>12. Paged
  BY <1>3 DEF Paged, Held
<1>13. Audio
  BY <1>4 DEF Audio, Born, Awaited, Pending, Chained, Answered
<1>14. Numbered
  BY <1>1 DEF Numbered
<1>15. Watched
  BY <1>2, <1>3 DEF Watched, EndedStarts, EndedErrors, Looked, Stoppable, Calls
<1> QED BY <1>5, <1>6, <1>7, <1>8, <1>9, <1>10, <1>11, <1>12, <1>13, <1>14, <1>15 DEF Inv

LEMMA InvNext == Inv /\ [Next]_vars => Inv'
<1> SUFFICES ASSUME Inv, [Next]_vars PROVE Inv'
  OBVIOUS
<1>1. TypeOK'
  BY TypeStep
<1>2. RecordKept
  BY <1>1, RecordsStay
<1>3. Sleep' /\ Numbered' /\ Paged'
  BY <1>1, <1>2, SleepStep, NumberedStep, PagedStep
<1>4. Creating'
  BY <1>1, <1>2, SlotStep, MakersStep, OneMakerStep, UnmadeStep, MadeStep DEF Creating
<1>5. Known'
  BY <1>1, <1>2, KnownCapturesStep, KnownStartStep, KnownPageStep, KnownChunksStep, KnownErrorsStep,
     KnownStoreStep DEF Known
<1>6. Attempting'
  BY <1>1, <1>2, StartersStep, CapturersStep, OneAttemptStep DEF Attempting
<1>7. Closing'
  BY <1>1, <1>2, PreparedStep, GivenUpStep, RefusedStep, ErasedStep DEF Closing
<1>8. Active'
  BY <1>1, <1>2, CurrentStep, NewestStep DEF Active
<1>9. Audio'
  BY <1>1, <1>2, BornStep, AwaitedStep, ChainedStep, AnsweredStep DEF Audio
<1>10. Watched'
  BY <1>1, <1>2, EndedStartsStep, EndedErrorsStep, LookedStep, StoppableStep DEF Watched
<1> QED BY <1>1, <1>3, <1>4, <1>5, <1>6, <1>7, <1>8, <1>9, <1>10 DEF Inv

LEMMA Invariance == Spec => []Inv
BY InvInit, InvNext, PTL DEF Spec

\* Audio that the worker acknowledged is stored, and the chunks of a meeting are
\* numbered apart, through every order of starts, stops, kills and crashes
\* (offscreen.ts: "Provider audio leaves the extension only after the worker
\* acknowledges its local durable write").
THEOREM AcknowledgedAudioIsStored == Spec => []AckedAudioStored
<1>1. Inv => AckedAudioStored
  BY DEF Inv, Audio, Answered, Numbered, AckedAudioStored
<1> QED BY <1>1, Invariance, PTL

\* At most one meeting is being recorded, and the page captures into none that
\* nobody will stop (backgroundController.ts, startRecording; session.ts,
\* startMeetRecording).
THEOREM CallsAreRecordedOnce == Spec => []OneCapture
<1>1. ASSUME Inv PROVE OneCapture
  <2>1. {m \in Meetings : rec[m] = "recording"} \subseteq {Latest}
    BY <1>1 DEF Inv, Active, Newest
  <2>2. IsFiniteSet({Latest}) /\ Cardinality({Latest}) = 1
    BY FS_Singleton
  <2>3. Cardinality({m \in Meetings : rec[m] = "recording"}) <= 1
    BY <2>1, <2>2, FS_Subset
  <2> QED BY <1>1, <2>3 DEF Inv, Watched, Stoppable, Minded, OneCapture
<1> QED BY <1>1, Invariance, PTL

\* A meeting whose page is gone does not read "recording" with nobody to finish
\* it (meetCapture.ts, releaseLostCaptures).
THEOREM LostPagesAreSettled == Spec => []LostPageIsSettled
<1>1. Inv => LostPageIsSettled
  BY DEF Inv, Watched, Looked, Minded, LostPageIsSettled
<1> QED BY <1>1, Invariance, PTL
=============================================================================
