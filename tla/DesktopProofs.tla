---------------------------- MODULE DesktopProofs ----------------------------
(****************************************************************************)
(* Proofs about the desktop app and the browser's link to it.               *)
(*   MeetingOwners: no job is dropped, for any number of jobs, of requests  *)
(*     at the same time and of pipelines.                                   *)
(*   HelperLink: one port, kept alive and paired, and settings that arrive, *)
(*     for any number of ports, tokens, changes and pages.                  *)
(* The two modules share no variable: each has a specification of its own.  *)
(****************************************************************************)
EXTENDS MeetingOwners, HelperLink, FiniteSetTheorems, TLAPS

\* Every entry of the maps is one of the pipelines that were built; a pipeline that
\* nobody built has no worker; a task has a pipeline from the moment it built it
\* until it mapped it or let it go.
Entry(e) == e = {} \/ \E p \in 1..built : e = {p}
Has(pc) == pc \in {"capture", "insert", "recover", "register"}
Entries ==
  /\ built \in 0..MaxPipelines
  /\ Entry(active) /\ Entry(pipelines) /\ Entry(retryTasks) /\ Entry(draining)
  /\ worker \in [Pipelines -> {"none", "running", "gone"}]
  /\ \A p \in Pipelines : worker[p] # "none" => p <= built
  /\ task \in [Tasks -> [kind : Requests, pc : Steps, own : SUBSET Pipelines]]
  /\ \A t \in Tasks : IF Has(task[t].pc) THEN \E p \in 1..built : task[t].own = {p} ELSE task[t].own = {}

\* The rest of the types.
Flags ==
  /\ state \in {"none", "recording", "stopped"}
  /\ recovering \in BOOLEAN /\ configured \in BOOLEAN /\ offered \in BOOLEAN
  /\ owed \in BOOLEAN /\ stopping \in BOOLEAN
Values ==
  /\ file \subseteq issued /\ parked \subseteq issued /\ issued \subseteq Jobs /\ over \subseteq issued
  /\ mem \in [Pipelines -> SUBSET issued]
  /\ quits \in [Pipelines -> BOOLEAN]
  /\ busy \in [Pipelines -> SUBSET issued]

\* Before the first start there is nothing to do. From then to the end of the capture
\* its pipeline is the only one, and the file is its queue.
Waiting == state = "none" => built = 0 /\ issued = {} /\ ~owed /\ ~offered /\ ~stopping
                             /\ \A t \in Tasks : task[t].pc \in {"idle", "sweep"} /\ task[t].kind = "settings"
Capturing ==
  active # {} \/ Starting =>
    /\ built = 1 /\ pipelines = {1} /\ retryTasks = {1} /\ draining = {} /\ ~stopping
    /\ state = "recording" /\ ~offered
    /\ file = mem[1] /\ worker[1] = "running" /\ ~quits[1] /\ busy[1] = {}
    /\ Starting => active = {} /\ mem[1] = {}
    /\ \A t \in Tasks : task[t].pc \in {"idle", "sweep", "launch", "capture"}
    /\ \A t \in Tasks : Running(t, "sweep") => task[t].kind # "finish"
    /\ \A t, u \in Tasks : Running(t, "capture") /\ Running(u, "capture") => t = u

\* The worker of a capture that is being stopped outlives the stop.
Draining == draining # {} => stopping /\ \A p \in draining : worker[p] = "running"

\* A job that is not over is parked, or in the memory of somebody who will write the
\* file; in the file alone it is safe only while nobody is there to replace it.
Held ==
  \A j \in issued \ over : \/ j \in parked
                           \/ \E p \in Live : j \in mem[p]
                           \/ Live = {} /\ j \in file

Inv == Entries /\ Values /\ Flags /\ Waiting /\ Capturing /\ Draining /\ Held

-----------------------------------------------------------------------------
(* Steps of tasks *)

ATask == [kind : Requests, pc : Steps, own : SUBSET Pipelines]

\* Task t is at pc with its pipeline own; the others stay where they are.
Moves(t, pc, own) ==
  /\ task' \in [Tasks -> ATask]
  /\ task'[t].pc = pc /\ task'[t].own = own
  /\ \A u \in Tasks \ {t} : task'[u] = task[u]

\* The ways in which the actions write the task.
LEMMA TaskWrites ==
  ASSUME Entries, NEW t \in Tasks, NEW pc \in Steps
  PROVE  /\ Goto(t, pc) => Moves(t, pc, task[t].own)
         /\ \A k \in Requests, own \in SUBSET Pipelines : Start(t, k, pc, own) => Moves(t, pc, own)
         /\ \A own \in SUBSET Pipelines : task' = [task EXCEPT ![t].own = own, ![t].pc = pc] => Moves(t, pc, own)
<1>1. task \in [Tasks -> ATask] /\ task[t] \in ATask
  BY DEF Entries, ATask
<1>2. ASSUME NEW r \in ATask, task' = [task EXCEPT ![t] = r]
      PROVE  Moves(t, r.pc, r.own)
  BY <1>1, <1>2 DEF Moves
<1>3. ASSUME Goto(t, pc)
      PROVE  Moves(t, pc, task[t].own)
  <2> DEFINE r == [task[t] EXCEPT !.pc = pc]
  <2>1. r \in ATask /\ r.pc = pc /\ r.own = task[t].own
    BY <1>1 DEF ATask
  <2>2. task' = [task EXCEPT ![t] = r]
    BY <1>3 DEF Goto
  <2> HIDE DEF r
  <2>. QED
    BY <1>2, <2>1, <2>2
<1>4. ASSUME NEW k \in Requests, NEW own \in SUBSET Pipelines, Start(t, k, pc, own)
      PROVE  Moves(t, pc, own)
  <2> DEFINE r == [kind |-> k, pc |-> pc, own |-> own]
  <2>1. r \in ATask /\ r.pc = pc /\ r.own = own
    BY <1>4 DEF ATask
  <2>2. task' = [task EXCEPT ![t] = r]
    BY <1>4 DEF Start
  <2> HIDE DEF r
  <2>. QED
    BY <1>2, <2>1, <2>2
<1>5. ASSUME NEW own \in SUBSET Pipelines, task' = [task EXCEPT ![t].own = own, ![t].pc = pc]
      PROVE  Moves(t, pc, own)
  <2> DEFINE r == [task[t] EXCEPT !.own = own, !.pc = pc]
  <2>1. r \in ATask /\ r.pc = pc /\ r.own = own
    BY <1>1, <1>5 DEF ATask
  <2>2. task' = [task EXCEPT ![t] = r]
    BY <1>5
  <2> HIDE DEF r
  <2>. QED
    BY <1>2, <2>1, <2>2
<1>. QED
  BY <1>3, <1>4, <1>5

\* A request that begins, goes on or ends without a pipeline.
QuietTask(t) ==
  \/ Settings(t) \/ FinishNotes(t) \/ RetryNotes(t) \/ Prepare(t) \/ Launch(t) \/ ResumeRequest(t)
  \/ (Sweep(t) /\ UNCHANGED built)

\* Such a request has no pipeline, before and after.
LEMMA QuietTaskMoves ==
  ASSUME Entries, NEW t \in Tasks, QuietTask(t)
  PROVE  /\ \E pc \in {"idle", "sweep", "launch", "prepare", "resume"} : Moves(t, pc, {})
         /\ task[t].own = {} /\ task[t].pc \in {"idle", "sweep", "launch", "prepare"}
<1>1. task[t].pc \in {"idle", "sweep", "launch", "prepare"}
  BY DEF QuietTask, Settings, FinishNotes, RetryNotes, Prepare, Launch, ResumeRequest, Sweep, Running
<1>2. task[t].own = {}
  BY <1>1 DEF Entries, Has
<1>3. {} \in SUBSET Pipelines /\ {"idle", "sweep", "launch", "prepare", "resume"} \subseteq Steps
        /\ {"settings", "finish", "resume"} \subseteq Requests
  BY DEF Steps, Requests
<1>4. CASE Settings(t) \/ FinishNotes(t) \/ RetryNotes(t) \/ ResumeRequest(t)
  <2>1. \E k \in {"settings", "finish", "resume"}, pc \in {"sweep", "launch", "prepare", "resume"} : Start(t, k, pc, {})
    BY <1>4 DEF Settings, FinishNotes, RetryNotes, ResumeRequest
  <2>. QED
    BY <1>2, <1>1, <1>3, <2>1, TaskWrites
<1>5. CASE Prepare(t) \/ Launch(t) \/ (Sweep(t) /\ UNCHANGED built)
  <2>1. \E pc \in {"idle", "sweep", "launch", "resume"} :
           Goto(t, pc) \/ task' = [task EXCEPT ![t].own = {}, ![t].pc = pc]
    <3>1. CASE Prepare(t)
      BY <3>1 DEF Prepare
    <3>2. CASE Launch(t)
      BY <3>2 DEF Launch, Finish
    <3>3. CASE Sweep(t) /\ UNCHANGED built
      <4>0. built + 1 # built
        BY MaxPipelinesAssumption DEF Entries
      <4>1. Goto(t, AfterSweep(t))
        BY <3>3, <4>0 DEF Sweep, Build
      <4>. QED
        BY <4>1 DEF AfterSweep
    <3>. QED
      BY <1>5, <3>1, <3>2, <3>3
  <2>. QED
    BY <1>1, <1>2, <1>3, <2>1, TaskWrites
<1>. QED
  BY <1>4, <1>5 DEF QuietTask

\* A request that builds a pipeline.
Builds(t, p, pc) ==
  /\ p = built + 1 /\ built' = p /\ p \in Pipelines /\ Moves(t, pc, {p})
  /\ mem' = [mem EXCEPT ![p] = mem'[p]]

\* The new pipeline has the next number, and the queue that its builder read.
LEMMA BuildMoves ==
  ASSUME Entries, Values, NEW t \in Tasks
  PROVE  /\ StartRecording(t) => \E p \in Pipelines : Builds(t, p, "capture") /\ mem'[p] = file /\ Install(p, FALSE)
         /\ Sweep(t) /\ ~UNCHANGED built => \E p \in Pipelines : Builds(t, p, "insert") /\ mem'[p] = file
         /\ Resume(t) => \E p \in Pipelines : Builds(t, p, "recover") /\ mem'[p] = file \cup parked
<1>1. {"capture", "insert", "recover"} \subseteq Steps /\ "start" \in Requests
  BY DEF Steps, Requests
<1>2. ASSUME NEW p \in Pipelines, NEW jobs, Build(p, jobs)
      PROVE  p = built + 1 /\ built' = p /\ mem'[p] = jobs /\ mem' = [mem EXCEPT ![p] = mem'[p]]
  BY <1>2 DEF Build, Values
<1>3. ASSUME StartRecording(t)
      PROVE  \E p \in Pipelines : Builds(t, p, "capture") /\ mem'[p] = file /\ Install(p, FALSE)
  <2>1. PICK p \in Pipelines : Build(p, file) /\ Install(p, FALSE) /\ Start(t, "start", "capture", {p})
    BY <1>3 DEF StartRecording
  <2>2. Moves(t, "capture", {p})
    BY <1>1, <2>1, TaskWrites
  <2>. QED
    BY <1>2, <2>1, <2>2 DEF Builds
<1>4. ASSUME Sweep(t), ~UNCHANGED built
      PROVE  \E p \in Pipelines : Builds(t, p, "insert") /\ mem'[p] = file
  <2>1. PICK p \in Pipelines : Build(p, file) /\ task' = [task EXCEPT ![t].own = {p}, ![t].pc = "insert"]
    BY <1>4 DEF Sweep
  <2>2. Moves(t, "insert", {p})
    BY <1>1, <2>1, TaskWrites
  <2>. QED
    BY <1>2, <2>1, <2>2 DEF Builds
<1>5. ASSUME Resume(t)
      PROVE  \E p \in Pipelines : Builds(t, p, "recover") /\ mem'[p] = file \cup parked
  <2>1. PICK p \in Pipelines : Build(p, file \cup parked) /\ task' = [task EXCEPT ![t].own = {p}, ![t].pc = "recover"]
    BY <1>5 DEF Resume
  <2>2. Moves(t, "recover", {p})
    BY <1>1, <2>1, TaskWrites
  <2>. QED
    BY <1>2, <2>1, <2>2 DEF Builds
<1>. QED
  BY <1>3, <1>4, <1>5

\* A request that has a pipeline and goes on, or lets it go.
LEMMA OwnerMoves ==
  ASSUME Entries, NEW t \in Tasks
  PROVE  /\ StartCapture(t) => Moves(t, "idle", {}) /\ Running(t, "capture")
         /\ Insert(t) => (\E pc \in {"resume", "idle"} : Moves(t, pc, {})) /\ Running(t, "insert")
         /\ RecoverDone(t) => Moves(t, "register", task[t].own) /\ Running(t, "recover")
         /\ Register(t) => Moves(t, "idle", {}) /\ Running(t, "register")
<1>1. {"idle", "resume", "register"} \subseteq Steps /\ "start" \in Requests /\ {} \in SUBSET Pipelines
  BY DEF Steps, Requests
<1>2. StartCapture(t) => Moves(t, "idle", {}) /\ Running(t, "capture")
  BY <1>1, TaskWrites DEF StartCapture
<1>3. Insert(t) => (\E pc \in {"resume", "idle"} : Moves(t, pc, {})) /\ Running(t, "insert")
  <2> SUFFICES ASSUME Insert(t) PROVE (\E pc \in {"resume", "idle"} : Moves(t, pc, {})) /\ Running(t, "insert")
    OBVIOUS
  <2>1. AfterSweep(t) \in {"resume", "idle"} /\ task' = [task EXCEPT ![t].own = {}, ![t].pc = AfterSweep(t)]
    BY DEF Insert, AfterSweep
  <2>2. Moves(t, AfterSweep(t), {})
    BY <1>1, <2>1, TaskWrites
  <2>. QED
    BY <2>1, <2>2 DEF Insert
<1>4. RecoverDone(t) => Moves(t, "register", task[t].own) /\ Running(t, "recover")
  BY <1>1, TaskWrites DEF RecoverDone
<1>5. Register(t) => Moves(t, "idle", {}) /\ Running(t, "register")
  BY <1>1, TaskWrites DEF Register, Finish
<1>. QED
  BY <1>2, <1>3, <1>4, <1>5

-----------------------------------------------------------------------------
(* Who is mapped, and who has which pipeline *)

\* Every step keeps the map entries, the workers and the pipelines of tasks in order.
LEMMA EntriesStep ==
  ASSUME Entries, Values, Capturing, [Next]_vars
  PROVE  Entries'
<1>1. MaxPipelines \in Nat /\ built \in 0..MaxPipelines /\ Pipelines = 1..MaxPipelines
  BY MaxPipelinesAssumption DEF Entries, Pipelines
<1>2. task \in [Tasks -> ATask] /\ worker \in [Pipelines -> {"none", "running", "gone"}]
  BY DEF Entries, ATask
<1> DEFINE Up(e) == e = {} \/ \E p \in 1..built' : e = {p}
           Owned(t) == IF Has(task'[t].pc) THEN \E p \in 1..built' : task'[t].own = {p} ELSE task'[t].own = {}
\* What is built is not unbuilt.
<1>3. ASSUME built' \in 0..MaxPipelines, built' >= built
      PROVE  /\ \A e : Entry(e) => Up(e)
             /\ \A t \in Tasks : task'[t] = task[t] => Owned(t)
  BY <1>1, <1>3 DEF Entry, Entries
<1>4. ASSUME built' \in 0..MaxPipelines, Up(active'), Up(pipelines'), Up(retryTasks'), Up(draining'),
             worker' \in [Pipelines -> {"none", "running", "gone"}],
             \A p \in Pipelines : worker'[p] # "none" => p <= built',
             task' \in [Tasks -> ATask], \A t \in Tasks : Owned(t)
      PROVE  Entries'
  BY <1>4 DEF Entries, Entry, ATask
\* The maps and the workers as they are.
<1>5. ASSUME UNCHANGED <<active, pipelines, retryTasks, draining, worker>>, built' \in 0..MaxPipelines, built' >= built,
             task' \in [Tasks -> ATask], \A t \in Tasks : Owned(t)
      PROVE  Entries'
  <2>1. Up(active') /\ Up(pipelines') /\ Up(retryTasks') /\ Up(draining')
    BY <1>3, <1>5 DEF Entries
  <2>2. \A p \in Pipelines : worker'[p] # "none" => p <= built'
    BY <1>1, <1>5 DEF Entries
  <2> HIDE DEF Up, Owned
  <2>. QED
    BY <1>2, <1>4, <1>5, <2>1, <2>2
<1>6. ASSUME UNCHANGED <<active, pipelines, retryTasks, draining, worker, built, task>>
      PROVE  Entries'
  <2>1. built' \in 0..MaxPipelines /\ built' >= built /\ task' \in [Tasks -> ATask] /\ \A t \in Tasks : Owned(t)
    BY <1>1, <1>2, <1>3, <1>6
  <2> HIDE DEF Up, Owned
  <2>. QED
    BY <1>5, <1>6, <2>1
\* Task t moves.
<1>7. ASSUME NEW t \in Tasks, NEW pc, NEW own, Moves(t, pc, own), built' \in 0..MaxPipelines, built' >= built,
             IF Has(pc) THEN \E p \in 1..built' : own = {p} ELSE own = {}
      PROVE  task' \in [Tasks -> ATask] /\ \A u \in Tasks : Owned(u)
  BY <1>3, <1>7 DEF Moves
\* A pipeline is installed, or those of the map are aborted.
<1>8. ASSUME NEW p \in 1..built', NEW q, Install(p, q), UNCHANGED <<active, draining>>, built' \in 0..MaxPipelines, built' >= built,
             task' \in [Tasks -> ATask], \A t \in Tasks : Owned(t)
      PROVE  Entries'
  <2>1. Up(active') /\ Up(pipelines') /\ Up(retryTasks') /\ Up(draining')
    BY <1>3, <1>8 DEF Entries, Install
  <2>2. worker' \in [Pipelines -> {"none", "running", "gone"}] /\ \A k \in Pipelines : worker'[k] # "none" => k <= built'
    BY <1>1, <1>2, <1>8 DEF Install, Entries
  <2> HIDE DEF Up, Owned
  <2>. QED
    BY <1>4, <1>8, <2>1, <2>2
<1>9. ASSUME AbortAndRemove, active' = {}, UNCHANGED <<draining, built>>, task' \in [Tasks -> ATask], \A t \in Tasks : Owned(t)
      PROVE  Entries'
  <2>1. Up(active') /\ Up(pipelines') /\ Up(retryTasks') /\ Up(draining') /\ built' \in 0..MaxPipelines
    BY <1>1, <1>3, <1>9 DEF Entries, AbortAndRemove
  <2>2. \A p \in retryTasks : p <= built
    BY <1>1 DEF Entries, Entry
  <2>3. worker' \in [Pipelines -> {"none", "running", "gone"}] /\ \A k \in Pipelines : worker'[k] # "none" => k <= built'
    BY <1>1, <1>2, <1>9, <2>2 DEF AbortAndRemove, Entries
  <2> HIDE DEF Up, Owned
  <2>. QED
    BY <1>4, <1>9, <2>1, <2>3
<1>10. ASSUME NEW t \in Tasks, TaskStep(t)
       PROVE  Entries'
  <2>1. CASE QuietTask(t)
    <3>1. PICK pc \in {"idle", "sweep", "launch", "prepare", "resume"} : Moves(t, pc, {})
      BY <2>1, QuietTaskMoves
    <3>2. UNCHANGED <<active, pipelines, retryTasks, draining, worker, built>>
      BY <2>1 DEF QuietTask, Settings, FinishNotes, RetryNotes, Prepare, Launch, Finish, ResumeRequest, Sweep, maps, stops, workers
    <3>3. built' \in 0..MaxPipelines /\ built' >= built /\ ~Has(pc)
      BY <1>1, <3>2 DEF Has
    <3>4. task' \in [Tasks -> ATask] /\ \A u \in Tasks : Owned(u)
      BY <1>7, <3>1, <3>3
    <3> HIDE DEF Up, Owned
    <3>. QED
      BY <1>5, <3>2, <3>3, <3>4
  <2>2. ASSUME NEW p \in Pipelines, NEW pc, Builds(t, p, pc), Has(pc)
        PROVE  /\ built' \in 0..MaxPipelines /\ built' >= built /\ p \in 1..built'
               /\ task' \in [Tasks -> ATask] /\ \A u \in Tasks : Owned(u)
    <3>1. built' \in 0..MaxPipelines /\ built' >= built /\ p \in 1..built' /\ Moves(t, pc, {p})
      BY <1>1, <2>2 DEF Builds
    <3>. QED
      BY <1>7, <2>2, <3>1
  <2>3. CASE StartRecording(t)
    <3>1. PICK p \in Pipelines : Builds(t, p, "capture") /\ Install(p, FALSE)
      BY <2>3, BuildMoves
    <3>2. UNCHANGED <<active, draining>> /\ Has("capture")
      BY <2>3 DEF StartRecording, stops, Has
    <3> HIDE DEF Up, Owned
    <3>. QED
      BY <1>8, <2>2, <3>1, <3>2
  <2>4. CASE (Sweep(t) /\ ~UNCHANGED built) \/ Resume(t)
    <3>1. PICK p \in Pipelines, pc \in {"insert", "recover"} : Builds(t, p, pc)
      BY <2>4, BuildMoves
    <3>2. UNCHANGED <<active, pipelines, retryTasks, draining, worker>> /\ Has(pc)
      BY <2>4 DEF Sweep, Resume, maps, stops, workers, Has
    <3> HIDE DEF Up, Owned
    <3>. QED
      BY <1>5, <2>2, <3>1, <3>2
  <2>5. CASE StartCapture(t)
    <3>1. Moves(t, "idle", {}) /\ Running(t, "capture") /\ UNCHANGED <<built, draining>>
      BY <2>5, OwnerMoves DEF StartCapture, stops
    <3>2. built' \in 0..MaxPipelines /\ built' >= built /\ ~Has("idle")
      BY <1>1, <3>1 DEF Has
    <3>3. task' \in [Tasks -> ATask] /\ \A u \in Tasks : Owned(u)
      BY <1>7, <3>1, <3>2
    <3>4. Entry(task[t].own) /\ active = {}
      BY <3>1 DEF Entries, Has, Running, Entry, Capturing, Starting
    <3>5. CASE active' = task[t].own /\ UNCHANGED <<pipelines, retryTasks, worker>>
      <4>1. Up(active') /\ Up(pipelines') /\ Up(retryTasks') /\ Up(draining')
        BY <1>3, <3>1, <3>2, <3>4, <3>5 DEF Entries
      <4>2. \A k \in Pipelines : worker'[k] # "none" => k <= built'
        BY <3>1, <3>5 DEF Entries
      <4> HIDE DEF Up, Owned
      <4>. QED
        BY <1>2, <1>4, <3>2, <3>3, <3>5, <4>1, <4>2
    <3>6. CASE active' = active /\ AbortAndRemove
      <4> HIDE DEF Up, Owned
      <4>. QED
        BY <1>9, <3>1, <3>3, <3>4, <3>6
    <3>. QED
      BY <2>5, <3>5, <3>6 DEF StartCapture, workers
  <2>6. CASE Insert(t) \/ Register(t)
    <3>1. PICK pc \in {"resume", "idle"} : Moves(t, pc, {})
      BY <2>6, OwnerMoves
    <3>a. ~Has(pc) /\ UNCHANGED <<active, draining, built>>
      BY <2>6, <3>1 DEF Has, Insert, Register, stops
    <3>2. built' \in 0..MaxPipelines /\ built' >= built /\ ~Has(pc) /\ UNCHANGED <<active, draining, built>>
      BY <1>1, <3>a
    <3>3. task' \in [Tasks -> ATask] /\ \A u \in Tasks : Owned(u)
      BY <1>7, <3>1, <3>2
    <3>4. task[t].own \subseteq 1..built
      BY <2>6 DEF Insert, Register, Running, Entries, Has
    <3>5. CASE \E p \in task[t].own : Install(p, TRUE)
      <4> HIDE DEF Up, Owned
      <4>. QED
        BY <1>8, <3>2, <3>3, <3>4, <3>5
    <3>6. CASE UNCHANGED <<pipelines, retryTasks, worker>>
      <4> HIDE DEF Up, Owned
      <4>. QED
        BY <1>5, <3>2, <3>3, <3>6
    <3>. QED
      BY <2>6, <3>5, <3>6 DEF Insert, Register, workers
  <2>7. CASE RecoverDone(t)
    <3>1. Moves(t, "register", task[t].own) /\ Running(t, "recover") /\ UNCHANGED <<active, pipelines, retryTasks, draining, worker, built>>
      BY <2>7, OwnerMoves DEF RecoverDone, maps, stops, workers
    <3>2. built' \in 0..MaxPipelines /\ built' >= built /\ Has("register") /\ \E p \in 1..built' : task[t].own = {p}
      BY <1>1, <3>1 DEF Has, Entries, Running
    <3>3. task' \in [Tasks -> ATask] /\ \A u \in Tasks : Owned(u)
      BY <1>7, <3>1, <3>2
    <3> HIDE DEF Up, Owned
    <3>. QED
      BY <1>5, <3>1, <3>2, <3>3
  <2>8. CASE RecoverRange(t)
    BY <1>6, <2>8 DEF RecoverRange, maps, stops, workers
  <2>. QED
    BY <1>10, <2>1, <2>3, <2>4, <2>5, <2>6, <2>7, <2>8 DEF TaskStep, QuietTask
<1>11. ASSUME NEW p \in Pipelines, PipelineStep(p)
       PROVE  Entries'
  <2>1. CASE EndWorker(p)
    <3>1. built' = built /\ task' = task /\ p <= built /\ UNCHANGED <<active, draining>>
      BY <2>1 DEF EndWorker, Ticks, Entries, stops
    <3>2. built' \in 0..MaxPipelines /\ built' >= built /\ task' \in [Tasks -> ATask] /\ \A t \in Tasks : Owned(t)
      BY <1>1, <1>2, <1>3, <3>1
    <3>3. Up(active') /\ Up(pipelines') /\ Up(retryTasks') /\ Up(draining')
      BY <1>3, <2>1, <3>1, <3>2 DEF EndWorker, Entries
    <3>4. worker' \in [Pipelines -> {"none", "running", "gone"}] /\ \A k \in Pipelines : worker'[k] # "none" => k <= built'
      BY <1>2, <2>1, <3>1 DEF EndWorker, Entries
    <3> HIDE DEF Up, Owned
    <3>. QED
      BY <1>4, <3>2, <3>3, <3>4
  <2>2. CASE BatchFails(p) \/ Pick(p) \/ Transcribe(p) \/ Fail(p) \/ Summarize(p)
    BY <1>6, <2>2 DEF BatchFails, Pick, Transcribe, Fail, Summarize, maps, stops, workers
  <2>. QED
    BY <1>11, <2>1, <2>2 DEF PipelineStep
<1>12. CASE ReleaseInterruptedCapture
  <2>1. built' = built /\ task' = task /\ AbortAndRemove /\ active' = {} /\ UNCHANGED <<draining, built>>
    BY <1>12 DEF ReleaseInterruptedCapture, stops
  <2>2. task' \in [Tasks -> ATask] /\ \A t \in Tasks : Owned(t)
    BY <1>1, <1>2, <1>3, <2>1
  <2> HIDE DEF Up, Owned
  <2>. QED
    BY <1>9, <2>1, <2>2
<1>13. CASE StopRecording \/ FinishStop
  <2>1. /\ UNCHANGED <<built, task, pipelines, retryTasks, worker>>
        /\ active' \in {{}, active} /\ draining' \in {{}, active}
    BY <1>13 DEF StopRecording, FinishStop, maps, workers
  <2>2. built' \in 0..MaxPipelines /\ built' >= built /\ task' \in [Tasks -> ATask] /\ \A t \in Tasks : Owned(t)
    BY <1>1, <1>2, <1>3, <2>1
  <2>3. Up(active') /\ Up(pipelines') /\ Up(retryTasks') /\ Up(draining')
    BY <1>3, <2>1, <2>2 DEF Entries
  <2>4. \A k \in Pipelines : worker'[k] # "none" => k <= built'
    BY <2>1 DEF Entries
  <2> HIDE DEF Up, Owned
  <2>. QED
    BY <1>2, <1>4, <2>1, <2>2, <2>3, <2>4
<1>14. CASE Hello \/ UNCHANGED vars
  BY <1>6, <1>14 DEF Hello, vars, maps, stops, workers
<1>. QED
  BY <1>10, <1>11, <1>12, <1>13, <1>14 DEF Next

-----------------------------------------------------------------------------
(* Types *)

\* Every step keeps the flags and the state of the meeting in their types.
LEMMA FlagsStep ==
  ASSUME Flags, [Next]_vars
  PROVE  Flags'
<1> USE DEF Flags
<1>1. ASSUME NEW t \in Tasks, TaskStep(t)
      PROVE  Flags'
  <2>1. CASE StartRecording(t) \/ StartCapture(t)
    BY <2>1 DEF StartRecording, StartCapture, stops, history
  <2>2. CASE Settings(t) \/ FinishNotes(t) \/ RetryNotes(t) \/ ResumeRequest(t)
    BY <2>2 DEF Settings, FinishNotes, RetryNotes, ResumeRequest, disk, maps, stops, history
  <2>3. CASE Prepare(t)
    BY <2>3 DEF Prepare, stops, history
  <2>4. CASE Launch(t)
    BY <2>4 DEF Launch, Finish, disk, stops, history
  <2>5. CASE Sweep(t) \/ Insert(t) \/ Resume(t)
    BY <2>5 DEF Sweep, Insert, Resume, disk, maps, stops, history
  <2>6. CASE RecoverRange(t) \/ RecoverDone(t)
    BY <2>6 DEF RecoverRange, RecoverDone, maps, stops, history
  <2>7. CASE Register(t)
    BY <2>7 DEF Register, Finish, disk, stops, history
  <2>. QED
    BY <1>1, <2>1, <2>2, <2>3, <2>4, <2>5, <2>6, <2>7 DEF TaskStep
<1>2. ASSUME NEW p \in Pipelines, PipelineStep(p)
      PROVE  Flags'
  BY <1>2 DEF PipelineStep, BatchFails, Pick, Transcribe, Fail, Summarize, EndWorker, disk, maps, stops, history
<1>3. CASE ReleaseInterruptedCapture \/ StopRecording \/ FinishStop \/ Hello \/ UNCHANGED vars
  BY <1>3 DEF ReleaseInterruptedCapture, StopRecording, FinishStop, Hello, vars, disk, maps, stops, history
<1>. QED
  BY <1>1, <1>2, <1>3 DEF Next

\* Every step keeps the queues and the jobs at work among the jobs that were issued.
LEMMA ValuesStep ==
  ASSUME Entries, Values, [Next]_vars
  PROVE  Values'
<1>1. ASSUME UNCHANGED <<file, parked, issued, over, mem, quits, busy>>
      PROVE  Values'
  BY <1>1 DEF Values
\* A pipeline that is built has the file, and after a recovery what was parked.
<1>2. ASSUME NEW p \in Pipelines, mem' = [mem EXCEPT ![p] = mem'[p]], mem'[p] \subseteq issued,
             file' \subseteq issued, parked' \subseteq issued, UNCHANGED <<issued, over, busy>>,
             quits' \in [Pipelines -> BOOLEAN]
      PROVE  Values'
  BY <1>2 DEF Values
\* A new job.
<1>3. ASSUME NEW p \in Pipelines, NEW j \in Jobs, mem' = [mem EXCEPT ![p] = mem[p] \cup {j}], file' = mem'[p],
             issued' = issued \cup {j}, UNCHANGED <<parked, over, quits, busy>>
      PROVE  Values'
  BY <1>3 DEF Values
\* A job leaves the queue.
<1>4. ASSUME NEW p \in Pipelines, mem' = [mem EXCEPT ![p] = mem[p] \ busy[p]], file' = mem'[p],
             busy' = [busy EXCEPT ![p] = {}], parked' \subseteq issued, over' \subseteq issued, UNCHANGED <<issued, quits>>
      PROVE  Values'
  BY <1>4 DEF Values
\* Workers come and go.
<1>5. ASSUME UNCHANGED <<file, parked, issued, over, mem>>, quits' \in [Pipelines -> BOOLEAN],
             busy' \in [Pipelines -> SUBSET issued]
      PROVE  Values'
  BY <1>5 DEF Values
<1>6. ASSUME NEW p, Install(p, TRUE) \/ Install(p, FALSE)
      PROVE  quits' \in [Pipelines -> BOOLEAN] /\ busy' = busy
  BY <1>6 DEF Values, Install
<1>7. ASSUME AbortAndRemove
      PROVE  quits' \in [Pipelines -> BOOLEAN] /\ busy' \in [Pipelines -> SUBSET issued]
  BY <1>7 DEF Values, AbortAndRemove
<1>8. ASSUME NEW t \in Tasks, TaskStep(t)
      PROVE  Values'
  <2>1. CASE QuietTask(t)
    <3>1. UNCHANGED <<file, parked, issued, over, quits, busy>>
      BY <2>1 DEF QuietTask, Settings, FinishNotes, RetryNotes, Prepare, Launch, ResumeRequest, Sweep, disk, workers, history
    <3>2. built + 1 # built
      BY MaxPipelinesAssumption DEF Entries
    <3>3. UNCHANGED mem
      BY <2>1, <3>2 DEF QuietTask, Settings, FinishNotes, RetryNotes, Prepare, Launch, ResumeRequest, Sweep, Build
    <3>. QED
      BY <1>1, <3>1, <3>3
  <2>2. CASE StartRecording(t)
    <3>1. PICK p \in Pipelines : Builds(t, p, "capture") /\ mem'[p] = file /\ Install(p, FALSE)
      BY <2>2, BuildMoves
    <3>2. UNCHANGED <<file, parked, issued, over>>
      BY <2>2 DEF StartRecording, history
    <3>3. file \subseteq issued /\ parked \subseteq issued
      BY DEF Values
    <3>. QED
      BY <1>2, <1>6, <3>1, <3>2, <3>3 DEF Builds
  <2>3. CASE (Sweep(t) /\ ~UNCHANGED built) \/ Resume(t)
    <3>1. PICK p \in Pipelines, pc \in {"insert", "recover"} : Builds(t, p, pc) /\ mem'[p] \subseteq file \cup parked
      BY <2>3, BuildMoves
    <3>2. UNCHANGED <<issued, over, busy, quits>> /\ file' \subseteq file \cup parked /\ parked' \subseteq parked
      BY <2>3 DEF Sweep, Resume, disk, workers, history
    <3>3. file \cup parked \subseteq issued /\ quits \in [Pipelines -> BOOLEAN]
      BY DEF Values
    <3>4. mem' = [mem EXCEPT ![p] = mem'[p]] /\ mem'[p] \subseteq issued /\ file' \subseteq issued /\ parked' \subseteq issued
            /\ quits' \in [Pipelines -> BOOLEAN]
      BY <3>1, <3>2, <3>3 DEF Builds
    <3>. QED
      BY <1>2, <3>2, <3>4
  <2>4. CASE StartCapture(t)
    <3>1. UNCHANGED <<file, parked, issued, over, mem>>
      BY <2>4 DEF StartCapture, history
    <3>2. UNCHANGED <<quits, busy>> \/ AbortAndRemove
      BY <2>4 DEF StartCapture, workers
    <3>. QED
      BY <1>1, <1>5, <1>7, <3>1, <3>2
  <2>5. CASE Insert(t) \/ Register(t)
    <3>1. UNCHANGED <<file, parked, issued, over, mem>>
      BY <2>5 DEF Insert, Register, disk, history
    <3>2. UNCHANGED <<quits, busy>> \/ \E p : Install(p, TRUE)
      BY <2>5 DEF Insert, Register, workers
    <3>3. busy \in [Pipelines -> SUBSET issued]
      BY DEF Values
    <3>. QED
      BY <1>1, <1>5, <1>6, <3>1, <3>2, <3>3
  <2>6. CASE RecoverRange(t)
    <3>1. PICK p \in task[t].own, j \in Jobs \ issued :
             mem' = [mem EXCEPT ![p] = mem[p] \cup {j}] /\ file' = mem'[p] /\ issued' = issued \cup {j}
      BY <2>6 DEF RecoverRange
    <3>2. p \in Pipelines /\ UNCHANGED <<parked, over, quits, busy>>
      BY <2>6, <3>1 DEF RecoverRange, Entries, workers
    <3>. QED
      BY <1>3, <3>1, <3>2
  <2>7. CASE RecoverDone(t)
    BY <1>1, <2>7 DEF RecoverDone, workers, history
  <2>. QED
    BY <1>8, <2>1, <2>2, <2>3, <2>4, <2>5, <2>6, <2>7 DEF TaskStep, QuietTask
<1>9. ASSUME NEW p \in Pipelines, PipelineStep(p)
      PROVE  Values'
  <2>1. CASE BatchFails(p)
    <3>1. PICK j \in Jobs \ issued :
             mem' = [mem EXCEPT ![p] = mem[p] \cup {j}] /\ file' = mem'[p] /\ issued' = issued \cup {j}
      BY <2>1 DEF BatchFails
    <3>2. UNCHANGED <<parked, over, quits, busy>>
      BY <2>1 DEF BatchFails, workers
    <3>. QED
      BY <1>3, <3>1, <3>2
  <2>2. CASE Pick(p)
    <3>1. busy' \in [Pipelines -> SUBSET issued] /\ quits' = quits
      BY <2>2 DEF Pick, Values
    <3>. QED
      BY <1>5, <2>2, <3>1 DEF Pick, Values, disk, history
  <2>3. CASE (Transcribe(p) \/ Fail(p)) /\ RemoveJob(p)
    <3>1. parked' \subseteq issued /\ over' \subseteq issued /\ UNCHANGED <<issued, quits>>
      BY <2>3 DEF Transcribe, Fail, Values, history
    <3>. QED
      BY <1>4, <2>3, <3>1 DEF RemoveJob
  <2>4. CASE Fail(p) /\ busy' = [busy EXCEPT ![p] = {}] /\ UNCHANGED <<file, parked, mem>>
    BY <2>4 DEF Fail, Values, history
  <2>5. CASE Summarize(p) \/ EndWorker(p)
    BY <1>1, <2>5 DEF Summarize, EndWorker, disk, workers, history
  <2>. QED
    BY <1>9, <2>1, <2>2, <2>3, <2>4, <2>5 DEF PipelineStep, Transcribe, Fail
<1>10. CASE ReleaseInterruptedCapture
  BY <1>5, <1>7, <1>10 DEF ReleaseInterruptedCapture, disk, history
<1>11. CASE FinishStop
  BY <1>11 DEF FinishStop, Values, history
<1>12. CASE StopRecording \/ Hello \/ UNCHANGED vars
  BY <1>1, <1>12 DEF StopRecording, Hello, vars, disk, workers, history
<1>. QED
  BY <1>8, <1>9, <1>10, <1>11, <1>12 DEF Next

-----------------------------------------------------------------------------
(* Before, during and after the capture *)

\* The first start is what ends the time before it.
LEMMA WaitingStep ==
  ASSUME Entries, Values, Waiting, [Next]_vars
  PROVE  Waiting'
<1>0. SUFFICES ASSUME state' = "none"
               PROVE  Waiting'
  BY DEF Waiting
<1>1. state = "none" \/ state # "none"
  OBVIOUS
<1>2. ASSUME state # "none"
      PROVE  FALSE
  <2>1. state' = state
    <3>1. ASSUME NEW t \in Tasks, TaskStep(t)
          PROVE  state' = state
      BY <1>0, <3>1 DEF TaskStep, StartRecording, StartCapture, Settings, FinishNotes, RetryNotes, Prepare, Launch,
            ResumeRequest, Sweep, Insert, Resume, RecoverRange, RecoverDone, Register, disk
    <3>2. ASSUME NEW p \in Pipelines, PipelineStep(p)
          PROVE  state' = state
      BY <3>2 DEF PipelineStep, BatchFails, Pick, Transcribe, Fail, Summarize, EndWorker, disk
    <3>3. CASE ReleaseInterruptedCapture \/ StopRecording \/ FinishStop \/ Hello \/ UNCHANGED vars
      BY <1>0, <3>3 DEF ReleaseInterruptedCapture, StopRecording, FinishStop, Hello, vars, disk
    <3>. QED
      BY <3>1, <3>2, <3>3 DEF Next
  <2>. QED
    BY <1>0, <1>2, <2>1
<1>3. ASSUME state = "none"
      PROVE  Waiting'
  <2>1. /\ built = 0 /\ issued = {} /\ ~owed /\ ~offered /\ ~stopping
        /\ \A t \in Tasks : task[t].pc \in {"idle", "sweep"} /\ task[t].own = {} /\ task[t].kind = "settings"
    BY <1>3 DEF Waiting, Entries, Has
  <2>2. active = {} /\ pipelines = {} /\ draining = {} /\ file = {} /\ \A p \in Pipelines : worker[p] = "none"
    BY <2>1, MaxPipelinesAssumption DEF Entries, Entry, Values, Pipelines
  <2>3. ASSUME UNCHANGED <<built, issued, owed, offered, stopping, task>>
        PROVE  Waiting'
    BY <2>1, <2>3 DEF Waiting
  <2>4. ASSUME NEW t \in Tasks, NEW pc \in {"idle", "sweep"}, Moves(t, pc, {}), task'[t].kind = "settings",
               UNCHANGED <<built, issued, owed, offered, stopping>>
        PROVE  Waiting'
    BY <2>1, <2>4 DEF Waiting, Moves
  <2>5. ASSUME NEW t \in Tasks, TaskStep(t)
        PROVE  Waiting'
    <3>1. Settings(t) \/ Sweep(t)
      BY <1>0, <1>3, <2>1, <2>5 DEF TaskStep, StartRecording, StartCapture, FinishNotes, RetryNotes, Prepare, Launch,
            ResumeRequest, Insert, Resume, RecoverRange, RecoverDone, Register, Running
    <3>2. {"idle", "sweep"} \subseteq Steps /\ "settings" \in Requests
      BY DEF Steps, Requests
    <3>3. CASE Settings(t)
      <4>1. Moves(t, "sweep", {})
        BY <3>2, <3>3, TaskWrites DEF Settings
      <4>2. task'[t].kind = "settings"
        BY <3>3 DEF Settings, Start, Entries
      <4>. QED
        BY <2>4, <3>3, <4>1, <4>2 DEF Settings, disk, stops, history
    <3>4. CASE Sweep(t)
      <4>1. Goto(t, "idle") /\ UNCHANGED <<built, issued, owed, offered, stopping>>
        BY <2>1, <2>2, <3>4 DEF Sweep, AfterSweep, disk, stops, history
      <4>2. Moves(t, "idle", {})
        BY <2>1, <3>2, <4>1, TaskWrites
      <4>3. task'[t].kind = "settings"
        BY <2>1, <4>1 DEF Goto, Entries
      <4>. QED
        BY <2>4, <4>1, <4>2, <4>3
    <3>. QED
      BY <3>1, <3>3, <3>4
  <2>6. ASSUME NEW p \in Pipelines, PipelineStep(p)
        PROVE  FALSE
    BY <2>1, <2>2, <2>6 DEF PipelineStep, BatchFails, Pick, Transcribe, Fail, Summarize, EndWorker, Ticks
  <2>7. CASE ReleaseInterruptedCapture \/ StopRecording \/ FinishStop \/ Hello
    BY <1>3, <2>1, <2>2, <2>7 DEF ReleaseInterruptedCapture, StopRecording, FinishStop, Hello
  <2>8. CASE UNCHANGED vars
    BY <2>3, <2>8 DEF vars, disk, stops, history
  <2>. QED
    BY <2>5, <2>6, <2>7, <2>8 DEF Next
<1>. QED
  BY <1>1, <1>2, <1>3

\* While a capture is opened and while it lasts, no request builds a second pipeline.
LEMMA CapturingStep ==
  ASSUME Entries, Values, Waiting, Capturing, [Next]_vars
  PROVE  Capturing'
<1> DEFINE Captures == active # {} \/ Starting
<1>1. MaxPipelines \in Nat /\ built \in 0..MaxPipelines /\ Pipelines = 1..MaxPipelines
  BY MaxPipelinesAssumption DEF Entries, Pipelines
\* It begins once.
<1>2. ASSUME NEW t \in Tasks, StartRecording(t)
      PROVE  Capturing'
  <2>1. /\ state = "none" /\ built = 0 /\ issued = {} /\ ~offered /\ ~stopping /\ active = {}
        /\ \A u \in Tasks : task[u].pc \in {"idle", "sweep"} /\ task[u].kind = "settings"
    BY <1>2 DEF StartRecording, Waiting
  <2>2. draining = {} /\ file = {} /\ \A p \in Pipelines : busy[p] = {}
    BY <2>1 DEF Entries, Entry, Values
  <2>3. PICK p \in Pipelines : Builds(t, p, "capture") /\ mem'[p] = file /\ Install(p, FALSE)
    BY <1>2, BuildMoves
  <2>4. p = 1 /\ built' = 1
    BY <2>1, <2>3 DEF Builds
  <2>5. pipelines' = {1} /\ retryTasks' = {1} /\ worker'[1] = "running" /\ ~quits'[1] /\ busy'[1] = {} /\ mem'[1] = {}
    BY <2>2, <2>3, <2>4 DEF Install, Entries, Values
  <2>6. /\ \A u \in Tasks : task'[u].pc \in {"idle", "sweep", "launch", "capture"}
        /\ \A u \in Tasks \ {t} : task'[u].pc # "capture" /\ task'[u].kind = "settings"
        /\ task'[t].pc = "capture"
    BY <2>1, <2>3 DEF Builds, Moves
  <2>7. UNCHANGED <<file, active, draining, stopping, offered>> /\ state' = "recording"
    BY <1>2 DEF StartRecording, stops, history
  <2>. QED
    BY <2>1, <2>2, <2>4, <2>5, <2>6, <2>7 DEF Capturing, Starting, Running
\* Nobody else begins one.
<1>3. ASSUME ~Captures, \A t \in Tasks : ~StartRecording(t)
      PROVE  Capturing'
  <2>1. active = {} /\ \A t \in Tasks : task[t].pc # "capture"
    BY <1>3 DEF Starting, Running
  <2>2. ASSUME NEW t \in Tasks, TaskStep(t)
        PROVE  active' = {} /\ \A u \in Tasks : task'[u].pc # "capture"
    <3>1. CASE QuietTask(t)
      <4>1. PICK pc \in {"idle", "sweep", "launch", "prepare", "resume"} : Moves(t, pc, {})
        BY <3>1, QuietTaskMoves
      <4>2. active' = active
        BY <3>1 DEF QuietTask, Settings, FinishNotes, RetryNotes, Prepare, Launch, ResumeRequest, Sweep, maps
      <4>. QED
        BY <2>1, <4>1, <4>2 DEF Moves
    <3>2. CASE (Sweep(t) /\ ~UNCHANGED built) \/ Resume(t)
      <4>1. PICK p \in Pipelines, pc \in {"insert", "recover"} : Builds(t, p, pc)
        BY <3>2, BuildMoves
      <4>2. active' = active
        BY <3>2 DEF Sweep, Resume, maps
      <4>. QED
        BY <2>1, <4>1, <4>2 DEF Builds, Moves
    <3>3. CASE Insert(t) \/ RecoverDone(t) \/ Register(t)
      <4>1. PICK pc \in {"idle", "resume", "register"}, own \in {{}, task[t].own} : Moves(t, pc, own)
        BY <3>3, OwnerMoves
      <4>2. active' = active
        BY <3>3 DEF Insert, RecoverDone, Register, maps
      <4>. QED
        BY <2>1, <4>1, <4>2 DEF Moves
    <3>4. CASE RecoverRange(t)
      BY <2>1, <3>4 DEF RecoverRange, maps
    <3>5. ~StartCapture(t)
      BY <2>1 DEF StartCapture, Running
    <3>. QED
      BY <1>3, <2>2, <3>1, <3>2, <3>3, <3>4, <3>5 DEF TaskStep, QuietTask
  <2>3. ASSUME NEW p \in Pipelines, PipelineStep(p)
        PROVE  active' = {} /\ task' = task
    <3>1. active' = active /\ task' = task
      BY <2>3 DEF PipelineStep, BatchFails, Pick, Transcribe, Fail, Summarize, EndWorker, maps
    <3>. QED
      BY <2>1, <3>1
  <2>4. ASSUME ReleaseInterruptedCapture \/ StopRecording \/ FinishStop \/ Hello \/ UNCHANGED vars
        PROVE  active' = {} /\ task' = task
    BY <2>1, <2>4 DEF ReleaseInterruptedCapture, StopRecording, FinishStop, Hello, vars, maps
  <2>5. active' = {} /\ \A u \in Tasks : task'[u].pc # "capture"
    BY <2>1, <2>2, <2>3, <2>4 DEF Next
  <2>. QED
    BY <2>5 DEF Capturing, Starting, Running
\* While it lasts.
<1>4. ASSUME Captures
      PROVE  Capturing'
  <2>1. /\ built = 1 /\ pipelines = {1} /\ retryTasks = {1} /\ draining = {} /\ ~stopping
        /\ state = "recording" /\ ~offered
        /\ file = mem[1] /\ worker[1] = "running" /\ ~quits[1] /\ busy[1] = {}
        /\ Starting => active = {} /\ mem[1] = {}
        /\ \A t \in Tasks : task[t].pc \in {"idle", "sweep", "launch", "capture"}
        /\ \A t \in Tasks : Running(t, "sweep") => task[t].kind # "finish"
        /\ \A t, u \in Tasks : Running(t, "capture") /\ Running(u, "capture") => t = u
    BY <1>4 DEF Capturing
  <2>2. 1 \in Pipelines /\ \A p \in Pipelines : worker[p] # "none" => p = 1
    BY <1>1, <2>1 DEF Entries
  <2>3. \A p \in active : p = 1
    BY <2>1 DEF Entries, Entry
  \* All that matters stays.
  <2>4. ASSUME UNCHANGED <<active, built, pipelines, retryTasks, draining, stopping, state, offered, file, mem, worker, quits, busy, task>>
        PROVE  Capturing'
    BY <2>1, <2>4 DEF Capturing, Starting, Running
  <2>5. ASSUME NEW t \in Tasks, NEW pc \in {"idle", "sweep", "launch"}, task[t].pc # "capture", Moves(t, pc, {}),
               pc = "sweep" => task'[t].kind # "finish",
               UNCHANGED <<active, built, pipelines, retryTasks, draining, stopping, state, offered, file, mem, worker, quits, busy>>
        PROVE  Capturing'
    <3>1. \A u \in Tasks : Running(u, "capture")' <=> Running(u, "capture")
      BY <2>5 DEF Moves, Running
    <3>2. \A u \in Tasks : task'[u].pc \in {"idle", "sweep", "launch", "capture"}
      BY <2>1, <2>5 DEF Moves
    <3>3. Starting' <=> Starting
      BY <3>1 DEF Starting
    <3>4. \A u \in Tasks : task'[u].pc = "sweep" => task'[u].kind # "finish"
      BY <2>1, <2>5 DEF Moves, Running
    <3>. QED
      BY <2>1, <2>5, <3>1, <3>2, <3>3, <3>4 DEF Capturing, Running
  <2>6. ASSUME NEW t \in Tasks, TaskStep(t)
        PROVE  Capturing'
    <3>1. WorkerRunning
      BY <2>1 DEF WorkerRunning
    <3>2. StartCapture(t) \/ Settings(t) \/ FinishNotes(t) \/ Launch(t) \/ Sweep(t)
      BY <2>1, <2>6 DEF TaskStep, StartRecording, RetryNotes, Prepare, ResumeRequest, Insert, Resume, RecoverRange,
            RecoverDone, Register, Running
    <3>3. CASE StartCapture(t)
      <4>1. Moves(t, "idle", {}) /\ Running(t, "capture")
        BY <3>3, OwnerMoves
      <4>2. Starting /\ active = {} /\ task[t].own = {1}
        BY <2>1, <4>1 DEF Starting, Entries, Has, Running
      <4>3. \A u \in Tasks : /\ task'[u].pc \in {"idle", "sweep", "launch", "capture"} /\ task'[u].pc # "capture"
                             /\ task'[u].pc = "sweep" => task'[u].kind # "finish"
        BY <2>1, <4>1 DEF Moves, Running
      <4>4. UNCHANGED <<built, draining, stopping, offered, file, mem>>
        BY <3>3 DEF StartCapture, stops, history
      <4>7. ~Starting'
        BY <4>3 DEF Starting, Running
      <4>5. CASE active' = task[t].own /\ UNCHANGED <<state, pipelines, retryTasks, workers>>
        <5>1. UNCHANGED <<state, pipelines, retryTasks, worker, quits, busy>>
          BY <4>5 DEF workers
        <5>. QED
          BY <2>1, <4>3, <4>4, <4>7, <5>1 DEF Capturing, Running
      <4>6. CASE active' = active
        BY <4>2, <4>6, <4>7 DEF Capturing
      <4>. QED
        BY <3>3, <4>5, <4>6 DEF StartCapture
    <3>4. CASE Settings(t) \/ FinishNotes(t) \/ Launch(t) \/ Sweep(t)
      <4>1. /\ UNCHANGED <<active, built, pipelines, retryTasks, draining, stopping, state, offered, file, mem, worker, quits, busy>>
            /\ QuietTask(t)
        BY <2>1, <3>4 DEF QuietTask, Settings, FinishNotes, Launch, Sweep, disk, maps, stops, workers, history
      <4>2. \E pc \in {"idle", "sweep", "launch"} : Moves(t, pc, {}) /\ (pc = "sweep" => task'[t].kind # "finish")
        <5>1. {"idle", "sweep", "launch"} \subseteq Steps /\ {"settings", "finish"} \subseteq Requests /\ {} \in SUBSET Pipelines
          BY DEF Steps, Requests
        <5>2. CASE Settings(t)
          <6>1. Moves(t, "sweep", {})
            BY <5>1, <5>2, TaskWrites DEF Settings
          <6>2. task'[t].kind = "settings"
            BY <5>2 DEF Settings, Start, Entries
          <6>. QED
            BY <6>1, <6>2
        <5>3. CASE FinishNotes(t)
          BY <5>1, <5>3, TaskWrites DEF FinishNotes
        <5>4. CASE Launch(t)
          BY <3>1, <5>1, <5>4, TaskWrites DEF Launch, Finish
        <5>5. CASE Sweep(t)
          <6>1. Goto(t, AfterSweep(t)) /\ task[t].own = {}
            BY <2>1, <5>5 DEF Sweep, Entries, Has, Running
          <6>2. AfterSweep(t) = "idle"
            BY <2>1, <5>5 DEF Sweep, AfterSweep
          <6>. QED
            BY <5>1, <6>1, <6>2, TaskWrites
        <5>. QED
          BY <3>4, <5>2, <5>3, <5>4, <5>5
      <4>3. task[t].pc # "capture"
        BY <4>1, QuietTaskMoves
      <4>. QED
        BY <2>5, <4>1, <4>2, <4>3
    <3>. QED
      BY <3>2, <3>3, <3>4
  <2>7. ASSUME NEW p \in Pipelines, PipelineStep(p)
        PROVE  Capturing'
    <3>1. CASE BatchFails(p)
      <4>1. p = 1 /\ active # {} /\ ~Starting
        BY <2>1, <2>3, <3>1 DEF BatchFails
      <4>2. file' = mem'[1] /\ UNCHANGED <<active, built, pipelines, retryTasks, draining, stopping, state, offered, worker, quits, busy, task>>
        BY <3>1, <4>1 DEF BatchFails, maps, stops, workers
      <4>. QED
        BY <2>1, <4>1, <4>2 DEF Capturing, Starting, Running
    <3>2. CASE Summarize(p)
      BY <2>4, <3>2 DEF Summarize, maps, stops, workers, history
    <3>3. ~Pick(p) /\ ~Transcribe(p) /\ ~Fail(p) /\ ~EndWorker(p)
      <4>1. worker[p] = "running" => p = 1
        BY <2>2
      <4>. QED
        BY <1>4, <2>1, <4>1 DEF Pick, Transcribe, Fail, EndWorker, Ticks
    <3>. QED
      BY <2>7, <3>1, <3>2, <3>3 DEF PipelineStep
  <2>8. CASE ReleaseInterruptedCapture \/ StopRecording
    <3>1. active' = {} /\ task' = task /\ ~Starting
      BY <2>1, <2>8 DEF ReleaseInterruptedCapture, StopRecording
    <3>. QED
      BY <3>1 DEF Capturing, Starting, Running
  <2>9. CASE FinishStop \/ Hello
    BY <1>4, <2>1, <2>9 DEF FinishStop, Hello
  <2>10. CASE UNCHANGED vars
    BY <2>4, <2>10 DEF vars, disk, maps, stops, workers, history
  <2>. QED
    BY <2>6, <2>7, <2>8, <2>9, <2>10 DEF Next
<1>. QED
  BY <1>2, <1>3, <1>4

\* No worker ends, and none is aborted, between a stop and its end.
LEMMA DrainingStep ==
  ASSUME Entries, Capturing, Draining, [Next]_vars
  PROVE  Draining'
<1>1. CASE StopRecording
  <2>1. \A p \in active : worker[p] = "running"
    BY DEF Capturing, Entries, Entry
  <2>. QED
    BY <1>1, <2>1 DEF StopRecording, Draining, workers
<1>2. CASE FinishStop
  BY <1>2 DEF FinishStop, Draining
<1>3. SUFFICES ASSUME draining # {}, ~StopRecording, ~FinishStop
               PROVE  Draining'
  <2>1. ASSUME ~StopRecording, ~FinishStop
        PROVE  draining' = draining
    <3>1. ASSUME NEW t \in Tasks, TaskStep(t)
          PROVE  draining' = draining
      BY <3>1 DEF TaskStep, StartRecording, StartCapture, Settings, FinishNotes, RetryNotes, Prepare, Launch,
            ResumeRequest, Sweep, Insert, Resume, RecoverRange, RecoverDone, Register, stops
    <3>2. ASSUME NEW p \in Pipelines, PipelineStep(p)
          PROVE  draining' = draining
      BY <3>2 DEF PipelineStep, BatchFails, Pick, Transcribe, Fail, Summarize, EndWorker, stops
    <3>3. CASE ReleaseInterruptedCapture \/ Hello \/ UNCHANGED vars
      BY <3>3 DEF ReleaseInterruptedCapture, Hello, vars, stops
    <3>. QED
      BY <2>1, <3>1, <3>2, <3>3 DEF Next
  <2>. QED
    BY <1>1, <1>2, <2>1 DEF Draining
<1>4. stopping /\ (\A p \in draining : worker[p] = "running" /\ p \in Pipelines) /\ active = {} /\ ~Starting
  BY <1>3, MaxPipelinesAssumption DEF Draining, Capturing, Entries, Entry, Pipelines
<1>5. ASSUME UNCHANGED <<stopping, draining, worker>>
      PROVE  Draining'
  BY <1>5 DEF Draining
<1>6. ASSUME NEW p, NEW q, Install(p, q), UNCHANGED <<stopping, draining>>
      PROVE  Draining'
  BY <1>4, <1>6 DEF Install, Draining, Entries
<1>7. ASSUME NEW t \in Tasks, TaskStep(t)
      PROVE  Draining'
  <2>1. ~StartRecording(t) /\ ~StartCapture(t)
    BY <1>4 DEF StartRecording, StartCapture, Starting
  <2>2. CASE Settings(t) \/ FinishNotes(t) \/ RetryNotes(t) \/ Prepare(t) \/ Launch(t) \/ ResumeRequest(t) \/ Sweep(t)
             \/ Resume(t) \/ RecoverRange(t) \/ RecoverDone(t)
    BY <1>5, <2>2 DEF Settings, FinishNotes, RetryNotes, Prepare, Launch, ResumeRequest, Sweep, Resume, RecoverRange,
          RecoverDone, stops, workers
  <2>3. CASE Insert(t)
    BY <1>6, <2>3 DEF Insert, stops
  <2>4. CASE Register(t)
    BY <1>5, <1>6, <2>4 DEF Register, stops, workers
  <2>. QED
    BY <1>7, <2>1, <2>2, <2>3, <2>4 DEF TaskStep
<1>8. ASSUME NEW p \in Pipelines, PipelineStep(p)
      PROVE  Draining'
  <2>1. ~EndWorker(p)
    BY <1>4 DEF EndWorker, Ticks
  <2>. QED
    BY <1>5, <1>8, <2>1 DEF PipelineStep, BatchFails, Pick, Transcribe, Fail, Summarize, stops, workers
<1>9. CASE ReleaseInterruptedCapture \/ Hello \/ UNCHANGED vars
  BY <1>4, <1>5, <1>9 DEF ReleaseInterruptedCapture, Hello, vars, stops, workers
<1>. QED
  BY <1>3, <1>7, <1>8, <1>9 DEF Next

-----------------------------------------------------------------------------
(* The jobs *)

\* Every step keeps each job that is not over with somebody.
LEMMA HeldStep ==
  ASSUME Entries, Values, Waiting, Capturing, Draining, Held, [Next]_vars
  PROVE  Held'
<1>1. \A p : p \in Live <=> p \in Pipelines /\ (worker[p] = "running" \/ p \in active \cup draining \/ \E t \in Tasks : p \in task[t].own)
  BY DEF Live
<1>2. \A p : p \in Live' <=> p \in Pipelines /\ (worker'[p] = "running" \/ p \in active' \cup draining' \/ \E t \in Tasks : p \in task'[t].own)
  BY DEF Live
<1>3. MaxPipelines \in Nat /\ built \in 0..MaxPipelines /\ Pipelines = 1..MaxPipelines
  BY MaxPipelinesAssumption DEF Entries, Pipelines
\* The same owners with the same jobs.
<1>4. ASSUME Live' = Live, UNCHANGED <<file, parked, mem, issued, over>>
      PROVE  Held'
  BY <1>4 DEF Held
\* One that has no jobs goes.
<1>5. ASSUME NEW p \in Live, mem[p] = {}, \A q \in Live \ {p} : q \in Live', UNCHANGED <<file, parked, mem, issued, over>>
      PROVE  Held'
  BY <1>5 DEF Held
\* A new one has read the file.
<1>6. ASSUME NEW t \in Tasks, NEW p \in Pipelines, NEW pc, Builds(t, p, pc), task[t].own = {}, file \subseteq mem'[p],
             parked \subseteq parked' \cup mem'[p], UNCHANGED <<worker, active, draining, issued, over>>
      PROVE  Held'
  <2>1. p \notin Live
    <3>1. \A q \in 1..built : q # p
      BY <1>3, <1>6 DEF Builds
    <3>2. worker[p] # "running" /\ p \notin active \cup draining /\ \A u \in Tasks : p \notin task[u].own
      BY <1>3, <1>6, <3>1 DEF Entries, Entry
    <3>. QED
      BY <1>1, <3>2
  <2>2. p \in Live' /\ \A q \in Live : q \in Live' /\ mem'[q] = mem[q]
    <3>1. p \in task'[t].own /\ \A u \in Tasks \ {t} : task'[u].own = task[u].own
      BY <1>6 DEF Builds, Moves
    <3>2. \A q \in Live : q \in Live'
      BY <1>1, <1>2, <1>6, <3>1
    <3>3. \A q \in Pipelines \ {p} : mem'[q] = mem[q]
      BY <1>6 DEF Builds, Values
    <3>. QED
      BY <1>1, <1>2, <2>1, <3>1, <3>2, <3>3
  <2>. QED
    BY <1>6, <2>2 DEF Held
\* One gets a new job.
<1>7. ASSUME NEW p \in Live, NEW j, mem' = [mem EXCEPT ![p] = mem[p] \cup {j}], issued' = issued \cup {j},
             Live' = Live, UNCHANGED <<parked, over>>
      PROVE  Held'
  <2>1. j \in mem'[p] /\ \A q \in Live : mem[q] \subseteq mem'[q]
    BY <1>1, <1>7 DEF Values
  <2>. QED
    BY <1>7, <2>1 DEF Held
\* One is through with a job.
<1>8. ASSUME NEW p \in Live, mem' = [mem EXCEPT ![p] = mem[p] \ busy[p]], Live' = Live, issued' = issued,
             parked \subseteq parked', over \subseteq over', busy[p] \subseteq parked' \cup over'
      PROVE  Held'
  <2>1. \A q \in Live : mem[q] \subseteq mem'[q] \cup busy[p]
    BY <1>1, <1>8 DEF Values
  <2>. QED
    BY <1>8, <2>1 DEF Held
\* Nobody comes or goes.
<1>9. ASSUME UNCHANGED <<worker, active, draining>>, \A u \in Tasks : task'[u].own = task[u].own
      PROVE  Live' = Live
  BY <1>1, <1>2, <1>9
\* The worker of a capture is aborted: it had saved its jobs, and nobody else is there.
<1>10. ASSUME active # {} \/ Starting, AbortAndRemove, active' = {}, UNCHANGED <<draining, file, parked, mem, issued, over>>,
              \A u \in Tasks : task'[u].own = {}
       PROVE  Held'
  <2>1. /\ built = 1 /\ retryTasks = {1} /\ draining = {} /\ file = mem[1]
    BY <1>10 DEF Capturing
  <2>2. \A q \in Live : q = 1
    BY <1>1, <1>3, <2>1 DEF Entries, Entry
  <2>3. \A q \in Pipelines : worker'[q] # "running"
    BY <1>3, <1>10, <2>1 DEF AbortAndRemove, Entries
  <2>4. Live' = {}
    BY <1>2, <1>10, <2>1, <2>3
  <2>. QED
    BY <1>10, <2>1, <2>2, <2>4 DEF Held
\* A task maps the pipeline that it has.
<1>11. ASSUME NEW t \in Tasks, NEW p, NEW q, task[t].own = {p}, Install(p, q), UNCHANGED <<active, draining>>,
              task'[t].own = {}, \A u \in Tasks \ {t} : task'[u] = task[u]
       PROVE  Live' = Live
  <2>1. p \in Pipelines
    BY <1>11 DEF Entries
  <2>2. \A k \in Pipelines : worker'[k] = IF k = p THEN "running" ELSE worker[k]
    BY <1>11, <2>1 DEF Install, Entries
  <2>. QED
    BY <1>1, <1>2, <1>11, <2>1, <2>2
<1>12. ASSUME NEW t \in Tasks, TaskStep(t)
       PROVE  Held'
  <2>1. CASE QuietTask(t)
    <3>1. task[t].own = {} /\ \E pc : Moves(t, pc, {})
      BY <2>1, QuietTaskMoves
    <3>2. UNCHANGED <<worker, active, draining, file, parked, issued, over>>
      BY <2>1 DEF QuietTask, Settings, FinishNotes, RetryNotes, Prepare, Launch, ResumeRequest, Sweep, disk, maps, stops,
            workers, history
    <3>3. mem' = mem
      <4>1. built + 1 # built
        BY <1>3
      <4>. QED
        BY <2>1, <4>1 DEF QuietTask, Settings, FinishNotes, RetryNotes, Prepare, Launch, ResumeRequest, Sweep, Build
    <3>4. \A u \in Tasks : task'[u].own = task[u].own
      BY <3>1 DEF Moves
    <3>5. Live' = Live
      BY <1>9, <3>2, <3>4
    <3>. QED
      BY <1>4, <3>2, <3>3, <3>5
  <2>2. CASE StartRecording(t)
    <3>1. issued = {} /\ issued' = issued
      BY <2>2 DEF StartRecording, Waiting, history
    <3>. QED
      BY <3>1 DEF Held
  <2>3. CASE Sweep(t) /\ ~UNCHANGED built
    <3>1. PICK p \in Pipelines : Builds(t, p, "insert") /\ mem'[p] = file
      BY <2>3, BuildMoves
    <3>2. task[t].own = {} /\ UNCHANGED <<worker, active, draining, parked, issued, over>>
      BY <2>3 DEF Sweep, Running, Entries, Has, disk, maps, stops, workers, history
    <3>. QED
      BY <1>6, <3>1, <3>2
  <2>4. CASE Resume(t)
    <3>1. PICK p \in Pipelines : Builds(t, p, "recover") /\ mem'[p] = file \cup parked
      BY <2>4, BuildMoves
    <3>2. task[t].own = {} /\ UNCHANGED <<worker, active, draining, issued, over>>
      BY <2>4 DEF Resume, Running, Entries, Has, maps, stops, workers, history
    <3>. QED
      BY <1>6, <3>1, <3>2
  <2>5. CASE StartCapture(t)
    <3>1. Moves(t, "idle", {}) /\ Running(t, "capture") /\ Starting
      BY <2>5, OwnerMoves DEF Starting
    <3>2. PICK p \in 1..built : task[t].own = {p}
      BY <3>1 DEF Entries, Has, Running
    <3>3. active = {} /\ \A u \in Tasks \ {t} : task[u].own = {}
      BY <3>1 DEF Capturing, Running, Entries, Has
    <3>4. UNCHANGED <<draining, file, parked, mem, issued, over>>
      BY <2>5 DEF StartCapture, stops, history
    <3>5. CASE active' = task[t].own /\ UNCHANGED workers
      <4>1. \A q : q \in Live' <=> q \in Live
        BY <1>1, <1>2, <3>1, <3>2, <3>3, <3>4, <3>5 DEF Moves, workers
      <4>2. Live' = Live
        BY <1>1, <1>2, <4>1
      <4>. QED
        BY <1>4, <3>4, <4>2
    <3>6. CASE active' = active /\ AbortAndRemove
      <4>1. \A u \in Tasks : task'[u].own = {}
        BY <3>1, <3>3 DEF Moves
      <4>. QED
        BY <1>10, <3>1, <3>3, <3>4, <3>6, <4>1
    <3>. QED
      BY <2>5, <3>5, <3>6 DEF StartCapture
  <2>6. CASE Insert(t)
    <3>1. (\E pc : Moves(t, pc, {})) /\ Running(t, "insert")
      BY <2>6, OwnerMoves
    <3>2. PICK p \in 1..built : task[t].own = {p}
      BY <3>1 DEF Entries, Has, Running
    <3>3. Install(p, TRUE) /\ UNCHANGED <<active, draining, file, parked, mem, issued, over>>
      BY <2>6, <3>2 DEF Insert, disk, stops, history
    <3>4. task'[t].own = {} /\ \A u \in Tasks \ {t} : task'[u] = task[u]
      BY <3>1 DEF Moves
    <3>. QED
      BY <1>4, <1>11, <3>2, <3>3, <3>4
  <2>7. CASE Register(t)
    <3>1. Moves(t, "idle", {}) /\ Running(t, "register")
      BY <2>7, OwnerMoves
    <3>2. PICK p \in 1..built : task[t].own = {p}
      BY <3>1 DEF Entries, Has, Running
    <3>3. UNCHANGED <<active, draining, file, parked, mem, issued, over>>
      BY <2>7 DEF Register, disk, stops, history
    <3>4. task'[t].own = {} /\ \A u \in Tasks \ {t} : task'[u] = task[u]
      BY <3>1 DEF Moves
    <3>5. CASE Install(p, TRUE)
      BY <1>4, <1>11, <3>2, <3>3, <3>4, <3>5
    <3>6. CASE mem[p] = {} /\ UNCHANGED workers
      <4>1. p \in Live
        BY <1>1, <1>3, <3>2
      <4>2. \A q \in Live \ {p} : q \in Live'
        BY <1>1, <1>2, <3>2, <3>3, <3>4, <3>6 DEF workers
      <4>. QED
        BY <1>5, <3>3, <3>6, <4>1, <4>2
    <3>. QED
      BY <2>7, <3>2, <3>5, <3>6 DEF Register
  <2>8. CASE RecoverRange(t)
    <3>1. PICK p \in task[t].own, j \in Jobs \ issued :
             mem' = [mem EXCEPT ![p] = mem[p] \cup {j}] /\ issued' = issued \cup {j}
      BY <2>8 DEF RecoverRange
    <3>2. UNCHANGED <<parked, over, worker, active, draining, task>>
      BY <2>8 DEF RecoverRange, maps, stops, workers
    <3>3. p \in Live /\ Live' = Live
      BY <1>1, <1>9, <3>1, <3>2 DEF Entries
    <3>. QED
      BY <1>7, <3>1, <3>2, <3>3
  <2>9. CASE RecoverDone(t)
    <3>1. Moves(t, "register", task[t].own)
      BY <2>9, OwnerMoves
    <3>2. UNCHANGED <<worker, active, draining, file, parked, mem, issued, over>>
      BY <2>9 DEF RecoverDone, maps, stops, workers, history
    <3>3. Live' = Live
      BY <1>9, <3>1, <3>2 DEF Moves
    <3>. QED
      BY <1>4, <3>2, <3>3
  <2>. QED
    BY <1>12, <2>1, <2>2, <2>3, <2>4, <2>5, <2>6, <2>7, <2>8, <2>9 DEF TaskStep, QuietTask
<1>13. ASSUME NEW p \in Pipelines, PipelineStep(p)
       PROVE  Held'
  <2>1. CASE BatchFails(p)
    <3>1. PICK j \in Jobs \ issued : mem' = [mem EXCEPT ![p] = mem[p] \cup {j}] /\ issued' = issued \cup {j}
      BY <2>1 DEF BatchFails
    <3>2. p \in active \cup draining /\ UNCHANGED <<parked, over, worker, active, draining, task>>
      BY <2>1 DEF BatchFails, maps, stops, workers
    <3>3. p \in Live /\ Live' = Live
      BY <1>1, <1>9, <3>2
    <3>. QED
      BY <1>7, <3>1, <3>2, <3>3
  <2>2. CASE (Transcribe(p) \/ Fail(p)) /\ RemoveJob(p)
    <3>1. UNCHANGED <<worker, active, draining, task, issued>> /\ worker[p] = "running"
      BY <2>2 DEF Transcribe, Fail, maps, stops, history
    <3>2. p \in Live /\ Live' = Live
      BY <1>1, <1>9, <3>1
    <3>3. mem' = [mem EXCEPT ![p] = mem[p] \ busy[p]]
      BY <2>2 DEF RemoveJob
    <3>4. CASE Transcribe(p)
      BY <1>8, <3>1, <3>2, <3>3, <3>4 DEF Transcribe
    <3>5. CASE Fail(p) /\ parked' = parked \cup busy[p]
      BY <1>8, <3>1, <3>2, <3>3, <3>5 DEF Fail, history
    <3>6. CASE Fail(p) /\ busy' = [busy EXCEPT ![p] = {}] /\ UNCHANGED <<file, parked, mem>>
      BY <1>4, <3>1, <3>2, <3>6 DEF Fail, history
    <3>. QED
      BY <2>2, <3>4, <3>5, <3>6 DEF Fail
  <2>3. CASE Pick(p) \/ Summarize(p) \/ (Fail(p) /\ UNCHANGED <<file, parked, mem>>)
    <3>1. UNCHANGED <<worker, active, draining, task, file, parked, mem, issued, over>>
      BY <2>3 DEF Pick, Summarize, Fail, disk, maps, stops, workers, history
    <3>2. Live' = Live
      BY <1>9, <3>1
    <3>. QED
      BY <1>4, <3>1, <3>2
  <2>4. CASE EndWorker(p)
    <3>1. worker[p] = "running" /\ mem[p] = {} /\ UNCHANGED <<active, draining, task, file, parked, mem, issued, over>>
      BY <2>4 DEF EndWorker, Ticks, disk, stops, history
    <3>2. \A q \in Pipelines \ {p} : worker'[q] = worker[q]
      BY <2>4 DEF EndWorker, Entries
    <3>3. p \in Live /\ \A q \in Live \ {p} : q \in Live'
      BY <1>1, <1>2, <3>1, <3>2
    <3>. QED
      BY <1>5, <3>1, <3>3
  <2>. QED
    BY <1>13, <2>1, <2>2, <2>3, <2>4 DEF PipelineStep, Transcribe, Fail
<1>14. CASE ReleaseInterruptedCapture
  <2>1. active # {} /\ active' = {} /\ AbortAndRemove /\ UNCHANGED <<draining, file, parked, mem, issued, over, task>>
    BY <1>14 DEF ReleaseInterruptedCapture, disk, stops, history
  <2>2. \A u \in Tasks : task[u].own = {}
    BY <2>1 DEF Capturing, Starting, Running, Entries, Has
  <2>. QED
    BY <1>10, <2>1, <2>2
<1>15. CASE StopRecording
  <2>1. active' \cup draining' = active \cup draining /\ UNCHANGED <<worker, task, file, parked, mem, issued, over>>
    <3>1. draining = {}
      BY <1>15 DEF StopRecording, Draining
    <3>. QED
      BY <1>15, <3>1 DEF StopRecording, disk, workers, history
  <2>2. Live' = Live
    BY <1>1, <1>2, <2>1
  <2>. QED
    BY <1>4, <2>1, <2>2
<1>16. CASE FinishStop
  <2>1. draining' = {} /\ UNCHANGED <<active, worker, task, file, parked, mem, issued, over>>
    BY <1>16 DEF FinishStop, maps, history
  <2>2. \A p \in draining : worker[p] = "running"
    BY DEF Draining
  <2>3. \A q : q \in Live' <=> q \in Live
    BY <1>1, <1>2, <2>1, <2>2
  <2>4. Live' = Live
    BY <1>1, <1>2, <2>3
  <2>. QED
    BY <1>4, <2>1, <2>4
<1>17. CASE Hello \/ UNCHANGED vars
  <2>1. UNCHANGED <<worker, active, draining, task, file, parked, mem, issued, over>>
    BY <1>17 DEF Hello, vars, disk, maps, stops, workers, history
  <2>. QED
    BY <1>4, <1>9, <2>1
<1>. QED
  BY <1>12, <1>13, <1>14, <1>15, <1>16, <1>17 DEF Next

-----------------------------------------------------------------------------
(* The theorem *)

\* The app starts before the first recording, or after it died in one.
LEMMA InvInit == Init => Inv
<1> SUFFICES ASSUME Init PROVE Inv
  OBVIOUS
<1>1. MaxPipelines \in Nat /\ Pipelines = 1..MaxPipelines
  BY MaxPipelinesAssumption DEF Pipelines
<1>2. NoTask \in ATask /\ NoTask.pc = "idle" /\ NoTask.own = {} /\ NoTask.kind = "settings"
  BY DEF NoTask, ATask, Requests, Steps
<1>3. task \in [Tasks -> ATask] /\ \A t \in Tasks : task[t] = NoTask
  BY <1>2 DEF Init
<1>4. Entries
  BY <1>1, <1>2, <1>3 DEF Init, Entries, Entry, Has, ATask
<1>5. Values
  BY DEF Init, Values
<1>6. Flags /\ Draining
  BY DEF Init, Flags, Draining
<1>7. Waiting
  BY <1>2, <1>3 DEF Init, Waiting
<1>8. Capturing
  BY <1>2, <1>3 DEF Init, Capturing, Starting, Running
<1>9. Held
  <2>1. Live = {}
    BY <1>2, <1>3 DEF Init, Live
  <2>. QED
    BY <2>1 DEF Init, Held
<1>. QED
  BY <1>4, <1>5, <1>6, <1>7, <1>8, <1>9 DEF Inv

\* Every step of every task, worker and request keeps the invariant.
LEMMA InvStep == Inv /\ [Next]_vars => Inv'
<1> SUFFICES ASSUME Inv, [Next]_vars PROVE Inv'
  OBVIOUS
<1>1. Entries /\ Values /\ Flags /\ Waiting /\ Capturing /\ Draining /\ Held
  BY DEF Inv
<1>. QED
  BY <1>1, EntriesStep, FlagsStep, ValuesStep, WaitingStep, CapturingStep, DrainingStep, HeldStep DEF Inv

\* What the invariant says of the jobs, the maps and the types.
LEMMA InvImplies == Inv => NoJobDropped
<1> SUFFICES ASSUME Inv PROVE NoJobDropped
  OBVIOUS
<1>1. Entries /\ Values /\ Flags /\ Capturing /\ Held
  BY DEF Inv
<1>2. ASSUME NEW e, Entry(e)
      PROVE  e \subseteq 1..built /\ Cardinality(e) <= 1
  <2>1. Cardinality({}) = 0 /\ \A p : Cardinality({p}) = 1
    BY FS_EmptySet, FS_Singleton
  <2>. QED
    BY <1>2, <2>1 DEF Entry
<1>3. \A e \in {active, pipelines, retryTasks, draining} : e \subseteq 1..built /\ Cardinality(e) <= 1
  BY <1>1, <1>2 DEF Entries
<1>4. TypeOK
  BY <1>1, <1>3 DEF TypeOK, Entries, Values, Flags
<1>5. active \subseteq pipelines
  BY <1>1 DEF Capturing, Entries, Entry
<1>6. ASSUME NEW j \in issued \ over
      PROVE  j \in file \cup parked \cup UNION {mem[p] : p \in Live}
  BY <1>1 DEF Held
<1>. QED
  BY <1>4, <1>5, <1>6 DEF NoJobDropped

\* No job is dropped while the app runs and the pipeline of a live capture stays
\* mapped, for any number of jobs, of requests at the same time and of pipelines
\* (main.rs: start_pending_retry_workers, ResumeRecording, run_retry_worker and
\* release_interrupted_capture over the maps of AppState).
THEOREM NoJobIsDropped == Spec => []NoJobDropped
<1>. QED
  BY InvInit, InvStep, InvImplies, PTL DEF Spec

-----------------------------------------------------------------------------
(* HelperLink: the types, and the parts of the invariant *)

Ends == {"none", "open", "closed", "missing", "gone"}
Statuses == {"none", "permission_required", "helper_not_found", "connecting", "connected",
             "incompatible", "disconnected", "needs_pairing"}
Preferences == [keys : Int, drive : {0, 1}, consent : BOOLEAN]
FromExt == [type : {"request"}] \cup [type : {"settings"}, keys : Int] \cup [type : {"hello"}, token : Nat]
FromHelper == [type : {"info", "not_paired", "answer", "storage_error"}] \cup [type : {"paired"}, token : Nat]

LinkState == [up : BOOLEAN, port : 0..MaxPorts, connecting : {"no", "permission", "hello"},
              status : Statuses, backoff : 0..TopBackoff, timers : Nat, tracked : BOOLEAN,
              lookups : Seq({"create", "clear"}), init : {"no", "loading", "done"}]
Connection == [toHelper : Seq(FromExt), toExt : Seq(FromHelper), end : Ends, authed : BOOLEAN]
LinkTypes ==
  /\ link \in LinkState
  /\ ports \in 0..MaxPorts
  /\ conn \in [Ports -> Connection]
  /\ alarm \in BOOLEAN
  /\ helper \in [up : BOOLEAN, token : Nat, file : Nat, keys : Int]
  /\ token \in Nat /\ minted \in Nat /\ writes \in Seq(Nat) /\ mislaid \in BOOLEAN
  /\ stored \in Preferences /\ current \in Preferences /\ adopting \in Seq(Preferences)
  /\ page \in [Pages -> [pc : {"closed", "open", "sent"}, copy : Preferences, seen : Preferences]]
  /\ edits \in Nat /\ exporting \in BOOLEAN /\ crossed \in BOOLEAN

\* At most one port is live, and it is the client's own: any other was never opened or has ended, and carries
\* nothing.  While a port is open none is being opened, and a worker that is down has no port, timer or question.
NoPort(p) == conn[p].end \in {"none", "gone"}
OnePort ==
  /\ link.port <= ports
  /\ \A p \in Ports : IF NoPort(p)
                      THEN conn[p].toHelper = <<>> /\ conn[p].toExt = <<>> /\ ~conn[p].authed
                      ELSE link.up /\ link.port = p
  /\ link.port # 0 => ~NoPort(link.port) /\ link.connecting # "permission"
  /\ ~link.up => /\ link.port = 0 /\ link.init = "no" /\ link.status = "none" /\ link.connecting = "no"
                 /\ link.timers = 0 /\ link.lookups = <<>>

\* Only a helper that accepted the hello says so, and a connected client talks to such a helper.
Greeted ==
  /\ \A p \in Ports : \A k \in 1..Len(conn[p].toExt) : conn[p].toExt[k].type = "info" => conn[p].authed
  /\ link.status = "connected" => link.port # 0 /\ conn[link.port].authed

\* The helper has the wanted settings and none are on their way, or they are the last ones on their way.
Pushes(q) == {k \in 1..Len(q) : q[k].type = "settings"}
UpToDate(q, held, wanted) ==
  \/ held = wanted /\ Pushes(q) = {}
  \/ \E k \in Pushes(q) : q[k].keys = wanted /\ \A j \in Pushes(q) : j <= k
\* A connected helper has the settings of the controller, or gets them once it has read its queue.
HelperFollows ==
  link.port # 0 /\ link.status = "connected" /\ link.init = "done" /\ conn[link.port].end = "open"
    => UpToDate(conn[link.port].toHelper, helper.keys, current.keys)

\* What a reader gets while nothing is stored.
Effective(s) == IF s = Unset THEN [Unset EXCEPT !.keys = 0] ELSE s
Rank(s) == 2 * s.keys + (IF s.consent THEN 1 ELSE 0)
\* A save is of changes that were made, and a page sends a later copy than the one it read: more keys, or a
\* consent that was not there.
Edits ==
  /\ stored.keys <= edits /\ (stored.keys >= 0 \/ stored = Unset)
  /\ current.keys <= edits /\ (link.init = "done" => current.keys >= 0)
  /\ \A k \in 1..Len(adopting) : adopting[k].keys \in 0..edits
  /\ (adopting # <<>> \/ exporting) => link.init = "done"
  /\ \A g \in Pages : page[g].pc = "sent" =>
       /\ page[g].copy.keys \in 0..edits
       /\ Rank(page[g].copy) > Rank(Effective(page[g].seen))
\* The controller has what is stored (with a fresh Drive token during an export), or is about to adopt it: the last
\* save that it has not adopted is the stored one, and it comes after all that were adopted.
MemoryFollows ==
  link.init = "done" /\ ~crossed =>
    IF adopting = <<>>
    THEN IF exporting THEN current.keys = Effective(stored).keys /\ current.consent = Effective(stored).consent
         ELSE current = Effective(stored)
    ELSE /\ adopting[Len(adopting)] = stored
         /\ Rank(current) < Rank(stored)
         /\ \A k \in 1..(Len(adopting) - 1) : Rank(adopting[k]) < Rank(stored)

\* A retry is ahead: a timer, an alarm that no answer will clear, or an answer that will set one and is not
\* followed by one that clears it.  A client that lost its helper has one, and a tracked timer runs.
Clears(q) == {k \in 1..Len(q) : q[k] = "clear"}
RetryAhead(l, a) ==
  \/ l.timers > 0
  \/ \E k \in 1..Len(l.lookups) : l.lookups[k] = "create" /\ \A j \in Clears(l.lookups) : j < k
  \/ a /\ Clears(l.lookups) = {}
Lost(l) ==
  l.up /\ l.port = 0 /\ l.connecting # "permission" /\ l.status \in {"disconnected", "helper_not_found"}
Timed(l) == l.tracked => l.timers > 0
Retrying == Timed(link) /\ (Lost(link) => RetryAhead(link, alarm))

\* A token on its way to the browser is the first message of its port, and while it is no write is waiting; of the
\* waiting writes only the first may be a token; either is the token of the helper's file, if that has one.  A helper
\* that was not greeted has said nothing, and a hello is on its way only when no write is, so no token is minted
\* for a browser that is about to store another.
PairedIn(p, k) == k \in 1..Len(conn[p].toExt) /\ conn[p].toExt[k].type = "paired"
NewToken == writes # <<>> /\ writes[1] # 0
Greets(p) == \E k \in 1..Len(conn[p].toHelper) : conn[p].toHelper[k].type = "hello"
Issued ==
  /\ token <= minted /\ helper.token <= minted /\ helper.file <= minted
  /\ \A k \in 1..Len(writes) : writes[k] <= minted /\ (k > 1 => writes[k] = 0)
Carried ==
  \A p \in Ports : \A k \in 1..Len(conn[p].toExt) : PairedIn(p, k) =>
    /\ k = 1 /\ writes = <<>>
    /\ conn[p].toExt[k].token \in 1..minted /\ helper.file \in {0, conn[p].toExt[k].token}
ToStore == NewToken => helper.file \in {0, writes[1]}
Ungreeted ==
  \A p \in Ports : conn[p].end = "open" /\ ~conn[p].authed => conn[p].toExt = <<>> /\ (Greets(p) => writes = <<>>)
Matched ==
  ~mislaid /\ helper.file # 0 => token = helper.file \/ NewToken \/ \E p \in Ports : PairedIn(p, 1)
Tokens == Issued /\ Carried /\ ToStore /\ Ungreeted /\ Matched
LinkInv ==
  /\ LinkTypes /\ OnePort /\ Greeted /\ HelperFollows /\ Edits /\ MemoryFollows /\ Retrying /\ Tokens

-----------------------------------------------------------------------------
(* What the operators on the client's state do *)

LEMMA ConnectStep ==
  ASSUME NEW l \in LinkState
  PROVE  /\ connect(l) \in LinkState
         /\ \/ connect(l) = l /\ (l.connecting # "no" \/ l.port # 0)
            \/ /\ connect(l) = [l EXCEPT !.connecting = "permission"]
               /\ l.connecting = "no" /\ l.port = 0
BY DEF connect, LinkState

\* What the retries leave alone.
SameLink(r, l) ==
  /\ r \in LinkState
  /\ r.up = l.up /\ r.port = l.port /\ r.status = l.status /\ r.init = l.init /\ r.connecting = l.connecting

\* The timers of the client.
LEMMA TimersSet ==
  ASSUME NEW l \in LinkState, NEW n \in Nat, NEW b \in BOOLEAN, NEW r, r = [l EXCEPT !.timers = n, !.tracked = b]
  PROVE  SameLink(r, l) /\ r.lookups = l.lookups /\ r.timers = n /\ r.tracked = b
BY DEF LinkState, SameLink

LEMMA TimerStep ==
  ASSUME NEW l \in LinkState, NEW r, r = scheduleReconnectTimer(l)
  PROVE  SameLink(r, l) /\ r.lookups = l.lookups /\ r.timers = l.timers + 1
<1> DEFINE n == l.timers + 1
<1>1. n \in Nat
  BY DEF LinkState
<1>2. scheduleReconnectTimer(l) = [l EXCEPT !.timers = n, !.tracked = TRUE]
  BY DEF scheduleReconnectTimer
<1> HIDE DEF n
<1>3. r = [l EXCEPT !.timers = n, !.tracked = TRUE]
  BY <1>2
<1>4. SameLink(r, l) /\ r.lookups = l.lookups /\ r.timers = n
  BY <1>1, <1>3 DEF LinkState, SameLink
<1> QED
  BY <1>4 DEF n

\* A question to the alarms permission.
LEMMA LookupStep ==
  ASSUME NEW l \in LinkState, NEW x \in {"create", "clear"}, NEW r,
         r = [l EXCEPT !.lookups = Append(l.lookups, x)]
  PROVE  /\ SameLink(r, l) /\ r.lookups = Append(l.lookups, x)
         /\ r.timers = l.timers /\ r.tracked = l.tracked
<1>1. Append(l.lookups, x) \in Seq({"create", "clear"})
  BY DEF LinkState
<1> QED
  BY <1>1 DEF LinkState, SameLink

LEMMA BackoffStep ==
  ASSUME NEW l \in LinkState, NEW r, r = [l EXCEPT !.backoff = IF @ < TopBackoff THEN @ + 1 ELSE @]
  PROVE  SameLink(r, l) /\ r.lookups = l.lookups /\ r.timers = l.timers /\ r.tracked = l.tracked
<1>1. TopBackoff \in Nat
  BY LinkBoundsAssumption
<1> QED
  BY <1>1 DEF LinkState, SameLink

LEMMA ScheduleStep ==
  ASSUME NEW l \in LinkState, NEW r, r = scheduleReconnect(l)
  PROVE  /\ SameLink(r, l)
         /\ \/ r.lookups = l.lookups /\ r.timers = l.timers + 1
            \/ /\ r.lookups = Append(l.lookups, "create")
               /\ r.timers = l.timers /\ r.tracked = l.tracked
<1> DEFINE next == [l EXCEPT !.backoff = IF @ < TopBackoff THEN @ + 1 ELSE @]
<1>1. SameLink(next, l) /\ next.lookups = l.lookups /\ next.timers = l.timers /\ next.tracked = l.tracked
  BY BackoffStep
<1>2. r = IF l.backoff = TopBackoff THEN [next EXCEPT !.lookups = Append(next.lookups, "create")]
          ELSE scheduleReconnectTimer(next)
  BY DEF scheduleReconnect
<1> HIDE DEF next
<1>3. next \in LinkState
  BY <1>1 DEF SameLink
<1>4. CASE l.backoff = TopBackoff
  <2>1. /\ SameLink(r, next) /\ r.lookups = Append(next.lookups, "create")
        /\ r.timers = next.timers /\ r.tracked = next.tracked
    BY <1>2, <1>3, <1>4, LookupStep
  <2> QED
    BY <1>1, <2>1 DEF SameLink
<1>5. CASE l.backoff # TopBackoff
  <2>1. SameLink(r, next) /\ r.lookups = next.lookups /\ r.timers = next.timers + 1
    BY <1>2, <1>3, <1>5, TimerStep
  <2> QED
    BY <1>1, <2>1 DEF SameLink
<1> QED
  BY <1>4, <1>5

LEMMA CancelStep ==
  ASSUME NEW l \in LinkState, l.tracked => l.timers > 0, NEW r, r = cancelReconnect(l)
  PROVE  SameLink(r, l) /\ ~r.tracked
<1> DEFINE n == IF l.tracked THEN l.timers - 1 ELSE l.timers
           asked == [l EXCEPT !.lookups = Append(l.lookups, "clear")]
<1>1. SameLink(asked, l)
  BY LookupStep
<1>2. n \in Nat
  BY DEF LinkState
<1>3. r = [asked EXCEPT !.timers = n, !.tracked = FALSE]
  BY DEF cancelReconnect
<1> HIDE DEF asked, n
<1>4. asked \in LinkState
  BY <1>1 DEF SameLink
<1>5. SameLink(r, asked) /\ ~r.tracked
  BY <1>2, <1>3, <1>4, TimersSet
<1> QED
  BY <1>1, <1>5 DEF SameLink

-----------------------------------------------------------------------------
(* What the operators on the connections do *)

Connections == [Ports -> Connection]

\* The rest of a queue.
LEMMA TailOf ==
  ASSUME NEW S, NEW q \in Seq(S), q # <<>>
  PROVE  /\ Tail(q) \in Seq(S) /\ Head(q) \in S /\ Head(q) = q[1] /\ Len(q) > 0
         /\ Len(Tail(q)) = Len(q) - 1
         /\ \A k \in 1..Len(Tail(q)) : Tail(q)[k] = q[k + 1] /\ k + 1 \in 1..Len(q)
OBVIOUS

LEMMA EmptyOf ==
  ASSUME NEW S, NEW q \in Seq(S)
  PROVE  (q = <<>>) <=> (Len(q) = 0)
OBVIOUS

LEMMA AppendedTo ==
  ASSUME NEW S, NEW q \in Seq(S), NEW x \in S
  PROVE  /\ Append(q, x) \in Seq(S) /\ Len(Append(q, x)) = Len(q) + 1
         /\ \A k \in 1..Len(q) : Append(q, x)[k] = q[k]
         /\ Append(q, x)[Len(q) + 1] = x
OBVIOUS

\* The queues of a port.
LEMMA ToHelperSet ==
  ASSUME NEW c \in Connections, NEW p \in Ports, NEW q \in Seq(FromExt), NEW d,
         d = [c EXCEPT ![p].toHelper = q]
  PROVE  /\ d \in Connections /\ d[p].toHelper = q
         /\ d[p].toExt = c[p].toExt /\ d[p].end = c[p].end /\ d[p].authed = c[p].authed
         /\ \A r \in Ports : r # p => d[r] = c[r]
BY DEF Connections, Connection

LEMMA ToExtSet ==
  ASSUME NEW c \in Connections, NEW p \in Ports, NEW q \in Seq(FromHelper), NEW d,
         d = [c EXCEPT ![p].toExt = q]
  PROVE  /\ d \in Connections /\ d[p].toExt = q
         /\ d[p].toHelper = c[p].toHelper /\ d[p].end = c[p].end /\ d[p].authed = c[p].authed
         /\ \A r \in Ports : r # p => d[r] = c[r]
BY DEF Connections, Connection

LEMMA EndSet ==
  ASSUME NEW c \in Connections, NEW p \in Ports, NEW e \in Ends, NEW d, d = [c EXCEPT ![p].end = e]
  PROVE  /\ d \in Connections /\ d[p].end = e
         /\ d[p].toHelper = c[p].toHelper /\ d[p].toExt = c[p].toExt /\ d[p].authed = c[p].authed
         /\ \A r \in Ports : r # p => d[r] = c[r]
BY DEF Connections, Connection

\* d is c, but for messages that the client appended to port p.
Sent(d, c, p) ==
  /\ d \in Connections
  /\ \A r \in Ports : d[r].toExt = c[r].toExt /\ d[r].end = c[r].end /\ d[r].authed = c[r].authed
  /\ \A r \in Ports : r # p => d[r] = c[r]

LEMMA SentToHelper ==
  ASSUME NEW c \in Connections, NEW p \in Ports, NEW m \in FromExt, NEW d, d = ToHelper(c, p, m)
  PROVE  Sent(d, c, p) /\ d[p].toHelper = Append(c[p].toHelper, m)
<1>1. c[p].toHelper \in Seq(FromExt)
  BY DEF Connections, Connection
<1> DEFINE q == Append(c[p].toHelper, m)
<1>2. q \in Seq(FromExt)
  BY <1>1
<1>3. d = [c EXCEPT ![p].toHelper = q]
  BY DEF ToHelper
<1> HIDE DEF q
<1>4. /\ d \in Connections /\ d[p].toHelper = q
      /\ d[p].toExt = c[p].toExt /\ d[p].end = c[p].end /\ d[p].authed = c[p].authed
      /\ \A r \in Ports : r # p => d[r] = c[r]
  BY <1>2, <1>3 DEF Connections, Connection
<1> QED
  BY <1>4 DEF Sent, q

SettingsMessage(s) == [type |-> "settings", keys |-> s.keys]
LEMMA PushesSettings ==
  ASSUME NEW c \in Connections, NEW l, l.port \in 0..MaxPorts, NEW s \in Preferences, NEW d,
         d = pushSettings(c, l, s)
  PROVE  \/ d = c /\ Sent(d, c, l.port) /\ (l.port = 0 \/ s = Unset)
         \/ /\ l.port \in Ports /\ s # Unset /\ Sent(d, c, l.port)
            /\ d[l.port].toHelper = Append(c[l.port].toHelper, SettingsMessage(s))
<1>1. CASE l.port = 0 \/ s = Unset
  BY <1>1 DEF pushSettings, Sent
<1>2. CASE ~(l.port = 0 \/ s = Unset)
  <2>1. l.port \in Ports
    BY <1>2, LinkBoundsAssumption DEF Ports
  <2>2. SettingsMessage(s) \in FromExt
    BY DEF SettingsMessage, FromExt, Preferences
  <2>3. d = ToHelper(c, l.port, SettingsMessage(s))
    BY <1>2 DEF pushSettings, SettingsMessage
  <2> QED
    BY <1>2, <2>1, <2>2, <2>3, SentToHelper
<1> QED
  BY <1>1, <1>2

\* Settings that differ in one field.
LEMMA PreferencesSet ==
  ASSUME NEW s \in Preferences
  PROVE  /\ \A n \in Int : /\ [s EXCEPT !.keys = n] \in Preferences /\ [s EXCEPT !.keys = n].keys = n
                           /\ [s EXCEPT !.keys = n].consent = s.consent
         /\ \A n \in {0, 1} : /\ [s EXCEPT !.drive = n] \in Preferences /\ [s EXCEPT !.drive = n].keys = s.keys
                              /\ [s EXCEPT !.drive = n].consent = s.consent
         /\ /\ [s EXCEPT !.consent = TRUE] \in Preferences /\ [s EXCEPT !.consent = TRUE].keys = s.keys
            /\ [s EXCEPT !.consent = TRUE].consent
<1>1. \A n \in Int : /\ [s EXCEPT !.keys = n] \in Preferences /\ [s EXCEPT !.keys = n].keys = n
                     /\ [s EXCEPT !.keys = n].consent = s.consent
  BY DEF Preferences
<1>2. \A n \in {0, 1} : /\ [s EXCEPT !.drive = n] \in Preferences /\ [s EXCEPT !.drive = n].keys = s.keys
                        /\ [s EXCEPT !.drive = n].consent = s.consent
  BY DEF Preferences
<1>3. /\ [s EXCEPT !.consent = TRUE] \in Preferences /\ [s EXCEPT !.consent = TRUE].keys = s.keys
      /\ [s EXCEPT !.consent = TRUE].consent
  BY DEF Preferences
<1> QED
  BY <1>1, <1>2, <1>3

LEMMA EffectiveSettings ==
  ASSUME NEW s \in Preferences
  PROVE  /\ Unset \in Preferences /\ Unset.keys = -1 /\ Effective(s) \in Preferences
         /\ (s.keys >= 0 \/ s = Unset) => Effective(s).keys >= 0
         /\ Effective(s).keys <= (IF s.keys >= 0 THEN s.keys ELSE 0)
<1>1. Unset \in Preferences /\ Unset.keys = -1
  BY DEF Preferences, Unset
<1>2. [Unset EXCEPT !.keys = 0] \in Preferences /\ [Unset EXCEPT !.keys = 0].keys = 0
  <2>1. \A n \in Int : [Unset EXCEPT !.keys = n] \in Preferences /\ [Unset EXCEPT !.keys = n].keys = n
    BY <1>1, PreferencesSet
  <2>2. 0 \in Int
    OBVIOUS
  <2> QED
    BY <2>1, <2>2, Zenon
<1> QED
  BY <1>1, <1>2 DEF Effective, Preferences

LEMMA GetSettings ==
  ASSUME LinkTypes
  PROVE  getSettings = Effective(stored) /\ getSettings \in Preferences
BY EffectiveSettings DEF getSettings, Effective, LinkTypes
-----------------------------------------------------------------------------
(* What each action does to the client, and that a retry stays ahead *)

LEMMA ScheduleAhead ==
  ASSUME NEW l \in LinkState, Timed(l), NEW r, r = scheduleReconnect(l), NEW a
  PROVE  RetryAhead(r, a) /\ Timed(r)
<1>1. /\ SameLink(r, l)
      /\ \/ r.lookups = l.lookups /\ r.timers = l.timers + 1
         \/ /\ r.lookups = Append(l.lookups, "create")
            /\ r.timers = l.timers /\ r.tracked = l.tracked
  BY ScheduleStep
<1>2. l.timers \in Nat /\ l.lookups \in Seq({"create", "clear"})
  BY DEF LinkState
<1>3. CASE r.timers = l.timers + 1
  BY <1>2, <1>3 DEF RetryAhead, Timed
<1>4. CASE /\ r.lookups = Append(l.lookups, "create")
           /\ r.timers = l.timers /\ r.tracked = l.tracked
  <2>1. /\ Len(r.lookups) = Len(l.lookups) + 1 /\ Len(l.lookups) \in Nat
        /\ r.lookups[Len(l.lookups) + 1] = "create"
    BY <1>2, <1>4
  <2>2. \A j \in Clears(r.lookups) : j < Len(l.lookups) + 1
    BY <2>1 DEF Clears
  <2>3. RetryAhead(r, a)
    BY <2>1, <2>2 DEF RetryAhead
  <2> QED
    BY <1>4, <2>3 DEF Timed
<1> QED
  BY <1>1, <1>3, <1>4

\* The client has the same port, in the same state, and asks for no other one meanwhile.
LinkStays ==
  /\ link' \in LinkState
  /\ link'.up = link.up /\ link'.port = link.port /\ link'.status = link.status /\ link'.init = link.init
  /\ link'.connecting = "permission" => link.port = 0
  /\ link.up \/ link' = link

\* connect for a client that stays as it is otherwise.
LEMMA ConnectRetries ==
  ASSUME NEW l \in LinkState, l.connecting = "permission" => l.port = 0, Timed(l),
         l.connecting # "no" \/ l.port # 0 => (Lost(l) => RetryAhead(l, alarm')),
         link' = connect(l)
  PROVE  /\ link' \in LinkState
         /\ link'.up = l.up /\ link'.port = l.port /\ link'.status = l.status /\ link'.init = l.init
         /\ link'.connecting = "permission" => link'.port = 0
         /\ Retrying'
<1>1. /\ link' \in LinkState
      /\ \/ link' = l /\ (l.connecting # "no" \/ l.port # 0)
         \/ /\ link' = [l EXCEPT !.connecting = "permission"]
            /\ l.connecting = "no" /\ l.port = 0
  BY ConnectStep
<1>2. CASE link' = l /\ (l.connecting # "no" \/ l.port # 0)
  <2>1. Timed(link') /\ (Lost(link') => RetryAhead(link', alarm'))
    BY <1>2
  <2>2. link'.connecting = "permission" => link'.port = 0
    BY <1>2
  <2> QED
    BY <1>1, <1>2, <2>1, <2>2 DEF Retrying
<1>3. CASE /\ link' = [l EXCEPT !.connecting = "permission"]
           /\ l.connecting = "no" /\ l.port = 0
  <2>1. /\ link'.up = l.up /\ link'.port = l.port /\ link'.status = l.status /\ link'.init = l.init
        /\ link'.connecting = "permission" /\ link'.timers = l.timers /\ link'.tracked = l.tracked
    BY <1>3 DEF LinkState
  <2> QED
    BY <1>1, <1>3, <2>1 DEF Retrying, Timed, Lost
<1> QED
  BY <1>1, <1>2, <1>3

LEMMA alarmPermissionLink ==
  ASSUME LinkTypes, OnePort, Retrying, alarmPermission
  PROVE  LinkStays /\ Retrying' /\ alarm' \in BOOLEAN
<1> DEFINE rest == [link EXCEPT !.lookups = Tail(link.lookups)]
<1>1. link \in LinkState /\ link.lookups \in Seq({"create", "clear"}) /\ alarm \in BOOLEAN
  BY DEF LinkTypes, LinkState
<1>2. link.lookups # <<>>
  BY DEF alarmPermission
<1>3. /\ Tail(link.lookups) \in Seq({"create", "clear"}) /\ Head(link.lookups) = link.lookups[1]
      /\ Len(link.lookups) \in Nat /\ Len(link.lookups) > 0 /\ Len(Tail(link.lookups)) = Len(link.lookups) - 1
      /\ \A k \in 1..Len(Tail(link.lookups)) :
           Tail(link.lookups)[k] = link.lookups[k + 1] /\ k + 1 \in 1..Len(link.lookups)
  BY <1>1, <1>2
<1>4. /\ SameLink(rest, link) /\ rest.lookups = Tail(link.lookups)
      /\ rest.timers = link.timers /\ rest.tracked = link.tracked
  BY <1>1, <1>3 DEF LinkState, SameLink
<1>5. \/ Head(link.lookups) = "create" /\ alarm' = TRUE /\ link' = rest
      \/ Head(link.lookups) = "create" /\ alarm' = alarm /\ link' = scheduleReconnectTimer(rest)
      \/ Head(link.lookups) # "create" /\ alarm' = (alarm /\ ~scene.alarms) /\ link' = rest
  BY DEF alarmPermission
<1> HIDE DEF rest
<1>6. link.up /\ (link.connecting = "permission" => link.port = 0)
  BY <1>2 DEF OnePort
<1>7. Timed(link) /\ (Lost(link) => RetryAhead(link, alarm))
  BY DEF Retrying
<1>8. CASE Head(link.lookups) = "create" /\ alarm' = TRUE /\ link' = rest
  <2>1. LinkStays
    BY <1>4, <1>6, <1>8 DEF LinkStays, SameLink
  <2>2. ASSUME RetryAhead(link, alarm) PROVE RetryAhead(rest, TRUE)
    <3>1. CASE link.timers > 0
      BY <3>1, <1>4 DEF RetryAhead
    <3>2. CASE \E k \in 1..Len(link.lookups) :
                 link.lookups[k] = "create" /\ \A j \in Clears(link.lookups) : j < k
      <4> PICK k \in 1..Len(link.lookups) :
                 link.lookups[k] = "create" /\ \A j \in Clears(link.lookups) : j < k
        BY <3>2
      <4>1. \A j \in Clears(rest.lookups) : j + 1 \in Clears(link.lookups) /\ j \in Nat
        BY <1>3, <1>4 DEF Clears
      <4>2. CASE k = 1
        <5>1. Clears(rest.lookups) = {}
          BY <4>1, <4>2 DEF Clears
        <5> QED
          BY <5>1 DEF RetryAhead
      <4>3. CASE k # 1
        <5>1. k - 1 \in 1..Len(rest.lookups) /\ rest.lookups[k - 1] = "create"
          BY <1>3, <1>4, <4>3
        <5>2. \A j \in Clears(rest.lookups) : j < k - 1
          BY <4>1
        <5> QED
          BY <5>1, <5>2 DEF RetryAhead
      <4> QED
        BY <4>2, <4>3
    <3>3. CASE alarm /\ Clears(link.lookups) = {}
      <4>1. Clears(rest.lookups) = {}
        BY <3>3, <1>3, <1>4 DEF Clears
      <4> QED
        BY <4>1 DEF RetryAhead
    <3> QED
      BY <2>2, <3>1, <3>2, <3>3 DEF RetryAhead
  <2>3. Lost(link') => RetryAhead(link', alarm')
    BY <1>4, <1>7, <1>8, <2>2 DEF Lost, SameLink
  <2>4. Timed(link')
    BY <1>4, <1>7, <1>8 DEF Timed
  <2> QED
    BY <1>8, <2>1, <2>3, <2>4 DEF Retrying
<1>9. CASE Head(link.lookups) = "create" /\ alarm' = alarm /\ link' = scheduleReconnectTimer(rest)
  <2>1. rest \in LinkState
    BY <1>4 DEF SameLink
  <2>2. SameLink(link', rest) /\ link'.lookups = rest.lookups /\ link'.timers = rest.timers + 1
    BY <1>9, <2>1, TimerStep
  <2>3. LinkStays
    BY <1>4, <1>6, <2>2 DEF LinkStays, SameLink
  <2>4. link'.timers > 0
    BY <1>4, <2>2, <1>1 DEF LinkState
  <2> QED
    BY <1>1, <1>9, <2>3, <2>4 DEF Retrying, Timed, RetryAhead
<1>10. CASE Head(link.lookups) # "create" /\ alarm' = (alarm /\ ~scene.alarms) /\ link' = rest
  <2>1. LinkStays
    BY <1>4, <1>6, <1>10 DEF LinkStays, SameLink
  <2>2. ASSUME RetryAhead(link, alarm) PROVE RetryAhead(rest, alarm')
    <3>0. 1 \in Clears(link.lookups)
      BY <1>1, <1>3, <1>10 DEF Clears
    <3>1. CASE link.timers > 0
      BY <3>1, <1>4 DEF RetryAhead
    <3>2. CASE \E k \in 1..Len(link.lookups) :
                 link.lookups[k] = "create" /\ \A j \in Clears(link.lookups) : j < k
      <4> PICK k \in 1..Len(link.lookups) :
                 link.lookups[k] = "create" /\ \A j \in Clears(link.lookups) : j < k
        BY <3>2
      <4>1. \A j \in Clears(rest.lookups) : j + 1 \in Clears(link.lookups) /\ j \in Nat
        BY <1>3, <1>4 DEF Clears
      <4>2. k > 1
        BY <3>0
      <4>3. k - 1 \in 1..Len(rest.lookups) /\ rest.lookups[k - 1] = "create"
        BY <1>3, <1>4, <4>2
      <4>4. \A j \in Clears(rest.lookups) : j < k - 1
        BY <4>1
      <4> QED
        BY <4>3, <4>4 DEF RetryAhead
    <3> QED
      BY <2>2, <3>0, <3>1, <3>2 DEF RetryAhead
  <2>3. Lost(link') => RetryAhead(link', alarm')
    BY <1>4, <1>7, <1>10, <2>2 DEF Lost, SameLink
  <2>4. Timed(link')
    BY <1>4, <1>7, <1>10 DEF Timed
  <2>5. alarm' \in BOOLEAN
    BY <1>10
  <2> QED
    BY <2>1, <2>3, <2>4, <2>5 DEF Retrying
<1> QED
  BY <1>5, <1>8, <1>9, <1>10

\* A worker starts.
LinkWakes ==
  /\ link' \in LinkState /\ ~link.up /\ link'.up
  /\ link'.port = 0 /\ link'.status = "none" /\ link'.init = "loading"

LEMMA AsleepState ==
  ASSUME NEW l, l = [AsleepLink EXCEPT !.up = TRUE, !.init = "loading"]
  PROVE  /\ l \in LinkState /\ l.up /\ l.port = 0 /\ l.status = "none" /\ l.init = "loading"
         /\ l.connecting = "no" /\ ~l.tracked
<1>1. MaxPorts \in Nat /\ TopBackoff \in Nat
  BY LinkBoundsAssumption
<1>2. <<>> \in Seq({"create", "clear"})
  OBVIOUS
<1>3. l = [up |-> TRUE, port |-> 0, connecting |-> "no", status |-> "none", backoff |-> 0,
           timers |-> 0, tracked |-> FALSE, lookups |-> <<>>, init |-> "loading"]
  BY DEF AsleepLink
<1>4. /\ l.up /\ l.port = 0 /\ l.status = "none" /\ l.init = "loading"
      /\ l.connecting = "no" /\ ~l.tracked
  BY DEF AsleepLink
<1>5. /\ 0 \in 0..MaxPorts /\ 0 \in 0..TopBackoff /\ "none" \in Statuses /\ TRUE \in BOOLEAN /\ FALSE \in BOOLEAN
  BY <1>1 DEF Statuses
<1>6. l \in LinkState
  BY <1>2, <1>5 DEF LinkState, AsleepLink
<1> QED
  BY <1>4, <1>6

LEMMA TimerFiresLink ==
  ASSUME LinkTypes, OnePort, Retrying, TimerFires
  PROVE  LinkStays /\ Retrying'
<1> DEFINE n == link.timers - 1
           l == [link EXCEPT !.timers = n, !.tracked = FALSE]
<1>1. link \in LinkState /\ link.timers \in Nat /\ link.timers > 0
  BY DEF LinkTypes, LinkState, TimerFires
<1>2. link' = connect(l) /\ alarm' = alarm /\ (link.connecting = "hello" => link.port # 0)
  BY DEF TimerFires, ReadOver
<1>3. n \in Nat
  BY <1>1
<1> HIDE DEF n
<1>4. SameLink(l, link) /\ l.tracked = FALSE
  BY <1>1, <1>3 DEF LinkState, SameLink
<1> HIDE DEF l
<1>5. /\ l \in LinkState /\ Timed(l) /\ l.port = link.port /\ l.connecting = link.connecting
      /\ l.connecting = "permission" => l.port = 0
  BY <1>4 DEF SameLink, Timed, OnePort
<1>6. l.connecting # "no" \/ l.port # 0 => ~Lost(l)
  BY <1>2, <1>5 DEF Lost, LinkState
<1>7. /\ link' \in LinkState
      /\ link'.up = l.up /\ link'.port = l.port /\ link'.status = l.status /\ link'.init = l.init
      /\ link'.connecting = "permission" => link'.port = 0
      /\ Retrying'
  BY <1>2, <1>5, <1>6, ConnectRetries
<1>8. link.up
  BY <1>1 DEF OnePort
<1> QED
  BY <1>4, <1>7, <1>8 DEF LinkStays, SameLink

LEMMA retryFromAlarmLink ==
  ASSUME LinkTypes, OnePort, Retrying, retryFromAlarm
  PROVE  (LinkStays \/ LinkWakes) /\ Retrying' /\ alarm' \in BOOLEAN
<1>1. /\ alarm' = FALSE /\ (link.connecting = "hello" => link.port # 0)
      /\ link' = connect(IF link.up THEN link ELSE [AsleepLink EXCEPT !.up = TRUE, !.init = "loading"])
  BY DEF retryFromAlarm, ReadOver
<1>2. CASE link.up
  <2>1. link' = connect(link)
    BY <1>1, <1>2
  <2>2. /\ link \in LinkState /\ Timed(link)
        /\ link.connecting = "permission" => link.port = 0
    BY DEF LinkTypes, OnePort, Retrying
  <2>3. link.connecting # "no" \/ link.port # 0 => ~Lost(link)
    BY <1>1, <2>2 DEF Lost, LinkState
  <2>4. /\ link' \in LinkState
        /\ link'.up = link.up /\ link'.port = link.port /\ link'.status = link.status /\ link'.init = link.init
        /\ link'.connecting = "permission" => link'.port = 0
        /\ Retrying'
    BY <2>1, <2>2, <2>3, ConnectRetries
  <2> QED
    BY <1>1, <1>2, <2>4 DEF LinkStays
<1>3. CASE ~link.up
  <2> DEFINE l == [AsleepLink EXCEPT !.up = TRUE, !.init = "loading"]
  <2>1. link' = connect(l)
    BY <1>1, <1>3
  <2>2. /\ l \in LinkState /\ l.up /\ l.port = 0 /\ l.status = "none" /\ l.init = "loading"
        /\ l.connecting = "no" /\ ~l.tracked
    BY AsleepState
  <2> HIDE DEF l
  <2>3. Timed(l) /\ ~Lost(l)
    BY <2>2 DEF Timed, Lost
  <2>4. /\ link' \in LinkState
        /\ link'.up = l.up /\ link'.port = l.port /\ link'.status = l.status /\ link'.init = l.init
        /\ Retrying'
    BY <2>1, <2>2, <2>3, ConnectRetries
  <2> QED
    BY <1>1, <1>3, <2>2, <2>4 DEF LinkWakes
<1> QED
  BY <1>2, <1>3

LEMMA WorkerWakesLink ==
  ASSUME WorkerWakes
  PROVE  LinkWakes /\ Retrying'
<1>1. ~link.up /\ link' = [AsleepLink EXCEPT !.up = TRUE, !.init = "loading"]
  BY DEF WorkerWakes
<1>2. /\ link' \in LinkState /\ link'.up /\ link'.port = 0 /\ link'.status = "none" /\ link'.init = "loading"
      /\ link'.connecting = "no" /\ ~link'.tracked
  BY <1>1, AsleepState
<1> QED
  BY <1>1, <1>2 DEF LinkWakes, Retrying, Timed, Lost

LEMMA checkHelperLink ==
  ASSUME LinkTypes, OnePort, Retrying, checkHelper
  PROVE  LinkStays /\ Retrying'
<1>1. link' = connect(link) /\ alarm' = alarm /\ link.up
  BY DEF checkHelper, OnePort
<1>2. /\ link \in LinkState /\ Timed(link) /\ (Lost(link) => RetryAhead(link, alarm'))
      /\ link.connecting = "permission" => link.port = 0
  BY <1>1 DEF LinkTypes, OnePort, Retrying
<1>3. /\ link' \in LinkState
      /\ link'.up = link.up /\ link'.port = link.port /\ link'.status = link.status /\ link'.init = link.init
      /\ link'.connecting = "permission" => link'.port = 0
      /\ Retrying'
  BY <1>1, <1>2, ConnectRetries
<1> QED
  BY <1>1, <1>3 DEF LinkStays

\* The controller has read storage.
LinkLoads ==
  /\ link' \in LinkState /\ link.up /\ link.init = "loading" /\ link'.init = "done"
  /\ link'.up = link.up /\ link'.port = link.port /\ link'.status = link.status
  /\ link'.connecting = "permission" => link.port = 0

LEMMA controllerInitLink ==
  ASSUME LinkTypes, OnePort, Retrying, controllerInit
  PROVE  LinkLoads /\ Retrying'
<1> DEFINE l == [link EXCEPT !.init = "done"]
<1>1. link' = connect(l) /\ alarm' = alarm /\ link.init = "loading" /\ link.up
  BY DEF controllerInit, OnePort
<1>2. /\ l \in LinkState /\ l.up = link.up /\ l.port = link.port /\ l.status = link.status
      /\ l.connecting = link.connecting /\ l.init = "done"
      /\ l.timers = link.timers /\ l.tracked = link.tracked /\ l.lookups = link.lookups
  BY DEF LinkTypes, LinkState
<1> HIDE DEF l
<1>3. /\ Timed(l) /\ (Lost(l) => RetryAhead(l, alarm'))
      /\ l.connecting = "permission" => l.port = 0
  BY <1>1, <1>2 DEF OnePort, Retrying, Timed, Lost, RetryAhead
<1>4. /\ link' \in LinkState
      /\ link'.up = l.up /\ link'.port = l.port /\ link'.status = l.status /\ link'.init = l.init
      /\ link'.connecting = "permission" => link'.port = 0
      /\ Retrying'
  BY <1>1, <1>2, <1>3, ConnectRetries
<1> QED
  BY <1>1, <1>2, <1>4 DEF LinkLoads

\* An attempt that ends without a port.
LinkFails ==
  /\ link' \in LinkState /\ link.up /\ link'.up = link.up /\ link'.init = link.init
  /\ link.port = 0 /\ link'.port = 0 /\ link'.connecting = "no"
  /\ link'.status \in {"permission_required", "helper_not_found"}

\* An attempt that opens the next port.
LinkOpens ==
  /\ link' \in LinkState /\ link.up /\ link'.up = link.up /\ link'.init = link.init
  /\ link.port = 0 /\ ports + 1 \in Ports /\ link'.port = ports + 1 /\ link'.connecting = "hello" /\ link'.status = "connecting"

\* A status and the state of an attempt.
LEMMA StatusSet ==
  ASSUME NEW l \in LinkState, NEW s \in Statuses, NEW r, r = [l EXCEPT !.status = s]
  PROVE  /\ r \in LinkState /\ r.status = s
         /\ r.up = l.up /\ r.port = l.port /\ r.init = l.init /\ r.connecting = l.connecting
         /\ r.timers = l.timers /\ r.tracked = l.tracked /\ r.lookups = l.lookups
BY DEF LinkState

LEMMA PortSet ==
  ASSUME NEW l \in LinkState, NEW p \in 0..MaxPorts, NEW r, r = [l EXCEPT !.port = p]
  PROVE  /\ r \in LinkState /\ r.port = p
         /\ r.up = l.up /\ r.status = l.status /\ r.init = l.init /\ r.connecting = l.connecting
         /\ r.timers = l.timers /\ r.tracked = l.tracked /\ r.lookups = l.lookups
BY DEF LinkState

LEMMA ConnectingSet ==
  ASSUME NEW l \in LinkState, NEW c \in {"no", "permission", "hello"}, NEW r, r = [l EXCEPT !.connecting = c]
  PROVE  /\ r \in LinkState /\ r.connecting = c
         /\ r.up = l.up /\ r.status = l.status /\ r.init = l.init /\ r.port = l.port
         /\ r.timers = l.timers /\ r.tracked = l.tracked /\ r.lookups = l.lookups
BY DEF LinkState

LEMMA connectNativeLink ==
  ASSUME LinkTypes, OnePort, Retrying, connectNative
  PROVE  /\ Retrying'
         /\ \/ LinkFails /\ conn' = conn /\ ports' \in {ports, ports + 1} /\ ports' \in 0..MaxPorts
            \/ /\ LinkOpens /\ ports' = ports + 1
               /\ conn' = [conn EXCEPT ![ports + 1].end =
                             IF ~installed THEN "missing" ELSE IF helper.up THEN "open" ELSE "closed"]
<1>1. /\ link \in LinkState /\ link.up /\ link.port = 0 /\ link.connecting = "permission" /\ Timed(link)
      /\ alarm' = alarm /\ ports \in Nat /\ MaxPorts \in Nat /\ ports \in 0..MaxPorts
  BY LinkBoundsAssumption DEF LinkTypes, OnePort, Retrying, connectNative
<1>2. CASE link' = [link EXCEPT !.status = "permission_required", !.connecting = "no"] /\ UNCHANGED wireVars
  <2>1. /\ link' \in LinkState /\ link'.up = link.up /\ link'.init = link.init /\ link'.port = link.port
        /\ link'.connecting = "no" /\ link'.status = "permission_required"
        /\ link'.timers = link.timers /\ link'.tracked = link.tracked
    BY <1>1, <1>2 DEF LinkState, Statuses
  <2> QED
    BY <1>1, <1>2, <2>1 DEF LinkFails, Retrying, Timed, Lost, wireVars
<1>3. CASE /\ link' = [handleHostMissing(link) EXCEPT !.connecting = "no"]
           /\ ports < MaxPorts /\ ports' = ports + 1 /\ UNCHANGED conn
  <2> DEFINE l == [link EXCEPT !.status = "helper_not_found"]
             r == scheduleReconnect(l)
  <2>1. /\ l \in LinkState /\ l.status = "helper_not_found"
        /\ l.up = link.up /\ l.port = link.port /\ l.init = link.init
        /\ l.timers = link.timers /\ l.tracked = link.tracked
    BY <1>1 DEF LinkState, Statuses
  <2>2. link' = [r EXCEPT !.connecting = "no"]
    BY <1>3 DEF handleHostMissing
  <2> HIDE DEF l
  <2>3. Timed(l)
    BY <1>1, <2>1 DEF Timed
  <2>4. SameLink(r, l) /\ RetryAhead(r, alarm) /\ Timed(r)
    BY <2>1, <2>3, ScheduleStep, ScheduleAhead
  <2> HIDE DEF r
  <2>5. r \in LinkState
    BY <2>4 DEF SameLink
  <2>6. /\ link' \in LinkState /\ link'.connecting = "no"
        /\ link'.up = r.up /\ link'.status = r.status /\ link'.init = r.init /\ link'.port = r.port
        /\ link'.timers = r.timers /\ link'.tracked = r.tracked /\ link'.lookups = r.lookups
    BY <2>2, <2>5, ConnectingSet
  <2>7. RetryAhead(link', alarm') /\ Timed(link')
    BY <1>1, <2>4, <2>6 DEF RetryAhead, Timed
  <2>8. Retrying'
    BY <2>7 DEF Retrying
  <2>9. LinkFails
    BY <1>1, <2>1, <2>4, <2>6 DEF LinkFails, SameLink
  <2>10. ports' \in {ports, ports + 1} /\ ports' \in 0..MaxPorts
    BY <1>1, <1>3
  <2> QED
    BY <1>3, <2>8, <2>9, <2>10
<1>4. CASE /\ ports < MaxPorts /\ ports' = ports + 1
           /\ conn' = [conn EXCEPT ![ports + 1].end =
                         IF ~installed THEN "missing" ELSE IF helper.up THEN "open" ELSE "closed"]
           /\ link' = [link EXCEPT !.status = "connecting", !.connecting = "hello", !.port = ports + 1]
  <2> DEFINE p == ports + 1
  <2>1. p \in 0..MaxPorts /\ p \in Ports /\ p # 0
    BY <1>1, <1>4 DEF Ports
  <2>2. link' = [link EXCEPT !.status = "connecting", !.connecting = "hello", !.port = p]
    BY <1>4
  <2> HIDE DEF p
  <2>3. /\ link' \in LinkState /\ link'.up = link.up /\ link'.init = link.init /\ link'.port = p
        /\ link'.connecting = "hello" /\ link'.status = "connecting"
        /\ link'.timers = link.timers /\ link'.tracked = link.tracked
    BY <1>1, <2>1, <2>2 DEF LinkState, Statuses
  <2>4. LinkOpens /\ Retrying'
    BY <1>1, <2>1, <2>3 DEF LinkOpens, Retrying, Timed, Lost, p
  <2> QED
    BY <1>4, <2>4
<1> QED
  BY <1>2, <1>3, <1>4 DEF connectNative

LEMMA sendHelloLink ==
  ASSUME LinkTypes, OnePort, Retrying, sendHello
  PROVE  LinkStays /\ Retrying'
<1>1. /\ link \in LinkState /\ link.up /\ link.connecting = "hello"
      /\ link' = [link EXCEPT !.connecting = "no"] /\ alarm' = alarm
  BY DEF LinkTypes, OnePort, sendHello
<1>2. /\ link' \in LinkState /\ link'.connecting = "no"
      /\ link'.up = link.up /\ link'.status = link.status /\ link'.init = link.init /\ link'.port = link.port
      /\ link'.timers = link.timers /\ link'.tracked = link.tracked /\ link'.lookups = link.lookups
  BY <1>1 DEF LinkState
<1>3. LinkStays
  BY <1>1, <1>2 DEF LinkStays
<1> QED
  BY <1>1, <1>2, <1>3 DEF Retrying, Timed, Lost, RetryAhead

\* The port is gone.
LinkLoses ==
  /\ link' \in LinkState /\ link.up /\ link'.up = link.up /\ link'.init = link.init
  /\ link'.port = 0 /\ link'.status \in {"disconnected", "helper_not_found"} /\ link'.connecting = link.connecting

LEMMA handleDisconnectLink ==
  ASSUME LinkTypes, OnePort, Retrying, NEW p \in Ports, handleDisconnect(p)
  PROVE  link.port = p /\ LinkLoses /\ Retrying'
<1>1. /\ link \in LinkState /\ link.up /\ Timed(link) /\ alarm' = alarm /\ MaxPorts \in Nat
      /\ conn[p].end \in {"closed", "missing"}
      /\ link' = IF link.port # p THEN link
                 ELSE IF conn[p].end = "missing" THEN handleHostMissing([link EXCEPT !.port = 0])
                      ELSE scheduleReconnect([[link EXCEPT !.port = 0] EXCEPT !.status = "disconnected"])
  BY LinkBoundsAssumption DEF LinkTypes, Retrying, handleDisconnect
<1>2. link.port = p
  BY <1>1 DEF OnePort, NoPort
<1> DEFINE lost == [link EXCEPT !.port = 0]
<1>3. /\ lost \in LinkState /\ lost.port = 0
      /\ lost.up = link.up /\ lost.status = link.status /\ lost.init = link.init /\ lost.connecting = link.connecting
      /\ lost.timers = link.timers /\ lost.tracked = link.tracked /\ lost.lookups = link.lookups
  <2>1. link \in LinkState /\ 0 \in 0..MaxPorts
    BY <1>1
  <2> QED
    BY <2>1 DEF LinkState
<1>4. \E s \in {"disconnected", "helper_not_found"} : link' = scheduleReconnect([lost EXCEPT !.status = s])
  BY <1>1, <1>2 DEF handleHostMissing
<1> HIDE DEF lost
<1> PICK s \in {"disconnected", "helper_not_found"} : link' = scheduleReconnect([lost EXCEPT !.status = s])
  BY <1>4
<1> DEFINE l == [lost EXCEPT !.status = s]
<1>5. /\ l \in LinkState /\ l.status = s
      /\ l.up = lost.up /\ l.port = lost.port /\ l.init = lost.init /\ l.connecting = lost.connecting
      /\ l.timers = lost.timers /\ l.tracked = lost.tracked /\ l.lookups = lost.lookups
  <2>1. s \in Statuses
    BY DEF Statuses
  <2> QED
    BY <1>3, <2>1, StatusSet
<1>6. link' = scheduleReconnect(l)
  OBVIOUS
<1> HIDE DEF l
<1>7. Timed(l)
  BY <1>1, <1>3, <1>5 DEF Timed
<1>8. SameLink(link', l) /\ RetryAhead(link', alarm') /\ Timed(link')
  BY <1>5, <1>6, <1>7, ScheduleStep, ScheduleAhead
<1>9. LinkLoses
  BY <1>1, <1>3, <1>5, <1>8 DEF LinkLoses, SameLink
<1> QED
  BY <1>2, <1>8, <1>9 DEF Retrying

\* A message of the helper arrives.
Rest(p) == [conn EXCEPT ![p].toExt = Tail(conn[p].toExt)]
First(p) == Head(conn[p].toExt)
LinkHears ==
  /\ link' \in LinkState /\ link.up /\ link'.up = link.up /\ link'.init = link.init
  /\ link'.port = link.port /\ link'.connecting = link.connecting
HearsInfo(p) ==
  /\ First(p).type = "info" /\ writes' = writes
  /\ link'.status \in {"connected", "incompatible"}
  /\ conn' = IF link'.status = "connected" /\ link.status # "connected"
             THEN pushSettings(Rest(p), link, current) ELSE Rest(p)
HearsPaired(p) ==
  First(p).type = "paired" /\ writes' = Append(writes, First(p).token) /\ link'.status = link.status /\ conn' = Rest(p)
HearsRefusal(p) ==
  First(p).type = "not_paired" /\ writes' = Append(writes, 0) /\ link'.status = "needs_pairing" /\ conn' = Rest(p)
HearsOther(p) ==
  First(p).type \in {"answer", "storage_error"} /\ writes' = writes /\ link'.status = link.status /\ conn' = Rest(p)

LEMMA HealthyStep ==
  ASSUME NEW l \in LinkState, NEW r, r = [l EXCEPT !.backoff = 0]
  PROVE  SameLink(r, l) /\ r.timers = l.timers /\ r.tracked = l.tracked
<1>1. 0 \in 0..TopBackoff
  BY LinkBoundsAssumption
<1> QED
  BY <1>1 DEF LinkState, SameLink

LEMMA handleMessageLink ==
  ASSUME LinkTypes, OnePort, Retrying, NEW p \in Ports, handleMessage(p)
  PROVE  /\ link.port = p /\ conn[p].toExt # <<>> /\ LinkHears /\ Retrying'
         /\ HearsInfo(p) \/ HearsPaired(p) \/ HearsRefusal(p) \/ HearsOther(p)
<1>1. link \in LinkState /\ link.up /\ conn[p].toExt # <<>> /\ Timed(link)
  BY DEF LinkTypes, Retrying, handleMessage
<1>2. link.port = p /\ p # 0
  BY <1>1 DEF OnePort, Ports
<1>3. SameLink(Healthy, link) /\ Healthy.timers = link.timers /\ Healthy.tracked = link.tracked
  <2>1. CASE link.status = "connected"
    <3>1. Healthy = [link EXCEPT !.backoff = 0]
      BY <2>1 DEF Healthy
    <3> QED
      BY <1>1, <3>1, HealthyStep
  <2>2. CASE link.status # "connected"
    BY <1>1, <2>2 DEF Healthy, SameLink
  <2> QED
    BY <2>1, <2>2
<1>4. CASE First(p).type = "info" /\ helperInfo(p)
  <2> DEFINE low == [link EXCEPT !.backoff = 0]
             s == IF scene.compatible THEN "connected" ELSE "incompatible"
             l == [low EXCEPT !.status = s]
  <2>1. SameLink(low, link) /\ low.timers = link.timers /\ low.tracked = link.tracked
    BY <1>1, HealthyStep
  <2>2. /\ link' = IF scene.compatible THEN l ELSE cancelReconnect(l)
        /\ conn' = handleStatusChange(Rest(p), l, link.status)
        /\ writes' = writes
    BY <1>4 DEF helperInfo, Rest
  <2> HIDE DEF low
  <2>3. s \in {"connected", "incompatible"} /\ s \in Statuses
    BY DEF Statuses
  <2>4. low \in LinkState
    BY <2>1 DEF SameLink
  <2>5. /\ l \in LinkState /\ l.status = s
        /\ l.up = low.up /\ l.port = low.port /\ l.init = low.init /\ l.connecting = low.connecting
        /\ l.timers = low.timers /\ l.tracked = low.tracked
    BY <2>3, <2>4 DEF LinkState
  <2> HIDE DEF l, s
  <2>6. Timed(l)
    BY <1>1, <2>1, <2>5 DEF Timed
  <2>7. SameLink(link', l) /\ Timed(link')
    <3>1. CASE scene.compatible
      BY <2>2, <2>5, <2>6, <3>1 DEF SameLink
    <3>2. CASE ~scene.compatible
      <4>1. link' = cancelReconnect(l)
        BY <2>2, <3>2
      <4>2. l.tracked => l.timers > 0
        BY <2>6 DEF Timed
      <4> QED
        BY <2>5, <4>1, <4>2, CancelStep DEF Timed
    <3> QED
      BY <3>1, <3>2
  <2>8. /\ link' \in LinkState /\ link'.up = link.up /\ link'.init = link.init
        /\ link'.port = link.port /\ link'.connecting = link.connecting /\ link'.status = s
    BY <2>1, <2>5, <2>7 DEF SameLink
  <2>9. Retrying'
    BY <1>2, <2>7, <2>8 DEF Retrying, Lost
  <2>10. l.port = link.port /\ l.status = s
    BY <2>1, <2>5 DEF SameLink
  <2>11. conn' = IF s = "connected" /\ link.status # "connected"
                 THEN pushSettings(Rest(p), link, current) ELSE Rest(p)
    BY <2>2, <2>10 DEF handleStatusChange, pushSettings
  <2> QED
    BY <1>1, <1>2, <1>4, <2>2, <2>3, <2>8, <2>9, <2>11 DEF LinkHears, HearsInfo
<1>5. CASE First(p).type = "not_paired" /\ writes' = Append(writes, 0) /\ conn' = Rest(p)
           /\ link' = cancelReconnect([Healthy EXCEPT !.status = "needs_pairing"])
  <2> DEFINE l == [Healthy EXCEPT !.status = "needs_pairing"]
  <2>1. Healthy \in LinkState
    BY <1>3 DEF SameLink
  <2>2. /\ l \in LinkState /\ l.status = "needs_pairing"
        /\ l.up = Healthy.up /\ l.port = Healthy.port /\ l.init = Healthy.init /\ l.connecting = Healthy.connecting
        /\ l.timers = Healthy.timers /\ l.tracked = Healthy.tracked
    BY <2>1 DEF LinkState, Statuses
  <2>3. link' = cancelReconnect(l)
    BY <1>5
  <2> HIDE DEF l
  <2>4. l.tracked => l.timers > 0
    BY <1>1, <1>3, <2>2 DEF Timed
  <2>5. SameLink(link', l) /\ Timed(link')
    BY <2>2, <2>3, <2>4, CancelStep DEF Timed
  <2>6. /\ link' \in LinkState /\ link'.up = link.up /\ link'.init = link.init
        /\ link'.port = link.port /\ link'.connecting = link.connecting /\ link'.status = "needs_pairing"
    BY <1>3, <2>2, <2>5 DEF SameLink
  <2>7. Retrying'
    BY <1>2, <2>5, <2>6 DEF Retrying, Lost
  <2> QED
    BY <1>1, <1>2, <1>5, <2>6, <2>7 DEF LinkHears, HearsRefusal
<1>6. CASE /\ First(p).type \in {"paired", "answer", "storage_error"} /\ link' = Healthy /\ conn' = Rest(p)
           /\ writes' = IF First(p).type = "paired" THEN Append(writes, First(p).token) ELSE writes
  <2>1. /\ link' \in LinkState /\ link'.up = link.up /\ link'.init = link.init /\ link'.status = link.status
        /\ link'.port = link.port /\ link'.connecting = link.connecting
        /\ link'.timers = link.timers /\ link'.tracked = link.tracked
    BY <1>3, <1>6 DEF SameLink
  <2>2. Retrying'
    BY <1>1, <1>2, <2>1 DEF Retrying, Lost, Timed
  <2>3. HearsPaired(p) \/ HearsOther(p)
    BY <1>6, <2>1 DEF HearsPaired, HearsOther
  <2> QED
    BY <1>1, <1>2, <2>1, <2>2, <2>3 DEF LinkHears
<1>7. \/ First(p).type = "info" /\ helperInfo(p)
      \/ /\ First(p).type = "not_paired" /\ writes' = Append(writes, 0) /\ conn' = Rest(p)
         /\ link' = cancelReconnect([Healthy EXCEPT !.status = "needs_pairing"])
      \/ /\ First(p).type \in {"paired", "answer", "storage_error"} /\ link' = Healthy /\ conn' = Rest(p)
         /\ writes' = IF First(p).type = "paired" THEN Append(writes, First(p).token) ELSE writes
  BY DEF handleMessage, First, Rest
<1> QED
  BY <1>4, <1>5, <1>6, <1>7

\* A token could not be stored: the user is told to pair again.
LinkUnpaired ==
  /\ link' \in LinkState /\ link.up /\ link'.up = link.up /\ link'.init = link.init
  /\ link'.port = link.port /\ link'.connecting = link.connecting /\ link'.status = "needs_pairing"

LEMMA savePairingTokenLink ==
  ASSUME LinkTypes, OnePort, Retrying, savePairingToken
  PROVE  Retrying' /\ (link' = link \/ LinkUnpaired)
<1>1. link \in LinkState /\ Timed(link) /\ alarm' = alarm
  BY DEF LinkTypes, Retrying, savePairingToken
<1>2. CASE link' = link
  BY <1>1, <1>2 DEF Retrying
<1>3. CASE link.up /\ link' = [link EXCEPT !.status = "needs_pairing"]
  <2>1. /\ link' \in LinkState /\ link'.up = link.up /\ link'.init = link.init
        /\ link'.port = link.port /\ link'.connecting = link.connecting /\ link'.status = "needs_pairing"
        /\ link'.timers = link.timers /\ link'.tracked = link.tracked
    BY <1>1, <1>3 DEF LinkState, Statuses
  <2> QED
    BY <1>1, <1>3, <2>1 DEF LinkUnpaired, Retrying, Timed, Lost
<1> QED
  BY <1>2, <1>3 DEF savePairingToken

\* The worker ends.
LinkSleeps ==
  /\ link' \in LinkState /\ link.up /\ ~link'.up /\ link'.port = 0 /\ link'.init = "no"
  /\ link'.status = "none" /\ link'.connecting = "no" /\ link'.timers = 0 /\ link'.lookups = <<>>

LEMMA AsleepFields ==
  ASSUME NEW l, l = AsleepLink
  PROVE  /\ l \in LinkState /\ ~l.up /\ l.port = 0 /\ l.init = "no" /\ l.status = "none" /\ l.connecting = "no"
         /\ l.timers = 0 /\ l.lookups = <<>> /\ ~l.tracked
<1>1. 0 \in 0..MaxPorts /\ 0 \in 0..TopBackoff /\ "none" \in Statuses
  BY LinkBoundsAssumption DEF Statuses
<1>2. <<>> \in Seq({"create", "clear"})
  OBVIOUS
<1> QED
  BY <1>1, <1>2 DEF AsleepLink, LinkState

LEMMA WorkerEndsLink ==
  ASSUME WorkerEnds
  PROVE  LinkSleeps /\ Retrying'
<1>1. link.up /\ link' = AsleepLink
  BY DEF WorkerEnds
<1>2. /\ link' \in LinkState /\ ~link'.up /\ link'.port = 0 /\ link'.init = "no" /\ link'.status = "none"
      /\ link'.connecting = "no" /\ link'.timers = 0 /\ link'.lookups = <<>> /\ ~link'.tracked
  BY <1>1, AsleepFields
<1> QED
  BY <1>1, <1>2 DEF LinkSleeps, Retrying, Timed, Lost

-----------------------------------------------------------------------------
(* What each action does to the connections *)

\* d is c, with a new state, new queues or both for port p.
PortIs(d, c, p, toHelper, toExt, end, authed) ==
  /\ d \in Connections
  /\ d[p].toHelper = toHelper /\ d[p].toExt = toExt /\ d[p].end = end /\ d[p].authed = authed
  /\ \A r \in Ports : r # p => d[r] = c[r]

LEMMA AuthedSet ==
  ASSUME NEW c \in Connections, NEW p \in Ports, NEW d, d = [c EXCEPT ![p].authed = TRUE]
  PROVE  PortIs(d, c, p, c[p].toHelper, c[p].toExt, c[p].end, TRUE)
BY DEF Connections, Connection, PortIs

LEMMA Answered ==
  ASSUME NEW c \in Connections, NEW p \in Ports, NEW ms \in Seq(FromHelper), NEW d, d = ToExt(c, p, ms)
  PROVE  PortIs(d, c, p, c[p].toHelper, c[p].toExt \o ms, c[p].end, c[p].authed)
<1> DEFINE q == c[p].toExt \o ms
<1>1. c[p].toExt \in Seq(FromHelper)
  BY DEF Connections, Connection
<1>2. q \in Seq(FromHelper)
  BY <1>1
<1>3. d = [c EXCEPT ![p].toExt = q]
  BY DEF ToExt
<1> HIDE DEF q
<1>4. /\ d \in Connections /\ d[p].toExt = q
      /\ d[p].toHelper = c[p].toHelper /\ d[p].end = c[p].end /\ d[p].authed = c[p].authed
      /\ \A r \in Ports : r # p => d[r] = c[r]
  BY <1>2, <1>3 DEF Connections, Connection
<1> QED
  BY <1>4 DEF q, PortIs

LEMMA Closed ==
  ASSUME NEW c \in Connections, NEW p \in Ports, NEW ms \in Seq(FromHelper), NEW d, d = Closing(c, p, ms)
  PROVE  PortIs(d, c, p, <<>>, c[p].toExt \o ms, "closed", c[p].authed)
<1> DEFINE e == ToExt(c, p, ms)
<1>1. /\ e \in Connections /\ e[p].toExt = c[p].toExt \o ms
      /\ e[p].toHelper = c[p].toHelper /\ e[p].end = c[p].end /\ e[p].authed = c[p].authed
      /\ \A r \in Ports : r # p => e[r] = c[r]
  BY Answered DEF PortIs
<1>2. d = [e EXCEPT ![p].end = "closed", ![p].toHelper = <<>>]
  BY DEF Closing
<1>3. <<>> \in Seq(FromExt) /\ "closed" \in Ends
  BY DEF Ends
<1> HIDE DEF e
<1>4. /\ d \in Connections /\ d[p].toExt = e[p].toExt
      /\ d[p].toHelper = <<>> /\ d[p].end = "closed" /\ d[p].authed = e[p].authed
      /\ \A r \in Ports : r # p => d[r] = e[r]
  <2>1. e \in Connections
    BY <1>1
  <2> QED
    BY <1>2, <1>3, <2>1 DEF Connections, Connection
<1> QED
  BY <1>1, <1>4 DEF PortIs

\* The helper has read the first message of port p: what the others see.
ReadFrom(p) == Head(conn[p].toHelper)
ReadsOne(p) ==
  /\ conn' \in Connections /\ link' = link /\ link.port = p /\ link.up
  /\ conn[p].end = "open" /\ conn[p].toHelper # <<>>
  /\ \A r \in Ports : r # p => conn'[r] = conn[r]
MintedToken == <<[type |-> "paired", token |-> minted + 1], [type |-> "info"]>>
HelperPairs(p) ==
  /\ ~conn[p].authed /\ ReadFrom(p).type = "hello" /\ helper.token = 0
  /\ minted' = minted + 1 /\ helper' = [helper EXCEPT !.token = minted + 1, !.file = minted + 1]
  /\ conn'[p].authed /\ conn'[p].end = "open" /\ conn'[p].toExt = conn[p].toExt \o MintedToken
  /\ conn'[p].toHelper = Tail(conn[p].toHelper)
HelperCloses(p) ==
  /\ ~conn[p].authed /\ helper' = helper /\ minted' = minted
  /\ ~conn'[p].authed /\ conn'[p].end = "closed" /\ conn'[p].toHelper = <<>>
  /\ \E t \in {"storage_error", "not_paired"} : conn'[p].toExt = conn[p].toExt \o <<[type |-> t]>>
HelperAccepts(p) ==
  /\ ~conn[p].authed /\ helper' = helper /\ minted' = minted
  /\ conn'[p].authed /\ conn'[p].end = "open" /\ conn'[p].toExt = conn[p].toExt \o <<[type |-> "info"]>>
  /\ conn'[p].toHelper = Tail(conn[p].toHelper)
HelperApplies(p) ==
  /\ conn[p].authed /\ ReadFrom(p).type = "settings" /\ minted' = minted
  /\ helper' = [helper EXCEPT !.keys = ReadFrom(p).keys]
  /\ conn'[p].authed /\ conn'[p].end = "open" /\ conn'[p].toExt = conn[p].toExt
  /\ conn'[p].toHelper = Tail(conn[p].toHelper)
HelperAnswers(p) ==
  /\ conn[p].authed /\ ReadFrom(p).type = "request" /\ helper' = helper /\ minted' = minted
  /\ conn'[p].authed /\ conn'[p].end = "open" /\ conn'[p].toExt = conn[p].toExt \o <<[type |-> "answer"]>>
  /\ conn'[p].toHelper = Tail(conn[p].toHelper)

LEMMA helperReadsConn ==
  ASSUME LinkTypes, OnePort, NEW p \in Ports, helperReads(p)
  PROVE  /\ ReadsOne(p)
         /\ HelperPairs(p) \/ HelperCloses(p) \/ HelperAccepts(p) \/ HelperApplies(p) \/ HelperAnswers(p)
<1> DEFINE c == [conn EXCEPT ![p].toHelper = Tail(conn[p].toHelper)]
<1>0. conn \in Connections /\ minted \in Nat
  BY DEF LinkTypes, Connections
<1>1. /\ helper.up /\ conn[p].end = "open" /\ conn[p].toHelper # <<>> /\ link' = link
      /\ \/ ~conn[p].authed /\ ReadFrom(p).type = "hello" /\ helperHello(p, ReadFrom(p).token, c)
         \/ ~conn[p].authed /\ conn' = Closing(c, p, Refused) /\ UNCHANGED <<helper, minted>>
         \/ /\ conn[p].authed /\ ReadFrom(p).type = "settings"
            /\ helper' = [helper EXCEPT !.keys = ReadFrom(p).keys] /\ conn' = c /\ UNCHANGED minted
         \/ /\ conn[p].authed /\ ReadFrom(p).type = "request"
            /\ conn' = ToExt(c, p, <<[type |-> "answer"]>>) /\ UNCHANGED <<helper, minted>>
  BY DEF helperReads, ReadFrom
<1>2. conn[p].toHelper \in Seq(FromExt)
  BY <1>0 DEF Connections, Connection
<1>3. Tail(conn[p].toHelper) \in Seq(FromExt)
  BY <1>1, <1>2
<1>4. /\ c \in Connections /\ c[p].toHelper = Tail(conn[p].toHelper)
      /\ c[p].toExt = conn[p].toExt /\ c[p].end = conn[p].end /\ c[p].authed = conn[p].authed
      /\ \A r \in Ports : r # p => c[r] = conn[r]
  BY <1>0, <1>3 DEF Connections, Connection
<1>5. link.port = p /\ link.up
  BY <1>1 DEF OnePort, NoPort
<1>6. \A t \in {"storage_error", "not_paired", "info", "answer"} : <<[type |-> t]>> \in Seq(FromHelper)
  BY DEF FromHelper
<1>7. MintedToken \in Seq(FromHelper)
  <2>1. minted + 1 \in Nat
    BY <1>0
  <2>2. [type |-> "paired", token |-> minted + 1] \in FromHelper /\ [type |-> "info"] \in FromHelper
    BY <2>1 DEF FromHelper
  <2> QED
    BY <2>2 DEF MintedToken
<1> DEFINE a == [c EXCEPT ![p].authed = TRUE]
<1> HIDE DEF c
<1>8. /\ a \in Connections /\ a[p].authed
      /\ a[p].toHelper = c[p].toHelper /\ a[p].toExt = c[p].toExt /\ a[p].end = c[p].end
      /\ \A r \in Ports : r # p => a[r] = c[r]
  <2>1. c \in Connections
    BY <1>4
  <2>2. PortIs(a, c, p, c[p].toHelper, c[p].toExt, c[p].end, TRUE)
    BY <2>1, AuthedSet
  <2> QED
    BY <2>2 DEF PortIs
<1> HIDE DEF a
<1>9. ASSUME NEW t \in {"storage_error", "not_paired"}, conn' = Closing(c, p, <<[type |-> t]>>),
             ~conn[p].authed, helper' = helper, minted' = minted
      PROVE  ReadsOne(p) /\ HelperCloses(p)
  <2> DEFINE ms == <<[type |-> t]>>
  <2>1. ms \in Seq(FromHelper) /\ conn' = Closing(c, p, ms)
    BY <1>6, <1>9
  <2> HIDE DEF ms
  <2>2. /\ conn' \in Connections /\ conn'[p].toExt = c[p].toExt \o ms
        /\ conn'[p].toHelper = <<>> /\ conn'[p].end = "closed" /\ conn'[p].authed = c[p].authed
        /\ \A r \in Ports : r # p => conn'[r] = c[r]
    <3>1. c \in Connections
      BY <1>4
    <3>2. PortIs(conn', c, p, <<>>, c[p].toExt \o ms, "closed", c[p].authed)
      BY <3>1, <2>1, Closed
    <3> QED
      BY <3>2 DEF PortIs
  <2>3. ReadsOne(p)
    BY <1>1, <1>4, <1>5, <2>2 DEF ReadsOne
  <2>4. conn'[p].toExt = conn[p].toExt \o <<[type |-> t]>>
    BY <1>4, <2>2 DEF ms
  <2> QED
    BY <1>4, <1>9, <2>2, <2>3, <2>4 DEF HelperCloses
<1>10. ASSUME NEW ms \in Seq(FromHelper), conn' = ToExt(a, p, ms)
       PROVE  /\ ReadsOne(p) /\ conn'[p].authed /\ conn'[p].end = "open"
              /\ conn'[p].toExt = conn[p].toExt \o ms /\ conn'[p].toHelper = Tail(conn[p].toHelper)
  <2>1. /\ conn' \in Connections /\ conn'[p].toExt = a[p].toExt \o ms
        /\ conn'[p].toHelper = a[p].toHelper /\ conn'[p].end = a[p].end /\ conn'[p].authed = a[p].authed
        /\ \A r \in Ports : r # p => conn'[r] = a[r]
    <3>1. a \in Connections
      BY <1>8
    <3>2. PortIs(conn', a, p, a[p].toHelper, a[p].toExt \o ms, a[p].end, a[p].authed)
      BY <3>1, <1>10, Answered
    <3> QED
      BY <3>2 DEF PortIs
  <2> QED
    BY <1>1, <1>4, <1>5, <1>8, <2>1 DEF ReadsOne
<1>11. CASE ~conn[p].authed /\ ReadFrom(p).type = "hello" /\ helperHello(p, ReadFrom(p).token, c)
  <2>1. CASE /\ helper.token = 0 /\ minted' = minted + 1
             /\ helper' = [helper EXCEPT !.token = minted + 1, !.file = minted + 1]
             /\ conn' = ToExt(a, p, MintedToken)
    BY <1>7, <1>10, <1>11, <2>1 DEF HelperPairs
  <2>2. CASE conn' = Closing(c, p, <<[type |-> "storage_error"]>>) /\ UNCHANGED <<helper, minted>>
    BY <1>9, <1>11, <2>2
  <2>3. CASE conn' = ToExt(a, p, <<[type |-> "info"]>>) /\ UNCHANGED <<helper, minted>>
    <3>1. <<[type |-> "info"]>> \in Seq(FromHelper)
      BY <1>6
    <3> QED
      BY <1>10, <1>11, <2>3, <3>1 DEF HelperAccepts
  <2>4. CASE conn' = Closing(c, p, Refused) /\ UNCHANGED <<helper, minted>>
    BY <1>9, <1>11, <2>4 DEF Refused
  <2> QED
    BY <1>11, <2>1, <2>2, <2>3, <2>4 DEF helperHello, MintedToken, a
<1>12. CASE ~conn[p].authed /\ conn' = Closing(c, p, Refused) /\ UNCHANGED <<helper, minted>>
  BY <1>9, <1>12 DEF Refused
<1>13. CASE /\ conn[p].authed /\ ReadFrom(p).type = "settings"
            /\ helper' = [helper EXCEPT !.keys = ReadFrom(p).keys] /\ conn' = c /\ UNCHANGED minted
  BY <1>1, <1>4, <1>5, <1>13 DEF ReadsOne, HelperApplies
<1>14. CASE /\ conn[p].authed /\ ReadFrom(p).type = "request"
            /\ conn' = ToExt(c, p, <<[type |-> "answer"]>>) /\ UNCHANGED <<helper, minted>>
  <2> DEFINE ms == <<[type |-> "answer"]>>
  <2>1. ms \in Seq(FromHelper) /\ conn' = ToExt(c, p, ms)
    BY <1>6, <1>14
  <2> HIDE DEF ms
  <2>2. /\ conn' \in Connections /\ conn'[p].toExt = c[p].toExt \o ms
        /\ conn'[p].toHelper = c[p].toHelper /\ conn'[p].end = c[p].end /\ conn'[p].authed = c[p].authed
        /\ \A r \in Ports : r # p => conn'[r] = c[r]
    <3>1. c \in Connections
      BY <1>4
    <3>2. PortIs(conn', c, p, c[p].toHelper, c[p].toExt \o ms, c[p].end, c[p].authed)
      BY <3>1, <2>1, Answered
    <3> QED
      BY <3>2 DEF PortIs
  <2> QED
    BY <1>1, <1>4, <1>5, <1>14, <2>2 DEF ReadsOne, HelperAnswers, ms
<1> QED
  BY <1>1, <1>11, <1>12, <1>13, <1>14

\* The settings are pushed, the hello or a request is sent, or nothing is.
ConnSends == Sent(conn', conn, link.port) /\ ports' = ports

LEMMA controllerInitConn ==
  ASSUME LinkTypes, controllerInit
  PROVE  ConnSends
<1>1. conn \in Connections /\ link.port \in 0..MaxPorts /\ getSettings \in Preferences
  BY GetSettings DEF LinkTypes, Connections, LinkState
<1>2. conn' = pushSettings(conn, link, getSettings) /\ ports' = ports
  BY DEF controllerInit
<1> QED
  BY <1>1, <1>2, PushesSettings DEF ConnSends

LEMMA adoptSettingsConn ==
  ASSUME LinkTypes, adoptSettings
  PROVE  ConnSends
<1>1. conn \in Connections /\ link.port \in 0..MaxPorts /\ adopting \in Seq(Preferences)
  BY DEF LinkTypes, Connections, LinkState
<1>2. conn' = pushSettings(conn, link, Head(adopting)) /\ ports' = ports /\ adopting # <<>>
  BY DEF adoptSettings
<1>3. Head(adopting) \in Preferences
  BY <1>1, <1>2
<1> QED
  BY <1>1, <1>2, <1>3, PushesSettings DEF ConnSends

LEMMA SendsOne ==
  ASSUME LinkTypes, NEW m \in FromExt, ports' = ports,
         conn' = IF link.port = 0 THEN conn ELSE ToHelper(conn, link.port, m)
  PROVE  /\ ConnSends
         /\ link.port # 0 => link.port \in Ports /\ conn'[link.port].toHelper = Append(conn[link.port].toHelper, m)
<1>1. conn \in Connections /\ link.port \in 0..MaxPorts
  BY DEF LinkTypes, Connections, LinkState
<1>2. CASE link.port = 0
  BY <1>1, <1>2 DEF ConnSends, Sent
<1>3. CASE link.port # 0
  <2>1. link.port \in Ports
    BY <1>1, <1>3, LinkBoundsAssumption DEF Ports
  <2>2. conn' = ToHelper(conn, link.port, m)
    BY <1>3
  <2> QED
    BY <1>1, <1>3, <2>1, <2>2, SentToHelper DEF ConnSends
<1> QED
  BY <1>2, <1>3

HelloMessage == [type |-> "hello", token |-> token]
LEMMA sendHelloConn ==
  ASSUME LinkTypes, sendHello
  PROVE  /\ ConnSends /\ writes = <<>> /\ HelloMessage \in FromExt
         /\ link.port # 0 => /\ link.port \in Ports
                             /\ conn'[link.port].toHelper = Append(conn[link.port].toHelper, HelloMessage)
<1>1. HelloMessage \in FromExt
  BY DEF HelloMessage, FromExt, LinkTypes
<1>2. /\ conn' = IF link.port = 0 THEN conn ELSE ToHelper(conn, link.port, HelloMessage)
      /\ ports' = ports /\ writes = <<>>
  BY DEF sendHello, HelloMessage
<1> QED
  BY <1>1, <1>2, SendsOne

RequestMessage == [type |-> "request"]
LEMMA sendRequestConn ==
  ASSUME LinkTypes, NEW r \in Probes, sendRequest(r)
  PROVE  /\ ConnSends /\ RequestMessage \in FromExt
         /\ link.port # 0 => /\ link.port \in Ports
                             /\ conn'[link.port].toHelper = Append(conn[link.port].toHelper, RequestMessage)
<1>1. RequestMessage \in FromExt
  BY DEF RequestMessage, FromExt
<1>2. /\ conn' = IF link.port = 0 THEN conn ELSE ToHelper(conn, link.port, RequestMessage)
      /\ ports' = ports
  BY DEF sendRequest, RequestMessage
<1> QED
  BY <1>1, <1>2, SendsOne

LEMMA ConnSame ==
  ASSUME LinkTypes, conn' = conn, ports' = ports
  PROVE  ConnSends
BY DEF ConnSends, Sent, LinkTypes, Connections

\* What is left once the first message of port p is taken.
LEMMA RestOf ==
  ASSUME LinkTypes, NEW p \in Ports, conn[p].toExt # <<>>
  PROVE  /\ PortIs(Rest(p), conn, p, conn[p].toHelper, Tail(conn[p].toExt), conn[p].end, conn[p].authed)
         /\ First(p) = conn[p].toExt[1] /\ First(p) \in FromHelper
         /\ Len(conn[p].toExt) \in Nat /\ Len(conn[p].toExt) > 0
         /\ Len(Tail(conn[p].toExt)) = Len(conn[p].toExt) - 1
         /\ \A k \in 1..Len(Tail(conn[p].toExt)) :
              Tail(conn[p].toExt)[k] = conn[p].toExt[k + 1] /\ k + 1 \in 1..Len(conn[p].toExt)
<1>1. conn \in Connections
  BY DEF LinkTypes, Connections
<1>2. conn[p].toExt \in Seq(FromHelper)
  BY <1>1 DEF Connections, Connection
<1> DEFINE q == Tail(conn[p].toExt)
<1>3. q \in Seq(FromHelper)
  BY <1>2
<1>4. Rest(p) = [conn EXCEPT ![p].toExt = q]
  BY DEF Rest
<1> HIDE DEF q
<1>5. PortIs(Rest(p), conn, p, conn[p].toHelper, q, conn[p].end, conn[p].authed)
  BY <1>1, <1>3, <1>4 DEF Connections, Connection, PortIs
<1>6. /\ First(p) = conn[p].toExt[1] /\ First(p) \in FromHelper
      /\ Len(conn[p].toExt) \in Nat /\ Len(conn[p].toExt) > 0
      /\ Len(Tail(conn[p].toExt)) = Len(conn[p].toExt) - 1
      /\ \A k \in 1..Len(Tail(conn[p].toExt)) :
           Tail(conn[p].toExt)[k] = conn[p].toExt[k + 1] /\ k + 1 \in 1..Len(conn[p].toExt)
  BY <1>2 DEF First
<1> QED
  BY <1>5, <1>6 DEF q

\* The client has taken the first message of its port, and may have pushed the settings.
ConnHears(p) ==
  /\ conn' \in Connections
  /\ conn'[p].toExt = Tail(conn[p].toExt) /\ conn'[p].end = conn[p].end /\ conn'[p].authed = conn[p].authed
  /\ \A r \in Ports : r # p => conn'[r] = conn[r]
  /\ ports' = ports
KeepsSent(p) == conn'[p].toHelper = conn[p].toHelper
PushesNow(p) ==
  current # Unset /\ conn'[p].toHelper = Append(conn[p].toHelper, SettingsMessage(current))

LEMMA handleMessageConn ==
  ASSUME LinkTypes, OnePort, Retrying, NEW p \in Ports, handleMessage(p)
  PROVE  /\ ConnHears(p)
         /\ IF First(p).type = "info" /\ link'.status = "connected" /\ link.status # "connected" /\ current # Unset
            THEN PushesNow(p) ELSE KeepsSent(p)
<1>1. /\ link.port = p /\ conn[p].toExt # <<>> /\ ports' = ports
      /\ HearsInfo(p) \/ HearsPaired(p) \/ HearsRefusal(p) \/ HearsOther(p)
  BY handleMessageLink DEF handleMessage
<1>2. PortIs(Rest(p), conn, p, conn[p].toHelper, Tail(conn[p].toExt), conn[p].end, conn[p].authed)
  BY <1>1, RestOf
<1>3. CASE /\ ~(First(p).type = "info" /\ link'.status = "connected" /\ link.status # "connected")
           /\ conn' = Rest(p)
  <2>1. ConnHears(p) /\ KeepsSent(p)
    BY <1>1, <1>2, <1>3 DEF PortIs, ConnHears, KeepsSent
  <2> QED
    BY <1>3, <2>1
<1>4. CASE /\ First(p).type = "info" /\ link'.status = "connected" /\ link.status # "connected"
           /\ conn' = pushSettings(Rest(p), link, current)
  <2>1. link.port \in 0..MaxPorts /\ current \in Preferences /\ Rest(p) \in Connections
    BY <1>2 DEF LinkTypes, LinkState, PortIs
  <2>2. \/ conn' = Rest(p) /\ Sent(conn', Rest(p), link.port) /\ (link.port = 0 \/ current = Unset)
        \/ /\ link.port \in Ports /\ current # Unset /\ Sent(conn', Rest(p), link.port)
           /\ conn'[link.port].toHelper = Append(Rest(p)[link.port].toHelper, SettingsMessage(current))
    BY <1>4, <2>1, PushesSettings
  <2>3. p # 0
    BY DEF Ports
  <2>4. CASE conn' = Rest(p) /\ current = Unset
    <3>1. ConnHears(p) /\ KeepsSent(p)
      BY <1>1, <1>2, <2>4 DEF PortIs, ConnHears, KeepsSent
    <3> QED
      BY <2>4, <3>1
  <2>5. CASE /\ current # Unset /\ Sent(conn', Rest(p), link.port)
             /\ conn'[link.port].toHelper = Append(Rest(p)[link.port].toHelper, SettingsMessage(current))
    <3>1. ConnHears(p) /\ PushesNow(p)
      BY <1>1, <1>2, <2>5 DEF PortIs, ConnHears, PushesNow, Sent
    <3> QED
      BY <1>4, <2>5, <3>1
  <2> QED
    BY <1>1, <2>2, <2>3, <2>4, <2>5
<1> QED
  BY <1>1, <1>3, <1>4 DEF HearsInfo, HearsPaired, HearsRefusal, HearsOther

-----------------------------------------------------------------------------
(* One port, and it was greeted *)

Wire == OnePort /\ Greeted
WireTypes == link \in LinkState /\ conn \in Connections /\ ports \in 0..MaxPorts

LEMMA WireSends ==
  ASSUME LinkTypes, Wire, ConnSends, LinkStays \/ LinkUnpaired \/ LinkLoads
  PROVE  Wire' /\ WireTypes'
<1>1. /\ link' \in LinkState /\ link'.port = link.port /\ link'.up = link.up
      /\ link'.status = "connected" => link.status = "connected"
      /\ link.up \/ link' = link
      /\ link'.connecting = "permission" => link.port = 0
  BY DEF LinkStays, LinkUnpaired, LinkLoads, Wire, OnePort
<1>2. /\ conn' \in Connections /\ ports' = ports
      /\ \A r \in Ports : /\ conn'[r].toExt = conn[r].toExt /\ conn'[r].end = conn[r].end
                          /\ conn'[r].authed = conn[r].authed
      /\ \A r \in Ports : r # link.port => conn'[r] = conn[r]
  BY DEF ConnSends, Sent
<1>3. link.port # 0 => link.port \in Ports
  BY LinkBoundsAssumption DEF LinkTypes, LinkState, Ports
<1>4. ASSUME NEW r \in Ports
      PROVE  IF NoPort(r)' THEN conn'[r].toHelper = <<>> /\ conn'[r].toExt = <<>> /\ ~conn'[r].authed
             ELSE link'.up /\ link'.port = r
  <2>1. NoPort(r)' = NoPort(r)
    BY <1>2 DEF NoPort
  <2>2. CASE NoPort(r)
    <3>1. r # link.port
      BY <2>2, <1>3 DEF Wire, OnePort, Ports
    <3> QED
      BY <1>2, <2>1, <2>2, <3>1 DEF Wire, OnePort
  <2>3. CASE ~NoPort(r)
    BY <1>1, <2>1, <2>3 DEF Wire, OnePort
  <2> QED
    BY <2>2, <2>3
<1>5. link'.port # 0 => ~NoPort(link.port)' /\ link'.connecting # "permission"
  BY <1>1, <1>2, <1>3 DEF Wire, OnePort, NoPort
<1>6. OnePort'
  BY <1>1, <1>2, <1>4, <1>5 DEF Wire, OnePort
<1>7. Greeted'
  BY <1>1, <1>2, <1>3 DEF Wire, Greeted
<1> QED
  BY <1>1, <1>2, <1>6, <1>7 DEF Wire, WireTypes, LinkTypes

LEMMA WireWakes ==
  ASSUME LinkTypes, Wire, conn' = conn, ports' = ports, LinkWakes
  PROVE  Wire' /\ WireTypes'
<1>1. \A r \in Ports : NoPort(r)
  BY DEF Wire, OnePort, LinkWakes
<1>2. /\ link' \in LinkState /\ link'.up /\ link'.port = 0 /\ link'.status = "none"
  BY DEF LinkWakes
<1>3. OnePort'
  BY <1>1, <1>2 DEF Wire, OnePort, NoPort, LinkTypes
<1>4. Greeted'
  BY <1>2 DEF Wire, Greeted
<1> QED
  BY <1>2, <1>3, <1>4 DEF Wire, WireTypes, LinkTypes, Connections

LEMMA WireConnects ==
  ASSUME LinkTypes, Wire, Retrying, connectNative
  PROVE  Wire' /\ WireTypes'
<1>1. \/ LinkFails /\ conn' = conn /\ ports' \in {ports, ports + 1} /\ ports' \in 0..MaxPorts
      \/ /\ LinkOpens /\ ports' = ports + 1
         /\ conn' = [conn EXCEPT ![ports + 1].end =
                       IF ~installed THEN "missing" ELSE IF helper.up THEN "open" ELSE "closed"]
  BY connectNativeLink DEF Wire
<1>2. conn \in Connections /\ ports \in 0..MaxPorts
  BY DEF LinkTypes, Connections
<1>3. CASE LinkFails /\ conn' = conn /\ ports' \in {ports, ports + 1} /\ ports' \in 0..MaxPorts
  <2>1. OnePort'
    BY <1>3 DEF LinkFails, Wire, OnePort, NoPort
  <2>2. Greeted'
    BY <1>3 DEF LinkFails, Wire, Greeted
  <2> QED
    BY <1>2, <1>3, <2>1, <2>2 DEF Wire, WireTypes, LinkFails
<1>4. CASE /\ LinkOpens /\ ports' = ports + 1
           /\ conn' = [conn EXCEPT ![ports + 1].end =
                         IF ~installed THEN "missing" ELSE IF helper.up THEN "open" ELSE "closed"]
  <2> PICK p \in Ports : p = ports + 1
    BY <1>4 DEF LinkOpens
  <2> PICK e \in {"missing", "open", "closed"} :
             e = IF ~installed THEN "missing" ELSE IF helper.up THEN "open" ELSE "closed"
    OBVIOUS
  <2>1. conn' = [conn EXCEPT ![p].end = e] /\ p # 0
    BY <1>4 DEF Ports
  <2>2. /\ link' \in LinkState /\ link'.up /\ link'.port = p /\ link'.status = "connecting"
        /\ link'.connecting = "hello" /\ link.port = 0
    BY <1>4 DEF LinkOpens
  <2>3. ports' \in 0..MaxPorts /\ p <= ports'
    BY <1>2, <1>4, <2>1, LinkBoundsAssumption DEF Ports
  <2>4. /\ conn' \in Connections /\ conn'[p].end = e
        /\ conn'[p].toHelper = conn[p].toHelper /\ conn'[p].toExt = conn[p].toExt /\ conn'[p].authed = conn[p].authed
        /\ \A r \in Ports : r # p => conn'[r] = conn[r]
    <3>1. e \in Ends
      BY <2>1 DEF Ends
    <3> QED
      BY <1>2, <2>1, <3>1 DEF Connections, Connection
  <2>5. \A r \in Ports : NoPort(r)
    BY <2>2 DEF Wire, OnePort, Ports
  <2>6. ~NoPort(p)'
    BY <2>1, <2>4 DEF NoPort
  <2>7. OnePort'
    BY <2>1, <2>2, <2>3, <2>4, <2>5, <2>6 DEF Wire, OnePort, NoPort
  <2>8. Greeted'
    BY <2>1, <2>2, <2>4 DEF Wire, Greeted
  <2> QED
    BY <2>2, <2>3, <2>4, <2>7, <2>8 DEF Wire, WireTypes
<1> QED
  BY <1>1, <1>3, <1>4

LEMMA WireDisconnects ==
  ASSUME LinkTypes, Wire, Retrying, NEW p \in Ports, handleDisconnect(p)
  PROVE  /\ Wire' /\ WireTypes'
         /\ PortIs(conn', conn, p, <<>>, <<>>, "gone", FALSE)
<1>1. link.port = p /\ LinkLoses
  BY handleDisconnectLink DEF Wire
<1>2. conn' = [conn EXCEPT ![p] = [Unopened EXCEPT !.end = "gone"]] /\ ports' = ports
  BY DEF handleDisconnect
<1> DEFINE gone == [Unopened EXCEPT !.end = "gone"]
<1>3. /\ gone \in Connection /\ gone.toHelper = <<>> /\ gone.toExt = <<>> /\ gone.end = "gone" /\ gone.authed = FALSE
  <2>1. "gone" \in Ends /\ <<>> \in Seq(FromExt) /\ <<>> \in Seq(FromHelper)
    BY DEF Ends
  <2> QED
    BY <2>1 DEF Unopened, Connection
<1>4. conn' = [conn EXCEPT ![p] = gone]
  BY <1>2
<1> HIDE DEF gone
<1>5. /\ conn' \in Connections /\ conn'[p] = gone
      /\ \A r \in Ports : r # p => conn'[r] = conn[r]
  BY <1>3, <1>4 DEF LinkTypes, Connections
<1>6. PortIs(conn', conn, p, <<>>, <<>>, "gone", FALSE)
  BY <1>3, <1>5 DEF PortIs
<1>7. \A r \in Ports : r # p => NoPort(r)
  BY <1>1 DEF Wire, OnePort
<1>8. /\ link' \in LinkState /\ link'.up /\ link'.port = 0
      /\ link'.status \in {"disconnected", "helper_not_found"}
  BY <1>1 DEF LinkLoses
<1>9. OnePort'
  <2>1. ports' \in 0..MaxPorts
    BY <1>2 DEF LinkTypes
  <2> QED
    BY <1>3, <1>5, <1>7, <1>8, <2>1 DEF Wire, OnePort, NoPort
<1>10. Greeted'
  BY <1>3, <1>5, <1>8 DEF Wire, Greeted
<1> QED
  BY <1>2, <1>5, <1>6, <1>8, <1>9, <1>10 DEF Wire, WireTypes, LinkTypes

LEMMA WireHears ==
  ASSUME LinkTypes, Wire, Retrying, NEW p \in Ports, handleMessage(p)
  PROVE  Wire' /\ WireTypes'
<1>1. /\ link.port = p /\ conn[p].toExt # <<>> /\ LinkHears
      /\ HearsInfo(p) \/ HearsPaired(p) \/ HearsRefusal(p) \/ HearsOther(p)
  BY handleMessageLink DEF Wire
<1>2. /\ conn' \in Connections
      /\ conn'[p].toExt = Tail(conn[p].toExt) /\ conn'[p].end = conn[p].end /\ conn'[p].authed = conn[p].authed
      /\ \A r \in Ports : r # p => conn'[r] = conn[r]
      /\ ports' = ports
  BY handleMessageConn DEF Wire, ConnHears
<1>3. /\ First(p) = conn[p].toExt[1] /\ Len(conn[p].toExt) \in Nat /\ Len(conn[p].toExt) > 0
      /\ \A k \in 1..Len(Tail(conn[p].toExt)) :
           Tail(conn[p].toExt)[k] = conn[p].toExt[k + 1] /\ k + 1 \in 1..Len(conn[p].toExt)
  BY <1>1, RestOf
<1>4. /\ link' \in LinkState /\ link'.up /\ link.up /\ link'.port = p /\ link'.connecting = link.connecting
      /\ p # 0
  BY <1>1 DEF LinkHears, Ports
<1>5. OnePort'
  BY <1>1, <1>2, <1>4 DEF Wire, OnePort, NoPort
<1>6. link'.status = "connected" => conn'[p].authed
  <2>1. CASE First(p).type = "info"
    <3>1. conn[p].authed
      BY <1>3, <2>1 DEF Wire, Greeted
    <3> QED
      BY <1>2, <3>1
  <2>2. CASE First(p).type # "info"
    <3>1. link'.status = "connected" => link.status = "connected"
      BY <1>1, <2>2 DEF HearsInfo, HearsPaired, HearsRefusal, HearsOther
    <3> QED
      BY <1>1, <1>2, <3>1 DEF Wire, Greeted
  <2> QED
    BY <2>1, <2>2
<1>7. \A r \in Ports : \A k \in 1..Len(conn'[r].toExt) : conn'[r].toExt[k].type = "info" => conn'[r].authed
  <2> TAKE r \in Ports
  <2> TAKE k \in 1..Len(conn'[r].toExt)
  <2>1. CASE r = p
    <3>1. conn'[p].toExt[k] = conn[p].toExt[k + 1] /\ k + 1 \in 1..Len(conn[p].toExt)
      BY <1>2, <1>3, <2>1
    <3>2. conn[p].toExt[k + 1].type = "info" => conn[p].authed
      BY <3>1 DEF Wire, Greeted
    <3> QED
      BY <1>2, <2>1, <3>1, <3>2
  <2>2. CASE r # p
    BY <1>2, <2>2 DEF Wire, Greeted
  <2> QED
    BY <2>1, <2>2
<1> QED
  BY <1>2, <1>4, <1>5, <1>6, <1>7 DEF Wire, WireTypes, LinkTypes, Greeted

\* A queue that grew by some messages.
LEMMA Grown ==
  ASSUME NEW S, NEW q \in Seq(S), NEW ms \in Seq(S)
  PROVE  /\ q \o ms \in Seq(S) /\ Len(q \o ms) = Len(q) + Len(ms)
         /\ \A k \in 1..Len(q) : (q \o ms)[k] = q[k]
         /\ \A k \in 1..Len(q \o ms) : k > Len(q) => k - Len(q) \in 1..Len(ms) /\ (q \o ms)[k] = ms[k - Len(q)]
OBVIOUS

LEMMA WireReads ==
  ASSUME LinkTypes, Wire, NEW p \in Ports, helperReads(p)
  PROVE  Wire' /\ WireTypes'
<1>1. /\ ReadsOne(p)
      /\ HelperPairs(p) \/ HelperCloses(p) \/ HelperAccepts(p) \/ HelperApplies(p) \/ HelperAnswers(p)
  BY helperReadsConn DEF Wire
<1>2. /\ conn' \in Connections /\ link' = link /\ link.port = p /\ link.up /\ ports' = ports
      /\ conn[p].end = "open" /\ \A r \in Ports : r # p => conn'[r] = conn[r]
  BY <1>1 DEF ReadsOne, helperReads
<1>3. /\ conn'[p].end \in {"open", "closed"} /\ (conn[p].authed => conn'[p].authed)
      /\ \E ms \in Seq(FromHelper) :
           /\ conn'[p].toExt = conn[p].toExt \o ms
           /\ \A k \in 1..Len(ms) : ms[k].type = "info" => conn'[p].authed
  <2>1. minted + 1 \in Nat
    BY DEF LinkTypes
  <2>2. CASE HelperPairs(p)
    <3>1. MintedToken \in Seq(FromHelper)
      <4>1. [type |-> "paired", token |-> minted + 1] \in FromHelper /\ [type |-> "info"] \in FromHelper
        BY <2>1 DEF FromHelper
      <4> QED
        BY <4>1 DEF MintedToken
    <3> QED
      BY <2>2, <3>1 DEF HelperPairs
  <2>3. CASE HelperCloses(p)
    <3> PICK t \in {"storage_error", "not_paired"} : conn'[p].toExt = conn[p].toExt \o <<[type |-> t]>>
      BY <2>3 DEF HelperCloses
    <3> DEFINE ms == <<[type |-> t]>>
    <3>1. ms \in Seq(FromHelper) /\ Len(ms) = 1 /\ ms[1].type = t
      BY DEF FromHelper
    <3> HIDE DEF ms
    <3>2. \A k \in 1..Len(ms) : ms[k].type # "info"
      BY <3>1
    <3>3. conn'[p].toExt = conn[p].toExt \o ms
      BY DEF ms
    <3> QED
      BY <2>3, <3>1, <3>2, <3>3 DEF HelperCloses
  <2>4. CASE HelperAccepts(p)
    <3>1. <<[type |-> "info"]>> \in Seq(FromHelper)
      BY DEF FromHelper
    <3> QED
      BY <2>4, <3>1 DEF HelperAccepts
  <2>5. CASE HelperApplies(p)
    <3>1. conn[p].toExt \in Seq(FromHelper)
      BY DEF LinkTypes, Connection
    <3>2. <<>> \in Seq(FromHelper) /\ conn[p].toExt \o <<>> = conn[p].toExt
      BY <3>1
    <3>3. conn'[p].toExt = conn[p].toExt \o <<>> /\ conn'[p].authed /\ conn'[p].end = "open"
      BY <2>5, <3>2 DEF HelperApplies
    <3> QED
      BY <3>2, <3>3
  <2>6. CASE HelperAnswers(p)
    <3>1. <<[type |-> "answer"]>> \in Seq(FromHelper)
      BY DEF FromHelper
    <3> QED
      BY <2>6, <3>1 DEF HelperAnswers
  <2> QED
    BY <1>1, <2>2, <2>3, <2>4, <2>5, <2>6
<1>4. p # 0
  BY DEF Ports
<1>5. OnePort'
  BY <1>2, <1>3, <1>4 DEF Wire, OnePort, NoPort
<1>6. \A k \in 1..Len(conn'[p].toExt) : conn'[p].toExt[k].type = "info" => conn'[p].authed
  <2> PICK ms \in Seq(FromHelper) :
           /\ conn'[p].toExt = conn[p].toExt \o ms
           /\ \A k \in 1..Len(ms) : ms[k].type = "info" => conn'[p].authed
    BY <1>3
  <2>1. conn[p].toExt \in Seq(FromHelper)
    BY DEF LinkTypes, Connection
  <2> DEFINE q == conn[p].toExt
  <2>2. /\ \A k \in 1..Len(q) : (q \o ms)[k] = q[k]
        /\ \A k \in 1..Len(q \o ms) : k > Len(q) => k - Len(q) \in 1..Len(ms) /\ (q \o ms)[k] = ms[k - Len(q)]
        /\ Len(q) \in Nat /\ Len(q \o ms) \in Nat
    BY <2>1, Grown
  <2>3. \A k \in 1..Len(q) : q[k].type = "info" => conn[p].authed
    BY DEF Wire, Greeted
  <2> TAKE k \in 1..Len(conn'[p].toExt)
  <2>4. CASE k <= Len(q)
    <3>1. k \in 1..Len(q) /\ conn'[p].toExt[k] = q[k]
      BY <2>2, <2>4
    <3>2. q[k].type = "info" => conn[p].authed
      BY <2>3, <3>1
    <3> QED
      BY <1>3, <3>1, <3>2
  <2>5. CASE k > Len(q)
    <3>1. k - Len(q) \in 1..Len(ms) /\ conn'[p].toExt[k] = ms[k - Len(q)]
      BY <2>2, <2>5
    <3> QED
      BY <3>1
  <2> QED
    BY <2>2, <2>4, <2>5
<1>7. Greeted'
  BY <1>2, <1>3, <1>6 DEF Wire, Greeted
<1> QED
  BY <1>2, <1>5, <1>7 DEF Wire, WireTypes, LinkTypes

\* The helper ends.
ConnStops ==
  /\ conn' \in Connections /\ link' = link /\ ports' = ports
  /\ \A r \in Ports : /\ conn'[r].toExt = conn[r].toExt /\ conn'[r].authed = conn[r].authed
                      /\ IF conn[r].end = "open" THEN conn'[r].end = "closed" ELSE conn'[r] = conn[r]

LEMMA HelperStopsConn ==
  ASSUME LinkTypes, HelperStops
  PROVE  ConnStops
<1>1. /\ link' = link /\ ports' = ports
      /\ conn' = [r \in Ports |-> IF conn[r].end = "open"
                                  THEN [conn[r] EXCEPT !.end = "closed", !.toHelper = <<>>] ELSE conn[r]]
  BY DEF HelperStops
<1>2. ASSUME NEW r \in Ports
      PROVE  /\ conn'[r] \in Connection
             /\ conn'[r].toExt = conn[r].toExt /\ conn'[r].authed = conn[r].authed
             /\ IF conn[r].end = "open" THEN conn'[r].end = "closed" ELSE conn'[r] = conn[r]
  <2>1. conn[r] \in Connection /\ <<>> \in Seq(FromExt) /\ "closed" \in Ends
    BY DEF LinkTypes, Ends
  <2>2. conn'[r] = IF conn[r].end = "open" THEN [conn[r] EXCEPT !.end = "closed", !.toHelper = <<>>] ELSE conn[r]
    BY <1>1
  <2>3. CASE conn[r].end = "open"
    <3>1. conn'[r] = [conn[r] EXCEPT !.end = "closed", !.toHelper = <<>>]
      BY <2>2, <2>3
    <3>2. conn'[r] \in Connection /\ conn'[r].end = "closed"
      BY <2>1, <3>1 DEF Connection
    <3>3. conn'[r].toExt = conn[r].toExt /\ conn'[r].authed = conn[r].authed
      BY <2>1, <3>1 DEF Connection
    <3> QED
      BY <2>3, <3>2, <3>3
  <2>4. CASE conn[r].end # "open"
    BY <2>1, <2>2, <2>4
  <2> QED
    BY <2>3, <2>4
<1>3. conn' \in Connections
  BY <1>1, <1>2 DEF Connections
<1> QED
  BY <1>1, <1>2, <1>3 DEF ConnStops

LEMMA WireStops ==
  ASSUME LinkTypes, Wire, ConnStops
  PROVE  Wire' /\ WireTypes'
<1>1. \A r \in Ports : NoPort(r)' = NoPort(r)
  BY DEF ConnStops, NoPort
<1>2. \A r \in Ports : NoPort(r) => conn'[r] = conn[r]
  BY DEF ConnStops, NoPort
<1>3. link.port # 0 => link.port \in Ports
  BY LinkBoundsAssumption DEF LinkTypes, LinkState, Ports
<1>4. link.port # 0 => ~NoPort(link.port)'
  BY <1>1, <1>3 DEF ConnStops, Wire, OnePort, NoPort
<1>5. OnePort'
  BY <1>1, <1>2, <1>4 DEF ConnStops, Wire, OnePort
<1>6. Greeted'
  BY <1>3 DEF ConnStops, Wire, Greeted
<1> QED
  BY <1>5, <1>6 DEF ConnStops, Wire, WireTypes, LinkTypes

\* The worker ends, and its ports with it.
ConnEnds ==
  /\ conn' \in Connections /\ ports' = ports
  /\ \A r \in Ports : /\ conn'[r].end \in {"none", "gone"} /\ ~conn'[r].authed
                      /\ conn'[r].toHelper = <<>> /\ conn'[r].toExt = <<>>

LEMMA WorkerEndsConn ==
  ASSUME LinkTypes, Wire, WorkerEnds
  PROVE  ConnEnds
<1>1. /\ ports' = ports
      /\ conn' = [r \in Ports |-> IF conn[r].end = "none" THEN conn[r] ELSE [Unopened EXCEPT !.end = "gone"]]
  BY DEF WorkerEnds
<1> DEFINE gone == [Unopened EXCEPT !.end = "gone"]
<1>2. /\ gone \in Connection /\ gone.toHelper = <<>> /\ gone.toExt = <<>> /\ gone.end = "gone" /\ ~gone.authed
  <2>1. "gone" \in Ends /\ <<>> \in Seq(FromExt) /\ <<>> \in Seq(FromHelper)
    BY DEF Ends
  <2> QED
    BY <2>1 DEF Unopened, Connection
<1>3. \A r \in Ports : conn'[r] = IF conn[r].end = "none" THEN conn[r] ELSE gone
  BY <1>1
<1>4. DOMAIN conn' = Ports /\ conn' = [r \in Ports |-> conn'[r]]
  BY <1>1
<1> HIDE DEF gone
<1>5. ASSUME NEW r \in Ports
      PROVE  /\ conn'[r] \in Connection
             /\ conn'[r].end \in {"none", "gone"} /\ ~conn'[r].authed
             /\ conn'[r].toHelper = <<>> /\ conn'[r].toExt = <<>>
  <2>1. CASE conn[r].end = "none"
    <3>1. conn[r] \in Connection /\ NoPort(r)
      BY <2>1 DEF LinkTypes, NoPort
    <3>2. conn[r].toHelper = <<>> /\ conn[r].toExt = <<>> /\ ~conn[r].authed
      BY <3>1 DEF Wire, OnePort
    <3> QED
      BY <1>3, <2>1, <3>1, <3>2
  <2>2. CASE conn[r].end # "none"
    BY <1>2, <1>3, <2>2
  <2> QED
    BY <2>1, <2>2
<1>6. conn' \in Connections
  BY <1>4, <1>5 DEF Connections
<1> QED
  BY <1>1, <1>5, <1>6 DEF ConnEnds

LEMMA WireEnds ==
  ASSUME LinkTypes, Wire, WorkerEnds
  PROVE  Wire' /\ WireTypes'
<1>1. ConnEnds /\ LinkSleeps
  BY WorkerEndsConn, WorkerEndsLink
<1>2. \A r \in Ports : NoPort(r)'
  BY <1>1 DEF ConnEnds, NoPort
<1>3. OnePort'
  BY <1>1, <1>2 DEF ConnEnds, LinkSleeps, OnePort, LinkTypes
<1>4. Greeted'
  <2>1. \A r \in Ports : Len(conn'[r].toExt) = 0
    BY <1>1 DEF ConnEnds
  <2> QED
    BY <1>1, <2>1 DEF LinkSleeps, Greeted
<1> QED
  BY <1>1, <1>3, <1>4 DEF Wire, WireTypes, ConnEnds, LinkSleeps, LinkTypes

\* The steps that leave the client and the connections alone.
WireQuiet == link' = link /\ alarm' = alarm /\ conn' = conn /\ ports' = ports
Others ==
  \/ \E g \in Pages : OpenPage(g) \/ saveToBackground(g) \/ acknowledgeConsent(g) \/ saveSettings(g)
  \/ refreshDriveToken \/ exportToDrive \/ \E r \in Probes : requestTimesOut(r)
  \/ HelperStarts \/ PairNewBrowser \/ InstallHelper

LEMMA OthersQuiet ==
  ASSUME Others
  PROVE  WireQuiet
BY DEF Others, WireQuiet, OpenPage, saveToBackground, acknowledgeConsent, saveSettings, refreshDriveToken, exportToDrive,
   requestTimesOut, HelperStarts, PairNewBrowser, InstallHelper, wireVars

LEMMA WireRests ==
  ASSUME LinkTypes, Wire, Retrying, WireQuiet
  PROVE  Wire' /\ WireTypes' /\ Retrying' /\ LinkStays /\ ConnSends
<1>1. LinkStays
  BY DEF WireQuiet, LinkStays, LinkTypes, Wire, OnePort
<1>2. ConnSends
  BY ConnSame DEF WireQuiet
<1>3. Retrying'
  BY DEF WireQuiet, Retrying
<1> QED
  BY <1>1, <1>2, <1>3, WireSends

LEMMA WireStep ==
  ASSUME LinkTypes, Wire, Retrying, LinkNext \/ UNCHANGED linkVars
  PROVE  Wire' /\ WireTypes' /\ Retrying' /\ alarm' \in BOOLEAN
<1> USE DEF Wire
<1>1. alarm \in BOOLEAN
  BY DEF LinkTypes
<1>2. CASE WorkerWakes
  <2>1. conn' = conn /\ ports' = ports /\ alarm' = alarm
    BY <1>2 DEF WorkerWakes, wireVars
  <2> QED
    BY <1>1, <1>2, <2>1, WorkerWakesLink, WireWakes
<1>3. CASE controllerInit
  BY <1>1, <1>3, controllerInitLink, controllerInitConn, WireSends DEF controllerInit
<1>4. CASE connectNative
  BY <1>1, <1>4, connectNativeLink, WireConnects DEF connectNative
<1>5. CASE sendHello
  BY <1>1, <1>5, sendHelloLink, sendHelloConn, WireSends DEF sendHello
<1>6. CASE alarmPermission
  <2>1. conn' = conn /\ ports' = ports
    BY <1>6 DEF alarmPermission, wireVars
  <2> QED
    BY <1>6, <2>1, alarmPermissionLink, ConnSame, WireSends
<1>7. CASE TimerFires
  <2>1. conn' = conn /\ ports' = ports /\ alarm' = alarm
    BY <1>7 DEF TimerFires, wireVars
  <2> QED
    BY <1>1, <1>7, <2>1, TimerFiresLink, ConnSame, WireSends
<1>8. CASE retryFromAlarm
  <2>1. conn' = conn /\ ports' = ports
    BY <1>8 DEF retryFromAlarm, wireVars
  <2> QED
    BY <1>8, <2>1, retryFromAlarmLink, ConnSame, WireSends, WireWakes
<1>9. CASE checkHelper
  <2>1. conn' = conn /\ ports' = ports /\ alarm' = alarm
    BY <1>9 DEF checkHelper, wireVars
  <2> QED
    BY <1>1, <1>9, <2>1, checkHelperLink, ConnSame, WireSends
<1>10. CASE savePairingToken
  <2>1. conn' = conn /\ ports' = ports /\ alarm' = alarm
    BY <1>10 DEF savePairingToken, wireVars
  <2>2. CASE link' = link
    BY <1>1, <2>1, <2>2, WireRests DEF WireQuiet
  <2>3. CASE LinkUnpaired
    BY <1>1, <1>10, <2>1, <2>3, savePairingTokenLink, ConnSame, WireSends
  <2> QED
    BY <1>10, <2>2, <2>3, savePairingTokenLink
<1>11. ASSUME NEW p \in Ports, handleMessage(p) PROVE Wire' /\ WireTypes' /\ Retrying' /\ alarm' \in BOOLEAN
  BY <1>1, <1>11, handleMessageLink, WireHears DEF handleMessage
<1>12. ASSUME NEW p \in Ports, handleDisconnect(p) PROVE Wire' /\ WireTypes' /\ Retrying' /\ alarm' \in BOOLEAN
  BY <1>1, <1>12, handleDisconnectLink, WireDisconnects DEF handleDisconnect
<1>13. ASSUME NEW p \in Ports, helperReads(p) PROVE Wire' /\ WireTypes' /\ Retrying' /\ alarm' \in BOOLEAN
  <2>1. alarm' = alarm /\ link' = link
    BY <1>13 DEF helperReads
  <2> QED
    BY <1>1, <1>13, <2>1, WireReads DEF Retrying
<1>14. CASE adoptSettings
  <2>1. alarm' = alarm /\ link' = link
    BY <1>14 DEF adoptSettings
  <2>2. LinkStays
    BY <2>1 DEF LinkStays, LinkTypes, OnePort
  <2> QED
    BY <1>1, <1>14, <2>1, <2>2, adoptSettingsConn, WireSends DEF Retrying
<1>15. ASSUME NEW r \in Probes, sendRequest(r) PROVE Wire' /\ WireTypes' /\ Retrying' /\ alarm' \in BOOLEAN
  <2>1. alarm' = alarm /\ link' = link
    BY <1>15 DEF sendRequest
  <2>2. LinkStays
    BY <2>1 DEF LinkStays, LinkTypes, OnePort
  <2> QED
    BY <1>1, <1>15, <2>1, <2>2, sendRequestConn, WireSends DEF Retrying
<1>16. CASE HelperStops
  <2>1. alarm' = alarm /\ link' = link
    BY <1>16 DEF HelperStops
  <2> QED
    BY <1>1, <1>16, <2>1, HelperStopsConn, WireStops DEF Retrying
<1>17. CASE WorkerEnds
  <2>1. alarm' = alarm
    BY <1>17 DEF WorkerEnds
  <2> QED
    BY <1>1, <1>17, <2>1, WorkerEndsLink, WireEnds
<1>18. CASE Others
  BY <1>1, <1>18, OthersQuiet, WireRests DEF WireQuiet
<1>19. CASE UNCHANGED linkVars
  BY <1>1, <1>19, WireRests DEF WireQuiet, linkVars, wireVars
<1> QED
  BY <1>2, <1>3, <1>4, <1>5, <1>6, <1>7, <1>8, <1>9, <1>10, <1>11, <1>12, <1>13, <1>14, <1>15, <1>16, <1>17,
     <1>18, <1>19 DEF LinkNext, Others

-----------------------------------------------------------------------------
(* The settings: the controller follows storage *)

PrefTypes ==
  /\ stored \in Preferences /\ current \in Preferences /\ adopting \in Seq(Preferences)
  /\ page \in [Pages -> [pc : {"closed", "open", "sent"}, copy : Preferences, seen : Preferences]]
  /\ edits \in Nat /\ exporting \in BOOLEAN /\ crossed \in BOOLEAN
Prefs == PrefTypes /\ Edits /\ MemoryFollows

LEMMA Ranks ==
  ASSUME NEW a \in Preferences, NEW b \in Preferences
  PROVE  /\ Rank(a) \in Int
         /\ a.keys < b.keys => Rank(a) < Rank(b)
         /\ a.keys = b.keys /\ ~a.consent /\ b.consent => Rank(a) < Rank(b)
         /\ a.keys = b.keys /\ a.consent = b.consent => Rank(a) = Rank(b)
BY DEF Rank, Preferences

\* Steps that concern neither the settings nor the controller's start.
LEMMA PrefsRest ==
  ASSUME Prefs, UNCHANGED prefVars,
         link'.init = link.init \/ (link.init # "done" /\ link'.init # "done")
  PROVE  Prefs'
<1> USE DEF prefVars
<1>1. PrefTypes'
  BY DEF Prefs, PrefTypes
<1>2. Edits'
  BY DEF Prefs, Edits
<1>3. MemoryFollows'
  BY DEF Prefs, MemoryFollows
<1> QED
  BY <1>1, <1>2, <1>3 DEF Prefs

LEMMA PrefsInit ==
  ASSUME Prefs, link.init = "loading", link'.init = "done", controllerInit
  PROVE  Prefs'
<1>1. /\ current' = Effective(stored)
      /\ UNCHANGED <<stored, adopting, page, edits, exporting, crossed>>
  BY DEF controllerInit, getSettings, Effective
<1>2. /\ Effective(stored) \in Preferences
      /\ Effective(stored).keys >= 0 /\ Effective(stored).keys <= edits
  BY EffectiveSettings DEF Prefs, PrefTypes, Edits, Preferences
<1>3. adopting = <<>> /\ ~exporting
  BY DEF Prefs, Edits
<1>4. PrefTypes'
  BY <1>1, <1>2 DEF Prefs, PrefTypes
<1>5. Edits'
  BY <1>1, <1>2, <1>3 DEF Prefs, Edits
<1>6. MemoryFollows'
  BY <1>1, <1>3 DEF Prefs, MemoryFollows
<1> QED
  BY <1>4, <1>5, <1>6 DEF Prefs

\* A page changes: the copy it sends is a later one than what it read.
LEMMA PageSends ==
  ASSUME Prefs, link' = link, NEW g \in Pages, NEW r,
         r \in [pc : {"closed", "open", "sent"}, copy : Preferences, seen : Preferences],
         page' = [page EXCEPT ![g] = r], edits' \in Nat, edits' >= edits,
         r.pc = "sent" => r.copy.keys \in 0..edits' /\ Rank(r.copy) > Rank(Effective(r.seen)),
         UNCHANGED <<stored, current, adopting, exporting, crossed>>
  PROVE  Prefs'
<1>1. PrefTypes'
  BY DEF Prefs, PrefTypes
<1>2. \A h \in Pages : page'[h] = IF h = g THEN r ELSE page[h]
  BY DEF Prefs, PrefTypes
<1>3. stored.keys <= edits' /\ current.keys <= edits'
  BY DEF Prefs, Edits, PrefTypes, Preferences
<1>4. \A k \in 1..Len(adopting) : adopting[k].keys \in 0..edits'
  BY DEF Prefs, Edits, PrefTypes
<1>5. ASSUME NEW h \in Pages, page'[h].pc = "sent"
      PROVE  page'[h].copy.keys \in 0..edits' /\ Rank(page'[h].copy) > Rank(Effective(page'[h].seen))
  <2>1. CASE h = g
    BY <1>2, <1>5, <2>1
  <2>2. CASE h # g
    <3>1. page'[h] = page[h]
      BY <1>2, <2>2
    <3>2. page[h].copy.keys \in 0..edits /\ Rank(page[h].copy) > Rank(Effective(page[h].seen))
      BY <1>5, <3>1 DEF Prefs, Edits
    <3>3. edits \in Nat
      BY DEF Prefs, PrefTypes
    <3> QED
      BY <3>1, <3>2, <3>3
  <2> QED
    BY <2>1, <2>2
<1>6. /\ stored'.keys <= edits' /\ (stored'.keys >= 0 \/ stored' = Unset)
      /\ current'.keys <= edits' /\ (link'.init = "done" => current'.keys >= 0)
      /\ (adopting' # <<>> \/ exporting') => link'.init = "done"
  BY <1>3 DEF Prefs, Edits
<1>7. \A k \in 1..Len(adopting') : adopting'[k].keys \in 0..edits'
  BY <1>4
<1>8. Edits'
  BY <1>5, <1>6, <1>7 DEF Edits, Effective, Unset
<1>9. MemoryFollows'
  BY DEF Prefs, MemoryFollows
<1> QED
  BY <1>1, <1>8, <1>9 DEF Prefs

LEMMA PrefsOpen ==
  ASSUME LinkTypes, Prefs, NEW g \in Pages, OpenPage(g)
  PROVE  Prefs'
<1> DEFINE r == [pc |-> "open", copy |-> getSettings, seen |-> stored]
<1>1. /\ r \in [pc : {"closed", "open", "sent"}, copy : Preferences, seen : Preferences] /\ r.pc # "sent"
  BY GetSettings DEF Prefs, PrefTypes
<1>2. /\ page' = [page EXCEPT ![g] = r] /\ edits' = edits /\ link' = link
      /\ UNCHANGED <<stored, current, adopting, exporting, crossed>>
  BY DEF OpenPage
<1>3. edits' \in Nat /\ edits' >= edits
  BY <1>2 DEF Prefs, PrefTypes
<1> HIDE DEF r
<1> QED
  BY <1>1, <1>2, <1>3, PageSends

LEMMA PrefsChange ==
  ASSUME LinkTypes, Prefs, NEW g \in Pages, saveToBackground(g)
  PROVE  Prefs'
<1> DEFINE mine == [keys |-> edits + 1, drive |-> getSettings.drive,
                    consent |-> page[g].copy.consent \/ getSettings.consent]
           r == [pc |-> "sent", copy |-> mine, seen |-> stored]
<1>1. /\ page' = [page EXCEPT ![g] = r] /\ edits' = edits + 1 /\ link' = link
      /\ UNCHANGED <<stored, current, adopting, exporting, crossed>>
  BY DEF saveToBackground
<1>2. getSettings \in Preferences /\ getSettings = Effective(stored) /\ page[g].copy \in Preferences /\ edits \in Nat
      /\ stored \in Preferences
  BY GetSettings DEF Prefs, PrefTypes
<1>3. mine \in Preferences /\ mine.keys = edits + 1
  <2>1. edits + 1 \in Int /\ getSettings.drive \in {0, 1} /\ (page[g].copy.consent \/ getSettings.consent) \in BOOLEAN
    BY <1>2 DEF Preferences
  <2> QED
    BY <2>1 DEF Preferences
<1> HIDE DEF mine
<1>4. Effective(stored).keys <= edits /\ Effective(stored) \in Preferences
  BY <1>2, EffectiveSettings DEF Prefs, PrefTypes, Edits, Preferences
<1>5. Rank(mine) > Rank(Effective(stored))
  <2>1. Effective(stored).keys < mine.keys
    BY <1>2, <1>3, <1>4 DEF Preferences
  <2> QED
    BY <1>3, <1>4, <2>1, Ranks
<1>6. /\ r \in [pc : {"closed", "open", "sent"}, copy : Preferences, seen : Preferences]
      /\ r.copy = mine /\ r.seen = stored
  BY <1>2, <1>3
<1>7. edits' \in Nat /\ edits' >= edits /\ mine.keys \in 0..edits'
  BY <1>1, <1>2, <1>3
<1> HIDE DEF r
<1>8. r.copy.keys \in 0..edits' /\ Rank(r.copy) > Rank(Effective(r.seen))
  BY <1>5, <1>6, <1>7
<1> QED
  BY <1>1, <1>6, <1>7, <1>8, PageSends

LEMMA PrefsConsent ==
  ASSUME LinkTypes, Prefs, NEW g \in Pages, acknowledgeConsent(g)
  PROVE  Prefs'
<1> DEFINE mine == [getSettings EXCEPT !.consent = TRUE]
           r == [pc |-> "sent", copy |-> mine, seen |-> stored]
<1>1. /\ page' = [page EXCEPT ![g] = r] /\ edits' = edits /\ link' = link /\ ~getSettings.consent
      /\ UNCHANGED <<stored, current, adopting, exporting, crossed>>
  BY DEF acknowledgeConsent
<1>2. getSettings \in Preferences /\ getSettings = Effective(stored) /\ edits \in Nat /\ stored \in Preferences
  BY GetSettings DEF Prefs, PrefTypes
<1>3. mine \in Preferences /\ mine.keys = getSettings.keys /\ mine.consent
  BY <1>2, PreferencesSet
<1> HIDE DEF mine
<1>4. getSettings.keys \in 0..edits
  BY <1>2, EffectiveSettings DEF Prefs, PrefTypes, Edits, Preferences
<1>5. Rank(mine) > Rank(Effective(stored))
  BY <1>1, <1>2, <1>3, Ranks
<1>6. /\ r \in [pc : {"closed", "open", "sent"}, copy : Preferences, seen : Preferences]
      /\ r.copy = mine /\ r.seen = stored
  BY <1>2, <1>3
<1>7. edits' \in Nat /\ edits' >= edits /\ mine.keys \in 0..edits'
  BY <1>1, <1>2, <1>3, <1>4
<1> HIDE DEF r
<1>8. r.copy.keys \in 0..edits' /\ Rank(r.copy) > Rank(Effective(r.seen))
  BY <1>5, <1>6, <1>7
<1> QED
  BY <1>1, <1>6, <1>7, <1>8, PageSends

\* A save that was sent is stored, and waits to be adopted.
LEMMA PrefsSave ==
  ASSUME Prefs, NEW g \in Pages, saveSettings(g)
  PROVE  Prefs'
<1> DEFINE mine == page[g].copy
<1>1. /\ link.init = "done" /\ link' = link /\ page[g].pc = "sent"
      /\ page' = [page EXCEPT ![g].pc = "open"]
      /\ UNCHANGED <<current, edits, exporting>>
      /\ \/ /\ stored' = mine /\ adopting' = Append(adopting, mine)
            /\ crossed' = (crossed \/ stored # page[g].seen)
         \/ UNCHANGED <<stored, adopting, crossed>>
  BY DEF saveSettings
<1>2. /\ mine \in Preferences /\ page[g].seen \in Preferences /\ adopting \in Seq(Preferences)
      /\ stored \in Preferences /\ current \in Preferences /\ edits \in Nat /\ crossed \in BOOLEAN
  BY DEF Prefs, PrefTypes
<1>3. mine.keys \in 0..edits /\ Rank(mine) > Rank(Effective(page[g].seen))
  BY <1>1 DEF Prefs, Edits
<1>4. \A h \in Pages : /\ page'[h].copy = page[h].copy /\ page'[h].seen = page[h].seen
                       /\ page'[h].pc = IF h = g THEN "open" ELSE page[h].pc
  BY <1>1 DEF Prefs, PrefTypes
<1>5. page' \in [Pages -> [pc : {"closed", "open", "sent"}, copy : Preferences, seen : Preferences]]
  <2>1. page[g] \in [pc : {"closed", "open", "sent"}, copy : Preferences, seen : Preferences]
    BY DEF Prefs, PrefTypes
  <2>2. [page[g] EXCEPT !.pc = "open"] \in [pc : {"closed", "open", "sent"}, copy : Preferences, seen : Preferences]
    BY <2>1
  <2> QED
    BY <1>1, <2>2 DEF Prefs, PrefTypes
<1>6. \A h \in Pages : page'[h].pc = "sent" =>
        page'[h].copy.keys \in 0..edits /\ Rank(page'[h].copy) > Rank(Effective(page'[h].seen))
  BY <1>4 DEF Prefs, Edits
<1> HIDE DEF mine
<1>7. CASE /\ stored' = mine /\ adopting' = Append(adopting, mine)
           /\ crossed' = (crossed \/ stored # page[g].seen)
  <2>1. /\ adopting' \in Seq(Preferences) /\ adopting' # <<>> /\ Len(adopting) \in Nat
        /\ Len(adopting') = Len(adopting) + 1 /\ adopting'[Len(adopting')] = mine
        /\ \A k \in 1..Len(adopting) : adopting'[k] = adopting[k]
    BY <1>2, <1>7
  <2>2. PrefTypes'
    BY <1>1, <1>2, <1>5, <1>7, <2>1 DEF Prefs, PrefTypes
  <2>3. stored'.keys >= 0 /\ stored'.keys <= edits
    BY <1>3, <1>7
  <2>4. \A k \in 1..Len(adopting') : adopting'[k].keys \in 0..edits
    BY <1>3, <2>1 DEF Prefs, Edits
  <2>5. Edits'
    BY <1>1, <1>6, <2>3, <2>4 DEF Prefs, Edits, Effective, Unset, Rank
  <2>6. ASSUME ~crossed' PROVE /\ adopting'[Len(adopting')] = stored'
                               /\ Rank(current) < Rank(stored')
                               /\ \A k \in 1..(Len(adopting') - 1) : Rank(adopting'[k]) < Rank(stored')
    <3>1. ~crossed /\ stored = page[g].seen
      BY <1>7, <2>6
    <3>2. Rank(mine) > Rank(Effective(stored)) /\ Rank(mine) \in Int /\ Rank(current) \in Int /\ Rank(stored) \in Int
          /\ Effective(stored) \in Preferences /\ Rank(Effective(stored)) \in Int
          /\ \A k \in 1..Len(adopting) : adopting[k] \in Preferences /\ Rank(adopting[k]) \in Int
      BY <1>2, <1>3, <3>1, Ranks, EffectiveSettings
    <3>3. CASE adopting = <<>>
      <4>1. current.keys = Effective(stored).keys /\ current.consent = Effective(stored).consent
        BY <1>1, <3>1, <3>3 DEF Prefs, MemoryFollows
      <4>2. Rank(current) = Rank(Effective(stored))
        BY <1>2, <3>2, <4>1, Ranks
      <4>3. Len(adopting') = 1
        BY <2>1, <3>3
      <4> QED
        BY <1>7, <2>1, <3>2, <4>2, <4>3
    <3>4. CASE adopting # <<>>
      <4>1. /\ adopting[Len(adopting)] = stored /\ Rank(current) < Rank(stored)
            /\ \A k \in 1..(Len(adopting) - 1) : Rank(adopting[k]) < Rank(stored)
        BY <1>1, <3>1, <3>4 DEF Prefs, MemoryFollows
      <4>2. Len(adopting) \in 1..Len(adopting)
        BY <1>2, <3>4
      <4>3. stored.keys >= 0
        BY <4>1, <4>2 DEF Prefs, Edits
      <4>4. Effective(stored) = stored
        BY <4>3 DEF Effective, Unset
      <4>5. \A k \in 1..Len(adopting) : Rank(adopting[k]) <= Rank(stored)
        BY <3>2, <4>1, <4>2
      <4> QED
        BY <1>7, <2>1, <3>2, <4>1, <4>4, <4>5
    <3> QED
      BY <3>3, <3>4
  <2>7. MemoryFollows'
    BY <1>1, <2>1, <2>6 DEF MemoryFollows
  <2> QED
    BY <2>2, <2>5, <2>7 DEF Prefs
<1>8. CASE UNCHANGED <<stored, adopting, crossed>>
  <2>1. PrefTypes'
    BY <1>1, <1>5, <1>8 DEF Prefs, PrefTypes
  <2>2. Edits'
    BY <1>1, <1>6, <1>8 DEF Prefs, Edits, Effective, Unset, Rank
  <2>3. MemoryFollows'
    BY <1>1, <1>8 DEF Prefs, MemoryFollows
  <2> QED
    BY <2>1, <2>2, <2>3 DEF Prefs
<1> QED
  BY <1>1, <1>7, <1>8

LEMMA PrefsAdopt ==
  ASSUME Prefs, adoptSettings
  PROVE  Prefs' /\ current' # Unset
<1>1. /\ adopting # <<>> /\ current' = Head(adopting) /\ adopting' = Tail(adopting) /\ link' = link
      /\ UNCHANGED <<stored, page, edits, exporting, crossed>>
  BY DEF adoptSettings
<1>2. adopting \in Seq(Preferences) /\ stored \in Preferences /\ edits \in Nat
  BY DEF Prefs, PrefTypes
<1>3. /\ Len(adopting) \in Nat /\ Len(adopting) >= 1 /\ Head(adopting) = adopting[1] /\ adopting[1] \in Preferences
      /\ Tail(adopting) \in Seq(Preferences) /\ Len(Tail(adopting)) = Len(adopting) - 1
      /\ \A k \in 1..Len(Tail(adopting)) : Tail(adopting)[k] = adopting[k + 1] /\ k + 1 \in 1..Len(adopting)
  BY <1>1, <1>2
<1>12. (Tail(adopting) # <<>>) <=> (Len(adopting) > 1)
  <2>1. (Tail(adopting) = <<>>) <=> (Len(Tail(adopting)) = 0)
    BY <1>3, EmptyOf
  <2> QED
    BY <1>3, <2>1
<1>4. current'.keys \in 0..edits
  BY <1>1, <1>3 DEF Prefs, Edits
<1>5. PrefTypes'
  BY <1>1, <1>3 DEF Prefs, PrefTypes
<1>6. link.init = "done"
  BY <1>1 DEF Prefs, Edits
<1>7. \A k \in 1..Len(adopting') : adopting'[k].keys \in 0..edits
  BY <1>1, <1>3 DEF Prefs, Edits
<1>8. Edits'
  BY <1>1, <1>2, <1>4, <1>6, <1>7 DEF Prefs, Edits
<1>9. ASSUME ~crossed
      PROVE  IF adopting' = <<>> THEN current' = Effective(stored)
             ELSE /\ adopting'[Len(adopting')] = stored /\ Rank(current') < Rank(stored)
                  /\ \A k \in 1..(Len(adopting') - 1) : Rank(adopting'[k]) < Rank(stored)
  <2>1. /\ adopting[Len(adopting)] = stored
        /\ \A k \in 1..(Len(adopting) - 1) : Rank(adopting[k]) < Rank(stored)
    BY <1>1, <1>6, <1>9 DEF Prefs, MemoryFollows
  <2>2. CASE adopting' = <<>>
    <3>1. Len(adopting) = 1
      BY <1>1, <1>3, <1>12, <2>2
    <3>2. current' = stored /\ stored.keys >= 0
      BY <1>1, <1>2, <1>3, <1>4, <2>1, <3>1
    <3> QED
      BY <2>2, <3>2 DEF Effective, Unset
  <2>3. CASE adopting' # <<>>
    <3>1. Len(adopting) > 1 /\ Len(adopting') = Len(adopting) - 1
      BY <1>1, <1>3, <1>12, <2>3
    <3>2. adopting'[Len(adopting')] = stored
      BY <1>1, <1>3, <2>1, <3>1
    <3>3. Rank(current') < Rank(stored)
      BY <1>1, <1>3, <2>1, <3>1
    <3>4. \A k \in 1..(Len(adopting') - 1) : Rank(adopting'[k]) < Rank(stored)
      BY <1>1, <1>3, <2>1, <3>1
    <3> QED
      BY <2>3, <3>2, <3>3, <3>4
  <2> QED
    BY <2>2, <2>3
<1>10. MemoryFollows'
  <2>1. CASE ~crossed /\ adopting' = <<>>
    BY <1>1, <1>9, <2>1 DEF MemoryFollows
  <2>2. CASE ~crossed /\ adopting' # <<>>
    BY <1>1, <1>9, <2>2 DEF MemoryFollows
  <2>3. CASE crossed
    BY <1>1, <2>3 DEF MemoryFollows
  <2> QED
    BY <2>1, <2>2, <2>3
<1>11. current' # Unset
  BY <1>4 DEF Unset
<1> QED
  BY <1>5, <1>8, <1>10, <1>11 DEF Prefs

LEMMA PrefsRefresh ==
  ASSUME Prefs, refreshDriveToken
  PROVE  Prefs' /\ current'.keys = current.keys
<1>1. /\ link.init = "done" /\ link' = link /\ ~exporting /\ exporting' = TRUE
      /\ current' = [current EXCEPT !.drive = 1]
      /\ UNCHANGED <<stored, adopting, page, edits, crossed>>
  BY DEF refreshDriveToken
<1>2. current \in Preferences /\ stored \in Preferences
  BY DEF Prefs, PrefTypes
<1>3. current' \in Preferences /\ current'.keys = current.keys /\ current'.consent = current.consent
  BY <1>1, <1>2 DEF Preferences
<1>4. Rank(current') = Rank(current)
  BY <1>2, <1>3, Ranks
<1>5. PrefTypes'
  BY <1>1, <1>3 DEF Prefs, PrefTypes
<1>6. Edits'
  BY <1>1, <1>3 DEF Prefs, Edits
<1>7. MemoryFollows'
  BY <1>1, <1>3, <1>4 DEF Prefs, MemoryFollows
<1> QED
  BY <1>3, <1>5, <1>6, <1>7 DEF Prefs

LEMMA PrefsExport ==
  ASSUME LinkTypes, Prefs, exportToDrive
  PROVE  Prefs'
<1>1. /\ exporting /\ exporting' = FALSE /\ stored' = current /\ link' = link
      /\ crossed' = (crossed \/ [getSettings EXCEPT !.drive = current.drive] # current)
      /\ UNCHANGED <<current, adopting, page, edits>>
  BY DEF exportToDrive
<1>2. /\ current \in Preferences /\ stored \in Preferences /\ adopting \in Seq(Preferences) /\ edits \in Nat
      /\ crossed \in BOOLEAN
  BY DEF Prefs, PrefTypes
<1>3. link.init = "done" /\ current.keys >= 0 /\ current.keys <= edits
  BY <1>1 DEF Prefs, Edits
<1>4. PrefTypes'
  BY <1>1, <1>2 DEF Prefs, PrefTypes
<1>5. Edits'
  BY <1>1, <1>3 DEF Prefs, Edits
<1>6. ASSUME ~crossed' PROVE adopting = <<>>
  <2> SUFFICES ASSUME adopting # <<>> PROVE FALSE
    OBVIOUS
  <2>1. ~crossed /\ [getSettings EXCEPT !.drive = current.drive] = current
    BY <1>1, <1>6
  <2>2. adopting[Len(adopting)] = stored /\ Rank(current) < Rank(stored)
    BY <1>3, <2>1 DEF Prefs, MemoryFollows
  <2>3. stored.keys >= 0
    <3>1. Len(adopting) \in 1..Len(adopting)
      BY <1>2
    <3> QED
      BY <2>2, <3>1 DEF Prefs, Edits
  <2>4. getSettings = stored
    BY <2>3 DEF getSettings, Unset
  <2>5. current.keys = stored.keys /\ current.consent = stored.consent
    <3>1. /\ [stored EXCEPT !.drive = current.drive].keys = stored.keys
          /\ [stored EXCEPT !.drive = current.drive].consent = stored.consent
      BY <1>2 DEF Preferences
    <3> QED
      BY <2>1, <2>4, <3>1
  <2>6. Rank(current) = Rank(stored) /\ Rank(current) \in Int /\ Rank(stored) \in Int
    BY <1>2, <2>5, Ranks
  <2> QED
    BY <2>2, <2>6
<1>7. Effective(current) = current
  BY <1>3 DEF Effective, Unset
<1>8. MemoryFollows'
  BY <1>1, <1>6, <1>7 DEF MemoryFollows
<1> QED
  BY <1>4, <1>5, <1>8 DEF Prefs

LEMMA PrefsEnds ==
  ASSUME Prefs, WorkerEnds
  PROVE  Prefs'
<1>1. /\ link'.init = "no" /\ current' = Unset /\ adopting' = <<>> /\ exporting' = FALSE
      /\ page' = [g \in Pages |-> [page[g] EXCEPT !.pc = IF @ = "sent" THEN "open" ELSE @]]
      /\ UNCHANGED <<stored, edits, crossed>>
  BY WorkerEndsLink DEF WorkerEnds, LinkSleeps
<1>2. Unset \in Preferences /\ Unset.keys = -1 /\ edits \in Nat
  BY EffectiveSettings DEF Prefs, PrefTypes
<1>3. ASSUME NEW g \in Pages
      PROVE  /\ page'[g] \in [pc : {"closed", "open", "sent"}, copy : Preferences, seen : Preferences]
             /\ page'[g].pc # "sent"
  <2>1. page[g] \in [pc : {"closed", "open", "sent"}, copy : Preferences, seen : Preferences]
    BY DEF Prefs, PrefTypes
  <2>2. page'[g] = [page[g] EXCEPT !.pc = IF page[g].pc = "sent" THEN "open" ELSE page[g].pc]
    BY <1>1
  <2> QED
    BY <2>1, <2>2
<1>4. page' \in [Pages -> [pc : {"closed", "open", "sent"}, copy : Preferences, seen : Preferences]]
  BY <1>1, <1>3
<1>8. <<>> \in Seq(Preferences)
  OBVIOUS
<1>5. PrefTypes'
  BY <1>1, <1>2, <1>4, <1>8 DEF Prefs, PrefTypes
<1>6. Edits'
  BY <1>1, <1>2, <1>3 DEF Prefs, Edits
<1>7. MemoryFollows'
  BY <1>1 DEF MemoryFollows
<1> QED
  BY <1>5, <1>6, <1>7 DEF Prefs

LEMMA PrefsStep ==
  ASSUME LinkTypes, Wire, Retrying, Prefs, LinkNext \/ UNCHANGED linkVars
  PROVE  Prefs'
<1> USE DEF Wire
<1>1. CASE WorkerWakes
  BY <1>1, WorkerWakesLink, PrefsRest DEF WorkerWakes, LinkWakes, OnePort
<1>2. CASE controllerInit
  BY <1>2, controllerInitLink, PrefsInit DEF LinkLoads
<1>3. CASE connectNative
  BY <1>3, connectNativeLink, PrefsRest DEF connectNative, LinkFails, LinkOpens
<1>4. CASE sendHello
  BY <1>4, sendHelloLink, PrefsRest DEF sendHello, LinkStays
<1>5. CASE alarmPermission
  BY <1>5, alarmPermissionLink, PrefsRest DEF alarmPermission, LinkStays
<1>6. CASE TimerFires
  BY <1>6, TimerFiresLink, PrefsRest DEF TimerFires, LinkStays
<1>7. CASE retryFromAlarm
  BY <1>7, retryFromAlarmLink, PrefsRest DEF retryFromAlarm, LinkStays, LinkWakes, OnePort
<1>8. CASE checkHelper
  BY <1>8, checkHelperLink, PrefsRest DEF checkHelper, LinkStays
<1>9. CASE savePairingToken
  BY <1>9, savePairingTokenLink, PrefsRest DEF savePairingToken, LinkUnpaired
<1>10. ASSUME NEW p \in Ports, handleMessage(p) PROVE Prefs'
  BY <1>10, handleMessageLink, PrefsRest DEF handleMessage, LinkHears
<1>11. ASSUME NEW p \in Ports, handleDisconnect(p) PROVE Prefs'
  BY <1>11, handleDisconnectLink, PrefsRest DEF handleDisconnect, LinkLoses
<1>12. ASSUME NEW p \in Ports, helperReads(p) PROVE Prefs'
  BY <1>12, PrefsRest DEF helperReads
<1>13. ASSUME NEW g \in Pages, OpenPage(g) \/ saveToBackground(g) \/ acknowledgeConsent(g) \/ saveSettings(g)
       PROVE  Prefs'
  BY <1>13, PrefsOpen, PrefsChange, PrefsConsent, PrefsSave
<1>14. CASE adoptSettings
  BY <1>14, PrefsAdopt
<1>15. CASE refreshDriveToken
  BY <1>15, PrefsRefresh
<1>16. CASE exportToDrive
  BY <1>16, PrefsExport
<1>17. ASSUME NEW r \in Probes, sendRequest(r) \/ requestTimesOut(r) PROVE Prefs'
  BY <1>17, PrefsRest DEF sendRequest, requestTimesOut
<1>18. CASE HelperStops
  BY <1>18, PrefsRest DEF HelperStops
<1>19. CASE HelperStarts
  BY <1>19, PrefsRest DEF HelperStarts
<1>20. CASE PairNewBrowser
  BY <1>20, PrefsRest DEF PairNewBrowser
<1>21. CASE InstallHelper
  BY <1>21, PrefsRest DEF InstallHelper
<1>22. CASE WorkerEnds
  BY <1>22, PrefsEnds
<1>23. CASE UNCHANGED linkVars
  BY <1>23, PrefsRest DEF linkVars
<1> QED
  BY <1>1, <1>2, <1>3, <1>4, <1>5, <1>6, <1>7, <1>8, <1>9, <1>10, <1>11, <1>12, <1>13, <1>14, <1>15, <1>16, <1>17,
     <1>18, <1>19, <1>20, <1>21, <1>22, <1>23 DEF LinkNext

-----------------------------------------------------------------------------
(* The settings: a greeted helper has them, or they are on their way *)

LEMMA SettingsAppended ==
  ASSUME NEW q \in Seq(FromExt), NEW s \in Preferences, NEW held
  PROVE  UpToDate(Append(q, SettingsMessage(s)), held, s.keys)
<1> DEFINE m == SettingsMessage(s)
           r == Append(q, m)
<1>1. m.type = "settings" /\ m.keys = s.keys
  BY DEF SettingsMessage
<1> HIDE DEF m
<1>2. Len(r) = Len(q) + 1 /\ Len(q) \in Nat /\ r[Len(q) + 1] = m
  OBVIOUS
<1> HIDE DEF r
<1>3. Len(q) + 1 \in Pushes(r) /\ \A j \in Pushes(r) : j <= Len(q) + 1
  BY <1>1, <1>2 DEF Pushes
<1>4. UpToDate(r, held, s.keys)
  BY <1>1, <1>2, <1>3 DEF UpToDate
<1> QED
  BY <1>4 DEF r, m

LEMMA OtherAppended ==
  ASSUME NEW q \in Seq(FromExt), NEW m, m.type # "settings", NEW held, NEW wanted, UpToDate(q, held, wanted)
  PROVE  UpToDate(Append(q, m), held, wanted)
<1> DEFINE r == Append(q, m)
<1>1. /\ Len(r) = Len(q) + 1 /\ Len(q) \in Nat /\ r[Len(q) + 1] = m
      /\ \A k \in 1..Len(q) : r[k] = q[k]
  OBVIOUS
<1> HIDE DEF r
<1>2. Pushes(r) = Pushes(q)
  BY <1>1 DEF Pushes
<1>3. \A k \in Pushes(q) : r[k] = q[k]
  BY <1>1 DEF Pushes
<1>4. UpToDate(r, held, wanted)
  BY <1>2, <1>3 DEF UpToDate
<1> QED
  BY <1>4 DEF r

LEMMA SettingsTaken ==
  ASSUME NEW q \in Seq(FromExt), q # <<>>, NEW held, NEW wanted, UpToDate(q, held, wanted)
  PROVE  UpToDate(Tail(q), IF Head(q).type = "settings" THEN Head(q).keys ELSE held, wanted)
<1> DEFINE r == Tail(q)
           now == IF Head(q).type = "settings" THEN Head(q).keys ELSE held
<1>1. /\ Len(r) = Len(q) - 1 /\ Len(q) \in Nat /\ Len(q) > 0 /\ Head(q) = q[1]
      /\ \A k \in 1..Len(r) : r[k] = q[k + 1]
  OBVIOUS
<1> HIDE DEF r
<1> SUFFICES UpToDate(r, now, wanted)
  BY DEF r
<1>2. \A k \in Pushes(r) : k + 1 \in Pushes(q) /\ k \in Nat /\ k >= 1 /\ r[k] = q[k + 1]
  BY <1>1 DEF Pushes
<1>3. \A k \in Pushes(q) : k > 1 => k - 1 \in Pushes(r) /\ r[k - 1] = q[k]
  BY <1>1 DEF Pushes
<1>4. CASE Pushes(q) = {} /\ held = wanted
  <2>1. Pushes(r) = {}
    BY <1>2, <1>4
  <2>2. Head(q).type # "settings"
    BY <1>1, <1>4 DEF Pushes
  <2> QED
    BY <1>4, <2>1, <2>2 DEF UpToDate
<1>5. CASE \E k \in Pushes(q) : q[k].keys = wanted /\ \A j \in Pushes(q) : j <= k
  <2> PICK k \in Pushes(q) : q[k].keys = wanted /\ \A j \in Pushes(q) : j <= k
    BY <1>5
  <2>1. k \in 1..Len(q) /\ q[k].type = "settings"
    BY DEF Pushes
  <2>2. CASE k = 1
    <3>1. Pushes(r) = {}
      <4>1. \A j \in Pushes(r) : j + 1 <= k
        BY <1>2
      <4>2. \A j \in Pushes(r) : FALSE
        BY <1>2, <2>2, <4>1
      <4> QED
        BY <4>2
    <3>2. now = wanted
      BY <1>1, <2>1, <2>2
    <3> HIDE DEF now
    <3> QED
      BY <3>1, <3>2 DEF UpToDate
  <2>3. CASE k > 1
    <3>1. k - 1 \in Pushes(r) /\ r[k - 1].keys = wanted
      BY <1>3, <2>3
    <3>2. \A j \in Pushes(r) : j <= k - 1
      BY <1>2, <2>1
    <3> QED
      BY <3>1, <3>2 DEF UpToDate
  <2> QED
    BY <2>1, <2>2, <2>3
<1> QED
  BY <1>4, <1>5 DEF UpToDate

LEMMA FollowsRest ==
  ASSUME HelperFollows, link'.port = link.port, link'.status = link.status, link'.init = link.init, conn' = conn,
         helper'.keys = helper.keys, current'.keys = current.keys
  PROVE  HelperFollows'
BY DEF HelperFollows

LEMMA FollowsNobody ==
  ASSUME link'.status # "connected" \/ link'.port = 0
  PROVE  HelperFollows'
BY DEF HelperFollows

\* The settings of the controller are pushed to the client's port.
LEMMA FollowsPush ==
  ASSUME LinkTypes, NEW s \in Preferences, s # Unset, current' = s, link'.port = link.port,
         conn' = pushSettings(conn, link, s)
  PROVE  HelperFollows'
<1>1. conn \in Connections /\ link.port \in 0..MaxPorts
  BY DEF LinkTypes, LinkState, Connections
<1>2. CASE link.port = 0
  BY <1>2, FollowsNobody
<1>3. CASE link.port # 0
  <2>1. link.port \in Ports /\ conn'[link.port].toHelper = Append(conn[link.port].toHelper, SettingsMessage(s))
    BY <1>1, <1>3, PushesSettings
  <2>2. conn[link.port].toHelper \in Seq(FromExt)
    BY <1>1, <2>1 DEF Connections, Connection
  <2>3. UpToDate(conn'[link.port].toHelper, helper'.keys, current'.keys)
    BY <2>1, <2>2, SettingsAppended
  <2> QED
    BY <2>3 DEF HelperFollows
<1> QED
  BY <1>2, <1>3

\* A hello or a request is sent.
LEMMA FollowsSend ==
  ASSUME LinkTypes, HelperFollows, LinkStays, ConnSends, NEW m \in FromExt, m.type # "settings",
         helper' = helper, current' = current,
         link.port # 0 => link.port \in Ports /\ conn'[link.port].toHelper = Append(conn[link.port].toHelper, m)
  PROVE  HelperFollows'
<1>1. CASE link.port = 0
  BY <1>1, FollowsNobody DEF LinkStays
<1>2. CASE link.port # 0
  <2>1. conn[link.port].toHelper \in Seq(FromExt) /\ conn'[link.port].end = conn[link.port].end
    BY <1>2 DEF LinkTypes, Connection, ConnSends, Sent
  <2>2. UpToDate(conn[link.port].toHelper, helper.keys, current.keys) =>
          UpToDate(conn'[link.port].toHelper, helper.keys, current.keys)
    BY <1>2, <2>1, OtherAppended
  <2> QED
    BY <2>1, <2>2 DEF HelperFollows, LinkStays
<1> QED
  BY <1>1, <1>2

LEMMA FollowsHears ==
  ASSUME LinkTypes, Wire, Retrying, Prefs, HelperFollows, NEW p \in Ports, handleMessage(p)
  PROVE  HelperFollows'
<1> USE DEF Wire
<1>1. /\ link.port = p /\ LinkHears /\ helper' = helper /\ current' = current
      /\ HearsInfo(p) \/ HearsPaired(p) \/ HearsRefusal(p) \/ HearsOther(p)
  BY handleMessageLink DEF handleMessage, prefVars
<1>2. /\ ConnHears(p)
      /\ IF First(p).type = "info" /\ link'.status = "connected" /\ link.status # "connected" /\ current # Unset
         THEN PushesNow(p) ELSE KeepsSent(p)
  BY handleMessageConn
<1>3. current \in Preferences /\ conn[p].toHelper \in Seq(FromExt)
  BY DEF LinkTypes, Connection
<1>4. CASE link'.status # "connected" \/ link'.init # "done"
  BY <1>4 DEF HelperFollows
<1>5. CASE link'.status = "connected" /\ link'.init = "done" /\ link.status = "connected"
  <2>1. KeepsSent(p)
    BY <1>2, <1>5
  <2> QED
    BY <1>1, <1>2, <1>5, <2>1 DEF KeepsSent, ConnHears, HelperFollows, LinkHears
<1>6. CASE link'.status = "connected" /\ link'.init = "done" /\ link.status # "connected"
  <2>1. First(p).type = "info"
    BY <1>1, <1>6 DEF HearsInfo, HearsPaired, HearsRefusal, HearsOther
  <2>2. current.keys >= 0
    BY <1>1, <1>6 DEF Prefs, Edits, LinkHears
  <2>3. current # Unset
    BY <2>2 DEF Unset
  <2>4. UpToDate(conn'[p].toHelper, helper.keys, current.keys)
    BY <1>2, <1>3, <1>6, <2>1, <2>3, SettingsAppended DEF PushesNow
  <2> QED
    BY <1>1, <2>4 DEF HelperFollows, LinkHears
<1> QED
  BY <1>4, <1>5, <1>6

LEMMA FollowsReads ==
  ASSUME LinkTypes, Wire, HelperFollows, NEW p \in Ports, helperReads(p)
  PROVE  HelperFollows'
<1> USE DEF Wire
<1>1. /\ ReadsOne(p) /\ current' = current
      /\ HelperPairs(p) \/ HelperCloses(p) \/ HelperAccepts(p) \/ HelperApplies(p) \/ HelperAnswers(p)
  BY helperReadsConn DEF helperReads, prefVars
<1>2. /\ link' = link /\ link.port = p /\ conn[p].end = "open" /\ conn[p].toHelper # <<>>
      /\ conn[p].toHelper \in Seq(FromExt)
  BY <1>1 DEF ReadsOne, LinkTypes, Connection
<1>3. CASE link.status # "connected" \/ link.init # "done"
  BY <1>2, <1>3 DEF HelperFollows
<1>4. CASE link.status = "connected" /\ link.init = "done"
  <2>1. conn[p].authed /\ p # 0
    BY <1>2, <1>4 DEF Greeted
  <2>2. UpToDate(conn[p].toHelper, helper.keys, current.keys)
    BY <1>2, <1>4, <2>1 DEF HelperFollows
  <2>3. UpToDate(Tail(conn[p].toHelper), IF ReadFrom(p).type = "settings" THEN ReadFrom(p).keys ELSE helper.keys,
                 current.keys)
    BY <1>2, <2>2, SettingsTaken DEF ReadFrom
  <2>4. CASE HelperApplies(p)
    <3>1. helper'.keys = ReadFrom(p).keys
      BY <2>4 DEF HelperApplies, LinkTypes
    <3> QED
      BY <1>1, <1>2, <2>3, <2>4, <3>1 DEF HelperApplies, HelperFollows
  <2>5. CASE HelperAnswers(p)
    BY <1>1, <1>2, <2>3, <2>5 DEF HelperAnswers, HelperFollows
  <2> QED
    BY <1>1, <2>1, <2>4, <2>5 DEF HelperPairs, HelperCloses, HelperAccepts
<1> QED
  BY <1>3, <1>4

LEMMA FollowsStep ==
  ASSUME LinkTypes, Wire, Retrying, Prefs, HelperFollows, LinkNext \/ UNCHANGED linkVars
  PROVE  HelperFollows'
<1> USE DEF Wire
<1>1. CASE WorkerWakes
  BY <1>1, WorkerWakesLink, FollowsNobody DEF LinkWakes
<1>2. CASE controllerInit
  <2>1. LinkLoads /\ current' = getSettings /\ conn' = pushSettings(conn, link, getSettings)
    BY <1>2, controllerInitLink DEF controllerInit
  <2>2. getSettings = Effective(stored) /\ getSettings \in Preferences
    BY GetSettings
  <2>3. getSettings.keys >= 0
    BY <2>2, EffectiveSettings DEF Prefs, PrefTypes, Edits
  <2>4. getSettings # Unset
    BY <2>3 DEF Unset
  <2> QED
    BY <2>1, <2>2, <2>4, FollowsPush DEF LinkLoads
<1>3. CASE connectNative
  <2>1. LinkFails \/ LinkOpens
    BY <1>3, connectNativeLink
  <2> QED
    BY <2>1, FollowsNobody DEF LinkFails, LinkOpens
<1>4. CASE sendHello
  <2>1. LinkStays /\ helper' = helper /\ current' = current
    BY <1>4, sendHelloLink DEF sendHello, prefVars
  <2>2. HelloMessage.type # "settings"
    BY DEF HelloMessage
  <2> QED
    BY <1>4, <2>1, <2>2, sendHelloConn, FollowsSend
<1>5. CASE alarmPermission
  BY <1>5, alarmPermissionLink, FollowsRest DEF alarmPermission, LinkStays, prefVars, wireVars
<1>6. CASE TimerFires
  BY <1>6, TimerFiresLink, FollowsRest DEF TimerFires, LinkStays, prefVars, wireVars
<1>7. CASE retryFromAlarm
  BY <1>7, retryFromAlarmLink, FollowsRest, FollowsNobody
     DEF retryFromAlarm, LinkStays, LinkWakes, prefVars, wireVars
<1>8. CASE checkHelper
  BY <1>8, checkHelperLink, FollowsRest DEF checkHelper, LinkStays, prefVars, wireVars
<1>9. CASE savePairingToken
  <2>1. conn' = conn /\ helper' = helper /\ current' = current
    BY <1>9 DEF savePairingToken, prefVars, wireVars
  <2> QED
    BY <1>9, <2>1, savePairingTokenLink, FollowsRest, FollowsNobody DEF LinkUnpaired
<1>10. ASSUME NEW p \in Ports, handleMessage(p) PROVE HelperFollows'
  BY <1>10, FollowsHears
<1>11. ASSUME NEW p \in Ports, handleDisconnect(p) PROVE HelperFollows'
  BY <1>11, handleDisconnectLink, FollowsNobody DEF LinkLoses
<1>12. ASSUME NEW p \in Ports, helperReads(p) PROVE HelperFollows'
  BY <1>12, FollowsReads
<1>13. ASSUME NEW g \in Pages, OpenPage(g) \/ saveToBackground(g) \/ acknowledgeConsent(g) \/ saveSettings(g)
       PROVE  HelperFollows'
  <2>1. link' = link /\ conn' = conn /\ helper' = helper /\ current' = current
    BY <1>13 DEF OpenPage, saveToBackground, acknowledgeConsent, saveSettings, wireVars
  <2> QED
    BY <2>1, FollowsRest
<1>14. CASE adoptSettings
  <2>1. /\ current' = Head(adopting) /\ conn' = pushSettings(conn, link, Head(adopting)) /\ link' = link
        /\ Head(adopting) \in Preferences
    <3>1. adopting # <<>> /\ adopting \in Seq(Preferences)
      BY <1>14 DEF adoptSettings, Prefs, PrefTypes
    <3> QED
      BY <1>14, <3>1 DEF adoptSettings
  <2>2. Head(adopting) # Unset
    BY <1>14, <2>1, PrefsAdopt
  <2> QED
    BY <2>1, <2>2, FollowsPush
<1>15. CASE refreshDriveToken
  <2>1. link' = link /\ conn' = conn /\ helper' = helper
    BY <1>15 DEF refreshDriveToken, wireVars
  <2> QED
    BY <1>15, <2>1, PrefsRefresh, FollowsRest
<1>16. CASE exportToDrive
  <2>1. link' = link /\ conn' = conn /\ helper' = helper /\ current' = current
    BY <1>16 DEF exportToDrive, wireVars
  <2> QED
    BY <2>1, FollowsRest
<1>17. ASSUME NEW r \in Probes, sendRequest(r) PROVE HelperFollows'
  <2>1. link' = link /\ helper' = helper /\ current' = current
    BY <1>17 DEF sendRequest, prefVars
  <2>2. LinkStays
    BY <2>1 DEF LinkStays, LinkTypes, OnePort
  <2>3. RequestMessage.type # "settings"
    BY DEF RequestMessage
  <2> QED
    BY <1>17, <2>1, <2>2, <2>3, sendRequestConn, FollowsSend
<1>18. ASSUME NEW r \in Probes, requestTimesOut(r) PROVE HelperFollows'
  <2>1. link' = link /\ conn' = conn /\ helper' = helper /\ current' = current
    BY <1>18 DEF requestTimesOut, wireVars, prefVars
  <2> QED
    BY <2>1, FollowsRest
<1>19. CASE HelperStops
  <2>1. ConnStops
    BY <1>19, HelperStopsConn
  <2>2. link.port # 0 => link.port \in Ports
    BY LinkBoundsAssumption DEF LinkTypes, LinkState, Ports
  <2>3. link'.port # 0 => conn'[link'.port].end # "open"
    BY <2>1, <2>2 DEF ConnStops
  <2> QED
    BY <2>3 DEF HelperFollows
<1>20. CASE HelperStarts \/ PairNewBrowser
  <2>1. /\ link' = link /\ conn' = conn /\ current' = current
        /\ \E h : helper' = [helper EXCEPT !.up = TRUE, !.token = h] \/ helper' = [helper EXCEPT !.file = h]
    BY <1>20 DEF HelperStarts, PairNewBrowser, wireVars, prefVars
  <2>2. helper'.keys = helper.keys
    BY <2>1 DEF LinkTypes
  <2> QED
    BY <2>1, <2>2, FollowsRest
<1>21. CASE InstallHelper
  BY <1>21, FollowsRest DEF InstallHelper, wireVars, prefVars
<1>22. CASE WorkerEnds
  BY <1>22, WorkerEndsLink, FollowsNobody DEF LinkSleeps
<1>23. CASE UNCHANGED linkVars
  BY <1>23, FollowsRest DEF linkVars, wireVars, prefVars
<1> QED
  BY <1>1, <1>2, <1>3, <1>4, <1>5, <1>6, <1>7, <1>8, <1>9, <1>10, <1>11, <1>12, <1>13, <1>14, <1>15, <1>16, <1>17,
     <1>18, <1>19, <1>20, <1>21, <1>22, <1>23 DEF LinkNext

-----------------------------------------------------------------------------
(* Pairing: the browser's token and the helper's *)

HelperState == [up : BOOLEAN, token : Nat, file : Nat, keys : Int]
PairTypes ==
  helper \in HelperState /\ token \in Nat /\ minted \in Nat /\ writes \in Seq(Nat) /\ mislaid \in BOOLEAN
Pair == PairTypes /\ Tokens

LEMMA PairOf ==
  ASSUME LinkTypes
  PROVE  /\ PairTypes
         /\ \A p \in Ports : conn[p].toExt \in Seq(FromHelper) /\ conn[p].toHelper \in Seq(FromExt)
                             /\ Len(conn[p].toExt) \in Nat /\ Len(conn[p].toHelper) \in Nat
                             /\ (conn[p].toExt = <<>> <=> Len(conn[p].toExt) = 0)
                             /\ (conn[p].toHelper = <<>> <=> Len(conn[p].toHelper) = 0)
<1>1. PairTypes
  BY DEF LinkTypes, PairTypes, HelperState
<1>2. ASSUME NEW p \in Ports
      PROVE  conn[p].toExt \in Seq(FromHelper) /\ conn[p].toHelper \in Seq(FromExt)
  BY DEF LinkTypes, Connection
<1> QED
  BY <1>1, <1>2, EmptyOf

\* Only the client's own port carries anything.
LEMMA OwnPort ==
  ASSUME Wire, NEW p \in Ports, NEW q \in Ports, link.port = p, q # p
  PROVE  NoPort(q) /\ conn[q].toExt = <<>> /\ conn[q].toHelper = <<>> /\ conn[q].end # "open"
BY DEF Wire, OnePort, NoPort

\* Steps that move no token.
LEMMA PairKeeps ==
  ASSUME Pair, UNCHANGED pairVars, helper' \in HelperState, helper'.file = helper.file, helper'.token <= minted,
         \A p \in Ports : conn'[p].toExt = conn[p].toExt, Ungreeted'
  PROVE  Pair'
<1> USE DEF pairVars, Pair
<1>1. PairTypes'
  BY DEF PairTypes
<1>2. Issued'
  BY DEF Tokens, Issued
<1>3. \A p \in Ports : \A k : PairedIn(p, k)' <=> PairedIn(p, k)
  BY DEF PairedIn
<1>4. Carried'
  BY <1>3 DEF Tokens, Carried
<1>5. ToStore' /\ (NewToken' <=> NewToken)
  BY DEF Tokens, ToStore, NewToken
<1>6. Matched'
  BY <1>3, <1>5 DEF Tokens, Matched
<1> QED
  BY <1>1, <1>2, <1>4, <1>5, <1>6 DEF Tokens

\* The client sends, and a hello only when no token is on its way to storage.
LEMMA PairSends ==
  ASSUME LinkTypes, Wire, Pair, ConnSends, UNCHANGED pairVars, helper' = helper,
         writes = <<>> \/ \A p \in Ports : Greets(p)' => Greets(p)
  PROVE  Pair'
<1>1. \A p \in Ports : /\ conn'[p].toExt = conn[p].toExt /\ conn'[p].end = conn[p].end
                       /\ conn'[p].authed = conn[p].authed
  BY DEF ConnSends, Sent
<1>2. writes' = writes
  BY DEF pairVars
<1>3. Ungreeted'
  BY <1>1, <1>2 DEF Pair, Tokens, Ungreeted
<1>4. helper' \in HelperState /\ helper'.file = helper.file /\ helper'.token <= minted
  BY DEF Pair, PairTypes, Tokens, Issued
<1> QED
  BY <1>1, <1>3, <1>4, PairKeeps

\* A message that is no hello is sent.
LEMMA NoHello ==
  ASSUME LinkTypes, ConnSends, NEW m \in FromExt, m.type # "hello",
         link.port \in Ports => \/ conn' = conn
                                \/ conn'[link.port].toHelper = Append(conn[link.port].toHelper, m)
  PROVE  \A p \in Ports : Greets(p)' => Greets(p)
<1> TAKE p \in Ports
<1>1. CASE conn'[p] = conn[p]
  BY <1>1 DEF Greets
<1>2. CASE conn'[p] # conn[p]
  <2>1. p = link.port
    BY <1>2 DEF ConnSends, Sent
  <2>2. conn[p].toHelper \in Seq(FromExt) /\ conn'[p].toHelper = Append(conn[p].toHelper, m)
    BY <1>2, <2>1, PairOf
  <2> DEFINE q == conn[p].toHelper
  <2>3. /\ Len(conn'[p].toHelper) = Len(q) + 1 /\ conn'[p].toHelper[Len(q) + 1] = m /\ Len(q) \in Nat
        /\ \A k \in 1..Len(q) : conn'[p].toHelper[k] = q[k]
    BY <2>2
  <2> HIDE DEF q
  <2>4. ASSUME NEW k \in 1..Len(conn'[p].toHelper), conn'[p].toHelper[k].type = "hello"
        PROVE  k \in 1..Len(q) /\ q[k].type = "hello"
    <3>1. k # Len(q) + 1
      BY <2>3, <2>4
    <3>2. k \in 1..Len(q)
      BY <2>3, <3>1
    <3> QED
      BY <2>3, <2>4, <3>2
  <2> QED
    BY <2>4 DEF Greets, q
<1> QED
  BY <1>1, <1>2

LEMMA PairPushes ==
  ASSUME LinkTypes, Wire, Pair, UNCHANGED pairVars, helper' = helper, NEW s \in Preferences,
         conn' = pushSettings(conn, link, s), ports' = ports
  PROVE  Pair'
<1>1. conn \in Connections /\ link.port \in 0..MaxPorts
  BY DEF LinkTypes, LinkState, Connections
<1>2. \/ conn' = conn /\ Sent(conn', conn, link.port)
      \/ /\ link.port \in Ports /\ Sent(conn', conn, link.port)
         /\ conn'[link.port].toHelper = Append(conn[link.port].toHelper, SettingsMessage(s))
  BY <1>1, PushesSettings
<1>3. ConnSends
  BY <1>2 DEF ConnSends
<1>4. SettingsMessage(s) \in FromExt /\ SettingsMessage(s).type # "hello"
  BY DEF SettingsMessage, FromExt, Preferences
<1>5. \A p \in Ports : Greets(p)' => Greets(p)
  BY <1>2, <1>3, <1>4, NoHello
<1> QED
  BY <1>3, <1>5, PairSends

LEMMA PairConnects ==
  ASSUME LinkTypes, Wire, Retrying, Pair, connectNative
  PROVE  Pair'
<1>1. UNCHANGED pairVars /\ helper' = helper
  BY DEF connectNative
<1>2. \/ conn' = conn
      \/ /\ LinkOpens /\ ports' = ports + 1
         /\ conn' = [conn EXCEPT ![ports + 1].end =
                       IF ~installed THEN "missing" ELSE IF helper.up THEN "open" ELSE "closed"]
  BY connectNativeLink DEF Wire
<1>3. CASE conn' = conn
  <2>1. Ungreeted'
    BY <1>1, <1>3 DEF Pair, Tokens, Ungreeted, Greets, pairVars
  <2> QED
    BY <1>1, <1>3, <2>1, PairKeeps DEF Pair, PairTypes, Tokens, Issued
<1>4. CASE /\ LinkOpens /\ ports' = ports + 1
           /\ conn' = [conn EXCEPT ![ports + 1].end =
                         IF ~installed THEN "missing" ELSE IF helper.up THEN "open" ELSE "closed"]
  <2> PICK p \in Ports : p = ports + 1
    BY <1>4 DEF LinkOpens
  <2> PICK e \in {"missing", "open", "closed"} :
             e = IF ~installed THEN "missing" ELSE IF helper.up THEN "open" ELSE "closed"
    OBVIOUS
  <2>1. conn' = [conn EXCEPT ![p].end = e] /\ conn \in Connections /\ e \in Ends /\ link.port = 0
    BY <1>4 DEF LinkTypes, Connections, Ends, LinkOpens
  <2>2. /\ conn'[p].toHelper = conn[p].toHelper /\ conn'[p].toExt = conn[p].toExt
        /\ \A r \in Ports : r # p => conn'[r] = conn[r]
    BY <2>1 DEF Connections, Connection
  <2>3. \A r \in Ports : conn[r].toHelper = <<>> /\ conn[r].toExt = <<>>
    BY <2>1 DEF Wire, OnePort, Ports
  <2>4. \A r \in Ports : conn'[r].toHelper = <<>> /\ conn'[r].toExt = <<>> /\ conn'[r].toExt = conn[r].toExt
    BY <2>2, <2>3
  <2>5. \A r \in Ports : ~Greets(r)'
    BY <2>4 DEF Greets
  <2>6. Ungreeted'
    BY <2>4, <2>5 DEF Ungreeted
  <2> QED
    BY <1>1, <2>4, <2>6, PairKeeps DEF Pair, PairTypes, Tokens, Issued
<1> QED
  BY <1>2, <1>3, <1>4

LEMMA PairDisconnects ==
  ASSUME LinkTypes, Wire, Retrying, Pair, NEW p \in Ports, handleDisconnect(p)
  PROVE  Pair'
<1>1. UNCHANGED pairVars /\ helper' = helper /\ conn[p].toExt = <<>>
  BY DEF handleDisconnect
<1>2. PortIs(conn', conn, p, <<>>, <<>>, "gone", FALSE)
  BY WireDisconnects
<1>3. \A r \in Ports : /\ conn'[r].toExt = conn[r].toExt
                       /\ conn'[r].end = "open" => conn'[r] = conn[r]
  BY <1>1, <1>2 DEF PortIs
<1>4. Ungreeted'
  BY <1>1, <1>3 DEF Pair, Tokens, Ungreeted, Greets, pairVars
<1> QED
  BY <1>1, <1>3, <1>4, PairKeeps DEF Pair, PairTypes, Tokens, Issued

LEMMA PairStops ==
  ASSUME LinkTypes, Pair, HelperStops
  PROVE  Pair'
<1>1. UNCHANGED pairVars /\ helper' = [helper EXCEPT !.up = FALSE, !.token = 0, !.keys = -1]
  BY DEF HelperStops
<1>2. ConnStops
  BY HelperStopsConn
<1>3. \A r \in Ports : /\ conn'[r].toExt = conn[r].toExt
                       /\ conn'[r].end = "open" => conn'[r] = conn[r]
  BY <1>2 DEF ConnStops
<1>4. Ungreeted'
  BY <1>1, <1>3 DEF Pair, Tokens, Ungreeted, Greets, pairVars
<1>5. /\ helper' \in HelperState /\ helper'.file = helper.file /\ helper'.token = 0
  <2> PICK n \in Int : n = -1
    OBVIOUS
  <2> PICK z \in Nat : z = 0
    OBVIOUS
  <2>1. helper' = [helper EXCEPT !.up = FALSE, !.token = z, !.keys = n]
    BY <1>1
  <2>2. helper' \in HelperState /\ helper'.file = helper.file /\ helper'.token = z
    <3>1. helper \in HelperState
      BY DEF Pair, PairTypes
    <3> QED
      BY <2>1, <3>1 DEF HelperState
  <2> QED
    BY <2>2
<1>6. helper'.token <= minted
  BY <1>5 DEF Pair, PairTypes
<1> QED
  BY <1>1, <1>3, <1>4, <1>5, <1>6, PairKeeps

\* The helper answers on a port with a message that carries no token.
LEMMA PairAnswers ==
  ASSUME LinkTypes, Pair, UNCHANGED pairVars, helper' = helper, NEW p \in Ports,
         NEW t \in {"storage_error", "not_paired", "info", "answer"},
         conn'[p].toExt = conn[p].toExt \o <<[type |-> t]>>,
         \A r \in Ports : r # p => conn'[r] = conn[r], Ungreeted'
  PROVE  Pair'
<1> USE DEF pairVars, Pair
<1> DEFINE ms == <<[type |-> t]>>
           q == conn[p].toExt
<1>1. ms \in Seq(FromHelper) /\ Len(ms) = 1 /\ ms[1].type = t /\ q \in Seq(FromHelper) /\ Len(q) \in Nat
  BY PairOf DEF FromHelper
<1>2. conn'[p].toExt = q \o ms
  OBVIOUS
<1> HIDE DEF ms, q
<1>3. /\ Len(conn'[p].toExt) = Len(q) + 1
      /\ \A k \in 1..Len(q) : conn'[p].toExt[k] = q[k]
      /\ conn'[p].toExt[Len(q) + 1].type = t
  <2>1. /\ Len(q \o ms) = Len(q) + Len(ms)
        /\ \A k \in 1..Len(q) : (q \o ms)[k] = q[k]
        /\ \A k \in 1..Len(q \o ms) : k > Len(q) => k - Len(q) \in 1..Len(ms) /\ (q \o ms)[k] = ms[k - Len(q)]
    BY <1>1, Grown
  <2>2. Len(q \o ms) = Len(q) + 1 /\ Len(q) + 1 \in 1..Len(q \o ms) /\ Len(q) + 1 > Len(q)
    BY <1>1, <2>1
  <2>3. (q \o ms)[Len(q) + 1] = ms[(Len(q) + 1) - Len(q)]
    BY <2>1, <2>2
  <2>4. (Len(q) + 1) - Len(q) = 1
    BY <1>1
  <2>5. (q \o ms)[Len(q) + 1] = ms[1]
    BY <2>3, <2>4
  <2> QED
    BY <1>1, <1>2, <2>1, <2>2, <2>5
<1>4. ASSUME NEW r \in Ports, NEW k
      PROVE  /\ PairedIn(r, k)' <=> PairedIn(r, k)
             /\ PairedIn(r, k) => conn'[r].toExt[k] = conn[r].toExt[k]
  <2>1. CASE r # p
    BY <2>1 DEF PairedIn
  <2>2. CASE r = p
    <3>1. PairedIn(p, k)' => k # Len(q) + 1
      BY <1>3 DEF PairedIn
    <3>2. PairedIn(p, k)' => k \in 1..Len(q)
      BY <1>1, <1>3, <3>1 DEF PairedIn
    <3>3. PairedIn(p, k) <=> k \in 1..Len(q) /\ q[k].type = "paired"
      BY DEF PairedIn, q
    <3>4. k \in 1..Len(q) => k \in 1..Len(conn'[p].toExt) /\ conn'[p].toExt[k] = q[k]
      BY <1>1, <1>3
    <3>5. PairedIn(p, k)' <=> k \in 1..Len(q) /\ q[k].type = "paired"
      BY <3>2, <3>4 DEF PairedIn
    <3> QED
      BY <2>2, <3>3, <3>4, <3>5 DEF q
  <2> QED
    BY <2>1, <2>2
<1>5. PairTypes' /\ Issued'
  BY DEF PairTypes, Tokens, Issued
<1>6. Carried'
  <2> SUFFICES ASSUME NEW r \in Ports, NEW k \in 1..Len(conn'[r].toExt), PairedIn(r, k)'
               PROVE  /\ k = 1 /\ writes' = <<>>
                      /\ conn'[r].toExt[k].token \in 1..minted' /\ helper'.file \in {0, conn'[r].toExt[k].token}
    BY DEF Carried
  <2>1. PairedIn(r, k) /\ conn'[r].toExt[k] = conn[r].toExt[k] /\ k \in 1..Len(conn[r].toExt)
    BY <1>4 DEF PairedIn
  <2> QED
    BY <2>1 DEF Tokens, Carried
<1>7. ToStore' /\ (NewToken' <=> NewToken)
  BY DEF Tokens, ToStore, NewToken
<1>8. Matched'
  BY <1>4, <1>7 DEF Tokens, Matched
<1> QED
  BY <1>5, <1>6, <1>7, <1>8 DEF Tokens

\* The helper pairs: its new token goes to the browser that had none on its way.
LEMMA PairMints ==
  ASSUME LinkTypes, Wire, Pair, NEW p \in Ports, ReadsOne(p), HelperPairs(p),
         UNCHANGED <<token, writes, mislaid>>
  PROVE  Pair'
<1> USE DEF Pair
<1>1. conn[p].end = "open" /\ ~conn[p].authed /\ conn[p].toHelper # <<>> /\ link.port = p
  BY DEF ReadsOne, HelperPairs
<1>2. Greets(p)
  <2>1. conn[p].toHelper \in Seq(FromExt) /\ Len(conn[p].toHelper) \in Nat
    BY PairOf
  <2>2. 1 \in 1..Len(conn[p].toHelper) /\ ReadFrom(p) = conn[p].toHelper[1]
    BY <1>1, <2>1 DEF ReadFrom
  <2> QED
    BY <2>2 DEF Greets, HelperPairs
<1>3. conn[p].toExt = <<>> /\ writes = <<>> /\ writes' = <<>>
  BY <1>1, <1>2 DEF Tokens, Ungreeted
<1>4. minted \in Nat /\ token \in Nat /\ helper \in HelperState
  BY DEF PairTypes
<1>5. minted' = minted + 1 /\ minted' \in Nat /\ minted < minted'
  BY <1>4 DEF HelperPairs
<1>6. helper' \in HelperState /\ helper'.token = minted' /\ helper'.file = minted'
  <2>1. helper' = [helper EXCEPT !.token = minted', !.file = minted']
    BY <1>5 DEF HelperPairs
  <2> QED
    BY <1>4, <1>5, <2>1 DEF HelperState
<1>7. /\ Len(conn'[p].toExt) = 2 /\ conn'[p].toExt[1].type = "paired" /\ conn'[p].toExt[1].token = minted'
      /\ conn'[p].toExt[2].type = "info"
  <2>1. conn'[p].toExt = <<>> \o <<[type |-> "paired", token |-> minted'], [type |-> "info"]>>
    BY <1>3, <1>5 DEF HelperPairs, MintedToken
  <2> QED
    BY <2>1
<1>8. \A r \in Ports : r # p => conn'[r].toExt = <<>> /\ conn'[r].end # "open"
  BY <1>1, OwnPort DEF ReadsOne
<1>9. \A r \in Ports : \A k \in 1..Len(conn'[r].toExt) : PairedIn(r, k)' => r = p /\ k = 1
  BY <1>7, <1>8 DEF PairedIn
<1>10. PairTypes'
  BY <1>5, <1>6 DEF PairTypes
<1>11. Issued'
  BY <1>3, <1>4, <1>5, <1>6 DEF Tokens, Issued
<1>12. Carried'
  <2>1. minted' \in 1..minted'
    BY <1>4, <1>5
  <2> QED
    BY <1>3, <1>6, <1>7, <1>9, <2>1 DEF Carried
<1>13. ToStore'
  BY <1>3 DEF ToStore, NewToken
<1>14. Ungreeted'
  BY <1>8 DEF Ungreeted, HelperPairs
<1>15. Matched'
  <2>1. PairedIn(p, 1)'
    BY <1>7 DEF PairedIn
  <2> QED
    BY <2>1 DEF Matched
<1> QED
  BY <1>10, <1>11, <1>12, <1>13, <1>14, <1>15 DEF Tokens

LEMMA PairReads ==
  ASSUME LinkTypes, Wire, Pair, NEW p \in Ports, helperReads(p)
  PROVE  Pair'
<1>1. /\ ReadsOne(p) /\ UNCHANGED <<token, writes, mislaid>>
      /\ HelperPairs(p) \/ HelperCloses(p) \/ HelperAccepts(p) \/ HelperApplies(p) \/ HelperAnswers(p)
  BY helperReadsConn DEF Wire, helperReads
<1>2. \A r \in Ports : r # p => conn'[r] = conn[r] /\ conn'[r].end # "open"
  BY <1>1, OwnPort DEF ReadsOne
<1>3. CASE HelperPairs(p)
  BY <1>1, <1>3, PairMints
<1>4. CASE HelperCloses(p)
  <2> PICK t \in {"storage_error", "not_paired"} : conn'[p].toExt = conn[p].toExt \o <<[type |-> t]>>
    BY <1>4 DEF HelperCloses
  <2>1. UNCHANGED pairVars /\ helper' = helper /\ Ungreeted'
    BY <1>1, <1>2, <1>4 DEF HelperCloses, Ungreeted, pairVars
  <2> QED
    BY <1>2, <2>1, PairAnswers
<1>5. CASE HelperAccepts(p)
  <2>1. UNCHANGED pairVars /\ helper' = helper /\ Ungreeted'
    BY <1>1, <1>2, <1>5 DEF HelperAccepts, Ungreeted, pairVars
  <2>2. conn'[p].toExt = conn[p].toExt \o <<[type |-> "info"]>>
    BY <1>5 DEF HelperAccepts
  <2> QED
    BY <1>2, <2>1, <2>2, PairAnswers
<1>6. CASE HelperApplies(p)
  <2>1. UNCHANGED pairVars /\ Ungreeted'
    BY <1>1, <1>2, <1>6 DEF HelperApplies, Ungreeted, pairVars
  <2>2. ReadFrom(p).keys \in Int
    <3>1. conn[p].toHelper \in Seq(FromExt) /\ conn[p].toHelper # <<>>
      BY <1>1, PairOf DEF ReadsOne
    <3>2. ReadFrom(p) \in FromExt
      BY <3>1 DEF ReadFrom
    <3> QED
      BY <1>6, <3>2 DEF HelperApplies, FromExt
  <2>3. helper' \in HelperState /\ helper'.file = helper.file /\ helper'.token = helper.token
    BY <1>6, <2>2 DEF HelperApplies, Pair, PairTypes, HelperState
  <2>4. \A r \in Ports : conn'[r].toExt = conn[r].toExt
    BY <1>2, <1>6 DEF HelperApplies
  <2>5. helper'.token <= minted
    BY <2>3 DEF Pair, Tokens, Issued
  <2> QED
    BY <2>1, <2>3, <2>4, <2>5, PairKeeps
<1>7. CASE HelperAnswers(p)
  <2>1. UNCHANGED pairVars /\ helper' = helper /\ Ungreeted'
    BY <1>1, <1>2, <1>7 DEF HelperAnswers, Ungreeted, pairVars
  <2>2. conn'[p].toExt = conn[p].toExt \o <<[type |-> "answer"]>>
    BY <1>7 DEF HelperAnswers
  <2> QED
    BY <1>2, <2>1, <2>2, PairAnswers
<1> QED
  BY <1>1, <1>3, <1>4, <1>5, <1>6, <1>7

\* The client hears a message: a token or a refusal becomes a write.
LEMMA PairHears ==
  ASSUME LinkTypes, Wire, Retrying, Pair, NEW p \in Ports, handleMessage(p)
  PROVE  Pair'
<1> USE DEF Pair
<1>1. /\ link.port = p /\ conn[p].toExt # <<>>
      /\ HearsInfo(p) \/ HearsPaired(p) \/ HearsRefusal(p) \/ HearsOther(p)
      /\ UNCHANGED <<token, minted, mislaid>> /\ helper' = helper
  BY handleMessageLink DEF Wire, handleMessage
<1>2. /\ conn'[p].toExt = Tail(conn[p].toExt) /\ conn'[p].end = conn[p].end /\ conn'[p].authed = conn[p].authed
      /\ \A r \in Ports : r # p => conn'[r] = conn[r]
  BY handleMessageConn DEF Wire, ConnHears
<1>3. /\ First(p) = conn[p].toExt[1] /\ First(p) \in FromHelper /\ 1 \in 1..Len(conn[p].toExt)
      /\ Len(Tail(conn[p].toExt)) \in Int
      /\ \A k \in 1..Len(Tail(conn[p].toExt)) :
           Tail(conn[p].toExt)[k] = conn[p].toExt[k + 1] /\ k + 1 \in 1..Len(conn[p].toExt)
  BY <1>1, RestOf
<1>4. \A r \in Ports : r # p => conn[r].toExt = <<>> /\ conn[r].end # "open"
  BY <1>1, OwnPort
<1>5. Ungreeted'
  <2>1. ~(conn[p].end = "open" /\ ~conn[p].authed)
    BY <1>1 DEF Tokens, Ungreeted
  <2> QED
    BY <1>2, <1>4, <2>1 DEF Ungreeted
<1>6. \A r \in Ports : \A k \in 1..Len(conn'[r].toExt) : ~PairedIn(r, k)'
  <2> TAKE r \in Ports
  <2> TAKE k \in 1..Len(conn'[r].toExt)
  <2>1. CASE r = p
    <3>1. /\ conn'[p].toExt[k] = conn[p].toExt[k + 1] /\ k + 1 \in 1..Len(conn[p].toExt) /\ k + 1 # 1
      <4>1. k \in 1..Len(Tail(conn[p].toExt))
        BY <1>2, <2>1
      <4>2. k + 1 # 1
        BY <1>3, <4>1
      <4> QED
        BY <1>2, <1>3, <4>1, <4>2
    <3>2. ~PairedIn(p, k + 1)
      BY <3>1 DEF Tokens, Carried
    <3> QED
      BY <2>1, <3>1, <3>2 DEF PairedIn
  <2>2. CASE r # p
    BY <1>2, <1>4, <2>2
  <2> QED
    BY <2>1, <2>2
<1>7. Carried'
  BY <1>6 DEF Carried
<1>8. writes \in Seq(Nat) /\ Len(writes) \in Nat /\ (writes = <<>> <=> Len(writes) = 0)
  <2>1. writes \in Seq(Nat)
    BY DEF PairTypes
  <2> QED
    BY <2>1, EmptyOf
<1>9. helper' \in HelperState /\ token' \in Nat /\ minted' \in Nat /\ mislaid' \in BOOLEAN
  BY <1>1 DEF PairTypes
<1>10. CASE HearsPaired(p)
  <2> DEFINE t == First(p).token
  <2>1. First(p).type = "paired" /\ writes' = Append(writes, t)
    BY <1>10 DEF HearsPaired
  <2>2. PairedIn(p, 1)
    BY <1>3, <2>1 DEF PairedIn
  <2>3. writes = <<>> /\ t \in 1..minted /\ helper.file \in {0, t}
    BY <1>3, <2>2 DEF Tokens, Carried
  <2> HIDE DEF t
  <2>4. /\ writes' \in Seq(Nat) /\ Len(writes') = 1 /\ writes'[1] = t /\ t # 0 /\ t <= minted /\ writes' # <<>>
    BY <2>1, <2>3
  <2>5. PairTypes'
    BY <1>9, <2>4 DEF PairTypes
  <2>6. Issued'
    BY <1>1, <2>4 DEF Tokens, Issued
  <2>7. ToStore' /\ NewToken'
    BY <1>1, <2>3, <2>4 DEF ToStore, NewToken
  <2>8. Matched'
    BY <2>7 DEF Matched
  <2> QED
    BY <1>5, <1>7, <2>5, <2>6, <2>7, <2>8 DEF Tokens
<1>11. CASE HearsRefusal(p)
  <2>1. First(p).type = "not_paired" /\ writes' = Append(writes, 0)
    BY <1>11 DEF HearsRefusal
  <2>2. /\ writes' \in Seq(Nat) /\ Len(writes') = Len(writes) + 1 /\ writes'[Len(writes) + 1] = 0
        /\ \A k \in 1..Len(writes) : writes'[k] = writes[k]
    BY <1>8, <2>1, AppendedTo
  <2>3. PairTypes'
    BY <1>9, <2>2 DEF PairTypes
  <2>4. Issued'
    <3>1. minted \in Nat
      BY DEF PairTypes
    <3>2. \A k \in 1..Len(writes') : k = Len(writes) + 1 \/ k \in 1..Len(writes)
      BY <1>8, <2>2
    <3>3. \A k \in 1..Len(writes') : writes'[k] <= minted /\ (k > 1 => writes'[k] = 0)
      BY <2>2, <3>1, <3>2 DEF Tokens, Issued
    <3> QED
      BY <1>1, <3>3 DEF Tokens, Issued
  <2>5. /\ NewToken' <=> NewToken
        /\ NewToken => writes'[1] = writes[1]
    <3>1. CASE writes = <<>>
      BY <1>8, <2>2, <3>1 DEF NewToken
    <3>2. CASE writes # <<>>
      <4>1. 1 \in 1..Len(writes) /\ writes'[1] = writes[1] /\ Len(writes') # 0
        BY <1>8, <2>2, <3>2
      <4>2. writes' # <<>>
        BY <4>1, <2>2, EmptyOf
      <4> QED
        BY <3>2, <4>1, <4>2 DEF NewToken
    <3> QED
      BY <3>1, <3>2
  <2>6. ToStore'
    BY <1>1, <2>5 DEF Tokens, ToStore
  <2>7. \A r \in Ports : ~PairedIn(r, 1)
    <3>1. ~PairedIn(p, 1)
      BY <1>3, <2>1 DEF PairedIn
    <3> QED
      BY <1>4, <3>1 DEF PairedIn
  <2>8. Matched'
    BY <1>1, <2>5, <2>7 DEF Tokens, Matched
  <2> QED
    BY <1>5, <1>7, <2>3, <2>4, <2>6, <2>8 DEF Tokens
<1>12. CASE HearsInfo(p) \/ HearsOther(p)
  <2>1. writes' = writes /\ First(p).type # "paired"
    BY <1>12 DEF HearsInfo, HearsOther
  <2>2. PairTypes'
    BY <1>9, <2>1 DEF PairTypes
  <2>3. Issued'
    BY <1>1, <2>1 DEF Tokens, Issued
  <2>4. ToStore' /\ (NewToken' <=> NewToken)
    BY <1>1, <2>1 DEF Tokens, ToStore, NewToken
  <2>5. \A r \in Ports : ~PairedIn(r, 1)
    <3>1. ~PairedIn(p, 1)
      BY <1>3, <2>1 DEF PairedIn
    <3> QED
      BY <1>4, <3>1 DEF PairedIn
  <2>6. Matched'
    BY <1>1, <2>4, <2>5 DEF Tokens, Matched
  <2> QED
    BY <1>5, <1>7, <2>2, <2>3, <2>4, <2>6 DEF Tokens
<1> QED
  BY <1>1, <1>10, <1>11, <1>12

\* A token reaches storage, or cannot be stored.
LEMMA PairSaves ==
  ASSUME LinkTypes, Pair, savePairingToken
  PROVE  Pair'
<1> USE DEF Pair
<1>1. /\ writes # <<>> /\ writes' = Tail(writes) /\ conn' = conn /\ helper' = helper /\ minted' = minted
      /\ \/ /\ token' = Head(writes)
            /\ mislaid' = IF Head(writes) = 0 THEN mislaid \/ (token # 0 /\ token = helper.file) ELSE FALSE
         \/ mislaid' = TRUE /\ token' = token
  BY DEF savePairingToken, wireVars
<1>2. writes \in Seq(Nat) /\ mislaid \in BOOLEAN /\ token \in Nat /\ minted \in Nat
  BY DEF PairTypes
<1>3. /\ Tail(writes) \in Seq(Nat) /\ Head(writes) \in Nat /\ Head(writes) = writes[1] /\ 1 \in 1..Len(writes)
      /\ \A k \in 1..Len(Tail(writes)) : /\ Tail(writes)[k] = writes[k + 1] /\ k + 1 \in 1..Len(writes)
                                         /\ k + 1 > 1
  BY <1>1, <1>2, TailOf
<1>4. \A k \in 1..Len(writes') : writes'[k] = 0
  BY <1>1, <1>3 DEF Tokens, Issued
<1>5. ~NewToken'
  <2>1. writes' # <<>> => 1 \in 1..Len(writes')
    BY <1>1, <1>3
  <2> QED
    BY <1>4, <2>1 DEF NewToken
<1>6. \A r \in Ports : \A k : ~PairedIn(r, k) /\ ~PairedIn(r, k)'
  <2> TAKE r \in Ports
  <2> TAKE k
  <2>1. ~PairedIn(r, k)
    BY <1>1 DEF Tokens, Carried, PairedIn
  <2> QED
    BY <1>1, <2>1 DEF PairedIn
<1>7. PairTypes'
  <2>1. mislaid' \in BOOLEAN
    BY <1>1, <1>2
  <2> QED
    BY <1>1, <1>2, <1>3, <2>1 DEF PairTypes
<1>8. Issued'
  <2>1. token' <= minted
    BY <1>1, <1>3 DEF Tokens, Issued
  <2> QED
    BY <1>1, <1>2, <1>4, <2>1 DEF Tokens, Issued
<1>9. Carried' /\ ToStore'
  BY <1>5, <1>6 DEF Carried, ToStore
<1>10. Ungreeted'
  BY <1>1 DEF Tokens, Ungreeted, Greets
<1>11. Matched'
  <2>1. CASE Head(writes) # 0 /\ token' = Head(writes)
    <3>1. helper.file \in {0, Head(writes)}
      BY <1>1, <1>3, <2>1 DEF Tokens, ToStore, NewToken
    <3> QED
      BY <1>1, <2>1, <3>1 DEF Matched
  <2>2. CASE Head(writes) = 0 /\ mislaid' = (mislaid \/ (token # 0 /\ token = helper.file))
    <3>1. ~NewToken
      BY <1>3, <2>2 DEF NewToken
    <3>2. ~mislaid /\ helper.file # 0 => token = helper.file
      BY <1>6, <3>1 DEF Tokens, Matched
    <3> QED
      BY <1>1, <2>2, <3>2 DEF Matched
  <2>3. CASE mislaid' = TRUE
    BY <2>3 DEF Matched
  <2> QED
    BY <1>1, <2>1, <2>2, <2>3
<1> QED
  BY <1>7, <1>8, <1>9, <1>10, <1>11 DEF Tokens

\* The worker ends, and a write may be lost with the browser.
LEMMA PairEnds ==
  ASSUME LinkTypes, Wire, Pair, WorkerEnds
  PROVE  Pair'
<1> USE DEF Pair
<1>1. UNCHANGED <<token, minted>> /\ helper' = helper
  BY DEF WorkerEnds
<1>2. \A r \in Ports : conn'[r].toExt = <<>> /\ conn'[r].end # "open"
  BY WorkerEndsConn DEF ConnEnds
<1>3. \E kept \in BOOLEAN :
        /\ writes' = IF kept THEN writes ELSE <<>>
        /\ mislaid' = (mislaid \/ (~kept /\ \E k \in 1..Len(writes) : writes[k] # 0)
                       \/ \E p \in Ports : \E k \in 1..Len(conn[p].toExt) : conn[p].toExt[k].type = "paired")
  BY DEF WorkerEnds
<1> PICK kept \in BOOLEAN :
      /\ writes' = IF kept THEN writes ELSE <<>>
      /\ mislaid' = (mislaid \/ (~kept /\ \E k \in 1..Len(writes) : writes[k] # 0)
                     \/ \E p \in Ports : \E k \in 1..Len(conn[p].toExt) : conn[p].toExt[k].type = "paired")
  BY <1>3
<1>4. PairTypes'
  <2>1. <<>> \in Seq(Nat)
    OBVIOUS
  <2>2. mislaid' \in BOOLEAN
    OBVIOUS
  <2> QED
    BY <1>1, <2>1, <2>2 DEF PairTypes
<1>5. \A r \in Ports : \A k : ~PairedIn(r, k)'
  BY <1>2 DEF PairedIn
<1>6. Carried' /\ Ungreeted'
  BY <1>2, <1>5 DEF Carried, Ungreeted
<1>7. Issued' /\ ToStore'
  <2>1. CASE kept
    BY <1>1, <2>1 DEF Tokens, Issued, ToStore, NewToken
  <2>2. CASE ~kept
    BY <1>1, <2>2 DEF Tokens, Issued, ToStore, NewToken
  <2> QED
    BY <2>1, <2>2
<1>8. Matched'
  <2> SUFFICES ASSUME ~mislaid', helper'.file # 0 PROVE token' = helper'.file \/ NewToken'
    BY DEF Matched
  <2>1. ~mislaid /\ (kept \/ \A k \in 1..Len(writes) : writes[k] = 0) /\ \A r \in Ports : ~PairedIn(r, 1)
    BY DEF PairedIn
  <2>2. token = helper.file \/ NewToken
    BY <1>1, <2>1 DEF Tokens, Matched
  <2>3. NewToken => kept
    <3>1. writes \in Seq(Nat)
      BY DEF PairTypes
    <3>2. writes # <<>> => 1 \in 1..Len(writes)
      BY <3>1
    <3> QED
      BY <2>1, <3>2 DEF NewToken
  <2> QED
    BY <1>1, <2>2, <2>3 DEF NewToken
<1> QED
  BY <1>4, <1>6, <1>7, <1>8 DEF Tokens

LEMMA PairStep ==
  ASSUME LinkTypes, Wire, Retrying, Prefs, Pair, LinkNext \/ UNCHANGED linkVars
  PROVE  Pair'
<1>1. ASSUME UNCHANGED <<pairVars, wireVars, helper>> PROVE Pair'
  <2>1. ConnSends /\ \A p \in Ports : Greets(p)' => Greets(p)
    BY <1>1, ConnSame DEF wireVars, Greets
  <2> QED
    BY <1>1, <2>1, PairSends
<1>2. CASE WorkerWakes \/ alarmPermission \/ TimerFires \/ retryFromAlarm \/ checkHelper
  BY <1>1, <1>2 DEF WorkerWakes, alarmPermission, TimerFires, retryFromAlarm, checkHelper
<1>3. CASE controllerInit
  <2>1. getSettings \in Preferences
    BY GetSettings
  <2> QED
    BY <1>3, <2>1, PairPushes DEF controllerInit
<1>4. CASE connectNative
  BY <1>4, PairConnects
<1>5. CASE sendHello
  BY <1>5, sendHelloConn, PairSends DEF sendHello
<1>6. CASE savePairingToken
  BY <1>6, PairSaves
<1>7. ASSUME NEW p \in Ports, handleMessage(p) \/ handleDisconnect(p) \/ helperReads(p) PROVE Pair'
  BY <1>7, PairHears, PairDisconnects, PairReads
<1>8. ASSUME NEW g \in Pages, OpenPage(g) \/ saveToBackground(g) \/ acknowledgeConsent(g) \/ saveSettings(g)
      PROVE  Pair'
  BY <1>1, <1>8 DEF OpenPage, saveToBackground, acknowledgeConsent, saveSettings
<1>9. CASE adoptSettings
  <2>1. adopting # <<>> /\ adopting \in Seq(Preferences)
    BY <1>9 DEF adoptSettings, Prefs, PrefTypes
  <2>2. Head(adopting) \in Preferences
    BY <2>1
  <2> QED
    BY <1>9, <2>2, PairPushes DEF adoptSettings
<1>10. CASE refreshDriveToken \/ exportToDrive \/ InstallHelper
  BY <1>1, <1>10 DEF refreshDriveToken, exportToDrive, InstallHelper
<1>11. ASSUME NEW r \in Probes, sendRequest(r) PROVE Pair'
  <2>1. ConnSends /\ UNCHANGED pairVars /\ helper' = helper
    BY <1>11, sendRequestConn DEF sendRequest
  <2>2. /\ RequestMessage \in FromExt /\ RequestMessage.type # "hello"
        /\ \/ conn' = conn
           \/ conn'[link.port].toHelper = Append(conn[link.port].toHelper, RequestMessage)
    <3>1. link.port = 0 => conn' = conn
      BY <1>11 DEF sendRequest
    <3> QED
      BY <1>11, <3>1, sendRequestConn DEF RequestMessage
  <2>3. \A p \in Ports : Greets(p)' => Greets(p)
    BY <2>1, <2>2, NoHello
  <2> QED
    BY <2>1, <2>3, PairSends
<1>12. ASSUME NEW r \in Probes, requestTimesOut(r) PROVE Pair'
  BY <1>1, <1>12 DEF requestTimesOut
<1>13. CASE HelperStops
  BY <1>13, PairStops
<1>14. CASE HelperStarts
  <2>1. UNCHANGED pairVars /\ conn' = conn /\ helper' = [helper EXCEPT !.up = TRUE, !.token = helper.file]
    BY <1>14 DEF HelperStarts, wireVars
  <2>2. Ungreeted'
    BY <2>1 DEF Pair, Tokens, Ungreeted, Greets, pairVars
  <2>3. helper \in HelperState /\ helper.file <= minted
    BY DEF Pair, PairTypes, Tokens, Issued
  <2>4. helper' \in HelperState /\ helper'.file = helper.file /\ helper'.token = helper.file
    BY <2>1, <2>3 DEF HelperState
  <2> QED
    BY <2>1, <2>2, <2>3, <2>4, PairKeeps
<1>15. CASE PairNewBrowser
  <2>1. /\ UNCHANGED <<token, writes, minted>> /\ conn' = conn /\ mislaid' = TRUE
        /\ helper' = [helper EXCEPT !.file = 0]
    BY <1>15 DEF PairNewBrowser, wireVars
  <2>2. helper' \in HelperState /\ helper'.file = 0 /\ helper'.token = helper.token
    <3> PICK z \in Nat : z = 0
      OBVIOUS
    <3>1. helper' = [helper EXCEPT !.file = z] /\ helper \in HelperState
      BY <2>1 DEF Pair, PairTypes
    <3>2. helper' \in HelperState /\ helper'.file = z /\ helper'.token = helper.token
      BY <3>1 DEF HelperState
    <3> QED
      BY <3>2
  <2>3. minted \in Nat
    BY DEF Pair, PairTypes
  <2>4. PairTypes' /\ Issued' /\ ToStore' /\ Matched'
    BY <2>1, <2>2, <2>3 DEF Pair, PairTypes, Tokens, Issued, ToStore, Matched
  <2>5. Carried'
    BY <2>1, <2>2 DEF Pair, Tokens, Carried, PairedIn
  <2>6. Ungreeted'
    BY <2>1 DEF Pair, Tokens, Ungreeted, Greets
  <2> QED
    BY <2>4, <2>5, <2>6 DEF Pair, Tokens
<1>16. CASE WorkerEnds
  BY <1>16, PairEnds
<1>17. CASE UNCHANGED linkVars
  BY <1>1, <1>17 DEF linkVars
<1> QED
  BY <1>2, <1>3, <1>4, <1>5, <1>6, <1>7, <1>8, <1>9, <1>10, <1>11, <1>12, <1>13, <1>14, <1>15, <1>16, <1>17 DEF LinkNext

-----------------------------------------------------------------------------
(* The invariant *)

LEMMA LinkTypesOf ==
  ASSUME alarm \in BOOLEAN
  PROVE  LinkTypes <=> WireTypes /\ PrefTypes /\ PairTypes
BY DEF LinkTypes, WireTypes, PrefTypes, PairTypes, HelperState, Connections

\* LinkInv is inductive: each part is kept by the lemmas of its group above, which use only the parts before it.
LEMMA LinkStart ==
  ASSUME LinkInit
  PROVE  LinkInv
<1>1. /\ scene \in LinkScenes /\ link = [AsleepLink EXCEPT !.backoff = scene.backoff]
      /\ scene.token \in Nat /\ scene.backoff \in 0..TopBackoff /\ scene.installed \in BOOLEAN
  BY LinkScenesAssumption DEF LinkInit
<1>2. /\ link \in LinkState /\ ~link.up /\ link.port = 0 /\ link.init = "no" /\ link.status = "none"
      /\ link.connecting = "no" /\ link.timers = 0 /\ link.lookups = <<>> /\ ~link.tracked
  <2> DEFINE asleep == AsleepLink
  <2>1. /\ asleep \in LinkState /\ ~asleep.up /\ asleep.port = 0 /\ asleep.init = "no" /\ asleep.status = "none"
        /\ asleep.connecting = "no" /\ asleep.timers = 0 /\ asleep.lookups = <<>> /\ ~asleep.tracked
    BY AsleepFields
  <2>2. link = [asleep EXCEPT !.backoff = scene.backoff]
    BY <1>1
  <2> HIDE DEF asleep
  <2> QED
    BY <1>1, <2>1, <2>2 DEF LinkState
<1>3. Unopened \in Connection
  BY DEF Unopened, Connection, Ends
<1>4. conn \in Connections /\ \A p \in Ports : conn[p] = Unopened
  BY <1>3 DEF LinkInit, Connections
<1>5. \A p \in Ports : /\ conn[p].toHelper = <<>> /\ conn[p].toExt = <<>> /\ conn[p].end = "none"
                       /\ ~conn[p].authed
  BY <1>4 DEF Unopened
<1>6. ports = 0 /\ MaxPorts \in Nat
  BY LinkBoundsAssumption DEF LinkInit
<1>7. Unset \in Preferences /\ Unset.keys = -1
  BY DEF Preferences, Unset
<1>8. alarm \in BOOLEAN /\ WireTypes
  <2>1. ports \in 0..MaxPorts
    BY <1>6
  <2>2. alarm = FALSE
    BY DEF LinkInit
  <2> QED
    BY <1>2, <1>4, <2>1, <2>2 DEF WireTypes
<1>9. PrefTypes
  <2>1. [pc |-> "closed", copy |-> Unset, seen |-> Unset]
          \in [pc : {"closed", "open", "sent"}, copy : Preferences, seen : Preferences]
    BY <1>7
  <2>2. page \in [Pages -> [pc : {"closed", "open", "sent"}, copy : Preferences, seen : Preferences]]
    BY <2>1 DEF LinkInit
  <2>3. <<>> \in Seq(Preferences)
    OBVIOUS
  <2> QED
    BY <1>7, <2>2, <2>3 DEF LinkInit, PrefTypes
<1>10. PairTypes
  <2>1. <<>> \in Seq(Nat)
    OBVIOUS
  <2> PICK n \in Int : n = -1
    OBVIOUS
  <2>2. helper = [up |-> scene.installed, token |-> scene.token, file |-> scene.token, keys |-> n]
    BY DEF LinkInit
  <2>3. helper \in HelperState
    BY <1>1, <2>2 DEF HelperState
  <2> QED
    BY <1>1, <2>1, <2>3 DEF LinkInit, PairTypes
<1>11. LinkTypes
  BY <1>8, <1>9, <1>10, LinkTypesOf
<1>12. OnePort
  BY <1>2, <1>5, <1>6 DEF OnePort, NoPort
<1>13. Greeted
  BY <1>2, <1>5 DEF Greeted
<1>14. HelperFollows
  BY <1>2 DEF HelperFollows
<1>15. Edits
  BY <1>2, <1>7 DEF LinkInit, Edits
<1>16. MemoryFollows
  BY <1>2 DEF MemoryFollows
<1>17. Retrying
  BY <1>2 DEF Retrying, Timed, Lost
<1>18. Tokens
  <2>1. helper.token = scene.token /\ helper.file = scene.token /\ token = scene.token /\ minted = scene.token
        /\ writes = <<>>
    BY DEF LinkInit
  <2>2. \A p \in Ports : ~Greets(p) /\ \A k : ~PairedIn(p, k)
    BY <1>5 DEF Greets, PairedIn
  <2> QED
    BY <1>1, <1>5, <2>1, <2>2 DEF Tokens, Issued, Carried, ToStore, Ungreeted, Matched, NewToken
<1> QED
  BY <1>11, <1>12, <1>13, <1>14, <1>15, <1>16, <1>17, <1>18 DEF LinkInv

LEMMA LinkStep ==
  ASSUME LinkInv, LinkNext \/ UNCHANGED linkVars
  PROVE  LinkInv'
<1>1. LinkTypes /\ Wire /\ Retrying /\ HelperFollows
  BY DEF LinkInv, Wire
<1>2. alarm \in BOOLEAN /\ PrefTypes /\ PairTypes
  BY <1>1, PairOf DEF LinkTypes, PrefTypes
<1>3. Prefs /\ Pair
  BY <1>2 DEF LinkInv, Prefs, Pair
<1>4. Wire' /\ WireTypes' /\ Retrying' /\ alarm' \in BOOLEAN
  BY <1>1, WireStep
<1>5. Prefs' /\ Pair' /\ HelperFollows'
  BY <1>1, <1>3, PrefsStep, PairStep, FollowsStep
<1>6. LinkTypes'
  BY <1>4, <1>5 DEF LinkTypes, WireTypes, PrefTypes, PairTypes, HelperState, Connections, Prefs, Pair
<1> QED
  BY <1>4, <1>5, <1>6 DEF LinkInv, Wire, Prefs, Pair

LEMMA LinkHolds == LinkSpec => []LinkInv
BY LinkStart, LinkStep, PTL DEF LinkSpec

\* Whatever ends and restarts, no second port is left open, a client without its helper has a retry ahead of it,
\* and the browser keeps the token of the helper's file (connectNative, scheduleReconnect, alarmPermission,
\* handleMessage, savePairingToken, helperHello).
THEOREM LinkIsSound == LinkSpec => []LinkSound
<1>1. ASSUME LinkInv PROVE LinkSound
  <2> USE <1>1 DEF LinkInv
  <2>1. LinkTypeOK
    <3>1. link.port \in 0..ports /\ link.timers \in Nat /\ link.backoff \in 0..TopBackoff
      BY DEF LinkTypes, LinkState, OnePort
    <3>2. {token, helper.token, helper.file} \subseteq 0..minted
      BY DEF LinkTypes, Tokens, Issued
    <3> QED
      BY <3>1, <3>2 DEF LinkTypeOK
  <2>2. \A p \in Ports : conn[p].end = "open" => p = link.port
    BY DEF OnePort, NoPort
  <2>3. Lost(link) => RetryPending
    BY DEF Retrying, RetryAhead, RetryPending
  <2>4. ~mislaid /\ helper.file # 0 /\ ~PairingOnItsWay => token = helper.file
    <3>1. \A p \in Ports : PairedIn(p, 1) => PairingOnItsWay
      BY DEF PairedIn, PairingOnItsWay
    <3>2. NewToken => PairingOnItsWay
      BY DEF NewToken, PairingOnItsWay
    <3> QED
      BY <3>1, <3>2 DEF Tokens, Matched
  <2> QED
    BY <2>1, <2>2, <2>3, <2>4 DEF LinkSound, Lost
<1> QED
  BY <1>1, LinkHolds, PTL

\* A change of the settings reaches the controller and the helper over every connection it finds or opens, and
\* what was saved is what is in force (controllerInit, saveSettings, adoptSettings, handleStatusChange,
\* exportToDrive, helperReads).
THEOREM SettingsArrive == LinkSpec => []SettingsReach
<1>1. ASSUME LinkInv PROVE SettingsReach
  <2> SUFFICES ASSUME link.init = "done", link.status = "connected", link.port # 0, adopting = <<>>, ~exporting, ~crossed,
                      conn[link.port].end = "open", conn[link.port].toHelper = <<>>
               PROVE  current = getSettings /\ helper.keys = current.keys
    BY DEF SettingsReach
  <2>1. current = getSettings
    BY <1>1, GetSettings DEF LinkInv, MemoryFollows
  <2>2. UpToDate(<<>>, helper.keys, current.keys)
    BY <1>1 DEF LinkInv, HelperFollows
  <2>3. Pushes(<<>>) = {}
    BY DEF Pushes
  <2>4. helper.keys = current.keys
    BY <2>2, <2>3 DEF UpToDate
  <2> QED
    BY <2>1, <2>4
<1> QED
  BY <1>1, LinkHolds, PTL
=============================================================================
