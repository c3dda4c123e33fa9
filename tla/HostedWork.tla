----------------------------- MODULE HostedWork -----------------------------
(* The hosted worker and Ask-your-notes at work (webapp/src/lib/             *)
(* managedWorker.ts, maintenanceCursor.ts, notesChat.ts, chatQuota.ts,       *)
(* usageLedger.ts, mediaDecode.ts): which provider requests are made on      *)
(* whose behalf, what they are charged to, and what they leave behind.       *)
(*                                                                           *)
(* Composes ProviderSpend (the requests and the budgets) and Integrations    *)
(* (the announcement of the finished note).  ManagedJobs has the life of the *)
(* job row in detail; here a job is what a run needs of it: its status, the  *)
(* token of its lease, and its reservation in the usage ledger.  A run is    *)
(* one call of runManagedJob, and its name stands for both random tokens it  *)
(* draws (of the slot and of the job).                                       *)
EXTENDS ProviderSpend, Integrations, SequencesExt

CONSTANTS
  Jobs, Runs, Asks,    \* jobs, runs of jobs, questions
  Cleaners,            \* senders that run the maintenance under its lease
  Slots,               \* the most MANAGED_WORKER_CONCURRENCY is in a scene
  JobAttempts,         \* MANAGED_JOB_MAX_ATTEMPTS
  PlanSeconds,         \* longest import of the plan
  AudioLimit,          \* audio seconds of the plan
  QuestionLimit,       \* questions of the plan
  MaxInFlight,         \* MAX_IN_FLIGHT_PER_WORKSPACE
  Home,                \* job or question -> its workspace
  Scenes, None

ASSUME SlotAssumption == Slots \in Nat \ {0} /\ JobAttempts \in Nat
ASSUME PlanAssumption == {PlanSeconds, AudioLimit, QuestionLimit, MaxInFlight} \subseteq Nat
ASSUME CallersAssumption == Callers = (Runs \X {"mic", "speaker", "summary"}) \cup (Asks \X {"answer"})
ASSUME HomeAssumption == Home \in [Jobs \cup Asks -> Accounts]
ASSUME SendersAssumption == Runs \cup Cleaners \subseteq Senders /\ Jobs = Notes

VARIABLES
  conf,        \* the scene
  slots,       \* worker slots and the maintenance lease: its token, and whether it is in time
  run,         \* run -> where runManagedJob stands
  jobs,         \* job -> status, token, whether its lease is in time, attempts
  usage,       \* job -> its usage entry: units and audio seconds
  ask,         \* question -> where askNotes stands
  chat,        \* question -> units of its usage entry
  note,        \* job -> the transcript its note has
  faults,      \* failures still to come
  stray,       \* (history) caller -> requests sent after its run lost its claim
  mislaid      \* (history) questions whose unit could not be given back

workVars == <<slots, run, jobs, usage, note>>
askVars == <<ask, chat, mislaid>>
hostedVars == <<conf, workVars, askVars, faults, stray, spendVars, hookVars>>

On(op) == op \in conf.ops
Fault == faults > 0 /\ faults' = faults - 1
Free == [token |-> None, live |-> FALSE]
Tracks(r) == {<<r, t>> : t \in {"mic", "speaker"}}
RunTo(r, pc) == run' = [run EXCEPT ![r].pc = pc]
AtStep(r, pc) == run[r].pc = pc
HoldsJob(r) == jobs[run[r].job].status = "processing" /\ jobs[run[r].job].token = r
Started(r) == {c \in Tracks(r) : call[c] # Quiet}

----------------------------------------------------------------------------
(* Worker slots: withWorkerSlot *)
Begin(r, j) == [pc |-> "slot", job |-> j, slot |-> 1, speech |-> FALSE, seconds |-> 0]

JobClaimable(j) ==
  \/ jobs[j].status = "queued"
  \/ jobs[j].status = "processing" /\ ~jobs[j].live /\ jobs[j].attempts < JobAttempts

\* A poll of /jobs/next or of the standalone runtime.
PollNext(r) ==
  /\ On("job") /\ AtStep(r, "off")
  /\ \E j \in Jobs : JobClaimable(j) /\ run' = [run EXCEPT ![r] = Begin(r, j)]
  /\ UNCHANGED <<conf, slots, jobs, usage, note, askVars, faults, stray, spendVars, hookVars>>

\* A call of /jobs/[jobId]/run, which names the job itself.
RunRoute(r) ==
  /\ On("route") /\ AtStep(r, "off")
  /\ \E j \in Jobs : run' = [run EXCEPT ![r] = Begin(r, j)]
  /\ UNCHANGED <<conf, slots, jobs, usage, note, askVars, faults, stray, spendVars, hookVars>>

freeSlot(i) == slots[i].token = None \/ ~slots[i].live

\* One upsert and one conditional update per slot, in order.
withWorkerSlot(r) ==
  LET i == run[r].slot IN
  /\ AtStep(r, "slot")
  /\ IF freeSlot(i)
     THEN slots' = [slots EXCEPT ![i] = [token |-> r, live |-> TRUE]] /\ RunTo(r, "claim")
     ELSE /\ IF i < conf.slots THEN run' = [run EXCEPT ![r].slot = i + 1] ELSE RunTo(r, "done")
          /\ UNCHANGED slots
  /\ UNCHANGED <<conf, jobs, usage, note, askVars, faults, stray, spendVars, hookVars>>

leaveSlot(r) ==
  /\ AtStep(r, "leave")
  /\ slots' = IF slots[run[r].slot].token = r THEN [slots EXCEPT ![run[r].slot] = Free] ELSE slots
  /\ RunTo(r, "done")
  /\ UNCHANGED <<conf, jobs, usage, note, askVars, faults, stray, spendVars, hookVars>>

assertLease(r) == slots[run[r].slot].token = r /\ slots[run[r].slot].live

\* The two heartbeats of a run that is alive.
slotHeartbeat(r) ==
  /\ ~(AtStep(r, "off") \/ AtStep(r, "slot") \/ AtStep(r, "done"))
  /\ slots[run[r].slot].token = r /\ ~slots[run[r].slot].live
  /\ slots' = [slots EXCEPT ![run[r].slot].live = TRUE]
  /\ UNCHANGED <<conf, run, jobs, usage, note, askVars, faults, stray, spendVars, hookVars>>

jobHeartbeat(r) ==
  /\ run[r].pc \in {"decode", "adjust", "work", "summary", "finalize"}
  /\ HoldsJob(r) /\ ~jobs[run[r].job].live
  /\ jobs' = [jobs EXCEPT ![run[r].job].live = TRUE]
  /\ UNCHANGED <<conf, slots, run, usage, note, askVars, faults, stray, spendVars, hookVars>>

----------------------------------------------------------------------------
(* executeManagedJob *)
Ask(C, n) == [c \in Callers |-> IF c \in C THEN Request(n) ELSE call[c]]

claimJob(r) ==
  LET j == run[r].job IN
  /\ AtStep(r, "claim")
  /\ IF JobClaimable(j)
     THEN /\ jobs' = [jobs EXCEPT ![j] = [status |-> "processing", token |-> r, live |-> TRUE,
                                        attempts |-> @.attempts + 1]]
          /\ IF j \in conf.imports
             THEN RunTo(r, "decode") /\ UNCHANGED call
             ELSE RunTo(r, "work") /\ call' = Ask({<<r, t>> : t \in conf.tracks}, conf.windows)
     ELSE RunTo(r, "leave") /\ UNCHANGED <<jobs, call>>
  /\ UNCHANGED <<conf, slots, usage, note, askVars, faults, stray, day, spend, attempts, hookVars>>

\* decodeToPcm: a file that claims to be too long is refused, and what it really
\* holds is decoded to one second past the longest allowed, so that a longer
\* one is refused too and not cut.
decodeToPcm(claimed, seconds) ==
  LET decoded == Min({seconds, PlanSeconds + 1}) IN
  IF claimed > PlanSeconds \/ decoded = 0 \/ decoded > PlanSeconds THEN None ELSE decoded

\* transcribeImport up to the decoded file; the tools, the plan or the file can
\* be refused.
transcribeImport(r) ==
  /\ AtStep(r, "decode")
  /\ \/ \E claimed \in {0, PlanSeconds + 1}, seconds \in 0..(PlanSeconds + 2) :
          LET got == decodeToPcm(claimed, seconds) IN
          run' = IF got = None THEN [run EXCEPT ![r].pc = "fail"]
                 ELSE [run EXCEPT ![r].pc = "adjust", ![r].seconds = got]
     \/ RunTo(r, "fail")
  /\ UNCHANGED <<conf, slots, jobs, usage, note, askVars, faults, stray, spendVars, hookVars>>

Together(j) == {k \in Jobs : Home[k] = Home[j]}
LiveSeconds(J) == MapThenSumSet(LAMBDA j : IF usage[j].units > 0 THEN usage[j].seconds ELSE 0, J)

fitsPlan(j, seconds) == LiveSeconds(Together(j) \ {j}) + seconds <= AudioLimit

\* adjustReservedAudioSeconds: one serializable transaction, before any request.
adjustReservedAudioSeconds(r) ==
  LET j == run[r].job
      seconds == run[r].seconds
      fits == usage[j].units > 0 /\ (seconds > usage[j].seconds => fitsPlan(j, seconds))
  IN /\ AtStep(r, "adjust")
     /\ IF fits
        THEN /\ usage' = [usage EXCEPT ![j].seconds = seconds]
             /\ call' = Ask({<<r, "speaker">>}, conf.windows)
             /\ RunTo(r, "work")
        ELSE RunTo(r, "fail") /\ UNCHANGED <<usage, call>>
     /\ UNCHANGED <<conf, slots, jobs, note, askVars, faults, stray, day, spend, attempts, hookVars>>

trackFailed(r) == \E c \in Tracks(r) : CallAt(c, "failed")

\* Mutant: a request is made as soon as the slot is held, whoever has the job.
HeldSlotOnly(r) == assertLease(r) /\ ~trackFailed(r)

\* The guards of a run: its slot, its job, and the other track.
guardsHold(r) == assertLease(r) /\ HoldsJob(r) /\ ~trackFailed(r)

\* The request is made for a run that has its slot, its job and, for a file,
\* the seconds it measured.
Entitled(r) ==
  /\ slots[run[r].slot].token = r /\ HoldsJob(r)
  /\ run[r].job \in conf.imports =>
       usage[run[r].job].units > 0 /\ usage[run[r].job].seconds >= run[r].seconds

JobRequest(c) ==
  LET r == c[1] IN
  /\ r \in Runs
  /\ \/ passGuards(c, guardsHold(r)) /\ UNCHANGED <<stray, faults>>
     \/ reserveProviderAttempt(c, Home[run[r].job]) /\ UNCHANGED <<stray, faults>>
     \/ /\ fetch(c) /\ UNCHANGED faults
        /\ stray' = IF Entitled(r) THEN stray ELSE [stray EXCEPT ![c] = @ + 1]
     \/ settleProviderAttempt(c) /\ UNCHANGED <<stray, faults>>
     \/ settleFails(c) /\ Fault /\ UNCHANGED stray
  /\ UNCHANGED <<conf, workVars, askVars, hookVars>>

\* Both tracks have settled: any failure fails the job, and only a recording
\* with speech is summarised.
tracksSettled(r) ==
  /\ AtStep(r, "work")
  /\ \A c \in Started(r) : call[c].at \in {"ok", "failed"}
  /\ IF trackFailed(r)
     THEN RunTo(r, "fail") /\ UNCHANGED call
     ELSE \E speech \in BOOLEAN :
            /\ run' = [run EXCEPT ![r].pc = IF speech THEN "summary" ELSE "finalize", ![r].speech = speech]
            /\ call' = IF speech THEN Ask({<<r, "summary">>}, 1) ELSE call
  /\ UNCHANGED <<conf, slots, jobs, usage, note, askVars, faults, stray, day, spend, attempts, hookVars>>

\* The answer may be incomplete or hold nothing usable.
summarize(r) ==
  /\ AtStep(r, "summary") /\ call[<<r, "summary">>].at \in {"ok", "failed"}
  /\ \E usable \in BOOLEAN :
       RunTo(r, IF CallAt(<<r, "summary">>, "ok") /\ usable THEN "finalize" ELSE "fail")
  /\ UNCHANGED <<conf, slots, jobs, usage, note, askVars, faults, stray, spendVars, hookVars>>

\* One utterance per window; windows of a track follow one another in time.
utterances(c) == [k \in 1..conf.windows |-> [start |-> k, you |-> c[2] = "mic"]]
before(a, b) == a.start < b.start \/ (a.start = b.start /\ a.you /\ ~b.you)

mergeUtterances(C) == SetToSortSeq(UNION {Range(utterances(c)) : c \in C}, before)

\* The result is written, in one transaction, only by the holder of the lease.
finalizeJob(r) ==
  LET j == run[r].job IN
  /\ AtStep(r, "finalize")
  /\ IF HoldsJob(r)
     THEN /\ jobs' = [jobs EXCEPT ![j].status = "complete"]
          /\ note' = [note EXCEPT ![j] = [by |-> r, lines |-> mergeUtterances(Started(r))]]
          /\ RunTo(r, IF run[r].speech THEN "announce" ELSE "giveback")
     ELSE RunTo(r, "leave") /\ UNCHANGED <<jobs, note>>
  /\ UNCHANGED <<conf, slots, usage, askVars, faults, stray, spendVars, hookVars>>

announceNote(r) ==
  \/ /\ AtStep(r, "announce")
     /\ notifyNoteReady(r, run[r].job) /\ RunTo(r, "announcing")
     /\ UNCHANGED <<conf, slots, jobs, usage, note, askVars, faults, stray, spendVars>>
  \/ /\ AtStep(r, "announcing") /\ sender[r].pc \notin {"claim-note", "create"}
     /\ RunTo(r, "leave")
     /\ UNCHANGED <<conf, slots, jobs, usage, note, askVars, faults, stray, spendVars, hookVars>>

failJob(r) ==
  /\ AtStep(r, "fail")
  /\ IF HoldsJob(r)
     THEN jobs' = [jobs EXCEPT ![run[r].job].status = "error"] /\ RunTo(r, "giveback")
     ELSE RunTo(r, "leave") /\ UNCHANGED jobs
  /\ UNCHANGED <<conf, slots, usage, note, askVars, faults, stray, spendVars, hookVars>>

releaseMeetingProcessing(r) ==
  /\ AtStep(r, "giveback")
  /\ usage' = [usage EXCEPT ![run[r].job].units = 0]
  /\ RunTo(r, "leave")
  /\ UNCHANGED <<conf, slots, jobs, note, askVars, faults, stray, spendVars, hookVars>>

----------------------------------------------------------------------------
(* Ask-your-notes *)
Asking(w) == {q \in Asks : Home[q] = w /\ ask[q] \in {"reserve", "call", "release"}}
Answering(q) == <<q, "answer">>

\* askNotes: the questions in flight of a workspace are capped per instance.
askNotes(q) ==
  /\ On("ask") /\ ask[q] = "new"
  /\ ask' = [ask EXCEPT ![q] = IF Cardinality(Asking(Home[q])) >= MaxInFlight THEN "busy" ELSE "reserve"]
  /\ UNCHANGED <<conf, workVars, chat, mislaid, faults, stray, spendVars, hookVars>>

Questions(w) == MapThenSumSet(LAMBDA q : chat[q], {q \in Asks : Home[q] = w})

\* reserveChatQuestion: one serializable transaction.
reserveChatQuestion(q) ==
  /\ ask[q] = "reserve"
  /\ IF Questions(Home[q]) >= QuestionLimit
     THEN ask' = [ask EXCEPT ![q] = "limit"] /\ UNCHANGED <<chat, call>>
     ELSE /\ chat' = [chat EXCEPT ![q] = 1]
          /\ ask' = [ask EXCEPT ![q] = "call"]
          /\ call' = Ask({Answering(q)}, 1)
  /\ UNCHANGED <<conf, workVars, mislaid, faults, stray, day, spend, attempts, hookVars>>

askProvider(q) ==
  LET c == Answering(q) IN
  /\ \/ passGuards(c, TRUE) /\ UNCHANGED faults
     \/ reserveProviderAttempt(c, Home[q]) /\ UNCHANGED faults
     \/ fetch(c) /\ UNCHANGED faults
     \/ settleProviderAttempt(c) /\ UNCHANGED faults
     \/ settleFails(c) /\ Fault
  /\ UNCHANGED <<conf, workVars, askVars, stray, hookVars>>

\* answer: an empty reply is a failure too, and every failure gives the
\* question back.
answerQuestion(q) ==
  /\ ask[q] = "call" /\ call[Answering(q)].at \in {"ok", "failed"}
  /\ \E text \in BOOLEAN :
       ask' = [ask EXCEPT ![q] = IF CallAt(Answering(q), "ok") /\ text THEN "answered" ELSE "release"]
  /\ UNCHANGED <<conf, workVars, chat, mislaid, faults, stray, spendVars, hookVars>>

releasedUnits(q) == [chat EXCEPT ![q] = 0]

releaseChatQuestion(q) ==
  /\ ask[q] = "release"
  /\ ask' = [ask EXCEPT ![q] = "failed"]
  /\ \/ chat' = releasedUnits(q) /\ UNCHANGED <<mislaid, faults>>
     \/ Fault /\ mislaid' = mislaid \cup {q} /\ UNCHANGED chat
  /\ UNCHANGED <<conf, workVars, stray, spendVars, hookVars>>

----------------------------------------------------------------------------
(* Failures and time *)
Unheld(t) == t = None \/ (t \in Runs /\ AtStep(t, "done")) \/ (t \in Cleaners /\ Doing(t, "idle"))

SlotLapses(i) ==
  /\ slots[i].live
  /\ IF Unheld(slots[i].token) THEN UNCHANGED faults ELSE Fault
  /\ slots' = [slots EXCEPT ![i].live = FALSE]
  /\ UNCHANGED <<conf, run, jobs, usage, note, askVars, stray, spendVars, hookVars>>

JobLapses(j) ==
  /\ jobs[j].status = "processing" /\ jobs[j].live
  /\ IF Unheld(jobs[j].token) THEN UNCHANGED faults ELSE Fault
  /\ jobs' = [jobs EXCEPT ![j].live = FALSE]
  /\ UNCHANGED <<conf, slots, run, usage, note, askVars, stray, spendVars, hookVars>>

\* The worker process ends with the run.
RunDies(r) ==
  /\ Fault /\ ~AtStep(r, "off") /\ ~AtStep(r, "done")
  /\ RunTo(r, "done")
  /\ call' = [c \in Callers |-> IF c[1] = r THEN Quiet ELSE call[c]]
  /\ UNCHANGED <<conf, slots, jobs, usage, note, askVars, stray, day, spend, attempts>>
  /\ IF Doing(r, "idle") THEN UNCHANGED hookVars ELSE SenderDies(r)

\* The web instance ends with the question.
AskDies(q) ==
  /\ Fault /\ q \in Asking(Home[q])
  /\ ask' = [ask EXCEPT ![q] = "dead"]
  /\ call' = [call EXCEPT ![Answering(q)] = Quiet]
  /\ UNCHANGED <<conf, workVars, chat, mislaid, stray, day, spend, attempts, hookVars>>

DayEnds ==
  /\ On("midnight") /\ Midnight
  /\ UNCHANGED <<conf, workVars, askVars, faults, stray, hookVars>>

----------------------------------------------------------------------------
(* Deliveries *)
Others == <<conf, workVars, askVars, stray, spendVars>>

\* withMaintenanceLease(runManagedMaintenance): one cleaner at a time.
withMaintenanceLease(s) ==
  /\ On("hooks") /\ s \in Cleaners /\ freeSlot(0)
  /\ slots' = [slots EXCEPT ![0] = [token |-> s, live |-> TRUE]]
  /\ runIntegrationMaintenance(s)
  /\ UNCHANGED <<conf, run, jobs, usage, note, askVars, faults, stray, spendVars>>

leaveMaintenance(s) ==
  /\ s \in Cleaners /\ slots[0].token = s /\ Doing(s, "idle")
  /\ slots' = [slots EXCEPT ![0] = Free]
  /\ UNCHANGED <<conf, run, jobs, usage, note, askVars, faults, stray, spendVars, hookVars>>

\* Page loads run the deliveries too, and a saved note announces itself.
PageLoad(s) == On("pages") /\ s \notin Runs \cup Cleaners /\ runIntegrationMaintenance(s) /\ UNCHANGED <<Others, faults>>

saveMeeting(s, n) ==
  /\ On("save") /\ s \notin Runs \cup Cleaners /\ n \in conf.notes
  /\ notifyNoteReady(s, n) /\ UNCHANGED <<Others, faults>>

SenderStep(s) ==
  /\ \/ claimNote(s) \/ createDeliveries(s) \/ readDue(s) \/ claimDelivery(s)
     \/ lookUp(s) \/ defaultSender(s) \/ writeResult(s)
  /\ UNCHANGED <<Others, faults>>

OwnerStep ==
  /\ On("owner") /\ Fault
  /\ \/ \E i \in conf.hooks : createIntegration(i) \/ setIntegrationEnabled(i) \/ deleteIntegration(i) \/ openConfigFails(i)
     \/ \E n \in conf.notes : MoveNoteToTrash(n)
     \/ \E d \in Deliveries : purgeDeliveries(d)
  /\ UNCHANGED Others

DeliveryTime(d) ==
  /\ AttemptTimeComes(d)
  /\ IF Holding(d) = {} THEN UNCHANGED faults ELSE Fault
  /\ UNCHANGED Others

ServerStops(s) == Fault /\ s \notin Runs /\ SenderDies(s) /\ UNCHANGED Others

----------------------------------------------------------------------------
HostedInit ==
  /\ conf \in Scenes
  /\ slots = [i \in 0..Slots |-> Free]
  /\ run = [r \in Runs |-> [pc |-> "off", job |-> None, slot |-> 0, speech |-> FALSE, seconds |-> 0]]
  /\ jobs = [j \in Jobs |-> [status |-> IF j \in conf.jobs THEN "queued" ELSE "none",
                            token |-> None, live |-> FALSE, attempts |-> 0]]
  /\ usage = [j \in Jobs |-> [units |-> IF j \in conf.jobs THEN 1 ELSE 0, seconds |-> IF j \in conf.jobs THEN 1 ELSE 0]]
  /\ ask = [q \in Asks |-> IF q \in conf.asks THEN "new" ELSE "none"]
  /\ chat = [q \in Asks |-> 0]
  /\ note = [j \in Jobs |-> None]
  /\ faults = conf.faults
  /\ stray = [c \in Callers |-> 0]
  /\ mislaid = {}
  /\ SpendInit /\ HooksInit
  /\ \A i \in Hooks : hook[i] = "on" <=> i \in conf.hooks

RunStep(r) ==
  \/ PollNext(r) \/ RunRoute(r) \/ withWorkerSlot(r) \/ claimJob(r) \/ transcribeImport(r)
  \/ adjustReservedAudioSeconds(r) \/ tracksSettled(r) \/ summarize(r) \/ finalizeJob(r)
  \/ announceNote(r) \/ failJob(r) \/ releaseMeetingProcessing(r) \/ leaveSlot(r)
  \/ slotHeartbeat(r) \/ jobHeartbeat(r) \/ RunDies(r)

AskStep(q) ==
  \/ askNotes(q) \/ reserveChatQuestion(q) \/ askProvider(q) \/ answerQuestion(q)
  \/ releaseChatQuestion(q) \/ AskDies(q)

HostedNext ==
  \/ \E r \in Runs : RunStep(r)
  \/ \E c \in Callers : JobRequest(c)
  \/ \E q \in Asks : AskStep(q)
  \/ \E i \in 0..Slots : SlotLapses(i)
  \/ \E j \in Jobs : JobLapses(j)
  \/ DayEnds
  \/ \E s \in Senders : \/ withMaintenanceLease(s) \/ leaveMaintenance(s) \/ PageLoad(s)
                        \/ SenderStep(s) \/ ServerStops(s)
                        \/ \E n \in Notes : saveMeeting(s, n)
  \/ OwnerStep
  \/ \E d \in Deliveries : DeliveryTime(d)

HostedSpec == HostedInit /\ [][HostedNext]_hostedVars

----------------------------------------------------------------------------
HostedTypeOK ==
  /\ SpendTypeOK
  /\ \A r \in Runs : run[r].job \in Jobs \cup {None} /\ run[r].slot \in 0..Slots
  /\ \A i \in 0..Slots : slots[i].token \in Runs \cup Cleaners \cup {None}
  /\ \A j \in Jobs : jobs[j].status \in {"none", "queued", "processing", "complete", "error"}

\* Work that lost its claim stops: once another run has a run's slot or its
\* job, or the seconds of its file are no longer reserved, each of its tracks
\* sends at most the one request whose guards it had already passed; the live
\* reservations of all files stay within the plan's seconds; and the note that
\* was stored has every window of both tracks, in the order they were spoken.
LostWorkStops ==
  /\ \A c \in Callers : stray[c] <= 1
  /\ \A j \in Jobs : LiveSeconds(Together(j)) <= AudioLimit
  /\ \A j \in Jobs : note[j] # None =>
       LET lines == note[j].lines
           tracks == IF j \in conf.imports THEN {FALSE} ELSE {t = "mic" : t \in conf.tracks}
       IN /\ Range(lines) = {[start |-> k, you |-> y] : k \in 1..conf.windows, y \in tracks}
          /\ \A k \in 1..Len(lines) - 1 : before(lines[k], lines[k + 1])

\* A question costs a unit exactly when it is answered: the plan's number is
\* never passed by questions asked together, no request is made without a
\* unit, an answer keeps its unit whatever other questions give back, and a
\* failed question has its unit back unless the statement itself failed.
QuestionsCounted ==
  /\ \A w \in Accounts : Questions(w) <= QuestionLimit
  /\ \A q \in Asks :
       /\ ask[q] \in {"call", "answered"} => chat[q] = 1
       /\ ask[q] = "failed" => chat[q] = IF q \in mislaid THEN 1 ELSE 0

\* HostedTypeOK; what ProviderSpend promises of the budgets, with runs and questions
\* of several days, retries and crashes spending from them; and the questions
\* of a plan (QuestionsCounted).
BudgetsHold == HostedTypeOK /\ SpendCovers /\ QuestionsCounted
=============================================================================
