--------------------------- MODULE RetryQueueProofs ---------------------------
(****************************************************************************)
(* Proofs about RetryQueue, for every set of jobs, every attempt limit and  *)
(* every number of faults.                                                  *)
(****************************************************************************)
EXTENDS RetryQueue, SequenceTheorems, TLAPS

\* Fresh entries are entries: what enqueue and requeue_dead push.
LEMMA FreshType ==
  ASSUME NEW wait \in {"due", "held"}
  PROVE  Fresh(wait) \in Entry
BY MaxAttemptsAssumption DEF Fresh, Entry

\* An empty queue, an empty dead file and the calls in progress have their types.
LEMMA EmptyTypes ==
  /\ <<>> \in Seq(Entry)
  /\ NoJobs \in [Jobs -> Seq(Entry)]
  /\ NoDead \in [Jobs -> Nat]
  /\ Idle \in Calls /\ Unlinking \in Calls
  /\ \A j \in Jobs : Retaining(j) \in Calls
<1>1. <<>> \in Seq(Entry)
  BY EmptySeq
<1>. QED
  BY <1>1 DEF NoJobs, NoDead, Idle, Unlinking, Retaining, Calls

\* A step of bury leaves a dead file of the right type.
LEMMA BuryType ==
  ASSUME NEW j \in Jobs, TypeOK, Bury(j) \/ BuryFails
  PROVE  dead' \in [Jobs -> Nat] /\ faults' \in 0..MaxFaults /\ seen' \subseteq FaultKinds
<1>1. dead' \in [Jobs -> Nat]
  <2>1. CASE dead' = [dead EXCEPT ![j] = @ + 1]
    BY <2>1 DEF TypeOK
  <2>2. CASE dead' = [NoDead EXCEPT ![j] = 1]
    BY <2>2, EmptyTypes
  <2>3. CASE dead' = dead
    BY <2>3 DEF TypeOK
  <2>. QED
    BY <2>1, <2>2, <2>3 DEF Bury, BuryFails
<1>2. faults' \in 0..MaxFaults /\ seen' \subseteq FaultKinds
  BY MaxFaultsAssumption, FaultsAssumption DEF TypeOK, Bury, BuryFails, NoFault, Fault
<1>. QED
  BY <1>1, <1>2

\* A step of persist leaves a queue file of the right type.
LEMMA PersistType ==
  ASSUME TypeOK, mem' \in [Jobs -> Seq(Entry)], Persist
  PROVE  file' \in [Jobs -> Seq(Entry)] /\ faults' \in 0..MaxFaults /\ seen' \subseteq FaultKinds
BY MaxFaultsAssumption, FaultsAssumption DEF TypeOK, Persist, PersistOk, PersistFails, NoFault, Fault

\* A failed attempt (record_failure_after) keeps the job in the queue.
LEMMA FailedProperties ==
  ASSUME NEW j \in Jobs, mem \in [Jobs -> Seq(Entry)], mem[j] # <<>>,
         NEW wait \in {"due", "held"}
  PROVE  /\ Failed(j, wait) \in [Jobs -> Seq(Entry)]
         /\ \A i \in Jobs : Failed(j, wait)[i] # <<>> <=> mem[i] # <<>>
<1> DEFINE old == mem[j][1]
           new == [attempts |-> IF old.attempts < MaxAttempts
                                  THEN old.attempts + 1 ELSE MaxAttempts,
                   wait |-> wait]
           s == [mem[j] EXCEPT ![1] = new]
<1>1. mem[j] \in Seq(Entry) /\ Len(mem[j]) \in Nat /\ 1 \in 1..Len(mem[j])
  BY EmptySeq, LenProperties
<1>2. old \in Entry
  BY <1>1, ElementOfSeq
<1>3. new \in Entry
  BY <1>2, MaxAttemptsAssumption DEF Entry
<1>4. s \in Seq(Entry) /\ Len(s) = Len(mem[j])
  BY <1>1, <1>3, ExceptSeq
<1>5. Failed(j, wait) = [mem EXCEPT ![j] = s]
  BY DEF Failed
<1>6. s # <<>>
  BY <1>1, <1>4
<1>. QED
  BY <1>4, <1>5, <1>6

\* The type invariant of the queue.
THEOREM TypeCorrect == Spec => []TypeOK
<1>1. Init => TypeOK
  BY MaxFaultsAssumption, FaultsAssumption, EmptyTypes DEF Init, TypeOK
<1>2. TypeOK /\ [Next]_vars => TypeOK'
  <2> SUFFICES ASSUME TypeOK, [Next]_vars PROVE TypeOK'
    OBVIOUS
  <2> USE MaxFaultsAssumption, FaultsAssumption
  <2>1. CASE LoadOrCreate
    <3>1. mem' \in [Jobs -> Seq(Entry)] /\ file' \in [Jobs -> Seq(Entry)]
      <4>1. CASE mem' = file \/ mem' = NoJobs
        BY EmptyTypes, <2>1, <4>1 DEF LoadOrCreate, TypeOK
      <4>2. ASSUME NEW j \in Jobs, mem' = [file EXCEPT ![j] = <<>>]
            PROVE  mem' \in [Jobs -> Seq(Entry)]
        BY EmptyTypes, <4>2 DEF TypeOK
      <4>. QED
        BY EmptyTypes, <2>1, <4>1, <4>2 DEF LoadOrCreate, TypeOK
    <3>2. faults' \in 0..MaxFaults /\ seen' \subseteq FaultKinds
      BY <2>1 DEF LoadOrCreate, NoFault, Fault, TypeOK
    <3>. QED
      BY <2>1, <3>1, <3>2 DEF LoadOrCreate, TypeOK, history
  <2>2. CASE Crash
    BY EmptyTypes, <2>2 DEF Crash, Fault, TypeOK, history
  <2>14. CASE Quit
    BY EmptyTypes, <2>14 DEF Quit, TypeOK, history
  <2>15. CASE OtherWriteFails
    BY <2>15 DEF OtherWriteFails, Fault, TypeOK, queueVars, history
  <2>3. CASE RequeueDead
    <3>1. \A j \in Jobs : mem[j] \o Revived(dead[j]) \in Seq(Entry)
      <4> SUFFICES ASSUME NEW j \in Jobs
                   PROVE  mem[j] \o Revived(dead[j]) \in Seq(Entry)
        OBVIOUS
      <4>1. Revived(dead[j]) \in Seq(Entry)
        <5>1. dead[j] \in Nat
          BY DEF TypeOK
        <5>2. \A i \in 1..dead[j] : Fresh("due") \in Entry
          BY FreshType
        <5>. QED
          BY <5>1, <5>2, IsASeq DEF Revived
      <4>2. mem[j] \in Seq(Entry)
        BY DEF TypeOK
      <4>. QED
        BY <4>1, <4>2, ConcatProperties
    <3>2. mem' \in [Jobs -> Seq(Entry)] /\ file' \in [Jobs -> Seq(Entry)]
      BY <2>3, <3>1 DEF RequeueDead, PersistOk, PersistFails, TypeOK
    <3>3. faults' \in 0..MaxFaults /\ seen' \subseteq FaultKinds
      BY <2>3 DEF RequeueDead, PersistOk, PersistFails, NoFault, Fault, TypeOK
    <3>4. call' \in Calls
      BY EmptyTypes, <2>3 DEF RequeueDead, TypeOK
    <3>. QED
      BY <2>3, <3>2, <3>3, <3>4 DEF RequeueDead, TypeOK, history
  <2>4. CASE UnlinkDead
    BY EmptyTypes, <2>4 DEF UnlinkDead, NoFault, Fault, TypeOK, history
  <2>5. CASE DeferUntil
    <3>1. ASSUME NEW j \in Jobs
          PROVE  [i \in DOMAIN mem[j] |-> [mem[j][i] EXCEPT !.wait = "held"]]
                   \in Seq(Entry)
      <4>1. mem[j] \in Seq(Entry)
        BY DEF TypeOK
      <4>2. DOMAIN mem[j] = 1..Len(mem[j]) /\ Len(mem[j]) \in Nat
        BY <4>1, LenProperties
      <4>3. \A i \in 1..Len(mem[j]) : mem[j][i] \in Entry
        BY <4>1, ElementOfSeq
      <4>4. \A e \in Entry : [e EXCEPT !.wait = "held"] \in Entry
        BY DEF Entry
      <4>. QED
        BY <4>2, <4>3, <4>4, IsASeq
    <3>2. mem' \in [Jobs -> Seq(Entry)]
      BY <2>5, <3>1 DEF DeferUntil
    <3>. QED
      BY <2>5, <3>2 DEF DeferUntil, Persist, PersistOk, PersistFails, NoFault,
                        Fault, TypeOK, history
  <2>6. ASSUME NEW j \in Jobs, NEW wait \in {"due", "held"}, Enqueue(j, wait)
        PROVE  TypeOK'
    <3>1. mem' \in [Jobs -> Seq(Entry)]
      BY <2>6, FreshType, AppendProperties DEF Enqueue, TypeOK
    <3>2. file' \in [Jobs -> Seq(Entry)] /\ faults' \in 0..MaxFaults /\ seen' \subseteq FaultKinds
      BY <2>6, <3>1, PersistType DEF Enqueue, Persist
    <3>3. issued' \subseteq Jobs /\ acked' \subseteq issued' /\ finished' \subseteq issued'
      BY <2>6 DEF Enqueue, TypeOK
    <3>. QED
      BY <2>6, <3>1, <3>2, <3>3 DEF Enqueue, TypeOK
  <2>7. ASSUME NEW j \in Jobs, RecordFailure(j)
        PROVE  TypeOK'
    <3>1. mem' \in [Jobs -> Seq(Entry)]
      BY <2>7, FailedProperties DEF RecordFailure, TypeOK
    <3>. QED
      BY <2>7, <3>1 DEF RecordFailure, Persist, PersistOk, PersistFails,
                        NoFault, Fault, TypeOK, history
  <2>8. ASSUME NEW j \in Jobs, Exhaust(j)
        PROVE  TypeOK'
    <3>1. mem[j][1].wait \in {"due", "held"}
      <4>1. mem[j] \in Seq(Entry) /\ mem[j] # <<>>
        BY <2>8 DEF Exhaust, TypeOK
      <4>2. mem[j][1] \in Entry
        BY <4>1, ElementOfSeq, EmptySeq, LenProperties
      <4>. QED
        BY <4>2 DEF Entry
    <3>2. mem' \in [Jobs -> Seq(Entry)]
      BY <2>8, <3>1, FailedProperties DEF Exhaust, TypeOK
    <3>3. dead' \in [Jobs -> Nat] /\ faults' \in 0..MaxFaults /\ seen' \subseteq FaultKinds
      BY <2>8, BuryType DEF Exhaust
    <3>4. call' \in Calls
      BY <2>8, EmptyTypes DEF Exhaust, Removing, TypeOK
    <3>. QED
      BY <2>8, <3>2, <3>3, <3>4 DEF Exhaust, TypeOK, history
  <2>9. ASSUME NEW j \in Jobs, GiveUp(j)
        PROVE  TypeOK'
    <3>1. dead' \in [Jobs -> Nat] /\ faults' \in 0..MaxFaults /\ seen' \subseteq FaultKinds
      BY <2>9, BuryType DEF GiveUp
    <3>2. call' \in Calls
      BY <2>9, EmptyTypes DEF GiveUp, Removing, TypeOK
    <3>. QED
      BY <2>9, <3>1, <3>2 DEF GiveUp, TypeOK, history
  <2>10. ASSUME NEW j \in Jobs, RetainAndPersist(j)
         PROVE  TypeOK'
    <3>1. mem' \in [Jobs -> Seq(Entry)]
      BY <2>10, EmptyTypes DEF RetainAndPersist, TypeOK
    <3>2. file' \in [Jobs -> Seq(Entry)] /\ faults' \in 0..MaxFaults /\ seen' \subseteq FaultKinds
      BY <2>10, <3>1, PersistType DEF RetainAndPersist
    <3>. QED
      BY <2>10, <3>1, <3>2, EmptyTypes DEF RetainAndPersist, TypeOK, history
  <2>11. ASSUME NEW j \in Jobs, RecordSuccess(j)
         PROVE  TypeOK'
    <3>1. mem' \in [Jobs -> Seq(Entry)]
      BY <2>11, EmptyTypes DEF RecordSuccess, TypeOK
    <3>2. file' \in [Jobs -> Seq(Entry)] /\ faults' \in 0..MaxFaults /\ seen' \subseteq FaultKinds
      BY <2>11, <3>1, PersistType DEF RecordSuccess
    <3>. QED
      BY <2>11, <3>1, <3>2 DEF RecordSuccess, TypeOK
  <2>12. ASSUME NEW j \in Jobs, ComesDue(j)
         PROVE  TypeOK'
    <3> DEFINE due(s) == [i \in DOMAIN s |-> [s[i] EXCEPT !.wait = "due"]]
    <3>1. ASSUME NEW s \in Seq(Entry)
          PROVE  due(s) \in Seq(Entry)
      <4>1. DOMAIN s = 1..Len(s) /\ Len(s) \in Nat
        BY LenProperties
      <4>2. \A i \in 1..Len(s) : s[i] \in Entry
        BY ElementOfSeq
      <4>3. \A e \in Entry : [e EXCEPT !.wait = "due"] \in Entry
        BY DEF Entry
      <4>. QED
        BY <4>1, <4>2, <4>3, IsASeq
    <3>2. due(mem[j]) \in Seq(Entry) /\ due(file[j]) \in Seq(Entry)
      BY <3>1 DEF TypeOK
    <3>. QED
      BY <2>12, <3>2 DEF ComesDue, TypeOK, history
  <2>13. CASE UNCHANGED vars
    BY <2>13 DEF vars, TypeOK
  <2>. QED
    BY <2>1, <2>2, <2>3, <2>4, <2>5, <2>6, <2>7, <2>8, <2>9, <2>10, <2>11, <2>12,
       <2>13, <2>14, <2>15 DEF Next
<1>. QED
  BY <1>1, <1>2, PTL DEF Spec

-----------------------------------------------------------------------------
(****************************************************************************)
(* Durability, until a file turns out unreadable: bury and requeue_dead take *)
(* a dead file they cannot read for an empty one, and load_or_create starts *)
(* empty on a queue file it cannot parse.                                   *)
(****************************************************************************)

\* A kind of fault that has happened is never forgotten.
LEMMA SeenGrows ==
  ASSUME [Next]_vars
  PROVE  seen \subseteq seen'
BY DEF Next, vars, LoadOrCreate, OtherWriteFails, Crash, Quit, RequeueDead, UnlinkDead,
       DeferUntil, Enqueue, RecordFailure, Exhaust, GiveUp, RetainAndPersist,
       RecordSuccess, ComesDue, Bury, BuryFails, Persist, PersistOk, PersistFails,
       NoFault, Fault

\* Every step of the queue preserves the strengthened durability invariant.
LEMMA SafekeepingStep ==
  ASSUME TypeOK, TypeOK', Safekeeping, [Next]_vars
  PROVE  Safekeeping'
<1> SUFFICES ASSUME Undamaged' PROVE Safekeeping'
  BY DEF Safekeeping
<1>a. Undamaged
  BY SeenGrows DEF Undamaged
<1> USE <1>a DEF Safekeeping, OnDisk
<1>0. \A j \in Jobs : dead[j] \in Nat
  BY DEF TypeOK
<1>1. CASE LoadOrCreate
  BY <1>1 DEF LoadOrCreate, Fault, Undamaged, Damage, history, TypeOK
<1>2. CASE Crash
  BY <1>2 DEF Crash, history, Idle
<1>16. CASE Quit
  BY <1>16 DEF Quit, Ready, history, Idle
<1>17. CASE OtherWriteFails
  BY <1>17 DEF OtherWriteFails, queueVars, history
<1>3. CASE RequeueDead
  <2>1. /\ mem' = [j \in Jobs |-> mem[j] \o Revived(dead[j])]
        /\ UNCHANGED <<proc, dead, history>>
        /\ \/ file' = mem' /\ call' = Unlinking
           \/ file' = file /\ call' = call
        /\ call = Idle
    BY <1>3 DEF RequeueDead, Fault, Undamaged, Damage, PersistOk, PersistFails, Ready
  <2>2. ASSUME NEW j \in Jobs
        PROVE  mem'[j] # <<>> <=> (mem[j] # <<>> \/ dead[j] > 0)
    <3>1. mem[j] \in Seq(Entry) /\ Revived(dead[j]) \in Seq({Fresh("due")})
      BY <1>0, IsASeq DEF TypeOK, Revived
    <3>2. Len(Revived(dead[j])) = dead[j]
      BY <1>0, <3>1, LenProperties DEF Revived
    <3>3. Len(mem'[j]) = Len(mem[j]) + dead[j]
      <4>1. mem'[j] = mem[j] \o Revived(dead[j])
        BY <2>1
      <4>2. Revived(dead[j]) \in Seq(Entry)
        BY <1>0, FreshType, IsASeq DEF Revived
      <4>3. Len(mem[j] \o Revived(dead[j])) = Len(mem[j]) + Len(Revived(dead[j]))
        BY <3>1, <4>2, ConcatProperties
      <4>. QED
        BY <3>2, <4>1, <4>3
    <3>4. mem'[j] \in Seq(Entry)
      BY DEF TypeOK
    <3>. QED
      BY <1>0, <3>1, <3>3, <3>4, EmptySeq
  <2>3. UNCHANGED <<proc, dead, acked, finished>>
    BY <2>1 DEF history
  <2>4. CASE file' = mem' /\ call' = Unlinking
    <3>1. \A j \in Jobs : dead'[j] > 0 => mem'[j] # <<>> /\ file'[j] # <<>>
      BY <2>2, <2>3, <2>4
    <3>2. \A j \in acked' \ finished' : mem'[j] # <<>> \/ dead'[j] > 0
      <4>. SUFFICES ASSUME NEW j \in acked' \ finished'
                    PROVE  mem'[j] # <<>>
        OBVIOUS
      <4>1. j \in Jobs /\ j \in acked \ finished
        BY <2>3 DEF TypeOK
      <4>2. proc = "up"
        BY <1>3 DEF RequeueDead, Ready
      <4>. QED
        BY <2>2, <4>1, <4>2
    <3>. QED
      BY <2>3, <2>4, <3>1, <3>2 DEF Unlinking
  <2>5. CASE file' = file /\ call' = call
    BY <2>1, <2>2, <2>3, <2>5 DEF Idle, TypeOK
  <2>. QED
    BY <2>1, <2>4, <2>5
<1>4. CASE UnlinkDead
  BY <1>4 DEF UnlinkDead, history, Idle, Unlinking, NoDead, TypeOK
<1>5. CASE DeferUntil
  <2>1. ASSUME NEW j \in Jobs
        PROVE  mem'[j] # <<>> <=> mem[j] # <<>>
    <3>1. DOMAIN mem'[j] = DOMAIN mem[j]
      BY <1>5 DEF DeferUntil
    <3>2. mem[j] \in Seq(Entry) /\ mem'[j] \in Seq(Entry)
      BY DEF TypeOK
    <3>. QED
      BY <3>1, <3>2, EmptySeq, LenProperties
  <2>. QED
    BY <1>5, <2>1 DEF DeferUntil, Persist, PersistOk, PersistFails, Ready, Idle,
                      history, TypeOK
<1>6. ASSUME NEW j \in Jobs, NEW wait \in {"due", "held"}, Enqueue(j, wait)
      PROVE  Safekeeping'
  <2>1. \A i \in Jobs : mem'[i] # <<>> <=> (mem[i] # <<>> \/ i = j)
    <3>1. mem' = [mem EXCEPT ![j] = Append(mem[j], Fresh(wait))]
      BY <1>6 DEF Enqueue
    <3>2. mem[j] \in Seq(Entry) /\ Append(mem[j], Fresh(wait)) # <<>>
      <4>1. mem[j] \in Seq(Entry) /\ Fresh(wait) \in Entry
        BY FreshType DEF TypeOK
      <4>2. Len(Append(mem[j], Fresh(wait))) = Len(mem[j]) + 1
        BY <4>1, AppendProperties
      <4>3. Len(mem[j]) \in Nat /\ Append(mem[j], Fresh(wait)) \in Seq(Entry)
        BY <4>1, LenProperties, AppendProperties
      <4>. QED
        BY <4>1, <4>2, <4>3, EmptySeq
    <3>. QED
      BY <3>1, <3>2 DEF TypeOK
  <2>. QED
    BY <1>6, <2>1 DEF Enqueue, PersistOk, PersistFails, Ready, Idle, TypeOK
<1>7. ASSUME NEW j \in Jobs, RecordFailure(j)
      PROVE  Safekeeping'
  <2>1. \A i \in Jobs : mem'[i] # <<>> <=> mem[i] # <<>>
    BY <1>7, FailedProperties DEF RecordFailure, TypeOK
  <2>. QED
    BY <1>7, <2>1 DEF RecordFailure, Persist, PersistOk, PersistFails, Ready, Idle,
                      history, TypeOK
<1>8. ASSUME NEW j \in Jobs, Bury(j) \/ BuryFails
      PROVE  \A i \in Jobs : dead[i] > 0 => dead'[i] > 0
  <2>1. CASE dead' = [dead EXCEPT ![j] = @ + 1]
    BY <1>0, <2>1 DEF TypeOK
  <2>2. CASE dead' = dead
    BY <2>2
  <2>. QED
    BY <1>8, <2>1, <2>2 DEF Bury, BuryFails, Fault, Undamaged, Damage
<1>9. ASSUME NEW j \in Jobs, Bury(j)
      PROVE  dead'[j] > 0
  BY <1>0, <1>9 DEF Bury, Fault, Undamaged, Damage, TypeOK
<1>10. ASSUME NEW j \in Jobs, Exhaust(j)
       PROVE  Safekeeping'
  <2>1. \A i \in Jobs : mem'[i] # <<>> <=> mem[i] # <<>>
    <3>1. mem[j] \in Seq(Entry) /\ mem[j] # <<>>
      BY <1>10 DEF Exhaust, TypeOK
    <3>2. mem[j][1] \in Entry
      BY <3>1, ElementOfSeq, EmptySeq, LenProperties
    <3>3. mem[j][1].wait \in {"due", "held"}
      BY <3>2 DEF Entry
    <3>. QED
      BY <1>10, <3>3, FailedProperties DEF Exhaust, TypeOK
  <2>. QED
    BY <1>8, <1>9, <1>10, <2>1 DEF Exhaust, Removing, Retaining, Ready, Idle,
                                   history, TypeOK
<1>11. ASSUME NEW j \in Jobs, GiveUp(j)
       PROVE  Safekeeping'
  BY <1>8, <1>9, <1>11 DEF GiveUp, Removing, Retaining, Ready, Idle, history, TypeOK
<1>12. ASSUME NEW j \in Jobs, RetainAndPersist(j)
       PROVE  Safekeeping'
  BY <1>12 DEF RetainAndPersist, Persist, PersistOk, PersistFails, Retaining,
               Idle, history, TypeOK
<1>13. ASSUME NEW j \in Jobs, RecordSuccess(j)
       PROVE  Safekeeping'
  BY <1>13 DEF RecordSuccess, Persist, PersistOk, PersistFails, Ready, Idle, TypeOK
<1>14. ASSUME NEW j \in Jobs, ComesDue(j)
       PROVE  Safekeeping'
  <2>1. DOMAIN mem'[j] = DOMAIN mem[j] /\ DOMAIN file'[j] = DOMAIN file[j]
    BY <1>14 DEF ComesDue, TypeOK
  <2>2. /\ mem[j] \in Seq(Entry) /\ mem'[j] \in Seq(Entry)
        /\ file[j] \in Seq(Entry) /\ file'[j] \in Seq(Entry)
    BY DEF TypeOK
  <2>3. (mem'[j] # <<>> <=> mem[j] # <<>>) /\ (file'[j] # <<>> <=> file[j] # <<>>)
    BY <2>1, <2>2, EmptySeq, LenProperties
  <2>4. \A i \in Jobs : i # j => mem'[i] = mem[i] /\ file'[i] = file[i]
    BY <1>14 DEF ComesDue, TypeOK
  <2>5. UNCHANGED <<proc, dead, call, acked, finished>>
    BY <1>14 DEF ComesDue, history
  <2>. QED
    BY <2>3, <2>4, <2>5 DEF TypeOK
<1>15. CASE UNCHANGED vars
  BY <1>15 DEF vars
<1>. QED
  BY <1>1, <1>2, <1>3, <1>4, <1>5, <1>6, <1>7, <1>10, <1>11, <1>12, <1>13, <1>14,
     <1>15, <1>16, <1>17 DEF Next

\* Crashes and failed writes or removals at any point of any operation never
\* lose an acknowledged job: until it is reported finished it is in the queue
\* file or in the dead file, so the next start finds it (RetryQueue, bury).
THEOREM AckedJobsSurvive ==
  Spec => []NoAckedJobVanishes
<1>1. Init => Safekeeping
  BY DEF Init, Safekeeping, OnDisk, Idle
<1>2. TypeOK /\ TypeOK' /\ Safekeeping /\ [Next]_vars => Safekeeping'
  BY SafekeepingStep
<1>3. Safekeeping => NoAckedJobVanishes
  BY DEF Safekeeping, NoAckedJobVanishes
<1>. QED
  BY <1>1, <1>2, <1>3, TypeCorrect, PTL DEF Spec

-----------------------------------------------------------------------------
(****************************************************************************)
(* No duplicates, as long as nothing but damaged files went wrong.          *)
(****************************************************************************)

\* The strengthening of NoDuplicateWork: it holds of the file as well, since
\* the next process starts from it; while a job is removed it may be in both
\* places, once each; while the dead file is removed the queue has all of it;
\* and an id that enqueue has not drawn yet is nowhere.
OnlyIssued == \A j \in Jobs \ issued : mem[j] = <<>> /\ file[j] = <<>> /\ dead[j] = 0
Singly ==
  /\ OnlyIssued
  /\ proc = "down" => call = Idle
  /\ seen \subseteq Damage =>
       /\ \A j \in Jobs \ call.jobs :
            call.op # "unlink" => Len(mem[j]) + dead[j] <= 1 /\ Len(file[j]) + dead[j] <= 1
       /\ \A j \in call.jobs \cap Jobs : dead[j] <= 1
       /\ call.op = "unlink" => file = mem /\ \A j \in Jobs : Len(mem[j]) <= 1

\* Lengths in the terms the provers are good at.
LEMMA Lengths ==
  ASSUME TypeOK
  PROVE  \A j \in Jobs : /\ Len(mem[j]) \in Nat /\ (mem[j] = <<>> <=> Len(mem[j]) = 0)
                         /\ Len(file[j]) \in Nat /\ (file[j] = <<>> <=> Len(file[j]) = 0)
                         /\ dead[j] \in Nat
<1> TAKE j \in Jobs
<1>1. mem[j] \in Seq(Entry) /\ file[j] \in Seq(Entry) /\ dead[j] \in Nat
  BY DEF TypeOK
<1>. QED
  BY <1>1, LenProperties, EmptySeq

\* A failed attempt leaves the number of entries of every job.
LEMMA FailedLengths ==
  ASSUME TypeOK, NEW j \in Jobs, NEW wait \in {"due", "held"}, mem[j] # <<>>
  PROVE  \A i \in Jobs : Len(Failed(j, wait)[i]) = Len(mem[i])
<1> DEFINE new == [attempts |-> IF mem[j][1].attempts < MaxAttempts
                                  THEN mem[j][1].attempts + 1 ELSE MaxAttempts,
                   wait |-> wait]
           s == [mem[j] EXCEPT ![1] = new]
<1>1. mem[j] \in Seq(Entry) /\ 1 \in 1..Len(mem[j])
  BY Lengths DEF TypeOK
<1>2. mem[j][1] \in Entry
  BY <1>1, ElementOfSeq
<1>3. new \in Entry
  BY <1>2, MaxAttemptsAssumption DEF Entry
<1>4. Len(s) = Len(mem[j])
  BY <1>1, <1>3, ExceptSeq
<1>5. Failed(j, wait) = [mem EXCEPT ![j] = s]
  BY DEF Failed
<1>. QED
  BY <1>4, <1>5 DEF TypeOK

\* Every step keeps the strengthening.
LEMMA SinglyStep ==
  ASSUME TypeOK, TypeOK', Singly, [Next]_vars
  PROVE  Singly'
<1>a. \A j \in Jobs : /\ Len(mem[j]) \in Nat /\ (mem[j] = <<>> <=> Len(mem[j]) = 0)
                      /\ Len(file[j]) \in Nat /\ (file[j] = <<>> <=> Len(file[j]) = 0)
                      /\ dead[j] \in Nat
  BY Lengths
<1>b. \A j \in Jobs : /\ Len(mem'[j]) \in Nat /\ (mem'[j] = <<>> <=> Len(mem'[j]) = 0)
                      /\ Len(file'[j]) \in Nat /\ (file'[j] = <<>> <=> Len(file'[j]) = 0)
                      /\ dead'[j] \in Nat
  <2>1. ASSUME NEW j \in Jobs
        PROVE  mem'[j] \in Seq(Entry) /\ file'[j] \in Seq(Entry) /\ dead'[j] \in Nat
    BY DEF TypeOK
  <2>. QED
    BY <2>1, LenProperties, EmptySeq
<1>c. seen \subseteq seen'
  BY SeenGrows
<1>d. Idle.op = "idle" /\ Idle.jobs = {}
  BY DEF Idle
<1>5. CASE RequeueDead
  <2>1. \A j \in Jobs : Len(mem[j] \o Revived(dead[j])) = Len(mem[j]) + dead[j]
    <3> TAKE j \in Jobs
    <3>1. dead[j] \in Nat /\ mem[j] \in Seq(Entry)
      BY DEF TypeOK
    <3>2. \A i \in 1..dead[j] : Fresh("due") \in Entry
      BY FreshType
    <3>3. Revived(dead[j]) \in Seq(Entry)
      BY <3>1, <3>2, IsASeq DEF Revived
    <3>4. Len(Revived(dead[j])) = dead[j]
      <4>1. DOMAIN Revived(dead[j]) = 1..dead[j]
        BY DEF Revived
      <4>2. Len(Revived(dead[j])) \in Nat /\ DOMAIN Revived(dead[j]) = 1..Len(Revived(dead[j]))
        BY <3>3, LenProperties
      <4>. QED
        BY <3>1, <4>1, <4>2
    <3>5. Len(mem[j] \o Revived(dead[j])) = Len(mem[j]) + Len(Revived(dead[j]))
      BY <3>1, <3>3, ConcatProperties
    <3>. QED
      BY <3>4, <3>5
  <2>2. call = Idle /\ proc = "up" /\ UNCHANGED <<proc, dead, issued>>
    BY <1>5 DEF RequeueDead, Ready, history
  <2>3. /\ \A j \in Jobs : Len(mem'[j]) = Len(mem[j]) + dead[j] \/ mem'[j] = mem[j]
        /\ \A j \in Jobs \ issued : mem'[j] = <<>>
    <3>1. CASE mem' = mem
      BY <3>1 DEF Singly, OnlyIssued
    <3>2. CASE mem' = [j \in Jobs |-> mem[j] \o Revived(dead[j])]
      <4>1. \A j \in Jobs : Len(mem'[j]) = Len(mem[j]) + dead[j]
        BY <2>1, <3>2
      <4>2. \A j \in Jobs \ issued : Len(mem[j]) = 0 /\ dead[j] = 0
        BY <1>a DEF Singly, OnlyIssued
      <4>. QED
        BY <4>1, <4>2, <1>b
    <3>. QED
      BY <1>5, <3>1, <3>2 DEF RequeueDead
  <2>4. CASE file' = mem' /\ call' = Unlinking
    <3>1. \A j \in Jobs \ issued' : mem'[j] = <<>> /\ file'[j] = <<>> /\ dead'[j] = 0
      BY <2>2, <2>3, <2>4 DEF Singly, OnlyIssued
    <3>2. seen \subseteq Damage => \A j \in Jobs : Len(mem[j]) + dead[j] <= 1
      BY <2>2, <1>d DEF Singly, OnlyIssued
    <3>3. seen \subseteq Damage => \A j \in Jobs : Len(mem'[j]) <= 1
      BY <2>3, <3>2, <1>a, <1>b
    <3>4. call'.op = "unlink" /\ call'.jobs = {}
      BY <2>4 DEF Unlinking
    <3>. QED
      BY <2>2, <2>4, <3>1, <3>3, <3>4, <1>c DEF Singly, OnlyIssued
  <2>5. CASE file' = file /\ call' = call /\ seen' = seen \cup {"write"}
    <3>1. ~ (seen' \subseteq Damage)
      BY <2>5 DEF Damage
    <3>2. \A j \in Jobs \ issued' : mem'[j] = <<>> /\ file'[j] = <<>> /\ dead'[j] = 0
      BY <2>2, <2>3, <2>5 DEF Singly, OnlyIssued
    <3>. QED
      BY <2>2, <2>5, <3>1, <3>2 DEF Singly, OnlyIssued
  <2>. QED
    BY <1>5, <2>4, <2>5 DEF RequeueDead, PersistOk, PersistFails, Fault
<1>e. call = Idle /\ seen' \subseteq Damage =>
        \A j \in Jobs : Len(mem[j]) + dead[j] <= 1 /\ Len(file[j]) + dead[j] <= 1
  BY <1>c, <1>d DEF Singly, OnlyIssued
<1>f. ASSUME call' = Idle,
             \A j \in Jobs \ issued' : mem'[j] = <<>> /\ file'[j] = <<>> /\ dead'[j] = 0,
             seen' \subseteq Damage =>
               \A j \in Jobs : Len(mem'[j]) + dead'[j] <= 1 /\ Len(file'[j]) + dead'[j] <= 1
      PROVE  Singly'
  BY <1>d, <1>f DEF Singly, OnlyIssued
<1>g. ASSUME Persist
      PROVE  file' = mem' \/ (file' = file /\ ~ (seen' \subseteq Damage))
  <2>1. CASE PersistOk
    BY <2>1 DEF PersistOk
  <2>2. CASE PersistFails
    <3>1. file' = file /\ "write" \in seen'
      BY <2>2 DEF PersistFails, Fault
    <3>. QED
      BY <3>1 DEF Damage
  <2>. QED
    BY <1>g, <2>1, <2>2 DEF Persist
<1> USE <1>a, <1>b, <1>c, <1>d DEF Singly, OnlyIssued
<1>h. ASSUME Ready, call' = call, issued' = issued, dead' = dead, Persist,
             \A j \in Jobs : Len(mem'[j]) <= Len(mem[j])
      PROVE  Singly'
  <2>1. \A j \in Jobs \ issued' : mem'[j] = <<>> /\ file'[j] = <<>> /\ dead'[j] = 0
    BY <1>g, <1>h
  <2>2. seen' \subseteq Damage =>
          \A j \in Jobs : Len(mem'[j]) + dead'[j] <= 1 /\ Len(file'[j]) + dead'[j] <= 1
    BY <1>e, <1>g, <1>h DEF Ready
  <2>. QED
    BY <1>f, <1>h, <2>1, <2>2 DEF Ready
<1>1. CASE LoadOrCreate
  <2>1. \A j \in Jobs : mem'[j] \in {file[j], <<>>} /\ file'[j] \in {file[j], <<>>}
    BY <1>1 DEF LoadOrCreate, NoJobs, TypeOK
  <2>2. call = Idle /\ proc' = "up" /\ UNCHANGED <<dead, call, issued>>
    BY <1>1 DEF LoadOrCreate, history
  <2>3. \A j \in Jobs : Len(mem'[j]) <= Len(file[j]) /\ Len(file'[j]) <= Len(file[j])
    BY <2>1
  <2>4. \A j \in Jobs \ issued' : mem'[j] = <<>> /\ file'[j] = <<>> /\ dead'[j] = 0
    BY <2>1, <2>2
  <2>5. seen' \subseteq Damage =>
          \A j \in Jobs : Len(mem'[j]) + dead'[j] <= 1 /\ Len(file'[j]) + dead'[j] <= 1
    BY <1>e, <2>2, <2>3
  <2>. QED
    BY <1>f, <2>2, <2>4, <2>5
<1>2. CASE Crash
  BY <1>2 DEF Crash, Fault, Damage, Idle, NoJobs, history
<1>3. CASE Quit
  BY <1>3 DEF Quit, Ready, Idle, NoJobs, history
<1>4. CASE OtherWriteFails
  BY <1>4 DEF OtherWriteFails, Fault, Damage, queueVars, history
<1>6. CASE UnlinkDead
  BY <1>6 DEF UnlinkDead, Fault, NoFault, Damage, Idle, Unlinking, NoDead, history
<1>7. CASE DeferUntil
  <2>1. \A j \in Jobs : Len(mem'[j]) = Len(mem[j])
    <3> TAKE j \in Jobs
    <3>1. mem'[j] = [i \in DOMAIN mem[j] |-> [mem[j][i] EXCEPT !.wait = "held"]]
      BY <1>7 DEF DeferUntil
    <3>2. mem[j] \in Seq(Entry) /\ mem'[j] \in Seq(Entry)
      BY DEF TypeOK
    <3>. QED
      BY <3>1, <3>2, LenProperties
  <2>. QED
    BY <1>7, <1>h, <2>1 DEF DeferUntil, history
<1>8. ASSUME NEW j \in Jobs, NEW wait \in {"due", "held"}, Enqueue(j, wait)
      PROVE  Singly'
  <2>1. mem[j] = <<>> /\ Len(mem'[j]) = 1 /\ \A i \in Jobs \ {j} : mem'[i] = mem[i]
    <3>1. mem' = [mem EXCEPT ![j] = Append(mem[j], Fresh(wait))] /\ mem[j] = <<>>
      BY <1>8 DEF Enqueue
    <3>2. Len(Append(mem[j], Fresh(wait))) = Len(mem[j]) + 1
      BY FreshType, AppendProperties DEF TypeOK
    <3>. QED
      BY <3>1, <3>2 DEF TypeOK
  <2>. QED
    <3>1. call = Idle /\ call' = Idle /\ dead' = dead /\ issued' = issued \cup {j} /\ j \notin issued
      BY <1>8 DEF Enqueue, Ready
    <3>2. file' = mem' \/ (file' = file /\ ~ (seen' \subseteq Damage))
      BY <1>g, <1>8 DEF Enqueue, Persist
    <3>3. \A i \in Jobs \ issued' : mem'[i] = <<>> /\ file'[i] = <<>> /\ dead'[i] = 0
      BY <2>1, <3>1, <3>2
    <3>4. seen' \subseteq Damage => \A i \in Jobs : Len(mem'[i]) + dead'[i] <= 1
      <4>1. dead'[j] = 0 /\ Len(mem'[j]) = 1
        BY <2>1, <3>1
      <4>2. \A i \in Jobs \ {j} : mem'[i] = mem[i] /\ dead'[i] = dead[i]
        BY <2>1, <3>1
      <4>. QED
        <5> SUFFICES ASSUME seen' \subseteq Damage, NEW i \in Jobs
                     PROVE  Len(mem'[i]) + dead'[i] <= 1
          OBVIOUS
        <5>1. Len(mem[i]) + dead[i] <= 1
          BY <1>e, <3>1
        <5>2. CASE i = j
          <6>1. Len(mem'[i]) = 1 /\ dead'[i] = 0
            BY <4>1, <5>2
          <6>. QED
            BY <6>1
        <5>3. CASE i # j
          BY <4>2, <5>1, <5>3
        <5>. QED
          BY <5>2, <5>3
    <3>. QED
      BY <1>f, <3>1, <3>2, <3>3, <3>4
<1>9. ASSUME NEW j \in Jobs, RecordFailure(j)
      PROVE  Singly'
  <2>1. \A i \in Jobs : Len(mem'[i]) = Len(mem[i])
    BY <1>9, FailedLengths DEF RecordFailure
  <2>. QED
    BY <1>9, <1>h, <2>1 DEF RecordFailure, history
<1>10. ASSUME NEW j \in Jobs, mem[j] # <<>>, Ready, \A i \in Jobs : Len(mem'[i]) = Len(mem[i]),
              UNCHANGED <<proc, file, history>>,
              \/ Bury(j) /\ Removing(j)
              \/ BuryFails /\ call' = call
       PROVE  Singly'
  <2>1. CASE BuryFails
    BY <1>10, <2>1 DEF BuryFails, Fault, Damage, history, Ready, Idle
  <2>2. CASE Bury(j) /\ Removing(j)
    <3>1. call' = Retaining(j) /\ call = Idle /\ proc' = "up" /\ issued' = issued /\ file' = file
      BY <1>10, <2>2 DEF Removing, Ready, history
    <3>2. j \in issued
      BY <1>10
    <3>3. \A i \in Jobs : i # j => dead'[i] = dead[i] \/ dead'[i] = 0
      BY <2>2 DEF Bury, NoDead, TypeOK
    <3>4. seen \subseteq Damage => dead'[j] <= 1
      <4>1. seen \subseteq Damage => dead[j] = 0
        BY <1>10, <3>1 DEF Idle
      <4>. QED
        BY <2>2, <4>1 DEF Bury, NoDead, TypeOK
    <3>. QED
      <4>1. call'.op = "retain" /\ call'.jobs = {j}
        BY <3>1 DEF Retaining
      <4>2. \A i \in Jobs \ issued' : mem'[i] = <<>> /\ file'[i] = <<>> /\ dead'[i] = 0
        BY <1>10, <3>1, <3>2, <3>3
      <4>3. seen' \subseteq Damage =>
              \A i \in Jobs \ {j} : Len(mem'[i]) + dead'[i] <= 1 /\ Len(file'[i]) + dead'[i] <= 1
        BY <1>e, <1>10, <3>1, <3>3
      <4>. QED
        BY <3>1, <3>4, <4>1, <4>2, <4>3
  <2>. QED
    BY <1>10, <2>1, <2>2
<1>11. ASSUME NEW j \in Jobs, Exhaust(j)
       PROVE  Singly'
  <2>1. mem[j][1].wait \in {"due", "held"}
    <3>1. mem[j] \in Seq(Entry) /\ 1 \in 1..Len(mem[j])
      BY <1>11 DEF Exhaust, TypeOK
    <3>2. mem[j][1] \in Entry
      BY <3>1, ElementOfSeq
    <3>. QED
      BY <3>2 DEF Entry
  <2>2. \A i \in Jobs : Len(mem'[i]) = Len(mem[i])
    BY <1>11, <2>1, FailedLengths DEF Exhaust
  <2>. QED
    BY <1>10, <1>11, <2>2 DEF Exhaust
<1>12. ASSUME NEW j \in Jobs, GiveUp(j)
       PROVE  Singly'
  BY <1>10, <1>12 DEF GiveUp
<1>13. ASSUME NEW j \in Jobs, RetainAndPersist(j)
       PROVE  Singly'
  <2>1. call.op = "retain" /\ call.jobs = {j} /\ call' = Idle /\ UNCHANGED <<dead, issued>>
    BY <1>13 DEF RetainAndPersist, Retaining, history
  <2>2. mem'[j] = <<>> /\ \A i \in Jobs \ {j} : mem'[i] = mem[i]
    BY <1>13 DEF RetainAndPersist, TypeOK
  <2>3. file' = mem' \/ (file' = file /\ ~ (seen' \subseteq Damage))
    BY <1>13, <1>g DEF RetainAndPersist
  <2>4. \A i \in Jobs \ issued' : mem'[i] = <<>> /\ file'[i] = <<>> /\ dead'[i] = 0
    BY <2>1, <2>2, <2>3
  <2>5. seen' \subseteq Damage => \A i \in Jobs : Len(mem'[i]) + dead'[i] <= 1
    BY <2>1, <2>2
  <2>. QED
    BY <1>f, <2>1, <2>3, <2>4, <2>5
<1>14. ASSUME NEW j \in Jobs, RecordSuccess(j)
       PROVE  Singly'
  <2>1. \A i \in Jobs : Len(mem'[i]) <= Len(mem[i])
    <3>1. mem'[j] = <<>> /\ \A i \in Jobs \ {j} : mem'[i] = mem[i]
      BY <1>14 DEF RecordSuccess, TypeOK
    <3>. QED
      BY <3>1
  <2>. QED
    BY <1>14, <1>h, <2>1 DEF RecordSuccess
<1>15. ASSUME NEW j \in Jobs, ComesDue(j)
       PROVE  Singly'
  <2>1. /\ \A i \in Jobs : Len(mem'[i]) = Len(mem[i]) /\ Len(file'[i]) = Len(file[i])
        /\ file = mem => file' = mem'
    <3>1. DOMAIN mem'[j] = DOMAIN mem[j] /\ DOMAIN file'[j] = DOMAIN file[j]
      BY <1>15 DEF ComesDue, TypeOK
    <3>2. /\ mem[j] \in Seq(Entry) /\ mem'[j] \in Seq(Entry)
          /\ file[j] \in Seq(Entry) /\ file'[j] \in Seq(Entry)
      BY DEF TypeOK
    <3>3. Len(mem'[j]) = Len(mem[j]) /\ Len(file'[j]) = Len(file[j])
      BY <3>1, <3>2, LenProperties
    <3>4. \A i \in Jobs : i # j => mem'[i] = mem[i] /\ file'[i] = file[i]
      BY <1>15 DEF ComesDue, TypeOK
    <3>5. file = mem => file' = mem'
      BY <1>15 DEF ComesDue
    <3>. QED
      BY <3>3, <3>4, <3>5
  <2>2. UNCHANGED <<proc, dead, call, seen, issued>>
    BY <1>15 DEF ComesDue, history
  <2>. QED
    BY <2>1, <2>2
<1>16. CASE UNCHANGED vars
  BY <1>16 DEF vars
<1>. QED
  BY <1>1, <1>2, <1>3, <1>4, <1>5, <1>6, <1>7, <1>8, <1>9, <1>11, <1>12, <1>13, <1>14, <1>15, <1>16 DEF Next

\* As long as no call is interrupted and no write or removal fails, a job is
\* queued once or parked once, whatever files turn out unreadable: nothing is
\* handed out twice (RetryQueue, exhaust, give_up, requeue_dead).
THEOREM NoJobHandedOutTwice ==
  Spec => []NoDuplicateWork /\ []OnlyIssued
<1>1. Init => Singly
  BY DEF Init, Singly, OnlyIssued, NoJobs, NoDead, Idle
<1>2. TypeOK /\ TypeOK' /\ Singly /\ [Next]_vars => Singly'
  BY SinglyStep
<1>3. Singly => NoDuplicateWork /\ OnlyIssued
  <2>1. Idle.op = "idle" /\ Idle.jobs = {}
    BY DEF Idle
  <2>. QED
    BY <2>1 DEF Singly, NoDuplicateWork, Ready
<1>. QED
  BY <1>1, <1>2, <1>3, TypeCorrect, PTL DEF Spec

=============================================================================
