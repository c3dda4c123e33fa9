---------------------------- MODULE UploadsProofs ----------------------------
(****************************************************************************)
(* Proofs about Uploads: staged audio is accounted for and a job has all of *)
(* its audio, for any number of clients, uploads, objects and chunks.       *)
(****************************************************************************)
EXTENDS Uploads, FiniteSetTheorems, TLAPS

\* A request that works on an upload has one, and a chunk of it.
NeedsUpload(pc) == pc \notin {"idle", "lookup", "reserve", "reply"}
Addressed ==
  /\ \A t \in Tasks : NeedsUpload(task[t].pc) => task[t].u \in Uploads
  /\ \A t \in Slots : task[t].i \in Index
  /\ \A t \in Tasks : task[t].pc = "reply" /\ task[t].ok => task[t].u \in Uploads
  /\ \A c \in Clients : client[c].pc \in {"chunk", "seal", "process"} => client[c].u \in Uploads
  /\ task[Cleaner].pc \in {"idle", "purge", "objects", "rows", "mark", "discard"}

\* A row that takes no more audio, and never will again.
Closed(u) == up[u].late \/ up[u].status \in {"complete", "expired", "deleted"}
\* An upload whose audio may go.
Ending(u) == up[u].late \/ u \in refused \/ job[u] = "complete" \/ up[u].status = "deleted"
Purger(t) == task[t].pc \in {"purge", "objects", "rows", "mark", "discard"}

\* Only an upload that is closed and whose audio may go is purged.
Closing ==
  /\ \A u \in Uploads : up[u].status = "none" =>
       ~up[u].late /\ u \notin refused /\ job[u] = "none" /\ \A i \in Index : chunk[u][i] = None
  /\ \A u \in Uploads : up[u].status = "expired" => up[u].late \/ u \in refused
  /\ \A u \in Uploads : job[u] # "none" => up[u].status \in {"complete", "expired"}
  /\ \A t \in Tasks : task[t].pc = "insert" => up[task[t].u].status \in {"complete", "expired", "deleted"}
  /\ \A t \in Tasks : Purger(t) =>
       /\ Closed(task[t].u) /\ Ending(task[t].u)
       /\ task[t].ok \/ up[task[t].u].late \/ task[t].u \in refused \/ up[task[t].u].status = "deleted"

\* An upload that was sealed or given a job has all its chunks unless they may go.
Sound(u) == AllArrived(u) \/ Ending(u)
Sealed ==
  /\ \A u \in Uploads : up[u].status = "complete" \/ job[u] # "none" => Sound(u)
  /\ \A t \in Tasks : task[t].pc \in {"sealing", "insert"} => Sound(task[t].u)

\* An object has one place: one chunk of one upload, as a row or a reservation, or
\* the request that has just written it, or the list of deferred deletions.
Holds(u, i, o) == chunk[u][i] = o \/ ticket[u][i] = o
Carries(t) == task[t].pc \in {"commit", "drop"}
OnePlace ==
  /\ \A u, v \in Uploads : \A i, j \in Index : \A o \in Objects :
       Holds(u, i, o) /\ Holds(v, j, o) => u = v /\ i = j
  /\ \A u \in Uploads : \A i \in Index : chunk[u][i] = None \/ ticket[u][i] = None
  /\ \A u \in Uploads : \A i \in Index : \A o \in Objects : Holds(u, i, o) => o \in used \ later
  /\ \A t \in Tasks : Carries(t) =>
       /\ task[t].o \in object \/ task[t].pc = "drop"
       /\ task[t].o \in used \ later
       /\ \A u \in Uploads : \A i \in Index : ~Holds(u, i, task[t].o)
       /\ \A s \in Tasks : Carries(s) /\ task[s].o = task[t].o => s = t
       /\ \A s \in Tasks : task[t].o \notin task[s].seen
  /\ \A t \in Tasks : task[t].o \in used \cup {None} /\ (task[t].pc \in {"sign", "adopt"} => task[t].o # None)

\* What a purge has read belongs to its upload, and no URL can create it again.
Purged ==
  /\ \A t \in Tasks : task[t].seen # {} => task[t].pc \in {"objects", "rows", "mark", "discard"}
  /\ \A t \in Tasks : \A o \in task[t].seen :
       /\ o \in used /\ o \notin url
       /\ \A v \in Uploads : \A i \in Index : Holds(v, i, o) => v = task[t].u

\* The object behind a row, and behind a reservation that was verified.
Stored ==
  /\ \A u \in Uploads : \A i \in Index : chunk[u][i] # None =>
       \/ chunk[u][i] \in object \/ up[u].late
       \/ \E t \in Tasks : task[t].pc = "rows" /\ chunk[u][i] \in task[t].seen
  /\ \A t \in Tasks : task[t].pc = "adopt" =>
       \/ ticket[task[t].u][task[t].i] # task[t].o
       \/ task[t].o \in object \/ Closed(task[t].u)

Signed == \A o \in url : o \in later \/ \E u \in Uploads : \E i \in Index : Holds(u, i, o)

Open == {u \in Uploads : Exists(u) /\ (Writable(u) \/ Rows(u) # {})}
Counted == Cardinality(Open) <= MaxPending

Inv == TypeOK /\ Addressed /\ Closing /\ Sealed /\ OnePlace /\ Purged /\ Stored /\ Signed /\ Counted

-----------------------------------------------------------------------------
(* Steps of tasks *)

Pcs == {"idle", "lookup", "reserve", "put", "commit", "drop", "prepare", "sign",
        "upload", "finish", "adopt", "check", "sealing", "enqueue", "insert",
        "purge", "objects", "rows", "mark", "discard", "reply"}
ATask == [pc : Pcs, u : Uploads \cup {None}, i : 0..NumChunks, o : Objects \cup {None},
          seen : SUBSET Objects, ok : BOOLEAN]
TaskTypes == task \in [Tasks -> ATask]

\* Task t becomes this; the others stay where they are.
Moves(t, pc, u, i, o, seen, ok) ==
  /\ task' \in [Tasks -> ATask]
  /\ task'[t].pc = pc /\ task'[t].u = u /\ task'[t].i = i
  /\ task'[t].o = o /\ task'[t].seen = seen /\ task'[t].ok = ok
  /\ \A s \in Tasks \ {t} : task'[s] = task[s]

\* A whole record is written.
LEMMA Written ==
  ASSUME TaskTypes, NEW t \in Tasks, NEW r \in ATask, task' = [task EXCEPT ![t] = r]
  PROVE  Moves(t, r.pc, r.u, r.i, r.o, r.seen, r.ok)
BY DEF TaskTypes, Moves

\* The ways in which the actions write a task.
LEMMA TaskWrites ==
  ASSUME TaskTypes, NEW t \in Tasks, NEW pc \in Pcs, NEW ok \in BOOLEAN,
         NEW u \in Uploads \cup {None}, NEW i \in 0..NumChunks, NEW o \in Objects \cup {None}, NEW seen \in SUBSET Objects
  PROVE  /\ Goto(t, pc) => Moves(t, pc, task[t].u, task[t].i, task[t].o, task[t].seen, task[t].ok)
         /\ Reply(t, ok) => Moves(t, "reply", IF ok THEN task[t].u ELSE None, IF ok THEN task[t].i ELSE 0, None, {}, ok)
         /\ task' = [task EXCEPT ![t].pc = pc, ![t].o = o]
              => Moves(t, pc, task[t].u, task[t].i, o, task[t].seen, task[t].ok)
         /\ task' = [task EXCEPT ![t].pc = pc, ![t].ok = ok]
              => Moves(t, pc, task[t].u, task[t].i, task[t].o, task[t].seen, ok)
         /\ task' = [task EXCEPT ![t].pc = pc, ![t].seen = seen]
              => Moves(t, pc, task[t].u, task[t].i, task[t].o, seen, task[t].ok)
         /\ task' = [task EXCEPT ![t].pc = pc, ![t].u = u, ![t].ok = ok]
              => Moves(t, pc, u, task[t].i, task[t].o, task[t].seen, ok)
         /\ task' = [task EXCEPT ![t] = Quiet] => Moves(t, "idle", None, 0, None, {}, FALSE)
         /\ task' = [task EXCEPT ![t] = [Quiet EXCEPT !.pc = pc]] => Moves(t, pc, None, 0, None, {}, FALSE)
         /\ task' = [task EXCEPT ![t] = [Quiet EXCEPT !.pc = pc, !.u = u, !.i = i]] => Moves(t, pc, u, i, None, {}, FALSE)
         /\ task' = [task EXCEPT ![t] = [Quiet EXCEPT !.pc = pc, !.ok = ok, !.u = u]] => Moves(t, pc, u, 0, None, {}, ok)
         /\ task' = [task EXCEPT ![t] = [Quiet EXCEPT !.pc = pc, !.u = u, !.ok = ok, !.i = i]] => Moves(t, pc, u, i, None, {}, ok)
<1>1. task[t] \in ATask /\ NumChunks \in Nat /\ 0 \in 0..NumChunks
  BY UploadsAssumption DEF TaskTypes
<1>2. Quiet \in ATask /\ "reply" \in Pcs /\ "idle" \in Pcs
  BY <1>1 DEF Quiet, ATask, Pcs
<1>3. ASSUME Goto(t, pc)
      PROVE  Moves(t, pc, task[t].u, task[t].i, task[t].o, task[t].seen, task[t].ok)
  <2> DEFINE r == [task[t] EXCEPT !.pc = pc]
  <2>1. r \in ATask
    BY <1>1, <1>2 DEF ATask, Quiet
  <2>2. r.pc = pc /\ r.u = task[t].u /\ r.i = task[t].i /\ r.o = task[t].o /\ r.seen = task[t].seen /\ r.ok = task[t].ok
    BY <1>1 DEF ATask, Quiet
  <2>3. task' = [task EXCEPT ![t] = r]
    BY <1>3 DEF Goto
  <2> HIDE DEF r
  <2>. QED
    BY <2>1, <2>2, <2>3, Written
<1>4. ASSUME Reply(t, ok)
      PROVE  Moves(t, "reply", IF ok THEN task[t].u ELSE None, IF ok THEN task[t].i ELSE 0, None, {}, ok)
  <2> DEFINE r == [Quiet EXCEPT !.pc = "reply", !.ok = ok, !.u = IF ok THEN task[t].u ELSE None, !.i = IF ok THEN task[t].i ELSE 0]
  <2>1. r \in ATask
    BY <1>1, <1>2 DEF ATask, Quiet
  <2>2. r.pc = "reply" /\ r.u = (IF ok THEN task[t].u ELSE None) /\ r.i = (IF ok THEN task[t].i ELSE 0) /\ r.o = None /\ r.seen = {} /\ r.ok = ok
    BY <1>1 DEF ATask, Quiet
  <2>3. task' = [task EXCEPT ![t] = r]
    BY <1>4 DEF Reply
  <2> HIDE DEF r
  <2>. QED
    BY <2>1, <2>2, <2>3, Written
<1>5. ASSUME task' = [task EXCEPT ![t].pc = pc, ![t].o = o]
      PROVE  Moves(t, pc, task[t].u, task[t].i, o, task[t].seen, task[t].ok)
  <2> DEFINE r == [task[t] EXCEPT !.pc = pc, !.o = o]
  <2>1. r \in ATask
    BY <1>1, <1>2 DEF ATask, Quiet
  <2>2. r.pc = pc /\ r.u = task[t].u /\ r.i = task[t].i /\ r.o = o /\ r.seen = task[t].seen /\ r.ok = task[t].ok
    BY <1>1 DEF ATask, Quiet
  <2>3. task' = [task EXCEPT ![t] = r]
    BY <1>5
  <2> HIDE DEF r
  <2>. QED
    BY <2>1, <2>2, <2>3, Written
<1>6. ASSUME task' = [task EXCEPT ![t].pc = pc, ![t].ok = ok]
      PROVE  Moves(t, pc, task[t].u, task[t].i, task[t].o, task[t].seen, ok)
  <2> DEFINE r == [task[t] EXCEPT !.pc = pc, !.ok = ok]
  <2>1. r \in ATask
    BY <1>1, <1>2 DEF ATask, Quiet
  <2>2. r.pc = pc /\ r.u = task[t].u /\ r.i = task[t].i /\ r.o = task[t].o /\ r.seen = task[t].seen /\ r.ok = ok
    BY <1>1 DEF ATask, Quiet
  <2>3. task' = [task EXCEPT ![t] = r]
    BY <1>6
  <2> HIDE DEF r
  <2>. QED
    BY <2>1, <2>2, <2>3, Written
<1>7. ASSUME task' = [task EXCEPT ![t].pc = pc, ![t].seen = seen]
      PROVE  Moves(t, pc, task[t].u, task[t].i, task[t].o, seen, task[t].ok)
  <2> DEFINE r == [task[t] EXCEPT !.pc = pc, !.seen = seen]
  <2>1. r \in ATask
    BY <1>1, <1>2 DEF ATask, Quiet
  <2>2. r.pc = pc /\ r.u = task[t].u /\ r.i = task[t].i /\ r.o = task[t].o /\ r.seen = seen /\ r.ok = task[t].ok
    BY <1>1 DEF ATask, Quiet
  <2>3. task' = [task EXCEPT ![t] = r]
    BY <1>7
  <2> HIDE DEF r
  <2>. QED
    BY <2>1, <2>2, <2>3, Written
<1>8. ASSUME task' = [task EXCEPT ![t].pc = pc, ![t].u = u, ![t].ok = ok]
      PROVE  Moves(t, pc, u, task[t].i, task[t].o, task[t].seen, ok)
  <2> DEFINE r == [task[t] EXCEPT !.pc = pc, !.u = u, !.ok = ok]
  <2>1. r \in ATask
    BY <1>1, <1>2 DEF ATask, Quiet
  <2>2. r.pc = pc /\ r.u = u /\ r.i = task[t].i /\ r.o = task[t].o /\ r.seen = task[t].seen /\ r.ok = ok
    BY <1>1 DEF ATask, Quiet
  <2>3. task' = [task EXCEPT ![t] = r]
    BY <1>8
  <2> HIDE DEF r
  <2>. QED
    BY <2>1, <2>2, <2>3, Written
<1>9. ASSUME task' = [task EXCEPT ![t] = Quiet]
      PROVE  Moves(t, "idle", None, 0, None, {}, FALSE)
  <2> DEFINE r == Quiet
  <2>1. r \in ATask
    BY <1>1, <1>2 DEF ATask, Quiet
  <2>2. r.pc = "idle" /\ r.u = None /\ r.i = 0 /\ r.o = None /\ r.seen = {} /\ r.ok = FALSE
    BY <1>1 DEF ATask, Quiet
  <2>3. task' = [task EXCEPT ![t] = r]
    BY <1>9
  <2> HIDE DEF r
  <2>. QED
    BY <2>1, <2>2, <2>3, Written
<1>10. ASSUME task' = [task EXCEPT ![t] = [Quiet EXCEPT !.pc = pc]]
      PROVE  Moves(t, pc, None, 0, None, {}, FALSE)
  <2> DEFINE r == [Quiet EXCEPT !.pc = pc]
  <2>1. r \in ATask
    BY <1>1, <1>2 DEF ATask, Quiet
  <2>2. r.pc = pc /\ r.u = None /\ r.i = 0 /\ r.o = None /\ r.seen = {} /\ r.ok = FALSE
    BY <1>1 DEF ATask, Quiet
  <2>3. task' = [task EXCEPT ![t] = r]
    BY <1>10
  <2> HIDE DEF r
  <2>. QED
    BY <2>1, <2>2, <2>3, Written
<1>11. ASSUME task' = [task EXCEPT ![t] = [Quiet EXCEPT !.pc = pc, !.u = u, !.i = i]]
      PROVE  Moves(t, pc, u, i, None, {}, FALSE)
  <2> DEFINE r == [Quiet EXCEPT !.pc = pc, !.u = u, !.i = i]
  <2>1. r \in ATask
    BY <1>1, <1>2 DEF ATask, Quiet
  <2>2. r.pc = pc /\ r.u = u /\ r.i = i /\ r.o = None /\ r.seen = {} /\ r.ok = FALSE
    BY <1>1 DEF ATask, Quiet
  <2>3. task' = [task EXCEPT ![t] = r]
    BY <1>11
  <2> HIDE DEF r
  <2>. QED
    BY <2>1, <2>2, <2>3, Written
<1>12. ASSUME task' = [task EXCEPT ![t] = [Quiet EXCEPT !.pc = pc, !.ok = ok, !.u = u]]
      PROVE  Moves(t, pc, u, 0, None, {}, ok)
  <2> DEFINE r == [Quiet EXCEPT !.pc = pc, !.ok = ok, !.u = u]
  <2>1. r \in ATask
    BY <1>1, <1>2 DEF ATask, Quiet
  <2>2. r.pc = pc /\ r.u = u /\ r.i = 0 /\ r.o = None /\ r.seen = {} /\ r.ok = ok
    BY <1>1 DEF ATask, Quiet
  <2>3. task' = [task EXCEPT ![t] = r]
    BY <1>12
  <2> HIDE DEF r
  <2>. QED
    BY <2>1, <2>2, <2>3, Written
<1>13. ASSUME task' = [task EXCEPT ![t] = [Quiet EXCEPT !.pc = pc, !.u = u, !.ok = ok, !.i = i]]
      PROVE  Moves(t, pc, u, i, None, {}, ok)
  <2> DEFINE r == [Quiet EXCEPT !.pc = pc, !.u = u, !.ok = ok, !.i = i]
  <2>1. r \in ATask
    BY <1>1, <1>2 DEF ATask, Quiet
  <2>2. r.pc = pc /\ r.u = u /\ r.i = i /\ r.o = None /\ r.seen = {} /\ r.ok = ok
    BY <1>1 DEF ATask, Quiet
  <2>3. task' = [task EXCEPT ![t] = r]
    BY <1>13
  <2> HIDE DEF r
  <2>. QED
    BY <2>1, <2>2, <2>3, Written
<1>. QED
  BY <1>3, <1>4, <1>5, <1>6, <1>7, <1>8, <1>9, <1>10, <1>11, <1>12, <1>13

\* Task t goes on to pc with what it has.
Same(t, pc) == Moves(t, pc, task[t].u, task[t].i, task[t].o, task[t].seen, task[t].ok)
\* Task t is answered, or ends, or starts over.
Replies(t) ==
  \E ok \in BOOLEAN, u \in Uploads \cup {None}, i \in {0, task[t].i} :
    /\ ok => u \in Uploads
    /\ Moves(t, "reply", u, i, None, {}, ok)
Ends(t) ==
  \/ t # Cleaner /\ Replies(t)
  \/ Moves(t, "idle", None, 0, None, {}, FALSE)
  \/ t # Cleaner /\ Moves(t, "reserve", None, 0, None, {}, FALSE)

\* The cleaner is no client.
LEMMA CleanerApart == Cleaner \notin Slots /\ Cleaner \in Tasks /\ Slots \subseteq Tasks
<1>1. ASSUME Cleaner \in Slots PROVE FALSE
  <2>1. PICK c \in Clients, s \in {"live", "stale"} : <<"cleaner", "live">> = <<c, s>>
    BY <1>1 DEF Cleaner, Slots
  <2>2. c = "cleaner"
    BY <2>1
  <2>. QED
    BY <2>2, UploadsAssumption
<1>. QED
  BY <1>1 DEF Tasks

\* An answer.
LEMMA ReplyEnds ==
  ASSUME TaskTypes, Addressed, NEW t \in Tasks, NEW ok \in BOOLEAN, ok => NeedsUpload(task[t].pc)
  PROVE  Reply(t, ok) => Replies(t)
<1> SUFFICES ASSUME Reply(t, ok) PROVE Replies(t)
  OBVIOUS
<1>1. task[t] \in ATask /\ 0 \in 0..NumChunks /\ {} \in SUBSET Objects
  BY UploadsAssumption DEF TaskTypes
<1>2. task[t].u \in Uploads \cup {None} /\ task[t].i \in 0..NumChunks
  BY <1>1 DEF ATask
<1>3. Moves(t, "reply", IF ok THEN task[t].u ELSE None, IF ok THEN task[t].i ELSE 0, None, {}, ok)
  BY <1>1, TaskWrites DEF Pcs
<1>4. CASE ok
  <2>1. Moves(t, "reply", task[t].u, task[t].i, None, {}, ok)
    BY <1>3, <1>4
  <2>2. task[t].u \in Uploads
    BY <1>4 DEF Addressed
  <2>. QED
    BY <1>2, <2>1, <2>2 DEF Replies
<1>5. CASE ~ok
  <2>1. Moves(t, "reply", None, 0, None, {}, ok)
    BY <1>3, <1>5
  <2>. QED
    BY <1>5, <2>1 DEF Replies
<1>. QED
  BY <1>4, <1>5

\* A fresh object and a fresh row.
LEMMA Fresh ==
  ASSUME TypeOK
  PROVE  /\ used # Objects => FreshObject \in Objects \ used
         /\ (\E u \in Uploads : up[u].status = "none") => FreshUpload \in Uploads /\ up[FreshUpload].status = "none"
BY DEF TypeOK, FreshObject, FreshUpload

\* What each request does to its task, createManagedUpload to the direct upload.
LEMMA UploadMoves ==
  ASSUME TypeOK, TaskTypes, Addressed, NEW t \in Slots
  PROVE  /\ Lookup(t) => \/ Same(t, "reserve") \/ Replies(t)
                         \/ \E u \in Uploads : IsExpired(u) /\ Exists(u) /\ up' = [up EXCEPT ![u].status = "expired"]
                              /\ Moves(t, "purge", u, task[t].i, task[t].o, task[t].seen, TRUE)
         /\ Reserve(t) => Replies(t)
         /\ Put(t) => \/ Replies(t) /\ UNCHANGED <<object, used>>
                      \/ /\ used # Objects /\ FreshObject \in Objects \ used
                         /\ object' = object \cup {FreshObject} /\ used' = used \cup {FreshObject}
                         /\ Moves(t, "commit", task[t].u, task[t].i, FreshObject, task[t].seen, task[t].ok)
         /\ Commit(t) => \/ Replies(t)
                         \/ /\ UNCHANGED chunk
                            /\ \E ok \in BOOLEAN : Moves(t, "drop", task[t].u, task[t].i, task[t].o, task[t].seen, ok)
         /\ Drop(t) => Replies(t)
<1>1. t \in Tasks /\ task[t] \in ATask
  BY DEF TaskTypes, Tasks
<1>2. 0 \in 0..NumChunks /\ {} \in SUBSET Objects
  BY UploadsAssumption
<1>3. task[t].i \in 0..NumChunks /\ task[t].o \in Objects \cup {None} /\ task[t].seen \in SUBSET Objects
        /\ task[t].ok \in BOOLEAN /\ task[t].u \in Uploads \cup {None}
  BY <1>1 DEF ATask
<1>4. ASSUME NEW u \in Uploads \cup {None}, NEW ok \in BOOLEAN, ok => u \in Uploads,
             task' = [task EXCEPT ![t] = [Quiet EXCEPT !.pc = "reply", !.ok = ok, !.u = u]]
      PROVE  Replies(t)
  <2>1. Moves(t, "reply", u, 0, None, {}, ok)
    BY <1>1, <1>2, <1>3, <1>4, TaskWrites DEF Pcs
  <2>. QED
    BY <1>4, <2>1 DEF Replies
<1>5. ASSUME Lookup(t)
      PROVE  \/ Same(t, "reserve") \/ Replies(t)
             \/ \E u \in Uploads : IsExpired(u) /\ Exists(u) /\ up' = [up EXCEPT ![u].status = "expired"]
                  /\ Moves(t, "purge", u, task[t].i, task[t].o, task[t].seen, TRUE)
  <2>1. CASE Goto(t, "reserve")
    BY <1>1, <1>2, <1>3, <2>1, TaskWrites DEF Same, Pcs
  <2>2. CASE ~Goto(t, "reserve")
    <3>1. PICK u \in Owners(key[t[1]]) :
            IF IsExpired(u)
            THEN /\ up' = [up EXCEPT ![u].status = "expired"]
                 /\ task' = [task EXCEPT ![t].pc = "purge", ![t].u = u, ![t].ok = TRUE]
            ELSE /\ up' = up
                 /\ task' = [task EXCEPT ![t] = [Quiet EXCEPT !.pc = "reply", !.ok = TRUE, !.u = u]]
      BY <1>5, <2>2 DEF Lookup
    <3>2. u \in Uploads /\ Exists(u)
      BY DEF Owners
    <3>3. CASE IsExpired(u)
      <4>1. Moves(t, "purge", u, task[t].i, task[t].o, task[t].seen, TRUE)
        BY <1>1, <1>2, <1>3, <3>1, <3>2, <3>3, TaskWrites DEF Pcs
      <4>. QED
        BY <3>1, <3>2, <3>3, <4>1
    <3>4. CASE ~IsExpired(u)
      BY <1>4, <3>1, <3>2, <3>4
    <3>. QED
      BY <3>3, <3>4
  <2>. QED
    BY <2>1, <2>2
<1>6. ASSUME Reserve(t)
      PROVE  Replies(t)
  <2>1. CASE Reply(t, FALSE)
    BY <1>1, <2>1, ReplyEnds
  <2>2. CASE \E u \in Owners(key[t[1]]) : task' = [task EXCEPT ![t] = [Quiet EXCEPT !.pc = "reply", !.ok = ~IsExpired(u), !.u = u]]
    <3>1. PICK u \in Owners(key[t[1]]) : task' = [task EXCEPT ![t] = [Quiet EXCEPT !.pc = "reply", !.ok = ~IsExpired(u), !.u = u]]
      BY <2>2
    <3>2. u \in Uploads /\ (~IsExpired(u)) \in BOOLEAN
      BY DEF Owners
    <3>. QED
      BY <1>4, <3>1, <3>2
  <2>3. CASE /\ \E u \in Uploads : up[u].status = "none"
             /\ task' = [task EXCEPT ![t] = [Quiet EXCEPT !.pc = "reply", !.ok = TRUE, !.u = FreshUpload]]
    <3>1. FreshUpload \in Uploads
      BY <2>3, Fresh
    <3>. QED
      BY <1>4, <2>3, <3>1
  <2>. QED
    BY <1>6, <2>1, <2>2, <2>3 DEF Reserve
<1>7. ASSUME Put(t)
      PROVE  \/ Replies(t) /\ UNCHANGED <<object, used>>
             \/ /\ used # Objects /\ FreshObject \in Objects \ used
                /\ object' = object \cup {FreshObject} /\ used' = used \cup {FreshObject}
                /\ Moves(t, "commit", task[t].u, task[t].i, FreshObject, task[t].seen, task[t].ok)
  <2>1. CASE \E ok \in BOOLEAN : Reply(t, ok) /\ UNCHANGED <<object, used>>
    BY <1>1, <1>7, <2>1, ReplyEnds DEF Put, At, NeedsUpload
  <2>2. CASE /\ used # Objects
             /\ object' = object \cup {FreshObject} /\ used' = used \cup {FreshObject}
             /\ task' = [task EXCEPT ![t].pc = "commit", ![t].o = FreshObject]
    <3>1. FreshObject \in Objects \ used
      BY <2>2, Fresh
    <3>. QED
      BY <1>1, <1>2, <1>3, <2>2, <3>1, TaskWrites DEF Pcs
  <2>. QED
    BY <1>7, <2>1, <2>2 DEF Put, OwnObject
<1>8. ASSUME Commit(t)
      PROVE  \/ Replies(t)
             \/ /\ UNCHANGED chunk
                /\ \E ok \in BOOLEAN : Moves(t, "drop", task[t].u, task[t].i, task[t].o, task[t].seen, ok)
  <2>1. CASE Reply(t, TRUE)
    BY <1>1, <1>8, <2>1, ReplyEnds DEF Commit, At, NeedsUpload
  <2>2. CASE /\ chunk' = chunk
             /\ task' = [task EXCEPT ![t].pc = "drop",
                                     ![t].ok = Writable(task[t].u) /\ chunk[task[t].u][task[t].i] # None]
    <3> DEFINE ok == Writable(task[t].u) /\ chunk[task[t].u][task[t].i] # None
    <3>1. ok \in BOOLEAN
      OBVIOUS
    <3>2. task' = [task EXCEPT ![t].pc = "drop", ![t].ok = ok]
      BY <2>2
    <3> HIDE DEF ok
    <3>3. Moves(t, "drop", task[t].u, task[t].i, task[t].o, task[t].seen, ok)
      BY <1>1, <1>2, <1>3, <3>1, <3>2, TaskWrites DEF Pcs
    <3>. QED
      BY <2>2, <3>1, <3>3
  <2>. QED
    BY <1>8, <2>1, <2>2 DEF Commit
<1>9. ASSUME Drop(t)
      PROVE  Replies(t)
  BY <1>1, <1>3, <1>9, ReplyEnds DEF Drop, At, NeedsUpload
<1>. QED
  BY <1>5, <1>6, <1>7, <1>8, <1>9

\* A task that ends.
LEMMA QuietWrites ==
  ASSUME TaskTypes, NEW t \in Tasks, task' = [task EXCEPT ![t] = Quiet]
  PROVE  Moves(t, "idle", None, 0, None, {}, FALSE)
<1>1. Quiet \in ATask
  BY UploadsAssumption DEF Quiet, ATask, Pcs
<1>2. Moves(t, Quiet.pc, Quiet.u, Quiet.i, Quiet.o, Quiet.seen, Quiet.ok)
  BY <1>1, Written
<1>. QED
  BY <1>2 DEF Quiet

\* What the direct upload, the seal and the job request do to their task.
LEMMA DirectMoves ==
  ASSUME TypeOK, TaskTypes, Addressed, NEW t \in Slots
  PROVE  /\ Prepare(t) => \/ Replies(t) /\ UNCHANGED <<ticket, used>>
                          \/ /\ chunk[task[t].u][task[t].i] = None /\ ticket[task[t].u][task[t].i] # None
                             /\ UNCHANGED <<ticket, used>>
                             /\ Moves(t, "sign", task[t].u, task[t].i, ticket[task[t].u][task[t].i], task[t].seen, task[t].ok)
                          \/ /\ chunk[task[t].u][task[t].i] = None /\ ticket[task[t].u][task[t].i] = None
                             /\ used # Objects /\ FreshObject \in Objects \ used
                             /\ ticket' = [ticket EXCEPT ![task[t].u][task[t].i] = FreshObject]
                             /\ used' = used \cup {FreshObject}
                             /\ Moves(t, "sign", task[t].u, task[t].i, FreshObject, task[t].seen, task[t].ok)
         /\ Sign(t) => \/ Replies(t) /\ UNCHANGED url
                       \/ /\ Same(t, "upload") /\ Writable(task[t].u) /\ ticket[task[t].u][task[t].i] = task[t].o
                          /\ url' = url \cup {task[t].o}
         /\ DirectPut(t) => \/ Replies(t) /\ UNCHANGED object
                            \/ /\ Same(t, "finish") /\ task[t].o \in url /\ object' = object \cup {task[t].o}
         /\ Finish(t) => \/ Replies(t)
                         \/ /\ Moves(t, "adopt", task[t].u, task[t].i, ticket[task[t].u][task[t].i], task[t].seen, task[t].ok)
                            /\ ticket[task[t].u][task[t].i] # None /\ ticket[task[t].u][task[t].i] \in object
         /\ Adopt(t) => Replies(t)
         /\ Check(t) => \/ Replies(t) \/ (Same(t, "sealing") /\ AllArrived(task[t].u))
         /\ Seal(t) => Replies(t)
         /\ Enqueue(t) => \/ Replies(t) /\ UNCHANGED refused
                          \/ up[task[t].u].status = "complete" /\ UNCHANGED refused /\ Same(t, "insert")
                          \/ up[task[t].u].status = "complete" /\ Same(t, "purge") /\ refused' = refused \cup {task[t].u}
         /\ Insert(t) => Replies(t)
<1>1. t \in Tasks /\ task[t] \in ATask
  BY DEF TaskTypes, Tasks
<1>2. 0 \in 0..NumChunks /\ {} \in SUBSET Objects
  BY UploadsAssumption
<1>3. task[t].i \in 0..NumChunks /\ task[t].o \in Objects \cup {None} /\ task[t].seen \in SUBSET Objects
        /\ task[t].ok \in BOOLEAN /\ task[t].u \in Uploads \cup {None}
  BY <1>1 DEF ATask
<1>4. ASSUME NEW pc \in Pcs, Goto(t, pc)
      PROVE  Same(t, pc)
  BY <1>1, <1>2, <1>3, <1>4, TaskWrites DEF Same
<1>5. ASSUME NEW ok \in BOOLEAN, Reply(t, ok), NeedsUpload(task[t].pc)
      PROVE  Replies(t)
  BY <1>1, <1>5, ReplyEnds
<1>6. ASSUME NEW o \in Objects \cup {None}, NEW pc \in Pcs, task' = [task EXCEPT ![t].pc = pc, ![t].o = o]
      PROVE  Moves(t, pc, task[t].u, task[t].i, o, task[t].seen, task[t].ok)
  BY <1>1, <1>2, <1>3, <1>6, TaskWrites
<1>7. NeedsUpload(task[t].pc) => task[t].u \in Uploads /\ task[t].i \in Index
  BY <1>1 DEF Addressed
<1>0. Prepare(t) \/ Sign(t) \/ DirectPut(t) \/ Finish(t) \/ Adopt(t) \/ Check(t) \/ Seal(t) \/ Enqueue(t) \/ Insert(t)
        => NeedsUpload(task[t].pc)
  BY DEF Prepare, Sign, DirectPut, Finish, Adopt, Check, Seal, Enqueue, Insert, At, NeedsUpload
<1>8. ASSUME Prepare(t)
      PROVE  \/ Replies(t) /\ UNCHANGED <<ticket, used>>
             \/ /\ chunk[task[t].u][task[t].i] = None /\ ticket[task[t].u][task[t].i] # None
                /\ UNCHANGED <<ticket, used>>
                /\ Moves(t, "sign", task[t].u, task[t].i, ticket[task[t].u][task[t].i], task[t].seen, task[t].ok)
             \/ /\ chunk[task[t].u][task[t].i] = None /\ ticket[task[t].u][task[t].i] = None
                /\ used # Objects /\ FreshObject \in Objects \ used
                /\ ticket' = [ticket EXCEPT ![task[t].u][task[t].i] = FreshObject]
                /\ used' = used \cup {FreshObject}
                /\ Moves(t, "sign", task[t].u, task[t].i, FreshObject, task[t].seen, task[t].ok)
  <2>1. CASE \E ok \in BOOLEAN : Reply(t, ok) /\ UNCHANGED <<ticket, used>>
    BY <1>0, <1>5, <1>8, <2>1
  <2>2. task[t].u \in Uploads /\ task[t].i \in Index /\ "sign" \in Pcs
    BY <1>7, <1>8 DEF Prepare, At, NeedsUpload, Pcs
  <2>3. CASE /\ chunk[task[t].u][task[t].i] = None /\ ticket[task[t].u][task[t].i] # None
             /\ UNCHANGED <<ticket, used>>
             /\ task' = [task EXCEPT ![t].pc = "sign", ![t].o = ticket[task[t].u][task[t].i]]
    <3>1. ticket[task[t].u][task[t].i] \in Objects \cup {None}
      BY <2>2 DEF TypeOK
    <3>. QED
      BY <1>6, <2>2, <2>3, <3>1
  <2>4. CASE /\ chunk[task[t].u][task[t].i] = None /\ ticket[task[t].u][task[t].i] = None
             /\ used # Objects
             /\ ticket' = [ticket EXCEPT ![task[t].u][task[t].i] = FreshObject]
             /\ used' = used \cup {FreshObject}
             /\ task' = [task EXCEPT ![t].pc = "sign", ![t].o = FreshObject]
    <3>1. FreshObject \in Objects \ used
      BY <2>4, Fresh
    <3>. QED
      BY <1>6, <2>2, <2>4, <3>1
  <2>. QED
    BY <1>8, <2>1, <2>3, <2>4 DEF Prepare
<1>9. ASSUME Sign(t)
      PROVE  \/ Replies(t) /\ UNCHANGED url
             \/ /\ Same(t, "upload") /\ Writable(task[t].u) /\ ticket[task[t].u][task[t].i] = task[t].o
                /\ url' = url \cup {task[t].o}
  BY <1>4, <1>0, <1>5, <1>9 DEF Sign, Pcs
<1>10. ASSUME DirectPut(t)
      PROVE  \/ Replies(t) /\ UNCHANGED object
             \/ /\ Same(t, "finish") /\ task[t].o \in url /\ object' = object \cup {task[t].o}
  BY <1>4, <1>0, <1>5, <1>10 DEF DirectPut, Pcs
<1>11. ASSUME Finish(t)
      PROVE  \/ Replies(t)
             \/ /\ Moves(t, "adopt", task[t].u, task[t].i, ticket[task[t].u][task[t].i], task[t].seen, task[t].ok)
                /\ ticket[task[t].u][task[t].i] # None /\ ticket[task[t].u][task[t].i] \in object
  <2>1. task[t].u \in Uploads /\ task[t].i \in Index /\ "adopt" \in Pcs
    BY <1>7, <1>11 DEF Finish, At, NeedsUpload, Pcs
  <2>2. ticket[task[t].u][task[t].i] \in Objects \cup {None}
    BY <2>1 DEF TypeOK
  <2>3. \/ \E ok \in BOOLEAN : Reply(t, ok)
        \/ /\ ticket[task[t].u][task[t].i] # None /\ ticket[task[t].u][task[t].i] \in object
           /\ task' = [task EXCEPT ![t].pc = "adopt", ![t].o = ticket[task[t].u][task[t].i]]
    BY <1>11 DEF Finish
  <2>. QED
    BY <1>0, <1>5, <1>11, <1>6, <2>1, <2>2, <2>3
<1>12. ASSUME Adopt(t) PROVE Replies(t)
  BY <1>0, <1>5, <1>12 DEF Adopt
<1>13. ASSUME Check(t) PROVE Replies(t) \/ (Same(t, "sealing") /\ AllArrived(task[t].u))
  BY <1>4, <1>0, <1>5, <1>13 DEF Check, Pcs
<1>14. ASSUME Seal(t) PROVE Replies(t)
  <2>1. Exists(task[t].u) \in BOOLEAN
    BY DEF Exists
  <2>. QED
    BY <1>0, <1>5, <1>14, <2>1 DEF Seal
<1>15. ASSUME Enqueue(t)
      PROVE  \/ Replies(t) /\ UNCHANGED refused
             \/ up[task[t].u].status = "complete" /\ UNCHANGED refused /\ Same(t, "insert")
             \/ up[task[t].u].status = "complete" /\ Same(t, "purge") /\ refused' = refused \cup {task[t].u}
  <2> DEFINE ready == up[task[t].u].status = "complete" /\ ~up[task[t].u].late
  <2>1. ready \in BOOLEAN
    OBVIOUS
  <2>2. \/ Reply(t, ready) /\ UNCHANGED <<refused, faults>>
        \/ ready /\ Goto(t, "insert") /\ UNCHANGED <<refused, faults>>
        \/ ready /\ Goto(t, "purge") /\ refused' = refused \cup {task[t].u}
    BY <1>15, Zenon DEF Enqueue
  <2>3. ready => up[task[t].u].status = "complete"
    OBVIOUS
  <2> HIDE DEF ready
  <2>4. CASE Reply(t, ready) /\ UNCHANGED <<refused, faults>>
    BY <1>0, <1>5, <1>15, <2>1, <2>4
  <2>5. CASE ready /\ Goto(t, "insert") /\ UNCHANGED <<refused, faults>>
    BY <1>4, <2>3, <2>5 DEF Pcs
  <2>6. CASE ready /\ Goto(t, "purge") /\ refused' = refused \cup {task[t].u}
    BY <1>4, <2>3, <2>6 DEF Pcs
  <2>. QED
    BY <2>2, <2>4, <2>5, <2>6
<1>16. ASSUME Insert(t) PROVE Replies(t)
  <2>1. Exists(task[t].u) \in BOOLEAN
    BY DEF Exists
  <2>. QED
    BY <1>0, <1>5, <1>16, <2>1 DEF Insert
<1>. QED
  BY <1>8, <1>9, <1>10, <1>11, <1>12, <1>13, <1>14, <1>15, <1>16

\* What deletion does to its task.
LEMMA PurgeMoves ==
  ASSUME TypeOK, TaskTypes, Addressed, NEW t \in Tasks
  PROVE  /\ Purge(t) => \/ Ends(t)
                        \/ /\ MayPurge(task[t].u) /\ Staged(task[t].u) \in SUBSET Objects
                           /\ Moves(t, "objects", task[t].u, task[t].i, task[t].o, Staged(task[t].u), task[t].ok)
         /\ PurgeObjects(t) => \/ Ends(t) /\ UNCHANGED object
                               \/ Same(t, "rows") /\ object' = object \ task[t].seen
         /\ PurgeRows(t) => Same(t, "mark")
         /\ Mark(t) => Ends(t) \/ (t = Cleaner /\ Same(t, "discard") /\ ~task[t].ok)
<1>1. task[t] \in ATask
  BY DEF TaskTypes
<1>2. 0 \in 0..NumChunks /\ {} \in SUBSET Objects
  BY UploadsAssumption
<1>3. task[t].i \in 0..NumChunks /\ task[t].o \in Objects \cup {None} /\ task[t].seen \in SUBSET Objects
        /\ task[t].ok \in BOOLEAN /\ task[t].u \in Uploads \cup {None}
  BY <1>1 DEF ATask
<1>4. ASSUME NEW pc \in Pcs, Goto(t, pc)
      PROVE  Same(t, pc)
  BY <1>1, <1>2, <1>3, <1>4, TaskWrites DEF Same
<1>5. ASSUME Reply(t, FALSE), t # Cleaner
      PROVE  Ends(t)
  BY <1>5, ReplyEnds DEF Ends
<1>6. ASSUME task' = [task EXCEPT ![t] = Quiet]
      PROVE  Ends(t)
  BY <1>6, QuietWrites DEF Ends
<1>7. ASSUME task' = [task EXCEPT ![t] = [Quiet EXCEPT !.pc = "reserve"]], t # Cleaner
      PROVE  Ends(t)
  <2>1. Moves(t, "reserve", None, 0, None, {}, FALSE)
    BY <1>1, <1>2, <1>3, <1>7, TaskWrites DEF Pcs
  <2>. QED
    BY <1>7, <2>1 DEF Ends
<1>8. ASSUME NEW seen \in SUBSET Objects, task' = [task EXCEPT ![t].pc = "objects", ![t].seen = seen]
      PROVE  Moves(t, "objects", task[t].u, task[t].i, task[t].o, seen, task[t].ok)
  BY <1>1, <1>2, <1>3, <1>8, TaskWrites DEF Pcs
<1>9. ASSUME Purge(t)
      PROVE  \/ Ends(t)
             \/ /\ MayPurge(task[t].u) /\ Staged(task[t].u) \in SUBSET Objects
                /\ Moves(t, "objects", task[t].u, task[t].i, task[t].o, Staged(task[t].u), task[t].ok)
  <2>1. task[t].u \in Uploads
    BY <1>9 DEF Purge, At, Addressed, NeedsUpload
  <2>2. Staged(task[t].u) \in SUBSET Objects
    BY <2>1 DEF TypeOK, Staged, Rows, Tickets
  <2>3. \/ task' = [task EXCEPT ![t] = Quiet] \/ (Reply(t, FALSE) /\ t # Cleaner)
        \/ MayPurge(task[t].u) /\ task' = [task EXCEPT ![t].pc = "objects", ![t].seen = Staged(task[t].u)]
    BY <1>9 DEF Purge
  <2> HIDE DEF MayPurge, Staged
  <2>. QED
    BY <1>5, <1>6, <1>8, <2>2, <2>3
<1>10. ASSUME PurgeObjects(t)
      PROVE  \/ Ends(t) /\ UNCHANGED object
             \/ Same(t, "rows") /\ object' = object \ task[t].seen
  <2>1. \/ (task' = [task EXCEPT ![t] = Quiet] \/ (Reply(t, FALSE) /\ t # Cleaner)) /\ object' = object
        \/ Goto(t, "rows") /\ object' = object \ task[t].seen
    BY <1>10 DEF PurgeObjects
  <2>. QED
    BY <1>4, <1>5, <1>6, <2>1 DEF Pcs
<1>11. ASSUME PurgeRows(t) PROVE Same(t, "mark")
  BY <1>4, <1>11 DEF PurgeRows, Pcs
<1>12. ASSUME Mark(t) PROVE Ends(t) \/ (t = Cleaner /\ Same(t, "discard") /\ ~task[t].ok)
  <2>1. \/ t # Cleaner /\ (task' = [task EXCEPT ![t] = [Quiet EXCEPT !.pc = "reserve"]] \/ Reply(t, FALSE))
        \/ t = Cleaner /\ task' = [task EXCEPT ![t] = IF task[t].i = 0 /\ ~task[t].ok THEN [task[t] EXCEPT !.pc = "discard"] ELSE Quiet]
    BY <1>12 DEF Mark
  <2>2. CASE t = Cleaner /\ task[t].i = 0 /\ ~task[t].ok /\ task' = [task EXCEPT ![t] = [task[t] EXCEPT !.pc = "discard"]]
    <3>1. Goto(t, "discard")
      BY <2>2 DEF Goto
    <3>. QED
      BY <1>4, <2>2, <3>1 DEF Pcs
  <2>3. CASE t = Cleaner /\ ~ (task[t].i = 0 /\ ~task[t].ok)
               /\ task' = [task EXCEPT ![t] = IF task[t].i = 0 /\ ~task[t].ok THEN [task[t] EXCEPT !.pc = "discard"] ELSE Quiet]
    <3>1. task' = [task EXCEPT ![t] = Quiet]
      BY <2>3
    <3>. QED
      BY <1>6, <3>1
  <2>. QED
    BY <1>5, <1>7, <2>1, <2>2, <2>3
<1>. QED
  BY <1>9, <1>10, <1>11, <1>12

\* What the cleaner does to its task, and what clients do to theirs.
LEMMA OtherMoves ==
  ASSUME TypeOK, TaskTypes, Addressed
  PROVE  /\ Discard => Moves(Cleaner, "idle", None, 0, None, {}, FALSE)
         /\ \A u \in Uploads : Sweep(u) => \E i \in {0, 1} : Moves(Cleaner, "purge", u, i, None, {}, job[u] = "complete")
         /\ \A c \in Clients : Send(c) =>
              \E pc \in {"lookup", "put", "prepare", "check", "enqueue"} :
                /\ NeedsUpload(pc) => client[c].u \in Uploads
                /\ Moves(<<c, "live">>, pc, client[c].u, client[c].i, None, {}, FALSE)
         /\ \A c \in Clients : Forget(c) => Ends(<<c, "stale">>)
         /\ \A c \in Clients : Receive(c) => Ends(<<c, "live">>)
<1>1. Cleaner \in Tasks /\ \A c \in Clients : <<c, "live">> \in Tasks /\ <<c, "stale">> \in Tasks
  BY DEF Tasks, Slots
<1>2. 0 \in 0..NumChunks /\ 1 \in 0..NumChunks /\ {} \in SUBSET Objects /\ None \in Objects \cup {None}
  BY UploadsAssumption
<1>3. ASSUME Discard PROVE Moves(Cleaner, "idle", None, 0, None, {}, FALSE)
  BY <1>1, <1>3, QuietWrites DEF Discard
<1>4. ASSUME NEW u \in Uploads, Sweep(u)
      PROVE  \E i \in {0, 1} : Moves(Cleaner, "purge", u, i, None, {}, job[u] = "complete")
  <2> DEFINE i == IF job[u] = "none" THEN 0 ELSE 1
             ok == job[u] = "complete"
  <2>1. i \in 0..NumChunks /\ i \in {0, 1} /\ ok \in BOOLEAN /\ u \in Uploads \cup {None} /\ "purge" \in Pcs
    BY <1>2 DEF Pcs
  <2>2. task' = [task EXCEPT ![Cleaner] = [Quiet EXCEPT !.pc = "purge", !.u = u, !.ok = ok, !.i = i]]
    BY <1>4 DEF Sweep
  <2> HIDE DEF i, ok
  <2>3. Moves(Cleaner, "purge", u, i, None, {}, ok)
    BY <1>1, <1>2, <2>1, <2>2, TaskWrites
  <2>. QED
    BY <2>1, <2>3 DEF ok
<1>5. ASSUME NEW c \in Clients, Send(c)
      PROVE  \E pc \in {"lookup", "put", "prepare", "check", "enqueue"} :
                /\ NeedsUpload(pc) => client[c].u \in Uploads
                /\ Moves(<<c, "live">>, pc, client[c].u, client[c].i, None, {}, FALSE)
  <2> DEFINE t == <<c, "live">>
  <2>1. PICK pc \in Request(c) : task' = [task EXCEPT ![t] = [Quiet EXCEPT !.pc = pc, !.u = client[c].u, !.i = client[c].i]]
    BY <1>5 DEF Send
  <2>2. client[c].u \in Uploads \cup {None} /\ client[c].i \in 0..NumChunks
    BY UploadsAssumption DEF TypeOK, Index
  <2>3. pc \in {"lookup", "put", "prepare", "check", "enqueue"}
    BY <2>1 DEF Request
  <2>4. NeedsUpload(pc) => client[c].pc \in {"chunk", "seal", "process"}
    BY <2>1 DEF Request, NeedsUpload
  <2>5. t \in Tasks /\ pc \in Pcs
    BY <1>1, <2>3 DEF Pcs
  <2> HIDE DEF t
  <2>6. Moves(t, pc, client[c].u, client[c].i, None, {}, FALSE)
    BY <1>2, <2>1, <2>2, <2>5, TaskWrites
  <2>. QED
    BY <2>3, <2>4, <2>6 DEF Addressed, t
<1>6. ASSUME NEW c \in Clients, Forget(c)
      PROVE  Ends(<<c, "stale">>)
  BY <1>1, <1>6, QuietWrites DEF Forget, Ends
<1>7. ASSUME NEW c \in Clients, Receive(c)
      PROVE  Ends(<<c, "live">>)
  BY <1>1, <1>7, QuietWrites DEF Receive, Ends
<1>. QED
  BY <1>3, <1>4, <1>5, <1>6, <1>7

\* A request that was given up on goes on in the other slot of its client.
Taken(t) == \E c \in Clients : t = <<c, "stale">> /\ GiveUp(c)

\* What giving up on a request (a timeout of requestJson) does to the two slots.
LEMMA GiveUpMoves ==
  ASSUME TaskTypes, NEW c \in Clients, GiveUp(c)
  PROVE  /\ task' \in [Tasks -> ATask]
         /\ task'[<<c, "stale">>] = task[<<c, "live">>]
         /\ task[<<c, "stale">>].pc = "idle"
         /\ task'[<<c, "live">>] = Quiet
         /\ <<c, "stale">> \in Slots /\ <<c, "live">> \in Slots /\ <<c, "stale">> # <<c, "live">>
         /\ \A s \in Tasks \ {<<c, "live">>, <<c, "stale">>} : task'[s] = task[s]
<1> DEFINE l == <<c, "live">>
           k == <<c, "stale">>
<1>1. l \in Slots /\ k \in Slots /\ k # l
  BY DEF Slots
<1>2. task' = [task EXCEPT ![k] = task[l], ![l] = Quiet] /\ task[k].pc = "idle"
  BY DEF GiveUp
<1>3. l \in Tasks /\ k \in Tasks /\ Quiet \in ATask
  BY <1>1, UploadsAssumption DEF Tasks, Quiet, ATask, Pcs
<1> HIDE DEF l, k
<1>4. /\ task' \in [Tasks -> ATask] /\ task'[k] = task[l] /\ task'[l] = Quiet
      /\ \A s \in Tasks \ {l, k} : task'[s] = task[s]
  BY <1>1, <1>2, <1>3 DEF TaskTypes
<1>. QED
  BY <1>1, <1>2, <1>4 DEF l, k

\* Where the state of a task comes from: it is as it was, was taken over, has ended
\* or begins, or its own request went on.
Kept(t) == task'[t] = task[t]
Begins(t) ==
  /\ task'[t].pc \in {"idle", "reply", "reserve", "lookup", "put", "prepare", "check", "enqueue"}
  /\ task'[t].seen = {} /\ task'[t].o = None
  /\ task'[t].ok => task'[t].u \in Uploads
  /\ NeedsUpload(task'[t].pc) => task'[t].u \in Uploads
  /\ t \in Slots => task'[t].i \in Index
  /\ t = Cleaner => task'[t].pc = "idle"
Acts(t) ==
  \/ t \in Slots /\ (\/ Lookup(t) \/ Put(t) \/ Commit(t) \/ Prepare(t) \/ Sign(t)
                     \/ DirectPut(t) \/ Finish(t) \/ Check(t) \/ Enqueue(t))
  \/ Purge(t) \/ PurgeObjects(t) \/ PurgeRows(t) \/ Mark(t)
  \/ t = Cleaner /\ \E u \in Uploads : Sweep(u)

\* A task that ends.
LEMMA EndsBegins ==
  ASSUME TaskTypes, Addressed, NEW t \in Tasks, Ends(t)
  PROVE  Begins(t)
<1>1. 0 \in Index /\ (t \in Slots => task[t].i \in Index)
  BY UploadsAssumption DEF Addressed, Index
<1>2. CASE Replies(t) /\ t # Cleaner
  BY <1>1, <1>2 DEF Replies, Moves, Begins, NeedsUpload
<1>3. CASE Moves(t, "idle", None, 0, None, {}, FALSE) \/ (Moves(t, "reserve", None, 0, None, {}, FALSE) /\ t # Cleaner)
  BY <1>1, <1>3 DEF Moves, Begins, NeedsUpload
<1>. QED
  BY <1>2, <1>3 DEF Ends

\* Every task has such an origin.
LEMMA Origins ==
  ASSUME TypeOK, TaskTypes, Addressed, [Next]_vars, NEW t \in Tasks
  PROVE  Kept(t) \/ Taken(t) \/ Begins(t) \/ Acts(t)
<1> SUFFICES ASSUME ~Kept(t), ~Begins(t), ~Acts(t) PROVE Taken(t)
  OBVIOUS
<1>1. ASSUME NEW s \in Tasks, Ends(s) PROVE FALSE
  <2>1. \A r \in Tasks \ {s} : task'[r] = task[r]
    BY <1>1 DEF Ends, Replies, Moves
  <2>2. s = t
    BY <2>1 DEF Kept
  <2>. QED
    BY <1>1, <2>2, EndsBegins
<1>2. ASSUME NEW s \in Tasks, NEW pc, NEW u, NEW i, NEW o, NEW seen, NEW ok, Moves(s, pc, u, i, o, seen, ok)
      PROVE  s = t
  BY <1>2 DEF Moves, Kept
<1>3. ASSUME NEW s \in Slots, Serve(s) PROVE FALSE
  <2>1. s \in Tasks
    BY DEF Tasks
  <2>2. ASSUME Replies(s) PROVE FALSE
    BY <1>1, <2>1, <2>2, CleanerApart DEF Ends
  <2>3. CASE Reserve(s) \/ Drop(s)
    BY <2>2, <2>3, UploadMoves
  <2>4. CASE Adopt(s) \/ Seal(s) \/ Insert(s)
    BY <2>2, <2>4, DirectMoves
  <2>5. s # t
    BY <1>3, <2>3, <2>4 DEF Serve, Acts
  <2>6. CASE Lookup(s) \/ Put(s) \/ Commit(s)
    BY <1>2, <2>1, <2>2, <2>5, <2>6, UploadMoves DEF Same
  <2>7. CASE Prepare(s) \/ Sign(s) \/ DirectPut(s) \/ Finish(s) \/ Check(s) \/ Enqueue(s)
    BY <1>2, <2>1, <2>2, <2>5, <2>7, DirectMoves DEF Same
  <2>. QED
    BY <1>3, <2>3, <2>4, <2>6, <2>7 DEF Serve
<1>4. ASSUME NEW s \in Tasks, Purge(s) \/ PurgeObjects(s) \/ PurgeRows(s) \/ Mark(s) PROVE FALSE
  <2>1. s # t
    BY <1>4 DEF Acts
  <2>. QED
    BY <1>1, <1>2, <1>4, <2>1, PurgeMoves DEF Same
<1>5. ASSUME \/ Discard
             \/ \E u \in Uploads : Sweep(u)
             \/ \E c \in Clients : Send(c) \/ Forget(c) \/ Receive(c)
      PROVE  FALSE
  <2>1. CASE Discard
    BY <1>1, <2>1, OtherMoves, CleanerApart DEF Ends
  <2>2. CASE \E u \in Uploads : Sweep(u)
    <3>1. PICK u \in Uploads : Sweep(u)
      BY <2>2
    <3>2. t = Cleaner
      BY <1>2, <3>1, OtherMoves, CleanerApart
    <3>. QED
      BY <3>1, <3>2 DEF Acts
  <2>3. CASE \E c \in Clients : Forget(c) \/ Receive(c)
    <3>1. PICK c \in Clients : Forget(c) \/ Receive(c)
      BY <2>3
    <3>2. <<c, "live">> \in Tasks /\ <<c, "stale">> \in Tasks
      BY DEF Tasks, Slots
    <3>. QED
      BY <1>1, <3>1, <3>2, OtherMoves
  <2>4. CASE \E c \in Clients : Send(c)
    <3>1. PICK c \in Clients : Send(c)
      BY <2>4
    <3>2. <<c, "live">> \in Slots /\ client[c].i \in Index
      BY DEF Slots, TypeOK
    <3>3. PICK pc \in {"lookup", "put", "prepare", "check", "enqueue"} :
                /\ NeedsUpload(pc) => client[c].u \in Uploads
                /\ Moves(<<c, "live">>, pc, client[c].u, client[c].i, None, {}, FALSE)
      BY <3>1, OtherMoves
    <3>4. t = <<c, "live">>
      BY <1>2, <3>2, <3>3, CleanerApart
    <3>. QED
      BY <3>2, <3>3, <3>4, CleanerApart DEF Begins, Moves
  <2>. QED
    BY <1>5, <2>1, <2>2, <2>3, <2>4
<1>6. ASSUME NEW c \in Clients, GiveUp(c) PROVE Taken(t)
  <2>1. t = <<c, "live">> \/ t = <<c, "stale">>
    BY <1>6, GiveUpMoves DEF Kept
  <2>2. CASE t = <<c, "live">>
    <3>1. task'[<<c, "live">>] = Quiet /\ <<c, "live">> \in Slots
      BY <1>6, GiveUpMoves
    <3>2. task'[t] = Quiet /\ t # Cleaner
      BY <2>2, <3>1, CleanerApart
    <3>3. 0 \in Index
      BY UploadsAssumption DEF Index
    <3>4. Begins(t)
      BY <3>2, <3>3 DEF Begins, Quiet, NeedsUpload
    <3>. QED
      BY <3>4
  <2>. QED
    BY <1>6, <2>1, <2>2 DEF Taken
<1>7. ASSUME task' = task PROVE FALSE
  BY <1>7 DEF Kept
<1>8. ASSUME \/ \E u \in Uploads : Work(u) \/ DeleteMeeting(u) \/ Deadline(u)
             \/ \E o \in Objects : Drain(o) \/ SweepStale(o) \/ UrlExpires(o)
             \/ UNCHANGED vars
      PROVE  task' = task
  BY <1>8 DEF Work, DeleteMeeting, Deadline, Drain, SweepStale, UrlExpires, vars
<1>. QED
  BY <1>3, <1>4, <1>5, <1>6, <1>7, <1>8 DEF Next

-----------------------------------------------------------------------------
(* Steps of upload rows *)

ARow == [status : {"none", "created", "uploading", "complete", "expired", "deleted"},
         key : Keys \cup {None}, late : BOOLEAN]

\* Row v gets a new status; the others stay as they are.
Restatus(v, s) ==
  /\ up' \in [Uploads -> ARow]
  /\ up'[v].status = s /\ up'[v].late = up[v].late
  /\ \A u \in Uploads \ {v} : up'[u] = up[u]

\* The status is written.
LEMMA StatusWritten ==
  ASSUME TypeOK, NEW v \in Uploads, NEW s \in {"created", "uploading", "complete", "expired", "deleted"},
         up' = [up EXCEPT ![v].status = s]
  PROVE  Restatus(v, s)
<1> DEFINE r == [up[v] EXCEPT !.status = s]
<1>1. up \in [Uploads -> ARow] /\ up[v] \in ARow
  BY DEF TypeOK, ARow
<1>2. r \in ARow /\ r.status = s /\ r.late = up[v].late
  BY <1>1 DEF ARow
<1>3. up' = [up EXCEPT ![v] = r]
  OBVIOUS
<1> HIDE DEF r
<1>. QED
  BY <1>1, <1>2, <1>3 DEF Restatus

\* How a row changes.
Created(v) ==
  /\ up[v].status = "none" /\ up'[v].status = "created" /\ ~up'[v].late
  /\ \A u \in Uploads \ {v} : up'[u] = up[u]
  /\ HasRoom(None)
Expires(v) == Restatus(v, "expired") /\ Exists(v) /\ (IsExpired(v) \/ \E t \in Tasks : Mark(t) /\ task[t].u = v /\ ~task[t].ok)
Takes(v) == Restatus(v, "uploading") /\ Writable(v)
Seals(v) == Restatus(v, "complete") /\ Exists(v) /\ \E t \in Slots : Seal(t) /\ task[t].u = v
Goes(v) == Restatus(v, "deleted") /\ job' = [job EXCEPT ![v] = "none"]
Ages(v) ==
  /\ Exists(v) /\ up'[v].status = up[v].status /\ up'[v].late
  /\ \A u \in Uploads \ {v} : up'[u] = up[u]

\* Every step leaves the rows alone or changes one in one of these ways.
LEMMA RowSteps ==
  ASSUME TypeOK, TaskTypes, Addressed, [Next]_vars
  PROVE  \/ up' = up
         \/ up' \in [Uploads -> ARow]
            /\ \E v \in Uploads : Created(v) \/ Expires(v) \/ Takes(v) \/ Seals(v) \/ Goes(v) \/ Ages(v)
<1> DEFINE P == \/ up' = up
                \/ up' \in [Uploads -> ARow]
                   /\ \E v \in Uploads : Created(v) \/ Expires(v) \/ Takes(v) \/ Seals(v) \/ Goes(v) \/ Ages(v)
<1>0. ASSUME NEW v \in Uploads, NEW s, Restatus(v, s) PROVE up' \in [Uploads -> ARow]
  BY <1>0 DEF Restatus
<1>1. ASSUME NEW t \in Tasks, NeedsUpload(task[t].pc)
      PROVE  task[t].u \in Uploads
  BY <1>1 DEF Addressed
<1>2. Slots \subseteq Tasks /\ Cleaner \in Tasks
  BY CleanerApart
<1>3. ASSUME NEW t \in Slots, Lookup(t) PROVE P
  <2>1. CASE up' = up
    BY <2>1
  <2>2. CASE up' # up
    <3>1. PICK v \in Owners(key[t[1]]) : IsExpired(v) /\ up' = [up EXCEPT ![v].status = "expired"]
      BY <1>3, <2>2 DEF Lookup
    <3>2. v \in Uploads /\ Exists(v)
      BY DEF Owners
    <3>3. Restatus(v, "expired")
      BY <3>1, <3>2, StatusWritten
    <3>. QED
      BY <1>0, <3>1, <3>2, <3>3 DEF Expires
  <2>. QED
    BY <2>1, <2>2
<1>4. ASSUME NEW t \in Slots, Reserve(t) PROVE P
  <2>1. CASE up' = up
    BY <2>1
  <2>2. CASE up' # up
    <3>1. /\ HasRoom(key[t[1]]) /\ \E u \in Uploads : up[u].status = "none"
          /\ up' = [up EXCEPT ![FreshUpload] = [status |-> "created", key |-> key[t[1]], late |-> FALSE]]
      BY <1>4, <2>2 DEF Reserve
    <3>2. FreshUpload \in Uploads /\ up[FreshUpload].status = "none"
      BY <3>1, Fresh
    <3>3. t[1] \in Clients
      BY DEF Slots
    <3>4. [status |-> "created", key |-> key[t[1]], late |-> FALSE] \in ARow
      BY <3>3 DEF ARow, TypeOK
    <3>5. up \in [Uploads -> ARow]
      BY DEF TypeOK, ARow
    <3>6. HasRoom(None)
      BY <3>1 DEF HasRoom
    <3> HIDE DEF FreshUpload
    <3>. QED
      BY <3>1, <3>2, <3>4, <3>5, <3>6 DEF Created
  <2>. QED
    BY <2>1, <2>2
<1>5. ASSUME NEW t \in Slots, Commit(t) \/ Prepare(t) \/ Adopt(t) PROVE P
  <2>1. CASE up' = up
    BY <2>1
  <2>2. CASE up' # up
    <3>1. Writable(task[t].u) /\ up' = [up EXCEPT ![task[t].u].status = "uploading"]
      BY <1>5, <2>2 DEF Commit, Prepare, Adopt, Uploading
    <3>2. task[t].u \in Uploads
      BY <1>1, <1>2, <1>5 DEF Commit, Prepare, Adopt, At, NeedsUpload
    <3>. QED
      BY <1>0, <3>1, <3>2, StatusWritten DEF Takes
  <2>. QED
    BY <2>1, <2>2
<1>6. ASSUME NEW t \in Slots, Seal(t) PROVE P
  <2>1. CASE ~Exists(task[t].u)
    BY <1>6, <2>1 DEF Seal
  <2>2. CASE Exists(task[t].u)
    <3>1. up' = [up EXCEPT ![task[t].u].status = "complete"]
      BY <1>6, <2>2 DEF Seal
    <3>2. task[t].u \in Uploads
      BY <1>1, <1>2, <1>6 DEF Seal, At, NeedsUpload
    <3>. QED
      BY <1>0, <1>6, <2>2, <3>1, <3>2, StatusWritten DEF Seals
  <2>. QED
    BY <2>1, <2>2
<1>7. ASSUME NEW t \in Tasks, Mark(t) PROVE P
  <2>1. task[t].u \in Uploads
    BY <1>1, <1>7 DEF Mark, At, NeedsUpload
  <2>2. CASE up' = up
    BY <2>2
  <2>3. CASE up' # up /\ task[t].ok
    <3>1. up' = [up EXCEPT ![task[t].u].status = "deleted"] /\ job' = [job EXCEPT ![task[t].u] = "none"]
      BY <1>7, <2>3 DEF Mark, Removed
    <3>. QED
      BY <1>0, <2>1, <3>1, StatusWritten DEF Goes
  <2>4. CASE up' # up /\ ~task[t].ok
    <3>1. up' = [up EXCEPT ![task[t].u].status = "expired"] /\ Exists(task[t].u)
      BY <1>7, <2>4 DEF Mark
    <3>. QED
      BY <1>0, <1>7, <2>1, <2>4, <3>1, StatusWritten DEF Expires
  <2>. QED
    BY <2>2, <2>3, <2>4
<1>8. ASSUME Discard PROVE P
  <2>1. task[Cleaner].u \in Uploads
    BY <1>1, <1>2, <1>8 DEF Discard, At, NeedsUpload
  <2>2. CASE up[task[Cleaner].u].status = "expired"
    <3>1. up' = [up EXCEPT ![task[Cleaner].u].status = "deleted"] /\ job' = [job EXCEPT ![task[Cleaner].u] = "none"]
      BY <1>8, <2>2 DEF Discard
    <3>. QED
      BY <1>0, <2>1, <3>1, StatusWritten DEF Goes
  <2>3. CASE up[task[Cleaner].u].status # "expired"
    BY <1>8, <2>3 DEF Discard
  <2>. QED
    BY <2>2, <2>3
<1>9. ASSUME NEW u \in Uploads, DeleteMeeting(u) PROVE P
  <2>1. up' = [up EXCEPT ![u].status = "deleted"] /\ job' = [job EXCEPT ![u] = "none"]
    BY <1>9 DEF DeleteMeeting, Removed
  <2>. QED
    BY <1>0, <2>1, StatusWritten DEF Goes
<1>10. ASSUME NEW u \in Uploads, Deadline(u) PROVE P
  <2> DEFINE r == [up[u] EXCEPT !.late = TRUE]
  <2>1. up \in [Uploads -> ARow] /\ up[u] \in ARow
    BY DEF TypeOK, ARow
  <2>2. r \in ARow /\ r.status = up[u].status /\ r.late
    BY <2>1 DEF ARow
  <2>3. up' = [up EXCEPT ![u] = r] /\ Exists(u)
    BY <1>10 DEF Deadline
  <2> HIDE DEF r
  <2>. QED
    BY <2>1, <2>2, <2>3 DEF Ages
<1>11. ASSUME NEW t \in Slots, Serve(t) PROVE P
  <2>1. CASE Put(t) \/ Drop(t) \/ Sign(t) \/ DirectPut(t) \/ Finish(t) \/ Check(t) \/ Enqueue(t) \/ Insert(t)
    BY <2>1 DEF Put, Drop, Sign, DirectPut, Finish, Check, Enqueue, Insert, db
  <2>. QED
    BY <1>3, <1>4, <1>5, <1>6, <1>11, <2>1 DEF Serve
<1>12. ASSUME \/ \E c \in Clients : Send(c) \/ GiveUp(c) \/ Forget(c) \/ Receive(c)
              \/ \E t \in Tasks : Purge(t) \/ PurgeObjects(t) \/ PurgeRows(t)
              \/ \E u \in Uploads : Work(u) \/ Sweep(u)
              \/ \E o \in Objects : Drain(o) \/ SweepStale(o) \/ UrlExpires(o)
              \/ UNCHANGED vars
       PROVE  up' = up
  BY <1>12 DEF Send, GiveUp, Forget, Receive, Purge, PurgeObjects, PurgeRows, Work, Sweep, Drain, SweepStale,
     UrlExpires, vars, db
<1> HIDE DEF P
<1>13. P
  <2>1. ASSUME up' = up PROVE P
    BY <2>1 DEF P
  <2>. QED
    BY <1>7, <1>8, <1>9, <1>10, <1>11, <1>12, <2>1 DEF Next
<1>. QED
  BY <1>13 DEF P

\* No step takes back that a row is closed, late, refused, deleted or done.
LEMMA Forward ==
  ASSUME TypeOK, TaskTypes, Addressed, Closing, [Next]_vars, NEW u \in Uploads
  PROVE  /\ up[u].late => up'[u].late
         /\ up[u].status = "deleted" => up'[u].status = "deleted"
         /\ up[u].status \in {"complete", "expired", "deleted"} => up'[u].status \in {"complete", "expired", "deleted"}
         /\ u \in refused => u \in refused'
         /\ job[u] = "complete" => job'[u] = "complete" \/ up'[u].status = "deleted"
         /\ Closed(u) => Closed(u)'
         /\ Ending(u) => Ending(u)'
<1>1. /\ up[u].late => up'[u].late
      /\ up[u].status = "deleted" => up'[u].status = "deleted"
      /\ up[u].status \in {"complete", "expired", "deleted"} => up'[u].status \in {"complete", "expired", "deleted"}
  <2>1. CASE up' = up
    BY <2>1
  <2>2. CASE up' # up
    <3>1. PICK v \in Uploads : Created(v) \/ Expires(v) \/ Takes(v) \/ Seals(v) \/ Goes(v) \/ Ages(v)
      BY <2>2, RowSteps
    <3>2. CASE u # v
      BY <3>1, <3>2 DEF Created, Expires, Takes, Seals, Goes, Ages, Restatus
    <3>3. CASE u = v
      <4>1. CASE Created(v)
        BY <3>3, <4>1 DEF Created, Closing
      <4>2. CASE ~Created(v)
        BY <3>1, <3>3, <4>2 DEF Expires, Takes, Seals, Goes, Ages, Restatus, Exists, Writable
      <4>. QED
        BY <4>1, <4>2
    <3>. QED
      BY <3>2, <3>3
  <2>. QED
    BY <2>1, <2>2
<1>2. u \in refused => u \in refused'
  <2>1. CASE \E t \in Slots : Enqueue(t)
    BY <2>1, DirectMoves
  <2>2. CASE ~ \E t \in Slots : Enqueue(t)
    BY <2>2 DEF Next, Serve, Send, GiveUp, Forget, Receive, Lookup, Reserve, Put, Commit, Drop, Prepare, Sign, DirectPut,
       Finish, Adopt, Check, Seal, Insert, Purge, PurgeObjects, PurgeRows, Mark, Work, Sweep, DeleteMeeting, Deadline,
       Drain, SweepStale, UrlExpires, Discard, vars
  <2>. QED
    BY <2>1, <2>2
<1>3. job[u] = "complete" => job'[u] = "complete" \/ up'[u].status = "deleted"
  <2> SUFFICES ASSUME job[u] = "complete" PROVE job'[u] = "complete" \/ up'[u].status = "deleted"
    OBVIOUS
  <2>0. job \in [Uploads -> {"none", "queued", "running", "complete", "error"}]
    BY DEF TypeOK
  <2>1. CASE job' = job
    BY <2>1
  <2>2. CASE \E t \in Slots : Insert(t)
    BY <2>0, <2>2 DEF Insert
  <2>3. CASE \E v \in Uploads : Work(v)
    BY <2>0, <2>3 DEF Work
  <2>4. CASE \E v \in Uploads : Sweep(v)
    BY <2>0, <2>4 DEF Sweep
  <2>5. ASSUME NEW v \in Uploads, up' = [up EXCEPT ![v].status = "deleted"], job' = [job EXCEPT ![v] = "none"]
        PROVE  job'[u] = "complete" \/ up'[u].status = "deleted"
    <3>1. Restatus(v, "deleted")
      BY <2>5, StatusWritten
    <3>. QED
      BY <2>0, <2>5, <3>1 DEF Restatus
  <2>6. CASE \E v \in Uploads : DeleteMeeting(v)
    BY <2>5, <2>6 DEF DeleteMeeting, Removed
  <2>7. CASE Discard
    <3>1. task[Cleaner].u \in Uploads
      BY <2>7, CleanerApart DEF Discard, Addressed, At, NeedsUpload
    <3>2. \/ job' = job
          \/ up' = [up EXCEPT ![task[Cleaner].u].status = "deleted"] /\ job' = [job EXCEPT ![task[Cleaner].u] = "none"]
      BY <2>7 DEF Discard
    <3>. QED
      BY <2>1, <2>5, <3>1, <3>2
  <2>8. CASE \E t \in Tasks : Mark(t)
    <3>1. PICK t \in Tasks : Mark(t)
      BY <2>8
    <3>2. task[t].u \in Uploads
      BY <3>1 DEF Mark, Addressed, At, NeedsUpload
    <3>3. \/ job' = job
          \/ up' = [up EXCEPT ![task[t].u].status = "deleted"] /\ job' = [job EXCEPT ![task[t].u] = "none"]
      BY <3>1 DEF Mark, Removed
    <3>. QED
      BY <2>1, <2>5, <3>2, <3>3
  <2>9. CASE /\ ~ (\E t \in Slots : Insert(t)) /\ ~ (\E v \in Uploads : Work(v) \/ Sweep(v) \/ DeleteMeeting(v))
             /\ ~Discard /\ ~ (\E t \in Tasks : Mark(t))
    <3>1. job' = job
      BY <2>9 DEF Next, Serve, Send, GiveUp, Forget, Receive, Lookup, Reserve, Put, Commit, Drop, Prepare, Sign, DirectPut,
         Finish, Adopt, Check, Seal, Enqueue, Purge, PurgeObjects, PurgeRows, Deadline,
         Drain, SweepStale, UrlExpires, vars, db
    <3>. QED
      BY <2>1, <3>1
  <2>. QED
    BY <2>2, <2>3, <2>4, <2>6, <2>7, <2>8, <2>9
<1>4. Closed(u) => Closed(u)'
  BY <1>1 DEF Closed
<1>5. Ending(u) => Ending(u)'
  BY <1>1, <1>2, <1>3 DEF Ending
<1>. QED
  BY <1>1, <1>2, <1>3, <1>4, <1>5

-----------------------------------------------------------------------------
(* Types *)

\* Every step keeps the tasks in their types.
LEMMA TaskTypesStep ==
  ASSUME TypeOK, TaskTypes, Addressed, [Next]_vars
  PROVE  TaskTypes'
<1>1. ASSUME NEW t \in Tasks, NEW pc, NEW u, NEW i, NEW o, NEW seen, NEW ok, Moves(t, pc, u, i, o, seen, ok)
      PROVE  TaskTypes'
  BY <1>1 DEF Moves, TaskTypes
<1>2. ASSUME NEW t \in Tasks, Ends(t) PROVE TaskTypes'
  BY <1>1, <1>2 DEF Ends, Replies
<1>3. ASSUME NEW t \in Slots, Serve(t) PROVE TaskTypes'
  <2>1. t \in Tasks
    BY CleanerApart
  <2>2. ASSUME Replies(t) PROVE TaskTypes'
    BY <1>2, <2>1, <2>2, CleanerApart DEF Ends
  <2>3. CASE Reserve(t) \/ Drop(t) \/ Lookup(t) \/ Put(t) \/ Commit(t)
    BY <1>1, <2>1, <2>2, <2>3, UploadMoves DEF Same
  <2>4. CASE Adopt(t) \/ Seal(t) \/ Insert(t) \/ Prepare(t) \/ Sign(t) \/ DirectPut(t) \/ Finish(t) \/ Check(t) \/ Enqueue(t)
    BY <1>1, <2>1, <2>2, <2>4, DirectMoves DEF Same
  <2>. QED
    BY <1>3, <2>3, <2>4 DEF Serve
<1>4. ASSUME NEW t \in Tasks, Purge(t) \/ PurgeObjects(t) \/ PurgeRows(t) \/ Mark(t) PROVE TaskTypes'
  BY <1>1, <1>2, <1>4, PurgeMoves DEF Same
<1>5. ASSUME Discard \/ \E u \in Uploads : Sweep(u)
      PROVE  TaskTypes'
  BY <1>1, <1>5, OtherMoves, CleanerApart
<1>6. ASSUME NEW c \in Clients, Send(c) \/ Forget(c) \/ Receive(c)
      PROVE  TaskTypes'
  <2>1. <<c, "live">> \in Tasks /\ <<c, "stale">> \in Tasks
    BY DEF Tasks, Slots
  <2>. QED
    BY <1>1, <1>2, <1>6, <2>1, OtherMoves
<1>7. ASSUME NEW c \in Clients, GiveUp(c)
      PROVE  TaskTypes'
  BY <1>7, GiveUpMoves DEF TaskTypes
<1>8. ASSUME \/ \E u \in Uploads : Work(u) \/ DeleteMeeting(u) \/ Deadline(u)
             \/ \E o \in Objects : Drain(o) \/ SweepStale(o) \/ UrlExpires(o)
             \/ UNCHANGED vars
      PROVE  TaskTypes'
  BY <1>8 DEF Work, DeleteMeeting, Deadline, Drain, SweepStale, UrlExpires, vars, TaskTypes
<1>. QED
  BY <1>3, <1>4, <1>5, <1>6, <1>7, <1>8 DEF Next

AClient == [pc : {"manifest", "chunk", "seal", "process", "done", "failed"},
            u : Uploads \cup {None}, i : Index, got : SUBSET Index]

\* A client goes on only with an upload it was told of.
LEMMA NextStepType ==
  ASSUME TypeOK, TaskTypes, Addressed, NEW c \in Clients, task[<<c, "live">>].pc = "reply", task[<<c, "live">>].ok
  PROVE  /\ NextStep(c, task[<<c, "live">>]) \in AClient
         /\ NextStep(c, task[<<c, "live">>]).pc \in {"chunk", "seal", "process"}
              => NextStep(c, task[<<c, "live">>]).u \in Uploads
<1> DEFINE r == task[<<c, "live">>]
           done == CASE client[c].pc = "manifest" -> {i \in Index : chunk[r.u][i] # None}
                     [] client[c].pc = "chunk" -> client[c].got \cup {r.i}
                     [] OTHER -> client[c].got
           rest == Index \ done
           pc == CASE client[c].pc = "process" -> "done"
                   [] client[c].pc = "seal" -> "process"
                   [] client[c].pc = "manifest" /\ up[r.u].status = "complete" -> "process"
                   [] rest = {} -> "seal"
                   [] OTHER -> "chunk"
<1>1. <<c, "live">> \in Slots /\ <<c, "live">> \in Tasks
  BY DEF Slots, Tasks
<1>2. r.u \in Uploads /\ r.i \in Index
  BY <1>1 DEF Addressed
<1>3. 0 \in Index /\ None \in Uploads \cup {None}
  BY UploadsAssumption DEF Index
<1>4. client[c] \in AClient
  BY DEF TypeOK, AClient
<1>5. done \subseteq Index
  BY <1>2, <1>4 DEF AClient
<1>6. pc \in {"process", "seal", "chunk", "done"}
  BY <1>4 DEF AClient
<1>7. NextMissing(rest) \in Index
  BY <1>3 DEF NextMissing
<1>8. NextStep(c, r) = IF pc = "done" THEN Started("done")
                       ELSE [pc |-> pc, u |-> r.u, i |-> NextMissing(rest), got |-> done]
  BY DEF NextStep
<1> HIDE DEF done, rest, pc, r
<1>9. CASE pc = "done"
  <2>1. NextStep(c, r) = Started("done")
    BY <1>8, <1>9
  <2>. QED
    BY <1>3, <2>1 DEF Started, AClient, r
<1>10. CASE pc # "done"
  <2>1. NextStep(c, r) = [pc |-> pc, u |-> r.u, i |-> NextMissing(rest), got |-> done]
    BY <1>8, <1>10
  <2>. QED
    BY <1>2, <1>5, <1>6, <1>7, <2>1 DEF AClient, r
<1>. QED
  BY <1>9, <1>10

\* The clients.
LEMMA ClientStep ==
  ASSUME TypeOK, TaskTypes, Addressed, [Next]_vars
  PROVE  /\ client' \in [Clients -> AClient]
         /\ \A c \in Clients : client'[c].pc \in {"chunk", "seal", "process"} => client'[c].u \in Uploads
<1>0. client \in [Clients -> AClient]
  BY DEF TypeOK, AClient
<1>1. CASE client' = client
  BY <1>0, <1>1 DEF Addressed
<1>2. ASSUME NEW c \in Clients, Receive(c)
      PROVE  /\ client' \in [Clients -> AClient]
             /\ \A d \in Clients : client'[d].pc \in {"chunk", "seal", "process"} => client'[d].u \in Uploads
  <2>1. ASSUME NEW r \in AClient, client' = [client EXCEPT ![c] = r], r.pc \in {"chunk", "seal", "process"} => r.u \in Uploads
        PROVE  /\ client' \in [Clients -> AClient]
               /\ \A d \in Clients : client'[d].pc \in {"chunk", "seal", "process"} => client'[d].u \in Uploads
    BY <1>0, <2>1 DEF Addressed
  <2>2. \A pc \in {"failed", "manifest"} : Started(pc) \in AClient /\ Started(pc).pc = pc
    BY UploadsAssumption DEF Started, AClient, Index
  <2>3. CASE task[<<c, "live">>].ok
    <3>1. client' = [client EXCEPT ![c] = NextStep(c, task[<<c, "live">>])] /\ task[<<c, "live">>].pc = "reply"
      BY <1>2, <2>3 DEF Receive
    <3>. QED
      BY <2>1, <2>3, <3>1, NextStepType
  <2>4. CASE ~task[<<c, "live">>].ok
    <3>1. \E pc \in {"failed", "manifest"} : client' = [client EXCEPT ![c] = Started(pc)]
      BY <1>2, <2>4 DEF Receive
    <3>. QED
      BY <2>1, <2>2, <3>1
  <2>. QED
    BY <2>3, <2>4
<1>3. CASE ~ \E c \in Clients : Receive(c)
  <2>1. client' = client
    BY <1>3 DEF Next, Serve, Send, GiveUp, Forget, Lookup, Reserve, Put, Commit, Drop, Prepare, Sign, DirectPut,
         Finish, Adopt, Check, Seal, Enqueue, Insert, Purge, PurgeObjects, PurgeRows, Mark, Work, Sweep, DeleteMeeting,
         Deadline, Drain, SweepStale, UrlExpires, Discard, vars
  <2>. QED
    BY <1>1, <2>1
<1>. QED
  BY <1>2, <1>3

\* The requests and the clients know their uploads.
LEMMA AddressedStep ==
  ASSUME TypeOK, TaskTypes, Addressed, [Next]_vars
  PROVE  Addressed'
<1>1. \A c \in Clients : client'[c].pc \in {"chunk", "seal", "process"} => client'[c].u \in Uploads
  BY ClientStep
<1>2. ASSUME NEW t \in Tasks
      PROVE  /\ NeedsUpload(task'[t].pc) => task'[t].u \in Uploads
             /\ t \in Slots => task'[t].i \in Index
             /\ task'[t].pc = "reply" /\ task'[t].ok => task'[t].u \in Uploads
             /\ t = Cleaner => task'[t].pc \in {"idle", "purge", "objects", "rows", "mark", "discard"}
  <2>1. CASE Kept(t)
    BY <2>1 DEF Kept, Addressed
  <2>2. CASE Taken(t)
    <3>1. PICK c \in Clients : t = <<c, "stale">> /\ GiveUp(c)
      BY <2>2 DEF Taken
    <3>2. task'[t] = task[<<c, "live">>] /\ <<c, "live">> \in Slots /\ t \in Slots
      BY <3>1, GiveUpMoves
    <3>. QED
      BY <3>2, CleanerApart DEF Addressed
  <2>3. CASE Begins(t)
    BY <2>3 DEF Begins, NeedsUpload
  <2>4. CASE Acts(t)
    <3>1. CASE t \in Slots /\ (Lookup(t) \/ Put(t) \/ Commit(t))
      <4>1. Replies(t) => Begins(t)
        BY <3>1, EndsBegins, CleanerApart DEF Ends
      <4>2. task[t].i \in Index /\ (~Lookup(t) => task[t].u \in Uploads)
        BY <3>1 DEF Addressed, Put, Commit, At, NeedsUpload
      <4>. QED
        BY <2>3, <3>1, <4>1, <4>2, UploadMoves, CleanerApart DEF Same, Moves, NeedsUpload
    <3>2. CASE t \in Slots /\ (Prepare(t) \/ Sign(t) \/ DirectPut(t) \/ Finish(t) \/ Check(t) \/ Enqueue(t))
      <4>1. Replies(t) => Begins(t)
        BY <3>2, EndsBegins, CleanerApart DEF Ends
      <4>2. task[t].i \in Index /\ task[t].u \in Uploads
        BY <3>2 DEF Addressed, Prepare, Sign, DirectPut, Finish, Check, Enqueue, At, NeedsUpload
      <4>. QED
        BY <2>3, <3>2, <4>1, <4>2, DirectMoves, CleanerApart DEF Same, Moves
    <3>3. CASE Purge(t) \/ PurgeObjects(t) \/ PurgeRows(t) \/ Mark(t)
      <4>1. Ends(t) => Begins(t)
        BY EndsBegins
      <4>2. task[t].u \in Uploads /\ (t \in Slots => task[t].i \in Index)
        BY <3>3 DEF Addressed, Purge, PurgeObjects, PurgeRows, Mark, At, NeedsUpload
      <4>. QED
        BY <2>3, <3>3, <4>1, <4>2, PurgeMoves, CleanerApart DEF Same, Moves
    <3>4. CASE t = Cleaner /\ \E u \in Uploads : Sweep(u)
      BY <3>4, OtherMoves, CleanerApart DEF Moves
    <3>. QED
      BY <2>4, <3>1, <3>2, <3>3, <3>4 DEF Acts
  <2>. QED
    BY <2>1, <2>2, <2>3, <2>4, Origins
<1>. QED
  BY <1>1, <1>2, CleanerApart DEF Addressed

-----------------------------------------------------------------------------
(* Steps of the rows, the reservations and the storage *)

Cells == [Uploads -> [Index -> Objects \cup {None}]]

\* One cell, or all cells of an upload, are written.
CellPut(f, u, i, x) == [f EXCEPT ![u][i] = x]
RowPut(f, u, h) == [f EXCEPT ![u] = h]

\* One cell is written, the others stay.
LEMMA CellWritten ==
  ASSUME NEW f \in Cells, NEW u \in Uploads, NEW i \in Index, NEW x \in Objects \cup {None}
  PROVE  /\ CellPut(f, u, i, x) \in Cells /\ CellPut(f, u, i, x)[u][i] = x
         /\ \A v \in Uploads : \A j \in Index : v # u \/ j # i => CellPut(f, u, i, x)[v][j] = f[v][j]
<1> DEFINE h == [f[u] EXCEPT ![i] = x]
<1>1. h \in [Index -> Objects \cup {None}] /\ h[i] = x /\ \A j \in Index : j # i => h[j] = f[u][j]
  BY DEF Cells
<1>2. CellPut(f, u, i, x) = [f EXCEPT ![u] = h]
  BY DEF CellPut
<1> HIDE DEF h
<1>. QED
  BY <1>1, <1>2 DEF Cells

\* The cells of one upload are written, the others stay.
LEMMA RowWritten ==
  ASSUME NEW f \in Cells, NEW u \in Uploads, NEW h \in [Index -> Objects \cup {None}]
  PROVE  /\ RowPut(f, u, h) \in Cells /\ RowPut(f, u, h)[u] = h
         /\ \A v \in Uploads : v # u => RowPut(f, u, h)[v] = f[v]
BY DEF Cells, RowPut

\* A row is committed, a reservation made, a reservation becomes a row, rows go.
Commits(t) ==
  /\ t \in Slots /\ task[t].pc = "commit" /\ Replies(t)
  /\ Writable(task[t].u) /\ chunk[task[t].u][task[t].i] = None /\ ticket[task[t].u][task[t].i] = None
  /\ chunk' \in Cells /\ ticket' = ticket
  /\ chunk'[task[t].u][task[t].i] = task[t].o
  /\ \A v \in Uploads : \A j \in Index : v # task[t].u \/ j # task[t].i => chunk'[v][j] = chunk[v][j]
  /\ UNCHANGED <<later, object, used, url>>
Reserves(t) ==
  /\ t \in Slots /\ task[t].pc = "prepare" /\ Writable(task[t].u)
  /\ chunk[task[t].u][task[t].i] = None /\ ticket[task[t].u][task[t].i] = None
  /\ FreshObject \in Objects \ used
  /\ Moves(t, "sign", task[t].u, task[t].i, FreshObject, task[t].seen, task[t].ok)
  /\ chunk' = chunk /\ ticket' \in Cells
  /\ ticket'[task[t].u][task[t].i] = FreshObject
  /\ \A v \in Uploads : \A j \in Index : v # task[t].u \/ j # task[t].i => ticket'[v][j] = ticket[v][j]
  /\ used' = used \cup {FreshObject}
  /\ UNCHANGED <<later, object, url>>
Adopts(t) ==
  /\ t \in Slots /\ task[t].pc = "adopt" /\ Replies(t)
  /\ Writable(task[t].u)
  /\ chunk[task[t].u][task[t].i] # None \/ ticket[task[t].u][task[t].i] = task[t].o
  /\ chunk' \in Cells /\ ticket' \in Cells
  /\ chunk'[task[t].u][task[t].i] =
       IF chunk[task[t].u][task[t].i] = None THEN task[t].o ELSE chunk[task[t].u][task[t].i]
  /\ ticket'[task[t].u][task[t].i] =
       IF ticket[task[t].u][task[t].i] = task[t].o THEN None ELSE ticket[task[t].u][task[t].i]
  /\ \A v \in Uploads : \A j \in Index : v # task[t].u \/ j # task[t].i =>
       chunk'[v][j] = chunk[v][j] /\ ticket'[v][j] = ticket[v][j]
  /\ UNCHANGED <<later, object, used, url>>
Clears(t) ==
  /\ t \in Tasks /\ task[t].pc = "rows" /\ Same(t, "mark")
  /\ chunk' \in Cells /\ ticket' \in Cells
  /\ \A v \in Uploads : \A j \in Index :
       /\ chunk'[v][j] = IF v = task[t].u /\ chunk[v][j] \in task[t].seen THEN None ELSE chunk[v][j]
       /\ ticket'[v][j] = IF v = task[t].u /\ ticket[v][j] \in task[t].seen THEN None ELSE ticket[v][j]
  /\ UNCHANGED <<later, object, used, url>>
Deletes(u) ==
  /\ u \in Uploads /\ Exists(u) /\ Goes(u) /\ task' = task
  /\ chunk' \in Cells /\ ticket' \in Cells
  /\ \A v \in Uploads : \A j \in Index :
       /\ chunk'[v][j] = IF v = u THEN None ELSE chunk[v][j]
       /\ ticket'[v][j] = IF v = u THEN None ELSE ticket[v][j]
  /\ later' = later \cup Staged(u)
  /\ UNCHANGED <<object, used, url>>

\* An object is written, a request drops its own, a URL is signed, used, or dies, ...
Writes(t) ==
  /\ t \in Slots /\ task[t].pc = "put" /\ FreshObject \in Objects \ used
  /\ Moves(t, "commit", task[t].u, task[t].i, FreshObject, task[t].seen, task[t].ok)
  /\ object' = object \cup {FreshObject} /\ used' = used \cup {FreshObject}
  /\ UNCHANGED <<chunk, ticket, later, url>>
Forgets(t) ==
  /\ t \in Slots /\ task[t].pc = "drop" /\ Replies(t)
  /\ object' = object \ {task[t].o}
  /\ UNCHANGED <<chunk, ticket, later, used, url>>
Signs(t) ==
  /\ t \in Slots /\ task[t].pc = "sign" /\ Same(t, "upload")
  /\ Writable(task[t].u)
  /\ ticket[task[t].u][task[t].i] = task[t].o
  /\ url' = url \cup {task[t].o}
  /\ UNCHANGED <<chunk, ticket, later, object, used>>
Sends(t) ==
  /\ t \in Slots /\ task[t].pc = "upload" /\ Same(t, "finish")
  /\ task[t].o \in url /\ object' = object \cup {task[t].o}
  /\ UNCHANGED <<chunk, ticket, later, used, url>>
\* ... objects are purged, drained, or swept.
Empties(t) ==
  /\ t \in Tasks /\ task[t].pc = "objects" /\ Same(t, "rows")
  /\ object' = object \ task[t].seen
  /\ UNCHANGED <<up, chunk, ticket, later, used, url>>
Drains(o) ==
  /\ o \in later /\ task' = task
  /\ o \notin url /\ object' = object \ {o} /\ later' = later \ {o}
  /\ UNCHANGED <<chunk, ticket, used, url>>
Sweeps(o) ==
  /\ \A u \in Uploads : o \in Staged(u) => up[u].late
  /\ \A t \in Slots : task[t].o # o
  /\ object' = object \ {o} /\ task' = task /\ up' = up
  /\ UNCHANGED <<chunk, ticket, later, used, url>>
Expired(o) ==
  /\ url' = url \ {o} /\ task' = task
  /\ UNCHANGED <<chunk, ticket, later, object, used>>

places == <<chunk, ticket, later, object, used, url>>

\* The rows that were read, and no others, are deleted.
LEMMA PurgeRowsClears ==
  ASSUME TypeOK, TaskTypes, Addressed, NEW t \in Tasks, PurgeRows(t)
  PROVE  Clears(t)
<1>0. chunk \in Cells /\ ticket \in Cells
  BY DEF TypeOK, Cells
<1>1. task[t].pc = "rows" /\ UNCHANGED <<later, object, used, url>> /\ Same(t, "mark")
  BY PurgeMoves DEF PurgeRows, At, storage
<1>2. task[t].u \in Uploads
  BY <1>1 DEF Addressed, NeedsUpload
<1> DEFINE h(f) == [i \in Index |-> IF f[task[t].u][i] \in task[t].seen THEN None ELSE f[task[t].u][i]]
<1>3. chunk' = RowPut(chunk, task[t].u, h(chunk)) /\ ticket' = RowPut(ticket, task[t].u, h(ticket))
  BY DEF PurgeRows, RowPut
<1>4. ASSUME NEW f \in Cells
      PROVE  /\ h(f) \in [Index -> Objects \cup {None}]
             /\ \A j \in Index : h(f)[j] = IF f[task[t].u][j] \in task[t].seen THEN None ELSE f[task[t].u][j]
  BY <1>2 DEF Cells
<1> HIDE DEF h
<1>5. ASSUME NEW f \in Cells, NEW g, g = RowPut(f, task[t].u, h(f))
      PROVE  /\ g \in Cells
             /\ \A v \in Uploads : \A j \in Index :
                  g[v][j] = IF v = task[t].u /\ f[v][j] \in task[t].seen THEN None ELSE f[v][j]
  <2>1. /\ g \in Cells /\ g[task[t].u] = h(f) /\ \A v \in Uploads : v # task[t].u => g[v] = f[v]
    BY <1>2, <1>4, <1>5, RowWritten
  <2>. QED
    BY <1>4, <2>1
<1>6. /\ chunk' \in Cells
      /\ \A v \in Uploads : \A j \in Index :
           chunk'[v][j] = IF v = task[t].u /\ chunk[v][j] \in task[t].seen THEN None ELSE chunk[v][j]
  BY <1>0, <1>3, <1>5
<1>7. /\ ticket' \in Cells
      /\ \A v \in Uploads : \A j \in Index :
           ticket'[v][j] = IF v = task[t].u /\ ticket[v][j] \in task[t].seen THEN None ELSE ticket[v][j]
  BY <1>0, <1>3, <1>5
<1>8. Clears(t)
  BY <1>1, <1>6, <1>7 DEF Clears
<1>. QED
  BY <1>8

\* Every step leaves the places alone or changes them in one of these ways.
LEMMA PlaceSteps ==
  ASSUME TypeOK, TaskTypes, Addressed, [Next]_vars
  PROVE  \/ UNCHANGED places
         \/ \E t \in Tasks : \/ Commits(t) \/ Reserves(t) \/ Adopts(t) \/ Clears(t)
                             \/ Writes(t) \/ Forgets(t) \/ Signs(t) \/ Sends(t) \/ Empties(t)
         \/ \E u \in Uploads : Deletes(u)
         \/ \E o \in Objects : Drains(o) \/ Sweeps(o) \/ Expired(o)
<1> DEFINE P == \/ UNCHANGED places
                \/ \E t \in Tasks : \/ Commits(t) \/ Reserves(t) \/ Adopts(t) \/ Clears(t)
                                    \/ Writes(t) \/ Forgets(t) \/ Signs(t) \/ Sends(t) \/ Empties(t)
                \/ \E u \in Uploads : Deletes(u)
                \/ \E o \in Objects : Drains(o) \/ Sweeps(o) \/ Expired(o)
<1>0. chunk \in Cells /\ ticket \in Cells
  BY DEF TypeOK, Cells
<1>1. ASSUME NEW t \in Tasks, NeedsUpload(task[t].pc)
      PROVE  task[t].u \in Uploads /\ task[t].o \in Objects \cup {None} /\ (t \in Slots => task[t].i \in Index)
  BY <1>1 DEF Addressed, TaskTypes, ATask
<1>2. Slots \subseteq Tasks /\ Cleaner \in Tasks /\ Cleaner \notin Slots
  BY CleanerApart
<1>3. ASSUME NEW t \in Slots, Commit(t) PROVE P
  <2>1. task[t].pc = "commit" /\ UNCHANGED <<ticket, later, object, used, url>>
    BY <1>3 DEF Commit, At, storage
  <2>2. task[t].u \in Uploads /\ task[t].i \in Index /\ task[t].o \in Objects \cup {None}
    BY <1>1, <1>2, <2>1 DEF NeedsUpload
  <2>3. \/ chunk' = chunk
        \/ /\ Writable(task[t].u) /\ chunk[task[t].u][task[t].i] = None /\ ticket[task[t].u][task[t].i] = None
           /\ chunk' = [chunk EXCEPT ![task[t].u][task[t].i] = task[t].o] /\ Reply(t, TRUE)
    BY <1>3 DEF Commit
  <2>4. CASE chunk' = chunk
    BY <2>1, <2>4 DEF places
  <2>5. CASE /\ Writable(task[t].u) /\ chunk[task[t].u][task[t].i] = None /\ ticket[task[t].u][task[t].i] = None
             /\ chunk' = [chunk EXCEPT ![task[t].u][task[t].i] = task[t].o] /\ Reply(t, TRUE)
    <3>1. Replies(t)
      BY <1>2, <2>1, <2>5, ReplyEnds DEF NeedsUpload
    <3>2. /\ chunk' \in Cells /\ chunk'[task[t].u][task[t].i] = task[t].o
          /\ \A v \in Uploads : \A j \in Index : v # task[t].u \/ j # task[t].i => chunk'[v][j] = chunk[v][j]
      <4>1. chunk' = CellPut(chunk, task[t].u, task[t].i, task[t].o)
        BY <2>5 DEF CellPut
      <4>. QED
        BY <1>0, <2>2, <4>1, CellWritten
    <3>3. Commits(t)
      BY <2>1, <2>5, <3>1, <3>2 DEF Commits
    <3>. QED
      BY <1>2, <3>3
  <2>. QED
    BY <2>3, <2>4, <2>5
<1>4. ASSUME NEW t \in Slots, Prepare(t) PROVE P
  <2>1. task[t].pc = "prepare" /\ UNCHANGED <<chunk, later, object, url>>
    BY <1>4 DEF Prepare, At
  <2>2. task[t].u \in Uploads /\ task[t].i \in Index
    BY <1>1, <1>2, <2>1 DEF NeedsUpload
  <2>3. CASE UNCHANGED <<ticket, used>>
    BY <2>1, <2>3 DEF places
  <2>4. CASE ~UNCHANGED <<ticket, used>>
    <3>1. /\ chunk[task[t].u][task[t].i] = None /\ ticket[task[t].u][task[t].i] = None
          /\ FreshObject \in Objects \ used
          /\ ticket' = [ticket EXCEPT ![task[t].u][task[t].i] = FreshObject]
          /\ used' = used \cup {FreshObject}
          /\ Moves(t, "sign", task[t].u, task[t].i, FreshObject, task[t].seen, task[t].ok)
      BY <1>4, <2>4, DirectMoves
    <3>2. Writable(task[t].u)
      BY <1>4, <2>4 DEF Prepare
    <3>3. /\ ticket' \in Cells /\ ticket'[task[t].u][task[t].i] = FreshObject
          /\ \A v \in Uploads : \A j \in Index : v # task[t].u \/ j # task[t].i => ticket'[v][j] = ticket[v][j]
      <4>1. ticket' = CellPut(ticket, task[t].u, task[t].i, FreshObject) /\ FreshObject \in Objects \cup {None}
        BY <3>1 DEF CellPut
      <4>. QED
        BY <1>0, <2>2, <4>1, CellWritten
    <3>4. Reserves(t)
      BY <2>1, <3>1, <3>2, <3>3 DEF Reserves
    <3>. QED
      BY <1>2, <3>4
  <2>. QED
    BY <2>3, <2>4
<1>5. ASSUME NEW t \in Slots, Adopt(t) PROVE P
  <2>1. task[t].pc = "adopt" /\ UNCHANGED <<later, object, used, url>>
    BY <1>5 DEF Adopt, At, storage
  <2>2. task[t].u \in Uploads /\ task[t].i \in Index /\ task[t].o \in Objects \cup {None}
    BY <1>1, <1>2, <2>1 DEF NeedsUpload
  <2>3. CASE UNCHANGED <<chunk, ticket>>
    BY <2>1, <2>3 DEF places
  <2>4. CASE ~UNCHANGED <<chunk, ticket>>
    <3> DEFINE u == task[t].u
               i == task[t].i
               o == task[t].o
               x == IF chunk[u][i] = None THEN o ELSE chunk[u][i]
               y == IF ticket[u][i] = o THEN None ELSE ticket[u][i]
    <3>1. /\ Writable(u) /\ (chunk[u][i] # None \/ ticket[u][i] = o)
          /\ chunk' = [chunk EXCEPT ![u][i] = x]
          /\ ticket' = [ticket EXCEPT ![u][i] = y]
      BY <1>5, <2>4 DEF Adopt
    <3>2. chunk[u][i] \in Objects \cup {None} /\ ticket[u][i] \in Objects \cup {None}
      BY <1>0, <2>2 DEF Cells
    <3>3. x \in Objects \cup {None} /\ y \in Objects \cup {None}
      BY <2>2, <3>2
    <3>4. Replies(t)
      BY <1>5, DirectMoves
    <3>5. u \in Uploads /\ i \in Index
      BY <2>2
    <3>6. /\ chunk' \in Cells /\ chunk'[u][i] = x
          /\ \A v \in Uploads : \A j \in Index : v # u \/ j # i => chunk'[v][j] = chunk[v][j]
      <4> HIDE DEF u, i, o, x, y
      <4>1. chunk' = CellPut(chunk, u, i, x)
        BY <3>1 DEF CellPut
      <4>. QED
        BY <1>0, <3>3, <3>5, <4>1, CellWritten
    <3>7. /\ ticket' \in Cells /\ ticket'[u][i] = y
          /\ \A v \in Uploads : \A j \in Index : v # u \/ j # i => ticket'[v][j] = ticket[v][j]
      <4> HIDE DEF u, i, o, x, y
      <4>1. ticket' = CellPut(ticket, u, i, y)
        BY <3>1 DEF CellPut
      <4>. QED
        BY <1>0, <3>3, <3>5, <4>1, CellWritten
    <3>8. Adopts(t)
      BY <2>1, <3>1, <3>4, <3>6, <3>7 DEF Adopts
    <3>. QED
      BY <1>2, <3>8
  <2>. QED
    BY <2>3, <2>4
<1>6. ASSUME NEW t \in Tasks, PurgeRows(t) PROVE P
  BY <1>6, PurgeRowsClears
<1>7. ASSUME NEW u \in Uploads, DeleteMeeting(u) PROVE P
  <2> DEFINE h == [i \in Index |-> None]
  <2>1. chunk' = RowPut(chunk, u, h) /\ ticket' = RowPut(ticket, u, h)
    BY <1>7 DEF DeleteMeeting, RowPut
  <2>2. /\ Exists(u) /\ later' = later \cup Staged(u) /\ UNCHANGED <<object, used, url, task>>
        /\ up' = [up EXCEPT ![u].status = "deleted"] /\ job' = [job EXCEPT ![u] = "none"]
    BY <1>7 DEF DeleteMeeting, storage, Removed
  <2>3. h \in [Index -> Objects \cup {None}] /\ \A j \in Index : h[j] = None
    OBVIOUS
  <2> HIDE DEF h
  <2>4. Goes(u)
    BY <2>2, StatusWritten DEF Goes
  <2>5. ASSUME NEW f \in Cells, NEW g, g = RowPut(f, u, h)
        PROVE  /\ g \in Cells
               /\ \A v \in Uploads : \A j \in Index : g[v][j] = IF v = u THEN None ELSE f[v][j]
    <3>1. /\ g \in Cells /\ g[u] = h /\ \A v \in Uploads : v # u => g[v] = f[v]
      BY <2>3, <2>5, RowWritten
    <3>. QED
      BY <2>3, <3>1
  <2>6. /\ chunk' \in Cells
        /\ \A v \in Uploads : \A j \in Index : chunk'[v][j] = IF v = u THEN None ELSE chunk[v][j]
    BY <1>0, <2>1, <2>5
  <2>7. /\ ticket' \in Cells
        /\ \A v \in Uploads : \A j \in Index : ticket'[v][j] = IF v = u THEN None ELSE ticket[v][j]
    BY <1>0, <2>1, <2>5
  <2>8. Deletes(u)
    BY <2>2, <2>4, <2>6, <2>7 DEF Deletes
  <2>. QED
    BY <2>8
<1>8. ASSUME NEW t \in Slots, Put(t) PROVE P
  <2>1. task[t].pc = "put" /\ UNCHANGED <<chunk, ticket, later, url>>
    BY <1>8 DEF Put, At, db
  <2>2. CASE UNCHANGED <<object, used>>
    BY <2>1, <2>2 DEF places
  <2>3. CASE ~UNCHANGED <<object, used>>
    <3>1. Writes(t)
      BY <1>8, <2>1, <2>3, UploadMoves DEF Writes
    <3>. QED
      BY <1>2, <3>1
  <2>. QED
    BY <2>2, <2>3
<1>9. ASSUME NEW t \in Slots, Drop(t) PROVE P
  <2>1. task[t].pc = "drop" /\ UNCHANGED <<chunk, ticket, later, used, url>> /\ Replies(t)
    BY <1>9, UploadMoves DEF Drop, At, db
  <2>2. object' = object \/ object' = object \ {task[t].o}
    BY <1>9 DEF Drop
  <2>3. CASE object' = object
    BY <2>1, <2>3 DEF places
  <2>4. CASE object' = object \ {task[t].o}
    <3>1. Forgets(t)
      BY <2>1, <2>4 DEF Forgets
    <3>. QED
      BY <1>2, <3>1
  <2>. QED
    BY <2>2, <2>3, <2>4
<1>10. ASSUME NEW t \in Slots, Sign(t) PROVE P
  <2>1. task[t].pc = "sign" /\ UNCHANGED <<chunk, ticket, later, object, used>>
    BY <1>10 DEF Sign, At, db
  <2>2. CASE url' = url
    BY <2>1, <2>2 DEF places
  <2>3. CASE url' # url
    <3>1. Signs(t)
      BY <1>10, <2>1, <2>3, DirectMoves DEF Signs
    <3>. QED
      BY <1>2, <3>1
  <2>. QED
    BY <2>2, <2>3
<1>11. ASSUME NEW t \in Slots, DirectPut(t) PROVE P
  <2>1. task[t].pc = "upload" /\ UNCHANGED <<chunk, ticket, later, used, url>>
    BY <1>11 DEF DirectPut, At, db
  <2>2. CASE object' = object
    BY <2>1, <2>2 DEF places
  <2>3. CASE object' # object
    <3>1. Sends(t)
      BY <1>11, <2>1, <2>3, DirectMoves DEF Sends
    <3>. QED
      BY <1>2, <3>1
  <2>. QED
    BY <2>2, <2>3
<1>12. ASSUME NEW t \in Tasks, PurgeObjects(t) PROVE P
  <2>1. task[t].pc = "objects" /\ UNCHANGED <<up, chunk, ticket, later, used, url>>
    BY <1>12 DEF PurgeObjects, At, db
  <2>2. CASE object' = object
    BY <2>1, <2>2 DEF places
  <2>3. CASE object' # object
    <3>1. Empties(t)
      BY <1>12, <2>1, <2>3, PurgeMoves DEF Empties
    <3>. QED
      BY <3>1
  <2>. QED
    BY <2>2, <2>3
<1>13. ASSUME NEW o \in Objects, Drain(o) \/ SweepStale(o) \/ UrlExpires(o) PROVE P
  <2>1. Drains(o) \/ Sweeps(o) \/ Expired(o)
    BY <1>13 DEF Drain, SweepStale, UrlExpires, Drains, Sweeps, Expired, db
  <2>. QED
    BY <2>1
<1>14. ASSUME NEW t \in Slots, Lookup(t) \/ Reserve(t) \/ Finish(t) \/ Check(t) \/ Seal(t) \/ Enqueue(t) \/ Insert(t)
       PROVE  P
  BY <1>14 DEF Lookup, Reserve, Finish, Check, Seal, Enqueue, Insert, places, db, storage
<1>15. ASSUME NEW t \in Tasks, Purge(t) \/ Mark(t) PROVE P
  BY <1>15 DEF Purge, Mark, places, db, storage
<1>16. ASSUME NEW c \in Clients, Send(c) \/ GiveUp(c) \/ Forget(c) \/ Receive(c) PROVE P
  BY <1>16 DEF Send, GiveUp, Forget, Receive, places, db, storage
<1>17. ASSUME NEW u \in Uploads, Work(u) \/ Sweep(u) \/ Deadline(u) PROVE P
  BY <1>17 DEF Work, Sweep, Deadline, places, db, storage
<1>18. ASSUME Discard \/ UNCHANGED vars PROVE P
  BY <1>18 DEF Discard, places, db, storage, vars
<1> HIDE DEF P
<1>19. ASSUME NEW t \in Slots, Serve(t) PROVE P
  BY <1>3, <1>4, <1>5, <1>8, <1>9, <1>10, <1>11, <1>14, <1>19 DEF Serve
<1>20. ASSUME Next PROVE P
  <2>1. \/ \E c \in Clients : Send(c) \/ GiveUp(c) \/ Forget(c) \/ Receive(c)
        \/ \E t \in Slots : Serve(t)
        \/ \E t \in Tasks : PurgeRows(t) \/ PurgeObjects(t) \/ Purge(t) \/ Mark(t)
        \/ \E u \in Uploads : DeleteMeeting(u) \/ Work(u) \/ Sweep(u) \/ Deadline(u)
        \/ \E o \in Objects : Drain(o) \/ SweepStale(o) \/ UrlExpires(o)
        \/ Discard
    BY <1>20 DEF Next
  <2>2. CASE (\E t \in Tasks : PurgeRows(t) \/ PurgeObjects(t)) \/ \E u \in Uploads : DeleteMeeting(u)
    BY <1>6, <1>7, <1>12, <2>2
  <2>3. CASE (\E t \in Tasks : Purge(t) \/ Mark(t)) \/ \E u \in Uploads : Work(u) \/ Sweep(u) \/ Deadline(u)
    BY <1>15, <1>17, <2>3
  <2>. QED
    BY <1>13, <1>16, <1>18, <1>19, <2>1, <2>2, <2>3
<1>21. P
  BY <1>18, <1>20
<1>. QED
  BY <1>21 DEF P

\* What the rows and the reservations of an upload hold.
LEMMA StagedHolds ==
  ASSUME NEW u \in Uploads, NEW o
  PROVE  o \in Staged(u) <=> o # None /\ \E i \in Index : Holds(u, i, o)
BY DEF Staged, Rows, Tickets, Holds

\* The jobs, the refused uploads and the counter.
LEMMA RestTypes ==
  ASSUME TypeOK, TaskTypes, Addressed, [Next]_vars
  PROVE  /\ job' \in [Uploads -> {"none", "queued", "running", "complete", "error"}]
         /\ refused' \subseteq Uploads /\ faults' \in 0..MaxFaults
<1> DEFINE Jobs == [Uploads -> {"none", "queued", "running", "complete", "error"}]
<1>0. job \in Jobs /\ refused \subseteq Uploads /\ faults \in 0..MaxFaults /\ MaxFaults \in Nat
  BY UploadsAssumption DEF TypeOK
<1>1. job' \in Jobs
  <2>1. CASE job' = job
    BY <1>0, <2>1
  <2>2. CASE job' # job
    <3>1. \E u, s : job' = [job EXCEPT ![u] = s] /\ s \in {"none", "queued", "running", "complete", "error"}
      <4>1. ASSUME NEW u \in Uploads, Sweep(u) \/ Work(u) \/ DeleteMeeting(u)
            PROVE  \E v, s : job' = [job EXCEPT ![v] = s] /\ s \in {"none", "queued", "running", "complete", "error"}
        <5>1. job[u] \in {"none", "queued", "running", "complete", "error"}
          BY <1>0
        <5>2. CASE Sweep(u)
          <6>1. job' = [job EXCEPT ![u] = IF job[u] = "queued" THEN "error" ELSE job[u]]
            BY <5>2 DEF Sweep
          <6>. QED
            BY <5>1, <6>1
        <5>3. CASE Work(u)
          BY <5>3 DEF Work
        <5>4. CASE DeleteMeeting(u)
          BY <5>4 DEF DeleteMeeting
        <5>. QED
          BY <4>1, <5>2, <5>3, <5>4
      <4>2. ASSUME NEW t \in Tasks, Insert(t) \/ Mark(t)
            PROVE  \E v, s : job' = [job EXCEPT ![v] = s] /\ s \in {"none", "queued", "running", "complete", "error"}
        BY <2>2, <4>2 DEF Insert, Mark
      <4>3. ASSUME Discard
            PROVE  \E v, s : job' = [job EXCEPT ![v] = s] /\ s \in {"none", "queued", "running", "complete", "error"}
        BY <2>2, <4>3 DEF Discard
      <4>4. \/ \E u \in Uploads : Sweep(u) \/ Work(u) \/ DeleteMeeting(u)
            \/ \E t \in Tasks : Insert(t) \/ Mark(t)
            \/ Discard
        BY <2>2, CleanerApart DEF Next, Serve, Send, GiveUp, Forget, Receive, Lookup, Reserve, Put, Commit, Drop, Prepare, Sign,
           DirectPut, Finish, Adopt, Check, Seal, Enqueue, Purge, PurgeObjects, PurgeRows, Deadline, Drain,
           SweepStale, UrlExpires, vars, db
      <4>. QED
        BY <4>1, <4>2, <4>3, <4>4
    <3>. QED
      BY <1>0, <3>1
  <2>. QED
    BY <2>1, <2>2
<1>2. refused' \subseteq Uploads
  <2>1. CASE \E t \in Slots : Enqueue(t)
    <3>1. PICK t \in Slots : Enqueue(t)
      BY <2>1
    <3>2. task[t].u \in Uploads
      BY <3>1, CleanerApart DEF Addressed, Enqueue, At, NeedsUpload
    <3>. QED
      BY <1>0, <3>1, <3>2 DEF Enqueue
  <2>2. CASE ~ \E t \in Slots : Enqueue(t)
    <3>1. refused' = refused
      BY <2>2 DEF Next, Serve, Send, GiveUp, Forget, Receive, Lookup, Reserve, Put, Commit, Drop, Prepare, Sign, DirectPut,
         Finish, Adopt, Check, Seal, Insert, Purge, PurgeObjects, PurgeRows, Mark, Work, Sweep, DeleteMeeting,
         Deadline, Drain, SweepStale, UrlExpires, Discard, vars
    <3>. QED
      BY <1>0, <3>1
  <2>. QED
    BY <2>1, <2>2
<1>3. faults' \in 0..MaxFaults
  <2>1. faults' = faults \/ Fault
    BY DEF Next, Serve, Send, GiveUp, Forget, Receive, Lookup, Reserve, Put, Commit, Drop, Prepare, Sign, DirectPut,
       Finish, Adopt, Check, Seal, Enqueue, Insert, Purge, PurgeObjects, PurgeRows, Mark, Work, Sweep, DeleteMeeting,
       Deadline, Drain, SweepStale, UrlExpires, Discard, vars
  <2>. QED
    BY <1>0, <2>1 DEF Fault
<1>. QED
  BY <1>1, <1>2, <1>3

\* The objects: handed out before they are written, signed or queued.
LEMMA StoreTypes ==
  ASSUME TypeOK, TaskTypes, Addressed, OnePlace, [Next]_vars
  PROVE  /\ chunk' \in Cells /\ ticket' \in Cells
         /\ object' \subseteq used' /\ used' \subseteq Objects /\ url' \subseteq used' /\ later' \subseteq used'
<1> DEFINE P == /\ chunk' \in Cells /\ ticket' \in Cells
                /\ object' \subseteq used' /\ used' \subseteq Objects /\ url' \subseteq used' /\ later' \subseteq used'
<1>0. /\ chunk \in Cells /\ ticket \in Cells
      /\ object \subseteq used /\ used \subseteq Objects /\ url \subseteq used /\ later \subseteq used
  BY DEF TypeOK, Cells
<1>1. ASSUME UNCHANGED places PROVE P
  BY <1>0, <1>1 DEF places
<1>2. ASSUME NEW t \in Tasks, Commits(t) \/ Reserves(t) \/ Adopts(t) \/ Clears(t) PROVE P
  BY <1>0, <1>2 DEF Commits, Reserves, Adopts, Clears
<1>3. ASSUME NEW t \in Tasks, Signs(t) PROVE P
  <2>1. task[t].o \in used
    BY <1>3 DEF Signs, OnePlace
  <2>. QED
    BY <1>0, <1>3, <2>1 DEF Signs
<1>4. ASSUME NEW t \in Tasks, Writes(t) \/ Forgets(t) \/ Sends(t) \/ Empties(t) PROVE P
  BY <1>0, <1>4 DEF Writes, Forgets, Sends, Empties
<1>5. ASSUME NEW u \in Uploads, Deletes(u) PROVE P
  <2>1. Staged(u) \subseteq Objects
    BY <1>0 DEF Staged, Rows, Tickets, Cells
  <2>2. Staged(u) \subseteq used
    BY <2>1, StagedHolds DEF OnePlace
  <2>. QED
    BY <1>0, <1>5, <2>2 DEF Deletes
<1>6. ASSUME NEW o \in Objects, Drains(o) \/ Sweeps(o) \/ Expired(o) PROVE P
  BY <1>0, <1>6 DEF Drains, Sweeps, Expired
<1> HIDE DEF P
<1>7. P
  BY <1>1, <1>2, <1>3, <1>4, <1>5, <1>6, PlaceSteps
<1>. QED
  BY <1>7 DEF P

\* Every step keeps the types.
LEMMA TypeStep ==
  ASSUME TypeOK, TaskTypes, Addressed, OnePlace, [Next]_vars
  PROVE  TypeOK'
<1>1. TaskTypes'
  BY TaskTypesStep
<1>2. client' \in [Clients -> AClient]
  BY ClientStep
<1>3. up' \in [Uploads -> ARow]
  BY RowSteps DEF TypeOK, ARow
<1>4. key' = key
  BY DEF Next, Serve, Send, GiveUp, Forget, Receive, Lookup, Reserve, Put, Commit, Drop, Prepare, Sign, DirectPut,
     Finish, Adopt, Check, Seal, Enqueue, Insert, Purge, PurgeObjects, PurgeRows, Mark, Work, Sweep, DeleteMeeting,
     Deadline, Drain, SweepStale, UrlExpires, Discard, vars
<1>5. key' \in [Clients -> Keys]
  BY <1>4 DEF TypeOK
<1>. QED
  BY <1>1, <1>2, <1>3, <1>5, RestTypes, StoreTypes DEF TypeOK, TaskTypes, AClient, ARow, ATask, Pcs, Cells

-----------------------------------------------------------------------------
(* What is closed, and what is sealed *)

\* A job appears only when a request inserts it.
LEMMA JobAppears ==
  ASSUME TypeOK, TaskTypes, Addressed, [Next]_vars, NEW u \in Uploads, job'[u] # "none", job[u] = "none"
  PROVE  /\ up' = up /\ Exists(u) /\ job'[u] = "queued"
         /\ \E t \in Slots : task[t].pc = "insert" /\ task[t].u = u
<1>0. job \in [Uploads -> {"none", "queued", "running", "complete", "error"}]
  BY DEF TypeOK
<1>1. \E t \in Slots : Insert(t)
  <2>1. ASSUME NEW v \in Uploads, Sweep(v) \/ Work(v) \/ DeleteMeeting(v)
        PROVE  FALSE
    <3>1. CASE Sweep(v)
      <4>1. job' = [job EXCEPT ![v] = IF job[v] = "queued" THEN "error" ELSE job[v]]
        BY <3>1 DEF Sweep
      <4>. QED
        BY <1>0, <4>1
    <3>2. CASE Work(v)
      BY <1>0, <3>2 DEF Work
    <3>3. CASE DeleteMeeting(v)
      BY <1>0, <3>3 DEF DeleteMeeting
    <3>. QED
      BY <2>1, <3>1, <3>2, <3>3
  <2>2. ASSUME NEW t \in Tasks, Mark(t) PROVE FALSE
    BY <1>0, <2>2 DEF Mark
  <2>3. ~Discard
    BY <1>0 DEF Discard
  <2>4. job' # job
    OBVIOUS
  <2>. QED
    BY <2>1, <2>2, <2>3, <2>4 DEF Next, Serve, Send, GiveUp, Forget, Receive, Lookup, Reserve, Put, Commit, Drop, Prepare, Sign,
       DirectPut, Finish, Adopt, Check, Seal, Enqueue, Purge, PurgeObjects, PurgeRows, Deadline, Drain,
       SweepStale, UrlExpires, vars, db
<1>2. PICK t \in Slots : Insert(t)
  BY <1>1
<1>3. job' = [job EXCEPT ![task[t].u] = "queued"] /\ Exists(task[t].u) /\ up' = up /\ task[t].pc = "insert"
  BY <1>2 DEF Insert, At
<1>4. task[t].u = u
  BY <1>0, <1>3
<1>. QED
  BY <1>0, <1>3, <1>4

\* Only the plan's refusal of a sealed upload is remembered.
LEMMA RefusedGrows ==
  ASSUME [Next]_vars, NEW u \in refused' \ refused
  PROVE  \E t \in Slots : up[task[t].u].status = "complete" /\ u = task[t].u /\ UNCHANGED db
<1>1. \E t \in Slots : Enqueue(t)
  BY DEF Next, Serve, Send, GiveUp, Forget, Receive, Lookup, Reserve, Put, Commit, Drop, Prepare, Sign, DirectPut,
     Finish, Adopt, Check, Seal, Insert, Purge, PurgeObjects, PurgeRows, Mark, Work, Sweep, DeleteMeeting,
     Deadline, Drain, SweepStale, UrlExpires, Discard, vars
<1>2. PICK t \in Slots : Enqueue(t)
  BY <1>1
<1>. QED
  BY <1>2 DEF Enqueue

\* A chunk arrives only at an open upload.
LEMMA ChunkArrives ==
  ASSUME TypeOK, TaskTypes, Addressed, [Next]_vars, NEW u \in Uploads, NEW i \in Index,
         chunk[u][i] = None, chunk'[u][i] # None
  PROVE  Writable(u)
<1>1. ASSUME NEW t \in Tasks, Commits(t) \/ Adopts(t) PROVE Writable(u)
  <2>1. task[t].u \in Uploads /\ Writable(task[t].u)
    BY <1>1 DEF Addressed, Commits, Adopts, NeedsUpload
  <2>2. u = task[t].u
    BY <1>1 DEF Commits, Adopts
  <2>. QED
    BY <2>1, <2>2
<1>2. ASSUME UNCHANGED chunk PROVE FALSE
  BY <1>2
<1>3. ASSUME NEW t \in Tasks, Reserves(t) \/ Clears(t) \/ Writes(t) \/ Forgets(t) \/ Signs(t) \/ Sends(t) \/ Empties(t)
      PROVE  FALSE
  BY <1>3 DEF Reserves, Clears, Writes, Forgets, Signs, Sends, Empties
<1>4. ASSUME NEW v \in Uploads, Deletes(v) PROVE FALSE
  BY <1>4 DEF Deletes
<1>5. ASSUME NEW o \in Objects, Drains(o) \/ Sweeps(o) \/ Expired(o) PROVE FALSE
  BY <1>5 DEF Drains, Sweeps, Expired
<1>. QED
  BY <1>1, <1>2, <1>3, <1>4, <1>5, PlaceSteps DEF places

\* Rows in the state they were in, and rows that take another status.
LEMMA ClosingRows ==
  ASSUME TypeOK, TaskTypes, Addressed, Closing, [Next]_vars, NEW u \in Uploads
  PROVE  /\ up'[u].status = "none" =>
              ~up'[u].late /\ u \notin refused' /\ job'[u] = "none" /\ \A i \in Index : chunk'[u][i] = None
         /\ up'[u].status = "expired" => up'[u].late \/ u \in refused'
         /\ job'[u] # "none" => up'[u].status \in {"complete", "expired"}
<1>1. up[u].status \in {"none", "created", "uploading", "complete", "expired", "deleted"}
  BY DEF TypeOK
<1>2. ASSUME up'[u].status = "none"
      PROVE  ~up'[u].late /\ u \notin refused' /\ job'[u] = "none" /\ \A i \in Index : chunk'[u][i] = None
  <2>1. up[u].status = "none" /\ up'[u].late = up[u].late
    BY <1>2, RowSteps DEF Created, Expires, Takes, Seals, Goes, Ages, Restatus, Exists
  <2>2. ~up[u].late /\ u \notin refused /\ job[u] = "none" /\ \A i \in Index : chunk[u][i] = None
    BY <2>1 DEF Closing
  <2>3. u \notin refused'
    BY <2>1, <2>2, RefusedGrows
  <2>4. job'[u] = "none"
    BY <2>1, <2>2, JobAppears DEF Exists
  <2>5. \A i \in Index : chunk'[u][i] = None
    BY <2>1, <2>2, ChunkArrives DEF Writable
  <2>. QED
    BY <2>1, <2>2, <2>3, <2>4, <2>5
<1>3. ASSUME up'[u].status = "expired"
      PROVE  up'[u].late \/ u \in refused'
  <2>1. CASE up[u].status = "expired"
    BY <2>1, Forward DEF Closing
  <2>2. CASE up[u].status # "expired"
    <3>1. Expires(u) \/ Ages(u)
      BY <1>3, <2>2, RowSteps DEF Created, Expires, Takes, Seals, Goes, Ages, Restatus
    <3>2. CASE Ages(u)
      BY <3>2 DEF Ages
    <3>3. CASE IsExpired(u)
      BY <2>2, <3>3, Forward DEF IsExpired
    <3>4. CASE \E t \in Tasks : Mark(t) /\ task[t].u = u /\ ~task[t].ok
      <4>1. PICK t \in Tasks : Mark(t) /\ task[t].u = u /\ ~task[t].ok
        BY <3>4
      <4>2. up[u].late \/ u \in refused \/ up[u].status = "deleted"
        BY <4>1 DEF Closing, Purger, Mark, At
      <4>3. up[u].status = "deleted" => up'[u].status = "deleted"
        BY Forward
      <4>. QED
        BY <1>3, <4>2, <4>3, Forward
    <3>. QED
      BY <3>1, <3>2, <3>3, <3>4 DEF Expires
  <2>. QED
    BY <2>1, <2>2
<1>4. ASSUME job'[u] # "none"
      PROVE  up'[u].status \in {"complete", "expired"}
  <2>1. CASE job[u] = "none"
    <3>1. up' = up /\ Exists(u) /\ \E t \in Slots : task[t].pc = "insert" /\ task[t].u = u
      BY <1>4, <2>1, JobAppears
    <3>2. up[u].status \in {"complete", "expired", "deleted"}
      BY <3>1, CleanerApart DEF Closing
    <3>. QED
      BY <3>1, <3>2 DEF Exists
  <2>2. CASE job[u] # "none"
    <3>1. up[u].status \in {"complete", "expired"}
      BY <2>2 DEF Closing
    <3>2. up'[u].status \in {"complete", "expired", "deleted"}
      BY <3>1, Forward
    <3>3. CASE up'[u].status = "deleted"
      <4>1. Goes(u)
        BY <3>1, <3>3, RowSteps DEF Created, Expires, Takes, Seals, Goes, Ages, Restatus
      <4>2. job'[u] = "none"
        BY <4>1 DEF Goes, TypeOK
      <4>. QED
        BY <1>4, <4>2
    <3>. QED
      BY <3>2, <3>3
  <2>. QED
    BY <2>1, <2>2
<1>. QED
  BY <1>2, <1>3, <1>4

\* What a task is known to have seen stays true of its upload.
PurgerOf(t, u) ==
  /\ Closed(u) /\ Ending(u)
  /\ task[t].ok \/ up[u].late \/ u \in refused \/ up[u].status = "deleted"

\* Only closed uploads whose audio may go are purged, after every step.
LEMMA ClosingStep ==
  ASSUME TypeOK, TaskTypes, Addressed, Closing, [Next]_vars
  PROVE  Closing'
<1>1. ASSUME NEW t \in Tasks
      PROVE  /\ task'[t].pc = "insert" => up'[task'[t].u].status \in {"complete", "expired", "deleted"}
             /\ Purger(t)' => /\ Closed(task[t].u)' /\ Ending(task[t].u)'
                              /\ task'[t].ok \/ up'[task'[t].u].late \/ task'[t].u \in refused'
                                   \/ up'[task'[t].u].status = "deleted"
  <2> DEFINE ToInsert == task'[t].pc = "insert" => up'[task'[t].u].status \in {"complete", "expired", "deleted"}
             ToPurge == Purger(t)' => /\ Closed(task[t].u)' /\ Ending(task[t].u)'
                                      /\ task'[t].ok \/ up'[task'[t].u].late \/ task'[t].u \in refused'
                                           \/ up'[task'[t].u].status = "deleted"
  <2>1. ASSUME NEW s \in Tasks, task'[t] = task[s] PROVE ToInsert /\ ToPurge
    <3>1. CASE NeedsUpload(task[s].pc)
      <4>1. task[s].u \in Uploads
        BY <3>1 DEF Addressed
      <4>2. task[s].pc = "insert" => up[task[s].u].status \in {"complete", "expired", "deleted"}
        BY DEF Closing
      <4>3. Purger(s) => PurgerOf(s, task[s].u)
        BY DEF Closing, PurgerOf
      <4>4. task'[t].u = task[s].u /\ task'[t].pc = task[s].pc /\ task'[t].ok = task[s].ok
        BY <2>1
      <4>5. ToInsert
        BY <4>1, <4>2, <4>4, Forward
      <4>6. Closed(task[t].u)' <=> up'[task[s].u].late \/ up'[task[s].u].status \in {"complete", "expired", "deleted"}
        BY <4>4 DEF Closed
      <4>7. Ending(task[t].u)' <=> up'[task[s].u].late \/ task[s].u \in refused' \/ job'[task[s].u] = "complete" \/ up'[task[s].u].status = "deleted"
        BY <4>4 DEF Ending
      <4>8. ToPurge
        BY <4>1, <4>3, <4>4, <4>6, <4>7, Forward DEF PurgerOf, Purger, Closed, Ending
      <4>. QED
        BY <4>5, <4>8
    <3>2. CASE ~NeedsUpload(task[s].pc)
      BY <2>1, <3>2 DEF NeedsUpload, Purger
    <3>. QED
      BY <3>1, <3>2
  <2>2. CASE Kept(t)
    BY <2>1, <2>2 DEF Kept
  <2>3. CASE Taken(t)
    BY <2>1, <2>3, GiveUpMoves, CleanerApart DEF Taken
  <2>4. ASSUME Begins(t) PROVE ToInsert /\ ToPurge
    BY <2>4 DEF Begins, Purger
  <2>5. CASE Acts(t)
    <3>1. Replies(t) /\ t # Cleaner => Begins(t)
      BY EndsBegins DEF Ends
    <3>2. Ends(t) => Begins(t)
      BY EndsBegins
    <3>3. CASE t \in Slots /\ Lookup(t)
      <4>1. Same(t, "reserve") => task'[t].pc = "reserve"
        BY DEF Same, Moves
      <4>2. CASE \E u \in Uploads : IsExpired(u) /\ Exists(u) /\ up' = [up EXCEPT ![u].status = "expired"]
                              /\ Moves(t, "purge", u, task[t].i, task[t].o, task[t].seen, TRUE)
        <5>1. PICK u \in Uploads : IsExpired(u) /\ Exists(u) /\ up' = [up EXCEPT ![u].status = "expired"]
                              /\ Moves(t, "purge", u, task[t].i, task[t].o, task[t].seen, TRUE)
          BY <4>2
        <5>2. task'[t].pc = "purge" /\ task'[t].u = u /\ task'[t].ok
          BY <5>1 DEF Moves
        <5>3. up'[u].status = "expired"
          BY <5>1, StatusWritten DEF Restatus
        <5>4. up[u].late \/ u \in refused
          BY <5>1 DEF IsExpired, Closing
        <5>5. up'[u].late \/ u \in refused'
          BY <5>4, Forward
        <5>. QED
          BY <5>2, <5>3, <5>5 DEF Closed, Ending
      <4>. QED
        BY <2>4, <3>1, <3>3, <4>1, <4>2, UploadMoves, CleanerApart DEF Purger
    <3>4. CASE t \in Slots /\ (Put(t) \/ Commit(t))
      <4>1. Begins(t) \/ task'[t].pc \in {"commit", "drop"}
        BY <3>1, <3>4, UploadMoves, CleanerApart DEF Moves
      <4>. QED
        BY <2>4, <4>1 DEF Purger
    <3>5. CASE t \in Slots /\ (Prepare(t) \/ Sign(t) \/ DirectPut(t) \/ Finish(t) \/ Check(t))
      <4>1. Begins(t) \/ task'[t].pc \in {"sign", "upload", "finish", "adopt", "sealing"}
        BY <3>1, <3>5, DirectMoves, CleanerApart DEF Moves, Same
      <4>. QED
        BY <2>4, <4>1 DEF Purger
    <3>6. CASE t \in Slots /\ Enqueue(t)
      <4>1. up' = up
        BY <3>6 DEF Enqueue, db
      <4>2. \/ Begins(t)
            \/ up[task[t].u].status = "complete" /\ task'[t].pc = "insert" /\ task'[t].u = task[t].u
            \/ up[task[t].u].status = "complete" /\ task'[t].pc = "purge" /\ task'[t].u = task[t].u /\ task[t].u \in refused'
        BY <3>1, <3>6, DirectMoves, CleanerApart DEF Moves, Same
      <4>. QED
        BY <2>4, <4>1, <4>2 DEF Purger, Closed, Ending
    <3>7. CASE Purge(t) \/ PurgeObjects(t) \/ PurgeRows(t) \/ Mark(t)
      <4>1. Purger(t) /\ task[t].u \in Uploads
        BY <3>7 DEF Purge, PurgeObjects, PurgeRows, Mark, At, Purger, Addressed, NeedsUpload
      <4>2. PurgerOf(t, task[t].u)
        BY <4>1 DEF Closing, PurgerOf
      <4>3. Begins(t) \/ (task'[t].pc \in {"objects", "rows", "mark", "discard"} /\ task'[t].u = task[t].u /\ task'[t].ok = task[t].ok)
        BY <3>2, <3>7, PurgeMoves DEF Same, Moves
      <4>4. CASE task'[t].pc \in {"objects", "rows", "mark", "discard"} /\ task'[t].u = task[t].u /\ task'[t].ok = task[t].ok
        <5>1. /\ up'[task[t].u].late \/ up'[task[t].u].status \in {"complete", "expired", "deleted"}
              /\ up'[task[t].u].late \/ task[t].u \in refused' \/ job'[task[t].u] = "complete" \/ up'[task[t].u].status = "deleted"
              /\ task[t].ok \/ up'[task[t].u].late \/ task[t].u \in refused' \/ up'[task[t].u].status = "deleted"
          BY <4>1, <4>2, Forward DEF PurgerOf, Closed, Ending
        <5>. QED
          BY <4>4, <5>1 DEF Closed, Ending
      <4>. QED
        BY <2>4, <4>3, <4>4
    <3>8. CASE t = Cleaner /\ \E u \in Uploads : Sweep(u)
      <4>1. PICK u \in Uploads : Sweep(u)
        BY <3>8
      <4>2. task'[t].pc = "purge" /\ task'[t].u = u /\ task'[t].ok = (job[u] = "complete")
        BY <3>8, <4>1, OtherMoves DEF Moves
      <4>3. job[u] = "complete" \/ up[u].late
        BY <4>1 DEF Sweep, Sweepable
      <4>4. job[u] = "complete" => up[u].status \in {"complete", "expired"}
        BY DEF Closing
      <4>5. Closed(u) /\ Ending(u)
        BY <4>3, <4>4 DEF Closed, Ending
      <4>6. /\ up'[u].late \/ up'[u].status \in {"complete", "expired", "deleted"}
            /\ up'[u].late \/ u \in refused' \/ job'[u] = "complete" \/ up'[u].status = "deleted"
        BY <4>5, Forward DEF Closed, Ending
      <4>7. task'[t].ok \/ up'[u].late
        BY <4>2, <4>3, Forward
      <4>. QED
        BY <4>2, <4>6, <4>7 DEF Closed, Ending
    <3>. QED
      BY <2>5, <3>3, <3>4, <3>5, <3>6, <3>7, <3>8 DEF Acts
  <2>. QED
    BY <2>2, <2>3, <2>4, <2>5, Origins
<1>. QED
  BY <1>1, ClosingRows DEF Closing, Closed, Ending, Purger

\* Chunks leave an upload only when its audio may go.
LEMMA ChunkLeaves ==
  ASSUME TypeOK, TaskTypes, Addressed, Closing, [Next]_vars, NEW u \in Uploads, NEW i \in Index,
         chunk[u][i] # None, chunk'[u][i] = None
  PROVE  Ending(u)'
<1>1. ASSUME NEW t \in Tasks, Clears(t) PROVE Ending(u)'
  <2>1. u = task[t].u
    BY <1>1 DEF Clears
  <2>2. Ending(u)
    BY <1>1, <2>1 DEF Clears, Closing, Purger
  <2>. QED
    BY <2>2, Forward
<1>2. ASSUME NEW v \in Uploads, Deletes(v) PROVE Ending(u)'
  <2>1. u = v
    BY <1>2 DEF Deletes
  <2>. QED
    BY <1>2, <2>1 DEF Deletes, Goes, Restatus, Ending
<1>3. ASSUME NEW t \in Tasks, Commits(t) \/ Adopts(t)
      PROVE  FALSE
  <2>1. CASE Commits(t)
    BY <2>1 DEF Commits, Addressed, NeedsUpload
  <2>2. CASE Adopts(t)
    <3>1. task[t].u \in Uploads /\ task[t].i \in Index
      BY <2>2 DEF Adopts, Addressed, NeedsUpload
    <3>2. u = task[t].u /\ i = task[t].i
      BY <2>2 DEF Adopts
    <3>3. chunk'[u][i] = chunk[u][i]
      BY <2>2, <3>2 DEF Adopts
    <3>. QED
      BY <3>3
  <2>. QED
    BY <1>3, <2>1, <2>2
<1>4. ASSUME NEW t \in Tasks, Reserves(t) \/ Writes(t) \/ Forgets(t) \/ Signs(t) \/ Sends(t) \/ Empties(t)
      PROVE  FALSE
  BY <1>4 DEF Reserves, Writes, Forgets, Signs, Sends, Empties
<1>5. ASSUME NEW o \in Objects, Drains(o) \/ Sweeps(o) \/ Expired(o) PROVE FALSE
  BY <1>5 DEF Drains, Sweeps, Expired
<1>6. ASSUME UNCHANGED places PROVE FALSE
  BY <1>6 DEF places
<1>. QED
  BY <1>1, <1>2, <1>3, <1>4, <1>5, <1>6, PlaceSteps

\* An upload stays sound.
LEMMA SoundStays ==
  ASSUME TypeOK, TaskTypes, Addressed, Closing, [Next]_vars, NEW u \in Uploads, Sound(u)
  PROVE  Sound(u)'
<1>1. CASE Ending(u)
  BY <1>1, Forward DEF Sound
<1>2. CASE AllArrived(u) /\ AllArrived(u)'
  BY <1>2 DEF Sound
<1>3. CASE AllArrived(u) /\ ~AllArrived(u)'
  <2>1. PICK i \in Index : chunk'[u][i] = None
    BY <1>3 DEF AllArrived
  <2>2. chunk[u][i] # None
    BY <1>3 DEF AllArrived
  <2>. QED
    BY <2>1, <2>2, ChunkLeaves DEF Sound
<1>. QED
  BY <1>1, <1>2, <1>3 DEF Sound

\* Every step keeps sealed uploads and those with a job sound.
LEMMA SealedStep ==
  ASSUME TypeOK, TaskTypes, Addressed, Closing, Sealed, [Next]_vars
  PROVE  Sealed'
<1>1. ASSUME NEW u \in Uploads, up'[u].status = "complete" PROVE Sound(u)'
  <2>1. CASE up[u].status = "complete"
    BY <2>1, SoundStays DEF Sealed
  <2>2. CASE up[u].status # "complete"
    <3>1. Seals(u)
      BY <1>1, <2>2, RowSteps DEF Created, Expires, Takes, Seals, Goes, Ages, Restatus
    <3>2. PICK t \in Slots : Seal(t) /\ task[t].u = u
      BY <3>1 DEF Seals
    <3>3. Sound(u)
      BY <3>2, CleanerApart DEF Sealed, Seal, At
    <3>. QED
      BY <3>3, SoundStays
  <2>. QED
    BY <2>1, <2>2
<1>2. ASSUME NEW u \in Uploads, job'[u] # "none" PROVE Sound(u)'
  <2>1. CASE job[u] # "none"
    BY <2>1, SoundStays DEF Sealed
  <2>2. CASE job[u] = "none"
    <3>1. PICK t \in Slots : task[t].pc = "insert" /\ task[t].u = u
      BY <1>2, <2>2, JobAppears
    <3>2. Sound(u)
      BY <3>1, CleanerApart DEF Sealed
    <3>. QED
      BY <3>2, SoundStays
  <2>. QED
    BY <2>1, <2>2
<1>3. ASSUME NEW t \in Tasks, task'[t].pc \in {"sealing", "insert"} PROVE Sound(task[t].u)'
  <2>1. ASSUME NEW u \in Uploads, Sound(u), task'[t].u = u PROVE Sound(task[t].u)'
    <3>1. Sound(u)'
      BY <2>1, SoundStays
    <3>. QED
      BY <2>1, <3>1 DEF Sound, AllArrived, Ending
  <2>2. ASSUME NEW s \in Tasks, task'[t] = task[s] PROVE Sound(task[t].u)'
    <3>1. task[s].pc \in {"sealing", "insert"} /\ task'[t].u = task[s].u
      BY <1>3, <2>2
    <3>2. task[s].u \in Uploads /\ Sound(task[s].u)
      BY <3>1 DEF Sealed, Addressed, NeedsUpload
    <3>. QED
      BY <2>1, <3>1, <3>2
  <2>3. CASE Kept(t)
    BY <2>2, <2>3 DEF Kept
  <2>4. CASE Taken(t)
    BY <2>2, <2>4, GiveUpMoves, CleanerApart DEF Taken
  <2>5. CASE Begins(t)
    BY <1>3, <2>5 DEF Begins
  <2>6. CASE Acts(t)
    <3>1. ~Begins(t)
      BY <1>3 DEF Begins
    <3>2. ~(Replies(t) /\ t # Cleaner) /\ ~Ends(t)
      BY <3>1, EndsBegins DEF Ends
    <3>3. CASE t \in Slots /\ (Lookup(t) \/ Put(t) \/ Commit(t))
      BY <1>3, <3>2, <3>3, UploadMoves, CleanerApart DEF Moves, Same
    <3>4. CASE t \in Slots /\ (Prepare(t) \/ Sign(t) \/ DirectPut(t) \/ Finish(t))
      BY <1>3, <3>2, <3>4, DirectMoves, CleanerApart DEF Moves, Same
    <3>5. CASE t \in Slots /\ Check(t)
      <4>1. task'[t].u = task[t].u /\ AllArrived(task[t].u) /\ task[t].u \in Uploads
        BY <3>2, <3>5, DirectMoves, CleanerApart DEF Moves, Same, Addressed, Check, At, NeedsUpload
      <4>. QED
        BY <2>1, <4>1 DEF Sound
    <3>6. CASE t \in Slots /\ Enqueue(t)
      <4>1. task'[t].u = task[t].u /\ up[task[t].u].status = "complete" /\ task[t].u \in Uploads
        BY <1>3, <3>2, <3>6, DirectMoves, CleanerApart DEF Moves, Same, Addressed, Enqueue, At, NeedsUpload
      <4>. QED
        BY <2>1, <4>1 DEF Sealed
    <3>7. CASE Purge(t) \/ PurgeObjects(t) \/ PurgeRows(t) \/ Mark(t)
      BY <1>3, <3>2, <3>7, PurgeMoves DEF Moves, Same
    <3>8. CASE t = Cleaner /\ \E u \in Uploads : Sweep(u)
      BY <1>3, <3>8, OtherMoves DEF Moves
    <3>. QED
      BY <2>6, <3>3, <3>4, <3>5, <3>6, <3>7, <3>8 DEF Acts
  <2>. QED
    BY <2>3, <2>4, <2>5, <2>6, Origins
<1>. QED
  BY <1>1, <1>2, <1>3 DEF Sealed, Sound, AllArrived, Ending

-----------------------------------------------------------------------------
(* Every object has one place *)

\* Whatever a cell holds it held before, or a request has just put it there.
LEMMA NewPlace ==
  ASSUME TypeOK, TaskTypes, Addressed, [Next]_vars
  PROVE  \/ \A v \in Uploads : \A j \in Index : \A o \in Objects : Holds(v, j, o)' => Holds(v, j, o)
         \/ \E t \in Slots, p \in Objects :
              /\ (Commits(t) /\ p = task[t].o) \/ (Reserves(t) /\ p = FreshObject)
              /\ task[t].u \in Uploads /\ task[t].i \in Index
              /\ \A v \in Uploads : \A j \in Index : \A o \in Objects :
                   Holds(v, j, o)' => Holds(v, j, o) \/ (v = task[t].u /\ j = task[t].i /\ o = p)
<1> DEFINE Old == \A v \in Uploads : \A j \in Index : \A o \in Objects : Holds(v, j, o)' => Holds(v, j, o)
           New == \E t \in Slots, p \in Objects :
              /\ (Commits(t) /\ p = task[t].o) \/ (Reserves(t) /\ p = FreshObject)
              /\ task[t].u \in Uploads /\ task[t].i \in Index
              /\ \A v \in Uploads : \A j \in Index : \A o \in Objects :
                   Holds(v, j, o)' => Holds(v, j, o) \/ (v = task[t].u /\ j = task[t].i /\ o = p)
<1>0. \A v \in Uploads, j \in Index : None \notin Objects
  BY UploadsAssumption
<1>1. ASSUME UNCHANGED <<chunk, ticket>> PROVE Old
  BY <1>1 DEF Holds
<1>2. ASSUME NEW t \in Tasks, NeedsUpload(task[t].pc), t \in Slots
      PROVE  task[t].u \in Uploads /\ task[t].i \in Index /\ task[t].o \in Objects \cup {None}
  BY <1>2 DEF Addressed, TaskTypes, ATask
<1>3. ASSUME NEW t \in Tasks, Commits(t) PROVE Old \/ New
  <2>1. task[t].u \in Uploads /\ task[t].i \in Index /\ task[t].o \in Objects \cup {None} /\ t \in Slots
    BY <1>2, <1>3 DEF Commits, NeedsUpload
  <2>2. \A v \in Uploads : \A j \in Index : \A o \in Objects :
          Holds(v, j, o)' => Holds(v, j, o) \/ (v = task[t].u /\ j = task[t].i /\ o = task[t].o)
    BY <1>3, <2>1 DEF Commits, Holds
  <2>3. CASE task[t].o \in Objects
    <3> DEFINE p == task[t].o
    <3>1. /\ p \in Objects /\ t \in Slots
          /\ (Commits(t) /\ p = task[t].o) \/ (Reserves(t) /\ p = FreshObject)
          /\ task[t].u \in Uploads /\ task[t].i \in Index
          /\ \A v \in Uploads : \A j \in Index : \A o \in Objects :
               Holds(v, j, o)' => Holds(v, j, o) \/ (v = task[t].u /\ j = task[t].i /\ o = p)
      BY <1>3, <2>1, <2>2, <2>3
    <3> HIDE DEF p
    <3>. QED
      BY <3>1
  <2>4. CASE task[t].o = None
    BY <2>2, <2>4, UploadsAssumption
  <2>. QED
    BY <2>1, <2>3, <2>4
<1>4. ASSUME NEW t \in Tasks, Reserves(t) PROVE New
  <2>1. task[t].u \in Uploads /\ task[t].i \in Index /\ t \in Slots /\ FreshObject \in Objects
    BY <1>2, <1>4 DEF Reserves, NeedsUpload
  <2>2. \A v \in Uploads : \A j \in Index : \A o \in Objects :
          Holds(v, j, o)' => Holds(v, j, o) \/ (v = task[t].u /\ j = task[t].i /\ o = FreshObject)
    BY <1>4, <2>1 DEF Reserves, Holds
  <2>. QED
    BY <1>4, <2>1, <2>2
<1>5. ASSUME NEW t \in Tasks, Adopts(t) PROVE Old
  <2>1. task[t].u \in Uploads /\ task[t].i \in Index
    BY <1>2, <1>5 DEF Adopts, NeedsUpload
  <2>2. \A v \in Uploads : \A j \in Index : v = task[t].u /\ j = task[t].i => \A o \in Objects : Holds(v, j, o)' => Holds(v, j, o)
    BY <1>5, <2>1, UploadsAssumption DEF Adopts, Holds
  <2>3. \A v \in Uploads : \A j \in Index : v # task[t].u \/ j # task[t].i => \A o \in Objects : Holds(v, j, o)' => Holds(v, j, o)
    BY <1>5 DEF Adopts, Holds
  <2>. QED
    BY <2>2, <2>3
<1>6. ASSUME NEW t \in Tasks, Clears(t) PROVE Old
  BY <1>6, UploadsAssumption DEF Clears, Holds
<1>7. ASSUME NEW u \in Uploads, Deletes(u) PROVE Old
  BY <1>7, UploadsAssumption DEF Deletes, Holds
<1>8. ASSUME NEW t \in Tasks, Writes(t) \/ Forgets(t) \/ Signs(t) \/ Sends(t) \/ Empties(t) PROVE UNCHANGED <<chunk, ticket>>
  BY <1>8 DEF Writes, Forgets, Signs, Sends, Empties
<1>9. ASSUME NEW o \in Objects, Drains(o) \/ Sweeps(o) \/ Expired(o) PROVE UNCHANGED <<chunk, ticket>>
  BY <1>9 DEF Drains, Sweeps, Expired
<1>10. ASSUME UNCHANGED places PROVE UNCHANGED <<chunk, ticket>>
  BY <1>10 DEF places
<1> HIDE DEF Old, New
<1>11. Old \/ New
  BY <1>1, <1>3, <1>4, <1>5, <1>6, <1>7, <1>8, <1>9, <1>10, PlaceSteps
<1>. QED
  BY <1>11 DEF Old, New

\* No object key is handed out twice.
LEMMA UsedGrows ==
  ASSUME TypeOK, TaskTypes, Addressed, [Next]_vars
  PROVE  used \subseteq used'
<1>1. ASSUME NEW t \in Tasks, Commits(t) \/ Reserves(t) \/ Adopts(t) \/ Clears(t) \/ Writes(t) \/ Forgets(t)
                              \/ Signs(t) \/ Sends(t) \/ Empties(t)
      PROVE  used \subseteq used'
  BY <1>1 DEF Commits, Reserves, Adopts, Clears, Writes, Forgets, Signs, Sends, Empties
<1>2. ASSUME NEW u \in Uploads, Deletes(u) PROVE used' = used
  BY <1>2 DEF Deletes
<1>3. ASSUME NEW o \in Objects, Drains(o) \/ Sweeps(o) \/ Expired(o) PROVE used' = used
  BY <1>3 DEF Drains, Sweeps, Expired
<1>. QED
  BY <1>1, <1>2, <1>3, PlaceSteps DEF places

\* A request that has written an object has it from itself, or from the slot that it was
\* in before the client gave up on it.
Source(t, s) ==
  /\ s \in Tasks /\ Carries(s) /\ task'[t].o = task[s].o
  /\ task'[t].pc = task[s].pc \/ task'[t].pc = "drop"
  /\ s = t \/ \E c \in Clients : t = <<c, "stale">> /\ s = <<c, "live">> /\ GiveUp(c)

\* A task that carries an object has just written it, or has such a source.
LEMMA CarriesStep ==
  ASSUME TypeOK, TaskTypes, Addressed, [Next]_vars, NEW t \in Tasks, Carries(t)'
  PROVE  Writes(t) \/ \E s \in Tasks : Source(t, s)
<1>1. task'[t].pc \in {"commit", "drop"}
  BY DEF Carries
<1>2. CASE Kept(t)
  BY <1>1, <1>2 DEF Kept, Source, Carries
<1>3. CASE Taken(t)
  <2>1. PICK c \in Clients : t = <<c, "stale">> /\ GiveUp(c)
    BY <1>3 DEF Taken
  <2>2. task'[t] = task[<<c, "live">>] /\ <<c, "live">> \in Tasks
    BY <2>1, GiveUpMoves, CleanerApart
  <2>. QED
    BY <1>1, <2>1, <2>2 DEF Source, Carries
<1>4. CASE Begins(t)
  BY <1>1, <1>4 DEF Begins
<1>5. CASE Acts(t)
  <2>1. ~Begins(t)
    BY <1>1 DEF Begins
  <2>2. ~(Replies(t) /\ t # Cleaner) /\ ~Ends(t)
    BY <2>1, EndsBegins DEF Ends
  <2>3. CASE t \in Slots /\ (Prepare(t) \/ Sign(t) \/ DirectPut(t) \/ Finish(t) \/ Check(t) \/ Enqueue(t))
    BY <1>1, <2>2, <2>3, DirectMoves, CleanerApart DEF Moves, Same
  <2>4. CASE t \in Slots /\ Lookup(t)
    BY <1>1, <2>2, <2>4, UploadMoves, CleanerApart DEF Moves, Same
  <2>5. CASE t \in Slots /\ Put(t)
    <3>1. Put(t) /\ ~Replies(t)
      BY <2>2, <2>5, CleanerApart
    <3>2. Writes(t)
      BY <2>5, <3>1, UploadMoves DEF Writes, Put, At, db
    <3>. QED
      BY <3>2
  <2>6. CASE t \in Slots /\ Commit(t)
    <3>1. task[t].pc = "commit" /\ task'[t].o = task[t].o /\ task'[t].pc = "drop"
      BY <2>2, <2>6, UploadMoves, CleanerApart DEF Moves, Commit, At
    <3>. QED
      BY <3>1 DEF Source, Carries
  <2>7. CASE Purge(t) \/ PurgeObjects(t) \/ PurgeRows(t) \/ Mark(t)
    BY <1>1, <2>2, <2>7, PurgeMoves DEF Moves, Same
  <2>8. CASE t = Cleaner /\ \E u \in Uploads : Sweep(u)
    BY <1>1, <2>8, OtherMoves DEF Moves
  <2>. QED
    BY <1>5, <2>3, <2>4, <2>5, <2>6, <2>7, <2>8 DEF Acts
<1>. QED
  BY <1>2, <1>3, <1>4, <1>5, Origins

\* What a task has seen of an upload, it has from itself, from the slot it was in, or
\* has just read.
LEMMA SeenStep ==
  ASSUME TypeOK, TaskTypes, Addressed, [Next]_vars, NEW t \in Tasks, task'[t].seen # {}
  PROVE  \/ \E s \in Tasks : task'[t] = task[s]
         \/ /\ Purge(t) /\ MayPurge(task[t].u) /\ UNCHANGED places
            /\ task'[t].pc = "objects" /\ task'[t].u = task[t].u /\ task'[t].seen = Staged(task[t].u)
         \/ /\ task'[t].seen = task[t].seen
            /\ \/ t \in Slots /\ task[t].pc \in {"lookup", "put", "commit", "prepare", "sign", "upload", "finish", "check", "enqueue"}
               \/ /\ task[t].pc \in {"objects", "rows", "mark"} /\ task'[t].pc \in {"rows", "mark", "discard"}
                  /\ task'[t].u = task[t].u
<1>1. CASE Kept(t)
  BY <1>1 DEF Kept
<1>2. CASE Taken(t)
  BY <1>2, GiveUpMoves, CleanerApart DEF Taken
<1>3. CASE Begins(t)
  BY <1>3 DEF Begins
<1>4. CASE Acts(t)
  <2>1. ~Begins(t)
    BY DEF Begins
  <2>2. ~(Replies(t) /\ t # Cleaner) /\ ~Ends(t)
    BY <2>1, EndsBegins DEF Ends
  <2>3. CASE t \in Slots /\ (Prepare(t) \/ Sign(t) \/ DirectPut(t) \/ Finish(t) \/ Check(t) \/ Enqueue(t))
    <3>1. task'[t].seen = task[t].seen
      BY <2>2, <2>3, DirectMoves, CleanerApart DEF Moves, Same
    <3>2. task[t].pc \in {"prepare", "sign", "upload", "finish", "check", "enqueue"}
      BY <2>3 DEF Prepare, Sign, DirectPut, Finish, Check, Enqueue, At
    <3>. QED
      BY <2>3, <3>1, <3>2
  <2>4. CASE t \in Slots /\ (Lookup(t) \/ Put(t) \/ Commit(t))
    <3>1. task'[t].seen = task[t].seen
      BY <2>2, <2>4, UploadMoves, CleanerApart DEF Moves, Same
    <3>2. task[t].pc \in {"lookup", "put", "commit"}
      BY <2>4 DEF Lookup, Put, Commit, At
    <3>. QED
      BY <2>4, <3>1, <3>2
  <2>5. CASE Purge(t)
    <3>1. UNCHANGED places
      BY <2>5 DEF Purge, places, db, storage
    <3>. QED
      BY <2>2, <2>5, <3>1, PurgeMoves DEF Moves
  <2>6. CASE PurgeObjects(t) \/ PurgeRows(t) \/ Mark(t)
    <3>1. task[t].pc \in {"objects", "rows", "mark"}
      BY <2>6 DEF PurgeObjects, PurgeRows, Mark, At
    <3>. QED
      BY <2>2, <2>6, <3>1, PurgeMoves DEF Moves, Same
  <2>7. CASE t = Cleaner /\ \E u \in Uploads : Sweep(u)
    BY <2>7, OtherMoves DEF Moves
  <2>. QED
    BY <1>4, <2>3, <2>4, <2>5, <2>6, <2>7 DEF Acts
<1>. QED
  BY <1>1, <1>2, <1>3, <1>4, Origins

\* Rows and reservations keep to one place for each object.
LEMMA PlaceStep ==
  ASSUME TypeOK, TaskTypes, Addressed, OnePlace, [Next]_vars
  PROVE  /\ \A u, v \in Uploads : \A i, j \in Index : \A o \in Objects :
              Holds(u, i, o)' /\ Holds(v, j, o)' => u = v /\ i = j
         /\ \A u \in Uploads : \A i \in Index : chunk'[u][i] = None \/ ticket'[u][i] = None
         /\ \A u \in Uploads : \A i \in Index : \A o \in Objects : Holds(u, i, o)' => o \in used' \ later'
<1>0. /\ \A u, v \in Uploads : \A i, j \in Index : \A o \in Objects :
           Holds(u, i, o) /\ Holds(v, j, o) => u = v /\ i = j
      /\ \A u \in Uploads : \A i \in Index : \A o \in Objects : Holds(u, i, o) => o \in used \ later
      /\ later \subseteq used
  BY DEF OnePlace, TypeOK
\* the place of a new object was not one before
<1>1. ASSUME NEW t \in Slots, NEW p \in Objects, (Commits(t) /\ p = task[t].o) \/ (Reserves(t) /\ p = FreshObject)
      PROVE  /\ \A v \in Uploads : \A j \in Index : ~Holds(v, j, p)
             /\ p \in used' \ later'
  <2>1. CASE Commits(t) /\ p = task[t].o
    <3>1. Carries(t)
      BY <2>1 DEF Commits, Carries
    <3>2. p \in used \ later /\ \A v \in Uploads : \A j \in Index : ~Holds(v, j, task[t].o)
      BY <2>1, <3>1, CleanerApart DEF OnePlace
    <3>. QED
      BY <2>1, <3>2 DEF Commits
  <2>2. CASE Reserves(t) /\ p = FreshObject
    BY <1>0, <2>2 DEF Reserves
  <2>. QED
    BY <1>1, <2>1, <2>2
<1>2. \A u, v \in Uploads : \A i, j \in Index : \A o \in Objects :
        Holds(u, i, o)' /\ Holds(v, j, o)' => u = v /\ i = j
  BY <1>0, <1>1, NewPlace
<1>3. \A u \in Uploads : \A i \in Index : chunk'[u][i] = None \/ ticket'[u][i] = None
  <2>0. \A u \in Uploads : \A i \in Index : chunk[u][i] = None \/ ticket[u][i] = None
    BY DEF OnePlace
  <2>1. ASSUME UNCHANGED <<chunk, ticket>>
        PROVE  \A u \in Uploads : \A i \in Index : chunk'[u][i] = None \/ ticket'[u][i] = None
    BY <2>0, <2>1
  <2>2. ASSUME NEW t \in Tasks, Commits(t) \/ Reserves(t) \/ Clears(t)
        PROVE  \A u \in Uploads : \A i \in Index : chunk'[u][i] = None \/ ticket'[u][i] = None
    BY <2>0, <2>2 DEF Commits, Reserves, Clears
  <2>3. ASSUME NEW t \in Tasks, Adopts(t)
        PROVE  \A u \in Uploads : \A i \in Index : chunk'[u][i] = None \/ ticket'[u][i] = None
    <3>1. task[t].u \in Uploads /\ task[t].i \in Index
      BY <2>3 DEF Adopts, Addressed, NeedsUpload
    <3>2. chunk'[task[t].u][task[t].i] = None \/ ticket'[task[t].u][task[t].i] = None
      BY <2>0, <2>3, <3>1 DEF Adopts
    <3>. QED
      BY <2>0, <2>3, <3>2 DEF Adopts
  <2>4. ASSUME NEW v \in Uploads, Deletes(v)
        PROVE  \A u \in Uploads : \A i \in Index : chunk'[u][i] = None \/ ticket'[u][i] = None
    BY <2>0, <2>4 DEF Deletes
  <2>5. ASSUME NEW t \in Tasks, Writes(t) \/ Forgets(t) \/ Signs(t) \/ Sends(t) \/ Empties(t) PROVE UNCHANGED <<chunk, ticket>>
    BY <2>5 DEF Writes, Forgets, Signs, Sends, Empties
  <2>6. ASSUME NEW o \in Objects, Drains(o) \/ Sweeps(o) \/ Expired(o) PROVE UNCHANGED <<chunk, ticket>>
    BY <2>6 DEF Drains, Sweeps, Expired
  <2>7. ASSUME UNCHANGED places PROVE UNCHANGED <<chunk, ticket>>
    BY <2>7 DEF places
  <2>. QED
    BY <2>1, <2>2, <2>3, <2>4, <2>5, <2>6, <2>7, PlaceSteps
<1>4. ASSUME NEW u \in Uploads, NEW i \in Index, NEW o \in Objects, Holds(u, i, o)'
      PROVE  o \in used' \ later'
  <2>1. CASE Holds(u, i, o)
    <3>0. o \in used \ later
      BY <1>0, <2>1
    <3>1. ASSUME NEW v \in Uploads, Deletes(v) PROVE o \notin later'
      <4>1. o \in Staged(v) => \E j \in Index : Holds(v, j, o)
        BY StagedHolds
      <4>2. o \in Staged(v) => u = v
        BY <1>0, <2>1, <4>1
      <4>3. u # v
        BY <1>4, <3>1, UploadsAssumption DEF Holds, Deletes
      <4>. QED
        BY <3>0, <3>1, <4>2, <4>3 DEF Deletes
    <3>2. ASSUME NEW t \in Tasks, Commits(t) \/ Reserves(t) \/ Adopts(t) \/ Clears(t)
                                  \/ Writes(t) \/ Forgets(t) \/ Signs(t) \/ Sends(t) \/ Empties(t)
          PROVE  later' = later
      BY <3>2 DEF Commits, Reserves, Adopts, Clears, Writes, Forgets, Signs, Sends, Empties
    <3>3. ASSUME NEW x \in Objects, Drains(x) \/ Sweeps(x) \/ Expired(x)
          PROVE  later' \subseteq later
      BY <3>3 DEF Drains, Sweeps, Expired
    <3>4. o \notin later'
      BY <3>0, <3>1, <3>2, <3>3, PlaceSteps DEF places
    <3>5. o \in used'
      BY <3>0, UsedGrows
    <3>. QED
      BY <3>4, <3>5
  <2>2. CASE ~Holds(u, i, o)
    BY <1>1, <1>4, <2>2, NewPlace
  <2>. QED
    BY <2>1, <2>2
<1>. QED
  BY <1>2, <1>3, <1>4

\* What each task carries it alone carries.
LEMMA CarryStep ==
  ASSUME TypeOK, TaskTypes, Addressed, OnePlace, Purged, [Next]_vars, NEW t \in Tasks, Carries(t)'
  PROVE  /\ task'[t].o \in object' \/ task'[t].pc = "drop"
         /\ task'[t].o \in used' \ later'
         /\ \A u \in Uploads : \A i \in Index : ~(chunk'[u][i] = task'[t].o \/ ticket'[u][i] = task'[t].o)
         /\ \A s \in Tasks : Carries(s)' /\ task'[s].o = task'[t].o => s = t
         /\ \A s \in Tasks : task'[t].o \notin task'[s].seen
<1>0. /\ object \subseteq used /\ later \subseteq used /\ used \subseteq Objects
      /\ \A s \in Tasks : task[s].o \in Objects \cup {None} /\ task[s].seen \subseteq Objects
  BY DEF TypeOK, TaskTypes, ATask
<1>1. None \notin Objects
  BY UploadsAssumption
<1>2. CASE Writes(t)
  <2> DEFINE p == FreshObject
  <2>1. /\ task'[t].o = p /\ p \notin used /\ p \in Objects
        /\ object' = object \cup {p} /\ used' = used \cup {p} /\ UNCHANGED <<chunk, ticket, later>>
        /\ \A s \in Tasks \ {t} : task'[s] = task[s]
        /\ task'[t].seen = task[t].seen
    BY <1>2 DEF Writes, Moves
  <2> HIDE DEF p
  <2>2. \A u \in Uploads : \A i \in Index : ~Holds(u, i, p)
    BY <2>1 DEF OnePlace
  <2>3. \A s \in Tasks : p \notin task[s].seen /\ (Carries(s) => task[s].o # p)
    BY <2>1 DEF OnePlace, Purged
  <2>4. p \in object' /\ p \in used' \ later'
    BY <1>0, <2>1
  <2>5. \A u \in Uploads : \A i \in Index : ~(chunk'[u][i] = p \/ ticket'[u][i] = p)
    BY <2>1, <2>2 DEF Holds
  <2>6. \A s \in Tasks : Carries(s)' /\ task'[s].o = p => s = t
    BY <2>1, <2>3 DEF Carries
  <2>7. \A s \in Tasks : p \notin task'[s].seen
    BY <2>1, <2>3
  <2>. QED
    BY <2>1, <2>4, <2>5, <2>6, <2>7
<1>3. CASE \E s \in Tasks : Source(t, s)
  <2>0. PICK s \in Tasks : Source(t, s)
    BY <1>3
  <2>1. PICK p \in Objects \cup {None} : p = task[s].o
    BY <1>0
  <2>2. /\ Carries(s) /\ task'[t].o = p /\ (task'[t].pc = task[s].pc \/ task'[t].pc = "drop")
        /\ (s = t \/ \E c \in Clients : t = <<c, "stale">> /\ s = <<c, "live">> /\ GiveUp(c))
    BY <2>0, <2>1 DEF Source
  <2>3. /\ p \in object \/ task[s].pc = "drop"
        /\ p \in used \ later
        /\ \A u \in Uploads : \A i \in Index : ~Holds(u, i, p)
        /\ \A r \in Tasks : Carries(r) /\ task[r].o = p => r = s
        /\ \A r \in Tasks : p \notin task[r].seen
    BY <2>1, <2>2 DEF OnePlace
  <2>4. s \in Slots
    BY <2>2 DEF Carries, Addressed, Tasks
  <2>5. task'[t].pc \in {"commit", "drop"}
    BY DEF Carries
  <2>6. ASSUME NEW r \in Slots, Commits(r) PROVE task[r].o # p
    <3>1. Carries(r) /\ r \in Tasks
      BY <2>6, CleanerApart DEF Commits, Carries
    <3>2. CASE r = s
      <4>1. task'[r].pc = "reply"
        BY <2>6 DEF Commits, Replies, Moves
      <4>2. ASSUME NEW c \in Clients, s = <<c, "live">>, GiveUp(c) PROVE FALSE
        <5>1. task'[<<c, "live">>] = Quiet
          BY <4>2, GiveUpMoves
        <5>. QED
          BY <3>2, <4>1, <4>2, <5>1 DEF Quiet
      <4>3. s = t
        BY <2>2, <4>2
      <4>. QED
        BY <2>5, <3>2, <4>1, <4>3
    <3>. QED
      BY <2>3, <3>1, <3>2
  <2>7. ASSUME NEW r \in Slots, Forgets(r) PROVE task[r].o # p
    <3>1. Carries(r) /\ r \in Tasks
      BY <2>7, CleanerApart DEF Forgets, Carries
    <3>2. CASE r = s
      <4>1. task'[r].pc = "reply"
        BY <2>7 DEF Forgets, Replies, Moves
      <4>2. ASSUME NEW c \in Clients, s = <<c, "live">>, GiveUp(c) PROVE FALSE
        <5>1. task'[<<c, "live">>] = Quiet
          BY <4>2, GiveUpMoves
        <5>. QED
          BY <3>2, <4>1, <4>2, <5>1 DEF Quiet
      <4>3. s = t
        BY <2>2, <4>2
      <4>. QED
        BY <2>5, <3>2, <4>1, <4>3
    <3>. QED
      BY <2>3, <3>1, <3>2
  <2>8. p \in Objects
    BY <1>0, <2>3
  <2>9. p \in object' \/ task'[t].pc = "drop"
    <3>1. ASSUME p \in object, p \notin object' PROVE FALSE
      <4>1. ASSUME NEW r \in Tasks, Commits(r) \/ Reserves(r) \/ Adopts(r) \/ Clears(r) \/ Writes(r) \/ Signs(r) \/ Sends(r)
            PROVE  object \subseteq object'
        BY <4>1 DEF Commits, Reserves, Adopts, Clears, Writes, Signs, Sends
      <4>2. ASSUME NEW r \in Tasks, Forgets(r) PROVE FALSE
        BY <2>7, <3>1, <4>2 DEF Forgets
      <4>3. ASSUME NEW r \in Tasks, Empties(r) PROVE FALSE
        BY <2>3, <3>1, <4>3 DEF Empties
      <4>4. ASSUME NEW u \in Uploads, Deletes(u) PROVE FALSE
        BY <3>1, <4>4 DEF Deletes
      <4>5. ASSUME NEW x \in Objects, Drains(x) \/ Expired(x) PROVE FALSE
        BY <2>3, <3>1, <4>5 DEF Drains, Expired
      <4>6. ASSUME NEW x \in Objects, Sweeps(x) PROVE FALSE
        <5>1. task[s].o # x
          BY <2>4, <4>6 DEF Sweeps
        <5>. QED
          BY <2>1, <3>1, <4>6, <5>1 DEF Sweeps
      <4>7. ASSUME UNCHANGED places PROVE FALSE
        BY <3>1, <4>7 DEF places
      <4>. QED
        BY <3>1, <4>1, <4>2, <4>3, <4>4, <4>5, <4>6, <4>7, PlaceSteps
    <3>. QED
      BY <2>2, <2>3, <3>1
  <2>10. p \in used'
    BY <2>3, UsedGrows
  <2>11. p \notin later'
    <3>1. ASSUME NEW v \in Uploads, Deletes(v) PROVE p \notin later'
      <4>1. p \notin Staged(v)
        BY <2>3, <3>1, StagedHolds
      <4>. QED
        BY <2>3, <3>1, <4>1 DEF Deletes
    <3>2. ASSUME NEW r \in Tasks, Commits(r) \/ Reserves(r) \/ Adopts(r) \/ Clears(r)
                                  \/ Writes(r) \/ Forgets(r) \/ Signs(r) \/ Sends(r) \/ Empties(r)
          PROVE  later' = later
      BY <3>2 DEF Commits, Reserves, Adopts, Clears, Writes, Forgets, Signs, Sends, Empties
    <3>3. ASSUME NEW x \in Objects, Drains(x) \/ Sweeps(x) \/ Expired(x)
          PROVE  later' \subseteq later
      BY <3>3 DEF Drains, Sweeps, Expired
    <3>. QED
      BY <2>3, <3>1, <3>2, <3>3, PlaceSteps DEF places
  <2>12. \A u \in Uploads : \A i \in Index : ~Holds(u, i, p)'
    <3>1. \A u \in Uploads : \A i \in Index : Holds(u, i, p)' =>
            \E r \in Slots : (Commits(r) /\ p = task[r].o) \/ (Reserves(r) /\ p = FreshObject)
      <4>1. CASE \A v \in Uploads : \A j \in Index : \A o \in Objects : Holds(v, j, o)' => Holds(v, j, o)
        BY <2>3, <2>8, <4>1
      <4>2. CASE \E r \in Slots, q \in Objects :
              /\ (Commits(r) /\ q = task[r].o) \/ (Reserves(r) /\ q = FreshObject)
              /\ task[r].u \in Uploads /\ task[r].i \in Index
              /\ \A v \in Uploads : \A j \in Index : \A o \in Objects :
                   Holds(v, j, o)' => Holds(v, j, o) \/ (v = task[r].u /\ j = task[r].i /\ o = q)
        BY <2>3, <2>8, <4>2
      <4>. QED
        BY <4>1, <4>2, NewPlace
    <3>2. ASSUME NEW r \in Slots, Reserves(r) PROVE p # FreshObject
      BY <2>3, <3>2 DEF Reserves
    <3>. QED
      BY <2>6, <3>1, <3>2
  <2>13. ASSUME NEW r \in Tasks, Carries(r)', task'[r].o = p PROVE r = t
    <3>1. CASE Writes(r)
      BY <2>3, <2>13, <3>1 DEF Writes, Moves
    <3>2. CASE \E q \in Tasks : Source(r, q)
      <4>1. PICK q \in Tasks : Source(r, q)
        BY <3>2
      <4>2. q = s
        BY <2>3, <2>13, <4>1 DEF Source
      <4>3. s = r \/ \E c \in Clients : r = <<c, "stale">> /\ s = <<c, "live">> /\ GiveUp(c)
        BY <4>1, <4>2 DEF Source
      <4>4. ASSUME NEW c \in Clients, s = <<c, "live">>, GiveUp(c) PROVE t # s /\ r # s
        <5>1. task'[<<c, "live">>] = Quiet
          BY <4>4, GiveUpMoves
        <5>2. task'[s].pc = "idle"
          BY <4>4, <5>1 DEF Quiet
        <5>. QED
          BY <2>5, <2>13, <5>2 DEF Carries
      <4>. QED
        BY <2>2, <4>3, <4>4
    <3>. QED
      BY <2>13, <3>1, <3>2, CarriesStep
  <2>14. ASSUME NEW r \in Tasks, p \in task'[r].seen PROVE FALSE
    <3>1. CASE \E q \in Tasks : task'[r] = task[q]
      BY <2>3, <2>14, <3>1
    <3>2. CASE task'[r].seen = task[r].seen
      BY <2>3, <2>14, <3>2
    <3>3. CASE Purge(r) /\ task'[r].seen = Staged(task[r].u)
      <4>1. task[r].u \in Uploads
        BY <3>3 DEF Purge, At, Addressed, NeedsUpload
      <4>. QED
        BY <2>3, <2>14, <3>3, <4>1, StagedHolds
    <3>. QED
      BY <2>14, <3>1, <3>2, <3>3, SeenStep
  <2>. QED
    BY <2>2, <2>9, <2>10, <2>11, <2>12, <2>13, <2>14 DEF Holds
<1>. QED
  BY <1>2, <1>3, CarriesStep

\* The object that a task works on was handed out.
LEMMA KnownStep ==
  ASSUME TypeOK, TaskTypes, Addressed, OnePlace, [Next]_vars, NEW t \in Tasks
  PROVE  task'[t].o \in used' \cup {None} /\ (task'[t].pc \in {"sign", "adopt"} => task'[t].o # None)
<1> DEFINE P == task'[t].o \in used' \cup {None} /\ (task'[t].pc \in {"sign", "adopt"} => task'[t].o # None)
<1>0. /\ used \subseteq used' /\ \A s \in Tasks : task[s].o \in used \cup {None}
      /\ \A u \in Uploads, i \in Index : ticket[u][i] \in used \cup {None}
  <2>1. \A u \in Uploads, i \in Index : ticket[u][i] \in Objects \cup {None}
    BY DEF TypeOK
  <2>2. \A u \in Uploads : \A i \in Index : \A o \in Objects : ticket[u][i] = o => o \in used
    BY DEF OnePlace, Holds
  <2>. QED
    BY <2>1, <2>2, UsedGrows DEF OnePlace
<1>1. ASSUME NEW s \in Tasks, task'[t] = task[s] PROVE P
  BY <1>0, <1>1 DEF OnePlace
<1>2. CASE Kept(t)
  BY <1>1, <1>2 DEF Kept
<1>3. CASE Taken(t)
  BY <1>1, <1>3, GiveUpMoves, CleanerApart DEF Taken
<1>4. ASSUME Begins(t) PROVE P
  BY <1>4 DEF Begins
<1>5. CASE Acts(t)
  <2>1. Replies(t) /\ t # Cleaner => Begins(t)
    BY EndsBegins DEF Ends
  <2>2. Ends(t) => Begins(t)
    BY EndsBegins
  <2>3. ASSUME NEW pc \in {"reserve", "drop", "upload", "finish", "sealing", "insert", "purge", "rows", "mark", "discard", "objects"},
               NEW u, NEW i, NEW seen, NEW ok, Moves(t, pc, u, i, task[t].o, seen, ok)
        PROVE  P
    BY <1>0, <2>3 DEF Moves
  <2>4. CASE t \in Slots /\ (Lookup(t) \/ Commit(t))
    BY <1>4, <2>1, <2>3, <2>4, UploadMoves, CleanerApart DEF Same
  <2>5. CASE t \in Slots /\ Put(t)
    BY <1>4, <2>1, <2>5, UploadMoves, CleanerApart DEF Moves
  <2>6. CASE t \in Slots /\ (Sign(t) \/ DirectPut(t) \/ Check(t) \/ Enqueue(t))
    BY <1>4, <2>1, <2>3, <2>6, DirectMoves, CleanerApart DEF Same
  <2>7. CASE t \in Slots /\ (Prepare(t) \/ Finish(t))
    <3>1. task[t].u \in Uploads /\ task[t].i \in Index
      BY <2>7, CleanerApart DEF Addressed, Prepare, Finish, At, NeedsUpload
    <3>2. ticket[task[t].u][task[t].i] \in used' \cup {None}
      BY <1>0, <3>1
    <3>3. FreshObject \in Objects \ used => FreshObject # None
      BY UploadsAssumption
    <3>4. \/ Begins(t)
          \/ task'[t].o = ticket[task[t].u][task[t].i] /\ ticket[task[t].u][task[t].i] # None
          \/ task'[t].o = FreshObject /\ FreshObject \in Objects \ used /\ used' = used \cup {FreshObject}
      BY <2>1, <2>7, DirectMoves, CleanerApart DEF Moves
    <3>. QED
      BY <1>4, <3>2, <3>3, <3>4
  <2>8. CASE Purge(t) \/ PurgeObjects(t) \/ PurgeRows(t) \/ Mark(t)
    BY <1>4, <2>2, <2>3, <2>8, PurgeMoves DEF Same
  <2>9. CASE t = Cleaner /\ \E u \in Uploads : Sweep(u)
    BY <2>9, OtherMoves DEF Moves
  <2>. QED
    BY <1>5, <2>4, <2>5, <2>6, <2>7, <2>8, <2>9 DEF Acts
<1>. QED
  BY <1>2, <1>3, <1>4, <1>5, Origins

\* Every step keeps each object in one place.
LEMMA OnePlaceStep ==
  ASSUME TypeOK, TaskTypes, Addressed, OnePlace, Purged, [Next]_vars
  PROVE  OnePlace'
<1>1. \A t \in Tasks : Carries(t)' =>
       /\ task'[t].o \in object' \/ task'[t].pc = "drop"
       /\ task'[t].o \in used' \ later'
       /\ \A u \in Uploads : \A i \in Index : ~(chunk'[u][i] = task'[t].o \/ ticket'[u][i] = task'[t].o)
       /\ \A s \in Tasks : Carries(s)' /\ task'[s].o = task'[t].o => s = t
       /\ \A s \in Tasks : task'[t].o \notin task'[s].seen
  BY CarryStep
<1>2. \A t \in Tasks : task'[t].o \in used' \cup {None} /\ (task'[t].pc \in {"sign", "adopt"} => task'[t].o # None)
  BY KnownStep
<1>. QED
  BY <1>1, <1>2, PlaceStep DEF OnePlace, Holds, Carries

\* What belongs to one upload is purged with that upload only.
LEMMA SeenAgain ==
  ASSUME TypeOK, TaskTypes, Addressed, Closing, OnePlace, Purged, [Next]_vars,
         NEW t \in Tasks, NEW o \in task[t].seen
  PROVE  /\ o \in used' /\ o \notin url'
         /\ \A v \in Uploads : \A i \in Index : chunk'[v][i] = o \/ ticket'[v][i] = o => v = task[t].u
<1>1. /\ o \in used /\ o \notin url /\ o \in Objects
      /\ \A v \in Uploads : \A i \in Index : Holds(v, i, o) => v = task[t].u
  BY DEF Purged, TypeOK
<1>2. Closed(task[t].u) /\ task[t].u \in Uploads
  BY DEF Purged, Closing, Purger, Addressed, NeedsUpload
<1>3. o \notin url'
  <2>1. ASSUME NEW s \in Tasks, Signs(s) PROVE o # task[s].o
    <3>1. task[s].u \in Uploads /\ task[s].i \in Index /\ Writable(task[s].u) /\ ticket[task[s].u][task[s].i] = task[s].o
      BY <2>1 DEF Signs, Addressed, NeedsUpload
    <3>2. task[s].o = o => task[s].u = task[t].u
      BY <1>1, <3>1 DEF Holds
    <3>. QED
      BY <1>2, <3>1, <3>2 DEF Closed, Writable
  <2>2. ASSUME NEW s \in Tasks, Commits(s) \/ Reserves(s) \/ Adopts(s) \/ Clears(s)
                                \/ Writes(s) \/ Forgets(s) \/ Sends(s) \/ Empties(s)
        PROVE  url' = url
    BY <2>2 DEF Commits, Reserves, Adopts, Clears, Writes, Forgets, Sends, Empties
  <2>3. ASSUME NEW u \in Uploads, Deletes(u) PROVE url' = url
    BY <2>3 DEF Deletes
  <2>4. ASSUME NEW x \in Objects, Drains(x) \/ Sweeps(x) \/ Expired(x) PROVE url' \subseteq url
    BY <2>4 DEF Drains, Sweeps, Expired
  <2>5. ASSUME NEW s \in Tasks, Signs(s) PROVE url' = url \cup {task[s].o}
    BY <2>5 DEF Signs
  <2>. QED
    BY <1>1, <2>1, <2>2, <2>3, <2>4, <2>5, PlaceSteps DEF places
<1>4. ASSUME NEW v \in Uploads, NEW i \in Index, Holds(v, i, o)' PROVE v = task[t].u
  <2>1. CASE \A u \in Uploads : \A j \in Index : \A p \in Objects : Holds(u, j, p)' => Holds(u, j, p)
    BY <1>1, <1>4, <2>1
  <2>2. CASE \E s \in Slots, p \in Objects :
              /\ (Commits(s) /\ p = task[s].o) \/ (Reserves(s) /\ p = FreshObject)
              /\ task[s].u \in Uploads /\ task[s].i \in Index
              /\ \A w \in Uploads : \A j \in Index : \A q \in Objects :
                   Holds(w, j, q)' => Holds(w, j, q) \/ (w = task[s].u /\ j = task[s].i /\ q = p)
    <3>1. PICK s \in Slots, p \in Objects :
              /\ (Commits(s) /\ p = task[s].o) \/ (Reserves(s) /\ p = FreshObject)
              /\ \A w \in Uploads : \A j \in Index : \A q \in Objects :
                   Holds(w, j, q)' => Holds(w, j, q) \/ (w = task[s].u /\ j = task[s].i /\ q = p)
      BY <2>2
    <3>2. CASE Commits(s) /\ p = task[s].o
      <4>1. Carries(s) /\ s \in Tasks
        BY <3>2, CleanerApart DEF Commits, Carries
      <4>2. o # p
        BY <3>2, <4>1 DEF OnePlace
      <4>. QED
        BY <1>1, <1>4, <3>1, <4>2
    <3>3. CASE Reserves(s) /\ p = FreshObject
      <4>1. o # p
        BY <1>1, <3>3 DEF Reserves
      <4>. QED
        BY <1>1, <1>4, <3>1, <4>1
    <3>. QED
      BY <3>1, <3>2, <3>3
  <2>. QED
    BY <2>1, <2>2, NewPlace
<1>5. o \in used'
  BY <1>1, UsedGrows
<1>. QED
  BY <1>3, <1>4, <1>5 DEF Holds

\* Every step keeps what purges have read.
LEMMA PurgedStep ==
  ASSUME TypeOK, TaskTypes, Addressed, Closing, OnePlace, Purged, [Next]_vars
  PROVE  Purged'
<1>1. ASSUME NEW t \in Tasks, task'[t].seen # {}
      PROVE  /\ task'[t].pc \in {"objects", "rows", "mark", "discard"}
             /\ \A o \in task'[t].seen :
                  /\ o \in used' /\ o \notin url'
                  /\ \A v \in Uploads : \A i \in Index : chunk'[v][i] = o \/ ticket'[v][i] = o => v = task'[t].u
  <2> DEFINE P == /\ task'[t].pc \in {"objects", "rows", "mark", "discard"}
                  /\ \A o \in task'[t].seen :
                       /\ o \in used' /\ o \notin url'
                       /\ \A v \in Uploads : \A i \in Index : chunk'[v][i] = o \/ ticket'[v][i] = o => v = task'[t].u
  <2>1. CASE \E s \in Tasks : task'[t] = task[s]
    <3>1. PICK s \in Tasks : task'[t] = task[s]
      BY <2>1
    <3>2. task'[t].pc = task[s].pc /\ task'[t].seen = task[s].seen /\ task'[t].u = task[s].u
      BY <3>1
    <3>3. task[s].pc \in {"objects", "rows", "mark", "discard"}
      BY <1>1, <3>2 DEF Purged
    <3>. QED
      BY <3>2, <3>3, SeenAgain
  <2>2. CASE /\ Purge(t) /\ MayPurge(task[t].u) /\ UNCHANGED places
             /\ task'[t].pc = "objects" /\ task'[t].u = task[t].u /\ task'[t].seen = Staged(task[t].u)
    <3>1. task[t].u \in Uploads
      BY <2>2 DEF Purge, At, Addressed, NeedsUpload
    <3>2. ASSUME NEW o \in Staged(task[t].u)
          PROVE  /\ o \in used /\ o \notin url
                 /\ \A v \in Uploads : \A i \in Index : Holds(v, i, o) => v = task[t].u
      <4>1. o \in Objects
        BY <3>1, UploadsAssumption DEF Staged, Rows, Tickets, TypeOK
      <4>2. PICK i \in Index : Holds(task[t].u, i, o)
        BY <3>1, StagedHolds
      <4>. QED
        BY <2>2, <3>1, <4>1, <4>2 DEF OnePlace, MayPurge
    <3>. QED
      BY <2>2, <3>2 DEF places, Holds
  <2>3. CASE /\ task'[t].seen = task[t].seen
             /\ \/ t \in Slots /\ task[t].pc \in {"lookup", "put", "commit", "prepare", "sign", "upload", "finish", "check", "enqueue"}
                \/ /\ task[t].pc \in {"objects", "rows", "mark"} /\ task'[t].pc \in {"rows", "mark", "discard"}
                   /\ task'[t].u = task[t].u
    <3>1. task[t].seen # {}
      BY <1>1, <2>3
    <3>2. task[t].pc \in {"objects", "rows", "mark", "discard"}
      BY <3>1 DEF Purged
    <3>. QED
      BY <2>3, <3>2, SeenAgain
  <2>. QED
    BY <1>1, <2>1, <2>2, <2>3, SeenStep
<1>. QED
  BY <1>1 DEF Purged, Holds

-----------------------------------------------------------------------------
(* The audio behind the rows *)

\* A purge that has deleted its objects stays there until it deletes their rows.
LEMMA RowsStay ==
  ASSUME TypeOK, TaskTypes, Addressed, [Next]_vars, NEW t \in Tasks, task[t].pc = "rows"
  PROVE  Clears(t) \/ \E s \in Tasks : task'[s] = task[t]
<1> DEFINE P == Clears(t) \/ \E s \in Tasks : task'[s] = task[t]
<1>1. ASSUME NEW s \in Tasks, s # t, \A r \in Tasks \ {s} : task'[r] = task[r] PROVE P
  BY <1>1
<1>2. ASSUME NEW s \in Tasks, NEW pc, NEW u, NEW i, NEW o, NEW seen, NEW ok, Moves(s, pc, u, i, o, seen, ok)
      PROVE  \A r \in Tasks \ {s} : task'[r] = task[r]
  BY <1>2 DEF Moves
<1>3. ASSUME NEW s \in Tasks, Ends(s) PROVE \A r \in Tasks \ {s} : task'[r] = task[r]
  BY <1>3 DEF Ends, Replies, Moves
<1>4. ASSUME NEW s \in Slots, Replies(s) PROVE \A r \in Tasks \ {s} : task'[r] = task[r]
  BY <1>4 DEF Replies, Moves
<1>5. ASSUME NEW s \in Slots, Serve(s) PROVE P
  <2>1. s \in Tasks
    BY CleanerApart
  <2>2. s # t
    BY <1>5 DEF Serve, Lookup, Reserve, Put, Commit, Drop, Prepare, Sign, DirectPut, Finish, Adopt, Check, Seal,
       Enqueue, Insert, At
  <2>3. CASE Reserve(s) \/ Drop(s) \/ Lookup(s) \/ Put(s) \/ Commit(s)
    <3>1. \A r \in Tasks \ {s} : task'[r] = task[r]
      BY <1>2, <1>4, <2>1, <2>3, UploadMoves DEF Same
    <3>. QED
      BY <1>1, <2>1, <2>2, <3>1
  <2>4. CASE Adopt(s) \/ Seal(s) \/ Insert(s) \/ Prepare(s) \/ Sign(s) \/ DirectPut(s) \/ Finish(s) \/ Check(s) \/ Enqueue(s)
    <3>1. \A r \in Tasks \ {s} : task'[r] = task[r]
      BY <1>2, <1>4, <2>1, <2>4, DirectMoves DEF Same
    <3>. QED
      BY <1>1, <2>1, <2>2, <3>1
  <2>. QED
    BY <1>5, <2>3, <2>4 DEF Serve
<1>6. ASSUME NEW s \in Tasks, Purge(s) \/ PurgeObjects(s) \/ Mark(s) PROVE P
  <2>1. s # t
    BY <1>6 DEF Purge, PurgeObjects, Mark, At
  <2>2. \A r \in Tasks \ {s} : task'[r] = task[r]
    BY <1>2, <1>3, <1>6, PurgeMoves DEF Same
  <2>. QED
    BY <1>1, <2>1, <2>2
<1>7. ASSUME NEW s \in Tasks, PurgeRows(s) PROVE P
  <2>1. CASE s # t
    <3>1. \A r \in Tasks \ {s} : task'[r] = task[r]
      BY <1>2, <1>7, PurgeMoves DEF Same
    <3>. QED
      BY <1>1, <2>1, <3>1
  <2>2. CASE s = t
    BY <1>7, <2>2, PurgeRowsClears
  <2>. QED
    BY <2>1, <2>2
<1>8. ASSUME NEW c \in Clients, GiveUp(c) PROVE P
  <2>1. \A l : l = <<c, "live">> => (t = l => task'[<<c, "stale">>] = task[t])
    BY <1>8, GiveUpMoves
  <2>2. t # <<c, "stale">>
    BY <1>8, GiveUpMoves
  <2>3. <<c, "stale">> \in Tasks
    BY <1>8, GiveUpMoves, CleanerApart
  <2>4. t # <<c, "live">> => task'[t] = task[t]
    BY <1>8, <2>2, GiveUpMoves
  <2>. QED
    BY <2>1, <2>3, <2>4
<1>9. ASSUME NEW c \in Clients, Send(c) \/ Forget(c) \/ Receive(c) PROVE P
  <2>1. <<c, "live">> \in Tasks /\ <<c, "stale">> \in Tasks
    BY DEF Tasks, Slots
  <2>2. CASE Send(c)
    <3>1. t # <<c, "live">>
      BY <2>2 DEF Send
    <3>2. \A r \in Tasks \ {<<c, "live">>} : task'[r] = task[r]
      BY <1>2, <2>1, <2>2, OtherMoves
    <3>. QED
      BY <3>1, <3>2
  <2>3. CASE Forget(c)
    <3>1. t # <<c, "stale">>
      BY <2>3 DEF Forget, At
    <3>2. \A r \in Tasks \ {<<c, "stale">>} : task'[r] = task[r]
      BY <1>3, <2>1, <2>3, OtherMoves
    <3>. QED
      BY <3>1, <3>2
  <2>4. CASE Receive(c)
    <3>1. t # <<c, "live">>
      BY <2>4 DEF Receive
    <3>2. \A r \in Tasks \ {<<c, "live">>} : task'[r] = task[r]
      BY <1>3, <2>1, <2>4, OtherMoves
    <3>. QED
      BY <3>1, <3>2
  <2>. QED
    BY <1>9, <2>2, <2>3, <2>4
<1>10. ASSUME Discard \/ \E u \in Uploads : Sweep(u) PROVE P
  <2>1. t # Cleaner
    BY <1>10 DEF Discard, Sweep, At
  <2>2. \A r \in Tasks \ {Cleaner} : task'[r] = task[r]
    BY <1>2, <1>10, CleanerApart, OtherMoves
  <2>. QED
    BY <2>1, <2>2
<1>11. ASSUME \/ \E u \in Uploads : Work(u) \/ DeleteMeeting(u) \/ Deadline(u)
              \/ \E o \in Objects : Drain(o) \/ SweepStale(o) \/ UrlExpires(o)
              \/ UNCHANGED vars
       PROVE  P
  BY <1>11 DEF Work, DeleteMeeting, Deadline, Drain, SweepStale, UrlExpires, vars
<1> HIDE DEF P
<1>12. P
  BY <1>5, <1>6, <1>7, <1>8, <1>9, <1>10, <1>11 DEF Next
<1>. QED
  BY <1>12 DEF P

\* What happens to an object behind a row.
LEMMA RowStored ==
  ASSUME TypeOK, TaskTypes, Addressed, Closing, OnePlace, Purged, Stored, [Next]_vars,
         NEW u \in Uploads, NEW i \in Index, chunk'[u][i] # None
  PROVE  \/ chunk'[u][i] \in object' \/ up'[u].late
         \/ \E t \in Tasks : task'[t].pc = "rows" /\ chunk'[u][i] \in task'[t].seen
<1>1. PICK o \in Objects : o = chunk'[u][i]
  BY StoreTypes DEF Cells
<1> SUFFICES ASSUME o \notin object', ~up'[u].late
             PROVE  \E t \in Tasks : task'[t].pc = "rows" /\ o \in task'[t].seen
  BY <1>1
<1>2. ~up[u].late
  BY Forward
<1>3. ASSUME NEW t \in Tasks, Commits(t), chunk[u][i] # o PROVE FALSE
  <2>1. task[t].o = o /\ Carries(t) /\ task[t].pc # "drop"
    BY <1>1, <1>3 DEF Commits, Carries
  <2>2. o \in object
    BY <2>1 DEF OnePlace
  <2>. QED
    BY <1>3, <2>2 DEF Commits
<1>4. ASSUME NEW t \in Tasks, Adopts(t), chunk[u][i] # o PROVE FALSE
  <2>1. task[t].u \in Uploads /\ task[t].i \in Index /\ task[t].pc = "adopt" /\ Writable(task[t].u)
    BY <1>4 DEF Adopts, Addressed, NeedsUpload
  <2>2. u = task[t].u /\ i = task[t].i
    BY <1>1, <1>4, <2>1 DEF Adopts
  <2>3. chunk[u][i] = None /\ task[t].o = o /\ ticket[u][i] = o
    BY <1>1, <1>4, <2>2 DEF Adopts
  <2>4. ~Closed(u)
    BY <2>1, <2>2 DEF Writable, Closed
  <2>5. o \in object
    BY <2>1, <2>2, <2>3, <2>4 DEF Stored
  <2>. QED
    BY <1>4, <2>5 DEF Adopts
<1>5. chunk[u][i] = o
  <2>1. ASSUME NEW t \in Tasks, Reserves(t) \/ Clears(t) \/ Writes(t) \/ Forgets(t) \/ Signs(t) \/ Sends(t) \/ Empties(t)
        PROVE  chunk[u][i] = o
    BY <1>1, <2>1, UploadsAssumption DEF Reserves, Clears, Writes, Forgets, Signs, Sends, Empties
  <2>2. ASSUME NEW v \in Uploads, Deletes(v) PROVE chunk[u][i] = o
    BY <1>1, <2>2, UploadsAssumption DEF Deletes
  <2>3. ASSUME NEW x \in Objects, Drains(x) \/ Sweeps(x) \/ Expired(x) PROVE chunk[u][i] = o
    BY <1>1, <2>3 DEF Drains, Sweeps, Expired
  <2>. QED
    BY <1>1, <1>3, <1>4, <2>1, <2>2, <2>3, PlaceSteps DEF places
<1>6. Holds(u, i, o) /\ o \notin later
  BY <1>5 DEF Holds, OnePlace
<1>7. CASE o \in object
  <2>1. ASSUME NEW t \in Tasks, Forgets(t) PROVE FALSE
    <3>1. task[t].o # o
      BY <1>6, <2>1 DEF Forgets, OnePlace, Carries
    <3>. QED
      BY <1>7, <2>1, <3>1 DEF Forgets
  <2>2. ASSUME NEW t \in Tasks, Empties(t) PROVE task'[t].pc = "rows" /\ o \in task'[t].seen
    BY <1>7, <2>2 DEF Empties, Same, Moves
  <2>3. ASSUME NEW x \in Objects, Drains(x) \/ Expired(x) PROVE FALSE
    BY <1>6, <1>7, <2>3 DEF Drains, Expired
  <2>4. ASSUME NEW x \in Objects, Sweeps(x) PROVE FALSE
    <3>1. x = o
      BY <1>7, <2>4 DEF Sweeps
    <3>2. o \in Staged(u)
      BY <1>6, StagedHolds, UploadsAssumption
    <3>. QED
      BY <1>2, <2>4, <3>1, <3>2 DEF Sweeps
  <2>5. ASSUME NEW t \in Tasks, Commits(t) \/ Reserves(t) \/ Adopts(t) \/ Clears(t) \/ Writes(t) \/ Signs(t) \/ Sends(t)
        PROVE  FALSE
    BY <1>7, <2>5 DEF Commits, Reserves, Adopts, Clears, Writes, Signs, Sends
  <2>6. ASSUME NEW v \in Uploads, Deletes(v) PROVE FALSE
    BY <1>7, <2>6 DEF Deletes
  <2>7. ASSUME UNCHANGED places PROVE FALSE
    BY <1>7, <2>7 DEF places
  <2>. QED
    BY <2>1, <2>2, <2>3, <2>4, <2>5, <2>6, <2>7, PlaceSteps
<1>8. CASE o \notin object
  <2>1. PICK t \in Tasks : task[t].pc = "rows" /\ o \in task[t].seen
    BY <1>2, <1>5, <1>8, UploadsAssumption DEF Stored
  <2>2. u = task[t].u
    BY <1>6, <2>1 DEF Purged
  <2>3. ~Clears(t)
    BY <1>1, <1>5, <2>1, <2>2, UploadsAssumption DEF Clears
  <2>. QED
    BY <2>1, <2>3, RowsStay
<1>. QED
  BY <1>7, <1>8

\* A verified reservation keeps its object while the upload is open.
LEMMA VerifiedStays ==
  ASSUME TypeOK, TaskTypes, Addressed, Closing, OnePlace, Purged, Stored, [Next]_vars,
         NEW s \in Tasks, task[s].pc = "adopt"
  PROVE  \/ ticket'[task[s].u][task[s].i] # task[s].o
         \/ task[s].o \in object'
         \/ up'[task[s].u].late \/ up'[task[s].u].status \in {"complete", "expired", "deleted"}
<1>1. s \in Slots
  BY DEF Addressed, Tasks
<1>2. PICK u \in Uploads, i \in Index, o \in Objects : u = task[s].u /\ i = task[s].i /\ o = task[s].o
  BY <1>1 DEF Addressed, NeedsUpload, OnePlace, TypeOK
<1>3. o \in used
  BY <1>2, UploadsAssumption DEF OnePlace
<1>4. CASE ticket[u][i] # o
  <2>1. ASSUME NEW t \in Tasks, Reserves(t) PROVE ticket'[u][i] # o
    <3>1. FreshObject # o
      BY <1>3, <2>1 DEF Reserves
    <3>. QED
      BY <1>4, <2>1, <3>1 DEF Reserves
  <2>2. ASSUME NEW t \in Tasks, Adopts(t) PROVE ticket'[u][i] # o
    BY <1>2, <1>4, <2>2, UploadsAssumption DEF Adopts
  <2>3. ASSUME NEW t \in Tasks, Clears(t) PROVE ticket'[u][i] # o
    BY <1>4, <2>3, UploadsAssumption DEF Clears
  <2>4. ASSUME NEW v \in Uploads, Deletes(v) PROVE ticket'[u][i] # o
    BY <1>4, <2>4, UploadsAssumption DEF Deletes
  <2>5. ASSUME NEW t \in Tasks, Commits(t) \/ Writes(t) \/ Forgets(t) \/ Signs(t) \/ Sends(t) \/ Empties(t)
        PROVE  ticket'[u][i] # o
    BY <1>4, <2>5 DEF Commits, Writes, Forgets, Signs, Sends, Empties
  <2>6. ASSUME NEW x \in Objects, Drains(x) \/ Sweeps(x) \/ Expired(x) PROVE ticket'[u][i] # o
    BY <1>4, <2>6 DEF Drains, Sweeps, Expired
  <2>7. ticket'[u][i] # o
    BY <1>4, <2>1, <2>2, <2>3, <2>4, <2>5, <2>6, PlaceSteps DEF places
  <2>. QED
    BY <1>2, <2>7
<1>5. CASE Closed(u)
  BY <1>2, <1>5, Forward DEF Closed
<1>6. CASE ticket[u][i] = o /\ ~Closed(u)
  <2>0. o \in object /\ Holds(u, i, o) /\ o \notin later
    BY <1>2, <1>6 DEF Stored, Holds, OnePlace
  <2>1. ASSUME NEW t \in Tasks, Forgets(t) PROVE o \in object'
    <3>1. task[t].o # o
      BY <2>0, <2>1 DEF Forgets, OnePlace, Carries
    <3>. QED
      BY <2>0, <2>1, <3>1 DEF Forgets
  <2>2. ASSUME NEW t \in Tasks, Empties(t) PROVE o \in object'
    <3>1. CASE o \in task[t].seen
      <4>1. u = task[t].u
        BY <2>0, <3>1 DEF Purged
      <4>2. Closed(u)
        BY <2>2, <4>1 DEF Empties, Closing, Purger
      <4>. QED
        BY <1>6, <4>2
    <3>2. CASE o \notin task[t].seen
      BY <2>0, <2>2, <3>2 DEF Empties
    <3>. QED
      BY <3>1, <3>2
  <2>3. ASSUME NEW x \in Objects, Drains(x) \/ Expired(x) PROVE o \in object'
    BY <2>0, <2>3 DEF Drains, Expired
  <2>4. ASSUME NEW x \in Objects, Sweeps(x) PROVE o \in object'
    BY <1>1, <1>2, <2>0, <2>4 DEF Sweeps
  <2>5. ASSUME NEW t \in Tasks, Commits(t) \/ Reserves(t) \/ Adopts(t) \/ Clears(t) \/ Writes(t) \/ Signs(t) \/ Sends(t)
        PROVE  o \in object'
    BY <2>0, <2>5 DEF Commits, Reserves, Adopts, Clears, Writes, Signs, Sends
  <2>6. ASSUME NEW v \in Uploads, Deletes(v) PROVE o \in object'
    BY <2>0, <2>6 DEF Deletes
  <2>7. o \in object'
    BY <2>0, <2>1, <2>2, <2>3, <2>4, <2>5, <2>6, PlaceSteps DEF places
  <2>. QED
    BY <1>2, <2>7
<1>. QED
  BY <1>4, <1>5, <1>6

\* Every step keeps the audio behind rows and verified reservations.
LEMMA StoredStep ==
  ASSUME TypeOK, TaskTypes, Addressed, Closing, OnePlace, Purged, Stored, [Next]_vars
  PROVE  Stored'
<1>1. ASSUME NEW t \in Tasks, task'[t].pc = "adopt"
      PROVE  \/ ticket'[task'[t].u][task'[t].i] # task'[t].o
             \/ task'[t].o \in object' \/ Closed(task[t].u)'
  <2>1. ASSUME NEW s \in Tasks, task'[t] = task[s]
        PROVE  \/ ticket'[task'[t].u][task'[t].i] # task'[t].o
               \/ task'[t].o \in object' \/ Closed(task[t].u)'
    <3>1. task[s].pc = "adopt" /\ task'[t].u = task[s].u /\ task'[t].i = task[s].i /\ task'[t].o = task[s].o
      BY <1>1, <2>1
    <3>2. \/ ticket'[task[s].u][task[s].i] # task[s].o
          \/ task[s].o \in object'
          \/ up'[task[s].u].late \/ up'[task[s].u].status \in {"complete", "expired", "deleted"}
      BY <3>1, VerifiedStays
    <3>. QED
      BY <3>1, <3>2 DEF Closed
  <2>2. CASE Kept(t)
    BY <2>1, <2>2 DEF Kept
  <2>3. CASE Taken(t)
    BY <2>1, <2>3, GiveUpMoves, CleanerApart DEF Taken
  <2>4. CASE Begins(t)
    BY <1>1, <2>4 DEF Begins
  <2>5. CASE Acts(t)
    <3>1. ~Begins(t)
      BY <1>1 DEF Begins
    <3>2. ~(Replies(t) /\ t # Cleaner) /\ ~Ends(t)
      BY <3>1, EndsBegins DEF Ends
    <3>3. CASE t \in Slots /\ (Lookup(t) \/ Put(t) \/ Commit(t))
      BY <1>1, <3>2, <3>3, UploadMoves, CleanerApart DEF Moves, Same
    <3>4. CASE t \in Slots /\ (Prepare(t) \/ Sign(t) \/ DirectPut(t) \/ Check(t) \/ Enqueue(t))
      BY <1>1, <3>2, <3>4, DirectMoves, CleanerApart DEF Moves, Same
    <3>5. CASE t \in Slots /\ Finish(t)
      <4>1. object' = object
        BY <3>5 DEF Finish, storage
      <4>. QED
        BY <3>2, <3>5, <4>1, DirectMoves, CleanerApart DEF Moves
    <3>6. CASE Purge(t) \/ PurgeObjects(t) \/ PurgeRows(t) \/ Mark(t)
      BY <1>1, <3>2, <3>6, PurgeMoves DEF Moves, Same
    <3>7. CASE t = Cleaner /\ \E u \in Uploads : Sweep(u)
      BY <1>1, <3>7, OtherMoves DEF Moves
    <3>. QED
      BY <2>5, <3>3, <3>4, <3>5, <3>6, <3>7 DEF Acts
  <2>. QED
    BY <2>2, <2>3, <2>4, <2>5, Origins
<1>. QED
  BY <1>1, RowStored DEF Stored, Closed

\* Every step keeps a place for each object that a URL can still write.
LEMMA SignedStep ==
  ASSUME TypeOK, TaskTypes, Addressed, Closing, OnePlace, Purged, Signed, [Next]_vars
  PROVE  Signed'
<1> SUFFICES ASSUME NEW o \in url' PROVE o \in later' \/ \E u \in Uploads : \E i \in Index : Holds(u, i, o)'
  BY DEF Signed, Holds
<1> DEFINE P == o \in later' \/ \E u \in Uploads : \E i \in Index : Holds(u, i, o)'
<1>0. o \in Objects
  BY StoreTypes
<1>1. CASE o \notin url
  <2>1. \E t \in Tasks : Signs(t)
    <3>1. ASSUME NEW t \in Tasks, Commits(t) \/ Reserves(t) \/ Adopts(t) \/ Clears(t)
                                  \/ Writes(t) \/ Forgets(t) \/ Sends(t) \/ Empties(t)
          PROVE  FALSE
      BY <1>1, <3>1 DEF Commits, Reserves, Adopts, Clears, Writes, Forgets, Sends, Empties
    <3>2. ASSUME NEW u \in Uploads, Deletes(u) PROVE FALSE
      BY <1>1, <3>2 DEF Deletes
    <3>3. ASSUME NEW x \in Objects, Drains(x) \/ Sweeps(x) \/ Expired(x) PROVE FALSE
      BY <1>1, <3>3 DEF Drains, Sweeps, Expired
    <3>. QED
      BY <1>1, <3>1, <3>2, <3>3, PlaceSteps DEF places
  <2>2. PICK t \in Tasks : Signs(t)
    BY <2>1
  <2>3. task[t].u \in Uploads /\ task[t].i \in Index
    BY <2>2 DEF Signs, Addressed, NeedsUpload
  <2>4. o = ticket'[task[t].u][task[t].i]
    BY <1>1, <2>2 DEF Signs
  <2>. QED
    BY <2>3, <2>4 DEF Holds
<1>2. CASE o \in url /\ o \in later
  <2>1. ASSUME NEW t \in Tasks, Commits(t) \/ Reserves(t) \/ Adopts(t) \/ Clears(t)
                                \/ Writes(t) \/ Forgets(t) \/ Signs(t) \/ Sends(t) \/ Empties(t)
        PROVE  o \in later'
    BY <1>2, <2>1 DEF Commits, Reserves, Adopts, Clears, Writes, Forgets, Signs, Sends, Empties
  <2>2. ASSUME NEW u \in Uploads, Deletes(u) PROVE o \in later'
    BY <1>2, <2>2 DEF Deletes
  <2>3. ASSUME NEW x \in Objects, Drains(x) \/ Sweeps(x) \/ Expired(x) PROVE o \in later'
    BY <1>2, <2>3 DEF Drains, Sweeps, Expired
  <2>. QED
    BY <1>2, <2>1, <2>2, <2>3, PlaceSteps DEF places
<1>3. CASE o \in url /\ o \notin later
  <2>1. PICK u \in Uploads, i \in Index : Holds(u, i, o)
    BY <1>3 DEF Signed
  <2>2. chunk[u][i] = None \/ ticket[u][i] = None
    BY DEF OnePlace
  <2>3. ASSUME NEW t \in Tasks, Commits(t) \/ Reserves(t) PROVE Holds(u, i, o)'
    BY <1>0, <2>1, <2>3, UploadsAssumption DEF Commits, Reserves, Holds
  <2>4. ASSUME NEW t \in Tasks, Adopts(t) PROVE Holds(u, i, o)'
    <3>1. CASE u # task[t].u \/ i # task[t].i
      BY <2>1, <2>4, <3>1 DEF Adopts, Holds
    <3>2. CASE u = task[t].u /\ i = task[t].i
      BY <1>0, <2>1, <2>2, <2>4, <3>2, UploadsAssumption DEF Adopts, Holds
    <3>. QED
      BY <3>1, <3>2
  <2>5. ASSUME NEW t \in Tasks, Clears(t) PROVE Holds(u, i, o)'
    <3>1. o \notin task[t].seen
      BY <1>3 DEF Purged
    <3>. QED
      BY <2>1, <2>5, <3>1 DEF Clears, Holds
  <2>6. ASSUME NEW v \in Uploads, Deletes(v) PROVE P
    <3>1. CASE u = v
      <4>1. o \in Staged(v)
        BY <1>0, <2>1, <3>1, StagedHolds, UploadsAssumption
      <4>. QED
        BY <2>6, <4>1 DEF Deletes
    <3>2. CASE u # v
      <4>1. Holds(u, i, o)'
        BY <2>1, <2>6, <3>2 DEF Deletes, Holds
      <4>. QED
        BY <4>1
    <3>. QED
      BY <3>1, <3>2
  <2>7. ASSUME NEW t \in Tasks, Writes(t) \/ Forgets(t) \/ Signs(t) \/ Sends(t) \/ Empties(t) PROVE Holds(u, i, o)'
    BY <2>1, <2>7 DEF Writes, Forgets, Signs, Sends, Empties, Holds
  <2>8. ASSUME NEW x \in Objects, Drains(x) \/ Sweeps(x) \/ Expired(x) PROVE Holds(u, i, o)'
    BY <2>1, <2>8 DEF Drains, Sweeps, Expired, Holds
  <2>9. ASSUME UNCHANGED places PROVE Holds(u, i, o)'
    BY <2>1, <2>9 DEF places, Holds
  <2> HIDE DEF P
  <2>10. P
    <3>1. Holds(u, i, o)' => P
      BY DEF P
    <3>. QED
      BY <2>3, <2>4, <2>5, <2>6, <2>7, <2>8, <2>9, <3>1, PlaceSteps
  <2>. QED
    BY <2>10 DEF P
<1>. QED
  BY <1>1, <1>2, <1>3

-----------------------------------------------------------------------------
(* The limit on open uploads *)

\* The uploads that hold audio, or may take some, are among those that count.
LEMMA OpenPending == Open \subseteq Pending /\ IsFiniteSet(Pending)
<1>1. Open \subseteq Pending
  BY DEF Open, Pending, Writable
<1>2. Pending \subseteq Uploads
  BY DEF Pending
<1>. QED
  BY <1>1, <1>2, UploadsAssumption, FS_Subset

\* Only a new row opens an upload.
LEMMA OpenGrows ==
  ASSUME TypeOK, TaskTypes, Addressed, Closing, [Next]_vars, NEW u \in Open', u \notin Open
  PROVE  Created(u)
<1>1. u \in Uploads /\ Exists(u)' /\ (Writable(u)' \/ Rows(u)' # {})
  BY DEF Open
<1>2. up[u].status \in {"none", "created", "uploading", "complete", "expired", "deleted"}
  BY <1>1 DEF TypeOK
<1>3. SUFFICES ASSUME ~Created(u) PROVE FALSE
  OBVIOUS
<1>4. Exists(u) /\ (up'[u].status \in {"created", "uploading"} /\ ~up'[u].late => Writable(u))
  BY <1>1, <1>2, <1>3, RowSteps DEF Created, Expires, Takes, Seals, Goes, Ages, Restatus, Exists, Writable
<1>5. ~Writable(u) /\ Rows(u) = {}
  BY <1>1, <1>4 DEF Open
<1>6. Rows(u)' # {}
  BY <1>1, <1>4, <1>5 DEF Writable
<1>7. PICK i \in Index : chunk'[u][i] # None
  BY <1>6 DEF Rows
<1>8. chunk[u][i] = None
  BY <1>5 DEF Rows
<1>9. Writable(u)
  BY <1>1, <1>7, <1>8, ChunkArrives
<1>. QED
  BY <1>5, <1>9

\* Every step keeps the limit.
LEMMA CountedStep ==
  ASSUME TypeOK, TaskTypes, Addressed, Closing, Counted, [Next]_vars
  PROVE  Counted'
<1>1. IsFiniteSet(Open) /\ IsFiniteSet(Pending) /\ Cardinality(Open) \in Nat /\ Cardinality(Pending) \in Nat
  BY OpenPending, FS_Subset, FS_CardinalityType
<1>2. CASE Open' \subseteq Open
  <2>1. Cardinality(Open') <= Cardinality(Open) /\ Cardinality(Open') \in Nat
    BY <1>1, <1>2, FS_Subset, FS_CardinalityType
  <2>. QED
    BY <1>1, <2>1, UploadsAssumption DEF Counted
<1>3. CASE ~(Open' \subseteq Open)
  <2>1. PICK v \in Open' : v \notin Open
    BY <1>3
  <2>2. Created(v)
    BY <2>1, OpenGrows
  <2>3. Cardinality(Pending) < MaxPending
    BY <2>2 DEF Created, HasRoom
  <2>4. ASSUME NEW u \in Open', u # v PROVE u \in Open
    <3>1. ~Created(u)
      BY <2>2, <2>4 DEF Created, Open
    <3>. QED
      BY <2>4, <3>1, OpenGrows
  <2>5. Open' \subseteq Pending \cup {v}
    BY <2>4, OpenPending
  <2>6. IsFiniteSet(Pending \cup {v}) /\ Cardinality(Pending \cup {v}) <= Cardinality(Pending) + 1
    <3>0. IsFiniteSet(Pending \cup {v}) /\ (Cardinality(Pending \cup {v}) = Cardinality(Pending) \/ Cardinality(Pending \cup {v}) = Cardinality(Pending) + 1)
      BY <1>1, FS_AddElement
    <3>1. Cardinality(Pending) \in Nat
      BY <1>1
    <3> DEFINE n == Cardinality(Pending)
               m == Cardinality(Pending \cup {v})
    <3>2. n \in Nat /\ (m = n \/ m = n + 1)
      BY <3>0, <3>1
    <3> HIDE DEF n, m
    <3>3. m <= n + 1
      BY <3>2
    <3>. QED
      BY <3>0, <3>3 DEF n, m
  <2>7. Cardinality(Open') <= Cardinality(Pending \cup {v}) /\ Cardinality(Open') \in Nat /\ Cardinality(Pending \cup {v}) \in Nat
    BY <2>5, <2>6, FS_Subset, FS_CardinalityType
  <2>. QED
    BY <1>1, <2>3, <2>6, <2>7, UploadsAssumption DEF Counted
<1>. QED
  BY <1>2, <1>3

-----------------------------------------------------------------------------
(* The invariant *)

\* It holds before anything is uploaded.
LEMMA InvInit == Init => Inv
<1> SUFFICES ASSUME Init PROVE Inv
  OBVIOUS
<1>1. 0 \in Index /\ 0 \in 0..NumChunks /\ 0 \in 0..MaxFaults /\ MaxPending \in Nat
  BY UploadsAssumption DEF Index
<1>2. \A t \in Tasks : task[t] = Quiet
  BY DEF Init
<1>3. \A t \in Tasks : task[t].pc = "idle" /\ task[t].u = None /\ task[t].i = 0 /\ task[t].o = None
                       /\ task[t].seen = {} /\ task[t].ok = FALSE
  BY <1>2 DEF Quiet
<1>4. \A u \in Uploads : up[u].status = "none" /\ up[u].key = None /\ up[u].late = FALSE
  BY DEF Init, NoRow
<1>5. \A u \in Uploads : \A i \in Index : chunk[u][i] = None /\ ticket[u][i] = None
  BY DEF Init
<1>6. \A c \in Clients : client[c].pc = "manifest"
  BY DEF Init, Started
<1>7. TypeOK
  <2>1. Quiet \in ATask
    BY <1>1 DEF Quiet, ATask, Pcs
  <2>2. NoRow \in ARow /\ Started("manifest") \in AClient
    BY <1>1 DEF NoRow, ARow, Started, AClient
  <2>3. task \in [Tasks -> ATask] /\ up \in [Uploads -> ARow] /\ client \in [Clients -> AClient]
    BY <2>1, <2>2 DEF Init
  <2>. QED
    BY <1>1, <2>3 DEF TypeOK, Init, ATask, Pcs, ARow, AClient
<1>8. Addressed
  BY <1>1, <1>3, <1>6, CleanerApart DEF Addressed, NeedsUpload
<1>9. Closing
  BY <1>3, <1>4, <1>5 DEF Closing, Purger, Init
<1>10. Sealed
  BY <1>3, <1>4 DEF Sealed, Init
<1>11. OnePlace
  BY <1>3, <1>5, UploadsAssumption DEF OnePlace, Holds, Carries, Init
<1>12. Purged /\ Stored /\ Signed
  BY <1>3, <1>5 DEF Purged, Stored, Signed, Init
<1>13. Counted
  <2>1. Open = {}
    BY <1>4 DEF Open, Exists
  <2>. QED
    BY <1>1, <2>1, FS_EmptySet DEF Counted
<1>. QED
  BY <1>7, <1>8, <1>9, <1>10, <1>11, <1>12, <1>13 DEF Inv

\* Every step keeps it.
LEMMA InvStep == Inv /\ [Next]_vars => Inv'
<1> SUFFICES ASSUME Inv, [Next]_vars PROVE Inv'
  OBVIOUS
<1>1. TypeOK /\ Addressed /\ Closing /\ Sealed /\ OnePlace /\ Purged /\ Stored /\ Signed /\ Counted
  BY DEF Inv
<1>2. TaskTypes
  BY <1>1 DEF TypeOK, TaskTypes, ATask, Pcs
<1>3. TypeOK' /\ Addressed' /\ Closing' /\ Sealed' /\ OnePlace'
  BY <1>1, <1>2, TypeStep, AddressedStep, ClosingStep, SealedStep, OnePlaceStep
<1>4. Purged' /\ Stored' /\ Signed' /\ Counted'
  BY <1>1, <1>2, PurgedStep, StoredStep, SignedStep, CountedStep
<1>. QED
  BY <1>3, <1>4 DEF Inv

\* Audio is accounted for whichever requests, purges and sweeps race: until its
\* deadline a committed chunk keeps its object unless a purge of that upload has it,
\* every object that a signed URL can still write has a row, a reservation or a queued
\* deletion, and the staging limit holds (commitManagedChunk, prepareDirectUpload,
\* deleteManagedUploadAudio, createManagedUpload).
THEOREM AudioIsAccountedFor == Spec => []ObjectsAccountedFor
<1>1. Inv => ObjectsAccountedFor
  <2> SUFFICES ASSUME Inv PROVE ObjectsAccountedFor
    OBVIOUS
  <2>1. TypeOK /\ OnePlace /\ Stored /\ Signed /\ Counted
    BY DEF Inv
  <2>2. ASSUME NEW u \in Uploads, NEW o \in Rows(u) PROVE o \in object \/ Purging(o) \/ up[u].late
    BY <2>1, <2>2 DEF Rows, Stored, Purging
  <2>3. ASSUME NEW o \in url PROVE o \in later \/ \E u \in Uploads : o \in Staged(u)
    <3>1. o \in Objects
      BY <2>1 DEF TypeOK
    <3>. QED
      BY <2>1, <3>1, StagedHolds, UploadsAssumption DEF Signed
  <2>. QED
    BY <2>1, <2>2, <2>3 DEF ObjectsAccountedFor, Counted, Open
<1>. QED
  BY <1>1, InvInit, InvStep, PTL DEF Spec

\* A job that waits or runs has every chunk of its audio, until the deadline and unless
\* the plan refused the upload: a repeated seal, a replaced manifest or the cleaner
\* takes nothing from under it (enqueueManagedJob, expireManagedUploads).
THEOREM JobsHaveTheirAudio == Spec => []JobHasAudio
<1>1. Inv => JobHasAudio
  <2> SUFFICES ASSUME Inv, NEW u \in Uploads \ refused, job[u] \in {"queued", "running"}, ~up[u].late
               PROVE  \A i \in Index : chunk[u][i] # None
    BY DEF JobHasAudio
  <2>1. Sound(u) /\ up[u].status \in {"complete", "expired"}
    BY DEF Inv, Sealed, Closing
  <2>. QED
    BY <2>1 DEF Sound, Ending, AllArrived
<1>. QED
  BY <1>1, InvInit, InvStep, PTL DEF Spec
=============================================================================
