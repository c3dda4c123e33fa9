------------------------------- MODULE Uploads -------------------------------
(****************************************************************************)
(* Staged audio (webapp/src/lib/managedJobs.ts, managedUploadChunk.ts,      *)
(* directUpload.ts, fileImport.ts, objectStorage.ts; the clients in         *)
(* extension/src/lib/managedClient.ts and webapp/src/app/import).           *)
(*                                                                          *)
(* A client registers a manifest under its key, sends each chunk (through   *)
(* the app, or to storage with a signed URL), seals the upload and asks for *)
(* a job. A request that it gave up on goes on at the server beside the     *)
(* next one. Objects live in storage, rows in the database, and the cleaner *)
(* removes the audio of finished and of abandoned uploads. One step is one  *)
(* database statement or transaction, or one call to storage.               *)
(****************************************************************************)
EXTENDS Integers, FiniteSets

CONSTANTS
    Clients,     \* devices and pages that upload
    Keys,        \* idempotency keys
    Uploads,     \* bound: upload rows
    Objects,     \* bound: objects ever written
    None,
    NumChunks,   \* totalChunks of every manifest
    MaxPending,  \* MAX_PENDING_MANAGED_UPLOADS
    MaxFaults    \* bound: given up requests, refused plans and failed deletions

ASSUME UploadsAssumption ==
    /\ None \notin Uploads \cup Objects \cup Keys
    /\ "cleaner" \notin Clients
    /\ IsFiniteSet(Uploads)
    /\ NumChunks \in Nat \ {0} /\ MaxPending \in Nat /\ MaxFaults \in Nat

Index == 0 .. NumChunks - 1
Slots == Clients \X {"live", "stale"}
Cleaner == <<"cleaner", "live">>
Tasks == Slots \cup {Cleaner}

VARIABLES
    key,      \* the key of each client: two devices with one recording share it
    client,   \* what each client is doing, with which upload and chunk
    task,     \* the requests at the server, the given up ones included, and the cleaner
    up,       \* upload rows: status, key, whether the deadline has passed
    chunk,    \* uploadChunk rows: the object behind each chunk
    ticket,   \* directUploadTicket rows
    object,   \* objects in storage
    used,     \* object keys handed out so far
    url,      \* objects that a signed URL can still create (signedUntil lies ahead)
    later,    \* deferredObjectDeletion rows
    job,      \* processing job of each upload
    refused,  \* history: uploads purged because the plan had run out
    faults

db == <<up, chunk, ticket, later, job>>
storage == <<object, used, url>>
vars == <<key, client, task, db, storage, refused, faults>>

Quiet == [pc |-> "idle", u |-> None, i |-> 0, o |-> None, seen |-> {}, ok |-> FALSE]
Started(pc) == [pc |-> pc, u |-> None, i |-> 0, got |-> {}]
NoRow == [status |-> "none", key |-> None, late |-> FALSE]

TypeOK ==
    /\ key \in [Clients -> Keys]
    /\ client \in [Clients -> [pc : {"manifest", "chunk", "seal", "process", "done", "failed"},
                               u : Uploads \cup {None}, i : Index, got : SUBSET Index]]
    /\ task \in [Tasks -> [pc : {"idle", "lookup", "reserve", "put", "commit", "drop", "prepare", "sign",
                                 "upload", "finish", "adopt", "check", "sealing", "enqueue", "insert",
                                 "purge", "objects", "rows", "mark", "discard", "reply"},
                           u : Uploads \cup {None}, i : 0..NumChunks, o : Objects \cup {None},
                           seen : SUBSET Objects, ok : BOOLEAN]]
    /\ up \in [Uploads -> [status : {"none", "created", "uploading", "complete", "expired", "deleted"},
                           key : Keys \cup {None}, late : BOOLEAN]]
    /\ chunk \in [Uploads -> [Index -> Objects \cup {None}]]
    /\ ticket \in [Uploads -> [Index -> Objects \cup {None}]]
    /\ object \subseteq used /\ used \subseteq Objects
    /\ url \subseteq used /\ later \subseteq used
    /\ job \in [Uploads -> {"none", "queued", "running", "complete", "error"}]
    /\ refused \subseteq Uploads /\ faults \in 0..MaxFaults

Init ==
    /\ key \in [Clients -> Keys]
    /\ client = [c \in Clients |-> Started("manifest")]
    /\ task = [t \in Tasks |-> Quiet]
    /\ up = [u \in Uploads |-> NoRow]
    /\ chunk = [u \in Uploads |-> [i \in Index |-> None]]
    /\ ticket = [u \in Uploads |-> [i \in Index |-> None]]
    /\ object = {} /\ used = {} /\ url = {} /\ later = {}
    /\ job = [u \in Uploads |-> "none"]
    /\ refused = {} /\ faults = 0

Exists(u) == up[u].status \notin {"none", "deleted"}
IsExpired(u) == up[u].status = "expired" \/ up[u].late
Writable(u) == up[u].status \in {"created", "uploading"} /\ ~up[u].late
Rows(u) == {chunk[u][i] : i \in Index} \ {None}
Tickets(u) == {ticket[u][i] : i \in Index} \ {None}
Staged(u) == Rows(u) \cup Tickets(u)
Owners(k) == {u \in Uploads : Exists(u) /\ up[u].key = k}
FreshObject == CHOOSE o \in Objects \ used : TRUE
FreshUpload == CHOOSE u \in Uploads : up[u].status = "none"

At(t, pc) == task[t].pc = pc
Goto(t, pc) == task' = [task EXCEPT ![t].pc = pc]
Reply(t, ok) == task' = [task EXCEPT ![t] = [Quiet EXCEPT !.pc = "reply", !.ok = ok, !.u = IF ok THEN task[t].u ELSE None, !.i = IF ok THEN task[t].i ELSE 0]]
Fault == faults < MaxFaults /\ faults' = faults + 1
Uploading(u) == up' = [up EXCEPT ![u].status = "uploading"]

-----------------------------------------------------------------------------
(* Clients: requestJson, uploadManagedMeeting and ImportClient.             *)

Request(c) ==
    CASE client[c].pc = "manifest" -> {"lookup"}
      [] client[c].pc = "chunk" -> {"put", "prepare"}
      [] client[c].pc = "seal" -> {"check"}
      [] client[c].pc = "process" -> {"enqueue"}
      [] OTHER -> {}

Send(c) ==
    /\ task[<<c, "live">>].pc = "idle"
    /\ \E pc \in Request(c) :
         task' = [task EXCEPT ![<<c, "live">>] = [Quiet EXCEPT !.pc = pc, !.u = client[c].u, !.i = client[c].i]]
    /\ UNCHANGED <<key, refused, client, db, storage, faults>>

\* The request timed out: it goes on at the server, and the client repeats it.
GiveUp(c) ==
    /\ task[<<c, "live">>].pc \notin {"idle", "reply"} /\ task[<<c, "stale">>].pc = "idle"
    /\ Fault
    /\ task' = [task EXCEPT ![<<c, "stale">>] = task[<<c, "live">>], ![<<c, "live">>] = Quiet]
    /\ UNCHANGED <<key, refused, client, db, storage>>

Forget(c) ==
    /\ At(<<c, "stale">>, "reply")
    /\ task' = [task EXCEPT ![<<c, "stale">>] = Quiet]
    /\ UNCHANGED <<key, refused, client, db, storage, faults>>

NextMissing(rest) == IF rest = {} THEN 0 ELSE CHOOSE i \in rest : TRUE

\* Chunks that the manifest lists, or that were answered, are not sent again; a
\* sealed upload goes straight to processing.
NextStep(c, r) ==
    LET done == CASE client[c].pc = "manifest" -> {i \in Index : chunk[r.u][i] # None}
                  [] client[c].pc = "chunk" -> client[c].got \cup {r.i}
                  [] OTHER -> client[c].got
        rest == Index \ done
        pc == CASE client[c].pc = "process" -> "done"
                [] client[c].pc = "seal" -> "process"
                [] client[c].pc = "manifest" /\ up[r.u].status = "complete" -> "process"
                [] rest = {} -> "seal"
                [] OTHER -> "chunk" IN
    IF pc = "done" THEN Started("done")
    ELSE [pc |-> pc, u |-> r.u, i |-> NextMissing(rest), got |-> done]

\* The answer arrives. A refused request ends the attempt; the person may start
\* again, which registers the manifest anew.
Receive(c) ==
    LET r == task[<<c, "live">>] IN
    /\ r.pc = "reply"
    /\ task' = [task EXCEPT ![<<c, "live">>] = Quiet]
    /\ IF r.ok THEN client' = [client EXCEPT ![c] = NextStep(c, r)] /\ faults' = faults
       ELSE \/ client' = [client EXCEPT ![c] = Started("failed")] /\ faults' = faults
            \/ Fault /\ client' = [client EXCEPT ![c] = Started("manifest")]
    /\ UNCHANGED <<key, refused, db, storage>>

-----------------------------------------------------------------------------
(* createManagedUpload.                                                     *)

\* A live upload of this key is returned as it is; an expired one is marked,
\* and its audio purged before it is replaced.
Lookup(t) ==
    LET own == Owners(key[t[1]]) IN
    /\ At(t, "lookup")
    /\ \/ /\ own = {} /\ Goto(t, "reserve") /\ up' = up
       \/ \E u \in own :
            IF IsExpired(u)
            THEN /\ up' = [up EXCEPT ![u].status = "expired"]
                 /\ task' = [task EXCEPT ![t].pc = "purge", ![t].u = u, ![t].ok = TRUE]
            ELSE /\ up' = up
                 /\ task' = [task EXCEPT ![t] = [Quiet EXCEPT !.pc = "reply", !.ok = TRUE, !.u = u]]
    /\ UNCHANGED <<key, refused, client, chunk, ticket, later, job, storage, faults>>

\* Manifests that count against the workspace's staging limit.
Pending == {u \in Uploads : Exists(u) /\ (up[u].status \in {"created", "uploading", "expired"} \/ Rows(u) # {})}

HasRoom(k) == Cardinality(Pending) < MaxPending

\* The plan is checked, then one transaction under the workspace's lock looks
\* for a winner with the same key, counts, and inserts.
Reserve(t) ==
    LET k == key[t[1]] IN
    /\ At(t, "reserve")
    /\ \/ Fault /\ Reply(t, FALSE) /\ up' = up
       \/ /\ faults' = faults
          /\ \/ \E u \in Owners(k) :
                  /\ up' = up
                  /\ task' = [task EXCEPT ![t] = [Quiet EXCEPT !.pc = "reply", !.ok = ~IsExpired(u), !.u = u]]
             \/ /\ Owners(k) = {} /\ ~HasRoom(k) /\ Reply(t, FALSE) /\ up' = up
             \/ /\ Owners(k) = {} /\ HasRoom(k) /\ \E u \in Uploads : up[u].status = "none"
                /\ up' = [up EXCEPT ![FreshUpload] = [status |-> "created", key |-> k, late |-> FALSE]]
                /\ task' = [task EXCEPT ![t] = [Quiet EXCEPT !.pc = "reply", !.ok = TRUE, !.u = FreshUpload]]
    /\ UNCHANGED <<key, refused, client, chunk, ticket, later, job, storage>>

-----------------------------------------------------------------------------
(* handleManagedChunkUpload: a chunk through the app.                       *)

\* Mutant: requests for the same chunk share one object.
SharedObject(u, i) == IF used = {} THEN FreshObject ELSE CHOOSE o \in used : TRUE

\* Each request owns its object until its row commits.
OwnObject(u, i) == FreshObject

Put(t) ==
    LET u == task[t].u
        o == OwnObject(u, task[t].i)
        Answer(ok) == Reply(t, ok) /\ UNCHANGED <<object, used>> IN
    /\ At(t, "put")
    /\ \/ ~Writable(u) /\ Answer(FALSE)
       \/ Writable(u) /\ chunk[u][task[t].i] # None /\ Answer(TRUE)
       \/ /\ Writable(u) /\ chunk[u][task[t].i] = None /\ used # Objects
          /\ object' = object \cup {o} /\ used' = used \cup {o}
          /\ task' = [task EXCEPT ![t].pc = "commit", ![t].o = o]
    /\ UNCHANGED <<key, refused, client, db, url, faults>>

\* The row commits only while the upload is open, and if neither a row nor a
\* direct reservation has the place; otherwise the request drops its object.
Commit(t) ==
    LET u == task[t].u
        i == task[t].i
        taken == chunk[u][i] # None IN
    /\ At(t, "commit")
    /\ \/ /\ Writable(u) /\ ~taken /\ ticket[u][i] = None
          /\ Uploading(u)
          /\ chunk' = [chunk EXCEPT ![u][i] = task[t].o]
          /\ Reply(t, TRUE)
       \/ /\ ~Writable(u) \/ taken \/ ticket[u][i] # None
          /\ task' = [task EXCEPT ![t].pc = "drop", ![t].ok = Writable(u) /\ taken]
          /\ UNCHANGED <<up, chunk>>
    /\ UNCHANGED <<key, refused, client, ticket, later, job, storage, faults>>

\* A deletion that fails leaves the object to the sweep of stale objects.
Drop(t) ==
    /\ At(t, "drop")
    /\ \/ object' = object \ {task[t].o} /\ faults' = faults
       \/ Fault /\ object' = object
    /\ Reply(t, task[t].ok)
    /\ UNCHANGED <<key, refused, client, db, used, url>>

-----------------------------------------------------------------------------
(* prepareDirectUpload, the PUT to storage, completeDirectChunk.            *)

\* A chunk that is there is replayed, a reservation is shared, or made.
Prepare(t) ==
    LET u == task[t].u
        i == task[t].i IN
    /\ At(t, "prepare")
    /\ \/ ~Writable(u) /\ Reply(t, FALSE) /\ UNCHANGED <<up, ticket, used>>
       \/ /\ Writable(u) /\ Uploading(u)
          /\ \/ chunk[u][i] # None /\ Reply(t, TRUE) /\ UNCHANGED <<ticket, used>>
             \/ /\ chunk[u][i] = None /\ ticket[u][i] # None
                /\ task' = [task EXCEPT ![t].pc = "sign", ![t].o = ticket[u][i]]
                /\ UNCHANGED <<ticket, used>>
             \/ /\ chunk[u][i] = None /\ ticket[u][i] = None /\ used # Objects
                /\ task' = [task EXCEPT ![t].pc = "sign", ![t].o = FreshObject]
                /\ ticket' = [ticket EXCEPT ![u][i] = FreshObject]
                /\ used' = used \cup {FreshObject}
    /\ UNCHANGED <<key, refused, client, chunk, later, job, object, url, faults>>

\* signedUntil is recorded before the URL leaves the server.
Sign(t) ==
    LET u == task[t].u IN
    /\ At(t, "sign")
    /\ IF Writable(u) /\ ticket[u][task[t].i] = task[t].o
       THEN Goto(t, "upload") /\ url' = url \cup {task[t].o}
       ELSE Reply(t, FALSE) /\ url' = url
    /\ UNCHANGED <<key, refused, client, db, object, used, faults>>

\* If-None-Match: an object that exists is not written again.
DirectPut(t) ==
    /\ At(t, "upload")
    /\ \/ task[t].o \in url /\ object' = object \cup {task[t].o} /\ Goto(t, "finish")
       \/ task[t].o \notin url /\ object' = object /\ Reply(t, FALSE)
    /\ UNCHANGED <<key, refused, client, db, used, url, faults>>

\* The stored bytes are verified before the reservation becomes a row.
Finish(t) ==
    LET u == task[t].u
        o == ticket[u][task[t].i] IN
    /\ At(t, "finish")
    /\ CASE ~Exists(u) \/ IsExpired(u) -> Reply(t, FALSE)
         [] o = None -> Reply(t, chunk[u][task[t].i] # None)
         [] o # None /\ o \notin object -> Reply(t, FALSE)
         [] OTHER -> task' = [task EXCEPT ![t].pc = "adopt", ![t].o = o]
    /\ UNCHANGED <<key, refused, client, db, storage, faults>>

Adopt(t) ==
    LET u == task[t].u
        i == task[t].i
        o == task[t].o IN
    /\ At(t, "adopt")
    /\ \/ /\ Writable(u) /\ (chunk[u][i] # None \/ ticket[u][i] = o)
          /\ Uploading(u)
          /\ chunk' = [chunk EXCEPT ![u][i] = IF @ = None THEN o ELSE @]
          /\ ticket' = [ticket EXCEPT ![u][i] = IF @ = o THEN None ELSE @]
          /\ Reply(t, TRUE)
       \/ /\ ~(Writable(u) /\ (chunk[u][i] # None \/ ticket[u][i] = o))
          /\ Reply(t, FALSE) /\ UNCHANGED <<up, chunk, ticket>>
    /\ UNCHANGED <<key, refused, client, later, job, storage, faults>>

-----------------------------------------------------------------------------
(* completeManagedUpload, enqueueManagedJob and the worker.                 *)

AllArrived(u) == \A i \in Index : chunk[u][i] # None

Check(t) ==
    LET u == task[t].u IN
    /\ At(t, "check")
    /\ IF Exists(u) /\ ~IsExpired(u) /\ AllArrived(u) THEN Goto(t, "sealing") ELSE Reply(t, FALSE)
    /\ UNCHANGED <<key, refused, client, db, storage, faults>>

\* The update looks at nothing but the id.
Seal(t) ==
    LET u == task[t].u IN
    /\ At(t, "sealing")
    /\ up' = IF Exists(u) THEN [up EXCEPT ![u].status = "complete"] ELSE up
    /\ Reply(t, Exists(u))
    /\ UNCHANGED <<key, refused, client, chunk, ticket, later, job, storage, faults>>

\* enqueueManagedJob: the unit is reserved under the upload's key. Once one
\* request has it the others find it reserved; when the plan has run out, the
\* audio of an import is purged.
Enqueue(t) ==
    LET u == task[t].u
        ready == up[u].status = "complete" /\ ~up[u].late
        known == job[u] \in {"queued", "running", "complete"} IN
    /\ At(t, "enqueue")
    /\ \/ (~ready \/ known) /\ Reply(t, ready) /\ UNCHANGED <<refused, faults>>
       \/ ready /\ ~known /\ Goto(t, "insert") /\ UNCHANGED <<refused, faults>>
       \/ /\ ready /\ ~known /\ \A s \in Slots : At(s, "insert") => task[s].u # u
          /\ Fault /\ Goto(t, "purge") /\ refused' = refused \cup {u}
    /\ UNCHANGED <<key, client, db, storage>>

\* The upload admits one job: the loser of the insertion returns the winner's.
Insert(t) ==
    LET u == task[t].u IN
    /\ At(t, "insert")
    /\ job' = IF Exists(u) /\ job[u] \in {"none", "error"} THEN [job EXCEPT ![u] = "queued"] ELSE job
    /\ Reply(t, Exists(u))
    /\ UNCHANGED <<key, refused, client, up, chunk, ticket, later, storage, faults>>

\* External: the worker (module ManagedJobs) claims a job and ends it.
Work(u) ==
    /\ \/ job[u] = "queued" /\ job' = [job EXCEPT ![u] = "running"]
       \/ job[u] = "running" /\ \E s \in {"complete", "error"} : job' = [job EXCEPT ![u] = s]
    /\ UNCHANGED <<key, refused, client, task, up, chunk, ticket, later, storage, faults>>

-----------------------------------------------------------------------------
(* Deletion.                                                                *)

MayPurge(u) == Staged(u) \cap url = {}

\* deleteManagedUploadAudio: all rows are read, refused while a URL lives ...
Purge(t) ==
    LET u == task[t].u IN
    /\ At(t, "purge")
    /\ \/ MayPurge(u) /\ task' = [task EXCEPT ![t].pc = "objects", ![t].seen = Staged(u)]
       \/ ~MayPurge(u) /\ (IF t = Cleaner THEN task' = [task EXCEPT ![t] = Quiet] ELSE Reply(t, FALSE))
    /\ UNCHANGED <<key, refused, client, db, storage, faults>>

\* ... the objects are deleted, ...
PurgeObjects(t) ==
    /\ At(t, "objects")
    /\ \/ object' = object \ task[t].seen /\ Goto(t, "rows") /\ faults' = faults
       \/ /\ Fault /\ object' = object
          /\ IF t = Cleaner THEN task' = [task EXCEPT ![t] = Quiet] ELSE Reply(t, FALSE)
    /\ UNCHANGED <<key, refused, client, db, used, url>>

\* ... and only then the rows that were read.
PurgeRows(t) ==
    LET u == task[t].u
        Left(f) == [f EXCEPT ![u] = [i \in Index |-> IF f[u][i] \in task[t].seen THEN None ELSE f[u][i]]] IN
    /\ At(t, "rows")
    /\ chunk' = Left(chunk) /\ ticket' = Left(ticket)
    /\ Goto(t, "mark")
    /\ UNCHANGED <<key, refused, client, up, later, job, storage, faults>>

Removed(u) == up' = [up EXCEPT ![u].status = "deleted"]

\* What follows the purge: a request replaces the expired upload or reports the
\* refused plan; the cleaner marks an abandoned upload.
Mark(t) ==
    LET u == task[t].u IN
    /\ At(t, "mark")
    /\ \/ /\ t # Cleaner /\ task[t].ok
          /\ Removed(u) /\ job' = [job EXCEPT ![u] = "none"]
          /\ task' = [task EXCEPT ![t] = [Quiet EXCEPT !.pc = "reserve"]]
       \/ /\ t # Cleaner /\ ~task[t].ok
          /\ up' = IF Exists(u) THEN [up EXCEPT ![u].status = "expired"] ELSE up
          /\ Reply(t, FALSE) /\ job' = job
       \/ /\ t = Cleaner
          /\ up' = IF ~task[t].ok /\ Exists(u) THEN [up EXCEPT ![u].status = "expired"] ELSE up
          /\ task' = [task EXCEPT ![t] = IF task[t].i = 0 /\ ~task[t].ok THEN [@ EXCEPT !.pc = "discard"] ELSE Quiet]
          /\ job' = job
    /\ UNCHANGED <<key, refused, client, chunk, ticket, later, storage, faults>>

\* Mutant: audio is of no more use once its job has failed.
SweepableFailed(u) == Exists(u) /\ job[u] \in {"complete", "error"} /\ Staged(u) # {}

\* expireManagedUploads: the uploads it works on, as one query finds them. Its
\* task keeps in ok whether a job was complete, in i how many jobs there were.
Sweepable(u) ==
    /\ Exists(u)
    /\ \/ job[u] = "complete" /\ Staged(u) # {}
       \/ up[u].late /\ (up[u].status # "expired" \/ Staged(u) # {})
    /\ job[u] # "running"

Sweep(u) ==
    /\ At(Cleaner, "idle") /\ Sweepable(u)
    /\ task' = [task EXCEPT ![Cleaner] = [Quiet EXCEPT !.pc = "purge", !.u = u, !.ok = job[u] = "complete",
                                                       !.i = IF job[u] = "none" THEN 0 ELSE 1]]
    /\ job' = [job EXCEPT ![u] = IF @ = "queued" THEN "error" ELSE @]
    /\ UNCHANGED <<key, refused, client, up, chunk, ticket, later, storage, faults>>

\* The row of an upload that had no job goes as well.
Discard ==
    LET u == task[Cleaner].u IN
    /\ At(Cleaner, "discard")
    /\ up' = IF up[u].status = "expired" THEN [up EXCEPT ![u].status = "deleted"] ELSE up
    /\ job' = IF up[u].status = "expired" THEN [job EXCEPT ![u] = "none"] ELSE job
    /\ task' = [task EXCEPT ![Cleaner] = Quiet]
    /\ UNCHANGED <<key, refused, client, chunk, ticket, later, storage, faults>>

\* The meeting is deleted: rows go in one transaction that queues the objects.
DeleteMeeting(u) ==
    /\ Exists(u) /\ Fault
    /\ Removed(u)
    /\ later' = later \cup Staged(u)
    /\ chunk' = [chunk EXCEPT ![u] = [i \in Index |-> None]]
    /\ ticket' = [ticket EXCEPT ![u] = [i \in Index |-> None]]
    /\ job' = [job EXCEPT ![u] = "none"]
    /\ UNCHANGED <<key, refused, client, task, storage>>

\* drainObjectDeletions, not before the URL is dead.
Drain(o) ==
    /\ o \in later \ url
    /\ object' = object \ {o} /\ later' = later \ {o}
    /\ UNCHANGED <<key, refused, client, task, up, chunk, ticket, job, used, url, faults>>

\* sweepStaleStagedObjects: after 48 hours any object goes, whatever the rows say.
SweepStale(o) ==
    /\ o \in object \ url
    /\ \A u \in Uploads : o \in Staged(u) => up[u].late
    /\ \A t \in Slots : task[t].o # o
    /\ object' = object \ {o}
    /\ UNCHANGED <<key, refused, client, task, db, used, url, faults>>

-----------------------------------------------------------------------------
(* Time.                                                                    *)

\* signedUntil passes: within minutes, and before the upload's deadline.
UrlExpires(o) ==
    /\ o \in url /\ url' = url \ {o}
    /\ UNCHANGED <<key, refused, client, task, db, object, used, faults>>

Deadline(u) ==
    /\ Exists(u) /\ ~up[u].late /\ Staged(u) \cap url = {}
    /\ up' = [up EXCEPT ![u].late = TRUE]
    /\ UNCHANGED <<key, refused, client, task, chunk, ticket, later, job, storage, faults>>

-----------------------------------------------------------------------------
Serve(t) ==
    \/ Lookup(t) \/ Reserve(t) \/ Put(t) \/ Commit(t) \/ Drop(t)
    \/ Prepare(t) \/ Sign(t) \/ DirectPut(t) \/ Finish(t) \/ Adopt(t)
    \/ Check(t) \/ Seal(t) \/ Enqueue(t) \/ Insert(t)

Next ==
    \/ \E c \in Clients : Send(c) \/ GiveUp(c) \/ Forget(c) \/ Receive(c)
    \/ \E t \in Slots : Serve(t)
    \/ \E t \in Tasks : Purge(t) \/ PurgeObjects(t) \/ PurgeRows(t) \/ Mark(t)
    \/ \E u \in Uploads : Work(u) \/ Sweep(u) \/ DeleteMeeting(u) \/ Deadline(u)
    \/ \E o \in Objects : Drain(o) \/ SweepStale(o) \/ UrlExpires(o)
    \/ Discard

Spec == Init /\ [][Next]_vars

-----------------------------------------------------------------------------
(****************************************************************************)
(* Properties.                                                              *)
(****************************************************************************)

Purging(o) == \E t \in Tasks : o \in task[t].seen

\* Until the deadline, the object behind a chunk row is there unless the upload
\* is being purged: no request that loses a race deletes what another one has
\* committed (managedUploadChunk.ts: "a deterministic shared key lets a losing
\* request delete the winner"). And no signed URL can write audio that nothing
\* will delete: the object of every URL has a row, a reservation or a queued
\* deletion (directUpload.ts: "Deleting it sooner would allow the conditional
\* URL to create it again after successful processing"). And the uploads that
\* hold audio, or may still take some, never exceed the limit, whichever
\* requests race (managedJobs.ts: "serializes distinct manifest creations
\* across app replicas").
ObjectsAccountedFor ==
    /\ TypeOK
    /\ \A u \in Uploads : \A o \in Rows(u) : o \in object \/ Purging(o) \/ up[u].late
    /\ \A o \in url : o \in later \/ \E u \in Uploads : o \in Staged(u)
    /\ Cardinality({u \in Uploads : Exists(u) /\ (Writable(u) \/ Rows(u) # {})}) <= MaxPending

\* A job that waits or runs, before the deadline and unless the plan once
\* refused the upload, has every chunk of its audio: neither a retry nor the
\* cleaner of finished uploads takes the audio from under it.
JobHasAudio ==
    \A u \in Uploads \ refused :
        job[u] \in {"queued", "running"} /\ ~up[u].late => \A i \in Index : chunk[u][i] # None

=============================================================================
