------------------------------ MODULE RetryQueue ------------------------------
(****************************************************************************)
(* The disk-persisted retry queue of the desktop helper                     *)
(* (helper/crates/core/src/resilience.rs).                                  *)
(*                                                                          *)
(* A queue lives in three places: the Vec of jobs of the running process    *)
(* (mem), the file retry-<id>.json that mirrors it (file), and the file     *)
(* retry-<id>.json.dead that parks the jobs that ran out of attempts (dead). *)
(* Every operation changes mem first and then writes one file; the ones     *)
(* that touch both files are two steps, with a crash possible in between.   *)
(*                                                                          *)
(* A queue may hold several entries of one job id (a requeue after an       *)
(* interrupted requeue), so mem and file map a job to the sequence of its   *)
(* entries in queue order. The order of different jobs is left out.         *)
(****************************************************************************)
EXTENDS Naturals, Sequences

CONSTANTS
    Jobs,         \* the job ids (fresh UUIDs) an execution may use
    MaxAttempts,  \* MAX_ATTEMPTS
    Faults,       \* which faults the environment may inject
    MaxFaults     \* bound: how many faults one execution contains

FaultKinds == {"crash", "write", "unlink", "read", "corrupt"}

ASSUME MaxAttemptsAssumption == MaxAttempts \in Nat \ {0}
ASSUME FaultsAssumption == Faults \subseteq FaultKinds
ASSUME MaxFaultsAssumption == MaxFaults \in Nat

VARIABLES
    proc,      \* "up" while a process has this queue loaded, else "down"
    mem,       \* RetryQueue::jobs
    file,      \* the contents of retry-<id>.json
    dead,      \* how many entries of each job retry-<id>.json.dead holds
    call,      \* the second half of an operation that writes two files
    faults,    \* faults injected so far
    seen,      \* history: the kinds of fault that have happened
    issued,    \* history: job ids that enqueue has drawn
    acked,     \* history: jobs whose enqueue returned Ok
    finished   \* history: jobs reported done by record_success

queueVars == <<proc, mem, file, dead, call>>
history == <<issued, acked, finished>>
vars == <<proc, mem, file, dead, call, faults, seen, issued, acked, finished>>

(****************************************************************************)
(* Jobs and calls. An entry is due once its next_retry_at has passed. The   *)
(* attempt count is compared with MAX_ATTEMPTS only, so it saturates there. *)
(****************************************************************************)
Entry == [attempts : 0..MaxAttempts, wait : {"due", "held"}]
Fresh(wait) == [attempts |-> 0, wait |-> wait]

Idle == [op |-> "idle", jobs |-> {}]
Retaining(j) == [op |-> "retain", jobs |-> {j}]
Unlinking == [op |-> "unlink", jobs |-> {}]
Calls == [op : {"idle", "retain", "unlink"}, jobs : SUBSET Jobs]

NoJobs == [j \in Jobs |-> <<>>]
NoDead == [j \in Jobs |-> 0]

TypeOK ==
    /\ proc \in {"up", "down"}
    /\ mem \in [Jobs -> Seq(Entry)]
    /\ file \in [Jobs -> Seq(Entry)]
    /\ dead \in [Jobs -> Nat]
    /\ call \in Calls
    /\ faults \in 0..MaxFaults
    /\ seen \subseteq FaultKinds
    /\ issued \subseteq Jobs
    /\ acked \subseteq issued
    /\ finished \subseteq issued

Init ==
    /\ proc = "down"
    /\ mem = NoJobs
    /\ file = NoJobs
    /\ dead = NoDead
    /\ call = Idle
    /\ faults = 0
    /\ seen = {}
    /\ issued = {}
    /\ acked = {}
    /\ finished = {}

Ready == proc = "up" /\ call = Idle
NoFault == UNCHANGED <<faults, seen>>
Fault(kind) ==
    /\ kind \in Faults /\ faults < MaxFaults
    /\ faults' = faults + 1 /\ seen' = seen \cup {kind}

(****************************************************************************)
(* persist: the whole queue replaces the file by write-to-temporary and     *)
(* rename, so a failed or interrupted write leaves the old contents.        *)
(****************************************************************************)
PersistOk == file' = mem' /\ NoFault
PersistFails == file' = file /\ Fault("write")
Persist == PersistOk \/ PersistFails

(****************************************************************************)
(* load_or_create, parse_tolerant and quarantine. A file that is no JSON    *)
(* array is renamed away and the queue starts empty; an entry that does not *)
(* parse is skipped and leaves the file with the next persist.              *)
(****************************************************************************)
LoadOrCreate ==
    /\ proc = "down"
    /\ proc' = "up"
    /\ \/ mem' = file /\ file' = file /\ NoFault
       \/ mem' = NoJobs /\ file' = NoJobs /\ Fault("corrupt")
       \/ \E j \in Jobs :
            /\ file[j] # <<>>
            /\ mem' = [file EXCEPT ![j] = <<>>]
            /\ file' = file
            /\ Fault("corrupt")
    /\ UNCHANGED <<dead, call, history>>

\* The process dies at any point: what is only in memory is gone.
Crash ==
    /\ proc = "up"
    /\ Fault("crash")
    /\ proc' = "down"
    /\ mem' = NoJobs
    /\ call' = Idle
    /\ UNCHANGED <<file, dead, history>>

\* The pipeline that owns the queue is dropped between two calls.
Quit ==
    /\ Ready
    /\ proc' = "down"
    /\ mem' = NoJobs
    /\ UNCHANGED <<file, dead, call, faults, seen, history>>

\* enqueue: the job stays in memory even when enqueue returns an error.
Enqueue(j, wait) ==
    /\ Ready
    /\ j \notin issued
    /\ mem' = [mem EXCEPT ![j] = Append(@, Fresh(wait))]
    /\ issued' = issued \cup {j}
    /\ \/ PersistOk /\ acked' = acked \cup {j}
       \/ PersistFails /\ acked' = acked
    /\ UNCHANGED <<proc, dead, call, finished>>

(****************************************************************************)
(* bury: the dead file is read, extended and replaced. A read that fails,   *)
(* or contents that do not parse, count as an empty file.                   *)
(****************************************************************************)
Bury(j) ==
    \/ dead' = [dead EXCEPT ![j] = @ + 1] /\ NoFault
    \/ dead' = [NoDead EXCEPT ![j] = 1] /\ Fault("read")

BuryFails == dead' = dead /\ Fault("write")

\* What follows a successful bury in record_failure_after and give_up.
Removing(j) == call' = Retaining(j)

RetainAndPersist(j) ==
    /\ proc = "up"
    /\ call = Retaining(j)
    /\ mem' = [mem EXCEPT ![j] = <<>>]
    /\ Persist
    /\ call' = Idle
    /\ UNCHANGED <<proc, dead, history>>

\* Mutant: the attempt count goes on past the limit.
FailedUnbounded(j, wait) ==
    [mem EXCEPT ![j][1] = [attempts |-> @.attempts + 1, wait |-> wait]]

\* The queue after a failed attempt of job j: its first entry is found.
Failed(j, wait) ==
    [mem EXCEPT ![j][1] = [attempts |-> IF @.attempts < MaxAttempts
                                          THEN @.attempts + 1 ELSE MaxAttempts,
                           wait |-> wait]]

Exhausts(j) == mem[j][1].attempts + 1 >= MaxAttempts

\* record_failure_after with attempts left: the wait is backoff or Retry-After.
RecordFailure(j) ==
    /\ Ready
    /\ mem[j] # <<>>
    /\ ~Exhausts(j)
    /\ mem' = Failed(j, "held")
    /\ Persist
    /\ UNCHANGED <<proc, dead, call, history>>

\* Mutant: the exhausted job leaves the queue file before it is parked.
ExhaustRemovesFirst(j) ==
    /\ Ready
    /\ mem[j] # <<>>
    /\ Exhausts(j)
    /\ mem' = [mem EXCEPT ![j] = <<>>]
    /\ PersistOk
    /\ UNCHANGED <<proc, dead, call, history>>

\* record_failure_after at the last attempt: park first, then remove.
Exhaust(j) ==
    /\ Ready
    /\ mem[j] # <<>>
    /\ Exhausts(j)
    /\ mem' = Failed(j, mem[j][1].wait)
    /\ \/ Bury(j) /\ Removing(j)
       \/ BuryFails /\ call' = call
    /\ UNCHANGED <<proc, file, history>>

\* give_up: park a job whose failure no retry can fix.
GiveUp(j) ==
    /\ Ready
    /\ mem[j] # <<>>
    /\ \/ Bury(j) /\ Removing(j)
       \/ BuryFails /\ call' = call
    /\ UNCHANGED <<proc, mem, file, history>>

\* record_success: removes every entry of the job.
RecordSuccess(j) ==
    /\ Ready
    /\ j \in issued
    /\ mem' = [mem EXCEPT ![j] = <<>>]
    /\ Persist
    /\ finished' = finished \cup {j}
    /\ UNCHANGED <<proc, dead, call, issued, acked>>

\* defer_until: every entry due before the limit is held back to it.
DeferUntil ==
    /\ Ready
    /\ \E j \in Jobs : \E i \in DOMAIN mem[j] : mem[j][i].wait = "due"
    /\ mem' = [j \in Jobs |->
                 [i \in DOMAIN mem[j] |-> [mem[j][i] EXCEPT !.wait = "held"]]]
    /\ Persist
    /\ UNCHANGED <<proc, dead, call, history>>

\* What requeue_dead adds for n parked entries: full attempt budgets, due now.
Revived(n) == [i \in 1..n |-> Fresh("due")]

\* requeue_dead, up to the write of the queue. A dead file that cannot be read
\* is left alone (no step); one that does not parse revives nothing.
RequeueDead ==
    /\ Ready
    /\ dead # NoDead
    /\ \/ /\ mem' = [j \in Jobs |-> mem[j] \o Revived(dead[j])]
          /\ \/ PersistOk /\ call' = Unlinking
             \/ PersistFails /\ call' = call
       \/ /\ mem' = mem
          /\ file' = mem
          /\ Fault("read")
          /\ call' = Unlinking
    /\ UNCHANGED <<proc, dead, history>>

\* Mutant: requeue_dead forgets to remove the dead file.
UnlinkForgotten ==
    /\ proc = "up"
    /\ call = Unlinking
    /\ call' = Idle
    /\ UNCHANGED <<proc, mem, file, dead, faults, seen, history>>

\* The remove_file that ends requeue_dead; its error is ignored.
UnlinkDead ==
    /\ proc = "up"
    /\ call = Unlinking
    /\ \/ dead' = NoDead /\ NoFault
       \/ dead' = dead /\ Fault("unlink")
    /\ call' = Idle
    /\ UNCHANGED <<proc, mem, file, history>>

\* Time passes the next_retry_at of job j, in memory and on disk alike.
ComesDue(j) ==
    LET due(s) == [i \in DOMAIN s |-> [s[i] EXCEPT !.wait = "due"]]
    IN  /\ <<mem[j], file[j]>> # <<due(mem[j]), due(file[j])>>
        /\ mem' = [mem EXCEPT ![j] = due(@)]
        /\ file' = [file EXCEPT ![j] = due(@)]
        /\ UNCHANGED <<proc, dead, call, faults, seen, history>>

\* A write of another file of the meeting fails: the faults share one bound.
OtherWriteFails == Fault("write") /\ UNCHANGED <<queueVars, history>>

Next ==
    \/ LoadOrCreate
    \/ OtherWriteFails
    \/ Crash
    \/ Quit
    \/ RequeueDead
    \/ UnlinkDead
    \/ DeferUntil
    \/ \E j \in Jobs :
         \/ \E wait \in {"due", "held"} : Enqueue(j, wait)
         \/ RecordFailure(j)
         \/ Exhaust(j)
         \/ GiveUp(j)
         \/ RetainAndPersist(j)
         \/ RecordSuccess(j)
         \/ ComesDue(j)

Spec == Init /\ [][Next]_vars

-----------------------------------------------------------------------------
(****************************************************************************)
(* Properties.                                                              *)
(****************************************************************************)
OnDisk(j) == file[j] # <<>> \/ dead[j] > 0

\* No file has turned out unreadable or unparsable.
Damage == {"read", "corrupt"}
Undamaged == seen \cap Damage = {}

\* Every job whose enqueue returned Ok and that was never reported finished is
\* in the queue file or in the dead file, whatever crashes and failed writes
\* happened: "a helper restart (or crash) doesn't silently drop work"
\* (resilience.rs, RetryQueue) and "parked here instead of vanishing" (bury).
\* A file that cannot be read ends the promise: bury and requeue_dead take it
\* for an empty one, and a queue file that does not parse is renamed away.
NoAckedJobVanishes == Undamaged => \A j \in acked \ finished : OnDisk(j)

\* The strengthening that makes NoAckedJobVanishes inductive: a loaded queue
\* still knows every owed job or the dead file does, a job being removed is
\* already parked, and a dead file about to be removed has been revived in full.
Safekeeping ==
    Undamaged =>
      /\ \A j \in acked \ finished : OnDisk(j)
      /\ proc = "up" => \A j \in acked \ finished : mem[j] # <<>> \/ dead[j] > 0
      /\ call.op = "retain" => \A j \in call.jobs : dead[j] > 0
      /\ call.op = "unlink" =>
           \A j \in Jobs : dead[j] > 0 => mem[j] # <<>> /\ file[j] # <<>>

\* As long as no call is interrupted and no write fails, no job is handed out
\* twice or both queued and parked, whatever files turn out unreadable
\* (parse_tolerant, quarantine, requeue_dead, bury followed by retain).
NoDuplicateWork ==
    seen \subseteq Damage /\ Ready => \A j \in Jobs : Len(mem[j]) + dead[j] <= 1

=============================================================================
