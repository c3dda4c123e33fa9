---------------------------- MODULE Integrations ----------------------------
(* Announcing finished notes to webhooks, Slack and Notion (webapp/src/lib/  *)
(* integrations.ts).                                                         *)
(*                                                                           *)
(* A sender is one asynchronous activity of the server: a call of            *)
(* notifyNoteReady and the pass over due deliveries it starts, or a pass of  *)
(* the maintenance.  Each step is one statement.  nextAttemptAt is           *)
(* abstracted to whether it has come (due) and a stamp that changes with     *)
(* every write of the column, which is what the claim compares.  A row is    *)
(* named by its note and its integration: a note is announced once.          *)
EXTENDS Naturals, FiniteSets, FiniteSetsExt

CONSTANTS
  Notes, Hooks,       \* notes, and integrations of the workspace
  Senders,            \* activities that may run together
  MaxHooks,           \* MAX_INTEGRATIONS_PER_WORKSPACE
  MaxDeliveries,      \* MAX_DELIVERY_ATTEMPTS
  BatchSize           \* rows one pass takes

ASSUME DeliveryAssumption == MaxDeliveries \in Nat \ {0} /\ BatchSize \in Nat \ {0}
ASSUME HooksAssumption == MaxHooks \in Nat

VARIABLES
  hook,               \* Integration: "none", "off", "on", or "unreadable" when on
  delivery,           \* IntegrationDelivery: note, hook -> its row
  notified,           \* notes whose readyNotifiedAt is set
  trashed,            \* notes that are deleted
  sender,             \* sender -> what it is doing
  accepted,           \* (history) how often the destination took the delivery
  doubt,              \* (history) acceptances the server was not told of
  lapsed              \* (history) times a claim ran out, or a row's sender died

hookVars == <<hook, delivery, notified, trashed, sender, accepted, doubt, lapsed>>
hookHistory == <<accepted, doubt, lapsed>>

Deliveries == Notes \X Hooks
NoRow == [status |-> "none"]
Resting == [pc |-> "idle"]
Doing(s, pc) == sender[s].pc = pc
Does(s, x) == sender' = [sender EXCEPT ![s] = x]
Exists(d) == delivery[d] # NoRow
Pending(d) == delivery[d].status = "pending"
Holding(d) == {s \in Senders : sender[s].pc \in {"look", "send", "write"} /\ sender[s].row = d}

----------------------------------------------------------------------------
(* What owners do *)
createIntegration(i) ==
  /\ hook[i] = "none" /\ Cardinality({k \in Hooks : hook[k] # "none"}) < MaxHooks
  /\ hook' = [hook EXCEPT ![i] = "on"]
  /\ UNCHANGED <<delivery, notified, trashed, sender, hookHistory>>

setIntegrationEnabled(i) ==
  /\ hook[i] \in {"on", "off"}
  /\ hook' = [hook EXCEPT ![i] = IF @ = "on" THEN "off" ELSE "on"]
  /\ UNCHANGED <<delivery, notified, trashed, sender, hookHistory>>

\* The rows go with the integration (foreign key).
deleteIntegration(i) ==
  /\ hook[i] # "none"
  /\ hook' = [hook EXCEPT ![i] = "none"]
  /\ delivery' = [d \in Deliveries |-> IF d[2] = i THEN NoRow ELSE delivery[d]]
  /\ UNCHANGED <<notified, trashed, sender, hookHistory>>

\* openConfig answers null when the stored secret cannot be decrypted.
openConfigFails(i) ==
  /\ hook[i] = "on"
  /\ hook' = [hook EXCEPT ![i] = "unreadable"]
  /\ UNCHANGED <<delivery, notified, trashed, sender, hookHistory>>

MoveNoteToTrash(n) ==
  /\ trashed' = IF n \in trashed THEN trashed \ {n} ELSE trashed \cup {n}
  /\ UNCHANGED <<hook, delivery, notified, sender, hookHistory>>

----------------------------------------------------------------------------
(* notifyNoteReady *)
Enabled == {i \in Hooks : hook[i] \in {"on", "unreadable"}}

notifyNoteReady(s, n) ==
  /\ Doing(s, "idle")
  /\ \E writable \in BOOLEAN :
       Does(s, IF Enabled = {} \/ ~writable THEN Resting
                ELSE [pc |-> "claim-note", note |-> n, to |-> Enabled])
  /\ UNCHANGED <<hook, delivery, notified, trashed, hookHistory>>

\* The first caller to find the column empty announces the note.
claimNote(s) ==
  /\ Doing(s, "claim-note")
  /\ LET n == sender[s].note IN
     IF n \notin notified \cup trashed
     THEN notified' = notified \cup {n} /\ Does(s, [sender[s] EXCEPT !.pc = "create"])
     ELSE Does(s, Resting) /\ UNCHANGED notified
  /\ UNCHANGED <<hook, delivery, trashed, hookHistory>>

\* One createMany: an integration removed since it was read fails all of it.
\* The first pass over the rows starts at once, in the background.
createDeliveries(s) ==
  LET n == sender[s].note
      to == sender[s].to
  IN /\ Doing(s, "create")
     /\ IF \E i \in to : hook[i] = "none"
        THEN Does(s, Resting) /\ UNCHANGED delivery
        ELSE /\ delivery' = [d \in Deliveries |->
                   IF d[1] = n /\ d[2] \in to
                   THEN [status |-> "pending", attempts |-> 0, due |-> TRUE, stamp |-> 0]
                   ELSE delivery[d]]
             /\ Does(s, [pc |-> "read"])
     /\ UNCHANGED <<hook, notified, trashed, hookHistory>>

----------------------------------------------------------------------------
(* processDeliveries *)
runIntegrationMaintenance(s) ==
  /\ Doing(s, "idle")
  /\ Does(s, [pc |-> "read"])
  /\ UNCHANGED <<hook, delivery, notified, trashed, hookHistory>>

Batch(s, todo) == IF todo = {} THEN Resting ELSE [pc |-> "claim", todo |-> todo]

readDue(s) ==
  /\ Doing(s, "read")
  /\ LET due == {d \in Deliveries : Exists(d) /\ Pending(d) /\ delivery[d].due} IN
     \E S \in SUBSET due :
       /\ Cardinality(S) = Min({BatchSize, Cardinality(due)})
       /\ Does(s, Batch(s, {<<d, delivery[d].stamp, delivery[d].attempts>> : d \in S}))
  /\ UNCHANGED <<hook, delivery, notified, trashed, hookHistory>>

\* Mutant: the claim does not compare nextAttemptAt.
ClaimsBlindly(d, stamp) == Exists(d) /\ Pending(d)

claimable(d, stamp) == Exists(d) /\ Pending(d) /\ delivery[d].stamp = stamp

\* The claim moves nextAttemptAt forward by the lease and counts the attempt.
leased(r) == [r EXCEPT !.attempts = @ + 1, !.stamp = @ + 1, !.due = FALSE]

claimDelivery(s) ==
  /\ Doing(s, "claim")
  /\ \E x \in sender[s].todo :
       LET rest == sender[s].todo \ {x} IN
       IF claimable(x[1], x[2])
       THEN /\ delivery' = [delivery EXCEPT ![x[1]] = leased(@)]
            /\ Does(s, [pc |-> "look", row |-> x[1], attempt |-> x[3] + 1, todo |-> rest])
       ELSE Does(s, Batch(s, rest)) /\ UNCHANGED delivery
  /\ UNCHANGED <<hook, notified, trashed, hookHistory>>

\* Reads the integration and rebuilds the payload from the note.
lookUp(s) ==
  LET d == sender[s].row
      found == CASE hook[d[2]] \in {"none", "off"} -> "skipped"
                 [] hook[d[2]] = "unreadable" -> "failed"
                 [] hook[d[2]] = "on" /\ d[1] \in trashed -> "skipped"
                 [] OTHER -> "send"
  IN /\ Doing(s, "look")
     /\ Does(s, IF found = "send" THEN [sender[s] EXCEPT !.pc = "send"]
                 ELSE [pc |-> "write", row |-> d, attempt |-> sender[s].attempt,
                       result |-> found, todo |-> sender[s].todo])
     /\ UNCHANGED <<hook, delivery, notified, trashed, hookHistory>>

\* The request (external): taken or not, and answered or not.
defaultSender(s) ==
  LET d == sender[s].row IN
  /\ Doing(s, "send")
  /\ \E taken, answered \in BOOLEAN :
       /\ accepted' = IF taken THEN [accepted EXCEPT ![d] = @ + 1] ELSE accepted
       /\ doubt' = IF taken /\ ~answered THEN [doubt EXCEPT ![d] = @ + 1] ELSE doubt
       /\ Does(s, [pc |-> "write", row |-> d, attempt |-> sender[s].attempt,
                    result |-> IF taken /\ answered THEN "delivered" ELSE "again",
                    todo |-> sender[s].todo])
  /\ UNCHANGED <<hook, delivery, notified, trashed, lapsed>>

finished(r, result, attempt) ==
  IF result # "again" THEN [r EXCEPT !.status = result]
  ELSE IF attempt >= MaxDeliveries THEN [r EXCEPT !.status = "failed", !.stamp = @ + 1]
  ELSE [r EXCEPT !.status = "pending", !.due = FALSE, !.stamp = @ + 1]

\* The row is written by its id alone.  When it is gone the statement throws
\* and the rest of the pass is left for the next one.
writeResult(s) ==
  LET d == sender[s].row
      r == sender[s].result
  IN /\ Doing(s, "write")
     /\ IF ~Exists(d)
        THEN Does(s, Resting) /\ UNCHANGED delivery
        ELSE /\ delivery' = [delivery EXCEPT ![d] = finished(@, r, sender[s].attempt)]
             /\ Does(s, Batch(s, sender[s].todo))
     /\ UNCHANGED <<hook, notified, trashed, hookHistory>>

----------------------------------------------------------------------------
(* Time and failure *)
\* nextAttemptAt comes: the retry delay is over, or the claim's lease ran out.
AttemptTimeComes(d) ==
  /\ Exists(d) /\ Pending(d) /\ ~delivery[d].due
  /\ delivery' = [delivery EXCEPT ![d] = [@ EXCEPT !.due = TRUE]]
  /\ lapsed' = IF Holding(d) # {} THEN [lapsed EXCEPT ![d] = @ + 1] ELSE lapsed
  /\ UNCHANGED <<hook, notified, trashed, sender, accepted, doubt>>

\* The server stops while the sender is at work.
SenderDies(s) ==
  /\ ~Doing(s, "idle")
  /\ Does(s, Resting)
  /\ LET hit == {d \in Deliveries : s \in Holding(d)} IN
     lapsed' = [d \in Deliveries |-> IF d \in hit THEN lapsed[d] + 1 ELSE lapsed[d]]
  /\ UNCHANGED <<hook, delivery, notified, trashed, accepted, doubt>>

\* Rows older than two weeks are deleted; nobody holds a row that long.
purgeDeliveries(d) ==
  /\ Exists(d) /\ Holding(d) = {}
  /\ delivery' = [delivery EXCEPT ![d] = NoRow]
  /\ UNCHANGED <<hook, notified, trashed, sender, hookHistory>>

HooksInit ==
  /\ hook \in [Hooks -> {"none", "on"}]
  /\ delivery = [d \in Deliveries |-> NoRow]
  /\ notified = {} /\ trashed = {}
  /\ sender = [s \in Senders |-> Resting]
  /\ accepted = [d \in Deliveries |-> 0]
  /\ doubt = [d \in Deliveries |-> 0]
  /\ lapsed = [d \in Deliveries |-> 0]

\* Nobody is told twice: while no claim has run out under its sender, one
\* sender works on a delivery at a time, the destination takes it once more
\* than the times its answer was lost, and the attempts end at their maximum.
\* Claims that do run out cost at most one further attempt each.
ToldOnce ==
  \A d \in Deliveries :
    /\ lapsed[d] = 0 => Cardinality(Holding(d)) <= 1 /\ accepted[d] <= 1 + doubt[d]
    /\ Exists(d) => delivery[d].attempts <= MaxDeliveries + lapsed[d]
=============================================================================
