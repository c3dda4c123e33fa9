--------------------------- MODULE ProviderSpend ---------------------------
(* Requests to the paid providers and the budgets they are charged to        *)
(* (webapp/src/lib/providerSpend.ts, providerRequest of managedWorker.ts).   *)
(*                                                                           *)
(* A caller is one sequence of provider requests: a track of a job, its      *)
(* summary, or a question.  Every attempt of a request first passes the      *)
(* caller's guards, then reserves its estimate in every bucket of the day,   *)
(* is sent, and is settled with the cost the provider reports.  Each of      *)
(* these is a step of its own.  Amounts are in units of the estimate.        *)
EXTENDS Naturals, Integers, Sequences, FiniteSets, FiniteSetsExt, Functions

CONSTANTS
  Callers,      \* the sequences of requests that can be under way
  Accounts,     \* the workspaces that spend
  Days,         \* 1..n: the days of a behaviour
  Limit,        \* "global", "workspace", "trial" -> micros a day
  Estimate,     \* micros reserved for one attempt
  Reports,      \* costs a provider may report
  MaxTries,     \* PROVIDER_MAX_ATTEMPTS
  Trial         \* the workspaces on the hosted trial

ASSUME AmountAssumption == Estimate \in Nat \ {0} /\ Reports \subseteq Nat
ASSUME LimitAssumption == Limit \in [{"global", "workspace", "trial"} -> Nat]
ASSUME TriesAssumption == MaxTries \in Nat \ {0}

VARIABLES
  day,          \* the current UTC day
  spend,        \* ProviderSpendBucket: bucket -> committedMicros
  attempts,     \* ProviderSpendAttempt: caller -> its rows, oldest first
  call          \* caller -> where its current request stands

spendVars == <<day, spend, attempts, call>>

Buckets == [kind : {"global", "trial"}, day : Days]
             \cup [kind : {"workspace"}, of : Accounts, day : Days]

Quiet == [at |-> "none"]
CallAt(c, s) == call[c].at = s
Turn(c, s) == [call EXCEPT ![c].at = s]

Request(n) == [at |-> "guard", left |-> n, tries |-> 0, result |-> "none"]

\* The buckets of an attempt made today for workspace w.
bucketsOf(w) ==
  {[kind |-> "global", day |-> day], [kind |-> "workspace", of |-> w, day |-> day]}
    \cup (IF w \in Trial THEN {[kind |-> "trial", day |-> day]} ELSE {})

\* assertProviderAdmission: the look at the budgets before an upload is taken.
assertProviderAdmission(w) == \A b \in bucketsOf(w) : spend[b] < Limit[b.kind]

\* The guards of the spend context run before every reservation.
passGuards(c, held) ==
  /\ CallAt(c, "guard")
  /\ call' = Turn(c, IF held THEN "reserve" ELSE "failed")
  /\ UNCHANGED <<day, spend, attempts>>

\* Mutant: the admission looks at the budget as it was before the reservation.
AdmitsStale(b) == spend[b] < Limit[b.kind]

admits(b) == spend[b] <= Limit[b.kind] - Estimate

\* reserveProviderAttempt: one transaction over every bucket of the day, or
\* ProviderBudgetError and nothing reserved.
reserveProviderAttempt(c, w) ==
  /\ CallAt(c, "reserve")
  /\ IF \A b \in bucketsOf(w) : admits(b)
     THEN /\ spend' = [b \in Buckets |-> IF b \in bucketsOf(w) THEN spend[b] + Estimate ELSE spend[b]]
          /\ attempts' = [attempts EXCEPT ![c] = Append(@,
               [buckets |-> bucketsOf(w), reserved |-> Estimate, charged |-> Estimate,
                settled |-> FALSE, cost |-> 0])]
          /\ call' = Turn(c, "send")
     ELSE call' = Turn(c, "failed") /\ UNCHANGED <<spend, attempts>>
  /\ UNCHANGED day

\* The request at the provider (external).  An answer with a readable cost bills
\* that cost; otherwise what is billed is unknown to the program and, at worst,
\* the estimate.  "transient" is a broken connection, a timeout or a status that
\* is tried again, "refused" any other status.
fetch(c) ==
  /\ CallAt(c, "send")
  /\ \E result \in {"reported", "unread", "transient", "refused"} :
     \E cost \in (IF result = "reported" THEN Reports ELSE {Estimate}) :
       /\ call' = [call EXCEPT ![c].at = "settle", ![c].result = result]
       /\ attempts' = [attempts EXCEPT ![c][Len(attempts[c])].cost = cost]
  /\ UNCHANGED <<day, spend>>

\* What providerRequest does with the answer: 408, 425, 429, 5xx and broken
\* connections are tried again, anything else ends the request.
providerRetryable(result) == result = "transient"

afterAnswer(q) ==
  IF q.result \in {"reported", "unread"}
  THEN IF q.left = 1 THEN [q EXCEPT !.at = "ok", !.left = 0]
       ELSE [q EXCEPT !.at = "guard", !.left = @ - 1, !.tries = 0]
  ELSE IF providerRetryable(q.result) /\ q.tries + 1 < MaxTries
  THEN [q EXCEPT !.at = "guard", !.tries = @ + 1]
  ELSE [q EXCEPT !.at = "failed"]

\* A known cost replaces the reservation, even when it is higher; an unknown
\* one stays at the reservation.
settledCharge(a, q) == IF q.result = "reported" THEN a.cost ELSE a.reserved

\* settleProviderAttempt: one transaction that corrects the buckets the attempt
\* was reserved in, whatever the day is by now.
settleProviderAttempt(c) ==
  LET n == Len(attempts[c])
      a == attempts[c][n]
      charge == settledCharge(a, call[c])
  IN /\ CallAt(c, "settle") /\ ~a.settled
     /\ spend' = [b \in Buckets |-> IF b \in a.buckets THEN spend[b] + charge - a.charged ELSE spend[b]]
     /\ attempts' = [attempts EXCEPT ![c][n].charged = charge, ![c][n].settled = TRUE]
     /\ call' = [call EXCEPT ![c] = afterAnswer(@)]
     /\ UNCHANGED day

\* The settlement itself can fail: the request is lost, the row stays as it was.
settleFails(c) ==
  /\ CallAt(c, "settle")
  /\ call' = Turn(c, "failed")
  /\ UNCHANGED <<day, spend, attempts>>

Midnight ==
  /\ day + 1 \in Days
  /\ day' = day + 1
  /\ UNCHANGED <<spend, attempts, call>>

SpendInit ==
  /\ day = 1
  /\ spend = [b \in Buckets |-> 0]
  /\ attempts = [c \in Callers |-> <<>>]
  /\ call = [c \in Callers |-> Quiet]

SpendTypeOK ==
  /\ day \in Days
  /\ DOMAIN spend = Buckets /\ \A b \in Buckets : spend[b] \in Int
  /\ \A c \in Callers : \A k \in 1..Len(attempts[c]) :
       attempts[c][k].charged \in Nat /\ attempts[c][k].buckets \subseteq Buckets

\* Every row of ProviderSpendAttempt.
Rows == UNION {{<<c, k>> : k \in 1..Len(attempts[c])} : c \in Callers}
Row(x) == attempts[x[1]][x[2]]
Total(S, f(_)) == MapThenSumSet(f, S)
Charged(x) == Row(x).charged
Overrun(x) == Row(x).charged - Row(x).reserved
RowsOf(b) == {x \in Rows : b \in Row(x).buckets}

\* A day's budget covers what the providers bill for that day: each bucket
\* holds the sum of its attempts, no attempt is charged less than the provider
\* bills for it (timeouts, crashes and unreadable answers included), and the
\* limit is passed only by costs reported above their estimate.
SpendCovers ==
  /\ \A x \in Rows : IF Row(x).settled THEN Row(x).cost <= Row(x).charged
                                        ELSE Row(x).charged = Row(x).reserved
  /\ \A b \in Buckets :
       /\ spend[b] = Total(RowsOf(b), Charged)
       /\ spend[b] <= Limit[b.kind] + Total({x \in RowsOf(b) : Overrun(x) > 0}, Overrun)
=============================================================================
