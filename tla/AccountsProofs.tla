--------------------------- MODULE AccountsProofs ---------------------------
(****************************************************************************)
(* Proofs about who may enter a workspace and what is paid for it.          *)
(* Of Accounts, for every number of mailboxes, workspaces, addresses and    *)
(* requests in flight: every workspace keeps an owner and every row the     *)
(* rows it refers to, a finished change of password ends what was signed in *)
(* before it, and guesses of a password are bounded. Of Billing, for every  *)
(* number of buyers, checkouts and webhooks: a workspace is never billed    *)
(* twice, and its row follows what Stripe reports.                          *)
(****************************************************************************)
EXTENDS Accounts, Billing, FiniteSetTheorems, TLAPS

CredentialKinds == {"session", "token", "notes"}
LinkKinds == {"code", "google", "reset", "verify", "invite"}
TeamOps == {"role", "remove", "invite", "owner-reset", "revoke-invite", "add"}

ACredential == [n : Nat, e : Emails, kind : CredentialKinds, ws : Workspaces \cup {None}, from : Nat]
ALink == [n : Nat, kind : LinkKinds, e : Emails, id : Nat \cup {None}, ws : Workspaces \cup {None}, from : Nat]

\* What a request in flight carries.
WellFormed(r) ==
  /\ r.op # "idle" => r.e \in Emails
  /\ r.op \in {"failed", "proven", "signup"} => r.a \in Addresses
  /\ r.op \in {"proven", "issue", "exchange", "mint"} => r.kind \in CredentialKinds /\ r.from \in Nat
  /\ r.op = "finish" => /\ r.pw \in Nat /\ r.id \in Nat
                        /\ r.key \in {<<"email", r.e>>, <<"pwchange", r.e>>}
  /\ r.op = "signup" => r.google \in BOOLEAN
  /\ r.op \in TeamOps => r.w \in Workspaces /\ r.x \in Emails
  /\ r.op = "role" => r.role \in {"member", "owner"}
  /\ r.op \in {"join", "erase"} => r.w \in Workspaces

\* The type invariant with the fields that the actions read.
Types ==
  /\ conf \in Scenes
  /\ account \in [Emails -> AnAccount \cup {None}]
  /\ member \in [Emails -> [Workspaces -> Roles]] /\ workspaces \subseteq Workspaces
  /\ creds \subseteq ACredential /\ links \subseteq ALink
  /\ \A l \in links : l.kind = "invite" => l.ws \in Workspaces
  /\ DOMAIN req = Procs /\ \A p \in Procs : WellFormed(req[p])
  /\ hot \subseteq Keys /\ fails \in [Keys -> Nat] /\ tries \in [Keys -> Nat]
  /\ done \in [Emails -> Nat]
  /\ left \in Nat /\ next \in Nat

\* The rows refer to rows that are there; workspaces have owners and accounts belong.
Owned == \A w \in workspaces : Owners(w) # {} \/ w \in crossed
Housed == \A e \in Emails : account[e] # None => Belongs(e) \/ e \in adrift
MembersExist == \A e \in Emails, w \in Workspaces : member[e][w] # "none" => account[e] # None /\ w \in workspaces
HoldersExist == \A c \in creds : account[c.e] # None
LinksExist == \A l \in links : l.kind # "invite" => Is(l.e, l.id)
Rows == Owned /\ Housed /\ MembersExist /\ HoldersExist /\ LinksExist

\* Fresh numbers are fresh, and the newest finished change is at most the password.
Numbered ==
  /\ \A e \in Emails : done[e] < next
  /\ \A e \in Emails : account[e] # None => account[e].id < next /\ account[e].pw < next /\ done[e] <= account[e].pw
  /\ \A p \in Procs : req[p].op = "finish" =>
       /\ req[p].pw < next /\ req[p].id < next
       /\ Is(req[p].e, req[p].id) => req[p].pw <= account[req[p].e].pw

\* A session rests on the password as it is, or slipped past a change; tokens last
\* until the change has finished.
SessionsFresh == \A c \in creds : c.kind = "session" => c.from >= account[c.e].pw \/ c.n \in slipped
Signed == SessionsFresh /\ OldCredentialsEnd

\* The requests that will count against a key.
Hits(r, k) ==
  \/ r.op = "failed" /\ k \in loginRules(r.e, r.a)
  \/ r.op = "signup" /\ k = <<"signup", r.a>>
Pending(k) == {p \in Procs : Hits(req[p], k)}

\* A key without delay has had its free attempts at most; with those in flight it
\* gets no further than one more each.
Limit(k) == Free[k[1]] + Cardinality(Procs)
Throttled ==
  \A k \in Keys :
    /\ tries[k] <= fails[k]
    /\ k \notin hot => tries[k] <= Free[k[1]]
    /\ tries[k] + Cardinality(Pending(k)) <= Limit(k)

Inv == Types /\ Rows /\ Numbered /\ Signed /\ Throttled

----------------------------------------------------------------------------
(* What steps do to the requests in flight and to the rows *)

\* Nothing is added to the rows; credentials and links may go.
Quiet ==
  /\ UNCHANGED <<db, history, next>>
  /\ creds' \subseteq creds /\ links' \subseteq links

\* No request comes to its last step of a change of password.
NoFinish == \A q \in Procs : req'[q].op = "finish" => req'[q] = req[q]

\* A request that moves on leaves the others alone.
LEMMA Requests ==
  ASSUME Types, NEW p \in Procs, NEW r, WellFormed(r), req' = [req EXCEPT ![p] = r]
  PROVE  /\ DOMAIN req' = Procs /\ \A q \in Procs : WellFormed(req'[q])
         /\ req'[p] = r /\ \A q \in Procs \ {p} : req'[q] = req[q]
         /\ r.op # "finish" => NoFinish
<1>1. DOMAIN req = Procs /\ \A q \in Procs : WellFormed(req[q])
  BY DEF Types
<1>2. DOMAIN req' = Procs /\ req'[p] = r /\ \A q \in Procs \ {p} : req'[q] = req[q]
  BY <1>1
<1>3. \A q \in Procs : WellFormed(req'[q])
  BY <1>1, <1>2
<1>4. r.op # "finish" => NoFinish
  BY <1>2 DEF NoFinish
<1>. QED
  BY <1>2, <1>3, <1>4

\* An idle request carries nothing.
LEMMA IdleWellFormed == WellFormed(Idle) /\ Idle.op = "idle"
BY DEF WellFormed, Idle, TeamOps

\* A session or token acts in workspaces, for the mailbox that it names.
LEMMA SessionsAct ==
  ASSUME Types, NEW c \in creds
  PROVE  /\ c.e \in Emails /\ c.from \in Nat /\ c.n \in Nat /\ c.kind \in CredentialKinds
         /\ \A b \in BOOLEAN : requireSession(c, b) \subseteq Workspaces
         /\ getManagedSession(c) \subseteq Workspaces
         /\ \A e, w : resolveActiveWorkspace(e, w) \subseteq Workspaces
<1>1. c \in ACredential /\ workspaces \subseteq Workspaces
  BY DEF Types
<1>2. c.e \in Emails /\ c.from \in Nat /\ c.n \in Nat /\ c.kind \in CredentialKinds
  BY <1>1 DEF ACredential
<1>3. \A e, w : resolveActiveWorkspace(e, w) \subseteq Workspaces
  BY <1>1 DEF resolveActiveWorkspace
<1>4. \A b \in BOOLEAN : requireSession(c, b) \subseteq Workspaces
  BY <1>3 DEF requireSession
<1>5. getManagedSession(c) \subseteq Workspaces
  BY <1>1 DEF getManagedSession
<1>. QED
  BY <1>2, <1>3, <1>4, <1>5

\* A request that begins: what it carries is well formed, it removes at most what it
\* spends, and what it will count against is free of a delay.
Starts(p, r) ==
  /\ Start(p, r) /\ WellFormed(r) /\ r.op # "finish"
  /\ \A k \in Keys : Hits(r, k) => k \notin hot
  /\ Quiet /\ UNCHANGED <<conf, throttle>>

\* A hit counted by a request that reads and counts in one statement.
CountsAtOnce(k) ==
  /\ k \in Keys /\ k[1] \in {"reset", "verify", "pwchange"} /\ k \notin hot
  /\ recordThrottleHit({k}) /\ Once /\ UNCHANGED conf

\* Every request begins in one of these ways.
LEMMA Beginnings ==
  ASSUME Types, NEW p \in Procs, Begin(p)
  PROVE  (\E r : Starts(p, r)) \/ (\E k : CountsAtOnce(k) /\ Quiet)
<1> DEFINE Goal == (\E r : Starts(p, r)) \/ (\E k : CountsAtOnce(k) /\ Quiet)
<1>a. conf \in Scenes /\ conf.mail \subseteq Emails
  BY ScenesAssumption DEF Types
<1>b. \A l \in links : l.e \in Emails /\ l.from \in Nat /\ (l.kind = "invite" => l.ws \in Workspaces)
  BY DEF Types, ALink
<1>c. \A e \in Emails : account[e] # None => account[e].pw \in Nat
  BY DEF Types, AnAccount
<1>d. \A c \in creds : c.e \in Emails /\ c.from \in Nat /\ c.kind \in CredentialKinds
  BY SessionsAct
<1>e. ASSUME NEW r, Start(p, r), WellFormed(r), r.op \notin {"finish", "failed", "signup"}, Quiet, UNCHANGED <<conf, throttle>>
      PROVE  Goal
  BY <1>e DEF Starts, Hits
<1>f. \A e \in Emails, a \in Addresses : loginRules(e, a) \subseteq Keys /\ <<"signup", a>> \in Keys
  BY DEF loginRules, Keys
<1>g. \A e \in Emails : <<"pwchange", e>> \in Keys /\ <<"pwchange", e>>[1] = "pwchange"
  BY DEF Keys
<1>h. /\ links' = links /\ creds' = creds /\ UNCHANGED <<db, history, next>> => Quiet
      /\ creds' \subseteq creds /\ links' = links /\ UNCHANGED <<db, history, next>> => Quiet
      /\ creds' = creds /\ links' \subseteq links /\ UNCHANGED <<db, history, next>> => Quiet
  BY DEF Quiet
<1>1. ASSUME NEW e \in conf.mail, NEW a \in Addresses, NEW right \in BOOLEAN,
             NEW kind \in {"session", "token"}, authenticateCredentials(p, e, a, right, kind)
      PROVE  Goal
  <2>1. e \in Emails /\ Quiet /\ UNCHANGED <<conf, throttle>>
    BY <1>1, <1>a, <1>h DEF authenticateCredentials
  <2>2. CASE right /\ account[e] # None
    <3>1. PICK r : r = [op |-> "proven", e |-> e, a |-> a, id |-> account[e].id, kind |-> kind,
                        must |-> account[e].must, from |-> account[e].pw]
      OBVIOUS
    <3>2. Start(p, r)
      BY <1>1, <2>2, <3>1 DEF authenticateCredentials
    <3>3. WellFormed(r)
      BY <1>c, <2>1, <2>2, <3>1 DEF WellFormed, CredentialKinds, TeamOps
    <3>. QED
      BY <1>e, <2>1, <3>1, <3>2, <3>3
  <2>3. CASE ~(right /\ account[e] # None)
    <3>1. PICK r : r = [op |-> "failed", e |-> e, a |-> a]
      OBVIOUS
    <3>2. Start(p, r) /\ throttleStatus(loginRules(e, a))
      BY <1>1, <2>3, <3>1 DEF authenticateCredentials
    <3>3. WellFormed(r)
      BY <2>1, <3>1 DEF WellFormed, TeamOps
    <3>4. \A k \in Keys : Hits(r, k) => k \notin hot
      BY <3>1, <3>2 DEF Hits, throttleStatus
    <3>. QED
      BY <2>1, <3>1, <3>2, <3>3, <3>4 DEF Starts
  <2>. QED
    BY <2>2, <2>3
<1>2. ASSUME NEW e \in conf.mail, NEW a \in Addresses, registerHostedAccount(p, e, a) \/ googleSignup(p, e, a)
      PROVE  Goal
  <2>1. e \in Emails /\ Quiet /\ UNCHANGED <<conf, throttle>> /\ throttleStatus({<<"signup", a>>})
    BY <1>2, <1>a, <1>h DEF registerHostedAccount, googleSignup
  <2>2. PICK g \in BOOLEAN : Start(p, [op |-> "signup", e |-> e, a |-> a, google |-> g])
    BY <1>2 DEF registerHostedAccount, googleSignup
  <2>3. PICK r : r = [op |-> "signup", e |-> e, a |-> a, google |-> g]
    OBVIOUS
  <2>4. WellFormed(r)
    BY <2>1, <2>3 DEF WellFormed, TeamOps
  <2>5. \A k \in Keys : Hits(r, k) => k \notin hot
    BY <2>1, <2>3 DEF Hits, throttleStatus
  <2>. QED
    BY <2>1, <2>2, <2>3, <2>4, <2>5 DEF Starts
<1>3. ASSUME NEW e \in conf.mail, signInWithGoogle(p, e)
      PROVE  Goal
  <2>1. e \in Emails /\ Quiet /\ UNCHANGED <<conf, throttle>> /\ account[e] # None
    BY <1>3, <1>a, <1>h DEF signInWithGoogle, googleLinkable
  <2>2. PICK w : Start(p, [op |-> "mint", e |-> e, id |-> account[e].id, kind |-> "session", must |-> FALSE,
                           ws |-> w, from |-> account[e].pw])
    BY <1>3 DEF signInWithGoogle
  <2>3. PICK r : r = [op |-> "mint", e |-> e, id |-> account[e].id, kind |-> "session", must |-> FALSE,
                      ws |-> w, from |-> account[e].pw]
    OBVIOUS
  <2>4. WellFormed(r)
    BY <1>c, <2>1, <2>3 DEF WellFormed, TeamOps, CredentialKinds
  <2>. QED
    BY <1>e, <2>1, <2>2, <2>3, <2>4
<1>4. ASSUME NEW l \in links,
             \/ spendResetLink(p, l) \/ desktopCode(p, l) \/ googleExchange(p, l)
             \/ acceptInviteAsUser(p, l) \/ acceptInviteWithNewAccount(p, l)
      PROVE  Goal
  <2>0. l.e \in Emails /\ l.from \in Nat
    BY <1>b
  <2>1. Quiet /\ UNCHANGED <<conf, throttle>>
    <3>1. links' \subseteq links
      BY <1>4 DEF spendResetLink, desktopCode, googleExchange, acceptInviteAsUser, acceptInviteWithNewAccount,
                  consumeAuthToken, consumeGoogleExtensionCode
    <3>2. creds' = creds /\ UNCHANGED <<db, history, next, conf, throttle>>
      BY <1>4 DEF spendResetLink, desktopCode, googleExchange, acceptInviteAsUser, acceptInviteWithNewAccount
    <3>. QED
      BY <1>h, <3>1, <3>2
  <2>2. CASE spendResetLink(p, l)
    <3>1. PICK r : r = [op |-> "reset", e |-> l.e, id |-> l.id]
      OBVIOUS
    <3>2. Start(p, r) /\ WellFormed(r)
      BY <2>0, <2>2, <3>1 DEF spendResetLink, WellFormed, TeamOps
    <3>. QED
      BY <1>e, <2>1, <3>1, <3>2
  <2>3. CASE desktopCode(p, l)
    <3>1. PICK r : r = [op |-> "issue", e |-> l.e, id |-> l.id, kind |-> "token", must |-> FALSE,
                        ws |-> l.ws, from |-> l.from]
      OBVIOUS
    <3>2. Start(p, r) /\ WellFormed(r)
      BY <2>0, <2>3, <3>1 DEF desktopCode, WellFormed, TeamOps, CredentialKinds
    <3>. QED
      BY <1>e, <2>1, <3>1, <3>2
  <2>4. CASE googleExchange(p, l)
    <3>1. PICK r : r = [op |-> "exchange", e |-> l.e, id |-> l.id, kind |-> "token", must |-> FALSE,
                        ws |-> l.ws, from |-> l.from]
      OBVIOUS
    <3>2. Start(p, r) /\ WellFormed(r)
      BY <2>0, <2>4, <3>1 DEF googleExchange, WellFormed, TeamOps, CredentialKinds
    <3>. QED
      BY <1>e, <2>1, <3>1, <3>2
  <2>5. CASE acceptInviteAsUser(p, l) \/ acceptInviteWithNewAccount(p, l)
    <3>1. PICK id : Start(p, [op |-> "join", e |-> l.e, id |-> id, w |-> l.ws])
      BY <2>5 DEF acceptInviteAsUser, acceptInviteWithNewAccount
    <3>2. PICK r : r = [op |-> "join", e |-> l.e, id |-> id, w |-> l.ws]
      OBVIOUS
    <3>3. l.ws \in Workspaces
      BY <1>b, <2>5 DEF acceptInviteAsUser, acceptInviteWithNewAccount
    <3>4. WellFormed(r)
      BY <2>0, <3>2, <3>3 DEF WellFormed, TeamOps
    <3>. QED
      BY <1>e, <2>1, <3>1, <3>2, <3>4
  <2>. QED
    BY <1>4, <2>2, <2>3, <2>4, <2>5
<1>5. ASSUME NEW c \in creds, signOutEverywhere(p, c)
      PROVE  Goal
  <2>1. Quiet /\ UNCHANGED <<conf, throttle>>
    BY <1>5, <1>h DEF signOutEverywhere
  <2>2. PICK r : r = [op |-> "revoke", e |-> c.e, id |-> account[c.e].id]
    OBVIOUS
  <2>3. Start(p, r) /\ WellFormed(r)
    BY <1>5, <1>d, <2>2 DEF signOutEverywhere, WellFormed, TeamOps
  <2>. QED
    BY <1>e, <2>1, <2>2, <2>3
<1>6. ASSUME NEW c \in creds, desktopSyncToken(p, c) \/ \E kind \in {"token", "notes"} : createApiTokenAction(p, c, kind)
      PROVE  Goal
  <2>0. PICK kind \in {"token", "notes"} : \E w : MintToken(p, c, w, kind)
    BY <1>6 DEF desktopSyncToken, createApiTokenAction
  <2>1. PICK w : MintToken(p, c, w, kind)
    BY <2>0
  <2>2. Quiet /\ UNCHANGED <<conf, throttle>>
    BY <1>h, <2>1 DEF MintToken
  <2>3. PICK r : r = [op |-> "mint", e |-> c.e, id |-> account[c.e].id, kind |-> kind, must |-> FALSE,
                      ws |-> w, from |-> c.from]
    OBVIOUS
  <2>4. Start(p, r) /\ WellFormed(r)
    BY <1>d, <2>1, <2>3 DEF MintToken, WellFormed, TeamOps, CredentialKinds
  <2>. QED
    BY <1>e, <2>2, <2>3, <2>4
<1>7. ASSUME NEW c \in creds, leaveWorkspace(p, c)
      PROVE  Goal
  <2>1. PICK w \in requireSession(c, TRUE) :
          Start(p, [op |-> "remove", e |-> c.e, w |-> w, x |-> c.e, role |-> "none"])
    BY <1>7 DEF leaveWorkspace
  <2>2. Quiet /\ UNCHANGED <<conf, throttle>>
    BY <1>7, <1>h DEF leaveWorkspace
  <2>3. PICK r : r = [op |-> "remove", e |-> c.e, w |-> w, x |-> c.e, role |-> "none"]
    OBVIOUS
  <2>4. w \in Workspaces
    BY SessionsAct, <2>1
  <2>5. WellFormed(r)
    BY <1>d, <2>3, <2>4 DEF WellFormed, TeamOps
  <2>. QED
    BY <1>e, <2>1, <2>2, <2>3, <2>5
<1>8. ASSUME NEW c \in creds, deleteAccount(p, c) \/ deleteWorkspace(p, c)
      PROVE  Goal
  <2>1. Quiet /\ UNCHANGED <<conf, throttle>>
    BY <1>8, <1>h DEF deleteAccount, deleteWorkspace
  <2>2. PICK todo, user : Start(p, [op |-> "purge", e |-> c.e, id |-> account[c.e].id, todo |-> todo, user |-> user])
    BY <1>8 DEF deleteAccount, deleteWorkspace
  <2>3. PICK r : r = [op |-> "purge", e |-> c.e, id |-> account[c.e].id, todo |-> todo, user |-> user]
    OBVIOUS
  <2>4. WellFormed(r)
    BY <1>d, <2>3 DEF WellFormed, TeamOps
  <2>. QED
    BY <1>e, <2>1, <2>2, <2>3, <2>4
<1>9. ASSUME NEW c \in creds, NEW right \in BOOLEAN, verifyCurrentPassword(p, c, right)
      PROVE  Goal
  <2>1. Quiet /\ UNCHANGED conf
    BY <1>9, <1>h DEF verifyCurrentPassword
  <2>2. CASE right
    <3>1. PICK r : r = [op |-> "change", e |-> c.e, id |-> account[c.e].id, keep |-> c.n]
      OBVIOUS
    <3>2. Start(p, r) /\ WellFormed(r) /\ UNCHANGED throttle
      BY <1>9, <1>d, <2>2, <3>1 DEF verifyCurrentPassword, WellFormed, TeamOps
    <3>. QED
      BY <1>e, <2>1, <3>1, <3>2
  <2>3. CASE ~right
    <3>1. Once /\ recordThrottleHit({<<"pwchange", c.e>>}) /\ throttleStatus({<<"pwchange", c.e>>})
      BY <1>9, <2>3 DEF verifyCurrentPassword
    <3>2. <<"pwchange", c.e>> \notin hot
      BY <3>1 DEF throttleStatus
    <3>. QED
      BY <1>d, <1>g, <2>1, <3>1, <3>2 DEF CountsAtOnce
  <2>. QED
    BY <2>2, <2>3
<1>10. ASSUME NEW c \in creds, NEW op \in TeamOps, NEW x \in conf.mail, NEW role \in Roles,
              op = "role" => role \in {"member", "owner"},
              manageTeam(p, c, op, x, role) \/ teamRoute(p, c, op, x, role)
      PROVE  Goal
  <2>1. PICK w \in Workspaces : manageTeamAs(p, c.e, w, op, x, role)
    BY <1>10, SessionsAct DEF manageTeam, teamRoute
  <2>2. Quiet /\ UNCHANGED <<conf, throttle>>
    BY <1>h, <2>1 DEF manageTeamAs
  <2>3. PICK r : r = [op |-> op, e |-> c.e, w |-> w, x |-> x, role |-> role]
    OBVIOUS
  <2>4. x \in Emails
    BY <1>a
  <2>5. WellFormed(r) /\ r.op \notin {"finish", "failed", "signup"}
    BY <1>10, <1>d, <2>3, <2>4 DEF WellFormed, TeamOps
  <2>6. Start(p, r)
    BY <2>1, <2>3 DEF manageTeamAs
  <2>. QED
    BY <1>e, <2>2, <2>5, <2>6
<1>. HIDE DEF Goal
<1>11. ASSUME \E e \in conf.mail, a \in Addresses, right \in BOOLEAN : login(p, e, a, right) \/ loginRoute(p, e, a, right)
       PROVE  Goal
  BY <1>1, <1>11 DEF login, loginRoute
<1>12. ASSUME \E e \in conf.mail, a \in Addresses : registerHostedAccount(p, e, a) \/ googleSignup(p, e, a)
       PROVE  Goal
  BY <1>2, <1>12
<1>13. ASSUME \E e \in conf.mail : signInWithGoogle(p, e)
       PROVE  Goal
  BY <1>3, <1>13
<1>14. ASSUME \E l \in links : \/ spendResetLink(p, l) \/ desktopCode(p, l) \/ googleExchange(p, l)
                             \/ acceptInviteAsUser(p, l) \/ acceptInviteWithNewAccount(p, l)
       PROVE  Goal
  BY <1>4, <1>14
<1>15. ASSUME NEW c \in creds,
         \/ signOutEverywhere(p, c) \/ desktopSyncToken(p, c) \/ leaveWorkspace(p, c)
         \/ deleteAccount(p, c) \/ deleteWorkspace(p, c)
         \/ \E kind \in {"token", "notes"} : createApiTokenAction(p, c, kind)
         \/ \E right \in BOOLEAN : verifyCurrentPassword(p, c, right)
         \/ \E x \in conf.mail :
              \/ \E op \in {"remove", "invite", "revoke-invite", "add", "owner-reset"} :
                   manageTeam(p, c, op, x, "none") \/ teamRoute(p, c, op, x, "none")
              \/ \E role \in {"member", "owner"} :
                   manageTeam(p, c, "role", x, role) \/ teamRoute(p, c, "role", x, role)
       PROVE  Goal
  <2>1. CASE signOutEverywhere(p, c)
    BY <1>5, <2>1
  <2>2. CASE desktopSyncToken(p, c) \/ \E kind \in {"token", "notes"} : createApiTokenAction(p, c, kind)
    BY <1>6, <2>2
  <2>3. CASE leaveWorkspace(p, c)
    BY <1>7, <2>3
  <2>4. CASE deleteAccount(p, c) \/ deleteWorkspace(p, c)
    BY <1>8, <2>4
  <2>5. CASE \E right \in BOOLEAN : verifyCurrentPassword(p, c, right)
    BY <1>9, <2>5
  <2>6. ASSUME NEW x \in conf.mail, NEW op \in {"remove", "invite", "revoke-invite", "add", "owner-reset"},
               manageTeam(p, c, op, x, "none") \/ teamRoute(p, c, op, x, "none")
        PROVE  Goal
    <3>1. op \in TeamOps /\ op # "role" /\ "none" \in Roles
      BY DEF TeamOps, Roles
    <3>. QED
      BY <1>10, <2>6, <3>1
  <2>7. ASSUME NEW x \in conf.mail, NEW role \in {"member", "owner"},
               manageTeam(p, c, "role", x, role) \/ teamRoute(p, c, "role", x, role)
        PROVE  Goal
    <3>1. "role" \in TeamOps /\ role \in Roles
      BY DEF TeamOps, Roles
    <3>. QED
      BY <1>10, <2>7, <3>1
  <2>. QED
    BY <1>15, <2>1, <2>2, <2>3, <2>4, <2>5, <2>6, <2>7
<1>16. Goal
  BY <1>11, <1>12, <1>13, <1>14, <1>15 DEF Begin
<1>. QED
  BY <1>16 DEF Goal

\* A session or token is written for an account that is there.
Issues(e, c) ==
  /\ e \in Emails /\ account[e] # None
  /\ c \in ACredential /\ c.n = next /\ c.e = e
  /\ creds' \subseteq creds \cup {c}
  /\ slipped' = (IF c.from < account[e].pw THEN slipped \cup {next} ELSE slipped)
  /\ next' = next + 1
  /\ UNCHANGED <<db, links, done, crossed, adrift>>

\* A link is written, for an account that is there or as an invitation.
WritesLink(l) ==
  /\ l \in ALink
  /\ l.kind # "invite" => Is(l.e, l.id)
  /\ l.kind = "invite" => l.ws \in Workspaces
  /\ links' \subseteq links \cup {l} /\ next' = next + 1
  /\ UNCHANGED <<db, creds, history>>

\* An account is created, with its workspace or in one that is there.
Registers(e, w, role, verified, must) ==
  /\ e \in Emails /\ w \in Workspaces /\ account[e] = None
  /\ role \in {"member", "owner"} /\ verified \in BOOLEAN /\ must \in BOOLEAN
  /\ createAccount(e, w, role, verified, must)
  /\ \/ w \in workspaces /\ workspaces' = workspaces
     \/ w \notin workspaces /\ role = "owner" /\ workspaces' = workspaces \cup {w}
  /\ UNCHANGED <<creds, links, history>>

\* A password is written: the sessions go, but for one that rests on it from now on.
WritesPassword(p, e, verified) ==
  /\ e \in Emails /\ account[e] # None /\ verified \in BOOLEAN /\ setPassword(e, verified)
  /\ creds' \subseteq ACredential
  /\ \A c \in creds' : \/ c \in creds /\ (c.e = e => c.kind # "session")
                       \/ c.e = e /\ c.from = next
  /\ req'[p].op = "finish" /\ req'[p].e = e /\ req'[p].id = account[e].id /\ req'[p].pw = next
  /\ \A q \in Procs \ {p} : req'[q] = req[q]
  /\ UNCHANGED <<member, workspaces, links, history>>

\* What a step may do to the rows when it writes no password.
RowStep ==
  \/ Quiet
  \/ \E e, c : Issues(e, c)
  \/ \E l : WritesLink(l)
  \/ \E e, w, role, verified, must : Registers(e, w, role, verified, must)
  \/ \E c \in creds, w \in Workspaces : switchWorkspace(c, w)
  \/ \E l \in links : completeEmailVerification(l)
  \/ \E p \in Procs : \/ finishPassword(p) \/ changeMemberRole(p) \/ removeWorkspaceMember(p)
                      \/ joinWorkspaceFromInvite(p) \/ eraseWorkspace(p) \/ finishDeletion(p)

Classified ==
  \/ RowStep /\ NoFinish
  \/ \E p \in Procs : \E e, verified : WritesPassword(p, e, verified)

\* The requests stay well formed and the calls are counted.
InFlight ==
  /\ UNCHANGED conf /\ left' \in Nat
  /\ DOMAIN req' = Procs /\ \A q \in Procs : WellFormed(req'[q])

\* A step of a request that does not write a password and leaves another one behind.
LEMMA MovesOn ==
  ASSUME Types, NEW p \in Procs, NEW r, WellFormed(r), Go(p, r), UNCHANGED conf
  PROVE  InFlight /\ (r.op # "finish" => NoFinish)
BY Requests DEF Go, InFlight, Types

\* A request that ends leaves nothing behind.
LEMMA Ends ==
  ASSUME Types, NEW p \in Procs, End(p), UNCHANGED conf
  PROVE  InFlight /\ NoFinish
BY MovesOn, IdleWellFormed DEF End

\* A call that needs no request.
LEMMA OnceKeeps ==
  ASSUME Types, Once, UNCHANGED conf
  PROVE  InFlight /\ NoFinish
BY DEF Types, Once, InFlight, NoFinish

\* An issued link takes the place of others.
LEMMA IssuedLink ==
  ASSUME Types, NEW kind \in LinkKinds, NEW e \in Emails, NEW id \in Nat \cup {None},
         NEW w \in Workspaces \cup {None}, NEW from \in Nat,
         kind # "invite" => Is(e, id), kind = "invite" => w \in Workspaces,
         issueAuthToken(kind, e, id, w, from), UNCHANGED <<db, creds, history>>
  PROVE  \E l : WritesLink(l)
<1> DEFINE l == [n |-> next, kind |-> kind, e |-> e, id |-> id, ws |-> w, from |-> from]
<1>1. l \in ALink
  BY DEF Types, ALink
<1>2. links' \subseteq links \cup {l} /\ next' = next + 1
  BY DEF issueAuthToken
<1>. QED
  BY <1>1, <1>2 DEF WritesLink

\* An account that is there has a number and a password.
LEMMA AccountRows ==
  ASSUME Types, NEW e \in Emails
  PROVE  /\ account[e] # None => account[e] \in AnAccount /\ account[e].id \in Nat /\ account[e].pw \in Nat
                                 /\ Is(e, account[e].id)
         /\ \A id : Is(e, id) => account[e] # None /\ account[e].id = id
BY DEF Types, AnAccount, Is

\* The last step of a sign-in writes a session or token, or nothing.
LEMMA SignInEnds ==
  ASSUME Types, NEW p \in Procs, createCredential(p)
  PROVE  RowStep
<1>1. PICK r : r = req[p]
  OBVIOUS
<1>2. /\ WellFormed(r) /\ r.op \in {"issue", "exchange", "mint"}
      /\ r.e \in Emails /\ r.kind \in CredentialKinds /\ r.from \in Nat
  BY <1>1 DEF Types, createCredential, WellFormed
<1>3. LetIn(r) \subseteq Workspaces
  <2>1. resolveActiveWorkspace(r.e, r.ws) \subseteq Workspaces /\ workspaces \subseteq Workspaces
    BY DEF Types, resolveActiveWorkspace
  <2>. QED
    BY <1>2, <2>1 DEF LetIn
<1>4. UNCHANGED <<db, links, done, crossed, adrift>>
  BY DEF createCredential
<1>5. CASE UNCHANGED <<creds, slipped, next>>
  BY <1>4, <1>5 DEF RowStep, Quiet, history
<1>6. CASE ~UNCHANGED <<creds, slipped, next>>
  <2>1. /\ Is(r.e, r.id)
        /\ \E w \in LetIn(r) : Issue(r.e, r.kind, IF r.kind = "token" THEN None ELSE w, r.from)
    BY <1>1, <1>6 DEF createCredential
  <2>2. PICK w \in Workspaces \cup {None} : Issue(r.e, r.kind, w, r.from)
    BY <1>3, <2>1
  <2>3. PICK c : c = [n |-> next, e |-> r.e, kind |-> r.kind, ws |-> w, from |-> r.from]
    OBVIOUS
  <2>4. c \in ACredential /\ c.n = next /\ c.e = r.e /\ c.from = r.from
    BY <1>2, <2>3 DEF Types, ACredential
  <2>5. /\ creds' = pruneApiTokens(creds \cup {c}, c)
        /\ slipped' = (IF c.from < account[r.e].pw THEN slipped \cup {next} ELSE slipped)
        /\ next' = next + 1
    BY <2>2, <2>3 DEF Issue
  <2>6. pruneApiTokens(creds \cup {c}, c) \subseteq creds \cup {c}
    BY DEF pruneApiTokens
  <2>7. account[r.e] # None
    BY <2>1 DEF Is
  <2>8. Issues(r.e, c)
    BY <1>2, <1>4, <2>4, <2>5, <2>6, <2>7 DEF Issues
  <2>. QED
    BY <2>8 DEF RowStep
<1>. QED
  BY <1>5, <1>6

\* Steps that only drop rows, or none.
LEMMA QuietSteps ==
  ASSUME NEW p \in Procs,
         \/ recordLoginFailure(p) \/ clearProven(p) \/ revokeAllApiTokens(p) \/ revokeInvites(p) \/ Crash(p)
         \/ \E w \in Workspaces : purgeWorkspace(p, w)
  PROVE  Quiet
<1>1. UNCHANGED <<db, history, next>>
  BY DEF recordLoginFailure, clearProven, revokeAllApiTokens, revokeInvites, Crash, purgeWorkspace
<1>2. creds' \subseteq creds
  BY DEF recordLoginFailure, clearProven, revokeAllApiTokens, revokeInvites, Crash, purgeWorkspace
<1>3. links' \subseteq links
  BY DEF recordLoginFailure, clearProven, revokeAllApiTokens, revokeInvites, Crash, purgeWorkspace
<1>. QED
  BY <1>1, <1>2, <1>3 DEF Quiet

\* Where the steps of a request leave it, when they write no password.
LEMMA StepsMoveOn ==
  ASSUME Types, NEW p \in Procs, Step(p), ~completePasswordReset(p), ~changePassword(p)
  PROVE  InFlight /\ NoFinish
<1>1. UNCHANGED conf
  BY DEF Step, recordLoginFailure, clearProven, createCredential, revokeAllApiTokens, finishPassword,
     sendVerificationEmail, changeMemberRole, removeWorkspaceMember, sendInviteEmail, sendPasswordResetEmail,
     revokeInvites, addWorkspaceMember, joinWorkspaceFromInvite, createUserFromInvite, eraseWorkspace,
     finishDeletion, Crash, createHostedWorkspaceWithOwner, purgeWorkspace
<1>2. WellFormed(req[p])
  BY DEF Types
<1>3. ASSUME End(p) PROVE InFlight /\ NoFinish
  BY <1>1, <1>3, Ends
<1>4. ASSUME NEW r, Go(p, r), WellFormed(r), r.op # "finish" PROVE InFlight /\ NoFinish
  BY <1>1, <1>4, MovesOn
<1>5. CASE \/ recordLoginFailure(p) \/ createCredential(p) \/ revokeAllApiTokens(p) \/ finishPassword(p)
           \/ sendVerificationEmail(p) \/ changeMemberRole(p) \/ removeWorkspaceMember(p) \/ sendInviteEmail(p)
           \/ sendPasswordResetEmail(p) \/ revokeInvites(p) \/ addWorkspaceMember(p) \/ joinWorkspaceFromInvite(p)
           \/ finishDeletion(p) \/ Crash(p)
  <2>1. End(p)
    BY <1>5 DEF recordLoginFailure, createCredential, revokeAllApiTokens, finishPassword,
     sendVerificationEmail, changeMemberRole, removeWorkspaceMember, sendInviteEmail, sendPasswordResetEmail,
     revokeInvites, addWorkspaceMember, joinWorkspaceFromInvite, finishDeletion, Crash
  <2>. QED
    BY <1>3, <2>1
<1>6. CASE clearProven(p)
  <2>1. PICK r : r = [op |-> "issue", e |-> req[p].e, id |-> req[p].id, kind |-> req[p].kind,
                      must |-> req[p].must, ws |-> None, from |-> req[p].from]
    OBVIOUS
  <2>2. Go(p, r) /\ req[p].op = "proven"
    BY <1>6, <2>1 DEF clearProven, At
  <2>3. WellFormed(r) /\ r.op # "finish"
    BY <1>2, <2>1, <2>2 DEF WellFormed, TeamOps
  <2>. QED
    BY <1>4, <2>2, <2>3
<1>7. CASE createUserFromInvite(p)
  <2>1. PICK r : r = [op |-> "mint", e |-> req[p].e, id |-> next, kind |-> "session", must |-> FALSE,
                      ws |-> req[p].w, from |-> next]
    OBVIOUS
  <2>2. (Go(p, r) \/ End(p)) /\ req[p].op = "join"
    BY <1>7, <2>1 DEF createUserFromInvite, At
  <2>3. WellFormed(r) /\ r.op # "finish"
    BY <1>2, <2>1, <2>2 DEF WellFormed, TeamOps, CredentialKinds, Types
  <2>. QED
    BY <1>3, <1>4, <2>2, <2>3
<1>8. CASE eraseWorkspace(p)
  <2>1. PICK r : r = [op |-> "purge", e |-> req[p].e, id |-> req[p].id, todo |-> req[p].todo \ {req[p].w},
                      user |-> req[p].user]
    OBVIOUS
  <2>2. (Go(p, r) \/ End(p)) /\ req[p].op = "erase"
    BY <1>8, <2>1 DEF eraseWorkspace, At
  <2>3. WellFormed(r) /\ r.op # "finish"
    BY <1>2, <2>1, <2>2 DEF WellFormed, TeamOps
  <2>. QED
    BY <1>3, <1>4, <2>2, <2>3
<1>9. ASSUME NEW w \in Workspaces, createHostedWorkspaceWithOwner(p, w)
      PROVE  InFlight /\ NoFinish
  <2>1. PICK r : r = IF req[p].google
                     THEN [op |-> "mint", e |-> req[p].e, id |-> next, kind |-> "session", must |-> FALSE,
                           ws |-> w, from |-> next]
                     ELSE [op |-> "mail", e |-> req[p].e, id |-> next]
    OBVIOUS
  <2>2. (Go(p, r) \/ End(p)) /\ req[p].op = "signup"
    BY <1>9, <2>1 DEF createHostedWorkspaceWithOwner, At
  <2>3. req[p].e \in Emails /\ next \in Nat
    BY <1>2, <2>2 DEF WellFormed, Types
  <2>4. CASE req[p].google
    <3>1. WellFormed(r) /\ r.op # "finish"
      BY <2>1, <2>3, <2>4 DEF WellFormed, TeamOps, CredentialKinds
    <3>. QED
      BY <1>3, <1>4, <2>2, <3>1
  <2>5. CASE ~req[p].google
    <3>1. WellFormed(r) /\ r.op # "finish"
      BY <2>1, <2>3, <2>5 DEF WellFormed, TeamOps
    <3>. QED
      BY <1>3, <1>4, <2>2, <3>1
  <2>. QED
    BY <2>4, <2>5
<1>10. ASSUME NEW w \in Workspaces, purgeWorkspace(p, w)
       PROVE  InFlight /\ NoFinish
  <2>1. PICK r : r = [op |-> "erase", e |-> req[p].e, id |-> req[p].id, todo |-> req[p].todo, user |-> req[p].user,
                      w |-> w, list |-> {<<x, account[x].id>> : x \in Members(w)}]
    OBVIOUS
  <2>2. (Go(p, r) \/ End(p)) /\ req[p].op = "purge"
    BY <1>10, <2>1 DEF purgeWorkspace, At
  <2>3. WellFormed(r) /\ r.op # "finish"
    BY <1>2, <2>1, <2>2 DEF WellFormed, TeamOps
  <2>. QED
    BY <1>3, <1>4, <2>2, <2>3
<1>. QED
  BY <1>5, <1>6, <1>7, <1>8, <1>9, <1>10 DEF Step

\* What the steps of a request do to the rows, when they write no password.
LEMMA StepsRows ==
  ASSUME Types, Rows, NEW p \in Procs, Step(p), ~completePasswordReset(p), ~changePassword(p)
  PROVE  RowStep
<1>1. WellFormed(req[p])
  BY DEF Types
<1>2. ASSUME Quiet PROVE RowStep
  BY <1>2 DEF RowStep
<1>3. ASSUME UNCHANGED <<db, creds, links, history, next>> PROVE RowStep
  BY <1>3 DEF RowStep, Quiet
<1>4. CASE \/ recordLoginFailure(p) \/ clearProven(p) \/ revokeAllApiTokens(p) \/ revokeInvites(p) \/ Crash(p)
           \/ \E w \in Workspaces : purgeWorkspace(p, w)
  BY <1>2, <1>4, QuietSteps
<1>5. CASE createCredential(p)
  BY <1>5, SignInEnds
<1>6. CASE \/ finishPassword(p) \/ changeMemberRole(p) \/ removeWorkspaceMember(p)
           \/ joinWorkspaceFromInvite(p) \/ eraseWorkspace(p) \/ finishDeletion(p)
  BY <1>6 DEF RowStep
<1>7. CASE sendVerificationEmail(p)
  <2>1. req[p].e \in Emails /\ UNCHANGED <<db, creds, history>>
    BY <1>1, <1>7 DEF sendVerificationEmail, At, WellFormed
  <2>2. CASE Is(req[p].e, req[p].id)
    <3>1. issueAuthToken("verify", req[p].e, req[p].id, None, 0)
      BY <1>7, <2>2 DEF sendVerificationEmail
    <3>2. req[p].id \in Nat /\ "verify" \in LinkKinds
      BY <2>1, <2>2, AccountRows DEF LinkKinds
    <3>3. \E l : WritesLink(l)
      BY <2>1, <2>2, <3>1, <3>2, IssuedLink
    <3>. QED
      BY <3>3 DEF RowStep
  <2>3. CASE ~Is(req[p].e, req[p].id)
    BY <1>3, <1>7, <2>1, <2>3 DEF sendVerificationEmail
  <2>. QED
    BY <2>2, <2>3
<1>8. CASE sendInviteEmail(p)
  <2>1. req[p].w \in Workspaces /\ req[p].x \in Emails /\ UNCHANGED <<db, creds, history>>
    BY <1>1, <1>8 DEF sendInviteEmail, At, WellFormed, TeamOps
  <2>2. CASE req[p].w \in workspaces
    <3>1. issueAuthToken("invite", req[p].x, None, req[p].w, 0)
      BY <1>8, <2>2 DEF sendInviteEmail
    <3>2. "invite" \in LinkKinds
      BY DEF LinkKinds
    <3>3. \E l : WritesLink(l)
      BY <2>1, <3>1, <3>2, IssuedLink
    <3>. QED
      BY <3>3 DEF RowStep
  <2>3. CASE req[p].w \notin workspaces
    BY <1>3, <1>8, <2>1, <2>3 DEF sendInviteEmail
  <2>. QED
    BY <2>2, <2>3
<1>9. CASE sendPasswordResetEmail(p)
  <2>1. req[p].w \in Workspaces /\ req[p].x \in Emails /\ UNCHANGED <<db, creds, history>>
    BY <1>1, <1>9 DEF sendPasswordResetEmail, At, WellFormed, TeamOps
  <2>2. CASE req[p].w \in workspaces /\ member[req[p].x][req[p].w] # "none"
    <3>1. issueAuthToken("reset", req[p].x, account[req[p].x].id, None, 0)
      BY <1>9, <2>2 DEF sendPasswordResetEmail
    <3>2. account[req[p].x] # None
      BY <2>1, <2>2 DEF Rows, MembersExist
    <3>3. account[req[p].x].id \in Nat /\ Is(req[p].x, account[req[p].x].id) /\ "reset" \in LinkKinds
      BY <2>1, <3>2, AccountRows DEF LinkKinds
    <3>4. \E l : WritesLink(l)
      BY <2>1, <3>1, <3>3, IssuedLink
    <3>. QED
      BY <3>4 DEF RowStep
  <2>3. CASE ~(req[p].w \in workspaces /\ member[req[p].x][req[p].w] # "none")
    BY <1>3, <1>9, <2>1, <2>3 DEF sendPasswordResetEmail
  <2>. QED
    BY <2>2, <2>3
<1>10. CASE addWorkspaceMember(p)
  <2>1. req[p].w \in Workspaces /\ req[p].x \in Emails /\ UNCHANGED <<workspaces, creds, links, history>>
    BY <1>1, <1>10 DEF addWorkspaceMember, At, WellFormed, TeamOps
  <2>2. CASE account[req[p].x] = None /\ req[p].w \in workspaces
    <3>1. createAccount(req[p].x, req[p].w, "member", TRUE, TRUE)
      BY <1>10, <2>2 DEF addWorkspaceMember
    <3>2. Registers(req[p].x, req[p].w, "member", TRUE, TRUE)
      BY <2>1, <2>2, <3>1 DEF Registers
    <3>. QED
      BY <3>2 DEF RowStep
  <2>3. CASE ~(account[req[p].x] = None /\ req[p].w \in workspaces)
    BY <1>3, <1>10, <2>1, <2>3 DEF addWorkspaceMember, db
  <2>. QED
    BY <2>2, <2>3
<1>11. CASE createUserFromInvite(p)
  <2>1. req[p].w \in Workspaces /\ req[p].e \in Emails /\ UNCHANGED <<workspaces, creds, links, history>>
    BY <1>1, <1>11 DEF createUserFromInvite, At, WellFormed
  <2>2. CASE account[req[p].e] = None /\ req[p].w \in workspaces
    <3>1. createAccount(req[p].e, req[p].w, "member", TRUE, FALSE)
      BY <1>11, <2>2 DEF createUserFromInvite
    <3>2. Registers(req[p].e, req[p].w, "member", TRUE, FALSE)
      BY <2>1, <2>2, <3>1 DEF Registers
    <3>. QED
      BY <3>2 DEF RowStep
  <2>3. CASE ~(account[req[p].e] = None /\ req[p].w \in workspaces)
    BY <1>3, <1>11, <2>1, <2>3 DEF createUserFromInvite, db
  <2>. QED
    BY <2>2, <2>3
<1>12. ASSUME NEW w \in Workspaces, createHostedWorkspaceWithOwner(p, w)
       PROVE  RowStep
  <2>1. req[p].e \in Emails /\ UNCHANGED <<creds, history>>
    BY <1>1, <1>12 DEF createHostedWorkspaceWithOwner, At, WellFormed
  <2>2. CASE UNCHANGED <<db, links, next>>
    BY <1>3, <2>1, <2>2
  <2>3. CASE ~UNCHANGED <<db, links, next>>
    <3>1. /\ account[req[p].e] = None /\ w \notin workspaces
          /\ createAccount(req[p].e, w, "owner", req[p].google, FALSE)
          /\ workspaces' = workspaces \cup {w} /\ UNCHANGED links
      BY <1>12, <2>3 DEF createHostedWorkspaceWithOwner
    <3>2. req[p].google \in BOOLEAN
      BY <1>1, <1>12 DEF createHostedWorkspaceWithOwner, At, WellFormed
    <3>3. Registers(req[p].e, w, "owner", req[p].google, FALSE)
      BY <2>1, <3>1, <3>2 DEF Registers
    <3>. QED
      BY <3>3 DEF RowStep
  <2>. QED
    BY <2>2, <2>3
<1>. QED
  BY <1>4, <1>5, <1>6, <1>7, <1>8, <1>9, <1>10, <1>11, <1>12 DEF Step

\* A reset or change that finds its account writes the password; any other ends.
LEMMA PasswordSteps ==
  ASSUME Types, NEW p \in Procs, completePasswordReset(p) \/ changePassword(p)
  PROVE  InFlight /\ Classified
<1>0. WellFormed(req[p]) /\ req[p].op \in {"reset", "change"} /\ UNCHANGED conf
  BY DEF Types, completePasswordReset, changePassword, At
<1>1. req[p].e \in Emails
  BY <1>0 DEF WellFormed
<1>2. CASE ~Is(req[p].e, req[p].id)
  <2>1. End(p) /\ UNCHANGED <<account, creds, next, member, workspaces, links, history>>
    BY <1>2 DEF completePasswordReset, changePassword
  <2>2. InFlight /\ NoFinish
    BY <1>0, <2>1, Ends
  <2>3. RowStep
    BY <2>1 DEF RowStep, Quiet, db
  <2>. QED
    BY <2>2, <2>3 DEF Classified
<1>3. CASE Is(req[p].e, req[p].id)
  <2>0. account[req[p].e] # None /\ account[req[p].e].id = req[p].id /\ account[req[p].e] \in AnAccount
    BY <1>1, <1>3, AccountRows
  <2>1. PICK key \in {<<"email", req[p].e>>, <<"pwchange", req[p].e>>} :
          Go(p, [op |-> "finish", e |-> req[p].e, id |-> req[p].id, pw |-> next, key |-> key])
    BY <1>3 DEF completePasswordReset, changePassword
  <2>2. PICK r : r = [op |-> "finish", e |-> req[p].e, id |-> req[p].id, pw |-> next, key |-> key]
    OBVIOUS
  <2>3. WellFormed(r)
    BY <1>1, <2>0, <2>1, <2>2 DEF WellFormed, TeamOps, Types, AnAccount
  <2>4. InFlight
    BY <1>0, <2>1, <2>2, <2>3, MovesOn
  <2>5. req'[p] = r /\ \A q \in Procs \ {p} : req'[q] = req[q]
    BY <2>1, <2>2, <2>3, Requests DEF Go
  <2>6. PICK verified \in BOOLEAN : setPassword(req[p].e, verified)
    BY <1>3, <2>0 DEF completePasswordReset, changePassword, AnAccount
  <2>7. /\ creds' \subseteq ACredential
        /\ \A c \in creds' : \/ c \in creds /\ (c.e = req[p].e => c.kind # "session")
                             \/ c.e = req[p].e /\ c.from = next
    <3>1. CASE completePasswordReset(p)
      BY <1>3, <3>1 DEF completePasswordReset, Sessions, Types
    <3>2. CASE changePassword(p)
      <4>1. KeepOnly(req[p].e, req[p].keep)
        BY <1>3, <3>2 DEF changePassword
      <4>2. ASSUME NEW d \in Sessions(req[p].e)
            PROVE  [d EXCEPT !.from = next] \in ACredential /\ [d EXCEPT !.from = next].e = req[p].e
                     /\ [d EXCEPT !.from = next].from = next
        BY DEF Types, ACredential, Sessions
      <4>. QED
        BY <4>1, <4>2 DEF KeepOnly, Sessions, Types
    <3>. QED
      BY <3>1, <3>2
  <2>8. UNCHANGED <<member, workspaces, links, history>>
    BY DEF completePasswordReset, changePassword
  <2>9. WritesPassword(p, req[p].e, verified)
    BY <1>1, <2>0, <2>2, <2>5, <2>6, <2>7, <2>8 DEF WritesPassword
  <2>. QED
    BY <2>4, <2>9 DEF Classified
<1>. QED
  BY <1>2, <1>3

\* Calls that keep no request in flight.
LEMMA OtherCalls ==
  ASSUME Types, Rows,
         \/ \E e \in conf.mail : \/ requestPasswordReset(e) \/ resendVerification(e)
                                 \/ \E w \in Workspaces : createGoogleExtensionCode(e, w)
         \/ \E l \in links : completeEmailVerification(l)
         \/ \E c \in creds : \/ logout(c) \/ logoutRoute(c) \/ createDesktopConnectCode(c)
                             \/ \E w \in Workspaces : switchWorkspace(c, w)
         \/ \E k \in Keys : DelayElapses(k)
  PROVE  InFlight /\ Classified
<1>0. conf.mail \subseteq Emails
  BY ScenesAssumption DEF Types
<1>1. ASSUME Once, UNCHANGED conf, RowStep PROVE InFlight /\ Classified
  BY <1>1, OnceKeeps DEF Classified
<1>2. ASSUME NEW l, WritesLink(l) PROVE RowStep
  BY <1>2 DEF RowStep
<1>3. ASSUME NEW e \in conf.mail, requestPasswordReset(e)
      PROVE  InFlight /\ Classified
  <2>1. e \in Emails /\ Once /\ UNCHANGED <<conf, db, creds, history>>
    BY <1>0, <1>3 DEF requestPasswordReset
  <2>2. CASE account[e] # None
    <3>1. issueAuthToken("reset", e, account[e].id, None, 0) /\ "reset" \in LinkKinds
      BY <1>3, <2>2 DEF requestPasswordReset, LinkKinds
    <3>2. \E l : WritesLink(l)
      BY <2>1, <2>2, <3>1, AccountRows, IssuedLink
    <3>. QED
      BY <1>1, <1>2, <2>1, <3>2
  <2>3. CASE account[e] = None
    <3>1. RowStep
      BY <1>3, <2>1, <2>3 DEF requestPasswordReset, RowStep, Quiet
    <3>. QED
      BY <1>1, <2>1, <3>1
  <2>. QED
    BY <2>2, <2>3
<1>4. ASSUME NEW e \in conf.mail, resendVerification(e)
      PROVE  InFlight /\ Classified
  <2>1. e \in Emails /\ Once /\ UNCHANGED <<conf, db, creds, history>> /\ account[e] # None
    BY <1>0, <1>4 DEF resendVerification
  <2>2. issueAuthToken("verify", e, account[e].id, None, 0) /\ "verify" \in LinkKinds
    BY <1>4 DEF resendVerification, LinkKinds
  <2>3. \E l : WritesLink(l)
    BY <2>1, <2>2, AccountRows, IssuedLink
  <2>. QED
    BY <1>1, <1>2, <2>1, <2>3
<1>5. ASSUME NEW e \in conf.mail, NEW w \in Workspaces, createGoogleExtensionCode(e, w)
      PROVE  InFlight /\ Classified
  <2>1. e \in Emails /\ Once /\ UNCHANGED <<conf, db, creds, history>> /\ account[e] # None
    BY <1>0, <1>5 DEF createGoogleExtensionCode, googleLinkable
  <2>2. PICK l : l = [n |-> next, kind |-> "google", e |-> e, id |-> account[e].id, ws |-> w, from |-> account[e].pw]
    OBVIOUS
  <2>3. l \in ALink /\ l.kind = "google" /\ Is(l.e, l.id)
    BY <2>1, <2>2, AccountRows DEF ALink, LinkKinds, Types
  <2>4. links' = links \cup {l} /\ next' = next + 1
    BY <1>5, <2>2 DEF createGoogleExtensionCode
  <2>5. WritesLink(l)
    BY <2>1, <2>3, <2>4 DEF WritesLink
  <2>. QED
    BY <1>1, <1>2, <2>1, <2>5
<1>6. ASSUME NEW c \in creds, createDesktopConnectCode(c)
      PROVE  InFlight /\ Classified
  <2>1. Once /\ UNCHANGED <<conf, db, creds, history>> /\ c.e \in Emails /\ c.from \in Nat /\ account[c.e] # None
    BY <1>6, SessionsAct DEF createDesktopConnectCode, Rows, HoldersExist
  <2>2. PICK w \in Workspaces : issueAuthToken("code", c.e, account[c.e].id, w, c.from)
    BY <1>6, SessionsAct DEF createDesktopConnectCode
  <2>3. "code" \in LinkKinds
    BY DEF LinkKinds
  <2>4. \E l : WritesLink(l)
    BY <2>1, <2>2, <2>3, AccountRows, IssuedLink
  <2>. QED
    BY <1>1, <1>2, <2>1, <2>4
<1>7. ASSUME NEW l \in links, completeEmailVerification(l)
      PROVE  InFlight /\ Classified
  <2>1. Once /\ UNCHANGED conf /\ RowStep
    BY <1>7 DEF completeEmailVerification, RowStep
  <2>. QED
    BY <1>1, <2>1
<1>8. ASSUME NEW c \in creds, logout(c) \/ logoutRoute(c)
      PROVE  InFlight /\ Classified
  <2>1. Once /\ UNCHANGED conf /\ RowStep
    BY <1>8 DEF logout, logoutRoute, DropCredential, RowStep, Quiet
  <2>. QED
    BY <1>1, <2>1
<1>9. ASSUME NEW c \in creds, NEW w \in Workspaces, switchWorkspace(c, w)
      PROVE  InFlight /\ Classified
  <2>1. Once /\ UNCHANGED conf /\ RowStep
    BY <1>9 DEF switchWorkspace, RowStep
  <2>. QED
    BY <1>1, <2>1
<1>10. ASSUME NEW k \in Keys, DelayElapses(k)
       PROVE  InFlight /\ Classified
  <2>1. InFlight /\ NoFinish
    BY <1>10 DEF DelayElapses, InFlight, NoFinish, Types
  <2>2. RowStep
    BY <1>10 DEF DelayElapses, RowStep, Quiet
  <2>. QED
    BY <2>1, <2>2 DEF Classified
<1>. QED
  BY <1>3, <1>4, <1>5, <1>6, <1>7, <1>8, <1>9, <1>10

\* Every step is one of these.
LEMMA Steps ==
  ASSUME Types, Rows, [Next]_vars
  PROVE  InFlight /\ Classified
<1>1. CASE UNCHANGED vars
  <2>1. InFlight /\ NoFinish
    BY <1>1 DEF vars, InFlight, NoFinish, Types
  <2>2. RowStep
    BY <1>1 DEF vars, RowStep, Quiet, db, history
  <2>. QED
    BY <2>1, <2>2 DEF Classified
<1>2. ASSUME NEW p \in Procs, Begin(p)
      PROVE  InFlight /\ Classified
  <2>1. ASSUME NEW r, Starts(p, r)
        PROVE  InFlight /\ Classified
    <3>1. req' = [req EXCEPT ![p] = r] /\ left' \in Nat /\ UNCHANGED conf
      BY <2>1 DEF Starts, Start, Types
    <3>2. InFlight /\ NoFinish
      BY <2>1, <3>1, Requests DEF Starts, InFlight
    <3>3. RowStep
      BY <2>1 DEF Starts, RowStep
    <3>. QED
      BY <3>2, <3>3 DEF Classified
  <2>2. ASSUME NEW k, CountsAtOnce(k), Quiet
        PROVE  InFlight /\ Classified
    BY <2>2, OnceKeeps DEF CountsAtOnce, Classified, RowStep
  <2>. QED
    BY <1>2, <2>1, <2>2, Beginnings
<1>3. ASSUME NEW p \in Procs, Step(p)
      PROVE  InFlight /\ Classified
  BY <1>3, StepsMoveOn, StepsRows, PasswordSteps DEF Classified
<1>4. CASE \/ \E e \in conf.mail : \/ requestPasswordReset(e) \/ resendVerification(e)
                                   \/ \E w \in Workspaces : createGoogleExtensionCode(e, w)
           \/ \E l \in links : completeEmailVerification(l)
           \/ \E c \in creds : \/ logout(c) \/ logoutRoute(c) \/ createDesktopConnectCode(c)
                               \/ \E w \in Workspaces : switchWorkspace(c, w)
           \/ \E k \in Keys : DelayElapses(k)
  BY <1>4, OtherCalls
<1>. QED
  BY <1>1, <1>2, <1>3, <1>4 DEF Next

----------------------------------------------------------------------------
(* Types *)

\* The larger of two numbers.
LEMMA LargerOfTwo ==
  ASSUME NEW a \in Nat, NEW b \in Nat
  PROVE  Max({a, b}) \in {a, b} /\ Max({a, b}) >= a /\ Max({a, b}) >= b
<1>1. \E x \in {a, b} : \A y \in {a, b} : x >= y
  OBVIOUS
<1>. QED
  BY <1>1 DEF Max

\* The types of what the database keeps.
TypedRows ==
  /\ account \in [Emails -> AnAccount \cup {None}]
  /\ member \in [Emails -> [Workspaces -> Roles]] /\ workspaces \subseteq Workspaces
  /\ creds \subseteq ACredential /\ links \subseteq ALink
  /\ \A l \in links : l.kind = "invite" => l.ws \in Workspaces
  /\ done \in [Emails -> Nat] /\ next \in Nat

\* A write of one account's row.
LEMMA AccountTyped ==
  ASSUME account \in [Emails -> AnAccount \cup {None}], NEW e, NEW r \in AnAccount \cup {None},
         account' = [account EXCEPT ![e] = r]
  PROVE  account' \in [Emails -> AnAccount \cup {None}]
OBVIOUS

\* The fields of a row that are not written stay.
LEMMA RowFields ==
  ASSUME NEW r \in AnAccount
  PROVE  /\ [r EXCEPT !.verified = TRUE] \in AnAccount
         /\ [r EXCEPT !.verified = TRUE].pw = r.pw /\ [r EXCEPT !.verified = TRUE].id = r.id
         /\ \A n \in Nat, v \in BOOLEAN :
              /\ [r EXCEPT !.pw = n, !.must = FALSE, !.verified = v] \in AnAccount
              /\ [r EXCEPT !.pw = n, !.must = FALSE, !.verified = v].pw = n
              /\ [r EXCEPT !.pw = n, !.must = FALSE, !.verified = v].id = r.id
BY DEF AnAccount

\* A row is never None.
LEMMA RowsAreSome ==
  ASSUME NEW r \in AnAccount
  PROVE  r # None
BY NoneAssumption

\* What a cascade leaves has its types.
LEMMA CascadeTyped ==
  ASSUME TypedRows, NEW gone, Cascade(gone)
  PROVE  /\ account' \in [Emails -> AnAccount \cup {None}]
         /\ links' \subseteq links /\ done' \in [Emails -> Nat]
BY DEF TypedRows, Cascade

\* A new account, and a membership written.
LEMMA CreatedTyped ==
  ASSUME TypedRows, NEW e \in Emails, NEW w \in Workspaces, NEW role \in Roles, NEW verified \in BOOLEAN,
         NEW must \in BOOLEAN, createAccount(e, w, role, verified, must)
  PROVE  /\ NewAccount(verified, must) \in AnAccount
         /\ account' \in [Emails -> AnAccount \cup {None}] /\ account'[e] = NewAccount(verified, must)
         /\ \A x \in Emails \ {e} : account'[x] = account[x]
         /\ member' \in [Emails -> [Workspaces -> Roles]] /\ member'[e][w] = role
         /\ \A x \in Emails, v \in Workspaces : (x # e \/ v # w) => member'[x][v] = member[x][v]
         /\ next' = next + 1 /\ next' \in Nat
<1>1. NewAccount(verified, must) \in AnAccount
  BY DEF NewAccount, AnAccount, TypedRows
<1>2. member' = [member EXCEPT ![e][w] = role] /\ member \in [Emails -> [Workspaces -> Roles]]
  BY DEF createAccount, TypedRows
<1>3. account' = [account EXCEPT ![e] = NewAccount(verified, must)] /\ account \in [Emails -> AnAccount \cup {None}]
  BY DEF createAccount, TypedRows
<1>4. next' = next + 1 /\ next' \in Nat
  BY DEF createAccount, TypedRows
<1>. QED
  BY <1>1, <1>2, <1>3, <1>4

\* A password written: a fresh number in its row, and no other row changes.
LEMMA PasswordWritten ==
  ASSUME TypedRows, NEW e \in Emails, NEW verified \in BOOLEAN, account[e] \in AnAccount, setPassword(e, verified)
  PROVE  /\ account' \in [Emails -> AnAccount \cup {None}]
         /\ account'[e] \in AnAccount /\ account'[e].pw = next /\ account'[e].id = account[e].id
         /\ \A x \in Emails \ {e} : account'[x] = account[x]
         /\ next' = next + 1 /\ next' \in Nat
<1>1. account \in [Emails -> AnAccount \cup {None}] /\ next \in Nat
  BY DEF TypedRows
<1>2. account' = [account EXCEPT ![e].pw = next, ![e].must = FALSE, ![e].verified = verified] /\ next' = next + 1
  BY DEF setPassword
<1>3. account'[e] = [account[e] EXCEPT !.pw = next, !.must = FALSE, !.verified = verified]
  BY <1>1, <1>2
<1>4. \A x \in Emails \ {e} : account'[x] = account[x]
  BY <1>1, <1>2
<1>5. account'[e] \in AnAccount /\ account'[e].pw = next /\ account'[e].id = account[e].id
  BY <1>1, <1>3 DEF AnAccount
<1>6. account' \in [Emails -> AnAccount \cup {None}]
  <2>1. account' = [x \in Emails |-> account'[x]]
    BY <1>1, <1>2
  <2>2. \A x \in Emails : account'[x] \in AnAccount \cup {None}
    BY <1>1, <1>4, <1>5
  <2>. QED
    BY <2>1, <2>2
<1>. QED
  BY <1>1, <1>2, <1>4, <1>5, <1>6

\* Every step keeps the types of the rows.
LEMMA RowTypes ==
  ASSUME Types, Rows, Classified
  PROVE  TypedRows'
<1>0. TypedRows
  BY DEF Types, TypedRows
<1>a. DOMAIN req = Procs /\ \A p \in Procs : WellFormed(req[p])
  BY DEF Types
<1>1. CASE Quiet
  BY <1>0, <1>1 DEF Quiet, db, history, TypedRows
<1>2. ASSUME NEW e, NEW c, Issues(e, c)
      PROVE  TypedRows'
  BY <1>0, <1>2 DEF Issues, db, TypedRows
<1>3. ASSUME NEW l, WritesLink(l)
      PROVE  TypedRows'
  BY <1>0, <1>3 DEF WritesLink, db, history, TypedRows
<1>4. ASSUME NEW e, NEW w, NEW role, NEW verified, NEW must, Registers(e, w, role, verified, must)
      PROVE  TypedRows'
  <2>1. e \in Emails /\ w \in Workspaces /\ role \in Roles /\ verified \in BOOLEAN /\ must \in BOOLEAN
    BY <1>4 DEF Registers, Roles
  <2>2. createAccount(e, w, role, verified, must) /\ UNCHANGED <<creds, links, history>> /\ workspaces' \subseteq workspaces \cup {w}
    BY <1>4 DEF Registers
  <2>3. /\ account' \in [Emails -> AnAccount \cup {None}] /\ member' \in [Emails -> [Workspaces -> Roles]]
        /\ next' \in Nat
    BY <1>0, <2>1, <2>2, CreatedTyped
  <2>. QED
    BY <1>0, <2>1, <2>2, <2>3 DEF TypedRows, history
<1>5. ASSUME NEW c \in creds, NEW w \in Workspaces, switchWorkspace(c, w)
      PROVE  TypedRows'
  <2>1. c \in ACredential /\ [c EXCEPT !.ws = w] \in ACredential
    BY <1>0 DEF TypedRows, ACredential
  <2>. QED
    BY <1>0, <1>5, <2>1 DEF switchWorkspace, db, history, TypedRows
<1>6. ASSUME NEW l \in links, completeEmailVerification(l)
      PROVE  TypedRows'
  <2>1. l.e \in Emails /\ l.kind # "invite"
    BY <1>0, <1>6 DEF TypedRows, ALink, completeEmailVerification
  <2>2. account[l.e] \in AnAccount
    BY <1>0, <2>1 DEF Rows, LinksExist, Is, TypedRows
  <2>3. account' = [account EXCEPT ![l.e] = [account[l.e] EXCEPT !.verified = TRUE]]
    BY <1>6 DEF completeEmailVerification
  <2>4. account' \in [Emails -> AnAccount \cup {None}]
    BY <1>0, <2>2, <2>3, RowFields, AccountTyped DEF TypedRows
  <2>5. links' \subseteq links /\ UNCHANGED <<member, workspaces, creds, history, next>>
    BY <1>6 DEF completeEmailVerification, consumeAuthToken
  <2>. QED
    BY <1>0, <2>4, <2>5 DEF TypedRows, history
<1>7. ASSUME NEW p \in Procs, finishPassword(p)
      PROVE  TypedRows'
  <2>1. req[p].pw \in Nat /\ req[p].e \in Emails
    BY <1>a, <1>7 DEF finishPassword, At, WellFormed
  <2>2. Max({done[req[p].e], req[p].pw}) \in Nat
    <3>1. done[req[p].e] \in Nat
      BY <1>0, <2>1 DEF TypedRows
    <3>2. Max({done[req[p].e], req[p].pw}) \in {done[req[p].e], req[p].pw}
      BY <2>1, <3>1, LargerOfTwo
    <3>. QED
      BY <2>1, <3>1, <3>2
  <2>3. creds' \subseteq creds /\ UNCHANGED <<db, links, next>>
    BY <1>7 DEF finishPassword
  <2>4. done' \in [Emails -> Nat]
    BY <1>0, <1>7, <2>1, <2>2 DEF finishPassword, TypedRows
  <2>. QED
    BY <1>0, <2>3, <2>4 DEF TypedRows, db
<1>8. ASSUME NEW p \in Procs, changeMemberRole(p)
      PROVE  TypedRows'
  <2>1. req[p].role \in Roles /\ UNCHANGED <<account, workspaces, creds, links, history, next>>
    BY <1>a, <1>8 DEF changeMemberRole, At, WellFormed, Roles
  <2>2. member' \in [Emails -> [Workspaces -> Roles]]
    BY <1>0, <1>8, <2>1 DEF changeMemberRole, TypedRows
  <2>. QED
    BY <1>0, <2>1, <2>2 DEF TypedRows, history
<1>9. ASSUME NEW p \in Procs, joinWorkspaceFromInvite(p)
      PROVE  TypedRows'
  <2>1. UNCHANGED <<account, workspaces, creds, links, done, next>> /\ "member" \in Roles
    BY <1>9 DEF joinWorkspaceFromInvite, Roles
  <2>2. member' \in [Emails -> [Workspaces -> Roles]]
    BY <1>0, <1>9, <2>1 DEF joinWorkspaceFromInvite, TypedRows
  <2>. QED
    BY <1>0, <2>1, <2>2 DEF TypedRows
<1>10. ASSUME NEW p \in Procs, removeWorkspaceMember(p)
       PROVE  TypedRows'
  <2>0. UNCHANGED <<workspaces, next>>
    BY <1>10 DEF removeWorkspaceMember
  <2>1. CASE UNCHANGED <<account, member, creds, links, done, adrift>>
    BY <1>0, <2>0, <2>1 DEF TypedRows
  <2>2. CASE ~UNCHANGED <<account, member, creds, links, done, adrift>>
    <3>1. PICK gone : /\ Cascade(gone)
                      /\ member' = [member EXCEPT ![req[p].x][req[p].w] = "none"]
                      /\ creds' = {IF c.e = req[p].x /\ c.kind = "session" /\ c.ws = req[p].w THEN [c EXCEPT !.ws = None] ELSE c :
                                   c \in {d \in creds : d.e \notin gone}}
      BY <1>10, <2>2 DEF removeWorkspaceMember
    <3>2. member' \in [Emails -> [Workspaces -> Roles]]
      BY <1>0, <3>1 DEF TypedRows, Roles
    <3>3. \A c \in creds : c \in ACredential /\ [c EXCEPT !.ws = None] \in ACredential
      BY <1>0 DEF TypedRows, ACredential
    <3>4. creds' \subseteq ACredential
      BY <3>1, <3>3
    <3>. QED
      BY <1>0, <2>0, <3>1, <3>2, <3>4, CascadeTyped DEF TypedRows
  <2>. QED
    BY <2>1, <2>2
<1>11. ASSUME NEW p \in Procs, eraseWorkspace(p)
       PROVE  TypedRows'
  <2>0. UNCHANGED next
    BY <1>11 DEF eraseWorkspace
  <2>1. CASE UNCHANGED <<db, links, done, adrift, creds, crossed>>
    BY <1>0, <2>0, <2>1 DEF TypedRows, db
  <2>2. CASE ~UNCHANGED <<db, links, done, adrift, creds, crossed>>
    <3>1. PICK gone : /\ account' = [x \in Emails |-> IF x \in gone THEN None ELSE account[x]]
                      /\ done' = [x \in Emails |-> IF x \in gone THEN 0 ELSE done[x]]
      BY <1>11, <2>2 DEF eraseWorkspace
    <3>2. /\ member' = [x \in Emails |-> [member[x] EXCEPT ![req[p].w] = "none"]]
          /\ workspaces' \subseteq workspaces /\ links' \subseteq links /\ creds' \subseteq creds
      BY <1>11, <2>2 DEF eraseWorkspace
    <3>3. member' \in [Emails -> [Workspaces -> Roles]]
      BY <1>0, <3>2 DEF TypedRows, Roles
    <3>. QED
      BY <1>0, <2>0, <3>1, <3>2, <3>3 DEF TypedRows
  <2>. QED
    BY <2>1, <2>2
<1>12. ASSUME NEW p \in Procs, finishDeletion(p)
       PROVE  TypedRows'
  <2>0. UNCHANGED <<workspaces, next>>
    BY <1>12 DEF finishDeletion
  <2>1. CASE UNCHANGED <<account, member, creds, links, done, adrift, crossed>>
    BY <1>0, <2>0, <2>1 DEF TypedRows
  <2>2. CASE ~UNCHANGED <<account, member, creds, links, done, adrift, crossed>>
    <3>1. /\ Cascade({req[p].e}) /\ creds' \subseteq creds
          /\ member' = [member EXCEPT ![req[p].e] = [w \in Workspaces |-> "none"]]
      BY <1>12, <2>2 DEF finishDeletion
    <3>2. member' \in [Emails -> [Workspaces -> Roles]]
      BY <1>0, <3>1 DEF TypedRows, Roles
    <3>. QED
      BY <1>0, <2>0, <3>1, <3>2, CascadeTyped DEF TypedRows
  <2>. QED
    BY <2>1, <2>2
<1>13. ASSUME NEW p \in Procs, NEW e, NEW verified, WritesPassword(p, e, verified)
       PROVE  TypedRows'
  <2>1. e \in Emails /\ verified \in BOOLEAN /\ setPassword(e, verified) /\ account[e] \in AnAccount
    BY <1>0, <1>13 DEF WritesPassword, TypedRows
  <2>3. account' \in [Emails -> AnAccount \cup {None}] /\ next' \in Nat
    BY <1>0, <2>1, PasswordWritten
  <2>4. creds' \subseteq ACredential /\ UNCHANGED <<member, workspaces, links, history>>
    BY <1>13 DEF WritesPassword
  <2>. QED
    BY <1>0, <2>3, <2>4 DEF TypedRows, history
<1>. QED
  BY <1>1, <1>2, <1>3, <1>4, <1>5, <1>6, <1>7, <1>8, <1>9, <1>10, <1>11, <1>12, <1>13 DEF Classified, RowStep

----------------------------------------------------------------------------
(* Owners, accounts and what refers to them *)

\* Somebody who is not the last owner leaves another one.
LEMMA OtherOwner ==
  ASSUME NEW w, NEW x \in Emails, ~lastOwner(w, x), Owners(w) # {}
  PROVE  \E y \in Emails \ {x} : member[y][w] = "owner"
<1>1. CASE member[x][w] # "owner"
  BY <1>1 DEF Owners
<1>2. CASE member[x][w] = "owner"
  <2>1. SUFFICES ASSUME ~\E y \in Emails \ {x} : member[y][w] = "owner"
                 PROVE  FALSE
    OBVIOUS
  <2>2. Owners(w) = {x}
    BY <1>2, <2>1 DEF Owners
  <2>3. Cardinality(Owners(w)) = 1
    BY <2>2, FS_Singleton
  <2>. QED
    BY <1>2, <2>3 DEF lastOwner
<1>. QED
  BY <1>1, <1>2

\* Steps that leave accounts, memberships and workspaces alone.
LEMMA RowsWithoutMoves ==
  ASSUME Rows, UNCHANGED <<db, crossed, adrift>>,
         \A c \in creds' : (\E d \in creds : d.e = c.e) \/ account[c.e] # None,
         \A l \in links' : l \in links \/ l.kind = "invite" \/ Is(l.e, l.id)
  PROVE  Rows'
<1>1. Owned'
  BY DEF Rows, Owned, Owners, db
<1>2. Housed'
  BY DEF Rows, Housed, Belongs, db
<1>3. MembersExist'
  BY DEF Rows, MembersExist, db
<1>4. HoldersExist'
  BY DEF Rows, HoldersExist, db
<1>5. LinksExist'
  BY DEF Rows, LinksExist, Is, db
<1>. QED
  BY <1>1, <1>2, <1>3, <1>4, <1>5 DEF Rows

\* A row written for an account that is there leaves it there, with its number.
LEMMA RowsWithRowWritten ==
  ASSUME Rows, NEW e \in Emails, account[e] # None, account'[e] # None, account'[e].id = account[e].id,
         \A x \in Emails \ {e} : account'[x] = account[x],
         UNCHANGED <<member, workspaces, crossed, adrift>>, creds \subseteq ACredential, links \subseteq ALink,
         links' \subseteq links, creds' \subseteq ACredential, \A c \in creds' : (\E d \in creds : d.e = c.e) \/ c.e = e
  PROVE  Rows'
<1>1. Owned'
  BY DEF Rows, Owned, Owners
<1>2. Housed'
  BY DEF Rows, Housed, Belongs
<1>3. MembersExist'
  BY DEF Rows, MembersExist
<1>4. HoldersExist'
  BY DEF Rows, HoldersExist, ACredential
<1>5. LinksExist'
  BY DEF Rows, LinksExist, Is, ALink
<1>. QED
  BY <1>1, <1>2, <1>3, <1>4, <1>5 DEF Rows

\* A new account owns its new workspace or joins one.
LEMMA RowsRegistered ==
  ASSUME Types, Rows, NEW e, NEW w, NEW role, NEW verified, NEW must, Registers(e, w, role, verified, must)
  PROVE  Rows'
<1>0. TypedRows
  BY DEF Types, TypedRows
<1>1. /\ e \in Emails /\ w \in Workspaces /\ role \in Roles /\ role # "none" /\ account[e] = None
      /\ UNCHANGED <<creds, links, crossed, adrift>>
      /\ \/ w \in workspaces /\ workspaces' = workspaces
         \/ w \notin workspaces /\ role = "owner" /\ workspaces' = workspaces \cup {w}
  BY DEF Registers, Roles, history
<1>2. /\ NewAccount(verified, must) \in AnAccount /\ account'[e] = NewAccount(verified, must)
      /\ \A x \in Emails \ {e} : account'[x] = account[x]
      /\ member'[e][w] = role
      /\ \A x \in Emails, v \in Workspaces : (x # e \/ v # w) => member'[x][v] = member[x][v]
  BY <1>0, <1>1, CreatedTyped DEF Registers
<1>3. account'[e] # None
  BY <1>2, RowsAreSome
<1>4. \A v \in Workspaces : member[e][v] = "none"
  BY <1>1 DEF Rows, MembersExist
<1>5. \A x \in Emails, v \in Workspaces : member[x][v] # "none" => member'[x][v] = member[x][v]
  BY <1>1, <1>2, <1>4
<1>6. workspaces \subseteq Workspaces /\ workspaces \subseteq workspaces' /\ w \in workspaces'
  BY <1>1 DEF Types
<1>7. Owned'
  <2>1. SUFFICES ASSUME NEW v \in workspaces', v \notin crossed'
                 PROVE  \E x \in Emails : member'[x][v] = "owner"
    BY DEF Owned, Owners
  <2>2. CASE v \in workspaces
    <3>1. PICK x \in Emails : member[x][v] = "owner"
      BY <1>1, <2>1, <2>2 DEF Rows, Owned, Owners
    <3>. QED
      BY <1>5, <1>6, <2>2, <3>1
  <2>3. CASE v \notin workspaces
    BY <1>1, <1>2, <2>1, <2>3
  <2>. QED
    BY <2>2, <2>3
<1>8. Housed'
  <2>1. SUFFICES ASSUME NEW x \in Emails, account'[x] # None, x \notin adrift'
                 PROVE  \E v \in workspaces' : member'[x][v] # "none"
    BY DEF Housed, Belongs
  <2>2. CASE x = e
    BY <1>1, <1>2, <1>6, <2>2
  <2>3. CASE x # e
    <3>1. PICK v \in workspaces : member[x][v] # "none"
      BY <1>1, <1>2, <2>1, <2>3 DEF Rows, Housed, Belongs
    <3>. QED
      BY <1>5, <1>6, <3>1
  <2>. QED
    BY <2>2, <2>3
<1>9. MembersExist'
  <2>1. SUFFICES ASSUME NEW x \in Emails, NEW v \in Workspaces, member'[x][v] # "none"
                 PROVE  account'[x] # None /\ v \in workspaces'
    BY DEF MembersExist
  <2>2. CASE x = e /\ v = w
    BY <1>3, <1>6, <2>2
  <2>3. CASE ~(x = e /\ v = w)
    <3>1. member[x][v] # "none"
      BY <1>2, <2>1, <2>3
    <3>2. account[x] # None /\ v \in workspaces
      BY <3>1 DEF Rows, MembersExist
    <3>. QED
      BY <1>1, <1>2, <1>6, <3>2
  <2>. QED
    BY <2>2, <2>3
<1>10. HoldersExist'
  BY <1>0, <1>1, <1>2, <1>3 DEF Rows, HoldersExist, TypedRows, ACredential
<1>11. LinksExist'
  BY <1>0, <1>1, <1>2, <1>3 DEF Rows, LinksExist, TypedRows, ALink, Is
<1>. QED
  BY <1>7, <1>8, <1>9, <1>10, <1>11 DEF Rows

\* A changed role leaves an owner.
LEMMA RowsRoleChanged ==
  ASSUME Types, Rows, NEW p \in Procs, changeMemberRole(p)
  PROVE  Rows'
<1>0. UNCHANGED <<account, workspaces, creds, links, crossed, adrift>>
  BY DEF changeMemberRole, history
<1>1. req[p].role \in {"member", "owner"} /\ req[p].w \in Workspaces /\ req[p].x \in Emails
  BY DEF changeMemberRole, At, Types, WellFormed, TeamOps
<1>2. CASE UNCHANGED member
  BY <1>0, <1>2, RowsWithoutMoves DEF db
<1>3. CASE ~UNCHANGED member
  <2>1. PICK w \in Workspaces, x \in Emails, role \in {"member", "owner"} :
          /\ w \in workspaces /\ member[x][w] # "none" /\ (role = "member" => ~lastOwner(w, x))
          /\ member' = [member EXCEPT ![x][w] = role]
    BY <1>1, <1>3 DEF changeMemberRole
  <2>2. member \in [Emails -> [Workspaces -> Roles]] /\ workspaces \subseteq Workspaces
    BY DEF Types
  <2>3. member'[x][w] = role /\ \A y \in Emails, v \in Workspaces : (y # x \/ v # w) => member'[y][v] = member[y][v]
    BY <2>1, <2>2
  <2>4. \A y \in Emails, v \in Workspaces : member'[y][v] # "none" <=> member[y][v] # "none"
    BY <2>1, <2>3
  <2>5. Owned'
    <3>1. SUFFICES ASSUME NEW v \in workspaces, v \notin crossed
                   PROVE  \E y \in Emails : member'[y][v] = "owner"
      BY <1>0 DEF Owned, Owners
    <3>2. Owners(v) # {}
      BY <3>1 DEF Rows, Owned
    <3>3. CASE v # w
      BY <2>2, <2>3, <3>2, <3>3 DEF Owners
    <3>4. CASE v = w /\ role = "owner"
      BY <2>3, <3>4
    <3>5. CASE v = w /\ role = "member"
      <4>1. PICK y \in Emails \ {x} : member[y][w] = "owner"
        BY <2>1, <3>2, <3>5, OtherOwner
      <4>. QED
        BY <2>3, <3>5, <4>1
    <3>. QED
      BY <3>3, <3>4, <3>5
  <2>6. Housed'
    BY <1>0, <2>2, <2>4 DEF Rows, Housed, Belongs
  <2>7. MembersExist'
    BY <1>0, <2>4 DEF Rows, MembersExist
  <2>8. HoldersExist' /\ LinksExist'
    BY <1>0 DEF Rows, HoldersExist, LinksExist, Is
  <2>. QED
    BY <2>5, <2>6, <2>7, <2>8 DEF Rows
<1>. QED
  BY <1>2, <1>3

\* An account that joins belongs somewhere.
LEMMA RowsJoined ==
  ASSUME Types, Rows, NEW p \in Procs, joinWorkspaceFromInvite(p)
  PROVE  Rows'
<1>0. UNCHANGED <<account, workspaces, creds, links, crossed>>
  BY DEF joinWorkspaceFromInvite
<1>1. req[p].w \in Workspaces /\ req[p].e \in Emails
  BY DEF joinWorkspaceFromInvite, At, Types, WellFormed
<1>2. CASE UNCHANGED <<member, adrift>>
  BY <1>0, <1>2, RowsWithoutMoves DEF db
<1>3. CASE ~UNCHANGED <<member, adrift>>
  <2>1. PICK w \in Workspaces, x \in Emails :
          /\ w \in workspaces /\ account[x] # None /\ member[x][w] = "none"
          /\ member' = [member EXCEPT ![x][w] = "member"] /\ adrift' = adrift \ {x}
    BY <1>1, <1>3 DEF joinWorkspaceFromInvite, Is
  <2>2. member \in [Emails -> [Workspaces -> Roles]] /\ workspaces \subseteq Workspaces
    BY DEF Types
  <2>3. member'[x][w] = "member" /\ \A y \in Emails, v \in Workspaces : (y # x \/ v # w) => member'[y][v] = member[y][v]
    BY <2>1, <2>2
  <2>4. Owned'
    <3>1. SUFFICES ASSUME NEW v \in workspaces, v \notin crossed
                   PROVE  \E y \in Emails : member'[y][v] = "owner"
      BY <1>0 DEF Owned, Owners
    <3>2. PICK y \in Emails : member[y][v] = "owner"
      BY <3>1 DEF Rows, Owned, Owners
    <3>. QED
      BY <2>1, <2>2, <2>3, <3>2
  <2>5. Housed'
    BY <1>0, <2>1, <2>2, <2>3 DEF Rows, Housed, Belongs
  <2>6. MembersExist'
    BY <1>0, <2>1, <2>3 DEF Rows, MembersExist
  <2>7. HoldersExist' /\ LinksExist'
    BY <1>0 DEF Rows, HoldersExist, LinksExist, Is
  <2>. QED
    BY <2>4, <2>5, <2>6, <2>7 DEF Rows
<1>. QED
  BY <1>2, <1>3

\* What goes with accounts: their sessions, tokens and links, when they belong nowhere.
LEMMA RowsAfterLoss ==
  ASSUME TypedRows, Rows, NEW gone,
         account' = [x \in Emails |-> IF x \in gone THEN None ELSE account[x]],
         \A c \in creds' : c.e \notin gone /\ \E d \in creds : d.e = c.e,
         creds' \subseteq ACredential,
         \A l \in links' : l \in links /\ (l.e \in gone => l.kind = "invite")
  PROVE  HoldersExist' /\ LinksExist'
<1>1. HoldersExist'
  BY DEF Rows, HoldersExist, ACredential
<1>2. LinksExist'
  <2>1. SUFFICES ASSUME NEW l \in links', l.kind # "invite"
                 PROVE  account'[l.e] # None /\ account'[l.e].id = l.id
    BY DEF LinksExist, Is
  <2>2. l \in links /\ l.e \notin gone /\ l.e \in Emails
    BY <2>1 DEF TypedRows, ALink
  <2>3. account[l.e] # None /\ account[l.e].id = l.id
    BY <2>1, <2>2 DEF Rows, LinksExist, Is
  <2>. QED
    BY <2>2, <2>3
<1>. QED
  BY <1>1, <1>2

\* A removed member leaves an owner, and an account without a workspace goes.
LEMMA RowsRemoved ==
  ASSUME Types, Rows, NEW p \in Procs, removeWorkspaceMember(p)
  PROVE  Rows'
<1>0. TypedRows /\ UNCHANGED <<workspaces, crossed>>
  BY DEF Types, TypedRows, removeWorkspaceMember
<1>1. req[p].w \in Workspaces /\ req[p].x \in Emails
  BY DEF removeWorkspaceMember, At, Types, WellFormed, TeamOps
<1>2. CASE UNCHANGED <<account, member, creds, links, done, adrift>>
  BY <1>0, <1>2, RowsWithoutMoves DEF db
<1>3. CASE ~UNCHANGED <<account, member, creds, links, done, adrift>>
  <2>1. PICK w \in Workspaces, x \in Emails, gone \in SUBSET Emails :
          /\ gone = (IF \E v \in workspaces \ {w} : member[x][v] # "none" THEN {} ELSE {x})
          /\ member[x][w] # "none" /\ ~lastOwner(w, x)
          /\ member' = [member EXCEPT ![x][w] = "none"]
          /\ Cascade(gone)
          /\ creds' = {IF c.e = x /\ c.kind = "session" /\ c.ws = w THEN [c EXCEPT !.ws = None] ELSE c :
                       c \in {d \in creds : d.e \notin gone}}
    <3>1. PICK gone : gone = (IF \E v \in workspaces \ {req[p].w} : member[req[p].x][v] # "none" THEN {} ELSE {req[p].x})
      OBVIOUS
    <3>. QED
      BY <1>1, <1>3, <3>1 DEF removeWorkspaceMember
  <2>2. member \in [Emails -> [Workspaces -> Roles]] /\ workspaces \subseteq Workspaces
    BY DEF Types
  <2>3. member'[x][w] = "none" /\ \A y \in Emails, v \in Workspaces : (y # x \/ v # w) => member'[y][v] = member[y][v]
    BY <2>1, <2>2
  <2>4. account' = [y \in Emails |-> IF y \in gone THEN None ELSE account[y]]
        /\ links' = {l \in links : l.e \in gone => l.kind = "invite"} /\ adrift' = adrift \ gone
    BY <2>1 DEF Cascade
  <2>5. Owned'
    <3>1. SUFFICES ASSUME NEW v \in workspaces, v \notin crossed
                   PROVE  \E y \in Emails : member'[y][v] = "owner"
      BY <1>0 DEF Owned, Owners
    <3>2. Owners(v) # {}
      BY <3>1 DEF Rows, Owned
    <3>3. CASE v # w
      BY <2>2, <2>3, <3>2, <3>3 DEF Owners
    <3>4. CASE v = w
      <4>1. PICK y \in Emails \ {x} : member[y][w] = "owner"
        BY <2>1, <3>2, <3>4, OtherOwner
      <4>. QED
        BY <2>3, <3>4, <4>1
    <3>. QED
      BY <3>3, <3>4
  <2>6. Housed'
    <3>1. SUFFICES ASSUME NEW y \in Emails, account'[y] # None, y \notin adrift'
                   PROVE  \E v \in workspaces : member'[y][v] # "none"
      BY <1>0 DEF Housed, Belongs
    <3>2. y \notin gone /\ account[y] # None /\ y \notin adrift
      BY <2>4, <3>1
    <3>3. CASE y = x
      <4>1. PICK v \in workspaces \ {w} : member[x][v] # "none"
        BY <2>1, <3>2, <3>3
      <4>. QED
        BY <2>2, <2>3, <3>3, <4>1
    <3>4. CASE y # x
      <4>1. PICK v \in workspaces : member[y][v] # "none"
        BY <3>2 DEF Rows, Housed, Belongs
      <4>. QED
        BY <2>2, <2>3, <3>4, <4>1
    <3>. QED
      BY <3>3, <3>4
  <2>7. MembersExist'
    <3>1. SUFFICES ASSUME NEW y \in Emails, NEW v \in Workspaces, member'[y][v] # "none"
                   PROVE  account'[y] # None /\ v \in workspaces
      BY <1>0 DEF MembersExist
    <3>2. (y # x \/ v # w) /\ member[y][v] # "none"
      BY <2>3, <3>1
    <3>3. account[y] # None /\ v \in workspaces
      BY <3>2 DEF Rows, MembersExist
    <3>4. y \notin gone
      BY <2>1, <3>2, <3>3
    <3>. QED
      BY <2>4, <3>3, <3>4
  <2>8. \A c \in creds : [c EXCEPT !.ws = None] \in ACredential /\ [c EXCEPT !.ws = None].e = c.e
    BY <1>0 DEF TypedRows, ACredential
  <2>9. creds' \subseteq ACredential /\ \A c \in creds' : c.e \notin gone /\ \E d \in creds : d.e = c.e
    BY <1>0, <2>1, <2>8 DEF TypedRows
  <2>10. HoldersExist' /\ LinksExist'
    BY <1>0, <2>4, <2>9, RowsAfterLoss
  <2>. QED
    BY <2>5, <2>6, <2>7, <2>10 DEF Rows
<1>. QED
  BY <1>2, <1>3

\* A purged workspace takes with it the accounts read before that belong nowhere
\* else; one that joined in between is adrift.
LEMMA RowsErased ==
  ASSUME Types, Rows, NEW p \in Procs, eraseWorkspace(p)
  PROVE  Rows'
<1>0. TypedRows
  BY DEF Types, TypedRows
<1>1. req[p].w \in Workspaces
  BY DEF eraseWorkspace, At, Types, WellFormed
<1>2. CASE UNCHANGED <<db, links, done, adrift, creds, crossed>>
  BY <1>2, RowsWithoutMoves
<1>3. CASE ~UNCHANGED <<db, links, done, adrift, creds, crossed>>
  <2>1. PICK w \in Workspaces, alone \in SUBSET Emails, gone \in SUBSET Emails :
          /\ alone = {x \in Emails : account[x] # None /\ \A v \in workspaces \ {w} : member[x][v] = "none"}
          /\ gone \subseteq alone
          /\ workspaces' = workspaces \ {w}
          /\ member' = [x \in Emails |-> [member[x] EXCEPT ![w] = "none"]]
          /\ account' = [x \in Emails |-> IF x \in gone THEN None ELSE account[x]]
          /\ \A l \in links' : l \in links /\ (l.e \in gone => l.kind = "invite")
          /\ adrift' = (adrift \cup (alone \cap Members(w))) \ gone
          /\ creds' \subseteq {c \in creds : c.e \notin gone}
          /\ crossed' = crossed \ {w}
    <3>1. PICK alone : alone = {x \in Emails : account[x] # None /\ \A v \in workspaces \ {req[p].w} : member[x][v] = "none"}
      OBVIOUS
    <3>2. PICK gone : gone = {x \in alone : \E m \in req[p].list : m[1] = x /\ Is(x, m[2])}
      OBVIOUS
    <3>3. req[p].w \in workspaces
      BY <1>3 DEF eraseWorkspace
    <3>4. account' = [x \in Emails |-> IF x \in gone THEN None ELSE account[x]]
      BY <3>1, <3>2, <3>3 DEF eraseWorkspace
    <3>5. adrift' = (adrift \cup (alone \cap Members(req[p].w))) \ gone
      BY <3>1, <3>2, <3>3 DEF eraseWorkspace
    <3>6. links' = {l \in links : l.e \in gone \/ (l.kind = "google" /\ l.ws = req[p].w) => l.kind = "invite"}
      BY <3>1, <3>2, <3>3 DEF eraseWorkspace
    <3>7. creds' = {c \in creds : c.e \notin gone /\ (c.kind = "notes" => c.ws # req[p].w)}
      BY <3>1, <3>2, <3>3 DEF eraseWorkspace
    <3>8. /\ workspaces' = workspaces \ {req[p].w} /\ crossed' = crossed \ {req[p].w}
          /\ member' = [x \in Emails |-> [member[x] EXCEPT ![req[p].w] = "none"]]
      BY <3>3 DEF eraseWorkspace
    <3>. QED
      BY <1>1, <3>1, <3>2, <3>4, <3>5, <3>6, <3>7, <3>8
  <2>2. member \in [Emails -> [Workspaces -> Roles]] /\ workspaces \subseteq Workspaces
    BY DEF Types
  <2>3. \A y \in Emails, v \in Workspaces : member'[y][v] = IF v = w THEN "none" ELSE member[y][v]
    BY <2>1, <2>2
  <2>4. Owned'
    <3>1. SUFFICES ASSUME NEW v \in workspaces', v \notin crossed'
                   PROVE  \E y \in Emails : member'[y][v] = "owner"
      BY DEF Owned, Owners
    <3>2. v \in workspaces /\ v # w /\ v \notin crossed
      BY <2>1, <3>1
    <3>3. PICK y \in Emails : member[y][v] = "owner"
      BY <3>2 DEF Rows, Owned, Owners
    <3>. QED
      BY <2>2, <2>3, <3>2, <3>3
  <2>5. Housed'
    <3>1. SUFFICES ASSUME NEW y \in Emails, account'[y] # None, y \notin adrift'
                   PROVE  \E v \in workspaces' : member'[y][v] # "none"
      BY DEF Housed, Belongs
    <3>2. y \notin gone /\ account[y] # None /\ y \notin adrift /\ y \notin alone \cap Members(w)
      BY <2>1, <3>1
    <3>3. PICK v \in workspaces : member[y][v] # "none"
      BY <3>2 DEF Rows, Housed, Belongs
    <3>4. CASE v # w
      BY <2>1, <2>2, <2>3, <3>3, <3>4
    <3>5. CASE v = w
      <4>1. y \notin alone
        BY <3>2, <3>3, <3>5 DEF Members
      <4>2. PICK u \in workspaces \ {w} : member[y][u] # "none"
        BY <2>1, <3>2, <4>1
      <4>. QED
        BY <2>1, <2>2, <2>3, <4>2
    <3>. QED
      BY <3>4, <3>5
  <2>6. MembersExist'
    <3>1. SUFFICES ASSUME NEW y \in Emails, NEW v \in Workspaces, member'[y][v] # "none"
                   PROVE  account'[y] # None /\ v \in workspaces'
      BY DEF MembersExist
    <3>2. v # w /\ member[y][v] # "none"
      BY <2>3, <3>1
    <3>3. account[y] # None /\ v \in workspaces
      BY <3>2 DEF Rows, MembersExist
    <3>4. y \notin gone
      BY <2>1, <3>2, <3>3
    <3>. QED
      BY <2>1, <3>2, <3>3, <3>4
  <2>7. creds' \subseteq ACredential /\ \A c \in creds' : c.e \notin gone /\ \E d \in creds : d.e = c.e
    BY <1>0, <2>1 DEF TypedRows
  <2>8. HoldersExist' /\ LinksExist'
    BY <1>0, <2>1, <2>7, RowsAfterLoss
  <2>. QED
    BY <2>4, <2>5, <2>6, <2>8 DEF Rows
<1>. QED
  BY <1>2, <1>3

\* A deleted account takes its memberships; a workspace of which it was by then the
\* only owner is left behind.
LEMMA RowsDeleted ==
  ASSUME Types, Rows, NEW p \in Procs, finishDeletion(p)
  PROVE  Rows'
<1>0. TypedRows /\ UNCHANGED workspaces
  BY DEF Types, TypedRows, finishDeletion
<1>1. req[p].e \in Emails
  BY DEF finishDeletion, At, Types, WellFormed
<1>2. CASE UNCHANGED <<account, member, creds, links, done, adrift, crossed>>
  BY <1>0, <1>2, RowsWithoutMoves DEF db
<1>3. CASE ~UNCHANGED <<account, member, creds, links, done, adrift, crossed>>
  <2>1. PICK e \in Emails :
          /\ member' = [member EXCEPT ![e] = [w \in Workspaces |-> "none"]]
          /\ Cascade({e}) /\ creds' = {c \in creds : c.e # e}
          /\ crossed' = crossed \cup {w \in workspaces : Owners(w) = {e}}
    BY <1>1, <1>3 DEF finishDeletion
  <2>2. member \in [Emails -> [Workspaces -> Roles]] /\ workspaces \subseteq Workspaces
    BY DEF Types
  <2>3. \A y \in Emails, v \in Workspaces : member'[y][v] = IF y = e THEN "none" ELSE member[y][v]
    BY <2>1, <2>2
  <2>4. account' = [y \in Emails |-> IF y \in {e} THEN None ELSE account[y]]
        /\ links' = {l \in links : l.e \in {e} => l.kind = "invite"} /\ adrift' = adrift \ {e}
    BY <2>1 DEF Cascade
  <2>5. Owned'
    <3>1. SUFFICES ASSUME NEW v \in workspaces, v \notin crossed'
                   PROVE  \E y \in Emails : member'[y][v] = "owner"
      BY <1>0 DEF Owned, Owners
    <3>2. v \notin crossed /\ Owners(v) # {e}
      BY <2>1, <3>1
    <3>3. PICK y \in Owners(v) : y # e
      BY <3>2 DEF Rows, Owned
    <3>. QED
      BY <2>2, <2>3, <3>3 DEF Owners
  <2>6. Housed'
    <3>1. SUFFICES ASSUME NEW y \in Emails, account'[y] # None, y \notin adrift'
                   PROVE  \E v \in workspaces : member'[y][v] # "none"
      BY <1>0 DEF Housed, Belongs
    <3>2. y # e /\ account[y] # None /\ y \notin adrift
      BY <2>4, <3>1
    <3>3. PICK v \in workspaces : member[y][v] # "none"
      BY <3>2 DEF Rows, Housed, Belongs
    <3>. QED
      BY <2>2, <2>3, <3>2, <3>3
  <2>7. MembersExist'
    BY <1>0, <2>3, <2>4 DEF Rows, MembersExist
  <2>8. creds' \subseteq ACredential /\ \A c \in creds' : c.e \notin {e} /\ \E d \in creds : d.e = c.e
    BY <1>0, <2>1 DEF TypedRows
  <2>9. HoldersExist' /\ LinksExist'
    BY <1>0, <2>4, <2>8, RowsAfterLoss
  <2>. QED
    BY <2>5, <2>6, <2>7, <2>9 DEF Rows
<1>. QED
  BY <1>2, <1>3

\* Every step keeps the rows sound.
LEMMA RowsKept ==
  ASSUME Types, Rows, Classified
  PROVE  Rows'
<1>0. TypedRows /\ TypedRows'
  BY RowTypes DEF Types, TypedRows
<1>1. CASE Quiet
  <2>1. UNCHANGED <<db, crossed, adrift>> /\ creds' \subseteq creds /\ links' \subseteq links
    BY <1>1 DEF Quiet, history
  <2>. QED
    BY <2>1, RowsWithoutMoves
<1>2. ASSUME NEW e, NEW c, Issues(e, c)
      PROVE  Rows'
  <2>1. UNCHANGED <<db, crossed, adrift, links>> /\ creds' \subseteq creds \cup {c} /\ c.e = e /\ account[e] # None
    BY <1>2 DEF Issues
  <2>. QED
    BY <2>1, RowsWithoutMoves
<1>3. ASSUME NEW l, WritesLink(l)
      PROVE  Rows'
  <2>1. /\ UNCHANGED <<db, crossed, adrift, creds>> /\ links' \subseteq links \cup {l}
        /\ l.kind = "invite" \/ Is(l.e, l.id)
    BY <1>3 DEF WritesLink, history
  <2>. QED
    BY <2>1, RowsWithoutMoves
<1>4. ASSUME NEW e, NEW w, NEW role, NEW verified, NEW must, Registers(e, w, role, verified, must)
      PROVE  Rows'
  BY <1>4, RowsRegistered
<1>5. ASSUME NEW c \in creds, NEW w \in Workspaces, switchWorkspace(c, w)
      PROVE  Rows'
  <2>1. UNCHANGED <<db, crossed, adrift, links>> /\ creds' = (creds \ {c}) \cup {[c EXCEPT !.ws = w]}
    BY <1>5 DEF switchWorkspace, history
  <2>2. [c EXCEPT !.ws = w].e = c.e
    BY <1>0 DEF TypedRows, ACredential
  <2>3. \A d \in creds' : \E f \in creds : f.e = d.e
    BY <2>1, <2>2
  <2>. QED
    BY <2>1, <2>3, RowsWithoutMoves
<1>6. ASSUME NEW l \in links, completeEmailVerification(l)
      PROVE  Rows'
  <2>1. l.e \in Emails /\ account[l.e] # None /\ account[l.e] \in AnAccount
    BY <1>0, <1>6 DEF completeEmailVerification, Rows, LinksExist, Is, TypedRows, ALink
  <2>2. /\ UNCHANGED <<member, workspaces, creds, crossed, adrift>> /\ links' \subseteq links
        /\ account' = [account EXCEPT ![l.e] = [account[l.e] EXCEPT !.verified = TRUE]]
    BY <1>6 DEF completeEmailVerification, consumeAuthToken, history
  <2>3. account'[l.e] = [account[l.e] EXCEPT !.verified = TRUE] /\ \A x \in Emails \ {l.e} : account'[x] = account[x]
    BY <1>0, <2>1, <2>2 DEF TypedRows
  <2>4. account'[l.e] # None /\ account'[l.e].id = account[l.e].id
    BY <2>1, <2>3, RowFields, RowsAreSome
  <2>. QED
    BY <1>0, <2>1, <2>2, <2>3, <2>4, RowsWithRowWritten DEF TypedRows
<1>7. ASSUME NEW p \in Procs, finishPassword(p)
      PROVE  Rows'
  <2>1. UNCHANGED <<db, crossed, adrift, links>> /\ creds' \subseteq creds
    BY <1>7 DEF finishPassword
  <2>. QED
    BY <2>1, RowsWithoutMoves
<1>8. ASSUME NEW p \in Procs, NEW e, NEW verified, WritesPassword(p, e, verified)
      PROVE  Rows'
  <2>1. e \in Emails /\ verified \in BOOLEAN /\ setPassword(e, verified) /\ account[e] # None /\ account[e] \in AnAccount
    BY <1>0, <1>8 DEF WritesPassword, TypedRows
  <2>2. /\ account'[e] \in AnAccount /\ account'[e].id = account[e].id
        /\ \A x \in Emails \ {e} : account'[x] = account[x]
    BY <1>0, <2>1, PasswordWritten
  <2>3. /\ UNCHANGED <<member, workspaces, links, crossed, adrift>>
        /\ \A c \in creds' : (\E d \in creds : d.e = c.e) \/ c.e = e
    BY <1>8 DEF WritesPassword, history
  <2>4. account'[e] # None
    BY <2>2, RowsAreSome
  <2>5. creds \subseteq ACredential /\ creds' \subseteq ACredential /\ links \subseteq ALink /\ links' \subseteq links
    BY <1>0, <2>3 DEF TypedRows
  <2>. QED
    BY <2>1, <2>2, <2>3, <2>4, <2>5, RowsWithRowWritten
<1>. QED
  BY <1>1, <1>2, <1>3, <1>4, <1>5, <1>6, <1>7, <1>8, RowsRoleChanged, RowsJoined, RowsRemoved, RowsErased, RowsDeleted
     DEF Classified, RowStep

----------------------------------------------------------------------------
(* Passwords, and what rests on them *)

\* What a step that writes no password does to accounts, to finished changes and to
\* sessions and tokens.
AccountsFollow ==
  \A e \in Emails : account'[e] # None =>
    \/ account[e] # None /\ account'[e].id = account[e].id /\ account'[e].pw = account[e].pw
    \/ account[e] = None /\ account'[e].id = next /\ account'[e].pw = next /\ next' = next + 1
DoneFollows ==
  \A e \in Emails :
    \/ done'[e] \in {done[e], 0}
    \/ /\ \E p \in Procs : req[p].op = "finish" /\ req[p].e = e /\ Is(e, req[p].id) /\ done'[e] = req[p].pw
       /\ \A c \in creds' : c.e = e => c.kind = "session"
CredsFollow ==
  \A c \in creds' :
    \/ \E d \in creds : d.n = c.n /\ d.e = c.e /\ d.kind = c.kind /\ d.from = c.from
    \/ account'[c.e] = account[c.e] /\ (c.from < account[c.e].pw => c.n \in slipped')
Follows ==
  /\ next' \in {next, next + 1} /\ slipped \subseteq slipped'
  /\ AccountsFollow /\ DoneFollows /\ CredsFollow

\* What stays follows.
LEMMA Still ==
  /\ UNCHANGED account => AccountsFollow
  /\ UNCHANGED done => DoneFollows
  /\ creds' \subseteq creds => CredsFollow
BY DEF AccountsFollow, DoneFollows, CredsFollow

\* What a cascade leaves follows.
LEMMA CascadeFollows ==
  ASSUME TypedRows, NEW gone,
         account' = [x \in Emails |-> IF x \in gone THEN None ELSE account[x]],
         done' = [x \in Emails |-> IF x \in gone THEN 0 ELSE done[x]]
  PROVE  AccountsFollow /\ DoneFollows
<1>1. AccountsFollow
  BY DEF AccountsFollow
<1>2. DoneFollows
  BY DEF DoneFollows
<1>. QED
  BY <1>1, <1>2

\* Every step that writes no password is of this kind.
LEMMA StepsFollow ==
  ASSUME Types, Rows, RowStep
  PROVE  Follows
<1>0. TypedRows
  BY DEF Types, TypedRows
<1>a. next \in Nat
  BY DEF Types
<1>1. CASE Quiet
  BY <1>1, Still DEF Quiet, history, db, Follows
<1>2. ASSUME NEW e, NEW c, Issues(e, c)
      PROVE  Follows
  <2>1. /\ UNCHANGED <<account, done>> /\ next' = next + 1 /\ c.n = next /\ c.e = e
        /\ slipped' = (IF c.from < account[e].pw THEN slipped \cup {next} ELSE slipped)
        /\ creds' \subseteq creds \cup {c}
    BY <1>2 DEF Issues, db
  <2>2. CredsFollow
    BY <2>1 DEF CredsFollow
  <2>. QED
    BY <2>1, <2>2, Still DEF Follows
<1>3. ASSUME NEW l, WritesLink(l)
      PROVE  Follows
  BY <1>3, Still DEF WritesLink, db, history, Follows
<1>4. ASSUME NEW e, NEW w, NEW role, NEW verified, NEW must, Registers(e, w, role, verified, must)
      PROVE  Follows
  <2>1. /\ e \in Emails /\ w \in Workspaces /\ role \in Roles /\ verified \in BOOLEAN /\ must \in BOOLEAN
        /\ account[e] = None /\ createAccount(e, w, role, verified, must) /\ UNCHANGED <<creds, done, slipped>>
    BY <1>4 DEF Registers, Roles, history
  <2>2. /\ account'[e] = NewAccount(verified, must) /\ \A x \in Emails \ {e} : account'[x] = account[x]
        /\ next' = next + 1
    BY <1>0, <2>1, CreatedTyped
  <2>3. account'[e].id = next /\ account'[e].pw = next
    BY <2>2 DEF NewAccount
  <2>4. AccountsFollow
    BY <2>1, <2>2, <2>3 DEF AccountsFollow
  <2>. QED
    BY <2>1, <2>2, <2>4, Still DEF Follows
<1>5. ASSUME NEW c \in creds, NEW w \in Workspaces, switchWorkspace(c, w)
      PROVE  Follows
  <2>1. UNCHANGED <<account, done, slipped, next>> /\ creds' = (creds \ {c}) \cup {[c EXCEPT !.ws = w]}
    BY <1>5 DEF switchWorkspace, history, db
  <2>2. PICK d : d = [c EXCEPT !.ws = w]
    OBVIOUS
  <2>3. d.n = c.n /\ d.e = c.e /\ d.kind = c.kind /\ d.from = c.from
    BY <1>0, <2>2 DEF TypedRows, ACredential
  <2>4. creds' = (creds \ {c}) \cup {d}
    BY <2>1, <2>2
  <2>5. CredsFollow
    BY <2>3, <2>4 DEF CredsFollow
  <2>. QED
    BY <2>1, <2>5, Still DEF Follows
<1>6. ASSUME NEW l \in links, completeEmailVerification(l)
      PROVE  Follows
  <2>1. l.e \in Emails /\ account[l.e] # None /\ account[l.e] \in AnAccount
    BY <1>0, <1>6 DEF completeEmailVerification, Rows, LinksExist, Is, TypedRows, ALink
  <2>2. /\ UNCHANGED <<creds, done, slipped, next>>
        /\ account' = [account EXCEPT ![l.e] = [account[l.e] EXCEPT !.verified = TRUE]]
    BY <1>6 DEF completeEmailVerification, history
  <2>3. account'[l.e] = [account[l.e] EXCEPT !.verified = TRUE] /\ \A x \in Emails \ {l.e} : account'[x] = account[x]
    BY <1>0, <2>1, <2>2 DEF TypedRows
  <2>4. account'[l.e].pw = account[l.e].pw /\ account'[l.e].id = account[l.e].id
    BY <2>1, <2>3, RowFields
  <2>5. AccountsFollow
    BY <2>1, <2>3, <2>4 DEF AccountsFollow
  <2>. QED
    BY <2>2, <2>5, Still DEF Follows
<1>7. ASSUME NEW p \in Procs, finishPassword(p)
      PROVE  Follows
  <2>1. UNCHANGED <<account, slipped, next>> /\ creds' \subseteq creds /\ req[p].op = "finish"
    BY <1>7 DEF finishPassword, db, At
  <2>2. req[p].e \in Emails /\ req[p].pw \in Nat
    BY <2>1 DEF Types, WellFormed
  <2>3. CASE ~Is(req[p].e, req[p].id)
    BY <1>7, <2>1, <2>3, Still DEF finishPassword, Follows
  <2>4. CASE Is(req[p].e, req[p].id)
    <3>1. /\ creds' = creds \ Tokens(req[p].e)
          /\ done' = [done EXCEPT ![req[p].e] = Max({@, req[p].pw})]
      BY <1>7, <2>4 DEF finishPassword, RevokedTokens
    <3>2. PICK e \in Emails : e = req[p].e
      BY <2>2
    <3>3. done[e] \in Nat /\ done \in [Emails -> Nat]
      BY <1>0 DEF TypedRows
    <3>4. Max({done[e], req[p].pw}) \in {done[e], req[p].pw}
      BY <2>2, <3>3, LargerOfTwo
    <3>5. done'[e] \in {done[e], req[p].pw} /\ \A x \in Emails \ {e} : done'[x] = done[x]
      BY <3>1, <3>2, <3>3, <3>4
    <3>6. \A c \in creds' : c.e = e => c.kind = "session"
      BY <3>1, <3>2 DEF Tokens
    <3>7. DoneFollows
      BY <2>1, <2>4, <3>2, <3>5, <3>6 DEF DoneFollows
    <3>. QED
      BY <2>1, <3>7, Still DEF Follows
  <2>. QED
    BY <2>3, <2>4
<1>8. ASSUME NEW p \in Procs, changeMemberRole(p) \/ joinWorkspaceFromInvite(p)
      PROVE  Follows
  BY <1>8, Still DEF changeMemberRole, joinWorkspaceFromInvite, history, Follows
<1>9. ASSUME NEW p \in Procs, removeWorkspaceMember(p)
      PROVE  Follows
  <2>0. UNCHANGED <<slipped, next>>
    BY <1>9 DEF removeWorkspaceMember
  <2>1. CASE UNCHANGED <<account, member, creds, links, done, adrift>>
    BY <2>0, <2>1, Still DEF Follows
  <2>2. CASE ~UNCHANGED <<account, member, creds, links, done, adrift>>
    <3>1. PICK gone : /\ Cascade(gone)
                      /\ creds' = {IF c.e = req[p].x /\ c.kind = "session" /\ c.ws = req[p].w THEN [c EXCEPT !.ws = None] ELSE c :
                                   c \in {d \in creds : d.e \notin gone}}
      BY <1>9, <2>2 DEF removeWorkspaceMember
    <3>2. \A c \in creds : [c EXCEPT !.ws = None].n = c.n /\ [c EXCEPT !.ws = None].e = c.e
                           /\ [c EXCEPT !.ws = None].kind = c.kind /\ [c EXCEPT !.ws = None].from = c.from
      BY <1>0 DEF TypedRows, ACredential
    <3>3. CredsFollow
      <4>1. SUFFICES ASSUME NEW c \in creds'
                     PROVE  \E d \in creds : d.n = c.n /\ d.e = c.e /\ d.kind = c.kind /\ d.from = c.from
        BY DEF CredsFollow
      <4>2. PICK d \in creds : c = d \/ c = [d EXCEPT !.ws = None]
        BY <3>1
      <4>. QED
        BY <3>2, <4>2
    <3>4. AccountsFollow /\ DoneFollows
      BY <1>0, <3>1, CascadeFollows DEF Cascade
    <3>. QED
      BY <2>0, <3>3, <3>4 DEF Follows
  <2>. QED
    BY <2>1, <2>2
<1>10. ASSUME NEW p \in Procs, eraseWorkspace(p)
       PROVE  Follows
  <2>0. UNCHANGED <<slipped, next>>
    BY <1>10 DEF eraseWorkspace
  <2>1. CASE UNCHANGED <<db, links, done, adrift, creds, crossed>>
    BY <2>0, <2>1, Still DEF db, Follows
  <2>2. CASE ~UNCHANGED <<db, links, done, adrift, creds, crossed>>
    <3>1. PICK gone : /\ account' = [x \in Emails |-> IF x \in gone THEN None ELSE account[x]]
                      /\ done' = [x \in Emails |-> IF x \in gone THEN 0 ELSE done[x]]
      BY <1>10, <2>2 DEF eraseWorkspace
    <3>2. creds' \subseteq creds
      BY <1>10, <2>2 DEF eraseWorkspace
    <3>. QED
      BY <1>0, <2>0, <3>1, <3>2, CascadeFollows, Still DEF Follows
  <2>. QED
    BY <2>1, <2>2
<1>11. ASSUME NEW p \in Procs, finishDeletion(p)
       PROVE  Follows
  <2>0. UNCHANGED <<slipped, next>>
    BY <1>11 DEF finishDeletion
  <2>1. CASE UNCHANGED <<account, member, creds, links, done, adrift, crossed>>
    BY <2>0, <2>1, Still DEF Follows
  <2>2. CASE ~UNCHANGED <<account, member, creds, links, done, adrift, crossed>>
    <3>1. Cascade({req[p].e}) /\ creds' \subseteq creds
      BY <1>11, <2>2 DEF finishDeletion
    <3>. QED
      BY <1>0, <2>0, <3>1, CascadeFollows, Still DEF Cascade, Follows
  <2>. QED
    BY <2>1, <2>2
<1>. QED
  BY <1>1, <1>2, <1>3, <1>4, <1>5, <1>6, <1>7, <1>8, <1>9, <1>10, <1>11 DEF RowStep

\* A step that writes no password keeps the numbers in order.
LEMMA NumbersFollow ==
  ASSUME Types, Rows, Numbered, RowStep, NoFinish
  PROVE  Numbered'
<1>0. TypedRows /\ TypedRows'
  BY RowTypes DEF Types, TypedRows, Classified
<1>1. next' \in {next, next + 1} /\ AccountsFollow /\ DoneFollows /\ next \in Nat
  BY StepsFollow DEF Follows, Types
<1>2. \A e \in Emails : /\ done[e] \in Nat /\ done[e] < next
                        /\ account[e] # None => /\ account[e].id \in Nat /\ account[e].pw \in Nat
                                                /\ account[e].id < next /\ account[e].pw < next
                                                /\ done[e] <= account[e].pw
  BY AccountRows, <1>0 DEF Numbered, TypedRows
<1>3. ASSUME NEW p \in Procs, req[p].op = "finish"
      PROVE  /\ req[p].e \in Emails /\ req[p].pw \in Nat /\ req[p].id \in Nat
             /\ req[p].pw < next /\ req[p].id < next
             /\ Is(req[p].e, req[p].id) => req[p].pw <= account[req[p].e].pw
  BY <1>3 DEF Types, WellFormed, Numbered
<1>4. ASSUME NEW e \in Emails
      PROVE  done'[e] \in Nat /\ done'[e] < next' /\ (account[e] # None => done'[e] <= account[e].pw)
  <2>1. CASE done'[e] \in {done[e], 0}
    BY <1>1, <1>2, <2>1
  <2>2. CASE done'[e] \notin {done[e], 0}
    <3>1. PICK p \in Procs : req[p].op = "finish" /\ req[p].e = e /\ Is(e, req[p].id) /\ done'[e] = req[p].pw
      BY <1>1, <2>2 DEF DoneFollows
    <3>2. req[p].pw \in Nat /\ req[p].pw < next /\ req[p].pw <= account[e].pw
      BY <1>3, <3>1
    <3>. QED
      BY <1>1, <3>1, <3>2
  <2>. QED
    BY <2>1, <2>2
<1>5. ASSUME NEW e \in Emails, account'[e] # None
      PROVE  account'[e].id < next' /\ account'[e].pw < next' /\ done'[e] <= account'[e].pw
  <2>1. CASE account[e] # None
    <3>1. account'[e].id = account[e].id /\ account'[e].pw = account[e].pw
      BY <1>1, <1>5, <2>1 DEF AccountsFollow
    <3>. QED
      BY <1>1, <1>2, <1>4, <2>1, <3>1
  <2>2. CASE account[e] = None
    <3>1. account'[e].id = next /\ account'[e].pw = next /\ next' = next + 1
      BY <1>1, <1>5, <2>2 DEF AccountsFollow
    <3>. QED
      BY <1>1, <1>4, <3>1
  <2>. QED
    BY <2>1, <2>2
<1>6. ASSUME NEW p \in Procs, req'[p].op = "finish"
      PROVE  /\ req'[p].pw < next' /\ req'[p].id < next'
             /\ (account'[req'[p].e] # None /\ account'[req'[p].e].id = req'[p].id) => req'[p].pw <= account'[req'[p].e].pw
  <2>1. req'[p] = req[p] /\ req[p].op = "finish"
    BY <1>6 DEF NoFinish
  <2>2. PICK e \in Emails, id \in Nat, pw \in Nat : e = req[p].e /\ id = req[p].id /\ pw = req[p].pw
    BY <1>3, <2>1
  <2>3. pw < next /\ id < next /\ (Is(e, id) => pw <= account[e].pw)
    BY <1>3, <2>1, <2>2
  <2>4. ASSUME account'[e] # None, account'[e].id = id
        PROVE  pw <= account'[e].pw
    <3>1. account[e] # None
      BY <1>1, <2>3, <2>4 DEF AccountsFollow
    <3>2. account'[e].id = account[e].id /\ account'[e].pw = account[e].pw
      BY <1>1, <2>4, <3>1 DEF AccountsFollow
    <3>. QED
      BY <2>3, <2>4, <3>1, <3>2 DEF Is
  <2>5. pw < next' /\ id < next'
    BY <1>1, <2>3
  <2>. QED
    BY <2>1, <2>2, <2>4, <2>5
<1>. QED
  BY <1>4, <1>5, <1>6 DEF Numbered, Is

\* A written password is the newest number.
LEMMA NumbersWritten ==
  ASSUME Types, Rows, Numbered, NEW p \in Procs, NEW e, NEW verified, WritesPassword(p, e, verified)
  PROVE  Numbered'
<1>0. TypedRows
  BY DEF Types, TypedRows
<1>1. /\ e \in Emails /\ verified \in BOOLEAN /\ setPassword(e, verified) /\ account[e] # None
      /\ account[e] \in AnAccount /\ UNCHANGED done /\ next \in Nat
      /\ req'[p].e = e /\ req'[p].id = account[e].id /\ req'[p].pw = next
      /\ \A q \in Procs \ {p} : req'[q] = req[q]
  BY <1>0 DEF WritesPassword, TypedRows, history
<1>2. /\ account'[e].pw = next /\ account'[e].id = account[e].id /\ next' = next + 1
      /\ \A x \in Emails \ {e} : account'[x] = account[x]
  BY <1>0, <1>1, PasswordWritten
<1>3. \A x \in Emails : /\ done[x] \in Nat /\ done[x] < next
                        /\ account[x] # None => /\ account[x].id \in Nat /\ account[x].pw \in Nat
                                                /\ account[x].id < next /\ account[x].pw < next
                                                /\ done[x] <= account[x].pw
  BY AccountRows, <1>0 DEF Numbered, TypedRows
<1>4. ASSUME NEW x \in Emails
      PROVE  /\ done'[x] < next'
             /\ account'[x] # None => account'[x].id < next' /\ account'[x].pw < next' /\ done'[x] <= account'[x].pw
  BY <1>1, <1>2, <1>3
<1>5. ASSUME NEW q \in Procs, req'[q].op = "finish"
      PROVE  /\ req'[q].pw < next' /\ req'[q].id < next'
             /\ (account'[req'[q].e] # None /\ account'[req'[q].e].id = req'[q].id) => req'[q].pw <= account'[req'[q].e].pw
  <2>1. CASE q = p
    BY <1>1, <1>2, <1>3, <2>1
  <2>2. CASE q # p
    <3>1. req'[q] = req[q] /\ req[q].op = "finish"
      BY <1>1, <1>5, <2>2
    <3>2. /\ req[q].e \in Emails /\ req[q].pw \in Nat /\ req[q].id \in Nat
          /\ req[q].pw < next /\ req[q].id < next
          /\ Is(req[q].e, req[q].id) => req[q].pw <= account[req[q].e].pw
      BY <3>1 DEF Types, WellFormed, Numbered
    <3>3. PICK x \in Emails, id \in Nat, pw \in Nat : x = req[q].e /\ id = req[q].id /\ pw = req[q].pw
      BY <3>2
    <3>4. ASSUME account'[x] # None, account'[x].id = id
          PROVE  pw <= account'[x].pw
      <4>1. CASE x = e
        BY <1>1, <1>2, <3>2, <3>3, <4>1
      <4>2. CASE x # e
        BY <1>2, <3>2, <3>3, <3>4, <4>2 DEF Is
      <4>. QED
        BY <4>1, <4>2
    <3>5. pw < next' /\ id < next'
      BY <1>1, <1>2, <3>2, <3>3
    <3>. QED
      BY <3>1, <3>3, <3>4, <3>5
  <2>. QED
    BY <2>1, <2>2
<1>. QED
  BY <1>4, <1>5 DEF Numbered, Is

\* Every step keeps the numbers in order.
LEMMA NumbersKept ==
  ASSUME Types, Rows, Numbered, Classified
  PROVE  Numbered'
BY NumbersFollow, NumbersWritten DEF Classified

\* Every step keeps sessions on the password and tokens on the newest finished change.
LEMMA SignedKept ==
  ASSUME Types, Rows, Numbered, Signed, Classified
  PROVE  Signed'
<1>0. TypedRows /\ TypedRows' /\ Rows' /\ Numbered'
  BY RowTypes, RowsKept, NumbersKept DEF Types, TypedRows
<1>1. \A c \in creds : c.e \in Emails /\ c.from \in Nat /\ account[c.e] # None /\ account[c.e].pw \in Nat /\ done[c.e] \in Nat
  BY <1>0, AccountRows DEF Rows, HoldersExist, TypedRows, ACredential
<1>2. \A c \in creds' : c.e \in Emails /\ c.from \in Nat /\ account'[c.e] # None /\ account'[c.e].pw \in Nat
                        /\ done'[c.e] \in Nat /\ done'[c.e] <= account'[c.e].pw
  BY <1>0 DEF Rows, HoldersExist, TypedRows, ACredential, AnAccount, Numbered
<1>3. ASSUME RowStep
      PROVE  Signed'
  <2>1. slipped \subseteq slipped' /\ AccountsFollow /\ DoneFollows /\ CredsFollow
    BY <1>3, StepsFollow DEF Follows
  <2>2. ASSUME NEW c \in creds', NEW d \in creds, d.n = c.n, d.e = c.e, d.kind = c.kind, d.from = c.from
        PROVE  /\ c.kind = "session" => c.from >= account'[c.e].pw \/ c.n \in slipped'
               /\ c.from >= done'[c.e] \/ c.n \in slipped'
    <3>1. account'[c.e].pw = account[c.e].pw
      BY <1>1, <1>2, <2>1, <2>2 DEF AccountsFollow
    <3>2. c.kind = "session" => c.from >= account'[c.e].pw \/ c.n \in slipped'
      BY <2>1, <2>2, <3>1 DEF Signed, SessionsFresh
    <3>3. d.from >= done[d.e] \/ d.n \in slipped
      BY DEF Signed, OldCredentialsEnd
    <3>4. CASE done'[c.e] \in {done[c.e], 0}
      <4>1. c.from >= done[c.e] \/ c.n \in slipped'
        BY <2>1, <2>2, <3>3
      <4>2. c.from >= done'[c.e] \/ c.n \in slipped'
        BY <1>2, <3>4, <4>1
      <4>. QED
        BY <3>2, <4>2
    <3>5. CASE c.kind = "session"
      BY <1>2, <3>2, <3>5
    <3>6. done'[c.e] \in {done[c.e], 0} \/ c.kind = "session"
      BY <1>2, <2>1 DEF DoneFollows
    <3>. QED
      BY <3>2, <3>4, <3>5, <3>6
  <2>3. ASSUME NEW c \in creds', account'[c.e] = account[c.e], c.from < account[c.e].pw => c.n \in slipped'
        PROVE  /\ c.kind = "session" => c.from >= account'[c.e].pw \/ c.n \in slipped'
               /\ c.from >= done'[c.e] \/ c.n \in slipped'
    BY <1>2, <2>3
  <2>. QED
    BY <2>1, <2>2, <2>3 DEF CredsFollow, Signed, SessionsFresh, OldCredentialsEnd
<1>4. ASSUME NEW p \in Procs, NEW e, NEW verified, WritesPassword(p, e, verified)
      PROVE  Signed'
  <2>1. /\ e \in Emails /\ verified \in BOOLEAN /\ setPassword(e, verified) /\ account[e] # None
        /\ account[e] \in AnAccount /\ UNCHANGED <<done, slipped>> /\ next \in Nat
        /\ \A c \in creds' : \/ c \in creds /\ (c.e = e => c.kind # "session")
                             \/ c.e = e /\ c.from = next
    BY <1>0, <1>4 DEF WritesPassword, TypedRows, history
  <2>2. account'[e].pw = next /\ \A x \in Emails \ {e} : account'[x] = account[x]
    BY <1>0, <2>1, PasswordWritten
  <2>3. ASSUME NEW c \in creds', c \in creds, c.e = e => c.kind # "session"
        PROVE  /\ c.kind = "session" => c.from >= account'[c.e].pw \/ c.n \in slipped'
               /\ c.from >= done'[c.e] \/ c.n \in slipped'
    BY <1>2, <2>1, <2>2, <2>3 DEF Signed, SessionsFresh, OldCredentialsEnd
  <2>4. ASSUME NEW c \in creds', c.e = e, c.from = next
        PROVE  /\ c.kind = "session" => c.from >= account'[c.e].pw \/ c.n \in slipped'
               /\ c.from >= done'[c.e] \/ c.n \in slipped'
    BY <1>2, <2>1, <2>2, <2>4
  <2>. QED
    BY <2>1, <2>3, <2>4 DEF Signed, SessionsFresh, OldCredentialsEnd
<1>. QED
  BY <1>3, <1>4 DEF Classified

----------------------------------------------------------------------------
(* Throttling *)

\* Every key has a number of free attempts.
LEMMA FreeAttempts ==
  ASSUME NEW k \in Keys
  PROVE  Free[k[1]] \in Nat
<1>1. k[1] \in {"email", "reset", "verify", "pwchange", "ip", "signup", "pair"}
  BY DEF Keys
<1>. QED
  BY <1>1, ThrottleAssumption

\* The requests in flight are a finite set.
LEMMA PendingCounts ==
  ASSUME NEW S \in SUBSET Procs, NEW T \in SUBSET S
  PROVE  /\ Cardinality(S) \in Nat /\ Cardinality(T) \in Nat /\ Cardinality(Procs) \in Nat
         /\ Cardinality(T) <= Cardinality(S) /\ Cardinality(S) <= Cardinality(Procs)
         /\ \A p \in S : p \notin T => Cardinality(T) + 1 <= Cardinality(S)
         /\ Cardinality(Procs) >= 1
<1>1. IsFiniteSet(Procs) /\ IsFiniteSet(S) /\ IsFiniteSet(T)
  BY ProcsAssumption, FS_Subset
<1>2. Cardinality(S) \in Nat /\ Cardinality(T) \in Nat /\ Cardinality(Procs) \in Nat
  BY <1>1, FS_CardinalityType
<1>3. Cardinality(T) <= Cardinality(S) /\ Cardinality(S) <= Cardinality(Procs)
  BY <1>1, FS_Subset
<1>4. ASSUME NEW p \in S, p \notin T
      PROVE  Cardinality(T) + 1 <= Cardinality(S)
  <2>1. T \subseteq S \ {p} /\ IsFiniteSet(S \ {p})
    BY <1>1, <1>4, FS_Subset
  <2>2. Cardinality(S \ {p}) = Cardinality(S) - 1
    BY <1>1, <1>4, FS_RemoveElement
  <2>3. Cardinality(T) <= Cardinality(S \ {p})
    BY <2>1, FS_Subset
  <2>. QED
    BY <1>2, <2>2, <2>3
<1>5. Cardinality(Procs) # 0
  BY <1>1, ProcsAssumption, FS_EmptySet
<1>. QED
  BY <1>2, <1>3, <1>4, <1>5

\* What a step does to one key: nothing, a hit, or a fresh start. A hit comes from a
\* request that was going to count, or from a call that finds the key free of delay.
LeavesKey(k) ==
  /\ tries'[k] = tries[k] /\ fails'[k] = fails[k] /\ (k \in hot' <=> k \in hot)
  /\ Pending(k)' \subseteq Pending(k) \/ k \notin hot
HitsKey(k) ==
  /\ tries'[k] = tries[k] + 1 /\ fails'[k] = fails[k] + 1
  /\ k \in hot' <=> (k \in hot \/ delayFor(k, fails[k] + 1))
  /\ \/ \E p \in Pending(k) : Pending(k)' \subseteq Pending(k) \ {p}
     \/ k \notin hot /\ Pending(k)' = {}
ResetsKey(k) == tries'[k] = 0 /\ fails'[k] \in {0, fails[k]}
KeyStep(k) == LeavesKey(k) \/ HitsKey(k) \/ ResetsKey(k)

TypedThrottle == hot \subseteq Keys /\ fails \in [Keys -> Nat] /\ tries \in [Keys -> Nat]

\* Such a step keeps the budget of the key.
LEMMA BudgetKept ==
  ASSUME Types, Throttled, TypedThrottle', NEW k \in Keys, KeyStep(k)
  PROVE  /\ tries'[k] <= fails'[k]
         /\ k \notin hot' => tries'[k] <= Free[k[1]]
         /\ tries'[k] + Cardinality(Pending(k)') <= Limit(k)
<1>1. PICK P \in SUBSET Procs, P1 \in SUBSET Procs : P = Pending(k) /\ P1 = Pending(k)'
  BY DEF Pending
<1>2. PICK n \in Nat, free \in Nat, t \in Nat, t1 \in Nat, f \in Nat, f1 \in Nat :
        /\ n = Cardinality(Procs) /\ free = Free[k[1]]
        /\ t = tries[k] /\ t1 = tries'[k] /\ f = fails[k] /\ f1 = fails'[k]
  BY PendingCounts, FreeAttempts DEF Types, TypedThrottle
<1>3. PICK c \in Nat, c1 \in Nat : c = Cardinality(P) /\ c1 = Cardinality(P1)
  BY PendingCounts
<1>4. c <= n /\ c1 <= n /\ n >= 1
  BY <1>2, <1>3, PendingCounts
<1>5. t <= f /\ (k \notin hot => t <= free) /\ t + c <= free + n
  BY <1>1, <1>2, <1>3 DEF Throttled, Limit
<1>6. t1 <= f1 /\ (k \notin hot' => t1 <= free) /\ t1 + c1 <= free + n
  <2>1. CASE LeavesKey(k)
    <3>1. t1 = t /\ f1 = f /\ (k \in hot' <=> k \in hot) /\ (P1 \subseteq P \/ k \notin hot)
      BY <1>1, <1>2, <2>1 DEF LeavesKey
    <3>2. P1 \subseteq P => c1 <= c
      BY <1>3, PendingCounts
    <3>. QED
      BY <1>4, <1>5, <3>1, <3>2
  <2>2. CASE HitsKey(k)
    <3>1. /\ t1 = t + 1 /\ f1 = f + 1
          /\ k \in hot' <=> (k \in hot \/ f + 1 > free)
          /\ (\E p \in P : P1 \subseteq P \ {p}) \/ (k \notin hot /\ P1 = {})
      BY <1>1, <1>2, <2>2 DEF HitsKey, delayFor
    <3>2. (\E p \in P : P1 \subseteq P \ {p}) => c1 + 1 <= c
      BY <1>3, PendingCounts
    <3>3. P1 = {} => c1 = 0
      BY <1>3, FS_EmptySet
    <3>. QED
      BY <1>4, <1>5, <3>1, <3>2, <3>3
  <2>3. CASE ResetsKey(k)
    <3>1. t1 = 0
      BY <1>2, <2>3 DEF ResetsKey
    <3>. QED
      BY <1>4, <3>1
  <2>. QED
    BY <2>1, <2>2, <2>3 DEF KeyStep
<1>. QED
  BY <1>1, <1>2, <1>3, <1>6 DEF Limit

\* A request that moves on will no longer count.
LEMMA NoLongerPending ==
  ASSUME Types, NEW p \in Procs, NEW r, req' = [req EXCEPT ![p] = r], r.op \notin {"failed", "signup"}, NEW k
  PROVE  Pending(k)' \subseteq Pending(k) \ {p}
<1>1. req'[p] = r /\ \A q \in Procs \ {p} : req'[q] = req[q]
  BY DEF Types
<1>. QED
  BY <1>1 DEF Pending, Hits

\* No step of a request makes it count later.
LEMMA StepsCountNoMore ==
  ASSUME Types, NEW p \in Procs, Step(p), NEW k
  PROVE  Pending(k)' \subseteq Pending(k) \ {p}
<1>1. ASSUME End(p) PROVE Pending(k)' \subseteq Pending(k) \ {p}
  BY <1>1, IdleWellFormed, NoLongerPending DEF End, Go
<1>2. ASSUME NEW r, Go(p, r), r.op \notin {"failed", "signup"} PROVE Pending(k)' \subseteq Pending(k) \ {p}
  BY <1>2, NoLongerPending DEF Go
<1>3. CASE \/ recordLoginFailure(p) \/ createCredential(p) \/ revokeAllApiTokens(p) \/ finishPassword(p)
           \/ sendVerificationEmail(p) \/ changeMemberRole(p) \/ removeWorkspaceMember(p) \/ sendInviteEmail(p)
           \/ sendPasswordResetEmail(p) \/ revokeInvites(p) \/ addWorkspaceMember(p) \/ joinWorkspaceFromInvite(p)
           \/ finishDeletion(p) \/ Crash(p)
  <2>1. End(p)
    BY <1>3 DEF recordLoginFailure, createCredential, revokeAllApiTokens, finishPassword,
     sendVerificationEmail, changeMemberRole, removeWorkspaceMember, sendInviteEmail, sendPasswordResetEmail,
     revokeInvites, addWorkspaceMember, joinWorkspaceFromInvite, finishDeletion, Crash
  <2>. QED
    BY <1>1, <2>1
<1>4. CASE clearProven(p)
  <2>1. PICK r : r = [op |-> "issue", e |-> req[p].e, id |-> req[p].id, kind |-> req[p].kind,
                      must |-> req[p].must, ws |-> None, from |-> req[p].from]
    OBVIOUS
  <2>2. Go(p, r) /\ r.op \notin {"failed", "signup"}
    BY <1>4, <2>1 DEF clearProven
  <2>. QED
    BY <1>2, <2>2
<1>5. CASE completePasswordReset(p) \/ changePassword(p)
  <2>1. End(p) \/ \E key : Go(p, [op |-> "finish", e |-> req[p].e, id |-> req[p].id, pw |-> next, key |-> key])
    BY <1>5 DEF completePasswordReset, changePassword
  <2>2. ASSUME NEW key, Go(p, [op |-> "finish", e |-> req[p].e, id |-> req[p].id, pw |-> next, key |-> key])
        PROVE  Pending(k)' \subseteq Pending(k) \ {p}
    <3>1. PICK r : r = [op |-> "finish", e |-> req[p].e, id |-> req[p].id, pw |-> next, key |-> key]
      OBVIOUS
    <3>. QED
      BY <1>2, <2>2, <3>1
  <2>. QED
    BY <1>1, <2>1, <2>2
<1>6. CASE createUserFromInvite(p)
  <2>1. PICK r : r = [op |-> "mint", e |-> req[p].e, id |-> next, kind |-> "session", must |-> FALSE,
                      ws |-> req[p].w, from |-> next]
    OBVIOUS
  <2>2. (Go(p, r) \/ End(p)) /\ r.op \notin {"failed", "signup"}
    BY <1>6, <2>1 DEF createUserFromInvite
  <2>. QED
    BY <1>1, <1>2, <2>2
<1>7. CASE eraseWorkspace(p)
  <2>1. PICK r : r = [op |-> "purge", e |-> req[p].e, id |-> req[p].id, todo |-> req[p].todo \ {req[p].w},
                      user |-> req[p].user]
    OBVIOUS
  <2>2. (Go(p, r) \/ End(p)) /\ r.op \notin {"failed", "signup"}
    BY <1>7, <2>1 DEF eraseWorkspace
  <2>. QED
    BY <1>1, <1>2, <2>2
<1>8. ASSUME NEW w \in Workspaces, createHostedWorkspaceWithOwner(p, w)
      PROVE  Pending(k)' \subseteq Pending(k) \ {p}
  <2>1. PICK r : r = IF req[p].google
                     THEN [op |-> "mint", e |-> req[p].e, id |-> next, kind |-> "session", must |-> FALSE,
                           ws |-> w, from |-> next]
                     ELSE [op |-> "mail", e |-> req[p].e, id |-> next]
    OBVIOUS
  <2>2. Go(p, r) \/ End(p)
    BY <1>8, <2>1 DEF createHostedWorkspaceWithOwner
  <2>3. r.op \notin {"failed", "signup"}
    BY <2>1
  <2>. QED
    BY <1>1, <1>2, <2>2, <2>3
<1>9. ASSUME NEW w \in Workspaces, purgeWorkspace(p, w)
      PROVE  Pending(k)' \subseteq Pending(k) \ {p}
  <2>1. PICK r : r = [op |-> "erase", e |-> req[p].e, id |-> req[p].id, todo |-> req[p].todo, user |-> req[p].user,
                      w |-> w, list |-> {<<x, account[x].id>> : x \in Members(w)}]
    OBVIOUS
  <2>2. (Go(p, r) \/ End(p)) /\ r.op \notin {"failed", "signup"}
    BY <1>9, <2>1 DEF purgeWorkspace
  <2>. QED
    BY <1>1, <1>2, <2>2
<1>. QED
  BY <1>3, <1>4, <1>5, <1>6, <1>7, <1>8, <1>9 DEF Step

\* A counted hit, key by key.
LEMMA HitCounts ==
  ASSUME TypedThrottle, NEW rules \in SUBSET Keys, recordThrottleHit(rules)
  PROVE  /\ TypedThrottle'
         /\ \A k \in Keys \ rules : tries'[k] = tries[k] /\ fails'[k] = fails[k] /\ (k \in hot' <=> k \in hot)
         /\ \A k \in rules : /\ tries'[k] = tries[k] + 1 /\ fails'[k] = fails[k] + 1
                             /\ k \in hot' <=> (k \in hot \/ delayFor(k, fails[k] + 1))
<1>1. hot' = hot \cup {k \in rules : delayFor(k, fails[k] + 1)}
  BY DEF recordThrottleHit
<1>2. /\ fails' = [k \in Keys |-> IF k \in rules THEN fails[k] + 1 ELSE fails[k]]
      /\ tries' = [k \in Keys |-> IF k \in rules THEN tries[k] + 1 ELSE tries[k]]
  BY DEF recordThrottleHit
<1>3. hot' \subseteq Keys
  BY <1>1 DEF TypedThrottle
<1>4. fails' \in [Keys -> Nat] /\ tries' \in [Keys -> Nat]
  BY <1>2 DEF TypedThrottle
<1>. QED
  BY <1>1, <1>2, <1>3, <1>4 DEF TypedThrottle

\* Keys that are cleared, but for those of addresses.
LEMMA ClearedKeys ==
  ASSUME TypedThrottle, NEW rules \in SUBSET Keys, \A k \in rules : k[1] # "ip", clearThrottleKeys(rules)
  PROVE  /\ TypedThrottle'
         /\ \A k \in Keys \ rules : tries'[k] = tries[k] /\ fails'[k] = fails[k] /\ (k \in hot' <=> k \in hot)
         /\ \A k \in rules : ResetsKey(k)
<1>1. hot' = hot \ rules
  BY DEF clearThrottleKeys
<1>2. /\ fails' = [k \in Keys |-> IF k \in rules THEN 0 ELSE fails[k]]
      /\ tries' = [k \in Keys |-> IF k \in rules THEN 0 ELSE tries[k]]
  BY DEF clearThrottleKeys
<1>3. hot' \subseteq Keys
  BY <1>1 DEF TypedThrottle
<1>4. fails' \in [Keys -> Nat] /\ tries' \in [Keys -> Nat]
  BY <1>2 DEF TypedThrottle
<1>. QED
  BY <1>1, <1>2, <1>3, <1>4 DEF TypedThrottle, ResetsKey

\* The keys of a sign-in and of a registration.
LEMMA RuleKeys ==
  ASSUME NEW e \in Emails, NEW a \in Addresses
  PROVE  /\ loginRules(e, a) \subseteq Keys /\ clearLoginFailures(e, a) \subseteq Keys
         /\ \A k \in clearLoginFailures(e, a) : k[1] # "ip"
         /\ {<<"signup", a>>} \subseteq Keys
BY DEF loginRules, clearLoginFailures, Keys

\* What the steps of a request do to the keys.
LEMMA StepsThrottle ==
  ASSUME Types, NEW p \in Procs, Step(p)
  PROVE  TypedThrottle' /\ \A k \in Keys : KeyStep(k)
<1>0. TypedThrottle /\ WellFormed(req[p])
  BY DEF Types, TypedThrottle
<1>1. \A k \in Keys : Pending(k)' \subseteq Pending(k) \ {p}
  BY StepsCountNoMore
<1>2. ASSUME UNCHANGED throttle
      PROVE  TypedThrottle' /\ \A k \in Keys : KeyStep(k)
  <2>1. TypedThrottle'
    BY <1>0, <1>2 DEF TypedThrottle, throttle
  <2>2. \A k \in Keys : LeavesKey(k)
    BY <1>1, <1>2 DEF LeavesKey, throttle
  <2>. QED
    BY <2>1, <2>2 DEF KeyStep
<1>3. ASSUME NEW rules \in SUBSET Keys, recordThrottleHit(rules), \A k \in rules : p \in Pending(k)
      PROVE  TypedThrottle' /\ \A k \in Keys : KeyStep(k)
  <2>1. ASSUME NEW k \in rules PROVE HitsKey(k)
    BY <1>0, <1>1, <1>3, HitCounts DEF HitsKey
  <2>2. ASSUME NEW k \in Keys \ rules PROVE LeavesKey(k)
    BY <1>0, <1>1, <1>3, HitCounts DEF LeavesKey
  <2>. QED
    BY <1>0, <1>3, <2>1, <2>2, HitCounts DEF KeyStep
<1>4. ASSUME NEW rules \in SUBSET Keys, clearThrottleKeys(rules), \A k \in rules : k[1] # "ip"
      PROVE  TypedThrottle' /\ \A k \in Keys : KeyStep(k)
  <2>1. ASSUME NEW k \in Keys \ rules PROVE LeavesKey(k)
    BY <1>0, <1>1, <1>4, ClearedKeys DEF LeavesKey
  <2>. QED
    BY <1>0, <1>4, <2>1, ClearedKeys DEF KeyStep
<1>5. CASE recordLoginFailure(p)
  <2>1. req[p].op = "failed" /\ recordThrottleHit(loginRules(req[p].e, req[p].a))
    BY <1>5 DEF recordLoginFailure, At
  <2>2. req[p].e \in Emails /\ req[p].a \in Addresses
    BY <1>0, <2>1 DEF WellFormed
  <2>3. \A k \in loginRules(req[p].e, req[p].a) : p \in Pending(k)
    BY <2>1 DEF Pending, Hits
  <2>. QED
    BY <1>3, <2>1, <2>2, <2>3, RuleKeys
<1>6. CASE clearProven(p)
  <2>1. req[p].op = "proven" /\ clearThrottleKeys(clearLoginFailures(req[p].e, req[p].a))
    BY <1>6 DEF clearProven, At
  <2>2. req[p].e \in Emails /\ req[p].a \in Addresses
    BY <1>0, <2>1 DEF WellFormed
  <2>. QED
    BY <1>4, <2>1, <2>2, RuleKeys
<1>7. CASE finishPassword(p)
  <2>1. req[p].op = "finish" /\ clearThrottleKeys({req[p].key})
    BY <1>7 DEF finishPassword, At
  <2>2. req[p].e \in Emails /\ req[p].key \in {<<"email", req[p].e>>, <<"pwchange", req[p].e>>}
    BY <1>0, <2>1 DEF WellFormed
  <2>3. {req[p].key} \subseteq Keys
    BY <2>2 DEF Keys
  <2>4. req[p].key[1] \in {"email", "pwchange"}
    BY <2>2
  <2>. QED
    BY <1>4, <2>1, <2>3, <2>4
<1>8. ASSUME NEW w \in Workspaces, createHostedWorkspaceWithOwner(p, w)
      PROVE  TypedThrottle' /\ \A k \in Keys : KeyStep(k)
  <2>1. req[p].op = "signup" /\ recordThrottleHit({<<"signup", req[p].a>>})
    BY <1>8 DEF createHostedWorkspaceWithOwner, At
  <2>2. req[p].e \in Emails /\ req[p].a \in Addresses
    BY <1>0, <2>1 DEF WellFormed
  <2>3. \A k \in {<<"signup", req[p].a>>} : p \in Pending(k)
    BY <2>1 DEF Pending, Hits
  <2>. QED
    BY <1>3, <2>1, <2>2, <2>3, RuleKeys
<1>9. CASE \/ createCredential(p) \/ revokeAllApiTokens(p) \/ completePasswordReset(p) \/ changePassword(p)
           \/ sendVerificationEmail(p) \/ changeMemberRole(p) \/ removeWorkspaceMember(p) \/ sendInviteEmail(p)
           \/ sendPasswordResetEmail(p) \/ revokeInvites(p) \/ addWorkspaceMember(p) \/ joinWorkspaceFromInvite(p)
           \/ createUserFromInvite(p) \/ eraseWorkspace(p) \/ finishDeletion(p) \/ Crash(p)
           \/ \E w \in Workspaces : purgeWorkspace(p, w)
  <2>1. UNCHANGED throttle
    BY <1>9 DEF createCredential, revokeAllApiTokens, completePasswordReset, changePassword, sendVerificationEmail,
       changeMemberRole, removeWorkspaceMember, sendInviteEmail, sendPasswordResetEmail, revokeInvites,
       addWorkspaceMember, joinWorkspaceFromInvite, createUserFromInvite, eraseWorkspace, finishDeletion, Crash,
       purgeWorkspace
  <2>. QED
    BY <1>2, <2>1
<1>. QED
  BY <1>5, <1>6, <1>7, <1>8, <1>9 DEF Step

\* A call that counts at once: nothing in flight counts against its key.
LEMMA CountedAtOnce ==
  ASSUME Types, NEW k \in Keys, CountsAtOnce(k)
  PROVE  TypedThrottle' /\ \A j \in Keys : KeyStep(j)
<1>0. TypedThrottle
  BY DEF Types, TypedThrottle
<1>1. recordThrottleHit({k}) /\ req' = req /\ k \notin hot /\ k[1] \in {"reset", "verify", "pwchange"}
  BY DEF CountsAtOnce, Once
<1>2. \A j : Pending(j)' = Pending(j)
  BY <1>1 DEF Pending
<1>3. Pending(k) = {}
  <2>1. ASSUME NEW e, NEW a PROVE k \notin loginRules(e, a) /\ k # <<"signup", a>>
    BY <1>1 DEF loginRules
  <2>. QED
    BY <2>1 DEF Pending, Hits
<1>4. HitsKey(k)
  BY <1>0, <1>1, <1>2, <1>3, HitCounts DEF HitsKey
<1>5. ASSUME NEW j \in Keys \ {k} PROVE LeavesKey(j)
  BY <1>0, <1>1, <1>2, HitCounts DEF LeavesKey
<1>. QED
  BY <1>0, <1>1, <1>4, <1>5, HitCounts DEF KeyStep

\* Every step, key by key.
LEMMA KeySteps ==
  ASSUME Types, [Next]_vars
  PROVE  TypedThrottle' /\ \A k \in Keys : KeyStep(k)
<1>0. TypedThrottle /\ conf.mail \subseteq Emails
  BY ScenesAssumption DEF Types, TypedThrottle
<1>1. ASSUME UNCHANGED throttle, req' = req
      PROVE  TypedThrottle' /\ \A k \in Keys : KeyStep(k)
  <2>1. TypedThrottle'
    BY <1>0, <1>1 DEF TypedThrottle, throttle
  <2>2. \A k \in Keys : Pending(k)' = Pending(k)
    BY <1>1 DEF Pending
  <2>3. \A k \in Keys : LeavesKey(k)
    BY <1>1, <2>2 DEF LeavesKey, throttle
  <2>. QED
    BY <2>1, <2>3 DEF KeyStep
<1>2. CASE UNCHANGED vars
  BY <1>1, <1>2 DEF vars, throttle
<1>3. ASSUME NEW p \in Procs, NEW r, Starts(p, r)
      PROVE  TypedThrottle' /\ \A k \in Keys : KeyStep(k)
  <2>1. UNCHANGED throttle /\ req' = [req EXCEPT ![p] = r] /\ \A k \in Keys : Hits(r, k) => k \notin hot
    BY <1>3 DEF Starts, Start
  <2>2. TypedThrottle'
    BY <1>0, <2>1 DEF TypedThrottle, throttle
  <2>3. req'[p] = r /\ \A q \in Procs \ {p} : req'[q] = req[q]
    BY <2>1 DEF Types
  <2>4. \A k \in Keys : k \in hot => Pending(k)' \subseteq Pending(k)
    BY <2>1, <2>3 DEF Pending
  <2>5. \A k \in Keys : LeavesKey(k)
    BY <2>1, <2>4 DEF LeavesKey, throttle
  <2>. QED
    BY <2>2, <2>5 DEF KeyStep
<1>4. ASSUME NEW p \in Procs, Begin(p)
      PROVE  TypedThrottle' /\ \A k \in Keys : KeyStep(k)
  <2>1. ASSUME NEW k, CountsAtOnce(k)
        PROVE  TypedThrottle' /\ \A j \in Keys : KeyStep(j)
    BY <2>1, CountedAtOnce DEF CountsAtOnce
  <2>. QED
    BY <1>3, <1>4, <2>1, Beginnings
<1>5. ASSUME NEW p \in Procs, Step(p)
      PROVE  TypedThrottle' /\ \A k \in Keys : KeyStep(k)
  BY <1>5, StepsThrottle
<1>6. ASSUME NEW e \in conf.mail, requestPasswordReset(e)
      PROVE  TypedThrottle' /\ \A k \in Keys : KeyStep(k)
  <2>1. <<"reset", e>> \in Keys /\ <<"reset", e>>[1] = "reset"
    BY <1>0 DEF Keys
  <2>2. CountsAtOnce(<<"reset", e>>)
    BY <1>6, <2>1 DEF requestPasswordReset, CountsAtOnce, throttleStatus
  <2>. QED
    BY <2>1, <2>2, CountedAtOnce
<1>7. ASSUME NEW e \in conf.mail, resendVerification(e)
      PROVE  TypedThrottle' /\ \A k \in Keys : KeyStep(k)
  <2>1. <<"verify", e>> \in Keys /\ <<"verify", e>>[1] = "verify"
    BY <1>0 DEF Keys
  <2>2. CountsAtOnce(<<"verify", e>>)
    BY <1>7, <2>1 DEF resendVerification, CountsAtOnce, throttleStatus
  <2>. QED
    BY <2>1, <2>2, CountedAtOnce
<1>8. CASE \/ \E e \in conf.mail, w \in Workspaces : createGoogleExtensionCode(e, w)
           \/ \E l \in links : completeEmailVerification(l)
           \/ \E c \in creds : \/ logout(c) \/ logoutRoute(c) \/ createDesktopConnectCode(c)
                               \/ \E w \in Workspaces : switchWorkspace(c, w)
  BY <1>1, <1>8 DEF createGoogleExtensionCode, completeEmailVerification, logout, logoutRoute, DropCredential,
     createDesktopConnectCode, switchWorkspace, Once
<1>9. ASSUME NEW k \in Keys, DelayElapses(k)
      PROVE  TypedThrottle' /\ \A j \in Keys : KeyStep(j)
  <2>1. hot' = hot \ {k} /\ tries' = [tries EXCEPT ![k] = 0] /\ req' = req /\ fails' = fails
    BY <1>9 DEF DelayElapses
  <2>2. TypedThrottle'
    BY <1>0, <2>1 DEF TypedThrottle
  <2>3. \A j \in Keys : Pending(j)' = Pending(j)
    BY <2>1 DEF Pending
  <2>4. ResetsKey(k)
    BY <1>0, <2>1 DEF ResetsKey, TypedThrottle
  <2>5. \A j \in Keys \ {k} : LeavesKey(j)
    BY <1>0, <2>1, <2>3 DEF LeavesKey, TypedThrottle
  <2>. QED
    BY <2>2, <2>4, <2>5 DEF KeyStep
<1>. QED
  BY <1>2, <1>4, <1>5, <1>6, <1>7, <1>8, <1>9 DEF Next

----------------------------------------------------------------------------
(* The theorems *)

\* A scene begins with sound rows, no request in flight and no hit counted.
LEMMA Initially == Init => Inv
<1> SUFFICES ASSUME Init PROVE Inv
  OBVIOUS
<1> USE DEF Init
<1>1. /\ DOMAIN conf.users \subseteq Emails /\ conf.calls \in Nat
      /\ \A e \in DOMAIN conf.users : conf.users[e] \in [Workspaces -> Roles]
                                        /\ \E w \in Workspaces : conf.users[e][w] # "none"
      /\ \A w \in Workspaces : (\E e \in DOMAIN conf.users : conf.users[e][w] # "none")
                                 => \E e \in DOMAIN conf.users : conf.users[e][w] = "owner"
  BY ScenesAssumption
<1>2. \A e \in Emails : account[e] = IF e \in DOMAIN conf.users
        THEN [id |-> 0, pw |-> 0, verified |-> TRUE, must |-> FALSE, prov |-> FALSE] ELSE None
  OBVIOUS
<1>3. \A e \in DOMAIN conf.users : account[e] \in AnAccount /\ account[e] # None /\ account[e].id = 0 /\ account[e].pw = 0
  BY <1>1, <1>2, RowsAreSome DEF AnAccount
<1>4. \A e \in Emails, w \in Workspaces : member[e][w] = IF e \in DOMAIN conf.users THEN conf.users[e][w] ELSE "none"
  OBVIOUS
<1>5. member \in [Emails -> [Workspaces -> Roles]]
  BY <1>1 DEF Roles
<1>6. account \in [Emails -> AnAccount \cup {None}]
  BY <1>1, <1>3
<1>7. creds \subseteq ACredential
  BY <1>1 DEF ACredential, CredentialKinds
<1>8. \A c \in creds : c.e \in DOMAIN conf.users /\ c.from = 0
  OBVIOUS
<1>9. Types
  <2>1. DOMAIN req = Procs /\ \A p \in Procs : WellFormed(req[p])
    BY IdleWellFormed
  <2>2. fails \in [Keys -> Nat] /\ tries \in [Keys -> Nat] /\ hot \subseteq Keys
    OBVIOUS
  <2>3. done \in [Emails -> Nat] /\ left \in Nat /\ next \in Nat /\ links \subseteq ALink /\ workspaces \subseteq Workspaces
    BY <1>1
  <2>4. conf \in Scenes /\ \A l \in links : l.kind = "invite" => l.ws \in Workspaces
    OBVIOUS
  <2>. QED
    BY <1>5, <1>6, <1>7, <2>1, <2>2, <2>3, <2>4 DEF Types
<1>10. Rows
  <2>1. Owned
    BY <1>1, <1>4 DEF Owned, Owners
  <2>2. Housed
    <3>1. SUFFICES ASSUME NEW e \in Emails, account[e] # None
                   PROVE  \E w \in workspaces : member[e][w] # "none"
      BY DEF Housed, Belongs
    <3>2. e \in DOMAIN conf.users
      BY <1>2, <3>1
    <3>3. PICK w \in Workspaces : conf.users[e][w] # "none"
      BY <1>1, <3>2
    <3>. QED
      BY <1>4, <3>2, <3>3
  <2>3. MembersExist
    <3>1. SUFFICES ASSUME NEW e \in Emails, NEW w \in Workspaces, member[e][w] # "none"
                   PROVE  account[e] # None /\ w \in workspaces
      BY DEF MembersExist
    <3>2. e \in DOMAIN conf.users /\ conf.users[e][w] # "none"
      BY <1>4, <3>1
    <3>. QED
      BY <1>3, <3>2
  <2>4. HoldersExist /\ LinksExist
    BY <1>3, <1>8 DEF HoldersExist, LinksExist
  <2>. QED
    BY <2>1, <2>2, <2>3, <2>4 DEF Rows
<1>11. Numbered
  <2>1. \A e \in Emails : done[e] = 0 /\ next = 1
    OBVIOUS
  <2>2. \A e \in Emails : account[e] # None => account[e].id = 0 /\ account[e].pw = 0
    BY <1>2, <1>3
  <2>3. \A p \in Procs : req[p].op # "finish"
    BY IdleWellFormed
  <2>. QED
    BY <2>1, <2>2, <2>3 DEF Numbered
<1>12. Signed
  <2>1. SUFFICES ASSUME NEW c \in creds
                 PROVE  c.from >= account[c.e].pw /\ c.from >= done[c.e]
    BY DEF Signed, SessionsFresh, OldCredentialsEnd
  <2>2. c.e \in Emails /\ account[c.e].pw = 0 /\ c.from = 0
    BY <1>1, <1>3, <1>8
  <2>. QED
    BY <2>2
<1>13. Throttled
  <2>1. SUFFICES ASSUME NEW k \in Keys
                 PROVE  /\ tries[k] <= fails[k] /\ tries[k] <= Free[k[1]]
                        /\ tries[k] + Cardinality(Pending(k)) <= Limit(k)
    BY DEF Throttled
  <2>2. tries[k] = 0 /\ fails[k] = 0 /\ Free[k[1]] \in Nat
    BY FreeAttempts
  <2>3. Pending(k) = {}
    BY IdleWellFormed DEF Pending, Hits
  <2>4. Cardinality(Pending(k)) = 0 /\ Cardinality(Procs) \in Nat
    BY <2>3, FS_EmptySet, PendingCounts
  <2>. QED
    BY <2>2, <2>4 DEF Limit
<1>. QED
  BY <1>9, <1>10, <1>11, <1>12, <1>13 DEF Inv

\* Every step keeps the invariant.
LEMMA Inductive ==
  ASSUME Inv, [Next]_vars
  PROVE  Inv'
<1>1. Types /\ Rows /\ Numbered /\ Signed /\ Throttled
  BY DEF Inv
<1>2. InFlight /\ Classified
  BY <1>1, Steps
<1>3. TypedRows' /\ Rows' /\ Numbered' /\ Signed'
  BY <1>1, <1>2, RowTypes, RowsKept, NumbersKept, SignedKept
<1>4. TypedThrottle' /\ \A k \in Keys : KeyStep(k)
  BY <1>1, KeySteps
<1>5. Throttled'
  BY <1>1, <1>4, BudgetKept DEF Throttled, Limit
<1>6. Types'
  BY <1>1, <1>2, <1>3, <1>4 DEF Types, TypedRows, TypedThrottle, InFlight
<1>. QED
  BY <1>3, <1>5, <1>6 DEF Inv

\* The invariant holds in every state.
THEOREM AccountsAreSound == Spec => []Inv
<1>1. Inv /\ UNCHANGED vars => Inv'
  BY Inductive
<1>2. Inv /\ Next => Inv'
  BY Inductive
<1>. QED
  BY <1>1, <1>2, Initially, PTL DEF Spec

\* In every state every workspace has an owner and every account a workspace, but for
\* what the two out-of-date readings of the deletions leave, and every membership,
\* session, token and link refers to rows that are there, whatever promotions,
\* removals, invitations and deletions run at once (lockOwners in workspaces.ts,
\* deleteAccount, purgeWorkspace).
THEOREM EveryWorkspaceHasAnOwner == Spec => []OwnersKept
<1>1. Inv => OwnersKept
  <2>1. SUFFICES ASSUME Inv PROVE OwnersKept
    OBVIOUS
  <2>2. TypeOK
    BY <2>1 DEF Inv, Types, TypeOK, ACredential, CredentialKinds
  <2>. QED
    BY <2>1, <2>2 DEF Inv, Rows, Owned, Housed, MembersExist, HoldersExist, LinksExist, OwnersKept
<1>. QED
  BY <1>1, AccountsAreSound, PTL

\* When a change or reset of a password has finished, every session and token rests on
\* it or on a later one, but for those written on a check made before the password was
\* (completePasswordReset, changePassword, revokeAllApiTokens).
THEOREM OldPasswordsEnd == Spec => []OldCredentialsEnd
<1>1. Inv => OldCredentialsEnd
  BY DEF Inv, Signed
<1>. QED
  BY <1>1, AccountsAreSound, PTL

\* No key is tried more often than its free attempts and once more by every request in
\* flight, until its delay has run out or a password was right (loginThrottle.ts).
THEOREM GuessesAreFew == Spec => []GuessesBounded
<1>1. Inv => GuessesBounded
  <2>1. SUFFICES ASSUME Inv, NEW k \in Keys
                 PROVE  tries[k] <= Free[k[1]] + Cardinality(Procs)
    BY DEF GuessesBounded
  <2>2. tries[k] + Cardinality(Pending(k)) <= Limit(k) /\ tries[k] \in Nat
    BY <2>1 DEF Inv, Throttled, Types
  <2>3. Cardinality(Pending(k)) \in Nat /\ Cardinality(Procs) \in Nat
    BY PendingCounts DEF Pending
  <2>. QED
    BY <2>2, <2>3, FreeAttempts DEF Limit
<1>. QED
  BY <1>1, AccountsAreSound, PTL

-----------------------------------------------------------------------------
(* Billing: the invariant *)

EventTypes == {"subscription", "payment_failed", "deleted", "dispute", "expired"}
Reports == {"subscription", "payment_failed", "deleted"}
Created(s) == session[s].st # "none"
Started(s) == sub[s].status # "inactive"

\* Webhooks that have not been applied
Coming == events \ seen

StripeTyped ==
    /\ session \in [Checkouts -> [st : {"none", "open", "expired", "complete"}, at : 0 .. MaxTime, no : Nat]]
    /\ sub \in [Checkouts -> [status : Statuses, at : 0 .. MaxTime]]
    /\ events \subseteq [of : Checkouts, type : EventTypes, status : Statuses \cup {"none"}, at : 0 .. MaxTime]
    /\ seen \subseteq {e \in events : e.type # "dispute"}
    /\ now \in 0 .. MaxTime
    /\ loose \in BOOLEAN

\* A webhook tells what happened, at the second it happened
Truthful(e) ==
    /\ e.at <= now
    /\ e.type = "expired" => session[e.of].st = "expired"
    /\ e.type # "expired" => Started(e.of)
    /\ e.type \in {"expired", "dispute", "payment_failed"} => e.status = "none"
    /\ e.type \in Reports => e.at <= sub[e.of].at
    /\ (e.type = "payment_failed" /\ e.at = sub[e.of].at) => sub[e.of].status \in {"past_due", "canceled"}
    /\ e.type = "deleted" => e.status = "canceled"
    /\ e.type = "subscription" => e.status \in {"active", "past_due", "incomplete", "incomplete_expired"}
    /\ e.status \in TerminalStatuses => sub[e.of].status = e.status /\ e.at = sub[e.of].at
    /\ (e.type = "subscription" /\ e.status # "incomplete") => sub[e.of].status # "incomplete"
    /\ (e.type = "subscription" /\ e.at = sub[e.of].at /\ Live(e.of)) => e.status = sub[e.of].status

StripeSound ==
    /\ \A s \in Checkouts : /\ session[s].st = "complete" <=> Started(s)
                            /\ sub[s].at <= now
    /\ \A e \in events : Truthful(e)

\* Sessions that anything refers to exist
Known ==
    /\ row.session # 0 => Created(row.session)
    /\ \A o \in Buyers :
          /\ attempt[o].sid # 0 => Created(attempt[o].sid)
          /\ attempt[o].pc \in {"look", "expire", "release", "store"} => attempt[o].sid # 0
          /\ attempt[o].pc = "release" => session[attempt[o].sid].st = "expired"

Pays(s) == session[s].st = "open" \/ Live(s) \/ sub[s].status = "incomplete"
EndComing(s) == \E e \in Coming : e.of = s /\ e.status \in TerminalStatuses
Unsettled(s) == Pays(s) \/ EndComing(s)

\* Each claim has its own number and at most one session
Numbers ==
    /\ \A s \in Checkouts : Created(s) => session[s].no <= row.no
    /\ \A s, t \in Checkouts : Created(s) /\ Created(t) /\ session[s].no = session[t].no => s = t
    /\ \A o \in Buyers : attempt[o].no <= row.no

Guarded ==
    /\ \A s \in Checkouts : Unsettled(s) =>
          \/ row.claim >= 0 /\ session[s].no = row.no
          \/ HasLiveSubscription /\ row.sub = s
    /\ row.claim >= 0 => ~HasLiveSubscription

PostsAlone ==
    \A o \in Buyers : attempt[o].pc = "post" =>
        /\ row.claim >= 0 /\ attempt[o].no = row.no
        /\ \A s \in Checkouts : Created(s) => session[s].no # row.no
        /\ \A p \in Buyers : attempt[p].pc = "post" => p = o

StoresOwn ==
    \A o \in Buyers : attempt[o].pc = "store" =>
        /\ session[attempt[o].sid].no = attempt[o].no
        /\ row.session # attempt[o].sid
        /\ \A p \in Buyers : p # o => attempt[p].sid # attempt[o].sid
        /\ attempt[o].no = row.no /\ row.claim < 0 => session[attempt[o].sid].st = "complete"

SessionOfClaim ==
    row.session # 0 =>
        \/ session[row.session].st = "complete"
        \/ /\ row.claim >= 0
           /\ \/ session[row.session].no = row.no
              \/ \A e \in Coming : e.type = "expired" => e.of # row.session

RowOfSubscription ==
    /\ row.status # "incomplete"
    /\ row.sub = 0 => row.last = -1
    /\ row.sub # 0 => /\ Started(row.sub) /\ sub[row.sub].status # "incomplete"
                      /\ row.last <= sub[row.sub].at
                      /\ HasLiveSubscription <=> Unsettled(row.sub)

\* What is not settled is later than the row; what is settled cannot change the row
LaterThanRow ==
    \A e \in Coming : e.type \in Reports =>
        /\ Unsettled(e.of) /\ row.sub # e.of => row.last < e.at
        /\ ~Unsettled(e.of) => e.at <= row.last /\ (row.sub # e.of => e.at < row.last)

LaterSubs == \A s \in Checkouts : Started(s) /\ row.sub # s /\ Unsettled(s) => row.last < sub[s].at

Harmless(s, e) ==
    \/ e.type \in {"expired", "dispute"} \/ e.status \in {sub[s].status, "incomplete"}
    \/ e.type = "payment_failed" /\ sub[s].status = "past_due"

HarmlessFrom(s, t) == \A e \in Coming : e.of = s /\ e.at >= t => Harmless(s, e)

UpToDate(s) == row.sub = s /\ row.status = sub[s].status /\ HarmlessFrom(s, row.last)

NewsOf(s, e) ==
    /\ e.of = s /\ e.type = "subscription" /\ e.status = sub[s].status
    /\ row.sub = s => row.last <= e.at
    /\ HarmlessFrom(s, e.at)

RowFollows == \A s \in Checkouts : Live(s) => UpToDate(s) \/ \E e \in Coming : NewsOf(s, e)

ClosedWhenDeleting ==
    ws # "live" => /\ \A s \in Checkouts : ~Pays(s)
                   /\ \A o \in Buyers : attempt[o].pc # "post"

RowSound ==
    /\ Numbers /\ Guarded /\ PostsAlone /\ StoresOwn /\ SessionOfClaim
    /\ RowOfSubscription /\ LaterThanRow /\ LaterSubs /\ RowFollows

BillingInv ==
    /\ BillingTypeOK /\ StripeTyped /\ StripeSound /\ Known
    /\ ~loose => ClosedWhenDeleting /\ (ws # "gone" => RowSound)

Typed == BillingTypeOK /\ StripeTyped

-----------------------------------------------------------------------------

\* The bounds are numbers.
LEMMA BillingBounds == MaxTime \in Nat /\ Grace \in Nat /\ MaxSessions \in Nat /\ 0 \notin Checkouts /\ Checkouts \subseteq Nat
BY BillingAssumption DEF BillingAssumption, Checkouts

\* A webhook that Stripe makes is one of the webhooks there are.
LEMMA EventTyped ==
    ASSUME Typed, NEW s \in Checkouts, NEW type \in EventTypes, NEW status \in Statuses \cup {"none"}
    PROVE  Event(s, type, status) \in [of : Checkouts, type : EventTypes, status : Statuses \cup {"none"}, at : 0 .. MaxTime]
BY DEF Event, Typed, StripeTyped

\* What changes a subscription keeps Stripe's side typed.
LEMMA ChangeTyped ==
    ASSUME Typed, NEW s \in Checkouts, NEW status \in Statuses, NEW new, Change(s, status, new),
           new \subseteq [of : Checkouts, type : EventTypes, status : Statuses \cup {"none"}, at : 0 .. MaxTime],
           session' \in [Checkouts -> [st : {"none", "open", "expired", "complete"}, at : 0 .. MaxTime, no : Nat]],
           row' = row, attempt' = attempt, seen' = seen, now' = now, loose' \in BOOLEAN, ws' \in {"live", "deleting", "gone"}
    PROVE  Typed'
<1>1. sub' \in [Checkouts -> [status : Statuses, at : 0 .. MaxTime]]
  BY DEF Change, Typed, StripeTyped
<1> QED
  BY <1>1 DEF Change, Typed, StripeTyped, BillingTypeOK

\* What happens at Stripe keeps the types.
LEMMA StripeTypes ==
    ASSUME Typed, NEW s \in Checkouts,
           \/ PaymentFails(s) \/ CancelInPortal(s) \/ DisputeOpened(s) \/ SessionTimesOut(s)
           \/ \E ok \in BOOLEAN : PaymentRetried(s, ok)
           \/ \E status \in {"active", "incomplete"} : Pay(s, status)
           \/ \E status \in {"active", "incomplete_expired"} : Settle(s, status)
    PROVE  Typed'
<1> DEFINE E(type, status) == Event(s, type, status)
<1>0. /\ {"active", "past_due", "canceled", "incomplete", "incomplete_expired"} \subseteq Statuses
      /\ {"subscription", "payment_failed", "deleted", "dispute", "expired"} \subseteq EventTypes
  BY DEF Statuses, TerminalStatuses, EventTypes
<1>t. \A type \in EventTypes, status \in Statuses \cup {"none"} :
          Event(s, type, status) \in [of : Checkouts, type : EventTypes, status : Statuses \cup {"none"}, at : 0 .. MaxTime]
  BY EventTyped
<1>u. Typed => /\ session \in [Checkouts -> [st : {"none", "open", "expired", "complete"}, at : 0 .. MaxTime, no : Nat]]
               /\ loose \in BOOLEAN /\ ws \in {"live", "deleting", "gone"}
  BY DEF Typed, StripeTyped, BillingTypeOK
<1>1. CASE PaymentFails(s)
  <2>1. {Event(s, "payment_failed", "none"), Event(s, "subscription", "past_due")} \subseteq [of : Checkouts, type : EventTypes, status : Statuses \cup {"none"}, at : 0 .. MaxTime]
    BY <1>0, <1>t
  <2> QED
    BY <1>1, <1>0, <1>u, <2>1, ChangeTyped DEF PaymentFails
<1>2. CASE CancelInPortal(s)
  <2>1. {Event(s, "deleted", "canceled")} \subseteq [of : Checkouts, type : EventTypes, status : Statuses \cup {"none"}, at : 0 .. MaxTime]
    BY <1>0, <1>t
  <2> QED
    BY <1>2, <1>0, <1>u, <2>1, ChangeTyped DEF CancelInPortal
<1>3. CASE DisputeOpened(s)
  <2>1. events' \subseteq [of : Checkouts, type : EventTypes, status : Statuses \cup {"none"}, at : 0 .. MaxTime]
    BY <1>0, <1>t, <1>3 DEF DisputeOpened, Typed, StripeTyped
  <2> QED
    BY <1>3, <2>1 DEF DisputeOpened, Typed, StripeTyped, BillingTypeOK
<1>4. CASE SessionTimesOut(s)
  <2>1. events' \subseteq [of : Checkouts, type : EventTypes, status : Statuses \cup {"none"}, at : 0 .. MaxTime]
    BY <1>0, <1>t, <1>4 DEF SessionTimesOut, Typed, StripeTyped
  <2>2. session' \in [Checkouts -> [st : {"none", "open", "expired", "complete"}, at : 0 .. MaxTime, no : Nat]]
    BY <1>4 DEF SessionTimesOut, Typed, StripeTyped
  <2> QED
    BY <1>4, <2>1, <2>2 DEF SessionTimesOut, Typed, StripeTyped, BillingTypeOK
<1>5. ASSUME NEW ok \in BOOLEAN, PaymentRetried(s, ok) PROVE Typed'
  <2>1. /\ {Event(s, "payment_failed", "none")} \subseteq [of : Checkouts, type : EventTypes, status : Statuses \cup {"none"}, at : 0 .. MaxTime]
        /\ {Event(s, "subscription", "active")} \subseteq [of : Checkouts, type : EventTypes, status : Statuses \cup {"none"}, at : 0 .. MaxTime]
    BY <1>0, <1>t
  <2>2. CASE ok
    BY <1>5, <1>0, <1>u, <2>1, <2>2, ChangeTyped DEF PaymentRetried
  <2>3. CASE ~ok
    BY <1>5, <1>0, <1>u, <2>1, <2>3, ChangeTyped DEF PaymentRetried
  <2> QED
    BY <2>2, <2>3
<1>6. ASSUME NEW status \in {"active", "incomplete"}, Pay(s, status) PROVE Typed'
  <2>1. {Event(s, "subscription", status)} \subseteq [of : Checkouts, type : EventTypes, status : Statuses \cup {"none"}, at : 0 .. MaxTime]
    BY <1>0, <1>t
  <2>2. session' \in [Checkouts -> [st : {"none", "open", "expired", "complete"}, at : 0 .. MaxTime, no : Nat]]
    BY <1>6 DEF Pay, Typed, StripeTyped
  <2> QED
    BY <1>6, <1>0, <1>u, <2>1, <2>2, ChangeTyped DEF Pay
<1>7. ASSUME NEW status \in {"active", "incomplete_expired"}, Settle(s, status) PROVE Typed'
  <2>1. {Event(s, "subscription", status)} \subseteq [of : Checkouts, type : EventTypes, status : Statuses \cup {"none"}, at : 0 .. MaxTime]
    BY <1>0, <1>t
  <2> QED
    BY <1>7, <1>0, <1>u, <2>1, ChangeTyped DEF Settle
<1> QED
  BY <1>1, <1>2, <1>3, <1>4, <1>5, <1>6, <1>7

\* Claimed and unclaimed rows are typed.
LEMMA ClaimsTyped ==
    ASSUME Typed
    PROVE  /\ Claimed \in [sub : Checkouts \cup {0}, status : Statuses, last : -1 .. MaxTime, grace : 0 .. MaxTime + Grace,
                           claim : -1 .. MaxTime, no : Nat, session : Checkouts \cup {0}]
           /\ Claimed.sub = row.sub /\ Claimed.status = row.status /\ Claimed.last = row.last
           /\ Claimed.claim = now /\ Claimed.no = row.no + 1 /\ Claimed.session = row.session
           /\ Unclaimed \in [sub : Checkouts \cup {0}, status : Statuses, last : -1 .. MaxTime, grace : 0 .. MaxTime + Grace,
                             claim : -1 .. MaxTime, no : Nat, session : Checkouts \cup {0}]
           /\ Unclaimed.sub = row.sub /\ Unclaimed.status = row.status /\ Unclaimed.last = row.last /\ Unclaimed.grace = row.grace
           /\ Unclaimed.claim = -1 /\ Unclaimed.no = row.no /\ Unclaimed.session = 0
<1>0. /\ row \in [sub : Checkouts \cup {0}, status : Statuses, last : -1 .. MaxTime, grace : 0 .. MaxTime + Grace,
                  claim : -1 .. MaxTime, no : Nat, session : Checkouts \cup {0}]
      /\ now \in -1 .. MaxTime /\ MaxTime \in Nat
  BY BillingBounds DEF Typed, BillingTypeOK, StripeTyped
<1>1. -1 \in -1 .. MaxTime /\ row.no + 1 \in Nat
  BY <1>0
<1>2. /\ Claimed \in [sub : Checkouts \cup {0}, status : Statuses, last : -1 .. MaxTime, grace : 0 .. MaxTime + Grace,
                      claim : -1 .. MaxTime, no : Nat, session : Checkouts \cup {0}]
      /\ Claimed.sub = row.sub /\ Claimed.status = row.status /\ Claimed.last = row.last
      /\ Claimed.claim = now /\ Claimed.no = row.no + 1 /\ Claimed.session = row.session
  BY <1>0, <1>1 DEF Claimed
<1>3. /\ Unclaimed \in [sub : Checkouts \cup {0}, status : Statuses, last : -1 .. MaxTime, grace : 0 .. MaxTime + Grace,
                        claim : -1 .. MaxTime, no : Nat, session : Checkouts \cup {0}]
      /\ Unclaimed.sub = row.sub /\ Unclaimed.status = row.status /\ Unclaimed.last = row.last /\ Unclaimed.grace = row.grace
      /\ Unclaimed.claim = -1 /\ Unclaimed.no = row.no /\ Unclaimed.session = 0
  BY <1>0, <1>1 DEF Unclaimed
<1> QED
  BY <1>2, <1>3

\* A request and the row it works on stay typed.
LEMMA RequestTyped ==
    ASSUME Typed,
           row' = row \/ row' = Claimed \/ row' = Unclaimed \/ row' = NoRow
             \/ \E x \in Checkouts \cup {0} : row' = [row EXCEPT !.session = x],
           attempt' = attempt \/ \E o \in Buyers, r \in [pc : {"idle", "look", "expire", "release", "again", "post", "store"},
                                                         sid : Checkouts \cup {0}, no : Nat] : attempt' = [attempt EXCEPT ![o] = r],
           session' \in [Checkouts -> [st : {"none", "open", "expired", "complete"}, at : 0 .. MaxTime, no : Nat]],
           events' \subseteq [of : Checkouts, type : EventTypes, status : Statuses \cup {"none"}, at : 0 .. MaxTime],
           events \subseteq events', sub' = sub, seen' = seen, now' = now, loose' \in BOOLEAN, ws' \in {"live", "deleting", "gone"}
    PROVE  Typed'
<1>1. /\ row' \in [sub : Checkouts \cup {0}, status : Statuses, last : -1 .. MaxTime, grace : 0 .. MaxTime + Grace,
                   claim : -1 .. MaxTime, no : Nat, session : Checkouts \cup {0}]
      /\ row'.status \in LiveStatuses => row'.sub # 0
  <2>1. CASE row' = row \/ row' = Claimed \/ row' = Unclaimed
    BY <2>1, ClaimsTyped DEF Typed, BillingTypeOK
  <2>2. CASE row' = NoRow
    BY <2>2, BillingBounds DEF NoRow, Statuses, TerminalStatuses, LiveStatuses
  <2>3. ASSUME NEW x \in Checkouts \cup {0}, row' = [row EXCEPT !.session = x]
        PROVE  <1>1
    BY <2>3 DEF Typed, BillingTypeOK
  <2> QED
    BY <2>1, <2>2, <2>3
<1>2. attempt' \in [Buyers -> [pc : {"idle", "look", "expire", "release", "again", "post", "store"}, sid : Checkouts \cup {0}, no : Nat]]
  <2>1. ASSUME NEW o \in Buyers, NEW r \in [pc : {"idle", "look", "expire", "release", "again", "post", "store"},
                                             sid : Checkouts \cup {0}, no : Nat], attempt' = [attempt EXCEPT ![o] = r]
        PROVE  <1>2
    BY <2>1 DEF Typed, BillingTypeOK
  <2> QED
    BY <2>1 DEF Typed, BillingTypeOK
<1>3. \A s \in Checkouts : session'[s].st \in {"none", "open", "expired", "complete"}
  OBVIOUS
<1> QED
  BY <1>1, <1>2, <1>3 DEF Typed, BillingTypeOK, StripeTyped

\* The requests keep the types.
LEMMA AttemptTypes ==
    ASSUME Typed, Known, NEW o \in Buyers,
           \/ ClaimCheckoutSlot(o) \/ LookAtSession(o) \/ ExpireSession(o) \/ ReleaseClaim(o)
           \/ ClaimAgain(o) \/ Post(o) \/ StoreSession(o)
           \/ \E created \in BOOLEAN : PostFails(o, created)
    PROVE  Typed'
<1> DEFINE R == [pc : {"idle", "look", "expire", "release", "again", "post", "store"}, sid : Checkouts \cup {0}, no : Nat]
<1> DEFINE SS == [Checkouts -> [st : {"none", "open", "expired", "complete"}, at : 0 .. MaxTime, no : Nat]]
<1> DEFINE EE == [of : Checkouts, type : EventTypes, status : Statuses \cup {"none"}, at : 0 .. MaxTime]
<1>0. /\ attempt \in [Buyers -> R] /\ attempt[o] \in R /\ NoRequest \in R /\ row.no \in Nat /\ row.session \in Checkouts \cup {0}
      /\ session \in SS /\ events \subseteq EE /\ loose \in BOOLEAN /\ ws \in {"live", "deleting", "gone"} /\ now \in 0 .. MaxTime
  BY DEF Typed, BillingTypeOK, StripeTyped, NoRequest
<1>1. ASSUME Typed, row' = row \/ row' = Claimed \/ row' = Unclaimed \/ row' = NoRow
                      \/ \E x \in Checkouts \cup {0} : row' = [row EXCEPT !.session = x],
             \E r \in R : attempt' = [attempt EXCEPT ![o] = r],
             session' \in SS, events' \subseteq EE, events \subseteq events',
             sub' = sub, seen' = seen, now' = now, loose' \in BOOLEAN, ws' = ws
      PROVE  Typed'
  BY <1>0, <1>1, RequestTyped
<1>p. \A r \in R, pc \in {"idle", "look", "expire", "release", "again", "post", "store"} : [r EXCEPT !.pc = pc] \in R
  OBVIOUS
<1>2. CASE ClaimCheckoutSlot(o)
  <2>1. [pc |-> "post", sid |-> 0, no |-> row.no + 1] \in R /\ [pc |-> "look", sid |-> row.session, no |-> row.no] \in R
    BY <1>0
  <2>2. CASE Claimable
    BY <1>0, <1>1, <1>2, <2>1, <2>2 DEF ClaimCheckoutSlot
  <2>3. CASE ~Claimable
    BY <1>0, <1>1, <1>2, <2>1, <2>3 DEF ClaimCheckoutSlot
  <2> QED
    BY <2>2, <2>3
<1>3. CASE LookAtSession(o)
  <2>0. NextStep(session[attempt[o].sid].st) \in {"idle", "look", "expire", "release", "again", "post", "store"}
    BY DEF NextStep
  <2>1. CASE attempt' = [attempt EXCEPT ![o].pc = NextStep(session[attempt[o].sid].st)]
    <3>1. attempt' = [attempt EXCEPT ![o] = [attempt[o] EXCEPT !.pc = NextStep(session[attempt[o].sid].st)]]
      BY <2>1
    <3>2. [attempt[o] EXCEPT !.pc = NextStep(session[attempt[o].sid].st)] \in R
      BY <1>0, <1>p, <2>0
    <3> QED
      BY <1>0, <1>1, <1>3, <3>1, <3>2 DEF LookAtSession
  <2>2. CASE attempt' = [attempt EXCEPT ![o] = NoRequest]
    BY <1>0, <1>1, <1>3, <2>2 DEF LookAtSession
  <2> QED
    BY <2>1, <2>2, <1>3 DEF LookAtSession
<1>4. CASE ExpireSession(o)
  <2>1. CASE session[attempt[o].sid].st = "open"
    <3>1. attempt' = [attempt EXCEPT ![o] = [attempt[o] EXCEPT !.pc = "release"]]
      BY <2>1, <1>4 DEF ExpireSession
    <3>2. [attempt[o] EXCEPT !.pc = "release"] \in R
      BY <1>0, <1>p
    <3>3. session' = [session EXCEPT ![attempt[o].sid].st = "expired"] /\ events' = events \cup {Event(attempt[o].sid, "expired", "none")}
      BY <2>1, <1>4 DEF ExpireSession
    <3>4. session' \in SS
      BY <1>0, <3>3
    <3>5. CASE attempt[o].sid \in Checkouts
      <4>1. Event(attempt[o].sid, "expired", "none") \in EE
        BY <3>5, EventTyped DEF EventTypes
      <4> QED
        BY <1>0, <1>1, <1>4, <3>1, <3>2, <3>3, <3>4, <4>1 DEF ExpireSession
    <3>6. attempt[o].sid # 0
      BY <1>4 DEF ExpireSession, Known
    <3> QED
      BY <3>5, <3>6, <1>0
  <2>2. CASE session[attempt[o].sid].st # "open"
    BY <1>0, <1>1, <1>4, <2>2 DEF ExpireSession
  <2> QED
    BY <2>1, <2>2
<1>5. CASE ReleaseClaim(o)
  <2>1. attempt' = [attempt EXCEPT ![o] = [attempt[o] EXCEPT !.pc = "again"]]
    BY <1>5 DEF ReleaseClaim
  <2>2. [attempt[o] EXCEPT !.pc = "again"] \in R
    BY <1>0, <1>p
  <2> QED
    BY <1>0, <1>1, <1>5, <2>1, <2>2 DEF ReleaseClaim
<1>6. CASE ClaimAgain(o)
  <2>1. [pc |-> "post", sid |-> 0, no |-> row.no + 1] \in R
    BY <1>0
  <2>2. CASE Claimable /\ ws # "gone"
    BY <1>0, <1>1, <1>6, <2>1, <2>2 DEF ClaimAgain
  <2>3. CASE ~(Claimable /\ ws # "gone")
    BY <1>0, <1>1, <1>6, <2>1, <2>3 DEF ClaimAgain
  <2> QED
    BY <2>2, <2>3
<1>7. CASE Post(o)
  <2>1. PICK s \in Checkouts : /\ session' = session
                                     \/ session' = [session EXCEPT ![s] = [st |-> "open", at |-> now, no |-> IF row.claim >= 0 THEN row.no ELSE 0]]
                               /\ attempt' = [attempt EXCEPT ![o] = [pc |-> "store", sid |-> s, no |-> @.no]]
    BY <1>7 DEF Post, SameKey, Unused
  <2>2. session' \in SS
    BY <2>1, <1>0
  <2>3. [pc |-> "store", sid |-> s, no |-> attempt[o].no] \in R /\ attempt' = [attempt EXCEPT ![o] = [pc |-> "store", sid |-> s, no |-> attempt[o].no]]
    BY <1>0, <2>1
  <2> QED
    BY <1>0, <1>1, <1>7, <2>2, <2>3 DEF Post
<1>8. CASE StoreSession(o)
  <2>1. row' = row \/ row' = [row EXCEPT !.session = attempt[o].sid]
    BY <1>8 DEF StoreSession
  <2>2. attempt[o].sid \in Checkouts \cup {0}
    BY <1>0
  <2> QED
    BY <1>0, <1>1, <1>8, <2>1, <2>2 DEF StoreSession
<1>9. ASSUME NEW created \in BOOLEAN, PostFails(o, created) PROVE Typed'
  <2>1. session' \in SS
    <3>1. CASE created
      <4>1. PICK s \in Checkouts : session' = [session EXCEPT ![s] = [st |-> "open", at |-> now, no |-> row.no]]
        BY <1>9, <3>1 DEF PostFails, Unused
      <4> QED
        BY <4>1, <1>0
    <3> QED
      BY <3>1, <1>9, <1>0 DEF PostFails
  <2> QED
    BY <1>0, <1>1, <1>9, <2>1 DEF PostFails
<1> QED
  BY <1>2, <1>3, <1>4, <1>5, <1>6, <1>7, <1>8, <1>9

\* A webhook that is applied leaves a row: the row as it was, without the claim, with a failed
\* payment, or of the subscription the webhook tells about.
LEMMA AppliedCases ==
    ASSUME Typed, NEW e \in events, e.type # "dispute"
    PROVE  \/ Applied(e) = row
           \/ e.type = "expired" /\ row.session = e.of /\ Applied(e) = Unclaimed
           \/ /\ e.type = "payment_failed" /\ ~Stale(e) /\ row.sub = e.of /\ row.status \in {"active", "trialing", "past_due"}
              /\ Applied(e) = [row EXCEPT !.status = "past_due", !.grace = GraceEnd(e), !.last = e.at]
           \/ /\ e.type \in {"subscription", "deleted"} /\ ~Stale(e) /\ ~OlderSubscription(e) /\ e.status # "incomplete"
              /\ ~NotAfterCancellation(e)
              /\ Applied(e) = [Unclaimed EXCEPT !.sub = e.of, !.status = e.status, !.last = e.at,
                                                !.grace = IF e.status = "past_due" THEN GraceEnd(e) ELSE 0]
<1>0. e.type \in {"subscription", "payment_failed", "deleted", "expired"}
  BY DEF Typed, StripeTyped, EventTypes
<1>1. CASE e.type = "expired"
  BY <1>1 DEF Applied
<1>2. CASE e.type = "payment_failed"
  <2>1. Applied(e) = IF ~Stale(e) /\ row.sub = e.of /\ row.status \in {"active", "trialing", "past_due"}
                     THEN [row EXCEPT !.status = "past_due", !.grace = GraceEnd(e), !.last = e.at] ELSE row
    BY <1>2 DEF Applied
  <2> QED
    BY <1>2, <2>1
<1>3. CASE e.type \in {"subscription", "deleted"}
  <2>1. Applied(e) = IF Stale(e) \/ OlderSubscription(e) \/ e.status = "incomplete" \/ NotAfterCancellation(e) THEN row
                     ELSE [Unclaimed EXCEPT !.sub = e.of, !.status = e.status, !.last = e.at,
                                            !.grace = IF e.status = "past_due" THEN GraceEnd(e) ELSE 0]
    BY <1>3 DEF Applied
  <2> QED
    BY <1>3, <2>1
<1> QED
  BY <1>0, <1>1, <1>2, <1>3

\* Which part of the row a webhook may change.
LEMMA AppliedFields ==
    ASSUME Typed, StripeSound, NEW e \in events, e.type # "dispute"
    PROVE  /\ Applied(e) \in [sub : Checkouts \cup {0}, status : Statuses, last : -1 .. MaxTime, grace : 0 .. MaxTime + Grace,
                              claim : -1 .. MaxTime, no : Nat, session : Checkouts \cup {0}]
           /\ Applied(e).status \in LiveStatuses => Applied(e).sub # 0
           /\ Applied(e).no = row.no
           /\ \/ Applied(e) = row
              \/ /\ e.type = "expired" /\ row.session = e.of
                 /\ Applied(e).claim = -1 /\ Applied(e).session = 0
                 /\ Applied(e).sub = row.sub /\ Applied(e).status = row.status /\ Applied(e).last = row.last
              \/ /\ e.type = "payment_failed" /\ e.at >= row.last /\ row.sub = e.of /\ row.status \in {"active", "trialing", "past_due"}
                 /\ Applied(e).claim = row.claim /\ Applied(e).session = row.session
                 /\ Applied(e).sub = e.of /\ Applied(e).status = "past_due" /\ Applied(e).last = e.at
              \/ /\ e.type \in {"subscription", "deleted"} /\ e.at >= row.last /\ ~OlderSubscription(e) /\ e.status # "incomplete"
                 /\ ~NotAfterCancellation(e)
                 /\ Applied(e).claim = -1 /\ Applied(e).session = 0
                 /\ Applied(e).sub = e.of /\ Applied(e).status = e.status /\ Applied(e).last = e.at
<1> DEFINE RR == [sub : Checkouts \cup {0}, status : Statuses, last : -1 .. MaxTime, grace : 0 .. MaxTime + Grace,
                  claim : -1 .. MaxTime, no : Nat, session : Checkouts \cup {0}]
<1>0. /\ row \in RR /\ Unclaimed \in RR
      /\ e.of \in Checkouts /\ e.at \in 0 .. MaxTime /\ e.at \in -1 .. MaxTime /\ e.at \in Int /\ row.last \in Int
      /\ MaxTime \in Nat /\ Grace \in Nat /\ now \in 0 .. MaxTime
      /\ row.status \in LiveStatuses => row.sub # 0
      /\ 0 \notin Checkouts
  BY BillingBounds, ClaimsTyped DEF Typed, BillingTypeOK, StripeTyped
<1>1. Unclaimed.sub = row.sub /\ Unclaimed.status = row.status /\ Unclaimed.last = row.last /\ Unclaimed.no = row.no
      /\ Unclaimed.claim = -1 /\ Unclaimed.session = 0
  BY ClaimsTyped
<1>2. GraceEnd(e) \in 0 .. MaxTime + Grace /\ 0 \in 0 .. MaxTime + Grace
  <2>1. row.grace \in 0 .. MaxTime + Grace
    BY <1>0
  <2>2. now + Grace \in 0 .. MaxTime + Grace /\ 0 \in 0 .. MaxTime + Grace
    BY <1>0
  <2> QED
    BY <2>1, <2>2 DEF GraceEnd
<1>3. CASE Applied(e) = row
  BY <1>0, <1>3
<1>4. CASE e.type = "expired" /\ row.session = e.of /\ Applied(e) = Unclaimed
  BY <1>0, <1>1, <1>4
<1>5. CASE /\ e.type = "payment_failed" /\ ~Stale(e) /\ row.sub = e.of /\ row.status \in {"active", "trialing", "past_due"}
           /\ Applied(e) = [row EXCEPT !.status = "past_due", !.grace = GraceEnd(e), !.last = e.at]
  <2> DEFINE g == GraceEnd(e)
  <2>1. g \in 0 .. MaxTime + Grace
    BY <1>2
  <2>2. Applied(e) = [row EXCEPT !.status = "past_due", !.grace = g, !.last = e.at]
    BY <1>5
  <2>h. HIDE DEF g
  <2>3. "past_due" \in Statuses
    BY DEF Statuses
  <2>4. Applied(e) \in RR /\ Applied(e).no = row.no /\ Applied(e).claim = row.claim /\ Applied(e).session = row.session
        /\ Applied(e).sub = row.sub /\ Applied(e).status = "past_due" /\ Applied(e).last = e.at
    BY <1>0, <2>1, <2>2, <2>3
  <2>5. e.at >= row.last
    BY <1>0, <1>5 DEF Stale
  <2> QED
    BY <1>0, <1>5, <2>4, <2>5
<1>6. CASE /\ e.type \in {"subscription", "deleted"} /\ ~Stale(e) /\ ~OlderSubscription(e) /\ e.status # "incomplete"
           /\ ~NotAfterCancellation(e)
           /\ Applied(e) = [Unclaimed EXCEPT !.sub = e.of, !.status = e.status, !.last = e.at,
                                             !.grace = IF e.status = "past_due" THEN GraceEnd(e) ELSE 0]
  <2> DEFINE g == IF e.status = "past_due" THEN GraceEnd(e) ELSE 0
  <2>1. g \in 0 .. MaxTime + Grace
    BY <1>2
  <2>2. Applied(e) = [Unclaimed EXCEPT !.sub = e.of, !.status = e.status, !.last = e.at, !.grace = g]
    BY <1>6
  <2>h. HIDE DEF g
  <2>3. e.status \in Statuses
    BY <1>6 DEF StripeSound, Truthful, Statuses, TerminalStatuses
  <2>4. Applied(e) \in RR /\ Applied(e).no = row.no /\ Applied(e).claim = -1 /\ Applied(e).session = 0
        /\ Applied(e).sub = e.of /\ Applied(e).status = e.status /\ Applied(e).last = e.at
    BY <1>0, <1>1, <2>1, <2>2, <2>3
  <2>5. e.at >= row.last
    BY <1>0, <1>6 DEF Stale
  <2> QED
    BY <1>0, <1>6, <2>4, <2>5
<1> QED
  BY AppliedCases, <1>3, <1>4, <1>5, <1>6

\* Deliveries keep the types.
LEMMA DeliveryTypes ==
    ASSUME Typed, StripeSound, NEW e \in events,
           DeliverDispute(e) \/ \E again \in BOOLEAN : Deliver(e, again)
    PROVE  Typed'
<1> DEFINE EE == [of : Checkouts, type : EventTypes, status : Statuses \cup {"none"}, at : 0 .. MaxTime]
<1>1. CASE DeliverDispute(e)
  <2>1. CASE row.sub # 0 /\ row.status \notin TerminalStatuses /\ Live(row.sub) /\ ws # "gone"
    <3>1. row.sub \in Checkouts
      BY <2>1 DEF Typed, BillingTypeOK
    <3>2. Event(row.sub, "deleted", "canceled") \in EE
      BY <3>1, EventTyped DEF EventTypes, Statuses, TerminalStatuses
    <3>3. events' \subseteq EE
      BY <3>2, <2>1, <1>1 DEF DeliverDispute, Typed, StripeTyped
    <3>4. sub' \in [Checkouts -> [status : Statuses, at : 0 .. MaxTime]]
      BY <3>1, <2>1, <1>1 DEF DeliverDispute, Typed, StripeTyped, Statuses, TerminalStatuses
    <3>5. seen' \subseteq {x \in events' : x.type # "dispute"}
      <4>1. e \notin seen
        BY <1>1 DEF DeliverDispute, Typed, StripeTyped
      <4> QED
        BY <4>1, <2>1, <1>1 DEF DeliverDispute, Typed, StripeTyped
    <3> QED
      BY <3>3, <3>4, <3>5, <1>1 DEF DeliverDispute, Typed, StripeTyped, BillingTypeOK
  <2> QED
    BY <2>1, <1>1 DEF DeliverDispute, Typed, StripeTyped, BillingTypeOK
<1>2. ASSUME NEW again \in BOOLEAN, Deliver(e, again) PROVE Typed'
  <2>1. events' \subseteq events /\ seen' \subseteq {x \in events' : x.type # "dispute"}
    BY <1>2 DEF Deliver, Typed, StripeTyped
  <2>2. /\ row' \in [sub : Checkouts \cup {0}, status : Statuses, last : -1 .. MaxTime, grace : 0 .. MaxTime + Grace,
                     claim : -1 .. MaxTime, no : Nat, session : Checkouts \cup {0}]
        /\ row'.status \in LiveStatuses => row'.sub # 0
    BY <1>2, AppliedFields DEF Deliver, Typed, BillingTypeOK
  <2> QED
    BY <2>1, <2>2, <1>2 DEF Deliver, Typed, StripeTyped, BillingTypeOK
<1> QED
  BY <1>1, <1>2

\* The deletion of the workspace and the clock keep the types, and so does a step of none.
LEMMA OtherTypes ==
    ASSUME Typed, Tick \/ CancelWorkspaceSubscription \/ PurgeWorkspace \/ UNCHANGED billingVars
    PROVE  Typed'
<1> DEFINE EE == [of : Checkouts, type : EventTypes, status : Statuses \cup {"none"}, at : 0 .. MaxTime]
<1>1. CASE Tick
  BY <1>1, BillingBounds DEF Tick, Typed, StripeTyped, BillingTypeOK
<1>2. CASE CancelWorkspaceSubscription
  <2>1. CASE row.sub # 0 /\ row.status \notin TerminalStatuses /\ Live(row.sub)
    <3>1. row.sub \in Checkouts
      BY <2>1 DEF Typed, BillingTypeOK
    <3>2. {Event(row.sub, "deleted", "canceled")} \subseteq EE
      BY <3>1, EventTyped DEF EventTypes, Statuses, TerminalStatuses
    <3>3. "canceled" \in Statuses
      BY DEF Statuses, TerminalStatuses
    <3>4. Change(row.sub, "canceled", {Event(row.sub, "deleted", "canceled")})
      BY <1>2, <2>1 DEF CancelWorkspaceSubscription
    <3>5. /\ session' \in [Checkouts -> [st : {"none", "open", "expired", "complete"}, at : 0 .. MaxTime, no : Nat]]
          /\ row' = row /\ attempt' = attempt /\ seen' = seen /\ now' = now /\ loose' \in BOOLEAN /\ ws' \in {"live", "deleting", "gone"}
      BY <1>2 DEF CancelWorkspaceSubscription, Typed, StripeTyped
    <3> QED
      BY <3>1, <3>2, <3>3, <3>4, <3>5, ChangeTyped
  <2>2. CASE ~(row.sub # 0 /\ row.status \notin TerminalStatuses /\ Live(row.sub))
    BY <1>2, <2>2 DEF CancelWorkspaceSubscription, Typed, StripeTyped, BillingTypeOK
  <2> QED
    BY <2>1, <2>2
<1>3. CASE PurgeWorkspace
  <2>1. CASE row' = NoRow
    BY <1>3, <2>1, RequestTyped DEF PurgeWorkspace, Typed, StripeTyped, BillingTypeOK
  <2>2. CASE row' = row
    BY <1>3, <2>2, RequestTyped DEF PurgeWorkspace, Typed, StripeTyped, BillingTypeOK
  <2> QED
    BY <1>3, <2>1, <2>2 DEF PurgeWorkspace
<1>4. CASE UNCHANGED billingVars
  BY <1>4 DEF billingVars, Typed, StripeTyped, BillingTypeOK
<1> QED
  BY <1>1, <1>2, <1>3, <1>4

\* Every step keeps the types.
LEMMA TypesKept ==
    ASSUME Typed, StripeSound, Known, [BillingNext]_billingVars
    PROVE  Typed'
<1>1. CASE Tick \/ CancelWorkspaceSubscription \/ PurgeWorkspace \/ UNCHANGED billingVars
  BY <1>1, OtherTypes
<1>2. ASSUME NEW s \in Checkouts,
             \/ PaymentFails(s) \/ CancelInPortal(s) \/ DisputeOpened(s) \/ SessionTimesOut(s)
             \/ \E ok \in BOOLEAN : PaymentRetried(s, ok)
             \/ \E status \in {"active", "incomplete"} : Pay(s, status)
             \/ \E status \in {"active", "incomplete_expired"} : Settle(s, status)
      PROVE  Typed'
  BY <1>2, StripeTypes
<1>3. ASSUME NEW o \in Buyers,
             \/ ClaimCheckoutSlot(o) \/ LookAtSession(o) \/ ExpireSession(o) \/ ReleaseClaim(o)
             \/ ClaimAgain(o) \/ Post(o) \/ StoreSession(o)
             \/ \E created \in BOOLEAN : PostFails(o, created)
      PROVE  Typed'
  BY <1>3, AttemptTypes
<1>4. ASSUME NEW e \in events, DeliverDispute(e) \/ \E again \in BOOLEAN : Deliver(e, again)
      PROVE  Typed'
  BY <1>4, DeliveryTypes
<1> QED
  BY <1>1, <1>2, <1>3, <1>4 DEF BillingNext

-----------------------------------------------------------------------------
(* What Stripe's webhooks say is true *)

\* A webhook stays true while its subscription and its session stay.
LEMMA TruthfulKept ==
    ASSUME Typed, NEW e \in events, Truthful(e), sub'[e.of] = sub[e.of], now' = now \/ now' = now + 1,
           session[e.of].st = "expired" => session'[e.of].st = "expired"
    PROVE  Truthful(e)'
<1>1. e.at \in Int /\ now \in Int
  BY DEF Typed, StripeTyped
<1>2. (e.at <= now)'
  BY <1>1 DEF Truthful
<1> QED
  BY <1>2 DEF Truthful, Started, Live

\* It stays true when its subscription changes later, and when it is cancelled.
LEMMA TruthfulChange ==
    ASSUME Typed, NEW e \in events, Truthful(e), now' = now, sub'[e.of].at = now, sub[e.of].at <= now,
           session[e.of].st = "expired" => session'[e.of].st = "expired",
           \/ /\ sub[e.of].at < now /\ sub[e.of].status \in {"active", "past_due", "incomplete"}
              /\ sub'[e.of].status \in {"active", "past_due", "incomplete_expired"}
           \/ Live(e.of) /\ sub'[e.of].status = "canceled"
    PROVE  Truthful(e)'
<1>1. e.at \in Int /\ now \in Int /\ sub[e.of].at \in Int /\ e.of \in Checkouts
  BY DEF Typed, StripeTyped
<1>2. CASE /\ sub[e.of].at < now /\ sub[e.of].status \in {"active", "past_due", "incomplete"}
           /\ sub'[e.of].status \in {"active", "past_due", "incomplete_expired"}
  <2>1. e.type \in Reports => e.at < now /\ e.at # sub'[e.of].at
    BY <1>1, <1>2 DEF Truthful
  <2>2. e.status \notin TerminalStatuses
    BY <1>1, <1>2 DEF Truthful, TerminalStatuses
  <2> QED
    BY <1>1, <1>2, <2>1, <2>2 DEF Truthful, Started, Reports
<1>3. CASE Live(e.of) /\ sub'[e.of].status = "canceled"
  <2>1. e.type \in Reports => e.at <= now
    BY <1>1, <1>3 DEF Truthful
  <2>2. e.status \notin TerminalStatuses
    BY <1>1, <1>3 DEF Truthful, TerminalStatuses, Live, LiveStatuses
  <2> QED
    BY <1>1, <1>3, <2>1, <2>2 DEF Truthful, Started, Live, LiveStatuses
<1> QED
  BY <1>2, <1>3

\* Every step that leaves the subscriptions alone and adds true webhooks, or a change of one
\* subscription with true webhooks, keeps Stripe's side sound.
LEMMA SoundChange ==
    ASSUME Typed, StripeSound, NEW s \in Checkouts, NEW status \in Statuses, NEW new,
           Change(s, status, new), now' = now, session' = session,
           \/ /\ sub[s].at < now /\ sub[s].status \in {"active", "past_due", "incomplete"}
              /\ status \in {"active", "past_due", "incomplete_expired"}
           \/ Live(s) /\ status = "canceled",
           \A e \in new : e.of = s /\ Truthful(e)'
    PROVE  StripeSound'
<1>0. sub' = [sub EXCEPT ![s] = [status |-> status, at |-> now]] /\ events' = events \cup new /\ sub \in [Checkouts -> [status : Statuses, at : 0 .. MaxTime]]
  BY DEF Change, Typed, StripeTyped
<1>1. ASSUME NEW t \in Checkouts PROVE (session[t].st = "complete" <=> Started(t))' /\ (sub[t].at <= now)'
  <2>1. CASE t = s
    BY <1>0, <2>1 DEF StripeSound, Started, Live, LiveStatuses, Typed, StripeTyped
  <2>2. CASE t # s
    BY <1>0, <2>2 DEF StripeSound, Started
  <2> QED
    BY <2>1, <2>2
<1>2. ASSUME NEW e \in events PROVE Truthful(e)'
  <2>0. e.of \in Checkouts /\ Truthful(e) /\ sub[e.of].at <= now
    BY DEF StripeSound, Typed, StripeTyped
  <2>1. CASE e.of = s
    <3>1. sub'[s] = [status |-> status, at |-> now]
      BY <1>0
    <3> QED
      BY <2>0, <2>1, <3>1, TruthfulChange
  <2>2. CASE e.of # s
    <3>1. sub'[e.of] = sub[e.of]
      BY <1>0, <2>0, <2>2
    <3> QED
      BY <2>0, <3>1, TruthfulKept
  <2> QED
    BY <2>1, <2>2
<1> QED
  BY <1>0, <1>1, <1>2 DEF StripeSound

\* A step that leaves subscriptions alone, closes or opens sessions and adds true webhooks.
LEMMA SoundSession ==
    ASSUME Typed, StripeSound, sub' = sub, now' = now \/ now' = now + 1,
           \A s \in Checkouts : /\ session'[s].st = "complete" <=> session[s].st = "complete"
                                /\ session[s].st = "expired" => session'[s].st = "expired",
           \A e \in events' : e \in events \/ Truthful(e)'
    PROVE  StripeSound'
<1>0. now \in Int /\ now <= now'
  BY DEF Typed, StripeTyped
<1>1. ASSUME NEW t \in Checkouts PROVE (session[t].st = "complete" <=> Started(t))' /\ (sub[t].at <= now)'
  <2>1. sub[t].at \in Int
    BY DEF Typed, StripeTyped
  <2> QED
    BY <1>0, <2>1 DEF StripeSound, Started
<1>2. ASSUME NEW e \in events PROVE Truthful(e)'
  <2>0. e.of \in Checkouts /\ Truthful(e)
    BY DEF StripeSound, Typed, StripeTyped
  <2> QED
    BY <2>0, TruthfulKept
<1> QED
  BY <1>1, <1>2 DEF StripeSound

\* What happens at Stripe is told truthfully.
LEMMA StripeSoundAtStripe ==
    ASSUME Typed, StripeSound, NEW s \in Checkouts,
           \/ PaymentFails(s) \/ CancelInPortal(s) \/ DisputeOpened(s) \/ SessionTimesOut(s)
           \/ \E ok \in BOOLEAN : PaymentRetried(s, ok)
           \/ \E status \in {"active", "incomplete"} : Pay(s, status)
           \/ \E status \in {"active", "incomplete_expired"} : Settle(s, status)
    PROVE  StripeSound'
<1>0. /\ {"active", "past_due", "canceled", "incomplete", "incomplete_expired"} \subseteq Statuses
      /\ sub \in [Checkouts -> [status : Statuses, at : 0 .. MaxTime]] /\ now \in Int
      /\ session \in [Checkouts -> [st : {"none", "open", "expired", "complete"}, at : 0 .. MaxTime, no : Nat]]
  BY DEF Statuses, TerminalStatuses, Typed, StripeTyped
<1>1. CASE PaymentFails(s)
  <2>1. sub'[s] = [status |-> "past_due", at |-> now] /\ now' = now
    BY <1>0, <1>1 DEF PaymentFails, Change
  <2>2. \A e \in {Event(s, "payment_failed", "none"), Event(s, "subscription", "past_due")} : e.of = s /\ Truthful(e)'
    BY <1>0, <2>1 DEF Event, Truthful, Reports, Started, TerminalStatuses
  <2> QED
    BY <1>0, <1>1, <2>2, SoundChange DEF PaymentFails
<1>2. CASE CancelInPortal(s)
  <2>1. sub'[s] = [status |-> "canceled", at |-> now] /\ now' = now
    BY <1>0, <1>2 DEF CancelInPortal, Change
  <2>2. \A e \in {Event(s, "deleted", "canceled")} : e.of = s /\ Truthful(e)'
    BY <1>0, <2>1 DEF Event, Truthful, Reports, Started, TerminalStatuses
  <2> QED
    BY <1>0, <1>2, <2>2, SoundChange DEF CancelInPortal
<1>3. CASE DisputeOpened(s)
  <2>1. \A e \in {Event(s, "dispute", "none")} : Truthful(e)'
    BY <1>0, <1>3 DEF DisputeOpened, Event, Truthful, Reports, Started, TerminalStatuses, Live, LiveStatuses
  <2> QED
    BY <1>3, <2>1, SoundSession DEF DisputeOpened
<1>4. CASE SessionTimesOut(s)
  <2>1. session'[s].st = "expired" /\ \A t \in Checkouts : t # s => session'[t] = session[t]
    BY <1>0, <1>4 DEF SessionTimesOut
  <2>2. \A e \in {Event(s, "expired", "none")} : Truthful(e)'
    BY <1>0, <1>4, <2>1 DEF SessionTimesOut, Event, Truthful, Reports, TerminalStatuses
  <2> QED
    BY <1>4, <2>1, <2>2, SoundSession DEF SessionTimesOut
<1>5. ASSUME NEW ok \in BOOLEAN, PaymentRetried(s, ok) PROVE StripeSound'
  <2>1. CASE ok
    <3>1. sub'[s] = [status |-> "active", at |-> now] /\ now' = now /\ Change(s, "active", {Event(s, "subscription", "active")})
      BY <1>0, <1>5, <2>1 DEF PaymentRetried, Change
    <3>2. \A e \in {Event(s, "subscription", "active")} : e.of = s /\ Truthful(e)'
      BY <1>0, <3>1 DEF Event, Truthful, Reports, Started, TerminalStatuses
    <3> QED
      BY <1>0, <1>5, <3>1, <3>2, SoundChange DEF PaymentRetried
  <2>2. CASE ~ok
    <3>1. sub'[s] = [status |-> "past_due", at |-> now] /\ now' = now /\ Change(s, "past_due", {Event(s, "payment_failed", "none")})
      BY <1>0, <1>5, <2>2 DEF PaymentRetried, Change
    <3>2. \A e \in {Event(s, "payment_failed", "none")} : e.of = s /\ Truthful(e)'
      BY <1>0, <3>1 DEF Event, Truthful, Reports, Started, TerminalStatuses
    <3> QED
      BY <1>0, <1>5, <3>1, <3>2, SoundChange DEF PaymentRetried
  <2> QED
    BY <2>1, <2>2
<1>6. ASSUME NEW status \in {"active", "incomplete"}, Pay(s, status) PROVE StripeSound'
  <2>1. /\ sub'[s] = [status |-> status, at |-> now] /\ now' = now
        /\ events' = events \cup {Event(s, "subscription", status)}
        /\ session'[s].st = "complete"
        /\ \A t \in Checkouts : t # s => session'[t] = session[t] /\ sub'[t] = sub[t]
    BY <1>0, <1>6 DEF Pay, Change
  <2>2. \A e \in {Event(s, "subscription", status)} : Truthful(e)'
    BY <1>0, <2>1 DEF Event, Truthful, Reports, Started, TerminalStatuses
  <2>3. ASSUME NEW t \in Checkouts PROVE (session[t].st = "complete" <=> Started(t))' /\ (sub[t].at <= now)'
    <3>1. CASE t = s
      BY <1>0, <2>1, <3>1 DEF Started
    <3>2. CASE t # s
      BY <1>0, <2>1, <3>2 DEF Started, StripeSound
    <3> QED
      BY <3>1, <3>2
  <2>4. ASSUME NEW e \in events PROVE Truthful(e)'
    <3>0. e.of \in Checkouts /\ Truthful(e)
      BY DEF StripeSound, Typed, StripeTyped
    <3>1. e.of # s
      BY <1>6, <3>0 DEF Pay, Truthful, StripeSound
    <3> QED
      BY <2>1, <3>0, <3>1, TruthfulKept
  <2> QED
    BY <2>1, <2>2, <2>3, <2>4 DEF StripeSound
<1>7. ASSUME NEW status \in {"active", "incomplete_expired"}, Settle(s, status) PROVE StripeSound'
  <2>1. sub'[s] = [status |-> status, at |-> now] /\ now' = now
    BY <1>0, <1>7 DEF Settle, Change
  <2>2. \A e \in {Event(s, "subscription", status)} : e.of = s /\ Truthful(e)'
    BY <1>0, <2>1 DEF Event, Truthful, Reports, Started, TerminalStatuses
  <2> QED
    BY <1>0, <1>7, <2>2, SoundChange DEF Settle
<1> QED
  BY <1>1, <1>2, <1>3, <1>4, <1>5, <1>6, <1>7

\* A request opens a session, lets one expire or leaves Stripe alone.
LEMMA AttemptAtStripe ==
    ASSUME Typed, Known, NEW o \in Buyers,
           \/ ClaimCheckoutSlot(o) \/ LookAtSession(o) \/ ExpireSession(o) \/ ReleaseClaim(o)
           \/ ClaimAgain(o) \/ Post(o) \/ StoreSession(o)
           \/ \E created \in BOOLEAN : PostFails(o, created)
    PROVE  /\ sub' = sub /\ now' = now /\ seen' = seen /\ ws' = ws
           /\ \/ session' = session /\ events' = events
              \/ \E s \in Checkouts : /\ session[s].st = "open" /\ session' = [session EXCEPT ![s].st = "expired"]
                                      /\ events' = events \cup {Event(s, "expired", "none")}
              \/ \E s \in Checkouts, no \in Nat : /\ session[s].st = "none" /\ events' = events
                                                 /\ session' = [session EXCEPT ![s] = [st |-> "open", at |-> now, no |-> no]]
<1>0. row.no \in Nat /\ attempt[o].sid \in Checkouts \cup {0}
  BY DEF Typed, BillingTypeOK
<1>1. CASE ClaimCheckoutSlot(o) \/ LookAtSession(o) \/ ReleaseClaim(o) \/ ClaimAgain(o) \/ StoreSession(o)
  BY <1>1 DEF ClaimCheckoutSlot, LookAtSession, ReleaseClaim, ClaimAgain, StoreSession
<1>2. CASE ExpireSession(o)
  <2>1. attempt[o].sid \in Checkouts
    BY <1>0, <1>2 DEF ExpireSession, Known
  <2> QED
    BY <1>2, <2>1 DEF ExpireSession
<1>3. CASE Post(o)
  <2>1. PICK s \in Checkouts :
             /\ s \in SameKey \/ s \in Unused
             /\ session' = IF s \in SameKey THEN session
                           ELSE [session EXCEPT ![s] = [st |-> "open", at |-> now, no |-> IF row.claim >= 0 THEN row.no ELSE 0]]
    BY <1>3 DEF Post, SameKey, Unused
  <2>2. CASE s \in SameKey
    BY <1>3, <2>1, <2>2 DEF Post
  <2>3. CASE s \notin SameKey
    BY <1>0, <1>3, <2>1, <2>3 DEF Post, Unused
  <2> QED
    BY <2>2, <2>3
<1>4. ASSUME NEW created \in BOOLEAN, PostFails(o, created) PROVE sub' = sub /\ now' = now /\ seen' = seen /\ ws' = ws /\ events' = events
                 /\ (session' = session \/ \E s \in Checkouts : /\ session[s].st = "none"
                                                 /\ session' = [session EXCEPT ![s] = [st |-> "open", at |-> now, no |-> row.no]])
  BY <1>4 DEF PostFails, Unused
<1> QED
  BY <1>0, <1>1, <1>2, <1>3, <1>4

\* Stripe's side stays sound.
LEMMA StripeSoundKept ==
    ASSUME Typed, StripeSound, Known, [BillingNext]_billingVars
    PROVE  StripeSound'
<1>0. /\ "canceled" \in Statuses /\ row.sub \in Checkouts \cup {0}
      /\ sub \in [Checkouts -> [status : Statuses, at : 0 .. MaxTime]] /\ now \in Int
      /\ session \in [Checkouts -> [st : {"none", "open", "expired", "complete"}, at : 0 .. MaxTime, no : Nat]]
  BY DEF Statuses, TerminalStatuses, Typed, StripeTyped, BillingTypeOK
<1>1. CASE Tick \/ PurgeWorkspace \/ UNCHANGED billingVars
  BY <1>1, SoundSession DEF Tick, PurgeWorkspace, billingVars
<1>2. CASE CancelWorkspaceSubscription
  <2>1. CASE row.sub # 0 /\ row.status \notin TerminalStatuses /\ Live(row.sub)
    <3>1. /\ row.sub \in Checkouts /\ Change(row.sub, "canceled", {Event(row.sub, "deleted", "canceled")})
          /\ now' = now /\ session' = session
      BY <1>0, <1>2, <2>1 DEF CancelWorkspaceSubscription
    <3>2. sub'[row.sub] = [status |-> "canceled", at |-> now]
      BY <1>0, <3>1 DEF Change
    <3>3. \A e \in {Event(row.sub, "deleted", "canceled")} : e.of = row.sub /\ Truthful(e)'
      BY <1>0, <3>1, <3>2 DEF Event, Truthful, Reports, Started, TerminalStatuses
    <3> QED
      BY <1>0, <2>1, <3>1, <3>3, SoundChange
  <2>2. CASE ~(row.sub # 0 /\ row.status \notin TerminalStatuses /\ Live(row.sub))
    BY <1>2, <2>2, SoundSession DEF CancelWorkspaceSubscription
  <2> QED
    BY <2>1, <2>2
<1>3. ASSUME NEW s \in Checkouts,
             \/ PaymentFails(s) \/ CancelInPortal(s) \/ DisputeOpened(s) \/ SessionTimesOut(s)
             \/ \E ok \in BOOLEAN : PaymentRetried(s, ok)
             \/ \E status \in {"active", "incomplete"} : Pay(s, status)
             \/ \E status \in {"active", "incomplete_expired"} : Settle(s, status)
      PROVE  StripeSound'
  BY <1>3, StripeSoundAtStripe
<1>4. ASSUME NEW o \in Buyers,
             \/ ClaimCheckoutSlot(o) \/ LookAtSession(o) \/ ExpireSession(o) \/ ReleaseClaim(o)
             \/ ClaimAgain(o) \/ Post(o) \/ StoreSession(o)
             \/ \E created \in BOOLEAN : PostFails(o, created)
      PROVE  StripeSound'
  <2>0. sub' = sub /\ now' = now
    BY <1>4, AttemptAtStripe
  <2>1. CASE session' = session /\ events' = events
    BY <2>0, <2>1, SoundSession
  <2>2. ASSUME NEW s \in Checkouts, session[s].st = "open", session' = [session EXCEPT ![s].st = "expired"],
               events' = events \cup {Event(s, "expired", "none")}
        PROVE  StripeSound'
    <3>1. session'[s].st = "expired" /\ \A t \in Checkouts : t # s => session'[t] = session[t]
      BY <1>0, <2>2
    <3>2. \A e \in {Event(s, "expired", "none")} : Truthful(e)'
      BY <1>0, <2>0, <3>1 DEF Event, Truthful, Reports, TerminalStatuses
    <3> QED
      BY <2>0, <2>2, <3>1, <3>2, SoundSession
  <2>3. ASSUME NEW s \in Checkouts, NEW no \in Nat, session[s].st = "none", events' = events,
               session' = [session EXCEPT ![s] = [st |-> "open", at |-> now, no |-> no]]
        PROVE  StripeSound'
    <3>1. session'[s].st = "open" /\ \A t \in Checkouts : t # s => session'[t] = session[t]
      BY <1>0, <2>3
    <3> QED
      BY <2>0, <2>3, <3>1, SoundSession
  <2> QED
    BY <1>4, <2>1, <2>2, <2>3, AttemptAtStripe
<1>5. ASSUME NEW e \in events, DeliverDispute(e) PROVE StripeSound'
  <2>1. CASE row.sub # 0 /\ row.status \notin TerminalStatuses /\ Live(row.sub) /\ ws # "gone"
    <3>1. /\ row.sub \in Checkouts /\ now' = now /\ session' = session
          /\ sub' = [sub EXCEPT ![row.sub] = [status |-> "canceled", at |-> now]]
          /\ events' = (events \ {e}) \cup {Event(row.sub, "deleted", "canceled")}
      BY <1>0, <1>5, <2>1 DEF DeliverDispute
    <3>2. sub'[row.sub] = [status |-> "canceled", at |-> now] /\ \A t \in Checkouts : t # row.sub => sub'[t] = sub[t]
      BY <1>0, <3>1
    <3>3. \A f \in {Event(row.sub, "deleted", "canceled")} : Truthful(f)'
      BY <1>0, <3>1, <3>2 DEF Event, Truthful, Reports, Started, TerminalStatuses
    <3>4. ASSUME NEW t \in Checkouts PROVE (session[t].st = "complete" <=> Started(t))' /\ (sub[t].at <= now)'
      <4>1. CASE t = row.sub
        BY <1>0, <2>1, <3>1, <3>2, <4>1 DEF StripeSound, Started, Live, LiveStatuses
      <4>2. CASE t # row.sub
        BY <3>1, <3>2, <4>2 DEF StripeSound, Started
      <4> QED
        BY <4>1, <4>2
    <3>5. ASSUME NEW f \in events PROVE Truthful(f)'
      <4>0. f.of \in Checkouts /\ Truthful(f) /\ sub[f.of].at <= now
        BY DEF StripeSound, Typed, StripeTyped
      <4>1. CASE f.of = row.sub
        BY <2>1, <3>1, <3>2, <4>0, <4>1, TruthfulChange
      <4>2. CASE f.of # row.sub
        BY <3>1, <3>2, <4>0, <4>2, TruthfulKept
      <4> QED
        BY <4>1, <4>2
    <3> QED
      BY <3>1, <3>3, <3>4, <3>5 DEF StripeSound
  <2>2. CASE ~(row.sub # 0 /\ row.status \notin TerminalStatuses /\ Live(row.sub) /\ ws # "gone")
    BY <1>5, <2>2, SoundSession DEF DeliverDispute
  <2> QED
    BY <2>1, <2>2
<1>6. ASSUME NEW e \in events, NEW again \in BOOLEAN, Deliver(e, again) PROVE StripeSound'
  BY <1>6, SoundSession DEF Deliver
<1> QED
  BY <1>1, <1>2, <1>3, <1>4, <1>5, <1>6 DEF BillingNext

-----------------------------------------------------------------------------
(* Sessions that are referred to exist *)

\* Sessions are never forgotten.
SessionsStay ==
    \A s \in Checkouts : /\ Created(s) => Created(s)'
                         /\ session[s].st = "expired" => session'[s].st = "expired"
                         /\ session[s].st = "complete" => session'[s].st = "complete"
                         /\ Created(s) => session'[s].no = session[s].no

\* Every step keeps the sessions.
LEMMA SessionsAlwaysStay ==
    ASSUME Typed, Known, [BillingNext]_billingVars
    PROVE  SessionsStay
<1>0. session \in [Checkouts -> [st : {"none", "open", "expired", "complete"}, at : 0 .. MaxTime, no : Nat]]
  BY DEF Typed, StripeTyped
<1>1. CASE session' = session
  BY <1>1 DEF SessionsStay, Created
<1>2. ASSUME NEW s \in Checkouts, session[s].st = "open",
             \E st \in {"expired", "complete"} : session' = [session EXCEPT ![s].st = st]
      PROVE  SessionsStay
  BY <1>0, <1>2 DEF SessionsStay, Created
<1>3. ASSUME NEW s \in Checkouts, session[s].st = "none", NEW no \in Nat,
             session' = [session EXCEPT ![s] = [st |-> "open", at |-> now, no |-> no]]
      PROVE  SessionsStay
  <2>1. \A t \in Checkouts : t # s => session'[t] = session[t]
    BY <1>0, <1>3
  <2> QED
    BY <1>3, <2>1 DEF SessionsStay, Created
<1>4. ASSUME NEW s \in Checkouts,
             \/ PaymentFails(s) \/ CancelInPortal(s) \/ DisputeOpened(s)
             \/ \E ok \in BOOLEAN : PaymentRetried(s, ok)
             \/ \E status \in {"active", "incomplete_expired"} : Settle(s, status)
      PROVE  SessionsStay
  BY <1>1, <1>4 DEF PaymentFails, CancelInPortal, DisputeOpened, PaymentRetried, Settle
<1>5. ASSUME NEW s \in Checkouts, SessionTimesOut(s) \/ \E status \in {"active", "incomplete"} : Pay(s, status)
      PROVE  SessionsStay
  BY <1>2, <1>5 DEF SessionTimesOut, Pay
<1>6. ASSUME NEW o \in Buyers,
             \/ ClaimCheckoutSlot(o) \/ LookAtSession(o) \/ ExpireSession(o) \/ ReleaseClaim(o)
             \/ ClaimAgain(o) \/ Post(o) \/ StoreSession(o)
             \/ \E created \in BOOLEAN : PostFails(o, created)
      PROVE  SessionsStay
  BY <1>1, <1>2, <1>3, <1>6, AttemptAtStripe
<1>7. CASE Tick \/ CancelWorkspaceSubscription \/ PurgeWorkspace \/ UNCHANGED billingVars
  BY <1>1, <1>7 DEF Tick, CancelWorkspaceSubscription, PurgeWorkspace, billingVars
<1>8. ASSUME NEW e \in events, DeliverDispute(e) \/ \E again \in BOOLEAN : Deliver(e, again)
      PROVE  SessionsStay
  BY <1>1, <1>8 DEF DeliverDispute, Deliver
<1> QED
  BY <1>4, <1>5, <1>6, <1>7, <1>8 DEF BillingNext

\* A step of one request: it refers to nothing, or to a session that exists.
LEMMA KnownAttempt ==
    ASSUME Typed, Known, SessionsStay, NEW o \in Buyers,
           \A p \in Buyers : p # o => attempt'[p] = attempt[p],
           attempt'[o].sid # 0 => session'[attempt'[o].sid].st # "none",
           attempt'[o].pc \in {"look", "expire", "release", "store"} => attempt'[o].sid # 0,
           attempt'[o].pc = "release" => session'[attempt'[o].sid].st = "expired",
           row'.session \in {0, row.session} \/ session'[row'.session].st # "none"
    PROVE  Known'
<1>0. row.session \in Checkouts \cup {0} /\ \A p \in Buyers : attempt[p].sid \in Checkouts \cup {0}
  BY DEF Typed, BillingTypeOK
<1>1. (row.session # 0 => Created(row.session))'
  BY <1>0 DEF Known, SessionsStay, Created
<1>2. ASSUME NEW p \in Buyers
      PROVE  /\ (attempt[p].sid # 0 => Created(attempt[p].sid))'
             /\ (attempt[p].pc \in {"look", "expire", "release", "store"} => attempt[p].sid # 0)'
             /\ (attempt[p].pc = "release" => session[attempt[p].sid].st = "expired")'
  <2>1. CASE p = o
    BY <1>0, <2>1 DEF Created
  <2>2. CASE p # o
    BY <1>0, <2>2 DEF Known, SessionsStay, Created
  <2> QED
    BY <2>1, <2>2
<1> QED
  BY <1>1, <1>2 DEF Known

\* Steps of no request.
LEMMA KnownSame ==
    ASSUME Typed, Known, SessionsStay, attempt' = attempt, row'.session \in {0, row.session}
    PROVE  Known'
<1>0. row.session \in Checkouts \cup {0} /\ \A p \in Buyers : attempt[p].sid \in Checkouts \cup {0}
  BY DEF Typed, BillingTypeOK
<1>1. (row.session # 0 => Created(row.session))'
  BY <1>0 DEF Known, SessionsStay, Created
<1>2. ASSUME NEW p \in Buyers
      PROVE  /\ (attempt[p].sid # 0 => Created(attempt[p].sid))'
             /\ (attempt[p].pc \in {"look", "expire", "release", "store"} => attempt[p].sid # 0)'
             /\ (attempt[p].pc = "release" => session[attempt[p].sid].st = "expired")'
  BY <1>0 DEF Known, SessionsStay, Created
<1> QED
  BY <1>1, <1>2 DEF Known

\* Everything a step refers to exists.
LEMMA KnownKept ==
    ASSUME Typed, StripeSound, Known, [BillingNext]_billingVars
    PROVE  Known'
<1> DEFINE R == [pc : {"idle", "look", "expire", "release", "again", "post", "store"}, sid : Checkouts \cup {0}, no : Nat]
<1>0. /\ row.session \in Checkouts \cup {0} /\ 0 \notin Checkouts
      /\ attempt \in [Buyers -> R] /\ row.no \in Nat
      /\ session \in [Checkouts -> [st : {"none", "open", "expired", "complete"}, at : 0 .. MaxTime, no : Nat]]
      /\ Unclaimed.session = 0 /\ Claimed.session = row.session /\ NoRow.session = 0
      /\ NoRequest.sid = 0 /\ NoRequest.pc = "idle" /\ NoRequest \in R
  BY ClaimsTyped, BillingBounds DEF Typed, BillingTypeOK, StripeTyped, NoRow, NoRequest
<1>1. SessionsStay
  BY SessionsAlwaysStay
<1>2. CASE Tick \/ CancelWorkspaceSubscription \/ PurgeWorkspace \/ UNCHANGED billingVars
  BY <1>0, <1>1, <1>2, KnownSame DEF Tick, CancelWorkspaceSubscription, PurgeWorkspace, billingVars
<1>3. ASSUME NEW s \in Checkouts,
             \/ PaymentFails(s) \/ CancelInPortal(s) \/ DisputeOpened(s) \/ SessionTimesOut(s)
             \/ \E ok \in BOOLEAN : PaymentRetried(s, ok)
             \/ \E status \in {"active", "incomplete"} : Pay(s, status)
             \/ \E status \in {"active", "incomplete_expired"} : Settle(s, status)
      PROVE  Known'
  BY <1>1, <1>3, KnownSame DEF PaymentFails, CancelInPortal, DisputeOpened, SessionTimesOut, PaymentRetried, Pay, Settle
<1>4. ASSUME NEW e \in events, DeliverDispute(e) PROVE Known'
  BY <1>1, <1>4, KnownSame DEF DeliverDispute
<1>5. ASSUME NEW e \in events, NEW again \in BOOLEAN, Deliver(e, again) PROVE Known'
  BY <1>1, <1>5, KnownSame, AppliedFields DEF Deliver
<1>6. ASSUME NEW o \in Buyers, ClaimCheckoutSlot(o) \/ ClaimAgain(o) PROVE Known'
  <2>1. CASE attempt' = [attempt EXCEPT ![o] = [pc |-> "post", sid |-> 0, no |-> row.no + 1]] /\ row' = Claimed
    BY <1>0, <1>1, <2>1, KnownAttempt
  <2>2. CASE attempt' = [attempt EXCEPT ![o] = [pc |-> "look", sid |-> row.session, no |-> row.no]] /\ row' = row /\ row.session # 0
    <3>1. session'[row.session].st # "none"
      BY <1>0, <1>1, <2>2 DEF Known, SessionsStay, Created
    <3>2. attempt'[o].sid = row.session /\ attempt'[o].pc = "look" /\ \A p \in Buyers : p # o => attempt'[p] = attempt[p]
      BY <1>0, <2>2
    <3> QED
      BY <1>1, <2>2, <3>1, <3>2, KnownAttempt
  <2>3. CASE attempt' = [attempt EXCEPT ![o] = NoRequest] /\ row' = row
    BY <1>0, <1>1, <2>3, KnownAttempt
  <2> QED
    BY <1>6, <2>1, <2>2, <2>3 DEF ClaimCheckoutSlot, ClaimAgain
<1>7. ASSUME NEW o \in Buyers, LookAtSession(o) PROVE Known'
  <2> DEFINE pc == NextStep(session[attempt[o].sid].st)
  <2>0. /\ attempt[o].sid \in Checkouts /\ session[attempt[o].sid].st # "none"
        /\ session' = session /\ row' = row
    BY <1>0, <1>7 DEF LookAtSession, Known, Created
  <2>1. CASE attempt' = [attempt EXCEPT ![o].pc = pc]
    <3>1. pc = "release" => session[attempt[o].sid].st = "expired"
      BY <1>0, <2>0 DEF NextStep
    <3>2. attempt'[o].sid = attempt[o].sid /\ attempt'[o].pc = pc /\ \A p \in Buyers : p # o => attempt'[p] = attempt[p]
      BY <1>0, <2>1
    <3>h. HIDE DEF pc
    <3> QED
      BY <1>0, <1>1, <2>0, <3>1, <3>2, KnownAttempt
  <2>2. CASE attempt' = [attempt EXCEPT ![o] = NoRequest]
    BY <1>0, <1>1, <2>0, <2>2, KnownAttempt
  <2> QED
    BY <1>7, <2>1, <2>2 DEF LookAtSession
<1>8. ASSUME NEW o \in Buyers, ExpireSession(o) PROVE Known'
  <2>0. attempt[o].sid \in Checkouts /\ row' = row
    BY <1>0, <1>8 DEF ExpireSession, Known
  <2>1. CASE session[attempt[o].sid].st = "open"
    <3>1. attempt' = [attempt EXCEPT ![o].pc = "release"] /\ session' = [session EXCEPT ![attempt[o].sid].st = "expired"]
      BY <1>8, <2>1 DEF ExpireSession
    <3>2. attempt'[o].sid = attempt[o].sid /\ attempt'[o].pc = "release" /\ \A p \in Buyers : p # o => attempt'[p] = attempt[p]
      BY <1>0, <3>1
    <3>3. session'[attempt[o].sid].st = "expired"
      BY <1>0, <2>0, <3>1
    <3> QED
      BY <1>0, <1>1, <2>0, <3>2, <3>3, KnownAttempt
  <2>2. CASE session[attempt[o].sid].st # "open"
    <3>1. attempt' = [attempt EXCEPT ![o] = NoRequest]
      BY <1>8, <2>2 DEF ExpireSession
    <3> QED
      BY <1>0, <1>1, <2>0, <3>1, KnownAttempt
  <2> QED
    BY <2>1, <2>2
<1>9. ASSUME NEW o \in Buyers, ReleaseClaim(o) PROVE Known'
  <2>0. attempt[o].sid \in Checkouts /\ session[attempt[o].sid].st # "none" /\ row' = Unclaimed /\ session' = session
    BY <1>0, <1>9 DEF ReleaseClaim, Known, Created
  <2>1. attempt'[o].sid = attempt[o].sid /\ attempt'[o].pc = "again" /\ \A p \in Buyers : p # o => attempt'[p] = attempt[p]
    BY <1>0, <1>9 DEF ReleaseClaim
  <2> QED
    BY <1>0, <1>1, <2>0, <2>1, KnownAttempt
<1>10. ASSUME NEW o \in Buyers, Post(o) PROVE Known'
  <2>1. PICK s \in Checkouts :
            /\ s \in SameKey \/ s \in Unused
            /\ session' = IF s \in SameKey THEN session
                          ELSE [session EXCEPT ![s] = [st |-> "open", at |-> now, no |-> IF row.claim >= 0 THEN row.no ELSE 0]]
            /\ attempt' = [attempt EXCEPT ![o] = [pc |-> "store", sid |-> s, no |-> @.no]]
    BY <1>10 DEF Post, SameKey, Unused
  <2>2. session'[s].st # "none"
    BY <1>0, <2>1 DEF SameKey
  <2>3. attempt'[o].sid = s /\ attempt'[o].pc = "store" /\ (\A p \in Buyers : p # o => attempt'[p] = attempt[p]) /\ row' = row
    BY <1>0, <1>10, <2>1 DEF Post
  <2> QED
    BY <1>0, <1>1, <2>2, <2>3, KnownAttempt
<1>11. ASSUME NEW o \in Buyers, NEW created \in BOOLEAN, PostFails(o, created) PROVE Known'
  <2>1. attempt' = [attempt EXCEPT ![o] = NoRequest] /\ (row' = row \/ row' = Unclaimed)
    BY <1>11 DEF PostFails
  <2> QED
    BY <1>0, <1>1, <2>1, KnownAttempt
<1>12. ASSUME NEW o \in Buyers, StoreSession(o) PROVE Known'
  <2>0. attempt[o].sid \in Checkouts /\ session[attempt[o].sid].st # "none" /\ session' = session
    BY <1>0, <1>12 DEF StoreSession, Known, Created
  <2>1. attempt' = [attempt EXCEPT ![o] = NoRequest] /\ (row' = row \/ row'.session = attempt[o].sid)
    <3>1. row \in [sub : Checkouts \cup {0}, status : Statuses, last : -1 .. MaxTime, grace : 0 .. MaxTime + Grace,
                   claim : -1 .. MaxTime, no : Nat, session : Checkouts \cup {0}]
      BY DEF Typed, BillingTypeOK
    <3> QED
      BY <1>12, <3>1 DEF StoreSession
  <2> QED
    BY <1>0, <1>1, <2>0, <2>1, KnownAttempt
<1> QED
  BY <1>2, <1>3, <1>4, <1>5, <1>6, <1>7, <1>8, <1>9, <1>10, <1>11, <1>12 DEF BillingNext

-----------------------------------------------------------------------------
(* Claims and the row while the claim stands for the session that is open *)

\* The parts of the state are numbers, checkouts and webhooks.
LEMMA Fields ==
    ASSUME Typed
    PROVE  /\ row.claim \in Int /\ row.last \in Int /\ row.no \in Nat /\ now \in Nat /\ row.last >= -1
           /\ row.sub \in Checkouts \cup {0} /\ row.session \in Checkouts \cup {0} /\ row.status \in Statuses
           /\ \A s \in Checkouts : sub[s].at \in Nat /\ session[s].no \in Nat /\ sub[s].status \in Statuses
                                   /\ session[s].st \in {"none", "open", "expired", "complete"}
           /\ \A o \in Buyers : attempt[o].no \in Nat /\ attempt[o].sid \in Checkouts \cup {0}
           /\ \A e \in events : e.of \in Checkouts /\ e.at \in Nat /\ e.type \in EventTypes
           /\ seen \subseteq events /\ 0 \notin Checkouts
BY BillingBounds DEF Typed, BillingTypeOK, StripeTyped

\* What is not settled was created, and is open as long as nothing was paid.
LEMMA UnsettledCreated ==
    ASSUME Typed, StripeSound, NEW s \in Checkouts, Unsettled(s)
    PROVE  /\ Created(s)
           /\ session[s].st \in {"open", "complete"}
           /\ Started(s) \/ session[s].st = "open"
<1>1. CASE session[s].st = "open"
  BY <1>1 DEF Created
<1>2. CASE Live(s) \/ sub[s].status = "incomplete"
  BY <1>2 DEF StripeSound, Started, Created, Live, LiveStatuses
<1>3. ASSUME NEW e \in Coming, e.of = s, e.status \in TerminalStatuses PROVE Started(s) /\ session[s].st = "complete"
  <2>1. e \in events /\ Truthful(e)
    BY DEF Coming, StripeSound
  <2> QED
    BY <1>3, <2>1 DEF Truthful, TerminalStatuses, StripeSound
<1> QED
  BY <1>1, <1>2, <1>3 DEF Unsettled, Pays, EndComing, Created

\* At most one checkout is not settled.
LEMMA OneUnsettled ==
    ASSUME Typed, StripeSound, Numbers, Guarded, NEW s \in Checkouts, NEW t \in Checkouts, Unsettled(s), Unsettled(t)
    PROVE  s = t
BY UnsettledCreated DEF Numbers, Guarded

\* Steps that leave the claim alone, with the requests that are about to post or to store, settle
\* checkouts, and report the expiry of sessions that were open.
LEMMA ClaimsStay ==
    ASSUME Typed, StripeSound, Known, Numbers, Guarded, PostsAlone, StoresOwn, SessionOfClaim, SessionsStay,
           row'.claim = row.claim, row'.no = row.no, row'.session = row.session, row'.sub = row.sub,
           HasLiveSubscription' <=> HasLiveSubscription,
           attempt' = attempt \/ \A p \in Buyers : /\ attempt'[p].no <= row.no
                                                   /\ attempt'[p].pc \in {"post", "store"} => attempt'[p] = attempt[p]
                                                   /\ attempt'[p].sid \in {0, attempt[p].sid, row.session},
           \A s \in Checkouts : (Created(s)' => Created(s)) /\ (Unsettled(s)' => Unsettled(s)),
           \A e \in Coming' : e.type = "expired" => e \in Coming \/ (e.of \in Checkouts /\ Unsettled(e.of))
    PROVE  Numbers' /\ Guarded' /\ PostsAlone' /\ StoresOwn' /\ SessionOfClaim'
<1>0. /\ \A s \in Checkouts : Created(s)' => Created(s) /\ session'[s].no = session[s].no
      /\ \A s \in Checkouts : session[s].st = "complete" => session'[s].st = "complete"
      /\ row.session \in Checkouts \cup {0} /\ \A o \in Buyers : attempt[o].sid \in Checkouts \cup {0}
  BY Fields DEF SessionsStay
<1>a. \A p \in Buyers : /\ attempt'[p].no <= row.no
                        /\ attempt'[p].pc \in {"post", "store"} => attempt'[p] = attempt[p]
                        /\ attempt'[p].sid \in {0, attempt[p].sid, row.session}
  <2>1. CASE attempt' = attempt
    BY <2>1 DEF Numbers
  <2>2. CASE attempt' # attempt
    BY <2>2
  <2> QED
    BY <2>1, <2>2
<1>1. Numbers'
  BY <1>0, <1>a DEF Numbers
<1>2. Guarded'
  BY <1>0, UnsettledCreated DEF Guarded, SessionsStay
<1>3. PostsAlone'
  BY <1>0, <1>a DEF PostsAlone
<1>4. StoresOwn'
  <2>1. ASSUME NEW o \in Buyers, attempt'[o].pc = "store"
        PROVE  /\ session'[attempt'[o].sid].no = attempt'[o].no
               /\ row'.session # attempt'[o].sid
               /\ \A p \in Buyers : p # o => attempt'[p].sid # attempt'[o].sid
               /\ attempt'[o].no = row'.no /\ row'.claim < 0 => session'[attempt'[o].sid].st = "complete"
    <3>1. /\ attempt'[o] = attempt[o] /\ attempt[o].pc = "store" /\ attempt[o].sid # 0
          /\ attempt[o].sid \in Checkouts /\ session'[attempt[o].sid].no = session[attempt[o].sid].no
          /\ session[attempt[o].sid].st = "complete" => session'[attempt[o].sid].st = "complete"
      BY <1>0, <1>a, <2>1 DEF Known, SessionsStay
    <3> QED
      BY <1>a, <2>1, <3>1 DEF StoresOwn
  <2> QED
    BY <2>1 DEF StoresOwn
<1>5. SessionOfClaim'
  <2>1. CASE row.session # 0 /\ session[row.session].st = "complete"
    BY <1>0, <2>1 DEF SessionOfClaim
  <2>2. CASE row.session # 0 /\ session[row.session].st # "complete"
    <3>0. row.session \in Checkouts /\ session'[row.session].no = session[row.session].no
      BY <1>0, <2>2 DEF Known, SessionsStay
    <3>1. row.claim >= 0 /\ ~HasLiveSubscription
      BY <2>2 DEF SessionOfClaim, Guarded
    <3>2. CASE session[row.session].no = row.no
      BY <3>0, <3>1, <3>2 DEF SessionOfClaim
    <3>3. CASE session[row.session].no # row.no
      <4>1. ~Unsettled(row.session)
        BY <3>0, <3>1, <3>3 DEF Guarded
      <4>2. \A e \in Coming' : e.type = "expired" => e.of # row.session
        BY <2>2, <3>3, <4>1 DEF SessionOfClaim
      <4> QED
        BY <3>1, <4>2 DEF SessionOfClaim
    <3> QED
      BY <3>2, <3>3
  <2>3. CASE row.session = 0
    BY <2>3 DEF SessionOfClaim
  <2> QED
    BY <2>1, <2>2, <2>3
<1> QED
  BY <1>1, <1>2, <1>3, <1>4, <1>5

\* Steps that leave the subscription of the row alone and report only what is later.
LEMMA RowStays ==
    ASSUME Typed, Typed', StripeSound, RowOfSubscription, LaterThanRow, LaterSubs,
           row'.sub = row.sub, row'.status = row.status, row'.last = row.last,
           \A t \in Checkouts : Started(t) =>
               /\ Started(t)' /\ (sub[t].status # "incomplete" => sub'[t].status # "incomplete")
               /\ sub[t].at <= sub'[t].at /\ (Unsettled(t)' <=> Unsettled(t)),
           \A t \in Checkouts : Started(t)' /\ ~Started(t) => row.last < sub'[t].at,
           \A e \in Coming' : e.type \in Reports =>
               e \in Coming \/ (Unsettled(e.of)' /\ Started(e.of)' /\ e.at = sub'[e.of].at)
    PROVE  RowOfSubscription' /\ LaterThanRow' /\ LaterSubs'
<1>0. /\ row.last \in Int /\ row.sub \in Checkouts \cup {0}
      /\ \A t \in Checkouts : sub[t].at \in Int /\ sub'[t].at \in Int
      /\ \A e \in events' : e.of \in Checkouts /\ e.at \in Int
  <2>1. \A t \in Checkouts : sub'[t].at \in Nat
    BY DEF Typed, StripeTyped
  <2>2. \A e \in events' : e.of \in Checkouts /\ e.at \in Nat
    BY DEF Typed, StripeTyped
  <2> QED
    BY <2>1, <2>2, Fields
<1>1. RowOfSubscription'
  <2>1. CASE row.sub = 0
    BY <1>0, <2>1 DEF RowOfSubscription
  <2>2. CASE row.sub # 0
    <3>1. /\ row.sub \in Checkouts /\ Started(row.sub) /\ sub[row.sub].status # "incomplete" /\ row.last <= sub[row.sub].at
          /\ HasLiveSubscription <=> Unsettled(row.sub)
      BY <1>0, <2>2 DEF RowOfSubscription
    <3>2. /\ sub'[row.sub].status # "inactive" /\ sub'[row.sub].status # "incomplete" /\ row.last <= sub'[row.sub].at
          /\ sub'[row.sub].at \in Int
      BY <1>0, <3>1 DEF Started
    <3>3. HasLiveSubscription' <=> HasLiveSubscription
      BY DEF HasLiveSubscription
    <3>4. ASSUME NEW c, c = row.sub PROVE Unsettled(c)' <=> Unsettled(c)
      BY <3>1, <3>4
    <3>5. Unsettled(row.sub)' <=> Unsettled(row.sub)
      BY <3>4 DEF Unsettled, Pays, EndComing, Live
    <3> QED
      BY <2>2, <3>1, <3>2, <3>3, <3>5 DEF RowOfSubscription, Started
  <2> QED
    BY <2>1, <2>2
<1>2. LaterSubs'
  <2>1. ASSUME NEW t \in Checkouts, Started(t)', row'.sub # t, Unsettled(t)' PROVE row.last < sub'[t].at
    <3>1. CASE Started(t)
      <4>1. row.last < sub[t].at /\ sub[t].at <= sub'[t].at
        BY <2>1, <3>1 DEF LaterSubs
      <4> QED
        BY <1>0, <4>1
    <3>2. CASE ~Started(t)
      BY <2>1, <3>2
    <3> QED
      BY <3>1, <3>2
  <2> QED
    BY <2>1 DEF LaterSubs
<1>3. LaterThanRow'
  <2>1. ASSUME NEW e \in Coming', e.type \in Reports
        PROVE  /\ Unsettled(e.of)' /\ row'.sub # e.of => row.last < e.at
               /\ ~Unsettled(e.of)' => e.at <= row.last /\ (row.sub # e.of => e.at < row.last)
    <3>0. e \in events' /\ e.of \in Checkouts
      BY <1>0 DEF Coming
    <3>1. CASE e \in Coming
      <4>1. Started(e.of)
        BY <2>1, <3>1 DEF Coming, StripeSound, Truthful, Reports
      <4>2. Unsettled(e.of)' <=> Unsettled(e.of)
        BY <3>0, <4>1
      <4> QED
        BY <2>1, <3>1, <4>2 DEF LaterThanRow
    <3>2. CASE e \notin Coming
      <4>1. Unsettled(e.of)' /\ Started(e.of)' /\ e.at = sub'[e.of].at
        BY <2>1, <3>2
      <4> QED
        BY <1>2, <2>1, <3>0, <4>1 DEF LaterSubs
    <3> QED
      BY <3>1, <3>2
  <2> QED
    BY <2>1 DEF LaterThanRow
<1> QED
  BY <1>1, <1>2, <1>3

\* The row follows a subscription that did not change: what else comes is harmless.
LEMMA RowFollowsStay ==
    ASSUME NEW t \in Checkouts, RowFollows, Live(t),
           row'.sub = row.sub, row'.status = row.status, row'.last = row.last, sub'[t].status = sub[t].status,
           \A e \in Coming : e.type = "subscription" => e \in Coming',
           \A e \in Coming' : \/ e \in Coming \/ e.of # t \/ e.type \in {"expired", "dispute"}
                              \/ e.type = "payment_failed" /\ sub[t].status = "past_due"
    PROVE  UpToDate(t)' \/ \E e \in Coming' : NewsOf(t, e)'
<1>0. ASSUME NEW b, HarmlessFrom(t, b)
      PROVE  \A e \in Coming' : e.of = t /\ e.at >= b => Harmless(t, e)'
  BY <1>0 DEF HarmlessFrom, Harmless
<1>1. CASE UpToDate(t)
  <2>1. \A e \in Coming' : e.of = t /\ e.at >= row.last => Harmless(t, e)'
    BY <1>0, <1>1 DEF UpToDate
  <2> QED
    BY <1>1, <2>1 DEF UpToDate, HarmlessFrom
<1>2. ASSUME NEW n \in Coming, NewsOf(t, n) PROVE n \in Coming' /\ NewsOf(t, n)'
  <2>1. \A e \in Coming' : e.of = t /\ e.at >= n.at => Harmless(t, e)'
    BY <1>0, <1>2 DEF NewsOf
  <2> QED
    BY <1>2, <2>1 DEF NewsOf, HarmlessFrom
<1> QED
  BY <1>1, <1>2 DEF RowFollows

\* A subscription that is not settled changes and Stripe reports it; disputes may leave.
LEMMA ChangeKeeps ==
    ASSUME Typed, Typed', StripeSound, Known, SessionsStay, RowSound,
           NEW s \in Checkouts, Live(s) \/ sub[s].status = "incomplete",
           sub'[s].at = now, sub'[s].status \notin {"incomplete", "inactive"},
           \A t \in Checkouts : t # s => sub'[t] = sub[t],
           session' = session, row' = row, attempt' = attempt, seen' = seen,
           \A e \in events : e \in events' \/ e.type = "dispute",
           \A e \in events' : e \in events \/ (e.of = s /\ e.at = now /\ e.type \in Reports),
           sub'[s].status \in LiveStatuses \/ EndComing(s)',
           sub'[s].status \in LiveStatuses => UpToDate(s)' \/ \E e \in Coming' : NewsOf(s, e)'
    PROVE  RowSound'
<1>0. /\ now \in Nat /\ \A t \in Checkouts : sub[t].at <= now /\ sub[t].at \in Nat
      /\ Numbers /\ Guarded /\ PostsAlone /\ StoresOwn /\ SessionOfClaim
      /\ RowOfSubscription /\ LaterThanRow /\ LaterSubs /\ RowFollows
  BY Fields DEF RowSound, StripeSound, Typed, StripeTyped
<1>1. /\ \A e \in Coming' : e \in Coming \/ (e.of = s /\ e.at = now /\ e.type \in Reports)
      /\ \A e \in Coming : e \in Coming' \/ e.type = "dispute"
  BY DEF Coming
<1>2. \A e \in Coming : e.type = "dispute" => e.status = "none"
  BY DEF Coming, StripeSound, Truthful
<1>3. ASSUME NEW t \in Checkouts, t # s PROVE Unsettled(t)' <=> Unsettled(t)
  <2>1. EndComing(t)' <=> EndComing(t)
    BY <1>1, <1>2, <1>3 DEF EndComing, TerminalStatuses
  <2>2. Pays(t)' <=> Pays(t)
    BY <1>0, <1>3 DEF Pays, Live
  <2> QED
    BY <2>1, <2>2 DEF Unsettled
<1>4. Unsettled(s) /\ Unsettled(s)'
  BY DEF Unsettled, Pays, Live
<1>5. \A t \in Checkouts : Unsettled(t)' <=> Unsettled(t)
  BY <1>3, <1>4
<1>6. Started(s) /\ Started(s)'
  BY <1>0 DEF Started, Live, LiveStatuses
<1>7. Numbers' /\ Guarded' /\ PostsAlone' /\ StoresOwn' /\ SessionOfClaim'
  <2>1. \A t \in Checkouts : Created(t)' => Created(t)
    BY DEF Created
  <2>2. \A e \in Coming' : e.type = "expired" => e \in Coming
    BY <1>1 DEF Reports
  <2> QED
    BY <1>0, <1>5, <2>1, <2>2, ClaimsStay DEF HasLiveSubscription
<1>8. RowOfSubscription' /\ LaterThanRow' /\ LaterSubs'
  <2>1. ASSUME NEW t \in Checkouts, Started(t)
        PROVE  /\ Started(t)' /\ (sub[t].status # "incomplete" => sub'[t].status # "incomplete")
               /\ sub[t].at <= sub'[t].at /\ (Unsettled(t)' <=> Unsettled(t))
    <3>1. CASE t = s
      BY <1>0, <1>5, <1>6, <3>1
    <3>2. CASE t # s
      BY <1>0, <1>5, <2>1, <3>2 DEF Started
    <3> QED
      BY <3>1, <3>2
  <2>2. \A t \in Checkouts : Started(t)' => Started(t)
    BY <1>0, <1>6 DEF Started
  <2>3. \A e \in Coming' : e.type \in Reports => e \in Coming \/ (Unsettled(e.of)' /\ Started(e.of)' /\ e.at = sub'[e.of].at)
    BY <1>0, <1>1, <1>4, <1>6
  <2> QED
    BY <1>0, <2>1, <2>2, <2>3, RowStays
<1>9. RowFollows'
  <2>1. ASSUME NEW t \in Checkouts, Live(t)' PROVE UpToDate(t)' \/ \E e \in Coming' : NewsOf(t, e)'
    <3>1. CASE t = s
      BY <1>0, <2>1, <3>1 DEF Live
    <3>2. CASE t # s
      <4>1. sub'[t].status = sub[t].status /\ Live(t)
        BY <1>0, <2>1, <3>2 DEF Live
      <4>2. \A e \in Coming : e.type = "subscription" => e \in Coming'
        BY <1>1
      <4>3. \A e \in Coming' : e \in Coming \/ e.of # t
        BY <1>1, <3>2
      <4> QED
        BY <1>0, <4>1, <4>2, <4>3, RowFollowsStay
    <3> QED
      BY <3>1, <3>2
  <2> QED
    BY <2>1 DEF RowFollows
<1> QED
  BY <1>7, <1>8, <1>9 DEF RowSound

\* News of a change in this second: everything else of the subscription that comes is earlier,
\* or part of the news.
LEMMA FreshNews ==
    ASSUME Typed, StripeSound, RowSound, NEW s \in Checkouts, NEW e \in Coming',
           e.of = s, e.type = "subscription", e.status = sub'[s].status, e.at = now, row' = row, Started(s), sub[s].at < now,
           \A f \in Coming' : \/ f \in Coming
                              \/ f.status = sub'[s].status
                              \/ f.type = "payment_failed" /\ sub'[s].status = "past_due"
    PROVE  NewsOf(s, e)'
<1>0. /\ sub[s].at \in Nat /\ now \in Nat /\ row.last \in Int
      /\ row.sub = s => row.last <= sub[s].at
  BY Fields DEF RowSound, RowOfSubscription
<1>1. ASSUME NEW f \in Coming', f.of = s, f.at >= now PROVE Harmless(s, f)'
  <2>1. CASE f \in Coming
    <3>1. Truthful(f) /\ f.at \in Nat /\ f.type \in EventTypes
      BY <2>1, Fields DEF Coming, StripeSound
    <3>2. f.type \notin Reports
      BY <1>0, <1>1, <3>1 DEF Truthful
    <3> QED
      BY <3>1, <3>2 DEF Harmless, EventTypes, Reports
  <2>2. CASE f \notin Coming
    BY <1>1, <2>2 DEF Harmless
  <2> QED
    BY <2>1, <2>2
<1>2. row'.sub = s => row'.last <= e.at
  BY <1>0
<1> QED
  BY <1>1, <1>2 DEF NewsOf, HarmlessFrom

\* Steps that change no subscription and report nothing of one: expiries and disputes come,
\* disputes go, sessions close.
LEMMA QuietKeeps ==
    ASSUME Typed, Typed', StripeSound, Known, SessionsStay, RowSound,
           sub' = sub, row' = row, attempt' = attempt, seen' = seen,
           \A t \in Checkouts : Created(t)' => Created(t),
           \A t \in Checkouts : session'[t].st = "open" => session[t].st = "open",
           \A e \in events : e \in events' \/ e.type = "dispute",
           \A e \in events' : \/ e \in events
                              \/ e.type = "dispute" /\ e.status = "none"
                              \/ e.type = "expired" /\ e.status = "none" /\ session[e.of].st = "open"
    PROVE  RowSound'
<1>0. /\ Numbers /\ Guarded /\ PostsAlone /\ StoresOwn /\ SessionOfClaim
      /\ RowOfSubscription /\ LaterThanRow /\ LaterSubs /\ RowFollows
      /\ \A e \in events' : e.of \in Checkouts
  BY DEF RowSound, Typed, StripeTyped
<1>1. /\ \A e \in Coming : e \in Coming' \/ (e.type = "dispute" /\ e.status = "none")
      /\ \A e \in Coming' : \/ e \in Coming
                            \/ e.type = "dispute" /\ e.status = "none"
                            \/ e.type = "expired" /\ e.status = "none" /\ session[e.of].st = "open"
  <2>1. \A e \in events : e.type = "dispute" => e.status = "none"
    BY DEF StripeSound, Truthful
  <2> QED
    BY <2>1 DEF Coming
<1>2. ASSUME NEW t \in Checkouts
      PROVE  (Unsettled(t)' => Unsettled(t)) /\ (Started(t) => (Unsettled(t)' <=> Unsettled(t)))
  <2>1. EndComing(t)' <=> EndComing(t)
    BY <1>1 DEF EndComing, TerminalStatuses
  <2>2. Live(t)' <=> Live(t)
    BY DEF Live
  <2>3. Started(t) => session[t].st # "open" /\ session'[t].st # "open"
    BY DEF StripeSound
  <2> QED
    BY <2>1, <2>2, <2>3 DEF Unsettled, Pays
<1>3. Numbers' /\ Guarded' /\ PostsAlone' /\ StoresOwn' /\ SessionOfClaim'
  <2>1. \A e \in Coming' : e.type = "expired" => e \in Coming \/ (e.of \in Checkouts /\ Unsettled(e.of))
    BY <1>0, <1>1 DEF Unsettled, Pays, Coming
  <2> QED
    BY <1>0, <1>2, <2>1, ClaimsStay DEF HasLiveSubscription
<1>4. RowOfSubscription' /\ LaterThanRow' /\ LaterSubs'
  <2>1. \A t \in Checkouts : Started(t)' <=> Started(t)
    BY DEF Started
  <2>2. \A t \in Checkouts : sub[t].at <= sub'[t].at
    BY Fields
  <2>3. \A e \in Coming' : e.type \in Reports => e \in Coming
    BY <1>1 DEF Reports
  <2> QED
    BY <1>0, <1>2, <2>1, <2>2, <2>3, RowStays
<1>5. RowFollows'
  <2>1. ASSUME NEW t \in Checkouts, Live(t)' PROVE UpToDate(t)' \/ \E e \in Coming' : NewsOf(t, e)'
    <3>1. Live(t) /\ sub'[t].status = sub[t].status
      BY <2>1 DEF Live
    <3>2. \A e \in Coming : e.type = "subscription" => e \in Coming'
      BY <1>1
    <3>3. \A e \in Coming' : e \in Coming \/ e.type \in {"expired", "dispute"}
      BY <1>1
    <3> QED
      BY <1>0, <3>1, <3>2, <3>3, RowFollowsStay
  <2> QED
    BY <2>1 DEF RowFollows
<1> QED
  BY <1>3, <1>4, <1>5 DEF RowSound

\* A report of this second is new when the subscription changed earlier.
LEMMA FreshReport ==
    ASSUME Typed, StripeSound, NEW s \in Checkouts, NEW type \in Reports, NEW status,
           sub[s].at < now \/ (status = "canceled" /\ Live(s))
    PROVE  /\ Event(s, type, status) \notin seen
           /\ Event(s, type, status).of = s /\ Event(s, type, status).at = now
           /\ Event(s, type, status).type = type /\ Event(s, type, status).status = status
<1> DEFINE e == Event(s, type, status)
<1>1. e.of = s /\ e.at = now /\ e.type = type /\ e.status = status
  BY DEF Event
<1>2. ASSUME e \in seen PROVE FALSE
  <2>1. Truthful(e)
    BY <1>2, Fields DEF StripeSound
  <2>2. now \in Nat /\ sub[s].at \in Nat
    BY Fields
  <2>h. HIDE DEF e
  <2> QED
    BY <1>1, <2>1, <2>2 DEF Truthful, TerminalStatuses, Live, LiveStatuses
<1> QED
  BY <1>1, <1>2

\* What happens at Stripe keeps the claims and the row.
LEMMA RowAtStripe ==
    ASSUME Typed, Typed', StripeSound, Known, SessionsStay, RowSound, NEW s \in Checkouts,
           \/ PaymentFails(s) \/ CancelInPortal(s) \/ DisputeOpened(s) \/ SessionTimesOut(s)
           \/ \E ok \in BOOLEAN : PaymentRetried(s, ok)
           \/ \E status \in {"active", "incomplete"} : Pay(s, status)
           \/ \E status \in {"active", "incomplete_expired"} : Settle(s, status)
    PROVE  RowSound'
<1>0. /\ {"active", "past_due", "canceled", "incomplete", "incomplete_expired"} \subseteq Statuses
      /\ sub \in [Checkouts -> [status : Statuses, at : 0 .. MaxTime]] /\ now \in Nat
      /\ session \in [Checkouts -> [st : {"none", "open", "expired", "complete"}, at : 0 .. MaxTime, no : Nat]]
      /\ {"subscription", "payment_failed", "deleted"} \subseteq Reports
      /\ {"active", "past_due"} \subseteq LiveStatuses /\ {"canceled", "incomplete_expired"} \subseteq TerminalStatuses
      /\ "canceled" \notin LiveStatuses /\ "incomplete_expired" \notin LiveStatuses
  BY Fields DEF Statuses, TerminalStatuses, LiveStatuses, Typed, StripeTyped, Reports
<1>1. CASE PaymentFails(s)
  <2> DEFINE f == Event(s, "payment_failed", "none")
             e == Event(s, "subscription", "past_due")
  <2>0. /\ sub' = [sub EXCEPT ![s] = [status |-> "past_due", at |-> now]] /\ events' = events \cup {f, e}
        /\ session' = session /\ row' = row /\ attempt' = attempt /\ seen' = seen
        /\ Live(s) /\ Started(s) /\ sub[s].at < now
    BY <1>0, <1>1 DEF PaymentFails, Change, Live, Started
  <2>1. /\ f \notin seen /\ f.of = s /\ f.at = now /\ f.type = "payment_failed"
        /\ e \notin seen /\ e.of = s /\ e.at = now /\ e.type = "subscription" /\ e.status = "past_due"
    BY <1>0, <2>0, FreshReport
  <2>h. HIDE DEF e, f
  <2>2. sub'[s] = [status |-> "past_due", at |-> now] /\ \A t \in Checkouts : t # s => sub'[t] = sub[t]
    BY <1>0, <2>0
  <2>3. \E x \in Coming' : NewsOf(s, x)'
    <3>1. PICK x \in Coming' : x = e
      BY <2>0, <2>1 DEF Coming
    <3>2. \A g \in Coming' : g \in Coming \/ g.status = sub'[s].status \/ (g.type = "payment_failed" /\ sub'[s].status = "past_due")
      BY <2>0, <2>1, <2>2 DEF Coming
    <3>3. NewsOf(s, x)'
      BY <2>0, <2>1, <2>2, <3>1, <3>2, FreshNews
    <3> QED
      BY <3>3
  <2>4. \A g \in events' : g \in events \/ (g.of = s /\ g.at = now /\ g.type \in Reports)
    BY <1>0, <2>0, <2>1
  <2> QED
    BY <1>0, <2>0, <2>2, <2>3, <2>4, ChangeKeeps
<1>2. CASE CancelInPortal(s)
  <2> DEFINE e == Event(s, "deleted", "canceled")
  <2>0. /\ sub' = [sub EXCEPT ![s] = [status |-> "canceled", at |-> now]] /\ events' = events \cup {e}
        /\ session' = session /\ row' = row /\ attempt' = attempt /\ seen' = seen
        /\ Live(s)
    BY <1>0, <1>2 DEF CancelInPortal, Change
  <2>1. e \notin seen /\ e.of = s /\ e.at = now /\ e.type = "deleted" /\ e.status = "canceled"
    BY <1>0, <2>0, FreshReport
  <2>h. HIDE DEF e
  <2>2. sub'[s] = [status |-> "canceled", at |-> now] /\ \A t \in Checkouts : t # s => sub'[t] = sub[t]
    BY <1>0, <2>0
  <2>3. EndComing(s)'
    BY <1>0, <2>0, <2>1 DEF EndComing, Coming
  <2>4. \A g \in events' : g \in events \/ (g.of = s /\ g.at = now /\ g.type \in Reports)
    BY <1>0, <2>0, <2>1
  <2> QED
    BY <1>0, <2>0, <2>2, <2>3, <2>4, ChangeKeeps
<1>3. CASE DisputeOpened(s)
  <2>1. Event(s, "dispute", "none").type = "dispute" /\ Event(s, "dispute", "none").status = "none"
    BY DEF Event
  <2>2. \A t \in Checkouts : Created(t)' => Created(t)
    BY <1>3 DEF DisputeOpened, Created
  <2> QED
    BY <1>3, <2>1, <2>2, QuietKeeps DEF DisputeOpened
<1>4. CASE SessionTimesOut(s)
  <2>1. LET e == Event(s, "expired", "none") IN e.type = "expired" /\ e.status = "none" /\ e.of = s
    BY DEF Event
  <2>2. \A t \in Checkouts : (Created(t)' => Created(t)) /\ (session'[t].st = "open" => session[t].st = "open")
    BY <1>0, <1>4 DEF SessionTimesOut, Created
  <2> QED
    BY <1>4, <2>1, <2>2, QuietKeeps DEF SessionTimesOut
<1>5. ASSUME NEW ok \in BOOLEAN, PaymentRetried(s, ok) PROVE RowSound'
  <2>0. /\ session' = session /\ row' = row /\ attempt' = attempt /\ seen' = seen
        /\ Live(s) /\ Started(s) /\ sub[s].at < now /\ sub[s].status = "past_due"
    BY <1>0, <1>5 DEF PaymentRetried, Live, Started
  <2>1. CASE ok
    <3> DEFINE e == Event(s, "subscription", "active")
    <3>0. sub' = [sub EXCEPT ![s] = [status |-> "active", at |-> now]] /\ events' = events \cup {e}
      BY <1>5, <2>1 DEF PaymentRetried, Change
    <3>1. e \notin seen /\ e.of = s /\ e.at = now /\ e.type = "subscription" /\ e.status = "active"
      BY <1>0, <2>0, FreshReport
    <3>h. HIDE DEF e
    <3>2. sub'[s] = [status |-> "active", at |-> now] /\ \A t \in Checkouts : t # s => sub'[t] = sub[t]
      BY <1>0, <3>0
    <3>3. \E x \in Coming' : NewsOf(s, x)'
      <4>1. PICK x \in Coming' : x = e
        BY <2>0, <3>0, <3>1 DEF Coming
      <4>2. \A g \in Coming' : g \in Coming \/ g.status = sub'[s].status
        BY <2>0, <3>0, <3>1, <3>2 DEF Coming
      <4>3. NewsOf(s, x)'
        BY <2>0, <3>1, <3>2, <4>1, <4>2, FreshNews
      <4> QED
        BY <4>3
    <3>4. \A g \in events' : g \in events \/ (g.of = s /\ g.at = now /\ g.type \in Reports)
      BY <1>0, <3>0, <3>1
    <3> QED
      BY <1>0, <2>0, <3>0, <3>2, <3>3, <3>4, ChangeKeeps
  <2>2. CASE ~ok
    <3> DEFINE e == Event(s, "payment_failed", "none")
    <3>0. sub' = [sub EXCEPT ![s] = [status |-> "past_due", at |-> now]] /\ events' = events \cup {e}
      BY <1>5, <2>2 DEF PaymentRetried, Change
    <3>1. e.of = s /\ e.at = now /\ e.type = "payment_failed"
      BY <1>0, <2>0, FreshReport
    <3>h. HIDE DEF e
    <3>2. sub'[s] = [status |-> "past_due", at |-> now] /\ \A t \in Checkouts : t # s => sub'[t] = sub[t]
      BY <1>0, <3>0
    <3>3. UpToDate(s)' \/ \E x \in Coming' : NewsOf(s, x)'
      <4>1. \A g \in Coming : g \in Coming'
        BY <2>0, <3>0 DEF Coming
      <4>2. \A g \in Coming' : g \in Coming \/ g.type = "payment_failed"
        BY <2>0, <3>0, <3>1 DEF Coming
      <4> QED
        BY <2>0, <3>2, <4>1, <4>2, RowFollowsStay DEF RowSound
    <3>4. \A g \in events' : g \in events \/ (g.of = s /\ g.at = now /\ g.type \in Reports)
      BY <1>0, <3>0, <3>1
    <3> QED
      BY <1>0, <2>0, <3>0, <3>2, <3>3, <3>4, ChangeKeeps
  <2> QED
    BY <2>1, <2>2
<1>6. ASSUME NEW status \in {"active", "incomplete_expired"}, Settle(s, status) PROVE RowSound'
  <2> DEFINE e == Event(s, "subscription", status)
  <2>0. /\ sub' = [sub EXCEPT ![s] = [status |-> status, at |-> now]] /\ events' = events \cup {e}
        /\ session' = session /\ row' = row /\ attempt' = attempt /\ seen' = seen
        /\ sub[s].status = "incomplete" /\ Started(s) /\ sub[s].at < now
    BY <1>0, <1>6 DEF Settle, Change, Started
  <2>1. e \notin seen /\ e.of = s /\ e.at = now /\ e.type = "subscription" /\ e.status = status
    BY <1>0, <2>0, FreshReport
  <2>h. HIDE DEF e
  <2>2. sub'[s] = [status |-> status, at |-> now] /\ \A t \in Checkouts : t # s => sub'[t] = sub[t]
    BY <1>0, <2>0
  <2>3. \E x \in Coming' : NewsOf(s, x)'
    <3>1. PICK x \in Coming' : x = e
      BY <2>0, <2>1 DEF Coming
    <3>2. \A g \in Coming' : g \in Coming \/ g.status = sub'[s].status
      BY <2>0, <2>1, <2>2 DEF Coming
    <3>3. NewsOf(s, x)'
      BY <2>0, <2>1, <2>2, <3>1, <3>2, FreshNews
    <3> QED
      BY <3>3
  <2>4. \A g \in events' : g \in events \/ (g.of = s /\ g.at = now /\ g.type \in Reports)
    BY <1>0, <2>0, <2>1
  <2>5. sub'[s].status \in LiveStatuses \/ EndComing(s)'
    BY <1>0, <2>0, <2>1, <2>2 DEF EndComing, Coming
  <2> QED
    BY <1>0, <2>0, <2>2, <2>3, <2>4, <2>5, ChangeKeeps
<1>7. ASSUME NEW status \in {"active", "incomplete"}, Pay(s, status) PROVE RowSound'
  <2> DEFINE e == Event(s, "subscription", status)
  <2>0. /\ sub' = [sub EXCEPT ![s] = [status |-> status, at |-> now]] /\ events' = events \cup {e}
        /\ session' = [session EXCEPT ![s].st = "complete"] /\ row' = row /\ attempt' = attempt /\ seen' = seen
        /\ session[s].st = "open" /\ \A t \in Checkouts : Started(t) => sub[t].at < now
    BY <1>7 DEF Pay, Change, Started
  <2>1. e.of = s /\ e.at = now /\ e.type = "subscription" /\ e.status = status
    BY DEF Event
  <2>h. HIDE DEF e
  <2>2. /\ sub'[s] = [status |-> status, at |-> now] /\ session'[s].st = "complete"
        /\ \A t \in Checkouts : t # s => sub'[t] = sub[t] /\ session'[t] = session[t]
    BY <1>0, <2>0
  <2>3. ~Started(s) /\ Unsettled(s) /\ Unsettled(s)' /\ Started(s)'
    BY <1>0, <2>0, <2>2 DEF StripeSound, Unsettled, Pays, Live, Started
  <2>4. \A g \in events : g.of # s
    BY <2>0, <2>3 DEF StripeSound, Truthful
  <2>5. e \in Coming' /\ Coming \subseteq Coming' /\ \A g \in Coming' : g \in Coming \/ g = e
    <3>1. e \notin events
      BY <2>1, <2>4
    <3> QED
      BY <2>0, <3>1, Fields DEF Coming
  <2>6. \A t \in Checkouts : Unsettled(t)' <=> Unsettled(t)
    <3>1. ASSUME NEW t \in Checkouts, t # s PROVE Unsettled(t)' <=> Unsettled(t)
      <4>1. EndComing(t)' <=> EndComing(t)
        BY <2>1, <2>5, <3>1 DEF EndComing
      <4> QED
        BY <2>2, <3>1, <4>1 DEF Unsettled, Pays, Live
    <3> QED
      BY <2>3, <3>1
  <2>p. /\ Numbers /\ Guarded /\ PostsAlone /\ StoresOwn /\ SessionOfClaim
        /\ RowOfSubscription /\ LaterThanRow /\ LaterSubs /\ RowFollows
    BY DEF RowSound
  <2>7. Numbers' /\ Guarded' /\ PostsAlone' /\ StoresOwn' /\ SessionOfClaim'
    <3>1. \A t \in Checkouts : Created(t)' => Created(t)
      BY <2>0, <2>2 DEF Created
    <3>2. \A g \in Coming' : g.type = "expired" => g \in Coming
      BY <2>1, <2>5
    <3> QED
      BY <2>0, <2>6, <2>p, <3>1, <3>2, ClaimsStay DEF HasLiveSubscription
  <2>8. RowOfSubscription' /\ LaterThanRow' /\ LaterSubs'
    <3>1. ASSUME NEW t \in Checkouts, Started(t)
          PROVE  /\ Started(t)' /\ (sub[t].status # "incomplete" => sub'[t].status # "incomplete")
                 /\ sub[t].at <= sub'[t].at /\ (Unsettled(t)' <=> Unsettled(t))
      <4>1. t # s
        BY <2>3, <3>1
      <4> QED
        BY <2>2, <2>6, <3>1, <4>1, Fields DEF Started
    <3>2. ASSUME NEW t \in Checkouts, Started(t)', ~Started(t) PROVE row.last < sub'[t].at
      <4>1. t = s
        BY <2>2, <3>2 DEF Started
      <4>2. CASE row.sub = 0
        BY <1>0, <2>2, <2>p, <4>1, <4>2 DEF RowOfSubscription
      <4>3. CASE row.sub # 0
        <5>1. row.sub \in Checkouts /\ sub[row.sub].at < now /\ row.last <= sub[row.sub].at /\ sub[row.sub].at \in Nat /\ row.last \in Int
          BY <2>0, <2>p, <4>3, Fields DEF RowOfSubscription
        <5> QED
          BY <1>0, <2>2, <4>1, <5>1
      <4> QED
        BY <4>2, <4>3
    <3>3. \A g \in Coming' : g.type \in Reports => g \in Coming \/ (Unsettled(g.of)' /\ Started(g.of)' /\ g.at = sub'[g.of].at)
      BY <2>1, <2>2, <2>3, <2>5
    <3> QED
      BY <2>0, <2>p, <3>1, <3>2, <3>3, RowStays
  <2>9. RowFollows'
    <3>1. ASSUME NEW t \in Checkouts, Live(t)' PROVE UpToDate(t)' \/ \E g \in Coming' : NewsOf(t, g)'
      <4>1. CASE t = s
        <5>1. PICK x \in Coming' : x = e
          BY <2>5
        <5>2. \A g \in Coming' : g.of = s => Harmless(s, g)'
          BY <2>1, <2>2, <2>4, <2>5 DEF Coming, Harmless
        <5>3. row.sub # s
          BY <2>3, <2>p, BillingBounds DEF RowOfSubscription
        <5>4. NewsOf(s, x)'
          BY <2>0, <2>1, <2>2, <5>1, <5>2, <5>3 DEF NewsOf, HarmlessFrom
        <5> QED
          BY <4>1, <5>4
      <4>2. CASE t # s
        <5>1. sub'[t].status = sub[t].status /\ Live(t)
          BY <2>2, <3>1, <4>2 DEF Live
        <5>2. \A g \in Coming' : g \in Coming \/ g.of # t
          BY <2>1, <2>5, <4>2
        <5> QED
          BY <2>0, <2>5, <2>p, <5>1, <5>2, RowFollowsStay
      <4> QED
        BY <4>1, <4>2
    <3> QED
      BY <3>1 DEF RowFollows
  <2> QED
    BY <2>7, <2>8, <2>9 DEF RowSound
<1> QED
  BY <1>1, <1>2, <1>3, <1>4, <1>5, <1>6, <1>7

-----------------------------------------------------------------------------
(* The requests *)

\* A request leaves what the row says of the subscription.
LEMMA AttemptRow ==
    ASSUME Typed, Typed', StripeSound, RowSound, sub' = sub, seen' = seen,
           row'.sub = row.sub, row'.status = row.status, row'.last = row.last,
           events \subseteq events',
           \A e \in events' : e \in events \/ (e.type = "expired" /\ e.status = "none"),
           \A t \in Checkouts : Started(t) => session'[t] = session[t]
    PROVE  /\ RowOfSubscription' /\ LaterThanRow' /\ LaterSubs' /\ RowFollows'
           /\ HasLiveSubscription' <=> HasLiveSubscription
           /\ \A t \in Checkouts : (Unsettled(t)' /\ session'[t].st # "open") => Unsettled(t)
           /\ \A t \in Checkouts : (Unsettled(t)' /\ session[t].st = session'[t].st) => Unsettled(t)
<1>0. RowOfSubscription /\ LaterThanRow /\ LaterSubs /\ RowFollows
  BY DEF RowSound
<1>1. Coming \subseteq Coming' /\ \A e \in Coming' : e \in Coming \/ (e.type = "expired" /\ e.status = "none")
  BY DEF Coming
<1>2. \A t \in Checkouts : (EndComing(t)' <=> EndComing(t)) /\ (Live(t)' <=> Live(t)) /\ sub'[t] = sub[t]
  BY <1>1 DEF EndComing, TerminalStatuses, Live
<1>3. \A t \in Checkouts : Started(t) => (Unsettled(t)' <=> Unsettled(t))
  BY <1>2 DEF Unsettled, Pays
<1>4. RowOfSubscription' /\ LaterThanRow' /\ LaterSubs'
  <2>1. \A t \in Checkouts : (Started(t)' <=> Started(t)) /\ sub[t].at <= sub'[t].at
    BY Fields DEF Started
  <2>2. \A e \in Coming' : e.type \in Reports => e \in Coming
    BY <1>1 DEF Reports
  <2> QED
    BY <1>0, <1>3, <2>1, <2>2, RowStays
<1>5. RowFollows'
  <2>1. ASSUME NEW t \in Checkouts, Live(t)' PROVE UpToDate(t)' \/ \E e \in Coming' : NewsOf(t, e)'
    <3>1. Live(t) /\ sub'[t].status = sub[t].status
      BY <1>2, <2>1
    <3>2. \A e \in Coming' : e \in Coming \/ e.type \in {"expired", "dispute"}
      BY <1>1
    <3> QED
      BY <1>0, <1>1, <3>1, <3>2, RowFollowsStay
  <2> QED
    BY <2>1 DEF RowFollows
<1>6. HasLiveSubscription' <=> HasLiveSubscription
  BY DEF HasLiveSubscription
<1>7. \A t \in Checkouts : (Unsettled(t)' /\ (session'[t].st # "open" \/ session'[t].st = session[t].st)) => Unsettled(t)
  BY <1>2 DEF Unsettled, Pays
<1> QED
  BY <1>4, <1>5, <1>6, <1>7

\* The claim goes: nothing is unsettled but the subscription of the row, nobody is about to post,
\* and whoever has yet to store the session of this claim stores a paid one.
LEMMA UnclaimKeeps ==
    ASSUME Typed, Known, Numbers, StoresOwn,
           row'.claim = -1, row'.session = 0, row'.no = row.no, session' = session,
           \A t \in Checkouts : Unsettled(t)' => HasLiveSubscription' /\ row'.sub = t,
           \A p \in Buyers : /\ attempt'[p].pc # "post" /\ attempt'[p].no <= row.no
                             /\ attempt'[p].sid \in {0, attempt[p].sid}
                             /\ attempt'[p].pc = "store" =>
                                    /\ attempt[p].pc = "store" /\ attempt'[p].sid = attempt[p].sid /\ attempt'[p].no = attempt[p].no
                                    /\ attempt[p].no = row.no => session[attempt[p].sid].st = "complete"
    PROVE  Numbers' /\ Guarded' /\ PostsAlone' /\ StoresOwn' /\ SessionOfClaim'
<1>1. Numbers'
  BY DEF Numbers, Created
<1>2. Guarded'
  BY DEF Guarded
<1>3. PostsAlone'
  BY DEF PostsAlone
<1>4. StoresOwn'
  <2>1. ASSUME NEW p \in Buyers, attempt'[p].pc = "store"
        PROVE  /\ session'[attempt'[p].sid].no = attempt'[p].no
               /\ row'.session # attempt'[p].sid
               /\ \A q \in Buyers : q # p => attempt'[q].sid # attempt'[p].sid
               /\ attempt'[p].no = row'.no /\ row'.claim < 0 => session'[attempt'[p].sid].st = "complete"
    <3>1. attempt[p].pc = "store" /\ attempt'[p].sid = attempt[p].sid /\ attempt'[p].no = attempt[p].no /\ attempt[p].sid # 0
      BY <2>1 DEF Known
    <3> QED
      BY <2>1, <3>1 DEF StoresOwn
  <2> QED
    BY <2>1 DEF StoresOwn
<1>5. SessionOfClaim'
  BY DEF SessionOfClaim
<1> QED
  BY <1>1, <1>2, <1>3, <1>4, <1>5

\* A new claim: the row has none, or one of which nothing is left.
LEMMA ClaimKeeps ==
    ASSUME Typed, Typed', StripeSound, Known, RowSound, NEW o \in Buyers, Claimable,
           row' = Claimed, sub' = sub, seen' = seen, events' = events, session' = session,
           attempt' = [attempt EXCEPT ![o] = [pc |-> "post", sid |-> 0, no |-> row.no + 1]],
           ~(row.claim >= 0 /\ ~FreshClaim /\ Underway)
    PROVE  RowSound'
<1>0. /\ row'.claim = now /\ row'.no = row.no + 1 /\ row'.session = row.session
      /\ row'.sub = row.sub /\ row'.status = row.status /\ row'.last = row.last
      /\ now \in Nat /\ row.no \in Nat /\ row.claim \in Int
      /\ \A t \in Checkouts : session[t].no \in Nat
      /\ \A p \in Buyers : attempt[p].no \in Nat
  BY ClaimsTyped, Fields
<1>1. /\ attempt'[o].pc = "post" /\ attempt'[o].sid = 0 /\ attempt'[o].no = row.no + 1
      /\ \A p \in Buyers : p # o => attempt'[p] = attempt[p]
  BY DEF Typed, BillingTypeOK
<1>2. ~HasLiveSubscription /\ (row.claim < 0 \/ ~Underway)
  BY <1>0 DEF Claimable
<1>3. (\A t \in Checkouts : ~Unsettled(t)) /\ \A p \in Buyers : attempt[p].pc # "post"
  <2>1. CASE row.claim < 0
    BY <1>0, <1>2, <2>1 DEF RowSound, Guarded, PostsAlone
  <2>2. CASE ~Underway
    BY <2>2 DEF Underway, Payable, Unsettled, Pays, EndComing, Coming
  <2> QED
    BY <1>2, <2>1, <2>2
<1>4. /\ RowOfSubscription' /\ LaterThanRow' /\ LaterSubs' /\ RowFollows'
      /\ ~HasLiveSubscription' /\ \A t \in Checkouts : ~Unsettled(t)'
  BY <1>0, <1>2, <1>3, AttemptRow
<1>5. Numbers'
  <2>1. ASSUME NEW p \in Buyers PROVE attempt'[p].no <= row.no + 1
    BY <1>0, <1>1 DEF RowSound, Numbers
  <2>2. \A t \in Checkouts : Created(t)' => session'[t].no <= row.no + 1
    BY <1>0 DEF RowSound, Numbers, Created
  <2> QED
    BY <1>0, <2>1, <2>2 DEF RowSound, Numbers, Created
<1>6. Guarded'
  BY <1>4 DEF Guarded
<1>7. PostsAlone'
  <2>1. \A t \in Checkouts : Created(t)' => session'[t].no # row.no + 1
    BY <1>0 DEF RowSound, Numbers, Created
  <2>2. ASSUME NEW p \in Buyers, attempt'[p].pc = "post" PROVE p = o
    BY <1>1, <1>3, <2>2
  <2> QED
    BY <1>0, <1>1, <2>1, <2>2 DEF PostsAlone
<1>8. StoresOwn'
  <2>1. ASSUME NEW p \in Buyers, attempt'[p].pc = "store"
        PROVE  /\ session'[attempt'[p].sid].no = attempt'[p].no
               /\ row'.session # attempt'[p].sid
               /\ \A q \in Buyers : q # p => attempt'[q].sid # attempt'[p].sid
               /\ ~(attempt'[p].no = row'.no /\ row'.claim < 0)
    <3>1. p # o /\ attempt'[p] = attempt[p] /\ attempt[p].sid # 0
      BY <1>1, <2>1 DEF Known
    <3> QED
      BY <1>0, <1>1, <2>1, <3>1 DEF RowSound, StoresOwn
  <2> QED
    BY <2>1 DEF StoresOwn
<1>9. SessionOfClaim'
  <2>1. CASE row.session # 0 /\ session[row.session].st = "complete"
    BY <1>0, <2>1 DEF SessionOfClaim
  <2>2. CASE row.session # 0 /\ session[row.session].st # "complete"
    <3>1. row.claim >= 0
      BY <2>2 DEF RowSound, SessionOfClaim
    <3>2. Coming' = {}
      BY <1>0, <1>2, <3>1 DEF Underway, Coming
    <3> QED
      BY <1>0, <3>2 DEF SessionOfClaim
  <2>3. CASE row.session = 0
    BY <1>0, <2>3 DEF SessionOfClaim
  <2> QED
    BY <2>1, <2>2, <2>3
<1> QED
  BY <1>4, <1>5, <1>6, <1>7, <1>8, <1>9 DEF RowSound

\* A request looks at a session, lets it expire or gives up.
LEMMA MoveKeeps ==
    ASSUME Typed, Typed', StripeSound, Known, SessionsStay, RowSound, NEW o \in Buyers,
           sub' = sub, seen' = seen, row' = row,
           \A p \in Buyers : p # o => attempt'[p] = attempt[p],
           attempt'[o].pc \notin {"post", "store"}, attempt'[o].sid \in {0, attempt[o].sid, row.session}, attempt'[o].no <= row.no,
           \/ session' = session /\ events' = events
           \/ \E s \in Checkouts : /\ session[s].st = "open" /\ session' = [session EXCEPT ![s].st = "expired"]
                                   /\ events' = events \cup {Event(s, "expired", "none")}
    PROVE  RowSound'
<1>0. /\ session \in [Checkouts -> [st : {"none", "open", "expired", "complete"}, at : 0 .. MaxTime, no : Nat]]
      /\ Numbers /\ Guarded /\ PostsAlone /\ StoresOwn /\ SessionOfClaim
  BY DEF Typed, StripeTyped, RowSound
<1>1. /\ events \subseteq events'
      /\ \A e \in events' : e \in events \/ (e.type = "expired" /\ e.status = "none" /\ e.of \in Checkouts /\ session[e.of].st = "open")
      /\ \A t \in Checkouts : /\ Started(t) => session'[t] = session[t]
                              /\ Created(t)' => Created(t)
                              /\ session'[t].st = "open" => session[t].st = "open"
  <2>1. CASE session' = session /\ events' = events
    BY <2>1 DEF Created
  <2>2. ASSUME NEW s \in Checkouts, session[s].st = "open", session' = [session EXCEPT ![s].st = "expired"],
               events' = events \cup {Event(s, "expired", "none")}
        PROVE  <1>1
    <3>1. LET e == Event(s, "expired", "none") IN e.type = "expired" /\ e.status = "none" /\ e.of = s
      BY DEF Event
    <3>2. ~Started(s)
      BY <2>2 DEF StripeSound
    <3> QED
      BY <1>0, <2>2, <3>1, <3>2 DEF Created
  <2> QED
    BY <2>1, <2>2
<1>2. /\ RowOfSubscription' /\ LaterThanRow' /\ LaterSubs' /\ RowFollows'
      /\ HasLiveSubscription' <=> HasLiveSubscription
      /\ \A t \in Checkouts : (Unsettled(t)' /\ session'[t].st # "open") => Unsettled(t)
  BY <1>1, AttemptRow
<1>3. \A t \in Checkouts : Unsettled(t)' => Unsettled(t)
  BY <1>1, <1>2 DEF Unsettled, Pays
<1>4. \A e \in Coming' : e.type = "expired" => e \in Coming \/ (e.of \in Checkouts /\ Unsettled(e.of))
  BY <1>1 DEF Coming, Unsettled, Pays
<1>5. \A p \in Buyers : /\ attempt'[p].no <= row.no
                        /\ attempt'[p].pc \in {"post", "store"} => attempt'[p] = attempt[p]
                        /\ attempt'[p].sid \in {0, attempt[p].sid, row.session}
  <2>1. ASSUME NEW p \in Buyers, p # o PROVE attempt'[p] = attempt[p] /\ attempt[p].no <= row.no
    BY <1>0, <2>1 DEF Numbers
  <2> QED
    BY <2>1
<1>6. Numbers' /\ Guarded' /\ PostsAlone' /\ StoresOwn' /\ SessionOfClaim'
  BY <1>0, <1>1, <1>2, <1>3, <1>4, <1>5, ClaimsStay
<1> QED
  BY <1>2, <1>6 DEF RowSound

\* The claim that goes is the one of a session that has expired.
LEMMA ReleaseKeeps ==
    ASSUME Typed, Typed', StripeSound, Known, RowSound, NEW o \in Buyers, ReleaseClaim(o),
           row.claim < 0 \/ session[attempt[o].sid].no = row.no
    PROVE  RowSound'
<1>0. /\ Numbers /\ Guarded /\ PostsAlone /\ StoresOwn /\ SessionOfClaim
      /\ row'.claim = -1 /\ row'.session = 0 /\ row'.no = row.no
      /\ row'.sub = row.sub /\ row'.status = row.status /\ row'.last = row.last
      /\ sub' = sub /\ seen' = seen /\ session' = session /\ events' = events
      /\ row.claim \in Int
  BY ClaimsTyped, Fields DEF RowSound, ReleaseClaim
<1>1. /\ attempt[o].pc = "release" /\ attempt'[o].pc = "again" /\ attempt'[o].sid = attempt[o].sid /\ attempt'[o].no = attempt[o].no
      /\ \A p \in Buyers : p # o => attempt'[p] = attempt[p]
  BY DEF ReleaseClaim, Typed, BillingTypeOK
<1>2. /\ attempt[o].sid \in Checkouts /\ session[attempt[o].sid].st = "expired" /\ Created(attempt[o].sid)
  BY <1>1, Fields DEF Known
<1>3. /\ RowOfSubscription' /\ LaterThanRow' /\ LaterSubs' /\ RowFollows'
      /\ HasLiveSubscription' <=> HasLiveSubscription
      /\ \A t \in Checkouts : Unsettled(t)' => Unsettled(t)
  BY <1>0, AttemptRow
<1>4. ASSUME NEW t \in Checkouts, Unsettled(t) PROVE HasLiveSubscription /\ row.sub = t
  <2>1. CASE row.claim < 0
    BY <1>0, <1>4, <2>1 DEF Guarded
  <2>2. CASE session[attempt[o].sid].no = row.no
    <3>1. Created(t) /\ session[t].st # "expired"
      BY <1>4, UnsettledCreated
    <3>2. session[t].no # row.no
      BY <1>0, <1>2, <2>2, <3>1 DEF Numbers
    <3> QED
      BY <1>0, <1>4, <3>2 DEF Guarded
  <2> QED
    BY <2>1, <2>2
<1>5. ASSUME NEW p \in Buyers
      PROVE  /\ attempt'[p].pc # "post" /\ attempt'[p].no <= row.no
             /\ attempt'[p].sid \in {0, attempt[p].sid}
             /\ attempt'[p].pc = "store" =>
                    /\ attempt[p].pc = "store" /\ attempt'[p].sid = attempt[p].sid /\ attempt'[p].no = attempt[p].no
                    /\ attempt[p].no = row.no => session[attempt[p].sid].st = "complete"
  <2>0. attempt[p].no <= row.no /\ attempt'[p].no = attempt[p].no /\ attempt'[p].sid = attempt[p].sid
    BY <1>0, <1>1 DEF Numbers
  <2>1. CASE p = o
    BY <1>1, <2>0, <2>1
  <2>2. CASE p # o
    <3>1. attempt[p].pc # "post"
      BY <1>0, <1>2 DEF PostsAlone
    <3>2. ASSUME attempt[p].pc = "store", attempt[p].no = row.no PROVE session[attempt[p].sid].st = "complete"
      <4>1. session[attempt[p].sid].no = row.no /\ attempt[o].sid # attempt[p].sid
            /\ attempt[p].sid \in Checkouts /\ Created(attempt[p].sid)
        BY <1>0, <2>2, <3>2, Fields DEF StoresOwn, Known
      <4>2. row.claim < 0
        BY <1>0, <1>2, <4>1 DEF Numbers
      <4> QED
        BY <1>0, <3>2, <4>2 DEF StoresOwn
    <3> QED
      BY <1>1, <2>0, <2>2, <3>1, <3>2
  <2> QED
    BY <2>1, <2>2
<1>6. Numbers' /\ Guarded' /\ PostsAlone' /\ StoresOwn' /\ SessionOfClaim'
  <2>1. \A t \in Checkouts : Unsettled(t)' => HasLiveSubscription' /\ row'.sub = t
    BY <1>0, <1>3, <1>4
  <2> QED
    BY <1>0, <1>5, <2>1, UnclaimKeeps
<1> QED
  BY <1>3, <1>6 DEF RowSound

\* The one who holds the claim makes its session, and nothing else is unsettled.
LEMMA PostKeeps ==
    ASSUME Typed, Typed', StripeSound, Known, RowSound, NEW o \in Buyers, Post(o)
    PROVE  RowSound'
<1>0. /\ Numbers /\ Guarded /\ PostsAlone /\ StoresOwn /\ SessionOfClaim
      /\ session \in [Checkouts -> [st : {"none", "open", "expired", "complete"}, at : 0 .. MaxTime, no : Nat]]
      /\ sub' = sub /\ seen' = seen /\ events' = events /\ row' = row /\ attempt[o].pc = "post"
  BY DEF RowSound, Post, Typed, StripeTyped
<1>1. row.claim >= 0 /\ attempt[o].no = row.no /\ \A s \in Checkouts : Created(s) => session[s].no # row.no
  BY <1>0 DEF PostsAlone
<1>2. SameKey = {}
  BY <1>1 DEF SameKey, Created
<1>3. PICK s \in Checkouts :
          /\ session[s].st = "none" /\ session' = [session EXCEPT ![s] = [st |-> "open", at |-> now, no |-> row.no]]
          /\ attempt' = [attempt EXCEPT ![o] = [pc |-> "store", sid |-> s, no |-> @.no]]
  BY <1>1, <1>2 DEF Post, Unused
<1>4. /\ session'[s].st = "open" /\ session'[s].no = row.no /\ ~Created(s) /\ ~Started(s)
      /\ \A t \in Checkouts : t # s => session'[t] = session[t]
      /\ attempt'[o].pc = "store" /\ attempt'[o].sid = s /\ attempt'[o].no = row.no
      /\ \A p \in Buyers : p # o => attempt'[p] = attempt[p]
  BY <1>0, <1>1, <1>3 DEF Created, StripeSound, Typed, BillingTypeOK
<1>5. /\ RowOfSubscription' /\ LaterThanRow' /\ LaterSubs' /\ RowFollows'
      /\ HasLiveSubscription' <=> HasLiveSubscription
      /\ \A t \in Checkouts : (Unsettled(t)' /\ session'[t].st = session[t].st) => Unsettled(t)
  <2>1. \A t \in Checkouts : Started(t) => session'[t] = session[t]
    BY <1>4
  <2> QED
    BY <1>0, <2>1, AttemptRow
<1>6. \A t \in Checkouts : Unsettled(t)' => t = s
  <2>1. \A t \in Checkouts : ~Unsettled(t)
    BY <1>0, <1>1, UnsettledCreated DEF Guarded
  <2> QED
    BY <1>4, <1>5, <2>1
<1>7. Numbers'
  <2>1. ASSUME NEW t \in Checkouts, Created(t)', t # s PROVE Created(t) /\ session'[t].no = session[t].no /\ session[t].no # row.no
    BY <1>1, <1>4, <2>1 DEF Created
  <2>2. \A p \in Buyers : attempt'[p].no <= row.no
    BY <1>0, <1>4, Fields DEF Numbers
  <2> QED
    BY <1>0, <1>4, <2>1, <2>2, Fields DEF Numbers
<1>8. Guarded'
  BY <1>0, <1>1, <1>4, <1>5, <1>6 DEF Guarded
<1>9. PostsAlone'
  <2>1. \A p \in Buyers : attempt'[p].pc # "post"
    BY <1>0, <1>4 DEF PostsAlone
  <2> QED
    BY <2>1 DEF PostsAlone
<1>10. StoresOwn'
  <2>0. /\ row.session # s /\ \A p \in Buyers : attempt[p].sid # s
    BY <1>4, Fields DEF Known
  <2>1. ASSUME NEW p \in Buyers, attempt'[p].pc = "store"
        PROVE  /\ session'[attempt'[p].sid].no = attempt'[p].no
               /\ row'.session # attempt'[p].sid
               /\ \A q \in Buyers : q # p => attempt'[q].sid # attempt'[p].sid
               /\ ~(attempt'[p].no = row'.no /\ row'.claim < 0)
    <3>0. ~(row'.claim < 0)
      BY <1>0, <1>1, Fields
    <3>1. CASE p = o
      BY <1>0, <1>4, <2>0, <3>0, <3>1
    <3>2. CASE p # o
      <4>1. attempt'[p] = attempt[p] /\ attempt[p].sid \in Checkouts /\ attempt[p].sid # s
        BY <1>4, <2>0, <2>1, <3>2, Fields DEF Known
      <4> QED
        BY <1>0, <1>4, <2>1, <3>0, <3>2, <4>1 DEF StoresOwn
    <3> QED
      BY <3>1, <3>2
  <2> QED
    BY <2>1 DEF StoresOwn
<1>11. SessionOfClaim'
  <2>1. row.session # 0 => row.session \in Checkouts /\ row.session # s
    BY <1>4, Fields DEF Known
  <2>2. Coming' = Coming
    BY <1>0 DEF Coming
  <2> QED
    BY <1>0, <1>4, <2>1, <2>2 DEF SessionOfClaim
<1> QED
  BY <1>5, <1>7, <1>8, <1>9, <1>10, <1>11 DEF RowSound

\* The one who holds the claim gives it back, and has made no session.
LEMMA PostFailsKeeps ==
    ASSUME Typed, Typed', StripeSound, Known, RowSound, ws # "gone", NEW o \in Buyers, PostFails(o, FALSE)
    PROVE  RowSound'
<1>0. /\ Numbers /\ Guarded /\ PostsAlone /\ StoresOwn /\ SessionOfClaim
      /\ row'.claim = -1 /\ row'.session = 0 /\ row'.no = row.no
      /\ row'.sub = row.sub /\ row'.status = row.status /\ row'.last = row.last
      /\ sub' = sub /\ seen' = seen /\ session' = session /\ events' = events /\ attempt[o].pc = "post"
  BY ClaimsTyped DEF RowSound, PostFails
<1>1. /\ attempt'[o].pc = "idle" /\ attempt'[o].sid = 0 /\ attempt'[o].no = 0
      /\ \A p \in Buyers : p # o => attempt'[p] = attempt[p]
  BY DEF PostFails, Typed, BillingTypeOK, NoRequest
<1>2. row.claim >= 0 /\ \A s \in Checkouts : Created(s) => session[s].no # row.no
  BY <1>0 DEF PostsAlone
<1>3. /\ RowOfSubscription' /\ LaterThanRow' /\ LaterSubs' /\ RowFollows'
      /\ \A t \in Checkouts : Unsettled(t)' => Unsettled(t)
  BY <1>0, AttemptRow
<1>4. \A t \in Checkouts : ~Unsettled(t)
  BY <1>0, <1>2, UnsettledCreated DEF Guarded
<1>5. ASSUME NEW p \in Buyers
      PROVE  /\ attempt'[p].pc # "post" /\ attempt'[p].no <= row.no
             /\ attempt'[p].sid \in {0, attempt[p].sid}
             /\ attempt'[p].pc = "store" =>
                    /\ attempt[p].pc = "store" /\ attempt'[p].sid = attempt[p].sid /\ attempt'[p].no = attempt[p].no
                    /\ attempt[p].no = row.no => session[attempt[p].sid].st = "complete"
  <2>1. CASE p = o
    BY <1>1, <2>1, Fields
  <2>2. CASE p # o
    <3>1. attempt'[p] = attempt[p] /\ attempt[p].pc # "post" /\ attempt[p].no <= row.no
      BY <1>0, <1>1, <2>2 DEF PostsAlone, Numbers
    <3>2. attempt[p].pc = "store" => attempt[p].no # row.no
      BY <1>0, <1>2, Fields DEF StoresOwn, Known
    <3> QED
      BY <3>1, <3>2
  <2> QED
    BY <2>1, <2>2
<1>6. Numbers' /\ Guarded' /\ PostsAlone' /\ StoresOwn' /\ SessionOfClaim'
  BY <1>0, <1>3, <1>4, <1>5, UnclaimKeeps
<1> QED
  BY <1>3, <1>6 DEF RowSound

\* The session that is stored is the one of the claim.
LEMMA StoreKeeps ==
    ASSUME Typed, Typed', StripeSound, Known, RowSound, ws # "gone", NEW o \in Buyers, StoreSession(o), row.no = attempt[o].no
    PROVE  RowSound'
<1>0. /\ Numbers /\ Guarded /\ PostsAlone /\ StoresOwn /\ SessionOfClaim
      /\ sub' = sub /\ seen' = seen /\ session' = session /\ events' = events /\ attempt[o].pc = "store"
      /\ row.claim \in Int
  BY Fields DEF RowSound, StoreSession
<1>r. /\ row'.claim = row.claim /\ row'.session = attempt[o].sid /\ row'.no = row.no
      /\ row'.sub = row.sub /\ row'.status = row.status /\ row'.last = row.last
  <2>1. row \in [sub : Checkouts \cup {0}, status : Statuses, last : -1 .. MaxTime, grace : 0 .. MaxTime + Grace,
                 claim : -1 .. MaxTime, no : Nat, session : Checkouts \cup {0}]
    BY DEF Typed, BillingTypeOK
  <2> QED
    BY <2>1 DEF StoreSession
<1>1. /\ attempt'[o].pc = "idle" /\ attempt'[o].sid = 0 /\ attempt'[o].no = 0
      /\ \A p \in Buyers : p # o => attempt'[p] = attempt[p]
  BY DEF StoreSession, Typed, BillingTypeOK, NoRequest
<1>2. /\ RowOfSubscription' /\ LaterThanRow' /\ LaterSubs' /\ RowFollows'
      /\ HasLiveSubscription' <=> HasLiveSubscription
      /\ \A t \in Checkouts : Unsettled(t)' => Unsettled(t)
  BY <1>0, <1>r, AttemptRow
<1>3. Numbers'
  <2>1. \A p \in Buyers : attempt'[p].no <= row.no
    BY <1>0, <1>1, Fields DEF Numbers
  <2> QED
    BY <1>0, <1>r, <2>1 DEF Numbers, Created
<1>4. Guarded'
  BY <1>0, <1>r, <1>2 DEF Guarded
<1>5. PostsAlone'
  BY <1>0, <1>r, <1>1 DEF PostsAlone, Created
<1>6. StoresOwn'
  <2>1. ASSUME NEW p \in Buyers, attempt'[p].pc = "store"
        PROVE  /\ session'[attempt'[p].sid].no = attempt'[p].no
               /\ row'.session # attempt'[p].sid
               /\ \A q \in Buyers : q # p => attempt'[q].sid # attempt'[p].sid
               /\ attempt'[p].no = row'.no /\ row'.claim < 0 => session'[attempt'[p].sid].st = "complete"
    <3>1. p # o /\ attempt'[p] = attempt[p] /\ attempt[p].sid # 0
      BY <1>1, <2>1 DEF Known
    <3> QED
      BY <1>0, <1>r, <1>1, <2>1, <3>1 DEF StoresOwn
  <2> QED
    BY <2>1 DEF StoresOwn
<1>7. SessionOfClaim'
  <2>1. session[attempt[o].sid].no = row.no /\ (row.claim < 0 => session[attempt[o].sid].st = "complete")
    BY <1>0 DEF StoresOwn
  <2> QED
    BY <1>0, <1>r, <2>1 DEF SessionOfClaim
<1> QED
  BY <1>2, <1>3, <1>4, <1>5, <1>6, <1>7 DEF RowSound

-----------------------------------------------------------------------------
(* Webhooks that arrive *)

\* A webhook that came and will not be applied again; nothing else happens outside the row.
Dropped(e) == session' = session /\ sub' = sub /\ attempt' = attempt /\ Coming' = Coming \ {e}

\* A webhook that arrives is dropped, and changes the row unless it is known.
LEMMA DeliverDrops ==
    ASSUME Typed, ws # "gone", NEW e \in events, NEW again \in BOOLEAN, Deliver(e, again)
    PROVE  /\ Dropped(e) /\ ws' = ws /\ now' = now /\ loose' = loose /\ e.type # "dispute"
           /\ row' = IF e \in Coming THEN Applied(e) ELSE row
<1>1. seen \subseteq events
  BY Fields
<1>2. Coming' = Coming \ {e}
  <2>1. CASE again
    BY <2>1 DEF Deliver, Coming
  <2>2. CASE ~again
    BY <1>1, <2>2 DEF Deliver, Coming
  <2> QED
    BY <2>1, <2>2
<1> QED
  BY <1>2 DEF Deliver, Dropped, Coming

\* What a dropped webhook leaves as it was.
LEMMA DroppedStays ==
    ASSUME NEW e, Dropped(e)
    PROVE  /\ \A t \in Checkouts : /\ Live(t)' <=> Live(t)
                                   /\ Created(t)' <=> Created(t)
                                   /\ Started(t)' <=> Started(t)
                                   /\ Unsettled(t)' => Unsettled(t)
                                   /\ (e.of # t \/ e.status \notin TerminalStatuses \/ e \notin Coming) => (Unsettled(t)' <=> Unsettled(t))
           /\ \A f \in Coming' : f \in Coming /\ f # e
           /\ \A t \in Checkouts : \A b : HarmlessFrom(t, b) => \A f \in Coming' : f.of = t /\ f.at >= b => Harmless(t, f)'
           /\ SessionsStay
<1>1. \A f : f \in Coming' <=> f \in Coming /\ f # e
  BY DEF Dropped
<1>2. \A t \in Checkouts : /\ Live(t)' <=> Live(t)
                           /\ Created(t)' <=> Created(t)
                           /\ Started(t)' <=> Started(t)
                           /\ Pays(t)' <=> Pays(t)
  BY DEF Dropped, Live, Created, Started, Pays
<1>3. ASSUME NEW t \in Checkouts
      PROVE  /\ EndComing(t)' => EndComing(t)
             /\ (e.of # t \/ e.status \notin TerminalStatuses \/ e \notin Coming) => (EndComing(t)' <=> EndComing(t))
  BY <1>1 DEF EndComing
<1>4. ASSUME NEW t \in Checkouts, NEW b, HarmlessFrom(t, b), NEW f \in Coming', f.of = t, f.at >= b PROVE Harmless(t, f)'
  BY <1>1, <1>4 DEF HarmlessFrom, Harmless, Dropped
<1>5. SessionsStay
  BY DEF SessionsStay, Dropped, Created
<1>6. \A t \in Checkouts : \A b : HarmlessFrom(t, b) => \A f \in Coming' : f.of = t /\ f.at >= b => Harmless(t, f)'
  BY <1>4
<1>7. \A t \in Checkouts : /\ Unsettled(t)' => Unsettled(t)
                           /\ (e.of # t \/ e.status \notin TerminalStatuses \/ e \notin Coming) => (Unsettled(t)' <=> Unsettled(t))
  BY <1>2, <1>3 DEF Unsettled
<1> QED
  BY <1>1, <1>2, <1>5, <1>6, <1>7

\* A webhook that is no end and no news leaves everything as it was.
LEMMA DropKeeps ==
    ASSUME Typed, Typed', StripeSound, Known, RowSound, NEW e, Dropped(e), row' = row,
           e \in Coming => /\ e.status \notin TerminalStatuses
                           /\ \A t \in Checkouts : Live(t) /\ NewsOf(t, e) => UpToDate(t)
    PROVE  RowSound'
<1>0. /\ Numbers /\ Guarded /\ PostsAlone /\ StoresOwn /\ SessionOfClaim
      /\ RowOfSubscription /\ LaterThanRow /\ LaterSubs /\ RowFollows
      /\ sub' = sub /\ attempt' = attempt
      /\ \A t \in Checkouts : sub[t].at \in Nat
  BY Fields DEF RowSound, Dropped
<1>1. /\ \A t \in Checkouts : /\ Live(t)' <=> Live(t)
                              /\ Created(t)' <=> Created(t)
                              /\ Started(t)' <=> Started(t)
                              /\ Unsettled(t)' <=> Unsettled(t)
      /\ \A f \in Coming' : f \in Coming /\ f # e
      /\ \A f \in Coming : f = e \/ f \in Coming'
      /\ SessionsStay
  BY DroppedStays DEF Dropped
<1>2. Numbers' /\ Guarded' /\ PostsAlone' /\ StoresOwn' /\ SessionOfClaim'
  BY <1>0, <1>1, ClaimsStay DEF HasLiveSubscription
<1>3. RowOfSubscription' /\ LaterThanRow' /\ LaterSubs'
  <2>1. \A t \in Checkouts : sub[t].at <= sub'[t].at
    BY <1>0
  <2> QED
    BY <1>0, <1>1, <2>1, RowStays
<1>4. RowFollows'
  <2>1. ASSUME NEW t \in Checkouts, Live(t)' PROVE UpToDate(t)' \/ \E f \in Coming' : NewsOf(t, f)'
    <3>0. Live(t)
      BY <1>1, <2>1
    <3>1. CASE UpToDate(t)
      <4>1. \A f \in Coming' : f.of = t /\ f.at >= row.last => Harmless(t, f)'
        BY <3>1, DroppedStays DEF UpToDate
      <4> QED
        BY <1>0, <3>1, <4>1 DEF UpToDate, HarmlessFrom
    <3>2. CASE ~UpToDate(t)
      <4>1. PICK n \in Coming : NewsOf(t, n)
        BY <1>0, <3>0, <3>2 DEF RowFollows
      <4>2. n \in Coming'
        BY <1>1, <3>0, <3>2, <4>1
      <4>3. \A f \in Coming' : f.of = t /\ f.at >= n.at => Harmless(t, f)'
        BY <4>1, DroppedStays DEF NewsOf
      <4>4. NewsOf(t, n)'
        BY <1>0, <4>1, <4>3 DEF NewsOf, HarmlessFrom
      <4> QED
        BY <4>2, <4>4
    <3> QED
      BY <3>1, <3>2
  <2> QED
    BY <2>1 DEF RowFollows
<1> QED
  BY <1>2, <1>3, <1>4 DEF RowSound

\* The claim of a session that has run out goes with the webhook that says so.
LEMMA ExpiryKeeps ==
    ASSUME Typed, Typed', StripeSound, Known, RowSound, NEW e \in Coming, Dropped(e), e.type = "expired", row.session = e.of,
           row'.claim = -1, row'.session = 0, row'.no = row.no,
           row'.sub = row.sub, row'.status = row.status, row'.last = row.last
    PROVE  RowSound'
<1>0. /\ Numbers /\ Guarded /\ PostsAlone /\ StoresOwn /\ SessionOfClaim
      /\ RowOfSubscription /\ LaterThanRow /\ LaterSubs
      /\ sub' = sub /\ attempt' = attempt /\ session' = session
      /\ \A t \in Checkouts : sub[t].at \in Nat
  BY Fields DEF RowSound, Dropped
<1>1. /\ e.of \in Checkouts /\ e.of # 0 /\ session[e.of].st = "expired" /\ Created(e.of) /\ e.status = "none"
  BY Fields DEF Coming, StripeSound, Truthful, Created
<1>2. row.claim >= 0 /\ session[e.of].no = row.no
  BY <1>0, <1>1 DEF SessionOfClaim
<1>3. \A t \in Checkouts : ~Unsettled(t)
  <2>1. ASSUME NEW t \in Checkouts, Unsettled(t) PROVE FALSE
    <3>1. Created(t) /\ session[t].st # "expired"
      BY <2>1, UnsettledCreated
    <3>2. session[t].no = row.no
      BY <1>0, <1>2, <2>1 DEF Guarded
    <3> QED
      BY <1>0, <1>1, <1>2, <3>1, <3>2 DEF Numbers
  <2> QED
    BY <2>1
<1>4. /\ \A t \in Checkouts : /\ Live(t)' <=> Live(t)
                              /\ Started(t)' <=> Started(t)
                              /\ Unsettled(t)' <=> Unsettled(t)
      /\ \A f \in Coming' : f \in Coming
  BY <1>1, DroppedStays DEF TerminalStatuses
<1>5. ASSUME NEW p \in Buyers
      PROVE  /\ attempt'[p].pc # "post" /\ attempt'[p].no <= row.no
             /\ attempt'[p].sid \in {0, attempt[p].sid}
             /\ attempt'[p].pc = "store" =>
                    /\ attempt[p].pc = "store" /\ attempt'[p].sid = attempt[p].sid /\ attempt'[p].no = attempt[p].no
                    /\ attempt[p].no = row.no => session[attempt[p].sid].st = "complete"
  <2>1. attempt[p].pc # "post"
    BY <1>0, <1>1, <1>2 DEF PostsAlone
  <2>2. attempt[p].pc = "store" => attempt[p].no # row.no
    <3>1. ASSUME attempt[p].pc = "store", attempt[p].no = row.no PROVE FALSE
      <4>1. /\ session[attempt[p].sid].no = row.no /\ attempt[p].sid # e.of
            /\ attempt[p].sid \in Checkouts /\ Created(attempt[p].sid)
        BY <1>0, <3>1, Fields DEF StoresOwn, Known
      <4> QED
        BY <1>0, <1>1, <1>2, <4>1 DEF Numbers
    <3> QED
      BY <3>1
  <2> QED
    BY <1>0, <2>1, <2>2 DEF Numbers
<1>6. Numbers' /\ Guarded' /\ PostsAlone' /\ StoresOwn' /\ SessionOfClaim'
  <2>1. \A t \in Checkouts : Unsettled(t)' => HasLiveSubscription' /\ row'.sub = t
    BY <1>3, <1>4
  <2> QED
    BY <1>0, <1>5, <2>1, UnclaimKeeps
<1>7. RowOfSubscription' /\ LaterThanRow' /\ LaterSubs'
  <2>1. \A t \in Checkouts : sub[t].at <= sub'[t].at
    BY <1>0
  <2> QED
    BY <1>0, <1>4, <2>1, RowStays
<1>8. RowFollows'
  BY <1>3, <1>4 DEF RowFollows, Unsettled, Pays
<1> QED
  BY <1>6, <1>7, <1>8 DEF RowSound

\* A report that is not earlier than the row brings the row nearer to the subscription.
LEMMA AppliedFollows ==
    ASSUME Typed, Typed', StripeSound, RowSound, NEW e \in Coming, Dropped(e), e.type \in Reports,
           e.status \notin TerminalStatuses, Unsettled(e.of), sub[e.of].status # "incomplete", e.at >= row.last,
           row'.sub = e.of, row'.last = e.at, row'.status \in LiveStatuses,
           Live(e.of) /\ Harmless(e.of, e) => row'.status = sub[e.of].status
    PROVE  /\ RowOfSubscription' /\ LaterThanRow' /\ LaterSubs' /\ RowFollows'
           /\ HasLiveSubscription'
           /\ \A t \in Checkouts : Unsettled(t)' => t = e.of
<1>0. /\ Numbers /\ Guarded /\ RowOfSubscription /\ LaterThanRow /\ LaterSubs /\ RowFollows
      /\ e \in events /\ e.of \in Checkouts /\ e.of # 0 /\ e.at \in Nat /\ row.last \in Int
      /\ Truthful(e) /\ sub' = sub /\ \A f \in Coming : f \in events /\ f.at \in Nat /\ f.of \in Checkouts
  BY Fields DEF RowSound, Coming, StripeSound, Dropped
<1>1. /\ \A t \in Checkouts : /\ Live(t)' <=> Live(t)
                              /\ Started(t)' <=> Started(t)
                              /\ Unsettled(t)' <=> Unsettled(t)
      /\ \A f \in Coming' : f \in Coming /\ f # e
      /\ \A f \in Coming : f = e \/ f \in Coming'
  BY DroppedStays DEF Dropped
<1>2. \A t \in Checkouts : Unsettled(t) => t = e.of
  BY <1>0, OneUnsettled
<1>3. e.at <= sub[e.of].at /\ Started(e.of)
  BY <1>0 DEF Truthful, Reports
<1>4. HasLiveSubscription'
  BY <1>0 DEF HasLiveSubscription
<1>5. RowOfSubscription'
  <2>1. Unsettled(e.of)'
    BY <1>0, <1>1
  <2>2. ASSUME NEW c, c = e.of, Unsettled(c)' PROVE Unsettled(row.sub)'
    BY <2>2 DEF Unsettled, Pays, EndComing, Live
  <2>3. Unsettled(row.sub)'
    BY <2>1, <2>2
  <2>4. /\ row'.status # "incomplete" /\ row'.sub # 0
        /\ sub'[row'.sub].status # "inactive" /\ sub'[row'.sub].status # "incomplete" /\ row'.last <= sub'[row'.sub].at
    BY <1>0, <1>3 DEF LiveStatuses, Started
  <2> QED
    BY <1>4, <2>3, <2>4 DEF RowOfSubscription, Started
<1>6. LaterSubs'
  BY <1>1, <1>2 DEF LaterSubs
<1>7. LaterThanRow'
  <2>1. ASSUME NEW f \in Coming', f.type \in Reports
        PROVE  /\ ~(Unsettled(f.of)' /\ row'.sub # f.of)
               /\ ~Unsettled(f.of)' => f.at <= e.at /\ (e.of # f.of => f.at < e.at)
    <3>1. f \in Coming /\ f.of \in Checkouts
      BY <1>0, <1>1
    <3>2. ~(Unsettled(f.of)' /\ row'.sub # f.of)
      BY <1>1, <1>2, <3>1
    <3>3. ASSUME ~Unsettled(f.of)' PROVE f.at <= e.at /\ f.at < e.at
      <4>1. ~Unsettled(f.of) /\ f.of # e.of
        BY <1>1, <3>1, <3>3
      <4>2. f.at <= row.last /\ (row.sub # f.of => f.at < row.last)
        BY <2>1, <3>1, <4>1, <1>0 DEF LaterThanRow
      <4>3. row.sub = f.of => row.last < e.at
        BY <1>0, <4>1 DEF LaterThanRow
      <4> QED
        BY <1>0, <3>1, <4>2, <4>3
    <3> QED
      BY <3>2, <3>3
  <2> QED
    BY <2>1 DEF LaterThanRow
<1>8. RowFollows'
  <2>1. ASSUME NEW t \in Checkouts, Live(t)' PROVE UpToDate(t)' \/ \E f \in Coming' : NewsOf(t, f)'
    <3>0. Live(t) /\ t = e.of
      BY <1>1, <1>2, <2>1 DEF Unsettled, Pays
    <3>1. ASSUME NEW b \in Int, HarmlessFrom(t, b), b <= e.at PROVE UpToDate(t)'
      <4>1. Harmless(t, e)
        BY <3>0, <3>1 DEF HarmlessFrom
      <4>2. \A f \in Coming' : f.at >= e.at => f.at >= b
        BY <1>0, <1>1, <3>1
      <4>3. \A f \in Coming' : f.of = t /\ f.at >= b => Harmless(t, f)'
        BY <3>1, DroppedStays
      <4> QED
        BY <1>0, <3>0, <4>1, <4>2, <4>3 DEF UpToDate, HarmlessFrom
    <3>2. CASE UpToDate(t)
      BY <1>0, <3>1, <3>2 DEF UpToDate
    <3>3. ASSUME NEW n \in Coming, NewsOf(t, n) PROVE UpToDate(t)' \/ \E f \in Coming' : NewsOf(t, f)'
      <4>1. CASE n.at <= e.at
        BY <1>0, <3>1, <3>3, <4>1 DEF NewsOf
      <4>2. CASE e.at < n.at
        <5>1. n \in Coming' /\ e.at <= n.at
          BY <1>0, <1>1, <4>2
        <5>2. \A f \in Coming' : f.of = t /\ f.at >= n.at => Harmless(t, f)'
          BY <3>3, DroppedStays DEF NewsOf
        <5>3. NewsOf(t, n)'
          BY <1>0, <3>0, <3>3, <5>1, <5>2 DEF NewsOf, HarmlessFrom
        <5> QED
          BY <5>1, <5>3
      <4> QED
        BY <1>0, <4>1, <4>2
    <3> QED
      BY <1>0, <3>0, <3>2, <3>3 DEF RowFollows
  <2> QED
    BY <2>1 DEF RowFollows
<1> QED
  BY <1>1, <1>2, <1>4, <1>5, <1>6, <1>7, <1>8

\* While something that was paid is not settled nobody posts, and who stores works for it.
LEMMA NobodyPosts ==
    ASSUME Typed, StripeSound, Known, Numbers, Guarded, PostsAlone, StoresOwn, attempt' = attempt,
           NEW s \in Checkouts, Unsettled(s), Started(s)
    PROVE  \A p \in Buyers : /\ attempt'[p].pc # "post" /\ attempt'[p].no <= row.no
                             /\ attempt'[p].sid \in {0, attempt[p].sid}
                             /\ attempt'[p].pc = "store" =>
                                    /\ attempt[p].pc = "store" /\ attempt'[p].sid = attempt[p].sid /\ attempt'[p].no = attempt[p].no
                                    /\ attempt[p].no = row.no => session[attempt[p].sid].st = "complete"
<1>0. Created(s) /\ session[s].st = "complete" /\ row.claim \in Int
  BY UnsettledCreated, Fields DEF StripeSound
<1>1. row.claim >= 0 => session[s].no = row.no
  BY DEF Guarded
<1> SUFFICES ASSUME NEW p \in Buyers
             PROVE  /\ attempt[p].pc # "post" /\ attempt[p].no <= row.no
                    /\ attempt[p].pc = "store" /\ attempt[p].no = row.no => session[attempt[p].sid].st = "complete"
  OBVIOUS
<1>2. attempt[p].pc # "post" /\ attempt[p].no <= row.no
  BY <1>0, <1>1 DEF PostsAlone, Numbers
<1>3. ASSUME attempt[p].pc = "store", attempt[p].no = row.no PROVE session[attempt[p].sid].st = "complete"
  <2>1. CASE row.claim >= 0
    <3>1. session[attempt[p].sid].no = row.no /\ attempt[p].sid \in Checkouts /\ Created(attempt[p].sid)
      BY <1>3, Fields DEF StoresOwn, Known
    <3>2. attempt[p].sid = s
      BY <1>0, <1>1, <2>1, <3>1 DEF Numbers
    <3> QED
      BY <1>0, <3>2
  <2>2. CASE ~(row.claim >= 0)
    BY <1>0, <1>3, <2>2 DEF StoresOwn
  <2> QED
    BY <2>1, <2>2
<1> QED
  BY <1>2, <1>3

\* A failed payment is applied.
LEMMA PaymentFailedKeeps ==
    ASSUME Typed, Typed', StripeSound, Known, RowSound, NEW e \in Coming, Dropped(e), e.type = "payment_failed",
           e.at >= row.last, row.sub = e.of, row.status \in LiveStatuses,
           row'.claim = row.claim, row'.session = row.session, row'.no = row.no,
           row'.sub = e.of, row'.status = "past_due", row'.last = e.at
    PROVE  RowSound'
<1>0. /\ Numbers /\ Guarded /\ PostsAlone /\ StoresOwn /\ SessionOfClaim /\ RowOfSubscription
      /\ e.of \in Checkouts /\ e.of # 0 /\ e.status = "none" /\ sub[e.of].status \in Statuses
      /\ attempt' = attempt
  BY Fields DEF RowSound, Coming, StripeSound, Truthful, Dropped
<1>1. HasLiveSubscription /\ Unsettled(e.of) /\ sub[e.of].status # "incomplete" /\ row.sub # 0
  <2>1. HasLiveSubscription /\ (HasLiveSubscription <=> Unsettled(row.sub)) /\ sub[row.sub].status # "incomplete"
    BY <1>0 DEF HasLiveSubscription, RowOfSubscription
  <2>2. \A c \in Checkouts : c = row.sub => (Unsettled(row.sub) => Unsettled(c))
    OBVIOUS
  <2> QED
    BY <1>0, <2>1, <2>2
<1>2. Harmless(e.of, e) => sub[e.of].status = "past_due"
  BY <1>0 DEF Harmless, Statuses, TerminalStatuses
<1>3. /\ RowOfSubscription' /\ LaterThanRow' /\ LaterSubs' /\ RowFollows'
      /\ HasLiveSubscription'
      /\ \A t \in Checkouts : Unsettled(t)' => t = e.of
  <2>1. e.type \in Reports /\ e.status \notin TerminalStatuses /\ row'.status \in LiveStatuses
    BY <1>0 DEF Reports, TerminalStatuses, LiveStatuses
  <2> QED
    BY <1>0, <1>1, <1>2, <2>1, AppliedFollows
<1>4. Numbers' /\ Guarded' /\ PostsAlone' /\ StoresOwn' /\ SessionOfClaim'
  <2>1. /\ \A t \in Checkouts : (Created(t)' => Created(t)) /\ (Unsettled(t)' => Unsettled(t))
        /\ \A f \in Coming' : f \in Coming
        /\ SessionsStay
    BY DroppedStays
  <2> QED
    BY <1>0, <1>1, <1>3, <2>1, ClaimsStay
<1> QED
  BY <1>3, <1>4 DEF RowSound

\* A report of a subscription that goes on is applied: it ends the claim.
LEMMA SubscriptionKeeps ==
    ASSUME Typed, Typed', StripeSound, Known, RowSound, NEW e \in Coming, Dropped(e), e.type = "subscription",
           e.status \in LiveStatuses, Unsettled(e.of), e.at >= row.last,
           row'.claim = -1, row'.session = 0, row'.no = row.no,
           row'.sub = e.of, row'.status = e.status, row'.last = e.at
    PROVE  RowSound'
<1>0. /\ Numbers /\ Guarded /\ PostsAlone /\ StoresOwn /\ SessionOfClaim /\ RowOfSubscription
      /\ e.of \in Checkouts /\ e.of # 0 /\ Started(e.of) /\ e.status \notin {"incomplete", "none"} \cup TerminalStatuses
      /\ attempt' = attempt /\ session' = session /\ sub[e.of].status # "incomplete" /\ e.type \in Reports
  BY Fields DEF RowSound, Coming, StripeSound, Truthful, Dropped, LiveStatuses, TerminalStatuses, Reports
<1>1. Harmless(e.of, e) => e.status = sub[e.of].status
  BY <1>0 DEF Harmless
<1>2. /\ RowOfSubscription' /\ LaterThanRow' /\ LaterSubs' /\ RowFollows'
      /\ HasLiveSubscription'
      /\ \A t \in Checkouts : Unsettled(t)' => t = e.of
  BY <1>0, <1>1, AppliedFollows
<1>3. Numbers' /\ Guarded' /\ PostsAlone' /\ StoresOwn' /\ SessionOfClaim'
  <2>1. \A p \in Buyers : /\ attempt'[p].pc # "post" /\ attempt'[p].no <= row.no
                          /\ attempt'[p].sid \in {0, attempt[p].sid}
                          /\ attempt'[p].pc = "store" =>
                                 /\ attempt[p].pc = "store" /\ attempt'[p].sid = attempt[p].sid /\ attempt'[p].no = attempt[p].no
                                 /\ attempt[p].no = row.no => session[attempt[p].sid].st = "complete"
    BY <1>0, NobodyPosts
  <2>2. \A t \in Checkouts : Unsettled(t)' => HasLiveSubscription' /\ row'.sub = t
    BY <1>2
  <2> QED
    BY <1>0, <2>1, <2>2, UnclaimKeeps
<1> QED
  BY <1>2, <1>3 DEF RowSound

\* The report of the end is applied: everything is settled.
LEMMA EndKeeps ==
    ASSUME Typed, Typed', StripeSound, Known, RowSound, NEW e \in Coming, Dropped(e), e.status \in TerminalStatuses,
           row.last <= e.at,
           row'.claim = -1, row'.session = 0, row'.no = row.no,
           row'.sub = e.of, row'.status = e.status, row'.last = e.at
    PROVE  RowSound'
<1> DEFINE EE == [of : Checkouts, type : EventTypes, status : Statuses \cup {"none"}, at : 0 .. MaxTime]
<1>0. /\ Numbers /\ Guarded /\ PostsAlone /\ StoresOwn /\ RowOfSubscription /\ LaterThanRow
      /\ e.of \in Checkouts /\ e.of # 0 /\ e \in events /\ Truthful(e) /\ e.at \in Nat /\ row.last \in Int
      /\ attempt' = attempt /\ session' = session /\ sub' = sub
      /\ \A f \in Coming : f \in EE /\ Truthful(f) /\ f.at \in Nat
  BY Fields DEF RowSound, Coming, StripeSound, Dropped, Typed, StripeTyped
<1>1. /\ e.status \notin {"incomplete", "none"} \cup LiveStatuses
      /\ e.type \in {"subscription", "deleted"} /\ (e.type = "deleted" <=> e.status = "canceled")
      /\ sub[e.of].status = e.status /\ sub[e.of].at = e.at /\ Started(e.of) /\ session[e.of].st = "complete"
  <2>1. e.type \in EventTypes /\ e.status \notin {"incomplete", "none"} \cup LiveStatuses
    BY <1>0 DEF TerminalStatuses, LiveStatuses
  <2>2. e.type \notin {"expired", "dispute", "payment_failed"}
    BY <1>0, <2>1 DEF Truthful
  <2>3. e.type \in {"subscription", "deleted"}
    BY <2>1, <2>2 DEF EventTypes
  <2>4. e.type = "deleted" <=> e.status = "canceled"
    BY <1>0, <2>3 DEF Truthful
  <2>5. sub[e.of].status = e.status /\ sub[e.of].at = e.at /\ Started(e.of)
    BY <1>0, <2>3 DEF Truthful
  <2> QED
    BY <1>0, <2>1, <2>3, <2>4, <2>5 DEF StripeSound
<1>2. Unsettled(e.of)
  BY DEF Unsettled, EndComing
<1>3. /\ \A t \in Checkouts : (Unsettled(t)' => Unsettled(t)) /\ (Live(t)' <=> Live(t))
      /\ \A t \in Checkouts : t # e.of => (Unsettled(t)' <=> Unsettled(t))
      /\ \A f \in Coming' : f \in Coming /\ f # e
  BY DroppedStays
<1>4. ASSUME NEW f \in Coming', f.of = e.of, f.status \in TerminalStatuses PROVE FALSE
  <2>1. f \in EE /\ Truthful(f) /\ e \in EE /\ f # e
    BY <1>0, <1>3
  <2>2. f.status = e.status /\ f.at = e.at
    BY <1>1, <1>4, <2>1 DEF Truthful
  <2>3. f.type \in {"subscription", "deleted"} /\ (f.type = "deleted" <=> f.status = "canceled")
    <3>1. f.type \notin {"expired", "dispute", "payment_failed"}
      BY <1>1, <2>1, <2>2 DEF Truthful
    <3>2. f.type \in {"subscription", "deleted"}
      BY <2>1, <3>1 DEF EventTypes
    <3> QED
      BY <2>1, <3>2 DEF Truthful
  <2>4. f.type = e.type
    BY <1>1, <2>2, <2>3
  <2> QED
    BY <1>4, <2>1, <2>2, <2>4
<1>5. \A t \in Checkouts : ~Unsettled(t)'
  <2>1. ASSUME NEW t \in Checkouts, Unsettled(t)' PROVE FALSE
    <3>1. t = e.of
      BY <1>0, <1>2, <1>3, <2>1, OneUnsettled
    <3>2. ~Pays(t)'
      BY <1>0, <1>1, <3>1 DEF Pays, Live
    <3>3. ~EndComing(t)'
      BY <1>4, <3>1 DEF EndComing
    <3> QED
      BY <2>1, <3>2, <3>3 DEF Unsettled
  <2> QED
    BY <2>1
<1>6. Numbers' /\ Guarded' /\ PostsAlone' /\ StoresOwn' /\ SessionOfClaim'
  <2>1. \A p \in Buyers : /\ attempt'[p].pc # "post" /\ attempt'[p].no <= row.no
                          /\ attempt'[p].sid \in {0, attempt[p].sid}
                          /\ attempt'[p].pc = "store" =>
                                 /\ attempt[p].pc = "store" /\ attempt'[p].sid = attempt[p].sid /\ attempt'[p].no = attempt[p].no
                                 /\ attempt[p].no = row.no => session[attempt[p].sid].st = "complete"
    BY <1>0, <1>1, <1>2, NobodyPosts
  <2> QED
    BY <1>0, <1>5, <2>1, UnclaimKeeps
<1>7. RowOfSubscription'
  <2>1. \A c \in Checkouts : c = row'.sub => (Unsettled(row.sub)' => Unsettled(c)')
    BY DEF Unsettled, Pays, EndComing, Live
  <2>2. ~Unsettled(row.sub)' /\ ~HasLiveSubscription'
    BY <1>0, <1>1, <1>5, <2>1 DEF HasLiveSubscription
  <2>3. /\ row'.status # "incomplete" /\ row'.sub # 0
        /\ sub'[row'.sub].status # "inactive" /\ sub'[row'.sub].status # "incomplete" /\ row'.last <= sub'[row'.sub].at
    BY <1>0, <1>1 DEF Started
  <2> QED
    BY <2>2, <2>3 DEF RowOfSubscription, Started
<1>8. LaterSubs' /\ RowFollows'
  BY <1>5 DEF LaterSubs, RowFollows, Unsettled, Pays
<1>9. LaterThanRow'
  <2>1. ASSUME NEW f \in Coming', f.type \in Reports
        PROVE  f.at <= e.at /\ (e.of # f.of => f.at < e.at)
    <3>1. f \in Coming /\ f.of \in Checkouts
      BY <1>0, <1>3
    <3>2. CASE f.of = e.of
      BY <1>0, <1>1, <2>1, <3>1, <3>2 DEF Truthful
    <3>3. CASE f.of # e.of
      <4>1. ~Unsettled(f.of)
        BY <1>3, <1>5, <3>1, <3>3
      <4>2. f.at <= row.last /\ (row.sub # f.of => f.at < row.last)
        BY <2>1, <3>1, <4>1 DEF LaterThanRow, RowSound
      <4>3. row.sub = f.of => row.last < e.at
        BY <1>0, <1>1, <1>2, <3>3 DEF LaterThanRow, Reports
      <4> QED
        BY <1>0, <3>1, <4>2, <4>3
    <3> QED
      BY <3>2, <3>3
  <2>2. \A f \in Coming' : f.of \in Checkouts
    BY <1>0, <1>3
  <2> QED
    BY <1>5, <2>1, <2>2 DEF LaterThanRow
<1> QED
  BY <1>6, <1>7, <1>8, <1>9 DEF RowSound

\* When a report does not change the row, and what it says when it does.
LEMMA AppliedIs ==
    ASSUME Typed, NEW e \in events
    PROVE  /\ e.type = "expired" => Applied(e) = IF row.session = e.of THEN Unclaimed ELSE row
           /\ e.type = "payment_failed" /\ ~(e.at >= row.last /\ row.sub = e.of /\ row.status \in {"active", "trialing", "past_due"})
                  => Applied(e) = row
           /\ e.type \in {"subscription", "deleted"} /\ (e.at < row.last \/ OlderSubscription(e) \/ e.status = "incomplete" \/ NotAfterCancellation(e))
                  => Applied(e) = row
<1>1. row.last \in Int /\ e.at \in Int /\ (Stale(e) <=> ~(e.at >= row.last)) /\ (Stale(e) <=> e.at < row.last)
  BY Fields DEF Stale
<1>2. ASSUME e.type = "expired" PROVE Applied(e) = IF row.session = e.of THEN Unclaimed ELSE row
  BY <1>2 DEF Applied
<1>3. ASSUME e.type = "payment_failed", ~(~Stale(e) /\ row.sub = e.of /\ row.status \in {"active", "trialing", "past_due"})
      PROVE  Applied(e) = row
  <2>1. Applied(e) = IF ~Stale(e) /\ row.sub = e.of /\ row.status \in {"active", "trialing", "past_due"}
                     THEN [row EXCEPT !.status = "past_due", !.grace = GraceEnd(e), !.last = e.at] ELSE row
    BY <1>3 DEF Applied
  <2> QED
    BY <1>3, <2>1
<1>4. ASSUME e.type \in {"subscription", "deleted"}, Stale(e) \/ OlderSubscription(e) \/ e.status = "incomplete" \/ NotAfterCancellation(e)
      PROVE  Applied(e) = row
  <2>1. Applied(e) = IF Stale(e) \/ OlderSubscription(e) \/ e.status = "incomplete" \/ NotAfterCancellation(e) THEN row
                     ELSE [Unclaimed EXCEPT !.sub = e.of, !.status = e.status, !.last = e.at,
                                            !.grace = IF e.status = "past_due" THEN GraceEnd(e) ELSE 0]
    BY <1>4 DEF Applied
  <2> QED
    BY <1>4, <2>1
<1> QED
  BY <1>1, <1>2, <1>3, <1>4

\* A report that is in time is applied.
LEMMA AppliedReport ==
    ASSUME Typed, StripeSound, NEW e \in events, e.type \in {"subscription", "deleted"}, e.at >= row.last,
           ~OlderSubscription(e), e.status # "incomplete", ~NotAfterCancellation(e)
    PROVE  /\ Applied(e).claim = -1 /\ Applied(e).session = 0 /\ Applied(e).no = row.no
           /\ Applied(e).sub = e.of /\ Applied(e).status = e.status /\ Applied(e).last = e.at
<1>0. /\ Unclaimed \in [sub : Checkouts \cup {0}, status : Statuses, last : -1 .. MaxTime, grace : 0 .. MaxTime + Grace,
                        claim : -1 .. MaxTime, no : Nat, session : Checkouts \cup {0}]
      /\ Unclaimed.claim = -1 /\ Unclaimed.no = row.no /\ Unclaimed.session = 0
      /\ ~Stale(e)
  BY ClaimsTyped, Fields DEF Stale
<1>1. Applied(e) = IF Stale(e) \/ OlderSubscription(e) \/ e.status = "incomplete" \/ NotAfterCancellation(e) THEN row
                   ELSE [Unclaimed EXCEPT !.sub = e.of, !.status = e.status, !.last = e.at,
                                          !.grace = IF e.status = "past_due" THEN GraceEnd(e) ELSE 0]
  BY DEF Applied
<1> QED
  BY <1>0, <1>1

\* A report of what is not settled is never of an older subscription, and of a subscription
\* that goes on never after its cancellation.
LEMMA InTime ==
    ASSUME Typed, StripeSound, RowSound, NEW e \in Coming, e.type \in Reports, Unsettled(e.of)
    PROVE  /\ ~OlderSubscription(e) /\ ~NotAfterCancellation(e)
           /\ row.sub # e.of => row.last < e.at
<1>0. /\ Numbers /\ Guarded /\ RowOfSubscription /\ LaterThanRow
      /\ e.of \in Checkouts /\ row.sub \in Checkouts \cup {0} /\ 0 \notin Checkouts /\ row.status \in Statuses
  BY Fields DEF RowSound, Coming
<1>1. ASSUME row.sub # 0, row.status \notin TerminalStatuses PROVE row.sub = e.of
  <2>1. HasLiveSubscription
    BY <1>0, <1>1 DEF HasLiveSubscription, RowOfSubscription, Statuses, LiveStatuses, TerminalStatuses
  <2>2. Unsettled(row.sub) /\ row.sub \in Checkouts
    BY <1>0, <1>1, <2>1 DEF RowOfSubscription
  <2> QED
    BY <1>0, <2>2, OneUnsettled
<1>2. ASSUME row.sub = e.of PROVE row.status \notin TerminalStatuses
  <2>1. \A c \in Checkouts : c = row.sub /\ Unsettled(c) => Unsettled(row.sub)
    OBVIOUS
  <2>2. HasLiveSubscription
    BY <1>0, <1>2, <2>1 DEF RowOfSubscription
  <2> QED
    BY <2>2 DEF HasLiveSubscription, LiveStatuses, TerminalStatuses
<1> QED
  BY <1>0, <1>1, <1>2 DEF OlderSubscription, NotAfterCancellation, LaterThanRow

\* What is settled does not come to life by a late report.
LEMMA SettledStays ==
    ASSUME Typed, StripeSound, RowSound, NEW e \in Coming, e.type \in Reports, ~Unsettled(e.of)
    PROVE  /\ ~(row.sub = e.of /\ row.status \in LiveStatuses)
           /\ e.type \in {"subscription", "deleted"} => e.at < row.last \/ e.status = "incomplete" \/ NotAfterCancellation(e)
<1>0. /\ RowOfSubscription /\ LaterThanRow
      /\ e.of \in Checkouts /\ 0 \notin Checkouts /\ row.status \in Statuses /\ e.at \in Nat /\ row.last \in Int /\ Truthful(e)
  BY Fields DEF RowSound, Coming, StripeSound
<1>1. ~(row.sub = e.of /\ row.status \in LiveStatuses)
  <2>1. \A c \in Checkouts : c = row.sub /\ Unsettled(row.sub) => Unsettled(c)
    OBVIOUS
  <2> QED
    BY <1>0, <2>1 DEF RowOfSubscription, HasLiveSubscription
<1>2. e.status \notin TerminalStatuses
  BY DEF Unsettled, EndComing
<1>3. ASSUME e.type \in {"subscription", "deleted"}, ~(e.at < row.last), e.status # "incomplete" PROVE NotAfterCancellation(e)
  <2>1. row.sub = e.of /\ e.at = row.last
    BY <1>0, <1>3 DEF LaterThanRow
  <2>2. row.status \in TerminalStatuses
    BY <1>0, <1>1, <2>1 DEF RowOfSubscription, Statuses, LiveStatuses, TerminalStatuses
  <2>3. e.status \in LiveStatuses
    BY <1>0, <1>2, <1>3 DEF Truthful, LiveStatuses, TerminalStatuses
  <2> QED
    BY <2>1, <2>2, <2>3 DEF NotAfterCancellation
<1> QED
  BY <1>1, <1>3

\* A webhook arrives.
LEMMA DeliverKeeps ==
    ASSUME Typed, Typed', StripeSound, Known, RowSound, ws # "gone", NEW e \in events, NEW again \in BOOLEAN, Deliver(e, again)
    PROVE  RowSound'
<1>0. /\ Dropped(e) /\ e.type # "dispute" /\ row' = (IF e \in Coming THEN Applied(e) ELSE row)
      /\ e.of \in Checkouts /\ e.at \in Nat /\ row.last \in Int /\ Truthful(e) /\ e.type \in EventTypes
      /\ row.sub \in Checkouts \cup {0} /\ 0 \notin Checkouts
      /\ \A t \in Checkouts : sub[t].at \in Nat
      /\ RowOfSubscription
  BY DeliverDrops, Fields DEF StripeSound, RowSound
<1>1. CASE e \notin Coming
  BY <1>0, <1>1, DropKeeps
<1>2. CASE e \in Coming /\ e.type = "expired"
  <2>0. e.status \notin TerminalStatuses /\ \A t \in Checkouts : ~NewsOf(t, e)
    BY <1>0, <1>2 DEF Truthful, NewsOf, TerminalStatuses
  <2>1. CASE row.session = e.of
    <3>1. row' = Unclaimed
      BY <1>0, <1>2, <2>1, AppliedIs
    <3> QED
      BY <1>0, <1>2, <2>1, <3>1, ClaimsTyped, ExpiryKeeps
  <2>2. CASE row.session # e.of
    BY <1>0, <1>2, <2>0, <2>2, AppliedIs, DropKeeps
  <2> QED
    BY <2>1, <2>2
<1>3. CASE e \in Coming /\ e.type = "payment_failed"
  <2>0. e.status \notin TerminalStatuses /\ e.type \in Reports /\ \A t \in Checkouts : ~NewsOf(t, e)
    BY <1>0, <1>3 DEF Truthful, NewsOf, TerminalStatuses, Reports
  <2>1. CASE row' = row
    BY <1>0, <2>0, <2>1, DropKeeps
  <2>2. CASE row' # row
    <3>1. /\ e.at >= row.last /\ row.sub = e.of /\ row.status \in LiveStatuses
          /\ row'.claim = row.claim /\ row'.session = row.session /\ row'.no = row.no
          /\ row'.sub = e.of /\ row'.status = "past_due" /\ row'.last = e.at
      BY <1>0, <1>3, <2>2, AppliedFields DEF LiveStatuses
    <3> QED
      BY <1>0, <1>3, <3>1, PaymentFailedKeeps
  <2> QED
    BY <2>1, <2>2
<1>4. CASE e \in Coming /\ e.type \in {"subscription", "deleted"}
  <2>0. e.type \in Reports
    BY <1>4 DEF Reports
  <2>1. CASE row' = row /\ e.status \notin TerminalStatuses /\ \A t \in Checkouts : Live(t) /\ NewsOf(t, e) => UpToDate(t)
    BY <1>0, <2>1, DropKeeps
  <2>2. CASE row' # row
    <3>1. /\ e.at >= row.last /\ ~OlderSubscription(e) /\ e.status # "incomplete" /\ ~NotAfterCancellation(e)
          /\ row'.claim = -1 /\ row'.session = 0 /\ row'.no = row.no
          /\ row'.sub = e.of /\ row'.status = e.status /\ row'.last = e.at
      BY <1>0, <1>4, <2>2, AppliedFields
    <3>2. Unsettled(e.of)
      BY <1>0, <1>4, <2>0, <3>1, SettledStays
    <3>3. CASE e.status \in TerminalStatuses
      BY <1>0, <1>4, <3>1, <3>3, EndKeeps
    <3>4. CASE e.status \notin TerminalStatuses
      <4>1. e.type = "subscription" /\ e.status \in LiveStatuses
        BY <1>0, <1>4, <3>1, <3>4 DEF Truthful, TerminalStatuses, LiveStatuses
      <4> QED
        BY <1>0, <1>4, <3>1, <3>2, <4>1, SubscriptionKeeps
    <3> QED
      BY <3>3, <3>4
  <2>3. CASE e.status \in TerminalStatuses
    <3>1. Unsettled(e.of)
      BY <1>4, <2>3 DEF Unsettled, EndComing
    <3>2. ~OlderSubscription(e) /\ ~NotAfterCancellation(e) /\ (row.sub # e.of => row.last < e.at)
      BY <1>4, <2>0, <3>1, InTime
    <3>3. row.sub = e.of => row.last <= e.at
      BY <1>0, <2>3 DEF Truthful, RowOfSubscription
    <3>4. e.at >= row.last /\ e.status # "incomplete" /\ row.last <= e.at
      BY <1>0, <2>3, <3>2, <3>3 DEF TerminalStatuses
    <3>5. /\ row'.claim = -1 /\ row'.session = 0 /\ row'.no = row.no
          /\ row'.sub = e.of /\ row'.status = e.status /\ row'.last = e.at
      BY <1>0, <1>4, <3>2, <3>4, AppliedReport
    <3> QED
      BY <1>0, <1>4, <2>3, <3>4, <3>5, EndKeeps
  <2>4. ASSUME row' = row, NEW t \in Checkouts, Live(t), NewsOf(t, e), ~UpToDate(t) PROVE FALSE
    <3>1. Unsettled(e.of) /\ e.of = t /\ e.status \in LiveStatuses /\ e.status # "incomplete"
      BY <2>4 DEF NewsOf, Unsettled, Pays, Live, LiveStatuses
    <3>2. ~OlderSubscription(e) /\ ~NotAfterCancellation(e) /\ (row.sub # e.of => row.last < e.at)
      BY <1>4, <2>0, <3>1, InTime
    <3>3. e.at >= row.last
      BY <1>0, <2>4, <3>1, <3>2 DEF NewsOf
    <3>4. /\ row'.claim = -1 /\ row'.session = 0 /\ row'.no = row.no
          /\ row'.sub = e.of /\ row'.status = e.status /\ row'.last = e.at
      BY <1>0, <1>4, <3>1, <3>2, <3>3, AppliedReport
    <3>5. row.sub = t /\ row.status = sub[t].status /\ row.last = e.at /\ HarmlessFrom(t, e.at)
      BY <2>4, <3>1, <3>4 DEF NewsOf
    <3> QED
      BY <2>4, <3>5 DEF UpToDate
  <2> QED
    BY <2>1, <2>2, <2>3, <2>4
<1> QED
  BY <1>0, <1>1, <1>2, <1>3, <1>4 DEF EventTypes

-----------------------------------------------------------------------------
(* Every step *)

\* A subscription is cancelled, and Stripe reports it.
LEMMA CancelKeeps ==
    ASSUME Typed, Typed', StripeSound, Known, SessionsStay, RowSound, NEW s \in Checkouts, Live(s),
           sub' = [sub EXCEPT ![s] = [status |-> "canceled", at |-> now]],
           NEW gone \in SUBSET {e \in events : e.type = "dispute"},
           events' = (events \ gone) \cup {Event(s, "deleted", "canceled")},
           session' = session, row' = row, attempt' = attempt, seen' = seen
    PROVE  RowSound'
<1> DEFINE e == Event(s, "deleted", "canceled")
<1>0. events' = (events \ gone) \cup {e} /\ sub \in [Checkouts -> [status : Statuses, at : 0 .. MaxTime]]
  BY DEF Typed, StripeTyped
<1>1. e \notin seen /\ e.of = s /\ e.at = now /\ e.type = "deleted" /\ e.status = "canceled"
  BY FreshReport DEF Reports
<1>h. HIDE DEF e
<1>2. sub'[s] = [status |-> "canceled", at |-> now] /\ \A t \in Checkouts : t # s => sub'[t] = sub[t]
  BY <1>0
<1>3. EndComing(s)'
  <2>1. PICK x \in Coming' : x = e
    BY <1>0, <1>1 DEF Coming
  <2> QED
    BY <1>1, <2>1 DEF EndComing, TerminalStatuses
<1>4. /\ \A g \in events' : g \in events \/ (g.of = s /\ g.at = now /\ g.type \in Reports)
      /\ \A g \in events : g \in events' \/ g.type = "dispute"
  BY <1>0, <1>1 DEF Reports
<1>5. sub'[s].at = now /\ sub'[s].status \notin {"incomplete", "inactive"} \cup LiveStatuses
  BY <1>2 DEF LiveStatuses
<1> QED
  BY <1>2, <1>3, <1>4, <1>5, ChangeKeeps

\* A dispute arrives: the subscription of the row ends, or nothing happens.
LEMMA DisputeKeeps ==
    ASSUME Typed, Typed', StripeSound, Known, SessionsStay, RowSound, NEW e \in events, DeliverDispute(e)
    PROVE  RowSound'
<1>0. e.type = "dispute" /\ session' = session /\ row' = row /\ attempt' = attempt /\ seen' = seen
  BY DEF DeliverDispute
<1>1. CASE row.sub # 0 /\ row.status \notin TerminalStatuses /\ Live(row.sub) /\ ws # "gone"
  <2>1. /\ row.sub \in Checkouts /\ {e} \in SUBSET {g \in events : g.type = "dispute"}
        /\ sub' = [sub EXCEPT ![row.sub] = [status |-> "canceled", at |-> now]]
        /\ events' = (events \ {e}) \cup {Event(row.sub, "deleted", "canceled")}
    BY <1>0, <1>1, Fields DEF DeliverDispute
  <2>2. ASSUME NEW s \in Checkouts, s = row.sub PROVE RowSound'
    <3>1. /\ Live(s) /\ sub' = [sub EXCEPT ![s] = [status |-> "canceled", at |-> now]]
          /\ events' = (events \ {e}) \cup {Event(s, "deleted", "canceled")}
      BY <1>1, <2>1, <2>2
    <3> QED
      BY <1>0, <2>1, <3>1, CancelKeeps
  <2> QED
    BY <2>1, <2>2
<1>2. CASE ~(row.sub # 0 /\ row.status \notin TerminalStatuses /\ Live(row.sub) /\ ws # "gone")
  <2>1. events' = events \ {e} /\ sub' = sub
    BY <1>2 DEF DeliverDispute
  <2> QED
    BY <1>0, <2>1, QuietKeeps DEF Created
<1> QED
  BY <1>1, <1>2

\* The workspace is about to be deleted: its subscription is cancelled, if there is one.
LEMMA CancelWorkspaceKeeps ==
    ASSUME Typed, Typed', StripeSound, Known, SessionsStay, RowSound, CancelWorkspaceSubscription
    PROVE  RowSound'
<1>0. session' = session /\ row' = row /\ attempt' = attempt /\ seen' = seen
  BY DEF CancelWorkspaceSubscription
<1>1. CASE row.sub # 0 /\ row.status \notin TerminalStatuses /\ Live(row.sub)
  <2>1. /\ row.sub \in Checkouts /\ {} \in SUBSET {g \in events : g.type = "dispute"}
        /\ sub' = [sub EXCEPT ![row.sub] = [status |-> "canceled", at |-> now]]
        /\ events' = events \cup {Event(row.sub, "deleted", "canceled")}
    BY <1>1, Fields DEF CancelWorkspaceSubscription, Change
  <2>2. ASSUME NEW s \in Checkouts, s = row.sub PROVE RowSound'
    <3>1. /\ Live(s) /\ sub' = [sub EXCEPT ![s] = [status |-> "canceled", at |-> now]]
          /\ events' = (events \ {}) \cup {Event(s, "deleted", "canceled")}
      BY <1>1, <2>1, <2>2
    <3> QED
      BY <1>0, <2>1, <3>1, CancelKeeps
  <2> QED
    BY <2>1, <2>2
<1>2. CASE ~(row.sub # 0 /\ row.status \notin TerminalStatuses /\ Live(row.sub))
  <2>1. events' = events /\ sub' = sub
    BY <1>2 DEF CancelWorkspaceSubscription
  <2> QED
    BY <1>0, <2>1, QuietKeeps DEF Created
<1> QED
  BY <1>1, <1>2

\* A request does one step, and the claim still stands for the session that is open.
LEMMA AttemptKeeps ==
    ASSUME Typed, Typed', StripeSound, Known, SessionsStay, RowSound, ws # "gone", ~loose', NEW o \in Buyers,
           \/ ClaimCheckoutSlot(o) \/ LookAtSession(o) \/ ExpireSession(o) \/ ReleaseClaim(o)
           \/ ClaimAgain(o) \/ Post(o) \/ StoreSession(o)
           \/ \E created \in BOOLEAN : PostFails(o, created)
    PROVE  RowSound'
<1>0. /\ attempt \in [Buyers -> [pc : {"idle", "look", "expire", "release", "again", "post", "store"}, sid : Checkouts \cup {0}, no : Nat]]
      /\ row.no \in Nat /\ row.claim \in Int /\ attempt[o].no <= row.no
  BY Fields DEF Typed, BillingTypeOK, RowSound, Numbers
<1>m. ASSUME sub' = sub, seen' = seen, row' = row,
             NEW r, attempt' = [attempt EXCEPT ![o] = r],
             r.pc \notin {"post", "store"}, r.sid \in {0, attempt[o].sid, row.session}, r.no <= row.no,
             \/ session' = session /\ events' = events
             \/ \E s \in Checkouts : /\ session[s].st = "open" /\ session' = [session EXCEPT ![s].st = "expired"]
                                     /\ events' = events \cup {Event(s, "expired", "none")}
      PROVE  RowSound'
  <2>1. attempt'[o] = r /\ \A p \in Buyers : p # o => attempt'[p] = attempt[p]
    BY <1>0, <1>m
  <2> QED
    BY <1>m, <2>1, MoveKeeps
<1>n. NoRequest.pc = "idle" /\ NoRequest.sid = 0 /\ NoRequest.no = 0 /\ NoRequest.no <= row.no
  BY <1>0 DEF NoRequest
<1>1. CASE ClaimCheckoutSlot(o)
  <2>1. CASE Claimable
    BY <1>1, <2>1, ClaimKeeps DEF ClaimCheckoutSlot
  <2>2. CASE ~Claimable
    <3> DEFINE r == [pc |-> "look", sid |-> row.session, no |-> row.no]
    <3>1. attempt' = [attempt EXCEPT ![o] = r] /\ row' = row
      BY <1>1, <2>2 DEF ClaimCheckoutSlot
    <3>2. r.pc \notin {"post", "store"} /\ r.sid = row.session /\ r.no <= row.no
      BY <1>0
    <3> HIDE DEF r
    <3> QED
      BY <1>1, <1>m, <3>1, <3>2 DEF ClaimCheckoutSlot
  <2> QED
    BY <2>1, <2>2
<1>2. CASE LookAtSession(o)
  <2>1. CASE attempt' = [attempt EXCEPT ![o].pc = NextStep(session[attempt[o].sid].st)]
    <3> DEFINE r == [attempt[o] EXCEPT !.pc = NextStep(session[attempt[o].sid].st)]
    <3>1. attempt' = [attempt EXCEPT ![o] = r]
      BY <2>1
    <3>2. r.pc = NextStep(session[attempt[o].sid].st) /\ r.sid = attempt[o].sid /\ r.no = attempt[o].no
      BY <1>0
    <3>3. NextStep(session[attempt[o].sid].st) \in {"expire", "idle", "release"}
      BY DEF NextStep
    <3> HIDE DEF r
    <3> QED
      BY <1>0, <1>2, <1>m, <3>1, <3>2, <3>3 DEF LookAtSession
  <2>2. CASE attempt' = [attempt EXCEPT ![o] = NoRequest]
    BY <1>2, <1>m, <1>n, <2>2 DEF LookAtSession
  <2> QED
    BY <1>2, <2>1, <2>2 DEF LookAtSession
<1>3. CASE ExpireSession(o)
  <2>1. CASE session[attempt[o].sid].st = "open"
    <3> DEFINE r == [attempt[o] EXCEPT !.pc = "release"]
    <3>1. attempt' = [attempt EXCEPT ![o] = r]
      BY <1>3, <2>1 DEF ExpireSession
    <3>2. r.pc = "release" /\ r.sid = attempt[o].sid /\ r.no = attempt[o].no /\ attempt[o].sid \in Checkouts
      BY <1>0, <1>3 DEF ExpireSession, Known
    <3>3. /\ session' = [session EXCEPT ![attempt[o].sid].st = "expired"]
          /\ events' = events \cup {Event(attempt[o].sid, "expired", "none")}
      BY <1>3, <2>1 DEF ExpireSession
    <3> HIDE DEF r
    <3> QED
      BY <1>0, <1>3, <1>m, <2>1, <3>1, <3>2, <3>3 DEF ExpireSession
  <2>2. CASE session[attempt[o].sid].st # "open"
    BY <1>3, <1>m, <1>n, <2>2 DEF ExpireSession
  <2> QED
    BY <2>1, <2>2
<1>4. CASE ReleaseClaim(o)
  <2>1. row.claim < 0 \/ session[attempt[o].sid].no = row.no
    <3>1. ~(row.claim >= 0 /\ session[attempt[o].sid].no # row.no)
      BY <1>4 DEF ReleaseClaim
    <3> QED
      BY <1>0, <3>1
  <2> QED
    BY <1>4, <2>1, ReleaseKeeps
<1>5. CASE ClaimAgain(o)
  <2>1. CASE Claimable
    BY <1>5, <2>1, ClaimKeeps DEF ClaimAgain
  <2>2. CASE ~Claimable
    BY <1>5, <1>m, <1>n, <2>2 DEF ClaimAgain
  <2> QED
    BY <2>1, <2>2
<1>6. CASE Post(o)
  BY <1>6, PostKeeps
<1>7. CASE StoreSession(o)
  <2>1. row.no = attempt[o].no
    BY <1>7 DEF StoreSession
  <2> QED
    BY <1>7, <2>1, StoreKeeps
<1>8. ASSUME NEW created \in BOOLEAN, PostFails(o, created) PROVE RowSound'
  <2>1. created = FALSE
    BY <1>8 DEF PostFails
  <2> QED
    BY <1>8, <2>1, PostFailsKeeps
<1> QED
  BY <1>1, <1>2, <1>3, <1>4, <1>5, <1>6, <1>7, <1>8

\* A workspace that is being deleted has no checkout that may still be paid, and gets none.
LEMMA ClosedKept ==
    ASSUME Typed, StripeSound, Known, BillingNext, ~loose', ClosedWhenDeleting, ws # "gone" => RowSound
    PROVE  ClosedWhenDeleting'
<1>0. /\ attempt \in [Buyers -> [pc : {"idle", "look", "expire", "release", "again", "post", "store"}, sid : Checkouts \cup {0}, no : Nat]]
      /\ session \in [Checkouts -> [st : {"none", "open", "expired", "complete"}, at : 0 .. MaxTime, no : Nat]]
      /\ sub \in [Checkouts -> [status : Statuses, at : 0 .. MaxTime]]
      /\ row.claim \in Int /\ row.sub \in Checkouts \cup {0} /\ 0 \notin Checkouts
  BY Fields DEF Typed, BillingTypeOK, StripeTyped
<1>s. ASSUME ws # "live",
             \A s \in Checkouts : Pays(s)' => Pays(s),
             \A o \in Buyers : attempt'[o].pc = "post" => attempt[o].pc = "post"
      PROVE  ClosedWhenDeleting'
  BY <1>s DEF ClosedWhenDeleting
<1>a. ASSUME ws # "live", session' = session, sub' = sub, attempt' = attempt
      PROVE  ClosedWhenDeleting'
  BY <1>a, <1>s DEF Pays, Live
<1>c. ws # "live" => \A s \in Checkouts : session[s].st # "open" /\ ~Live(s) /\ sub[s].status # "incomplete"
  BY DEF ClosedWhenDeleting, Pays
<1>d. ASSUME ws' = ws, ws # "live" => ClosedWhenDeleting' PROVE ClosedWhenDeleting'
  BY <1>d DEF ClosedWhenDeleting
<1>1. CASE Tick
  BY <1>1, <1>a, <1>d DEF Tick
<1>2. CASE PurgeWorkspace
  BY <1>2, <1>a DEF PurgeWorkspace
<1>3. CASE CancelWorkspaceSubscription
  <2>0. /\ ws = "live" /\ session' = session /\ attempt' = attempt /\ ~FreshClaim
        /\ Numbers /\ Guarded /\ PostsAlone /\ RowOfSubscription
    BY <1>3 DEF CancelWorkspaceSubscription, RowSound, Deletable
  <2>1. ~(row.claim >= 0 /\ Underway)
    BY <1>3, <2>0 DEF CancelWorkspaceSubscription
  <2>2. CASE ~Underway
    <3>1. \A s \in Checkouts : ~Pays(s)
      BY <2>2 DEF Underway, Payable, Pays
    <3>2. \A o \in Buyers : attempt[o].pc # "post"
      BY <2>2 DEF Underway, Payable
    <3>3. sub' = sub
      <4>1. row.sub # 0 => ~Live(row.sub)
        BY <1>0, <3>1 DEF Pays
      <4> QED
        BY <1>3, <4>1 DEF CancelWorkspaceSubscription
    <3> QED
      BY <2>0, <3>1, <3>2, <3>3 DEF ClosedWhenDeleting, Pays, Live
  <2>3. CASE ~(row.claim >= 0)
    <3>1. \A o \in Buyers : attempt'[o].pc # "post"
      BY <2>0, <2>3 DEF PostsAlone
    <3>2. ASSUME NEW s \in Checkouts, Pays(s)' PROVE FALSE
      <4>1. Pays(s)
        <5>1. CASE sub' = sub
          BY <2>0, <3>2, <5>1 DEF Pays, Live
        <5>2. CASE sub' = [sub EXCEPT ![row.sub] = [status |-> "canceled", at |-> now]]
          <6>1. sub'[s] = sub[s] \/ sub'[s] = [status |-> "canceled", at |-> now]
            BY <1>0, <5>2
          <6> QED
            BY <2>0, <3>2, <6>1 DEF Pays, Live, LiveStatuses
        <5> QED
          BY <1>3, <5>1, <5>2 DEF CancelWorkspaceSubscription, Change
      <4>2. HasLiveSubscription /\ row.sub = s
        BY <2>0, <2>3, <4>1 DEF Guarded, Unsettled
      <4>3. Started(s) /\ sub[s].status # "incomplete"
        BY <2>0, <4>2 DEF RowOfSubscription, HasLiveSubscription
      <4>4. session[s].st = "complete"
        BY <4>3 DEF StripeSound
      <4>5. Live(s)
        BY <4>1, <4>3, <4>4 DEF Pays
      <4>6. row.sub # 0 /\ row.status \notin TerminalStatuses /\ Live(row.sub)
        BY <4>2, <4>5 DEF HasLiveSubscription, LiveStatuses, TerminalStatuses
      <4>7. sub' = [sub EXCEPT ![row.sub] = [status |-> "canceled", at |-> now]]
        BY <1>3, <4>6 DEF CancelWorkspaceSubscription, Change
      <4>8. sub'[s].status = "canceled"
        BY <1>0, <4>2, <4>7
      <4> QED
        BY <2>0, <3>2, <4>4, <4>8 DEF Pays, Live, LiveStatuses
    <3> QED
      BY <3>1, <3>2 DEF ClosedWhenDeleting
  <2> QED
    BY <2>1, <2>2, <2>3
<1>4. ASSUME NEW s \in Checkouts,
             \/ PaymentFails(s) \/ CancelInPortal(s) \/ DisputeOpened(s) \/ SessionTimesOut(s)
             \/ \E ok \in BOOLEAN : PaymentRetried(s, ok)
             \/ \E status \in {"active", "incomplete"} : Pay(s, status)
             \/ \E status \in {"active", "incomplete_expired"} : Settle(s, status)
      PROVE  ClosedWhenDeleting'
  <2>1. ws' = ws
    BY <1>4 DEF PaymentFails, CancelInPortal, DisputeOpened, SessionTimesOut, PaymentRetried, Pay, Settle
  <2>2. session[s].st = "open" \/ Live(s) \/ sub[s].status = "incomplete"
    BY <1>4 DEF PaymentFails, CancelInPortal, DisputeOpened, SessionTimesOut, PaymentRetried, Pay, Settle, Live, LiveStatuses
  <2>3. ws = "live"
    BY <1>c, <2>2
  <2> QED
    BY <2>1, <2>3 DEF ClosedWhenDeleting
<1>5. ASSUME NEW o \in Buyers,
             \/ ClaimCheckoutSlot(o) \/ LookAtSession(o) \/ ExpireSession(o) \/ ReleaseClaim(o)
             \/ ClaimAgain(o) \/ Post(o) \/ StoreSession(o)
             \/ \E created \in BOOLEAN : PostFails(o, created)
      PROVE  ClosedWhenDeleting'
  <2>0. ws' = ws
    BY <1>5, AttemptAtStripe
  <2> SUFFICES ASSUME ws # "live" PROVE ClosedWhenDeleting'
    BY <1>d, <2>0
  <2>n. NoRequest.pc = "idle"
    BY DEF NoRequest
  <2>p. \A p \in Buyers : attempt[p].pc # "post"
    BY DEF ClosedWhenDeleting
  <2>q. ASSUME session' = session, sub' = sub, NEW r, attempt' = [attempt EXCEPT ![o] = r], r.pc # "post"
        PROVE  ClosedWhenDeleting'
    <3>1. \A p \in Buyers : attempt'[p].pc # "post"
      BY <1>0, <2>p, <2>q
    <3>2. \A s \in Checkouts : Pays(s)' => Pays(s)
      BY <2>q DEF Pays, Live
    <3> QED
      BY <1>s, <3>1, <3>2
  <2>g. ws = "gone" \/ ws = "deleting"
    BY DEF Typed, BillingTypeOK
  <2>1. CASE ClaimCheckoutSlot(o)
    <3>1. ~Claimable
      BY <2>1, <2>g DEF ClaimCheckoutSlot
    <3>2. attempt' = [attempt EXCEPT ![o] = [pc |-> "look", sid |-> row.session, no |-> row.no]]
      BY <2>1, <3>1 DEF ClaimCheckoutSlot
    <3> QED
      BY <2>1, <2>q, <3>2 DEF ClaimCheckoutSlot
  <2>2. CASE LookAtSession(o)
    <3>1. CASE attempt' = [attempt EXCEPT ![o].pc = NextStep(session[attempt[o].sid].st)]
      <4> DEFINE r == [attempt[o] EXCEPT !.pc = NextStep(session[attempt[o].sid].st)]
      <4>1. attempt' = [attempt EXCEPT ![o] = r] /\ r.pc = NextStep(session[attempt[o].sid].st)
        BY <1>0, <3>1
      <4>2. NextStep(session[attempt[o].sid].st) \in {"expire", "idle", "release"}
        BY DEF NextStep
      <4> HIDE DEF r
      <4> QED
        BY <2>2, <2>q, <4>1, <4>2 DEF LookAtSession
    <3>2. CASE attempt' = [attempt EXCEPT ![o] = NoRequest]
      BY <2>2, <2>n, <2>q, <3>2 DEF LookAtSession
    <3> QED
      BY <2>2, <3>1, <3>2 DEF LookAtSession
  <2>3. CASE ExpireSession(o)
    <3>1. session[attempt[o].sid].st # "open"
      <4>1. attempt[o].sid \in Checkouts
        BY <1>0, <2>3 DEF ExpireSession, Known
      <4> QED
        BY <1>c, <4>1
    <3> QED
      BY <2>3, <2>n, <2>q, <3>1 DEF ExpireSession
  <2>4. CASE ReleaseClaim(o)
    <3> DEFINE r == [attempt[o] EXCEPT !.pc = "again"]
    <3>1. attempt' = [attempt EXCEPT ![o] = r] /\ r.pc = "again"
      BY <1>0, <2>4 DEF ReleaseClaim
    <3> HIDE DEF r
    <3> QED
      BY <2>4, <2>q, <3>1 DEF ReleaseClaim
  <2>5. CASE ClaimAgain(o)
    <3>1. ~(Claimable /\ ws # "gone")
      BY <2>5, <2>g DEF ClaimAgain
    <3> QED
      BY <2>5, <2>n, <2>q, <3>1 DEF ClaimAgain
  <2>6. CASE Post(o)
    BY <2>6, <2>p DEF Post
  <2>7. CASE StoreSession(o)
    BY <2>7, <2>n, <2>q DEF StoreSession
  <2>8. ASSUME NEW created \in BOOLEAN, PostFails(o, created) PROVE FALSE
    BY <2>8, <2>p DEF PostFails
  <2> QED
    BY <1>5, <2>1, <2>2, <2>3, <2>4, <2>5, <2>6, <2>7, <2>8
<1>6. ASSUME NEW e \in events, DeliverDispute(e) PROVE ClosedWhenDeleting'
  <2>1. ws' = ws
    BY <1>6 DEF DeliverDispute
  <2>2. ASSUME ws # "live" PROVE ClosedWhenDeleting'
    <3>1. ~(row.sub # 0 /\ Live(row.sub))
      BY <1>0, <1>c, <2>2
    <3>2. session' = session /\ sub' = sub /\ attempt' = attempt
      BY <1>6, <3>1 DEF DeliverDispute
    <3> QED
      BY <1>a, <2>2, <3>2
  <2> QED
    BY <1>d, <2>1, <2>2
<1>7. ASSUME NEW e \in events, NEW again \in BOOLEAN, Deliver(e, again) PROVE ClosedWhenDeleting'
  BY <1>7, <1>a, <1>d DEF Deliver
<1> QED
  BY <1>1, <1>2, <1>3, <1>4, <1>5, <1>6, <1>7 DEF BillingNext

\* Every step keeps the row sound as long as there is one.
LEMMA RowKept ==
    ASSUME Typed, Typed', StripeSound, Known, SessionsStay, BillingNext, ~loose', ws' # "gone", ws # "gone" => RowSound
    PROVE  RowSound'
<1>0. ws # "gone" /\ RowSound
  BY DEF BillingNext, Tick, CancelWorkspaceSubscription, PurgeWorkspace, PaymentFails, CancelInPortal, DisputeOpened,
         SessionTimesOut, PaymentRetried, Pay, Settle, ClaimCheckoutSlot, LookAtSession, ExpireSession, ReleaseClaim,
         ClaimAgain, Post, StoreSession, PostFails, DeliverDispute, Deliver
<1>1. CASE Tick
  BY <1>0, <1>1, QuietKeeps DEF Tick, Created
<1>2. CASE CancelWorkspaceSubscription
  BY <1>0, <1>2, CancelWorkspaceKeeps
<1>3. CASE PurgeWorkspace
  BY <1>0, <1>3, QuietKeeps DEF PurgeWorkspace, Created
<1>4. ASSUME NEW s \in Checkouts,
             \/ PaymentFails(s) \/ CancelInPortal(s) \/ DisputeOpened(s) \/ SessionTimesOut(s)
             \/ \E ok \in BOOLEAN : PaymentRetried(s, ok)
             \/ \E status \in {"active", "incomplete"} : Pay(s, status)
             \/ \E status \in {"active", "incomplete_expired"} : Settle(s, status)
      PROVE  RowSound'
  BY <1>0, <1>4, RowAtStripe
<1>5. ASSUME NEW o \in Buyers,
             \/ ClaimCheckoutSlot(o) \/ LookAtSession(o) \/ ExpireSession(o) \/ ReleaseClaim(o)
             \/ ClaimAgain(o) \/ Post(o) \/ StoreSession(o)
             \/ \E created \in BOOLEAN : PostFails(o, created)
      PROVE  RowSound'
  BY <1>0, <1>5, AttemptKeeps
<1>6. ASSUME NEW e \in events, DeliverDispute(e) PROVE RowSound'
  BY <1>0, <1>6, DisputeKeeps
<1>7. ASSUME NEW e \in events, NEW again \in BOOLEAN, Deliver(e, again) PROVE RowSound'
  BY <1>0, <1>7, DeliverKeeps
<1> QED
  BY <1>1, <1>2, <1>3, <1>4, <1>5, <1>6, <1>7 DEF BillingNext

\* The start is typed, and nothing has happened yet.
LEMMA BillingStarts ==
    ASSUME BillingInit
    PROVE  BillingInv
<1>0. /\ MaxTime \in Nat /\ Grace \in Nat /\ 0 \notin Checkouts
      /\ \A s \in Checkouts : session[s].st = "none" /\ sub[s].status = "inactive" /\ sub[s].at = 0
      /\ \A o \in Buyers : attempt[o].pc = "idle" /\ attempt[o].sid = 0 /\ attempt[o].no = 0
      /\ row.sub = 0 /\ row.status = "inactive" /\ row.last = -1 /\ row.claim = -1 /\ row.no = 0 /\ row.session = 0
      /\ events = {} /\ seen = {} /\ Coming = {} /\ now = 0 /\ ws = "live"
  BY BillingBounds DEF BillingInit, NoRow, NoRequest, Coming
<1>1. BillingTypeOK
  <2>1. row \in [sub : Checkouts \cup {0}, status : Statuses, last : -1 .. MaxTime, grace : 0 .. MaxTime + Grace,
                 claim : -1 .. MaxTime, no : Nat, session : Checkouts \cup {0}]
    BY <1>0 DEF BillingInit, NoRow, Statuses, TerminalStatuses
  <2>2. attempt \in [Buyers -> [pc : {"idle", "look", "expire", "release", "again", "post", "store"}, sid : Checkouts \cup {0}, no : Nat]]
    BY DEF BillingInit, NoRequest
  <2> QED
    BY <1>0, <2>1, <2>2 DEF BillingTypeOK, LiveStatuses
<1>2. StripeTyped
  <2>1. /\ session \in [Checkouts -> [st : {"none", "open", "expired", "complete"}, at : 0 .. MaxTime, no : Nat]]
        /\ now \in 0 .. MaxTime
    BY <1>0 DEF BillingInit
  <2>2. sub \in [Checkouts -> [status : Statuses, at : 0 .. MaxTime]]
    BY <1>0 DEF BillingInit, Statuses, TerminalStatuses
  <2>3. loose \in BOOLEAN
    BY DEF BillingInit
  <2>4. /\ events \subseteq [of : Checkouts, type : EventTypes, status : Statuses \cup {"none"}, at : 0 .. MaxTime]
        /\ seen \subseteq {e \in events : e.type # "dispute"}
    BY <1>0
  <2> QED
    BY <2>1, <2>2, <2>3, <2>4 DEF StripeTyped
<1>3. StripeSound /\ Known
  BY <1>0 DEF StripeSound, Known, Started
<1>4. \A s \in Checkouts : ~Created(s) /\ ~Started(s) /\ ~Live(s) /\ ~Pays(s) /\ ~Unsettled(s)
  BY <1>0 DEF Created, Started, Live, LiveStatuses, Pays, Unsettled, EndComing
<1>5. ~HasLiveSubscription
  BY <1>0 DEF HasLiveSubscription
<1>6. Numbers /\ Guarded /\ PostsAlone /\ StoresOwn /\ SessionOfClaim
  BY <1>0, <1>4, <1>5 DEF Numbers, Guarded, PostsAlone, StoresOwn, SessionOfClaim
<1>7. RowOfSubscription /\ LaterThanRow /\ LaterSubs /\ RowFollows
  BY <1>0, <1>4 DEF RowOfSubscription, LaterThanRow, LaterSubs, RowFollows
<1>8. RowSound
  BY <1>6, <1>7 DEF RowSound
<1>9. ClosedWhenDeleting
  BY <1>0 DEF ClosedWhenDeleting
<1> QED
  BY <1>1, <1>2, <1>3, <1>8, <1>9 DEF BillingInv

\* The history is kept.
LEMMA LooseStays == [BillingNext]_billingVars => (loose => loose')
BY DEF BillingNext, billingVars, Tick, CancelWorkspaceSubscription, PurgeWorkspace, PaymentFails, CancelInPortal, DisputeOpened,
       SessionTimesOut, PaymentRetried, Pay, Settle, ClaimCheckoutSlot, LookAtSession, ExpireSession, ReleaseClaim,
       ClaimAgain, Post, StoreSession, PostFails, DeliverDispute, Deliver

\* Stripe's side is typed and truthful, and as long as the claim stands for the session that is
\* open, the row and the claim account for everything that may be paid (createCheckoutSession,
\* applyStripeEvent, cancelWorkspaceSubscription).
THEOREM BillingAccounted == BillingSpec => []BillingInv
<1>1. BillingInit => BillingInv
  BY BillingStarts
<1>2. BillingInv /\ [BillingNext]_billingVars => BillingInv'
  <2> SUFFICES ASSUME BillingInv, [BillingNext]_billingVars PROVE BillingInv'
    OBVIOUS
  <2>0. Typed /\ StripeSound /\ Known
    BY DEF BillingInv, Typed
  <2>1. Typed' /\ StripeSound' /\ Known' /\ SessionsStay
    BY <2>0, TypesKept, StripeSoundKept, KnownKept, SessionsAlwaysStay
  <2>2. ASSUME ~loose' PROVE ClosedWhenDeleting' /\ (ws' # "gone" => RowSound')
    <3>0. ~loose /\ ClosedWhenDeleting /\ (ws # "gone" => RowSound)
      BY <2>2, LooseStays DEF BillingInv
    <3>1. CASE BillingNext
      BY <2>0, <2>1, <2>2, <3>0, <3>1, ClosedKept, RowKept
    <3>2. CASE UNCHANGED billingVars
      <4>1. ws' = ws /\ row' = row /\ attempt' = attempt /\ session' = session /\ sub' = sub /\ events' = events /\ seen' = seen
        BY <3>2 DEF billingVars
      <4>2. ClosedWhenDeleting'
        BY <3>0, <4>1 DEF ClosedWhenDeleting, Pays, Live
      <4>3. ws' # "gone" => RowSound'
        BY <2>0, <2>1, <3>0, <4>1, QuietKeeps DEF Created
      <4> QED
        BY <4>2, <4>3
    <3> QED
      BY <3>1, <3>2
  <2> QED
    BY <2>1, <2>2 DEF BillingInv, Typed
<1> QED
  BY <1>1, <1>2, PTL DEF BillingSpec

\* A workspace never pays for two subscriptions, however many buyers start a checkout, redo
\* one or pay while it is being redone, and pays for none once it is deleted, as long as no
\* claim ran out or was taken from under its owner (createCheckoutSession, claimCheckoutSlot).
THEOREM NeverBilledTwice == BillingSpec => []NoDoubleBilling
<1>1. BillingInv => NoDoubleBilling
  <2> SUFFICES ASSUME BillingInv, ~loose PROVE Cardinality(Billed) <= IF ws = "gone" THEN 0 ELSE 1
    BY DEF BillingInv, NoDoubleBilling
  <2>0. Typed /\ StripeSound /\ ClosedWhenDeleting /\ (ws # "gone" => RowSound)
    BY DEF BillingInv, Typed
  <2>1. CASE Billed = {}
    BY <2>1, FS_EmptySet
  <2>2. CASE Billed # {}
    <3>1. PICK s \in Checkouts : Live(s)
      BY <2>2 DEF Billed
    <3>2. ws # "gone" /\ Numbers /\ Guarded
      BY <2>0, <3>1 DEF ClosedWhenDeleting, Pays, RowSound
    <3>3. \A t \in Checkouts : Live(t) => t = s
      BY <2>0, <3>1, <3>2, OneUnsettled DEF Unsettled, Pays
    <3>4. Billed = {s}
      BY <3>1, <3>3 DEF Billed
    <3>5. Cardinality({s}) = 1
      BY FS_Singleton
    <3> QED
      BY <3>2, <3>4, <3>5
  <2> QED
    BY <2>1, <2>2
<1> QED
  BY <1>1, BillingAccounted, PTL

\* Once every webhook has arrived, in whatever order and however often, the row says what
\* Stripe says (applyStripeEvent).
THEOREM RowSaysWhatStripeSays == BillingSpec => []RowFollowsStripe
<1>1. BillingInv => RowFollowsStripe
  <2> SUFFICES ASSUME BillingInv, events = {}, ws = "live", ~loose
               PROVE  /\ HasLiveSubscription <=> Billed # {}
                      /\ \A s \in Billed : row.sub = s /\ row.status = sub[s].status
    BY DEF RowFollowsStripe
  <2>0. /\ Typed /\ StripeSound /\ RowOfSubscription /\ RowFollows
        /\ Coming = {} /\ row.sub \in Checkouts \cup {0}
    BY Fields DEF BillingInv, Typed, RowSound, Coming
  <2>1. \A s \in Checkouts : Live(s) => row.sub = s /\ row.status = sub[s].status
    BY <2>0 DEF RowFollows, UpToDate
  <2>2. ASSUME HasLiveSubscription PROVE Billed # {}
    <3>1. row.sub \in Checkouts /\ Unsettled(row.sub) /\ Started(row.sub) /\ sub[row.sub].status # "incomplete"
      BY <2>0, <2>2 DEF HasLiveSubscription, RowOfSubscription
    <3>2. session[row.sub].st = "complete" /\ ~EndComing(row.sub)
      BY <2>0, <3>1 DEF StripeSound, EndComing
    <3>3. Live(row.sub)
      BY <3>1, <3>2 DEF Unsettled, Pays
    <3> QED
      BY <3>1, <3>3 DEF Billed
  <2>3. ASSUME Billed # {} PROVE HasLiveSubscription
    <3>1. PICK s \in Checkouts : Live(s)
      BY <2>3 DEF Billed
    <3>2. row.sub = s /\ row.status = sub[s].status /\ s # 0
      BY <2>1, <3>1, BillingBounds
    <3> QED
      BY <3>1, <3>2 DEF HasLiveSubscription, Live
  <2> QED
    BY <2>1, <2>2, <2>3 DEF Billed
<1> QED
  BY <1>1, BillingAccounted, PTL

=============================================================================
