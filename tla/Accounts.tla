------------------------------ MODULE Accounts ------------------------------
(* Accounts, workspaces and sign-in of the web app (webapp/src/lib/          *)
(* accounts.ts, sessions.ts, authTokens.ts, apiTokens.ts, loginThrottle.ts,  *)
(* workspaces.ts, teamAdmin.ts, workspacePurge.ts, googleIntegration.ts and  *)
(* the actions and routes that call them).                                   *)
(*                                                                           *)
(* Several requests are served at once.  A request is a record in req: each  *)
(* step is one database transaction (or one statement) and decides on what   *)
(* an earlier step read, so whatever other requests do in between happens.   *)
(* A transaction is atomic.  A password is the number of its writing; a      *)
(* guess of it is right or wrong.  Rows that refer to a deleted account or   *)
(* workspace go with it, as the foreign keys of the schema say.              *)
EXTENDS Naturals, FiniteSets, FiniteSetsExt

CONSTANTS
  Emails, Workspaces, Addresses,   \* mailboxes, workspaces, network addresses
  Procs,                           \* requests that may be in flight together
  Scenes,                          \* the situations explored (see the MC module)
  Free,                            \* attempts a throttle rule allows without delay
  MaxTokens,                       \* MAX_API_TOKENS_PER_USER
  None

\* A row of User, and what a membership may say.
AnAccount == [id : Nat, pw : Nat, verified : BOOLEAN, must : BOOLEAN, prov : BOOLEAN]
Roles == {"none", "member", "owner"}

ASSUME ThrottleAssumption == Free \in [{"email", "reset", "verify", "pwchange", "ip", "signup", "pair"} -> Nat]
ASSUME TokenAssumption == MaxTokens \in Nat \ {0}
ASSUME ProcsAssumption == IsFiniteSet(Procs) /\ Procs # {}
ASSUME NoneAssumption == None \notin AnAccount
\* A scene begins with accounts that belong somewhere, in workspaces with an owner.
ASSUME ScenesAssumption ==
  \A s \in Scenes :
    /\ s.mail \subseteq Emails /\ s.calls \in Nat
    /\ DOMAIN s.users \subseteq Emails
    /\ \A e \in DOMAIN s.users : s.users[e] \in [Workspaces -> Roles] /\ \E w \in Workspaces : s.users[e][w] # "none"
    /\ \A w \in Workspaces : (\E e \in DOMAIN s.users : s.users[e][w] # "none")
                            => \E e \in DOMAIN s.users : s.users[e][w] = "owner"

VARIABLES
  conf,        \* the scene: which operations are called, and how often
  account,     \* mailbox -> its row of User, or None
  member,      \* mailbox, workspace -> "none", "member" or "owner"
  workspaces,  \* the workspaces that exist
  creds,       \* sessions and API tokens
  links,       \* unspent rows of AuthToken and GoogleExtensionAuthCode
  req,         \* requests in flight
  fails, hot,  \* LoginThrottle: hits per key, and keys whose delay still runs
  tries,       \* (history) attempts counted against a key since it last let up
  done,        \* (history) the newest password whose change has finished
  slipped,     \* (history) credentials issued on a proof older than the password
  crossed,     \* (history) workspaces left behind by an out-of-date account deletion
  adrift,      \* (history) accounts whose workspace was purged as they joined it
  left, next   \* requests still to come; the next fresh number

vars == <<conf, account, member, workspaces, creds, links, req, fails, hot, tries,
          done, slipped, crossed, adrift, left, next>>
db == <<account, member, workspaces>>
throttle == <<fails, hot, tries>>
history == <<done, slipped, crossed, adrift>>

Idle == [op |-> "idle"]
Keys == ({"email", "reset", "verify", "pwchange"} \X Emails) \cup ({"ip", "signup"} \X Addresses)
          \cup ({"pair"} \X Addresses \X Emails)

On(op) == op \in conf.ops
Start(p, r) == req[p] = Idle /\ left > 0 /\ left' = left - 1 /\ req' = [req EXCEPT ![p] = r]
At(p, op) == req[p].op = op
Go(p, r) == req' = [req EXCEPT ![p] = r] /\ UNCHANGED left
End(p) == Go(p, Idle)
Once == left > 0 /\ left' = left - 1 /\ UNCHANGED req

----------------------------------------------------------------------------
(* Throttling *)
loginRules(e, a) == {<<"email", e>>, <<"pair", a, e>>, <<"ip", a>>}

\* delayFor: the delay starts with the hit that passes the free attempts.
delayFor(k, n) == n > Free[k[1]]

throttleStatus(rules) == rules \cap hot = {}

recordThrottleHit(rules) ==
  /\ fails' = [k \in Keys |-> IF k \in rules THEN fails[k] + 1 ELSE fails[k]]
  /\ hot' = hot \cup {k \in rules : delayFor(k, fails[k] + 1)}
  /\ tries' = [k \in Keys |-> IF k \in rules THEN tries[k] + 1 ELSE tries[k]]

clearThrottleKeys(rules) ==
  /\ fails' = [k \in Keys |-> IF k \in rules THEN 0 ELSE fails[k]]
  /\ hot' = hot \ rules
  /\ tries' = [k \in Keys |-> IF k \in rules /\ k[1] # "ip" THEN 0 ELSE tries[k]]

\* Mutant: a correct password also clears the budget of the address.
ClearsAddressToo(e, a) == loginRules(e, a)

\* clearLoginFailures: never the budget shared by the whole address.
clearLoginFailures(e, a) == {k \in loginRules(e, a) : k[1] # "ip"}

\* The delay of a key has run out: its next attempt is let through.
DelayElapses(k) ==
  /\ k \in hot
  /\ hot' = hot \ {k} /\ tries' = [tries EXCEPT ![k] = 0]
  /\ UNCHANGED <<conf, db, creds, links, req, fails, history, left, next>>

----------------------------------------------------------------------------
(* Rows *)
Is(e, id) == account[e] # None /\ account[e].id = id
Belongs(e) == \E w \in workspaces : member[e][w] # "none"
Owners(w) == {e \in Emails : member[e][w] = "owner"}
Members(w) == {e \in Emails : member[e][w] # "none"}
Sessions(e) == {c \in creds : c.e = e /\ c.kind = "session"}
Tokens(e) == {c \in creds : c.e = e /\ c.kind # "session"}

NewAccount(verified, must) == [id |-> next, pw |-> next, verified |-> verified, must |-> must, prov |-> must]

createAccount(e, w, role, verified, must) ==
  /\ account' = [account EXCEPT ![e] = NewAccount(verified, must)]
  /\ member' = [member EXCEPT ![e][w] = role]
  /\ next' = next + 1

\* What goes with the accounts gone (their rows cascade).
Cascade(gone) ==
  /\ account' = [e \in Emails |-> IF e \in gone THEN None ELSE account[e]]
  /\ links' = {l \in links : l.e \in gone => l.kind = "invite"}
  /\ done' = [e \in Emails |-> IF e \in gone THEN 0 ELSE done[e]]
  /\ adrift' = adrift \ gone

\* createSession, createApiToken: an API token is followed by pruneApiTokens,
\* which keeps the newest of its scope.
pruneApiTokens(cs, c) ==
  LET same == {d \in cs : d.e = c.e /\ d.kind = c.kind}
      older == {d \in same : Cardinality({f \in same : f.n > d.n}) >= MaxTokens}
  IN IF c.kind = "session" THEN cs ELSE cs \ older

\* from is the password on which the credential's authority was checked.
Issue(e, kind, w, from) ==
  LET c == [n |-> next, e |-> e, kind |-> kind, ws |-> w, from |-> from]
  IN /\ creds' = pruneApiTokens(creds \cup {c}, c)
     /\ slipped' = IF from < account[e].pw THEN slipped \cup {next} ELSE slipped
     /\ next' = next + 1

\* resolveActiveWorkspace: the chosen workspace while its session's account is a
\* member of it, otherwise its default one.
resolveActiveWorkspace(e, w) ==
  IF w # None /\ w \in workspaces /\ member[e][w] # "none" THEN {w}
  ELSE {v \in workspaces : member[e][v] # "none"}

\* requireSession: the workspaces a request of this session acts in.
requireSession(c, allowPasswordChange) ==
  IF c.kind = "session" /\ (allowPasswordChange \/ ~account[c.e].must)
  THEN resolveActiveWorkspace(c.e, c.ws) ELSE {}

\* getManagedSession: a token of the managed scope, or a session id, as a Bearer
\* secret; the workspace it names is checked for membership.
getManagedSession(c) ==
  IF c.kind # "notes" /\ ~account[c.e].must THEN {w \in workspaces : member[c.e][w] # "none"} ELSE {}

\* issueAuthToken: a new link takes the place of unspent ones for its subject.
issueAuthToken(kind, e, id, w, from) ==
  LET l == [n |-> next, kind |-> kind, e |-> e, id |-> id, ws |-> w, from |-> from]
      superseded == {o \in links : o.kind = kind /\ o.e = e /\ (kind = "invite" => o.ws = w)}
  IN links' = (links \ superseded) \cup {l} /\ next' = next + 1

\* One conditional statement: the row it returns was spent by this request alone.
consumeAuthToken(l) == l \in links /\ links' = links \ {l}

consumeGoogleExtensionCode(l) == l \in links /\ links' = links \ {l}

----------------------------------------------------------------------------
(* Signing in with a password *)
authenticateCredentials(p, e, a, right, kind) ==
  /\ On("login") /\ throttleStatus(loginRules(e, a))
  /\ IF right /\ account[e] # None
     THEN /\ account[e].verified
          /\ Start(p, [op |-> "proven", e |-> e, a |-> a, id |-> account[e].id, kind |-> kind,
                       must |-> account[e].must, from |-> account[e].pw])
     ELSE Start(p, [op |-> "failed", e |-> e, a |-> a])
  /\ UNCHANGED <<conf, db, creds, links, throttle, history, next>>

login(p, e, a, right) == authenticateCredentials(p, e, a, right, "session")

\* POST auth/login, for the extension and the desktop app.
loginRoute(p, e, a, right) == authenticateCredentials(p, e, a, right, "token")

recordLoginFailure(p) ==
  /\ At(p, "failed")
  /\ recordThrottleHit(loginRules(req[p].e, req[p].a)) /\ End(p)
  /\ UNCHANGED <<conf, db, creds, links, history, next>>

clearProven(p) ==
  /\ At(p, "proven")
  /\ clearThrottleKeys(clearLoginFailures(req[p].e, req[p].a))
  /\ Go(p, [op |-> "issue", e |-> req[p].e, id |-> req[p].id, kind |-> req[p].kind,
            must |-> req[p].must, ws |-> None, from |-> req[p].from])
  /\ UNCHANGED <<conf, db, creds, links, history, next>>

\* Where the account of a sign-in is let in: a password and a desktop code look for
\* a workspace at the end, Google's code insists on its own, the others looked before.
LetIn(r) ==
  CASE r.op = "issue" -> resolveActiveWorkspace(r.e, r.ws)
    [] r.op = "exchange" -> {w \in workspaces : w = r.ws /\ member[r.e][w] # "none"}
    [] r.op = "mint" -> {w \in Workspaces : w = r.ws /\ (r.kind = "notes" => w \in workspaces)}

\* The last step of every sign-in: login, signup, the extension's login, the
\* Google callback, the exchange of a code and an accepted invitation.
createCredential(p) ==
  LET r == req[p]
      to == IF Is(r.e, r.id) /\ (r.kind # "session" => ~r.must) THEN LetIn(r) ELSE {}
  IN
  /\ r.op \in {"issue", "exchange", "mint"} /\ End(p)
  /\ IF to = {} THEN UNCHANGED <<creds, slipped, next>>
     ELSE \E w \in to : Issue(r.e, r.kind, IF r.kind = "token" THEN None ELSE w, r.from)
  /\ UNCHANGED <<conf, db, links, throttle, done, crossed, adrift>>

DropCredential(c) ==
  /\ On("drop") /\ Once
  /\ creds' = creds \ {c}
  /\ UNCHANGED <<conf, db, links, throttle, history, next>>

logout(c) == c.kind = "session" /\ DropCredential(c)

\* POST auth/logout, and revoking one token on the account page.
logoutRoute(c) == c.kind # "session" /\ DropCredential(c)

\* signOutEverywhereAction: sessions first, then tokens.
signOutEverywhere(p, c) ==
  /\ On("signout") /\ c.kind = "session"
  /\ Start(p, [op |-> "revoke", e |-> c.e, id |-> account[c.e].id])
  /\ creds' = creds \ Sessions(c.e)
  /\ UNCHANGED <<conf, db, links, throttle, history, next>>

revokeAllApiTokens(p) ==
  /\ At(p, "revoke") /\ End(p)
  /\ creds' = creds \ (IF Is(req[p].e, req[p].id) THEN Tokens(req[p].e) ELSE {})
  /\ UNCHANGED <<conf, db, links, throttle, history, next>>

\* The session is read, then the row is written.
MintToken(p, c, w, kind) ==
  /\ On("token")
  /\ Start(p, [op |-> "mint", e |-> c.e, id |-> account[c.e].id, kind |-> kind, must |-> FALSE,
               ws |-> w, from |-> c.from])
  /\ UNCHANGED <<conf, db, creds, links, throttle, history, next>>

createApiTokenAction(p, c, kind) == \E w \in requireSession(c, FALSE) : MintToken(p, c, w, kind)

\* POST account/desktop-sync-token
desktopSyncToken(p, c) == \E w \in getManagedSession(c) : MintToken(p, c, w, "notes")

\* A code for the desktop app, made from a session.
createDesktopConnectCode(c) ==
  /\ On("code") /\ Once
  /\ \E w \in requireSession(c, FALSE) : issueAuthToken("code", c.e, account[c.e].id, w, c.from)
  /\ UNCHANGED <<conf, db, creds, throttle, history>>

\* POST auth/desktop-code: the code is spent, then the account and its membership
\* are read, then the token is written.
desktopCode(p, l) ==
  /\ On("code") /\ l.kind = "code"
  /\ Start(p, [op |-> "issue", e |-> l.e, id |-> l.id, kind |-> "token", must |-> FALSE,
               ws |-> l.ws, from |-> l.from])
  /\ consumeAuthToken(l)
  /\ UNCHANGED <<conf, db, creds, throttle, history, next>>

\* POST auth/google/exchange
googleExchange(p, l) ==
  /\ On("code") /\ l.kind = "google"
  /\ Start(p, [op |-> "exchange", e |-> l.e, id |-> l.id, kind |-> "token", must |-> FALSE,
               ws |-> l.ws, from |-> l.from])
  /\ consumeGoogleExtensionCode(l)
  /\ UNCHANGED <<conf, db, creds, throttle, history, next>>

\* resolveGoogleAccount for an address Google vouches for: refused when the account
\* never confirmed its address or was provisioned by an owner.
googleLinkable(e) == account[e] # None /\ account[e].verified /\ ~account[e].prov

signInWithGoogle(p, e) ==
  /\ On("google") /\ googleLinkable(e)
  /\ \E w \in resolveActiveWorkspace(e, None) :
       Start(p, [op |-> "mint", e |-> e, id |-> account[e].id, kind |-> "session", must |-> FALSE,
                 ws |-> w, from |-> account[e].pw])
  /\ UNCHANGED <<conf, db, creds, links, throttle, history, next>>

createGoogleExtensionCode(e, w) ==
  /\ On("google") /\ googleLinkable(e) /\ w \in resolveActiveWorkspace(e, None)
  /\ Once /\ ~account[e].must
  /\ links' = links \cup {[n |-> next, kind |-> "google", e |-> e, id |-> account[e].id, ws |-> w,
                           from |-> account[e].pw]}
  /\ next' = next + 1
  /\ UNCHANGED <<conf, db, creds, throttle, history>>

----------------------------------------------------------------------------
(* Changing a password *)
requestPasswordReset(e) ==
  /\ On("reset") /\ throttleStatus({<<"reset", e>>}) /\ Once
  /\ recordThrottleHit({<<"reset", e>>})
  /\ IF account[e] # None THEN issueAuthToken("reset", e, account[e].id, None, 0)
     ELSE UNCHANGED <<links, next>>
  /\ UNCHANGED <<conf, db, creds, history>>

spendResetLink(p, l) ==
  /\ On("reset") /\ l.kind = "reset"
  /\ Start(p, [op |-> "reset", e |-> l.e, id |-> l.id])
  /\ consumeAuthToken(l)
  /\ UNCHANGED <<conf, db, creds, throttle, history, next>>

setPassword(e, verified) ==
  /\ account' = [account EXCEPT ![e].pw = next, ![e].must = FALSE, ![e].verified = verified]
  /\ next' = next + 1

completePasswordReset(p) ==
  LET r == req[p] IN
  /\ At(p, "reset")
  /\ IF Is(r.e, r.id)
     THEN /\ setPassword(r.e, TRUE)
          /\ creds' = creds \ Sessions(r.e)
          /\ Go(p, [op |-> "finish", e |-> r.e, id |-> r.id, pw |-> next, key |-> <<"email", r.e>>])
     ELSE End(p) /\ UNCHANGED <<account, creds, next>>
  /\ UNCHANGED <<conf, member, workspaces, links, throttle, history>>

\* changePassword: the session and the current password are checked; the new one
\* is hashed and written later, whatever the password is by then.
verifyCurrentPassword(p, c, right) ==
  /\ On("change") /\ throttleStatus({<<"pwchange", c.e>>})
  /\ requireSession(c, TRUE) # {}
  /\ IF right THEN /\ Start(p, [op |-> "change", e |-> c.e, id |-> account[c.e].id, keep |-> c.n])
                   /\ UNCHANGED throttle
     ELSE Once /\ recordThrottleHit({<<"pwchange", c.e>>})
  /\ UNCHANGED <<conf, db, creds, links, history, next>>

\* The session that asked is kept and rests on the new password from then on.
KeepOnly(e, n) ==
  creds' = (creds \ Sessions(e)) \cup {[c EXCEPT !.from = next] : c \in {d \in Sessions(e) : d.n = n}}

changePassword(p) ==
  LET r == req[p] IN
  /\ At(p, "change")
  /\ IF Is(r.e, r.id)
     THEN /\ setPassword(r.e, account[r.e].verified) /\ KeepOnly(r.e, r.keep)
          /\ Go(p, [op |-> "finish", e |-> r.e, id |-> r.id, pw |-> next, key |-> <<"pwchange", r.e>>])
     ELSE End(p) /\ UNCHANGED <<account, creds, next>>
  /\ UNCHANGED <<conf, member, workspaces, links, throttle, history>>

\* Mutant: the reset forgets the API tokens.
KeepTokens(e) == {}

RevokedTokens(e) == Tokens(e)

\* The rest of both: every API token of the account, then the throttle key.
finishPassword(p) ==
  LET r == req[p] IN
  /\ At(p, "finish") /\ End(p)
  /\ clearThrottleKeys({r.key})
  /\ IF Is(r.e, r.id)
     THEN /\ creds' = creds \ RevokedTokens(r.e)
          /\ done' = [done EXCEPT ![r.e] = Max({@, r.pw})]
     ELSE UNCHANGED <<creds, done>>
  /\ UNCHANGED <<conf, db, links, slipped, crossed, adrift, next>>

\* The process that serves a request ends: its remaining steps never happen.
Crash(p) ==
  /\ On("crash") /\ req[p] # Idle /\ End(p)
  /\ UNCHANGED <<conf, db, creds, links, throttle, history, next>>

----------------------------------------------------------------------------
(* Creating accounts *)
registerHostedAccount(p, e, a) ==
  /\ On("signup") /\ throttleStatus({<<"signup", a>>})
  /\ Start(p, [op |-> "signup", e |-> e, a |-> a, google |-> FALSE])
  /\ UNCHANGED <<conf, db, creds, links, throttle, history, next>>

googleSignup(p, e, a) ==
  /\ On("signup") /\ account[e] = None /\ throttleStatus({<<"signup", a>>})
  /\ Start(p, [op |-> "signup", e |-> e, a |-> a, google |-> TRUE])
  /\ UNCHANGED <<conf, db, creds, links, throttle, history, next>>

\* createHostedWorkspaceWithOwner: one transaction; the unique address or the
\* daily number of trials refuses it.  An account made with a password has its
\* verification link sent; Google's account is signed in at once.
createHostedWorkspaceWithOwner(p, w) ==
  LET r == req[p] IN
  /\ At(p, "signup") /\ recordThrottleHit({<<"signup", r.a>>})
  /\ \/ End(p) /\ UNCHANGED <<db, links, next>>
     \/ /\ account[r.e] = None /\ w \notin workspaces
        /\ createAccount(r.e, w, "owner", r.google, FALSE)
        /\ workspaces' = workspaces \cup {w}
        /\ Go(p, IF r.google
                 THEN [op |-> "mint", e |-> r.e, id |-> next, kind |-> "session", must |-> FALSE,
                       ws |-> w, from |-> next]
                 ELSE [op |-> "mail", e |-> r.e, id |-> next])
        /\ UNCHANGED links
  /\ UNCHANGED <<conf, creds, history>>

sendVerificationEmail(p) ==
  /\ At(p, "mail") /\ End(p)
  /\ IF Is(req[p].e, req[p].id) THEN issueAuthToken("verify", req[p].e, req[p].id, None, 0)
     ELSE UNCHANGED <<links, next>>
  /\ UNCHANGED <<conf, db, creds, throttle, history>>

resendVerification(e) ==
  /\ On("signup") /\ throttleStatus({<<"verify", e>>}) /\ Once
  /\ account[e] # None /\ ~account[e].verified
  /\ recordThrottleHit({<<"verify", e>>})
  /\ issueAuthToken("verify", e, account[e].id, None, 0)
  /\ UNCHANGED <<conf, db, creds, history>>

completeEmailVerification(l) ==
  /\ On("signup") /\ l.kind = "verify" /\ Once
  /\ account' = [account EXCEPT ![l.e].verified = TRUE]
  /\ consumeAuthToken(l)
  /\ UNCHANGED <<conf, member, workspaces, creds, throttle, history, next>>

----------------------------------------------------------------------------
(* The team *)
\* A request of an owner: the session, the workspace and the role are read
\* first, the operation runs later.
manageTeamAs(p, e, w, op, x, role) ==
  /\ On(op) /\ member[e][w] = "owner"
  /\ Start(p, [op |-> op, e |-> e, w |-> w, x |-> x, role |-> role])
  /\ UNCHANGED <<conf, db, creds, links, throttle, history, next>>

manageTeam(p, c, op, x, role) ==
  \E w \in requireSession(c, FALSE) : manageTeamAs(p, c.e, w, op, x, role)

\* POST team
teamRoute(p, c, op, x, role) ==
  \E w \in getManagedSession(c) : manageTeamAs(p, c.e, w, op, x, role)

\* leaveWorkspaceAction: anyone's own membership.
leaveWorkspace(p, c) ==
  /\ On("leave")
  /\ \E w \in requireSession(c, TRUE) :
       Start(p, [op |-> "remove", e |-> c.e, w |-> w, x |-> c.e, role |-> "none"])
  /\ UNCHANGED <<conf, db, creds, links, throttle, history, next>>

\* Mutant: the count of owners is not looked at.
NeverLast(w, x) == FALSE

\* lockOwners and the check made under its lock.
lastOwner(w, x) == member[x][w] = "owner" /\ Cardinality(Owners(w)) <= 1

changeMemberRole(p) ==
  LET r == req[p] IN
  /\ At(p, "role") /\ End(p)
  /\ IF r.w \in workspaces /\ member[r.x][r.w] # "none" /\ (r.role = "member" => ~lastOwner(r.w, r.x))
     THEN member' = [member EXCEPT ![r.x][r.w] = r.role] ELSE UNCHANGED member
  /\ UNCHANGED <<conf, account, workspaces, creds, links, throttle, history, next>>

\* The membership goes; sessions stop pointing at the workspace; an account with
\* no workspace left is deleted.
removeWorkspaceMember(p) ==
  LET r == req[p]
      gone == IF \E w \in workspaces \ {r.w} : member[r.x][w] # "none" THEN {} ELSE {r.x}
  IN
  /\ At(p, "remove") /\ End(p)
  /\ IF r.w \in workspaces /\ member[r.x][r.w] # "none" /\ ~lastOwner(r.w, r.x)
     THEN /\ member' = [member EXCEPT ![r.x][r.w] = "none"]
          /\ Cascade(gone)
          /\ creds' = {IF c.e = r.x /\ c.kind = "session" /\ c.ws = r.w THEN [c EXCEPT !.ws = None] ELSE c :
                       c \in {d \in creds : d.e \notin gone}}
     ELSE UNCHANGED <<account, member, creds, links, done, adrift>>
  /\ UNCHANGED <<conf, workspaces, throttle, slipped, crossed, next>>

sendInviteEmail(p) ==
  LET r == req[p] IN
  /\ At(p, "invite") /\ End(p)
  /\ IF r.w \in workspaces THEN issueAuthToken("invite", r.x, None, r.w, 0) ELSE UNCHANGED <<links, next>>
  /\ UNCHANGED <<conf, db, creds, throttle, history>>

\* An owner has a reset link sent to a member.
sendPasswordResetEmail(p) ==
  LET r == req[p] IN
  /\ At(p, "owner-reset") /\ End(p)
  /\ IF r.w \in workspaces /\ member[r.x][r.w] # "none"
     THEN issueAuthToken("reset", r.x, account[r.x].id, None, 0) ELSE UNCHANGED <<links, next>>
  /\ UNCHANGED <<conf, db, creds, throttle, history>>

revokeInvites(p) ==
  LET r == req[p] IN
  /\ At(p, "revoke-invite") /\ End(p)
  /\ links' = {l \in links : l.kind = "invite" => l.ws # r.w \/ l.e # r.x}
  /\ UNCHANGED <<conf, db, creds, throttle, history, next>>

\* addWorkspaceMember: an account with a temporary password, unless the address
\* has one or the workspace is gone.
addWorkspaceMember(p) ==
  LET r == req[p] IN
  /\ At(p, "add") /\ End(p)
  /\ IF account[r.x] = None /\ r.w \in workspaces THEN createAccount(r.x, r.w, "member", TRUE, TRUE)
     ELSE UNCHANGED <<account, member, next>>
  /\ UNCHANGED <<conf, workspaces, creds, links, throttle, history>>

\* switchWorkspaceAction
switchWorkspace(c, w) ==
  /\ On("switch") /\ Once
  /\ c.kind = "session" /\ w \in workspaces /\ member[c.e][w] # "none" /\ c.ws # w
  /\ creds' = (creds \ {c}) \cup {[c EXCEPT !.ws = w]}
  /\ UNCHANGED <<conf, db, links, throttle, history, next>>

\* The invitation is spent first, by a signed-in person or by one without account.
acceptInviteAsUser(p, l) ==
  /\ On("join") /\ l.kind = "invite" /\ Sessions(l.e) # {}
  /\ Start(p, [op |-> "join", e |-> l.e, id |-> account[l.e].id, w |-> l.ws])
  /\ consumeAuthToken(l)
  /\ UNCHANGED <<conf, db, creds, throttle, history, next>>

acceptInviteWithNewAccount(p, l) ==
  /\ On("join") /\ l.kind = "invite" /\ account[l.e] = None
  /\ Start(p, [op |-> "join", e |-> l.e, id |-> None, w |-> l.ws])
  /\ consumeAuthToken(l)
  /\ UNCHANGED <<conf, db, creds, throttle, history, next>>

joinWorkspaceFromInvite(p) ==
  LET r == req[p] IN
  /\ At(p, "join") /\ r.id # None /\ End(p)
  /\ IF r.w \in workspaces /\ Is(r.e, r.id) /\ member[r.e][r.w] = "none"
     THEN member' = [member EXCEPT ![r.e][r.w] = "member"] /\ adrift' = adrift \ {r.e}
     ELSE UNCHANGED <<member, adrift>>
  /\ UNCHANGED <<conf, account, workspaces, creds, links, throttle, done, slipped, crossed, next>>

createUserFromInvite(p) ==
  LET r == req[p] IN
  /\ At(p, "join") /\ r.id = None
  /\ IF r.w \in workspaces /\ account[r.e] = None
     THEN /\ createAccount(r.e, r.w, "member", TRUE, FALSE)
          /\ Go(p, [op |-> "mint", e |-> r.e, id |-> next, kind |-> "session", must |-> FALSE,
                    ws |-> r.w, from |-> next])
     ELSE End(p) /\ UNCHANGED <<account, member, next>>
  /\ UNCHANGED <<conf, workspaces, creds, links, throttle, history>>

----------------------------------------------------------------------------
(* Deleting workspaces and accounts *)
\* deleteAccount: the workspaces to purge are chosen from one reading; a shared
\* workspace with no other owner blocks it.
SharedAlone(e) == {w \in workspaces : Owners(w) = {e} /\ Members(w) # {e}}
OwnedAlone(e) == {w \in workspaces : Members(w) = {e} /\ Owners(w) = {e}}

deleteAccount(p, c) ==
  /\ On("delete") /\ requireSession(c, TRUE) # {} /\ SharedAlone(c.e) = {}
  /\ Start(p, [op |-> "purge", e |-> c.e, id |-> account[c.e].id, todo |-> OwnedAlone(c.e), user |-> TRUE])
  /\ UNCHANGED <<conf, db, creds, links, throttle, history, next>>

\* deleteWorkspaceAction
deleteWorkspace(p, c) ==
  /\ On("delete")
  /\ \E w \in requireSession(c, TRUE) :
       /\ member[c.e][w] = "owner"
       /\ Start(p, [op |-> "purge", e |-> c.e, id |-> account[c.e].id, todo |-> {w}, user |-> FALSE])
  /\ UNCHANGED <<conf, db, creds, links, throttle, history, next>>

\* purgeWorkspace: billing is cancelled (or the whole request ends), then the
\* members are read, and the rest is one later transaction.
purgeWorkspace(p, w) ==
  LET r == req[p] IN
  /\ At(p, "purge") /\ w \in r.todo
  /\ \/ End(p)
     \/ Go(p, [op |-> "erase", e |-> r.e, id |-> r.id, todo |-> r.todo, user |-> r.user, w |-> w,
               list |-> {<<x, account[x].id>> : x \in Members(w)}])
  /\ UNCHANGED <<conf, db, creds, links, throttle, history, next>>

\* The workspace with its memberships, and the accounts read above that belong
\* nowhere now.
eraseWorkspace(p) ==
  LET r == req[p]
      alone == {x \in Emails : account[x] # None /\ \A v \in workspaces \ {r.w} : member[x][v] = "none"}
      gone == {x \in alone : \E m \in r.list : m[1] = x /\ Is(x, m[2])}
  IN
  /\ At(p, "erase")
  /\ IF r.w \in workspaces
     THEN /\ workspaces' = workspaces \ {r.w}
          /\ member' = [x \in Emails |-> [member[x] EXCEPT ![r.w] = "none"]]
          /\ account' = [x \in Emails |-> IF x \in gone THEN None ELSE account[x]]
          /\ links' = {l \in links : l.e \in gone \/ (l.kind = "google" /\ l.ws = r.w) => l.kind = "invite"}
          /\ done' = [x \in Emails |-> IF x \in gone THEN 0 ELSE done[x]]
          /\ adrift' = (adrift \cup (alone \cap Members(r.w))) \ gone
          /\ creds' = {c \in creds : c.e \notin gone /\ (c.kind = "notes" => c.ws # r.w)}
          /\ crossed' = crossed \ {r.w}
          /\ Go(p, [op |-> "purge", e |-> r.e, id |-> r.id, todo |-> r.todo \ {r.w}, user |-> r.user])
     ELSE End(p) /\ UNCHANGED <<db, links, done, adrift, creds, crossed>>
  /\ UNCHANGED <<conf, throttle, slipped, next>>

\* The end of both requests; deleteAccount deletes the user's row and, by
\* cascade, what memberships it has by then.
finishDeletion(p) ==
  LET r == req[p]
      dropped == {w \in workspaces : Owners(w) = {r.e}}
  IN
  /\ At(p, "purge") /\ r.todo = {} /\ End(p)
  /\ IF r.user /\ Is(r.e, r.id)
     THEN /\ member' = [member EXCEPT ![r.e] = [w \in Workspaces |-> "none"]]
          /\ Cascade({r.e})
          /\ creds' = {c \in creds : c.e # r.e}
          /\ crossed' = crossed \cup dropped
     ELSE UNCHANGED <<account, member, creds, links, done, adrift, crossed>>
  /\ UNCHANGED <<conf, workspaces, throttle, slipped, next>>

----------------------------------------------------------------------------
Init ==
  /\ conf \in Scenes
  /\ account = [e \in Emails |-> IF e \in DOMAIN conf.users
                THEN [id |-> 0, pw |-> 0, verified |-> TRUE, must |-> FALSE, prov |-> FALSE] ELSE None]
  /\ member = [e \in Emails |-> [w \in Workspaces |->
                IF e \in DOMAIN conf.users THEN conf.users[e][w] ELSE "none"]]
  /\ workspaces = {w \in Workspaces : \E e \in DOMAIN conf.users : conf.users[e][w] # "none"}
  /\ creds = {[n |-> 0, e |-> e, kind |-> "session", ws |-> None, from |-> 0] : e \in DOMAIN conf.users}
  /\ links = {}
  /\ req = [p \in Procs |-> Idle]
  /\ fails = [k \in Keys |-> 0] /\ hot = {} /\ tries = [k \in Keys |-> 0]
  /\ done = [e \in Emails |-> 0] /\ slipped = {} /\ crossed = {} /\ adrift = {}
  /\ left = conf.calls /\ next = 1

Begin(p) ==
  \/ \E e \in conf.mail, a \in Addresses, right \in BOOLEAN : login(p, e, a, right) \/ loginRoute(p, e, a, right)
  \/ \E e \in conf.mail, a \in Addresses : registerHostedAccount(p, e, a) \/ googleSignup(p, e, a)
  \/ \E e \in conf.mail : signInWithGoogle(p, e)
  \/ \E l \in links : \/ spendResetLink(p, l) \/ desktopCode(p, l) \/ googleExchange(p, l)
                      \/ acceptInviteAsUser(p, l) \/ acceptInviteWithNewAccount(p, l)
  \/ \E c \in creds :
       \/ signOutEverywhere(p, c) \/ desktopSyncToken(p, c) \/ leaveWorkspace(p, c)
       \/ deleteAccount(p, c) \/ deleteWorkspace(p, c)
       \/ \E kind \in {"token", "notes"} : createApiTokenAction(p, c, kind)
       \/ \E right \in BOOLEAN : verifyCurrentPassword(p, c, right)
       \/ \E x \in conf.mail :
            \/ \E op \in {"remove", "invite", "revoke-invite", "add", "owner-reset"} :
                 manageTeam(p, c, op, x, "none") \/ teamRoute(p, c, op, x, "none")
            \/ \E role \in {"member", "owner"} :
                 manageTeam(p, c, "role", x, role) \/ teamRoute(p, c, "role", x, role)

Step(p) ==
  \/ recordLoginFailure(p) \/ clearProven(p) \/ createCredential(p) \/ revokeAllApiTokens(p)
  \/ completePasswordReset(p) \/ changePassword(p) \/ finishPassword(p)
  \/ sendVerificationEmail(p) \/ changeMemberRole(p) \/ removeWorkspaceMember(p) \/ sendInviteEmail(p)
  \/ sendPasswordResetEmail(p)
  \/ revokeInvites(p) \/ addWorkspaceMember(p) \/ joinWorkspaceFromInvite(p) \/ createUserFromInvite(p)
  \/ eraseWorkspace(p) \/ finishDeletion(p) \/ Crash(p)
  \/ \E w \in Workspaces : createHostedWorkspaceWithOwner(p, w) \/ purgeWorkspace(p, w)

Next ==
  \/ \E p \in Procs : Begin(p) \/ Step(p)
  \/ \E e \in conf.mail : requestPasswordReset(e) \/ resendVerification(e) \/ \E w \in Workspaces : createGoogleExtensionCode(e, w)
  \/ \E l \in links : completeEmailVerification(l)
  \/ \E c \in creds : logout(c) \/ logoutRoute(c) \/ createDesktopConnectCode(c) \/ \E w \in Workspaces : switchWorkspace(c, w)
  \/ \E k \in Keys : DelayElapses(k)

Spec == Init /\ [][Next]_vars

----------------------------------------------------------------------------
TypeOK ==
  /\ \A e \in Emails : account[e] # None => account[e] \in AnAccount
  /\ member \in [Emails -> [Workspaces -> Roles]] /\ workspaces \subseteq Workspaces
  /\ \A c \in creds : c.e \in Emails /\ c.kind \in {"session", "token", "notes"} /\ c.from \in Nat
  /\ hot \subseteq Keys /\ fails \in [Keys -> Nat] /\ tries \in [Keys -> Nat]
  /\ left \in Nat /\ next \in Nat

\* Every workspace has an owner and every account a workspace to sign in to, however
\* promotions, removals, leavings, invitations, account and workspace deletions
\* interleave (lockOwners, the single transactions of workspaces.ts and
\* purgeWorkspace); nothing belongs to a row that is gone.  The exceptions are the
\* two that out-of-date readings leave: a workspace whose other owner lost the role
\* after deleteAccount had counted on it (crossed), and an account that joined a
\* workspace between the reading of its members and its purge (adrift).
OwnersKept ==
  /\ TypeOK
  /\ \A w \in workspaces : Owners(w) # {} \/ w \in crossed
  /\ \A e \in Emails : account[e] # None => Belongs(e) \/ e \in adrift
  /\ \A e \in Emails, w \in Workspaces : member[e][w] # "none" => account[e] # None /\ w \in workspaces
  /\ \A c \in creds : account[c.e] # None
  /\ \A l \in links : l.kind # "invite" => Is(l.e, l.id)

\* When a password reset or change has finished, nothing that was signed in before
\* it still works: every session and token rests on a password or a code checked
\* after the new password was written, except one issued by a request or code whose
\* check came before the write and whose row came after it (slipped); whatever runs
\* beside it - sign-ins, other resets and changes, codes, a server that stops.
OldCredentialsEnd ==
  \A c \in creds : c.from >= done[c.e] \/ c.n \in slipped

\* However attempts interleave, and whatever correct passwords are entered between
\* them, a throttle key lets through its free attempts and, each time its delay has
\* run out, one more, beyond those already past the check (loginThrottle.ts).
GuessesBounded ==
  \A k \in Keys : tries[k] <= Free[k[1]] + Cardinality(Procs)
=============================================================================
