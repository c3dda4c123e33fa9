----------------------------- MODULE HelperLink -----------------------------
(* The extension's link to the desktop helper (extension/src/lib/           *)
(* nativeMessaging.ts, with the parts of backgroundController.ts, storage.ts,*)
(* settings.ts and background.ts that use it): opening the port, the hello, *)
(* pairing, reconnecting with a backoff, and the settings the helper works  *)
(* with.  The helper's side of a connection is that of main.rs and ipc.rs.  *)
(*                                                                          *)
(* The service worker may end at any step, which closes its ports and drops *)
(* its timers; chrome.storage, chrome.alarms and the helper go on without   *)
(* it.  Both directions of a port are FIFO, and Chrome reports the end of a *)
(* port after its last message.                                             *)
EXTENDS Integers, Sequences, FiniteSets

CONSTANTS
  MaxPorts,     \* bound: attempts to open a port
  TopBackoff,   \* doublings of reconnectBackoffMs before its maximum
  MaxTokens,    \* bound: pairing tokens minted
  MaxEdits,     \* bound: changes made to the settings by a user
  Pages,        \* settings pages that are open
  Probes,       \* one-shot requests (audio preflight, audio probe, key test)
  LinkScenes    \* what may happen in an execution

ASSUME LinkBoundsAssumption == {MaxPorts, TopBackoff, MaxTokens, MaxEdits} \subseteq Nat

\* An execution begins with a token or none, and with the backoff somewhere below its maximum.
ASSUME LinkScenesAssumption ==
  \A s \in LinkScenes : s.token \in Nat /\ s.backoff \in 0..TopBackoff /\ s.installed \in BOOLEAN

VARIABLES
  scene,     \* the member of LinkScenes
  link,      \* NativeMessagingClient and the worker it lives in
  alarm,     \* is the retry alarm set?
  token,     \* the stored pairing token, 0 for none
  writes,    \* token writes on their way to storage
  conn,      \* port -> its two queues, its end, and whether the helper accepted its hello
  ports,     \* ports opened so far
  helper,    \* the helper: running, token in memory and on disk, settings
  minted,    \* tokens issued so far
  stored,    \* the settings in chrome.storage
  current,   \* the settings of the controller
  adopting,  \* saves that are stored and not adopted yet
  page,      \* settings page -> its copy, and where its save stands
  edits,     \* changes made so far
  exporting, \* has an export to Drive refreshed the access token in memory?
  probe,     \* request -> idle, waiting, answered, fallback
  installed, \* is the native messaging host registered?
  hiccups,   \* failures still to come
  mislaid,   \* (history) the browser's copy of the token is lost
  crossed    \* (history) a save wrote over one it had not seen

pairVars == <<token, writes, minted, mislaid>>
prefVars == <<stored, current, adopting, page, edits, exporting, crossed>>
wireVars == <<conn, ports>>
linkVars == <<scene, link, alarm, pairVars, wireVars, helper, prefVars, probe, installed, hiccups>>

Happens(op) == op \in scene.ops
Hiccup == hiccups > 0 /\ hiccups' = hiccups - 1
Unset == [keys |-> -1, drive |-> 0, consent |-> FALSE]
Ports == 1..MaxPorts
Unopened == [toHelper |-> <<>>, toExt |-> <<>>, end |-> "none", authed |-> FALSE]
AsleepLink == [up |-> FALSE, port |-> 0, connecting |-> "no", status |-> "none", backoff |-> 0,
               timers |-> 0, tracked |-> FALSE, lookups |-> <<>>, init |-> "no"]
ToHelper(c, p, m) == [c EXCEPT ![p].toHelper = Append(@, m)]
ToExt(c, p, ms) == [c EXCEPT ![p].toExt = @ \o ms]

----------------------------------------------------------------------------
(* Reconnecting: scheduleReconnect, cancelReconnect and the callers of connect *)

\* reconnectTimerId is the last timer set, and is forgotten when any fires.
scheduleReconnectTimer(l) == [l EXCEPT !.timers = @ + 1, !.tracked = TRUE]

scheduleReconnect(l) ==
  LET next == [l EXCEPT !.backoff = IF @ < TopBackoff THEN @ + 1 ELSE @]
  IN IF l.backoff = TopBackoff THEN [next EXCEPT !.lookups = Append(@, "create")]
     ELSE scheduleReconnectTimer(next)

cancelReconnect(l) ==
  [l EXCEPT !.lookups = Append(@, "clear"),
            !.timers = IF l.tracked THEN @ - 1 ELSE @, !.tracked = FALSE]

\* The answer to whether the alarms permission is granted.
alarmPermission ==
  /\ link.lookups # <<>>
  /\ LET rest == [link EXCEPT !.lookups = Tail(@)] IN
     IF Head(link.lookups) = "create"
     THEN IF scene.alarms THEN alarm' = TRUE /\ link' = rest
          ELSE alarm' = alarm /\ link' = scheduleReconnectTimer(rest)
     ELSE alarm' = (alarm /\ ~scene.alarms) /\ link' = rest
  /\ UNCHANGED <<scene, pairVars, wireVars, helper, prefVars, probe, installed, hiccups>>

\* Mutant: connect without its check for a live port.
ConnectsAnyway(l) == IF l.connecting # "no" THEN l ELSE [l EXCEPT !.connecting = "permission"]

connect(l) == IF l.connecting # "no" \/ l.port # 0 THEN l ELSE [l EXCEPT !.connecting = "permission"]

\* A delay is a second or more: the storage read that sendHello waits for is over by then.
ReadOver == link.connecting = "hello" => link.port # 0

TimerFires ==
  /\ link.timers > 0 /\ ReadOver
  /\ link' = connect([link EXCEPT !.timers = @ - 1, !.tracked = FALSE])
  /\ UNCHANGED <<scene, alarm, pairVars, wireVars, helper, prefVars, probe, installed, hiccups>>

\* The alarm wakes the worker: the listener connects while init still reads storage.
retryFromAlarm ==
  /\ alarm /\ ReadOver /\ alarm' = FALSE
  /\ link' = connect(IF link.up THEN link ELSE [AsleepLink EXCEPT !.up = TRUE, !.init = "loading"])
  /\ UNCHANGED <<scene, pairVars, wireVars, helper, prefVars, probe, installed, hiccups>>

\* Any other event that wakes the worker: a page opens, a tab changes.
WorkerWakes ==
  /\ ~link.up
  /\ link' = [AsleepLink EXCEPT !.up = TRUE, !.init = "loading"]
  /\ UNCHANGED <<scene, alarm, pairVars, wireVars, helper, prefVars, probe, installed, hiccups>>

checkHelper ==
  /\ Happens("check") /\ link.init = "done" /\ link.status # "connected"
  /\ link' = connect(link)
  /\ UNCHANGED <<scene, alarm, pairVars, wireVars, helper, prefVars, probe, installed, hiccups>>

----------------------------------------------------------------------------
(* Settings *)
getSettings == IF stored = Unset THEN [Unset EXCEPT !.keys = 0] ELSE stored

\* State sync: dropped while there is no port.
pushSettings(c, l, s) ==
  IF l.port = 0 \/ s = Unset THEN c
  ELSE ToHelper(c, l.port, [type |-> "settings", keys |-> s.keys])

controllerInit ==
  /\ link.init = "loading"
  /\ current' = getSettings
  /\ conn' = pushSettings(conn, link, getSettings)
  /\ link' = connect([link EXCEPT !.init = "done"])
  /\ UNCHANGED <<scene, alarm, pairVars, ports, helper, stored, adopting, page, edits, exporting,
                 crossed, probe, installed, hiccups>>

OpenPage(g) ==
  /\ page[g].pc = "closed"
  /\ page' = [page EXCEPT ![g] = [pc |-> "open", copy |-> getSettings, seen |-> stored]]
  /\ UNCHANGED <<scene, link, alarm, pairVars, wireVars, helper, stored, current, adopting, edits,
                 exporting, crossed, probe, installed, hiccups>>

\* The save button: the user's change, and the current value of what this page does not edit.
saveToBackground(g) ==
  LET latest == getSettings
      mine == [keys |-> edits + 1, drive |-> latest.drive, consent |-> page[g].copy.consent \/ latest.consent]
  IN /\ Happens("save") /\ page[g].pc = "open" /\ edits < MaxEdits
     /\ edits' = edits + 1
     /\ page' = [page EXCEPT ![g] = [pc |-> "sent", copy |-> mine, seen |-> stored]]
     /\ UNCHANGED <<scene, link, alarm, pairVars, wireVars, helper, stored, current, adopting,
                    exporting, crossed, probe, installed, hiccups>>

\* Onboarding reads the settings, acknowledges the notice and saves them.
acknowledgeConsent(g) ==
  /\ Happens("consent") /\ page[g].pc \in {"closed", "open"} /\ ~getSettings.consent
  /\ page' = [page EXCEPT ![g] = [pc |-> "sent", copy |-> [getSettings EXCEPT !.consent = TRUE], seen |-> stored]]
  /\ UNCHANGED <<scene, link, alarm, pairVars, wireVars, helper, stored, current, adopting, edits,
                 exporting, crossed, probe, installed, hiccups>>

\* SAVE_SETTINGS: the write comes first, and may fail.
saveSettings(g) ==
  /\ link.init = "done" /\ page[g].pc = "sent"
  /\ \/ /\ stored' = page[g].copy /\ adopting' = Append(adopting, page[g].copy)
        /\ crossed' = (crossed \/ stored # page[g].seen)
        /\ UNCHANGED hiccups
     \/ Hiccup /\ UNCHANGED <<stored, adopting, crossed>>
  /\ page' = [page EXCEPT ![g].pc = "open"]
  /\ UNCHANGED <<scene, link, alarm, pairVars, wireVars, helper, current, edits, exporting, probe, installed>>

adoptSettings ==
  /\ adopting # <<>>
  /\ current' = Head(adopting) /\ adopting' = Tail(adopting)
  /\ conn' = pushSettings(conn, link, Head(adopting))
  /\ UNCHANGED <<scene, link, alarm, pairVars, ports, helper, stored, page, edits, exporting,
                 crossed, probe, installed, hiccups>>

\* exportToDrive: a refresh changes the token in memory, and the settings in
\* memory are saved once the upload is done.
refreshDriveToken ==
  /\ Happens("drive") /\ link.init = "done" /\ ~exporting /\ current.drive = 0
  /\ exporting' = TRUE
  /\ current' = [current EXCEPT !.drive = 1]
  /\ UNCHANGED <<scene, link, alarm, pairVars, wireVars, helper, stored, adopting, page, edits,
                 crossed, probe, installed, hiccups>>

exportToDrive ==
  /\ exporting /\ exporting' = FALSE
  /\ stored' = current
  /\ crossed' = (crossed \/ [getSettings EXCEPT !.drive = current.drive] # current)
  /\ UNCHANGED <<scene, link, alarm, pairVars, wireVars, helper, current, adopting, page, edits,
                 probe, installed, hiccups>>

----------------------------------------------------------------------------
(* The port *)

\* Mutant: the settings are pushed by init and by saves only.
NoPushOnConnect(c, l, old) == c

\* setStatus tells the controller of changes only.
handleStatusChange(c, l, old) ==
  IF l.status = "connected" /\ old # "connected" THEN pushSettings(c, l, current) ELSE c

handleHostMissing(l) == scheduleReconnect([l EXCEPT !.status = "helper_not_found"])

\* hasOptionalPermission, then connectNative: a host that is not registered
\* throws or ends the new port, and one whose helper is not running ends it.
connectNative ==
  /\ link.connecting = "permission"
  /\ \/ /\ ~scene.granted
        /\ link' = [link EXCEPT !.status = "permission_required", !.connecting = "no"]
        /\ UNCHANGED wireVars
     \/ /\ scene.granted /\ ~installed /\ ports < MaxPorts
        /\ link' = [handleHostMissing(link) EXCEPT !.connecting = "no"]
        /\ ports' = ports + 1 /\ UNCHANGED conn
     \/ /\ scene.granted /\ ports < MaxPorts
        /\ ports' = ports + 1
        /\ conn' = [conn EXCEPT ![ports + 1].end =
                      IF ~installed THEN "missing" ELSE IF helper.up THEN "open" ELSE "closed"]
        /\ link' = [link EXCEPT !.status = "connecting", !.connecting = "hello", !.port = ports + 1]
  /\ UNCHANGED <<scene, alarm, pairVars, helper, prefVars, probe, installed, hiccups>>

\* getPairingToken is answered after the writes before it.
sendHello ==
  /\ link.connecting = "hello" /\ writes = <<>>
  /\ conn' = IF link.port = 0 THEN conn ELSE ToHelper(conn, link.port, [type |-> "hello", token |-> token])
  /\ link' = [link EXCEPT !.connecting = "no"]
  /\ UNCHANGED <<scene, alarm, pairVars, ports, helper, prefVars, probe, installed, hiccups>>

handleDisconnect(p) ==
  /\ link.up /\ conn[p].end \in {"closed", "missing"} /\ conn[p].toExt = <<>>
  /\ conn' = [conn EXCEPT ![p] = [Unopened EXCEPT !.end = "gone"]]
  /\ link' = IF link.port # p THEN link
             ELSE LET lost == [link EXCEPT !.port = 0] IN
                  IF conn[p].end = "missing" THEN handleHostMissing(lost)
                  ELSE scheduleReconnect([lost EXCEPT !.status = "disconnected"])
  /\ UNCHANGED <<scene, alarm, pairVars, ports, helper, prefVars, probe, installed, hiccups>>

\* helper_info completes the handshake.
helperInfo(p) ==
  LET l == [link EXCEPT !.backoff = 0, !.status = IF scene.compatible THEN "connected" ELSE "incompatible"]
      c == [conn EXCEPT ![p].toExt = Tail(@)]
  IN /\ link' = IF scene.compatible THEN l ELSE cancelReconnect(l)
     /\ conn' = handleStatusChange(c, l, link.status)
     /\ UNCHANGED <<writes, probe>>

Healthy == IF link.status = "connected" THEN [link EXCEPT !.backoff = 0] ELSE link

handleMessage(p) ==
  /\ link.up /\ conn[p].toExt # <<>>
  /\ LET m == Head(conn[p].toExt)
         c == [conn EXCEPT ![p].toExt = Tail(@)]
     IN \/ m.type = "info" /\ helperInfo(p)
        \/ m.type = "paired" /\ writes' = Append(writes, m.token) /\ link' = Healthy /\ conn' = c /\ UNCHANGED probe
        \/ /\ m.type = "not_paired"
           /\ writes' = Append(writes, 0)
           /\ link' = cancelReconnect([Healthy EXCEPT !.status = "needs_pairing"])
           /\ conn' = c /\ UNCHANGED probe
        \/ /\ m.type = "answer"
           /\ probe' = [r \in Probes |-> IF probe[r] = "waiting" THEN "answered" ELSE probe[r]]
           /\ link' = Healthy /\ conn' = c /\ UNCHANGED writes
        \/ m.type = "storage_error" /\ link' = Healthy /\ conn' = c /\ UNCHANGED <<writes, probe>>
  /\ UNCHANGED <<scene, alarm, token, minted, mislaid, ports, helper, prefVars, installed, hiccups>>

\* A token write reaches chrome.storage, or fails; after a failed save the user is told to pair again.
savePairingToken ==
  /\ writes # <<>> /\ writes' = Tail(writes)
  /\ \/ /\ token' = Head(writes)
        /\ mislaid' = IF Head(writes) = 0 THEN mislaid \/ (token # 0 /\ token = helper.file) ELSE FALSE
        /\ UNCHANGED <<link, hiccups>>
     \/ /\ Hiccup /\ Head(writes) # 0
        /\ link' = IF link.up THEN [link EXCEPT !.status = "needs_pairing"] ELSE link
        /\ mislaid' = TRUE /\ UNCHANGED token
  /\ UNCHANGED <<scene, alarm, minted, wireVars, helper, prefVars, probe, installed>>

\* getAudioPreflight, runAudioProbe, testProviderKey: a listener of its own, and a timeout.
sendRequest(r) ==
  /\ Happens("probe") /\ link.init = "done" /\ probe[r] = "idle"
  /\ probe' = [probe EXCEPT ![r] = IF link.port = 0 THEN "fallback" ELSE "waiting"]
  /\ conn' = IF link.port = 0 THEN conn ELSE ToHelper(conn, link.port, [type |-> "request"])
  /\ UNCHANGED <<scene, link, alarm, pairVars, ports, helper, prefVars, installed, hiccups>>

requestTimesOut(r) ==
  /\ link.up /\ probe[r] = "waiting"
  /\ probe' = [probe EXCEPT ![r] = "fallback"]
  /\ UNCHANGED <<scene, link, alarm, pairVars, wireVars, helper, prefVars, installed, hiccups>>

----------------------------------------------------------------------------
(* The helper *)
Refused == <<[type |-> "not_paired"]>>
Closing(c, p, ms) == [ToExt(c, p, ms) EXCEPT ![p].end = "closed", ![p].toHelper = <<>>]

helperHello(p, shown, c) ==
  \/ /\ helper.token = 0 /\ minted < MaxTokens
     /\ minted' = minted + 1
     /\ helper' = [helper EXCEPT !.token = minted + 1, !.file = minted + 1]
     /\ conn' = ToExt([c EXCEPT ![p].authed = TRUE], p, <<[type |-> "paired", token |-> minted + 1], [type |-> "info"]>>)
     /\ UNCHANGED hiccups
  \/ /\ helper.token = 0 /\ Hiccup
     /\ conn' = Closing(c, p, <<[type |-> "storage_error"]>>)
     /\ UNCHANGED <<helper, minted>>
  \/ /\ helper.token # 0
     /\ conn' = IF shown = helper.token THEN ToExt([c EXCEPT ![p].authed = TRUE], p, <<[type |-> "info"]>>)
                ELSE Closing(c, p, Refused)
     /\ UNCHANGED <<helper, minted, hiccups>>

\* The first message of a connection has to be the hello.
helperReads(p) ==
  /\ helper.up /\ conn[p].end = "open" /\ conn[p].toHelper # <<>>
  /\ LET m == Head(conn[p].toHelper)
         c == [conn EXCEPT ![p].toHelper = Tail(@)]
     IN \/ ~conn[p].authed /\ m.type = "hello" /\ helperHello(p, m.token, c)
        \/ ~conn[p].authed /\ m.type # "hello" /\ conn' = Closing(c, p, Refused) /\ UNCHANGED <<helper, minted, hiccups>>
        \/ conn[p].authed /\ m.type = "settings" /\ helper' = [helper EXCEPT !.keys = m.keys] /\ conn' = c /\ UNCHANGED <<minted, hiccups>>
        \/ conn[p].authed /\ m.type = "request" /\ conn' = ToExt(c, p, <<[type |-> "answer"]>>) /\ UNCHANGED <<helper, minted, hiccups>>
  /\ UNCHANGED <<scene, link, alarm, token, writes, mislaid, ports, prefVars, probe, installed>>

HelperStops ==
  /\ Happens("helper") /\ helper.up
  /\ helper' = [helper EXCEPT !.up = FALSE, !.token = 0, !.keys = -1]
  /\ conn' = [p \in Ports |-> IF conn[p].end = "open" THEN [conn[p] EXCEPT !.end = "closed", !.toHelper = <<>>] ELSE conn[p]]
  /\ UNCHANGED <<scene, link, alarm, pairVars, ports, prefVars, probe, installed, hiccups>>

HelperStarts ==
  /\ ~helper.up /\ installed
  /\ helper' = [helper EXCEPT !.up = TRUE, !.token = helper.file]
  /\ UNCHANGED <<scene, link, alarm, pairVars, wireVars, prefVars, probe, installed, hiccups>>

\* The tray's Pair New Browser deletes the file; the token in memory stays.
PairNewBrowser ==
  /\ Happens("tray") /\ helper.up /\ helper.file # 0
  /\ helper' = [helper EXCEPT !.file = 0]
  /\ mislaid' = TRUE
  /\ UNCHANGED <<scene, link, alarm, token, writes, minted, wireVars, prefVars, probe, installed, hiccups>>

InstallHelper ==
  /\ ~installed /\ installed' = TRUE
  /\ UNCHANGED <<scene, link, alarm, pairVars, wireVars, helper, prefVars, probe, hiccups>>

\* Chrome ends the worker: its ports close, and with the browser itself gone a
\* storage write may be lost.
WorkerEnds ==
  /\ Happens("worker") /\ link.up /\ Hiccup
  /\ link' = AsleepLink
  /\ \E kept \in BOOLEAN :
       /\ writes' = IF kept THEN writes ELSE <<>>
       /\ mislaid' = (mislaid \/ (~kept /\ \E k \in 1..Len(writes) : writes[k] # 0)
                      \/ \E p \in Ports : \E k \in 1..Len(conn[p].toExt) : conn[p].toExt[k].type = "paired")
  /\ conn' = [p \in Ports |-> IF conn[p].end = "none" THEN conn[p] ELSE [Unopened EXCEPT !.end = "gone"]]
  /\ current' = Unset /\ adopting' = <<>> /\ exporting' = FALSE
  /\ page' = [g \in Pages |-> [page[g] EXCEPT !.pc = IF @ = "sent" THEN "open" ELSE @]]
  /\ probe' = [r \in Probes |-> IF probe[r] = "waiting" THEN "idle" ELSE probe[r]]
  /\ UNCHANGED <<scene, alarm, token, minted, ports, helper, stored, edits, crossed, installed>>

----------------------------------------------------------------------------
LinkInit ==
  /\ scene \in LinkScenes
  /\ link = [AsleepLink EXCEPT !.backoff = scene.backoff]
  /\ alarm = FALSE /\ token = scene.token /\ writes = <<>> /\ minted = scene.token /\ mislaid = FALSE
  /\ conn = [p \in Ports |-> Unopened] /\ ports = 0
  /\ helper = [up |-> scene.installed, token |-> scene.token, file |-> scene.token, keys |-> -1]
  /\ stored = Unset /\ current = Unset /\ adopting = <<>> /\ edits = 0 /\ exporting = FALSE /\ crossed = FALSE
  /\ page = [g \in Pages |-> [pc |-> "closed", copy |-> Unset, seen |-> Unset]]
  /\ probe = [r \in Probes |-> "idle"]
  /\ installed = scene.installed /\ hiccups = scene.hiccups

LinkNext ==
  \/ WorkerWakes \/ controllerInit \/ connectNative \/ sendHello \/ alarmPermission \/ TimerFires
  \/ retryFromAlarm \/ checkHelper \/ savePairingToken
  \/ \E p \in Ports : handleMessage(p) \/ handleDisconnect(p) \/ helperReads(p)
  \/ \E g \in Pages : OpenPage(g) \/ saveToBackground(g) \/ acknowledgeConsent(g) \/ saveSettings(g)
  \/ adoptSettings \/ refreshDriveToken \/ exportToDrive
  \/ \E r \in Probes : sendRequest(r) \/ requestTimesOut(r)
  \/ HelperStops \/ HelperStarts \/ PairNewBrowser \/ InstallHelper \/ WorkerEnds

LinkSpec == LinkInit /\ [][LinkNext]_linkVars

----------------------------------------------------------------------------
LinkTypeOK ==
  /\ link.port \in 0..ports /\ link.timers \in Nat /\ link.backoff \in 0..TopBackoff
  /\ {token, helper.token, helper.file} \subseteq 0..minted

RetryPending == link.timers > 0 \/ alarm \/ \E k \in 1..Len(link.lookups) : link.lookups[k] = "create"
PairingOnItsWay ==
  writes # <<>> \/ \E p \in Ports : \E k \in 1..Len(conn[p].toExt) : conn[p].toExt[k].type \in {"paired", "not_paired"}

\* One link, kept alive and paired: no open connection but the client's own
\* is left to a helper process; a client that lost the helper or found none
\* always has a retry ahead of it, in the worker or in an alarm; and the
\* browser has the very token the helper keeps on disk, whatever restarted,
\* unless one of its copies was lost (mislaid).
LinkSound ==
  /\ LinkTypeOK
  /\ link.up => \A p \in Ports : conn[p].end = "open" => p = link.port
  /\ (link.up /\ link.port = 0 /\ link.connecting = "no" /\ link.status \in {"disconnected", "helper_not_found"})
       => RetryPending
  /\ (~mislaid /\ helper.file # 0 /\ ~PairingOnItsWay) => token = helper.file

\* The settings in force are the ones that were saved: once a connected link
\* is quiet, storage, the controller and the helper have the same ones,
\* whichever of them restarted and whichever page saved last, and consent that
\* was given stands, unless a save wrote over one it had not read (crossed).
SettingsReach ==
  (/\ link.init = "done" /\ link.status = "connected" /\ link.port # 0
   /\ adopting = <<>> /\ ~exporting /\ ~crossed
   /\ conn[link.port].end = "open" /\ conn[link.port].toHelper = <<>> /\ conn[link.port].toExt = <<>>)
  => current = getSettings /\ helper.keys = current.keys
=============================================================================
