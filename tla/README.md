# Verification of dsh-passwords

dsh-passwords puts a password gate in front of the DeepSeek Harness web
interface ("the host") and adds sub-users to it.  Browsers talk to a *gateway*
process, which authenticates them, filters what a sub-user may see and do, and
forwards the rest to the host.  A *plugin* inside the host starts the gateway
and manages accounts.  Both share one SQLite database.  The code is TypeScript
on Node.js: within a process every handler runs to the next `await` (or to its
end) without interruption, so the hard behaviours are what happens *between*
those stretches: two handlers interleaved at their awaits, callbacks that come
late, timers, lost notices between the processes, crashes and restarts.

This directory holds TLA+ models of the parts in which those behaviours decide
whether the program is right, TLC configurations that check them on small
instances, and TLAPS proofs of the most important invariants for every value
of the constants.  `PROJECT.json` maps every definition to the lines it models.

## 1. Inventory

| Component (source) | State it keeps | Operations | Hard behaviour | What makes it correct |
|---|---|---|---|---|
| Mux sender, `remote-mux-sender.ts` | queue, message in flight and its offset, three byte counters (one shared by all senders), drain timer | `enqueue`, `cancel`, `dispose`, write callbacks, drain polls | callbacks after disposal, socket closing between fragments, back-pressure, shared limit | whole messages in order, exact accounting, no lost wake-up |
| Mux heartbeat, `remote-mux-heartbeat.ts` | probe, four timers, busy | busy/idle/progress edges, Ping written, Pong, four timeouts, `dispose` | late or repeated Pongs, deadlines moved by progress, Pong before the write callback | a dead peer noticed in time, a live one never reported |
| Remote mux carrier, `proxy.ts` 3411-4252 | active, deferred and forwarded streams, frames waiting for the host, two legs and their closing | frames of browser and host, baseline, expiry, revocation, failures of either leg | queued cancels and opens under one id, a baseline that never comes, both legs waiting for each other | no stream lost in silence or left at the host, one ending per stream, only granted sessions reach the host, both legs close |
| Session access of a sub-user, `gateway.ts`, `proxy.ts`, `admin.ts`, `db.ts` | grants, switched-off sessions, sandbox policy (database); snapshot, epoch, list order (memory) | list, create/fork, read, prompt, permission save | stale answers, saves that await the host, confirmations of sandbox modes, some of which fail | snapshot within the grants, nothing withdrawn is used, saves undo only what they saw |
| Event streams and their filters, `gateway.ts`, `proxy.ts` | streams, client ids, owners of open questions, sessions being created, registered SSE and WebSocket streams | open, item, question, cancellation, answer, creation, save, logout, end | one question shown to several users, two answers at once, a save while a body is read, a session announced before its grant | what is heard is allowed, a question is answered once and by one who was shown it |
| Models and agent presets, `gateway.ts`, `proxy.ts` | per session the model and preset last seen, the host's default | selectModel, create (of a new session or a blank one), fork, prompt, preset, list, follow frames, events, saves | records older than the host's state, lists changed while a mode is confirmed | a prompt is passed on under the lists of that moment |
| Registered endpoints, `gateway.ts`, `proxy.ts`, `permissions.ts`, `config.ts` | table of rules, plugin list, `allow_ssh`, open WebSockets | reload, requests, upgrades, lists of plugins, saves | a socket outlives the table that let it in; broken and missing files | an open socket is one today's rules let in |
| Accounts, logins, gateway sessions, `auth.ts`, `gateway.ts`, `plugin.ts`, `db.ts` | users with credential version; token cache, logged-out tokens, open connections | login, logout, requests, upgrades, password change, rename, add, remove, notice to the gateway | hash awaits, 30 s cache, lost notices, restart | a valid token proves the current password, names stay unique, old sessions end |
| Login attempts and throttles, `auth.ts`, `db.ts`, `gateway.ts` | counters per (user, address), per address, per user; successes per user | failed and successful logins, time | parallel failures between lock check and count | guesses are slowed, the main user is not locked from elsewhere |
| First setup and keys, `config.ts`, `auth.ts`, `db.ts`, `gateway.ts`, `plugin.ts` | deployment file, environments of three programs, main user | parallel setups, freezing of keys, launch, edit, crash | two setups hash at once; several readers derive keys while one rewrites the file | one main user, data keys never change, own rewriting is no drift |
| Update engine, `update.ts` | phase, package, persisted restart record, Compose override | check, download, verify, install, restart, recover, switch | handlers overlapping at awaits, kill at any of them | no version accounted for twice, record equals the disk |
| Deployment exchange, `update.ts` 1230-1640 | lock and gate files, directories, entries | acquire, take over, move, back up, roll back | any file operation fails, a kill, several processes | one installer, user data kept, whole program or a report |
| Gateway supervisor, `plugin.ts` 405-1000, `cli.ts` | child, adopted gateway, retry and drift timers | launch, adopt, wait, retry, exit, dispose, reload | every await of `launch` against disposal and exit | no stray gateway, a gateway serves or it was reported |
| Loopback link, `plugin.ts`, `gateway.ts` | plugin list, host's cookie, probe timer | publish, probe, renew, restarts of either | lost posts, a gateway older than its host | only the plugins of the host at hand; both known in the end |
| Inventory of assignable sessions, `plugin.ts`, `gateway.ts` | cached and pending result | load, refresh, prewarm, load for a save | the host's sessions change during the awaits | complete for what lasted, each session assignable or retained |
| Chat media, `media.ts`, `messages.ts`, `db.ts` | rows, relations, removal queue, files | announce, transfer, finalize, attach, delete, prune, sweep, drain, removal of users | crash between row and file, two processes draining, files that cannot be unlinked | what is shown is served, no file is forgotten |
| Chat panel and stream, `client/chat.tsx`, `messages.ts` | list, cursor, uploads, backlog of a subscriber | poll, post, upload, retry, remove; frames, drain | answers out of turn, a rebuilt database, a queue nobody promotes | no gap behind the cursor, nothing announced twice, places used, backlog bounded |
| Workspace ownership and cleanup, `db.ts`, `admin.ts`, `proxy.ts`, `gateway.ts` | owners, allow-lists with marks, grants, intents; memory of the gateway | mkdir, create, rename, delete, deletion of a tree, retry | late answers, directory gone and rows not | a private directory stays alone, a restriction is not lifted by accident, retries finish |
| Emergency cleanup, `admin.ts`, `scripts/purge.mjs`, `cli.ts` | lock, plan, receipt, signal, rate | request, launch, monitor, helper | uncertain launches, helper outliving the gateway, no directory for the plan | deletes only what it announced, lock covers the helper and is freed |
| Usage quota, `token.tsx`, `gateway.ts`, `db.ts`, `admin.ts` | active time, hourly tokens, pending amounts per tab | gate, count, report, retry, close, reset | lost or refused reports, throttles, rounding, day and hour edges | no token charged twice or forgotten, no time invented but by rounding |
| Rules of permissions and paths, configuration, CLI, user interface, install scripts | - | mostly pure functions, sequential scripts, rendering | - | in part (section 7) |
| Certificates, patching, diagnostics | files, counters | sequential | - | not modelled (section 7) |

How they interact: a carrier owns two senders and two heartbeats and is
registered per user with the gateway, which closes it on revocation, logout,
permission saves and the plugin's notice.  The snapshot of the session access
decides which deferred streams a carrier may forward and which questions its
`$events` stream shows.  Permission saves bump the epoch that requests in flight
are compared against, and then impose sandbox modes through the host.  Account
changes in the plugin reach the gateway only through the database (at the next
lookup) and the notice.  The supervisor launches the gateway, the link tells it
the plugins and the cookie of the host, the update engine inside the gateway
asks the service manager to restart it, and the emergency cleanup ends them all.

## 2. Modules

| Module | Models | Checked by | Proofs |
|---|---|---|---|
| `ByteQueue` | sums of a queue's sizes, the scan of `cancel()` | with MuxSender | `MuxSenderProofs` |
| `MessagePipe` | what one direction of the carrier promises (abstract) | refined by MuxSender | `MuxSenderProofs` |
| `MuxSender` | classes `MuxSender` and `MuxSenderBudget` | `mux_sender_safety`, `progress` | `MuxSenderProofs` |
| `MuxHeartbeat` | class `MuxHeartbeat` | `progress` | `ProgressProofs` |
| `MuxCarrier` | the carrier; its senders abstracted to `MessagePipe` queues | `mux_carrier_safety`, `progress` | `MuxCarrierProofs` |
| `SessionAccess` | one sub-user's sessions, policy and snapshot | `session_access_*`, `operations` | `SessionAccessProofs`, `OperationsProofs` |
| `Accounts` | users, tokens, cache, connections of both processes | `accounts` | `AccountsChatProofs` |
| `EventStreams` | questions of the host, their owners and answers, older event streams | `event_streams` | `EventStreamsProofs` |
| `ModelChoice` | models and presets of sessions | `rules` | `RulesProofs` |
| `EndpointReload` | table of endpoints, judged requests, open sockets | `rules` | `RulesProofs` |
| `LoginThrottle` | failures, locks, rate of successes | `rules` | `RulesProofs` |
| `FirstSetup` | first main user, keys and where each program finds them | `operations` | `OperationsProofs` |
| `UpdateEngine`, `DeploymentSwap` | the engine's handlers; the exchange of the directory, call by call | `operations` | `OperationsProofs` |
| `GatewaySupervisor`, `PluginLink` | launching; what the plugin tells the gateway | `operations`, `progress` | `OperationsProofs` |
| `SessionInventory` | the two gatherings of assignable sessions | `rules` | `RulesProofs` |
| `MessageMedia` | media of messages and their files | `chat` | `AccountsChatProofs` |
| `ChatUploads`, `ChatInbox`, `ChatStream` | a panel's attachments; its list and cursor; the subscribers | `chat`, `progress`, `uploads_lost` | `AccountsChatProofs` |
| `WorkspaceCleanup` | directories, owners, grants, deletions of trees, intents | `rules`, `workspace_intent` | `RulesProofs` |
| `EmergencyPurge` | request, helper and monitor of the cleanup | `progress` | `ProgressProofs` |
| `UsageQuota` | time and tokens of one sub-user | `rules` | `RulesProofs` |
| `MCMuxSender`, `MCMuxCarrier`, `MCSessionAccess`, `MCAccounts`, `MCEventStreams`, `MCChatUploads`, `MCWorkspaceCleanup` | instances of one module: symmetry, bounds | | |
| `MCOperations`, `MCChat`, `MCRules`, `MCProgress` | suites: instances of several modules | | |
| `SuiteState` | the variables `MCOperations` and `MCChat` share, so that one module proves about both | | |

A *suite* checks several small modules in one run.  They share no state: `Init`
chooses a `part`, `x1`, `x2` ... stand for the variables of the module it names,
and every property reads "if this behaviour is of that part, then ...".  The
state space is the sum of those of the parts, not their product.  TLC reports
one action of a suite per part; a module's own actions are found in its `Next`.
In `rules` the inventory is two parts, because the list for display and the list
for a save use separate state; in `operations` the permission saves of two
administrators are a part of their own.

### How models and code correspond

*MuxSender.*  A handler is built as a draft record `Now` that passes through
the methods it calls (`Pump`, `Submit`, `Commit`, `Fail` ...) and is written back
by `Become`; so one action is one whole handler with every call it makes.
`emitted` lists the notifications of the latest handler in order.  The other
carriers appear only as `OthersReserve`/`OthersRelease` of the shared budget.
Sizes, levels and limits are numbers; payloads are left out.

*MuxHeartbeat.*  Time is discrete; a timer is `Off` or its age.  A due timer
runs at most `Lateness` units late (`Elapse` cannot pass that point), which is
what an event loop that is not blocked does.  `quiet` and `waiting` are ghosts.

*MuxCarrier.*  Bytes are counted in frames.  What the permission rules say of an
open (denied, deferred, forwarded, with which endpoint) is chosen freely, except
that a session stream is forwarded only if the session is `granted`.  `opening`
numbers distinguish two streams under one id.  `hostOpen`, `ended`, `cancelled`
are what the two peers know.  All runs set `Subuser = TRUE`: an administrator's
carrier neither filters nor defers, and its behaviours are those of endpoint
"plain".

*SessionAccess.*  One sub-user, one snapshot.  `closed` stands for sessions
switched off one by one and those outside the allowed folders.  A request keeps
the epoch, closed sessions and policy it read at its start, as the code does.
`sent` holds the confirmations of sandbox modes under way per session.  With
`Ordered = TRUE`, used by every run, the host takes them up in the order they
were sent and none it was given up on.  The code does not enforce this (each is
an HTTP request of its own, given up after 3 s): with `Ordered = FALSE` TLC
refutes `RunsConfined` with two prompts and a save in between, so `RunsConfined`
is to be read under that assumption on the host, which is a hypothesis of its
theorem.  A request and a save have at most one mode on its way to a session, so
giving up takes one entry from a list; `ModesInv` proves that there is no other.

*Accounts.*  Both processes in one module, sharing `db`.  A login is two steps
around the hash comparison, a password change two around hashing, an added user
two around hashing, each followed by the notice, which may be lost (`OpEnds`).
Logins always type the right password; the new password is chosen at the write;
an administrator is never a member of `Id` and is always admitted.  Tokens do
not expire.  A connection is a WebSocket, registered at the upgrade, or an HTTP
event stream, registered when the host answers.  `stale` counts the time a void
token has been in use, `told` the version whose notice was confirmed; both are
ghosts, as is the password in a token.

*EventStreams.*  A client id belongs to one carrier.  `wire` is what the host has
written to a client and the gateway has not yet read, in order; `own` is
`remoteEventOwnership`, whose twelve hours are a nondeterministic `late`.  `off`
stands for sessions switched off, outside the allowed folders or in another
user's workspace, `outside` for the last two.  An answer is split at the read of its
body; the check before it and the one after it are the code's two.  `coming` is
`pendingCreatedSessions`: a `creation` notes its session there when its body is read
(`ForwardCreate`, with an id of its own or of a blank session its user may use), and
until it is answered, ends or is forgotten the host's `api-session/added` of that
session passes without a grant, the snapshot or the list of sessions switched off
being asked (`MayAnnounce`).  `heard` and `announced` are ghosts, of what reached a
user since the permissions last changed: any event, and `api-session/added`.

*ModelChoice.*  The host's selections, its default and its presets are modelled as
the truth the records follow; a selection is carried out and answered in two
steps, a follow stream's frames are on their way in a queue, the events of new
sessions in a set (`added`).  Each request is the main user's or a sub-user's.  A
create may name a session the host has, which it uses again while it is blank: the
gateway then records the default and the preset asked for, as for a new one.  A list
tells the preset of every session in it; here a request is about one of them.

*EndpointReload.*  The file holds one of `Tables`, is missing, or does not parse;
an unreadable file keeps the last good table, as `loadEndpointRules` does.  The
matching of a path with a rule is equality.

*LoginThrottle.*  Ticks instead of milliseconds; the row of a pair keeps its count
and its lock, the row of an address also its window.  A request is split at the
comparison of the password, so parallel ones pass the check together.  `NameLock`
is the lock over all addresses; it is written to the rows that exist.

*FirstSetup.*  A value is a number; a derived key is a function of `SETUP_KEY`.
The environment, the file and `config.ts`'s merge of the two are separate, since
plugin, gateway and container merge them in different orders.

*UpdateEngine.*  Handlers (`check`, `manual`, `dl`, `inst`, `retry`, `recovering`)
are records cut at their awaits.  Versions are numbers; `art` is what of a package
is on disk and whether it is whole.  *DeploymentSwap* is the part of an
installation that moves directory entries, one file system call per step, each of
which may fail; the rename of a lock or a gate takes whatever bears the name.

*GatewaySupervisor.*  An effect is one loading of the plugin; `at` is the await its
`launch` is in.  A gateway is `new`, `starting`, `up`, `stopping` or `gone` and
leaves by itself when its parent is gone, as the watchdog in `cli.ts` does.

*PluginLink.*  Posts are a set of messages under way that may be lost, and those
of one sender may be overtaken by those of its successor.  A cookie is the number
of the secret it was derived from.  `Official` are the namespaces, streams and paths
that both sides take out of a list; `HostPath` are the other paths of the host, which
`collectDynamicPluginManifest` lists like a plugin's.

*SessionInventory.*  A gathering is a record that passes through the stages of
the loader; sessions are read by at most `Workers` workers at once.

*MessageMedia.*  A key of a file is the number of the transfer that wrote it.  A
gateway handler is a sequence of file and database calls between which only the
plugin's transactions and a kill come; `hand` holds keys taken from the queue and
not yet unlinked.  Every `unlinkSync` may fail without a word: the file stays, and is
`lost` unless its key is in the queue, as are the files in hand at a kill and the keys
that a full queue drops.

*ChatUploads, ChatInbox, ChatStream.*  An upload function outlives its row
(`runs`); an answer of a poll is computed by the server at one step and merged at
another; `buffered` is the socket's, `pending` the code's own counter.

*WorkspaceCleanup.*  Paths form one chain below an assigned root, so that "inside"
is `<=`, and each path has one session.  `req` is a sub-user's request with the
host's answer, `job` the administrator's deletion cut at its awaits.

*EmergencyPurge.*  Gateway and helper share only `planned`, `receipt` and `signal`.
A launch whose outcome is not known is `unknown`; the monitor watches the receipt.
All requests come from one address: the code keeps the lock of the password for each
address, and the model counts at one.  `NoDirectory` is the call of `mkdtempSync` that
throws (section 5).

*UsageQuota.*  One sub-user; the clock counts milliseconds and a row whole seconds,
rounded as `Math.round` does (`Rounded`).  A tab adds what its session's total grows by
to `pending` and takes it off when a report is sent.  The throttles are in memory and
may be forgotten (`Forgets`).  `observed`, `charged`, `twice` and `dropped` are ghosts
that balance; `writes` and `forgot` count the writes of the time to a row and the
throttles forgotten meanwhile.

### Reading the slips

A mutant of the check is an operator beside the definition it replaces, with
"Slip:" in its comment: the mistake a colleague might make there.  A property that
is a conjunction has one mutant in `PROJECT.json`, for one of its conjuncts; the
slips of the other conjuncts are kept beside their definitions, for a reader who
wants to see those fail too.

## 3. Runs, bounds, and why they are enough

| Run | Instance | Shows |
|---|---|---|
| `mux_sender_safety` | 2 tags, sizes 1 and 3 with fragments of 2, levels below, between and above the water marks, 4 messages | one- and two-fragment messages, every limit reached (accept, queue count, queue bytes, shared), cancels in the middle; the pipe is refined |
| `mux_carrier_safety` | 2 ids, 2 opens, budgets of 2 frames, 1 host frame | every queue and the pending budget full, two streams deferred, one rejected while the other flushes |
| `session_access_requests` | 2 sessions, 2 requests, 1 save | a request overtaken by a save, by another request, by both |
| `accounts` | 2 ids, 2 names, 2 passwords, 1 login, 2 plugin requests, 1 connection, 2 tokens, time to live 2; at most 2 changes and 2 requests under way | a login or a request across a change, two changes with their notices in any order, a name freed and taken again |
| `event_streams` | 2 users with a client each, 1 question, 2 answers, 1 save; 1 user with a carrier and two older streams; and the same user with 2 requests that create a session | two answers to one question, one of them withdrawn or late in between; a save between a frame and its filter; an announcement before, between and after two creations of one session and a save |
| `chat` | media: 2 media, 2 transfers, 2 messages, 1 kept, 1 kill; uploads: 2 at once of 4 files, 1 send, 1 retry; stream: 2 subscribers, frames of 1 and 3 against a mark of 3 and a bound of 4; inbox: answers of 2, list of 3, 4 messages, 1 loss, 1 rebuilt database | an attachment against pruning, sweep and the removal of its owner; a full queue of removals; a subscriber above the bound; an answer cut off and an own message ahead of the cursor |
| `operations` | swap: 3 processes, 1 fault, 1 kill; engine: 3 versions, fixed directory or Compose, 3 starts; setup: 2 requests, 1 edit, 1 crash; supervisor: 3 loadings, 3 gateways, 2 faults, 1 drift; link: 2 plugins, 1 official name and 1 path of the host, 3 faults; saves: 2 administrators, 1 request | a stale lock judged by two others; a version overtaken by the next; a crash between user and file; a launch across a reload; a manifest of the last host; two saves that read the same |
| `rules` | models: 2 sessions, 2 models, 1 preset, 2 requests of either user, and of saves, changes of the default and snapshots one, or two once the catalog is known; inventory: 2 sessions in 2 folders, 2 changes; endpoints: 1 socket, 2 edits, 1 list of plugins, 1 save; logins: 2 names, 2 addresses, 2 requests at once of 5, 3 ticks; usage: 2 tabs, 3 half seconds with a throttle of half a second and a cap of one, 1 loss, 1 forgotten throttle; workspaces: 2 users, 2 nested paths, 2 deletions, 1 save, 1 fault, at most 3 requests and saves together | a list changed while a prompt waits; a session that moves between two stages; a rule tightened under an open socket; two failures past one check; a report counted whose answer is lost; half seconds rounded up; an answer after a deletion |
| `progress` | smaller instances: sender 1 tag and 2 messages; carrier 1 id and 1 open; heartbeat periods 2, 2 and 3, lateness 1, 3 probes; supervisor 1 fault; link 2 faults; purge 2 requests, 1 crash, 1 expiry; inbox 2 messages | what must happen in the end, and the two modules whose state spaces are small anyway (heartbeat, purge) |
| `session_access_enforcing` (violation) | 2 sessions, 1 request, 1 save | finding 1 |
| `workspace_intent` (violation) | 2 users, 2 paths, 2 deletions, 1 fault | finding 2 |
| `uploads_lost` (violation) | 2 at once of 4 files, 1 send, 1 retry | finding 3 |

Bounds are constants named as such: they begin with `Max`, or are
`Horizon` or `Serial`; `MCAccounts` and `MCMuxCarrier` have the state constraint
`WithinBounds`, the latter on states in which a frame of the host meets a disposed
carrier, neither leg can speak any more, or every queue holds frames at once: they
are checked, and followed further while one stream has been opened.  `MCEventStreams`
has the constraint `Distinct`, which leaves out copies of states that differ only in
why a session is switched off, once nothing is left to ask.
They cap counters that only grow or the number of concurrent actors; each hazard
in PROJECT.json takes at most two actors and one change, and the bounds leave room
for one more in every part but the longest of `rules` and `progress`.  Limits of
the code (`MaxUnbound`, `MaxQueue`, `IpMaxFailed` ...) are parameters with small
values, so that they are reached.  Symmetry is used on sets whose elements no
definition tells apart, and only in runs without liveness.  Deadlock is not
checked where a finite supply of requests, opens or tokens runs out.

`CrashInGate = FALSE`, `Targets` without "npm", `Migrated = TRUE` (but for the part
with two administrators), `Ordered = TRUE` and `IdReuse = FALSE` keep a run within
the cases in which its property holds; section 5 says what happens in the others.

### Fairness

Every fairness condition is one on a step that Node.js, the operating system or
a timer of the code takes by itself:

- `MuxSender`: write callbacks fire and polls run (weak); the socket drains, and a
  poll sees it drained, strongly fair, because the level goes up and down under
  other writes.  This is the assumption of a peer that keeps reading; one that
  does not is the heartbeat's business.
- `MuxCarrier`: the grace timer, the heartbeat's tick and the time to live of
  deferred streams run; a terminated socket emits `close`.  Nothing is assumed of
  the browser, of the host or of an answer to a close frame.
- `GatewaySupervisor`: each effect's awaits end and its timers fire; a gateway that
  was started listens, one that was told to stop leaves, and so does one whose
  parent is gone (each exits or is killed after a fixed time).  Faults are bounded,
  so `ServedInTheEnd` is about what follows the last of them.
- `PluginLink`: timers publish and probe, posts arrive (weak, with bounded losses),
  an old gateway leaves.
- `EmergencyPurge`: the handler's, the helper's and the monitor's awaits have
  limits of their own, after which they go on.
- `ChatInbox`: the panel's timer polls.

## 4. What is proved

Each proof holds for every value of the constants that satisfies the module's
`ASSUME`, and uses nothing else.

*Mux sender* (`MuxSenderProofs`): `IInv` says that the draft of the current state is
settled: the three counters equal the sums they stand for, the limits hold, a message in
flight has exactly one event ahead of it (its callback or the poll timer, and if the
callback, it is the only one identified with it), nothing waits without a message in
flight, and busy is up to date.  The counters alone are not inductive: `cancel()`
subtracts what the scan found, which needs `CancelScanSplits` (about any queue), and a
completion releases what was charged, which needs the identity of the pending callback.
From `IInv`: `TypeOK`, `Accounting`, `NoLostWakeup`, and the theorem-only facts
`WithinLimits`, `BusyMatchesWork`, `QueueBytesNeverReject` (with the limits as
`proxy.ts` sets them the queue's byte limit never refuses a message) and the action
property `TerminalSilence` (nothing is written, charged or announced after disposal):
every operator that reports a failure returns a disposed draft, and every action of a
disposed sender leaves its draft as it was, but for the late callback it removes.

What reaches the peer needs a second invariant (`WireInvariance`): what is on the
wire beyond whole messages is exactly the fragments of the one in flight that were
written, so a prefix of a known message.  From it `WireWellFormed`, and the
refinement `PipeSpec`: the queue and the message in flight are `MessagePipe`'s
queue, the whole messages on the wire what it delivered; each action of the sender
puts, delivers or withdraws a message, shuts the pipe, or does none of these.

*Mux carrier* (`MuxCarrierProofs`): the handlers work on a draft of the carrier and
on what the browser and the host know, so `IInv` is about such a pair, `Sound(d, w,
X, Y)`: `X` are streams the host has still to be told of, `Y` those the browser has
still to be told of, both empty between handlers. `Base` says that the registers
agree and the budgets count what they hold; `Lively`, of a carrier in service,
follows each stream's frames: every one going up or down names an opening that was
made (`Upward`, `Downward`), a stream the host serves is one the gateway has
forwarded or has its `cancel` on the way and that was granted (`Served`), an opening
that the browser still waits for is in a register or its end is on the way
(`Streams`), and nothing is under way to a host not yet connected (`Reached`).
Without the frames under way no register's agreement is inductive: what a queue
withdraws under an id must belong to the stream that is rejected. The assumption is
`~IdReuse`: the browser gives each stream an id of its own, as dsh's client does;
without it the properties are false (findings). From `IInv`: `Bookkeeping`,
`NoOrphanAtHost`, `NoSilentDrop` and `OnlyGrantedReachHost`, every invariant that
`mux_carrier_safety` checks.

*Session access* (`SessionAccessProofs`): `FenceInv` is the epoch fence: no
request is ahead of the epoch, and a request level with it holds exactly the
sessions switched off at this moment.  `SnapshotAuthorized` alone is not
inductive, because an answer writes what the request read long before; with the
fence the comparison of epochs makes that reading current.  From it:
`SnapshotAuthorized`, `ForwardsWhatIsAllowed`, and `StaleNeverGrants` for a user
whose old sessions are migrated (for others it is false, see findings).
`SavesUndoWhatTheySaw` is about the saves: a commit is refused unless the permissions
are still those its baseline was taken of, so what it replaces it has seen.

`RunsConfined` (`PromptsRunConfined`, for `Ordered`) needs a second invariant,
`ModesInv`, about the modes on their way to the host.  For a prompt that waits and is
level with the epoch: unless its own mode is still to land, the log of its session is
within the policy, and each mode on its way there is within it or has the prompt's own
behind it (`Follows`).  Its own mode alone would say nothing of what lands after it.
That rests on four other facts.  A request level with the epoch holds the policy of
the moment (`PolicyFence`); a save that sends any mode changes a permission and so
advances the epoch, for a draft without session grants repeats those it read
(`DraftsKnown`); what is granted exists at the host (`GrantsKnown`); and a session
that is being made does not, and is made once (`CreatedOnce`), so the wide mode it
begins with does not replace one a prompt relies on.

*Accounts* (`AccountsChatProofs`): no property of the tokens is inductive alone, for
a login writes what it read before the hash was compared.  `IInv` says what
stays true of a reading: it is behind the version of its user, or has the name
and the password in force (`Faithful`); nobody was told of a version the row has
not reached (`Informed`); and a token in force has not aged (`InForceIsFresh`).
Versions only grow and ids are not used again, so a token that is void stays
void, and what a notice or a logout has removed cannot return through a later
check.  The proof has two halves: every action stays within a few *effects* on
the database, tokens, cache, connections, logins and requests (one lemma per
action), and steps within these effects keep `IInv`.  From it: `TypeOK`,
`NamesUnique`, `TokenProvesPassword`, `ConfirmedMeansGone`, `StaleWindowBounded`
and `LogoutHolds`, which include every property the run `accounts` checks.
`OldSessionsEnd` is false (findings).

*Event streams* (`EventStreamsProofs`): `HeardIsAllowed` is not inductive, for an open
stream filters with the snapshot it has.  `Snapshots` says that a snapshot holds nothing
its user may not see at this moment, which a change of permissions keeps by replacing it
or by closing the carrier in the same step.  What is announced of a session being
created is in no snapshot, and needs `Pendings`: a request of that user asked for it,
and it is not switched off by its id, for a change of permissions empties the record
(`Invalidated`), and what a request that was already past the gate adds afterwards is
new to the host or in the snapshot of that moment.  Its folder is asked for when it is
announced.  `HeardIsAllowed` says of it no more than that. `Dialogue` follows a
question: what is on the wire asks something new to the client, an entry is of its
client's user and of the session that asks, an answer is accepted once, and a question
on a screen has its entry, was answered or is too old.  From it: `HeardIsAllowed` and
the action properties `AnsweredOnceByItsReader` and `GrantedMayAnswer`.

*Rules* (`RulesProofs`): the six modules of the suite, each under "this behaviour is of
that part" (`PartStays`).  For `EndpointReload` (`TodaysRules`): an open WebSocket of a
sub-user is in the connection registry and in the table of clients and is let in by
today's rules; membership in both is what makes the two ways of tightening find it.
For `SessionInventory` (`InventoryWhole`): what each stage of a gathering leaves to
the next, that is, of a session that lasted, that it is collected or its folder is
still to come, it is not hidden, and what remains to be read of it will speak for it
(`Steadily`); of one collected, that it was placed, and is worth showing or still to
be judged (`Gathered`); and for a save that what lasted is seen or still to come
(`Saved`).  The assumption is that `Order` enumerates `Folder`.  For `UsageQuota`
(`UsageIsTrue`): the balance of tokens is kept because each step moves an amount from
one tab's place to another or to the row.  The time counted is not bounded by the time
passed, for a write rounds to whole seconds and may add half a second; so the invariant
counts the writes (`TimeInv`): what is counted is at most what has passed and half a
second a write, and writes are `Touch` apart, for the throttle is set by each, unless it
was forgotten.  With the 15 seconds of the code the error grows by one part in thirty
at most.  The sums range over any finite set of tabs; that a sum changes by what one
tab changes is proved by induction on the set, with the induction stated for subsets of
`Nat` since the library's theorem cannot be instantiated.

For `ModelChoice` (`PromptsUnderTodaysLists`, `ModelsInv`): the record of a session is
taken from answers and follow frames only, and whatever is on its way there, a selection
the host accepted or a frame not yet handled, names a model that the session has had
(`FramesHad`, `Fine`); so the order in which they arrive does not matter, nor that a
blank session is created again, for the default its record is set to is what it had
before its first selection.  That a prompt passes under today's lists is then a matter
of the step that sends it.  For `WorkspaceCleanup` (`WorkspacesHold`): an owner is added
only to a directory that does not overlap another's, or by a rename; an allow-list is
emptied by the administrator's save alone; and a deletion that retries an intent knows
all the sessions the intent names for as long as the intent is there (`RetryKnows`), so
that dropping the intent drops no grant.  For `LoginThrottle` (`LoginsLimited`): the
failures of a pair alone are no inductive bound, for a comparison that passed the lock
before it was set still adds one.  `Slowed` counts them together: failures and
comparisons in flight are at most `MaxFailed - 1`, one round of attempts for each lock
that ran out, and one more for the present lock, which is not used up before it is set.
`MinuteHolds` says that the list the gateway counts and the list of the cookies given
agree about the last minute.  What is left of a list of times is a recursive function
(`Within`); that the definition has exactly one solution, and what it yields for a list
with one more time or at a later moment, is proved by induction on the prefixes.
`ThrottleAssumption` asks for what the constants of `auth.ts` are: limits and waits
greater than zero, and a finite number of attempts at once.

*Heartbeat and purge* (`ProgressProofs`), two modules of the suite `progress`.  The
heartbeat's invariant is about the draft a handler works on: while data is busy its
stall timer shows how long nothing has moved, a probe has exactly the deadline of its
state, which shows how long it has waited, a report comes with the end, and only the
last probe may be undecided.  From it `SilenceIsTimed`, for any periods.  The purge's
(`PurgeInv`): the signal follows the answer and a helper stops or deletes only after the
signal; of what is under way the lock has exactly one holder, a request up to its
receipt or a receipt that is watched (`OneWorks`), and whose helper lives is such a
holder, until the gateway's process ends and its lock with it; and a comparison that was
lost in a crash is at most one more than the failures recorded (`Counting`).  From it
`PurgeIsSafe`, with the assumption that the limit of failures is not zero.

*Operations* (`OperationsProofs`), four parts of the suite.  For `PluginLink`
(`LinkInv`): no post and no gateway comes from a process of the host that is not there
yet, and a list sent by the one that runs names only what that has mounted (the host's
own paths are mounted by every process of it); so a list
the gateway takes after any restart or loss is of its own host or does not count.  For
`GatewaySupervisor` (`SupervisorInv`): the effect loaded last is the only one in force,
every earlier one is disposed or of a process that is gone; what an effect holds was
launched; and a launch goes on across its awaits only while nothing the effect holds
lives, which is why what it starts at the end replaces nothing that would be left
behind.  For `FirstSetup` (`SetupInv`): the host's values prevail in the plugin's
environment, a gateway that runs has a value for every key, a request past the creation
of the main user freezes exactly the keys of its gateway (`FreezesItsKeys`), and from
the replacement on the file and whatever prevails over it say the same (`KeysFrozen`).
`KeysStay` is about what would be computed by a start at this moment; that it is
computed from these is the lemmas `PluginOfIs` and `ChildKeys`.  The assumptions are
that `SETUP_KEY` is none of the keys and that a random key is not empty
(`SetupAssumption`), and that the plugin is loaded at least once
(`SupervisorAssumption`).  `SavesSeeBeforeTheyUndo` is `SavesUndoWhatTheySaw` for the
two administrators of the suite.

*Updates* (`OperationsProofs`), the two other parts of that suite: `UpdatesAreWhole`
proves `UpdatesWhole` for any number of processes, entries, versions, faults and kills,
under two hypotheses.  `"npm" \notin Targets`: with npm the package installed need not
be the one the installation began with.  `~CrashInGate`: a gate that outlives its
process may be judged by two.  Without either the property is false (section 5), and
the run `operations` has both.

For `UpdateEngine` (`EngineInv`): every version accounted for is at most the one on
disk, and at most the one that runs unless a restart is due (`NoneNewer`); a package at
hand or on record, a version found, a download with the mark it would put back, and an
installation are newer than all of them (`PackagesNewer`, `FoundNewer`,
`DownloadsNewer`, `InstallsNewer`).  That nothing is accounted for twice follows from
an order, not from a mark on the update: each of these is what a step at some later
await accounts for, and it must still be ahead then, whatever another step has
installed meanwhile.  `RestartsDue` relates the restart in memory, the one on record
and the disk, and says that with Compose an update on record is not accounted for
until it is applied, so a recovery after a kill accounts for it once.  The constants
are numbers and the targets those of the code (`EngineAssumption`).

For `DeploymentSwap` (`SwapInv`) the proof has two layers.  `LocksInv` is about the gate
and the lock: the gate is there exactly while a live process holds it (`GateHeld`), the
lock is its holder's, an unwritten one is being written, and what the process in the
gate has judged and will rename is of one that is dead (`LockHeld`).  So one process at
most is at a step of the exchange.  The second layer says how far the exchange is:
`Sound` holds at all times (directories hold entries of the program and of the user,
the user's are his own and each is somewhere; what is laid out holds none of his), and
for each step of the exchange one formula (`AtAway`, `AtEnter`, `AtKeep`, `AtRegister`,
`AtCommit`, `AtAside`, `AtBack`, `AtSweep`, `AtOut`, `AtIn`, `AtClear`, `AtReturn`)
names what has moved and what has not, for the exchange of directories and for the one
in place, on the way there and on the way back.  A step may fail anywhere, so each
formula must entail that of the way back, which is why `AtAside` and `AtBack` speak of
entries in either of two places.  What is left at the end (`AtMine`) is `OutcomeWhole`.
The assumption is that "nobody" is neither a process nor a lock's content and that no
entry is both the program's and the user's (`SwapAssumption`).

*Chat* (`AccountsChatProofs` too: the two share no state, and a module of their own for
each would be as good), the four parts of the suite `chat`.  For `MessageMedia`
(`MediaInv`): the key of a row is that of a file nobody is about to unlink, and of one
row (`KeysOwned`); a file that is renamed and not yet finalized is known to the
gateway alone (`FilesOfPuts`); and what a removal has peeked at belongs to its user's
rows, and to no row once these are gone (`PeekedAreTheUsers`): that the keys are read
before the rows go and the files unlinked after is what makes the second process safe.
Where an unlink fails, the file is still in the queue or is counted as lost.
For `ChatUploads` (`UploadsInv`): of the rows as many are under way as there are
transfers, and none waits while there is a place; it holds between the calls of a
handler because each ends with `promoteQueued()`.  That the first waiting rows are the
ones chosen is about their ranks, with lemmas on ranks in finite sets of numbers,
proved by induction with the well-foundedness of `<`.  For `ChatStream` (`StreamsInv`):
who is open is in both tables, and what waits for an open subscriber is below the mark
but for what is counted as pending, which is bounded.  For `ChatInbox` (`InboxInv`):
`NoGap` speaks of the list, but depends on the answer that is under way: it is to the
present cursor, and between its first and its last message nothing is missing that is
still in the database (`AnswerIsWhole`), which holds of the oldest beyond the cursor and
of the newest of all alike; messages of others stand in the list up to the cursor and
no further (`ListIsWhole`); the cursor is within the database or the next answer is a
reset (`CursorIsWithin`); and what was counted is behind the cursor or of an older
database (`CountedIsBehind`), also after a reset that moves the cursor back.  The
assumptions are that an answer holds at least one message and that a temporary number
is above every number of the database (`InboxAssumption`), and that the bounds are
numbers (`MediaAssumption`, `UploadsAssumption`, `StreamAssumption`).

Only model-checked: liveness.  Every safety invariant and every action property a
passing run checks is stated by a theorem; liveness under fairness and `ENABLED` are out
of the prover's reach, and so is what a recursive operator computes.  Of the properties
in `progress`, `SilenceIsTimed` and `PurgeIsSafe` are proved, the others are liveness.

## 5. Findings

Three runs expect a violation:

1. `session_access_enforcing` (`admin.ts:2197`): a save that awaits the host
   enforces its sandbox mode on the grants read before the await and misses a
   session created meanwhile.
2. `workspace_intent` (`admin.ts:1313`): the ordinary deletion of a directory that
   came back drops the intent of its first deletion, with the session grants only
   that intent named.
3. `uploads_lost` (`chat.tsx:1004`): the answer of a send clears attachments that
   became ready after the send was built.

More were found with runs that have since been merged.  Each is the named
definition, still in its module; adding it to a configuration of that module alone
with the given constants shows the counterexample again.

| Property | Where | What happens |
|---|---|---|
| `MuxCarrier!NoOrphanAtHost`, `IdReuse = TRUE` | `proxy.ts:3759` | rejecting a stream withdraws everything queued under its id, an earlier stream's cancel included; the host goes on serving a stream the gateway forgot. Needs a browser that reuses an id after cancelling |
| `MuxCarrier!PendingCounted`, `IdReuse = TRUE` | `proxy.ts:4109` | an `end` of an earlier opening unregisters a deferred stream opened again under its id; opening it once more replaces the entry, its bytes are counted twice and given back once. With three openings of one id; so also `RegistersAgree`, `OneEnding`, `NoSilentDrop` |
| `SessionAccess!StaleNeverGrants`, `Migrated = FALSE` | `proxy.ts:1379` | the migration of old sessions writes grants from an answer without comparing the epoch, against the comment at `gateway.ts:1715` |
| `SessionAccess!RunsConfined`, `Ordered = FALSE` | `proxy.ts:462` | a confirmation given up after 3 s lands after a stricter one |
| `Accounts!OldSessionsEnd` | `plugin.ts:386` | "30 seconds at most" holds for the cache, not for open connections, which only a confirmed notice closes |
| `DeploymentSwap!OneInstaller`, `CrashInGate = TRUE` | `update.ts:1364` | of two processes that judged the gate of a dead one, the second renames away the fresh gate of the first; both install |
| `UpdateEngine!RecordMatchesDisk`, `"npm" \in Targets` | `update.ts:935` | a download that ends while `npm root` is awaited is installed, and the older version recorded: the record is never met |
| `UpdateEngine!SwitchHolds` | `update.ts:598` | a download or an installation that fails after automatic updates were switched off restores the old mark of its package |
| `FirstSetup!LaunchedAgree` | `plugin.ts:885` | in a container the child fills blank keys from the file, the drift check looks at the environment |
| `GatewaySupervisor!AdoptedStays` | `plugin.ts:855` | after a reload within one dsh process the gateway being stopped passes for a healthy one and is reused |
| `SessionInventory!JoinedSeesItsStart` | `plugin.ts:1278` | a request that joins a gathering is shown what was archived before it; the comment at 1238 calls the two indistinguishable |
| `EventStreams!StreamsEndAtLogout` | `proxy.ts:2235` | an event stream over HTTP answered after a logout is registered after it, and lives on |
| `EventStreams!ShownMayBeAnswered`, `Mine` not empty | `proxy.ts:2684` | a question of a session in the user's own workspace is shown without a grant, but its answer is refused without one |
| `ModelChoice!RecordIsNewest` | `gateway.ts:1943` | the last frame processed wins over a newer selection; the comment at 1935 says by `seq` |
| `MessageMedia!QuotaHolds` | `media.ts:412` | an expired pending upload leaves the count, is transferred all the same, and counts again |
| `UsageQuota!RefusedForThisHour` | `gateway.ts:4190` | at the token limit a sub-user stays refused after the hour, for only a new report begins the window anew |

Behaviours met while modelling that are no contradiction, or too small for a run:

- `proxy.ts:3399` says the sockets let in by the plugin list are closed when it is
  tightened; `gateway.ts:1536-1545` only logs the change (the host closes them).
- Logged-out tokens are accepted again after a restart (`gateway.ts:3125`); a
  user's own password change may overwrite a reset made while it hashed
  (`auth.ts:336`); a failing login in flight may shorten a lock; the lock of a name
  reaches only addresses that already have a row.
- A request whose lists were NULL at its start is not judged again after a sandbox
  mode was confirmed (`proxy.ts:3218`); an answer to `session.create` without a
  baseline denies instead of waiting (`proxy.ts:1682`).
- Update engine: with its package missing the phase stays `installing`
  (`update.ts:907`); the Compose success path leaves the restart record (1788).
- The answer to a rename is applied unchecked; of two deletions of one root the
  second clears the first's intent; marks of granted folders survive the deletion
  of their tree.
- Chat: a resend after a lost answer duplicates a message; a rebuilt database that
  outruns the cursor before the next poll is not noticed; removed messages stay
  shown until the panel begins anew.
- The last report of tokens of a closing tab is refused within five seconds of the
  one before, and lost.
- A key leaves the queue of removals before its file is unlinked, and `unlinkSync`
  failing is ignored (`media.ts:203`): such a file stays, and nothing names it.
- Each write of the time used is rounded to whole seconds (`db.ts:2129`) and may count
  up to half a second too much or too little.
- `mkdtempSync` (`admin.ts:510`) is called outside the handler's `try` and after
  `purgeInProgress` was set.  Express 4 does not take the promise of an async handler,
  nothing listens for unhandled rejections, and Node (22 or later, `package.json`)
  then ends the process: the lock is not left held, it goes with the gateway, and with
  it every connection, until the plugin starts it again.
- The answer to a create that used a blank session again sets the record of its model
  to the host's default (`proxy.ts:1640`), even if the session has a selection.
- The purge's monitor, when it gives up, keeps the lock for good (documented at
  `admin.ts:439`).

## 6. Plan

Modelled and checked: everything in section 2; proved: every safety property of
section 3, as section 4 says.  Next:

1. `UpdatesWhole` split by part, so that what `DeploymentSwap` promises is stated
   without a hypothesis on npm, and `NoneNewer` with npm for the updates that are not
   overtaken while `npm root` is awaited.
2. Larger bounds for `rules`, should a run of its own become affordable.

## 7. Not modelled

- `acme.ts`: one linear exchange with an external service.  `patch.ts`: text
  replacement in files of another program, with a backup.
- `permissions.ts`, `sensitive-paths.ts`: functions on strings and JSON bodies.
  The models take their verdicts as data; the classes of registered endpoints
  (`EndpointReload`) and the nesting of directories (`WorkspaceCleanup`) are
  modelled.
- Encryption of columns, parsing of options, wording.
- `remote-mux-diagnostics.ts`, `loading-timeline.ts`: observation only.
- The settings card, the directory picker and downloads of the user interface:
  they render, and send requests the models take in any order.  Of the scripts,
  `purge.mjs` is modelled; the others are run by hand, one step after another.
- Rates of the setup page, form tokens and origin checks; aliases and links of
  paths; bytes of downloads and uploads; cryptography.
