# A verification of Arma-Server-Panel in TLA+

Arma-Server-Panel runs game servers (Arma 3, Arma Reforger) in Docker containers
on one or more nodes and lets their owners create, start, stop, move and delete
them from a web page. This directory models the parts of the panel where several
things happen at once: TLA+ modules translated from the TypeScript source, TLC
configurations that check them on small instances, and proofs that TLAPS checks
for every value of the constants.

`PROJECT.json` is the index: which lines of the source each definition stands
for, what every run checks, the hazards the properties are for, and the findings.

## 1. The system

### 1.1 Components

All paths are below `src/`. *API* is `apps/api/src`.

| component | where | state it keeps | operations | what is hard about it |
|---|---|---|---|---|
| Server lifecycle | API/`modules/servers/server-service.ts`, `routes/servers.ts` | `Server` row (`state`, `crashCount`, `suspended`, `containerId`, `deletedAt`) | create, provision, start, stop, restart, kill, reinstall, delete, move ports, change resources, `syncServerState` | every handler is a chain of awaits over one row and one container with no lock; checks precede writes by several awaits |
| Supervisor | API/`modules/servers/supervisor.ts` | timers, attachments, pending console lines, suppressed restarts | `reconcile`, `handleCrash`, `sampleAll`, `accountBandwidth`, `attach`, `flushConsole` | acts on rows read before the loop; restart timers outlive what they were set for; memory only |
| Container manager, Docker client, container spec | API/`modules/docker/` | none (Docker's) | create, inspect, start, stop, kill, restart, remove, stats, logs, images | calls that throw after their effect; multiplexed log frames |
| Console buffer | API/`modules/servers/console-buffer.ts`, `routes/console.ts` | ring of recent lines per server, subscribers | append, replay, subscribe | replay against live lines, lines lost or repeated around a reattach |
| Port allocator | API/`modules/network/port-allocator.ts` | `PortAllocation` rows | `allocatePorts`, `releasePorts` | two allocations at once; the rows are linked to their server outside the transaction |
| Port forwarder, NAT traversal | API/`modules/network/port-forwarder.ts`, `nat-traversal.ts`, `reachability.ts`, `game-host.ts` | leases in `PortAllocation` rows, the router's table | forward, confirm, release, renew | leases that lapse, a renewal that races a release |
| Relay client | API/`modules/network/relay.ts` | open tunnels, a socket per tunnel and one per player | `openRelayTunnel`, `closeRelayTunnel` | two opens around an await; packets around a close; a daemon that restarted |
| Relay daemon | `services/relay/src/relay.ts` | allocations, index by port, index by tunnel, client tables | allocate, release, authenticate, forward both ways, housekeeping | indexes that must mirror one another; time-outs that race traffic |
| Scheduler, metrics | API/`modules/scheduler/scheduler.ts`, `modules/telemetry/`, `routes/metrics.ts` | metric tables, monthly traffic, retention | roll-up, prune, monthly reset | a cut between two statements; a minute that is half old; quotas lifted by calendar |
| Sessions | API/`security/session.ts`, `plugins/auth.ts` | `Session` rows, current and previous token hash | create, resolve and rotate, revoke, prune | rotation by concurrent requests, the grace window of the previous token |
| Sign-in | API/`routes/auth.ts`, `routes/admin-auth.ts`, `modules/auth/` | `AuthChallenge` rows, recovery codes, trusted devices | begin, verify, consume, step-up, enrol, register | attempts counted by read and write; codes used once; names claimed while somebody enrols |
| Lock-out and rate limits | API/`security/lockout.ts`, `rate-limit.ts`, `plugins/global-rate-limit.ts` | counters and windows | record, check, clear | lost increments, windows that expire while in use |
| Audit log | API/`security/audit.ts` | a hash chain of rows | append, verify | two appends at once, verification after pruning |
| Accounts and administration | API/`routes/panel-accounts.ts`, `account.ts`, `setup.ts`, `api-keys.ts`, `servers.ts` (members) | accounts, members, access requests, API keys | request, approve, deny, delegate, revoke, first set-up | rights resolved before rows are read; grants computed from old memberships |
| Nodes, host | API/`routes/nodes.ts`, `modules/host/` | `Node` row, cached verdict on the machine | evaluate, register, re-check, status, delete, capacity | room looked up before it is taken |
| AI assistant | API/`modules/ai/`, `routes/ai.ts` | proposed actions and their status | propose, approve, execute | an approval executed twice |
| Mods and files | API/`modules/mods/`, `modules/files/`, `routes/mods.ts`, `routes/files.ts` | mod rows and presets, the server's directory | add, toggle, order, import, save, upload, move, delete | whole lists rewritten from old reads; partial files removed by name |
| Settings, adapters, definitions | API/`modules/games/`, `routes/servers.ts`, `routes/game-definitions.ts`, `packages/shared/src`, the settings page | `Server.config`, the game's file, stored definitions | validate, save, start, upload, switch, delete | the whole is written back from a stale read; a release that no longer accepts what is stored |
| Game protocols | API/`modules/games/protocols/` | a pending command and its parts | command, query | answers in parts, lost, repeated, out of order |
| Integrations | API/`modules/integrations/`, `routes/integrations.ts` | destinations with a count of failures | dispatch, add, change, delete | dispatches that overlap around the count |
| Platform | API/`modules/platform/`, `server.ts`, `app.ts` | settings, encrypted credentials | bootstrap, read, write | start-up order only |
| Cryptography, CSRF, SSRF, TOTP, passwords | API/`security/` | keys | functions of bytes | arithmetic on bytes, no state |
| Username policy | `packages/shared/src/usernames.ts`, API/`modules/auth/username-policy.ts` | attempts, bans | screen | two normal forms of one name |
| Shared package | `packages/shared/src` | none | schemas, title table, formatting | none |
| Web pages | `apps/web` | page state | polling, forms, the console's socket | the console and the settings page keep copies that age |
| Deployment | `docker/`, `docker-compose*.yml`, `install.sh`, `scripts/` | images | build, install | outside the running program |

### 1.2 How they interact

* A *request handler* loads the server's row, checks what it is allowed to do,
  writes a transitional state, awaits Docker, and writes the settled state.
  Provisioning and reinstalling go on in the background after the request has
  been answered. Nothing serialises two handlers.
* The *supervisor's* loop reads all rows once, then visits one server after the
  other, awaiting Docker for each. What it decides about a server is based on a
  row that may be seconds old. A crash it handles sets a timer that starts the
  container later.
* Reading a server's page runs `syncServerState`, a third writer of the row.
* `createServer`, `reallocateServerPorts` and `deleteServer` use the allocator;
  the link between a server and its rows is made by statements of their own.
* The API opens tunnels to the relay daemon; the daemon knows allocations by
  token, by public port and by the tunnel's endpoint.
* Requests and the scheduler's sweep share the rows of a server's ports with the
  router, which forgets leases on its own clock.
* Everything a page shows is a copy: the console replays the buffer to a page
  that may have seen part of it, and the settings page sends back the whole of
  what it once loaded.
* Rights are looked up at the beginning of a handler, and acted on after several
  statements, during which members, keys, requests and locks change.

### 1.3 What makes each component correct

* **Lifecycle and supervisor.** An automatic restart is bounded by the owner's
  limit; a delete leaves nothing running; the row ends up describing the
  container; an installation ends; a crash within the limit is restarted.
* **Ports.** No port is reserved twice; a server at rest owns the ports it
  publishes; a failed request does not lose a block.
* **Relay.** Both indexes mirror the allocations; a live tunnel is not replaced;
  client tables are bounded; unused allocations are reclaimed.
* **Console.** A page shows a stretch of the log without a gap or a repetition,
  across broken sockets and restarts.
* **Forwarding.** The row of a port agrees with what the router maps; whoever
  asked for the relay is not published with the connection's own address.
* **Sessions.** Rotation by concurrent requests signs nobody out; a privilege
  change ends every earlier token.
* **Sign-in.** A challenge is consumed once; a lock holds on every path; limits
  let no more through than they have points.
* **Accounts.** No two accounts share a name; registration opens only behind the
  set-up; delegation creates no permission nobody gave.
* **Assistant.** An action runs only with the permission its approval needs.
* **Mods, files, settings.** The order has no gaps; names lead to whole files,
  unless a save or a removal failed; the row of the settings is valid as a whole,
  however stale the read it was made from, and so is the file unless its writes
  overlapped or failed.
* **Records.** A roll-up loses no sample; a node is not oversold; the catalogue
  keeps every title; a dead destination is switched off; the audit log is one
  chain.

## 2. The modules

| module | models | state | proofs |
|---|---|---|---|
| `ServerLifecycle` | one server: handlers, reconcile loop, crash handling, restart timers, suspension, restarts of the API | `row`, `ctr`, `procs`, `sup`, `timers` | `ServerLifecycleProofs` |
| `PortAllocator` | the allocations of one node and the three handlers that use them | `rows`, `servers`, `lock`, `procs`, `claims` | `PortAllocatorProofs` |
| `RelayDaemon` | the relay daemon: control plane, data plane, housekeeping | `phase`, `port`, `byPort`, `tunnel`, `byTunnel`, `quiet`, `idle`, `clients`, `nextId` | `RelayDaemonProofs` |
| `Sessions` | the sessions of one account, the browsers that hold their cookies, and the requests in flight between them | `now`, `session`, `jar`, `req` | `SessionsProofs` |
| `SignIn` | one administrator's sign-in: challenges, lock-out, codes, remembered devices, enrolment, step-up | `account`, `challenge`, `device`, `recent`, `handler` | `AccessProofs` |
| `Registration` | set-up, screening, the two steps of registration, Discord, deletion | `platform`, `row`, `token`, `warning`, `ban`, `flow` | `AccessProofs` |
| `Usernames` | `checkUsername` on short words, and disguises of them | `wanted`, `disguise` | `AccessProofs` |
| `RateLimit` | one bucket: row and cache | `counter`, `cached`, `consumer` | `AccessProofs` |
| `Authority` | members, API keys and access requests of one server | `member`, `key`, `ask`, `request` | `AccessProofs` |
| `Staff` | the administrator's own accounts and the guards of the panel | `staff` | |
| `Assistant` | proposals of the assistant and their approval | `dialogue`, `held`, `review` | `AccessProofs` |
| `Forwarding` | the public ports of one server: open, confirm, release, renew, publish | `mappings`, `granted`, `tunnels`, `published`, `call`, `env` | `OperationsProofs` |
| `NatTraversal` | what the panel finds out about its network, and what a router may answer; operators only | | |
| `GameQuery` | the A2S question, as a function of what comes back; operators only | | |
| `RelayClient` | the panel's end of the tunnels | `tunnelOf`, `keeping`, `waiting`, `channels`, `idle` | `OperationsProofs` |
| `Console` | scrollback, WebSocket and page of one console | `buffer`, `written`, `run`, `subscribers`, `link`, `current`, `shown`, `commands` | `OperationsProofs` |
| `ConsoleLog` | abstract: what a watcher of a log is promised | `run`, `written`, `view` | `OperationsProofs` |
| `Mods` | the mod list, presets, and the game's own list | `modRows`, `modFile`, `preset`, `editor` | `OperationsProofs` |
| `Files` | names, open files and folders of one server | `names`, `folders`, `body`, `fileOp` | `OperationsProofs` |
| `Rcon` | one command over BattlEye RCON | `client`, `wire`, `gameSide` | `OperationsProofs` |
| `Metering` | samples, roll-up, monthly usage and suspension | `container`, `usage`, `quota`, `raw`, `rolled` | `RecordsProofs` |
| `Nodes` | the machine, its node and the capacity handed out | `settings`, `nodeRow`, `tenants`, `desk` | `RecordsProofs` |
| `Settings` | a server's settings on pages, in the row and in the game's file | `row`, `file`, `page`, `save`, `starter` | `RecordsProofs` |
| `Definitions` | the registry of games across releases | `release`, `stored`, `used`, `call` | `DefinitionsProofs` |
| `Notifications` | destinations and overlapping dispatches | `rows`, `delivery` | `RecordsProofs` |
| `AuditLog` | the hash chain, retention, verification | `entries`, `lock`, `writing`, `cutoff` | `RecordsProofs` |

`MCServerLifecycle`, `MCPortAllocator` and `MCSessions` give TLC the symmetry sets and the
functions a `.cfg` cannot write. `MCAccess`, `MCOperations` and `MCRecords` put
modules that share no state into one run: `part` names the one that is explored,
and the others stay in their initial state, so that the states of the run are the
sum of the modules' and not their product. Definitions called `...Mut` (and a few
others whose comment begins with *Mutated*) are not part of any specification:
each is a form a plausible mistake in the code would take, and the property it
belongs to fails when it takes the place of the definition that follows it.

Every module from 2.5 on is written the same way: a handler in flight is a
record whose field (`pc`, `stage` or `kind`) says which awaited statement comes
next, with what it has read so far; the code between two awaits is one action.
Variables that only *record what happened* say so where they are declared; no
action of the code reads them. A loop of the code over a list or a set is a
recursive function (`Parsed`, `Among`, `Without`, `InRows`, `GoOn`, `LogLines`),
so that the modules can be proved about as well as checked.

### 2.1 ServerLifecycle

One action is the code between two awaits. A handler is a record in `procs` with
the request it serves and the point it has reached (`pc`); `Accept` is
`loadServer` with the checks of `performPowerAction`, `MarkTransition` the first
`setState`, `CallDocker` and `CallFails` the call to the container manager,
`Settle` or `ResetCrashCount` what follows it. `provisionServer` is the chain
`ProvisionLoad`, `MarkInstalling`, `BuildContainer`, `WriteConfig`,
`MarkInstalled`, with `MarkInstallFailed` for its catch; `reinstallServer` and
`deleteServer` share `ClearStop` and `ClearRemove`, which swallow failures as the
code does. `syncServerState` is `SyncInspect` and `SyncWrite`, with the row it
loaded before asking Docker kept in `seen`.

`sup` is the loop's visit to this server: `SupSnapshot` copies the row when the
loop reads all of them, `SupInspect` decides with that copy, `SupMark`,
`SupRecordCrash` and `SupSchedule` write. `timers` counts the restart timers at
each point of their callback: more than one may exist.

A call to Docker that throws may have had its effect or not
(`FailedOutcomes`). `ApiCrash` forgets handlers, loop and timers, and lets Docker
finish what it had been sent.

Abstracted: one server, because nothing in these handlers relates two of them
but ports (`PortAllocator`) and capacity (`Nodes`). Delays (`restartDelay`, the
loop's interval) are left out: a timer may fire at any moment after it is set,
which includes every length the settings allow. The database is taken to be
available in this module; failing statements are what `PortAllocator` is about.
`history` is not state of the code: it remembers how many automatic restarts
there were since the owner's last start, how many were due when that start ended,
whether the owner's stop was the last thing to complete, and whether a container
was left behind by a delete.

### 2.2 PortAllocator

`AcquireLock`, `ReadTaken` and `Claim` are `allocatePorts` inside its
transaction: the advisory lock, the read of the taken ports, and the insert that
commits. `FreeBlocks` is `scan()`; `Eligible` the band of the title first and the
node's range second. The statements of the three handlers outside the transaction
are actions of their own, each with its failure. A row is identified by the claim
that inserted it and its port, as the code deletes rows by the ids it has read.

Abstracted: protocols (the code checks ports of all protocols alike, so a port
stands for all of them); the server's other columns; provisioning, which is
`ServerLifecycle`'s. `history` remembers the blocks held by requests that ended
with nothing undone, and the servers whose requests overlapped or whose
reallocation broke off between two blocks.

### 2.3 RelayDaemon

The daemon is one Node process: a packet, a request or a turn of the interval
runs to its end, so each is one action; the only await is the bind of a public
socket, between `BeginAllocation` and `Bound` or `BindFails`. Time is kept as
what the code compares it for: `quiet`, `idle` and `silent` say that a limit has
passed since the last packet. Abstracted: packet framing, the signature (a packet
with a wrong one changes nothing), HTTP parsing, and the counts of bytes.

### 2.4 Sessions

`resolveSession` awaits the database up to three times: `Lookup` and
`GraceLookup` are its two reads, and what it decides with the row it read, ending
in its write, is `Refuse`, `Rotate`, `RotationLost` or `Touch`. The row as it was
read is kept in the request (`seen`), so that another request may change the row
in between. Each of these ends with `Accept`, the double-submit check of
`plugins/auth.ts`, since nothing is awaited from there to the handler. Handlers
are `SignIn`, `StepUp` (also the confirmation of an authenticator),
`ChangePassword` with `PasswordChanged` for its second statement, `Logout`,
`LogoutEverywhere`, `RevokeOne`, and `Finish` for every other. `Receive` and
`Lose` are the fate of a reply that carries a cookie; a later `Set-Cookie` on the
same reply replaces an earlier one (`Done`).

A token is the row it was minted for and its number; the CSRF token is minted
with it and needs no number of its own. `Refuse` may happen to any request that
has been looked up, because the user agent and the state of the account are not
modelled, and it must happen to one whose row was read as revoked or past a
limit. Abstracted: the maximum age of the cookie, which is not shorter than the
row lives; the read in `RevokeOne` before it revokes; the statements of the
handlers on other tables. The code reads the clock before it sends the statement
that uses it, so what a statement compares with or writes is a time from `Stamps`:
no earlier than the read it follows, and at most `Slow` before the moment the
statement takes effect. In particular the grace period runs from the clock the
rotation read (session.ts:129 and 180), not from its write. Queries that take
more than half a rotation period are excluded (`2 * Slow <= RotateAfter`; that
period is fifteen minutes): the stamp of a rotation may be `Slow` behind its
write, and the read of another `Slow` behind its own. `floor`, `lost` and three
fields of a request are not state of the code: they remember the number of the
token minted by the last privilege change, the sessions one of whose cookies was
lost, and what was true when a request was sent.

### 2.5 SignIn, Registration, Usernames, RateLimit

`SignIn` follows one account. `LoginStart`, `DeviceCheck`, `DeviceLock` and
`LoginIssue` are the first step; `VerifyPeek` to `VerifyCommit` the second, where
`VerifyAnswer` is any answer to the code; `PasswordLogin` and `PasswordLock` the
password's path; `EnrolStart` to `EnrolCommit` enrolment, `StepUp` and `StepWrite`
elevation. `FailureRead` and `FailureWrite` are `recordAuthFailure`, whose read
and write others come between; `TrustDevice` and `CutSurplus` its device list, of
which `Without` leaves what is not cut. `CutSurplus` takes the read of the surplus
and its deletion (trusted-device.ts:48-59) in one step: the properties
count devices, and whoever adds one between the two cuts the list after that.
Time is counted in TOTP steps, and the step last used is kept as the code keeps it.

`Registration` is about rows that several requests want: `ScreenStart` to
`ScreenBan` are `screenUsername`, `RegisterIssue` the first step, `RegisterPeek`,
`ConsumeToken`, `RegisterTaken` and `RegisterCreate` the second, `DiscordStart` to
`DiscordLink` the other way in, `SetupComplete`, `SetupCount` and `SetupWrite` the
end of set-up: its gates, the count of the nodes, the settings. `NodeRemoved` takes
the last node whenever it likes, between the last two included, as the route asks
for servers only; `hosted` records that there has been one. The unique indexes of the schema are part of `RegisterCreate`; a name
stays in them when its account is deleted.

`Usernames` has no concurrency: its state is a name and a disguise of it, and its
steps make the disguise worse. The regular expressions are what they keep of a word
(`Keep`): its letters, the first of each run, or the first of runs of three and more.

`RateLimit` keeps the row and the cached entry of one bucket apart. A request looks
at the cache and the clock (`Ask`), has its statement run (`Upsert`) or fail, and
writes the entry (`Cache`); a reset deletes the entry (`ResetEntry`) and then the
row (`ResetRow`), which may fail unheard. `overtaken` records the windows whose row
a reset removed while an answer about them was cached or on its way.

### 2.6 Authority, Staff, Assistant

`Authority`: `Resolve` is `resolveServerAccess` for each way a caller can come
in, with its own rights or through an API key; `PatchRead` and `PatchWrite`,
`DecideRead` and `ApplyServerGrant` are the statements between which members,
keys and requests change. `released` records what the owner or an administrator
ever gave out, `crossed` that a `PATCH` cleared the overrides of a membership
whose role was no longer the one it had read. `Staff` is four handlers of one statement each, kept for the
order in which an account may call them. `Assistant`: `DiagnoseReply` stores any
reply, `Approve` reads the list, `Execute` runs the action, `WriteBack` writes the
list it read.

### 2.7 Forwarding, NatTraversal, GameQuery, RelayClient

`Forwarding` extends `NatTraversal`, whose operators give the set of results an
exchange with the network may have, on a `home`: what the machine sees of itself,
where the router listens and what it speaks. `ForwardServerPorts` reads the rows;
`ForwardPort` is `forwardSinglePort` for the next one (`InRows` are the rows of a
set in the order they were read, `GoOn` what a request does after one of them), the whole ladder of relay,
direct mapping and manual forward (`ForwardSinglePort`, `DirectMapping`); then
`SaveOutcome`, and `PublishAddress` at the end. `RenewPort` and `SaveRenewed` are
the sweep's two statements per row. `granted` is the router's own table.

`GameQuery` keeps the width of the word (`WordBits`), because the code compares a
signed reading of the header with an unsigned constant. `RelayClient` is the
table of tunnels around the awaits of an opening, and the sockets of the players.

### 2.8 Console and ConsoleLog

`ConsoleLog` is what a watcher is promised: the lines of one run of the log, in
order, without a gap, none twice, and never those of an older run after those of
a newer one. Between two of its steps anything may have been written, and the
view may jump forward to a later stretch (a page that was away). `Console` is
how the panel does it: a buffer with subscribers (`Output`, `Emptied`, `Restart`),
a socket whose mail arrives in order until it breaks (`Accept`, `Refuse`, `Break`,
`Message`, `Discard`), and a page that connects again. `ShowsLog` is the
refinement, `Log == INSTANCE ConsoleLog WITH view <- LogShown`: the lines on the
page (`LogLines`), less the copy of a command's answer that the page makes itself.

### 2.9 Mods, Files, Rcon

In `Mods` a change reads the rows, makes a list of them (`PlanMods`), and a
transaction deletes what it sees and inserts (`DeleteRows`, `CommitRows`); the
file is written from a read after that (`ReadBack`, `WriteMods`). `Files` tells
names from files: whoever has opened a file goes on writing to it when its name
is moved or removed. Opening empties the file; what then arrives is all of it, a
part or nothing (`Receive`), for a save as for an upload. Only an upload takes its
name away again, which may fail in its turn (`FinishWrite`), also when it could
not open its file (`UploadRefused`); `spoilt` records the files such failures
leave. `Rcon` is a client and packets that get lost, repeat and
overtake each other; `Joined` puts the parts together in the order of their
numbers; a server that answers in one part or several is external.

### 2.10 Metering, Nodes, Settings, Definitions, Notifications, AuditLog

`Metering`: `SampleAll` to `SuspendForQuota` is one round of `sampleAll` with
`accountBandwidth`; the roll-up is its two statements, the monthly reset three.
Time is minutes and months. `Nodes`: `Evaluate` and `MeasureThroughput` reach the
verdict, `AssertCapacity` with `CreateTenant` or `WriteResources` hand out memory.
`Settings`: two settings and the rule across them (Reforger's); a save is `Send`,
`ValidateConfig`, `WriteRow`, `WriteConfig`, `FillConfig`, `ApplyConfig`, and a
start is `StartRead`, `StartWrite` and `StartFill`. The file is written by a plain
`writeFile`: `OpenFile` empties it, `FillFile` writes what the writer has, over
whatever another has written since, or fails before the first byte or after some.
A save passes a failure over, a start ends with it. `alone` records whether the
last to open the file had it to itself since and no write of it failed.
`Definitions`: `stored` outlives a release, and the
checks are made again on every read (`ListDefinitions`). `Notifications`:
`DispatchEvent` sends to all destinations at once, `CountFailure` and `SwitchOff`
are two statements. `AuditLog`: `TakeLock`, `ReadPrevious` and `Commit` are the
transaction of `audit` over a table by id, of which `HashOfLast` is the row with
the highest; a hash is a number nothing else has.

## 3. The runs

| run | module | shows | size |
|---|---|---|---|
| `Lifecycle_safety` | `MCServerLifecycle` | `TypeOK`, `CrashLoopBounded`, `DeletedHasNoContainer` for every request there is | 1.1 M, symmetric in the two handlers |
| `Lifecycle_liveness` | `MCServerLifecycle` | `ViewConverges`, `CrashIsRestarted`, `InstallSettles` | 0.6 M |
| `Ports` | `MCPortAllocator` | `TypeOK`, `PortsDisjoint`, `BlocksKept` | 0.6 M, symmetric in requests and in the two servers of one title |
| `Relay` | `RelayDaemon` | `TypeOK`, both indexes, `LiveTunnelKept`, `ClientTables`, `IdleReclaimed` | 53 k |
| `Sessions` | `MCSessions` | `OldTokensStayDead`, `RotationKeepsBrowser`, `CsrfFollowsToken`, `RotationsSpaced`, `OvertakenRequestSurvives` | 2.6 M, symmetric in the requests |
| `Access` | `MCAccess` | `SignInCounts`, `LockHolds`, `RegistrationSafe`, `DisguiseRefused`, `WindowBounded`, `DelegatedOnly`, `ApprovalHolds` | 1.2 M, sum of seven modules, symmetric in what is in flight and in rows that are alike |
| `Operations` | `MCOperations` | `RowsAgree`, `RelayHides`, `PlayersBounded`, `ShowsLog`, `ModsSound`, `FilesWhole`, `CommandWhole` | 0.8 M, sum of six modules |
| `Records` | `MCRecords` | `MetersSound`, `NodesSound`, `SettingsSound`, `CatalogueSound`, `DeadIsSwitchedOff`, `ChainSound` | 1.3 M, sum of six modules |
| `Lifecycle_owner_stop` | `MCServerLifecycle` | a server its owner stopped is started again (finding) | |
| `Lifecycle_rebuild` | `MCServerLifecycle` | a start that rebuilds the container starts nothing (finding) | |
| `Lifecycle_unseen_crash` | `MCServerLifecycle` | a crash first seen by a page is never handled (finding) | |
| `Quota` | `Metering` | a new month does not lift a suspension (finding) | |

What the properties of the composed runs say:

* `SignInCounts`: a challenge lets one sign-in through, takes no more wrong
  answers beyond its limit than handlers had read it, and remembered devices
  exceed theirs only while a handler is about to cut the list. `LockHolds`: what
  began while the account was locked is not let through by any path.
* `RegistrationSafe`: no two accounts ever share a name, deleted ones included;
  accounts come only behind a finished set-up, and set-up is final only behind
  its gates (for the last of them: a node had been registered, which may be gone
  again); no account has an abusive name.
* `DisguiseRefused`: repeated letters, separators and digits hide nothing; two
  spellings of one canonical name get the same verdict.
* `WindowBounded`: no window lets more through than it has points, and the cache
  refuses nobody the row would let through, unless a reset removed the row of that
  window while an answer about it was cached or on its way. Without that condition
  TLC refutes it: the answer of a bump is cached between the two steps of a reset.
* `DelegatedOnly`: whatever members, keys and approvals pass on, every permission
  somebody has was given out by the owner or an administrator, so long as no
  request clears the overrides of a membership whose role has changed since the
  request read it. Without that condition TLC refutes it, with three permissions
  and four requests: an administrator who may clear the overrides of a viewer
  clears them for somebody who has become an operator meanwhile.
* `ApprovalHolds`: an action runs only with the permission it needs, a reinstall
  never, and a session is closed just when nothing in it is pending.
* `RowsAgree`: after a sweep an active row is one the router maps, and a port
  that is open and that the router maps is active. `RelayHides`: who asks for
  the relay is not published with another address.
* `PlayersBounded`: no player's socket outlives its tunnel or exceeds the limit.
* `ShowsLog`: `Console` implements `ConsoleLog`.
* `ModsSound`: the load order is 0..n-1; a preset that could be imported can be
  applied. `FilesWhole`: names lead to files of their own in folders that exist,
  and to whole ones, except those a failed save or a failed removal has left, so
  long as nothing was disturbed and the panel not stopped. `CommandWhole`: an answer that is shown is the whole answer, in order.
* `MetersSound`: a sampled minute can be drawn until it is too old, wherever a
  roll-up broke off. `NodesSound`: no node is given out beyond its size, none
  that failed its check takes servers.
* `SettingsSound`: the row is valid as a whole, the rule across settings included;
  the file is when nobody is writing it, if the last to write it had it alone and
  no write of it failed; and "saved" means the page shows the row. Without that
  condition TLC leaves the file empty, by a write that fails, or mixed, by two
  writers that both opened it before either wrote.
* `OvertakenRequestSurvives` (`Sessions`): a request sent with the current token is
  let through for the grace period less `Slow`, the time a rotation's update may
  take to land. For the whole grace period TLC refutes it.
* `CatalogueSound`: every title stays listed, each id once, with a document this
  release accepts and blocks of ports that are apart.
* `DeadIsSwitchedOff`: a destination that has failed as often as the limit says is
  off, or about to be. `ChainSound`: what is kept of the log is one chain, each
  entry linked to the one before it, and only its oldest entries are missing.

Several of these say *so long as requests did not overlap* (`crossed`,
`overlapped`, `mixed`, `disturbed`, `overtaken`, `alone`, `short`), or *unless a
write failed* (`spoilt`, `alone`). The code does not
exclude the overlap or the failure, and what it then loses is a finding of its
own; the condition leaves everything else, all other interleavings, cuts and
losses, in the property. The variables are set by the overlap or the failure
itself and by nothing else.

### 3.1 Bounds

* `Lifecycle_safety`: two handlers at once and two requests beyond the initial
  provisioning, one fault of any kind, three exits of the game, a limit of one
  restart, crash counts up to four. Two handlers are what a race needs; the
  initial provisioning is a third activity beside them until it ends. Three
  exits are one more than the limit allows restarts for, so the limit is reached.
* `Lifecycle_liveness`: no symmetry (it is not sound for liveness), one exit and
  no request that removes the row. `MaxCrashCount` is six, above what one exit
  and two requests reach, so that the bound never stops the loop.
* `Ports`: three servers of two titles on nine ports, three committed
  allocations, one failure. Nine ports are too few for everything, so the band of
  the narrow title overflows into the node's range and `no_ports_available`
  occurs; three allocations are a server, its move and a neighbour, or three
  servers.
* `Relay`: two allocations and two endpoints are what taking over and moving an
  endpoint need; two players on a table for one make it full and pruned.
* `Sessions`: one row, one browser, two requests. The races of a rotation are
  between requests of one session; what a row owes another is that a privilege
  change revokes it, which is one assignment. Two rows are beyond the time a run
  has, and the theorems hold for any number of rows, browsers and requests. Time
  runs to six, with statements one behind their clock and a grace of two, which
  leaves one for a request that was overtaken: a rotation is due after three, and
  every limit (idle 3 and 4, absolute 4 and 5) lapses with time left. A second
  routine rotation of one row is beyond the horizon; that it cannot push out a
  token too early is left to the theorem. Three tokens are a
  sign-in and two changes of token, routine or by privilege, in either order.
* `Access`: two handlers in flight and three in all for the sign-in, with a limit
  of one wrong answer, two thresholds of the lock and one remembered device, so
  that each limit is reached and passed by an overlap; two registrations for one
  clean and one abusive name, explored once with names that are screened and
  refused and once with Discord, because both at once are too many states for a
  run; words of three letters and disguises of up to six;
  two points a window, four requests, two of them in flight, and two resets over
  five instants, two windows and a half; two members, a key and three requests; two proposals of three kinds and four
  reviews.
* `Operations`: seven networks (`MCHomes`), each with another method that works or
  with none, and leases of three minutes over four: one lapses, one is renewed.
  Two requests overlap, and so do a request and a sweep. Two tunnels in a row
  with two players for one place; a scrollback of two lines with a hello of one
  and three lines in all, over a restart; two of three mod changes in flight; two
  files ever opened; an answer of one and of three parts, with seven deliveries.
* `Records`: months of two minutes with a quota of one byte and one stop of the
  panel; machines that are enough and that are not, for two servers; two pages and
  one proposal over two saves and a start, explored once with both pages and once
  with a page and the proposal; four documents, of which one is refused
  by the next release, one has ports beyond its stride, one is a new game and one
  has impossible slots; two destinations with a limit of two failures and two
  dispatches in flight; two writers, four entries, a retention of a day.

Bits of a word are four in place of thirty-two (`WordBits`): signed and unsigned
readings differ by the highest bit, which every width has.

### 3.2 Where a run may stop

`ServerLifecycle` and `PortAllocator` bound what the environment does; once the
budget is spent and every handler has ended the model stops, as the panel rests
when nobody uses it. `Sessions` stops where every request is a password change
about to rotate its session and the bounds on tokens and time are reached, and
the modules of the composed runs stop when their bounds on requests, time or
lines are. Their configurations say `CHECK_DEADLOCK FALSE`. The `Relay` run
checks for deadlock.

### 3.3 Fairness

`FairSpec` of `ServerLifecycle` asks weak fairness of every handler that has
something to do, of the loop and of the timers: Node's event loop resumes what
is awaited, every call to Docker has a time-out or an answer, and intervals keep
firing. It asks nothing of requests, exits and faults. `FairSpec` of `RelayDaemon`
asks it of the housekeeping interval and of a bind that was requested.
`FairMetering` asks it of the clock, of the intervals that start a round of
samples and the monthly reset, and of the statements they go on to, because a
failing run must not fail for want of a step the code would take.

`ViewConverges` leaves out the page's poll (`sync`): `syncServerState` turns a
server without a container into `CREATING`, which nothing leaves again, and the
loop skips it. `CrashIsRestarted` and `InstallSettles` are checked without
restarts of the API, after which nobody continues what was under way.

### 3.4 Findings

Four runs fail, each on a sentence of the repository that the code does not keep;
the trace TLC prints is the way there. `PROJECT.json` quotes the sentence.

* *The owner may have intervened while we were waiting* (supervisor.ts:312). The
  loop judges the exit that the owner's stop caused by a row from before the
  stop, records a crash after the stop has completed, and the timer starts the
  server. `CrashLoopBounded`, which holds, says how often that can happen.
* *Re-provisioning ... is invisibly correct rather than a dead server*
  (server-service.ts:347). The rebuilt container is never started.
* *The panel owns crash handling, so crashes are visible* (SECURITY.md:88). A
  poll of the page writes `CRASHED` first; the loop then expects nothing of the
  server and skips it.
* *Lift suspensions that were applied purely for a transfer quota once a new
  accounting month has begun* (scheduler.ts:159). Ten seconds into the month a
  running server has usage again, and the reset, which comes by the hour, lets
  only servers without usage go.

Other disagreements between the code and what it says of itself were met while
modelling; they are listed in `PROJECT.json` without a run. Where a module states
the sentence as a definition that no run checks, it is there to be checked by
hand: `KeepsPorts` and `ElbowRoom` (`PortAllocator`), `HardExpiry` (`Sessions`),
`SubAdminOnboards` (`Staff`), `ReleaseCloses` and `AddressFits` (`Forwarding`),
`TiesNeverCome` (`Mods`), `RolledOnce` (`Metering`), `NeverOversold` (`Nodes`),
`FileFollows` (`Settings`), `SwitchedOffStays` (`Definitions`),
`SwitchedOffAtLimit` (`Notifications`), `VerifiableForward` (`AuditLog`). The
others are about wording or a single line and need no model.

Observed as well, without a sentence that says otherwise: a timer may restart a
server after the notice that it will stay offline (supervisor.ts:292);
`syncServerState` overwrites a transition another handler is in
(server-service.ts:797); two power actions admitted in one state both go on (545);
two reallocations of one server each link a block (399); a server on its title's
first block is moved off it (412); the reply of a routine rotation that arrives
after that of a step-up or password change puts a dead token in the browser
(session.ts:244); a session is revoked as idle on a row read before another
request touched it (session.ts:137); a change of a member's overrides is checked
against the role the row had when it was read (servers.ts:471), and is written
under whatever role it has by then.

## 4. The proofs

Every theorem holds for all values of the constants that satisfy the named
assumption of the module that declares them (`ConstantsAssumption`,
`PortsAssumption` and `SpanAssumption`, `RelayAssumption`, `SessionAssumption`,
`DefinitionsAssumption`, `AuditAssumption`, `NotificationsAssumption`,
`MeteringAssumption`, `NodesAssumption`, `NatAssumption` and
`ForwardingAssumption`, `RelayClientAssumption`, `ConsoleAssumption`,
`ModsAssumption`, `FilesAssumption`, `RconAssumption`, `SignInAssumption`,
`RegistrationAssumption`, `RateLimitAssumption`, `AuthorityAssumption`,
`AssistantAssumption`, `UsernamesAssumption`). They say the types of the constants,
that sets of concurrent actors are finite where they are counted, that the span of a
title is beyond its offsets, as `allocatePorts` computes it, that the documents
compiled into a release are accepted by it, that separators are no letters, and that
a character is folded to a letter. TLC evaluates each of them.

Every safety property of a passing run is stated by a theorem. The form is the
same throughout: an inductive invariant, one step (or one lemma) for each action
under which it is kept, and a last step of temporal logic. What follows names, for each module,
the parts of the invariant the property does not state itself and without which
it is not inductive.

**ServerLifecycleProofs.** `ShapeCorrect` proves `TypeOK` together with
`StepsMatchOps`: the tables of transitional and settled states are consulted only
for requests that have an entry, without which a `setState` would write nothing
that is a state. `CrashLoopIsBounded` needs a ledger: `SnapshotCurrent` (while
the loop visits the server its copy of `crashCount` is not behind the row's) and
`Accounted` (restarts made plus restarts due are at most the recorded crashes,
capped by the limit, plus what was due when the owner's start ended). Every
recorded crash pays for the restart it schedules; `SupRecordCrash` is the only
step that spends, and `ResetCrashCount` the only one that opens a new ledger.
`DeleteRemovesContainer` rests on `PurgedIsGone`: from the moment the container
has been removed, before the row says so, no call can bring one back, because
start, stop, kill and restart of a missing container do not create one.

**PortAllocatorProofs.** `PortsAreDisjoint` rests on `LockHeld` (who is between
reading and claiming has the lock) and `SeenAll` (what it has read covers all
that is taken *now*: others may have released or linked rows meanwhile, but not
claimed any), with `FreeBlockFacts` about the scan: a block lies in the window
that was found free. `BlocksAreKept` is about all of a request: `Keeping` says
where a request can be for its kind (`OpsSound`); that a claim is one request's
and its rows one server's (`ClaimsSound`), and none that a reallocation found on
its server is still in another's hands (`OldSound`); that a row without a server
has a holder or lost it when a request failed (`HeldOrAbandoned`); and, for a
server that no two requests have met on, how far the one request is and what the
server has by then (`ServersSound`).

**RelayDaemonProofs.** The two indexes are proved inductive together with the
phases; `LiveTunnelIsKept` is an action property and follows from
`TunnelIndexExact`, `ClientTablesCorrect` from the fact that ids are below
`nextId`.

**SessionsProofs.** The update of a routine rotation compares `rotatedAt`, not
the token. The invariant (`IInv`) shows that this is enough: `SnapshotOf` says
that the row a request has read is a past state of the row, so that an equal
`rotatedAt` means an equal token, because a rotation is due only when the row was
last rotated longer ago than any query and the stamp of another rotation together
can make up for (`2 * Slow <= RotateAfter`, with `StampIsTime` for what a stamp is).
`OldTokensStayDeadAlways` and `RotationsSpacedAlways` follow: a rotation that
began before a privilege change cannot win after it. `RotationKeepsBrowserAlways`
adds `OwnCookies` and `RowCookies` (`CInv`): a session has one browser; at most one
reply on its way there brings a token, which is the current one and which no
request holds yet; so no second rotation can be won before it arrives, and
replies to one browser cannot overtake each other. `CsrfFollowsTokenAlways` needs that a row read by
way of grace has the presented token as its previous one. `TypeCorrect` includes
`WellFormed`, what each stage of a request has to have; `ElevationIsShortAlways`
bounds what `HardExpiry` does not. `OvertakenRequestSurvivesAlways` follows a
request from the moment it is sent (`Overtaken`): its token stays the current one
or, after one rotation, the previous one, which is honoured as long as the
request is younger than the grace window less the time by which the rotation's
stamp may precede its write, because a second rotation would have to be due first.

**DefinitionsProofs.** `BlocksApart` is the arithmetic of the registry: ports
within a stride and apart from each other stay apart on any two servers of the
game, for every document and every number of servers. `RowsAlwaysFit` says that
stored rows are about their own slug, which overlapping switches preserve because
the slug of a call does not change between its statements. `CatalogueAlwaysSound`
follows from both: a row of a title shadows it only while it validates.

**RecordsProofs.** `ChainAlwaysSound`: `WriterHasLock` (who has read the last
hash holds the advisory lock), `ReadIsNewest` (what it has read is the hash of
the last entry until it commits, although retention deletes meanwhile), `Chained`,
and `AgeFollowsId`, because retention deletes by age and the chain is by id: only
together do they say that what is deleted is a beginning of the chain.
`DeadAlwaysSwitchedOff`: every action moves one delivery at most
(`DeliveryMoves`), and the statement that would switch a destination off is owed
as long as the count has reached the limit. `SettingsAlwaysSound`: who is between
validation and write holds a valid configuration (`ValidatedIsConsistent`),
who is between row and file holds the row it wrote until somebody else writes
(`RowIsWriters`), and while the file is written by one alone it is empty until it
is valid (`FileIsAlones`). `MetersAlwaysSound`: what is about to be pruned has been rolled
(`CutIsRolled`). `NodesAlwaysSound`: with nobody overlapping, one request takes of
the node at a time (`OneTakes`) and the room it was promised is still there
(`RoomHeld`). The sum over a finite set of servers is a recursive function on
subsets; that adding a server adds its size, and that a smaller set has no larger
sum, is proved by taking a smallest counterexample.

**OperationsProofs.** `PlayersAlwaysBounded`: a socket belongs to a tunnel that
is kept or about to be. `FilesAlwaysWhole`: names are of files in folders that
exist (`NamesSound`); whoever writes has the file it opened (`WritersSound`), and
every part file has a writer or is one a failure left (`PartsHaveWriters`), so long
as nothing was moved from under a writer and the panel did not stop. `ConsoleShowsLog` is the
refinement: every step of `Console` is a step of `ConsoleLog` or leaves its view
alone. Its invariant `CInv` says that the buffer is the last lines of the present
run (`BufferSound`), and that what is on its way to the page fits what the page
shows: it goes on after the last line shown, or begins with a hello that ends no
earlier (`GoesOn`, `Begins`), line by line up to the log itself for a socket that
subscribes (`Reaches`). `CommandAlwaysWhole`: nothing of an answer is under way
before the game has answered (`Unanswered`), and then every packet is a part of
that one answer and the client keeps each part once (`Answering`); with as many
parts as the total and none twice, counting them shows that none is missing.
`RowsAlwaysAgree`: every row agrees with the router's table (`Agrees`), except
those the one request under way is about to write (`ToWrite`), for which its
outcomes say what the router has just granted (`Told`); a sweep leaves no row
behind it that runs out before the clock moves (`Fresh`). `RelayAlwaysHides`:
whoever asked for the relay has had nothing but the relay's answers (`OnlyRelay`),
for every network `NatTraversal` can describe. `ModsAlwaysSound`: a list about to
be written has orders 0..n-1 (`PlannedTight`), and of the transactions that do not
overlap one at a time deletes, all there is (`DeletesAll`); sorting by order and
filtering are reorderings that lose and repeat nothing (`SortedIs`, `AmongIs`).

**AccessProofs.** `WindowAlwaysBounded`: who was let through was counted first
(`CountedFirst`), and an answer, cached or on its way, is of the row's window and not
ahead of the row, unless a reset removed that row meanwhile (`AnswersFollow`).
`AlwaysDelegated`: what a request in flight holds was released
(`HeldWasReleased`), by which what it hands on was. `ApprovalAlwaysHolds`: an
action that has been approved and not run yet is one its approver may run
(`ApprovedMayRun`). `SignInAlwaysCounts`: wrong answers counted plus handlers that
may still count one are bounded (`ReadersCounted`); one handler at most is between
consuming a challenge and letting the sign-in through (`OneThrough`). For
`LockAlwaysHolds`, who was locked out is never behind the lock (`BarredStays`).
`RegistrationAlwaysSafe`: every flow that may end in an account, and every token
it may hold, began behind the gates and with a screened name (`GrantsScreened`);
what opened a gate stays done (`GatesStand`). `DisguiseAlwaysRefused`: the name and
its disguise spell one word in which no letter follows itself (`Disguised`,
`Spells`), which each way of disguising preserves; a word is spelt by a name in one
way only (`SpellsOnce`), and screening compares it; a fragment without doubled
letters that is part of the normal form is part of that word (`FoundCollapsed`).
That names with one canonical form have one normal form (`CanonicalDecides`) gives
the rest. What is kept of a word is a recursive function (`Keep`), and how many of
the first characters are kept is a count (`Counting`) that goes up by one at most:
the inductions over words are about such counts.

**What is only model-checked.** The liveness properties `ViewConverges`,
`CrashIsRestarted`, `InstallSettles` and `IdleReclaimed`: fairness and `ENABLED`
are out of the prover's reach. The prover cannot instantiate the library's
induction theorems, whose parameter is an operator, and knows nothing of
`SelectSeq` and `SortSeq`, nor of any `RECURSIVE` operator. That is why the helpers
above are recursive functions: an induction over one concrete statement can then be
made by hand, from the smallest counterexample, as for sums, sorted lists, filters
and words. The properties that a run expects to be violated have no theorem.

## 5. The plan

Done: the modules above, and a theorem for every safety property. Next:

1. What the theorems state, for less than they assume: `HeldOrAbandoned` as a
   property of its own (what a request that failed leaves behind), and the
   coverage of both statements of the roll-up.

Left to model: attach, reattach and flush of the supervisor's log stream;
archives and listings of files; the telemetry report.

## 6. What is not modelled, and why

Functions on bytes (cryptography, TOTP, CSRF tokens, address filters), tables and
ranges of single fields in the shared schemas, the text of the configuration
files, start-up and the deployment files keep no state that two actors share. The
packets of NAT-PMP, PCP and UPnP, of A2S beyond its header, and of RCON beyond
numbers and parts are reduced to what an exchange may return. The pages other than
the console and the settings page poll and submit. Reads that change nothing
(lists, metrics, exports, public pages) are left out where no property needs them.
Their rows in `PROJECT.json` say so.
