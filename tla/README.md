# A TLA+ verification of centralisd

centralisd manages virtual machines and containers on many hosts with three roles of
one binary. This directory holds TLA+ models of its core, the TLC runs that check
them, and TLAPS proofs of their central properties. Paths below are those of the
repository (`src/...` is its Go code).

## 1. The system

```
 browser --HTTP--> orchestrator <--TCP, JSON lines-- master <--TCP, JSON lines-- slave --> libvirt, docker
```

| Part | State it keeps | Operations | What makes it hard |
|---|---|---|---|
| Slave (`src/slave/slave.go`, `handlers/`) | one connection, one goroutine | dial, handshake, read and handle one packet at a time | a command delays the heartbeat; `Connect` returns but the process goes on |
| Slave sessions of the master (`src/master/server.go`, `nodes.go`) | `nodes` (id to connection), one handler and one reader per connection | handshake, register, heartbeat every 10 s, unregister | sessions of one slave overlap; the only failure detector is the heartbeat |
| Request tables (`nodeConn` in `nodes.go`, `masterConn` in `orchestrator/tcp/server.go`) | `pend`: packet id to reply channel | `sendRequest`, `resolveReply` | a timer racing a reply; late, repeated and missing replies; a reader shared by all callers |
| Orchestrator client of the master (`orchestrator_client.go`) | one session: `connectLoop` and the reader `readOrchestratorLoop` | register, heartbeat, run commands one by one, ask all slaves in turn, reconnect | two goroutines on an unbuffered channel; uncorrelated answers; everything waits behind the command that is being run; a reader outlives its session |
| Orchestrator TCP server (`orchestrator/tcp/server.go`) | `masterConns`, one handler per master | handshake, updates, `sendCommandWait`, choice of the master for a node | replies that come after their caller has gone; handlers that notice the end of a session late |
| Cluster registry (`orchestrator/registry/`) | `mastersByID` with a time to live; table of allowed clusters in a database | `UpsertMaster`, the queries of the pages | stale entries, configuration changes over restarts |
| Virtual machines (`handlers/libvirt.go`, `slave/libvirt/`) | libvirt's domains and volumes | create, start, shutdown, reboot, destroy, delete, autostart, ISO | several calls per command, any of which may fail; crashes in between |
| Containers (`handlers/docker.go`) | docker's containers and images | create, start, stop, restart, remove, pull, remove an image | the same; the pages act on ids from lists that are out of date |
| Web (`orchestrator/web/main.go`) | none but a shared variable `err` | pages and forms | requests run concurrently; timeouts differ from those of the links |

The parts interact by packets only, except that the sessions of a master's slaves feed
`listConnectedNodeIDs`, which every update to the orchestrator carries, and that the
goroutine which reads the orchestrator's packets is also the one that calls the slaves.

What each part owes:

- the tables: a caller gets its own reply or an error, always returns, leaves nothing
  behind, and no reply blocks the reader;
- a slave session: the registry lists exactly the slaves that are served, both ends stay
  in step, a dead session is forgotten, a healthy slave is never dropped;
- an orchestrator session: every update is answered by its own answer, the session is not
  given up while both ends are there, no goroutine outlives it, both ends forget it;
- the registry: commands go to masters the whitelist admits, pages show no cluster that
  is not known and no slave that has left;
- virtual machines: no disk is shared or lost, whatever stops half way;
- containers: a create that succeeded did all it was asked;
- the sessions of the masters over time: a master in session can be reached, and the store
  comes to agree with the masters once faults stop;
- the whole path of a command: it runs at most once, and a page can rely on a reply and on
  a refusal.

## 2. Modules

| Module | Models | Notes |
|---|---|---|
| `RequestReply` | what `sendRequest` promises | abstract, no table |
| `RequestTable` | `sendRequest`, `resolveReply`, the reading goroutine | `DropOnWriteError` chooses `nodeConn` or `masterConn`; refines `RequestReply` |
| `HeartbeatTiming` | the clock of one session: heartbeat loop, command goroutine, slave loop | one tick is one second |
| `HeartbeatProofs` | proofs | |
| `NodeSession` | handshake, registry, heartbeats, processes and their restarts, no clock | a heartbeat may time out whenever it is awaited |
| `NodeProofs` | proofs | |
| `OrchSession` | one authenticated master-orchestrator session | `auth.ok` and `error` carry no `reply_to`; the model tags them with what they answer, for the property only |
| `ClusterStore`, `MCClusterStore` | store, allowed clusters, whitelist, updates | |
| `OrchestratorProofs` | proofs of `RequestTable` and `ClusterStore` | extends both, hence names such as `StoreSpec` |
| `VMLifecycle` | the libvirt commands as sequences of calls | a handler is the list of the calls still to make |
| `VMProofs` | proofs | |
| `MasterSessions` | reconnect loop, handlers, `masterConns`, store entries, `SendClusterCommandWait` | what goes on inside a session is `OrchSession`'s |
| `MasterProofs` | proofs | |
| `CommandPromise` | what a page that sends a command may rely on | abstract: an outcome per command and the order of effects |
| `CommandPath` | a command over both links, over successive sessions of each | composes the tables and sessions of both links; refines `CommandPromise` |
| `CommandPathProofs` | proofs | |
| `BusyMaster`, `MCBusyMaster` | the clock of a master's session: commands in a row, `handleMasterCommand`, page timers, ticker, age of the store's entry | one tick is two seconds in the run; the constant `Load` is the number of visits of a set of pages |
| `SessionProofs` | proofs of `BusyMaster` and `OrchSession` | extends both, hence names such as `ClockSpec` |
| `DockerLifecycle` | the docker commands as calls of the daemon | a call that fails, or is under way when the slave dies, may have had its effect (`Unheard`) |
| `DockerProofs` | proofs | |

Definitions named in a comment `Mutation of X` are not part of a specification: each is
`X` with a plausible bug, and shows that some property notices it.

How state and code correspond:

- `RequestTable`: `pend` is the map, `chan[r]` the reply channel of capacity one, `pc[r]`
  the position of a call: registered (entry made, packet not written), waiting (in the
  `select`), expired (the timer won, the lock not yet taken), returned. `Resolve` is the
  critical section of `resolveReply` and `Deliver` the send after it.
- `HeartbeatTiming`: `hbLeft`, `cmdLeft` and `jobLeft` are the remaining times of
  `time.After`, `time.Sleep` and of the slave's handler; a timer that is due and a reply
  that is due may win in either order, as in a `select`. `slowest` is fixed at the start:
  how long the slowest command of this slave takes.
- `NodeSession`: `handler[c]` is the position of `handleConnection`, `nodes` the registry,
  `proc[s]` the process of a slave. `os.Exit` leads to `down`, from which systemd dials
  again; a `return` from `Connect` leads to `zombie`, because `main` sleeps on.
  `overlap[c]` is a history variable: the slave dialled `c` while an earlier handler of it
  still ran. `ConnectedNodeIsRegistered` is about the sessions that did not overlap.
- `OrchSession`: `main` and `reader` are the two goroutines; `TakeAnswer` is the
  rendezvous on `respCh`; `readErr` is the buffered `readErrCh`.
- `ClusterStore`: `store[m].age` is the time since `LastSeen`, capped at `TTL + 1`;
  `update[m]` is the register or heartbeat packet between `buildMasterInfo` and
  `UpsertMaster`; `links[m]` is what `listConnectedNodeIDs` would return. A database that
  fails is a choice of the query (`dbOk`), of `RejectUpdate` and of the seeding.
- `VMLifecycle`: `domains`, `volumes` are libvirt's; `job.todo` the calls left. Any call
  may fail. The errors of three of them are dropped by the handlers (`IsActive`,
  `GetXMLDesc`, `LookupStorageVolByPath`); `ignored` is a history variable that remembers
  which of these have misled a handler, and each property says which of them it survives.
  `RunningIsKept` is about the calls of a delete, the steps that change `job`: a guest that
  stops or a host that reboots may change a running machine meanwhile, the delete may not.
- `MasterSessions`: `client[m]` is the position of `ConnectToOrchestrator` and
  `connectLoop`, `handler[c]` that of `handleConn`, with the deferred
  `unregisterMasterConn` and `conn.Close` as steps of their own; `conns` is `masterConns`;
  `entry[m]` the nodes of `mastersByID[m]`, `None` once the ttl is over. A page takes two
  steps: it copies the store and picks a master, then looks the master's connection up.
  `overlap` and `sole` are history variables.
- `CommandPath`: the sessions of a link are numbered. `live` and `alive` are the sessions
  that carry packets, `heard` and `listening` those whose handler has not noticed the end.
  `via[r]` and `on[c]` are connections looked up under a lock and used after it. Each upper
  session has its own reader, which may outlive it. Outcomes: `refused` is every error
  that comes before a command was written ("master not connected", "node not connected",
  a failed write), `unknown` every timeout.
- `BusyMaster`: `queue` is what the orchestrator has sent and the master has not read;
  `job`, `visits`, `visit` are the reader's command, the slaves it has still to ask and the
  time until the current one answers; `wanted` turns false when the page gives up; `loop` is
  `connectLoop` and `TakeResult` its receive from `respCh`.
- `DockerLifecycle`: `containers` and `images` are the daemon's; `job.call` the call the
  handler is at; `told[i]` (history) what the page that created `i` was answered.

## 3. Runs

| Run | Checks | Shows |
|---|---|---|
| `nodeconn` | `TypeOK`, `ReaderNeverBlocks`, `PendingHasWaiter`, `EveryCallReturns`, `ImplementsPromise` | the table of `nodeConn` with two concurrent calls, up to two answers per id, unsolicited packets and a breaking connection |
| `heartbeat` | `TypeOK`, `HealthySlaveIsServed`, `CallersMatchPackets` | the code's timers; the slowest command takes from one second to longer than every timer. While commands fit nothing times out; when they do not, no request is lost or doubled |
| `nodesession` | `TypeOK`, `RegistryHoldsLiveSessions`, `PacketsInOrder`, `ConnectedNodeIsRegistered`, `DeadSessionIsForgotten` | three slaves, one not allowed and one whose keys do not match; crashes, cuts, master restarts, overlapping sessions of a slave |
| `orchsession` | `TypeOK`, `AnswersInStep`, `SessionEndsForCause`, `ReaderEndsWithSession`, `UpdateIsAnswered`, `OrchForgetsSession` | two commands whose callers may give up; `AnswersInStep` and `ReaderEndsWithSession` are about sessions in which none has (`late_reply` shows why), `SessionEndsForCause` says more of those, the last two are about all |
| `clusterstore` | `StoreTypeOK`, `RoutedMasterIsAuthorised`, `OnlineClusterIsKnown`, `GhostNodeDisappears` | two masters, one that moves between two clusters, four whitelists |
| `vmlifecycle` | `TypeOK`, `MachineOwnsDisk`, `MediaInStep`, `RemovedMeansRemoved`, `RunningIsKept` | two machines, two disks; failures, dropped errors, crashes and reboots between any two calls |
| `mastersessions` | `TypeOK`, `TableHoldsOpenSessions`, `ConnectedMasterIsReachable`, `SoleOwnerIsReached`, `StoreConverges` | two masters of one cluster, a slave that moves between them, cuts, rejected updates, restarts of every process with another whitelist |
| `commandpath` | `TypeOK`, `SessionOrder`, `KeepsPromise` | two commands, two sessions on each link, every timeout and crash; the path implements `CommandPromise` |
| `busymaster` | `PagesAnsweredInTime`, `BusyMasterStaysOnline`, `WaitersMatchPackets` | every pair of the pages (all machines of two slaves; one slave; another slave) and slaves of every speed |
| `docker` | `OkMeansStarted` | two containers that may want the same name, one image; every call may fail with or without its effect, and daemon and slave may die at any point |

Runs that are meant to find a violation, each a disagreement between the code and what
the repository says of it:

| Run | Property | What happens |
|---|---|---|
| `lost_slave` | `LostSlaveIsRestarted` | after a read error `Connect` returns and the process stays; `Restart=always` (`README.md:23`) has nothing to restart |
| `late_reply` | `AnswerIsItsOwn` | a reply whose caller timed out is answered with an error, which `connectLoop` takes for the answer to its heartbeat (`docs/Protocol.md:9`); the session ends although nothing is wrong with it |

### Known limits of the code

The passing properties have premises that the code makes necessary. Without them TLC finds:

- `HealthySlaveIsServed` without `Fits`: a command of 2 s or more ahead of a heartbeat, which
  itself takes 3 s of its 5 s, makes the master drop a slave that answers everything; with
  `lost_slave` this ends the slave for good.
- `ConnectedNodeIsRegistered` without `~overlap`: the handler of an old session ends after
  the slave has reconnected and `unregisterNode` deletes the new entry: "node not connected"
  for a connected node.
- `ConnectedMasterIsReachable` without `~overlap`: `unregisterMasterConn` does the same to a
  master. It stays in the store, its heartbeats are answered, and every command for its
  slaves is refused until its next session.
- `ReaderEndsWithSession` without `timeouts = 0`: the error for a late reply is read when
  `connectLoop` has returned, and the reader stays blocked on `respCh` for good.
- `PendingHasWaiter` without its exemption of `masterConn`: an entry whose write failed stays
  in `pend` until the connection is gone.
- `SoleOwnerIsReached` without the sole owner: a slave that has moved is listed by two masters
  until the next heartbeat of the old one, and `SendClusterCommandWait` tries only the first.
- `SessionOrder` without `via[a] = via[b]`: the reader of an old session may still write the
  command it has read after the reader of the new session has written a later one.
- `MachineOwnsDisk`, `MediaInStep` and `RunningIsKept` without the premise on `ignored`: when
  `IsActive` fails its error is dropped and a running machine is taken for stopped; a delete
  without `force_stop` then undefines it and may remove its disk, which the next create may
  take. `RemovedMeansRemoved` likewise for `GetXMLDesc` and `LookupStorageVolByPath`.
- `PagesAnsweredInTime` without `Fits`: two pages of slow slaves wait for each other; one
  gives up, and the error that answers its late reply ends the master's session.
- A cluster that leaves the whitelist keeps its row (`EnsureSeed` only adds), so that it
  stays allowed; the whitelist itself still keeps its masters out
  (`RoutedMasterIsAuthorised`).

### Bounds

- `Requests`, `Calls`: two. The calls of a table only meet in `pend` and in the reader,
  and every property speaks of one call or of one call and the reader; the proofs cover
  any number.
- `MaxReplies = 2`, `MaxInbox = 2`: a repeated answer, and one packet behind another.
- `HeartbeatTiming` uses the code's own seconds; `MaxCommandTime = 11` is above every
  timer; `MaxQueue = 4` is one more than the
  packets of both callers and an abandoned one.
- `Conns = 2`: the old and the new session of one slave, or one of each of two. Three
  would add a third generation of sessions, which meets the registry as the second does.
- `Slaves = 3`: an admitted one, one that is not allowed, one whose proof is wrong.
- `MaxTimeouts = 2`: both callers give up.
- `DropOnWriteError = TRUE` in `nodeconn`; the proofs cover the variant of `masterConn`,
  where the entry of a failed write is the only leak.
- `TTL = 1`: an entry is fresh, at its limit, or expired.
- `MCConfigs`: no whitelist, one cluster, both clusters with the masters swapped, and a
  cluster without masters, which `whitelistClusterMasters` drops but `EnsureSeed` keeps.
- `Vms`, `Disks`: two, so that one machine may be created on the other's disk.
- `MasterSessions`: `Conns = 3`, two overlapping sessions of one master and one of the
  other; `MaxFaults = 2`, which is what a moved slave behind a cut session, or a rejected
  update after a restart, takes. `Conns` are used again, so the number of sessions is not
  bounded by them.
- `CommandPath`: two commands, one of which may be the retry of the other, and two sessions
  on each link: the old and the new one. `CHECK_DEADLOCK FALSE`, because the sessions and
  commands run out.
- `BusyMaster`: the code's timers in ticks of two seconds. `Ttl = 8` (16 s) is the smallest
  one for which the busiest pair of pages that `Fits` admits keeps the master online, so that
  `BusyMasterStaysOnline` is tight; the default of 60 s is far from it. `MaxOpen = 2` pages,
  `MaxQueue = 3` packets before new requests wait; the proofs cover any number of pages, any
  bounds and any timers. `CHECK_DEADLOCK FALSE`, because the model ends with the session.
- `DockerLifecycle`: two ids, so that a create meets a name that is in use or was freed; the
  proofs cover any number.

`CHECK_DEADLOCK FALSE` is set for the tables and for `OrchSession`: their calls, and the
session, are over at some point.

### Fairness

- `RequestTable`: a caller's own steps only (a write returns, a timer fires). Nothing is
  asked of the reader, the peer or the network, so `EveryCallReturns` rests on the timer.
- `NodeSession`: goroutines run, timers fire, a dropped connection is noticed by its
  readers in the end (TCP keepalive is on by default in Go), systemd restarts what exits.
- `OrchSession`: the goroutines of both ends. That `sendCommandToNodeWait` returns is
  `EveryCallReturns`.
- `ClusterStore`: the clock, the ticker of a live session and the handling of its update.
- `MasterSessions`: every goroutine of masters and handlers runs on, both ends notice a
  dropped connection in the end, the backoff ends, and the ttl of a master without a handler
  runs out. Faults (cuts, restarts, rejected updates, moves of slaves, a master too busy for
  its ttl) are bounded and never fair, so that `StoreConverges` says what happens after the
  last one.
- No fairness makes anything crash, break or time out in a live session.

## 4. Proofs

All proofs are checked by TLAPS with no assumption but the named `ASSUME`s of the modules.

**`OrchestratorProofs`**, the tables: `ReaderNeverBlocks`, `PendingHasWaiter`, and the refinement of
`RequestReply`, for any set of calls, any bounds and both variants. None is inductive
alone. The invariant adds: the id the reader is about to send to has left the table and
its channel is empty (`SendingInv`), an id in the table has an empty channel (`TableInv`),
a channel holds a reply to its own id that the peer did send (`ChannelInv`), and a packet
under way answers an id that reached the peer (`InboxInv`). The refinement maps `pc` and
`result` to `outcome`; `Register` is `Call`, `Receive` is `ReturnReply`, `Forget` and
`WriteError` are `ReturnError`, `PeerAnswers` is `Answer`, the rest stutters.

**`HeartbeatProofs`**: if `SampleTime + slowest` is less than both timeouts
(`Fits`), no heartbeat and no command ever times out, for all values of the timers. The
invariant bounds the work ahead of a waiting caller: the queue holds at most one packet
of each kind, and what is left of the current handler plus what is queued before a
request is below the time left on its timer. The premise that commands come from one
goroutine, and so one at a time, is the reason why the bound is a sum of two terms; it
holds while a master has one orchestrator session at a time. `Fits` is not a technicality:
the code's own values allow commands of one second only.

**`OrchestratorProofs`**, the store: `RoutedMasterIsAuthorised` and `OnlineClusterIsKnown` for any
clusters, masters, whitelists and time to live. The invariant adds that every session was
admitted by the whitelist in force and that an update under way belongs to a session:
`UpsertMaster` writes the cluster of the session, and a change of the whitelist comes with
a restart that empties the store.

**`DockerProofs`**: `OkMeansStarted` for any containers, names and images. It is not
inductive alone: the invariant adds the typing, that a command is about a container only in
a call that acts on it and after that container was made (`JobInv`), and that nothing is
known of an id that was not given (`FreshInv`). All changes of a container (calls, calls cut
off, exits, restarts of the daemon) are shown to be instances of one relation, `Follows`:
what is left keeps what its create asked for and never becomes unstarted again. A create
that took effect while its answer was lost makes a container of which no page was told.

**`CommandPathProofs`**: `CommandPath` implements `CommandPromise`, and `SessionOrder`, for
any commands and any number of sessions on either link. The invariant is about where a
command is. Before its page writes it, it is nowhere; then it is in one place at most: the
connection to the master, the hands of a reader, the connection to the slave, or among the
commands that were run (`OnceInv`). It stays in the session it was written in, even when the
reader has outlived that session (`SessionInv`), and only the connection that the slave's
process reads carries anything to it (`SlaveInv`). A reply under way is of a command that was
run, and a refusal under way is of one that is in no place and so never will be (`ReplyInv`):
this is why a page may rely on a refusal. `OrderInv` says of two commands of one session that
the later one is never ahead of the earlier one in any place. The refinement maps `routed` and
`waiting` to `pending`; the slave's step is `TakeEffect`, the steps that end a page are
`Reply`, `Refuse` or `GiveUp`, everything on the way stutters.

**`NodeProofs`**: `RegistryHoldsLiveSessions`, `PacketsInOrder` and
`ConnectedNodeIsRegistered`, for any slaves, connections, whitelist and keys. `PacketsInOrder`
speaks of the first packet only. The invariant says what a whole queue may hold, given the
state of its reader (`SlaveQueue`, `MasterQueue`), and which states the two ends of a
connection that was not cut may be in at once (`InStep`): after a handshake that succeeded,
for instance, the slave still has `auth.ok` ahead of any heartbeat. For the registry it adds
that a handler past the proof is of a slave that is allowed and has proved its key (`Known`),
that an entry leads to a handler that has registered for that slave (`RegInv`), and that no
other handler has to do with the slave of a session that did not overlap (`Alone`), so that
nobody else can delete its entry (`Entered`). `PacketAssumption` says that the ids of slaves
are no packet types: in the model a slave's hello is its id.

**`MasterProofs`**: `TableHoldsOpenSessions`, `ConnectedMasterIsReachable` and
`SoleOwnerIsReached`, for any masters, connections, pages and number of faults. A master dials
only when it holds no connection (`ClientInv`), so a handler whose session did not overlap
stays the only one of its master for as long as the master holds the connection, and no
`unregisterMasterConn` but its own touches the entry (`LoneInv`). A page that was routed
because one master alone listed its node carries that master (`PageInv`), so its look-up
finds the connection even if the store has changed since.

**`VMProofs`**: `MachineOwnsDisk`, `MediaInStep`, `RemovedMeansRemoved` and `RunningIsKept`,
for any machines and disks. A handler acts on what it saw calls ago. The invariant fixes which
calls may follow which (`TodoInv`), what a delete that has looked carries with it
(`DeleteInv`), and what is still true of it at its next call, as long as no error of
`IsActive` was dropped (`SeenInv`): a create that is about to define has a volume that nobody
owns, a delete that is about to undefine has a machine that does not run and whose disk is
the one it saw, one that is about to remove has a disk that no machine owns. The slave's
one-at-a-time loop is what makes this inductive: between two calls of a handler only guests,
libvirtd and crashes act. `NoneAssumption` says that `None`, which stands for a missing
machine, disk or command, is none of them.

**`HeartbeatProofs`** also has `CallersMatchPackets`, with no premise on the times: what
`Copies` counts is replaced by "in the handler or at exactly one place of the queue" (`Once`)
and "nowhere", which appending, reading and giving up preserve.

**`SessionProofs`**, the clock: `WaitersMatchPackets`, `PagesAnsweredInTime` and
`BusyMasterStaysOnline` of `BusyMaster`, for any pages, slaves, timers and bounds. A packet has
a place: 0 is the reader's hands (`job`), `i` the `i`-th place of the queue.

- `PacketInv`, which needs no premise on the times, replaces the counts of `Copies`: the
  command of a waiting page is at exactly one place, that of any other page at none, and the
  answer to the heartbeat is at exactly one place while `connectLoop` awaits it and at none
  otherwise, until the session ends.
- `TimelyInv` adds the times. `Due(i)` is what the reader still has to do before it is done
  with place `i`: what remains of its job, and `slowest` for each slave to be asked by the
  commands at places 1 to `i`. Under `Fits` nobody has given up, the session has not ended,
  and for a waiting page `p` at place `i` the timer has room:
  `PageTimeout[p] + Due(i) <= Work + left[p]`. A tick takes at
  least as much from the left as from the right. A page that is opened adds its visits to
  `Work`; its command is behind all others, whose `Due` is as before, and all of them are
  commands of opened pages, so its own `Due` is at most the new `Work`.
- `OnlineInv` says the same of the store's entry: its age and what is due before the
  heartbeat's answer is taken together stay within the work, and between heartbeats its age
  and what is left of the ticker stay within the interval.

A bound on a sum over a queue calls for an induction that the prover cannot do. `BusyMaster`
therefore takes the number of visits of a set of pages as the constant `Load`, with what the
proof needs of a sum as its assumption (`LoadAssumption`: one page has the load of its own
visits, and disjoint sets add up). This does not restrict the model: for a finite set of pages
the assumption determines `Load`, and `MCLoad` of the run is that sum.

**`SessionProofs`**, the session: `TypeOK`, `AnswersInStep` and `SessionEndsForCause` of
`OrchSession`, for any commands and any number of timeouts. The invariant says that each
command is in one place at most (on its way to the master, in the reader's hands, on its way
back) and that, while nobody has given up, the caller of a command that is in some place
waits for it (`CallInv`); so no reply is late and the orchestrator sends no error that
nobody asked for. What is left are the update, its answer, and the answer the reader offers:
at most one of them exists, and only while `connectLoop` awaits it (`UpdateInv`). For
`SessionEndsForCause` two more facts are needed: while the connection holds and
`connectLoop` has not left, `handleConn` is open, the reader has not ended and `readErrCh`
is empty (`HoldsInv`), so that neither a failed write nor a read error can be what ends the
session; and until a caller gives up no error for a reply is under way or offered
(`LateInv`). `PacketAssumption` says that the ids of commands are no packet types.

Nothing that is proved uses fairness.

Only model-checked: the liveness properties (`EveryCallReturns`, `DeadSessionIsForgotten`,
`ReaderEndsWithSession`, `UpdateIsAnswered`, `OrchForgetsSession`, `GhostNodeDisappears`,
`StoreConverges`), because fairness is out of the prover's reach. Every invariant, action
property and refinement that a passing run checks is proved.

## 5. What is left out

- JSON lines, base64, signatures: a proof is good or not (`GoodKeys`). Parsing and
  rendering, templates, static files, YAML.
- A peer of the master that connects and stays silent: `handleConnection` has no deadline
  before its heartbeat loop, so its goroutine would stay; the model's peers act or die.
- `allowednodes: []` and an empty `masterwhitelist` admit every node and every master; the
  models follow the code (`IsAllowed`, `Authorised`).
- The database fails as a whole for a query; a failing count followed by a working lookup
  (`allowed_clusters.go:58-67`) is not modelled.
- A libvirt call that returns an error after it has had its effect, or half of it, as an
  `UpdateDeviceFlags` of the running and the stored machine might.
- Two command goroutines at one slave: the reader of an ended orchestrator session may still
  send to a slave beside the new one (`orchestrator_client.go:150`). `CommandPath` has both,
  `HeartbeatTiming` has one.
- Guests that eject their media, administrators who use libvirt directly.
- The firewall, which is set up once per connection by system calls.
- The variable `err` that concurrent page handlers of `ServeWeb` share
  (`orchestrator/web/main.go:293`): a data race on a local variable that only the text of an
  error page depends on. Forms, rendering and templates.
- The scripts under `static/fa6`, the vendored Font Awesome library, which is by far the
  largest body of code in the repository and no part of this system's logic.
- The lists of containers, images, machines, pools and networks, which only read; the length
  of the reconnect backoff; `SendCommand` and `sendCommandToNode`, which nobody calls.
- Command replies in parts: a packet is written whole or not at all.

## 6. Plan

Done: all modules above, and proofs of every safety property of the passing runs, for the
tables, the timing of a slave's session, the slave sessions and their registry, the sessions of
the masters and their table, the inside and the clock of such a session, the store, the path of
a command, the virtual machines and the containers. Liveness stays with TLC.
