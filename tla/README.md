# ProxySwitch: specifications and proofs

ProxySwitch (C#, `src/src/ProxySwitch`) launches applications and watches their
processes; a patched ProxiFyre service (`src/ProxiFyre`, C# over a C++ packet
filter) sends the traffic of chosen processes through SOCKS5 proxies. ProxySwitch
tells the service over a named pipe which PIDs belong to which session.

## 1. Inventory

Paths are relative to `src/`. "Correct" says what the component has to get right.

| Part | State it keeps | Operations | Correct means |
|---|---|---|---|
| `SessionRouteServer` (`ProxiFyre/ProxiFyre/SessionRouteServer.cs`) | `_sessions` (endpoint, proxy handle, PIDs), `_cts` | accept and read a connection, `createSession`, `addPid`, `removePid`, `closeSession`, `Dispose` | no request is lost, a closed session leaves nothing, no handler acts behind `Dispose` |
| PID table (`netlib/src/proxy/socks_local_router.h`) | `pid_to_proxy_`, `proxy_servers_` | associate, remove, clear, sweep, look-up per packet | an entry counts for one process, not for a PID; indices are in range |
| Service life cycle (`Program.cs`) | `_proxyMap`, the router | `Start`, `Stop`, crash | nothing of one run is used in another |
| Pipe client (`ProxiFyreIpcClient.cs`) | none | one connection per request, time-outs | every call returns; the PID it names is the process that was meant |
| IPC tasks of `SessionManager` | tasks between awaits, a recovery gate per session | launch, add a detected PID, recover and replay, Route Child or Retry, close | what was granted stays in force until the session ends, and only until then |
| Session life cycle of `SessionManager` | `Status`, `Processes`, timers, monitors | exit callbacks, discovery, descendant monitor, correlated handoff, merge, grace window, Stop | the session ends when its processes have, and not before; it ends once |
| `ProcessMonitor` | `_tracked`: one callback per PID | `TrackPid`, `OnTick`, `TrackProcessTreeAsync` | every exit is reported once |
| Packet decision (`socks_local_router.h`, `process_lookup.h`) | connection tables, caches on the process object | look-up, exclusions, PID route, name rules, direct rules | caches never contradict the PID table |
| Packet filter pipeline (`netlib/src/ndisapi/queued_multi_interface_packet_filter.h`) | four queues of packet blocks, `filter_state_`, `packet_event_` | read, process, write up, write out; `start_filter`, `stop_filter` | no packet lost, doubled or overtaken, no block withheld, every thread ends |
| Resolve queue and router shutdown (`socks_local_router.h`) | bounded queue, resolver thread | defer, resolve, reinject, `start`, `stop` | nothing is stranded, the bound holds, `stop` ends |
| TCP redirection (`tcp_proxy_server.h`, `tcp_proxy_socket.h`, `tcp_local_redirect.h`) | `tcp_mapper_` and redirected connections by source port, events of pending connects, two rings per session | map, accept, connect, negotiate, relay, expire | a connection reaches the destination it was opened for; every byte once, in order; nothing stalls |
| UDP redirection (`socks5_local_udp_proxy_server.h`, `socks5_udp_local_redirect.h`) | `udp_mapper_`, endpoints, sessions, each with its own age | note, redirect, associate, reply, expire | a port in use is known to all three |
| Completion port (`io_completion_port.h`, `thread_pool.h`) | workers, handlers by key | associate, dispatch, unregister | a completion reaches its server, and none reaches a stopped one |
| Owner resolver (`owner_module_resolver.h`) | cache by PID, creation time and tag | resolve, evict | a name belongs to the process of its key |
| Adapters (`network_adapter.h`, `queued_multi_interface_packet_filter.h`, `update_network_configuration`) | list of adapters, their modes, filter state | adapter change, address change, start, stop | adapters are in tunnel mode exactly while they are filtered |
| Static filters, direct rules, checksums, packet pool, table of driver handles | lists and tables | add, match, rewrite, borrow, translate | the driver and the proxies see what was configured |
| Native log (`log.h`, `logger.h`, `Socksifier.cpp`) | stream buffer, stored lines | write, take, print | lines arrive whole and in order |
| `ProxiFyreBackend` | route configuration, stale flag | write, remove, roll back, restart the service | file and service agree, or the flag says they do not |
| Watchers (`ExternalProcessWatcher.cs`, `SessionSupervisor.cs`) | process snapshots | poll, report | a process is reported to the session it belongs to |
| Scoring, identity, launcher, UI, configuration, logging, native wrapper, driver libraries | none, or data only | | not candidates for a model, see section 7 |

How they interact. The UI thread runs dialogs and `ProcessMonitor.OnTick`, whose
exit callbacks are closures of `SessionManager`. Everything else of
`SessionManager` runs on pool threads: IPC tasks, descendant discovery (ten
seconds), the descendant monitor, the correlated handoff (three seconds), grace
timers, `StopSession` (`DashboardForm.cs:1028`), and merges that the two watchers
call. They share `LaunchSession` objects; `Status` is a plain field. IPC tasks
talk to the service by pipe, one connection per request. In the service every
accepted connection is a task, `_sessions` has a lock, the PID table has another,
packets are decided on the filter's process thread and maintenance runs on the
resolver's. The four threads of the filter hand blocks of packets round in a
circle (read, process, write to the stack, write to the adapter, read); the
process thread gives what it cannot decide to the resolver, as a copy in a bounded
queue.

Behaviours that are hard: test-then-assign on `Status` by four kinds of thread;
PIDs that the operating system reuses; tasks that interleave at every await with
the close of their session; a service that stops, crashes and comes back with
another configuration while requests are in flight; timers that outlive what they
were started for; recoveries that can fail at each of several requests; condition
variables that are notified without their mutex.
`PROJECT.json` lists the hazards at their lines with the properties aimed at them.

## 2. Modules

```
RoutePromise <--implements-- PidRoutes <--extends-- IpcRouting
                                 |                      |
                          PidRoutes_proofs <---- IpcRouting_proofs

SessionLifecycle <-- SessionLifecycle_proofs      PacketPipeline <-- PacketPipeline_proofs

MCDataPath: CompletionPort  TcpRelay                        <-- TcpConnections_proofs
            TcpProxyServer  PacketPool  StaticFilters
            HandleTable  DirectRules  Checksum              <-- ProxyServices_proofs
            UdpProxy  AdapterFilter  OwnerResolver  TcpRedirect
            Socks5Negotiation  LogDelivery  PacketDecision  <-- PacketPath_proofs
            all of them together                            <-- DataPath_proofs
```

**`PidRoutes`**: service, PID table, pipe and operating system, for arbitrary
clients. `sessions` is `_sessions`, `pidToProxy` is `pid_to_proxy_`, `proxyServers`
the endpoint behind each index of `proxy_servers_`, and `pipe[c]` where a
connection is: idle, sent (not yet accepted), accepted (past the cancellation
check), replied. `service` names the points between which `Dispose` can be
overtaken: running, cancelled (`_cts.Cancel`), unrouted (the loop over the
sessions' PIDs), cleared (`ClearPidRoutes`), down. Each of the four commands is
one action, since the handler holds `_sessionLock` throughout. `born[p]` is the
creation time of the process owning a PID; a time is drawn from a counter, so two
processes never share one. `granted` is a history variable: which living process
the current run of the service agreed to route where.

**`RoutePromise`**: the abstract specification. A route belongs to a process; it
is granted while the process lives, may be moved or withdrawn, and a new process
has none. `PidRoutes` implements it with `route <- Effective`, the endpoint that
a packet of the PID's present owner is sent to (table entry, creation-time check
and index, as `get_proxy_port_tcp` does).

**`IpcRouting`**: extends `PidRoutes` and replaces its arbitrary clients by
`SessionManager`'s tasks. `pc[c]` is the await a task is at; `Ask` sends a request
and the `...Answered` actions continue from its result. `EnterGate`,
`RecreateAnswered`, `ReplayAnswered`, `ReplayEnds` are
`RecreateIpcSessionAndReplayAsync`: the gate is the `SemaphoreSlim` of the session
and every path out releases it. `tracked` holds `session.Processes` with the
creation time and `ExitedAt`; `Track` keeps an existing entry for a PID, as the
code does. `orderly` is a history variable: the tasks of a session have not
overlapped and the service has answered all of their requests.

**`SessionLifecycle`**: one session. Status tests and the assignments behind them
are separate actions wherever the code has nothing that prevents another thread
in between: an exit callback is `CallbackBegins` (test), `CallbackMarks` (mark the
process and read `HasLiveProcesses`), then one of `CallbackHandsOver`,
`CallbackChecks`, `CallbackEnds`; the monitor's decision, the two tests of the
handoff, the two phases of a merge and the timer's test are split in the same way.
`kind` tells `LaunchGeneric`, `LaunchTarget` and `AttachExternalLaunch` apart,
which differ in the root's exit handler and in whether a descendant monitor is
started. `window` counts grace windows, `pending` holds those whose delay runs,
`expired` those whose timer has seen the session waiting and will finalise it.

**`PacketPipeline`**: the packet filter, the resolver, and `start` and `stop` of the
router. `queue[t]` is the queue worker `t` takes from, `held[t]` the block it has
taken, `content[b]` what is in a block: packets without a verdict and the two write
requests. Blocks and packets are numbers. `pc` is where a worker is; in a wait on a
condition variable a thread is "about" to block (its predicate was false, it still
has the mutex), then "waiting" (without the mutex), then notified. Who needs the
mutex to push cannot do so at "about"; `stop`, which changes `filter_state_` and
notifies without any mutex, can. A worker's actions are `OwnQueue` (test the state,
take a block or sleep), its own work (`AwaitEvent` and `ReadPackets`; `Decide`,
`CheckDepth`, `OfferCopy`, `NoBuffer` and `NotifyResolver`; `Write`), and `HandOn`
to the next. The read thread tests the state before it locks, the others again when
they have locked. What the router decides on a packet is a free choice. `router` is
the point at which `stop` is: `StopBegins` and `ReleaseFilter` up to the
notifications, `WorkersJoined`, `StoreExit`, `NotifyExit`, `ResolverJoined`; a `start`
that fails takes the last three as well. `fate` is a history variable.

### The data path

What happens to a packet after `PacketPipeline` has read it, and to a connection
after its SYN was redirected. Each module is a specification of its own
(`RelaySpec`, `RedirectSpec`, ...), because the components share no state beyond
what is named here.

* **`PacketDecision`**: `process_tcp_packet` and `process_udp_packet` on the two
  threads that run them. `table` is the tables of `process_lookup`, whose entries
  carry the caches of a process object; `building` and `copy` are the rows a builder
  has read and not yet stored. `Screen`, `AskProxy`, `CacheBypass`, `PacketLeaves`
  are the points between which the tables and the PID routes may change.
  `entitled` is a history variable: decisions begun when the route was in force.
* **`TcpRedirect`**: from the SYN to the callback that asks for the destination.
  `mapper` is `tcp_mapper_` with ages, `redirected` the table of the redirect,
  `postponed` the SYNs the resolver holds, `backlog` what the proxy has not accepted.
* **`TcpProxyServer`**: the accept thread, the connect thread, the clearing thread and
  `stop`. `slots` is `sock_array_events_` behind index 0, `snapshot` the copy the
  connect thread waits on without the lock, `wake` the event at index 0.
* **`CompletionPort`**: workers between taking a completion and working on it, and the
  servers that register and unregister a handler meanwhile.
* **`Socks5Negotiation`**: both dialogues with the SOCKS server, answers arriving in
  parts or not at all. `ident_resp_` keeps what was in it.
* **`TcpRelay`**: one session; a ring per direction, receives and sends that complete
  on any thread.
* **`UdpProxy`**: the three tables that know a UDP port and the threads that forget it.
* **`PacketPool`**: classes, stacks and limit of `packet_pool`, with the overlapped
  sends that borrow from it.
* **`AdapterFilter`**: adapters that come and go, notification callbacks, start and stop.
  A loop over the adapters under `lock_` is several steps, since `filter_state_` is
  written without that lock.
* **`HandleTable`**: the table of handles of a 32-bit process, brought up to date from
  lists that several driver objects fetch.
* **`OwnerResolver`**: a name read with one handle and an identity with another.
* **`StaticFilters`**, **`DirectRules`**, **`Checksum`**: what the driver passes by itself,
  what the rules let out, and what the checksums of rewritten packets verify as, each
  against a definition that is read off the configuration or the receiver.
* **`LogDelivery`**: threads that write to one stream buffer, storage, the log thread
  and its end.

The `MC*` modules give constants to TLC. Definitions marked "Mutant" are
plausible wrong versions of the definition after them; nothing refers to them.

## 3. Runs

| Run | Instance | Question and answer |
|---|---|---|
| `sessions` | the service: 2 connections, 1 session, 1 PID, 2 processes in succession, 2 endpoints, 2 configurations; a session: a root and one further process, all kinds, grace window on and off | For arbitrary clients: indices in range, routed only as granted, sweep invisible to living processes, `RoutePromise` implemented, stale entries swept, requests answered. For the session: nobody waits without a timer or checks unattended, waits end, ended sessions stay ended. Holds. |
| `ipc_routing` | launch, Route Child or Retry, and close of one session, 1 PID, 1 process | Granted routes stay in force, every task ends, recovery never deadlocks, the tasks are clients of `PidRoutes`. Holds. |
| `ipc_descendants` | launch, a detected child, close; 2 PIDs, 2 processes | Closing is complete for tasks that do not overlap, with a replay of more than one process and a PID used twice. Holds. |
| `ipc_close_leak` | as `ipc_descendants` | A close that overlaps an `addPid` leaks session and routes. Violated: finding. |
| `ipc_pid_reuse` | launch, Route Child or Retry, close; 1 PID, 2 processes | A foreign process on a tracked PID gets routed. Violated: finding. |
| `lifecycle_stop` | the session of `sessions` | A callback behind its test revives a stopped session. Violated: finding. |
| `lifecycle_grace` | the same | A grace window finalises a session with a living process. Violated: finding. |
| `lifecycle_end` | the same, `LaunchTarget` only | A session outlives its last process for ever. Violated: finding. |
| `packet_pipeline` | 2 blocks, reads of 1 packet, resolve queue of 1, 2 packets, 1 start | No packet is lost, doubled or overtaken, nothing stranded by `stop` at any moment, every packet leaves, the resolver ends. Holds. |
| `pipeline_stop` | the same with 1 packet | A stop that has begun ends. Violated: finding. |
| `data_path` | one instance of each data path module, table below | Eighteen properties, one or two of each module. Holds. |
| `udp_idle` | `UdpProxy` alone: 1 port, a session lives 1 tick, its endpoint 3 | A datagram of a port whose session went is redirected to a proxy that can make none. Violated: finding. |

`MCDataPath` chooses in its initial state which component moves (`part`); the others
keep their values, so that the run is the union of the fifteen state spaces, about
860,000 states, and never their product. A property speaks of its own component and
holds trivially where another moves; `DataPathTypeOK` looks at the one that moves.

| `part` | Bounds | What happens within them | States | Shown |
|---|---|---|---|---|
| `relay` | ring of 3, 5 bytes each way | wrap, full and empty rings, closes on either side | 25,600 | `RelayInOrder`, `NeverStalls` |
| `redirect` | 1 port, 3 destinations (one direct), 2 SYNs with the resolver | port reuse, retransmission, expiry before and after the accept | 27,500 | `MapperServesConnections` |
| `server` | 3 clients, 3 events, 2 starts | full array, connect that fails, stop in every phase, second start, failed start | 89,200 | `SnapshotIsCurrent` |
| `port` | 2 workers, 2 servers, 2 keys | handler copied before it is unregistered, failed start, completion after a stop | 50,600 | `NoWorkAfterStop`, `HandledByItsServer` |
| `socks` | both dialogues, every kind of credentials and answer | answers cut or missing | 1,200 | `CredentialsOnlyIfAsked` |
| `udp` | 1 port, life times 1 and 3, 2 datagrams waiting | each table forgets first | 2,200 | `UdpTablesAgree` |
| `decision` | 2 processes sharing a PID, 1 TCP endpoint, 1 packet postponed | reuse of PID and port, route added during a rebuild, exclusion by name | 361,000 | `DecisionIsCurrent` |
| `resolver` | 3 processes on 2 PIDs, 2 tags, cache of 2 | PID changes hands between the handles, eviction | 49,000 | `CacheNamesItsProgram` |
| `adapters` | 2 adapters, 1 callback, 1 change | change and callback during start and stop | 79,000 | `TunnelsFollowFilter` |
| `filters` | 2 servers, 2 calls, 1 refusal | overlapping protocols, a filter the driver refuses | 11,800 | `DriverPassesWhatIsAsked` |
| `handles` | 3 handles, 2 objects, lists of 2, 3 fetches | reuse of a place, lists brought in late | 77,000 | `HandlesLeadBack` |
| `rules` | 2 ports, 2 applications, 4 hosts, 2 rules with at most one text in a list | unreadable parts, ranges, prefixes | 57,800 | `DirectAsConfigured` |
| `checksum` | words of base 16, payload up to 3 bytes | odd lengths, one and two carries | 15,000 | `RewrittenPacketsVerify` |
| `pool` | 3 packets, 3 classes, 1 spare each | reuse at another size, full stack, failed send | 3,200 | `LentPacketsAreSound` |
| `log` | 2 writers, limit 1, 3 lines | overlapping lines, late handler, end of the log thread | 7,700 | `LogIsDelivered` |

`MCSessions` does the same with `PidRoutes` and `SessionLifecycle`: one moves, the
other is at rest, in a state in which none of its fair actions is enabled, so that
the liveness properties of both are those of each alone. The passing runs besides
`data_path` have 205,385 (`sessions`), 99,353 (`ipc_routing`), 1,272,487
(`ipc_descendants`) and 645,962 (`packet_pipeline`) states.

Bounds. `MaxTime` bounds the processes created in a behaviour; two on one PID are
PID reuse. Two connections are enough for any two requests to overlap, and a
connection is used again and again, so a behaviour has any number of requests. Two
configurations that register an endpoint under different indices make a restart
renumber the proxies. The sets of tasks in `MCIpcRouting` hold each task once:
what repeats is inside the tasks (recovery, replay), and the service may stop,
crash and restart any number of times. `ipc_descendants` adds the constraint
`NoStop` (the service crashes and restarts but is not stopped in an orderly way,
which `ipc_routing` covers) to keep the instance small. In `SessionLifecycle` the
second process can be a child, a correlated process or a restart of the root, and
exits once, so that only finitely many windows begin; a third process adds
nothing that these handlers tell apart, for they ask whether *some* other process
lives. A finished session has nothing left to do: `sessions` lets it rest and checks
that nothing else stops, the three variants say `CHECK_DEADLOCK FALSE`. So does
`packet_pipeline`, whose threads sleep when all packets have left. In the runs of
`IpcRouting` deadlock is checked: clients and processes can always go on.

In `packet_pipeline` two blocks are fewer than threads, so that every queue is empty
at times and a worker may wait for a block that comes round; two packets can be in
any two places at once, one behind the other in a queue or one deferred and one not;
a resolve queue of one packet is full with the first. Blocks of more packets, more
packets and restarts (`MaxStarts`) are left to the proof. `MaxPackets = 1` still lets
a read find nothing (its event was set by a packet read before) and leave something.

The data path. Two of everything that can overlap is enough where the code makes
two steps of an operation: the second worker, builder, caller or writer is between
them when the first acts. Three clients and three events fill the array and leave
one refused; three packets on stacks of one reach the limit; three handles on two
places force a place to be used again. `Checksum` has words of base 16 instead of
65536: carries arise in the same way, and payloads of up to three bytes have both
parities. Life times are in ticks of half the shorter one, as the sweep is:
an entry of the mapper (thirty seconds) lives for 2 and a redirected connection (five
minutes) for 3; only their order matters, which `TtlAssumption` and `UdpTtlAssumption`
state. `Reordering = FALSE` in `data_path` keeps a SYN
from overtaking one of the same port that awaits the resolver: with it the mapper
may hold what was asked first, which no line of the repository denies. More
changes of the adapters than `MaxBinds`, more fetches of handle lists than `MaxFetches`,
more than one text in a list of a rule (`MaxTexts`) and the other bounds of the components
are left to the proofs of section 6. `data_path` and `udp_idle` have no deadlock check:
their components end, or wait for an application.

## 4. Fairness

The data path has only safety properties, and its specifications state no
fairness: what would have to happen there depends on peers and servers the code does
not control. `NeverStalls` says instead that a relay is never at rest with bytes in it.

* `PidRoutes`: an accepted connection is handled and a client that is not accepted
  gives up (`ConnectAsync` has a timeout); a `Dispose` that has begun goes on; the
  resolver thread sweeps (`cleanup_stale_pid_routes`, rate-limited but periodic).
  Nothing makes the service start, stop or crash, a process exit, or a client send.
* `IpcRouting`: the same for the service, and a started task is scheduled.
* `SessionLifecycle`: delays end, started tasks are scheduled, the UI timer ticks.
  Nothing makes a process exit or the user answer: `EveryWaitEnds` therefore
  excepts a session whose handoff is in the user's hands.
* `PacketPipeline`: each of the four workers and the resolver is scheduled when it
  can run, and `stop` goes on when it has begun. Nothing makes the router start or
  stop or a packet arrive. The resolver's wait ends by timeout (`wait_for`); a timeout
  that finds nothing to do changes nothing and is left out, as are spurious wake-ups,
  which could only help. The driver is assumed to signal its event again when a read
  leaves packets with it: nothing in the repository says otherwise, and the read
  thread relies on it.

## 5. What the code does otherwise than it says

Each is a run that TLC must find violated, with the counterexample as evidence.

1. `ipc_close_leak`: `AddPidToIpcSessionAsync` recreates a session on "session not
   found" without looking at `Status` (`SessionManager.cs:825`). If the session was
   closed while the request was in flight, it comes back with its routes.
2. `ipc_pid_reuse`: `AddPidAsync` sends the creation time of whoever owns the PID at
   the time of the call (`ProxiFyreIpcClient.cs:60`), and so does a replay. The
   service's check against PID reuse then compares a process with itself.
3. `lifecycle_stop`: a callback past its test of `Status` assigns to a session that
   `StopSession` has ended meanwhile (`SessionManager.cs:2296`).
4. `lifecycle_grace`: the timer of a grace window looks at `Status` only
   (`SessionManager.cs:1390`). A process recorded by discovery is skipped by the
   merge (`1549`), so its session is finalised under it; an old timer also ends a
   newer window.
5. `lifecycle_end`: `AddSession` gives descendants neither a callback nor a monitor
   (`SessionManager.cs:2375`), so a `LaunchTarget` session whose root exits first
   never ends.
6. `pipeline_stop`: `stop_filter` assigns `filter_state_` and `release_filter` calls
   `notify_all` without the mutexes of the queues
   (`queued_multi_interface_packet_filter.h:876`, `701`). A worker that has found its
   predicate false and not blocked yet misses both and sleeps for ever; the join, and
   with it `stop` of the router, never returns. Line 685 says that all threads "can exit
   gracefully". `ResolverEnds` shows the contrast: the resolver is notified without
   its mutex too, but its wait has a timeout.
7. `udp_idle`: the entry of `udp_mapper_` is written for a new endpoint only
   (`socks_local_router.h:1942`). A session is removed after five idle minutes
   (`socks5_udp_proxy_socket.h:384`), its endpoint after fifteen, and each redirected
   datagram refreshes the endpoint (`socks5_udp_local_redirect.h:338`). A port that is
   used again after more than five and less than fifteen minutes has neither a session
   nor an entry to make one from, and loses every datagram until it is silent for
   fifteen minutes. Line 180 says that the test is whether the *session* is new. Three
   contrasts: the first datagrams of an endpoint find the entry, a session in use has
   its endpoint (both `UdpTablesAgree`), and a port that is silent for fifteen minutes
   begins anew.

Met while modelling the data path, stated here because the properties above are
formulated around them. No line of the repository promises otherwise, or the effect is
outside what a run can show, except for the first:

* `socks_local_router.h:889`: `create_filter` sets the destination of every filter (882),
  so those of the incoming direction (889, 893) name the SOCKS server as the destination
  of a packet that comes in. No reply of a server matches one, although the comment at 871
  asks for the traffic "to and from" it; replies go through the router like any other
  packet. `DriverPassesWhatIsAsked` demands what is sent to a server, permits its
  replies, and claims nothing of them.
* `socks_local_router.h:1158`: a rule whose only port text cannot be read matches every
  port, as if none had been given; likewise hosts and applications (`Readable`).
* `socks_local_router.h:2497`: two updates of the network configuration may store in
  another order than they read; the next notification puts it right.
* What the driver refuses of the static filters is not noticed (`MaxRefusals`).
* `process_lookup.h:829`: a builder may store rows that are older than those another has
  stored meanwhile. `PostponedIsResolved` excepts exactly that (`outdated`).
* `tcp_proxy_server.h:803`: when the connect fails at once the slot stays with closed
  sockets (`ConnectFails`) until the server stops.
* `tcp_proxy_socket.h:1890` closes a socket twice; `tcp_proxy_server.h:326` ends both
  directions of a session when one side has finished sending.
* `tcp_local_redirect.h:211`: a retransmitted SYN finds its entry, is not turned round
  and goes on to the destination itself (`AnsweredDirectly`).
* `socks5_local_udp_proxy_server.h:372`: when a receive cannot be posted again the server
  serves nobody any more; at 334 a send that fails leaves context, packet and session
  behind (`forsaken` in `PacketPool`); at 277 every completion ends the count of an operation, although
  those of the sessions began none.
* Lists of driver handles brought in out of order can evict a bound adapter;
  `HandlesLeadBack` holds while they are not (`disordered`).
* `RecalculateUDPChecksum` stores 0 where it would have to store all ones; the receiver
  takes the packet as one without a checksum, so `RewrittenPacketsVerify` admits it.
* `socksify_unmanaged.cpp:141` returns the inverse of what `stop` says, and the
  "maximum number of entries to keep" of the log only triggers the event: storage is
  not bounded. Lines logged before the handler is attached or after the log thread has
  ended are not delivered.

The properties that hold state what is left: closing is complete for tasks that do
not overlap (`SequentialCloseIsComplete`), an ended session stays ended once no
begun step is behind its test (`EndedStaysEnded`).

## 6. Proofs

TLAPS checks these for all values of the constants.

* `PidRoutes_proofs`. `RouteInvariant` is inductive. `ProxyIndexInRange` and
  `RoutedAsGranted` are not so alone: that a new process is not routed by an old
  entry needs `TimesPast` (no time in the table or in a request on its way lies
  ahead of the clock), and that a restart with another configuration keeps indices
  in range needs `DownMeansEmpty`. `MaintenanceTheorem` is the action property of
  the sweep. `Refinement` maps every step to a step of `RoutePromise` or a stutter:
  `NoNewRouteWithdraws` covers all steps that only take routes away, `DoAddPid` is a
  grant if the creation time is that of a living process and a withdrawal if not.
* `IpcRouting_proofs`. `RouteInvariant` and `TasksInv` are inductive together. The
  tasks send only requests that `PidRoutes` allows if the times they were given lie
  in the past (`TasksInv`), and the times lie in the past because the service's
  clock is that of the operating system (`RouteInvariant`). From it:
  `IpcTypeCorrect` (with mutual exclusion at the recovery gate),
  `TasksRefineClients` (the composition implements `PidRoutes`) and
  `TasksRouteAsGranted` (so all that is proved there holds here).

  `GrantsStayInForce` and `SequentialClosesAreComplete` speak of one session, and a
  session can lose its route to another: `closeSession` and `removePid` drop the entry
  of a PID without asking who entered it (`SessionRouteServer.cs:377`). They are
  therefore proved under `OwnPids`: no two sessions have tasks for the same PID, as the
  instances of the runs have it. The argument for `GrantInForce`: a request on its way
  fits the state of its task and names a creation time that is neither before what the
  session tracks nor after the process (`RequestsOfTasks`); a process that has a tracked
  PID is the tracked one or a later one (`TrackedInPast`); and whatever the service
  knows, some session tracks (`RoutesAreTracked`), so that the only `closeSession` which
  could withdraw a grant is that of a session that has ended. For
  `SequentialCloseIsComplete`: what an orderly session has routed, its `_sessions` entry
  lists, or a recovery under way will list it again (`RoutesAreListed`); this fails in
  the middle of `Dispose`, between the loop over the PIDs and `ClearPidRoutes`, where
  `LateCloseFindsNothing` takes its place. `FirstFindsNothing` is needed because a
  `createSession` replaces an entry and forgets its PIDs.
* `SessionLifecycle_proofs`. Types; `Attended`, inductive as it stands, for
  a session that waits and one whose correlated handoff is being checked
  (`NobodyWaitsUnattended`); and `EndedIsFinal` from
  `SettledStep`: a session that is ended with nobody behind a test stays so.
* `PacketPipeline_proofs`. `StopStrandsNothing`: when `stop` has returned, nothing is in
  the resolve queue or with the resolver, for any number of blocks, packets and
  restarts. `NothingStranded` speaks of one state and is not inductive: the argument is
  that the exit flag is stored only when the workers have been joined
  (`WorkersGone`, `ExitStoredLate`), that the resolver ends only with the flag set and
  an empty queue, and that nobody fills it then (`DoneIsDrained`), and that the
  resolver holds packets only between the swap and the send (`IdleHoldsNothing`).
  `Working` covers every step of a worker at once: a worker that takes a step is not
  done, so the router has not reached the end of `stop_filter`.

  `PacketTypesHold`, `PacketsStayWhole` and `PacketsKeepOrder` rest on one view of the
  pipeline: the four queues and the hands of the four workers are eight places of a
  `Line`, and every block is at one of them (`BlocksInv`). The lists in the blocks, with
  the driver, the resolve queue and the resolver's lists, are the places of packets
  (`Whereabouts`). A step moves a block from the head of one place to the end of
  another, or pours the end of one list into another; the lemmas `MoveWhole` and its
  neighbours say once, for any family of sequences, that such a move keeps the family
  without duplicates and with the same elements, and every action is shown to be one.
  `StageInv` says what the lists of a block may hold at each place, which is what keeps
  a worker from being handed a packet it would drop. For the order (`SortInv`): blocks keep
  the order of the line, so that a block nearer the adapters' end has the earlier packets
  (`BlocksInOrder`); within a block, what has a verdict is earlier than what has none; and
  what was sent is earlier than all that still waits for the same verdict (`SentFirst`).
* `TcpConnections_proofs`. `StopAwaitsItsWork` for any finite pool of workers: the count
  of a server is exactly the number of workers inside (`CountIsExact`, a statement about
  cardinalities), and a worker looks at the server's end only after it has counted
  itself, so that a wait for 0 leaves nobody who could still begin.
  `CompletionsFindTheirServer` needs that keys are not handed out again
  (`KeysAreOwned`): a completion of a socket that outlived its server finds no handler.

  `RelayTypesHold`, `RelayDeliversInOrder`, `RelayNeverStalls` for every size of the ring:
  a direction is a `Lane`, where the bytes between the two indices are those received
  and not yet sent, wherever they lie across the end of the ring. The bytes of a send
  keep their place until it completes, also when the connection is closed under it
  (`Pending`). `NeverStalls` is not inductive without `Open`: a receive that is
  outstanding covers exactly the free part it was posted for.
* `ProxyServices_proofs`. `ConnectThreadMissesNobody`: the copy stays a prefix of the
  array, for the only thread that removes an entry is the one that is not waiting then;
  an entry behind the copy, or the end of the server, is accompanied by the event.
  The sequences' types are part of the invariant, since `RemoveAt` by an index from the
  copy needs the index to be in the array. A start that fails resets the event, too:
  nobody waits for it then (`StoppedIsOff`).

  `PoolLendsSoundly`, for any classes and limits: a packet is on the stack of its own
  class at most once (`Stacked`) or in use; the class of a request is the least that is
  large enough, and that there is a least one is `LeastOf` in `TcpConnections_proofs`, from
  the library's theorem on well-founded orders.

  `DriverPassesAsAsked`: the driver's table is the image of `filters_`, and every filter
  that was asked for is in `filters_` or on its way in a call that has not finished
  (`StaticInv`). `StaticTypes` adds that the two have the same order (`FormsInPlace`).

  `TablePlacesHold`, for any number of adapters, callers and lists: a list that names an
  adapter without a place has a vacant place for it, since the places cannot all be held
  by the others it names (`APlaceIsVacant`, by counting); going through a list one
  adapter at a time evicts nobody the list names (`KeptAfter`, `AllSettledKeeps`, where the
  table after each adapter is the value of a recursive function that is shown to exist);
  and what was told of the lists before is still there (`GivenPlacesLead`).

  `RulesFollowTheirTexts`, for any texts and any width of an address: the list of rules is
  the image of the list of texts (`RulesOfTheTexts`), the mask that the loop of `from_cidr`
  shifts together is the highest bits of the address (`NetMaskValue`), and a rule matches
  what its text says (`RuleMeansItsText`).

  `RewrittenPacketsAreAccepted`, for bytes of any size and payloads of any length: adding
  the carry keeps the remainder modulo `Base - 1` (`CarryKeepsRemainder`), hence so does
  the whole loop (`FoldedValue`), and the complement brings a sum to a multiple of
  `Base - 1` that is not 0 (`ComplementVerifies`). The sums and the fold are recursive
  functions; that they are defined and what they return follows from a closed form or
  from the least number at which they would differ.
* `PacketPath_proofs`. `UdpTablesFollow`: the entry of an endpoint is written before its
  thread goes on and taken only by the first attempt at a session, and the age of a
  session is never less than that of its endpoint, which `SessionTtl < EndpointTtl` makes
  inductive; for any number of ports. What it leaves out is what `udp_idle` violates.

  `ModesFollowTheFilter` for any number of adapters, callbacks and
  changes. The invariant says where an adapter with the wrong mode may still be: ahead
  of the thread that holds the lock (`WrongModeIsAhead`), that the release has every
  adapter in tunnel mode before it (`ReleaseReachesAll`), and what the position of the
  router says of `filter_state_` (`StateIsRouters`).

  `CacheNamesRightly`: an entry whose process is alive names it (`EntryIsSound`). A name is
  looked up, not found, read and stored in several steps; `MissIsReal` says that at the
  store the cache still has nothing current under that key. `CacheStaysInBounds`: what the
  store keeps has room for one entry more, whether or not a cleanup was due and whether or
  not the new entry renews an old one (`KeptHasRoom`, `OthersLength`).

  `MapperIsReliable`, if SYNs of one port are handled in the order of their arrival
  (`~Reordering`; the run makes the same choice, section 3): the last SYN of a port is
  that of its connection (`LastIsCurrent`), hence a connection the proxy will still ask
  for has the entry of its own destination (`LiveIsCurrent`). The bound on an entry's stay
  is the distance to the next sweep (`SweepIsNear`).

  `CredentialsAreAskedFor`: the method is asked for once, and until the answer has come
  the field that is read is as the constructor left it (`MethodIsAskedOnce`).

  `LogArrives`: one thread at a time has the stream, and what lies in its buffer is the
  beginning of that thread's message (`StreamHasOneUser`); the log thread moves lines only
  to raise them (`LinesOnTheirWay`); the event is closed after the thread that waits on it
  has been joined (`ClosedInTurn`).

  `VerdictsAreCurrent`, with two arguments. A route counts at once: a thread that has
  found an entry of a routed process is before the test of the route, nothing cached in
  the entry bars it, and the route is still there (`EntitledAreServed`); threads at one
  entry have one object, which is the table's while it is not older than the table
  (`ObjectsAreShared`), so what one thread caches is what the other reads. A postponed
  packet meets a table that names its sender: once read for the batch, the rows of the
  resolver, those it has stored, and those that `add_pid` will store over them unless they
  are older, all name the owner (`RowsName`); an owner that is still there was there all
  the time, since a process does not bind an endpoint twice (`OwnersAreKnown`).
* `DataPath_proofs`. `PartsFollowTheirSpecs`: every behaviour of the composition that
  `data_path` checks is, for each component, a behaviour of that component's own
  specification, so that all theorems above about components hold of it. For the checksums
  that is so when they are the part that moves; otherwise a packet without content lies
  still. `DataPathTypes` follows with the type theorems of the components, each
  proved beside the component's other theorems. The types are more than ranges where
  the code relies on more: a range of a rule is not upside down, no two places of the
  table have the same handle, and a builder has rows exactly while it has read them.

Assumptions: the named `ASSUME`s of the modules, which TLC evaluates on every run.
They say that configurations are sequences of endpoints, that `None`, `Nobody`,
`NoEntry`, `NoProgram` and the like are none of the values they are put beside, that
tasks are tasks, that the root is a process and that bounds are natural numbers; of the
data path, that the pool of workers is finite, that a ring has room for a byte and the
array of events for a client, that life times are in the order the code has them, that
classes of packets have capacities, that the two protocols' endpoints differ, and that
a thread is either a callback or one of the two the program starts. Two theorems have
the hypothesis `OwnPids` and one `~Reordering`, for the reasons above.

Only model-checked:

* All liveness (`StaleEventuallySwept`, `EveryRequestEnds`, `EveryTaskEnds`,
  `EveryWaitEnds`, `EveryPacketLeaves`, `ResolverEnds`), which the prover does not handle.

Every invariant that a passing run checks is a theorem, and so are the action properties
and the refinements; cases outside the hypotheses `OwnPids` and `~Reordering` are open.

## 7. Not modelled

* Inside the modelled parts: the text of messages and malformed ones (answered
  with an error, no change of state); `RoutingStatus`; browser sessions and browser
  profiles; the merge of an external hit into an existing session; removal of a
  finished session; in `SessionLifecycle` the reuse of PIDs and a PID shared by two
  sessions, and the routes, which are `IpcRouting`'s. In `PacketPipeline`: changes of
  the adapters while the filter runs, writes the driver refuses (the code ignores the
  result), the counters and their log lines, the sweeps of the resolver
  (`PidRoutes`), and what `start` and `stop` do with proxies, redirects, the
  completion port and notifications. `start` is one step: the blocks are
  queued before the read thread starts, and the others have nothing to do until it
  hands one on. The state change is one step with the event's signal, and the release
  of the adapters with the notifications.
* In the data path: the composition of its components with each other and with the
  pipeline (a packet's verdict is a free choice in `PacketPipeline`, the destination of
  a connection is given in `TcpRelay`); names and paths of processes character by
  character; IPv6, which this build does not redirect; the header of a UDP datagram;
  `insert`, `remove`, `store`, `load` and `reset` of the static filters, the injection of
  data into a relay, `set_pool_size_limit` and `reset` of the pool and event logging,
  none of which the program calls; levels and format of log lines; the file of captured
  packets and the statistics of the filter.
* Not yet: `ProxiFyreBackend` with `RoutingStatus`, and the watchers' own state.
* Not at all: scoring and name resolution (pure string matching; its outcome is a
  choice in the model), the launcher, rendering, configuration classes, event list
  and log, the rest of the managed wrapper (forwards calls) and of the
  NDIS and network libraries (vendored), installers and tools.
* Cases within modelled handlers: a negative `RestartGraceSeconds`, which nothing
  rejects and for which `Task.Delay` throws (`SessionManager.cs:1395`); a datagram that a
  program sends to the port of the UDP proxy itself, which need not have the SOCKS5
  header that every redirected one has, and may be empty; the later fragments of a UDP
  datagram, which have no port; a SOCKS server that relays UDP on another port than the
  one that was filtered. `addPid` of a session whose proxy index the router refuses
  (`SessionRouteServer.cs:330`) cannot happen: that is `ProxyIndexInRange`.

## 8. Plan

Done: service, pipe and tasks; the session life cycle; the packet pipeline; the data
path; and the proofs above. What is left, in this order:

1. `RouteConfig`: `ProxiFyreBackend` with ownership, rollback, restart and the stale
   flag, and `RoutingStatus`; two sessions that share a PID in `IpcRouting`.
2. Composition: `PacketDecision` in place of the free choice of `PacketPipeline`, with
   `RouteOf` of `PidRoutes`; `TcpRedirect` with `TcpProxyServer` (the accept of a
   redirected connection is the read of `tcp_mapper_`).
3. Liveness of the relay and of UDP associations under a fair completion port.
4. Proofs: `GrantInForce` and `SequentialCloseIsComplete` need `OwnPids` for as long as
   `closeSession` and `removePid` do not ask who entered a PID; with that test in the
   service the hypothesis could go. `MapperServesConnections` with `Reordering`, once
   it is settled what a SYN that overtakes another is to find.
