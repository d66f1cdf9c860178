----------------------------- MODULE PidRoutes -----------------------------
(***************************************************************************)
(* The ProxiFyre service's side of PID routing: SessionRouteServer (the    *)
(* named-pipe server, its `_sessions` dictionary and its shutdown), the    *)
(* PID table `pid_to_proxy_` of socks_local_router with the maintenance    *)
(* sweep of the resolver thread, and the operating system's processes,     *)
(* whose PIDs are reused.                                                  *)
(*                                                                         *)
(* The clients of the pipe are the environment: any client may send any    *)
(* request at any time.  IpcRouting replaces them by ProxySwitch's tasks.  *)
(***************************************************************************)
EXTENDS Naturals, Sequences, FiniteSets

CONSTANTS
  Client,     \* the connections that can be open at the same time
  SessionId,  \* the session identifiers clients use
  Pid,        \* process identifiers of the operating system
  Endpoint,   \* proxy endpoints, "host:port"
  Configs,    \* what the proxies of app-config.json can register as, in order
  MaxTime,    \* bound: processes created in a behaviour
  None        \* no session, no route

SessionState == [endpoint: Endpoint, handle: Nat, pids: SUBSET Pid]
RouteEntry   == [proxy: Nat, created: Nat]

ASSUME ConfigsAssumption == Configs \subseteq Seq(Endpoint)
ASSUME MaxTimeAssumption == MaxTime \in Nat
ASSUME NoneAssumption    == None \notin SessionState \cup RouteEntry \cup Nat

VARIABLES
  born,          \* creation time of the process that owns a PID now, 0 if none
  clock,         \* creation time of the youngest process
  service,       \* life cycle of the service process
  proxyServers,  \* proxy_servers_: the endpoint behind every proxy index
  sessions,      \* _sessions
  pidToProxy,    \* pid_to_proxy_
  pipe,          \* what happens on every client's connection
  granted        \* history: <<pid, creation time, endpoint>> of the living
                 \* processes that this run of the service agreed to route

osVars      == <<born, clock>>
routerVars  == <<proxyServers, pidToProxy>>
serverVars  == <<service, sessions, granted>>
vars == <<born, clock, service, proxyServers, sessions, pidToProxy, pipe, granted>>

----------------------------------------------------------------------------
(* Requests and replies *)

CreateRequest == [op: {"createSession"}, sid: SessionId, endpoint: Endpoint]
AddRequest    == [op: {"addPid"}, sid: SessionId, pid: Pid, created: Nat]
RemoveRequest == [op: {"removePid"}, sid: SessionId, pid: Pid]
CloseRequest  == [op: {"closeSession"}, sid: SessionId]
Request       == CreateRequest \cup AddRequest \cup RemoveRequest \cup CloseRequest

Result == {"ok", "refused", "session not found", "unavailable"}

Idle        == [at |-> "idle"]
Sent(r)     == [at |-> "sent", req |-> r]
Accepted(r) == [at |-> "accepted", req |-> r]
Replied(x)  == [at |-> "replied", result |-> x]

PipeState ==
  {Idle} \cup [at: {"sent", "accepted"}, req: Request]
         \cup [at: {"replied"}, result: Result]

TypeOK ==
  /\ born \in [Pid -> Nat]
  /\ clock \in Nat
  /\ service \in {"down", "running", "cancelled", "unrouted", "cleared"}
  /\ proxyServers \in Seq(Endpoint)
  /\ sessions \in [SessionId -> SessionState \cup {None}]
  /\ pidToProxy \in [Pid -> RouteEntry \cup {None}]
  /\ pipe \in [Client -> PipeState]
  /\ granted \subseteq Pid \X Nat \X Endpoint

Init ==
  /\ born = [p \in Pid |-> 0]
  /\ clock = 0
  /\ service = "down"
  /\ proxyServers = << >>
  /\ sessions = [s \in SessionId |-> None]
  /\ pidToProxy = [p \in Pid |-> None]
  /\ pipe = [c \in Client |-> Idle]
  /\ granted = {}

----------------------------------------------------------------------------
(* The operating system: a PID is free for reuse once its process is gone. *)

ProcessStart(p) ==
  /\ born[p] = 0
  /\ clock < MaxTime
  /\ clock' = clock + 1
  /\ born' = [born EXCEPT ![p] = clock + 1]
  /\ UNCHANGED <<service, proxyServers, sessions, pidToProxy, pipe, granted>>

ProcessExit(p) ==
  /\ born[p] # 0
  /\ born' = [born EXCEPT ![p] = 0]
  /\ granted' = {g \in granted : g[1] # p}
  /\ UNCHANGED <<clock, service, proxyServers, sessions, pidToProxy, pipe>>

----------------------------------------------------------------------------
(* The PID table of socks_local_router *)

\* The indices under which an endpoint was registered.
IndicesOf(e) == {i \in DOMAIN proxyServers : proxyServers[i] = e}

\* _proxyMap: a later proxy with the same endpoint overwrites the earlier one.
IsHandleOf(h, e) == h \in IndicesOf(e) /\ \A i \in IndicesOf(e) : i <= h

\* Mutant: the PID exists, whoever owns it.
PidExists(p, entry) == born[p] # 0

\* validate_pid_creation_time
ValidCreationTime(p, entry) == born[p] # 0 /\ born[p] = entry.created

Stale(p) == pidToProxy[p] # None /\ ~ValidCreationTime(p, pidToProxy[p])

\* The PID branch of get_proxy_port_tcp and get_proxy_port_udp: the index of
\* the proxy that the traffic of p's present process goes to.
RouteOf(p) ==
  IF pidToProxy[p] # None /\ ValidCreationTime(p, pidToProxy[p])
  THEN pidToProxy[p].proxy
  ELSE None

\* associate_process_id_to_proxy accepts a proxy index it knows.
CanAssociate(h) == h \in DOMAIN proxyServers

Without(table, P) == [p \in Pid |-> IF p \in P THEN None ELSE table[p]]

\* Mutant: the sweep drops entries whose process is gone, not reused PIDs.
SweepGone ==
  /\ service # "down"
  /\ pidToProxy' = Without(pidToProxy, {p \in Pid : born[p] = 0})
  /\ UNCHANGED <<osVars, serverVars, proxyServers, pipe>>

\* Mutant: the sweep takes entries that no session lists for stale.
SweepOrphans ==
  /\ service # "down"
  /\ pidToProxy' = Without(pidToProxy, {p \in Pid : Stale(p) \/
       \A s \in SessionId : sessions[s] = None \/ p \notin sessions[s].pids})
  /\ UNCHANGED <<osVars, serverVars, proxyServers, pipe>>

\* cleanup_stale_pid_routes, from the resolver thread's periodic maintenance.
Sweep ==
  /\ service # "down"
  /\ pidToProxy' = Without(pidToProxy, {p \in Pid : Stale(p)})
  /\ UNCHANGED <<osVars, serverVars, proxyServers, pipe>>

----------------------------------------------------------------------------
(* The clients of the pipe *)

Send(c, r) ==
  /\ pipe[c] = Idle
  /\ pipe' = [pipe EXCEPT ![c] = Sent(r)]

Receive(c) ==
  /\ pipe[c].at = "replied"
  /\ pipe' = [pipe EXCEPT ![c] = Idle]

\* ConnectAsync gives up after its timeout, or the service drops the
\* connection: it was cancelled after the client had connected.
Unavailable(c) ==
  /\ pipe[c].at = "sent"
  /\ pipe' = [pipe EXCEPT ![c] = Replied("unavailable")]
  /\ UNCHANGED <<osVars, serverVars, routerVars>>

----------------------------------------------------------------------------
(* SessionRouteServer.  A connection is accepted and read on a task of its *)
(* own; cancellation is checked once, before the message is processed.     *)

Accept(c) ==
  /\ service = "running"
  /\ pipe[c].at = "sent"
  /\ pipe' = [pipe EXCEPT ![c] = Accepted(@.req)]
  /\ UNCHANGED <<osVars, serverVars, routerVars>>

Handling(c, op) ==
  /\ service # "down"
  /\ pipe[c].at = "accepted"
  /\ pipe[c].req.op = op

Reply(c, x) == pipe' = [pipe EXCEPT ![c] = Replied(x)]

\* Mutant: a session that keeps the handle -1 of a failed registration.
UnregisteredSession(e, h) == [endpoint |-> e, handle |-> None, pids |-> {}]

\* The state a new session starts from: replacing a session forgets its PIDs
\* and leaves their routes in the table.
FreshSession(e, h) == [endpoint |-> e, handle |-> h, pids |-> {}]

DoCreateSession(c) ==
  LET r == pipe[c].req IN
  /\ Handling(c, "createSession")
  /\ \/ /\ IndicesOf(r.endpoint) = {}
        /\ Reply(c, "refused")
        /\ UNCHANGED sessions
     \/ \E h \in DOMAIN proxyServers :
          /\ IsHandleOf(h, r.endpoint)
          /\ sessions' = [sessions EXCEPT ![r.sid] = FreshSession(r.endpoint, h)]
          /\ Reply(c, "ok")
  /\ UNCHANGED <<osVars, service, routerVars, granted>>

\* Mutant: the session does not list the PID.
AddUnlisted(c) ==
  LET r == pipe[c].req
      s == sessions[r.sid] IN
  /\ Handling(c, "addPid")
  /\ IF s = None
     THEN Reply(c, "session not found") /\ UNCHANGED <<pidToProxy, granted>>
     ELSE /\ pidToProxy' = [pidToProxy EXCEPT
               ![r.pid] = [proxy |-> s.handle, created |-> r.created]]
          /\ granted' = granted \cup
               {g \in {<<r.pid, r.created, s.endpoint>>} : r.created = born[r.pid]}
          /\ Reply(c, "ok")
  /\ UNCHANGED <<osVars, service, proxyServers, sessions>>

DoAddPid(c) ==
  LET r == pipe[c].req
      s == sessions[r.sid] IN
  /\ Handling(c, "addPid")
  /\ \/ /\ s = None
        /\ Reply(c, "session not found")
        /\ UNCHANGED <<sessions, pidToProxy, granted>>
     \/ /\ s # None
        /\ CanAssociate(s.handle)
        /\ pidToProxy' = [pidToProxy EXCEPT
             ![r.pid] = [proxy |-> s.handle, created |-> r.created]]
        /\ sessions' = [sessions EXCEPT ![r.sid].pids = @ \cup {r.pid}]
        /\ granted' = granted \cup
             {g \in {<<r.pid, r.created, s.endpoint>>} : r.created = born[r.pid]}
        /\ Reply(c, "ok")
  /\ UNCHANGED <<osVars, service, proxyServers>>

DoRemovePid(c) ==
  LET r == pipe[c].req IN
  /\ Handling(c, "removePid")
  /\ IF sessions[r.sid] = None
     THEN /\ Reply(c, "session not found")
          /\ UNCHANGED <<sessions, pidToProxy>>
     ELSE /\ pidToProxy' = Without(pidToProxy, {r.pid})
          /\ sessions' = [sessions EXCEPT ![r.sid].pids = @ \ {r.pid}]
          /\ Reply(c, "ok")
  /\ UNCHANGED <<osVars, service, proxyServers, granted>>

DoCloseSession(c) ==
  LET r == pipe[c].req IN
  /\ Handling(c, "closeSession")
  /\ IF sessions[r.sid] = None
     THEN /\ Reply(c, "session not found")
          /\ UNCHANGED <<sessions, pidToProxy>>
     ELSE /\ pidToProxy' = Without(pidToProxy, sessions[r.sid].pids)
          /\ sessions' = [sessions EXCEPT ![r.sid] = None]
          /\ Reply(c, "ok")
  /\ UNCHANGED <<osVars, service, proxyServers, granted>>

Handle(c) ==
  \/ DoCreateSession(c)
  \/ DoAddPid(c)
  \/ DoRemovePid(c)
  \/ DoCloseSession(c)

----------------------------------------------------------------------------
(* The service process *)

ServiceStart ==
  /\ service = "down"
  /\ service' = "running"
  /\ \E ps \in Configs : proxyServers' = ps
  /\ UNCHANGED <<osVars, sessions, pidToProxy, pipe, granted>>

\* Mutant: the sessions outlive the process.
GoneButSessions ==
  /\ service' = "down"
  /\ proxyServers' = << >>
  /\ pidToProxy' = [p \in Pid |-> None]
  /\ granted' = {}
  /\ pipe' = [c \in Client |->
       IF pipe[c].at = "accepted" THEN Replied("unavailable") ELSE pipe[c]]
  /\ UNCHANGED <<osVars, sessions>>

\* Mutant: nobody tells the client that the connection is broken.
GoneSilently ==
  /\ service' = "down"
  /\ proxyServers' = << >>
  /\ sessions' = [s \in SessionId |-> None]
  /\ pidToProxy' = [p \in Pid |-> None]
  /\ granted' = {}
  /\ UNCHANGED <<osVars, pipe>>

\* The end of the process: what it kept in memory is gone, and so are the
\* connections whose request it had not answered.
Gone ==
  /\ service' = "down"
  /\ proxyServers' = << >>
  /\ sessions' = [s \in SessionId |-> None]
  /\ pidToProxy' = [p \in Pid |-> None]
  /\ granted' = {}
  /\ pipe' = [c \in Client |->
       IF pipe[c].at = "accepted" THEN Replied("unavailable") ELSE pipe[c]]
  /\ UNCHANGED osVars

Crash == service # "down" /\ Gone

\* SessionRouteServer.Dispose: cancel, then the PIDs of every session under
\* _sessionLock, then the whole table.  A handler that passed the
\* cancellation check can still run between these steps and after them.
DisposeCancel ==
  /\ service = "running"
  /\ service' = "cancelled"
  /\ UNCHANGED <<osVars, routerVars, sessions, pipe, granted>>

SessionPids == UNION {sessions[s].pids : s \in {t \in SessionId : sessions[t] # None}}

DisposeSessions ==
  /\ service = "cancelled"
  /\ service' = "unrouted"
  /\ pidToProxy' = Without(pidToProxy, SessionPids)
  /\ sessions' = [s \in SessionId |-> None]
  /\ UNCHANGED <<osVars, proxyServers, pipe, granted>>

DisposeClear ==
  /\ service = "unrouted"
  /\ service' = "cleared"
  /\ pidToProxy' = [p \in Pid |-> None]
  /\ UNCHANGED <<osVars, proxyServers, sessions, pipe, granted>>

ServiceExit == service = "cleared" /\ Gone

Dispose == DisposeCancel \/ DisposeSessions \/ DisposeClear \/ ServiceExit

Service == ServiceStart \/ Crash \/ Dispose \/ Sweep

----------------------------------------------------------------------------
Requests(times) ==
  CreateRequest \cup RemoveRequest \cup CloseRequest
    \cup [op: {"addPid"}, sid: SessionId, pid: Pid, created: times]

Environment(c) ==
  \/ \E r \in Requests(1..clock) :
       Send(c, r) /\ UNCHANGED <<osVars, serverVars, routerVars>>
  \/ Receive(c) /\ UNCHANGED <<osVars, serverVars, routerVars>>

Next ==
  \/ \E p \in Pid : ProcessStart(p) \/ ProcessExit(p)
  \/ Service
  \/ \E c \in Client : Environment(c) \/ Unavailable(c) \/ Accept(c) \/ Handle(c)

\* A connection that the service accepted is handled by a thread-pool task,
\* a connection nobody accepts times out, a cancelled service goes on with
\* Dispose, and the resolver thread wakes up for its maintenance.
Fairness ==
  /\ \A c \in Client : WF_vars(Handle(c)) /\ WF_vars(Unavailable(c))
  /\ WF_vars(DisposeSessions \/ DisposeClear \/ ServiceExit)
  /\ WF_vars(Sweep)

Spec == Init /\ [][Next]_vars
FairSpec == Spec /\ Fairness

----------------------------------------------------------------------------
(* Properties *)

\* get_proxy_port_tcp and get_proxy_port_udp index proxy_servers_ with the
\* proxy_id of a table entry and check nothing: every entry, and the handle of
\* every session a later addPid will use, must name a proxy of this run of
\* the service, whatever restarts with another configuration came before.
ProxyIndexInRange ==
  /\ \A p \in Pid : pidToProxy[p] # None => pidToProxy[p].proxy \in DOMAIN proxyServers
  /\ \A s \in SessionId : sessions[s] # None =>
       /\ sessions[s].handle \in DOMAIN proxyServers
       /\ proxyServers[sessions[s].handle] = sessions[s].endpoint

\* The traffic of the process that owns a PID now goes to a proxy only if this
\* run of the service agreed to route that very process (PID and creation
\* time) to that very endpoint.  A reused PID, a replaced session, a late
\* handler or a restart must not lend a process the route of another one.
RoutedAsGranted ==
  \A p \in Pid : RouteOf(p) # None =>
    <<p, born[p], proxyServers[RouteOf(p)]>> \in granted

\* What the two invariants above rest on.  A creation time in a request or in
\* the table is that of a process that exists or existed, so no process of
\* the future can match it ...
TimesPast ==
  /\ \A p \in Pid : born[p] <= clock
  /\ \A p \in Pid : pidToProxy[p] # None => pidToProxy[p].created <= clock
  /\ \A c \in Client :
       /\ pipe[c].at \in {"sent", "accepted"}
       /\ pipe[c].req.op = "addPid"
       => pipe[c].req.created <= clock

\* ... and nothing survives the end of the service.
DownMeansEmpty ==
  service = "down" =>
    /\ \A s \in SessionId : sessions[s] = None
    /\ \A p \in Pid : pidToProxy[p] = None

RouteInvariant ==
  TypeOK /\ ProxyIndexInRange /\ RoutedAsGranted /\ TimesPast /\ DownMeansEmpty

\* Steps of the service that answer nobody (the resolver thread's sweep) never
\* change where the traffic of a living process goes.
MaintenanceInvisible ==
  [][UNCHANGED <<born, service, pipe>> => \A p \in Pid : RouteOf(p)' = RouteOf(p)]_vars

\* An entry whose process is gone, or whose PID now belongs to another
\* process, does not stay in the table for ever: cleanup_stale_pid_routes.
StaleEventuallySwept == \A p \in Pid : Stale(p) ~> ~Stale(p)

\* A client that wrote a request is not left waiting: it gets an answer, times
\* out, or sees the connection end, also when the service stops meanwhile.
EveryRequestEnds == \A c \in Client : pipe[c].at \in {"sent", "accepted"} ~> pipe[c].at = "replied"

----------------------------------------------------------------------------
(* What the service promises about routes, whatever sessions, pipes and    *)
(* sweeps it uses for it.                                                  *)

\* The endpoint that the process owning p now is routed to.
Effective == [p \in Pid |-> IF RouteOf(p) = None THEN None ELSE proxyServers[RouteOf(p)]]

Promise == INSTANCE RoutePromise WITH route <- Effective

\* The service implements RoutePromise: in particular a process never starts
\* its life with a route, even on a PID whose last owner was routed.
PromiseKept == Promise!Spec

=============================================================================
