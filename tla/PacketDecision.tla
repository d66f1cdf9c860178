--------------------------- MODULE PacketDecision ---------------------------
(***************************************************************************)
(* Whose packet is it, and is it redirected?  process_tcp_packet() and     *)
(* process_udp_packet() run on the thread of the packet filter and, for    *)
(* packets whose owner is not in the tables of process_lookup, on that of  *)
(* the resolver.  Two threads build the tables anew, the resolver for each *)
(* batch and that of add_pid for each route: what the system has answered  *)
(* is stored later, under another lock.  Every entry is an object of its   *)
(* own, and the decisions cached in it last as long as it does.            *)
(***************************************************************************)
EXTENDS Integers, Sequences

CONSTANTS
  Process, Pid, PidOf,       \* processes; several may use a PID in turn
  Named, Excluded, Opaque,   \* those a pattern matches, the exclusion list
                             \* matches, and those that cannot be opened
  TcpEndpoint, UdpEndpoint,  \* what the tables are keyed by
  Serves,                    \* protocols the proxy has a local server for
  MaxQueue,                  \* bound: packets that wait for the resolver
  MaxAge,                    \* bound: tables stored while a packet is decided
  Nobody

Endpoint == TcpEndpoint \cup UdpEndpoint
Protocol == {"tcp", "udp"}

ASSUME PidAssumption      == PidOf \in [Process -> Pid]
ASSUME EndpointAssumption == TcpEndpoint \cap UdpEndpoint = {}
ASSUME ServesAssumption   == Serves \subseteq Protocol
ASSUME AgeAssumption      == MaxAge \in Nat

FlowThread == {"filter", "resolving"}

VARIABLES
  life,        \* of a process: "new", "live" or "gone"
  owner,       \* the process that uses an endpoint
  hasBound,    \* history: processes that have bound an endpoint
  routes,      \* pid_to_proxy_: the process whose creation time a PID is with
  table,       \* tcp_to_app_ and udp_to_app_
  building,    \* how far the resolver and the thread of add_pid are
  copy,        \* the rows that one of them has read and not stored yet
  protected,   \* {tcp,udp}_protected_apps_: entries younger than two seconds
  unresolved,  \* process_resolve_buffer_queue_
  batch,       \* local_queue
  lookingUp,   \* the resolver thread is "waiting" or has a batch: "busy"
  deciding,    \* the packet of a thread and what is known of its process
  entitled,    \* history: threads whose process has had a route since lookup
  overtaken,   \* history: the rows of add_pid are older than the resolver's
  outdated     \* history: protocols whose table is older than the batch

decisionVars == <<life, owner, hasBound, routes, table, building, copy, protected,
                  unresolved, batch, lookingUp, deciding, entitled, overtaken, outdated>>

Info     == [proc: Process, excluded: BOOLEAN, bypass: BOOLEAN]
Postponed == [endpoint: Endpoint, sender: Process]
Decision == [endpoint: Endpoint, info: Info, age: 0 .. MaxAge,
             step: {"found", "asking", "missed", "pass"}]

ASSUME NobodyIsApart == Nobody \notin Process \cup Info \cup Decision

Builder == {"resolver", "add_pid"}
Rows    == [TcpEndpoint -> Info \cup {Nobody}] \cup [UdpEndpoint -> Info \cup {Nobody}]

DecisionTypeOK ==
  /\ life \in [Process -> {"new", "live", "gone"}]
  /\ owner \in [Endpoint -> Process \cup {Nobody}]
  /\ hasBound \subseteq Process
  /\ routes \in [Pid -> Process \cup {Nobody}]
  /\ table \in [Endpoint -> Info \cup {Nobody}]
  /\ building \in [Builder -> {"idle", "tcp", "tcpRead", "udp", "udpRead"}]
  /\ \A b \in Builder :
       IF building[b] \in {"tcpRead", "udpRead"} THEN copy[b] \in Rows ELSE copy[b] = Nobody
  /\ protected \subseteq Endpoint
  /\ unresolved \in Seq(Postponed) /\ batch \in Seq(Postponed)
  /\ lookingUp \in {"waiting", "busy"}
  /\ deciding \in [FlowThread -> Decision \cup {Nobody}]
  /\ entitled \subseteq FlowThread
  /\ overtaken \in BOOLEAN /\ outdated \subseteq Protocol

\* Processes may run before the router does, at most one with each PID.
DecisionInit ==
  /\ life \in [Process -> {"new", "live"}]
  /\ \A q, r \in Process :
       life[q] = "live" /\ life[r] = "live" /\ PidOf[q] = PidOf[r] => q = r
  /\ owner = [e \in Endpoint |-> Nobody]
  /\ hasBound = {}
  /\ routes = [pid \in Pid |-> Nobody]
  /\ table = [e \in Endpoint |-> Nobody]
  /\ building = [b \in Builder |-> "idle"]
  /\ copy = [b \in Builder |-> Nobody]
  /\ protected = {}
  /\ unresolved = <<>> /\ batch = <<>>
  /\ lookingUp = "waiting"
  /\ deciding = [t \in FlowThread |-> Nobody]
  /\ entitled = {} /\ overtaken = FALSE /\ outdated = {}

----------------------------------------------------------------------------
(* Processes and their sockets *)

world == <<life, owner, hasBound>>
build == <<building, copy, overtaken, outdated>>
flow  == <<protected, unresolved, batch, lookingUp>>

Begins(q) ==
  /\ life[q] = "new"
  /\ \A r \in Process : PidOf[r] = PidOf[q] => life[r] # "live"
  /\ life' = [life EXCEPT ![q] = "live"]
  /\ UNCHANGED <<owner, hasBound, routes, table, build, flow, deciding, entitled>>

\* Threads that decide on a process with this PID.
Concerned(pid) ==
  {t \in FlowThread : deciding[t] # Nobody /\ PidOf[deciding[t].info.proc] = pid}

Exits(q) ==
  /\ life[q] = "live"
  /\ life' = [life EXCEPT ![q] = "gone"]
  /\ owner' = [e \in Endpoint |-> IF owner[e] = q THEN Nobody ELSE owner[e]]
  /\ entitled' = entitled \ Concerned(PidOf[q])
  /\ UNCHANGED <<hasBound, routes, table, build, flow, deciding>>

\* Bound: a process binds an endpoint once.
Binds(q, e) ==
  /\ life[q] = "live" /\ q \notin hasBound
  /\ owner[e] = Nobody
  /\ owner' = [owner EXCEPT ![e] = q]
  /\ hasBound' = hasBound \cup {q}
  /\ UNCHANGED <<life, routes, table, build, flow, deciding, entitled>>

CloseSocket(e) ==
  /\ owner[e] # Nobody
  /\ owner' = [owner EXCEPT ![e] = Nobody]
  /\ UNCHANGED <<life, hasBound, routes, table, build, flow, deciding, entitled>>

----------------------------------------------------------------------------
(* The PID routes.  The pipe server makes its calls one at a time. *)

\* The route is entered; refresh_process_lookups() follows.
RouteAdded(q) ==
  /\ building["add_pid"] = "idle"
  /\ life[q] = "live"
  /\ routes' = [routes EXCEPT ![PidOf[q]] = q]
  /\ building' = [building EXCEPT !["add_pid"] = "tcp"]
  /\ UNCHANGED <<world, table, copy, overtaken, outdated, flow, deciding, entitled>>

RouteRemoved(pid) ==
  /\ building["add_pid"] = "idle"
  /\ routes[pid] # Nobody
  /\ routes' = [routes EXCEPT ![pid] = Nobody]
  /\ entitled' = entitled \ Concerned(pid)
  /\ UNCHANGED <<world, table, build, flow, deciding>>

HasPidRoute(pid) == routes[pid] # Nobody

\* validate_pid_creation_time: the process that has the PID now is the one the
\* entry was made for.
CreationTimeMatches(pid) == life[routes[pid]] = "live"

PidRouted(pid) == HasPidRoute(pid) /\ CreationTimeMatches(pid)

----------------------------------------------------------------------------
(* Decisions *)

\* match_app_name: the exclusion list comes before the pattern.
MatchesName(q) == q \in Named /\ q \notin Excluded

TcpProxyPort(q) == "tcp" \in Serves /\ (PidRouted(PidOf[q]) \/ MatchesName(q))
UdpProxyPort(q) == "udp" \in Serves /\ (PidRouted(PidOf[q]) \/ MatchesName(q))

\* Its side effect on the object, when no PID route comes before the patterns.
MarkedExcluded(q) == ~PidRouted(PidOf[q]) /\ q \in Excluded

ProxyPort(e, q) == IF e \in TcpEndpoint THEN TcpProxyPort(q) ELSE UdpProxyPort(q)

\* Threads that have the object of t: it is that of the table at the age 0.
Shares(t, u) ==
  /\ deciding[u] # Nobody
  /\ deciding[u].endpoint = deciding[t].endpoint /\ deciding[u].age = deciding[t].age

\* What t writes into its object, and what is left for it to do.
Writes(t, info, left) ==
  /\ deciding' = [u \in FlowThread |->
       IF u = t THEN left
       ELSE IF Shares(t, u) THEN [deciding[u] EXCEPT !.info = info] ELSE deciding[u]]
  /\ table' = IF deciding[t].age = 0
              THEN [table EXCEPT ![deciding[t].endpoint] = info] ELSE table

\* A PID route that the proxy can serve and that no mark bars.
Entitled(e) ==
  /\ PidRouted(PidOf[table[e].proc])
  /\ ~table[e].excluded
  /\ (IF e \in TcpEndpoint THEN "tcp" ELSE "udp") \in Serves

Finds(t, e) ==
  /\ deciding' = [deciding EXCEPT ![t] =
       [endpoint |-> e, info |-> table[e], age |-> 0, step |-> "found"]]
  /\ entitled' = IF Entitled(e) THEN entitled \cup {t} ELSE entitled \ {t}

BypassedAnyway(info) == info.bypass

\* A PID route makes the bypass void.
Bypassed(info) == info.bypass /\ ~HasPidRoute(PidOf[info.proc])

\* The decisions that are cached.
Screen(t) ==
  /\ deciding[t] # Nobody /\ deciding[t].step = "found"
  /\ LET passes == deciding[t].info.excluded \/ Bypassed(deciding[t].info)
     IN  deciding' = [deciding EXCEPT ![t].step = IF passes THEN "pass" ELSE "asking"]
  /\ UNCHANGED <<world, routes, table, build, flow, entitled>>

\* get_proxy_port under the lock; whether a direct rule then lets the packet out
\* or a redirect object takes it, it is served and gone.
AskProxy(t) ==
  /\ deciding[t] # Nobody /\ deciding[t].step = "asking"
  /\ LET q    == deciding[t].info.proc
         info == [deciding[t].info EXCEPT !.excluded = @ \/ MarkedExcluded(q)]
     IN  \/ /\ ProxyPort(deciding[t].endpoint, q)
            /\ Writes(t, info, Nobody)
            /\ entitled' = entitled \ {t}
         \/ /\ ~ProxyPort(deciding[t].endpoint, q)
            /\ Writes(t, info, [deciding[t] EXCEPT !.info = info, !.step = "missed"])
            /\ UNCHANGED entitled
  /\ UNCHANGED <<world, routes, build, flow>>

CacheBypass(t) ==
  /\ deciding[t] # Nobody /\ deciding[t].step = "missed"
  /\ LET info == [deciding[t].info EXCEPT !.bypass = TRUE]
     IN  Writes(t, info, [deciding[t] EXCEPT !.info = info, !.step = "pass"])
  /\ UNCHANGED <<world, routes, build, flow, entitled>>

PacketLeaves(t) ==
  /\ deciding[t] # Nobody /\ deciding[t].step = "pass"
  /\ deciding' = [deciding EXCEPT ![t] = Nobody]
  /\ entitled' = entitled \ {t}
  /\ UNCHANGED <<world, routes, table, build, flow>>

----------------------------------------------------------------------------
(* The thread of the packet filter *)

\* A packet of the owner of e: its process is found, or it is one of those
\* that pass for two seconds since the last packet, or the resolver gets it.
SendPacket(e) ==
  /\ owner[e] # Nobody
  /\ deciding["filter"] = Nobody
  /\ \/ /\ table[e] # Nobody
        /\ Finds("filter", e)
        /\ UNCHANGED unresolved
     \/ /\ table[e] = Nobody /\ e \notin protected
        /\ Len(unresolved) < MaxQueue
        /\ unresolved' = Append(unresolved, [endpoint |-> e, sender |-> owner[e]])
        /\ UNCHANGED <<deciding, entitled>>
  /\ UNCHANGED <<world, routes, table, build, protected, batch, lookingUp>>

\* Two seconds without a packet of e.
ProtectionEnds(e) ==
  /\ e \in protected
  /\ protected' = protected \ {e}
  /\ UNCHANGED <<world, routes, table, build, unresolved, batch, lookingUp, deciding,
                 entitled>>

----------------------------------------------------------------------------
(* actualize: the tables are read and stored one after the other *)

\* process_{tcp,udp}_entry: a new object, or none for what cannot be opened.
Row(e) ==
  IF owner[e] = Nobody \/ owner[e] \in Opaque THEN Nobody
  ELSE [proc |-> owner[e], excluded |-> FALSE, bypass |-> FALSE]

TableProtocol(b)  == IF building[b] \in {"tcp", "tcpRead"} THEN "tcp" ELSE "udp"
TableEndpoints(b) == IF TableProtocol(b) = "tcp" THEN TcpEndpoint ELSE UdpEndpoint

\* The second table is left out where no UDP endpoint is modelled: it is empty.
NextTable(b) ==
  IF TableProtocol(b) = "tcp" /\ UdpEndpoint # {} THEN "udp" ELSE "idle"

\* GetExtended{Tcp,Udp}Table and the rows, under the lock of the buffer.
ReadTable(b) ==
  /\ building[b] \in {"tcp", "udp"}
  /\ copy' = [copy EXCEPT ![b] = [e \in TableEndpoints(b) |-> Row(e)]]
  /\ building' = [building EXCEPT ![b] = IF @ = "tcp" THEN "tcpRead" ELSE "udpRead"]
  /\ overtaken' = (b = "resolver" /\ (overtaken \/ building["add_pid"] = building'[b]))
  /\ UNCHANGED <<world, routes, table, outdated, flow, deciding, entitled>>

\* A table that cannot be read stays as it was.
ReadFails(b) ==
  /\ building[b] \in {"tcp", "udp"}
  /\ building' = [building EXCEPT ![b] = NextTable(b)]
  /\ outdated' = IF b = "resolver" THEN outdated \cup {TableProtocol(b)} ELSE outdated
  /\ UNCHANGED <<world, routes, table, copy, overtaken, flow, deciding, entitled>>

\* The objects of the old table live on with the threads that have them.
StoreTable(b) ==
  /\ building[b] \in {"tcpRead", "udpRead"}
  /\ \A t \in FlowThread : deciding[t] # Nobody => deciding[t].age < MaxAge
  /\ LET rows == TableEndpoints(b)
     IN  /\ table' = [e \in Endpoint |-> IF e \in rows THEN copy[b][e] ELSE table[e]]
         /\ deciding' = [t \in FlowThread |->
              IF deciding[t] # Nobody /\ deciding[t].endpoint \in rows
              THEN [deciding[t] EXCEPT !.age = @ + 1] ELSE deciding[t]]
  /\ copy' = [copy EXCEPT ![b] = Nobody]
  /\ building' = [building EXCEPT ![b] = NextTable(b)]
  /\ outdated' = IF b = "resolver" THEN outdated \ {TableProtocol(b)}
                 ELSE IF overtaken THEN outdated \cup {TableProtocol(b)} ELSE outdated
  /\ overtaken' = (b = "resolver" /\ overtaken)
  /\ UNCHANGED <<world, routes, flow, entitled>>

----------------------------------------------------------------------------
(* The resolver *)

SweepRoutes ==
  /\ lookingUp = "waiting"
  /\ routes' = [pid \in Pid |->
       IF HasPidRoute(pid) /\ ~CreationTimeMatches(pid) THEN Nobody ELSE routes[pid]]
  /\ UNCHANGED <<world, table, build, flow, deciding, entitled>>

\* The batch is taken before the tables are read.
TakeBatch ==
  /\ lookingUp = "waiting"
  /\ unresolved # <<>>
  /\ batch' = unresolved /\ unresolved' = <<>>
  /\ lookingUp' = "busy"
  /\ building' = [building EXCEPT !["resolver"] = "tcp"]
  /\ UNCHANGED <<world, routes, table, copy, overtaken, outdated, protected, deciding,
                 entitled>>

Handling == lookingUp = "busy" /\ building["resolver"] = "idle"

\* A packet without an owner passes as one of the system's, and so do those
\* of its endpoint for two seconds.
HandlePostponed ==
  /\ Handling /\ batch # <<>>
  /\ deciding["resolving"] = Nobody
  /\ LET e == Head(batch).endpoint
     IN  IF table[e] # Nobody
         THEN Finds("resolving", e) /\ UNCHANGED protected
         ELSE /\ protected' = protected \cup {e}
              /\ UNCHANGED <<deciding, entitled>>
  /\ batch' = Tail(batch)
  /\ UNCHANGED <<world, routes, table, build, unresolved, lookingUp>>

\* The tables are built anew for the next batch.
BatchDone ==
  /\ Handling /\ batch = <<>>
  /\ deciding["resolving"] = Nobody
  /\ lookingUp' = "waiting" /\ outdated' = {}
  /\ UNCHANGED <<world, routes, table, building, copy, overtaken, protected, unresolved,
                 batch, deciding, entitled>>

----------------------------------------------------------------------------
DecisionNext ==
  \/ \E q \in Process : Begins(q) \/ Exits(q) \/ RouteAdded(q)
  \/ \E q \in Process, e \in Endpoint : Binds(q, e)
  \/ \E pid \in Pid : RouteRemoved(pid)
  \/ \E t \in FlowThread : Screen(t) \/ AskProxy(t) \/ CacheBypass(t) \/ PacketLeaves(t)
  \/ \E e \in Endpoint : CloseSocket(e) \/ SendPacket(e) \/ ProtectionEnds(e)
  \/ \E b \in Builder : ReadTable(b) \/ ReadFails(b) \/ StoreTable(b)
  \/ SweepRoutes \/ TakeBatch \/ HandlePostponed \/ BatchDone

DecisionSpec == DecisionInit /\ [][DecisionNext]_decisionVars

----------------------------------------------------------------------------
(* Properties *)

\* A PID route counts from the next packet on, for a proxy that serves the
\* protocol: neither the bypass that an earlier packet of the same socket has
\* cached, nor the other thread, nor a rebuild of the tables lets it pass.
RouteTakesEffect ==
  \A t \in entitled : deciding[t] # Nobody => deciding[t].step # "pass"

\* The resolver never takes a packet for one of the system's because its
\* tables are older than the packet: the socket that still has the endpoint is
\* in the table the packet is looked up in.  It may be missed when the system
\* could not be asked, and when add_pid stores rows it had read before.
PostponedIsResolved ==
  Handling =>
    \A i \in 1 .. Len(batch) :
      LET e == batch[i].endpoint
          q == batch[i].sender
      IN  /\ owner[e] = q /\ q \notin Opaque
          /\ (IF e \in TcpEndpoint THEN "tcp" ELSE "udp") \notin outdated
          => table[e] # Nobody /\ table[e].proc = q

\* No verdict is older than the route or the tables it should come from.
DecisionIsCurrent == RouteTakesEffect /\ PostponedIsResolved

=============================================================================
