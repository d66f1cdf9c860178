----------------------------- MODULE TcpRedirect -----------------------------
(***************************************************************************)
(* From the SYN of a routed application to the connection of the proxy:    *)
(* process_tcp_packet() notes the destination of a SYN in tcp_mapper_      *)
(* under the source port and tcp_local_redirect turns its packets round to *)
(* the local proxy; when that one has accepted the connection it asks for  *)
(* the destination by the port of its peer, which is the source port.      *)
(***************************************************************************)
EXTENDS Integers, Sequences

CONSTANTS
  Port,           \* source ports of the routed process
  Host, Service,  \* addresses and ports of destinations
  DirectDest,     \* destinations a direct rule of the process matches
  MapperTtl,      \* tcp_mapper_entry_ttl_, in ticks
  RedirectTtl,    \* five minutes, in ticks
  Reordering,     \* a SYN may overtake an older one that awaits the resolver
  NoEntry

Dest == [host: Host, service: Service]

ASSUME DirectAssumption == DirectDest \subseteq Dest
ASSUME TtlAssumption    ==
  MapperTtl \in Nat /\ RedirectTtl \in Nat /\ MapperTtl < RedirectTtl
ASSUME NoEntryAssumption == NoEntry \notin [dest: Dest, state: {"connecting", "open"}]
ASSUME OrderAssumption  == Reordering \in BOOLEAN

VARIABLES
  mapper,      \* tcp_mapper_: the destination of a port and the entry's age
  redirected,  \* redirected_connections_: (host, source port) to the service
  postponed,   \* SYNs in the queue of the resolver
  waited,      \* time the resolver has waited for its condition variable
  unswept,     \* time since last_sweep
  conn,        \* the application's connection of a port
  backlog      \* connections that await WSAAccept: peer, and whether it lives

redirectVars == <<mapper, redirected, postponed, waited, unswept, conn,
                  backlog>>

Syn    == [port: Port, dest: Dest]
Old    == MapperTtl + 1      \* ages are counted up to here
Period == MapperTtl \div 2   \* maintenance_interval

\* The bound of an entry's life that the comment on the sweep states.
EvictionBound == MapperTtl + (3 * MapperTtl) \div 2

RedirectTypeOK ==
  /\ mapper \in [Port -> [dest: Dest, age: 0 .. EvictionBound + 1] \cup {NoEntry}]
  /\ redirected \in [Host \X Port -> [service: Service, age: 0 .. RedirectTtl + 1]
                                       \cup {NoEntry}]
  /\ postponed \in Seq(Syn)
  /\ waited \in 0 .. Period
  /\ unswept \in Nat
  /\ conn \in [Port -> [dest: Dest, state: {"connecting", "open"}] \cup {NoEntry}]
  /\ backlog \subseteq [syn: Syn, live: BOOLEAN]

RedirectInit ==
  /\ mapper = [p \in Port |-> NoEntry]
  /\ redirected = [k \in Host \X Port |-> NoEntry]
  /\ postponed = <<>>
  /\ waited = 0
  /\ unswept = 0
  /\ conn = [p \in Port |-> NoEntry]
  /\ backlog = {}

----------------------------------------------------------------------------
(* tcp_local_redirect *)

Key(syn) == <<syn.dest.host, syn.port>>

Keep(k)   == redirected[k] # NoEntry
Erased(k) == [redirected EXCEPT ![k] = NoEntry]

Refreshed(k) == [redirected EXCEPT ![k].age = 0]

\* emplace() of process_client_to_server_packet: an entry that is there stays.
Emplaced(syn) ==
  [redirected EXCEPT ![Key(syn)] = [service |-> syn.dest.service, age |-> 0]]

----------------------------------------------------------------------------
(* process_tcp_packet for a SYN *)

NotedOnce(syn) ==
  IF mapper[syn.port] # NoEntry THEN mapper
  ELSE [mapper EXCEPT ![syn.port] = [dest |-> syn.dest, age |-> 0]]

Noted(syn) == [mapper EXCEPT ![syn.port] = [dest |-> syn.dest, age |-> 0]]

\* The listening socket of the proxy completes the handshake by itself; live:
\* the application still wants the connection.
Listening(syn, wanted) == backlog \cup {[syn |-> syn, live |-> wanted]}

\* A SYN whose entry exists is passed on to the destination as it is.
HandleSyn(syn, wanted) ==
  IF syn.dest \in DirectDest
  THEN UNCHANGED <<mapper, redirected, backlog>>
  ELSE /\ mapper' = Noted(syn)
       /\ IF Keep(Key(syn))
          THEN UNCHANGED <<redirected, backlog>>
          ELSE redirected' = Emplaced(syn) /\ backlog' = Listening(syn, wanted)

\* lookup_process_for_tcp misses: the packet goes to the resolver.  Without
\* Reordering a SYN that is handled at once has none of its port before it.
Arrives(syn) ==
  \/ /\ Reordering \/ \A i \in 1 .. Len(postponed) : postponed[i].port # syn.port
     /\ HandleSyn(syn, TRUE)
     /\ UNCHANGED postponed
  \/ /\ Len(postponed) < 2                          \* bound: two SYNs wait
     /\ postponed' = Append(postponed, syn)
     /\ UNCHANGED <<mapper, redirected, backlog>>

----------------------------------------------------------------------------
(* The application *)

Connect(p, d) ==
  /\ conn[p] = NoEntry
  /\ conn' = [conn EXCEPT ![p] = [dest |-> d, state |-> "connecting"]]
  /\ Arrives([port |-> p, dest |-> d])
  /\ UNCHANGED <<waited, unswept>>

Retransmit(p) ==
  /\ conn[p] # NoEntry
  /\ conn[p].state = "connecting"
  /\ Arrives([port |-> p, dest |-> conn[p].dest])
  /\ UNCHANGED <<waited, unswept, conn>>

Connection(p) == <<conn[p].dest.host, p>>

\* SYN-ACK of the local proxy: process_server_to_client_packet restores the
\* service of the entry; the application answers to nobody else.
HandshakeDone(p) ==
  /\ conn[p] # NoEntry
  /\ conn[p].state = "connecting"
  /\ Keep(Connection(p))
  /\ redirected[Connection(p)].service = conn[p].dest.service
  /\ conn' = [conn EXCEPT ![p].state = "open"]
  /\ redirected' = Refreshed(Connection(p))
  /\ UNCHANGED <<mapper, postponed, waited, unswept, backlog>>

\* The destination itself answers a SYN that was passed on.
AnsweredDirectly(p) ==
  /\ conn[p] # NoEntry
  /\ conn[p].state = "connecting"
  /\ conn' = [conn EXCEPT ![p].state = "open"]
  /\ UNCHANGED <<mapper, redirected, postponed, waited, unswept, backlog>>

\* A packet of an open connection, either way.
Transfer(p) ==
  /\ conn[p] # NoEntry
  /\ conn[p].state = "open"
  /\ Keep(Connection(p))
  /\ redirected' = Refreshed(Connection(p))
  /\ UNCHANGED <<mapper, postponed, waited, unswept, conn, backlog>>

Dead(p) == {IF b.syn.port = p THEN [b EXCEPT !.live = FALSE] ELSE b : b \in backlog}

\* FIN or RST of an open connection; a socket that still connects is closed
\* without a packet.
Disconnect(p) ==
  /\ conn[p] # NoEntry
  /\ conn' = [conn EXCEPT ![p] = NoEntry]
  /\ redirected' = IF conn[p].state = "open" THEN Erased(Connection(p)) ELSE redirected
  /\ backlog' = Dead(p)
  /\ UNCHANGED <<mapper, postponed, waited, unswept>>

----------------------------------------------------------------------------
(* The local proxy: start_proxy_thread, get_remote_peer and the callback *)

\* Nothing known of the port: the accepted socket is closed, and its FIN ends
\* the connection of the application.
Rejects(b) ==
  /\ mapper' = [mapper EXCEPT ![b.syn.port] = NoEntry]
  /\ conn' = IF b.live THEN [conn EXCEPT ![b.syn.port] = NoEntry] ELSE conn
  /\ redirected' = Erased(Key(b.syn))

Expired(p) == mapper[p].age > MapperTtl

\* The destination of the entry is the target of the negotiation.
Negotiates(b) ==
  /\ mapper' = [mapper EXCEPT ![b.syn.port] = NoEntry]
  /\ UNCHANGED <<conn, redirected>>

\* A connection whose peer has gone may be accepted or not.
Accept(b) ==
  /\ b \in backlog
  /\ backlog' = backlog \ {b}
  /\ IF mapper[b.syn.port] = NoEntry \/ Expired(b.syn.port)
     THEN Rejects(b)
     ELSE Negotiates(b)
  /\ UNCHANGED <<postponed, waited, unswept>>

Discarded(b) ==
  /\ b \in backlog /\ ~b.live
  /\ backlog' = backlog \ {b}
  /\ UNCHANGED <<mapper, redirected, postponed, waited, unswept, conn>>

----------------------------------------------------------------------------
(* The resolver thread and the cleanup thread *)

SweepDue == unswept >= Period

Swept(m) == [p \in Port |-> IF m[p] = NoEntry \/ m[p].age <= MapperTtl
                            THEN m[p] ELSE NoEntry]

\* last_sweep is assigned when the sweep runs.
LastSweep == IF SweepDue THEN 0 ELSE unswept

\* Woken by a packet or by the timeout of its wait: the sweep when it is due,
\* then the packets.
ResolverWakes ==
  /\ postponed # <<>> \/ waited = Period
  /\ waited' = 0
  /\ unswept' = LastSweep
  /\ mapper' = IF SweepDue THEN Swept(mapper) ELSE mapper
  /\ UNCHANGED <<redirected, postponed, conn, backlog>>

Wanted(syn) == conn[syn.port] # NoEntry /\ conn[syn.port].dest = syn.dest

ResolverHandles ==
  /\ postponed # <<>>
  /\ HandleSyn(Head(postponed), Wanted(Head(postponed)))
  /\ postponed' = Tail(postponed)
  /\ UNCHANGED <<waited, unswept, conn>>

CleanupConnections ==
  /\ \E k \in DOMAIN redirected : Keep(k) /\ redirected[k].age > RedirectTtl
  /\ redirected' = [k \in DOMAIN redirected |->
       IF Keep(k) /\ redirected[k].age > RedirectTtl THEN NoEntry ELSE redirected[k]]
  /\ UNCHANGED <<mapper, postponed, waited, unswept, conn, backlog>>

Older(e, top) == IF e = NoEntry \/ e.age = top THEN e ELSE [e EXCEPT !.age = @ + 1]

\* The resolver waits for one maintenance interval at most.
Tick ==
  /\ waited < Period
  /\ waited' = waited + 1
  /\ unswept' = unswept + 1
  /\ mapper' = [p \in Port |-> Older(mapper[p], EvictionBound + 1)]
  /\ redirected' = [k \in DOMAIN redirected |-> Older(redirected[k], RedirectTtl + 1)]
  /\ UNCHANGED <<postponed, conn, backlog>>
----------------------------------------------------------------------------
Application(p) ==
  \/ \E d \in Dest : Connect(p, d)
  \/ Retransmit(p) \/ Disconnect(p)
  \/ HandshakeDone(p) \/ AnsweredDirectly(p) \/ Transfer(p)

RedirectNext ==
  \/ \E p \in Port : Application(p)
  \/ \E b \in backlog : Accept(b) \/ Discarded(b)
  \/ ResolverWakes \/ ResolverHandles
  \/ CleanupConnections \/ Tick

RedirectSpec == RedirectInit /\ [][RedirectNext]_redirectVars

----------------------------------------------------------------------------
(* Properties *)

\* A connection that the application still wants is taken to the destination
\* it asked for: the callback of add_socks5_proxy reads tcp_mapper_, keyed by
\* the source port alone, long after process_tcp_packet has written it.
TargetIsRequested ==
  \A b \in backlog :
    LET p == b.syn.port
    IN  b.live /\ mapper[p] # NoEntry /\ ~Expired(p) => mapper[p].dest = b.syn.dest

\* The resolver evicts an entry within one and a half times the time to live
\* of its becoming stale, however often packets wake it in between.
EvictedInTime ==
  \A p \in Port : mapper[p] # NoEntry => mapper[p].age <= EvictionBound

\* An entry of tcp_mapper_ is there, with what was asked last, for as long as a
\* connection may ask for it, and no longer than a bound.
MapperServesConnections == TargetIsRequested /\ EvictedInTime

=============================================================================
