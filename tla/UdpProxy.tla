------------------------------ MODULE UdpProxy ------------------------------
(***************************************************************************)
(* A routed UDP socket and the proxy, known by its source port: the        *)
(* endpoint of socks5_udp_local_redirect, the entry of udp_mapper_ and the *)
(* session of socks5_local_udp_proxy_server, each with a life of its own.  *)
(* process_udp_packet() runs on two threads, and the entry of udp_mapper_  *)
(* is made only for an endpoint that is new.                               *)
(***************************************************************************)
EXTENDS Integers, Sequences

CONSTANTS
  UdpPort,       \* source ports of routed processes
  SessionTtl,    \* five minutes, in ticks
  EndpointTtl,   \* fifteen minutes, in ticks
  MaxInbox,      \* bound: datagrams that wait in the server's socket
  NoSession

ASSUME UdpTtlAssumption ==
  SessionTtl \in Nat /\ EndpointTtl \in Nat /\ SessionTtl < EndpointTtl

Thread == {"filter", "resolver"}

UdpSession == [age: 0 .. SessionTtl + 1, ready: BOOLEAN, listens: BOOLEAN]
UdpHandling == [port: UdpPort, step: {"new", "redirect"}]

ASSUME NoSessionAssumption == NoSession \notin UdpSession \cup UdpHandling

VARIABLES
  endpoints,   \* endpoints_: the age of the entry of a port, or -1
  udpMapper,   \* udp_mapper_
  handling,    \* the port whose datagram a thread handles, and its step
  inbox,       \* redirected datagrams, by source port
  receiving,   \* a WSARecvFrom is outstanding
  serving,     \* end_server_ and stop() of the proxy
  udpSessions, \* proxy_sockets_
  orphans,     \* sessions that have left proxy_sockets_ and still receive
  association  \* history: how an endpoint's attempt at a session has ended

udpVars == <<endpoints, udpMapper, handling, inbox, receiving, serving,
             udpSessions, orphans, association>>

UdpTypeOK ==
  /\ endpoints \in [UdpPort -> -1 .. EndpointTtl + 1]
  /\ udpMapper \subseteq UdpPort
  /\ handling \in [Thread -> UdpHandling \cup {NoSession}]
  /\ inbox \in Seq(UdpPort)
  /\ receiving \in BOOLEAN
  /\ serving \in {"stopped", "running", "ended"}
  /\ udpSessions \in [UdpPort -> UdpSession \cup {NoSession}]
  /\ orphans \subseteq UdpPort
  /\ association \in [UdpPort -> {"none", "made", "failed"}]

UdpInit ==
  /\ endpoints = [p \in UdpPort |-> -1]
  /\ udpMapper = {}
  /\ handling = [t \in Thread |-> NoSession]
  /\ inbox = <<>>
  /\ receiving = FALSE
  /\ serving = "stopped"
  /\ udpSessions = [p \in UdpPort |-> NoSession]
  /\ orphans = {}
  /\ association = [p \in UdpPort |-> "none"]

Known(p)      == endpoints[p] # -1
HasSession(p) == udpSessions[p] # NoSession

----------------------------------------------------------------------------
(* process_udp_packet for a datagram of a routed process *)

Handles(t, p, step) == handling' = [handling EXCEPT ![t] = [port |-> p, step |-> step]]

\* is_new_endpoint() enters the port; a known one is left with its age.
Datagram(t, p) ==
  /\ serving = "running"
  /\ handling[t] = NoSession
  /\ Len(inbox) < MaxInbox
  /\ IF Known(p)
     THEN Handles(t, p, "redirect") /\ UNCHANGED endpoints
     ELSE /\ Handles(t, p, "new")
          /\ endpoints' = [endpoints EXCEPT ![p] = 0]
  /\ UNCHANGED <<udpMapper, inbox, receiving, serving, udpSessions, orphans, association>>

\* Mutant: only the thread of the filter makes the entry.
UdpNotedByFilter(t) ==
  IF t = "filter" THEN udpMapper \cup {handling[t].port} ELSE udpMapper

UdpNoted(t) == udpMapper \cup {handling[t].port}

NoteUdp(t) ==
  /\ handling[t] # NoSession /\ handling[t].step = "new"
  /\ udpMapper' = UdpNoted(t)
  /\ Handles(t, handling[t].port, "redirect")
  /\ UNCHANGED <<endpoints, inbox, receiving, serving, udpSessions, orphans, association>>

Touched(p) == [endpoints EXCEPT ![p] = 0]

\* process_client_to_server_packet(); a fragment, and a datagram whose endpoint
\* has gone meanwhile, pass as they are.  The socket of the proxy may drop what
\* it gets, which is never empty: the header of SOCKS5 was put before it.
RedirectUdp(t) ==
  /\ handling[t] # NoSession /\ handling[t].step = "redirect"
  /\ LET p == handling[t].port
     IN  \/ /\ Known(p)
            /\ endpoints' = Touched(p)
            /\ inbox' \in {inbox, Append(inbox, p)}
         \/ UNCHANGED <<endpoints, inbox>>
  /\ handling' = [handling EXCEPT ![t] = NoSession]
  /\ UNCHANGED <<udpMapper, receiving, serving, udpSessions, orphans, association>>

----------------------------------------------------------------------------
(* The local proxy *)

\* start(): the first receive is posted.  After a stop there is no socket.
StartUdp ==
  /\ serving = "stopped" /\ ~receiving /\ endpoints = [p \in UdpPort |-> -1]
  /\ serving' = "running" /\ receiving' = TRUE
  /\ UNCHANGED <<endpoints, udpMapper, handling, inbox, udpSessions, orphans, association>>

Session(closes) == [age |-> 0, ready |-> closes, listens |-> ~closes]

\* process_receive_buffer_complete(): a send that fails marks the session.
Sends(p) ==
  /\ \E fails \in BOOLEAN :
       udpSessions' = [udpSessions EXCEPT ![p].age = 0, ![p].ready = @ \/ fails]
  /\ UNCHANGED <<udpMapper, association>>

\* The callback of add_socks5_proxy: the proxy's address for an entry, once.
Unnoted(p) == udpMapper \ {p}

\* connect_to_socks5_proxy() or what follows it fails.
NoAssociation(p) ==
  /\ association' = [association EXCEPT ![p] = "failed"]
  /\ UNCHANGED udpSessions

\* start() may fail and mark the session for removal.
Associates(p) ==
  /\ \E closes \in BOOLEAN : udpSessions' = [udpSessions EXCEPT ![p] = Session(closes)]
  /\ association' = [association EXCEPT ![p] = "made"]

\* connect_to_remote_host(): the session of the port, a new one for its entry
\* of udp_mapper_, or none.
Forward(p) ==
  \/ HasSession(p) /\ Sends(p)
  \/ /\ ~HasSession(p) /\ p \in udpMapper
     /\ udpMapper' = Unnoted(p)
     /\ Associates(p) \/ NoAssociation(p)
  \/ /\ ~HasSession(p) /\ p \notin udpMapper
     /\ UNCHANGED <<udpMapper, udpSessions, association>>

\* One receive is posted at a time; when the next one cannot be posted, or the
\* proxy ends, there is none.
ServeDatagram ==
  /\ receiving /\ serving = "running"
  /\ inbox # <<>>
  /\ inbox' = Tail(inbox)
  /\ Forward(Head(inbox))
  /\ receiving' \in BOOLEAN
  /\ UNCHANGED <<endpoints, handling, serving, orphans>>

\* A receive that completes with an error is posted again.
ReceiveError ==
  /\ receiving /\ serving = "running"
  /\ receiving' = FALSE
  /\ UNCHANGED <<endpoints, udpMapper, handling, inbox, serving, udpSessions,
                 orphans, association>>

\* process_server_to_client_packet() of the redirection.
TurnedRound(p) == IF Known(p) THEN Touched(p) ELSE endpoints

\* A reply refreshes the session and goes to the port; the next receive is
\* posted.  Either may fail, which marks the session.
Reply(p) ==
  /\ serving = "running"
  /\ \E sent, more \in BOOLEAN :
       /\ \/ /\ HasSession(p) /\ udpSessions[p].listens
             /\ udpSessions' = [udpSessions EXCEPT
                  ![p] = [age |-> 0, ready |-> @.ready \/ ~sent \/ ~more, listens |-> more]]
          \/ p \in orphans /\ UNCHANGED udpSessions
       /\ endpoints' = IF sent THEN TurnedRound(p) ELSE endpoints
  /\ UNCHANGED <<udpMapper, handling, inbox, receiving, serving,
                 orphans, association>>

Removable(p) == HasSession(p) /\ (udpSessions[p].ready \/ udpSessions[p].age > SessionTtl)

\* The contexts of a session hold it: it leaves the map, but is not destroyed.
Removes(ports) ==
  /\ udpSessions' = [p \in UdpPort |-> IF p \in ports THEN NoSession ELSE udpSessions[p]]
  /\ orphans' = orphans \cup {p \in ports : udpSessions[p].listens}
  /\ association' = [p \in UdpPort |->
       IF p \in ports /\ udpSessions[p].ready THEN "failed" ELSE association[p]]

ClearUdpSessions ==
  /\ serving = "running"
  /\ \E p \in UdpPort : Removable(p)
  /\ Removes({p \in UdpPort : Removable(p)})
  /\ UNCHANGED <<endpoints, udpMapper, handling, inbox, receiving, serving>>

EndUdp ==
  /\ serving = "running"
  /\ serving' = "ended"
  /\ receiving' = FALSE
  /\ inbox' = <<>>
  /\ UNCHANGED <<endpoints, udpMapper, handling, udpSessions, orphans, association>>

StopUdp ==
  /\ serving = "ended"
  /\ serving' = "stopped"
  /\ Removes({p \in UdpPort : HasSession(p)})
  /\ UNCHANGED <<endpoints, udpMapper, handling, inbox, receiving>>

----------------------------------------------------------------------------
(* The cleanup thread of the redirection, and time *)

Forgotten == {p \in UdpPort : endpoints[p] > EndpointTtl}

ForgetEndpoints ==
  /\ Forgotten # {}
  /\ endpoints' = [p \in UdpPort |-> IF p \in Forgotten THEN -1 ELSE endpoints[p]]
  /\ association' = [p \in UdpPort |->
       IF p \in Forgotten THEN "none" ELSE association[p]]
  /\ UNCHANGED <<udpMapper, handling, inbox, receiving, serving, udpSessions,
                 orphans>>

Aged(a, top) == IF a = -1 \/ a = top THEN a ELSE a + 1

\* Bound: a datagram is handled, and the cleanup threads run, within a tick.
UdpTick ==
  /\ serving = "running"
  /\ inbox = <<>>
  /\ \A t \in Thread : handling[t] = NoSession
  /\ Forgotten = {} /\ \A p \in UdpPort : ~Removable(p)
  /\ endpoints' = [p \in UdpPort |-> Aged(endpoints[p], EndpointTtl + 1)]
  /\ udpSessions' = [p \in UdpPort |->
       IF HasSession(p)
       THEN [udpSessions[p] EXCEPT !.age = Aged(@, SessionTtl + 1)]
       ELSE NoSession]
  /\ UNCHANGED <<udpMapper, handling, inbox, receiving, serving,
                 orphans, association>>

----------------------------------------------------------------------------
UdpNext ==
  \/ \E t \in Thread :
       \/ \E p \in UdpPort : Datagram(t, p)
       \/ NoteUdp(t) \/ RedirectUdp(t)
  \/ StartUdp \/ ServeDatagram \/ ReceiveError
  \/ \E p \in UdpPort : Reply(p)
  \/ ClearUdpSessions \/ EndUdp \/ StopUdp
  \/ ForgetEndpoints \/ UdpTick

UdpSpec == UdpInit /\ [][UdpNext]_udpVars

----------------------------------------------------------------------------
(* Properties *)

Noting(p) == \E t \in Thread : handling[t] # NoSession /\ handling[t].port = p
                                 /\ handling[t].step = "new"

\* An endpoint has its entry of udp_mapper_ until a session was first tried for
\* it: no order of the two threads, of the server and of the cleanup loses it.
EntryAwaitsFirstUse ==
  \A p \in UdpPort :
    Known(p) /\ ~Noting(p) /\ association[p] = "none" => p \in udpMapper

\* A session in use outlives neither its endpoint nor the way back of its
\* replies, although the two are refreshed and removed by different threads.
RepliesFindEndpoint ==
  \A p \in UdpPort :
    HasSession(p) /\ udpSessions[p].age <= SessionTtl => Known(p)

\* process_udp_packet and the threads that forget a port at three different
\* times: the first datagram of an endpoint finds the entry to make a session
\* from, and a reply of a session in use finds the endpoint.
UdpTablesAgree == EntryAwaitsFirstUse /\ RepliesFindEndpoint

\* is_new_endpoint() "checks if the UDP session for the given packet is new": a
\* datagram that was redirected finds a session of its port or an entry to make
\* one from, also on a port that has been used before, if nothing has failed.
RedirectedIsServed ==
  serving = "running" => \A i \in DOMAIN inbox :
    LET p == inbox[i]
    IN  HasSession(p) \/ p \in udpMapper \/ Noting(p) \/ association[p] = "failed"

=============================================================================
