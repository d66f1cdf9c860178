---------------------------- MODULE StaticFilters ----------------------------
(* The packets that the driver passes by itself, without a look of the        *)
(* router: ICMP, on request the local network, and the traffic of the proxies *)
(* to their SOCKS servers, which would otherwise be redirected to the proxies *)
(* again. The router asks for filters one call at a time, converts each to    *)
(* the layers the driver knows, and ignores whether the driver took it.       *)
EXTENDS Naturals, Sequences
LOCAL INSTANCE SequencesExt

CONSTANTS
  SocksServer,        \* the hosts of the SOCKS servers, each at port "socks"
  MaxAdds,         \* bound: calls of add_socks5_proxy
  MaxRefusals      \* bound: calls the driver refuses

ASSUME StaticFiltersAssumption ==
  MaxAdds \in Nat /\ MaxRefusals \in Nat /\ SocksServer \cap {"here", "lan", "internet", "any"} = {}

VARIABLES
  driverTable,      \* driver: the converted filters, in the order they are tried
  filters,    \* filters_
  pendingCalls,    \* the calls that the running operation still makes
  servers,    \* the endpoints in proxy_servers_
  bypassLan,  \* set_bypass_lan was called
  asked,      \* the proxies that were asked for, with their protocols, in order
  refused     \* filters that the driver has refused

staticVars == <<driverTable, filters, pendingCalls, servers, bypassLan, asked, refused>>

\* What a filter of the class asks for; "any" is a field that was not set, and
\* the port is that of the destination, the only one the program sets.
AnyFilter == [direction |-> {"send", "receive"}, source |-> "any", dest |-> "any",
              protocol |-> "any", port |-> "any"]

Icmp == [AnyFilter EXCEPT !.protocol = "icmp"]
LanIn  == [AnyFilter EXCEPT !.direction = {"receive"}, !.source = "lan"]
LanOut == [AnyFilter EXCEPT !.direction = {"send"}, !.dest = "lan"]

\* create_filter: the filter for what comes in has the server as destination too.
ToServer(protocol, direction, e) ==
  [direction |-> direction, source |-> "any", dest |-> e, protocol |-> protocol,
   port |-> "socks"]

BothWays(protocol, e) ==
  << <<"back", ToServer(protocol, {"send"}, e)>>,
     <<"back", ToServer(protocol, {"receive"}, e)>> >>

\* Mutant: ports count as set only for a filter that has a source as well.
PortNeedsSource(f) ==
  [directions |-> f.direction,
   network    |-> {f.source, f.dest, f.protocol} # {"any"},
   source     |-> f.source, dest |-> f.dest, protocol |-> f.protocol,
   transport  |-> f.port # "any" /\ f.source # "any",
   selector   |-> IF f.protocol \in {"tcp", "udp"} THEN "tcpudp" ELSE "none",
   port       |-> f.port]

\* The layers of the driver's form are valid when one of their fields is set.
ToStaticFilter(f) ==
  [directions |-> f.direction,
   network    |-> {f.source, f.dest, f.protocol} # {"any"},
   source     |-> f.source, dest |-> f.dest, protocol |-> f.protocol,
   transport  |-> f.port # "any",
   selector   |-> IF f.protocol \in {"tcp", "udp"} THEN "tcpudp" ELSE "none",
   port       |-> f.port]

StaticInit ==
  /\ driverTable = <<>> /\ filters = <<>> /\ servers = <<>>
  /\ pendingCalls = << <<"back", Icmp>> >>
  /\ bypassLan = FALSE /\ asked = <<>> /\ refused = 0

\* add_filter_front and add_filter_back: filters_ follows the driver.
AddFilter ==
  /\ pendingCalls # <<>>
  /\ LET f == Head(pendingCalls)[2]
         Added(s, x) == IF Head(pendingCalls)[1] = "front" THEN <<x>> \o s ELSE Append(s, x)
     IN  \/ /\ driverTable' = Added(driverTable, ToStaticFilter(f))
            /\ filters' = Added(filters, f)
            /\ UNCHANGED refused
         \/ /\ refused < MaxRefusals
            /\ refused' = refused + 1
            /\ UNCHANGED <<driverTable, filters>>
  /\ pendingCalls' = Tail(pendingCalls)
  /\ UNCHANGED <<servers, bypassLan, asked>>

SetBypassLan ==
  /\ pendingCalls = <<>> /\ ~bypassLan
  /\ bypassLan' = TRUE
  /\ pendingCalls' = << <<"front", LanIn>>, <<"front", LanOut>> >>
  /\ UNCHANGED <<driverTable, filters, servers, asked, refused>>

\* The server comes last, and its filters stay when it cannot be made.
AddSocks5Proxy(e, protocols) ==
  /\ pendingCalls = <<>> /\ Len(asked) < MaxAdds
  /\ asked' = Append(asked, <<e, protocols>>)
  /\ pendingCalls' = BothWays("tcp", e)
                  \o (IF protocols \in {"both", "udp"} THEN BothWays("udp", e) ELSE <<>>)
  /\ servers' \in {servers, Append(servers, e)}
  /\ UNCHANGED <<driverTable, filters, bypassLan, refused>>

\* ~static_filters resets the table of the driver; the next router starts anew.
Restart ==
  /\ pendingCalls = <<>>
  /\ driverTable' = <<>> /\ filters' = <<>> /\ servers' = <<>>
  /\ pendingCalls' = << <<"back", Icmp>> >>
  /\ bypassLan' = FALSE /\ asked' = <<>> /\ refused' = 0

StaticNext ==
  \/ AddFilter \/ SetBypassLan \/ Restart
  \/ \E e \in SocksServer, protocols \in {"both", "tcp", "udp"} : AddSocks5Proxy(e, protocols)

StaticSpec == StaticInit /\ [][StaticNext]_staticVars

-----------------------------------------------------------------------------
StaticTypeOK ==
  /\ Len(driverTable) = Len(filters)
  /\ \A i \in DOMAIN driverTable : driverTable[i] = ToStaticFilter(filters[i])
  /\ servers \in Seq(SocksServer) /\ Len(servers) <= Len(asked)
  /\ asked \in Seq(SocksServer \X {"both", "tcp", "udp"}) /\ Len(asked) <= MaxAdds
  /\ bypassLan \in BOOLEAN /\ refused \in 0 .. MaxRefusals

\* A packet of the host: its peer, and the ports it comes from and is sent to.
Packet == [direction : {"send", "receive"}, peer : {"lan", "internet"} \cup SocksServer,
           protocol : {"tcp", "udp", "icmp"},
           sourcePort : {"socks", "other"}, destPort : {"socks", "other"}]

SourceOf(packet) == IF packet.direction = "send" THEN "here" ELSE packet.peer
DestOf(packet)   == IF packet.direction = "send" THEN packet.peer ELSE "here"

\* The driver: every valid layer of the filter must match the packet.
Matches(s, packet) ==
  /\ packet.direction \in s.directions
  /\ s.network => /\ s.source \in {"any", SourceOf(packet)}
                  /\ s.dest \in {"any", DestOf(packet)}
                  /\ s.protocol \in {"any", packet.protocol}
  /\ s.transport => s.selector = "tcpudp" /\ s.port \in {"any", packet.destPort}

Passed(packet) == \E s \in ToSet(driverTable) : Matches(s, packet)

PeerAsked(packet) ==
  \E x \in ToSet(asked) : /\ x[1] = packet.peer
                          /\ packet.protocol = "udp" => x[2] \in {"both", "udp"}

ToSocks(packet) ==
  packet.direction = "send" /\ packet.destPort = "socks" /\ PeerAsked(packet)
FromSocks(packet) ==
  packet.direction = "receive" /\ packet.sourcePort = "socks" /\ PeerAsked(packet)

MustPass(packet) ==
  packet.protocol = "icmp" \/ (bypassLan /\ packet.peer = "lan") \/ ToSocks(packet)

\* What was asked for is in the driver, as far as the driver took it.
TakenByDriver == pendingCalls = <<>> /\ refused = 0

\* add_socks5_proxy and add_lan_passover_filters_v4: at no time does the driver
\* pass a packet around the router that nobody asked it to pass, and unless it
\* refused a filter it passes what is sent to a SOCKS server's port, ICMP and the
\* local network, however the calls are ordered.  The replies of a SOCKS server,
\* which add_socks5_proxy asks for as well, it may pass; that it does is not
\* claimed, as the filters meant for them name the server as destination.
DriverPassesWhatIsAsked ==
  \A packet \in Packet :
    /\ Passed(packet) => MustPass(packet) \/ FromSocks(packet)
    /\ MustPass(packet) /\ TakenByDriver => Passed(packet)

=============================================================================
