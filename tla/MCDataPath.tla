----------------------------- MODULE MCDataPath -----------------------------
(* The components of the data path for TLC, each on its own: part says      *)
(* which one moves, and the variables of the others keep their values.      *)
EXTENDS TcpRelay, TcpRedirect, TcpProxyServer, CompletionPort,
        Socks5Negotiation, UdpProxy, PacketDecision, OwnerResolver,
        AdapterFilter, StaticFilters, HandleTable, DirectRules, Checksum,
        PacketPool, LogDelivery

CONSTANTS pt, h1, s1, s2, s3, c1, c2, c3, w1, w2, o1, o2,
          a, b, e1, q1, q2, q3, noTag, svc,
          x1, x2, n1, y1, y2, y3, d1, d2, v1, v2, v3

\* One port of the host is one that a direct rule matches.
MCDirect == {[host |-> h1, service |-> s3]}

\* One PID that two processes have in turn; the first one, which runs before
\* the router does, is named by a pattern and is on the exclusion list.
MCPidOf == [q \in {a, b} |-> 1]
MCLife  == [q \in {a, b} |-> IF q = b THEN "live" ELSE "new"]

\* Two processes that share a PID, and another one.
MCNumberOf == [q \in {q1, q2, q3} |-> IF q = q3 THEN 2 ELSE 1]

\* Half of the addresses, a single one, and a text that is no network.
MCCidr == {[address |-> {1, 2}, prefix |-> 1], [address |-> {2}, prefix |-> NoSlash],
           [address |-> {1}, prefix |-> 3]}

\* Three classes of packets.
MCCapacity == <<1, 3, 5>>

Part == {"relay", "redirect", "server", "port", "socks", "udp", "decision",
         "resolver", "adapters", "filters", "handles", "rules", "checksum",
         "pool", "log"}

VARIABLE part

\* The packet that lies still while another part moves.
NoPayload == [protocol |-> "udp", source |-> 0, dest |-> 0, sourcePort |-> 0,
              destPort |-> 0, payload |-> <<>>, segmentSum |-> 0, ipSum |-> 0]

MCInit ==
  /\ part \in Part
  /\ RelayInit /\ RedirectInit /\ ServerInit /\ PortInit /\ SocksInit /\ UdpInit
  /\ life = MCLife /\ DecisionInit
  /\ ResolverInit /\ StaticInit /\ HandleInit /\ RulesInit
  /\ bound = {x1} /\ AdapterInit
  /\ IF part = "checksum" THEN ChecksumInit
     ELSE packet = NoPayload /\ behind = 0 /\ rewritten = FALSE
  /\ PoolInit /\ LogInit
  /\ part # "socks" => dialogue = "connect" /\ credentials = "none"

Moves(name) == part = name /\ UNCHANGED part

MCNext ==
  \/ /\ Moves("relay") /\ RelayNext
     /\ UNCHANGED <<redirectVars, serverVars, portVars, socksVars, udpVars,
                    decisionVars, resolverVars, adapterVars, staticVars,
                    handleVars, ruleVars, checksumVars, poolVars, logVars>>
  \/ /\ Moves("redirect") /\ RedirectNext
     /\ UNCHANGED <<relayVars, serverVars, portVars, socksVars, udpVars,
                    decisionVars, resolverVars, adapterVars, staticVars,
                    handleVars, ruleVars, checksumVars, poolVars, logVars>>
  \/ /\ Moves("server") /\ ServerNext
     /\ UNCHANGED <<relayVars, redirectVars, portVars, socksVars, udpVars,
                    decisionVars, resolverVars, adapterVars, staticVars,
                    handleVars, ruleVars, checksumVars, poolVars, logVars>>
  \/ /\ Moves("port") /\ PortNext
     /\ UNCHANGED <<relayVars, redirectVars, serverVars, socksVars, udpVars,
                    decisionVars, resolverVars, adapterVars, staticVars,
                    handleVars, ruleVars, checksumVars, poolVars, logVars>>
  \/ /\ Moves("socks") /\ SocksNext
     /\ UNCHANGED <<relayVars, redirectVars, serverVars, portVars, udpVars,
                    decisionVars, resolverVars, adapterVars, staticVars,
                    handleVars, ruleVars, checksumVars, poolVars, logVars>>
  \/ /\ Moves("udp") /\ UdpNext
     /\ UNCHANGED <<relayVars, redirectVars, serverVars, portVars, socksVars,
                    decisionVars, resolverVars, adapterVars, staticVars,
                    handleVars, ruleVars, checksumVars, poolVars, logVars>>
  \/ /\ Moves("decision") /\ DecisionNext
     /\ UNCHANGED <<relayVars, redirectVars, serverVars, portVars, socksVars,
                    udpVars, resolverVars, adapterVars, staticVars, handleVars,
                    ruleVars, checksumVars, poolVars, logVars>>
  \/ /\ Moves("resolver") /\ ResolverNext
     /\ UNCHANGED <<relayVars, redirectVars, serverVars, portVars, socksVars,
                    udpVars, decisionVars, adapterVars, staticVars, handleVars,
                    ruleVars, checksumVars, poolVars, logVars>>
  \/ /\ Moves("adapters") /\ AdapterNext
     /\ UNCHANGED <<relayVars, redirectVars, serverVars, portVars, socksVars,
                    udpVars, decisionVars, resolverVars, staticVars,
                    handleVars, ruleVars, checksumVars, poolVars, logVars>>
  \/ /\ Moves("filters") /\ StaticNext
     /\ UNCHANGED <<relayVars, redirectVars, serverVars, portVars, socksVars,
                    udpVars, decisionVars, resolverVars, adapterVars,
                    handleVars, ruleVars, checksumVars, poolVars, logVars>>
  \/ /\ Moves("handles") /\ HandleNext
     /\ UNCHANGED <<relayVars, redirectVars, serverVars, portVars, socksVars,
                    udpVars, decisionVars, resolverVars, adapterVars,
                    staticVars, ruleVars, checksumVars, poolVars, logVars>>
  \/ /\ Moves("rules") /\ RulesNext
     /\ UNCHANGED <<relayVars, redirectVars, serverVars, portVars, socksVars,
                    udpVars, decisionVars, resolverVars, adapterVars,
                    staticVars, handleVars, checksumVars, poolVars, logVars>>
  \/ /\ Moves("checksum") /\ ChecksumNext
     /\ UNCHANGED <<relayVars, redirectVars, serverVars, portVars, socksVars,
                    udpVars, decisionVars, resolverVars, adapterVars,
                    staticVars, handleVars, ruleVars, poolVars, logVars>>
  \/ /\ Moves("pool") /\ PoolNext
     /\ UNCHANGED <<relayVars, redirectVars, serverVars, portVars, socksVars,
                    udpVars, decisionVars, resolverVars, adapterVars,
                    staticVars, handleVars, ruleVars, checksumVars, logVars>>
  \/ /\ Moves("log") /\ LogNext
     /\ UNCHANGED <<relayVars, redirectVars, serverVars, portVars, socksVars,
                    udpVars, decisionVars, resolverVars, adapterVars,
                    staticVars, handleVars, ruleVars, checksumVars, poolVars>>

MCVars == <<part, relayVars, redirectVars, serverVars, portVars, socksVars, udpVars,
            decisionVars, resolverVars, adapterVars, staticVars, handleVars,
            ruleVars, checksumVars, poolVars, logVars>>

MCSpec == MCInit /\ [][MCNext]_MCVars

\* The state of every component is one its code can be in.
DataPathTypeOK ==
  CASE part = "relay"    -> RelayTypeOK
    [] part = "redirect" -> RedirectTypeOK
    [] part = "server"   -> ServerTypeOK
    [] part = "port"     -> PortTypeOK
    [] part = "socks"    -> SocksTypeOK
    [] part = "udp"      -> UdpTypeOK
    [] part = "decision" -> DecisionTypeOK
    [] part = "resolver" -> ResolverTypeOK
    [] part = "adapters" -> AdapterTypeOK
    [] part = "filters"  -> StaticTypeOK
    [] part = "handles"  -> HandleTypeOK
    [] part = "rules"    -> RulesTypeOK
    [] part = "checksum" -> ChecksumTypeOK
    [] part = "pool"     -> PoolTypeOK
    [] part = "log"      -> LogTypeOK

=============================================================================
