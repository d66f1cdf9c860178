-------------------------- MODULE PacketPath_proofs --------------------------
(***************************************************************************)
(* Proofs about the parts that a packet and its connection meet: the UDP   *)
(* proxy, the adapters, the lookup of its process, the redirection of a    *)
(* TCP connection, the negotiation with the SOCKS server, the log, and the *)
(* decision on a packet.                                                   *)
(***************************************************************************)
EXTENDS UdpProxy, AdapterFilter, OwnerResolver, LogDelivery, Socks5Negotiation,
        TcpRedirect, PacketDecision, SequenceTheorems, TLAPS

------------------------------------------------------------------------------
\* UdpProxy: endpoints outlive the sessions that answer to them.

\* A datagram that waits in the server's socket was redirected within this
\* tick, and so was its endpoint refreshed.
InboxIsFresh == \A i \in 1 .. Len(inbox) : endpoints[inbox[i]] = 0

\* A session that is not marked was last used no later than its endpoint, and
\* one that is marked does not live to see the next tick.
EndpointOutlives ==
  \A p \in UdpPort :
    HasSession(p) =>
      /\ Known(p) /\ endpoints[p] <= SessionTtl + 1
      /\ ~udpSessions[p].ready => endpoints[p] <= udpSessions[p].age

\* The inductive invariant.
UdpInv == UdpTypeOK /\ InboxIsFresh /\ EndpointOutlives /\ EntryAwaitsFirstUse

-----------------------------------------------------------------------------
(* Steps *)

LEMMA UdpInitHolds == UdpInit => UdpInv
<1> SUFFICES ASSUME UdpInit PROVE UdpInv
  OBVIOUS
<1>1. UdpTypeOK
  <2>1. 0 \in Nat /\ -1 \in -1 .. EndpointTtl + 1
    BY UdpTtlAssumption
  <2>2. endpoints \in [UdpPort -> -1 .. EndpointTtl + 1]
    BY <2>1 DEF UdpInit
  <2>3. handling \in [Thread -> UdpHandling \cup {NoSession}]
        /\ udpSessions \in [UdpPort -> UdpSession \cup {NoSession}]
    BY DEF UdpInit
  <2>4. inbox \in Seq(UdpPort)
    BY DEF UdpInit
  <2>5. QED BY <2>2, <2>3, <2>4 DEF UdpInit, UdpTypeOK
<1>2. InboxIsFresh /\ EndpointOutlives /\ EntryAwaitsFirstUse
  BY DEF UdpInit, InboxIsFresh, EndpointOutlives, EntryAwaitsFirstUse, HasSession, Known
<1>3. QED BY <1>1, <1>2 DEF UdpInv

LEMMA UdpStutters == UdpInv /\ UNCHANGED udpVars => UdpInv'
BY DEF UdpInv, UdpTypeOK, InboxIsFresh, EndpointOutlives, EntryAwaitsFirstUse, HasSession,
       Known, Noting, udpVars

\* What a thread of the packet path is at.
LEMMA HandlingFacts ==
  ASSUME NEW p \in UdpPort, NEW step \in {"new", "redirect"}
  PROVE  /\ [port |-> p, step |-> step] \in UdpHandling
         /\ [port |-> p, step |-> step] # NoSession
BY NoSessionAssumption DEF UdpHandling

LEMMA ZeroIsAge == 0 \in -1 .. EndpointTtl + 1
BY UdpTtlAssumption

LEMMA DatagramKeeps ==
  ASSUME UdpInv, NEW t \in Thread, NEW p \in UdpPort, Datagram(t, p)
  PROVE  UdpInv'
<1>1. /\ UdpTypeOK /\ InboxIsFresh /\ EndpointOutlives /\ EntryAwaitsFirstUse
      /\ UNCHANGED <<udpMapper, inbox, receiving, serving, udpSessions, orphans, association>>
  BY DEF UdpInv, Datagram
<1>2. CASE Known(p)
  <2>1. UNCHANGED endpoints /\ handling[t] = NoSession
        /\ handling' = [handling EXCEPT ![t] = [port |-> p, step |-> "redirect"]]
    BY <1>2 DEF Datagram, Handles
  <2>2. UdpTypeOK'
    BY <1>1, <2>1, HandlingFacts DEF UdpTypeOK
  <2>3. InboxIsFresh' /\ EndpointOutlives'
    BY <1>1, <2>1 DEF InboxIsFresh, EndpointOutlives, HasSession, Known
  <2>4. \A q \in UdpPort : Noting(q) => Noting(q)'
    BY <1>1, <2>1 DEF Noting, UdpTypeOK
  <2>5. EntryAwaitsFirstUse'
    BY <1>1, <2>1, <2>4 DEF EntryAwaitsFirstUse, HasSession, Known
  <2>6. QED BY <2>2, <2>3, <2>5 DEF UdpInv
<1>3. CASE ~Known(p)
  <2>1. /\ endpoints' = [endpoints EXCEPT ![p] = 0] /\ handling[t] = NoSession
        /\ handling' = [handling EXCEPT ![t] = [port |-> p, step |-> "new"]]
    BY <1>3 DEF Datagram, Handles
  <2>2. UdpTypeOK'
    <3>1. endpoints' \in [UdpPort -> -1 .. EndpointTtl + 1]
      BY <1>1, <2>1, ZeroIsAge DEF UdpTypeOK
    <3>2. handling' \in [Thread -> UdpHandling \cup {NoSession}]
      BY <1>1, <2>1, HandlingFacts DEF UdpTypeOK
    <3>3. QED BY <1>1, <3>1, <3>2 DEF UdpTypeOK
  <2>3. InboxIsFresh'
    <3> SUFFICES ASSUME NEW i \in 1 .. Len(inbox) PROVE endpoints'[inbox[i]] = 0
      BY <1>1 DEF InboxIsFresh
    <3>1. inbox[i] \in UdpPort /\ endpoints[inbox[i]] = 0
      BY <1>1 DEF InboxIsFresh, UdpTypeOK
    <3>2. QED BY <1>1, <2>1, <3>1 DEF UdpTypeOK
  <2>4. EndpointOutlives'
    BY <1>1, <1>3, <2>1 DEF EndpointOutlives, HasSession, Known, UdpTypeOK
  <2>5. \A q \in UdpPort : Noting(q) => Noting(q)'
    BY <1>1, <2>1 DEF Noting, UdpTypeOK
  <2>6. Noting(p)'
    BY <1>1, <2>1, HandlingFacts DEF Noting, UdpTypeOK
  <2>7. EntryAwaitsFirstUse'
    BY <1>1, <2>1, <2>5, <2>6 DEF EntryAwaitsFirstUse, HasSession, Known, UdpTypeOK
  <2>8. QED BY <2>2, <2>3, <2>4, <2>7 DEF UdpInv
<1>4. QED BY <1>2, <1>3

LEMMA NoteUdpKeeps ==
  ASSUME UdpInv, NEW t \in Thread, NoteUdp(t)
  PROVE  UdpInv'
BY UdpTtlAssumption, NoSessionAssumption
DEF UdpInv, UdpTypeOK, InboxIsFresh, EndpointOutlives, EntryAwaitsFirstUse, HasSession,
    Known, Noting, UdpHandling, UdpSession, NoteUdp, UdpNoted, Handles

LEMMA RedirectUdpKeeps ==
  ASSUME UdpInv, NEW t \in Thread, RedirectUdp(t)
  PROVE  UdpInv'
<1>1. /\ UdpTypeOK /\ InboxIsFresh /\ EndpointOutlives /\ EntryAwaitsFirstUse
      /\ UNCHANGED <<udpMapper, receiving, serving, udpSessions, orphans, association>>
      /\ handling' = [handling EXCEPT ![t] = NoSession]
      /\ handling[t] # NoSession /\ handling[t].step = "redirect"
  BY DEF UdpInv, RedirectUdp
<1>2. handling[t] \in UdpHandling /\ handling[t].port \in UdpPort
  BY <1>1 DEF UdpTypeOK, UdpHandling
<1>3. \A q \in UdpPort : Noting(q) => Noting(q)'
  BY <1>1 DEF Noting, UdpTypeOK
<1> DEFINE p == handling[t].port
<1>4. CASE /\ Known(p) /\ endpoints' = Touched(p)
           /\ inbox' \in {inbox, Append(inbox, p)}
  <2>1. endpoints' = [endpoints EXCEPT ![p] = 0]
        /\ inbox' \in {inbox, Append(inbox, p)}
    BY <1>4 DEF Touched
  <2>2. UdpTypeOK'
    <3>1. endpoints' \in [UdpPort -> -1 .. EndpointTtl + 1]
      BY <1>1, <2>1, ZeroIsAge DEF UdpTypeOK
    <3>2. handling' \in [Thread -> UdpHandling \cup {NoSession}]
      BY <1>1 DEF UdpTypeOK
    <3>3. inbox \in Seq(UdpPort) /\ Append(inbox, p) \in Seq(UdpPort)
      BY <1>1, <1>2 DEF UdpTypeOK
    <3>4. inbox' \in Seq(UdpPort)
      BY <2>1, <3>3
    <3>5. QED BY <1>1, <2>1, <3>1, <3>2, <3>4 DEF UdpTypeOK
  <2>3. InboxIsFresh'
    <3> SUFFICES ASSUME NEW i \in 1 .. Len(inbox') PROVE endpoints'[inbox'[i]] = 0
      BY DEF InboxIsFresh
    <3> HIDE DEF p
    <3>1. inbox'[i] = p \/ (i \in 1 .. Len(inbox) /\ inbox'[i] = inbox[i])
      <4>1. inbox \in Seq(UdpPort) /\ p \in UdpPort
        BY <1>1, <1>2 DEF UdpTypeOK, p
      <4>2. CASE inbox' = inbox
        BY <4>2
      <4>3. CASE inbox' = Append(inbox, p)
        BY <4>1, <4>3
      <4>4. QED BY <2>1, <4>2, <4>3
    <3>2. inbox'[i] \in UdpPort /\ (inbox'[i] = p \/ endpoints[inbox'[i]] = 0)
      BY <1>1, <1>2, <3>1 DEF InboxIsFresh, UdpTypeOK, p
    <3>3. QED BY <1>1, <2>1, <3>2 DEF UdpTypeOK
  <2>4. EndpointOutlives'
    <3> SUFFICES ASSUME NEW q \in UdpPort, HasSession(q)
                 PROVE  /\ Known(q)' /\ endpoints'[q] <= SessionTtl + 1
                        /\ ~udpSessions[q].ready => endpoints'[q] <= udpSessions[q].age
      BY <1>1 DEF EndpointOutlives, HasSession
    <3>1. udpSessions[q].age \in Nat
      BY <1>1, UdpTtlAssumption DEF UdpTypeOK, UdpSession, HasSession
    <3>2. QED BY <1>1, <2>1, <3>1, UdpTtlAssumption DEF EndpointOutlives, Known, UdpTypeOK
  <2>5. EntryAwaitsFirstUse'
    BY <1>1, <1>3, <1>4, <2>1 DEF EntryAwaitsFirstUse, HasSession, Known, UdpTypeOK
  <2>6. QED BY <2>2, <2>3, <2>4, <2>5 DEF UdpInv
<1>5. CASE UNCHANGED <<endpoints, inbox>>
  <2>1. UdpTypeOK'
    BY <1>1, <1>5 DEF UdpTypeOK
  <2>2. InboxIsFresh' /\ EndpointOutlives' /\ EntryAwaitsFirstUse'
    BY <1>1, <1>3, <1>5
    DEF InboxIsFresh, EndpointOutlives, EntryAwaitsFirstUse, HasSession, Known
  <2>3. QED BY <2>1, <2>2 DEF UdpInv
<1>6. QED BY <1>4, <1>5 DEF RedirectUdp

LEMMA StartUdpKeeps == UdpInv /\ StartUdp => UdpInv'
BY DEF UdpInv, UdpTypeOK, InboxIsFresh, EndpointOutlives, EntryAwaitsFirstUse, HasSession,
       Known, Noting, StartUdp

\* The session of a port is made or used: its endpoint is there.
LEMMA SessionUsed ==
  ASSUME UdpInv, NEW p \in UdpPort, NEW new \in UdpSession, Known(p),
         udpSessions' = [udpSessions EXCEPT ![p] = new],
         endpoints' = endpoints \/ endpoints' = [endpoints EXCEPT ![p] = 0],
         endpoints'[p] <= SessionTtl + 1,
         ~new.ready => endpoints'[p] <= new.age,
         UNCHANGED handling,
         \/ UNCHANGED <<udpMapper, association>>
         \/ /\ udpMapper' = udpMapper \ {p}
            /\ association' = [association EXCEPT ![p] = "made"]
  PROVE  /\ association' \in [UdpPort -> {"none", "made", "failed"}]
         /\ udpSessions' \in [UdpPort -> UdpSession \cup {NoSession}]
         /\ endpoints' \in [UdpPort -> -1 .. EndpointTtl + 1]
         /\ EndpointOutlives' /\ EntryAwaitsFirstUse'
<1>1. UdpTypeOK /\ EndpointOutlives /\ EntryAwaitsFirstUse
  BY DEF UdpInv
<1>2. udpSessions' \in [UdpPort -> UdpSession \cup {NoSession}]
  BY <1>1 DEF UdpTypeOK
<1>3. endpoints' \in [UdpPort -> -1 .. EndpointTtl + 1]
  BY <1>1, ZeroIsAge DEF UdpTypeOK
<1>4. udpSessions'[p] = new /\ new # NoSession /\ endpoints'[p] # -1
  BY <1>1, NoSessionAssumption DEF UdpTypeOK, Known
<1>5. \A q \in UdpPort \ {p} :
        udpSessions'[q] = udpSessions[q] /\ endpoints'[q] = endpoints[q]
  BY <1>1 DEF UdpTypeOK
<1>6. EndpointOutlives'
  BY <1>1, <1>4, <1>5 DEF EndpointOutlives, HasSession, Known
<1>7. EntryAwaitsFirstUse' /\ association' \in [UdpPort -> {"none", "made", "failed"}]
  BY <1>1, <1>4, <1>5 DEF EntryAwaitsFirstUse, Known, Noting, UdpTypeOK
<1>8. QED BY <1>2, <1>3, <1>6, <1>7

LEMMA ServeDatagramKeeps == UdpInv /\ ServeDatagram => UdpInv'
<1> SUFFICES ASSUME UdpInv, ServeDatagram PROVE UdpInv'
  OBVIOUS
<1>1. /\ UdpTypeOK /\ InboxIsFresh /\ EndpointOutlives /\ EntryAwaitsFirstUse
      /\ inbox # <<>> /\ inbox' = Tail(inbox) /\ receiving' \in BOOLEAN
      /\ Forward(Head(inbox))
      /\ UNCHANGED <<endpoints, handling, serving, orphans>>
  BY DEF UdpInv, ServeDatagram
<1>2. inbox \in Seq(UdpPort) /\ endpoints \in [UdpPort -> -1 .. EndpointTtl + 1]
  BY <1>1 DEF UdpTypeOK
<1>3. PICK p \in UdpPort : p = Head(inbox)
  BY <1>1, <1>2
<1>4. endpoints[p] = 0 /\ Known(p)
  <2>1. 1 \in 1 .. Len(inbox) /\ p = inbox[1]
    BY <1>1, <1>2, <1>3
  <2>2. QED BY <1>1, <2>1 DEF InboxIsFresh, Known
<1>5. InboxIsFresh' /\ inbox' \in Seq(UdpPort)
  <2>1. \A i \in 1 .. Len(Tail(inbox)) :
          Tail(inbox)[i] = inbox[i + 1] /\ i + 1 \in 1 .. Len(inbox)
    BY <1>1, <1>2
  <2>2. QED BY <1>1, <1>2, <2>1 DEF InboxIsFresh
<1>6. CASE HasSession(p) /\ Sends(p)
  <2>1. PICK fails \in BOOLEAN :
          udpSessions' = [udpSessions EXCEPT ![p].age = 0, ![p].ready = @ \/ fails]
    BY <1>6 DEF Sends
  <2>2. udpMapper' = udpMapper /\ association' = association
    BY <1>6 DEF Sends
  <2> DEFINE new == [udpSessions[p] EXCEPT !.age = 0, !.ready = @ \/ fails]
  <2>3. udpSessions[p] \in UdpSession /\ 0 \in 0 .. SessionTtl + 1
    BY <1>1, <1>6, UdpTtlAssumption DEF UdpTypeOK, HasSession
  <2>4. new \in UdpSession /\ new.age = 0
    BY <2>3 DEF UdpSession
  <2>5. udpSessions' = [udpSessions EXCEPT ![p] = new]
    BY <1>1, <2>1 DEF UdpTypeOK
  <2> HIDE DEF new
  <2>6. /\ udpSessions' \in [UdpPort -> UdpSession \cup {NoSession}]
        /\ EndpointOutlives' /\ EntryAwaitsFirstUse'
    <3>1. endpoints' = endpoints /\ endpoints'[p] <= SessionTtl + 1
          /\ (~new.ready => endpoints'[p] <= new.age)
      BY <1>1, <1>4, <2>4, UdpTtlAssumption
    <3>2. UNCHANGED <<udpMapper, association, handling>>
      BY <1>1, <2>2
    <3>3. QED BY <1>4, <2>4, <2>5, <3>1, <3>2, SessionUsed
  <2>7. QED BY <1>1, <1>5, <2>2, <2>6 DEF UdpInv, UdpTypeOK
<1>7. CASE /\ ~HasSession(p) /\ p \in udpMapper
           /\ udpMapper' = Unnoted(p)
           /\ Associates(p) \/ NoAssociation(p)
  <2>1. udpMapper' = udpMapper \ {p}
    BY <1>7 DEF Unnoted
  <2>2. CASE Associates(p)
    <3>1. PICK closes \in BOOLEAN :
            udpSessions' = [udpSessions EXCEPT ![p] = Session(closes)]
      BY <2>2 DEF Associates
    <3>2. Session(closes) \in UdpSession /\ Session(closes).age = 0
      BY UdpTtlAssumption DEF Session, UdpSession
    <3>3. association' = [association EXCEPT ![p] = "made"]
      BY <2>2 DEF Associates
    <3>4. /\ association' \in [UdpPort -> {"none", "made", "failed"}]
          /\ udpSessions' \in [UdpPort -> UdpSession \cup {NoSession}]
          /\ EndpointOutlives' /\ EntryAwaitsFirstUse'
      <4> DEFINE new == Session(closes)
      <4>1. new \in UdpSession /\ udpSessions' = [udpSessions EXCEPT ![p] = new]
        BY <3>1, <3>2
      <4>2. endpoints' = endpoints /\ endpoints'[p] <= SessionTtl + 1
            /\ (~new.ready => endpoints'[p] <= new.age)
        BY <1>1, <1>4, <3>2, UdpTtlAssumption
      <4>3. UNCHANGED handling /\ udpMapper' = udpMapper \ {p}
        BY <1>1, <2>1, <3>3
      <4> HIDE DEF new
      <4>4. QED BY <1>4, <3>3, <4>1, <4>2, <4>3, SessionUsed
    <3>5. QED BY <1>1, <1>5, <2>1, <3>3, <3>4 DEF UdpInv, UdpTypeOK
  <2>3. CASE NoAssociation(p)
    <3>1. association' = [association EXCEPT ![p] = "failed"] /\ udpSessions' = udpSessions
      BY <2>3 DEF NoAssociation
    <3>2. EndpointOutlives' /\ EntryAwaitsFirstUse'
      BY <1>1, <2>1, <3>1
      DEF EndpointOutlives, EntryAwaitsFirstUse, HasSession, Known, Noting, UdpTypeOK
    <3>3. QED BY <1>1, <1>5, <2>1, <3>1, <3>2 DEF UdpInv, UdpTypeOK
  <2>4. QED BY <1>7, <2>2, <2>3
<1>8. CASE UNCHANGED <<udpMapper, udpSessions, association>>
  BY <1>1, <1>5, <1>8
  DEF UdpInv, UdpTypeOK, EndpointOutlives, EntryAwaitsFirstUse, HasSession, Known, Noting
<1>9. QED BY <1>1, <1>3, <1>6, <1>7, <1>8 DEF Forward

LEMMA ReplyKeeps ==
  ASSUME UdpInv, NEW p \in UdpPort, Reply(p)
  PROVE  UdpInv'
<1>1. /\ UdpTypeOK /\ InboxIsFresh /\ EndpointOutlives /\ EntryAwaitsFirstUse
      /\ UNCHANGED <<udpMapper, handling, inbox, receiving, serving, orphans, association>>
  BY DEF UdpInv, Reply
<1>2. PICK sent \in BOOLEAN, more \in BOOLEAN :
        /\ \/ /\ HasSession(p) /\ udpSessions[p].listens
              /\ udpSessions' = [udpSessions EXCEPT
                   ![p] = [age |-> 0, ready |-> @.ready \/ ~sent \/ ~more, listens |-> more]]
           \/ p \in orphans /\ UNCHANGED udpSessions
        /\ endpoints' = IF sent THEN TurnedRound(p) ELSE endpoints
  BY DEF Reply
<1>3. \/ endpoints' = endpoints /\ (sent => ~Known(p))
      \/ Known(p) /\ endpoints' = [endpoints EXCEPT ![p] = 0]
  BY <1>2 DEF TurnedRound, Touched
<1>4. InboxIsFresh'
  <2> SUFFICES ASSUME NEW i \in 1 .. Len(inbox) PROVE endpoints'[inbox[i]] = 0
    BY <1>1 DEF InboxIsFresh
  <2>1. inbox[i] \in UdpPort /\ endpoints[inbox[i]] = 0
    BY <1>1 DEF InboxIsFresh, UdpTypeOK
  <2>2. QED BY <1>1, <1>3, <2>1 DEF UdpTypeOK
<1>5. CASE HasSession(p) /\ udpSessions' # udpSessions
  <2> DEFINE new == [age |-> 0, ready |-> udpSessions[p].ready \/ ~sent \/ ~more,
                     listens |-> more]
  <2>1. udpSessions' = [udpSessions EXCEPT ![p] = new]
    BY <1>1, <1>2, <1>5 DEF UdpTypeOK
  <2>2. udpSessions[p] \in UdpSession
    BY <1>1, <1>5 DEF UdpTypeOK, HasSession
  <2>3. new \in UdpSession /\ new.age = 0 /\ (~new.ready => sent)
    <3>1. udpSessions[p].ready \in BOOLEAN /\ 0 \in 0 .. SessionTtl + 1
      BY <2>2, UdpTtlAssumption DEF UdpSession
    <3>2. (udpSessions[p].ready \/ ~sent \/ ~more) \in BOOLEAN
      OBVIOUS
    <3>3. new \in UdpSession
      BY <3>1, <3>2 DEF UdpSession
    <3>4. QED BY <3>3
  <2>4. Known(p) /\ endpoints[p] <= SessionTtl + 1
    BY <1>1, <1>5 DEF EndpointOutlives
  <2>5. endpoints'[p] <= SessionTtl + 1 /\ (~new.ready => endpoints'[p] = 0)
    BY <1>1, <1>3, <2>3, <2>4, UdpTtlAssumption DEF UdpTypeOK
  <2> HIDE DEF new
  <2>6. /\ udpSessions' \in [UdpPort -> UdpSession \cup {NoSession}]
        /\ endpoints' \in [UdpPort -> -1 .. EndpointTtl + 1]
        /\ EndpointOutlives' /\ EntryAwaitsFirstUse'
    <3>1. endpoints' = endpoints \/ endpoints' = [endpoints EXCEPT ![p] = 0]
      BY <1>3
    <3>2. endpoints'[p] <= SessionTtl + 1 /\ (~new.ready => endpoints'[p] <= new.age)
      BY <2>3, <2>5
    <3>3. UNCHANGED <<udpMapper, association, handling>>
      BY <1>1
    <3>4. QED BY <2>1, <2>3, <2>4, <3>1, <3>2, <3>3, SessionUsed
  <2>7. QED BY <1>1, <1>4, <2>6 DEF UdpInv, UdpTypeOK
<1>6. CASE udpSessions' = udpSessions
  <2>1. endpoints' \in [UdpPort -> -1 .. EndpointTtl + 1]
    BY <1>1, <1>3, ZeroIsAge DEF UdpTypeOK
  <2>2. \A q \in UdpPort : (Known(q)' <=> Known(q))
                            /\ (endpoints'[q] = endpoints[q] \/ endpoints'[q] = 0)
    BY <1>1, <1>3 DEF UdpTypeOK, Known
  <2>3. EndpointOutlives'
    <3> SUFFICES ASSUME NEW q \in UdpPort, HasSession(q)
                 PROVE  /\ Known(q)' /\ endpoints'[q] <= SessionTtl + 1
                        /\ ~udpSessions[q].ready => endpoints'[q] <= udpSessions[q].age
      BY <1>6 DEF EndpointOutlives, HasSession
    <3>1. udpSessions[q].age \in Nat
      BY <1>1, UdpTtlAssumption DEF UdpTypeOK, UdpSession, HasSession
    <3>2. QED BY <1>1, <2>2, <3>1, UdpTtlAssumption DEF EndpointOutlives
  <2>4. EntryAwaitsFirstUse'
    BY <1>1, <1>6, <2>2 DEF EntryAwaitsFirstUse, HasSession, Noting
  <2>5. QED BY <1>1, <1>4, <1>6, <2>1, <2>3, <2>4 DEF UdpInv, UdpTypeOK
<1>7. QED BY <1>2, <1>5, <1>6

LEMMA RemovesKeeps ==
  ASSUME UdpInv, NEW ports \in SUBSET UdpPort, Removes(ports),
         UNCHANGED <<endpoints, udpMapper, handling, inbox, receiving>>,
         serving' \in {"stopped", "running", "ended"}
  PROVE  UdpInv'
BY UdpTtlAssumption, NoSessionAssumption
DEF UdpInv, UdpTypeOK, InboxIsFresh, EndpointOutlives, EntryAwaitsFirstUse, HasSession,
    Known, Noting, UdpHandling, UdpSession, Removes

LEMMA ForgetKeeps == UdpInv /\ ForgetEndpoints => UdpInv'
BY UdpTtlAssumption, NoSessionAssumption
DEF UdpInv, UdpTypeOK, InboxIsFresh, EndpointOutlives, EntryAwaitsFirstUse, HasSession,
    Known, Noting, UdpHandling, UdpSession, ForgetEndpoints, Forgotten

LEMMA EndUdpKeeps == UdpInv /\ EndUdp => UdpInv'
<1> SUFFICES ASSUME UdpInv, EndUdp PROVE UdpInv'
  OBVIOUS
<1>1. inbox' = <<>> /\ inbox' \in Seq(UdpPort)
  BY DEF EndUdp
<1>2. InboxIsFresh'
  BY <1>1 DEF InboxIsFresh
<1>3. UdpTypeOK' /\ EndpointOutlives' /\ EntryAwaitsFirstUse'
  BY <1>1
  DEF EndUdp, UdpInv, UdpTypeOK, EndpointOutlives, EntryAwaitsFirstUse, HasSession, Known,
      Noting
<1>4. QED BY <1>2, <1>3 DEF UdpInv

\* Time passes when no session waits for its removal: none is marked, and all
\* are as young as their endpoints or older.
LEMMA TickKeeps == UdpInv /\ UdpTick => UdpInv'
<1> SUFFICES ASSUME UdpInv, UdpTick PROVE UdpInv'
  OBVIOUS
<1>1. /\ UdpTypeOK /\ EndpointOutlives /\ EntryAwaitsFirstUse
      /\ inbox = <<>> /\ inbox' = <<>>
      /\ \A t \in Thread : handling[t] = NoSession
      /\ UNCHANGED <<udpMapper, handling, receiving, serving, orphans, association>>
  BY DEF UdpInv, UdpTick
<1>2. \A q \in UdpPort :
        /\ endpoints[q] \in -1 .. EndpointTtl
        /\ endpoints'[q] = IF endpoints[q] = -1 THEN -1 ELSE endpoints[q] + 1
  <2>1. endpoints \in [UdpPort -> -1 .. EndpointTtl + 1]
    BY <1>1 DEF UdpTypeOK
  <2>2. \A q \in UdpPort : endpoints[q] \in -1 .. EndpointTtl
    BY <2>1, UdpTtlAssumption DEF UdpTick, Forgotten
  <2>3. \A q \in UdpPort : endpoints'[q] = Aged(endpoints[q], EndpointTtl + 1)
    BY DEF UdpTick
  <2>4. QED BY <2>2, <2>3, UdpTtlAssumption DEF Aged
<1>3. endpoints' \in [UdpPort -> -1 .. EndpointTtl + 1]
  <2>1. \A q \in UdpPort : endpoints'[q] \in -1 .. EndpointTtl + 1
    BY <1>2, UdpTtlAssumption
  <2>2. endpoints' = [q \in UdpPort |-> Aged(endpoints[q], EndpointTtl + 1)]
    BY DEF UdpTick
  <2>3. QED BY <2>1, <2>2
<1>4. \A q \in UdpPort :
        ~HasSession(q) => udpSessions'[q] = NoSession
  BY DEF UdpTick
<1>5. ASSUME NEW q \in UdpPort, HasSession(q)
      PROVE  /\ udpSessions'[q] \in UdpSession /\ ~udpSessions'[q].ready
             /\ udpSessions'[q].age = udpSessions[q].age + 1
             /\ endpoints[q] # -1 /\ endpoints[q] <= udpSessions[q].age
             /\ udpSessions[q].age \in 0 .. SessionTtl
  <2>1. udpSessions[q] \in UdpSession
    BY <1>1, <1>5 DEF UdpTypeOK, HasSession
  <2>2. ~udpSessions[q].ready /\ udpSessions[q].age \in 0 .. SessionTtl
    BY <1>5, <2>1, UdpTtlAssumption DEF UdpTick, Removable, UdpSession
  <2>3. udpSessions'[q] = [udpSessions[q] EXCEPT !.age = Aged(@, SessionTtl + 1)]
    BY <1>5 DEF UdpTick
  <2>4. Aged(udpSessions[q].age, SessionTtl + 1) = udpSessions[q].age + 1
        /\ udpSessions[q].age + 1 \in 0 .. SessionTtl + 1
    BY <2>2, UdpTtlAssumption DEF Aged
  <2>5. udpSessions'[q] = [udpSessions[q] EXCEPT !.age = udpSessions[q].age + 1]
    BY <2>1, <2>3, <2>4 DEF UdpSession
  <2>6. /\ udpSessions'[q] \in UdpSession /\ ~udpSessions'[q].ready
        /\ udpSessions'[q].age = udpSessions[q].age + 1
    BY <2>1, <2>2, <2>4, <2>5 DEF UdpSession
  <2>7. endpoints[q] # -1 /\ endpoints[q] <= udpSessions[q].age
    BY <1>1, <1>5, <2>2 DEF EndpointOutlives, Known
  <2>8. QED BY <2>2, <2>6, <2>7
<1>6. udpSessions' \in [UdpPort -> UdpSession \cup {NoSession}]
  <2>1. \A q \in UdpPort : udpSessions'[q] \in UdpSession \cup {NoSession}
    BY <1>4, <1>5
  <2>2. udpSessions' = [q \in UdpPort |-> udpSessions'[q]]
    BY DEF UdpTick
  <2>3. QED BY <2>1, <2>2
<1>7. EndpointOutlives'
  <2> SUFFICES ASSUME NEW q \in UdpPort, HasSession(q)'
               PROVE  /\ Known(q)' /\ endpoints'[q] <= SessionTtl + 1
                      /\ endpoints'[q] <= udpSessions'[q].age
    BY DEF EndpointOutlives
  <2>1. HasSession(q)
    BY <1>4 DEF HasSession
  <2>2. QED BY <1>2, <1>5, <2>1, UdpTtlAssumption DEF Known
<1>8. EntryAwaitsFirstUse'
  <2>1. \A q \in UdpPort : (Known(q)' => Known(q)) /\ (HasSession(q) => HasSession(q)')
    BY <1>2, <1>5, NoSessionAssumption DEF Known, HasSession
  <2>2. QED BY <1>1, <2>1 DEF EntryAwaitsFirstUse, Noting
<1>9. InboxIsFresh'
  BY <1>1 DEF InboxIsFresh
<1>10. QED BY <1>1, <1>3, <1>6, <1>7, <1>8, <1>9 DEF UdpInv, UdpTypeOK

-----------------------------------------------------------------------------
(* Theorems *)

LEMMA UdpStep == UdpInv /\ [UdpNext]_udpVars => UdpInv'
<1> SUFFICES ASSUME UdpInv, UdpNext PROVE UdpInv'
  BY UdpStutters
<1>1. CASE ReceiveError
  BY <1>1
  DEF ReceiveError, UdpInv, UdpTypeOK, InboxIsFresh, EndpointOutlives, EntryAwaitsFirstUse,
      HasSession, Known, Noting
<1>2. CASE ClearUdpSessions
  <2>1. Removes({p \in UdpPort : Removable(p)}) /\ serving' = "running"
    BY <1>2 DEF ClearUdpSessions
  <2>2. QED BY <1>2, <2>1, RemovesKeeps DEF ClearUdpSessions
<1>3. CASE StopUdp
  <2>1. Removes({p \in UdpPort : HasSession(p)}) /\ serving' = "stopped"
    BY <1>3 DEF StopUdp
  <2>2. QED BY <1>3, <2>1, RemovesKeeps DEF StopUdp
<1>4. QED
  BY <1>1, <1>2, <1>3, DatagramKeeps, NoteUdpKeeps, RedirectUdpKeeps, StartUdpKeeps,
     ServeDatagramKeeps, ReplyKeeps, EndUdpKeeps, ForgetKeeps, TickKeeps
  DEF UdpNext

LEMMA UdpInvAlways == UdpSpec => []UdpInv
BY UdpInitHolds, UdpStep, PTL DEF UdpSpec

\* process_udp_packet, the server and the threads that forget: for any number of
\* ports and any order of their steps, an endpoint no session was tried for yet
\* has the entry to make one from, and a session in use has its endpoint.
THEOREM UdpTablesFollow == UdpSpec => []UdpTablesAgree
<1>1. UdpInv => UdpTablesAgree
  BY DEF UdpInv, EndpointOutlives, UdpTablesAgree, RepliesFindEndpoint
<1>2. QED BY <1>1, UdpInvAlways, PTL

\* The types of the UDP proxy's state.
THEOREM UdpTypes == UdpSpec => []UdpTypeOK
<1>1. UdpInv => UdpTypeOK
  BY DEF UdpInv
<1>2. QED BY <1>1, UdpInvAlways, PTL

------------------------------------------------------------------------------
\* AdapterFilter: adapters come and go while the filter runs.

\* Positions of a thread in a loop under lock_.
Looping == {"filter", "change", "start", "release"}

AdaptersNest ==
  /\ tunnel \subseteq handles /\ handles \subseteq bound /\ handles \subseteq interfaces
  /\ at \in [AdapterThread -> Position]
  /\ lock \in AdapterThread \cup {NoThread}

LoopHoldsLock == \A t \in AdapterThread : lock = t <=> at[t] \in Looping

\* filter_state_ is what the thread of start() and stop() has made it.
Unstarted == {"idle", "update", "listed", "connected", "apply", "filter", "updated", "stopped"}
Ending    == {"stopping", "release", "released"}

StateIsRouters ==
  /\ at["router"] \in Unstarted \cup Ending \cup {"starting", "start", "started", "active"}
  /\ at["router"] \in Unstarted => filterState = "stopped"
  /\ at["router"] = "starting" => filterState = "starting"
  /\ at["router"] \in {"start", "started"} => filterState \in {"running", "stopped"}
  /\ at["router"] = "active" => filterState = "running"
  /\ at["router"] \in Ending => filterState = "stopping"

\* A handle that is missing is an event the watcher has not dealt with.
WatcherKnows ==
  handles # bound => adapterEvent \/ at["watcher"] \in {"woken", "reset"}

\* While the filter runs, an adapter with the wrong mode is still before the
\* thread that holds the lock.
WrongModeIsAhead ==
  filterState = "running" =>
    \A x \in handles : (x \in tunnel <=> x \in filterList) \/ (lock # NoThread /\ x \in left)

\* Nothing is in tunnel mode before start_filter and after the release.
ReleasedStays ==
  filterState # "running" /\ at["router"] \notin {"stopping", "release"} => tunnel = {}

\* The release has the adapters in tunnel mode before it.
ReleaseReachesAll == at["router"] = "release" => tunnel \subseteq left

AdapterInv ==
  /\ AdaptersNest /\ LoopHoldsLock /\ StateIsRouters /\ WatcherKnows
  /\ WrongModeIsAhead /\ ReleasedStays /\ ReleaseReachesAll

-----------------------------------------------------------------------------
LEMMA Threads ==
  /\ "router" \in AdapterThread /\ "watcher" \in AdapterThread /\ "router" # "watcher"
  /\ NoThread \notin AdapterThread
  /\ Callback \subseteq AdapterThread /\ "router" \notin Callback /\ "watcher" \notin Callback
BY AdapterFilterAssumption DEF AdapterThread

LEMMA AdapterInvInit == AdapterInit => AdapterInv
<1> SUFFICES ASSUME AdapterInit PROVE AdapterInv
  OBVIOUS
<1>1. at \in [AdapterThread -> Position] /\ \A t \in AdapterThread : at[t] = "idle"
  BY DEF AdapterInit, Position
<1>2. AdaptersNest
  BY <1>1 DEF AdapterInit, AdaptersNest
<1>3. LoopHoldsLock
  BY <1>1, Threads DEF AdapterInit, LoopHoldsLock, Looping
<1>4. StateIsRouters
  BY <1>1, Threads DEF AdapterInit, StateIsRouters, Unstarted, Ending
<1>5. WatcherKnows /\ WrongModeIsAhead /\ ReleasedStays /\ ReleaseReachesAll
  BY <1>1, Threads
  DEF AdapterInit, WatcherKnows, WrongModeIsAhead, ReleasedStays, ReleaseReachesAll
<1>6. QED BY <1>2, <1>3, <1>4, <1>5 DEF AdapterInv

\* A thread moves on outside the loops and leaves driver and lists alone.
LEMMA MovesOn ==
  ASSUME AdapterInv, NEW t \in AdapterThread, NEW p \in Position,
         at' = [at EXCEPT ![t] = p], at[t] \notin Looping, p \notin Looping,
         UNCHANGED <<bound, tunnel, handles, adapterEvent, interfaces, filterList,
                     filterState, lock, left>>,
         t = "watcher" => at[t] = "idle" /\ p = "woken",
         t = "router" => at[t] \in Unstarted /\ p \in Unstarted
  PROVE  AdapterInv'
BY Threads
DEF AdapterInv, AdaptersNest, LoopHoldsLock, StateIsRouters, WatcherKnows,
    WrongModeIsAhead, ReleasedStays, ReleaseReachesAll, Looping, Unstarted, Ending

LEMMA DriverKeeps == ASSUME AdapterInv, NEW x \in Adapter, Rebind(x) PROVE AdapterInv'
<1>1. /\ tunnel' = tunnel \ {x} /\ handles' = handles \ {x} /\ adapterEvent' = TRUE
      /\ bound' = IF x \in bound THEN bound \ {x} ELSE bound \cup {x}
      /\ UNCHANGED <<interfaces, filterList, filterState, lock, left, at>>
  BY DEF Rebind, filterVars
<1>2. AdaptersNest'
  BY <1>1 DEF AdapterInv, AdaptersNest
<1>3. QED
  BY <1>1, <1>2
  DEF AdapterInv, LoopHoldsLock, StateIsRouters, WatcherKnows, WrongModeIsAhead,
      ReleasedStays, ReleaseReachesAll

\* The body of the two loops: one adapter gets the mode that is asked for.
LEMMA LoopKeeps == ASSUME AdapterInv, NEW t \in AdapterThread, UpdateAdapter(t) PROVE AdapterInv'
<1>1. PICK x \in left : left' = left \ {x} /\ SetMode(x, Filtered(x))
  BY DEF UpdateAdapter
<1>2. /\ lock = t /\ at[t] # "release"
      /\ UNCHANGED <<bound, handles, adapterEvent, interfaces, filterList, filterState, lock, at>>
  BY DEF UpdateAdapter, filterVars
<1>3. at["router"] # "release"
  BY <1>2, Threads DEF AdapterInv, LoopHoldsLock, Looping
<1>4. tunnel' \subseteq handles /\ (filterState # "running" => tunnel' \subseteq tunnel)
  BY <1>1 DEF SetMode, Filtered, AdapterInv, AdaptersNest
<1>5. filterState = "running" =>
        \A y \in handles : IF y = x THEN y \in tunnel' <=> y \in filterList
                           ELSE y \in tunnel' <=> y \in tunnel
  BY <1>1 DEF SetMode, Filtered
<1>6. WrongModeIsAhead'
  BY <1>1, <1>2, <1>5 DEF AdapterInv, WrongModeIsAhead
<1>7. ReleasedStays' /\ ReleaseReachesAll'
  BY <1>2, <1>3, <1>4 DEF AdapterInv, ReleasedStays, ReleaseReachesAll
<1>8. QED
  BY <1>2, <1>4, <1>6, <1>7
  DEF AdapterInv, AdaptersNest, LoopHoldsLock, StateIsRouters, WatcherKnows

LEMMA ReleaseKeeps == ASSUME AdapterInv, ReleaseAdapter PROVE AdapterInv'
<1>1. PICK x \in left : left' = left \ {x} /\ tunnel' = tunnel \ {x}
  BY DEF ReleaseAdapter, SetMode
<1>2. /\ at["router"] = "release"
      /\ UNCHANGED <<bound, handles, adapterEvent, interfaces, filterList, filterState, lock, at>>
  BY DEF ReleaseAdapter, filterVars
<1>3. filterState = "stopping"
  BY <1>2 DEF AdapterInv, StateIsRouters, Ending
<1>4. QED
  BY <1>1, <1>2, <1>3
  DEF AdapterInv, AdaptersNest, LoopHoldsLock, StateIsRouters, WatcherKnows,
      WrongModeIsAhead, ReleasedStays, ReleaseReachesAll

\* A thread takes the lock for a loop over all the listed adapters.
LEMMA EnterKeeps ==
  ASSUME AdapterInv, NEW t \in AdapterThread, NEW from, NEW to \in Looping, NEW adapters,
         Enter(t, from, to, adapters),
         t = "router" => to # "change",
         UNCHANGED <<bound, tunnel>>,
         handles' \subseteq adapters /\ handles' \subseteq bound /\ handles \subseteq handles',
         handles' \subseteq interfaces',
         (adapterEvent' = adapterEvent /\ handles' = handles /\ t # "watcher") \/ handles' = bound,
         StateIsRouters',
         filterState' # "running" /\ at'["router"] \notin {"stopping", "release"} => tunnel = {}
  PROVE  AdapterInv'
<1>1. /\ lock = NoThread /\ lock' = t /\ left' = adapters /\ at[t] = from
      /\ at' = [at EXCEPT ![t] = to]
  BY DEF Enter, Goes
<1>2. AdaptersNest'
  <2>1. tunnel' \subseteq handles' /\ handles' \subseteq bound' /\ handles' \subseteq interfaces'
    BY DEF AdapterInv, AdaptersNest
  <2>2. to \in Position /\ at \in [AdapterThread -> Position]
    BY DEF AdapterInv, AdaptersNest, Looping, Position
  <2>3. at' \in [AdapterThread -> Position] /\ lock' \in AdapterThread
    BY <1>1, <2>2
  <2>4. QED BY <2>1, <2>3 DEF AdaptersNest
<1>3. LoopHoldsLock'
  BY <1>1, Threads DEF AdapterInv, AdaptersNest, LoopHoldsLock
<1>4. WatcherKnows'
  BY <1>1, Threads DEF AdapterInv, AdaptersNest, WatcherKnows
<1>5. WrongModeIsAhead'
  BY <1>1, Threads DEF WrongModeIsAhead
<1>6. ReleasedStays' /\ ReleaseReachesAll'
  BY <1>1 DEF AdapterInv, AdaptersNest, ReleasedStays, ReleaseReachesAll
<1>7. QED BY <1>2, <1>3, <1>4, <1>5, <1>6 DEF AdapterInv

\* A loop is through all its adapters.
LEMMA LeaveKeeps ==
  ASSUME AdapterInv, NEW t \in AdapterThread, NEW from, NEW to \in Position \ Looping,
         Leave(t, from, to), StateIsRouters',
         t = "router" => from # "release" \/ to = "released"
  PROVE  AdapterInv'
<1>1. /\ lock = t /\ left = {} /\ lock' = NoThread /\ at[t] = from
      /\ at' = [at EXCEPT ![t] = to]
      /\ UNCHANGED <<bound, tunnel, handles, adapterEvent, interfaces, filterList,
                     filterState, left>>
  BY DEF Leave, Goes, driverVars, filterVars
<1>2. at \in [AdapterThread -> Position] /\ at[t] \in Looping
  BY <1>1 DEF AdapterInv, AdaptersNest, LoopHoldsLock
<1>3. AdaptersNest'
  BY <1>1, <1>2 DEF AdapterInv, AdaptersNest
<1>4. LoopHoldsLock'
  BY <1>1, <1>2, Threads DEF AdapterInv, LoopHoldsLock
<1>5. WatcherKnows' /\ WrongModeIsAhead'
  BY <1>1, <1>2, Threads DEF AdapterInv, WatcherKnows, WrongModeIsAhead, Looping
<1>6. at'["router"] = at["router"] \/ t = "router"
  BY <1>1, <1>2, Threads
<1>7. ReleaseReachesAll'
  BY <1>1, <1>2, <1>6 DEF AdapterInv, ReleaseReachesAll, Looping
<1>8. ReleasedStays'
  BY <1>1, <1>2, <1>6 DEF AdapterInv, ReleasedStays, ReleaseReachesAll, Looping
<1>9. QED BY <1>3, <1>4, <1>5, <1>7, <1>8 DEF AdapterInv

-----------------------------------------------------------------------------
(* The threads *)

LEMMA WatcherKeeps ==
  ASSUME AdapterInv,
         Wakes \/ Resets \/ OnNetworkAdapterChange \/ Leave("watcher", "change", "idle")
  PROVE  AdapterInv'
<1>0. "watcher" \in AdapterThread /\ "watcher" # "router" /\ "router" \in AdapterThread
  BY Threads
<1>1. CASE Wakes
  BY <1>0, <1>1, MovesOn DEF Wakes, Goes, Looping, Position, driverVars, filterVars
<1>2. CASE Resets
  <2>1. /\ at["watcher"] = "woken" /\ at' = [at EXCEPT !["watcher"] = "reset"]
        /\ UNCHANGED <<bound, tunnel, handles, interfaces, filterList, filterState, lock, left>>
    BY <1>2 DEF Resets, Goes, filterVars
  <2>2. at' \in [AdapterThread -> Position] /\ at'["watcher"] = "reset" /\
        \A t \in AdapterThread : t # "watcher" => at'[t] = at[t]
    BY <1>0, <2>1 DEF AdapterInv, AdaptersNest, Position
  <2>3. AdaptersNest' /\ LoopHoldsLock'
    BY <1>0, <2>1, <2>2 DEF AdapterInv, AdaptersNest, LoopHoldsLock, Looping
  <2>4. QED
    BY <1>0, <2>1, <2>2, <2>3
    DEF AdapterInv, StateIsRouters, WatcherKnows, WrongModeIsAhead, ReleasedStays,
        ReleaseReachesAll
<1>3. CASE OnNetworkAdapterChange
  <2>1. /\ Enter("watcher", "reset", "change", bound) /\ handles' = bound /\ interfaces' = bound
        /\ UNCHANGED <<bound, tunnel, adapterEvent, filterList, filterState>>
    BY <1>3 DEF OnNetworkAdapterChange
  <2>2. at'["router"] = at["router"]
    BY <1>0, <2>1 DEF Enter, Goes, AdapterInv, AdaptersNest
  <2>3. StateIsRouters'
    BY <2>1, <2>2 DEF AdapterInv, StateIsRouters
  <2>4. filterState' # "running" /\ at'["router"] \notin {"stopping", "release"} => tunnel = {}
    BY <2>1, <2>2 DEF AdapterInv, ReleasedStays
  <2>5. handles \subseteq bound /\ "change" \in Looping
    BY DEF AdapterInv, AdaptersNest, Looping
  <2>6. QED BY <1>0, <2>1, <2>3, <2>4, <2>5, EnterKeeps
<1>4. CASE Leave("watcher", "change", "idle")
  <2>1. filterState' = filterState /\ at'["router"] = at["router"]
    BY <1>0, <1>4 DEF Leave, Goes, filterVars, AdapterInv, AdaptersNest
  <2>2. StateIsRouters'
    BY <2>1 DEF AdapterInv, StateIsRouters
  <2>3. "idle" \in Position \ Looping
    BY DEF Looping, Position
  <2>4. QED BY <1>0, <1>4, <2>2, <2>3, LeaveKeeps
<1>5. QED BY <1>1, <1>2, <1>3, <1>4

\* update_network_configuration runs in the callbacks and, before the filter
\* starts, in the thread of start().
LEMMA UpdateKeeps ==
  ASSUME AdapterInv, NEW t \in Callback \cup {"router"}, UpdateNetworkConfiguration(t)
  PROVE  AdapterInv'
<1>0. t \in AdapterThread /\ t # "watcher" /\ "router" \in AdapterThread
  BY Threads
<1>1. CASE GetInterfaceList(t) \/ GetConnections(t) \/ NothingNew(t) \/ SomethingNew(t)
           \/ StoreConfiguration(t)
  <2>1. PICK from \in {"update", "listed", "connected", "apply"},
             to \in {"listed", "connected", "apply", "updated", "idle"} : Goes(t, from, to)
    BY <1>1
    DEF GetInterfaceList, GetConnections, NothingNew, SomethingNew, StoreConfiguration,
        AfterUpdate
  <2>2. UNCHANGED <<bound, tunnel, handles, adapterEvent, interfaces, filterList,
                    filterState, lock, left>>
    BY <1>1
    DEF GetInterfaceList, GetConnections, NothingNew, SomethingNew, StoreConfiguration,
        driverVars, filterVars
  <2>3. /\ at[t] \notin Looping /\ at[t] \in Unstarted /\ at' = [at EXCEPT ![t] = to]
        /\ to \in Position /\ to \notin Looping /\ to \in Unstarted
    BY <2>1 DEF Goes, Looping, Position, Unstarted
  <2>4. QED BY <1>0, <2>2, <2>3, MovesOn
<1>2. ASSUME NEW x \in Adapter, ApplyTo(t, x) PROVE AdapterInv'
  <2>1. /\ Enter(t, "apply", "filter", interfaces)
        /\ UNCHANGED <<bound, tunnel, handles, adapterEvent, interfaces, filterState>>
    BY <1>2 DEF ApplyTo, driverVars
  <2>2. at[t] = "apply" /\ at' = [at EXCEPT ![t] = "filter"]
    BY <2>1 DEF Enter, Goes
  <2>3. IF t = "router" THEN at["router"] = "apply" /\ at'["router"] = "filter"
                        ELSE at'["router"] = at["router"]
    BY <1>0, <2>2 DEF AdapterInv, AdaptersNest
  <2>4. StateIsRouters'
    BY <2>1, <2>3 DEF AdapterInv, StateIsRouters, Unstarted, Ending
  <2>5. filterState' # "running" /\ at'["router"] \notin {"stopping", "release"} => tunnel = {}
    BY <2>1, <2>3 DEF AdapterInv, ReleasedStays
  <2>6. handles \subseteq interfaces /\ handles \subseteq bound /\ "filter" \in Looping
    BY DEF AdapterInv, AdaptersNest, Looping
  <2>7. QED BY <1>0, <2>1, <2>4, <2>5, <2>6, EnterKeeps
<1>3. CASE Leave(t, "filter", "apply")
  <2>1. filterState' = filterState /\ at[t] = "filter" /\ at' = [at EXCEPT ![t] = "apply"]
    BY <1>3 DEF Leave, Goes, filterVars
  <2>2. IF t = "router" THEN at["router"] = "filter" /\ at'["router"] = "apply"
                        ELSE at'["router"] = at["router"]
    BY <1>0, <2>1 DEF AdapterInv, AdaptersNest
  <2>3. StateIsRouters'
    BY <2>1, <2>2 DEF AdapterInv, StateIsRouters, Unstarted, Ending
  <2>4. "apply" \in Position \ Looping
    BY DEF Looping, Position
  <2>5. QED BY <1>0, <1>3, <2>3, <2>4, LeaveKeeps
<1>4. QED BY <1>1, <1>2, <1>3 DEF UpdateNetworkConfiguration

\* Positions of start() and stop() outside the loops: the state of the filter
\* changes only where no adapter is, or may be, in tunnel mode, or where the
\* release is still to come.
LEMMA RouterMoves ==
  ASSUME AdapterInv, NEW to \in Position \ Looping, at["router"] \notin Looping,
         at' = [at EXCEPT !["router"] = to],
         UNCHANGED <<bound, tunnel, handles, adapterEvent, interfaces, filterList, lock, left>>,
         StateIsRouters',
         filterState' = "running" => filterState = "running",
         filterState' # "running" /\ to # "stopping" => tunnel = {}
  PROVE  AdapterInv'
<1>1. at' \in [AdapterThread -> Position] /\ at'["router"] = to /\ at'["watcher"] = at["watcher"]
  BY Threads DEF AdapterInv, AdaptersNest
<1>2. AdaptersNest'
  BY <1>1 DEF AdapterInv, AdaptersNest
<1>3. LoopHoldsLock'
  BY Threads DEF AdapterInv, AdaptersNest, LoopHoldsLock
<1>4. WatcherKnows' /\ WrongModeIsAhead'
  BY <1>1 DEF AdapterInv, WatcherKnows, WrongModeIsAhead
<1>5. ReleasedStays' /\ ReleaseReachesAll'
  BY <1>1 DEF AdapterInv, ReleasedStays, ReleaseReachesAll, Looping
<1>6. QED BY <1>2, <1>3, <1>4, <1>5 DEF AdapterInv

LEMMA RouterKeeps ==
  ASSUME AdapterInv,
         \/ StartRouter \/ FilterStarting \/ StartFilter \/ Leave("router", "start", "started")
         \/ RouterStarted \/ StopFilter \/ ReleaseFilter
         \/ Leave("router", "release", "released") \/ FilterStopped \/ CancelNotification
  PROVE  AdapterInv'
<1>0. "router" \in AdapterThread /\ at \in [AdapterThread -> Position]
  BY Threads DEF AdapterInv, AdaptersNest
<1>1. CASE StartRouter \/ FilterStarting \/ RouterStarted \/ StopFilter \/ FilterStopped
           \/ CancelNotification
  <2>1. PICK from \in Position \ Looping, to \in Position \ Looping :
          /\ Goes("router", from, to)
          /\ \/ from = "idle" /\ to = "update" /\ filterState' = filterState
             \/ from = "updated" /\ to = "starting" /\ filterState' = "starting"
             \/ /\ from = "started" /\ filterState' = filterState
                /\ to = IF filterState = "running" THEN "active" ELSE "idle"
             \/ from = "active" /\ to = "stopping" /\ filterState' = "stopping"
             \/ from = "released" /\ to = "stopped" /\ filterState' = "stopped"
             \/ from = "stopped" /\ to = "idle" /\ filterState' = filterState
    BY <1>1
    DEF StartRouter, FilterStarting, RouterStarted, StopFilter, FilterStopped,
        CancelNotification, Position, Looping, filterVars
  <2>2. UNCHANGED <<bound, tunnel, handles, adapterEvent, interfaces, filterList, lock, left>>
    BY <1>1
    DEF StartRouter, FilterStarting, RouterStarted, StopFilter, FilterStopped,
        CancelNotification, driverVars, filterVars
  <2>3. at["router"] = from /\ at' = [at EXCEPT !["router"] = to] /\ at'["router"] = to
    BY <1>0, <2>1 DEF Goes
  <2>4. StateIsRouters'
    BY <2>1, <2>3 DEF AdapterInv, StateIsRouters, Unstarted, Ending
  <2>5. /\ filterState' = "running" => filterState = "running"
        /\ filterState' # "running" /\ to # "stopping" => tunnel = {}
    BY <2>1, <2>3 DEF AdapterInv, StateIsRouters, ReleasedStays, Unstarted, Ending
  <2>6. QED BY <2>1, <2>2, <2>3, <2>4, <2>5, RouterMoves
<1>2. CASE StartFilter
  <2>1. /\ Enter("router", "starting", "start", interfaces)
        /\ filterState' \in {"running", "stopped"}
        /\ UNCHANGED <<bound, tunnel, handles, adapterEvent, interfaces>>
    BY <1>2 DEF StartFilter, driverVars
  <2>2. at["router"] = "starting" /\ at'["router"] = "start"
    BY <1>0, <2>1 DEF Enter, Goes
  <2>3. tunnel = {}
    BY <2>2 DEF AdapterInv, StateIsRouters, ReleasedStays
  <2>4. StateIsRouters'
    BY <2>1, <2>2 DEF StateIsRouters, Unstarted, Ending
  <2>5. handles \subseteq interfaces /\ handles \subseteq bound /\ "start" \in Looping
    BY DEF AdapterInv, AdaptersNest, Looping
  <2>6. QED BY <1>0, <2>1, <2>3, <2>4, <2>5, Threads, EnterKeeps
<1>3. CASE ReleaseFilter
  <2>1. /\ Enter("router", "stopping", "release", interfaces)
        /\ UNCHANGED <<bound, tunnel, handles, adapterEvent, interfaces, filterState>>
    BY <1>3 DEF ReleaseFilter, driverVars, filterVars
  <2>2. at["router"] = "stopping" /\ at'["router"] = "release"
    BY <1>0, <2>1 DEF Enter, Goes
  <2>3. StateIsRouters'
    BY <2>1, <2>2 DEF AdapterInv, StateIsRouters, Unstarted, Ending
  <2>4. handles \subseteq interfaces /\ handles \subseteq bound /\ "release" \in Looping
    BY DEF AdapterInv, AdaptersNest, Looping
  <2>5. QED BY <1>0, <2>1, <2>2, <2>3, <2>4, Threads, EnterKeeps
<1>4. ASSUME NEW from \in {"start", "release"},
             Leave("router", from, IF from = "start" THEN "started" ELSE "released")
      PROVE  AdapterInv'
  <2> DEFINE to == IF from = "start" THEN "started" ELSE "released"
  <2>1. filterState' = filterState /\ at["router"] = from /\ at'["router"] = to
    BY <1>0, <1>4 DEF Leave, Goes, filterVars
  <2>2. StateIsRouters'
    BY <2>1 DEF AdapterInv, StateIsRouters, Unstarted, Ending
  <2>3. to \in Position \ Looping /\ (from # "release" \/ to = "released")
    BY DEF Position, Looping
  <2>4. QED BY <1>0, <1>4, <2>2, <2>3, LeaveKeeps
<1>5. QED BY <1>1, <1>2, <1>3, <1>4

-----------------------------------------------------------------------------
(* Theorems *)

LEMMA AdapterStep == AdapterInv /\ [AdapterNext]_adapterVars => AdapterInv'
<1> SUFFICES ASSUME AdapterInv, [AdapterNext]_adapterVars PROVE AdapterInv'
  OBVIOUS
<1>1. CASE UNCHANGED adapterVars
  BY <1>1
  DEF adapterVars, driverVars, filterVars, AdapterInv, AdaptersNest, LoopHoldsLock,
      StateIsRouters, WatcherKnows, WrongModeIsAhead, ReleasedStays, ReleaseReachesAll
<1>2. ASSUME NEW t \in Callback, Notified(t) PROVE AdapterInv'
  <2>1. t \in AdapterThread /\ t # "watcher" /\ t # "router"
    BY Threads
  <2>2. /\ at[t] = "idle" /\ at' = [at EXCEPT ![t] = "update"]
        /\ UNCHANGED <<bound, tunnel, handles, adapterEvent, interfaces, filterList,
                       filterState, lock, left>>
    BY <1>2 DEF Notified, Goes, driverVars, filterVars
  <2>3. "update" \in Position /\ "update" \notin Looping /\ "idle" \notin Looping
    BY DEF Position, Looping
  <2>4. QED BY <2>1, <2>2, <2>3, MovesOn
<1>3. QED
  BY <1>1, <1>2, DriverKeeps, LoopKeeps, ReleaseKeeps, WatcherKeeps, UpdateKeeps, RouterKeeps
  DEF AdapterNext

LEMMA AdapterInvImplies == AdapterInv => TunnelsFollowFilter
<1> SUFFICES ASSUME AdapterInv PROVE TunnelsFollowFilter
  OBVIOUS
<1>1. filterState = "stopped" => tunnel = {}
  BY DEF AdapterInv, ReleasedStays, StateIsRouters, Ending
<1>2. Quiesced => handles = bound
  BY DEF AdapterInv, WatcherKnows, Quiesced
<1>3. Quiesced /\ filterState = "running" => tunnel = bound \cap filterList
  BY <1>2 DEF AdapterInv, AdaptersNest, WrongModeIsAhead, Quiesced
<1>4. QED BY <1>1, <1>2, <1>3 DEF TunnelsFollowFilter

\* queued_multi_interface_packet_filter: for any number of adapters that come
\* and go and any number of callbacks that overlap, no adapter is left in tunnel
\* mode behind stop_filter, and while the filter runs the modes are those of
\* filter_adapters_list_ as soon as nobody holds lock_ and the watcher is done.
THEOREM ModesFollowTheFilter == AdapterSpec => []TunnelsFollowFilter
<1>1. QED BY AdapterInvInit, AdapterStep, AdapterInvImplies, PTL DEF AdapterSpec

----------------------------------------------------------------------------
(* Types of the adapters *)

\* A thread that goes on is at a position again.
LEMMA GoesSomewhere ==
  ASSUME AdapterTypeOK, NEW t \in AdapterThread, NEW from, NEW to \in Position, Goes(t, from, to)
  PROVE  at' \in [AdapterThread -> Position]
BY DEF AdapterTypeOK, Goes

LEMMA DriverTypes ==
  ASSUME AdapterTypeOK,
         \/ \E x \in Adapter : Rebind(x)
         \/ \E t \in AdapterThread : UpdateAdapter(t)
         \/ ReleaseAdapter
  PROVE  AdapterTypeOK'
<1>1. CASE \E x \in Adapter : Rebind(x)
  BY <1>1, AdapterFilterAssumption DEF Rebind, AdapterTypeOK, filterVars, localVars
<1>2. ASSUME NEW t \in AdapterThread, UpdateAdapter(t) PROVE AdapterTypeOK'
  BY <1>2 DEF UpdateAdapter, SetMode, AdapterTypeOK, filterVars, localVars
<1>3. CASE ReleaseAdapter
  BY <1>3 DEF ReleaseAdapter, SetMode, AdapterTypeOK, filterVars, localVars
<1>4. QED BY <1>1, <1>2, <1>3

LEMMA LeaveTypes ==
  ASSUME AdapterTypeOK, NEW t \in AdapterThread, NEW from, NEW to \in Position,
         Leave(t, from, to)
  PROVE  AdapterTypeOK'
<1>1. at' \in [AdapterThread -> Position]
  BY GoesSomewhere DEF Leave
<1>2. QED BY <1>1 DEF Leave, AdapterTypeOK, driverVars, filterVars, localVars

LEMMA WatcherTypes ==
  ASSUME AdapterTypeOK, Wakes \/ Resets \/ OnNetworkAdapterChange
  PROVE  AdapterTypeOK'
<1>1. /\ "woken" \in Position /\ "reset" \in Position /\ "change" \in Position
      /\ "watcher" \in AdapterThread
  BY Threads DEF Position
<1>2. at' \in [AdapterThread -> Position]
  BY <1>1, GoesSomewhere DEF Wakes, Resets, OnNetworkAdapterChange, Enter
<1>3. QED BY <1>1, <1>2
  DEF Wakes, Resets, OnNetworkAdapterChange, Enter, AdapterTypeOK, driverVars, filterVars,
      localVars

\* A thread in update_network_configuration.
LEMMA UpdateTypes ==
  ASSUME AdapterTypeOK, NEW t \in AdapterThread, UpdateNetworkConfiguration(t) \/ Notified(t)
  PROVE  AdapterTypeOK'
<1>1. /\ {"update", "listed", "connected", "apply", "filter", "updated", "idle"} \subseteq Position
      /\ AfterUpdate(t) \in Position
  BY DEF Position, AfterUpdate
<1>2. CASE GetInterfaceList(t) \/ GetConnections(t)
  <2>1. at' \in [AdapterThread -> Position]
    BY <1>1, <1>2, GoesSomewhere DEF GetInterfaceList, GetConnections
  <2>2. /\ todo' \in [AdapterThread -> SUBSET Adapter]
        /\ want' \in [AdapterThread -> SUBSET Adapter]
    BY <1>2 DEF GetInterfaceList, GetConnections, AdapterTypeOK
  <2>3. QED BY <1>2, <2>1, <2>2
    DEF GetInterfaceList, GetConnections, AdapterTypeOK, driverVars, filterVars
<1>3. CASE NothingNew(t) \/ SomethingNew(t) \/ StoreConfiguration(t) \/ Notified(t)
  <2>1. at' \in [AdapterThread -> Position]
    BY <1>1, <1>3, GoesSomewhere DEF NothingNew, SomethingNew, StoreConfiguration, Notified
  <2>2. /\ todo' \in [AdapterThread -> SUBSET Adapter]
        /\ want' \in [AdapterThread -> SUBSET Adapter]
    BY <1>3 DEF NothingNew, SomethingNew, StoreConfiguration, Notified, AdapterTypeOK, localVars
  <2>3. QED BY <1>3, <2>1, <2>2
    DEF NothingNew, SomethingNew, StoreConfiguration, Notified, AdapterTypeOK, driverVars,
        filterVars
<1>4. ASSUME NEW x \in Adapter, ApplyTo(t, x) PROVE AdapterTypeOK'
  <2>1. at' \in [AdapterThread -> Position]
    BY <1>1, <1>4, GoesSomewhere DEF ApplyTo, Enter
  <2>2. todo' \in [AdapterThread -> SUBSET Adapter]
    BY <1>4 DEF ApplyTo, AdapterTypeOK
  <2>3. QED BY <1>4, <2>1, <2>2 DEF ApplyTo, Enter, AdapterTypeOK, driverVars
<1>5. CASE Leave(t, "filter", "apply")
  BY <1>1, <1>5, LeaveTypes
<1>6. QED BY <1>2, <1>3, <1>4, <1>5 DEF UpdateNetworkConfiguration

\* The thread of start() and stop().
LEMMA RouterTypes ==
  ASSUME AdapterTypeOK,
         \/ StartRouter \/ FilterStarting \/ StartFilter \/ RouterStarted \/ StopFilter
         \/ ReleaseFilter \/ FilterStopped \/ CancelNotification
  PROVE  AdapterTypeOK'
<1>1. {"update", "starting", "start", "active", "idle", "stopping", "release", "stopped"}
        \subseteq Position /\ "router" \in AdapterThread
  BY Threads DEF Position
<1>2. at' \in [AdapterThread -> Position]
  BY <1>1, GoesSomewhere
  DEF StartRouter, FilterStarting, StartFilter, RouterStarted, StopFilter, ReleaseFilter,
      FilterStopped, CancelNotification, Enter
<1>3. CASE StartFilter \/ ReleaseFilter
  BY <1>1, <1>2, <1>3
  DEF StartFilter, ReleaseFilter, Enter, AdapterTypeOK, driverVars, filterVars, localVars
<1>4. CASE StartRouter \/ RouterStarted \/ CancelNotification
  <2>1. registered' \in BOOLEAN
    BY <1>4 DEF StartRouter, RouterStarted, CancelNotification, AdapterTypeOK
  <2>2. QED BY <1>2, <1>4, <2>1
    DEF StartRouter, RouterStarted, CancelNotification, AdapterTypeOK, driverVars, filterVars,
        localVars
<1>5. CASE FilterStarting \/ StopFilter \/ FilterStopped
  BY <1>2, <1>5
  DEF FilterStarting, StopFilter, FilterStopped, AdapterTypeOK, driverVars, localVars
<1>6. QED BY <1>3, <1>4, <1>5

\* The types of the adapters' state: the driver has no mode for an adapter that
\* is not listed, and a loop has nothing left that the list does not have.
THEOREM AdapterTypes == AdapterSpec => []AdapterTypeOK
<1>1. ASSUME AdapterInit PROVE AdapterTypeOK
  <2>1. "idle" \in Position
    BY DEF Position
  <2>2. at \in [AdapterThread -> Position]
    BY ONLY <1>1, <2>1 DEF AdapterInit
  <2>3. 0 \in 0 .. MaxBinds
    BY AdapterFilterAssumption
  <2>4. QED BY <1>1, <2>2, <2>3 DEF AdapterInit, AdapterTypeOK
<1>2. ASSUME AdapterTypeOK, AdapterNext PROVE AdapterTypeOK'
  <2>1. /\ {"idle", "started", "released"} \subseteq Position
        /\ "router" \in AdapterThread /\ "watcher" \in AdapterThread
        /\ Callback \subseteq AdapterThread
    BY Threads DEF Position
  <2>2. CASE \/ Leave("watcher", "change", "idle") \/ Leave("router", "start", "started")
             \/ Leave("router", "release", "released")
    BY <1>2, <2>1, <2>2, LeaveTypes
  <2>3. QED BY <1>2, <2>1, <2>2, DriverTypes, WatcherTypes, UpdateTypes, RouterTypes
            DEF AdapterNext
<1>3. ASSUME AdapterTypeOK, UNCHANGED adapterVars PROVE AdapterTypeOK'
  BY <1>3 DEF AdapterTypeOK, adapterVars, driverVars, filterVars, localVars
<1>4. QED BY <1>1, <1>2, <1>3, PTL DEF AdapterSpec

------------------------------------------------------------------------------
\* OwnerResolver: the cache of PIDs and their programs.

Live(p) == running[p] = "live"

\* A PID has one process at a time.
OneHolder ==
  \A p, q \in Program : Live(p) /\ Live(q) /\ NumberOf[p] = NumberOf[q] => p = q

OpenQuery  == [row: TableRow, step: {"identify", "find", "image", "fallback"},
               identity: Program \cup {NoProgram}]
StoreQuery == [row: TableRow, step: {"store"}, identity: Program, name: Program]

\* An identity is one of the PID that is asked for, of a process that was
\* launched; the image that is about to be stored is that of a process of the
\* PID, so that it is its own if it still lives.
QueryIsSound ==
  query # NoProgram =>
    /\ IF query.step = "store" THEN query \in StoreQuery ELSE query \in OpenQuery
    /\ query.step = "find" => query.identity \in Program
    /\ query.step = "identify" => query.identity = NoProgram
    /\ query.identity \in Program =>
         NumberOf[query.identity] = query.row.number /\ running[query.identity] # "new"
    /\ query.step = "store" /\ Live(query.identity) => query.name = query.identity

\* So is every entry.
EntryIsSound(entry) ==
  /\ entry \in Entry /\ running[entry.key] # "new"
  /\ Live(entry.key) => entry.name = entry.key

Sound(s) == s \in Seq(Entry) /\ \A i \in 1 .. Len(s) : EntryIsSound(s[i])

\* What was not found is still not there when it is stored: an entry of its
\* key, if there is one, has expired.
MissIsReal ==
  query # NoProgram /\ query.step \in {"image", "store"} /\ query.identity \in Program
    => \A i \in 1 .. Len(cached) : ~IsHit(i)

ResolverInv ==
  /\ running \in [Program -> {"new", "live", "gone"}]
  /\ expired \in Nat
  /\ OneHolder /\ QueryIsSound /\ MissIsReal /\ Sound(cached)

----------------------------------------------------------------------------
(* Sound entries, in a part of the cache and in a longer one *)

LEMMA PartIsSound ==
  ASSUME NEW s, NEW m \in Int, NEW n \in Int, Sound(s), 1 <= m, n <= Len(s)
  PROVE  Sound(SubSeq(s, m, n))
<1>1. s \in Seq(Entry) /\ \A i \in m .. n : i \in 1 .. Len(s)
  BY DEF Sound
<1>2. PICK t : t = SubSeq(s, m, n)
  OBVIOUS
<1>3. t \in Seq(Entry) /\ Len(t) = IF m <= n THEN n - m + 1 ELSE 0
  BY <1>1, <1>2
<1>4. \A i \in 1 .. Len(t) : t[i] = s[m + i - 1] /\ m + i - 1 \in 1 .. Len(s)
  BY <1>1, <1>2, <1>3
<1>5. QED BY <1>2, <1>3, <1>4 DEF Sound

SideBySide(s, t) == s \o t
Added(s, e)  == Append(s, e)

LEMMA JoinedAreSound ==
  ASSUME NEW s, NEW t, Sound(s), Sound(t) PROVE Sound(SideBySide(s, t))
<1>1. PICK u, m, n : u = s \o t /\ m = Len(s) /\ n = Len(t)
  OBVIOUS
<1>2. s \in Seq(Entry) /\ t \in Seq(Entry)
  BY DEF Sound
<1>3. /\ u \in Seq(Entry) /\ m \in Nat /\ n \in Nat /\ Len(u) = m + n
      /\ \A i \in 1 .. m : u[i] = s[i]
      /\ \A i \in 1 .. n : u[m + i] = t[i]
  BY ONLY <1>1, <1>2
<1>4. ASSUME NEW i \in 1 .. m + n PROVE EntryIsSound(u[i])
  <2>1. CASE i \in 1 .. m
    BY <1>1, <1>3, <2>1 DEF Sound
  <2>2. CASE i \notin 1 .. m
    <3>1. i - m \in 1 .. n /\ m + (i - m) = i
      BY <1>3, <2>2
    <3>2. u[m + (i - m)] = t[i - m]
      BY <1>3, <3>1
    <3>3. QED BY <1>1, <3>1, <3>2 DEF Sound
  <2>3. QED BY <2>1, <2>2
<1>5. QED BY <1>1, <1>3, <1>4 DEF Sound, SideBySide

LEMMA AddedIsSound ==
  ASSUME NEW s, NEW e, Sound(s), EntryIsSound(e) PROVE Sound(Added(s, e))
<1>1. PICK u, n : u = Append(s, e) /\ n = Len(s)
  OBVIOUS
<1>2. s \in Seq(Entry) /\ e \in Entry
  BY DEF Sound, EntryIsSound
<1>3. /\ u \in Seq(Entry) /\ n \in Nat /\ Len(u) = n + 1 /\ u[n + 1] = e
      /\ \A i \in 1 .. n : u[i] = s[i]
  BY ONLY <1>1, <1>2
<1>4. \A i \in 1 .. n + 1 : i \in 1 .. n \/ i = n + 1
  BY <1>3
<1>5. QED BY <1>1, <1>3, <1>4 DEF Sound, Added

LEMMA TailIsSound == ASSUME NEW s, Sound(s), s # <<>> PROVE Sound(Tail(s))
<1>1. PICK t, n : t = Tail(s) /\ n = Len(s)
  OBVIOUS
<1>2. s \in Seq(Entry) /\ s # <<>>
  BY DEF Sound
<1>3. t \in Seq(Entry) /\ n \in Nat /\ n >= 1 /\ Len(t) = n - 1 /\ \A i \in 1 .. n - 1 : t[i] = s[i + 1]
  BY ONLY <1>1, <1>2
<1>4. \A i \in 1 .. n - 1 : i + 1 \in 1 .. n
  BY <1>3
<1>5. QED BY <1>1, <1>3, <1>4 DEF Sound

----------------------------------------------------------------------------
(* Every step keeps the invariant *)

LEMMA WorldKeeps ==
  ASSUME ResolverInv, NEW p \in Program, Launch(p) \/ Terminate(p)
  PROVE  ResolverInv'
<1>1. /\ running' \in [Program -> {"new", "live", "gone"}]
      /\ \A q \in Program : q # p => running'[q] = running[q]
      /\ running'[p] # "new"
      /\ UNCHANGED <<cached, expired, query>>
  BY DEF ResolverInv, Launch, Terminate
<1>2. OneHolder'
  BY <1>1, NumberAssumption DEF ResolverInv, OneHolder, Live, Launch, Terminate
<1>3. \A q \in Program : running[q] # "new" => running'[q] # "new" /\ (Live(q)' => Live(q))
  BY <1>1 DEF ResolverInv, Live, Launch, Terminate
<1>4. QueryIsSound'
  BY <1>1, <1>3 DEF ResolverInv, QueryIsSound, OpenQuery, StoreQuery
<1>5. \A e : EntryIsSound(e) => EntryIsSound(e)'
  BY <1>3 DEF EntryIsSound, Entry
<1>6. Sound(cached)'
  BY <1>1, <1>5 DEF ResolverInv, Sound
<1>7. MissIsReal'
  BY <1>1 DEF ResolverInv, MissIsReal, IsHit
<1>8. QED BY <1>1, <1>2, <1>4, <1>6, <1>7 DEF ResolverInv

\* The steps of a query up to the image leave the processes and the cache.
LEMMA QueryKeeps ==
  ASSUME ResolverInv, QueryIsSound', MissIsReal', UNCHANGED <<running, cached, expired>>
  PROVE  ResolverInv'
<1>1. \A q : Live(q)' <=> Live(q)
  BY DEF Live
<1>2. OneHolder' /\ Sound(cached)'
  BY <1>1 DEF ResolverInv, OneHolder, Sound, EntryIsSound
<1>3. QED BY <1>2 DEF ResolverInv

LEMMA StartKeeps ==
  ASSUME ResolverInv, NEW row \in TableRow, StartQuery(row) PROVE ResolverInv'
<1>1. query' = [row |-> row, step |-> "identify", identity |-> NoProgram]
      /\ UNCHANGED <<running, cached, expired>>
  BY DEF StartQuery
<1>2. QueryIsSound'
  BY <1>1, NobodyAssumption DEF QueryIsSound, OpenQuery, Live
<1>3. MissIsReal'
  BY <1>1 DEF MissIsReal
<1>4. QED BY <1>1, <1>2, <1>3, QueryKeeps

LEMMA IdentifyKeeps == ASSUME ResolverInv, Identify PROVE ResolverInv'
<1>1. /\ query # NoProgram /\ query.step = "identify" /\ query \in OpenQuery
      /\ UNCHANGED <<running, cached, expired>>
  BY DEF Identify, At, ResolverInv, QueryIsSound
<1>2. QueryIsSound'
  <2>1. ASSUME NEW p \in Holder(query.row.number),
               query' = [query EXCEPT !.step = "find", !.identity = p]
        PROVE  QueryIsSound'
    <3>1. p \in Program /\ running[p] = "live" /\ NumberOf[p] = query.row.number
      BY <2>1 DEF Holder
    <3>2. query' \in OpenQuery /\ query'.step = "find" /\ query'.identity = p /\ query'.row = query.row
      BY <1>1, <2>1, <3>1 DEF OpenQuery
    <3>3. QED BY <1>1, <3>1, <3>2 DEF QueryIsSound
  <2>2. ASSUME query' = [query EXCEPT !.step = "image"] PROVE QueryIsSound'
    <3>1. /\ query' \in OpenQuery /\ query'.step = "image" /\ query'.identity = query.identity
          /\ query'.row = query.row
      BY <1>1, <2>2 DEF OpenQuery
    <3>2. QED BY <1>1, <3>1 DEF QueryIsSound, ResolverInv
  <2>3. QED BY <2>1, <2>2 DEF Identify
<1>3. MissIsReal'
  <2>1. query'.step = "find" \/ query'.identity = NoProgram
    BY <1>1 DEF Identify, OpenQuery, ResolverInv, QueryIsSound
  <2>2. QED BY <2>1, NobodyAssumption DEF MissIsReal
<1>4. QED BY <1>1, <1>2, <1>3, QueryKeeps

LEMMA FindKeeps == ASSUME ResolverInv, FindCached PROVE ResolverInv'
<1>1. /\ query # NoProgram /\ query.step = "find" /\ query \in OpenQuery
      /\ UNCHANGED <<running, cached, expired>>
  BY DEF FindCached, At, ResolverInv, QueryIsSound
<1>2. QueryIsSound'
  <2>1. CASE query' = NoProgram
    BY <2>1 DEF QueryIsSound
  <2>2. CASE query' = [query EXCEPT !.step = "image"]
    <3>1. /\ query' \in OpenQuery /\ query'.step = "image" /\ query'.identity = query.identity
          /\ query'.row = query.row
      BY <1>1, <2>2 DEF OpenQuery
    <3>2. QED BY <1>1, <3>1 DEF QueryIsSound, ResolverInv
  <2>3. QED BY <2>1, <2>2 DEF FindCached, Answered
<1>3. MissIsReal'
  <2>1. CASE query' = NoProgram
    BY <2>1 DEF MissIsReal
  <2>2. CASE /\ \A i \in 1 .. Len(cached) : ~IsHit(i)
             /\ query' = [query EXCEPT !.step = "image"]
    <3>1. query'.identity = query.identity /\ query'.row = query.row
      BY <1>1, <2>2 DEF OpenQuery
    <3>2. QED BY <1>1, <2>2, <3>1 DEF MissIsReal, IsHit
  <2>3. QED BY <2>1, <2>2 DEF FindCached, Answered
<1>4. QED BY <1>1, <1>2, <1>3, QueryKeeps

LEMMA ImageKeeps == ASSUME ResolverInv, ReadImage PROVE ResolverInv'
<1>1. /\ query # NoProgram /\ query.step = "image" /\ query \in OpenQuery
      /\ UNCHANGED <<running, cached, expired>>
  BY DEF ReadImage, At, ResolverInv, QueryIsSound
<1>2. QueryIsSound'
  <2>1. CASE query' = NoProgram
    BY <2>1 DEF QueryIsSound
  <2>2. ASSUME NEW p \in Holder(query.row.number), query.identity # NoProgram,
               query' = [row |-> query.row, step |-> "store", identity |-> query.identity,
                         name |-> p]
        PROVE  QueryIsSound'
    <3>1. p \in Program /\ running[p] = "live" /\ NumberOf[p] = query.row.number
      BY <2>2 DEF Holder
    <3>2. query.identity \in Program /\ query.row \in TableRow
      BY <1>1, <2>2 DEF OpenQuery
    <3>3. query' \in StoreQuery /\ query'.step = "store"
      BY <2>2, <3>1, <3>2 DEF StoreQuery
    <3>4. /\ NumberOf[query.identity] = query.row.number /\ running[query.identity] # "new"
          /\ running[query.identity] = "live" => p = query.identity
      BY <1>1, <3>1, <3>2 DEF ResolverInv, QueryIsSound, OneHolder, Live
    <3>5. QED BY <1>1, <2>2, <3>3, <3>4 DEF QueryIsSound, Live
  <2>3. ASSUME query' = [row |-> [query.row EXCEPT !.tag = NoTag], step |-> "identify",
                         identity |-> NoProgram]
        PROVE  QueryIsSound'
    <3>1. [query.row EXCEPT !.tag = NoTag] \in TableRow
      BY <1>1, TagAssumption DEF OpenQuery, TableRow
    <3>2. QED BY <2>3, <3>1, NobodyAssumption DEF QueryIsSound, OpenQuery
  <2>4. QED BY <2>1, <2>2, <2>3 DEF ReadImage, Answered, NotResolved
<1>3. MissIsReal'
  <2>1. CASE query' = NoProgram
    BY <2>1 DEF MissIsReal
  <2>2. CASE query'.identity = query.identity /\ query'.row = query.row
    BY <1>1, <2>2 DEF ResolverInv, MissIsReal, IsHit
  <2>3. CASE query'.step = "identify"
    BY <2>3 DEF MissIsReal
  <2>4. QED BY <2>1, <2>2, <2>3 DEF ReadImage, Answered, NotResolved
<1>4. QED BY <1>1, <1>2, <1>3, QueryKeeps

\* A full cache is not empty, so that it has an oldest entry to lose.
Kept == IF Full THEN Tail(Cleaned) ELSE Cleaned
Entries0  == IF Full /\ Stale > 0 THEN Stale - 1 ELSE Stale

LEMMA CleanedIsSound == ASSUME ResolverInv PROVE Sound(Cleaned) /\ Stale \in Nat
<1>1. Sound(cached) /\ expired + 1 \in Int /\ Len(cached) \in Int /\ 1 <= expired + 1
  BY DEF ResolverInv, Sound
<1>2. Sound(SubSeq(cached, expired + 1, Len(cached)))
  BY <1>1, PartIsSound
<1>3. QED BY <1>1, <1>2 DEF Cleaned, Stale, ResolverInv

LEMMA KeptIsSound == ASSUME ResolverInv PROVE Sound(Kept)
<1>1. Sound(Cleaned)
  BY CleanedIsSound
<1>2. CASE Full
  <2>1. Cleaned # <<>>
    BY <1>2, CacheAssumption DEF Full
  <2>2. QED BY <1>1, <1>2, <2>1, TailIsSound DEF Kept
<1>3. QED BY <1>1, <1>2 DEF Kept

LEMMA OthersAreSound == ASSUME NEW s, Sound(s) PROVE Sound(Others(s))
<1>1. PICK i : /\ Others(s) = SideBySide(SubSeq(s, 1, i - 1), SubSeq(s, i + 1, Len(s)))
               /\ i \in 0 .. Len(s)
  <2>1. PICK i : i = IF \E k \in 1 .. Len(s) : SameKey(s[k])
                      THEN CHOOSE k \in 1 .. Len(s) : SameKey(s[k]) ELSE 0
    OBVIOUS
  <2>2. i \in 0 .. Len(s)
    BY <2>1 DEF Sound
  <2>3. Others(s) = SideBySide(SubSeq(s, 1, i - 1), SubSeq(s, i + 1, Len(s)))
    BY <2>1, Zenon DEF Others, SideBySide
  <2>4. QED BY <2>2, <2>3
<1>2. Len(s) \in Nat /\ i - 1 \in Int /\ i + 1 \in Int /\ 1 <= i + 1 /\ i - 1 <= Len(s)
  BY <1>1 DEF Sound
<1>3. Sound(SubSeq(s, 1, i - 1)) /\ Sound(SubSeq(s, i + 1, Len(s)))
  BY <1>2, PartIsSound
<1>4. QED BY <1>1, <1>3, JoinedAreSound

\* An entry that is renewed is one of the expired ones.
LEMMA RenewedIsOld ==
  ASSUME ResolverInv, At("store"), NEW i \in 1 .. Len(Kept), SameKey(Kept[i])
  PROVE  Entries0 >= 1
<1>1. /\ cached \in Seq(Entry) /\ expired \in Nat
      /\ query.identity \in Program
      /\ \A j \in 1 .. Len(cached) : SameKey(cached[j]) => j <= expired
  BY DEF ResolverInv, Sound, At, QueryIsSound, StoreQuery, MissIsReal, IsHit, SameKey,
         StoredKey
<1>2. Sound(Cleaned)
  BY CleanedIsSound
<1>3. PICK j \in 1 .. Len(Cleaned) : SameKey(Cleaned[j]) /\ (Full => j >= 2)
  <2>1. CASE Full
    <3>1. Cleaned \in Seq(Entry) /\ Cleaned # <<>>
      BY <1>2, <2>1, CacheAssumption DEF Full, Sound
    <3>2. PICK t : t = Tail(Cleaned)
      OBVIOUS
    <3>3. /\ Len(Cleaned) \in Nat /\ Len(t) = Len(Cleaned) - 1
          /\ \A k \in 1 .. Len(t) : t[k] = Cleaned[k + 1]
      BY ONLY <3>1, <3>2
    <3>4. i \in 1 .. Len(t) /\ SameKey(t[i])
      BY <2>1, <3>2 DEF Kept
    <3>5. i + 1 \in 1 .. Len(Cleaned) /\ SameKey(Cleaned[i + 1]) /\ i + 1 >= 2
      BY <3>3, <3>4
    <3>6. QED BY <3>5
  <2>2. CASE ~Full
    BY <2>2 DEF Kept
  <2>3. QED BY <2>1, <2>2
<1>4. ~cleanupDue
  <2>1. SUFFICES ASSUME cleanupDue PROVE FALSE
    OBVIOUS
  <2>2. PICK t : t = SubSeq(cached, expired + 1, Len(cached))
    OBVIOUS
  <2>3. \A k \in 1 .. Len(t) :
          t[k] = cached[expired + k] /\ expired + k \in 1 .. Len(cached)
    BY ONLY <1>1, <2>2
  <2>4. j \in 1 .. Len(t) /\ SameKey(t[j])
    BY <1>3, <2>1, <2>2 DEF Cleaned
  <2>5. QED BY <1>1, <2>3, <2>4
<1>5. j \in 1 .. Len(cached) /\ j <= expired /\ Stale = expired
  BY <1>1, <1>3, <1>4 DEF Cleaned, Stale
<1>6. QED BY <1>1, <1>3, <1>5 DEF Entries0

LEMMA StoreKeeps == ASSUME ResolverInv, Store PROVE ResolverInv'
<1>1. query # NoProgram /\ query.step = "store" /\ query \in StoreQuery
  BY DEF Store, At, ResolverInv, QueryIsSound
<1>2. /\ cached' = Added(Others(Kept), NewEntry)
      /\ expired' = IF \E i \in 1 .. Len(Kept) : SameKey(Kept[i]) THEN Entries0 - 1 ELSE Entries0
      /\ query' = NoProgram
      /\ running' = running
  BY DEF Store, Kept, Entries0, Added, Answered
<1>3. EntryIsSound(NewEntry)
  BY <1>1 DEF NewEntry, StoredKey, EntryIsSound, Entry, StoreQuery, TableRow, ResolverInv,
              QueryIsSound
<1>4. Sound(cached')
  BY <1>2, <1>3, KeptIsSound, OthersAreSound, AddedIsSound
<1>5. Sound(cached)'
  BY <1>2, <1>4 DEF Sound, EntryIsSound, Live
<1>6. Entries0 \in Nat
  BY CleanedIsSound DEF Entries0
<1>7. expired' \in Nat
  <2>1. CASE \E i \in 1 .. Len(Kept) : SameKey(Kept[i])
    <3>1. Entries0 >= 1
      BY <2>1, RenewedIsOld DEF Store
    <3>2. QED BY <1>2, <1>6, <2>1, <3>1
  <2>2. QED BY <1>2, <1>6, <2>1
<1>8. QueryIsSound' /\ MissIsReal'
  BY <1>2 DEF QueryIsSound, MissIsReal
<1>9. QED BY <1>2, <1>5, <1>7, <1>8 DEF ResolverInv, OneHolder, Live

LEMMA TimeKeeps == ASSUME ResolverInv, FiveMinutes \/ TenMinutes PROVE ResolverInv'
<1>1. /\ UNCHANGED <<running, cached, query>>
      /\ expired' \in Nat /\ expired' >= expired
  BY DEF FiveMinutes, TenMinutes, ResolverInv
<1>2. MissIsReal'
  BY <1>1 DEF MissIsReal, IsHit, ResolverInv
<1>3. QED BY <1>1, <1>2 DEF ResolverInv, OneHolder, QueryIsSound, Sound, EntryIsSound, Live

----------------------------------------------------------------------------

LEMMA ResolverInvInit == ResolverInit => ResolverInv
<1>1. <<>> \in Seq(Entry)
  OBVIOUS
<1>2. ResolverInit => Sound(cached)
  BY <1>1 DEF ResolverInit, Sound
<1>3. QED BY <1>2 DEF ResolverInit, ResolverInv, OneHolder, QueryIsSound, MissIsReal, Live

LEMMA ResolverInvStep == ResolverInv /\ [ResolverNext]_resolverVars => ResolverInv'
<1>1. ASSUME ResolverInv, ResolverNext PROVE ResolverInv'
  BY <1>1, WorldKeeps, StartKeeps, IdentifyKeeps, FindKeeps, ImageKeeps, StoreKeeps,
     TimeKeeps DEF ResolverNext
<1>2. ASSUME ResolverInv, UNCHANGED resolverVars PROVE ResolverInv'
  BY <1>2 DEF resolverVars, ResolverInv, OneHolder, QueryIsSound, MissIsReal, IsHit, Sound,
              EntryIsSound, Live
<1>3. QED BY <1>1, <1>2

\* Entries of one key only name the process the key identifies: its PID may
\* have changed hands between the two handles only when it has gone, and a
\* process that has gone does not come back (resolve_from_pid_and_tag).
THEOREM CacheNamesRightly == ResolverSpec => []CacheNamesItsProgram
<1>1. ResolverInv => CacheNamesItsProgram
  BY DEF ResolverInv, Sound, EntryIsSound, CacheNamesItsProgram, Live
<1>2. QED BY <1>1, ResolverInvInit, ResolverInvStep, PTL DEF ResolverSpec

\* The cache is within its limit, and of its entries no more have expired than
\* there are.
CacheFits ==
  /\ Len(cached) <= MaxCache /\ expired <= Len(cached)
  /\ cleanupDue \in BOOLEAN
  /\ resolved \in [identity: Program, name: Program] \cup {NoProgram}

\* A sequence without its entry of a key is one shorter, if it has one.
LEMMA OthersLength ==
  ASSUME NEW s \in Seq(Entry)
  PROVE  Len(Others(s)) = IF \E i \in 1 .. Len(s) : SameKey(s[i]) THEN Len(s) - 1
                          ELSE Len(s)
<1>1. PICK i : i = IF \E k \in 1 .. Len(s) : SameKey(s[k])
                   THEN CHOOSE k \in 1 .. Len(s) : SameKey(s[k]) ELSE 0
  OBVIOUS
<1>2. PICK n \in Nat : n = Len(s)
  OBVIOUS
<1>3. IF \E k \in 1 .. Len(s) : SameKey(s[k]) THEN i \in 1 .. n ELSE i = 0
  BY <1>1, <1>2
<1>4. Others(s) = SideBySide(SubSeq(s, 1, i - 1), SubSeq(s, i + 1, Len(s)))
  BY <1>1, Zenon DEF Others, SideBySide
<1>5. PICK t, u : t = SubSeq(s, 1, i - 1) /\ u = SubSeq(s, i + 1, n)
  OBVIOUS
<1>6. i \in 0 .. n
  BY <1>2, <1>3
<1>7. t \in Seq(Entry) /\ Len(t) = IF i = 0 THEN 0 ELSE i - 1
  BY ONLY <1>2, <1>5, <1>6, s \in Seq(Entry)
<1>8. u \in Seq(Entry) /\ Len(u) = n - i
  BY ONLY <1>2, <1>5, <1>6, s \in Seq(Entry)
<1>9. Len(SideBySide(t, u)) = IF i = 0 THEN n ELSE n - 1
  BY <1>2, <1>6, <1>7, <1>8 DEF SideBySide
<1>10. QED BY <1>2, <1>3, <1>4, <1>5, <1>9

\* What is kept for a new entry has room for it, and the expired ones are among
\* what is kept.
LEMMA KeptHasRoom ==
  ASSUME ResolverInv, CacheFits
  PROVE  Kept \in Seq(Entry) /\ Len(Kept) < MaxCache /\ Entries0 <= Len(Kept)
<1>1. PICK n \in Nat : n = Len(cached)
  BY DEF ResolverInv, Sound
<1>2. cached \in Seq(Entry) /\ expired \in 0 .. n /\ n <= MaxCache /\ MaxCache \in Nat \ {0}
  BY <1>1, CacheAssumption DEF ResolverInv, Sound, CacheFits
<1>3. PICK c, k : c = Cleaned /\ k = Stale
  OBVIOUS
<1>4. /\ c \in Seq(Entry) /\ Len(c) \in Nat /\ k \in 0 .. Len(c)
      /\ Len(c) <= MaxCache
  <2>1. CASE cleanupDue
    <3>1. PICK t : t = SubSeq(cached, expired + 1, n)
      OBVIOUS
    <3>2. t \in Seq(Entry) /\ Len(t) = n - expired
      BY ONLY <1>1, <1>2, <3>1
    <3>3. c = t /\ k = 0
      BY <1>1, <1>3, <2>1, <3>1 DEF Cleaned, Stale
    <3>4. QED BY <1>2, <3>2, <3>3
  <2>2. CASE ~cleanupDue
    BY <1>1, <1>2, <1>3, <2>2 DEF Cleaned, Stale
  <2>3. QED BY <2>1, <2>2
<1>5. Full <=> Len(c) >= MaxCache
  BY <1>3 DEF Full
<1>6. CASE Full
  <2>1. PICK t : t = Tail(c)
    OBVIOUS
  <2>2. c # <<>>
    BY <1>2, <1>4, <1>5, <1>6
  <2>3. t \in Seq(Entry) /\ Len(t) = Len(c) - 1
    BY ONLY <1>4, <2>1, <2>2
  <2>4. Kept = t /\ Entries0 = IF k > 0 THEN k - 1 ELSE k
    BY <1>3, <1>6, <2>1 DEF Kept, Entries0
  <2>5. QED BY <1>2, <1>4, <1>5, <1>6, <2>3, <2>4
<1>7. CASE ~Full
  <2>1. Kept = c /\ Entries0 = k
    BY <1>3, <1>7 DEF Kept, Entries0
  <2>2. QED BY <1>2, <1>4, <1>5, <1>7, <2>1
<1>8. QED BY <1>6, <1>7

LEMMA CacheFitsAfterStore ==
  ASSUME ResolverInv, CacheFits, Store PROVE CacheFits'
<1>1. query # NoProgram /\ query.step = "store" /\ query \in StoreQuery
  BY DEF Store, At, ResolverInv, QueryIsSound
<1>2. /\ cached' = Added(Others(Kept), NewEntry)
      /\ expired' = IF \E i \in 1 .. Len(Kept) : SameKey(Kept[i]) THEN Entries0 - 1 ELSE Entries0
      /\ cleanupDue' = FALSE
      /\ resolved' = [identity |-> query.identity, name |-> query.name]
  BY DEF Store, Kept, Entries0, Added, Answered
<1>3. Kept \in Seq(Entry) /\ Len(Kept) < MaxCache /\ Entries0 <= Len(Kept)
  BY KeptHasRoom
<1>4. PICK s, n : s = Others(Kept) /\ n = Len(Kept)
  OBVIOUS
<1>5. n \in Nat /\ n < MaxCache /\ Entries0 <= n /\ MaxCache \in Nat
  BY <1>3, <1>4, CacheAssumption
<1>6. Sound(s)
  BY <1>4, KeptIsSound, OthersAreSound
<1>7. s \in Seq(Entry)
  BY <1>6 DEF Sound
<1>8. Len(s) = IF \E i \in 1 .. n : SameKey(Kept[i]) THEN n - 1 ELSE n
  BY <1>3, <1>4, OthersLength
<1>9. Len(cached') = Len(s) + 1
  BY <1>2, <1>4, <1>7 DEF Added
<1>10. Entries0 \in Nat
  BY CleanedIsSound DEF Entries0
<1>11. Len(cached') <= MaxCache /\ expired' <= Len(cached')
  BY <1>2, <1>4, <1>5, <1>8, <1>9, <1>10
<1>12. resolved' \in [identity: Program, name: Program]
  BY <1>1, <1>2 DEF StoreQuery
<1>13. QED BY <1>2, <1>11, <1>12 DEF CacheFits

LEMMA CacheFitsStep ==
  ASSUME ResolverInv, CacheFits, [ResolverNext]_resolverVars PROVE CacheFits'
<1>1. Len(cached) \in Nat /\ expired \in Nat
  BY DEF ResolverInv, Sound
<1>2. CASE \/ \E p \in Program : Launch(p) \/ Terminate(p)
           \/ \E row \in TableRow : StartQuery(row)
           \/ Identify \/ FiveMinutes \/ TenMinutes \/ UNCHANGED resolverVars
  <2> DEFINE Quiet == /\ cached' = cached /\ resolved' \in {resolved, NoProgram}
                      /\ cleanupDue' \in BOOLEAN
                      /\ \/ expired' = expired
                         \/ expired < Len(cached) /\ expired' = expired + 1
  <2>1. cleanupDue \in BOOLEAN
    BY DEF CacheFits
  <2>2. ASSUME \E p \in Program : Launch(p) \/ Terminate(p) PROVE Quiet
    BY <2>1, <2>2 DEF Launch, Terminate
  <2>3. ASSUME \E row \in TableRow : StartQuery(row) PROVE Quiet
    BY <2>1, <2>3 DEF StartQuery
  <2>4. ASSUME Identify PROVE Quiet
    BY <2>1, <2>4 DEF Identify
  <2>5. ASSUME FiveMinutes \/ TenMinutes PROVE Quiet
    BY <2>1, <2>5 DEF FiveMinutes, TenMinutes
  <2>6. ASSUME UNCHANGED resolverVars PROVE Quiet
    BY <2>1, <2>6 DEF resolverVars
  <2>7. Quiet
    BY <1>2, <2>2, <2>3, <2>4, <2>5, <2>6
  <2>8. expired' <= Len(cached)
    BY <1>1, <2>7 DEF CacheFits
  <2>9. QED BY <2>7, <2>8 DEF CacheFits
<1>3. CASE FindCached
  <2>1. query \in OpenQuery /\ query.identity \in Program
    BY <1>3 DEF FindCached, At, ResolverInv, QueryIsSound
  <2>2. ASSUME NEW i \in 1 .. Len(cached), Answered(query.identity, cached[i].name)
        PROVE  resolved' \in [identity: Program, name: Program]
    <3>1. cached[i].name \in Program
      BY DEF ResolverInv, Sound, EntryIsSound, Entry
    <3>2. QED BY <2>1, <2>2, <3>1 DEF Answered
  <2>3. QED BY <1>3, <2>2 DEF FindCached, CacheFits
<1>4. CASE ReadImage
  <2>1. ASSUME NEW p \in Holder(query.row.number), Answered(p, p)
        PROVE  resolved' \in [identity: Program, name: Program]
    BY <2>1 DEF Answered, Holder
  <2>2. QED BY <1>4, <2>1 DEF ReadImage, NotResolved, CacheFits
<1>5. CASE Store
  BY <1>5, CacheFitsAfterStore
<1>6. QED BY <1>2, <1>3, <1>4, <1>5 DEF ResolverNext

\* The types of the resolver's state: the cache never has more entries than its
\* limit, and no more of them are expired than there are, although the counters
\* are kept beside the entries that a store, a cleanup and the limit take away.
THEOREM CacheStaysInBounds == ResolverSpec => []ResolverTypeOK
<1>1. ResolverInit => CacheFits
  <2>1. ASSUME ResolverInit PROVE CacheFits
    <3>1. cached = <<>> /\ expired = 0 /\ ~cleanupDue /\ resolved = NoProgram
          /\ cleanupDue \in BOOLEAN
      BY <2>1 DEF ResolverInit
    <3>2. Len(cached) = 0
      BY <3>1
    <3>3. QED BY <3>1, <3>2, CacheAssumption DEF CacheFits
  <2>2. QED BY <2>1
<1>2. ResolverInv /\ CacheFits => ResolverTypeOK
  <2>1. ASSUME ResolverInv, CacheFits PROVE ResolverTypeOK
    <3>1. cached \in Seq(Entry) /\ expired \in 0 .. Len(cached)
      BY <2>1 DEF ResolverInv, Sound, CacheFits
    <3>2. query \in OpenQuery \cup StoreQuery \cup {NoProgram}
      BY <2>1 DEF ResolverInv, QueryIsSound
    <3>3. QED BY <2>1, <3>1, <3>2
              DEF ResolverInv, CacheFits, ResolverTypeOK, OpenQuery, StoreQuery
  <2>2. QED BY <2>1
<1>3. QED BY <1>1, <1>2, CacheFitsStep, ResolverInvInit, ResolverInvStep, PTL
          DEF ResolverSpec

------------------------------------------------------------------------------
\* TcpRedirect: the mapper of ports and the SYNs that wait.

\* The mapper keeps destinations under ports, and the sequence of the resolver
\* holds at most two SYNs.
MapperIsTyped ==
  /\ mapper \in [Port -> [dest: Dest, age: Nat] \cup {NoEntry}]
  /\ conn \in [Port -> [dest: Dest, state: {"connecting", "open"}] \cup {NoEntry}]
  /\ backlog \subseteq [syn: Syn, live: BOOLEAN]
  /\ postponed \in Seq(Syn) /\ Len(postponed) <= 2

\* The SYN that came last is the one of the connection, if there is one.
LastIsCurrent ==
  \A i \in 1 .. Len(postponed) :
    LET p == postponed[i].port
    IN  conn[p] # NoEntry /\ (\A j \in 1 .. Len(postponed) : j > i => postponed[j].port # p)
          => postponed[i].dest = conn[p].dest

\* A connection that is wanted is the one of its port, and neither the mapper
\* nor a SYN that waits has another destination.
IsCurrent(b) ==
  /\ conn[b.syn.port] # NoEntry /\ conn[b.syn.port].dest = b.syn.dest
  /\ mapper[b.syn.port] # NoEntry => mapper[b.syn.port].dest = b.syn.dest
  /\ \A i \in 1 .. Len(postponed) :
       postponed[i].port = b.syn.port => postponed[i].dest = b.syn.dest

LiveIsCurrent == \A b \in backlog : b.live => IsCurrent(b)

\* The resolver sweeps at the latest when it wakes for the second time in two
\* periods, and a sweep leaves nothing older than the time to live.
SweepIsNear ==
  /\ waited \in 0 .. Period /\ unswept \in Nat
  /\ unswept < Period + waited \/ unswept = 0
  /\ \A p \in Port : mapper[p] # NoEntry => mapper[p].age <= MapperTtl + unswept

MapperInv == MapperIsTyped /\ LastIsCurrent /\ LiveIsCurrent /\ SweepIsNear

LEMMA PeriodIsHalf ==
  /\ Period \in Nat /\ 2 * Period <= MapperTtl
  /\ EvictionBound \in Nat /\ EvictionBound >= 2 * MapperTtl
BY TtlAssumption DEF Period, EvictionBound

----------------------------------------------------------------------------
(* What a SYN does *)

LEMMA WaitingAreSyns ==
  ASSUME MapperIsTyped, NEW i \in 1 .. Len(postponed)
  PROVE  postponed[i] \in Syn /\ postponed[i].port \in Port /\ postponed[i].dest \in Dest
<1>1. postponed[i] \in Syn
  BY DEF MapperIsTyped
<1>2. QED BY <1>1 DEF Syn

\* A SYN is noted, and accepted by the proxy, or it is let through.
LEMMA SynEffect ==
  ASSUME MapperIsTyped, NEW syn \in Syn, NEW wanted \in BOOLEAN, HandleSyn(syn, wanted)
  PROVE  /\ mapper' \in [Port -> [dest: Dest, age: Nat] \cup {NoEntry}]
         /\ \A q \in Port : \/ mapper'[q] = mapper[q]
                            \/ q = syn.port /\ mapper'[q] = [dest |-> syn.dest, age |-> 0]
         /\ \/ backlog' = backlog
            \/ /\ backlog' = backlog \cup {[syn |-> syn, live |-> wanted]}
               /\ mapper'[syn.port] = [dest |-> syn.dest, age |-> 0]
<1>1. syn.port \in Port /\ syn.dest \in Dest
  BY DEF Syn
<1>2. CASE syn.dest \in DirectDest
  <2>1. mapper' = mapper /\ backlog' = backlog
    BY <1>2 DEF HandleSyn
  <2>2. QED BY <2>1 DEF MapperIsTyped
<1>3. CASE syn.dest \notin DirectDest
  <2>1. mapper' = [mapper EXCEPT ![syn.port] = [dest |-> syn.dest, age |-> 0]]
    BY <1>3 DEF HandleSyn, Noted
  <2>2. [dest |-> syn.dest, age |-> 0] \in [dest: Dest, age: Nat]
    BY <1>1
  <2>3. backlog' = backlog \/ backlog' = backlog \cup {[syn |-> syn, live |-> wanted]}
    BY <1>3 DEF HandleSyn, Listening
  <2>4. mapper \in [Port -> [dest: Dest, age: Nat] \cup {NoEntry}]
    BY DEF MapperIsTyped
  <2>5. mapper' \in [Port -> [dest: Dest, age: Nat] \cup {NoEntry}]
    BY <1>1, <2>1, <2>2, <2>4
  <2>6. \A q \in Port :
          mapper'[q] = IF q = syn.port THEN [dest |-> syn.dest, age |-> 0] ELSE mapper[q]
    BY <1>1, <2>1, <2>4
  <2>7. QED BY <1>1, <2>3, <2>5, <2>6
<1>4. QED BY <1>2, <1>3

\* It keeps what is known of the connections that are wanted if it is of none
\* of them or asks for the same.
LEMMA SynServesLive ==
  ASSUME MapperIsTyped, LiveIsCurrent, NEW syn \in Syn, NEW wanted \in BOOLEAN,
         HandleSyn(syn, wanted),
         \A b \in backlog : b.live =>
           /\ conn'[b.syn.port] = conn[b.syn.port]
           /\ b.syn.port = syn.port => b.syn.dest = syn.dest
           /\ \A i \in 1 .. Len(postponed') :
                postponed'[i].port = b.syn.port => postponed'[i].dest = b.syn.dest,
         wanted =>
           /\ conn'[syn.port] # NoEntry /\ conn'[syn.port].dest = syn.dest
           /\ \A i \in 1 .. Len(postponed') :
                postponed'[i].port = syn.port => postponed'[i].dest = syn.dest
  PROVE  LiveIsCurrent'
<1>1. ASSUME NEW b \in backlog, b.live PROVE IsCurrent(b)'
  <2>1. b.syn.port \in Port
    BY DEF MapperIsTyped, Syn
  <2>2. mapper'[b.syn.port] # NoEntry => mapper'[b.syn.port].dest = b.syn.dest
    <3>1. \/ mapper'[b.syn.port] = mapper[b.syn.port]
          \/ b.syn.port = syn.port /\ mapper'[b.syn.port] = [dest |-> syn.dest, age |-> 0]
      BY <2>1, SynEffect
    <3>2. mapper[b.syn.port] # NoEntry => mapper[b.syn.port].dest = b.syn.dest
      BY <1>1 DEF LiveIsCurrent, IsCurrent
    <3>3. b.syn.port = syn.port => b.syn.dest = syn.dest
      BY <1>1
    <3>4. QED BY <3>1, <3>2, <3>3
  <2>3. QED BY <1>1, <2>2 DEF LiveIsCurrent, IsCurrent
<1>2. ASSUME wanted, mapper'[syn.port] = [dest |-> syn.dest, age |-> 0]
      PROVE  IsCurrent([syn |-> syn, live |-> wanted])'
  BY <1>2 DEF IsCurrent
<1>3. \/ backlog' = backlog
      \/ /\ backlog' = backlog \cup {[syn |-> syn, live |-> wanted]}
         /\ mapper'[syn.port] = [dest |-> syn.dest, age |-> 0]
  BY SynEffect
<1>4. ASSUME NEW b \in backlog', b.live PROVE IsCurrent(b)'
  BY <1>1, <1>2, <1>3, <1>4
<1>5. QED BY <1>4 DEF LiveIsCurrent

\* A SYN that arrives is the last of its port, and of the connection there is.
LEMMA ArrivesKeeps ==
  ASSUME ~Reordering, MapperInv, NEW syn \in Syn, Arrives(syn),
         conn' \in [Port -> [dest: Dest, state: {"connecting", "open"}] \cup {NoEntry}],
         conn'[syn.port] # NoEntry, conn'[syn.port].dest = syn.dest,
         \A q \in Port : q # syn.port => conn'[q] = conn[q],
         conn[syn.port] # NoEntry => conn'[syn.port] = conn[syn.port],
         UNCHANGED <<waited, unswept>>
  PROVE  MapperInv'
<1>1. syn.port \in Port /\ syn.dest \in Dest
  BY DEF Syn
<1>2. \A b \in backlog : b.live =>
        /\ conn'[b.syn.port] = conn[b.syn.port]
        /\ b.syn.port = syn.port => b.syn.dest = syn.dest
  BY DEF MapperInv, MapperIsTyped, LiveIsCurrent, IsCurrent, Syn
<1>3. CASE /\ \A i \in 1 .. Len(postponed) : postponed[i].port # syn.port
           /\ HandleSyn(syn, TRUE)
           /\ postponed' = postponed
  <2>1. MapperIsTyped'
    <3>1. /\ mapper' \in [Port -> [dest: Dest, age: Nat] \cup {NoEntry}]
          /\ backlog' \in {backlog, backlog \cup {[syn |-> syn, live |-> TRUE]}}
      BY <1>3, SynEffect DEF MapperInv
    <3>2. backlog' \subseteq [syn: Syn, live: BOOLEAN]
      <4>1. [syn |-> syn, live |-> TRUE] \in [syn: Syn, live: BOOLEAN]
        OBVIOUS
      <4>2. backlog \subseteq [syn: Syn, live: BOOLEAN]
        BY DEF MapperInv, MapperIsTyped
      <4>3. QED BY <3>1, <4>1, <4>2
    <3>3. QED BY <1>3, <3>1, <3>2 DEF MapperInv, MapperIsTyped
  <2>2. LastIsCurrent'
    <3>1. ASSUME NEW i \in 1 .. Len(postponed)
          PROVE  postponed[i].port \in Port /\ conn'[postponed[i].port] = conn[postponed[i].port]
      BY <1>3, WaitingAreSyns DEF MapperInv
    <3>2. QED BY <1>3, <3>1 DEF MapperInv, LastIsCurrent
  <2>3. LiveIsCurrent'
    BY <1>2, <1>3, SynServesLive DEF MapperInv, LiveIsCurrent, IsCurrent
  <2>4. SweepIsNear'
    <3>1. \A q \in Port : mapper'[q] = mapper[q] \/ mapper'[q].age = 0
      <4>1. \A q \in Port : \/ mapper'[q] = mapper[q]
                            \/ q = syn.port /\ mapper'[q] = [dest |-> syn.dest, age |-> 0]
        BY <1>3, SynEffect DEF MapperInv
      <4>2. QED BY <4>1
    <3>2. QED BY <3>1, TtlAssumption DEF MapperInv, SweepIsNear, Period
  <2>5. QED BY <2>1, <2>2, <2>3, <2>4 DEF MapperInv
<1>4. CASE Len(postponed) < 2 /\ postponed' = Append(postponed, syn) /\ UNCHANGED <<mapper, backlog>>
  <2>1. PICK n : n = Len(postponed)
    OBVIOUS
  <2>2. /\ postponed' \in Seq(Syn) /\ n \in Nat /\ Len(postponed') = n + 1
        /\ postponed'[n + 1] = syn
        /\ \A i \in 1 .. n : postponed'[i] = postponed[i]
    BY <1>4, <2>1 DEF MapperInv, MapperIsTyped
  <2>3. MapperIsTyped'
    BY <1>1, <1>4, <2>1, <2>2 DEF MapperInv, MapperIsTyped
  <2>4. LastIsCurrent'
    <3>1. ASSUME NEW i \in 1 .. n + 1, conn'[postponed'[i].port] # NoEntry,
                 \A j \in 1 .. n + 1 : j > i => postponed'[j].port # postponed'[i].port
          PROVE  postponed'[i].dest = conn'[postponed'[i].port].dest
      <4>1. CASE i = n + 1
        BY <2>2, <4>1
      <4>2. CASE i # n + 1
        <5>1. i \in 1 .. n /\ n + 1 > i /\ postponed'[i] = postponed[i]
          BY <2>2, <4>2
        <5>2. postponed[i].port # syn.port /\ postponed[i].port \in Port
          BY <2>1, <2>2, <3>1, <5>1, WaitingAreSyns DEF MapperInv
        <5>3. \A j \in 1 .. n : j > i => postponed[j].port # postponed[i].port
          BY <2>2, <3>1, <5>1
        <5>4. conn'[postponed[i].port] = conn[postponed[i].port]
          BY <5>2
        <5>5. QED BY <2>1, <3>1, <5>1, <5>3, <5>4 DEF MapperInv, LastIsCurrent
      <4>3. QED BY <4>1, <4>2
    <3>2. QED BY <2>2, <3>1 DEF LastIsCurrent
  <2>5. LiveIsCurrent'
    <3>1. ASSUME NEW b \in backlog, b.live PROVE IsCurrent(b)'
      <4>1. IsCurrent(b) /\ conn'[b.syn.port] = conn[b.syn.port]
        BY <1>2, <3>1 DEF MapperInv, LiveIsCurrent
      <4>2. ASSUME NEW i \in 1 .. n + 1, postponed'[i].port = b.syn.port
            PROVE  postponed'[i].dest = b.syn.dest
        <5>1. CASE i = n + 1
          BY <1>2, <2>2, <3>1, <4>2, <5>1
        <5>2. CASE i # n + 1
          BY <2>1, <2>2, <4>1, <4>2, <5>2 DEF IsCurrent
        <5>3. QED BY <5>1, <5>2
      <4>3. QED BY <1>4, <2>2, <4>1, <4>2 DEF IsCurrent
    <3>2. QED BY <1>4, <3>1 DEF LiveIsCurrent
  <2>6. SweepIsNear'
    BY <1>4 DEF MapperInv, SweepIsNear, Period
  <2>7. QED BY <2>3, <2>4, <2>5, <2>6 DEF MapperInv
<1>5. QED BY <1>3, <1>4 DEF Arrives

----------------------------------------------------------------------------
(* Every step keeps the invariant *)

\* An application that begins, ends or answers.
LEMMA ConnectKeeps ==
  ASSUME ~Reordering, MapperInv, NEW p \in Port, NEW d \in Dest, Connect(p, d)
  PROVE  MapperInv'
<1>1. PICK syn : syn = [port |-> p, dest |-> d]
  OBVIOUS
<1>2. syn \in Syn /\ syn.port = p /\ syn.dest = d
  BY <1>1 DEF Syn
<1>3. /\ conn[p] = NoEntry /\ Arrives(syn)
      /\ conn' = [conn EXCEPT ![p] = [dest |-> d, state |-> "connecting"]]
      /\ UNCHANGED <<waited, unswept>>
  BY <1>1 DEF Connect
<1>4. conn \in [Port -> [dest: Dest, state: {"connecting", "open"}] \cup {NoEntry}]
  BY DEF MapperInv, MapperIsTyped
<1>5. [dest |-> d, state |-> "connecting"] \in [dest: Dest, state: {"connecting", "open"}]
  OBVIOUS
<1>6. /\ conn' \in [Port -> [dest: Dest, state: {"connecting", "open"}] \cup {NoEntry}]
      /\ conn'[p] = [dest |-> d, state |-> "connecting"]
      /\ \A q \in Port : q # p => conn'[q] = conn[q]
  BY <1>3, <1>4, <1>5
<1>7. conn'[p] # NoEntry
  BY <1>5, <1>6, NoEntryAssumption
<1>8. QED BY <1>2, <1>3, <1>6, <1>7, ArrivesKeeps

LEMMA RetransmitKeeps ==
  ASSUME ~Reordering, MapperInv, NEW p \in Port, Retransmit(p) PROVE MapperInv'
<1>1. PICK syn : syn = [port |-> p, dest |-> conn[p].dest]
  OBVIOUS
<1>2. conn[p] # NoEntry /\ conn[p].dest \in Dest
  BY DEF Retransmit, MapperInv, MapperIsTyped
<1>3. syn \in Syn /\ syn.port = p /\ syn.dest = conn[p].dest
  BY <1>1, <1>2 DEF Syn
<1>4. Arrives(syn) /\ UNCHANGED <<waited, unswept, conn>>
  BY <1>1 DEF Retransmit
<1>5. conn' \in [Port -> [dest: Dest, state: {"connecting", "open"}] \cup {NoEntry}]
  BY <1>4 DEF MapperInv, MapperIsTyped
<1>6. QED BY <1>2, <1>3, <1>4, <1>5, ArrivesKeeps

\* Steps that leave the mapper and the resolver alone.
LEMMA ConnKeeps ==
  ASSUME MapperInv, UNCHANGED <<mapper, postponed, waited, unswept>>,
         conn' \in [Port -> [dest: Dest, state: {"connecting", "open"}] \cup {NoEntry}],
         \A q \in Port : conn'[q] # NoEntry => conn[q] # NoEntry /\ conn'[q].dest = conn[q].dest,
         backlog' \subseteq [syn: Syn, live: BOOLEAN],
         \A b \in backlog' : b.live => b \in backlog /\ conn'[b.syn.port] # NoEntry
  PROVE  MapperInv'
<1>1. LastIsCurrent'
  <2>1. ASSUME NEW i \in 1 .. Len(postponed)
        PROVE  postponed[i].port \in Port
    BY WaitingAreSyns DEF MapperInv
  <2>2. QED BY <2>1 DEF MapperInv, LastIsCurrent
<1>2. LiveIsCurrent'
  <2>1. ASSUME NEW b \in backlog', b.live PROVE b.syn.port \in Port
    BY DEF Syn
  <2>2. QED BY <2>1 DEF MapperInv, LiveIsCurrent, IsCurrent
<1>3. QED BY <1>1, <1>2 DEF MapperInv, MapperIsTyped, SweepIsNear

LEMMA OpenKeeps ==
  ASSUME MapperInv, NEW p \in Port, HandshakeDone(p) \/ AnsweredDirectly(p) \/ Transfer(p)
  PROVE  MapperInv'
<1>1. /\ UNCHANGED <<mapper, postponed, waited, unswept, backlog>>
      /\ conn[p] # NoEntry
      /\ conn' = conn \/ conn' = [conn EXCEPT ![p].state = "open"]
  BY DEF HandshakeDone, AnsweredDirectly, Transfer
<1>2. conn \in [Port -> [dest: Dest, state: {"connecting", "open"}] \cup {NoEntry}]
  BY DEF MapperInv, MapperIsTyped
<1>3. /\ conn' \in [Port -> [dest: Dest, state: {"connecting", "open"}] \cup {NoEntry}]
      /\ \A q \in Port : conn[q] # NoEntry <=> conn'[q] # NoEntry
      /\ \A q \in Port : conn'[q] # NoEntry => conn'[q].dest = conn[q].dest
  <2>1. CASE conn' = conn
    BY <1>2, <2>1
  <2>2. CASE conn' = [conn EXCEPT ![p].state = "open"]
    <3>1. PICK c : c = [conn[p] EXCEPT !.state = "open"]
      OBVIOUS
    <3>2. conn[p] \in [dest: Dest, state: {"connecting", "open"}]
      BY <1>1, <1>2
    <3>3. c \in [dest: Dest, state: {"connecting", "open"}] /\ c.dest = conn[p].dest
      BY <3>1, <3>2
    <3>4. conn' = [conn EXCEPT ![p] = c]
      BY <2>2, <3>1
    <3>5. c # NoEntry
      BY <3>3, NoEntryAssumption
    <3>6. QED BY <1>1, <1>2, <3>3, <3>4, <3>5
  <2>3. QED BY <1>1, <2>1, <2>2
<1>4. ASSUME NEW b \in backlog, b.live PROVE conn'[b.syn.port] # NoEntry
  BY <1>3, <1>4 DEF MapperInv, MapperIsTyped, LiveIsCurrent, IsCurrent, Syn
<1>5. backlog' \subseteq [syn: Syn, live: BOOLEAN]
  BY <1>1 DEF MapperInv, MapperIsTyped
<1>6. QED BY <1>1, <1>3, <1>4, <1>5, ConnKeeps

LEMMA DisconnectKeeps == ASSUME MapperInv, NEW p \in Port, Disconnect(p) PROVE MapperInv'
<1>1. /\ UNCHANGED <<mapper, postponed, waited, unswept>>
      /\ conn' = [conn EXCEPT ![p] = NoEntry] /\ backlog' = Dead(p)
  BY DEF Disconnect
<1>2. conn \in [Port -> [dest: Dest, state: {"connecting", "open"}] \cup {NoEntry}]
  BY DEF MapperInv, MapperIsTyped
<1>3. /\ conn' \in [Port -> [dest: Dest, state: {"connecting", "open"}] \cup {NoEntry}]
      /\ \A q \in Port : conn'[q] = IF q = p THEN NoEntry ELSE conn[q]
  BY <1>1, <1>2
<1>4. ASSUME NEW b \in backlog'
      PROVE  /\ b \in [syn: Syn, live: BOOLEAN]
             /\ b.live => b \in backlog /\ b.syn.port # p
  <2>1. PICK c \in backlog : b = IF c.syn.port = p THEN [c EXCEPT !.live = FALSE] ELSE c
    BY <1>1 DEF Dead
  <2>2. c \in [syn: Syn, live: BOOLEAN]
    BY DEF MapperInv, MapperIsTyped
  <2>3. CASE c.syn.port = p
    BY <2>1, <2>2, <2>3
  <2>4. CASE c.syn.port # p
    BY <2>1, <2>2, <2>4
  <2>5. QED BY <2>3, <2>4
<1>5. ASSUME NEW b \in backlog', b.live PROVE conn'[b.syn.port] # NoEntry
  <2>1. b \in backlog /\ b.syn.port # p /\ b.syn.port \in Port
    BY <1>4, <1>5 DEF Syn
  <2>2. conn[b.syn.port] # NoEntry
    BY <1>5, <2>1 DEF MapperInv, LiveIsCurrent, IsCurrent
  <2>3. QED BY <1>3, <2>1, <2>2
<1>6. QED BY <1>1, <1>3, <1>4, <1>5, ConnKeeps

\* The proxy takes the entry of the port away with the connection.
LEMMA AcceptKeeps == ASSUME MapperInv, NEW b \in backlog, Accept(b) PROVE MapperInv'
<1>1. /\ UNCHANGED <<postponed, waited, unswept>> /\ backlog' = backlog \ {b}
      /\ mapper' = [mapper EXCEPT ![b.syn.port] = NoEntry]
      /\ \/ conn' = conn
         \/ b.live /\ conn' = [conn EXCEPT ![b.syn.port] = NoEntry]
  BY DEF Accept, Rejects, Negotiates
<1>2. /\ mapper \in [Port -> [dest: Dest, age: Nat] \cup {NoEntry}]
      /\ conn \in [Port -> [dest: Dest, state: {"connecting", "open"}] \cup {NoEntry}]
      /\ \A c \in backlog : /\ c \in [syn: Syn, live: BOOLEAN]
                            /\ c.syn \in [port: Port, dest: Dest]
                            /\ c.syn.port \in Port
  BY DEF MapperInv, MapperIsTyped, Syn
<1>3. mapper' \in [Port -> [dest: Dest, age: Nat] \cup {NoEntry}]
  BY <1>1, <1>2
<1>4. conn' \in [Port -> [dest: Dest, state: {"connecting", "open"}] \cup {NoEntry}]
  BY <1>1, <1>2
<1>5. \A q \in Port : /\ mapper'[q] \in {mapper[q], NoEntry}
                      /\ conn'[q] = conn[q] \/ (conn'[q] = NoEntry /\ q = b.syn.port /\ b.live)
  BY <1>1, <1>2
<1>6. MapperIsTyped'
  BY <1>1, <1>3, <1>4 DEF MapperInv, MapperIsTyped
<1>7. LastIsCurrent'
  BY <1>1, <1>5, WaitingAreSyns DEF MapperInv, LastIsCurrent
<1>8. ASSUME NEW c \in backlog, c # b, c.live PROVE IsCurrent(c)'
  <2>1. IsCurrent(c) /\ c.syn.port \in Port
    BY <1>2, <1>8 DEF MapperInv, LiveIsCurrent
  <2>2. conn'[c.syn.port] = conn[c.syn.port]
    <3>1. SUFFICES ASSUME b.live, b.syn.port = c.syn.port PROVE FALSE
      BY <1>5, <2>1
    <3>2. IsCurrent(b)
      BY <3>1 DEF MapperInv, LiveIsCurrent
    <3>3. b.syn.dest = c.syn.dest
      BY <2>1, <3>1, <3>2 DEF IsCurrent
    <3>4. b.syn = c.syn
      BY <1>2, <3>1, <3>3
    <3>5. b.live = c.live
      BY <1>2, <1>8, <3>1
    <3>6. b = [syn |-> b.syn, live |-> b.live] /\ c = [syn |-> c.syn, live |-> c.live]
      BY <1>2
    <3>7. QED BY <1>8, <3>4, <3>5, <3>6
  <2>3. QED BY <1>1, <1>5, <2>1, <2>2 DEF IsCurrent
<1>9. LiveIsCurrent'
  BY <1>1, <1>8 DEF LiveIsCurrent
<1>10. SweepIsNear'
  BY <1>1, <1>5 DEF MapperInv, SweepIsNear, Period
<1>11. QED BY <1>6, <1>7, <1>9, <1>10 DEF MapperInv

LEMMA DiscardedKeeps == ASSUME MapperInv, NEW b \in backlog, Discarded(b) PROVE MapperInv'
<1>1. UNCHANGED <<mapper, postponed, waited, unswept, conn>> /\ backlog' = backlog \ {b}
  BY DEF Discarded
<1>2. backlog' \subseteq [syn: Syn, live: BOOLEAN]
  BY <1>1 DEF MapperInv, MapperIsTyped
<1>3. \A c \in backlog' : c.live => c \in backlog /\ conn'[c.syn.port] # NoEntry
  BY <1>1 DEF MapperInv, LiveIsCurrent, IsCurrent
<1>4. conn' \in [Port -> [dest: Dest, state: {"connecting", "open"}] \cup {NoEntry}]
  BY <1>1 DEF MapperInv, MapperIsTyped
<1>5. QED BY <1>1, <1>2, <1>3, <1>4, ConnKeeps

\* The oldest SYN is handled.  One that is still wanted is not followed by one
\* with another destination: that would be the last of the port.
LEMMA ResolverHandlesKeeps == ASSUME MapperInv, ResolverHandles PROVE MapperInv'
<1>1. PICK syn, n : syn = Head(postponed) /\ n = Len(postponed)
  OBVIOUS
<1>2. /\ postponed # <<>> /\ HandleSyn(syn, Wanted(syn)) /\ postponed' = Tail(postponed)
      /\ UNCHANGED <<waited, unswept, conn>>
  BY <1>1 DEF ResolverHandles
<1>3. /\ n \in 1 .. 2 /\ syn = postponed[1] /\ syn \in Syn
      /\ postponed' \in Seq(Syn) /\ Len(postponed') = n - 1
      /\ \A i \in 1 .. n - 1 : postponed'[i] = postponed[i + 1]
  BY <1>1, <1>2 DEF MapperInv, MapperIsTyped
<1>4. Wanted(syn) \in BOOLEAN
  BY DEF Wanted
<1>5. MapperIsTyped /\ LiveIsCurrent
  BY DEF MapperInv
<1>6. ASSUME NEW b \in backlog, b.live
      PROVE  /\ b.syn.port = syn.port => b.syn.dest = syn.dest
             /\ \A i \in 1 .. Len(postponed') :
                  postponed'[i].port = b.syn.port => postponed'[i].dest = b.syn.dest
  <2>1. \A i \in 1 .. n : postponed[i].port = b.syn.port => postponed[i].dest = b.syn.dest
    BY <1>1, <1>5, <1>6 DEF LiveIsCurrent, IsCurrent
  <2>2. QED BY <1>3, <2>1
<1>7. ASSUME Wanted(syn)
      PROVE  /\ conn'[syn.port] # NoEntry /\ conn'[syn.port].dest = syn.dest
             /\ \A i \in 1 .. Len(postponed') :
                  postponed'[i].port = syn.port => postponed'[i].dest = syn.dest
  <2>1. conn[syn.port] # NoEntry /\ conn[syn.port].dest = syn.dest
    BY <1>7 DEF Wanted
  <2>2. ASSUME NEW i \in 1 .. n - 1, postponed'[i].port = syn.port
        PROVE  postponed'[i].dest = syn.dest
    <3>1. n = 2 /\ i = 1 /\ postponed'[i] = postponed[2]
      BY <1>3, <2>2
    <3>2. \A j \in 1 .. Len(postponed) : ~(j > 2)
      <4>1. Len(postponed) = 2
        BY <1>1, <3>1
      <4>2. QED BY ONLY <4>1
    <3>3. postponed[2].dest = conn[syn.port].dest
      BY <1>1, <2>1, <2>2, <3>1, <3>2 DEF MapperInv, LastIsCurrent
    <3>4. QED BY <2>1, <3>1, <3>3
  <2>3. QED BY <1>2, <1>3, <2>1, <2>2
<1>8. LiveIsCurrent'
  BY <1>2, <1>3, <1>4, <1>5, <1>6, <1>7, SynServesLive
<1>9. /\ mapper' \in [Port -> [dest: Dest, age: Nat] \cup {NoEntry}]
      /\ backlog' \in {backlog, backlog \cup {[syn |-> syn, live |-> Wanted(syn)]}}
      /\ \A q \in Port : mapper'[q] = mapper[q] \/ mapper'[q] = [dest |-> syn.dest, age |-> 0]
  BY <1>2, <1>3, <1>4, <1>5, SynEffect
<1>10. MapperIsTyped'
  <2>1. [syn |-> syn, live |-> Wanted(syn)] \in [syn: Syn, live: BOOLEAN]
    BY <1>3, <1>4
  <2>2. backlog' \subseteq [syn: Syn, live: BOOLEAN]
    BY <1>5, <1>9, <2>1 DEF MapperIsTyped
  <2>3. QED BY <1>2, <1>3, <1>5, <1>9, <2>2 DEF MapperIsTyped
<1>11. LastIsCurrent'
  <2>1. ASSUME NEW i \in 1 .. n - 1, conn[postponed'[i].port] # NoEntry,
               \A j \in 1 .. n - 1 : j > i => postponed'[j].port # postponed'[i].port
        PROVE  postponed'[i].dest = conn[postponed'[i].port].dest
    <3>1. i + 1 \in 1 .. n /\ postponed'[i] = postponed[i + 1]
      BY <1>3
    <3>2. \A j \in 1 .. n : j > i + 1 => postponed[j].port # postponed[i + 1].port
      <4>1. ASSUME NEW j \in 1 .. n, j > i + 1 PROVE postponed[j].port # postponed[i + 1].port
        <5>1. j - 1 \in 1 .. n - 1 /\ j - 1 > i /\ postponed'[j - 1] = postponed[j]
          BY <1>3, <4>1
        <5>2. QED BY <2>1, <3>1, <5>1
      <4>2. QED BY <4>1
    <3>3. QED BY <1>1, <2>1, <3>1, <3>2 DEF MapperInv, LastIsCurrent
  <2>2. QED BY <1>2, <1>3, <2>1 DEF LastIsCurrent
<1>12. SweepIsNear'
  <2>1. \A q \in Port : mapper'[q] = mapper[q] \/ mapper'[q].age = 0
    BY <1>9
  <2>2. QED BY <1>2, <2>1, TtlAssumption DEF MapperInv, SweepIsNear, Period
<1>13. QED BY <1>8, <1>10, <1>11, <1>12 DEF MapperInv

\* Time, and what it makes of an entry.
LEMMA ResolverWakesKeeps == ASSUME MapperInv, ResolverWakes PROVE MapperInv'
<1>1. /\ waited' = 0 /\ unswept' = LastSweep
      /\ mapper' = IF SweepDue THEN Swept(mapper) ELSE mapper
      /\ UNCHANGED <<postponed, conn, backlog>>
  BY DEF ResolverWakes
<1>2. mapper \in [Port -> [dest: Dest, age: Nat] \cup {NoEntry}]
  BY DEF MapperInv, MapperIsTyped
<1>3. /\ mapper' \in [Port -> [dest: Dest, age: Nat] \cup {NoEntry}]
      /\ \A q \in Port : mapper'[q] \in {mapper[q], NoEntry}
  BY <1>1, <1>2 DEF Swept
<1>4. SweepDue => \A q \in Port : mapper'[q] # NoEntry => mapper'[q].age <= MapperTtl
  BY <1>1, <1>2 DEF Swept
<1>5. MapperIsTyped' /\ LastIsCurrent'
  BY <1>1, <1>3 DEF MapperInv, MapperIsTyped, LastIsCurrent
<1>6. LiveIsCurrent'
  <2>1. ASSUME NEW b \in backlog, b.live PROVE b.syn.port \in Port
    BY DEF MapperInv, MapperIsTyped, Syn
  <2>2. QED BY <1>1, <1>3, <2>1 DEF MapperInv, LiveIsCurrent, IsCurrent
<1>7. SweepIsNear'
  <2>1. Period \in Nat
    BY PeriodIsHalf
  <2>2. CASE SweepDue
    BY <1>1, <1>4, <2>1, <2>2, TtlAssumption DEF SweepIsNear, LastSweep
  <2>3. CASE ~SweepDue
    BY <1>1, <2>1, <2>3 DEF MapperInv, SweepIsNear, LastSweep, SweepDue
  <2>4. QED BY <2>2, <2>3
<1>8. QED BY <1>5, <1>6, <1>7 DEF MapperInv

LEMMA MapperTickKeeps == ASSUME MapperInv, Tick PROVE MapperInv'
<1>1. /\ waited < Period /\ waited' = waited + 1 /\ unswept' = unswept + 1
      /\ mapper' = [p \in Port |-> Older(mapper[p], EvictionBound + 1)]
      /\ UNCHANGED <<postponed, conn, backlog>>
  BY DEF Tick
<1>2. ASSUME NEW q \in Port
      PROVE  /\ mapper'[q] \in [dest: Dest, age: Nat] \cup {NoEntry}
             /\ mapper'[q] # NoEntry =>
                  /\ mapper[q] # NoEntry /\ mapper'[q].dest = mapper[q].dest
                  /\ mapper'[q].age <= mapper[q].age + 1 /\ mapper[q].age \in Nat
  <2>1. mapper'[q] = Older(mapper[q], EvictionBound + 1)
    BY <1>1
  <2>2. mapper[q] \in [dest: Dest, age: Nat] \cup {NoEntry}
    BY DEF MapperInv, MapperIsTyped
  <2>3. CASE mapper[q] = NoEntry
    BY <2>1, <2>3 DEF Older
  <2>4. CASE mapper[q] # NoEntry
    <3>1. mapper[q] \in [dest: Dest, age: Nat]
      BY <2>2, <2>4
    <3>2. mapper'[q] \in {mapper[q], [mapper[q] EXCEPT !.age = @ + 1]}
      BY <2>1 DEF Older
    <3>3. QED BY <2>4, <3>1, <3>2
  <2>5. QED BY <2>3, <2>4
<1>3. MapperIsTyped' /\ LastIsCurrent'
  BY <1>1, <1>2 DEF MapperInv, MapperIsTyped, LastIsCurrent
<1>4. LiveIsCurrent'
  <2>1. ASSUME NEW b \in backlog, b.live PROVE b.syn.port \in Port
    BY DEF MapperInv, MapperIsTyped, Syn
  <2>2. QED BY <1>1, <1>2, <2>1 DEF MapperInv, LiveIsCurrent, IsCurrent
<1>5. SweepIsNear'
  <2>1. /\ Period \in Nat /\ waited \in 0 .. Period /\ unswept \in Nat
        /\ unswept < Period + waited \/ unswept = 0
    BY PeriodIsHalf DEF MapperInv, SweepIsNear
  <2>2. /\ waited' \in 0 .. Period /\ unswept' \in Nat
        /\ unswept' < Period + waited' \/ unswept' = 0
    BY <1>1, <2>1
  <2>3. ASSUME NEW q \in Port, mapper'[q] # NoEntry PROVE mapper'[q].age <= MapperTtl + unswept'
    <3>1. /\ mapper[q].age <= MapperTtl + unswept
          /\ mapper'[q].age <= mapper[q].age + 1 /\ mapper[q].age \in Nat /\ mapper'[q].age \in Nat
      BY <1>2, <2>3 DEF MapperInv, SweepIsNear
    <3>2. QED BY <1>1, <2>1, <3>1, TtlAssumption
  <2>4. QED BY <2>2, <2>3 DEF SweepIsNear
<1>6. QED BY <1>3, <1>4, <1>5 DEF MapperInv

----------------------------------------------------------------------------

LEMMA RedirectKeeps ==
  ASSUME ~Reordering, MapperInv, [RedirectNext]_redirectVars PROVE MapperInv'
<1>1. ASSUME CleanupConnections \/ UNCHANGED redirectVars PROVE MapperInv'
  <2>1. UNCHANGED <<mapper, postponed, waited, unswept, conn, backlog>>
    BY <1>1 DEF CleanupConnections, redirectVars
  <2>2. QED BY <2>1 DEF MapperInv, MapperIsTyped, LastIsCurrent, LiveIsCurrent, IsCurrent,
                        SweepIsNear
<1>2. ASSUME NEW p \in Port, Application(p) PROVE MapperInv'
  BY <1>2, ConnectKeeps, RetransmitKeeps, DisconnectKeeps, OpenKeeps DEF Application
<1>3. QED BY <1>1, <1>2, AcceptKeeps, DiscardedKeeps, ResolverWakesKeeps,
             ResolverHandlesKeeps, MapperTickKeeps DEF RedirectNext

\* The proxy connects to the destination the application asked for last: as
\* long as the SYNs of a port are handled in the order of their arrival, every
\* entry that is there and in time is the one of the connection that waits;
\* and no entry stays for more than two and a half times its time to live.
THEOREM MapperIsReliable ==
  ASSUME ~Reordering PROVE RedirectSpec => []MapperServesConnections
<1>1. RedirectInit => MapperInv
  <2>1. <<>> \in Seq(Syn)
    OBVIOUS
  <2>2. 0 \in 0 .. Period
    BY PeriodIsHalf
  <2>3. SUFFICES ASSUME RedirectInit PROVE MapperInv
    OBVIOUS
  <2>4. /\ mapper = [p \in Port |-> NoEntry] /\ conn = [p \in Port |-> NoEntry]
        /\ postponed = <<>> /\ waited = 0 /\ unswept = 0 /\ backlog = {}
    BY <2>3 DEF RedirectInit
  <2>5. MapperIsTyped
    BY <2>1, <2>4 DEF MapperIsTyped
  <2>6. SweepIsNear
    BY <2>2, <2>4 DEF SweepIsNear
  <2>7. LastIsCurrent /\ LiveIsCurrent
    BY <2>4 DEF LastIsCurrent, LiveIsCurrent
  <2>8. QED BY <2>5, <2>6, <2>7 DEF MapperInv
<1>2. MapperInv => MapperServesConnections
  <2>1. MapperInv => TargetIsRequested
    BY DEF MapperInv, LiveIsCurrent, IsCurrent, TargetIsRequested
  <2>2. ASSUME MapperInv, NEW p \in Port, mapper[p] # NoEntry
        PROVE  mapper[p].age <= EvictionBound
    <3>1. mapper[p].age \in Nat /\ mapper[p].age <= MapperTtl + unswept
      BY <2>2 DEF MapperInv, MapperIsTyped, SweepIsNear
    <3>2. /\ unswept \in Nat /\ waited \in 0 .. Period
          /\ unswept < Period + waited \/ unswept = 0
      BY <2>2 DEF MapperInv, SweepIsNear
    <3>3. unswept <= MapperTtl
      BY <3>2, PeriodIsHalf, TtlAssumption
    <3>4. QED BY <3>1, <3>2, <3>3, PeriodIsHalf, TtlAssumption
  <2>3. QED BY <2>1, <2>2 DEF EvictedInTime, MapperServesConnections
<1>3. MapperInv /\ [RedirectNext]_redirectVars => MapperInv'
  BY RedirectKeeps
<1>4. QED BY <1>1, <1>2, <1>3, PTL DEF RedirectSpec

----------------------------------------------------------------------------
(* Types of the redirection *)

\* The values of the tables.
MapperEntry     == [dest: Dest, age: 0 .. EvictionBound + 1] \cup {NoEntry}
RedirectedEntry == [service: Service, age: 0 .. RedirectTtl + 1] \cup {NoEntry}
ConnEntry       == [dest: Dest, state: {"connecting", "open"}] \cup {NoEntry}

LEMMA NewEntriesAreTyped ==
  /\ \A syn \in Syn : /\ syn.port \in Port /\ syn.dest \in Dest /\ Key(syn) \in Host \X Port
                      /\ [dest |-> syn.dest, age |-> 0] \in MapperEntry
                      /\ [service |-> syn.dest.service, age |-> 0] \in RedirectedEntry
  /\ NoEntry \in MapperEntry /\ NoEntry \in RedirectedEntry /\ NoEntry \in ConnEntry
<1>1. 0 \in 0 .. EvictionBound + 1 /\ 0 \in 0 .. RedirectTtl + 1
  BY PeriodIsHalf, TtlAssumption
<1>2. ASSUME NEW syn \in Syn
      PROVE  /\ syn.port \in Port /\ syn.dest \in Dest
             /\ syn.dest.host \in Host /\ syn.dest.service \in Service
  BY DEF Syn, Dest
<1>3. QED BY <1>1, <1>2 DEF MapperEntry, RedirectedEntry, ConnEntry, Key

\* An entry that is refreshed, or a tick older, is one.
LEMMA OldEntriesAreTyped ==
  /\ \A e \in MapperEntry : Older(e, EvictionBound + 1) \in MapperEntry
  /\ \A e \in RedirectedEntry : Older(e, RedirectTtl + 1) \in RedirectedEntry
  /\ \A e \in RedirectedEntry : e # NoEntry => [e EXCEPT !.age = 0] \in RedirectedEntry
<1>1. EvictionBound + 1 \in Nat /\ RedirectTtl + 1 \in Nat
  BY PeriodIsHalf, TtlAssumption
<1>2. \A m \in Nat : \A n \in 0 .. m : n # m => n + 1 \in 0 .. m
  OBVIOUS
<1>3. ASSUME NEW e \in MapperEntry PROVE Older(e, EvictionBound + 1) \in MapperEntry
  <2>1. CASE e = NoEntry \/ e.age = EvictionBound + 1
    BY <2>1 DEF Older
  <2>2. CASE ~(e = NoEntry \/ e.age = EvictionBound + 1)
    <3>1. e \in [dest: Dest, age: 0 .. EvictionBound + 1]
      BY <2>2 DEF MapperEntry
    <3>2. e.age + 1 \in 0 .. EvictionBound + 1
      BY <1>1, <1>2, <2>2, <3>1
    <3>3. QED BY <2>2, <3>1, <3>2 DEF Older, MapperEntry
  <2>3. QED BY <2>1, <2>2
<1>4. ASSUME NEW e \in RedirectedEntry PROVE Older(e, RedirectTtl + 1) \in RedirectedEntry
  <2>1. CASE e = NoEntry \/ e.age = RedirectTtl + 1
    BY <2>1 DEF Older
  <2>2. CASE ~(e = NoEntry \/ e.age = RedirectTtl + 1)
    <3>1. e \in [service: Service, age: 0 .. RedirectTtl + 1]
      BY <2>2 DEF RedirectedEntry
    <3>2. e.age + 1 \in 0 .. RedirectTtl + 1
      BY <1>1, <1>2, <2>2, <3>1
    <3>3. QED BY <2>2, <3>1, <3>2 DEF Older, RedirectedEntry
  <2>3. QED BY <2>1, <2>2
<1>5. ASSUME NEW e \in RedirectedEntry, e # NoEntry
      PROVE  [e EXCEPT !.age = 0] \in RedirectedEntry
  <2>1. 0 \in 0 .. RedirectTtl + 1
    BY <1>1
  <2>2. QED BY <1>5, <2>1 DEF RedirectedEntry
<1>6. QED BY <1>3, <1>4, <1>5

LEMMA RedirectTypesInit == RedirectInit => RedirectTypeOK
<1> SUFFICES ASSUME RedirectInit PROVE RedirectTypeOK
  OBVIOUS
<1>1. <<>> \in Seq(Syn) /\ 0 \in 0 .. Period
  BY PeriodIsHalf
<1>2. QED BY <1>1, NewEntriesAreTyped
          DEF RedirectInit, RedirectTypeOK, MapperEntry, RedirectedEntry, ConnEntry

\* The types of the tables, by the names of their values.
LEMMA TypeByEntries ==
  RedirectTypeOK <=>
    /\ mapper \in [Port -> MapperEntry] /\ redirected \in [Host \X Port -> RedirectedEntry]
    /\ postponed \in Seq(Syn) /\ waited \in 0 .. Period /\ unswept \in Nat
    /\ conn \in [Port -> ConnEntry] /\ backlog \subseteq [syn: Syn, live: BOOLEAN]
BY DEF RedirectTypeOK, MapperEntry, RedirectedEntry, ConnEntry

LEMMA SynKeepsTypes ==
  ASSUME RedirectTypeOK, NEW syn \in Syn, NEW wanted \in BOOLEAN, HandleSyn(syn, wanted)
  PROVE  /\ mapper' \in [Port -> MapperEntry]
         /\ redirected' \in [Host \X Port -> RedirectedEntry]
         /\ backlog' \subseteq [syn: Syn, live: BOOLEAN]
<1>1. /\ mapper \in [Port -> MapperEntry] /\ redirected \in [Host \X Port -> RedirectedEntry]
      /\ backlog \subseteq [syn: Syn, live: BOOLEAN]
  BY TypeByEntries
<1>2. /\ Noted(syn) \in [Port -> MapperEntry]
      /\ Emplaced(syn) \in [Host \X Port -> RedirectedEntry]
  BY <1>1, NewEntriesAreTyped DEF Noted, Emplaced
<1>3. Listening(syn, wanted) \subseteq [syn: Syn, live: BOOLEAN]
  BY <1>1 DEF Listening
<1>4. QED BY <1>1, <1>2, <1>3 DEF HandleSyn

LEMMA ArrivalKeepsTypes ==
  ASSUME RedirectTypeOK, NEW syn \in Syn, Arrives(syn)
  PROVE  /\ mapper' \in [Port -> MapperEntry]
         /\ redirected' \in [Host \X Port -> RedirectedEntry]
         /\ backlog' \subseteq [syn: Syn, live: BOOLEAN]
         /\ postponed' \in Seq(Syn)
<1>1. /\ mapper \in [Port -> MapperEntry] /\ redirected \in [Host \X Port -> RedirectedEntry]
      /\ backlog \subseteq [syn: Syn, live: BOOLEAN] /\ postponed \in Seq(Syn)
  BY TypeByEntries
<1>2. CASE HandleSyn(syn, TRUE) /\ UNCHANGED postponed
  BY <1>1, <1>2, SynKeepsTypes
<1>3. CASE postponed' = Append(postponed, syn) /\ UNCHANGED <<mapper, redirected, backlog>>
  BY <1>1, <1>3
<1>4. QED BY <1>2, <1>3 DEF Arrives

\* What an application does.
LEMMA ApplicationKeepsTypes ==
  ASSUME RedirectTypeOK, NEW p \in Port, Application(p) PROVE RedirectTypeOK'
<1>1. /\ mapper \in [Port -> MapperEntry] /\ redirected \in [Host \X Port -> RedirectedEntry]
      /\ postponed \in Seq(Syn) /\ waited \in 0 .. Period /\ unswept \in Nat
      /\ conn \in [Port -> ConnEntry] /\ backlog \subseteq [syn: Syn, live: BOOLEAN]
  BY TypeByEntries
<1>2. ASSUME conn[p] # NoEntry
      PROVE  /\ conn[p] \in [dest: Dest, state: {"connecting", "open"}]
             /\ [port |-> p, dest |-> conn[p].dest] \in Syn
             /\ Connection(p) \in Host \X Port
             /\ [conn EXCEPT ![p].state = "open"] \in [Port -> ConnEntry]
  <2>1. conn[p] \in [dest: Dest, state: {"connecting", "open"}]
    BY <1>1, <1>2 DEF ConnEntry
  <2>2. conn[p].dest \in Dest /\ conn[p].dest.host \in Host
    BY <2>1 DEF Dest
  <2>3. [conn[p] EXCEPT !.state = "open"] \in ConnEntry
    BY <2>1 DEF ConnEntry
  <2>4. QED BY <1>1, <2>1, <2>2, <2>3 DEF Syn, Connection
<1>3. ASSUME NEW k \in Host \X Port, Keep(k)
      PROVE  Refreshed(k) \in [Host \X Port -> RedirectedEntry]
  <2>1. [redirected[k] EXCEPT !.age = 0] \in RedirectedEntry
    BY <1>1, <1>3, OldEntriesAreTyped DEF Keep
  <2>2. QED BY <1>1, <2>1 DEF Refreshed
<1>4. ASSUME NEW d \in Dest, Connect(p, d) PROVE RedirectTypeOK'
  <2>1. [port |-> p, dest |-> d] \in Syn
    BY DEF Syn
  <2>2. [dest |-> d, state |-> "connecting"] \in ConnEntry
    BY DEF ConnEntry
  <2>3. conn' \in [Port -> ConnEntry]
    BY <1>1, <1>4, <2>2 DEF Connect
  <2>4. Arrives([port |-> p, dest |-> d]) /\ UNCHANGED <<waited, unswept>>
    BY <1>4 DEF Connect
  <2>5. QED BY <1>1, <2>1, <2>3, <2>4, ArrivalKeepsTypes, TypeByEntries
               DEF RedirectTypeOK, MapperEntry, RedirectedEntry, ConnEntry
<1>5. CASE Retransmit(p)
  <2>1. [port |-> p, dest |-> conn[p].dest] \in Syn
    BY <1>2, <1>5 DEF Retransmit
  <2>2. Arrives([port |-> p, dest |-> conn[p].dest]) /\ UNCHANGED <<waited, unswept, conn>>
    BY <1>5 DEF Retransmit
  <2>3. QED BY <1>1, <2>1, <2>2, ArrivalKeepsTypes
               DEF RedirectTypeOK, MapperEntry, RedirectedEntry, ConnEntry
<1>6. CASE Disconnect(p)
  <2>1. conn' \in [Port -> ConnEntry]
    BY <1>1, <1>6, NewEntriesAreTyped DEF Disconnect
  <2>2. redirected' \in [Host \X Port -> RedirectedEntry]
    BY <1>1, <1>2, <1>6, NewEntriesAreTyped DEF Disconnect, Erased
  <2>3. Dead(p) \subseteq [syn: Syn, live: BOOLEAN]
    <3>1. ASSUME NEW b \in backlog
          PROVE  (IF b.syn.port = p THEN [b EXCEPT !.live = FALSE] ELSE b)
                   \in [syn: Syn, live: BOOLEAN]
      BY <1>1
    <3>2. QED BY <3>1 DEF Dead
  <2>4. QED BY <1>1, <1>6, <2>1, <2>2, <2>3
            DEF Disconnect, RedirectTypeOK, MapperEntry, RedirectedEntry, ConnEntry
<1>7. CASE HandshakeDone(p)
  BY <1>1, <1>2, <1>3, <1>7
  DEF HandshakeDone, RedirectTypeOK, MapperEntry, RedirectedEntry, ConnEntry
<1>8. CASE AnsweredDirectly(p)
  BY <1>1, <1>2, <1>8
  DEF AnsweredDirectly, RedirectTypeOK, MapperEntry, RedirectedEntry, ConnEntry
<1>9. CASE Transfer(p)
  BY <1>1, <1>2, <1>3, <1>9
  DEF Transfer, RedirectTypeOK, MapperEntry, RedirectedEntry, ConnEntry
<1>10. QED BY <1>4, <1>5, <1>6, <1>7, <1>8, <1>9 DEF Application

\* What the proxy and the resolver do.
LEMMA ServiceKeepsTypes ==
  ASSUME RedirectTypeOK,
         \/ \E b \in backlog : Accept(b) \/ Discarded(b)
         \/ ResolverWakes \/ ResolverHandles \/ CleanupConnections \/ Tick
  PROVE  RedirectTypeOK'
<1>1. /\ mapper \in [Port -> MapperEntry] /\ redirected \in [Host \X Port -> RedirectedEntry]
      /\ postponed \in Seq(Syn) /\ waited \in 0 .. Period /\ unswept \in Nat
      /\ conn \in [Port -> ConnEntry] /\ backlog \subseteq [syn: Syn, live: BOOLEAN]
  BY TypeByEntries
<1>2. ASSUME NEW b \in backlog, Accept(b) PROVE RedirectTypeOK'
  <2>1. b.syn \in Syn
    BY <1>1
  <2>2. b.syn.port \in Port /\ Key(b.syn) \in Host \X Port
    BY <2>1, NewEntriesAreTyped
  <2>3. mapper' = [mapper EXCEPT ![b.syn.port] = NoEntry]
    BY <1>2 DEF Accept, Rejects, Negotiates
  <2>4. mapper' \in [Port -> MapperEntry]
    BY <1>1, <2>2, <2>3, NewEntriesAreTyped
  <2>5. conn' = conn \/ conn' = [conn EXCEPT ![b.syn.port] = NoEntry]
    BY <1>2 DEF Accept, Rejects, Negotiates
  <2>6. conn' \in [Port -> ConnEntry]
    BY <1>1, <2>2, <2>5, NewEntriesAreTyped
  <2>7. redirected' = redirected \/ redirected' = [redirected EXCEPT ![Key(b.syn)] = NoEntry]
    BY <1>2 DEF Accept, Rejects, Negotiates, Erased
  <2>8. redirected' \in [Host \X Port -> RedirectedEntry]
    BY <1>1, <2>2, <2>7, NewEntriesAreTyped
  <2>9. backlog' \subseteq [syn: Syn, live: BOOLEAN] /\ UNCHANGED <<postponed, waited, unswept>>
    BY <1>1, <1>2 DEF Accept
  <2>10. QED BY <1>1, <2>4, <2>6, <2>8, <2>9
             DEF RedirectTypeOK, MapperEntry, RedirectedEntry, ConnEntry
<1>3. ASSUME NEW b \in backlog, Discarded(b) PROVE RedirectTypeOK'
  BY <1>1, <1>3 DEF Discarded, RedirectTypeOK, MapperEntry, RedirectedEntry, ConnEntry
<1>4. CASE ResolverWakes
  <2>1. Swept(mapper) \in [Port -> MapperEntry]
    BY <1>1, NewEntriesAreTyped DEF Swept
  <2>2. waited' \in 0 .. Period /\ unswept' \in Nat
    BY <1>1, <1>4, PeriodIsHalf DEF ResolverWakes, LastSweep
  <2>3. QED BY <1>1, <1>4, <2>1, <2>2
            DEF ResolverWakes, RedirectTypeOK, MapperEntry, RedirectedEntry, ConnEntry
<1>5. CASE ResolverHandles
  <2>1. Head(postponed) \in Syn /\ Tail(postponed) \in Seq(Syn)
    BY <1>1, <1>5 DEF ResolverHandles
  <2>2. Wanted(Head(postponed)) \in BOOLEAN
    BY DEF Wanted
  <2>3. HandleSyn(Head(postponed), Wanted(Head(postponed)))
    BY <1>5 DEF ResolverHandles
  <2>4. /\ mapper' \in [Port -> MapperEntry]
        /\ redirected' \in [Host \X Port -> RedirectedEntry]
        /\ backlog' \subseteq [syn: Syn, live: BOOLEAN]
    BY <2>1, <2>2, <2>3, SynKeepsTypes
  <2>5. postponed' = Tail(postponed) /\ UNCHANGED <<waited, unswept, conn>>
    BY <1>5 DEF ResolverHandles
  <2>6. QED BY <1>1, <2>1, <2>4, <2>5
            DEF RedirectTypeOK, MapperEntry, RedirectedEntry, ConnEntry
<1>6. CASE CleanupConnections
  <2>1. redirected' \in [Host \X Port -> RedirectedEntry]
    BY <1>1, <1>6, NewEntriesAreTyped DEF CleanupConnections
  <2>2. QED BY <1>1, <1>6, <2>1
            DEF CleanupConnections, RedirectTypeOK, MapperEntry, RedirectedEntry, ConnEntry
<1>7. CASE Tick
  <2>1. mapper' \in [Port -> MapperEntry]
    BY <1>1, <1>7, OldEntriesAreTyped DEF Tick
  <2>2. redirected' \in [Host \X Port -> RedirectedEntry]
    BY <1>1, <1>7, OldEntriesAreTyped DEF Tick
  <2>3. waited' \in 0 .. Period /\ unswept' \in Nat
    BY <1>1, <1>7, PeriodIsHalf DEF Tick
  <2>4. QED BY <1>1, <1>7, <2>1, <2>2, <2>3
            DEF Tick, RedirectTypeOK, MapperEntry, RedirectedEntry, ConnEntry
<1>8. QED BY <1>2, <1>3, <1>4, <1>5, <1>6, <1>7

\* The types of the tables, also where SYNs overtake each other.
THEOREM RedirectTypes == RedirectSpec => []RedirectTypeOK
<1>1. RedirectTypeOK /\ [RedirectNext]_redirectVars => RedirectTypeOK'
  <2>1. ASSUME RedirectTypeOK, RedirectNext PROVE RedirectTypeOK'
    BY <2>1, ApplicationKeepsTypes, ServiceKeepsTypes DEF RedirectNext
  <2>2. ASSUME RedirectTypeOK, UNCHANGED redirectVars PROVE RedirectTypeOK'
    BY <2>2 DEF RedirectTypeOK, redirectVars
  <2>3. QED BY <2>1, <2>2
<1>2. QED BY <1>1, RedirectTypesInit, PTL DEF RedirectSpec

------------------------------------------------------------------------------
\* Socks5Negotiation: the answer to the first message.

\* The proxy is asked for a method once.  The answer to that is the first one,
\* and until it has been received ident_resp_ is as the constructor left it.
MethodIsAskedOnce ==
  /\ disclosed \in BOOLEAN
  /\ requests \in Seq({"ident", "auth", "request"})
  /\ state \in {"pre_login", "login_sent"} => ~disclosed /\ method = DefaultMethod
  /\ state = "pre_login" => requests = <<>> /\ stream = <<>>
  /\ state = "login_sent" /\ result = "open" =>
       \/ requests = <<"ident">> /\ stream = <<>>
       \/ requests = <<>> /\ \E v \in Byte : stream = <<v, chosen>>
  /\ disclosed => /\ chosen = Password /\ credentials = "valid"
                  /\ requests \in Seq({"auth", "request"})

Later == {"auth", "request"}

\* The bytes a receive may deliver while the method is awaited.
LEMMA MethodIsChosen ==
  ASSUME MethodIsAskedOnce, state = "login_sent", result = "open",
         NEW n \in 0 .. Wants, n <= Len(stream), waiting = "ident",
         (IF n > 1 THEN stream[2] ELSE method) = Password
  PROVE  chosen = Password /\ requests = <<>>
<1>1. method # Password
  BY DEF MethodIsAskedOnce, DefaultMethod, NoAuth, Password
<1>2. n > 1
  BY <1>1
<1>3. stream # <<>>
  BY <1>2
<1>4. PICK v \in Byte : stream = <<v, chosen>> /\ requests = <<>>
  BY <1>3 DEF MethodIsAskedOnce
<1>5. QED BY <1>2, <1>4

LEMMA LaterKeeps ==
  ASSUME MethodIsAskedOnce, state' \notin {"pre_login", "login_sent"},
         UNCHANGED <<credentials, chosen>>,
         \/ UNCHANGED <<requests, disclosed>>
         \/ requests' = Append(requests, "request") /\ UNCHANGED disclosed
         \/ /\ requests' = Append(requests, "auth") /\ disclosed' \in BOOLEAN
            /\ chosen = Password /\ credentials = "valid" /\ requests = <<>>
  PROVE  MethodIsAskedOnce'
<1>1. requests' \in Seq({"ident", "auth", "request"})
  BY DEF MethodIsAskedOnce
<1>2. ASSUME requests \in Seq(Later)
      PROVE  Append(requests, "request") \in Seq(Later) /\ Append(requests, "auth") \in Seq(Later)
  BY <1>2 DEF Later
<1>3. <<>> \in Seq(Later)
  OBVIOUS
<1>4. disclosed' => chosen' = Password /\ credentials' = "valid" /\ requests' \in Seq(Later)
  BY <1>2, <1>3 DEF MethodIsAskedOnce, Later
<1>5. QED BY <1>1, <1>4 DEF MethodIsAskedOnce, Later

LEMMA ReceiveKeeps == ASSUME MethodIsAskedOnce, Receive \/ StreamEnds PROVE MethodIsAskedOnce'
<1>1. /\ waiting # "none" /\ result = "open"
      /\ UNCHANGED <<dialogue, credentials, chosen>>
  BY DEF Receive, StreamEnds
<1>2. ASSUME NEW n \in 0 .. Wants, n <= Len(stream), Reads(n) PROVE MethodIsAskedOnce'
  <2>1. PICK v, m : /\ m = IF n > 1 THEN stream[2] ELSE
                           IF waiting = "ident" THEN method ELSE answer.reply
                    /\ IF waiting = "ident"
                       THEN IF state = "login_sent" THEN AfterIdent(v, m) ELSE AfterAuth(m)
                       ELSE AfterRequest(v, m)
    BY <1>2 DEF Reads
  <2>2. CASE waiting = "ident" /\ state = "login_sent"
    <3>1. AfterIdent(v, m)
      BY <2>1, <2>2
    <3>2. CASE v # 5 \/ m = Refused
      <4>1. Closes
        BY <3>1, <3>2 DEF AfterIdent, Password, Refused
      <4>2. QED BY <1>1, <4>1, LaterKeeps DEF Closes
    <3>3. CASE v = 5 /\ m = Password
      <4>1. m # Refused
        BY <3>3 DEF Password, Refused
      <4>2. chosen = Password /\ requests = <<>>
        BY <1>1, <1>2, <2>1, <2>2, <3>3, MethodIsChosen
      <4>3. IF credentials = "valid" THEN Asks("auth", "password_sent", "ident") ELSE Closes
        BY <3>1, <3>3, <4>1 DEF AfterIdent
      <4>4. QED BY <1>1, <4>2, <4>3, LaterKeeps DEF Asks, Closes
    <3>4. CASE v = 5 /\ m \notin {Password, Refused}
      <4>1. Asks("request", "connect_sent", "request")
        BY <3>1, <3>4 DEF AfterIdent
      <4>2. UNCHANGED disclosed
        BY <4>1 DEF Asks, MethodIsAskedOnce
      <4>3. QED BY <1>1, <4>1, <4>2, LaterKeeps DEF Asks
    <3>5. QED BY <3>2, <3>3, <3>4
  <2>3. CASE waiting = "ident" /\ state # "login_sent"
    <3>1. Closes \/ Asks("request", "connect_sent", "request")
      BY <2>1, <2>3 DEF AfterAuth
    <3>2. Asks("request", "connect_sent", "request") => UNCHANGED disclosed
      BY DEF Asks, MethodIsAskedOnce
    <3>3. CASE Closes
      BY <1>1, <3>3, LaterKeeps DEF Closes
    <3>4. CASE Asks("request", "connect_sent", "request")
      <4>1. UNCHANGED disclosed
        BY <3>2, <3>4
      <4>2. QED BY <1>1, <3>4, <4>1, LaterKeeps DEF Asks
    <3>5. QED BY <3>1, <3>3, <3>4
  <2>4. CASE waiting # "ident"
    <3>1. Closes \/ Relays
      BY <2>1, <2>4 DEF AfterRequest
    <3>2. QED BY <1>1, <3>1, LaterKeeps DEF Closes, Relays
  <2>5. QED BY <2>2, <2>3, <2>4
<1>3. CASE Receive
  BY <1>2, <1>3 DEF Receive, Wants
<1>4. CASE StreamEnds
  <2>1. CASE Reads(0)
    <3>1. 0 \in 0 .. Wants /\ 0 <= Len(stream)
      BY <1>4 DEF StreamEnds, Wants
    <3>2. QED BY <1>2, <2>1, <3>1
  <2>2. CASE Closes
    BY <1>1, <2>2, LaterKeeps DEF Closes
  <2>3. QED BY <1>4, <2>1, <2>2 DEF StreamEnds
<1>5. QED BY <1>3, <1>4

LEMMA AnswerKeeps == ASSUME MethodIsAskedOnce, ProxyAnswers PROVE MethodIsAskedOnce'
<1>1. /\ requests # <<>> /\ requests' = Tail(requests)
      /\ UNCHANGED <<credentials, state, method, result, disclosed>>
  BY DEF ProxyAnswers
<1>2. requests' \in Seq({"ident", "auth", "request"})
  BY <1>1 DEF MethodIsAskedOnce
<1>3. ASSUME disclosed PROVE requests' \in Seq(Later) /\ UNCHANGED chosen
  <2>1. requests \in Seq(Later)
    BY <1>3 DEF MethodIsAskedOnce, Later
  <2>2. Head(requests) \in Later /\ Tail(requests) \in Seq(Later)
    BY <1>1, <2>1
  <2>3. QED BY <1>1, <2>2 DEF ProxyAnswers, Later
<1>4. ASSUME state = "login_sent", result = "open"
      PROVE  requests' = <<>> /\ \E v \in Byte : stream' = <<v, chosen'>>
  <2>1. requests = <<"ident">> /\ stream = <<>>
    BY <1>1, <1>4 DEF MethodIsAskedOnce
  <2>2. Head(requests) = "ident" /\ requests' = <<>>
    BY <1>1, <2>1
  <2>3. PICK v \in {0, 5}, m \in {NoAuth, Password, Refused} : Answers(<<v, m>>) /\ chosen' = m
    BY <2>2 DEF ProxyAnswers
  <2>4. stream' = <<v, m>>
    BY <2>1, <2>3 DEF Answers
  <2>5. QED BY <2>2, <2>3, <2>4 DEF Byte
<1>5. QED BY <1>1, <1>2, <1>3, <1>4 DEF MethodIsAskedOnce, Later

LEMMA SocksKeeps == ASSUME MethodIsAskedOnce, [SocksNext]_socksVars PROVE MethodIsAskedOnce'
<1>1. ASSUME SendIdent PROVE MethodIsAskedOnce'
  <2>0. state = "pre_login" /\ result = "open" /\ ~disclosed /\ requests = <<>>
    BY <1>1 DEF SendIdent, MethodIsAskedOnce
  <2>1. Append(<<>>, "ident") = <<"ident">>
    OBVIOUS
  <2>2. <<"ident">> \in Seq({"ident", "auth", "request"}) /\ <<>> \in Seq({"ident", "auth", "request"})
    OBVIOUS
  <2>3. /\ state' = "login_sent" /\ stream' = <<>> /\ method' = DefaultMethod
        /\ \/ requests' = <<"ident">> /\ result' = "open"
           \/ requests' = <<>> /\ result' = "closed"
    BY <1>1, <2>0, <2>1 DEF SendIdent, Asks, MethodIsAskedOnce
  <2>4. disclosed' \in BOOLEAN /\ ~disclosed'
    BY <1>1, <2>0 DEF SendIdent, Asks, MethodIsAskedOnce
  <2>5. QED BY <2>2, <2>3, <2>4 DEF MethodIsAskedOnce
<1>2. ASSUME ReceiveFails PROVE MethodIsAskedOnce'
  BY <1>2, LaterKeeps DEF ReceiveFails, Closes
<1>3. ASSUME UNCHANGED socksVars PROVE MethodIsAskedOnce'
  BY <1>3 DEF socksVars, MethodIsAskedOnce
<1>4. QED BY <1>1, <1>2, <1>3, ReceiveKeeps, AnswerKeeps DEF SocksNext

\* The user name and the password are sent to a proxy that has chosen this
\* method, and only if both can be encoded: the field that is read when the
\* answer has been cut short still holds the method that needs none.
THEOREM CredentialsAreAskedFor == SocksSpec => []CredentialsOnlyIfAsked
<1>1. SocksInit => MethodIsAskedOnce
  <2>1. <<>> \in Seq({"ident", "auth", "request"})
    OBVIOUS
  <2>2. QED BY <2>1 DEF SocksInit, MethodIsAskedOnce
<1>2. MethodIsAskedOnce => CredentialsOnlyIfAsked
  BY DEF MethodIsAskedOnce, CredentialsOnlyIfAsked
<1>3. QED BY <1>1, <1>2, SocksKeeps, PTL DEF SocksSpec

----------------------------------------------------------------------------
(* Types of the negotiation *)

Request == {"ident", "auth", "request"}

\* What a dialogue does after an answer keeps the types of its own fields.
LEMMA GoesOnTyped ==
  ASSUME SocksTypeOK, NEW v \in Byte, NEW m \in Byte,
         AfterIdent(v, m) \/ AfterAuth(m) \/ AfterRequest(v, m)
  PROVE  /\ state' \in {"pre_login", "login_sent", "password_sent", "connect_sent",
                        "responded"}
         /\ waiting' \in {"none", "ident", "request"}
         /\ requests' \in Seq(Request)
         /\ result' \in {"open", "closed", "relay"}
         /\ disclosed' \in BOOLEAN
<1>1. requests \in Seq(Request) /\ disclosed \in BOOLEAN
  BY DEF SocksTypeOK, Request
<1>2. CASE Closes \/ Relays
  BY <1>1, <1>2 DEF Closes, Relays
<1>3. ASSUME NEW r \in Request, NEW next \in {"password_sent", "connect_sent"},
             NEW field \in {"ident", "request"}, Asks(r, next, field)
      PROVE  /\ state' \in {"pre_login", "login_sent", "password_sent", "connect_sent",
                            "responded"}
             /\ waiting' \in {"none", "ident", "request"}
             /\ requests' \in Seq(Request)
             /\ result' \in {"open", "closed", "relay"}
             /\ disclosed' \in BOOLEAN
  <2>1. Append(requests, r) \in Seq(Request)
    BY <1>1
  <2>2. QED BY <1>1, <1>3, <2>1 DEF Asks
<1>4. \/ Closes \/ Relays \/ Asks("auth", "password_sent", "ident")
      \/ Asks("request", "connect_sent", "request")
  BY DEF AfterIdent, AfterAuth, AfterRequest
<1>5. QED BY <1>2, <1>3, <1>4 DEF Request

\* A receive reads bytes that the proxy sent, or that the buffer held before.
LEMMA ReadsTyped ==
  ASSUME SocksTypeOK, NEW n \in 0 .. 3, n <= Len(stream), Reads(n),
         UNCHANGED <<dialogue, credentials, chosen>>
  PROVE  SocksTypeOK'
<1> DEFINE version == IF n > 0 THEN stream[1] ELSE 5
           second  == IF n > 1 THEN stream[2] ELSE
                      IF waiting = "ident" THEN method ELSE answer.reply
<1>1. stream \in Seq(Byte) /\ Len(stream) \in Nat
  BY DEF SocksTypeOK
<1>2. method \in Byte /\ answer \in [version: Byte, reply: Byte] /\ answer.reply \in Byte
      /\ 5 \in Byte
  BY DEF SocksTypeOK, Byte
<1>3. version \in Byte
  BY <1>1, <1>2
<1>4. second \in Byte
  BY <1>1, <1>2
<1>5. stream' \in Seq(Byte)
  <2>1. stream' = SubSeq(stream, n + 1, Len(stream))
    BY DEF Reads
  <2>2. \A i \in (n + 1) .. Len(stream) : stream[i] \in Byte
    BY <1>1
  <2>3. SubSeq(stream, n + 1, Len(stream)) \in Seq(Byte)
    BY <1>1, <2>2, SubSeqProperties
  <2>4. QED BY <2>1, <2>3
<1> HIDE DEF version, second
<1>6. /\ method' \in Byte /\ answer' \in [version: Byte, reply: Byte]
      /\ AfterIdent(version, second) \/ AfterAuth(second) \/ AfterRequest(version, second)
  <2>1. CASE waiting = "ident"
    BY <1>2, <1>4, <2>1 DEF Reads, version, second
  <2>2. CASE waiting # "ident"
    <3>1. answer' = [version |-> version, reply |-> second] /\ method' = method
      BY <2>2 DEF Reads, version, second
    <3>2. AfterRequest(version, second)
      BY <2>2 DEF Reads, version, second
    <3>3. QED BY <1>2, <1>3, <1>4, <3>1, <3>2
  <2>3. QED BY <2>1, <2>2
<1>7. QED
  BY <1>3, <1>4, <1>5, <1>6, GoesOnTyped DEF SocksTypeOK, Request

LEMMA ShortAnswers ==
  \A u, v, w \in Byte : <<u, v>> \in Seq(Byte) /\ <<u, v, w>> \in Seq(Byte)
OBVIOUS

\* What the proxy sends are bytes.
LEMMA AnswersTyped == ASSUME SocksTypeOK, ProxyAnswers PROVE SocksTypeOK'
<1>1. stream \in Seq(Byte) /\ requests \in Seq(Request) /\ chosen \in Byte \cup {-1}
  BY DEF SocksTypeOK, Request
<1>2. requests' \in Seq(Request)
  BY <1>1 DEF ProxyAnswers
<1>3. \A bytes \in Seq(Byte) : Answers(bytes) => stream' \in Seq(Byte)
  BY <1>1 DEF Answers
<1>4. stream' \in Seq(Byte) /\ chosen' \in Byte \cup {-1}
  <2>1. CASE \E v \in {0, 5}, m \in {NoAuth, Password, Refused} :
               Answers(<<v, m>>) /\ chosen' = m
    <3>1. {0, 5} \subseteq Byte /\ {NoAuth, Password, Refused} \subseteq Byte
      BY DEF Byte, NoAuth, Password, Refused
    <3>2. QED BY <1>3, <2>1, <3>1, ShortAnswers
  <2>2. CASE (\E s \in {0, 1} : Answers(<<1, s>>)) /\ UNCHANGED chosen
    <3>1. {0, 1} \subseteq Byte
      BY DEF Byte
    <3>2. QED BY <1>1, <1>3, <2>2, <3>1, ShortAnswers
  <2>3. CASE (\E v \in {0, 5}, r \in {0, 1} : Answers(<<v, r, 0>>)) /\ UNCHANGED chosen
    <3>1. {0, 5} \subseteq Byte /\ {0, 1} \subseteq Byte
      BY DEF Byte
    <3>2. QED BY <1>1, <1>3, <2>3, <3>1, ShortAnswers
  <2>4. QED BY <2>1, <2>2, <2>3 DEF ProxyAnswers
<1>5. QED BY <1>2, <1>4 DEF SocksTypeOK, ProxyAnswers, Request

\* The types of the dialogue: what is read out of a buffer that an answer did
\* not fill is still a byte, one of an earlier answer or a default.
THEOREM NegotiationTypes == SocksSpec => []SocksTypeOK
<1>1. ASSUME SocksInit PROVE SocksTypeOK
  <2>1. stream \in Seq(Byte) /\ requests \in Seq(Request)
    BY <1>1 DEF SocksInit
  <2>2. method \in Byte /\ answer \in [version: Byte, reply: Byte] /\ chosen \in {-1}
    BY <1>1 DEF SocksInit, DefaultMethod, NoAuth, Byte
  <2>3. dialogue \in {"connect", "associate"} /\ credentials \in {"none", "valid", "invalid"}
    BY <1>1 DEF SocksInit
  <2>4. /\ state = "pre_login" /\ waiting = "none" /\ result = "open"
        /\ disclosed = FALSE
    BY <1>1 DEF SocksInit
  <2>5. QED BY ONLY <2>1, <2>2, <2>3, <2>4 DEF SocksTypeOK, Request
<1>2. ASSUME SocksTypeOK, SocksNext PROVE SocksTypeOK'
  <2>1. CASE SendIdent
    <3>1. Asks("ident", "login_sent", "ident")
          /\ UNCHANGED <<dialogue, credentials, method, answer, stream, chosen>>
      BY <2>1 DEF SendIdent
    <3>2. Append(requests, "ident") \in Seq(Request) /\ requests \in Seq(Request)
      BY <1>2 DEF SocksTypeOK, Request
    <3>3. QED BY <1>2, <3>1, <3>2 DEF SocksTypeOK, Asks, Request
  <2>2. CASE Receive
    <3>1. PICK n \in 1 .. Wants : n <= Len(stream) /\ Reads(n)
      BY <2>2 DEF Receive
    <3>2. n \in 0 .. 3
      BY <3>1 DEF Wants
    <3>3. QED BY <1>2, <2>2, <3>1, <3>2, ReadsTyped DEF Receive
  <2>3. CASE StreamEnds
    <3>1. CASE dialogue = "associate"
      <4>1. Reads(0) /\ Len(stream) = 0
        BY <2>3, <3>1 DEF StreamEnds
      <4>2. QED BY <1>2, <2>3, <4>1, ReadsTyped DEF StreamEnds
    <3>2. CASE dialogue # "associate"
      BY <1>2, <2>3, <3>2 DEF StreamEnds, Closes, SocksTypeOK
    <3>3. QED BY <3>1, <3>2
  <2>4. CASE ReceiveFails
    BY <1>2, <2>4 DEF ReceiveFails, Closes, SocksTypeOK
  <2>5. CASE ProxyAnswers
    BY <1>2, <2>5, AnswersTyped
  <2>6. QED BY <1>2, <2>1, <2>2, <2>3, <2>4, <2>5 DEF SocksNext
<1>3. ASSUME SocksTypeOK, UNCHANGED socksVars PROVE SocksTypeOK'
  BY <1>3 DEF SocksTypeOK, socksVars
<1>4. QED BY <1>1, <1>2, <1>3, PTL DEF SocksSpec

------------------------------------------------------------------------------
\* LogDelivery: lines, their event and the thread that raises them.

\* One thread at a time has the stream, and what lies in the buffer is the
\* first piece of its message.
StreamHasOneUser ==
  /\ \A v, w \in LogWriter : Emits(v) /\ Emits(w) => v = w
  /\ lineBuffer # <<>> => \E w \in LogWriter : Emits(w) /\ lineBuffer = <<emitting[w]>>

\* No line without a message of its own.
LinesAreCounted ==
  /\ Len(logged) <= messages
  /\ ~StreamFree => Len(logged) < messages
  /\ unheard + Len(moved) <= Len(logged)

\* What is on its way: the thread moves lines only to raise them, and nothing
\* was printed before the service listened.
LinesOnTheirWay ==
  /\ moved # <<>> => logThread = "raising"
  /\ ~attached => printed = <<>>

\* The event is closed last, after the thread was joined.
ClosedInTurn ==
  /\ closing \in {"joined", "stopped", "closed"} => logThread = "ended"
  /\ logEvent = "closed" => closing = "closed"

LogInv ==
  /\ LogTypeOK /\ StreamHasOneUser /\ LinesAreCounted /\ LinesOnTheirWay
  /\ ClosedInTurn /\ LinesAreWhole /\ LinesArriveInOrder

----------------------------------------------------------------------------
(* Sequences *)

\* A part of a sequence, by its indexes.
LEMMA PartOf ==
  ASSUME NEW S, NEW l \in Seq(S), NEW u \in 0 .. Len(l), NEW d, d = SubSeq(l, u + 1, Len(l))
  PROVE  /\ d \in Seq(S) /\ Len(d) = Len(l) - u
         /\ \A i \in 1 .. Len(l) - u : d[i] = l[i + u]
<1>1. Len(l) \in Nat /\ u \in Nat /\ u <= Len(l)
  OBVIOUS
<1>2. \A i \in u + 1 .. Len(l) : l[i] \in S
  BY <1>1
<1>3. SubSeq(l, u + 1, Len(l)) \in Seq(S)
  BY <1>1, <1>2
<1>4. Len(d) = Len(l) - u
  BY <1>1
<1>5. \A i \in 1 .. Len(l) - u : d[i] = l[i + u]
  BY <1>1
<1>6. QED BY <1>3, <1>4, <1>5

\* A line that is kept and recorded is the last one of both.
LEMMA KeptAndRecorded ==
  ASSUME NEW S, NEW c \in Seq(S), NEW l \in Seq(S), NEW u \in 0 .. Len(l), NEW x \in S,
         c = SubSeq(l, u + 1, Len(l))
  PROVE  Append(c, x) = SubSeq(Append(l, x), u + 1, Len(Append(l, x)))
<1>1. PICK n, r, e : n = Len(l) /\ r = Append(l, x) /\ e = Append(c, x)
  OBVIOUS
<1>2. /\ n \in Nat /\ u \in Nat /\ u <= n
      /\ r \in Seq(S) /\ Len(r) = n + 1 /\ r[n + 1] = x /\ \A i \in 1 .. n : r[i] = l[i]
  BY <1>1
<1>3. Len(c) = n - u /\ \A i \in 1 .. n - u : c[i] = l[i + u]
  BY <1>1, PartOf
<1>4. /\ e \in Seq(S) /\ Len(e) = n - u + 1 /\ e[n - u + 1] = x
      /\ \A i \in 1 .. n - u : e[i] = c[i]
  BY <1>1, <1>2, <1>3
<1>5. PICK d : d = SubSeq(r, u + 1, Len(r))
  OBVIOUS
<1>6. u \in 0 .. Len(r)
  BY <1>2
<1>7. d \in Seq(S) /\ Len(d) = Len(r) - u /\ \A i \in 1 .. Len(r) - u : d[i] = r[i + u]
  BY ONLY <1>2, <1>5, <1>6, PartOf
<1>8. ASSUME NEW i \in 1 .. n - u + 1 PROVE e[i] = d[i]
  <2>1. CASE i = n - u + 1
    <3>1. i \in 1 .. Len(r) - u /\ i + u = n + 1
      BY <1>2, <2>1
    <3>2. QED BY <1>2, <1>4, <1>7, <2>1, <3>1
  <2>2. CASE i \in 1 .. n - u
    <3>1. i + u \in 1 .. n /\ i \in 1 .. Len(r) - u
      BY <1>2, <2>2
    <3>2. QED BY <1>2, <1>3, <1>4, <1>7, <2>2, <3>1
  <2>3. QED BY <1>2, <2>1, <2>2
<1>9. e = d
  <2>1. Len(d) = n - u + 1
    BY <1>2, <1>7
  <2>2. QED BY ONLY <1>4, <1>7, <1>8, <2>1
<1>10. QED BY <1>1, <1>5, <1>9

\* The lines of l behind the first u, and two sequences that they come in.
Behind(l, u)      == SubSeq(l, u + 1, Len(l))
Splits(m, s, l, u) == u \in 0 .. Len(l) /\ m \o s = Behind(l, u)
Passing(u, m)     == u + Len(m)

\* The lines that nobody heard are the first of those that are left.
LEMMA UnheardAreDropped ==
  ASSUME NEW m \in Seq(LogLine), NEW s \in Seq(LogLine), NEW l \in Seq(LogLine), NEW u,
         Splits(m, s, l, u)
  PROVE  s = Behind(l, Passing(u, m))
<1> USE DEF Behind, Passing
<1>1. PICK c : c = m \o s
  OBVIOUS
<1>2. u \in 0 .. Len(l) /\ c = SubSeq(l, u + 1, Len(l))
  BY <1>1 DEF Splits
<1>3. PICK n, k : n = Len(l) /\ k = Len(m)
  OBVIOUS
<1>4. n \in Nat /\ k \in Nat /\ u \in Nat /\ u <= n
  BY <1>2, <1>3
<1>5. Len(c) = n - u /\ \A i \in 1 .. n - u : c[i] = l[i + u]
  BY <1>2, <1>3, PartOf
<1>6. Len(c) = k + Len(s) /\ Len(s) \in Nat /\ \A i \in 1 .. Len(s) : c[k + i] = s[i]
  <2>1. PICK j : j = Len(s)
    OBVIOUS
  <2>2. /\ k \in Nat /\ j \in Nat /\ DOMAIN m = 1 .. k /\ DOMAIN s = 1 .. j /\ DOMAIN c = 1 .. k + j
        /\ Len(c) = k + j
        /\ \A i \in 1 .. j : c[k + i] = s[i]
    BY ONLY m \in Seq(LogLine), s \in Seq(LogLine), <1>1, <1>3, <2>1
  <2>3. QED BY <2>1, <2>2
<1>7. u + k <= n /\ Len(s) = n - (u + k) /\ u + k \in 0 .. n
  <2>1. PICK a, b : a = Len(c) /\ b = Len(s)
    OBVIOUS
  <2>2. a = n - u /\ a = k + b /\ b \in Nat
    BY <1>5, <1>6, <2>1
  <2>3. u + k <= n /\ b = n - (u + k) /\ u + k \in 0 .. n
    BY ONLY <1>4, <2>2
  <2>4. QED BY <2>1, <2>3
<1>8. PICK d : d = SubSeq(l, (u + k) + 1, n)
  OBVIOUS
<1>9. d \in Seq(LogLine) /\ Len(d) = n - (u + k) /\ \A i \in 1 .. n - (u + k) : d[i] = l[i + (u + k)]
  BY <1>3, <1>7, <1>8, PartOf
<1>10. ASSUME NEW i \in 1 .. Len(s) PROVE s[i] = d[i]
  <2>1. k + i \in 1 .. n - u /\ (k + i) + u = i + (u + k)
    BY <1>4, <1>7
  <2>2. QED BY <1>5, <1>6, <1>7, <1>9, <2>1
<1>11. s = d
  BY ONLY s \in Seq(LogLine), <1>7, <1>9, <1>10
<1>12. QED BY <1>3, <1>7, <1>8, <1>11

\* What is appended to the last part is appended to the whole.
LEMMA AppendsToTheWhole ==
  ASSUME NEW S, NEW c \in Seq(S), NEW s \in Seq(S), NEW x \in S
  PROVE  c \o Append(s, x) = Append(c \o s, x)
  OBVIOUS

LEMMA JoinedParts ==
  ASSUME NEW S, NEW p \in Seq(S), NEW m \in Seq(S), NEW s \in Seq(S)
  PROVE  /\ p \o m \in Seq(S)
         /\ p \o m \o s \in Seq(S)
         /\ (p \o <<>>) \o s = p \o s
         /\ (p \o s) \o <<>> = p \o s
<1>1. p \o m \in Seq(S) /\ p \o s \in Seq(S)
  OBVIOUS
<1>2. ASSUME NEW c \in Seq(S) PROVE c \o <<>> = c
  <2>1. PICK e, n : e = c \o <<>> /\ n = Len(c)
    OBVIOUS
  <2>2. n \in Nat /\ Len(<<>>) = 0 /\ <<>> \in Seq(S)
    BY <2>1
  <2>3. e \in Seq(S) /\ Len(e) = n /\ \A i \in 1 .. n : e[i] = c[i]
    BY <2>1, <2>2
  <2>4. e = c
    <3>1. n = Len(c)
      BY <2>1
    <3>2. QED BY ONLY c \in Seq(S), <2>3, <3>1
  <2>5. QED BY <2>1, <2>4
<1>3. p \o m \o s \in Seq(S)
  BY <1>1
<1>4. QED BY <1>1, <1>2, <1>3

\* The sequence of no lines is one.
LEMMA NoLines ==
  /\ <<>> \in Seq(LogLine) /\ <<>> \in Seq(1 .. MaxLines)
  /\ Len(<<>>) = 0
<1>1. <<>> \in Seq(LogLine)
  OBVIOUS
<1>2. <<>> \in Seq(1 .. MaxLines)
  OBVIOUS
<1>3. QED BY <1>1, <1>2

----------------------------------------------------------------------------
(* Every step keeps the invariant *)

LEMMA LinesOfOne ==
  ASSUME NEW e \in 1 .. MaxLines
  PROVE  <<e>> \in LogLine /\ Append(<<e>>, e) \in LogLine
<1>1. <<e>> \in [1 .. 1 -> 1 .. MaxLines]
  OBVIOUS
<1>2. PICK d : d = Append(<<e>>, e)
  OBVIOUS
<1>3. d \in [1 .. 2 -> 1 .. MaxLines]
  <2>1. <<e>> \in Seq(1 .. MaxLines) /\ Len(<<e>>) = 1
    OBVIOUS
  <2>2. d \in Seq(1 .. MaxLines) /\ Len(d) = 2
    BY <1>2, <2>1
  <2>3. QED BY ONLY <2>2, LenProperties
<1>4. QED BY <1>1, <1>2, <1>3 DEF LogLine

\* A line of a single message is kept.
LEMMA LineStoreKeeps ==
  ASSUME LogInv, NEW line \in LogLine, StoreLine(line),
         \A k \in DOMAIN line : line[k] = line[1],
         UNCHANGED <<moved, printed, unheard>>
  PROVE  /\ logStorage' \in Seq(LogLine) /\ logged' \in Seq(LogLine)
         /\ Len(logged') = Len(logged) + 1
         /\ logEvent' \in {logEvent, "set"} /\ (logEvent' # logEvent => logEvent = "reset")
         /\ LinesAreWhole' /\ LinesArriveInOrder'
<1>1. /\ logStorage \in Seq(LogLine) /\ logged \in Seq(LogLine)
      /\ printed \in Seq(LogLine) /\ moved \in Seq(LogLine)
      /\ unheard \in 0 .. MaxLines /\ unheard + Len(moved) <= Len(logged)
  BY DEF LogInv, LogTypeOK, LinesAreCounted
<1>2. /\ logStorage' = Append(logStorage, line) /\ logged' = Append(logged, line)
      /\ logEvent' = IF Len(logStorage') > LogLimit /\ logEvent = "reset" THEN "set" ELSE logEvent
  BY DEF StoreLine
<1>3. /\ logStorage' \in Seq(LogLine) /\ logged' \in Seq(LogLine)
      /\ Len(logged') = Len(logged) + 1
      /\ DOMAIN logged' = 1 .. Len(logged) + 1 /\ DOMAIN logged = 1 .. Len(logged)
      /\ logged'[Len(logged) + 1] = line
      /\ \A i \in 1 .. Len(logged) : logged'[i] = logged[i]
  BY ONLY <1>1, <1>2
<1>4. LinesAreWhole'
  <2> SUFFICES ASSUME NEW i \in 1 .. Len(logged) + 1, NEW k \in DOMAIN logged'[i]
               PROVE  logged'[i][k] = logged'[i][1]
    BY <1>3 DEF LinesAreWhole
  <2>1. CASE i = Len(logged) + 1
    BY <1>3, <2>1
  <2>2. CASE i \in DOMAIN logged
    BY <1>3, <2>2 DEF LogInv, LinesAreWhole
  <2>3. QED BY <1>3, <2>1, <2>2
<1>5. LinesArriveInOrder'
  <2>1. PICK c : c = printed \o moved \o logStorage
    OBVIOUS
  <2>2. c \in Seq(LogLine) /\ printed \o moved \in Seq(LogLine)
    BY ONLY <1>1, <2>1, JoinedParts
  <2>3. c = SubSeq(logged, unheard + 1, Len(logged))
    BY <2>1 DEF LogInv, LinesArriveInOrder
  <2>4. unheard \in 0 .. Len(logged)
    BY <1>1
  <2>5. Append(c, line) = SubSeq(Append(logged, line), unheard + 1, Len(Append(logged, line)))
    BY ONLY <1>1, <2>2, <2>3, <2>4, line \in LogLine, KeptAndRecorded
  <2>6. printed \o moved \o Append(logStorage, line) = Append(c, line)
    BY ONLY <1>1, <2>1, <2>2, line \in LogLine, AppendsToTheWhole
  <2>7. QED BY <1>2, <2>5, <2>6 DEF LinesArriveInOrder
<1>6. QED BY <1>2, <1>3, <1>4, <1>5

LEMMA BeginKeeps == ASSUME LogInv, NEW w \in LogWriter, BeginEmit(w) PROVE LogInv'
<1>1. LogTypeOK'
  BY LogAssumption DEF BeginEmit, LogInv, LogTypeOK
<1>2. StreamHasOneUser'
  BY DEF BeginEmit, LogInv, LogTypeOK, StreamHasOneUser, StreamFree, Emits
<1>3. LinesAreCounted'
  BY LogAssumption DEF BeginEmit, LogInv, LogTypeOK, LinesAreCounted
<1>4. QED
  BY <1>1, <1>2, <1>3 DEF BeginEmit, LogInv, LinesOnTheirWay, ClosedInTurn, LinesAreWhole,
     LinesArriveInOrder

LEMMA EmitKeeps == ASSUME LogInv, NEW w \in LogWriter, EmitPiece(w) PROVE LogInv'
<1>1. CASE lineBuffer = <<>>
  <2>1. lineBuffer' \in Seq(1 .. MaxLines)
    <3>1. emitting[w] \in 1 .. MaxLines /\ lineBuffer' = <<emitting[w]>>
      BY <1>1 DEF EmitPiece, LogInv, LogTypeOK, Emits
    <3>2. QED BY <3>1
  <2>2. QED
    BY <1>1, <2>1 DEF EmitPiece, Emits, LogInv, LogTypeOK, StreamHasOneUser, LinesAreCounted,
       StreamFree, LinesOnTheirWay, ClosedInTurn, LinesAreWhole, LinesArriveInOrder
<1>2. CASE lineBuffer # <<>>
  <2>1. lineBuffer = <<emitting[w]>> /\ emitting[w] \in 1 .. MaxLines
    BY <1>2 DEF EmitPiece, LogInv, LogTypeOK, StreamHasOneUser, Emits
  <2>2. PICK line : line = Append(<<emitting[w]>>, emitting[w])
    OBVIOUS
  <2>3. line \in LogLine
    BY <2>1, <2>2, LinesOfOne
  <2>4. \A k \in DOMAIN line : line[k] = line[1]
    BY <2>1, <2>2
  <2>5. /\ StoreLine(line) /\ lineBuffer' = <<>> /\ emitting' = [emitting EXCEPT ![w] = 0]
        /\ UNCHANGED <<logThread, logActive, attached, moved, closing, messages, printed, unheard>>
    BY <1>2, <2>1, <2>2 DEF EmitPiece
  <2>6. /\ logStorage' \in Seq(LogLine) /\ logged' \in Seq(LogLine)
        /\ Len(logged') = Len(logged) + 1
        /\ logEvent' \in {logEvent, "set"} /\ (logEvent' # logEvent => logEvent = "reset")
        /\ LinesAreWhole' /\ LinesArriveInOrder'
    BY ONLY LogInv, <2>3, <2>4, <2>5, LineStoreKeeps
  <2>7. Len(logged) < messages /\ StreamFree'
    BY <2>5 DEF EmitPiece, LogInv, LogTypeOK, StreamHasOneUser, LinesAreCounted, StreamFree, Emits
  <2>8. LogTypeOK'
    BY <2>5, <2>6, NoLines, LogAssumption DEF LogInv, LogTypeOK
  <2>9. LinesAreCounted'
    BY <2>5, <2>6, <2>7 DEF LogInv, LogTypeOK, LinesAreCounted
  <2>10. StreamHasOneUser'
    BY <2>5, <2>7 DEF StreamHasOneUser, StreamFree
  <2>11. QED
    BY <2>5, <2>6, <2>8, <2>9, <2>10 DEF LogInv, LinesOnTheirWay, ClosedInTurn
<1>3. QED BY <1>1, <1>2

LEMMA WrapperKeeps == ASSUME LogInv, WrapperPrints PROVE LogInv'
<1>1. messages' = messages + 1 /\ messages' \in 1 .. MaxLines
  BY LogAssumption DEF WrapperPrints, LogInv, LogTypeOK
<1>2. PICK line : line = <<messages'>>
  OBVIOUS
<1>3. line \in LogLine /\ \A k \in DOMAIN line : line[k] = line[1]
  BY <1>1, <1>2, LinesOfOne
<1>4. /\ StoreLine(line)
      /\ UNCHANGED <<emitting, lineBuffer, logThread, logActive, attached, moved, closing,
                     printed, unheard>>
  BY <1>2 DEF WrapperPrints
<1>5. /\ logStorage' \in Seq(LogLine) /\ logged' \in Seq(LogLine)
      /\ Len(logged') = Len(logged) + 1
      /\ logEvent' \in {logEvent, "set"} /\ (logEvent' # logEvent => logEvent = "reset")
      /\ LinesAreWhole' /\ LinesArriveInOrder'
  BY ONLY LogInv, <1>3, <1>4, LineStoreKeeps
<1>6. LogTypeOK'
  BY <1>1, <1>4, <1>5 DEF LogInv, LogTypeOK
<1>7. LinesAreCounted'
  BY <1>1, <1>4, <1>5 DEF LogInv, LogTypeOK, LinesAreCounted, StreamFree, Emits
<1>8. QED
  BY <1>4, <1>5, <1>6, <1>7 DEF LogInv, LinesOnTheirWay, ClosedInTurn, StreamHasOneUser, Emits

LEMMA ReadKeeps == ASSUME LogInv, ReadLog PROVE LogInv'
<1>1. CASE UNCHANGED <<moved, logStorage>>
  BY <1>1 DEF ReadLog, LogInv, LogTypeOK, StreamHasOneUser, LinesAreCounted, StreamFree, Emits,
     LinesOnTheirWay, ClosedInTurn, LinesAreWhole, LinesArriveInOrder
<1>2. CASE logThread' = "raising" /\ moved' = logStorage /\ logStorage' = <<>>
  <2>1. /\ moved = <<>> /\ logStorage \in Seq(LogLine) /\ printed \in Seq(LogLine)
        /\ logged \in Seq(LogLine) /\ unheard \in 0 .. MaxLines /\ unheard <= Len(logged)
        /\ UNCHANGED <<printed, logged, unheard>>
    BY DEF ReadLog, LogInv, LogTypeOK, LinesOnTheirWay, LinesAreCounted
  <2>2. /\ printed \o logStorage = SubSeq(logged, unheard + 1, Len(logged))
        /\ LinesArriveInOrder'
    BY <1>2, <2>1, JoinedParts DEF LogInv, LinesArriveInOrder
  <2>3. unheard + Len(moved') <= Len(logged')
    <3>1. PICK c : c = printed \o logStorage
      OBVIOUS
    <3>2. Len(c) = Len(logged) - unheard
      BY <2>1, <2>2, <3>1, PartOf
    <3>3. Len(c) = Len(printed) + Len(logStorage) /\ Len(printed) \in Nat /\ Len(logStorage) \in Nat
      BY ONLY <2>1, <3>1
    <3>4. QED BY <1>2, <2>1, <3>2, <3>3
  <2>4. QED
    BY <1>2, <2>1, <2>2, <2>3 DEF ReadLog, LogInv, LogTypeOK, StreamHasOneUser, LinesAreCounted,
       StreamFree, Emits, LinesOnTheirWay, ClosedInTurn, LinesAreWhole
<1>3. QED BY <1>1, <1>2 DEF ReadLog

LEMMA RaiseKeeps == ASSUME LogInv, RaiseLogEvent PROVE LogInv'
<1>1. /\ moved \in Seq(LogLine) /\ logStorage \in Seq(LogLine) /\ printed \in Seq(LogLine)
      /\ logged \in Seq(LogLine) /\ unheard \in 0 .. MaxLines
      /\ unheard + Len(moved) <= Len(logged) /\ moved' = <<>> /\ UNCHANGED <<logged, logStorage>>
      /\ Len(logged) <= messages /\ messages \in 0 .. MaxLines /\ Len(moved) \in Nat
      /\ (printed \o moved) \o logStorage = SubSeq(logged, unheard + 1, Len(logged))
  BY DEF RaiseLogEvent, LogInv, LogTypeOK, LinesAreCounted, LinesArriveInOrder
<1>2. CASE attached
  <2>1. printed' = printed \o moved /\ UNCHANGED unheard /\ printed' \in Seq(LogLine)
    <3>1. printed' = printed \o moved /\ UNCHANGED unheard
      BY <1>2 DEF RaiseLogEvent
    <3>2. printed \o moved \in Seq(LogLine)
      BY ONLY <1>1, JoinedParts
    <3>3. QED BY <3>1, <3>2
  <2>2. (printed' \o <<>>) \o logStorage = printed' \o logStorage
    BY <1>1, <2>1, JoinedParts
  <2>3. LinesArriveInOrder'
    BY <1>1, <2>1, <2>2 DEF LinesArriveInOrder
  <2>4. QED
    BY <1>1, <1>2, <2>1, <2>3 DEF RaiseLogEvent, LogInv, LogTypeOK, StreamHasOneUser,
       LinesAreCounted, StreamFree, Emits, LinesOnTheirWay, ClosedInTurn, LinesAreWhole
<1>3. CASE ~attached
  <2>1. printed = <<>> /\ UNCHANGED printed /\ unheard' = unheard + Len(moved)
    BY <1>1, <1>3 DEF RaiseLogEvent, LogInv, LinesOnTheirWay
  <2>2. moved \o logStorage = SubSeq(logged, unheard + 1, Len(logged))
    BY <1>1, <2>1
  <2>3. unheard \in 0 .. Len(logged)
    BY <1>1
  <2>4. logStorage = SubSeq(logged, (unheard + Len(moved)) + 1, Len(logged))
    <3>1. moved \in Seq(LogLine) /\ logStorage \in Seq(LogLine) /\ logged \in Seq(LogLine)
      BY <1>1
    <3>2. Splits(moved, logStorage, logged, unheard)
      BY <2>2, <2>3 DEF Splits, Behind
    <3>3. logStorage = Behind(logged, Passing(unheard, moved))
      BY ONLY <3>1, <3>2, UnheardAreDropped
    <3>4. QED BY <3>3 DEF Behind, Passing
  <2>5. LinesArriveInOrder'
    BY <1>1, <2>1, <2>4 DEF LinesArriveInOrder
  <2>6. unheard' \in 0 .. MaxLines /\ unheard' <= Len(logged') /\ moved' = <<>> /\ Len(<<>>) = 0
    <3>1. Len(logged) \in Nat
      BY <1>1
    <3>2. QED BY <1>1, <2>1, <3>1, LogAssumption
  <2>7. QED
    BY <1>1, <1>3, <2>1, <2>5, <2>6, NoLines DEF RaiseLogEvent, LogInv, LogTypeOK, StreamHasOneUser,
       LinesAreCounted, StreamFree, Emits, LinesOnTheirWay, ClosedInTurn, LinesAreWhole
<1>4. QED BY <1>2, <1>3

LEMMA ServiceKeeps ==
  ASSUME LogInv, WaitOne \/ Listen \/ Dispose \/ UNCHANGED logVars PROVE LogInv'
<1> USE DEF LogInv, LogTypeOK, StreamHasOneUser, LinesAreCounted, StreamFree, Emits,
            LinesOnTheirWay, ClosedInTurn, LinesAreWhole, LinesArriveInOrder
<1>1. CASE WaitOne
  BY <1>1 DEF WaitOne
<1>2. CASE Listen
  BY <1>2 DEF Listen
<1>3. CASE Dispose
  BY <1>3 DEF Dispose, Finalize
<1>4. CASE UNCHANGED logVars
  BY <1>4 DEF logVars
<1>5. QED BY <1>1, <1>2, <1>3, <1>4

LEMMA LogInitially == LogInit => LogInv
<1> SUFFICES ASSUME LogInit PROVE LogInv
  OBVIOUS
<1>1. LogTypeOK
  <2>1. <<>> \in Seq(LogLine) /\ <<>> \in Seq(1 .. MaxLines)
    BY NoLines
  <2>2. 0 \in 0 .. MaxLines
    BY LogAssumption
  <2>3. QED BY <2>1, <2>2 DEF LogInit, LogTypeOK
<1>2. LinesAreCounted /\ LinesArriveInOrder
  BY DEF LogInit, LinesAreCounted, StreamFree, Emits, LinesArriveInOrder
<1>3. QED
  BY <1>1, <1>2 DEF LogInit, LogInv, StreamHasOneUser, Emits, LinesOnTheirWay, ClosedInTurn,
     LinesAreWhole

LEMMA LogStepKeeps == LogInv /\ [LogNext]_logVars => LogInv'
BY BeginKeeps, EmitKeeps, WrapperKeeps, ReadKeeps, RaiseKeeps, ServiceKeeps DEF LogNext

\* The log that the service prints is the log that was written: the threads of
\* the router never mix their lines in the stream buffer of netlib's logger,
\* every line socksify's logger keeps is printed once and in its order, unless
\* it was raised before LogPrinter was attached, and !Socksifier() closes the
\* event of the log thread only when that has ended; for any number of threads
\* and lines and every log limit.
THEOREM LogArrives == LogSpec => []LogIsDelivered
<1>1. LogInv => LogIsDelivered
  BY DEF LogInv, LogIsDelivered, ClosedInTurn, EventOutlivesThread
<1>2. QED BY <1>1, LogInitially, LogStepKeeps, PTL DEF LogSpec

\* The types of the log: a line that is kept is one message or two pieces of
\* one, and the counters stay within the number of messages.
THEOREM LogTypes == LogSpec => []LogTypeOK
<1>1. LogInv => LogTypeOK
  BY DEF LogInv
<1>2. QED BY <1>1, LogInitially, LogStepKeeps, PTL DEF LogSpec

------------------------------------------------------------------------------
\* PacketDecision: no verdict is older than its route or its tables.

ProtocolOf(e) == IF e \in TcpEndpoint THEN "tcp" ELSE "udp"

\* What a builder has read is of the table it is at.
CopyIsTyped ==
  /\ copy = [b \in Builder |-> copy[b]]
  /\ \A b \in Builder :
       /\ building[b] = "tcpRead" => copy[b] \in [TcpEndpoint -> Info \cup {Nobody}]
       /\ building[b] = "udpRead" => copy[b] \in [UdpEndpoint -> Info \cup {Nobody}]

\* The resolver builds tables only for a batch.
WaitingIsIdle == lookingUp = "waiting" => building["resolver"] = "idle"

RoutesFit == \A pid \in Pid : routes[pid] # Nobody => PidOf[routes[pid]] = pid

\* Threads at the same entry have the same object, and the table's is the one
\* that is not older than the table.
ObjectsAreShared ==
  \A t \in FlowThread : deciding[t] # Nobody =>
    /\ deciding[t].age = 0 => table[deciding[t].endpoint] = deciding[t].info
    /\ \A u \in FlowThread : Shares(t, u) => deciding[u].info = deciding[t].info

\* A thread whose process has a route that the proxy serves has not yet asked
\* for it, and nothing it has cached bars it.
EntitledAreServed ==
  \A t \in entitled :
    /\ deciding[t] # Nobody
    /\ deciding[t].step \in {"found", "asking"}
    /\ ~deciding[t].info.excluded
    /\ PidRouted(PidOf[deciding[t].info.proc])
    /\ ProtocolOf(deciding[t].endpoint) \in Serves

\* A process that has bound an endpoint does not bind it again, so that the
\* sender of a postponed packet has it either all the time or no more.
OwnersAreKnown ==
  /\ \A e \in Endpoint : owner[e] # Nobody => owner[e] \in hasBound
  /\ \A i \in 1 .. Len(unresolved) : unresolved[i].sender \in hasBound
  /\ \A i \in 1 .. Len(batch) : batch[i].sender \in hasBound

NamesProcess(info, q) == info # Nobody /\ info.proc = q

Reading(b, e) == building[b] = IF e \in TcpEndpoint THEN "tcpRead" ELSE "udpRead"

\* The resolver has been through the table of e for its batch.
Renewed(e) ==
  building["resolver"] \in IF e \in TcpEndpoint THEN {"udp", "udpRead", "idle"} ELSE {"idle"}

\* Once read for the batch, the rows name the owner of an endpoint: those the
\* resolver has, those it has stored, and those that add_pid will store over
\* them without being older.
RowsName(e, q) ==
  /\ Reading("resolver", e) => NamesProcess(copy["resolver"][e], q)
  /\ Renewed(e) /\ ProtocolOf(e) \notin outdated => NamesProcess(table[e], q)
  /\ /\ Reading("add_pid", e) /\ ~overtaken
     /\ Reading("resolver", e) \/ (Renewed(e) /\ ProtocolOf(e) \notin outdated)
     => NamesProcess(copy["add_pid"][e], q)

BatchIsNamed ==
  lookingUp = "busy" =>
    \A i \in 1 .. Len(batch) :
      owner[batch[i].endpoint] = batch[i].sender /\ batch[i].sender \notin Opaque
        => RowsName(batch[i].endpoint, batch[i].sender)

DecisionInv ==
  DecisionTypeOK /\ CopyIsTyped /\ WaitingIsIdle /\ RoutesFit
    /\ ObjectsAreShared /\ EntitledAreServed /\ OwnersAreKnown /\ BatchIsNamed

----------------------------------------------------------------------------
(* Operators *)

LEMMA ObjectsApart ==
  /\ \A d \in Decision : d # Nobody
  /\ \A i \in Info : i # Nobody
  /\ \A q \in Process : q # Nobody
BY NobodyIsApart

LEMMA DecisionFields ==
  ASSUME NEW d \in Decision
  PROVE  /\ d.endpoint \in Endpoint /\ d.info \in Info /\ d.age \in 0 .. MaxAge
         /\ d.step \in {"found", "asking", "missed", "pass"}
         /\ d.info.proc \in Process /\ d.info.excluded \in BOOLEAN /\ d.info.bypass \in BOOLEAN
BY DEF Decision, Info

LEMMA InfoMoves ==
  ASSUME NEW d \in Decision, NEW info \in Info
  PROVE  /\ [d EXCEPT !.info = info] \in Decision
         /\ [d EXCEPT !.info = info].info = info
         /\ [d EXCEPT !.info = info].endpoint = d.endpoint
         /\ [d EXCEPT !.info = info].age = d.age
         /\ [d EXCEPT !.info = info].step = d.step
BY DEF Decision

LEMMA StepMoves ==
  ASSUME NEW d \in Decision, NEW s \in {"found", "asking", "missed", "pass"}
  PROVE  /\ [d EXCEPT !.step = s] \in Decision
         /\ [d EXCEPT !.step = s].info = d.info
         /\ [d EXCEPT !.step = s].endpoint = d.endpoint
         /\ [d EXCEPT !.step = s].age = d.age
         /\ [d EXCEPT !.step = s].step = s
BY DEF Decision

LEMMA AgeMoves ==
  ASSUME NEW d \in Decision, d.age < MaxAge
  PROVE  /\ [d EXCEPT !.age = @ + 1] \in Decision
         /\ [d EXCEPT !.age = @ + 1].info = d.info
         /\ [d EXCEPT !.age = @ + 1].endpoint = d.endpoint
         /\ [d EXCEPT !.age = @ + 1].age = d.age + 1
         /\ [d EXCEPT !.age = @ + 1].age # 0
         /\ [d EXCEPT !.age = @ + 1].step = d.step
<1>1. d.age \in 0 .. MaxAge
  BY DEF Decision
<1>2. PICK n : n = d.age + 1
  OBVIOUS
<1>3. n \in 0 .. MaxAge /\ n # 0
  BY <1>1, <1>2, AgeAssumption
<1>4. /\ [d EXCEPT !.age = n] \in Decision
      /\ [d EXCEPT !.age = n].info = d.info
      /\ [d EXCEPT !.age = n].endpoint = d.endpoint
      /\ [d EXCEPT !.age = n].age = n
      /\ [d EXCEPT !.age = n].step = d.step
  BY <1>3 DEF Decision
<1>5. QED BY <1>2, <1>3, <1>4

LEMMA InfoMarked ==
  ASSUME NEW i \in Info, NEW x \in BOOLEAN
  PROVE  /\ [i EXCEPT !.excluded = @ \/ x] \in Info
         /\ [i EXCEPT !.excluded = @ \/ x].proc = i.proc
         /\ [i EXCEPT !.excluded = @ \/ x].excluded = (i.excluded \/ x)
         /\ [i EXCEPT !.bypass = TRUE] \in Info
         /\ [i EXCEPT !.bypass = TRUE].proc = i.proc
         /\ [i EXCEPT !.bypass = TRUE].excluded = i.excluded
<1>1. i.excluded \in BOOLEAN
  BY DEF Info
<1>2. PICK y : y = (i.excluded \/ x)
  OBVIOUS
<1>3. y \in BOOLEAN
  BY <1>2
<1>4. /\ [i EXCEPT !.excluded = y] \in Info
      /\ [i EXCEPT !.excluded = y].proc = i.proc
      /\ [i EXCEPT !.excluded = y].excluded = y
      /\ [i EXCEPT !.bypass = TRUE] \in Info
      /\ [i EXCEPT !.bypass = TRUE].proc = i.proc
      /\ [i EXCEPT !.bypass = TRUE].excluded = i.excluded
  BY <1>3 DEF Info
<1>5. [i EXCEPT !.excluded = @ \/ x] = [i EXCEPT !.excluded = y]
  BY <1>2
<1>6. QED BY <1>2, <1>4, <1>5

\* What a thread writes reaches the threads that have its object, and the
\* table if that has it too.
LEMMA WritesReach ==
  ASSUME DecisionTypeOK, NEW t \in FlowThread, NEW d \in Decision, d = deciding[t],
         NEW info \in Info, NEW after \in Decision \cup {Nobody}, Writes(t, info, after)
  PROVE  /\ deciding' \in [FlowThread -> Decision \cup {Nobody}]
         /\ table' \in [Endpoint -> Info \cup {Nobody}]
         /\ deciding'[t] = after
         /\ \A u \in FlowThread : u # t =>
              \/ ~Shares(t, u) /\ deciding'[u] = deciding[u]
              \/ /\ Shares(t, u) /\ deciding[u] \in Decision
                 /\ deciding'[u] = [deciding[u] EXCEPT !.info = info]
         /\ d.age # 0 => table' = table
         /\ d.age = 0 => /\ table'[d.endpoint] = info
                         /\ \A e \in Endpoint : e # d.endpoint => table'[e] = table[e]
<1>1. /\ deciding \in [FlowThread -> Decision \cup {Nobody}]
      /\ table \in [Endpoint -> Info \cup {Nobody}]
  BY DEF DecisionTypeOK
<1>2. d.endpoint \in Endpoint
  BY DecisionFields
<1>3. ASSUME NEW u \in FlowThread, Shares(t, u)
      PROVE  deciding[u] \in Decision /\ [deciding[u] EXCEPT !.info = info] \in Decision
  <2>1. deciding[u] \in Decision
    BY <1>1, <1>3 DEF Shares
  <2>2. QED BY <2>1, InfoMoves
<1>4. deciding' = [u \in FlowThread |->
         IF u = t THEN after
         ELSE IF Shares(t, u) THEN [deciding[u] EXCEPT !.info = info] ELSE deciding[u]]
  BY DEF Writes
<1>5. ASSUME NEW u \in FlowThread
      PROVE  /\ deciding'[u] \in Decision \cup {Nobody}
             /\ u = t => deciding'[u] = after
             /\ u # t =>
                  \/ ~Shares(t, u) /\ deciding'[u] = deciding[u]
                  \/ /\ Shares(t, u) /\ deciding[u] \in Decision
                     /\ deciding'[u] = [deciding[u] EXCEPT !.info = info]
  BY <1>1, <1>3, <1>4
<1>6. deciding' \in [FlowThread -> Decision \cup {Nobody}]
  BY <1>4, <1>5
<1>7. /\ table' \in [Endpoint -> Info \cup {Nobody}]
      /\ d.age # 0 => table' = table
      /\ d.age = 0 => /\ table'[d.endpoint] = info
                      /\ \A e \in Endpoint : e # d.endpoint => table'[e] = table[e]
  BY <1>1, <1>2 DEF Writes
<1>8. QED BY <1>5, <1>6, <1>7

\* What the thread t does with the object of its packet d: it writes info, which
\* is of the same process, and goes on with the packet as after, or is done.
Wrote(t, d, info, after) ==
  /\ d \in Decision /\ d = deciding[t]
  /\ info \in Info /\ info.proc = d.info.proc
  /\ \/ after = Nobody
     \/ after \in Decision /\ after.info = info /\ after.endpoint = d.endpoint /\ after.age = d.age
  /\ Writes(t, info, after)

LEMMA AskWrites ==
  ASSUME DecisionTypeOK, NEW t \in FlowThread, AskProxy(t)
  PROVE  \E d, info, after :
           /\ Wrote(t, d, info, after)
           /\ info.excluded = (d.info.excluded \/ MarkedExcluded(d.info.proc))
           /\ \/ entitled' = entitled \ {t}
              \/ ~ProxyPort(d.endpoint, d.info.proc) /\ entitled' = entitled
<1>1. PICK d : d = deciding[t]
  OBVIOUS
<1>2. d \in Decision
  BY <1>1 DEF DecisionTypeOK, AskProxy
<1>3. d.info \in Info /\ d.endpoint \in Endpoint
  BY <1>2, DecisionFields
<1>4. PICK x \in BOOLEAN : x = MarkedExcluded(d.info.proc)
  BY DEF MarkedExcluded
<1>5. PICK info : info = [d.info EXCEPT !.excluded = @ \/ MarkedExcluded(d.info.proc)]
  OBVIOUS
<1>6. /\ info \in Info /\ info.proc = d.info.proc
      /\ info.excluded = (d.info.excluded \/ MarkedExcluded(d.info.proc))
  BY <1>3, <1>4, <1>5, InfoMarked
<1>7. CASE ProxyPort(d.endpoint, d.info.proc)
  <2>1. Writes(t, info, Nobody) /\ entitled' = entitled \ {t}
    BY <1>1, <1>5, <1>7 DEF AskProxy
  <2>2. Wrote(t, d, info, Nobody)
    BY <1>1, <1>2, <1>6, <2>1 DEF Wrote
  <2>3. QED BY <1>6, <2>1, <2>2
<1>8. CASE ~ProxyPort(d.endpoint, d.info.proc)
  <2>1. PICK after : after = [d EXCEPT !.info = info, !.step = "missed"]
    OBVIOUS
  <2>2. Writes(t, info, after) /\ entitled' = entitled
    BY <1>1, <1>5, <1>8, <2>1 DEF AskProxy
  <2>3. Wrote(t, d, info, after)
    <3>1. after \in Decision /\ after.info = info /\ after.endpoint = d.endpoint /\ after.age = d.age
      <4>1. d \in Decision /\ info \in Info
        BY <1>2, <1>6
      <4>2. QED BY ONLY <2>1, <4>1 DEF Decision
    <3>2. QED BY <1>1, <1>2, <1>6, <2>2, <3>1 DEF Wrote
  <2>4. QED BY <1>6, <1>8, <2>2, <2>3
<1>9. QED BY <1>7, <1>8

LEMMA BypassWrites ==
  ASSUME DecisionTypeOK, NEW t \in FlowThread, CacheBypass(t)
  PROVE  \E d, info, after :
           /\ Wrote(t, d, info, after)
           /\ info.excluded = d.info.excluded /\ d.step = "missed"
           /\ entitled' = entitled
<1>1. PICK d : d = deciding[t]
  OBVIOUS
<1>2. d \in Decision /\ d.step = "missed" /\ entitled' = entitled
  BY <1>1 DEF DecisionTypeOK, CacheBypass
<1>3. d.info \in Info
  BY <1>2, DecisionFields
<1>4. PICK info : info = [d.info EXCEPT !.bypass = TRUE]
  OBVIOUS
<1>5. info \in Info /\ info.proc = d.info.proc /\ info.excluded = d.info.excluded
  BY <1>3, <1>4, InfoMarked
<1>6. PICK after : after = [d EXCEPT !.info = info, !.step = "pass"]
  OBVIOUS
<1>7. Writes(t, info, after)
  BY <1>1, <1>4, <1>6 DEF CacheBypass
<1>8. Wrote(t, d, info, after)
  <2>1. after \in Decision /\ after.info = info /\ after.endpoint = d.endpoint /\ after.age = d.age
    <3>1. d \in Decision /\ info \in Info /\ "pass" \in {"found", "asking", "missed", "pass"}
      BY <1>2, <1>5
    <3>2. after = [d EXCEPT !.info = info, !.step = "pass"]
      BY <1>6
    <3>3. QED BY ONLY <3>1, <3>2 DEF Decision
  <2>2. QED BY <1>1, <1>2, <1>5, <1>7, <2>1 DEF Wrote
<1>9. QED BY <1>2, <1>5, <1>8

LEMMA WroteReaches ==
  ASSUME DecisionTypeOK, NEW t \in FlowThread, NEW d, NEW info, NEW after,
         Wrote(t, d, info, after)
  PROVE  /\ deciding' \in [FlowThread -> Decision \cup {Nobody}]
         /\ table' \in [Endpoint -> Info \cup {Nobody}]
         /\ deciding'[t] = after
         /\ \A u \in FlowThread : u # t =>
              \/ ~Shares(t, u) /\ deciding'[u] = deciding[u]
              \/ /\ Shares(t, u) /\ deciding[u] \in Decision /\ deciding'[u] \in Decision
                 /\ deciding'[u].info = info /\ deciding'[u].endpoint = d.endpoint
                 /\ deciding'[u].age = d.age /\ deciding'[u].step = deciding[u].step
         /\ d.age # 0 => table' = table
         /\ d.age = 0 => /\ table'[d.endpoint] = info
                         /\ \A e \in Endpoint : e # d.endpoint => table'[e] = table[e]
<1>1. /\ d \in Decision /\ d = deciding[t] /\ info \in Info /\ after \in Decision \cup {Nobody}
      /\ Writes(t, info, after)
  BY DEF Wrote
<1>2. /\ deciding' \in [FlowThread -> Decision \cup {Nobody}]
      /\ table' \in [Endpoint -> Info \cup {Nobody}]
      /\ deciding'[t] = after
      /\ \A u \in FlowThread : u # t =>
           \/ ~Shares(t, u) /\ deciding'[u] = deciding[u]
           \/ /\ Shares(t, u) /\ deciding[u] \in Decision
              /\ deciding'[u] = [deciding[u] EXCEPT !.info = info]
      /\ d.age # 0 => table' = table
      /\ d.age = 0 => /\ table'[d.endpoint] = info
                      /\ \A e \in Endpoint : e # d.endpoint => table'[e] = table[e]
  BY <1>1, WritesReach
<1>3. ASSUME NEW u \in FlowThread, Shares(t, u), deciding[u] \in Decision,
             deciding'[u] = [deciding[u] EXCEPT !.info = info]
      PROVE  /\ deciding'[u] \in Decision
             /\ deciding'[u].info = info /\ deciding'[u].endpoint = d.endpoint
             /\ deciding'[u].age = d.age /\ deciding'[u].step = deciding[u].step
  BY <1>1, <1>3, InfoMoves DEF Shares
<1>4. QED BY <1>2, <1>3

LEMMA RowsAreTyped ==
  ASSUME DecisionTypeOK, NEW e \in Endpoint
  PROVE  /\ Row(e) \in Info \cup {Nobody}
         /\ owner[e] # Nobody /\ owner[e] \notin Opaque =>
              Row(e) \in Info /\ Row(e).proc = owner[e]
BY DEF Row, Info, DecisionTypeOK

\* What StoreTable does to the entries and to the packets that are decided on.
LEMMA StoreReaches ==
  ASSUME DecisionTypeOK, CopyIsTyped, NEW b \in Builder, StoreTable(b)
  PROVE  /\ table' \in [Endpoint -> Info \cup {Nobody}]
         /\ deciding' \in [FlowThread -> Decision \cup {Nobody}]
         /\ \A e \in Endpoint :
              table'[e] = IF e \in TableEndpoints(b) THEN copy[b][e] ELSE table[e]
         /\ \A t \in FlowThread :
              \/ deciding[t] = Nobody /\ deciding'[t] = Nobody
              \/ /\ deciding[t] \in Decision /\ deciding[t].endpoint \notin TableEndpoints(b)
                 /\ deciding'[t] = deciding[t]
              \/ /\ deciding[t] \in Decision /\ deciding'[t] \in Decision
                 /\ deciding[t].endpoint \in TableEndpoints(b)
                 /\ deciding'[t].info = deciding[t].info
                 /\ deciding'[t].endpoint = deciding[t].endpoint
                 /\ deciding'[t].age = deciding[t].age + 1 /\ deciding'[t].age # 0
                 /\ deciding'[t].step = deciding[t].step
<1>1. /\ copy[b] \in [TableEndpoints(b) -> Info \cup {Nobody}]
      /\ table \in [Endpoint -> Info \cup {Nobody}]
      /\ deciding \in [FlowThread -> Decision \cup {Nobody}]
  BY DEF DecisionTypeOK, CopyIsTyped, StoreTable, TableEndpoints, TableProtocol
<1>2. /\ table' = [e \in Endpoint |-> IF e \in TableEndpoints(b) THEN copy[b][e] ELSE table[e]]
      /\ deciding' = [t \in FlowThread |->
           IF deciding[t] # Nobody /\ deciding[t].endpoint \in TableEndpoints(b)
           THEN [deciding[t] EXCEPT !.age = @ + 1] ELSE deciding[t]]
      /\ \A t \in FlowThread : deciding[t] # Nobody => deciding[t].age < MaxAge
  BY DEF StoreTable
<1>3. table' \in [Endpoint -> Info \cup {Nobody}]
  BY <1>1, <1>2
<1>4. ASSUME NEW t \in FlowThread
      PROVE  /\ deciding'[t] \in Decision \cup {Nobody}
             /\ \/ deciding[t] = Nobody /\ deciding'[t] = Nobody
                \/ /\ deciding[t] \in Decision /\ deciding[t].endpoint \notin TableEndpoints(b)
                   /\ deciding'[t] = deciding[t]
                \/ /\ deciding[t] \in Decision /\ deciding'[t] \in Decision
                   /\ deciding[t].endpoint \in TableEndpoints(b)
                   /\ deciding'[t].info = deciding[t].info
                   /\ deciding'[t].endpoint = deciding[t].endpoint
                   /\ deciding'[t].age = deciding[t].age + 1 /\ deciding'[t].age # 0
                   /\ deciding'[t].step = deciding[t].step
  <2>1. CASE deciding[t] = Nobody
    BY <1>2, <2>1
  <2>2. CASE deciding[t] # Nobody /\ deciding[t].endpoint \notin TableEndpoints(b)
    BY <1>1, <1>2, <2>2
  <2>3. CASE deciding[t] # Nobody /\ deciding[t].endpoint \in TableEndpoints(b)
    <3>1. deciding[t] \in Decision /\ deciding[t].age < MaxAge
      BY <1>1, <1>2, <2>3
    <3>2. deciding'[t] = [deciding[t] EXCEPT !.age = @ + 1]
      BY <1>2, <2>3
    <3>3. QED BY <2>3, <3>1, <3>2, AgeMoves
  <2>4. QED BY <2>1, <2>2, <2>3
<1>5. deciding' \in [FlowThread -> Decision \cup {Nobody}]
  BY <1>2, <1>4
<1>6. QED BY <1>2, <1>3, <1>4, <1>5

----------------------------------------------------------------------------
(* Types *)

LEMMA TypesInit ==
  DecisionInit => DecisionTypeOK /\ CopyIsTyped /\ WaitingIsIdle
<1> SUFFICES ASSUME DecisionInit PROVE DecisionTypeOK /\ CopyIsTyped /\ WaitingIsIdle
  OBVIOUS
<1>1. \A b \in Builder : building[b] = "idle" /\ copy[b] = Nobody
  BY DEF DecisionInit
<1>2. building \in [Builder -> {"idle", "tcp", "tcpRead", "udp", "udpRead"}]
  BY DEF DecisionInit
<1>3. <<>> \in Seq(Postponed)
  OBVIOUS
<1>4. QED
  BY <1>1, <1>2, <1>3 DEF DecisionInit, DecisionTypeOK, CopyIsTyped, WaitingIsIdle, Builder

\* What the steps that leave the builders alone have to keep.
OtherTypes ==
  /\ life \in [Process -> {"new", "live", "gone"}]
  /\ owner \in [Endpoint -> Process \cup {Nobody}]
  /\ hasBound \subseteq Process
  /\ routes \in [Pid -> Process \cup {Nobody}]
  /\ table \in [Endpoint -> Info \cup {Nobody}]
  /\ protected \subseteq Endpoint
  /\ unresolved \in Seq(Postponed) /\ batch \in Seq(Postponed)
  /\ deciding \in [FlowThread -> Decision \cup {Nobody}]
  /\ entitled \subseteq FlowThread

LEMMA BuildersStay ==
  ASSUME DecisionTypeOK, CopyIsTyped, WaitingIsIdle, UNCHANGED <<building, copy, overtaken>>,
         OtherTypes', outdated' \subseteq Protocol, lookingUp' \in {"waiting", "busy"},
         lookingUp' = "waiting" => lookingUp = "waiting" \/ building["resolver"] = "idle"
  PROVE  DecisionTypeOK' /\ CopyIsTyped' /\ WaitingIsIdle'
BY DEF DecisionTypeOK, CopyIsTyped, WaitingIsIdle, OtherTypes

\* ... and those that move one.
LEMMA BuilderMoves ==
  ASSUME DecisionTypeOK, CopyIsTyped, OtherTypes', outdated' \subseteq Protocol,
         overtaken' \in BOOLEAN, lookingUp' \in {"waiting", "busy"},
         NEW b \in Builder, NEW point \in {"idle", "tcp", "tcpRead", "udp", "udpRead"},
         building' = [building EXCEPT ![b] = point],
         NEW rows, copy' = [copy EXCEPT ![b] = rows],
         point \in {"idle", "tcp", "udp"} => rows = Nobody,
         point = "tcpRead" => rows \in [TcpEndpoint -> Info \cup {Nobody}],
         point = "udpRead" => rows \in [UdpEndpoint -> Info \cup {Nobody}],
         lookingUp' = "waiting" => building'["resolver"] = "idle"
  PROVE  DecisionTypeOK' /\ CopyIsTyped' /\ WaitingIsIdle'
<1>1. /\ building' \in [Builder -> {"idle", "tcp", "tcpRead", "udp", "udpRead"}]
      /\ building'[b] = point /\ copy'[b] = rows
      /\ \A c \in Builder : c # b => building'[c] = building[c] /\ copy'[c] = copy[c]
      /\ copy' = [c \in Builder |-> copy'[c]]
  BY DEF DecisionTypeOK, CopyIsTyped
<1>2. ASSUME NEW c \in Builder
      PROVE  /\ building'[c] = "tcpRead" => copy'[c] \in [TcpEndpoint -> Info \cup {Nobody}]
             /\ building'[c] = "udpRead" => copy'[c] \in [UdpEndpoint -> Info \cup {Nobody}]
             /\ building'[c] \in {"idle", "tcp", "udp"} => copy'[c] = Nobody
  <2>1. CASE c = b
    BY <1>1, <2>1
  <2>2. CASE c # b
    BY <1>1, <2>2 DEF DecisionTypeOK, CopyIsTyped
  <2>3. QED BY <2>1, <2>2
<1>3. ASSUME NEW c \in Builder
      PROVE  IF building'[c] \in {"tcpRead", "udpRead"} THEN copy'[c] \in Rows ELSE copy'[c] = Nobody
  <2>1. building'[c] \in {"idle", "tcp", "tcpRead", "udp", "udpRead"}
    BY <1>1
  <2>2. CASE building'[c] = "tcpRead"
    BY <1>2, <2>2 DEF Rows
  <2>3. CASE building'[c] = "udpRead"
    BY <1>2, <2>3 DEF Rows
  <2>4. CASE building'[c] \in {"idle", "tcp", "udp"}
    BY <1>2, <2>4
  <2>5. QED BY <2>1, <2>2, <2>3, <2>4
<1>4. CopyIsTyped' /\ WaitingIsIdle'
  BY <1>1, <1>2 DEF CopyIsTyped, WaitingIsIdle
<1>5. DecisionTypeOK'
  BY <1>1, <1>3 DEF DecisionTypeOK, OtherTypes
<1>6. QED BY <1>4, <1>5

LEMMA FindsReaches ==
  ASSUME DecisionTypeOK, NEW t \in FlowThread, NEW e \in Endpoint, table[e] # Nobody, Finds(t, e)
  PROVE  /\ table[e] \in Info
         /\ deciding' \in [FlowThread -> Decision \cup {Nobody}]
         /\ deciding'[t] \in Decision
         /\ deciding'[t].endpoint = e /\ deciding'[t].info = table[e]
         /\ deciding'[t].age = 0 /\ deciding'[t].step = "found"
         /\ \A u \in FlowThread : u # t => deciding'[u] = deciding[u]
         /\ entitled' \subseteq entitled \cup {t}
         /\ t \in entitled' => Entitled(e)
<1>1. table[e] \in Info
  BY DEF DecisionTypeOK
<1>2. PICK d : d = [endpoint |-> e, info |-> table[e], age |-> 0, step |-> "found"]
  OBVIOUS
<1>3. /\ d \in Decision
      /\ d.endpoint = e /\ d.info = table[e] /\ d.age = 0 /\ d.step = "found"
  BY <1>1, <1>2, AgeAssumption DEF Decision
<1>4. deciding' = [deciding EXCEPT ![t] = d]
  BY <1>2 DEF Finds
<1>5. deciding \in [FlowThread -> Decision \cup {Nobody}]
  BY DEF DecisionTypeOK
<1>6. /\ entitled' \subseteq entitled \cup {t}
      /\ t \in entitled' => Entitled(e)
  BY DEF Finds
<1>7. QED BY <1>1, <1>3, <1>4, <1>5, <1>6

LEMMA ScreenReaches ==
  ASSUME DecisionTypeOK, NEW t \in FlowThread, Screen(t)
  PROVE  /\ deciding' \in [FlowThread -> Decision \cup {Nobody}]
         /\ deciding[t] \in Decision /\ deciding'[t] \in Decision
         /\ deciding'[t].endpoint = deciding[t].endpoint /\ deciding'[t].info = deciding[t].info
         /\ deciding'[t].age = deciding[t].age
         /\ deciding'[t].step =
              IF deciding[t].info.excluded \/ Bypassed(deciding[t].info) THEN "pass" ELSE "asking"
         /\ \A u \in FlowThread : u # t => deciding'[u] = deciding[u]
<1>1. PICK s : s = IF deciding[t].info.excluded \/ Bypassed(deciding[t].info)
                   THEN "pass" ELSE "asking"
  OBVIOUS
<1>2. deciding' = [deciding EXCEPT ![t].step = s]
  BY <1>1 DEF Screen
<1>3. deciding[t] \in Decision /\ deciding \in [FlowThread -> Decision \cup {Nobody}]
  BY DEF DecisionTypeOK, Screen
<1>4. PICK d : d = [deciding[t] EXCEPT !.step = s]
  OBVIOUS
<1>5. s \in {"found", "asking", "missed", "pass"}
  BY <1>1
<1>6. /\ d \in Decision /\ d.endpoint = deciding[t].endpoint /\ d.info = deciding[t].info
      /\ d.age = deciding[t].age /\ d.step = s
  BY <1>3, <1>4, <1>5, StepMoves
<1>7. deciding' = [deciding EXCEPT ![t] = d]
  BY <1>2, <1>4
<1>8. QED BY <1>1, <1>3, <1>6, <1>7

LEMMA WorldTypes ==
  ASSUME DecisionTypeOK, CopyIsTyped, WaitingIsIdle,
         \/ \E q \in Process : Begins(q) \/ Exits(q)
         \/ \E q \in Process, e \in Endpoint : Binds(q, e)
         \/ \E e \in Endpoint : CloseSocket(e) \/ ProtectionEnds(e)
         \/ \E pid \in Pid : RouteRemoved(pid)
         \/ SweepRoutes
  PROVE  DecisionTypeOK' /\ CopyIsTyped' /\ WaitingIsIdle'
<1>1. /\ UNCHANGED <<building, copy, overtaken, outdated, lookingUp, table, deciding, unresolved, batch>>
      /\ protected' \subseteq protected /\ entitled' \subseteq entitled
  BY DEF Begins, Exits, Binds, CloseSocket, ProtectionEnds, RouteRemoved, SweepRoutes, build, flow,
         world
<1>2. /\ life' \in [Process -> {"new", "live", "gone"}]
      /\ owner' \in [Endpoint -> Process \cup {Nobody}]
      /\ hasBound' \subseteq Process
  <2> USE DEF DecisionTypeOK
  <2>1. ASSUME NEW q \in Process, Begins(q) \/ Exits(q)
        PROVE  /\ life' \in [Process -> {"new", "live", "gone"}]
               /\ owner' \in [Endpoint -> Process \cup {Nobody}]
               /\ hasBound' \subseteq Process
    BY <2>1 DEF Begins, Exits
  <2>2. ASSUME NEW q \in Process, NEW e \in Endpoint, Binds(q, e)
        PROVE  /\ life' \in [Process -> {"new", "live", "gone"}]
               /\ owner' \in [Endpoint -> Process \cup {Nobody}]
               /\ hasBound' \subseteq Process
    BY <2>2 DEF Binds
  <2>3. ASSUME NEW e \in Endpoint, CloseSocket(e)
        PROVE  /\ life' \in [Process -> {"new", "live", "gone"}]
               /\ owner' \in [Endpoint -> Process \cup {Nobody}]
               /\ hasBound' \subseteq Process
    BY <2>3 DEF CloseSocket
  <2>4. CASE UNCHANGED world
    BY <2>4 DEF world
  <2>5. QED BY <2>1, <2>2, <2>3, <2>4 DEF ProtectionEnds, RouteRemoved, SweepRoutes
<1>3. routes' \in [Pid -> Process \cup {Nobody}]
  <2>1. CASE SweepRoutes
    BY <2>1 DEF SweepRoutes, DecisionTypeOK
  <2>2. CASE ~SweepRoutes
    BY <2>2 DEF DecisionTypeOK, Begins, Exits, Binds, CloseSocket, ProtectionEnds, RouteRemoved,
         world
  <2>3. QED BY <2>1, <2>2
<1>4. OtherTypes'
  BY <1>1, <1>2, <1>3 DEF OtherTypes, DecisionTypeOK
<1>5. outdated' \subseteq Protocol /\ lookingUp' \in {"waiting", "busy"}
  BY <1>1 DEF DecisionTypeOK
<1>6. QED BY <1>1, <1>4, <1>5, BuildersStay

LEMMA FlowTypes ==
  ASSUME DecisionTypeOK, CopyIsTyped, WaitingIsIdle, NEW t \in FlowThread,
         Screen(t) \/ AskProxy(t) \/ CacheBypass(t) \/ PacketLeaves(t)
  PROVE  DecisionTypeOK' /\ CopyIsTyped' /\ WaitingIsIdle'
<1>1. UNCHANGED <<life, owner, hasBound, routes, building, copy, overtaken, outdated, protected,
                  unresolved, batch, lookingUp>>
  BY DEF Screen, AskProxy, CacheBypass, PacketLeaves, world, build, flow
<1>2. /\ deciding' \in [FlowThread -> Decision \cup {Nobody}]
      /\ table' \in [Endpoint -> Info \cup {Nobody}]
      /\ entitled' \subseteq entitled
  <2>1. CASE Screen(t)
    BY <2>1, ScreenReaches DEF Screen, DecisionTypeOK
  <2>2. CASE PacketLeaves(t)
    BY <2>2 DEF PacketLeaves, DecisionTypeOK
  <2>3. CASE AskProxy(t)
    <3>1. PICK d, info, after :
            Wrote(t, d, info, after) /\ (entitled' = entitled \ {t} \/ entitled' = entitled)
      BY <2>3, AskWrites
    <3>2. QED BY <3>1, WroteReaches
  <2>4. CASE CacheBypass(t)
    <3>1. PICK d, info, after : Wrote(t, d, info, after) /\ entitled' = entitled
      BY <2>4, BypassWrites
    <3>2. QED BY <3>1, WroteReaches
  <2>5. QED BY <2>1, <2>2, <2>3, <2>4
<1>3. OtherTypes'
  BY <1>1, <1>2 DEF OtherTypes, DecisionTypeOK
<1>4. outdated' \subseteq Protocol /\ lookingUp' \in {"waiting", "busy"}
  BY <1>1 DEF DecisionTypeOK
<1>5. QED BY <1>1, <1>3, <1>4, BuildersStay

LEMMA PacketTypes ==
  ASSUME DecisionTypeOK, CopyIsTyped, WaitingIsIdle,
         (\E e \in Endpoint : SendPacket(e)) \/ HandlePostponed \/ BatchDone
  PROVE  DecisionTypeOK' /\ CopyIsTyped' /\ WaitingIsIdle'
<1>1. /\ UNCHANGED <<life, owner, hasBound, routes, table, building, copy, overtaken>>
      /\ outdated' \subseteq outdated
      /\ lookingUp' = lookingUp \/ (lookingUp' = "waiting" /\ building["resolver"] = "idle")
  BY DEF SendPacket, HandlePostponed, BatchDone, world, build, Handling
<1>2. /\ deciding' \in [FlowThread -> Decision \cup {Nobody}] /\ entitled' \subseteq FlowThread
      /\ unresolved' \in Seq(Postponed) /\ batch' \in Seq(Postponed) /\ protected' \subseteq Endpoint
  <2>1. CASE BatchDone
    BY <2>1 DEF BatchDone, DecisionTypeOK
  <2>2. ASSUME NEW e \in Endpoint, SendPacket(e)
        PROVE  /\ deciding' \in [FlowThread -> Decision \cup {Nobody}] /\ entitled' \subseteq FlowThread
               /\ unresolved' \in Seq(Postponed) /\ batch' \in Seq(Postponed)
               /\ protected' \subseteq Endpoint
    <3>1. UNCHANGED <<batch, protected>>
      BY <2>2 DEF SendPacket
    <3>2. CASE table[e] # Nobody /\ Finds("filter", e) /\ UNCHANGED unresolved
      BY <3>1, <3>2, FindsReaches DEF DecisionTypeOK, FlowThread
    <3>3. CASE /\ unresolved' = Append(unresolved, [endpoint |-> e, sender |-> owner[e]])
               /\ UNCHANGED <<deciding, entitled>>
      <4>1. [endpoint |-> e, sender |-> owner[e]] \in Postponed
        BY <2>2 DEF SendPacket, DecisionTypeOK, Postponed
      <4>2. QED BY <3>1, <3>3, <4>1 DEF DecisionTypeOK
    <3>4. QED BY <2>2, <3>2, <3>3 DEF SendPacket
  <2>3. CASE HandlePostponed
    <3>1. batch # <<>> /\ batch \in Seq(Postponed) /\ batch' = Tail(batch) /\ unresolved' = unresolved
      BY <2>3 DEF HandlePostponed, DecisionTypeOK
    <3>2. batch' \in Seq(Postponed) /\ Head(batch) \in Postponed
      BY <3>1
    <3>3. PICK e \in Endpoint : e = Head(batch).endpoint
      BY <3>2 DEF Postponed
    <3>4. CASE table[e] # Nobody /\ Finds("resolving", e) /\ UNCHANGED protected
      BY <3>1, <3>2, <3>4, FindsReaches DEF DecisionTypeOK, FlowThread
    <3>5. CASE protected' = protected \cup {e} /\ UNCHANGED <<deciding, entitled>>
      BY <3>1, <3>2, <3>5 DEF DecisionTypeOK
    <3>6. QED BY <2>3, <3>3, <3>4, <3>5 DEF HandlePostponed
  <2>4. QED BY <2>1, <2>2, <2>3
<1>3. OtherTypes'
  BY <1>1, <1>2 DEF OtherTypes, DecisionTypeOK
<1>4. outdated' \subseteq Protocol /\ lookingUp' \in {"waiting", "busy"}
  BY <1>1 DEF DecisionTypeOK
<1>5. QED BY <1>1, <1>3, <1>4, BuildersStay

LEMMA BuilderTypes ==
  ASSUME DecisionTypeOK, CopyIsTyped, WaitingIsIdle,
         \/ \E q \in Process : RouteAdded(q)
         \/ \E b \in Builder : ReadTable(b) \/ ReadFails(b) \/ StoreTable(b)
         \/ TakeBatch
  PROVE  DecisionTypeOK' /\ CopyIsTyped' /\ WaitingIsIdle'
<1>1. building \in [Builder -> {"idle", "tcp", "tcpRead", "udp", "udpRead"}]
  BY DEF DecisionTypeOK
<1>2. \A b \in Builder : TableProtocol(b) \in Protocol /\ NextTable(b) \in {"udp", "idle"}
  BY DEF TableProtocol, Protocol, NextTable
<1>3. /\ overtaken \in BOOLEAN /\ outdated \subseteq Protocol
      /\ lookingUp \in {"waiting", "busy"}
      /\ \A b \in Builder : building[b] \in {"idle", "tcp", "udp"} => copy[b] = Nobody
      /\ copy = [b \in Builder |-> copy[b]]
  BY <1>1 DEF DecisionTypeOK, CopyIsTyped
<1>4. ASSUME NEW q \in Process, RouteAdded(q) PROVE DecisionTypeOK' /\ CopyIsTyped' /\ WaitingIsIdle'
  <2>1. OtherTypes'
    BY <1>4, PidAssumption DEF RouteAdded, OtherTypes, DecisionTypeOK, world, flow
  <2>2. /\ building' = [building EXCEPT !["add_pid"] = "tcp"]
        /\ copy' = [copy EXCEPT !["add_pid"] = Nobody]
        /\ "add_pid" \in Builder
    BY <1>3, <1>4 DEF RouteAdded, Builder
  <2>3. /\ overtaken' \in BOOLEAN /\ outdated' \subseteq Protocol
        /\ lookingUp' \in {"waiting", "busy"}
        /\ lookingUp' = "waiting" => building'["resolver"] = "idle"
    BY <1>3, <1>4, <2>2 DEF RouteAdded, flow, WaitingIsIdle, Builder
  <2>4. QED BY <2>1, <2>2, <2>3, BuilderMoves
<1>5. ASSUME NEW b \in Builder, ReadTable(b)
      PROVE  DecisionTypeOK' /\ CopyIsTyped' /\ WaitingIsIdle'
  <2>1. OtherTypes'
    BY <1>5 DEF ReadTable, OtherTypes, DecisionTypeOK, world, flow
  <2>2. PICK rows : rows = [e \in TableEndpoints(b) |-> Row(e)]
    OBVIOUS
  <2>3. PICK point : point = IF building[b] = "tcp" THEN "tcpRead" ELSE "udpRead"
    OBVIOUS
  <2>4. building' = [building EXCEPT ![b] = point] /\ copy' = [copy EXCEPT ![b] = rows]
    BY <1>5, <2>2, <2>3 DEF ReadTable
  <2>5. building[b] \in {"tcp", "udp"} /\ TableEndpoints(b) \subseteq Endpoint
    BY <1>5 DEF ReadTable, TableEndpoints, Endpoint
  <2>6. rows \in [TableEndpoints(b) -> Info \cup {Nobody}]
    BY <2>2, <2>5, RowsAreTyped
  <2>7. /\ point \in {"tcpRead", "udpRead"}
        /\ point = "tcpRead" => rows \in [TcpEndpoint -> Info \cup {Nobody}]
        /\ point = "udpRead" => rows \in [UdpEndpoint -> Info \cup {Nobody}]
    BY <2>3, <2>5, <2>6 DEF TableEndpoints, TableProtocol
  <2>8. /\ overtaken' \in BOOLEAN /\ outdated' \subseteq Protocol
        /\ lookingUp' \in {"waiting", "busy"}
        /\ lookingUp' = "waiting" => building'["resolver"] = "idle"
    <3>1. lookingUp' = lookingUp /\ outdated' = outdated /\ overtaken' \in BOOLEAN
      BY <1>5 DEF ReadTable, flow
    <3>2. lookingUp = "waiting" => b # "resolver"
      BY <2>5 DEF WaitingIsIdle
    <3>3. lookingUp' = "waiting" => building'["resolver"] = "idle"
      BY <1>1, <2>4, <3>1, <3>2 DEF WaitingIsIdle, Builder
    <3>4. QED BY <1>3, <3>1, <3>3
  <2>9. QED BY <2>1, <2>4, <2>7, <2>8, BuilderMoves
<1>6. ASSUME NEW b \in Builder, ReadFails(b)
      PROVE  DecisionTypeOK' /\ CopyIsTyped' /\ WaitingIsIdle'
  <2>1. OtherTypes'
    BY <1>6 DEF ReadFails, OtherTypes, DecisionTypeOK, world, flow
  <2>2. PICK point : point = NextTable(b)
    OBVIOUS
  <2>3. /\ building' = [building EXCEPT ![b] = point] /\ copy' = [copy EXCEPT ![b] = Nobody]
        /\ building[b] \in {"tcp", "udp"} /\ point \in {"udp", "idle"}
    BY <1>2, <1>3, <1>6, <2>2 DEF ReadFails
  <2>4. /\ overtaken' = overtaken /\ outdated' \subseteq Protocol
        /\ lookingUp' = lookingUp
    BY <1>2, <1>3, <1>6 DEF ReadFails, flow
  <2>5. lookingUp' = "waiting" => building'["resolver"] = "idle"
    <3>1. lookingUp = "waiting" => b # "resolver"
      BY <2>3 DEF WaitingIsIdle
    <3>2. QED BY <1>1, <2>3, <2>4, <3>1 DEF WaitingIsIdle, Builder
  <2>6. QED BY <1>3, <2>1, <2>3, <2>4, <2>5, BuilderMoves
<1>7. ASSUME NEW b \in Builder, StoreTable(b)
      PROVE  DecisionTypeOK' /\ CopyIsTyped' /\ WaitingIsIdle'
  <2>1. OtherTypes'
    <3>1. UNCHANGED <<life, owner, hasBound, routes, protected, unresolved, batch, entitled>>
      BY <1>7 DEF StoreTable, world, flow
    <3>2. QED BY <1>7, <3>1, StoreReaches DEF OtherTypes, DecisionTypeOK
  <2>2. PICK point : point = NextTable(b)
    OBVIOUS
  <2>3. /\ building' = [building EXCEPT ![b] = point] /\ copy' = [copy EXCEPT ![b] = Nobody]
        /\ building[b] \in {"tcpRead", "udpRead"} /\ point \in {"udp", "idle"}
    BY <1>2, <1>7, <2>2 DEF StoreTable
  <2>4. /\ overtaken' \in BOOLEAN /\ outdated' \subseteq Protocol
        /\ lookingUp' = lookingUp
    BY <1>2, <1>3, <1>7 DEF StoreTable, flow
  <2>5. lookingUp' = "waiting" => building'["resolver"] = "idle"
    <3>1. lookingUp = "waiting" => b # "resolver"
      BY <2>3 DEF WaitingIsIdle
    <3>2. QED BY <1>1, <2>3, <2>4, <3>1 DEF WaitingIsIdle, Builder
  <2>6. QED BY <1>3, <2>1, <2>3, <2>4, <2>5, BuilderMoves
<1>8. CASE TakeBatch
  <2>1. OtherTypes'
    BY <1>8 DEF TakeBatch, OtherTypes, DecisionTypeOK, world
  <2>2. /\ building' = [building EXCEPT !["resolver"] = "tcp"]
        /\ copy' = [copy EXCEPT !["resolver"] = Nobody]
        /\ "resolver" \in Builder
    BY <1>3, <1>8 DEF TakeBatch, Builder, WaitingIsIdle
  <2>3. overtaken' \in BOOLEAN /\ outdated' \subseteq Protocol /\ lookingUp' = "busy"
    BY <1>3, <1>8 DEF TakeBatch
  <2>4. QED BY <2>1, <2>2, <2>3, BuilderMoves
<1>9. QED BY <1>4, <1>5, <1>6, <1>7, <1>8

LEMMA TypesKeep ==
  ASSUME DecisionTypeOK, CopyIsTyped, WaitingIsIdle, [DecisionNext]_decisionVars
  PROVE  DecisionTypeOK' /\ CopyIsTyped' /\ WaitingIsIdle'
<1>1. CASE UNCHANGED decisionVars
  BY <1>1 DEF decisionVars, DecisionTypeOK, CopyIsTyped, WaitingIsIdle
<1>2. QED
  BY <1>1, WorldTypes, FlowTypes, PacketTypes, BuilderTypes DEF DecisionNext

----------------------------------------------------------------------------
(* The routes name processes that have the PID *)

LEMMA RoutesKeep ==
  ASSUME DecisionTypeOK, RoutesFit, [DecisionNext]_decisionVars
  PROVE  RoutesFit'
<1>1. CASE UNCHANGED routes
  BY <1>1 DEF RoutesFit
<1>2. ASSUME NEW q \in Process, RouteAdded(q) PROVE RoutesFit'
  BY <1>2, PidAssumption DEF RouteAdded, RoutesFit, DecisionTypeOK
<1>3. ASSUME NEW pid \in Pid, RouteRemoved(pid) PROVE RoutesFit'
  BY <1>3 DEF RouteRemoved, RoutesFit, DecisionTypeOK
<1>4. CASE SweepRoutes
  BY <1>4 DEF SweepRoutes, RoutesFit
<1>5. QED
  BY <1>1, <1>2, <1>3, <1>4 DEF DecisionNext, decisionVars, Begins, Exits, Binds, Screen, AskProxy,
     CacheBypass, PacketLeaves, CloseSocket, SendPacket, ProtectionEnds, ReadTable, ReadFails,
     StoreTable, TakeBatch, HandlePostponed, BatchDone

----------------------------------------------------------------------------
(* Who has which object *)

LEMMA WroteShared ==
  ASSUME DecisionTypeOK, ObjectsAreShared, NEW t \in FlowThread, NEW d, NEW info, NEW after,
         Wrote(t, d, info, after)
  PROVE  ObjectsAreShared'
<1>1. /\ d \in Decision /\ d = deciding[t] /\ info \in Info /\ d.endpoint \in Endpoint
      /\ \/ after = Nobody
         \/ after \in Decision /\ after.info = info /\ after.endpoint = d.endpoint /\ after.age = d.age
  BY DecisionFields DEF Wrote
<1>2. ASSUME NEW v \in FlowThread, deciding'[v] # Nobody
      PROVE  \/ /\ deciding'[v].endpoint = d.endpoint /\ deciding'[v].age = d.age
                /\ deciding'[v].info = info
             \/ /\ deciding'[v] = deciding[v]
                /\ ~(deciding[v].endpoint = d.endpoint /\ deciding[v].age = d.age)
  <2>1. CASE v = t
    BY <1>1, <1>2, <2>1, WroteReaches
  <2>2. CASE v # t
    <3>1. CASE ~Shares(t, v) /\ deciding'[v] = deciding[v]
      BY <1>1, <1>2, <3>1 DEF Shares
    <3>2. CASE /\ deciding'[v].info = info /\ deciding'[v].endpoint = d.endpoint
               /\ deciding'[v].age = d.age
      BY <3>2
    <3>3. QED BY <2>2, <3>1, <3>2, WroteReaches
  <2>3. QED BY <2>1, <2>2
<1>3. /\ d.age # 0 => table' = table
      /\ d.age = 0 => /\ table'[d.endpoint] = info
                      /\ \A e \in Endpoint : e # d.endpoint => table'[e] = table[e]
  BY WroteReaches
<1>4. ASSUME NEW v \in FlowThread, deciding'[v] # Nobody
      PROVE  /\ deciding'[v].age = 0 => table'[deciding'[v].endpoint] = deciding'[v].info
             /\ \A u \in FlowThread : Shares(v, u)' => deciding'[u].info = deciding'[v].info
  <2>1. \A u \in FlowThread : Shares(v, u)' =>
          /\ deciding'[u] # Nobody
          /\ deciding'[u].endpoint = deciding'[v].endpoint /\ deciding'[u].age = deciding'[v].age
    BY DEF Shares
  <2>2. CASE /\ deciding'[v].endpoint = d.endpoint /\ deciding'[v].age = d.age
             /\ deciding'[v].info = info
    BY <1>2, <1>3, <2>1, <2>2
  <2>3. CASE /\ deciding'[v] = deciding[v]
             /\ ~(deciding[v].endpoint = d.endpoint /\ deciding[v].age = d.age)
    <3>1. deciding[v] # Nobody /\ deciding[v].endpoint \in Endpoint
      BY <1>4, <2>3, DecisionFields DEF DecisionTypeOK
    <3>2. deciding[v].age = 0 => table'[deciding[v].endpoint] = table[deciding[v].endpoint]
      BY <1>3, <2>3, <3>1
    <3>3. ASSUME NEW u \in FlowThread, Shares(v, u)'
          PROVE  deciding'[u].info = deciding'[v].info
      <4>1. deciding'[u] = deciding[u] /\ Shares(v, u)
        BY <1>2, <2>1, <2>3, <3>3 DEF Shares
      <4>2. QED BY <2>3, <3>1, <4>1 DEF ObjectsAreShared
    <3>4. QED BY <2>3, <3>1, <3>2, <3>3 DEF ObjectsAreShared
  <2>4. QED BY <1>2, <1>4, <2>2, <2>3
<1>5. QED BY <1>4 DEF ObjectsAreShared

\* An object that a thread finds, or goes on with, is the one it was.
LEMMA SharedStays ==
  ASSUME DecisionTypeOK, ObjectsAreShared, table' = table,
         \A v \in FlowThread : deciding'[v] # Nobody =>
           \/ /\ deciding[v] # Nobody
              /\ deciding'[v].endpoint = deciding[v].endpoint /\ deciding'[v].age = deciding[v].age
              /\ deciding'[v].info = deciding[v].info
           \/ deciding'[v].age = 0 /\ deciding'[v].info = table[deciding'[v].endpoint]
  PROVE  ObjectsAreShared'
<1>1. ASSUME NEW v \in FlowThread, deciding'[v] # Nobody
      PROVE  deciding'[v].age = 0 => table'[deciding'[v].endpoint] = deciding'[v].info
  BY <1>1 DEF ObjectsAreShared
<1>2. ASSUME NEW v \in FlowThread, NEW u \in FlowThread, deciding'[v] # Nobody, Shares(v, u)'
      PROVE  deciding'[u].info = deciding'[v].info
  <2>1. /\ deciding'[u] # Nobody
        /\ deciding'[u].endpoint = deciding'[v].endpoint /\ deciding'[u].age = deciding'[v].age
    BY <1>2 DEF Shares
  <2>2. CASE deciding'[v].age = 0
    BY <1>1, <1>2, <2>1, <2>2
  <2>3. CASE deciding'[v].age # 0
    <3>1. /\ deciding[v] # Nobody /\ deciding'[v].info = deciding[v].info
          /\ deciding'[v].endpoint = deciding[v].endpoint /\ deciding'[v].age = deciding[v].age
      BY <1>2, <2>3
    <3>2. /\ deciding[u] # Nobody /\ deciding'[u].info = deciding[u].info
          /\ deciding'[u].endpoint = deciding[u].endpoint /\ deciding'[u].age = deciding[u].age
      BY <2>1, <2>3
    <3>3. QED BY <2>1, <3>1, <3>2 DEF Shares, ObjectsAreShared
  <2>4. QED BY <2>2, <2>3
<1>3. QED BY <1>1, <1>2 DEF ObjectsAreShared

LEMMA StoreShared ==
  ASSUME DecisionTypeOK, CopyIsTyped, ObjectsAreShared, NEW b \in Builder, StoreTable(b)
  PROVE  ObjectsAreShared'
<1>1. ASSUME NEW v \in FlowThread, deciding'[v] # Nobody
      PROVE  /\ deciding[v] \in Decision /\ deciding'[v].info = deciding[v].info
             /\ deciding'[v].endpoint = deciding[v].endpoint
             /\ deciding'[v].age = IF deciding[v].endpoint \in TableEndpoints(b)
                                   THEN deciding[v].age + 1 ELSE deciding[v].age
             /\ deciding[v].endpoint \in TableEndpoints(b) => deciding'[v].age # 0
             /\ deciding[v].age \in Nat
  <2>1. CASE deciding[v] \in Decision /\ deciding[v].endpoint \notin TableEndpoints(b) 
             /\ deciding'[v] = deciding[v]
    BY <2>1, DecisionFields
  <2>2. CASE /\ deciding[v] \in Decision /\ deciding'[v] \in Decision
             /\ deciding[v].endpoint \in TableEndpoints(b)
             /\ deciding'[v].info = deciding[v].info
             /\ deciding'[v].endpoint = deciding[v].endpoint
             /\ deciding'[v].age = deciding[v].age + 1 /\ deciding'[v].age # 0
    BY <2>2, DecisionFields
  <2>3. QED BY <1>1, <2>1, <2>2, StoreReaches
<1>2. ASSUME NEW v \in FlowThread, deciding'[v] # Nobody, deciding'[v].age = 0
      PROVE  table'[deciding'[v].endpoint] = deciding'[v].info
  <2>1. deciding[v] \in Decision /\ deciding[v].endpoint \notin TableEndpoints(b) /\ deciding[v].age = 0
    BY <1>1, <1>2
  <2>2. table'[deciding[v].endpoint] = table[deciding[v].endpoint]
    BY <2>1, StoreReaches, DecisionFields
  <2>3. QED BY <1>1, <1>2, <2>1, <2>2, ObjectsApart DEF ObjectsAreShared
<1>3. ASSUME NEW v \in FlowThread, NEW u \in FlowThread, deciding'[v] # Nobody, Shares(v, u)'
      PROVE  deciding'[u].info = deciding'[v].info
  <2>1. /\ deciding'[u] # Nobody
        /\ deciding'[u].endpoint = deciding'[v].endpoint /\ deciding'[u].age = deciding'[v].age
    BY <1>3 DEF Shares
  <2>2. deciding[u].endpoint = deciding[v].endpoint /\ deciding[u].age = deciding[v].age
    BY <1>1, <1>3, <2>1
  <2>3. deciding[v] # Nobody /\ deciding[u] # Nobody
    BY <1>1, <1>3, <2>1, ObjectsApart
  <2>4. QED BY <1>1, <1>3, <2>1, <2>2, <2>3 DEF Shares, ObjectsAreShared
<1>4. QED BY <1>2, <1>3 DEF ObjectsAreShared

LEMMA SharedKeep ==
  ASSUME DecisionTypeOK, CopyIsTyped, ObjectsAreShared, [DecisionNext]_decisionVars
  PROVE  ObjectsAreShared'
<1>1. CASE UNCHANGED <<table, deciding>>
  BY <1>1, SharedStays
<1>2. ASSUME NEW t \in FlowThread, Screen(t) PROVE ObjectsAreShared'
  <2>1. table' = table
    BY <1>2 DEF Screen
  <2>2. \A v \in FlowThread : deciding'[v] # Nobody =>
          /\ deciding[v] # Nobody
          /\ deciding'[v].endpoint = deciding[v].endpoint /\ deciding'[v].age = deciding[v].age
          /\ deciding'[v].info = deciding[v].info
    BY <1>2, ScreenReaches, ObjectsApart
  <2>3. QED BY <2>1, <2>2, SharedStays
<1>3. ASSUME NEW t \in FlowThread, AskProxy(t) \/ CacheBypass(t) PROVE ObjectsAreShared'
  <2>1. \E d, info, after : Wrote(t, d, info, after)
    BY <1>3, AskWrites, BypassWrites
  <2>2. QED BY <2>1, WroteShared
<1>4. ASSUME NEW t \in FlowThread, PacketLeaves(t) PROVE ObjectsAreShared'
  <2>1. table' = table /\ \A v \in FlowThread : deciding'[v] # Nobody => deciding'[v] = deciding[v]
    BY <1>4 DEF PacketLeaves, DecisionTypeOK
  <2>2. QED BY <2>1, SharedStays
<1>5. ASSUME NEW t \in FlowThread, NEW e \in Endpoint, table[e] # Nobody, Finds(t, e), table' = table
      PROVE  ObjectsAreShared'
  <2>1. \A v \in FlowThread : v # t => deciding'[v] = deciding[v]
    BY <1>5, FindsReaches
  <2>2. deciding'[t].age = 0 /\ deciding'[t].info = table[deciding'[t].endpoint]
    BY <1>5, FindsReaches
  <2>3. QED BY <1>5, <2>1, <2>2, SharedStays
<1>6. ASSUME NEW e \in Endpoint, SendPacket(e) PROVE ObjectsAreShared'
  <2>1. table' = table /\ "filter" \in FlowThread
    BY <1>6 DEF SendPacket, FlowThread
  <2>2. QED BY <1>1, <1>5, <1>6, <2>1 DEF SendPacket
<1>7. CASE HandlePostponed
  <2>1. table' = table /\ "resolving" \in FlowThread
    BY <1>7 DEF HandlePostponed, FlowThread
  <2>2. PICK e \in Endpoint : e = Head(batch).endpoint
    <3>1. batch # <<>> /\ batch \in Seq(Postponed)
      BY <1>7 DEF HandlePostponed, DecisionTypeOK
    <3>2. Head(batch) \in Postponed
      BY <3>1
    <3>3. QED BY <3>2 DEF Postponed
  <2>3. QED BY <1>1, <1>5, <1>7, <2>1, <2>2 DEF HandlePostponed
<1>8. QED
  BY <1>1, <1>2, <1>3, <1>4, <1>6, <1>7, StoreShared DEF DecisionNext, decisionVars, Begins, Exits,
     Binds, RouteAdded, RouteRemoved, CloseSocket, ProtectionEnds, ReadTable, ReadFails, SweepRoutes,
     TakeBatch, BatchDone

----------------------------------------------------------------------------
(* The threads that are entitled to be served *)

Served(u) ==
  /\ deciding[u] # Nobody
  /\ deciding[u].step \in {"found", "asking"}
  /\ ~deciding[u].info.excluded
  /\ PidRouted(PidOf[deciding[u].info.proc])
  /\ ProtocolOf(deciding[u].endpoint) \in Serves

LEMMA ServedThreads == EntitledAreServed <=> \A u \in entitled : Served(u)
BY DEF EntitledAreServed, Served

\* A thread whose object is let alone, and its route.
LEMMA ServedStays ==
  ASSUME DecisionTypeOK, NEW u \in FlowThread, Served(u), deciding'[u] # Nobody,
         deciding'[u].step = deciding[u].step, deciding'[u].endpoint = deciding[u].endpoint,
         deciding'[u].info.proc = deciding[u].info.proc, ~deciding'[u].info.excluded,
         NEW pid \in Pid, PidOf[deciding[u].info.proc] = pid, PidRouted(pid)'
  PROVE  Served(u)'
BY DEF Served, ProtocolOf

LEMMA RoutedSays ==
  ASSUME NEW pid \in Pid
  PROVE  /\ PidRouted(pid) <=> routes[pid] # Nobody /\ life[routes[pid]] = "live"
         /\ PidRouted(pid)' <=> routes'[pid] # Nobody /\ life'[routes'[pid]] = "live"
BY DEF PidRouted, HasPidRoute, CreationTimeMatches

LEMMA PidOfDecision ==
  ASSUME DecisionTypeOK, NEW u \in FlowThread, Served(u)
  PROVE  /\ deciding[u] \in Decision
         /\ \E pid \in Pid : PidOf[deciding[u].info.proc] = pid /\ PidRouted(pid)
<1>1. deciding[u] \in Decision
  BY DEF DecisionTypeOK, Served
<1>2. PidOf[deciding[u].info.proc] \in Pid
  BY <1>1, DecisionFields, PidAssumption
<1>3. QED BY <1>1, <1>2 DEF Served

\* No step that leaves the objects of the entitled alone takes their routes.
LEMMA WorldServes ==
  ASSUME DecisionTypeOK, RoutesFit, EntitledAreServed,
         \/ \E q \in Process : Begins(q) \/ Exits(q) \/ RouteAdded(q)
         \/ \E pid \in Pid : RouteRemoved(pid)
         \/ SweepRoutes
  PROVE  EntitledAreServed'
<1>1. deciding' = deciding /\ entitled' \subseteq entitled /\ entitled \subseteq FlowThread
  BY DEF Begins, Exits, RouteAdded, RouteRemoved, SweepRoutes, DecisionTypeOK
<1>2. ASSUME NEW u \in FlowThread, u \in entitled', NEW pid \in Pid,
             PidOf[deciding[u].info.proc] = pid, deciding[u] # Nobody, PidRouted(pid)
      PROVE  PidRouted(pid)'
  <2>1. routes[pid] # Nobody /\ life[routes[pid]] = "live" /\ routes[pid] \in Process
    BY <1>2, RoutedSays DEF DecisionTypeOK
  <2>2. PidOf[routes[pid]] = pid
    BY <2>1 DEF RoutesFit
  <2>3. ASSUME NEW q \in Process, Begins(q) PROVE PidRouted(pid)'
    <3>1. life'[routes[pid]] = "live" /\ routes' = routes
      BY <2>1, <2>3 DEF Begins, DecisionTypeOK
    <3>2. QED BY <2>1, <3>1, RoutedSays
  <2>4. ASSUME NEW q \in Process, Exits(q) PROVE PidRouted(pid)'
    <3>1. u \notin Concerned(PidOf[q])
      BY <1>2, <2>4 DEF Exits
    <3>2. routes[pid] # q
      BY <1>2, <2>2, <3>1 DEF Concerned
    <3>3. life'[routes[pid]] = "live" /\ routes' = routes
      BY <2>1, <2>4, <3>2 DEF Exits, DecisionTypeOK
    <3>4. QED BY <2>1, <3>3, RoutedSays
  <2>5. ASSUME NEW q \in Process, RouteAdded(q) PROVE PidRouted(pid)'
    <3>1. life[q] = "live" /\ life' = life /\ routes' = [routes EXCEPT ![PidOf[q]] = q]
      BY <2>5 DEF RouteAdded, world
    <3>2. routes'[pid] # Nobody /\ life'[routes'[pid]] = "live"
      BY <2>1, <3>1, ObjectsApart DEF DecisionTypeOK
    <3>3. QED BY <3>2, RoutedSays
  <2>6. ASSUME NEW r \in Pid, RouteRemoved(r) PROVE PidRouted(pid)'
    <3>1. u \notin Concerned(r) /\ life' = life
      BY <1>2, <2>6 DEF RouteRemoved, world
    <3>2. r # pid
      BY <1>2, <3>1 DEF Concerned
    <3>3. routes'[pid] = routes[pid]
      BY <2>6, <3>2 DEF RouteRemoved, DecisionTypeOK
    <3>4. QED BY <2>1, <3>1, <3>3, RoutedSays
  <2>7. CASE SweepRoutes
    <3>1. routes'[pid] = routes[pid] /\ life' = life
      BY <2>1, <2>7 DEF SweepRoutes, world, HasPidRoute, CreationTimeMatches
    <3>2. QED BY <2>1, <3>1, RoutedSays
  <2>8. QED BY <2>3, <2>4, <2>5, <2>6, <2>7
<1>3. ASSUME NEW u \in entitled' PROVE Served(u)'
  <2>1. u \in FlowThread /\ Served(u)
    BY <1>1, ServedThreads
  <2>2. PICK pid \in Pid : PidOf[deciding[u].info.proc] = pid /\ PidRouted(pid)
    BY <2>1, PidOfDecision
  <2>3. deciding[u] # Nobody /\ ~deciding[u].info.excluded
    BY <2>1 DEF Served
  <2>4. PidRouted(pid)'
    BY <1>2, <2>1, <2>2, <2>3
  <2>5. QED BY <1>1, <2>1, <2>2, <2>3, <2>4, ServedStays
<1>4. QED BY <1>3 DEF EntitledAreServed, Served

\* What a thread writes into an object does not bar another that is entitled.
LEMMA WroteServes ==
  ASSUME DecisionTypeOK, ObjectsAreShared, EntitledAreServed,
         NEW t \in FlowThread, NEW d, NEW info, NEW after, Wrote(t, d, info, after),
         info.excluded = d.info.excluded
           \/ info.excluded = (d.info.excluded \/ MarkedExcluded(d.info.proc)),
         entitled' \subseteq entitled, t \notin entitled', UNCHANGED <<routes, life>>
  PROVE  EntitledAreServed'
<1>1. ASSUME NEW u \in entitled' PROVE Served(u)'
  <2>1. u \in FlowThread /\ Served(u) /\ u # t
    BY <1>1, ServedThreads DEF DecisionTypeOK
  <2>2. PICK pid \in Pid : PidOf[deciding[u].info.proc] = pid /\ PidRouted(pid)
    BY <2>1, PidOfDecision
  <2>3. PidRouted(pid)'
    BY <2>2, RoutedSays
  <2>4. deciding[u] # Nobody /\ ~deciding[u].info.excluded
    BY <2>1 DEF Served
  <2>5. CASE ~Shares(t, u) /\ deciding'[u] = deciding[u]
    BY <2>1, <2>2, <2>3, <2>4, <2>5, ServedStays
  <2>6. CASE /\ Shares(t, u) /\ deciding[u] \in Decision /\ deciding'[u] \in Decision
             /\ deciding'[u].info = info /\ deciding'[u].endpoint = d.endpoint
             /\ deciding'[u].age = d.age /\ deciding'[u].step = deciding[u].step
    <3>1. d \in Decision /\ d = deciding[t] /\ info.proc = d.info.proc
      BY DEF Wrote
    <3>2. deciding[u].info = d.info /\ deciding[u].endpoint = d.endpoint
      <4>1. deciding[t] # Nobody
        BY <3>1, ObjectsApart
      <4>2. deciding[u].info = deciding[t].info
        BY <2>1, <2>6, <4>1 DEF ObjectsAreShared
      <4>3. QED BY <2>6, <3>1, <4>2 DEF Shares
    <3>3. ~MarkedExcluded(d.info.proc)
      BY <2>2, <3>2 DEF MarkedExcluded
    <3>4. ~info.excluded
      BY <2>4, <3>2, <3>3
    <3>5. deciding'[u] # Nobody
      BY <2>6, ObjectsApart
    <3>6. QED BY <2>1, <2>2, <2>3, <2>6, <3>1, <3>2, <3>4, <3>5, ServedStays
  <2>7. QED BY <2>1, <2>5, <2>6, WroteReaches
<1>2. QED BY <1>1 DEF EntitledAreServed, Served

LEMMA FindsServes ==
  ASSUME DecisionTypeOK, EntitledAreServed, NEW t \in FlowThread, NEW e \in Endpoint,
         table[e] # Nobody, Finds(t, e), UNCHANGED <<routes, life>>
  PROVE  EntitledAreServed'
<1>1. /\ table[e] \in Info /\ deciding'[t] \in Decision
      /\ deciding'[t].endpoint = e /\ deciding'[t].info = table[e] /\ deciding'[t].step = "found"
      /\ \A u \in FlowThread : u # t => deciding'[u] = deciding[u]
      /\ entitled' \subseteq entitled \cup {t}
      /\ t \in entitled' => Entitled(e)
  BY FindsReaches
<1>2. ASSUME NEW u \in entitled' PROVE Served(u)'
  <2>1. CASE u = t
    <3>1. PidOf[table[e].proc] \in Pid
      BY <1>1, PidAssumption DEF Info
    <3>2. PICK pid \in Pid : pid = PidOf[table[e].proc]
      BY <3>1
    <3>3. PidRouted(pid) /\ ~table[e].excluded /\ ProtocolOf(e) \in Serves
      BY <1>1, <1>2, <2>1, <3>2 DEF Entitled, ProtocolOf
    <3>4. PidRouted(pid)'
      BY <3>3, RoutedSays
    <3>5. deciding'[t] # Nobody
      BY <1>1, ObjectsApart
    <3>6. QED BY <1>1, <2>1, <3>2, <3>3, <3>4, <3>5 DEF Served, ProtocolOf
  <2>2. CASE u # t
    <3>1. u \in FlowThread /\ Served(u)
      BY <1>1, <1>2, <2>2, ServedThreads DEF DecisionTypeOK
    <3>2. PICK pid \in Pid : PidOf[deciding[u].info.proc] = pid /\ PidRouted(pid)
      BY <3>1, PidOfDecision
    <3>3. PidRouted(pid)' /\ deciding'[u] = deciding[u]
      BY <1>1, <2>2, <3>1, <3>2, RoutedSays
    <3>4. deciding[u] # Nobody /\ ~deciding[u].info.excluded
      BY <3>1 DEF Served
    <3>5. QED BY <3>1, <3>2, <3>3, <3>4, ServedStays
  <2>3. QED BY <2>1, <2>2
<1>3. QED BY <1>2 DEF EntitledAreServed, Served

\* What a thread that is entitled does: it asks, and is served.
LEMMA FlowServes ==
  ASSUME DecisionTypeOK, ObjectsAreShared, EntitledAreServed, NEW t \in FlowThread,
         Screen(t) \/ AskProxy(t) \/ CacheBypass(t) \/ PacketLeaves(t)
  PROVE  EntitledAreServed'
<1>1. UNCHANGED <<routes, life>> /\ entitled \subseteq FlowThread
  BY DEF Screen, AskProxy, CacheBypass, PacketLeaves, world, DecisionTypeOK
<1>2. ASSUME NEW u \in FlowThread, Served(u), deciding'[u] = deciding[u] PROVE Served(u)'
  <2>1. PICK pid \in Pid : PidOf[deciding[u].info.proc] = pid /\ PidRouted(pid)
    BY <1>2, PidOfDecision
  <2>2. PidRouted(pid)'
    BY <1>1, <2>1, RoutedSays
  <2>3. deciding[u] # Nobody /\ ~deciding[u].info.excluded
    BY <1>2 DEF Served
  <2>4. QED BY <1>2, <2>1, <2>2, <2>3, ServedStays
<1>3. CASE Screen(t)
  <2>1. /\ deciding[t] \in Decision /\ deciding'[t] \in Decision
        /\ deciding'[t].endpoint = deciding[t].endpoint /\ deciding'[t].info = deciding[t].info
        /\ deciding'[t].step =
             IF deciding[t].info.excluded \/ Bypassed(deciding[t].info) THEN "pass" ELSE "asking"
        /\ \A u \in FlowThread : u # t => deciding'[u] = deciding[u]
        /\ entitled' = entitled
    BY <1>3, ScreenReaches DEF Screen
  <2>2. ASSUME t \in entitled PROVE Served(t)'
    <3>1. Served(t)
      BY <2>2, ServedThreads
    <3>2. PICK pid \in Pid : PidOf[deciding[t].info.proc] = pid /\ PidRouted(pid)
      BY <3>1, PidOfDecision
    <3>3. ~deciding[t].info.excluded /\ ~Bypassed(deciding[t].info)
      BY <3>1, <3>2 DEF Served, Bypassed, PidRouted
    <3>4. PidRouted(pid)' /\ deciding'[t] # Nobody
      BY <1>1, <2>1, <3>2, RoutedSays, ObjectsApart
    <3>5. deciding'[t].step = "asking"
      BY <2>1, <3>3
    <3>6. QED BY <2>1, <3>1, <3>2, <3>3, <3>4, <3>5 DEF Served, ProtocolOf
  <2>3. \A u \in entitled' : Served(u)'
    BY <1>1, <1>2, <2>1, <2>2, ServedThreads
  <2>4. QED BY <2>3 DEF EntitledAreServed, Served
<1>4. CASE AskProxy(t)
  <2>1. PICK d, info, after :
          /\ Wrote(t, d, info, after)
          /\ info.excluded = (d.info.excluded \/ MarkedExcluded(d.info.proc))
          /\ \/ entitled' = entitled \ {t}
             \/ ~ProxyPort(d.endpoint, d.info.proc) /\ entitled' = entitled
    BY <1>4, AskWrites
  <2>2. d = deciding[t]
    BY <2>1 DEF Wrote
  <2>3. t \notin entitled'
    <3>1. CASE entitled' = entitled \ {t}
      BY <3>1
    <3>2. CASE ~ProxyPort(d.endpoint, d.info.proc) /\ entitled' = entitled
      <4>1. Served(t) => ProxyPort(d.endpoint, d.info.proc)
        BY <2>2 DEF Served, ProxyPort, TcpProxyPort, UdpProxyPort, ProtocolOf
      <4>2. QED BY <3>2, <4>1, ServedThreads
    <3>3. QED BY <2>1, <3>1, <3>2
  <2>4. QED BY <1>1, <2>1, <2>3, WroteServes
<1>5. CASE CacheBypass(t)
  <2>1. PICK d, info, after :
          /\ Wrote(t, d, info, after)
          /\ info.excluded = d.info.excluded /\ d.step = "missed" /\ entitled' = entitled
    BY <1>5, BypassWrites
  <2>2. t \notin entitled'
    BY <2>1, ServedThreads DEF Served, Wrote
  <2>3. QED BY <1>1, <2>1, <2>2, WroteServes
<1>6. CASE PacketLeaves(t)
  <2>1. /\ entitled' = entitled \ {t}
        /\ \A u \in FlowThread : u # t => deciding'[u] = deciding[u]
    BY <1>6 DEF PacketLeaves, DecisionTypeOK
  <2>2. \A u \in entitled' : Served(u)'
    BY <1>1, <1>2, <2>1, ServedThreads
  <2>3. QED BY <2>2 DEF EntitledAreServed, Served
<1>7. QED BY <1>3, <1>4, <1>5, <1>6

LEMMA StoreServes ==
  ASSUME DecisionTypeOK, CopyIsTyped, EntitledAreServed, NEW b \in Builder, StoreTable(b)
  PROVE  EntitledAreServed'
<1>1. UNCHANGED <<routes, life, entitled>> /\ entitled \subseteq FlowThread
  BY DEF StoreTable, world, DecisionTypeOK
<1>2. ASSUME NEW u \in entitled PROVE Served(u)'
  <2>1. u \in FlowThread /\ Served(u)
    BY <1>1, ServedThreads
  <2>2. PICK pid \in Pid : PidOf[deciding[u].info.proc] = pid /\ PidRouted(pid)
    BY <2>1, PidOfDecision
  <2>3. PidRouted(pid)'
    BY <1>1, <2>2, RoutedSays
  <2>4. deciding[u] # Nobody /\ ~deciding[u].info.excluded
    BY <2>1 DEF Served
  <2>5. /\ deciding'[u] # Nobody /\ deciding'[u].info = deciding[u].info
        /\ deciding'[u].endpoint = deciding[u].endpoint /\ deciding'[u].step = deciding[u].step
    BY <2>1, <2>4, StoreReaches, ObjectsApart
  <2>6. QED BY <2>1, <2>2, <2>3, <2>4, <2>5, ServedStays
<1>3. QED BY <1>1, <1>2 DEF EntitledAreServed, Served

LEMMA ServesKeep ==
  ASSUME DecisionTypeOK, CopyIsTyped, RoutesFit, ObjectsAreShared, EntitledAreServed,
         [DecisionNext]_decisionVars
  PROVE  EntitledAreServed'
<1>1. CASE UNCHANGED <<routes, life, deciding, entitled>>
  BY <1>1 DEF EntitledAreServed, PidRouted, HasPidRoute, CreationTimeMatches
<1>2. ASSUME NEW e \in Endpoint, SendPacket(e) PROVE EntitledAreServed'
  <2>1. UNCHANGED <<routes, life>> /\ "filter" \in FlowThread
    BY <1>2 DEF SendPacket, FlowThread, world
  <2>2. QED BY <1>1, <1>2, <2>1, FindsServes DEF SendPacket
<1>3. CASE HandlePostponed
  <2>1. UNCHANGED <<routes, life>> /\ "resolving" \in FlowThread
    BY <1>3 DEF HandlePostponed, FlowThread, world
  <2>2. PICK e \in Endpoint : e = Head(batch).endpoint
    <3>1. batch # <<>> /\ batch \in Seq(Postponed)
      BY <1>3 DEF HandlePostponed, DecisionTypeOK
    <3>2. Head(batch) \in Postponed
      BY <3>1
    <3>3. QED BY <3>2 DEF Postponed
  <2>3. QED BY <1>1, <1>3, <2>1, <2>2, FindsServes DEF HandlePostponed
<1>4. QED
  BY <1>1, <1>2, <1>3, WorldServes, FlowServes, StoreServes DEF DecisionNext, decisionVars, Binds,
     CloseSocket, ProtectionEnds, ReadTable, ReadFails, TakeBatch, BatchDone, world

----------------------------------------------------------------------------
(* The senders of postponed packets *)

LEMMA TailOf ==
  ASSUME NEW S, NEW s \in Seq(S), s # <<>>
  PROVE  /\ Head(s) \in S /\ Tail(s) \in Seq(S) /\ Len(Tail(s)) = Len(s) - 1
         /\ \A i \in 1 .. Len(Tail(s)) : i + 1 \in 1 .. Len(s) /\ Tail(s)[i] = s[i + 1]
OBVIOUS

LEMMA OwnersKeep ==
  ASSUME DecisionTypeOK, OwnersAreKnown, [DecisionNext]_decisionVars
  PROVE  OwnersAreKnown'
<1> DEFINE Sent(s) == \A i \in 1 .. Len(s) : s[i].sender \in hasBound
<1>1. hasBound \subseteq hasBound' /\ hasBound' \subseteq Process
  <2>1. CASE UNCHANGED hasBound
    BY <2>1 DEF DecisionTypeOK
  <2>2. ASSUME NEW q \in Process, NEW e \in Endpoint, Binds(q, e)
        PROVE  hasBound \subseteq hasBound' /\ hasBound' \subseteq Process
    BY <2>2 DEF Binds, DecisionTypeOK
  <2>3. QED
    BY <2>1, <2>2 DEF DecisionNext, decisionVars, Begins, Exits, CloseSocket, RouteAdded,
       RouteRemoved, Screen, AskProxy, CacheBypass, PacketLeaves, SendPacket, ProtectionEnds,
       ReadTable, ReadFails, StoreTable, SweepRoutes, TakeBatch, HandlePostponed, BatchDone, world
<1>2. \A e \in Endpoint : owner'[e] # Nobody => owner'[e] \in hasBound'
  <2>1. CASE UNCHANGED owner
    BY <1>1, <2>1 DEF OwnersAreKnown
  <2>2. ASSUME NEW q \in Process, Exits(q)
        PROVE  \A e \in Endpoint : owner'[e] # Nobody => owner'[e] \in hasBound'
    BY <1>1, <2>2 DEF Exits, OwnersAreKnown
  <2>3. ASSUME NEW q \in Process, NEW r \in Endpoint, Binds(q, r)
        PROVE  \A e \in Endpoint : owner'[e] # Nobody => owner'[e] \in hasBound'
    BY <1>1, <2>3 DEF Binds, OwnersAreKnown, DecisionTypeOK
  <2>4. ASSUME NEW r \in Endpoint, CloseSocket(r)
        PROVE  \A e \in Endpoint : owner'[e] # Nobody => owner'[e] \in hasBound'
    BY <1>1, <2>4 DEF CloseSocket, OwnersAreKnown, DecisionTypeOK
  <2>5. QED
    BY <2>1, <2>2, <2>3, <2>4 DEF DecisionNext, decisionVars, Begins, RouteAdded,
       RouteRemoved, Screen, AskProxy, CacheBypass, PacketLeaves, SendPacket, ProtectionEnds,
       ReadTable, ReadFails, StoreTable, SweepRoutes, TakeBatch, HandlePostponed, BatchDone, world
<1>3. Sent(unresolved) /\ Sent(batch)
  BY DEF OwnersAreKnown
<1>4. (\A i \in 1 .. Len(unresolved') : unresolved'[i].sender \in hasBound)
        /\ (\A i \in 1 .. Len(batch') : batch'[i].sender \in hasBound)
  <2>1. CASE UNCHANGED <<unresolved, batch>>
    BY <1>3, <2>1
  <2>2. ASSUME NEW e \in Endpoint, SendPacket(e)
        PROVE  /\ \A i \in 1 .. Len(unresolved') : unresolved'[i].sender \in hasBound
               /\ \A i \in 1 .. Len(batch') : batch'[i].sender \in hasBound
    <3>1. batch' = batch /\ owner[e] \in hasBound /\ unresolved \in Seq(Postponed)
      BY <2>2 DEF SendPacket, OwnersAreKnown, DecisionTypeOK
    <3>2. PICK p : p = [endpoint |-> e, sender |-> owner[e]]
      OBVIOUS
    <3>3. p \in Postponed /\ p.sender = owner[e]
      BY <2>2, <3>2 DEF Postponed, SendPacket, DecisionTypeOK
    <3>4. CASE unresolved' = Append(unresolved, p)
      BY <1>3, <3>1, <3>3, <3>4
    <3>5. CASE unresolved' = unresolved
      BY <1>3, <3>1, <3>5
    <3>6. QED BY <2>2, <3>2, <3>4, <3>5 DEF SendPacket
  <2>3. CASE TakeBatch
    BY <1>3, <2>3 DEF TakeBatch
  <2>4. CASE HandlePostponed
    <3>1. batch \in Seq(Postponed) /\ batch # <<>> /\ batch' = Tail(batch) /\ unresolved' = unresolved
      BY <2>4 DEF HandlePostponed, DecisionTypeOK
    <3>2. \A i \in 1 .. Len(batch') : i + 1 \in 1 .. Len(batch) /\ batch'[i] = batch[i + 1]
      BY <3>1, TailOf
    <3>3. QED BY <1>3, <3>1, <3>2
  <2>5. QED
    BY <2>1, <2>2, <2>3, <2>4 DEF DecisionNext, decisionVars, Begins, Exits, Binds, CloseSocket,
       RouteAdded, RouteRemoved, Screen, AskProxy, CacheBypass, PacketLeaves, ProtectionEnds,
       ReadTable, ReadFails, StoreTable, SweepRoutes, BatchDone, flow
<1>5. QED BY <1>1, <1>2, <1>4 DEF OwnersAreKnown

\* An endpoint does not come back to a process that has bound it.
LEMMA OwnersStay ==
  ASSUME DecisionTypeOK, [DecisionNext]_decisionVars, NEW e \in Endpoint, NEW q \in Process,
         q \in hasBound, owner'[e] = q
  PROVE  owner[e] = q
<1>1. CASE UNCHANGED owner
  BY <1>1
<1>2. ASSUME NEW r \in Process, Exits(r) PROVE owner[e] = q
  BY <1>2, ObjectsApart DEF Exits
<1>3. ASSUME NEW r \in Process, NEW f \in Endpoint, Binds(r, f) PROVE owner[e] = q
  BY <1>3 DEF Binds, DecisionTypeOK
<1>4. ASSUME NEW f \in Endpoint, CloseSocket(f) PROVE owner[e] = q
  BY <1>4, ObjectsApart DEF CloseSocket, DecisionTypeOK
<1>5. QED
  BY <1>1, <1>2, <1>3, <1>4 DEF DecisionNext, decisionVars, Begins, RouteAdded,
     RouteRemoved, Screen, AskProxy, CacheBypass, PacketLeaves, SendPacket, ProtectionEnds,
     ReadTable, ReadFails, StoreTable, SweepRoutes, TakeBatch, HandlePostponed, BatchDone, world

----------------------------------------------------------------------------
(* What the rows name *)

LEMMA NamesStay ==
  ASSUME NEW e \in Endpoint, NEW q \in Process, RowsName(e, q), UNCHANGED build,
         NamesProcess(table[e], q) => NamesProcess(table'[e], q)
  PROVE  RowsName(e, q)'
BY DEF RowsName, build, NamesProcess, Reading, Renewed, ProtocolOf

\* What is written into an object does not make it another process's.
LEMMA WroteNames ==
  ASSUME DecisionTypeOK, ObjectsAreShared, NEW t \in FlowThread, NEW d, NEW info, NEW after,
         Wrote(t, d, info, after), NEW e \in Endpoint, NEW q \in Process, NamesProcess(table[e], q)
  PROVE  NamesProcess(table'[e], q)
<1>1. /\ d \in Decision /\ d = deciding[t] /\ info \in Info /\ info.proc = d.info.proc
  BY DEF Wrote
<1>2. d # Nobody /\ info # Nobody
  BY <1>1, ObjectsApart
<1>3. d.age = 0 => table[d.endpoint] = d.info
  BY <1>1, <1>2 DEF ObjectsAreShared
<1>4. CASE d.age = 0 /\ e = d.endpoint
  BY <1>1, <1>2, <1>3, <1>4, WroteReaches DEF NamesProcess
<1>5. CASE ~(d.age = 0 /\ e = d.endpoint)
  <2>1. table'[e] = table[e]
    BY <1>1, <1>5, WroteReaches, DecisionFields
  <2>2. QED BY <2>1
<1>6. QED BY <1>4, <1>5

LEMMA FlowNames ==
  ASSUME DecisionTypeOK, ObjectsAreShared, NEW t \in FlowThread,
         Screen(t) \/ AskProxy(t) \/ CacheBypass(t) \/ PacketLeaves(t),
         NEW e \in Endpoint, NEW q \in Process, RowsName(e, q)
  PROVE  RowsName(e, q)'
<1>1. UNCHANGED build
  BY DEF Screen, AskProxy, CacheBypass, PacketLeaves
<1>2. NamesProcess(table[e], q) => NamesProcess(table'[e], q)
  <2>1. CASE Screen(t) \/ PacketLeaves(t)
    BY <2>1 DEF Screen, PacketLeaves
  <2>2. CASE AskProxy(t) \/ CacheBypass(t)
    <3>1. \E d, info, after : Wrote(t, d, info, after)
      BY <2>2, AskWrites, BypassWrites
    <3>2. QED BY <3>1, WroteNames
  <2>3. QED BY <2>1, <2>2
<1>3. QED BY <1>1, <1>2, NamesStay

LEMMA EndpointSides ==
  ASSUME NEW e \in Endpoint
  PROVE  /\ e \in TcpEndpoint => e \notin UdpEndpoint /\ ProtocolOf(e) = "tcp"
         /\ e \notin TcpEndpoint => e \in UdpEndpoint /\ UdpEndpoint # {} /\ ProtocolOf(e) = "udp"
BY EndpointAssumption DEF Endpoint, ProtocolOf

LEMMA ReadNames ==
  ASSUME DecisionTypeOK, CopyIsTyped, NEW b \in Builder, ReadTable(b),
         NEW e \in Endpoint, NEW q \in Process, owner[e] = q, q \notin Opaque, RowsName(e, q)
  PROVE  RowsName(e, q)'
<1>1. /\ building[b] \in {"tcp", "udp"}
      /\ building' = [building EXCEPT ![b] = IF @ = "tcp" THEN "tcpRead" ELSE "udpRead"]
      /\ copy' = [copy EXCEPT ![b] = [f \in TableEndpoints(b) |-> Row(f)]]
      /\ overtaken' = (b = "resolver" /\ (overtaken \/ building["add_pid"] = building'[b]))
      /\ table' = table /\ outdated' = outdated
  BY DEF ReadTable
<1>2. /\ building \in [Builder -> {"idle", "tcp", "tcpRead", "udp", "udpRead"}]
      /\ copy = [c \in Builder |-> copy[c]]
  BY DEF DecisionTypeOK, CopyIsTyped
<1>3. /\ building'[b] = IF building[b] = "tcp" THEN "tcpRead" ELSE "udpRead"
      /\ copy'[b] = [f \in TableEndpoints(b) |-> Row(f)]
      /\ \A c \in Builder : c # b => building'[c] = building[c] /\ copy'[c] = copy[c]
  BY <1>1, <1>2
<1>4. Reading(b, e)' => NamesProcess(copy'[b][e], q)
  <2>1. ASSUME Reading(b, e)' PROVE e \in TableEndpoints(b)
    BY <1>1, <1>3, <2>1, EndpointSides DEF Reading, TableEndpoints, TableProtocol
  <2>2. NamesProcess(Row(e), q)
    BY RowsAreTyped, ObjectsApart DEF NamesProcess
  <2>3. ASSUME e \in TableEndpoints(b) PROVE copy'[b][e] = Row(e)
    BY <1>3, <2>3
  <2>4. QED BY <2>1, <2>2, <2>3
<1>5. CASE b = "resolver"
  <2>1. /\ "add_pid" # b /\ "add_pid" \in Builder
        /\ building'["add_pid"] = building["add_pid"] /\ copy'["add_pid"] = copy["add_pid"]
    BY <1>3, <1>5 DEF Builder
  <2>2. Renewed(e)' => Renewed(e)
    BY <1>1, <1>3, <1>5 DEF Renewed
  <2>3. Renewed(e)' /\ ProtocolOf(e) \notin outdated' => NamesProcess(table'[e], q)
    BY <1>1, <2>2 DEF RowsName
  <2>4. ASSUME Reading("add_pid", e)', ~overtaken',
               Reading("resolver", e)' \/ (Renewed(e)' /\ ProtocolOf(e) \notin outdated')
        PROVE  NamesProcess(copy'["add_pid"][e], q)
    <3>1. ~overtaken /\ building["add_pid"] # building'[b]
      BY <1>1, <1>5, <2>4
    <3>2. ~Reading("resolver", e)'
      BY <1>5, <2>1, <2>4, <3>1 DEF Reading
    <3>3. Renewed(e) /\ ProtocolOf(e) \notin outdated /\ Reading("add_pid", e)
      BY <1>1, <2>1, <2>2, <2>4, <3>2 DEF Reading
    <3>4. QED BY <2>1, <3>1, <3>3 DEF RowsName
  <2>5. QED BY <1>4, <1>5, <2>3, <2>4 DEF RowsName, ProtocolOf
<1>6. CASE b = "add_pid"
  <2>1. /\ building'["resolver"] = building["resolver"] /\ copy'["resolver"] = copy["resolver"]
    BY <1>3, <1>6 DEF Builder
  <2>2. /\ Reading("resolver", e)' <=> Reading("resolver", e)
        /\ Renewed(e)' <=> Renewed(e)
    BY <2>1 DEF Reading, Renewed
  <2>3. QED BY <1>1, <1>4, <1>6, <2>1, <2>2 DEF RowsName, ProtocolOf
<1>7. QED BY <1>5, <1>6 DEF Builder

LEMMA FailNames ==
  ASSUME DecisionTypeOK, NEW b \in Builder, ReadFails(b),
         NEW e \in Endpoint, NEW q \in Process, RowsName(e, q)
  PROVE  RowsName(e, q)'
<1>1. /\ building[b] \in {"tcp", "udp"}
      /\ building' = [building EXCEPT ![b] = NextTable(b)]
      /\ outdated' = IF b = "resolver" THEN outdated \cup {TableProtocol(b)} ELSE outdated
      /\ UNCHANGED <<table, copy, overtaken>>
  BY DEF ReadFails
<1>2. /\ building'[b] = NextTable(b)
      /\ \A c \in Builder : c # b => building'[c] = building[c]
  BY <1>1 DEF DecisionTypeOK
<1>3. ~Reading(b, e)'
  BY <1>2 DEF Reading, NextTable
<1>4. CASE b = "resolver"
  <2>1. building'["add_pid"] = building["add_pid"]
    BY <1>2, <1>4 DEF Builder
  <2>2. ASSUME Renewed(e)', ProtocolOf(e) \notin outdated' PROVE Renewed(e) /\ ProtocolOf(e) \notin outdated
    <3>1. ProtocolOf(e) \notin outdated /\ ProtocolOf(e) # TableProtocol(b)
      BY <1>1, <1>4, <2>2 DEF ProtocolOf
    <3>2. CASE building[b] = "tcp"
      BY <1>2, <1>4, <2>2, <3>1, <3>2, EndpointSides DEF Renewed, TableProtocol, NextTable
    <3>3. CASE building[b] = "udp"
      BY <1>4, <3>1, <3>3, EndpointSides DEF Renewed, TableProtocol
    <3>4. QED BY <1>1, <3>1, <3>2, <3>3
  <2>3. Reading("add_pid", e)' <=> Reading("add_pid", e)
    BY <2>1 DEF Reading
  <2>4. ProtocolOf(e)' = ProtocolOf(e)
    BY DEF ProtocolOf
  <2>5. QED BY <1>1, <1>3, <1>4, <2>2, <2>3, <2>4 DEF RowsName
<1>5. CASE b = "add_pid"
  <2>1. building'["resolver"] = building["resolver"] /\ outdated' = outdated
    BY <1>1, <1>2, <1>5 DEF Builder
  <2>2. /\ Reading("resolver", e)' <=> Reading("resolver", e)
        /\ Renewed(e)' <=> Renewed(e)
    BY <2>1 DEF Reading, Renewed
  <2>3. QED BY <1>1, <1>3, <1>5, <2>1, <2>2 DEF RowsName, ProtocolOf
<1>6. QED BY <1>4, <1>5 DEF Builder

LEMMA StoreNames ==
  ASSUME DecisionTypeOK, CopyIsTyped, NEW b \in Builder, StoreTable(b),
         NEW e \in Endpoint, NEW q \in Process, RowsName(e, q)
  PROVE  RowsName(e, q)'
<1>1. /\ building[b] \in {"tcpRead", "udpRead"}
      /\ building' = [building EXCEPT ![b] = NextTable(b)]
      /\ copy' = [copy EXCEPT ![b] = Nobody]
      /\ outdated' = IF b = "resolver" THEN outdated \ {TableProtocol(b)}
                     ELSE IF overtaken THEN outdated \cup {TableProtocol(b)} ELSE outdated
      /\ overtaken' = (b = "resolver" /\ overtaken)
  BY DEF StoreTable
<1>2. /\ building'[b] = NextTable(b)
      /\ \A c \in Builder : c # b => building'[c] = building[c] /\ copy'[c] = copy[c]
  BY <1>1 DEF DecisionTypeOK, CopyIsTyped
<1>3. ~Reading(b, e)'
  BY <1>2 DEF Reading, NextTable
<1>4. /\ e \in TableEndpoints(b) => table'[e] = copy[b][e]
      /\ e \notin TableEndpoints(b) => table'[e] = table[e]
  BY StoreReaches
<1>5. /\ e \in TableEndpoints(b) <=> ProtocolOf(e) = TableProtocol(b)
      /\ e \in TableEndpoints(b) <=> Reading(b, e)
  BY <1>1, EndpointSides DEF TableEndpoints, TableProtocol, Reading
<1>6. CASE b = "resolver"
  <2>1. /\ building'["add_pid"] = building["add_pid"] /\ copy'["add_pid"] = copy["add_pid"]
        /\ overtaken' = overtaken
    BY <1>1, <1>2, <1>6 DEF Builder, DecisionTypeOK
  <2>2. ASSUME e \in TableEndpoints(b) PROVE Reading("resolver", e) /\ NamesProcess(table'[e], q)
    <3>1. Reading("resolver", e)
      BY <1>5, <1>6, <2>2
    <3>2. NamesProcess(copy["resolver"][e], q)
      BY <3>1 DEF RowsName
    <3>3. QED BY <1>4, <1>6, <2>2, <3>1, <3>2
  <2>3. ASSUME e \notin TableEndpoints(b), Renewed(e)', ProtocolOf(e) \notin outdated'
        PROVE  Renewed(e) /\ ProtocolOf(e) \notin outdated
    <3>1. ProtocolOf(e) \notin outdated
      BY <1>1, <1>5, <1>6, <2>3
    <3>2. CASE building[b] = "tcpRead"
      BY <1>2, <1>6, <2>3, <3>2, EndpointSides DEF Renewed, TableProtocol, TableEndpoints, NextTable
    <3>3. CASE building[b] = "udpRead"
      <4>1. e \in TcpEndpoint
        BY <2>3, <3>3, EndpointSides DEF TableProtocol, TableEndpoints
      <4>2. QED BY <1>6, <3>1, <3>3, <4>1 DEF Renewed
    <3>4. QED BY <1>1, <3>1, <3>2, <3>3
  <2>4. Reading("add_pid", e)' <=> Reading("add_pid", e)
    BY <2>1 DEF Reading
  <2>5. ASSUME Renewed(e)', ProtocolOf(e) \notin outdated'
        PROVE  /\ NamesProcess(table'[e], q)
               /\ Reading("add_pid", e)' /\ ~overtaken' => NamesProcess(copy'["add_pid"][e], q)
    <3>1. CASE e \in TableEndpoints(b)
      BY <2>1, <2>2, <2>4, <3>1 DEF RowsName
    <3>2. CASE e \notin TableEndpoints(b)
      <4>1. Renewed(e) /\ ProtocolOf(e) \notin outdated
        BY <2>3, <2>5, <3>2
      <4>2. QED BY <1>4, <2>1, <2>4, <3>2, <4>1 DEF RowsName
    <3>3. QED BY <3>1, <3>2
  <2>6. ~Reading("resolver", e)'
    BY <1>3, <1>6
  <2>7. QED BY <2>5, <2>6 DEF RowsName, ProtocolOf
<1>7. CASE b = "add_pid"
  <2>1. /\ building'["resolver"] = building["resolver"] /\ copy'["resolver"] = copy["resolver"]
    BY <1>2, <1>7 DEF Builder
  <2>2. /\ Reading("resolver", e)' <=> Reading("resolver", e)
        /\ Renewed(e)' <=> Renewed(e)
    BY <2>1 DEF Reading, Renewed
  <2>3. ASSUME Renewed(e), ProtocolOf(e) \notin outdated' PROVE NamesProcess(table'[e], q)
    <3>1. ProtocolOf(e) \notin outdated /\ NamesProcess(table[e], q)
      BY <1>1, <1>7, <2>3 DEF RowsName
    <3>2. CASE e \in TableEndpoints(b)
      <4>1. ~overtaken
        BY <1>1, <1>5, <1>7, <2>3, <3>2
      <4>2. Reading("add_pid", e)
        BY <1>5, <1>7, <3>2
      <4>3. NamesProcess(copy["add_pid"][e], q)
        BY <2>3, <3>1, <4>1, <4>2 DEF RowsName
      <4>4. QED BY <1>4, <1>7, <3>2, <4>3
    <3>3. CASE e \notin TableEndpoints(b)
      BY <1>4, <3>1, <3>3
    <3>4. QED BY <3>2, <3>3
  <2>4. ~Reading("add_pid", e)'
    BY <1>3, <1>7
  <2>5. QED BY <2>1, <2>2, <2>3, <2>4 DEF RowsName, ProtocolOf
<1>8. QED BY <1>6, <1>7 DEF Builder

\* Every step keeps what the rows name, of an endpoint whose owner stays.
LEMMA RowsKeep ==
  ASSUME DecisionTypeOK, CopyIsTyped, ObjectsAreShared, [DecisionNext]_decisionVars,
         NEW e \in Endpoint, NEW q \in Process, owner[e] = q, q \notin Opaque,
         RowsName(e, q), lookingUp = "busy", lookingUp' = "busy"
  PROVE  RowsName(e, q)'
<1>1. CASE UNCHANGED <<build, table>>
  BY <1>1, NamesStay
<1>2. ASSUME NEW r \in Process, RouteAdded(r) PROVE RowsName(e, q)'
  <2>1. /\ building["add_pid"] = "idle" /\ building' = [building EXCEPT !["add_pid"] = "tcp"]
        /\ UNCHANGED <<copy, table, outdated, overtaken>>
    BY <1>2 DEF RouteAdded
  <2>2. building'["resolver"] = building["resolver"] /\ building'["add_pid"] = "tcp"
    BY <2>1 DEF DecisionTypeOK, Builder
  <2>3. /\ Reading("resolver", e)' <=> Reading("resolver", e)
        /\ Renewed(e)' <=> Renewed(e)
        /\ ~Reading("add_pid", e)'
    BY <2>2 DEF Reading, Renewed
  <2>4. QED BY <2>1, <2>3 DEF RowsName, ProtocolOf
<1>3. ~TakeBatch /\ ~BatchDone
  BY DEF TakeBatch, BatchDone
<1>4. QED
  BY <1>1, <1>2, <1>3, FlowNames, ReadNames, FailNames, StoreNames DEF DecisionNext, decisionVars,
     build, Begins, Exits, Binds, RouteRemoved, CloseSocket, SendPacket, ProtectionEnds, SweepRoutes,
     HandlePostponed

LEMMA BatchKeeps ==
  ASSUME DecisionTypeOK, CopyIsTyped, WaitingIsIdle, ObjectsAreShared, OwnersAreKnown, BatchIsNamed,
         [DecisionNext]_decisionVars
  PROVE  BatchIsNamed'
<1>1. CASE TakeBatch
  <2>1. building' = [building EXCEPT !["resolver"] = "tcp"]
    BY <1>1 DEF TakeBatch
  <2>2. building'["resolver"] = "tcp"
    BY <2>1 DEF DecisionTypeOK, Builder
  <2>3. \A e : ~Reading("resolver", e)' /\ ~Renewed(e)'
    BY <2>2 DEF Reading, Renewed
  <2>4. \A e, q : RowsName(e, q)'
    BY <2>3 DEF RowsName
  <2>5. QED BY <2>4 DEF BatchIsNamed
<1>2. CASE ~TakeBatch /\ lookingUp' = "busy"
  <2>1. lookingUp = "busy"
    BY <1>2 DEF DecisionNext, decisionVars, flow, Begins, Exits, Binds, CloseSocket,
       RouteAdded, RouteRemoved, Screen, AskProxy, CacheBypass, PacketLeaves, SendPacket,
       ProtectionEnds, ReadTable, ReadFails, StoreTable, SweepRoutes, HandlePostponed, BatchDone
  <2>2. ASSUME NEW i \in 1 .. Len(batch')
        PROVE  \E j \in 1 .. Len(batch) : batch'[i] = batch[j]
    <3>1. CASE HandlePostponed
      <4>1. batch \in Seq(Postponed) /\ batch # <<>> /\ batch' = Tail(batch)
        BY <3>1 DEF HandlePostponed, DecisionTypeOK
      <4>2. i + 1 \in 1 .. Len(batch) /\ batch'[i] = batch[i + 1]
        BY <4>1, TailOf
      <4>3. QED BY <4>2
    <3>2. CASE ~HandlePostponed
      <4>1. batch' = batch
        BY <1>2, <3>2 DEF DecisionNext, decisionVars, flow, Begins, Exits, Binds, CloseSocket,
           RouteAdded, RouteRemoved, Screen, AskProxy, CacheBypass, PacketLeaves, SendPacket,
           ProtectionEnds, ReadTable, ReadFails, StoreTable, SweepRoutes, BatchDone
      <4>2. QED BY <4>1
    <3>3. QED BY <3>1, <3>2
  <2>3. ASSUME NEW i \in 1 .. Len(batch'),
               owner'[batch'[i].endpoint] = batch'[i].sender, batch'[i].sender \notin Opaque
        PROVE  RowsName(batch[i].endpoint, batch[i].sender)'
    <3>1. PICK j \in 1 .. Len(batch) : batch'[i] = batch[j]
      BY <2>2
    <3>2. batch[j] \in Postponed
      BY DEF DecisionTypeOK
    <3>3. PICK e \in Endpoint, q \in Process : e = batch[j].endpoint /\ q = batch[j].sender
      BY <3>2 DEF Postponed
    <3>4. q \in hasBound
      BY <3>3 DEF OwnersAreKnown
    <3>5. owner'[e] = q /\ q \notin Opaque
      BY <2>3, <3>1, <3>3
    <3>6. owner[e] = q
      BY <3>4, <3>5, OwnersStay
    <3>7. RowsName(e, q)
      BY <2>1, <3>3, <3>5, <3>6 DEF BatchIsNamed
    <3>8. RowsName(e, q)'
      BY <1>2, <2>1, <3>5, <3>6, <3>7, RowsKeep
    <3>9. QED BY <3>1, <3>3, <3>8 DEF RowsName, NamesProcess, Reading, Renewed, ProtocolOf
  <2>4. QED BY <2>3 DEF BatchIsNamed
<1>3. CASE lookingUp' # "busy"
  BY <1>3 DEF BatchIsNamed
<1>4. QED BY <1>1, <1>2, <1>3

----------------------------------------------------------------------------
LEMMA DecisionInvInit == DecisionInit => DecisionInv
<1> SUFFICES ASSUME DecisionInit PROVE DecisionInv
  OBVIOUS
<1>1. DecisionTypeOK /\ CopyIsTyped /\ WaitingIsIdle
  BY TypesInit
<1>2. RoutesFit /\ ObjectsAreShared /\ EntitledAreServed
  BY DEF DecisionInit, RoutesFit, ObjectsAreShared, EntitledAreServed
<1>3. OwnersAreKnown /\ BatchIsNamed
  BY DEF DecisionInit, OwnersAreKnown, BatchIsNamed
<1>4. QED BY <1>1, <1>2, <1>3 DEF DecisionInv

LEMMA DecisionInvStep == DecisionInv /\ [DecisionNext]_decisionVars => DecisionInv'
BY TypesKeep, RoutesKeep, SharedKeep, ServesKeep, OwnersKeep, BatchKeeps DEF DecisionInv

\* A verdict is never older than the route it should come from, nor than the
\* tables the packet waited for: whatever the filter's thread, the resolver and
\* the thread of add_pid do between two steps of a decision, for any number of
\* processes, PIDs and endpoints, and any tables stored while one is decided.
THEOREM VerdictsAreCurrent == DecisionSpec => []DecisionIsCurrent
<1>1. DecisionInv => DecisionIsCurrent
  <2> SUFFICES ASSUME DecisionInv PROVE DecisionIsCurrent
    OBVIOUS
  <2>1. RouteTakesEffect
    BY DEF DecisionInv, EntitledAreServed, RouteTakesEffect
  <2>2. ASSUME Handling, NEW i \in 1 .. Len(batch), NEW e, NEW q,
               e = batch[i].endpoint, q = batch[i].sender,
               owner[e] = q, q \notin Opaque, ProtocolOf(e) \notin outdated
        PROVE  table[e] # Nobody /\ table[e].proc = q
    <3>1. RowsName(e, q)
      BY <2>2 DEF DecisionInv, BatchIsNamed, Handling
    <3>2. Renewed(e)
      BY <2>2 DEF Handling, Renewed
    <3>3. QED BY <2>2, <3>1, <3>2 DEF RowsName, NamesProcess
  <2>3. PostponedIsResolved
    BY <2>2 DEF PostponedIsResolved, ProtocolOf
  <2>4. QED BY <2>1, <2>3 DEF DecisionIsCurrent
<1>2. QED BY <1>1, DecisionInvInit, DecisionInvStep, PTL DEF DecisionSpec

\* The types of the decision: what a builder has read is a table's rows, and
\* only what it has read, and a decision that is being made has an object.
THEOREM DecisionTypes == DecisionSpec => []DecisionTypeOK
<1>1. DecisionInv => DecisionTypeOK
  BY DEF DecisionInv
<1>2. QED BY <1>1, DecisionInvInit, DecisionInvStep, PTL DEF DecisionSpec

=============================================================================
