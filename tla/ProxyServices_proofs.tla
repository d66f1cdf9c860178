------------------------ MODULE ProxyServices_proofs -------------------------
(***************************************************************************)
(* Proofs about what the proxies and the filter keep for all connections:  *)
(* the arrays and events of tcp_proxy_server, the pools of packet buffers, *)
(* the static filters of the driver, the table of handles and the direct   *)
(* rules, for any numbers of clients, buffers, servers, adapters and rules,*)
(* and about the checksums of the packets that are sent on.                *)
(***************************************************************************)
EXTENDS TcpProxyServer, PacketPool, StaticFilters, HandleTable, DirectRules,
        Checksum, TcpConnections_proofs, SequenceTheorems

LOCAL INSTANCE FiniteSetsExt
LOCAL INSTANCE SequencesExt

------------------------------------------------------------------------------
\* TcpProxyServer: the clients and their events.

\* The sequences hold clients, and the client at hand is one.
ArraysHoldClients ==
  /\ slots \in Seq(Peer) /\ snapshot \in Seq(Peer)
  /\ acceptor \in {"accepted", "listed"} => handled \in Peer

\* The index that woke the thread is one of its copy.
HitIsCopied == connector = "woken" => hit \in 0 .. Len(snapshot)

\* Behind stop(), and before start(), there is no connect thread.
StoppedIsOff == endServer /\ stopper = "idle" => connector = "off"

ServerInv == ArraysHoldClients /\ HitIsCopied /\ StoppedIsOff /\ SnapshotIsCurrent

-----------------------------------------------------------------------------
(* Prefixes *)

LEMMA PrefixGrows ==
  ASSUME NEW S, NEW s \in Seq(S), NEW t \in Seq(S), NEW e \in S, IsPrefix(s, t)
  PROVE  IsPrefix(s, Append(t, e))
<1>1. Len(s) <= Len(Append(t, e))
  BY DEF IsPrefix
<1>2. SubSeq(s, 1, Len(s)) = SubSeq(Append(t, e), 1, Len(s))
  BY DEF IsPrefix
<1>3. QED BY <1>1, <1>2 DEF IsPrefix

LEMMA RemovedIsSeq ==
  ASSUME NEW S, NEW s \in Seq(S), NEW i \in 1 .. Len(s)
  PROVE  RemoveAt(s, i) \in Seq(S)
BY DEF RemoveAt

LEMMA PrefixOfItself ==
  ASSUME NEW S, NEW s \in Seq(S)
  PROVE  IsPrefix(s, s)
BY DEF IsPrefix

-----------------------------------------------------------------------------
(* Each step keeps the invariant *)

LEMMA ServerInvInit == ServerInit => ServerInv
<1> SUFFICES ASSUME ServerInit PROVE ServerInv
  OBVIOUS
<1>1. ArraysHoldClients /\ HitIsCopied /\ StoppedIsOff
  BY EmptySeq DEF ServerInit, ArraysHoldClients, HitIsCopied, StoppedIsOff
<1>2. SnapshotIsCurrent
  BY DEF ServerInit, SnapshotIsCurrent, IndexNamesItsClient, NoWakeUpLost
<1>3. QED BY <1>1, <1>2 DEF ServerInv

\* Steps that leave the arrays, the event at index 0 and the thread alone.
LEMMA Apart ==
  ASSUME ServerInv,
         UNCHANGED <<slots, snapshot, wake, hit, connector, endServer, stopper>>,
         acceptor' \in {"accepted", "listed"} =>
           handled' \in Peer \/ (handled' = handled /\ acceptor \in {"accepted", "listed"})
  PROVE  ServerInv'
BY DEF ServerInv, ArraysHoldClients, HitIsCopied, StoppedIsOff, SnapshotIsCurrent,
       IndexNamesItsClient, NoWakeUpLost

\* The accept thread appends behind what the connect thread has copied, and
\* sets the event in the same critical section.
LEMMA ListKeeps == ASSUME ServerInv, List PROVE ServerInv'
<1>1. /\ slots \in Seq(Peer) /\ snapshot \in Seq(Peer) /\ handled \in Peer
      /\ slots' = Append(slots, handled) /\ wake' = TRUE
      /\ UNCHANGED <<snapshot, connector, hit, handled, endServer, stopper>>
  BY DEF ServerInv, ArraysHoldClients, List
<1>2. connector' \in {"waiting", "woken"} => IsPrefix(snapshot, slots')
  BY <1>1, PrefixGrows DEF ServerInv, SnapshotIsCurrent, IndexNamesItsClient
<1>3. ArraysHoldClients' /\ HitIsCopied' /\ StoppedIsOff'
  BY <1>1 DEF ServerInv, ArraysHoldClients, HitIsCopied, StoppedIsOff
<1>4. SnapshotIsCurrent'
  BY <1>1, <1>2 DEF SnapshotIsCurrent, IndexNamesItsClient, NoWakeUpLost
<1>5. QED BY <1>3, <1>4 DEF ServerInv

LEMMA CopyKeeps == ASSUME ServerInv, CopyEvents PROVE ServerInv'
<1>1. /\ slots \in Seq(Peer) /\ snapshot' = slots /\ connector' = "waiting" /\ ~endServer
      /\ UNCHANGED <<slots, hit, handled, acceptor, endServer, wake, stopper>>
  BY DEF ServerInv, ArraysHoldClients, CopyEvents
<1>2. IsPrefix(slots, slots)
  BY <1>1, PrefixOfItself
<1>3. ArraysHoldClients' /\ HitIsCopied' /\ StoppedIsOff'
  BY <1>1 DEF ServerInv, ArraysHoldClients, HitIsCopied, StoppedIsOff
<1>4. SnapshotIsCurrent'
  BY <1>1, <1>2 DEF SnapshotIsCurrent, IndexNamesItsClient, NoWakeUpLost
<1>5. QED BY <1>3, <1>4 DEF ServerInv

LEMMA WakeKeeps == ASSUME ServerInv, WaitReturns PROVE ServerInv'
<1>1. /\ connector = "waiting" /\ connector' = "woken" /\ snapshot \in Seq(Peer)
      /\ UNCHANGED <<slots, snapshot, handled, acceptor, endServer, wake, stopper>>
  BY DEF ServerInv, ArraysHoldClients, WaitReturns
<1>2. hit' \in 0 .. Len(snapshot)
  BY <1>1, LenProperties DEF WaitReturns, Signalled
<1>3. ArraysHoldClients' /\ HitIsCopied' /\ StoppedIsOff'
  BY <1>1, <1>2 DEF ServerInv, ArraysHoldClients, HitIsCopied, StoppedIsOff
<1>4. SnapshotIsCurrent'
  BY <1>1 DEF ServerInv, SnapshotIsCurrent, IndexNamesItsClient, NoWakeUpLost
<1>5. QED BY <1>3, <1>4 DEF ServerInv

\* The index is in the array still, as the copy is a prefix of it.
LEMMA SessionKeeps == ASSUME ServerInv, StartSession PROVE ServerInv'
<1>1. /\ slots \in Seq(Peer) /\ snapshot \in Seq(Peer) /\ connector = "woken"
      /\ hit # 0 /\ hit \in 0 .. Len(snapshot) /\ IsPrefix(snapshot, slots)
      /\ slots' = RemoveAt(slots, hit) /\ connector' = "looping"
      /\ ~endServer /\ UNCHANGED <<snapshot, handled, acceptor, endServer>>
  BY DEF ServerInv, ArraysHoldClients, HitIsCopied, SnapshotIsCurrent,
         IndexNamesItsClient, StartSession
<1>2. hit \in 1 .. Len(slots)
  BY <1>1, LenProperties DEF IsPrefix
<1>3. slots' \in Seq(Peer)
  BY <1>1, <1>2, RemovedIsSeq
<1>4. QED
  BY <1>1, <1>3
  DEF ServerInv, ArraysHoldClients, HitIsCopied, StoppedIsOff, SnapshotIsCurrent,
      IndexNamesItsClient, NoWakeUpLost

\* Steps of stop() and start() and the ends of the connect thread's loop: the
\* thread waits only between the flag and the event that stop() sets.
LEMMA StopKeeps ==
  ASSUME ServerInv,
         \/ ServerStart \/ StartFails \/ ResetWake \/ ConnectorEnds
         \/ StopListening \/ SignalStop \/ StopReturns
  PROVE  ServerInv'
<1> USE DEF ServerStart, StartFails, ResetWake, ConnectorEnds, StopListening, SignalStop,
            StopReturns
<1>1. slots' \in Seq(Peer) /\ snapshot' = snapshot
  BY EmptySeq DEF ServerInv, ArraysHoldClients
<1>2. acceptor' \in {"accepted", "listed"} => acceptor' = acceptor /\ handled' = handled
  OBVIOUS
<1>3. StoppedIsOff'
  BY DEF ServerInv, StoppedIsOff
<1>4. connector' \in {"waiting", "woken"} =>
        /\ connector' = connector /\ hit' = hit /\ slots' = slots
        /\ \/ wake'
           \/ endServer' = endServer /\ wake' = wake /\ stopper' = stopper
           \/ stopper' = "ended" /\ wake' = wake
  BY DEF ServerInv, StoppedIsOff
<1>5. ArraysHoldClients' /\ HitIsCopied'
  BY <1>1, <1>2, <1>4 DEF ServerInv, ArraysHoldClients, HitIsCopied
<1>6. SnapshotIsCurrent'
  BY <1>1, <1>4 DEF ServerInv, SnapshotIsCurrent, IndexNamesItsClient, NoWakeUpLost
<1>7. QED BY <1>3, <1>5, <1>6 DEF ServerInv

LEMMA ServerStep == ServerInv /\ [ServerNext]_serverVars => ServerInv'
<1> SUFFICES ASSUME ServerInv, [ServerNext]_serverVars PROVE ServerInv'
  OBVIOUS
<1>1. CASE UNCHANGED serverVars
  BY <1>1, Apart DEF serverVars
<1>2. CASE AcceptEnds \/ Reject \/ ConnectPending \/ ConnectFails
  BY <1>2, Apart DEF AcceptEnds, Reject, ConnectPending, ConnectFails
<1>3. ASSUME NEW c \in Peer, AcceptClient(c) \/ ConnectSettles(c) \/ SessionCloses(c)
      PROVE  ServerInv'
  BY <1>3, Apart DEF AcceptClient, ConnectSettles, SessionCloses
<1>4. CASE ClearSessions \/ CleanerEnds
  BY <1>4, Apart DEF ClearSessions, CleanerEnds
<1>5. QED
  BY <1>1, <1>2, <1>3, <1>4, ListKeeps, CopyKeeps, WakeKeeps, SessionKeeps, StopKeeps
  DEF ServerNext

-----------------------------------------------------------------------------
(* Theorems *)

\* tcp_proxy_server::connect_to_remote_host_thread: the copy of the events on
\* which the thread sleeps names, index by index, the clients of the array that
\* the accept thread goes on to fill, and it sleeps through neither a client
\* that was listed since nor stop(); for any number of clients.
THEOREM ConnectThreadMissesNobody == ServerSpec => []SnapshotIsCurrent
<1>1. ServerInv => SnapshotIsCurrent
  BY DEF ServerInv
<1>2. QED BY <1>1, ServerInvInit, ServerStep, PTL DEF ServerSpec

-----------------------------------------------------------------------------
(* Types of the server *)

\* Steps that make no step of another thread's sequences.
LEMMA ServerTypesKeep ==
  ASSUME ServerInv, ServerInv', ServerTypeOK, ServerNext
  PROVE  ServerTypeOK'
<1>1. slots' \in Seq(Peer) /\ snapshot' \in Seq(Peer)
  BY DEF ServerInv, ArraysHoldClients
<1>2. hit' \in Nat
  <2>1. CASE WaitReturns
    <3>1. connector' = "woken" /\ snapshot' \in Seq(Peer) /\ hit' \in 0 .. Len(snapshot')
      BY <1>1, <2>1 DEF ServerInv, HitIsCopied, WaitReturns
    <3>2. QED BY <3>1
  <2>2. CASE ~WaitReturns
    BY <2>2
    DEF ServerTypeOK, ServerNext, ServerStart, StartFails, AcceptEnds, Reject, List,
        ConnectPending, ConnectFails, AcceptClient, ConnectSettles, SessionCloses, CopyEvents, ResetWake,
        StartSession, ConnectorEnds, ClearSessions, CleanerEnds, StopListening, SignalStop,
        StopReturns
  <2>3. QED BY <2>1, <2>2
<1>3. /\ accepted \in [Peer -> Socket] /\ remote \in [Peer -> Socket]
      /\ "open" \in Socket /\ "closed" \in Socket
      /\ handled \in Peer \cup {NoClient} /\ connected \subseteq Peer /\ sessions \subseteq Peer
      /\ runs \in Nat /\ endServer \in BOOLEAN /\ listening \in BOOLEAN /\ wake \in BOOLEAN
      /\ cleaner \in BOOLEAN
  BY DEF ServerTypeOK, Socket
<1>4. accepted' \in [Peer -> Socket] /\ remote' \in [Peer -> Socket]
  BY <1>3
  DEF ServerNext, ServerStart, StartFails, AcceptEnds, Reject, List, ConnectPending,
        ConnectFails,
      AcceptClient, ConnectSettles, SessionCloses, CopyEvents, WaitReturns, ResetWake,
      StartSession, ConnectorEnds, ClearSessions, CleanerEnds, StopListening, SignalStop,
      StopReturns
<1>5. sessions' \subseteq Peer
  <2>1. CASE StartSession
    <3>1. hit \in 1 .. Len(slots) /\ slots \in Seq(Peer)
      BY <2>1, LenProperties
      DEF StartSession, ServerInv, HitIsCopied, SnapshotIsCurrent, IndexNamesItsClient,
          IsPrefix, ArraysHoldClients
    <3>2. slots[hit] \in Peer
      BY <3>1
    <3>3. QED BY <1>3, <2>1, <3>2 DEF StartSession
  <2>2. CASE ~StartSession
    BY <1>3, <2>2
    DEF ServerNext, ServerStart, StartFails, AcceptEnds, Reject, List, ConnectPending,
        ConnectFails,
        AcceptClient, ConnectSettles, SessionCloses, CopyEvents, WaitReturns, ResetWake,
        ConnectorEnds, ClearSessions, CleanerEnds, StopListening, SignalStop, StopReturns
  <2>3. QED BY <2>1, <2>2
<1>6. /\ connected' \subseteq Peer /\ handled' \in Peer \cup {NoClient}
      /\ runs' \in Nat /\ endServer' \in BOOLEAN /\ listening' \in BOOLEAN
      /\ wake' \in BOOLEAN /\ cleaner' \in BOOLEAN
  <2>1. connected' \subseteq Peer
    BY <1>3
    DEF ServerNext, ServerStart, StartFails, AcceptEnds, Reject, List, ConnectPending,
        ConnectFails,
        AcceptClient, ConnectSettles, SessionCloses, CopyEvents, WaitReturns, ResetWake,
        StartSession, ConnectorEnds, ClearSessions, CleanerEnds, StopListening, SignalStop,
        StopReturns
  <2>2. handled' \in Peer \cup {NoClient} /\ runs' \in Nat
    BY <1>3
    DEF ServerNext, ServerStart, StartFails, AcceptEnds, Reject, List, ConnectPending,
        ConnectFails,
        AcceptClient, ConnectSettles, SessionCloses, CopyEvents, WaitReturns, ResetWake,
        StartSession, ConnectorEnds, ClearSessions, CleanerEnds, StopListening, SignalStop,
        StopReturns
  <2>3. /\ endServer' \in BOOLEAN /\ listening' \in BOOLEAN
        /\ wake' \in BOOLEAN /\ cleaner' \in BOOLEAN
    BY <1>3
    DEF ServerNext, ServerStart, StartFails, AcceptEnds, Reject, List, ConnectPending,
        ConnectFails,
        AcceptClient, ConnectSettles, SessionCloses, CopyEvents, WaitReturns, ResetWake,
        StartSession, ConnectorEnds, ClearSessions, CleanerEnds, StopListening, SignalStop,
        StopReturns
  <2>4. QED BY <2>1, <2>2, <2>3
<1>7. /\ acceptor' \in {"off", "accepting", "accepted", "listed", "exited"}
      /\ connector' \in {"off", "looping", "waiting", "woken", "exited"}
      /\ stopper' \in {"idle", "ended", "signalled"}
  BY DEF ServerTypeOK, ServerNext, ServerStart, StartFails, AcceptEnds, Reject, List,
         ConnectPending, ConnectFails, AcceptClient, ConnectSettles, SessionCloses, CopyEvents, WaitReturns,
         ResetWake, StartSession, ConnectorEnds, ClearSessions, CleanerEnds, StopListening,
         SignalStop, StopReturns
<1>8. QED BY <1>1, <1>2, <1>4, <1>5, <1>6, <1>7 DEF ServerTypeOK

\* The types of the server: who is in the arrays or has a session is a client,
\* and the index that woke the connect thread is a number.
THEOREM ServerTypes == ServerSpec => []ServerTypeOK
<1>1. ASSUME ServerInit PROVE ServerTypeOK
  <2>1. /\ slots \in Seq(Peer) /\ snapshot \in Seq(Peer)
        /\ hit \in Nat /\ runs \in Nat
    BY <1>1, EmptySeq DEF ServerInit
  <2>2. accepted \in [Peer -> Socket] /\ remote \in [Peer -> Socket]
    BY <1>1 DEF ServerInit, Socket
  <2>3. QED BY <1>1, <2>1, <2>2 DEF ServerInit, ServerTypeOK
<1>2. ServerInv /\ ServerTypeOK /\ [ServerNext]_serverVars => (ServerInv /\ ServerTypeOK)'
  <2> SUFFICES ASSUME ServerInv, ServerTypeOK, [ServerNext]_serverVars
               PROVE  ServerInv' /\ ServerTypeOK'
    OBVIOUS
  <2>1. ServerInv'
    BY ServerStep
  <2>2. CASE UNCHANGED serverVars
    BY <2>1, <2>2 DEF serverVars, ServerTypeOK
  <2>3. QED BY <2>1, <2>2, ServerTypesKeep
<1>3. QED BY <1>1, <1>2, ServerInvInit, PTL DEF ServerSpec

------------------------------------------------------------------------------
\* PacketPool: the packets on the stacks.

\* The packets on stacks st are of their classes, in use by nobody and there
\* once, and no stack is above the limit.
Stacked(st) ==
  /\ st \in [PacketClass -> Seq(Buffer)]
  /\ \A c \in PacketClass :
       /\ Len(st[c]) <= PoolLimit
       /\ \A i \in 1 .. Len(st[c]) :
            /\ madeAs[st[c][i]] = c
            /\ sending[st[c][i]] = 0 /\ st[c][i] \notin forsaken
            /\ \A j \in 1 .. Len(st[c]) : st[c][i] = st[c][j] => i = j

\* A packet that is sent or forgotten exists, and is not both.
UsersHavePackets ==
  \A p \in Buffer : /\ sending[p] # 0 => madeAs[p] # 0 /\ p \notin forsaken
                    /\ p \in forsaken => madeAs[p] # 0

PoolInv == PoolTypeOK /\ Stacked(spare) /\ UsersHavePackets /\ CarriesItsDatagram

\* p is on none of the stacks.
Off(p, st) == \A c \in PacketClass : \A i \in 1 .. Len(st[c]) : st[c][i] # p

LEMMA SpareIsStacked == PoolTypeOK => (SpareOnce <=> Stacked(spare))
<1> SUFFICES ASSUME PoolTypeOK PROVE SpareOnce <=> Stacked(spare)
  OBVIOUS
<1>1. spare \in [PacketClass -> Seq(Buffer)]
  BY DEF PoolTypeOK
<1>2. \A c \in PacketClass : DOMAIN spare[c] = 1 .. Len(spare[c])
  BY <1>1
<1>3. QED BY <1>1, <1>2 DEF SpareOnce, Stacked

\* The class of a datagram that fits any is one it fits.
LEMMA ClassFits ==
  ASSUME NEW size, Fitting(size) # {}
  PROVE  ClassOf(size) \in PacketClass /\ size <= Capacity[ClassOf(size)] /\ ClassOf(size) # 0
<1>1. PacketClass \subseteq Nat \ {0}
  BY PoolAssumption DEF PacketClass
<1>2. Fitting(size) \in SUBSET Nat
  BY <1>1 DEF Fitting
<1>3. \E x \in Fitting(size) : \A y \in Fitting(size) : x <= y
  BY <1>2, LeastOf
<1>4. ClassOf(size) \in Fitting(size)
  BY <1>3 DEF ClassOf, Min
<1>5. QED BY <1>1, <1>4 DEF Fitting

\* What is taken is in use by nobody and on no stack any more.
LEMMA TakenIsFree ==
  ASSUME PoolInv, NEW p \in Buffer, NEW size, Allocates(p, size)
  PROVE  /\ Stacked(Taken(ClassOf(size))) /\ Off(p, Taken(ClassOf(size)))
         /\ sending[p] = 0 /\ p \notin forsaken
<1>1. PICK c : c = ClassOf(size)
  OBVIOUS
<1>2. c \in PacketClass /\ c # 0 /\ Takes(p, c)
  BY <1>1, ClassFits DEF Allocates
<1>3. Stacked(spare) /\ spare \in [PacketClass -> Seq(Buffer)] /\ spare[c] \in Seq(Buffer)
  BY <1>2 DEF PoolInv, Stacked
<1>4. CASE spare[c] = <<>>
  <2>1. Taken(c) = spare /\ madeAs[p] = 0
    BY <1>2, <1>4 DEF Taken, Takes
  <2>2. \A k \in PacketClass : k # 0
    BY PoolAssumption DEF PacketClass
  <2>3. Off(p, spare)
    BY <1>3, <2>1, <2>2 DEF Stacked, Off
  <2>4. QED BY <1>1, <1>3, <2>1, <2>3 DEF PoolInv, UsersHavePackets
<1>5. CASE spare[c] # <<>>
  <2>1. PICK s, n, f : s = spare[c] /\ n = Len(s) /\ f = Front(s)
    OBVIOUS
  <2>2. s \in Seq(Buffer) /\ s # <<>> /\ n \in Nat /\ n >= 1
    BY <1>3, <1>5, <2>1
  <2>3. f = SubSeq(s, 1, n - 1) /\ p = s[n]
    BY <1>2, <1>5, <2>1 DEF Front, Last, Takes
  <2>4. f \in Seq(Buffer) /\ Len(f) = n - 1 /\ \A i \in 1 .. n - 1 : f[i] = s[i]
    <3>1. n = Len(s)
      BY <2>1
    <3>2. QED BY ONLY <2>2, <2>3, <3>1
  <2>5. PICK st : st = Taken(c)
    OBVIOUS
  <2>6. st = [spare EXCEPT ![c] = f]
    BY <1>5, <2>1, <2>5 DEF Taken
  <2>7. /\ st \in [PacketClass -> Seq(Buffer)] /\ st[c] = f
        /\ \A k \in PacketClass : k # c => st[k] = spare[k]
    BY <1>2, <1>3, <2>4, <2>6
  <2>8. /\ \A i \in 1 .. n : madeAs[s[i]] = c /\ \A j \in 1 .. n : s[i] = s[j] => i = j
        /\ sending[s[n]] = 0 /\ s[n] \notin forsaken /\ n <= PoolLimit
    BY <1>2, <1>3, <2>1, <2>2 DEF Stacked
  <2>9. /\ \A i \in 1 .. n - 1 : i \in 1 .. n /\ i # n
        /\ n - 1 <= PoolLimit
    BY <2>2, <2>8, PoolAssumption
  <2>10. Off(p, st)
    <3> SUFFICES ASSUME NEW k \in PacketClass, NEW i \in 1 .. Len(st[k]) PROVE st[k][i] # p
      BY DEF Off
    <3>1. CASE k = c
      BY <2>2, <2>3, <2>4, <2>7, <2>8, <2>9, <3>1
    <3>2. CASE k # c
      <4>1. madeAs[st[k][i]] = k /\ madeAs[p] = c
        <5>1. st[k] = spare[k]
          BY <2>7, <3>2
        <5>2. madeAs[st[k][i]] = k
          BY <1>3, <5>1 DEF Stacked
        <5>3. n \in 1 .. n
          BY <2>2
        <5>4. QED BY <5>2, <5>3, <2>3, <2>8
      <4>2. QED BY <3>2, <4>1
    <3>3. QED BY <3>1, <3>2
  <2>11. Stacked(st)
    <3> SUFFICES ASSUME NEW k \in PacketClass
                 PROVE /\ Len(st[k]) <= PoolLimit
                       /\ \A i \in 1 .. Len(st[k]) :
                            /\ madeAs[st[k][i]] = k
                            /\ sending[st[k][i]] = 0 /\ st[k][i] \notin forsaken
                            /\ \A j \in 1 .. Len(st[k]) : st[k][i] = st[k][j] => i = j
      BY <2>7 DEF Stacked
    <3>1. CASE k = c
      <4>1. Len(st[k]) = n - 1 /\ \A i \in 1 .. n - 1 : st[k][i] = s[i]
        BY <2>4, <2>7, <3>1
      <4>2. \A i \in 1 .. n : sending[s[i]] = 0 /\ s[i] \notin forsaken
        BY <1>2, <1>3, <2>1 DEF Stacked
      <4>3. QED BY <2>8, <2>9, <3>1, <4>1, <4>2
    <3>2. CASE k # c
      BY <1>3, <2>7, <3>2 DEF Stacked
    <3>3. QED BY <3>1, <3>2
  <2>12. QED BY <1>1, <2>3, <2>5, <2>8, <2>10, <2>11
<1>6. QED BY <1>4, <1>5

\* A packet that is used by nobody goes back to the stack of its class, or away.
LEMMA ReturnedIsStacked ==
  ASSUME PoolTypeOK, NEW st, NEW p \in Buffer, NEW c \in PacketClass,
         Stacked(st), Off(p, st), Returned(p, c, st),
         sending'[p] = 0, p \notin forsaken',
         \A q \in Buffer : q # p => sending'[q] = sending[q] /\ (q \in forsaken' <=> q \in forsaken)
  PROVE  Stacked(spare)' /\ madeAs' \in [Buffer -> PacketClass \cup {0}]
<1>1. /\ st \in [PacketClass -> Seq(Buffer)] /\ st[c] \in Seq(Buffer)
      /\ madeAs \in [Buffer -> PacketClass \cup {0}]
      /\ PoolLimit \in Nat
  BY PoolAssumption DEF Stacked, PoolTypeOK
<1>2. \A k \in PacketClass : \A i \in 1 .. Len(st[k]) : st[k][i] \in Buffer /\ st[k][i] # p
  BY <1>1 DEF Off
<1>3. CASE Len(st[c]) < PoolLimit
  <2>1. PICK s, n : s = st[c] /\ n = Len(s)
    OBVIOUS
  <2>2. PICK t : t = Append(s, p)
    OBVIOUS
  <2>3. s \in Seq(Buffer) /\ n \in Nat /\ n < PoolLimit
    BY <1>1, <1>3, <2>1
  <2>4. /\ t \in Seq(Buffer) /\ Len(t) = n + 1 /\ t[n + 1] = p
        /\ \A i \in 1 .. n : t[i] = s[i]
    <3>1. n = Len(s)
      BY <2>1
    <3>2. QED BY ONLY <2>2, <2>3, <3>1, p \in Buffer
  <2>5. spare' = [st EXCEPT ![c] = t] /\ madeAs' = [madeAs EXCEPT ![p] = c]
    BY <1>3, <2>1, <2>2 DEF Returned
  <2>6. /\ spare' \in [PacketClass -> Seq(Buffer)] /\ spare'[c] = t
        /\ \A k \in PacketClass : k # c => spare'[k] = st[k]
    BY <1>1, <2>4, <2>5
  <2>7. /\ madeAs' \in [Buffer -> PacketClass \cup {0}] /\ madeAs'[p] = c
        /\ \A q \in Buffer : q # p => madeAs'[q] = madeAs[q]
    BY <1>1, <2>5
  <2>8. ASSUME NEW k \in PacketClass
        PROVE  /\ Len(spare'[k]) <= PoolLimit
               /\ \A i \in 1 .. Len(spare'[k]) :
                    /\ madeAs'[spare'[k][i]] = k
                    /\ sending'[spare'[k][i]] = 0 /\ spare'[k][i] \notin forsaken'
                    /\ \A j \in 1 .. Len(spare'[k]) : spare'[k][i] = spare'[k][j] => i = j
    <3>1. CASE k # c
      BY <1>2, <2>6, <2>7, <3>1 DEF Stacked
    <3>2. CASE k = c
      <4>1. spare'[k] = t /\ Len(t) <= PoolLimit
        BY <1>1, <2>3, <2>4, <2>6, <3>2
      <4>2. \A i \in 1 .. n : /\ s[i] \in Buffer /\ s[i] # p /\ madeAs[s[i]] = c
                              /\ sending[s[i]] = 0 /\ s[i] \notin forsaken
                              /\ \A j \in 1 .. n : s[i] = s[j] => i = j
        BY <1>2, <2>1 DEF Stacked
      <4>3. \A i \in 1 .. n + 1 : i = n + 1 \/ i \in 1 .. n
        BY <2>3
      <4>4. \A i \in 1 .. n + 1 : madeAs'[t[i]] = c /\ sending'[t[i]] = 0 /\ t[i] \notin forsaken'
        BY <2>4, <2>7, <4>2, <4>3
      <4>5. \A i, j \in 1 .. n + 1 : t[i] = t[j] => i = j
        BY <2>4, <4>2, <4>3
      <4>6. QED BY <2>4, <3>2, <4>1, <4>4, <4>5
    <3>3. QED BY <3>1, <3>2
  <2>9. QED BY <2>6, <2>7, <2>8 DEF Stacked
<1>4. CASE ~(Len(st[c]) < PoolLimit)
  <2>1. spare' = st /\ madeAs' = [madeAs EXCEPT ![p] = 0]
    BY <1>4 DEF Returned
  <2>2. /\ madeAs' \in [Buffer -> PacketClass \cup {0}]
        /\ \A q \in Buffer : q # p => madeAs'[q] = madeAs[q]
    BY <1>1, <2>1
  <2>3. ASSUME NEW k \in PacketClass
        PROVE  /\ Len(st[k]) <= PoolLimit
               /\ \A i \in 1 .. Len(st[k]) :
                    /\ madeAs'[st[k][i]] = k
                    /\ sending'[st[k][i]] = 0 /\ st[k][i] \notin forsaken'
                    /\ \A j \in 1 .. Len(st[k]) : st[k][i] = st[k][j] => i = j
    BY <1>2, <2>2 DEF Stacked
  <2>4. QED BY <1>1, <2>1, <2>2, <2>3 DEF Stacked
<1>5. QED BY <1>3, <1>4

LEMMA SendKeeps ==
  ASSUME PoolInv, NEW p \in Buffer, NEW size \in DatagramSize, SendDatagram(p, size)
  PROVE  PoolInv'
<1>1. PICK c : c = ClassOf(size)
  OBVIOUS
<1>2. c \in PacketClass /\ size <= Capacity[c] /\ c # 0 /\ size \in Nat /\ size # 0
  BY <1>1, ClassFits, PoolAssumption DEF SendDatagram, Allocates
<1>3. PICK st : st = Taken(c)
  OBVIOUS
<1>4. Stacked(st) /\ Off(p, st) /\ sending[p] = 0 /\ p \notin forsaken
  BY <1>1, <1>3, TakenIsFree DEF SendDatagram
<1>5. /\ spare' = st /\ madeAs' = [madeAs EXCEPT ![p] = c] /\ len' = [len EXCEPT ![p] = size]
      /\ \/ sending' = [sending EXCEPT ![p] = size] /\ UNCHANGED forsaken
         \/ forsaken' = forsaken \cup {p} /\ UNCHANGED sending
  BY <1>1, <1>3 DEF SendDatagram, Filled
<1>6. /\ st \in [PacketClass -> Seq(Buffer)]
      /\ \A k \in PacketClass : \A i \in 1 .. Len(st[k]) : st[k][i] \in Buffer /\ st[k][i] # p
  BY <1>4 DEF Stacked, Off
<1>7. PoolTypeOK'
  <2>1. madeAs' \in [Buffer -> PacketClass \cup {0}] /\ len' \in [Buffer -> Nat]
    BY <1>2, <1>5 DEF PoolInv, PoolTypeOK
  <2>2. sending' \in [Buffer -> DatagramSize \cup {0}] /\ forsaken' \subseteq Buffer
    BY <1>5 DEF PoolInv, PoolTypeOK
  <2>3. QED BY <1>5, <1>6, <2>1, <2>2 DEF PoolTypeOK
<1>8. \A q \in Buffer : q # p => /\ madeAs'[q] = madeAs[q] /\ sending'[q] = sending[q]
                                 /\ len'[q] = len[q] /\ (q \in forsaken' <=> q \in forsaken)
  BY <1>5 DEF PoolInv, PoolTypeOK
<1>9. Stacked(spare)'
  <2>1. ASSUME NEW k \in PacketClass
        PROVE  /\ Len(st[k]) <= PoolLimit
               /\ \A i \in 1 .. Len(st[k]) :
                    /\ madeAs'[st[k][i]] = k
                    /\ sending'[st[k][i]] = 0 /\ st[k][i] \notin forsaken'
                    /\ \A j \in 1 .. Len(st[k]) : st[k][i] = st[k][j] => i = j
    BY <1>4, <1>6, <1>8 DEF Stacked
  <2>2. spare' = st
    BY <1>5
  <2>3. QED BY <1>6, <2>1, <2>2 DEF Stacked
<1>10. /\ madeAs'[p] = c /\ len'[p] = size
       /\ \/ sending'[p] = size /\ p \notin forsaken'
          \/ sending'[p] = 0
  BY <1>4, <1>5 DEF PoolInv, PoolTypeOK
<1>11. UsersHavePackets' /\ CarriesItsDatagram'
  BY <1>2, <1>8, <1>10 DEF PoolInv, UsersHavePackets, CarriesItsDatagram
<1>12. QED BY <1>7, <1>9, <1>11 DEF PoolInv

LEMMA NoContextKeeps ==
  ASSUME PoolInv, NEW p \in Buffer, NEW size \in DatagramSize, NoContext(p, size)
  PROVE  PoolInv'
<1>1. PICK c : c = ClassOf(size)
  OBVIOUS
<1>2. c \in PacketClass /\ size \in Nat
  BY <1>1, ClassFits, PoolAssumption DEF NoContext, Allocates
<1>3. PICK st : st = Taken(c)
  OBVIOUS
<1>4. Stacked(st) /\ Off(p, st) /\ sending[p] = 0 /\ p \notin forsaken
  BY <1>1, <1>3, TakenIsFree DEF NoContext
<1>5. /\ Returned(p, c, st) /\ len' = [len EXCEPT ![p] = size]
      /\ UNCHANGED <<sending, forsaken>>
  BY <1>1, <1>3 DEF NoContext, Filled
<1>6. Stacked(spare)' /\ madeAs' \in [Buffer -> PacketClass \cup {0}]
  BY <1>2, <1>4, <1>5, ReturnedIsStacked DEF PoolInv
<1>7. PoolTypeOK'
  BY <1>2, <1>5, <1>6 DEF PoolInv, PoolTypeOK, Stacked
<1>8. \A q \in Buffer : q # p => madeAs'[q] = madeAs[q] /\ len'[q] = len[q]
  BY <1>5 DEF Returned, PoolInv, PoolTypeOK
<1>9. UsersHavePackets' /\ CarriesItsDatagram'
  BY <1>4, <1>5, <1>8 DEF PoolInv, UsersHavePackets, CarriesItsDatagram
<1>10. QED BY <1>6, <1>7, <1>9 DEF PoolInv

LEMMA DoneKeeps == ASSUME PoolInv, NEW p \in Buffer, SendDone(p) PROVE PoolInv'
<1>1. PICK c : c = madeAs[p]
  OBVIOUS
<1>2. c \in PacketClass /\ sending[p] # 0 /\ p \notin forsaken
  BY <1>1 DEF SendDone, PoolInv, PoolTypeOK, UsersHavePackets
<1>3. /\ Returned(p, c, spare) /\ sending' = [sending EXCEPT ![p] = 0]
      /\ UNCHANGED <<len, forsaken>>
  BY <1>1 DEF SendDone
<1>4. Stacked(spare) /\ Off(p, spare)
  BY <1>2 DEF PoolInv, Stacked, Off
<1>5. /\ sending'[p] = 0
      /\ \A q \in Buffer : q # p => sending'[q] = sending[q]
  BY <1>3 DEF PoolInv, PoolTypeOK
<1>6. Stacked(spare)' /\ madeAs' \in [Buffer -> PacketClass \cup {0}]
  BY <1>2, <1>3, <1>4, <1>5, ReturnedIsStacked DEF PoolInv
<1>7. PoolTypeOK'
  BY <1>3, <1>6 DEF PoolInv, PoolTypeOK, Stacked
<1>8. \A q \in Buffer : q # p => madeAs'[q] = madeAs[q]
  BY <1>3 DEF Returned, PoolInv, PoolTypeOK
<1>9. UsersHavePackets' /\ CarriesItsDatagram'
  BY <1>2, <1>3, <1>5, <1>8 DEF PoolInv, UsersHavePackets, CarriesItsDatagram
<1>10. QED BY <1>6, <1>7, <1>9 DEF PoolInv

LEMMA FailedKeeps == ASSUME PoolInv, NEW p \in Buffer, SendFailed(p) PROVE PoolInv'
<1>1. /\ sending[p] # 0 /\ madeAs[p] # 0 /\ sending' = [sending EXCEPT ![p] = 0]
      /\ forsaken' = forsaken \cup {p} /\ UNCHANGED <<madeAs, len, spare>>
  BY DEF SendFailed, PoolInv, UsersHavePackets
<1>2. Off(p, spare)
  BY <1>1 DEF PoolInv, Stacked, Off
<1>3. PoolTypeOK'
  BY <1>1 DEF PoolInv, PoolTypeOK
<1>4. /\ sending'[p] = 0
      /\ \A q \in Buffer : q # p => sending'[q] = sending[q] /\ (q \in forsaken' <=> q \in forsaken)
  BY <1>1 DEF PoolInv, PoolTypeOK
<1>5. \A k \in PacketClass : \A i \in 1 .. Len(spare[k]) : spare[k][i] \in Buffer /\ spare[k][i] # p
  BY <1>2 DEF Off, PoolInv, PoolTypeOK
<1>6. Stacked(spare)'
  BY <1>1, <1>4, <1>5 DEF PoolInv, Stacked
<1>7. UsersHavePackets' /\ CarriesItsDatagram'
  BY <1>1, <1>4 DEF PoolInv, UsersHavePackets, CarriesItsDatagram
<1>8. QED BY <1>3, <1>6, <1>7 DEF PoolInv

LEMMA PoolInitially == PoolInit => PoolInv
<1> SUFFICES ASSUME PoolInit PROVE PoolInv
  OBVIOUS
<1>1. <<>> \in Seq(Buffer) /\ Len(<<>>) = 0
  OBVIOUS
<1>2. PoolTypeOK
  BY <1>1 DEF PoolInit, PoolTypeOK
<1>3. Stacked(spare)
  BY <1>1, PoolAssumption DEF PoolInit, Stacked
<1>4. QED BY <1>2, <1>3 DEF PoolInit, PoolInv, UsersHavePackets, CarriesItsDatagram

LEMMA PoolStepKeeps == PoolInv /\ [PoolNext]_poolVars => PoolInv'
<1> SUFFICES ASSUME PoolInv, [PoolNext]_poolVars PROVE PoolInv'
  OBVIOUS
<1>1. CASE PoolNext
  BY <1>1, SendKeeps, NoContextKeeps, DoneKeeps, FailedKeeps DEF PoolNext
<1>2. CASE UNCHANGED poolVars
  BY <1>2 DEF poolVars, PoolInv, PoolTypeOK, Stacked, UsersHavePackets, CarriesItsDatagram
<1>3. QED BY <1>1, <1>2

\* What packet_pool lends for a send is large enough for the datagram, carries
\* this datagram whole and nothing of an earlier one, and is used by nobody
\* else: a packet lies once on the stack of its class or is in use; for any
\* number of packets, any capacities of the classes, any sizes of datagrams
\* and every limit of the stacks.
THEOREM PoolLendsSoundly == PoolSpec => []LentPacketsAreSound
<1>1. PoolInv => LentPacketsAreSound
  BY SpareIsStacked DEF PoolInv, LentPacketsAreSound
<1>2. QED BY <1>1, PoolInitially, PoolStepKeeps, PTL DEF PoolSpec

\* The types of the pools: the packets on loan and their owners are buffers.
THEOREM PoolTypes == PoolSpec => []PoolTypeOK
<1>1. PoolInv => PoolTypeOK
  BY DEF PoolInv
<1>2. QED BY <1>1, PoolInitially, PoolStepKeeps, PTL DEF PoolSpec

------------------------------------------------------------------------------
\* StaticFilters: the list of filters and what the driver has of it.

Way == {{"send"}, {"receive"}}

\* Every filter the router makes, and the driver's forms of them.
FilterOf == {Icmp, LanIn, LanOut}
            \cup {ToServer(protocol, way, e) : protocol \in {"tcp", "udp"}, way \in Way,
                                               e \in SocksServer}
FormOf   == {ToStaticFilter(f) : f \in FilterOf}
CallOf   == {"front", "back"} \X FilterOf
AskedFor == SocksServer \X {"both", "tcp", "udp"}

\* The filters of a server that was asked for.
FiltersFor(x) ==
  {ToServer("tcp", way, x[1]) : way \in Way}
  \cup (IF x[2] \in {"both", "udp"} THEN {ToServer("udp", way, x[1]) : way \in Way} ELSE {})

\* The filters that somebody has asked for.
Asked(f) ==
  \/ f = Icmp
  \/ bypassLan /\ f \in {LanIn, LanOut}
  \/ \E x \in ToSet(asked) : f \in FiltersFor(x)

\* The filters that the running operation still adds.
Waiting == {call[2] : call \in ToSet(pendingCalls)}

StaticShape ==
  /\ filters \in Seq(FilterOf) /\ driverTable \in Seq(FormOf)
  /\ pendingCalls \in Seq(CallOf) /\ asked \in Seq(AskedFor)
  /\ refused \in Nat

\* The driver has the filters of filters_, they were asked for, and what was
\* asked for is there or still to come, unless the driver refused a filter.
StaticInv ==
  /\ StaticShape
  /\ ToSet(driverTable) = {ToStaticFilter(f) : f \in ToSet(filters)}
  /\ \A f \in ToSet(filters) \cup Waiting : Asked(f)
  /\ refused = 0 => \A f \in FilterOf : Asked(f) => f \in ToSet(filters) \cup Waiting

----------------------------------------------------------------------------
(* Sequences as sets *)

\* The ways the sequences come about, by name.
Before(x, s)  == <<x>> \o s
After(s, x)   == Append(s, x)
Pair(x, y)    == <<x, y>>
Joined(s, t)  == s \o t

LEMMA AppendAdds ==
  ASSUME NEW X, NEW s \in Seq(X), NEW x \in X
  PROVE  After(s, x) \in Seq(X) /\ ToSet(After(s, x)) = ToSet(s) \cup {x}
<1> USE DEF After
<1>1. /\ Append(s, x) \in Seq(X) /\ DOMAIN Append(s, x) = DOMAIN s \cup {Len(s) + 1}
      /\ Append(s, x)[Len(s) + 1] = x
      /\ \A i \in DOMAIN s : i # Len(s) + 1 /\ Append(s, x)[i] = s[i]
  OBVIOUS
<1>2. QED BY <1>1 DEF ToSet

LEMMA JoinAdds ==
  ASSUME NEW X, NEW s \in Seq(X), NEW t \in Seq(X)
  PROVE  Joined(s, t) \in Seq(X) /\ ToSet(Joined(s, t)) = ToSet(s) \cup ToSet(t)
<1> DEFINE u == s \o t
           m == Len(s)
           n == Len(t)
<1>1. /\ u \in Seq(X) /\ m \in Nat /\ n \in Nat
      /\ DOMAIN s = 1 .. m /\ DOMAIN t = 1 .. n /\ DOMAIN u = 1 .. m + n
      /\ \A i \in 1 .. m : u[i] = s[i]
      /\ \A i \in 1 .. n : u[m + i] = t[i]
  OBVIOUS
<1> HIDE DEF u, m, n
<1>2. /\ \A i \in 1 .. m + n : i \in 1 .. m \/ (i - m \in 1 .. n /\ i = m + (i - m))
      /\ \A i \in 1 .. m : i \in 1 .. m + n
      /\ \A i \in 1 .. n : m + i \in 1 .. m + n
  BY <1>1
<1>3. ToSet(s) \subseteq ToSet(u) /\ ToSet(t) \subseteq ToSet(u)
  BY <1>1, <1>2 DEF ToSet
<1>4. ASSUME NEW x \in ToSet(u) PROVE x \in ToSet(s) \cup ToSet(t)
  <2>1. PICK i \in 1 .. m + n : x = u[i]
    BY <1>1, <1>4 DEF ToSet
  <2>2. CASE i \in 1 .. m
    BY <1>1, <2>1, <2>2 DEF ToSet
  <2>3. CASE i \notin 1 .. m
    <3>1. i - m \in 1 .. n /\ t[i - m] = x
      BY <1>1, <1>2, <2>1, <2>3
    <3>2. QED BY <1>1, <3>1 DEF ToSet
  <2>4. QED BY <2>2, <2>3
<1>5. QED BY <1>1, <1>3, <1>4 DEF u, Joined

LEMMA HeadLeaves ==
  ASSUME NEW X, NEW s \in Seq(X), s # <<>>
  PROVE  Head(s) \in X /\ Tail(s) \in Seq(X) /\ ToSet(s) = {Head(s)} \cup ToSet(Tail(s))
<1> DEFINE t == Tail(s)
           n == Len(s)
<1>1. /\ n \in Nat /\ n >= 1 /\ DOMAIN s = 1 .. n /\ Head(s) = s[1] /\ s[1] \in X
      /\ t \in Seq(X) /\ DOMAIN t = 1 .. n - 1
      /\ \A i \in 1 .. n - 1 : t[i] = s[i + 1]
  OBVIOUS
<1> HIDE DEF t, n
<1>2. /\ \A i \in 1 .. n : i = 1 \/ (i - 1 \in 1 .. n - 1 /\ (i - 1) + 1 = i)
      /\ \A i \in 1 .. n - 1 : i + 1 \in 1 .. n
  BY <1>1
<1>3. ASSUME NEW x \in ToSet(s), x # Head(s) PROVE x \in ToSet(t)
  <2>1. PICK i \in 1 .. n : x = s[i]
    BY <1>1, <1>3 DEF ToSet
  <2>2. i - 1 \in 1 .. n - 1 /\ t[i - 1] = x
    BY <1>1, <1>2, <1>3, <2>1
  <2>3. QED BY <1>1, <2>2 DEF ToSet
<1>4. ToSet(t) \subseteq ToSet(s) /\ Head(s) \in ToSet(s)
  <2>1. 1 \in 1 .. n
    BY <1>1
  <2>2. Head(s) \in ToSet(s)
    BY <1>1, <2>1 DEF ToSet
  <2>3. ASSUME NEW x \in ToSet(t) PROVE x \in ToSet(s)
    <3>1. PICK i \in 1 .. n - 1 : x = t[i]
      BY <1>1, <2>3 DEF ToSet
    <3>2. i + 1 \in DOMAIN s /\ x = s[i + 1]
      BY <1>1, <1>2, <3>1
    <3>3. QED BY <3>2 DEF ToSet
  <2>4. QED BY <2>2, <2>3
<1>5. QED BY <1>1, <1>3, <1>4 DEF t

LEMMA PairHolds ==
  ASSUME NEW X, NEW x \in X, NEW y \in X
  PROVE  Pair(x, y) \in Seq(X) /\ ToSet(Pair(x, y)) = {x, y}
<1>1. <<x, y>> \in Seq(X) /\ DOMAIN <<x, y>> = {1, 2} /\ <<x, y>>[1] = x /\ <<x, y>>[2] = y
  OBVIOUS
<1>2. QED BY <1>1 DEF Pair, ToSet

LEMMA BeforeAdds ==
  ASSUME NEW X, NEW s \in Seq(X), NEW x \in X
  PROVE  Before(x, s) \in Seq(X) /\ ToSet(Before(x, s)) = ToSet(s) \cup {x}
<1>1. PICK t : t = <<x>>
  OBVIOUS
<1>2. t \in Seq(X) /\ DOMAIN t = {1} /\ t[1] = x
  BY <1>1
<1>3. ToSet(t) = {x}
  BY <1>2 DEF ToSet
<1>4. Joined(t, s) \in Seq(X) /\ ToSet(Joined(t, s)) = ToSet(t) \cup ToSet(s)
  BY ONLY <1>2, s \in Seq(X), JoinAdds
<1>5. Before(x, s) = Joined(t, s)
  BY <1>1 DEF Before, Joined
<1>6. QED BY <1>3, <1>4, <1>5

\* The sequence of one element and that of none.
LEMMA SingleHolds ==
  ASSUME NEW X, NEW x \in X, NEW s, s = <<x>>
  PROVE  s \in Seq(X) /\ ToSet(s) = {x}
<1>1. s \in Seq(X) /\ DOMAIN s = {1} /\ s[1] = x
  OBVIOUS
<1>2. QED BY <1>1 DEF ToSet

----------------------------------------------------------------------------
(* Every step keeps the invariant *)

LEMMA FiltersAreForms ==
  /\ Icmp \in FilterOf /\ LanIn \in FilterOf /\ LanOut \in FilterOf
  /\ \A protocol \in {"tcp", "udp"}, way \in Way, e \in SocksServer :
       ToServer(protocol, way, e) \in FilterOf
  /\ \A f \in FilterOf : ToStaticFilter(f) \in FormOf
BY DEF FilterOf, FormOf

LEMMA AddKeeps == ASSUME StaticInv, AddFilter PROVE StaticInv'
<1>1. PICK call : call = Head(pendingCalls)
  OBVIOUS
<1>2. PICK f : f = call[2]
  OBVIOUS
<1>3. /\ call \in CallOf /\ pendingCalls' \in Seq(CallOf)
      /\ ToSet(pendingCalls) = {call} \cup ToSet(pendingCalls')
      /\ UNCHANGED <<servers, bypassLan, asked>>
  BY <1>1, HeadLeaves DEF AddFilter, StaticInv, StaticShape
<1>4. f \in FilterOf /\ Waiting = {f} \cup Waiting' /\ ToStaticFilter(f) \in FormOf
  BY <1>2, <1>3, FiltersAreForms DEF CallOf, Waiting
<1>5. \A g : Asked(g)' <=> Asked(g)
  BY <1>3 DEF Asked
<1>6. CASE UNCHANGED <<driverTable, filters>> /\ refused' = refused + 1
  BY <1>3, <1>4, <1>5, <1>6 DEF StaticInv, StaticShape
<1>7. CASE /\ UNCHANGED refused
           /\ \/ /\ driverTable' = <<ToStaticFilter(f)>> \o driverTable
                 /\ filters' = <<f>> \o filters
              \/ /\ driverTable' = Append(driverTable, ToStaticFilter(f))
                 /\ filters' = Append(filters, f)
  <2>1. filters \in Seq(FilterOf) /\ driverTable \in Seq(FormOf)
    BY DEF StaticInv, StaticShape
  <2>2. PICK form : form = ToStaticFilter(f)
    OBVIOUS
  <2>3. filters' \in Seq(FilterOf) /\ ToSet(filters') = ToSet(filters) \cup {f}
    <3>1. filters' = Before(f, filters) \/ filters' = After(filters, f)
      BY <1>7 DEF Before, After
    <3>2. f \in FilterOf
      BY <1>4
    <3>3. QED BY ONLY <2>1, <3>1, <3>2, AppendAdds, BeforeAdds
  <2>4. driverTable' \in Seq(FormOf) /\ ToSet(driverTable') = ToSet(driverTable) \cup {ToStaticFilter(f)}
    <3>1. driverTable' = Before(form, driverTable) \/ driverTable' = After(driverTable, form)
      BY <1>7, <2>2 DEF Before, After
    <3>2. form \in FormOf
      BY <1>4, <2>2
    <3>3. QED BY <2>1, <2>2, <3>1, <3>2, AppendAdds, BeforeAdds
  <2>5. ToSet(driverTable') = {ToStaticFilter(g) : g \in ToSet(filters')}
    BY <2>3, <2>4 DEF StaticInv
  <2>6. ToSet(filters') \cup Waiting' = ToSet(filters) \cup Waiting
    BY <1>4, <2>3
  <2>7. StaticShape'
    <3>1. refused' = refused
      BY ONLY <1>7
    <3>2. asked' = asked /\ pendingCalls' \in Seq(CallOf)
      BY ONLY <1>3
    <3>3. QED BY ONLY <2>3, <2>4, <3>1, <3>2, StaticInv DEF StaticInv, StaticShape
  <2>8. \A g \in ToSet(filters') \cup Waiting' : Asked(g)'
    BY <1>5, <2>6 DEF StaticInv
  <2>9. refused' = 0 => \A g \in FilterOf : Asked(g)' => g \in ToSet(filters') \cup Waiting'
    <3>1. refused' = refused
      BY ONLY <1>7
    <3>2. refused = 0 => \A g \in FilterOf : Asked(g) => g \in ToSet(filters) \cup Waiting
      BY DEF StaticInv
    <3>3. QED BY ONLY <1>5, <2>6, <3>1, <3>2
  <2>10. QED BY ONLY <2>5, <2>7, <2>8, <2>9 DEF StaticInv
<1>8. QED BY <1>1, <1>2, <1>6, <1>7 DEF AddFilter

LEMMA LanKeeps == ASSUME StaticInv, SetBypassLan PROVE StaticInv'
<1>1. PICK x, y : x = <<"front", LanIn>> /\ y = <<"front", LanOut>>
  OBVIOUS
<1>2. x \in CallOf /\ y \in CallOf /\ x[2] = LanIn /\ y[2] = LanOut
  BY <1>1, FiltersAreForms DEF CallOf
<1>3. /\ pendingCalls = <<>> /\ bypassLan' = TRUE /\ pendingCalls' = <<x, y>>
      /\ UNCHANGED <<driverTable, filters, servers, asked, refused>>
  BY <1>1 DEF SetBypassLan
<1>4. pendingCalls' \in Seq(CallOf) /\ ToSet(pendingCalls') = {x, y} /\ ToSet(pendingCalls) = {}
  <2>1. pendingCalls' = Pair(x, y)
    BY <1>3 DEF Pair
  <2>2. ToSet(pendingCalls) = {}
    BY <1>3 DEF ToSet
  <2>3. QED BY <1>2, <2>1, <2>2, PairHolds
<1>5. Waiting = {} /\ Waiting' = {LanIn, LanOut}
  BY <1>2, <1>4 DEF Waiting
<1>6. \A f : Asked(f)' <=> Asked(f) \/ f \in {LanIn, LanOut}
  BY <1>3 DEF Asked
<1>7. QED BY <1>3, <1>4, <1>5, <1>6 DEF StaticInv, StaticShape

LEMMA ProxyKeeps ==
  ASSUME StaticInv, NEW e \in SocksServer, NEW protocols \in {"both", "tcp", "udp"},
         AddSocks5Proxy(e, protocols)
  PROVE  StaticInv'
<1> DEFINE x == <<e, protocols>>
           tcpOut == <<"back", ToServer("tcp", {"send"}, e)>>
           tcpIn  == <<"back", ToServer("tcp", {"receive"}, e)>>
           udpOut == <<"back", ToServer("udp", {"send"}, e)>>
           udpIn  == <<"back", ToServer("udp", {"receive"}, e)>>
           rest == IF protocols \in {"both", "udp"} THEN <<udpOut, udpIn>> ELSE <<>>
<1>1. /\ x \in AskedFor /\ x[1] = e /\ x[2] = protocols
      /\ tcpOut \in CallOf /\ tcpIn \in CallOf /\ udpOut \in CallOf /\ udpIn \in CallOf
      /\ tcpOut[2] = ToServer("tcp", {"send"}, e) /\ tcpIn[2] = ToServer("tcp", {"receive"}, e)
      /\ udpOut[2] = ToServer("udp", {"send"}, e) /\ udpIn[2] = ToServer("udp", {"receive"}, e)
  BY FiltersAreForms DEF AskedFor, CallOf, Way
<1>2. /\ pendingCalls = <<>> /\ asked' = Append(asked, x)
      /\ pendingCalls' = <<tcpOut, tcpIn>> \o rest
      /\ UNCHANGED <<driverTable, filters, bypassLan, refused>>
  BY DEF AddSocks5Proxy, BothWays
<1> HIDE DEF x, tcpOut, tcpIn, udpOut, udpIn
<1>3. asked' \in Seq(AskedFor) /\ ToSet(asked') = ToSet(asked) \cup {x}
  <2>1. asked' = After(asked, x) /\ asked \in Seq(AskedFor)
    BY <1>2 DEF After, StaticInv, StaticShape
  <2>2. QED BY <1>1, <2>1, AppendAdds
<1>4. /\ Pair(tcpOut, tcpIn) \in Seq(CallOf) /\ ToSet(Pair(tcpOut, tcpIn)) = {tcpOut, tcpIn}
      /\ rest \in Seq(CallOf)
      /\ ToSet(rest) = IF protocols \in {"both", "udp"} THEN {udpOut, udpIn} ELSE {}
      /\ ToSet(pendingCalls) = {}
  <2>1. Pair(tcpOut, tcpIn) \in Seq(CallOf) /\ ToSet(Pair(tcpOut, tcpIn)) = {tcpOut, tcpIn}
    BY <1>1, PairHolds
  <2>2. Pair(udpOut, udpIn) \in Seq(CallOf) /\ ToSet(Pair(udpOut, udpIn)) = {udpOut, udpIn}
    BY <1>1, PairHolds
  <2>3. <<>> \in Seq(CallOf) /\ ToSet(<<>>) = {}
    BY DEF ToSet
  <2>4. rest = IF protocols \in {"both", "udp"} THEN Pair(udpOut, udpIn) ELSE <<>>
    BY DEF Pair
  <2>5. QED BY <1>2, <2>1, <2>2, <2>3, <2>4
<1> HIDE DEF rest
<1>5. pendingCalls' \in Seq(CallOf) /\ ToSet(pendingCalls') = {tcpOut, tcpIn} \cup ToSet(rest)
  <2>1. pendingCalls' = Joined(Pair(tcpOut, tcpIn), rest)
    BY <1>2 DEF Joined, Pair
  <2>2. QED BY <1>4, <2>1, JoinAdds
<1>6. Waiting = {} /\ Waiting' = FiltersFor(x)
  <2>1. Waiting = {}
    BY <1>4 DEF Waiting
  <2>2. Waiting' = {call[2] : call \in {tcpOut, tcpIn} \cup ToSet(rest)}
    BY <1>5 DEF Waiting
  <2>3. Waiting' = {tcpOut[2], tcpIn[2]}
                   \cup (IF protocols \in {"both", "udp"} THEN {udpOut[2], udpIn[2]} ELSE {})
    BY <1>4, <2>2
  <2>4. /\ {tcpOut[2], tcpIn[2]} = {ToServer("tcp", way, x[1]) : way \in Way}
        /\ {udpOut[2], udpIn[2]} = {ToServer("udp", way, x[1]) : way \in Way}
    BY <1>1 DEF Way
  <2>5. QED BY <1>1, <2>1, <2>3, <2>4 DEF FiltersFor
<1>7. \A f : Asked(f)' <=> Asked(f) \/ f \in Waiting'
  BY <1>2, <1>3, <1>6 DEF Asked
<1>8. QED BY <1>2, <1>3, <1>5, <1>6, <1>7 DEF StaticInv, StaticShape

LEMMA FreshTable ==
  ASSUME driverTable = <<>>, filters = <<>>, pendingCalls = << <<"back", Icmp>> >>,
         bypassLan = FALSE, asked = <<>>, refused = 0
  PROVE  StaticInv
<1>1. PICK call : call = <<"back", Icmp>>
  OBVIOUS
<1>2. call \in CallOf /\ call[2] = Icmp /\ pendingCalls = <<call>>
  BY <1>1, FiltersAreForms DEF CallOf
<1>3. pendingCalls \in Seq(CallOf) /\ ToSet(pendingCalls) = {call}
  BY <1>2, SingleHolds
<1>4. Waiting = {Icmp}
  BY <1>2, <1>3 DEF Waiting
<1>5. /\ filters \in Seq(FilterOf) /\ driverTable \in Seq(FormOf) /\ asked \in Seq(AskedFor)
      /\ ToSet(filters) = {} /\ ToSet(driverTable) = {} /\ ToSet(asked) = {}
  BY DEF ToSet
<1>6. \A f : Asked(f) <=> f = Icmp
  BY <1>5 DEF Asked
<1>7. QED BY <1>3, <1>4, <1>5, <1>6 DEF StaticInv, StaticShape

LEMMA StaticInitially == StaticInit => StaticInv
BY FreshTable DEF StaticInit

LEMMA StaticStepKeeps == StaticInv /\ [StaticNext]_staticVars => StaticInv'
<1> SUFFICES ASSUME StaticInv, [StaticNext]_staticVars PROVE StaticInv'
  OBVIOUS
<1>1. CASE Restart
  <2>1. (/\ driverTable = <<>> /\ filters = <<>> /\ pendingCalls = << <<"back", Icmp>> >>
         /\ bypassLan = FALSE /\ asked = <<>> /\ refused = 0)'
    BY <1>1 DEF Restart
  <2>2. QED BY <2>1, FreshTable, PTL
<1>2. CASE UNCHANGED staticVars
  BY <1>2 DEF staticVars, StaticInv, StaticShape, Waiting, Asked
<1>3. QED BY <1>1, <1>2, AddKeeps, LanKeeps, ProxyKeeps DEF StaticNext

----------------------------------------------------------------------------
(* What the filters match *)

LEMMA PacketFields ==
  ASSUME NEW pkt \in Packet
  PROVE  /\ pkt.direction \in {"send", "receive"} /\ pkt.protocol \in {"tcp", "udp", "icmp"}
         /\ pkt.peer \in {"lan", "internet"} \cup SocksServer
         /\ pkt.destPort \in {"socks", "other"}
         /\ SourceOf(pkt) = IF pkt.direction = "send" THEN "here" ELSE pkt.peer
         /\ DestOf(pkt) = IF pkt.direction = "send" THEN pkt.peer ELSE "here"
BY DEF Packet, SourceOf, DestOf

\* The form of a filter without a port.
LEMMA FormOfPortless ==
  ASSUME NEW f, f.port = "any"
  PROVE  LET s == ToStaticFilter(f)
         IN  /\ s.directions = f.direction /\ ~s.transport
             /\ s.source = f.source /\ s.dest = f.dest /\ s.protocol = f.protocol
             /\ {f.source, f.dest, f.protocol} # {"any"} => s.network
BY DEF ToStaticFilter

LEMMA IcmpMatches ==
  ASSUME NEW pkt \in Packet
  PROVE  Matches(ToStaticFilter(Icmp), pkt) <=> pkt.protocol = "icmp"
<1>1. PICK s : s = ToStaticFilter(Icmp)
  OBVIOUS
<1>2. /\ s.directions = {"send", "receive"} /\ s.network /\ ~s.transport
      /\ s.source = "any" /\ s.dest = "any" /\ s.protocol = "icmp"
  <2>1. PICK f : f = Icmp
    OBVIOUS
  <2>2. /\ f.direction = {"send", "receive"} /\ f.source = "any" /\ f.dest = "any"
        /\ f.protocol = "icmp" /\ f.port = "any"
    BY <2>1 DEF Icmp, AnyFilter
  <2>3. "icmp" \in {f.source, f.dest, f.protocol}
    BY <2>2
  <2>4. QED BY <1>1, <2>1, <2>2, <2>3, FormOfPortless
<1>3. QED BY <1>1, <1>2, PacketFields DEF Matches

LEMMA LanMatches ==
  ASSUME NEW pkt \in Packet
  PROVE  /\ Matches(ToStaticFilter(LanIn), pkt)
            <=> pkt.direction = "receive" /\ pkt.peer = "lan"
         /\ Matches(ToStaticFilter(LanOut), pkt)
            <=> pkt.direction = "send" /\ pkt.peer = "lan"
<1>1. PICK s, t : s = ToStaticFilter(LanIn) /\ t = ToStaticFilter(LanOut)
  OBVIOUS
<1>2. /\ s.directions = {"receive"} /\ s.network /\ ~s.transport
      /\ s.source = "lan" /\ s.dest = "any" /\ s.protocol = "any"
  <2>1. PICK f : f = LanIn
    OBVIOUS
  <2>2. /\ f.direction = {"receive"} /\ f.source = "lan" /\ f.dest = "any"
        /\ f.protocol = "any" /\ f.port = "any"
    BY <2>1 DEF LanIn, AnyFilter
  <2>3. "lan" \in {f.source, f.dest, f.protocol}
    BY <2>2
  <2>4. QED BY <1>1, <2>1, <2>2, <2>3, FormOfPortless
<1>3. /\ t.directions = {"send"} /\ t.network /\ ~t.transport
      /\ t.source = "any" /\ t.dest = "lan" /\ t.protocol = "any"
  <2>1. PICK f : f = LanOut
    OBVIOUS
  <2>2. /\ f.direction = {"send"} /\ f.source = "any" /\ f.dest = "lan"
        /\ f.protocol = "any" /\ f.port = "any"
    BY <2>1 DEF LanOut, AnyFilter
  <2>3. "lan" \in {f.source, f.dest, f.protocol}
    BY <2>2
  <2>4. QED BY <1>1, <2>1, <2>2, <2>3, FormOfPortless
<1>4. Matches(s, pkt) <=> pkt.direction = "receive" /\ pkt.peer = "lan"
  BY <1>2, PacketFields DEF Matches
<1>5. Matches(t, pkt) <=> pkt.direction = "send" /\ pkt.peer = "lan"
  BY <1>3, PacketFields DEF Matches
<1>6. QED BY <1>1, <1>4, <1>5

LEMMA ServerMatches ==
  ASSUME NEW pkt \in Packet, NEW protocol \in {"tcp", "udp"}, NEW way \in Way,
         NEW e \in SocksServer
  PROVE  Matches(ToStaticFilter(ToServer(protocol, way, e)), pkt)
         <=> /\ pkt.direction = "send" /\ way = {"send"} /\ pkt.peer = e
             /\ pkt.protocol = protocol /\ pkt.destPort = "socks"
<1>1. PICK s : s = ToStaticFilter(ToServer(protocol, way, e))
  OBVIOUS
<1>2. /\ s.directions = way /\ s.network /\ s.transport /\ s.selector = "tcpudp"
      /\ s.source = "any" /\ s.dest = e /\ s.protocol = protocol /\ s.port = "socks"
  BY <1>1 DEF ToStaticFilter, ToServer
<1>3. e # "any" /\ e # "here" /\ protocol # "any" /\ way \in {{"send"}, {"receive"}}
  BY StaticFiltersAssumption DEF Way
<1>4. Matches(s, pkt)
      <=> /\ pkt.direction \in way /\ e = DestOf(pkt)
          /\ pkt.protocol = protocol /\ pkt.destPort = "socks"
  BY <1>2, <1>3 DEF Matches
<1>5. e = DestOf(pkt) <=> pkt.direction = "send" /\ pkt.peer = e
  BY <1>3, PacketFields
<1>6. pkt.direction = "send" => (pkt.direction \in way <=> way = {"send"})
  BY <1>3
<1>7. QED BY <1>1, <1>4, <1>5, <1>6

\* What a filter lets through, those who asked for it wanted to pass.
LEMMA MatchMustPass ==
  ASSUME StaticInv, NEW pkt \in Packet, NEW f, Asked(f), Matches(ToStaticFilter(f), pkt)
  PROVE  MustPass(pkt)
<1>1. CASE f = Icmp
  BY <1>1, IcmpMatches DEF MustPass
<1>2. CASE bypassLan /\ f \in {LanIn, LanOut}
  BY <1>2, LanMatches DEF MustPass
<1>3. ASSUME NEW x \in ToSet(asked), f \in FiltersFor(x) PROVE MustPass(pkt)
  <2>1. x \in AskedFor
    BY DEF StaticInv, StaticShape, ToSet
  <2>2. x[1] \in SocksServer
    BY <2>1 DEF AskedFor
  <2>3. PICK protocol \in {"tcp", "udp"}, way \in Way :
          /\ f = ToServer(protocol, way, x[1])
          /\ protocol = "udp" => x[2] \in {"both", "udp"}
    BY <1>3 DEF FiltersFor
  <2>4. /\ pkt.direction = "send" /\ pkt.peer = x[1]
        /\ pkt.protocol = protocol /\ pkt.destPort = "socks"
    BY <2>2, <2>3, ServerMatches
  <2>5. QED BY <2>3, <2>4 DEF MustPass, ToSocks, PeerAsked
<1>4. QED BY <1>1, <1>2, <1>3 DEF Asked

\* What has to pass, a filter that was asked for matches.
LEMMA MustPassMatches ==
  ASSUME StaticInv, NEW pkt \in Packet, MustPass(pkt)
  PROVE  \E f \in FilterOf : Asked(f) /\ Matches(ToStaticFilter(f), pkt)
<1>1. CASE pkt.protocol = "icmp"
  BY <1>1, IcmpMatches, FiltersAreForms DEF Asked
<1>2. CASE bypassLan /\ pkt.peer = "lan"
  <2>1. Matches(ToStaticFilter(LanIn), pkt) \/ Matches(ToStaticFilter(LanOut), pkt)
    BY <1>2, LanMatches, PacketFields
  <2>2. Asked(LanIn) /\ Asked(LanOut)
    BY <1>2 DEF Asked
  <2>3. QED BY <2>1, <2>2, FiltersAreForms
<1>3. CASE pkt.protocol # "icmp" /\ ~(bypassLan /\ pkt.peer = "lan")
  <2>1. PICK x \in ToSet(asked) :
          /\ x[1] = pkt.peer
          /\ pkt.protocol = "udp" => x[2] \in {"both", "udp"}
    BY <1>3 DEF MustPass, ToSocks, PeerAsked
  <2>2. pkt.direction = "send" /\ pkt.destPort = "socks" /\ pkt.protocol \in {"tcp", "udp"}
    BY <1>3, PacketFields DEF MustPass, ToSocks
  <2>3. x \in AskedFor
    BY DEF StaticInv, StaticShape, ToSet
  <2>4. x[1] \in SocksServer /\ {"send"} \in Way
    BY <2>3 DEF AskedFor, Way
  <2>5. PICK protocol : protocol = pkt.protocol
    OBVIOUS
  <2>6. protocol \in {"tcp", "udp"} /\ (protocol = "udp" => x[2] \in {"both", "udp"})
    BY <2>1, <2>2, <2>5
  <2>7. PICK f : f = ToServer(protocol, {"send"}, x[1])
    OBVIOUS
  <2>8. /\ f \in FilterOf /\ f \in FiltersFor(x)
        /\ Matches(ToStaticFilter(f), pkt)
    <3>1. f \in FilterOf
      BY <2>4, <2>6, <2>7, FiltersAreForms
    <3>2. f \in FiltersFor(x)
      BY <2>4, <2>6, <2>7 DEF FiltersFor
    <3>3. Matches(ToStaticFilter(ToServer(protocol, {"send"}, x[1])), pkt)
      BY <2>1, <2>2, <2>4, <2>5, <2>6, ServerMatches
    <3>4. QED BY <2>7, <3>1, <3>2, <3>3
  <2>9. QED BY <2>8 DEF Asked
<1>4. QED BY <1>1, <1>2, <1>3

\* The driver passes a packet around the router only if somebody asked for it,
\* and, unless it refused a filter, it passes ICMP, the local network once
\* set_bypass_lan was called, and what is sent to the port of a SOCKS server; for
\* any set of servers, any number of calls of add_socks5_proxy and
\* set_bypass_lan in any order, and any filters refused.
THEOREM DriverPassesAsAsked == StaticSpec => []DriverPassesWhatIsAsked
<1>1. ASSUME StaticInv, NEW pkt \in Packet
      PROVE  /\ Passed(pkt) => MustPass(pkt) \/ FromSocks(pkt)
             /\ MustPass(pkt) /\ TakenByDriver => Passed(pkt)
  <2>1. Passed(pkt) <=> \E f \in ToSet(filters) : Matches(ToStaticFilter(f), pkt)
    BY <1>1 DEF StaticInv, Passed
  <2>2. Passed(pkt) => MustPass(pkt)
    BY <1>1, <2>1, MatchMustPass DEF StaticInv
  <2>3. pendingCalls = <<>> => Waiting = {}
    BY DEF Waiting, ToSet
  <2>4. MustPass(pkt) /\ TakenByDriver => Passed(pkt)
    BY <1>1, <2>1, <2>3, MustPassMatches DEF StaticInv, TakenByDriver
  <2>5. QED BY <2>2, <2>4
<1>2. StaticInv => DriverPassesWhatIsAsked
  BY <1>1 DEF DriverPassesWhatIsAsked
<1>3. QED BY <1>2, StaticInitially, StaticStepKeeps, PTL DEF StaticSpec

----------------------------------------------------------------------------
(* The driver's table, filter by filter *)

\* The driver has the form of each filter at the filter's place, and what
\* was asked for is no more than the calls that were made.
FormsInPlace ==
  /\ Len(driverTable) = Len(filters)
  /\ \A i \in 1 .. Len(filters) : driverTable[i] = ToStaticFilter(filters[i])

CallsAreCounted ==
  /\ servers \in Seq(SocksServer) /\ Len(servers) <= Len(asked) /\ Len(asked) <= MaxAdds
  /\ bypassLan \in BOOLEAN /\ refused \in 0 .. MaxRefusals

LEMMA FormsAreAdded ==
  ASSUME StaticShape, FormsInPlace, NEW f \in FilterOf
  PROVE  /\ /\ Len(Append(driverTable, ToStaticFilter(f))) = Len(Append(filters, f))
            /\ \A i \in 1 .. Len(Append(filters, f)) :
                 Append(driverTable, ToStaticFilter(f))[i] = ToStaticFilter(Append(filters, f)[i])
         /\ /\ Len(<<ToStaticFilter(f)>> \o driverTable) = Len(<<f>> \o filters)
            /\ \A i \in 1 .. Len(<<f>> \o filters) :
                 (<<ToStaticFilter(f)>> \o driverTable)[i] = ToStaticFilter((<<f>> \o filters)[i])
<1> DEFINE g == ToStaticFilter(f)
<1>1. /\ filters \in Seq(FilterOf) /\ driverTable \in Seq(FormOf) /\ g \in FormOf
      /\ Len(driverTable) = Len(filters)
      /\ \A i \in 1 .. Len(filters) : driverTable[i] = ToStaticFilter(filters[i])
  BY DEF StaticShape, FormsInPlace, FormOf
<1>2. \A i \in 1 .. Len(filters) + 1 :
        /\ Append(filters, f)[i] = IF i <= Len(filters) THEN filters[i] ELSE f
        /\ Append(driverTable, g)[i] = IF i <= Len(filters) THEN driverTable[i] ELSE g
  BY <1>1
<1>3. Len(Append(filters, f)) = Len(filters) + 1
      /\ Len(Append(driverTable, g)) = Len(filters) + 1 /\ Len(filters) \in Nat
  BY <1>1
<1>4. \A i \in 1 .. Len(filters) + 1 :
        /\ (<<f>> \o filters)[i] = IF i = 1 THEN f ELSE filters[i - 1]
        /\ (<<g>> \o driverTable)[i] = IF i = 1 THEN g ELSE driverTable[i - 1]
  BY <1>1
<1>5. Len(<<f>> \o filters) = Len(filters) + 1
      /\ Len(<<g>> \o driverTable) = Len(filters) + 1
  BY <1>1
<1>6. \A i \in 1 .. Len(filters) + 1 : i # 1 => i - 1 \in 1 .. Len(filters)
  BY <1>3
<1>7. \A i \in 1 .. Len(filters) + 1 : ~(i <= Len(filters)) \/ i \in 1 .. Len(filters)
  BY <1>3
<1> DEFINE af == Append(filters, f)
           ag == Append(driverTable, g)
           bf == <<f>> \o filters
           bg == <<g>> \o driverTable
<1>8. /\ \A i \in 1 .. Len(filters) + 1 :
           /\ af[i] = IF i <= Len(filters) THEN filters[i] ELSE f
           /\ ag[i] = IF i <= Len(filters) THEN driverTable[i] ELSE g
           /\ bf[i] = IF i = 1 THEN f ELSE filters[i - 1]
           /\ bg[i] = IF i = 1 THEN g ELSE driverTable[i - 1]
      /\ Len(af) = Len(filters) + 1 /\ Len(ag) = Len(filters) + 1
      /\ Len(bf) = Len(filters) + 1 /\ Len(bg) = Len(filters) + 1
      /\ g = ToStaticFilter(f)
  BY <1>2, <1>3, <1>4, <1>5
<1> HIDE DEF g, af, ag, bf, bg
<1>9. /\ Len(ag) = Len(af) /\ \A i \in 1 .. Len(af) : ag[i] = ToStaticFilter(af[i])
      /\ Len(bg) = Len(bf) /\ \A i \in 1 .. Len(bf) : bg[i] = ToStaticFilter(bf[i])
  <2>1. ASSUME NEW i \in 1 .. Len(filters) + 1 PROVE ag[i] = ToStaticFilter(af[i])
    BY ONLY <1>1, <1>7, <1>8, <2>1
  <2>2. ASSUME NEW i \in 1 .. Len(filters) + 1 PROVE bg[i] = ToStaticFilter(bf[i])
    <3>1. CASE i = 1
      BY ONLY <1>8, <2>2, <3>1
    <3>2. CASE i # 1
      <4>1. i - 1 \in 1 .. Len(filters) /\ bf[i] = filters[i - 1] /\ bg[i] = driverTable[i - 1]
        BY ONLY <1>6, <1>8, <2>2, <3>2
      <4>2. QED BY ONLY <1>1, <4>1
    <3>3. QED BY ONLY <3>1, <3>2
  <2>3. QED BY ONLY <1>8, <2>1, <2>2
<1>10. QED BY <1>9 DEF g, af, ag, bf, bg

LEMMA FormsStayInPlace ==
  ASSUME StaticShape, FormsInPlace, CallsAreCounted, AddFilter
  PROVE  FormsInPlace' /\ CallsAreCounted'
<1>1. PICK call : call = Head(pendingCalls)
  OBVIOUS
<1>2. call \in CallOf
  BY <1>1 DEF StaticShape, AddFilter
<1>3. call[2] \in FilterOf
  BY <1>2 DEF CallOf
<1>4. \/ /\ driverTable' = <<ToStaticFilter(call[2])>> \o driverTable
         /\ filters' = <<call[2]>> \o filters /\ refused' = refused
      \/ /\ driverTable' = Append(driverTable, ToStaticFilter(call[2]))
         /\ filters' = Append(filters, call[2]) /\ refused' = refused
      \/ /\ refused < MaxRefusals /\ refused' = refused + 1
         /\ driverTable' = driverTable /\ filters' = filters
  BY <1>1 DEF AddFilter
<1>5. FormsInPlace'
  <2>1. CASE driverTable' = driverTable /\ filters' = filters
    BY <2>1 DEF FormsInPlace
  <2>2. CASE /\ driverTable' = <<ToStaticFilter(call[2])>> \o driverTable
             /\ filters' = <<call[2]>> \o filters
    BY <1>3, <2>2, FormsAreAdded DEF FormsInPlace
  <2>3. CASE /\ driverTable' = Append(driverTable, ToStaticFilter(call[2]))
             /\ filters' = Append(filters, call[2])
    BY <1>3, <2>3, FormsAreAdded DEF FormsInPlace
  <2>4. QED BY <1>4, <2>1, <2>2, <2>3
<1>6. refused' \in 0 .. MaxRefusals
  BY <1>4, StaticFiltersAssumption DEF CallsAreCounted
<1>7. QED BY <1>5, <1>6 DEF CallsAreCounted, AddFilter

LEMMA FreshFormsInPlace ==
  ASSUME driverTable = <<>>, filters = <<>>, servers = <<>>, bypassLan = FALSE,
         asked = <<>>, refused = 0
  PROVE  FormsInPlace /\ CallsAreCounted
<1>1. Len(driverTable) = 0 /\ Len(filters) = 0 /\ Len(servers) = 0 /\ Len(asked) = 0
      /\ servers \in Seq(SocksServer)
  BY EmptySeq
<1>2. 0 <= MaxAdds /\ 0 \in 0 .. MaxRefusals
  BY StaticFiltersAssumption
<1>3. FormsInPlace
  BY <1>1 DEF FormsInPlace
<1>4. CallsAreCounted
  <2>1. bypassLan \in BOOLEAN /\ refused \in 0 .. MaxRefusals
    BY <1>2
  <2>2. Len(servers) <= Len(asked) /\ Len(asked) <= MaxAdds
    BY ONLY <1>1, <1>2
  <2>3. QED BY ONLY <1>1, <2>1, <2>2 DEF CallsAreCounted
<1>5. QED BY <1>3, <1>4

LEMMA StaticTypesKeep ==
  ASSUME StaticInv, FormsInPlace, CallsAreCounted, StaticNext
  PROVE  FormsInPlace' /\ CallsAreCounted'
<1>1. CASE AddFilter
  BY <1>1, FormsStayInPlace DEF StaticInv
<1>2. CASE SetBypassLan
  BY <1>2 DEF SetBypassLan, FormsInPlace, CallsAreCounted
<1>3. CASE Restart
  <2>1. (/\ driverTable = <<>> /\ filters = <<>> /\ servers = <<>> /\ bypassLan = FALSE
         /\ asked = <<>> /\ refused = 0)'
    BY <1>3 DEF Restart
  <2>2. QED BY <2>1, FreshFormsInPlace, PTL
<1>4. ASSUME NEW e \in SocksServer, NEW protocols \in {"both", "tcp", "udp"},
             AddSocks5Proxy(e, protocols)
      PROVE  FormsInPlace' /\ CallsAreCounted'
  <2>1. /\ asked \in Seq(AskedFor) /\ asked' = Append(asked, <<e, protocols>>)
        /\ Len(asked) < MaxAdds /\ servers' \in {servers, Append(servers, e)}
        /\ servers \in Seq(SocksServer) /\ Len(servers) <= Len(asked)
        /\ UNCHANGED <<driverTable, filters, bypassLan, refused>>
    BY <1>4 DEF AddSocks5Proxy, StaticInv, StaticShape, CallsAreCounted
  <2>2. Len(asked') = Len(asked) + 1 /\ Len(asked) \in Nat
    BY <2>1
  <2>3. servers' \in Seq(SocksServer) /\ Len(servers') <= Len(servers) + 1
        /\ Len(servers') \in Nat /\ Len(servers) \in Nat
    BY <2>1
  <2>4. Len(servers') <= Len(asked') /\ Len(asked') <= MaxAdds
    BY <2>1, <2>2, <2>3, StaticFiltersAssumption
  <2>5. QED BY <2>1, <2>3, <2>4 DEF FormsInPlace, CallsAreCounted
<1>5. QED BY <1>1, <1>2, <1>3, <1>4 DEF StaticNext

\* static_filters::add_filter_front, add_filter_back: filters_ and the driver's
\* table have the same filters in the same order, whatever the driver refused.
THEOREM StaticTypes == StaticSpec => []StaticTypeOK
<1>1. StaticInit => FormsInPlace /\ CallsAreCounted
  BY FreshFormsInPlace DEF StaticInit
<1>2. StaticInv /\ FormsInPlace /\ CallsAreCounted /\ [StaticNext]_staticVars
        => (StaticInv /\ FormsInPlace /\ CallsAreCounted)'
  <2>1. ASSUME FormsInPlace, CallsAreCounted, UNCHANGED staticVars
        PROVE  FormsInPlace' /\ CallsAreCounted'
    BY <2>1 DEF staticVars, FormsInPlace, CallsAreCounted
  <2>2. QED BY <2>1, StaticTypesKeep, StaticStepKeeps
<1>3. StaticInv /\ FormsInPlace /\ CallsAreCounted => StaticTypeOK
  <2> SUFFICES ASSUME StaticInv, FormsInPlace, CallsAreCounted PROVE StaticTypeOK
    OBVIOUS
  <2>1. driverTable \in Seq(FormOf) /\ asked \in Seq(SocksServer \X {"both", "tcp", "udp"})
    BY DEF StaticInv, StaticShape, AskedFor
  <2>2. DOMAIN driverTable = 1 .. Len(filters)
    BY <2>1 DEF FormsInPlace
  <2>3. QED BY <2>1, <2>2 DEF StaticTypeOK, FormsInPlace, CallsAreCounted
<1>4. QED BY <1>1, <1>2, <1>3, StaticInitially, PTL DEF StaticSpec

------------------------------------------------------------------------------
\* HandleTable: the places that adapters are told.

HandleTables == [Place -> Bound \cup {Free}]

\* No adapter has two places.
KeepsApart(h) == \A i, j \in Place : h[i] = h[j] => i = j \/ h[i] = Free

\* A list of the driver names each adapter once, and no more than fit.
BoundLists ==
  {l \in Seq(Bound) : /\ Len(l) <= ListSize
                      /\ \A i, j \in 1 .. Len(l) : l[i] = l[j] => i = j}

ListsOfTheDriver ==
  /\ present \in BoundLists
  /\ fetched \in [Caller -> [number : Nat, adapters : BoundLists]]
  /\ fetches \in Nat /\ newest \in Nat
  /\ \A c \in Caller : fetched[c].number <= fetches
  /\ newest <= fetches /\ fetches <= MaxFetches
  /\ filled \in BOOLEAN /\ disordered \in BOOLEAN

TableKeepsApart == handle \in HandleTables /\ KeepsApart(handle)

GivenPlacesLead ==
  /\ DOMAIN given \subseteq Bound
  /\ ~disordered => \A x \in DOMAIN given : given[x] \in Place /\ handle[given[x]] = x

EmptyUntilFilled ==
  ~filled => /\ DOMAIN given = {} /\ newest = 0
             /\ \A i \in Place : handle[i] = Free

HandleInv ==
  ListsOfTheDriver /\ TableKeepsApart /\ GivenPlacesLead /\ EmptyUntilFilled

-----------------------------------------------------------------------------
(* One adapter of a list *)

LEMMA ListedOnes ==
  ASSUME NEW list \in BoundLists
  PROVE  /\ ToSet(list) = {list[i] : i \in 1 .. Len(list)}
         /\ ToSet(list) \subseteq Bound /\ Free \notin ToSet(list)
BY HandleTableAssumption DEF BoundLists, ToSet

\* Among the places that may be given away there is the first, and the last.
LEMMA VacantPlaceIsVacant ==
  ASSUME NEW h, NEW list \in BoundLists, Vacant(h, list) # {}
  PROVE  VacantPlace(h, list) \in Vacant(h, list)
<1>1. Vacant(h, list) \in SUBSET Nat /\ Vacant(h, list) \subseteq 1 .. ListSize
  BY DEF Vacant, Place
<1>2. ListSize \in Nat
  BY HandleTableAssumption
<1>3. \E i \in Vacant(h, list) : \A j \in Vacant(h, list) : i <= j
  BY <1>1, LeastOf
<1>4. \E i \in Vacant(h, list) : \A j \in Vacant(h, list) : j <= i
  <2> DEFINE Turned == {ListSize - i : i \in Vacant(h, list)}
  <2>1. Turned \in SUBSET Nat /\ Turned # {}
    BY <1>1, <1>2
  <2>2. PICK m \in Turned : \A k \in Turned : m <= k
    BY <2>1, LeastOf
  <2>3. PICK i \in Vacant(h, list) : m = ListSize - i
    BY <2>2
  <2>4. ASSUME NEW j \in Vacant(h, list) PROVE j <= i
    <3>1. m <= ListSize - j
      BY <2>2
    <3>2. QED BY <3>1, <2>3, <1>1, <1>2
  <2>5. QED BY <2>4
<1>5. CASE Len(list) = 1
  BY <1>4, <1>5 DEF VacantPlace
<1>6. CASE Len(list) # 1
  BY <1>3, <1>6 DEF VacantPlace
<1>7. QED BY <1>5, <1>6

\* The driver binds no more adapters than there are places: while one of its
\* list has none, some place holds none of the list.
LEMMA APlaceIsVacant ==
  ASSUME NEW h \in HandleTables, KeepsApart(h), NEW list \in BoundLists,
         NEW x \in ToSet(list), \A i \in Place : h[i] # x
  PROVE  Vacant(h, list) # {}
<1> SUFFICES ASSUME Vacant(h, list) = {} PROVE FALSE
  OBVIOUS
<1>1. PICK k \in 1 .. Len(list) : x = list[k]
  BY ListedOnes
<1>2. ListSize \in Nat /\ Len(list) \in Nat /\ Len(list) <= ListSize
  BY HandleTableAssumption DEF BoundLists
<1> DEFINE Others == (1 .. Len(list)) \ {k}
           f == [i \in Place |-> CHOOSE j \in 1 .. Len(list) : list[j] = h[i]]
<1>3. ASSUME NEW i \in Place
      PROVE  f[i] \in Others /\ list[f[i]] = h[i] /\ h[i] # Free
  <2>1. h[i] \in ToSet(list)
    BY DEF Vacant
  <2>2. \E j \in 1 .. Len(list) : list[j] = h[i]
    BY <2>1, ListedOnes
  <2>3. f[i] \in 1 .. Len(list) /\ list[f[i]] = h[i]
    BY <2>2
  <2>4. f[i] # k
    BY <2>3, <1>1
  <2>5. QED BY <2>1, <2>3, <2>4, ListedOnes
<1>4. f \in [Place -> Others]
  BY <1>3
<1> HIDE DEF f
<1>5. PICK i, j \in Place : i # j /\ f[i] = f[j]
  <2>1. f \in [1 .. ListSize -> (1 .. Len(list)) \ {k}]
    BY <1>4 DEF Place
  <2> HIDE DEF Others
  <2>2. \E i, j \in 1 .. ListSize : i # j /\ f[i] = f[j]
    BY ONLY <1>2, <2>1, k \in 1 .. Len(list), TwoShareAValue
  <2>3. QED BY <2>2 DEF Place
<1>6. h[i] = h[j] /\ h[i] # Free
  BY <1>3, <1>5
<1>7. QED BY <1>5, <1>6 DEF KeepsApart

\* An adapter that is brought in has a place then, and no adapter of the list
\* has lost its own.
LEMMA SettledKeeps ==
  ASSUME NEW h \in HandleTables, KeepsApart(h), NEW list \in BoundLists,
         NEW x \in ToSet(list)
  PROVE  /\ Settled(h, list, x) \in HandleTables
         /\ KeepsApart(Settled(h, list, x))
         /\ \E i \in Place : Settled(h, list, x)[i] = x
         /\ \A i \in Place : h[i] \in ToSet(list) => Settled(h, list, x)[i] = h[i]
<1>1. ToSet([i \in Place |-> h[i]]) = {h[i] : i \in Place}
  BY DEF ToSet
<1>2. CASE \E i \in Place : h[i] = x
  <2>1. Settled(h, list, x) = h
    BY <1>1, <1>2 DEF Settled
  <2>2. QED BY <2>1, <1>2
<1>3. CASE \A i \in Place : h[i] # x
  <2>1. Vacant(h, list) # {}
    BY <1>3, APlaceIsVacant
  <2> DEFINE p == VacantPlace(h, list)
  <2>2. p \in Place /\ h[p] \notin ToSet(list)
    BY <2>1, VacantPlaceIsVacant DEF Vacant
  <2>3. Settled(h, list, x) = [h EXCEPT ![p] = x]
    BY <1>1, <1>3, <2>1 DEF Settled
  <2>4. x \in Bound
    BY ListedOnes
  <2> HIDE DEF p
  <2>5. Settled(h, list, x) \in HandleTables
    BY <2>3, <2>4 DEF HandleTables
  <2>6. \A i \in Place : Settled(h, list, x)[i] = IF i = p THEN x ELSE h[i]
    BY <2>3 DEF HandleTables
  <2>7. KeepsApart(Settled(h, list, x))
    BY <2>6, <1>3 DEF KeepsApart
  <2>8. QED BY <2>2, <2>5, <2>6, <2>7
<1>4. QED BY <1>2, <1>3

-----------------------------------------------------------------------------
(* The adapters of a list, one after the other *)

\* The function that AllSettled reads its result from
SettledTables(h, list) ==
  CHOOSE table : table =
    [i \in 0 .. Len(list) |->
       IF i = 0 THEN h ELSE Settled(table[i - 1], list, list[i])]

\* What is true of the table after k adapters of a list
KeptAfter(h, g, list, k) ==
  /\ g \in HandleTables /\ KeepsApart(g)
  /\ \A i \in Place : h[i] \in ToSet(list) => g[i] = h[i]
  /\ \A j \in 1 .. k : \E i \in Place : g[i] = list[j]

LEMMA KeptAfterOneMore ==
  ASSUME NEW h \in HandleTables, NEW list \in BoundLists,
         NEW k \in 1 .. Len(list), NEW g, KeptAfter(h, g, list, k - 1)
  PROVE  KeptAfter(h, Settled(g, list, list[k]), list, k)
<1> DEFINE next == Settled(g, list, list[k])
<1>1. list[k] \in ToSet(list) /\ \A j \in 1 .. k : list[j] \in ToSet(list)
  BY ListedOnes DEF BoundLists
<1>2. /\ next \in HandleTables /\ KeepsApart(next)
      /\ \E i \in Place : next[i] = list[k]
      /\ \A i \in Place : g[i] \in ToSet(list) => next[i] = g[i]
  BY <1>1, SettledKeeps DEF KeptAfter
<1> HIDE DEF next
<1>3. \A i \in Place : h[i] \in ToSet(list) => next[i] = h[i]
  BY <1>2 DEF KeptAfter
<1>4. ASSUME NEW j \in 1 .. k PROVE \E i \in Place : next[i] = list[j]
  <2>1. CASE j = k
    BY <1>2, <2>1
  <2>2. CASE j # k
    <3>1. j \in 1 .. k - 1
      BY <2>2
    <3>2. PICK i \in Place : g[i] = list[j]
      BY <3>1 DEF KeptAfter
    <3>3. QED BY <3>2, <1>1, <1>2
  <2>3. QED BY <2>1, <2>2
<1>5. KeptAfter(h, next, list, k)
  BY <1>2, <1>3, <1>4 DEF KeptAfter
<1>6. QED BY <1>5 DEF next

\* The function exists: there is no least length without one.
LEMMA SettledTablesExist ==
  ASSUME NEW h \in HandleTables, KeepsApart(h), NEW list \in BoundLists
  PROVE  \E table :
           table = [i \in 0 .. Len(list) |->
                      IF i = 0 THEN h ELSE Settled(table[i - 1], list, list[i])]
<1> DEFINE Reaches(t, n) ==
             /\ t[0] = h
             /\ \A i \in 1 .. n : t[i] = Settled(t[i - 1], list, list[i])
             /\ \A i \in 0 .. n : KeptAfter(h, t[i], list, i)
           Tables(n) == {t \in [0 .. n -> HandleTables] : Reaches(t, n)}
           Without == {n \in 0 .. Len(list) : Tables(n) = {}}
<1>0. Len(list) \in Nat
  BY DEF BoundLists
<1>1. Without = {}
  <2> SUFFICES ASSUME Without # {} PROVE FALSE
    OBVIOUS
  <2>1. PICK n \in Without : \A m \in Without : n <= m
    <3>1. Without \in SUBSET Nat
      BY <1>0
    <3>2. QED BY <3>1, LeastOf
  <2>2. n \in 0 .. Len(list) /\ Tables(n) = {}
    BY <2>1
  <2>3. CASE n = 0
    <3> DEFINE t == [i \in 0 .. 0 |-> h]
    <3>1. t \in [0 .. 0 -> HandleTables] /\ t[0] = h
      OBVIOUS
    <3>2. KeptAfter(h, h, list, 0)
      BY DEF KeptAfter
    <3>3. Reaches(t, 0)
      BY <3>1, <3>2
    <3>4. QED BY <2>2, <2>3, <3>1, <3>3
  <2>4. CASE n # 0
    <3>1. n \in 1 .. Len(list) /\ n - 1 \in 0 .. Len(list) /\ n - 1 < n
      BY <2>2, <2>4, <1>0
    <3>2. n - 1 \notin Without
      <4>1. ~(n <= n - 1)
        BY <3>1
      <4>2. QED BY ONLY <2>1, <4>1
    <3>3. PICK s \in [0 .. n - 1 -> HandleTables] : Reaches(s, n - 1)
      BY <3>1, <3>2
    <3> DEFINE last == Settled(s[n - 1], list, list[n])
               t == [i \in 0 .. n |-> IF i = n THEN last ELSE s[i]]
    <3>4. KeptAfter(h, s[n - 1], list, n - 1)
      BY <3>1, <3>3
    <3>5. KeptAfter(h, last, list, n)
      BY <3>1, <3>4, KeptAfterOneMore
    <3>6. last \in HandleTables
      BY <3>5 DEF KeptAfter
    <3> HIDE DEF last
    <3>7. t \in [0 .. n -> HandleTables] /\ t[n] = last
      BY <3>1, <3>3, <3>6
    <3>8. \A i \in 0 .. n - 1 : t[i] = s[i]
      BY <3>1
    <3> HIDE DEF t
    <3>9. t[0] = h
      BY <3>1, <3>3, <3>8
    <3>10. ASSUME NEW i \in 1 .. n
           PROVE  t[i] = Settled(t[i - 1], list, list[i])
      <4>1. t[i - 1] = s[i - 1]
        BY <3>1, <3>8
      <4>2. CASE i = n
        BY <4>1, <4>2, <3>7 DEF last
      <4>3. CASE i # n
        <5>1. i \in 1 .. n - 1 /\ t[i] = s[i]
          BY <4>3, <3>1, <3>8
        <5>2. QED BY <5>1, <4>1, <3>3
      <4>4. QED BY <4>2, <4>3
    <3>11. ASSUME NEW i \in 0 .. n PROVE KeptAfter(h, t[i], list, i)
      <4>1. CASE i = n
        BY <4>1, <3>5, <3>7
      <4>2. CASE i # n
        <5>1. i \in 0 .. n - 1 /\ t[i] = s[i]
          BY <4>2, <3>1, <3>8
        <5>2. QED BY <5>1, <3>3
      <4>3. QED BY <4>1, <4>2
    <3>12. Reaches(t, n)
      BY <3>9, <3>10, <3>11
    <3>13. QED BY <3>7, <3>12, <2>2
  <2>5. QED BY <2>3, <2>4
<1>2. PICK t \in [0 .. Len(list) -> HandleTables] : Reaches(t, Len(list))
  BY <1>0, <1>1
<1>3. t = [i \in 0 .. Len(list) |->
             IF i = 0 THEN h ELSE Settled(t[i - 1], list, list[i])]
  <2>1. \A i \in 0 .. Len(list) :
          t[i] = IF i = 0 THEN h ELSE Settled(t[i - 1], list, list[i])
    BY <1>0, <1>2
  <2>2. t = [i \in 0 .. Len(list) |-> t[i]]
    BY <1>2
  <2>3. QED BY ONLY <2>1, <2>2
<1>4. QED BY <1>3

\* Nor is there a least number of adapters after which it fails.
LEMMA AllSettledKeeps ==
  ASSUME NEW h \in HandleTables, KeepsApart(h), NEW list \in BoundLists
  PROVE  KeptAfter(h, AllSettled(h, list), list, Len(list))
<1> DEFINE Def(t) == [i \in 0 .. Len(list) |->
                        IF i = 0 THEN h ELSE Settled(t[i - 1], list, list[i])]
<1>1. Len(list) \in Nat
  BY DEF BoundLists
<1> DEFINE t == SettledTables(h, list)
<1>2. t = Def(t)
  BY SettledTablesExist DEF SettledTables
<1>3. t[0] = h /\ \A i \in 1 .. Len(list) : t[i] = Settled(t[i - 1], list, list[i])
  BY <1>1, <1>2
<1>4. AllSettled(h, list) = t[Len(list)]
  BY DEF AllSettled, SettledTables
<1> HIDE DEF t
<1> DEFINE Wrong == {i \in 0 .. Len(list) : ~KeptAfter(h, t[i], list, i)}
<1>5. Wrong = {}
  <2> SUFFICES ASSUME Wrong # {} PROVE FALSE
    OBVIOUS
  <2>1. PICK n \in Wrong : \A m \in Wrong : n <= m
    <3>1. Wrong \in SUBSET Nat
      BY <1>1
    <3>2. QED BY <3>1, LeastOf
  <2>2. CASE n = 0
    BY <2>1, <2>2, <1>3 DEF KeptAfter
  <2>3. CASE n # 0
    <3>1. n \in 1 .. Len(list) /\ n - 1 \in 0 .. Len(list) /\ n - 1 < n
      BY <2>1, <2>3, <1>1
    <3>2. KeptAfter(h, t[n - 1], list, n - 1)
      BY <3>1, <2>1
    <3>3. KeptAfter(h, t[n], list, n)
      BY <3>1, <3>2, <1>3, KeptAfterOneMore
    <3>4. QED BY <3>3, <2>1
  <2>4. QED BY <2>2, <2>3
<1>6. QED BY <1>1, <1>4, <1>5

-----------------------------------------------------------------------------
(* Each step keeps the invariant *)

LEMMA NoListIsList ==
  <<>> \in BoundLists /\ NoList \in [number : Nat, adapters : BoundLists]
  /\ NoList.number = 0
<1>1. <<>> \in BoundLists
  BY EmptySeq, HandleTableAssumption DEF BoundLists
<1>2. QED BY <1>1 DEF NoList

LEMMA HandleInvInit == HandleInit => HandleInv
<1> SUFFICES ASSUME HandleInit PROVE HandleInv
  OBVIOUS
<1>1. <<>> \in BoundLists
  BY NoListIsList
<1>2. ListsOfTheDriver
  <2>1. fetched \in [Caller -> [number : Nat, adapters : BoundLists]]
        /\ \A c \in Caller : fetched[c].number = 0
    BY <1>1, NoListIsList DEF HandleInit
  <2>2. /\ present = <<>> /\ filled = FALSE /\ disordered = FALSE
        /\ fetches = 0 /\ newest = 0
    BY DEF HandleInit
  <2>3. 0 <= MaxFetches
    BY HandleTableAssumption
  <2>4. present \in BoundLists /\ fetches \in Nat /\ newest \in Nat
        /\ newest <= fetches /\ fetches <= MaxFetches
    BY ONLY <1>1, <2>2, <2>3
  <2>5. \A c \in Caller : fetched[c].number <= fetches
    BY ONLY <2>1, <2>2
  <2>6. filled \in BOOLEAN /\ disordered \in BOOLEAN
    BY ONLY <2>2
  <2>7. QED BY ONLY <2>1, <2>4, <2>5, <2>6 DEF ListsOfTheDriver
<1>3. TableKeepsApart
  BY DEF HandleInit, TableKeepsApart, HandleTables, KeepsApart
<1>4. GivenPlacesLead /\ EmptyUntilFilled
  <2>1. DOMAIN given = {}
    BY DEF HandleInit
  <2>2. QED BY <2>1 DEF HandleInit, GivenPlacesLead, EmptyUntilFilled
<1>5. QED BY <1>2, <1>3, <1>4 DEF HandleInv

LEMMA AppendedIsList ==
  ASSUME NEW list \in BoundLists, NEW x \in Bound, x \notin ToSet(list),
         Len(list) < ListSize
  PROVE  Append(list, x) \in BoundLists
<1>1. \A i \in 1 .. Len(list) : list[i] # x
  BY ListedOnes
<1>2. list \in Seq(Bound) /\ \A i, j \in 1 .. Len(list) : list[i] = list[j] => i = j
  BY DEF BoundLists
<1>3. /\ Append(list, x) \in Seq(Bound) /\ Len(Append(list, x)) = Len(list) + 1
      /\ Len(list) + 1 <= ListSize
  BY <1>2, HandleTableAssumption
<1>4. ASSUME NEW i \in 1 .. Len(list) + 1, NEW j \in 1 .. Len(list) + 1,
             Append(list, x)[i] = Append(list, x)[j]
      PROVE  i = j
  BY <1>1, <1>2, <1>4
<1>5. QED BY <1>3, <1>4 DEF BoundLists

LEMMA RestIsList ==
  ASSUME NEW list \in BoundLists, NEW i \in 1 .. Len(list)
  PROVE  RemoveAt(list, i) \in BoundLists
<1> DEFINE rest == RemoveAt(list, i)
<1>1. list \in Seq(Bound) /\ Len(list) \in Nat /\ Len(list) <= ListSize
      /\ \A j, k \in 1 .. Len(list) : list[j] = list[k] => j = k
  BY DEF BoundLists
<1> DEFINE before == SubSeq(list, 1, i - 1)
           after  == SubSeq(list, i + 1, Len(list))
<1>2. /\ before \in Seq(Bound) /\ Len(before) = i - 1
      /\ \A j \in 1 .. i - 1 : before[j] = list[j]
  BY <1>1
<1>3. /\ after \in Seq(Bound) /\ Len(after) = Len(list) - i
      /\ \A j \in 1 .. Len(list) - i : after[j] = list[i + j]
  BY <1>1
<1>4. rest = before \o after
  BY DEF RemoveAt
<1> HIDE DEF rest, before, after
<1>5. rest \in Seq(Bound) /\ Len(rest) = Len(list) - 1
  BY <1>1, <1>2, <1>3, <1>4
<1>6. ASSUME NEW j \in 1 .. Len(list) - 1
      PROVE  rest[j] = IF j < i THEN list[j] ELSE list[j + 1]
  <2>1. CASE j < i
    <3>1. rest[j] = before[j]
      BY <1>1, <1>2, <1>3, <1>4, <2>1
    <3>2. QED BY <3>1, <1>1, <1>2, <2>1
  <2>2. CASE ~(j < i)
    <3>1. rest[j] = after[j - (i - 1)]
      BY <1>1, <1>2, <1>3, <1>4, <2>2
    <3>2. j - (i - 1) \in 1 .. Len(list) - i /\ i + (j - (i - 1)) = j + 1
      BY <1>1, <2>2
    <3>3. after[j - (i - 1)] = list[i + (j - (i - 1))]
      BY <3>2, <1>3
    <3>4. QED BY <3>1, <3>2, <3>3, <2>2
  <2>3. QED BY <2>1, <2>2
<1>7. /\ rest \in Seq(Bound) /\ Len(rest) = Len(list) - 1
      /\ \A j \in 1 .. Len(list) - 1 : rest[j] = IF j < i THEN list[j] ELSE list[j + 1]
  BY <1>5, <1>6
<1> HIDE DEF rest
<1>8. ASSUME NEW j \in 1 .. Len(list) - 1, NEW k \in 1 .. Len(list) - 1,
             rest[j] = rest[k]
      PROVE  j = k
  BY <1>1, <1>7, <1>8
<1>9. Len(list) - 1 <= ListSize
  BY <1>1, HandleTableAssumption
<1>10. rest \in BoundLists
  BY <1>7, <1>8, <1>9 DEF BoundLists
<1>11. QED BY <1>10 DEF rest

LEMMA FilledOnce ==
  ASSUME NEW h \in HandleTables, \A i \in Place : h[i] = Free,
         NEW list \in BoundLists
  PROVE  KeptAfter(h, FirstFill(h, list), list, Len(list))
<1> DEFINE g == FirstFill(h, list)
<1>1. DOMAIN list = 1 .. Len(list) /\ Len(list) \in Nat /\ Len(list) <= ListSize
      /\ \A i \in 1 .. Len(list) : list[i] \in Bound
  BY DEF BoundLists
<1>2. \A i \in Place : g[i] = IF i \in 1 .. Len(list) THEN list[i] ELSE Free
  BY <1>1 DEF FirstFill
<1>3. g \in HandleTables
  BY <1>1 DEF FirstFill, HandleTables
<1>4. 1 .. Len(list) \subseteq Place
  BY <1>1, HandleTableAssumption DEF Place
<1> HIDE DEF g
<1>5. KeepsApart(g)
  BY <1>1, <1>2, HandleTableAssumption DEF KeepsApart, BoundLists
<1>6. \A i \in Place : h[i] \notin ToSet(list)
  BY ListedOnes
<1>7. \A j \in 1 .. Len(list) : \E i \in Place : g[i] = list[j]
  BY <1>2, <1>4
<1>8. QED BY <1>3, <1>5, <1>6, <1>7 DEF KeptAfter, g

LEMMA UpdatedTableKeeps ==
  ASSUME HandleInv, NEW list \in BoundLists
  PROVE  KeptAfter(handle, UpdatedTable(handle, list), list, Len(list))
<1>1. handle \in HandleTables /\ KeepsApart(handle)
  BY DEF HandleInv, TableKeepsApart
<1>2. CASE filled
  BY <1>1, <1>2, AllSettledKeeps DEF UpdatedTable
<1>3. CASE ~filled
  BY <1>1, <1>3, FilledOnce DEF UpdatedTable, HandleInv, EmptyUntilFilled
<1>4. QED BY <1>2, <1>3

\* What a list tells: whoever is in it has a place, the one it had if it was
\* told one before.
LEMMA ToldPlacesLead ==
  ASSUME HandleInv, NEW list \in BoundLists, NEW now,
         now = UpdatedTable(handle, list), ~disordered
  PROVE  \A x \in ToSet(list) :
           /\ x \in Bound
           /\ x \in DOMAIN given => given[x] \in Place /\ now[given[x]] = x
           /\ x \notin DOMAIN given => PlaceOf(now, x) \in Place
                                       /\ now[PlaceOf(now, x)] = x
<1> SUFFICES ASSUME NEW x \in ToSet(list)
             PROVE  /\ x \in Bound
                    /\ x \in DOMAIN given => given[x] \in Place /\ now[given[x]] = x
                    /\ x \notin DOMAIN given => PlaceOf(now, x) \in Place
                                                /\ now[PlaceOf(now, x)] = x
  OBVIOUS
<1>1. KeptAfter(handle, now, list, Len(list))
  BY UpdatedTableKeeps
<1>2. x \in Bound
  BY ListedOnes
<1>3. ASSUME x \in DOMAIN given PROVE given[x] \in Place /\ now[given[x]] = x
  <2>1. given[x] \in Place /\ handle[given[x]] = x
    BY <1>3 DEF HandleInv, GivenPlacesLead
  <2>2. QED BY <2>1, <1>1 DEF KeptAfter
<1>4. \E i \in Place : now[i] = x
  BY <1>1, ListedOnes DEF KeptAfter
<1>5. PlaceOf(now, x) \in Place /\ now[PlaceOf(now, x)] = x
  BY <1>4 DEF PlaceOf
<1>6. QED BY <1>2, <1>3, <1>5

LEMMA BringInKeepsInv ==
  ASSUME HandleInv, NEW c \in Caller, BringIn(c)
  PROVE  HandleInv'
<1> DEFINE list == fetched[c].adapters
           now == UpdatedTable(handle, list)
<1>1. /\ fetched[c] # NoList /\ handle' = now /\ filled' = TRUE
      /\ fetched' = [fetched EXCEPT ![c] = NoList]
      /\ present' = present /\ fetches' = fetches
  BY DEF BringIn
<1>2. list \in BoundLists /\ fetched[c].number \in Nat /\ fetched[c].number <= fetches
  BY DEF HandleInv, ListsOfTheDriver
<1>3. \/ /\ fetched[c].number < newest /\ disordered' = TRUE
         /\ newest' = newest /\ given' = given
      \/ /\ ~(fetched[c].number < newest) /\ disordered' = disordered
         /\ newest' = fetched[c].number
         /\ given' = [x \in ToSet(list) |-> IF x \in DOMAIN given THEN given[x]
                                            ELSE PlaceOf(now, x)]
  BY DEF BringIn
<1>4. KeptAfter(handle, now, list, Len(list))
  BY <1>2, UpdatedTableKeeps
<1>5. ~disordered => \A x \in ToSet(list) :
           /\ x \in DOMAIN given => given[x] \in Place /\ now[given[x]] = x
           /\ x \notin DOMAIN given => PlaceOf(now, x) \in Place
                                       /\ now[PlaceOf(now, x)] = x
  BY <1>2, ToldPlacesLead
<1>6. ToSet(list) \subseteq Bound
  BY <1>2, ListedOnes
<1> HIDE DEF list, now
<1>7. fetched' \in [Caller -> [number : Nat, adapters : BoundLists]]
      /\ \A d \in Caller : fetched'[d].number <= fetches
  BY <1>1, NoListIsList DEF HandleInv, ListsOfTheDriver
<1>8. ListsOfTheDriver'
  BY <1>1, <1>2, <1>3, <1>7 DEF HandleInv, ListsOfTheDriver
<1>9. TableKeepsApart'
  BY <1>1, <1>4 DEF KeptAfter, TableKeepsApart, KeepsApart
<1>10. GivenPlacesLead'
  <2>1. CASE disordered'
    BY <1>3, <1>6, <2>1 DEF HandleInv, GivenPlacesLead
  <2>2. CASE ~disordered'
    <3>1. ~disordered /\ given' = [x \in ToSet(list) |->
                            IF x \in DOMAIN given THEN given[x] ELSE PlaceOf(now, x)]
      BY <1>3, <2>2
    <3>2. DOMAIN given' = ToSet(list)
      BY <3>1
    <3>3. \A x \in ToSet(list) : given'[x] \in Place /\ now[given'[x]] = x
      BY <3>1, <1>5
    <3>4. QED BY <3>2, <3>3, <1>1, <1>6 DEF GivenPlacesLead
  <2>3. QED BY <2>1, <2>2
<1>11. EmptyUntilFilled'
  BY <1>1 DEF EmptyUntilFilled
<1>12. QED BY <1>8, <1>9, <1>10, <1>11 DEF HandleInv

LEMMA HandleInvNext == HandleInv /\ [HandleNext]_handleVars => HandleInv'
<1> SUFFICES ASSUME HandleInv, [HandleNext]_handleVars PROVE HandleInv'
  OBVIOUS
<1>1. ASSUME UNCHANGED <<handle, filled, newest, given, disordered>>,
             ListsOfTheDriver'
      PROVE  HandleInv'
  BY <1>1 DEF HandleInv, TableKeepsApart, KeepsApart, GivenPlacesLead, EmptyUntilFilled
<1>2. ASSUME NEW x \in Bound, Bind(x) PROVE HandleInv'
  <2>1. present' \in BoundLists
    BY <1>2, AppendedIsList DEF Bind, HandleInv, ListsOfTheDriver
  <2>2. ListsOfTheDriver'
    BY <1>2, <2>1 DEF Bind, HandleInv, ListsOfTheDriver
  <2>3. QED BY <1>1, <1>2, <2>2 DEF Bind
<1>3. ASSUME NEW x \in Bound, Unbind(x) PROVE HandleInv'
  <2>1. present' \in BoundLists
    <3>1. present \in BoundLists /\ DOMAIN present = 1 .. Len(present)
      BY DEF HandleInv, ListsOfTheDriver, BoundLists
    <3>2. PICK i \in DOMAIN present : present' = RemoveAt(present, i)
      BY <1>3 DEF Unbind
    <3>3. QED BY <3>1, <3>2, RestIsList
  <2>2. ListsOfTheDriver'
    BY <1>3, <2>1 DEF Unbind, HandleInv, ListsOfTheDriver
  <2>3. QED BY <1>1, <1>3, <2>2 DEF Unbind
<1>4. ASSUME NEW c \in Caller, Fetch(c) PROVE HandleInv'
  <2>1. ListsOfTheDriver'
    BY <1>4, HandleTableAssumption DEF Fetch, HandleInv, ListsOfTheDriver
  <2>2. QED BY <1>1, <1>4, <2>1 DEF Fetch
<1>5. ASSUME NEW c \in Caller, BringIn(c) PROVE HandleInv'
  BY <1>5, BringInKeepsInv
<1>6. CASE UNCHANGED handleVars
  <2>1. ListsOfTheDriver'
    BY <1>6 DEF handleVars, HandleInv, ListsOfTheDriver
  <2>2. QED BY <1>1, <1>6, <2>1 DEF handleVars
<1>7. QED BY <1>2, <1>3, <1>4, <1>5, <1>6 DEF HandleNext

\* CWow64Helper::Update: the place that was told for an adapter leads to it for
\* as long as the lists name it, whatever adapters come and go and however many
\* callers fetch lists, as long as these are brought in in the order of fetching.
THEOREM TablePlacesHold == HandleSpec => []HandlesLeadBack
<1>1. HandleInv => HandlesLeadBack
  BY DEF HandleInv, GivenPlacesLead, HandlesLeadBack
<1>2. QED BY <1>1, HandleInvInit, HandleInvNext, PTL DEF HandleSpec

\* The types of the table of handles: no two places have the same adapter, and
\* a list that was brought in is one that was fetched.
THEOREM HandleTypes == HandleSpec => []HandleTypeOK
<1>1. HandleInv => HandleTypeOK
  <2> SUFFICES ASSUME HandleInv PROVE HandleTypeOK
    OBVIOUS
  <2>1. ToSet(present) \subseteq Bound /\ Len(present) <= ListSize
    BY ListedOnes DEF HandleInv, ListsOfTheDriver, BoundLists
  <2>2. fetches \in 0 .. MaxFetches /\ newest \in 0 .. fetches
    BY HandleTableAssumption DEF HandleInv, ListsOfTheDriver
  <2>3. filled \in BOOLEAN /\ disordered \in BOOLEAN /\ DOMAIN given \subseteq Bound
    BY DEF HandleInv, ListsOfTheDriver, GivenPlacesLead
  <2>4. handle \in [Place -> Bound \cup {Free}]
        /\ \A i, j \in Place : handle[i] = handle[j] => i = j \/ handle[i] = Free
    BY DEF HandleInv, TableKeepsApart, HandleTables, KeepsApart
  <2>5. QED BY <2>1, <2>2, <2>3, <2>4 DEF HandleTypeOK
<1>2. QED BY <1>1, HandleInvInit, HandleInvNext, PTL DEF HandleSpec

------------------------------------------------------------------------------
\* DirectRules: what the configuration lets out.

\* The rules that take part are those of the texts that name a protocol.
RulesOfTheTexts ==
  /\ texts \in Seq(RuleText)
  /\ Len(rules) <= Len(texts) /\ Len(texts) <= MaxRules
  /\ \E S : rules \in Seq(S)
  /\ ToSet(rules) = {ParsedRule(text) : text \in
                       {t \in ToSet(texts) : ParsedRule(t).tcp \/ ParsedRule(t).udp}}

-----------------------------------------------------------------------------
(* The mask of a prefix *)

HighestBits(n) == {b \in Bit : b <= n}

LEMMA NetMaskValue ==
  ASSUME NEW n \in Nat
  PROVE  NetMask[n] = HighestBits(n)
<1> DEFINE Rule(f) == f = [m \in Nat |-> IF m = 0 THEN {}
                                         ELSE ({b + 1 : b \in f[m - 1]} \cap Bit) \cup {1}]
           g == [m \in Nat |-> HighestBits(m)]
<1>1. AddressBits \in Nat \ {0}
  BY DirectRulesAssumption
<1>2. ASSUME NEW m \in Nat
      PROVE  HighestBits(m) = IF m = 0 THEN {}
                              ELSE ({b + 1 : b \in HighestBits(m - 1)} \cap Bit) \cup {1}
  <2>1. CASE m = 0
    BY <2>1 DEF HighestBits, Bit
  <2>2. CASE m # 0
    <3>1. ASSUME NEW b \in HighestBits(m)
          PROVE  b \in ({d + 1 : d \in HighestBits(m - 1)} \cap Bit) \cup {1}
      <4>1. CASE b = 1
        BY <4>1
      <4>2. CASE b # 1
        <5>1. b \in Bit /\ b - 1 \in HighestBits(m - 1) /\ b = (b - 1) + 1
          BY <1>1, <2>2, <4>2 DEF HighestBits, Bit
        <5>2. QED BY <5>1
      <4>3. QED BY <4>1, <4>2
    <3>2. ASSUME NEW b \in ({d + 1 : d \in HighestBits(m - 1)} \cap Bit) \cup {1}
          PROVE  b \in HighestBits(m)
      BY <1>1, <2>2 DEF HighestBits, Bit
    <3>3. QED BY <2>2, <3>1, <3>2
  <2>3. QED BY <2>1, <2>2
<1>3. Rule(g)
  <2>1. ASSUME NEW m \in Nat
        PROVE  HighestBits(m) = IF m = 0 THEN {}
                                ELSE ({b + 1 : b \in g[m - 1]} \cap Bit) \cup {1}
    <3>1. CASE m = 0
      BY <3>1, <1>2
    <3>2. CASE m # 0
      <4>1. g[m - 1] = HighestBits(m - 1)
        BY <3>2
      <4>2. QED BY <3>2, <4>1, <1>2
    <3>3. QED BY <3>1, <3>2
  <2>2. QED BY <2>1
<1> HIDE DEF g
<1>4. Rule(NetMask)
  BY <1>3 DEF NetMask
<1>5. \A m \in Nat : NetMask[m] = IF m = 0 THEN {}
                                  ELSE ({b + 1 : b \in NetMask[m - 1]} \cap Bit) \cup {1}
  BY <1>4
<1> HIDE DEF Rule
<1> DEFINE Differing == {m \in Nat : NetMask[m] # HighestBits(m)}
<1>6. Differing = {}
  <2> SUFFICES ASSUME Differing # {} PROVE FALSE
    OBVIOUS
  <2>1. PICK m \in Differing : \A k \in Differing : m <= k
    BY LeastOf
  <2>2. m \in Nat /\ NetMask[m] # HighestBits(m)
    BY <2>1
  <2>3. CASE m = 0
    BY <2>2, <2>3, <1>2, <1>5
  <2>4. CASE m # 0
    <3>1. m - 1 \in Nat /\ ~(m <= m - 1)
      BY <2>2, <2>4
    <3>2. m - 1 \notin Differing
      BY ONLY <2>1, <3>1
    <3>3. NetMask[m - 1] = HighestBits(m - 1)
      BY <3>1, <3>2
    <3>4. QED BY <3>3, <2>2, <2>4, <1>2, <1>5
  <2>5. QED BY <2>3, <2>4
<1>7. QED BY <1>6

-----------------------------------------------------------------------------
(* One text and the rule that is read from it *)

LEMMA SubnetIsNetwork ==
  ASSUME NEW text \in CidrText, NEW host \in RemoteHost
  PROVE  /\ text.prefix # NoSlash /\ text.prefix > AddressBits =>
              FromCidr(text) = {} /\ Network(text) = {}
         /\ ~(text.prefix # NoSlash /\ text.prefix > AddressBits) =>
              /\ Network(text) # {}
              /\ \E net : /\ FromCidr(text) = {net}
                          /\ AddressInSubnet(host, net) <=> host \in Network(text)
<1>1. text.address \in SUBSET Bit /\ host \in SUBSET Bit
      /\ (text.prefix # NoSlash => text.prefix \in Nat)
      /\ AddressBits \in Nat \ {0}
  BY DirectRulesAssumption DEF RemoteHost, Bit
<1>2. CASE text.prefix = NoSlash
  <2>1. FromCidr(text) = {[address |-> text.address, mask |-> Bit]}
        /\ Network(text) = {text.address}
    BY <1>2 DEF FromCidr, Network
  <2>2. AddressInSubnet(host, [address |-> text.address, mask |-> Bit])
          <=> host = text.address
    BY <1>1 DEF AddressInSubnet
  <2>3. QED BY <1>2, <2>1, <2>2
<1>3. CASE text.prefix # NoSlash /\ text.prefix > AddressBits
  BY <1>3 DEF FromCidr, Network
<1>4. CASE text.prefix # NoSlash /\ ~(text.prefix > AddressBits)
  <2> DEFINE net == [address |-> text.address, mask |-> NetMask[text.prefix]]
  <2>1. FromCidr(text) = {net}
        /\ Network(text) = {h \in RemoteHost :
                              \A b \in 1 .. text.prefix : b \in h <=> b \in text.address}
    BY <1>4 DEF FromCidr, Network
  <2>2. net.mask = 1 .. text.prefix /\ net.address = text.address
    <3>1. HighestBits(text.prefix) = 1 .. text.prefix
      BY <1>1, <1>4 DEF HighestBits, Bit
    <3>2. QED BY <1>1, <1>4, <3>1, NetMaskValue
  <2> HIDE DEF net
  <2>3. AddressInSubnet(host, net)
          <=> \A b \in 1 .. text.prefix : b \in host <=> b \in text.address
    BY <2>2 DEF AddressInSubnet
  <2>4. text.address \in Network(text)
    BY <1>1, <2>1 DEF RemoteHost
  <2>5. QED BY <1>4, <2>1, <2>3, <2>4
<1>5. QED BY <1>2, <1>3, <1>4

\* parse_port_range puts the smaller port first.
LEMMA RangeCovers ==
  ASSUME NEW text \in PortText, NEW port \in Nat
  PROVE  /\ PortRange(text).from <= PortRange(text).to
         /\ (PortRange(text).from <= port /\ port <= PortRange(text).to) <=>
               \/ text[1] <= port /\ port <= text[2]
               \/ text[2] <= port /\ port <= text[1]
<1>1. text[1] \in Nat /\ text[2] \in Nat
  BY DirectRulesAssumption DEF PortText
<1>2. CASE text[1] > text[2]
  <2>1. PortRange(text).from = text[2] /\ PortRange(text).to = text[1]
    BY <1>2 DEF PortRange
  <2>2. QED BY <1>1, <1>2, <2>1
<1>3. CASE ~(text[1] > text[2])
  <2>1. PortRange(text).from = text[1] /\ PortRange(text).to = text[2]
    BY <1>3 DEF PortRange
  <2>2. QED BY <1>1, <1>3, <2>1
<1>4. QED BY <1>2, <1>3

LEMMA RuleTextFields ==
  ASSUME NEW text \in RuleText
  PROVE  /\ text.apps \in SUBSET AppText
         /\ Readable(text.ports) \in SUBSET PortText
         /\ text.hosts \in SUBSET CidrText
BY DEF RuleText, ListOf, Readable

\* Whether the rule of a text lets a connection out
RuleMatches(rule, c) ==
  /\ IF c.protocol = "tcp" THEN rule.tcp ELSE rule.udp
  /\ MatchesProcess(rule, c) /\ MatchesPort(rule, c) /\ MatchesCidr(rule, c)

LEMMA RuleMeansItsText ==
  ASSUME NEW text \in RuleText, NEW c \in NewConnection
  PROVE  RuleMatches(ParsedRule(text), c) <=> Says(text, c)
<1> DEFINE rule == ParsedRule(text)
<1>1. c.protocol \in {"tcp", "udp"} /\ c.port \in Nat /\ c.host \in RemoteHost
  BY DirectRulesAssumption DEF NewConnection
<1>2. /\ rule.tcp = Matched(text.networks, "tcp")
      /\ rule.udp = Matched(text.networks, "udp")
      /\ rule.apps = text.apps
      /\ rule.ports = {PortRange(p) : p \in Readable(text.ports)}
      /\ rule.hosts = UNION {FromCidr(h) : h \in text.hosts}
  BY DEF ParsedRule
<1> HIDE DEF rule
<1>3. (IF c.protocol = "tcp" THEN rule.tcp ELSE rule.udp) <=>
        (text.networks # {} => text.networks \cap {c.protocol, "both"} # {})
  BY <1>1, <1>2 DEF Matched
<1>4. MatchesProcess(rule, c) <=> (text.apps # {} => \E S \in text.apps : c.app \in S)
  BY <1>2 DEF MatchesProcess
<1>5. MatchesPort(rule, c) <=>
        (Readable(text.ports) # {} => \E p \in Readable(text.ports) :
                                         \/ p[1] <= c.port /\ c.port <= p[2]
                                         \/ p[2] <= c.port /\ c.port <= p[1])
  <2>1. \A p \in Readable(text.ports) :
          (PortRange(p).from <= c.port /\ c.port <= PortRange(p).to) <=>
               \/ p[1] <= c.port /\ c.port <= p[2]
               \/ p[2] <= c.port /\ c.port <= p[1]
    BY <1>1, RuleTextFields, RangeCovers
  <2>2. QED BY <1>2, <2>1 DEF MatchesPort
<1>6. MatchesCidr(rule, c) <=>
        ({Network(h) : h \in text.hosts} \ {{}} # {} =>
           \E S \in {Network(h) : h \in text.hosts} \ {{}} : c.host \in S)
  <2> DEFINE Refused(h) == h.prefix # NoSlash /\ h.prefix > AddressBits
  <2>1. \A h \in text.hosts : h \in CidrText
    BY RuleTextFields
  <2>2. \A h \in text.hosts :
          /\ Refused(h) => FromCidr(h) = {} /\ Network(h) = {}
          /\ ~Refused(h) =>
               /\ Network(h) # {}
               /\ \E net : /\ FromCidr(h) = {net}
                           /\ AddressInSubnet(c.host, net) <=> c.host \in Network(h)
    BY <1>1, <2>1, SubnetIsNetwork
  <2> HIDE DEF Refused
  <2>3. rule.hosts = {} <=> {Network(h) : h \in text.hosts} \ {{}} = {}
    BY <1>2, <2>2
  <2>4. (\E net \in rule.hosts : AddressInSubnet(c.host, net)) <=>
           \E h \in text.hosts : ~Refused(h) /\ c.host \in Network(h)
    <3>1. ASSUME NEW net \in rule.hosts, AddressInSubnet(c.host, net)
          PROVE  \E h \in text.hosts : ~Refused(h) /\ c.host \in Network(h)
      <4>1. PICK h \in text.hosts : net \in FromCidr(h)
        BY <1>2
      <4>2. ~Refused(h)
        BY <2>2, <4>1
      <4>3. PICK n : /\ FromCidr(h) = {n}
                     /\ AddressInSubnet(c.host, n) <=> c.host \in Network(h)
        BY <2>2, <4>2
      <4>4. net = n
        BY <4>1, <4>3
      <4>5. QED BY <3>1, <4>2, <4>3, <4>4
    <3>2. ASSUME NEW h \in text.hosts, ~Refused(h), c.host \in Network(h)
          PROVE  \E net \in rule.hosts : AddressInSubnet(c.host, net)
      <4>1. PICK n : /\ FromCidr(h) = {n}
                     /\ AddressInSubnet(c.host, n) <=> c.host \in Network(h)
        BY <2>2, <3>2
      <4>2. n \in rule.hosts
        BY <1>2, <4>1
      <4>3. QED BY <4>1, <4>2, <3>2
    <3>3. QED BY <3>1, <3>2
  <2>5. (\E S \in {Network(h) : h \in text.hosts} \ {{}} : c.host \in S) <=>
           \E h \in text.hosts : ~Refused(h) /\ c.host \in Network(h)
    BY <2>2
  <2>6. QED BY <2>3, <2>4, <2>5 DEF MatchesCidr
<1>7. RuleMatches(rule, c) <=> Says(text, c)
  BY <1>3, <1>4, <1>5, <1>6 DEF RuleMatches, Says, Names
<1>8. QED BY <1>7 DEF rule

-----------------------------------------------------------------------------
(* Each step keeps the invariant *)

LEMMA SetOfAppended ==
  ASSUME NEW S, NEW s \in Seq(S), NEW e
  PROVE  ToSet(Append(s, e)) = ToSet(s) \cup {e}
<1>1. DOMAIN s = 1 .. Len(s) /\ Len(s) \in Nat
  OBVIOUS
<1>2. DOMAIN Append(s, e) = 1 .. Len(s) + 1
  BY <1>1
<1>3. \A i \in 1 .. Len(s) + 1 : Append(s, e)[i] = IF i <= Len(s) THEN s[i] ELSE e
  BY <1>1
<1> DEFINE t == Append(s, e)
<1> HIDE DEF t
<1>4. DOMAIN t = 1 .. Len(s) + 1
      /\ \A i \in 1 .. Len(s) + 1 : t[i] = IF i <= Len(s) THEN s[i] ELSE e
  BY <1>2, <1>3 DEF t
<1>5. ToSet(t) = ToSet(s) \cup {e}
  <2>1. t[Len(s) + 1] = e /\ Len(s) + 1 \in DOMAIN t
    BY <1>1, <1>4
  <2>2. \A i \in DOMAIN s : i \in DOMAIN t /\ t[i] = s[i]
    BY <1>1, <1>4
  <2>3. \A i \in DOMAIN t : t[i] = e \/ (i \in DOMAIN s /\ t[i] = s[i])
    BY <1>1, <1>4
  <2>4. QED BY <2>1, <2>2, <2>3 DEF ToSet
<1>6. QED BY <1>5 DEF t

LEMMA RulesInvInit == RulesInit => RulesOfTheTexts
<1> SUFFICES ASSUME RulesInit PROVE RulesOfTheTexts
  OBVIOUS
<1>1. texts = <<>> /\ rules = <<>>
  BY DEF RulesInit
<1>2. ToSet(texts) = {} /\ ToSet(rules) = {} /\ texts \in Seq(RuleText)
      /\ Len(rules) = 0 /\ Len(texts) = 0 /\ rules \in Seq({})
  BY <1>1, EmptySeq DEF ToSet
<1>3. {ParsedRule(text) : text \in
                       {t \in ToSet(texts) : ParsedRule(t).tcp \/ ParsedRule(t).udp}} = {}
  BY <1>2
<1>4. QED BY <1>2, <1>3, DirectRulesAssumption DEF RulesOfTheTexts

LEMMA RulesInvNext == RulesOfTheTexts /\ [RulesNext]_ruleVars => RulesOfTheTexts'
<1> SUFFICES ASSUME RulesOfTheTexts, [RulesNext]_ruleVars PROVE RulesOfTheTexts'
  OBVIOUS
<1>1. ASSUME NEW text \in RuleText, AddRule(text) PROVE RulesOfTheTexts'
  <2> DEFINE rule == ParsedRule(text)
             NamesOne(t) == ParsedRule(t).tcp \/ ParsedRule(t).udp
             Of(T) == {ParsedRule(t) : t \in {u \in T : NamesOne(u)}}
  <2>1. PICK S : rules \in Seq(S)
    BY DEF RulesOfTheTexts
  <2>2. /\ Len(texts) < MaxRules /\ texts' = Append(texts, text)
        /\ rules' = IF NamesOne(text) THEN Append(rules, rule) ELSE rules
    BY <1>1 DEF AddRule
  <2>3. texts \in Seq(RuleText) /\ ToSet(rules) = Of(ToSet(texts))
        /\ Len(rules) <= Len(texts) /\ MaxRules \in Nat
    BY DirectRulesAssumption DEF RulesOfTheTexts
  <2>4. ToSet(texts') = ToSet(texts) \cup {text}
    BY <2>2, <2>3, SetOfAppended
  <2>5. texts' \in Seq(RuleText) /\ Len(texts') = Len(texts) + 1 /\ Len(texts) \in Nat
    BY <2>2, <2>3
  <2>6. rules' \in Seq(S \cup {rule}) /\ Len(rules') <= Len(rules) + 1
        /\ Len(rules') \in Nat /\ Len(rules) \in Nat
    <3>1. rules \in Seq(S \cup {rule})
      BY <2>1
    <3>2. QED BY <2>1, <2>2, <3>1
  <2>7. ToSet(rules') = IF NamesOne(text) THEN ToSet(rules) \cup {rule} ELSE ToSet(rules)
    BY <2>1, <2>2, SetOfAppended
  <2> HIDE DEF NamesOne, rule
  <2>8. ToSet(rules') = Of(ToSet(texts'))
    BY <2>3, <2>4, <2>7 DEF rule
  <2>9. Len(rules') <= Len(texts') /\ Len(texts') <= MaxRules
    BY <2>2, <2>3, <2>5, <2>6
  <2>10. QED BY <2>5, <2>6, <2>8, <2>9 DEF RulesOfTheTexts, NamesOne
<1>2. CASE UNCHANGED ruleVars
  BY <1>2 DEF ruleVars, RulesOfTheTexts
<1>3. QED BY <1>1, <1>2 DEF RulesNext

\* add_destination_direct_rule and match_destination_direct_rule: whatever texts
\* a configuration holds, in whatever order, a connection leaves directly when
\* one of them says so, read on its own, and otherwise not.
THEOREM RulesFollowTheirTexts == RulesSpec => []DirectAsConfigured
<1>1. RulesOfTheTexts => DirectAsConfigured
  <2> SUFFICES ASSUME RulesOfTheTexts, NEW c \in NewConnection
               PROVE  MatchesDirectRule(c) <=> \E text \in ToSet(texts) : Says(text, c)
    BY DEF DirectAsConfigured
  <2>1. \A text \in ToSet(texts) : text \in RuleText
    BY DEF RulesOfTheTexts, ToSet
  <2>2. \A text \in ToSet(texts) : RuleMatches(ParsedRule(text), c) <=> Says(text, c)
    BY <2>1, RuleMeansItsText
  <2>3. MatchesDirectRule(c) <=> \E rule \in ToSet(rules) : RuleMatches(rule, c)
    BY DEF MatchesDirectRule, RuleMatches
  <2>4. \A rule : RuleMatches(rule, c) => rule.tcp \/ rule.udp
    BY DEF RuleMatches
  <2>5. QED BY <2>2, <2>3, <2>4 DEF RulesOfTheTexts
<1>2. QED BY <1>1, RulesInvInit, RulesInvNext, PTL DEF RulesSpec

\* parse_port_range: no rule has a range that is upside down, and there are no
\* more rules than texts.
THEOREM RulesTypes == RulesSpec => []RulesTypeOK
<1>1. RulesOfTheTexts => RulesTypeOK
  <2> SUFFICES ASSUME RulesOfTheTexts PROVE RulesTypeOK
    OBVIOUS
  <2>1. ASSUME NEW rule \in ToSet(rules), NEW r \in rule.ports PROVE r.from <= r.to
    <3>1. PICK text \in ToSet(texts) : rule = ParsedRule(text)
      BY DEF RulesOfTheTexts
    <3>2. text \in RuleText
      BY DEF RulesOfTheTexts, ToSet
    <3>3. rule.ports = {PortRange(p) : p \in Readable(text.ports)}
      BY <3>1 DEF ParsedRule
    <3>4. PICK p \in Readable(text.ports) : r = PortRange(p)
      BY <2>1, <3>3
    <3>5. p \in PortText
      BY <3>2, <3>4, RuleTextFields
    <3>6. QED BY <3>4, <3>5, RangeCovers
  <2>2. QED BY <2>1 DEF RulesTypeOK, RulesOfTheTexts
<1>2. QED BY <1>1, RulesInvInit, RulesInvNext, PTL DEF RulesSpec

------------------------------------------------------------------------------
\* Checksum: what the redirect objects store.

(* The sum of one word more *)

\* A function that adds the first words up, one after the other
AddsUp(words, upTo) ==
  upTo = [i \in 0 .. Len(words) |-> IF i = 0 THEN 0 ELSE upTo[i - 1] + words[i]]

LEMMA PartialSums ==
  ASSUME NEW words \in Seq(Nat), NEW upTo
  PROVE  AddsUp(words, upTo) <=>
           /\ upTo \in [0 .. Len(words) -> Nat]
           /\ upTo[0] = 0
           /\ \A i \in 1 .. Len(words) : upTo[i] = upTo[i - 1] + words[i]
<1>1. Len(words) \in Nat /\ \A i \in 1 .. Len(words) : words[i] \in Nat
  OBVIOUS
<1>2. ASSUME AddsUp(words, upTo)
      PROVE  /\ upTo \in [0 .. Len(words) -> Nat]
             /\ upTo[0] = 0
             /\ \A i \in 1 .. Len(words) : upTo[i] = upTo[i - 1] + words[i]
  <2>1. /\ upTo[0] = 0
        /\ \A i \in 1 .. Len(words) : upTo[i] = upTo[i - 1] + words[i]
    BY <1>1, <1>2 DEF AddsUp
  <2> DEFINE Wrong == {i \in 0 .. Len(words) : upTo[i] \notin Nat}
  <2>2. Wrong = {}
    <3> SUFFICES ASSUME Wrong # {} PROVE FALSE
      OBVIOUS
    <3>1. PICK n \in Wrong : \A m \in Wrong : n <= m
      <4>1. Wrong \in SUBSET Nat
        BY <1>1
      <4>2. QED BY <4>1, LeastOf
    <3>2. n \in 1 .. Len(words) /\ n - 1 \in 0 .. Len(words) /\ ~(n <= n - 1)
      BY <3>1, <2>1, <1>1
    <3>3. upTo[n - 1] \in Nat
      BY <3>1, <3>2
    <3>4. upTo[n] \in Nat
      BY <3>2, <3>3, <2>1, <1>1
    <3>5. QED BY <3>1, <3>4
  <2>3. upTo = [i \in 0 .. Len(words) |-> upTo[i]]
    BY <1>2 DEF AddsUp
  <2>4. \A i \in 0 .. Len(words) : upTo[i] \in Nat
    BY <2>2
  <2>5. QED BY <2>1, <2>3, <2>4
<1>3. ASSUME upTo \in [0 .. Len(words) -> Nat], upTo[0] = 0,
             \A i \in 1 .. Len(words) : upTo[i] = upTo[i - 1] + words[i]
      PROVE  AddsUp(words, upTo)
  <2>1. \A i \in 0 .. Len(words) :
          upTo[i] = IF i = 0 THEN 0 ELSE upTo[i - 1] + words[i]
    BY <1>1, <1>3
  <2>2. upTo = [i \in 0 .. Len(words) |-> upTo[i]]
    BY <1>3
  <2>3. QED BY ONLY <2>1, <2>2 DEF AddsUp
<1>4. QED BY <1>2, <1>3

\* Two such functions agree as far as their words do.
LEMMA PartialSumsAgree ==
  ASSUME NEW v \in Seq(Nat), NEW w \in Seq(Nat), NEW f, NEW g,
         AddsUp(v, f), AddsUp(w, g), Len(v) <= Len(w),
         \A i \in 1 .. Len(v) : v[i] = w[i]
  PROVE  \A i \in 0 .. Len(v) : f[i] = g[i]
<1>1. Len(v) \in Nat /\ Len(w) \in Nat
  OBVIOUS
<1>2. f[0] = 0 /\ g[0] = 0
      /\ \A i \in 1 .. Len(v) : f[i] = f[i - 1] + v[i] /\ g[i] = g[i - 1] + v[i]
  BY <1>1, PartialSums
<1> DEFINE Differing == {i \in 0 .. Len(v) : f[i] # g[i]}
<1> SUFFICES ASSUME Differing # {} PROVE FALSE
  OBVIOUS
<1>3. PICK n \in Differing : \A m \in Differing : n <= m
  <2>1. Differing \in SUBSET Nat
    BY <1>1
  <2>2. QED BY <2>1, LeastOf
<1>4. n \in 1 .. Len(v) /\ n - 1 \in 0 .. Len(v) /\ ~(n <= n - 1)
  BY <1>1, <1>2, <1>3
<1>5. f[n - 1] = g[n - 1]
  BY <1>3, <1>4
<1>6. QED BY <1>2, <1>3, <1>4, <1>5

\* There is such a function: no length is the least without one.
LEMMA PartialSumsExist ==
  ASSUME NEW words \in Seq(Nat)
  PROVE  \E upTo : AddsUp(words, upTo)
<1> DEFINE Adds(f, n) == /\ f[0] = 0
                         /\ \A i \in 1 .. n : f[i] = f[i - 1] + words[i]
           Sums(n) == {f \in [0 .. n -> Nat] : Adds(f, n)}
           Without == {n \in 0 .. Len(words) : Sums(n) = {}}
<1>1. Len(words) \in Nat /\ \A i \in 1 .. Len(words) : words[i] \in Nat
  OBVIOUS
<1>2. Without = {}
  <2> SUFFICES ASSUME Without # {} PROVE FALSE
    OBVIOUS
  <2>1. PICK n \in Without : \A m \in Without : n <= m
    <3>1. Without \in SUBSET Nat
      BY <1>1
    <3>2. QED BY <3>1, LeastOf
  <2>2. n \in 0 .. Len(words) /\ Sums(n) = {}
    BY <2>1
  <2>3. CASE n = 0
    <3>1. [i \in 0 .. 0 |-> 0] \in Sums(0)
      OBVIOUS
    <3>2. QED BY <3>1, <2>2, <2>3
  <2>4. CASE n # 0
    <3>1. n \in 1 .. Len(words) /\ n - 1 \in 0 .. Len(words)
      BY <2>2, <2>4, <1>1
    <3>2. n - 1 \notin Without
      <4>1. ~(n <= n - 1)
        BY <3>1
      <4>2. QED BY ONLY <2>1, <4>1
    <3>3. PICK s \in [0 .. n - 1 -> Nat] : Adds(s, n - 1)
      BY <3>1, <3>2
    <3> DEFINE last == s[n - 1] + words[n]
               t == [i \in 0 .. n |-> IF i = n THEN last ELSE s[i]]
    <3>4. last \in Nat
      BY <3>1, <3>3, <1>1
    <3>5. t \in [0 .. n -> Nat] /\ t[n] = last /\ t[0] = 0
      BY <3>1, <3>3, <3>4
    <3>6. \A i \in 0 .. n - 1 : t[i] = s[i]
      BY <3>1
    <3> HIDE DEF t
    <3>7. ASSUME NEW i \in 1 .. n PROVE t[i] = t[i - 1] + words[i]
      <4>1. t[i - 1] = s[i - 1]
        BY <3>1, <3>6
      <4>2. CASE i = n
        BY <4>1, <4>2, <3>5
      <4>3. CASE i # n
        <5>1. i \in 1 .. n - 1 /\ t[i] = s[i]
          BY <4>3, <3>1, <3>6
        <5>2. QED BY <5>1, <4>1, <3>3
      <4>4. QED BY <4>2, <4>3
    <3>8. QED BY <3>5, <3>7, <2>2
  <2>5. QED BY <2>3, <2>4
<1>3. PICK f \in [0 .. Len(words) -> Nat] : Adds(f, Len(words))
  <2>1. Len(words) \in 0 .. Len(words)
    BY <1>1
  <2>2. Sums(Len(words)) # {}
    BY <1>2, <2>1
  <2>3. QED BY <2>2
<1>4. QED BY <1>3, PartialSums

\* The function that Sum reads its result from
AddingUp(words) ==
  CHOOSE upTo : upTo = [i \in 0 .. Len(words) |->
                          IF i = 0 THEN 0 ELSE upTo[i - 1] + words[i]]

LEMMA SumAddsUp ==
  ASSUME NEW words \in Seq(Nat)
  PROVE  AddsUp(words, AddingUp(words)) /\ Sum(words) = AddingUp(words)[Len(words)]
<1>1. AddsUp(words, AddingUp(words))
  BY PartialSumsExist DEF AddingUp, AddsUp
<1>2. Sum(words) = AddingUp(words)[Len(words)]
  BY DEF Sum, AddingUp
<1>3. QED BY <1>1, <1>2

LEMMA SumType ==
  ASSUME NEW words \in Seq(Nat)
  PROVE  Sum(words) \in Nat
<1>1. AddingUp(words) \in [0 .. Len(words) -> Nat] /\ Len(words) \in 0 .. Len(words)
  BY SumAddsUp, PartialSums
<1>2. QED BY <1>1, SumAddsUp

LEMMA SumAppend ==
  ASSUME NEW words \in Seq(Nat), NEW w \in Nat
  PROVE  Sum(Append(words, w)) = Sum(words) + w
<1> DEFINE more == Append(words, w)
<1>0. PICK n : n = Len(words)
  OBVIOUS
<1>1. more \in Seq(Nat) /\ Len(more) = n + 1 /\ n \in Nat /\ more[n + 1] = w
      /\ \A i \in 1 .. n : more[i] = words[i]
  BY <1>0
<1> HIDE DEF more
<1> DEFINE f == AddingUp(words)
           g == AddingUp(more)
<1>2. AddsUp(words, f) /\ AddsUp(more, g) /\ Sum(words) = f[n] /\ Sum(more) = g[n + 1]
  BY <1>0, <1>1, SumAddsUp
<1> HIDE DEF f, g
<1>3. f[n] = g[n]
  <2>1. n <= Len(more) /\ n \in 0 .. n
    BY <1>1
  <2>2. \A i \in 0 .. Len(words) : f[i] = g[i]
    BY <1>0, <1>1, <1>2, <2>1, PartialSumsAgree
  <2>3. QED BY <2>1, <2>2, <1>0
<1>4. g[n + 1] = g[n + 1 - 1] + w
  <2>1. n + 1 \in 1 .. Len(more)
    BY <1>1
  <2>2. \A i \in 1 .. Len(more) : g[i] = g[i - 1] + more[i]
    BY <1>1, <1>2, PartialSums
  <2>3. g[n + 1] = g[n + 1 - 1] + more[n + 1]
    BY ONLY <1>1, <2>1, <2>2
  <2>4. QED BY <2>3, <1>1
<1>5. n + 1 - 1 = n
  BY <1>1
<1>6. Sum(more) = Sum(words) + w
  BY <1>2, <1>3, <1>4, <1>5
<1>7. QED BY <1>6 DEF more

-----------------------------------------------------------------------------
(* Carries and remainders *)

LEMMA BaseIsLarge == Base \in Nat /\ Base >= 4 /\ Base - 1 \in Nat \ {0}
<1>1. HalfBase \in Nat /\ HalfBase >= 2
  BY ChecksumAssumption
<1>2. HalfBase * HalfBase >= 2 * HalfBase
  BY <1>1
<1>3. QED BY <1>1, <1>2 DEF Base

LEMMA Division ==
  ASSUME NEW n \in Nat, NEW d \in Nat \ {0}
  PROVE  /\ n \div d \in Nat /\ n % d \in 0 .. d - 1
         /\ n = (n \div d) * d + (n % d)
<1>1. n \div d \in Nat
  OBVIOUS
<1>2. n % d \in 0 .. d - 1
  OBVIOUS
<1>3. n = d * (n \div d) + (n % d)
  OBVIOUS
<1>4. d * (n \div d) = (n \div d) * d
  BY <1>1
<1>5. QED BY <1>1, <1>2, <1>3, <1>4

\* Quotient and remainder are the only ones.
LEMMA DivisionUnique ==
  ASSUME NEW d \in Nat \ {0}, NEW q \in Nat, NEW r \in 0 .. d - 1
  PROVE  (q * d + r) % d = r
<1> DEFINE n == q * d + r
           p == n \div d
           s == n % d
<1>1. q * d \in Nat
  OBVIOUS
<1>2. n \in Nat
  BY <1>1
<1>3. p \in Nat /\ s \in 0 .. d - 1 /\ n = p * d + s
  BY <1>2, Division
<1> HIDE DEF p, s
<1>4. p * d \in Nat /\ q * d + r = p * d + s
  BY <1>3
<1>5. CASE p < q
  <2>1. p + 1 <= q
    BY <1>3, <1>5
  <2>2. (p + 1) * d <= q * d
    BY <2>1, <1>3
  <2>3. (p + 1) * d = p * d + d
    BY <1>3
  <2>4. QED BY <2>2, <2>3, <1>1, <1>3, <1>4
<1>6. CASE q < p
  <2>1. q + 1 <= p
    BY <1>3, <1>6
  <2>2. (q + 1) * d <= p * d
    BY <2>1, <1>3
  <2>3. (q + 1) * d = q * d + d
    BY <1>3
  <2>4. QED BY <2>2, <2>3, <1>1, <1>3, <1>4
<1>7. CASE p = q
  BY <1>1, <1>3, <1>4, <1>7 DEF s
<1>8. QED BY <1>3, <1>5, <1>6, <1>7

\* A carry leaves the remainder of Base - 1 as it is: a carry is Base in the sum
\* and 1 in the sum after it.
LEMMA CarryKeepsRemainder ==
  ASSUME NEW n \in Nat, n >= Base
  PROVE  /\ (n % Base) + (n \div Base) \in Nat
         /\ (n % Base) + (n \div Base) < n
         /\ (n % Base) + (n \div Base) > 0
         /\ ((n % Base) + (n \div Base)) % (Base - 1) = n % (Base - 1)
<1>1. PICK b, q, r, m : b = Base /\ q = n \div Base /\ r = n % Base /\ m = r + q
  OBVIOUS
<1>2. b \in Nat /\ b >= 4 /\ b - 1 \in Nat \ {0}
  BY BaseIsLarge, <1>1
<1>3. q \in Nat /\ r \in 0 .. b - 1 /\ n = q * b + r
  <2>1. b \in Nat \ {0} /\ q = n \div b /\ r = n % b
    BY <1>1, <1>2
  <2>2. /\ n \div b \in Nat /\ n % b \in 0 .. b - 1
        /\ n = (n \div b) * b + (n % b)
    BY <2>1, Division
  <2>3. QED BY <2>1, <2>2
<1>4. q > 0
  <2>1. CASE q = 0
    BY <2>1, <1>1, <1>2, <1>3
  <2>2. QED BY <2>1, <1>3
<1>5. q * b = q * (b - 1) + q /\ q * (b - 1) \in Nat /\ q * (b - 1) >= b - 1
  <2>1. q * b = q * (b - 1) + q
    BY <1>2, <1>3
  <2>2. q * (b - 1) \in Nat
    BY <1>2, <1>3
  <2>3. q * (b - 1) >= b - 1
    BY <1>2, <1>3, <1>4
  <2>4. QED BY <2>1, <2>2, <2>3
<1>6. m \in Nat /\ m > 0 /\ n = m + q * (b - 1) /\ m < n
  BY <1>1, <1>2, <1>3, <1>4, <1>5
<1>7. m % (b - 1) = n % (b - 1)
  <2>1. PICK p, s : p = m \div (b - 1) /\ s = m % (b - 1)
    OBVIOUS
  <2>2. p \in Nat /\ s \in 0 .. (b - 1) - 1 /\ m = p * (b - 1) + s
    BY <2>1, <1>2, <1>6, Division
  <2>3. p * (b - 1) + q * (b - 1) = (p + q) * (b - 1) /\ p + q \in Nat
    BY <2>2, <1>2, <1>3
  <2>4. n = (p + q) * (b - 1) + s
    BY <2>2, <2>3, <1>2, <1>3, <1>5, <1>6
  <2>5. ((p + q) * (b - 1) + s) % (b - 1) = s
    BY <2>2, <2>3, <1>2, DivisionUnique
  <2>6. QED BY <2>1, <2>4, <2>5
<1>8. QED BY <1>1, <1>6, <1>7

-----------------------------------------------------------------------------
(* What is left when all carries are added *)

\* A sum without a carry that leaves the remainder of n
WithoutCarry(n) ==
  IF n = 0 THEN 0 ELSE IF n % (Base - 1) = 0 THEN Base - 1 ELSE n % (Base - 1)

\* The function that Folded reads its result from
Folding ==
  CHOOSE fold : fold =
    [n \in Nat |-> IF n < Base THEN n ELSE fold[(n % Base) + (n \div Base)]]

LEMMA WithoutCarryIsFixed ==
  ASSUME NEW n \in Nat
  PROVE  WithoutCarry(n) =
           IF n < Base THEN n ELSE WithoutCarry((n % Base) + (n \div Base))
<1>1. Base \in Nat /\ Base >= 4 /\ Base - 1 \in Nat \ {0}
  BY BaseIsLarge
<1>2. CASE n >= Base
  <2>1. n # 0 /\ ~(n < Base)
    BY <1>1, <1>2
  <2>2. (n % Base) + (n \div Base) # 0
        /\ ((n % Base) + (n \div Base)) % (Base - 1) = n % (Base - 1)
    BY <1>2, CarryKeepsRemainder
  <2>3. QED BY <2>1, <2>2 DEF WithoutCarry
<1>3. CASE n < Base - 1
  <2>1. 0 * (Base - 1) + n = n /\ n \in 0 .. (Base - 1) - 1
    BY <1>1, <1>3
  <2>2. (0 * (Base - 1) + n) % (Base - 1) = n
    BY <1>1, <2>1, DivisionUnique
  <2>3. n % (Base - 1) = n
    BY <2>1, <2>2
  <2>4. n < Base
    BY <1>1, <1>3
  <2>5. QED BY <2>3, <2>4 DEF WithoutCarry
<1>4. CASE n = Base - 1
  <2>1. 1 * (Base - 1) + 0 = n /\ 0 \in 0 .. (Base - 1) - 1
    BY <1>1, <1>4
  <2>2. (1 * (Base - 1) + 0) % (Base - 1) = 0
    BY <1>1, <2>1, DivisionUnique
  <2>3. n % (Base - 1) = 0 /\ n # 0 /\ n < Base
    BY <1>1, <1>4, <2>1, <2>2
  <2>4. QED BY <1>4, <2>3 DEF WithoutCarry
<1>5. QED BY <1>1, <1>2, <1>3, <1>4

LEMMA FoldedValue ==
  ASSUME NEW sum \in Nat
  PROVE  Folded(sum) = WithoutCarry(sum)
<1> DEFINE Rule(f) == f = [n \in Nat |-> IF n < Base THEN n
                                         ELSE f[(n % Base) + (n \div Base)]]
           g == [n \in Nat |-> WithoutCarry(n)]
<1>1. \A n \in Nat : n >= Base => /\ (n % Base) + (n \div Base) \in Nat
                                  /\ (n % Base) + (n \div Base) < n
  BY CarryKeepsRemainder
<1>2. Base \in Nat
  BY BaseIsLarge
<1>3. Rule(g)
  <2>1. ASSUME NEW n \in Nat
        PROVE  WithoutCarry(n) = IF n < Base THEN n ELSE g[(n % Base) + (n \div Base)]
    <3>1. CASE n < Base
      BY <3>1, WithoutCarryIsFixed
    <3>2. CASE ~(n < Base)
      <4>1. (n % Base) + (n \div Base) \in Nat
        BY <1>1, <1>2, <3>2
      <4>2. g[(n % Base) + (n \div Base)] = WithoutCarry((n % Base) + (n \div Base))
        BY <4>1
      <4>3. QED BY <3>2, <4>2, WithoutCarryIsFixed
    <3>3. QED BY <3>1, <3>2
  <2>2. QED BY <2>1
<1> HIDE DEF g
<1>4. Rule(Folding)
  BY <1>3 DEF Folding
<1>5. \A n \in Nat : Folding[n] = IF n < Base THEN n
                                  ELSE Folding[(n % Base) + (n \div Base)]
  BY <1>4
<1> HIDE DEF Rule
<1> DEFINE Differing == {n \in Nat : Folding[n] # WithoutCarry(n)}
<1>6. Differing = {}
  <2> SUFFICES ASSUME Differing # {} PROVE FALSE
    OBVIOUS
  <2>1. PICK n \in Differing : \A m \in Differing : n <= m
    BY LeastOf
  <2>2. n \in Nat /\ Folding[n] # WithoutCarry(n)
    BY <2>1
  <2>3. CASE n < Base
    BY <2>2, <2>3, <1>5, WithoutCarryIsFixed
  <2>4. CASE ~(n < Base)
    <3>1. PICK m : m = (n % Base) + (n \div Base)
      OBVIOUS
    <3>2. m \in Nat /\ m < n
      BY <3>1, <1>1, <1>2, <2>2, <2>4
    <3>3. ~(n <= m)
      BY <3>2, <2>2
    <3>4. m \notin Differing
      BY ONLY <2>1, <3>3
    <3>5. Folding[m] = WithoutCarry(m)
      BY <3>2, <3>4
    <3>6. Folding[n] = Folding[m] /\ WithoutCarry(n) = WithoutCarry(m)
      BY <3>1, <1>5, <2>2, <2>4, WithoutCarryIsFixed
    <3>7. QED BY <3>5, <3>6, <2>2
  <2>5. QED BY <2>3, <2>4
<1>7. Folded(sum) = Folding[sum]
  BY DEF Folded, Folding
<1>8. QED BY <1>6, <1>7

\* The complement of what is left makes the sum a multiple of Base - 1.
LEMMA ComplementVerifies ==
  ASSUME NEW sum \in Nat
  PROVE  LET c == Complement(Folded(sum))
         IN  /\ c \in 0 .. Base - 1
             /\ sum + c > 0
             /\ (sum + c) % (Base - 1) = 0
<1>1. Base \in Nat /\ Base >= 4 /\ Base - 1 \in Nat \ {0}
  BY BaseIsLarge
<1>2. PICK d : d = Base - 1
  OBVIOUS
<1>3. PICK q, r : q = sum \div d /\ r = sum % d
  OBVIOUS
<1>4. q \in Nat /\ r \in 0 .. d - 1 /\ sum = q * d + r /\ d \in Nat \ {0}
      /\ q * d \in Nat
  <2>1. d \in Nat \ {0}
    BY <1>1, <1>2
  <2>2. q \in Nat /\ r \in 0 .. d - 1 /\ sum = q * d + r
    BY <1>3, <2>1, Division
  <2>3. QED BY <2>1, <2>2
<1>5. PICK c : c = Complement(Folded(sum))
  OBVIOUS
<1>6. c = d - (IF sum = 0 THEN 0 ELSE IF r = 0 THEN d ELSE r)
  BY <1>1, <1>2, <1>3, <1>5, FoldedValue DEF Complement, WithoutCarry
<1>7. c \in 0 .. d /\ sum + c > 0
  BY <1>4, <1>6
<1>8. (sum + c) % d = 0
  <2>1. CASE sum = 0 \/ r # 0
    <3>1. sum + c = q * d + d
      BY <2>1, <1>4, <1>6
    <3>2. q * d + d = (q + 1) * d + 0
      BY <1>4
    <3>3. ((q + 1) * d + 0) % d = 0
      <4>1. q + 1 \in Nat /\ 0 \in 0 .. d - 1
        BY <1>4
      <4>2. QED BY <4>1, <1>4, DivisionUnique
    <3>4. QED BY <3>1, <3>2, <3>3
  <2>2. CASE sum # 0 /\ r = 0
    <3>1. sum + c = q * d + 0
      BY <2>2, <1>4, <1>6
    <3>2. (q * d + 0) % d = 0
      <4>1. 0 \in 0 .. d - 1
        BY <1>4
      <4>2. QED BY <4>1, <1>4, DivisionUnique
    <3>3. QED BY <3>1, <3>2
  <2>3. QED BY <2>1, <2>2
<1>9. QED BY <1>2, <1>5, <1>7, <1>8

-----------------------------------------------------------------------------
(* The words of a packet *)

RewrittenPacket ==
  [protocol : {"tcp", "udp"}, source : Address, dest : Address,
   sourcePort : PortWord, destPort : PortWord, payload : Payload,
   segmentSum : 0 .. Base - 1, ipSum : 0 .. Base - 1]

\* What was rewritten verifies.
ChecksumInv ==
  /\ packet \in RewrittenPacket /\ behind \in ByteValue /\ rewritten \in BOOLEAN
  /\ RewrittenPacketsVerify

LEMMA ZeroIsByte == ByteValue \subseteq Nat /\ 0 \in ByteValue /\ 0 \in 0 .. Base - 1
<1>1. HalfBase \in Nat /\ HalfBase > 1
  BY ChecksumAssumption
<1>2. Base \in Nat /\ Base >= 4
  BY BaseIsLarge
<1>3. QED BY <1>1, <1>2 DEF ByteValue

LEMMA PayloadIsSeq ==
  ASSUME NEW bytes \in Payload
  PROVE  bytes \in Seq(Nat)
<1>1. PICK n \in 0 .. MaxPayload : bytes \in [1 .. n -> ByteValue]
  BY DEF Payload
<1>2. n \in Nat /\ bytes \in [1 .. n -> Nat]
  <2>1. n \in Nat
    BY ChecksumAssumption
  <2>2. ByteValue \subseteq Nat
    BY ZeroIsByte
  <2>3. QED BY <1>1, <2>1, <2>2
<1>3. QED BY <1>2

LEMMA WordsAreNumbers ==
  ASSUME NEW bytes \in Seq(Nat), NEW next \in Nat
  PROVE  Words(bytes, next) \in Seq(Nat)
<1> DEFINE even == IF Len(bytes) % 2 = 1 THEN Append(bytes, next) ELSE bytes
           n == Len(even) \div 2
<1>1. even \in Seq(Nat)
  OBVIOUS
<1>2. Words(bytes, next) = [i \in 1 .. n |-> even[2 * i - 1] * HalfBase + even[2 * i]]
  BY DEF Words
<1> HIDE DEF even
<1>3. n \in Nat
  BY <1>1
<1>4. ASSUME NEW i \in 1 .. n
      PROVE  even[2 * i - 1] * HalfBase + even[2 * i] \in Nat
  <2>1. 2 * i - 1 \in 1 .. Len(even) /\ 2 * i \in 1 .. Len(even)
    BY <1>1, <1>3
  <2>2. even[2 * i - 1] \in Nat /\ even[2 * i] \in Nat
    BY <1>1, <2>1
  <2>3. \A a, b \in Nat : a * HalfBase + b \in Nat
    BY ChecksumAssumption
  <2>4. QED BY <2>2, <2>3
<1>5. QED BY <1>2, <1>3, <1>4

LEMMA PacketWordsAreNumbers ==
  ASSUME NEW p \in RewrittenPacket
  PROVE  IpWords(p) \in Seq(Nat) /\ SegmentWords(p, 0) \in Seq(Nat)
<1>1. p.payload \in Seq(Nat)
  BY PayloadIsSeq DEF RewrittenPacket
<1>2. Length(p) \in Nat
  BY <1>1 DEF Length, HeaderBytes
<1>3. p.source \in Nat /\ p.dest \in Nat /\ p.sourcePort \in Nat /\ p.destPort \in Nat
  <2>1. Address \subseteq Nat /\ PortWord \subseteq Nat
    BY ChecksumAssumption, BaseIsLarge
  <2>2. p.source \in Address /\ p.dest \in Address
        /\ p.sourcePort \in PortWord /\ p.destPort \in PortWord
    BY DEF RewrittenPacket
  <2>3. QED BY <2>1, <2>2
<1>4. Words(p.payload, 0) \in Seq(Nat)
  BY <1>1, WordsAreNumbers
<1>5. QED BY <1>2, <1>3, <1>4 DEF IpWords, SegmentWords

-----------------------------------------------------------------------------
(* Each step keeps the invariant *)

\* What lies behind a packet is not summed: an odd payload is padded, and an even
\* one has no byte to pair with it.
LEMMA PaddedWords ==
  ASSUME NEW p \in RewrittenPacket
  PROVE  SegmentWords(p, Padding(p)) = SegmentWords(p, 0)
<1>1. Words(p.payload, Padding(p)) = Words(p.payload, 0)
  BY DEF Padding, Words
<1>2. QED BY <1>1 DEF SegmentWords

LEMMA RecalculatedVerifies ==
  ASSUME NEW p \in RewrittenPacket, NEW r, r = Recalculated(p, Padding(p))
  PROVE  /\ r \in RewrittenPacket
         /\ Verifies(Append(IpWords(r), r.ipSum))
         /\ Verifies(Append(SegmentWords(r, 0), r.segmentSum))
<1> DEFINE segment == Complement(Folded(Sum(SegmentWords(p, 0))))
           ip == Complement(Folded(Sum(IpWords(p))))
<1>1. IpWords(p) \in Seq(Nat) /\ SegmentWords(p, 0) \in Seq(Nat)
  BY PacketWordsAreNumbers
<1>2. Sum(IpWords(p)) \in Nat /\ Sum(SegmentWords(p, 0)) \in Nat
  BY <1>1, SumType
<1>3. segment \in 0 .. Base - 1 /\ ip \in 0 .. Base - 1
  BY <1>2, ComplementVerifies
<1>4. segment \in Nat /\ ip \in Nat
  BY <1>3, BaseIsLarge
<1>5. Verifies(Append(IpWords(p), ip))
  <2>1. Sum(Append(IpWords(p), ip)) = Sum(IpWords(p)) + ip
    BY <1>1, <1>4, SumAppend
  <2>2. QED BY <2>1, <1>2, ComplementVerifies DEF Verifies
<1>6. Verifies(Append(SegmentWords(p, 0), segment))
  <2>1. Sum(Append(SegmentWords(p, 0), segment)) = Sum(SegmentWords(p, 0)) + segment
    BY <1>1, <1>4, SumAppend
  <2>2. QED BY <2>1, <1>2, ComplementVerifies DEF Verifies
<1>7. r = [p EXCEPT !.segmentSum = segment, !.ipSum = ip]
  BY PaddedWords DEF Recalculated
<1> HIDE DEF segment, ip
<1>8. r \in RewrittenPacket /\ r.segmentSum = segment /\ r.ipSum = ip
  BY <1>3, <1>7 DEF RewrittenPacket
<1>9. /\ r.source = p.source /\ r.dest = p.dest /\ r.payload = p.payload
      /\ r.sourcePort = p.sourcePort /\ r.destPort = p.destPort
  BY <1>7 DEF RewrittenPacket
<1>10. IpWords(r) = IpWords(p) /\ SegmentWords(r, 0) = SegmentWords(p, 0)
  BY <1>9 DEF IpWords, SegmentWords, Length
<1>11. QED BY <1>5, <1>6, <1>8, <1>10

LEMMA ChecksumInvInit == ChecksumInit => ChecksumInv
<1> SUFFICES ASSUME ChecksumInit PROVE ChecksumInv
  OBVIOUS
<1>1. packet \in RewrittenPacket
  BY ZeroIsByte DEF ChecksumInit, RewrittenPacket
<1>2. QED BY <1>1 DEF ChecksumInit, ChecksumInv, RewrittenPacketsVerify

LEMMA ChecksumInvNext == ChecksumInv /\ [ChecksumNext]_checksumVars => ChecksumInv'
<1> SUFFICES ASSUME ChecksumInv, [ChecksumNext]_checksumVars PROVE ChecksumInv'
  OBVIOUS
<1>1. packet \in RewrittenPacket /\ behind \in ByteValue
  BY DEF ChecksumInv
<1>2. ASSUME NEW p \in RewrittenPacket, Recalculate(p)
      PROVE  ChecksumInv'
  <2>1. packet' = Recalculated(p, Padding(p)) /\ rewritten' = TRUE /\ behind' \in ByteValue
    BY <1>1, <1>2, ZeroIsByte DEF Recalculate, Padding
  <2>2. packet' \in RewrittenPacket
    BY <2>1, RecalculatedVerifies
  <2>3. /\ Verifies(Append(IpWords(packet'), packet'.ipSum))
        /\ Verifies(Append(SegmentWords(packet', 0), packet'.segmentSum))
    BY <2>1, RecalculatedVerifies
  <2>4. RewrittenPacketsVerify'
    BY <2>3 DEF RewrittenPacketsVerify, Verifies
  <2>5. QED BY <2>1, <2>2, <2>4 DEF ChecksumInv
<1>3. Swapped(packet) \in RewrittenPacket
  BY <1>1 DEF Swapped, RewrittenPacket
<1>4. ASSUME NEW port \in PortWord, ToProxy(port) PROVE ChecksumInv'
  <2>1. [Swapped(packet) EXCEPT !.destPort = port] \in RewrittenPacket
    BY <1>3 DEF RewrittenPacket
  <2>2. QED BY <1>2, <1>4, <2>1 DEF ToProxy
<1>5. ASSUME NEW port \in PortWord, ToClient(port) PROVE ChecksumInv'
  <2>1. [Swapped(packet) EXCEPT !.sourcePort = port] \in RewrittenPacket
    BY <1>3 DEF RewrittenPacket
  <2>2. QED BY <1>2, <1>5, <2>1 DEF ToClient
<1>6. CASE UNCHANGED checksumVars
  BY <1>6 DEF checksumVars, ChecksumInv, RewrittenPacketsVerify, Verifies, IpWords,
              SegmentWords, Length
<1>7. QED BY <1>4, <1>5, <1>6 DEF ChecksumNext

\* RecalculateIPChecksum, RecalculateTCPChecksum, RecalculateUDPChecksum: for
\* bytes of any size, any addresses and ports and payloads of any length, what a
\* redirect object has rewritten is accepted by a receiver that
\* adds up the words of the packet with the sum in it.
THEOREM RewrittenPacketsAreAccepted == ChecksumSpec => []RewrittenPacketsVerify
<1>1. ChecksumInv => RewrittenPacketsVerify
  BY DEF ChecksumInv
<1>2. QED BY <1>1, ChecksumInvInit, ChecksumInvNext, PTL DEF ChecksumSpec

\* The types of the checksums: each is one word, whatever the sum was.
THEOREM ChecksumTypes == ChecksumSpec => []ChecksumTypeOK
<1>1. ChecksumInv => ChecksumTypeOK
  BY DEF ChecksumInv, ChecksumTypeOK, RewrittenPacket
<1>2. QED BY <1>1, ChecksumInvInit, ChecksumInvNext, PTL DEF ChecksumSpec

==============================================================================
