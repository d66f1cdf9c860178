----------------------------- MODULE PacketPool -----------------------------
(***************************************************************************)
(* packet_pool and the sends of the UDP proxy that borrow from it: a       *)
(* datagram is copied to a packet of a fitting class, the packet belongs   *)
(* to the context of an overlapped send, and its completion gives the      *)
(* packet back to be used, with what it held, for another datagram.        *)
(* Every step runs under the lock of socks5_local_udp_proxy_server.        *)
(***************************************************************************)
EXTENDS Naturals, Sequences, FiniteSets
LOCAL INSTANCE FiniteSetsExt
LOCAL INSTANCE SequencesExt

CONSTANTS
  Buffer,        \* bound: the packets there can be
  Capacity,      \* the capacities of the classes, ascending
  PoolLimit,     \* pool_count_limit_
  DatagramSize   \* the sizes of the datagrams that arrive

PacketClass == DOMAIN Capacity

ASSUME PoolAssumption ==
  /\ Capacity \in Seq(Nat) /\ PoolLimit \in Nat /\ DatagramSize \subseteq Nat \ {0}
  /\ \A c, k \in PacketClass : c < k => Capacity[c] < Capacity[k]

VARIABLES
  madeAs,    \* the class a packet was made in, or 0 when there is no such packet
  len,       \* its WSABUF::len
  spare,     \* the stacks p_32_b_ ... p_max_b_
  sending,   \* the size of the datagram that an overlapped send holds it for, or 0
  forsaken   \* packets of contexts that nothing will release

poolVars == <<madeAs, len, spare, sending, forsaken>>

PoolTypeOK ==
  /\ madeAs \in [Buffer -> PacketClass \cup {0}]
  /\ len \in [Buffer -> Nat]
  /\ spare \in [PacketClass -> Seq(Buffer)]
  /\ sending \in [Buffer -> DatagramSize \cup {0}]
  /\ forsaken \subseteq Buffer

PoolInit ==
  /\ madeAs = [p \in Buffer |-> 0]
  /\ len = [p \in Buffer |-> 0]
  /\ spare = [c \in PacketClass |-> <<>>]
  /\ sending = [p \in Buffer |-> 0]
  /\ forsaken = {}

----------------------------------------------------------------------------
(* packet_pool *)

Fitting(size) == {c \in PacketClass : size <= Capacity[c]}

ClassOf(size) == Min(Fitting(size))

\* allocate(): the packet that was returned last, with the length it had, or
\* a new one; none for a size above the largest class.
Takes(p, c) == IF spare[c] = <<>> THEN madeAs[p] = 0 ELSE p = Last(spare[c])

Allocates(p, size) == Fitting(size) # {} /\ Takes(p, ClassOf(size))

\* The stacks after the allocation.
Taken(c) == IF spare[c] = <<>> THEN spare ELSE [spare EXCEPT ![c] = Front(@)]

\* free(): a packet that finds its stack at the limit is deleted.
Returned(p, c, stacks) ==
  IF Len(stacks[c]) < PoolLimit
  THEN spare' = [stacks EXCEPT ![c] = Append(@, p)] /\ madeAs' = [madeAs EXCEPT ![p] = c]
  ELSE spare' = stacks /\ madeAs' = [madeAs EXCEPT ![p] = 0]

----------------------------------------------------------------------------
(* The sends of a session *)

FilledWhenNew(p, size) == IF madeAs[p] = 0 THEN [len EXCEPT ![p] = size] ELSE len

\* The length is set before the copy; WSASend and WSASendTo send so many bytes.
Filled(p, size) == [len EXCEPT ![p] = size]

\* process_receive_buffer_complete(): the datagram of either side is sent to
\* the other.  A send that fails at once marks the session and leaves its
\* context behind.
SendDatagram(p, size) ==
  /\ Allocates(p, size)
  /\ LET c == ClassOf(size) IN spare' = Taken(c) /\ madeAs' = [madeAs EXCEPT ![p] = c]
  /\ len' = Filled(p, size)
  /\ \/ sending' = [sending EXCEPT ![p] = size] /\ UNCHANGED forsaken
     \/ forsaken' = forsaken \cup {p} /\ UNCHANGED sending

\* There is no memory for the context: the packet of a datagram of the
\* application, which has been filled already, goes back.
NoContext(p, size) ==
  /\ Allocates(p, size)
  /\ LET c == ClassOf(size) IN Returned(p, c, Taken(c))
  /\ len' = Filled(p, size)
  /\ UNCHANGED <<sending, forsaken>>

\* process_send_buffer_complete() releases the context and its packet.
SendDone(p) ==
  /\ sending[p] # 0
  /\ Returned(p, madeAs[p], spare)
  /\ sending' = [sending EXCEPT ![p] = 0]
  /\ UNCHANGED <<len, forsaken>>

\* The completion handler passes over a send that completes with an error.
SendFailed(p) ==
  /\ sending[p] # 0
  /\ sending' = [sending EXCEPT ![p] = 0]
  /\ forsaken' = forsaken \cup {p}
  /\ UNCHANGED <<madeAs, len, spare>>

PoolNext ==
  \E p \in Buffer :
    \/ \E size \in DatagramSize : SendDatagram(p, size) \/ NoContext(p, size)
    \/ SendDone(p) \/ SendFailed(p)

PoolSpec == PoolInit /\ [][PoolNext]_poolVars

----------------------------------------------------------------------------
(* Properties *)

\* A packet that was used before, for a datagram of another size, carries the
\* whole datagram of its present send and nothing of the earlier one.
CarriesItsDatagram ==
  \A p \in Buffer :
    sending[p] # 0 => len[p] = sending[p] /\ len[p] <= Capacity[madeAs[p]]

\* A packet lies on the stack of its class, once, or is in use, and no stack
\* outgrows the limit.
SpareOnce ==
  \A c \in PacketClass :
    /\ Len(spare[c]) <= PoolLimit
    /\ \A i \in DOMAIN spare[c] :
         /\ madeAs[spare[c][i]] = c
         /\ sending[spare[c][i]] = 0 /\ spare[c][i] \notin forsaken
         /\ \A j \in DOMAIN spare[c] : spare[c][i] = spare[c][j] => i = j

\* What the pool lends is large enough, is filled anew, and has one user.
LentPacketsAreSound == CarriesItsDatagram /\ SpareOnce
=============================================================================
