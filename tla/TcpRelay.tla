------------------------------ MODULE TcpRelay ------------------------------
(***************************************************************************)
(* The relay of tcp_proxy_socket: two circular buffers, one per direction, *)
(* between the local socket (the application) and the remote socket (the   *)
(* proxy).  Overlapped receives and sends complete on the threads of the   *)
(* completion port, each under lock_, so that a completion is one step;    *)
(* start_data_relay() runs without the lock, in two steps.                 *)
(***************************************************************************)
EXTENDS Integers

CONSTANTS
  Size,      \* send_receive_buffer_size
  MaxBytes   \* bound: bytes a peer sends in one direction

ASSUME SizeAssumption     == Size \in Nat \ {0}
ASSUME MaxBytesAssumption == MaxBytes \in Nat

Side == {"local", "remote"}

\* "out" runs from the local to the remote socket, "in" the other way.
Direction == {"out", "in"}

Source(d) == IF d = "out" THEN "local" ELSE "remote"
Target(d) == IF d = "out" THEN "remote" ELSE "local"

VARIABLES
  recvBuf, recvLen,   \* {local,remote}_recv_buf_ of the direction
  sendBuf, sendLen,   \* {remote,local}_send_buf_ of the direction
  ring,               \* from_{local_to_remote,remote_to_local}_buffer_: the
                      \* number of the byte at every position
  reading, writing,   \* length of the outstanding WSARecv, WSASend, or 0
  valid,              \* the sides whose SOCKET member is not INVALID_SOCKET
  closes,             \* history: closesocket() calls on the handle of a side
  status,             \* connection_status_
  phase,              \* of start_data_relay() and of the object's life
  taken, delivered,   \* history: bytes received from, sent to a peer
  idle                \* more than an hour since timestamp_

buffers   == <<recvBuf, recvLen, sendBuf, sendLen, ring>>
relayVars == <<buffers, reading, writing, valid, closes, status, phase,
               taken, delivered, idle>>

RelayTypeOK ==
  /\ recvBuf \in [Direction -> 0 .. Size - 1]
  /\ sendBuf \in [Direction -> 0 .. Size - 1]
  /\ recvLen \in [Direction -> 0 .. Size]
  /\ sendLen \in [Direction -> 0 .. Size]
  /\ ring \in [Direction -> [0 .. Size - 1 -> Nat]]
  /\ reading \in [Direction -> 0 .. Size]
  /\ writing \in [Direction -> 0 .. Size]
  /\ valid \in SUBSET Side
  /\ closes \in [Side -> Nat]
  /\ status \in {"established", "completed"}
  /\ phase \in {"negotiated", "localPosted", "relaying", "removed"}
  /\ taken \in [Direction -> Nat]
  /\ delivered \in [Direction -> Nat]
  /\ idle \in BOOLEAN

RelayInit ==
  /\ recvBuf = [d \in Direction |-> 0]
  /\ recvLen = [d \in Direction |-> Size]
  /\ sendBuf = [d \in Direction |-> 0]
  /\ sendLen = [d \in Direction |-> 0]
  /\ ring = [d \in Direction |-> [i \in 0 .. Size - 1 |-> 0]]
  /\ reading = [d \in Direction |-> 0]
  /\ writing = [d \in Direction |-> 0]
  /\ valid = Side
  /\ closes = [s \in Side |-> 0]
  /\ status = "established"
  /\ phase = "negotiated"
  /\ taken = [d \in Direction |-> 0]
  /\ delivered = [d \in Direction |-> 0]
  /\ idle = FALSE

----------------------------------------------------------------------------
(* The circular buffer *)

Wrap(i) == IF i = Size THEN 0 ELSE i

\* The region of the next receive, from position b on, while the send starts
\* at s: up to the end of the buffer, or from its start, or up to s.
RegionUnwrapped(b, s) == IF b > s THEN <<b, Size - b>> ELSE <<b, s - b>>

RegionOverrun(b, s) ==
  IF b >= s THEN IF b < Size THEN <<b, Size - b>> ELSE <<0, s>> ELSE <<b, s - b>>

RegionAfter(b, s) ==
  IF b > s
  THEN IF b < Size THEN <<b, Size - b>> ELSE <<0, s>>
  ELSE <<b, s - b>>

\* The bytes from s on that are ready to be sent when the receive starts at b.
ReadyFrom(s, b) == IF s < b THEN b - s ELSE Size - s

\* Bytes in the buffer of a direction.
Held(d) ==
  IF sendLen[d] = 0 THEN 0
  ELSE IF recvBuf[d] > sendBuf[d] THEN recvBuf[d] - sendBuf[d]
  ELSE Size - (sendBuf[d] - recvBuf[d])

----------------------------------------------------------------------------
(* close_client: the socket of either side, then the other one as well *)

\* The parts of close_client that do not concern a buffer length.
CloseBoth ==
  /\ valid' = {}
  /\ closes' = [s \in Side |-> IF s \in valid THEN closes[s] + 1 ELSE closes[s]]
  /\ status' = IF valid = {} THEN status ELSE "completed"

KeepOpen == UNCHANGED <<valid, closes, status>>

----------------------------------------------------------------------------
(* start_data_relay *)

Relaying == phase \in {"localPosted", "relaying"}

StartLocal ==
  /\ phase = "negotiated"
  /\ UNCHANGED <<recvBuf, sendBuf, sendLen, ring, writing, taken, delivered, idle>>
  /\ \/ /\ "local" \in valid
        /\ phase' = "localPosted"
        /\ reading' = [reading EXCEPT !["out"] = recvLen["out"]]
        /\ KeepOpen /\ UNCHANGED recvLen
     \/ /\ phase' = "relaying"
        /\ recvLen' = [d \in Direction |-> 0]
        /\ CloseBoth /\ UNCHANGED reading

\* When the second receive cannot be posted the local socket is closed, its
\* handle kept, and close_client() closes both.
StartRemote ==
  /\ phase = "localPosted"
  /\ phase' = "relaying"
  /\ UNCHANGED <<recvBuf, sendBuf, sendLen, ring, writing, taken, delivered, idle>>
  /\ \/ /\ "remote" \in valid
        /\ reading' = [reading EXCEPT !["in"] = recvLen["in"]]
        /\ KeepOpen /\ UNCHANGED recvLen
     \/ /\ recvLen' = [recvLen EXCEPT !["in"] = 0]
        /\ valid' = {}
        /\ closes' = [s \in Side |-> CASE s \notin valid -> closes[s]
                                       [] s = "local"    -> closes[s] + 2
                                       [] OTHER          -> closes[s] + 1]
        /\ status' = IF "remote" \in valid THEN "completed" ELSE status
        /\ UNCHANGED reading

----------------------------------------------------------------------------
(* Completions *)

\* The kernel has put the next n bytes of the source into the region.
Fill(d, n) ==
  [ring EXCEPT ![d] = [i \in 0 .. Size - 1 |->
     IF i \in recvBuf[d] .. recvBuf[d] + n - 1
     THEN taken[d] + 1 + (i - recvBuf[d]) ELSE @[i]]]

\* process_receive_buffer_complete, connection established: n bytes start a
\* send when none is outstanding, then the receive goes on behind them.  sent
\* and more say whether the posts succeed.
Received(d, n, sent, more) ==
  LET starts == sendLen[d] = 0
      s      == IF starts THEN recvBuf[d] ELSE sendBuf[d]
      region == RegionAfter(recvBuf[d] + n, s)
      fails  == starts /\ ~sent
      again  == region[2] # 0 /\ more
  IN  /\ sent => Target(d) \in valid
      /\ more => Source(d) \in valid /\ ~fails
      /\ ring' = Fill(d, n)
      /\ taken' = [taken EXCEPT ![d] = @ + n]
      /\ sendBuf' = [sendBuf EXCEPT ![d] = s]
      /\ sendLen' = [sendLen EXCEPT ![d] = IF ~starts THEN @ ELSE IF sent THEN n ELSE 0]
      /\ writing' = [writing EXCEPT ![d] = IF starts /\ sent THEN n ELSE @]
      /\ recvBuf' = [recvBuf EXCEPT ![d] = region[1]]
      /\ recvLen' = [recvLen EXCEPT ![d] = IF again THEN region[2] ELSE 0]
      /\ reading' = [reading EXCEPT ![d] = IF again THEN region[2] ELSE 0]
      /\ IF fails \/ (region[2] # 0 /\ ~more) THEN CloseBoth ELSE KeepOpen

ReceiveComplete(d) ==
  /\ \E n \in 1 .. reading[d] :
       /\ taken[d] + n <= MaxBytes
       /\ \/ /\ status = "established"
             /\ \E sent, more \in BOOLEAN : Received(d, n, sent, more)
          \/ /\ status = "completed"
             /\ recvLen' = [recvLen EXCEPT ![d] = 0]
             /\ reading' = [reading EXCEPT ![d] = 0]
             /\ KeepOpen
             /\ UNCHANGED <<recvBuf, sendBuf, sendLen, ring, writing, taken>>
  /\ idle' = FALSE
  /\ UNCHANGED <<phase, delivered>>

NeverStarved(d) == FALSE

\* The receive stopped because the buffer was full.
Starved(d) == status # "completed" /\ recvLen[d] = 0

\* process_send_buffer_complete: n bytes are gone; a full buffer is read into
\* again, and what is ready behind them is sent.
Sent(d, n, more, sent) ==
  LET restart == Starved(d)
      r       == IF restart THEN sendBuf[d] ELSE recvBuf[d]
      s       == Wrap(sendBuf[d] + n)
      ready   == IF s = r THEN 0 ELSE ReadyFrom(s, r)
      fails   == restart /\ ~more
  IN  /\ more => restart /\ Source(d) \in valid
      /\ sent => ready # 0 /\ Target(d) \in valid /\ ~fails
      /\ recvBuf' = [recvBuf EXCEPT ![d] = r]
      /\ recvLen' = [recvLen EXCEPT ![d] = IF more THEN n ELSE @]
      /\ reading' = [reading EXCEPT ![d] = IF more THEN n ELSE @]
      /\ sendBuf' = [sendBuf EXCEPT ![d] = s]
      /\ sendLen' = [sendLen EXCEPT ![d] = IF sent THEN ready ELSE 0]
      /\ writing' = [writing EXCEPT ![d] = IF sent THEN ready ELSE 0]
      /\ IF fails \/ (ready # 0 /\ ~sent) \/ status = "completed"
         THEN CloseBoth ELSE KeepOpen

SendComplete(d) ==
  /\ \E n \in 1 .. writing[d] :
       /\ delivered' = [delivered EXCEPT ![d] = @ + n]
       /\ \E more, sent \in BOOLEAN : Sent(d, n, more, sent)
  /\ idle' = FALSE
  /\ UNCHANGED <<ring, phase, taken>>

\* The handler of tcp_proxy_server sees an error, or the end of the stream.
ReceiveEnds(d) ==
  /\ reading[d] # 0
  /\ reading' = [reading EXCEPT ![d] = 0]
  /\ recvLen' = [recvLen EXCEPT ![d] = 0]
  /\ CloseBoth
  /\ UNCHANGED <<recvBuf, sendBuf, sendLen, ring, writing, phase, taken, delivered, idle>>

SendEnds(d) ==
  /\ writing[d] # 0
  /\ writing' = [writing EXCEPT ![d] = 0]
  /\ sendLen' = [sendLen EXCEPT ![d] = 0]
  /\ CloseBoth
  /\ UNCHANGED <<recvBuf, recvLen, sendBuf, ring, reading, phase, taken, delivered, idle>>

----------------------------------------------------------------------------
(* is_ready_for_removal, once a second *)

RemoveSession ==
  /\ phase = "relaying"
  /\ valid = {}
  /\ phase' = "removed"
  /\ recvLen' = [d \in Direction |-> 0]
  /\ sendLen' = [d \in Direction |-> 0]
  /\ UNCHANGED <<recvBuf, sendBuf, ring, reading, writing, valid, closes, status,
                 taken, delivered, idle>>

IdleClose ==
  /\ Relaying
  /\ valid # {} /\ idle
  /\ sendLen' = [d \in Direction |-> 0]
  /\ CloseBoth
  /\ UNCHANGED <<recvBuf, recvLen, sendBuf, ring, reading, writing, phase,
                 taken, delivered, idle>>

\* An hour passes without a completion.
HourPasses ==
  /\ Relaying
  /\ ~idle
  /\ idle' = TRUE
  /\ UNCHANGED <<buffers, reading, writing, valid, closes, status, phase,
                 taken, delivered>>

----------------------------------------------------------------------------
RelayNext ==
  \/ StartLocal \/ StartRemote
  \/ \E d \in Direction :
       ReceiveComplete(d) \/ SendComplete(d) \/ ReceiveEnds(d) \/ SendEnds(d)
  \/ RemoveSession \/ IdleClose \/ HourPasses

RelaySpec == RelayInit /\ [][RelayNext]_relayVars

----------------------------------------------------------------------------
(* Properties *)

\* Every byte is delivered once and in the order it was received, whatever the
\* sizes of receives and sends and the order they complete in: the receive
\* never gets a region that is still to be sent, or is being sent.
RelayInOrder ==
  [][\A d \in Direction :
       \A k \in 0 .. delivered'[d] - delivered[d] - 1 :
         ring[d][sendBuf[d] + k] = delivered[d] + 1 + k]_relayVars

\* An open relay never stands still by itself: bytes in the buffer are being
\* sent, and a direction that does not receive is one that sends.
NeverStalls ==
  status = "established" /\ Relaying =>
    \A d \in Direction :
      /\ Held(d) # 0 => writing[d] # 0
      /\ phase = "relaying" => reading[d] # 0 \/ writing[d] # 0
=============================================================================
