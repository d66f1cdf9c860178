--------------------------- MODULE TcpProxyServer ---------------------------
(***************************************************************************)
(* tcp_proxy_server: the accept thread lists a client and its remote       *)
(* socket in sock_array_events_ and wakes the connect thread through the   *)
(* event at index 0; the connect thread waits, without the lock, for a     *)
(* copy of the events and uses the index it gets from that copy in the     *)
(* array.  stop() ends both threads and the one that clears sessions.      *)
(***************************************************************************)
EXTENDS Integers, Sequences

LOCAL INSTANCE SequencesExt

CONSTANTS
  Peer,          \* clients that connect
  MaxEvents,     \* connections_array_size, MAXIMUM_WAIT_OBJECTS
  MaxRuns,       \* bound: calls of start() that do something
  NoClient

ASSUME EventsAssumption == MaxEvents \in Nat /\ MaxEvents >= 2

VARIABLES
  endServer,     \* end_server_
  listening,     \* server_socket_ is open
  slots,         \* sock_array_events_ after index 0: the clients
  wake,          \* the event at index 0 is set
  connected,     \* the FD_CONNECT events that are set
  snapshot,      \* wait_events after index 0
  hit,           \* event_index
  acceptor,      \* start_proxy_thread, and the client it handles
  handled,
  connector,     \* connect_to_remote_host_thread
  cleaner,       \* clear_thread runs
  stopper,       \* stop()
  accepted, remote,  \* sockets of a client: none, open, closed
  sessions,      \* proxy_sockets_
  runs

serverVars == <<endServer, listening, slots, wake, connected, snapshot, hit,
                acceptor, handled, connector, cleaner, stopper,
                accepted, remote, sessions, runs>>

Socket == {"none", "open", "closed"}

ServerTypeOK ==
  /\ endServer \in BOOLEAN /\ listening \in BOOLEAN /\ wake \in BOOLEAN
  /\ slots \in Seq(Peer) /\ snapshot \in Seq(Peer)
  /\ connected \subseteq Peer /\ sessions \subseteq Peer
  /\ hit \in Nat /\ runs \in Nat
  /\ acceptor \in {"off", "accepting", "accepted", "listed", "exited"}
  /\ handled \in Peer \cup {NoClient}
  /\ connector \in {"off", "looping", "waiting", "woken", "exited"}
  /\ cleaner \in BOOLEAN
  /\ stopper \in {"idle", "ended", "signalled"}
  /\ accepted \in [Peer -> Socket] /\ remote \in [Peer -> Socket]

\* The constructor has created the listening socket.
ServerInit ==
  /\ endServer = TRUE /\ listening = TRUE /\ wake = FALSE
  /\ slots = <<>> /\ snapshot = <<>> /\ hit = 0
  /\ connected = {} /\ sessions = {}
  /\ acceptor = "off" /\ handled = NoClient /\ connector = "off"
  /\ cleaner = FALSE /\ stopper = "idle"
  /\ accepted = [c \in Peer |-> "none"] /\ remote = [c \in Peer |-> "none"]
  /\ runs = 0

----------------------------------------------------------------------------
(* start *)

ServerStart ==
  /\ endServer /\ stopper = "idle"
  /\ runs < MaxRuns
  /\ runs' = runs + 1
  /\ endServer' = FALSE
  /\ wake' = FALSE
  /\ acceptor' = "accepting" /\ connector' = "looping" /\ cleaner' = TRUE
  /\ UNCHANGED <<listening, slots, connected, snapshot, hit, handled, stopper,
                 accepted, remote, sessions>>

\* The socket at index 0 cannot be associated with the completion port.
StartFails ==
  /\ endServer /\ stopper = "idle"
  /\ runs < MaxRuns
  /\ runs' = runs + 1
  /\ wake' = FALSE
  /\ UNCHANGED <<endServer, listening, slots, connected, snapshot, hit, acceptor,
                 handled, connector, cleaner, stopper, accepted, remote, sessions>>

----------------------------------------------------------------------------
(* The accept thread *)

AcceptEnds ==
  /\ acceptor = "accepting"
  /\ endServer \/ ~listening
  /\ acceptor' = "exited"
  /\ UNCHANGED <<endServer, listening, slots, wake, connected, snapshot, hit,
                 handled, connector, cleaner, stopper, accepted, remote, sessions, runs>>

\* A client that is accepted while the server ends is left as it is.
AcceptClient(c) ==
  /\ acceptor = "accepting" /\ listening
  /\ accepted[c] = "none"
  /\ accepted' = [accepted EXCEPT ![c] = "open"]
  /\ IF endServer
     THEN acceptor' = "exited" /\ UNCHANGED handled
     ELSE acceptor' = "accepted" /\ handled' = c
  /\ UNCHANGED <<endServer, listening, slots, wake, connected, snapshot, hit,
                 connector, cleaner, stopper, remote, sessions, runs>>

\* The first test is made without the lock and counts index 0, too.
TooMany == Len(slots) + 1 >= MaxEvents
NoRoom  == Len(slots) + 1 >= MaxEvents - 1

\* No destination is known, a call fails, or there are too many.
Reject ==
  /\ acceptor = "accepted"
  /\ accepted' = [accepted EXCEPT ![handled] = "closed"]
  /\ acceptor' = "accepting" /\ handled' = NoClient
  /\ UNCHANGED <<endServer, listening, slots, wake, connected, snapshot, hit,
                 connector, cleaner, stopper, remote, sessions, runs>>

\* The slot is filled and the connect thread woken before the connect.
List ==
  /\ acceptor = "accepted"
  /\ ~TooMany /\ ~NoRoom
  /\ slots' = Append(slots, handled)
  /\ remote' = [remote EXCEPT ![handled] = "open"]
  /\ wake' = TRUE
  /\ acceptor' = "listed"
  /\ UNCHANGED <<endServer, listening, connected, snapshot, hit, handled,
                 connector, cleaner, stopper, accepted, sessions, runs>>

ConnectPending ==
  /\ acceptor = "listed"
  /\ remote[handled] = "open"
  /\ acceptor' = "accepting" /\ handled' = NoClient
  /\ UNCHANGED <<endServer, listening, slots, wake, connected, snapshot, hit,
                 connector, cleaner, stopper, accepted, remote, sessions, runs>>

ConnectFailsAndUnlists ==
  /\ acceptor = "listed"
  /\ remote' = [remote EXCEPT ![handled] = "closed"]
  /\ accepted' = [accepted EXCEPT ![handled] = "closed"]
  /\ slots' = SelectSeq(slots, LAMBDA c : c # handled)
  /\ acceptor' = "accepting" /\ handled' = NoClient
  /\ UNCHANGED <<endServer, listening, wake, connected, snapshot, hit,
                 connector, cleaner, stopper, sessions, runs>>

\* The two sockets are closed, the slot stays.
ConnectFails ==
  /\ acceptor = "listed"
  /\ remote' = [remote EXCEPT ![handled] = "closed"]
  /\ accepted' = [accepted EXCEPT ![handled] = "closed"]
  /\ acceptor' = "accepting" /\ handled' = NoClient
  /\ UNCHANGED <<endServer, listening, slots, wake, connected, snapshot, hit,
                 connector, cleaner, stopper, sessions, runs>>

\* The connection of a listed client succeeds or fails: FD_CONNECT.
ConnectSettles(c) ==
  /\ \E i \in 1 .. Len(slots) : slots[i] = c
  /\ c # handled /\ remote[c] = "open"
  /\ connected' = connected \cup {c}
  /\ UNCHANGED <<endServer, listening, slots, wake, snapshot, hit, acceptor,
                 handled, connector, cleaner, stopper, accepted, remote, sessions, runs>>

----------------------------------------------------------------------------
(* The connect thread *)

\* The events are copied under the shared lock.
CopyEvents ==
  /\ connector = "looping" /\ ~endServer
  /\ snapshot' = slots
  /\ connector' = "waiting"
  /\ UNCHANGED <<endServer, listening, slots, wake, connected, hit, acceptor,
                 handled, cleaner, stopper, accepted, remote, sessions, runs>>

Signalled == {i \in 1 .. Len(snapshot) : snapshot[i] \in connected}

\* The least index whose event is set.
WaitReturns ==
  /\ connector = "waiting"
  /\ \/ wake /\ hit' = 0
     \/ /\ ~wake /\ Signalled # {}
        /\ hit' \in Signalled
        /\ \A i \in Signalled : hit' <= i
  /\ connector' = "woken"
  /\ UNCHANGED <<endServer, listening, slots, wake, connected, snapshot,
                 acceptor, handled, cleaner, stopper, accepted, remote, sessions, runs>>

ResetWake ==
  /\ connector = "woken" /\ ~endServer
  /\ hit = 0
  /\ wake' = FALSE
  /\ connector' = "looping"
  /\ UNCHANGED <<endServer, listening, slots, connected, snapshot, hit, acceptor,
                 handled, cleaner, stopper, accepted, remote, sessions, runs>>

\* The event is that of the copy, the sockets are those of the array.  The
\* session starts, or throws and both sockets are closed.
StartSession ==
  /\ connector = "woken" /\ ~endServer
  /\ hit # 0
  /\ LET c == slots[hit]
     IN  /\ slots' = RemoveAt(slots, hit)
         /\ connected' = connected \ {snapshot[hit]}
         /\ \/ /\ sessions' = sessions \cup {c}
               /\ UNCHANGED <<accepted, remote>>
            \/ /\ accepted' = [accepted EXCEPT ![c] = "closed"]
               /\ remote' = [remote EXCEPT ![c] = "closed"]
               /\ UNCHANGED sessions
  /\ connector' = "looping"
  /\ UNCHANGED <<endServer, listening, wake, snapshot, hit, acceptor, handled,
                 cleaner, stopper, runs>>

InSlots(c) == \E i \in 1 .. Len(slots) : slots[i] = c

\* On the way out the listed sockets are closed; the entries stay.
ConnectorEnds ==
  /\ connector \in {"looping", "woken"} /\ endServer
  /\ connector' = "exited"
  /\ accepted' = [c \in Peer |-> IF InSlots(c) THEN "closed" ELSE accepted[c]]
  /\ remote' = [c \in Peer |-> IF InSlots(c) THEN "closed" ELSE remote[c]]
  /\ UNCHANGED <<endServer, listening, slots, wake, connected, snapshot, hit,
                 acceptor, handled, cleaner, stopper, sessions, runs>>

----------------------------------------------------------------------------
(* Sessions and the clear thread *)

\* close_client of the session's socket.
SessionCloses(c) ==
  /\ c \in sessions
  /\ accepted[c] = "open"
  /\ accepted' = [accepted EXCEPT ![c] = "closed"]
  /\ remote' = [remote EXCEPT ![c] = "closed"]
  /\ UNCHANGED <<endServer, listening, slots, wake, connected, snapshot, hit,
                 acceptor, handled, connector, cleaner, stopper, sessions, runs>>

ClearSessions ==
  /\ cleaner /\ ~endServer
  /\ sessions' = {c \in sessions : accepted[c] # "closed"}
  /\ sessions' # sessions
  /\ UNCHANGED <<endServer, listening, slots, wake, connected, snapshot, hit,
                 acceptor, handled, connector, cleaner, stopper, accepted, remote, runs>>

CleanerEnds ==
  /\ cleaner /\ endServer
  /\ cleaner' = FALSE
  /\ UNCHANGED <<endServer, listening, slots, wake, connected, snapshot, hit,
                 acceptor, handled, connector, stopper, accepted, remote, sessions, runs>>

----------------------------------------------------------------------------
(* stop *)

StopListening ==
  /\ ~endServer
  /\ stopper = "idle"
  /\ endServer' = TRUE
  /\ listening' = FALSE
  /\ stopper' = "ended"
  /\ UNCHANGED <<slots, wake, connected, snapshot, hit, acceptor, handled,
                 connector, cleaner, accepted, remote, sessions, runs>>

SignalStop ==
  /\ stopper = "ended"
  /\ wake' = TRUE
  /\ stopper' = "signalled"
  /\ UNCHANGED <<endServer, listening, slots, connected, snapshot, hit, acceptor,
                 handled, connector, cleaner, accepted, remote, sessions, runs>>

\* The three threads are joined and the arrays cleared.
StopReturns ==
  /\ stopper = "signalled"
  /\ acceptor = "exited" /\ connector = "exited" /\ ~cleaner
  /\ slots' = <<>> /\ sessions' = {} /\ connected' = {}
  /\ acceptor' = "off" /\ connector' = "off"
  /\ stopper' = "idle"
  /\ UNCHANGED <<endServer, listening, wake, snapshot, hit, handled, cleaner,
                 accepted, remote, runs>>

----------------------------------------------------------------------------
ServerNext ==
  \/ ServerStart \/ StartFails
  \/ AcceptEnds \/ Reject \/ List \/ ConnectPending \/ ConnectFails
  \/ \E c \in Peer : AcceptClient(c) \/ ConnectSettles(c) \/ SessionCloses(c)
  \/ CopyEvents \/ WaitReturns \/ ResetWake \/ StartSession \/ ConnectorEnds
  \/ ClearSessions \/ CleanerEnds
  \/ StopListening \/ SignalStop \/ StopReturns

ServerSpec == ServerInit /\ [][ServerNext]_serverVars

----------------------------------------------------------------------------
(* Properties *)

\* The index that wait_for_multiple_objects() returns for the copy of the
\* events names the same client in sock_array_events_, which the accept thread
\* goes on to fill meanwhile: no session gets the sockets of another client.
IndexNamesItsClient ==
  connector \in {"waiting", "woken"} => IsPrefix(snapshot, slots)

\* The connect thread never sleeps through a client that was listed after its
\* copy, nor through stop(): the event at index 0 is set, or will be.
NoWakeUpLost ==
  connector = "waiting" /\ ~wake =>
    /\ snapshot = slots
    /\ endServer => stopper = "ended"

\* What the connect thread has copied of the clients is good enough to wait on.
SnapshotIsCurrent == IndexNamesItsClient /\ NoWakeUpLost

=============================================================================
