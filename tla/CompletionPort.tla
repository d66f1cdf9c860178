--------------------------- MODULE CompletionPort ---------------------------
(***************************************************************************)
(* io_completion_port and the servers that use it.  A worker copies the    *)
(* handler of a completion's key under the lock and calls it without: the  *)
(* handler counts itself in active_iocp_operations_, then looks whether    *)
(* its server has ended.  stop() of a server sets that flag, takes its     *)
(* handler away and waits for the count; then the server may be destroyed. *)
(***************************************************************************)
EXTENDS Integers, FiniteSets

CONSTANTS
  Worker,       \* threads_
  Owner,        \* tcp_proxy_server objects
  MaxKey,       \* bound: keys that next_key_ hands out
  NoOwner

ASSUME WorkerAssumption == IsFiniteSet(Worker)
ASSUME KeyAssumption    == MaxKey \in Nat
ASSUME OwnerAssumption  == NoOwner \notin Owner

CompletionKey == 1 .. MaxKey

VARIABLES
  active,      \* active_ of the thread pool
  worker,      \* where a worker is
  token,       \* the completion it has taken
  callee,      \* the copy of the handler: whose it is
  handlers,    \* handlers_: key to owner
  nextKey,     \* next_key_
  opened,      \* sockets: the key they complete with and their owner
  queue,       \* completions in the port, by key and owner of the socket
  server,      \* start() and stop() of an owner
  key,         \* completion_key_ of an owner
  operations   \* active_iocp_operations_ of an owner

portVars == <<active, worker, token, callee, handlers, nextKey, opened, queue,
              server, key, operations>>

PortTypeOK ==
  /\ active \in BOOLEAN
  /\ worker \in [Worker -> {"off", "waiting", "taken", "calling", "counted", "working"}]
  /\ token \in [Worker -> (CompletionKey \X Owner) \cup {<<0, NoOwner>>}]
  /\ callee \in [Worker -> Owner \cup {NoOwner}]
  /\ handlers \in [CompletionKey -> Owner \cup {NoOwner}]
  /\ nextKey \in 1 .. MaxKey + 1
  /\ opened \subseteq CompletionKey \X Owner
  /\ queue \subseteq opened
  /\ server \in [Owner -> {"stopped", "failed", "registering", "running",
                           "ended", "unregistered"}]
  /\ key \in [Owner -> CompletionKey \cup {0}]
  /\ operations \in [Owner -> Nat]

PortInit ==
  /\ active = FALSE
  /\ worker = [w \in Worker |-> "off"]
  /\ token = [w \in Worker |-> <<0, NoOwner>>]
  /\ callee = [w \in Worker |-> NoOwner]
  /\ handlers = [k \in CompletionKey |-> NoOwner]
  /\ nextKey = 1
  /\ opened = {}
  /\ queue = {}
  /\ server = [o \in Owner |-> "stopped"]
  /\ key = [o \in Owner |-> 0]
  /\ operations = [o \in Owner |-> 0]

----------------------------------------------------------------------------
(* The thread pool *)

StartPool ==
  /\ ~active
  /\ \A w \in Worker : worker[w] = "off"
  /\ active' = TRUE
  /\ worker' = [w \in Worker |-> "waiting"]
  /\ UNCHANGED <<token, callee, handlers, nextKey, opened, queue, server, key, operations>>

\* Some threads run, another cannot be created: they are told to end.
StartPoolFails ==
  /\ ~active
  /\ \A w \in Worker : worker[w] = "off"
  /\ worker' \in [Worker -> {"off", "waiting"}]
  /\ UNCHANGED <<active, token, callee, handlers, nextKey, opened, queue, server, key,
                 operations>>

\* The router stops its servers before the pool.
StopPool ==
  /\ active
  /\ \A o \in Owner : server[o] \in {"stopped", "failed"}
  /\ active' = FALSE
  /\ UNCHANGED <<worker, token, callee, handlers, nextKey, opened, queue, server, key,
                 operations>>

----------------------------------------------------------------------------
(* start_thread *)

\* Posted, or timed out.
WorkerEnds(w) ==
  /\ worker[w] = "waiting" /\ ~active
  /\ worker' = [worker EXCEPT ![w] = "off"]
  /\ UNCHANGED <<active, token, callee, handlers, nextKey, opened, queue, server, key,
                 operations>>

\* A completion that is taken from the port after the pool was stopped is lost.
TakeCompletion(w, c) ==
  /\ worker[w] = "waiting"
  /\ c \in queue
  /\ queue' = queue \ {c}
  /\ IF active
     THEN worker' = [worker EXCEPT ![w] = "taken"] /\ token' = [token EXCEPT ![w] = c]
     ELSE worker' = [worker EXCEPT ![w] = "off"] /\ UNCHANGED token
  /\ UNCHANGED <<active, callee, handlers, nextKey, opened, server, key, operations>>

\* handlers_lock_ is held for the copy only.
CopyHandler(w) ==
  /\ worker[w] = "taken"
  /\ callee' = [callee EXCEPT ![w] = handlers[token[w][1]]]
  /\ worker' = [worker EXCEPT ![w] =
                  IF handlers[token[w][1]] = NoOwner THEN "waiting" ELSE "calling"]
  /\ UNCHANGED <<active, token, handlers, nextKey, opened, queue, server, key, operations>>

Counts(o, n) == operations' = [operations EXCEPT ![o] = @ + n]

CountIn(w) ==
  /\ worker[w] = "calling"
  /\ Counts(callee[w], 1)
  /\ worker' = [worker EXCEPT ![w] = "counted"]
  /\ UNCHANGED <<active, token, callee, handlers, nextKey, opened, queue, server, key>>

Ended(o) == server[o] \in {"stopped", "failed", "ended", "unregistered"}

\* end_server_ is read after the count.
LookAtEnd(w) ==
  /\ worker[w] = "counted"
  /\ IF Ended(callee[w])
     THEN Counts(callee[w], -1) /\ worker' = [worker EXCEPT ![w] = "waiting"]
     ELSE worker' = [worker EXCEPT ![w] = "working"] /\ UNCHANGED operations
  /\ UNCHANGED <<active, token, callee, handlers, nextKey, opened, queue, server, key>>

\* The completion is worked on in the sockets and buffers of the owner; the
\* receive or send that follows completes in its turn.
Work(w) ==
  /\ worker[w] = "working"
  /\ Counts(callee[w], -1)
  /\ worker' = [worker EXCEPT ![w] = "waiting"]
  /\ queue' \in {queue, queue \cup {token[w]}}
  /\ UNCHANGED <<active, token, callee, handlers, nextKey, opened, server, key>>

----------------------------------------------------------------------------
(* start of a server: associate_socket *)

LeastFreeKey ==
  CHOOSE k \in CompletionKey : handlers[k] = NoOwner /\ \A j \in 1 .. k - 1 : handlers[j] # NoOwner

\* Keys are not used again.
NewKey == nextKey

EmplaceHandler(o) ==
  /\ server[o] \in {"stopped", "failed"} /\ active
  /\ nextKey <= MaxKey
  /\ handlers' = [handlers EXCEPT ![NewKey] = o]
  /\ key' = [key EXCEPT ![o] = NewKey]
  /\ nextKey' = nextKey + 1
  /\ server' = [server EXCEPT ![o] = "registering"]
  /\ UNCHANGED <<active, worker, token, callee, opened, queue, operations>>

Associated(o) ==
  /\ server[o] = "registering"
  /\ server' = [server EXCEPT ![o] = "running"]
  /\ opened' = opened \cup {<<key[o], o>>}
  /\ UNCHANGED <<active, worker, token, callee, handlers, nextKey, queue, key, operations>>

AssociateFails(o) ==
  /\ server[o] = "registering"
  /\ server' = [server EXCEPT ![o] = "failed"]
  /\ handlers' = [handlers EXCEPT ![key[o]] = NoOwner]
  /\ key' = [key EXCEPT ![o] = 0]
  /\ UNCHANGED <<active, worker, token, callee, nextKey, opened, queue, operations>>

\* An operation on a socket of the key completes, be its server gone or not:
\* sessions that outlive their server keep their sockets.
Completes(c) ==
  /\ c \in opened \ queue
  /\ queue' = queue \cup {c}
  /\ UNCHANGED <<active, worker, token, callee, handlers, nextKey, opened, server, key,
                 operations>>

----------------------------------------------------------------------------
(* stop of a server *)

SetEnd(o) ==
  /\ server[o] = "running"
  /\ server' = [server EXCEPT ![o] = "ended"]
  /\ UNCHANGED <<active, worker, token, callee, handlers, nextKey, opened, queue, key,
                 operations>>

\* unregister_handler.
Unregister(o) ==
  /\ server[o] = "ended"
  /\ handlers' = [handlers EXCEPT ![key[o]] = NoOwner]
  /\ key' = [key EXCEPT ![o] = 0]
  /\ server' = [server EXCEPT ![o] = "unregistered"]
  /\ UNCHANGED <<active, worker, token, callee, nextKey, opened, queue, operations>>

NotAwaited(o) == TRUE

\* The wait ends with the count; its limit of some seconds is not reached.
Quiet(o) == operations[o] = 0

StopEndsFor(o) ==
  /\ server[o] = "unregistered"
  /\ Quiet(o)
  /\ server' = [server EXCEPT ![o] = "stopped"]
  /\ UNCHANGED <<active, worker, token, callee, handlers, nextKey, opened, queue, key,
                 operations>>

----------------------------------------------------------------------------
PortNext ==
  \/ StartPool \/ StartPoolFails \/ StopPool
  \/ \E w \in Worker :
       \/ WorkerEnds(w) \/ CopyHandler(w) \/ CountIn(w) \/ LookAtEnd(w) \/ Work(w)
       \/ \E c \in queue : TakeCompletion(w, c)
  \/ \E o \in Owner :
       \/ EmplaceHandler(o) \/ Associated(o) \/ AssociateFails(o)
       \/ SetEnd(o) \/ Unregister(o) \/ StopEndsFor(o)
  \/ \E c \in opened : Completes(c)

PortSpec == PortInit /\ [][PortNext]_portVars

----------------------------------------------------------------------------
(* Properties *)

\* When stop() has returned no worker is at work in the server's sessions,
\* although one may have copied the handler before it was taken away and call
\* it at any time later: the count comes before the look at end_server_.
NoWorkAfterStop ==
  \A w \in Worker : worker[w] = "working" => server[callee[w]] # "stopped"

\* A completion is handled by the server its socket was opened for, or by
\* none: sessions that outlive stop() go on completing with the key of their
\* server, which another one must not get.
HandledByItsServer ==
  \A w \in Worker : worker[w] = "working" => callee[w] = token[w][2]

=============================================================================
