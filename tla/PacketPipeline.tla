---------------------------- MODULE PacketPipeline ----------------------------
(***************************************************************************)
(* The way of a packet through ProxiFyre: the four worker threads of       *)
(* queued_multi_interface_packet_filter hand blocks of packets from queue  *)
(* to queue; the process thread asks the router for a verdict; packets     *)
(* whose process is not known yet are copied to a bounded queue that the   *)
(* resolver thread of socks_local_router empties.  start() and stop() of   *)
(* the router build this machine up and take it down.                      *)
(*                                                                         *)
(* A condition variable is modelled with its three moments: the predicate  *)
(* is false and the mutex still held ("about"), the thread is blocked and  *)
(* the mutex free ("waiting"), it has been notified ("loop" again).  A     *)
(* push needs the mutex, so it cannot happen at "about"; stop() changes    *)
(* its flags and notifies without a mutex, so it can.                      *)
(***************************************************************************)
EXTENDS SequencesExt

CONSTANTS
  NumBlocks,   \* maximum_block_num
  MaxPackets,  \* maximum_packet_block: packets of one read
  MaxDepth,    \* max_resolve_queue_depth_
  NumPackets,  \* bound: packets that arrive
  MaxStarts    \* bound: calls of start()

ASSUME BoundsAssumption ==
  /\ NumBlocks \in Nat /\ MaxPackets \in Nat /\ MaxDepth \in Nat
  /\ NumPackets \in Nat /\ MaxStarts \in Nat

Block  == 1..NumBlocks
Packet == 1..NumPackets   \* in the order of their arrival
Worker == {"read", "process", "mstcp", "adapter"}   \* a thread and the queue it takes from

VARIABLES
  router,       \* where start() or stop() of the router is
  starts,       \* calls of start() so far
  filterState,  \* filter_state_
  pc,           \* of the workers
  queue,        \* packet_..._queue_ of each worker
  held,         \* the block a worker has taken; 0: none
  content,      \* of a block: packets without a verdict, and the two write requests
  driver,       \* packets the driver holds for the filter
  tunnel,       \* the adapters are in tunnel mode and signal packet_event_
  event,        \* packet_event_
  resolver,     \* pc of the resolver thread
  resolveQueue, \* process_resolve_buffer_queue_
  batch,        \* local_queue
  toAdapters,   \* to_adapters
  toMstcp,      \* to_mstcp
  shouldExit,   \* resolver_should_exit_
  arrived,      \* packets that have arrived
  sent,         \* packets given back to the driver, in that order
  fate          \* the verdict on a packet, or how it was discarded

filterVars   == <<filterState, pc, queue, held, content>>
driverVars   == <<driver, tunnel, event>>
resolverVars == <<resolver, resolveQueue, batch, toAdapters, toMstcp>>
vars == <<router, starts, filterState, pc, queue, held, content, driver, tunnel, event,
          resolver, resolveQueue, batch, toAdapters, toMstcp, shouldExit, arrived, sent, fate>>

RouterState == {"inactive", "active",
                "stopping", "joinWorkers",                            \* stop_filter()
                "filterStopped", "exitStored", "joinResolver"}        \* the resolver's end
WorkerPC   == {"loop", "about", "waiting", "work", "done",
               "lock", "fetch", "push",       \* of the read thread
               "offer", "notify"}             \* of the process thread
ResolverPC == {"loop", "about", "waiting", "resolve", "done"}
Discarded  == {"dropped", "stopped"}
Fate       == {"none", "adapter", "mstcp", "deferred"} \cup Discarded
Content    == [todo : Seq(Packet), mstcp : Seq(Packet), adapter : Seq(Packet)]
EmptyBlock == [todo |-> <<>>, mstcp |-> <<>>, adapter |-> <<>>]

Init ==
  /\ router = "inactive" /\ starts = 0 /\ filterState = "stopped"
  /\ pc = [t \in Worker |-> "done"]
  /\ queue = [t \in Worker |-> <<>>]
  /\ held = [t \in Worker |-> 0]
  /\ content = [b \in Block |-> EmptyBlock]
  /\ driver = <<>> /\ tunnel = FALSE /\ event = FALSE
  /\ resolver = "done" /\ resolveQueue = <<>>
  /\ batch = <<>> /\ toAdapters = <<>> /\ toMstcp = <<>>
  /\ shouldExit = FALSE
  /\ arrived = 0 /\ sent = <<>> /\ fate = [p \in Packet |-> "none"]

Woken(s) == IF s = "waiting" THEN "loop" ELSE s
Discard(S, why) == [p \in Packet |-> IF p \in S THEN why ELSE fate[p]]

(***************************************************************************)
(* What every worker does with its own queue, and how it hands a block on. *)
(* The read thread tests filter_state_ before it locks its queue, and then *)
(* takes a block that is there whatever the state; the other threads test  *)
(* the state again when they have locked theirs.                           *)
(***************************************************************************)
ReadThreadLocks ==
  /\ pc["read"] = "loop" /\ filterState = "running"
  /\ pc' = [pc EXCEPT !["read"] = "lock"]
  /\ UNCHANGED <<router, starts, filterState, queue, held, content, driverVars,
                 resolverVars, shouldExit, arrived, sent, fate>>

AtQueue(t) ==
  IF t = "read" THEN pc[t] = "lock" ELSE pc[t] = "loop" /\ filterState = "running"

Leave(t) ==
  /\ filterState # "running"
  /\ pc[t] = "loop" \/ (pc[t] = "lock" /\ queue[t] = <<>>)
  /\ pc' = [pc EXCEPT ![t] = "done"]
  /\ UNCHANGED <<router, starts, filterState, queue, held, content, driverVars,
                 resolverVars, shouldExit, arrived, sent, fate>>

TakeBlock(t) ==
  /\ AtQueue(t) /\ queue[t] # <<>>
  /\ held' = [held EXCEPT ![t] = Head(queue[t])]
  /\ queue' = [queue EXCEPT ![t] = Tail(@)]
  /\ pc' = [pc EXCEPT ![t] = "work"]
  /\ UNCHANGED <<router, starts, filterState, content, driverVars, resolverVars,
                 shouldExit, arrived, sent, fate>>

FindNothing(t) ==
  /\ AtQueue(t) /\ filterState = "running" /\ queue[t] = <<>>
  /\ pc' = [pc EXCEPT ![t] = "about"]
  /\ UNCHANGED <<router, starts, filterState, queue, held, content, driverVars,
                 resolverVars, shouldExit, arrived, sent, fate>>

Sleep(t) ==
  /\ pc[t] = "about"
  /\ pc' = [pc EXCEPT ![t] = "waiting"]
  /\ UNCHANGED <<router, starts, filterState, queue, held, content, driverVars,
                 resolverVars, shouldExit, arrived, sent, fate>>

\* The work on a block is done: everything decided, or everything written.
BlockDone(t) ==
  \/ t = "read" /\ pc[t] = "push"
  \/ t = "process" /\ pc[t] = "work" /\ content[held[t]].todo = <<>>
  \/ t \in {"mstcp", "adapter"} /\ pc[t] = "work" /\ content[held[t]][t] = <<>>

\* Mutant: a stack instead of a queue.
HandOnFirst(t, u) ==
  /\ BlockDone(t) /\ pc[u] # "about"
  /\ queue' = [queue EXCEPT ![u] = <<held[t]>> \o @]
  /\ held' = [held EXCEPT ![t] = 0]
  /\ pc' = [pc EXCEPT ![t] = "loop", ![u] = Woken(@)]
  /\ UNCHANGED <<router, starts, filterState, content, driverVars, resolverVars,
                 shouldExit, arrived, sent, fate>>

\* Mutant: without notify_one.
HandOnSilently(t, u) ==
  /\ BlockDone(t) /\ pc[u] # "about"
  /\ queue' = [queue EXCEPT ![u] = Append(@, held[t])]
  /\ held' = [held EXCEPT ![t] = 0]
  /\ pc' = [pc EXCEPT ![t] = "loop"]
  /\ UNCHANGED <<router, starts, filterState, content, driverVars, resolverVars,
                 shouldExit, arrived, sent, fate>>

\* The lock_guard of the other queue covers the push and the notify_one.
HandOn(t, u) ==
  /\ BlockDone(t) /\ pc[u] # "about"
  /\ queue' = [queue EXCEPT ![u] = Append(@, held[t])]
  /\ held' = [held EXCEPT ![t] = 0]
  /\ pc' = [pc EXCEPT ![t] = "loop", ![u] = Woken(@)]
  /\ UNCHANGED <<router, starts, filterState, content, driverVars, resolverVars,
                 shouldExit, arrived, sent, fate>>

(***************************************************************************)
(* packet_read_thread: wait for the event, reset it, read; again, as long  *)
(* as nothing was read and the filter is running.                          *)
(***************************************************************************)
\* One step: a signal between the wait and the reset is as one before the wait.
AwaitEvent ==
  /\ pc["read"] = "work" /\ event
  /\ event' = FALSE
  /\ pc' = [pc EXCEPT !["read"] = "fetch"]
  /\ UNCHANGED <<router, starts, filterState, queue, held, content, driver, tunnel,
                 resolverVars, shouldExit, arrived, sent, fate>>

\* The driver is assumed to signal again when a read leaves packets with it.
ReadPackets ==
  LET n == IF Len(driver) < MaxPackets THEN Len(driver) ELSE MaxPackets
  IN /\ pc["read"] = "fetch"
     /\ content' = [content EXCEPT ![held["read"]].todo = SubSeq(driver, 1, n)]
     /\ driver' = SubSeq(driver, n + 1, Len(driver))
     /\ event' = (event \/ n < Len(driver))
     /\ pc' = [pc EXCEPT !["read"] =
                 IF n = 0 /\ filterState = "running" THEN "work" ELSE "push"]
     /\ UNCHANGED <<router, starts, filterState, queue, held, tunnel, resolverVars,
                    shouldExit, arrived, sent, fate>>

(***************************************************************************)
(* packet_process_thread, one packet at a time.  What the router decides   *)
(* is not modelled here: pass, revert, or not known yet.                   *)
(***************************************************************************)
InHand == held["process"]
ToDecide == content[InHand].todo

Decide(verdict) ==
  /\ pc["process"] = "work" /\ ToDecide # <<>>
  /\ content' = [content EXCEPT ![InHand].todo = Tail(@),
                                ![InHand][verdict] = Append(@, Head(ToDecide))]
  /\ fate' = [fate EXCEPT ![Head(ToDecide)] = verdict]
  /\ UNCHANGED <<router, starts, filterState, pc, queue, held, driverVars, resolverVars,
                 shouldExit, arrived, sent>>

(***************************************************************************)
(* The process of the packet is not known: enqueue_for_deferred_resolve    *)
(* tests the depth, allocates a buffer without the lock, tests the depth   *)
(* again, and notifies the resolver without the lock.                      *)
(***************************************************************************)
\* Mutant: off by one.
HasAlmostRoom == Len(resolveQueue) <= MaxDepth

HasRoom == Len(resolveQueue) < MaxDepth

CheckDepth ==
  /\ pc["process"] = "work" /\ ToDecide # <<>> /\ resolver # "about"
  /\ IF HasRoom
     THEN /\ pc' = [pc EXCEPT !["process"] = "offer"]
          /\ UNCHANGED <<content, fate>>
     ELSE /\ content' = [content EXCEPT ![InHand].todo = Tail(@)]
          /\ fate' = [fate EXCEPT ![Head(ToDecide)] = "dropped"]
          /\ UNCHANGED pc
  /\ UNCHANGED <<router, starts, filterState, queue, held, driverVars, resolverVars,
                 shouldExit, arrived, sent>>

\* The copy is queued if there still is room (with one producer there is).
OfferCopy ==
  /\ pc["process"] = "offer" /\ resolver # "about"
  /\ content' = [content EXCEPT ![InHand].todo = Tail(@)]
  /\ IF HasRoom
     THEN /\ resolveQueue' = Append(resolveQueue, Head(ToDecide))
          /\ fate' = [fate EXCEPT ![Head(ToDecide)] = "deferred"]
          /\ pc' = [pc EXCEPT !["process"] = "notify"]
     ELSE /\ fate' = [fate EXCEPT ![Head(ToDecide)] = "dropped"]
          /\ pc' = [pc EXCEPT !["process"] = "work"]
          /\ UNCHANGED resolveQueue
  /\ UNCHANGED <<router, starts, filterState, queue, held, driverVars, resolver, batch,
                 toAdapters, toMstcp, shouldExit, arrived, sent>>

\* Without a buffer the packet is lost, and the resolver notified of nothing.
NoBuffer ==
  /\ pc["process"] = "offer"
  /\ content' = [content EXCEPT ![InHand].todo = Tail(@)]
  /\ fate' = [fate EXCEPT ![Head(ToDecide)] = "dropped"]
  /\ pc' = [pc EXCEPT !["process"] = "notify"]
  /\ UNCHANGED <<router, starts, filterState, queue, held, driverVars, resolverVars,
                 shouldExit, arrived, sent>>

NotifyResolver ==
  /\ pc["process"] = "notify"
  /\ resolver' = Woken(resolver)
  /\ pc' = [pc EXCEPT !["process"] = "work"]
  /\ UNCHANGED <<router, starts, filterState, queue, held, content, driverVars,
                 resolveQueue, batch, toAdapters, toMstcp, shouldExit, arrived, sent, fate>>

(***************************************************************************)
(* packet_write_mstcp_thread and packet_write_adapter_thread send their    *)
(* write request of a block and clear it.                                  *)
(***************************************************************************)
\* Mutant: the write request is not cleared.
WriteAgain(t) ==
  LET b == held[t]
  IN /\ pc[t] = "work" /\ content[b][t] # <<>>
     /\ sent' = sent \o content[b][t]
     /\ UNCHANGED <<router, starts, filterState, pc, queue, held, content, driverVars,
                    resolverVars, shouldExit, arrived, fate>>

Write(t) ==
  LET b == held[t]
  IN /\ pc[t] = "work" /\ content[b][t] # <<>>
     /\ sent' = sent \o content[b][t]
     /\ content' = [content EXCEPT ![b][t] = <<>>]
     /\ UNCHANGED <<router, starts, filterState, pc, queue, held, driverVars, resolverVars,
                    shouldExit, arrived, fate>>

(***************************************************************************)
(* process_resolve_thread_proc.  A wait that times out returns to the loop *)
(* as a notified one does; a timeout with nothing to do, which only waits  *)
(* again, is left out, and the sweeps then run belong to PidRoutes.        *)
(***************************************************************************)
ResolverLeaves ==
  /\ resolver = "loop" /\ shouldExit /\ resolveQueue = <<>>
  /\ resolver' = "done"
  /\ UNCHANGED <<router, starts, filterVars, driverVars, resolveQueue, batch, toAdapters,
                 toMstcp, shouldExit, arrived, sent, fate>>

ResolverSwaps ==
  /\ resolver = "loop" /\ resolveQueue # <<>>
  /\ batch' = resolveQueue
  /\ resolveQueue' = <<>>
  /\ resolver' = "resolve"
  /\ UNCHANGED <<router, starts, filterVars, driverVars, toAdapters, toMstcp, shouldExit,
                 arrived, sent, fate>>

ResolverFindsNothing ==
  /\ resolver = "loop" /\ ~shouldExit /\ resolveQueue = <<>>
  /\ resolver' = "about"
  /\ UNCHANGED <<router, starts, filterVars, driverVars, resolveQueue, batch, toAdapters,
                 toMstcp, shouldExit, arrived, sent, fate>>

ResolverBlocks ==
  /\ resolver = "about"
  /\ resolver' = "waiting"
  /\ UNCHANGED <<router, starts, filterVars, driverVars, resolveQueue, batch, toAdapters,
                 toMstcp, shouldExit, arrived, sent, fate>>

\* Mutant: wait instead of wait_for.
ResolverWaitsOn == FALSE /\ UNCHANGED vars

ResolverTimesOut ==
  /\ resolver = "waiting" /\ (shouldExit \/ resolveQueue # <<>>)
  /\ resolver' = "loop"
  /\ UNCHANGED <<router, starts, filterVars, driverVars, resolveQueue, batch, toAdapters,
                 toMstcp, shouldExit, arrived, sent, fate>>

\* A postponed packet always gets a verdict.
ResolverDecides ==
  /\ resolver = "resolve" /\ batch # <<>>
  /\ batch' = Tail(batch)
  /\ \/ toAdapters' = Append(toAdapters, Head(batch)) /\ UNCHANGED toMstcp
     \/ toMstcp' = Append(toMstcp, Head(batch)) /\ UNCHANGED toAdapters
  /\ UNCHANGED <<router, starts, filterVars, driverVars, resolver, resolveQueue,
                 shouldExit, arrived, sent, fate>>

ResolverSends ==
  /\ resolver = "resolve" /\ batch = <<>>
  /\ sent' = sent \o toAdapters \o toMstcp
  /\ toAdapters' = <<>> /\ toMstcp' = <<>>
  /\ resolver' = "loop"
  /\ UNCHANGED <<router, starts, filterVars, driverVars, resolveQueue, batch, shouldExit,
                 arrived, fate>>

(***************************************************************************)
(* start() and stop() of the router; lifecycle_mutex_ serialises them.     *)
(***************************************************************************)
\* The resolver is started before the filter.  When init_filter() runs out of
\* memory start() goes the same way as the end of stop().
Start ==
  /\ router = "inactive" /\ starts < MaxStarts
  /\ starts' = starts + 1
  /\ shouldExit' = FALSE
  /\ resolver' = "loop"
  /\ \/ /\ router' = "active"
        /\ filterState' = "running"
        /\ pc' = [t \in Worker |-> "loop"]
        /\ queue' = [queue EXCEPT !["read"] = [i \in Block |-> i]]
        /\ tunnel' = TRUE
     \/ /\ router' = "filterStopped"
        /\ UNCHANGED <<filterState, pc, queue, tunnel>>
  /\ UNCHANGED <<held, content, driver, event, resolveQueue, batch, toAdapters, toMstcp,
                 arrived, sent, fate>>

\* Mutant: the resolver is told to exit before the filter is stopped.
StopResolverFirst ==
  /\ router = "active"
  /\ router' = "stopping"
  /\ filterState' = "stopping"
  /\ event' = TRUE
  /\ shouldExit' = TRUE
  /\ UNCHANGED <<starts, pc, queue, held, content, driver, tunnel, resolverVars, arrived,
                 sent, fate>>

\* stop_filter() changes the state and signals the read thread's event.
StopBegins ==
  /\ router = "active"
  /\ router' = "stopping"
  /\ filterState' = "stopping"
  /\ event' = TRUE
  /\ UNCHANGED <<starts, pc, queue, held, content, driver, tunnel, resolverVars, shouldExit,
                 arrived, sent, fate>>

\* adapter.release() resets the mode and flushes the driver's packet queue; then
\* notify_all on the four condition variables, without their mutexes.
ReleaseFilter ==
  /\ router = "stopping"
  /\ router' = "joinWorkers"
  /\ tunnel' = FALSE
  /\ driver' = <<>>
  /\ fate' = Discard(ToSet(driver), "stopped")
  /\ pc' = [t \in Worker |-> Woken(pc[t])]
  /\ UNCHANGED <<starts, filterState, queue, held, content, event, resolverVars, shouldExit,
                 arrived, sent>>

InBlocks == UNION {ToSet(content[b].todo) \cup ToSet(content[b].mstcp)
                     \cup ToSet(content[b].adapter) : b \in Block}

\* The queues are emptied; the blocks go, with what they hold.
WorkersJoined ==
  /\ router = "joinWorkers"
  /\ \A t \in Worker : pc[t] = "done"
  /\ router' = "filterStopped"
  /\ filterState' = "stopped"
  /\ queue' = [t \in Worker |-> <<>>]
  /\ content' = [b \in Block |-> EmptyBlock]
  /\ fate' = Discard(InBlocks, "stopped")
  /\ UNCHANGED <<starts, pc, held, driverVars, resolverVars, shouldExit, arrived, sent>>

StoreExit ==
  /\ router = "filterStopped"
  /\ router' = "exitStored"
  /\ shouldExit' = TRUE
  /\ UNCHANGED <<starts, filterVars, driverVars, resolverVars, arrived, sent, fate>>

NotifyExit ==
  /\ router = "exitStored"
  /\ router' = "joinResolver"
  /\ resolver' = Woken(resolver)
  /\ UNCHANGED <<starts, filterVars, driverVars, resolveQueue, batch, toAdapters, toMstcp,
                 shouldExit, arrived, sent, fate>>

ResolverJoined ==
  /\ router = "joinResolver" /\ resolver = "done"
  /\ router' = "inactive"
  /\ UNCHANGED <<starts, filterVars, driverVars, resolverVars, shouldExit, arrived, sent,
                 fate>>

\* A program sends a packet through an adapter in tunnel mode.
Arrive ==
  /\ tunnel /\ arrived < NumPackets
  /\ arrived' = arrived + 1
  /\ driver' = Append(driver, arrived + 1)
  /\ event' = TRUE
  /\ UNCHANGED <<router, starts, filterVars, tunnel, resolverVars, shouldExit, sent, fate>>

-----------------------------------------------------------------------------
OwnQueue(t) == Leave(t) \/ TakeBlock(t) \/ FindNothing(t) \/ Sleep(t)

ReadThread ==
  \/ ReadThreadLocks \/ OwnQueue("read") \/ AwaitEvent \/ ReadPackets
  \/ HandOn("read", "process")

ProcessThread ==
  \/ OwnQueue("process") \/ Decide("adapter") \/ Decide("mstcp")
  \/ CheckDepth \/ OfferCopy \/ NoBuffer \/ NotifyResolver \/ HandOn("process", "mstcp")

MstcpThread   == OwnQueue("mstcp") \/ Write("mstcp") \/ HandOn("mstcp", "adapter")
AdapterThread == OwnQueue("adapter") \/ Write("adapter") \/ HandOn("adapter", "read")

ResolverThread ==
  \/ ResolverLeaves \/ ResolverSwaps \/ ResolverFindsNothing \/ ResolverBlocks
  \/ ResolverTimesOut \/ ResolverDecides \/ ResolverSends

Stop ==
  \/ ReleaseFilter \/ WorkersJoined \/ StoreExit \/ NotifyExit \/ ResolverJoined

Next ==
  \/ Start \/ StopBegins \/ Arrive
  \/ ReadThread \/ ProcessThread \/ MstcpThread \/ AdapterThread \/ ResolverThread
  \/ Stop

Spec == Init /\ [][Next]_vars

\* Every thread that can run runs; nobody has to start, stop or send.
FairSpec ==
  /\ Spec
  /\ WF_vars(ReadThread) /\ WF_vars(ProcessThread) /\ WF_vars(MstcpThread)
  /\ WF_vars(AdapterThread) /\ WF_vars(ResolverThread) /\ WF_vars(Stop)

-----------------------------------------------------------------------------
(* Every variable has its type, and process_resolve_buffer_queue_ never      *)
(* exceeds max_resolve_queue_depth_.                                         *)
TypeOK ==
  /\ router \in RouterState /\ starts \in 0..MaxStarts
  /\ filterState \in {"stopped", "running", "stopping"}
  /\ pc \in [Worker -> WorkerPC]
  /\ queue \in [Worker -> Seq(Block)]
  /\ held \in [Worker -> Block \cup {0}]
  /\ content \in [Block -> Content]
  /\ driver \in Seq(Packet) /\ tunnel \in BOOLEAN /\ event \in BOOLEAN
  /\ resolver \in ResolverPC
  /\ resolveQueue \in Seq(Packet) /\ Len(resolveQueue) <= MaxDepth
  /\ batch \in Seq(Packet) /\ toAdapters \in Seq(Packet) /\ toMstcp \in Seq(Packet)
  /\ shouldExit \in BOOLEAN
  /\ arrived \in 0..NumPackets /\ sent \in Seq(Packet) /\ fate \in [Packet -> Fate]


\* The packets that are not in a block, and every place a packet can be in.
Outside == [driver |-> driver, resolveQueue |-> resolveQueue, batch |-> batch,
            toAdapters |-> toAdapters, toMstcp |-> toMstcp, sent |-> sent]
Place   == ({0} \X {"driver", "resolveQueue", "batch", "toAdapters", "toMstcp", "sent"})
             \cup (Block \X {"todo", "mstcp", "adapter"})
Whereabouts ==
  [a \in Place |-> IF a[1] = 0 THEN Outside[a[2]] ELSE content[a[1]][a[2]]]

(* Between five threads, four queues of blocks and the resolver's copies, a  *)
(* packet that has arrived is in one place, once, until it is given back to  *)
(* the driver; it is gone only if the resolve queue had no room or no        *)
(* buffer, or stop() found it in a queue.  It is never sent twice.           *)
NothingLostOrDoubled ==
  LET W == Whereabouts
  IN  /\ \A a \in Place : IsInjective(W[a])
      /\ \A a \in Place : \A p \in ToSet(W[a]) : \A b \in Place \ {a} : p \notin ToSet(W[b])
      /\ UNION {ToSet(W[a]) : a \in Place} = {p \in 1..arrived : fate[p] \notin Discarded}

(* Packets with the same direct verdict leave in the order they arrived in,  *)
(* whatever the resolver does meanwhile.                                     *)
OrderKept ==
  \A i, j \in DOMAIN sent :
    (i < j /\ fate[sent[i]] = fate[sent[j]] /\ fate[sent[i]] # "deferred") => sent[i] < sent[j]

(* When stop() returns no deferred packet is left in process_resolve_buffer_ *)
(* queue_ or with the resolver: resolver_should_exit_ is stored only when no *)
(* thread can enqueue any more.                                              *)
NothingStranded ==
  router = "inactive" =>
    resolveQueue = <<>> /\ batch = <<>> /\ toAdapters = <<>> /\ toMstcp = <<>>

(* As long as the filter runs, it comes back again and again to a state with *)
(* nothing on the way (at most NumPackets arrive): no thread sleeps on a     *)
(* queue that has work, whoever notified whom, and no block is withheld.     *)
Settled == \A p \in 1..arrived : p \in ToSet(sent) \/ fate[p] = "dropped"
EveryPacketLeaves == []<>(Settled \/ filterState # "running")

(* resolver_should_exit_ is stored and the resolver notified without its     *)
(* mutex, so the notification can be missed; it ends all the same.           *)
ResolverEnds == []<>(shouldExit => resolver = "done")

(* queued_multi_interface_packet_filter.h:685 "notifies all condition        *)
(* variables to ensure that all working threads can exit gracefully": a stop *)
(* that has begun comes to its end.                                          *)
StopEnds == (router = "stopping") ~> (router = "inactive")
=============================================================================
