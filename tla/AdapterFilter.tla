---------------------------- MODULE AdapterFilter ----------------------------
(* Which adapters of the host are in tunnel mode. Four kinds of threads       *)
(* change it: the one that starts and stops the router, the callbacks of      *)
(* Windows that follow the addresses of the host, and the watcher that the    *)
(* driver wakes when an adapter comes or goes. lock_ orders the loops over    *)
(* the adapters; filter_state_ and the router's own set are outside it.       *)
EXTENDS Naturals

CONSTANTS
  Adapter,     \* the adapters that the driver may bind, each with its name
  Callback,    \* the threads on which Windows calls ip_interface_changed_callback
  NoThread,    \* lock_ is free
  MaxBinds     \* bound: times an adapter comes or goes

ASSUME AdapterFilterAssumption ==
  /\ Callback \cap {"router", "watcher"} = {}
  /\ NoThread \notin Callback \cup {"router", "watcher"}
  /\ MaxBinds \in Nat

AdapterThread == {"router", "watcher"} \cup Callback

\* Where a thread is in what it does.
Position ==
  {"idle", "woken", "reset", "change", "update", "listed", "connected", "apply",
   "filter", "updated", "starting", "start", "started", "active", "stopping",
   "release", "released", "stopped"}

VARIABLES
  bound,             \* driver: the adapters that are bound now
  tunnel,            \* driver: the adapters in tunnel mode
  handles,           \* driver: the listed adapters whose handle is still good
  adapterEvent,      \* adapter_event_ is set
  binds,             \* changes of bound so far
  interfaces,        \* network_interfaces_
  filterList,        \* filter_adapters_list_
  filterState,       \* filter_state_
  lock, left,        \* the thread in a loop under lock_, and what it has left
  registered,        \* the notification of address changes is registered
  adaptersToFilter,  \* adapters_to_filter_ of the router
  at,                \* where each thread is
  todo, want         \* update_network_configuration: ndis_adapters, adapters_to_filter

driverVars  == <<bound, tunnel, handles, adapterEvent, binds>>
filterVars  == <<interfaces, filterList, filterState>>
localVars   == <<todo, want>>
adapterVars == <<driverVars, filterVars, lock, left, registered, adaptersToFilter,
                 at, localVars>>

AdapterInit ==
  /\ bound \in SUBSET Adapter /\ handles = bound /\ interfaces = bound
  /\ tunnel = {} /\ adapterEvent = FALSE /\ binds = 0
  /\ filterList = {} /\ filterState = "stopped"
  /\ lock = NoThread /\ left = {}
  /\ registered = FALSE /\ adaptersToFilter = {}
  /\ at = [t \in AdapterThread |-> "idle"]
  /\ todo = [t \in AdapterThread |-> {}] /\ want = [t \in AdapterThread |-> {}]

Goes(t, from, to) == at[t] = from /\ at' = [at EXCEPT ![t] = to]

\* The driver: an adapter that goes takes its mode with it, and one that comes
\* has a handle nobody has asked for yet.
Rebind(x) ==
  /\ binds < MaxBinds
  /\ binds' = binds + 1
  /\ bound' = IF x \in bound THEN bound \ {x} ELSE bound \cup {x}
  /\ tunnel' = tunnel \ {x}
  /\ handles' = handles \ {x}
  /\ adapterEvent' = TRUE
  /\ UNCHANGED <<filterVars, lock, left, registered, adaptersToFilter, at, localVars>>

-----------------------------------------------------------------------------
(* Loops over network_interfaces_ under lock_.                               *)

Enter(t, from, to, adapters) ==
  /\ lock = NoThread
  /\ lock' = t
  /\ left' = adapters
  /\ Goes(t, from, to)

Leave(t, from, to) ==
  /\ lock = t /\ left = {}
  /\ lock' = NoThread
  /\ Goes(t, from, to)
  /\ UNCHANGED <<driverVars, filterVars, left, registered, adaptersToFilter, localVars>>

\* A call with the handle of an adapter that is gone has no effect.
SetMode(x, on) ==
  tunnel' = IF on /\ x \in handles THEN tunnel \cup {x} ELSE tunnel \ {x}

Filtered(x) == filterState = "running" /\ x \in filterList

\* update_adapters_filter_state reads filter_state_ anew for every adapter.
UpdateAdapter(t) ==
  /\ lock = t /\ at[t] # "release"
  /\ \E x \in left : left' = left \ {x} /\ SetMode(x, Filtered(x))
  /\ UNCHANGED <<bound, handles, adapterEvent, binds, filterVars, lock, registered,
                 adaptersToFilter, at, localVars>>

ReleaseAdapter ==
  /\ lock = "router" /\ at["router"] = "release"
  /\ \E x \in left : left' = left \ {x} /\ SetMode(x, FALSE)
  /\ UNCHANGED <<bound, handles, adapterEvent, binds, filterVars, lock, registered,
                 adaptersToFilter, at, localVars>>

-----------------------------------------------------------------------------
(* The watcher: wait, reset, then list the adapters again.                   *)

Wakes ==
  /\ adapterEvent
  /\ Goes("watcher", "idle", "woken")
  /\ UNCHANGED <<driverVars, filterVars, lock, left, registered, adaptersToFilter,
                 localVars>>

Resets ==
  /\ Goes("watcher", "woken", "reset")
  /\ adapterEvent' = FALSE
  /\ UNCHANGED <<bound, tunnel, handles, binds, filterVars, lock, left, registered,
                 adaptersToFilter, localVars>>

OnNetworkAdapterChange ==
  /\ Enter("watcher", "reset", "change", bound)
  /\ interfaces' = bound /\ handles' = bound
  /\ UNCHANGED <<bound, tunnel, adapterEvent, binds, filterList, filterState,
                 registered, adaptersToFilter, localVars>>

-----------------------------------------------------------------------------
(* update_network_configuration, by a callback or by start().                *)

Notified(t) ==
  /\ registered
  /\ Goes(t, "idle", "update")
  /\ UNCHANGED <<driverVars, filterVars, lock, left, registered, adaptersToFilter,
                 localVars>>

\* get_interface_list shares lock_ with the loop of release_filter only.
GetInterfaceList(t) ==
  /\ lock # NoThread => at[lock] = "release"
  /\ Goes(t, "update", "listed")
  /\ todo' = [todo EXCEPT ![t] = interfaces]
  /\ UNCHANGED <<driverVars, filterVars, lock, left, registered, adaptersToFilter, want>>

\* Any of the listed adapters may be connected at this time, and none is when
\* the table of the interfaces cannot be read.
GetConnections(t) ==
  /\ Goes(t, "listed", "connected")
  /\ \E up \in SUBSET todo[t] : want' = [want EXCEPT ![t] = up]
  /\ UNCHANGED <<driverVars, filterVars, lock, left, registered, adaptersToFilter, todo>>

AfterUpdate(t) == IF t = "router" THEN "updated" ELSE "idle"

NothingNew(t) ==
  /\ want[t] = adaptersToFilter
  /\ Goes(t, "connected", AfterUpdate(t))
  /\ todo' = [todo EXCEPT ![t] = {}]
  /\ want' = [want EXCEPT ![t] = {}]
  /\ UNCHANGED <<driverVars, filterVars, lock, left, registered, adaptersToFilter>>

SomethingNew(t) ==
  /\ want[t] # adaptersToFilter
  /\ Goes(t, "connected", "apply")
  /\ UNCHANGED <<driverVars, filterVars, lock, left, registered, adaptersToFilter,
                 localVars>>

\* filter_network_adapter and unfilter_network_adapter
ApplyTo(t, x) ==
  /\ x \in todo[t]
  /\ Enter(t, "apply", "filter", interfaces)
  /\ filterList' = IF x \in want[t] THEN filterList \cup {x} ELSE filterList \ {x}
  /\ todo' = [todo EXCEPT ![t] = @ \ {x}]
  /\ UNCHANGED <<driverVars, interfaces, filterState, registered, adaptersToFilter, want>>

StoreConfiguration(t) ==
  /\ todo[t] = {}
  /\ Goes(t, "apply", AfterUpdate(t))
  /\ adaptersToFilter' = want[t]
  /\ want' = [want EXCEPT ![t] = {}]
  /\ UNCHANGED <<driverVars, filterVars, lock, left, registered, todo>>

-----------------------------------------------------------------------------
(* start() and stop() of the router, and start_filter and stop_filter.       *)

StartRouter ==
  /\ Goes("router", "idle", "update")
  /\ registered' \in BOOLEAN
  /\ UNCHANGED <<driverVars, filterVars, lock, left, adaptersToFilter, localVars>>

FilterStarting ==
  /\ Goes("router", "updated", "starting")
  /\ filterState' = "starting"
  /\ UNCHANGED <<driverVars, interfaces, filterList, lock, left, registered,
                 adaptersToFilter, localVars>>

\* No adapter was chosen: all of them are. The memory for the blocks may be
\* missing, and then the filter stays stopped.
StartFilter ==
  /\ Enter("router", "starting", "start", interfaces)
  /\ filterList' = IF filterList = {} THEN interfaces ELSE filterList
  /\ filterState' \in {"running", "stopped"}
  /\ UNCHANGED <<driverVars, interfaces, registered, adaptersToFilter, localVars>>

RouterStarted ==
  /\ Goes("router", "started", IF filterState = "running" THEN "active" ELSE "idle")
  /\ registered' = (registered /\ filterState = "running")
  /\ UNCHANGED <<driverVars, filterVars, lock, left, adaptersToFilter, localVars>>

\* Mutant: the state changes when everything is released, not before.
StopFilterLate ==
  /\ Goes("router", "active", "stopping")
  /\ UNCHANGED <<driverVars, filterVars, lock, left, registered, adaptersToFilter,
                 localVars>>

StopFilter ==
  /\ Goes("router", "active", "stopping")
  /\ filterState' = "stopping"
  /\ UNCHANGED <<driverVars, interfaces, filterList, lock, left, registered,
                 adaptersToFilter, localVars>>

ReleaseFilter ==
  /\ Enter("router", "stopping", "release", interfaces)
  /\ UNCHANGED <<driverVars, filterVars, registered, adaptersToFilter, localVars>>

FilterStopped ==
  /\ Goes("router", "released", "stopped")
  /\ filterState' = "stopped"
  /\ UNCHANGED <<driverVars, interfaces, filterList, lock, left, registered,
                 adaptersToFilter, localVars>>

\* stop() waits for the callbacks, but not for ever: one may still be running.
CancelNotification ==
  /\ Goes("router", "stopped", "idle")
  /\ registered' = FALSE
  /\ UNCHANGED <<driverVars, filterVars, lock, left, adaptersToFilter, localVars>>

-----------------------------------------------------------------------------
UpdateNetworkConfiguration(t) ==
  \/ GetInterfaceList(t) \/ GetConnections(t) \/ NothingNew(t) \/ SomethingNew(t)
  \/ \E x \in Adapter : ApplyTo(t, x)
  \/ Leave(t, "filter", "apply")
  \/ StoreConfiguration(t)

AdapterNext ==
  \/ \E x \in Adapter : Rebind(x)
  \/ \E t \in AdapterThread : UpdateAdapter(t)
  \/ ReleaseAdapter
  \/ Wakes \/ Resets \/ OnNetworkAdapterChange \/ Leave("watcher", "change", "idle")
  \/ \E t \in Callback : Notified(t)
  \/ \E t \in Callback \cup {"router"} : UpdateNetworkConfiguration(t)
  \/ StartRouter \/ FilterStarting \/ StartFilter \/ Leave("router", "start", "started")
  \/ RouterStarted \/ StopFilter \/ ReleaseFilter
  \/ Leave("router", "release", "released") \/ FilterStopped \/ CancelNotification

AdapterSpec == AdapterInit /\ [][AdapterNext]_adapterVars

-----------------------------------------------------------------------------
AdapterTypeOK ==
  /\ bound \subseteq Adapter /\ tunnel \subseteq handles /\ handles \subseteq bound
  /\ handles \subseteq interfaces /\ interfaces \subseteq Adapter
  /\ filterList \subseteq Adapter /\ adaptersToFilter \subseteq Adapter
  /\ adapterEvent \in BOOLEAN /\ registered \in BOOLEAN /\ binds \in 0 .. MaxBinds
  /\ filterState \in {"stopped", "starting", "running", "stopping"}
  /\ lock \in AdapterThread \cup {NoThread} /\ left \subseteq interfaces
  /\ at \in [AdapterThread -> Position]
  /\ todo \in [AdapterThread -> SUBSET Adapter] /\ want \in [AdapterThread -> SUBSET Adapter]

\* No change of the adapters waits for the watcher, and no loop is under way.
Quiesced == ~adapterEvent /\ at["watcher"] = "idle" /\ lock = NoThread

\* queued_multi_interface_packet_filter: whatever callbacks and changes of the
\* adapters overlap with it, once stop_filter has returned no adapter is left in
\* tunnel mode, and while the filter runs the adapters in tunnel mode are those
\* of filter_adapters_list_ as soon as the watcher has caught up.
TunnelsFollowFilter ==
  /\ filterState = "stopped" => tunnel = {}
  /\ Quiesced => handles = bound
  /\ Quiesced /\ filterState = "running" => tunnel = bound \cap filterList

=============================================================================
