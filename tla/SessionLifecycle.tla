--------------------------- MODULE SessionLifecycle ---------------------------
(***************************************************************************)
(* The life of one launch session in SessionManager: LaunchSession.Status  *)
(* and session.Processes, and everything that changes them at the same     *)
(* time: the exit callbacks of ProcessMonitor on the UI thread, the        *)
(* discovery of descendants, the descendant monitor, the correlated        *)
(* handoff, the merging of detected processes, the timers of the grace     *)
(* window, and Stop.  Status is read and written without a lock: between a *)
(* test of it and the assignment that relies on it others take steps.      *)
(***************************************************************************)
EXTENDS Naturals

CONSTANTS
  Member,  \* processes that can belong to the session, by PID; each is used once
  Root,    \* the process that was launched, or that an external hit named
  Kinds,   \* how the sessions considered come about
  Absent   \* no entry, no callback

Kind   == {"generic", "target", "external"}  \* LaunchGeneric, LaunchTarget, AttachExternalLaunch
Role   == {"root", "descendant", "correlated", "restarted-child"}
Status == {"running", "running-via-child", "checking-correlated",
           "running-via-correlated", "waiting-for-restart", "exited"}
Entry    == [role: Role, live: BOOLEAN]   \* live: ExitedAt is null
Callback == {"root", "merged", "correlated"}

ASSUME RootAssumption  == Root \in Member
ASSUME KindsAssumption == Kinds \subseteq Kind
ASSUME NoEntryAssumption == Absent \notin Entry \cup Callback

VARIABLES
  proc,        \* the operating system's processes
  kind,        \* of the session; never changes
  supervised,  \* config.SessionSupervisor.Enabled; never changes
  status,      \* session.Status
  entries,     \* session.Processes
  tracked,     \* ProcessMonitor._tracked: the exit callback of a PID
  fired,       \* callbacks that OnTick took from _tracked and has not run
  callback,    \* the callback the UI thread is in, behind its test of Status
  discovering, \* TrackProcessTreeAsync: the ten seconds after the launch
  monitor,     \* the descendant monitor; "off": not in _activeDescendantMonitors
  cancelled,   \* the monitor's token is cancelled
  handoff,     \* TryCorrelatedHandoffAsync; "asked": the user has to choose
  merging,     \* detected processes between the phases of TryMergeActiveSession
  window,      \* grace windows begun
  pending,     \* of them, those whose timer has not elapsed
  expired,     \* those whose timer found the session still waiting
  stop,        \* StopSession
  toKill       \* its snapshot of live processes

processVars == <<proc, kind, supervised>>
monitorVars == <<monitor, cancelled>>
graceVars   == <<window, pending, expired>>
tickVars    == <<fired, callback>>
stopVars    == <<stop, toKill>>
lifecycleVars ==
  <<proc, kind, supervised, status, entries, tracked, fired, callback, discovering,
    monitor, cancelled, handoff, merging, window, pending, expired, stop, toKill>>

LifecycleTypeOK ==
  /\ proc \in [Member -> {"unborn", "alive", "gone"}]
  /\ kind \in Kinds
  /\ supervised \in BOOLEAN
  /\ status \in Status
  /\ entries \in [Member -> Entry \cup {Absent}]
  /\ tracked \in [Member -> Callback \cup {Absent}]
  /\ fired \subseteq Member \X Callback
  /\ callback \in [pid: Member, cb: Callback, at: {"mark", "live", "dead"}] \cup {Absent}
  /\ discovering \in BOOLEAN
  /\ monitor \in {"off", "head", "sleep", "changed", "dead", "ending"}
  /\ cancelled \in BOOLEAN
  /\ handoff \in {"off", "start", "baseline", "delay", "checked", "asked", "done"}
  /\ merging \in [Member -> {"no", "plain", "restart"}]
  /\ window \in Nat
  /\ pending \subseteq 1..window
  /\ expired \subseteq 1..window
  /\ stop \in {"off", "killing"}
  /\ toKill \subseteq Member
  /\ stop = "off" => toKill = {}

\* The session has been launched or attached: its root has an entry and a
\* callback, discovery runs, and so does the monitor unless AddSession began it.
LifecycleInit ==
  /\ proc = [p \in Member |-> IF p = Root THEN "alive" ELSE "unborn"]
  /\ kind \in Kinds
  /\ supervised \in BOOLEAN
  /\ status = "running"
  /\ entries = [p \in Member |-> IF p = Root THEN [role |-> "root", live |-> TRUE] ELSE Absent]
  /\ tracked = [p \in Member |-> IF p = Root THEN "root" ELSE Absent]
  /\ fired = {}
  /\ callback = Absent
  /\ discovering = TRUE
  /\ monitor = IF kind = "target" THEN "off" ELSE "head"
  /\ cancelled = FALSE
  /\ handoff = "off"
  /\ merging = [p \in Member |-> "no"]
  /\ window = 0
  /\ pending = {}
  /\ expired = {}
  /\ stop = "off"
  /\ toKill = {}

----------------------------------------------------------------------------
(* Operators *)

Live(p) == entries[p] # Absent /\ entries[p].live

HasLiveProcesses == \E p \in Member : Live(p)

MarkExited(P) == [p \in Member |-> IF p \in P /\ Live(p)
                                THEN [entries[p] EXCEPT !.live = FALSE] ELSE entries[p]]

\* A process gets an entry unless its PID has one.
Tracked(p, role) ==
  IF entries[p] = Absent THEN [entries EXCEPT ![p] = [role |-> role, live |-> TRUE]] ELSE entries

IsAlive(p) == proc[p] = "alive"

\* The test that guards most handlers.
Ended == status = "exited"

----------------------------------------------------------------------------
(* Processes *)

MemberStarts(p) ==
  /\ proc[p] = "unborn"
  /\ proc' = [proc EXCEPT ![p] = "alive"]
  /\ UNCHANGED <<kind, supervised, status, entries, tracked, tickVars, discovering,
                 monitorVars, handoff, merging, graceVars, stopVars>>

MemberExits(p) ==
  /\ IsAlive(p)
  /\ proc' = [proc EXCEPT ![p] = "gone"]
  /\ UNCHANGED <<kind, supervised, status, entries, tracked, tickVars, discovering,
                 monitorVars, handoff, merging, graceVars, stopVars>>

----------------------------------------------------------------------------
(* The grace window *)

\* Mutant: a running timer serves the new window as well.
ReuseTimer ==
  /\ supervised
  /\ status' = "waiting-for-restart"
  /\ window' = window + 1
  /\ pending' = IF window = 0 THEN {1} ELSE pending
  /\ UNCHANGED expired

\* BeginGraceWindowOrFinalize
BeginGraceWindow ==
  /\ supervised
  /\ status' = "waiting-for-restart"
  /\ window' = window + 1
  /\ pending' = pending \cup {window + 1}
  /\ UNCHANGED expired

FinalizeAsExited == status' = "exited"

BeginGraceWindowOrFinalize ==
  \/ BeginGraceWindow
  \/ ~supervised /\ FinalizeAsExited /\ UNCHANGED graceVars

\* The delay of a window is over; the task looks at Status.
GraceElapses(w) ==
  /\ w \in pending
  /\ pending' = pending \ {w}
  /\ expired' = IF status = "waiting-for-restart" THEN expired \cup {w} ELSE expired
  /\ UNCHANGED <<processVars, status, entries, tracked, tickVars, discovering, monitorVars,
                 handoff, merging, window, stopVars>>

GraceFinalizes(w) ==
  /\ w \in expired
  /\ FinalizeAsExited
  /\ expired' = expired \ {w}
  /\ UNCHANGED <<processVars, entries, tracked, tickVars, discovering, monitorVars,
                 handoff, merging, window, pending, stopVars>>

----------------------------------------------------------------------------
(* ProcessMonitor.OnTick and the exit callbacks, on the UI thread *)

Dead == {p \in Member : tracked[p] # Absent /\ ~IsAlive(p)}

OnTick ==
  /\ fired = {} /\ callback = Absent
  /\ Dead # {}
  /\ fired' = {<<p, tracked[p]>> : p \in Dead}
  /\ tracked' = [p \in Member |-> IF p \in Dead THEN Absent ELSE tracked[p]]
  /\ UNCHANGED <<processVars, status, entries, callback, discovering, monitorVars, handoff,
                 merging, graceVars, stopVars>>

\* Mutant: a callback does not look at Status.
CallbackUnguarded(p, cb) ==
  /\ callback = Absent
  /\ <<p, cb>> \in fired
  /\ fired' = fired \ {<<p, cb>>}
  /\ callback' = [pid |-> p, cb |-> cb, at |-> "mark"]
  /\ UNCHANGED <<processVars, status, entries, tracked, discovering, monitorVars, handoff,
                 merging, graceVars, stopVars>>

CallbackBegins(p, cb) ==
  /\ callback = Absent
  /\ <<p, cb>> \in fired
  /\ fired' = fired \ {<<p, cb>>}
  /\ callback' = IF Ended THEN Absent ELSE [pid |-> p, cb |-> cb, at |-> "mark"]
  /\ UNCHANGED <<processVars, status, entries, tracked, discovering, monitorVars, handoff,
                 merging, graceVars, stopVars>>

\* MarkProcessExited, and HasLiveProcesses is read.
CallbackMarks ==
  /\ callback # Absent /\ callback.at = "mark"
  /\ entries' = MarkExited({callback.pid})
  /\ callback' = [callback EXCEPT
       !.at = IF \E p \in Member \ {callback.pid} : Live(p) THEN "live" ELSE "dead"]
  /\ UNCHANGED <<processVars, status, tracked, fired, discovering, monitorVars, handoff,
                 merging, graceVars, stopVars>>

\* Other processes live: root-exit callbacks and OnMergedProcessExited take
\* it for a launcher handoff, the one of AttachCorrelated does nothing.
CallbackHandsOver ==
  /\ callback # Absent /\ callback.at = "live"
  /\ status' = IF callback.cb = "correlated" THEN status ELSE "running-via-child"
  /\ callback' = Absent
  /\ UNCHANGED <<processVars, entries, tracked, fired, discovering, monitorVars, handoff,
                 merging, graceVars, stopVars>>

\* The last process is gone: LaunchGeneric looks for a correlated process
\* before the session waits or ends.
CallbackChecks ==
  /\ callback # Absent /\ callback.at = "dead"
  /\ callback.cb = "root" /\ kind = "generic"
  /\ status' = "checking-correlated"
  /\ handoff' = "start"
  /\ callback' = Absent
  /\ UNCHANGED <<processVars, entries, tracked, fired, discovering, monitorVars, merging,
                 graceVars, stopVars>>

CallbackEnds ==
  /\ callback # Absent /\ callback.at = "dead"
  /\ ~(callback.cb = "root" /\ kind = "generic")
  /\ BeginGraceWindowOrFinalize
  /\ callback' = Absent
  /\ UNCHANGED <<processVars, entries, tracked, fired, discovering, monitorVars, handoff,
                 merging, stopVars>>

CallbackStep ==
  \/ \E p \in Member, cb \in Callback : CallbackBegins(p, cb)
  \/ CallbackMarks \/ CallbackHandsOver \/ CallbackChecks \/ CallbackEnds

----------------------------------------------------------------------------
(* TrackProcessTreeAsync: nobody stops it when the session ends. *)

OnDescendant(p) ==
  /\ discovering
  /\ IsAlive(p)
  /\ entries[p] = Absent
  /\ entries' = Tracked(p, "descendant")
  /\ UNCHANGED <<processVars, status, tracked, tickVars, discovering, monitorVars, handoff,
                 merging, graceVars, stopVars>>

DiscoveryEnds ==
  /\ discovering
  /\ discovering' = FALSE
  /\ UNCHANGED <<processVars, status, entries, tracked, tickVars, monitorVars, handoff,
                 merging, graceVars, stopVars>>

----------------------------------------------------------------------------
(* MonitorDescendantsAsync *)

MonitorLoops ==
  /\ monitor = "head"
  /\ monitor' = IF ~cancelled /\ HasLiveProcesses /\ ~Ended THEN "sleep" ELSE "ending"
  /\ UNCHANGED <<processVars, status, entries, tracked, tickVars, discovering, cancelled,
                 handoff, merging, graceVars, stopVars>>

DeadDescendants ==
  {p \in Member : Live(p) /\ entries[p].role \in {"descendant", "correlated"} /\ ~IsAlive(p)}

\* The delay is over: the exits of descendants are recorded.
MonitorPolls ==
  /\ monitor = "sleep"
  /\ IF cancelled
     THEN monitor' = "ending" /\ UNCHANGED entries
     ELSE /\ entries' = MarkExited(DeadDescendants)
          /\ monitor' = IF DeadDescendants = {} THEN "head" ELSE "changed"
  /\ UNCHANGED <<processVars, status, tracked, tickVars, discovering, cancelled, handoff,
                 merging, graceVars, stopVars>>

\* HasLiveProcesses and Status are read.
MonitorDecides ==
  /\ monitor = "changed"
  /\ monitor' = IF ~HasLiveProcesses /\ status \in {"running-via-child", "running-via-correlated"}
                THEN "dead" ELSE "head"
  /\ UNCHANGED <<processVars, status, entries, tracked, tickVars, discovering, cancelled,
                 handoff, merging, graceVars, stopVars>>

MonitorEndsSession ==
  /\ monitor = "dead"
  /\ BeginGraceWindowOrFinalize
  /\ monitor' = "head"
  /\ UNCHANGED <<processVars, entries, tracked, tickVars, discovering, cancelled, handoff,
                 merging, stopVars>>

\* The monitor's finally block.
MonitorRemoved ==
  /\ monitor = "ending"
  /\ monitor' = "off"
  /\ UNCHANGED <<processVars, status, entries, tracked, tickVars, discovering, cancelled,
                 handoff, merging, graceVars, stopVars>>

MonitorStep ==
  MonitorLoops \/ MonitorPolls \/ MonitorDecides \/ MonitorEndsSession \/ MonitorRemoved

\* RestartMonitorIfNeeded: no second monitor while one is registered.
RestartMonitorIfNeeded ==
  IF monitor = "off"
  THEN monitor' = "head" /\ cancelled' = FALSE
  ELSE UNCHANGED monitorVars

----------------------------------------------------------------------------
(* TryCorrelatedHandoffAsync *)

AttachCorrelated(p) ==
  /\ entries' = Tracked(p, "correlated")
  /\ status' = "running-via-correlated"
  /\ tracked' = [tracked EXCEPT ![p] = "correlated"]

\* Status is tested at the start and again after three seconds.
HandoffTests(from, to) ==
  /\ handoff = from
  /\ handoff' = IF Ended THEN "done" ELSE to
  /\ UNCHANGED <<processVars, status, entries, tracked, tickVars, discovering, monitorVars,
                 merging, graceVars, stopVars>>

\* Mutant: a failure is logged and the session left as it is.
HandoffGivesUp ==
  /\ handoff \in {"baseline", "checked"}
  /\ handoff' = "done"
  /\ UNCHANGED <<processVars, status, entries, tracked, tickVars, discovering, monitorVars, merging,
                 graceVars, stopVars>>

\* The baseline task or the snapshot throws, or no new process scores higher
\* than low.
HandoffFindsNothing ==
  /\ handoff \in {"baseline", "checked"}
  /\ BeginGraceWindowOrFinalize
  /\ handoff' = "done"
  /\ UNCHANGED <<processVars, entries, tracked, tickVars, discovering, monitorVars, merging, stopVars>>

\* One candidate is alive and scores high.
HandoffAttaches(p) ==
  /\ handoff = "checked"
  /\ p # Root /\ IsAlive(p)
  /\ AttachCorrelated(p)
  /\ handoff' = "done"
  /\ UNCHANGED <<processVars, tickVars, discovering, monitorVars, merging, graceVars, stopVars>>

HandoffHasBaseline ==
  /\ handoff = "baseline"
  /\ handoff' = "delay"
  /\ UNCHANGED <<processVars, status, entries, tracked, tickVars, discovering, monitorVars,
                 merging, graceVars, stopVars>>

HandoffAsks ==
  /\ handoff = "checked"
  /\ \E p \in Member \ {Root} : IsAlive(p)
  /\ handoff' = "asked"
  /\ UNCHANGED <<processVars, status, entries, tracked, tickVars, discovering, monitorVars,
                 merging, graceVars, stopVars>>

HandoffStep ==
  \/ HandoffTests("start", "baseline") \/ HandoffTests("delay", "checked")
  \/ HandoffHasBaseline \/ HandoffFindsNothing \/ HandoffAsks
  \/ \E p \in Member : HandoffAttaches(p)

\* The dialog, on the UI thread: the candidate may be gone by now.
UserAttaches(p) ==
  /\ handoff = "asked"
  /\ callback = Absent
  /\ p # Root /\ proc[p] # "unborn"
  /\ AttachCorrelated(p)
  /\ handoff' = "done"
  /\ UNCHANGED <<processVars, tickVars, discovering, monitorVars, merging, graceVars, stopVars>>

IgnoreCorrelated ==
  /\ handoff = "asked"
  /\ callback = Absent
  /\ FinalizeAsExited
  /\ handoff' = "done"
  /\ UNCHANGED <<processVars, entries, tracked, tickVars, discovering, monitorVars, merging,
                 graceVars, stopVars>>

----------------------------------------------------------------------------
(* TryMergeActiveSession, for a process that matches the session *)

\* Under the lock on _sessions, which no writer of Status outside holds.
MergeAdds(p) ==
  /\ ~Ended
  /\ IsAlive(p)
  /\ entries[p] = Absent
  /\ \A q \in Member : merging[q] # "restart"
  /\ entries' = Tracked(p, IF status = "waiting-for-restart" THEN "restarted-child" ELSE "descendant")
  /\ merging' = [merging EXCEPT ![p] = IF status = "waiting-for-restart" THEN "restart" ELSE "plain"]
  /\ UNCHANGED <<processVars, status, tracked, tickVars, discovering, monitorVars, handoff,
                 graceVars, stopVars>>

\* The session runs again if it was waiting, and the exit of the process will
\* be noticed.
MergeEnds(p) ==
  /\ merging[p] # "no"
  /\ merging' = [merging EXCEPT ![p] = "no"]
  /\ tracked' = [tracked EXCEPT ![p] = "merged"]
  /\ IF merging[p] = "restart"
     THEN status' = "running" /\ RestartMonitorIfNeeded
     ELSE UNCHANGED <<status, monitorVars>>
  /\ UNCHANGED <<processVars, entries, tickVars, discovering, handoff, graceVars, stopVars>>

----------------------------------------------------------------------------
(* StopSession, on a pool thread *)

StopBegins ==
  /\ stop = "off"
  /\ ~Ended
  /\ cancelled' = TRUE
  /\ status' = "exited"
  /\ toKill' = {p \in Member : Live(p)}
  /\ stop' = "killing"
  /\ UNCHANGED <<processVars, entries, tracked, tickVars, discovering, monitor, handoff, merging,
                 graceVars>>

\* A kill succeeds unless it throws; then the entry stays as it is.
StopKills(p) ==
  /\ stop = "killing"
  /\ p \in toKill
  /\ toKill' = toKill \ {p}
  /\ \/ /\ proc' = [proc EXCEPT ![p] = "gone"]
        /\ entries' = MarkExited({p})
     \/ IsAlive(p) /\ UNCHANGED <<proc, entries>>
  /\ UNCHANGED <<kind, supervised, status, tracked, tickVars, discovering, monitorVars,
                 handoff, merging, graceVars, stop>>

\* Mutant: the first kill that throws ends the loop.
StopGivesUp ==
  /\ stop = "killing"
  /\ \A p \in toKill : IsAlive(p)
  /\ stop' = "off"
  /\ UNCHANGED <<processVars, status, entries, tracked, tickVars, discovering, monitorVars,
                 handoff, merging, graceVars, toKill>>

StopEnds ==
  /\ stop = "killing"
  /\ toKill = {}
  /\ stop' = "off"
  /\ UNCHANGED <<processVars, status, entries, tracked, tickVars, discovering, monitorVars,
                 handoff, merging, graceVars, toKill>>

StopStep == (\E p \in Member : StopKills(p)) \/ StopEnds

----------------------------------------------------------------------------
Process(p) ==
  \/ MemberStarts(p) \/ MemberExits(p) \/ OnDescendant(p) \/ MergeAdds(p) \/ MergeEnds(p)
  \/ UserAttaches(p)

Grace == \E w \in pending \cup expired : GraceElapses(w) \/ GraceFinalizes(w)

LifecycleNext ==
  \/ \E p \in Member : Process(p)
  \/ Grace
  \/ OnTick \/ CallbackStep
  \/ DiscoveryEnds
  \/ MonitorStep
  \/ HandoffStep \/ IgnoreCorrelated
  \/ StopBegins \/ StopStep

\* The timer of the UI thread ticks, the pool schedules started tasks, delays
\* come to an end.  Nobody makes a process exit or the user act.
LifecycleFairness ==
  /\ WF_lifecycleVars(Grace)
  /\ WF_lifecycleVars(OnTick) /\ WF_lifecycleVars(CallbackStep)
  /\ WF_lifecycleVars(DiscoveryEnds)
  /\ WF_lifecycleVars(MonitorStep)
  /\ WF_lifecycleVars(HandoffStep)
  /\ \A p \in Member : WF_lifecycleVars(MergeEnds(p))
  /\ WF_lifecycleVars(StopStep)

LifecycleSpec == LifecycleInit /\ [][LifecycleNext]_lifecycleVars
FairLifecycleSpec == LifecycleSpec /\ LifecycleFairness

----------------------------------------------------------------------------
(* Properties *)

\* A session that waits for a restart has a timer that will end the wait: the
\* one of its own window, whatever older timers, merges, handoffs and
\* callbacks did to Status in between.
WaitingHasTimer == status = "waiting-for-restart" => window \in pending \cup expired

\* A session in checking-correlated is never forgotten: the handoff task is at
\* work on it or the user has been asked.
CheckingIsAttended ==
  status = "checking-correlated" => handoff \in {"start", "baseline", "delay", "checked", "asked"}

\* Nobody waits without somebody who will end the wait.
Attended == WaitingHasTimer /\ CheckingIsAttended

\* A wait for a restart, and a search for a handoff, come to an end; only the
\* user can keep a session in checking-correlated.
EveryWaitEnds ==
  /\ status = "waiting-for-restart" ~> status # "waiting-for-restart"
  /\ status = "checking-correlated" ~> status # "checking-correlated" \/ handoff = "asked"

\* Somebody is behind a test of Status and will assign to it.
InFlight ==
  \/ callback # Absent
  \/ monitor = "dead"
  \/ handoff \in {"baseline", "checked", "asked"}
  \/ \E p \in Member : merging[p] = "restart"

\* An ended session stays ended unless a step that had begun before revives
\* it: every handler tests Status before its first effect.
EndedStaysEnded == [][Ended /\ ~InFlight => Ended' /\ ~InFlight']_lifecycleVars

\* "Concurrent TrackPid callbacks check Status and no-op.": a callback that
\* finishes after the session was marked exited leaves it exited.
CallbacksNoOpAfterStop ==
  [][Ended /\ callback # Absent /\ callback' = Absent => Ended']_lifecycleVars

\* "This lets restarted processes reattach within the configured window.": a
\* window is ended by its own timer, and not while a process of the session
\* that was detected in it is alive.
GraceWindowHonoured ==
  [][\A w \in expired \ expired' :
       status = "waiting-for-restart" =>
         /\ w = window
         /\ \A p \in Member : Live(p) => ~IsAlive(p)]_lifecycleVars

\* "Without this, the session card never auto-transitions to exited when a
\* launcher's children die.": once every process is gone the session ends, or
\* the user is asked about candidates.
EndsWithItsProcesses ==
  (\A p \in Member : proc[p] = "gone") ~> Ended \/ handoff = "asked"

=============================================================================
