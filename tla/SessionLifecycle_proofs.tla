------------------------ MODULE SessionLifecycle_proofs ------------------------
(***************************************************************************)
(* Proofs about SessionLifecycle, for every set of processes.              *)
(***************************************************************************)
EXTENDS SessionLifecycle, TLAPS

USE RootAssumption, KindsAssumption, NoEntryAssumption

LEMMA TypeInit == LifecycleInit => LifecycleTypeOK
<1> SUFFICES ASSUME LifecycleInit PROVE LifecycleTypeOK
  OBVIOUS
<1>1. entries \in [Member -> Entry \cup {Absent}]
  BY DEF LifecycleInit, Entry, Role
<1>2. tracked \in [Member -> Callback \cup {Absent}]
  BY DEF LifecycleInit, Callback
<1>3. window \in Nat /\ pending \subseteq 1..window /\ expired \subseteq 1..window
  BY DEF LifecycleInit
<1>4. proc \in [Member -> {"unborn", "alive", "gone"}] /\ merging \in [Member -> {"no", "plain", "restart"}]
  BY DEF LifecycleInit
<1>5. QED BY <1>1, <1>2, <1>3, <1>4 DEF LifecycleInit, LifecycleTypeOK, Status

----------------------------------------------------------------------------
(* What the operators return *)

LEMMA MarkExitedType ==
  ASSUME LifecycleTypeOK, NEW P \in SUBSET Member
  PROVE  MarkExited(P) \in [Member -> Entry \cup {Absent}]
<1>1. ASSUME NEW p \in Member, Live(p)
      PROVE  [entries[p] EXCEPT !.live = FALSE] \in Entry
  <2>1. entries[p] \in Entry
    BY <1>1 DEF Live, LifecycleTypeOK
  <2>2. QED BY <2>1 DEF Entry
<1>2. \A p \in Member : entries[p] \in Entry \cup {Absent}
  BY DEF LifecycleTypeOK
<1>3. QED BY <1>1, <1>2 DEF MarkExited

LEMMA TrackedType ==
  ASSUME LifecycleTypeOK, NEW p \in Member, NEW role \in Role
  PROVE  Tracked(p, role) \in [Member -> Entry \cup {Absent}]
<1>1. [role |-> role, live |-> TRUE] \in Entry
  BY DEF Entry
<1>2. QED BY <1>1 DEF Tracked, LifecycleTypeOK

LEMMA GraceType ==
  ASSUME LifecycleTypeOK, BeginGraceWindowOrFinalize
  PROVE  /\ status' \in {"waiting-for-restart", "exited"}
         /\ window' \in Nat
         /\ pending' \subseteq 1..window'
         /\ expired' \subseteq 1..window'
         /\ status' = "waiting-for-restart" => window' \in pending'
<1>1. CASE BeginGraceWindow
  BY <1>1 DEF BeginGraceWindow, LifecycleTypeOK
<1>2. CASE ~supervised /\ FinalizeAsExited /\ UNCHANGED graceVars
  BY <1>2 DEF FinalizeAsExited, graceVars, LifecycleTypeOK
<1>3. QED BY <1>1, <1>2 DEF BeginGraceWindowOrFinalize

----------------------------------------------------------------------------
(* Types *)

\* Handlers that change where they are and nothing else.
LEMMA ControlType ==
  ASSUME LifecycleTypeOK,
         UNCHANGED <<processVars, status, entries, tracked, fired, cancelled, merging, graceVars, stopVars>>,
         callback' \in [pid: Member, cb: Callback, at: {"mark", "live", "dead"}] \cup {Absent},
         discovering' \in BOOLEAN,
         monitor' \in {"off", "head", "sleep", "changed", "dead", "ending"},
         handoff' \in {"off", "start", "baseline", "delay", "checked", "asked", "done"}
  PROVE  LifecycleTypeOK'
<1>1. UNCHANGED <<proc, kind, supervised, status, entries, tracked, fired, cancelled, merging>>
  BY DEF processVars
<1>2. UNCHANGED <<window, pending, expired, stop, toKill>>
  BY DEF graceVars, stopVars
<1>3. QED BY <1>1, <1>2 DEF LifecycleTypeOK

LEMMA TypeStep == LifecycleTypeOK /\ [LifecycleNext]_lifecycleVars => LifecycleTypeOK'
<1> SUFFICES ASSUME LifecycleTypeOK, [LifecycleNext]_lifecycleVars PROVE LifecycleTypeOK'
  OBVIOUS
<1> USE DEF processVars, monitorVars, graceVars, tickVars, stopVars
<1>1. ASSUME NEW p \in Member, Process(p) PROVE LifecycleTypeOK'
  <2>1. CASE MemberStarts(p) \/ MemberExits(p)
    <3>1. proc' \in [Member -> {"unborn", "alive", "gone"}]
      BY <2>1 DEF MemberStarts, MemberExits, LifecycleTypeOK
    <3>2. UNCHANGED <<kind, supervised, status, entries, tracked, tickVars, discovering,
                      monitorVars, handoff, merging, graceVars, stopVars>>
      BY <2>1 DEF MemberStarts, MemberExits
    <3>3. QED BY <3>1, <3>2 DEF LifecycleTypeOK
  <2>2. CASE OnDescendant(p)
    <3>1. entries' \in [Member -> Entry \cup {Absent}]
      BY <2>2, TrackedType DEF OnDescendant, Role
    <3>2. QED BY <2>2, <3>1 DEF OnDescendant, LifecycleTypeOK
  <2>3. CASE MergeAdds(p)
    <3>1. entries' \in [Member -> Entry \cup {Absent}]
      BY <2>3, TrackedType DEF MergeAdds, Role
    <3>2. QED BY <2>3, <3>1 DEF MergeAdds, LifecycleTypeOK
  <2>4. CASE MergeEnds(p)
    <3>1. status' \in Status /\ monitor' \in {"off", "head", "sleep", "changed", "dead", "ending"}
          /\ cancelled' \in BOOLEAN
      BY <2>4 DEF MergeEnds, RestartMonitorIfNeeded, LifecycleTypeOK, Status
    <3>2. /\ tracked' \in [Member -> Callback \cup {Absent}]
          /\ merging' \in [Member -> {"no", "plain", "restart"}]
      BY <2>4 DEF MergeEnds, LifecycleTypeOK, Callback
    <3>3. QED BY <2>4, <3>1, <3>2 DEF MergeEnds, LifecycleTypeOK
  <2>5. CASE UserAttaches(p)
    <3>1. entries' \in [Member -> Entry \cup {Absent}]
      BY <2>5, TrackedType DEF UserAttaches, AttachCorrelated, Role
    <3>2. tracked' \in [Member -> Callback \cup {Absent}] /\ status' \in Status
      BY <2>5 DEF UserAttaches, AttachCorrelated, LifecycleTypeOK, Callback, Status
    <3>3. QED BY <2>5, <3>1, <3>2 DEF UserAttaches, LifecycleTypeOK
  <2>6. QED BY <1>1, <2>1, <2>2, <2>3, <2>4, <2>5 DEF Process
<1>2. CASE Grace
  <2>1. PICK w \in pending \cup expired : GraceElapses(w) \/ GraceFinalizes(w)
    BY <1>2 DEF Grace
  <2>2. CASE GraceElapses(w)
    <3>1. /\ pending' \subseteq 1..window'
          /\ expired' \subseteq 1..window'
          /\ UNCHANGED <<processVars, status, entries, tracked, tickVars, discovering, monitorVars,
                         handoff, merging, window, stopVars>>
      BY <2>2 DEF GraceElapses, LifecycleTypeOK
    <3>2. QED BY <3>1 DEF LifecycleTypeOK
  <2>3. CASE GraceFinalizes(w)
    BY <2>3 DEF GraceFinalizes, FinalizeAsExited, LifecycleTypeOK, Status
  <2>4. QED BY <2>1, <2>2, <2>3
<1>3. CASE OnTick
  BY <1>3 DEF OnTick, Dead, LifecycleTypeOK
<1>4. CASE CallbackStep
  <2>1. ASSUME NEW p \in Member, NEW cb \in Callback, CallbackBegins(p, cb) PROVE LifecycleTypeOK'
    BY <2>1 DEF CallbackBegins, LifecycleTypeOK
  <2>2. CASE CallbackMarks
    <3>1. callback \in [pid: Member, cb: Callback, at: {"mark", "live", "dead"}]
      BY <2>2 DEF CallbackMarks, LifecycleTypeOK
    <3>2. entries' \in [Member -> Entry \cup {Absent}]
      BY <2>2, <3>1, MarkExitedType DEF CallbackMarks
    <3>3. callback' \in [pid: Member, cb: Callback, at: {"mark", "live", "dead"}]
      BY <2>2, <3>1 DEF CallbackMarks
    <3>4. UNCHANGED <<processVars, status, tracked, fired, discovering, monitorVars, handoff, merging,
                      graceVars, stopVars>>
      BY <2>2 DEF CallbackMarks
    <3>5. QED BY <3>2, <3>3, <3>4 DEF processVars, monitorVars, graceVars, stopVars, LifecycleTypeOK
  <2>3. CASE CallbackHandsOver
    BY <2>3 DEF CallbackHandsOver, LifecycleTypeOK, Status
  <2>4. CASE CallbackChecks
    BY <2>4 DEF CallbackChecks, LifecycleTypeOK, Status
  <2>5. CASE CallbackEnds
    <3>1. BeginGraceWindowOrFinalize
      BY <2>5 DEF CallbackEnds
    <3>2. QED BY <2>5, <3>1, GraceType DEF CallbackEnds, LifecycleTypeOK, Status
  <2>6. QED BY <1>4, <2>1, <2>2, <2>3, <2>4, <2>5 DEF CallbackStep
<1>control. LifecycleTypeOK => /\ callback \in [pid: Member, cb: Callback, at: {"mark", "live", "dead"}] \cup {Absent}
                      /\ discovering \in BOOLEAN
                      /\ monitor \in {"off", "head", "sleep", "changed", "dead", "ending"}
                      /\ handoff \in {"off", "start", "baseline", "delay", "checked", "asked", "done"}
  BY DEF LifecycleTypeOK
<1>5. CASE DiscoveryEnds
  BY <1>5, <1>control, ControlType DEF DiscoveryEnds, tickVars, monitorVars
<1>6. CASE MonitorStep
  <2>1. CASE MonitorLoops \/ MonitorDecides \/ MonitorRemoved
    BY <2>1, <1>control, ControlType DEF MonitorLoops, MonitorDecides, MonitorRemoved, tickVars
  <2>2. CASE MonitorPolls
    <3>1. MarkExited(DeadDescendants) \in [Member -> Entry \cup {Absent}]
      BY MarkExitedType DEF DeadDescendants
    <3>2. entries' \in [Member -> Entry \cup {Absent}]
          /\ monitor' \in {"off", "head", "sleep", "changed", "dead", "ending"}
      BY <2>2, <3>1 DEF MonitorPolls, LifecycleTypeOK
    <3>3. QED BY <2>2, <3>2 DEF MonitorPolls, LifecycleTypeOK
  <2>3. CASE MonitorEndsSession
    <3>1. BeginGraceWindowOrFinalize
      BY <2>3 DEF MonitorEndsSession
    <3>2. QED BY <2>3, <3>1, GraceType DEF MonitorEndsSession, LifecycleTypeOK, Status
  <2>4. QED BY <1>6, <2>1, <2>2, <2>3 DEF MonitorStep
<1>7. CASE HandoffStep \/ IgnoreCorrelated
  <2>1. CASE \/ HandoffTests("start", "baseline") \/ HandoffTests("delay", "checked")
             \/ HandoffHasBaseline \/ HandoffAsks
    BY <2>1, <1>control, ControlType DEF HandoffTests, HandoffHasBaseline, HandoffAsks,
       tickVars, monitorVars
  <2>2. CASE HandoffFindsNothing
    <3>1. BeginGraceWindowOrFinalize
      BY <2>2 DEF HandoffFindsNothing
    <3>2. QED BY <2>2, <3>1, GraceType DEF HandoffFindsNothing, LifecycleTypeOK, Status
  <2>3. ASSUME NEW p \in Member, HandoffAttaches(p) PROVE LifecycleTypeOK'
    <3>1. entries' \in [Member -> Entry \cup {Absent}]
      BY <2>3, TrackedType DEF HandoffAttaches, AttachCorrelated, Role
    <3>2. tracked' \in [Member -> Callback \cup {Absent}] /\ status' \in Status
      BY <2>3 DEF HandoffAttaches, AttachCorrelated, LifecycleTypeOK, Callback, Status
    <3>3. QED BY <2>3, <3>1, <3>2 DEF HandoffAttaches, LifecycleTypeOK
  <2>4. CASE IgnoreCorrelated
    BY <2>4 DEF IgnoreCorrelated, FinalizeAsExited, LifecycleTypeOK, Status
  <2>5. QED BY <1>7, <2>1, <2>2, <2>3, <2>4 DEF HandoffStep
<1>8. CASE StopBegins \/ StopStep
  <2>1. CASE StopBegins
    BY <2>1 DEF StopBegins, LifecycleTypeOK, Status
  <2>2. ASSUME NEW p \in Member, StopKills(p) PROVE LifecycleTypeOK'
    <3>1. entries' \in [Member -> Entry \cup {Absent}]
      BY <2>2, MarkExitedType DEF StopKills, LifecycleTypeOK
    <3>2. QED BY <2>2, <3>1 DEF StopKills, LifecycleTypeOK
  <2>3. CASE StopEnds
    BY <2>3 DEF StopEnds, LifecycleTypeOK
  <2>4. QED BY <1>8, <2>1, <2>2, <2>3 DEF StopStep
<1>9. CASE UNCHANGED lifecycleVars
  BY <1>9 DEF lifecycleVars, LifecycleTypeOK
<1>10. QED
  BY <1>1, <1>2, <1>3, <1>4, <1>5, <1>6, <1>7, <1>8, <1>9 DEF LifecycleNext

\* Whatever is started, merged, attached and stopped, in whatever order, the
\* session keeps its types; among them that timers belong to windows begun.
THEOREM LifecycleTypes == LifecycleSpec => []LifecycleTypeOK
BY TypeInit, TypeStep, PTL DEF LifecycleSpec

----------------------------------------------------------------------------
(* Nobody waits without somebody who will end the wait.  The two parts are *)
(* inductive as they stand, given the types.                               *)

LEMMA AttendedStep ==
  ASSUME LifecycleTypeOK, Attended, [LifecycleNext]_lifecycleVars
  PROVE  Attended'
<1> USE DEF Attended, WaitingHasTimer, CheckingIsAttended
<1>undisturbed. ASSUME UNCHANGED <<status, handoff, graceVars>> PROVE Attended'
  BY <1>undisturbed DEF graceVars
<1>left. ASSUME status' \notin {"waiting-for-restart", "checking-correlated"} PROVE Attended'
  BY <1>left
<1>grace. ASSUME BeginGraceWindowOrFinalize PROVE Attended'
  BY <1>grace, GraceType
<1>1. ASSUME NEW p \in Member, Process(p) PROVE Attended'
  <2>1. CASE MemberStarts(p) \/ MemberExits(p) \/ OnDescendant(p) \/ MergeAdds(p)
    BY <2>1, <1>undisturbed DEF MemberStarts, MemberExits, OnDescendant, MergeAdds
  <2>2. CASE MergeEnds(p)
    BY <2>2, <1>undisturbed, <1>left DEF MergeEnds
  <2>3. CASE UserAttaches(p)
    BY <2>3, <1>left DEF UserAttaches, AttachCorrelated
  <2>4. QED BY <1>1, <2>1, <2>2, <2>3 DEF Process
<1>2. CASE Grace
  <2>1. PICK w \in pending \cup expired : GraceElapses(w) \/ GraceFinalizes(w)
    BY <1>2 DEF Grace
  <2>2. CASE GraceElapses(w)
    BY <2>2 DEF GraceElapses
  <2>3. CASE GraceFinalizes(w)
    BY <2>3, <1>left DEF GraceFinalizes, FinalizeAsExited
  <2>4. QED BY <2>1, <2>2, <2>3
<1>3. CASE OnTick \/ DiscoveryEnds
  BY <1>3, <1>undisturbed DEF OnTick, DiscoveryEnds
<1>4. CASE CallbackStep
  <2>1. CASE CallbackMarks \/ \E p \in Member, cb \in Callback : CallbackBegins(p, cb)
    BY <2>1, <1>undisturbed DEF CallbackMarks, CallbackBegins
  <2>2. CASE CallbackHandsOver
    BY <2>2, <1>undisturbed, <1>left DEF CallbackHandsOver
  <2>3. CASE CallbackChecks
    BY <2>3 DEF CallbackChecks
  <2>4. CASE CallbackEnds
    BY <2>4, <1>grace DEF CallbackEnds
  <2>5. QED BY <1>4, <2>1, <2>2, <2>3, <2>4 DEF CallbackStep
<1>5. CASE MonitorStep
  <2>1. CASE MonitorLoops \/ MonitorPolls \/ MonitorDecides \/ MonitorRemoved
    BY <2>1, <1>undisturbed DEF MonitorLoops, MonitorPolls, MonitorDecides, MonitorRemoved
  <2>2. CASE MonitorEndsSession
    BY <2>2, <1>grace DEF MonitorEndsSession
  <2>3. QED BY <1>5, <2>1, <2>2 DEF MonitorStep
<1>6. CASE HandoffStep
  <2>1. CASE HandoffTests("start", "baseline") \/ HandoffTests("delay", "checked")
    BY <2>1 DEF HandoffTests, Ended, graceVars
  <2>2. CASE HandoffHasBaseline \/ HandoffAsks
    BY <2>2 DEF HandoffHasBaseline, HandoffAsks, graceVars
  <2>3. CASE HandoffFindsNothing
    BY <2>3, <1>grace DEF HandoffFindsNothing
  <2>4. ASSUME NEW p \in Member, HandoffAttaches(p) PROVE Attended'
    BY <2>4, <1>left DEF HandoffAttaches, AttachCorrelated
  <2>5. QED BY <1>6, <2>1, <2>2, <2>3, <2>4 DEF HandoffStep
<1>7. CASE IgnoreCorrelated \/ StopBegins
  BY <1>7, <1>left DEF IgnoreCorrelated, FinalizeAsExited, StopBegins
<1>8. CASE StopStep
  BY <1>8, <1>undisturbed DEF StopStep, StopKills, StopEnds
<1>9. CASE UNCHANGED lifecycleVars
  BY <1>9, <1>undisturbed DEF lifecycleVars, graceVars
<1>10. QED
  BY <1>1, <1>2, <1>3, <1>4, <1>5, <1>6, <1>7, <1>8, <1>9 DEF LifecycleNext

\* A session that waits for a restart has the timer of its own window, which
\* stale timers of earlier windows do not use up; one in checking-correlated
\* has its handoff task, which leaves that state behind on every path,
\* failures of its awaits included, or the user to decide.
THEOREM NobodyWaitsUnattended == LifecycleSpec => []Attended
<1>1. LifecycleInit => Attended
  BY DEF LifecycleInit, Attended, WaitingHasTimer, CheckingIsAttended
<1>2. LifecycleTypeOK /\ Attended /\ [LifecycleNext]_lifecycleVars => Attended'
  BY AttendedStep
<1>3. QED BY <1>1, <1>2, LifecycleTypes, PTL DEF LifecycleSpec

----------------------------------------------------------------------------
(* Ended sessions *)

Settled == Ended /\ ~InFlight

LEMMA SettledStep ==
  ASSUME LifecycleTypeOK, Settled, [LifecycleNext]_lifecycleVars
  PROVE  Settled'
<1> USE DEF Settled, Ended, InFlight
<1>quiet. /\ status = "exited" /\ callback = Absent /\ monitor # "dead"
          /\ handoff \notin {"baseline", "checked", "asked"}
          /\ \A p \in Member : merging[p] # "restart"
  OBVIOUS
<1>undisturbed. ASSUME UNCHANGED <<status, callback, monitor, handoff, merging>>
                PROVE  Settled'
  BY <1>undisturbed, <1>quiet
<1>1. ASSUME NEW p \in Member, Process(p) PROVE Settled'
  <2>1. CASE MemberStarts(p) \/ MemberExits(p) \/ OnDescendant(p)
    BY <2>1, <1>undisturbed DEF MemberStarts, MemberExits, OnDescendant, tickVars, monitorVars
  <2>2. ~MergeAdds(p) /\ ~UserAttaches(p)
    BY <1>quiet DEF MergeAdds, UserAttaches
  <2>3. CASE MergeEnds(p)
    <3>1. merging[p] # "restart" /\ merging' = [merging EXCEPT ![p] = "no"]
      BY <2>3, <1>quiet DEF MergeEnds
    <3>2. UNCHANGED <<status, callback, monitor, handoff>>
      BY <2>3, <3>1 DEF MergeEnds, tickVars, monitorVars
    <3>3. \A q \in Member : merging'[q] # "restart"
      BY <3>1, <1>quiet DEF LifecycleTypeOK
    <3>4. QED BY <3>2, <3>3, <1>quiet
  <2>4. QED BY <1>1, <2>1, <2>2, <2>3 DEF Process
<1>2. CASE Grace
  <2>1. PICK w \in pending \cup expired : GraceElapses(w) \/ GraceFinalizes(w)
    BY <1>2 DEF Grace
  <2>2. status' = "exited" /\ UNCHANGED <<callback, monitor, handoff, merging>>
    BY <2>1, <1>quiet DEF GraceElapses, GraceFinalizes, FinalizeAsExited, tickVars, monitorVars
  <2>3. QED BY <2>2, <1>quiet
<1>3. CASE OnTick \/ DiscoveryEnds
  BY <1>3, <1>undisturbed DEF OnTick, DiscoveryEnds, tickVars, monitorVars
<1>4. CASE CallbackStep
  <2>1. PICK p \in Member, cb \in Callback : CallbackBegins(p, cb)
    BY <1>4, <1>quiet DEF CallbackStep, CallbackMarks, CallbackHandsOver, CallbackChecks, CallbackEnds
  <2>2. QED BY <2>1, <1>undisturbed DEF CallbackBegins, monitorVars
<1>5. CASE MonitorStep
  <2>1. UNCHANGED <<status, callback, handoff, merging>> /\ monitor' # "dead"
    BY <1>5, <1>quiet DEF MonitorStep, MonitorLoops, MonitorPolls, MonitorDecides,
       MonitorRemoved, MonitorEndsSession, tickVars
  <2>2. QED BY <2>1, <1>quiet
<1>6. CASE HandoffStep
  <2>1. HandoffTests("start", "baseline") \/ HandoffTests("delay", "checked")
    BY <1>6, <1>quiet DEF HandoffStep, HandoffHasBaseline, HandoffFindsNothing, HandoffAsks,
       HandoffAttaches
  <2>2. handoff' = "done" /\ UNCHANGED <<status, callback, monitor, merging>>
    BY <2>1, <1>quiet DEF HandoffTests, tickVars, monitorVars
  <2>3. QED BY <2>2, <1>quiet
<1>7. ~IgnoreCorrelated /\ ~StopBegins
  BY <1>quiet DEF IgnoreCorrelated, StopBegins
<1>8. CASE StopStep
  BY <1>8, <1>undisturbed DEF StopStep, StopKills, StopEnds, tickVars, monitorVars
<1>9. CASE UNCHANGED lifecycleVars
  BY <1>9, <1>undisturbed DEF lifecycleVars
<1>10. QED
  BY <1>1, <1>2, <1>3, <1>4, <1>5, <1>6, <1>7, <1>8, <1>9 DEF LifecycleNext

\* Once a session has ended and no step that began before is still under way,
\* nothing can bring it back: not a late callback, merge, handoff or timer.
THEOREM EndedIsFinal == LifecycleSpec => EndedStaysEnded
<1>1. LifecycleTypeOK /\ [LifecycleNext]_lifecycleVars => [Ended /\ ~InFlight => Ended' /\ ~InFlight']_lifecycleVars
  BY SettledStep DEF Settled
<1>2. QED BY <1>1, LifecycleTypes, PTL DEF LifecycleSpec, EndedStaysEnded

=============================================================================
