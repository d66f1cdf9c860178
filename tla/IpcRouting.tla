----------------------------- MODULE IpcRouting -----------------------------
(***************************************************************************)
(* ProxySwitch's side of PID routing: the background tasks in which        *)
(* SessionManager creates an IPC session for a launch, adds the PIDs it    *)
(* detects, recreates a lost session and replays its processes, and closes *)
(* the session when it ends.  The tasks are the clients of PidRoutes: this *)
(* module replaces that module's Environment and keeps the rest.           *)
(***************************************************************************)
EXTENDS PidRoutes

CONSTANT EndpointOf   \* GetIpcEndpoint: the endpoint of a session's proxy

\* One task for the launch of a session, for every detection of a process,
\* for every replay the user asks for (Route Child, Retry), and for the end of a
\* session.
Task == [kind: {"launch", "add"}, sid: SessionId, pid: Pid]
          \cup [kind: {"reroute", "close"}, sid: SessionId]

\* The first entry of session.Processes for a PID; live: ExitedAt is null.
TrackedProcess == [created: Nat, live: BOOLEAN]

ASSUME TaskAssumption     == Client \subseteq Task /\ None \notin Client \cup TrackedProcess
ASSUME EndpointAssumption == EndpointOf \in [SessionId -> Endpoint]

VARIABLES
  pc,       \* where every task is
  given,    \* the creation time a task was given for its PID
  todo,     \* the processes a recovery has still to replay
  gate,     \* _ipcSessionRecoveryLocks: the task in a session's recovery
  status,   \* LaunchSession.Status, as far as these tasks depend on it; in
            \* "stopping" it is exited already, but StopSession is still at work
  tracked,  \* LaunchSession.Processes
  orderly   \* history: the tasks of a session came one after the other, and
            \* the service answered each of their requests

taskVars == <<pc, given, todo, gate>>
uiVars   == <<status, tracked, orderly>>
ipcVars  == <<vars, taskVars, uiVars>>

Running == {"create", "add", "gate", "recreate", "replay", "retry", "close"}

IpcTypeOK ==
  /\ pc \in [Client -> Running \cup {"new", "done", "closed"}]
  /\ given \in [Client -> Nat]
  /\ todo \in [Client -> SUBSET Pid]
  /\ gate \in [SessionId -> Client \cup {None}]
  /\ status \in [SessionId -> {"none", "running", "stopping", "exited"}]
  /\ tracked \in [SessionId -> [Pid -> TrackedProcess \cup {None}]]
  /\ orderly \in [SessionId -> BOOLEAN]
  /\ \A c \in Client : pc[c] \in {"recreate", "replay"} <=> gate[c.sid] = c

IpcInit ==
  /\ Init
  /\ pc = [c \in Client |-> "new"]
  /\ given = [c \in Client |-> 0]
  /\ todo = [c \in Client |-> {}]
  /\ gate = [s \in SessionId |-> None]
  /\ status = [s \in SessionId |-> "none"]
  /\ tracked = [s \in SessionId |-> [p \in Pid |-> None]]
  /\ orderly = [s \in SessionId |-> TRUE]

----------------------------------------------------------------------------
(* Operators on session.Processes *)

Live(s) == {p \in Pid : tracked[s][p] # None /\ tracked[s][p].live}

Exited(s) == {p \in Pid : tracked[s][p] # None /\ ~tracked[s][p].live}

\* The process tracked under p still owns the PID.
SameProcess(s, p) == tracked[s][p] # None /\ tracked[s][p].created = born[p]

\* An entry for the PID is kept, whether or not its process has exited.
Track(s, p) ==
  IF tracked[s][p] = None
  THEN [tracked EXCEPT ![s][p] = [created |-> born[p], live |-> TRUE]]
  ELSE tracked

MarkProcessExited(s, p) == [tracked EXCEPT ![s][p].live = FALSE]

Active(s) == {c \in Client : c.sid = s /\ pc[c] \in Running}

----------------------------------------------------------------------------
(* Starting tasks *)

Begin(c, state) ==
  /\ pc[c] = "new"
  /\ pc' = [pc EXCEPT ![c] = state]
  /\ orderly' = [orderly EXCEPT ![c.sid] = @ /\ Active(c.sid) = {}]
  /\ UNCHANGED <<vars, todo, gate>>

\* LaunchTarget: the process has been launched; AddSession, then the task.
LaunchTarget(c) ==
  /\ c.kind = "launch"
  /\ status[c.sid] = "none"
  /\ born[c.pid] # 0
  /\ status' = [status EXCEPT ![c.sid] = "running"]
  /\ tracked' = Track(c.sid, c.pid)
  /\ given' = [given EXCEPT ![c] = born[c.pid]]
  /\ Begin(c, "create")

\* onDescendant of AddSession, for ten seconds after the launch, whatever has
\* become of the session.
OnDescendant(c) ==
  /\ c.kind = "add"
  /\ status[c.sid] # "none"
  /\ born[c.pid] # 0
  /\ tracked' = Track(c.sid, c.pid)
  /\ given' = [given EXCEPT ![c] = born[c.pid]]
  /\ Begin(c, "add")
  /\ UNCHANGED status

\* The user retries the routing of a session with live children.  What the row
\* offered was computed when it was drawn; the status is not tested again.
RouteDetectedChildren(c) ==
  /\ c.kind = "reroute"
  /\ status[c.sid] # "none"
  /\ Live(c.sid) # {}
  /\ Begin(c, "gate")
  /\ UNCHANGED <<given, status, tracked>>

\* CleanupSessionRoutes: from FinalizeAsExited, which some process's exit has
\* led to but which looks at no process itself, or at the end of StopSession.
CleanupSessionRoutes(c) ==
  /\ c.kind = "close"
  /\ \/ status[c.sid] = "running" /\ Exited(c.sid) # {}
     \/ status[c.sid] = "stopping"
  /\ status' = [status EXCEPT ![c.sid] = "exited"]
  /\ Begin(c, "close")
  /\ UNCHANGED <<given, tracked>>

----------------------------------------------------------------------------
(* What a task does, one request at a time *)

Goto(c, state) == pc' = [pc EXCEPT ![c] = state]

\* Mutant: the time of the call.
CallTime(p, fallback) == clock + 1

\* AddPidAsync: the creation time of whoever owns the PID now, and the one
\* that was tracked if nobody does.
CreationTime(p, fallback) == IF born[p] # 0 THEN born[p] ELSE fallback

CreateSessionAsync(c) == Send(c, [op |-> "createSession", sid |-> c.sid,
                                  endpoint |-> EndpointOf[c.sid]])

AddPidAsync(c, p, fallback) == Send(c, [op |-> "addPid", sid |-> c.sid, pid |-> p,
                                        created |-> CreationTime(p, fallback)])
CloseSessionAsync(c) == Send(c, [op |-> "closeSession", sid |-> c.sid])

Ask(c) ==
  /\ \/ pc[c] \in {"create", "recreate"} /\ CreateSessionAsync(c) /\ UNCHANGED todo
     \/ pc[c] \in {"add", "retry"} /\ AddPidAsync(c, c.pid, given[c]) /\ UNCHANGED todo
     \/ /\ pc[c] = "replay"
        /\ \E p \in todo[c] :
             /\ AddPidAsync(c, p, tracked[c.sid][p].created)
             /\ todo' = [todo EXCEPT ![c] = @ \ {p}]
     \/ pc[c] = "close" /\ CloseSessionAsync(c) /\ UNCHANGED todo
  /\ UNCHANGED <<osVars, serverVars, routerVars, pc, given, gate, uiVars>>

\* An answer arrives, and the task goes on.
Answered(c, state) ==
  /\ pc[c] = state
  /\ Receive(c)
  /\ orderly' = [orderly EXCEPT ![c.sid] = @ /\ pipe[c].result # "unavailable"]
  /\ UNCHANGED <<osVars, serverVars, routerVars, given, status, tracked>>

CreateAnswered(c) ==
  /\ Answered(c, "create")
  /\ Goto(c, IF pipe[c].result = "ok" THEN "add" ELSE "done")
  /\ UNCHANGED <<todo, gate>>

AddAnswered(c) ==
  /\ Answered(c, "add")
  /\ Goto(c, IF pipe[c].result = "session not found" THEN "gate" ELSE "done")
  /\ UNCHANGED <<todo, gate>>

\* Mutant: nobody waits at the gate.
EnterUnlocked(c) ==
  /\ pc[c] = "gate"
  /\ gate' = [gate EXCEPT ![c.sid] = c]
  /\ Goto(c, "recreate")
  /\ UNCHANGED <<vars, given, todo, uiVars>>

\* RecreateIpcSessionAndReplayAsync
EnterGate(c) ==
  /\ pc[c] = "gate"
  /\ gate[c.sid] = None
  /\ gate' = [gate EXCEPT ![c.sid] = c]
  /\ Goto(c, "recreate")
  /\ UNCHANGED <<vars, given, todo, uiVars>>

\* Mutant: the early return does not release the gate.
RecreateKeepsGate(c) ==
  /\ Answered(c, "recreate")
  /\ IF pipe[c].result = "ok"
     THEN /\ todo' = [todo EXCEPT ![c] = Live(c.sid)]
          /\ Goto(c, "replay")
     ELSE /\ Goto(c, "done")
          /\ UNCHANGED todo
  /\ UNCHANGED gate

\* The snapshot of the live processes is taken after createSession succeeded.
RecreateAnswered(c) ==
  /\ Answered(c, "recreate")
  /\ IF pipe[c].result = "ok"
     THEN /\ todo' = [todo EXCEPT ![c] = Live(c.sid)]
          /\ Goto(c, "replay")
          /\ UNCHANGED gate
     ELSE /\ gate' = [gate EXCEPT ![c.sid] = None]
          /\ Goto(c, "done")
          /\ UNCHANGED todo

ReplayAnswered(c) ==
  /\ Answered(c, "replay")
  /\ UNCHANGED <<pc, todo, gate>>

ReplayEnds(c) ==
  /\ pc[c] = "replay"
  /\ pipe[c] = Idle
  /\ todo[c] = {}
  /\ gate' = [gate EXCEPT ![c.sid] = None]
  /\ Goto(c, IF c.kind = "add" \/ c.kind = "launch" THEN "retry" ELSE "done")
  /\ UNCHANGED <<vars, given, todo, uiVars>>

LastAnswered(c) ==
  /\ pc[c] \in {"retry", "close"}
  /\ Answered(c, pc[c])
  /\ Goto(c, IF pc[c] = "close" /\ pipe[c].result = "ok" THEN "closed" ELSE "done")
  /\ UNCHANGED <<todo, gate>>

TaskStep(c) ==
  \/ Ask(c) \/ CreateAnswered(c) \/ AddAnswered(c) \/ EnterGate(c)
  \/ RecreateAnswered(c) \/ ReplayAnswered(c) \/ ReplayEnds(c) \/ LastAnswered(c)

----------------------------------------------------------------------------
(* ProcessMonitor and StopSession *)

\* OnTick sees that nobody owns a tracked PID any more.
OnExited(s, p) ==
  /\ p \in Live(s)
  /\ born[p] = 0
  /\ tracked' = MarkProcessExited(s, p)
  /\ UNCHANGED <<vars, taskVars, status, orderly>>

StopSession(s) ==
  /\ status[s] = "running"
  /\ status' = [status EXCEPT ![s] = "stopping"]
  /\ UNCHANGED <<vars, taskVars, tracked, orderly>>

\* StopSession kills whoever owns the PID of a tracked process; a kill may
\* fail, then the process stays as it is.
Kill(s, p) ==
  /\ status[s] = "stopping"
  /\ p \in Live(s)
  /\ ProcessExit(p)
  /\ tracked' = MarkProcessExited(s, p)
  /\ UNCHANGED <<taskVars, status, orderly>>

----------------------------------------------------------------------------
NewTask(c) ==
  LaunchTarget(c) \/ OnDescendant(c) \/ RouteDetectedChildren(c) \/ CleanupSessionRoutes(c)

Server ==
  /\ \/ Service
     \/ \E c \in Client : Unavailable(c) \/ Accept(c) \/ Handle(c)
  /\ UNCHANGED <<taskVars, uiVars>>

IpcNext ==
  \/ \E p \in Pid : (ProcessStart(p) \/ ProcessExit(p)) /\ UNCHANGED <<taskVars, uiVars>>
  \/ Server
  \/ \E c \in Client : NewTask(c) \/ TaskStep(c)
  \/ \E s \in SessionId : StopSession(s) \/ \E p \in Pid : OnExited(s, p) \/ Kill(s, p)

\* The service as in PidRoutes; a started task is scheduled by the pool.
IpcFairness ==
  /\ \A c \in Client : /\ WF_ipcVars((Handle(c) \/ Unavailable(c)) /\ UNCHANGED <<taskVars, uiVars>>)
                       /\ WF_ipcVars(TaskStep(c))
  /\ WF_ipcVars((DisposeSessions \/ DisposeClear \/ ServiceExit) /\ UNCHANGED <<taskVars, uiVars>>)

IpcSpec == IpcInit /\ [][IpcNext]_ipcVars
FairIpcSpec == IpcSpec /\ IpcFairness

----------------------------------------------------------------------------
(* Properties *)

\* Between the answer to an addPid and the end of its session, a process that
\* the service agreed to route stays routed while this run of the service
\* lives, whatever is created again, replayed, swept or retried meanwhile.
\* (The process is the one that the session tracked under its PID.)
GrantInForce ==
  \A s \in SessionId, p \in Pid :
    /\ service = "running"
    /\ status[s] # "exited"
    /\ SameProcess(s, p)
    /\ <<p, born[p], EndpointOf[s]>> \in granted
    => RouteOf(p) # None

\* When the tasks of a session come one after the other and none of their
\* requests fails for want of the service, a closeSession that succeeds leaves
\* nothing behind: no session, and no process of the session that is routed.
SequentialCloseIsComplete ==
  \A c \in Client :
    /\ pc[c] = "close"
    /\ pipe[c] = Replied("ok")
    /\ orderly[c.sid]
    => /\ sessions[c.sid] = None
       /\ \A p \in Pid : SameProcess(c.sid, p) => RouteOf(p) = None

\* Every background task comes to an end: no request is left unanswered and
\* nobody waits for ever at the recovery gate, though recoveries can fail at
\* every await and the service can stop or crash at any time.
EveryTaskEnds == \A c \in Client : pc[c] \in Running ~> pc[c] \notin Running

\* ProxySwitch's tasks are clients as PidRoutes expects them: what holds of
\* PidRoutes for any clients holds of the composed system.
ImplementsPidRoutes == Spec

\* "Closes a session and removes all its PIDs from ProxiFyre routing.": once
\* closeSession has succeeded and no task of the session is left, the service
\* knows no session and routes no process of it.
ClosedSessionsAreGone ==
  \A c \in Client :
    pc[c] = "closed" /\ Active(c.sid) = {} =>
      /\ sessions[c.sid] = None
      /\ \A p \in Pid : SameProcess(c.sid, p) => RouteOf(p) = None

\* "PID entries include process creation time to guard against PID reuse.": a
\* routed process is one that some session tracked or was told of.
NoForeignProcess ==
  \A p \in Pid : RouteOf(p) # None =>
    \/ \E s \in SessionId : SameProcess(s, p)
    \/ \E c \in Client : c.kind \in {"launch", "add"} /\ c.pid = p /\ given[c] = born[p]

=============================================================================
