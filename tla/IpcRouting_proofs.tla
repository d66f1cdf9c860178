-------------------------- MODULE IpcRouting_proofs --------------------------
(***************************************************************************)
(* ProxySwitch's tasks and the service together implement PidRoutes, so    *)
(* that everything proved about the service for arbitrary clients holds    *)
(* of the composed system; then what only the composed system keeps: a     *)
(* grant stays in force until its session ends, and closeSession leaves    *)
(* nothing behind.                                                         *)
(***************************************************************************)
EXTENDS IpcRouting, PidRoutes_proofs

USE TaskAssumption, EndpointAssumption

\* The tasks that carry a PID of their own.
WithPid(c) == c.kind \in {"launch", "add"}

\* What the requests of the tasks are built from: a task that asks for its
\* own PID has one, and was given the creation time of a process that existed;
\* so were the entries of session.Processes that a recovery replays.
TasksInv ==
  /\ \A c \in Client : pc[c] \in {"create", "add", "retry"} => WithPid(c)
  /\ \A c \in Client : WithPid(c) /\ pc[c] # "new" => given[c] \in 1..clock
  /\ \A s \in SessionId, p \in Pid :
       tracked[s][p] # None => tracked[s][p].created \in 1..clock
  /\ \A c \in Client, p \in Pid : p \in todo[c] => tracked[c.sid][p] # None
  /\ IpcTypeOK

LEMMA TaskFields ==
  ASSUME NEW c \in Client
  PROVE  /\ c.sid \in SessionId
         /\ WithPid(c) => c.pid \in Pid
         /\ c.kind \in {"launch", "add", "reroute", "close"}
BY DEF Task, WithPid

LEMMA TasksInit == IpcInit => TasksInv
BY TaskFields DEF IpcInit, TasksInv, Init, IpcTypeOK

\* The operating system's owner of a PID, or the fallback.
LEMMA CreationTimeInPast ==
  ASSUME RouteInvariant, NEW p \in Pid, NEW t \in 1..clock
  PROVE  CreationTime(p, t) \in 1..clock
BY DEF CreationTime, RouteInvariant, TypeOK, TimesPast

\* Every request of a task is one that PidRoutes expects of its clients.
LEMMA AskIsEnvironment ==
  ASSUME RouteInvariant, TasksInv, NEW c \in Client, Ask(c)
  PROVE  Environment(c)
<1>1. UNCHANGED <<osVars, serverVars, routerVars>>
  BY DEF Ask
<1>2. c.sid \in SessionId
  BY TaskFields
<1>3. CASE pc[c] \in {"create", "recreate"} /\ CreateSessionAsync(c)
  <2> DEFINE r == [op |-> "createSession", sid |-> c.sid, endpoint |-> EndpointOf[c.sid]]
  <2>1. r \in Requests(1..clock)
    BY <1>2 DEF Requests, CreateRequest
  <2>2. QED BY <1>1, <1>3, <2>1 DEF CreateSessionAsync, Environment
<1>4. ASSUME NEW p \in Pid, NEW t \in 1..clock, AddPidAsync(c, p, t)
      PROVE  Environment(c)
  <2> DEFINE r == [op |-> "addPid", sid |-> c.sid, pid |-> p, created |-> CreationTime(p, t)]
  <2>1. r \in Requests(1..clock)
    BY <1>2, CreationTimeInPast DEF Requests
  <2>2. QED BY <1>1, <1>4, <2>1 DEF AddPidAsync, Environment
<1>5. CASE pc[c] \in {"add", "retry"} /\ AddPidAsync(c, c.pid, given[c])
  <2>1. c.pid \in Pid /\ given[c] \in 1..clock
    BY <1>5, TaskFields DEF TasksInv, IpcTypeOK
  <2>2. QED BY <1>4, <1>5, <2>1
<1>6. CASE \E p \in todo[c] : AddPidAsync(c, p, tracked[c.sid][p].created)
  <2>1. PICK p \in todo[c] : AddPidAsync(c, p, tracked[c.sid][p].created)
    BY <1>6
  <2>2. p \in Pid /\ tracked[c.sid][p].created \in 1..clock
    BY <1>2, <2>1 DEF TasksInv, IpcTypeOK
  <2>3. QED BY <1>4, <2>1, <2>2
<1>7. CASE CloseSessionAsync(c)
  <2> DEFINE r == [op |-> "closeSession", sid |-> c.sid]
  <2>1. r \in Requests(1..clock)
    BY <1>2 DEF Requests, CloseRequest
  <2>2. QED BY <1>1, <1>7, <2>1 DEF CloseSessionAsync, Environment
<1>8. QED BY <1>3, <1>5, <1>6, <1>7 DEF Ask

LEMMA AnswerIsEnvironment ==
  ASSUME NEW c \in Client, NEW state, Answered(c, state)
  PROVE  Environment(c)
BY DEF Answered, Environment

\* A step of the composed system is a step of PidRoutes.
LEMMA IpcStepIsStep ==
  ASSUME RouteInvariant, TasksInv, [IpcNext]_ipcVars
  PROVE  [Next]_vars
<1>1. ASSUME NEW p \in Pid, ProcessStart(p) \/ ProcessExit(p) PROVE Next
  BY <1>1 DEF Next
<1>2. CASE Server
  BY <1>2 DEF Server, Next
<1>3. ASSUME NEW c \in Client, NewTask(c) PROVE UNCHANGED vars
  BY <1>3 DEF NewTask, LaunchTarget, OnDescendant, RouteDetectedChildren,
     CleanupSessionRoutes, Begin
<1>4. ASSUME NEW c \in Client, TaskStep(c) PROVE [Next]_vars
  <2>1. CASE Ask(c)
    BY <2>1, AskIsEnvironment DEF Next
  <2>2. ASSUME NEW state, Answered(c, state) PROVE Next
    BY <2>2, AnswerIsEnvironment DEF Next
  <2>3. CASE EnterGate(c) \/ ReplayEnds(c)
    BY <2>3 DEF EnterGate, ReplayEnds
  <2>4. CASE CreateAnswered(c) \/ AddAnswered(c) \/ RecreateAnswered(c)
             \/ ReplayAnswered(c) \/ LastAnswered(c)
    BY <2>2, <2>4 DEF CreateAnswered, AddAnswered, RecreateAnswered, ReplayAnswered,
       LastAnswered
  <2>5. QED BY <1>4, <2>1, <2>3, <2>4 DEF TaskStep
<1>5. ASSUME NEW s \in SessionId, NEW p \in Pid, Kill(s, p) PROVE Next
  BY <1>5 DEF Kill, Next
<1>6. ASSUME NEW s \in SessionId, StopSession(s) \/ \E p \in Pid : OnExited(s, p)
      PROVE  UNCHANGED vars
  BY <1>6 DEF StopSession, OnExited
<1>7. CASE UNCHANGED ipcVars
  BY <1>7 DEF ipcVars
<1>8. QED BY <1>1, <1>2, <1>3, <1>4, <1>5, <1>6, <1>7 DEF IpcNext

----------------------------------------------------------------------------
(* The tasks keep their invariant.                                         *)

\* Processes start at later times only.
LEMMA ClockGrows ==
  ASSUME RouteInvariant, [Next]_vars
  PROVE  1..clock \subseteq 1..clock'
<1>1. clock' = clock \/ clock' = clock + 1
  BY DEF Next, ProcessStart, ProcessExit, Service, ServiceStart, Crash, Dispose,
     DisposeCancel, DisposeSessions, DisposeClear, ServiceExit, Gone, Sweep, Environment,
     Unavailable, Accept, Handle, DoCreateSession, DoAddPid, DoRemovePid, DoCloseSession,
     osVars, vars
<1>2. QED BY <1>1 DEF RouteInvariant, TypeOK

\* What session.Processes keeps when the entry of one PID is written.
SessionProcessesKept ==
  /\ tracked' \in [SessionId -> [Pid -> TrackedProcess \cup {None}]]
  /\ \A t \in SessionId, q \in Pid :
       /\ tracked'[t][q] # None => tracked'[t][q].created \in 1..clock
       /\ tracked[t][q] # None => tracked'[t][q] # None

LEMMA EntryKeeps ==
  ASSUME TasksInv, NEW s \in SessionId, NEW p \in Pid,
         NEW e \in TrackedProcess, e.created \in 1..clock,
         tracked' = [tracked EXCEPT ![s][p] = e]
  PROVE  SessionProcessesKept
<1>1. tracked' \in [SessionId -> [Pid -> TrackedProcess \cup {None}]]
  BY DEF TasksInv, IpcTypeOK
<1>2. \A t \in SessionId, q \in Pid : tracked'[t][q] = tracked[t][q] \/ tracked'[t][q] = e
  BY DEF TasksInv, IpcTypeOK
<1>3. e # None
  BY TaskAssumption
<1>4. QED BY <1>1, <1>2, <1>3 DEF SessionProcessesKept, TasksInv

\* A process is tracked with the creation time that the system gave it.
LEMMA TrackKeeps ==
  ASSUME RouteInvariant, TasksInv, NEW s \in SessionId, NEW p \in Pid, born[p] # 0,
         tracked' = Track(s, p)
  PROVE  SessionProcessesKept
<1>1. born[p] \in 1..clock
  BY DEF RouteInvariant, TypeOK, TimesPast
<1>2. CASE tracked[s][p] = None
  <2> DEFINE e == [created |-> born[p], live |-> TRUE]
  <2>1. e \in TrackedProcess /\ e.created \in 1..clock
    BY <1>1 DEF TrackedProcess
  <2>2. tracked' = [tracked EXCEPT ![s][p] = e]
    BY <1>2 DEF Track
  <2> HIDE DEF e
  <2>3. QED BY <2>1, <2>2, EntryKeeps
<1>3. CASE tracked[s][p] # None
  BY <1>3 DEF Track, SessionProcessesKept, TasksInv, IpcTypeOK
<1>4. QED BY <1>2, <1>3

LEMMA MarkKeeps ==
  ASSUME TasksInv, NEW s \in SessionId, NEW p \in Live(s),
         tracked' = MarkProcessExited(s, p)
  PROVE  SessionProcessesKept
<1> DEFINE e == [tracked[s][p] EXCEPT !.live = FALSE]
<1>1. tracked[s][p] \in TrackedProcess /\ p \in Pid /\ tracked[s][p] # None
  BY DEF Live, TasksInv, IpcTypeOK
<1>2. e \in TrackedProcess /\ e.created = tracked[s][p].created
  BY <1>1 DEF TrackedProcess
<1>3. e.created \in 1..clock
  BY <1>1, <1>2 DEF TasksInv
<1>4. tracked' = [tracked EXCEPT ![s][p] = e]
  BY DEF MarkProcessExited
<1> HIDE DEF e
<1>5. QED BY <1>1, <1>2, <1>3, <1>4, EntryKeeps

\* The environment's and the service's steps leave the tasks alone.
LEMMA TasksUndisturbed ==
  ASSUME TasksInv, UNCHANGED <<taskVars, uiVars>>, 1..clock \subseteq 1..clock'
  PROVE  TasksInv'
<1>1. IpcTypeOK'
  BY DEF TasksInv, IpcTypeOK, taskVars, uiVars
<1>2. QED BY <1>1 DEF TasksInv, taskVars, uiVars

\* Starting a task.
LEMMA NewTaskKeeps ==
  ASSUME RouteInvariant, TasksInv, NEW c \in Client, NewTask(c),
         1..clock \subseteq 1..clock'
  PROVE  TasksInv'
<1>1. c.sid \in SessionId
  BY TaskFields
<1>2. pc[c] = "new" /\ todo' = todo /\ gate' = gate /\ clock' = clock
  BY DEF NewTask, LaunchTarget, OnDescendant, RouteDetectedChildren, CleanupSessionRoutes,
     Begin, vars
<1>3. PICK state \in {"create", "add", "gate", "close"} :
        /\ pc' = [pc EXCEPT ![c] = state]
        /\ orderly' = [orderly EXCEPT ![c.sid] = @ /\ Active(c.sid) = {}]
        /\ state \in {"create", "add"} => WithPid(c)
        /\ \/ WithPid(c) /\ born[c.pid] # 0 /\ tracked' = Track(c.sid, c.pid)
                         /\ given' = [given EXCEPT ![c] = born[c.pid]]
           \/ ~WithPid(c) /\ UNCHANGED <<given, tracked>>
        /\ status' \in [SessionId -> {"none", "running", "stopping", "exited"}]
  <2>1. ASSUME LaunchTarget(c) \/ OnDescendant(c)
        PROVE  /\ WithPid(c) /\ born[c.pid] # 0 /\ tracked' = Track(c.sid, c.pid)
               /\ given' = [given EXCEPT ![c] = born[c.pid]]
               /\ status' \in [SessionId -> {"none", "running", "stopping", "exited"}]
               /\ Begin(c, "create") \/ Begin(c, "add")
    <3>1. CASE LaunchTarget(c)
      BY <1>1, <3>1 DEF LaunchTarget, WithPid, TasksInv, IpcTypeOK
    <3>2. CASE OnDescendant(c)
      BY <1>1, <3>2 DEF OnDescendant, WithPid, TasksInv, IpcTypeOK
    <3>3. QED BY <2>1, <3>1, <3>2
  <2>2. ASSUME RouteDetectedChildren(c) \/ CleanupSessionRoutes(c)
        PROVE  /\ ~WithPid(c) /\ UNCHANGED <<given, tracked>>
               /\ status' \in [SessionId -> {"none", "running", "stopping", "exited"}]
               /\ Begin(c, "gate") \/ Begin(c, "close")
    BY <1>1, <2>2 DEF RouteDetectedChildren, CleanupSessionRoutes, WithPid, TasksInv, IpcTypeOK
  <2>3. QED BY <2>1, <2>2 DEF NewTask, Begin
<1>4. pc' \in [Client -> Running \cup {"new", "done", "closed"}]
  BY <1>3 DEF TasksInv, IpcTypeOK, Running
<1>5. orderly' \in [SessionId -> BOOLEAN]
  BY <1>1, <1>3 DEF TasksInv, IpcTypeOK
<1>6. SessionProcessesKept
  <2>1. CASE WithPid(c) /\ born[c.pid] # 0 /\ tracked' = Track(c.sid, c.pid)
    BY <1>1, <2>1, TrackKeeps, TaskFields
  <2>2. CASE UNCHANGED tracked
    BY <2>2 DEF SessionProcessesKept, TasksInv, IpcTypeOK
  <2>3. QED BY <1>3, <2>1, <2>2
<1>7. /\ given' \in [Client -> Nat]
      /\ \A d \in Client : WithPid(d) /\ pc'[d] # "new" => given'[d] \in 1..clock
  <2>1. CASE WithPid(c) /\ born[c.pid] # 0 /\ given' = [given EXCEPT ![c] = born[c.pid]]
    <3>1. born[c.pid] \in 1..clock
      BY <2>1, TaskFields DEF RouteInvariant, TypeOK, TimesPast
    <3>2. QED BY <1>3, <2>1, <3>1 DEF TasksInv, IpcTypeOK
  <2>2. CASE ~WithPid(c) /\ UNCHANGED given
    BY <1>3, <2>2 DEF TasksInv, IpcTypeOK
  <2>3. QED BY <1>3, <2>1, <2>2
<1>8. \A d \in Client : pc'[d] \in {"recreate", "replay"} <=> gate'[d.sid] = d
  BY <1>2, <1>3 DEF TasksInv, IpcTypeOK
<1>9. IpcTypeOK'
  BY <1>2, <1>3, <1>4, <1>5, <1>6, <1>7, <1>8 DEF IpcTypeOK, TasksInv, SessionProcessesKept
<1>10. \A d \in Client : pc'[d] \in {"create", "add", "retry"} => WithPid(d)
  BY <1>3 DEF TasksInv, IpcTypeOK
<1>11. \A d \in Client, p \in Pid : p \in todo'[d] => tracked'[d.sid][p] # None
  BY <1>2, <1>6, TaskFields DEF TasksInv, SessionProcessesKept
<1>12. QED BY <1>2, <1>6, <1>7, <1>9, <1>10, <1>11 DEF TasksInv, SessionProcessesKept

\* A task moves on without entering or leaving the recovery gate.
LEMMA MoveKeeps ==
  ASSUME TasksInv, NEW c \in Client, NEW state \in Running \cup {"done", "closed"},
         pc[c] # "new",
         pc' = [pc EXCEPT ![c] = state],
         state \in {"create", "add", "retry"} => WithPid(c),
         pc[c] \notin {"recreate", "replay"}, state \notin {"recreate", "replay"},
         UNCHANGED <<given, todo, gate, status, tracked>>,
         orderly' \in [SessionId -> BOOLEAN],
         1..clock \subseteq 1..clock'
  PROVE  TasksInv'
<1>1. pc' \in [Client -> Running \cup {"new", "done", "closed"}]
  BY DEF TasksInv, IpcTypeOK
<1>2. \A d \in Client : pc'[d] \in {"recreate", "replay"} <=> gate'[d.sid] = d
  BY DEF TasksInv, IpcTypeOK
<1>3. IpcTypeOK'
  BY <1>1, <1>2 DEF TasksInv, IpcTypeOK
<1>4. \A d \in Client : pc'[d] \in {"create", "add", "retry"} => WithPid(d)
  BY DEF TasksInv, IpcTypeOK
<1>5. \A d \in Client : WithPid(d) /\ pc'[d] # "new" => given'[d] \in 1..clock
  BY DEF TasksInv, IpcTypeOK
<1>6. QED BY <1>3, <1>4, <1>5 DEF TasksInv

\* A task leaves the gate.
LEMMA LeaveKeeps ==
  ASSUME TasksInv, NEW c \in Client, NEW state \in {"retry", "done"},
         pc[c] \in {"recreate", "replay"},
         pc' = [pc EXCEPT ![c] = state],
         state = "retry" => WithPid(c),
         gate' = [gate EXCEPT ![c.sid] = None],
         UNCHANGED <<given, todo, status, tracked>>,
         orderly' \in [SessionId -> BOOLEAN],
         1..clock \subseteq 1..clock'
  PROVE  TasksInv'
<1>1. /\ pc' \in [Client -> Running \cup {"new", "done", "closed"}]
      /\ gate' \in [SessionId -> Client \cup {None}]
  BY TaskFields DEF TasksInv, IpcTypeOK, Running
<1>2. gate[c.sid] = c /\ None # c
  BY TaskAssumption DEF TasksInv, IpcTypeOK
<1>3. \A d \in Client : pc'[d] \in {"recreate", "replay"} <=> gate'[d.sid] = d
  <2>1. ASSUME NEW d \in Client, d.sid = c.sid
        PROVE  gate'[d.sid] # d /\ pc'[d] \notin {"recreate", "replay"}
    BY <1>2, <2>1, TaskFields, TaskAssumption DEF TasksInv, IpcTypeOK
  <2>2. ASSUME NEW d \in Client, d.sid # c.sid
        PROVE  gate'[d.sid] = gate[d.sid] /\ pc'[d] = pc[d]
    BY <2>2, TaskFields DEF TasksInv, IpcTypeOK
  <2>3. QED BY <2>1, <2>2 DEF TasksInv, IpcTypeOK
<1>4. IpcTypeOK'
  BY <1>1, <1>3 DEF TasksInv, IpcTypeOK
<1>5. \A d \in Client : pc'[d] \in {"create", "add", "retry"} => WithPid(d)
  BY DEF TasksInv, IpcTypeOK
<1>6. \A d \in Client : WithPid(d) /\ pc'[d] # "new" => given'[d] \in 1..clock
  BY DEF TasksInv, IpcTypeOK
<1>7. QED BY <1>4, <1>5, <1>6 DEF TasksInv

\* A step of a running task.
LEMMA TaskStepKeeps ==
  ASSUME TasksInv, NEW c \in Client, TaskStep(c), 1..clock \subseteq 1..clock'
  PROVE  TasksInv'
<1> c.sid \in SessionId
  BY TaskFields
<1>1. CASE Ask(c)
  <2>1. UNCHANGED <<pc, given, gate, status, tracked, orderly>>
    BY <1>1 DEF Ask, uiVars
  <2>2. PICK P \in SUBSET Pid : P \subseteq todo[c] /\ todo' = [todo EXCEPT ![c] = P]
    <3>1. todo[c] \in SUBSET Pid /\ todo \in [Client -> SUBSET Pid]
      BY DEF TasksInv, IpcTypeOK
    <3>2. UNCHANGED todo \/ \E p \in todo[c] : todo' = [todo EXCEPT ![c] = todo[c] \ {p}]
      BY <1>1 DEF Ask
    <3>3. CASE UNCHANGED todo
      <4>1. todo' = [todo EXCEPT ![c] = todo[c]]
        BY <3>1, <3>3
      <4>2. QED BY <3>1, <4>1
    <3>4. QED BY <3>1, <3>2, <3>3
  <2>3. IpcTypeOK'
    BY <2>1, <2>2 DEF TasksInv, IpcTypeOK
  <2>4. \A d \in Client : todo'[d] \subseteq todo[d]
    BY <2>2 DEF TasksInv, IpcTypeOK
  <2>5. QED BY <2>1, <2>3, <2>4 DEF TasksInv
<1>2. ASSUME NEW state, Answered(c, state)
      PROVE  /\ pc[c] = state
             /\ orderly' \in [SessionId -> BOOLEAN]
             /\ UNCHANGED <<given, status, tracked>>
  BY <1>2 DEF Answered, TasksInv, IpcTypeOK
<1>3. CASE CreateAnswered(c)
  <2>1. Answered(c, "create") /\ UNCHANGED <<todo, gate>>
    BY <1>3 DEF CreateAnswered
  <2>2. PICK state \in {"add", "done"} : pc' = [pc EXCEPT ![c] = state]
    BY <1>3 DEF CreateAnswered, Goto
  <2>3. WithPid(c)
    BY <1>2, <2>1 DEF TasksInv
  <2>4. state \in Running \cup {"done", "closed"} /\ state \notin {"recreate", "replay"}
    BY DEF Running
  <2>5. pc[c] = "create" /\ orderly' \in [SessionId -> BOOLEAN]
        /\ UNCHANGED <<given, status, tracked>>
    BY <1>2, <2>1
  <2>6. QED BY <2>1, <2>2, <2>3, <2>4, <2>5, MoveKeeps
<1>4. CASE AddAnswered(c)
  <2>1. Answered(c, "add") /\ UNCHANGED <<todo, gate>>
    BY <1>4 DEF AddAnswered
  <2>2. PICK state \in {"gate", "done"} : pc' = [pc EXCEPT ![c] = state]
    BY <1>4 DEF AddAnswered, Goto
  <2>3. /\ state \in Running \cup {"done", "closed"}
        /\ state \notin {"create", "add", "retry", "recreate", "replay"}
    BY DEF Running
  <2>4. pc[c] = "add" /\ orderly' \in [SessionId -> BOOLEAN]
        /\ UNCHANGED <<given, status, tracked>>
    BY <1>2, <2>1
  <2>5. QED BY <2>1, <2>2, <2>3, <2>4, MoveKeeps
<1>5. CASE EnterGate(c)
  <2>1. /\ pc[c] = "gate" /\ gate[c.sid] = None
        /\ gate' = [gate EXCEPT ![c.sid] = c]
        /\ pc' = [pc EXCEPT ![c] = "recreate"]
        /\ UNCHANGED <<given, todo, status, tracked, orderly>>
    BY <1>5 DEF EnterGate, Goto, uiVars
  <2>2. /\ pc' \in [Client -> Running \cup {"new", "done", "closed"}]
        /\ gate' \in [SessionId -> Client \cup {None}]
    BY <2>1 DEF TasksInv, IpcTypeOK, Running
  <2>3. \A d \in Client : pc'[d] \in {"recreate", "replay"} <=> gate'[d.sid] = d
    <3>1. ASSUME NEW d \in Client, d.sid = c.sid, d # c
          PROVE  gate'[d.sid] # d /\ pc'[d] \notin {"recreate", "replay"}
      BY <2>1, <3>1, TaskAssumption DEF TasksInv, IpcTypeOK
    <3>2. ASSUME NEW d \in Client, d.sid # c.sid
          PROVE  gate'[d.sid] = gate[d.sid] /\ pc'[d] = pc[d]
      BY <2>1, <3>2, TaskFields DEF TasksInv, IpcTypeOK
    <3>3. gate'[c.sid] = c /\ pc'[c] = "recreate"
      BY <2>1 DEF TasksInv, IpcTypeOK
    <3>4. QED BY <3>1, <3>2, <3>3 DEF TasksInv, IpcTypeOK
  <2>4. IpcTypeOK'
    BY <2>1, <2>2, <2>3 DEF TasksInv, IpcTypeOK
  <2>5. QED BY <2>1, <2>4 DEF TasksInv, IpcTypeOK
<1>6. CASE RecreateAnswered(c)
  <2>1. Answered(c, "recreate")
    BY <1>6 DEF RecreateAnswered
  <2>2. CASE pipe[c].result = "ok"
    <3>1. /\ todo' = [todo EXCEPT ![c] = Live(c.sid)]
          /\ pc' = [pc EXCEPT ![c] = "replay"]
          /\ gate' = gate
      BY <1>6, <2>2 DEF RecreateAnswered, Goto
    <3>2. Live(c.sid) \subseteq Pid /\ \A p \in Live(c.sid) : tracked[c.sid][p] # None
      BY DEF Live
    <3>3. /\ pc' \in [Client -> Running \cup {"new", "done", "closed"}]
          /\ todo' \in [Client -> SUBSET Pid]
          /\ \A d \in Client : pc'[d] \in {"recreate", "replay"} <=> gate'[d.sid] = d
      BY <1>2, <2>1, <3>1, <3>2 DEF TasksInv, IpcTypeOK, Running
    <3>4. IpcTypeOK'
      BY <1>2, <2>1, <3>1, <3>3 DEF TasksInv, IpcTypeOK
    <3>5. \A d \in Client, p \in Pid : p \in todo'[d] => tracked[d.sid][p] # None
      BY <3>1, <3>2 DEF TasksInv, IpcTypeOK
    <3>6. \A d \in Client : /\ pc'[d] \in {"create", "add", "retry"} => WithPid(d)
                            /\ WithPid(d) /\ pc'[d] # "new" => given[d] \in 1..clock
      BY <1>2, <2>1, <3>1 DEF TasksInv, IpcTypeOK
    <3>7. QED BY <1>2, <2>1, <3>4, <3>5, <3>6 DEF TasksInv
  <2>3. CASE pipe[c].result # "ok"
    <3>1. /\ gate' = [gate EXCEPT ![c.sid] = None]
          /\ pc' = [pc EXCEPT ![c] = "done"]
          /\ todo' = todo
      BY <1>6, <2>3 DEF RecreateAnswered, Goto
    <3>2. QED BY <1>2, <2>1, <3>1, LeaveKeeps
  <2>4. QED BY <2>2, <2>3
<1>7. CASE ReplayAnswered(c)
  <2>1. Answered(c, "replay") /\ UNCHANGED <<pc, todo, gate>>
    BY <1>7 DEF ReplayAnswered
  <2>2. IpcTypeOK'
    BY <1>2, <2>1 DEF TasksInv, IpcTypeOK
  <2>3. QED BY <1>2, <2>1, <2>2 DEF TasksInv
<1>8. CASE ReplayEnds(c)
  <2>1. PICK state \in {"retry", "done"} :
          pc' = [pc EXCEPT ![c] = state] /\ (state = "retry" => WithPid(c))
    BY <1>8 DEF ReplayEnds, Goto, WithPid
  <2>2. /\ pc[c] = "replay"
        /\ gate' = [gate EXCEPT ![c.sid] = None]
        /\ UNCHANGED <<given, todo, status, tracked, orderly>>
    BY <1>8 DEF ReplayEnds, uiVars
  <2>3. orderly' \in [SessionId -> BOOLEAN]
    BY <2>2 DEF TasksInv, IpcTypeOK
  <2>4. QED BY <2>1, <2>2, <2>3, LeaveKeeps
<1>9. CASE LastAnswered(c)
  <2>1. pc[c] \in {"retry", "close"} /\ Answered(c, pc[c]) /\ UNCHANGED <<todo, gate>>
    BY <1>9 DEF LastAnswered
  <2>2. PICK state \in {"closed", "done"} : pc' = [pc EXCEPT ![c] = state]
    BY <1>9 DEF LastAnswered, Goto
  <2>3. QED BY <1>2, <2>1, <2>2, MoveKeeps DEF Running
<1>10. QED
  BY <1>1, <1>3, <1>4, <1>5, <1>6, <1>7, <1>8, <1>9 DEF TaskStep

\* ProcessMonitor and StopSession.
LEMMA MonitorKeeps ==
  ASSUME TasksInv, NEW s \in SessionId, 1..clock \subseteq 1..clock',
         StopSession(s) \/ \E p \in Pid : OnExited(s, p) \/ Kill(s, p)
  PROVE  TasksInv'
<1>1. CASE StopSession(s)
  <2>1. /\ UNCHANGED <<pc, given, todo, gate, tracked, orderly, clock>>
        /\ status' = [status EXCEPT ![s] = "stopping"]
    BY <1>1 DEF StopSession, taskVars, vars
  <2>2. IpcTypeOK'
    BY <2>1 DEF TasksInv, IpcTypeOK
  <2>3. QED BY <2>1, <2>2 DEF TasksInv
<1>2. ASSUME NEW p \in Pid, OnExited(s, p) \/ Kill(s, p) PROVE TasksInv'
  <2>1. /\ p \in Live(s)
        /\ tracked' = MarkProcessExited(s, p)
        /\ UNCHANGED <<pc, given, todo, gate, status, orderly>>
    BY <1>2 DEF OnExited, Kill, taskVars
  <2>2. SessionProcessesKept
    BY <2>1, MarkKeeps
  <2>3. IpcTypeOK'
    BY <2>1, <2>2 DEF TasksInv, IpcTypeOK, SessionProcessesKept
  <2>4. \A t \in SessionId, q \in Pid :
          tracked'[t][q] # None => tracked'[t][q].created \in 1..clock'
    BY <2>2 DEF SessionProcessesKept
  <2>5. \A c \in Client, q \in Pid : q \in todo'[c] => tracked'[c.sid][q] # None
    BY <2>1, <2>2, TaskFields DEF TasksInv, SessionProcessesKept
  <2>6. QED BY <2>1, <2>3, <2>4, <2>5 DEF TasksInv
<1>3. QED BY <1>1, <1>2

LEMMA TasksStep ==
  ASSUME RouteInvariant, TasksInv, [IpcNext]_ipcVars
  PROVE  TasksInv'
<1>1. 1..clock \subseteq 1..clock'
  BY IpcStepIsStep, ClockGrows
<1>2. CASE \/ \E p \in Pid : (ProcessStart(p) \/ ProcessExit(p)) /\ UNCHANGED <<taskVars, uiVars>>
           \/ Server
           \/ UNCHANGED ipcVars
  <2>1. UNCHANGED <<taskVars, uiVars>>
    BY <1>2 DEF Server, ipcVars
  <2>2. QED BY <1>1, <2>1, TasksUndisturbed
<1>3. CASE \E c \in Client : NewTask(c) \/ TaskStep(c)
  BY <1>1, <1>3, NewTaskKeeps, TaskStepKeeps
<1>4. CASE \E s \in SessionId : StopSession(s) \/ \E p \in Pid : OnExited(s, p) \/ Kill(s, p)
  BY <1>1, <1>4, MonitorKeeps
<1>5. QED BY <1>2, <1>3, <1>4 DEF IpcNext

----------------------------------------------------------------------------
(* The theorems.  The service's invariant needs the tasks' requests to be  *)
(* in order, and the tasks' invariant needs the service's clock: they are  *)
(* inductive together.                                                     *)

LEMMA IpcInvariance == IpcSpec => [](RouteInvariant /\ TasksInv)
<1>1. IpcInit => RouteInvariant /\ TasksInv
  BY InvInit, TasksInit DEF IpcInit
<1>2. RouteInvariant /\ TasksInv /\ [IpcNext]_ipcVars => (RouteInvariant /\ TasksInv)'
  BY IpcStepIsStep, InvStep, TasksStep
<1>3. QED BY <1>1, <1>2, PTL DEF IpcSpec

\* The tasks of SessionManager keep their types, and nobody but the task that
\* holds a session's recovery gate recreates the session or replays into it.
THEOREM IpcTypeCorrect == IpcSpec => []IpcTypeOK
<1>1. TasksInv => IpcTypeOK
  BY DEF TasksInv
<1>2. QED BY <1>1, IpcInvariance, PTL

\* The composed system implements PidRoutes: ProxySwitch's background tasks
\* are pipe clients of the kind for which the service was specified.
THEOREM TasksRefineClients == IpcSpec => ImplementsPidRoutes
<1>1. IpcInit => Init
  BY DEF IpcInit
<1>2. RouteInvariant /\ TasksInv /\ [IpcNext]_ipcVars => [Next]_vars
  BY IpcStepIsStep
<1>3. QED BY <1>1, <1>2, IpcInvariance, PTL DEF IpcSpec, ImplementsPidRoutes, Spec

\* What ProxySwitch's users rely on: with SessionManager's tasks as clients, the
\* traffic of a process goes only where the service agreed to send that very
\* process.
THEOREM TasksRouteAsGranted == IpcSpec => []RoutedAsGranted /\ PromiseKept
BY TasksRefineClients, RoutesAreGranted, Refinement, PTL DEF ImplementsPidRoutes

----------------------------------------------------------------------------
(* GrantInForce.  The tasks of different sessions do not meet as long as    *)
(* no two sessions track the same PID.                                     *)

\* The sessions and PIDs that some task brings together.  OwnPids: no two
\* sessions do so with the same PID, as when one program launches another that
\* has a session of its own; closeSession of one of them would take the route
\* of the other.
Owns(s, p) == \E c \in Client : WithPid(c) /\ c.sid = s /\ c.pid = p
OwnPids ==
  \A c, d \in Client : WithPid(c) /\ WithPid(d) /\ c.pid = d.pid => c.sid = d.sid

\* The service may still act on the request of c.
Open(c) == pipe[c].at \in {"sent", "accepted"}
IsTracked(s, p) == tracked[s][p] # None

\* A request fits the state of its task, and the creation time of an addPid is
\* neither older than what its session tracks nor younger than the process.
TaskIsInOrder(c) ==
  /\ pipe[c] # Idle => pc[c] \in Running
  /\ Open(c) =>
       /\ pipe[c].req.sid = c.sid
       /\ \/ pipe[c].req.op = "createSession" /\ pc[c] \in {"create", "recreate"}
          \/ pipe[c].req.op = "addPid" /\ pc[c] \in {"add", "retry", "replay"}
          \/ pipe[c].req.op = "closeSession" /\ pc[c] = "close"
       /\ pipe[c].req.op = "addPid" =>
            LET p == pipe[c].req.pid
                t == pipe[c].req.created
            IN  /\ IsTracked(c.sid, p) /\ tracked[c.sid][p].created <= t
                /\ born[p] # 0 => t <= born[p]
  /\ pc[c] = "close" => status[c.sid] = "exited"
  /\ WithPid(c) /\ pc[c] # "new" =>
       IsTracked(c.sid, c.pid) /\ tracked[c.sid][c.pid].created <= given[c]

RequestsOfTasks == \A c \in Client : TaskIsInOrder(c)

\* Only a PID's own session tracks it, and a process under it is either the
\* tracked one, not yet marked, or a later one.
TrackedInPast ==
  \A s \in SessionId, p \in Pid : IsTracked(s, p) =>
    /\ Owns(s, p) /\ status[s] # "none"
    /\ born[p] # 0 => tracked[s][p].created <= born[p]
    /\ SameProcess(s, p) => tracked[s][p].live

\* What the service knows of a PID, some session tracks.
RoutesAreTracked ==
  /\ \A s \in SessionId : sessions[s] # None => \A p \in sessions[s].pids : IsTracked(s, p)
  /\ \A p \in Pid : pidToProxy[p] # None => \E s \in SessionId : IsTracked(s, p)
  /\ \A g \in granted : \E s \in SessionId : IsTracked(s, g[1])
  /\ service = "down" => granted = {}

GrantInv == RequestsOfTasks /\ TrackedInPast /\ RoutesAreTracked /\ GrantInForce

\* What is proved of the tasks and the service above.
Base == RouteInvariant /\ TasksInv

\* A PID is tracked by one session only.
LEMMA OneOwner ==
  ASSUME OwnPids, TrackedInPast, NEW s \in SessionId, NEW t \in SessionId, NEW p \in Pid,
         IsTracked(s, p), IsTracked(t, p)
  PROVE  s = t
BY DEF OwnPids, TrackedInPast, Owns

\* What a step does to the processes of the system.
LEMMA BornMoves ==
  ASSUME Base, [IpcNext]_ipcVars, NEW p \in Pid
  PROVE  \/ born'[p] = born[p]
         \/ born'[p] = 0
         \/ born'[p] = clock + 1 /\ UNCHANGED <<taskVars, uiVars>>
<1>1. born \in [Pid -> Nat]
  BY DEF Base, RouteInvariant, TypeOK
<1>2. ASSUME NEW q \in Pid, ProcessStart(q) \/ ProcessExit(q)
      PROVE  born'[p] \in {born[p], 0, clock + 1}
  BY <1>1, <1>2 DEF ProcessStart, ProcessExit
<1>3. CASE \E q \in Pid : (ProcessStart(q) \/ ProcessExit(q)) /\ UNCHANGED <<taskVars, uiVars>>
  BY <1>2, <1>3
<1>4. CASE Server
  BY <1>4 DEF Server, Service, ServiceStart, Crash, Gone, Dispose, DisposeCancel,
     DisposeSessions, DisposeClear, ServiceExit, Sweep, Unavailable, Accept, Handle,
     DoCreateSession, DoAddPid, DoRemovePid, DoCloseSession, osVars
<1>5. ASSUME NEW c \in Client, NewTask(c) PROVE UNCHANGED born
  BY <1>5 DEF NewTask, LaunchTarget, OnDescendant, RouteDetectedChildren,
     CleanupSessionRoutes, Begin, vars
<1>6. ASSUME NEW c \in Client, TaskStep(c) PROVE UNCHANGED born
  BY <1>6 DEF TaskStep, Ask, CreateAnswered, AddAnswered, EnterGate, RecreateAnswered,
     ReplayAnswered, ReplayEnds, LastAnswered, Answered, vars, osVars
<1>7. ASSUME NEW s \in SessionId, StopSession(s) \/ \E q \in Pid : OnExited(s, q)
      PROVE UNCHANGED born
  BY <1>7 DEF StopSession, OnExited, vars
<1>8. ASSUME NEW s \in SessionId, NEW q \in Pid, Kill(s, q)
      PROVE  born'[p] \in {born[p], 0}
  BY <1>1, <1>8 DEF Kill, ProcessExit
<1>9. CASE UNCHANGED ipcVars
  BY <1>9 DEF ipcVars, vars
<1>10. QED BY <1>3, <1>4, <1>5, <1>6, <1>7, <1>8, <1>9 DEF IpcNext

\* What a step does to a session and its processes: an entry stays, and so
\* does the end of a session.
LEMMA UiGrows ==
  ASSUME Base, Base', [IpcNext]_ipcVars, NEW s \in SessionId
  PROVE  /\ status[s] # "none" => status'[s] # "none"
         /\ status[s] = "exited" => status'[s] = "exited"
         /\ \A p \in Pid :
              /\ IsTracked(s, p) => /\ IsTracked(s, p)'
                                    /\ tracked'[s][p].created = tracked[s][p].created
                                    /\ \/ tracked'[s][p].live = tracked[s][p].live
                                       \/ born'[p] = 0
              /\ ~IsTracked(s, p) /\ IsTracked(s, p)' =>
                    /\ Owns(s, p) /\ status'[s] # "none" /\ born'[p] = born[p]
                    /\ tracked'[s][p].created = born[p] /\ tracked'[s][p].live
<1>1. /\ tracked \in [SessionId -> [Pid -> TrackedProcess \cup {None}]]
      /\ status \in [SessionId -> {"none", "running", "stopping", "exited"}]
  BY DEF Base, TasksInv, IpcTypeOK
<1>2. CASE UNCHANGED <<status, tracked>>
  BY <1>2 DEF IsTracked
<1>3. ASSUME NEW c \in Client, LaunchTarget(c) \/ OnDescendant(c)
      PROVE  /\ status[c.sid] # "exited" \/ status' = status
             /\ status'[c.sid] # "none"
             /\ \A t \in SessionId : t # c.sid => status'[t] = status[t]
             /\ tracked' = Track(c.sid, c.pid) /\ WithPid(c) /\ UNCHANGED born
  BY <1>1, <1>3, TaskFields DEF LaunchTarget, OnDescendant, WithPid, Begin, vars
<1>4. ASSUME NEW c \in Client, LaunchTarget(c) \/ OnDescendant(c), NEW p \in Pid
      PROVE  \/ tracked'[s][p] = tracked[s][p]
             \/ /\ ~IsTracked(s, p) /\ s = c.sid /\ p = c.pid
                /\ tracked'[s][p] = [created |-> born[p], live |-> TRUE]
  <2>1. c.sid \in SessionId /\ c.pid \in Pid /\ tracked' = Track(c.sid, c.pid)
    BY <1>3, <1>4, TaskFields
  <2>2. CASE tracked[c.sid][c.pid] = None
    <3>1. tracked' = [tracked EXCEPT ![c.sid][c.pid] = [created |-> born[c.pid], live |-> TRUE]]
      BY <2>1, <2>2 DEF Track
    <3>2. CASE s = c.sid /\ p = c.pid
      BY <1>1, <2>1, <2>2, <3>1, <3>2 DEF IsTracked
    <3>3. CASE ~(s = c.sid /\ p = c.pid)
      BY <1>1, <2>1, <3>1, <3>3
    <3>4. QED BY <3>2, <3>3
  <2>3. CASE tracked[c.sid][c.pid] # None
    BY <2>1, <2>3 DEF Track
  <2>4. QED BY <2>2, <2>3
<1>5. CASE \E c \in Client : LaunchTarget(c) \/ OnDescendant(c)
  <2>1. PICK c \in Client : LaunchTarget(c) \/ OnDescendant(c)
    BY <1>5
  <2>2. /\ status[s] # "none" => status'[s] # "none"
        /\ status[s] = "exited" => status'[s] = "exited"
        /\ s = c.sid => status'[s] # "none"
    BY <1>1, <1>3, <2>1 DEF LaunchTarget, OnDescendant
  <2>3. ASSUME NEW p \in Pid
        PROVE  /\ IsTracked(s, p) => tracked'[s][p] = tracked[s][p]
               /\ ~IsTracked(s, p) /\ IsTracked(s, p)' =>
                    /\ Owns(s, p) /\ s = c.sid
                    /\ tracked'[s][p].created = born[p] /\ tracked'[s][p].live
    <3>1. \/ tracked'[s][p] = tracked[s][p]
          \/ /\ ~IsTracked(s, p) /\ s = c.sid /\ p = c.pid
             /\ tracked'[s][p] = [created |-> born[p], live |-> TRUE]
      BY <1>4, <2>1
    <3>2. s = c.sid /\ p = c.pid => Owns(s, p)
      BY <1>3, <2>1 DEF Owns
    <3>3. CASE tracked'[s][p] = tracked[s][p]
      BY <3>3 DEF IsTracked
    <3>4. CASE tracked'[s][p] # tracked[s][p]
      BY <3>1, <3>2, <3>4
    <3>5. QED BY <3>3, <3>4
  <2>4. UNCHANGED born
    BY <1>3, <2>1
  <2>5. QED BY <2>2, <2>3, <2>4 DEF IsTracked
<1>6. CASE \E c \in Client : RouteDetectedChildren(c) \/ CleanupSessionRoutes(c)
  <2>1. PICK c \in Client : RouteDetectedChildren(c) \/ CleanupSessionRoutes(c)
    BY <1>6
  <2>2. tracked' = tracked
        /\ status' \in {status, [status EXCEPT ![c.sid] = "exited"]}
    BY <2>1 DEF RouteDetectedChildren, CleanupSessionRoutes
  <2>3. QED BY <1>1, <2>2, TaskFields DEF IsTracked
<1>7. CASE \E t \in SessionId : StopSession(t)
  <2>1. PICK t \in SessionId : StopSession(t)
    BY <1>7
  <2>2. tracked' = tracked /\ status[t] = "running" /\ status' = [status EXCEPT ![t] = "stopping"]
    BY <2>1 DEF StopSession
  <2>3. QED BY <1>1, <2>2 DEF IsTracked
<1>8. CASE \E t \in SessionId, q \in Pid : OnExited(t, q) \/ Kill(t, q)
  <2>1. PICK t \in SessionId, q \in Pid : OnExited(t, q) \/ Kill(t, q)
    BY <1>8
  <2>2. /\ q \in Live(t) /\ tracked' = MarkProcessExited(t, q) /\ status' = status
        /\ born'[q] = 0
    BY <2>1 DEF OnExited, Kill, ProcessExit, vars, Base, RouteInvariant, TypeOK
  <2>3. PICK e : e = [tracked[t][q] EXCEPT !.live = FALSE]
    OBVIOUS
  <2>4. tracked[t][q] \in TrackedProcess
    BY <1>1, <2>2 DEF Live
  <2>5. e \in TrackedProcess /\ e.created = tracked[t][q].created
    BY <2>3, <2>4 DEF TrackedProcess
  <2>6. tracked' = [tracked EXCEPT ![t] = [tracked[t] EXCEPT ![q] = e]]
    BY <2>2, <2>3 DEF MarkProcessExited
  <2>7. \A p \in Pid : \/ tracked'[s][p] = tracked[s][p]
                       \/ s = t /\ p = q /\ tracked'[s][p] = e
    BY <1>1, <2>6
  <2>8. e # None /\ tracked[t][q] # None
    BY <2>4, <2>5, TaskAssumption
  <2>9. QED BY <2>2, <2>5, <2>7, <2>8 DEF IsTracked
<1>9. ASSUME NEW c \in Client, TaskStep(c) PROVE UNCHANGED <<status, tracked>>
  BY <1>9 DEF TaskStep, Ask, CreateAnswered, AddAnswered, EnterGate, RecreateAnswered,
     ReplayAnswered, ReplayEnds, LastAnswered, Answered, uiVars
<1>10. CASE Server \/ UNCHANGED ipcVars
           \/ \E p \in Pid : (ProcessStart(p) \/ ProcessExit(p)) /\ UNCHANGED <<taskVars, uiVars>>
  BY <1>2, <1>10 DEF Server, uiVars, ipcVars
<1>11. QED BY <1>2, <1>5, <1>6, <1>7, <1>8, <1>9, <1>10 DEF IpcNext, NewTask

\* A tracked process stays in the past of its PID's owner.
LEMMA TrackedKeeps ==
  ASSUME Base, Base', TrackedInPast, [IpcNext]_ipcVars PROVE TrackedInPast'
<1>1. ASSUME NEW s \in SessionId, NEW p \in Pid, IsTracked(s, p)'
      PROVE  /\ Owns(s, p) /\ status'[s] # "none"
             /\ born'[p] # 0 => tracked'[s][p].created <= born'[p]
             /\ tracked'[s][p].created = born'[p] => tracked'[s][p].live
  <2>1. CASE IsTracked(s, p)
    <3>1. /\ tracked[s][p].created \in 1 .. clock /\ clock \in Nat /\ born[p] \in Nat
      BY <2>1 DEF Base, TasksInv, RouteInvariant, TypeOK, IsTracked
    <3>2. /\ Owns(s, p) /\ status[s] # "none"
          /\ born[p] # 0 => tracked[s][p].created <= born[p]
          /\ tracked[s][p].created = born[p] => tracked[s][p].live
      BY <2>1 DEF TrackedInPast, SameProcess, IsTracked
    <3>3. /\ tracked'[s][p].created = tracked[s][p].created /\ status'[s] # "none"
          /\ tracked'[s][p].live = tracked[s][p].live \/ born'[p] = 0
      BY <2>1, <3>2, UiGrows
    <3>4. born'[p] \in {born[p], 0, clock + 1}
      BY BornMoves
    <3>5. QED BY <3>1, <3>2, <3>3, <3>4
  <2>2. CASE ~IsTracked(s, p)
    <3>1. born[p] \in Nat
      BY DEF Base, RouteInvariant, TypeOK
    <3>2. QED BY <1>1, <2>2, <3>1, UiGrows
  <2>3. QED BY <2>1, <2>2
<1>2. QED BY <1>1 DEF TrackedInPast, SameProcess, IsTracked, Owns

\* The PID of an addPid request.
LEMMA AddedPid ==
  ASSUME Base, NEW c \in Client, Open(c), pipe[c].req.op = "addPid"
  PROVE  /\ pipe[c].req.pid \in Pid /\ pipe[c].req.sid \in SessionId
         /\ pipe[c].req.created \in 1 .. clock \/ pipe[c].req.created \in 0 .. clock
BY SentRequest, RequestKinds DEF Base, RouteInvariant, Open, AddRequest, TimesPast

\* A task that goes on without a new request, and one that stands still.
LEMMA TaskStays ==
  ASSUME Base, Base', [IpcNext]_ipcVars, NEW c \in Client, TaskIsInOrder(c),
         pc'[c] = pc[c], given'[c] = given[c],
         pipe'[c] # Idle => pipe[c] # Idle,
         Open(c)' => Open(c) /\ pipe'[c].req = pipe[c].req
  PROVE  TaskIsInOrder(c)'
<1>1. c.sid \in SessionId /\ (WithPid(c) => c.pid \in Pid)
  BY TaskFields
<1>2. ASSUME NEW p \in Pid, IsTracked(c.sid, p)
      PROVE  IsTracked(c.sid, p)' /\ tracked'[c.sid][p].created = tracked[c.sid][p].created
  BY <1>1, <1>2, UiGrows
<1>3. status[c.sid] = "exited" => status'[c.sid] = "exited"
  BY <1>1, UiGrows
<1>4. ASSUME Open(c)', pipe[c].req.op = "addPid"
      PROVE  /\ tracked'[c.sid][pipe[c].req.pid] # None
             /\ tracked'[c.sid][pipe[c].req.pid].created <= pipe[c].req.created
             /\ born'[pipe[c].req.pid] # 0 => pipe[c].req.created <= born'[pipe[c].req.pid]
  <2>1. PICK p, t : p = pipe[c].req.pid /\ t = pipe[c].req.created
    OBVIOUS
  <2>2. p \in Pid /\ t \in 0 .. clock /\ clock \in Nat /\ born[p] \in Nat
    BY <1>4, <2>1, AddedPid DEF Base, RouteInvariant, TypeOK
  <2>3. /\ IsTracked(c.sid, p) /\ tracked[c.sid][p].created <= t
        /\ born[p] # 0 => t <= born[p]
    BY <1>4, <2>1 DEF TaskIsInOrder
  <2>4. tracked'[c.sid][p] # None /\ tracked'[c.sid][p].created = tracked[c.sid][p].created
    BY <1>2, <2>2, <2>3 DEF IsTracked
  <2>5. born'[p] \in {born[p], 0, clock + 1}
    BY <2>2, BornMoves
  <2>6. born'[p] # 0 => t <= born'[p]
    BY <2>2, <2>3, <2>5
  <2>7. QED BY <2>1, <2>3, <2>4, <2>6
<1>5. /\ pipe'[c] # Idle => pc'[c] \in Running
      /\ pc'[c] = "close" => status'[c.sid] = "exited"
  BY <1>3 DEF TaskIsInOrder
<1>6. WithPid(c) /\ pc'[c] # "new" =>
         IsTracked(c.sid, c.pid)' /\ tracked'[c.sid][c.pid].created <= given'[c]
  BY <1>1, <1>2 DEF TaskIsInOrder
<1>7. ASSUME Open(c)'
      PROVE  /\ pipe'[c].req.sid = c.sid
             /\ \/ pipe'[c].req.op = "createSession" /\ pc'[c] \in {"create", "recreate"}
                \/ pipe'[c].req.op = "addPid" /\ pc'[c] \in {"add", "retry", "replay"}
                \/ pipe'[c].req.op = "closeSession" /\ pc'[c] = "close"
  BY <1>7 DEF TaskIsInOrder
<1>8. QED BY <1>4, <1>5, <1>6, <1>7 DEF TaskIsInOrder, Open, IsTracked, WithPid

\* What the service does to a connection.
LEMMA ServicePipes ==
  ASSUME Base, NEW c \in Client,
         \/ Server
         \/ \E p \in Pid : ProcessStart(p) \/ ProcessExit(p)
  PROVE  \/ pipe'[c] = pipe[c]
         \/ Open(c) /\ pipe'[c] = Accepted(pipe[c].req)
         \/ Open(c) /\ pipe'[c].at = "replied"
<1>1. pipe \in [Client -> PipeState]
  BY DEF Base, RouteInvariant, TypeOK
<1>2. CASE \E p \in Pid : ProcessStart(p) \/ ProcessExit(p)
  BY <1>2 DEF ProcessStart, ProcessExit
<1>3. CASE ServiceStart \/ DisposeCancel \/ DisposeSessions \/ DisposeClear \/ Sweep
  BY <1>3 DEF ServiceStart, DisposeCancel, DisposeSessions, DisposeClear, Sweep
<1>4. CASE Gone
  BY <1>4 DEF Gone, Replied, Open
<1>5. ASSUME NEW d \in Client, Unavailable(d) \/ Accept(d)
      PROVE  \/ pipe'[c] = pipe[c]
             \/ Open(c) /\ pipe'[c] = Accepted(pipe[c].req)
             \/ Open(c) /\ pipe'[c].at = "replied"
  BY <1>1, <1>5 DEF Unavailable, Accept, Replied, Open
<1>6. ASSUME NEW d \in Client, Handle(d)
      PROVE  pipe'[c] = pipe[c] \/ (Open(c) /\ pipe'[c].at = "replied")
  <2>1. pipe[d].at = "accepted" /\ \E x : Reply(d, x)
    BY <1>6 DEF Handle, Handling, DoCreateSession, DoAddPid, DoRemovePid, DoCloseSession
  <2>2. PICK x : pipe' = [pipe EXCEPT ![d] = Replied(x)]
    BY <2>1 DEF Reply
  <2>3. QED BY <1>1, <2>1, <2>2 DEF Open, Replied
<1>7. QED
  BY <1>2, <1>3, <1>4, <1>5, <1>6 DEF Server, Service, Crash, Dispose, ServiceExit

\* Every task's request goes on to fit its state.
LEMMA TaskOrderKeeps ==
  ASSUME Base, Base', RequestsOfTasks, TrackedInPast, [IpcNext]_ipcVars
  PROVE  RequestsOfTasks'
<1>1. /\ pipe \in [Client -> PipeState] /\ pc \in [Client -> Running \cup {"new", "done", "closed"}]
      /\ born \in [Pid -> Nat] /\ given \in [Client -> Nat]
  BY DEF Base, RouteInvariant, TasksInv, TypeOK, IpcTypeOK
<1>2. ASSUME NEW d \in Client,
             \/ Server
             \/ \E p \in Pid : (ProcessStart(p) \/ ProcessExit(p)) /\ UNCHANGED <<taskVars, uiVars>>
      PROVE  TaskIsInOrder(d)'
  <2>1. UNCHANGED <<pc, given>>
    BY <1>2 DEF Server, taskVars
  <2>2. \/ pipe'[d] = pipe[d]
        \/ Open(d) /\ pipe'[d] = Accepted(pipe[d].req)
        \/ Open(d) /\ pipe'[d].at = "replied"
    BY <1>2, ServicePipes
  <2>3. pipe'[d] # Idle => pipe[d] # Idle
    BY <2>2 DEF Open, Idle
  <2>4. Open(d)' => Open(d) /\ pipe'[d].req = pipe[d].req
    BY <2>2 DEF Open, Accepted
  <2>5. QED BY <2>1, <2>3, <2>4, TaskStays DEF RequestsOfTasks
<1>3. ASSUME NEW c \in Client, NewTask(c), NEW d \in Client PROVE TaskIsInOrder(d)'
  <2>1. /\ pc[c] = "new" /\ UNCHANGED <<pipe, born>>
        /\ \E x \in Running : pc' = [pc EXCEPT ![c] = x]
    BY <1>3 DEF NewTask, LaunchTarget, OnDescendant, RouteDetectedChildren,
       CleanupSessionRoutes, Begin, vars, Running
  <2>2. CASE d # c
    <3>1. pc'[d] = pc[d]
      BY <1>1, <2>1, <2>2
    <3>2. given'[d] = given[d]
      BY <1>1, <1>3, <2>2 DEF NewTask, LaunchTarget, OnDescendant, RouteDetectedChildren,
         CleanupSessionRoutes
    <3>3. QED BY <2>1, <3>1, <3>2, TaskStays DEF RequestsOfTasks, Open
  <2>3. CASE d = c
    <3>1. pipe[c] = Idle
      BY <2>1 DEF RequestsOfTasks, TaskIsInOrder, Running
    <3>2. ~Open(c)'
      BY <2>1, <3>1 DEF Open, Idle
    <3>3. pc'[c] = "close" => status'[c.sid] = "exited"
      BY <1>1, <1>3, TaskFields DEF NewTask, LaunchTarget, OnDescendant, RouteDetectedChildren,
         CleanupSessionRoutes, Begin, Base, TasksInv, IpcTypeOK
    <3>4. WithPid(c) => IsTracked(c.sid, c.pid)' /\ tracked'[c.sid][c.pid].created <= given'[c]
      <4>1. SUFFICES ASSUME WithPid(c)
                     PROVE  IsTracked(c.sid, c.pid)' /\ tracked'[c.sid][c.pid].created <= given'[c]
        OBVIOUS
      <4>2. PICK s \in SessionId, p \in Pid : s = c.sid /\ p = c.pid
        BY <4>1, TaskFields
      <4>3. /\ born[p] # 0 /\ born[p] \in Nat /\ given' = [given EXCEPT ![c] = born[p]]
            /\ tracked' = Track(s, p)
        BY <1>1, <1>3, <4>1, <4>2 DEF WithPid, NewTask, LaunchTarget, OnDescendant,
           RouteDetectedChildren, CleanupSessionRoutes
      <4>4. given'[c] = born[p]
        BY <1>1, <4>3
      <4>5. CASE IsTracked(s, p)
        BY <4>2, <4>3, <4>4, <4>5, UiGrows DEF TrackedInPast
      <4>6. CASE ~IsTracked(s, p)
        <5>1. PICK e : e = [created |-> born[p], live |-> TRUE]
          OBVIOUS
        <5>2. e \in TrackedProcess
          BY <4>3, <5>1 DEF TrackedProcess
        <5>3. e # None
          BY <5>2, TaskAssumption
        <5>4. tracked' = [tracked EXCEPT ![s][p] = e]
          BY <4>3, <4>6, <5>1 DEF Track, IsTracked
        <5>5. tracked'[s][p] = e
          BY <5>4 DEF Base, TasksInv, IpcTypeOK
        <5>6. QED BY <4>2, <4>3, <4>4, <5>1, <5>3, <5>5 DEF IsTracked
      <4>7. QED BY <4>5, <4>6
    <3>5. pipe'[c] = Idle
      BY <2>1, <3>1
    <3>6. QED BY <2>3, <3>2, <3>3, <3>4, <3>5 DEF TaskIsInOrder, Open, IsTracked, WithPid
  <2>4. QED BY <2>2, <2>3
<1>4. ASSUME NEW c \in Client, TaskStep(c), NEW d \in Client PROVE TaskIsInOrder(d)'
  <2>1. /\ UNCHANGED <<born, given, status, tracked>>
        /\ \E x, y : pc' = [pc EXCEPT ![c] = x] /\ pipe' = [pipe EXCEPT ![c] = y]
    <3>1. pc = [pc EXCEPT ![c] = pc[c]] /\ pipe = [pipe EXCEPT ![c] = pipe[c]]
      BY <1>1
    <3>2. UNCHANGED <<born, given, status, tracked>>
      BY <1>4 DEF TaskStep, Ask, CreateAnswered, AddAnswered, EnterGate, RecreateAnswered,
         ReplayAnswered, ReplayEnds, LastAnswered, Answered, vars, osVars, uiVars
    <3>3. \E x : pc' = [pc EXCEPT ![c] = x]
      BY <1>4, <3>1 DEF TaskStep, Ask, CreateAnswered, AddAnswered, EnterGate, RecreateAnswered,
         ReplayAnswered, ReplayEnds, LastAnswered, Goto
    <3>4. \E y : pipe' = [pipe EXCEPT ![c] = y]
      BY <1>4, <3>1 DEF TaskStep, Ask, CreateAnswered, AddAnswered, EnterGate, RecreateAnswered,
         ReplayAnswered, ReplayEnds, LastAnswered, Answered, vars, Receive, Send,
         CreateSessionAsync, AddPidAsync, CloseSessionAsync
    <3>5. QED BY <3>2, <3>3, <3>4
  <2>2. CASE d # c
    <3>1. pc'[d] = pc[d] /\ pipe'[d] = pipe[d]
      BY <1>1, <2>1, <2>2
    <3>2. QED BY <2>1, <3>1, TaskStays DEF RequestsOfTasks, Open
  <2>3. CASE d = c
    <3>1. TaskIsInOrder(c)
      BY DEF RequestsOfTasks
    <3>2. WithPid(c) /\ pc[c] # "new" =>
            IsTracked(c.sid, c.pid)' /\ tracked'[c.sid][c.pid].created <= given'[c]
      BY <2>1, <3>1 DEF TaskIsInOrder, IsTracked
    <3>3. CASE Ask(c)
      <4>1. pc' = pc /\ pc[c] \in Running
        BY <3>3 DEF Ask, Running
      <4>2. ASSUME NEW r, Send(c, r) PROVE pipe'[c] = Sent(r)
        BY <1>1, <4>2 DEF Send
      <4>3. CASE pc[c] \in {"create", "recreate"} /\ CreateSessionAsync(c)
        <5> PICK r : r = [op |-> "createSession", sid |-> c.sid, endpoint |-> EndpointOf[c.sid]]
          OBVIOUS
        <5>1. /\ Open(c)' /\ pipe'[c].req.sid = c.sid /\ pipe'[c].req.op = "createSession"
          <6>1. pipe'[c] = [at |-> "sent", req |-> r]
            BY <4>2, <4>3 DEF CreateSessionAsync, Sent
          <6>2. QED BY <6>1 DEF Open
        <5>2. QED BY <2>1, <2>3, <3>1, <3>2, <4>1, <4>3, <5>1
                     DEF TaskIsInOrder, Open, IsTracked, WithPid
      <4>4. CASE pc[c] = "close" /\ CloseSessionAsync(c)
        <5> PICK r : r = [op |-> "closeSession", sid |-> c.sid]
          OBVIOUS
        <5>1. /\ Open(c)' /\ pipe'[c].req.sid = c.sid /\ pipe'[c].req.op = "closeSession"
          <6>1. pipe'[c] = [at |-> "sent", req |-> r]
            BY <4>2, <4>4 DEF CloseSessionAsync, Sent
          <6>2. QED BY <6>1 DEF Open
        <5>2. QED BY <2>1, <2>3, <3>1, <3>2, <4>1, <4>4, <5>1
                     DEF TaskIsInOrder, Open, IsTracked, WithPid
      <4>5. ASSUME NEW p \in Pid, NEW t \in Nat, AddPidAsync(c, p, t),
                   pc[c] \in {"add", "retry", "replay"}, IsTracked(c.sid, p),
                   tracked[c.sid][p].created <= t
            PROVE  TaskIsInOrder(c)'
        <5>1. /\ Open(c)' /\ pipe'[c].req.sid = c.sid /\ pipe'[c].req.op = "addPid"
              /\ pipe'[c].req.pid = p /\ pipe'[c].req.created = CreationTime(p, t)
          <6> PICK r : r = [op |-> "addPid", sid |-> c.sid, pid |-> p,
                            created |-> CreationTime(p, t)]
            OBVIOUS
          <6>1. pipe'[c] = [at |-> "sent", req |-> r]
            BY <4>2, <4>5 DEF AddPidAsync, Sent
          <6>2. QED BY <6>1 DEF Open
        <5>2. /\ born[p] # 0 => CreationTime(p, t) = born[p]
              /\ born[p] = 0 => CreationTime(p, t) = t
          BY DEF CreationTime
        <5>3. tracked[c.sid][p].created <= CreationTime(p, t)
          BY <4>5, <5>2, TaskFields DEF TrackedInPast
        <5>4. born[p] # 0 => CreationTime(p, t) <= born[p]
          BY <1>1, <5>2
        <5>5. QED BY <2>1, <3>1, <3>2, <4>1, <4>5, <5>1, <5>3, <5>4
                     DEF TaskIsInOrder, Open, IsTracked, WithPid
      <4>6. CASE pc[c] \in {"add", "retry"} /\ AddPidAsync(c, c.pid, given[c])
        <5>1. WithPid(c) /\ c.pid \in Pid /\ given[c] \in Nat
          BY <1>1, <4>6, TaskFields DEF Base, TasksInv
        <5>2. IsTracked(c.sid, c.pid) /\ tracked[c.sid][c.pid].created <= given[c]
          BY <3>1, <4>6, <5>1 DEF TaskIsInOrder
        <5>3. QED BY <2>3, <4>5, <4>6, <5>1, <5>2
      <4>7. CASE pc[c] = "replay" /\ \E p \in todo[c] : AddPidAsync(c, p, tracked[c.sid][p].created)
        <5>1. PICK p \in todo[c] : AddPidAsync(c, p, tracked[c.sid][p].created)
          BY <4>7
        <5>2. /\ p \in Pid /\ IsTracked(c.sid, p) /\ tracked[c.sid][p].created \in Nat
          BY <5>1, TaskFields DEF Base, TasksInv, IpcTypeOK, IsTracked
        <5>3. QED BY <2>3, <4>5, <4>7, <5>1, <5>2
      <4>8. QED BY <3>3, <4>3, <4>4, <4>6, <4>7 DEF Ask
    <3>4. CASE EnterGate(c) \/ ReplayEnds(c)
      <4>1. /\ pipe'[c] = pipe[c] /\ pc[c] \in {"gate", "replay"}
            /\ pc'[c] \in {"recreate", "retry", "done"}
            /\ pc'[c] = "recreate" => pc[c] = "gate"
            /\ pc'[c] # "recreate" => pipe[c] = Idle
        BY <1>1, <3>4 DEF EnterGate, ReplayEnds, Goto, vars
      <4>2. ~Open(c)'
        BY <3>1, <4>1 DEF TaskIsInOrder, Open, Idle
      <4>3. QED BY <2>1, <2>3, <3>2, <4>1, <4>2 DEF TaskIsInOrder, Open, IsTracked, WithPid, Running
    <3>5. CASE CreateAnswered(c) \/ AddAnswered(c) \/ RecreateAnswered(c) \/ ReplayAnswered(c)
               \/ LastAnswered(c)
      <4>1. pipe'[c] = Idle /\ pc[c] # "new"
        BY <1>1, <3>5 DEF CreateAnswered, AddAnswered, RecreateAnswered, ReplayAnswered,
           LastAnswered, Answered, Receive
      <4>2. pc'[c] # "close"
        BY <1>1, <3>5 DEF CreateAnswered, AddAnswered, RecreateAnswered, ReplayAnswered,
           LastAnswered, Answered, Goto
      <4>3. QED BY <2>1, <2>3, <3>2, <4>1, <4>2
                   DEF TaskIsInOrder, Open, Idle, IsTracked, WithPid
    <3>6. QED BY <1>4, <3>3, <3>4, <3>5 DEF TaskStep
  <2>4. QED BY <2>2, <2>3
<1>5. ASSUME \/ \E s \in SessionId : StopSession(s) \/ \E p \in Pid : OnExited(s, p) \/ Kill(s, p)
             \/ UNCHANGED ipcVars,
             NEW d \in Client
      PROVE  TaskIsInOrder(d)'
  <2>1. UNCHANGED <<pipe, pc, given>>
    BY <1>5 DEF StopSession, OnExited, Kill, ProcessExit, vars, taskVars, ipcVars
  <2>2. QED BY <2>1, TaskStays DEF RequestsOfTasks, Open
<1>6. QED BY <1>2, <1>3, <1>4, <1>5 DEF IpcNext, RequestsOfTasks

\* An open request to route a PID for a session.
Asked(s, p) ==
  \E c \in Client :
    /\ Open(c) /\ pipe[c].req.op = "addPid"
    /\ pipe[c].req.sid = s /\ pipe[c].req.pid = p

\* What the service comes to know of a PID it was asked to route.
LEMMA RouteGrows ==
  ASSUME Base, RequestsOfTasks, [IpcNext]_ipcVars, NEW p \in Pid
  PROVE  /\ pidToProxy'[p] # None => pidToProxy[p] # None \/ \E s \in SessionId : Asked(s, p)
         /\ \A s \in SessionId : sessions'[s] # None /\ p \in sessions'[s].pids =>
              \/ sessions[s] # None /\ p \in sessions[s].pids
              \/ Asked(s, p)
         /\ \A g \in granted' : g[1] = p => g \in granted \/ \E s \in SessionId : Asked(s, p)
<1>1. /\ pidToProxy \in [Pid -> RouteEntry \cup {None}]
      /\ sessions \in [SessionId -> SessionState \cup {None}]
  BY DEF Base, RouteInvariant, TypeOK
<1>2. CASE UNCHANGED <<sessions, pidToProxy, granted>>
  BY <1>2
<1>3. CASE \E q \in Pid : (ProcessStart(q) \/ ProcessExit(q)) /\ UNCHANGED <<taskVars, uiVars>>
  BY <1>3 DEF ProcessStart, ProcessExit
<1>4. CASE Service
  <2>1. /\ pidToProxy'[p] \in {pidToProxy[p], None}
        /\ granted' \subseteq granted
    <3>1. \/ UNCHANGED <<pidToProxy, granted>>
          \/ pidToProxy' = [q \in Pid |-> None] /\ granted' \in {granted, {}}
          \/ granted' = granted /\ \E P : pidToProxy' = Without(pidToProxy, P)
      BY <1>4 DEF Service, ServiceStart, Crash, Gone, Dispose, DisposeCancel,
         DisposeSessions, DisposeClear, ServiceExit, Sweep, routerVars, serverVars
    <3>2. QED BY <3>1 DEF Without
  <2>2. sessions' = sessions \/ sessions' = [s \in SessionId |-> None]
    BY <1>4 DEF Service, ServiceStart, Crash, Gone, Dispose, DisposeCancel,
       DisposeSessions, DisposeClear, ServiceExit, Sweep, serverVars
  <2>3. QED BY <2>1, <2>2
<1>5. ASSUME NEW c \in Client, Unavailable(c) \/ Accept(c)
      PROVE  UNCHANGED <<sessions, pidToProxy, granted>>
  BY <1>5 DEF Unavailable, Accept, serverVars, routerVars
<1>6. ASSUME NEW c \in Client, DoCreateSession(c)
      PROVE  /\ UNCHANGED <<pidToProxy, granted>>
             /\ \A s \in SessionId :
                  sessions'[s] = sessions[s] \/ sessions'[s].pids = {}
  <2>1. \/ sessions' = sessions
        \/ \E h : sessions' = [sessions EXCEPT ![pipe[c].req.sid] =
                                 FreshSession(pipe[c].req.endpoint, h)]
    BY <1>6 DEF DoCreateSession
  <2>2. \A e, h : FreshSession(e, h).pids = {}
    BY DEF FreshSession
  <2>3. QED BY <1>1, <1>6, <2>1, <2>2 DEF DoCreateSession, routerVars
<1>7. ASSUME NEW c \in Client, DoAddPid(c)
      PROVE  /\ pidToProxy'[p] # None =>
                  pidToProxy[p] # None \/ \E s \in SessionId : Asked(s, p)
             /\ \A s \in SessionId : sessions'[s] # None /\ p \in sessions'[s].pids =>
                  \/ sessions[s] # None /\ p \in sessions[s].pids
                  \/ Asked(s, p)
             /\ \A g \in granted' : g[1] = p =>
                  g \in granted \/ \E s \in SessionId : Asked(s, p)
  <2>1. PICK s \in SessionId, q \in Pid :
          /\ Open(c) /\ pipe[c].req.op = "addPid" /\ s = pipe[c].req.sid /\ q = pipe[c].req.pid
    BY <1>7, AddedPid DEF DoAddPid, Handling, Open
  <2>2. Asked(s, q)
    BY <2>1 DEF Asked
  <2>3. /\ sessions' \in {sessions, [sessions EXCEPT ![s].pids = @ \cup {q}]}
        /\ \/ UNCHANGED <<sessions, pidToProxy, granted>>
           \/ /\ sessions[s] # None
              /\ \E e : pidToProxy' = [pidToProxy EXCEPT ![q] = e]
              /\ \E t, d : granted' \subseteq granted \cup {<<q, t, d>>}
    BY <1>7, <2>1 DEF DoAddPid
  <2>4. CASE UNCHANGED <<sessions, pidToProxy, granted>>
    BY <2>4
  <2>5. CASE /\ sessions[s] # None
             /\ \E e : pidToProxy' = [pidToProxy EXCEPT ![q] = e]
             /\ \E t, d : granted' \subseteq granted \cup {<<q, t, d>>}
    <3>1. pidToProxy'[p] = pidToProxy[p] \/ p = q
      BY <1>1, <2>5
    <3>2. \A g \in granted' : g \in granted \/ g[1] = q
      BY <2>5
    <3>3. ASSUME NEW t \in SessionId, sessions'[t] # None, p \in sessions'[t].pids
          PROVE  (sessions[t] # None /\ p \in sessions[t].pids) \/ (t = s /\ p = q)
      <4>1. sessions[s] \in SessionState
        BY <1>1, <2>5
      <4>2. PICK x : x = [sessions[s] EXCEPT !.pids = @ \cup {q}]
        OBVIOUS
      <4>3. x.pids = sessions[s].pids \cup {q}
        BY <4>1, <4>2 DEF SessionState
      <4>4. sessions' \in {sessions, [sessions EXCEPT ![s] = x]}
        BY <2>3, <4>2
      <4>5. sessions'[t] = sessions[t] \/ (t = s /\ sessions'[t] = x)
        BY <1>1, <4>4
      <4>6. QED BY <2>5, <3>3, <4>3, <4>5
    <3>4. QED BY <2>2, <3>1, <3>2, <3>3
  <2>6. QED BY <2>3, <2>4, <2>5
<1>8. ASSUME NEW c \in Client, DoCloseSession(c)
      PROVE  /\ granted' = granted
             /\ pidToProxy'[p] \in {pidToProxy[p], None}
             /\ \A s \in SessionId : sessions'[s] \in {sessions[s], None}
  BY <1>1, <1>8 DEF DoCloseSession, Without
<1>10. ASSUME NEW c \in Client PROVE ~DoRemovePid(c)
  BY DEF RequestsOfTasks, TaskIsInOrder, DoRemovePid, Handling, Open
<1>11. CASE Server
  BY <1>2, <1>4, <1>5, <1>6, <1>7, <1>8, <1>10, <1>11 DEF Server, Handle
<1>12. ASSUME NEW c \in Client, NewTask(c) PROVE UNCHANGED <<sessions, pidToProxy, granted>>
  BY <1>12 DEF NewTask, LaunchTarget, OnDescendant, RouteDetectedChildren,
     CleanupSessionRoutes, Begin, vars
<1>13. ASSUME NEW c \in Client, TaskStep(c) PROVE UNCHANGED <<sessions, pidToProxy, granted>>
  BY <1>13 DEF TaskStep, Ask, CreateAnswered, AddAnswered, EnterGate, RecreateAnswered,
     ReplayAnswered, ReplayEnds, LastAnswered, Answered, vars, serverVars, routerVars
<1>14. ASSUME NEW s \in SessionId,
              StopSession(s) \/ \E q \in Pid : OnExited(s, q) \/ Kill(s, q)
       PROVE  UNCHANGED <<sessions, pidToProxy>> /\ granted' \subseteq granted
  BY <1>14 DEF StopSession, OnExited, Kill, ProcessExit, vars
<1>15. CASE UNCHANGED ipcVars
  BY <1>2, <1>15 DEF ipcVars, vars
<1>16. QED BY <1>2, <1>3, <1>11, <1>12, <1>13, <1>14, <1>15 DEF IpcNext

\* Nothing is granted while the service is down.
LEMMA DownGrantsNothing ==
  ASSUME service = "down" => granted = {}, [IpcNext]_ipcVars
  PROVE  service' = "down" => granted' = {}
<1>1. CASE UNCHANGED <<service, granted>>
  BY <1>1
<1>2. CASE \E q \in Pid : (ProcessStart(q) \/ ProcessExit(q)) /\ UNCHANGED <<taskVars, uiVars>>
  BY <1>2 DEF ProcessStart, ProcessExit
<1>3. CASE Server
  BY <1>3 DEF Server, Service, ServiceStart, Crash, Gone, Dispose, DisposeCancel,
     DisposeSessions, DisposeClear, ServiceExit, Sweep, Unavailable, Accept, Handle,
     DoCreateSession, DoAddPid, DoRemovePid, DoCloseSession, Handling, serverVars
<1>4. ASSUME NEW c \in Client, NewTask(c) PROVE UNCHANGED <<service, granted>>
  BY <1>4 DEF NewTask, LaunchTarget, OnDescendant, RouteDetectedChildren,
     CleanupSessionRoutes, Begin, vars
<1>5. ASSUME NEW c \in Client, TaskStep(c) PROVE UNCHANGED <<service, granted>>
  BY <1>5 DEF TaskStep, Ask, CreateAnswered, AddAnswered, EnterGate, RecreateAnswered,
     ReplayAnswered, ReplayEnds, LastAnswered, Answered, vars, serverVars
<1>6. ASSUME NEW s \in SessionId,
             StopSession(s) \/ \E q \in Pid : OnExited(s, q) \/ Kill(s, q)
      PROVE  service' = service /\ granted' \subseteq granted
  BY <1>6 DEF StopSession, OnExited, Kill, ProcessExit, vars
<1>7. CASE UNCHANGED ipcVars
  BY <1>1, <1>7 DEF ipcVars, vars
<1>8. QED BY <1>1, <1>2, <1>3, <1>4, <1>5, <1>6, <1>7 DEF IpcNext

\* The service learns of tracked PIDs only.
LEMMA RoutesTrackedKeeps ==
  ASSUME Base, Base', RequestsOfTasks, RoutesAreTracked, [IpcNext]_ipcVars
  PROVE  RoutesAreTracked'
<1>1. ASSUME NEW s \in SessionId, NEW p \in Pid, Asked(s, p) PROVE IsTracked(s, p)
  BY <1>1 DEF Asked, RequestsOfTasks, TaskIsInOrder
<1>2. ASSUME NEW s \in SessionId, NEW p \in Pid, IsTracked(s, p) PROVE IsTracked(s, p)'
  BY <1>2, UiGrows
<1>3. ASSUME NEW s \in SessionId, sessions'[s] # None, NEW p \in sessions'[s].pids
      PROVE  IsTracked(s, p)'
  <2>1. p \in Pid
    BY <1>3 DEF Base, RouteInvariant, TypeOK, SessionState
  <2>2. QED BY <1>1, <1>2, <1>3, <2>1, RouteGrows DEF RoutesAreTracked
<1>4. ASSUME NEW p \in Pid, pidToProxy'[p] # None PROVE \E s \in SessionId : IsTracked(s, p)'
  BY <1>1, <1>2, <1>4, RouteGrows DEF RoutesAreTracked
<1>5. ASSUME NEW g \in granted' PROVE \E s \in SessionId : IsTracked(s, g[1])'
  <2>1. g[1] \in Pid
    BY DEF Base, RouteInvariant, TypeOK
  <2>2. QED BY <1>1, <1>2, <2>1, RouteGrows DEF RoutesAreTracked
<1>6. service' = "down" => granted' = {}
  BY DownGrantsNothing DEF RoutesAreTracked
<1>7. QED BY <1>3, <1>4, <1>5, <1>6 DEF RoutesAreTracked, IsTracked

\* A process that is routed was tracked before the step.
LEMMA SameBefore ==
  ASSUME Base, Base', OwnPids, TrackedInPast, RoutesAreTracked, [IpcNext]_ipcVars,
         NEW s \in SessionId, NEW p \in Pid, SameProcess(s, p)',
         pidToProxy[p] # None \/ \E g \in granted : g[1] = p
  PROVE  SameProcess(s, p) /\ born'[p] = born[p] /\ born[p] # 0
<1>1. PICK t \in SessionId : IsTracked(t, p)
  BY DEF RoutesAreTracked
<1>2. IsTracked(s, p)' /\ IsTracked(t, p)'
  BY <1>1, UiGrows DEF SameProcess, IsTracked
<1>3. TrackedInPast'
  BY TrackedKeeps
<1>4. Owns(s, p) /\ Owns(t, p)
  BY <1>2, <1>3 DEF TrackedInPast, IsTracked, Owns
<1>5. s = t
  BY <1>4 DEF OwnPids, Owns
<1>6. /\ IsTracked(s, p) /\ tracked[s][p].created \in 1 .. clock /\ clock \in Nat
      /\ tracked'[s][p].created = tracked[s][p].created
  <2>1. IsTracked(s, p)
    BY <1>1, <1>5
  <2>2. tracked'[s][p].created = tracked[s][p].created
    BY <2>1, UiGrows
  <2>3. tracked[s][p].created \in 1 .. clock /\ clock \in Nat
    BY <2>1 DEF Base, TasksInv, RouteInvariant, TypeOK, IsTracked
  <2>4. QED BY <2>1, <2>2, <2>3
<1>7. born'[p] \in {born[p], 0, clock + 1}
  BY BornMoves
<1>8. QED BY <1>6, <1>7 DEF SameProcess, IsTracked

\* A grant was in force before the step, and its process lived already.
LEMMA GrantBefore ==
  ASSUME Base, Base', OwnPids, TrackedInPast, RoutesAreTracked, GrantInForce,
         [IpcNext]_ipcVars, service = "running",
         NEW s \in SessionId, NEW p \in Pid, status'[s] # "exited", SameProcess(s, p)',
         <<p, born'[p], EndpointOf[s]>> \in granted
  PROVE  born'[p] = born[p] /\ RouteOf(p) # None
<1>1. SameProcess(s, p) /\ born'[p] = born[p]
  BY SameBefore
<1>2. status[s] # "exited"
  BY UiGrows
<1>3. QED BY <1>1, <1>2 DEF GrantInForce

\* Whatever the step, what was granted stays routed.
LEMMA GrantKeeps ==
  ASSUME Base, Base', OwnPids, RequestsOfTasks, TrackedInPast, RoutesAreTracked,
         GrantInForce, [IpcNext]_ipcVars
  PROVE  GrantInForce'
<1> SUFFICES ASSUME NEW s \in SessionId, NEW p \in Pid, service' = "running",
                    status'[s] # "exited", SameProcess(s, p)',
                    <<p, born'[p], EndpointOf[s]>> \in granted'
             PROVE  RouteOf(p)' # None
  BY DEF GrantInForce, SameProcess
<1>1. /\ pidToProxy \in [Pid -> RouteEntry \cup {None}]
      /\ sessions \in [SessionId -> SessionState \cup {None}]
      /\ born \in [Pid -> Nat]
  BY DEF Base, RouteInvariant, TypeOK
<1>2. ASSUME service = "running", <<p, born'[p], EndpointOf[s]>> \in granted,
             pidToProxy'[p] = pidToProxy[p]
      PROVE  RouteOf(p)' # None
  <2>1. born'[p] = born[p] /\ RouteOf(p) # None
    BY <1>2, GrantBefore
  <2>2. QED BY <1>2, <2>1 DEF RouteOf, ValidCreationTime
<1>3. ASSUME UNCHANGED <<service, pidToProxy>>, granted' \subseteq granted
      PROVE  RouteOf(p)' # None
  BY <1>2, <1>3
<1>4. CASE \E q \in Pid : (ProcessStart(q) \/ ProcessExit(q)) /\ UNCHANGED <<taskVars, uiVars>>
  BY <1>3, <1>4 DEF ProcessStart, ProcessExit
<1>5. CASE Server
  <2>1. CASE ServiceStart
    BY <2>1 DEF ServiceStart, RoutesAreTracked
  <2>2. CASE Crash \/ Dispose
    BY <2>2 DEF Crash, Gone, Dispose, DisposeCancel, DisposeSessions, DisposeClear, ServiceExit
  <2>3. CASE Sweep
    <3>1. /\ UNCHANGED <<born, service, granted>>
          /\ pidToProxy' = Without(pidToProxy, {q \in Pid : Stale(q)})
      BY <2>3 DEF Sweep, osVars, serverVars
    <3>2. RouteOf(p) # None
      BY <3>1, GrantBefore
    <3>3. ~Stale(p)
      BY <3>2 DEF RouteOf, Stale
    <3>4. pidToProxy'[p] = pidToProxy[p]
      BY <3>1, <3>3 DEF Without
    <3>5. QED BY <1>2, <3>1, <3>4
  <2>4. ASSUME NEW c \in Client, Unavailable(c) \/ Accept(c) \/ DoCreateSession(c)
        PROVE  RouteOf(p)' # None
    BY <1>3, <2>4 DEF Unavailable, Accept, DoCreateSession, serverVars, routerVars
  <2>5. ASSUME NEW c \in Client, DoAddPid(c) PROVE RouteOf(p)' # None
    <3>1. PICK t \in SessionId, q \in Pid, x \in Nat :
            /\ Open(c) /\ pipe[c].req.op = "addPid" /\ t = pipe[c].req.sid
            /\ q = pipe[c].req.pid /\ x = pipe[c].req.created
      <4>1. Open(c)
        BY <2>5 DEF DoAddPid, Handling, Open
      <4>2. pipe[c].req.op = "addPid"
        BY <2>5 DEF DoAddPid, Handling
      <4>3. clock \in Nat
        BY DEF Base, RouteInvariant, TypeOK
      <4>4. QED BY <4>1, <4>2, <4>3, AddedPid
    <3>2. /\ IsTracked(t, q) /\ tracked[t][q].created <= x
          /\ born[q] # 0 => x <= born[q]
      BY <3>1 DEF RequestsOfTasks, TaskIsInOrder
    <3>3. \/ UNCHANGED <<service, pidToProxy, granted>>
          \/ /\ sessions[t] # None
             /\ pidToProxy' = [pidToProxy EXCEPT
                                 ![q] = [proxy |-> sessions[t].handle, created |-> x]]
             /\ \E y, d : granted' \subseteq granted \cup {<<q, y, d>>}
             /\ UNCHANGED <<born, service>>
      BY <2>5, <3>1 DEF DoAddPid, osVars
    <3>4. UNCHANGED tracked
      BY <1>5, <2>5 DEF Server, uiVars
    <3>5. CASE UNCHANGED <<service, pidToProxy, granted>>
      BY <1>3, <3>5
    <3>6. CASE /\ sessions[t] # None
               /\ pidToProxy' = [pidToProxy EXCEPT
                                   ![q] = [proxy |-> sessions[t].handle, created |-> x]]
               /\ \E y, d : granted' \subseteq granted \cup {<<q, y, d>>}
               /\ UNCHANGED <<born, service>>
      <4>1. CASE p # q
        <5>1. pidToProxy'[p] = pidToProxy[p]
          BY <3>6, <4>1
        <5>2. <<p, born'[p], EndpointOf[s]>> \in granted
          BY <3>6, <4>1
        <5>3. QED BY <1>2, <3>6, <5>1, <5>2
      <4>2. CASE p = q
        <5>1. SameProcess(s, p)
          BY <3>4, <3>6 DEF SameProcess
        <5>2. s = t
          BY <3>2, <4>2, <5>1, OneOwner DEF SameProcess, IsTracked
        <5>3. tracked[s][p].created = born[p] /\ born[p] \in Nat /\ born[p] # 0
          BY <1>1, <5>1 DEF SameProcess, Base, TasksInv
        <5>4. x \in Nat
          BY <3>1, AddedPid DEF Base, RouteInvariant, TypeOK
        <5>5. x = born[p]
          BY <3>2, <4>2, <5>2, <5>3, <5>4
        <5>6. PICK e : e = [proxy |-> sessions[t].handle, created |-> x]
          OBVIOUS
        <5>7. pidToProxy'[p] = e
          BY <1>1, <3>6, <4>2, <5>6
        <5>8. sessions[t].handle \in Nat
          BY <1>1, <3>6 DEF SessionState
        <5>9. /\ e \in RouteEntry
              /\ e.proxy \in Nat /\ e.created = born'[p]
          BY <3>6, <5>3, <5>4, <5>5, <5>6, <5>8 DEF RouteEntry
        <5>10. e # None /\ e.proxy # None
          BY <5>9, NoneAssumption
        <5>11. QED BY <3>6, <5>3, <5>7, <5>9, <5>10 DEF RouteOf, ValidCreationTime
      <4>3. QED BY <4>1, <4>2
    <3>7. QED BY <3>3, <3>5, <3>6
  <2>6. ASSUME NEW c \in Client, DoCloseSession(c) PROVE RouteOf(p)' # None
    <3>1. /\ Open(c) /\ pipe[c].req.op = "closeSession"
      BY <2>6 DEF DoCloseSession, Handling, Open
    <3>2. pipe[c].req.sid = c.sid /\ status[c.sid] = "exited" /\ c.sid \in SessionId
      BY <3>1, TaskFields DEF RequestsOfTasks, TaskIsInOrder
    <3>3. /\ UNCHANGED <<service, granted, born>>
          /\ \/ pidToProxy' = pidToProxy
             \/ /\ sessions[c.sid] # None
                /\ pidToProxy' = Without(pidToProxy, sessions[c.sid].pids)
      BY <2>6, <3>2 DEF DoCloseSession, osVars
    <3>4. s # c.sid
      <4>1. status' = status
        BY <1>5 DEF Server, uiVars
      <4>2. QED BY <3>2, <4>1
    <3>5. SameProcess(s, p)
      BY <3>3, SameBefore
    <3>6. sessions[c.sid] # None => p \notin sessions[c.sid].pids
      BY <3>2, <3>4, <3>5, OneOwner DEF RoutesAreTracked, SameProcess, IsTracked
    <3>7. pidToProxy'[p] = pidToProxy[p]
      BY <3>3, <3>6 DEF Without
    <3>8. QED BY <1>2, <3>3, <3>7
  <2>7. ASSUME NEW c \in Client PROVE ~DoRemovePid(c)
    BY DEF RequestsOfTasks, TaskIsInOrder, DoRemovePid, Handling, Open
  <2>8. QED BY <1>5, <2>1, <2>2, <2>3, <2>4, <2>5, <2>6, <2>7 DEF Server, Service, Handle
<1>6. ASSUME NEW c \in Client, NewTask(c) PROVE UNCHANGED <<service, pidToProxy, granted>>
  BY <1>6 DEF NewTask, LaunchTarget, OnDescendant, RouteDetectedChildren,
     CleanupSessionRoutes, Begin, vars
<1>7. ASSUME NEW c \in Client, TaskStep(c) PROVE UNCHANGED <<service, pidToProxy, granted>>
  BY <1>7 DEF TaskStep, Ask, CreateAnswered, AddAnswered, EnterGate, RecreateAnswered,
     ReplayAnswered, ReplayEnds, LastAnswered, Answered, vars, serverVars, routerVars
<1>8. ASSUME NEW t \in SessionId,
             StopSession(t) \/ \E q \in Pid : OnExited(t, q) \/ Kill(t, q)
      PROVE  UNCHANGED <<service, pidToProxy>> /\ granted' \subseteq granted
  BY <1>8 DEF StopSession, OnExited, Kill, ProcessExit, vars
<1>9. CASE UNCHANGED ipcVars
  BY <1>3, <1>9 DEF ipcVars, vars
<1>10. QED BY <1>3, <1>4, <1>5, <1>6, <1>7, <1>8, <1>9 DEF IpcNext

\* Nothing is granted at first.
LEMMA GrantInit == IpcInit => GrantInv
<1>1. IpcInit => RequestsOfTasks
  BY DEF IpcInit, Init, RequestsOfTasks, TaskIsInOrder, Open, Idle
<1>2. IpcInit => TrackedInPast /\ RoutesAreTracked
  BY DEF IpcInit, Init, TrackedInPast, RoutesAreTracked, IsTracked
<1>3. IpcInit => GrantInForce
  BY DEF IpcInit, Init, GrantInForce
<1>4. QED BY <1>1, <1>2, <1>3 DEF GrantInv

\* The invariant holds for ever, next to the one of the tasks.
LEMMA GrantInvariance == ASSUME OwnPids PROVE IpcSpec => []GrantInv
<1>1. ASSUME Base, Base', GrantInv, [IpcNext]_ipcVars PROVE GrantInv'
  BY <1>1, TaskOrderKeeps, TrackedKeeps, RoutesTrackedKeeps, GrantKeeps DEF GrantInv
<1>2. IpcSpec => []Base
  BY IpcInvariance DEF Base
<1>3. QED BY <1>1, <1>2, GrantInit, PTL DEF IpcSpec

\* A process that the service agreed to route stays routed until its session
\* ends, whatever is recovered, replayed, swept or retried meanwhile, provided
\* that no two sessions track the same PID.
THEOREM GrantsStayInForce == ASSUME OwnPids PROVE IpcSpec => []GrantInForce
<1>1. GrantInv => GrantInForce
  BY DEF GrantInv
<1>2. QED BY <1>1, GrantInvariance, PTL

----------------------------------------------------------------------------
(* A closeSession that leaves nothing behind.                              *)

\* In an orderly session only one task is under way at a time.
OneAtATime ==
  \A c, d \in Client :
    c.sid = d.sid /\ orderly[c.sid] /\ pc[c] \in Running /\ pc[d] \in Running => c = d

\* A recovery is about to route p again.
Replaying(c, p) ==
  \/ pc[c] = "recreate" /\ pipe[c] = Replied("ok")
  \/ /\ pc[c] = "replay"
     /\ \/ p \in todo[c]
        \/ Open(c) /\ pipe[c].req.pid = p
        \/ pipe[c] = Replied("unavailable")

Pending(s, p) == \E c \in Client : c.sid = s /\ Replaying(c, p)

\* What a session has routed, it lists, or a recovery will list it again.
RoutesAreListed ==
  \A s \in SessionId, p \in Pid :
    orderly[s] /\ service # "unrouted" /\ SameProcess(s, p) /\ RouteOf(p) # None =>
      sessions[s] # None /\ (p \in sessions[s].pids \/ Pending(s, p))

\* The first createSession of a session finds none of its PIDs routed, and one
\* that is replaced by it has no routes to forget.
FirstFindsNothing ==
  \A c \in Client : pc[c] = "create" /\ orderly[c.sid] =>
    \A p \in Pid : IsTracked(c.sid, p) => pidToProxy[p] = None

\* A closeSession that Dispose has overtaken finds no session.
LateCloseFindsNothing ==
  \A c \in Client :
    service = "unrouted" /\ orderly[c.sid] /\ pc[c] = "close" /\ pipe[c].at = "accepted" =>
      sessions[c.sid] = None

CloseInv ==
  OneAtATime /\ RoutesAreListed /\ FirstFindsNothing /\ LateCloseFindsNothing
    /\ SequentialCloseIsComplete

\* A route that a step leaves in the table was there for the same process.
LEMMA RoutedBefore ==
  ASSUME Base, Base', OwnPids, TrackedInPast, RoutesAreTracked, [IpcNext]_ipcVars,
         NEW s \in SessionId, NEW p \in Pid, SameProcess(s, p)',
         pidToProxy'[p] = pidToProxy[p], RouteOf(p)' # None
  PROVE  SameProcess(s, p) /\ RouteOf(p) # None
<1>1. pidToProxy[p] # None
  BY DEF RouteOf
<1>2. SameProcess(s, p) /\ born'[p] = born[p]
  BY <1>1, SameBefore
<1>3. QED BY <1>2 DEF RouteOf, ValidCreationTime

\* Processes come and go, and ProcessMonitor takes notice.
LEMMA SystemKeepsClose ==
  ASSUME Base, Base', OwnPids, GrantInv, CloseInv, [IpcNext]_ipcVars,
         UNCHANGED <<pc, pipe, todo, orderly, sessions, pidToProxy, service>>,
         \A s \in SessionId, p \in Pid : IsTracked(s, p)' => IsTracked(s, p)
  PROVE  CloseInv'
<1>1. OneAtATime'
  BY DEF CloseInv, OneAtATime
<1>2. ASSUME NEW s \in SessionId, NEW p \in Pid, orderly[s], service # "unrouted",
             SameProcess(s, p)', RouteOf(p)' # None
      PROVE  sessions[s] # None /\ (p \in sessions[s].pids \/ Pending(s, p)')
  <2>1. SameProcess(s, p) /\ RouteOf(p) # None
    BY <1>2, RoutedBefore DEF GrantInv
  <2>2. Pending(s, p) => Pending(s, p)'
    BY DEF Pending, Replaying, Open
  <2>3. QED BY <1>2, <2>1, <2>2 DEF CloseInv, RoutesAreListed
<1>3. RoutesAreListed'
  BY <1>2 DEF RoutesAreListed, SameProcess, RouteOf, ValidCreationTime, Pending, Replaying, Open
<1>4. FirstFindsNothing'
  BY TaskFields DEF CloseInv, FirstFindsNothing, IsTracked
<1>5. LateCloseFindsNothing'
  BY DEF CloseInv, LateCloseFindsNothing
<1>6. ASSUME NEW c \in Client, pc[c] = "close", pipe[c] = Replied("ok"), orderly[c.sid],
             NEW p \in Pid, SameProcess(c.sid, p)'
      PROVE  RouteOf(p)' = None
  <2>1. SUFFICES ASSUME RouteOf(p)' # None PROVE FALSE
    OBVIOUS
  <2>2. SameProcess(c.sid, p) /\ RouteOf(p) # None
    BY <1>6, <2>1, RoutedBefore, TaskFields DEF GrantInv
  <2>3. QED BY <1>6, <2>2 DEF CloseInv, SequentialCloseIsComplete
<1>7. SequentialCloseIsComplete'
  BY <1>6 DEF CloseInv, SequentialCloseIsComplete, SameProcess, RouteOf, ValidCreationTime
<1>8. QED BY <1>1, <1>3, <1>4, <1>5, <1>7 DEF CloseInv

\* A task starts: if its session stays orderly, it is the only one.
LEMMA NewTaskKeepsClose ==
  ASSUME Base, Base', OwnPids, GrantInv, CloseInv, [IpcNext]_ipcVars,
         NEW c \in Client, NewTask(c)
  PROVE  CloseInv'
<1>1. /\ pc \in [Client -> Running \cup {"new", "done", "closed"}]
      /\ orderly \in [SessionId -> BOOLEAN] /\ c.sid \in SessionId
      /\ tracked \in [SessionId -> [Pid -> TrackedProcess \cup {None}]]
  BY TaskFields DEF Base, TasksInv, IpcTypeOK
<1>2. /\ UNCHANGED <<vars, todo>> /\ pc[c] = "new"
      /\ orderly' = [orderly EXCEPT ![c.sid] = @ /\ Active(c.sid) = {}]
      /\ \E x \in {"create", "add", "gate", "close"} : pc' = [pc EXCEPT ![c] = x]
      /\ pc'[c] = "create" => LaunchTarget(c)
  BY <1>1 DEF NewTask, LaunchTarget, OnDescendant, RouteDetectedChildren,
     CleanupSessionRoutes, Begin
<1>3. UNCHANGED <<pipe, sessions, pidToProxy, service, born>>
  BY <1>2 DEF vars
<1>4. pipe[c] = Idle
  BY <1>2 DEF GrantInv, RequestsOfTasks, TaskIsInOrder, Running
<1>5. ASSUME NEW d \in Client, d # c PROVE pc'[d] = pc[d]
  BY <1>1, <1>2, <1>5
<1>6. ASSUME NEW d \in Client, orderly'[d.sid]
      PROVE  /\ orderly[d.sid]
             /\ d.sid = c.sid => pc[d] \notin Running
  BY <1>1, <1>2, <1>6, TaskFields DEF Active
<1>7. ASSUME NEW s \in SessionId, s # c.sid PROVE tracked'[s] = tracked[s]
  BY <1>1, <1>7 DEF NewTask, LaunchTarget, OnDescendant, RouteDetectedChildren,
     CleanupSessionRoutes, Track
<1>8. OneAtATime'
  BY <1>2, <1>5, <1>6 DEF CloseInv, OneAtATime
<1>9. ASSUME NEW s \in SessionId, NEW p \in Pid, orderly'[s], service # "unrouted",
             SameProcess(s, p)', RouteOf(p)' # None
      PROVE  sessions[s] # None /\ (p \in sessions[s].pids \/ Pending(s, p)')
  <2>1. SameProcess(s, p) /\ RouteOf(p) # None
    BY <1>3, <1>9, RoutedBefore DEF GrantInv
  <2>2. orderly[s]
    BY <1>1, <1>2, <1>9
  <2>3. sessions[s] # None /\ (p \in sessions[s].pids \/ Pending(s, p))
    BY <1>9, <2>1, <2>2 DEF CloseInv, RoutesAreListed
  <2>4. Pending(s, p) => Pending(s, p)'
    BY <1>2, <1>3, <1>5 DEF Pending, Replaying, Open
  <2>5. QED BY <2>3, <2>4
<1>10. RoutesAreListed'
  BY <1>3, <1>9 DEF RoutesAreListed
<1>11. ASSUME NEW d \in Client, pc'[d] = "create", orderly'[d.sid],
              NEW p \in Pid, IsTracked(d.sid, p)', pidToProxy[p] # None
       PROVE  FALSE
  <2>1. PICK t \in SessionId : IsTracked(t, p)
    BY <1>11 DEF GrantInv, RoutesAreTracked
  <2>2. d.sid \in SessionId
    BY TaskFields
  <2>3. IsTracked(t, p)'
    BY <2>1, UiGrows
  <2>4. TrackedInPast'
    BY TrackedKeeps DEF GrantInv
  <2>5. t = d.sid
    BY <1>11, <2>2, <2>3, <2>4 DEF TrackedInPast, IsTracked, Owns, OwnPids
  <2>6. CASE d.sid = c.sid
    <3>1. d = c
      BY <1>5, <1>6, <1>11, <2>6 DEF Running
    <3>2. status[c.sid] = "none"
      BY <1>2, <1>11, <3>1 DEF LaunchTarget
    <3>3. QED BY <2>1, <2>5, <2>6, <3>2 DEF GrantInv, TrackedInPast
  <2>7. CASE d.sid # c.sid
    <3>1. pc[d] = "create" /\ orderly[d.sid]
      BY <1>5, <1>6, <1>11, <2>7
    <3>2. QED BY <1>11, <2>1, <2>5, <3>1 DEF CloseInv, FirstFindsNothing
  <2>8. QED BY <2>6, <2>7
<1>12. FirstFindsNothing'
  BY <1>3, <1>11 DEF FirstFindsNothing, IsTracked
<1>13. LateCloseFindsNothing'
  BY <1>3, <1>4, <1>5, <1>6 DEF CloseInv, LateCloseFindsNothing, Idle
<1>14. ASSUME NEW d \in Client, pc'[d] = "close", pipe[d] = Replied("ok"), orderly'[d.sid]
       PROVE  /\ sessions[d.sid] = None
              /\ \A p \in Pid : SameProcess(d.sid, p)' => RouteOf(p) = None
  <2>1. d # c /\ pc[d] = "close"
    BY <1>4, <1>5, <1>14 DEF Idle, Replied
  <2>2. d.sid # c.sid /\ orderly[d.sid] /\ d.sid \in SessionId
    BY <1>6, <1>14, <2>1, TaskFields DEF Running
  <2>3. tracked'[d.sid] = tracked[d.sid]
    BY <1>7, <2>2
  <2>4. QED BY <1>3, <1>14, <2>1, <2>2, <2>3 DEF CloseInv, SequentialCloseIsComplete, SameProcess
<1>15. SequentialCloseIsComplete'
  BY <1>3, <1>14 DEF SequentialCloseIsComplete, SameProcess, RouteOf, ValidCreationTime
<1>16. QED BY <1>8, <1>10, <1>12, <1>13, <1>15 DEF CloseInv

\* A recovery goes on: what it has still to route, it keeps in mind.
LEMMA ReplayingGoesOn ==
  ASSUME Base, GrantInv, NEW c \in Client, TaskStep(c), orderly'[c.sid],
         NEW p \in Pid, SameProcess(c.sid, p), Replaying(c, p)
  PROVE  Replaying(c, p)'
<1>1. /\ pc \in [Client -> Running \cup {"new", "done", "closed"}]
      /\ todo \in [Client -> SUBSET Pid] /\ pipe \in [Client -> PipeState]
      /\ orderly \in [SessionId -> BOOLEAN] /\ c.sid \in SessionId
  BY TaskFields DEF Base, TasksInv, IpcTypeOK, RouteInvariant, TypeOK
<1>2. CASE pc[c] = "recreate" /\ pipe[c] = Replied("ok")
  <2>1. RecreateAnswered(c)
    BY <1>2 DEF TaskStep, Ask, CreateAnswered, AddAnswered, EnterGate, ReplayAnswered,
       ReplayEnds, LastAnswered, Answered, CreateSessionAsync, Send, Idle, Replied
  <2>2. pc'[c] = "replay" /\ todo'[c] = Live(c.sid)
    BY <1>1, <1>2, <2>1 DEF RecreateAnswered, Goto, Replied
  <2>3. p \in Live(c.sid)
    BY <1>1 DEF GrantInv, TrackedInPast, SameProcess, IsTracked, Live
  <2>4. QED BY <2>2, <2>3 DEF Replaying
<1>3. CASE pc[c] = "replay"
  <2>1. Ask(c) \/ ReplayAnswered(c) \/ ReplayEnds(c)
    BY <1>3 DEF TaskStep, CreateAnswered, AddAnswered, EnterGate, RecreateAnswered,
       LastAnswered, Answered
  <2>2. CASE Ask(c)
    <3>1. PICK q \in todo[c] : /\ AddPidAsync(c, q, tracked[c.sid][q].created)
                               /\ todo' = [todo EXCEPT ![c] = @ \ {q}]
      BY <1>3, <2>2 DEF Ask
    <3>2. pc'[c] = "replay" /\ pipe[c] = Idle
      BY <1>3, <2>2, <3>1 DEF Ask, AddPidAsync, Send
    <3>3. p \in todo[c]
      BY <1>3, <3>2 DEF Replaying, Idle, Open, Replied
    <3>4. CASE p # q
      BY <1>1, <3>1, <3>2, <3>3, <3>4 DEF Replaying
    <3>5. CASE p = q
      <4> PICK r : r = [op |-> "addPid", sid |-> c.sid, pid |-> q,
                        created |-> CreationTime(q, tracked[c.sid][q].created)]
        OBVIOUS
      <4>1. pipe'[c] = [at |-> "sent", req |-> r]
        BY <1>1, <3>1 DEF AddPidAsync, Send, Sent
      <4>2. QED BY <3>2, <3>5, <4>1 DEF Replaying, Open
    <3>6. QED BY <3>4, <3>5
  <2>3. CASE ReplayAnswered(c)
    <3>1. /\ pc' = pc /\ todo' = todo /\ pipe[c].at = "replied"
          /\ pipe[c].result # "unavailable"
      BY <1>1, <2>3 DEF ReplayAnswered, Answered, Receive
    <3>2. p \in todo[c]
      BY <1>3, <3>1 DEF Replaying, Open, Replied
    <3>3. QED BY <1>3, <3>1, <3>2 DEF Replaying
  <2>4. CASE ReplayEnds(c)
    BY <1>3, <2>4 DEF ReplayEnds, Replaying, Open, Idle, Replied
  <2>5. QED BY <2>1, <2>2, <2>3, <2>4
<1>4. QED BY <1>2, <1>3 DEF Replaying

\* A task that is under way starts no other and forgets no route.
LEMMA TaskStepKeepsClose ==
  ASSUME Base, Base', OwnPids, GrantInv, CloseInv, [IpcNext]_ipcVars,
         NEW c \in Client, TaskStep(c)
  PROVE  CloseInv'
<1>1. /\ pc \in [Client -> Running \cup {"new", "done", "closed"}]
      /\ todo \in [Client -> SUBSET Pid] /\ pipe \in [Client -> PipeState]
      /\ orderly \in [SessionId -> BOOLEAN] /\ c.sid \in SessionId
  BY TaskFields DEF Base, TasksInv, IpcTypeOK, RouteInvariant, TypeOK
<1>2. UNCHANGED <<born, service, sessions, pidToProxy, tracked>>
  BY DEF TaskStep, Ask, CreateAnswered, AddAnswered, EnterGate, RecreateAnswered,
     ReplayAnswered, ReplayEnds, LastAnswered, Answered, vars, osVars, serverVars,
     routerVars, uiVars
<1>3. /\ \E x : pc' = [pc EXCEPT ![c] = x]
      /\ \E y : pipe' = [pipe EXCEPT ![c] = y]
      /\ \E z : todo' = [todo EXCEPT ![c] = z]
      /\ \E b \in BOOLEAN : orderly' = [orderly EXCEPT ![c.sid] = @ /\ b]
  <2>1. /\ pc = [pc EXCEPT ![c] = pc[c]] /\ pipe = [pipe EXCEPT ![c] = pipe[c]]
        /\ todo = [todo EXCEPT ![c] = todo[c]]
        /\ orderly = [orderly EXCEPT ![c.sid] = @ /\ TRUE]
    BY <1>1
  <2>2. \E x : pc' = [pc EXCEPT ![c] = x]
    BY <2>1 DEF TaskStep, Ask, CreateAnswered, AddAnswered, EnterGate, RecreateAnswered,
       ReplayAnswered, ReplayEnds, LastAnswered, Goto
  <2>3. \E y : pipe' = [pipe EXCEPT ![c] = y]
    BY <2>1 DEF TaskStep, Ask, CreateAnswered, AddAnswered, EnterGate, RecreateAnswered,
       ReplayAnswered, ReplayEnds, LastAnswered, Answered, vars, Receive, Send,
       CreateSessionAsync, AddPidAsync, CloseSessionAsync
  <2>4. \E z : todo' = [todo EXCEPT ![c] = z]
    BY <2>1 DEF TaskStep, Ask, CreateAnswered, AddAnswered, EnterGate, RecreateAnswered,
       ReplayAnswered, ReplayEnds, LastAnswered
  <2>5. \E b \in BOOLEAN : orderly' = [orderly EXCEPT ![c.sid] = @ /\ b]
    BY <2>1 DEF TaskStep, Ask, CreateAnswered, AddAnswered, EnterGate, RecreateAnswered,
       ReplayAnswered, ReplayEnds, LastAnswered, Answered, uiVars
  <2>6. QED BY <2>2, <2>3, <2>4, <2>5
<1>4. ASSUME NEW s \in SessionId, orderly'[s] PROVE orderly[s]
  BY <1>1, <1>3, <1>4
<1>5. ASSUME NEW d \in Client, d # c
      PROVE  pc'[d] = pc[d] /\ pipe'[d] = pipe[d] /\ todo'[d] = todo[d]
  BY <1>1, <1>3, <1>5
<1>6. /\ pc[c] \in Running
      /\ pc'[c] = "create" => pc[c] = "create"
      /\ pc'[c] = "close" => pc[c] = "close"
      /\ pc'[c] = "close" => pipe'[c].at \in {"sent", "idle"}
  <2>1. CASE Ask(c)
    <3>1. pc' = pc /\ pc[c] \in Running
      BY <2>1 DEF Ask, Running
    <3>2. \E r : Send(c, r)
      BY <2>1 DEF Ask, CreateSessionAsync, AddPidAsync, CloseSessionAsync
    <3>3. PICK r : pipe' = [pipe EXCEPT ![c] = Sent(r)]
      BY <3>2 DEF Send
    <3>4. pipe'[c].at = "sent"
      BY <1>1, <3>3 DEF Sent
    <3>5. QED BY <3>1, <3>4
  <2>2. CASE EnterGate(c) \/ ReplayEnds(c)
    BY <1>1, <2>2 DEF EnterGate, ReplayEnds, Goto, Running
  <2>3. CASE CreateAnswered(c) \/ AddAnswered(c) \/ RecreateAnswered(c) \/ ReplayAnswered(c)
             \/ LastAnswered(c)
    BY <1>1, <2>3 DEF CreateAnswered, AddAnswered, RecreateAnswered, ReplayAnswered,
       LastAnswered, Answered, Receive, Goto, Running
  <2>4. QED BY <2>1, <2>2, <2>3 DEF TaskStep
<1>7. OneAtATime'
  BY <1>4, <1>5, <1>6, TaskFields DEF CloseInv, OneAtATime
<1>8. ASSUME NEW s \in SessionId, NEW p \in Pid, orderly'[s], service # "unrouted",
             SameProcess(s, p), RouteOf(p) # None
      PROVE  sessions[s] # None /\ (p \in sessions[s].pids \/ Pending(s, p)')
  <2>1. sessions[s] # None /\ (p \in sessions[s].pids \/ Pending(s, p))
    BY <1>4, <1>8 DEF CloseInv, RoutesAreListed
  <2>2. ASSUME NEW d \in Client, d.sid = s, Replaying(d, p) PROVE Replaying(d, p)'
    <3>1. CASE d = c
      BY <1>8, <2>2, <3>1, ReplayingGoesOn
    <3>2. CASE d # c
      BY <1>5, <2>2, <3>2 DEF Replaying, Open
    <3>3. QED BY <3>1, <3>2
  <2>3. QED BY <2>1, <2>2 DEF Pending
<1>9. RoutesAreListed'
  BY <1>2, <1>8 DEF RoutesAreListed, SameProcess, RouteOf, ValidCreationTime
<1>10. FirstFindsNothing'
  BY <1>2, <1>4, <1>5, <1>6, TaskFields DEF CloseInv, FirstFindsNothing, IsTracked
<1>11. LateCloseFindsNothing'
  BY <1>2, <1>4, <1>5, <1>6, TaskFields DEF CloseInv, LateCloseFindsNothing
<1>12. ASSUME NEW d \in Client, pc'[d] = "close", pipe'[d] = Replied("ok"), orderly'[d.sid]
       PROVE  pc[d] = "close" /\ pipe[d] = Replied("ok") /\ orderly[d.sid]
  BY <1>4, <1>5, <1>6, <1>12, TaskFields DEF Replied
<1>13. SequentialCloseIsComplete'
  BY <1>2, <1>12 DEF CloseInv, SequentialCloseIsComplete, SameProcess, RouteOf, ValidCreationTime
<1>14. QED BY <1>7, <1>9, <1>10, <1>11, <1>13 DEF CloseInv

\* What a handler does to the connections.
LEMMA HandlerReplies ==
  ASSUME Base, GrantInv, NEW c \in Client, Handle(c)
  PROVE  /\ pipe[c].at = "accepted" /\ pipe[c].req.sid = c.sid
         /\ pipe[c].req.op = "createSession" => pc[c] \in {"create", "recreate"}
         /\ pipe[c].req.op = "addPid" => pc[c] \in {"add", "retry", "replay"}
         /\ pipe[c].req.op = "closeSession" => pc[c] = "close"
         /\ pc[c] \in Running
         /\ pipe'[c].at = "replied" /\ pipe'[c] # Replied("unavailable")
         /\ \A d \in Client : d # c => pipe'[d] = pipe[d]
<1>1. pipe \in [Client -> PipeState]
  BY DEF Base, RouteInvariant, TypeOK
<1>2. pipe[c].at = "accepted"
  BY DEF Handle, DoCreateSession, DoAddPid, DoRemovePid, DoCloseSession, Handling
<1>3. \E x \in {"ok", "refused", "session not found"} : Reply(c, x)
  BY DEF Handle, DoCreateSession, DoAddPid, DoRemovePid, DoCloseSession
<1>4. PICK x \in {"ok", "refused", "session not found"} :
        pipe' = [pipe EXCEPT ![c] = Replied(x)]
  BY <1>3 DEF Reply
<1>5. pipe'[c] = Replied(x) /\ \A d \in Client : d # c => pipe'[d] = pipe[d]
  BY <1>1, <1>4
<1>6. Replied(x).at = "replied" /\ Replied(x) # Replied("unavailable")
  BY DEF Replied
<1>7. pc[c] \in Running
  <2>1. pipe[c] # Idle
    <3>1. Idle.at = "idle"
      BY DEF Idle
    <3>2. QED BY ONLY <1>2, <3>1
  <2>2. QED BY <2>1 DEF GrantInv, RequestsOfTasks, TaskIsInOrder
<1>8. /\ pipe[c].req.sid = c.sid
      /\ pipe[c].req.op = "createSession" => pc[c] \in {"create", "recreate"}
      /\ pipe[c].req.op = "addPid" => pc[c] \in {"add", "retry", "replay"}
      /\ pipe[c].req.op = "closeSession" => pc[c] = "close"
  BY <1>2 DEF GrantInv, RequestsOfTasks, TaskIsInOrder, Open
<1>9. QED BY <1>2, <1>5, <1>6, <1>7, <1>8

\* No recovery but the handled one is disturbed.
LEMMA OthersReplay ==
  ASSUME Base, GrantInv, UNCHANGED <<taskVars, uiVars>>, NEW c \in Client, Handle(c),
         NEW s \in SessionId, NEW p \in Pid, Pending(s, p)
  PROVE  Pending(s, p)' \/ (c.sid = s /\ Open(c) /\ pc[c] = "replay" /\ pipe[c].req.pid = p)
<1>1. UNCHANGED <<pc, todo>>
  BY DEF taskVars
<1>2. PICK d \in Client : d.sid = s /\ Replaying(d, p)
  BY DEF Pending
<1>3. CASE d # c
  BY <1>1, <1>2, <1>3, HandlerReplies DEF Pending, Replaying, Open
<1>4. CASE d = c
  <2>1. pipe[c].at = "accepted"
    BY HandlerReplies
  <2>2. pc[c] = "replay" /\ (p \in todo[c] \/ pipe[c].req.pid = p) /\ Open(c)
    BY <1>2, <1>4, <2>1 DEF Replaying, Open, Replied
  <2>3. p \in todo[c] => Replaying(c, p)'
    BY <1>1, <2>2 DEF Replaying
  <2>4. QED BY <1>2, <1>4, <2>2, <2>3 DEF Pending
<1>5. QED BY <1>3, <1>4

\* What addPid routes, the session lists.
LEMMA AddKeepsClose ==
  ASSUME Base, OwnPids, GrantInv, CloseInv, UNCHANGED <<taskVars, uiVars>>,
         NEW c \in Client, DoAddPid(c)
  PROVE  CloseInv'
<1>1. /\ pidToProxy \in [Pid -> RouteEntry \cup {None}]
      /\ sessions \in [SessionId -> SessionState \cup {None}]
      /\ UNCHANGED <<pc, todo, tracked, orderly>>
      /\ UNCHANGED <<born, service>>
      /\ Handle(c)
  BY DEF Base, RouteInvariant, TypeOK, taskVars, uiVars, DoAddPid, osVars, Handle
<1>2. PICK t \in SessionId, q \in Pid, x \in Nat :
        /\ t = pipe[c].req.sid /\ q = pipe[c].req.pid /\ x = pipe[c].req.created
        /\ pipe[c].req.op = "addPid"
  <2>1. Open(c)
    BY DEF DoAddPid, Handling, Open
  <2>2. pipe[c].req.op = "addPid"
    BY DEF DoAddPid, Handling
  <2>3. clock \in Nat
    BY DEF Base, RouteInvariant, TypeOK
  <2>4. QED BY <2>1, <2>2, <2>3, AddedPid
<1>3. /\ t = c.sid /\ pc[c] \in {"add", "retry", "replay"} /\ pc[c] \in Running
      /\ pipe'[c].at = "replied" /\ pipe[c].at = "accepted"
      /\ \A d \in Client : d # c => pipe'[d] = pipe[d]
  BY <1>1, <1>2, HandlerReplies
<1>4. IsTracked(t, q)
  BY <1>2, <1>3 DEF GrantInv, RequestsOfTasks, TaskIsInOrder, Open
<1>5. \/ sessions[t] = None /\ UNCHANGED <<sessions, pidToProxy>>
      \/ /\ sessions[t] # None
         /\ \E e : pidToProxy' = [pidToProxy EXCEPT ![q] = e]
         /\ sessions' = [sessions EXCEPT ![t].pids = @ \cup {q}]
  BY <1>2 DEF DoAddPid
<1>6. ASSUME NEW p \in Pid, p # q PROVE pidToProxy'[p] = pidToProxy[p]
  BY <1>1, <1>5, <1>6
<1>7. ASSUME NEW s \in SessionId, s # t PROVE sessions'[s] = sessions[s]
  BY <1>1, <1>5, <1>7
<1>8. sessions[t] # None =>
        /\ sessions'[t] # None
        /\ \A p : p \in sessions[t].pids \/ p = q => p \in sessions'[t].pids
  <2>1. SUFFICES ASSUME sessions[t] # None
                 PROVE  /\ sessions'[t] # None
                        /\ \A p : p \in sessions[t].pids \/ p = q => p \in sessions'[t].pids
    OBVIOUS
  <2>2. sessions[t] \in SessionState
    BY <1>1, <2>1
  <2>3. PICK y : y = [sessions[t] EXCEPT !.pids = @ \cup {q}]
    OBVIOUS
  <2>4. y \in SessionState /\ y.pids = sessions[t].pids \cup {q}
    BY <2>2, <2>3 DEF SessionState
  <2>5. y # None
    BY <2>4, NoneAssumption
  <2>6. sessions'[t] = y
    BY <1>1, <1>5, <2>1, <2>3
  <2>7. QED BY <2>4, <2>5, <2>6
<1>9. ASSUME NEW d \in Client, orderly[d.sid], pc[d] \in Running, pc[d] \in {"create", "close"}
      PROVE  d.sid # t /\ d # c
  BY <1>3, <1>9 DEF CloseInv, OneAtATime
<1>10. OneAtATime'
  BY <1>1 DEF CloseInv, OneAtATime
<1>11. ASSUME NEW s \in SessionId, NEW p \in Pid, orderly[s], service # "unrouted",
              SameProcess(s, p), RouteOf(p)' # None
       PROVE  sessions'[s] # None /\ (p \in sessions'[s].pids \/ Pending(s, p)')
  <2>1. CASE p = q
    <3>1. s = t
      BY <1>4, <1>11, <2>1, OneOwner DEF GrantInv, SameProcess, IsTracked
    <3>2. CASE sessions[t] # None
      BY <1>8, <2>1, <3>1, <3>2
    <3>3. CASE sessions[t] = None
      <4>1. RouteOf(p) # None
        BY <1>1, <1>5, <1>11, <3>3 DEF RouteOf, ValidCreationTime
      <4>2. QED BY <1>11, <3>1, <3>3, <4>1 DEF CloseInv, RoutesAreListed
    <3>4. QED BY <3>2, <3>3
  <2>2. CASE p # q
    <3>1. RouteOf(p) # None
      BY <1>1, <1>6, <1>11, <2>2 DEF RouteOf, ValidCreationTime
    <3>2. sessions[s] # None /\ (p \in sessions[s].pids \/ Pending(s, p))
      BY <1>11, <3>1 DEF CloseInv, RoutesAreListed
    <3>3. sessions'[s] # None /\ (p \in sessions[s].pids => p \in sessions'[s].pids)
      BY <1>7, <1>8, <3>2
    <3>4. Pending(s, p) => Pending(s, p)'
      BY <1>1, <1>2, <2>2, OthersReplay
    <3>5. QED BY <3>2, <3>3, <3>4
  <2>3. QED BY <2>1, <2>2
<1>12. RoutesAreListed'
  BY <1>1, <1>11 DEF RoutesAreListed, SameProcess
<1>13. FirstFindsNothing'
  <2>1. ASSUME NEW d \in Client, pc[d] = "create", orderly[d.sid], NEW p \in Pid,
               IsTracked(d.sid, p)
        PROVE  pidToProxy'[p] = None
    <3>1. d.sid # t /\ d.sid \in SessionId
      BY <1>9, <2>1, TaskFields DEF Running
    <3>2. p # q
      BY <1>4, <2>1, <3>1, OneOwner DEF GrantInv
    <3>3. QED BY <1>6, <2>1, <3>2 DEF CloseInv, FirstFindsNothing
  <2>2. QED BY <1>1, <2>1 DEF FirstFindsNothing, IsTracked
<1>14. ASSUME NEW d \in Client, pc[d] = "close", orderly[d.sid]
       PROVE  d # c /\ pipe'[d] = pipe[d] /\ sessions'[d.sid] = sessions[d.sid] /\ d.sid # t
  BY <1>3, <1>7, <1>9, <1>14, TaskFields DEF Running
<1>15. LateCloseFindsNothing'
  BY <1>1, <1>14 DEF CloseInv, LateCloseFindsNothing
<1>16. ASSUME NEW d \in Client, pc[d] = "close", pipe'[d] = Replied("ok"), orderly[d.sid]
       PROVE  /\ sessions'[d.sid] = None
              /\ \A p \in Pid : SameProcess(d.sid, p) => RouteOf(p)' = None
  <2>1. /\ sessions[d.sid] = None
        /\ \A p \in Pid : SameProcess(d.sid, p) => RouteOf(p) = None
    BY <1>14, <1>16 DEF CloseInv, SequentialCloseIsComplete
  <2>2. ASSUME NEW p \in Pid, SameProcess(d.sid, p) PROVE p # q
    BY <1>4, <1>14, <1>16, <2>2, OneOwner, TaskFields DEF GrantInv, SameProcess, IsTracked
  <2>3. QED BY <1>1, <1>6, <1>14, <1>16, <2>1, <2>2 DEF RouteOf, ValidCreationTime
<1>17. SequentialCloseIsComplete'
  BY <1>1, <1>16 DEF SequentialCloseIsComplete, SameProcess
<1>18. QED BY <1>10, <1>12, <1>13, <1>15, <1>17 DEF CloseInv

\* A session that createSession replaces leaves its routes to a recovery.
LEMMA CreateKeepsClose ==
  ASSUME Base, OwnPids, GrantInv, CloseInv, UNCHANGED <<taskVars, uiVars>>,
         NEW c \in Client, DoCreateSession(c)
  PROVE  CloseInv'
<1>1. /\ sessions \in [SessionId -> SessionState \cup {None}]
      /\ UNCHANGED <<pc, todo, tracked, orderly>>
      /\ UNCHANGED <<born, service, pidToProxy>>
      /\ Handle(c) /\ pipe[c].req.op = "createSession"
  BY DEF Base, RouteInvariant, TypeOK, taskVars, uiVars, DoCreateSession, osVars, routerVars,
     Handle, Handling
<1>2. /\ pipe[c].req.sid = c.sid /\ pc[c] \in {"create", "recreate"} /\ pc[c] \in Running
      /\ pipe'[c].at = "replied" /\ pipe[c].at = "accepted"
      /\ \A d \in Client : d # c => pipe'[d] = pipe[d]
  BY <1>1, HandlerReplies
<1>3. \/ sessions' = sessions
      \/ /\ pipe' = [pipe EXCEPT ![c] = Replied("ok")]
         /\ \E e, h : /\ h \in Nat /\ e \in Endpoint
                      /\ sessions' = [sessions EXCEPT ![c.sid] = FreshSession(e, h)]
  <2>1. /\ DOMAIN proxyServers \subseteq Nat
        /\ pipe[c].req.endpoint \in Endpoint
    BY <1>1, <1>2, SentRequest, RequestKinds DEF Base, RouteInvariant, TypeOK, CreateRequest
  <2>2. QED BY <1>2, <2>1 DEF DoCreateSession, Reply
<1>4. \A e \in Endpoint, h \in Nat : FreshSession(e, h) # None
  <2>1. \A e \in Endpoint, h \in Nat : FreshSession(e, h) \in SessionState
    BY DEF FreshSession, SessionState
  <2>2. QED BY <2>1, NoneAssumption
<1>5. ASSUME NEW s \in SessionId, s # c.sid PROVE sessions'[s] = sessions[s]
  BY <1>1, <1>3, <1>5
<1>6. ASSUME NEW d \in Client, orderly[d.sid], pc[d] = "close"
      PROVE  d.sid # c.sid /\ d # c
  BY <1>2, <1>6 DEF CloseInv, OneAtATime, Running
<1>7. OneAtATime'
  BY <1>1 DEF CloseInv, OneAtATime
<1>8. ASSUME NEW s \in SessionId, NEW p \in Pid, orderly[s], service # "unrouted",
             SameProcess(s, p), RouteOf(p) # None
      PROVE  sessions'[s] # None /\ (p \in sessions'[s].pids \/ Pending(s, p)')
  <2>1. sessions[s] # None /\ (p \in sessions[s].pids \/ Pending(s, p))
    BY <1>8 DEF CloseInv, RoutesAreListed
  <2>2. Pending(s, p) => Pending(s, p)'
    BY <1>1, <1>2, OthersReplay
  <2>3. CASE sessions'[s] = sessions[s]
    BY <2>1, <2>2, <2>3
  <2>4. CASE sessions'[s] # sessions[s]
    <3>1. s = c.sid /\ pipe' = [pipe EXCEPT ![c] = Replied("ok")]
      BY <1>3, <1>5, <2>4
    <3>2. sessions'[s] # None
      BY <1>1, <1>3, <1>4, <2>4, <3>1
    <3>3. pc[c] # "create"
      <4>1. pidToProxy[p] # None
        BY <1>8 DEF RouteOf
      <4>2. QED BY <1>8, <3>1, <4>1 DEF CloseInv, FirstFindsNothing, SameProcess, IsTracked
    <3>4. pipe'[c] = Replied("ok")
      BY <3>1 DEF Base, RouteInvariant, TypeOK
    <3>5. Pending(s, p)'
      BY <1>1, <1>2, <3>1, <3>3, <3>4 DEF Pending, Replaying
    <3>6. QED BY <3>2, <3>5
  <2>5. QED BY <2>3, <2>4
<1>9. RoutesAreListed'
  BY <1>1, <1>8 DEF RoutesAreListed, SameProcess, RouteOf, ValidCreationTime
<1>10. FirstFindsNothing'
  BY <1>1 DEF CloseInv, FirstFindsNothing, IsTracked
<1>11. ASSUME NEW d \in Client, pc[d] = "close", orderly[d.sid]
       PROVE  pipe'[d] = pipe[d] /\ sessions'[d.sid] = sessions[d.sid]
  BY <1>2, <1>5, <1>6, <1>11, TaskFields
<1>12. LateCloseFindsNothing'
  BY <1>1, <1>11 DEF CloseInv, LateCloseFindsNothing
<1>13. SequentialCloseIsComplete'
  BY <1>1, <1>11 DEF CloseInv, SequentialCloseIsComplete, SameProcess, RouteOf, ValidCreationTime
<1>14. QED BY <1>7, <1>9, <1>10, <1>12, <1>13 DEF CloseInv

\* closeSession takes away what the session lists, which is all it has routed.
LEMMA CloseKeepsClose ==
  ASSUME Base, OwnPids, GrantInv, CloseInv, UNCHANGED <<taskVars, uiVars>>,
         NEW c \in Client, DoCloseSession(c)
  PROVE  CloseInv'
<1>1. /\ sessions \in [SessionId -> SessionState \cup {None}]
      /\ UNCHANGED <<pc, todo, tracked, orderly>>
      /\ UNCHANGED <<born, service>> /\ c.sid \in SessionId
      /\ Handle(c) /\ pipe[c].req.op = "closeSession"
  BY TaskFields DEF Base, RouteInvariant, TypeOK, taskVars, uiVars, DoCloseSession, osVars,
     Handle, Handling
<1>2. /\ pipe[c].req.sid = c.sid /\ pc[c] = "close" /\ pc[c] \in Running
      /\ pipe'[c].at = "replied" /\ pipe[c].at = "accepted"
      /\ \A d \in Client : d # c => pipe'[d] = pipe[d]
  BY <1>1, HandlerReplies
<1>3. \/ /\ sessions[c.sid] = None /\ pipe' = [pipe EXCEPT ![c] = Replied("session not found")]
         /\ UNCHANGED <<sessions, pidToProxy>>
      \/ /\ sessions[c.sid] # None
         /\ pidToProxy' = Without(pidToProxy, sessions[c.sid].pids)
         /\ sessions' = [sessions EXCEPT ![c.sid] = None]
  BY <1>2 DEF DoCloseSession, Reply
<1>4. ASSUME NEW p \in Pid
      PROVE  /\ pidToProxy'[p] \in {pidToProxy[p], None}
             /\ RouteOf(p)' \in {RouteOf(p), None}
  BY <1>1, <1>3 DEF Without, RouteOf, ValidCreationTime
<1>5. ASSUME NEW s \in SessionId
      PROVE  sessions'[s] \in {sessions[s], None} /\ (s # c.sid => sessions'[s] = sessions[s])
  BY <1>1, <1>3
<1>6. ASSUME NEW d \in Client, d.sid = c.sid, orderly[d.sid], pc[d] \in Running
      PROVE  d = c
  BY <1>2, <1>6 DEF CloseInv, OneAtATime
<1>7. OneAtATime'
  BY <1>1 DEF CloseInv, OneAtATime
<1>8. ASSUME orderly[c.sid], NEW p \in Pid, service # "unrouted", SameProcess(c.sid, p)
      PROVE  RouteOf(p)' = None
  <2>1. SUFFICES ASSUME RouteOf(p) # None PROVE RouteOf(p)' = None
    BY <1>4
  <2>2. sessions[c.sid] # None /\ (p \in sessions[c.sid].pids \/ Pending(c.sid, p))
    BY <1>1, <1>8, <2>1 DEF CloseInv, RoutesAreListed
  <2>3. ~Pending(c.sid, p)
    BY <1>2, <1>6, <1>8 DEF Pending, Replaying, Running
  <2>4. pidToProxy'[p] = None
    BY <1>3, <2>2, <2>3 DEF Without
  <2>5. QED BY <2>4 DEF RouteOf
<1>9. ASSUME NEW s \in SessionId, NEW p \in Pid, orderly[s], service # "unrouted",
             SameProcess(s, p), RouteOf(p)' # None
      PROVE  sessions'[s] # None /\ (p \in sessions'[s].pids \/ Pending(s, p)')
  <2>1. s # c.sid
    BY <1>8, <1>9
  <2>2. RouteOf(p) # None
    BY <1>4, <1>9
  <2>3. sessions[s] # None /\ (p \in sessions[s].pids \/ Pending(s, p))
    BY <1>9, <2>2 DEF CloseInv, RoutesAreListed
  <2>4. Pending(s, p) => Pending(s, p)'
    BY <1>1, <2>1, OthersReplay
  <2>5. QED BY <1>5, <2>1, <2>3, <2>4
<1>10. RoutesAreListed'
  BY <1>1, <1>9 DEF RoutesAreListed, SameProcess
<1>11. FirstFindsNothing'
  BY <1>1, <1>4 DEF CloseInv, FirstFindsNothing, IsTracked
<1>12. LateCloseFindsNothing'
  <2>1. ASSUME NEW d \in Client, service = "unrouted", orderly[d.sid], pc[d] = "close",
               pipe'[d].at = "accepted"
        PROVE  sessions'[d.sid] = None
    <3>1. d # c /\ pipe'[d] = pipe[d] /\ d.sid \in SessionId
      BY <1>2, <2>1, TaskFields
    <3>2. QED BY <1>5, <2>1, <3>1 DEF CloseInv, LateCloseFindsNothing
  <2>2. QED BY <1>1, <2>1 DEF LateCloseFindsNothing
<1>13. ASSUME NEW d \in Client, pc[d] = "close", pipe'[d] = Replied("ok"), orderly[d.sid]
       PROVE  /\ sessions'[d.sid] = None
              /\ \A p \in Pid : SameProcess(d.sid, p) => RouteOf(p)' = None
  <2>1. CASE d # c
    <3>1. pipe[d] = Replied("ok") /\ d.sid \in SessionId
      BY <1>2, <1>13, <2>1, TaskFields
    <3>2. /\ sessions[d.sid] = None
          /\ \A p \in Pid : SameProcess(d.sid, p) => RouteOf(p) = None
      BY <1>13, <3>1 DEF CloseInv, SequentialCloseIsComplete
    <3>3. QED BY <1>4, <1>5, <3>1, <3>2
  <2>2. CASE d = c
    <3>1. Replied("ok") # Replied("session not found")
      BY DEF Replied
    <3>2. pipe \in [Client -> PipeState]
      BY DEF Base, RouteInvariant, TypeOK
    <3>3. /\ sessions[c.sid] # None
          /\ sessions' = [sessions EXCEPT ![c.sid] = None]
      BY <1>3, <1>13, <2>2, <3>1, <3>2
    <3>4. service # "unrouted"
      BY <1>2, <1>13, <2>2, <3>3 DEF CloseInv, LateCloseFindsNothing
    <3>5. QED BY <1>1, <1>8, <1>13, <2>2, <3>3, <3>4
  <2>3. QED BY <2>1, <2>2
<1>14. SequentialCloseIsComplete'
  BY <1>1, <1>13 DEF SequentialCloseIsComplete, SameProcess
<1>15. QED BY <1>7, <1>10, <1>11, <1>12, <1>14 DEF CloseInv

\* The service itself, and connections that are accepted or given up.
LEMMA ServiceKeepsClose ==
  ASSUME Base, OwnPids, GrantInv, CloseInv, UNCHANGED <<taskVars, uiVars>>,
         Service \/ \E c \in Client : Unavailable(c) \/ Accept(c)
  PROVE  CloseInv'
<1>1. /\ UNCHANGED <<pc, todo, tracked, orderly>> /\ UNCHANGED born
      /\ pipe \in [Client -> PipeState]
  BY DEF Base, RouteInvariant, TypeOK, taskVars, uiVars, Service, ServiceStart, Crash, Gone,
     Dispose, DisposeCancel, DisposeSessions, DisposeClear, ServiceExit, Sweep, Unavailable,
     Accept, osVars
<1>2. /\ \/ sessions' = sessions
         \/ sessions' = [s \in SessionId |-> None]
      /\ \/ pidToProxy' = pidToProxy
         \/ \E P : pidToProxy' = Without(pidToProxy, P)
         \/ pidToProxy' = [p \in Pid |-> None]
      /\ \/ sessions' = sessions
         \/ service' = "unrouted"
         \/ pidToProxy' = [p \in Pid |-> None]
      /\ service' = "unrouted" => service = "unrouted" \/ sessions' = [s \in SessionId |-> None]
      /\ service = "unrouted" => service' = service \/ pidToProxy' = [p \in Pid |-> None]
  BY DEF Service, ServiceStart, Crash, Gone, Dispose, DisposeCancel, DisposeSessions,
     DisposeClear, ServiceExit, Sweep, Unavailable, Accept, serverVars, routerVars
<1>3. ASSUME NEW p \in Pid
      PROVE  /\ pidToProxy'[p] \in {pidToProxy[p], None}
             /\ RouteOf(p)' \in {RouteOf(p), None}
  BY <1>1, <1>2 DEF Without, RouteOf, ValidCreationTime
<1>4. ASSUME NEW s \in SessionId PROVE sessions'[s] \in {sessions[s], None}
  BY <1>2
<1>5. ASSUME NEW c \in Client
      PROVE  \/ pipe'[c] = pipe[c]
             \/ /\ Open(c) /\ service = "running" /\ service' = "running"
                /\ pipe'[c] = Accepted(pipe[c].req)
             \/ Open(c) /\ pipe'[c] = Replied("unavailable")
  <2>1. CASE ServiceStart \/ DisposeCancel \/ DisposeSessions \/ DisposeClear \/ Sweep
    BY <2>1 DEF ServiceStart, DisposeCancel, DisposeSessions, DisposeClear, Sweep
  <2>2. CASE Gone
    BY <2>2 DEF Gone, Open
  <2>3. ASSUME NEW d \in Client, Unavailable(d) \/ Accept(d)
        PROVE  \/ pipe'[c] = pipe[c]
               \/ /\ Open(c) /\ service = "running" /\ service' = "running"
                  /\ pipe'[c] = Accepted(pipe[c].req)
               \/ Open(c) /\ pipe'[c] = Replied("unavailable")
    BY <1>1, <2>3 DEF Unavailable, Accept, Open, serverVars
  <2>4. QED BY <2>1, <2>2, <2>3 DEF Service, Crash, Dispose, ServiceExit
<1>6. OneAtATime'
  BY <1>1 DEF CloseInv, OneAtATime
<1>7. ASSUME NEW s \in SessionId, NEW p \in Pid, orderly[s], service' # "unrouted",
             SameProcess(s, p), RouteOf(p)' # None
      PROVE  sessions'[s] # None /\ (p \in sessions'[s].pids \/ Pending(s, p)')
  <2>1. RouteOf(p) # None
    BY <1>3, <1>7
  <2>2. pidToProxy' # [x \in Pid |-> None]
    BY <1>7 DEF RouteOf
  <2>3. service # "unrouted" /\ sessions' = sessions
    BY <1>2, <1>7, <2>2
  <2>4. sessions[s] # None /\ (p \in sessions[s].pids \/ Pending(s, p))
    BY <1>7, <2>1, <2>3 DEF CloseInv, RoutesAreListed
  <2>5. ASSUME NEW c \in Client, Replaying(c, p) PROVE Replaying(c, p)'
    <3>1. CASE pipe'[c] = pipe[c]
      BY <1>1, <2>5, <3>1 DEF Replaying, Open
    <3>2. CASE Open(c)
      <4>1. pc[c] = "replay"
        BY <2>5, <3>2 DEF Replaying, Open, Replied
      <4>2. /\ pipe[c] # Replied("unavailable")
            /\ p \in todo[c] \/ pipe[c].req.pid = p
        BY <2>5, <3>2, <4>1 DEF Replaying, Open, Replied
      <4>3. pipe'[c] = Accepted(pipe[c].req) => Open(c)' /\ pipe'[c].req = pipe[c].req
        BY DEF Open, Accepted
      <4>4. QED BY <1>1, <1>5, <3>2, <4>1, <4>2, <4>3, <3>1 DEF Replaying
    <3>3. QED BY <1>5, <3>1, <3>2
  <2>6. QED BY <2>3, <2>4, <2>5 DEF Pending
<1>8. RoutesAreListed'
  BY <1>1, <1>7 DEF RoutesAreListed, SameProcess
<1>9. FirstFindsNothing'
  BY <1>1, <1>3 DEF CloseInv, FirstFindsNothing, IsTracked
<1>10. LateCloseFindsNothing'
  <2>1. ASSUME NEW c \in Client, service' = "unrouted", orderly[c.sid], pc[c] = "close",
               pipe'[c].at = "accepted"
        PROVE  sessions'[c.sid] = None
    <3>1. c.sid \in SessionId
      BY TaskFields
    <3>2. CASE sessions' = [s \in SessionId |-> None]
      BY <3>1, <3>2
    <3>3. CASE service = "unrouted"
      <4>1. pipe'[c] = pipe[c]
        BY <1>5, <2>1, <3>3 DEF Replied
      <4>2. QED BY <1>4, <2>1, <3>1, <3>3, <4>1 DEF CloseInv, LateCloseFindsNothing
    <3>4. QED BY <1>2, <2>1, <3>2, <3>3
  <2>2. QED BY <1>1, <2>1 DEF LateCloseFindsNothing
<1>11. ASSUME NEW c \in Client, pc[c] = "close", pipe'[c] = Replied("ok"), orderly[c.sid]
       PROVE  /\ sessions'[c.sid] = None
              /\ \A p \in Pid : SameProcess(c.sid, p) => RouteOf(p)' = None
  <2>1. pipe[c] = Replied("ok") /\ c.sid \in SessionId
    <3>1. /\ Replied("ok") # Replied("unavailable")
          /\ \A r : Replied("ok") # Accepted(r)
      BY DEF Replied, Accepted
    <3>2. QED BY <1>5, <1>11, <3>1, TaskFields
  <2>2. /\ sessions[c.sid] = None
        /\ \A p \in Pid : SameProcess(c.sid, p) => RouteOf(p) = None
    BY <1>11, <2>1 DEF CloseInv, SequentialCloseIsComplete
  <2>3. QED BY <1>3, <1>4, <2>1, <2>2
<1>12. SequentialCloseIsComplete'
  BY <1>1, <1>11 DEF SequentialCloseIsComplete, SameProcess
<1>13. QED BY <1>6, <1>8, <1>9, <1>10, <1>12 DEF CloseInv

\* Every step of the composed system keeps the invariant.
LEMMA CloseStep ==
  ASSUME Base, Base', OwnPids, GrantInv, CloseInv, [IpcNext]_ipcVars
  PROVE  CloseInv'
<1>1. CASE \E p \in Pid : (ProcessStart(p) \/ ProcessExit(p)) /\ UNCHANGED <<taskVars, uiVars>>
  <2>1. UNCHANGED <<pc, pipe, todo, orderly, sessions, pidToProxy, service, tracked>>
    BY <1>1 DEF ProcessStart, ProcessExit, taskVars, uiVars
  <2>2. QED BY <2>1, SystemKeepsClose DEF IsTracked
<1>2. CASE Server
  <2>1. UNCHANGED <<taskVars, uiVars>>
    BY <1>2 DEF Server
  <2>2. ASSUME NEW c \in Client PROVE ~DoRemovePid(c)
    BY DEF GrantInv, RequestsOfTasks, TaskIsInOrder, DoRemovePid, Handling, Open
  <2>3. QED BY <1>2, <2>1, <2>2, ServiceKeepsClose, AddKeepsClose, CreateKeepsClose,
               CloseKeepsClose DEF Server, Handle
<1>3. ASSUME NEW s \in SessionId,
             StopSession(s) \/ \E p \in Pid : OnExited(s, p) \/ Kill(s, p)
      PROVE  CloseInv'
  <2>1. UNCHANGED <<pc, pipe, todo, orderly, sessions, pidToProxy, service>>
    BY <1>3 DEF StopSession, OnExited, Kill, ProcessExit, vars, taskVars
  <2>2. ASSUME NEW t \in SessionId, NEW p \in Pid, IsTracked(t, p)' PROVE IsTracked(t, p)
    <3>1. CASE StopSession(s)
      BY <2>2, <3>1 DEF StopSession, IsTracked
    <3>2. ASSUME NEW q \in Pid, OnExited(s, q) \/ Kill(s, q) PROVE IsTracked(t, p)
      <4>1. q \in Live(s) /\ \E e : tracked' = [tracked EXCEPT ![s][q] = e]
        BY <3>2 DEF OnExited, Kill, MarkProcessExited
      <4>2. tracked \in [SessionId -> [Pid -> TrackedProcess \cup {None}]]
        BY DEF Base, TasksInv, IpcTypeOK
      <4>3. tracked'[t][p] = tracked[t][p] \/ (s = t /\ p = q)
        BY <4>1, <4>2
      <4>4. QED BY <2>2, <4>1, <4>3 DEF IsTracked, Live
    <3>3. QED BY <1>3, <3>1, <3>2
  <2>3. QED BY <2>1, <2>2, SystemKeepsClose
<1>4. CASE UNCHANGED ipcVars
  <2>1. UNCHANGED <<pc, pipe, todo, orderly, sessions, pidToProxy, service, tracked>>
    BY <1>4 DEF ipcVars, vars, taskVars, uiVars
  <2>2. QED BY <2>1, SystemKeepsClose DEF IsTracked
<1>5. QED BY <1>1, <1>2, <1>3, <1>4, NewTaskKeepsClose, TaskStepKeepsClose DEF IpcNext

\* Nothing is under way at first.
LEMMA CloseInit == IpcInit => CloseInv
<1>1. IpcInit => OneAtATime /\ FirstFindsNothing /\ LateCloseFindsNothing
  BY DEF IpcInit, Init, OneAtATime, FirstFindsNothing, LateCloseFindsNothing, Running
<1>2. IpcInit => RoutesAreListed /\ SequentialCloseIsComplete
  BY DEF IpcInit, Init, RoutesAreListed, SequentialCloseIsComplete, RouteOf
<1>3. QED BY <1>1, <1>2 DEF CloseInv

\* When the tasks of a session come one after the other, the closeSession that
\* succeeds leaves no session and no route of its processes behind, whatever
\* was recovered before and wherever Dispose has got to, provided that no two
\* sessions track the same PID.
THEOREM SequentialClosesAreComplete ==
  ASSUME OwnPids PROVE IpcSpec => []SequentialCloseIsComplete
<1>1. ASSUME Base, Base', GrantInv, CloseInv, [IpcNext]_ipcVars PROVE CloseInv'
  BY <1>1, CloseStep
<1>2. IpcSpec => []Base
  BY IpcInvariance DEF Base
<1>3. IpcSpec => []CloseInv
  BY <1>1, <1>2, CloseInit, GrantInvariance, PTL DEF IpcSpec
<1>4. CloseInv => SequentialCloseIsComplete
  BY DEF CloseInv
<1>5. QED BY <1>3, <1>4, PTL

=============================================================================
