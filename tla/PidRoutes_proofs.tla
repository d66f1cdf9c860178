-------------------------- MODULE PidRoutes_proofs --------------------------
(***************************************************************************)
(* Proofs about PidRoutes, for any number of clients, sessions, PIDs,      *)
(* endpoints and configurations.                                           *)
(***************************************************************************)
EXTENDS PidRoutes, TLAPS

USE ConfigsAssumption, MaxTimeAssumption, NoneAssumption

LEMMA SentRequest ==
  ASSUME TypeOK, NEW c \in Client, pipe[c].at \in {"sent", "accepted"}
  PROVE  pipe[c].req \in Request
<1>1. pipe[c] \in PipeState /\ pipe[c].at # "idle" /\ pipe[c].at # "replied"
  BY DEF TypeOK
<1>2. pipe[c] \in [at: {"sent", "accepted"}, req: Request]
  BY <1>1 DEF PipeState, Idle
<1>3. QED BY <1>2

LEMMA RequestKinds ==
  ASSUME NEW r \in Request
  PROVE  /\ r.op = "createSession" => r \in CreateRequest
         /\ r.op = "addPid" => r \in AddRequest
         /\ r.op = "removePid" => r \in RemoveRequest
         /\ r.op = "closeSession" => r \in CloseRequest
BY DEF Request, CreateRequest, AddRequest, RemoveRequest, CloseRequest

LEMMA PipeStates ==
  ASSUME NEW r \in Request, NEW x \in Result
  PROVE  /\ Sent(r) \in PipeState
         /\ Accepted(r) \in PipeState
         /\ Replied(x) \in PipeState
         /\ Idle \in PipeState
BY DEF Sent, Accepted, Replied, PipeState

LEMMA SentTime ==
  ASSUME TypeOK, NEW c \in Client, pipe[c].at \in {"sent", "accepted"},
         pipe[c].req.op = "addPid"
  PROVE  pipe[c].req.created \in Nat
BY SentRequest, RequestKinds DEF AddRequest

LEMMA OpenSession ==
  ASSUME TypeOK, NEW s \in SessionId, sessions[s] # None
  PROVE  sessions[s] \in SessionState
BY DEF TypeOK

LEMMA TypeInit == Init => TypeOK
BY DEF Init, TypeOK, PipeState


\* The table operations keep the table's type.
LEMMA WithoutType ==
  ASSUME TypeOK, NEW P
  PROVE  Without(pidToProxy, P) \in [Pid -> RouteEntry \cup {None}]
BY DEF TypeOK, Without

\* What a handler knows of the request it handles.
LEMMA HandlingRequest ==
  ASSUME TypeOK, NEW c \in Client, NEW op, Handling(c, op)
  PROVE  /\ pipe[c].req \in Request
         /\ pipe[c].req.op = op
BY SentRequest DEF Handling

LEMMA ReplyType ==
  ASSUME TypeOK, NEW c \in Client, NEW x \in Result, Reply(c, x)
  PROVE  pipe' \in [Client -> PipeState]
BY PipeStates DEF TypeOK, Reply, Replied, PipeState

LEMMA GoneType ==
  ASSUME TypeOK, Gone
  PROVE  TypeOK'
<1>1. Replied("unavailable") \in PipeState
  BY DEF Replied, PipeState, Result
<1>2. pipe' \in [Client -> PipeState]
  BY <1>1 DEF TypeOK, Gone
<1>3. proxyServers' \in Seq(Endpoint)
  BY DEF Gone
<1>4. /\ sessions' \in [SessionId -> SessionState \cup {None}]
      /\ pidToProxy' \in [Pid -> RouteEntry \cup {None}]
  BY DEF Gone
<1>5. QED BY <1>2, <1>3, <1>4 DEF TypeOK, Gone, osVars

LEMMA TypeStep == TypeOK /\ [Next]_vars => TypeOK'
<1> SUFFICES ASSUME TypeOK, [Next]_vars PROVE TypeOK'
  OBVIOUS
<1>1. ASSUME NEW p \in Pid, ProcessStart(p) \/ ProcessExit(p) PROVE TypeOK'
  <2>1. clock' \in Nat /\ born' \in [Pid -> Nat]
    BY <1>1 DEF TypeOK, ProcessStart, ProcessExit
  <2>2. granted' \subseteq granted
    BY <1>1 DEF ProcessStart, ProcessExit
  <2>3. UNCHANGED <<service, proxyServers, sessions, pidToProxy, pipe>>
    BY <1>1 DEF ProcessStart, ProcessExit
  <2>4. QED BY <2>1, <2>2, <2>3 DEF TypeOK
<1>2. CASE ServiceStart
  BY <1>2 DEF TypeOK, ServiceStart, osVars
<1>3. CASE Crash \/ ServiceExit
  BY <1>3, GoneType DEF Crash, ServiceExit
<1>4. CASE DisposeCancel \/ DisposeSessions \/ DisposeClear
  BY <1>4, WithoutType DEF TypeOK, DisposeCancel, DisposeSessions, DisposeClear,
     osVars, routerVars
<1>5. CASE Sweep
  BY <1>5, WithoutType DEF TypeOK, Sweep, osVars, serverVars
<1>6. ASSUME NEW c \in Client, Environment(c) PROVE TypeOK'
  <2>1. ASSUME NEW r \in Requests(1..clock), Send(c, r) PROVE pipe' \in [Client -> PipeState]
    <3>1. r \in Request
      BY DEF TypeOK, Requests, Request, AddRequest
    <3>2. Sent(r) \in PipeState
      BY <3>1 DEF Sent, PipeState
    <3>3. QED BY <2>1, <3>2 DEF TypeOK, Send
  <2>2. CASE Receive(c)
    <3>1. Idle \in PipeState
      BY DEF PipeState
    <3>2. QED
      BY <1>6, <2>2, <3>1
         DEF TypeOK, Receive, Environment, osVars, serverVars, routerVars
  <2>3. QED
    BY <1>6, <2>1, <2>2 DEF TypeOK, Environment, osVars, serverVars, routerVars
<1>7. ASSUME NEW c \in Client, Unavailable(c) PROVE TypeOK'
  <2>1. Replied("unavailable") \in PipeState
    BY DEF Replied, PipeState, Result
  <2>2. QED
    BY <1>7, <2>1 DEF TypeOK, Unavailable, osVars, serverVars, routerVars
<1>8. ASSUME NEW c \in Client, Accept(c) PROVE TypeOK'
  <2>1. Accepted(pipe[c].req) \in PipeState
    BY <1>8, SentRequest DEF Accept, Accepted, PipeState
  <2>2. QED
    BY <1>8, <2>1 DEF TypeOK, Accept, osVars, serverVars, routerVars
<1>9. ASSUME NEW c \in Client, DoCreateSession(c) PROVE TypeOK'
  <2>1. pipe[c].req \in CreateRequest
    BY <1>9, HandlingRequest, RequestKinds DEF DoCreateSession
  <2>2. pipe' \in [Client -> PipeState]
    BY <1>9, ReplyType DEF DoCreateSession, Result
  <2>3. ASSUME NEW h \in DOMAIN proxyServers
        PROVE FreshSession(pipe[c].req.endpoint, h) \in SessionState
    BY <2>1 DEF FreshSession, SessionState, CreateRequest, TypeOK
  <2>4. sessions' \in [SessionId -> SessionState \cup {None}]
    <3>1. CASE UNCHANGED sessions
      BY <3>1 DEF TypeOK
    <3>2. ASSUME NEW h \in DOMAIN proxyServers,
                 sessions' = [sessions EXCEPT ![pipe[c].req.sid] =
                                FreshSession(pipe[c].req.endpoint, h)]
          PROVE  sessions' \in [SessionId -> SessionState \cup {None}]
      BY <2>3, <3>2 DEF TypeOK
    <3>3. QED BY <1>9, <3>1, <3>2 DEF DoCreateSession
  <2>5. QED
    BY <1>9, <2>2, <2>4 DEF TypeOK, DoCreateSession, osVars, routerVars
<1>10. ASSUME NEW c \in Client, DoAddPid(c) PROVE TypeOK'
  <2> DEFINE r == pipe[c].req
             s == sessions[r.sid]
  <2>1. r \in AddRequest
    BY <1>10, HandlingRequest, RequestKinds DEF DoAddPid
  <2>2. pipe' \in [Client -> PipeState]
    BY <1>10, ReplyType DEF DoAddPid, Result
  <2>3. CASE s = None
    BY <1>10, <2>2, <2>3 DEF TypeOK, DoAddPid, osVars, CanAssociate
  <2>4. CASE s # None
    <3>1. s \in SessionState
      BY <2>1, <2>4, OpenSession DEF AddRequest
    <3>2. pidToProxy' \in [Pid -> RouteEntry \cup {None}]
      <4>1. [proxy |-> s.handle, created |-> r.created] \in RouteEntry
        BY <2>1, <3>1 DEF AddRequest, SessionState, RouteEntry
      <4>2. QED BY <1>10, <2>4, <4>1 DEF TypeOK, DoAddPid
    <3>3. sessions' \in [SessionId -> SessionState \cup {None}]
      <4>1. [s EXCEPT !.pids = @ \cup {r.pid}] \in SessionState
        BY <2>1, <3>1 DEF AddRequest, SessionState
      <4>2. QED BY <1>10, <2>1, <2>4, <4>1 DEF TypeOK, DoAddPid, AddRequest
    <3>4. granted' \subseteq Pid \X Nat \X Endpoint
      <4>1. <<r.pid, r.created, s.endpoint>> \in Pid \X Nat \X Endpoint
        BY <2>1, <3>1 DEF AddRequest, SessionState
      <4>2. QED BY <1>10, <2>4, <4>1 DEF TypeOK, DoAddPid
    <3>5. QED
      BY <1>10, <2>2, <3>2, <3>3, <3>4 DEF TypeOK, DoAddPid, osVars
  <2>5. QED BY <2>3, <2>4
<1>11. ASSUME NEW c \in Client, DoRemovePid(c) PROVE TypeOK'
  <2> DEFINE r == pipe[c].req
  <2>1. r \in RemoveRequest
    BY <1>11, HandlingRequest, RequestKinds DEF DoRemovePid
  <2>2. pipe' \in [Client -> PipeState]
    BY <1>11, ReplyType DEF DoRemovePid, Result
  <2>3. sessions' \in [SessionId -> SessionState \cup {None}]
    <3>1. CASE sessions[r.sid] = None
      BY <1>11, <3>1 DEF TypeOK, DoRemovePid
    <3>2. CASE sessions[r.sid] # None
      <4>1. [sessions[r.sid] EXCEPT !.pids = @ \ {r.pid}] \in SessionState
        BY <2>1, <3>2, OpenSession DEF RemoveRequest, SessionState
      <4>2. QED BY <1>11, <2>1, <3>2, <4>1 DEF TypeOK, DoRemovePid, RemoveRequest
    <3>3. QED BY <3>1, <3>2
  <2>4. pidToProxy' \in [Pid -> RouteEntry \cup {None}]
    BY <1>11 DEF TypeOK, DoRemovePid, Without
  <2>5. QED
    BY <1>11, <2>2, <2>3, <2>4 DEF TypeOK, DoRemovePid, osVars
<1>12. ASSUME NEW c \in Client, DoCloseSession(c) PROVE TypeOK'
  <2>1. pipe' \in [Client -> PipeState]
    BY <1>12, ReplyType DEF DoCloseSession, Result
  <2>2. pidToProxy' \in [Pid -> RouteEntry \cup {None}]
    BY <1>12 DEF TypeOK, DoCloseSession, Without
  <2>3. sessions' \in [SessionId -> SessionState \cup {None}]
    BY <1>12 DEF TypeOK, DoCloseSession
  <2>4. QED
    BY <1>12, <2>1, <2>2, <2>3 DEF TypeOK, DoCloseSession, osVars
<1>13. CASE UNCHANGED vars
  BY <1>13 DEF TypeOK, vars
<1>14. QED
  BY <1>1, <1>2, <1>3, <1>4, <1>5, <1>6, <1>7, <1>8, <1>9, <1>10, <1>11, <1>12, <1>13
     DEF Next, Service, Dispose, Handle

\* Type correctness of the service, the PID table and the pipe: every variable
\* of PidRoutes keeps its type in every behaviour.
THEOREM TypeCorrect == Spec => []TypeOK
<1>1. QED BY TypeInit, TypeStep, PTL DEF Spec

----------------------------------------------------------------------------
(* The inductive invariant.  Most steps add no route: they leave alone or   *)
(* remove table entries, and so cannot send a process anywhere new.         *)

NoNewRoute ==
  /\ UNCHANGED <<born, clock, proxyServers, granted>>
  /\ \A p \in Pid : pidToProxy'[p] \in {pidToProxy[p], None}

\* A session keeps its handle and its endpoint, or is closed.
NoNewSession ==
  \A s \in SessionId :
    \/ sessions'[s] = None
    \/ /\ sessions[s] # None
       /\ sessions'[s].handle = sessions[s].handle
       /\ sessions'[s].endpoint = sessions[s].endpoint

\* A client's request is one it had written before.
NoNewRequest ==
  \A c \in Client :
    pipe'[c].at \in {"sent", "accepted"} =>
      /\ pipe[c].at \in {"sent", "accepted"}
      /\ pipe'[c].req = pipe[c].req

LEMMA NoNewRouteKeeps ==
  ASSUME RouteInvariant, NoNewRoute
  PROVE  /\ RoutedAsGranted'
         /\ \A p \in Pid : pidToProxy'[p] # None =>
              /\ pidToProxy'[p].proxy \in DOMAIN proxyServers'
              /\ pidToProxy'[p].created <= clock'
BY DEF RouteInvariant, NoNewRoute, RoutedAsGranted, RouteOf, ValidCreationTime,
   ProxyIndexInRange, TimesPast

LEMMA NoNewSessionKeeps ==
  ASSUME RouteInvariant, NoNewRoute, NoNewSession
  PROVE  ProxyIndexInRange'
BY NoNewRouteKeeps DEF RouteInvariant, NoNewRoute, NoNewSession, ProxyIndexInRange

LEMMA NoNewRequestKeeps ==
  ASSUME RouteInvariant, NoNewRoute, NoNewRequest
  PROVE  TimesPast'
<1>1. \A c \in Client :
        pipe'[c].at \in {"sent", "accepted"} /\ pipe'[c].req.op = "addPid"
          => pipe'[c].req.created <= clock'
  BY DEF RouteInvariant, NoNewRoute, NoNewRequest, TimesPast
<1>2. \A p \in Pid : born'[p] <= clock'
  BY DEF RouteInvariant, NoNewRoute, TimesPast
<1>3. QED BY <1>1, <1>2, NoNewRouteKeeps DEF TimesPast

\* A handler ends its client's request and leaves the others' alone.
LEMMA ReplyKeepsRequests ==
  ASSUME TypeOK, NEW c \in Client, NEW x, Reply(c, x)
  PROVE  NoNewRequest
BY DEF TypeOK, Reply, Replied, NoNewRequest

LEMMA InvInit == Init => RouteInvariant
<1>1. Init => TimesPast /\ DownMeansEmpty /\ ProxyIndexInRange
  BY DEF Init, TimesPast, DownMeansEmpty, ProxyIndexInRange, Idle
<1>2. Init => RoutedAsGranted
  BY DEF Init, RoutedAsGranted, RouteOf, ValidCreationTime
<1>3. QED BY <1>1, <1>2, TypeInit DEF RouteInvariant

LEMMA InvStep == RouteInvariant /\ [Next]_vars => RouteInvariant'
<1> SUFFICES ASSUME RouteInvariant, [Next]_vars PROVE RouteInvariant'
  OBVIOUS
<1>t. TypeOK /\ TypeOK'
  BY TypeStep DEF RouteInvariant
<1>harmless. ASSUME NoNewRoute, NoNewSession, NoNewRequest, DownMeansEmpty'
             PROVE  RouteInvariant'
  BY <1>t, <1>harmless, NoNewRouteKeeps, NoNewSessionKeeps, NoNewRequestKeeps
     DEF RouteInvariant
<1>1. ASSUME NEW p \in Pid, ProcessStart(p) PROVE RouteInvariant'
  <2>1. ProxyIndexInRange' /\ DownMeansEmpty'
    BY <1>1 DEF ProcessStart, RouteInvariant, ProxyIndexInRange, DownMeansEmpty
  <2>2. TimesPast'
    <3>1. \A q \in Pid : born'[q] <= clock'
      BY <1>1, <1>t DEF ProcessStart, RouteInvariant, TimesPast, TypeOK
    <3>2. \A q \in Pid : pidToProxy'[q] # None => pidToProxy'[q].created <= clock'
      BY <1>1, <1>t DEF ProcessStart, RouteInvariant, TimesPast, TypeOK, RouteEntry
    <3>3. ASSUME NEW c \in Client, pipe[c].at \in {"sent", "accepted"},
                 pipe[c].req.op = "addPid"
          PROVE  pipe[c].req.created <= clock + 1
      <4>1. /\ pipe[c].req.created \in Nat /\ clock \in Nat
            /\ pipe[c].req.created <= clock
        BY <1>t, <3>3, SentTime DEF RouteInvariant, TimesPast, TypeOK
      <4>2. QED BY <4>1
    <3>4. QED BY <1>1, <3>1, <3>2, <3>3 DEF ProcessStart, TimesPast
  <2>3. \A q \in Pid : RouteOf(q)' # None => q # p
    BY <1>1, <1>t DEF ProcessStart, RouteInvariant, TimesPast, TypeOK, RouteEntry,
       RouteOf, ValidCreationTime
  <2>4. RoutedAsGranted'
    BY <1>1, <1>t, <2>3 DEF ProcessStart, RouteInvariant, RoutedAsGranted, RouteOf,
       ValidCreationTime, TypeOK
  <2>5. QED BY <1>t, <2>1, <2>2, <2>4 DEF RouteInvariant
<1>2. ASSUME NEW p \in Pid, ProcessExit(p) PROVE RouteInvariant'
  <2>1. ProxyIndexInRange' /\ DownMeansEmpty'
    BY <1>2 DEF ProcessExit, RouteInvariant, ProxyIndexInRange, DownMeansEmpty
  <2>2. TimesPast'
    BY <1>2, <1>t DEF ProcessExit, RouteInvariant, TimesPast, TypeOK
  <2>3. RoutedAsGranted'
    BY <1>2, <1>t DEF ProcessExit, RouteInvariant, RoutedAsGranted, RouteOf,
       ValidCreationTime, TypeOK
  <2>4. QED BY <1>t, <2>1, <2>2, <2>3 DEF RouteInvariant
<1>3. CASE ServiceStart
  <2>1. /\ \A s \in SessionId : sessions'[s] = None
        /\ \A p \in Pid : pidToProxy'[p] = None
    BY <1>3 DEF ServiceStart, RouteInvariant, DownMeansEmpty
  <2>2. TimesPast'
    BY <1>3 DEF ServiceStart, osVars, RouteInvariant, TimesPast
  <2>3. QED
    BY <1>t, <2>1, <2>2 DEF RouteInvariant, ProxyIndexInRange, RoutedAsGranted,
       RouteOf, DownMeansEmpty
<1>4. CASE Crash \/ ServiceExit
  <2>1. /\ \A s \in SessionId : sessions'[s] = None
        /\ \A p \in Pid : pidToProxy'[p] = None
    BY <1>4 DEF Crash, ServiceExit, Gone
  <2>2. TimesPast'
    <3>1. NoNewRequest
      BY <1>4 DEF Crash, ServiceExit, Gone, Replied, NoNewRequest
    <3>2. UNCHANGED <<born, clock>>
      BY <1>4 DEF Crash, ServiceExit, Gone, osVars
    <3>3. QED BY <2>1, <3>1, <3>2 DEF NoNewRequest, RouteInvariant, TimesPast
  <2>3. QED
    BY <1>t, <2>1, <2>2 DEF RouteInvariant, ProxyIndexInRange, RoutedAsGranted,
       RouteOf, DownMeansEmpty
<1>5. CASE DisposeCancel \/ DisposeSessions \/ DisposeClear
  <2>1. NoNewRoute /\ NoNewRequest
    BY <1>5, <1>t DEF DisposeCancel, DisposeSessions, DisposeClear, Without, osVars,
       routerVars, NoNewRoute, NoNewRequest, TypeOK
  <2>2. NoNewSession /\ DownMeansEmpty'
    BY <1>5, <1>t DEF DisposeCancel, DisposeSessions, DisposeClear, NoNewSession,
       DownMeansEmpty
  <2>3. QED BY <1>harmless, <2>1, <2>2
<1>6. CASE Sweep
  <2>1. NoNewRoute /\ NoNewRequest
    BY <1>6, <1>t DEF Sweep, Without, osVars, serverVars, NoNewRoute, NoNewRequest, TypeOK
  <2>2. NoNewSession /\ DownMeansEmpty'
    BY <1>6, <1>t DEF Sweep, serverVars, NoNewSession, DownMeansEmpty
  <2>3. QED BY <1>harmless, <2>1, <2>2
<1>7. ASSUME NEW c \in Client, Environment(c) PROVE RouteInvariant'
  <2>1. UNCHANGED <<osVars, serverVars, routerVars>>
    BY <1>7 DEF Environment
  <2>2. ProxyIndexInRange' /\ RoutedAsGranted' /\ DownMeansEmpty'
    BY <2>1 DEF osVars, serverVars, routerVars, RouteInvariant, ProxyIndexInRange,
       RoutedAsGranted, RouteOf, ValidCreationTime, DownMeansEmpty
  <2>3. TimesPast'
    <3>1. ASSUME NEW r \in Requests(1..clock), r.op = "addPid"
          PROVE  r.created <= clock
      BY <3>1, <1>t DEF Requests, CreateRequest, RemoveRequest, CloseRequest, TypeOK
    <3>2. ASSUME NEW d \in Client, pipe'[d].at \in {"sent", "accepted"},
                 pipe'[d].req.op = "addPid"
          PROVE  pipe'[d].req.created <= clock
      <4>1. CASE pipe'[d] = pipe[d]
        BY <3>2, <4>1 DEF RouteInvariant, TimesPast
      <4>2. CASE pipe'[d] # pipe[d]
        <5>1. PICK r \in Requests(1..clock) : pipe'[d] = Sent(r)
          BY <1>7, <1>t, <3>2, <4>2 DEF Environment, Send, Receive, Idle, TypeOK
        <5>2. QED BY <3>1, <3>2, <5>1 DEF Sent
      <4>3. QED BY <4>1, <4>2
    <3>3. QED BY <2>1, <3>2 DEF osVars, routerVars, RouteInvariant, TimesPast
  <2>4. QED BY <1>t, <2>2, <2>3 DEF RouteInvariant
<1>8. ASSUME NEW c \in Client, Unavailable(c) \/ Accept(c) PROVE RouteInvariant'
  <2>1. UNCHANGED <<osVars, serverVars, routerVars>>
    BY <1>8 DEF Unavailable, Accept
  <2>2. NoNewRequest
    <3>1. CASE Unavailable(c)
      BY <1>t, <3>1 DEF Unavailable, Replied, NoNewRequest, TypeOK
    <3>2. CASE Accept(c)
      BY <1>t, <3>2 DEF Accept, Accepted, NoNewRequest, TypeOK
    <3>3. QED BY <1>8, <3>1, <3>2
  <2>3. NoNewRoute /\ NoNewSession /\ DownMeansEmpty'
    BY <2>1, <1>t DEF osVars, serverVars, routerVars, NoNewRoute, NoNewSession,
       RouteInvariant, DownMeansEmpty
  <2>4. QED BY <1>harmless, <2>2, <2>3
<1>9. ASSUME NEW c \in Client, DoCreateSession(c) PROVE RouteInvariant'
  <2>1. NoNewRoute /\ DownMeansEmpty'
    BY <1>9 DEF DoCreateSession, Handling, osVars, routerVars, NoNewRoute, DownMeansEmpty
  <2>2. NoNewRequest
    BY <1>9, <1>t, ReplyKeepsRequests DEF DoCreateSession
  <2>3. ASSUME NEW s \in SessionId, sessions'[s] # None
        PROVE  /\ sessions'[s].handle \in DOMAIN proxyServers
               /\ proxyServers[sessions'[s].handle] = sessions'[s].endpoint
    <3>1. CASE sessions'[s] = sessions[s]
      BY <2>3, <3>1 DEF RouteInvariant, ProxyIndexInRange
    <3>2. CASE sessions'[s] # sessions[s]
      <4>1. PICK h \in DOMAIN proxyServers :
              /\ IsHandleOf(h, pipe[c].req.endpoint)
              /\ sessions'[s] = FreshSession(pipe[c].req.endpoint, h)
        BY <1>9, <1>t, <3>2 DEF DoCreateSession, TypeOK
      <4>2. QED BY <4>1 DEF IsHandleOf, IndicesOf, FreshSession
    <3>3. QED BY <3>1, <3>2
  <2>4. ProxyIndexInRange'
    BY <2>1, <2>3, NoNewRouteKeeps DEF NoNewRoute, ProxyIndexInRange
  <2>5. QED BY <1>t, <2>1, <2>2, <2>4, NoNewRouteKeeps, NoNewRequestKeeps DEF RouteInvariant
<1>10. ASSUME NEW c \in Client, DoAddPid(c) PROVE RouteInvariant'
  <2> DEFINE r == pipe[c].req
             s == sessions[r.sid]
  <2>1. r \in AddRequest
    BY <1>10, <1>t, HandlingRequest, RequestKinds DEF DoAddPid
  <2>2. NoNewRequest
    BY <1>10, <1>t, ReplyKeepsRequests DEF DoAddPid
  <2>3. CASE s = None
    <3>1. NoNewRoute /\ NoNewSession /\ DownMeansEmpty'
      BY <1>10, <2>3 DEF DoAddPid, Handling, osVars, NoNewRoute, NoNewSession, DownMeansEmpty
    <3>2. QED BY <1>harmless, <2>2, <3>1
  <2>4. CASE s # None
    <3>1. /\ pidToProxy' = [pidToProxy EXCEPT
               ![r.pid] = [proxy |-> s.handle, created |-> r.created]]
          /\ sessions' = [sessions EXCEPT ![r.sid].pids = @ \cup {r.pid}]
          /\ granted' = granted \cup
               {g \in {<<r.pid, r.created, s.endpoint>>} : r.created = born[r.pid]}
          /\ UNCHANGED <<born, clock, service, proxyServers>>
          /\ service # "down"
      BY <1>10, <2>4 DEF DoAddPid, Handling, osVars
    <3>2. /\ s.handle \in DOMAIN proxyServers
          /\ proxyServers[s.handle] = s.endpoint
          /\ r.pid \in Pid /\ r.sid \in SessionId
      BY <2>1, <2>4 DEF AddRequest, RouteInvariant, ProxyIndexInRange
    <3>3. ProxyIndexInRange'
      <4>1. ASSUME NEW p \in Pid, pidToProxy'[p] # None
            PROVE  pidToProxy'[p].proxy \in DOMAIN proxyServers
        BY <1>t, <3>1, <3>2, <4>1 DEF RouteInvariant, ProxyIndexInRange, TypeOK
      <4>2. ASSUME NEW t \in SessionId, sessions'[t] # None
            PROVE  /\ sessions[t] # None
                   /\ sessions'[t].handle = sessions[t].handle
                   /\ sessions'[t].endpoint = sessions[t].endpoint
        <5>1. s \in SessionState
          BY <1>t, <2>4, <3>2, OpenSession
        <5>2. CASE t = r.sid
          BY <1>t, <2>4, <3>1, <5>1, <5>2 DEF TypeOK, SessionState
        <5>3. CASE t # r.sid
          BY <1>t, <3>1, <4>2, <5>3 DEF TypeOK
        <5>4. QED BY <5>2, <5>3
      <4>3. QED BY <3>1, <4>1, <4>2 DEF RouteInvariant, ProxyIndexInRange
    <3>4. RoutedAsGranted'
      <4>1. ASSUME NEW p \in Pid, p # r.pid, RouteOf(p)' # None
            PROVE  <<p, born[p], proxyServers[RouteOf(p)']>> \in granted
        BY <1>t, <3>1, <4>1 DEF RouteInvariant, RoutedAsGranted, RouteOf,
           ValidCreationTime, TypeOK
      <4>2. ASSUME NEW p \in Pid, p = r.pid, RouteOf(p)' # None
            PROVE  <<p, born[p], proxyServers[RouteOf(p)']>> \in granted'
        BY <1>t, <3>1, <3>2, <4>2 DEF RouteOf, ValidCreationTime, TypeOK
      <4>3. QED BY <3>1, <4>1, <4>2 DEF RoutedAsGranted
    <3>5. TimesPast'
      <4>1. r.created <= clock
        BY <1>10 DEF DoAddPid, Handling, RouteInvariant, TimesPast
      <4>2. \A p \in Pid : pidToProxy'[p] # None => pidToProxy'[p].created <= clock
        BY <1>t, <3>1, <3>2, <4>1 DEF RouteInvariant, TimesPast, TypeOK
      <4>3. QED BY <2>2, <3>1, <4>2 DEF NoNewRequest, RouteInvariant, TimesPast
    <3>6. QED BY <1>t, <3>1, <3>3, <3>4, <3>5 DEF RouteInvariant, DownMeansEmpty
  <2>5. QED BY <2>3, <2>4
<1>11. ASSUME NEW c \in Client, DoRemovePid(c) PROVE RouteInvariant'
  <2>1. NoNewRequest
    BY <1>11, <1>t, ReplyKeepsRequests DEF DoRemovePid
  <2>2. NoNewRoute
    BY <1>11, <1>t DEF DoRemovePid, Without, osVars, NoNewRoute, TypeOK
  <2>3. DownMeansEmpty'
    BY <1>11 DEF DoRemovePid, Handling, DownMeansEmpty
  <2>4. NoNewSession
    <3>1. ASSUME NEW s \in SessionId, sessions'[s] # sessions[s]
          PROVE  /\ sessions[s] # None
                 /\ sessions'[s] = [sessions[s] EXCEPT !.pids = @ \ {pipe[c].req.pid}]
      BY <1>11, <1>t, <3>1 DEF DoRemovePid, TypeOK
    <3>2. ASSUME NEW s \in SessionId, sessions'[s] # sessions[s]
          PROVE  /\ sessions'[s].handle = sessions[s].handle
                 /\ sessions'[s].endpoint = sessions[s].endpoint
      <4>1. sessions[s] \in SessionState
        BY <1>t, <3>1, <3>2, OpenSession
      <4>2. QED BY <3>1, <3>2, <4>1 DEF SessionState
    <3>3. QED BY <3>1, <3>2 DEF NoNewSession
  <2>5. QED BY <1>harmless, <2>1, <2>2, <2>3, <2>4
<1>12. ASSUME NEW c \in Client, DoCloseSession(c) PROVE RouteInvariant'
  <2>1. NoNewRequest
    BY <1>12, <1>t, ReplyKeepsRequests DEF DoCloseSession
  <2>2. NoNewRoute
    BY <1>12, <1>t DEF DoCloseSession, Without, osVars, NoNewRoute, TypeOK
  <2>3. DownMeansEmpty'
    BY <1>12 DEF DoCloseSession, Handling, DownMeansEmpty
  <2>4. NoNewSession
    BY <1>12, <1>t DEF DoCloseSession, NoNewSession, TypeOK
  <2>5. QED BY <1>harmless, <2>1, <2>2, <2>3, <2>4
<1>13. CASE UNCHANGED vars
  <2>1. NoNewRoute /\ NoNewSession /\ NoNewRequest /\ DownMeansEmpty'
    BY <1>13 DEF vars, NoNewRoute, NoNewSession, NoNewRequest, RouteInvariant, DownMeansEmpty
  <2>2. QED BY <1>harmless, <2>1
<1>14. QED
  BY <1>1, <1>2, <1>3, <1>4, <1>5, <1>6, <1>7, <1>8, <1>9, <1>10, <1>11, <1>12, <1>13
     DEF Next, Service, Dispose, Handle

LEMMA Invariance == Spec => []RouteInvariant
<1>1. QED BY InvInit, InvStep, PTL DEF Spec

\* Every entry of the PID table and every session handle names a proxy of the
\* present run of the service, for any configurations and any restarts.
THEOREM IndicesInRange == Spec => []ProxyIndexInRange
<1>1. RouteInvariant => ProxyIndexInRange
  BY DEF RouteInvariant
<1>2. QED BY Invariance, <1>1, PTL

\* The traffic of a process goes only where the service agreed to route that
\* very process: PID reuse, replaced sessions, late handlers and restarts
\* included.
THEOREM RoutesAreGranted == Spec => []RoutedAsGranted
<1>1. RouteInvariant => RoutedAsGranted
  BY DEF RouteInvariant
<1>2. QED BY Invariance, <1>1, PTL

----------------------------------------------------------------------------
(* The refinement of RoutePromise, and the action property.                *)

\* Routes of which some disappear are a withdrawal.
LEMMA NoNewRouteWithdraws ==
  ASSUME RouteInvariant, NoNewRoute
  PROVE  \E P \in SUBSET Pid : Promise!Withdraw(P)
<1> DEFINE P == {p \in Pid : Effective'[p] # Effective[p]}
<1>1. ASSUME NEW p \in Pid
      PROVE  Effective'[p] \in {Effective[p], None}
  BY DEF NoNewRoute, Effective, RouteOf, ValidCreationTime
<1>2. Effective' = [p \in Pid |-> IF p \in P THEN None ELSE Effective[p]]
  <2>1. Effective' = [p \in Pid |-> Effective'[p]]
    BY DEF Effective
  <2>2. QED BY <1>1, <2>1
<1>3. Promise!Withdraw(P)
  BY <1>2 DEF NoNewRoute, Promise!Withdraw
<1>4. QED BY <1>3

LEMMA PromiseInit == Init => Promise!Init
<1>1. ASSUME Init PROVE Effective = [p \in Pid |-> None]
  BY <1>1 DEF Init, Effective, RouteOf, ValidCreationTime
<1>2. QED BY <1>1 DEF Init, Promise!Init

\* Every step of the service is a start, an end, a grant or a withdrawal.
LEMMA PromiseStep ==
  ASSUME RouteInvariant, [Next]_vars
  PROVE  [Promise!Next]_(Promise!vars)
<1>t. TypeOK /\ TypeOK'
  BY TypeStep DEF RouteInvariant
<1>withdraw. ASSUME NoNewRoute PROVE Promise!Next
  BY <1>withdraw, NoNewRouteWithdraws DEF Promise!Next
<1>1. ASSUME NEW p \in Pid, ProcessStart(p) PROVE Promise!Next
  <2>1. \A q \in Pid : q # p => RouteOf(q)' = RouteOf(q)
    BY <1>1, <1>t DEF ProcessStart, RouteOf, ValidCreationTime, TypeOK
  <2>2. RouteOf(p) = None
    BY <1>1 DEF ProcessStart, RouteOf, ValidCreationTime
  <2>3. \A q \in Pid : q = p => RouteOf(q)' = None
    BY <1>1, <1>t DEF ProcessStart, RouteOf, ValidCreationTime, TypeOK, RouteInvariant,
       TimesPast, RouteEntry
  <2>4. \A q \in Pid : RouteOf(q)' = RouteOf(q)
    BY <2>1, <2>2, <2>3
  <2>5. Effective' = Effective /\ Effective[p] = None
    BY <1>1, <2>2, <2>4 DEF ProcessStart, Effective
  <2>6. Promise!Start(p)
    BY <1>1, <2>5 DEF ProcessStart, Promise!Start
  <2>7. QED BY <2>6 DEF Promise!Next
<1>2. ASSUME NEW p \in Pid, ProcessExit(p) PROVE Promise!Next
  <2>1. \A q \in Pid : q # p => RouteOf(q)' = RouteOf(q)
    BY <1>2, <1>t DEF ProcessExit, RouteOf, ValidCreationTime, TypeOK
  <2>2. \A q \in Pid : q = p => RouteOf(q)' = None
    BY <1>2, <1>t DEF ProcessExit, RouteOf, ValidCreationTime, TypeOK
  <2>3. Effective' = [Effective EXCEPT ![p] = None]
    BY <1>2, <2>1, <2>2 DEF ProcessExit, Effective
  <2>4. Promise!Exit(p)
    BY <1>2, <2>3 DEF ProcessExit, Promise!Exit
  <2>5. QED BY <2>4 DEF Promise!Next
<1>3. CASE ServiceStart
  <2>1. \A p \in Pid : RouteOf(p) = None /\ RouteOf(p)' = None
    BY <1>3 DEF ServiceStart, RouteInvariant, DownMeansEmpty, RouteOf
  <2>2. QED BY <1>3, <2>1 DEF ServiceStart, osVars, Effective, Promise!vars
<1>4. CASE Crash \/ ServiceExit
  <2>1. \A p \in Pid : RouteOf(p)' = None
    BY <1>4 DEF Crash, ServiceExit, Gone, RouteOf
  <2>2. Promise!Withdraw(Pid)
    BY <1>4, <2>1 DEF Crash, ServiceExit, Gone, osVars, Effective, Promise!Withdraw
  <2>3. QED BY <2>2 DEF Promise!Next
<1>5. CASE DisposeCancel \/ DisposeSessions \/ DisposeClear \/ Sweep
  <2>1. NoNewRoute
    BY <1>5, <1>t DEF DisposeCancel, DisposeSessions, DisposeClear, Sweep, Without,
       osVars, routerVars, serverVars, NoNewRoute, TypeOK
  <2>2. QED BY <1>withdraw, <2>1
<1>6. ASSUME NEW c \in Client, Environment(c) \/ Unavailable(c) \/ Accept(c)
      PROVE  Promise!Next
  <2>1. NoNewRoute
    BY <1>6 DEF Environment, Unavailable, Accept, osVars, serverVars, routerVars, NoNewRoute
  <2>2. QED BY <1>withdraw, <2>1
<1>7. ASSUME NEW c \in Client, DoCreateSession(c) \/ DoRemovePid(c) \/ DoCloseSession(c)
      PROVE  Promise!Next
  <2>1. NoNewRoute
    <3>1. CASE DoCreateSession(c)
      BY <3>1 DEF DoCreateSession, osVars, routerVars, NoNewRoute
    <3>2. CASE DoRemovePid(c)
      BY <3>2, <1>t DEF DoRemovePid, Without, osVars, NoNewRoute, TypeOK
    <3>3. CASE DoCloseSession(c)
      BY <3>3, <1>t DEF DoCloseSession, Without, osVars, NoNewRoute, TypeOK
    <3>4. QED BY <1>7, <3>1, <3>2, <3>3
  <2>2. QED BY <1>withdraw, <2>1
<1>8. ASSUME NEW c \in Client, DoAddPid(c) PROVE Promise!Next
  <2>1. RouteInvariant'
    BY InvStep
  <2>2. pipe[c].req \in AddRequest
    BY <1>8, <1>t, HandlingRequest, RequestKinds DEF DoAddPid
  <2>3. PICK p \in Pid : p = pipe[c].req.pid
    BY <2>2 DEF AddRequest
  <2>4. /\ UNCHANGED <<born, clock, proxyServers>>
        /\ \A q \in Pid : q # p => RouteOf(q)' = RouteOf(q)
    BY <1>8, <1>t, <2>3 DEF DoAddPid, osVars, RouteOf, ValidCreationTime, TypeOK
  <2>5. CASE RouteOf(p)' = None
    <3>1. Effective' = [q \in Pid |-> IF q \in {p} THEN None ELSE Effective[q]]
      BY <2>4, <2>5 DEF Effective
    <3>2. Promise!Withdraw({p})
      BY <2>4, <3>1 DEF Promise!Withdraw
    <3>3. QED BY <3>2 DEF Promise!Next
  <2>6. CASE RouteOf(p)' # None
    <3>1. born[p] # 0
      BY <2>4, <2>6 DEF RouteOf, ValidCreationTime
    <3>2. PICK e \in Endpoint : e = Effective'[p]
      <4>1. RouteOf(p)' \in DOMAIN proxyServers' /\ proxyServers' \in Seq(Endpoint)
        BY <1>t, <2>1, <2>6 DEF RouteInvariant, ProxyIndexInRange, RouteOf, TypeOK
      <4>2. QED BY <2>6, <4>1 DEF Effective
    <3>3. Effective' = [Effective EXCEPT ![p] = e]
      BY <2>4, <3>2 DEF Effective
    <3>4. Promise!Grant(p, e)
      BY <2>4, <3>1, <3>3 DEF Promise!Grant
    <3>5. QED BY <3>4 DEF Promise!Next
  <2>7. QED BY <2>5, <2>6
<1>9. CASE UNCHANGED vars
  BY <1>9 DEF vars, Effective, RouteOf, ValidCreationTime, Promise!vars
<1>10. QED
  BY <1>1, <1>2, <1>3, <1>4, <1>5, <1>6, <1>7, <1>8, <1>9
     DEF Next, Service, Dispose, Handle

\* The service implements RoutePromise: a route is given to a living process,
\* ends with it, and is never inherited by the next owner of its PID.
THEOREM Refinement == Spec => PromiseKept
<1>1. RouteInvariant /\ [Next]_vars => [Promise!Next]_(Promise!vars)
  BY PromiseStep
<1>2. QED BY PromiseInit, <1>1, Invariance, PTL DEF Spec, PromiseKept, Promise!Spec

\* The steps of the service that answer nobody never move a living process.
THEOREM MaintenanceTheorem == Spec => MaintenanceInvisible
<1> DEFINE Same == \A p \in Pid : RouteOf(p)' = RouteOf(p)
<1>1. ASSUME RouteInvariant, [Next]_vars, UNCHANGED <<born, service, pipe>>
      PROVE  Same
  <2>t. TypeOK
    BY <1>1 DEF RouteInvariant
  <2>1. ASSUME NEW c \in Client, Handle(c) PROVE FALSE
    <3>1. /\ pipe[c].at = "accepted"
          /\ \E x \in Result : Reply(c, x)
      BY <2>1 DEF Handle, DoCreateSession, DoAddPid, DoRemovePid, DoCloseSession,
         Handling, Result
    <3>2. pipe'[c].at = "replied"
      BY <2>t, <3>1 DEF Reply, Replied, TypeOK
    <3>3. QED BY <1>1, <3>1, <3>2
  <2>2. ASSUME NEW c \in Client, Environment(c) \/ Unavailable(c) \/ Accept(c) PROVE Same
    BY <1>1, <2>2 DEF Environment, Unavailable, Accept, osVars, serverVars, routerVars,
       RouteOf, ValidCreationTime
  <2>3. ASSUME NEW p \in Pid, ProcessStart(p) \/ ProcessExit(p) PROVE FALSE
    BY <1>1, <2>t, <2>3 DEF ProcessStart, ProcessExit, TypeOK
  <2>4. CASE Sweep
    BY <1>1, <2>t, <2>4 DEF Sweep, Stale, Without, RouteOf, ValidCreationTime, TypeOK
  <2>5. CASE ServiceStart \/ Dispose \/ Crash
    BY <1>1, <2>5 DEF ServiceStart, Dispose, DisposeCancel, DisposeSessions,
       DisposeClear, ServiceExit, Crash, Gone
  <2>6. CASE UNCHANGED vars
    BY <2>6 DEF vars, RouteOf, ValidCreationTime
  <2>7. QED BY <1>1, <2>1, <2>2, <2>3, <2>4, <2>5, <2>6 DEF Next, Service
<1>2. QED BY <1>1, Invariance, PTL DEF Spec, MaintenanceInvisible

=============================================================================
