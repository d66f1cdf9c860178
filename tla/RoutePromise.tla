---------------------------- MODULE RoutePromise ----------------------------
(***************************************************************************)
(* What PID routing promises to the processes of the machine.  A route     *)
(* belongs to a process, not to its PID: it is given to a living process,  *)
(* may be moved or withdrawn while the process lives, and ends with it.    *)
(***************************************************************************)
EXTENDS Naturals

CONSTANTS Pid, Endpoint, None, MaxTime

VARIABLES
  born,   \* creation time of the process that owns a PID now, 0 if none
  clock,  \* creation time of the youngest process
  route   \* the endpoint the process owning a PID now is routed to, or None

vars == <<born, clock, route>>

Init ==
  /\ born = [p \in Pid |-> 0]
  /\ clock = 0
  /\ route = [p \in Pid |-> None]

\* A new process is not routed.
Start(p) ==
  /\ born[p] = 0
  /\ clock < MaxTime
  /\ clock' = clock + 1
  /\ born' = [born EXCEPT ![p] = clock + 1]
  /\ route[p] = None
  /\ UNCHANGED route

Exit(p) ==
  /\ born[p] # 0
  /\ born' = [born EXCEPT ![p] = 0]
  /\ route' = [route EXCEPT ![p] = None]
  /\ UNCHANGED clock

\* A living process is routed, one at a time.
Grant(p, e) ==
  /\ born[p] # 0
  /\ route' = [route EXCEPT ![p] = e]
  /\ UNCHANGED <<born, clock>>

\* Any routes may be withdrawn together: a session closes, the service ends.
Withdraw(P) ==
  /\ route' = [p \in Pid |-> IF p \in P THEN None ELSE route[p]]
  /\ UNCHANGED <<born, clock>>

Next ==
  \/ \E p \in Pid : Start(p) \/ Exit(p) \/ \E e \in Endpoint : Grant(p, e)
  \/ \E P \in SUBSET Pid : Withdraw(P)

Spec == Init /\ [][Next]_vars

=============================================================================
