----------------------------- MODULE MCSessions -----------------------------
(* What the service keeps of sessions and what ProxySwitch keeps of one, for *)
(* TLC, each on its own: part says which of the two moves, the other rests.  *)
(* The service has two endpoints that two configurations register under     *)
(* different indices, so that a restart can renumber the proxies; the        *)
(* session has a root and one further process, which may be a child, a       *)
(* correlated process, or the restart of the root.                           *)
EXTENDS PidRoutes, SessionLifecycle

CONSTANTS e1, e2, m1, m2

MCEndpoint == {e1, e2}
MCConfigs  == {<<e1, e2>>, <<e2>>}
MCAllKinds == {"generic", "target", "external"}

VARIABLE part

\* A session that has ended, with no task, timer or callback left.
SessionAtRest ==
  /\ proc = [p \in Member |-> "gone"]
  /\ kind = CHOOSE k \in Kinds : TRUE
  /\ supervised = FALSE
  /\ status = "exited"
  /\ entries = [p \in Member |-> Absent]
  /\ tracked = [p \in Member |-> Absent]
  /\ fired = {} /\ callback = Absent
  /\ discovering = FALSE
  /\ monitor = "off" /\ cancelled = FALSE
  /\ handoff = "off"
  /\ merging = [p \in Member |-> "no"]
  /\ window = 0 /\ pending = {} /\ expired = {}
  /\ stop = "off" /\ toKill = {}

MCInit ==
  /\ part \in {"service", "session"}
  /\ Init
  /\ IF part = "session" THEN LifecycleInit ELSE SessionAtRest

\* A finished session has nothing left to do; the service goes on.
MCNext ==
  \/ part = "service" /\ Next /\ UNCHANGED <<part, lifecycleVars>>
  \/ part = "session" /\ LifecycleNext /\ UNCHANGED <<part, vars>>
  \/ part = "session" /\ status = "exited" /\ UNCHANGED <<part, vars, lifecycleVars>>

MCSpec ==
  MCInit /\ [][MCNext]_<<part, vars, lifecycleVars>> /\ Fairness /\ LifecycleFairness

=============================================================================
