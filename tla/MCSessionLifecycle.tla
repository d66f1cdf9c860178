------------------------ MODULE MCSessionLifecycle ------------------------
(* SessionLifecycle for TLC: a root and one further process, which may be a *)
(* child, a correlated process, or the restart of the root.                 *)
EXTENDS SessionLifecycle

CONSTANTS p1, p2

MCAllKinds == {"generic", "target", "external"}

=============================================================================
