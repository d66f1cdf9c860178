---------------------------- MODULE MCIpcRouting ----------------------------
(* IpcRouting for TLC: one session whose launch (p1), descendant (p2), user *)
(* and end each start a task, and a configuration with its endpoint.        *)
EXTENDS IpcRouting

CONSTANTS s1, p1, p2, e1

MCLaunch == [kind |-> "launch", sid |-> s1, pid |-> p1]
MCAdd    == [kind |-> "add", sid |-> s1, pid |-> p2]
MCUser   == [kind |-> "reroute", sid |-> s1]
MCClose  == [kind |-> "close", sid |-> s1]

\* A launch, the user's Retry and the end of the session.
MCReroute == {MCLaunch, MCUser, MCClose}

\* A launch whose process starts another one, and the end of the session.
MCDescendant == {MCLaunch, MCAdd, MCClose}

MCConfigs    == {<<e1>>}
MCEndpointOf == [s \in {s1} |-> e1]

\* Bound of ipc_descendants: the service may crash and restart at any time,
\* but it is not stopped.
NoStop == service \in {"down", "running"}

=============================================================================
