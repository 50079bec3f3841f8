------------------------------ MODULE MCTunnel ------------------------------
(* Model-checking instances of Tunnel.                                       *)
EXTENDS Tunnel

\* A task that is in the middle of something goes on with it before anything else
\* happens (the server may still die).  How the tasks of one process interleave is
\* what the instances of Server and Client are about; here it is how the two
\* processes, the handshake and the downlink do.
Urgent ==
    IF s_reap # S!Idle THEN s_reap' # s_reap
    ELSE IF s_down # S!Idle THEN s_down' # s_down
    ELSE IF s_up # S!Idle THEN s_up' # s_up
    ELSE IF up.at = "encrypt" THEN up' # up
    ELSE IF dn.at \in {"lock", "decrypt", "write"} THEN dn' # dn
    ELSE IF queue # <<>> THEN queue' # queue
    ELSE queue' # queue => gate # <<>>

MCTunnelSpec == TunnelInit /\ [][TunnelNext /\ Urgent]_tunnelVars
=============================================================================
