------------------------------ MODULE MCClient ------------------------------
(* The model-checking instance of Client.                                    *)
EXTENDS Client

\* Of data the network brings what a session can open: IPv4 packets, as the server
\* sends no keepalives, and none with the last nonce, which seals nothing.
Arrivals ==
    \A i \in DOMAIN queue :
        queue[i].kind = "data" => queue[i].nonce < MaxNonce /\ queue[i].plain = "ipv4"

SpecLive == Init /\ [][Next /\ Arrivals']_vars /\ Fairness
=============================================================================
