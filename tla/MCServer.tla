------------------------------ MODULE MCServer ------------------------------
(* Model-checking instances of Server.                                       *)
EXTENDS Server, TLC

\* Every tunnel address is named after the peer that owns it.
MCTunnelIp == [p \in Peers |-> p]

\* Without shutdown and with the data plane on.
SpecOn == Init /\ [][Next /\ UNCHANGED <<enabled, life>>]_vars

\* Everything, under fairness.  Datagrams that do not open are left to SpecOn: of a
\* session they change the replay window, where their nonce is marked before they
\* are authenticated, but neither its age nor its endpoint.  From its second port a
\* peer sends, or repeats, keepalives.
Arrivals ==
    /\ down.at = "admit" => down.packet.from # Malformed /\ down.src[2] = 1
    /\ down.at = "decrypt" =>
          /\ down.packet.key # NoKey /\ down.packet.nonce < MaxNonce
          /\ IF down.src[2] = 1 THEN down.packet.plain \in Ip
                                ELSE down.packet.plain = KeepalivePlain

SpecLive == Init /\ [][Next /\ Arrivals']_vars /\ Fairness

MCSymmetry == Permutations(Peers) \cup Permutations(Host) \cup Permutations(Index \ LowByteOne)
=============================================================================
