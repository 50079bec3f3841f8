-------------------------------- MODULE Link --------------------------------
(***************************************************************************)
(* What one direction of the tunnel promises to the programs on both       *)
(* sides: a link that may lose and reorder packets, and does not make them *)
(* up, alter them or deliver one twice.                                    *)
(***************************************************************************)
EXTENDS Naturals

CONSTANT Packets

VARIABLES
    sent,       \* the packets given to the link, and how often it took one
    delivered   \* the packets it gave out, and how often

vars == <<sent, delivered>>

Nothing == [set |-> {}, calls |-> 0]

More(h, packet) == [set |-> h.set \cup {packet}, calls |-> h.calls + 1]

Init == sent = Nothing /\ delivered = Nothing

Send(packet) ==
    /\ packet \notin sent.set
    /\ sent' = More(sent, packet)
    /\ UNCHANGED delivered

Deliver(packet) ==
    /\ packet \in sent.set \ delivered.set
    /\ delivered' = More(delivered, packet)
    /\ UNCHANGED sent

Next == \E packet \in Packets : Send(packet) \/ Deliver(packet)

Spec == Init /\ [][Next]_vars
=============================================================================
