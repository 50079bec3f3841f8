------------------------------ MODULE Channel -------------------------------
(***************************************************************************)
(* One direction of an established session: crypto::Session::encrypt at    *)
(* one end, decrypt with its ReplayWindow at the other, and between them a *)
(* network that loses, duplicates, reorders and damages datagrams.  Nonces *)
(* go all the way up to MaxNonce, where snow refuses to seal and the       *)
(* counter would wrap.                                                     *)
(*                                                                         *)
(* The receiver's replay window is the bitmap of ReplayWindow itself.      *)
(***************************************************************************)
EXTENDS ReplayWindow

CONSTANT Plain      \* payloads

VARIABLES
    tx,             \* the Session of the sender
    net,            \* every datagram sent so far
    delivered,      \* history: the datagrams decrypted, and how often one was
    repeats,        \*    decrypted again
    damaged         \* history: the nonces under which a damaged datagram came in

window == <<highest, bitmap, accepted, verdict>>
channel_vars == <<window, tx, net, delivered, repeats, damaged>>

Noise == INSTANCE Session

TheIndex == 1
TheKey == 1
NoKey == 0          \* what a damaged datagram is sealed under

ChannelInit ==
    /\ Init
    /\ tx = Noise!NewSession(TheIndex, TheKey)
    /\ net = {}
    /\ delivered = {}
    /\ repeats = 0
    /\ damaged = {}

encrypt(plain) ==
    /\ Noise!CanEncrypt(tx)
    /\ net' = net \cup {Noise!Encrypted(tx, plain)}
    /\ tx' = Noise!AfterEncrypt(tx)
    /\ UNCHANGED <<window, delivered, repeats, damaged>>

\* AEAD: the packet opens under the session's key and the nonce of its header.
Opens(packet) ==
    packet.key = TheKey /\ packet.sealed_with = packet.nonce /\ packet.nonce < MaxNonce

Delivers(packet) ==
    /\ delivered' = delivered \cup {packet}
    /\ repeats' = IF packet \in delivered THEN repeats + 1 ELSE repeats

\* Mutation of decrypt: the answer of the window is not looked at.
decryptAnyway(packet) ==
    /\ packet.index = TheIndex
    /\ check_and_update(packet.nonce)
    /\ IF Opens(packet) THEN Delivers(packet) ELSE UNCHANGED <<delivered, repeats>>
    /\ UNCHANGED <<tx, net>>

\* decrypt of a datagram: the nonce is checked and marked before the packet is opened.
decrypt(packet) ==
    /\ packet.index = TheIndex
    /\ check_and_update(packet.nonce)
    /\ IF verdict'.ok /\ Opens(packet)
       THEN Delivers(packet)
       ELSE UNCHANGED <<delivered, repeats>>
    /\ UNCHANGED <<tx, net>>

\* A datagram as it was sent.
Receive(packet) == decrypt(packet) /\ UNCHANGED damaged

\* One that was damaged on the way: any nonce, no valid tag.  (With another index it
\* is refused before anything happens.)
ReceiveDamaged(nonce) ==
    /\ decrypt([index |-> TheIndex, nonce |-> nonce, key |-> NoKey,
                sealed_with |-> nonce, plain |-> NoKey])
    /\ damaged' = damaged \cup {nonce}

ChannelNext ==
    \/ \E plain \in Plain : encrypt(plain)
    \/ \E packet \in net : Receive(packet)
    \/ \E nonce \in Nonce : ReceiveDamaged(nonce)

ChannelSpec == ChannelInit /\ [][ChannelNext]_channel_vars

-----------------------------------------------------------------------------
(* Properties. *)

\* The counter of the header and the one inside snow stay in lockstep up to the
\* largest nonce and never run past it, and no two datagrams of a session share a
\* nonce.
Lockstep ==
    /\ tx.send_nonce = tx.snow_nonce /\ tx.snow_nonce \in Nonce
    /\ \A p, q \in net :
          /\ p.nonce = p.sealed_with
          /\ p.nonce < tx.snow_nonce
          /\ p.nonce = q.nonce => p = q

\* A datagram is delivered at most once, whatever the network duplicates.
DeliveredAtMostOnce == repeats = 0

\* The nonces that came in, with a datagram that was delivered or with a damaged one.
Shown == damaged \cup {p.nonce : p \in delivered}

\* The window turns a datagram away for one of three reasons: it was delivered before,
\* a damaged datagram came in under its nonce, or one came in, delivered or damaged,
\* whose nonce is a whole window above.  The last two are what damage costs, as the
\* nonce is marked before the packet is opened; nothing else is lost, however the
\* network reorders.
RefusedForAReason ==
    ~ verdict.ok => \E n \in Shown : n = verdict.nonce \/ n >= verdict.nonce + Window
=============================================================================
