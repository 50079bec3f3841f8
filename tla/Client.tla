------------------------------- MODULE Client -------------------------------
(***************************************************************************)
(* client::run: one session with the server, shared by the uplink, the     *)
(* downlink and the maintenance task, and one UDP socket that two of them  *)
(* read from.                                                              *)
(*                                                                         *)
(*   downlink      UDP -> TUN                        variable dn           *)
(*   uplink        TUN -> UDP                        variable up           *)
(*   maintenance   keepalive, rekey, reconnect       variable hs           *)
(*                                                                         *)
(* The handshake is run by the start-up code and later by maintenance;     *)
(* both are the variable hs.  recv_gate is a tokio mutex: first come,      *)
(* first served; its value here is the queue of its holder and waiters.    *)
(*                                                                         *)
(* The server is only what the client can tell of it: it answers an init   *)
(* with a session key, possibly more than once (a duplicated init), or     *)
(* never.  Answers and data may arrive at any time, in any order, twice or *)
(* not at all.                                                             *)
(***************************************************************************)
EXTENDS Naturals, Sequences, FiniteSets

CONSTANTS
    Attempts,       \* ATTEMPTS of handshake
    Rekey, Reconnect, Keepalive,    \* the three timers, in ticks
    Window, MaxNonce,
    MaxQueue,       \* bound: datagrams in the socket's receive buffer
    MaxInits,       \* bound: inits sent
    MaxKeys         \* bound: inits answered

ASSUME ClientAssumption ==
    /\ Attempts \in Nat \ {0}
    /\ Rekey \in Nat /\ Reconnect \in Nat /\ Keepalive \in Nat
    /\ Window \in Nat /\ MaxNonce \in Nat
    /\ MaxQueue \in Nat /\ MaxInits \in Nat /\ MaxKeys \in Nat

VARIABLES
    phase,      \* starting, up, stopping, exited, failed
    enabled,    \* RuntimeStats.enabled
    slot,       \* SessionSlot, the instants as ages
    gate,       \* recv_gate: holder first, then the waiters
    queue,      \* the socket's receive buffer
    hs, dn, up, \* the tasks
    inits,      \* how many inits were sent; an init is its number
    keys,       \* keys[k] is the init that the server answered with key k
    sealed      \* history: <<key, nonce>> of every packet encrypted, and how many

vars == <<phase, enabled, slot, gate, queue, hs, dn, up, inits, keys, sealed>>

server == <<inits, keys>>

Noise == INSTANCE Session

Key == 1 .. Len(keys)

Response(key) == [kind |-> "response", key |-> key]

\* The session index that goes with a key is random: an index of its own.
DataPacket(key, nonce, plain) ==
    [kind |-> "data", index |-> key, key |-> key, nonce |-> nonce,
     sealed_with |-> nonce, plain |-> plain]

Plain == {"keepalive", "ipv4"}

NewSlot(key) ==
    [session |-> Noise!NewSession(key, key), established |-> 0, last_rx |-> 0, last_tx |-> 0]

NoSlot == [established |-> 0, last_rx |-> 0, last_tx |-> 0]

Count(h, key, nonce) == [set |-> h.set \cup {<<key, nonce>>}, calls |-> h.calls + 1]

Init ==
    /\ phase = "starting"
    /\ enabled = TRUE
    /\ slot = NoSlot
    /\ gate = <<>>
    /\ queue = <<>>
    /\ hs = [at |-> "send", attempt |-> 1]
    /\ dn = [at |-> "off"]
    /\ up = [at |-> "off"]
    /\ inits = 0
    /\ keys = <<>>
    /\ sealed = [set |-> {}, calls |-> 0]

Holds(task) == gate # <<>> /\ Head(gate) = task

-----------------------------------------------------------------------------
(* handshake: up to Attempts times, a new init, then one datagram. *)

\* Mutation of SendInit: the client makes one initiator and sends its init again.
SendInitAgain ==
    /\ hs.at = "send"
    /\ inits' = 1
    /\ hs' = [at |-> "lock", attempt |-> hs.attempt, init |-> 1]
    /\ UNCHANGED <<phase, enabled, slot, gate, queue, dn, up, keys, sealed>>

\* A HandshakeInitiator of this attempt's own: the task keeps which init it sent.
SendInit ==
    /\ hs.at = "send"
    /\ inits' = inits + 1
    /\ hs' = [at |-> "lock", attempt |-> hs.attempt, init |-> inits + 1]
    /\ UNCHANGED <<phase, enabled, slot, gate, queue, dn, up, keys, sealed>>

\* What the caller does with Err: the start-up gives up, maintenance goes on.
RoundFails ==
    IF phase = "starting"
    THEN phase' = "failed" /\ hs' = [at |-> "ended"]
    ELSE hs' = [at |-> "tick"] /\ UNCHANGED phase

SendInitFails ==
    /\ hs.at = "send"
    /\ RoundFails
    /\ UNCHANGED <<enabled, slot, gate, queue, dn, up, server, sealed>>

LockGate ==
    /\ hs.at = "lock"
    /\ gate' = Append(gate, "handshake")
    /\ hs' = [hs EXCEPT !.at = "recv"]
    /\ UNCHANGED <<phase, enabled, slot, queue, dn, up, server, sealed>>

\* Mutations of NextAttempt: one attempt too many; a failure is not counted.
NextAttemptOneMore ==
    IF hs.attempt <= Attempts
    THEN hs' = [at |-> "send", attempt |-> hs.attempt + 1] /\ UNCHANGED phase
    ELSE RoundFails
NextAttemptUncounted == hs' = [hs EXCEPT !.at = "lock"] /\ UNCHANGED phase

NextAttempt ==
    IF hs.attempt < Attempts
    THEN hs' = [at |-> "send", attempt |-> hs.attempt + 1] /\ UNCHANGED phase
    ELSE RoundFails

\* finish succeeds on an answer to the init that this initiator has sent.
Finishes(packet) == packet.kind = "response" /\ keys[packet.key] = hs.init

RecvResponse ==
    /\ hs.at = "recv" /\ Holds("handshake")
    /\ queue # <<>>
    /\ queue' = Tail(queue)
    /\ gate' = Tail(gate)
    /\ IF Finishes(Head(queue))
       THEN hs' = [at |-> "install", key |-> Head(queue).key] /\ UNCHANGED phase
       ELSE NextAttempt
    /\ UNCHANGED <<enabled, slot, dn, up, server, sealed>>

\* WAIT passes with nothing to read; or recv reports an error of the connected
\* socket, which it may even if there is something to read.
RecvTimeout ==
    /\ hs.at = "recv" /\ Holds("handshake")
    /\ gate' = Tail(gate)
    /\ NextAttempt
    /\ UNCHANGED <<enabled, slot, queue, dn, up, server, sealed>>

\* Start-up: TUN device and routes, then the tasks; or an error from either.
Start ==
    /\ hs.at = "install" /\ phase = "starting"
    /\ \/ /\ phase' = "up"
          /\ slot' = NewSlot(hs.key)
          /\ hs' = [at |-> "tick"]
          /\ dn' = [at |-> "lock"]
          /\ up' = [at |-> "read"]
       \/ /\ phase' = "failed"
          /\ hs' = [at |-> "ended"]
          /\ UNCHANGED <<slot, dn, up>>
    /\ UNCHANGED <<enabled, gate, queue, server, sealed>>

ReplaceSession ==
    /\ hs.at = "install" /\ phase # "starting"
    /\ slot' = NewSlot(hs.key)
    /\ hs' = [at |-> "tick"]
    /\ UNCHANGED <<phase, enabled, gate, queue, dn, up, server, sealed>>

-----------------------------------------------------------------------------
(* maintenance. *)

need_rekey == Rekey > 0 /\ slot.established >= Rekey

need_reconnect == slot.last_rx >= Reconnect

need_keepalive ==
    Keepalive > 0 /\ slot.last_tx >= Keepalive /\ slot.last_rx >= Keepalive

Rehandshake ==
    /\ hs.at = "tick" /\ enabled
    /\ need_rekey \/ need_reconnect
    /\ inits + Attempts <= MaxInits
    /\ hs' = [at |-> "send", attempt |-> 1]
    /\ UNCHANGED <<phase, enabled, slot, gate, queue, dn, up, server, sealed>>

DecideKeepalive ==
    /\ hs.at = "tick" /\ enabled
    /\ ~ need_rekey /\ ~ need_reconnect
    /\ need_keepalive
    /\ hs' = [at |-> "keepalive"]
    /\ UNCHANGED <<phase, enabled, slot, gate, queue, dn, up, server, sealed>>

\* Mutation of Encrypt: the session is not advanced.
EncryptStuck ==
    /\ Noise!CanEncrypt(slot.session)
    /\ slot' = [slot EXCEPT !.last_tx = 0]
    /\ LET wire == Noise!Encrypted(slot.session, "any")
       IN  sealed' = Count(sealed, wire.key, wire.sealed_with)

\* encrypt under the session lock, here and in the uplink.
Encrypt ==
    /\ Noise!CanEncrypt(slot.session)
    /\ slot' = [slot EXCEPT !.session = Noise!AfterEncrypt(@), !.last_tx = 0]
    /\ LET wire == Noise!Encrypted(slot.session, "any")
       IN  sealed' = Count(sealed, wire.key, wire.sealed_with)

SendKeepalive ==
    /\ hs.at = "keepalive"
    /\ \/ Encrypt
       \/ ~ Noise!CanEncrypt(slot.session) /\ UNCHANGED <<slot, sealed>>
    /\ hs' = [at |-> "tick"]
    /\ UNCHANGED <<phase, enabled, gate, queue, dn, up, server>>

-----------------------------------------------------------------------------
(* downlink. *)

DownLock ==
    /\ dn.at = "lock"
    /\ gate' = Append(gate, "downlink")
    /\ dn' = [at |-> "recv"]
    /\ UNCHANGED <<phase, enabled, slot, queue, hs, up, server, sealed>>

\* Mutation of DownRecv: while disabled, it drains the socket without letting go of
\* the gate.
DownRecvDrains ==
    /\ dn.at = "recv" /\ Holds("downlink")
    /\ queue # <<>>
    /\ queue' = Tail(queue)
    /\ IF enabled
       THEN gate' = Tail(gate) /\ dn' = [at |-> "decrypt", packet |-> Head(queue)]
       ELSE UNCHANGED <<gate, dn>>
    /\ UNCHANGED <<phase, enabled, slot, hs, up, server, sealed>>

\* recv is awaited with the gate held; the datagram is forgotten while disabled.
DownRecv ==
    /\ dn.at = "recv" /\ Holds("downlink")
    /\ queue # <<>>
    /\ queue' = Tail(queue)
    /\ gate' = Tail(gate)
    /\ dn' = IF enabled THEN [at |-> "decrypt", packet |-> Head(queue)] ELSE [at |-> "lock"]
    /\ UNCHANGED <<phase, enabled, slot, hs, up, server, sealed>>

\* The connected socket reports, for example, that the server's port is closed.
DownRecvFails ==
    /\ dn.at = "recv" /\ Holds("downlink")
    /\ gate' = Tail(gate)
    /\ dn' = [at |-> "ended"]
    /\ UNCHANGED <<phase, enabled, slot, queue, hs, up, server, sealed>>

Opens(packet) == packet.kind = "data" /\ Noise!Decrypts(slot.session, packet)

DownDecryptFails ==
    /\ dn.at = "decrypt"
    /\ ~ Opens(dn.packet)
    /\ slot' = IF dn.packet.kind = "data"
               THEN [slot EXCEPT !.session = Noise!AfterDecrypt(@, dn.packet)]
               ELSE slot
    /\ dn' = [at |-> "lock"]
    /\ UNCHANGED <<phase, enabled, gate, queue, hs, up, server, sealed>>

DownDecrypts ==
    /\ dn.at = "decrypt"
    /\ Opens(dn.packet)
    /\ slot' = [slot EXCEPT !.session = Noise!AfterDecrypt(@, dn.packet), !.last_rx = 0]
    /\ dn' = IF dn.packet.plain = "keepalive"
             THEN [at |-> "lock"]
             ELSE [at |-> "write", packet |-> dn.packet]
    /\ UNCHANGED <<phase, enabled, gate, queue, hs, up, server, sealed>>

DownWrite ==
    /\ dn.at = "write"
    /\ dn' \in {[at |-> "lock"], [at |-> "ended"]}
    /\ UNCHANGED <<phase, enabled, slot, gate, queue, hs, up, server, sealed>>

-----------------------------------------------------------------------------
(* uplink. *)

UpRead ==
    /\ up.at = "read"
    /\ up' = IF enabled THEN [at |-> "encrypt"] ELSE up
    /\ UNCHANGED <<phase, enabled, slot, gate, queue, hs, dn, server, sealed>>

UpReadFails ==
    /\ up.at = "read"
    /\ up' = [at |-> "ended"]
    /\ UNCHANGED <<phase, enabled, slot, gate, queue, hs, dn, server, sealed>>

\* Encrypt and send; a send error ends the task, an encrypt error does not.
UpEncrypt ==
    /\ up.at = "encrypt"
    /\ \/ Encrypt /\ up' \in {[at |-> "read"], [at |-> "ended"]}
       \/ /\ ~ Noise!CanEncrypt(slot.session)
          /\ up' = [at |-> "read"]
          /\ UNCHANGED <<slot, sealed>>
    /\ UNCHANGED <<phase, enabled, gate, queue, hs, dn, server>>

-----------------------------------------------------------------------------
(* Network, server, control socket, clock. *)

ServerAnswers(init) ==
    /\ init \in 1 .. inits
    /\ Len(keys) < MaxKeys
    /\ keys' = Append(keys, init)
    /\ UNCHANGED <<phase, enabled, slot, gate, queue, hs, dn, up, inits, sealed>>

Arriving ==
    {Response(k) : k \in Key} \cup
    {DataPacket(k, n, plain) : k \in Key, n \in Noise!Nonce, plain \in Plain}

Arrive(packet) ==
    /\ packet \in Arriving
    /\ Len(queue) < MaxQueue
    /\ queue' = Append(queue, packet)
    /\ UNCHANGED <<phase, enabled, slot, gate, hs, dn, up, server, sealed>>

set_enabled(on) ==
    /\ phase \in {"up", "stopping"}
    /\ enabled # on
    /\ enabled' = on
    /\ UNCHANGED <<phase, slot, gate, queue, hs, dn, up, server, sealed>>

Older(age, limit) == IF age < limit THEN age + 1 ELSE age
Longest == IF Reconnect > Keepalive THEN Reconnect ELSE Keepalive

Tick ==
    /\ slot' = [slot EXCEPT !.established = Older(@, Rekey),
                            !.last_rx = Older(@, Longest),
                            !.last_tx = Older(@, Keepalive)]
    /\ UNCHANGED <<phase, enabled, gate, queue, hs, dn, up, server, sealed>>

-----------------------------------------------------------------------------
(* Shutdown: on ctrl-c, or when uplink or downlink ends. *)

CtrlC ==
    /\ phase = "up"
    /\ phase' = "stopping"
    /\ UNCHANGED <<enabled, slot, gate, queue, hs, dn, up, server, sealed>>

TaskEnded ==
    /\ phase = "up"
    /\ "ended" \in {dn.at, up.at}
    /\ phase' = "stopping"
    /\ UNCHANGED <<enabled, slot, gate, queue, hs, dn, up, server, sealed>>

\* Mutation of MaintenanceStops: the signal goes unseen while disabled.
MaintenanceStopsEnabled ==
    /\ phase = "stopping"
    /\ enabled
    /\ hs.at = "tick"
    /\ hs' = [at |-> "ended"]
    /\ UNCHANGED <<phase, enabled, slot, gate, queue, dn, up, server, sealed>>

\* The select! of maintenance sees the signal, between two rounds only.
MaintenanceStops ==
    /\ phase = "stopping"
    /\ hs.at = "tick"
    /\ hs' = [at |-> "ended"]
    /\ UNCHANGED <<phase, enabled, slot, gate, queue, dn, up, server, sealed>>

\* maintenance.await returns; drop(routes) tears the routes down.
Exit ==
    /\ phase = "stopping"
    /\ hs.at = "ended"
    /\ phase' = "exited"
    /\ UNCHANGED <<enabled, slot, gate, queue, hs, dn, up, server, sealed>>

-----------------------------------------------------------------------------
Handshake ==
    \/ SendInit \/ SendInitFails \/ LockGate \/ RecvResponse \/ RecvTimeout
    \/ Start \/ ReplaceSession

Maintenance == Rehandshake \/ DecideKeepalive \/ SendKeepalive

Downlink ==
    DownLock \/ DownRecv \/ DownDecryptFails \/ DownDecrypts \/ DownWrite

Uplink == UpRead \/ UpReadFails \/ UpEncrypt

Network ==
    \/ \E init \in 1 .. inits : ServerAnswers(init)
    \/ \E packet \in Arriving : Arrive(packet)

Next ==
    /\ phase \notin {"exited", "failed"}
    /\ \/ Handshake \/ Maintenance
       \/ Downlink \/ DownRecvFails
       \/ Uplink \/ Network
       \/ \E on \in BOOLEAN : set_enabled(on)
       \/ Tick
       \/ CtrlC \/ TaskEnded \/ MaintenanceStops \/ Exit

Spec == Init /\ [][Next]_vars

\* The client's own tasks make progress: a spawned task that can run does, the
\* timer of an attempt fires, a signal is not passed over for ever.  The network
\* owes nothing.
Running(A) == phase \notin {"exited", "failed"} /\ A

Fairness ==
    /\ WF_vars(Running(Handshake))
    /\ WF_vars(Running(Maintenance))
    /\ WF_vars(Running(Downlink))
    /\ SF_vars(Running(MaintenanceStops))
    /\ WF_vars(Running(TaskEnded \/ Exit))

FairSpec == Spec /\ Fairness

-----------------------------------------------------------------------------
(* Properties. *)

SessionType ==
    [index : Key, key : Key, send_nonce : Noise!Nonce, snow_nonce : Noise!Nonce,
     replay : [top : Noise!Nonce, taken : SUBSET Noise!Nonce]]

NoSlots == [established : 0 .. Rekey, last_rx : 0 .. Longest, last_tx : 0 .. Keepalive]

Slots ==
    [session : SessionType,
     established : 0 .. Rekey, last_rx : 0 .. Longest, last_tx : 0 .. Keepalive]

History == [set : SUBSET (Key \X Noise!Nonce), calls : Nat]

\* The state is well typed; in particular the tasks run only once there is a
\* session to work with, and nobody waits for the gate twice.
TypeOK ==
    /\ phase \in {"starting", "up", "stopping", "exited", "failed"}
    /\ enabled \in BOOLEAN
    /\ slot \in IF phase \in {"starting", "failed"} THEN NoSlots ELSE Slots
    /\ gate \in {<<>>, <<"handshake">>, <<"downlink">>,
                 <<"handshake", "downlink">>, <<"downlink", "handshake">>}
    /\ queue \in Seq(Arriving)
    /\ hs \in [at : {"send"}, attempt : 1 .. Attempts]
              \cup [at : {"lock", "recv"}, attempt : 1 .. Attempts, init : Nat]
              \cup [at : {"tick", "keepalive", "ended"}]
              \cup [at : {"install"}, key : Key]
    /\ dn \in [at : {"off", "lock", "recv", "ended"}]
              \cup [at : {"decrypt", "write"}, packet : Arriving]
    /\ up \in [at : {"off", "read", "encrypt", "ended"}]
    /\ inits \in Nat
    /\ keys \in Seq(1 .. inits)
    /\ sealed \in History

\* A session is replaced only by one that answers a later init: no answer that is late
\* or comes twice, read from the socket that downlink and handshake share, puts a
\* running client back to a session it had or to one that it gave up.
SessionsMoveForward ==
    [][ReplaceSession => keys[slot'.session.key] > keys[slot.session.key]]_vars

\* A key and a nonce seal at most one packet, although uplink and maintenance
\* both encrypt and a re-handshake starts again from nonce 0.
NonceNeverReused == Cardinality(sealed.set) = sealed.calls

\* The start-up comes to an end, in a running client or in an error, even if the
\* server never answers.
StartupEnds == <>(phase # "starting")

\* While datagrams keep arriving, a re-handshake comes to an end: the gate goes
\* back and forth between downlink and handshake.
InRound == hs.at \in {"send", "lock", "recv"}

RoundEndsUnderTraffic == []<>(queue # <<>>) => []<>(~ InRound)

\* While datagrams keep arriving, shutdown comes to an end as well, and with it the
\* routes: run waits for maintenance, which may be waiting for the gate.
ShutdownEndsUnderTraffic ==
    []<>(queue # <<>>) => ((phase = "stopping") ~> (phase = "exited"))
=============================================================================
