------------------------------- MODULE Tunnel -------------------------------
(***************************************************************************)
(* A client and a server with the network between them: Client and Server  *)
(* as they are, except that what one of them receives is what the other    *)
(* sent.  An action of this module is an action of one of the two, with    *)
(* the datagram it puts on the network or takes from it.                   *)
(*                                                                         *)
(* The network is one of three, for a whole behaviour:                     *)
(*   wild     it loses, duplicates and reorders                            *)
(*   ordered  it loses datagrams                                           *)
(*   prompt   it does neither, and time passes only when nothing is under  *)
(*            way: the round trip is short, compared to a second           *)
(* The client's receive buffer holds what has arrived and is not read.     *)
(*                                                                         *)
(* Neither end is shut down or switched off here and no task fails, but    *)
(* the server may restart.  Keepalives are off.  There is one peer, with   *)
(* one address; session indices are never drawn twice, so that an index is *)
(* as good as a key.                                                       *)
(***************************************************************************)
EXTENDS Client

CONSTANTS
    Networks,       \* the networks to consider
    RateMax, RateWindow, IdleMax,
    MaxNet,         \* bound: datagrams on the network
    MaxRestarts     \* bound: restarts of the server

ASSUME TunnelAssumption ==
    /\ Networks \subseteq {"wild", "ordered", "prompt"}
    /\ MaxNet \in Nat /\ MaxRestarts \in Nat

VARIABLES
    net,            \* the datagrams on the network, oldest first
    network,        \* which network it is
    restarts,
    by_index, by_ip, hits, sessions, shown, s_down, s_up, s_reap,
    s_keys, s_enabled, s_life,
    s_sealed,           \* history: the server's packets, as sealed is the client's
    written, s_written  \* history: what client and server wrote to TUN

link == <<net, network, restarts>>
srv == <<by_index, by_ip, hits, sessions, shown, s_down, s_up, s_reap,
         s_keys, s_enabled, s_life>>
history == <<s_sealed, written, s_written>>

tunnelVars == <<vars, link, srv, history>>

Me == "peer"
MyIp == "tunnel_ip"
MyAddr == <<"host", 0>>

S == INSTANCE Server WITH
        Peers <- {Me}, Strangers <- {}, Ip <- {MyIp}, TunnelIp <- [p \in {Me} |-> MyIp],
        Host <- {MyAddr[1]}, Port <- {MyAddr[2]}, Index <- 1 .. MaxKeys, LowByteOne <- {},
        enabled <- s_enabled, life <- s_life,
        down <- s_down, up <- s_up, reap <- s_reap, keys <- s_keys

TunnelInit ==
    /\ Init
    /\ S!Init
    /\ net = <<>>
    /\ network \in Networks
    /\ restarts = 0
    /\ s_sealed = sealed /\ written = sealed /\ s_written = sealed

-----------------------------------------------------------------------------
(* The network. *)

SeqX == INSTANCE SequencesExt

\* What a datagram put on the network becomes.
Send(to, packet) ==
    \/ /\ Len(net) < MaxNet
       /\ net' = Append(net, [to |-> to, packet |-> packet])
    \/ /\ network # "prompt"
       /\ UNCHANGED net

\* The datagrams that may arrive next.
Arrivable(to) ==
    {i \in DOMAIN net :
        /\ net[i].to = to
        /\ network = "wild" \/ \A j \in 1 .. i - 1 : net[j].to # to}

\* Datagram i arrives; the wild network may deliver it again.
Take(i) ==
    \/ net' = SeqX!RemoveAt(net, i)
    \/ network = "wild" /\ UNCHANGED net

Quiet == UNCHANGED <<net, network, restarts>>
Same == UNCHANGED <<network, restarts>>

-----------------------------------------------------------------------------
(* The client's steps. *)

ClientSendsInit ==
    /\ SendInit
    /\ Send("server", [kind |-> "init", from |-> Me, init |-> inits'])
    /\ Same /\ UNCHANGED <<srv, history>>

\* A packet of this host carries its tunnel address.
ClientSendsData ==
    /\ UpEncrypt /\ up'.at # "ended"
    /\ IF sealed' # sealed
       THEN LET wire == Noise!Encrypted(slot.session, MyIp)
            IN  Send("server", S!DataPacket(wire.index, wire.key, wire.nonce, MyIp))
       ELSE UNCHANGED net
    /\ Same /\ UNCHANGED <<srv, history>>

\* On the prompt network an attempt waits for as long as something is under way.
ClientWaits == network = "prompt" => net = <<>> /\ queue = <<>> /\ s_down = S!Idle

ClientSteps ==
    /\ \/ LockGate \/ RecvResponse \/ Start \/ ReplaceSession
       \/ RecvTimeout /\ ClientWaits
       \/ Rehandshake
       \/ DownLock \/ DownRecv \/ DownDecryptFails \/ DownDecrypts
       \/ UpRead
    /\ phase' # "failed"
    /\ Quiet /\ UNCHANGED <<srv, history>>

ClientWrites ==
    /\ DownWrite /\ dn'.at # "ended"
    /\ written' = Count(written, dn.packet.key, dn.packet.nonce)
    /\ Quiet /\ UNCHANGED <<srv, s_sealed, s_written>>

\* What the server sends the client: a response, or a packet for its address.
ClientReceives ==
    \E i \in Arrivable("client") :
        /\ Arrive(net[i].packet)
        /\ Take(i)
        /\ Same /\ UNCHANGED <<srv, history>>

-----------------------------------------------------------------------------
(* The server's steps. *)

ServerReceives ==
    \E i \in Arrivable("server") :
        /\ IF net[i].packet.kind = "init"
           THEN S!RecvHandshake(net[i].packet, MyAddr) /\ Len(keys) < MaxKeys
           ELSE S!RecvData(net[i].packet, MyAddr)
        /\ Take(i)
        /\ Same /\ UNCHANGED <<vars, history>>

\* The session is in the table; its key answers the init.
ServerInserts ==
    /\ S!HandshakeInserts
    /\ ServerAnswers(s_down.packet.init)
    /\ Quiet /\ UNCHANGED history

\* The response is sent once the statistics are stored.
ServerResponds ==
    /\ S!HandshakeSetPeers
    /\ Send("client", Response(Len(keys)))
    /\ Same /\ UNCHANGED <<vars, history>>

ServerWrites ==
    /\ S!TunWrite /\ s_down' = S!Idle
    /\ s_written' = Count(s_written, s_down.packet.key, s_down.packet.nonce)
    /\ Quiet /\ UNCHANGED <<vars, s_sealed, written>>

ServerEncrypts ==
    /\ S!UplinkEncrypts
    /\ s_sealed' = Count(s_sealed, s_up'.wire.key, s_up'.wire.sealed_with)
    /\ Quiet /\ UNCHANGED <<vars, written, s_written>>

ServerSends ==
    /\ S!UplinkSends
    /\ Send("client", DataPacket(s_up.wire.key, s_up.wire.nonce, "ipv4"))
    /\ Same /\ UNCHANGED <<vars, history>>

ServerSteps ==
    /\ \/ S!HandshakeAdmitted \/ S!HandshakeLimited
       \/ S!alloc_index(Len(keys) + 1)
       \/ S!HandshakeSetSessions
       \/ S!UnknownSession \/ S!DecryptFails \/ S!DecryptSucceeds
       \/ S!TunRead(MyIp) \/ S!UplinkDrops
       \/ S!Reap \/ S!ReapSetSessions \/ S!ReapSetPeers
    /\ Quiet /\ UNCHANGED <<vars, history>>

\* The process dies and is started again: its sessions are gone.
ServerRestarts ==
    /\ restarts < MaxRestarts
    /\ restarts' = restarts + 1
    /\ by_index' = <<>> /\ by_ip' = <<>> /\ hits' = <<>>
    /\ sessions' = 0 /\ shown' = {}
    /\ s_down' = S!Idle /\ s_up' = S!Idle /\ s_reap' = S!Idle
    /\ UNCHANGED <<vars, net, network, s_keys, s_enabled, s_life, history>>

-----------------------------------------------------------------------------
TimePasses ==
    /\ ClientWaits
    /\ Tick /\ S!Tick
    /\ Quiet /\ UNCHANGED history

TunnelNext ==
    \/ ClientSendsInit \/ ClientSendsData \/ ClientSteps \/ ClientWrites
    \/ ClientReceives
    \/ ServerReceives \/ ServerInserts \/ ServerResponds \/ ServerWrites
    \/ ServerEncrypts \/ ServerSends \/ ServerSteps \/ ServerRestarts
    \/ TimePasses

TunnelSpec == TunnelInit /\ [][TunnelNext]_tunnelVars

-----------------------------------------------------------------------------
(* Properties. *)

Up == INSTANCE Link WITH
    Packets <- (1 .. MaxKeys) \X Noise!Nonce, sent <- sealed, delivered <- s_written

Down == INSTANCE Link WITH
    Packets <- (1 .. MaxKeys) \X Noise!Nonce, sent <- s_sealed, delivered <- written

\* Each direction of the tunnel is a link: what comes out of a TUN device went
\* into the other one, and comes out once, over any number of sessions, restarts
\* of the server and tricks of the network.
EachWayALink == Up!Spec /\ Down!Spec

\* When the client has made its handshake and the network keeps datagrams in
\* order, the server has the client's session or none: no init of an attempt that
\* was given up replaces it later, and no answer to one was installed.
Established == phase = "up" /\ hs.at = "tick" /\ keys[slot.session.key] = inits

SameSession ==
    network # "wild" /\ Established => S!LiveKeys \subseteq {slot.session.key}

\* On a network that loses nothing, the answer to the last attempt of a
\* re-handshake is there for the handshake to read.
AnswerOnItsWay(key) ==
    \/ s_down.at \in {"set_sessions", "set_peers"}
    \/ [to |-> "client", packet |-> Response(key)] \in SeqX!Range(net)
    \/ Response(key) \in SeqX!Range(queue)

RekeyAnswered ==
    phase = "up" /\ hs.at = "recv" /\ hs.attempt = Attempts =>
        \A k \in Key : keys[k] = inits => AnswerOnItsWay(k)
=============================================================================
