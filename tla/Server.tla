------------------------------- MODULE Server -------------------------------
(***************************************************************************)
(* server::run: the session table of the VPN server and the tasks that     *)
(* share it behind one mutex.                                              *)
(*                                                                         *)
(*   downlink   UDP -> handshake or TUN      variable down                 *)
(*   uplink     TUN -> UDP                   variable up                   *)
(*   reaper     idle expiry, status refresh  variable reap                 *)
(*   control    on / off                     variable enabled              *)
(*                                                                         *)
(* A step of this module is what a task does between two points where it   *)
(* may be interleaved with the others: a critical section, a store to the  *)
(* shared statistics, a receive or a send.  A task's record holds its      *)
(* place in the code (at) and the local variables it carries across such a *)
(* point.                                                                  *)
(*                                                                         *)
(* The network delivers any datagram a holder of a session could have      *)
(* sent, from any address, at any time and any number of times; so loss,   *)
(* duplication and reordering need no state of their own.                  *)
(***************************************************************************)
EXTENDS Naturals, Sequences, FiniteSets

CONSTANTS
    Peers,          \* the public keys of cfg.peers
    Strangers,      \* public keys that are not configured
    Ip,             \* inner IPv4 addresses
    TunnelIp,       \* peers[pk].tunnel_ip
    Host, Port,     \* a UDP source address is a host and a port
    Index,          \* session indices: random_session_index
    LowByteOne,     \* the indices whose first byte on the wire is 1
    RateMax, RateWindow,
    Window, MaxNonce,
    IdleMax,        \* session_idle_secs
    MaxKeys         \* bound: handshakes that complete

ASSUME TunnelIpAssumption ==
    /\ TunnelIp \in [Peers -> Ip]
    /\ \A p, q \in Peers : TunnelIp[p] = TunnelIp[q] => p = q
ASSUME StrangersAssumption == Strangers \cap Peers = {}
ASSUME IndexAssumption == IsFiniteSet(Index) /\ LowByteOne \subseteq Index
ASSUME ServerNatAssumption ==
    /\ IdleMax \in Nat /\ MaxKeys \in Nat /\ MaxNonce \in Nat /\ Window \in Nat

VARIABLES
    by_index,       \* index -> LiveSession
    by_ip,          \* tunnel ip -> index
    hits,           \* State.rate
    enabled,        \* RuntimeStats.enabled
    sessions,       \* RuntimeStats.sessions
    shown,          \* RuntimeStats.peers, as the set of indices listed
    down, up, reap, \* the tasks
    life,           \* the process: up, stopping, exited
    keys            \* history: keys[k] is the peer and index of the k-th handshake

vars == <<by_index, by_ip, hits, enabled, sessions, shown, down, up, reap,
          life, keys>>

table == <<by_index, by_ip>>
stats == <<sessions, shown>>

Rate == INSTANCE RateLimit
Noise == INSTANCE Session

Addr == Host \X Port
Key == 1 .. Len(keys)
NoKey == 0          \* sealed under no key of this server: corrupt or foreign

\* Inner packets: an IPv4 packet is its source (or, uplink, its destination).
KeepalivePlain == "keepalive"
NotIPv4 == "not-ipv4"
Inner == Ip \cup {KeepalivePlain, NotIPv4}

\* A handshake init that Noise accepts carries its sender's static key; one that
\* it rejects carries Malformed.
Malformed == "malformed"
InitPacket == [kind : {"init"}, from : Peers \cup Strangers \cup {Malformed}]

DataPacket(index, key, nonce, inner) ==
    [kind |-> "data", index |-> index, nonce |-> nonce, key |-> key,
     sealed_with |-> nonce, plain |-> inner]

\* The data packets that can arrive: a peer uses the index it was given.
DataPackets ==
    {DataPacket(keys[k].index, k, n, inner) : k \in Key, n \in Noise!Nonce, inner \in Inner}
    \cup {DataPacket(i, NoKey, n, KeepalivePlain) : i \in Index, n \in Noise!Nonce}

\* buf[0] == 1: the type byte of an init, or the low byte of a session index.
FirstByteOne(packet) ==
    packet.kind = "data" => packet.index \in LowByteOne

Without(f, S) == [x \in DOMAIN f \ S |-> f[x]]
With(f, x, v) == [y \in DOMAIN f \cup {x} |-> IF y = x THEN v ELSE f[y]]

Idle == [at |-> "idle"]
Ended == [at |-> "ended"]

Init ==
    /\ by_index = <<>>
    /\ by_ip = <<>>
    /\ hits = <<>>
    /\ enabled = TRUE
    /\ sessions = 0
    /\ shown = {}
    /\ down = Idle /\ up = Idle /\ reap = Idle
    /\ life = "up"
    /\ keys = <<>>

-----------------------------------------------------------------------------
(* downlink: receive and dispatch. *)

RecvHandshake(packet, src) ==
    /\ down = Idle
    /\ FirstByteOne(packet)
    /\ packet \in InitPacket => Len(keys) < MaxKeys
    /\ down' = [at |-> "admit", packet |-> packet, src |-> src]
    /\ UNCHANGED <<table, hits, enabled, stats, up, reap, keys, life>>

\* Mutation of RecvData: the type byte is not looked at.
RecvDataAny(packet, src) ==
    /\ down = Idle
    /\ enabled
    /\ down' = [at |-> "decrypt", packet |-> packet, src |-> src]
    /\ UNCHANGED <<table, hits, enabled, stats, up, reap, keys, life>>

\* While the data plane is off the datagram is read and forgotten.
RecvData(packet, src) ==
    /\ down = Idle
    /\ ~ FirstByteOne(packet)
    /\ enabled
    /\ down' = [at |-> "decrypt", packet |-> packet, src |-> src]
    /\ UNCHANGED <<table, hits, enabled, stats, up, reap, keys, life>>

\* A receive error ends the task.
RecvFails ==
    /\ down = Idle
    /\ down' = Ended
    /\ UNCHANGED <<table, hits, enabled, stats, up, reap, keys, life>>

-----------------------------------------------------------------------------
(* downlink: handle_handshake. *)

HandshakeFails == down' = Idle

HandshakeAdmitted ==
    /\ down.at = "admit"
    /\ Rate!Admit(down.src[1])
    /\ down' = [down EXCEPT !.at = "alloc"]
    /\ UNCHANGED <<table, enabled, stats, up, reap, keys, life>>

HandshakeLimited ==
    /\ down.at = "admit"
    /\ Rate!Deny(down.src[1])
    /\ HandshakeFails
    /\ UNCHANGED <<table, enabled, stats, up, reap, keys, life>>

\* Mutation of FreeIndex: indices in use are not avoided.
AnyIndex == Index

FreeIndex == Index \ DOMAIN by_index

alloc_index(index) ==
    /\ down.at = "alloc"
    /\ index \in FreeIndex
    /\ down' = [at |-> "finish", packet |-> down.packet, src |-> down.src,
                index |-> index]
    /\ UNCHANGED <<table, hits, enabled, stats, up, reap, keys, life>>

\* responder.finish rejects the message, or its static key is not configured.
HandshakeRejected ==
    /\ down.at = "finish"
    /\ down.packet.kind = "init" => down.packet.from \notin Peers
    /\ HandshakeFails
    /\ UNCHANGED <<table, hits, enabled, stats, up, reap, keys, life>>

\* Mutation of LiveSession: the session keeps a temporary index.
LiveSessionTemporary(index, key, src, ip) ==
    [session |-> Noise!NewSession(CHOOSE i \in Index : i # index, key),
     peer_addr |-> src, tunnel_ip |-> ip, idle |-> 0]

LiveSession(index, key, src, ip) ==
    [session |-> Noise!NewSession(index, key), peer_addr |-> src,
     tunnel_ip |-> ip, idle |-> 0]

\* Mutation of Replaced: the old session stays in by_index.
ReplacedNone(ip) == {}

\* The sessions that a new session of this tunnel address replaces.
Replaced(ip) == IF ip \in DOMAIN by_ip THEN {by_ip[ip]} ELSE {}

AcceptedPeer ==
    /\ down.at = "finish"
    /\ down.packet.kind = "init"
    /\ down.packet.from \in Peers

\* The old session of the tunnel address goes first.  Should the index be in use
\* after all, the handshake fails and no new session comes.
HandshakeInserts ==
    /\ AcceptedPeer
    /\ LET peer == down.packet.from
           ip == TunnelIp[peer]
           kept == Without(by_index, Replaced(ip))
           live == LiveSession(down.index, Len(keys) + 1, down.src, ip)
       IN  IF down.index \in DOMAIN kept
           THEN /\ by_index' = kept
                /\ by_ip' = Without(by_ip, {ip})
                /\ HandshakeFails
                /\ UNCHANGED keys
           ELSE /\ by_index' = With(kept, down.index, live)
                /\ by_ip' = With(by_ip, ip, down.index)
                /\ down' = [at |-> "set_sessions", seen |-> DOMAIN kept \cup {down.index}]
                /\ keys' = Append(keys, [peer |-> peer, index |-> down.index])
    /\ UNCHANGED <<hits, enabled, stats, up, reap, life>>

\* set_sessions and set_peers are two stores, made after the unlock.
HandshakeSetSessions ==
    /\ down.at = "set_sessions"
    /\ sessions' = Cardinality(down.seen)
    /\ down' = [down EXCEPT !.at = "set_peers"]
    /\ UNCHANGED <<table, hits, enabled, shown, up, reap, keys, life>>

\* ... and the response is sent.
HandshakeSetPeers ==
    /\ down.at = "set_peers"
    /\ shown' = down.seen
    /\ down' = Idle
    /\ UNCHANGED <<table, hits, enabled, sessions, up, reap, keys, life>>

-----------------------------------------------------------------------------
(* downlink: data. *)

Live == by_index[down.packet.index]

\* The session after decrypt was called, whatever it returned.
Received == Noise!AfterDecrypt(Live.session, down.packet)

UnknownSession ==
    /\ down.at = "decrypt"
    /\ down.packet.index \notin DOMAIN by_index
    /\ down' = Idle
    /\ UNCHANGED <<table, hits, enabled, stats, up, reap, keys, life>>

\* Mutation of DecryptFails: the endpoint follows every datagram.
DecryptFailsMoves ==
    /\ down.at = "decrypt"
    /\ down.packet.index \in DOMAIN by_index
    /\ ~ Noise!Decrypts(Live.session, down.packet)
    /\ by_index' = [by_index EXCEPT ![down.packet.index] =
                        [Live EXCEPT !.session = Received, !.peer_addr = down.src]]
    /\ down' = Idle
    /\ UNCHANGED <<by_ip, hits, enabled, stats, up, reap, keys, life>>

DecryptFails ==
    /\ down.at = "decrypt"
    /\ down.packet.index \in DOMAIN by_index
    /\ ~ Noise!Decrypts(Live.session, down.packet)
    /\ by_index' = [by_index EXCEPT ![down.packet.index] =
                        [Live EXCEPT !.session = Received]]
    /\ down' = Idle
    /\ UNCHANGED <<by_ip, hits, enabled, stats, up, reap, keys, life>>

\* Mutation of PolicyAllows: any IPv4 packet passes.
PolicyAllowsIPv4(plain, tunnel_ip) == plain \in Ip

\* Keepalives end here; other packets need the peer's own source address.
PolicyAllows(plain, tunnel_ip) == plain = tunnel_ip

\* Mutation of DecryptSucceeds: the nonce is not recorded.
DecryptSucceedsAgain ==
    /\ down.at = "decrypt"
    /\ down.packet.index \in DOMAIN by_index
    /\ Noise!Decrypts(Live.session, down.packet)
    /\ by_index' = [by_index EXCEPT ![down.packet.index] =
                        [Live EXCEPT !.peer_addr = down.src, !.idle = 0]]
    /\ down' = IF PolicyAllows(down.packet.plain, Live.tunnel_ip)
               THEN [at |-> "tun_write", packet |-> down.packet]
               ELSE Idle
    /\ UNCHANGED <<by_ip, hits, enabled, stats, up, reap, keys, life>>

\* Only an authentic packet moves the endpoint and counts as life.  The policy is
\* applied after the unlock, to a copy of the tunnel address.
DecryptSucceeds ==
    /\ down.at = "decrypt"
    /\ down.packet.index \in DOMAIN by_index
    /\ Noise!Decrypts(Live.session, down.packet)
    /\ by_index' = [by_index EXCEPT ![down.packet.index] =
                        [Live EXCEPT !.session = Received,
                                     !.peer_addr = down.src,
                                     !.idle = 0]]
    /\ down' = IF PolicyAllows(down.packet.plain, Live.tunnel_ip)
               THEN [at |-> "tun_write", packet |-> down.packet]
               ELSE Idle
    /\ UNCHANGED <<by_ip, hits, enabled, stats, up, reap, keys, life>>

\* A write error ends the task.
TunWrite ==
    /\ down.at = "tun_write"
    /\ down' \in {Idle, Ended}
    /\ UNCHANGED <<table, hits, enabled, stats, up, reap, keys, life>>

-----------------------------------------------------------------------------
(* uplink. *)

TunRead(dst) ==
    /\ up = Idle
    /\ enabled
    /\ up' = [at |-> "lookup", dst |-> dst]
    /\ UNCHANGED <<table, hits, enabled, stats, down, reap, keys, life>>

\* End of file or a read error ends the task.
TunReadFails ==
    /\ up = Idle
    /\ up' = Ended
    /\ UNCHANGED <<table, hits, enabled, stats, down, reap, keys, life>>

\* Mutation of RouteOf: without an entry of its own, a packet takes any session.
RouteOfAny(dst) == IF dst \in DOMAIN by_ip THEN {by_ip[dst]} ELSE DOMAIN by_index

RouteOf(dst) == IF dst \in DOMAIN by_ip /\ by_ip[dst] \in DOMAIN by_index
                THEN {by_ip[dst]} ELSE {}

\* No session for the destination, or its nonces are used up.
UplinkDrops ==
    /\ up.at = "lookup"
    /\ \A i \in RouteOf(up.dst) : ~ Noise!CanEncrypt(by_index[i].session)
    /\ up' = Idle
    /\ UNCHANGED <<table, hits, enabled, stats, down, reap, keys, life>>

UplinkEncrypts ==
    /\ up.at = "lookup"
    /\ \E i \in RouteOf(up.dst) :
          /\ Noise!CanEncrypt(by_index[i].session)
          /\ up' = [at |-> "send", dst |-> up.dst,
                    wire |-> Noise!Encrypted(by_index[i].session, up.dst),
                    to |-> by_index[i].peer_addr]
          /\ by_index' = [by_index EXCEPT ![i] =
                             [by_index[i] EXCEPT
                                !.session = Noise!AfterEncrypt(by_index[i].session),
                                !.idle = 0]]
    /\ UNCHANGED <<by_ip, hits, enabled, stats, down, reap, keys, life>>

\* send_to the address read under the lock; a failed send is only logged.
UplinkSends ==
    /\ up.at = "send"
    /\ up' = Idle
    /\ UNCHANGED <<table, hits, enabled, stats, down, reap, keys, life>>

-----------------------------------------------------------------------------
(* reaper. *)

\* Mutations of Stale: the limit itself counts as too long; the comparison is swapped.
StaleAtLimit == {i \in DOMAIN by_index : by_index[i].idle >= IdleMax}
StaleSwapped == {i \in DOMAIN by_index : by_index[i].idle <= IdleMax}

Stale == {i \in DOMAIN by_index : by_index[i].idle > IdleMax}

\* Addresses that by_ip maps to the very session that goes.
StaleIps == {ip \in DOMAIN by_ip : \E i \in Stale : by_index[i].tunnel_ip = ip /\ by_ip[ip] = i}

\* Mutation of Reap: the statistics are refreshed only when a session expired.
ReapSilently ==
    /\ reap = Idle
    /\ Rate!gc
    /\ by_index' = Without(by_index, Stale)
    /\ by_ip' = Without(by_ip, StaleIps)
    /\ reap' = IF Stale = {} THEN Idle ELSE [at |-> "set_sessions", seen |-> DOMAIN by_index']
    /\ UNCHANGED <<enabled, stats, down, up, keys, life>>

Reap ==
    /\ reap = Idle
    /\ Rate!gc
    /\ by_index' = Without(by_index, Stale)
    /\ by_ip' = Without(by_ip, StaleIps)
    /\ reap' = [at |-> "set_sessions", seen |-> DOMAIN by_index']
    /\ UNCHANGED <<enabled, stats, down, up, keys, life>>

ReapSetSessions ==
    /\ reap.at = "set_sessions"
    /\ sessions' = Cardinality(reap.seen)
    /\ reap' = [reap EXCEPT !.at = "set_peers"]
    /\ UNCHANGED <<table, hits, enabled, shown, down, up, keys, life>>

ReapSetPeers ==
    /\ reap.at = "set_peers"
    /\ shown' = reap.seen
    /\ reap' = Idle
    /\ UNCHANGED <<table, hits, enabled, sessions, down, up, keys, life>>

-----------------------------------------------------------------------------
(* control socket, clock. *)

set_enabled(on) ==
    /\ enabled # on
    /\ enabled' = on
    /\ UNCHANGED <<table, hits, stats, down, up, reap, keys, life>>

\* Ages stop one past the point where they make a difference.
Older(age) == IF age > IdleMax THEN age ELSE age + 1

Tick ==
    /\ by_index' = [i \in DOMAIN by_index |-> [by_index[i] EXCEPT !.idle = Older(@)]]
    /\ Rate!AgeHits
    /\ UNCHANGED <<by_ip, enabled, stats, down, up, reap, keys, life>>

-----------------------------------------------------------------------------
(* Shutdown.  The select! of run leaves when ctrl-c arrives or when uplink or *)
(* downlink ends; the other tasks run on, detached, until the process exits.  *)

CtrlC ==
    /\ life = "up"
    /\ life' = "stopping"
    /\ UNCHANGED <<table, hits, enabled, stats, down, up, reap, keys>>

\* Mutation of TaskEnded: the end of uplink goes unnoticed.
TaskEndedDownlink ==
    /\ life = "up"
    /\ down = Ended
    /\ life' = "stopping"
    /\ UNCHANGED <<table, hits, enabled, stats, down, up, reap, keys>>

TaskEnded ==
    /\ life = "up"
    /\ Ended \in {down, up}
    /\ life' = "stopping"
    /\ UNCHANGED <<table, hits, enabled, stats, down, up, reap, keys>>

ReaperStops ==
    /\ life = "stopping"
    /\ reap = Idle
    /\ reap' = Ended
    /\ UNCHANGED <<table, hits, enabled, stats, down, up, keys, life>>

\* reaper.await returns, then run does.
Exit ==
    /\ life = "stopping"
    /\ reap = Ended
    /\ life' = "exited"
    /\ UNCHANGED <<table, hits, enabled, stats, down, up, reap, keys>>

-----------------------------------------------------------------------------
Recv ==
    \E src \in Addr, packet \in InitPacket \cup DataPackets :
        RecvHandshake(packet, src) \/ RecvData(packet, src)

handle_handshake ==
    \/ HandshakeAdmitted \/ HandshakeLimited
    \/ \E i \in Index : alloc_index(i)
    \/ HandshakeRejected \/ HandshakeInserts
    \/ HandshakeSetSessions \/ HandshakeSetPeers

Data ==
    UnknownSession \/ DecryptFails \/ DecryptSucceeds \/ TunWrite

Forward == UplinkDrops \/ UplinkEncrypts \/ UplinkSends

Reaper == Reap \/ ReapSetSessions \/ ReapSetPeers

Next ==
    /\ life # "exited"
    /\ \/ Recv \/ handle_handshake \/ Data
       \/ \E dst \in Ip : TunRead(dst)
       \/ RecvFails \/ TunReadFails \/ Forward
       \/ Reaper
       \/ \E on \in BOOLEAN : set_enabled(on)
       \/ Tick
       \/ CtrlC \/ TaskEnded \/ ReaperStops \/ Exit

Spec == Init /\ [][Next]_vars

\* Tasks make progress (tokio's mutex is first come, first served) and the
\* reaper's interval keeps firing.  Between two of its rounds the reaper is back
\* in select!, which does not pass over the shutdown signal for ever.  Nobody has
\* to send anything.
Running(A) == life # "exited" /\ A

Fairness ==
    /\ WF_vars(Running(handle_handshake \/ Data))
    /\ WF_vars(Running(Forward))
    /\ WF_vars(Running(Reaper))
    /\ SF_vars(Running(ReaperStops))
    /\ WF_vars(Running(TaskEnded \/ Exit))

FairSpec == Spec /\ Fairness

-----------------------------------------------------------------------------
(* Properties. *)

Session == [index : Index, key : Key, send_nonce : Noise!Nonce,
            snow_nonce : Noise!Nonce,
            replay : [top : Noise!Nonce, taken : SUBSET Noise!Nonce]]

LiveSessions == [session : Session, peer_addr : Addr, tunnel_ip : Ip, idle : Nat]

Packet == InitPacket \cup
          [kind : {"data"}, index : Index, nonce : Noise!Nonce, key : Key \cup {NoKey},
           sealed_with : Noise!Nonce, plain : Inner]

DownState ==
    {Idle, Ended}
    \cup [at : {"admit", "alloc", "decrypt"}, packet : Packet, src : Addr]
    \cup [at : {"finish"}, packet : Packet, src : Addr, index : Index]
    \cup [at : {"set_sessions", "set_peers"}, seen : SUBSET Index]
    \cup [at : {"tun_write"}, packet : Packet]

UpState ==
    {Idle, Ended}
    \cup [at : {"lookup"}, dst : Ip]
    \cup [at : {"send"}, dst : Ip, wire : [index : Index, nonce : Noise!Nonce, key : Key,
             sealed_with : Noise!Nonce, plain : Ip], to : Addr]

ReapState == {Idle, Ended} \cup [at : {"set_sessions", "set_peers"}, seen : SUBSET Index]

TableType ==
    /\ DOMAIN by_index \subseteq Index
    /\ \A i \in DOMAIN by_index : by_index[i] \in LiveSessions
    /\ DOMAIN by_ip \subseteq Ip
    /\ \A ip \in DOMAIN by_ip : by_ip[ip] \in Index
    /\ keys \in Seq([peer : Peers, index : Index])

TaskType ==
    /\ down \in DownState
    /\ down.at = "decrypt" => down.packet.kind = "data"
    /\ up \in UpState
    /\ reap \in ReapState

\* The state is well typed, and a task that waits for the lock to decrypt holds a
\* data packet.
TypeOK ==
    /\ TableType /\ TaskType
    /\ enabled \in BOOLEAN
    /\ sessions \in Nat /\ shown \subseteq Index
    /\ life \in {"up", "stopping", "exited"}

\* The two maps of the session table are inverse to each other: a tunnel address
\* leads to the one session of its peer and every session is reachable that way.
\* Handshakes and the reaper both remove entries, in separate critical sections.
TableConsistent ==
    /\ \A ip \in DOMAIN by_ip :
          by_ip[ip] \in DOMAIN by_index /\ by_index[by_ip[ip]].tunnel_ip = ip
    /\ \A i \in DOMAIN by_index :
          by_index[i].tunnel_ip \in DOMAIN by_ip /\ by_ip[by_index[i].tunnel_ip] = i

\* A session in the table is the one its key was agreed for: same index, and the
\* tunnel address of the peer that made the handshake.
SessionsOwned ==
    \A i \in DOMAIN by_index :
        LET s == by_index[i].session
        IN  /\ s.index = i
            /\ keys[s.key].index = i
            /\ by_index[i].tunnel_ip = TunnelIp[keys[s.key].peer]

\* The index chosen in one critical section is still free in the later one that
\* inserts the session, so the collision check never fires and a handshake never
\* costs a peer its old session without giving it a new one.
NoCollision == down.at = "finish" => down.index \notin DOMAIN by_index

\* What reaches the TUN device came from the peer that owns its source address,
\* even if the session was replaced or expired since it was decrypted.
AuthenticSource ==
    down.at = "tun_write" =>
        /\ down.packet.kind = "data"
        /\ down.packet.key \in Key
        /\ down.packet.plain = TunnelIp[keys[down.packet.key].peer]

\* A packet for a tunnel address leaves sealed under a key of the peer that owns
\* the address, and of no other peer.
UplinkIsolated ==
    up.at = "send" => TunnelIp[keys[up.wire.key].peer] = up.dst

\* The endpoint of a session moves only to the source of an authentic packet of
\* that session which was not accepted before: a late duplicate from an address
\* the client has left does not move it back.
EndpointMove ==
    \A i \in DOMAIN by_index \cap DOMAIN by_index' :
        LET s == by_index[i].session
        IN  (by_index'[i].session.key = s.key /\ by_index'[i].peer_addr # by_index[i].peer_addr)
            => /\ down.at = "decrypt"
               /\ down.packet.key = s.key
               /\ down.packet.nonce \notin s.replay.taken
               /\ by_index'[i].peer_addr = down.src

EndpointAuthenticated == [][EndpointMove]_vars

\* A session ends only because it was idle for too long or because its own peer
\* made a new handshake: no other peer's handshake takes it away.
LiveKeys == {by_index[i].session.key : i \in DOMAIN by_index}

SessionEnd ==
    \A i \in DOMAIN by_index :
        LET s == by_index[i].session
        IN  s.key \notin LiveKeys' =>
               \/ by_index[i].idle > IdleMax
               \/ \E j \in DOMAIN by_index' :
                     /\ by_index'[j].tunnel_ip = by_index[i].tunnel_ip
                     /\ by_index'[j].session.key > s.key

SessionsEndForAReason == [][SessionEnd]_vars

\* The published statistics catch up with the table: the reaper and a handshake
\* store them after their unlock, in either order, so a stale pair of values may
\* overwrite a newer one, but not for good.
StatsAgree == sessions = Cardinality(DOMAIN by_index) /\ shown = DOMAIN by_index

StatsConverge == []<>(StatsAgree \/ life # "up")

\* A session without life for longer than IdleMax is removed, or comes to life.
Expired(k) ==
    \E i \in DOMAIN by_index : by_index[i].session.key = k /\ by_index[i].idle > IdleMax

IdleSessionsReaped ==
    \A k \in 1 .. MaxKeys : Expired(k) ~> (~ Expired(k) \/ life # "up")

\* When the uplink or the downlink task dies, the server does not stay up half
\* dead: it shuts down and exits.
HalfDeadExits == (Ended \in {down, up}) ~> (life = "exited")

\* A packet of an established session reaches that session: it is never taken for
\* a handshake.
DataReachesSession ==
    down.at = "admit" /\ down.packet.kind = "data" /\ down.packet.index \in DOMAIN by_index
        => down.packet.key # by_index[down.packet.index].session.key
=============================================================================
