---------------------------- MODULE ServerProofs ----------------------------
(***************************************************************************)
(* Proofs about Server, for any number of peers, addresses and indices.    *)
(*                                                                         *)
(* The safety invariants hold together or not at all: TableConsistent      *)
(* needs NoCollision at the insertion of a session, AuthenticSource and    *)
(* UplinkIsolated need SessionsOwned at the moment of decryption and       *)
(* encryption, and SessionsOwned needs TableConsistent.  Their conjunction *)
(* with TypeOK is inductive.                                               *)
(***************************************************************************)
EXTENDS Server, TLAPS, SequenceTheorems, FiniteSetTheorems

USE TunnelIpAssumption, StrangersAssumption, IndexAssumption, ServerNatAssumption

\* The safety invariants of Server, which are proved together.
Safe ==
    /\ TableConsistent /\ SessionsOwned
    /\ NoCollision /\ AuthenticSource /\ UplinkIsolated

\* decrypt keeps a session a session, with its index and its key.
LEMMA AfterDecryptType ==
    ASSUME NEW s \in Session, NEW packet, packet.nonce \in Noise!Nonce
    PROVE  /\ Noise!AfterDecrypt(s, packet) \in Session
           /\ Noise!AfterDecrypt(s, packet).index = s.index
           /\ Noise!AfterDecrypt(s, packet).key = s.key
  BY DEF Session, Noise!AfterDecrypt, Noise!Checked, Noise!IsFresh, Noise!Nonce

\* So does encrypt, as long as snow still has a nonce to seal with.
LEMMA AfterEncryptType ==
    ASSUME NEW s \in Session, Noise!CanEncrypt(s)
    PROVE  /\ Noise!AfterEncrypt(s) \in Session
           /\ Noise!AfterEncrypt(s).index = s.index
           /\ Noise!AfterEncrypt(s).key = s.key
<1>1. /\ (s.send_nonce + 1) % (MaxNonce + 1) \in Noise!Nonce
      /\ s.snow_nonce + 1 \in Noise!Nonce
  BY DEF Session, Noise!CanEncrypt, Noise!Nonce
<1> QED BY <1>1 DEF Session, Noise!AfterEncrypt

\* Every datagram that can arrive is a packet.
LEMMA PacketType ==
    ASSUME TypeOK, NEW packet \in InitPacket \cup DataPackets
    PROVE  packet \in Packet
<1>1. CASE packet \in InitPacket
  BY <1>1 DEF Packet
<1>2. CASE packet \in DataPackets
  <2>1. ASSUME NEW k \in Key, NEW n \in Noise!Nonce, NEW inner \in Inner
        PROVE  DataPacket(keys[k].index, k, n, inner) \in Packet
    <3>1. keys[k] \in [peer : Peers, index : Index]
      BY ElementOfSeq DEF TypeOK, TableType, Key
    <3>2. keys[k].index \in Index
      BY <3>1
    <3> QED BY <3>2 DEF Packet, DataPacket
  <2>2. ASSUME NEW i \in Index, NEW n \in Noise!Nonce
        PROVE  DataPacket(i, NoKey, n, KeepalivePlain) \in Packet
    BY DEF Packet, DataPacket, Inner
  <2> QED BY <1>2, <2>1, <2>2 DEF DataPackets
<1> QED BY <1>1, <1>2

\* The types that mention the keys depend on nothing else.
LEMMA TypesUnchanged ==
    ASSUME keys' = keys
    PROVE  /\ Key' = Key /\ Session' = Session /\ LiveSessions' = LiveSessions
           /\ Packet' = Packet /\ DownState' = DownState /\ UpState' = UpState
<1>1. Key' = Key
  BY DEF Key
<1>2. Session' = Session /\ Packet' = Packet
  BY <1>1 DEF Session, Packet
<1> QED BY <1>1, <1>2 DEF LiveSessions, DownState, UpState

\* A handshake adds one key and leaves the earlier ones as they were.
LEMMA KeysGrow ==
    ASSUME TypeOK, NEW e \in [peer : Peers, index : Index], keys' = Append(keys, e)
    PROVE  /\ keys' \in Seq([peer : Peers, index : Index])
           /\ Len(keys') = Len(keys) + 1 /\ Len(keys) \in Nat
           /\ \A k \in Key : k \in Key' /\ keys'[k] = keys[k]
           /\ Len(keys) + 1 \in Key'
           /\ keys'[Len(keys) + 1] = e
  BY DEF TypeOK, TableType, Key

\* What handle_handshake holds once it has chosen an index.
LEMMA AtFinish ==
    ASSUME TaskType, down.at = "finish"
    PROVE  down.packet \in Packet /\ down.src \in Addr /\ down.index \in Index
  BY DEF TaskType, DownState, Idle, Ended

\* What the downlink holds when it looks up the session.
LEMMA AtDecrypt ==
    ASSUME TaskType, down.at = "decrypt"
    PROVE  /\ down.packet \in Packet /\ down.src \in Addr
           /\ down.packet.index \in Index /\ down.packet.nonce \in Noise!Nonce
           /\ down.packet.key \in Key \cup {NoKey} /\ down.packet.plain \in Inner
<1>1. down.packet \in Packet /\ down.src \in Addr
  BY DEF TaskType, DownState, Idle, Ended
<1> QED BY <1>1 DEF Packet, InitPacket, TaskType

\* The insertion of a session preserves the types; the new key enlarges the set of
\* keys and with it the types that mention keys.
LEMMA InsertType == ASSUME TypeOK, HandshakeInserts PROVE TypeOK'
<1> DEFINE peer == down.packet.from
<1> DEFINE ip == TunnelIp[peer]
<1> DEFINE kept == Without(by_index, Replaced(ip))
<1> DEFINE live == LiveSession(down.index, Len(keys) + 1, down.src, ip)
<1>1. /\ down.index \in Index /\ down.src \in Addr /\ peer \in Peers /\ ip \in Ip
  BY AtFinish DEF HandshakeInserts, AcceptedPeer, TypeOK
<1>2. DOMAIN kept \subseteq DOMAIN by_index /\ \A i \in DOMAIN kept : kept[i] = by_index[i]
  BY DEF Without
<1>3. CASE down.index \in DOMAIN kept
  <2>1. /\ by_index' = kept /\ by_ip' = Without(by_ip, {ip})
        /\ down' = Idle
        /\ UNCHANGED <<hits, enabled, stats, up, reap, life, keys>>
    BY <1>3 DEF HandshakeInserts, HandshakeFails
  <2>2. TableType'
    BY <1>2, <2>1, TypesUnchanged DEF TypeOK, TableType, Without
  <2>3. TaskType'
    BY <2>1, TypesUnchanged DEF TypeOK, TaskType, DownState, Idle, ReapState
  <2> QED BY <2>1, <2>2, <2>3 DEF TypeOK, stats
<1>4. CASE down.index \notin DOMAIN kept
  <2> DEFINE e == [peer |-> peer, index |-> down.index]
  <2>1. /\ by_index' = With(kept, down.index, live)
        /\ by_ip' = With(by_ip, ip, down.index)
        /\ down' = [at |-> "set_sessions", seen |-> DOMAIN kept \cup {down.index}]
        /\ keys' = Append(keys, e)
        /\ UNCHANGED <<hits, enabled, stats, up, reap, life>>
    BY <1>4 DEF HandshakeInserts
  <2>2. e \in [peer : Peers, index : Index]
    BY <1>1
  <2> HIDE DEF e, peer, ip
  <2>3. /\ keys' \in Seq([peer : Peers, index : Index])
        /\ \A k \in Key : k \in Key'
        /\ Len(keys) + 1 \in Key'
    BY <2>1, <2>2, KeysGrow
  <2>4. Session \subseteq Session' /\ LiveSessions \subseteq LiveSessions' /\ UpState \subseteq UpState'
    BY <2>3 DEF Session, LiveSessions, UpState
  <2>5. live \in LiveSessions'
    BY <1>1, <2>3 DEF LiveSession, LiveSessions, Noise!NewSession, Session, Noise!Nonce, Noise!EmptyFilter
  <2>6. TableType'
    BY <1>1, <1>2, <2>1, <2>3, <2>4, <2>5 DEF TypeOK, TableType, With
  <2>7. TaskType'
    BY <1>1, <1>2, <2>1, <2>4 DEF TypeOK, TableType, TaskType, DownState, ReapState
  <2> QED BY <2>1, <2>6, <2>7 DEF TypeOK, stats
<1> QED BY <1>3, <1>4

\* Decrypting preserves the types, whether it succeeds or fails.
LEMMA DataType ==
    ASSUME TypeOK, DecryptFails \/ DecryptSucceeds PROVE TypeOK'
<1> DEFINE x == down.packet.index
<1>1. x \in DOMAIN by_index /\ by_index[x] \in LiveSessions /\ down.packet \in Packet
      /\ down.packet.nonce \in Noise!Nonce /\ down.src \in Addr
  BY AtDecrypt DEF DecryptFails, DecryptSucceeds, TypeOK, TableType
<1>2. Noise!AfterDecrypt(by_index[x].session, down.packet) \in Session
  BY <1>1, AfterDecryptType DEF LiveSessions
<1>3. /\ DOMAIN by_index' = DOMAIN by_index
      /\ \A i \in DOMAIN by_index : by_index'[i] \in LiveSessions
  <2> DEFINE s == Noise!AfterDecrypt(by_index[x].session, down.packet)
  <2>1. CASE DecryptFails
    <3>1. by_index' = [by_index EXCEPT ![x] = [by_index[x] EXCEPT !.session = s]]
      BY <2>1 DEF DecryptFails, Live, Received
    <3>2. [by_index[x] EXCEPT !.session = s] \in LiveSessions
      BY <1>1, <1>2 DEF LiveSessions
    <3> QED BY <1>1, <3>1, <3>2 DEF TypeOK, TableType
  <2>2. CASE DecryptSucceeds
    <3>1. by_index' = [by_index EXCEPT ![x] =
           [by_index[x] EXCEPT !.session = s, !.peer_addr = down.src, !.idle = 0]]
      BY <2>2 DEF DecryptSucceeds, Live, Received
    <3>2. [by_index[x] EXCEPT !.session = s, !.peer_addr = down.src, !.idle = 0]
             \in LiveSessions
      BY <1>1, <1>2 DEF LiveSessions
    <3> QED BY <1>1, <3>1, <3>2 DEF TypeOK, TableType
  <2> QED BY <2>1, <2>2
<1>4. UNCHANGED <<by_ip, hits, enabled, stats, up, reap, keys, life>>
  BY DEF DecryptFails, DecryptSucceeds
<1>5. TableType'
  BY <1>3, <1>4, TypesUnchanged DEF TypeOK, TableType
<1>6. down' \in DownState /\ down'.at # "decrypt"
  BY <1>1 DEF DecryptFails, DecryptSucceeds, DownState, Idle, Ended
<1>7. TaskType'
  BY <1>4, <1>6, TypesUnchanged DEF TypeOK, TaskType, ReapState
<1> QED BY <1>4, <1>5, <1>7 DEF TypeOK, stats

\* The number of sessions that set_sessions stores is a number.
LEMMA CountOfIndices == ASSUME NEW S \in SUBSET Index PROVE Cardinality(S) \in Nat
BY FS_Subset, FS_CardinalityType

\* A step that leaves table and keys alone preserves the types if the tasks keep
\* theirs.
LEMMA QuietType ==
    ASSUME TypeOK, UNCHANGED <<by_index, by_ip, keys>>,
           down' \in DownState, down'.at = "decrypt" => down'.packet.kind = "data",
           up' \in UpState, reap' \in ReapState
    PROVE  TableType' /\ TaskType'
<1>1. TableType'
  BY TypesUnchanged DEF TypeOK, TableType
<1>2. TaskType'
  BY TypesUnchanged DEF TaskType, ReapState
<1> QED BY <1>1, <1>2

\* A received datagram leaves the dispatcher typed: what goes on to be decrypted is
\* a data packet.
LEMMA RecvType ==
    ASSUME TypeOK, NEW packet \in InitPacket \cup DataPackets, NEW src \in Addr,
           RecvHandshake(packet, src) \/ RecvData(packet, src)
    PROVE  TypeOK'
<1>1. packet \in Packet
  BY PacketType
<1>2. UNCHANGED <<by_index, by_ip, enabled, sessions, shown, up, reap, keys, life>>
  BY DEF RecvHandshake, RecvData, table, stats
<1>3. down' \in DownState /\ (down'.at = "decrypt" => down'.packet.kind = "data")
  <2>1. CASE RecvHandshake(packet, src)
    BY <1>1, <2>1 DEF RecvHandshake, DownState
  <2>2. CASE RecvData(packet, src)
    <3>1. packet.kind = "data"
      BY <1>1, <2>2 DEF RecvData, FirstByteOne, Packet, InitPacket
    <3> QED BY <1>1, <2>2, <3>1 DEF RecvData, DownState
  <2> QED BY <2>1, <2>2
<1> QED BY <1>2, <1>3, QuietType DEF TypeOK, TaskType

\* The downlink steps that leave table and keys alone preserve the types.
LEMMA HandshakeType ==
    ASSUME TypeOK,
           \/ HandshakeAdmitted \/ HandshakeLimited \/ HandshakeRejected
           \/ HandshakeSetSessions \/ HandshakeSetPeers
           \/ \E i \in Index : alloc_index(i)
           \/ UnknownSession \/ TunWrite \/ RecvFails
    PROVE  TypeOK'
<1>1. UNCHANGED <<by_index, by_ip, enabled, up, reap, keys, life>>
  BY DEF HandshakeAdmitted, HandshakeLimited, HandshakeRejected, HandshakeSetSessions,
         HandshakeSetPeers, alloc_index, UnknownSession, TunWrite, RecvFails, table, stats
<1>2. down \in DownState
  BY DEF TypeOK, TaskType
<1>3. down' \in DownState /\ down'.at # "decrypt"
  <2>1. CASE \/ HandshakeLimited \/ HandshakeRejected \/ HandshakeSetPeers
             \/ UnknownSession \/ TunWrite \/ RecvFails
    BY <2>1 DEF HandshakeLimited, HandshakeRejected, HandshakeSetPeers, UnknownSession,
                TunWrite, RecvFails, HandshakeFails, DownState, Idle, Ended
  <2>2. CASE HandshakeAdmitted
    BY <1>2, <2>2 DEF HandshakeAdmitted, DownState, Idle, Ended
  <2>3. CASE HandshakeSetSessions
    BY <1>2, <2>3 DEF HandshakeSetSessions, DownState, Idle, Ended
  <2>4. CASE \E i \in Index : alloc_index(i)
    BY <1>2, <2>4 DEF alloc_index, DownState, Idle, Ended
  <2> QED BY <2>1, <2>2, <2>3, <2>4
<1>4. sessions' \in Nat /\ shown' \subseteq Index
  <2>1. CASE HandshakeSetSessions
    <3>1. down.seen \subseteq Index
      BY <1>2, <2>1 DEF HandshakeSetSessions, DownState, Idle, Ended
    <3> QED BY <2>1, <3>1, CountOfIndices DEF HandshakeSetSessions, TypeOK, stats
  <2>2. CASE HandshakeSetPeers
    BY <1>2, <2>2 DEF HandshakeSetPeers, DownState, Idle, Ended, TypeOK
  <2> QED BY <2>1, <2>2 DEF HandshakeAdmitted, HandshakeLimited, HandshakeRejected, alloc_index,
                            UnknownSession, TunWrite, RecvFails, stats, TypeOK
<1> QED BY <1>1, <1>3, <1>4, QuietType DEF TypeOK, TaskType

\* The uplink steps that leave the table alone preserve the types.
LEMMA UplinkQuietType ==
    ASSUME TypeOK,
           \/ \E dst \in Ip : TunRead(dst)
           \/ TunReadFails \/ UplinkDrops \/ UplinkSends
    PROVE  TypeOK'
<1>1. UNCHANGED <<by_index, by_ip, enabled, sessions, shown, down, reap, keys, life>>
  BY DEF TunRead, TunReadFails, UplinkDrops, UplinkSends, table, stats
<1>2. up' \in UpState
  BY DEF TunRead, TunReadFails, UplinkDrops, UplinkSends, UpState, Idle, Ended
<1> QED BY <1>1, <1>2, QuietType DEF TypeOK, TaskType

\* Encrypting for a peer preserves the types.
LEMMA UplinkEncryptsType == ASSUME TypeOK, UplinkEncrypts PROVE TypeOK'
<1>1. PICK i \in RouteOf(up.dst) :
          /\ Noise!CanEncrypt(by_index[i].session)
          /\ up' = [at |-> "send", dst |-> up.dst,
                    wire |-> Noise!Encrypted(by_index[i].session, up.dst),
                    to |-> by_index[i].peer_addr]
          /\ by_index' = [by_index EXCEPT ![i] =
                             [by_index[i] EXCEPT
                                !.session = Noise!AfterEncrypt(by_index[i].session),
                                !.idle = 0]]
  BY DEF UplinkEncrypts
<1>2. i \in DOMAIN by_index /\ by_index[i] \in LiveSessions
  BY DEF RouteOf, TypeOK, TableType
<1>3. up.dst \in Ip
  BY DEF UplinkEncrypts, TypeOK, TaskType, UpState, Idle, Ended
<1>4. UNCHANGED <<by_ip, enabled, sessions, shown, down, reap, keys, life>>
  BY DEF UplinkEncrypts, stats
<1>5. Noise!AfterEncrypt(by_index[i].session) \in Session
  BY <1>1, <1>2, AfterEncryptType DEF LiveSessions
<1>6. [by_index[i] EXCEPT !.session = Noise!AfterEncrypt(by_index[i].session), !.idle = 0]
         \in LiveSessions
  BY <1>2, <1>5 DEF LiveSessions
<1>7. TableType'
  BY <1>1, <1>2, <1>4, <1>6, TypesUnchanged DEF TypeOK, TableType
<1>8. up' \in UpState
  BY <1>1, <1>2, <1>3 DEF UpState, LiveSessions, Session, Noise!Encrypted
<1>9. TaskType'
  BY <1>4, <1>8, TypesUnchanged DEF TypeOK, TaskType, ReapState
<1> QED BY <1>4, <1>7, <1>9 DEF TypeOK

\* Expiry preserves the types.
LEMMA ReapType == ASSUME TypeOK, Reap PROVE TypeOK'
<1>1. UNCHANGED <<enabled, sessions, shown, down, up, keys, life>>
  BY DEF Reap, stats
<1>2. TableType'
  BY <1>1, TypesUnchanged DEF Reap, TypeOK, TableType, Without
<1>3. reap' \in ReapState
  BY <1>2 DEF Reap, ReapState, TableType
<1>4. TaskType'
  BY <1>1, <1>3, TypesUnchanged DEF TypeOK, TaskType, ReapState
<1> QED BY <1>1, <1>2, <1>4 DEF TypeOK

\* The passing of time preserves the types.
LEMMA TickType == ASSUME TypeOK, Tick PROVE TypeOK'
<1>1. UNCHANGED <<by_ip, enabled, sessions, shown, down, up, reap, keys, life>>
  BY DEF Tick, stats
<1>2. ASSUME NEW i \in DOMAIN by_index
      PROVE  [by_index[i] EXCEPT !.idle = Older(@)] \in LiveSessions
  BY DEF TypeOK, TableType, LiveSessions, Older
<1>3. TableType'
  BY <1>1, <1>2, TypesUnchanged DEF Tick, TypeOK, TableType
<1>4. TaskType'
  BY <1>1, TypesUnchanged DEF TypeOK, TaskType, ReapState
<1> QED BY <1>1, <1>3, <1>4 DEF TypeOK

\* The statistics, the switch and the shutdown preserve the types.
LEMMA ReaperQuietType ==
    ASSUME TypeOK,
           \/ ReapSetSessions \/ ReapSetPeers \/ ReaperStops
           \/ CtrlC \/ TaskEnded \/ Exit
           \/ \E on \in BOOLEAN : set_enabled(on)
    PROVE  TypeOK'
<1>1. UNCHANGED <<by_index, by_ip, down, up, keys>>
  BY DEF ReapSetSessions, ReapSetPeers, ReaperStops, CtrlC, TaskEnded, Exit, set_enabled,
         table, stats
<1>2. reap \in ReapState
  BY DEF TypeOK, TaskType
<1>3. reap' \in ReapState
  BY <1>2 DEF ReapSetSessions, ReapSetPeers, ReaperStops, CtrlC, TaskEnded, Exit,
              set_enabled, ReapState, Idle, Ended
<1>4. sessions' \in Nat /\ shown' \subseteq Index
  <2>1. CASE ReapSetSessions
    <3>1. reap.seen \subseteq Index
      BY <1>2, <2>1 DEF ReapSetSessions, ReapState, Idle, Ended
    <3> QED BY <2>1, <3>1, CountOfIndices DEF ReapSetSessions, TypeOK
  <2>2. CASE ReapSetPeers
    BY <1>2, <2>2 DEF ReapSetPeers, ReapState, Idle, Ended, TypeOK
  <2> QED BY <2>1, <2>2 DEF ReaperStops, CtrlC, TaskEnded, Exit, set_enabled, stats, TypeOK
<1>5. enabled' \in BOOLEAN /\ life' \in {"up", "stopping", "exited"}
  BY DEF ReapSetSessions, ReapSetPeers, ReaperStops, CtrlC, TaskEnded, Exit, set_enabled, TypeOK
<1> QED BY <1>1, <1>3, <1>4, <1>5, QuietType DEF TypeOK, TaskType

-----------------------------------------------------------------------------
(* The session table. *)

\* Steps that keep, for every session, its index, key and tunnel address.
LEMMA SameSessions ==
    ASSUME TypeOK, Safe, UNCHANGED <<by_ip, keys>>,
           DOMAIN by_index' = DOMAIN by_index,
           \A i \in DOMAIN by_index :
              /\ by_index'[i].tunnel_ip = by_index[i].tunnel_ip
              /\ by_index'[i].session.index = by_index[i].session.index
              /\ by_index'[i].session.key = by_index[i].session.key,
           \/ down' = down
           \/ down'.at \notin {"finish", "tun_write"}
           \/ down'.at = "tun_write" /\ AuthenticSource',
           up' = up \/ up'.at # "send" \/ UplinkIsolated'
    PROVE  Safe'
<1>1. TableConsistent'
  BY DEF Safe, TableConsistent, TypeOK, TableType
<1>2. SessionsOwned'
  BY DEF Safe, SessionsOwned
<1>3. NoCollision'
  BY DEF Safe, NoCollision
<1>4. AuthenticSource'
  BY DEF Safe, AuthenticSource, Key
<1>5. UplinkIsolated'
  BY DEF Safe, UplinkIsolated
<1> QED BY <1>1, <1>2, <1>3, <1>4, <1>5 DEF Safe

\* alloc_index returns an index that is free.
LEMMA AllocSafe ==
    ASSUME TypeOK, Safe, NEW i \in Index, alloc_index(i)
    PROVE  Safe'
<1>1. UNCHANGED <<by_index, by_ip, keys, up>> /\ down'.at = "finish" /\ down'.index = i
      /\ i \notin DOMAIN by_index
  BY DEF alloc_index, table, FreeIndex
<1>2. TableConsistent' /\ SessionsOwned'
  BY <1>1 DEF Safe, TableConsistent, SessionsOwned
<1>3. NoCollision'
  BY <1>1 DEF NoCollision
<1>4. AuthenticSource' /\ UplinkIsolated'
  BY <1>1 DEF Safe, AuthenticSource, UplinkIsolated
<1> QED BY <1>2, <1>3, <1>4 DEF Safe

\* The packet that goes on to the TUN device has the source address of the peer
\* whose key it was sealed under.
LEMMA DecryptSafe ==
    ASSUME TypeOK, Safe, DecryptFails \/ DecryptSucceeds
    PROVE  Safe'
<1> DEFINE x == down.packet.index
<1>1. /\ down.at = "decrypt" /\ x \in DOMAIN by_index /\ by_index[x] \in LiveSessions
      /\ down.packet.nonce \in Noise!Nonce /\ down.packet.kind = "data"
  BY AtDecrypt DEF DecryptFails, DecryptSucceeds, TypeOK, TableType, TaskType
<1>2. /\ Received.index = by_index[x].session.index
      /\ Received.key = by_index[x].session.key
  BY <1>1, AfterDecryptType DEF LiveSessions, Live, Received
<1>3. UNCHANGED <<by_ip, keys, up>>
  BY DEF DecryptFails, DecryptSucceeds
<1>4. /\ DOMAIN by_index' = DOMAIN by_index
      /\ \A i \in DOMAIN by_index :
            /\ by_index'[i].tunnel_ip = by_index[i].tunnel_ip
            /\ by_index'[i].session.index = by_index[i].session.index
            /\ by_index'[i].session.key = by_index[i].session.key
  <2>1. CASE DecryptFails
    BY <1>1, <1>2, <2>1 DEF DecryptFails, Live, LiveSessions
  <2>2. CASE DecryptSucceeds
    BY <1>1, <1>2, <2>2 DEF DecryptSucceeds, Live, LiveSessions
  <2> QED BY <2>1, <2>2
<1>5. CASE down'.at \notin {"finish", "tun_write"}
  BY <1>3, <1>4, <1>5, SameSessions
<1>6. CASE DecryptSucceeds /\ PolicyAllows(down.packet.plain, Live.tunnel_ip)
  <2>1. down' = [at |-> "tun_write", packet |-> down.packet]
    BY <1>6 DEF DecryptSucceeds
  <2>2. /\ down.packet.key = by_index[x].session.key
        /\ down.packet.plain = by_index[x].tunnel_ip
    BY <1>6 DEF DecryptSucceeds, PolicyAllows, Noise!Decrypts, Live
  <2>3. by_index[x].session.key \in Key
    BY <1>1 DEF LiveSessions, Session
  <2>4. by_index[x].tunnel_ip = TunnelIp[keys[by_index[x].session.key].peer]
    BY <1>1 DEF Safe, SessionsOwned
  <2>5. AuthenticSource'
    BY <1>1, <1>3, <2>1, <2>2, <2>3, <2>4 DEF AuthenticSource, Key
  <2> QED BY <1>3, <1>4, <2>1, <2>5, SameSessions
<1>7. CASE ~ (DecryptSucceeds /\ PolicyAllows(down.packet.plain, Live.tunnel_ip))
  BY <1>5, <1>7 DEF DecryptFails, DecryptSucceeds, Idle
<1> QED BY <1>6, <1>7

\* A destination leads to the session of the peer that owns it, so the packet is
\* sealed under that peer's key.
LEMMA UplinkEncryptsSafe == ASSUME TypeOK, Safe, UplinkEncrypts PROVE Safe'
<1>1. PICK i \in RouteOf(up.dst) :
          /\ Noise!CanEncrypt(by_index[i].session)
          /\ up' = [at |-> "send", dst |-> up.dst,
                    wire |-> Noise!Encrypted(by_index[i].session, up.dst),
                    to |-> by_index[i].peer_addr]
          /\ by_index' = [by_index EXCEPT ![i] =
                             [by_index[i] EXCEPT
                                !.session = Noise!AfterEncrypt(by_index[i].session),
                                !.idle = 0]]
  BY DEF UplinkEncrypts
<1>2. /\ i \in DOMAIN by_index /\ by_index[i] \in LiveSessions
      /\ by_index[i].tunnel_ip = up.dst
  BY DEF RouteOf, TypeOK, TableType, Safe, TableConsistent
<1>3. UNCHANGED <<by_ip, keys, down>>
  BY DEF UplinkEncrypts
<1>4. /\ Noise!AfterEncrypt(by_index[i].session).index = by_index[i].session.index
      /\ Noise!AfterEncrypt(by_index[i].session).key = by_index[i].session.key
  BY <1>1, <1>2, AfterEncryptType DEF LiveSessions
<1>5. /\ DOMAIN by_index' = DOMAIN by_index
      /\ \A j \in DOMAIN by_index :
            /\ by_index'[j].tunnel_ip = by_index[j].tunnel_ip
            /\ by_index'[j].session.index = by_index[j].session.index
            /\ by_index'[j].session.key = by_index[j].session.key
  BY <1>1, <1>2, <1>4 DEF LiveSessions
<1>6. up'.dst = up.dst /\ up'.wire.key = by_index[i].session.key
  BY <1>1 DEF Noise!Encrypted
<1>7. TunnelIp[keys[by_index[i].session.key].peer] = up.dst
  BY <1>2 DEF Safe, SessionsOwned
<1>8. UplinkIsolated'
  BY <1>3, <1>6, <1>7 DEF UplinkIsolated
<1> QED BY <1>3, <1>5, <1>8, SameSessions

\* The passing of time preserves the invariant.
LEMMA TickSafe == ASSUME TypeOK, Safe, Tick PROVE Safe'
<1>1. UNCHANGED <<by_ip, keys, down, up>>
  BY DEF Tick
<1>2. /\ DOMAIN by_index' = DOMAIN by_index
      /\ \A i \in DOMAIN by_index :
            /\ by_index'[i].tunnel_ip = by_index[i].tunnel_ip
            /\ by_index'[i].session.index = by_index[i].session.index
            /\ by_index'[i].session.key = by_index[i].session.key
  BY DEF Tick, TypeOK, TableType, LiveSessions
<1> QED BY <1>1, <1>2, SameSessions

\* The reaper takes a stale session and its address out together.
LEMMA ReapSafe == ASSUME TypeOK, Safe, Reap PROVE Safe'
<1>1. UNCHANGED <<keys, down, up>>
  BY DEF Reap
<1>2. /\ DOMAIN by_index' = DOMAIN by_index \ Stale
      /\ \A i \in DOMAIN by_index' : by_index'[i] = by_index[i]
  BY DEF Reap, Without
<1>3. /\ DOMAIN by_ip' = DOMAIN by_ip \ StaleIps
      /\ \A ip \in DOMAIN by_ip' : by_ip'[ip] = by_ip[ip]
  BY DEF Reap, Without
<1>4. \A ip \in DOMAIN by_ip : by_ip[ip] \in Stale <=> ip \in StaleIps
  BY DEF Safe, TableConsistent, StaleIps
<1>5. TableConsistent'
  BY <1>2, <1>3, <1>4 DEF Safe, TableConsistent
<1>6. SessionsOwned'
  BY <1>1, <1>2 DEF Safe, SessionsOwned
<1>7. NoCollision' /\ AuthenticSource' /\ UplinkIsolated'
  BY <1>1, <1>2 DEF Safe, NoCollision, AuthenticSource, UplinkIsolated, Key
<1> QED BY <1>5, <1>6, <1>7 DEF Safe

\* A handshake replaces the session of its own peer and no other.
LEMMA InsertSafe == ASSUME TypeOK, Safe, HandshakeInserts PROVE Safe'
<1> DEFINE peer == down.packet.from
<1> DEFINE ip == TunnelIp[peer]
<1> DEFINE kept == Without(by_index, Replaced(ip))
<1> DEFINE live == LiveSession(down.index, Len(keys) + 1, down.src, ip)
<1> DEFINE e == [peer |-> peer, index |-> down.index]
<1>1. /\ down.at = "finish" /\ down.index \in Index /\ peer \in Peers /\ ip \in Ip
  BY AtFinish DEF HandshakeInserts, AcceptedPeer, TypeOK
<1>2. /\ DOMAIN kept = DOMAIN by_index \ Replaced(ip)
      /\ \A i \in DOMAIN kept : kept[i] = by_index[i]
  BY DEF Without
<1>3. down.index \notin DOMAIN by_index
  BY <1>1 DEF Safe, NoCollision
<1>4. /\ by_index' = With(kept, down.index, live)
      /\ by_ip' = With(by_ip, ip, down.index)
      /\ down' = [at |-> "set_sessions", seen |-> DOMAIN kept \cup {down.index}]
      /\ keys' = Append(keys, e)
      /\ UNCHANGED up
  BY <1>2, <1>3 DEF HandshakeInserts
<1>5. e \in [peer : Peers, index : Index]
  BY <1>1
<1>6. /\ \A k \in Key : k \in Key' /\ keys'[k] = keys[k]
      /\ keys'[Len(keys) + 1] = e
  BY <1>4, <1>5, KeysGrow
<1>7. /\ live.tunnel_ip = ip /\ live.session.index = down.index
      /\ live.session.key = Len(keys) + 1
  BY DEF LiveSession, Noise!NewSession
<1>8. e.peer = peer /\ e.index = down.index
  OBVIOUS
<1> HIDE DEF peer, ip, kept, live, e
<1>9. /\ DOMAIN by_index' = DOMAIN kept \cup {down.index}
      /\ by_index'[down.index] = live
      /\ \A i \in DOMAIN kept : by_index'[i] = by_index[i]
      /\ DOMAIN by_ip' = DOMAIN by_ip \cup {ip}
      /\ by_ip'[ip] = down.index
      /\ \A a \in DOMAIN by_ip : a # ip => by_ip'[a] = by_ip[a]
  BY <1>2, <1>3, <1>4 DEF With
<1>10. \A i \in DOMAIN kept : by_index[i].tunnel_ip # ip
  BY <1>2 DEF Safe, TableConsistent, Replaced
<1>11. \A a \in DOMAIN by_ip : a # ip => by_ip[a] \in DOMAIN kept
  BY <1>2 DEF Safe, TableConsistent, Replaced
<1>12. TableConsistent'
  BY <1>2, <1>7, <1>9, <1>10, <1>11 DEF Safe, TableConsistent
<1>13. SessionsOwned'
  <2>1. ASSUME NEW i \in DOMAIN kept
        PROVE  /\ by_index'[i].session.index = i
               /\ keys'[by_index'[i].session.key].index = i
               /\ by_index'[i].tunnel_ip = TunnelIp[keys'[by_index'[i].session.key].peer]
    <3>1. i \in DOMAIN by_index /\ by_index'[i] = by_index[i]
      BY <1>2, <1>9
    <3>2. by_index[i].session.key \in Key
      BY <3>1 DEF TypeOK, TableType, LiveSessions, Session
    <3> QED BY <1>6, <3>1, <3>2 DEF Safe, SessionsOwned
  <2>2. /\ by_index'[down.index].session.index = down.index
        /\ keys'[by_index'[down.index].session.key].index = down.index
        /\ by_index'[down.index].tunnel_ip
              = TunnelIp[keys'[by_index'[down.index].session.key].peer]
    BY <1>6, <1>7, <1>8, <1>9 DEF ip
  <2> QED BY <1>9, <2>1, <2>2 DEF SessionsOwned
<1>14. NoCollision' /\ AuthenticSource'
  BY <1>4 DEF NoCollision, AuthenticSource
<1>15. UplinkIsolated'
  <2>1. up.at = "send" => up.wire.key \in Key
    BY DEF TypeOK, TaskType, UpState, Idle, Ended
  <2> QED BY <1>4, <1>6, <2>1 DEF Safe, UplinkIsolated
<1> QED BY <1>12, <1>13, <1>14, <1>15 DEF Safe

-----------------------------------------------------------------------------
(* The invariant. *)

Inv == TypeOK /\ Safe

\* The server starts in the invariant.
LEMMA InitInv == Init => Inv
<1> SUFFICES ASSUME Init PROVE Inv
  OBVIOUS
<1>1. DOMAIN by_index = {} /\ DOMAIN by_ip = {} /\ Len(keys) = 0
  BY DEF Init
<1>2. TypeOK
  BY <1>1 DEF Init, TypeOK, TableType, TaskType, DownState, UpState, ReapState, Idle
<1>3. Safe
  BY <1>1 DEF Init, Safe, TableConsistent, SessionsOwned, NoCollision, AuthenticSource,
              UplinkIsolated, Idle
<1> QED BY <1>2, <1>3 DEF Inv

\* The steps that change no session.
Quiet ==
    \/ HandshakeAdmitted \/ HandshakeLimited \/ HandshakeRejected
    \/ HandshakeSetSessions \/ HandshakeSetPeers
    \/ UnknownSession \/ TunWrite \/ RecvFails
    \/ \E dst \in Ip : TunRead(dst)
    \/ TunReadFails \/ UplinkDrops \/ UplinkSends
    \/ ReapSetSessions \/ ReapSetPeers
    \/ \E on \in BOOLEAN : set_enabled(on)
    \/ CtrlC \/ TaskEnded \/ ReaperStops \/ Exit

\* Steps that touch neither the table nor the keys preserve the invariant.
LEMMA QuietSafe == ASSUME TypeOK, Safe, Quiet PROVE Safe'
<1>1. UNCHANGED <<by_index, by_ip, keys>>
  BY DEF Quiet, HandshakeAdmitted, HandshakeLimited, HandshakeRejected, HandshakeSetSessions,
         HandshakeSetPeers, UnknownSession, TunWrite, RecvFails, TunRead, TunReadFails, UplinkDrops,
         UplinkSends, ReapSetSessions, ReapSetPeers, set_enabled, CtrlC, TaskEnded,
         ReaperStops, Exit, table
<1>2. down' = down \/ down'.at \notin {"finish", "tun_write"}
  <2>1. down \in DownState
    BY DEF TypeOK, TaskType
  <2>2. CASE HandshakeAdmitted
    BY <2>1, <2>2 DEF HandshakeAdmitted, DownState, Idle, Ended
  <2>3. CASE HandshakeSetSessions
    BY <2>1, <2>3 DEF HandshakeSetSessions, DownState, Idle, Ended
  <2> QED
    BY <2>2, <2>3 DEF Quiet, HandshakeLimited, HandshakeRejected, HandshakeFails,
       HandshakeSetPeers, UnknownSession, TunWrite, RecvFails, TunRead, TunReadFails, UplinkDrops,
       UplinkSends, ReapSetSessions, ReapSetPeers, set_enabled, CtrlC, TaskEnded,
       ReaperStops, Exit, Idle, Ended
<1>3. up' = up \/ up'.at # "send"
  BY DEF Quiet, HandshakeAdmitted, HandshakeLimited, HandshakeRejected, HandshakeSetSessions,
         HandshakeSetPeers, UnknownSession, TunWrite, RecvFails, TunRead, TunReadFails, UplinkDrops,
         UplinkSends, ReapSetSessions, ReapSetPeers, set_enabled, CtrlC, TaskEnded,
         ReaperStops, Exit, Idle, Ended
<1> QED BY <1>1, <1>2, <1>3, SameSessions

\* Receiving a datagram preserves the invariant.
LEMMA RecvSafe == ASSUME TypeOK, Safe, Recv PROVE Safe'
<1>1. UNCHANGED <<by_index, by_ip, keys, up>> /\ down'.at \notin {"finish", "tun_write"}
  BY DEF Recv, RecvHandshake, RecvData, table
<1> QED BY <1>1, SameSessions

\* Every step preserves the invariant.
LEMMA NextInv == Inv /\ [Next]_vars => Inv'
<1> SUFFICES ASSUME TypeOK, Safe, [Next]_vars PROVE TypeOK' /\ Safe'
  BY DEF Inv
<1>1. CASE Recv
  BY <1>1, RecvType, RecvSafe DEF Recv
<1>2. CASE Quiet
  BY <1>2, QuietSafe, HandshakeType, UplinkQuietType, ReaperQuietType DEF Quiet
<1>3. CASE \E i \in Index : alloc_index(i)
  BY <1>3, AllocSafe, HandshakeType
<1>4. CASE HandshakeInserts
  BY <1>4, InsertType, InsertSafe
<1>5. CASE DecryptFails \/ DecryptSucceeds
  BY <1>5, DataType, DecryptSafe
<1>6. CASE UplinkEncrypts
  BY <1>6, UplinkEncryptsType, UplinkEncryptsSafe
<1>7. CASE Reap
  BY <1>7, ReapType, ReapSafe
<1>8. CASE Tick
  BY <1>8, TickType, TickSafe
<1>9. CASE UNCHANGED vars
  <2>1. UNCHANGED <<by_index, by_ip, enabled, sessions, shown, down, up, reap, life, keys>>
    BY <1>9 DEF vars
  <2>2. TypeOK'
    BY <2>1, QuietType DEF TypeOK, TaskType
  <2>3. Safe'
    BY <2>1, SameSessions
  <2> QED BY <2>2, <2>3
<1> QED
  BY <1>1, <1>2, <1>3, <1>4, <1>5, <1>6, <1>7, <1>8, <1>9
  DEF Next, handle_handshake, Data, Forward, Reaper, Quiet

\* For any number of peers, addresses, indices and handshakes: the server's state
\* stays well typed.
THEOREM TypeCorrect == Spec => []TypeOK
<1>1. Inv => TypeOK
  BY DEF Inv
<1> QED BY <1>1, InitInv, NextInv, PTL DEF Spec

\* by_ip and by_index stay inverse to each other through handshakes, expiry and
\* traffic in any order.
THEOREM TableStaysConsistent == Spec => []TableConsistent
<1>1. Inv => TableConsistent
  BY DEF Inv, Safe
<1> QED BY <1>1, InitInv, NextInv, PTL DEF Spec

\* Every session in the table belongs to the peer whose handshake made its key.
THEOREM SessionsStayOwned == Spec => []SessionsOwned
<1>1. Inv => SessionsOwned
  BY DEF Inv, Safe
<1> QED BY <1>1, InitInv, NextInv, PTL DEF Spec

\* The index chosen in handle_handshake is free when the session is inserted.
THEOREM CollisionNeverHappens == Spec => []NoCollision
<1>1. Inv => NoCollision
  BY DEF Inv, Safe
<1> QED BY <1>1, InitInv, NextInv, PTL DEF Spec

\* A packet written to the TUN device has the source address of the peer that
\* sealed it.
THEOREM SourceIsAuthentic == Spec => []AuthenticSource
<1>1. Inv => AuthenticSource
  BY DEF Inv, Safe
<1> QED BY <1>1, InitInv, NextInv, PTL DEF Spec

\* A packet read from the TUN device is sealed for the owner of its destination.
THEOREM UplinkIsIsolated == Spec => []UplinkIsolated
<1>1. Inv => UplinkIsolated
  BY DEF Inv, Safe
<1> QED BY <1>1, InitInv, NextInv, PTL DEF Spec

-----------------------------------------------------------------------------
(* Action properties. *)

\* What each step does to by_index, as far as the action properties need it.
LEMMA InsertEffect ==
    ASSUME Inv, HandshakeInserts
    PROVE  /\ \A i \in DOMAIN by_index \cap DOMAIN by_index' : by_index'[i] = by_index[i]
           /\ \A i \in DOMAIN by_index \ DOMAIN by_index' :
                 \E j \in DOMAIN by_index' :
                    /\ by_index'[j].tunnel_ip = by_index[i].tunnel_ip
                    /\ by_index'[j].session.key > by_index[i].session.key
<1> DEFINE ip == TunnelIp[down.packet.from]
<1> DEFINE kept == Without(by_index, Replaced(ip))
<1> DEFINE live == LiveSession(down.index, Len(keys) + 1, down.src, ip)
<1>1. down.index \notin DOMAIN by_index
  BY DEF HandshakeInserts, AcceptedPeer, Inv, Safe, NoCollision
<1>2. /\ DOMAIN kept = DOMAIN by_index \ Replaced(ip)
      /\ \A i \in DOMAIN kept : kept[i] = by_index[i]
  BY DEF Without
<1>3. by_index' = With(kept, down.index, live)
  BY <1>1, <1>2 DEF HandshakeInserts
<1>4. live.tunnel_ip = ip /\ live.session.key = Len(keys) + 1
  BY DEF LiveSession, Noise!NewSession
<1> HIDE DEF ip, kept, live
<1>5. /\ DOMAIN by_index' = DOMAIN kept \cup {down.index}
      /\ by_index'[down.index] = live
      /\ \A i \in DOMAIN kept : by_index'[i] = by_index[i]
  BY <1>1, <1>2, <1>3 DEF With
<1>6. ASSUME NEW i \in DOMAIN by_index \ DOMAIN by_index'
      PROVE  /\ by_index'[down.index].tunnel_ip = by_index[i].tunnel_ip
             /\ by_index'[down.index].session.key > by_index[i].session.key
  <2>1. ip \in DOMAIN by_ip /\ by_ip[ip] = i
    BY <1>2, <1>5 DEF Replaced
  <2>2. by_index[i].tunnel_ip = ip
    BY <2>1 DEF Inv, Safe, TableConsistent
  <2>3. by_index[i].session.key \in 1 .. Len(keys) /\ Len(keys) \in Nat
    BY DEF Inv, TypeOK, TableType, LiveSessions, Session, Key
  <2> QED BY <1>4, <1>5, <2>2, <2>3
<1> QED BY <1>1, <1>2, <1>5, <1>6

\* Decrypting ends no session and moves an endpoint only as EndpointMove allows.
LEMMA ReceiveEffect ==
    ASSUME Inv, DecryptFails \/ DecryptSucceeds
    PROVE  /\ DOMAIN by_index' = DOMAIN by_index
           /\ \A i \in DOMAIN by_index : by_index'[i].session.key = by_index[i].session.key
           /\ EndpointMove
<1> DEFINE x == down.packet.index
<1>1. /\ down.at = "decrypt" /\ x \in DOMAIN by_index /\ by_index[x] \in LiveSessions
      /\ down.packet.nonce \in Noise!Nonce
  BY AtDecrypt DEF DecryptFails, DecryptSucceeds, Inv, TypeOK, TableType, TaskType
<1>2. Received.key = by_index[x].session.key
  BY <1>1, AfterDecryptType DEF LiveSessions, Live, Received
<1>3. CASE DecryptFails
  <2>1. /\ DOMAIN by_index' = DOMAIN by_index
        /\ \A i \in DOMAIN by_index :
              /\ by_index'[i].session.key = by_index[i].session.key
              /\ by_index'[i].peer_addr = by_index[i].peer_addr
    BY <1>1, <1>2, <1>3 DEF DecryptFails, Live, LiveSessions
  <2> QED BY <2>1 DEF EndpointMove
<1>4. CASE DecryptSucceeds
  <2>1. /\ DOMAIN by_index' = DOMAIN by_index
        /\ \A i \in DOMAIN by_index :
              /\ by_index'[i].session.key = by_index[i].session.key
              /\ i # x => by_index'[i].peer_addr = by_index[i].peer_addr
        /\ by_index'[x].peer_addr = down.src
    BY <1>1, <1>2, <1>4 DEF DecryptSucceeds, Live, LiveSessions
  <2>2. /\ down.packet.key = by_index[x].session.key
        /\ down.packet.nonce \notin by_index[x].session.replay.taken
    BY <1>4 DEF DecryptSucceeds, Noise!Decrypts, Noise!IsFresh, Live
  <2> QED BY <1>1, <2>1, <2>2 DEF EndpointMove
<1> QED BY <1>3, <1>4

\* Steps that neither move an endpoint nor end a session.
LEMMA OtherEffect ==
    ASSUME Inv,
           \/ Recv \/ Quiet \/ UplinkEncrypts \/ Tick \/ UNCHANGED vars
           \/ \E i \in Index : alloc_index(i)
    PROVE  /\ DOMAIN by_index' = DOMAIN by_index
           /\ \A i \in DOMAIN by_index :
                 /\ by_index'[i].session.key = by_index[i].session.key
                 /\ by_index'[i].peer_addr = by_index[i].peer_addr
<1>1. CASE UplinkEncrypts
  <2>1. PICK i \in RouteOf(up.dst) :
          /\ Noise!CanEncrypt(by_index[i].session)
          /\ by_index' = [by_index EXCEPT ![i] =
                             [by_index[i] EXCEPT
                                !.session = Noise!AfterEncrypt(by_index[i].session),
                                !.idle = 0]]
    BY <1>1 DEF UplinkEncrypts
  <2>2. i \in DOMAIN by_index /\ by_index[i] \in LiveSessions
    BY DEF RouteOf, Inv, TypeOK, TableType
  <2>3. Noise!AfterEncrypt(by_index[i].session).key = by_index[i].session.key
    BY <2>1, <2>2, AfterEncryptType DEF LiveSessions
  <2> QED BY <2>1, <2>2, <2>3 DEF LiveSessions
<1>2. CASE Tick
  BY <1>2 DEF Tick, Inv, TypeOK, TableType, LiveSessions
<1>3. CASE \/ Recv \/ Quiet \/ UNCHANGED vars \/ \E i \in Index : alloc_index(i)
  <2>1. by_index' = by_index
    BY <1>3 DEF Recv, RecvHandshake, RecvData, Quiet, HandshakeAdmitted, HandshakeLimited,
       HandshakeRejected, HandshakeSetSessions, HandshakeSetPeers, UnknownSession, TunWrite, RecvFails,
       TunRead, TunReadFails, UplinkDrops, UplinkSends, ReapSetSessions, ReapSetPeers,
       set_enabled, CtrlC, TaskEnded, ReaperStops, Exit, alloc_index, vars, table
  <2> QED BY <2>1
<1> QED BY <1>1, <1>2, <1>3

\* The reaper removes the stale sessions and leaves the others as they are.
LEMMA ReapEffect ==
    ASSUME Inv, Reap
    PROVE  /\ DOMAIN by_index' = DOMAIN by_index \ Stale
           /\ \A i \in DOMAIN by_index' : by_index'[i] = by_index[i]
BY DEF Reap, Without

\* The steps, grouped by what they do to by_index.
LEMMA StepCases ==
    ASSUME [Next]_vars
    PROVE  \/ HandshakeInserts \/ DecryptFails \/ DecryptSucceeds \/ Reap
           \/ Recv \/ Quiet \/ UplinkEncrypts \/ Tick \/ UNCHANGED vars
           \/ \E i \in Index : alloc_index(i)
BY DEF Next, handle_handshake, Data, Forward, Reaper, Quiet

\* The endpoint of a session moves only to the source of an authentic packet that
\* was never accepted before.
THEOREM EndpointIsAuthenticated == Spec => EndpointAuthenticated
<1>1. Inv /\ [Next]_vars => [EndpointMove]_vars
  <2> SUFFICES ASSUME Inv, [Next]_vars PROVE EndpointMove
    OBVIOUS
  <2>1. CASE HandshakeInserts
    BY <2>1, InsertEffect DEF EndpointMove
  <2>2. CASE DecryptFails \/ DecryptSucceeds
    BY <2>2, ReceiveEffect
  <2>3. CASE Reap
    BY <2>3, ReapEffect DEF EndpointMove
  <2>4. CASE \/ Recv \/ Quiet \/ UplinkEncrypts \/ Tick \/ UNCHANGED vars
             \/ \E i \in Index : alloc_index(i)
    BY <2>4, OtherEffect DEF EndpointMove
  <2> QED BY <2>1, <2>2, <2>3, <2>4, StepCases
<1> QED BY <1>1, InitInv, NextInv, PTL DEF Spec, EndpointAuthenticated

\* A session ends only when it expired or when its own peer made a new handshake.
THEOREM SessionsEndOnlyForAReason == Spec => SessionsEndForAReason
<1>1. Inv /\ [Next]_vars => [SessionEnd]_vars
  <2> SUFFICES ASSUME Inv, [Next]_vars, NEW i \in DOMAIN by_index,
                      by_index[i].session.key \notin LiveKeys'
               PROVE  \/ by_index[i].idle > IdleMax
                      \/ \E j \in DOMAIN by_index' :
                            /\ by_index'[j].tunnel_ip = by_index[i].tunnel_ip
                            /\ by_index'[j].session.key > by_index[i].session.key
    BY DEF SessionEnd
  <2>1. ASSUME i \in DOMAIN by_index', by_index'[i].session.key = by_index[i].session.key
        PROVE  FALSE
    BY <2>1 DEF LiveKeys
  <2>2. CASE HandshakeInserts
    BY <2>1, <2>2, InsertEffect
  <2>3. CASE DecryptFails \/ DecryptSucceeds
    BY <2>1, <2>3, ReceiveEffect
  <2>4. CASE Reap
    BY <2>1, <2>4, ReapEffect DEF Stale
  <2>5. CASE \/ Recv \/ Quiet \/ UplinkEncrypts \/ Tick \/ UNCHANGED vars
             \/ \E k \in Index : alloc_index(k)
    BY <2>1, <2>5, OtherEffect
  <2> QED BY <2>2, <2>3, <2>4, <2>5, StepCases
<1> QED BY <1>1, InitInv, NextInv, PTL DEF Spec, SessionsEndForAReason
=============================================================================
