---------------------------- MODULE TunnelProofs ----------------------------
(***************************************************************************)
(* Proofs about Tunnel: client and server with a network between them, for *)
(* any number of inits, keys, nonces and restarts, any window and any      *)
(* network.                                                                *)
(*                                                                         *)
(* The client's part is a behaviour of Client, so that what ClientProofs   *)
(* establishes holds here.  The rest follows a packet on its way: whatever *)
(* the network, a buffer or a task holds was sealed by the other end, and  *)
(* whatever was written, or is about to be, is recorded in the window of   *)
(* the session, as long as there is one with that key.  A key that is gone *)
(* does not come back: on the server because indices are not drawn twice,  *)
(* on the client because an installed key answers the last init.           *)
(***************************************************************************)
EXTENDS Tunnel, ClientProofs

-----------------------------------------------------------------------------
(* The invariant. *)

\* What may be on its way: an init, and packets that the other end has sealed.
Inits == [kind : {"init"}, from : {Me}, init : 1 .. inits]
SentUp == {S!DataPacket(e[1], e[1], e[2], MyIp) : e \in sealed.set}
Responses == {Response(k) : k \in Key}
SentDown == {DataPacket(e[1], e[2], "ipv4") : e \in s_sealed.set}

Datagrams ==
    [to : {"server"}, packet : Inits \cup SentUp]
    \cup [to : {"client"}, packet : Responses \cup SentDown]

DownStates ==
    {S!Idle}
    \cup [at : {"admit", "alloc"}, packet : Inits, src : {MyAddr}]
    \cup [at : {"finish"}, packet : Inits, src : {MyAddr}, index : {Len(keys) + 1}]
    \cup [at : {"set_sessions", "set_peers"}, seen : SUBSET Nat]
    \cup [at : {"decrypt"}, packet : SentUp, src : {MyAddr}]
    \cup [at : {"tun_write"}, packet : SentUp]

\* Nothing is made up on the way: not on the network, in the server or in the client.
NetHolds == net \in Seq(Datagrams)

ServerHolds ==
    /\ s_down \in DownStates
    /\ s_up.at = "send" => DataPacket(s_up.wire.key, s_up.wire.nonce, "ipv4") \in SentDown

ClientHolds ==
    /\ queue \in Seq(Responses \cup SentDown)
    /\ dn.at \in {"decrypt", "write"} => dn.packet \in Responses \cup SentDown

\* The two counters of a session and its index.
Regular(session) ==
    /\ session.index = session.key
    /\ session.send_nonce = session.snow_nonce

\* The server has the session of its last handshake or none; the key of the session
\* is its index, and so is the number of the handshake.
OneSession ==
    /\ s_keys \in Seq([peer : {Me}, index : Nat]) /\ Len(s_keys) = Len(keys)
    /\ s_down.at \in {"set_sessions", "set_peers"} => Len(keys) > 0
    /\ \A i \in DOMAIN by_index :
          /\ i = Len(keys)
          /\ MyIp \in DOMAIN by_ip /\ by_ip[MyIp] = i
          /\ by_index[i] \in [session : SessionType, peer_addr : {MyAddr},
                              tunnel_ip : {MyIp}, idle : Nat]
          /\ by_index[i].session.key = i
          /\ Regular(by_index[i].session)

\* The client runs and its counters agree.
ClientRuns ==
    /\ phase \in {"starting", "up"}
    /\ Len(keys) <= MaxKeys
    /\ phase = "up" => Regular(slot.session)

\* The packets that are decrypted and not yet written.
ClientWriting ==
    IF dn.at = "write" THEN {<<dn.packet.key, dn.packet.nonce>>} ELSE {}
ServerWriting ==
    IF s_down.at = "tun_write" THEN {<<s_down.packet.key, s_down.packet.nonce>>} ELSE {}

\* The server's window knows what came out there under the key of its session.
UpOnce ==
    /\ s_written.set \subseteq sealed.set
    /\ ServerWriting \cap s_written.set = {}
    /\ \A i \in DOMAIN by_index : \A e \in s_written.set \cup ServerWriting :
          e[1] = i => e[2] \in by_index[i].session.replay.taken

\* So does the client's, and a key under which something came out is older than the
\* session that is about to be installed.
DownOnce ==
    /\ written.set \subseteq s_sealed.set
    /\ ClientWriting \cap written.set = {}
    /\ dn.at = "write" => dn.packet \in SentDown
    /\ phase = "starting" => written.set = {}
    /\ \A e \in written.set \cup ClientWriting :
          /\ phase = "up" /\ e[1] = slot.session.key => e[2] \in slot.session.replay.taken
          /\ Pending => keys[e[1]] < inits

\* The server's counter is ahead of all it has sealed.
ServerSpent ==
    /\ s_sealed.set \subseteq Key \X Noise!Nonce
    /\ \A i \in DOMAIN by_index : \A e \in s_sealed.set :
          e[1] = i => e[2] < by_index[i].session.snow_nonce

\* On a network that keeps order the server sees the inits one by one, each once.
InitsAhead == {net[i].packet.init : i \in {j \in DOMAIN net : net[j].packet.kind = "init"}}
InitInHand ==
    IF s_down.at \in {"admit", "alloc", "finish"} THEN {s_down.packet.init} ELSE {}
InitsDone == {keys[k] : k \in Key}

InOrder ==
    network # "wild" =>
        /\ \A i, j \in DOMAIN net :
              i < j /\ net[i].packet.kind = "init" /\ net[j].packet.kind = "init" =>
                  net[i].packet.init < net[j].packet.init
        /\ \A n \in InitsAhead : \A m \in InitInHand \cup InitsDone : m < n
        /\ \A n \in InitInHand : \A m \in InitsDone : m < n
        /\ \A k, l \in Key : k < l => keys[k] < keys[l]

\* Inductive.
TunnelInv ==
    /\ Inv
    /\ ClientRuns
    /\ NetHolds /\ ServerHolds /\ ClientHolds
    /\ OneSession
    /\ UpOnce
    /\ DownOnce
    /\ ServerSpent
    /\ InOrder

-----------------------------------------------------------------------------
(* The client's part. *)

\* A step of the tunnel is a step of Client, or of the server alone.
LEMMA ClientStep == ClientRuns /\ [TunnelNext]_tunnelVars => [Next]_vars
<1> SUFFICES ASSUME ClientRuns, [TunnelNext]_tunnelVars PROVE [Next]_vars
  OBVIOUS
<1>1. phase \notin {"exited", "failed"}
  BY DEF ClientRuns
<1>2. CASE ClientSendsInit
  BY <1>1, <1>2 DEF ClientSendsInit, Next, Handshake
<1>3. CASE ClientSendsData
  BY <1>1, <1>3 DEF ClientSendsData, Next, Uplink
<1>4. CASE ClientSteps
  BY <1>1, <1>4 DEF ClientSteps, Next, Handshake, Maintenance, Downlink, Uplink
<1>5. CASE ClientWrites
  BY <1>1, <1>5 DEF ClientWrites, Next, Downlink
<1>6. CASE ClientReceives
  <2>1. PICK i \in Arrivable("client") : Arrive(net[i].packet)
    BY <1>6 DEF ClientReceives
  <2>2. net[i].packet \in Arriving
    BY <2>1 DEF Arrive
  <2> QED BY <1>1, <2>1, <2>2 DEF Next, Network
<1>7. CASE ServerInserts
  <2>1. ServerAnswers(s_down.packet.init) /\ s_down.packet.init \in 1 .. inits
    BY <1>7 DEF ServerInserts, ServerAnswers
  <2> QED BY <1>1, <2>1 DEF Next, Network
<1>8. CASE TimePasses
  BY <1>1, <1>8 DEF TimePasses, Next
<1>9. CASE \/ ServerReceives \/ ServerResponds \/ ServerWrites \/ ServerEncrypts
           \/ ServerSends \/ ServerSteps \/ ServerRestarts \/ UNCHANGED tunnelVars
  BY <1>9 DEF ServerReceives, ServerResponds, ServerWrites, ServerEncrypts, ServerSends,
              ServerSteps, ServerRestarts, tunnelVars
<1> QED BY <1>2, <1>3, <1>4, <1>5, <1>6, <1>7, <1>8, <1>9 DEF TunnelNext

-----------------------------------------------------------------------------
(* What keeps the parts of the invariant. *)

\* Packets that were sealed stay sealed, and inits sent.
LEMMA Grows ==
    ASSUME TypeOK, TypeOK', inits <= inits', Len(keys) <= Len(keys'),
           sealed.set \subseteq sealed'.set, s_sealed.set \subseteq s_sealed'.set
    PROVE  /\ Inits \subseteq Inits' /\ SentUp \subseteq SentUp'
           /\ Responses \subseteq Responses' /\ SentDown \subseteq SentDown'
           /\ Datagrams \subseteq Datagrams'
           /\ Seq(Datagrams) \subseteq Seq(Datagrams')
           /\ Seq(Responses \cup SentDown) \subseteq Seq(Responses' \cup SentDown')
<1>1. Key \subseteq Key' /\ Inits \subseteq Inits'
  BY DEF TypeOK, Key, Inits
<1>2. SentUp \subseteq SentUp' /\ Responses \subseteq Responses' /\ SentDown \subseteq SentDown'
  BY <1>1 DEF SentUp, SentDown, Responses
<1>3. Datagrams \subseteq Datagrams'
  BY <1>1, <1>2 DEF Datagrams
<1>4. \A A, B : A \subseteq B => Seq(A) \subseteq Seq(B)
  <2> SUFFICES ASSUME NEW A, NEW B, A \subseteq B, NEW s \in Seq(A) PROVE s \in Seq(B)
    OBVIOUS
  <2> QED BY SeqDef
<1> QED BY <1>1, <1>2, <1>3, <1>4

\* RemoveAt keeps the other elements, in their order.
LEMMA Removed ==
    ASSUME NEW A, NEW s \in Seq(A), NEW i \in DOMAIN s
    PROVE  LET r == SeqX!RemoveAt(s, i)
           IN  /\ r \in Seq(A) /\ Len(r) = Len(s) - 1
               /\ \A j \in DOMAIN r : r[j] = IF j < i THEN s[j] ELSE s[j + 1]
<1> DEFINE a == SubSeq(s, 1, i - 1)
<1> DEFINE b == SubSeq(s, i + 1, Len(s))
<1>1. i \in 1 .. Len(s) /\ Len(s) \in Nat /\ DOMAIN s = 1 .. Len(s)
  BY LenProperties
<1>2. a \in Seq(A) /\ Len(a) = i - 1 /\ \A j \in 1 .. i - 1 : a[j] = s[j]
  BY <1>1
<1>3. b \in Seq(A) /\ Len(b) = Len(s) - i /\ \A j \in 1 .. Len(s) - i : b[j] = s[i + j]
  BY <1>1
<1>4. SeqX!RemoveAt(s, i) = a \o b
  BY DEF SeqX!RemoveAt
<1> HIDE DEF a, b
<1>5. /\ a \o b \in Seq(A) /\ Len(a \o b) = Len(a) + Len(b)
      /\ \A j \in 1 .. Len(a) + Len(b) :
            (a \o b)[j] = IF j <= Len(a) THEN a[j] ELSE b[j - Len(a)]
  BY <1>2, <1>3, ConcatProperties
<1> DEFINE r == a \o b
<1>6. r \in Seq(A) /\ Len(r) = Len(s) - 1
  BY <1>1, <1>2, <1>3, <1>5
<1>7. ASSUME NEW j \in 1 .. Len(s) - 1
      PROVE  (a \o b)[j] = IF j < i THEN s[j] ELSE s[j + 1]
  <2>1. CASE j < i
    BY <1>1, <1>2, <1>3, <1>5, <2>1
  <2>2. CASE ~ (j < i)
    <3>1. j - Len(a) \in 1 .. Len(s) - i /\ ~ (j <= Len(a)) /\ j \in 1 .. Len(a) + Len(b)
      BY <1>1, <1>2, <1>3, <2>2
    <3>2. (a \o b)[j] = b[j - Len(a)]
      BY <1>5, <3>1
    <3>3. b[j - Len(a)] = s[i + (j - Len(a))] /\ i + (j - Len(a)) = j + 1
      BY <1>1, <1>2, <1>3, <3>1
    <3> QED BY <2>2, <3>2, <3>3
  <2> QED BY <2>1, <2>2
<1> HIDE DEF r
<1>8. DOMAIN r = 1 .. Len(s) - 1
  BY <1>6, LenProperties
<1> QED BY <1>4, <1>6, <1>7, <1>8 DEF r

\* The sessions of the table move forward, and none is new.
Forward(live, after) ==
    /\ after \in [session : SessionType, peer_addr : {MyAddr}, tunnel_ip : {MyIp}, idle : Nat]
    /\ after.session.key = live.session.key
    /\ Regular(after.session)
    /\ live.session.snow_nonce <= after.session.snow_nonce
    /\ live.session.replay.taken \subseteq after.session.replay.taken

TableMoves ==
    /\ DOMAIN by_index' \subseteq DOMAIN by_index
    /\ \A i \in DOMAIN by_index' :
          /\ Forward(by_index[i], by_index'[i])
          /\ MyIp \in DOMAIN by_ip' /\ by_ip'[MyIp] = by_ip[MyIp]

\* Mostly the table does not move at all.
LEMMA TableStays == ASSUME TypeOK, OneSession, UNCHANGED <<by_index, by_ip>> PROVE TableMoves
<1> SUFFICES ASSUME NEW i \in DOMAIN by_index PROVE Forward(by_index[i], by_index[i])
  BY DEF TableMoves, OneSession
<1>1. by_index[i].session.snow_nonce \in Nat
  BY ClientAssumption DEF OneSession, SessionType, Noise!Nonce
<1> QED BY <1>1 DEF OneSession, Forward

\* As long as there is no new key, such a table keeps all that is said of it.
LEMMA TableKeeps ==
    ASSUME TunnelInv, TableMoves, UNCHANGED <<keys, s_keys>>,
           s_down'.at \in {"set_sessions", "set_peers"} =>
               s_down.at \in {"set_sessions", "set_peers"}
    PROVE  /\ OneSession'
           /\ s_sealed' = s_sealed => ServerSpent'
           /\ /\ sealed.set \subseteq sealed'.set /\ s_written' = s_written
              /\ ServerWriting' \subseteq ServerWriting
              => UpOnce'
<1>1. UNCHANGED <<Key, SessionType>>
  BY DEF Key, SessionType
<1>2. OneSession'
  BY <1>1 DEF TunnelInv, OneSession, TableMoves, Forward, Regular
<1>3. ASSUME s_sealed' = s_sealed PROVE ServerSpent'
  <2>1. s_sealed'.set \subseteq Key' \X Noise!Nonce
    BY <1>1, <1>3 DEF TunnelInv, ServerSpent
  <2>2. ASSUME NEW i \in DOMAIN by_index', NEW e \in s_sealed.set, e[1] = i
        PROVE  e[2] < by_index'[i].session.snow_nonce
    <3>1. e[2] < by_index[i].session.snow_nonce
      BY <2>2 DEF TunnelInv, ServerSpent, TableMoves
    <3>2. by_index[i].session.snow_nonce <= by_index'[i].session.snow_nonce
      BY <2>2 DEF TableMoves, Forward
    <3>3. /\ e[2] \in Nat /\ by_index[i].session.snow_nonce \in Nat
          /\ by_index'[i].session.snow_nonce \in Nat
      BY <2>2, ClientAssumption
         DEF TunnelInv, OneSession, ServerSpent, TableMoves, Forward, SessionType, Noise!Nonce
    <3> QED BY <3>1, <3>2, <3>3
  <2> QED BY <1>3, <2>1, <2>2 DEF ServerSpent
<1>4. ASSUME sealed.set \subseteq sealed'.set, s_written' = s_written,
             ServerWriting' \subseteq ServerWriting
      PROVE  UpOnce'
  BY <1>4 DEF TunnelInv, UpOnce, TableMoves, Forward
<1> QED BY <1>2, <1>3, <1>4

\* The client's session moves forward, if it is not replaced.
LEMMA KeepsDownOnce ==
    ASSUME TunnelInv, inits' = inits, \A k \in Key : keys'[k] = keys[k],
           phase' = phase, Pending' => Pending,
           s_sealed.set \subseteq s_sealed'.set, written' = written,
           ClientWriting' \subseteq ClientWriting,
           dn'.at = "write" => dn' = dn /\ SentDown \subseteq SentDown',
           phase = "up" =>
               /\ slot'.session.key = slot.session.key
               /\ slot.session.replay.taken \subseteq slot'.session.replay.taken
    PROVE  DownOnce'
<1>1. \A e \in written.set : e[1] \in Key
  BY DEF TunnelInv, DownOnce, ServerSpent
<1>2. \A e \in ClientWriting : e[1] \in Key
  BY DEF TunnelInv, DownOnce, ServerSpent, ClientWriting, SentDown, DataPacket
<1>3. /\ written'.set \subseteq s_sealed'.set /\ ClientWriting' \cap written'.set = {}
      /\ dn'.at = "write" => dn'.packet \in SentDown'
      /\ phase' = "starting" => written'.set = {}
  BY DEF TunnelInv, DownOnce
<1>4. ASSUME NEW e \in written'.set \cup ClientWriting'
      PROVE  /\ phase' = "up" /\ e[1] = slot'.session.key => e[2] \in slot'.session.replay.taken
             /\ Pending' => keys'[e[1]] < inits'
  <2>1. e \in written.set \cup ClientWriting /\ e[1] \in Key
    BY <1>1, <1>2
  <2> QED BY <2>1 DEF TunnelInv, DownOnce
<1> QED BY <1>3, <1>4 DEF DownOnce

\* The order of inits concerns the network, the downlink of the server and the keys.
LEMMA KeepsInOrder ==
    ASSUME TunnelInv, UNCHANGED <<net, network, keys>>, InitInHand' \subseteq InitInHand
    PROVE  InOrder'
<1>1. InitsAhead' = InitsAhead /\ InitsDone' = InitsDone /\ Key' = Key
  BY DEF InitsAhead, InitsDone, Key
<1> QED BY <1>1 DEF TunnelInv, InOrder

\* Other datagrams do not matter.
LEMMA SendKeepsInOrder ==
    ASSUME TunnelInv, UNCHANGED <<network, keys>>, InitInHand' \subseteq InitInHand,
           NEW to, NEW packet, packet.kind # "init", Send(to, packet)
    PROVE  InOrder'
<1>1. CASE net' = net
  BY <1>1, KeepsInOrder
<1>2. CASE net' = Append(net, [to |-> to, packet |-> packet])
  <2>1. /\ DOMAIN net' = 1 .. Len(net) + 1 /\ DOMAIN net = 1 .. Len(net) /\ Len(net) \in Nat
        /\ \A i \in DOMAIN net : net'[i] = net[i]
        /\ net'[Len(net) + 1].packet.kind # "init"
    BY <1>2 DEF TunnelInv, NetHolds
  <2>2. InitsAhead' = InitsAhead /\ InitsDone' = InitsDone /\ Key' = Key
    BY <2>1 DEF InitsAhead, InitsDone, Key
  <2> QED BY <2>1, <2>2 DEF TunnelInv, InOrder
<1> QED BY <1>1, <1>2 DEF Send

\* What is taken from the network was on it, and what stays keeps its order.
LEMMA Taken ==
    ASSUME NetHolds, NEW i \in DOMAIN net, Take(i)
    PROVE  /\ net' \in Seq(Datagrams)
           /\ InitsAhead' \subseteq InitsAhead
           /\ net[i] \in Datagrams
<1>1. net[i] \in Datagrams
  BY LenProperties DEF NetHolds
<1>2. CASE net' = net
  BY <1>1, <1>2 DEF NetHolds, InitsAhead
<1>3. CASE net' = SeqX!RemoveAt(net, i)
  <2>1. /\ net' \in Seq(Datagrams) /\ Len(net') = Len(net) - 1
        /\ \A j \in DOMAIN net' : net'[j] = IF j < i THEN net[j] ELSE net[j + 1]
    BY <1>3, Removed DEF NetHolds
  <2>2. DOMAIN net' = 1 .. Len(net) - 1 /\ DOMAIN net = 1 .. Len(net) /\ Len(net) \in Nat
    BY <2>1, LenProperties DEF NetHolds
  <2>3. \A j \in DOMAIN net' : \E k \in DOMAIN net : net'[j] = net[k]
    <3> SUFFICES ASSUME NEW j \in DOMAIN net' PROVE \E k \in DOMAIN net : net'[j] = net[k]
      OBVIOUS
    <3>1. j \in DOMAIN net /\ j + 1 \in DOMAIN net
      BY <2>2
    <3> QED BY <2>1, <3>1
  <2>4. InitsAhead' \subseteq InitsAhead
    BY <2>3 DEF InitsAhead
  <2> QED BY <1>1, <2>1, <2>4
<1> QED BY <1>2, <1>3 DEF Take

\* So the inits that stay are still in order.
LEMMA TakenInOrder ==
    ASSUME TunnelInv, NEW i \in DOMAIN net, Take(i), network # "wild"
    PROVE  \A j, k \in DOMAIN net' :
              j < k /\ net'[j].packet.kind = "init" /\ net'[k].packet.kind = "init" =>
                  net'[j].packet.init < net'[k].packet.init
<1>1. net' = SeqX!RemoveAt(net, i)
  BY DEF Take
<1>2. /\ net' \in Seq(Datagrams) /\ Len(net') = Len(net) - 1
      /\ \A j \in DOMAIN net' : net'[j] = IF j < i THEN net[j] ELSE net[j + 1]
  BY <1>1, Removed DEF TunnelInv, NetHolds
<1>3. DOMAIN net' = 1 .. Len(net) - 1 /\ DOMAIN net = 1 .. Len(net) /\ Len(net) \in Nat
  BY <1>2, LenProperties DEF TunnelInv, NetHolds
<1> DEFINE Old(j) == IF j < i THEN j ELSE j + 1
<1>4. \A j \in DOMAIN net' : Old(j) \in DOMAIN net /\ net'[j] = net[Old(j)]
  BY <1>2, <1>3
<1>5. \A j, k \in DOMAIN net' : j < k => Old(j) < Old(k)
  BY <1>3
<1> HIDE DEF Old
<1> QED BY <1>4, <1>5 DEF TunnelInv, InOrder

LEMMA TakeKeepsInOrder ==
    ASSUME TunnelInv, UNCHANGED <<network, keys>>, InitInHand' \subseteq InitInHand,
           NEW i \in DOMAIN net, Take(i)
    PROVE  InOrder'
<1>1. InitsAhead' \subseteq InitsAhead /\ InitsDone' = InitsDone /\ Key' = Key
  BY Taken DEF InitsDone, Key, TunnelInv
<1> QED BY <1>1, TakenInOrder DEF TunnelInv, InOrder

\* Sending adds one datagram, or none.
LEMMA Sent ==
    ASSUME NetHolds, NEW to, NEW packet, Send(to, packet),
           Seq(Datagrams) \subseteq Seq(Datagrams'),
           [to |-> to, packet |-> packet] \in Datagrams'
    PROVE  NetHolds'
<1>1. net \in Seq(Datagrams')
  BY DEF NetHolds
<1> QED BY <1>1, AppendProperties DEF Send, NetHolds

-----------------------------------------------------------------------------
(* Steps of one end alone. *)

\* A client that leaves the server, its keys and the history of both alone.
LEMMA ClientOnly ==
    ASSUME TunnelInv, TypeOK', UNCHANGED <<srv, keys, s_sealed, s_written>>,
           sealed.set \subseteq sealed'.set, inits <= inits'
    PROVE  OneSession' /\ UpOnce' /\ ServerSpent' /\ ServerHolds' /\ InitInHand' = InitInHand
<1>1. TableMoves
  BY TableStays DEF TunnelInv, Inv, srv
<1>2. OneSession' /\ UpOnce' /\ ServerSpent'
  BY <1>1, TableKeeps DEF srv, ServerWriting
<1>3. Inits \subseteq Inits' /\ SentUp \subseteq SentUp' /\ SentDown \subseteq SentDown'
  BY Grows DEF TunnelInv, Inv, TypeOK
<1>4. DownStates \subseteq DownStates'
  BY <1>3 DEF DownStates
<1>5. ServerHolds'
  BY <1>3, <1>4 DEF TunnelInv, ServerHolds, srv
<1> QED BY <1>2, <1>5 DEF InitInHand, srv

\* A server that leaves the client alone.
LEMMA ServerOnly ==
    ASSUME TunnelInv, UNCHANGED <<vars, written>>, s_sealed.set \subseteq s_sealed'.set
    PROVE  /\ Inv' /\ ClientRuns' /\ ClientHolds' /\ DownOnce'
           /\ Seq(Datagrams) \subseteq Seq(Datagrams')
           /\ Inits' = Inits /\ SentUp' = SentUp /\ Responses' = Responses
           /\ SentDown \subseteq SentDown'
<1>1. Inv'
  BY NextInv DEF TunnelInv
<1>2. /\ inits <= inits' /\ Len(keys) <= Len(keys') /\ sealed.set \subseteq sealed'.set
  BY DEF vars, TunnelInv, Inv, TypeOK
<1>3. /\ Seq(Datagrams) \subseteq Seq(Datagrams') /\ SentDown \subseteq SentDown'
      /\ Seq(Responses \cup SentDown) \subseteq Seq(Responses' \cup SentDown')
      /\ Responses \subseteq Responses'
  BY <1>1, <1>2, Grows DEF TunnelInv, Inv
<1>4. ClientRuns' /\ ClientHolds'
  BY <1>3 DEF TunnelInv, ClientRuns, ClientHolds, vars
<1>5. DownOnce'
  <2>1. Pending' = Pending /\ ClientWriting' = ClientWriting
    BY DEF vars, Pending, ClientWriting
  <2> QED BY <1>3, <2>1, KeepsDownOnce DEF vars
<1>6. Inits' = Inits /\ SentUp' = SentUp /\ Responses' = Responses
  BY DEF vars, Inits, SentUp, Responses, Key
<1> QED BY <1>1, <1>3, <1>4, <1>5, <1>6

-----------------------------------------------------------------------------
(* What encrypt and decrypt do to a session, at either end. *)

\* Both ends run the same code.
LEMMA SameNoise ==
    ASSUME NEW s, NEW p
    PROVE  /\ S!Noise!CanEncrypt(s) <=> Noise!CanEncrypt(s)
           /\ S!Noise!AfterEncrypt(s) = Noise!AfterEncrypt(s)
           /\ S!Noise!Decrypts(s, p) <=> Noise!Decrypts(s, p)
           /\ S!Noise!AfterDecrypt(s, p) = Noise!AfterDecrypt(s, p)
BY DEF S!Noise!CanEncrypt, Noise!CanEncrypt, S!Noise!AfterEncrypt, Noise!AfterEncrypt,
       S!Noise!Decrypts, Noise!Decrypts, S!Noise!AfterDecrypt, Noise!AfterDecrypt,
       S!Noise!IsFresh, Noise!IsFresh, S!Noise!Checked, Noise!Checked

\* encrypt moves both counters on; the modulus is not reached.
LEMMA Encrypting ==
    ASSUME NEW s \in SessionType, Regular(s), Noise!CanEncrypt(s)
    PROVE  /\ Noise!AfterEncrypt(s) \in SessionType
           /\ Noise!AfterEncrypt(s).key = s.key
           /\ Noise!AfterEncrypt(s).replay = s.replay
           /\ Noise!AfterEncrypt(s).snow_nonce = s.snow_nonce + 1
           /\ Regular(Noise!AfterEncrypt(s))
<1>1. /\ s.snow_nonce \in Nat /\ MaxNonce \in Nat /\ s.snow_nonce < MaxNonce
      /\ s.send_nonce = s.snow_nonce
  BY ClientAssumption DEF SessionType, Noise!Nonce, Regular, Noise!CanEncrypt
<1>2. (s.send_nonce + 1) % (MaxNonce + 1) = s.snow_nonce + 1
  BY <1>1
<1>3. s.snow_nonce + 1 \in Noise!Nonce
  BY <1>1 DEF Noise!Nonce
<1> QED BY <1>2, <1>3 DEF SessionType, Regular, Noise!AfterEncrypt

\* decrypt moves the window on; a packet that opens is new, and is recorded.
LEMMA Decrypting ==
    ASSUME NEW s \in SessionType, Regular(s), NEW p, p.nonce \in Noise!Nonce
    PROVE  LET after == Noise!AfterDecrypt(s, p)
           IN  /\ after \in SessionType /\ after.key = s.key
               /\ after.snow_nonce = s.snow_nonce
               /\ Regular(after)
               /\ s.replay.taken \subseteq after.replay.taken
               /\ Noise!Decrypts(s, p) =>
                     /\ p.key = s.key
                     /\ p.nonce \notin s.replay.taken /\ p.nonce \in after.replay.taken
<1>1. /\ Noise!Checked(s.replay, p.nonce) \in [top : Noise!Nonce, taken : SUBSET Noise!Nonce]
      /\ s.replay.taken \subseteq Noise!Checked(s.replay, p.nonce).taken
      /\ Noise!IsFresh(s.replay, p.nonce) => p.nonce \in Noise!Checked(s.replay, p.nonce).taken
  BY DEF SessionType, Noise!Checked
<1> QED BY <1>1 DEF SessionType, Regular, Noise!AfterDecrypt, Noise!Decrypts, Noise!IsFresh

-----------------------------------------------------------------------------
(* The client's steps. *)

\* An init goes out: all that came out of the tunnel before is older.
LEMMA ClientSendsInitInv == ASSUME TunnelInv, Inv', ClientSendsInit PROVE TunnelInv'
<1>1. /\ inits' = inits + 1 /\ hs.at = "send" /\ inits \in Nat
      /\ UNCHANGED <<phase, slot, gate, queue, dn, up, keys, sealed, network, restarts,
                     srv, s_sealed, written, s_written>>
  BY DEF ClientSendsInit, SendInit, Same, history, TunnelInv, Inv, TypeOK
<1>2. TypeOK' /\ TypeOK /\ inits <= inits' /\ Len(keys) <= Len(keys')
  BY <1>1 DEF TunnelInv, Inv, TypeOK
<1>3. OneSession' /\ UpOnce' /\ ServerSpent' /\ ServerHolds' /\ InitInHand' = InitInHand
  BY <1>1, <1>2, ClientOnly
<1>4. /\ Seq(Datagrams) \subseteq Seq(Datagrams') /\ SentDown' = SentDown
      /\ Responses' = Responses
  BY <1>1, <1>2, Grows DEF SentDown, Responses, Key
<1>5. ClientRuns' /\ ClientHolds'
  BY <1>1, <1>4 DEF TunnelInv, ClientRuns, ClientHolds
<1> DEFINE init == [kind |-> "init", from |-> Me, init |-> inits']
<1>6. Send("server", init)
  BY DEF ClientSendsInit
<1>7. NetHolds'
  <2>1. init \in Inits'
    BY <1>1 DEF Inits
  <2>2. [to |-> "server", packet |-> init] \in Datagrams'
    BY <2>1 DEF Datagrams
  <2> QED BY <1>4, <1>6, <2>2, Sent DEF TunnelInv
<1>8. DownOnce'
  <2>1. ClientWriting' = ClientWriting
    BY <1>1 DEF ClientWriting
  <2>2. ASSUME NEW e \in written.set \cup ClientWriting PROVE keys[e[1]] < inits + 1
    <3>1. e[1] \in Key
      BY DEF TunnelInv, DownOnce, ServerSpent, ClientWriting, SentDown, DataPacket
    <3>2. keys[e[1]] \in 1 .. inits
      BY <3>1, ElementOfSeq DEF TunnelInv, Inv, TypeOK, Key
    <3> QED BY <1>1, <3>2
  <2> QED BY <1>1, <1>4, <2>1, <2>2 DEF TunnelInv, DownOnce
<1>9. InOrder'
  <2>1. CASE net' = net
    BY <1>1, <1>3, <2>1, KeepsInOrder
  <2>2. CASE net' = Append(net, [to |-> "server", packet |-> init])
    <3> SUFFICES ASSUME network # "wild" PROVE InOrder'
      BY <1>1 DEF InOrder
    <3>1. /\ DOMAIN net' = 1 .. Len(net) + 1 /\ DOMAIN net = 1 .. Len(net) /\ Len(net) \in Nat
          /\ \A i \in DOMAIN net : net'[i] = net[i] /\ net[i] \in Datagrams
          /\ net'[Len(net) + 1].packet = init
      BY <2>2, LenProperties DEF TunnelInv, NetHolds
    <3>2. \A i \in DOMAIN net : net[i].packet.kind = "init" => net[i].packet.init \in 1 .. inits
      BY <3>1 DEF Datagrams, Inits, SentUp, SentDown, Responses, Response, DataPacket, S!DataPacket
    <3>3. InitsAhead' \subseteq InitsAhead \cup {inits + 1}
      BY <1>1, <3>1 DEF InitsAhead
    <3>4. \A m \in InitInHand \cup InitsDone : m \in 1 .. inits
      BY ElementOfSeq
         DEF TunnelInv, ServerHolds, DownStates, Inits, InitInHand, InitsDone, Key, Inv, TypeOK, S!Idle
    <3>5. InitsDone' = InitsDone /\ Key' = Key
      BY <1>1 DEF InitsDone, Key
    <3>6. \A i, j \in DOMAIN net' :
             i < j /\ net'[i].packet.kind = "init" /\ net'[j].packet.kind = "init" =>
                 net'[i].packet.init < net'[j].packet.init
      <4> SUFFICES ASSUME NEW i \in DOMAIN net', NEW j \in DOMAIN net', i < j,
                          net'[i].packet.kind = "init", net'[j].packet.kind = "init"
                   PROVE  net'[i].packet.init < net'[j].packet.init
        OBVIOUS
      <4>1. i \in DOMAIN net
        BY <3>1
      <4>2. CASE j \in DOMAIN net
        BY <3>1, <4>1, <4>2 DEF TunnelInv, InOrder
      <4>3. CASE j = Len(net) + 1
        <5>1. net'[j].packet.init = inits + 1 /\ net'[i].packet.init \in 1 .. inits
          BY <1>1, <3>1, <3>2, <4>1, <4>3
        <5> QED BY <1>1, <5>1
      <4> QED BY <3>1, <4>2, <4>3
    <3>7. \A n \in InitsAhead' : \A m \in InitInHand' \cup InitsDone' : m < n
      BY <1>1, <1>3, <3>3, <3>4, <3>5 DEF TunnelInv, InOrder
    <3> QED BY <1>1, <1>3, <3>5, <3>6, <3>7 DEF TunnelInv, InOrder
  <2> QED BY <1>6, <2>1, <2>2 DEF Send
<1> QED BY <1>3, <1>5, <1>7, <1>8, <1>9 DEF TunnelInv

\* A packet is sealed and sent; or there is no nonce left.
LEMMA ClientSendsDataInv == ASSUME TunnelInv, Inv', ClientSendsData PROVE TunnelInv'
<1>1. /\ up.at = "encrypt"
      /\ UNCHANGED <<phase, enabled, gate, queue, hs, dn, inits, keys, network, restarts,
                     srv, s_sealed, written, s_written>>
  BY DEF ClientSendsData, UpEncrypt, server, Same, history
<1>2. TypeOK' /\ TypeOK /\ inits <= inits' /\ Len(keys) <= Len(keys')
  BY <1>1 DEF TunnelInv, Inv, TypeOK
<1>3. phase = "up" /\ slot \in Slots /\ slot.session \in SessionType /\ Regular(slot.session)
  BY <1>1 DEF TunnelInv, Inv, ClientRuns, Stages, NoSession, TypeOK, Slots
<1> DEFINE s == slot.session
<1>4. /\ sealed.set \subseteq sealed'.set
      /\ slot'.session.key = s.key /\ slot'.session.replay = s.replay
      /\ Regular(slot'.session)
      /\ sealed' # sealed => <<s.key, s.snow_nonce>> \in sealed'.set
  <2>1. CASE UNCHANGED <<slot, sealed>>
    BY <1>3, <2>1
  <2>2. CASE Encrypt
    <3>1. /\ Noise!CanEncrypt(s)
          /\ slot' = [slot EXCEPT !.session = Noise!AfterEncrypt(s), !.last_tx = 0]
          /\ sealed' = Count(sealed, s.key, s.snow_nonce)
      BY <2>2 DEF Encrypt, Noise!Encrypted
    <3>2. /\ Noise!AfterEncrypt(s) \in SessionType /\ Noise!AfterEncrypt(s).key = s.key
          /\ Noise!AfterEncrypt(s).replay = s.replay /\ Regular(Noise!AfterEncrypt(s))
      BY <1>3, <3>1, Encrypting
    <3>3. slot'.session = Noise!AfterEncrypt(s)
      BY <1>3, <3>1, <3>2, SlotUpdates
    <3> QED BY <3>1, <3>2, <3>3 DEF Count
  <2> QED BY <2>1, <2>2 DEF ClientSendsData, UpEncrypt
<1>5. OneSession' /\ UpOnce' /\ ServerSpent' /\ ServerHolds' /\ InitInHand' = InitInHand
  BY <1>1, <1>2, <1>4, ClientOnly
<1>6. /\ Seq(Datagrams) \subseteq Seq(Datagrams') /\ SentDown' = SentDown
      /\ Responses' = Responses
  BY <1>1, <1>2, <1>4, Grows DEF SentDown, Responses, Key
<1>7. ClientRuns' /\ ClientHolds'
  BY <1>1, <1>4, <1>6 DEF TunnelInv, ClientRuns, ClientHolds
<1>8. DownOnce'
  <2>1. ClientWriting' = ClientWriting /\ Pending' = Pending
    BY <1>1 DEF ClientWriting, Pending
  <2> QED BY <1>1, <1>4, <1>6, <2>1, KeepsDownOnce
<1>9. NetHolds' /\ InOrder'
  <2>1. CASE sealed' = sealed
    <3>1. net' = net
      BY <2>1 DEF ClientSendsData
    <3> QED BY <1>1, <1>5, <1>6, <3>1, KeepsInOrder DEF TunnelInv, NetHolds
  <2>2. CASE sealed' # sealed
    <3> DEFINE packet == S!DataPacket(s.key, s.key, s.snow_nonce, MyIp)
    <3>1. Send("server", packet)
      BY <1>3, <2>2 DEF ClientSendsData, Noise!Encrypted, Regular
    <3>2. packet \in SentUp' /\ packet.kind # "init"
      BY <1>4, <2>2 DEF SentUp, S!DataPacket
    <3> HIDE DEF packet
    <3>3. [to |-> "server", packet |-> packet] \in Datagrams'
      BY <3>2 DEF Datagrams
    <3> QED BY <1>1, <1>5, <1>6, <3>1, <3>2, <3>3, Sent, SendKeepsInOrder DEF TunnelInv
  <2> QED BY <2>1, <2>2
<1> QED BY <1>5, <1>7, <1>8, <1>9 DEF TunnelInv

\* Steps of the client that send nothing.
LEMMA ClientQuiet ==
    ASSUME TunnelInv, Inv', Quiet, UNCHANGED <<keys, inits, sealed, srv, s_sealed, s_written>>
    PROVE  /\ NetHolds' /\ ServerHolds' /\ OneSession' /\ UpOnce' /\ ServerSpent' /\ InOrder'
           /\ SentDown' = SentDown /\ Responses' = Responses
<1>1. TypeOK' /\ TypeOK /\ inits <= inits' /\ Len(keys) <= Len(keys')
  BY DEF TunnelInv, Inv, TypeOK
<1>2. OneSession' /\ UpOnce' /\ ServerSpent' /\ ServerHolds' /\ InitInHand' = InitInHand
  BY <1>1, ClientOnly
<1>3. /\ Seq(Datagrams) \subseteq Seq(Datagrams') /\ SentDown' = SentDown
      /\ Responses' = Responses
  BY <1>1, Grows DEF SentDown, Responses, Key
<1> QED BY <1>2, <1>3, KeepsInOrder DEF Quiet, TunnelInv, NetHolds

\* The handshake and the timers, as long as no session is installed.
LEMMA HandshakeSteps ==
    ASSUME TunnelInv, Inv', phase' # "failed",
           LockGate \/ RecvResponse \/ RecvTimeout \/ Rehandshake \/ UpRead \/ DownLock
    PROVE  /\ UNCHANGED <<phase, slot, keys, inits, sealed>>
           /\ queue' = queue \/ (queue # <<>> /\ queue' = Tail(queue))
           /\ dn' = dn \/ dn'.at = "recv"
           /\ Pending' => Pending
<1>1. CASE LockGate
  <2>1. hs \in Rounds /\ hs.at = "lock" /\ hs' = [hs EXCEPT !.at = "recv"]
    BY <1>1, HsCases DEF LockGate, TunnelInv, Inv
  <2> QED BY <1>1, <2>1 DEF LockGate, server, Pending
<1>3. CASE Rehandshake
  BY <1>3 DEF Rehandshake, server, Pending
<1>4. CASE UpRead \/ DownLock
  BY <1>4 DEF UpRead, DownLock, server, Pending
<1>2. CASE RecvResponse \/ RecvTimeout
  <2>1. hs.at = "recv" /\ phase' = phase
    BY <1>2 DEF RecvResponse, RecvTimeout, NextAttempt, RoundFails
  <2> QED BY <1>2, <2>1 DEF RecvResponse, RecvTimeout, server, Pending
<1> QED BY <1>1, <1>2, <1>3, <1>4

\* The rest of the client's steps.
LEMMA ClientStepsInv == ASSUME TunnelInv, Inv', ClientSteps PROVE TunnelInv'
<1>1. UNCHANGED <<keys, inits, sealed>>
  BY DEF ClientSteps, LockGate, RecvResponse, Start, ReplaceSession, RecvTimeout, Rehandshake,
         DownLock, DownRecv, DownDecryptFails, DownDecrypts, UpRead, server
<1>2. Quiet /\ phase' # "failed" /\ UNCHANGED <<srv, s_sealed, written, s_written>>
  BY DEF ClientSteps, history
<1>3. /\ NetHolds' /\ ServerHolds' /\ OneSession' /\ UpOnce' /\ ServerSpent' /\ InOrder'
      /\ SentDown' = SentDown /\ Responses' = Responses
  BY <1>1, <1>2, ClientQuiet
<1>4. queue \in Seq(Responses \cup SentDown)
  BY DEF TunnelInv, ClientHolds
<1>5. queue # <<>> =>
         Head(queue) \in Responses \cup SentDown /\ Tail(queue) \in Seq(Responses \cup SentDown)
  BY <1>4
<1> SUFFICES ClientRuns' /\ ClientHolds' /\ DownOnce'
  BY <1>3 DEF TunnelInv
<1>6. CASE LockGate \/ RecvResponse \/ RecvTimeout \/ Rehandshake \/ UpRead \/ DownLock
  <2>1. /\ UNCHANGED <<phase, slot, keys, inits, sealed>>
        /\ queue' = queue \/ (queue # <<>> /\ queue' = Tail(queue))
        /\ dn' = dn \/ dn'.at = "recv"
        /\ Pending' => Pending
    BY <1>2, <1>6, HandshakeSteps
  <2>2. ClientWriting' \subseteq ClientWriting
    BY <2>1 DEF ClientWriting
  <2>3. DownOnce'
    BY <1>2, <1>3, <2>1, <2>2, KeepsDownOnce
  <2> QED BY <1>3, <1>5, <2>1, <2>3 DEF TunnelInv, ClientRuns, ClientHolds
<1>7. CASE DownRecv
  <2>1. /\ UNCHANGED <<phase, slot, hs>> /\ queue # <<>> /\ queue' = Tail(queue)
        /\ dn'.at # "write"
        /\ dn'.at = "decrypt" => dn'.packet = Head(queue)
    BY <1>7 DEF DownRecv
  <2>2. ClientWriting' \subseteq ClientWriting /\ Pending' = Pending
    BY <2>1 DEF ClientWriting, Pending
  <2>3. DownOnce'
    BY <1>1, <1>2, <1>3, <2>1, <2>2, KeepsDownOnce
  <2> QED BY <1>1, <1>3, <1>5, <2>1, <2>3 DEF TunnelInv, ClientRuns, ClientHolds
<1>8. CASE Start \/ ReplaceSession
  <2>1. /\ hs.at = "install" /\ hs' = [at |-> "tick"] /\ phase' = "up"
        /\ slot' = NewSlot(hs.key) /\ queue' = queue
        /\ dn' = dn \/ dn' = [at |-> "lock"]
    BY <1>2, <1>8 DEF Start, ReplaceSession, TunnelInv, ClientRuns
  <2>2. Regular(slot'.session) /\ slot'.session.key = hs.key
    BY <2>1 DEF NewSlot, Noise!NewSession, Regular
  <2>3. keys[hs.key] = inits /\ Pending /\ ~ Pending'
    BY <2>1 DEF TunnelInv, Inv, LatestInit, Pending
  <2>4. ClientWriting' \subseteq ClientWriting
    BY <2>1 DEF ClientWriting
  <2>5. ASSUME NEW e \in written.set \cup ClientWriting PROVE e[1] # hs.key
    <3>1. keys[e[1]] < inits /\ inits \in Nat
      BY <2>3 DEF TunnelInv, DownOnce, Inv, TypeOK
    <3> QED BY <2>3, <3>1
  <2>6. DownOnce'
    BY <1>2, <1>3, <2>1, <2>2, <2>3, <2>4, <2>5 DEF TunnelInv, DownOnce
  <2> QED BY <1>1, <1>3, <2>1, <2>2, <2>6 DEF TunnelInv, ClientRuns, ClientHolds
<1>9. CASE DownDecryptFails \/ DownDecrypts
  <2>1. /\ dn.at = "decrypt" /\ dn.packet \in Responses \cup SentDown /\ dn.packet \in Arriving
        /\ UNCHANGED <<phase, queue, hs>>
    BY <1>9, DnCases DEF DownDecryptFails, DownDecrypts, TunnelInv, ClientHolds, Inv
  <2>2. phase = "up" /\ slot \in Slots /\ slot.session \in SessionType /\ Regular(slot.session)
    BY <2>1 DEF TunnelInv, Inv, ClientRuns, Stages, NoSession, TypeOK, Slots
  <2> DEFINE s == slot.session
  <2> DEFINE after == Noise!AfterDecrypt(s, dn.packet)
  <2>3. Pending' = Pending /\ ClientWriting = {}
    BY <2>1 DEF Pending, ClientWriting
  <2>4. CASE dn.packet.kind # "data"
    <3>1. slot' = slot /\ dn' = [at |-> "lock"]
      BY <1>9, <2>4 DEF DownDecryptFails, DownDecrypts, Opens
    <3>2. DownOnce'
      BY <1>1, <1>2, <1>3, <2>1, <2>3, <3>1, KeepsDownOnce DEF ClientWriting
    <3> QED BY <1>1, <1>3, <2>1, <3>1, <3>2 DEF TunnelInv, ClientRuns, ClientHolds
  <2>5. CASE dn.packet.kind = "data"
    <3>1. dn.packet \in SentDown /\ dn.packet.nonce \in Noise!Nonce
      BY <2>1, <2>5, ArrivingCases DEF Responses, Response
    <3>2. /\ after \in SessionType /\ after.key = s.key /\ Regular(after)
          /\ s.replay.taken \subseteq after.replay.taken
          /\ Noise!Decrypts(s, dn.packet) =>
                /\ dn.packet.key = s.key
                /\ dn.packet.nonce \notin s.replay.taken
                /\ dn.packet.nonce \in after.replay.taken
      BY <2>2, <3>1, Decrypting
    <3>3. \/ slot' = [slot EXCEPT !.session = after]
          \/ slot' = [slot EXCEPT !.session = after, !.last_rx = 0]
      BY <1>9, <2>5 DEF DownDecryptFails, DownDecrypts
    <3> HIDE DEF after
    <3>4. slot'.session = after
      <4>1. slot \in Slots /\ after \in SessionType
        BY <2>2, <3>2
      <4>2. /\ [slot EXCEPT !.session = after].session = after
            /\ [slot EXCEPT !.session = after, !.last_rx = 0].session = after
        BY <4>1, SlotUpdates
      <4> QED BY <3>3, <4>2
    <3>5. \/ dn' = [at |-> "lock"]
          \/ Noise!Decrypts(s, dn.packet) /\ dn' = [at |-> "write", packet |-> dn.packet]
      BY <1>9 DEF DownDecryptFails, DownDecrypts, Opens
    <3>6. CASE dn' = [at |-> "lock"]
      <4>1. DownOnce'
        BY <1>1, <1>2, <1>3, <2>1, <2>3, <3>2, <3>4, <3>6, KeepsDownOnce DEF ClientWriting
      <4> QED BY <1>1, <1>3, <2>1, <3>2, <3>4, <3>6, <4>1 DEF TunnelInv, ClientRuns, ClientHolds
    <3>7. CASE Noise!Decrypts(s, dn.packet) /\ dn' = [at |-> "write", packet |-> dn.packet]
      <4> DEFINE e0 == <<dn.packet.key, dn.packet.nonce>>
      <4>1. ClientWriting' = {e0}
        BY <3>7 DEF ClientWriting
      <4>2. e0 \notin written.set
        BY <2>2, <3>2, <3>7 DEF TunnelInv, DownOnce
      <4>3. Pending => keys[dn.packet.key] < inits
        BY <2>2, <3>2, <3>7 DEF TunnelInv, Inv, Spent, NoSession
      <4>4. ASSUME NEW e \in written.set
            PROVE  /\ e[1] = after.key => e[2] \in after.replay.taken
                   /\ Pending => keys[e[1]] < inits
        BY <2>2, <3>2 DEF TunnelInv, DownOnce
      <4>5. ASSUME NEW e \in written'.set \cup ClientWriting'
            PROVE  /\ e[1] = slot'.session.key => e[2] \in slot'.session.replay.taken
                   /\ Pending' => keys'[e[1]] < inits'
        <5>1. CASE e = e0
          BY <1>1, <2>3, <3>2, <3>4, <3>7, <4>3, <5>1
        <5>2. CASE e \in written.set
          BY <1>1, <2>3, <3>4, <4>4, <5>2
        <5> QED BY <1>2, <4>1, <5>1, <5>2
      <4>6. DownOnce'
        <5>1. ClientWriting' \cap written'.set = {} /\ dn'.packet \in SentDown'
          BY <1>2, <1>3, <3>1, <3>7, <4>1, <4>2
        <5> HIDE DEF e0
        <5> QED BY <1>2, <2>1, <2>2, <4>5, <5>1 DEF TunnelInv, DownOnce
      <4> QED BY <1>1, <1>3, <2>1, <3>1, <3>2, <3>4, <3>7, <4>6
              DEF TunnelInv, ClientRuns, ClientHolds
    <3> QED BY <3>5, <3>6, <3>7
  <2> QED BY <2>4, <2>5
<1> QED BY <1>6, <1>7, <1>8, <1>9 DEF ClientSteps

\* A packet comes out at the client.
LEMMA ClientWritesInv == ASSUME TunnelInv, Inv', ClientWrites PROVE TunnelInv'
<1>1. /\ dn.at = "write" /\ dn' = [at |-> "lock"]
      /\ UNCHANGED <<phase, slot, queue, hs, keys, inits, sealed, srv, s_sealed, s_written>>
      /\ Quiet
      /\ written' = Count(written, dn.packet.key, dn.packet.nonce)
  BY DEF ClientWrites, DownWrite, server
<1>2. /\ NetHolds' /\ ServerHolds' /\ OneSession' /\ UpOnce' /\ ServerSpent' /\ InOrder'
      /\ SentDown' = SentDown /\ Responses' = Responses
  BY <1>1, ClientQuiet
<1>3. ClientRuns' /\ ClientHolds'
  BY <1>1, <1>2 DEF TunnelInv, ClientRuns, ClientHolds
<1>4. written'.set = written.set \cup ClientWriting /\ ClientWriting' = {} /\ Pending' = Pending
  BY <1>1 DEF ClientWriting, Count, Pending
<1>5. ClientWriting \subseteq s_sealed.set
  BY DEF TunnelInv, DownOnce, ClientWriting, SentDown, DataPacket, ServerSpent
<1>6. phase = "up"
  BY <1>1 DEF TunnelInv, ClientRuns, Inv, Stages, NoSession
<1>7. DownOnce'
  BY <1>1, <1>4, <1>5, <1>6 DEF TunnelInv, DownOnce
<1> QED BY <1>2, <1>3, <1>7 DEF TunnelInv

\* A datagram reaches the client's buffer.
LEMMA ClientReceivesInv == ASSUME TunnelInv, Inv', ClientReceives PROVE TunnelInv'
<1>1. PICK i \in Arrivable("client") : Arrive(net[i].packet) /\ Take(i) /\ Same
  BY DEF ClientReceives
<1>2. i \in DOMAIN net /\ net[i].to = "client"
  BY DEF Arrivable
<1>3. /\ UNCHANGED <<phase, slot, hs, dn, keys, inits, sealed, network, srv,
                     s_sealed, written, s_written>>
      /\ queue' = Append(queue, net[i].packet)
  BY <1>1 DEF ClientReceives, Arrive, Same, history, server
<1>4. TypeOK' /\ TypeOK /\ inits <= inits'
  BY <1>3 DEF TunnelInv, Inv, TypeOK
<1>5. OneSession' /\ UpOnce' /\ ServerSpent' /\ ServerHolds' /\ InitInHand' = InitInHand
  BY <1>3, <1>4, ClientOnly
<1>6. SentDown' = SentDown /\ Responses' = Responses /\ Datagrams' = Datagrams
  BY <1>3 DEF SentDown, Responses, Key, Datagrams, Inits, SentUp
<1>7. net' \in Seq(Datagrams) /\ net[i] \in Datagrams
  BY <1>1, <1>2, Taken DEF TunnelInv
<1>8. net[i].packet \in Responses \cup SentDown
  BY <1>2, <1>7 DEF Datagrams
<1>9. queue' \in Seq(Responses \cup SentDown)
  BY <1>3, <1>8, AppendProperties DEF TunnelInv, ClientHolds
<1>10. NetHolds' /\ InOrder'
  BY <1>1, <1>2, <1>3, <1>5, <1>6, <1>7, TakeKeepsInOrder DEF NetHolds
<1>11. ClientRuns' /\ ClientHolds'
  BY <1>3, <1>6, <1>9 DEF TunnelInv, ClientRuns, ClientHolds
<1>12. DownOnce'
  <2>1. ClientWriting' = ClientWriting /\ Pending' = Pending
    BY <1>3 DEF ClientWriting, Pending
  <2> QED BY <1>3, <1>6, <2>1, KeepsDownOnce
<1> QED BY <1>5, <1>10, <1>11, <1>12 DEF TunnelInv

-----------------------------------------------------------------------------
(* The server's steps. *)

\* What the downlink of the server can be.
LEMMA DownCases ==
    ASSUME TunnelInv
    PROVE  /\ s_down.at \in {"admit", "alloc", "finish"} =>
                  s_down.packet \in Inits /\ s_down.src = MyAddr
           /\ s_down.at \in {"admit", "alloc"} =>
                  s_down \in [at : {"admit", "alloc"}, packet : Inits, src : {MyAddr}]
           /\ s_down.at = "finish" => s_down.index = Len(keys) + 1
           /\ s_down.at \in {"set_sessions", "set_peers"} =>
                  s_down \in [at : {"set_sessions", "set_peers"}, seen : SUBSET Nat]
           /\ s_down.at = "decrypt" => s_down.packet \in SentUp /\ s_down.src = MyAddr
           /\ s_down.at = "tun_write" => s_down.packet \in SentUp
BY DEF TunnelInv, ServerHolds, DownStates, S!Idle

\* A packet on the way up is a data packet, sealed by the client.
LEMMA UpPacket ==
    ASSUME TunnelInv, NEW p \in SentUp
    PROVE  /\ p.kind = "data" /\ p.index = p.key /\ p.plain = MyIp
           /\ <<p.key, p.nonce>> \in sealed.set
           /\ p.key \in Key /\ p.nonce \in Noise!Nonce
<1>1. sealed.set \subseteq Key \X Noise!Nonce
  BY DEF TunnelInv, Inv, TypeOK, History
<1>2. PICK e \in sealed.set : p = S!DataPacket(e[1], e[1], e[2], MyIp)
  BY DEF SentUp
<1>3. e[1] \in Key /\ e[2] \in Noise!Nonce /\ e = <<e[1], e[2]>>
  BY <1>1
<1> QED BY <1>2, <1>3 DEF S!DataPacket

\* A datagram reaches the server's downlink.
LEMMA ServerReceivesInv == ASSUME TunnelInv, ServerReceives PROVE TunnelInv'
<1>1. PICK i \in Arrivable("server") :
         /\ IF net[i].packet.kind = "init"
            THEN S!RecvHandshake(net[i].packet, MyAddr)
            ELSE S!RecvData(net[i].packet, MyAddr)
         /\ Take(i) /\ Same
  BY DEF ServerReceives
<1>2. i \in DOMAIN net /\ net[i].to = "server"
  BY DEF Arrivable
<1>3. /\ s_down = S!Idle /\ UNCHANGED <<by_index, by_ip, s_up, s_keys, network>>
      /\ s_down' = [at |-> IF net[i].packet.kind = "init" THEN "admit" ELSE "decrypt",
                    packet |-> net[i].packet, src |-> MyAddr]
  BY <1>1 DEF S!RecvHandshake, S!RecvData, S!table, Same
<1>4. UNCHANGED <<vars, s_sealed, written, s_written>>
  BY DEF ServerReceives, history
<1>5. /\ Inv' /\ ClientRuns' /\ ClientHolds' /\ DownOnce'
      /\ Inits' = Inits /\ SentUp' = SentUp /\ Seq(Datagrams) \subseteq Seq(Datagrams')
      /\ SentDown \subseteq SentDown'
  BY <1>4, ServerOnly
<1>6. net' \in Seq(Datagrams) /\ net[i] \in Datagrams /\ InitsAhead' \subseteq InitsAhead
  BY <1>1, <1>2, Taken DEF TunnelInv
<1>7. net[i].packet \in Inits \cup SentUp
  BY <1>2, <1>6 DEF Datagrams
<1>8. net[i].packet.kind = "init" => net[i].packet \in Inits
  BY <1>7, UpPacket
<1>9. net[i].packet.kind # "init" => net[i].packet \in SentUp
  BY <1>7 DEF Inits
<1>10. ServerHolds'
  BY <1>3, <1>5, <1>8, <1>9 DEF TunnelInv, ServerHolds, DownStates
<1>11. OneSession' /\ UpOnce' /\ ServerSpent'
  <2>1. TableMoves
    BY <1>3, TableStays DEF TunnelInv, Inv
  <2>2. ServerWriting' \subseteq ServerWriting
    BY <1>3 DEF ServerWriting
  <2> QED BY <1>3, <1>4, <2>1, <2>2, TableKeeps DEF vars
<1>12. InOrder'
  <2>1. CASE net[i].packet.kind # "init"
    <3>1. InitInHand' \subseteq InitInHand
      BY <1>3, <2>1 DEF InitInHand
    <3> QED BY <1>1, <1>2, <1>3, <1>4, <3>1, TakeKeepsInOrder DEF vars
  <2>2. CASE net[i].packet.kind = "init"
    <3> SUFFICES ASSUME network # "wild" PROVE InOrder'
      BY <1>3 DEF InOrder
    <3>1. /\ InitInHand' = {net[i].packet.init} /\ InitsDone' = InitsDone /\ keys' = keys
          /\ Key' = Key
      BY <1>3, <1>4, <2>2 DEF InitInHand, InitsDone, Key, vars
    <3>2. net[i].packet.init \in InitsAhead
      BY <1>2, <2>2 DEF InitsAhead
    <3>3. \A n \in InitsAhead' : net[i].packet.init < n
      <4> SUFFICES ASSUME NEW j \in DOMAIN net', net'[j].packet.kind = "init"
                   PROVE  net[i].packet.init < net'[j].packet.init
        BY DEF InitsAhead
      <4>1. net' = SeqX!RemoveAt(net, i)
        BY <1>1 DEF Take
      <4>2. /\ net' \in Seq(Datagrams) /\ Len(net') = Len(net) - 1
            /\ \A k \in DOMAIN net' : net'[k] = IF k < i THEN net[k] ELSE net[k + 1]
        BY <1>2, <4>1, Removed DEF TunnelInv, NetHolds
      <4>3. DOMAIN net' = 1 .. Len(net) - 1 /\ DOMAIN net = 1 .. Len(net) /\ Len(net) \in Nat
        BY <4>2, LenProperties DEF TunnelInv, NetHolds
      <4>4. net'[j] \in Datagrams
        BY <4>2, <4>3, ElementOfSeq
      <4>5. net'[j].to = "server"
        BY <4>4 DEF Datagrams, Responses, SentDown, Response, DataPacket
      <4>6. \A k \in 1 .. i - 1 : net[k].to # "server"
        BY DEF Arrivable
      <4>7. ~ (j < i)
        BY <1>2, <4>2, <4>3, <4>5, <4>6
      <4>8. j + 1 \in DOMAIN net /\ i < j + 1 /\ net'[j] = net[j + 1]
        BY <1>2, <4>2, <4>3, <4>7
      <4> QED BY <1>2, <2>2, <4>8 DEF TunnelInv, InOrder
    <3>4. \A m \in InitsDone : m < net[i].packet.init
      BY <3>2 DEF TunnelInv, InOrder
    <3>5. \A n \in InitsAhead' : \A m \in InitsDone : m < n
      BY <1>6 DEF TunnelInv, InOrder
    <3> QED BY <1>1, <1>2, <3>1, <3>3, <3>4, <3>5, TakenInOrder DEF TunnelInv, InOrder
  <2> QED BY <2>1, <2>2
<1> QED BY <1>5, <1>6, <1>10, <1>11, <1>12 DEF TunnelInv, NetHolds

\* A handshake completes: whatever session the server had is replaced, and the new one
\* has a key that nothing was ever sealed under.
LEMMA ServerInsertsInv == ASSUME TunnelInv, Inv', ServerInserts PROVE TunnelInv'
<1> DEFINE new == Len(keys) + 1
<1> DEFINE init == s_down.packet.init
<1>1. /\ s_down.at = "finish" /\ s_down.packet \in Inits /\ s_down.src = MyAddr
      /\ s_down.index = new /\ s_down.packet.from = Me
  BY DownCases DEF ServerInserts, S!HandshakeInserts, S!AcceptedPeer, Inits
<1>2. /\ keys' = Append(keys, init) /\ Len(keys) < MaxKeys /\ init \in 1 .. inits
      /\ UNCHANGED <<phase, slot, queue, hs, dn, inits, sealed,
                     net, network, s_sealed, written, s_written>>
  BY DEF ServerInserts, ServerAnswers, Quiet, history
<1>3. /\ keys \in Seq(1 .. inits) /\ Len(keys) \in Nat /\ inits \in Nat /\ MaxKeys \in Nat
      /\ TypeOK /\ TypeOK'
  BY ClientAssumption DEF TunnelInv, Inv, TypeOK
<1>4. /\ Len(keys') = new /\ \A k \in Key : keys'[k] = keys[k]
      /\ keys'[new] = init
      /\ Key' = Key \cup {new} /\ new \notin Key /\ Key = 1 .. Len(keys)
  BY <1>2, <1>3, AppendProperties DEF Key
<1>5. DOMAIN by_index \subseteq {Len(keys)} /\ new \notin DOMAIN by_index
  BY <1>3 DEF TunnelInv, OneSession
<1> DEFINE live == S!LiveSession(new, Len(s_keys) + 1, MyAddr, MyIp)
<1>6. /\ by_index' = [i \in {new} |-> live]
      /\ MyIp \in DOMAIN by_ip' /\ by_ip'[MyIp] = new
      /\ s_down' = [at |-> "set_sessions", seen |-> {new}]
      /\ s_keys' = Append(s_keys, [peer |-> Me, index |-> new])
      /\ s_up' = s_up
  <2> DEFINE kept == S!Without(by_index, S!Replaced(MyIp))
  <2>1. DOMAIN kept = {}
    <3>1. \A i \in DOMAIN by_index : i \in S!Replaced(MyIp)
      BY DEF TunnelInv, OneSession, S!Replaced
    <3> QED BY <3>1 DEF S!Without
  <2>2. [p \in {Me} |-> MyIp][s_down.packet.from] = MyIp
    BY <1>1
  <2>3. /\ by_index' = S!With(kept, new, live)
        /\ by_ip' = S!With(by_ip, MyIp, new)
        /\ s_down' = [at |-> "set_sessions", seen |-> DOMAIN kept \cup {new}]
        /\ s_keys' = Append(s_keys, [peer |-> Me, index |-> new])
        /\ s_up' = s_up
    BY <1>1, <2>1, <2>2 DEF ServerInserts, S!HandshakeInserts
  <2>4. by_index' = [i \in {new} |-> live]
    BY <2>1, <2>3 DEF S!With
  <2> QED BY <2>1, <2>3, <2>4 DEF S!With
<1>7. Len(s_keys) = Len(keys) /\ s_keys \in Seq([peer : {Me}, index : Nat])
  BY DEF TunnelInv, OneSession
<1>8. live = [session |-> [index |-> new, key |-> new, send_nonce |-> 0, snow_nonce |-> 0,
                           replay |-> [top |-> 0, taken |-> {}]],
              peer_addr |-> MyAddr, tunnel_ip |-> MyIp, idle |-> 0]
  BY <1>7 DEF S!LiveSession, S!Noise!NewSession, S!Noise!EmptyFilter
<1> HIDE DEF live
<1>9. OneSession'
  <2>1. live.session \in SessionType'
    BY <1>3, <1>4, <1>8, ClientAssumption DEF SessionType, Noise!Nonce
  <2>2. live \in [session : SessionType', peer_addr : {MyAddr}, tunnel_ip : {MyIp}, idle : Nat]
    BY <1>8, <2>1
  <2>3. Regular(live.session) /\ live.session.key = new
    BY <1>8 DEF Regular
  <2>4. s_keys' \in Seq([peer : {Me}, index : Nat]) /\ Len(s_keys') = new
    <3>1. [peer |-> Me, index |-> new] \in [peer : {Me}, index : Nat]
      BY <1>3
    <3> QED BY <1>6, <1>7, <3>1, AppendProperties
  <2>5. DOMAIN by_index' = {new} /\ by_index'[new] = live
    BY <1>6
  <2>6. new > 0
    BY <1>3
  <2> QED BY <1>4, <1>6, <2>2, <2>3, <2>4, <2>5, <2>6 DEF OneSession
<1>10. /\ Seq(Datagrams) \subseteq Seq(Datagrams') /\ Responses \subseteq Responses'
       /\ SentDown' = SentDown
       /\ Seq(Responses \cup SentDown) \subseteq Seq(Responses' \cup SentDown')
  <2>1. Len(keys) <= Len(keys') /\ inits <= inits'
    BY <1>2, <1>3, <1>4
  <2>2. SentDown' = SentDown
    BY <1>2 DEF SentDown
  <2> QED BY <1>2, <1>3, <2>1, <2>2, Grows
<1>11. NetHolds' /\ ServerHolds' /\ ClientHolds'
  <2>1. s_down' \in DownStates'
    BY <1>3, <1>6 DEF DownStates
  <2> QED BY <1>2, <1>6, <1>10, <2>1 DEF TunnelInv, NetHolds, ServerHolds, ClientHolds
<1>12. ClientRuns'
  BY <1>2, <1>3, <1>4 DEF TunnelInv, ClientRuns
<1>13. DownOnce'
  <2>1. ClientWriting' = ClientWriting /\ Pending' = Pending
    BY <1>2 DEF ClientWriting, Pending
  <2> QED BY <1>2, <1>4, <1>10, <2>1, KeepsDownOnce
<1>14. UpOnce' /\ ServerSpent'
  <2>1. DOMAIN by_index' = {new} /\ ServerWriting' = {}
    BY <1>6 DEF ServerWriting
  <2>2. \A e \in sealed.set \cup s_sealed.set : e[1] # new
    BY <1>4 DEF TunnelInv, ServerSpent, Inv, TypeOK, History
  <2>3. s_sealed.set \subseteq Key' \X Noise!Nonce
    BY <1>4 DEF TunnelInv, ServerSpent
  <2> QED BY <1>2, <2>1, <2>2, <2>3 DEF TunnelInv, UpOnce, ServerSpent
<1>15. InOrder'
  <2> SUFFICES ASSUME network # "wild" PROVE InOrder'
    BY <1>2 DEF InOrder
  <2>1. InitInHand = {init} /\ InitInHand' = {}
    BY <1>1, <1>6 DEF InitInHand
  <2>2. InitsDone' = InitsDone \cup {init} /\ InitsAhead' = InitsAhead
    BY <1>2, <1>4 DEF InitsDone, InitsAhead
  <2>3. \A k \in Key : keys[k] < init
    BY <2>1 DEF TunnelInv, InOrder, InitsDone
  <2>4. \A k, l \in Key' : k < l => keys'[k] < keys'[l]
    <3> SUFFICES ASSUME NEW k \in Key', NEW l \in Key', k < l PROVE keys'[k] < keys'[l]
      OBVIOUS
    <3>1. k \in Key
      BY <1>3, <1>4
    <3>2. CASE l \in Key
      BY <1>4, <3>1, <3>2 DEF TunnelInv, InOrder
    <3>3. CASE l = new
      BY <1>4, <2>3, <3>1, <3>3
    <3> QED BY <1>4, <3>2, <3>3
  <2> QED BY <1>2, <2>1, <2>2, <2>4 DEF TunnelInv, InOrder
<1> QED BY <1>9, <1>11, <1>12, <1>13, <1>14, <1>15 DEF TunnelInv

\* The response goes out.
LEMMA ServerRespondsInv == ASSUME TunnelInv, ServerResponds PROVE TunnelInv'
<1>1. /\ s_down.at = "set_peers" /\ s_down' = S!Idle
      /\ UNCHANGED <<by_index, by_ip, s_up, s_keys, vars, network, s_sealed, written, s_written>>
      /\ Send("client", Response(Len(keys)))
  BY DEF ServerResponds, S!HandshakeSetPeers, S!table, Same, history
<1>2. /\ Inv' /\ ClientRuns' /\ ClientHolds' /\ DownOnce'
      /\ Responses' = Responses /\ Seq(Datagrams) \subseteq Seq(Datagrams')
      /\ SentDown \subseteq SentDown'
  BY <1>1, ServerOnly
<1>3. Response(Len(keys)) \in Responses
  BY <1>1 DEF TunnelInv, OneSession, Responses, Key, Inv, TypeOK
<1>4. [to |-> "client", packet |-> Response(Len(keys))] \in Datagrams'
  BY <1>2, <1>3 DEF Datagrams
<1>5. NetHolds'
  BY <1>1, <1>2, <1>4, Sent DEF TunnelInv
<1>6. InOrder'
  <2>1. Response(Len(keys)).kind # "init" /\ InitInHand' = {}
    BY <1>1 DEF Response, InitInHand, S!Idle
  <2> QED BY <1>1, <2>1, SendKeepsInOrder DEF vars
<1>7. ServerHolds'
  BY <1>1, <1>2 DEF TunnelInv, ServerHolds, DownStates
<1>8. OneSession' /\ UpOnce' /\ ServerSpent'
  <2>1. TableMoves
    BY <1>1, TableStays DEF TunnelInv, Inv
  <2>2. ServerWriting' = {}
    BY <1>1 DEF ServerWriting, S!Idle
  <2> QED BY <1>1, <2>1, <2>2, TableKeeps DEF vars
<1> QED BY <1>2, <1>5, <1>6, <1>7, <1>8 DEF TunnelInv

\* A packet comes out at the server.
LEMMA ServerWritesInv == ASSUME TunnelInv, ServerWrites PROVE TunnelInv'
<1>1. /\ s_down.at = "tun_write" /\ s_down' = S!Idle
      /\ UNCHANGED <<by_index, by_ip, s_up, s_keys, vars, net, network, s_sealed, written>>
      /\ s_written' = Count(s_written, s_down.packet.key, s_down.packet.nonce)
  BY DEF ServerWrites, S!TunWrite, S!table, Quiet
<1>2. /\ Inv' /\ ClientRuns' /\ ClientHolds' /\ DownOnce'
      /\ Seq(Datagrams) \subseteq Seq(Datagrams') /\ SentDown \subseteq SentDown'
  BY <1>1, ServerOnly
<1>3. NetHolds' /\ ServerHolds'
  BY <1>1, <1>2 DEF TunnelInv, NetHolds, ServerHolds, DownStates
<1>4. OneSession' /\ ServerSpent'
  <2>1. TableMoves
    BY <1>1, TableStays DEF TunnelInv, Inv
  <2> QED BY <1>1, <2>1, TableKeeps DEF S!Idle, vars
<1>5. s_written'.set = s_written.set \cup ServerWriting /\ ServerWriting' = {}
  BY <1>1 DEF ServerWriting, Count, S!Idle
<1>6. ServerWriting \subseteq sealed.set
  BY DownCases, UpPacket DEF ServerWriting
<1>7. UpOnce'
  BY <1>1, <1>5, <1>6 DEF TunnelInv, UpOnce, vars
<1>8. InOrder'
  <2>1. InitInHand' = {}
    BY <1>1 DEF InitInHand, S!Idle
  <2> QED BY <1>1, <2>1, KeepsInOrder DEF vars
<1> QED BY <1>2, <1>3, <1>4, <1>7, <1>8 DEF TunnelInv

\* What the table says of a session.
LEMMA AtIndex ==
    ASSUME TunnelInv, NEW i \in DOMAIN by_index
    PROVE  /\ i = Len(keys) /\ by_index[i].session.key = i
           /\ by_index[i] \in [session : SessionType, peer_addr : {MyAddr},
                               tunnel_ip : {MyIp}, idle : Nat]
           /\ by_index[i].session \in SessionType /\ Regular(by_index[i].session)
           /\ by_index[i].session.snow_nonce \in Noise!Nonce
           /\ by_index[i].session.snow_nonce \in Nat
           /\ MyIp \in DOMAIN by_ip /\ by_ip[MyIp] = i
<1>1. /\ i = Len(keys) /\ by_index[i].session.key = i
      /\ by_index[i] \in [session : SessionType, peer_addr : {MyAddr},
                          tunnel_ip : {MyIp}, idle : Nat]
      /\ Regular(by_index[i].session) /\ MyIp \in DOMAIN by_ip /\ by_ip[MyIp] = i
  BY DEF TunnelInv, OneSession
<1>2. by_index[i].session \in SessionType
  BY <1>1
<1> QED BY <1>1, <1>2, ClientAssumption DEF SessionType, Noise!Nonce

\* One session of the table moves, the others stay.
LEMMA OneMoves ==
    ASSUME TunnelInv, NEW i \in DOMAIN by_index, NEW after, Forward(by_index[i], after),
           by_index' = [by_index EXCEPT ![i] = after], by_ip' = by_ip
    PROVE  TableMoves
<1>1. DOMAIN by_index' = DOMAIN by_index /\ by_index'[i] = after
      /\ \A j \in DOMAIN by_index : j = i
  BY DEF TunnelInv, OneSession
<1>2. MyIp \in DOMAIN by_ip
  BY AtIndex
<1> QED BY <1>1, <1>2 DEF TableMoves

\* A packet for the client is sealed, with a nonce that was not used before.
LEMMA ServerEncryptsStep ==
    ASSUME TunnelInv, ServerEncrypts
    PROVE  /\ TableMoves
           /\ UNCHANGED <<vars, by_ip, s_down, s_keys, net, network, written, s_written>>
           /\ \E i \in DOMAIN by_index :
                 LET s == by_index[i].session
                 IN  /\ s_up' = [at |-> "send", dst |-> s_up.dst,
                                 wire |-> S!Noise!Encrypted(s, s_up.dst),
                                 to |-> by_index[i].peer_addr]
                     /\ s_sealed' = Count(s_sealed, i, s.snow_nonce)
                     /\ <<i, s.snow_nonce>> \notin s_sealed.set
                     /\ \A j \in DOMAIN by_index' :
                           j = i /\ by_index'[j].session.snow_nonce = s.snow_nonce + 1
<1>1. PICK i \in S!RouteOf(s_up.dst) :
         /\ S!Noise!CanEncrypt(by_index[i].session)
         /\ s_up' = [at |-> "send", dst |-> s_up.dst,
                     wire |-> S!Noise!Encrypted(by_index[i].session, s_up.dst),
                     to |-> by_index[i].peer_addr]
         /\ by_index' = [by_index EXCEPT ![i] =
                            [by_index[i] EXCEPT
                               !.session = S!Noise!AfterEncrypt(by_index[i].session),
                               !.idle = 0]]
  BY DEF ServerEncrypts, S!UplinkEncrypts
<1>2. i \in DOMAIN by_index
  BY DEF S!RouteOf
<1>3. UNCHANGED <<vars, by_ip, s_down, s_keys, net, network, written, s_written>>
  BY DEF ServerEncrypts, S!UplinkEncrypts, Quiet
<1> DEFINE s == by_index[i].session
<1> DEFINE next == Noise!AfterEncrypt(s)
<1>4. /\ s \in SessionType /\ Regular(s) /\ s.key = i /\ s.snow_nonce \in Nat
      /\ by_index[i] \in [session : SessionType, peer_addr : {MyAddr},
                          tunnel_ip : {MyIp}, idle : Nat]
  BY <1>2, AtIndex
<1>5. Noise!CanEncrypt(s) /\ S!Noise!AfterEncrypt(s) = next
  BY <1>1, SameNoise
<1>6. /\ next \in SessionType /\ next.key = s.key /\ next.replay = s.replay
      /\ next.snow_nonce = s.snow_nonce + 1 /\ Regular(next)
  BY <1>4, <1>5, Encrypting
<1> HIDE DEF next
<1> DEFINE after == [by_index[i] EXCEPT !.session = next, !.idle = 0]
<1>7. by_index' = [by_index EXCEPT ![i] = after]
  BY <1>1, <1>5
<1>8. /\ after \in [session : SessionType, peer_addr : {MyAddr}, tunnel_ip : {MyIp}, idle : Nat]
      /\ after.session = next
  BY <1>4, <1>6
<1> HIDE DEF after
<1>9. Forward(by_index[i], after)
  BY <1>4, <1>6, <1>8 DEF Forward
<1>10. TableMoves
  BY <1>2, <1>3, <1>7, <1>9, OneMoves
<1>11. \A j \in DOMAIN by_index' : j = i /\ by_index'[j].session.snow_nonce = s.snow_nonce + 1
  <2>1. \A j \in DOMAIN by_index : j = i
    BY <1>2 DEF TunnelInv, OneSession
  <2> QED BY <1>2, <1>6, <1>7, <1>8, <2>1
<1>12. s_sealed' = Count(s_sealed, i, s.snow_nonce)
  <2>1. s_up'.wire = S!Noise!Encrypted(s, s_up.dst)
    BY <1>1
  <2> QED BY <1>4, <2>1 DEF ServerEncrypts, S!Noise!Encrypted
<1>13. <<i, s.snow_nonce>> \notin s_sealed.set
  BY <1>2, <1>4 DEF TunnelInv, ServerSpent
<1> QED BY <1>1, <1>2, <1>3, <1>10, <1>11, <1>12, <1>13

LEMMA ServerEncryptsInv == ASSUME TunnelInv, ServerEncrypts PROVE TunnelInv'
<1>1. /\ TableMoves
      /\ UNCHANGED <<vars, by_ip, s_down, s_keys, net, network, written, s_written>>
  BY ServerEncryptsStep
<1>2. PICK i \in DOMAIN by_index :
         LET s == by_index[i].session
         IN  /\ s_up' = [at |-> "send", dst |-> s_up.dst,
                         wire |-> S!Noise!Encrypted(s, s_up.dst),
                         to |-> by_index[i].peer_addr]
             /\ s_sealed' = Count(s_sealed, i, s.snow_nonce)
             /\ \A j \in DOMAIN by_index' :
                   j = i /\ by_index'[j].session.snow_nonce = s.snow_nonce + 1
  BY ServerEncryptsStep
<1> DEFINE s == by_index[i].session
<1>3. s_sealed'.set = s_sealed.set \cup {<<i, s.snow_nonce>>}
  BY <1>2 DEF Count
<1>4. /\ Inv' /\ ClientRuns' /\ ClientHolds' /\ DownOnce'
      /\ Seq(Datagrams) \subseteq Seq(Datagrams') /\ SentDown \subseteq SentDown'
      /\ Inits' = Inits /\ SentUp' = SentUp
  BY <1>1, <1>3, ServerOnly
<1>5. /\ s.key = i /\ s.send_nonce = s.snow_nonce /\ s.snow_nonce \in Noise!Nonce
      /\ s.snow_nonce \in Nat /\ i = Len(keys) /\ s \in SessionType
  BY AtIndex DEF Regular
<1>6. i \in Key
  BY <1>5 DEF SessionType
<1>7. NetHolds' /\ ServerHolds'
  <2>1. s_up'.wire.key = i /\ s_up'.wire.nonce = s.snow_nonce
    BY <1>2, <1>5 DEF S!Noise!Encrypted
  <2>2. DataPacket(i, s.snow_nonce, "ipv4") \in SentDown'
    BY <1>3 DEF SentDown
  <2>3. DownStates' = DownStates
    BY <1>1, <1>4 DEF DownStates, vars
  <2> QED BY <1>1, <1>4, <2>1, <2>2, <2>3 DEF TunnelInv, NetHolds, ServerHolds
<1>8. OneSession' /\ UpOnce'
  <2>1. ServerWriting' = ServerWriting
    BY <1>1 DEF ServerWriting
  <2> QED BY <1>1, <2>1, TableKeeps DEF vars
<1>9. ServerSpent'
  <2>1. s_sealed'.set \subseteq Key' \X Noise!Nonce
    BY <1>1, <1>3, <1>5, <1>6 DEF TunnelInv, ServerSpent, Key, vars
  <2>2. ASSUME NEW j \in DOMAIN by_index', NEW e \in s_sealed'.set, e[1] = j
        PROVE  e[2] < by_index'[j].session.snow_nonce
    <3>1. j = i /\ by_index'[j].session.snow_nonce = s.snow_nonce + 1
      BY <1>2
    <3>2. CASE e \in s_sealed.set
      <4>1. e[2] < s.snow_nonce /\ e[2] \in Nat
        BY <2>2, <3>1, <3>2, ClientAssumption DEF TunnelInv, ServerSpent, Noise!Nonce
      <4> QED BY <1>5, <3>1, <4>1
    <3>3. CASE e = <<i, s.snow_nonce>>
      BY <1>5, <3>1, <3>3
    <3> QED BY <1>3, <3>2, <3>3
  <2> QED BY <2>1, <2>2 DEF ServerSpent
<1>10. InOrder'
  <2>1. InitInHand' = InitInHand
    BY <1>1 DEF InitInHand
  <2> QED BY <1>1, <2>1, KeepsInOrder DEF vars
<1> QED BY <1>4, <1>7, <1>8, <1>9, <1>10 DEF TunnelInv

\* ... and sent.
LEMMA ServerSendsInv == ASSUME TunnelInv, ServerSends PROVE TunnelInv'
<1> DEFINE packet == DataPacket(s_up.wire.key, s_up.wire.nonce, "ipv4")
<1>1. /\ s_up.at = "send" /\ s_up' = S!Idle
      /\ UNCHANGED <<by_index, by_ip, s_down, s_keys, vars, network, s_sealed, written, s_written>>
      /\ Send("client", packet)
  BY DEF ServerSends, S!UplinkSends, S!table, Same, history
<1>2. packet \in SentDown /\ packet.kind # "init"
  BY <1>1 DEF TunnelInv, ServerHolds, DataPacket
<1> HIDE DEF packet
<1>3. /\ Inv' /\ ClientRuns' /\ ClientHolds' /\ DownOnce'
      /\ Seq(Datagrams) \subseteq Seq(Datagrams') /\ SentDown \subseteq SentDown'
      /\ Inits' = Inits /\ SentUp' = SentUp
  BY <1>1, ServerOnly
<1>4. NetHolds'
  <2>1. [to |-> "client", packet |-> packet] \in Datagrams'
    BY <1>2, <1>3 DEF Datagrams
  <2> QED BY <1>1, <1>3, <2>1, Sent DEF TunnelInv
<1>5. ServerHolds'
  <2>1. DownStates' = DownStates
    BY <1>1, <1>3 DEF DownStates, vars
  <2> QED BY <1>1, <2>1 DEF TunnelInv, ServerHolds, S!Idle
<1>6. OneSession' /\ UpOnce' /\ ServerSpent'
  <2>1. TableMoves
    BY <1>1, TableStays DEF TunnelInv, Inv
  <2>2. ServerWriting' = ServerWriting
    BY <1>1 DEF ServerWriting
  <2> QED BY <1>1, <2>1, <2>2, TableKeeps DEF vars
<1>7. InOrder'
  <2>1. InitInHand' = InitInHand
    BY <1>1 DEF InitInHand
  <2> QED BY <1>1, <1>2, <2>1, SendKeepsInOrder DEF vars
<1> QED BY <1>3, <1>4, <1>5, <1>6, <1>7 DEF TunnelInv

\* Steps of the server that send and seal nothing.
LEMMA ServerMoves ==
    ASSUME TunnelInv, Quiet, UNCHANGED <<vars, history, s_keys>>, TableMoves,
           s_down' \in DownStates, s_up' = s_up \/ s_up'.at # "send",
           s_down'.at \in {"set_sessions", "set_peers"} =>
               s_down.at \in {"set_sessions", "set_peers"},
           InitInHand' \subseteq InitInHand,
           ServerWriting' \subseteq ServerWriting \/ UpOnce'
    PROVE  TunnelInv'
<1>1. /\ Inv' /\ ClientRuns' /\ ClientHolds' /\ DownOnce'
      /\ Seq(Datagrams) \subseteq Seq(Datagrams') /\ SentDown \subseteq SentDown'
      /\ Inits' = Inits /\ SentUp' = SentUp
  BY ServerOnly DEF history
<1>2. NetHolds' /\ ServerHolds'
  <2>1. DownStates' = DownStates
    BY <1>1 DEF DownStates, vars
  <2> QED BY <1>1, <2>1 DEF TunnelInv, NetHolds, ServerHolds, Quiet
<1>3. OneSession' /\ UpOnce' /\ ServerSpent'
  BY TableKeeps DEF vars, history
<1>4. InOrder'
  BY KeepsInOrder DEF vars, Quiet
<1> QED BY <1>1, <1>2, <1>3, <1>4 DEF TunnelInv

\* The steps of handle_handshake between the datagram and the session.
LEMMA HandshakeStepsInv ==
    ASSUME TunnelInv, Quiet, UNCHANGED <<vars, history>>,
           \/ S!HandshakeAdmitted \/ S!HandshakeLimited
           \/ S!alloc_index(Len(keys) + 1)
           \/ S!HandshakeSetSessions
    PROVE  TunnelInv'
<1>1. UNCHANGED <<by_index, by_ip, s_keys, s_up>>
  BY DEF S!HandshakeAdmitted, S!HandshakeLimited, S!alloc_index, S!HandshakeSetSessions, S!table
<1>2. TableMoves
  BY <1>1, TableStays DEF TunnelInv, Inv
<1>3. CASE S!HandshakeAdmitted
  <2>1. /\ s_down.at = "admit" /\ s_down' = [s_down EXCEPT !.at = "alloc"]
        /\ s_down \in [at : {"admit", "alloc"}, packet : Inits, src : {MyAddr}]
    BY <1>3, DownCases DEF S!HandshakeAdmitted
  <2>2. /\ s_down' \in [at : {"admit", "alloc"}, packet : Inits, src : {MyAddr}]
        /\ s_down'.at = "alloc" /\ s_down'.packet = s_down.packet
    BY <2>1
  <2>3. s_down' \in DownStates
    BY <2>2 DEF DownStates
  <2>4. InitInHand' = InitInHand /\ ServerWriting' = {}
    BY <2>1, <2>2 DEF InitInHand, ServerWriting
  <2> QED BY <1>1, <1>2, <2>2, <2>3, <2>4, ServerMoves
<1>4. CASE S!HandshakeLimited
  <2>1. s_down' = S!Idle
    BY <1>4 DEF S!HandshakeLimited, S!HandshakeFails
  <2>2. s_down' \in DownStates /\ InitInHand' = {} /\ ServerWriting' = {}
    BY <2>1 DEF DownStates, InitInHand, ServerWriting, S!Idle
  <2> QED BY <1>1, <1>2, <2>1, <2>2, ServerMoves DEF S!Idle
<1>5. CASE S!alloc_index(Len(keys) + 1)
  <2>1. /\ s_down.at = "alloc"
        /\ s_down.packet \in Inits /\ s_down.src = MyAddr
        /\ s_down' = [at |-> "finish", packet |-> s_down.packet, src |-> s_down.src,
                      index |-> Len(keys) + 1]
    BY <1>5, DownCases DEF S!alloc_index
  <2>2. s_down' \in DownStates
    BY <2>1 DEF DownStates
  <2>3. InitInHand' = InitInHand /\ ServerWriting' = {}
    BY <2>1 DEF InitInHand, ServerWriting
  <2> QED BY <1>1, <1>2, <2>1, <2>2, <2>3, ServerMoves
<1>6. CASE S!HandshakeSetSessions
  <2>1. /\ s_down.at = "set_sessions" /\ s_down' = [s_down EXCEPT !.at = "set_peers"]
        /\ s_down \in [at : {"set_sessions", "set_peers"}, seen : SUBSET Nat]
    BY <1>6, DownCases DEF S!HandshakeSetSessions
  <2>2. /\ s_down' \in [at : {"set_sessions", "set_peers"}, seen : SUBSET Nat]
        /\ s_down'.at = "set_peers"
    BY <2>1
  <2>3. s_down' \in DownStates
    BY <2>2 DEF DownStates
  <2>4. InitInHand' = {} /\ ServerWriting' = {}
    BY <2>2 DEF InitInHand, ServerWriting
  <2> QED BY <1>1, <1>2, <2>1, <2>3, <2>4, ServerMoves
<1> QED BY <1>3, <1>4, <1>5, <1>6

\* A data packet is looked up and decrypted, or not.
LEMMA DecryptStepsInv ==
    ASSUME TunnelInv, Quiet, UNCHANGED <<vars, history>>,
           S!UnknownSession \/ S!DecryptFails \/ S!DecryptSucceeds
    PROVE  TunnelInv'
<1> DEFINE p == s_down.packet
<1>1. /\ s_down.at = "decrypt" /\ p \in SentUp /\ s_down.src = MyAddr
      /\ p.index = p.key /\ <<p.key, p.nonce>> \in sealed.set /\ p.nonce \in Noise!Nonce
  BY DownCases, UpPacket DEF S!UnknownSession, S!DecryptFails, S!DecryptSucceeds
<1>2. UNCHANGED <<by_ip, s_keys, s_up>>
  BY DEF S!UnknownSession, S!DecryptFails, S!DecryptSucceeds, S!table
<1>3. ServerWriting = {} /\ InitInHand = {}
  BY <1>1 DEF ServerWriting, InitInHand
<1>4. CASE S!UnknownSession
  <2>1. s_down' = S!Idle /\ by_index' = by_index
    BY <1>4 DEF S!UnknownSession, S!table
  <2>2. TableMoves
    BY <1>2, <2>1, TableStays DEF TunnelInv, Inv
  <2>3. s_down' \in DownStates /\ InitInHand' = {} /\ ServerWriting' = {}
    BY <2>1 DEF DownStates, InitInHand, ServerWriting, S!Idle
  <2> QED BY <1>2, <2>1, <2>2, <2>3, ServerMoves DEF S!Idle
<1>5. CASE S!DecryptFails \/ S!DecryptSucceeds
  <2> DEFINE i == p.index
  <2>1. i \in DOMAIN by_index
    BY <1>5 DEF S!DecryptFails, S!DecryptSucceeds
  <2> DEFINE live == by_index[i]
  <2> DEFINE s == live.session
  <2> DEFINE received == Noise!AfterDecrypt(s, p)
  <2>2. /\ s \in SessionType /\ Regular(s) /\ s.key = i /\ s.snow_nonce \in Nat
        /\ live \in [session : SessionType, peer_addr : {MyAddr}, tunnel_ip : {MyIp}, idle : Nat]
    BY <2>1, AtIndex
  <2>3. /\ received \in SessionType /\ received.key = s.key
        /\ received.snow_nonce = s.snow_nonce /\ Regular(received)
        /\ s.replay.taken \subseteq received.replay.taken
        /\ Noise!Decrypts(s, p) =>
              p.nonce \notin s.replay.taken /\ p.nonce \in received.replay.taken
    BY <1>1, <2>2, Decrypting
  <2>4. S!Live = live /\ S!Received = received
    BY SameNoise DEF S!Live, S!Received
  <2> DEFINE failed == [live EXCEPT !.session = received]
  <2> DEFINE opened == [live EXCEPT !.session = received, !.peer_addr = MyAddr, !.idle = 0]
  <2>5. \/ by_index' = [by_index EXCEPT ![i] = failed] /\ s_down' = S!Idle
        \/ /\ by_index' = [by_index EXCEPT ![i] = opened] /\ Noise!Decrypts(s, p)
           /\ s_down' \in {S!Idle, [at |-> "tun_write", packet |-> p]}
    BY <1>1, <1>5, <2>4, SameNoise DEF S!DecryptFails, S!DecryptSucceeds
  <2> HIDE DEF received
  <2>6. /\ failed.session = received /\ opened.session = received
        /\ failed \in [session : SessionType, peer_addr : {MyAddr}, tunnel_ip : {MyIp}, idle : Nat]
        /\ opened \in [session : SessionType, peer_addr : {MyAddr}, tunnel_ip : {MyIp}, idle : Nat]
    BY <2>2, <2>3
  <2> HIDE DEF failed, opened
  <2>7. Forward(live, failed) /\ Forward(live, opened)
    BY <2>2, <2>3, <2>6 DEF Forward
  <2>8. TableMoves
    BY <1>2, <2>1, <2>5, <2>7, OneMoves
  <2>9. CASE s_down' = S!Idle
    <3>1. s_down' \in DownStates /\ InitInHand' = {} /\ ServerWriting' = {}
      BY <2>9 DEF DownStates, InitInHand, ServerWriting, S!Idle
    <3> QED BY <1>2, <2>8, <2>9, <3>1, ServerMoves DEF S!Idle
  <2>10. CASE s_down' = [at |-> "tun_write", packet |-> p]
    <3>1. /\ s_down' \in DownStates /\ InitInHand' = {} /\ s_down'.at = "tun_write"
          /\ ServerWriting' = {<<i, p.nonce>>}
      BY <1>1, <2>10 DEF DownStates, InitInHand, ServerWriting
    <3>2. by_index' = [by_index EXCEPT ![i] = opened] /\ Noise!Decrypts(s, p)
      BY <2>5, <2>10 DEF S!Idle
    <3>3. <<i, p.nonce>> \notin s_written.set
      BY <2>1, <2>3, <3>2 DEF TunnelInv, UpOnce
    <3>4. by_index'[i].session = received /\ \A j \in DOMAIN by_index' : j = i
      <4>1. \A j \in DOMAIN by_index : j = i
        BY <2>1 DEF TunnelInv, OneSession
      <4> QED BY <2>1, <2>6, <3>2, <4>1
    <3>5. UpOnce'
      <4>1. s_written' = s_written /\ sealed' = sealed
        BY DEF history, vars
      <4>2. \A e \in s_written.set : e[1] = i => e[2] \in received.replay.taken
        BY <2>1, <2>3 DEF TunnelInv, UpOnce
      <4>3. p.nonce \in received.replay.taken
        BY <2>3, <3>2
      <4>4. ASSUME NEW j \in DOMAIN by_index', NEW e \in s_written'.set \cup ServerWriting', e[1] = j
            PROVE  e[2] \in by_index'[j].session.replay.taken
        <5>1. CASE e \in s_written.set
          BY <3>4, <4>2, <4>4, <5>1
        <5>2. CASE e = <<i, p.nonce>>
          BY <3>4, <4>3, <5>2
        <5> QED BY <3>1, <4>1, <5>1, <5>2
      <4>5. ServerWriting' \cap s_written'.set = {}
        BY <3>1, <3>3, <4>1
      <4> QED BY <4>1, <4>4, <4>5 DEF TunnelInv, UpOnce
    <3> QED BY <1>2, <2>8, <3>1, <3>5, ServerMoves
  <2> QED BY <2>5, <2>9, <2>10
<1> QED BY <1>4, <1>5

\* The other steps of the server leave its downlink alone.
LEMMA OtherStepsInv ==
    ASSUME TunnelInv, Quiet, UNCHANGED <<vars, history>>,
           \/ S!TunRead(MyIp) \/ S!UplinkDrops
           \/ S!Reap \/ S!ReapSetSessions \/ S!ReapSetPeers
    PROVE  TunnelInv'
<1>1. UNCHANGED <<s_keys, s_down>> /\ (s_up' = s_up \/ s_up'.at # "send")
  BY DEF S!TunRead, S!UplinkDrops, S!Reap, S!ReapSetSessions, S!ReapSetPeers, S!Idle
<1>2. TableMoves
  <2>1. CASE UNCHANGED <<by_index, by_ip>>
    BY <2>1, TableStays DEF TunnelInv, Inv
  <2>2. CASE S!Reap
    <3>1. /\ by_index' = S!Without(by_index, S!Stale)
          /\ by_ip' = S!Without(by_ip, S!StaleIps)
      BY <2>2 DEF S!Reap
    <3>2. ASSUME NEW i \in DOMAIN by_index'
          PROVE  /\ i \in DOMAIN by_index /\ by_index'[i] = by_index[i]
                 /\ MyIp \in DOMAIN by_ip' /\ by_ip'[MyIp] = by_ip[MyIp]
      <4>1. i \in DOMAIN by_index /\ i \notin S!Stale /\ by_index'[i] = by_index[i]
        BY <3>1 DEF S!Without
      <4>2. MyIp \in DOMAIN by_ip /\ by_ip[MyIp] = i
        BY <4>1, AtIndex
      <4>3. MyIp \notin S!StaleIps
        BY <4>1, <4>2 DEF S!StaleIps
      <4> QED BY <3>1, <4>1, <4>2, <4>3 DEF S!Without
    <3>3. ASSUME NEW i \in DOMAIN by_index PROVE Forward(by_index[i], by_index[i])
      BY AtIndex DEF Forward
    <3> QED BY <3>2, <3>3 DEF TableMoves
  <2> QED BY <2>1, <2>2
          DEF S!TunRead, S!UplinkDrops, S!ReapSetSessions, S!ReapSetPeers, S!table
<1>3. s_down' \in DownStates /\ InitInHand' = InitInHand /\ ServerWriting' = ServerWriting
  BY <1>1 DEF TunnelInv, ServerHolds, InitInHand, ServerWriting
<1> QED BY <1>1, <1>2, <1>3, ServerMoves

LEMMA ServerStepsInv == ASSUME TunnelInv, ServerSteps PROVE TunnelInv'
BY HandshakeStepsInv, DecryptStepsInv, OtherStepsInv DEF ServerSteps

\* A server that is started again has no session; the keys of those it had do not
\* come back.
LEMMA ServerRestartsInv == ASSUME TunnelInv, ServerRestarts PROVE TunnelInv'
<1>1. /\ by_index' = <<>> /\ s_down' = S!Idle /\ s_up' = S!Idle
      /\ UNCHANGED <<vars, net, network, s_keys, s_sealed, written, s_written>>
  BY DEF ServerRestarts, history
<1>2. TableMoves
  BY <1>1 DEF TableMoves
<1>3. /\ Inv' /\ ClientRuns' /\ ClientHolds' /\ DownOnce'
      /\ Seq(Datagrams) \subseteq Seq(Datagrams') /\ SentDown \subseteq SentDown'
  BY <1>1, ServerOnly
<1>4. InitInHand' = {} /\ ServerWriting' = {}
  BY <1>1 DEF InitInHand, ServerWriting, S!Idle
<1>5. NetHolds' /\ ServerHolds'
  BY <1>1, <1>3 DEF TunnelInv, NetHolds, ServerHolds, DownStates, S!Idle
<1>6. OneSession' /\ UpOnce' /\ ServerSpent'
  BY <1>1, <1>2, <1>4, TableKeeps DEF vars, S!Idle
<1>7. InOrder'
  BY <1>1, <1>4, KeepsInOrder DEF vars
<1> QED BY <1>3, <1>5, <1>6, <1>7 DEF TunnelInv

\* Sessions grow old at both ends.
LEMMA TimePassesInv == ASSUME TunnelInv, Inv', TimePasses PROVE TunnelInv'
<1>1. /\ UNCHANGED <<phase, queue, hs, dn, keys, inits, sealed, net, network,
                     by_ip, s_down, s_up, s_keys, s_sealed, written, s_written>>
      /\ by_index' = [i \in DOMAIN by_index |->
                        [by_index[i] EXCEPT !.idle = S!Older(by_index[i].idle)]]
  BY DEF TimePasses, Tick, S!Tick, Quiet, history, server
<1>2. phase = "up" => slot'.session = slot.session
  BY Types DEF TimePasses, Tick, Slots, TunnelInv, NoSession
<1>3. TableMoves
  <2> SUFFICES ASSUME NEW i \in DOMAIN by_index
               PROVE  /\ Forward(by_index[i], by_index'[i])
                      /\ MyIp \in DOMAIN by_ip
    BY <1>1 DEF TableMoves
  <2>1. /\ by_index[i].session \in SessionType /\ Regular(by_index[i].session)
        /\ by_index[i].session.snow_nonce \in Nat
        /\ by_index[i] \in [session : SessionType, peer_addr : {MyAddr},
                            tunnel_ip : {MyIp}, idle : Nat]
        /\ MyIp \in DOMAIN by_ip
    BY AtIndex
  <2>2. S!Older(by_index[i].idle) \in Nat
    BY <2>1 DEF S!Older
  <2>3. /\ by_index'[i].session = by_index[i].session
        /\ by_index'[i] \in [session : SessionType, peer_addr : {MyAddr},
                             tunnel_ip : {MyIp}, idle : Nat]
    BY <1>1, <2>1, <2>2
  <2> QED BY <2>1, <2>3 DEF Forward
<1>4. /\ InitInHand' = InitInHand /\ ServerWriting' = ServerWriting
      /\ ClientWriting' = ClientWriting /\ Pending' = Pending
  BY <1>1 DEF InitInHand, ServerWriting, ClientWriting, Pending
<1>5. OneSession' /\ UpOnce' /\ ServerSpent'
  BY <1>1, <1>3, <1>4, TableKeeps
<1>6. InOrder'
  BY <1>1, <1>4, KeepsInOrder
<1>7. /\ Inits' = Inits /\ SentUp' = SentUp /\ SentDown' = SentDown
      /\ Responses' = Responses
  BY <1>1 DEF Inits, SentUp, SentDown, Responses, Key
<1>8. NetHolds' /\ ServerHolds' /\ ClientHolds'
  <2>1. Datagrams' = Datagrams /\ DownStates' = DownStates
    BY <1>1, <1>7 DEF Datagrams, DownStates
  <2> QED BY <1>1, <1>7, <2>1 DEF TunnelInv, NetHolds, ServerHolds, ClientHolds
<1>9. ClientRuns'
  BY <1>1, <1>2 DEF TunnelInv, ClientRuns
<1>10. DownOnce'
  BY <1>1, <1>2, <1>4, <1>7, KeepsDownOnce
<1> QED BY <1>5, <1>6, <1>8, <1>9, <1>10 DEF TunnelInv

-----------------------------------------------------------------------------
(* All steps together. *)

LEMMA TunnelInitInv == TunnelInit => TunnelInv
<1> SUFFICES ASSUME TunnelInit PROVE TunnelInv
  OBVIOUS
<1>1. Inv
  BY InitInv DEF TunnelInit
<1>2. /\ phase = "starting" /\ keys = <<>> /\ queue = <<>> /\ dn = [at |-> "off"]
      /\ sealed = [set |-> {}, calls |-> 0] /\ hs.at = "send"
      /\ net = <<>> /\ by_index = <<>> /\ s_keys = <<>> /\ s_down = S!Idle /\ s_up = S!Idle
      /\ s_sealed = sealed /\ written = sealed /\ s_written = sealed
  BY DEF TunnelInit, Init, S!Init
<1>3. ClientRuns
  BY <1>2, ClientAssumption DEF ClientRuns
<1>4. NetHolds /\ ServerHolds /\ ClientHolds
  BY <1>2 DEF NetHolds, ServerHolds, ClientHolds, DownStates, S!Idle
<1>5. OneSession
  BY <1>2 DEF OneSession, S!Idle
<1>6. UpOnce /\ DownOnce /\ ServerSpent
  BY <1>2 DEF UpOnce, DownOnce, ServerSpent, ServerWriting, ClientWriting, S!Idle
<1>7. InOrder
  BY <1>2 DEF InOrder, InitsAhead, InitInHand, InitsDone, Key, S!Idle
<1> QED BY <1>1, <1>3, <1>4, <1>5, <1>6, <1>7 DEF TunnelInv

LEMMA TunnelNextInv == TunnelInv /\ [TunnelNext]_tunnelVars => TunnelInv'
<1> SUFFICES ASSUME TunnelInv, [TunnelNext]_tunnelVars PROVE TunnelInv'
  OBVIOUS
<1>1. Inv'
  BY ClientStep, NextInv DEF TunnelInv
<1>2. CASE UNCHANGED tunnelVars
  <2>1. Quiet /\ UNCHANGED <<vars, history, srv>>
    BY <1>2 DEF tunnelVars, Quiet, link
  <2>2. UNCHANGED <<by_index, by_ip, s_keys, s_down, s_up>>
    BY <2>1 DEF srv
  <2>3. TableMoves
    BY <2>2, TableStays DEF TunnelInv, Inv
  <2>4. s_down' \in DownStates /\ InitInHand' = InitInHand /\ ServerWriting' = ServerWriting
    BY <2>2 DEF TunnelInv, ServerHolds, InitInHand, ServerWriting
  <2> QED BY <2>1, <2>2, <2>3, <2>4, ServerMoves
<1>3. CASE TunnelNext
  BY <1>1, <1>3, ClientSendsInitInv, ClientSendsDataInv, ClientStepsInv, ClientWritesInv,
     ClientReceivesInv, ServerReceivesInv, ServerInsertsInv, ServerRespondsInv, ServerWritesInv,
     ServerEncryptsInv, ServerSendsInv, ServerStepsInv, ServerRestartsInv, TimePassesInv
     DEF TunnelNext
<1> QED BY <1>2, <1>3

\* A step of the tunnel is, on the way up, the taking or the giving out of one packet,
\* or nothing.
LEMMA UpStep == TunnelInv /\ [TunnelNext]_tunnelVars => [Up!Next]_(Up!vars)
<1> SUFFICES ASSUME TunnelInv, [TunnelNext]_tunnelVars PROVE [Up!Next]_(Up!vars)
  OBVIOUS
<1>1. ASSUME NEW e \in Key \X Noise!Nonce PROVE e \in (1 .. MaxKeys) \X Noise!Nonce
  BY <1>1, ClientAssumption DEF TunnelInv, ClientRuns, Key, Inv, TypeOK
<1>2. CASE ClientSendsData
  <2>1. up.at = "encrypt" /\ s_written' = s_written
    BY <1>2 DEF ClientSendsData, UpEncrypt, history
  <2>2. ~ NoSession
    BY <2>1 DEF TunnelInv, Inv, Stages
  <2>3. CASE Encrypt
    <3> DEFINE e == <<slot.session.key, slot.session.snow_nonce>>
    <3>1. /\ e \in Key \X Noise!Nonce /\ e \notin sealed.set
          /\ sealed' = Count(sealed, slot.session.key, slot.session.snow_nonce)
      BY <2>2, <2>3, EncryptStep DEF TunnelInv
    <3>2. Up!Send(e)
      BY <2>1, <3>1 DEF Up!Send, Up!More, Count
    <3> QED BY <1>1, <3>1, <3>2 DEF Up!Next
  <2>4. CASE sealed' = sealed
    BY <2>1, <2>4 DEF Up!vars
  <2> QED BY <1>2, <2>3, <2>4 DEF ClientSendsData, UpEncrypt
<1>3. CASE ServerWrites
  <2> DEFINE e == <<s_down.packet.key, s_down.packet.nonce>>
  <2>1. /\ s_down.at = "tun_write" /\ UNCHANGED vars
        /\ s_written' = Count(s_written, s_down.packet.key, s_down.packet.nonce)
    BY <1>3 DEF ServerWrites, S!TunWrite
  <2>2. e \in sealed.set /\ e \in Key \X Noise!Nonce
    BY <2>1, DownCases, UpPacket
  <2>3. e \notin s_written.set
    BY <2>1 DEF TunnelInv, UpOnce, ServerWriting
  <2>4. Up!Deliver(e)
    BY <2>1, <2>2, <2>3 DEF Up!Deliver, Up!More, Count, vars
  <2> QED BY <1>1, <2>2, <2>4 DEF Up!Next
<1>4. CASE \/ ClientSendsInit \/ ClientSteps \/ ClientWrites \/ ClientReceives
           \/ ServerReceives \/ ServerInserts \/ ServerResponds \/ ServerEncrypts
           \/ ServerSends \/ ServerSteps \/ ServerRestarts \/ TimePasses
           \/ UNCHANGED tunnelVars
  <2>1. s_written' = s_written
    BY <1>4 DEF ClientSendsInit, ClientSteps, ClientWrites, ClientReceives, ServerReceives,
                ServerInserts, ServerResponds, ServerEncrypts, ServerSends, ServerSteps,
                ServerRestarts, TimePasses, history, tunnelVars
  <2>2. sealed' = sealed
    BY <1>4 DEF ClientSendsInit, SendInit, ClientSteps, LockGate, RecvResponse, Start,
                ReplaceSession, RecvTimeout, Rehandshake, DownLock, DownRecv, DownDecryptFails,
                DownDecrypts, UpRead, ClientWrites, DownWrite, ClientReceives, Arrive,
                ServerReceives, ServerInserts, ServerAnswers, ServerResponds, ServerEncrypts,
                ServerSends, ServerSteps, ServerRestarts, TimePasses, Tick, vars, tunnelVars
  <2> QED BY <2>1, <2>2 DEF Up!vars
<1> QED BY <1>2, <1>3, <1>4 DEF TunnelNext

\* So it is on the way down.
LEMMA DownStep == TunnelInv /\ [TunnelNext]_tunnelVars => [Down!Next]_(Down!vars)
<1> SUFFICES ASSUME TunnelInv, [TunnelNext]_tunnelVars PROVE [Down!Next]_(Down!vars)
  OBVIOUS
<1>1. ASSUME NEW e \in Key \X Noise!Nonce PROVE e \in (1 .. MaxKeys) \X Noise!Nonce
  BY <1>1, ClientAssumption DEF TunnelInv, ClientRuns, Key, Inv, TypeOK
<1>2. CASE ServerEncrypts
  <2>1. written' = written
    BY <1>2 DEF ServerEncrypts
  <2>2. PICK i \in DOMAIN by_index :
           /\ s_sealed' = Count(s_sealed, i, by_index[i].session.snow_nonce)
           /\ <<i, by_index[i].session.snow_nonce>> \notin s_sealed.set
    BY <1>2, ServerEncryptsStep
  <2> DEFINE e == <<i, by_index[i].session.snow_nonce>>
  <2>3. e \in Key \X Noise!Nonce
    BY AtIndex DEF SessionType
  <2>4. Down!Send(e)
    BY <2>1, <2>2 DEF Down!Send, Down!More, Count
  <2> QED BY <1>1, <2>3, <2>4 DEF Down!Next
<1>3. CASE ClientWrites
  <2> DEFINE e == <<dn.packet.key, dn.packet.nonce>>
  <2>1. /\ dn.at = "write" /\ s_sealed' = s_sealed
        /\ written' = Count(written, dn.packet.key, dn.packet.nonce)
    BY <1>3 DEF ClientWrites, DownWrite
  <2>2. e \in s_sealed.set
    BY <2>1 DEF TunnelInv, DownOnce, SentDown, DataPacket, ServerSpent
  <2>3. e \in Key \X Noise!Nonce
    BY <2>2 DEF TunnelInv, ServerSpent
  <2>4. e \notin written.set
    BY <2>1 DEF TunnelInv, DownOnce, ClientWriting
  <2>5. Down!Deliver(e)
    BY <2>1, <2>2, <2>4 DEF Down!Deliver, Down!More, Count
  <2> QED BY <1>1, <2>3, <2>5 DEF Down!Next
<1>4. CASE \/ ClientSendsInit \/ ClientSendsData \/ ClientSteps \/ ClientReceives
           \/ ServerReceives \/ ServerInserts \/ ServerResponds \/ ServerWrites
           \/ ServerSends \/ ServerSteps \/ ServerRestarts \/ TimePasses
           \/ UNCHANGED tunnelVars
  <2>1. UNCHANGED <<s_sealed, written>>
    BY <1>4 DEF ClientSendsInit, ClientSendsData, ClientSteps, ClientReceives, ServerReceives,
                ServerInserts, ServerResponds, ServerWrites, ServerSends, ServerSteps,
                ServerRestarts, TimePasses, history, tunnelVars
  <2> QED BY <2>1 DEF Down!vars
<1> QED BY <1>2, <1>3, <1>4 DEF TunnelNext

\* On a network that keeps order the last init belongs to the last key, and the server
\* has the session of the last key or none.
LEMMA OrderedAgree == TunnelInv => SameSession
<1> SUFFICES ASSUME TunnelInv, network # "wild", Established,
                    NEW i \in DOMAIN by_index
             PROVE  by_index[i].session.key = slot.session.key
  BY DEF SameSession, S!LiveKeys
<1> DEFINE k == slot.session.key
<1>1. by_index[i].session.key = Len(keys)
  BY AtIndex
<1>2. k \in Key
  BY DEF Established, TunnelInv, Inv, TypeOK, Slots, SessionType
<1>3. k \in Nat /\ Len(keys) \in Nat /\ k <= Len(keys) /\ Len(keys) \in Key
  BY <1>2 DEF Key, TunnelInv, Inv, TypeOK
<1>4. keys[Len(keys)] \in 1 .. inits /\ inits \in Nat
  BY <1>3, ElementOfSeq DEF TunnelInv, Inv, TypeOK, Key
<1>5. keys[k] = inits
  BY DEF Established
<1>6. ~ (k < Len(keys))
  <2> SUFFICES ASSUME k < Len(keys) PROVE FALSE
    OBVIOUS
  <2>1. keys[k] < keys[Len(keys)]
    BY <1>2, <1>3 DEF TunnelInv, InOrder
  <2> QED BY <1>4, <1>5, <2>1
<1> QED BY <1>1, <1>3, <1>6

-----------------------------------------------------------------------------
(* Theorems. *)

\* The inductive invariant, from which the rest follows.
THEOREM TunnelStaysInvariant == TunnelSpec => []TunnelInv
BY TunnelInitInv, TunnelNextInv, PTL DEF TunnelSpec

\* The client of the tunnel is the client of Client, so that its theorems hold here:
\* client::run behaves no differently for having a real server.
THEOREM ClientInTheTunnel == TunnelSpec => Spec
<1>1. TunnelInit => Init
  BY DEF TunnelInit
<1>2. TunnelInv /\ [TunnelNext]_tunnelVars => [Next]_vars
  BY ClientStep DEF TunnelInv
<1> QED BY <1>1, <1>2, TunnelStaysInvariant, PTL DEF TunnelSpec, Spec

\* SameSession: on a network that keeps order, a client that has made its handshake
\* and the server agree on the session (handshake and handle_handshake).
THEOREM EndsAgree == TunnelSpec => []SameSession
BY OrderedAgree, TunnelStaysInvariant, PTL

\* EachWayALink: the tunnel makes no packet up and delivers none twice, in either
\* direction, whatever the network does and however often the server is started again.
THEOREM TunnelIsALink == TunnelSpec => EachWayALink
<1>1. TunnelInit => Up!Init /\ Down!Init
  BY DEF TunnelInit, Init, Up!Init, Down!Init, Up!Nothing, Down!Nothing
<1>2. TunnelInv /\ [TunnelNext]_tunnelVars => [Up!Next]_(Up!vars) /\ [Down!Next]_(Down!vars)
  BY UpStep, DownStep
<1> QED BY <1>1, <1>2, TunnelStaysInvariant, PTL
        DEF TunnelSpec, EachWayALink, Up!Spec, Down!Spec
=============================================================================
