---------------------------- MODULE ClientProofs ----------------------------
(***************************************************************************)
(* Proofs about Client, for every number of attempts, all timers and       *)
(* nonces, and any traffic.                                                *)
(*                                                                         *)
(* That no key and nonce seal two packets takes more than the counter of   *)
(* the session: a session must never be installed a second time.  Its key  *)
(* answers the last init that was sent, and everything that was sealed     *)
(* before that init left, or since, was sealed under the answer to an      *)
(* earlier one.                                                            *)
(***************************************************************************)
EXTENDS Client, FiniteSetTheorems, SequenceTheorems, TLAPS

NoSession == phase \in {"starting", "failed"}

\* A task is in the queue of the gate exactly while it waits in recv.
GateFair ==
    /\ gate \in {<<>>, <<"downlink">>} <=> hs.at # "recv"
    /\ gate \in {<<>>, <<"handshake">>} <=> dn.at # "recv"

\* Without a session only the handshake runs.
Stages ==
    /\ NoSession => dn.at = "off" /\ up.at = "off" /\ sealed = [set |-> {}, calls |-> 0]
    /\ phase = "starting" => hs.at \in {"send", "lock", "recv", "install"}

\* The handshake waits for the answer to the last init that was sent, and has no other.
LatestInit ==
    /\ hs.at \in {"lock", "recv"} => hs.init = inits
    /\ hs.at = "install" => keys[hs.key] = inits

\* An init is out, and the session that answers it is yet to be installed.
Pending == hs.at \in {"lock", "recv", "install"}

\* The session's counter is ahead of all it has sealed, and while an init is out
\* all that was sealed, or will be, is older.
Spent ==
    /\ ~ NoSession =>
          \A e \in sealed.set : e[1] = slot.session.key => e[2] < slot.session.snow_nonce
    /\ Pending => \A e \in sealed.set : keys[e[1]] < inits
    /\ Pending /\ ~ NoSession => keys[slot.session.key] < inits

\* Inductive.
Inv ==
    /\ TypeOK
    /\ GateFair
    /\ Stages
    /\ LatestInit
    /\ Spent
    /\ IsFiniteSet(sealed.set) /\ NonceNeverReused

-----------------------------------------------------------------------------
(* What the tasks can be. *)

Rounds == [at : {"send"}, attempt : 1 .. Attempts]
          \cup [at : {"lock", "recv"}, attempt : 1 .. Attempts, init : Nat]
Plainly == [at : {"tick", "keepalive", "ended"}]
Installs == [at : {"install"}, key : Key]

\* The places of the handshake and maintenance, with what they keep.
LEMMA HsCases ==
    ASSUME TypeOK
    PROVE  /\ hs \in Rounds \cup Plainly \cup Installs
           /\ hs.at \in {"send", "lock", "recv"} => hs \in Rounds
           /\ hs.at \in {"tick", "keepalive", "ended"} => hs \in Plainly
           /\ hs.at = "install" => hs \in Installs
BY DEF TypeOK, Rounds, Plainly, Installs

\* The places of the downlink.
LEMMA DnCases ==
    ASSUME TypeOK
    PROVE  /\ dn \in [at : {"off", "lock", "recv", "ended"}]
                     \cup [at : {"decrypt", "write"}, packet : Arriving]
           /\ dn.at \in {"decrypt", "write"} => dn.packet \in Arriving
BY DEF TypeOK

\* A packet that arrives.
LEMMA ArrivingCases ==
    ASSUME NEW p \in Arriving
    PROVE  \/ p.kind = "response" /\ p.key \in Key
           \/ /\ p.kind = "data" /\ p.nonce \in Noise!Nonce /\ p.plain \in Plain
              /\ p.index \in Key
BY DEF Arriving, Response, DataPacket

\* The client starts without a session.
LEMMA InitInv == Init => Inv
<1> SUFFICES ASSUME Init PROVE Inv
  OBVIOUS
<1>1. slot \in NoSlots
  BY ClientAssumption DEF Init, NoSlot, NoSlots, Longest
<1>2. hs \in Rounds /\ dn \in [at : {"off", "lock", "recv", "ended"}]
      /\ up \in [at : {"off", "read", "encrypt", "ended"}]
  BY ClientAssumption DEF Init, Rounds
<1>3. queue \in Seq(Arriving) /\ keys \in Seq(1 .. inits) /\ sealed \in History
  BY DEF Init, History
<1>4. TypeOK
  BY <1>1, <1>2, <1>3 DEF Init, TypeOK, Rounds
<1>5. GateFair /\ Stages /\ LatestInit
  BY DEF Init, GateFair, Stages, LatestInit, NoSession
<1>6. Spent /\ IsFiniteSet(sealed.set) /\ NonceNeverReused
  BY FS_EmptySet DEF Init, Spent, NonceNeverReused, NoSession
<1> QED BY <1>4, <1>5, <1>6 DEF Inv

-----------------------------------------------------------------------------
(* Steps that leave session, keys and what was sealed alone. *)

\* Of Spent only the place of the handshake matters.
LEMMA KeepsSpent ==
    ASSUME Inv, UNCHANGED <<server, sealed>>, ~ NoSession' => ~ NoSession,
           ~ NoSession' => slot'.session.key = slot.session.key
                           /\ slot'.session.snow_nonce = slot.session.snow_nonce,
           Pending' => Pending,
           LatestInit'
    PROVE  Spent' /\ IsFiniteSet(sealed.set)' /\ NonceNeverReused'
BY DEF Inv, Spent, NonceNeverReused, server

Gates ==
    {<<>>, <<"handshake">>, <<"downlink">>,
     <<"handshake", "downlink">>, <<"downlink", "handshake">>}
Phases == {"starting", "up", "stopping", "exited", "failed"}
Downs == [at : {"off", "lock", "recv", "ended"}] \cup [at : {"decrypt", "write"}, packet : Arriving]
Ups == [at : {"off", "read", "encrypt", "ended"}]

\* Such a step need only leave the tasks well typed and the gate fair.
LEMMA Moves ==
    ASSUME Inv, UNCHANGED <<server, sealed>>,
           phase' \in Phases, enabled' \in BOOLEAN, NoSession' <=> NoSession,
           hs' \in Rounds \cup Plainly \cup Installs, dn' \in Downs, up' \in Ups,
           slot' \in IF NoSession THEN NoSlots ELSE Slots,
           ~ NoSession => /\ slot'.session.key = slot.session.key
                          /\ slot'.session.snow_nonce = slot.session.snow_nonce,
           gate' \in Gates, queue' \in Seq(Arriving), GateFair', LatestInit',
           NoSession => dn'.at = "off" /\ up'.at = "off",
           phase' = "starting" => hs'.at \in {"send", "lock", "recv", "install"},
           Pending' => Pending
    PROVE  Inv'
<1>1. UNCHANGED <<Key, Arriving>>
  BY DEF server, Key, Arriving
<1>2. UNCHANGED <<NoSlots, Slots, History>>
  BY <1>1 DEF Slots, SessionType, History, NoSlots
<1>3. slot' \in IF phase' \in {"starting", "failed"} THEN NoSlots' ELSE Slots'
  BY <1>2 DEF NoSession
<1>4. TypeOK'
  BY <1>1, <1>2, <1>3
     DEF Inv, TypeOK, server, Rounds, Plainly, Installs, Downs, Ups, Gates, Phases
<1>5. Stages'
  BY DEF Inv, Stages
<1>6. Spent' /\ IsFiniteSet(sealed.set)' /\ NonceNeverReused'
  BY KeepsSpent
<1> QED BY <1>4, <1>5, <1>6 DEF Inv

\* The types of the state, as Moves needs them.
LEMMA Types ==
    ASSUME Inv
    PROVE  /\ phase \in Phases /\ enabled \in BOOLEAN
           /\ slot \in IF NoSession THEN NoSlots ELSE Slots
           /\ gate \in Gates /\ queue \in Seq(Arriving)
           /\ hs \in Rounds \cup Plainly \cup Installs /\ dn \in Downs /\ up \in Ups
BY DEF Inv, TypeOK, NoSession, Phases, Gates, Rounds, Plainly, Installs, Downs, Ups

\* A step of the handshake, which may end the start-up.
LEMMA HsMoves ==
    ASSUME Inv, UNCHANGED <<enabled, slot, dn, up, server, sealed>>,
           phase' = phase \/ (phase = "starting" /\ phase' = "failed"),
           hs' \in Rounds \cup Plainly \cup Installs,
           gate' \in Gates, queue' \in Seq(Arriving), GateFair', LatestInit',
           phase' = "starting" => hs'.at \in {"send", "lock", "recv", "install"},
           Pending' => Pending
    PROVE  Inv'
<1>1. phase' \in Phases /\ (NoSession' <=> NoSession)
  BY Types DEF Phases, NoSession
<1> QED BY <1>1, Types, Moves DEF Inv, Stages

\* A step of a task with data, or of the clock or the control socket.
LEMMA DataMoves ==
    ASSUME Inv, UNCHANGED <<hs, server, sealed>>,
           phase' = phase \/ {phase, phase'} \cap {"starting", "failed"} = {},
           phase' \in Phases, enabled' \in BOOLEAN,
           dn' \in Downs, up' \in Ups,
           dn.at = "off" => dn' = dn, up.at = "off" => up' = up,
           slot' \in IF NoSession THEN NoSlots ELSE Slots,
           ~ NoSession => /\ slot'.session.key = slot.session.key
                          /\ slot'.session.snow_nonce = slot.session.snow_nonce,
           gate' \in Gates, queue' \in Seq(Arriving), GateFair'
    PROVE  Inv'
<1>1. NoSession' <=> NoSession
  BY DEF NoSession
<1>2. LatestInit' /\ (Pending' <=> Pending)
  BY DEF Inv, LatestInit, Pending, server
<1>3. phase' = "starting" => hs'.at \in {"send", "lock", "recv", "install"}
  BY DEF Inv, Stages
<1> QED BY <1>1, <1>2, <1>3, Types, Moves DEF Inv, Stages

-----------------------------------------------------------------------------
(* The gate. *)

\* A queue of two.
LEMMA AppendPair == ASSUME NEW a, NEW b PROVE Append(<<a>>, b) = <<a, b>>
<1> DEFINE s == Append(<<a>>, b)
<1> DEFINE t == <<a, b>>
<1>1. <<a>> \in Seq({a, b}) /\ Len(<<a>>) = 1 /\ <<a>>[1] = a
  OBVIOUS
<1>2. s \in Seq({a, b}) /\ Len(s) = 2 /\ s[1] = a /\ s[2] = b
  BY <1>1
<1>3. t \in Seq({a, b}) /\ Len(t) = 2 /\ t[1] = a /\ t[2] = b
  OBVIOUS
<1> HIDE DEF s, t
<1>4. \A i \in 1 .. Len(s) : s[i] = t[i]
  BY <1>2, <1>3
<1>5. s = t
  BY <1>2, <1>3, <1>4, SeqEqual
<1> QED BY <1>5 DEF s, t

\* The queues of the gate, told apart by length and head.
LEMMA GatesDiffer ==
    /\ <<"handshake">> # <<>> /\ <<"downlink">> # <<>> /\ <<"handshake">> # <<"downlink">>
    /\ \A g \in {<<>>, <<"handshake">>, <<"downlink">>} :
          g # <<"handshake", "downlink">> /\ g # <<"downlink", "handshake">>
<1>1. /\ Len(<<"handshake">>) = 1 /\ Len(<<"downlink">>) = 1 /\ Len(<<>>) = 0
      /\ Len(<<"handshake", "downlink">>) = 2 /\ Len(<<"downlink", "handshake">>) = 2
  OBVIOUS
<1>2. <<"handshake">>[1] # <<"downlink">>[1]
  OBVIOUS
<1> QED BY <1>1, <1>2

\* A task that is not in the queue joins it at the end.
LEMMA GateJoin ==
    ASSUME NEW g \in Gates
    PROVE  /\ g \in {<<>>, <<"downlink">>} =>
                 /\ Append(g, "handshake") \in Gates \ {<<>>, <<"downlink">>}
                 /\ Append(g, "handshake") \in {<<>>, <<"handshake">>}
                       <=> g \in {<<>>, <<"handshake">>}
           /\ g \in {<<>>, <<"handshake">>} =>
                 /\ Append(g, "downlink") \in Gates \ {<<>>, <<"handshake">>}
                 /\ Append(g, "downlink") \in {<<>>, <<"downlink">>}
                       <=> g \in {<<>>, <<"downlink">>}
<1>1. /\ Append(<<>>, "handshake") = <<"handshake">>
      /\ Append(<<>>, "downlink") = <<"downlink">>
      /\ Append(<<"downlink">>, "handshake") = <<"downlink", "handshake">>
      /\ Append(<<"handshake">>, "downlink") = <<"handshake", "downlink">>
  BY AppendPair
<1>2. CASE g = <<>>
  BY <1>1, <1>2, GatesDiffer DEF Gates
<1>3. CASE g = <<"handshake">>
  BY <1>1, <1>3, GatesDiffer DEF Gates
<1>4. CASE g = <<"downlink">>
  BY <1>1, <1>4, GatesDiffer DEF Gates
<1>5. CASE g \in {<<"handshake", "downlink">>, <<"downlink", "handshake">>}
  BY <1>5, GatesDiffer
<1> QED BY <1>2, <1>3, <1>4, <1>5 DEF Gates

\* The holder leaves it.
LEMMA GateLeave ==
    ASSUME NEW g \in Gates, g # <<>>
    PROVE  /\ Head(g) = "handshake" =>
                 /\ Tail(g) \in {<<>>, <<"downlink">>} /\ Tail(g) \in Gates
                 /\ Tail(g) \in {<<>>, <<"handshake">>} <=> g \in {<<>>, <<"handshake">>}
           /\ Head(g) = "downlink" =>
                 /\ Tail(g) \in {<<>>, <<"handshake">>} /\ Tail(g) \in Gates
                 /\ Tail(g) \in {<<>>, <<"downlink">>} <=> g \in {<<>>, <<"downlink">>}
<1>1. CASE g = <<"handshake">>
  <2>1. Tail(g) = <<>> /\ Head(g) = "handshake"
    BY <1>1
  <2> QED BY <1>1, <2>1 DEF Gates
<1>2. CASE g = <<"downlink">>
  <2>1. Tail(g) = <<>> /\ Head(g) = "downlink"
    BY <1>2
  <2> QED BY <1>2, <2>1 DEF Gates
<1>3. CASE g = <<"handshake", "downlink">>
  <2>1. Tail(g) = <<"downlink">> /\ Head(g) = "handshake"
    BY <1>3
  <2>2. Tail(g) \notin {<<>>, <<"handshake">>} /\ g \notin {<<>>, <<"handshake">>}
    BY <1>3, <2>1, GatesDiffer
  <2> QED BY <2>1, <2>2 DEF Gates
<1>4. CASE g = <<"downlink", "handshake">>
  <2>1. Tail(g) = <<"handshake">> /\ Head(g) = "downlink"
    BY <1>4
  <2>2. Tail(g) \notin {<<>>, <<"downlink">>} /\ g \notin {<<>>, <<"downlink">>}
    BY <1>4, <2>1, GatesDiffer
  <2> QED BY <2>1, <2>2 DEF Gates
<1> QED BY <1>1, <1>2, <1>3, <1>4 DEF Gates

-----------------------------------------------------------------------------
(* The handshake. *)

\* The answers to the inits before are now late.
LEMMA SendInitInv == ASSUME Inv, SendInit PROVE Inv'
<1>1. /\ hs.at = "send" /\ inits' = inits + 1
      /\ hs' = [at |-> "lock", attempt |-> hs.attempt, init |-> inits + 1]
      /\ UNCHANGED <<phase, enabled, slot, gate, queue, dn, up, keys, sealed>>
  BY DEF SendInit
<1>2. hs \in Rounds /\ inits \in Nat /\ keys \in Seq(1 .. inits)
  BY <1>1, HsCases DEF Inv, TypeOK
<1>3. hs' \in Rounds /\ hs'.at = "lock"
  BY <1>1, <1>2 DEF Rounds
<1>4. UNCHANGED <<Key, Arriving>>
  BY <1>1 DEF Key, Arriving
<1>5. UNCHANGED <<NoSlots, Slots, History>>
  BY <1>4 DEF Slots, SessionType, History, NoSlots
<1>6. keys' \in Seq(1 .. inits') /\ inits' \in Nat
  BY <1>1, <1>2
<1>7. TypeOK'
  BY <1>1, <1>3, <1>4, <1>5, <1>6 DEF Inv, TypeOK, Rounds
<1>8. GateFair' /\ Stages' /\ LatestInit'
  BY <1>1, <1>3 DEF Inv, GateFair, Stages, LatestInit, NoSession
<1>9. \A k \in Key : keys[k] < inits'
  BY <1>1, <1>2 DEF Key
<1>10. Spent'
  <2>1. \A e \in sealed.set : e[1] \in Key
    BY DEF Inv, TypeOK, History
  <2>2. ~ NoSession => slot.session.key \in Key
    BY DEF Inv, TypeOK, NoSession, Slots, SessionType
  <2> QED BY <1>1, <1>9, <2>1, <2>2 DEF Inv, Spent, NoSession
<1>11. IsFiniteSet(sealed.set)' /\ NonceNeverReused'
  BY <1>1 DEF Inv, NonceNeverReused
<1> QED BY <1>7, <1>8, <1>10, <1>11 DEF Inv

\* The init cannot be sent.
LEMMA SendInitFailsInv == ASSUME Inv, SendInitFails PROVE Inv'
<1>1. /\ hs.at = "send" /\ RoundFails
      /\ UNCHANGED <<enabled, slot, gate, queue, dn, up, server, sealed>>
  BY DEF SendInitFails
<1>2. /\ hs' \in Plainly /\ ~ Pending' /\ hs'.at \notin {"recv", "install"}
      /\ phase' = phase \/ (phase = "starting" /\ phase' = "failed")
      /\ phase' # "starting"
  <2>1. CASE phase = "starting"
    BY <1>1, <2>1 DEF RoundFails, Plainly, Pending
  <2>2. CASE phase # "starting"
    BY <1>1, <2>2 DEF RoundFails, Plainly, Pending
  <2> QED BY <2>1, <2>2
<1>3. GateFair' /\ LatestInit'
  BY <1>1, <1>2 DEF Inv, GateFair, LatestInit, Pending
<1> QED BY <1>1, <1>2, <1>3, Types, HsMoves

\* The handshake queues up for the gate.
LEMMA LockGateInv == ASSUME Inv, LockGate PROVE Inv'
<1>1. /\ hs.at = "lock" /\ gate' = Append(gate, "handshake")
      /\ hs' = [hs EXCEPT !.at = "recv"]
      /\ UNCHANGED <<phase, enabled, slot, queue, dn, up, server, sealed>>
  BY DEF LockGate
<1>2. hs' \in Rounds /\ hs'.at = "recv" /\ hs'.init = hs.init
  BY <1>1, HsCases DEF Inv, Rounds
<1>3. gate \in {<<>>, <<"downlink">>}
  BY <1>1 DEF Inv, GateFair
<1>4. gate' \in Gates /\ GateFair'
  BY <1>1, <1>2, <1>3, GateJoin, Types DEF Inv, GateFair
<1>5. LatestInit' /\ (Pending' => Pending)
  BY <1>1, <1>2 DEF Inv, LatestInit, Pending, server
<1>6. queue' \in Seq(Arriving)
  BY <1>1, Types
<1> QED BY <1>1, <1>2, <1>4, <1>5, <1>6, HsMoves

\* An attempt has failed: the next one, or the end of the round.
LEMMA NextAttemptMoves ==
    ASSUME Inv, hs.at = "recv", NextAttempt
    PROVE  /\ hs' \in Rounds \cup Plainly
           /\ hs'.at \in {"send", "tick", "ended"}
           /\ phase' = phase \/ (phase = "starting" /\ phase' = "failed")
           /\ phase' = "starting" => hs'.at = "send"
<1>1. hs.attempt \in 1 .. Attempts /\ Attempts \in Nat
  BY HsCases, ClientAssumption DEF Inv, Rounds
<1>2. CASE hs.attempt < Attempts
  <2>1. hs' = [at |-> "send", attempt |-> hs.attempt + 1] /\ phase' = phase
    BY <1>2 DEF NextAttempt
  <2>2. hs.attempt + 1 \in 1 .. Attempts
    BY <1>1, <1>2
  <2> QED BY <2>1, <2>2 DEF Rounds
<1>3. CASE ~ (hs.attempt < Attempts)
  BY <1>3 DEF NextAttempt, RoundFails, Plainly
<1> QED BY <1>2, <1>3

\* The handshake lets go of the gate.
LEMMA HandshakeLeaves ==
    ASSUME Inv, hs.at = "recv", Holds("handshake"), gate' = Tail(gate),
           hs'.at # "recv", UNCHANGED dn
    PROVE  gate' \in Gates /\ GateFair'
<1>1. gate \in Gates /\ gate # <<>> /\ Head(gate) = "handshake"
  BY Types DEF Holds
<1> QED BY <1>1, GateLeave DEF Inv, GateFair

\* The head of the queue is one of the packets that arrive.
LEMMA QueueHead ==
    ASSUME Inv, queue # <<>>
    PROVE  Head(queue) \in Arriving /\ Tail(queue) \in Seq(Arriving)
<1>1. queue \in Seq(Arriving)
  BY DEF Inv, TypeOK
<1> QED BY <1>1

\* A datagram is taken for the answer only if it is the answer to the last init.
LEMMA RecvResponseInv == ASSUME Inv, RecvResponse PROVE Inv'
<1> DEFINE packet == Head(queue)
<1>1. /\ hs.at = "recv" /\ Holds("handshake") /\ queue # <<>>
      /\ queue' = Tail(queue) /\ gate' = Tail(gate)
      /\ IF Finishes(packet)
         THEN hs' = [at |-> "install", key |-> packet.key] /\ UNCHANGED phase
         ELSE NextAttempt
      /\ UNCHANGED <<enabled, slot, dn, up, server, sealed>>
  BY DEF RecvResponse
<1>2. packet \in Arriving /\ queue' \in Seq(Arriving)
  BY <1>1, QueueHead
<1> HIDE DEF packet
<1>3. Pending
  BY <1>1 DEF Pending
<1>4. CASE Finishes(packet)
  <2>1. hs' = [at |-> "install", key |-> packet.key] /\ phase' = phase
    BY <1>1, <1>4
  <2>2. packet.key \in Key /\ keys[packet.key] = inits
    BY <1>1, <1>2, <1>4, ArrivingCases DEF Finishes, Inv, LatestInit
  <2>3. hs' \in Installs /\ hs'.at = "install" /\ hs'.key = packet.key
    BY <2>1, <2>2 DEF Installs
  <2>4. gate' \in Gates /\ GateFair'
    BY <1>1, <2>3, HandshakeLeaves
  <2>5. LatestInit'
    BY <1>1, <2>2, <2>3 DEF LatestInit, server
  <2> QED BY <1>1, <1>2, <1>3, <2>1, <2>3, <2>4, <2>5, HsMoves
<1>5. CASE ~ Finishes(packet)
  <2>1. NextAttempt
    BY <1>1, <1>5
  <2>2. gate' \in Gates /\ GateFair'
    BY <1>1, <2>1, NextAttemptMoves, HandshakeLeaves
  <2>3. LatestInit'
    BY <1>1, <2>1, NextAttemptMoves DEF LatestInit
  <2> QED BY <1>1, <1>2, <1>3, <2>1, <2>2, <2>3, NextAttemptMoves, HsMoves
<1> QED BY <1>4, <1>5

\* Nothing is read in time.
LEMMA RecvTimeoutInv == ASSUME Inv, RecvTimeout PROVE Inv'
<1>1. /\ hs.at = "recv" /\ Holds("handshake") /\ gate' = Tail(gate) /\ NextAttempt
      /\ UNCHANGED <<enabled, slot, queue, dn, up, server, sealed>>
  BY DEF RecvTimeout
<1>2. gate' \in Gates /\ GateFair'
  BY <1>1, NextAttemptMoves, HandshakeLeaves
<1>3. LatestInit' /\ Pending /\ queue' \in Seq(Arriving)
  BY <1>1, Types, NextAttemptMoves DEF LatestInit, Pending
<1> QED BY <1>1, <1>2, <1>3, NextAttemptMoves, HsMoves

\* A session is installed: nothing was sealed under its key before.
LEMMA InstallInv ==
    ASSUME Inv, hs.at = "install", slot' = NewSlot(hs.key),
           hs' = [at |-> "tick"],
           UNCHANGED <<enabled, gate, queue, server, sealed>>,
           phase' \in Phases \ {"starting", "failed"},
           dn' \in Downs, up' \in Ups, dn'.at = "recv" <=> dn.at = "recv"
    PROVE  Inv'
<1>1. /\ hs.key \in Key /\ keys[hs.key] = inits
      /\ inits \in Nat /\ \A k \in Key : keys[k] \in Nat
  BY HsCases DEF Inv, TypeOK, LatestInit, Installs, Key
<1>2. UNCHANGED <<Key, Arriving>>
  BY DEF server, Key, Arriving
<1>3. UNCHANGED <<NoSlots, Slots, History>>
  BY <1>2 DEF Slots, SessionType, History, NoSlots
<1>4. /\ slot' \in Slots /\ slot'.session.key = hs.key /\ slot'.session.snow_nonce = 0
  BY <1>1, ClientAssumption
     DEF NewSlot, Slots, SessionType, Noise!NewSession, Noise!EmptyFilter, Noise!Nonce, Longest
<1>5. hs'.at = "tick" /\ hs' \in Plainly
  BY DEF Plainly
<1>6. TypeOK'
  BY <1>2, <1>3, <1>4, <1>5
     DEF Inv, TypeOK, server, Plainly, Downs, Ups, Phases
<1>7. GateFair' /\ Stages' /\ LatestInit'
  BY <1>5 DEF Inv, GateFair, Stages, LatestInit, NoSession
<1>8. Spent'
  <2>1. \A e \in sealed.set : keys[e[1]] < inits /\ e[1] \in Key
    BY DEF Inv, Spent, Pending, TypeOK, History
  <2>2. \A e \in sealed.set : e[1] # hs.key
    BY <1>1, <2>1
  <2> QED BY <1>4, <1>5, <2>2 DEF Spent, Pending
<1>9. IsFiniteSet(sealed.set)' /\ NonceNeverReused'
  BY DEF Inv, NonceNeverReused
<1> QED BY <1>6, <1>7, <1>8, <1>9 DEF Inv

\* The client is up, or cannot be.
LEMMA StartInv == ASSUME Inv, Start PROVE Inv'
<1>1. /\ hs.at = "install" /\ phase = "starting" /\ dn.at = "off"
      /\ UNCHANGED <<enabled, gate, queue, server, sealed>>
  BY DEF Start, Inv, Stages, NoSession
<1>2. CASE /\ phase' = "up" /\ slot' = NewSlot(hs.key) /\ hs' = [at |-> "tick"]
           /\ dn' = [at |-> "lock"] /\ up' = [at |-> "read"]
  <2>1. dn' \in Downs /\ up' \in Ups /\ phase' \in Phases \ {"starting", "failed"}
    BY <1>2 DEF Downs, Ups, Phases
  <2>2. dn'.at # "recv"
    BY <1>2
  <2> QED BY <1>1, <1>2, <2>1, <2>2, InstallInv
<1>3. CASE phase' = "failed" /\ hs' = [at |-> "ended"] /\ UNCHANGED <<slot, dn, up>>
  <2>1. hs'.at = "ended" /\ hs' \in Plainly
    BY <1>3 DEF Plainly
  <2>2. GateFair' /\ LatestInit' /\ ~ Pending'
    BY <1>1, <1>3, <2>1 DEF Inv, GateFair, LatestInit, Pending
  <2> QED BY <1>1, <1>3, <2>1, <2>2, Types, HsMoves
<1> QED BY <1>2, <1>3 DEF Start

\* Maintenance replaces the session of a running client.
LEMMA ReplaceSessionInv ==
    ASSUME Inv, phase \notin {"exited", "failed"}, ReplaceSession PROVE Inv'
<1>1. /\ hs.at = "install" /\ phase # "starting" /\ slot' = NewSlot(hs.key)
      /\ hs' = [at |-> "tick"]
      /\ UNCHANGED <<phase, enabled, gate, queue, dn, up, server, sealed>>
  BY DEF ReplaceSession
<1>2. dn' \in Downs /\ up' \in Ups /\ phase' \in Phases \ {"starting", "failed"}
  BY <1>1, Types
<1> QED BY <1>1, <1>2, InstallInv

-----------------------------------------------------------------------------
(* maintenance and uplink. *)

\* Maintenance begins a round, decides for a keepalive or ends.
LEMMA MaintenanceInv ==
    ASSUME Inv, Rehandshake \/ DecideKeepalive \/ MaintenanceStops PROVE Inv'
<1>1. /\ hs.at = "tick"
      /\ hs' \in {[at |-> "send", attempt |-> 1], [at |-> "keepalive"], [at |-> "ended"]}
      /\ UNCHANGED <<phase, enabled, slot, gate, queue, dn, up, server, sealed>>
  BY DEF Rehandshake, DecideKeepalive, MaintenanceStops
<1>2. hs' \in Rounds \cup Plainly /\ hs'.at \in {"send", "keepalive", "ended"}
  BY <1>1, ClientAssumption DEF Rounds, Plainly
<1>3. GateFair' /\ LatestInit' /\ ~ Pending' /\ phase' # "starting"
  BY <1>1, <1>2 DEF Inv, GateFair, LatestInit, Pending, Stages
<1> QED BY <1>1, <1>2, <1>3, Types, HsMoves

\* What encrypt and decrypt do to the slot.
LEMMA SlotUpdates ==
    ASSUME NEW old \in Slots, NEW session \in SessionType
    PROVE  /\ [old EXCEPT !.session = session] \in Slots
           /\ [old EXCEPT !.session = session].session = session
           /\ [old EXCEPT !.session = session, !.last_tx = 0] \in Slots
           /\ [old EXCEPT !.session = session, !.last_tx = 0].session = session
           /\ [old EXCEPT !.session = session, !.last_rx = 0] \in Slots
           /\ [old EXCEPT !.session = session, !.last_rx = 0].session = session
<1>1. 0 \in 0 .. Keepalive /\ 0 \in 0 .. Longest
  BY ClientAssumption DEF Longest
<1> DEFINE new == [old EXCEPT !.session = session]
<1>2. new \in Slots /\ new.session = session
  BY DEF Slots
<1> HIDE DEF new
<1>3. [new EXCEPT !.last_tx = 0] \in Slots /\ [new EXCEPT !.last_tx = 0].session = session
  BY <1>1, <1>2 DEF Slots
<1>4. [new EXCEPT !.last_rx = 0] \in Slots /\ [new EXCEPT !.last_rx = 0].session = session
  BY <1>1, <1>2 DEF Slots
<1> QED BY <1>2, <1>3, <1>4 DEF new

\* What encrypt does to the session, and that the pair it uses is a new one.
LEMMA EncryptStep ==
    ASSUME Inv, ~ NoSession, Encrypt
    PROVE  /\ slot' \in Slots
           /\ slot'.session.key = slot.session.key
           /\ slot'.session.snow_nonce = slot.session.snow_nonce + 1
           /\ slot.session.key \in Key /\ slot.session.snow_nonce \in Noise!Nonce
           /\ sealed' = Count(sealed, slot.session.key, slot.session.snow_nonce)
           /\ <<slot.session.key, slot.session.snow_nonce>> \notin sealed.set
<1> DEFINE session == slot.session
<1>1. slot \in Slots /\ session \in SessionType
  BY DEF Inv, TypeOK, NoSession, Slots
<1>2. /\ session.snow_nonce \in Nat /\ session.snow_nonce < MaxNonce /\ MaxNonce \in Nat
      /\ session.send_nonce \in 0 .. MaxNonce /\ session.key \in Key
  BY <1>1, ClientAssumption DEF Encrypt, Noise!CanEncrypt, SessionType, Noise!Nonce
<1>3. /\ (session.send_nonce + 1) % (MaxNonce + 1) \in 0 .. MaxNonce
      /\ session.snow_nonce + 1 \in 0 .. MaxNonce
  BY <1>2
<1>4. /\ Noise!AfterEncrypt(session) \in SessionType
      /\ Noise!AfterEncrypt(session).key = session.key
      /\ Noise!AfterEncrypt(session).snow_nonce = session.snow_nonce + 1
  BY <1>1, <1>3 DEF SessionType, Noise!AfterEncrypt, Noise!Nonce
<1>5. /\ slot' = [slot EXCEPT !.session = Noise!AfterEncrypt(session), !.last_tx = 0]
      /\ sealed' = Count(sealed, session.key, session.snow_nonce)
  BY DEF Encrypt, Noise!Encrypted
<1>6. slot' \in Slots /\ slot'.session = Noise!AfterEncrypt(session)
  BY <1>1, <1>4, <1>5, SlotUpdates
<1>7. <<session.key, session.snow_nonce>> \notin sealed.set
  BY <1>2 DEF Inv, Spent
<1> QED BY <1>1, <1>2, <1>4, <1>5, <1>6, <1>7 DEF Noise!Nonce

\* A packet is sealed; the task that did it is ready for the next.
LEMMA EncryptInv ==
    ASSUME Inv, ~ NoSession, Encrypt, UNCHANGED <<phase, enabled, gate, queue, dn, server>>,
           \/ hs.at = "keepalive" /\ hs' = [at |-> "tick"] /\ up' = up
           \/ hs' = hs /\ up' \in {[at |-> "read"], [at |-> "ended"]}
    PROVE  Inv'
<1> DEFINE key == slot.session.key
<1> DEFINE nonce == slot.session.snow_nonce
<1>1. UNCHANGED <<Key, Arriving>>
  BY DEF server, Key, Arriving
<1>2. UNCHANGED <<NoSlots, Slots, History>>
  BY <1>1 DEF Slots, SessionType, History, NoSlots
<1>3. /\ slot' \in Slots /\ slot'.session.key = key /\ slot'.session.snow_nonce = nonce + 1
      /\ key \in Key /\ nonce \in Noise!Nonce /\ nonce \in Nat
      /\ sealed' = Count(sealed, key, nonce)
      /\ <<key, nonce>> \notin sealed.set
  BY EncryptStep, ClientAssumption DEF Noise!Nonce
<1> HIDE DEF key, nonce
<1>4. /\ sealed \in History
      /\ sealed'.set = sealed.set \cup {<<key, nonce>>} /\ sealed'.calls = sealed.calls + 1
      /\ sealed' \in History
  BY <1>3 DEF Count, Inv, TypeOK, History
<1>5. hs' \in Rounds \cup Plainly \cup Installs /\ up' \in Ups
      /\ (hs' = hs \/ hs'.at = "tick") /\ (hs'.at = "recv" <=> hs.at = "recv")
  BY Types DEF Plainly, Ups
<1>6. TypeOK'
  <2>1. slot' \in IF phase' \in {"starting", "failed"} THEN NoSlots' ELSE Slots'
    BY <1>2, <1>3 DEF NoSession
  <2> QED BY <1>1, <1>2, <1>4, <1>5, <2>1
          DEF Inv, TypeOK, server, Rounds, Plainly, Installs, Ups
<1>7. GateFair' /\ Stages' /\ LatestInit'
  BY <1>5 DEF Inv, GateFair, Stages, LatestInit, NoSession, server
<1>8. Spent'
  <2>1. \A e \in sealed'.set : e[1] = key => e[2] < nonce + 1
    <3>1. \A e \in sealed.set : e[1] = key => e[2] < nonce /\ e[2] \in Nat
      BY <1>4, ClientAssumption DEF Inv, Spent, key, nonce, History, Noise!Nonce
    <3> QED BY <1>3, <1>4, <3>1
  <2>2. ASSUME Pending' PROVE keys[key] < inits /\ \A e \in sealed'.set : keys[e[1]] < inits
    <3>1. Pending
      BY <1>5, <2>2 DEF Pending
    <3> QED BY <1>4, <3>1 DEF Inv, Spent, key
  <2> QED BY <1>3, <2>1, <2>2 DEF Spent, NoSession, server
<1>9. IsFiniteSet(sealed.set)' /\ NonceNeverReused'
  <2>1. IsFiniteSet(sealed.set) /\ Cardinality(sealed.set) = sealed.calls
    BY DEF Inv, NonceNeverReused
  <2>2. /\ IsFiniteSet(sealed.set \cup {<<key, nonce>>})
        /\ Cardinality(sealed.set \cup {<<key, nonce>>}) = Cardinality(sealed.set) + 1
    BY <1>3, <2>1, FS_AddElement
  <2> QED BY <1>4, <2>1, <2>2 DEF NonceNeverReused
<1> QED BY <1>6, <1>7, <1>8, <1>9 DEF Inv

\* The keepalive of maintenance.
LEMMA SendKeepaliveInv == ASSUME Inv, phase # "failed", SendKeepalive PROVE Inv'
<1>1. /\ hs.at = "keepalive" /\ hs' = [at |-> "tick"]
      /\ UNCHANGED <<phase, enabled, gate, queue, dn, up, server>>
      /\ Encrypt \/ UNCHANGED <<slot, sealed>>
  BY DEF SendKeepalive
<1>2. ~ NoSession
  BY <1>1 DEF NoSession, Inv, Stages
<1>3. CASE Encrypt
  BY <1>1, <1>2, <1>3, EncryptInv
<1>4. CASE UNCHANGED <<slot, sealed>>
  <2>1. hs' \in Plainly /\ hs'.at = "tick"
    BY <1>1 DEF Plainly
  <2>2. GateFair' /\ LatestInit' /\ ~ Pending' /\ phase' # "starting"
    BY <1>1, <1>2, <2>1 DEF Inv, GateFair, LatestInit, Pending, NoSession
  <2> QED BY <1>1, <1>4, <2>1, <2>2, Types, HsMoves
<1> QED BY <1>1, <1>3, <1>4

\* The uplink.
LEMMA UplinkInv == ASSUME Inv, Uplink PROVE Inv'
<1>1. CASE UpRead \/ UpReadFails
  <2>1. /\ up.at = "read" /\ up' \in {up, [at |-> "encrypt"], [at |-> "ended"]}
        /\ UNCHANGED <<phase, enabled, slot, gate, queue, hs, dn, server, sealed>>
    BY <1>1 DEF UpRead, UpReadFails
  <2>2. up' \in Ups /\ GateFair'
    BY <2>1, Types DEF Ups, Inv, GateFair
  <2> QED BY <2>1, <2>2, Types, DataMoves
<1>2. CASE UpEncrypt
  <2>1. /\ up.at = "encrypt"
        /\ UNCHANGED <<phase, enabled, gate, queue, hs, dn, server>>
        /\ \/ Encrypt /\ up' \in {[at |-> "read"], [at |-> "ended"]}
           \/ up' = [at |-> "read"] /\ UNCHANGED <<slot, sealed>>
    BY <1>2 DEF UpEncrypt
  <2>2. ~ NoSession
    BY <2>1 DEF Inv, Stages
  <2>3. CASE Encrypt /\ up' \in {[at |-> "read"], [at |-> "ended"]}
    BY <2>1, <2>2, <2>3, EncryptInv
  <2>4. CASE up' = [at |-> "read"] /\ UNCHANGED <<slot, sealed>>
    <3>1. up' \in Ups /\ GateFair'
      BY <2>1, <2>4 DEF Ups, Inv, GateFair
    <3> QED BY <2>1, <2>4, <3>1, Types, DataMoves
  <2> QED BY <2>1, <2>3, <2>4
<1> QED BY <1>1, <1>2 DEF Uplink

-----------------------------------------------------------------------------
(* downlink. *)

\* The downlink queues up for the gate.
LEMMA DownLockInv == ASSUME Inv, DownLock PROVE Inv'
<1>1. /\ dn.at = "lock" /\ gate' = Append(gate, "downlink") /\ dn' = [at |-> "recv"]
      /\ UNCHANGED <<phase, enabled, slot, queue, hs, up, server, sealed>>
  BY DEF DownLock
<1>2. dn' \in Downs /\ dn'.at = "recv"
  BY <1>1 DEF Downs
<1>3. gate \in {<<>>, <<"handshake">>}
  BY <1>1 DEF Inv, GateFair
<1>4. gate' \in Gates /\ GateFair'
  BY <1>1, <1>2, <1>3, GateJoin, Types DEF Inv, GateFair
<1> QED BY <1>1, <1>2, <1>4, Types, DataMoves

\* It lets go of it, with a datagram or an error.
LEMMA DownRecvInv == ASSUME Inv, DownRecv \/ DownRecvFails PROVE Inv'
<1>1. /\ dn.at = "recv" /\ Holds("downlink") /\ gate' = Tail(gate)
      /\ \/ queue' = queue /\ dn' = [at |-> "ended"]
         \/ /\ queue # <<>> /\ queue' = Tail(queue)
            /\ dn' \in {[at |-> "decrypt", packet |-> Head(queue)], [at |-> "lock"]}
      /\ UNCHANGED <<phase, enabled, slot, hs, up, server, sealed>>
  BY DEF DownRecv, DownRecvFails
<1>2. dn' \in Downs /\ dn'.at # "recv" /\ queue' \in Seq(Arriving)
  BY <1>1, QueueHead, Types DEF Downs
<1>3. gate \in Gates /\ gate # <<>> /\ Head(gate) = "downlink"
  BY <1>1, Types DEF Holds
<1>4. gate' \in Gates /\ GateFair'
  BY <1>1, <1>2, <1>3, GateLeave DEF Inv, GateFair
<1> QED BY <1>1, <1>2, <1>4, Types, DataMoves

\* What decrypt does to the session: it moves the window on, or nothing.
LEMMA AfterDecryptType ==
    ASSUME NEW session \in SessionType, NEW p \in Arriving, p.kind = "data"
    PROVE  /\ Noise!AfterDecrypt(session, p) \in SessionType
           /\ Noise!AfterDecrypt(session, p).key = session.key
           /\ Noise!AfterDecrypt(session, p).snow_nonce = session.snow_nonce
<1>1. p.nonce \in Noise!Nonce
  BY ArrivingCases
<1>2. Noise!Checked(session.replay, p.nonce)
         \in [top : Noise!Nonce, taken : SUBSET Noise!Nonce]
  BY <1>1 DEF SessionType, Noise!Checked
<1> QED BY <1>2 DEF Noise!AfterDecrypt, SessionType

\* A packet is decrypted, or not.
LEMMA DownDecryptInv == ASSUME Inv, DownDecryptFails \/ DownDecrypts PROVE Inv'
<1>1. /\ dn.at = "decrypt" /\ dn.packet \in Arriving
      /\ UNCHANGED <<phase, enabled, gate, queue, hs, up, server, sealed>>
  BY DnCases DEF DownDecryptFails, DownDecrypts, Inv
<1>2. ~ NoSession /\ slot \in Slots
  BY <1>1, Types DEF Inv, Stages
<1>3. dn' \in Downs /\ dn'.at # "recv"
  BY <1>1 DEF DownDecryptFails, DownDecrypts, Downs
<1>4. GateFair'
  BY <1>1, <1>3 DEF Inv, GateFair
<1>5. /\ slot' \in Slots /\ slot'.session.key = slot.session.key
      /\ slot'.session.snow_nonce = slot.session.snow_nonce
  <2>1. CASE slot' = slot
    BY <1>2, <2>1
  <2>2. CASE slot' # slot
    <3> DEFINE after == Noise!AfterDecrypt(slot.session, dn.packet)
    <3>1. /\ dn.packet.kind = "data"
          /\ \/ slot' = [slot EXCEPT !.session = after]
             \/ slot' = [slot EXCEPT !.session = after, !.last_rx = 0]
      BY <2>2 DEF DownDecryptFails, DownDecrypts, Opens
    <3>2. /\ after \in SessionType /\ after.key = slot.session.key
          /\ after.snow_nonce = slot.session.snow_nonce
      <4>1. slot.session \in SessionType
        BY <1>2 DEF Slots
      <4> QED BY <1>1, <3>1, <4>1, AfterDecryptType
    <3> HIDE DEF after
    <3> QED BY <1>2, <3>1, <3>2, SlotUpdates
  <2> QED BY <2>1, <2>2
<1> QED BY <1>1, <1>2, <1>3, <1>4, <1>5, Types, DataMoves

\* A packet is written to the TUN device, or cannot be.
LEMMA DownWriteInv == ASSUME Inv, DownWrite PROVE Inv'
<1>1. /\ dn.at = "write" /\ dn' \in {[at |-> "lock"], [at |-> "ended"]}
      /\ UNCHANGED <<phase, enabled, slot, gate, queue, hs, up, server, sealed>>
  BY DEF DownWrite
<1>2. dn' \in Downs /\ GateFair'
  BY <1>1 DEF Downs, Inv, GateFair
<1> QED BY <1>1, <1>2, Types, DataMoves

-----------------------------------------------------------------------------
(* Network, control socket, clock, shutdown. *)

\* A key comes into being; it is not the session's and has sealed nothing.
LEMMA ServerAnswersInv ==
    ASSUME Inv, NEW init \in 1 .. inits, ServerAnswers(init) PROVE Inv'
<1>1. /\ keys' = Append(keys, init)
      /\ UNCHANGED <<phase, enabled, slot, gate, queue, hs, dn, up, inits, sealed>>
  BY DEF ServerAnswers
<1>2. keys \in Seq(1 .. inits) /\ inits \in Nat
  BY DEF Inv, TypeOK
<1>3. /\ keys' \in Seq(1 .. inits') /\ Key \subseteq Key'
      /\ \A k \in Key : keys'[k] = keys[k]
  BY <1>1, <1>2 DEF Key
<1>4. Arriving \subseteq Arriving'
  BY <1>3 DEF Arriving, Response, DataPacket
<1>5. /\ Slots \subseteq Slots' /\ History \subseteq History' /\ NoSlots' = NoSlots
      /\ Installs \subseteq Installs' /\ Downs \subseteq Downs'
  BY <1>3, <1>4 DEF Slots, SessionType, History, NoSlots, Installs, Downs
<1>6. queue \in Seq(Arriving')
  <2>1. queue \in Seq(Arriving)
    BY Types
  <2> QED BY <1>4, <2>1
<1>7. TypeOK'
  BY <1>1, <1>3, <1>5, <1>6 DEF Inv, TypeOK, Installs, Downs
<1>8. GateFair' /\ Stages'
  BY <1>1 DEF Inv, GateFair, Stages, NoSession
<1>9. LatestInit'
  BY <1>1, <1>3, HsCases DEF Inv, LatestInit, Installs
<1>10. Spent' /\ IsFiniteSet(sealed.set)' /\ NonceNeverReused'
  <2>1. \A e \in sealed.set : e[1] \in Key
    BY DEF Inv, TypeOK, History
  <2>2. ~ NoSession => slot.session.key \in Key
    BY DEF Inv, TypeOK, NoSession, Slots, SessionType
  <2> QED BY <1>1, <1>3, <2>1, <2>2 DEF Inv, Spent, NonceNeverReused, NoSession, Pending
<1> QED BY <1>7, <1>8, <1>9, <1>10 DEF Inv

\* A datagram reaches the socket.
LEMMA ArriveInv == ASSUME Inv, NEW packet \in Arriving, Arrive(packet) PROVE Inv'
<1>1. /\ queue' = Append(queue, packet)
      /\ UNCHANGED <<phase, enabled, slot, gate, hs, dn, up, server, sealed>>
  BY DEF Arrive
<1>2. queue' \in Seq(Arriving) /\ GateFair'
  BY <1>1, Types DEF Inv, GateFair
<1> QED BY <1>1, <1>2, Types, DataMoves

\* The timers advance.
LEMMA TickInv == ASSUME Inv, Tick PROVE Inv'
<1>1. UNCHANGED <<phase, enabled, gate, queue, hs, dn, up, server, sealed>>
  BY DEF Tick
<1>2. /\ slot' = [slot EXCEPT !.established = Older(slot.established, Rekey),
                              !.last_rx = Older(slot.last_rx, Longest),
                              !.last_tx = Older(slot.last_tx, Keepalive)]
  BY DEF Tick
<1>3. ASSUME NEW limit \in Nat, NEW age \in 0 .. limit PROVE Older(age, limit) \in 0 .. limit
  BY DEF Older
<1>4. Rekey \in Nat /\ Longest \in Nat /\ Keepalive \in Nat
  BY ClientAssumption DEF Longest
<1>5. slot' \in IF NoSession THEN NoSlots ELSE Slots
  BY <1>2, <1>3, <1>4, Types DEF NoSlots, Slots
<1>6. ~ NoSession => slot'.session = slot.session
  BY <1>2, Types DEF Slots
<1>7. GateFair'
  BY <1>1 DEF Inv, GateFair
<1> QED BY <1>1, <1>5, <1>6, <1>7, Types, DataMoves

\* on or off, and the steps of the shutdown.
LEMMA SwitchInv ==
    ASSUME Inv, (\E on \in BOOLEAN : set_enabled(on)) \/ CtrlC \/ TaskEnded \/ Exit PROVE Inv'
<1>1. /\ phase \in {"up", "stopping"} /\ phase' \in {"up", "stopping", "exited"}
      /\ enabled' \in BOOLEAN
      /\ UNCHANGED <<slot, gate, queue, hs, dn, up, server, sealed>>
  BY Types DEF set_enabled, CtrlC, TaskEnded, Exit
<1>2. phase' \in Phases /\ {phase, phase'} \cap {"starting", "failed"} = {}
  BY <1>1 DEF Phases
<1>3. GateFair'
  BY <1>1 DEF Inv, GateFair
<1> QED BY <1>1, <1>2, <1>3, Types, DataMoves

-----------------------------------------------------------------------------
\* Every step of the client keeps the invariant.
LEMMA NextInv == Inv /\ [Next]_vars => Inv'
<1> SUFFICES ASSUME Inv, [Next]_vars PROVE Inv'
  OBVIOUS
<1>1. CASE Next
  <2>1. phase \notin {"exited", "failed"}
    BY <1>1 DEF Next
  <2>2. CASE Handshake
    BY <2>1, <2>2, SendInitInv, SendInitFailsInv, LockGateInv, RecvResponseInv,
       RecvTimeoutInv, StartInv, ReplaceSessionInv DEF Handshake
  <2>3. CASE Maintenance \/ MaintenanceStops
    BY <2>1, <2>3, MaintenanceInv, SendKeepaliveInv DEF Maintenance
  <2>4. CASE Downlink \/ DownRecvFails
    BY <2>4, DownLockInv, DownRecvInv, DownDecryptInv, DownWriteInv DEF Downlink
  <2>5. CASE Network
    BY <2>5, ServerAnswersInv, ArriveInv DEF Network
  <2>6. CASE Uplink \/ Tick
    BY <2>6, UplinkInv, TickInv
  <2>7. CASE (\E on \in BOOLEAN : set_enabled(on)) \/ CtrlC \/ TaskEnded \/ Exit
    BY <2>7, SwitchInv
  <2> QED BY <1>1, <2>2, <2>3, <2>4, <2>5, <2>6, <2>7 DEF Next
<1>2. CASE UNCHANGED vars
  <2>1. UNCHANGED <<phase, enabled, slot, gate, queue, hs, dn, up, server, sealed>>
    BY <1>2 DEF vars, server
  <2>2. GateFair'
    BY <2>1 DEF Inv, GateFair
  <2> QED BY <2>1, <2>2, Types, DataMoves
<1> QED BY <1>1, <1>2

\* The invariant holds throughout every behaviour of the client.
THEOREM ClientInv == Spec => []Inv
BY InitInv, NextInv, PTL DEF Spec

\* TypeOK: the tasks have a session whenever they use one, and neither waits for the
\* gate twice.
THEOREM ClientTypeCorrect == Spec => []TypeOK
<1>1. Inv => TypeOK
  BY DEF Inv
<1> QED BY <1>1, ClientInv, PTL

\* SessionsMoveForward: a running client goes from session to session in the order of
\* the inits they answer, for any number of attempts and rounds and whatever late or
\* repeated answers the socket holds.
THEOREM NoOldSession == Spec => SessionsMoveForward
<1>1. Inv /\ [Next]_vars =>
         [ReplaceSession => keys[slot'.session.key] > keys[slot.session.key]]_vars
  <2> SUFFICES ASSUME Inv, [Next]_vars, ReplaceSession, vars' # vars
               PROVE  keys[slot'.session.key] > keys[slot.session.key]
    OBVIOUS
  <2>1. hs.at = "install" /\ phase # "starting" /\ slot' = NewSlot(hs.key)
    BY DEF ReplaceSession
  <2>2. ~ NoSession
    BY <2>1 DEF Next, NoSession
  <2>3. keys[slot.session.key] < inits /\ keys[hs.key] = inits
    BY <2>1, <2>2 DEF Inv, Spent, Pending, LatestInit
  <2>4. slot'.session.key = hs.key
    BY <2>1 DEF NewSlot, Noise!NewSession
  <2>5. inits \in Nat /\ keys[slot.session.key] \in Nat
    BY <2>2 DEF Inv, TypeOK, NoSession, Slots, SessionType, Key
  <2> QED BY <2>3, <2>4, <2>5
<1> QED BY <1>1, ClientInv, PTL DEF Spec, SessionsMoveForward

\* NonceNeverReused: encrypt never uses a key and a nonce twice, across uplink,
\* keepalives and any number of re-handshakes.
THEOREM NoncesUnique == Spec => []NonceNeverReused
<1>1. Inv => NonceNeverReused
  BY DEF Inv
<1> QED BY <1>1, ClientInv, PTL
=============================================================================
