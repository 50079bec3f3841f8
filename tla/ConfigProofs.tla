---------------------------- MODULE ConfigProofs ----------------------------
(***************************************************************************)
(* Proofs about Config, for addresses of any width, any number of peers    *)
(* and any set of configurations.                                          *)
(*                                                                         *)
(* The arithmetic of the masks is settled once: for a prefix length that   *)
(* parse_cidr lets through, the shift selects the upper bits.  The loop    *)
(* over the peers has recorded exactly what the peers before the current   *)
(* one have, so that a peer it refuses breaks a rule and one that it takes *)
(* breaks none.                                                            *)
(***************************************************************************)
EXTENDS Config, TLAPS

Upper(prefix) == {b \in All : b >= Bits - prefix}

\* A shift by less than Bits.
LEMMA ShiftSelects ==
    ASSUME NEW k \in 0 .. Bits - 1
    PROVE  Shl(All, k) = {b \in All : b >= k}
<1>1. Bits \in Nat \ {0}
  BY ConfigAssumption
<1>2. k % Bits = k
  BY <1>1
<1>3. \A b \in All : b - k \in All <=> b >= k
  BY <1>1 DEF All
<1> QED BY <1>2, <1>3 DEF Shl

\* The masks of config.rs, server.rs and tun_dev.rs.
LEMMA MasksAgree ==
    ASSUME NEW prefix \in 0 .. Bits, NEW own \in Ip
    PROVE  /\ prefix_to_netmask(prefix) = Upper(prefix)
           /\ network_addr(own, prefix) = own \cap Upper(prefix)
           /\ ipv4_network(own, prefix) = own \cap Upper(prefix)
<1>1. Bits \in Nat \ {0}
  BY ConfigAssumption
<1>2. CASE prefix = 0
  <2>1. Upper(prefix) = {}
    BY <1>1, <1>2 DEF Upper, All
  <2> QED BY <1>2, <2>1 DEF prefix_to_netmask, network_addr, ipv4_network
<1>3. CASE prefix # 0
  <2>1. Bits - prefix \in 0 .. Bits - 1
    BY <1>1, <1>3
  <2>2. Shl(All, Bits - prefix) = Upper(prefix)
    BY <2>1, ShiftSelects DEF Upper
  <2> QED BY <1>3, <2>2 DEF prefix_to_netmask, network_addr, ipv4_network
<1> QED BY <1>2, <1>3

\* What is the same in the upper bits.
LEMMA UpperBits ==
    ASSUME NEW prefix \in 0 .. Bits, NEW a \in Ip, NEW b \in Ip
    PROVE  SameNetwork(a, b, prefix) <=> a \cap Upper(prefix) = b \cap Upper(prefix)
BY DEF SameNetwork, Upper, All, Ip

\* ip_in_network, as load calls it.
LEMMA InNetwork ==
    ASSUME NEW prefix \in 0 .. Bits, NEW own \in Ip, NEW ip \in Ip
    PROVE  ip_in_network(ip, network_addr(own, prefix), prefix)
             <=> SameNetwork(ip, own, prefix)
<1>1. /\ network_addr(own, prefix) \cap Upper(prefix) = own \cap Upper(prefix)
      /\ prefix # 0 => Shl(All, Bits - prefix) = Upper(prefix)
  BY MasksAgree DEF prefix_to_netmask
<1>2. prefix = 0 => Upper(prefix) = {}
  BY ConfigAssumption DEF Upper, All
<1>3. ip_in_network(ip, network_addr(own, prefix), prefix)
        <=> ip \cap Upper(prefix) = own \cap Upper(prefix)
  BY <1>1, <1>2 DEF ip_in_network
<1> QED BY <1>3, UpperBits

\* load_key_material takes one rule for private and public keys.
Loads(material) == IsKey(material) /\ Tight(material)

LEMMA KeyLoads ==
    ASSUME NEW material \in Material
    PROVE  load_key_material(material) # Bad <=> Loads(material)
<1>1. /\ Bad # Unset /\ material.inline \in {Bad, Unset} \cup Keys
      /\ material.file \in {Bad, Unset} \cup KeyFile
  BY ConfigAssumption DEF Material
<1>2. CASE material.file = Unset
  BY <1>1, <1>2 DEF load_key_material, Loads, IsKey, Tight
<1>3. CASE material.file = Bad /\ material.file # Unset
  BY <1>1, <1>3 DEF load_key_material, FileKey, Loads, IsKey, Tight
<1>4. CASE material.file \in KeyFile /\ material.file # Bad /\ material.file # Unset
  <2>1. material.file.mode \cap (0 .. 5) = {} <=> material.file.mode \subseteq 6 .. 8
    <3>1. material.file.mode \subseteq 0 .. 8
      BY <1>4 DEF KeyFile
    <3>2. \A n \in 0 .. 8 : n \in 0 .. 5 <=> n \notin 6 .. 8
      OBVIOUS
    <3> QED BY <3>1, <3>2
  <2> QED BY <1>1, <1>4, <2>1
          DEF load_key_material, FileKey, Loads, IsKey, Tight, check_key_file_permissions
<1> QED BY <1>1, <1>2, <1>3, <1>4

-----------------------------------------------------------------------------
(* The invariant. *)

own == cfg.address.ip
prefix_len == cfg.address.prefix

\* The rules for one peer, and for two.
Fits(i) ==
    /\ cfg.peers[i].allowed_ip # Bad /\ cfg.peers[i].public_key # Bad
    /\ SameNetwork(cfg.peers[i].allowed_ip, own, prefix_len)
    /\ cfg.peers[i].allowed_ip \notin {own, own \cap Upper(prefix_len)}

Differ(i, j) ==
    /\ cfg.peers[i].allowed_ip # cfg.peers[j].allowed_ip
    /\ cfg.peers[i].public_key # cfg.peers[j].public_key

\* The first n peers keep them.
Passed(n) == \A i \in 1 .. n : Fits(i) /\ \A j \in 1 .. n : i # j => Differ(i, j)

\* The loop has recorded the peers before the current one.
Recorded ==
    /\ next \in 1 .. Len(cfg.peers) + 1
    /\ network = network_addr(own, prefix_len)
    /\ seen_ips = {cfg.peers[i].allowed_ip : i \in 1 .. next - 1}
    /\ seen_keys = {cfg.peers[i].public_key : i \in 1 .. next - 1}

ClientOK ==
    /\ cfg.mode = "octal" /\ MtuFits
    /\ Loads(cfg.private) /\ Loads(cfg.server_public)
    /\ \A i \in DOMAIN cfg.dns : cfg.dns[i] # Bad

Table ==
    /\ DOMAIN peers = {cfg.peers[i].public_key : i \in DOMAIN cfg.peers}
    /\ \A i \in DOMAIN cfg.peers : peers[cfg.peers[i].public_key] = cfg.peers[i].allowed_ip

\* The configurations that load must take: RunsExactlyTheWellFormed leaves loose
\* public-key files open, but the code refuses them.
Accepted == WellFormed /\ (cfg.role = "client" => Tight(cfg.server_public))

\* Inductive.
Inv ==
    /\ cfg \in Configs
    /\ at = "header" => next = 1 /\ seen_ips = {} /\ seen_keys = {}
    /\ at = "peers" => cfg.role = "server"
    /\ cfg.role = "server" /\ at \in {"peers", "loaded", "running"} =>
          HeaderOK /\ Recorded /\ Passed(next - 1)
    /\ cfg.role = "server" /\ at \in {"loaded", "running"} =>
          next = Len(cfg.peers) + 1 /\ Loads(cfg.private)
    /\ cfg.role = "server" /\ at = "running" => Table
    /\ cfg.role = "client" /\ at \in {"loaded", "running"} => ClientOK
    /\ cfg.role = "client" /\ at = "running" => Cidr(cfg.address)
    /\ at = "refused" => ~ Accepted

\* What the configurations are.
LEMMA ConfigTypes ==
    ASSUME cfg \in Configs
    PROVE  /\ cfg.mtu \in Nat /\ cfg.address \in {Bad} \cup Address /\ cfg.private \in Material
           /\ \/ cfg.role = "server" /\ cfg.peers \in Seq(Peer)
              \/ cfg.role = "client" /\ cfg.server_public \in Material
           /\ cfg.address # Bad => own \in Ip /\ prefix_len \in Nat
           /\ MinMtu \in Nat /\ MaxMtu \in Nat /\ Bits \in Nat \ {0}
BY ConfigAssumption DEF Address, own, prefix_len

\* The server configurations to be taken, in the terms of the loop.
LEMMA AcceptedServer ==
    ASSUME cfg \in Configs, cfg.role = "server"
    PROVE  Accepted <=> HeaderOK /\ Loads(cfg.private) /\ Passed(Len(cfg.peers))
<1>1. cfg.peers \in Seq(Peer) /\ Len(cfg.peers) \in Nat /\ DOMAIN cfg.peers = 1 .. Len(cfg.peers)
  BY ConfigTypes
<1>2. HeaderOK <=> /\ cfg.mode = "octal" /\ cfg.mtu \in MinMtu .. MaxMtu
                   /\ cfg.address # Bad /\ prefix_len \in 0 .. Bits
                   /\ Len(cfg.peers) > 0
  BY <1>1, ConfigTypes DEF HeaderOK, MtuFits, Cidr, prefix_len
<1>3. ASSUME cfg.address # Bad
      PROVE  {b \in own : b >= Bits - prefix_len} = own \cap Upper(prefix_len)
  BY <1>3, ConfigTypes DEF Upper, Ip, All
<1>4. ASSUME cfg.address # Bad
      PROVE  Passed(Len(cfg.peers)) <=>
               \A i \in DOMAIN cfg.peers :
                  LET p == cfg.peers[i]
                  IN  /\ p.allowed_ip # Bad /\ p.public_key # Bad
                      /\ SameNetwork(p.allowed_ip, cfg.address.ip, cfg.address.prefix)
                      /\ p.allowed_ip \notin
                            {cfg.address.ip, {b \in cfg.address.ip : b >= Bits - cfg.address.prefix}}
                      /\ \A j \in DOMAIN cfg.peers : i # j =>
                            /\ p.allowed_ip # cfg.peers[j].allowed_ip
                            /\ p.public_key # cfg.peers[j].public_key
  BY <1>1, <1>3, <1>4 DEF Passed, Fits, Differ, own, prefix_len
<1> QED BY <1>2, <1>4 DEF Accepted, WellFormed, Loads, prefix_len

\* The client configurations to be taken.
LEMMA AcceptedClient ==
    ASSUME cfg \in Configs, cfg.role = "client"
    PROVE  Accepted <=> ClientOK /\ Cidr(cfg.address)
BY ConfigTypes DEF Accepted, WellFormed, ClientOK, Loads, MtuFits, Cidr, prefix_len

-----------------------------------------------------------------------------
(* One lemma per step. *)

\* Nothing is known of the file yet.
LEMMA InitInv == Init => Inv
BY DEF Init, Inv

\* The checks before the loop.
LEMMA CheckHeaderInv == ASSUME Inv, CheckHeader PROVE Inv'
<1>1. /\ at = "header" /\ cfg.role = "server" /\ cfg \in Configs
      /\ UNCHANGED <<cfg, next, seen_ips, seen_keys, peers>>
      /\ next = 1 /\ seen_ips = {} /\ seen_keys = {}
  BY DEF CheckHeader, Inv
<1>2. CASE HeaderOK
  <2>1. at' = "peers" /\ network' = network_addr(own, prefix_len)
    BY <1>2 DEF CheckHeader, own, prefix_len
  <2>2. Recorded' /\ Passed(next - 1)'
    <3>1. Len(cfg.peers) \in Nat
      BY <1>1, ConfigTypes
    <3> QED BY <1>1, <2>1, <3>1 DEF Recorded, Passed, own, prefix_len
  <2> QED BY <1>1, <1>2, <2>1, <2>2 DEF Inv, HeaderOK, MtuFits
<1>3. CASE ~ HeaderOK
  <2>1. at' = "refused"
    BY <1>3 DEF CheckHeader
  <2>2. ~ Accepted
    BY <1>1, <1>3, AcceptedServer
  <2>3. ~ Accepted'
    BY <1>1, <2>2 DEF Accepted, WellFormed, SameNetwork, IsKey, Tight
  <2> QED BY <1>1, <2>1, <2>3 DEF Inv
<1> QED BY <1>2, <1>3

\* The loop takes a peer that fits and differs from those before, and no other.
LEMMA PeerChecked ==
    ASSUME Inv, at = "peers", next <= Len(cfg.peers)
    PROVE  PeerOK(cfg.peers[next]) <=> Fits(next) /\ \A j \in 1 .. next - 1 : Differ(next, j)
<1> DEFINE p == cfg.peers[next]
<1>1. /\ cfg \in Configs /\ cfg.role = "server" /\ HeaderOK /\ Recorded
      /\ Len(cfg.peers) \in Nat /\ next \in 1 .. Len(cfg.peers)
  <2>1. cfg \in Configs /\ cfg.role = "server" /\ HeaderOK /\ Recorded
    BY DEF Inv
  <2>2. Len(cfg.peers) \in Nat
    BY <2>1, ConfigTypes
  <2> QED BY <2>1, <2>2 DEF Recorded
<1>2. p \in Peer /\ own \in Ip /\ prefix_len \in 0 .. Bits
  BY <1>1, ConfigTypes DEF HeaderOK, Cidr, prefix_len
<1>3. network = network_addr(own, prefix_len) /\ network = own \cap Upper(prefix_len)
  BY <1>1, <1>2, MasksAgree DEF Recorded
<1>4. p.allowed_ip # Bad =>
        (ip_in_network(p.allowed_ip, network, prefix_len)
           <=> SameNetwork(p.allowed_ip, own, prefix_len))
  BY <1>2, <1>3, InNetwork DEF Peer
<1>5. (p.allowed_ip \notin seen_ips /\ p.public_key \notin seen_keys)
        <=> \A j \in 1 .. next - 1 : Differ(next, j)
  BY <1>1 DEF Recorded, Differ
<1> QED BY <1>3, <1>4, <1>5 DEF PeerOK, Fits, own, prefix_len

\* One turn of the loop.
LEMMA CheckPeerInv == ASSUME Inv, CheckPeer PROVE Inv'
<1>1. /\ at = "peers" /\ next <= Len(cfg.peers) /\ UNCHANGED <<cfg, network, peers>>
      /\ cfg \in Configs /\ cfg.role = "server" /\ HeaderOK /\ Recorded /\ Passed(next - 1)
  BY DEF CheckPeer, Inv
<1>2. Len(cfg.peers) \in Nat /\ next \in 1 .. Len(cfg.peers)
  <2>1. Len(cfg.peers) \in Nat
    BY <1>1, ConfigTypes
  <2> QED BY <1>1, <2>1 DEF Recorded
<1>3. CASE PeerOK(cfg.peers[next])
  <2>1. /\ seen_ips' = seen_ips \cup {cfg.peers[next].allowed_ip}
        /\ seen_keys' = seen_keys \cup {cfg.peers[next].public_key}
        /\ next' = next + 1 /\ at' = at
    BY <1>3 DEF CheckPeer
  <2>2. Fits(next) /\ \A j \in 1 .. next - 1 : Differ(next, j)
    BY <1>1, <1>3, PeerChecked
  <2>3. Passed(next)
    <3>1. \A i \in 1 .. next : i \in 1 .. next - 1 \/ i = next
      BY <1>2
    <3> QED BY <1>1, <2>2, <3>1 DEF Passed, Differ
  <2>4. Passed(next - 1)'
    <3>1. next' - 1 = next
      BY <1>2, <2>1
    <3> QED BY <1>1, <2>3, <3>1 DEF Passed, Fits, Differ, SameNetwork, own, prefix_len, Upper
  <2>5. Recorded'
    <3>1. \A i : i \in 1 .. next' - 1 <=> i \in 1 .. next - 1 \/ i = next
      BY <1>2, <2>1
    <3>2. next' \in 1 .. Len(cfg'.peers) + 1
      BY <1>1, <1>2, <2>1
    <3> QED BY <1>1, <2>1, <3>1, <3>2 DEF Recorded, own, prefix_len
  <2> QED BY <1>1, <2>1, <2>4, <2>5 DEF Inv, HeaderOK, MtuFits
<1>4. CASE ~ PeerOK(cfg.peers[next])
  <2>1. at' = "refused"
    BY <1>4 DEF CheckPeer
  <2>2. ~ Passed(Len(cfg.peers))
    <3>1. ~ (Fits(next) /\ \A j \in 1 .. next - 1 : Differ(next, j))
      BY <1>1, <1>4, PeerChecked
    <3>2. \A j \in 1 .. next - 1 : j \in 1 .. Len(cfg.peers) /\ j # next
      BY <1>2
    <3> QED BY <1>2, <3>1, <3>2 DEF Passed
  <2>3. ~ Accepted
    BY <1>1, <2>2, AcceptedServer
  <2>4. ~ Accepted'
    BY <1>1, <2>3 DEF Accepted, WellFormed, SameNetwork, IsKey, Tight
  <2> QED BY <1>1, <2>1, <2>4 DEF Inv
<1> QED BY <1>3, <1>4

\* A step that leaves the loop alone.
LEMMA LoopKept ==
    ASSUME UNCHANGED <<cfg, loop>>
    PROVE  /\ HeaderOK' <=> HeaderOK
           /\ Recorded' <=> Recorded
           /\ Passed(next - 1)' <=> Passed(next - 1)
           /\ Accepted' <=> Accepted
           /\ ClientOK' <=> ClientOK
<1>1. (HeaderOK' <=> HeaderOK) /\ (Recorded' <=> Recorded) /\ (ClientOK' <=> ClientOK)
  BY DEF loop, HeaderOK, MtuFits, Recorded, own, prefix_len, ClientOK, Loads, IsKey, Tight
<1>2. Passed(next - 1)' <=> Passed(next - 1)
  BY DEF loop, Passed, Fits, Differ, SameNetwork, own, prefix_len, Upper
<1>3. Accepted' <=> Accepted
  BY DEF Accepted, WellFormed, SameNetwork, IsKey, Tight
<1> QED BY <1>1, <1>2, <1>3

\* After the loop.
LEMMA CheckPrivateKeyInv == ASSUME Inv, CheckPrivateKey PROVE Inv'
<1>1. /\ at = "peers" /\ next > Len(cfg.peers) /\ UNCHANGED <<cfg, loop, peers>>
      /\ cfg \in Configs /\ cfg.role = "server" /\ HeaderOK /\ Recorded /\ Passed(next - 1)
      /\ at' = IF load_key_material(cfg.private) = Bad THEN "refused" ELSE "loaded"
  BY DEF CheckPrivateKey, Inv
<1>2. next = Len(cfg.peers) + 1
  <2>1. Len(cfg.peers) \in Nat
    BY <1>1, ConfigTypes
  <2> QED BY <1>1, <2>1 DEF Recorded
<1>3. load_key_material(cfg.private) # Bad <=> Loads(cfg.private)
  BY <1>1, ConfigTypes, KeyLoads
<1>4. CASE Loads(cfg.private)
  BY <1>1, <1>2, <1>3, <1>4, LoopKept DEF Inv, Loads, IsKey, Tight, loop
<1>5. CASE ~ Loads(cfg.private)
  BY <1>1, <1>3, <1>5, AcceptedServer, LoopKept DEF Inv
<1> QED BY <1>4, <1>5

\* The table of the server: as the keys differ, the last peer of a key is the only one.
LEMMA RunServerInv == ASSUME Inv, RunServer PROVE Inv'
<1> DEFINE dom == DOMAIN cfg.peers
<1> DEFINE Last(k) == CHOOSE i \in dom : /\ cfg.peers[i].public_key = k
                                        /\ \A j \in dom : cfg.peers[j].public_key = k => j <= i
<1>1. /\ at = "loaded" /\ cfg.role = "server" /\ at' = "running" /\ UNCHANGED <<cfg, loop>>
      /\ cfg \in Configs /\ HeaderOK /\ Recorded /\ Passed(next - 1)
      /\ next = Len(cfg.peers) + 1 /\ Loads(cfg.private)
  BY DEF RunServer, Inv
<1>2. peers' = [k \in {cfg.peers[i].public_key : i \in dom} |-> cfg.peers[Last(k)].allowed_ip]
  BY DEF RunServer
<1>3. dom = 1 .. next - 1 /\ dom \subseteq Nat
  <2>1. Len(cfg.peers) \in Nat /\ dom = 1 .. Len(cfg.peers)
    BY <1>1, ConfigTypes
  <2> QED BY <1>1, <2>1
<1>4. ASSUME NEW i \in dom PROVE Last(cfg.peers[i].public_key) = i
  <2>1. \A j \in dom : cfg.peers[j].public_key = cfg.peers[i].public_key => j = i
    BY <1>1, <1>3 DEF Passed, Differ
  <2>2. /\ cfg.peers[i].public_key = cfg.peers[i].public_key
        /\ \A j \in dom : cfg.peers[j].public_key = cfg.peers[i].public_key => j <= i
    BY <1>3, <2>1
  <2> QED BY <2>1, <2>2
<1> HIDE DEF Last
<1>5. Table'
  BY <1>1, <1>2, <1>4 DEF Table
<1> QED BY <1>1, <1>5, LoopKept DEF Inv, Loads, IsKey, Tight, loop

\* ClientConfig::load.
LEMMA LoadClientInv == ASSUME Inv, LoadClient PROVE Inv'
<1>1. /\ at = "header" /\ cfg.role = "client" /\ UNCHANGED <<cfg, loop, peers>>
      /\ cfg \in Configs
  BY DEF LoadClient, Inv
<1>2. at' = IF ClientOK THEN "loaded" ELSE "refused"
  <2>1. /\ load_key_material(cfg.private) # Bad <=> Loads(cfg.private)
        /\ load_key_material(cfg.server_public) # Bad <=> Loads(cfg.server_public)
    BY <1>1, ConfigTypes, KeyLoads
  <2> QED BY <2>1 DEF LoadClient, ClientOK
<1> QED BY <1>1, <1>2, AcceptedClient, LoopKept DEF Inv

\* client::run.
LEMMA RunClientInv == ASSUME Inv, RunClient PROVE Inv'
<1>1. /\ at = "loaded" /\ cfg.role = "client" /\ UNCHANGED <<cfg, loop, peers>>
      /\ cfg \in Configs /\ ClientOK
      /\ at' = IF Cidr(cfg.address) THEN "running" ELSE "refused"
  BY DEF RunClient, Inv
<1> QED BY <1>1, AcceptedClient, LoopKept DEF Inv, Cidr

\* Every step keeps the invariant.
LEMMA NextInv == Inv /\ [Next]_vars => Inv'
<1> SUFFICES ASSUME Inv, [Next]_vars PROVE Inv'
  OBVIOUS
<1>1. CASE Next
  BY <1>1, CheckHeaderInv, CheckPeerInv, CheckPrivateKeyInv, RunServerInv, LoadClientInv,
     RunClientInv DEF Next
<1>2. CASE UNCHANGED vars
  <2>1. UNCHANGED <<cfg, loop>> /\ UNCHANGED <<at, next, seen_ips, seen_keys, peers>>
    BY <1>2 DEF vars, loop
  <2> QED BY <2>1, LoopKept DEF Inv, Loads, IsKey, Tight, Table, Cidr
<1> QED BY <1>1, <1>2

-----------------------------------------------------------------------------
(* Theorems. *)

\* The invariant holds throughout.
THEOREM ConfigInv == Spec => []Inv
BY InitInv, NextInv, PTL DEF Spec

\* RunsExactlyTheWellFormed: load and run take no configuration that is not well
\* formed, and every well-formed one whose key files are tight, for any number of peers and addresses of any width.
THEOREM LoadIsExact == Spec => []RunsExactlyTheWellFormed
<1>1. ASSUME Inv PROVE RunsExactlyTheWellFormed
  <2>1. cfg \in Configs
    BY <1>1 DEF Inv
  <2>2. ASSUME at = "running", cfg.role = "server" PROVE Accepted
    <3>1. /\ HeaderOK /\ Loads(cfg.private) /\ Passed(next - 1) /\ next = Len(cfg.peers) + 1
      BY <1>1, <2>2 DEF Inv
    <3>2. cfg.peers \in Seq(Peer)
      BY <2>1, <2>2, ConfigTypes
    <3>3. next - 1 = Len(cfg.peers)
      BY <3>1, <3>2
    <3> QED BY <2>1, <2>2, <3>1, <3>3, AcceptedServer
  <2>3. ASSUME at = "running", cfg.role = "client" PROVE Accepted
    BY <1>1, <2>1, <2>3, AcceptedClient DEF Inv
  <2>4. at = "refused" => ~ Accepted
    BY <1>1 DEF Inv
  <2> QED BY <2>1, <2>2, <2>3, <2>4, ConfigTypes DEF RunsExactlyTheWellFormed, Accepted
<1> QED BY <1>1, ConfigInv, PTL

\* PeersUsable: a running server knows every peer by its own key and address, and the
\* three ways of computing a mask agree on them.
THEOREM ServersPeersUsable == Spec => []PeersUsable
<1>1. ASSUME Inv PROVE PeersUsable
  <2> SUFFICES ASSUME at = "running", cfg.role = "server"
               PROVE  /\ \A i \in DOMAIN cfg.peers :
                            peers[cfg.peers[i].public_key] = cfg.peers[i].allowed_ip
                      /\ \A k, l \in DOMAIN peers : peers[k] = peers[l] => k = l
                      /\ \A k \in DOMAIN peers :
                            /\ peers[k] \cap prefix_to_netmask(prefix_len)
                                 = own \cap prefix_to_netmask(prefix_len)
                            /\ peers[k] \cap prefix_to_netmask(prefix_len)
                                 = ipv4_network(own, prefix_len)
    BY DEF PeersUsable, own, prefix_len
  <2>1. /\ cfg \in Configs /\ HeaderOK /\ Table /\ Passed(next - 1)
        /\ next = Len(cfg.peers) + 1
    BY <1>1 DEF Inv
  <2>2. /\ cfg.peers \in Seq(Peer) /\ DOMAIN cfg.peers = 1 .. next - 1
    <3>1. cfg.peers \in Seq(Peer)
      BY <2>1, ConfigTypes
    <3>2. Len(cfg.peers) \in Nat /\ DOMAIN cfg.peers = 1 .. Len(cfg.peers)
      BY <3>1
    <3> QED BY <2>1, <3>1, <3>2
  <2>3. own \in Ip /\ prefix_len \in 0 .. Bits
    BY <2>1, ConfigTypes DEF HeaderOK, Cidr, prefix_len
  <2>4. /\ prefix_to_netmask(prefix_len) = Upper(prefix_len)
        /\ ipv4_network(own, prefix_len) = own \cap Upper(prefix_len)
    BY <2>3, MasksAgree
  <2>5. ASSUME NEW k \in DOMAIN peers
        PROVE  \E i \in DOMAIN cfg.peers :
                  k = cfg.peers[i].public_key /\ peers[k] = cfg.peers[i].allowed_ip
    BY <2>1 DEF Table
  <2>6. \A k, l \in DOMAIN peers : peers[k] = peers[l] => k = l
    BY <2>1, <2>2, <2>5 DEF Passed, Differ
  <2>7. ASSUME NEW i \in DOMAIN cfg.peers
        PROVE  cfg.peers[i].allowed_ip \cap Upper(prefix_len) = own \cap Upper(prefix_len)
    <3>1. cfg.peers[i] \in Peer
      <4>1. cfg.peers \in Seq(Peer)
        BY <2>2
      <4>2. i \in 1 .. Len(cfg.peers)
        BY <2>7, <4>1
      <4> QED BY <4>1, <4>2
    <3>2. cfg.peers[i].allowed_ip \in Ip /\ SameNetwork(cfg.peers[i].allowed_ip, own, prefix_len)
      BY <2>1, <2>2, <3>1 DEF Passed, Fits, Peer
    <3> QED BY <2>3, <3>2, UpperBits
  <2> QED BY <2>1, <2>4, <2>5, <2>6, <2>7 DEF Table
<1> QED BY <1>1, ConfigInv, PTL
=============================================================================
