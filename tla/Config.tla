------------------------------- MODULE Config -------------------------------
(***************************************************************************)
(* From a configuration file to a running server or client: what load      *)
(* checks (config.rs), what run makes of it (server.rs), and the mask      *)
(* arithmetic that config.rs, server.rs and tun_dev.rs each do on their    *)
(* own.                                                                    *)
(*                                                                         *)
(* An IPv4 address is the set of its bits that are one.  A text is what    *)
(* parsing makes of it: an address, a key, or Bad.  Key files have the     *)
(* mode bits 0 .. 8.                                                       *)
(***************************************************************************)
EXTENDS Integers, Sequences

CONSTANTS
    Bits,           \* bits in an address (32)
    Keys,           \* 32-byte keys
    MinMtu, MaxMtu, \* 576, 9000
    Bad,            \* a text that does not parse, a file that cannot be read
    Unset,          \* an optional field that is not there
    Configs         \* the configurations looked at

Ip == SUBSET (0 .. Bits - 1)

KeyFile == [mode : SUBSET (0 .. 8), line : Keys \cup {Bad}]
Material == [inline : {Bad, Unset} \cup Keys, file : {Bad, Unset} \cup KeyFile]
Address == [ip : Ip, prefix : Nat]
Peer == [allowed_ip : {Bad} \cup Ip, public_key : {Bad} \cup Keys]

ASSUME ConfigAssumption ==
    /\ Bits \in Nat \ {0} /\ MinMtu \in Nat /\ MaxMtu \in Nat
    /\ Bad # Unset
    /\ {Bad, Unset} \cap Keys = {}
    /\ \A ip \in Ip : ip # Bad
    /\ \A c \in Configs :
          /\ c.mode \in {"octal", "other"} /\ c.mtu \in Nat
          /\ c.address \in {Bad} \cup Address
          /\ c.private \in Material
          /\ \/ c.role = "server" /\ c.peers \in Seq(Peer)
             \/ c.role = "client" /\ c.server_public \in Material
                                  /\ c.dns \in Seq({Bad} \cup Ip)

VARIABLES
    cfg,                    \* the file being loaded
    at,                     \* header, peers, loaded, running, refused
    next,                   \* the peer the loop is at
    seen_ips, seen_keys,
    network,
    peers                   \* State.peers of the server: public key -> tunnel_ip

vars == <<cfg, at, next, seen_ips, seen_keys, network, peers>>
loop == <<next, seen_ips, seen_keys, network>>

-----------------------------------------------------------------------------
(* Masks.  A shift by Bits or more is not what it seems: the amount is taken *)
(* modulo Bits (and a debug build panics).                                   *)

All == 0 .. Bits - 1

Shl(w, k) == {b \in All : b - (k % Bits) \in w}

network_addr(ip, prefix) == IF prefix = 0 THEN {} ELSE ip \cap Shl(All, Bits - prefix)

ip_in_network(ip, net, prefix) ==
    \/ prefix = 0
    \/ ip \cap Shl(All, Bits - prefix) = net \cap Shl(All, Bits - prefix)

\* server.rs and tun_dev.rs have their own.
ipv4_network(ip, prefix) == IF prefix = 0 THEN {} ELSE ip \cap Shl(All, Bits - prefix)

\* Mutation of prefix_to_netmask: no case of its own for the prefix 0.
prefix_to_netmaskUnguarded(prefix) == Shl(All, Bits - prefix)

prefix_to_netmask(prefix) == IF prefix = 0 THEN {} ELSE Shl(All, Bits - prefix)

\* parse_cidr: the prefix length is at most Bits.
Cidr(address) == address # Bad /\ address.prefix <= Bits

-----------------------------------------------------------------------------
(* Keys. *)

\* genkey --write-dir, into a directory without files of that name: the private key
\* gets the mode 0600, the public key what the umask leaves of 0666.
write_keypair_files(privk, pubk, umask) ==
    [priv |-> [mode |-> {8, 7}, line |-> privk],
     pub |-> [mode |-> {8, 7, 5, 4, 2, 1} \ umask, line |-> pubk]]

check_key_file_permissions(file) == file.mode \cap (0 .. 5) = {}

\* The key in the file: the file can be read, has a fitting mode, and holds one.
FileKey(file) ==
    IF file # Bad /\ check_key_file_permissions(file) THEN file.line ELSE Bad

\* The file is preferred; if both are given they agree.
load_key_material(material) ==
    IF material.file = Unset
    THEN IF material.inline = Unset THEN Bad ELSE material.inline
    ELSE IF material.inline \in {Unset, FileKey(material.file)}
         THEN FileKey(material.file)
         ELSE Bad

-----------------------------------------------------------------------------
Init ==
    /\ cfg \in Configs
    /\ at = "header"
    /\ next = 1
    /\ seen_ips = {} /\ seen_keys = {} /\ network = {}
    /\ peers = <<>>

MtuFits == MinMtu <= cfg.mtu /\ cfg.mtu <= MaxMtu

(* ServerConfig::load. *)

HeaderOK ==
    cfg.peers # <<>> /\ cfg.mode = "octal" /\ MtuFits /\ Cidr(cfg.address)

CheckHeader ==
    /\ at = "header" /\ cfg.role = "server"
    /\ IF HeaderOK
       THEN at' = "peers" /\ network' = network_addr(cfg.address.ip, cfg.address.prefix)
       ELSE at' = "refused" /\ UNCHANGED network
    /\ UNCHANGED <<cfg, next, seen_ips, seen_keys, peers>>

PeerOK(p) ==
    /\ p.allowed_ip # Bad /\ p.public_key # Bad
    /\ p.allowed_ip \notin seen_ips
    /\ p.public_key \notin seen_keys
    /\ ip_in_network(p.allowed_ip, network, cfg.address.prefix)
    /\ p.allowed_ip # cfg.address.ip
    /\ p.allowed_ip # network

\* Mutation of CheckPeer: the keys seen are not recorded.
CheckPeerForgets ==
    /\ at = "peers" /\ next <= Len(cfg.peers)
    /\ LET p == cfg.peers[next]
       IN  IF PeerOK(p)
           THEN /\ seen_ips' = seen_ips \cup {p.allowed_ip}
                /\ next' = next + 1
                /\ UNCHANGED <<at, seen_keys>>
           ELSE at' = "refused" /\ UNCHANGED <<seen_ips, seen_keys, next>>
    /\ UNCHANGED <<cfg, network, peers>>

CheckPeer ==
    /\ at = "peers" /\ next <= Len(cfg.peers)
    /\ LET p == cfg.peers[next]
       IN  IF PeerOK(p)
           THEN /\ seen_ips' = seen_ips \cup {p.allowed_ip}
                /\ seen_keys' = seen_keys \cup {p.public_key}
                /\ next' = next + 1
                /\ UNCHANGED at
           ELSE at' = "refused" /\ UNCHANGED <<seen_ips, seen_keys, next>>
    /\ UNCHANGED <<cfg, network, peers>>

CheckPrivateKey ==
    /\ at = "peers" /\ next > Len(cfg.peers)
    /\ at' = IF load_key_material(cfg.private) = Bad THEN "refused" ELSE "loaded"
    /\ UNCHANGED <<cfg, loop, peers>>

\* server::run: the peers by public key; of equal keys the last would win.
RunServer ==
    /\ at = "loaded" /\ cfg.role = "server"
    /\ peers' = [k \in {cfg.peers[i].public_key : i \in DOMAIN cfg.peers} |->
                    LET last == CHOOSE i \in DOMAIN cfg.peers :
                                   /\ cfg.peers[i].public_key = k
                                   /\ \A j \in DOMAIN cfg.peers :
                                         cfg.peers[j].public_key = k => j <= i
                    IN  cfg.peers[last].allowed_ip]
    /\ at' = "running"
    /\ UNCHANGED <<cfg, loop>>

(* ClientConfig::load, and client::run, which is the one to parse the address. *)

LoadClient ==
    /\ at = "header" /\ cfg.role = "client"
    /\ at' = IF /\ cfg.mode = "octal" /\ MtuFits
                /\ load_key_material(cfg.private) # Bad
                /\ load_key_material(cfg.server_public) # Bad
                /\ \A i \in DOMAIN cfg.dns : cfg.dns[i] # Bad
             THEN "loaded" ELSE "refused"
    /\ UNCHANGED <<cfg, loop, peers>>

RunClient ==
    /\ at = "loaded" /\ cfg.role = "client"
    /\ at' = IF Cidr(cfg.address) THEN "running" ELSE "refused"
    /\ UNCHANGED <<cfg, loop, peers>>

Next ==
    \/ CheckHeader \/ CheckPeer \/ CheckPrivateKey \/ RunServer
    \/ LoadClient \/ RunClient

Spec == Init /\ [][Next]_vars

-----------------------------------------------------------------------------
(* Properties. *)

\* Two addresses are in one network when their upper bits are the same.
SameNetwork(a, b, prefix) ==
    \A bit \in All : bit >= Bits - prefix => (bit \in a <=> bit \in b)

IsKey(material) ==
    /\ {material.inline, material.file} # {Unset}
    /\ material.inline # Bad /\ material.file # Bad
    /\ material.file # Unset =>
          material.file.line # Bad /\ material.inline \in {Unset, material.file.line}

\* Nobody but the owner of the file may do anything with it.
Tight(material) == material.file \notin {Bad, Unset} => material.file.mode \subseteq 6 .. 8

\* What a configuration has to be, without a loop and without masks.  A file with a
\* private key must be tight; of one with a public key nothing is asked.
WellFormed ==
    /\ cfg.mode = "octal" /\ cfg.mtu \in MinMtu .. MaxMtu
    /\ cfg.address # Bad /\ cfg.address.prefix \in 0 .. Bits
    /\ IsKey(cfg.private) /\ Tight(cfg.private)
    /\ cfg.role = "client" =>
          IsKey(cfg.server_public) /\ \A i \in DOMAIN cfg.dns : cfg.dns[i] # Bad
    /\ cfg.role = "server" =>
          LET zero == {b \in cfg.address.ip : b >= Bits - cfg.address.prefix}
          IN  /\ Len(cfg.peers) > 0
              /\ \A i \in DOMAIN cfg.peers :
                    LET p == cfg.peers[i]
                    IN  /\ p.allowed_ip # Bad /\ p.public_key # Bad
                        /\ SameNetwork(p.allowed_ip, cfg.address.ip, cfg.address.prefix)
                        /\ p.allowed_ip \notin {cfg.address.ip, zero}
                        /\ \A j \in DOMAIN cfg.peers : i # j =>
                              /\ p.allowed_ip # cfg.peers[j].allowed_ip
                              /\ p.public_key # cfg.peers[j].public_key

\* A process gets to run on well-formed configurations only, and is refused none whose
\* key files are all tight: the order of the checks, the sets of what was seen and the
\* masks let nothing through and stop nothing.  Whether a loose public-key file should
\* be refused is left open: the code does, and its documentation disagrees.
RunsExactlyTheWellFormed ==
    /\ at = "running" => WellFormed
    /\ at = "refused" => ~ (WellFormed /\ (cfg.role = "client" => Tight(cfg.server_public)))

\* The table of a running server has every peer of the file under its own key and no
\* two with one tunnel address, as the session table needs it; and the three masks
\* agree: a peer that load takes for one of the network is routed to the TUN device
\* by its netmask and covered by the network that NAT masquerades.
PeersUsable ==
    at = "running" /\ cfg.role = "server" =>
        LET own == cfg.address.ip
            prefix == cfg.address.prefix
            netmask == prefix_to_netmask(prefix)
        IN  /\ \A i \in DOMAIN cfg.peers :
                  peers[cfg.peers[i].public_key] = cfg.peers[i].allowed_ip
            /\ \A k, l \in DOMAIN peers : peers[k] = peers[l] => k = l
            /\ \A k \in DOMAIN peers :
                  /\ peers[k] \cap netmask = own \cap netmask
                  /\ peers[k] \cap netmask = ipv4_network(own, prefix)
=============================================================================
