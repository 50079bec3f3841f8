------------------------------ MODULE MCConfig ------------------------------
(* Addresses of three bits with every prefix length and one too long, lists of *)
(* up to two peers; and, for one such list, every case of the other fields.    *)
EXTENDS Config

CONSTANTS k1, k2    \* keys

MCAddresses == {Bad} \cup [ip : Ip, prefix : 0 .. Bits + 1]
MCPeers == [allowed_ip : {Bad} \cup Ip, public_key : {Bad} \cup Keys]

Good == [inline |-> k1, file |-> Unset]
\* What genkey writes under the umask 022 or 077, and files of any other origin.
Written == {write_keypair_files(k1, k2, umask) : umask \in {{4, 1}, {5, 4, 3, 2, 1, 0}}}
Files == [mode : {{8, 7}, {8, 7, 5}, {8, 7, 2}, {8, 7, 0}}, line : {Bad, k1, k2}]
         \cup {w.priv : w \in Written} \cup {w.pub : w \in Written}
Materials == [inline : {Bad, Unset, k1}, file : {Bad, Unset} \cup Files]
Mtus == {MinMtu - 1, MinMtu, MaxMtu, MaxMtu + 1}
Small == [ip |-> {0}, prefix |-> 1]

Networks ==
    [role : {"server"}, mode : {"octal"}, mtu : {MinMtu}, private : {Good},
     address : MCAddresses,
     peers : {<<>>} \cup {<<p>> : p \in MCPeers} \cup {<<p, q>> : p, q \in MCPeers}]

Fields ==
    [role : {"server"}, mode : {"octal", "other"}, mtu : Mtus, private : Materials,
     address : {Small}, peers : {<<[allowed_ip |-> {1}, public_key |-> k2]>>}]
    \cup
    [role : {"client"}, mode : {"octal", "other"}, mtu : Mtus, private : Materials,
     server_public : {Good, [inline |-> Unset, file |-> Unset]},
     address : {Small, Bad}, dns : {<<>>, <<{1}>>, <<{1}, Bad>>}]
    \cup
    [role : {"client"}, mode : {"octal"}, mtu : {MinMtu}, private : {Good},
     server_public : Materials, address : {Small}, dns : {<<>>}]

MCConfigs == Networks \cup Fields
=============================================================================
