# A verification of soulvpn in TLA+

soulvpn is a point-to-multipoint VPN over UDP: a server with a TUN device, a
client with a TUN device, a Noise IK handshake between them and AEAD data
packets with a counter nonce. This directory holds TLA+ models of its core, the
TLC configurations that check them on small instances, and TLAPS proofs of the
main theorems for every size.

## The system

| part | source | state | operations | how it meets the others |
|---|---|---|---|---|
| replay window | `crypto.rs` `ReplayWindow` | `highest`, a bitmap of 16 words | `check_and_update` | one in each session |
| session | `crypto.rs` `Session` | index, `send_nonce`, snow's transport state with its own counter, replay window | `encrypt`, `decrypt` | behind a mutex on either side |
| handshake | `crypto.rs` `Initiator`, `Responder` | Noise IK states (snow) | init, response, finish | one datagram each way |
| rate limit | `server.rs` `RateLimit` | instants of handshakes, per host | `allow`, `gc` | downlink admits, reaper collects |
| server | `server.rs` `run`, `handle_handshake`, `alloc_index` | `by_index`, `by_ip`, `rate`, behind one mutex | downlink, uplink, reaper | UDP, TUN, statistics, control |
| client | `client.rs` `run`, `handshake` | session slot, `recv_gate`, three tasks | uplink, downlink, maintenance | UDP, TUN, routes, control |
| control socket | `control.rs` `serve`, `handle_client` | connections | `status`, `on`, `off` | sets the switch, starts a hook thread |
| client routes | `route.rs` `ClientRoutes` | host route, split default route, kill switch, IPv6 and DNS guards | `install`, `teardown`, `reenable_with_ks`, drop | hook threads, start-up, shutdown |
| NAT guard | `route.rs` `NatGuard` | MASQUERADE rule, `ip_forward` | `setup`, drop | server start-up and shutdown |
| statistics | `stats.rs` | atomics, peer list | stores and a snapshot | written by all tasks |
| configuration | `config.rs` | - | load, validate, keys, CIDRs | start-up |
| dashboard, CLI | `monitor.rs`, `main.rs` | the last snapshot, an error | polling `status`, toggling | the control socket |

What is hard to get right, and hard to test:

- the bitmap arithmetic of the replay window at word and window boundaries, and
  the largest nonce;
- two counters, the header's and snow's, that must never part;
- a session table of two maps, changed by handshakes and by the reaper in
  separate critical sections, with an index chosen in one of them and used in
  the next;
- values copied under the lock and used after it (tunnel address, endpoint,
  statistics);
- a datagram's first byte, which is either a message type or part of a random
  index;
- one UDP socket read by two tasks of the client under a gate; attempts that
  time out and answers that come late;
- on and off requests that run in parallel and leave their work to threads
  nobody waits for; routes that go when the last owner of an `Arc` lets go;
- shutdown, which waits for tasks that wait for others;
- two ends that replace their session at different times, with old inits, old
  answers and old packets still on the way, or with a server that restarted;
- a dozen commands and file operations that change the host, any of which may
  fail, and a process that may be killed between any two and started again;
- masks at the prefix lengths 0 and 32, computed in three files.

`PROJECT.json` lists these hazards at their lines, with the properties aimed at
each.

## Modules

Names follow the source. A module's records carry `at`, the place in the task's
code, and the locals that live across a point where other tasks may run. Memory
safety, the byte layout of packets, logging and traffic counters are left out
everywhere.

**`ReplayFilter`, `AntiReplay`** - what the replay window promises, without
bits: the highest nonce and the set of nonces accepted; a nonce is fresh if it
was not accepted and is less than `Window` behind. `ReplayFilter` has the
operators, used by `Session`; `AntiReplay` the abstract specification.

**`ReplayWindow`** - `check_and_update` with its bitmap: `Words` words of
`WordBits` bits, the shift of whole words and the shift of bits with its carry,
the clearing when the window is left behind, the test and the marking. A word is
a set of bit positions. The history variable `accepted` is what was answered.

**`Session`** - `encrypt` and `decrypt` as functions of a session record. The
cipher is ideal: a packet opens under the key and nonce that sealed it and no
other. `send_nonce` wraps (`% (MaxNonce + 1)`); snow refuses to seal with the
largest nonce. The replay filter is updated *before* the packet is
authenticated, as in the code.

**`Channel`** - one direction of a session: a sender, a receiver whose window is
the bitmap of `ReplayWindow` (which this module extends), and a network that loses,
repeats, reorders and damages.

**`RateLimit`, `RateLimitSpec`** - `allow` and `gc`; the second module adds the
clock and a history of what was admitted. The order of a `Vec` of hits is never
used, so a hit stays in its slot until `retain` drops it, and `push` takes a free one.

**`Server`** - `server::run`. One action per critical section, store, receive or
send of the downlink (with the whole of `handle_handshake`), the uplink, the
reaper, the switch and shutdown. Instants are ages, advanced by `Tick`. The
network may deliver any datagram that a holder of a session could have sent,
from any address, at any time and any number of times; it is not a variable. A
key is the number of the handshake that made it, `keys` the history that says
who that was with.

**`Client`** - `client::run`. `hs` is the handshake code, run by start-up and
later by maintenance; `dn` and `up` the other tasks. Each attempt has its own
`HandshakeInitiator`, so `hs` keeps the init it sent and only an answer to that one
finishes. `recv_gate` is a queue, as
tokio's mutex is first come, first served: the downlink appends itself, *waits
for a datagram while it is the head*, and leaves. The server is reduced to
answers to inits; answers and data may arrive late, twice or never.

**`Link`, `Tunnel`** - `Link` is what one direction of the tunnel promises to the
programs on both hosts: packets may be lost and reordered, and are neither made up
nor delivered twice. `Tunnel` puts `Client` and `Server` at the two ends of one
network. It extends `Client`, instantiates `Server` with its variables renamed, and
its actions are theirs, joined with the datagram that is sent or taken; the
reductions that each of them makes of the other end are not used. The network is
`wild` (loses, repeats, reorders), `ordered` (loses) or `prompt` (neither, and
faster than a second). The server may restart.

**`ControlPlane`** - `status`, `on` and `off` from parallel connections, the thread
each switch starts, what it does to the routes behind their mutex, and the reference
counting that decides who tears them down. `kernel` is the set of what is installed:
the host route, the two halves of the default route, the jump to the kill-switch
chain. The endpoint is IPv4 (with an IPv6 endpoint `install` returns before it
installs anything). A request is one connection, as the CLI and the dashboard make
them.

**`Monitor`** - `ControlPlane` with a dashboard beside it: the probe, the loop that
polls, the keys, an error when nobody listens or the connection is cut. The command
line is the other user of the socket.

**`Guards`** - `route.rs` command by command. An operation (install, teardown,
re-enable, drop, NAT set-up and drop) is a set of commands, run in the order of
`Rank`. `Must`, `Optional` and `Skipped` say what a failure does: end the operation
(`?`), end the guard's block (`match ... Err(e) => warn!`), or nothing (`let _ =`). One action per kind of command changes routes,
chain, jumps, `resolv.conf`, its backup, `ip_forward` or the MASQUERADE rules.
`Crash` may come between any two; `fs::write` is two of them, the truncation and the
write. The guard objects (`own`) are what a crash loses. Here the operations run one
at a time; `ControlPlane` has them in parallel, with the whole set as one step.

**`Config`** - `ServerConfig::load` with its loop over the peers,
`ClientConfig::load`, `load_key_material` with the mode of key files, the files `genkey` writes, and what `run`
makes of the result. An address is a set of bits, a shift takes its amount modulo
the width as release builds do; `network_addr`, `ip_in_network`, `ipv4_network` and
`prefix_to_netmask` are separate, as in the code. A text is what parsing makes of
it, or `Bad`.

**`ChannelProofs` (with the replay window), `RateLimitProofs`, `ServerProofs`,
`ClientProofs`, `TunnelProofs`, `ControlPlaneProofs`, `GuardsProofs`,
`ConfigProofs`** - the
theorems. **`MC...`** - instances for TLC.

Operators commented `Mutation of X` are wrong variants of `X`, each the trace of
a plausible slip (a dropped guard, an off-by-one, a missing reset). They are used
nowhere in the specifications; substituted for `X`, one at a time, they show that
a property can fail. `PROJECT.json` says which one is for which property.

## Runs

`tlc -workers 2 -config <cfg> <module>`. All passing runs explore their state
space completely, each in less than two and a half minutes.

| run | instance | what it shows |
|---|---|---|
| `channel` | window of 3 words of 2 bits, nonces 0..7 | The bitmap marks exactly the accepted nonces (`WindowExact`) and implements `AntiReplay`; shifts by less than a word, by words, by both, by the whole window and more all occur. `Lockstep`: header and cipher counters never part, up to the nonce where `encrypt` gives up. `DeliveredAtMostOnce`. `RefusedForAReason`: as the window records a nonce before the packet is authenticated, a damaged datagram costs the good one with its nonce and all that are a whole window below it; apart from what was delivered before or fell out of the window behind a delivered packet, nothing else is refused. |
| `rate_limit` | 2 hosts, 2 per window of 3 ticks | The limit holds in every sliding window (`RateLimited`), the table forgets nothing that counts and keeps nothing that does not (`HitsExact`), refused attempts do not extend the refusal (`RoomReturns`). |
| `server_table` | 2 peers, a stranger, 2 indices, 2 handshakes, 1 address | `TableConsistent`, `SessionsOwned`, `NoCollision`, `AuthenticSource`, `UplinkIsolated`, `SessionsEndForAReason` in all interleavings of the tasks. |
| `server_live` | 1 peer on 2 ports, 2 handshakes, traffic both ways, switch, task failure and shutdown | `StatsConverge`, `IdleSessionsReaped`, `HalfDeadExits` under fairness; `EndpointAuthenticated`: only a fresh authentic packet moves an endpoint. |
| `server_dispatch` | 1 peer, 2 hosts, an index with low byte 1, 1 handshake | *Violated:* `DataReachesSession`, finding 1. |
| `client` | 3 inits, 2 answers, all timers, switch, failures and shutdown | `SessionsMoveForward`: a late or repeated answer never puts the client back to an older session. `NonceNeverReused`, `StartupEnds`, `RoundEndsUnderTraffic`, `ShutdownEndsUnderTraffic`. |
| `tunnel` | wild and ordered network, 3 inits, 2 sessions, expiry, 1 restart | `EachWayALink`: both directions implement `Link`, across sessions and restarts. `SameSession`: on a network that keeps order, a client that has made its handshake and a server agree. |
| `tunnel_rekey` | prompt network, 3 attempts | *Violated:* `RekeyAnswered`, finding 2. |
| `control_plane` | requests without end, 2 at a time, a dashboard, 2 failing commands, shutdown | `SwitchMatchesKernel`, `KillSwitchOwned`, `NothingLeftBehind`; under fairness `ScreenCatchesUp`. |
| `control_exit` | the same without dashboard, 3 at a time, no failures | *Violated:* `TornDownAtExit`, finding 3. |
| `guards` | all 32 client and 2 server configurations, every host they start on, 2 failing commands, 2 crashes | `ResolvConfKept`, `CleanExitRestores`, `KillSwitchInForce` (and never against its own tunnel), `NotCutOffAfterExit`, `NatInForceAndUndone` (and no foreign rule taken away). |
| `config` | addresses of 3 bits, all prefixes and one too long, up to 2 peers, private and public key files of all relevant modes | `RunsExactlyTheWellFormed`: the checks in their order accept what a definition without loop and masks accepts; private-key files must be tight, and loose public-key files, on which the documentation disagrees with itself, are left open. `PeersUsable`: keys and addresses are distinct, which is `TunnelIpAssumption` of `Server`, and the masks agree. |

`channel`, `server_table`, `client` and `control_plane` also check the type invariant
of their module.

### Bounds

- `MaxNonce`, `Window`: the properties compare nonces with each other, with the
  window and with the largest one. In `channel` the range exceeds the window, so
  nonces fall out of it; elsewhere the last nonce seals nothing and opens nothing, so
  `MaxNonce = 1` gives a fresh packet, a repeated one and an exhausted session.
- `MaxKeys`: handshakes that complete. Two let a session be replaced by its own
  peer, or by another peer on a reused index after expiry. `ServerProofs` removes
  this bound and all others.
- `MaxInits`, `Attempts`: three inits are start-up and a round of two attempts, or
  start-up with a retry and part of a round; a late answer then meets a later attempt
  of the same and of the next round.
- `MaxQueue = 1`: datagrams are chosen when they arrive, and the network may hold
  them back, so a longer buffer adds only delay.
- `MaxNet = 2`: an init, or its answer, and one datagram that overtakes it or is
  overtaken. `MaxRestarts = 1`.
- `IdleMax`, `RateWindow`, `Rekey`, `Reconnect`, `Keepalive`: ages grow only up
  to the point where they make a difference, so small limits keep the order of
  events free: each timer may fire, or not, at any point.
- `MaxFaults`: failing `ip`, `iptables` and file commands; commands that cannot
  succeed as things are (deleting what is not there) fail for free. `MaxCrashes = 2`:
  a crash on a clean host, and one on what the first left.
- `Conns`: connections, each with its thread, at one time.
- `server_table` and `server_dispatch` use `SpecOn`, with the data plane on and no
  shutdown. Both only stop tasks and touch none of the state these invariants are
  about; `server_live` runs with them, and the proofs about `Server` are about
  `Spec`, with them.
- `Arrivals` of `MCClient` and `MCServer` keeps datagrams away that the session
  refuses whatever its state, or that behave like others. It restricts the
  network alone, of which no fairness is assumed. `server_table` runs without it.
- `Urgent` of `MCTunnel`: a task that is in the middle of something goes on with it
  before the other process moves. What interleaving the tasks of one process can do
  is the subject of `server_table`, `server_live` and `client`; here it is the
  interleaving of the two processes, of handshake and downlink, and of the network.
- Symmetry is used in peers, hosts, indices (where none is special)
  and connections, and in no run with a liveness property.
- `CHECK_DEADLOCK FALSE` where the process may exit, fail to start, or use up the
  bound on its inits.

### Fairness

`Fairness` of `Server`: weak fairness of the downlink once it has a datagram, of
the uplink once it has a packet, and of the reaper, whose interval keeps firing;
tokio's mutex is first come, first served, so a task that waits for the lock gets
it. Strong fairness of `ReaperStops`: between two rounds the reaper is in
`select!`, which picks at random among ready branches. No fairness of receiving,
of reading from TUN, of requests, of ctrl-c or of `Tick`.

`Fairness` of `Client`: the same for handshake, maintenance and downlink. The
timer of an attempt makes `RecvTimeout` a fair step *once the gate is held*: that
is where the code starts the timer. The network owes nothing; the two
`...UnderTraffic` properties state as a premise that datagrams keep arriving.

`FairSpec` of `RateLimitSpec`: time passes.

`MonitorFairness` of `Monitor`: weak fairness of the task of each connection, of each
hook thread as long as the process lives, of `serve`, which sees the signal, and of the
exit once `run` has returned. None of `RunReturns`: `run` awaits maintenance first
(`client.rs:295`), which may wait for the gate for ever (finding 2), so the dashboard
may show its error while the process is still there. Strong fairness of `Poll`: the loop compares the clock at the head of every turn, so keys
cannot keep it from polling. None of requests, keys or ctrl-c; that switching stops
is the premise of `ScreenCatchesUp`.

## Where the code and its documentation disagree

1. **A session whose index has low byte 1 receives nothing** (`server_dispatch`).
   The downlink takes every datagram whose first byte is 1 for a handshake init
   (`server.rs:226`); data packets begin with the low byte of their session index,
   and `random_session_index` does not avoid 1. README.md:178: "Data packets carry
   that index so the server can look up the session".
2. **A re-handshake can lose every answer** (`tunnel_rekey`). `handshake` sends its
   init and then queues for `recv_gate` (`client.rs:320`), which the downlink holds
   while it waits for a datagram. The answer wakes the downlink, which drops it as
   undecryptable and queues again, behind the handshake. The handshake gets the gate,
   times out, sends the next init, and queues behind the downlink, which gets the next
   answer: on a quiet network that loses nothing, every attempt fails. Each answered
   init has replaced the session on the server, so the tunnel is then dead until data
   or another round happens to break the pattern. The comment at `client.rs:318` says
   "Hold recv gate so downlink doesn't steal the response."; README.md:188 says
   "Timed rekey (default 120s) + reconnect on silence (default 45s)." If the init or
   the answer is lost and nothing else comes, the wait for the gate, which is outside
   the timeout, has no end, and a shutdown waits with it; with traffic both a round
   and a shutdown end, as `client` shows.
3. **The kill switch can survive the process** (`control_exit`). `drop(routes)`
   drops one of several owners. A hook thread that has not finished when `run`
   returns is cut off by the exit of the process and nobody tears the routes down.
   README.md:111: "Tears everything down on Ctrl-C / process exit".

More was met while modelling, without a run of its own:

- Hook threads of successive requests are not ordered, so an `off` may undo an `on`
  that was answered after it; what does hold is that switch and kernel agree in the
  end (`SwitchMatchesKernel`). The reply to `off` may say ON, and the message of the
  keys `o` and `f` does not look at the reply. A kill switch that cannot be installed
  is logged and the tunnel enabled without it, which is why the properties of
  `control_plane` are conditional on `faults = 0` where they are.
- On a network that reorders or repeats, an old init that arrives late replaces the
  session that the client uses (Noise IK has no protection of its own against a
  repeated first message). `SameSession` is about networks that keep order.
- A crash inside the write of the `resolv.conf` backup leaves a torn backup that the
  next start takes for good, and `restore` removes the backup also when writing it
  back failed; `ResolvConfKept` excludes both. If there was no `resolv.conf`, the
  rewritten one stays after a clean exit.
- After a crash, the next server finds its own MASQUERADE rule and `ip_forward = 1`,
  takes both for the administrator's, and leaves both at its clean exit (README.md:113
  speaks of a rule that is removed). `NatInForceAndUndone` is about runs that were
  never killed.
- With an IPv6 endpoint `install` returns at once, but `off` and `on` install the
  split default routes all the same.
- The client of the quick start does not start under the usual umask: `genkey` leaves
  its `server.pub` the mode 0644 (`config.rs:336`), README.md:83 and
  examples/client.toml:10 make that file the `server_public_key_file`, and the check for
  private keys, which refuses every bit for group and others (`config.rs:251`), is
  applied to it as well. README.md:93 asks for 0600 of all key files; the comment at
  `config.rs:243` speaks of a soft warning for group-readable ones.
  `RunsExactlyTheWellFormed` asks for tight files where the key is private, and leaves
  loose files with a public key open.

## Proofs

`tlapm <module>` for each of the eight modules. They are proved completely, for every
value of the constants that satisfies the assumptions of the modules they extend. The
inductive invariants were checked with TLC on the instances above before they were
proved. In each module one lemma per action says that the action keeps the invariant;
below it are lemmas about what the operators do, which several actions share.

**`ChannelProofs`, the window.** Assumes positive `WordBits` and `Words` and a natural
`MaxNonce`. `WindowExact`, the statement that the bit at an offset is set exactly
if the nonce at that offset behind `highest` was accepted and that nothing beyond
`highest` was, is inductive together with `TypeOK`. The
lemmas follow the code: what the move of whole words does to one position, what
the move of bits with its carry does, that together they are a shift by
`diff`, and what marking a bit adds. `Refinement` then maps the bitmap to
`AntiReplay`: a bit of the window is a member of `taken`.

**`ChannelProofs`, the channel.** Builds on it: the channel calls the window only through
`check_and_update`, so `ChannelUsesWindow` brings `WindowExact` and the refinement to
the channel. `DeliveredAtMostOnce` is a counter and says nothing about the next step;
the invariant adds that the nonce of every delivered datagram is in `accepted`, that
every datagram was sealed with the nonce of its header, below the counter, that the
window takes a nonce only for a datagram that was delivered or damaged, and that
`highest` is one of those. So whatever `check_and_update` refuses, because of its bit or
because of `highest`, has one of the reasons of `RefusedForAReason`.

**`RateLimitProofs`.** For any sources, limit and window (both at least 1, as
`RateLimit::new` makes them). `HitsExact` is inductive together with the types.
`RateLimited` is about the sum over all ages, which is never computed: the admissions
of a source form a set of pairs, and the invariant says that it has as many members
as there are hits that count. An admission adds one to both; when time passes both
lose those of the highest age, equally many by `HitsExact`, and the rest move up one
by one (a bijection). `allow` refuses at the limit; `gc` takes no hit that counts.

**`ServerProofs`.** Assumes what `ServerConfig::load` enforces, that tunnel
addresses of different peers differ (`TunnelIpAssumption`, which `PeersUsable` of
`Config` establishes); that a stranger is not a peer; that indices are finitely many;
and naturals where numbers are expected.
None of the five safety invariants is inductive alone: `TableConsistent` needs
`NoCollision` when a session is inserted, `NoCollision` needs that only the
downlink inserts, `AuthenticSource` and `UplinkIsolated` need `SessionsOwned` at
the moment of decryption and encryption, `SessionsOwned` needs the table
consistent. Their conjunction with `TypeOK` is inductive, and the proof has one
lemma per action that touches the table. `EndpointIsAuthenticated` and
`SessionsEndOnlyForAReason` are action properties proved from the same invariant.

**`ClientProofs`.** `NonceNeverReused` needs more than a counter that grows: the same
session must not be installed twice. `Spent` says that the counter of the session is
ahead of all that was sealed under its key, and that while an init is out everything
sealed so far, and the session in use, answers an earlier init. `LatestInit` says that
the initiator the handshake waits with is that of the last init: a new session then has
a key nothing was sealed under, and answers a later init than the one it replaces
(`SessionsMoveForward`). `GateFair` (a task is in the
queue of `recv_gate` exactly while it is in `recv`) and `Stages` (no task before there
is a session) make the types inductive.

**`TunnelProofs`.** The client's part of a tunnel is a behaviour of `Client`
(`ClientInTheTunnel`), which gives the client's invariant. `NetHolds`, `ServerHolds`
and `ClientHolds` follow the packets: what the network, a buffer or a task holds was
sealed by the other end. `UpOnce` and `DownOnce` say that whatever was written, or is
decrypted and about to be written, is recorded in the window of the session with that
key, if there still is one. That such a key does not come back is `OneSession` on the
server (the session has the number of the last handshake, also across restarts) and
the order of inits on the client. From these, every step is a step of `Link` or a
stutter in both directions (`TunnelIsALink`). `InOrder` is for `SameSession`: on a
network that keeps order, inits reach the server one by one, each once, so the last
key answers the last init. The proof is about `TunnelSpec`, without the scheduling
restriction `Urgent` that the runs use.

**`ControlPlaneProofs`.** For any set of connections and any number of failures.
`Agreement` says, while nothing has failed, what the kernel holds as hooks run: the
whole of one of two states, on or off; the one a hook asked for between its run and
its store to the switch; and the one the switch says when no hook is under way or due.
`LockFair` and `OneHookEach` say where a thread can be. `MonitorIsAUser` shows that
the dashboard adds no behaviour to the control plane.

**`GuardsProofs`.** For any number of failing commands and crashes. `Stages` says
which commands can be left to run in each phase; the other conjuncts say, for every
subset of them, what the host looks like: what the kill-switch chain holds as it is
built behind a jump that may be there from before (`InForce`), what opens the way
(`Open`, `Gone`, `Routes`), where the user's `resolv.conf` is (`Backup`, `Original`),
how many MASQUERADE rules there are and who added them (`NatInForce`, `NatExact`).

**`ConfigProofs`.** For any width of addresses and any number of peers: the loop over
the peers has seen exactly the keys and addresses of the peers before it, and none of
them twice. The lemmas about the masks say that `network_addr`, `ip_in_network` and
`prefix_to_netmask` compare the same bits.

**Only model-checked.** All liveness properties, as the prover has no rule for
fairness. The three properties that are violated.

## Not modelled

- The Noise messages and the cipher (snow): ideal, see `Session`.
- Traffic counters: independent atomic additions that nothing reads but the screen.
- Drawing, rates and formatting (`monitor.rs`, `stats.rs`), argument parsing, making
  keys and printing (`main.rs`): no state that outlives a step.
- Framing and JSON of the control socket, its file and mode: a request or a reply
  arrives whole or the connection fails.
- Creating the TUN device, header bytes in `packet.rs`: I/O and layout.
- TOML and base64: `Config` starts from what they yield.
- Two soulvpn processes on one host, and other programs that change the same routes,
  tables and files.
