------------------------------- MODULE Guards -------------------------------
(***************************************************************************)
(* What a soulvpn process changes on its host, command by command, and     *)
(* how it undoes it (route.rs): ClientRoutes with its KillSwitch,          *)
(* Ipv6Guard and DnsGuard on a client, NatGuard on a server.               *)
(*                                                                         *)
(* An operation is the set of commands that it has yet to run, todo; they  *)
(* are run in the order of Rank.  Any command may fail, and the process    *)
(* may be killed between any two; what it installed stays, the guard       *)
(* objects that would remove it are gone, and the next start finds the     *)
(* host as it is.  The configuration stays the same, and nobody else       *)
(* changes these files and tables.                                         *)
(*                                                                         *)
(* fs::write is two commands, as it truncates the file and then writes it. *)
(***************************************************************************)
EXTENDS Naturals, Sequences

CONSTANTS
    MaxFaults,      \* bound: commands that fail for no reason of the model's
    MaxCrashes      \* bound: times the process is killed

ASSUME GuardsAssumption == MaxFaults \in Nat /\ MaxCrashes \in Nat

VARIABLES
    kernel,         \* the routes installed
    chain, rules,   \* whether there is KS_CHAIN, and its rules, in order
    jumps,          \* how many rules of OUTPUT jump to KS_CHAIN
    resolv, backup, \* contents of /etc/resolv.conf and of RESOLV_BACKUP
    forward,        \* /proc/sys/net/ipv4/ip_forward
    masquerade,     \* how many MASQUERADE rules there are for the tunnel
    own,            \* the guard objects of the process
    prev_forward, rule_added,       \* of NatGuard
    todo,           \* commands the process has yet to run
    phase,
    enabled,        \* RuntimeStats.enabled
    opts,           \* the configuration
    before,         \* history: the host before the first start
    faults, crashes,
    torn            \* history: a crash fell into the write of the backup

firewall == <<chain, rules, jumps>>
files == <<resolv, backup>>
nat == <<forward, masquerade>>
host == <<kernel, firewall, files, nat>>
memory == <<own, prev_forward, rule_added>>
fixed == <<opts, before, crashes, torn>>
vars == <<host, memory, todo, phase, enabled, fixed, faults>>

Split == {"low", "high"}
Allow == {"lo", "tun", "server"}

-----------------------------------------------------------------------------
(* The commands, in the order in which they are run. *)

Rank ==
    [show_default |-> 1, replace_host |-> 2, own_host |-> 3,
     replace_low |-> 4, replace_high |-> 5,
     replace_v6low |-> 6, replace_v6high |-> 7, own_ipv6 |-> 8,
     save |-> 9, copy |-> 10, truncate |-> 11, write |-> 12, own_dns |-> 13,
     new_chain |-> 14, flush |-> 15, allow_lo |-> 16, allow_tun |-> 17, allow_server |-> 18,
     allow_established |-> 19, reject |-> 20, check_jump |-> 21, insert_jump |-> 22,
     own_ks |-> 23,
     delete_jump |-> 24, flush_all |-> 25, delete_chain |-> 26,
     del_v6low |-> 27, del_v6high |-> 28,
     restore |-> 29, write_back |-> 30, remove |-> 31,
     del_low |-> 32, del_high |-> 33, del_host |-> 34,
     read_forward |-> 35, enable_forward |-> 36, show_egress |-> 37,
     check_rule |-> 38, add_rule |-> 39, own_nat |-> 40,
     delete_rule |-> 41, reset_forward |-> 42]

HostRoute == {"show_default", "replace_host", "own_host"}
SplitRoutes == {"replace_low", "replace_high"}
DelSplitRoutes == {"del_low", "del_high"}
Ipv6Enable == {"replace_v6low", "replace_v6high", "own_ipv6"}
Ipv6Drop == {"del_v6low", "del_v6high"}
DnsInstall == {"save", "copy", "truncate", "write", "own_dns"}
DnsDrop == {"restore", "write_back", "remove"}
KillSwitchInstall ==
    {"new_chain", "flush", "allow_lo", "allow_tun", "allow_server", "allow_established",
     "reject", "check_jump", "insert_jump", "own_ks"}
KillSwitchDrop == {"delete_jump", "flush_all", "delete_chain"}
NatSetup ==
    {"read_forward", "enable_forward", "show_egress", "check_rule", "add_rule", "own_nat"}

\* What the commands install, remove and append, and the guards they are part of.
Replaces ==
    [replace_host |-> "host", replace_low |-> "low", replace_high |-> "high",
     replace_v6low |-> "v6low", replace_v6high |-> "v6high"]
Dels ==
    [del_host |-> "host", del_low |-> "low", del_high |-> "high",
     del_v6low |-> "v6low", del_v6high |-> "v6high"]
Appends ==
    [allow_lo |-> "lo", allow_tun |-> "tun", allow_server |-> "server",
     allow_established |-> "established", reject |-> "reject"]
Owns == [own_host |-> "host", own_ipv6 |-> "ipv6", own_dns |-> "dns", own_ks |-> "ks",
         own_nat |-> "nat"]

\* A failure of these ends the whole operation with an error.
Must == HostRoute \cup SplitRoutes \cup {"enable_forward", "show_egress", "add_rule"}

\* Mutation of Optional: the exception for the server may fail.
OptionalServer == {"new_chain", "flush", "allow_server", "allow_established"}

\* A failure of these is ignored.  The rule for established connections has a
\* fallback and may be missing.
Optional == {"new_chain", "flush", "allow_established"}

\* Mutation of Skipped: the kill switch is left as it is when its removal fails.
SkippedDrop(c) ==
    CASE c \in Ipv6Enable -> Ipv6Enable
      [] c \in DnsInstall -> DnsInstall
      [] c \in KillSwitchInstall \ Optional -> KillSwitchInstall
      [] c \in KillSwitchDrop -> KillSwitchDrop
      [] c = "restore" -> {"restore", "write_back"}
      [] OTHER -> {c}

\* What is not run when a command fails: the block that it is in, or what needs it.
Skipped(c) ==
    CASE c \in Ipv6Enable -> Ipv6Enable
      [] c \in DnsInstall -> DnsInstall
      [] c \in KillSwitchInstall \ Optional -> KillSwitchInstall
      [] c = "restore" -> {"restore", "write_back"}
      [] OTHER -> {c}

When(condition, commands) == IF condition THEN commands ELSE {}

WantKillSwitch == opts.kill_switch /\ opts.redirect_all

\* ClientRoutes::install.  For an IPv6 endpoint it returns at once.
Install ==
    When(opts.v4,
         HostRoute
         \cup When(opts.redirect_all, SplitRoutes)
         \cup When(opts.disable_ipv6, Ipv6Enable)
         \cup When(opts.dns, DnsInstall)
         \cup When(WantKillSwitch, KillSwitchInstall))

teardown == When("ks" \in own, KillSwitchDrop) \cup When(opts.redirect_all, DelSplitRoutes)

reenable_with_ks ==
    When(opts.redirect_all, SplitRoutes)
    \cup When(WantKillSwitch /\ "ks" \notin own /\ "host" \in own, KillSwitchInstall)

\* Mutation of teardown_all: the IPv6 guard is forgotten.
teardown_allButIpv6 ==
    When("ks" \in own, KillSwitchDrop)
    \cup When("dns" \in own, DnsDrop)
    \cup When(opts.redirect_all, DelSplitRoutes)
    \cup When("host" \in own, {"del_host"})

teardown_all ==
    When("ks" \in own, KillSwitchDrop)
    \cup When("ipv6" \in own, Ipv6Drop)
    \cup When("dns" \in own, DnsDrop)
    \cup When(opts.redirect_all, DelSplitRoutes)
    \cup When("host" \in own, {"del_host"})

\* Mutation of NatDrop: a rule that was found is removed as well.
NatDropFound == {"delete_rule"} \cup When(prev_forward # "unread", {"reset_forward"})

NatDrop ==
    When(rule_added, {"delete_rule"}) \cup When(prev_forward # "unread", {"reset_forward"})

\* What the guards of the process do when they are dropped.
Drop == IF opts.role = "client" THEN teardown_all ELSE When("nat" \in own, NatDrop)

-----------------------------------------------------------------------------
ClientOptions ==
    [role : {"client"}, v4 : BOOLEAN, redirect_all : BOOLEAN, kill_switch : BOOLEAN,
     disable_ipv6 : BOOLEAN, dns : BOOLEAN]
ServerOptions == [role : {"server"}, nat : BOOLEAN]

\* The host as it is before soulvpn is first run; of resolv.conf on a client's host
\* and of the NAT on a server's.
Hosts(options) ==
    IF options.role = "client"
    THEN [resolv : {"original", "absent"}, forward : {"0"}, masquerade : {0}]
    ELSE [resolv : {"original"}, forward : {"0", "1"}, masquerade : {0, 1}]

Init ==
    /\ opts \in ClientOptions \cup ServerOptions
    /\ before \in Hosts(opts)
    /\ kernel = {} /\ chain = FALSE /\ rules = <<>> /\ jumps = 0
    /\ resolv = before.resolv /\ backup = "absent"
    /\ forward = before.forward /\ masquerade = before.masquerade
    /\ own = {} /\ prev_forward = "unread" /\ rule_added = FALSE
    /\ todo = {}
    /\ phase = "off"
    /\ enabled = TRUE
    /\ faults = 0 /\ crashes = 0 /\ torn = FALSE

Fault == faults < MaxFaults /\ faults' = faults + 1

Doing(c) == c \in todo /\ \A d \in todo : Rank[c] <= Rank[d]

\* These commands are over, and nothing else of the process has changed.
Over(commands) == todo' = todo \ commands /\ UNCHANGED <<phase, enabled, fixed>>

Done(c) == Doing(c) /\ Over({c}) /\ UNCHANGED faults

-----------------------------------------------------------------------------
(* The commands, when they succeed. *)

Replace(c) ==
    /\ c \in DOMAIN Replaces
    /\ kernel' = kernel \cup {Replaces[c]}
    /\ Done(c) /\ UNCHANGED <<firewall, files, nat, memory>>

Del(c) ==
    /\ c \in DOMAIN Dels /\ Dels[c] \in kernel
    /\ kernel' = kernel \ {Dels[c]}
    /\ Done(c) /\ UNCHANGED <<firewall, files, nat, memory>>

NewChain ==
    /\ ~ chain
    /\ chain' = TRUE
    /\ Done("new_chain") /\ UNCHANGED <<kernel, rules, jumps, files, nat, memory>>

Flush(c) ==
    /\ c \in {"flush", "flush_all"} /\ chain
    /\ rules' = <<>>
    /\ Done(c) /\ UNCHANGED <<kernel, chain, jumps, files, nat, memory>>

AppendRule(c) ==
    /\ c \in DOMAIN Appends /\ chain
    /\ rules' = Append(rules, Appends[c])
    /\ Done(c) /\ UNCHANGED <<kernel, chain, jumps, files, nat, memory>>

DeleteChain ==
    /\ chain /\ rules = <<>> /\ jumps = 0
    /\ chain' = FALSE
    /\ Done("delete_chain") /\ UNCHANGED <<kernel, rules, jumps, files, nat, memory>>

\* iptables -C, for the jump and for the MASQUERADE rule: what is not there, or could
\* not be looked for, is added next.
Check(check, add, present) ==
    /\ Doing(check)
    /\ \/ present /\ Over({check, add}) /\ UNCHANGED faults
       \/ Over({check}) /\ IF present THEN Fault ELSE UNCHANGED faults
    /\ UNCHANGED <<host, memory>>

CheckJump == Check("check_jump", "insert_jump", jumps > 0)
CheckRule == Check("check_rule", "add_rule", masquerade > 0)

InsertJump ==
    /\ chain
    /\ jumps' = jumps + 1
    /\ Done("insert_jump") /\ UNCHANGED <<kernel, chain, rules, files, nat, memory>>

DeleteJump ==
    /\ jumps > 0
    /\ jumps' = jumps - 1
    /\ Done("delete_jump") /\ UNCHANGED <<kernel, chain, rules, files, nat, memory>>

\* Mutation of Saves: a backup from a crash is overwritten.
SavesAlways == resolv # "absent"

\* There is a file to save, and no backup from a crash.
Saves == resolv # "absent" /\ backup = "absent"

Save ==
    /\ Doing("save")
    /\ \/ Saves /\ backup' = "empty" /\ Over({"save"})
       \/ ~ Saves /\ UNCHANGED backup /\ Over({"save", "copy"})
    /\ UNCHANGED <<kernel, firewall, resolv, nat, memory, faults>>

Copy ==
    /\ backup' = resolv
    /\ Done("copy") /\ UNCHANGED <<kernel, firewall, resolv, nat, memory>>

Truncate ==
    /\ resolv' = "empty"
    /\ Done("truncate") /\ UNCHANGED <<kernel, firewall, backup, nat, memory>>

Write ==
    /\ resolv' = "managed"
    /\ Done("write") /\ UNCHANGED <<kernel, firewall, backup, nat, memory>>

\* The backup is read, and resolv.conf truncated before it is written back.  The
\* backup goes, whether or not it could be.
Restore ==
    /\ backup # "absent"
    /\ resolv' = "empty"
    /\ Done("restore") /\ UNCHANGED <<kernel, firewall, backup, nat, memory>>

WriteBack ==
    /\ resolv' = backup
    /\ Done("write_back") /\ UNCHANGED <<kernel, firewall, backup, nat, memory>>

Remove ==
    /\ backup # "absent"
    /\ backup' = "absent"
    /\ Done("remove") /\ UNCHANGED <<kernel, firewall, resolv, nat, memory>>

ReadForward ==
    /\ prev_forward' = forward
    /\ Done("read_forward") /\ UNCHANGED <<host, own, rule_added>>

EnableForward ==
    /\ forward' = "1"
    /\ Done("enable_forward") /\ UNCHANGED <<kernel, firewall, files, masquerade, memory>>

ResetForward ==
    /\ forward' = prev_forward
    /\ Done("reset_forward") /\ UNCHANGED <<kernel, firewall, files, masquerade, memory>>

AddRule ==
    /\ masquerade' = masquerade + 1
    /\ rule_added' = TRUE
    /\ Done("add_rule") /\ UNCHANGED <<kernel, firewall, files, forward, own, prev_forward>>

DeleteRule ==
    /\ masquerade > 0
    /\ masquerade' = masquerade - 1
    /\ Done("delete_rule") /\ UNCHANGED <<kernel, firewall, files, forward, memory>>

\* default_route: something to parse, or not.
ShowDefault(c) ==
    /\ c \in {"show_default", "show_egress"}
    /\ Done(c) /\ UNCHANGED <<host, memory>>

TakeOwnership(c) ==
    /\ c \in DOMAIN Owns
    /\ own' = own \cup {Owns[c]}
    /\ Done(c) /\ UNCHANGED <<host, prev_forward, rule_added>>

-----------------------------------------------------------------------------
(* The commands, when they fail. *)

\* Commands that cannot succeed as the host is.
Futile(c) ==
    \/ c \in DOMAIN Dels /\ Dels[c] \notin kernel
    \/ c = "new_chain" /\ chain
    \/ c \in {"flush", "flush_all", "insert_jump"} \cup DOMAIN Appends /\ ~ chain
    \/ c = "delete_chain" /\ ~ (chain /\ rules = <<>> /\ jumps = 0)
    \/ c = "delete_jump" /\ jumps = 0
    \/ c \in {"restore", "remove"} /\ backup = "absent"
    \/ c = "delete_rule" /\ masquerade = 0

\* The error goes up to run, which ends and drops what was installed, or to the
\* hook thread, which logs it.
Return ==
    \/ /\ phase = "starting"
       /\ phase' = "failing"
       /\ todo' = Drop
       /\ own' = {} /\ prev_forward' = "unread" /\ rule_added' = FALSE
    \/ /\ phase = "switching"
       /\ todo' = {}
       /\ UNCHANGED <<phase, memory>>

CommandFails(c) ==
    /\ Doing(c) /\ c \notin DOMAIN Owns \cup {"check_jump", "check_rule"}
    /\ IF Futile(c) THEN UNCHANGED faults ELSE Fault
    /\ \/ c \in Must /\ Return
       \/ c \notin Must /\ todo' = todo \ Skipped(c) /\ UNCHANGED <<phase, memory>>
    /\ UNCHANGED <<host, enabled, fixed>>

-----------------------------------------------------------------------------
(* The process. *)

Begin(next, commands) ==
    /\ todo = {}
    /\ phase' = next
    /\ todo' = commands
    /\ UNCHANGED <<host, fixed, faults>>

Start ==
    /\ phase \in {"off", "failed", "crashed"}
    /\ Begin("starting", IF opts.role = "client" THEN Install ELSE When(opts.nat, NatSetup))
    /\ enabled' = TRUE
    /\ UNCHANGED memory

\* The hook of an off or on request; the server's has nothing to do.
SwitchOff ==
    /\ phase = "up" /\ opts.role = "client" /\ enabled
    /\ Begin("switching", teardown)
    /\ enabled' = FALSE
    /\ own' = own \ {"ks"}
    /\ UNCHANGED <<prev_forward, rule_added>>

SwitchOn ==
    /\ phase = "up" /\ opts.role = "client" /\ ~ enabled
    /\ Begin("switching", reenable_with_ks)
    /\ enabled' = TRUE
    /\ UNCHANGED memory

Stop ==
    /\ phase = "up"
    /\ Begin("stopping", Drop)
    /\ own' = {}
    /\ UNCHANGED <<enabled, prev_forward, rule_added>>

NextPhase ==
    [starting |-> "up", switching |-> "up", stopping |-> "off", failing |-> "failed"]

\* With the process goes its TUN device, and with that the routes through it.
Settle ==
    /\ phase \in DOMAIN NextPhase /\ todo = {}
    /\ phase' = NextPhase[phase]
    /\ kernel' = IF phase' = "up" THEN kernel ELSE kernel \ Split
    /\ IF phase' = "up" THEN UNCHANGED memory
       ELSE own' = {} /\ prev_forward' = "unread" /\ rule_added' = FALSE
    /\ UNCHANGED <<firewall, files, nat, todo, enabled, fixed, faults>>

Crash ==
    /\ phase \in DOMAIN NextPhase \cup {"up"}
    /\ crashes < MaxCrashes
    /\ crashes' = crashes + 1
    /\ phase' = "crashed"
    /\ todo' = {}
    /\ kernel' = kernel \ Split
    /\ own' = {} /\ prev_forward' = "unread" /\ rule_added' = FALSE
    /\ torn' = (torn \/ Doing("copy"))
    /\ UNCHANGED <<firewall, files, nat, enabled, opts, before, faults>>

ClientCommand ==
    \/ \E c \in todo : Replace(c) \/ Del(c) \/ Flush(c) \/ AppendRule(c)
    \/ NewChain \/ DeleteChain \/ CheckJump \/ InsertJump \/ DeleteJump
    \/ Save \/ Copy \/ Truncate \/ Write \/ Restore \/ WriteBack \/ Remove

ServerCommand ==
    ReadForward \/ EnableForward \/ ResetForward \/ CheckRule \/ AddRule \/ DeleteRule

Next ==
    \/ ClientCommand \/ ServerCommand
    \/ \E c \in todo : ShowDefault(c) \/ TakeOwnership(c) \/ CommandFails(c)
    \/ Start \/ SwitchOff \/ SwitchOn \/ Stop \/ Settle \/ Crash

Spec == Init /\ [][Next]_vars

-----------------------------------------------------------------------------
(* Properties. *)

\* The user's resolv.conf is never lost, whenever the process is killed and however
\* often it is started again: it is in its place or in the backup.  Two things the
\* code does not survive are excluded: a crash inside the write of the backup, which
\* leaves a torn one that the next start takes for good, and a failing file
\* operation, as restore removes the backup all the same.
ResolvConfKept ==
    before.resolv = "original" /\ faults = 0 /\ ~ torn => "original" \in {resolv, backup}

\* After a clean exit the client's host is as it was before the first start, even if
\* the process was killed before, in the middle of whatever.  (Where there was no
\* resolv.conf, the rewritten one stays.)
CleanExitRestores ==
    phase = "off" /\ faults = 0 /\ ~ torn =>
        /\ kernel = {} /\ ~ chain /\ jumps = 0
        /\ backup = "absent"
        /\ before.resolv = "original" => resolv = "original"

Blocked == jumps > 0 /\ \E i \in DOMAIN rules : rules[i] = "reject"

\* A kill switch that the client believes in is in force, whatever failed on the way;
\* and it never shuts out its own tunnel: where the chain rejects, it has let
\* loopback, tunnel and server pass before, also while it is being rebuilt behind a
\* jump that a crash left.
KillSwitchInForce ==
    /\ "ks" \in own => Blocked
    /\ \A i \in DOMAIN rules :
          rules[i] = "reject" => Allow \subseteq {rules[j] : j \in 1 .. i - 1}

\* One failing command is not enough to leave the host cut off after a clean exit,
\* not even after a crash: each of -D, -F and of a failing install opens the way.
NotCutOffAfterExit == phase = "off" /\ faults <= 1 => ~ Blocked

\* A server that is up with NAT forwards and masquerades.  It takes away no rule that
\* it did not add, be it one of the administrator's, whatever fails and whenever it is
\* killed; when it never was and nothing failed, a clean exit restores both.
NatInForceAndUndone ==
    opts.role = "server" =>
        /\ masquerade >= before.masquerade
        /\ "nat" \in own => forward = "1" /\ masquerade > 0
        /\ phase = "off" /\ faults = 0 /\ crashes = 0 =>
              forward = before.forward /\ masquerade = before.masquerade
=============================================================================
