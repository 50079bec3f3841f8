---------------------------- MODULE GuardsProofs ----------------------------
(***************************************************************************)
(* Proofs about Guards, for any number of failing commands and crashes.    *)
(*                                                                         *)
(* The inductive invariant says of every part of the host how far the      *)
(* operation under way has got with it: which commands are still to come   *)
(* (todo) decides what the host looks like now.  It has one conjunct per   *)
(* part: the firewall, the routes, resolv.conf and its backup, the NAT.    *)
(***************************************************************************)
EXTENDS Guards, SequenceTheorems, TLAPS

RuleNames == Allow \cup {"established", "reject"}
Down == {"off", "failed", "crashed"}
Firewall == KillSwitchInstall \cup KillSwitchDrop

\* What an operation of this phase may still have to run.
Agenda ==
    IF phase = "starting" THEN
        IF opts.role = "client" THEN Install ELSE When(opts.nat, NatSetup)
    ELSE IF phase = "switching" THEN
        IF enabled THEN SplitRoutes \cup When(WantKillSwitch /\ opts.v4, KillSwitchInstall)
        ELSE KillSwitchDrop \cup DelSplitRoutes
    ELSE IF phase \in {"stopping", "failing"} THEN
        IF opts.role = "client"
        THEN KillSwitchDrop \cup Ipv6Drop \cup DnsDrop \cup DelSplitRoutes \cup {"del_host"}
        ELSE {"delete_rule", "reset_forward"}
    ELSE {}

Types ==
    /\ opts \in ClientOptions \cup ServerOptions
    /\ before \in Hosts(opts)
    /\ phase \in Down \cup {"starting", "up", "switching", "stopping", "failing"}
    /\ kernel \subseteq Split \cup {"host", "v6low", "v6high"}
    /\ chain \in BOOLEAN /\ rules \in Seq(RuleNames) /\ jumps \in Nat
    /\ masquerade \in Nat
    /\ enabled \in BOOLEAN /\ torn \in BOOLEAN /\ rule_added \in BOOLEAN
    /\ faults \in Nat /\ crashes \in Nat

Stages ==
    /\ todo \subseteq Agenda
    /\ phase = "switching" => opts.role = "client"
    /\ phase \in Down \cup {"stopping", "failing"} => own = {}
    /\ phase \in Down => prev_forward = "unread" /\ ~ rule_added /\ kernel \cap Split = {}
    /\ phase \in {"failing", "failed"} => faults > 0
    /\ own \subseteq IF opts.role = "client" THEN {"host", "ipv6", "dns", "ks"} ELSE {"nat"}
    /\ own # {} /\ opts.role = "client" => opts.v4
    /\ "ipv6" \in own => opts.disable_ipv6
    /\ "dns" \in own => opts.dns
    /\ "nat" \in own => opts.nat

-----------------------------------------------------------------------------
(* The firewall. *)

Has(r) == \E i \in DOMAIN rules : rules[i] = r

\* The kill switch in force, and why each command of its installation makes it so.
InForce ==
    /\ KillSwitchInForce
    /\ "ks" \in own => todo \cap Firewall = {} /\ WantKillSwitch
    /\ "flush" \in todo => {"allow_lo", "allow_tun", "allow_server", "reject"} \subseteq todo
    /\ "check_jump" \in todo => "insert_jump" \in todo
    /\ "reject" \in todo =>
          /\ "allow_lo" \in todo \/ Has("lo")
          /\ "allow_tun" \in todo \/ Has("tun")
          /\ "allow_server" \in todo \/ Has("server")
    /\ "own_ks" \in todo =>
          /\ "reject" \in todo \/ Has("reject")
          /\ "check_jump" \in todo \/ "insert_jump" \in todo \/ jumps > 0

\* The way is open again: what one failing command can do.
Open ==
    /\ ~ chain => rules = <<>>
    /\ ~ (opts.role = "client" /\ opts.v4 /\ WantKillSwitch) => ~ chain /\ jumps = 0
    /\ ~ enabled => "ks" \notin own /\ phase # "starting"
    /\ todo \cap KillSwitchInstall # {} => "own_ks" \in todo
    /\ todo \cap {"allow_lo", "allow_tun", "allow_server"} # {} => "reject" \in todo
    /\ faults = 0 => jumps <= 1
    /\ faults = 0 /\ "reject" \in todo /\ "flush" \notin todo => ~ Has("reject")
    /\ faults = 0 /\ "insert_jump" \in todo /\ "check_jump" \notin todo => jumps = 0
    /\ "delete_jump" \in todo => "flush_all" \in todo
    /\ "flush_all" \in todo => "delete_chain" \in todo
    /\ faults = 0 /\ "delete_chain" \in todo /\ "delete_jump" \notin todo => jumps = 0
    /\ faults <= 1 /\ phase = "switching" /\ todo \cap SplitRoutes # {} => ~ Blocked
    /\ /\ faults <= 1 /\ phase \in {"off", "starting", "up", "switching", "stopping"}
       /\ "ks" \notin own
       /\ todo \cap (KillSwitchInstall \cup {"delete_jump", "flush_all"}) = {}
       => ~ Blocked

\* The chain goes with the kill switch when nothing fails.
Gone ==
    faults = 0 =>
        /\ todo \cap KillSwitchInstall # {} => "new_chain" \in todo \/ chain
        /\ "delete_chain" \in todo /\ "flush_all" \notin todo => rules = <<>>
        /\ /\ phase \in {"off", "starting", "up", "switching", "stopping"}
           /\ "ks" \notin own /\ todo \cap Firewall = {}
           => ~ chain /\ jumps = 0

-----------------------------------------------------------------------------
(* The routes that outlive the process. *)

Routes ==
    /\ "host" \in kernel => opts.role = "client" /\ opts.v4
    /\ kernel \cap {"v6low", "v6high"} # {} =>
          opts.role = "client" /\ opts.v4 /\ opts.disable_ipv6
    /\ todo \cap HostRoute # {} => "own_host" \in todo
    /\ todo \cap Ipv6Enable # {} => "own_ipv6" \in todo
    /\ faults = 0 /\ phase # "crashed" =>
          /\ "host" \in kernel => "host" \in own \/ todo \cap {"own_host", "del_host"} # {}
          /\ "v6low" \in kernel => "ipv6" \in own \/ todo \cap {"own_ipv6", "del_v6low"} # {}
          /\ "v6high" \in kernel => "ipv6" \in own \/ todo \cap {"own_ipv6", "del_v6high"} # {}

-----------------------------------------------------------------------------
(* resolv.conf and its backup. *)

Backup ==
    /\ backup # "absent" => opts.role = "client" /\ opts.v4 /\ opts.dns
    /\ todo \cap DnsInstall # {} => "own_dns" \in todo
    /\ "save" \in todo => "copy" \in todo
    /\ "copy" \in todo /\ "save" \notin todo => Doing("copy")
    /\ "restore" \in todo => "write_back" \in todo
    /\ todo \cap DnsDrop # {} => "remove" \in todo
    /\ faults = 0 /\ phase # "crashed" /\ backup # "absent" =>
          "dns" \in own \/ todo \cap {"own_dns", "remove"} # {}

Original ==
    before.resolv = "original" /\ faults = 0 /\ ~ torn =>
        /\ resolv # "absent"
        /\ backup = "absent" => resolv = "original"
        /\ \/ backup \in {"absent", "original"}
           \/ backup = "empty" /\ resolv = "original" /\ "copy" \in todo /\ "save" \notin todo
        /\ "copy" \in todo /\ "save" \notin todo => resolv = "original"
        /\ "own_dns" \in todo /\ "copy" \notin todo => backup = "original"
        /\ "dns" \in own => backup = "original"
        /\ todo \cap {"restore", "write_back"} # {} => backup = "original"
        /\ "remove" \in todo /\ "write_back" \notin todo => resolv = "original"

-----------------------------------------------------------------------------
(* The NAT. *)

NatInForce ==
    opts.role = "server" =>
        /\ masquerade >= before.masquerade
        /\ rule_added /\ phase \in {"starting", "up"} => masquerade > before.masquerade
        /\ "delete_rule" \in todo => masquerade > before.masquerade
        /\ "nat" \in own => forward = "1" /\ masquerade > 0 /\ todo = {}
        /\ "check_rule" \in todo => "add_rule" \in todo
        /\ "own_nat" \in todo =>
              /\ "enable_forward" \in todo \/ forward = "1"
              /\ "check_rule" \in todo \/ "add_rule" \in todo \/ masquerade > 0

One == IF rule_added THEN 1 ELSE 0

NatExact ==
    opts.role = "server" /\ faults = 0 /\ crashes = 0 =>
        /\ phase # "crashed"
        /\ phase = "off" => forward = before.forward /\ masquerade = before.masquerade
        /\ phase \in {"starting", "up"} =>
              /\ masquerade = before.masquerade + One
              /\ ~ opts.nat => forward = before.forward /\ ~ rule_added
              /\ opts.nat => "nat" \in own \/ "own_nat" \in todo
              /\ "read_forward" \in todo => forward = before.forward /\ "enable_forward" \in todo
              /\ opts.nat /\ "read_forward" \notin todo => prev_forward = before.forward
              /\ todo \cap {"check_rule", "add_rule"} # {} => ~ rule_added
        /\ phase = "stopping" =>
              /\ masquerade = before.masquerade + IF "delete_rule" \in todo THEN 1 ELSE 0
              /\ "reset_forward" \in todo \/ forward = before.forward
              /\ "reset_forward" \in todo => prev_forward = before.forward

Inv ==
    Types /\ Stages /\ InForce /\ Open /\ Gone /\ Routes /\ Backup /\ Original
    /\ NatInForce /\ NatExact

-----------------------------------------------------------------------------
(* The order of the commands, and where they belong. *)

LEMMA RankValues ==
    /\ Rank["show_default"] = 1 /\ Rank["replace_host"] = 2 /\ Rank["own_host"] = 3
    /\ Rank["replace_low"] = 4 /\ Rank["replace_high"] = 5
    /\ Rank["replace_v6low"] = 6 /\ Rank["replace_v6high"] = 7 /\ Rank["own_ipv6"] = 8
    /\ Rank["save"] = 9 /\ Rank["copy"] = 10 /\ Rank["truncate"] = 11 /\ Rank["write"] = 12
    /\ Rank["own_dns"] = 13
    /\ Rank["new_chain"] = 14 /\ Rank["flush"] = 15 /\ Rank["allow_lo"] = 16
    /\ Rank["allow_tun"] = 17 /\ Rank["allow_server"] = 18 /\ Rank["allow_established"] = 19
    /\ Rank["reject"] = 20 /\ Rank["check_jump"] = 21 /\ Rank["insert_jump"] = 22
    /\ Rank["own_ks"] = 23
    /\ Rank["delete_jump"] = 24 /\ Rank["flush_all"] = 25 /\ Rank["delete_chain"] = 26
    /\ Rank["restore"] = 29 /\ Rank["write_back"] = 30 /\ Rank["remove"] = 31
    /\ Rank["read_forward"] = 35 /\ Rank["enable_forward"] = 36 /\ Rank["show_egress"] = 37
    /\ Rank["check_rule"] = 38 /\ Rank["add_rule"] = 39 /\ Rank["own_nat"] = 40
    /\ Rank["delete_rule"] = 41 /\ Rank["reset_forward"] = 42
  BY DEF Rank

LEMMA FirewallOrder ==
    ASSUME NEW c, Doing(c)
    PROVE  /\ c \in DOMAIN Appends \cup {"check_jump", "insert_jump", "own_ks"} =>
                 todo \cap {"new_chain", "flush"} = {}
           /\ c \in {"reject", "check_jump", "insert_jump", "own_ks"} =>
                 todo \cap {"allow_lo", "allow_tun", "allow_server", "allow_established"} = {}
           /\ c \in {"check_jump", "insert_jump", "own_ks"} => "reject" \notin todo
           /\ c \in {"insert_jump", "own_ks"} => "check_jump" \notin todo
           /\ c = "own_ks" => "insert_jump" \notin todo
           /\ c = "flush" => "new_chain" \notin todo
           /\ c \in {"flush_all", "delete_chain"} => "delete_jump" \notin todo
           /\ c = "delete_chain" => "flush_all" \notin todo
           /\ c \in KillSwitchInstall => todo \cap SplitRoutes = {}
  BY RankValues DEF Doing, Appends, KillSwitchInstall, SplitRoutes

\* What an operation has to run tells its phase and the configuration.
LEMMA AgendaTells ==
    ASSUME Types, Stages, NEW c \in todo
    PROVE  /\ phase \in {"starting", "switching", "stopping", "failing"}
           /\ c \in HostRoute => phase = "starting" /\ opts.role = "client" /\ opts.v4
           /\ c \in SplitRoutes =>
                 opts.role = "client" /\ (phase = "starting" \/ (phase = "switching" /\ enabled))
           /\ c \in Ipv6Enable =>
                 phase = "starting" /\ opts.role = "client" /\ opts.v4 /\ opts.disable_ipv6
           /\ c \in DnsInstall =>
                 phase = "starting" /\ opts.role = "client" /\ opts.v4 /\ opts.dns
           /\ c \in KillSwitchInstall =>
                 /\ opts.role = "client" /\ opts.v4 /\ WantKillSwitch
                 /\ phase = "starting" \/ (phase = "switching" /\ enabled)
           /\ c \in KillSwitchDrop =>
                 /\ opts.role = "client"
                 /\ phase \in {"stopping", "failing"} \/ (phase = "switching" /\ ~ enabled)
           /\ c \in Ipv6Drop \cup DnsDrop \cup {"del_host"} =>
                 opts.role = "client" /\ phase \in {"stopping", "failing"}
           /\ c \in NatSetup => phase = "starting" /\ opts.role = "server" /\ opts.nat
           /\ c \in {"delete_rule", "reset_forward"} =>
                 opts.role = "server" /\ phase \in {"stopping", "failing"}
  <1> USE DEF Types, Stages, Agenda, ClientOptions, ServerOptions
  <1>1. phase \in {"starting", "switching", "stopping", "failing"}
    BY DEF Down
  <1>2. CASE phase = "starting" /\ opts.role = "client"
    <2>1. /\ opts.v4
          /\ \/ c \in HostRoute \cup SplitRoutes
             \/ opts.disable_ipv6 /\ c \in Ipv6Enable
             \/ opts.dns /\ c \in DnsInstall
             \/ WantKillSwitch /\ c \in KillSwitchInstall
      BY <1>2 DEF Install, When
    <2> HIDE DEF Types, Stages, Agenda
    <2> QED
      BY <1>1, <1>2, <2>1 DEF HostRoute, SplitRoutes, Ipv6Enable, DnsInstall,
         KillSwitchInstall, KillSwitchDrop, Ipv6Drop, DnsDrop, NatSetup
  <1>3. CASE phase = "starting" /\ opts.role # "client"
    <2>1. c \in NatSetup /\ opts.nat /\ opts.role = "server"
      BY <1>3 DEF When
    <2> QED
      BY <1>3, <2>1 DEF HostRoute, SplitRoutes, Ipv6Enable, DnsInstall,
         KillSwitchInstall, KillSwitchDrop, Ipv6Drop, DnsDrop, NatSetup
  <1>4. CASE phase = "switching"
    <2>1. c \in IF enabled THEN SplitRoutes \cup When(WantKillSwitch /\ opts.v4, KillSwitchInstall)
                ELSE KillSwitchDrop \cup DelSplitRoutes
      BY <1>4
    <2> QED
      BY <1>4, <2>1 DEF When, HostRoute, SplitRoutes, Ipv6Enable, DnsInstall, DelSplitRoutes,
         KillSwitchInstall, KillSwitchDrop, Ipv6Drop, DnsDrop, NatSetup
  <1>5. CASE phase \in {"stopping", "failing"}
    <2>1. c \in IF opts.role = "client"
                THEN KillSwitchDrop \cup Ipv6Drop \cup DnsDrop \cup DelSplitRoutes \cup {"del_host"}
                ELSE {"delete_rule", "reset_forward"}
      BY <1>5
    <2>2. opts.role \in {"client", "server"}
      OBVIOUS
    <2> HIDE DEF Types, Stages, Agenda
    <2> QED
      BY <1>5, <2>1, <2>2 DEF When, HostRoute, SplitRoutes, Ipv6Enable, DnsInstall, DelSplitRoutes,
         KillSwitchInstall, KillSwitchDrop, Ipv6Drop, DnsDrop, NatSetup
  <1> QED
    BY <1>1, <1>2, <1>3, <1>4, <1>5

-----------------------------------------------------------------------------
(* The four kinds of commands, and what they leave alone. *)

RouteCommands == DOMAIN Replaces \cup DOMAIN Dels
FileCommands == (DnsInstall \cup DnsDrop) \ {"own_dns"}
NatCommands == (NatSetup \cup {"delete_rule", "reset_forward"}) \ {"own_nat", "show_egress"}

RouteStep == \E c \in todo : Replace(c) \/ Del(c)
FirewallStep ==
    \/ \E c \in todo : Flush(c) \/ AppendRule(c)
    \/ NewChain \/ DeleteChain \/ CheckJump \/ InsertJump \/ DeleteJump
FileStep == Save \/ Copy \/ Truncate \/ Write \/ Restore \/ WriteBack \/ Remove

\* Of the commands yet to be run only some of these are over.
OnlyOf(commands) ==
    /\ todo' \subseteq todo
    /\ \A d \in todo : d \in commands \/ d \in todo'
    /\ UNCHANGED <<phase, enabled, fixed>>

LEMMA NextCases ==
    ASSUME Next
    PROVE  \/ RouteStep \/ FirewallStep \/ FileStep \/ ServerCommand
           \/ \E c \in todo : ShowDefault(c) \/ TakeOwnership(c) \/ CommandFails(c)
           \/ Start \/ SwitchOff \/ SwitchOn \/ Stop \/ Settle \/ Crash
  BY DEF Next, ClientCommand, RouteStep, FirewallStep, FileStep

LEMMA RouteFrame ==
    ASSUME RouteStep
    PROVE  OnlyOf(RouteCommands) /\ UNCHANGED <<firewall, files, nat, memory, faults>>
  BY DEF RouteStep, Replace, Del, Done, Over, OnlyOf, RouteCommands

LEMMA FirewallFrame ==
    ASSUME FirewallStep
    PROVE  OnlyOf(Firewall \ {"own_ks"}) /\ UNCHANGED <<kernel, files, nat, memory>>
  <1> USE DEF Done, Over, OnlyOf, Firewall, KillSwitchInstall, KillSwitchDrop
  <1>1. ASSUME NEW c \in todo, Flush(c) \/ AppendRule(c)
        PROVE  OnlyOf(Firewall \ {"own_ks"}) /\ UNCHANGED <<kernel, files, nat, memory>>
    BY <1>1 DEF Flush, AppendRule, Appends
  <1>2. ASSUME NewChain \/ DeleteChain \/ InsertJump \/ DeleteJump
        PROVE  OnlyOf(Firewall \ {"own_ks"}) /\ UNCHANGED <<kernel, files, nat, memory>>
    BY <1>2 DEF NewChain, DeleteChain, InsertJump, DeleteJump
  <1>3. ASSUME CheckJump
        PROVE  OnlyOf(Firewall \ {"own_ks"}) /\ UNCHANGED <<kernel, files, nat, memory>>
    BY <1>3 DEF CheckJump, Check, host
  <1> QED
    BY <1>1, <1>2, <1>3 DEF FirewallStep

LEMMA FileFrame ==
    ASSUME FileStep
    PROVE  OnlyOf(FileCommands) /\ UNCHANGED <<kernel, firewall, nat, memory, faults>>
  BY DEF FileStep, Save, Copy, Truncate, Write, Restore, WriteBack, Remove, Done, Over, OnlyOf,
     FileCommands, DnsInstall, DnsDrop

LEMMA NatFrame ==
    ASSUME ServerCommand
    PROVE  OnlyOf(NatCommands) /\ UNCHANGED <<kernel, firewall, files, own>>
  BY DEF ServerCommand, ReadForward, EnableForward, ResetForward, CheckRule, Check, AddRule,
     DeleteRule, Done, Over, OnlyOf, NatCommands, NatSetup, host, memory

\* A command that fails and is not needed takes only its own block with it.
LEMMA FailFrame ==
    ASSUME NEW c \in todo, CommandFails(c), c \notin Must
    PROVE  /\ Doing(c) /\ todo' = todo \ Skipped(c)
           /\ UNCHANGED <<host, memory, phase, enabled, fixed>>
           /\ IF Futile(c) THEN faults' = faults ELSE Fault
  BY DEF CommandFails

LEMMA SkippedBlocks ==
    ASSUME NEW c
    PROVE  /\ c \in Ipv6Enable => Skipped(c) = Ipv6Enable
           /\ c \in DnsInstall => Skipped(c) = DnsInstall
           /\ c \in KillSwitchInstall \ Optional => Skipped(c) = KillSwitchInstall
           /\ c = "restore" => Skipped(c) = {"restore", "write_back"}
           /\ c \notin Ipv6Enable \cup DnsInstall \cup (KillSwitchInstall \ Optional) \cup {"restore"}
                 => Skipped(c) = {c}
  BY DEF Skipped, Ipv6Enable, DnsInstall, KillSwitchInstall, Optional

\* A rule at the end of the chain.
LEMMA Appended ==
    ASSUME NEW s \in Seq(RuleNames), NEW r \in RuleNames
    PROVE  /\ Append(s, r) \in Seq(RuleNames)
           /\ DOMAIN s = 1 .. Len(s) /\ Len(s) \in Nat
           /\ DOMAIN Append(s, r) = 1 .. Len(s) + 1
           /\ \A i \in 1 .. Len(s) : Append(s, r)[i] = s[i]
           /\ Append(s, r)[Len(s) + 1] = r
  OBVIOUS

-----------------------------------------------------------------------------
(* Types, and the stages of the operations. *)

LEMMA TypesStep ==
    ASSUME Types, Stages, Next
    PROVE  Types'
  <1> USE DEF Types, OnlyOf, firewall, files, nat, memory, fixed, host
  <1>1. CASE RouteStep
    <2>1. ASSUME NEW c \in todo, Replace(c) \/ Del(c)
          PROVE  kernel' \subseteq Split \cup {"host", "v6low", "v6high"}
      <3>1. c \in DOMAIN Replaces => Replaces[c] \in Split \cup {"host", "v6low", "v6high"}
        BY DEF Replaces, Split
      <3>2. kernel' \subseteq kernel \/ (c \in DOMAIN Replaces /\ kernel' = kernel \cup {Replaces[c]})
        BY <2>1 DEF Replace, Del
      <3> QED
        BY <3>1, <3>2
    <2> QED
      BY <1>1, <2>1, RouteFrame DEF RouteStep
  <1>2. CASE FileStep
    BY <1>2, FileFrame
  <1>3. CASE ServerCommand
    <2>1. masquerade' \in Nat /\ faults' \in Nat
      BY <1>3 DEF ServerCommand, ReadForward, EnableForward, ResetForward, CheckRule, Check, AddRule,
         DeleteRule, Done, Over, Fault
    <2>2. rule_added' = rule_added \/ rule_added' = TRUE
      BY <1>3 DEF ServerCommand, ReadForward, EnableForward, ResetForward, CheckRule, Check, AddRule,
         DeleteRule
    <2>3. rule_added' \in BOOLEAN
      BY <2>2
    <2> QED
      BY <1>3, <2>1, <2>3, NatFrame
  <1>4. CASE FirewallStep
    <2>1. ASSUME NEW c \in todo, Flush(c)
          PROVE  chain' \in BOOLEAN /\ rules' \in Seq(RuleNames) /\ jumps' \in Nat /\ faults' \in Nat
      BY <2>1 DEF Flush, Done
    <2>2. ASSUME NEW c \in todo, AppendRule(c)
          PROVE  chain' \in BOOLEAN /\ rules' \in Seq(RuleNames) /\ jumps' \in Nat /\ faults' \in Nat
      <3>1. Appends[c] \in RuleNames
        BY <2>2 DEF AppendRule, Appends, RuleNames, Allow
      <3> QED
        BY <2>2, <3>1, Appended DEF AppendRule, Done
    <2>3. ASSUME NewChain \/ DeleteChain \/ CheckJump \/ InsertJump \/ DeleteJump
          PROVE  chain' \in BOOLEAN /\ rules' \in Seq(RuleNames) /\ jumps' \in Nat /\ faults' \in Nat
      <3>1. chain' \in {chain, TRUE, FALSE}
        BY <2>3 DEF NewChain, DeleteChain, CheckJump, Check, InsertJump, DeleteJump
      <3>2. rules' = rules /\ jumps' \in Nat /\ faults' \in Nat
        BY <2>3 DEF NewChain, DeleteChain, CheckJump, Check, InsertJump, DeleteJump, Done, Fault
      <3> QED
        BY <3>1, <3>2
    <2>4. chain' \in BOOLEAN /\ rules' \in Seq(RuleNames) /\ jumps' \in Nat /\ faults' \in Nat
      BY <1>4, <2>1, <2>2, <2>3 DEF FirewallStep
    <2> QED
      BY <1>4, <2>4, FirewallFrame
  <1>5. ASSUME NEW c \in todo, ShowDefault(c) \/ TakeOwnership(c)
        PROVE  Types'
    BY <1>5 DEF ShowDefault, TakeOwnership, Done, Over
  <1>6. ASSUME NEW c \in todo, CommandFails(c)
        PROVE  Types'
    <2>1. UNCHANGED <<host, enabled, fixed>> /\ faults' \in Nat
      BY <1>6 DEF CommandFails, Fault
    <2>2. phase' \in {phase, "failing"} /\ rule_added' \in {rule_added, FALSE}
      BY <1>6 DEF CommandFails, Return
    <2> QED
      BY <2>1, <2>2
  <1>7. CASE Start \/ SwitchOff \/ SwitchOn \/ Stop
    BY <1>7 DEF Start, SwitchOff, SwitchOn, Stop, Begin
  <1>8. CASE Settle
    <2>1. phase' \in Down \cup {"up"}
      BY <1>8 DEF Settle, NextPhase, Down
    <2>2. kernel' \subseteq kernel /\ rule_added' \in {rule_added, FALSE}
      BY <1>8 DEF Settle
    <2> QED
      BY <1>8, <2>1, <2>2 DEF Settle
  <1>9. CASE Crash
    <2>1. torn' \in BOOLEAN /\ rule_added' \in BOOLEAN
      BY <1>9 DEF Crash
    <2>2. crashes' \in Nat /\ phase' \in Down /\ kernel' \subseteq kernel
      BY <1>9 DEF Crash, Down
    <2>3. UNCHANGED <<firewall, files, nat, enabled, opts, before, faults>>
      BY <1>9 DEF Crash
    <2> QED
      BY <2>1, <2>2, <2>3
  <1> QED
    BY <1>1, <1>2, <1>3, <1>4, <1>5, <1>6, <1>7, <1>8, <1>9, NextCases

LEMMA StagesStep ==
    ASSUME Types, Stages, Next
    PROVE  Stages'
  <1> USE DEF OnlyOf, firewall, files, nat, memory, fixed, host
  <1>1. ASSUME UNCHANGED <<own, phase, enabled, opts>>, todo' \subseteq todo, faults' >= faults,
               phase \in Down => UNCHANGED <<prev_forward, rule_added>>,
               phase \in Down => kernel' \cap Split = {}
        PROVE  Stages'
    <2>1. Agenda' = Agenda
      BY <1>1 DEF Agenda, Install, When, WantKillSwitch
    <2>2. phase \in {"failing", "failed"} => faults' > 0
      BY <1>1, TypesStep DEF Stages, Types
    <2> QED
      BY <1>1, <2>1, <2>2 DEF Stages
  <1>2. ASSUME NEW c \in todo
        PROVE  phase \notin Down
    BY <1>2, AgendaTells DEF Down
  <1>3. CASE RouteStep
    BY <1>1, <1>2, <1>3, RouteFrame DEF RouteStep, Types
  <1>4. CASE FileStep
    BY <1>1, <1>4, FileFrame DEF Types, Stages
  <1>5. CASE ServerCommand
    <2>1. faults' >= faults /\ todo # {}
      BY <1>5 DEF ServerCommand, ReadForward, EnableForward, ResetForward, CheckRule, Check, AddRule,
         DeleteRule, Done, Doing, Over, Fault, Types
    <2> QED
      BY <1>1, <1>2, <1>5, <2>1, NatFrame DEF Stages
  <1>6. CASE FirewallStep
    <2>1. faults' >= faults
      BY <1>6 DEF FirewallStep, NewChain, Flush, AppendRule, DeleteChain, CheckJump, Check, InsertJump,
         DeleteJump, Done, Over, Fault, Types
    <2> QED
      BY <1>1, <1>6, <2>1, FirewallFrame DEF Stages
  <1>7. ASSUME NEW c \in todo, ShowDefault(c)
        PROVE  Stages'
    BY <1>1, <1>2, <1>7 DEF ShowDefault, Done, Over, Types
  <1>8. ASSUME NEW c \in todo, TakeOwnership(c)
        PROVE  Stages'
    <2>1. /\ todo' = todo \ {c} /\ own' = own \cup {Owns[c]} /\ c \in DOMAIN Owns
          /\ UNCHANGED <<phase, enabled, opts, kernel, faults, prev_forward, rule_added>>
      BY <1>8 DEF TakeOwnership, Done, Over
    <2>2. Agenda' = Agenda
      BY <2>1 DEF Agenda, Install, When, WantKillSwitch
    <2>3. phase \in {"starting", "switching"}
      BY <2>1, AgendaTells DEF Owns, HostRoute, Ipv6Enable, DnsInstall, KillSwitchInstall, NatSetup
    <2>4. /\ Owns[c] \in IF opts.role = "client" THEN {"host", "ipv6", "dns", "ks"} ELSE {"nat"}
          /\ opts.role = "client" => opts.v4
          /\ Owns[c] = "ipv6" => opts.disable_ipv6
          /\ Owns[c] = "dns" => opts.dns
          /\ Owns[c] = "nat" => opts.nat
      BY <2>1, AgendaTells DEF Owns, HostRoute, Ipv6Enable, DnsInstall, KillSwitchInstall, NatSetup
    <2> QED
      BY <2>1, <2>2, <2>3, <2>4 DEF Stages, Down
  <1>9. ASSUME NEW c \in todo, CommandFails(c)
        PROVE  Stages'
    <2>1. CASE c \in Must
      <3>1. Return /\ UNCHANGED <<host, enabled, opts>>
        BY <1>9, <2>1 DEF CommandFails
      <3>2. faults' > 0
        <4>1. ~ Futile(c)
          BY <2>1 DEF Futile, Must, HostRoute, SplitRoutes, Dels, Appends
        <4> QED
          BY <1>9, <4>1 DEF CommandFails, Fault, Types
      <3>3. CASE phase' = "failing"
        <4>1. own' = {} /\ todo' = Drop
          BY <3>1, <3>3 DEF Return
        <4>2. todo' \subseteq Agenda'
          BY <3>1, <3>3, <4>1 DEF Drop, teardown_all, NatDrop, When, Agenda
        <4> QED
          BY <3>1, <3>2, <3>3, <4>1, <4>2 DEF Stages, Down
      <3>4. CASE phase' # "failing"
        <4>1. todo' = {} /\ UNCHANGED <<phase, memory>>
          BY <3>1, <3>4 DEF Return
        <4> QED
          BY <1>2, <3>1, <3>2, <4>1 DEF Stages
      <3> QED
        BY <3>3, <3>4
    <2>2. CASE c \notin Must
      BY <1>1, <1>2, <1>9, <2>2, FailFrame DEF Fault, Types
    <2> QED
      BY <2>1, <2>2
  <1>10. CASE Start
    <2>1. /\ phase' = "starting" /\ UNCHANGED <<opts, own, faults>> /\ own = {}
          /\ todo' = IF opts.role = "client" THEN Install ELSE When(opts.nat, NatSetup)
      BY <1>10 DEF Start, Begin, Stages, Down
    <2>2. todo' \subseteq Agenda'
      BY <2>1 DEF Agenda, Install, When, WantKillSwitch
    <2> QED
      BY <2>1, <2>2 DEF Stages, Down
  <1>11. CASE SwitchOff
    <2>1. /\ phase' = "switching" /\ UNCHANGED <<opts, faults>> /\ own' \subseteq own
          /\ todo' = teardown /\ ~ enabled' /\ opts.role = "client"
      BY <1>11 DEF SwitchOff, Begin
    <2>2. todo' \subseteq Agenda'
      BY <2>1 DEF Agenda, teardown, When
    <2> QED
      BY <2>1, <2>2 DEF Stages, Down
  <1>12. CASE SwitchOn
    <2>1. /\ phase' = "switching" /\ UNCHANGED <<opts, own, faults>>
          /\ todo' = reenable_with_ks /\ enabled' /\ opts.role = "client"
      BY <1>12 DEF SwitchOn, Begin
    <2>2. "host" \in own => opts.v4
      BY <2>1 DEF Stages
    <2>3. todo' \subseteq Agenda'
      BY <2>1, <2>2 DEF Agenda, reenable_with_ks, When, WantKillSwitch
    <2> QED
      BY <2>1, <2>3 DEF Stages, Down
  <1>13. CASE Stop
    <2>1. phase' = "stopping" /\ UNCHANGED <<opts, faults>> /\ own' = {} /\ todo' = Drop
      BY <1>13 DEF Stop, Begin
    <2>2. todo' \subseteq Agenda'
      BY <2>1 DEF Drop, teardown_all, NatDrop, When, Agenda
    <2> QED
      BY <2>1, <2>2 DEF Stages, Down
  <1>14. CASE Settle
    <2>1. todo' = {} /\ UNCHANGED <<opts, enabled, faults>>
      BY <1>14 DEF Settle
    <2>2. CASE phase' = "up"
      BY <1>14, <2>1, <2>2 DEF Settle, Stages, Down
    <2>3. CASE phase' # "up"
      <3>1. /\ phase' \in Down /\ own' = {} /\ prev_forward' = "unread" /\ ~ rule_added'
            /\ kernel' = kernel \ Split
        BY <1>14, <2>3 DEF Settle, NextPhase, Down, Types
      <3>2. phase' = "failed" => phase = "failing"
        <4>1. \A p \in DOMAIN NextPhase : NextPhase[p] = "failed" => p = "failing"
          BY DEF NextPhase
        <4> QED
          BY <1>14, <4>1 DEF Settle
      <3> QED
        BY <2>1, <3>1, <3>2 DEF Stages, Down
    <2> QED
      BY <2>2, <2>3
  <1>15. CASE Crash
    <2>1. /\ todo' = {} /\ phase' = "crashed" /\ own' = {} /\ prev_forward' = "unread" /\ ~ rule_added'
          /\ kernel' = kernel \ Split
      BY <1>15 DEF Crash
    <2> QED
      BY <2>1 DEF Stages, Down
  <1> QED
    BY <1>3, <1>4, <1>5, <1>6, <1>7, <1>8, <1>9, <1>10, <1>11, <1>12, <1>13, <1>14, <1>15, NextCases

-----------------------------------------------------------------------------
(* The kill switch is in force. *)

LEMMA InForceKept ==
    ASSUME InForce, UNCHANGED <<rules, jumps, opts>>, own' \subseteq own,
           \/ \A d \in Firewall : d \in todo' <=> d \in todo
           \/ todo' \cap Firewall = {}
           \/ todo' \cap KillSwitchInstall = {} /\ "ks" \notin own'
           \/ KillSwitchInstall \subseteq todo' /\ "ks" \notin own'
    PROVE  InForce'
  <1>1. KillSwitchInForce'
    BY DEF InForce, KillSwitchInForce, Blocked
  <1>2. \A r : Has(r)' <=> Has(r)
    BY DEF Has
  <1> QED
    BY <1>1, <1>2 DEF InForce, Firewall, KillSwitchInstall, KillSwitchDrop, WantKillSwitch

LEMMA InForceAppend ==
    ASSUME Types, Stages, InForce, NEW c \in todo, AppendRule(c)
    PROVE  InForce'
  <1> DEFINE r == Appends[c]
  <1>1. Doing(c) /\ todo' = todo \ {c} /\ rules' = Append(rules, r)
        /\ UNCHANGED <<jumps, own, opts>> /\ c \in DOMAIN Appends
    BY DEF AppendRule, Done, Over, fixed, memory
  <1>2. c \in KillSwitchInstall /\ r \in RuleNames /\ c \in Firewall
    BY <1>1 DEF Appends, KillSwitchInstall, RuleNames, Allow, Firewall
  <1>3. "ks" \notin own
    BY <1>2 DEF InForce
  <1>4. \A x : Has(x)' <=> Has(x) \/ x = r
    BY <1>1, <1>2, Appended DEF Has, Types
  <1>5. r = "reject" => Has("lo") /\ Has("tun") /\ Has("server")
    BY <1>1, <1>2, FirewallOrder DEF InForce, Appends
  <1>6. KillSwitchInForce'
    <2> SUFFICES ASSUME NEW i \in DOMAIN rules', rules'[i] = "reject"
                 PROVE  Allow \subseteq {rules'[j] : j \in 1 .. i - 1}
      BY <1>1, <1>3 DEF KillSwitchInForce
    <2>1. CASE i \in DOMAIN rules
      BY <2>1, <1>1, <1>2, Appended DEF InForce, KillSwitchInForce, Types
    <2>2. CASE i = Len(rules) + 1
      BY <2>2, <1>1, <1>2, <1>5, Appended DEF Has, Types, Allow
    <2> QED
      BY <2>1, <2>2, <1>1, <1>2, Appended DEF Types
  <1>7. todo \cap {"flush"} = {}
    BY <1>1, FirewallOrder
  <1>8. /\ c = "allow_lo" => r = "lo"
        /\ c = "allow_tun" => r = "tun"
        /\ c = "allow_server" => r = "server"
        /\ c = "reject" => r = "reject"
    BY DEF Appends
  <1>9. c \notin {"check_jump", "insert_jump", "own_ks"}
    BY <1>1 DEF Appends
  <1> HIDE DEF r
  <1> QED
    BY <1>1, <1>3, <1>4, <1>6, <1>7, <1>8, <1>9 DEF InForce

LEMMA InForceStep ==
    ASSUME Types, Stages, InForce, Next
    PROVE  InForce'
  <1> USE DEF OnlyOf, firewall, memory, fixed
  <1>1. CASE RouteStep
    <2>1. RouteCommands \cap Firewall = {}
      BY DEF RouteCommands, Replaces, Dels, Firewall, KillSwitchInstall, KillSwitchDrop
    <2> QED
      BY <1>1, <2>1, RouteFrame, InForceKept
  <1>2. CASE FileStep
    <2>1. FileCommands \cap Firewall = {}
      BY DEF FileCommands, DnsInstall, DnsDrop, Firewall, KillSwitchInstall, KillSwitchDrop
    <2> QED
      BY <1>2, <2>1, FileFrame, InForceKept
  <1>3. CASE ServerCommand
    <2>1. NatCommands \cap Firewall = {}
      BY DEF NatCommands, NatSetup, Firewall, KillSwitchInstall, KillSwitchDrop
    <2> QED
      BY <1>3, <2>1, NatFrame, InForceKept
  <1>4. CASE FirewallStep
    <2>1. CASE NewChain
      <3>1. todo' = todo \ {"new_chain"} /\ UNCHANGED <<rules, jumps, opts, own>>
        BY <2>1 DEF NewChain, Done, Over
      <3>2. "new_chain" \in Firewall /\ "new_chain" \in todo
        BY <2>1 DEF Firewall, KillSwitchInstall, NewChain, Done, Doing
      <3> QED
        BY <3>1, <3>2 DEF InForce, KillSwitchInForce, Blocked, Has, WantKillSwitch
    <2>2. ASSUME NEW c \in todo, Flush(c)
          PROVE  InForce'
      <3>1. /\ todo' = todo \ {c} /\ rules' = <<>> /\ UNCHANGED <<jumps, opts, own>>
            /\ c \in {"flush", "flush_all"} /\ Doing(c)
        BY <2>2 DEF Flush, Done, Over
      <3>2. "ks" \notin own
        BY <3>1 DEF InForce, Firewall, KillSwitchInstall, KillSwitchDrop
      <3>3. KillSwitchInForce'
        BY <3>1, <3>2 DEF KillSwitchInForce
      <3>4. CASE c = "flush"
        <4>1. "allow_lo" \in todo' /\ "allow_tun" \in todo' /\ "allow_server" \in todo'
              /\ "reject" \in todo'
          BY <3>1, <3>4 DEF InForce
        <4> QED
          BY <3>1, <3>2, <3>3, <3>4, <4>1 DEF InForce
      <3>5. CASE c = "flush_all"
        <4>1. "own_ks" \notin todo /\ "reject" \notin todo /\ "flush" \notin todo
          BY <3>5, AgendaTells DEF KillSwitchInstall, KillSwitchDrop
        <4> QED
          BY <3>1, <3>2, <3>3, <4>1 DEF InForce
      <3> QED
        BY <3>1, <3>4, <3>5
    <2>3. ASSUME NEW c \in todo, AppendRule(c)
          PROVE  InForce'
      BY <2>3, InForceAppend
    <2>4. CASE DeleteChain
      <3>1. todo' = todo \ {"delete_chain"} /\ UNCHANGED <<rules, jumps, opts, own>>
        BY <2>4 DEF DeleteChain, Done, Over
      <3> QED
        BY <3>1 DEF InForce, KillSwitchInForce, Blocked, Has, WantKillSwitch
    <2>5. CASE CheckJump
      <3>1. /\ Doing("check_jump") /\ UNCHANGED <<rules, jumps, opts, own>>
            /\ \/ jumps > 0 /\ todo' = todo \ {"check_jump", "insert_jump"}
               \/ todo' = todo \ {"check_jump"}
        BY <2>5 DEF CheckJump, Check, Over, host
      <3>2. "flush" \notin todo /\ "reject" \notin todo
        BY <3>1, FirewallOrder
      <3>3. "own_ks" \in todo' /\ todo' # todo \ {"check_jump", "insert_jump"} =>
               "insert_jump" \in todo'
        BY <3>1 DEF InForce, Doing
      <3> QED
        BY <3>1, <3>2, <3>3 DEF InForce, KillSwitchInForce, Blocked, Has, WantKillSwitch
    <2>6. CASE InsertJump
      <3>1. /\ todo' = todo \ {"insert_jump"} /\ UNCHANGED <<rules, opts, own>>
            /\ jumps' = jumps + 1 /\ Doing("insert_jump")
        BY <2>6 DEF InsertJump, Done, Over
      <3>2. jumps' > 0 /\ "check_jump" \notin todo
        BY <3>1, FirewallOrder DEF Types
      <3> QED
        BY <3>1, <3>2 DEF InForce, KillSwitchInForce, Blocked, Has, WantKillSwitch
    <2>7. CASE DeleteJump
      <3>1. /\ todo' = todo \ {"delete_jump"} /\ UNCHANGED <<rules, opts, own>>
            /\ "delete_jump" \in todo
        BY <2>7 DEF DeleteJump, Done, Over, Doing
      <3>2. "ks" \notin own /\ "own_ks" \notin todo
        BY <3>1, AgendaTells DEF InForce, Firewall, KillSwitchInstall, KillSwitchDrop
      <3> QED
        BY <3>1, <3>2 DEF InForce, KillSwitchInForce, Has
    <2> QED
      BY <1>4, <2>1, <2>2, <2>3, <2>4, <2>5, <2>6, <2>7 DEF FirewallStep
  <1>5. ASSUME NEW c \in todo, ShowDefault(c)
        PROVE  InForce'
    <2>1. todo' = todo \ {c} /\ c \notin Firewall /\ UNCHANGED <<rules, jumps, opts, own>>
      BY <1>5 DEF ShowDefault, Done, Over, host, Firewall, KillSwitchInstall, KillSwitchDrop
    <2> QED
      BY <2>1, InForceKept
  <1>6. ASSUME NEW c \in todo, TakeOwnership(c)
        PROVE  InForce'
    <2>1. /\ todo' = todo \ {c} /\ UNCHANGED <<rules, jumps, opts>> /\ own' = own \cup {Owns[c]}
          /\ c \in DOMAIN Owns /\ Doing(c)
      BY <1>6 DEF TakeOwnership, Done, Over, host
    <2>2. CASE c = "own_ks"
      <3>1. todo \cap Firewall = {"own_ks"}
        <4>1. todo \cap KillSwitchInstall = {"own_ks"}
          BY <2>1, <2>2, FirewallOrder DEF KillSwitchInstall
        <4>2. todo \cap KillSwitchDrop = {}
          BY <2>2, AgendaTells DEF KillSwitchInstall
        <4> QED
          BY <4>1, <4>2 DEF Firewall
      <3>2. Blocked
        BY <2>2, <3>1 DEF InForce, Blocked, Has, Firewall, KillSwitchInstall
      <3>3. WantKillSwitch
        BY <2>2, AgendaTells DEF KillSwitchInstall
      <3> QED
        BY <2>1, <2>2, <3>1, <3>2, <3>3
        DEF InForce, KillSwitchInForce, Blocked, WantKillSwitch, Firewall, KillSwitchInstall
    <2>3. CASE c # "own_ks"
      <3>1. Owns[c] # "ks" /\ c \notin Firewall
        BY <2>1, <2>3 DEF Owns, Firewall, KillSwitchInstall, KillSwitchDrop
      <3>2. "ks" \in own' => "ks" \in own
        BY <2>1, <3>1
      <3>3. \A d \in Firewall : d \in todo' <=> d \in todo
        BY <2>1, <3>1
      <3> QED
        BY <2>1, <3>2, <3>3 DEF InForce, KillSwitchInForce, Blocked, Has, WantKillSwitch,
           Firewall, KillSwitchInstall
    <2> QED
      BY <2>2, <2>3
  <1>7. ASSUME NEW c \in todo, CommandFails(c)
        PROVE  InForce'
    <2>1. CASE c \in Must
      <3>1. Return /\ UNCHANGED <<rules, jumps, opts>>
        BY <1>7, <2>1 DEF CommandFails, host
      <3>2. CASE own' = {} /\ todo' = Drop
        <4>1. todo' \cap KillSwitchInstall = {}
          BY <3>2 DEF Drop, teardown_all, NatDrop, When, KillSwitchInstall, KillSwitchDrop,
             Ipv6Drop, DnsDrop, DelSplitRoutes
        <4> QED
          BY <3>1, <3>2, <4>1, InForceKept
      <3>3. CASE todo' = {} /\ UNCHANGED memory
        BY <3>1, <3>3, InForceKept
      <3> QED
        BY <3>1, <3>2, <3>3 DEF Return
    <2>2. CASE c \notin Must
      <3>1. Doing(c) /\ todo' = todo \ Skipped(c) /\ UNCHANGED <<rules, jumps, opts, own>>
        BY <1>7, <2>2, FailFrame DEF host
      <3>2. CASE c \in KillSwitchInstall \ Optional
        <4>1. todo' \cap KillSwitchInstall = {}
          BY <3>1, <3>2, SkippedBlocks
        <4>2. "ks" \notin own
          BY <3>2 DEF InForce, Firewall
        <4> QED
          BY <3>1, <4>1, <4>2, InForceKept
      <3>3. CASE c \in Optional
        <4>1. Skipped(c) = {c} /\ c \notin {"own_ks", "reject", "allow_lo", "allow_tun", "allow_server",
                                          "check_jump", "insert_jump"}
          BY <3>3, SkippedBlocks DEF Optional, Ipv6Enable, DnsInstall, KillSwitchInstall
        <4> QED
          BY <3>1, <4>1 DEF InForce, KillSwitchInForce, Blocked, Has, WantKillSwitch
      <3>4. CASE c \in KillSwitchDrop
        <4>1. Skipped(c) = {c}
          BY <3>4, SkippedBlocks DEF KillSwitchDrop, Ipv6Enable, DnsInstall, KillSwitchInstall
        <4>2. todo' \cap KillSwitchInstall = {}
          BY <3>1, <3>4, AgendaTells
        <4>3. "ks" \notin own
          BY <3>4 DEF InForce, Firewall
        <4> QED
          BY <3>1, <4>2, <4>3, InForceKept
      <3>5. CASE c \notin Firewall
        <4>1. Skipped(c) \cap Firewall = {}
          BY <3>5, SkippedBlocks DEF Firewall, KillSwitchInstall, KillSwitchDrop, Ipv6Enable,
             DnsInstall
        <4> QED
          BY <3>1, <4>1, InForceKept
      <3> QED
        BY <3>2, <3>3, <3>4, <3>5 DEF Firewall
    <2> QED
      BY <2>1, <2>2
  <1>8. CASE Start
    <2>1. UNCHANGED <<rules, jumps, opts, own>> /\ own = {}
      BY <1>8 DEF Start, Begin, host, Stages, Down
    <2>2. todo' = IF opts.role = "client" THEN Install ELSE When(opts.nat, NatSetup)
      BY <1>8 DEF Start, Begin
    <2>3. todo' \cap KillSwitchInstall = {} \/ KillSwitchInstall \subseteq todo'
      BY <2>2 DEF Install, When, HostRoute, SplitRoutes, Ipv6Enable, DnsInstall, KillSwitchInstall,
         NatSetup
    <2> QED
      BY <2>1, <2>3, InForceKept
  <1>9. CASE SwitchOff
    <2>1. UNCHANGED <<rules, jumps, opts>> /\ own' = own \ {"ks"} /\ todo' = teardown
      BY <1>9 DEF SwitchOff, Begin, host
    <2>2. todo' \cap KillSwitchInstall = {}
      BY <2>1 DEF teardown, When, KillSwitchInstall, KillSwitchDrop, DelSplitRoutes
    <2> QED
      BY <2>1, <2>2, InForceKept
  <1>10. CASE SwitchOn
    <2>1. UNCHANGED <<rules, jumps, opts, own>> /\ todo' = reenable_with_ks
      BY <1>10 DEF SwitchOn, Begin, host
    <2>2. \/ todo' \cap Firewall = {}
          \/ KillSwitchInstall \subseteq todo' /\ "ks" \notin own
      BY <2>1 DEF reenable_with_ks, When, KillSwitchInstall, KillSwitchDrop, Firewall, SplitRoutes
    <2> QED
      BY <2>1, <2>2, InForceKept
  <1>11. CASE Stop
    <2>1. UNCHANGED <<rules, jumps, opts>> /\ own' = {} /\ todo' = Drop
      BY <1>11 DEF Stop, Begin, host
    <2>2. todo' \cap KillSwitchInstall = {}
      BY <2>1 DEF Drop, teardown_all, NatDrop, When, KillSwitchInstall, KillSwitchDrop,
         Ipv6Drop, DnsDrop, DelSplitRoutes
    <2> QED
      BY <2>1, <2>2, InForceKept
  <1>12. CASE Settle
    <2>1. UNCHANGED <<rules, jumps, opts, todo>> /\ own' \subseteq own
      BY <1>12 DEF Settle
    <2> QED
      BY <2>1, InForceKept
  <1>13. CASE Crash
    <2>1. UNCHANGED <<rules, jumps, opts>> /\ own' = {} /\ todo' = {}
      BY <1>13 DEF Crash
    <2> QED
      BY <2>1, InForceKept
  <1> QED
    BY <1>1, <1>2, <1>3, <1>4, <1>5, <1>6, <1>7, <1>8, <1>9, <1>10, <1>11, <1>12, <1>13, NextCases

-----------------------------------------------------------------------------
(* The way is open again. *)

LEMMA OpenKept ==
    ASSUME Types, Types', Open, Gone,
           UNCHANGED <<chain, rules, jumps, opts, phase, enabled>>,
           "ks" \in own' <=> "ks" \in own,
           todo' \subseteq todo, \A d \in Firewall : d \in todo' <=> d \in todo,
           faults' >= faults
    PROVE  Open' /\ Gone'
  <1>1. faults' = 0 => faults = 0
    BY DEF Types
  <1>2. faults' <= 1 => faults <= 1
    BY DEF Types
  <1>3. Blocked' <=> Blocked
    BY DEF Blocked
  <1>4. Has("reject")' <=> Has("reject")
    BY DEF Has
  <1>5. \A S \in SUBSET Firewall : todo' \cap S = todo \cap S
    OBVIOUS
  <1>6. /\ KillSwitchInstall \subseteq Firewall
        /\ KillSwitchInstall \cup {"delete_jump", "flush_all"} \subseteq Firewall
        /\ {"allow_lo", "allow_tun", "allow_server"} \subseteq Firewall
        /\ {"reject", "flush", "insert_jump", "check_jump", "delete_jump", "flush_all",
            "delete_chain", "own_ks", "new_chain"} \subseteq Firewall
    BY DEF Firewall, KillSwitchInstall, KillSwitchDrop
  <1>7. WantKillSwitch' <=> WantKillSwitch
    BY DEF WantKillSwitch
  <1>8. Open'
    BY <1>1, <1>2, <1>3, <1>4, <1>5, <1>6, <1>7 DEF Open
  <1>9. Gone'
    BY <1>1, <1>5, <1>6 DEF Gone
  <1> QED
    BY <1>8, <1>9

LEMMA OpenFirewall ==
    ASSUME Types, Stages, Open, Gone, FirewallStep
    PROVE  Open' /\ Gone'
  <1> USE DEF memory, fixed, WantKillSwitch, Firewall, KillSwitchInstall, KillSwitchDrop
  <1>1. UNCHANGED <<opts, own, phase, enabled>>
    BY FirewallFrame DEF OnlyOf
  <1>2. CASE NewChain
    <2>1. /\ Doing("new_chain") /\ todo' = todo \ {"new_chain"} /\ chain' = TRUE
          /\ UNCHANGED <<rules, jumps, faults>>
      BY <1>2 DEF NewChain, Done, Over
    <2>2. /\ "new_chain" \in todo /\ "own_ks" \in todo' /\ todo \cap SplitRoutes = {}
          /\ opts.role = "client" /\ opts.v4 /\ WantKillSwitch
          /\ "delete_chain" \notin todo
      BY <2>1, FirewallOrder, AgendaTells DEF Doing, Open
    <2>3. Has("reject")' <=> Has("reject")
      BY <2>1 DEF Has
    <2> QED
      BY <1>1, <2>1, <2>2, <2>3 DEF Open, Gone
  <1>3. ASSUME NEW c \in todo, Flush(c)
        PROVE  Open' /\ Gone'
    <2>1. /\ Doing(c) /\ todo' = todo \ {c} /\ rules' = <<>> /\ c \in {"flush", "flush_all"}
          /\ UNCHANGED <<chain, jumps, faults>> /\ chain
      BY <1>3 DEF Flush, Done, Over
    <2>2. ~ Blocked' /\ ~ Has("reject")'
      BY <2>1 DEF Blocked, Has
    <2>3. c = "flush" => "own_ks" \in todo'
      BY <2>1 DEF Open
    <2>4. c = "flush_all" => "delete_chain" \in todo' /\ "delete_jump" \notin todo
                             /\ todo \cap KillSwitchInstall = {}
      BY <2>1, FirewallOrder, AgendaTells DEF Open
    <2> QED
      BY <1>1, <2>1, <2>2, <2>3, <2>4 DEF Open, Gone
  <1>4. ASSUME NEW c \in todo, AppendRule(c)
        PROVE  Open' /\ Gone'
    <2>1. /\ Doing(c) /\ todo' = todo \ {c} /\ rules' = Append(rules, Appends[c])
          /\ c \in DOMAIN Appends /\ UNCHANGED <<chain, jumps, faults>> /\ chain
      BY <1>4 DEF AppendRule, Done, Over
    <2>2. /\ c \in KillSwitchInstall /\ c \notin {"own_ks", "new_chain", "flush", "check_jump", "insert_jump"}
          /\ Appends[c] \in RuleNames
          /\ c # "reject" => Appends[c] # "reject"
      BY <2>1 DEF Appends, RuleNames, Allow
    <2>3. /\ "own_ks" \in todo' /\ todo \cap SplitRoutes = {} /\ "delete_chain" \notin todo
          /\ "delete_jump" \notin todo /\ "flush_all" \notin todo
      BY <2>1, <2>2, FirewallOrder, AgendaTells DEF Open
    <2>4. c # "reject" => (Has("reject")' <=> Has("reject"))
      BY <2>1, <2>2, Appended DEF Has, Types
    <2>5. c = "reject" => todo' \cap {"allow_lo", "allow_tun", "allow_server"} = {}
      BY <2>1, FirewallOrder
    <2> QED
      BY <1>1, <2>1, <2>2, <2>3, <2>4, <2>5 DEF Open, Gone
  <1>5. CASE DeleteChain
    <2>1. /\ Doing("delete_chain") /\ todo' = todo \ {"delete_chain"} /\ chain' = FALSE
          /\ UNCHANGED <<rules, jumps, faults>> /\ rules = <<>> /\ jumps = 0
      BY <1>5 DEF DeleteChain, Done, Over
    <2>2. ~ Blocked' /\ ~ Has("reject")'
      BY <2>1 DEF Blocked, Has
    <2>3. "flush_all" \notin todo /\ todo \cap KillSwitchInstall = {} /\ "delete_jump" \notin todo
      BY <2>1, FirewallOrder, AgendaTells DEF Doing
    <2> QED
      BY <1>1, <2>1, <2>2, <2>3 DEF Open, Gone
  <1>6. CASE CheckJump
    <2>1. /\ Doing("check_jump") /\ UNCHANGED <<chain, rules, jumps>>
          /\ \/ todo' = todo \ {"check_jump", "insert_jump"} /\ faults' = faults
             \/ todo' = todo \ {"check_jump"} /\ (faults' = faults + 1 \/ (faults' = faults /\ ~ (jumps > 0)))
      BY <1>6 DEF CheckJump, Check, Over, Fault, host, firewall
    <2>2. /\ "own_ks" \in todo' /\ todo \cap SplitRoutes = {} /\ "delete_chain" \notin todo
          /\ "delete_jump" \notin todo /\ "flush_all" \notin todo /\ "reject" \notin todo
      BY <2>1, FirewallOrder, AgendaTells DEF Open, Doing
    <2>3. Has("reject")' <=> Has("reject")
      BY <2>1 DEF Has
    <2>4. faults' = 0 => faults = 0 /\ ("insert_jump" \in todo' => jumps = 0)
      BY <2>1 DEF Types
    <2> QED
      BY <1>1, <2>1, <2>2, <2>3, <2>4 DEF Open, Gone
  <1>7. CASE InsertJump
    <2>1. /\ Doing("insert_jump") /\ todo' = todo \ {"insert_jump"} /\ jumps' = jumps + 1
          /\ UNCHANGED <<chain, rules, faults>> /\ chain
      BY <1>7 DEF InsertJump, Done, Over
    <2>2. /\ "own_ks" \in todo' /\ todo \cap SplitRoutes = {} /\ "delete_chain" \notin todo
          /\ "delete_jump" \notin todo /\ "flush_all" \notin todo /\ "check_jump" \notin todo
          /\ opts.role = "client" /\ opts.v4 /\ WantKillSwitch
      BY <2>1, FirewallOrder, AgendaTells DEF Open, Doing
    <2>3. Has("reject")' <=> Has("reject")
      BY <2>1 DEF Has
    <2>4. faults = 0 => jumps' <= 1
      BY <2>1, <2>2 DEF Open, Types, Doing
    <2> QED
      BY <1>1, <2>1, <2>2, <2>3, <2>4 DEF Open, Gone
  <1>8. CASE DeleteJump
    <2>1. /\ Doing("delete_jump") /\ todo' = todo \ {"delete_jump"} /\ jumps' = jumps - 1 /\ jumps > 0
          /\ UNCHANGED <<chain, rules, faults>>
      BY <1>8 DEF DeleteJump, Done, Over
    <2>2. "flush_all" \in todo' /\ "delete_chain" \in todo' /\ todo \cap KillSwitchInstall = {}
      BY <2>1, AgendaTells DEF Open, Doing
    <2>3. faults = 0 => jumps' = 0
      BY <2>1 DEF Open, Types
    <2>4. Blocked' => Blocked
      BY <2>1 DEF Blocked
    <2> QED
      BY <1>1, <2>1, <2>2, <2>3, <2>4 DEF Open, Gone, Types
  <1> QED
    BY <1>2, <1>3, <1>4, <1>5, <1>6, <1>7, <1>8 DEF FirewallStep

LEMMA OpenFails ==
    ASSUME Types, Stages, Open, Gone, NEW c \in todo, c \in Firewall, CommandFails(c)
    PROVE  Open' /\ Gone'
  <1> USE DEF memory, fixed, WantKillSwitch, Firewall, KillSwitchInstall, KillSwitchDrop
  <1>1. c \notin Must /\ c \notin {"check_jump", "own_ks"}
    BY DEF Must, HostRoute, SplitRoutes, CommandFails, Owns
  <1>2. /\ Doing(c) /\ todo' = todo \ Skipped(c)
        /\ UNCHANGED <<chain, rules, jumps, opts, own, phase, enabled>>
        /\ \/ Futile(c) /\ faults' = faults
           \/ ~ Futile(c) /\ faults' = faults + 1
    BY <1>1, FailFrame DEF host, firewall, Fault
  <1>3. /\ faults' = 0 => faults = 0 /\ Futile(c)
        /\ faults' <= 1 => faults <= 1 /\ (Futile(c) \/ faults = 0)
    BY <1>2 DEF Types
  <1>4. (Blocked' <=> Blocked) /\ (Has("reject")' <=> Has("reject"))
    BY <1>2 DEF Blocked, Has
  <1>5. rules = <<>> => ~ Blocked /\ ~ Has("reject")
    BY DEF Blocked, Has
  <1>6. CASE c \in KillSwitchInstall \ Optional
    <2>1. todo' = todo \ KillSwitchInstall
      BY <1>2, <1>6, SkippedBlocks
    <2>2. todo \cap KillSwitchDrop = {}
      BY <1>6, AgendaTells
    <2>3. Futile(c) => ~ chain
      BY <1>6 DEF Futile, Optional, Dels, Appends
    <2>4. "new_chain" \notin todo /\ "flush" \notin todo
      BY <1>1, <1>2, <1>6, FirewallOrder DEF Appends, Optional
    <2>5. faults = 0 => ~ Blocked
      <3>1. CASE c = "insert_jump"
        <4>1. faults = 0 => jumps = 0
          BY <1>2, <3>1, FirewallOrder DEF Open
        <4> QED
          BY <4>1 DEF Blocked
      <3>2. CASE c # "insert_jump"
        <4>1. "reject" \in todo
          BY <1>1, <1>6, <3>2 DEF Open, Optional
        <4> QED
          BY <2>4, <4>1 DEF Open, Blocked, Has
      <3> QED
        BY <3>1, <3>2
    <2>6. faults' <= 1 => ~ Blocked
      BY <1>3, <1>5, <2>3, <2>5 DEF Open
    <2>7. Open'
      BY <1>2, <1>3, <1>4, <2>1, <2>2, <2>6 DEF Open
    <2>8. faults' # 0
      BY <1>3, <1>6, <2>3, <2>4 DEF Gone
    <2> QED
      BY <2>7, <2>8 DEF Gone
  <1>7. CASE c \in Optional
    <2>1. todo' = todo \ {c}
      BY <1>2, <1>7, SkippedBlocks DEF Optional, Ipv6Enable, DnsInstall
    <2>2. "own_ks" \in todo' /\ todo \cap KillSwitchDrop = {} /\ todo \cap SplitRoutes = {}
      BY <1>2, <1>7, <2>1, AgendaTells, FirewallOrder DEF Open, Optional
    <2>3. c = "flush" /\ Futile(c) => ~ chain
      BY DEF Futile, Dels, Appends
    <2>4. c = "new_chain" /\ Futile(c) => chain
      BY DEF Futile, Dels, Appends
    <2>5. Open'
      BY <1>2, <1>3, <1>4, <1>5, <1>7, <2>1, <2>2, <2>3 DEF Open, Optional
    <2>6. Gone'
      BY <1>2, <1>3, <1>7, <2>1, <2>2, <2>4 DEF Gone, Optional
    <2> QED
      BY <2>5, <2>6
  <1>8. CASE c \in KillSwitchDrop
    <2>1. todo' = todo \ {c}
      BY <1>2, <1>8, SkippedBlocks DEF Ipv6Enable, DnsInstall
    <2>2. todo \cap KillSwitchInstall = {}
      BY <1>8, AgendaTells
    <2>3. CASE c = "delete_jump"
      <3>1. Futile(c) => jumps = 0
        BY <2>3 DEF Futile, Dels, Appends
      <3> QED
        BY <1>2, <1>3, <1>4, <2>1, <2>2, <2>3, <3>1 DEF Open, Gone
    <2>4. CASE c = "flush_all"
      <3>1. Futile(c) => ~ chain
        BY <2>4 DEF Futile, Dels, Appends
      <3>2. "delete_jump" \notin todo /\ "delete_chain" \in todo
        BY <1>2, <2>4, FirewallOrder DEF Open
      <3>3. faults' <= 1 => ~ Blocked
        BY <1>3, <1>5, <3>1, <3>2 DEF Open, Blocked
      <3> QED
        BY <1>2, <1>3, <1>4, <2>1, <2>2, <2>4, <3>1, <3>2, <3>3 DEF Open, Gone
    <2>5. CASE c = "delete_chain"
      <3>1. "delete_jump" \notin todo /\ "flush_all" \notin todo
        BY <1>2, <2>5, FirewallOrder
      <3>2. Futile(c) => ~ (chain /\ rules = <<>> /\ jumps = 0)
        BY <2>5 DEF Futile, Dels, Appends
      <3>3. faults' = 0 => ~ chain /\ jumps = 0
        BY <1>3, <2>5, <3>1, <3>2 DEF Open, Gone
      <3> QED
        BY <1>2, <1>3, <1>4, <2>1, <2>2, <2>5, <3>1, <3>3 DEF Open, Gone
    <2> QED
      BY <1>8, <2>3, <2>4, <2>5
  <1> QED
    BY <1>6, <1>7, <1>8 DEF Firewall

LEMMA OpenStep ==
    ASSUME Types, Stages, InForce, Open, Gone, Next
    PROVE  Open' /\ Gone'
  <1> USE DEF OnlyOf, firewall, memory, fixed
  <1>0. Types'
    BY TypesStep
  <1>1. CASE RouteStep
    <2>1. RouteCommands \cap Firewall = {}
      BY DEF RouteCommands, Replaces, Dels, Firewall, KillSwitchInstall, KillSwitchDrop
    <2> QED
      BY <1>0, <1>1, <2>1, RouteFrame, OpenKept DEF Types
  <1>2. CASE FileStep
    <2>1. FileCommands \cap Firewall = {}
      BY DEF FileCommands, DnsInstall, DnsDrop, Firewall, KillSwitchInstall, KillSwitchDrop
    <2> QED
      BY <1>0, <1>2, <2>1, FileFrame, OpenKept DEF Types
  <1>3. CASE ServerCommand
    <2>1. NatCommands \cap Firewall = {}
      BY DEF NatCommands, NatSetup, Firewall, KillSwitchInstall, KillSwitchDrop
    <2>2. faults' >= faults
      BY <1>3 DEF ServerCommand, ReadForward, EnableForward, ResetForward, CheckRule, Check, AddRule,
         DeleteRule, Done, Fault, Types
    <2> QED
      BY <1>0, <1>3, <2>1, <2>2, NatFrame, OpenKept
  <1>4. CASE FirewallStep
    BY <1>4, OpenFirewall
  <1>5. ASSUME NEW c \in todo, ShowDefault(c)
        PROVE  Open' /\ Gone'
    <2>1. /\ todo' = todo \ {c} /\ c \notin Firewall
          /\ UNCHANGED <<chain, rules, jumps, opts, own, phase, enabled, faults>>
      BY <1>5 DEF ShowDefault, Done, Over, host, Firewall, KillSwitchInstall, KillSwitchDrop
    <2> QED
      BY <1>0, <2>1, OpenKept DEF Types
  <1>6. ASSUME NEW c \in todo, TakeOwnership(c)
        PROVE  Open' /\ Gone'
    <2>1. /\ todo' = todo \ {c} /\ own' = own \cup {Owns[c]} /\ c \in DOMAIN Owns /\ Doing(c)
          /\ UNCHANGED <<chain, rules, jumps, opts, phase, enabled, faults>>
      BY <1>6 DEF TakeOwnership, Done, Over, host
    <2>2. CASE c = "own_ks"
      <3>1. todo' \cap KillSwitchInstall = {} /\ "ks" \in own' /\ todo \cap SplitRoutes = {}
        BY <2>1, <2>2, FirewallOrder DEF KillSwitchInstall, Owns
      <3>2. todo \cap KillSwitchDrop = {} /\ (phase = "starting" \/ enabled)
        BY <2>2, AgendaTells DEF KillSwitchInstall
      <3>3. enabled
        BY <3>2 DEF Open
      <3> QED
        BY <2>1, <3>1, <3>2, <3>3
        DEF Open, Gone, KillSwitchInstall, KillSwitchDrop, WantKillSwitch
    <2>3. CASE c # "own_ks"
      <3>1. Owns[c] # "ks" /\ c \notin Firewall
        BY <2>1, <2>3 DEF Owns, Firewall, KillSwitchInstall, KillSwitchDrop
      <3>2. "ks" \in own' <=> "ks" \in own
        BY <2>1, <3>1
      <3> QED
        BY <1>0, <2>1, <3>1, <3>2, OpenKept DEF Types
    <2> QED
      BY <2>2, <2>3
  <1>7. ASSUME NEW c \in todo, CommandFails(c)
        PROVE  Open' /\ Gone'
    <2>1. CASE c \in Must
      <3>1. Return /\ UNCHANGED <<chain, rules, jumps, opts, enabled>>
        BY <1>7, <2>1 DEF CommandFails, host
      <3>2. faults' = faults + 1
        <4>1. ~ Futile(c)
          BY <2>1 DEF Futile, Must, HostRoute, SplitRoutes, Dels, Appends
        <4> QED
          BY <1>7, <4>1 DEF CommandFails, Fault
      <3>3. faults' # 0 /\ (faults' <= 1 => faults <= 1)
        BY <3>2 DEF Types
      <3>4. CASE phase' = "failing"
        <4>1. own' = {} /\ todo' = Drop
          BY <3>1, <3>4 DEF Return
        <4>2. /\ todo' \cap (KillSwitchInstall \cup SplitRoutes) = {}
              /\ "delete_jump" \in todo' => "flush_all" \in todo'
              /\ "flush_all" \in todo' => "delete_chain" \in todo'
          BY <4>1 DEF Drop, teardown_all, NatDrop, When, KillSwitchInstall, KillSwitchDrop,
             Ipv6Drop, DnsDrop, DelSplitRoutes, SplitRoutes
        <4> QED
          BY <3>1, <3>3, <3>4, <4>1, <4>2 DEF Open, Gone, WantKillSwitch, KillSwitchInstall
      <3>5. CASE phase' # "failing"
        <4>1. todo' = {} /\ UNCHANGED <<phase, own>> /\ phase = "switching"
          BY <3>1, <3>5 DEF Return
        <4>2. c \in SplitRoutes
          BY <2>1, <4>1, AgendaTells DEF Must, NatSetup
        <4>3. faults <= 1 => ~ Blocked
          BY <4>1, <4>2 DEF Open
        <4> QED
          BY <3>1, <3>3, <4>1, <4>3 DEF Open, Gone, WantKillSwitch, Blocked
      <3> QED
        BY <3>4, <3>5
    <2>2. CASE c \in Firewall
      BY <1>7, <2>2, OpenFails
    <2>3. CASE c \notin Must /\ c \notin Firewall
      <3>1. /\ todo' = todo \ Skipped(c) /\ faults' \in {faults, faults + 1}
            /\ UNCHANGED <<chain, rules, jumps, opts, own, phase, enabled>>
        BY <1>7, <2>3, FailFrame DEF host, Fault
      <3>2. Skipped(c) \cap Firewall = {}
        BY <2>3, SkippedBlocks DEF Firewall, KillSwitchInstall, KillSwitchDrop, Ipv6Enable,
           DnsInstall
      <3> QED
        BY <1>0, <3>1, <3>2, OpenKept DEF Types
    <2> QED
      BY <2>1, <2>2, <2>3
  <1>8. CASE Start
    <2>1. /\ UNCHANGED <<chain, rules, jumps, opts, own, faults>> /\ own = {}
          /\ phase' = "starting" /\ enabled'
          /\ todo' = IF opts.role = "client" THEN Install ELSE When(opts.nat, NatSetup)
      BY <1>8 DEF Start, Begin, host, Stages, Down
    <2>2. todo' \cap KillSwitchDrop = {}
      BY <2>1 DEF Install, When, HostRoute, SplitRoutes, Ipv6Enable, DnsInstall, KillSwitchInstall,
         NatSetup, KillSwitchDrop
    <2>3. CASE opts.role = "client" /\ opts.v4 /\ WantKillSwitch
      <3>1. KillSwitchInstall \subseteq todo'
        BY <2>1, <2>3 DEF Install, When
      <3> QED
        BY <2>1, <2>2, <2>3, <3>1
        DEF Open, Gone, WantKillSwitch, KillSwitchInstall, KillSwitchDrop, Firewall
    <2>4. CASE ~ (opts.role = "client" /\ opts.v4 /\ WantKillSwitch)
      <3>1. todo' \cap KillSwitchInstall = {}
        BY <2>1, <2>4 DEF Install, When, HostRoute, SplitRoutes, Ipv6Enable, DnsInstall,
           KillSwitchInstall, NatSetup
      <3>2. ~ chain /\ jumps = 0 /\ rules = <<>>
        BY <2>4 DEF Open
      <3> QED
        BY <2>1, <2>2, <3>1, <3>2
        DEF Open, Gone, WantKillSwitch, KillSwitchInstall, KillSwitchDrop, Firewall, Blocked, Types
    <2> QED
      BY <2>3, <2>4
  <1>9. CASE SwitchOff
    <2>1. /\ UNCHANGED <<chain, rules, jumps, opts, faults>> /\ own' = own \ {"ks"}
          /\ phase = "up" /\ phase' = "switching" /\ ~ enabled' /\ todo' = teardown /\ todo = {}
      BY <1>9 DEF SwitchOff, Begin, host
    <2>2. /\ todo' \cap (KillSwitchInstall \cup SplitRoutes) = {}
          /\ IF "ks" \in own THEN KillSwitchDrop \subseteq todo'
             ELSE todo' \cap KillSwitchDrop = {}
      BY <2>1 DEF teardown, When, KillSwitchInstall, KillSwitchDrop, DelSplitRoutes, SplitRoutes
    <2> QED
      BY <2>1, <2>2
      DEF Open, Gone, WantKillSwitch, KillSwitchInstall, KillSwitchDrop, Firewall, Blocked
  <1>10. CASE SwitchOn
    <2>1. /\ UNCHANGED <<chain, rules, jumps, opts, faults, own>> /\ ~ enabled
          /\ phase = "up" /\ phase' = "switching" /\ enabled' /\ todo' = reenable_with_ks /\ todo = {}
      BY <1>10 DEF SwitchOn, Begin, host
    <2>2. /\ todo' \cap KillSwitchDrop = {}
          /\ todo' \cap KillSwitchInstall = {} \/ KillSwitchInstall \subseteq todo'
      BY <2>1 DEF reenable_with_ks, When, KillSwitchInstall, KillSwitchDrop, SplitRoutes
    <2>3. "ks" \notin own
      BY <2>1 DEF Open
    <2>4. (faults <= 1 => ~ Blocked') /\ (faults = 0 => ~ chain /\ jumps = 0)
      BY <2>1, <2>3 DEF Open, Gone, Blocked
    <2> QED
      BY <2>1, <2>2, <2>3, <2>4
      DEF Open, Gone, WantKillSwitch, KillSwitchInstall, KillSwitchDrop, Firewall
  <1>11. CASE Stop
    <2>1. /\ UNCHANGED <<chain, rules, jumps, opts, faults, enabled>> /\ own' = {}
          /\ phase = "up" /\ phase' = "stopping" /\ todo' = Drop /\ todo = {}
      BY <1>11 DEF Stop, Begin, host
    <2>2. /\ todo' \cap (KillSwitchInstall \cup SplitRoutes) = {}
          /\ IF "ks" \in own THEN KillSwitchDrop \subseteq todo'
             ELSE todo' \cap KillSwitchDrop = {}
      BY <2>1 DEF Drop, teardown_all, NatDrop, When, KillSwitchInstall, KillSwitchDrop,
         Ipv6Drop, DnsDrop, DelSplitRoutes, SplitRoutes, Stages
    <2> QED
      BY <2>1, <2>2
      DEF Open, Gone, WantKillSwitch, KillSwitchInstall, KillSwitchDrop, Firewall, Blocked
  <1>12. CASE Settle
    <2>1. /\ UNCHANGED <<chain, rules, jumps, opts, todo, enabled, faults>> /\ todo = {}
          /\ phase \in DOMAIN NextPhase /\ phase' = NextPhase[phase]
          /\ phase' = "up" => own' = own
      BY <1>12 DEF Settle
    <2>2. CASE phase = "failing"
      <3>1. phase' = "failed"
        BY <2>1, <2>2 DEF NextPhase
      <3> QED
        BY <1>12, <2>1, <2>2, <3>1 DEF Settle, Open, Gone, WantKillSwitch, Stages, Types
    <2>3. CASE phase # "failing"
      <3>1. phase \in {"starting", "switching", "stopping"} /\ phase' \in {"up", "off"}
        BY <2>1, <2>3 DEF NextPhase
      <3>2. phase = "stopping" => own = {} /\ own' = {}
        BY <1>12, <2>1, <3>1 DEF Stages, Settle, NextPhase
      <3>3. own' = own
        BY <2>1, <3>1, <3>2 DEF NextPhase
      <3> QED
        BY <2>1, <3>1, <3>3 DEF Open, Gone, WantKillSwitch, Blocked
    <2> QED
      BY <2>2, <2>3
  <1>13. CASE Crash
    <2>1. /\ UNCHANGED <<chain, rules, jumps, opts, enabled, faults>> /\ own' = {} /\ todo' = {}
          /\ phase' = "crashed"
      BY <1>13 DEF Crash
    <2> QED
      BY <2>1 DEF Open, Gone, WantKillSwitch
  <1> QED
    BY <1>1, <1>2, <1>3, <1>4, <1>5, <1>6, <1>7, <1>8, <1>9, <1>10, <1>11, <1>12, <1>13, NextCases

-----------------------------------------------------------------------------
(* Every route that would outlive the process is removed. *)

RouteArea == HostRoute \cup Ipv6Enable \cup {"del_host", "del_v6low", "del_v6high"}

LEMMA RoutesKept ==
    ASSUME Types, Types', Routes, UNCHANGED <<kernel, opts, phase>>,
           \A g \in {"host", "ipv6"} : g \in own => g \in own',
           todo' \subseteq todo, \A d \in RouteArea : d \in todo' <=> d \in todo,
           faults' >= faults
    PROVE  Routes'
  <1>1. faults' = 0 => faults = 0
    BY DEF Types
  <1> QED
    BY <1>1 DEF Routes, RouteArea, HostRoute, Ipv6Enable

LEMMA RouteOrder ==
    ASSUME NEW c, Doing(c)
    PROVE  /\ c = "own_host" => todo \cap HostRoute = {"own_host"}
           /\ c = "own_ipv6" => todo \cap Ipv6Enable = {"own_ipv6"}
  BY RankValues DEF Doing, HostRoute, Ipv6Enable

LEMMA RoutesStep ==
    ASSUME Types, Stages, Routes, Next
    PROVE  Routes'
  <1> USE DEF OnlyOf, firewall, files, nat, memory, fixed
  <1>0. Types'
    BY TypesStep
  <1>1. ASSUME NEW c \in todo, Replace(c)
        PROVE  Routes'
    <2>1. /\ todo' = todo \ {c} /\ kernel' = kernel \cup {Replaces[c]} /\ c \in DOMAIN Replaces
          /\ UNCHANGED <<opts, own, phase, faults>>
      BY <1>1 DEF Replace, Done, Over
    <2>2. /\ c \in {"replace_low", "replace_high"} => Replaces[c] \notin {"host", "v6low", "v6high"}
          /\ c = "replace_host" => Replaces[c] = "host"
          /\ c = "replace_v6low" => Replaces[c] = "v6low"
          /\ c = "replace_v6high" => Replaces[c] = "v6high"
          /\ c \in {"replace_low", "replace_high", "replace_host", "replace_v6low", "replace_v6high"}
      BY <2>1 DEF Replaces
    <2>3. /\ c = "replace_host" => opts.role = "client" /\ opts.v4
          /\ c \in {"replace_v6low", "replace_v6high"} =>
                opts.role = "client" /\ opts.v4 /\ opts.disable_ipv6
      BY AgendaTells DEF HostRoute, Ipv6Enable
    <2>4. /\ c = "replace_host" => "own_host" \in todo'
          /\ c \in {"replace_v6low", "replace_v6high"} => "own_ipv6" \in todo'
      BY <2>1 DEF Routes, HostRoute, Ipv6Enable
    <2> QED
      BY <2>1, <2>2, <2>3, <2>4 DEF Routes, HostRoute, Ipv6Enable
  <1>2. ASSUME NEW c \in todo, Del(c)
        PROVE  Routes'
    <2>1. /\ todo' = todo \ {c} /\ kernel' = kernel \ {Dels[c]} /\ c \in DOMAIN Dels
          /\ UNCHANGED <<opts, own, phase, faults>>
      BY <1>2 DEF Del, Done, Over
    <2>2. /\ c = "del_host" => Dels[c] = "host"
          /\ c = "del_v6low" => Dels[c] = "v6low"
          /\ c = "del_v6high" => Dels[c] = "v6high"
          /\ c \notin HostRoute \cup Ipv6Enable
      BY <2>1 DEF Dels, HostRoute, Ipv6Enable
    <2> QED
      BY <2>1, <2>2 DEF Routes, HostRoute, Ipv6Enable
  <1>3. CASE FileStep
    <2>1. FileCommands \cap RouteArea = {}
      BY DEF FileCommands, DnsInstall, DnsDrop, RouteArea, HostRoute, Ipv6Enable
    <2> QED
      BY <1>0, <1>3, <2>1, FileFrame, RoutesKept DEF Types
  <1>4. CASE ServerCommand
    <2>1. NatCommands \cap RouteArea = {}
      BY DEF NatCommands, NatSetup, RouteArea, HostRoute, Ipv6Enable
    <2>2. faults' >= faults
      BY <1>4 DEF ServerCommand, ReadForward, EnableForward, ResetForward, CheckRule, Check, AddRule,
         DeleteRule, Done, Fault, Types
    <2> QED
      BY <1>0, <1>4, <2>1, <2>2, NatFrame, RoutesKept
  <1>5. CASE FirewallStep
    <2>1. Firewall \cap RouteArea = {}
      BY DEF Firewall, KillSwitchInstall, KillSwitchDrop, RouteArea, HostRoute, Ipv6Enable
    <2>2. faults' >= faults
      BY <1>5 DEF FirewallStep, NewChain, Flush, AppendRule, DeleteChain, CheckJump, Check, InsertJump,
         DeleteJump, Done, Over, Fault, Types
    <2> QED
      BY <1>0, <1>5, <2>1, <2>2, FirewallFrame, RoutesKept
  <1>6. ASSUME NEW c \in todo, ShowDefault(c)
        PROVE  Routes'
    <2>1. /\ todo' = todo \ {c} /\ c \in {"show_default", "show_egress"}
          /\ UNCHANGED <<kernel, opts, own, phase, faults>>
      BY <1>6 DEF ShowDefault, Done, Over, host
    <2> QED
      BY <2>1 DEF Routes, HostRoute, Ipv6Enable
  <1>7. ASSUME NEW c \in todo, TakeOwnership(c)
        PROVE  Routes'
    <2>1. /\ todo' = todo \ {c} /\ own' = own \cup {Owns[c]} /\ c \in DOMAIN Owns /\ Doing(c)
          /\ UNCHANGED <<kernel, opts, phase, faults>>
      BY <1>7 DEF TakeOwnership, Done, Over, host
    <2>2. /\ c = "own_host" => Owns[c] = "host" /\ todo' \cap HostRoute = {}
          /\ c = "own_ipv6" => Owns[c] = "ipv6" /\ todo' \cap Ipv6Enable = {}
          /\ c \notin {"own_host", "own_ipv6"} => c \notin RouteArea
      BY <2>1, RouteOrder DEF Owns, RouteArea, HostRoute, Ipv6Enable
    <2> QED
      BY <2>1, <2>2 DEF Routes, RouteArea, HostRoute, Ipv6Enable
  <1>8. ASSUME NEW c \in todo, CommandFails(c)
        PROVE  Routes'
    <2>1. CASE c \in Must
      <3>1. Return /\ UNCHANGED <<kernel, opts>>
        BY <1>8, <2>1 DEF CommandFails, host
      <3>2. faults' # 0
        <4>1. ~ Futile(c)
          BY <2>1 DEF Futile, Must, HostRoute, SplitRoutes, Dels, Appends
        <4> QED
          BY <1>8, <4>1 DEF CommandFails, Fault, Types
      <3>3. todo' \cap (HostRoute \cup Ipv6Enable) = {}
        BY <3>1 DEF Return, Drop, teardown_all, NatDrop, When, KillSwitchDrop, Ipv6Drop, DnsDrop,
           DelSplitRoutes, HostRoute, Ipv6Enable
      <3> QED
        BY <3>1, <3>2, <3>3 DEF Routes
    <2>2. CASE c \notin Must
      <3>1. /\ todo' = todo \ Skipped(c) /\ UNCHANGED <<kernel, opts, own, phase>>
            /\ IF Futile(c) THEN faults' = faults ELSE faults' = faults + 1
        BY <1>8, <2>2, FailFrame DEF host, Fault
      <3>2. (faults' = 0 => faults = 0 /\ Futile(c)) /\ faults' >= faults
        BY <3>1 DEF Types
      <3>3. CASE c \in Ipv6Enable
        <4>1. ~ Futile(c)
          BY <3>3 DEF Futile, Ipv6Enable, Dels, Appends
        <4>2. todo' = todo \ Ipv6Enable
          BY <3>1, <3>3, SkippedBlocks
        <4> QED
          BY <3>1, <3>2, <4>1, <4>2 DEF Routes, HostRoute, Ipv6Enable
      <3>4. CASE c \in {"del_host", "del_v6low", "del_v6high"}
        <4>1. todo' = todo \ {c}
          BY <3>1, <3>4, SkippedBlocks DEF Ipv6Enable, DnsInstall, KillSwitchInstall
        <4>2. Futile(c) => Dels[c] \notin kernel
          BY <3>4 DEF Futile, Dels, Appends
        <4>3. /\ c = "del_host" => Dels[c] = "host"
              /\ c = "del_v6low" => Dels[c] = "v6low"
              /\ c = "del_v6high" => Dels[c] = "v6high"
          BY DEF Dels
        <4> QED
          BY <3>1, <3>2, <3>4, <4>1, <4>2, <4>3 DEF Routes, HostRoute, Ipv6Enable
      <3>5. CASE c \notin RouteArea
        <4>1. Skipped(c) \cap RouteArea = {}
          BY <3>5, SkippedBlocks DEF RouteArea, HostRoute, Ipv6Enable, DnsInstall, KillSwitchInstall
        <4> QED
          BY <1>0, <3>1, <3>2, <4>1, RoutesKept
      <3> QED
        BY <2>2, <3>3, <3>4, <3>5 DEF RouteArea, Must
    <2> QED
      BY <2>1, <2>2
  <1>9. CASE Start
    <2>1. /\ UNCHANGED <<kernel, opts, own, faults>> /\ phase' = "starting"
          /\ todo' = IF opts.role = "client" THEN Install ELSE When(opts.nat, NatSetup)
      BY <1>9 DEF Start, Begin, host
    <2>2. /\ todo' \cap HostRoute # {} => "own_host" \in todo'
          /\ todo' \cap Ipv6Enable # {} => "own_ipv6" \in todo'
          /\ opts.role = "client" /\ opts.v4 => "own_host" \in todo'
          /\ opts.role = "client" /\ opts.v4 /\ opts.disable_ipv6 => "own_ipv6" \in todo'
      BY <2>1 DEF Install, When, HostRoute, SplitRoutes, Ipv6Enable, DnsInstall, KillSwitchInstall,
         NatSetup
    <2> QED
      BY <2>1, <2>2 DEF Routes
  <1>10. CASE SwitchOff \/ SwitchOn
    <2>1. /\ UNCHANGED <<kernel, opts, faults>> /\ own \ {"ks"} \subseteq own' /\ todo = {}
          /\ todo' \in {teardown, reenable_with_ks} /\ phase = "up"
      BY <1>10 DEF SwitchOff, SwitchOn, Begin, host
    <2>2. todo' \cap (HostRoute \cup Ipv6Enable) = {}
      BY <2>1 DEF teardown, reenable_with_ks, When, KillSwitchInstall, KillSwitchDrop, DelSplitRoutes,
         SplitRoutes, HostRoute, Ipv6Enable
    <2> QED
      BY <2>1, <2>2 DEF Routes
  <1>11. CASE Stop
    <2>1. UNCHANGED <<kernel, opts, faults>> /\ todo = {} /\ todo' = Drop /\ phase = "up"
      BY <1>11 DEF Stop, Begin, host
    <2>2. /\ todo' \cap (HostRoute \cup Ipv6Enable) = {}
          /\ opts.role = "client" /\ "host" \in own => "del_host" \in todo'
          /\ opts.role = "client" /\ "ipv6" \in own => {"del_v6low", "del_v6high"} \subseteq todo'
      BY <2>1 DEF Drop, teardown_all, NatDrop, When, KillSwitchDrop, Ipv6Drop, DnsDrop,
         DelSplitRoutes, HostRoute, Ipv6Enable
    <2> QED
      BY <2>1, <2>2 DEF Routes
  <1>12. CASE Settle
    <2>1. /\ UNCHANGED <<opts, todo, faults>> /\ todo = {} /\ kernel' \subseteq kernel
          /\ phase \in DOMAIN NextPhase /\ phase' = NextPhase[phase]
          /\ phase' = "up" => own' = own
      BY <1>12 DEF Settle
    <2>2. phase' # "up" => phase \in {"stopping", "failing"}
      BY <2>1 DEF NextPhase
    <2>3. /\ faults = 0 => phase # "crashed" /\ (phase' # "up" => own = {})
      BY <2>1, <2>2 DEF Stages, Down, NextPhase
    <2> QED
      BY <2>1, <2>3 DEF Routes
  <1>13. CASE Crash
    <2>1. UNCHANGED opts /\ todo' = {} /\ kernel' \subseteq kernel /\ phase' = "crashed"
      BY <1>13 DEF Crash
    <2> QED
      BY <2>1 DEF Routes
  <1> QED
    BY <1>1, <1>2, <1>3, <1>4, <1>5, <1>6, <1>7, <1>8, <1>9, <1>10, <1>11, <1>12, <1>13, NextCases
    DEF RouteStep

-----------------------------------------------------------------------------
(* resolv.conf is restored, and never lost. *)

LEMMA BackupKept ==
    ASSUME Types, Types', Backup, Original,
           UNCHANGED <<resolv, backup, opts, before, phase, torn>>,
           "dns" \in own' <=> "dns" \in own,
           todo' \subseteq todo, \A d \in DnsInstall \cup DnsDrop : d \in todo' <=> d \in todo,
           faults' >= faults
    PROVE  Backup' /\ Original'
  <1>1. faults' = 0 => faults = 0
    BY DEF Types
  <1>2. Backup'
    BY <1>1 DEF Backup, DnsInstall, DnsDrop, Doing
  <1>3. Original'
    BY <1>1 DEF Original, DnsInstall, DnsDrop
  <1> QED
    BY <1>2, <1>3

LEMMA FileOrder ==
    ASSUME NEW c, Doing(c)
    PROVE  /\ c = "copy" => "save" \notin todo
           /\ c \in {"truncate", "write", "own_dns"} => "save" \notin todo /\ "copy" \notin todo
           /\ c = "own_dns" => todo \cap DnsInstall = {"own_dns"}
           /\ c = "write_back" => "restore" \notin todo
           /\ c = "remove" => todo \cap DnsDrop = {"remove"}
  BY RankValues DEF Doing, DnsInstall, DnsDrop

\* When the backup is about to be written, nothing else comes first.
LEMMA CopyNext ==
    ASSUME Types, Stages, Doing("save")
    PROVE  \A d \in todo \ {"save"} : Rank["copy"] <= Rank[d]
  <1>1. phase = "starting" /\ opts.role = "client"
    BY AgendaTells DEF Doing, DnsInstall
  <1>2. todo \subseteq Install
    BY <1>1 DEF Stages, Agenda
  <1>3. \A d \in Install : d # "save" /\ Rank["save"] <= Rank[d] => Rank["copy"] <= Rank[d]
    BY RankValues DEF Install, When, HostRoute, SplitRoutes, Ipv6Enable, DnsInstall, KillSwitchInstall
  <1> QED
    BY <1>2, <1>3 DEF Doing

LEMMA BackupFiles ==
    ASSUME Types, Stages, Backup, Original, FileStep
    PROVE  Backup' /\ Original'
  <1> USE DEF memory, fixed, DnsInstall, DnsDrop
  <1>1. /\ UNCHANGED <<opts, before, phase, torn, own, faults>> /\ todo' \subseteq todo
    BY FileFrame DEF OnlyOf
  <1>2. /\ todo \cap DnsInstall # {} =>
              phase = "starting" /\ opts.role = "client" /\ opts.v4 /\ opts.dns /\ todo \cap DnsDrop = {}
        /\ todo \cap DnsDrop # {} => todo \cap DnsInstall = {} /\ own = {}
    <2> HIDE DEF DnsInstall, DnsDrop
    <2> QED
      BY AgendaTells DEF Stages
  <1>3. CASE Save
    <2>1. /\ Doing("save") /\ resolv' = resolv
          /\ \/ Saves /\ backup' = "empty" /\ todo' = todo \ {"save"}
             \/ ~ Saves /\ backup' = backup /\ todo' = todo \ {"save", "copy"}
      BY <1>3 DEF Save, Over
    <2>2. "save" \in todo /\ "copy" \in todo /\ "own_dns" \in todo
      BY <2>1 DEF Doing, Backup
    <2>3. \A d \in todo' : Rank["copy"] <= Rank[d]
      BY <2>1, CopyNext
    <2>4. Backup'
      BY <1>1, <1>2, <2>1, <2>2, <2>3 DEF Backup, Doing
    <2>5. Original'
      BY <1>1, <1>2, <2>1, <2>2 DEF Original, Saves
    <2> QED
      BY <2>4, <2>5
  <1>4. CASE Copy
    <2>1. /\ Doing("copy") /\ UNCHANGED resolv /\ backup' = resolv /\ todo' = todo \ {"copy"}
      BY <1>4 DEF Copy, Done, Over
    <2>2. "save" \notin todo /\ "copy" \in todo /\ "own_dns" \in todo
      BY <2>1, FileOrder DEF Doing, Backup
    <2>3. Backup'
      BY <1>1, <1>2, <2>1, <2>2 DEF Backup
    <2>4. Original'
      BY <1>1, <1>2, <2>1, <2>2 DEF Original
    <2> QED
      BY <2>3, <2>4
  <1>5. CASE Truncate \/ Write
    <2>1. \E c \in {"truncate", "write"} :
             Doing(c) /\ UNCHANGED backup /\ resolv' \in {"empty", "managed"} /\ todo' = todo \ {c}
      BY <1>5 DEF Truncate, Write, Done, Over
    <2>2. "save" \notin todo /\ "copy" \notin todo /\ "own_dns" \in todo
      BY <2>1, FileOrder DEF Doing, Backup
    <2>3. Backup'
      BY <1>1, <1>2, <2>1, <2>2 DEF Backup
    <2>4. Original'
      BY <1>1, <1>2, <2>1, <2>2 DEF Original
    <2> QED
      BY <2>3, <2>4
  <1>6. CASE Restore
    <2>1. /\ Doing("restore") /\ UNCHANGED backup /\ resolv' = "empty" /\ todo' = todo \ {"restore"}
      BY <1>6 DEF Restore, Done, Over
    <2>2. "restore" \in todo /\ "write_back" \in todo' /\ "remove" \in todo'
      BY <2>1 DEF Doing, Backup
    <2>3. Backup'
      BY <1>1, <1>2, <2>1, <2>2 DEF Backup
    <2>4. Original'
      BY <1>1, <1>2, <2>1, <2>2 DEF Original
    <2> QED
      BY <2>3, <2>4
  <1>7. CASE WriteBack
    <2>1. /\ Doing("write_back") /\ UNCHANGED backup /\ resolv' = backup
          /\ todo' = todo \ {"write_back"}
      BY <1>7 DEF WriteBack, Done, Over
    <2>2. "restore" \notin todo /\ "write_back" \in todo /\ "remove" \in todo'
      BY <2>1, FileOrder DEF Doing, Backup
    <2>3. Backup'
      BY <1>1, <1>2, <2>1, <2>2 DEF Backup
    <2>4. Original'
      BY <1>1, <1>2, <2>1, <2>2 DEF Original
    <2> QED
      BY <2>3, <2>4
  <1>8. CASE Remove
    <2>1. /\ Doing("remove") /\ UNCHANGED resolv /\ backup' = "absent" /\ todo' = todo \ {"remove"}
      BY <1>8 DEF Remove, Done, Over
    <2>2. "remove" \in todo /\ todo' \cap DnsDrop = {}
      BY <2>1, FileOrder DEF Doing
    <2>3. Backup'
      BY <1>1, <1>2, <2>1, <2>2 DEF Backup
    <2>4. Original'
      BY <1>1, <1>2, <2>1, <2>2 DEF Original
    <2> QED
      BY <2>3, <2>4
  <1> QED
    BY <1>3, <1>4, <1>5, <1>6, <1>7, <1>8 DEF FileStep

LEMMA BackupFails ==
    ASSUME Types, Stages, Backup, Original, NEW c \in todo, c \in DnsInstall \cup DnsDrop,
           CommandFails(c)
    PROVE  Backup' /\ Original'
  <1> USE DEF memory, fixed, DnsInstall, DnsDrop
  <1>1. c \notin Must /\ c # "own_dns"
    BY DEF Must, HostRoute, SplitRoutes, CommandFails, Owns
  <1>2. /\ Doing(c) /\ todo' = todo \ Skipped(c)
        /\ UNCHANGED <<resolv, backup, opts, before, torn, own, phase>>
        /\ \/ Futile(c) /\ faults' = faults
           \/ ~ Futile(c) /\ faults' = faults + 1
    BY <1>1, FailFrame DEF host, files, Fault
  <1>3. faults' = 0 => faults = 0 /\ Futile(c)
    BY <1>2 DEF Types
  <1>4. /\ c \in {"restore", "remove"} /\ Futile(c) => backup = "absent"
        /\ c \notin {"restore", "remove"} => ~ Futile(c)
    BY DEF Futile, Dels, Appends
  <1>5. /\ c \in DnsInstall => todo' = todo \ DnsInstall
        /\ c = "restore" => todo' = todo \ {"restore", "write_back"}
        /\ c \in {"write_back", "remove"} => todo' = todo \ {c}
    BY <1>2, SkippedBlocks DEF Ipv6Enable, KillSwitchInstall
  <1>6. c = "remove" => todo' \cap DnsDrop = {}
    BY <1>2, <1>5, FileOrder
  <1>7. Backup'
    <2>1. CASE c \in DnsInstall
      BY <1>2, <1>3, <1>4, <1>5, <2>1 DEF Backup
    <2>2. CASE c \in {"restore", "write_back"}
      <3>1. "remove" \in todo' /\ "restore" \notin todo'
        BY <1>2, <1>5, <2>2, FileOrder DEF Backup
      <3>2. "copy" \in todo' /\ "save" \notin todo' => Doing("copy")'
        BY <1>2, <1>5, <2>2 DEF Backup, Doing
      <3> QED
        BY <1>2, <1>3, <1>4, <1>5, <2>2, <3>1, <3>2 DEF Backup
    <2>3. CASE c = "remove"
      <3>2. "copy" \in todo' /\ "save" \notin todo' => Doing("copy")'
        BY <1>2, <1>5, <2>3 DEF Backup, Doing
      <3> QED
        BY <1>2, <1>3, <1>4, <1>5, <1>6, <2>3, <3>2 DEF Backup
    <2> QED
      BY <2>1, <2>2, <2>3
  <1>8. Original'
    BY <1>2, <1>3, <1>4, <1>5, <1>6 DEF Original
  <1> QED
    BY <1>7, <1>8

LEMMA BackupStep ==
    ASSUME Types, Stages, Backup, Original, Next
    PROVE  Backup' /\ Original'
  <1> USE DEF OnlyOf, files, memory, fixed
  <1>0. Types'
    BY TypesStep
  <1>1. CASE RouteStep
    <2>1. RouteCommands \cap (DnsInstall \cup DnsDrop) = {}
      BY DEF RouteCommands, Replaces, Dels, DnsInstall, DnsDrop
    <2> QED
      BY <1>0, <1>1, <2>1, RouteFrame, BackupKept DEF Types
  <1>2. CASE FileStep
    BY <1>2, BackupFiles
  <1>3. CASE ServerCommand
    <2>1. NatCommands \cap (DnsInstall \cup DnsDrop) = {}
      BY DEF NatCommands, NatSetup, DnsInstall, DnsDrop
    <2>2. faults' >= faults
      BY <1>3 DEF ServerCommand, ReadForward, EnableForward, ResetForward, CheckRule, Check, AddRule,
         DeleteRule, Done, Fault, Types
    <2> QED
      BY <1>0, <1>3, <2>1, <2>2, NatFrame, BackupKept
  <1>4. CASE FirewallStep
    <2>1. Firewall \cap (DnsInstall \cup DnsDrop) = {}
      BY DEF Firewall, KillSwitchInstall, KillSwitchDrop, DnsInstall, DnsDrop
    <2>2. faults' >= faults
      BY <1>4 DEF FirewallStep, NewChain, Flush, AppendRule, DeleteChain, CheckJump, Check, InsertJump,
         DeleteJump, Done, Over, Fault, Types
    <2> QED
      BY <1>0, <1>4, <2>1, <2>2, FirewallFrame, BackupKept
  <1>5. ASSUME NEW c \in todo, ShowDefault(c)
        PROVE  Backup' /\ Original'
    <2>1. /\ todo' = todo \ {c} /\ c \notin DnsInstall \cup DnsDrop
          /\ UNCHANGED <<resolv, backup, opts, before, own, phase, torn, faults>>
      BY <1>5 DEF ShowDefault, Done, Over, host, DnsInstall, DnsDrop
    <2> QED
      BY <1>0, <2>1, BackupKept DEF Types
  <1>6. ASSUME NEW c \in todo, TakeOwnership(c)
        PROVE  Backup' /\ Original'
    <2>1. /\ todo' = todo \ {c} /\ own' = own \cup {Owns[c]} /\ c \in DOMAIN Owns /\ Doing(c)
          /\ UNCHANGED <<resolv, backup, opts, before, phase, torn, faults>>
      BY <1>6 DEF TakeOwnership, Done, Over, host
    <2>2. CASE c = "own_dns"
      <3>1. /\ "dns" \in own' /\ todo' \cap DnsInstall = {} /\ "copy" \notin todo
        BY <2>1, <2>2, FileOrder DEF Owns
      <3>2. todo \cap DnsDrop = {}
        BY <2>2, AgendaTells DEF DnsInstall
      <3>3. Backup'
        BY <2>1, <3>1, <3>2 DEF Backup, DnsInstall, DnsDrop
      <3>4. Original'
        BY <2>1, <2>2, <3>1, <3>2 DEF Original, DnsInstall, DnsDrop
      <3> QED
        BY <3>3, <3>4
    <2>3. CASE c # "own_dns"
      <3>1. Owns[c] # "dns" /\ c \notin DnsInstall \cup DnsDrop
        BY <2>1, <2>3 DEF Owns, DnsInstall, DnsDrop
      <3>2. "dns" \in own' <=> "dns" \in own
        BY <2>1, <3>1
      <3> QED
        BY <1>0, <2>1, <3>1, <3>2, BackupKept DEF Types
    <2> QED
      BY <2>2, <2>3
  <1>7. ASSUME NEW c \in todo, CommandFails(c)
        PROVE  Backup' /\ Original'
    <2>1. CASE c \in Must
      <3>1. Return /\ UNCHANGED <<backup, opts>>
        BY <1>7, <2>1 DEF CommandFails, host
      <3>2. faults' # 0
        <4>1. ~ Futile(c)
          BY <2>1 DEF Futile, Must, HostRoute, SplitRoutes, Dels, Appends
        <4> QED
          BY <1>7, <4>1 DEF CommandFails, Fault, Types
      <3>3. todo' \in {Drop, {}}
        BY <3>1 DEF Return
      <3>4. /\ todo' \cap DnsInstall = {}
            /\ todo' \cap DnsDrop = {} \/ DnsDrop \subseteq todo'
        BY <3>3 DEF Drop, teardown_all, NatDrop, When, KillSwitchDrop, Ipv6Drop, DnsDrop,
           DelSplitRoutes, DnsInstall
      <3> QED
        BY <3>1, <3>2, <3>4 DEF Backup, Original, DnsInstall, DnsDrop
    <2>2. CASE c \in DnsInstall \cup DnsDrop
      BY <1>7, <2>2, BackupFails
    <2>3. CASE c \notin Must /\ c \notin DnsInstall \cup DnsDrop
      <3>1. /\ todo' = todo \ Skipped(c) /\ faults' \in {faults, faults + 1}
            /\ UNCHANGED <<resolv, backup, opts, before, own, phase, torn>>
        BY <1>7, <2>3, FailFrame DEF host, Fault
      <3>2. Skipped(c) \cap (DnsInstall \cup DnsDrop) = {}
        BY <2>3, SkippedBlocks DEF KillSwitchInstall, Ipv6Enable, DnsInstall, DnsDrop
      <3> QED
        BY <1>0, <3>1, <3>2, BackupKept DEF Types
    <2> QED
      BY <2>1, <2>2, <2>3
  <1>8. CASE Start
    <2>1. /\ UNCHANGED <<resolv, backup, opts, before, own, torn, faults>> /\ own = {} /\ todo = {}
          /\ phase' = "starting"
          /\ todo' = IF opts.role = "client" THEN Install ELSE When(opts.nat, NatSetup)
      BY <1>8 DEF Start, Begin, host, Stages, Down
    <2>2. /\ todo' \cap DnsDrop = {}
          /\ IF opts.role = "client" /\ opts.v4 /\ opts.dns THEN DnsInstall \subseteq todo'
             ELSE todo' \cap DnsInstall = {}
      BY <2>1 DEF Install, When, HostRoute, SplitRoutes, Ipv6Enable, DnsInstall, KillSwitchInstall,
         NatSetup, DnsDrop
    <2>3. Backup'
      BY <2>1, <2>2 DEF Backup, DnsInstall, DnsDrop
    <2>4. Original'
      BY <2>1, <2>2 DEF Original, DnsInstall, DnsDrop
    <2> QED
      BY <2>3, <2>4
  <1>9. CASE SwitchOff \/ SwitchOn
    <2>1. /\ UNCHANGED <<resolv, backup, opts, before, torn, faults>> /\ todo = {} /\ phase = "up"
          /\ "dns" \in own' <=> "dns" \in own
          /\ todo' \in {teardown, reenable_with_ks}
      BY <1>9 DEF SwitchOff, SwitchOn, Begin, host
    <2>2. todo' \cap (DnsInstall \cup DnsDrop) = {}
      BY <2>1 DEF teardown, reenable_with_ks, When, KillSwitchInstall, KillSwitchDrop, DelSplitRoutes,
         SplitRoutes, DnsInstall, DnsDrop
    <2> QED
      BY <2>1, <2>2 DEF Backup, Original, DnsInstall, DnsDrop
  <1>10. CASE Stop
    <2>1. /\ UNCHANGED <<resolv, backup, opts, before, torn, faults>> /\ todo = {} /\ phase = "up"
          /\ todo' = Drop /\ own' = {}
      BY <1>10 DEF Stop, Begin, host
    <2>2. /\ todo' \cap DnsInstall = {}
          /\ IF opts.role = "client" /\ "dns" \in own THEN DnsDrop \subseteq todo'
             ELSE todo' \cap DnsDrop = {}
      BY <2>1 DEF Drop, teardown_all, NatDrop, When, KillSwitchDrop, Ipv6Drop, DnsDrop,
         DelSplitRoutes, DnsInstall
    <2>3. Backup'
      BY <2>1, <2>2 DEF Backup, DnsInstall, DnsDrop
    <2>4. Original'
      BY <2>1, <2>2 DEF Original, DnsInstall, DnsDrop
    <2> QED
      BY <2>3, <2>4
  <1>11. CASE Settle
    <2>1. /\ UNCHANGED <<resolv, backup, opts, before, torn, todo, faults>> /\ todo = {}
          /\ phase \in DOMAIN NextPhase /\ phase' = NextPhase[phase]
          /\ own' \in {own, {}} /\ (phase' = "up" => own' = own)
      BY <1>11 DEF Settle
    <2>2. phase' # "up" => phase \in {"stopping", "failing"}
      BY <2>1 DEF NextPhase
    <2>3. phase # "crashed" /\ own' = own
      BY <2>1, <2>2 DEF Stages, NextPhase
    <2> QED
      BY <2>1, <2>3 DEF Backup, Original
  <1>12. CASE Crash
    <2>1. /\ UNCHANGED <<resolv, backup, opts, before, faults>> /\ todo' = {} /\ own' = {}
          /\ phase' = "crashed" /\ torn' = (torn \/ Doing("copy"))
      BY <1>12 DEF Crash
    <2>2. Backup'
      BY <2>1 DEF Backup
    <2>3. Original'
      BY <2>1 DEF Backup, Original
    <2> QED
      BY <2>2, <2>3
  <1> QED
    BY <1>1, <1>2, <1>3, <1>4, <1>5, <1>6, <1>7, <1>8, <1>9, <1>10, <1>11, <1>12, NextCases

-----------------------------------------------------------------------------
(* The NAT. *)

NatArea == NatSetup \cup {"delete_rule", "reset_forward"}

LEMMA NatKept ==
    ASSUME Types, Types', NatInForce, NatExact,
           UNCHANGED <<forward, masquerade, prev_forward, rule_added, opts, before, phase, crashes>>,
           "nat" \in own' <=> "nat" \in own,
           todo' \subseteq todo, \A d \in NatArea : d \in todo' <=> d \in todo,
           faults' >= faults
    PROVE  NatInForce' /\ NatExact'
  <1>1. faults' = 0 => faults = 0
    BY DEF Types
  <1>2. NatInForce'
    BY DEF NatInForce, NatArea, NatSetup
  <1>3. One' = One
    BY DEF One
  <1>4. NatExact'
    BY <1>1, <1>3 DEF NatExact, NatArea, NatSetup
  <1> QED
    BY <1>2, <1>4

LEMMA NatOrder ==
    ASSUME NEW c, Doing(c)
    PROVE  /\ c \in {"enable_forward", "add_rule", "own_nat"} => "read_forward" \notin todo
           /\ c = "add_rule" => "check_rule" \notin todo
           /\ c = "own_nat" => todo \cap NatSetup = {"own_nat"}
  BY RankValues DEF Doing, NatSetup

LEMMA ServerHost ==
    ASSUME Types, opts.role = "server"
    PROVE  before.masquerade \in Nat /\ before.forward # "unread"
  BY DEF Types, Hosts

LEMMA NatCommandStep ==
    ASSUME Types, Stages, NatInForce, NatExact, ServerCommand
    PROVE  NatInForce' /\ NatExact'
  <1> USE DEF memory, fixed, NatSetup
  <1>1. UNCHANGED <<opts, before, phase, crashes, own>> /\ todo' \subseteq todo
    BY NatFrame DEF OnlyOf
  <1>2. SUFFICES ASSUME opts.role = "server"
                 PROVE  NatInForce' /\ NatExact'
    BY <1>1 DEF NatInForce, NatExact
  <1>3. before.masquerade \in Nat /\ masquerade \in Nat /\ before.forward # "unread"
    BY <1>2, ServerHost DEF Types
  <1>4. /\ todo \cap NatSetup # {} => phase = "starting" /\ opts.nat
        /\ todo \cap {"delete_rule", "reset_forward"} # {} =>
              phase \in {"stopping", "failing"} /\ own = {} /\ todo \cap NatSetup = {}
    <2> HIDE DEF NatSetup
    <2> QED
      BY AgendaTells DEF Stages
  <1>5. CASE ReadForward
    <2>1. /\ Doing("read_forward") /\ todo' = todo \ {"read_forward"} /\ prev_forward' = forward
          /\ UNCHANGED <<forward, masquerade, rule_added, faults>>
      BY <1>5 DEF ReadForward, Done, Over, host, nat
    <2>2. "read_forward" \in todo /\ One' = One
      BY <2>1 DEF Doing, One
    <2>3. NatInForce'
      BY <1>1, <1>3, <1>4, <2>1, <2>2 DEF NatInForce
    <2>4. NatExact'
      BY <1>1, <1>3, <1>4, <2>1, <2>2 DEF NatExact
    <2> QED
      BY <2>3, <2>4
  <1>6. CASE EnableForward
    <2>1. /\ Doing("enable_forward") /\ todo' = todo \ {"enable_forward"} /\ forward' = "1"
          /\ UNCHANGED <<prev_forward, masquerade, rule_added, faults>>
      BY <1>6 DEF EnableForward, Done, Over
    <2>2. "enable_forward" \in todo /\ "read_forward" \notin todo /\ One' = One
      BY <2>1, NatOrder DEF Doing, One
    <2>3. NatInForce'
      BY <1>1, <1>3, <1>4, <2>1, <2>2 DEF NatInForce
    <2>4. NatExact'
      BY <1>1, <1>3, <1>4, <2>1, <2>2 DEF NatExact
    <2> QED
      BY <2>3, <2>4
  <1>7. CASE ResetForward
    <2>1. /\ Doing("reset_forward") /\ todo' = todo \ {"reset_forward"} /\ forward' = prev_forward
          /\ UNCHANGED <<prev_forward, masquerade, rule_added, faults>>
      BY <1>7 DEF ResetForward, Done, Over
    <2>2. "reset_forward" \in todo /\ One' = One
      BY <2>1 DEF Doing, One
    <2>3. NatInForce'
      BY <1>1, <1>3, <1>4, <2>1, <2>2 DEF NatInForce
    <2>4. NatExact'
      BY <1>1, <1>3, <1>4, <2>1, <2>2 DEF NatExact
    <2> QED
      BY <2>3, <2>4
  <1>8. CASE CheckRule
    <2>1. /\ Doing("check_rule") /\ UNCHANGED <<forward, masquerade, prev_forward, rule_added>>
          /\ \/ masquerade > 0 /\ todo' = todo \ {"check_rule", "add_rule"} /\ faults' = faults
             \/ todo' = todo \ {"check_rule"} /\ faults' \in {faults, faults + 1}
      BY <1>8 DEF CheckRule, Check, Over, Fault, host, nat
    <2>2. "check_rule" \in todo /\ One' = One /\ (faults' = 0 => faults = 0)
      BY <2>1 DEF Doing, One, Types
    <2>3. NatInForce'
      BY <1>1, <1>3, <1>4, <2>1, <2>2 DEF NatInForce
    <2>4. NatExact'
      BY <1>1, <1>3, <1>4, <2>1, <2>2 DEF NatExact
    <2> QED
      BY <2>3, <2>4
  <1>9. CASE AddRule
    <2>1. /\ Doing("add_rule") /\ todo' = todo \ {"add_rule"} /\ masquerade' = masquerade + 1
          /\ rule_added' = TRUE /\ UNCHANGED <<forward, prev_forward, faults>>
      BY <1>9 DEF AddRule, Done, Over
    <2>2. "add_rule" \in todo /\ "check_rule" \notin todo /\ One' = 1
      BY <2>1, NatOrder DEF Doing, One
    <2>3. NatInForce'
      BY <1>1, <1>3, <1>4, <2>1, <2>2 DEF NatInForce
    <2>4. faults = 0 /\ crashes = 0 => masquerade' = before.masquerade + One'
      BY <1>2, <1>3, <1>4, <2>1, <2>2 DEF NatExact, One
    <2>5. NatExact'
      BY <1>1, <1>3, <1>4, <2>1, <2>2, <2>4 DEF NatExact
    <2> QED
      BY <2>3, <2>5
  <1>10. CASE DeleteRule
    <2>1. /\ Doing("delete_rule") /\ todo' = todo \ {"delete_rule"} /\ masquerade' = masquerade - 1
          /\ UNCHANGED <<forward, prev_forward, rule_added, faults>>
      BY <1>10 DEF DeleteRule, Done, Over
    <2>2. "delete_rule" \in todo /\ masquerade > before.masquerade
      BY <1>2, <2>1 DEF Doing, NatInForce
    <2>3. NatInForce'
      BY <1>1, <1>3, <1>4, <2>1, <2>2 DEF NatInForce
    <2>4. NatExact'
      BY <1>1, <1>3, <1>4, <2>1, <2>2 DEF NatExact
    <2> QED
      BY <2>3, <2>4
  <1> QED
    BY <1>5, <1>6, <1>7, <1>8, <1>9, <1>10 DEF ServerCommand

LEMMA OptionsFixed ==
    ASSUME Next
    PROVE  opts' = opts /\ before' = before
  <1> USE DEF OnlyOf, fixed
  <1>1. ASSUME NEW c \in todo, ShowDefault(c) \/ TakeOwnership(c) \/ CommandFails(c)
        PROVE  opts' = opts /\ before' = before
    BY <1>1 DEF ShowDefault, TakeOwnership, CommandFails, Done, Over
  <1>2. CASE Start \/ SwitchOff \/ SwitchOn \/ Stop \/ Settle \/ Crash
    BY <1>2 DEF Start, SwitchOff, SwitchOn, Stop, Settle, Crash, Begin
  <1> QED
    BY <1>1, <1>2, NextCases, RouteFrame, FileFrame, NatFrame, FirewallFrame

LEMMA NatStep ==
    ASSUME Types, Stages, NatInForce, NatExact, Next
    PROVE  NatInForce' /\ NatExact'
  <1> USE DEF OnlyOf, nat, memory, fixed
  <1>1. SUFFICES ASSUME opts.role = "server"
                 PROVE  NatInForce' /\ NatExact'
    BY OptionsFixed DEF NatInForce, NatExact
  <1>2. Types' /\ before.masquerade \in Nat /\ masquerade \in Nat /\ before.forward # "unread"
    BY <1>1, TypesStep, ServerHost DEF Types
  <1>3. CASE RouteStep
    <2>1. RouteCommands \cap NatArea = {}
      BY DEF RouteCommands, Replaces, Dels, NatArea, NatSetup
    <2> QED
      BY <1>2, <1>3, <2>1, RouteFrame, NatKept DEF Types
  <1>4. CASE FileStep
    <2>1. FileCommands \cap NatArea = {}
      BY DEF FileCommands, DnsInstall, DnsDrop, NatArea, NatSetup
    <2> QED
      BY <1>2, <1>4, <2>1, FileFrame, NatKept DEF Types
  <1>5. CASE FirewallStep
    <2>1. Firewall \cap NatArea = {}
      BY DEF Firewall, KillSwitchInstall, KillSwitchDrop, NatArea, NatSetup
    <2>2. faults' >= faults
      BY <1>5 DEF FirewallStep, NewChain, Flush, AppendRule, DeleteChain, CheckJump, Check, InsertJump,
         DeleteJump, Done, Over, Fault, Types
    <2> QED
      BY <1>2, <1>5, <2>1, <2>2, FirewallFrame, NatKept
  <1>6. CASE ServerCommand
    BY <1>6, NatCommandStep
  <1>7. ASSUME NEW c \in todo, ShowDefault(c)
        PROVE  NatInForce' /\ NatExact'
    <2>1. /\ todo' = todo \ {c} /\ c \in {"show_default", "show_egress"}
          /\ UNCHANGED <<forward, masquerade, prev_forward, rule_added, opts, before, phase, crashes,
                         own, faults>>
      BY <1>7 DEF ShowDefault, Done, Over, host
    <2>2. One' = One
      BY <2>1 DEF One
    <2>3. NatInForce'
      BY <2>1 DEF NatInForce
    <2>4. NatExact'
      BY <2>1, <2>2 DEF NatExact
    <2> QED
      BY <2>3, <2>4
  <1>8. ASSUME NEW c \in todo, TakeOwnership(c)
        PROVE  NatInForce' /\ NatExact'
    <2>1. /\ todo' = todo \ {c} /\ own' = own \cup {Owns[c]} /\ c \in DOMAIN Owns /\ Doing(c)
          /\ UNCHANGED <<forward, masquerade, prev_forward, rule_added, opts, before, phase, crashes,
                         faults>>
      BY <1>8 DEF TakeOwnership, Done, Over, host
    <2>2. c = "own_nat" /\ Owns[c] = "nat" /\ phase = "starting"
      BY <1>1, <2>1, AgendaTells DEF Owns, HostRoute, Ipv6Enable, DnsInstall, KillSwitchInstall,
         NatSetup
    <2>3. todo \subseteq NatSetup
      BY <1>1, <2>2 DEF Stages, Agenda, When
    <2>4. todo' = {} /\ "nat" \in own' /\ todo = {"own_nat"}
      BY <2>1, <2>2, <2>3, NatOrder
    <2>5. One' = One
      BY <2>1 DEF One
    <2>6. NatInForce'
      BY <2>1, <2>4 DEF NatInForce
    <2>7. NatExact'
      BY <2>1, <2>2, <2>4, <2>5 DEF NatExact
    <2> QED
      BY <2>6, <2>7
  <1>9. ASSUME NEW c \in todo, CommandFails(c)
        PROVE  NatInForce' /\ NatExact'
    <2>1. CASE c \in Must
      <3>1. Return /\ UNCHANGED <<masquerade, forward, opts, before>>
        BY <1>9, <2>1 DEF CommandFails, host
      <3>2. faults' # 0
        <4>1. ~ Futile(c)
          BY <2>1 DEF Futile, Must, HostRoute, SplitRoutes, Dels, Appends
        <4> QED
          BY <1>9, <4>1 DEF CommandFails, Fault, Types
      <3>3. phase = "starting"
        BY <1>1, <3>1 DEF Return, Stages
      <3>4. phase' = "failing" /\ todo' = {} /\ own' = {}
        <4>1. "nat" \notin own
          BY <1>1 DEF NatInForce
        <4> QED
          BY <1>1, <3>1, <3>3, <4>1 DEF Return, Drop, When
      <3> QED
        BY <3>1, <3>2, <3>4 DEF NatInForce, NatExact
    <2>2. CASE c \notin Must
      <3>1. /\ todo' = todo \ Skipped(c)
            /\ UNCHANGED <<forward, masquerade, prev_forward, rule_added, opts, before, phase, crashes,
                           own>>
            /\ \/ Futile(c) /\ faults' = faults
               \/ ~ Futile(c) /\ faults' = faults + 1
        BY <1>9, <2>2, FailFrame DEF host, Fault
      <3>2. CASE c \in NatArea
        <4>1. todo' = todo \ {c}
          BY <3>1, <3>2, SkippedBlocks DEF NatArea, NatSetup, Ipv6Enable, DnsInstall, KillSwitchInstall
        <4>2. c \in {"read_forward", "delete_rule", "reset_forward"}
          BY <1>9, <2>2, <3>2 DEF CommandFails, Must, NatArea, NatSetup, Owns
        <4>3. ~ Futile(c)
          <5>1. c = "delete_rule" => masquerade # 0
            BY <1>1, <1>2 DEF NatInForce
          <5> QED
            BY <4>2, <5>1 DEF Futile, Dels, Appends
        <4>4. faults' # 0
          BY <3>1, <4>3 DEF Types
        <4>5. NatInForce'
          BY <3>1, <4>1, <4>2 DEF NatInForce
        <4> QED
          BY <4>4, <4>5 DEF NatExact
      <3>3. CASE c \notin NatArea
        <4>1. Skipped(c) \cap NatArea = {}
          BY <3>3, SkippedBlocks DEF NatArea, NatSetup, Ipv6Enable, DnsInstall, KillSwitchInstall
        <4>2. faults' >= faults
          BY <3>1 DEF Types
        <4> QED
          BY <1>2, <3>1, <4>1, <4>2, NatKept
      <3> QED
        BY <3>2, <3>3
    <2> QED
      BY <2>1, <2>2
  <1>10. CASE Start
    <2>1. /\ UNCHANGED <<forward, masquerade, prev_forward, rule_added, opts, before, crashes, own, faults>>
          /\ own = {} /\ todo = {} /\ ~ rule_added /\ phase' = "starting"
          /\ todo' = IF opts.nat THEN NatSetup ELSE {}
      BY <1>1, <1>10 DEF Start, Begin, host, Stages, Down, When
    <2>2. phase = "off" \/ faults > 0 \/ phase = "crashed"
      BY <1>10 DEF Start, Stages
    <2>3. One' = 0
      BY <2>1 DEF One
    <2>4. NatInForce'
      BY <2>1 DEF NatInForce, NatSetup
    <2>5. NatExact'
      BY <1>1, <1>2, <2>1, <2>2, <2>3 DEF NatExact, NatSetup, Types
    <2> QED
      BY <2>4, <2>5
  <1>11. CASE SwitchOff \/ SwitchOn
    BY <1>1, <1>11 DEF SwitchOff, SwitchOn
  <1>12. CASE Stop
    <2>1. /\ UNCHANGED <<forward, masquerade, prev_forward, rule_added, opts, before, crashes, faults>>
          /\ own' = {} /\ todo = {} /\ phase = "up" /\ phase' = "stopping"
          /\ todo' = When("nat" \in own, NatDrop)
      BY <1>1, <1>12 DEF Stop, Begin, host, Drop
    <2>2. /\ todo' \subseteq {"delete_rule", "reset_forward"}
          /\ "delete_rule" \in todo' <=> "nat" \in own /\ rule_added
          /\ "reset_forward" \in todo' <=> "nat" \in own /\ prev_forward # "unread"
      BY <2>1 DEF When, NatDrop
    <2>3. "nat" \in own => opts.nat
      BY DEF Stages
    <2>4. NatInForce'
      BY <1>1, <2>1, <2>2 DEF NatInForce
    <2>5. NatExact'
      BY <1>1, <1>2, <2>1, <2>2, <2>3 DEF NatExact, One
    <2> QED
      BY <2>4, <2>5
  <1>13. CASE Settle
    <2>1. /\ UNCHANGED <<forward, masquerade, opts, before, crashes, todo, faults>> /\ todo = {}
          /\ phase \in DOMAIN NextPhase /\ phase' = NextPhase[phase]
          /\ phase' = "up" => UNCHANGED <<own, prev_forward, rule_added>>
          /\ phase' # "up" => own' = {} /\ ~ rule_added'
      BY <1>13 DEF Settle
    <2>2. CASE phase = "starting"
      <3>1. phase' = "up"
        BY <2>1, <2>2 DEF NextPhase
      <3>2. One' = One
        BY <2>1, <3>1 DEF One
      <3> QED
        BY <2>1, <2>2, <3>1, <3>2 DEF NatInForce, NatExact
    <2>3. CASE phase = "stopping"
      <3>1. phase' = "off"
        BY <2>1, <2>3 DEF NextPhase
      <3> QED
        BY <1>2, <2>1, <2>3, <3>1 DEF NatInForce, NatExact
    <2>4. CASE phase = "failing"
      <3>1. phase' = "failed" /\ faults > 0
        BY <2>1, <2>4 DEF NextPhase, Stages
      <3> QED
        BY <2>1, <3>1 DEF NatInForce, NatExact, Types
    <2>5. phase # "switching"
      BY <1>1 DEF Stages
    <2> QED
      BY <2>1, <2>2, <2>3, <2>4, <2>5 DEF NextPhase
  <1>14. CASE Crash
    <2>1. /\ UNCHANGED <<forward, masquerade, opts, before, faults>> /\ todo' = {} /\ own' = {}
          /\ phase' = "crashed" /\ crashes' = crashes + 1
      BY <1>14 DEF Crash
    <2>2. crashes' # 0
      BY <2>1 DEF Types
    <2> QED
      BY <2>1, <2>2 DEF NatInForce, NatExact
  <1> QED
    BY <1>3, <1>4, <1>5, <1>6, <1>7, <1>8, <1>9, <1>10, <1>11, <1>12, <1>13, <1>14, NextCases

-----------------------------------------------------------------------------
(* The theorems. *)

LEMMA InvInit == ASSUME Init PROVE Inv
  <1> USE DEF Init
  <1>1. Types
    <2>1. before.masquerade \in Nat
      BY DEF Hosts
    <2>2. <<>> \in Seq(RuleNames)
      OBVIOUS
    <2> QED
      BY <2>1, <2>2 DEF Types, Down
  <1>2. Stages
    BY DEF Stages, Down
  <1>3. InForce /\ Open /\ Gone
    BY DEF InForce, Open, Gone, KillSwitchInForce, Blocked
  <1>4. Routes
    BY DEF Routes
  <1>5. Backup /\ Original
    BY DEF Backup, Original
  <1>6. NatInForce /\ NatExact
    <2>1. before.masquerade \in Nat
      BY DEF Hosts
    <2> QED
      BY <2>1 DEF NatInForce, NatExact
  <1> QED
    BY <1>1, <1>2, <1>3, <1>4, <1>5, <1>6 DEF Inv

LEMMA InvStep == ASSUME Inv, [Next]_vars PROVE Inv'
  <1>1. CASE Next
    BY <1>1, TypesStep, StagesStep, InForceStep, OpenStep, RoutesStep, BackupStep, NatStep DEF Inv
  <1>2. CASE UNCHANGED vars
    <2> USE <1>2 DEF vars, host, firewall, files, nat, memory, fixed
    <2>1. Types' /\ Types
      BY DEF Types, Inv
    <2>2. Stages'
      BY DEF Stages, Agenda, Install, When, WantKillSwitch, Inv
    <2>3. InForce'
      BY InForceKept DEF Inv
    <2>4. faults' >= faults
      BY <2>1 DEF Types
    <2>5. Open' /\ Gone'
      BY <2>1, <2>4, OpenKept DEF Inv
    <2>6. Routes'
      BY <2>1, <2>4, RoutesKept DEF Inv
    <2>7. Backup' /\ Original'
      BY <2>1, <2>4, BackupKept DEF Inv
    <2>8. NatInForce' /\ NatExact'
      BY <2>1, <2>4, NatKept DEF Inv
    <2> QED
      BY <2>1, <2>2, <2>3, <2>5, <2>6, <2>7, <2>8 DEF Inv
  <1> QED
    BY <1>1, <1>2

\* The invariant above holds, for any number of failing commands and crashes.
THEOREM GuardsInv == Spec => []Inv
  BY InvInit, InvStep, PTL DEF Spec

\* A kill switch that the client owns rejects, after its exceptions (KillSwitch::install).
THEOREM KillSwitchHolds == Spec => []KillSwitchInForce
  <1>1. Inv => KillSwitchInForce
    BY DEF Inv, InForce
  <1> QED
    BY <1>1, GuardsInv, PTL

\* After a clean exit and at most one failing command the host is not cut off, whatever
\* happened before (KillSwitch::drop, KillSwitch::install on what a crash left).
THEOREM ExitOpensTheWay == Spec => []NotCutOffAfterExit
  <1>1. Inv => NotCutOffAfterExit
    <2> SUFFICES ASSUME Inv, phase = "off", faults <= 1
                 PROVE  ~ Blocked
      BY DEF NotCutOffAfterExit
    <2>1. todo = {} /\ own = {}
      BY DEF Inv, Stages, Agenda, Down
    <2> QED
      BY <2>1 DEF Inv, Open
  <1> QED
    BY <1>1, GuardsInv, PTL

\* The user's resolv.conf is in its place or in the backup (DnsGuard).
THEOREM ResolvConfSurvives == Spec => []ResolvConfKept
  <1>1. Inv => ResolvConfKept
    BY DEF Inv, Original, ResolvConfKept
  <1> QED
    BY <1>1, GuardsInv, PTL

\* A clean exit leaves the client's host as it was before the first start, also when the
\* process was killed in between (ClientRoutes::teardown_all).
THEOREM ExitRestores == Spec => []CleanExitRestores
  <1>1. Inv => CleanExitRestores
    <2> SUFFICES ASSUME Inv, phase = "off", faults = 0, ~ torn
                 PROVE  /\ kernel = {} /\ ~ chain /\ jumps = 0
                        /\ backup = "absent"
                        /\ before.resolv = "original" => resolv = "original"
      BY DEF CleanExitRestores
    <2>1. todo = {} /\ own = {} /\ kernel \cap Split = {}
      BY DEF Inv, Stages, Agenda, Down
    <2>2. kernel = {}
      BY <2>1 DEF Inv, Types, Routes
    <2>3. ~ chain /\ jumps = 0
      BY <2>1 DEF Inv, Gone
    <2>4. backup = "absent"
      BY <2>1 DEF Inv, Backup
    <2> QED
      BY <2>2, <2>3, <2>4 DEF Inv, Original
  <1> QED
    BY <1>1, GuardsInv, PTL

\* A server that is up with NAT forwards and masquerades; it takes away no rule that it
\* did not add; undisturbed, it restores both (NatGuard).
THEOREM NatHolds == Spec => []NatInForceAndUndone
  <1>1. Inv => NatInForceAndUndone
    BY DEF Inv, NatInForce, NatExact, NatInForceAndUndone
  <1> QED
    BY <1>1, GuardsInv, PTL
=============================================================================
