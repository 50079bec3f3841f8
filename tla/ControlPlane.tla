---------------------------- MODULE ControlPlane ----------------------------
(***************************************************************************)
(* The control socket of a running client: connections that ask for the    *)
(* status, on or off (control::handle_client), the hook threads they start *)
(* (on_enable in client::run), the routes and the kill switch these        *)
(* install or remove (route::ClientRoutes), and the shutdown that must     *)
(* undo them.                                                              *)
(*                                                                         *)
(* A connection carries one request.  Its task runs without an await from  *)
(* the read to the reply, but in parallel with the other tasks and hooks;  *)
(* a hook thread is started by the task and not waited for.  There may be  *)
(* any number of requests: Conns bounds those under way at one time.       *)
(*                                                                         *)
(* ClientRoutes lives behind Arc<Mutex<..>>.  It is torn down when the     *)
(* last of its owners lets go: run, the control socket, the connections    *)
(* and the hook threads.  A thread that the process exit cuts off never    *)
(* lets go.                                                                *)
(***************************************************************************)
EXTENDS Naturals, Sequences, FiniteSets

CONSTANTS
    Conns,              \* bound: connections, with their threads, at one time
    RedirectAll,        \* redirect_all
    WantKillSwitch,     \* kill_switch
    MaxFaults           \* bound: ip and iptables commands that fail

ASSUME ControlAssumption ==
    RedirectAll \in BOOLEAN /\ WantKillSwitch \in BOOLEAN /\ MaxFaults \in Nat

VARIABLES
    enabled,    \* RuntimeStats.enabled
    kernel,     \* what is installed in the kernel
    kill_switch,\* ClientRoutes.kill_switch.is_some()
    conn,       \* the request of each open connection and how far it got
    hook,       \* the hook thread of each connection
    lock,       \* the mutex of ClientRoutes: holder first, then the waiters
    phase,      \* starting, up, stopping, returned (from run), exited
    listening,  \* control::serve is in its loop
    faults      \* history: commands that failed

vars == <<enabled, kernel, kill_switch, conn, hook, lock, phase, listening, faults>>
routes == <<kernel, kill_switch>>

\* The host route to the server, the two halves of the default route, and the
\* jump to the kill-switch chain.
Split == {"low", "high"}
Installed == {"host"} \cup Split \cup {"jump"}

Closed == [at |-> "closed"]
NoThread == [at |-> "none"]

Fault == faults < MaxFaults /\ faults' = faults + 1

Init ==
    /\ enabled = TRUE
    /\ kernel = {} /\ kill_switch = FALSE
    /\ conn = [c \in Conns |-> Closed]
    /\ hook = [c \in Conns |-> NoThread]
    /\ lock = <<>>
    /\ phase = "starting"
    /\ listening = FALSE
    /\ faults = 0

\* Connections whose task is alive, and those whose request is being answered.
Open == {c \in Conns : conn[c] # Closed}
Busy == {c \in Open : conn[c].at # "reply"}
Threads == {c \in Conns : hook[c] # NoThread}

\* The owners of ClientRoutes.  While there is one, the routes stay.
Owned == phase \in {"starting", "up", "stopping"} \/ listening \/ Open # {} \/ Threads # {}

\* Mutation of DropRoutes: the kill switch is forgotten.
DropRoutesOnly ==
    IF Owned' THEN UNCHANGED <<routes, faults>>
    ELSE kernel' = kernel \cap {"jump"} /\ UNCHANGED <<kill_switch, faults>>

\* teardown_all, when the last owner is gone: everything goes, but for a jump that
\* no guard object stands for any more and for what a failed command leaves.
DropRoutes ==
    IF Owned'
    THEN UNCHANGED <<routes, faults>>
    ELSE LET left == IF kill_switch THEN {} ELSE kernel \cap {"jump"}
         IN  /\ kill_switch' = FALSE
             /\ \/ kernel' = left /\ UNCHANGED faults
                \/ Fault /\ \E item \in kernel : kernel' = left \cup {item}

-----------------------------------------------------------------------------
(* Start-up: ClientRoutes::install, then the control socket. *)

Defaults == IF RedirectAll THEN Split ELSE {}

\* A kill switch that cannot be installed is only logged, and so is a control socket
\* that cannot be opened.
Install ==
    /\ phase = "starting"
    /\ kill_switch' \in {FALSE, WantKillSwitch /\ RedirectAll}
    /\ kernel' = {"host"} \cup Defaults \cup (IF kill_switch' THEN {"jump"} ELSE {})
    /\ IF kill_switch' = (WantKillSwitch /\ RedirectAll) THEN UNCHANGED faults ELSE Fault
    /\ phase' = "up"
    /\ listening' \in BOOLEAN
    /\ UNCHANGED <<enabled, conn, hook, lock>>

\* A route that cannot be installed ends the client; the ones before it go again.
InstallFails ==
    /\ phase = "starting"
    /\ Fault
    /\ phase' = "exited"
    /\ UNCHANGED <<enabled, routes, conn, hook, lock, listening>>

-----------------------------------------------------------------------------
(* handle_client. *)

Ops == {"status", "on", "off"}

Accept(c, op) ==
    /\ listening
    /\ c \notin Open \cup Threads
    /\ conn' = [conn EXCEPT ![c] = [at |-> IF op = "status" THEN "reply" ELSE "check", op |-> op]]
    /\ UNCHANGED <<enabled, routes, hook, lock, phase, listening, faults>>

On(c) == conn[c].op = "on"

is_enabled(c) ==
    /\ conn[c].at = "check"
    /\ conn' = [conn EXCEPT ![c].at = IF enabled = On(c) THEN "reply" ELSE "set"]
    /\ UNCHANGED <<enabled, routes, hook, lock, phase, listening, faults>>

set_enabled(c) ==
    /\ conn[c].at = "set"
    /\ enabled' = On(c)
    /\ conn' = [conn EXCEPT ![c].at = "hook"]
    /\ UNCHANGED <<routes, hook, lock, phase, listening, faults>>

on_enable(c) ==
    /\ conn[c].at = "hook"
    /\ hook' = [hook EXCEPT ![c] = [at |-> "spawned", on |-> On(c)]]
    /\ conn' = [conn EXCEPT ![c].at = "reply"]
    /\ UNCHANGED <<enabled, routes, lock, phase, listening, faults>>

\* The reply holds a snapshot, with the switch as it is now.
Reply(c) ==
    /\ conn[c].at = "reply"
    /\ conn' = [conn EXCEPT ![c] = Closed]
    /\ UNCHANGED <<enabled, hook, lock, phase, listening>>
    /\ DropRoutes

-----------------------------------------------------------------------------
(* The hook thread. *)

blocking_lock(c) ==
    /\ hook[c].at = "spawned"
    /\ hook' = [hook EXCEPT ![c].at = "waiting"]
    /\ lock' = Append(lock, c)
    /\ UNCHANGED <<enabled, routes, conn, phase, listening, faults>>

Runs(c, on) ==
    /\ hook[c].at = "waiting" /\ Head(lock) = c
    /\ hook[c].on = on
    /\ hook' = [hook EXCEPT ![c].at = "ran"]
    /\ UNCHANGED <<enabled, conn, lock, phase, listening>>

\* The kill switch goes, then the routes; commands that fail are ignored.
Removed == (IF kill_switch THEN {"jump"} ELSE {}) \cup Defaults

\* Mutation of teardown: the guard object is not taken out.
teardownKeepsGuard(c) ==
    /\ Runs(c, FALSE)
    /\ kernel' = kernel \ Removed
    /\ UNCHANGED <<kill_switch, faults>>

teardown(c) ==
    /\ Runs(c, FALSE)
    /\ kill_switch' = FALSE
    /\ \/ kernel' = kernel \ Removed /\ UNCHANGED faults
       \/ Fault /\ \E item \in Removed : kernel' = kernel \ (Removed \ {item})

\* Both routes, then the kill switch if it is wanted and not there.
NeedsKillSwitch == WantKillSwitch /\ RedirectAll /\ ~ kill_switch

reenable_with_ks(c) ==
    /\ Runs(c, TRUE)
    /\ kernel' = kernel \cup Defaults \cup (IF NeedsKillSwitch THEN {"jump"} ELSE {})
    /\ kill_switch' = (kill_switch \/ NeedsKillSwitch)
    /\ UNCHANGED faults

\* A route command fails and ends it there, or the kill switch is not installed.
ReenableFails(c) ==
    /\ Runs(c, TRUE)
    /\ RedirectAll
    /\ Fault
    /\ \/ UNCHANGED kernel
       \/ kernel' = kernel \cup {"low"}
       \/ NeedsKillSwitch /\ kernel' = kernel \cup Split
    /\ UNCHANGED kill_switch

\* Mutations of HookEnds: the lock is not released; the switch is not set again.
HookEndsLocked(c) ==
    /\ hook[c].at = "ran"
    /\ enabled' = hook[c].on
    /\ hook' = [hook EXCEPT ![c] = NoThread]
    /\ UNCHANGED <<conn, lock, phase, listening>>
    /\ DropRoutes
HookEndsUnset(c) ==
    /\ hook[c].at = "ran"
    /\ lock' = Tail(lock)
    /\ hook' = [hook EXCEPT ![c] = NoThread]
    /\ UNCHANGED <<enabled, conn, phase, listening>>
    /\ DropRoutes

\* Whatever came of it, the switch is set again before the lock is released.
HookEnds(c) ==
    /\ hook[c].at = "ran"
    /\ enabled' = hook[c].on
    /\ lock' = Tail(lock)
    /\ hook' = [hook EXCEPT ![c] = NoThread]
    /\ UNCHANGED <<conn, phase, listening>>
    /\ DropRoutes

-----------------------------------------------------------------------------
(* Shutdown. *)

Shutdown ==
    /\ phase = "up"
    /\ phase' = "stopping"
    /\ UNCHANGED <<enabled, routes, conn, hook, lock, listening, faults>>

ServeEnds ==
    /\ phase = "stopping"
    /\ listening
    /\ listening' = FALSE
    /\ UNCHANGED <<enabled, routes, conn, hook, lock, phase, faults>>

\* maintenance.await returns, which Client shows it may never do; drop(routes), and run
\* returns.
RunReturns ==
    /\ phase = "stopping"
    /\ ~ listening
    /\ phase' = "returned"
    /\ UNCHANGED <<enabled, conn, hook, lock, listening>>
    /\ DropRoutes

\* main returns: the runtime cancels its tasks where they await, which closes the
\* TUN device and its routes, and the process exits with whatever threads are left.
Exit ==
    /\ phase = "returned"
    /\ Busy = {}
    /\ phase' = "exited"
    /\ conn' = [c \in Conns |-> Closed]
    /\ UNCHANGED <<enabled, hook, lock, listening>>
    /\ IF Owned'
       THEN kernel' = kernel \ Split /\ UNCHANGED <<kill_switch, faults>>
       ELSE DropRoutes

-----------------------------------------------------------------------------
handle_client(c) ==
    is_enabled(c) \/ set_enabled(c) \/ on_enable(c) \/ Reply(c)

Hook(c) ==
    \/ blocking_lock(c) \/ teardown(c)
    \/ reenable_with_ks(c) \/ ReenableFails(c) \/ HookEnds(c)

Next ==
    /\ phase # "exited"
    /\ \/ \E c \in Conns, op \in Ops : Accept(c, op)
       \/ \E c \in Conns : handle_client(c) \/ Hook(c)
       \/ Install \/ InstallFails
       \/ Shutdown \/ ServeEnds \/ RunReturns \/ Exit

Spec == Init /\ [][Next]_vars

-----------------------------------------------------------------------------
(* Properties. *)

\* The state is well typed and the mutex is held and awaited by hook threads only,
\* each once.
TypeOK ==
    /\ enabled \in BOOLEAN /\ listening \in BOOLEAN /\ kill_switch \in BOOLEAN
    /\ kernel \subseteq Installed
    /\ conn \in [Conns -> {Closed} \cup [at : {"check", "set", "hook", "reply"}, op : Ops]]
    /\ hook \in [Conns -> {NoThread} \cup [at : {"spawned", "waiting", "ran"}, on : BOOLEAN]]
    /\ \A i, j \in DOMAIN lock :
          hook[lock[i]].at \in {"waiting", "ran"} /\ (lock[i] = lock[j] => i = j)
    /\ phase \in {"starting", "up", "stopping", "returned", "exited"}
    /\ faults \in 0 .. MaxFaults

\* No request and no hook is under way.
Quiet == phase # "starting" /\ Owned /\ Busy = {} /\ Threads = {}

Effect(on) ==
    IF on THEN Defaults \cup (IF RedirectAll /\ WantKillSwitch THEN {"jump"} ELSE {}) ELSE {}

\* However requests and hooks were interleaved, once all are done and no command
\* failed, the switch and the kernel agree: enabled with routes and kill switch, or
\* disabled without.
SwitchMatchesKernel ==
    Quiet /\ faults = 0 => kernel = {"host"} \cup Effect(enabled)

\* The guard object never stands for a jump that is not there, whatever fails; and
\* as long as nothing failed there is no jump without it, so that a kill switch in
\* force can always be found and removed again.
KillSwitchOwned ==
    /\ kill_switch => "jump" \in kernel
    /\ faults = 0 /\ "jump" \in kernel => kill_switch

\* When run has returned and the last owner is gone nothing is left behind if no
\* command failed, and no hook puts anything back.
NothingLeftBehind == faults = 0 /\ ~ Owned => kernel = {}

\* When the process exits, the routes and the kill switch are gone.
TornDownAtExit == phase = "exited" => kernel = {}
=============================================================================
