-------------------------- MODULE ControlPlaneProofs --------------------------
(***************************************************************************)
(* Proofs about ControlPlane and Monitor, for any set of connections, any  *)
(* configuration and any number of failing commands.                       *)
(*                                                                         *)
(* The properties speak of the moments at which nothing is under way.  The *)
(* invariant says what holds at the others: the mutex of ClientRoutes is   *)
(* held and awaited by exactly the hook threads that asked for it, only    *)
(* its holder has run, and as long as nothing failed the kernel is in one  *)
(* of two states, the one that the holder has asked for when it has run    *)
(* and the one of the switch when no hook is under way or due.             *)
(***************************************************************************)
EXTENDS Monitor, TLAPS

\* The mutex.
LockFair ==
    /\ lock \in Seq(Conns)
    /\ \A i, j \in 1 .. Len(lock) : lock[i] = lock[j] => i = j
    /\ \A c \in Conns :
          hook[c].at \in {"waiting", "ran"} <=> \E i \in 1 .. Len(lock) : lock[i] = c
    /\ \A c \in Conns : hook[c].at = "ran" => lock # <<>> /\ lock[1] = c

\* A connection does not get a new request before its hook is done.
OneHookEach == \A c \in Conns : hook[c] # NoThread => conn[c] = Closed \/ conn[c].at = "reply"

Stages ==
    /\ phase = "starting" =>
          enabled /\ ~ listening /\ kernel = {} /\ ~ kill_switch /\ Open = {} /\ Threads = {}
    /\ phase \in {"returned", "exited"} => ~ listening
    /\ phase = "exited" => Open = {}

\* The two states of the kernel.
Matches(on) ==
    /\ kernel = {"host"} \cup Effect(on)
    /\ kill_switch <=> (on /\ RedirectAll /\ WantKillSwitch)

\* No hook is under way and none is due.
NoHook == Threads = {} /\ \A c \in Conns : conn[c].at # "hook"

Agreement ==
    /\ Matches(TRUE) \/ Matches(FALSE)
    /\ \A c \in Conns : hook[c].at = "ran" => Matches(hook[c].on)
    /\ NoHook => Matches(enabled)

Serving == Owned /\ phase \notin {"starting", "exited"}

\* Inductive.
Inv ==
    /\ TypeOK
    /\ LockFair
    /\ OneHookEach
    /\ Stages
    /\ KillSwitchOwned
    /\ NothingLeftBehind
    /\ faults = 0 /\ Serving => Agreement

-----------------------------------------------------------------------------
(* Lemmas. *)

\* The client starts with nothing installed.
LEMMA InitInv == Init => Inv
<1> SUFFICES ASSUME Init PROVE Inv
  OBVIOUS
<1>1. TypeOK
  <2>1. DOMAIN lock = {}
    BY DEF Init
  <2>2. faults \in 0 .. MaxFaults
    BY ControlAssumption DEF Init
  <2>3. /\ conn \in [Conns -> {Closed} \cup [at : {"check", "set", "hook", "reply"}, op : Ops]]
        /\ hook \in [Conns -> {NoThread} \cup [at : {"spawned", "waiting", "ran"}, on : BOOLEAN]]
    BY DEF Init
  <2> QED BY <2>1, <2>2, <2>3 DEF Init, TypeOK
<1>2. LockFair
  BY DEF Init, LockFair, NoThread
<1>3. OneHookEach /\ Stages
  BY DEF Init, OneHookEach, Stages, Open, Threads
<1>4. KillSwitchOwned /\ NothingLeftBehind /\ ~ Serving
  BY DEF Init, KillSwitchOwned, NothingLeftBehind, Serving
<1> QED BY <1>1, <1>2, <1>3, <1>4 DEF Inv

\* What a connection and a hook can be.
LEMMA ConnCases ==
    ASSUME TypeOK, NEW c \in Conns
    PROVE  /\ \/ conn[c] = Closed
              \/ conn[c] \in [at : {"check", "set", "hook", "reply"}, op : Ops]
           /\ \/ hook[c] = NoThread
              \/ hook[c] \in [at : {"spawned", "waiting", "ran"}, on : BOOLEAN]
           /\ conn[c] = Closed <=> conn[c].at = "closed"
           /\ hook[c] = NoThread <=> hook[c].at = "none"
           /\ conn \in [Conns -> {Closed} \cup [at : {"check", "set", "hook", "reply"}, op : Ops]]
           /\ hook \in [Conns -> {NoThread} \cup [at : {"spawned", "waiting", "ran"}, on : BOOLEAN]]
BY DEF TypeOK, Closed, NoThread

\* The last owner takes the routes along.
LEMMA DropRoutesInv ==
    ASSUME Inv, DropRoutes
    PROVE  /\ kernel' \subseteq Installed /\ kill_switch' \in BOOLEAN
           /\ faults' \in 0 .. MaxFaults /\ (faults' = 0 => faults = 0)
           /\ KillSwitchOwned'
           /\ faults' = 0 /\ ~ Owned' => kernel' = {}
           /\ Owned' => UNCHANGED <<kernel, kill_switch>>
<1>1. /\ kernel \subseteq Installed /\ kill_switch \in BOOLEAN /\ KillSwitchOwned
      /\ faults \in Nat /\ faults <= MaxFaults /\ MaxFaults \in Nat
  BY ControlAssumption DEF Inv, TypeOK
<1>2. CASE Owned'
  BY <1>1, <1>2 DEF DropRoutes, routes, KillSwitchOwned
<1>3. CASE ~ Owned'
  <2> DEFINE left == IF kill_switch THEN {} ELSE kernel \cap {"jump"}
  <2>1. /\ kill_switch' = FALSE
        /\ \/ kernel' = left /\ faults' = faults
           \/ Fault /\ \E item \in kernel : kernel' = left \cup {item}
    BY <1>3 DEF DropRoutes
  <2>2. left \subseteq Installed /\ (faults = 0 => left = {})
    BY <1>1 DEF KillSwitchOwned
  <2> HIDE DEF left
  <2>3. /\ kernel' \subseteq Installed
        /\ faults' \in 0 .. MaxFaults /\ (faults' = 0 => faults = 0)
        /\ faults' = 0 => kernel' = {}
    BY <1>1, <2>1, <2>2 DEF Fault
  <2>4. KillSwitchOwned'
    BY <2>1, <2>3 DEF KillSwitchOwned
  <2> QED BY <1>3, <2>1, <2>3, <2>4
<1> QED BY <1>2, <1>3

-----------------------------------------------------------------------------
(* One lemma per kind of step. *)

Asked == [at : {"check", "set", "hook", "reply"}, op : Ops]
Thread == [at : {"spawned", "waiting", "ran"}, on : BOOLEAN]

\* A request moves: the routes and the mutex stay, and the connection keeps
\* ClientRoutes alive.
LEMMA RequestMoves ==
    ASSUME Inv, Serving, NEW c \in Conns, NEW r \in Asked,
           conn' = [conn EXCEPT ![c] = r],
           UNCHANGED <<kernel, kill_switch, hook, lock, phase, listening, faults>>,
           enabled' \in BOOLEAN,
           hook[c] = NoThread \/ r.at = "reply",
           NoHook' => NoHook /\ enabled' = enabled
    PROVE  Inv'
<1>1. /\ conn'[c] = r /\ r # Closed /\ r.at # "closed"
      /\ \A d \in Conns : d # c => conn'[d] = conn[d]
  BY DEF Inv, TypeOK, Closed, Asked
<1>2. TypeOK'
  <2>1. conn' \in [Conns -> {Closed} \cup Asked]
    BY DEF Inv, TypeOK, Asked
  <2> QED BY <2>1 DEF Inv, TypeOK, Asked
<1>3. LockFair' /\ KillSwitchOwned'
  BY DEF Inv, LockFair, KillSwitchOwned
<1>4. OneHookEach'
  BY <1>1 DEF Inv, OneHookEach
<1>5. Stages' /\ Owned'
  BY <1>1 DEF Inv, Stages, Serving, Owned, Open
<1>6. NothingLeftBehind'
  BY <1>5 DEF NothingLeftBehind
<1>7. faults' = 0 => Agreement'
  BY DEF Inv, Agreement, Matches, Effect
<1> QED BY <1>2, <1>3, <1>4, <1>5, <1>6, <1>7 DEF Inv

\* A connection with a request keeps the routes.
LEMMA OpenServes ==
    ASSUME Inv, NEW c \in Conns, conn[c].at \in {"check", "set", "hook", "reply"}
    PROVE  Serving /\ c \in Open
BY DEF Inv, Stages, Serving, Owned, Open, Closed

\* A request comes in.
LEMMA AcceptInv ==
    ASSUME Inv, phase # "exited", NEW c \in Conns, NEW op \in Ops, Accept(c, op)
    PROVE  Inv'
<1> DEFINE r == [at |-> IF op = "status" THEN "reply" ELSE "check", op |-> op]
<1>1. /\ r \in Asked /\ conn' = [conn EXCEPT ![c] = r]
      /\ UNCHANGED <<enabled, kernel, kill_switch, hook, lock, phase, listening, faults>>
      /\ listening /\ conn[c] = Closed /\ hook[c] = NoThread
  BY DEF Accept, Asked, routes, Open, Threads
<1>2. Serving
  BY <1>1 DEF Inv, Stages, Serving, Owned
<1>3. NoHook' => NoHook
  BY <1>1 DEF NoHook, Threads, Closed, Inv, TypeOK
<1> QED BY <1>1, <1>2, <1>3, RequestMoves DEF Inv, TypeOK

\* The request is compared with the switch.
LEMMA IsEnabledInv == ASSUME Inv, NEW c \in Conns, is_enabled(c) PROVE Inv'
<1> DEFINE r == [conn[c] EXCEPT !.at = IF enabled = On(c) THEN "reply" ELSE "set"]
<1>1. conn[c] \in Asked /\ conn[c].at = "check"
  BY ConnCases DEF is_enabled, Inv, Closed, Asked
<1>2. /\ r \in Asked /\ r.at # "hook" /\ conn' = [conn EXCEPT ![c] = r]
      /\ UNCHANGED <<enabled, kernel, kill_switch, hook, lock, phase, listening, faults>>
  BY <1>1 DEF is_enabled, Asked, routes
<1>3. Serving /\ hook[c] = NoThread
  BY <1>1, OpenServes DEF Inv, OneHookEach, Closed
<1>4. NoHook' => NoHook
  BY <1>1, <1>2 DEF NoHook, Threads, Inv, TypeOK
<1> QED BY <1>2, <1>3, <1>4, RequestMoves DEF Inv, TypeOK

\* The switch is set, and a hook is due.
LEMMA SetEnabledInv == ASSUME Inv, NEW c \in Conns, set_enabled(c) PROVE Inv'
<1> DEFINE r == [conn[c] EXCEPT !.at = "hook"]
<1>1. conn[c] \in Asked /\ conn[c].at = "set"
  BY ConnCases DEF set_enabled, Inv, Closed, Asked
<1>2. /\ r \in Asked /\ r.at = "hook" /\ conn' = [conn EXCEPT ![c] = r]
      /\ UNCHANGED <<kernel, kill_switch, hook, lock, phase, listening, faults>>
      /\ enabled' \in BOOLEAN
  BY <1>1 DEF set_enabled, Asked, routes, On
<1>3. Serving /\ hook[c] = NoThread
  BY <1>1, OpenServes DEF Inv, OneHookEach, Closed
<1>4. ~ NoHook'
  BY <1>2 DEF NoHook, Inv, TypeOK
<1> QED BY <1>2, <1>3, <1>4, RequestMoves

\* The hook is spawned; it has not asked for the mutex yet.
LEMMA OnEnableInv == ASSUME Inv, NEW c \in Conns, on_enable(c) PROVE Inv'
<1> DEFINE t == [at |-> "spawned", on |-> On(c)]
<1> DEFINE r == [conn[c] EXCEPT !.at = "reply"]
<1>1. conn[c] \in Asked /\ conn[c].at = "hook"
  BY ConnCases DEF on_enable, Inv, Closed, Asked
<1>2. /\ r \in Asked /\ r.at = "reply" /\ conn' = [conn EXCEPT ![c] = r]
      /\ t \in Thread /\ t.at = "spawned" /\ hook' = [hook EXCEPT ![c] = t]
      /\ UNCHANGED <<enabled, kernel, kill_switch, lock, phase, listening, faults>>
  BY <1>1 DEF on_enable, Asked, Thread, routes, On
<1> HIDE DEF t, r
<1>3. Serving /\ hook[c] = NoThread
  BY <1>1, OpenServes DEF Inv, OneHookEach, Closed
<1>4. /\ conn'[c] = r /\ hook'[c] = t /\ r # Closed /\ t # NoThread
      /\ \A d \in Conns : d # c => conn'[d] = conn[d] /\ hook'[d] = hook[d]
  BY <1>2 DEF Inv, TypeOK, Closed, NoThread, Asked, Thread
<1>5. LockFair'
  BY <1>2, <1>3, <1>4 DEF Inv, LockFair, NoThread
<1>6. TypeOK'
  <2>1. conn' \in [Conns -> {Closed} \cup Asked] /\ hook' \in [Conns -> {NoThread} \cup Thread]
    BY <1>2 DEF Inv, TypeOK, Asked, Thread
  <2>2. \A i, j \in DOMAIN lock' :
           hook'[lock'[i]].at \in {"waiting", "ran"} /\ (lock'[i] = lock'[j] => i = j)
    BY <1>5 DEF LockFair
  <2> QED BY <1>2, <2>1, <2>2 DEF Inv, TypeOK, Asked, Thread
<1>7. OneHookEach'
  BY <1>2, <1>4 DEF Inv, OneHookEach
<1>8. Stages' /\ Owned' /\ KillSwitchOwned'
  BY <1>2, <1>3, <1>4 DEF Inv, Stages, Serving, Owned, Open, KillSwitchOwned
<1>9. NothingLeftBehind'
  BY <1>8 DEF NothingLeftBehind
<1>10. ~ NoHook'
  BY <1>4 DEF NoHook, Threads
<1>11. faults' = 0 => Agreement'
  BY <1>2, <1>3, <1>4, <1>10 DEF Inv, Agreement, Matches, Effect
<1> QED BY <1>5, <1>6, <1>7, <1>8, <1>9, <1>11 DEF Inv

\* A step that only lets an owner go: what is installed stays as long as there is
\* another owner.
LEMMA ReleaseInv ==
    ASSUME Inv, Serving, DropRoutes, TypeOK', LockFair', OneHookEach', Stages',
           phase' # "exited",
           faults = 0 /\ faults' = 0 /\ UNCHANGED routes => Agreement'
    PROVE  Inv'
<1>1. KillSwitchOwned' /\ (faults' = 0 => faults = 0) /\ NothingLeftBehind'
  BY DropRoutesInv DEF NothingLeftBehind
<1>2. Serving' => UNCHANGED routes
  BY DropRoutesInv DEF Serving, routes
<1>3. faults' = 0 /\ Serving' => Agreement'
  BY <1>1, <1>2
<1> QED BY <1>1, <1>3 DEF Inv

\* The reply is sent and the connection closed.
LEMMA ReplyInv == ASSUME Inv, NEW c \in Conns, Reply(c) PROVE Inv'
<1>1. conn[c].at = "reply" /\ Serving
  BY OpenServes DEF Reply
<1>2. /\ conn' = [conn EXCEPT ![c] = Closed]
      /\ UNCHANGED <<enabled, hook, lock, phase, listening>>
      /\ DropRoutes
  BY DEF Reply
<1>3. conn'[c] = Closed /\ \A d \in Conns : d # c => conn'[d] = conn[d]
  BY <1>2 DEF Inv, TypeOK
<1>4. LockFair' /\ OneHookEach' /\ phase' # "exited"
  BY <1>1, <1>2, <1>3 DEF Inv, LockFair, OneHookEach, Serving
<1>5. TypeOK'
  <2>1. conn' \in [Conns -> {Closed} \cup Asked]
    BY <1>2 DEF Inv, TypeOK, Asked
  <2>2. kernel' \subseteq Installed /\ kill_switch' \in BOOLEAN /\ faults' \in 0 .. MaxFaults
    BY <1>2, DropRoutesInv
  <2> QED BY <1>2, <2>1, <2>2 DEF Inv, TypeOK, Asked
<1>6. Stages'
  BY <1>1, <1>2 DEF Inv, Stages, Serving
<1>7. NoHook' => NoHook
  BY <1>1, <1>2, <1>3 DEF NoHook, Threads
<1>8. faults = 0 /\ UNCHANGED routes => Agreement'
  BY <1>1, <1>2, <1>7 DEF Inv, Agreement, Matches, Effect, routes
<1> QED BY <1>1, <1>2, <1>4, <1>5, <1>6, <1>8, ReleaseInv

\* A thread is a reason to keep the routes.
LEMMA ThreadServes ==
    ASSUME Inv, phase # "exited", NEW c \in Conns,
           hook[c].at \in {"spawned", "waiting", "ran"}
    PROVE  Serving /\ c \in Threads /\ hook[c] \in Thread
<1>1. hook[c] # NoThread
  BY DEF NoThread
<1> QED BY <1>1, ConnCases DEF Inv, Stages, Serving, Owned, Threads, Thread

\* The thread queues up for the mutex.
LEMMA BlockingLockInv ==
    ASSUME Inv, phase # "exited", NEW c \in Conns, blocking_lock(c) PROVE Inv'
<1> DEFINE t == [hook[c] EXCEPT !.at = "waiting"]
<1>1. hook[c] \in Thread /\ hook[c].at = "spawned" /\ Serving
  BY ThreadServes DEF blocking_lock
<1>2. /\ t \in Thread /\ t.at = "waiting" /\ t.on = hook[c].on
      /\ hook' = [hook EXCEPT ![c] = t]
      /\ lock' = Append(lock, c)
      /\ UNCHANGED <<enabled, kernel, kill_switch, conn, phase, listening, faults>>
  BY <1>1 DEF blocking_lock, Thread, routes
<1> HIDE DEF t
<1>3. /\ hook'[c] = t /\ t # NoThread
      /\ \A d \in Conns : d # c => hook'[d] = hook[d]
  BY <1>2 DEF Inv, TypeOK, NoThread, Thread
<1>4. lock \in Seq(Conns) /\ \A i \in 1 .. Len(lock) : lock[i] # c
  BY <1>1 DEF Inv, LockFair
<1>5. /\ lock' \in Seq(Conns) /\ Len(lock') = Len(lock) + 1 /\ lock'[Len(lock) + 1] = c
      /\ \A i \in 1 .. Len(lock) : lock'[i] = lock[i]
      /\ Len(lock) \in Nat /\ lock' # <<>>
  BY <1>2, <1>4
<1>6. LockFair'
  <2>1. \A i, j \in 1 .. Len(lock') : lock'[i] = lock'[j] => i = j
    BY <1>4, <1>5 DEF Inv, LockFair
  <2>2. ASSUME NEW d \in Conns
        PROVE  hook'[d].at \in {"waiting", "ran"} <=> \E i \in 1 .. Len(lock') : lock'[i] = d
    <3>1. CASE d = c
      BY <1>2, <1>3, <1>5, <3>1
    <3>2. CASE d # c
      <4>1. hook[d].at \in {"waiting", "ran"} <=> \E i \in 1 .. Len(lock) : lock[i] = d
        BY DEF Inv, LockFair
      <4>2. (\E i \in 1 .. Len(lock) : lock[i] = d) <=> \E i \in 1 .. Len(lock') : lock'[i] = d
        BY <1>5, <3>2
      <4> QED BY <1>3, <3>2, <4>1, <4>2
    <3> QED BY <3>1, <3>2
  <2>3. ASSUME NEW d \in Conns, hook'[d].at = "ran" PROVE lock' # <<>> /\ lock'[1] = d
    <3>1. d # c /\ hook[d].at = "ran"
      BY <1>2, <1>3, <2>3
    <3>2. lock # <<>> /\ lock[1] = d
      BY <3>1 DEF Inv, LockFair
    <3>3. 1 \in 1 .. Len(lock)
      BY <1>4, <3>2
    <3> QED BY <1>5, <3>2, <3>3
  <2> QED BY <1>5, <2>1, <2>2, <2>3 DEF LockFair
<1>7. TypeOK'
  <2>1. hook' \in [Conns -> {NoThread} \cup Thread]
    BY <1>2 DEF Inv, TypeOK, Thread
  <2>2. \A i, j \in DOMAIN lock' :
           hook'[lock'[i]].at \in {"waiting", "ran"} /\ (lock'[i] = lock'[j] => i = j)
    BY <1>5, <1>6 DEF LockFair
  <2> QED BY <1>2, <2>1, <2>2 DEF Inv, TypeOK, Thread
<1>8. OneHookEach' /\ KillSwitchOwned'
  BY <1>1, <1>2, <1>3 DEF Inv, OneHookEach, NoThread, KillSwitchOwned
<1>9. Stages' /\ Owned' /\ c \in Threads'
  BY <1>1, <1>2, <1>3 DEF Inv, Stages, Serving, Owned, Open, Threads
<1>10. NothingLeftBehind'
  BY <1>9 DEF NothingLeftBehind
<1>11. faults' = 0 => Agreement'
  BY <1>1, <1>2, <1>3, <1>9 DEF Inv, Agreement, Matches, Effect, NoHook
<1> QED BY <1>6, <1>7, <1>8, <1>9, <1>10, <1>11 DEF Inv

\* The holder of the mutex has done what it came for.
LEMMA RunsInv ==
    ASSUME Inv, phase # "exited", NEW c \in Conns, NEW on \in BOOLEAN, Runs(c, on),
           kernel' \subseteq Installed, kill_switch' \in BOOLEAN,
           faults' \in 0 .. MaxFaults, faults' = 0 => faults = 0,
           KillSwitchOwned',
           faults' = 0 /\ (Matches(TRUE) \/ Matches(FALSE)) => Matches(on)'
    PROVE  Inv'
<1> DEFINE t == [hook[c] EXCEPT !.at = "ran"]
<1>1. /\ hook[c] \in Thread /\ hook[c].at = "waiting" /\ hook[c].on = on /\ Serving
      /\ Head(lock) = c
  BY ThreadServes DEF Runs
<1>2. /\ t \in Thread /\ t.at = "ran" /\ t.on = on
      /\ hook' = [hook EXCEPT ![c] = t]
      /\ UNCHANGED <<enabled, conn, lock, phase, listening>>
  BY <1>1 DEF Runs, Thread
<1> HIDE DEF t
<1>3. /\ hook'[c] = t /\ t # NoThread
      /\ \A d \in Conns : d # c => hook'[d] = hook[d]
  BY <1>2 DEF Inv, TypeOK, NoThread, Thread
<1>4. lock \in Seq(Conns) /\ lock # <<>> /\ lock[1] = c
  <2>1. \E i \in 1 .. Len(lock) : lock[i] = c
    BY <1>1 DEF Inv, LockFair
  <2> QED BY <1>1, <2>1 DEF Inv, LockFair
<1>5. \A d \in Conns : hook'[d].at = "ran" => d = c
  BY <1>3, <1>4 DEF Inv, LockFair
<1>6. LockFair'
  BY <1>1, <1>2, <1>3, <1>4, <1>5 DEF Inv, LockFair
<1>7. TypeOK'
  <2>1. hook' \in [Conns -> {NoThread} \cup Thread]
    BY <1>2 DEF Inv, TypeOK, Thread
  <2>2. \A i, j \in DOMAIN lock' :
           hook'[lock'[i]].at \in {"waiting", "ran"} /\ (lock'[i] = lock'[j] => i = j)
    BY <1>6 DEF LockFair
  <2> QED BY <1>2, <2>1, <2>2 DEF Inv, TypeOK, Thread
<1>8. OneHookEach'
  BY <1>1, <1>2, <1>3 DEF Inv, OneHookEach, NoThread
<1>9. Stages' /\ Owned' /\ c \in Threads'
  BY <1>1, <1>2, <1>3 DEF Inv, Stages, Serving, Owned, Open, Threads
<1>10. NothingLeftBehind'
  BY <1>9 DEF NothingLeftBehind
<1>11. faults' = 0 => Agreement'
  <2> SUFFICES ASSUME faults' = 0 PROVE Agreement'
    OBVIOUS
  <2>1. Matches(on)'
    BY <1>1 DEF Inv, Agreement
  <2>2. Matches(TRUE)' \/ Matches(FALSE)'
    BY <2>1
  <2>3. \A d \in Conns : hook'[d].at = "ran" => Matches(hook[d].on)'
    BY <1>2, <1>3, <1>5, <2>1
  <2>4. ~ NoHook'
    BY <1>9 DEF NoHook
  <2> QED BY <2>2, <2>3, <2>4 DEF Agreement
<1> QED BY <1>6, <1>7, <1>8, <1>9, <1>10, <1>11 DEF Inv

\* What teardown and reenable_with_ks leave, when no command fails.
LEMMA MatchesValues ==
    /\ kernel \subseteq Installed /\ kill_switch \in BOOLEAN =>
          /\ Matches(TRUE) =>
                /\ kernel = {"host"} \cup Defaults \cup (IF kill_switch THEN {"jump"} ELSE {})
                /\ kill_switch <=> (RedirectAll /\ WantKillSwitch)
          /\ Matches(FALSE) => kernel = {"host"} /\ ~ kill_switch
BY DEF Matches, Effect

\* The off hook.
LEMMA TeardownInv ==
    ASSUME Inv, phase # "exited", NEW c \in Conns, teardown(c) PROVE Inv'
<1>1. /\ kernel \subseteq Installed /\ kill_switch \in BOOLEAN /\ KillSwitchOwned
      /\ faults \in Nat /\ faults <= MaxFaults /\ MaxFaults \in Nat
  BY ControlAssumption DEF Inv, TypeOK
<1>2. /\ Runs(c, FALSE) /\ kill_switch' = FALSE
      /\ \/ kernel' = kernel \ Removed /\ faults' = faults
         \/ Fault /\ \E item \in Removed : kernel' = kernel \ (Removed \ {item})
  BY DEF teardown
<1>3. /\ kernel' \subseteq Installed /\ faults' \in 0 .. MaxFaults
      /\ faults' = 0 => faults = 0 /\ kernel' = kernel \ Removed
  BY <1>1, <1>2 DEF Fault
<1>4. faults' = 0 => "jump" \notin kernel'
  <2> SUFFICES ASSUME faults' = 0 PROVE "jump" \notin kernel'
    OBVIOUS
  <2>1. faults = 0 /\ kernel' = kernel \ Removed
    BY <1>3
  <2>2. "jump" \in kernel => "jump" \in Removed
    BY <1>1, <2>1 DEF KillSwitchOwned, Removed
  <2> QED BY <2>1, <2>2
<1>5. KillSwitchOwned'
  BY <1>2, <1>4 DEF KillSwitchOwned
<1>6. ASSUME faults' = 0, Matches(TRUE) \/ Matches(FALSE) PROVE Matches(FALSE)'
  <2>1. Defaults \subseteq Split /\ "host" \notin Split /\ "jump" \notin Split
    BY DEF Defaults, Split
  <2>2. kernel \ Removed = {"host"}
    BY <1>1, <1>6, <2>1, MatchesValues DEF Removed, Split
  <2>3. kernel' = {"host"} /\ ~ kill_switch'
    BY <1>2, <1>3, <1>6, <2>2
  <2> QED BY <2>3 DEF Matches, Effect
<1> QED BY <1>2, <1>3, <1>5, <1>6, RunsInv

\* The on hook.
LEMMA ReenableInv ==
    ASSUME Inv, phase # "exited", NEW c \in Conns, reenable_with_ks(c) PROVE Inv'
<1> DEFINE jump == IF NeedsKillSwitch THEN {"jump"} ELSE {}
<1>1. /\ kernel \subseteq Installed /\ kill_switch \in BOOLEAN /\ KillSwitchOwned
      /\ faults \in 0 .. MaxFaults
      /\ RedirectAll \in BOOLEAN /\ WantKillSwitch \in BOOLEAN
  BY ControlAssumption DEF Inv, TypeOK
<1>2. /\ Runs(c, TRUE) /\ faults' = faults
      /\ kernel' = kernel \cup Defaults \cup jump
      /\ kill_switch' = (kill_switch \/ NeedsKillSwitch)
  BY DEF reenable_with_ks
<1>3. /\ kill_switch' \in BOOLEAN
      /\ kill_switch' <=> kill_switch \/ NeedsKillSwitch
  BY <1>1, <1>2
<1>4. kernel' \subseteq Installed /\ ("jump" \in kernel' <=> "jump" \in kernel \/ NeedsKillSwitch)
  BY <1>1, <1>2 DEF Installed, Defaults, Split
<1>5. KillSwitchOwned'
  BY <1>1, <1>2, <1>3, <1>4 DEF KillSwitchOwned
<1>6. ASSUME Matches(TRUE) \/ Matches(FALSE) PROVE Matches(TRUE)'
  <2>1. kernel' = {"host"} \cup Defaults
                    \cup (IF RedirectAll /\ WantKillSwitch THEN {"jump"} ELSE {})
    BY <1>1, <1>2, <1>6, MatchesValues DEF NeedsKillSwitch
  <2>2. kill_switch' <=> RedirectAll /\ WantKillSwitch
    BY <1>1, <1>3, <1>6, MatchesValues DEF NeedsKillSwitch
  <2> QED BY <2>1, <2>2 DEF Matches, Effect, Defaults
<1> QED BY <1>1, <1>2, <1>3, <1>4, <1>5, <1>6, RunsInv

\* The on hook when a command fails: something is missing, nothing is lost.
LEMMA ReenableFailsInv ==
    ASSUME Inv, phase # "exited", NEW c \in Conns, ReenableFails(c) PROVE Inv'
<1>1. /\ kernel \subseteq Installed /\ kill_switch \in BOOLEAN /\ KillSwitchOwned
      /\ faults \in Nat /\ faults <= MaxFaults /\ MaxFaults \in Nat
  BY ControlAssumption DEF Inv, TypeOK
<1>2. /\ Runs(c, TRUE) /\ kill_switch' = kill_switch
      /\ faults' \in 0 .. MaxFaults /\ faults' # 0
      /\ kernel \subseteq kernel' /\ kernel' \subseteq Installed
  <2>1. Runs(c, TRUE) /\ kill_switch' = kill_switch /\ Fault
    BY DEF ReenableFails
  <2>2. kernel' = kernel \/ kernel' = kernel \cup {"low"} \/ kernel' = kernel \cup Split
    BY DEF ReenableFails
  <2>3. kernel \subseteq kernel' /\ kernel' \subseteq Installed
    BY <1>1, <2>2 DEF Installed, Split
  <2>4. faults' \in 0 .. MaxFaults /\ faults' # 0
    BY <1>1, <2>1 DEF Fault
  <2> QED BY <2>1, <2>3, <2>4
<1>3. KillSwitchOwned'
  BY <1>1, <1>2 DEF KillSwitchOwned
<1> QED BY <1>1, <1>2, <1>3, RunsInv

\* The thread sets the switch, lets go of the mutex and ends.
LEMMA HookEndsInv ==
    ASSUME Inv, phase # "exited", NEW c \in Conns, HookEnds(c) PROVE Inv'
<1>1. hook[c] \in Thread /\ hook[c].at = "ran" /\ hook[c].on \in BOOLEAN /\ Serving
  BY ThreadServes DEF HookEnds, Thread
<1>2. /\ hook' = [hook EXCEPT ![c] = NoThread]
      /\ lock' = Tail(lock)
      /\ enabled' = hook[c].on
      /\ UNCHANGED <<conn, phase, listening>>
      /\ DropRoutes
  BY DEF HookEnds
<1>3. /\ hook'[c] = NoThread /\ NoThread.at = "none"
      /\ \A d \in Conns : d # c => hook'[d] = hook[d]
  BY <1>2 DEF Inv, TypeOK, NoThread
<1>4. lock \in Seq(Conns) /\ lock # <<>> /\ lock[1] = c
  BY <1>1 DEF Inv, LockFair
<1>5. /\ lock' \in Seq(Conns) /\ Len(lock) \in Nat \ {0} /\ Len(lock') = Len(lock) - 1
      /\ \A i \in 1 .. Len(lock') : lock'[i] = lock[i + 1] /\ i + 1 \in 1 .. Len(lock)
  BY <1>2, <1>4
<1>6. \A i, j \in 1 .. Len(lock) : lock[i] = lock[j] => i = j
  BY DEF Inv, LockFair
<1>7. \A d \in Conns : hook[d].at = "ran" => d = c
  BY <1>4 DEF Inv, LockFair
<1>8. LockFair'
  <2>1. \A i, j \in 1 .. Len(lock') : lock'[i] = lock'[j] => i = j
    BY <1>5, <1>6
  <2>2. ASSUME NEW d \in Conns
        PROVE  hook'[d].at \in {"waiting", "ran"} <=> \E i \in 1 .. Len(lock') : lock'[i] = d
    <3>1. CASE d = c
      <4>1. ASSUME NEW i \in 1 .. Len(lock') PROVE lock'[i] # c
        <5>1. lock[i + 1] # lock[1]
          BY <1>5, <1>6
        <5> QED BY <1>4, <1>5, <5>1
      <4> QED BY <1>3, <3>1, <4>1
    <3>2. CASE d # c
      <4>1. hook[d].at \in {"waiting", "ran"} <=> \E i \in 1 .. Len(lock) : lock[i] = d
        BY DEF Inv, LockFair
      <4>2. ASSUME NEW i \in 1 .. Len(lock), lock[i] = d
            PROVE  \E j \in 1 .. Len(lock') : lock'[j] = d
        <5>1. i # 1
          BY <1>4, <3>2, <4>2
        <5>2. i - 1 \in 1 .. Len(lock') /\ (i - 1) + 1 = i
          BY <1>5, <5>1
        <5>3. lock'[i - 1] = d
          BY <1>5, <4>2, <5>2
        <5> QED BY <5>2, <5>3
      <4>3. (\E i \in 1 .. Len(lock) : lock[i] = d) <=> \E i \in 1 .. Len(lock') : lock'[i] = d
        BY <1>5, <4>2
      <4> QED BY <1>3, <3>2, <4>1, <4>3
    <3> QED BY <3>1, <3>2
  <2>3. \A d \in Conns : hook'[d].at # "ran"
    BY <1>3, <1>7
  <2> QED BY <1>5, <2>1, <2>2, <2>3 DEF LockFair
<1>9. TypeOK'
  <2>1. hook' \in [Conns -> {NoThread} \cup Thread]
    BY <1>2 DEF Inv, TypeOK, Thread
  <2>2. \A i, j \in DOMAIN lock' :
           hook'[lock'[i]].at \in {"waiting", "ran"} /\ (lock'[i] = lock'[j] => i = j)
    BY <1>5, <1>8 DEF LockFair
  <2>3. kernel' \subseteq Installed /\ kill_switch' \in BOOLEAN /\ faults' \in 0 .. MaxFaults
    BY <1>2, DropRoutesInv
  <2> QED BY <1>1, <1>2, <2>1, <2>2, <2>3 DEF Inv, TypeOK, Thread
<1>10. OneHookEach' /\ Stages' /\ phase' # "exited"
  BY <1>1, <1>2, <1>3 DEF Inv, OneHookEach, Stages, Serving, Open
<1>11. faults = 0 /\ UNCHANGED routes => Agreement'
  <2> SUFFICES ASSUME faults = 0, UNCHANGED routes PROVE Agreement'
    OBVIOUS
  <2>1. Matches(hook[c].on)
    BY <1>1 DEF Inv, Agreement
  <2>2. Matches(TRUE)' \/ Matches(FALSE)'
    BY <1>1, <2>1 DEF Matches, Effect, routes
  <2>3. \A d \in Conns : hook'[d].at # "ran"
    BY <1>3, <1>7
  <2>4. Matches(enabled)'
    BY <1>2, <2>1 DEF Matches, Effect, routes
  <2> QED BY <2>2, <2>3, <2>4 DEF Agreement
<1> QED BY <1>1, <1>2, <1>8, <1>9, <1>10, <1>11, ReleaseInv

-----------------------------------------------------------------------------
(* Start-up and shutdown. *)

\* The routes and the kill switch are in place, or the latter is missing for a
\* command that failed.
LEMMA InstallInv == ASSUME Inv, Install PROVE Inv'
<1>1. /\ phase = "starting" /\ phase' = "up"
      /\ kill_switch' \in {FALSE, WantKillSwitch /\ RedirectAll}
      /\ kernel' = {"host"} \cup Defaults \cup (IF kill_switch' THEN {"jump"} ELSE {})
      /\ \/ kill_switch' = (WantKillSwitch /\ RedirectAll) /\ faults' = faults
         \/ Fault
      /\ listening' \in BOOLEAN
      /\ UNCHANGED <<enabled, conn, hook, lock>>
  BY DEF Install
<1>2. /\ faults \in Nat /\ faults <= MaxFaults /\ MaxFaults \in Nat
      /\ RedirectAll \in BOOLEAN /\ WantKillSwitch \in BOOLEAN
  BY ControlAssumption DEF Inv, TypeOK
<1>3. enabled = TRUE /\ Open = {} /\ Threads = {}
  BY <1>1 DEF Inv, Stages, TypeOK
<1>4. /\ faults' \in 0 .. MaxFaults /\ kill_switch' \in BOOLEAN
      /\ faults' = 0 => (kill_switch' <=> WantKillSwitch /\ RedirectAll)
  <2>1. kill_switch' \in BOOLEAN
    BY <1>1, <1>2
  <2>2. CASE kill_switch' = (WantKillSwitch /\ RedirectAll) /\ faults' = faults
    <3>1. kill_switch' <=> WantKillSwitch /\ RedirectAll
      BY <1>2, <2>2, Zenon
    <3> QED BY <1>2, <2>1, <2>2, <3>1
  <2>3. CASE Fault
    BY <1>2, <2>1, <2>3 DEF Fault
  <2> QED BY <1>1, <2>2, <2>3
<1>5. kernel' \subseteq Installed /\ ("jump" \in kernel' <=> kill_switch')
  BY <1>1, <1>4 DEF Installed, Defaults, Split
<1>6. TypeOK' /\ LockFair' /\ OneHookEach'
  BY <1>1, <1>4, <1>5 DEF Inv, TypeOK, LockFair, OneHookEach
<1>7. Stages' /\ Owned' /\ KillSwitchOwned'
  BY <1>1, <1>5 DEF Stages, Owned, KillSwitchOwned
<1>8. NothingLeftBehind'
  BY <1>7 DEF NothingLeftBehind
<1>9. ASSUME faults' = 0 PROVE Agreement'
  <2>1. kernel' = {"host"} \cup Defaults
                    \cup (IF RedirectAll /\ WantKillSwitch THEN {"jump"} ELSE {})
    BY <1>1, <1>4, <1>9
  <2>2. Matches(TRUE)'
    BY <1>2, <1>4, <1>9, <2>1 DEF Matches, Effect, Defaults
  <2>3. \A c \in Conns : hook'[c].at # "ran"
    BY <1>1, <1>3 DEF Threads, NoThread
  <2>4. Matches(enabled)'
    BY <1>1, <1>3, <2>2 DEF Matches, Effect, Defaults
  <2> QED BY <2>2, <2>3, <2>4 DEF Agreement
<1> QED BY <1>6, <1>7, <1>8, <1>9 DEF Inv

\* The client ends before it has served anybody.
LEMMA InstallFailsInv == ASSUME Inv, InstallFails PROVE Inv'
<1>1. /\ phase = "starting" /\ phase' = "exited" /\ Fault
      /\ UNCHANGED <<enabled, kernel, kill_switch, conn, hook, lock, listening>>
  BY DEF InstallFails, routes
<1>2. faults' \in 0 .. MaxFaults /\ faults' # 0
  BY <1>1, ControlAssumption DEF Inv, TypeOK, Fault
<1>3. kernel = {} /\ ~ listening /\ Open = {} /\ ~ kill_switch
  BY <1>1 DEF Inv, Stages
<1>4. TypeOK' /\ LockFair' /\ OneHookEach'
  BY <1>1, <1>2 DEF Inv, TypeOK, LockFair, OneHookEach
<1>5. Stages' /\ KillSwitchOwned' /\ NothingLeftBehind' /\ ~ Serving'
  BY <1>1, <1>2, <1>3 DEF Stages, KillSwitchOwned, NothingLeftBehind, Serving, Open
<1> QED BY <1>4, <1>5 DEF Inv

\* run notices the shutdown, and the control socket after it.
LEMMA StopInv == ASSUME Inv, Shutdown \/ ServeEnds PROVE Inv'
<1>1. /\ phase \in {"up", "stopping"} /\ phase' = "stopping" /\ listening' \in BOOLEAN
      /\ UNCHANGED <<enabled, kernel, kill_switch, conn, hook, lock, faults>>
  BY DEF Shutdown, ServeEnds, routes, Inv, TypeOK
<1>2. TypeOK' /\ LockFair' /\ OneHookEach'
  BY <1>1 DEF Inv, TypeOK, LockFair, OneHookEach
<1>3. Stages' /\ KillSwitchOwned' /\ Owned' /\ Serving
  BY <1>1 DEF Inv, Stages, KillSwitchOwned, Owned, Serving
<1>4. NothingLeftBehind'
  BY <1>3 DEF NothingLeftBehind
<1>5. faults' = 0 => Agreement'
  BY <1>1, <1>3 DEF Inv, Agreement, Matches, Effect, NoHook, Threads
<1> QED BY <1>2, <1>3, <1>4, <1>5 DEF Inv

\* run lets go of the routes.
LEMMA RunReturnsInv == ASSUME Inv, RunReturns PROVE Inv'
<1>1. /\ phase = "stopping" /\ phase' = "returned" /\ ~ listening
      /\ UNCHANGED <<enabled, conn, hook, lock, listening>> /\ DropRoutes
  BY DEF RunReturns
<1>2. kernel' \subseteq Installed /\ kill_switch' \in BOOLEAN /\ faults' \in 0 .. MaxFaults
  BY <1>1, DropRoutesInv
<1>3. TypeOK' /\ LockFair' /\ OneHookEach' /\ Stages'
  BY <1>1, <1>2 DEF Inv, TypeOK, LockFair, OneHookEach, Stages
<1>4. Serving
  BY <1>1 DEF Serving, Owned
<1>5. faults = 0 /\ UNCHANGED routes => Agreement'
  BY <1>1, <1>4 DEF Inv, Agreement, Matches, Effect, NoHook, Threads, routes
<1> QED BY <1>1, <1>3, <1>4, <1>5, ReleaseInv

\* The process exits, with the threads that are left.
LEMMA ExitInv == ASSUME Inv, Exit PROVE Inv'
<1>1. /\ phase = "returned" /\ phase' = "exited" /\ conn' = [c \in Conns |-> Closed]
      /\ UNCHANGED <<enabled, hook, lock, listening>>
      /\ IF Owned' THEN kernel' = kernel \ Split /\ UNCHANGED <<kill_switch, faults>>
                   ELSE DropRoutes
  BY DEF Exit
<1>2. /\ kernel' \subseteq Installed /\ kill_switch' \in BOOLEAN /\ faults' \in 0 .. MaxFaults
      /\ KillSwitchOwned' /\ NothingLeftBehind'
  <2>1. CASE Owned'
    BY <1>1, <2>1 DEF Inv, TypeOK, KillSwitchOwned, NothingLeftBehind, Split
  <2>2. CASE ~ Owned'
    BY <1>1, <2>2, DropRoutesInv DEF NothingLeftBehind
  <2> QED BY <2>1, <2>2
<1>3. conn' \in [Conns -> {Closed} \cup Asked] /\ \A c \in Conns : conn'[c] = Closed
  BY <1>1
<1>4. TypeOK' /\ LockFair'
  BY <1>1, <1>2, <1>3 DEF Inv, TypeOK, LockFair, Asked
<1>5. OneHookEach' /\ Stages' /\ ~ Serving'
  BY <1>1, <1>3 DEF Inv, OneHookEach, Stages, Open, Serving
<1> QED BY <1>2, <1>4, <1>5 DEF Inv

\* Every step of the client keeps the invariant.
LEMMA NextInv == Inv /\ [Next]_vars => Inv'
<1> SUFFICES ASSUME Inv, [Next]_vars PROVE Inv'
  OBVIOUS
<1>1. CASE Next
  <2>1. phase # "exited"
    BY <1>1 DEF Next
  <2>2. CASE \E c \in Conns, op \in Ops : Accept(c, op)
    BY <2>1, <2>2, AcceptInv
  <2>3. CASE \E c \in Conns : handle_client(c)
    BY <2>3, IsEnabledInv, SetEnabledInv, OnEnableInv, ReplyInv DEF handle_client
  <2>4. CASE \E c \in Conns : Hook(c)
    BY <2>1, <2>4, BlockingLockInv, TeardownInv, ReenableInv, ReenableFailsInv, HookEndsInv
    DEF Hook
  <2>5. CASE Install \/ InstallFails \/ Shutdown \/ ServeEnds \/ RunReturns \/ Exit
    BY <2>5, InstallInv, InstallFailsInv, StopInv, RunReturnsInv, ExitInv
  <2> QED BY <1>1, <2>2, <2>3, <2>4, <2>5 DEF Next
<1>2. CASE UNCHANGED vars
  <2>1. TypeOK' /\ LockFair' /\ OneHookEach'
    BY <1>2 DEF vars, Inv, TypeOK, LockFair, OneHookEach
  <2>2. Stages' /\ KillSwitchOwned' /\ NothingLeftBehind'
    BY <1>2 DEF vars, Inv, Stages, KillSwitchOwned, NothingLeftBehind, Owned, Open, Threads
  <2>3. faults' = 0 /\ Serving' => Agreement'
    BY <1>2 DEF vars, Inv, Serving, Owned, Open, Threads, Agreement, Matches, Effect, NoHook
  <2> QED BY <2>1, <2>2, <2>3 DEF Inv
<1> QED BY <1>1, <1>2

\* When nothing is under way the switch and the kernel agree.
LEMMA QuietAgrees == Inv => SwitchMatchesKernel
<1> SUFFICES ASSUME Inv, Quiet, faults = 0 PROVE kernel = {"host"} \cup Effect(enabled)
  BY DEF SwitchMatchesKernel
<1>1. phase # "exited"
  BY DEF Quiet, Owned, Inv, Stages
<1>2. Serving /\ Threads = {}
  BY <1>1 DEF Quiet, Serving
<1>3. \A c \in Conns : conn[c].at # "hook"
  BY DEF Quiet, Busy, Open, Closed
<1> QED BY <1>2, <1>3 DEF Inv, Agreement, NoHook, Matches

-----------------------------------------------------------------------------
(* Theorems. *)

\* The invariant holds throughout every behaviour of the client.
THEOREM ControlPlaneInv == Spec => []Inv
BY InitInv, NextInv, PTL DEF Spec

\* TypeOK: the state is well typed, and no thread is in the queue of the mutex twice,
\* for any number of connections under way.
THEOREM ControlPlaneTypeCorrect == Spec => []TypeOK
<1>1. Inv => TypeOK
  BY DEF Inv
<1> QED BY <1>1, ControlPlaneInv, PTL

\* SwitchMatchesKernel: requests and hooks of any number of connections, in any
\* order, end with the kernel as the switch says when no command failed.
THEOREM SwitchAndKernelAgree == Spec => []SwitchMatchesKernel
BY QuietAgrees, ControlPlaneInv, PTL

\* KillSwitchOwned: the guard object stands for a jump that is there, however many
\* commands fail, and every jump has one as long as none did.
THEOREM KillSwitchStaysOwned == Spec => []KillSwitchOwned
<1>1. Inv => KillSwitchOwned
  BY DEF Inv
<1> QED BY <1>1, ControlPlaneInv, PTL

\* NothingLeftBehind: the last owner of ClientRoutes leaves nothing in the kernel,
\* whichever owner that is.
THEOREM LastOwnerCleansUp == Spec => []NothingLeftBehind
<1>1. Inv => NothingLeftBehind
  BY DEF Inv
<1> QED BY <1>1, ControlPlaneInv, PTL

\* The dashboard is one more user of the control socket: with it the client does
\* nothing that it does not do without.
THEOREM MonitorIsAUser == MonitorSpec => Spec
<1>1. MonitorInit => Init
  BY DEF MonitorInit
<1>2. Inv /\ [MonitorNext]_monitorVars => [Next]_vars
  <2> SUFFICES ASSUME Inv, [MonitorNext]_monitorVars PROVE [Next]_vars
    OBVIOUS
  <2>1. ASSUME NEW c \in Conns, NEW op \in Ops, Accept(c, op) PROVE Next
    <3>1. phase # "exited"
      BY <2>1 DEF Accept, Inv, Stages
    <3> QED BY <2>1, <3>1 DEF Next
  <2>2. ASSUME NEW op \in Ops, Request(op) PROVE [Next]_vars
    BY <2>1, <2>2 DEF Request
  <2>3. CASE Probe
    BY <2>1, <2>3 DEF Probe, Ops
  <2>4. CASE Poll \/ Key("on") \/ Key("off") \/ Toggle
    BY <2>2, <2>4 DEF Poll, Key, Toggle, Ops
  <2>5. CASE Daemon \/ Quit \/ UNCHANGED monitorVars
    BY <2>5 DEF Daemon, Quit, monitorVars
  <2> QED BY <2>3, <2>4, <2>5 DEF MonitorNext
<1> QED BY <1>1, <1>2, InitInv, NextInv, PTL DEF MonitorSpec, Spec
=============================================================================
