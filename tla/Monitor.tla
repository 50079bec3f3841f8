------------------------------ MODULE Monitor -------------------------------
(***************************************************************************)
(* The dashboard (monitor.rs) beside a running client: it polls the status *)
(* through the control socket, shows the last snapshot it got, and sends   *)
(* on and off when keys are pressed (control::request).  The command line  *)
(* is the other user of the socket; its requests are those of ControlPlane.*)
(*                                                                         *)
(* The dashboard waits for each answer.  A request fails when nobody       *)
(* listens, and when the process goes before it has answered.  Of a        *)
(* snapshot only the switch is kept; rates and drawing are left out.       *)
(***************************************************************************)
EXTENDS ControlPlane

VARIABLE mon    \* the dashboard: what it waits for, snap.enabled and err

monitorVars == <<vars, mon>>

Off == [at |-> "off"]
NoConn == "no-connection"

MonitorInit == Init /\ mon = Off

Watching == mon.at \in {"loop", "asking"}
Waiting == mon.at \in {"probe", "asking"}

\* control::request: somebody accepts the connection, or nobody listens.
Request(op) ==
    \/ \E c \in Conns : Accept(c, op) /\ mon' = [mon EXCEPT !.at = "asking", !.conn = c]
    \/ ~ listening /\ mon' = [mon EXCEPT !.err = TRUE] /\ UNCHANGED vars

\* run: one probe before the terminal is taken over; if it fails so does run.
Probe ==
    /\ mon = Off
    /\ \E c \in Conns :
          /\ Accept(c, "status")
          /\ mon' = [at |-> "probe", conn |-> c, snap |-> FALSE, err |-> FALSE]

\* ui_loop, when a poll is due.
Poll == mon.at = "loop" /\ Request("status")

\* The keys o and f, and space, which asks for the other of what is shown.
Key(op) == mon.at = "loop" /\ Request(op)
Toggle == Key(IF mon.snap THEN "off" ELSE "on")

Quit == mon.at = "loop" /\ mon' = Off /\ UNCHANGED vars

\* Mutation of Answered: the first snapshot stays.
AnsweredFirst ==
    IF mon.at = "probe"
    THEN [mon EXCEPT !.at = "loop", !.conn = NoConn, !.snap = enabled]
    ELSE [mon EXCEPT !.at = "loop", !.conn = NoConn, !.err = FALSE]

\* What the dashboard makes of an answer, and of a connection that was cut.
Answered == [mon EXCEPT !.at = "loop", !.conn = NoConn, !.snap = enabled, !.err = FALSE]

Cut ==
    IF mon.at = "probe" THEN Off
    ELSE [mon EXCEPT !.at = "loop", !.conn = NoConn, !.err = TRUE]

Seen ==
    IF Waiting /\ conn'[mon.conn] = Closed
    THEN mon' = IF phase' = "exited" THEN Cut ELSE Answered
    ELSE UNCHANGED mon

Daemon == Next /\ Seen

MonitorNext ==
    \/ Daemon
    \/ Probe \/ Poll \/ Key("on") \/ Key("off") \/ Toggle \/ Quit

Alive == phase # "exited"

\* Tasks and threads go on, and the dashboard polls twice a second, keys or no keys.
\* Of the shutdown, serve sees the signal and the runtime ends once run has returned;
\* that run returns is not assumed, as it waits for maintenance.
MonitorFairness ==
    /\ \A c \in Conns :
          /\ WF_monitorVars(Alive /\ handle_client(c) /\ Seen)
          /\ WF_monitorVars(Alive /\ Hook(c) /\ Seen)
    /\ WF_monitorVars(Alive /\ (ServeEnds \/ Exit) /\ Seen)
    /\ SF_monitorVars(Poll)

MonitorSpec == MonitorInit /\ [][MonitorNext]_monitorVars /\ MonitorFairness

-----------------------------------------------------------------------------
(* Properties. *)

NobodyAsks == \A c \in Open : conn[c].op = "status"

\* Once nobody switches any more, the dashboard comes to show what is.  While the
\* control socket is there, that is the switch as it stays, and with it the routes and
\* the kill switch if no command failed; once it is gone, an error, whether the process
\* has exited or hangs in its shutdown.
ScreenCatchesUp ==
    <>[]NobodyAsks =>
        <>[](Watching =>
                IF listening
                THEN /\ mon.snap = enabled /\ ~ mon.err
                     /\ faults = 0 => kernel = {"host"} \cup Effect(mon.snap)
                ELSE mon.err)
=============================================================================
