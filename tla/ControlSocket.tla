--------------------------- MODULE ControlSocket ---------------------------
(***************************************************************************)
(* The control socket of the daemon on macOS and Windows                   *)
(* (src/daemon/control_plane.rs): one path for all daemons of a user.  A   *)
(* daemon that finds the address in use probes it, and takes the file      *)
(* away when nothing answers.  No step looks whose file it acts on.        *)
(*                                                                         *)
(* The path holds nothing or the file of the daemon that bound it last;    *)
(* the file of one that is gone is stale.  On Linux the session bus hands  *)
(* out the name instead, in one step.                                      *)
(*                                                                         *)
(* The module has no specification of its own: its actions are steps of a  *)
(* daemon (module Startup).                                                *)
(***************************************************************************)
CONSTANT NoFile

VARIABLES
    phase,      \* each daemon's progress
    path        \* the file at the control socket's path: its daemon, or NoFile

\* A connect to the path is answered.
Answered == path # NoFile /\ phase[path] = "serving"

MoveTo(d, next) == phase' = [phase EXCEPT ![d] = next]

Bind(d) ==
    /\ phase[d] = "binding"
    /\ IF path = NoFile
          THEN path' = d /\ MoveTo(d, "bound")
          ELSE MoveTo(d, "probing") /\ UNCHANGED path

\* A probe that fails ends the start.
ProbeGivesUp(d) ==
    /\ phase[d] = "probing"
    /\ MoveTo(d, "ended")
    /\ UNCHANGED path

\* The probe's answer is not looked at.
ProbeTakesOver(d) ==
    /\ phase[d] = "probing"
    /\ MoveTo(d, "unlinking")
    /\ UNCHANGED path

\* Connection refused, or no such file: the socket is taken for stale.
Probe(d) ==
    /\ phase[d] = "probing"
    /\ IF Answered THEN MoveTo(d, "ended") ELSE MoveTo(d, "unlinking")
    /\ UNCHANGED path

Unlink(d) ==
    /\ phase[d] = "unlinking"
    /\ path' = NoFile
    /\ MoveTo(d, "rebinding")

\* The second bind is the last.
Rebind(d) ==
    /\ phase[d] = "rebinding"
    /\ IF path = NoFile
          THEN path' = d /\ MoveTo(d, "bound")
          ELSE MoveTo(d, "ended") /\ UNCHANGED path

\* The bound socket listens, and its file gets its permissions, for which there
\* must be one.
Listen(d) ==
    /\ phase[d] = "bound"
    /\ IF path = NoFile THEN MoveTo(d, "ended") ELSE MoveTo(d, "serving")
    /\ UNCHANGED path

\* A signal, or the end of the endpoint: cleanup_socket removes the file ...
Stop(d) ==
    /\ phase[d] = "serving"
    /\ path' = NoFile
    /\ MoveTo(d, "stopping")

\* ... and the process exits.
Exit(d) ==
    /\ phase[d] = "stopping"
    /\ MoveTo(d, "ended")
    /\ UNCHANGED path

\* The process exits, its key unlocked, before the file is removed.
ExitBeforeCleanup(d) ==
    /\ phase[d] = "stopping"
    /\ path' = NoFile
    /\ MoveTo(d, "ended")
============================================================================
