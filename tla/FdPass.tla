------------------------------- MODULE FdPass -------------------------------
(***************************************************************************)
(* `iroh-proxy forward` with no address of its own, as ssh's ProxyCommand: *)
(*                                                                         *)
(*   fdpass   the process that ssh starts makes a socketpair, starts a     *)
(*            relay that inherits one end, sends ssh the other and exits   *)
(*            (src/fdpass.rs); ssh waits for its exit.                     *)
(*   stdio    the process that ssh starts is the relay, between ssh's two  *)
(*            pipes (forward_stdio of src/forward.rs).                     *)
(*                                                                         *)
(* The relay loads its key, connects, and pumps until both directions are  *)
(* over.  Connecting is the loop of module Retry, whose clock runs only    *)
(* then.  A socket is at its end for one side when no process holds the    *)
(* other end any more, so the processes' descriptor tables are modelled.   *)
(***************************************************************************)
EXTENDS Retry

CONSTANT TopFd      \* bound: the highest descriptor

ASSUME FdAssumption == TopFd \in Nat /\ TopFd >= 5

VARIABLES
    mode,           \* "fdpass" or "stdio"
    ssh,            \* what ssh does
    parent,         \* the process that ssh started, in fdpass mode
    relay,          \* the process that relays
    fds, cloexec,   \* the parent's descriptors, and those that close on exec
    relayFds,       \* the relay's descriptors
    up, down,       \* the relay's two copies
    lost            \* the relay's connection is lost

processVars == <<ssh, parent, relay>>
tableVars == <<fds, cloexec, relayFds>>
pumpVars == <<up, down, lost>>
fdPassVars == <<mode, processVars, tableVars, pumpVars, vars>>

Fds == 0 .. TopFd
Std == 0 .. 2
RelayFd == 3        \* what the relay is told with --fdpass-fd
Contents == {"free", "other", "sshEnd", "relayEnd"}
NoFds == [fd \in Fds |-> "free"]

SshStates == {"waiting", "using", "failed", "gone"}
ParentStates == {"none", "started", "paired", "spawned", "sending", "sent", "ended"}
RelayStates == {"none", "loading", "connecting", "pumping", "leaving", "ended"}

Lowest(table) == CHOOSE fd \in Fds :
    table[fd] = "free" /\ \A e \in Fds : e < fd => table[e] # "free"

\* A process that runs holds this end.
HeldByParent(end) == \E fd \in Fds : fds[fd] = end
HeldByRelay(end) == \E fd \in Fds : relayFds[fd] = end

\* ssh has its end from the moment it was sent, unless it is gone by then.
SshHolds ==
    \/ ssh = "using"
    \/ ssh = "waiting" /\ parent \in {"sent", "ended"}

\* The relay reads an end of file, once it has read everything.
SshEof == ~SshHolds /\ ~HeldByParent("sshEnd") /\ ~HeldByRelay("sshEnd")

\* ssh does: the relay's write half dropped, or nobody holds the relay's end.  In
\* stdio mode stdout is still open after the copy, and closes at the exit only.
RelayEof ==
    \/ mode = "fdpass" /\ down = "over"
    \/ ~HeldByParent("relayEnd") /\ ~HeldByRelay("relayEnd")

\* In fdpass mode any descriptors may be in use when the parent gets to it, all
\* of them opened by libraries that close theirs on exec.
FdPassInit ==
    /\ Init
    /\ mode \in {"fdpass", "stdio"}
    /\ ssh = IF mode = "fdpass" THEN "waiting" ELSE "using"
    /\ parent = IF mode = "fdpass" THEN "started" ELSE "none"
    /\ relay = IF mode = "fdpass" THEN "none" ELSE "loading"
    /\ \E busy \in SUBSET (3 .. TopFd - 2) :
          /\ fds = IF mode = "stdio" THEN NoFds
                   ELSE [fd \in Fds |-> IF fd \in Std \cup busy THEN "other" ELSE "free"]
          /\ cloexec = IF mode = "stdio" THEN {} ELSE busy
    /\ relayFds = IF mode = "fdpass" THEN NoFds
                  ELSE [fd \in Fds |-> IF fd = 1 THEN "relayEnd"
                                       ELSE IF fd \in Std THEN "other" ELSE "free"]
    /\ up = "idle" /\ down = "idle" /\ lost = FALSE
----------------------------------------------------------------------------
(* The parent: run_fdpass_parent                                           *)

\* Both ends of the pair survive an exec.
SocketpairInheritable ==
    /\ parent = "started"
    /\ LET forSsh == Lowest(fds)
           rest == [fds EXCEPT ![forSsh] = "sshEnd"]
       IN  fds' = [rest EXCEPT ![Lowest(rest)] = "relayEnd"]
    /\ parent' = "paired"
    /\ UNCHANGED <<mode, ssh, relay, cloexec, relayFds, pumpVars, vars>>

\* unix_socketpair takes the two lowest descriptors, and has them close on exec.
Socketpair ==
    /\ parent = "started"
    /\ LET forSsh == Lowest(fds)
           rest == [fds EXCEPT ![forSsh] = "sshEnd"]
           forChild == Lowest(rest)
       IN  /\ fds' = [rest EXCEPT ![forChild] = "relayEnd"]
           /\ cloexec' = cloexec \cup {forSsh, forChild}
    /\ parent' = "paired"
    /\ UNCHANGED <<mode, ssh, relay, relayFds, pumpVars, vars>>

\* What a child has after its exec, when pre_exec moved nothing but clears the
\* flag of its end where that is.
ExecsUnmoved ==
    [fd \in Fds |-> IF fd \in cloexec /\ fds[fd] # "relayEnd" THEN "free" ELSE fds[fd]]

\* spawn_relay_child forks; pre_exec dups the relay's end to RelayFd, over whatever
\* the copied table has there, and clears its flag; the exec closes the rest.
Execs ==
    [fd \in Fds |-> CASE fd = RelayFd -> "relayEnd"
                      [] fd \in cloexec \ {RelayFd} -> "free"
                      [] OTHER -> fds[fd]]

SpawnRelay ==
    /\ parent = "paired"
    /\ relayFds' = Execs
    /\ relay' = "loading"
    /\ parent' = "spawned"
    /\ UNCHANGED <<mode, ssh, fds, cloexec, pumpVars, vars>>

DropForChild ==
    /\ parent = "spawned"
    /\ fds' = [fd \in Fds |-> IF fds[fd] = "relayEnd" THEN "free" ELSE fds[fd]]
    /\ parent' = "sending"
    /\ UNCHANGED <<mode, ssh, relay, cloexec, relayFds, pumpVars, vars>>

\* sendmsg with SCM_RIGHTS on stdout puts a copy of the end on its way to ssh.
SendFd ==
    /\ parent = "sending"
    /\ ssh = "waiting"
    /\ parent' = "sent"
    /\ UNCHANGED <<mode, ssh, relay, tableVars, pumpVars, vars>>

\* The parent exits, having sent the end or having failed, or it is killed at any
\* point; ssh's wait is over.
ParentExits ==
    /\ parent \notin {"none", "ended"}
    /\ parent' = "ended"
    /\ fds' = NoFds
    /\ cloexec' = {}
    /\ ssh' = CASE ssh # "waiting" -> ssh
                [] ssh = "waiting" /\ parent = "sent" -> "using"
                [] OTHER -> "failed"
    /\ UNCHANGED <<mode, relay, relayFds, pumpVars, vars>>

\* ssh closes its socket, or dies, whenever it wants.
SshCloses ==
    /\ ssh \in {"waiting", "using"}
    /\ ssh' = "gone"
    /\ UNCHANGED <<mode, parent, relay, tableVars, pumpVars, vars>>
----------------------------------------------------------------------------
(* The relay: run_fdpass_child, forward_stdio                              *)

RelayRest == UNCHANGED <<mode, ssh, parent, fds, cloexec>>

RelayExits ==
    /\ relay' = "ended"
    /\ relayFds' = NoFds

\* The key, the remote path, the descriptor and the endpoint, any of which may
\* fail.  (An unreachable relay server does not: build_endpoint waits for at most
\* 20 s.)
Loads ==
    /\ relay = "loading"
    /\ relay' = "connecting"
    /\ UNCHANGED relayFds
    /\ UNCHANGED <<pumpVars, vars>> /\ RelayRest

LoadFails ==
    /\ relay = "loading"
    /\ RelayExits
    /\ UNCHANGED <<pumpVars, vars>> /\ RelayRest

ConnectStep(step) ==
    /\ relay = "connecting"
    /\ step
    /\ UNCHANGED <<relay, relayFds, pumpVars>> /\ RelayRest

Connects == ConnectStep(Loop)

\* Every result but one is an error that main reports as it exits.
ConnectEnds ==
    /\ relay = "connecting"
    /\ pc = "done"
    /\ IF result = "ok"
          THEN /\ relay' = "pumping" /\ up' = "copying" /\ down' = "copying"
               /\ UNCHANGED relayFds
          ELSE RelayExits /\ UNCHANGED <<up, down>>
    /\ UNCHANGED <<lost, vars>> /\ RelayRest

\* The connection is lost, which ends the response at once, or the remote ends it.
ConnLost ==
    /\ relay = "pumping"
    /\ ~lost
    /\ lost' = TRUE
    /\ down' = "over"
    /\ UNCHANGED <<up, relay, relayFds, vars>> /\ RelayRest

RemoteEnds ==
    /\ relay = "pumping"
    /\ down = "copying"
    /\ down' = "over"
    /\ UNCHANGED <<up, lost, relay, relayFds, vars>> /\ RelayRest

UpEof ==
    /\ relay = "pumping"
    /\ up = "copying"
    /\ SshEof
    /\ up' = "over"
    /\ UNCHANGED <<down, lost, relay, relayFds, vars>> /\ RelayRest

\* The upload fails, at the first write after the connection was lost.  In stdio
\* mode the process cannot exit while a thread of the runtime reads stdin.
UpFails ==
    /\ relay = "pumping"
    /\ up = "copying"
    /\ lost
    /\ IF mode = "stdio" THEN relay' = "leaving" /\ UNCHANGED relayFds ELSE RelayExits
    /\ UNCHANGED <<pumpVars, vars>> /\ RelayRest

StdinEnds ==
    /\ relay = "leaving"
    /\ SshEof
    /\ RelayExits
    /\ UNCHANGED <<pumpVars, vars>> /\ RelayRest

PumpEnds ==
    /\ relay = "pumping"
    /\ up = "over" /\ down = "over"
    /\ RelayExits
    /\ UNCHANGED <<pumpVars, vars>> /\ RelayRest

\* The relay was started in a session of its own, and may be killed even so.
RelayKilled ==
    /\ relay \notin {"none", "ended"}
    /\ RelayExits
    /\ UNCHANGED <<pumpVars, vars>> /\ RelayRest
----------------------------------------------------------------------------
Parent == Socketpair \/ SpawnRelay \/ DropForChild \/ SendFd \/ ParentExits

Relay ==
    \/ Loads \/ LoadFails \/ Connects \/ ConnectEnds
    \/ UpEof \/ UpFails \/ StdinEnds \/ PumpEnds

FdPassNext == Parent \/ SshCloses \/ Relay \/ ConnLost \/ RemoteEnds \/ RelayKilled

\* The processes run, and the connect's timers fire; neither ssh nor the remote
\* has to end anything, and no attempt to connect has to be answered.
FdPassFairness ==
    /\ WF_fdPassVars(ParentExits)
    /\ WF_fdPassVars(Loads \/ LoadFails)
    /\ WF_fdPassVars(ConnectStep(Tick)) /\ WF_fdPassVars(ConnectStep(AttemptTimeout))
    /\ WF_fdPassVars(ConnectStep(Wake)) /\ WF_fdPassVars(ConnectEnds)
    /\ WF_fdPassVars(UpEof) /\ WF_fdPassVars(StdinEnds) /\ WF_fdPassVars(PumpEnds)

FdPassSpec == FdPassInit /\ [][FdPassNext]_fdPassVars /\ FdPassFairness
----------------------------------------------------------------------------
FdPassTypeOK ==
    /\ TypeOK
    /\ mode \in {"fdpass", "stdio"}
    /\ ssh \in SshStates /\ parent \in ParentStates /\ relay \in RelayStates
    /\ fds \in [Fds -> Contents] /\ cloexec \subseteq Fds
    /\ relayFds \in [Fds -> Contents]
    /\ up \in {"idle", "copying", "over"} /\ down \in {"idle", "copying", "over"}
    /\ lost \in BOOLEAN

\* "The relay inherits only its own socketpair end on fd 3" (README.md:315),
\* whatever descriptors were in use when the pair was made, the lowest included.
RelayHoldsItsEndOnly ==
    mode = "fdpass" /\ relay \notin {"none", "ended"} =>
        {fd \in Fds \ Std : relayFds[fd] # "free"} = {RelayFd}

\* A relay that ssh has left ends, whether ssh closed its socket, died before it
\* got one, or the parent was killed half-way, "once the remote side also closes"
\* (README.md:316-318; fdpass.rs:116-117): no relay is kept alive by itself.
OrphanedRelayEnds ==
    WF_fdPassVars(up = "over" /\ RemoteEnds) =>
        (ssh \in {"gone", "failed"} /\ parent \in {"none", "ended"}
            ~> relay \in {"none", "ended"})

\* ssh never waits in vain on the socket it was passed: within the connect's
\* deadline there is a connection behind it, or it reads an end of file, and it
\* does so again when that connection is lost (fdpass.rs:54, 103-112).
Connected == relay = "pumping" /\ ~lost
SshIsNotLeftWaiting ==
    mode = "fdpass" /\ ssh = "using" ~> Connected \/ RelayEof \/ ssh # "using"
=============================================================================
