-------------------------------- MODULE Pump --------------------------------
(***************************************************************************)
(* One call of pump_streams (src/proxy.rs), the code under every forwarded *)
(* connection: two one-way copies between a local stream and the two       *)
(* halves of a QUIC stream.  The `up` copy runs in the caller's own task;  *)
(* the `down` copy is a spawned task, which goes on until it ends or       *)
(* notices that it was aborted, whatever happens to the caller.            *)
(*                                                                         *)
(* The module has no specification of its own: its actions are steps of a  *)
(* caller (module Tunnel).  Copying a chunk is one step, so the few bytes  *)
(* that io::copy holds between a read and its write are counted as unread. *)
(***************************************************************************)
EXTENDS Pipes

CONSTANT HasTimeout     \* close_on_request_timeout is Some(_)

VARIABLES
    localRead, localWrite,      \* the local stream's halves
    remoteSend, remoteRecv,     \* the QUIC stream's halves
    lost,                       \* the QUIC connection is closed at this end
    pump,                       \* where the caller is, or what it returned
    down                        \* the spawned task

pumpVars == <<localRead, localWrite, remoteSend, remoteRecv, pump, down>>

\* What pump_streams returned, "timedOut" being Ok with `timed_out` set; a call
\* whose future was dropped returned nothing, and is told apart by the copy it was in.
Returned == {"ok", "timedOut", "upFailed", "downFailed"}
Dropped == {"droppedUp", "droppedDown"}
PumpStates == {"idle", "up", "down"} \cup Returned \cup Dropped
\* The up copy came to its end.
UpEnded == {"down", "ok", "timedOut", "downFailed", "droppedDown"}
DownStates == {"idle", "copying", "aborting", "ok", "failed", "aborted"}
DownEnded == {"ok", "failed", "aborted"}

\* JoinHandle::abort: a task that runs is told to stop, and stops at its next
\* poll; one that ended is left alone.
Abort(d) == IF d = "copying" THEN "aborting" ELSE d

Start ==
    /\ pump = "idle"
    /\ pump' = "up"
    /\ down' = "copying"
    /\ UNCHANGED <<localRead, localWrite, remoteSend, remoteRecv>>
----------------------------------------------------------------------------
(* up: localRead -> remoteSend                                             *)

\* That a peer stopped reading, or reset, is seen some time later: until then
\* chunks are still moved.
UpCopy ==
    /\ pump = "up"
    /\ ~lost
    /\ HasData(localRead)
    /\ HasRoom(remoteSend)
    /\ localRead' = Take(localRead)
    /\ remoteSend' = Put(remoteSend)
    /\ UNCHANGED <<localWrite, remoteRecv, pump, down>>

\* The send half is finished without waiting for the rest to be delivered; that
\* this failed is only logged.
UpEof ==
    /\ pump = "up"
    /\ AtEof(localRead)
    /\ remoteSend' = Finish(remoteSend)
    /\ pump' = "down"
    /\ UNCHANGED <<localRead, localWrite, remoteRecv, down>>

\* A write fails on a closed connection or on a stream the peer stopped, but
\* only when there is something to write: a copy that waits for its local reader
\* does not notice.
UpBroken ==
    \/ localRead.wr = "dead"
    \/ HasData(localRead) /\ (lost \/ remoteSend.rd = "gone")

\* The error of the up copy is dropped instead of returned.
UpFailSwallowed ==
    /\ pump = "up"
    /\ UpBroken
    /\ pump' = "down"
    /\ remoteSend' = Finish(remoteSend)
    /\ UNCHANGED <<localRead, localWrite, remoteRecv, down>>

\* The call returns the error: it aborts the sibling and drops the send half.
UpFail ==
    /\ pump = "up"
    /\ UpBroken
    /\ pump' = "upFailed"
    /\ down' = Abort(down)
    /\ remoteSend' = Finish(remoteSend)
    /\ UNCHANGED <<localRead, localWrite, remoteRecv>>
----------------------------------------------------------------------------
(* down: remoteRecv -> localWrite.  A task that was told to stop may still *)
(* be running a poll, and finish it.                                       *)

DownRuns == down \in {"copying", "aborting"}

DownCopy ==
    /\ DownRuns
    /\ HasData(remoteRecv)
    /\ HasRoom(localWrite)
    /\ remoteRecv' = Take(remoteRecv)
    /\ localWrite' = Put(localWrite)
    /\ UNCHANGED <<localRead, remoteSend, pump, down>>

DownEof ==
    /\ DownRuns
    /\ AtEof(remoteRecv)
    /\ localWrite' = Finish(localWrite)
    /\ down' = "ok"
    /\ UNCHANGED <<localRead, remoteSend, remoteRecv, pump>>

\* What the task's end drops, however it ends: both of its halves.
DropDown ==
    /\ remoteRecv' = StopReading(remoteRecv)
    /\ localWrite' = Finish(localWrite)
    /\ UNCHANGED <<localRead, remoteSend, pump>>

\* The connection is closed (what had arrived may be read first, or not), or
\* the local stream takes no more.
DownFail ==
    /\ DownRuns
    /\ \/ lost
       \/ HasData(remoteRecv) /\ localWrite.rd = "gone"
    /\ down' = "failed"
    /\ DropDown

DownCancel ==
    /\ down = "aborting"
    /\ down' = "aborted"
    /\ DropDown
----------------------------------------------------------------------------
(* The rest of the call                                                    *)

\* The call awaits the down task ...
Join ==
    /\ pump = "down"
    /\ down \in {"ok", "failed"}
    /\ pump' = IF down = "ok" THEN "ok" ELSE "downFailed"
    /\ UNCHANGED <<localRead, localWrite, remoteSend, remoteRecv, down>>

\* The timeout drops the task's handle, which does not stop it.
TimeoutDetaches ==
    /\ HasTimeout
    /\ pump = "down"
    /\ down = "copying"
    /\ pump' = "timedOut"
    /\ UNCHANGED <<localRead, localWrite, remoteSend, remoteRecv, down>>

\* The timeout is one of silence: it waits for a response that is under way.
TimeoutWhenQuiet ==
    /\ HasTimeout
    /\ pump = "down"
    /\ down = "copying"
    /\ ~HasData(remoteRecv)
    /\ down' = Abort(down)
    /\ pump' = "timedOut"
    /\ UNCHANGED <<localRead, localWrite, remoteSend, remoteRecv>>

\* ... for as long as the timeout lets it.  A task that has ended wins.
Timeout ==
    /\ HasTimeout
    /\ pump = "down"
    /\ down = "copying"
    /\ down' = Abort(down)
    /\ pump' = "timedOut"
    /\ UNCHANGED <<localRead, localWrite, remoteSend, remoteRecv>>

\* The caller's task is aborted and the call's future dropped: the send half and
\* the local read half go with it, the JoinHandle only detaches the down task.
Cancel ==
    /\ pump \in {"up", "down"}
    /\ pump' = IF pump = "up" THEN "droppedUp" ELSE "droppedDown"
    /\ remoteSend' = Finish(remoteSend)
    /\ UNCHANGED <<localRead, localWrite, remoteRecv, down>>

UpStep == UpCopy \/ UpEof \/ UpFail
DownStep == DownCopy \/ DownEof \/ DownFail \/ DownCancel
============================================================================
