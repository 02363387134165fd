------------------------------- MODULE Tunnel -------------------------------
(***************************************************************************)
(* One forwarded TCP connection from end to end, once its QUIC connection  *)
(* is established:                                                         *)
(*                                                                         *)
(*          appOut           req            tgtIn                          *)
(*        --------> client --------> server ------->                       *)
(*   app            (fwd)            (route)        target                 *)
(*        <--------        <--------        <-------                       *)
(*          appIn            resp           tgtOut                         *)
(*                                                                         *)
(* The client is forward_tcp_conn (src/proxy.rs), the server is            *)
(* handle_incoming with proxy_to_route (src/daemon/routes.rs).  Both run   *)
(* pump_streams (module Pump) between their local socket and the stream.   *)
(* The app and the target are any programs: they write, read, end and      *)
(* reset their sockets as they like, up to ReqChunks and RespChunks.       *)
(*                                                                         *)
(* Each end has its own view of the connection: closing it, or dropping    *)
(* the last handle to it, is seen by the other end some time later.        *)
(***************************************************************************)
EXTENDS Pipes

CONSTANTS
    ReqChunks,      \* the app writes at most this much
    RespChunks,     \* the target writes at most this much
    HasTimeout,     \* the client has a close_on_request_timeout
    Faults          \* what may go wrong, of FaultKinds

FaultKinds == {"appReset", "targetReset", "net", "cancel", "dial"}

ASSUME TunnelAssumption ==
    /\ ReqChunks \in Nat
    /\ RespChunks \in Nat
    /\ HasTimeout \in BOOLEAN
    /\ Faults \subseteq FaultKinds

VARIABLES
    appOut, appIn,      \* the app's connection to the client
    req, resp,          \* the QUIC stream
    tgtOut, tgtIn,      \* the server's connection to the target
    cPhase, cPump, cDown, cLost,
    sPhase, sPump, sDown, sLost

clientVars == <<cPhase, cPump, cDown, cLost>>
serverVars == <<sPhase, sPump, sDown, sLost>>
pipeVars == <<appOut, appIn, req, resp, tgtOut, tgtIn>>
vars == <<pipeVars, clientVars, serverVars>>

C == INSTANCE Pump WITH
        localRead <- appOut, localWrite <- appIn,
        remoteSend <- req, remoteRecv <- resp,
        lost <- cLost, pump <- cPump, down <- cDown

\* The serve side passes no timeout.
S == INSTANCE Pump WITH
        localRead <- tgtOut, localWrite <- tgtIn,
        remoteSend <- resp, remoteRecv <- req,
        lost <- sLost, pump <- sPump, down <- sDown,
        HasTimeout <- FALSE

ClientPhases == {"opening", "pumping", "done", "failed", "aborted"}
ServerPhases == {"accepting", "dialing", "pumping", "draining", "done", "failed"}

ServerEnded == {"done", "failed"}

Init ==
    /\ appOut = EmptyPipe /\ appIn = EmptyPipe
    /\ req = EmptyPipe /\ resp = EmptyPipe
    /\ tgtOut = EmptyPipe /\ tgtIn = EmptyPipe
    /\ cPhase = "opening" /\ cPump = "idle" /\ cDown = "idle" /\ cLost = FALSE
    /\ sPhase = "accepting" /\ sPump = "idle" /\ sDown = "idle" /\ sLost = FALSE
----------------------------------------------------------------------------
(* The client: forward_tcp_conn                                            *)

\* open_bi makes the stream at this end only: nothing is sent until something
\* is written to it, or it is finished.
OpenBi ==
    /\ cPhase = "opening"
    /\ ~cLost
    /\ cPhase' = "pumping"
    /\ C!Start
    /\ UNCHANGED <<tgtOut, tgtIn, cLost, serverVars>>

\* open_bi fails on a closed connection; the socket and the connection drop.
OpenBiFails ==
    /\ cPhase = "opening"
    /\ cLost
    /\ cPhase' = "failed"
    /\ appIn' = Finish(appIn)
    /\ UNCHANGED <<appOut, req, resp, tgtOut, tgtIn, cPump, cDown, cLost, serverVars>>

ClientRest == UNCHANGED <<tgtOut, tgtIn, cPhase, cLost, serverVars>>

ClientUp == C!UpStep /\ ClientRest
ClientDown == C!DownStep /\ ClientRest
ClientJoin == C!Join /\ ClientRest
ClientTimeout == C!Timeout /\ ClientRest

\* conn.close on every path out of pump_streams.
ClientClose ==
    /\ cPhase = "pumping"
    /\ cPump \in C!Returned
    /\ cPhase' = "done"
    /\ cLost' = TRUE
    /\ UNCHANGED <<pipeVars, cPump, cDown, serverVars>>

\* del-forward, or the listener's end, aborts the connection's task: its future
\* drops here, the inbound socket with it when it was not yet split.
ClientAborted ==
    /\ "cancel" \in Faults
    /\ \/ /\ cPhase = "pumping"
          /\ C!Cancel
       \/ /\ cPhase = "opening"
          /\ appIn' = Finish(appIn)
          /\ UNCHANGED <<appOut, req, resp, cPump, cDown>>
    /\ cPhase' = "aborted"
    /\ UNCHANGED <<tgtOut, tgtIn, cLost, serverVars>>

\* Without a close, the connection ends when its last handle drops; the down
\* task holds one, its RecvStream.
ClientDropsConn ==
    /\ cPhase = "aborted"
    /\ cDown \in {"idle"} \cup C!DownEnded
    /\ ~cLost
    /\ cLost' = TRUE
    /\ UNCHANGED <<pipeVars, cPhase, cPump, cDown, serverVars>>
----------------------------------------------------------------------------
(* The server: handle_incoming, from the registered connection on          *)

\* accept_bi waits until the stream shows up, which is when the client first
\* wrote to it or finished it.
StreamAnnounced == req.sent > 0 \/ req.wr # "open"

AcceptBi ==
    /\ sPhase = "accepting"
    /\ StreamAnnounced
    /\ sPhase' = "dialing"
    /\ UNCHANGED <<pipeVars, clientVars, sPump, sDown, sLost>>

\* accept_bi fails when the connection closed first.
AcceptBiFails ==
    /\ sPhase = "accepting"
    /\ sLost
    /\ sPhase' = "failed"
    /\ UNCHANGED <<pipeVars, clientVars, sPump, sDown, sLost>>

DialTarget ==
    /\ sPhase = "dialing"
    /\ sPhase' = "pumping"
    /\ S!Start
    /\ UNCHANGED <<appOut, appIn, clientVars, sLost>>

\* The target cannot be reached: both halves of the stream are dropped, which
\* finishes the one and stops the other.
DialFails ==
    /\ "dial" \in Faults
    /\ sPhase = "dialing"
    /\ sPhase' = "failed"
    /\ resp' = Finish(resp)
    /\ req' = StopReading(req)
    /\ UNCHANGED <<appOut, appIn, tgtOut, tgtIn, clientVars, sPump, sDown, sLost>>

ServerRest == UNCHANGED <<appOut, appIn, clientVars, sPhase, sLost>>

ServerUp == S!UpStep /\ ServerRest
ServerDown == S!DownStep /\ ServerRest
ServerJoin == S!Join /\ ServerRest

\* The connection is dropped as soon as both copies are done.
ServerFinishesEagerly ==
    /\ sPhase = "pumping"
    /\ sPump = "ok"
    /\ sPhase' = "failed"
    /\ UNCHANGED <<pipeVars, clientVars, sPump, sDown, sLost>>

\* pump_streams succeeded: keep the connection for the requester to close.
ServerDrains ==
    /\ sPhase = "pumping"
    /\ sPump = "ok"
    /\ sPhase' = "draining"
    /\ UNCHANGED <<pipeVars, clientVars, sPump, sDown, sLost>>

\* The handler leaves only when the response could not be sent.
ServerFailsOnUp ==
    /\ sPhase = "pumping"
    /\ sPump = "upFailed"
    /\ sPhase' = "failed"
    /\ UNCHANGED <<pipeVars, clientVars, sPump, sDown, sLost>>

ServerFails ==
    /\ sPhase = "pumping"
    /\ sPump \in {"upFailed", "downFailed"}
    /\ sPhase' = "failed"
    /\ UNCHANGED <<pipeVars, clientVars, sPump, sDown, sLost>>

\* conn.closed() returns.
ServerClosed ==
    /\ sPhase = "draining"
    /\ sLost
    /\ sPhase' = "done"
    /\ UNCHANGED <<pipeVars, clientVars, sPump, sDown, sLost>>

\* A handler that returned early leaves the closing to the last handle.
ServerDropsConn ==
    /\ sPhase = "failed"
    /\ sDown \in {"idle"} \cup S!DownEnded
    /\ ~sLost
    /\ sLost' = TRUE
    /\ UNCHANGED <<pipeVars, clientVars, sPhase, sPump, sDown>>
----------------------------------------------------------------------------
(* The network                                                             *)

\* The close reaches the other end, or its idle timeout does.
CloseReachesServer ==
    /\ cLost /\ ~sLost
    /\ sLost' = TRUE
    /\ UNCHANGED <<pipeVars, clientVars, sPhase, sPump, sDown>>

CloseReachesClient ==
    /\ sLost /\ ~cLost
    /\ cLost' = TRUE
    /\ UNCHANGED <<pipeVars, cPhase, cPump, cDown, serverVars>>

\* The path is gone: one end's idle timeout ends the connection.
IdleTimeout ==
    /\ "net" \in Faults
    /\ ~cLost /\ ~sLost
    /\ \/ cLost' = TRUE /\ UNCHANGED sLost
       \/ sLost' = TRUE /\ UNCHANGED cLost
    /\ UNCHANGED <<pipeVars, cPhase, cPump, cDown, sPhase, sPump, sDown>>
----------------------------------------------------------------------------
(* The app and the target                                                  *)

AppRest == UNCHANGED <<req, resp, tgtOut, tgtIn, clientVars, serverVars>>

AppWrite ==
    /\ appOut.wr = "open"
    /\ appOut.sent < ReqChunks
    /\ HasRoom(appOut)
    /\ appOut' = Put(appOut)
    /\ UNCHANGED appIn
    /\ AppRest

AppEnds ==
    /\ appOut.wr = "open"
    /\ appOut' = Finish(appOut)
    /\ UNCHANGED appIn
    /\ AppRest

AppReads ==
    /\ appIn.rd = "open"
    /\ HasData(appIn)
    /\ appIn' = Take(appIn)
    /\ UNCHANGED appOut
    /\ AppRest

AppResets ==
    /\ "appReset" \in Faults
    /\ appIn.rd = "open"
    /\ appOut' = Reset(appOut)
    /\ appIn' = StopReading(appIn)
    /\ AppRest

TargetRest ==
    /\ sPump # "idle"
    /\ UNCHANGED <<appOut, appIn, req, resp, clientVars, serverVars>>

TargetWrites ==
    /\ tgtOut.wr = "open"
    /\ tgtOut.sent < RespChunks
    /\ HasRoom(tgtOut)
    /\ tgtOut' = Put(tgtOut)
    /\ UNCHANGED tgtIn
    /\ TargetRest

TargetEnds ==
    /\ tgtOut.wr = "open"
    /\ tgtOut' = Finish(tgtOut)
    /\ UNCHANGED tgtIn
    /\ TargetRest

TargetReads ==
    /\ tgtIn.rd = "open"
    /\ HasData(tgtIn)
    /\ tgtIn' = Take(tgtIn)
    /\ UNCHANGED tgtOut
    /\ TargetRest

TargetResets ==
    /\ "targetReset" \in Faults
    /\ tgtIn.rd = "open"
    /\ tgtOut' = Reset(tgtOut)
    /\ tgtIn' = StopReading(tgtIn)
    /\ TargetRest
----------------------------------------------------------------------------
Client ==
    \/ OpenBi \/ OpenBiFails \/ ClientUp \/ ClientDown \/ ClientJoin
    \/ ClientTimeout \/ ClientClose \/ ClientAborted \/ ClientDropsConn

Server ==
    \/ AcceptBi \/ AcceptBiFails \/ DialTarget \/ DialFails \/ ServerUp
    \/ ServerDown \/ ServerJoin \/ ServerDrains \/ ServerFails \/ ServerClosed
    \/ ServerDropsConn

Network == CloseReachesServer \/ CloseReachesClient \/ IdleTimeout

App == AppWrite \/ AppEnds \/ AppReads \/ AppResets

Target == TargetWrites \/ TargetEnds \/ TargetReads \/ TargetResets

Next == Client \/ Server \/ Network \/ App \/ Target

\* The program's tasks run whenever they can, a dial ends one way or the other,
\* and a close or the idle timeout it leaves behind reaches the other end.
ProgramFairness ==
    /\ WF_vars(OpenBi) /\ WF_vars(OpenBiFails)
    /\ WF_vars(ClientUp) /\ WF_vars(ClientDown)
    /\ WF_vars(ClientJoin) /\ WF_vars(ClientTimeout)
    /\ WF_vars(ClientClose) /\ WF_vars(ClientDropsConn)
    /\ WF_vars(AcceptBi) /\ WF_vars(AcceptBiFails)
    /\ WF_vars(DialTarget \/ DialFails)
    /\ WF_vars(ServerUp) /\ WF_vars(ServerDown) /\ WF_vars(ServerJoin)
    /\ WF_vars(ServerDrains) /\ WF_vars(ServerFails) /\ WF_vars(ServerClosed)
    /\ WF_vars(ServerDropsConn)
    /\ WF_vars(CloseReachesServer) /\ WF_vars(CloseReachesClient)

\* An app and a target that read what they get and end their side once they
\* have read to the end; neither has to write, or to end of itself.
PeerFairness ==
    /\ WF_vars(AppReads) /\ WF_vars(AppEnds /\ AtEof(appIn))
    /\ WF_vars(TargetReads) /\ WF_vars(TargetEnds /\ AtEof(tgtIn))

Spec == Init /\ [][Next]_vars /\ ProgramFairness
CooperativeSpec == Spec /\ PeerFairness
----------------------------------------------------------------------------
TypeOK ==
    /\ appOut \in Pipe /\ appIn \in Pipe
    /\ req \in Pipe /\ resp \in Pipe
    /\ tgtOut \in Pipe /\ tgtIn \in Pipe
    /\ cPhase \in ClientPhases /\ sPhase \in ServerPhases
    /\ cPump \in C!PumpStates /\ sPump \in S!PumpStates
    /\ cDown \in C!DownStates /\ sDown \in S!DownStates
    /\ cLost \in BOOLEAN /\ sLost \in BOOLEAN

\* An orderly end is the whole stream: when a down copy ran to its end, its
\* local socket got every byte the program at the far end wrote, unless the far
\* end's own up copy failed or was dropped half-way (pump_streams,
\* proxy.rs:372-403).
CleanEndIsComplete ==
    /\ cDown = "ok" /\ sPump # "upFailed" => appIn.sent = tgtOut.sent
    /\ sDown = "ok" /\ cPump \notin {"upFailed", "droppedUp"} =>
            tgtIn.sent = appOut.sent

\* Each direction is a Channel between the two programs.  Its end is clean when
\* the copy that made it, and the far end's copy before it, ran to their ends.
EndOf(pipe, downCopy, farCall) ==
    IF pipe.wr = "open" THEN "open"
    ELSE IF downCopy = "ok" /\ farCall \in C!UpEnded THEN "clean" ELSE "cut"

ResponseChannel == INSTANCE Channel WITH
    written <- tgtOut.sent, ended <- tgtOut.wr # "open",
    delivered <- appIn.sent, end <- EndOf(appIn, cDown, sPump)

RequestChannel == INSTANCE Channel WITH
    written <- appOut.sent, ended <- appOut.wr # "open",
    delivered <- tgtIn.sent, end <- EndOf(tgtIn, sDown, cPump)

\* The tunnel implements the abstract channel in both directions, through every
\* fault: in order, nothing after the end, and no clean end of a cut transfer.
ResponseIsChannel == ResponseChannel!Spec
RequestIsChannel == RequestChannel!Spec

\* A call of pump_streams that returned has ended its spawned copy or told it to
\* stop, on every path, the timeout and a failed upload included
\* (proxy.rs:348-352, 356-357): no copy outlives its call unnoticed.
NoCopyOutlivesCall ==
    /\ cPump \in C!Returned => cDown # "copying"
    /\ sPump \in S!Returned => sDown # "copying"

\* The close-on-request timeout bounds the call whatever the server, the app and
\* the target do: once the upload is at its end, the call returns
\* (proxy.rs:405-414).
UploadEndBoundsCall == cPump = "down" ~> cPump # "down"

\* A connection that is closed at either end, for whatever reason, is let go of
\* by both handlers and by every copy task, given an app and a target that end
\* their sockets once they have read to the end (forward_tcp_conn,
\* handle_incoming).
ClosedConnectionIsReleased ==
    PeerFairness =>
        (cLost \/ sLost ~>
            /\ cPhase \in {"done", "failed", "aborted"}
            /\ sPhase \in ServerEnded
            /\ cDown \in {"idle"} \cup C!DownEnded
            /\ sDown \in {"idle"} \cup S!DownEnded)

\* No fault has struck and no timeout has run out: no reset, no abort, no failed
\* dial, and no connection lost before either end let go of it.
Undisturbed ==
    /\ appOut.wr # "dead" /\ tgtOut.wr # "dead"
    /\ cPhase # "aborted" /\ cPump # "timedOut"
    /\ sPhase = "failed" => sPump # "idle"
    /\ cLost \/ sLost => cPhase = "done" \/ sPhase \in ServerEnded

\* As long as nothing disturbs it, every byte the target writes reaches the app:
\* neither end closes the connection under the response (routes.rs:157-159, "Let
\* the requester drive the connection close so the final response bytes are
\* delivered before teardown").
ResponseReachesApp ==
    PeerFairness /\ []Undisturbed =>
        \A n \in 1 .. RespChunks : tgtOut.sent >= n ~> appIn.got >= n

\* The same of the request, for a call without a timeout (proxy.rs:353-354,
\* "both directions run to completion").
RequestReachesTarget ==
    \A n \in 1 .. ReqChunks : appOut.sent >= n /\ sPump # "idle" ~> tgtIn.got >= n

\* A connection whose task was aborted is torn down (README.md:242-243, "also
\* tears down any of its still-open forwarded connections").
AbortedConnectionEnds == cPhase = "aborted" ~> cLost
============================================================================
