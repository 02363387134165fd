---------------------------- MODULE TunnelProofs ----------------------------
(***************************************************************************)
(* What holds of a tunnel for every number of chunks, every capacity of    *)
(* its pipes, with or without the timeout and under every set of faults.   *)
(***************************************************************************)
EXTENDS Tunnel, TLAPS

\* Chunks are moved from one pipe to the next, never made or dropped: what one
\* copy took is what it put, and what a pipe gave out was put into it.
Conserved ==
    /\ appOut.got = req.sent /\ req.got = tgtIn.sent
    /\ tgtOut.got = resp.sent /\ resp.got = appIn.sent
    /\ appOut.got <= appOut.sent /\ req.got <= req.sent
    /\ tgtOut.got <= tgtOut.sent /\ resp.got <= resp.sent

\* An up copy that came to its end took everything, and its stream is open
\* exactly until the copy is over, however it is.
UpCopies ==
    /\ cPump \in C!UpEnded => appOut.wr # "open" /\ appOut.got = appOut.sent
    /\ sPump \in C!UpEnded => tgtOut.wr # "open" /\ tgtOut.got = tgtOut.sent
    /\ cPump \in {"idle", "up"} <=> req.wr = "open"
    /\ sPump = "up" => resp.wr = "open"
    /\ sPump = "idle" =>
         /\ tgtOut.sent = 0
         /\ tgtIn.wr = "open"
         /\ resp.wr = "open" \/ sPhase = "failed"

\* A down copy that came to its end took everything, and the local stream is
\* open for as long as the copy runs.
DownCopies ==
    /\ cDown = "ok" => resp.wr # "open" /\ resp.got = resp.sent
    /\ sDown = "ok" => req.wr # "open" /\ req.got = req.sent
    /\ cDown \in {"copying", "aborting"} => appIn.wr = "open"
    /\ sDown \in {"copying", "aborting"} => tgtIn.wr = "open"
    /\ cDown \in C!DownEnded => appIn.wr # "open"
    /\ sDown \in C!DownEnded => tgtIn.wr # "open"

\* The phases of the two handlers against their calls of pump_streams.
Phases ==
    /\ cPhase = "opening" => cPump = "idle" /\ appIn.wr = "open"
    /\ sPhase \in {"accepting", "dialing"} => sPump = "idle"
    /\ cPump = "idle" <=> cDown = "idle"
    /\ sPump = "idle" <=> sDown = "idle"
    /\ sPump \notin C!Dropped

TunnelInv ==
    /\ TypeOK
    /\ Conserved
    /\ UpCopies
    /\ DownCopies
    /\ Phases
    /\ NoCopyOutlivesCall

LEMMA EmptyPipeFields ==
    /\ EmptyPipe \in Pipe
    /\ EmptyPipe.sent = 0 /\ EmptyPipe.got = 0
    /\ EmptyPipe.wr = "open" /\ EmptyPipe.rd = "open"
BY DEF EmptyPipe, Pipe

LEMMA TunnelInit == Init => TunnelInv
<1> SUFFICES ASSUME Init PROVE TunnelInv
  OBVIOUS
<1> USE EmptyPipeFields DEF Init
<1>1. TypeOK
  BY DEF TypeOK, ClientPhases, ServerPhases, C!PumpStates, S!PumpStates,
         C!DownStates, S!DownStates
<1>2. Conserved
  BY DEF Conserved
<1>3. UpCopies
  BY DEF UpCopies, C!UpEnded
<1>4. DownCopies
  BY DEF DownCopies, C!DownEnded
<1>5. Phases /\ NoCopyOutlivesCall
  BY DEF Phases, NoCopyOutlivesCall, C!Returned, C!Dropped, S!Returned
<1> QED
  BY <1>1, <1>2, <1>3, <1>4, <1>5 DEF TunnelInv

LEMMA TunnelStep == TunnelInv /\ [Next]_vars => TunnelInv'
<1> SUFFICES ASSUME TunnelInv, [Next]_vars PROVE TunnelInv'
  OBVIOUS
<1> USE TunnelAssumption, CapAssumption
        DEF TunnelInv, TypeOK, Conserved, UpCopies, DownCopies, Phases,
            NoCopyOutlivesCall, Pipe, ClientPhases, ServerPhases,
       C!PumpStates, S!PumpStates, C!DownStates, S!DownStates, C!Returned,
       S!Returned, C!Dropped, S!Dropped, C!UpEnded, C!DownEnded,
       pipeVars, clientVars, serverVars
<1>1. CASE OpenBi
  BY <1>1 DEF OpenBi, C!Start
<1>2. CASE OpenBiFails
  BY <1>2 DEF OpenBiFails, Finish
<1>3. CASE ClientUp
  <2>1. CASE C!UpCopy
    BY <1>3, <2>1 DEF ClientUp, ClientRest, C!UpStep, C!UpCopy, C!HasData, C!HasRoom, C!Put, C!Take
  <2>2. CASE C!UpEof
    BY <1>3, <2>2 DEF ClientUp, ClientRest, C!UpStep, C!UpEof, C!HasData, C!AtEof, C!Finish
  <2>3. CASE C!UpFail
    BY <1>3, <2>3 DEF ClientUp, ClientRest, C!UpStep, C!UpFail, C!Finish, C!Abort
  <2> QED BY <1>3, <2>1, <2>2, <2>3 DEF ClientUp, C!UpStep
<1>4. CASE ClientDown
  <2>1. CASE C!DownCopy
    BY <1>4, <2>1 DEF ClientDown, ClientRest, C!DownCopy, C!DownRuns, C!HasData, C!HasRoom, C!Put, C!Take
  <2>2. CASE C!DownEof
    BY <1>4, <2>2 DEF ClientDown, ClientRest, C!DownEof, C!DownRuns, C!HasData, C!AtEof, C!Finish
  <2>3. CASE C!DownFail
    BY <1>4, <2>3 DEF ClientDown, ClientRest, C!DownFail, C!DownRuns, C!DropDown, C!Finish, C!StopReading
  <2>4. CASE C!DownCancel
    BY <1>4, <2>4 DEF ClientDown, ClientRest, C!DownCancel, C!DropDown, C!Finish, C!StopReading
  <2> QED BY <1>4, <2>1, <2>2, <2>3, <2>4 DEF ClientDown, C!DownStep
<1>5. CASE ClientJoin
  BY <1>5 DEF ClientJoin, ClientRest, C!Join
<1>6. CASE ClientTimeout
  BY <1>6 DEF ClientTimeout, ClientRest, C!Timeout, C!Abort
<1>7. CASE ClientClose
  BY <1>7 DEF ClientClose
<1>8. CASE ClientAborted
  <2>1. CASE cPhase = "pumping" /\ C!Cancel
    BY <1>8, <2>1 DEF ClientAborted, C!Cancel, C!Finish
  <2>2. CASE cPhase = "opening"
    BY <1>8, <2>2 DEF ClientAborted, Finish
  <2> QED BY <1>8, <2>1, <2>2 DEF ClientAborted
<1>9. CASE ClientDropsConn
  BY <1>9 DEF ClientDropsConn
<1>10. CASE AcceptBi
  BY <1>10 DEF AcceptBi
<1>11. CASE AcceptBiFails
  BY <1>11 DEF AcceptBiFails
<1>12. CASE DialTarget
  BY <1>12 DEF DialTarget, S!Start
<1>13. CASE DialFails
  BY <1>13 DEF DialFails, Finish, StopReading
<1>14. CASE ServerUp
  <2>1. CASE S!UpCopy
    BY <1>14, <2>1 DEF ServerUp, ServerRest, S!UpCopy, S!HasData, S!HasRoom, S!Put, S!Take
  <2>2. CASE S!UpEof
    BY <1>14, <2>2 DEF ServerUp, ServerRest, S!UpEof, S!HasData, S!AtEof, S!Finish
  <2>3. CASE S!UpFail
    BY <1>14, <2>3 DEF ServerUp, ServerRest, S!UpFail, S!Finish, S!Abort
  <2> QED BY <1>14, <2>1, <2>2, <2>3 DEF ServerUp, S!UpStep
<1>15. CASE ServerDown
  <2>1. CASE S!DownCopy
    BY <1>15, <2>1 DEF ServerDown, ServerRest, S!DownCopy, S!DownRuns, S!HasData, S!HasRoom, S!Put, S!Take
  <2>2. CASE S!DownEof
    BY <1>15, <2>2 DEF ServerDown, ServerRest, S!DownEof, S!DownRuns, S!HasData, S!AtEof, S!Finish
  <2>3. CASE S!DownFail
    BY <1>15, <2>3 DEF ServerDown, ServerRest, S!DownFail, S!DownRuns, S!DropDown, S!Finish, S!StopReading
  <2>4. CASE S!DownCancel
    BY <1>15, <2>4 DEF ServerDown, ServerRest, S!DownCancel, S!DropDown, S!Finish, S!StopReading
  <2> QED BY <1>15, <2>1, <2>2, <2>3, <2>4 DEF ServerDown, S!DownStep
<1>16. CASE ServerJoin
  BY <1>16 DEF ServerJoin, ServerRest, S!Join
<1>17. CASE ServerDrains
  BY <1>17 DEF ServerDrains
<1>18. CASE ServerFails
  BY <1>18 DEF ServerFails
<1>19. CASE ServerClosed
  BY <1>19 DEF ServerClosed
<1>20. CASE ServerDropsConn
  BY <1>20 DEF ServerDropsConn
<1>21. CASE CloseReachesServer
  BY <1>21 DEF CloseReachesServer
<1>22. CASE CloseReachesClient
  BY <1>22 DEF CloseReachesClient
<1>23. CASE IdleTimeout
  <2>1. /\ cLost' \in BOOLEAN /\ sLost' \in BOOLEAN
        /\ UNCHANGED <<pipeVars, cPhase, cPump, cDown, sPhase, sPump, sDown>>
    BY <1>23 DEF IdleTimeout
  <2> QED
    BY <2>1
<1>24. CASE AppWrite
  BY <1>24 DEF AppWrite, AppRest, Put
<1>25. CASE AppEnds
  BY <1>25 DEF AppEnds, AppRest, Finish
<1>26. CASE AppReads
  BY <1>26 DEF AppReads, AppRest, HasData, Take
<1>27. CASE AppResets
  BY <1>27 DEF AppResets, AppRest, Reset, StopReading
<1>28. CASE TargetWrites
  BY <1>28 DEF TargetWrites, TargetRest, Put
<1>29. CASE TargetEnds
  BY <1>29 DEF TargetEnds, TargetRest, Finish
<1>30. CASE TargetReads
  BY <1>30 DEF TargetReads, TargetRest, HasData, Take
<1>31. CASE TargetResets
  BY <1>31 DEF TargetResets, TargetRest, Reset, StopReading
<1>32. CASE UNCHANGED vars
  BY <1>32 DEF vars
<1> QED
  BY <1>1, <1>2, <1>3, <1>4, <1>5, <1>6, <1>7, <1>8, <1>9, <1>10, <1>11, <1>12, <1>13, <1>14, <1>15, <1>16, <1>17, <1>18, <1>19, <1>20, <1>21, <1>22, <1>23, <1>24, <1>25, <1>26, <1>27, <1>28, <1>29, <1>30, <1>31, <1>32 DEF Next, Client, Server, Network, App, Target

LEMMA TunnelInvariant == Spec => []TunnelInv
BY TunnelInit, TunnelStep, PTL DEF Spec

\* The state of a tunnel always has its type, and so do the values of all its
\* pipes, calls and phases (pump_streams, forward_tcp_conn, handle_incoming).
THEOREM TypeCorrect == Spec => []TypeOK
<1>1. TunnelInv => TypeOK
  BY DEF TunnelInv
<1> QED
  BY <1>1, TunnelInvariant, PTL

\* No call of pump_streams returns and leaves its spawned copy running, on any
\* path and under any fault (proxy.rs:348-352, 356-357).
THEOREM NoCopyOutlivesCallTheorem == Spec => []NoCopyOutlivesCall
<1>1. TunnelInv => NoCopyOutlivesCall
  BY DEF TunnelInv
<1> QED
  BY <1>1, TunnelInvariant, PTL

\* What a down copy delivered when its far end's up copy came to its end: all
\* that was written.
LEMMA CompleteWhenEnded ==
  TunnelInv =>
    /\ cDown = "ok" /\ sPump \in C!UpEnded => appIn.sent = tgtOut.sent
    /\ sDown = "ok" /\ cPump \in C!UpEnded => tgtIn.sent = appOut.sent
BY DEF TunnelInv, Conserved, UpCopies, DownCopies

\* A stream that ends in an orderly way is complete, for any amount of data and
\* under any fault, but for a far end whose own copy failed or was dropped
\* half-way (proxy.rs:372-403).
THEOREM CleanEndTheorem == Spec => []CleanEndIsComplete
<1>1. TunnelInv => CleanEndIsComplete
  <2> SUFFICES ASSUME TunnelInv PROVE CleanEndIsComplete
    OBVIOUS
  <2>1. ASSUME cDown = "ok", sPump # "upFailed" PROVE appIn.sent = tgtOut.sent
    <3>1. CASE sPump \in C!UpEnded
      BY <2>1, <3>1, CompleteWhenEnded
    <3>2. CASE sPump = "idle"
      BY <2>1, <3>2 DEF TunnelInv, TypeOK, Pipe, Conserved, UpCopies, DownCopies
    <3>3. sPump \notin {"up", "droppedUp"}
      BY <2>1 DEF TunnelInv, UpCopies, DownCopies, Phases, C!Dropped
    <3> QED
      BY <2>1, <3>1, <3>2, <3>3
         DEF TunnelInv, TypeOK, S!PumpStates, S!Returned, S!Dropped, C!UpEnded
  <2>2. ASSUME sDown = "ok", cPump \notin {"upFailed", "droppedUp"}
        PROVE  tgtIn.sent = appOut.sent
    <3>1. cPump \notin {"idle", "up"}
      BY <2>2 DEF TunnelInv, UpCopies, DownCopies
    <3>2. cPump \in C!UpEnded
      BY <2>2, <3>1
         DEF TunnelInv, TypeOK, C!PumpStates, C!Returned, C!Dropped, C!UpEnded
    <3> QED
      BY <2>2, <3>2, CompleteWhenEnded
  <2> QED
    BY <2>1, <2>2 DEF CleanEndIsComplete
<1> QED
  BY <1>1, TunnelInvariant, PTL
----------------------------------------------------------------------------
(* The tunnel implements the abstract channel.  Only few actions touch what *)
(* a channel shows: the reader's socket, the writer's socket, and the two   *)
(* copies that decide how the reader's socket is ended.  Every other step   *)
(* is a stutter of the channel, by the Stutter lemmas.                      *)

RespView == <<appIn, tgtOut, cDown, sPump>>

LEMMA RespStutter == UNCHANGED RespView => UNCHANGED ResponseChannel!channelVars
BY DEF RespView, ResponseChannel!channelVars, EndOf

\* Every step of the tunnel is a step or a stutter of the response's channel.
LEMMA RespStep ==
  TunnelInv /\ TunnelInv' /\ [Next]_vars =>
    [ResponseChannel!Next]_ResponseChannel!channelVars
<1> SUFFICES ASSUME TunnelInv, TunnelInv', [Next]_vars
             PROVE  [ResponseChannel!Next]_ResponseChannel!channelVars
  OBVIOUS
<1> USE DEF RespView, pipeVars, clientVars, serverVars
<1>1. CASE ClientClose \/ ClientDropsConn \/ ClientJoin \/ AcceptBi \/ AcceptBiFails
  BY <1>1, RespStutter
     DEF ClientClose, ClientDropsConn, ClientJoin, ClientRest, C!Join, AcceptBi,
         AcceptBiFails
<1>2. CASE ServerDrains \/ ServerFails \/ ServerClosed \/ ServerDropsConn \/ DialFails
  BY <1>2, RespStutter
     DEF ServerDrains, ServerFails, ServerClosed, ServerDropsConn, DialFails
<1>3. CASE ServerDown
  BY <1>3, RespStutter
     DEF ServerDown, ServerRest, S!DownStep, S!DownCopy, S!DownEof, S!DownFail,
         S!DownCancel, S!DropDown
<1>4. CASE Network
  BY <1>4, RespStutter
     DEF Network, CloseReachesServer, CloseReachesClient, IdleTimeout
<1>5. CASE AppWrite \/ AppEnds \/ TargetReads
  BY <1>5, RespStutter DEF AppWrite, AppEnds, AppRest, TargetReads, TargetRest
<1>6. CASE UNCHANGED vars
  BY <1>6, RespStutter DEF vars
<1> USE DEF TunnelInv, TypeOK, Pipe, Conserved, UpCopies, DownCopies, Phases,
            C!UpEnded, EndOf, ResponseChannel!Next, ResponseChannel!channelVars
<1>7. CASE OpenBi \/ ClientTimeout
  BY <1>7 DEF OpenBi, C!Start, ClientTimeout, ClientRest, C!Timeout, C!Abort
<1>8. CASE ClientUp
  BY <1>8 DEF ClientUp, ClientRest, C!UpStep, C!UpCopy, C!UpEof, C!UpFail, C!Abort
<1>9. CASE OpenBiFails \/ ClientAborted
  <2>1. CASE appIn' = appIn
    BY <1>9, <2>1 DEF OpenBiFails, ClientAborted, C!Cancel
  <2>2. CASE appIn' # appIn
    BY <1>9, <2>2
       DEF OpenBiFails, ClientAborted, C!Cancel, C!DownEnded, Finish,
           ResponseChannel!EndCut
  <2> QED
    BY <2>1, <2>2
<1>10. CASE ClientDown
  <2> USE DEF ClientDown, ClientRest, C!DownRuns
  <2>1. CASE C!DownCopy
    BY <1>10, <2>1 DEF C!DownCopy, C!HasData, C!Put, ResponseChannel!Deliver
  <2>2. CASE C!DownEof
    BY <1>10, <2>2
       DEF C!DownEof, C!Finish, ResponseChannel!EndClean, ResponseChannel!EndCut
  <2>3. CASE C!DownFail \/ C!DownCancel
    BY <1>10, <2>3
       DEF C!DownFail, C!DownCancel, C!DropDown, C!Finish, ResponseChannel!EndCut
  <2> QED
    BY <1>10, <2>1, <2>2, <2>3 DEF C!DownStep
<1>11. CASE DialTarget
  BY <1>11 DEF DialTarget, S!Start
<1>12. CASE ServerUp
  BY <1>12 DEF ServerUp, ServerRest, S!UpStep, S!UpCopy, S!UpEof, S!UpFail, S!Take
<1>13. CASE ServerJoin
  BY <1>13 DEF ServerJoin, ServerRest, S!Join
<1>14. CASE AppReads \/ AppResets
  BY <1>14 DEF AppReads, AppResets, AppRest, Take, StopReading
<1>15. CASE TargetWrites
  BY <1>15 DEF TargetWrites, TargetRest, Put, ResponseChannel!Write
<1>16. CASE TargetEnds \/ TargetResets
  BY <1>16
     DEF TargetEnds, TargetResets, TargetRest, Finish, Reset,
         ResponseChannel!EndWriting
<1> QED
  BY <1>1, <1>2, <1>3, <1>4, <1>5, <1>6, <1>7, <1>8, <1>9, <1>10, <1>11,
     <1>12, <1>13, <1>14, <1>15, <1>16
     DEF Next, Client, Server, Network, App, Target

\* What the app gets of a response is a channel's output: a prefix of what the
\* target wrote, nothing after its end, and a clean end only after all of it,
\* for any amount of data and through every fault (proxy.rs:358-423).
THEOREM ResponseRefines == Spec => ResponseIsChannel
<1>1. Init => ResponseChannel!Init
  BY EmptyPipeFields DEF Init, ResponseChannel!Init, EndOf
<1> QED
  BY <1>1, RespStep, TunnelInvariant, PTL
     DEF Spec, ResponseIsChannel, ResponseChannel!Spec

ReqView == <<tgtIn, appOut, sDown, cPump>>

LEMMA ReqStutter == UNCHANGED ReqView => UNCHANGED RequestChannel!channelVars
BY DEF ReqView, RequestChannel!channelVars, EndOf

\* Every step of the tunnel is a step or a stutter of the request's channel.
LEMMA ReqStep ==
  TunnelInv /\ TunnelInv' /\ [Next]_vars =>
    [RequestChannel!Next]_RequestChannel!channelVars
<1> SUFFICES ASSUME TunnelInv, TunnelInv', [Next]_vars
             PROVE  [RequestChannel!Next]_RequestChannel!channelVars
  OBVIOUS
<1> USE DEF ReqView, pipeVars, clientVars, serverVars
<1>1. CASE ClientClose \/ ClientDropsConn \/ OpenBiFails \/ AcceptBi \/ AcceptBiFails
  BY <1>1, ReqStutter
     DEF ClientClose, ClientDropsConn, OpenBiFails, AcceptBi, AcceptBiFails
<1>2. CASE ServerDrains \/ ServerFails \/ ServerClosed \/ ServerDropsConn \/ DialFails
  BY <1>2, ReqStutter
     DEF ServerDrains, ServerFails, ServerClosed, ServerDropsConn, DialFails
<1>3. CASE ClientDown
  BY <1>3, ReqStutter
     DEF ClientDown, ClientRest, C!DownStep, C!DownCopy, C!DownEof, C!DownFail,
         C!DownCancel, C!DropDown
<1>4. CASE ServerJoin
  BY <1>4, ReqStutter DEF ServerJoin, ServerRest, S!Join
<1>5. CASE Network
  BY <1>5, ReqStutter
     DEF Network, CloseReachesServer, CloseReachesClient, IdleTimeout
<1>6. CASE TargetWrites \/ TargetEnds \/ AppReads
  BY <1>6, ReqStutter DEF TargetWrites, TargetEnds, TargetRest, AppReads, AppRest
<1>7. CASE UNCHANGED vars
  BY <1>7, ReqStutter DEF vars
<1> USE DEF TunnelInv, TypeOK, Pipe, Conserved, UpCopies, DownCopies, Phases,
            C!UpEnded, EndOf, RequestChannel!Next, RequestChannel!channelVars
<1>8. CASE OpenBi \/ ClientTimeout \/ ClientJoin
  BY <1>8
     DEF OpenBi, C!Start, ClientTimeout, ClientJoin, ClientRest, C!Timeout, C!Join
<1>9. CASE ClientUp
  BY <1>9 DEF ClientUp, ClientRest, C!UpStep, C!UpCopy, C!UpEof, C!UpFail, C!Take
<1>10. CASE ClientAborted
  BY <1>10 DEF ClientAborted, C!Cancel
<1>11. CASE DialTarget
  BY <1>11 DEF DialTarget, S!Start
<1>12. CASE ServerUp
  BY <1>12
     DEF ServerUp, ServerRest, S!UpStep, S!UpCopy, S!UpEof, S!UpFail, S!Abort
<1>13. CASE ServerDown
  <2> USE DEF ServerDown, ServerRest, S!DownRuns
  <2>1. CASE S!DownCopy
    BY <1>13, <2>1 DEF S!DownCopy, S!HasData, S!Put, RequestChannel!Deliver
  <2>2. CASE S!DownEof
    BY <1>13, <2>2
       DEF S!DownEof, S!Finish, RequestChannel!EndClean, RequestChannel!EndCut
  <2>3. CASE S!DownFail \/ S!DownCancel
    BY <1>13, <2>3
       DEF S!DownFail, S!DownCancel, S!DropDown, S!Finish, RequestChannel!EndCut
  <2> QED
    BY <1>13, <2>1, <2>2, <2>3 DEF S!DownStep
<1>14. CASE AppWrite
  BY <1>14 DEF AppWrite, AppRest, Put, RequestChannel!Write
<1>15. CASE AppEnds \/ AppResets
  BY <1>15 DEF AppEnds, AppResets, AppRest, Finish, Reset, RequestChannel!EndWriting
<1>16. CASE TargetReads \/ TargetResets
  BY <1>16 DEF TargetReads, TargetResets, TargetRest, Take, StopReading
<1> QED
  BY <1>1, <1>2, <1>3, <1>4, <1>5, <1>6, <1>7, <1>8, <1>9, <1>10, <1>11,
     <1>12, <1>13, <1>14, <1>15, <1>16
     DEF Next, Client, Server, Network, App, Target

\* The same of what the target gets of a request.
THEOREM RequestRefines == Spec => RequestIsChannel
<1>1. Init => RequestChannel!Init
  BY EmptyPipeFields DEF Init, RequestChannel!Init, EndOf
<1> QED
  BY <1>1, ReqStep, TunnelInvariant, PTL
     DEF Spec, RequestIsChannel, RequestChannel!Spec
============================================================================
