------------------------------ MODULE Signals ------------------------------
(***************************************************************************)
(* How clients of the p2p control plane (macOS, Windows) learn that the    *)
(* daemon's state changed (src/daemon/control_plane.rs):                   *)
(*                                                                         *)
(*   - a control call or a connection task changes the state and then puts *)
(*     its reason into an unbounded channel (service.rs, forwards.rs,      *)
(*     connections.rs);                                                    *)
(*   - the fan-out task takes one reason after the other and sends it to   *)
(*     each of the peers it finds registered, one after the other;         *)
(*   - the accept loop performs the handshake of one client after the      *)
(*     other and registers it; a monitor task of each peer removes it when *)
(*     its stream ends.                                                    *)
(*                                                                         *)
(* A peer is one connection of a client.  A signal carries no state: a     *)
(* client that reads one asks for the state again.  What a client does is  *)
(* external.                                                               *)
(***************************************************************************)
EXTENDS Naturals, Sequences, FiniteSets

CONSTANTS
    Peers,          \* connections of clients
    Sources,        \* tasks that change the daemon's state
    Room,           \* signals that fit into a connection unread
    MaxQueued,      \* bound: reasons in the channel when a change is made
    None

ASSUME SignalsAssumption ==
    /\ Room \in Nat \ {0}
    /\ MaxQueued \in Nat \ {0}
    /\ None \notin Peers

VARIABLES
    source,         \* what each task that changes the state does
    queued,         \* reasons in the channel
    backlog,        \* clients that nobody accepted yet, in their order
    acceptor,       \* the accept loop: its step and the peer it deals with
    conn,           \* each connection
    peers,          \* the map of peers
    monitors,       \* peers whose monitor runs
    fan,            \* the fan-out: its round's peers left, current, and failed
    inbox,          \* signals a peer was sent and has not read
    stale           \* history: registered peers that know an older state

acceptVars == <<backlog, acceptor, monitors>>
fanVars == <<queued, fan>>
signalVars == <<source, queued, backlog, acceptor, conn, peers, monitors, fan, inbox,
                stale>>

ConnStates == {"away", "waiting", "building", "live", "gone"}
AcceptStates == [step: {"accepting", "pausing", "building", "registering"},
                 peer: Peers \cup {None}]
FanStates == [round: BOOLEAN, left: SUBSET Peers, to: Peers \cup {None},
              failed: SUBSET Peers]
Accepting == [step |-> "accepting", peer |-> None]
Resting == [round |-> FALSE, left |-> {}, to |-> None, failed |-> {}]

Init ==
    /\ source = [s \in Sources |-> "idle"]
    /\ queued = 0
    /\ backlog = <<>>
    /\ acceptor = Accepting
    /\ conn = [p \in Peers |-> "away"]
    /\ peers = {}
    /\ monitors = {}
    /\ fan = Resting
    /\ inbox = [p \in Peers |-> 0]
    /\ stale = {}
----------------------------------------------------------------------------
(* Changes                                                                 *)

\* A route, a forward or a connection is added or removed.
Change(s) ==
    /\ source[s] = "idle"
    /\ queued < MaxQueued
    /\ source' = [source EXCEPT ![s] = "changed"]
    /\ stale' = stale \cup {p \in peers : conn[p] = "live"}
    /\ UNCHANGED <<acceptVars, conn, peers, fanVars, inbox>>

Announce(s) ==
    /\ source[s] = "changed"
    /\ source' = [source EXCEPT ![s] = "idle"]
    /\ queued' = queued + 1
    /\ UNCHANGED <<acceptVars, conn, peers, fan, inbox, stale>>
----------------------------------------------------------------------------
(* The fan-out                                                             *)

\* The round begins with the peers of this moment; without any there is none.
TakeReason ==
    /\ ~fan.round
    /\ queued > 0
    /\ queued' = queued - 1
    /\ fan' = IF peers = {} THEN Resting ELSE [Resting EXCEPT !.round = TRUE, !.left = peers]
    /\ UNCHANGED <<source, acceptVars, conn, peers, inbox, stale>>

\* The map's iterator goes on, in any order ...
SendTo(p) ==
    /\ fan.to = None
    /\ p \in fan.left
    /\ fan' = [fan EXCEPT !.left = @ \ {p}, !.to = p]
    /\ UNCHANGED <<source, queued, acceptVars, conn, peers, inbox, stale>>

\* ... and waits until the peer has room for the signal.
Emit(p) ==
    /\ fan.to = p
    /\ conn[p] = "live"
    /\ inbox[p] < Room
    /\ inbox' = [inbox EXCEPT ![p] = @ + 1]
    /\ fan' = [fan EXCEPT !.to = None]
    /\ UNCHANGED <<source, queued, acceptVars, conn, peers, stale>>

\* A peer that fails ends the round.
EmitFailsForAll(p) ==
    /\ fan.to = p
    /\ conn[p] = "gone"
    /\ fan' = [fan EXCEPT !.left = {}, !.to = None, !.failed = @ \cup {p}]
    /\ UNCHANGED <<source, queued, acceptVars, conn, peers, inbox, stale>>

EmitFails(p) ==
    /\ fan.to = p
    /\ conn[p] = "gone"
    /\ fan' = [fan EXCEPT !.to = None, !.failed = @ \cup {p}]
    /\ UNCHANGED <<source, queued, acceptVars, conn, peers, inbox, stale>>

\* A peer that failed empties the map.
EndRoundClears ==
    /\ fan.round
    /\ fan.left = {} /\ fan.to = None
    /\ peers' = IF fan.failed = {} THEN peers ELSE {}
    /\ fan' = Resting
    /\ UNCHANGED <<source, queued, acceptVars, conn, inbox, stale>>

EndRound ==
    /\ fan.round
    /\ fan.left = {} /\ fan.to = None
    /\ peers' = peers \ fan.failed
    /\ fan' = Resting
    /\ UNCHANGED <<source, queued, acceptVars, conn, inbox, stale>>
----------------------------------------------------------------------------
(* The accept loop and the monitors                                        *)

AcceptRest == UNCHANGED <<source, fanVars, inbox, stale>>

Accept ==
    /\ acceptor = Accepting
    /\ backlog # <<>>
    /\ backlog' = Tail(backlog)
    /\ acceptor' = [step |-> "building", peer |-> Head(backlog)]
    /\ conn' = [conn EXCEPT ![Head(backlog)] = IF @ = "waiting" THEN "building" ELSE @]
    /\ UNCHANGED <<peers, monitors>> /\ AcceptRest

\* Accepted and not authorized: the stream is dropped.
Reject ==
    /\ acceptor = Accepting
    /\ backlog # <<>>
    /\ backlog' = Tail(backlog)
    /\ conn' = [conn EXCEPT ![Head(backlog)] = "gone"]
    /\ UNCHANGED <<acceptor, peers, monitors>> /\ AcceptRest

\* The loop ends with the error, as that of a forward's listener does.
AcceptFailsForGood ==
    /\ acceptor = Accepting
    /\ acceptor' = [step |-> "ended", peer |-> None]
    /\ UNCHANGED <<backlog, conn, peers, monitors>> /\ AcceptRest

\* The loop pauses for 100 ms after an error.
AcceptFails ==
    /\ acceptor = Accepting
    /\ acceptor' = [step |-> "pausing", peer |-> None]
    /\ UNCHANGED <<backlog, conn, peers, monitors>> /\ AcceptRest

AcceptAgain ==
    /\ acceptor.step = "pausing"
    /\ acceptor' = Accepting
    /\ UNCHANGED <<backlog, conn, peers, monitors>> /\ AcceptRest

\* The handshake is complete, and the peer's calls are served from now on.
Builds(p) ==
    /\ acceptor = [step |-> "building", peer |-> p]
    /\ conn[p] = "building"
    /\ conn' = [conn EXCEPT ![p] = "live"]
    /\ acceptor' = [step |-> "registering", peer |-> p]
    /\ UNCHANGED <<backlog, peers, monitors>> /\ AcceptRest

\* The handshake fails, the client's fault or not.
BuildFails(p) ==
    /\ acceptor = [step |-> "building", peer |-> p]
    /\ conn' = [conn EXCEPT ![p] = "gone"]
    /\ acceptor' = Accepting
    /\ UNCHANGED <<backlog, peers, monitors>> /\ AcceptRest

\* The fan-out alone is to find out that a peer is gone.
RegistersUnwatched(p) ==
    /\ acceptor = [step |-> "registering", peer |-> p]
    /\ peers' = peers \cup {p}
    /\ acceptor' = Accepting
    /\ UNCHANGED <<backlog, conn, monitors>> /\ AcceptRest

\* The peer is in the map, and then its monitor starts.
Registers(p) ==
    /\ acceptor = [step |-> "registering", peer |-> p]
    /\ peers' = peers \cup {p}
    /\ monitors' = monitors \cup {p}
    /\ acceptor' = Accepting
    /\ UNCHANGED <<backlog, conn>> /\ AcceptRest

\* The peer's stream is at its end.
MonitorEnds(p) ==
    /\ p \in monitors
    /\ conn[p] = "gone"
    /\ peers' = peers \ {p}
    /\ monitors' = monitors \ {p}
    /\ UNCHANGED <<backlog, acceptor, conn>> /\ AcceptRest
----------------------------------------------------------------------------
(* Clients                                                                 *)

Connects(p) ==
    /\ conn[p] = "away"
    /\ conn' = [conn EXCEPT ![p] = "waiting"]
    /\ backlog' = Append(backlog, p)
    /\ UNCHANGED <<acceptor, peers, monitors>> /\ AcceptRest

\* The client reads a signal and asks for the state.
Reads(p) ==
    /\ conn[p] = "live"
    /\ inbox[p] > 0
    /\ inbox' = [inbox EXCEPT ![p] = @ - 1]
    /\ stale' = stale \ {p}
    /\ UNCHANGED <<source, acceptVars, conn, peers, fanVars>>

\* The client leaves, or dies, at any time.
Goes(p) ==
    /\ conn[p] \in {"waiting", "building", "live"}
    /\ conn' = [conn EXCEPT ![p] = "gone"]
    /\ inbox' = [inbox EXCEPT ![p] = 0]
    /\ stale' = stale \ {p}
    /\ UNCHANGED <<source, acceptVars, peers, fanVars>>
----------------------------------------------------------------------------
FanOut ==
    \/ TakeReason \/ EndRound
    \/ \E p \in Peers : SendTo(p) \/ Emit(p) \/ EmitFails(p)

AcceptLoop ==
    \/ Accept \/ Reject \/ AcceptFails \/ AcceptAgain
    \/ \E p \in Peers : Builds(p) \/ BuildFails(p) \/ Registers(p)

Client(p) == Connects(p) \/ Reads(p) \/ Goes(p)

Next ==
    \/ \E s \in Sources : Change(s) \/ Announce(s)
    \/ FanOut
    \/ AcceptLoop
    \/ \E p \in Peers : MonitorEnds(p) \/ Client(p)

\* The daemon's tasks run, and accept does not fail for ever.  Nobody has to make
\* a change, and no client has to connect, to finish its handshake, to read or to
\* leave; where a property needs one to, it says so.
Fairness ==
    /\ \A s \in Sources : WF_signalVars(Announce(s))
    /\ WF_signalVars(FanOut)
    /\ SF_signalVars(Accept \/ Reject) /\ WF_signalVars(AcceptAgain)
    /\ \A p \in Peers :
        /\ WF_signalVars(conn[p] = "gone" /\ BuildFails(p))
        /\ WF_signalVars(Registers(p)) /\ WF_signalVars(MonitorEnds(p))

Spec == Init /\ [][Next]_signalVars /\ Fairness
----------------------------------------------------------------------------
TypeOK ==
    /\ source \in [Sources -> {"idle", "changed"}]
    /\ queued \in Nat
    /\ backlog \in Seq(Peers)
    /\ acceptor \in AcceptStates
    /\ conn \in [Peers -> ConnStates]
    /\ peers \subseteq Peers /\ monitors \subseteq Peers
    /\ fan \in FanStates
    /\ inbox \in [Peers -> Nat]
    /\ stale \subseteq Peers

\* A registered peer that knows an older state has a signal on its way: its
\* reason is about to be sent or queued, the peer is still to come in the round
\* under way, or the signal is in its connection (control_plane.rs:374-412).
SignalOnItsWay ==
    \A p \in stale :
        \/ \E s \in Sources : source[s] = "changed"
        \/ queued > 0
        \/ p \in fan.left \/ fan.to = p
        \/ inbox[p] > 0

\* And the peer reads it, or leaves, whatever the other peers do, as long as they
\* read as well: one that leaves, or fails, in the midst of a round does not cost
\* the others their signal (control_plane.rs:385-411).
ClientsRead == \A p \in Peers : WF_signalVars(Reads(p))
ToldOfEveryChange == ClientsRead => \A p \in Peers : p \in stale ~> p \notin stale

\* A client that is gone leaves the map, whenever it went: in the backlog, in its
\* handshake, before it was registered, or in the midst of a round, and although
\* no further change is made (control_plane.rs:343-349, 405-411, 415-437).
GonePeersAreForgotten ==
    \A p \in Peers : conn[p] = "gone" ~> [](p \notin peers)

\* A client that connects is served or turned away, as long as those that were
\* accepted before it finish their handshakes, or leave: no error of one, and none
\* of accept, ends the loop (control_plane.rs:314-353).
ClientsFinish == \A p \in Peers : WF_signalVars(Builds(p) \/ BuildFails(p))
ClientsAreServed ==
    ClientsFinish =>
        \A p \in Peers : conn[p] = "waiting" ~> conn[p] \in {"live", "gone"}
=============================================================================
