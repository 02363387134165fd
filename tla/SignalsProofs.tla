--------------------------- MODULE SignalsProofs ---------------------------
(***************************************************************************)
(* That no registered peer misses a change, for any number of clients, of  *)
(* tasks that change the state, and of signals that fit into a connection. *)
(***************************************************************************)
EXTENDS Signals, TLAPS

\* A client waits in the backlog once, and until it is accepted or gone.
BacklogInv ==
    /\ \A i \in 1 .. Len(backlog) : conn[backlog[i]] \in {"waiting", "gone"}
    /\ \A i, j \in 1 .. Len(backlog) : backlog[i] = backlog[j] => i = j

\* What the accept loop does concerns no peer that is served, and only peers that
\* are gone fail.
ServedInv ==
    /\ acceptor.step = "building" =>
         acceptor.peer \in Peers /\ conn[acceptor.peer] \in {"building", "gone"}
    /\ \A p \in fan.failed : conn[p] = "gone"
    /\ \A p \in stale : p \in peers /\ conn[p] = "live"

Inv == TypeOK /\ BacklogInv /\ ServedInv /\ SignalOnItsWay

LEMMA InvInit == Init => Inv
<1> SUFFICES ASSUME Init PROVE Inv
  OBVIOUS
<1>1. TypeOK
  BY DEF Init, TypeOK, Accepting, Resting, ConnStates, AcceptStates, FanStates
<1>2. BacklogInv /\ ServedInv /\ SignalOnItsWay
  BY DEF Init, BacklogInv, ServedInv, SignalOnItsWay, Accepting, Resting
<1> QED
  BY <1>1, <1>2 DEF Inv

\* What the first of a sequence without repetitions leaves behind.
LEMMA TailOfDistinct ==
    ASSUME NEW S, NEW q \in Seq(S), q # <<>>,
           \A i, j \in 1 .. Len(q) : q[i] = q[j] => i = j
    PROVE  /\ Head(q) \in S /\ Head(q) = q[1]
           /\ Tail(q) \in Seq(S)
           /\ \A i, j \in 1 .. Len(Tail(q)) : Tail(q)[i] = Tail(q)[j] => i = j
           /\ \A i \in 1 .. Len(Tail(q)) :
                 \E j \in 1 .. Len(q) : Tail(q)[i] = q[j] /\ q[j] # Head(q)
<1>1. Len(q) \in Nat /\ Len(q) > 0
  OBVIOUS
<1>2. Len(Tail(q)) = Len(q) - 1 /\ \A i \in 1 .. Len(Tail(q)) : Tail(q)[i] = q[i + 1]
  BY <1>1
<1>3. Head(q) = q[1] /\ Head(q) \in S /\ Tail(q) \in Seq(S)
  BY <1>1
<1>4. \A i \in 1 .. Len(Tail(q)) : i + 1 \in 1 .. Len(q) /\ i + 1 # 1
  BY <1>1, <1>2
<1> QED
  BY <1>1, <1>2, <1>3, <1>4

LEMMA TypeStep == Inv /\ [Next]_signalVars => TypeOK'
<1> SUFFICES ASSUME Inv, [Next]_signalVars PROVE TypeOK'
  OBVIOUS
<1> USE DEF TypeOK
<1>0. TypeOK
  BY DEF Inv
<1>1. ASSUME NEW s \in Sources, Change(s) \/ Announce(s) PROVE TypeOK'
  <2>1. CASE Change(s)
    <3>1. source' \in [Sources -> {"idle", "changed"}]
      BY <1>0, <2>1 DEF Change
    <3>2. stale' \subseteq Peers /\ UNCHANGED <<queued, fan, inbox, conn, peers, acceptVars>>
      BY <1>0, <2>1 DEF Change, fanVars
    <3> QED
      BY <1>0, <3>1, <3>2 DEF acceptVars
  <2>2. CASE Announce(s)
    <3>1. source' \in [Sources -> {"idle", "changed"}]
      BY <1>0, <2>2 DEF Announce
    <3>2. queued' \in Nat /\ UNCHANGED <<stale, fan, inbox, conn, peers, acceptVars>>
      BY <1>0, <2>2 DEF Announce
    <3> QED
      BY <1>0, <3>1, <3>2 DEF acceptVars
  <2> QED
    BY <1>1, <2>1, <2>2
<1>2. CASE TakeReason
  <2>1. fan' = Resting
        \/ fan' = [round |-> TRUE, left |-> peers, to |-> None, failed |-> {}]
    BY <1>2 DEF TakeReason, Resting
  <2>2. peers \in SUBSET Peers /\ {} \in SUBSET Peers
    BY <1>0
  <2>3. Resting \in FanStates
    BY <2>2 DEF Resting, FanStates
  <2>4. [round |-> TRUE, left |-> peers, to |-> None, failed |-> {}] \in FanStates
    BY <2>2 DEF FanStates
  <2>5. queued' \in Nat
    BY <1>0, <1>2 DEF TakeReason
  <2> QED
    BY <1>0, <1>2, <2>1, <2>3, <2>4, <2>5 DEF TakeReason, acceptVars
<1>3. CASE EndRound
  <2>1. fan' \in FanStates
    BY <1>3 DEF EndRound, Resting, FanStates
  <2> QED
    BY <1>0, <1>3, <2>1 DEF EndRound, acceptVars
<1>4. ASSUME NEW p \in Peers, SendTo(p) \/ Emit(p) \/ EmitFails(p) PROVE TypeOK'
  <2>1. /\ fan = [round |-> fan.round, left |-> fan.left, to |-> fan.to,
                  failed |-> fan.failed]
        /\ fan.round \in BOOLEAN
        /\ fan.left \in SUBSET Peers /\ fan.failed \in SUBSET Peers
    BY <1>0 DEF FanStates
  <2>2. fan' \in FanStates
    <3> DEFINE left == fan.left \ {p}
               failed == fan.failed \cup {p}
    <3>1. left \in SUBSET Peers /\ failed \in SUBSET Peers
      BY <2>1
    <3>2. \/ fan' = [round |-> fan.round, left |-> left, to |-> p, failed |-> fan.failed]
          \/ fan' = [round |-> fan.round, left |-> fan.left, to |-> None,
                     failed |-> fan.failed]
          \/ fan' = [round |-> fan.round, left |-> fan.left, to |-> None, failed |-> failed]
      BY <1>4, <2>1 DEF SendTo, Emit, EmitFails
    <3> HIDE DEF left, failed
    <3> QED
      BY <2>1, <3>1, <3>2 DEF FanStates
  <2>3. inbox' \in [Peers -> Nat]
    BY <1>0, <1>4 DEF SendTo, Emit, EmitFails
  <2> QED
    BY <1>0, <1>4, <2>2, <2>3 DEF SendTo, Emit, EmitFails, acceptVars
<1>5. CASE Accept \/ Reject
  <2>1. backlog # <<>> /\ Head(backlog) \in Peers /\ Tail(backlog) \in Seq(Peers)
    BY <1>0, <1>5 DEF Accept, Reject
  <2>2. acceptor' = acceptor \/ acceptor' = [step |-> "building", peer |-> Head(backlog)]
    BY <1>5 DEF Accept, Reject
  <2>3. acceptor' \in AcceptStates
    BY <1>0, <2>1, <2>2 DEF AcceptStates
  <2>4. conn' \in [Peers -> ConnStates]
    BY <1>0, <1>5, <2>1 DEF Accept, Reject, ConnStates
  <2> QED
    BY <1>0, <1>5, <2>1, <2>3, <2>4 DEF Accept, Reject, AcceptRest, fanVars
<1>6. CASE AcceptFails \/ AcceptAgain
  BY <1>0, <1>6 DEF AcceptFails, AcceptAgain, AcceptRest, fanVars, Accepting, AcceptStates
<1>7. ASSUME NEW p \in Peers, Builds(p) \/ BuildFails(p) PROVE TypeOK'
  BY <1>0, <1>7 DEF Builds, BuildFails, AcceptRest, fanVars, Accepting, AcceptStates, ConnStates
<1>8. ASSUME NEW p \in Peers, Registers(p) \/ MonitorEnds(p) PROVE TypeOK'
  BY <1>0, <1>8 DEF Registers, MonitorEnds, AcceptRest, fanVars, Accepting, AcceptStates
<1>9. ASSUME NEW p \in Peers, Client(p) PROVE TypeOK'
  <2>1. CASE Connects(p)
    <3>1. backlog' \in Seq(Peers) /\ conn' \in [Peers -> ConnStates]
      BY <1>0, <2>1 DEF Connects, ConnStates
    <3> QED
      BY <1>0, <2>1, <3>1 DEF Connects, AcceptRest, fanVars
  <2>2. CASE Reads(p)
    <3>1. inbox' \in [Peers -> Nat] /\ stale' \subseteq Peers
      BY <1>0, <2>2 DEF Reads
    <3> QED
      BY <1>0, <2>2, <3>1 DEF Reads, acceptVars, fanVars
  <2>3. CASE Goes(p)
    <3>1. /\ inbox' \in [Peers -> Nat] /\ stale' \subseteq Peers
          /\ conn' \in [Peers -> ConnStates]
      BY <1>0, <2>3 DEF Goes, ConnStates
    <3> QED
      BY <1>0, <2>3, <3>1 DEF Goes, acceptVars, fanVars
  <2> QED
    BY <1>9, <2>1, <2>2, <2>3 DEF Client
<1>10. CASE UNCHANGED signalVars
  BY <1>0, <1>10 DEF signalVars
<1> QED
  BY <1>1, <1>2, <1>3, <1>4, <1>5, <1>6, <1>7, <1>8, <1>9, <1>10
     DEF Next, FanOut, AcceptLoop

LEMMA BacklogStep == Inv /\ [Next]_signalVars => BacklogInv'
<1> SUFFICES ASSUME Inv, [Next]_signalVars PROVE BacklogInv'
  OBVIOUS
<1> USE DEF BacklogInv
<1>0. TypeOK /\ BacklogInv /\ ServedInv
  BY DEF Inv
<1>1. CASE UNCHANGED <<backlog, conn>>
  BY <1>0, <1>1
<1>2. CASE Accept \/ Reject
  <2> DEFINE first == Head(backlog)
  <2>1. /\ first \in Peers
        /\ \A i, j \in 1 .. Len(Tail(backlog)) : Tail(backlog)[i] = Tail(backlog)[j] => i = j
        /\ \A i \in 1 .. Len(Tail(backlog)) :
              \E j \in 1 .. Len(backlog) : Tail(backlog)[i] = backlog[j] /\ backlog[j] # first
    BY <1>0, <1>2, TailOfDistinct DEF Accept, Reject, TypeOK
  <2>2. backlog' = Tail(backlog) /\ \A p \in Peers : p # first => conn'[p] = conn[p]
    BY <1>0, <1>2 DEF Accept, Reject, TypeOK
  <2>3. \A j \in 1 .. Len(backlog) : backlog[j] \in Peers
    BY <1>0 DEF TypeOK
  <2> HIDE DEF first
  <2> QED
    BY <1>0, <2>1, <2>2, <2>3
<1>3. ASSUME NEW p \in Peers, Connects(p) PROVE BacklogInv'
  <2>1. conn[p] = "away" /\ backlog' = Append(backlog, p)
    BY <1>3 DEF Connects
  <2>2. /\ Len(backlog) \in Nat /\ Len(backlog') = Len(backlog) + 1
        /\ backlog'[Len(backlog) + 1] = p
        /\ \A i \in 1 .. Len(backlog) : backlog'[i] = backlog[i] /\ backlog[i] \in Peers
    BY <1>0, <2>1 DEF TypeOK
  <2>3. \A i \in 1 .. Len(backlog) : backlog[i] # p
    BY <1>0, <2>1
  <2>4. conn'[p] = "waiting" /\ \A r \in Peers : r # p => conn'[r] = conn[r]
    BY <1>0, <1>3 DEF Connects, TypeOK
  <2>5. \A i \in 1 .. Len(backlog') : i = Len(backlog) + 1 \/ i \in 1 .. Len(backlog)
    BY <2>2
  <2> QED
    BY <1>0, <2>2, <2>3, <2>4, <2>5
<1>4. ASSUME NEW p \in Peers, Builds(p) \/ BuildFails(p) \/ Goes(p) PROVE BacklogInv'
  <2>1. backlog' = backlog /\ \A r \in Peers : r # p => conn'[r] = conn[r]
    BY <1>0, <1>4 DEF Builds, BuildFails, Goes, acceptVars, TypeOK
  <2>2. conn'[p] = "gone" \/ conn[p] = "building"
    BY <1>0, <1>4 DEF Builds, BuildFails, Goes, TypeOK
  <2>3. \A j \in 1 .. Len(backlog) : backlog[j] \in Peers
    BY <1>0 DEF TypeOK
  <2> QED
    BY <1>0, <2>1, <2>2, <2>3
<1>5. CASE \E s \in Sources : Change(s) \/ Announce(s)
  BY <1>1, <1>5 DEF Change, Announce, acceptVars
<1>6. CASE FanOut
  BY <1>1, <1>6 DEF FanOut, TakeReason, EndRound, SendTo, Emit, EmitFails, acceptVars
<1>7. CASE AcceptFails \/ AcceptAgain \/ \E p \in Peers : Registers(p) \/ MonitorEnds(p)
  BY <1>1, <1>7 DEF AcceptFails, AcceptAgain, Registers, MonitorEnds
<1>8. CASE \E p \in Peers : Reads(p)
  BY <1>1, <1>8 DEF Reads, acceptVars
<1>9. CASE UNCHANGED signalVars
  BY <1>1, <1>9 DEF signalVars
<1> QED
  BY <1>2, <1>3, <1>4, <1>5, <1>6, <1>7, <1>8, <1>9 DEF Next, AcceptLoop, Client

LEMMA ServedStep == Inv /\ [Next]_signalVars => ServedInv' /\ SignalOnItsWay'
<1> SUFFICES ASSUME Inv, [Next]_signalVars PROVE ServedInv' /\ SignalOnItsWay'
  OBVIOUS
<1> USE DEF ServedInv, SignalOnItsWay
<1>0. TypeOK /\ BacklogInv /\ ServedInv /\ SignalOnItsWay
  BY DEF Inv
<1>1. ASSUME NEW s \in Sources, Change(s) \/ Announce(s) PROVE ServedInv' /\ SignalOnItsWay'
  BY <1>0, <1>1 DEF Change, Announce, acceptVars, fanVars, TypeOK
<1>2. CASE TakeReason
  BY <1>0, <1>2 DEF TakeReason, Resting, acceptVars, TypeOK
<1>3. CASE EndRound
  BY <1>0, <1>3 DEF EndRound, Resting, acceptVars, TypeOK
<1>4. ASSUME NEW p \in Peers, SendTo(p) PROVE ServedInv' /\ SignalOnItsWay'
  <2>1. /\ fan.to = None /\ fan'.to = p
        /\ fan'.left = fan.left \ {p} /\ fan'.failed = fan.failed
    BY <1>0, <1>4 DEF SendTo, TypeOK, FanStates
  <2>2. \A r \in stale : r # None
    BY <1>0, SignalsAssumption DEF TypeOK
  <2> QED
    BY <1>0, <1>4, <2>1, <2>2 DEF SendTo, acceptVars
<1>5. ASSUME NEW p \in Peers, Emit(p) PROVE ServedInv' /\ SignalOnItsWay'
  BY <1>0, <1>5 DEF Emit, acceptVars, TypeOK
<1>6. ASSUME NEW p \in Peers, EmitFails(p) PROVE ServedInv' /\ SignalOnItsWay'
  BY <1>0, <1>6 DEF EmitFails, acceptVars, TypeOK
<1>7. CASE Accept \/ Reject
  <2>1. /\ Head(backlog) \in Peers
        /\ conn[Head(backlog)] \in {"waiting", "gone"}
    BY <1>0, <1>7 DEF Accept, Reject, TypeOK, BacklogInv
  <2>2. /\ conn'[Head(backlog)] \in {"building", "gone"}
        /\ \A p \in Peers : p # Head(backlog) => conn'[p] = conn[p]
        /\ peers' = peers /\ fan' = fan /\ stale' = stale /\ inbox' = inbox
        /\ source' = source /\ queued' = queued
    BY <1>0, <1>7, <2>1 DEF Accept, Reject, AcceptRest, fanVars, TypeOK
  <2>3. \/ acceptor' = [step |-> "building", peer |-> Head(backlog)]
        \/ acceptor'.step = "accepting"
    BY <1>7 DEF Accept, Reject, Accepting
  <2>4. \A p \in Peers : conn[p] = "gone" => conn'[p] = "gone"
    BY <1>0, <1>7, <2>1, <2>2 DEF Accept, Reject, TypeOK
  <2>5. stale \subseteq Peers /\ fan.failed \subseteq Peers
    BY <1>0 DEF TypeOK, FanStates
  <2>6. ServedInv'
    BY <1>0, <2>1, <2>2, <2>3, <2>4, <2>5
  <2> QED
    BY <1>0, <2>2, <2>6
<1>8. CASE AcceptFails \/ AcceptAgain
  BY <1>0, <1>8 DEF AcceptFails, AcceptAgain, AcceptRest, Accepting, fanVars
<1>9. ASSUME NEW p \in Peers, Builds(p) \/ BuildFails(p) PROVE ServedInv' /\ SignalOnItsWay'
  <2>1. /\ conn[p] \in {"building", "gone"}
        /\ conn[p] = "gone" => conn'[p] = "gone"
        /\ \A r \in Peers : r # p => conn'[r] = conn[r]
        /\ peers' = peers /\ fan' = fan /\ stale' = stale /\ inbox' = inbox
        /\ source' = source /\ queued' = queued
    BY <1>0, <1>9 DEF Builds, BuildFails, AcceptRest, fanVars, TypeOK
  <2>2. acceptor'.step # "building"
    BY <1>9 DEF Builds, BuildFails, Accepting
  <2>3. stale \subseteq Peers /\ fan.failed \subseteq Peers
    BY <1>0 DEF TypeOK, FanStates
  <2>4. ServedInv'
    BY <1>0, <2>1, <2>2, <2>3
  <2> QED
    BY <1>0, <2>1, <2>4
<1>10. ASSUME NEW p \in Peers, Registers(p) PROVE ServedInv' /\ SignalOnItsWay'
  BY <1>0, <1>10 DEF Registers, AcceptRest, Accepting, fanVars, TypeOK
<1>11. ASSUME NEW p \in Peers, MonitorEnds(p) PROVE ServedInv' /\ SignalOnItsWay'
  BY <1>0, <1>11 DEF MonitorEnds, AcceptRest, fanVars, TypeOK
<1>12. ASSUME NEW p \in Peers, Client(p) PROVE ServedInv' /\ SignalOnItsWay'
  <2>1. CASE Connects(p)
    BY <1>0, <2>1 DEF Connects, AcceptRest, fanVars, TypeOK
  <2>2. CASE Reads(p)
    BY <1>0, <2>2 DEF Reads, acceptVars, fanVars, TypeOK
  <2>3. CASE Goes(p)
    BY <1>0, <2>3 DEF Goes, acceptVars, fanVars, TypeOK
  <2> QED
    BY <1>12, <2>1, <2>2, <2>3 DEF Client
<1>13. CASE UNCHANGED signalVars
  BY <1>0, <1>13 DEF signalVars
<1> QED
  BY <1>1, <1>2, <1>3, <1>4, <1>5, <1>6, <1>7, <1>8, <1>9, <1>10, <1>11, <1>12, <1>13
     DEF Next, FanOut, AcceptLoop

LEMMA Invariance == Spec => []Inv
<1>1. Inv /\ [Next]_signalVars => Inv'
  BY TypeStep, BacklogStep, ServedStep DEF Inv
<1> QED
  BY <1>1, InvInit, PTL DEF Spec

\* Clients, tasks and the channel keep their types, for any number of each
\* (control_plane.rs:310-437).
THEOREM TypeCorrect == Spec => []TypeOK
<1>1. Inv => TypeOK
  BY DEF Inv
<1> QED
  BY <1>1, Invariance, PTL

\* Whatever clients do, and whoever changes the state when, a registered peer that
\* knows an older state has a signal on its way (control_plane.rs:374-412).
THEOREM SignalTheorem == Spec => []SignalOnItsWay
<1>1. Inv => SignalOnItsWay
  BY DEF Inv
<1> QED
  BY <1>1, Invariance, PTL
=============================================================================
