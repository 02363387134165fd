--------------------------- MODULE ForwardsProofs ---------------------------
(***************************************************************************)
(* That the map of forwards is that of the listeners, and the registry of  *)
(* live connections that of their tasks, for any number of addresses,      *)
(* calls, listeners and connections.                                       *)
(***************************************************************************)
EXTENDS Forwards, FiniteSetTheorems, TLAPS

\* What a call has under way: the address it was called with, the mutex while it
\* adds, and a task of its own that is not in the map.
Adding(c) == call[c].step \in {"binding", "inserting"}
HasTask(c) == call[c].step \in {"inserting", "dropping"}

CallsInv ==
    /\ \A c \in Calls : call[c].step # "idle" => call[c].addr \in Addrs
    /\ \A c \in Calls : Adding(c) => holder = c /\ forwards[call[c].addr] = None
    /\ \A c \in Calls : ~HasTask(c) => call[c].task = None

TasksInv ==
    /\ \A c \in Calls : HasTask(c) =>
         /\ call[c].task \in Listeners
         /\ listener[call[c].task].state # "new"
         /\ \A a \in Addrs : forwards[a] # call[c].task
    /\ \A c \in Calls : call[c].step = "inserting" =>
         /\ listener[call[c].task].addr = call[c].addr
         /\ listener[call[c].task].state \in {"running", "failed"}
    /\ \A c, d \in Calls : HasTask(c) /\ HasTask(d) /\ call[c].task = call[d].task => c = d

MapInv == TypeOK /\ CallsInv /\ TasksInv /\ ListedIsNotStopped /\ NoOrphanListener

\* The registry's ids are those of its tasks, each its own.
IdsInv ==
    /\ \A k \in Registered : conn[k].id < nextId
    /\ \A j, k \in Registered : conn[j].id = conn[k].id => j = k
    /\ active = {conn[k].id : k \in Registered}

----------------------------------------------------------------------------
(* Types                                                                   *)

LEMMA TypeInit == Init => TypeOK
BY ForwardsAssumption
   DEF Init, TypeOK, Idle, NoConn, CallRecords, ListenerRecords, ConnRecords, CallSteps,
       Waiting, ListenerStates, ConnStates

LEMMA ControlTypes ==
    ASSUME MapInv, NEW c \in Calls, ControlCall(c) PROVE TypeOK'
<1> USE DEF TypeOK
<1>0. TypeOK /\ CallsInv /\ TasksInv
  BY DEF MapInv
<1>1. /\ call[c] = [step |-> call[c].step, addr |-> call[c].addr, task |-> call[c].task]
      /\ call[c].addr \in Addrs \cup {None} /\ call[c].task \in Listeners \cup {None}
      /\ call[c].step # "idle" => forwards[call[c].addr] \in Listeners \cup {None}
  BY <1>0 DEF CallRecords, CallsInv
<1>2. Idle \in CallRecords
  BY DEF Idle, CallRecords, CallSteps, Waiting
<1>3. waiters # <<>> => Head(waiters) \in Calls /\ Tail(waiters) \in Seq(Calls)
  BY <1>0
<1>4. ASSUME NEW step \in Waiting, NEW a \in Addrs, Calling(c, step, a) PROVE TypeOK'
  <2>1. [step |-> step, addr |-> a, task |-> None] \in CallRecords
    BY DEF CallRecords, CallSteps
  <2>2. call' \in [Calls -> CallRecords] /\ waiters' \in Seq(Calls)
    BY <1>0, <1>4, <2>1 DEF Calling
  <2> QED
    BY <1>0, <1>4, <2>2 DEF Calling, registryVars
<1>5. CASE Answers(c)
  BY <1>0, <1>2, <1>3, <1>5 DEF Answers, Locks, registryVars
<1>6. CASE AddLocks(c)
  <2>1. [call[c] EXCEPT !.step = "binding"] \in CallRecords
    BY <1>1 DEF CallRecords, CallSteps
  <2>2. call' \in [Calls -> CallRecords] /\ waiters' \in Seq(Calls)
    BY <1>0, <1>3, <1>6, <2>1 DEF AddLocks, Locks
  <2> QED
    BY <1>0, <1>6, <2>2 DEF AddLocks, registryVars
<1>7. CASE DelRemoves(c)
  <2>1. [call[c] EXCEPT !.step = "dropping", !.task = forwards[call[c].addr]] \in CallRecords
    BY <1>1, <1>7 DEF CallRecords, CallSteps, DelRemoves
  <2>2. call' \in [Calls -> CallRecords] /\ waiters' \in Seq(Calls)
    BY <1>0, <1>3, <1>7, <2>1 DEF DelRemoves, Locks
  <2>3. forwards' \in [Addrs -> Listeners \cup {None}]
    BY <1>0, <1>7 DEF DelRemoves
  <2> QED
    BY <1>0, <1>7, <2>2, <2>3 DEF DelRemoves, registryVars
<1>8. ASSUME NEW l \in Listeners, AddSpawns(c, l) PROVE TypeOK'
  <2>1. /\ [call[c] EXCEPT !.step = "inserting", !.task = l] \in CallRecords
        /\ [state |-> "running", addr |-> call[c].addr] \in ListenerRecords
    BY <1>1 DEF CallRecords, CallSteps, ListenerRecords, ListenerStates
  <2>2. call' \in [Calls -> CallRecords] /\ listener' \in [Listeners -> ListenerRecords]
    BY <1>0, <1>8, <2>1 DEF AddSpawns
  <2> QED
    BY <1>0, <1>8, <2>2 DEF AddSpawns, registryVars
<1>9. CASE AddFails(c)
  BY <1>0, <1>2, <1>9 DEF AddFails, registryVars
<1>10. CASE AddInserts(c)
  <2>1. forwards' \in [Addrs -> Listeners \cup {None}] /\ call' \in [Calls -> CallRecords]
    BY <1>0, <1>1, <1>2, <1>10 DEF AddInserts
  <2> QED
    BY <1>0, <1>10, <2>1 DEF AddInserts, registryVars
<1>11. CASE DelDrops(c)
  <2>1. call[c].task \in Listeners
    BY <1>0, <1>11 DEF DelDrops, TasksInv, HasTask
  <2>2. [listener[call[c].task] EXCEPT !.state = "aborting"] \in ListenerRecords
    BY <1>0, <2>1 DEF ListenerRecords, ListenerStates
  <2>3. listener' \in [Listeners -> ListenerRecords] /\ returned' \subseteq Listeners
    BY <1>0, <1>11, <2>1, <2>2 DEF DelDrops, AbortListener
  <2>4. call' \in [Calls -> CallRecords]
    BY <1>0, <1>2, <1>11 DEF DelDrops
  <2> QED
    BY <1>0, <1>11, <2>3, <2>4 DEF DelDrops, registryVars
<1> QED
  BY <1>4, <1>5, <1>6, <1>7, <1>8, <1>9, <1>10, <1>11 DEF ControlCall

\* A listener's task changes its own state, lets a connection's task begin, and
\* tells or forgets those it has.
LEMMA ListenerTypes ==
    ASSUME TypeOK, NEW l \in Listeners, ListenerTask(l) PROVE TypeOK'
<1> USE DEF TypeOK
<1>1. NoConn \in ConnRecords
  BY DEF NoConn, ConnRecords, ConnStates
<1>2. ASSUME NEW k \in Conns, Accept(l, k) PROVE TypeOK'
  <2>1. [NoConn EXCEPT !.state = "connecting", !.owner = l] \in ConnRecords
    BY <1>1 DEF ConnRecords, ConnStates
  <2>2. conn' \in [Conns -> ConnRecords]
    BY <1>2, <2>1 DEF Accept
  <2> QED
    BY <1>2, <2>2 DEF Accept, mapVars, registryVars
<1>3. ASSUME NEW k \in Conns, Reap(l, k) PROVE TypeOK'
  BY <1>1, <1>3 DEF Reap, mapVars, registryVars
<1>4. ASSUME DropJoinSet(l) PROVE conn' \in [Conns -> ConnRecords]
  <2>1. \A k \in Conns : [conn[k] EXCEPT !.told = TRUE] \in ConnRecords
    BY DEF ConnRecords
  <2> QED
    BY <1>1, <1>4, <2>1 DEF DropJoinSet
<1>5. CASE ListenerEnds(l)
  <2>1. listener' \in [Listeners -> ListenerRecords]
    BY <1>5 DEF ListenerEnds, ListenerRecords, ListenerStates
  <2> QED
    BY <1>4, <1>5, <2>1 DEF ListenerEnds, mapVars, registryVars
<1>6. CASE AcceptFails(l)
  <2>1. listener' \in [Listeners -> ListenerRecords]
    BY <1>6 DEF AcceptFails, ListenerRecords, ListenerStates
  <2> QED
    BY <1>4, <1>6, <2>1 DEF AcceptFails, mapVars, registryVars
<1> QED
  BY <1>2, <1>3, <1>5, <1>6 DEF ListenerTask

LEMMA ConnTypes ==
    ASSUME TypeOK, NEW k \in Conns, ConnTask(k) PROVE TypeOK'
<1> USE DEF TypeOK
<1>1. /\ NoConn \in ConnRecords
      /\ \A s \in ConnStates : [conn[k] EXCEPT !.state = s] \in ConnRecords
      /\ [conn[k] EXCEPT !.state = "registering", !.id = nextId] \in ConnRecords
  BY DEF NoConn, ConnRecords, ConnStates
<1>2. EndOfTask(k) \in ConnRecords
  BY <1>1 DEF EndOfTask, ConnStates
<1>3. CASE Registers(k)
  BY <1>1, <1>3 DEF Registers, mapVars
<1>4. CASE SendsOpened(k) \/ NeverConnects(k)
  <2>1. conn' \in [Conns -> ConnRecords]
    BY <1>1, <1>2, <1>4 DEF SendsOpened, NeverConnects, ConnStates
  <2> QED
    BY <1>4, <2>1 DEF SendsOpened, NeverConnects, mapVars, registryVars
<1>5. CASE Unregisters(k) \/ SendsClosed(k)
  <2>1. conn' \in [Conns -> ConnRecords]
    BY <1>1, <1>2, <1>5 DEF Unregisters, SendsClosed, ConnStates
  <2> QED
    BY <1>5, <2>1 DEF Unregisters, SendsClosed, mapVars
<1> QED
  BY <1>3, <1>4, <1>5 DEF ConnTask
----------------------------------------------------------------------------
(* The map                                                                 *)

LEMMA MapInit == Init => MapInv
<1> SUFFICES ASSUME Init PROVE MapInv
  OBVIOUS
<1>1. CallsInv /\ TasksInv /\ ListedIsNotStopped /\ NoOrphanListener
  BY DEF Init, Idle, CallsInv, TasksInv, Adding, HasTask, ListedIsNotStopped, NoOrphanListener
<1> QED
  BY <1>1, TypeInit DEF MapInv

\* Steps that leave the map, the calls and the listeners alone.
LEMMA MapUnseen ==
    ASSUME MapInv, TypeOK', UNCHANGED <<forwards, holder, call, listener>>
    PROVE  MapInv'
BY DEF MapInv, CallsInv, TasksInv, Adding, HasTask, ListedIsNotStopped, NoOrphanListener

LEMMA ControlMap ==
    ASSUME MapInv, NEW c \in Calls, ControlCall(c) PROVE MapInv'
<1> USE DEF Adding, HasTask
<1>0. TypeOK /\ CallsInv /\ TasksInv /\ ListedIsNotStopped /\ NoOrphanListener
  BY DEF MapInv
<1>1. TypeOK'
  BY ControlTypes
<1>2. call \in [Calls -> CallRecords] /\ None \notin Listeners /\ None \notin Calls
  BY <1>0, ForwardsAssumption DEF TypeOK
<1> DEFINE Kept == CallsInv' /\ TasksInv' /\ ListedIsNotStopped' /\ NoOrphanListener'
<1> SUFFICES Kept
  BY <1>1 DEF MapInv
\* A call that begins, is answered, or fails has no task before and after.
<1>3. ASSUME call[c].step \notin {"inserting", "dropping"},
             \A d \in Calls : d # c => call'[d] = call[d],
             call'[c].task = None, ~HasTask(c)', ~Adding(c)',
             call'[c].step # "idle" => call'[c].addr \in Addrs,
             UNCHANGED <<forwards, listener>>,
             holder' = holder \/ call[c].step = "binding"
      PROVE  Kept
  <2>1. CallsInv'
    BY <1>0, <1>2, <1>3 DEF CallsInv
  <2>2. TasksInv' /\ ListedIsNotStopped'
    BY <1>0, <1>3 DEF TasksInv, ListedIsNotStopped
  <2>3. NoOrphanListener'
    BY <1>0, <1>2, <1>3 DEF NoOrphanListener, CallsInv, Idle
  <2> QED
    BY <2>1, <2>2, <2>3
<1>4. ASSUME NEW step \in Waiting, NEW a \in Addrs, Calling(c, step, a) PROVE Kept
  BY <1>2, <1>3, <1>4 DEF Calling, Idle, Waiting
<1>5. CASE Answers(c)
  BY <1>2, <1>3, <1>5 DEF Answers, Refused, Idle
<1>6. CASE AddFails(c)
  BY <1>2, <1>3, <1>6 DEF AddFails, Idle
<1>7. CASE AddLocks(c)
  <2>1. /\ call'[c].step = "binding" /\ call'[c].addr = call[c].addr
        /\ call'[c].task = call[c].task /\ call[c].step = "adding"
        /\ \A d \in Calls : d # c => call'[d] = call[d]
        /\ holder = None /\ holder' = c /\ forwards' = forwards /\ listener' = listener
        /\ forwards[call[c].addr] = None
    BY <1>2, <1>7 DEF AddLocks, Locks, Refused, CallRecords
  <2>2. CallsInv'
    BY <1>0, <1>2, <2>1 DEF CallsInv
  <2>3. TasksInv' /\ ListedIsNotStopped'
    BY <1>0, <2>1 DEF TasksInv, ListedIsNotStopped
  <2>4. NoOrphanListener'
    BY <1>0, <1>2, <2>1 DEF NoOrphanListener, CallsInv, Idle
  <2> QED
    BY <2>2, <2>3, <2>4
<1>8. ASSUME NEW l \in Listeners, AddSpawns(c, l) PROVE Kept
  <2>1. /\ call'[c].step = "inserting" /\ call'[c].addr = call[c].addr
        /\ call'[c].task = l /\ call[c].step = "binding"
        /\ \A d \in Calls : d # c => call'[d] = call[d]
        /\ holder' = holder /\ forwards' = forwards
        /\ listener[l].state = "new"
    BY <1>2, <1>8 DEF AddSpawns, CallRecords
  <2>2. /\ listener'[l].state = "running" /\ listener'[l].addr = call[c].addr
        /\ \A m \in Listeners : m # l => listener'[m] = listener[m]
    BY <1>0, <1>8 DEF AddSpawns, TypeOK
  <2>3. forwards \in [Addrs -> Listeners \cup {None}]
    BY <1>0 DEF TypeOK
  <2>4. \A a \in Addrs : forwards[a] # l
    BY <1>0, <1>2, <2>1, <2>3 DEF ListedIsNotStopped
  <2>5. CallsInv'
    BY <1>0, <2>1 DEF CallsInv
  <2>6. TasksInv'
    BY <1>0, <2>1, <2>2, <2>4 DEF TasksInv
  <2>7. ListedIsNotStopped'
    BY <1>0, <2>1, <2>2, <2>3, <2>4 DEF ListedIsNotStopped
  <2>8. NoOrphanListener'
    BY <1>0, <1>2, <2>1, <2>2 DEF NoOrphanListener, CallsInv, Idle
  <2> QED
    BY <2>5, <2>6, <2>7, <2>8
<1>9. CASE AddInserts(c)
  <2>1. /\ call[c].step = "inserting" /\ call'[c] = Idle
        /\ \A d \in Calls : d # c => call'[d] = call[d]
        /\ holder = c /\ holder' = None /\ listener' = listener
        /\ call[c].addr \in Addrs /\ call[c].task \in Listeners
    BY <1>0, <1>2, <1>9 DEF AddInserts, CallsInv, TasksInv
  <2>2. /\ forwards'[call[c].addr] = call[c].task
        /\ \A a \in Addrs : a # call[c].addr => forwards'[a] = forwards[a]
        /\ forwards[call[c].addr] = None
    BY <1>0, <1>9, <2>1 DEF AddInserts, TypeOK, CallsInv
  <2>3. \A d \in Calls : d # c => ~Adding(d)
    BY <1>0, <2>1 DEF CallsInv
  <2>4. CallsInv'
    BY <1>0, <2>1, <2>3 DEF CallsInv, Idle
  <2>5. TasksInv'
    BY <1>0, <2>1, <2>2, <2>3 DEF TasksInv, Idle
  <2>6. ListedIsNotStopped'
    BY <1>0, <2>1, <2>2 DEF ListedIsNotStopped, TasksInv
  <2>7. NoOrphanListener'
    BY <1>0, <1>2, <2>1, <2>2 DEF NoOrphanListener, Idle
  <2> QED
    BY <2>4, <2>5, <2>6, <2>7
<1>10. CASE DelRemoves(c)
  <2>1. /\ call[c].step = "deleting" /\ call'[c].step = "dropping"
        /\ call'[c].addr = call[c].addr /\ call'[c].task = forwards[call[c].addr]
        /\ \A d \in Calls : d # c => call'[d] = call[d]
        /\ holder = None /\ holder' = None /\ listener' = listener
        /\ call[c].addr \in Addrs
    BY <1>0, <1>2, <1>10 DEF DelRemoves, Locks, CallRecords, CallsInv
  <2>2. /\ forwards'[call[c].addr] = None
        /\ \A a \in Addrs : a # call[c].addr => forwards'[a] = forwards[a]
        /\ forwards[call[c].addr] \in Listeners
    BY <1>0, <1>10, <2>1 DEF DelRemoves, Refused, TypeOK
  <2>3. CallsInv'
    BY <1>0, <1>2, <2>1 DEF CallsInv
  <2>4. /\ listener[forwards[call[c].addr]].state # "new"
        /\ \A a \in Addrs : a # call[c].addr => forwards[a] # forwards[call[c].addr]
    BY <1>0, <1>2, <2>1, <2>2 DEF ListedIsNotStopped
  <2>5. TasksInv'
    BY <1>0, <1>2, <2>1, <2>2, <2>4 DEF TasksInv
  <2>6. ListedIsNotStopped'
    BY <1>0, <2>1, <2>2 DEF ListedIsNotStopped
  <2>7. NoOrphanListener'
    BY <1>0, <1>2, <2>1, <2>2 DEF NoOrphanListener, Idle, CallsInv
  <2> QED
    BY <2>3, <2>5, <2>6, <2>7
<1>11. CASE DelDrops(c)
  <2>1. /\ call[c].step = "dropping" /\ call'[c] = Idle
        /\ \A d \in Calls : d # c => call'[d] = call[d]
        /\ holder' = holder /\ forwards' = forwards /\ call[c].task \in Listeners
    BY <1>0, <1>2, <1>11 DEF DelDrops, TasksInv
  <2>2. /\ listener'[call[c].task].state # "running"
        /\ listener[call[c].task].state # "new" => listener'[call[c].task].state # "new"
        /\ \A m \in Listeners : m # call[c].task => listener'[m] = listener[m]
    BY <1>0, <1>11, <2>1 DEF DelDrops, AbortListener, TypeOK, ListenerRecords
  <2>3. \A a \in Addrs : forwards[a] \in Listeners \cup {None} /\ forwards[a] # call[c].task
    BY <1>0, <2>1 DEF TasksInv, TypeOK
  <2>4. \A d \in Calls : d # c /\ HasTask(d) =>
           call[d].task \in Listeners /\ call[d].task # call[c].task
    BY <1>0, <2>1 DEF TasksInv
  <2>5. CallsInv'
    BY <1>0, <2>1 DEF CallsInv, Idle
  <2>6. TasksInv'
    BY <1>0, <2>1, <2>2, <2>4 DEF TasksInv, Idle
  <2>7. ListedIsNotStopped'
    BY <1>0, <2>1, <2>2, <2>3 DEF ListedIsNotStopped
  <2>8. NoOrphanListener'
    BY <1>0, <2>1, <2>2 DEF NoOrphanListener, Idle
  <2> QED
    BY <2>5, <2>6, <2>7, <2>8
<1> QED
  BY <1>4, <1>5, <1>6, <1>7, <1>8, <1>9, <1>10, <1>11 DEF ControlCall

\* A listener stops running because it was aborted, when it is in no call's hands
\* and not in the map, or by itself.
LEMMA ListenerMap ==
    ASSUME MapInv, NEW l \in Listeners, ListenerTask(l) PROVE MapInv'
<1>0. TypeOK /\ CallsInv /\ TasksInv /\ ListedIsNotStopped /\ NoOrphanListener
  BY DEF MapInv
<1>1. TypeOK'
  BY <1>0, ListenerTypes
<1>2. CASE \E k \in Conns : Accept(l, k) \/ Reap(l, k)
  BY <1>1, <1>2, MapUnseen DEF Accept, Reap, mapVars
<1>3. CASE ListenerEnds(l) \/ AcceptFails(l)
  <2>1. UNCHANGED <<forwards, holder, call>>
    BY <1>3 DEF ListenerEnds, AcceptFails, mapVars
  <2>2. /\ \A m \in Listeners : m # l => listener'[m] = listener[m]
        /\ listener'[l].addr = listener[l].addr
        /\ \/ listener[l].state = "aborting" /\ listener'[l].state = "ended"
           \/ listener[l].state \in {"running", "aborting"} /\ listener'[l].state = "failed"
    BY <1>0, <1>3 DEF ListenerEnds, AcceptFails, Bound, TypeOK, ListenerRecords
  <2>3. CallsInv'
    BY <1>0, <2>1 DEF CallsInv, Adding, HasTask
  <2>4. TasksInv'
    BY <1>0, <2>1, <2>2 DEF TasksInv, HasTask
  <2>5. ListedIsNotStopped'
    BY <1>0, <2>1, <2>2 DEF ListedIsNotStopped, TypeOK
  <2>6. NoOrphanListener'
    BY <1>0, <2>1, <2>2 DEF NoOrphanListener
  <2> QED
    BY <1>1, <2>3, <2>4, <2>5, <2>6 DEF MapInv
<1> QED
  BY <1>2, <1>3 DEF ListenerTask

LEMMA MapStep == MapInv /\ [Next]_forwardVars => MapInv'
<1> SUFFICES ASSUME MapInv, [Next]_forwardVars PROVE MapInv'
  OBVIOUS
<1>0. TypeOK
  BY DEF MapInv
<1>1. ASSUME NEW k \in Conns, ConnTask(k) PROVE MapInv'
  <2>1. UNCHANGED <<forwards, holder, call, listener>>
    BY <1>1 DEF ConnTask, Registers, SendsOpened, NeverConnects, Unregisters, SendsClosed,
                mapVars
  <2> QED
    BY <1>0, <1>1, <2>1, ConnTypes, MapUnseen
<1>2. CASE UNCHANGED forwardVars
  <2>1. TypeOK'
    BY <1>0, <1>2 DEF TypeOK, forwardVars
  <2> QED
    BY <1>2, <2>1, MapUnseen DEF forwardVars
<1> QED
  BY <1>1, <1>2, ControlMap, ListenerMap DEF Next
----------------------------------------------------------------------------
(* The registry                                                            *)

RegistryInv == TypeOK /\ IdsInv /\ EventsCountEntries

\* There are as many ids as registered tasks, each having its own.
LEMMA OneIdEach ==
    ASSUME TypeOK, IdsInv
    PROVE  /\ IsFiniteSet(active)
           /\ Cardinality(active) = Cardinality(Registered)
<1> DEFINE id == [k \in Registered |-> conn[k].id]
<1>1. IsFiniteSet(Registered)
  <2>1. Registered \in SUBSET Conns
    BY DEF Registered, InState
  <2> QED
    BY <2>1, FS_Subset, ForwardsAssumption
<1>2. id \in Surjection(Registered, active)
  BY DEF IdsInv, Surjection
<1>3. id \in Injection(Registered, active)
  BY DEF IdsInv, Injection, IsInjective
<1> QED
  BY <1>1, <1>2, <1>3, FS_Surjection

\* How a task that goes from one state to another changes the number in a state.
LEMMA OneLeaves ==
    ASSUME NEW S \in SUBSET Conns, NEW k \in S
    PROVE  /\ Cardinality(S) \in Nat /\ Cardinality(S \ {k}) \in Nat
           /\ Cardinality(S \ {k}) = Cardinality(S) - 1
<1>1. IsFiniteSet(S)
  BY FS_Subset, ForwardsAssumption
<1> QED
  BY <1>1, FS_RemoveElement, FS_CardinalityType

LEMMA OneEnters ==
    ASSUME NEW S \in SUBSET Conns, NEW k \in Conns, k \notin S
    PROVE  /\ Cardinality(S) \in Nat /\ Cardinality(S \cup {k}) \in Nat
           /\ Cardinality(S \cup {k}) = Cardinality(S) + 1
<1>1. IsFiniteSet(S)
  BY FS_Subset, ForwardsAssumption
<1> QED
  BY <1>1, FS_AddElement, FS_CardinalityType

LEMMA RegistryInit == Init => RegistryInv
<1> SUFFICES ASSUME Init PROVE RegistryInv
  OBVIOUS
<1>1. InState("registering") = {} /\ InState("open") = {} /\ InState("unregistering") = {}
  BY DEF Init, InState, NoConn
<1>2. IdsInv
  BY <1>1 DEF Init, IdsInv, Registered
<1>3. EventsCountEntries
  <2>1. Cardinality({}) = 0 /\ active = {} /\ opened = 0 /\ closed = 0
    BY FS_EmptySet DEF Init
  <2>2. /\ Cardinality(active) = 0
        /\ Cardinality(InState("registering")) = 0
        /\ Cardinality(InState("unregistering")) = 0
    BY <1>1, <2>1
  <2> QED
    BY <2>1, <2>2 DEF EventsCountEntries
<1> QED
  BY <1>2, <1>3, TypeInit DEF RegistryInv

\* Steps after which the same tasks are registered, with the same ids.
LEMMA RegistryUnseen ==
    ASSUME RegistryInv, TypeOK', UNCHANGED registryVars,
           \A k \in Conns : conn'[k].state # conn[k].state =>
              {conn[k].state, conn'[k].state} \subseteq {"none", "connecting", "ended"},
           \A k \in Conns : conn'[k].id # conn[k].id =>
              conn[k].state \notin {"registering", "open"}
    PROVE  RegistryInv'
<1>1. /\ InState("registering")' = InState("registering")
      /\ InState("open")' = InState("open")
      /\ InState("unregistering")' = InState("unregistering")
  BY DEF InState
<1>2. \A k \in Registered : conn'[k].id = conn[k].id
  BY DEF Registered, InState
<1>3. IdsInv'
  BY <1>1, <1>2 DEF RegistryInv, IdsInv, Registered, registryVars
<1>4. EventsCountEntries'
  BY <1>1 DEF RegistryInv, EventsCountEntries, registryVars
<1> QED
  BY <1>3, <1>4 DEF RegistryInv

LEMMA ListenerRegistry ==
    ASSUME RegistryInv, NEW l \in Listeners, ListenerTask(l) PROVE RegistryInv'
<1>0. TypeOK /\ TypeOK'
  BY ListenerTypes DEF RegistryInv
<1>1. ASSUME NEW k \in Conns, Accept(l, k) \/ Reap(l, k) PROVE RegistryInv'
  <2>1. /\ \A j \in Conns : j # k => conn'[j] = conn[j]
        /\ UNCHANGED registryVars
        /\ conn'[k] = NoConn \/ conn'[k] = [NoConn EXCEPT !.state = "connecting", !.owner = l]
    BY <1>0, <1>1 DEF Accept, Reap, TypeOK
  <2>2. conn[k].state \in {"none", "ended"}
    BY <1>1 DEF Accept, Reap, NoConn
  <2>3. conn'[k].state \in {"none", "connecting"}
    <3>1. /\ NoConn.state = "none"
          /\ [NoConn EXCEPT !.state = "connecting", !.owner = l].state = "connecting"
      BY DEF NoConn
    <3> QED
      BY <2>1, <3>1
  <2> QED
    BY <1>0, <2>1, <2>2, <2>3, RegistryUnseen
<1>2. CASE ListenerEnds(l) \/ AcceptFails(l)
  <2>1. \A k \in Conns :
           \/ conn'[k] = conn[k]
           \/ conn[k].state = "ended" /\ conn'[k].state = "none"
           \/ conn'[k].state = conn[k].state /\ conn'[k].id = conn[k].id
    BY <1>0, <1>2 DEF ListenerEnds, AcceptFails, DropJoinSet, NoConn, TypeOK, ConnRecords
  <2>2. UNCHANGED registryVars
    BY <1>2 DEF ListenerEnds, AcceptFails
  <2> QED
    BY <1>0, <2>1, <2>2, RegistryUnseen
<1> QED
  BY <1>1, <1>2 DEF ListenerTask

LEMMA ConnRegistry ==
    ASSUME RegistryInv, NEW k \in Conns, ConnTask(k) PROVE RegistryInv'
<1>0. TypeOK /\ TypeOK' /\ IdsInv /\ EventsCountEntries
  BY ConnTypes DEF RegistryInv
<1>1. conn \in [Conns -> ConnRecords] /\ nextId \in Nat /\ opened \in Nat /\ closed \in Nat
  BY <1>0 DEF TypeOK
<1>2. /\ InState("registering") \in SUBSET Conns
      /\ InState("unregistering") \in SUBSET Conns
      /\ Registered \in SUBSET Conns
  BY DEF Registered, InState
<1>3. IsFiniteSet(active) /\ Cardinality(active) \in Nat
  BY <1>0, OneIdEach, FS_CardinalityType
<1>4. /\ Cardinality(InState("registering")) \in Nat
      /\ Cardinality(InState("unregistering")) \in Nat
  BY <1>2, FS_Subset, FS_CardinalityType, ForwardsAssumption
<1> SUFFICES IdsInv' /\ EventsCountEntries'
  BY <1>0 DEF RegistryInv
<1>5. CASE Registers(k)
  <2>1. /\ conn[k].state = "connecting"
        /\ conn'[k].state = "registering" /\ conn'[k].id = nextId
        /\ \A j \in Conns : j # k => conn'[j] = conn[j]
        /\ nextId' = nextId + 1 /\ active' = active \cup {nextId}
        /\ opened' = opened /\ closed' = closed
    BY <1>1, <1>5 DEF Registers, ConnRecords
  <2>2. /\ Registered' = Registered \cup {k} /\ k \notin Registered
        /\ InState("registering")' = InState("registering") \cup {k}
        /\ k \notin InState("registering")
        /\ InState("unregistering")' = InState("unregistering")
    BY <2>1 DEF Registered, InState
  <2>3. \A j \in Registered : conn'[j] = conn[j] /\ conn[j].id \in Nat /\ conn[j].id < nextId
    BY <1>0, <1>1, <1>2, <2>1, <2>2 DEF IdsInv, ConnRecords
  <2>4. IdsInv'
    BY <1>0, <1>1, <2>1, <2>2, <2>3 DEF IdsInv
  <2>5. nextId \notin active
    BY <1>0, <1>1, <2>3 DEF IdsInv
  <2>6. Cardinality(active') = Cardinality(active) + 1
    BY <1>3, <2>1, <2>5, FS_AddElement
  <2>7. Cardinality(InState("registering")') = Cardinality(InState("registering")) + 1
    BY <1>2, <2>2, OneEnters
  <2> QED
    BY <1>0, <1>1, <1>3, <1>4, <2>1, <2>2, <2>4, <2>6, <2>7 DEF EventsCountEntries
<1>6. CASE SendsOpened(k)
  <2>1. /\ conn[k].state = "registering"
        /\ conn'[k].state = "open" /\ conn'[k].id = conn[k].id
        /\ \A j \in Conns : j # k => conn'[j] = conn[j]
        /\ nextId' = nextId /\ active' = active
        /\ opened' = opened + 1 /\ closed' = closed
    BY <1>1, <1>6 DEF SendsOpened, ConnRecords
  <2>2. /\ Registered' = Registered
        /\ InState("registering")' = InState("registering") \ {k}
        /\ k \in InState("registering")
        /\ InState("unregistering")' = InState("unregistering")
    BY <2>1 DEF Registered, InState
  <2>3. \A j \in Registered : conn'[j].id = conn[j].id
    BY <1>2, <2>1
  <2>4. IdsInv'
    BY <1>0, <2>1, <2>2, <2>3 DEF IdsInv
  <2>5. Cardinality(InState("registering")') = Cardinality(InState("registering")) - 1
    BY <1>2, <2>2, OneLeaves
  <2> QED
    BY <1>0, <1>1, <1>3, <1>4, <2>1, <2>2, <2>4, <2>5 DEF EventsCountEntries
<1>7. CASE NeverConnects(k)
  <2>1. /\ conn[k].state = "connecting" /\ conn'[k] = EndOfTask(k)
        /\ \A j \in Conns : j # k => conn'[j] = conn[j]
        /\ UNCHANGED registryVars
    BY <1>1, <1>7 DEF NeverConnects
  <2>2. conn'[k].state \in {"none", "ended"}
    BY <1>1, <2>1 DEF EndOfTask, NoConn, ConnRecords
  <2>3. RegistryInv'
    BY <1>0, <2>1, <2>2, RegistryUnseen
  <2> QED
    BY <2>3 DEF RegistryInv
<1>8. CASE Unregisters(k)
  <2>1. /\ conn[k].state = "open"
        /\ conn'[k].state = "unregistering"
        /\ \A j \in Conns : j # k => conn'[j] = conn[j]
        /\ nextId' = nextId /\ active' = active \ {conn[k].id}
        /\ opened' = opened /\ closed' = closed
    BY <1>1, <1>8 DEF Unregisters, ConnRecords
  <2>2. /\ Registered' = Registered \ {k} /\ k \in Registered
        /\ InState("registering")' = InState("registering")
        /\ InState("unregistering")' = InState("unregistering") \cup {k}
        /\ k \notin InState("unregistering")
    BY <2>1 DEF Registered, InState
  <2>3. \A j \in Registered : j # k => conn'[j] = conn[j] /\ conn[j].id # conn[k].id
    BY <1>0, <1>2, <2>1, <2>2 DEF IdsInv
  <2>4. IdsInv'
    BY <1>0, <2>1, <2>2, <2>3 DEF IdsInv
  <2>5. conn[k].id \in active
    BY <1>0, <2>2 DEF IdsInv
  <2>6. Cardinality(active') = Cardinality(active) - 1
    BY <1>3, <2>1, <2>5, FS_RemoveElement
  <2>7. Cardinality(InState("unregistering")') = Cardinality(InState("unregistering")) + 1
    BY <1>2, <2>2, OneEnters
  <2> QED
    BY <1>0, <1>1, <1>3, <1>4, <2>1, <2>2, <2>4, <2>6, <2>7 DEF EventsCountEntries
<1>9. CASE SendsClosed(k)
  <2>1. /\ conn[k].state = "unregistering" /\ conn'[k] = EndOfTask(k)
        /\ \A j \in Conns : j # k => conn'[j] = conn[j]
        /\ nextId' = nextId /\ active' = active
        /\ opened' = opened /\ closed' = closed + 1
    BY <1>1, <1>9 DEF SendsClosed
  <2>2. conn'[k].state \in {"none", "ended"}
    BY <1>1, <2>1 DEF EndOfTask, NoConn, ConnRecords
  <2>3. /\ Registered' = Registered /\ k \notin Registered
        /\ InState("registering")' = InState("registering")
        /\ InState("unregistering")' = InState("unregistering") \ {k}
        /\ k \in InState("unregistering")
    BY <2>1, <2>2 DEF Registered, InState
  <2>4. \A j \in Registered : conn'[j] = conn[j]
    BY <1>2, <2>1, <2>3
  <2>5. IdsInv'
    BY <1>0, <2>1, <2>3, <2>4 DEF IdsInv
  <2>6. Cardinality(InState("unregistering")') = Cardinality(InState("unregistering")) - 1
    BY <1>2, <2>3, OneLeaves
  <2> QED
    BY <1>0, <1>1, <1>3, <1>4, <2>1, <2>3, <2>5, <2>6 DEF EventsCountEntries
<1> QED
  BY <1>5, <1>6, <1>7, <1>8, <1>9 DEF ConnTask

LEMMA Step == MapInv /\ RegistryInv /\ [Next]_forwardVars => MapInv' /\ RegistryInv'
<1> SUFFICES ASSUME MapInv, RegistryInv, [Next]_forwardVars PROVE RegistryInv'
  BY MapStep
<1>1. TypeOK /\ TypeOK'
  BY MapStep DEF MapInv
<1>2. ASSUME NEW c \in Calls, ControlCall(c) PROVE RegistryInv'
  <2>1. UNCHANGED <<conn, registryVars>>
    BY <1>2 DEF ControlCall, Calling, Answers, AddLocks, DelRemoves, AddSpawns, AddFails,
                AddInserts, DelDrops
  <2> QED
    BY <1>1, <2>1, RegistryUnseen
<1>3. CASE UNCHANGED forwardVars
  BY <1>1, <1>3, RegistryUnseen DEF forwardVars, registryVars
<1> QED
  BY <1>2, <1>3, ListenerRegistry, ConnRegistry DEF Next

LEMMA Invariance == Spec => [](MapInv /\ RegistryInv)
BY MapInit, RegistryInit, Step, PTL DEF Spec

----------------------------------------------------------------------------
\* Map, calls, listeners, connections and registry keep their types
\* (forwards.rs, connections.rs).
THEOREM TypeCorrect == Spec => []TypeOK
<1>1. MapInv => TypeOK
  BY DEF MapInv
<1> QED
  BY <1>1, Invariance, PTL

\* However many calls add and remove forwards at once, a listed forward has a
\* listener of its own that nobody stopped (service.rs:151-163).
THEOREM ListedTheorem == Spec => []ListedIsNotStopped
<1>1. MapInv => ListedIsNotStopped
  BY DEF MapInv
<1> QED
  BY <1>1, Invariance, PTL

\* And no listener runs that is neither listed nor in the hands of a call
\* (forwards.rs:39-114).
THEOREM NoOrphanTheorem == Spec => []NoOrphanListener
<1>1. MapInv => NoOrphanListener
  BY DEF MapInv
<1> QED
  BY <1>1, Invariance, PTL

\* However many connections register, end and are aborted at once, the registry
\* holds an entry for each registered task and no other (connections.rs:18-47).
THEOREM RegistryTheorem == Spec => []RegistryIsExact
<1>1. RegistryInv => RegistryIsExact
  BY OneIdEach DEF RegistryInv, IdsInv, RegistryIsExact
<1> QED
  BY <1>1, Invariance, PTL

\* And the events sent so far account for its size (connections.rs:39-47, 72-77).
THEOREM EventsTheorem == Spec => []EventsCountEntries
<1>1. RegistryInv => EventsCountEntries
  BY DEF RegistryInv
<1> QED
  BY <1>1, Invariance, PTL
----------------------------------------------------------------------------
(* The calls as ForwardTable's                                             *)

Pending == [c \in Calls |-> Doing(c)]
Known == {l \in Listeners : listener[l].state # "new" /\ ~Inserting(l)}

LEMMA PendingChanges ==
    ASSUME NEW c \in Calls, NEW r, Doing(c)' = r,
           \A d \in Calls : d # c => call'[d] = call[d]
    PROVE  Pending' = [Pending EXCEPT ![c] = r]
BY DEF Pending, Doing

\* What is begun by a call as it returns, whatever it did.
LEMMA PendingReturns ==
    ASSUME NEW c \in Calls, call'[c] = Idle,
           \A d \in Calls : d # c => call'[d] = call[d]
    PROVE  Pending' = [Pending EXCEPT ![c] = Table!NoCall]
<1>1. Doing(c)' = Table!NoCall
  BY DEF Doing, Idle, Table!NoCall
<1> QED
  BY <1>1, PendingChanges

\* Nothing is seen of a call that goes on, nor of a listener, before it is listed and
\* after.
LEMMA TableUnseen ==
    ASSUME forwards' = forwards, Pending' = Pending,
           \A l \in Listeners : (listener'[l].state = "new") <=> (listener[l].state = "new"),
           \A l \in Listeners : Inserting(l)' <=> Inserting(l)
    PROVE  UNCHANGED Table!tableVars
BY DEF Table!tableVars, Pending, Known

LEMMA SameInserting ==
    ASSUME MapInv, NEW c \in Calls, call[c].step # "inserting", call'[c].step # "inserting",
           \A d \in Calls : d # c => call'[d] = call[d]
    PROVE  \A l \in Listeners : Inserting(l)' <=> Inserting(l)
BY DEF Inserting

LEMMA ControlTable ==
    ASSUME MapInv, NEW c \in Calls, ControlCall(c)
    PROVE  [Table!Next]_Table!tableVars
<1>0. TypeOK /\ CallsInv /\ TasksInv /\ ListedIsNotStopped
  BY DEF MapInv
<1>1. /\ call \in [Calls -> CallRecords] /\ forwards \in [Addrs -> Listeners \cup {None}]
      /\ None \notin Listeners
  BY <1>0, ForwardsAssumption DEF TypeOK
<1>2. ASSUME NEW step \in Waiting, NEW a \in Addrs, Calling(c, step, a)
      PROVE  Table!Next
  <2>1. /\ call[c] = Idle /\ call'[c] = [step |-> step, addr |-> a, task |-> None]
        /\ \A d \in Calls : d # c => call'[d] = call[d]
        /\ forwards' = forwards /\ listener' = listener
    BY <1>1, <1>2 DEF Calling
  <2>2. Doing(c) = Table!NoCall /\ Doing(c)' = [step |-> step, addr |-> a]
    BY <2>1 DEF Doing, Idle, Waiting, Table!NoCall
  <2>3. Pending' = [Pending EXCEPT ![c] = [step |-> step, addr |-> a]]
    BY <2>1, <2>2, PendingChanges
  <2>4. Known' = Known
    <3>1. \A l \in Listeners : Inserting(l)' <=> Inserting(l)
      BY <2>1, SameInserting DEF Idle, Waiting
    <3> QED
      BY <2>1, <3>1 DEF Known
  <2>5. Table!Begin(c, step, a)
    BY <2>1, <2>2, <2>3, <2>4 DEF Table!Begin, Pending, Known
  <2> QED
    BY <2>5 DEF Table!Next, Waiting
\* A call that returns, having listed and removed nothing.
<1>3. ASSUME call'[c] = Idle, call[c].step # "inserting",
             \A d \in Calls : d # c => call'[d] = call[d], forwards' = forwards,
             \A l \in Listeners :
                (listener'[l].state = "new") <=> (listener[l].state = "new")
      PROVE  /\ Pending' = [Pending EXCEPT ![c] = Table!NoCall]
             /\ Known' = Known
  <2>1. \A l \in Listeners : Inserting(l)' <=> Inserting(l)
    BY <1>3, SameInserting DEF Idle
  <2> QED
    BY <1>3, <2>1, PendingReturns DEF Known
<1>4. CASE Answers(c)
  <2>1. /\ call'[c] = Idle /\ \A d \in Calls : d # c => call'[d] = call[d]
        /\ forwards' = forwards /\ listener' = listener
        /\ \/ call[c].step = "adding" /\ forwards[call[c].addr] # None
           \/ call[c].step = "deleting" /\ forwards[call[c].addr] = None
    BY <1>1, <1>4 DEF Answers, Refused
  <2>2. Doing(c).step = call[c].step /\ Doing(c).addr = call[c].addr
    BY <2>1 DEF Doing
  <2>3. Pending' = [Pending EXCEPT ![c] = Table!NoCall] /\ Known' = Known
    BY <1>3, <2>1
  <2>4. Table!Refuse(c)
    BY <2>1, <2>2, <2>3 DEF Table!Refuse, Table!Returns, Pending, Known
  <2> QED
    BY <2>4 DEF Table!Next
<1>5. CASE AddFails(c)
  <2>1. /\ call'[c] = Idle /\ \A d \in Calls : d # c => call'[d] = call[d]
        /\ forwards' = forwards /\ listener' = listener
        /\ call[c].step = "binding" /\ forwards[call[c].addr] = None
    BY <1>0, <1>1, <1>5 DEF AddFails, CallsInv, Adding
  <2>2. Doing(c).step = "adding" /\ Doing(c).addr = call[c].addr
    BY <2>1 DEF Doing
  <2>3. Pending' = [Pending EXCEPT ![c] = Table!NoCall] /\ Known' = Known
    BY <1>3, <2>1
  <2>4. Table!AddFails(c)
    BY <2>1, <2>2, <2>3 DEF Table!AddFails, Table!Returns, Pending, Known
  <2> QED
    BY <2>4 DEF Table!Next
<1>6. CASE DelDrops(c)
  <2>1. /\ call'[c] = Idle /\ \A d \in Calls : d # c => call'[d] = call[d]
        /\ forwards' = forwards /\ call[c].step = "dropping"
        /\ \A l \in Listeners :
             (listener'[l].state = "new") <=> (listener[l].state = "new")
    <3>1. listener \in [Listeners -> ListenerRecords]
      BY <1>0 DEF TypeOK
    <3> QED
      BY <1>1, <1>6, <3>1 DEF DelDrops, AbortListener, ListenerRecords
  <2>2. Doing(c).step = "removed"
    BY <2>1 DEF Doing
  <2>3. Pending' = [Pending EXCEPT ![c] = Table!NoCall] /\ Known' = Known
    BY <1>3, <2>1
  <2>4. Table!Removed(c)
    BY <2>1, <2>2, <2>3 DEF Table!Removed, Table!Returns, Pending, Known
  <2> QED
    BY <2>4 DEF Table!Next
<1>7. CASE AddLocks(c)
  <2>1. /\ call[c].step = "adding" /\ call'[c] = [call[c] EXCEPT !.step = "binding"]
        /\ \A d \in Calls : d # c => call'[d] = call[d]
        /\ forwards' = forwards /\ listener' = listener
    BY <1>1, <1>7 DEF AddLocks
  <2>2. /\ call'[c].step = "binding" /\ call'[c].addr = call[c].addr
    BY <1>1, <2>1 DEF CallRecords
  <2>3. Doing(c)' = Doing(c)
    BY <2>1, <2>2 DEF Doing
  <2>4. Pending' = Pending
    BY <2>1, <2>3 DEF Pending, Doing
  <2>5. \A l \in Listeners : Inserting(l)' <=> Inserting(l)
    BY <2>1, <2>2, SameInserting
  <2> QED
    BY <2>1, <2>4, <2>5, TableUnseen
<1>8. ASSUME NEW l \in Listeners, AddSpawns(c, l)
      PROVE  UNCHANGED Table!tableVars
  <2>1. /\ call[c].step = "binding"
        /\ call'[c].step = "inserting" /\ call'[c].addr = call[c].addr /\ call'[c].task = l
        /\ \A d \in Calls : d # c => call'[d] = call[d]
        /\ forwards' = forwards /\ listener[l].state = "new"
        /\ \A m \in Listeners : m # l => listener'[m] = listener[m]
    BY <1>1, <1>8 DEF AddSpawns, CallRecords
  <2>2. Doing(c)' = Doing(c)
    BY <2>1 DEF Doing
  <2>3. Pending' = Pending
    BY <2>1, <2>2 DEF Pending, Doing
  <2>4. Inserting(l)' /\ \A m \in Listeners : m # l => (Inserting(m)' <=> Inserting(m))
    BY <2>1 DEF Inserting
  <2>5. Known' = Known
    BY <2>1, <2>4 DEF Known
  <2> QED
    BY <2>1, <2>3, <2>5 DEF Table!tableVars, Pending, Known
<1>9. CASE AddInserts(c)
  <2>0. /\ call[c].step = "inserting" /\ call[c].task \in Listeners /\ call[c].addr \in Addrs
    BY <1>0, <1>9 DEF AddInserts, TasksInv, CallsInv, HasTask
  <2> PICK l \in Listeners, a \in Addrs : l = call[c].task /\ a = call[c].addr
    BY <2>0
  <2>1. /\ call[c].step = "inserting" /\ call'[c] = Idle
        /\ \A d \in Calls : d # c => call'[d] = call[d]
        /\ forwards' = [forwards EXCEPT ![a] = l] /\ listener' = listener
    BY <1>1, <1>9 DEF AddInserts
  <2>2. /\ l \in Listeners /\ listener[l].state # "new" /\ forwards[a] = None
        /\ \A d \in Calls : d # c /\ call[d].step = "inserting" => call[d].task # l
    BY <1>0, <2>1 DEF TasksInv, CallsInv, HasTask, Adding
  <2>3. Doing(c).step = "adding" /\ Doing(c).addr = a
    BY <2>1 DEF Doing
  <2>4. Pending' = [Pending EXCEPT ![c] = Table!NoCall]
    BY <2>1, PendingReturns
  <2>5. /\ Inserting(l) /\ ~Inserting(l)'
        /\ \A m \in Listeners : m # l => (Inserting(m)' <=> Inserting(m))
    BY <2>1, <2>2 DEF Inserting, Idle
  <2>6. Known' = Known \cup {l} /\ l \notin Known
    BY <2>1, <2>2, <2>5 DEF Known
  <2>7. Table!Add(c, l)
    BY <2>1, <2>2, <2>3, <2>4, <2>6 DEF Table!Add, Table!Returns, Pending, Known
  <2> QED
    BY <2>2, <2>7 DEF Table!Next
<1>10. CASE DelRemoves(c)
  <2>1. /\ call[c].step = "deleting" /\ forwards[call[c].addr] # None
        /\ call'[c].step = "dropping" /\ call'[c].addr = call[c].addr
        /\ \A d \in Calls : d # c => call'[d] = call[d]
        /\ forwards' = [forwards EXCEPT ![call[c].addr] = None] /\ listener' = listener
    BY <1>1, <1>10 DEF DelRemoves, Refused, CallRecords
  <2>2. /\ Doing(c).step = "deleting" /\ Doing(c).addr = call[c].addr
        /\ Doing(c)' = [Doing(c) EXCEPT !.step = "removed"]
    BY <2>1 DEF Doing
  <2>3. Pending' = [Pending EXCEPT ![c] = [Doing(c) EXCEPT !.step = "removed"]]
    BY <2>1, <2>2, PendingChanges
  <2>4. \A l \in Listeners : Inserting(l)' <=> Inserting(l)
    BY <2>1, SameInserting
  <2>5. Known' = Known
    BY <2>1, <2>4 DEF Known
  <2>6. Table!Remove(c)
    BY <2>1, <2>2, <2>3, <2>5 DEF Table!Remove, Pending, Known
  <2> QED
    BY <2>6 DEF Table!Next
<1> QED
  BY <1>2, <1>4, <1>5, <1>6, <1>7, <1>8, <1>9, <1>10 DEF ControlCall

LEMMA TableStep == MapInv /\ [Next]_forwardVars => [Table!Next]_Table!tableVars
<1> SUFFICES ASSUME MapInv, [Next]_forwardVars PROVE [Table!Next]_Table!tableVars
  OBVIOUS
<1>1. ASSUME UNCHANGED <<forwards, call>>,
             \A l \in Listeners : (listener'[l].state = "new") <=> (listener[l].state = "new")
      PROVE  UNCHANGED Table!tableVars
  BY <1>1, TableUnseen DEF Pending, Doing, Inserting
<1>2. ASSUME NEW l \in Listeners, ListenerTask(l) PROVE UNCHANGED Table!tableVars
  <2>1. listener \in [Listeners -> ListenerRecords]
    BY DEF MapInv, TypeOK
  <2>2. \A m \in Listeners : (listener'[m].state = "new") <=> (listener[m].state = "new")
    BY <1>2, <2>1
       DEF ListenerTask, Accept, Reap, ListenerEnds, AcceptFails, Bound, ListenerRecords
  <2>3. UNCHANGED <<forwards, call>>
    BY <1>2 DEF ListenerTask, Accept, Reap, ListenerEnds, AcceptFails, mapVars
  <2> QED
    BY <1>1, <2>2, <2>3
<1>3. ASSUME NEW k \in Conns, ConnTask(k) PROVE UNCHANGED Table!tableVars
  BY <1>1, <1>3
     DEF ConnTask, Registers, SendsOpened, NeverConnects, Unregisters, SendsClosed, mapVars
<1>4. CASE UNCHANGED forwardVars
  BY <1>1, <1>4 DEF forwardVars
<1> QED
  BY <1>2, <1>3, <1>4, ControlTable DEF Next

\* Calls that add and remove forwards at once, in any number, implement ForwardTable:
\* each takes effect at one moment (forwards.rs:39-113; service.rs:122-163).
THEOREM CallsRefine == Spec => CallsTakeEffectAtOnce
<1>1. Init => Table!Init
  BY DEF Init, Idle, Doing, Inserting, Table!Init, Table!NoCall
<1> QED
  BY <1>1, TableStep, Invariance, PTL DEF Spec, CallsTakeEffectAtOnce, Table!Spec
----------------------------------------------------------------------------
(* What a removal leaves                                                   *)

\* A listener whose removal has returned was told to stop, and is in no one's hands.
RemovedInv ==
    \A l \in returned :
        /\ listener[l].state \in {"aborting", "failed", "ended"}
        /\ \A a \in Addrs : forwards[a] # l
        /\ \A c \in Calls : HasTask(c) => call[c].task # l

\* A connection's task is told to stop exactly when its listener's task is gone.
ToldInv ==
    \A k \in Conns : conn[k].owner # None =>
        /\ conn[k].owner \in Listeners
        /\ listener[conn[k].owner].state # "new"
        /\ conn[k].told <=> ~Bound(conn[k].owner)

LEMMA RemovedStep ==
    MapInv /\ MapInv' /\ RemovedInv /\ [Next]_forwardVars => RemovedInv'
<1> SUFFICES ASSUME MapInv, MapInv', RemovedInv, [Next]_forwardVars PROVE RemovedInv'
  OBVIOUS
<1>0. /\ TypeOK /\ TasksInv /\ TypeOK' /\ TasksInv'
      /\ listener \in [Listeners -> ListenerRecords] /\ call \in [Calls -> CallRecords]
      /\ forwards \in [Addrs -> Listeners \cup {None}] /\ returned \subseteq Listeners
      /\ None \notin Listeners
  BY ForwardsAssumption DEF MapInv, TypeOK
\* Where a listener does not run again and no call gets hold of it.
<1>1. ASSUME returned' = returned,
             \A l \in Listeners : listener[l].state \in {"aborting", "failed", "ended"} =>
                listener'[l].state \in {"aborting", "failed", "ended"},
             \A a \in Addrs : \/ forwards'[a] = forwards[a] \/ forwards'[a] = None
                              \/ \E c \in Calls : HasTask(c) /\ forwards'[a] = call[c].task,
             \A c \in Calls : HasTask(c)' =>
                \/ HasTask(c) /\ call'[c].task = call[c].task
                \/ \E a \in Addrs : call'[c].task = forwards[a]
                \/ call'[c].task \in Listeners /\ listener[call'[c].task].state = "new"
      PROVE  RemovedInv'
  BY <1>0, <1>1 DEF RemovedInv
<1>2. ASSUME NEW c \in Calls, ControlCall(c), ~DelDrops(c) PROVE RemovedInv'
  <2>1. /\ returned' = returned /\ \A d \in Calls : d # c => call'[d] = call[d]
        /\ listener' = listener \/ \E l \in Listeners : AddSpawns(c, l)
    BY <1>0, <1>2
       DEF ControlCall, Calling, Answers, AddLocks, DelRemoves, AddSpawns, AddFails, AddInserts
  <2>2. \A l \in Listeners : listener[l].state \in {"aborting", "failed", "ended"} =>
           listener'[l].state \in {"aborting", "failed", "ended"}
    BY <1>0, <2>1 DEF AddSpawns
  <2>3. ASSUME NEW a \in Addrs
        PROVE  \/ forwards'[a] = forwards[a] \/ forwards'[a] = None
               \/ HasTask(c) /\ forwards'[a] = call[c].task
    BY <1>0, <1>2
       DEF ControlCall, Calling, Answers, AddLocks, DelRemoves, AddSpawns, AddFails,
           AddInserts, HasTask
  <2>4. HasTask(c)' => \/ \E a \in Addrs : call'[c].task = forwards[a]
                       \/ call'[c].task \in Listeners /\ listener[call'[c].task].state = "new"
    <3> SUFFICES ASSUME HasTask(c)'
                 PROVE  \/ \E a \in Addrs : call'[c].task = forwards[a]
                        \/ /\ call'[c].task \in Listeners
                           /\ listener[call'[c].task].state = "new"
      OBVIOUS
    <3>1. CASE DelRemoves(c)
      <4>1. call[c].addr \in Addrs /\ call'[c].task = forwards[call[c].addr]
        BY <1>0, <3>1 DEF MapInv, CallsInv, DelRemoves
      <4> QED
        BY <4>1
    <3>2. ASSUME NEW l \in Listeners, AddSpawns(c, l)
          PROVE  call'[c].task \in Listeners /\ listener[call'[c].task].state = "new"
      BY <1>0, <3>2 DEF AddSpawns
    <3>3. ASSUME NEW step \in Waiting, NEW a \in Addrs, Calling(c, step, a)
          PROVE  FALSE
      BY <1>0, <3>3 DEF Calling, HasTask, Waiting
    <3>4. ~(Answers(c) \/ AddFails(c) \/ AddInserts(c))
      BY <1>0 DEF Answers, AddFails, AddInserts, HasTask, Idle
    <3>5. ~AddLocks(c)
      BY <1>0 DEF AddLocks, HasTask, CallRecords
    <3> QED
      BY <1>2, <3>1, <3>2, <3>3, <3>4, <3>5 DEF ControlCall
  <2> QED
    BY <1>1, <2>1, <2>2, <2>3, <2>4 DEF HasTask
\* The call lets go of the only hold on the listener that it stops.
<1>3. ASSUME NEW c \in Calls, DelDrops(c) PROVE RemovedInv'
  <2>1. /\ call[c].step = "dropping" /\ call'[c] = Idle /\ forwards' = forwards
        /\ \A d \in Calls : d # c => call'[d] = call[d]
        /\ returned' = returned \cup {call[c].task}
        /\ listener' = AbortListener(call[c].task)
    BY <1>0, <1>3 DEF DelDrops
  <2>2. /\ call[c].task \in Listeners /\ listener[call[c].task].state # "new"
        /\ \A a \in Addrs : forwards[a] # call[c].task
        /\ \A d \in Calls : d # c /\ HasTask(d) => call[d].task # call[c].task
    BY <1>0, <2>1 DEF TasksInv, HasTask
  <2>3. /\ listener'[call[c].task].state \in {"aborting", "failed", "ended"}
        /\ \A m \in Listeners : m # call[c].task => listener'[m] = listener[m]
    BY <1>0, <2>1, <2>2 DEF AbortListener, ListenerRecords, ListenerStates
  <2>4. ~HasTask(c)'
    BY <2>1 DEF HasTask, Idle
  <2> QED
    BY <1>0, <2>1, <2>2, <2>3, <2>4 DEF RemovedInv, HasTask
<1>4. ASSUME NEW l \in Listeners, ListenerTask(l) PROVE RemovedInv'
  <2>1. UNCHANGED mapVars
    BY <1>4 DEF ListenerTask, Accept, Reap, ListenerEnds, AcceptFails
  <2>2. \A m \in Listeners : listener[m].state \in {"aborting", "failed", "ended"} =>
           listener'[m].state \in {"aborting", "failed", "ended"}
    BY <1>0, <1>4 DEF ListenerTask, Accept, Reap, ListenerEnds, AcceptFails, ListenerRecords
  <2> QED
    BY <1>1, <2>1, <2>2 DEF mapVars, HasTask
<1>5. CASE UNCHANGED forwardVars \/ \E k \in Conns : ConnTask(k)
  <2>1. UNCHANGED <<mapVars, listener>>
    BY <1>5 DEF forwardVars, mapVars, ConnTask, Registers, SendsOpened, NeverConnects,
                Unregisters, SendsClosed
  <2> QED
    BY <1>1, <2>1 DEF mapVars, HasTask
<1> QED
  BY <1>2, <1>3, <1>4, <1>5 DEF Next

LEMMA ToldStep == MapInv /\ ToldInv /\ [Next]_forwardVars => ToldInv'
<1> SUFFICES ASSUME MapInv, ToldInv, [Next]_forwardVars PROVE ToldInv'
  OBVIOUS
<1>0. /\ listener \in [Listeners -> ListenerRecords] /\ conn \in [Conns -> ConnRecords]
      /\ None \notin Listeners
  BY ForwardsAssumption DEF MapInv, TypeOK
<1>1. ASSUME \A l \in Listeners : listener[l].state # "new" =>
                listener'[l].state # "new" /\ (Bound(l)' <=> Bound(l)),
             \A k \in Conns : \/ conn'[k].owner = None
                              \/ /\ conn'[k].owner = conn[k].owner
                                 /\ conn'[k].told = conn[k].told
                              \/ /\ conn'[k].owner \in Listeners /\ ~conn'[k].told
                                 /\ Bound(conn'[k].owner)
      PROVE  ToldInv'
  <2>1. \A l \in Listeners : Bound(l) => listener[l].state # "new"
    BY DEF Bound
  <2> QED
    BY <1>1, <2>1 DEF ToldInv
<1>2. ASSUME NEW c \in Calls, ControlCall(c) PROVE ToldInv'
  <2>1. conn' = conn
    BY <1>2 DEF ControlCall, Calling, Answers, AddLocks, DelRemoves, AddSpawns, AddFails,
                AddInserts, DelDrops
  <2>2. ASSUME NEW l \in Listeners, listener[l].state # "new"
        PROVE  listener'[l].state # "new" /\ (Bound(l)' <=> Bound(l))
    <3>1. CASE listener' = listener
      BY <2>2, <3>1 DEF Bound
    <3>2. CASE DelDrops(c)
      <4>1. call[c].task \in Listeners
        BY <3>2 DEF MapInv, TasksInv, HasTask, DelDrops
      <4>2. \/ listener' = listener
            \/ /\ listener[call[c].task].state = "running"
               /\ listener'[call[c].task].state = "aborting"
               /\ \A m \in Listeners : m # call[c].task => listener'[m] = listener[m]
        BY <1>0, <3>2, <4>1 DEF DelDrops, AbortListener, ListenerRecords
      <4> QED
        BY <2>2, <4>2 DEF Bound
    <3>3. ASSUME NEW m \in Listeners, AddSpawns(c, m)
          PROVE  listener'[l].state # "new" /\ (Bound(l)' <=> Bound(l))
      <4>1. l # m /\ listener'[l] = listener[l]
        BY <1>0, <2>2, <3>3 DEF AddSpawns
      <4> QED
        BY <2>2, <4>1 DEF Bound
    <3> QED
      BY <1>2, <3>1, <3>2, <3>3
         DEF ControlCall, Calling, Answers, AddLocks, DelRemoves, AddFails, AddInserts
  <2> QED
    BY <1>1, <2>1, <2>2
<1>3. ASSUME NEW l \in Listeners, NEW k \in Conns, Accept(l, k) \/ Reap(l, k) PROVE ToldInv'
  <2>1. listener' = listener /\ \A j \in Conns : j # k => conn'[j] = conn[j]
    BY <1>0, <1>3 DEF Accept, Reap
  <2>2. \/ conn'[k].owner = None
        \/ conn'[k].owner = l /\ ~conn'[k].told /\ Bound(l)
    <3>1. /\ NoConn.owner = None
          /\ [NoConn EXCEPT !.state = "connecting", !.owner = l].owner = l
          /\ [NoConn EXCEPT !.state = "connecting", !.owner = l].told = FALSE
      BY DEF NoConn
    <3> QED
      BY <1>0, <1>3, <3>1 DEF Accept, Reap
  <2> QED
    BY <1>1, <2>1, <2>2 DEF Bound
\* The task ends, and with its JoinSet everything it held.
<1>4. ASSUME NEW l \in Listeners, ListenerEnds(l) \/ AcceptFails(l) PROVE ToldInv'
  <2>1. /\ Bound(l) /\ listener[l].state # "new"
        /\ listener'[l].state \in {"ended", "failed"}
        /\ \A m \in Listeners : m # l => listener'[m] = listener[m]
    BY <1>0, <1>4 DEF ListenerEnds, AcceptFails, Bound, ListenerRecords
  <2>2. \A k \in Conns :
           \/ conn'[k].owner = None
           \/ conn[k].owner # l /\ conn'[k] = conn[k]
           \/ conn'[k].owner = l /\ conn'[k].told
    BY <1>0, <1>4 DEF ListenerEnds, AcceptFails, DropJoinSet, NoConn, ConnRecords
  <2>3. ~Bound(l)' /\ \A m \in Listeners : m # l => (Bound(m)' <=> Bound(m))
    BY <2>1 DEF Bound
  <2> QED
    BY <2>1, <2>2, <2>3 DEF ToldInv
<1>5. ASSUME NEW k \in Conns, ConnTask(k) PROVE ToldInv'
  <2>1. listener' = listener /\ \A j \in Conns : j # k => conn'[j] = conn[j]
    BY <1>0, <1>5 DEF ConnTask, Registers, SendsOpened, NeverConnects, Unregisters,
                      SendsClosed, mapVars
  <2>2. \/ conn'[k].owner = None
        \/ conn'[k].owner = conn[k].owner /\ conn'[k].told = conn[k].told
    BY <1>0, <1>5 DEF ConnTask, Registers, SendsOpened, NeverConnects, Unregisters,
                      SendsClosed, EndOfTask, NoConn, ConnRecords
  <2> QED
    BY <1>1, <2>1, <2>2 DEF Bound
<1>6. CASE UNCHANGED forwardVars
  BY <1>1, <1>6 DEF forwardVars, Bound
<1> QED
  BY <1>2, <1>3, <1>4, <1>5, <1>6 DEF Next, ListenerTask

\* What a del-forward that has returned leaves behind is about to end: its listener
\* has been told to, or has ended, and is never listed again; and when the listener
\* has ended, so has each connection's task that it accepted, or it has been told to
\* (service.rs:153-163; forwards.rs:25-55, 98).
Leaving(l) ==
    /\ listener[l].state \in {"aborting", "failed", "ended"}
    /\ \A a \in Addrs : forwards[a] # l
    /\ listener[l].state # "aborting" => \A k \in Conns : conn[k].owner = l => conn[k].told
THEOREM RemovedTheorem == Spec => [](\A l \in returned : Leaving(l))
<1>1. Init => RemovedInv /\ ToldInv
  BY DEF Init, RemovedInv, ToldInv, NoConn
<1>2. MapInv /\ RemovedInv /\ ToldInv => \A l \in returned : Leaving(l)
  <2>1. TypeOK => returned \subseteq Listeners /\ None \notin Listeners
    BY ForwardsAssumption DEF TypeOK
  <2> QED
    BY <2>1 DEF MapInv, RemovedInv, ToldInv, Leaving, Bound
<1> QED
  BY <1>1, <1>2, RemovedStep, ToldStep, Invariance, PTL DEF Spec
=============================================================================
