------------------------------ MODULE Forwards ------------------------------
(***************************************************************************)
(* The daemon's forward listeners (src/daemon/forwards.rs), the control    *)
(* calls AddForward and DelForward (src/daemon/service.rs), the tasks of   *)
(* the connections they accept, and the registry of live connections with  *)
(* the state events it emits (src/daemon/connections.rs).                  *)
(*                                                                         *)
(* A listener is one spawned task: it owns the bound socket and a JoinSet  *)
(* of connection tasks.  Aborting a task takes effect some time later, at  *)
(* its next poll; only then what it owns is dropped.  Calls are concurrent *)
(* tasks that share the map of forwards behind an async mutex, which       *)
(* AddForward holds across the bind; tokio gives it to those who wait in   *)
(* the order they came.                                                    *)
(*                                                                         *)
(* The connection's own work, forward_tcp_conn, is module Tunnel.  Here it *)
(* is a task that connects, is registered while it transfers, and ends.    *)
(***************************************************************************)
EXTENDS Integers, FiniteSets, Sequences

CONSTANTS
    Addrs,          \* listen addresses
    Calls,          \* control calls that may run at the same time
    Listeners,      \* listener tasks, each spawned at most once
    Conns,          \* connection tasks that may exist at the same time
    MaxOpened,      \* bound: connections registered in a behaviour
    AcceptErrors,   \* accept may fail
    None

ASSUME ForwardsAssumption ==
    /\ IsFiniteSet(Conns)
    /\ MaxOpened \in Nat
    /\ AcceptErrors \in BOOLEAN
    /\ None \notin Addrs \cup Calls \cup Listeners

VARIABLES
    forwards,       \* the map: [Addrs -> Listeners, or None]
    holder,         \* the call that holds the map's mutex, or None
    waiters,        \* the calls that wait for it, in their order
    call,           \* each call's progress
    listener,       \* each listener task: its state, and the address it binds
    conn,           \* each connection task: its state, owner and registry id
    active,         \* the registry's entries
    nextId,         \* the registry's next id
    opened, closed, \* events sent: "connection-opened", "connection-closed"
    returned        \* history: listeners whose DelForward has returned

forwardVars == <<forwards, holder, waiters, call, listener, conn, active, nextId, opened,
                 closed, returned>>

mapVars == <<forwards, holder, waiters, call, returned>>
registryVars == <<active, nextId, opened, closed>>

Waiting == {"adding", "deleting"}
CallSteps == Waiting \cup {"idle", "binding", "inserting", "dropping"}
ListenerStates == {"new", "running", "aborting", "failed", "ended"}
ConnStates == {"none", "connecting", "registering", "open", "unregistering", "ended"}

\* A listener task that still owns its socket.
Bound(l) == listener[l].state \in {"running", "aborting"}
PortOwners(a) == {l \in Listeners : Bound(l) /\ listener[l].addr = a}

Idle == [step |-> "idle", addr |-> None, task |-> None]
NoConn == [state |-> "none", owner |-> None, id |-> 0, told |-> FALSE]

CallRecords == [step: CallSteps, addr: Addrs \cup {None}, task: Listeners \cup {None}]
ListenerRecords == [state: ListenerStates, addr: Addrs \cup {None}]
ConnRecords == [state: ConnStates, owner: Listeners \cup {None}, id: Nat, told: BOOLEAN]

Init ==
    /\ forwards = [a \in Addrs |-> None]
    /\ holder = None
    /\ waiters = <<>>
    /\ call = [c \in Calls |-> Idle]
    /\ listener = [l \in Listeners |-> [state |-> "new", addr |-> None]]
    /\ conn = [k \in Conns |-> NoConn]
    /\ active = {}
    /\ nextId = 1
    /\ opened = 0
    /\ closed = 0
    /\ returned = {}
----------------------------------------------------------------------------
(* The map's mutex                                                         *)

\* AddForward or DelForward.
Calling(c, step, a) ==
    /\ call[c] = Idle
    /\ call' = [call EXCEPT ![c] = [step |-> step, addr |-> a, task |-> None]]
    /\ waiters' = Append(waiters, c)
    /\ UNCHANGED <<forwards, holder, returned, listener, conn, registryVars>>

\* The last to come is the first to get it.
LocksNewest(c) ==
    /\ holder = None
    /\ waiters # <<>> /\ waiters[Len(waiters)] = c
    /\ waiters' = SubSeq(waiters, 1, Len(waiters) - 1)

\* The mutex is free and it is the call's turn.
Locks(c) ==
    /\ holder = None
    /\ waiters # <<>> /\ Head(waiters) = c
    /\ waiters' = Tail(waiters)

Refused(c) ==
    \/ call[c].step = "adding" /\ forwards[call[c].addr] # None
    \/ call[c].step = "deleting" /\ forwards[call[c].addr] = None

\* A call that is refused by what it finds in the map returns with nothing changed,
\* as Status and ListForwards do, which wait for the mutex to read the map.
Answers(c) ==
    /\ Locks(c)
    /\ Refused(c)
    /\ call' = [call EXCEPT ![c] = Idle]
    /\ UNCHANGED <<forwards, holder, returned, listener, conn, registryVars>>
----------------------------------------------------------------------------
(* AddForward                                                              *)

\* The mutex is held for the look into the map only, and not over the bind.
AddLooks(c) ==
    /\ Locks(c)
    /\ call[c].step = "adding" /\ ~Refused(c)
    /\ call' = [call EXCEPT ![c].step = "binding"]
    /\ UNCHANGED <<forwards, holder, returned, listener, conn, registryVars>>

\* The call finds the address free, and keeps the mutex.
AddLocks(c) ==
    /\ Locks(c)
    /\ call[c].step = "adding" /\ ~Refused(c)
    /\ holder' = c
    /\ call' = [call EXCEPT ![c].step = "binding"]
    /\ UNCHANGED <<forwards, returned, listener, conn, registryVars>>

\* The bind fails when the address has an owner (and for any other reason).
AddFails(c) ==
    /\ call[c].step = "binding"
    /\ holder' = None
    /\ call' = [call EXCEPT ![c] = Idle]
    /\ UNCHANGED <<forwards, waiters, returned, listener, conn, registryVars>>

\* Tasks are spawned afresh and none differs from another: the model takes them in
\* one order.
NextTask(unused) == CHOOSE task \in unused : TRUE

\* The socket is bound and the listener's task spawned, which runs at once ...
AddSpawns(c, l) ==
    /\ call[c].step = "binding"
    /\ PortOwners(call[c].addr) = {}
    /\ listener[l].state = "new"
    /\ l = NextTask({t \in Listeners : listener[t].state = "new"})
    /\ listener' = [listener EXCEPT ![l] = [state |-> "running", addr |-> call[c].addr]]
    /\ call' = [call EXCEPT ![c].step = "inserting", ![c].task = l]
    /\ UNCHANGED <<forwards, holder, waiters, returned, conn, registryVars>>

\* ... before it is in the map.
AddInserts(c) ==
    /\ call[c].step = "inserting"
    /\ forwards' = [forwards EXCEPT ![call[c].addr] = call[c].task]
    /\ holder' = None
    /\ call' = [call EXCEPT ![c] = Idle]
    /\ UNCHANGED <<waiters, returned, listener, conn, registryVars>>
----------------------------------------------------------------------------
(* DelForward                                                              *)

\* The entry leaves the map, and the mutex is released again, before the entry
\* is dropped.
DelRemoves(c) ==
    /\ Locks(c)
    /\ call[c].step = "deleting" /\ ~Refused(c)
    /\ forwards' = [forwards EXCEPT ![call[c].addr] = None]
    /\ call' = [call EXCEPT ![c].step = "dropping", ![c].task = forwards[call[c].addr]]
    /\ UNCHANGED <<holder, returned, listener, conn, registryVars>>

\* JoinHandle::abort on a task that may have ended already.
AbortListener(l) ==
    IF listener[l].state = "running"
       THEN [listener EXCEPT ![l].state = "aborting"] ELSE listener

\* The entry that the map holds by now is dropped, not the one removed.
DelDropsCurrent(c) ==
    /\ call[c].step = "dropping"
    /\ LET current == forwards[call[c].addr]
       IN  listener' = AbortListener(IF current = None THEN call[c].task ELSE current)
    /\ returned' = returned \cup {call[c].task}
    /\ call' = [call EXCEPT ![c] = Idle]
    /\ UNCHANGED <<forwards, holder, waiters, conn, registryVars>>

\* The entry is forgotten instead of dropped with its abort.
DelForgets(c) ==
    /\ call[c].step = "dropping"
    /\ returned' = returned \cup {call[c].task}
    /\ call' = [call EXCEPT ![c] = Idle]
    /\ UNCHANGED <<forwards, holder, waiters, listener, conn, registryVars>>

\* ForwardRuntime's Drop aborts the listener's task, and the call returns.
DelDrops(c) ==
    /\ call[c].step = "dropping"
    /\ listener' = AbortListener(call[c].task)
    /\ returned' = returned \cup {call[c].task}
    /\ call' = [call EXCEPT ![c] = Idle]
    /\ UNCHANGED <<forwards, holder, waiters, conn, registryVars>>
----------------------------------------------------------------------------
(* The listener's task                                                     *)

\* A connection is accepted and its task spawned into the JoinSet.
Accept(l, k) ==
    /\ Bound(l)
    /\ conn[k] = NoConn
    /\ k = NextTask({t \in Conns : conn[t] = NoConn})
    /\ conn' = [conn EXCEPT ![k] = [NoConn EXCEPT !.state = "connecting", !.owner = l]]
    /\ UNCHANGED <<mapVars, listener, registryVars>>

\* Finished tasks are taken out of the JoinSet.
Reap(l, k) ==
    /\ listener[l].state = "running"
    /\ conn[k].owner = l /\ conn[k].state = "ended"
    /\ conn' = [conn EXCEPT ![k] = NoConn]
    /\ UNCHANGED <<mapVars, listener, registryVars>>

\* The JoinSet drops with the task: every connection task it holds is told to
\* stop, and those that ended are let go of.
DropJoinSet(l) ==
    conn' = [k \in Conns |->
        CASE conn[k].owner # l -> conn[k]
          [] conn[k].owner = l /\ conn[k].state = "ended" -> NoConn
          [] OTHER -> [conn[k] EXCEPT !.told = TRUE]]

\* Connections are detached when their listener ends.
ListenerEndsAlone(l) ==
    /\ listener[l].state = "aborting"
    /\ listener' = [listener EXCEPT ![l].state = "ended"]
    /\ UNCHANGED <<mapVars, conn, registryVars>>

\* An abort takes effect: the socket closes.
ListenerEnds(l) ==
    /\ listener[l].state = "aborting"
    /\ listener' = [listener EXCEPT ![l].state = "ended"]
    /\ DropJoinSet(l)
    /\ UNCHANGED <<mapVars, registryVars>>

\* An accept error ends the listener; its entry stays in the map.
AcceptFails(l) ==
    /\ AcceptErrors
    /\ Bound(l)
    /\ listener' = [listener EXCEPT ![l].state = "failed"]
    /\ DropJoinSet(l)
    /\ UNCHANGED <<mapVars, registryVars>>
----------------------------------------------------------------------------
(* A connection's task                                                     *)

\* A task that ends is kept for its JoinSet to reap, if that is still there.
EndOfTask(k) == IF conn[k].told THEN NoConn ELSE [conn[k] EXCEPT !.state = "ended"]

\* The remote is connected; register takes the next id and inserts the entry ...
Registers(k) ==
    /\ conn[k].state = "connecting"
    /\ nextId <= MaxOpened
    /\ conn' = [conn EXCEPT ![k].state = "registering", ![k].id = nextId]
    /\ active' = active \cup {nextId}
    /\ nextId' = nextId + 1
    /\ UNCHANGED <<mapVars, listener, opened, closed>>

\* ... and then sends the event.
SendsOpened(k) ==
    /\ conn[k].state = "registering"
    /\ conn' = [conn EXCEPT ![k].state = "open"]
    /\ opened' = opened + 1
    /\ UNCHANGED <<mapVars, listener, active, nextId, closed>>

\* An abort while it still connects, or a failure to connect: there is no entry
\* yet, and no event.
NeverConnects(k) ==
    /\ conn[k].state = "connecting"
    /\ conn' = [conn EXCEPT ![k] = EndOfTask(k)]
    /\ UNCHANGED <<mapVars, listener, registryVars>>

\* Only a transfer that comes to its end removes its entry.
UnregistersUnlessTold(k) ==
    /\ conn[k].state = "open"
    /\ conn' = [conn EXCEPT ![k].state = "unregistering"]
    /\ active' = IF conn[k].told THEN active ELSE active \ {conn[k].id}
    /\ UNCHANGED <<mapVars, listener, nextId, opened, closed>>

\* The transfer ends, in whatever way, or the abort takes effect: the guard's
\* Drop removes the entry ...
Unregisters(k) ==
    /\ conn[k].state = "open"
    /\ conn' = [conn EXCEPT ![k].state = "unregistering"]
    /\ active' = active \ {conn[k].id}
    /\ UNCHANGED <<mapVars, listener, nextId, opened, closed>>

\* An aborted task's end is reported by its listener as well.
SendsClosedTwice(k) ==
    /\ conn[k].state = "unregistering"
    /\ conn' = [conn EXCEPT ![k] = EndOfTask(k)]
    /\ closed' = closed + 1 + (IF conn[k].told THEN 1 ELSE 0)
    /\ UNCHANGED <<mapVars, listener, active, nextId, opened>>

\* ... and then sends the event.
SendsClosed(k) ==
    /\ conn[k].state = "unregistering"
    /\ conn' = [conn EXCEPT ![k] = EndOfTask(k)]
    /\ closed' = closed + 1
    /\ UNCHANGED <<mapVars, listener, active, nextId, opened>>
----------------------------------------------------------------------------
ControlCall(c) ==
    \/ \E step \in Waiting, a \in Addrs : Calling(c, step, a)
    \/ Answers(c) \/ AddLocks(c) \/ DelRemoves(c)
    \/ \E l \in Listeners : AddSpawns(c, l)
    \/ AddFails(c) \/ AddInserts(c) \/ DelDrops(c)

ListenerTask(l) ==
    \/ \E k \in Conns : Accept(l, k) \/ Reap(l, k)
    \/ ListenerEnds(l) \/ AcceptFails(l)

ConnTask(k) ==
    \/ Registers(k) \/ SendsOpened(k) \/ NeverConnects(k)
    \/ Unregisters(k) \/ SendsClosed(k)

Next ==
    \/ \E c \in Calls : ControlCall(c)
    \/ \E l \in Listeners : ListenerTask(l)
    \/ \E k \in Conns : ConnTask(k)

\* Calls, aborts and guards make progress; a bind ends one way or the other.
\* Nothing says that anyone calls or connects, that a remote answers, or that a
\* transfer that is left alone ever ends.
Fairness ==
    /\ \A c \in Calls :
        /\ WF_forwardVars(Answers(c) \/ AddLocks(c) \/ DelRemoves(c))
        /\ WF_forwardVars(AddFails(c) \/ \E l \in Listeners : AddSpawns(c, l))
        /\ WF_forwardVars(AddInserts(c))
        /\ WF_forwardVars(DelDrops(c))
    /\ \A l \in Listeners : WF_forwardVars(ListenerEnds(l))
    /\ \A k \in Conns :
        /\ WF_forwardVars(conn[k].told /\ (NeverConnects(k) \/ Unregisters(k)))
        /\ WF_forwardVars(SendsOpened(k))
        /\ WF_forwardVars(SendsClosed(k))

Spec == Init /\ [][Next]_forwardVars /\ Fairness
----------------------------------------------------------------------------
TypeOK ==
    /\ forwards \in [Addrs -> Listeners \cup {None}]
    /\ holder \in Calls \cup {None}
    /\ waiters \in Seq(Calls)
    /\ call \in [Calls -> CallRecords]
    /\ listener \in [Listeners -> ListenerRecords]
    /\ conn \in [Conns -> ConnRecords]
    /\ active \subseteq Nat
    /\ nextId \in Nat \ {0}
    /\ opened \in Nat /\ closed \in Nat
    /\ returned \subseteq Listeners

\* The calls as ForwardTable sees them: until it has the mutex, and from there until
\* it lists its listener, a call that adds has not done anything; one that deletes
\* has only to return once the entry is out of the map.
Inserting(l) == \E c \in Calls : call[c].step = "inserting" /\ call[c].task = l
Doing(c) ==
    [step |-> CASE call[c].step \in {"adding", "binding", "inserting"} -> "adding"
                [] call[c].step = "dropping" -> "removed"
                [] OTHER -> call[c].step,
     addr |-> call[c].addr]

Table == INSTANCE ForwardTable WITH
    table <- forwards,
    known <- {l \in Listeners : listener[l].state # "new" /\ ~Inserting(l)},
    pending <- [c \in Calls |-> Doing(c)]

\* Calls that run at once take effect one after the other: what the bind, which is
\* awaited, leaves room for does not show, no call lists a forward over another's,
\* and a forward that was removed is never listed again (forwards.rs:39-113;
\* service.rs:122-163).
CallsTakeEffectAtOnce == Table!Spec

InState(state) == {k \in Conns : conn[k].state = state}
Registered == InState("registering") \cup InState("open")

\* The registry holds one entry for each registered task and nothing else,
\* through accepts, ends and aborts in any order: "entries cannot outlive the
\* task that owns them" (connections.rs:18-20), and no guard removes the entry of
\* another.
RegistryIsExact ==
    /\ active = {conn[k].id : k \in Registered}
    /\ Cardinality(active) = Cardinality(Registered)

\* One who counts the events knows the registry's size, up to the tasks that are
\* between their change and its event (connections.rs:39-47, 72-77).
EventsCountEntries ==
    opened - closed = Cardinality(active) - Cardinality(InState("registering"))
                                          + Cardinality(InState("unregistering"))

\* A listed forward has a listener that nobody stopped: no order of calls leaves
\* an entry whose listener was aborted for another (service.rs:151-163).
ListedIsNotStopped ==
    \A a \in Addrs : forwards[a] # None =>
        /\ listener[forwards[a]].addr = a
        /\ listener[forwards[a]].state \in {"running", "failed"}

\* No listener runs on without an entry, so that it could not be removed: it is
\* listed, or a call is about to list or to stop it (forwards.rs:39-114).
NoOrphanListener ==
    \A l \in Listeners : listener[l].state = "running" =>
        \/ \E a \in Addrs : forwards[a] = l
        \/ \E c \in Calls : call[c].task = l /\ ~(call[c] = Idle)

\* A removed forward comes to its end: its listener, its socket and the task of
\* every connection it accepted (README.md:242-243; forwards.rs:52-55).
RemovedForwardEnds ==
    \A l \in Listeners : l \in returned ~>
        ~Bound(l) /\ \A k \in Conns : conn[k].owner # l

\* Every control call returns: none waits for ever for the map's mutex, though
\* AddForward holds it over a bind, may fail there, and a failed or removed
\* listener may still have the address (forwards.rs:39-45; service.rs:34, 70, 153).
EveryCallReturns ==
    \A c \in Calls : call[c].step \in Waiting ~> call[c] = Idle
=============================================================================
