------------------------- MODULE ServeRoutesProofs -------------------------
(***************************************************************************)
(* The served routes of module ServeRoutes, for any services, targets,     *)
(* concurrent calls and incoming connections.                              *)
(***************************************************************************)
EXTENDS ServeRoutes, TLAPS

\* A service that is served, or once was and is not any more.
Known == Served(routes) \cup deleted

\* Whatever the endpoint advertises, a call is about to advertise, or a handshake
\* has agreed on, was served at some time: it is known.
OnlyKnown ==
    /\ alpns \subseteq Known
    /\ \A c \in Calls : call[c].step = "read" => call[c].alpns \subseteq Known
    /\ \A k \in Conns : conn[k].step = "negotiated" => conn[k].service \in Known

\* What a call that met no other has read is still so.
LoneReadIsFresh ==
    \A c \in alone :
        /\ \A d \in Calls \ {c} : IsIdle(d)
        /\ call[c].step = "read" => call[c].alpns = Served(routes)

ServeInv == TypeOK /\ OnlyKnown /\ LoneReadIsFresh /\ UnknownOnlyIfRemoved

LEMMA ServeInit == Init => ServeInv
<1> SUFFICES ASSUME Init PROVE ServeInv
    OBVIOUS
<1>1. TypeOK
    BY DEF Init, TypeOK, Idle, CallSteps, ConnSteps, Served
<1>2. OnlyKnown /\ LoneReadIsFresh /\ UnknownOnlyIfRemoved
    BY DEF Init, OnlyKnown, Known, Idle, LoneReadIsFresh, UnknownOnlyIfRemoved
<1> QED BY <1>1, <1>2 DEF ServeInv

\* Both changes of the routes leave what is known known.
LEMMA ChangeKnows ==
    ASSUME TypeOK, NEW s \in Services,
           \/ \E t \in Targets : routes' = [routes EXCEPT ![s] = t] /\ UNCHANGED deleted
           \/ routes' = [routes EXCEPT ![s] = NoTarget] /\ deleted' = deleted \cup {s}
    PROVE  Known \subseteq Known'
BY ServeAssumption DEF TypeOK, Known, Served

\* A call that starts: it has changed the routes, and read nothing yet.
LEMMA StartKeeps ==
    ASSUME ServeInv, TypeOK', NEW c \in Calls, IsIdle(c), Known \subseteq Known',
           call' = [call EXCEPT ![c] = [step |-> "changed"]],
           Meets(c), UNCHANGED <<alpns, conn>>, deleted \subseteq deleted'
    PROVE  ServeInv'
<1>1. call'[c] = [step |-> "changed"] /\ \A d \in Calls \ {c} : call'[d] = call[d]
    BY DEF ServeInv, TypeOK
<1>2. OnlyKnown'
    BY <1>1 DEF ServeInv, OnlyKnown
<1>3. LoneReadIsFresh'
    BY <1>1 DEF LoneReadIsFresh, Meets, IsIdle
<1>4. UnknownOnlyIfRemoved'
    BY DEF ServeInv, UnknownOnlyIfRemoved
<1> QED BY <1>2, <1>3, <1>4 DEF ServeInv

LEMMA ServeStep == ServeInv /\ [Next]_serveVars => ServeInv'
<1> SUFFICES ASSUME ServeInv, [Next]_serveVars PROVE ServeInv'
    OBVIOUS
<1> USE DEF ServeInv
<1>1. ASSUME NEW c \in Calls, NEW s \in Services, NEW t \in Targets, AddServe(c, s, t)
      PROVE ServeInv'
    <2>1. TypeOK'
        BY <1>1 DEF AddServe, TypeOK, Meets, CallSteps
    <2>2. Known \subseteq Known'
        BY <1>1, ChangeKnows DEF AddServe
    <2> QED BY <1>1, <2>1, <2>2, StartKeeps DEF AddServe
<1>2. ASSUME NEW c \in Calls, NEW s \in Services, DelServe(c, s) PROVE ServeInv'
    <2>1. TypeOK'
        BY <1>2 DEF DelServe, TypeOK, Meets, CallSteps
    <2>2. Known \subseteq Known'
        BY <1>2, ChangeKnows DEF DelServe
    <2> QED BY <1>2, <2>1, <2>2, StartKeeps DEF DelServe
<1>3. ASSUME NEW c \in Calls, ReadNames(c) PROVE ServeInv'
    <2> DEFINE k == [step |-> "read", alpns |-> Served(routes)]
    <2>1. k \in CallSteps
        BY DEF CallSteps, Served
    <2>2. call'[c] = k /\ \A d \in Calls \ {c} : call'[d] = call[d]
        BY <1>3 DEF ReadNames, TypeOK
    <2>3. TypeOK'
        BY <1>3, <2>1 DEF ReadNames, TypeOK
    <2>4. OnlyKnown'
        BY <1>3, <2>2 DEF ReadNames, OnlyKnown, Known
    <2>5. LoneReadIsFresh'
        <3>1. ~IsIdle(c)
            BY <1>3 DEF ReadNames, IsIdle, Idle
        <3>2. alone \subseteq {c} /\ alone' = alone
            BY <1>3, <3>1 DEF LoneReadIsFresh, ReadNames, TypeOK
        <3> QED BY <1>3, <2>2, <3>2 DEF ReadNames, LoneReadIsFresh, IsIdle
    <2>6. UnknownOnlyIfRemoved'
        BY <1>3 DEF ReadNames, UnknownOnlyIfRemoved
    <2> QED BY <2>3, <2>4, <2>5, <2>6
<1>4. ASSUME NEW c \in Calls, SetAlpns(c) PROVE ServeInv'
    <2>1. call'[c] = Idle /\ \A d \in Calls \ {c} : call'[d] = call[d]
        BY <1>4 DEF SetAlpns, TypeOK
    <2>2. call[c].alpns \subseteq Services
        BY <1>4 DEF SetAlpns, TypeOK, CallSteps
    <2>3. Idle \in CallSteps
        BY DEF Idle, CallSteps
    <2>4. TypeOK'
        BY <1>4, <2>2, <2>3 DEF SetAlpns, TypeOK
    <2>5. OnlyKnown'
        BY <1>4, <2>1 DEF SetAlpns, OnlyKnown, Known, Idle
    <2>6. LoneReadIsFresh'
        BY <1>4, <2>1 DEF SetAlpns, LoneReadIsFresh, IsIdle, Idle, TypeOK
    <2>7. UnknownOnlyIfRemoved'
        BY <1>4 DEF SetAlpns, UnknownOnlyIfRemoved
    <2> QED BY <2>4, <2>5, <2>6, <2>7
<1>5. ASSUME NEW k \in Conns, NEW s \in Services, Handshake(k, s) PROVE ServeInv'
    <2>1. Negotiated(s) \in ConnSteps
        BY DEF Negotiated, ConnSteps
    <2>2. conn'[k] = Negotiated(s) /\ \A j \in Conns \ {k} : conn'[j] = conn[j]
        BY <1>5 DEF Handshake, TypeOK
    <2>3. TypeOK'
        BY <1>5, <2>1 DEF Handshake, TypeOK
    <2>4. OnlyKnown'
        BY <1>5, <2>2 DEF Handshake, OnlyKnown, Known, Negotiated
    <2>5. LoneReadIsFresh'
        BY <1>5 DEF Handshake, LoneReadIsFresh, IsIdle
    <2>6. UnknownOnlyIfRemoved'
        BY <1>5, <2>2 DEF Handshake, UnknownOnlyIfRemoved, Negotiated
    <2> QED BY <2>3, <2>4, <2>5, <2>6
<1>6. ASSUME NEW k \in Conns, Lookup(k) PROVE ServeInv'
    <2> DEFINE s == conn[k].service
               unknown == [step |-> "unknown", service |-> s]
               routed == [step |-> "routed", service |-> s, target |-> routes[s]]
    <2>1. s \in Services /\ s \in Known
        BY <1>6 DEF Lookup, TypeOK, ConnSteps, OnlyKnown
    <2>2. unknown \in ConnSteps /\ (routes[s] # NoTarget => routed \in ConnSteps)
        BY <2>1 DEF ConnSteps, TypeOK
    <2>3. conn'[k] = (IF routes[s] = NoTarget THEN unknown ELSE routed)
          /\ \A j \in Conns \ {k} : conn'[j] = conn[j]
        BY <1>6 DEF Lookup, TypeOK
    <2>4. TypeOK'
        BY <1>6, <2>2 DEF Lookup, TypeOK
    <2>5. OnlyKnown'
        BY <1>6, <2>3 DEF Lookup, OnlyKnown, Known
    <2>6. LoneReadIsFresh'
        BY <1>6 DEF Lookup, LoneReadIsFresh, IsIdle
    <2>7. UnknownOnlyIfRemoved'
        BY <1>6, <2>1, <2>3 DEF Lookup, UnknownOnlyIfRemoved, Known, Served
    <2> QED BY <2>4, <2>5, <2>6, <2>7
<1>7. CASE UNCHANGED serveVars
    BY <1>7 DEF serveVars, TypeOK, OnlyKnown, Known, LoneReadIsFresh, IsIdle,
                UnknownOnlyIfRemoved
<1> QED BY <1>1, <1>2, <1>3, <1>4, <1>5, <1>6, <1>7 DEF Next

LEMMA ServeInvariant == Spec => []ServeInv
BY ServeInit, ServeStep, PTL DEF Spec

\* Routes, ALPNs, calls and connections keep their types (routes.rs, service.rs).
THEOREM TypeCorrect == Spec => []TypeOK
<1>1. ServeInv => TypeOK
    BY DEF ServeInv
<1> QED BY <1>1, ServeInvariant, PTL

\* However many calls and connections meet, only a requester of a service that was
\* removed is turned away as unknown (handle_incoming, routes.rs:113-135).
THEOREM UnknownTheorem == Spec => []UnknownOnlyIfRemoved
<1>1. ServeInv => UnknownOnlyIfRemoved
    BY DEF ServeInv
<1> QED BY <1>1, ServeInvariant, PTL

\* A call ends in SetAlpns only, with what it read.
LEMMA LoneStep ==
    ServeInv /\ [Next]_serveVars =>
        [\A c \in alone : ~IsIdle(c) /\ IsIdle(c)' => alpns' = Served(routes')]_serveVars
<1> SUFFICES ASSUME ServeInv, Next, NEW c \in alone, ~IsIdle(c), IsIdle(c)'
             PROVE  alpns' = Served(routes')
    OBVIOUS
<1> USE DEF ServeInv
<1>0. c \in Calls /\ \A d \in Calls \ {c} : IsIdle(d)
    BY DEF TypeOK, LoneReadIsFresh
<1>1. ASSUME NEW d \in Calls, NEW s \in Services,
             DelServe(d, s) \/ \E t \in Targets : AddServe(d, s, t)
      PROVE FALSE
    BY <1>0, <1>1 DEF DelServe, AddServe, IsIdle, TypeOK
<1>2. ASSUME NEW d \in Calls, ReadNames(d) PROVE FALSE
    <2>1. d = c
        BY <1>0, <1>2 DEF ReadNames, IsIdle, Idle
    <2> QED BY <1>0, <1>2, <2>1 DEF ReadNames, IsIdle, Idle, TypeOK
<1>3. ASSUME NEW d \in Calls, SetAlpns(d) PROVE alpns' = Served(routes')
    <2>1. d = c
        BY <1>0, <1>3 DEF SetAlpns, IsIdle, Idle
    <2> QED BY <1>3, <2>1 DEF SetAlpns, LoneReadIsFresh
<1>4. ASSUME NEW k \in Conns, Lookup(k) \/ \E s \in Services : Handshake(k, s) PROVE FALSE
    BY <1>4 DEF Lookup, Handshake, IsIdle
<1> QED BY <1>1, <1>2, <1>3, <1>4 DEF Next

\* A call that met no other leaves the endpoint advertising exactly what is served,
\* for any number of services and whatever earlier calls left (routes.rs:48-54).
THEOREM LoneTheorem == Spec => LoneCallRepairs
BY ServeInvariant, LoneStep, PTL DEF Spec, LoneCallRepairs
============================================================================
