---------------------------- MODULE ServeRoutes ----------------------------
(***************************************************************************)
(* What the daemon serves: the routes of src/daemon/routes.rs, the ALPNs   *)
(* that its endpoint advertises, the control calls AddServe and DelServe   *)
(* (src/daemon/service.rs) that change both, and the incoming connections  *)
(* that meet them (handle_incoming).                                       *)
(*                                                                         *)
(* A service name and its ALPN determine each other, so a service stands   *)
(* for both.  The bus runs every control call as a task of its own: Calls  *)
(* is how many run at once.  A call changes the routes under their lock,   *)
(* then reads the names in a second, shared, critical section, and hands   *)
(* them to the endpoint after that: three steps, with others in between.   *)
(***************************************************************************)
EXTENDS FiniteSets

CONSTANTS
    Services,
    Targets,
    Calls,          \* control calls that may run at the same time
    Conns,          \* incoming connections, each handled once
    NoTarget        \* a service that is not served

ASSUME ServeAssumption == NoTarget \notin Targets

VARIABLES
    routes,         \* the route map: [Services -> Targets, or NoTarget]
    alpns,          \* what the endpoint advertises
    call,           \* each call's progress
    conn,           \* each incoming connection's progress
    deleted,        \* history: services that were ever removed
    alone           \* history: calls that have met no other call so far

serveVars == <<routes, alpns, call, conn, deleted, alone>>

Served(r) == {s \in Services : r[s] # NoTarget}

CallSteps == [step: {"idle", "changed"}]
             \cup [step: {"read"}, alpns: SUBSET Services]
ConnSteps == [step: {"none"}]
             \cup [step: {"negotiated", "unknown"}, service: Services]
             \cup [step: {"routed"}, service: Services, target: Targets]

Idle == [step |-> "idle"]
IsIdle(c) == call[c] = Idle
Negotiated(s) == [step |-> "negotiated", service |-> s]

\* run_server adds the configured services and advertises them before there is
\* anyone to call or connect.
Init ==
    /\ routes \in [Services -> Targets \cup {NoTarget}]
    /\ alpns = Served(routes)
    /\ call = [c \in Calls |-> Idle]
    /\ conn = [k \in Conns |-> [step |-> "none"]]
    /\ deleted = {}
    /\ alone = {}
----------------------------------------------------------------------------
(* Control calls                                                           *)

\* A call that starts while another runs makes both of them accompanied.
Meets(c) == IF \A d \in Calls \ {c} : IsIdle(d) THEN alone' = {c} ELSE alone' = {}

\* add_serve_route refuses a name that is served; the call then ends.
AddServe(c, s, t) ==
    /\ IsIdle(c)
    /\ routes[s] = NoTarget
    /\ routes' = [routes EXCEPT ![s] = t]
    /\ call' = [call EXCEPT ![c] = [step |-> "changed"]]
    /\ Meets(c)
    /\ UNCHANGED <<alpns, conn, deleted>>

\* The removal ends the call: the endpoint is not told.
DelServeUnsynced(c, s) ==
    /\ IsIdle(c)
    /\ routes[s] # NoTarget
    /\ routes' = [routes EXCEPT ![s] = NoTarget]
    /\ deleted' = deleted \cup {s}
    /\ Meets(c)
    /\ UNCHANGED <<alpns, call, conn>>

\* The removal is refused for a name that is not served.
DelServe(c, s) ==
    /\ IsIdle(c)
    /\ routes[s] # NoTarget
    /\ routes' = [routes EXCEPT ![s] = NoTarget]
    /\ call' = [call EXCEPT ![c] = [step |-> "changed"]]
    /\ deleted' = deleted \cup {s}
    /\ Meets(c)
    /\ UNCHANGED <<alpns, conn>>

\* sync_endpoint_alpns collects the names under the read lock ...
ReadNames(c) ==
    /\ call[c].step = "changed"
    /\ call' = [call EXCEPT ![c] = [step |-> "read", alpns |-> Served(routes)]]
    /\ UNCHANGED <<routes, alpns, conn, deleted, alone>>

\* Names are only ever added.
SetAlpnsAdds(c) ==
    /\ call[c].step = "read"
    /\ alpns' = alpns \cup call[c].alpns
    /\ call' = [call EXCEPT ![c] = Idle]
    /\ UNCHANGED <<routes, conn, deleted, alone>>

\* ... and advertises them once the lock is released.
SetAlpns(c) ==
    /\ call[c].step = "read"
    /\ alpns' = call[c].alpns
    /\ call' = [call EXCEPT ![c] = Idle]
    /\ UNCHANGED <<routes, conn, deleted, alone>>
----------------------------------------------------------------------------
(* Incoming connections                                                    *)

\* The endpoint completes a handshake for an advertised ALPN only.
Handshake(k, s) ==
    /\ conn[k].step = "none"
    /\ s \in alpns
    /\ conn' = [conn EXCEPT ![k] = Negotiated(s)]
    /\ UNCHANGED <<routes, alpns, call, deleted, alone>>

\* The route is taken out of the map instead of cloned.
LookupTakes(k) ==
    /\ conn[k].step = "negotiated"
    /\ LET s == conn[k].service
       IN  /\ conn' = [conn EXCEPT ![k] =
                IF routes[s] = NoTarget
                   THEN [step |-> "unknown", service |-> s]
                   ELSE [step |-> "routed", service |-> s, target |-> routes[s]]]
           /\ routes' = [routes EXCEPT ![s] = NoTarget]
    /\ UNCHANGED <<alpns, call, deleted, alone>>

\* The route is looked up when the handler gets to it, and cloned: what happens
\* to the service later leaves the connection alone.
Lookup(k) ==
    /\ conn[k].step = "negotiated"
    /\ LET s == conn[k].service
       IN  conn' = [conn EXCEPT ![k] =
                IF routes[s] = NoTarget
                   THEN [step |-> "unknown", service |-> s]
                   ELSE [step |-> "routed", service |-> s, target |-> routes[s]]]
    /\ UNCHANGED <<routes, alpns, call, deleted, alone>>

Next ==
    \/ \E c \in Calls, s \in Services :
          \/ \E t \in Targets : AddServe(c, s, t)
          \/ DelServe(c, s)
    \/ \E c \in Calls : ReadNames(c) \/ SetAlpns(c)
    \/ \E k \in Conns : Lookup(k) \/ \E s \in Services : Handshake(k, s)

\* The calls' tasks and the handlers' are scheduled; no one has to call or to
\* connect.
Fairness ==
    /\ \A c \in Calls : WF_serveVars(ReadNames(c)) /\ WF_serveVars(SetAlpns(c))
    /\ \A k \in Conns : WF_serveVars(Lookup(k))

Spec == Init /\ [][Next]_serveVars /\ Fairness
----------------------------------------------------------------------------
TypeOK ==
    /\ routes \in [Services -> Targets \cup {NoTarget}]
    /\ alpns \subseteq Services
    /\ call \in [Calls -> CallSteps]
    /\ conn \in [Conns -> ConnSteps]
    /\ deleted \subseteq Services
    /\ alone \subseteq Calls

\* A call that no other call met leaves the endpoint advertising exactly what is
\* served, whatever earlier calls left behind (sync_endpoint_alpns re-reads the
\* whole map): running any change alone repairs what concurrent ones broke.
LoneCallRepairs ==
    [][\A c \in alone : ~IsIdle(c) /\ IsIdle(c)' => alpns' = Served(routes')]_serveVars

\* A connection is turned away as unknown only for a service that was removed:
\* no interleaving of calls and handshakes turns away a requester of a service
\* that was there all along (handle_incoming, routes.rs:126-135).
UnknownOnlyIfRemoved ==
    \A k \in Conns : conn[k].step = "unknown" => conn[k].service \in deleted

\* While calls come one at a time, a service that stays served is advertised in
\* the end, and one that stays removed is not (service.rs:95-120).
ServedIsAdvertised ==
    [](\A c, d \in Calls : c # d => IsIdle(c) \/ IsIdle(d)) =>
        \A s \in Services :
            /\ routes[s] # NoTarget ~> s \in alpns \/ routes[s] = NoTarget
            /\ routes[s] = NoTarget ~> s \notin alpns \/ routes[s] # NoTarget

\* Once no call is under way, the endpoint advertises what is served
\* (README.md:174, "Add a served TCP service route to the live proxy server";
\* service.rs:95-104).
AdvertisedAtRest == (\A c \in Calls : IsIdle(c)) => alpns = Served(routes)
============================================================================
