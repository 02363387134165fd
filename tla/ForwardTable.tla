---------------------------- MODULE ForwardTable ----------------------------
(***************************************************************************)
(* What the control calls on forwards promise, however many run at once:   *)
(* each takes effect at one moment between its beginning and its return,   *)
(* or not at all.  A call that adds finds the address free at that moment  *)
(* and lists a forward of its own, never one that was listed before; one   *)
(* that is refused as a duplicate, or because there is nothing to remove,  *)
(* saw that at its moment (src/daemon/service.rs, AddForward, DelForward). *)
(***************************************************************************)
CONSTANTS Addrs, Calls, Listeners, None

VARIABLES
    table,      \* the forward listed for each address, or None
    known,      \* forwards that are or were listed
    pending     \* what each call has to do yet

tableVars == <<table, known, pending>>

NoCall == [step |-> "idle", addr |-> None]

Init ==
    /\ table = [a \in Addrs |-> None]
    /\ known = {}
    /\ pending = [c \in Calls |-> NoCall]

Begin(c, step, a) ==
    /\ pending[c] = NoCall
    /\ pending' = [pending EXCEPT ![c] = [step |-> step, addr |-> a]]
    /\ UNCHANGED <<table, known>>

Returns(c) == pending' = [pending EXCEPT ![c] = NoCall]

Add(c, forward) ==
    /\ pending[c].step = "adding"
    /\ table[pending[c].addr] = None
    /\ forward \notin known
    /\ table' = [table EXCEPT ![pending[c].addr] = forward]
    /\ known' = known \cup {forward}
    /\ Returns(c)

\* The address cannot be bound.
AddFails(c) ==
    /\ pending[c].step = "adding"
    /\ table[pending[c].addr] = None
    /\ Returns(c)
    /\ UNCHANGED <<table, known>>

Refuse(c) ==
    /\ \/ pending[c].step = "adding" /\ table[pending[c].addr] # None
       \/ pending[c].step = "deleting" /\ table[pending[c].addr] = None
    /\ Returns(c)
    /\ UNCHANGED <<table, known>>

Remove(c) ==
    /\ pending[c].step = "deleting"
    /\ table[pending[c].addr] # None
    /\ table' = [table EXCEPT ![pending[c].addr] = None]
    /\ pending' = [pending EXCEPT ![c].step = "removed"]
    /\ UNCHANGED known

Removed(c) ==
    /\ pending[c].step = "removed"
    /\ Returns(c)
    /\ UNCHANGED <<table, known>>

Next ==
    \E c \in Calls :
        \/ \E step \in {"adding", "deleting"}, a \in Addrs : Begin(c, step, a)
        \/ \E forward \in Listeners : Add(c, forward)
        \/ AddFails(c) \/ Refuse(c) \/ Remove(c) \/ Removed(c)

Spec == Init /\ [][Next]_tableVars
=============================================================================
