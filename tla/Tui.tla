-------------------------------- MODULE Tui --------------------------------
(***************************************************************************)
(* The terminal UI (src/tui.rs): one task that draws, waits for a key or a *)
(* tick, and handles it to the end before the next.  It shows the snapshot *)
(* it last fetched of a daemon that other commands change, and that stops  *)
(* and starts, meanwhile.  It keeps its connection to the daemon from one  *)
(* fetch to the next, so it may hold one to a daemon that is gone.         *)
(*                                                                         *)
(* A list is the set of its entries' sort keys; a selection is a position  *)
(* in the sorted list from 1, 0 when there is none.  What the dialogs do   *)
(* to the config file is in module Rules.                                  *)
(***************************************************************************)
EXTENDS Naturals, FiniteSets

CONSTANTS
    Services, Forwards, Connections,    \* sort keys that may be listed
    MaxGen                              \* the daemon starts this many times

ASSUME TuiAssumption ==
    /\ Services \cup Forwards \cup Connections \subseteq Nat
    /\ IsFiniteSet(Services) /\ IsFiniteSet(Forwards) /\ IsFiniteSet(Connections)
    /\ MaxGen \in Nat \ {0}

Panes == {"services", "forwards", "connections"}
Lists == [services: SUBSET Services, forwards: SUBSET Forwards,
          connections: SUBSET Connections]
Keys == [services |-> Services, forwards |-> Forwards, connections |-> Connections]
Empty == [p \in Panes |-> {}]

VARIABLES
    up, gen, live,                      \* the daemon, its start's number, its lists
    client,                             \* the start the TUI is connected to, or 0
    running, screen,                    \* the last snapshot: is there a daemon, its lists
    selected,
    focus, compactFocus, compactRoutes, \* the pane in focus, for each of the two layouts
    modal,
    open                                \* the TUI runs

daemonVars == <<up, gen, live>>
snapshotVars == <<client, running, screen, selected>>
focusVars == <<focus, compactFocus, compactRoutes>>
vars == <<daemonVars, snapshotVars, focusVars, modal, open>>

NoModal == [kind |-> "none"]
Message == [kind |-> "message"]
AddDialogs == [kind: {"addService", "addForward"}, filled: BOOLEAN, persist: BOOLEAN]
RemoveDialogs ==
    [kind: {"removeService"}, key: Services]
        \cup [kind: {"removeForward"}, key: Forwards, persist: BOOLEAN]

PaneOf(dialog) ==
    IF dialog.kind \in {"addService", "removeService"} THEN "services" ELSE "forwards"
----------------------------------------------------------------------------
(* The snapshot                                                            *)

\* A selection that there is stays where it is.
ClampFirst(sel, len) == IF sel = 0 /\ len > 0 THEN 1 ELSE sel

Clamp(sel, len) ==
    IF len = 0 THEN 0
    ELSE IF sel = 0 THEN 1
    ELSE IF sel > len THEN len ELSE sel

\* get_or_connect_control_client
Connected == IF client # 0 THEN client ELSE IF up THEN gen ELSE 0

\* A call through the connection is answered by the daemon that it was made to.
Answers(c) == up /\ c = gen

\* A connection that failed is kept for the next fetch.
KeepAnyway(c) == c

\* A connection that failed is given up, for the next fetch to make anew.
GiveUp(c) == 0

\* apply_snapshot: what is fetched through c from a daemon with these lists, or
\* the empty snapshot.
Apply(c, answered, lists) ==
    /\ client' = IF answered THEN c ELSE GiveUp(c)
    /\ running' = answered
    /\ screen' = IF answered THEN lists ELSE Empty
    /\ selected' = [p \in Panes |-> Clamp(selected[p], Cardinality(screen'[p]))]

Refresh == Apply(Connected, Answers(Connected), live)

Tick ==
    /\ open
    /\ Refresh
    /\ UNCHANGED <<daemonVars, focusVars, modal, open>>

Init ==
    /\ up \in BOOLEAN
    /\ gen = IF up THEN 1 ELSE 0
    /\ live \in Lists /\ (~up => live = Empty)
    /\ client = gen /\ running = up /\ screen = live
    /\ selected = [p \in Panes |-> Clamp(0, Cardinality(screen[p]))]
    /\ focus = "services" /\ compactFocus = "routes" /\ compactRoutes = "services"
    /\ modal = NoModal
    /\ open = TRUE
----------------------------------------------------------------------------
(* Keys without a dialog; the terminal's size at each key tells the layout *)

Free == open /\ modal = NoModal

CompactPane == IF compactFocus = "routes" THEN compactRoutes ELSE "connections"

\* The routes' view follows the focus out of the routes.
SyncCompactWhole ==
    /\ compactFocus' = IF focus' = "connections" THEN "connections" ELSE "routes"
    /\ compactRoutes' = focus'

\* sync_compact_from_focus leaves the view of the routes alone for connections.
SyncCompact ==
    /\ compactFocus' = IF focus' = "connections" THEN "connections" ELSE "routes"
    /\ compactRoutes' = IF focus' = "connections" THEN compactRoutes ELSE focus'

NextPane == [services |-> "forwards", forwards |-> "connections", connections |-> "services"]
PrevPane == [services |-> "connections", forwards |-> "services", connections |-> "forwards"]

Tab ==
    /\ Free
    /\ focus' \in {NextPane[focus], PrevPane[focus]}
    /\ SyncCompact
    /\ UNCHANGED <<daemonVars, snapshotVars, modal, open>>

\* The full layout does not hear of it.
CompactSwitchAlone ==
    /\ Free
    /\ \/ /\ compactFocus' = IF compactFocus = "routes" THEN "connections" ELSE "routes"
          /\ UNCHANGED compactRoutes
       \/ /\ compactFocus = "routes"
          /\ compactRoutes' = IF compactRoutes = "services" THEN "forwards" ELSE "services"
          /\ UNCHANGED compactFocus
    /\ UNCHANGED <<daemonVars, snapshotVars, focus, modal, open>>

\* Tab toggles between routes and connections, Left and Right between the routes.
CompactSwitch ==
    /\ Free
    /\ \/ /\ compactFocus' = IF compactFocus = "routes" THEN "connections" ELSE "routes"
          /\ UNCHANGED compactRoutes
       \/ /\ compactFocus = "routes"
          /\ compactRoutes' = IF compactRoutes = "services" THEN "forwards" ELSE "services"
          /\ UNCHANGED compactFocus
    /\ focus' = CompactPane'
    /\ UNCHANGED <<daemonVars, snapshotVars, modal, open>>

Up(sel, len) == IF len = 0 THEN 0 ELSE IF sel > 1 THEN sel - 1 ELSE 1
Down(sel, len) ==
    IF len = 0 THEN 0 ELSE IF sel = 0 THEN 1 ELSE IF sel < len THEN sel + 1 ELSE sel

Move ==
    /\ Free
    /\ \E pane \in {focus, CompactPane} :
        LET len == Cardinality(screen[pane])  sel == selected[pane] IN
            selected' \in {[selected EXCEPT ![pane] = Up(sel, len)],
                           [selected EXCEPT ![pane] = Down(sel, len)]}
    /\ UNCHANGED <<daemonVars, client, running, screen, focusVars, modal, open>>

OpenAdd ==
    /\ Free
    /\ running
    /\ \E pane \in {focus, CompactPane} \ {"connections"} :
        modal' = [kind |-> IF pane = "services" THEN "addService" ELSE "addForward",
                  filled |-> FALSE, persist |-> FALSE]
    /\ UNCHANGED <<daemonVars, snapshotVars, focusVars, open>>

\* The entry at a position of the sorted list.
At(list, i) == CHOOSE k \in list : Cardinality({j \in list : j <= k}) = i

\* The dialog takes over whether the forward is listed as persisted.
OpenRemove ==
    /\ Free
    /\ running
    /\ \E pane \in {focus, CompactPane} \ {"connections"} :
        /\ selected[pane] \in 1 .. Cardinality(screen[pane])
        /\ LET key == At(screen[pane], selected[pane]) IN
            modal' \in {d \in RemoveDialogs : PaneOf(d) = pane /\ d.key = key}
    /\ UNCHANGED <<daemonVars, snapshotVars, focusVars, open>>

RefreshKey ==
    /\ Free
    /\ Refresh
    /\ UNCHANGED <<daemonVars, focusVars, modal, open>>

\* start_backend: a daemon that answers is left alone, else one is started and
\* waited for; what it loads is any lists, and no connections yet.
StartBackend ==
    /\ Free
    /\ ~running
    /\ modal' = Message
    /\ \/ /\ up
          /\ Refresh
          /\ UNCHANGED daemonVars
       \/ /\ ~up
          /\ gen < MaxGen
          /\ up' = TRUE
          /\ gen' = gen + 1
          /\ live' \in {l \in Lists : l.connections = {}}
          /\ LET c == IF client # 0 THEN client ELSE gen' IN Apply(c, c = gen', live')
       \/ /\ ~up
          /\ UNCHANGED <<daemonVars, snapshotVars>>
    /\ UNCHANGED <<focusVars, open>>

Quit ==
    /\ Free
    /\ open' = FALSE
    /\ UNCHANGED <<daemonVars, snapshotVars, focusVars, modal>>
----------------------------------------------------------------------------
(* Keys in a dialog                                                        *)

\* Esc, and Enter on a message.
CloseDialog ==
    /\ open
    /\ modal # NoModal
    /\ modal' = NoModal
    /\ Refresh
    /\ UNCHANGED <<daemonVars, focusVars, open>>

\* Typing, and switching whether the config is changed too.
Edit ==
    /\ open
    /\ \/ /\ modal \in AddDialogs
          /\ modal' \in {d \in AddDialogs : d.kind = modal.kind}
       \/ /\ modal.kind = "removeForward"
          /\ modal' = [modal EXCEPT !.persist = ~@]
    /\ UNCHANGED <<daemonVars, snapshotVars, focusVars, open>>

\* An error is shown over the snapshot of before, and the connection is kept.
ShowError ==
    /\ modal' = Message
    /\ UNCHANGED <<running, screen, selected>>

\* The daemon's lists become `lists`; the snapshot and a message follow.
Succeeds(lists) ==
    /\ live' = lists
    /\ Apply(Connected, TRUE, lists)
    /\ modal' = Message

With(pane, key) == [live EXCEPT ![pane] = @ \cup {key}]
Without(pane, key) == [live EXCEPT ![pane] = @ \ {key}]

\* The dialog is not filled in, there is no daemon, or it refuses the entry; an
\* entry that could not be persisted is taken back.
ConfirmAdd ==
    /\ open
    /\ modal \in AddDialogs
    /\ \/ /\ ShowError
          /\ client' \in {client, Connected}
          /\ UNCHANGED live
       \/ /\ modal.filled
          /\ Answers(Connected)
          /\ \E key \in Keys[PaneOf(modal)] \ live[PaneOf(modal)] :
                Succeeds(With(PaneOf(modal), key))
    /\ UNCHANGED <<up, gen, focusVars, open>>

\* The entry with the name or address shown is removed, whatever it leads to by
\* now.
Removable == Answers(Connected) /\ modal.key \in live[PaneOf(modal)]

RemoveRefused ==
    /\ ~Removable
    /\ ShowError
    /\ client' = Connected
    /\ UNCHANGED live

ConfirmRemoveService ==
    /\ open
    /\ modal.kind = "removeService"
    /\ RemoveRefused \/ (Removable /\ Succeeds(Without("services", modal.key)))
    /\ UNCHANGED <<up, gen, focusVars, open>>

\* That the forward's removal from the config fails is an error, but it is gone.
ConfirmRemoveForward ==
    /\ open
    /\ modal.kind = "removeForward"
    /\ \/ RemoveRefused
       \/ Removable /\ Succeeds(Without("forwards", modal.key))
       \/ /\ Removable
          /\ modal.persist
          /\ live' = Without("forwards", modal.key)
          /\ ShowError
          /\ client' = Connected
    /\ UNCHANGED <<up, gen, focusVars, open>>
----------------------------------------------------------------------------
(* The daemon                                                              *)

DaemonRest == UNCHANGED <<snapshotVars, focusVars, modal, open>>

DaemonStarts ==
    /\ ~up
    /\ gen < MaxGen
    /\ up' = TRUE
    /\ gen' = gen + 1
    /\ live' \in {l \in Lists : l.connections = {}}
    /\ DaemonRest

DaemonStops ==
    /\ up
    /\ up' = FALSE
    /\ live' = Empty
    /\ UNCHANGED gen
    /\ DaemonRest

\* Other commands add and remove entries, and connections come and go.
DaemonChanges ==
    /\ up
    /\ \E pane \in Panes : \E key \in Keys[pane] :
            live' \in {With(pane, key), Without(pane, key)}
    /\ UNCHANGED <<up, gen>>
    /\ DaemonRest
----------------------------------------------------------------------------
Key ==
    \/ Tab \/ CompactSwitch \/ Move \/ OpenAdd \/ OpenRemove \/ RefreshKey
    \/ StartBackend \/ Quit \/ CloseDialog \/ Edit \/ ConfirmAdd
    \/ ConfirmRemoveService \/ ConfirmRemoveForward

Daemon == DaemonStarts \/ DaemonStops \/ DaemonChanges

Next == Tick \/ Key \/ Daemon

\* The loop's select takes its ready branches in a random order, so the keys do
\* not keep the tick out.
Spec == Init /\ [][Next]_vars /\ WF_vars(Tick)
----------------------------------------------------------------------------
TypeOK ==
    /\ up \in BOOLEAN /\ gen \in 0 .. MaxGen /\ live \in Lists
    /\ client \in 0 .. gen
    /\ running \in BOOLEAN /\ screen \in Lists
    /\ selected \in [Panes -> Nat]
    /\ focus \in Panes
    /\ compactFocus \in {"routes", "connections"}
    /\ compactRoutes \in {"services", "forwards"}
    /\ modal \in {NoModal, Message} \cup AddDialogs \cup RemoveDialogs
    /\ open \in BOOLEAN

\* Whatever keys come in whatever layout, the terminal can be resized at any time
\* and the same pane keeps the focus: a key never acts on a pane other than the
\* highlighted one (sync_compact_from_focus, sync_focus_from_compact).
LayoutsAgree == CompactPane = focus

\* In every pane an entry is selected unless the pane is empty, through lists that
\* shrink and grow between fetches: the remove key acts on the highlighted entry
\* (apply_snapshot, move_selection_up, move_selection_down).
SelectionIsListed ==
    \A p \in Panes :
        LET len == Cardinality(screen[p]) IN
            IF len = 0 THEN selected[p] = 0 ELSE selected[p] \in 1 .. len

\* Once the daemon is left alone, running or not, the TUI comes to show it as it is
\* and keeps doing so, whatever connection it held (fetch_snapshot gives up one
\* that failed, tui.rs:565-601).
ScreenCatchesUp ==
    <>[][FALSE]_daemonVars =>
        <>[](open => running = up /\ screen = live)
============================================================================
