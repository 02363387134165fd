----------------------------- MODULE TuiProofs -----------------------------
(***************************************************************************)
(* What holds of the terminal UI for any lists, any number of starts of    *)
(* the daemon and every order of keys, ticks and changes behind its back.  *)
(***************************************************************************)
EXTENDS Tui, FiniteSetTheorems, TLAPS

LEMMA PaneSets == Panes = {"services", "forwards", "connections"}
BY DEF Panes

\* The lists that may be shown are finite.
LEMMA ListsAreFinite ==
    ASSUME NEW lists \in Lists, NEW p \in Panes
    PROVE  IsFiniteSet(lists[p]) /\ Cardinality(lists[p]) \in Nat
<1>1. lists[p] \subseteq Services \/ lists[p] \subseteq Forwards \/ lists[p] \subseteq Connections
  BY DEF Lists, Panes
<1>2. IsFiniteSet(lists[p])
  BY <1>1, TuiAssumption, FS_Subset
<1> QED
  BY <1>2, FS_CardinalityType

\* A position in a list of that length, 0 in an empty one.
InList(sel, len) == IF len = 0 THEN sel = 0 ELSE sel \in 1 .. len

LEMMA ClampInList ==
    ASSUME NEW sel \in Nat, NEW len \in Nat
    PROVE  InList(Clamp(sel, len), len)
BY DEF Clamp, InList

LEMMA MoveInList ==
    ASSUME NEW sel \in Nat, NEW len \in Nat, InList(sel, len)
    PROVE  InList(Up(sel, len), len) /\ InList(Down(sel, len), len)
BY DEF Up, Down, InList

\* A fetch, seen from the types and the selections: it sets all of the snapshot.
LEMMA ApplyTypes ==
    ASSUME TypeOK, NEW c \in 0 .. gen', NEW answered \in BOOLEAN, NEW lists \in Lists,
           gen' \in Nat, Apply(c, answered, lists)
    PROVE  /\ client' \in 0 .. gen' /\ running' \in BOOLEAN /\ screen' \in Lists
           /\ selected' \in [Panes -> Nat]
           /\ \A p \in Panes : InList(selected'[p], Cardinality(screen'[p]))
<1>1. client' \in 0 .. gen' /\ running' \in BOOLEAN
  BY DEF Apply, GiveUp
<1>2. Empty \in Lists
  BY DEF Empty, Lists, Panes
<1>3. screen' \in Lists
  BY <1>2 DEF Apply
<1>4. ASSUME NEW p \in Panes
      PROVE  /\ InList(Clamp(selected[p], Cardinality(screen'[p])), Cardinality(screen'[p]))
             /\ Clamp(selected[p], Cardinality(screen'[p])) \in Nat
  <2>1. Cardinality(screen'[p]) \in Nat /\ selected[p] \in Nat
    BY <1>3, ListsAreFinite DEF TypeOK
  <2> HIDE DEF Panes
  <2> QED
    BY <2>1, ClampInList DEF Clamp
<1>5. selected' = [p \in Panes |-> Clamp(selected[p], Cardinality(screen'[p]))]
  BY DEF Apply
<1> QED
  BY <1>1, <1>3, <1>4, <1>5

SnapshotOK ==
    /\ client \in 0 .. gen /\ running \in BOOLEAN /\ screen \in Lists
    /\ selected \in [Panes -> Nat]
    /\ SelectionIsListed

\* What a step may do to the rest of the state.
DaemonOK == up \in BOOLEAN /\ gen \in 0 .. MaxGen /\ live \in Lists
FocusOK ==
    /\ focus \in Panes
    /\ compactFocus \in {"routes", "connections"}
    /\ compactRoutes \in {"services", "forwards"}
    /\ LayoutsAgree
ModalOK == modal \in {NoModal, Message} \cup AddDialogs \cup RemoveDialogs

TuiInv == SnapshotOK /\ DaemonOK /\ FocusOK /\ ModalOK /\ open \in BOOLEAN

LEMMA TuiInvIsAll == TuiInv <=> TypeOK /\ LayoutsAgree /\ SelectionIsListed
BY DEF TuiInv, SnapshotOK, DaemonOK, FocusOK, ModalOK, TypeOK

LEMMA TuiInit == Init => TuiInv
<1> SUFFICES ASSUME Init PROVE TuiInv
  OBVIOUS
<1>1. live \in Lists /\ screen = live
  BY DEF Init
<1>2. ASSUME NEW p \in Panes
      PROVE  /\ InList(Clamp(0, Cardinality(screen[p])), Cardinality(screen[p]))
             /\ Clamp(0, Cardinality(screen[p])) \in Nat
  BY <1>1, ListsAreFinite, ClampInList DEF Clamp
<1>3. SnapshotOK
  BY <1>1, <1>2 DEF Init, SnapshotOK, SelectionIsListed, InList
<1>4. DaemonOK
  BY <1>1, TuiAssumption DEF Init, DaemonOK
<1>5. FocusOK /\ ModalOK /\ open \in BOOLEAN
  BY DEF Init, FocusOK, ModalOK, LayoutsAgree, CompactPane, Panes
<1> QED
  BY <1>3, <1>4, <1>5 DEF TuiInv

\* A fetch leaves a snapshot that is in order; nothing else is its business.
LEMMA ApplyOK ==
    ASSUME TuiInv, NEW c \in 0 .. gen', NEW answered \in BOOLEAN, NEW lists \in Lists,
           gen' \in Nat, Apply(c, answered, lists)
    PROVE  SnapshotOK'
<1>1. TypeOK
  BY TuiInvIsAll
<1> QED
  BY <1>1, ApplyTypes DEF SnapshotOK, SelectionIsListed, InList

LEMMA ConnectedType == TuiInv => Connected \in 0 .. gen /\ Answers(Connected) \in BOOLEAN /\ gen \in Nat
BY TuiAssumption DEF TuiInv, SnapshotOK, DaemonOK, Connected, Answers

LEMMA RefreshOK ==
    ASSUME TuiInv, Refresh, gen' = gen
    PROVE  SnapshotOK'
<1>1. live \in Lists
  BY DEF TuiInv, DaemonOK
<1> QED
  BY <1>1, ConnectedType, ApplyOK DEF Refresh

LEMMA SnapshotSame ==
    ASSUME TuiInv, UNCHANGED <<running, screen, selected>>, gen' \in Nat, gen' >= gen,
           client' \in {client, Connected}
    PROVE  SnapshotOK'
<1>1. client' \in 0 .. gen
  BY ConnectedType DEF TuiInv, SnapshotOK
<1>2. client' \in 0 .. gen'
  BY <1>1, ConnectedType
<1> QED
  BY <1>2 DEF TuiInv, SnapshotOK, SelectionIsListed

\* Keys that move the focus, in whatever layout.
LEMMA FocusStep ==
    ASSUME TuiInv, Tab \/ CompactSwitch PROVE TuiInv'
<1>1. FocusOK'
  <2> USE DEF TuiInv, FocusOK, Panes, LayoutsAgree, CompactPane
  <2>1. CASE Tab
    BY <2>1 DEF Tab, SyncCompact, NextPane, PrevPane
  <2>2. CASE CompactSwitch
    BY <2>2 DEF CompactSwitch
  <2> QED
    BY <2>1, <2>2
<1>2. UNCHANGED <<daemonVars, snapshotVars, modal, open>>
  BY DEF Tab, CompactSwitch
<1> QED
  BY <1>1, <1>2 DEF TuiInv, SnapshotOK, DaemonOK, ModalOK, SelectionIsListed, daemonVars, snapshotVars

LEMMA WithType ==
    ASSUME NEW lists \in Lists, NEW p \in Panes, NEW S \in SUBSET Keys[p]
    PROVE  [lists EXCEPT ![p] = S] \in Lists
<1>1. CASE p = "services"
  BY <1>1 DEF Lists, Keys
<1>2. CASE p = "forwards"
  BY <1>2 DEF Lists, Keys
<1>3. CASE p = "connections"
  BY <1>3 DEF Lists, Keys
<1> QED
  BY <1>1, <1>2, <1>3 DEF Panes

LEMMA EntryTypes ==
    ASSUME live \in Lists, NEW p \in Panes
    PROVE  /\ \A key \in Keys[p] : With(p, key) \in Lists
           /\ \A key : Without(p, key) \in Lists
<1>1. live[p] \subseteq Keys[p]
  BY DEF Lists, Keys, Panes
<1>2. ASSUME NEW key \in Keys[p] PROVE With(p, key) \in Lists
  <2>1. live[p] \cup {key} \in SUBSET Keys[p]
    BY <1>1
  <2> QED
    BY <2>1, WithType DEF With
<1>3. ASSUME NEW key PROVE Without(p, key) \in Lists
  <2>1. live[p] \ {key} \in SUBSET Keys[p]
    BY <1>1
  <2> QED
    BY <2>1, WithType DEF Without
<1> QED
  BY <1>2, <1>3

\* The arrow keys move the selection of a pane within its list.
LEMMA MoveStep ==
    ASSUME TuiInv, Move PROVE TuiInv'
<1>1. PICK pane \in {focus, CompactPane} :
        selected' \in {[selected EXCEPT ![pane] = Up(selected[pane], Cardinality(screen[pane]))],
                       [selected EXCEPT ![pane] = Down(selected[pane], Cardinality(screen[pane]))]}
  BY DEF Move
<1>2. pane \in Panes
  BY DEF TuiInv, FocusOK, LayoutsAgree
<1>3. /\ UNCHANGED <<client, running, screen>> /\ screen \in Lists
      /\ selected \in [Panes -> Nat]
      /\ \A p \in Panes : InList(selected[p], Cardinality(screen[p]))
  BY DEF Move, TuiInv, SnapshotOK, SelectionIsListed, InList
<1>4. Cardinality(screen[pane]) \in Nat
  BY <1>2, <1>3, ListsAreFinite
<1>5. /\ Up(selected[pane], Cardinality(screen[pane])) \in Nat
      /\ Down(selected[pane], Cardinality(screen[pane])) \in Nat
  BY <1>2, <1>3, <1>4 DEF Up, Down
<1>6. /\ InList(Up(selected[pane], Cardinality(screen[pane])), Cardinality(screen[pane]))
      /\ InList(Down(selected[pane], Cardinality(screen[pane])), Cardinality(screen[pane]))
  BY <1>2, <1>3, <1>4, MoveInList
<1>7. /\ selected' \in [Panes -> Nat]
      /\ \A p \in Panes : InList(selected'[p], Cardinality(screen'[p]))
  BY <1>1, <1>2, <1>3, <1>5, <1>6
<1>8. SnapshotOK'
  BY <1>3, <1>7 DEF Move, TuiInv, SnapshotOK, SelectionIsListed, InList, daemonVars
<1> QED
  BY <1>8 DEF Move, TuiInv, DaemonOK, FocusOK, ModalOK, LayoutsAgree, CompactPane,
              daemonVars, focusVars

\* The keys and the tick that change the snapshot at most by a fetch.
LEMMA FetchStep ==
    ASSUME TuiInv, Tick \/ RefreshKey \/ CloseDialog PROVE TuiInv'
<1>1. Refresh /\ UNCHANGED <<daemonVars, focusVars, open>> /\ modal' \in {modal, NoModal}
  BY DEF Tick, RefreshKey, CloseDialog
<1>2. SnapshotOK'
  BY <1>1, RefreshOK DEF daemonVars
<1> QED
  BY <1>1, <1>2 DEF TuiInv, DaemonOK, FocusOK, ModalOK, LayoutsAgree, CompactPane,
                    daemonVars, focusVars

\* The keys that open a dialog, edit one, or quit.
LEMMA DialogStep ==
    ASSUME TuiInv, OpenAdd \/ OpenRemove \/ Edit \/ Quit PROVE TuiInv'
<1>1. UNCHANGED <<daemonVars, snapshotVars, focusVars>>
  BY DEF OpenAdd, OpenRemove, Edit, Quit
<1>2. open' \in BOOLEAN
  BY DEF OpenAdd, OpenRemove, Edit, Quit, TuiInv
<1>3. ModalOK'
  <2>1. CASE OpenAdd
    BY <2>1 DEF OpenAdd, ModalOK, AddDialogs
  <2>2. CASE OpenRemove
    BY <2>2 DEF OpenRemove, ModalOK
  <2>3. CASE Edit
    <3>1. CASE modal \in AddDialogs
      <4>1. modal.kind # "removeForward"
        BY <3>1 DEF AddDialogs
      <4> QED
        BY <2>3, <4>1 DEF Edit, ModalOK
    <3>2. CASE modal \notin AddDialogs
      <4>1. modal.kind = "removeForward" /\ modal' = [modal EXCEPT !.persist = ~@]
        BY <2>3, <3>2 DEF Edit
      <4>2. modal \in [kind: {"removeForward"}, key: Forwards, persist: BOOLEAN]
        BY <3>2, <4>1 DEF TuiInv, ModalOK, NoModal, Message, RemoveDialogs
      <4>3. modal' \in [kind: {"removeForward"}, key: Forwards, persist: BOOLEAN]
        BY <4>1, <4>2
      <4> QED
        BY <4>3 DEF ModalOK, RemoveDialogs
    <3> QED
      BY <3>1, <3>2
  <2>4. CASE Quit
    BY <2>4 DEF Quit, TuiInv, ModalOK
  <2> QED
    BY <2>1, <2>2, <2>3, <2>4
<1> QED
  BY <1>1, <1>2, <1>3
     DEF TuiInv, SnapshotOK, SelectionIsListed, DaemonOK, FocusOK, LayoutsAgree, CompactPane,
         daemonVars, snapshotVars, focusVars

\* The key that starts the daemon, which may come up and answer, come up for a
\* connection that was made to an earlier one, or not come up.
LEMMA StartStep ==
    ASSUME TuiInv, StartBackend PROVE TuiInv'
<1>1. UNCHANGED focusVars /\ open' = open /\ ModalOK'
  BY DEF StartBackend, ModalOK
<1>2. SnapshotOK' /\ DaemonOK'
  <2>1. CASE Refresh /\ UNCHANGED daemonVars
    BY <2>1, RefreshOK DEF daemonVars, TuiInv, DaemonOK
  <2>2. CASE /\ gen < MaxGen /\ up' = TRUE /\ gen' = gen + 1
             /\ live' \in {l \in Lists : l.connections = {}}
             /\ LET c == IF client # 0 THEN client ELSE gen' IN Apply(c, c = gen', live')
    <3> DEFINE c == IF client # 0 THEN client ELSE gen'
    <3>1. DaemonOK' /\ gen' \in Nat /\ live' \in Lists
      BY <2>2, TuiAssumption DEF TuiInv, DaemonOK
    <3>2. c \in 0 .. gen' /\ (c = gen') \in BOOLEAN
      BY <2>2, <3>1, ConnectedType DEF TuiInv, SnapshotOK
    <3>3. Apply(c, c = gen', live')
      BY <2>2
    <3> HIDE DEF c
    <3> QED
      BY <3>1, <3>2, <3>3, ApplyOK
  <2>3. CASE UNCHANGED <<daemonVars, snapshotVars>>
    BY <2>3 DEF TuiInv, SnapshotOK, DaemonOK, SelectionIsListed, daemonVars, snapshotVars
  <2> QED
    BY <2>1, <2>2, <2>3 DEF StartBackend
<1> QED
  BY <1>1, <1>2 DEF TuiInv, FocusOK, LayoutsAgree, CompactPane, focusVars

\* What the steps that confirm a dialog have in common: the daemon's lists are
\* changed and shown, or an error is.
LEMMA ConfirmStep ==
    ASSUME TuiInv, UNCHANGED <<up, gen, focusVars, open>>,
           \/ ShowError /\ live' \in Lists /\ client' \in {client, Connected}
           \/ \E lists \in Lists : Succeeds(lists)
    PROVE  TuiInv'
<1>1. ModalOK' /\ live' \in Lists
  BY DEF ShowError, Succeeds, ModalOK
<1>2. SnapshotOK'
  <2>1. CASE ShowError /\ client' \in {client, Connected}
    BY <2>1, SnapshotSame, ConnectedType DEF ShowError
  <2>2. CASE \E lists \in Lists : Succeeds(lists)
    <3>1. PICK lists \in Lists : Apply(Connected, TRUE, lists)
      BY <2>2 DEF Succeeds
    <3> QED
      BY <3>1, ApplyOK, ConnectedType
  <2> QED
    BY <2>1, <2>2
<1> QED
  BY <1>1, <1>2 DEF TuiInv, DaemonOK, FocusOK, LayoutsAgree, CompactPane, focusVars

LEMMA DialogPane == \A d : PaneOf(d) \in Panes
BY DEF PaneOf, Panes

LEMMA ConfirmAddStep ==
    ASSUME TuiInv, ConfirmAdd PROVE TuiInv'
<1>1. UNCHANGED <<up, gen, focusVars, open>> /\ live \in Lists
  BY DEF ConfirmAdd, TuiInv, DaemonOK
<1>2. CASE ShowError /\ client' \in {client, Connected} /\ UNCHANGED live
  BY <1>1, <1>2, ConfirmStep
<1>3. CASE \E key \in Keys[PaneOf(modal)] : Succeeds(With(PaneOf(modal), key))
  <2>1. PICK key \in Keys[PaneOf(modal)] : Succeeds(With(PaneOf(modal), key))
    BY <1>3
  <2>2. With(PaneOf(modal), key) \in Lists
    BY <1>1, DialogPane, EntryTypes
  <2> QED
    BY <1>1, <2>1, <2>2, ConfirmStep
<1> QED
  BY <1>2, <1>3 DEF ConfirmAdd

\* Either dialog's removal: refused, done, or done with an error over it.
LEMMA ConfirmRemoveStep ==
    ASSUME TuiInv, ConfirmRemoveService \/ ConfirmRemoveForward PROVE TuiInv'
<1>1. UNCHANGED <<up, gen, focusVars, open>> /\ live \in Lists
  BY DEF ConfirmRemoveService, ConfirmRemoveForward, TuiInv, DaemonOK
<1>2. \A pane \in Panes : Without(pane, modal.key) \in Lists
  BY <1>1, EntryTypes
<1>3. CASE RemoveRefused
  BY <1>1, <1>3, ConfirmStep DEF RemoveRefused
<1>4. CASE \E pane \in Panes : Succeeds(Without(pane, modal.key))
  BY <1>1, <1>2, <1>4, ConfirmStep
<1>5. CASE live' = Without("forwards", modal.key) /\ ShowError /\ client' = Connected
  BY <1>1, <1>2, <1>5, ConfirmStep, PaneSets
<1> QED
  BY <1>3, <1>4, <1>5, PaneSets DEF ConfirmRemoveService, ConfirmRemoveForward

\* The daemon behind the TUI's back.
LEMMA DaemonStep ==
    ASSUME TuiInv, Daemon PROVE TuiInv'
<1>1. DaemonRest
  BY DEF Daemon, DaemonStarts, DaemonStops, DaemonChanges
<1>2. DaemonOK' /\ gen' \in Nat /\ gen' >= gen
  <2>0. gen \in Nat /\ gen <= gen
    BY ConnectedType
  <2> USE DEF TuiInv, DaemonOK
  <2>1. CASE DaemonStarts
    BY <2>0, <2>1, TuiAssumption DEF DaemonStarts
  <2>2. CASE DaemonStops
    <3>1. Empty \in Lists
      BY DEF Empty, Lists, Panes
    <3> QED
      BY <2>0, <2>2, <3>1 DEF DaemonStops
  <2>3. CASE DaemonChanges
    <3>1. PICK pane \in Panes :
            \E key \in Keys[pane] : live' \in {With(pane, key), Without(pane, key)}
      BY <2>3 DEF DaemonChanges
    <3>2. live' \in Lists
      BY <3>1, EntryTypes
    <3> QED
      BY <2>0, <2>3, <3>2 DEF DaemonChanges
  <2> QED
    BY <2>1, <2>2, <2>3 DEF Daemon
<1>3. SnapshotOK'
  BY <1>1, <1>2, SnapshotSame DEF DaemonRest, snapshotVars
<1> QED
  BY <1>1, <1>2, <1>3
     DEF TuiInv, DaemonRest, FocusOK, ModalOK, LayoutsAgree, CompactPane, focusVars

LEMMA NextTui == TuiInv /\ [Next]_vars => TuiInv'
<1> SUFFICES ASSUME TuiInv, [Next]_vars PROVE TuiInv'
  OBVIOUS
<1>1. CASE Tick \/ RefreshKey \/ CloseDialog
  BY <1>1, FetchStep
<1>2. CASE Tab \/ CompactSwitch
  BY <1>2, FocusStep
<1>3. CASE Move
  BY <1>3, MoveStep
<1>4. CASE OpenAdd \/ OpenRemove \/ Edit \/ Quit
  BY <1>4, DialogStep
<1>5. CASE StartBackend
  BY <1>5, StartStep
<1>6. CASE ConfirmAdd
  BY <1>6, ConfirmAddStep
<1>7. CASE ConfirmRemoveService \/ ConfirmRemoveForward
  BY <1>7, ConfirmRemoveStep
<1>8. CASE Daemon
  BY <1>8, DaemonStep
<1>9. CASE UNCHANGED vars
  BY <1>9 DEF vars, TuiInv, SnapshotOK, DaemonOK, FocusOK, ModalOK, SelectionIsListed,
              LayoutsAgree, CompactPane, daemonVars, snapshotVars, focusVars
<1> QED
  BY <1>1, <1>2, <1>3, <1>4, <1>5, <1>6, <1>7, <1>8, <1>9 DEF Next, Key

LEMMA TuiInvHolds == Spec => []TuiInv
BY TuiInit, NextTui, PTL DEF Spec

\* Every variable of the terminal UI keeps its type, for any lists and any number
\* of starts of the daemon (tui.rs, TuiApp).
THEOREM TypeCorrect == Spec => []TypeOK
BY TuiInvHolds, TuiInvIsAll, PTL

\* The two layouts have the same pane in focus (sync_compact_from_focus,
\* sync_focus_from_compact).
THEOREM LayoutsTheorem == Spec => []LayoutsAgree
BY TuiInvHolds, TuiInvIsAll, PTL

\* In every pane that is not empty an entry of the list shown is selected
\* (apply_snapshot, move_selection_up, move_selection_down).
THEOREM SelectionTheorem == Spec => []SelectionIsListed
BY TuiInvHolds, TuiInvIsAll, PTL

----------------------------------------------------------------------------
(* The entry at a position                                                 *)

UpTo(list, k) == {j \in list : j <= k}

LEMMA LeastOf ==
    ASSUME NEW numbers \in SUBSET Nat, numbers # {}
    PROVE  \E m \in numbers : \A j \in numbers : m <= j
<1>1. PICK m \in numbers : \A j \in numbers : ~ (<<j, m>> \in OpToRel(<, Nat))
  BY WFMin, NatLessThanWellFounded, Zenon
<1>2. ASSUME NEW j \in numbers PROVE m <= j
  <2>1. j \in Nat /\ m \in Nat
    OBVIOUS
  <2>2. CASE j < m
    <3>1. <<j, m>> \in OpToRel(<, Nat)
      BY <2>1, <2>2 DEF OpToRel
    <3> QED
      BY <1>1, <3>1
  <2> QED
    BY <2>1, <2>2
<1> QED
  BY <1>2

\* There is an entry at every position of a list: at the first its least number,
\* and after each the least of those that are greater.
LEMMA EntryAt ==
    ASSUME NEW list \in SUBSET Nat, IsFiniteSet(list), NEW i \in 1 .. Cardinality(list)
    PROVE  At(list, i) \in list /\ Cardinality(UpTo(list, At(list, i))) = i
<1> DEFINE Has(n) == \E k \in list : Cardinality(UpTo(list, k)) = n
           Missing == {n \in 1 .. Cardinality(list) : ~Has(n)}
<1>1. Cardinality(list) \in Nat
  BY FS_CardinalityType
<1>2. ASSUME NEW rest \in SUBSET list, rest # {}
      PROVE  \E m \in rest : \A j \in rest : m <= j
  BY <1>2, LeastOf
<1>3. ASSUME NEW n \in Missing, \A y \in Missing : n <= y
      PROVE  FALSE
  <2>1. CASE n = 1
    <3>1. list # {}
      BY <1>1, FS_EmptySet
    <3>2. PICK m \in list : \A j \in list : m <= j
      BY <1>2, <3>1
    <3>3. UpTo(list, m) = {m}
      <4>1. \A j \in list : j \in Nat /\ (j <= m <=> j = m)
        BY <3>2
      <4> QED
        BY <3>2, <4>1 DEF UpTo
    <3>4. Has(1)
      BY <3>2, <3>3, FS_Singleton
    <3> QED
      BY <2>1, <3>4
  <2>2. CASE n # 1
    <3>1. n - 1 \in 1 .. Cardinality(list) /\ n - 1 < Cardinality(list) /\ Has(n - 1)
      BY <1>1, <1>3, <2>2
    <3>2. PICK k \in list : Cardinality(UpTo(list, k)) = n - 1
      BY <3>1
    <3>3. UpTo(list, k) # list
      BY <1>1, <3>1, <3>2
    <3>4. {j \in list : j > k} # {}
      <4>1. \A j \in list : j \in Nat /\ (j <= k \/ j > k)
        BY <3>2
      <4> QED
        BY <3>3, <4>1 DEF UpTo
    <3>5. PICK m \in {j \in list : j > k} : \A j \in {h \in list : h > k} : m <= j
      BY <1>2, <3>4
    <3>6. UpTo(list, m) = UpTo(list, k) \cup {m} /\ m \notin UpTo(list, k)
      <4>1. m \in list /\ m > k /\ m <= m
        BY <3>5
      <4>2. \A j \in list : j <= m <=> j <= k \/ j = m
        <5>1. \A j \in list : j \in Nat /\ (j > k => m <= j)
          BY <3>5
        <5> QED
          BY <3>2, <4>1, <5>1
      <4>3. ~(m <= k)
        BY <3>2, <4>1
      <4> QED
        BY <4>1, <4>2, <4>3 DEF UpTo
    <3>7. IsFiniteSet(UpTo(list, k))
      BY FS_Subset DEF UpTo
    <3>8. Cardinality(UpTo(list, m)) = Cardinality(UpTo(list, k)) + 1
      BY <3>6, <3>7, FS_AddElement
    <3>9. Cardinality(UpTo(list, m)) = n
      BY <1>1, <3>2, <3>8
    <3> QED
      BY <3>5, <3>9
  <2> QED
    BY <2>1, <2>2
<1>4. Missing = {}
  <2> SUFFICES ASSUME Missing # {} PROVE FALSE
    OBVIOUS
  <2>1. Missing \in SUBSET Nat
    BY <1>1
  <2>2. PICK n \in Missing : \A y \in Missing : n <= y
    <3> HIDE DEF Missing
    <3> QED
      BY <2>1, LeastOf
  <2> QED
    BY <2>2, <1>3
<1>5. Has(i)
  BY <1>4
<1> QED
  BY <1>5 DEF At, UpTo

\* The dialog that the remove key opens is for the entry that is highlighted: in
\* the pane in focus, the one with as many entries up to it as the selection says
\* (selected_service, selected_forward of tui.rs).
THEOREM RemoveIsForTheHighlighted ==
    Spec => [][OpenRemove => /\ modal'.key \in screen[focus]
                             /\ Cardinality(UpTo(screen[focus], modal'.key)) = selected[focus]]_vars
<1>1. ASSUME TuiInv, OpenRemove
      PROVE  /\ modal'.key \in screen[focus]
             /\ Cardinality(UpTo(screen[focus], modal'.key)) = selected[focus]
  <2>1. /\ screen \in Lists /\ focus \in Panes /\ CompactPane = focus
    BY <1>1 DEF TuiInv, SnapshotOK, FocusOK, LayoutsAgree
  <2>2. /\ selected[focus] \in 1 .. Cardinality(screen[focus])
        /\ modal'.key = At(screen[focus], selected[focus])
    BY <1>1, <2>1 DEF OpenRemove
  <2>3. IsFiniteSet(screen[focus])
    BY <2>1, ListsAreFinite
  <2>4. screen[focus] \in SUBSET Nat
    BY <2>1, TuiAssumption DEF Lists, Panes
  <2> QED
    BY <2>2, <2>3, <2>4, EntryAt
<1> QED
  BY <1>1, TuiInvHolds, PTL DEF Spec
============================================================================
