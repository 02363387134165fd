# A TLA+ verification of iroh-proxy

iroh-proxy forwards TCP connections over QUIC connections between endpoints that
know each other by public key. This directory holds TLA+ modules of its core, the
TLC configurations that model-check them on small instances, and TLAPS proofs of
what matters most for every instance. `src/...` below is the Rust source at
`src/src/...`; comments in the modules cite files by their last name.

    tlc -config MCTunnel.cfg Tunnel.tla            # one run
    tlapm TunnelProofs.tla                         # the proofs of one module

`PROJECT.json` lists the runs, the mutants that show that each checked property can
fail, the hazards, and the source lines behind every definition.

## 1. Inventory

Two kinds of process share one binary: the **daemon** (`iroh-proxy server`) and the
**commands** (`forward`, `add-serve`, `add-forward`, `del-*`, `status`, `tui`), which
talk to it over a control connection (D-Bus on Linux, a Unix socket elsewhere).

| Component | State it keeps | Operations | Interacts with | What makes it correct |
|---|---|---|---|---|
| Connection retry, `proxy.rs:112-250` | attempt number, backoff, deadline | attempt, sleep, give up | the QUIC endpoint | ends by its deadline, gives the true reason, no early attempt, none too many |
| Byte pump, `proxy.rs:324-425` | two copies, one of them a spawned task | copy, half-close, timeout, abort | local socket, QUIC stream | leaves no copy behind, never ends a cut stream as a complete one without knowing, returns in time |
| Tunnel: `forward_tcp_conn` (`proxy.rs`), `handle_incoming`, `proxy_to_route` (`daemon/routes.rs`) | phases of both ends, who has closed | open, accept, dial, pump, drain, close | pump, app, target, network | bytes arrive, closed connections are let go of |
| Serve routes, `daemon/routes.rs`, `service.rs` | route map, the endpoint's ALPN list | add-serve, del-serve, handshake, lookup | control calls, incoming connections | the list is that of the map; only removed services are refused |
| Forwards and registry, `daemon/forwards.rs`, `connections.rs` | map of listeners, listener tasks with their JoinSets, live connections, events | add-forward, del-forward, accept, abort, register, unregister | control calls, tunnels, the event channel | what is listed runs, what is removed ends, the registry is exact |
| Key files, `keys.rs` | a file with a key, a lock on it | lock, read, generate, write | daemons and forward commands | one identity for a file, no key is lost |
| Control socket, `daemon/control_plane.rs:100-320` | the socket's file | bind, probe, unlink, rebind, clean up | other daemons, commands | who serves can be reached; starts do not all give way |
| Start and stop, `daemon/mod.rs`, `main.rs:54-107` | the daemon's phase, a command's polls | start, spawn, poll, stop | key files, control socket | an exit that is reported means there is no server |
| Config and rules, `config.rs`, `main.rs:259-373` | the live rules, the config file | add and remove, persistent or not; load | daemon, commands, TUI | what was reported persistent is kept; the daemon accepts the file |
| Terminal UI, `tui.rs` | snapshot, selection, focus, dialog, control connection | keys, ticks, dialogs | daemon, config | shows the daemon, acts on what is highlighted |
| Signal fan-out, `control_plane.rs:300-437` | the accept loop's step, the map of peers, their monitors, the channel of reasons, the round under way | accept, authorize, handshake, register, emit, drop a peer | control peers, the event channel | no registered peer misses a change; who is gone is forgotten; every client is served |
| stdio / fdpass, `fdpass.rs`, `forward.rs:17-53` | a socketpair, three processes' descriptors, the relay's two copies | pass, exec, connect, pump, exit | ssh, retry, pump | the relay holds its end only, ends when it is orphaned, leaves ssh on no dead socket |
| One-shot `forward`, `forward.rs:55-207` | listeners | accept | tunnel, key files | *not modelled*: an accept loop around the tunnel, with no control calls |
| `control.rs`, `cli.rs`, `version.rs`, `build.rs`, `systemd.rs`, `remote_path.rs`, `diagnostics.rs` | none | calls, parsing, logging | | *not modelled*: no state of their own |

The behaviours that are hard here are of four kinds: a spawned copy that outlives the
call that made it; tasks that stop only at their next poll after an abort; state read
under a lock, or from a file, and used after the lock is gone or the file has changed;
and processes that start, stop and die between any two steps of each other. The list
with lines is `hazards` in `PROJECT.json`.

## 2. Modules

    Pipes ── Pump ── Tunnel ──(refines)── Channel        TunnelProofs
    Retry ── FdPass                                      RetryProofs
    ServeRoutes                                          ServeRoutesProofs
    Forwards ──(refines)── ForwardTable                  ForwardsProofs
    Signals                                              SignalsProofs
    KeyFile ─┬─ Startup                                  StartupProofs
    ControlSocket ─┘
    Rules ── MCRules                                     RulesProofs
    Tui                                                  TuiProofs

- **Retry** is `retry_with_backoff`: a discrete clock, the loop's attempt, backoff and
  deadline, and a call that may succeed, fail for good, fail for now or never answer.
  Timers never fire early and at most `MaxLag` ticks late.
- **FdPass** extends Retry: the process that ssh starts, the relay it spawns and ssh
  itself, each with what it holds in its descriptor table. `Execs` is the fork, the
  `pre_exec` and the exec. The relay's `connecting` phase takes Retry's steps, whose clock
  runs only then; in `stdio` mode the process that ssh starts is the relay. The pump
  shows only the ends of its two copies here.
- **Pipes** is one direction of a byte stream, a TCP half or a QUIC stream half: how
  much was written and read, and the state of the two ends. Dropping a write half
  finishes it, so an end that went away in an error looks like one that ended.
- **Pump** is `pump_streams`, step by step: the up copy in the caller's task, the down
  copy in a task of its own, the timeout, and the drop of the call's future, which
  detaches the down copy. It has no specification of its own.
- **Tunnel** instances Pump twice, as the client's `C` (`forward_tcp_conn`) and the
  server's `S` (`proxy_to_route`), between an app and a target that write, read, end
  and reset at will. Each end sees the connection's close (`cLost`, `sLost`) at its own
  time. `Faults` selects what may go wrong.
- **Channel** is what one direction promises: the reader gets a prefix of what was
  written, and an end that is clean or a cut. Tunnel implements it in both directions
  (`ResponseIsChannel`, `RequestIsChannel`); the refinement mapping is the counts of
  chunks, and an end is clean when the copy that made it and the far end's copy before
  it ran to their ends.
- **ServeRoutes** is the route map, the endpoint's ALPNs, and control calls that change
  the first and then set the second from what they read (`sync_endpoint_alpns`).
- **Forwards** has the queue of the map's mutex, `add_forward_binding`, which holds it over
  the bind, `del_forward` with the entry it drops after releasing it, listener tasks with
  the connections in their JoinSets, and the registry's guards and events.
- **ForwardTable** is what those calls promise: a table from addresses to forwards, and
  calls that take effect at one moment each, or are refused for what they saw at one.
  Forwards implements it (`CallsTakeEffectAtOnce`); a call that adds has its moment where it
  inserts, one that removes where the entry leaves the map, and a listener is `known` to the
  table from its insertion on.
- **Signals** is what becomes of those events on macOS and Windows: the fan-out's rounds,
  the accept loop that performs one handshake after the other, the map of peers that both
  share, and a monitor for each peer. `stale` is a history variable: the registered peers
  that have not read a signal since the last change.
- **KeyFile** has the users of key files: daemons under the lock, forward commands
  without it. **ControlSocket** has the socket's file. **Startup** instances both and
  adds the order of `run_server`, stops, crashes, and `ensure_server_running`.
- **Rules** is the live rules against the config file. The commands write the file, the
  daemon only reads it; each command is a sequence of steps with a failure and a kill
  between any two. The TUI's removal goes by the rule its dialog shows. What a forward
  leads to (`Bindings`) is its remote as typed with its timeout: adding compares both,
  the TUI's removal the remote only, with the form that the daemon lists (`Shown`).
- **Tui** is the loop of `run_tui_loop`: every key and tick is one action, since one
  task handles them to the end; the daemon changes in between.

An action is a handler, or the part of it between two points where others may run. Reads
that change nothing and calls that are refused with nothing changed are left out. The
definitions named like a variation of another (`TimeoutDetaches`, `ClashesWhole`, ...) are
plausible bugs; they are used only in place of the definition after them, to see the
property fail.

## 3. What the runs check

| Run | Properties | Bounds |
|---|---|---|
| `tunnel` (MCTunnel) | `CleanEndIsComplete`, `NoCopyOutlivesCall`, `ResponseIsChannel`, `RequestIsChannel`, `UploadEndBoundsCall`, `ClosedConnectionIsReleased`, `ResponseReachesApp` | all faults, 2 chunks each way, pipes of 1 |
| `tunnel_request` (violation) | `RequestReachesTarget` | no faults, 2 chunks each way |
| `tunnel_abort` (violation) | `AbortedConnectionEnds` | an abort only |
| `fdpass` (MCFdPass) | `DeadlineHonoured`, `VerdictJustified`, `BackoffRespected`, `RelayHoldsItsEndOnly`, `OrphanedRelayEnds`, `SshIsNotLeftWaiting` | any of descriptors 3 to 5 in use; 4 attempts, backoff 2 capped at 3, deadline 13, lateness 2 |
| `serve` (MCServe) | `UnknownOnlyIfRemoved`, `LoneCallRepairs`, `ServedIsAdvertised` | 2 services, 2 targets, 2 calls, 2 connections |
| `serve_race` (violation) | `AdvertisedAtRest` | 2 services, 2 calls |
| `forwards` (MCForwards) | `RegistryIsExact`, `EventsCountEntries`, `ListedIsNotStopped`, `NoOrphanListener`, `CallsTakeEffectAtOnce`, `RemovedForwardEnds`, `EveryCallReturns` | 1 address, 2 calls, 3 listener tasks, 2 connection tasks, 2 registrations |
| `signals` (MCSignals) | `SignalOnItsWay`, `ToldOfEveryChange`, `GonePeersAreForgotten`, `ClientsAreServed` | 3 clients, 2 tasks that change the state, 1 unread signal |
| `startup` (MCStartup) | `ServerIsReachable`, `RunsWithItsFilesKey`, `IdentityIsUnique`, `SettledKeyStays`, `SomeServerComesUp` | 3 daemons, 2 key files, 1 forward, 1 command |
| `startup_race` (violation) | `ExitMeansNoServer` | 2 commands, 2 daemons, 1 key file, nothing fails |
| `rules` (MCRules) | `PromisedIsKept`, `FileNamesEachRuleOnce`, `PersistedFlagIsTrue` | 1 service with 2 targets, 1 forward with 4 bindings (2 remotes, one of them with 2 timeouts and typed in 2 ways), 2 commands |
| `tui` (MCTui) | `LayoutsAgree`, `SelectionIsListed`, `ScreenCatchesUp` | 2 services, 2 forwards, 1 connection, 2 starts |

`fdpass` and `tui` check their modules' types as well; those of all modules are
theorems. Each property is stated in words above its definition.

**Why the bounds are enough.** The copies treat chunks alike, so two chunks over a pipe
of one tell first, last and in flight apart, and make a writer wait. The hazards of
ServeRoutes, Rules and KeyFile are between two actors; a third changes nothing that two
in succession do not. Three listener tasks let an address be bound, removed, and bound
again while the first still stops; no task differs from another, so the model takes them in one
order (`NextTask`). Rules' commands and services' targets are symmetric for the same reason,
and the run takes them so (MCRules has the bindings). Two calls make one wait for the other. With descriptors
3 to 5 in use or not, the socketpair lands on 3 and 4, on 3 and a later one, or beyond, so
that the relay's own end, ssh's end or neither is where the relay's end is dup'ed to.
Three clients let one be in a round that another fails while a third is in its
handshake; a connection that holds one signal makes the fan-out wait. Three daemons let one recover from a dead one while a
third starts. The retry policy is chosen so that the backoff reaches its cap and the
deadline cuts a sleep; `RetryProofs` covers all others. `MaxOpened`, `MaxQueued`, `MaxGen`, `Polls`
and the number of processes bound behaviours that the code leaves open; time
(`TotalTimeout + MaxLag`) is bounded by the loop itself.

**Fairness.** A task of the program that can go on does so (weak fairness of each of its
steps): the runtime is work-conserving and no step waits for a lock that is held for good.
A dial, a bind, an attempt with a timer end one way or the other. A close reaches the
other end, at the latest as its idle timeout. tokio's mutex is handed over in the order of
the calls, so the queue and not fairness says who is next. The accept loop of the control
socket has strong fairness of `Accept \/ Reject`: accept does not fail for ever when a
client waits. Nothing is assumed of apps, targets, remotes, ssh or users, except where a
property says so, as a hypothesis: `PeerFairness` (a program reads what it gets and ends
its side once it has read to the end) of `ClosedConnectionIsReleased` and
`ResponseReachesApp`; the remote's end of the response of `OrphanedRelayEnds`;
`ClientsRead` of `ToldOfEveryChange` and `ClientsFinish` of `ClientsAreServed`. In Tui,
`select!` picks its ready branches at random, so keys do not keep the tick out.

### What the violations show

- **RequestReachesTarget.** The client finishes the send half without waiting for
  delivery (`proxy.rs:391`) and closes the connection once the response has ended (299).
  If the target ends its side before it has read the whole request, the tail of the
  request is lost with no fault anywhere. `ResponseReachesApp`, the same claim of the
  other direction, holds: the server waits for the requester's close.
- **AbortedConnectionEnds.** `del-forward` aborts the connection's task; that detaches
  the down copy, which holds the stream, and the connection stays until the target ends
  the response. README.md:242 says that no tunnel keeps running.
- **AdvertisedAtRest.** Two concurrent calls set the ALPNs in the opposite order of their
  reads; the endpoint keeps the older list. `LoneCallRepairs` shows that the next call
  that meets no other repairs it, and `ServedIsAdvertised` that calls one at a time are safe.
- **ExitMeansNoServer.** Two commands at once each spawn a daemon. The one that loses the
  key lock exits, and its command fails although the other daemon is coming up.

### Limits that the models show and no property claims

- A target that speaks first is not dialled before the app writes: `accept_bi` waits for
  the stream, which shows up with the first byte (`StreamAnnounced`).
- `ServerIsReachable` needs `Overlap = FALSE`: daemons of *different* key files that
  start at the same moment can each take the other's fresh socket file for a stale one.
- `RunsWithItsFilesKey` excepts a server and a forward that generate a key for the same
  file at once: the two then run with different keys, one of which is in the file.
- A forward whose accept failed stays listed (`ListedIsNotStopped` allows "failed").
- Two commands that write the config at once lose an update (`stale`), and a rollback
  removes by name whatever rule has it by then (`crossed`).
- A removal confirmed in the TUI stops whatever forward has the address by then; only
  from the file does it remove no more than what is shown. It may remove less: the file has
  a remote as it was typed, the daemon lists it formatted anew (`service.rs:84-87`), and the
  removal compares the two letter by letter (`config.rs:206-210`). A remote typed otherwise
  stays in the file, and the TUI reports "runtime + config" all the same (`tui.rs:1117`).
- A peer that does not read holds up the signals of all the others, and the queue of
  reasons grows meanwhile (`ToldOfEveryChange` needs `ClientsRead`); a client that stays
  silent in its handshake holds up all that come after it (`ClientsAreServed` needs
  `ClientsFinish`): `control_plane.rs:314-353` and `374-412` wait for one at a time.
- A client is served some moments before it is registered (`control_plane.rs:343-346`). If
  it reads the state in between, it is not told of a change made before it is registered;
  `stale` and its properties are about registered peers.
- No client in `src/` subscribes to the signal: the TUI asks every 2 s (`tui.rs:646`), where
  the repository's README (line 153) speaks of event-driven updates from state signals and
  `main.rs:250` asks for a state stream. That it catches up is `ScreenCatchesUp`.
- In stdio mode a relay whose upload failed stays, with stdout open, until stdin is at its
  end (`StdinEnds`): `SshIsNotLeftWaiting` is about fdpass.
- Two addresses of one port, one removed at run time only and the other added with `-p`,
  leave a file the daemon does not start from (`mod.rs:85`).

## 4. What is proved

| Theorem | Module | Statement, for every value of the constants |
|---|---|---|
| `TypeCorrect`, `FdPassTypeCorrect` | RetryProofs (both), TunnelProofs, ServeRoutesProofs, ForwardsProofs, SignalsProofs, StartupProofs, RulesProofs, TuiProofs | `Spec => []TypeOK` |
| `DeadlineTheorem`, `VerdictTheorem`, `AttemptsTheorem` | RetryProofs | the deadline, the verdicts and the number of attempts |
| `BackoffTheorem` | RetryProofs | no attempt starts before the backoff documented for it is over |
| `RelayEndTheorem` | RetryProofs | the relay's descriptors |
| `ConnectIsRetry`, `RelayConnects` | RetryProofs | the composition connects as Retry does; so it keeps the deadline, the backoff and the verdicts |
| `NoCopyOutlivesCallTheorem` | TunnelProofs | no call returns and leaves its copy running |
| `CleanEndTheorem` | TunnelProofs | an orderly end is a complete stream |
| `ResponseRefines`, `RequestRefines` | TunnelProofs | both directions implement Channel |
| `UnknownTheorem`, `LoneTheorem` | ServeRoutesProofs | only a removed service is unknown to a server; a call that met no other leaves the ALPNs as they should be |
| `ListedTheorem`, `NoOrphanTheorem` | ForwardsProofs | what is listed was not stopped; what runs is listed, or about to be listed or stopped |
| `CallsRefine` | ForwardsProofs | the calls implement ForwardTable |
| `RemovedTheorem` | ForwardsProofs | what a removal that has returned leaves is about to end |
| `RegistryTheorem`, `EventsTheorem` | ForwardsProofs | the registry is its tasks', and the events account for its size |
| `SignalTheorem` | SignalsProofs | a registered peer that knows an older state has a signal on its way |
| `FilesKeyTheorem`, `SettledTheorem` | StartupProofs | a process runs with the key in its file; a key that nobody is writing stays |
| `ReachableTheorem` | StartupProofs | who serves has the socket, if daemons of different key files do not start at once |
| `IdentityTheorem` | StartupProofs | no two daemons have endpoints of one identity |
| `FileTheorem`, `PromisedTheorem`, `FlagTheorem` | RulesProofs | one rule for a name; promised rules are kept; what is listed as persisted is in the file |
| `LayoutsTheorem`, `SelectionTheorem` | TuiProofs | both layouts focus the same pane; each pane that is not empty has a listed entry selected |
| `RemoveIsForTheHighlighted` | TuiProofs | the remove key's dialog is for the entry at the selection, in the pane in focus |

*Assumptions*: `PolicyAssumption` (the policy's numbers are naturals), `FdAssumption` (there
are descriptors up to 5), `CapAssumption` and `TunnelAssumption` (a pipe holds at least one
chunk; bounds are naturals), `ServeAssumption` (no target is the mark of an absent route),
`ForwardsAssumption` (connections are finitely many at a time; `None` names nothing),
`SignalsAssumption` (a connection holds at least one signal; `None` is no peer),
`StartupAssumption` (there is a key file; daemons are numbers, forwards are not daemons and
neither is a mark of a file), `RulesAssumption` (names of services and addresses of listeners
are apart; a remote typed as the daemon lists it is listed as it was typed) and `TuiAssumption` (lists are finite and sorted by numbers; the daemon starts at
least once: it may run when the TUI opens). TLC evaluates them in the runs.

**Retry.** `RetryInv` adds to the types that an attempt under way has started before the
deadline and that a sleep ends by it: `wake = failedAt + sleepFor`, `sleepFor <= backoff`,
and a shorter sleep ends exactly at the deadline. That is what makes a wake after a cut
sleep a timeout and not an early attempt; `DeadlineHonoured` alone is not inductive.
`BackoffInv` says that what the loop doubles and caps is what is documented: the initial
backoff times a power of two, capped. That a power of two doubles with its exponent is had
from the library's count of a set's subsets (`PowerDoubles`), without an induction; that to
double what was capped and cap it again is to cap the power is `BackoffFollows`.

**FdPass.** `TableInv` adds to the property what makes the exec safe: until the parent
spawns, whatever it holds beyond the standard descriptors is to close on exec. With that
the relay is left with what `dup2` put on descriptor 3, wherever the pair landed.
`ConnectIsRetry` is a step simulation: every other action leaves Retry's variables alone,
and so Retry's invariants are invariants of the composition (`RelayConnects`). The types
need that there is room: the last two descriptors are free until the parent opens the pair
(`RoomInv`), and a lowest free one exists where one is free (`LowestIsFree`).

**Tunnel.** `TunnelInv` has four parts. `Conserved`: each copy put into its output exactly
what it took from its input. `UpCopies` and `DownCopies`: a copy that came to its end has
taken everything from a writer that is done, and its output was open until then. `Phases`:
the handlers' phases fit their calls. A clean end is then complete by a chain of equalities
from `tgtOut.sent` to `appIn.sent`; without `Conserved` the middle of the chain is open.
The refinements are proved step by step: every action of Tunnel maps to one of Channel or
changes nothing it sees (`RespView`, `ReqView`), with the invariant for the step that ends
a stream.

**ServeRoutes.** `OnlyKnown` says that whatever the endpoint advertises, a call has read or
a handshake has agreed on is a service that is served or was removed; `UnknownOnlyIfRemoved`
needs it for the handshakes that are still to be looked up. `LoneReadIsFresh` says that what
a call read is still the served set while no other call is under way; every other action is
then excluded or leaves both alone until `SetAlpns`, which gives `LoneCallRepairs`.

**Forwards.** Two invariants that need each other's types only. `MapInv`: a call that adds
has the mutex and finds its address free until it inserts (`CallsInv`); a call's task is a
listener that is in no other hands and not in the map (`TasksInv`). So an abort after the
mutex is released cannot hit a listener that was listed meanwhile. `RegistryInv`: the
registered tasks have ids below the next one, each its own, and the entries are these ids
(`IdsInv`), so that a guard removes its own entry, and each event goes with one change of
a set's size. `CallsRefine` rests on `MapInv`: each step of a call is one of ForwardTable's
or is not seen there (`ControlTable`), and the one that inserts finds its address free and
its listener unlisted because of `CallsInv` and `TasksInv`. No step of a listener's or a
connection's task is seen. `RemovedTheorem` is what of `RemovedForwardEnds` is safety: a
listener that was removed was told to stop, is in nobody's hands and so never listed again
(`RemovedInv`), and a connection's task is told to stop exactly when its listener's task is
gone (`ToldInv`). That the aborts then take effect is left to the run.

**Signals.** `SignalOnItsWay` is not inductive: a round that failed a peer takes it out of
the map, and a signal in a connection counts only while the client lives. `ServedInv` adds
that a peer which a round has failed is gone, and that a stale peer is registered and
live; `BacklogInv`, that a client waits in the backlog once, so that accepting it again
cannot take a served connection back to its handshake.

**Startup.** `KeyInv` has a part for each reason: the lock leaves one daemon at a file
(`LockInv`), `create_new` one forward that generates (`MakerInv`), and a key in a file is
that of the process that generated it (`FilesInv`). A write therefore replaces no key but
one of the other kind of process, and then both have generated, which is the exception
that the property makes (`Both`). `SocketInv` uses the lock once more: daemons that start
together share a key file, so one of them is past its lock; it unlinks and binds while
nobody serves, and has the path until it does. `IdentityIsUnique` needs
to know more of keys than what the files hold now, because a forward may have written over
a daemon's: every key was generated for the file of the process that has it (`OriginInv`).
The same key is then one for the same file, whose lock one daemon holds; daemons of different
key files may start at once. `ReachableTheorem` has `Overlap = FALSE` as its hypothesis,
because without it the claim is false (see the limits above).

**Rules.** `ReadsAreSound` strengthens the file's invariant to what commands hold: a file
that was read has unique names, and a command about to add a name has read a file without
it. A replacement is then sound whatever happened to the file in between. `PromisedIsKept`
needs that the TUI removes forwards only (`RemovalsAreOfForwards`): only a replacement takes
a rule out of the file, and one that is not stale takes out no more than it reports, because
a remote that is typed as the daemon lists another is listed so itself. `FlagInv` is about commands one at a time
(`OneMidway`, which is what `~crossed` comes to): the file that a command has read is then
still the one it replaces, the name it removes is not live, and a live rule that is listed
as persisted is in the file or in the hands of the command that adds it (`FlagsCovered`).

**Tui.** `TuiInv` is the types with the two properties: the selections follow from no other
part of the state, since whatever replaces a list clamps the selection to it, but the keys
that move a selection need that it was in its list, and those that remove need the focus to
be the compact layout's as well. That the dialog is for the highlighted entry rests on
`EntryAt`: a finite list has an entry at each of its positions. It is shown for the least
position without one, which has an entry next to that of the position before it.

Inductions are had from the well-founded order of the naturals (`LowestIsFree`, `LeastOf`):
the library's theorems on it take sets and no operators, which the provers can instantiate.

**Model-checked only**: everything about liveness (`UploadEndBoundsCall`,
`ClosedConnectionIsReleased`, `ResponseReachesApp`, `OrphanedRelayEnds`,
`SshIsNotLeftWaiting`, `ServedIsAdvertised`, `RemovedForwardEnds`, `EveryCallReturns`,
`ToldOfEveryChange`, `GonePeersAreForgotten`, `ClientsAreServed`, `SomeServerComesUp`,
`ScreenCatchesUp`: the prover does not reason about ENABLED). Every other property of the
passing runs is a theorem.

## 5. What is left out

Cryptography, discovery and QUIC itself (streams, closes and idle timeouts are external
definitions); logging and diagnostics; parsing and validation; the exact durations of
polls and timeouts outside Retry; permissions of files; the config's replacement on
Windows, which removes the old file first; text entry and drawing in the TUI; and the
components marked *not modelled* above.

## 6. Plan

1. *Done*: Retry, Pump and Tunnel with Channel (the data path first), FdPass, ServeRoutes,
   Forwards with ForwardTable, Signals, Startup over KeyFile and ControlSocket, Rules, Tui;
   proofs of all of them.
2. Prove more: what the commands leave in the config file, against an abstract table of
   rules, as for the forwards.
3. Left to the code: the Windows replacement of the config, for which nothing in the
   repository says what a crash in it should leave.
