------------------------------ MODULE Startup ------------------------------
(***************************************************************************)
(* How daemons come up, and go, beside each other: `iroh-proxy server`     *)
(* (src/main.rs, run_server of src/daemon/mod.rs), the add-* commands and  *)
(* the TUI, which start a daemon when none answers (ensure_server_running  *)
(* of src/main.rs, start_backend of src/tui.rs), and `forward --key-file`  *)
(* processes that share a key file with them.                              *)
(*                                                                         *)
(* The key files and the control socket, all that these processes share,   *)
(* are the modules KeyFile and ControlSocket.                              *)
(***************************************************************************)
EXTENDS Naturals, FiniteSets

CONSTANTS
    Daemons,                \* processes, numbered in the order they start
    Forwarders,             \* processes, each started at most once
    Commands,               \* add-* commands or TUIs
    KeyFiles,
    Polls,                  \* how often a command polls for its daemon
    Overlap,                \* daemons of different key files may start at once
    Disturbed,              \* processes may be stopped, killed, or fail to start
    NoFile, Empty

ASSUME StartupAssumption ==
    /\ Daemons \subseteq Nat
    /\ KeyFiles # {}
    /\ Polls \in Nat \ {0}
    /\ Overlap \in BOOLEAN
    /\ Disturbed \in BOOLEAN
    /\ Daemons \cap Forwarders = {}
    /\ NoFile \notin Daemons \cup Forwarders \cup {Empty}
    /\ Empty \notin Daemons \cup Forwarders

VARIABLES
    phase, keyOf, key, keyFile,     \* see KeyFile
    path,                           \* see ControlSocket
    command,    \* each command's progress
    calm        \* history: nothing was stopped, crashed or failed since a
                \* daemon was last started with no other alive

K == INSTANCE KeyFile
P == INSTANCE ControlSocket

processVars == <<phase, keyOf, key, keyFile, path>>
startupVars == <<processVars, command, calm>>

CommandSteps ==
    [step: {"idle", "connected", "exited", "timedOut"}]
    \cup [step: {"polling"}, child: Daemons, polls: 0 .. Polls - 1]

Alive(d) == phase[d] \in K!DaemonLives
Starting(d) == phase[d] \in K!DaemonStarts
Serving(d) == phase[d] = "serving"

Init ==
    /\ phase = [p \in K!Procs |-> "new"]
    /\ keyOf \in [K!Procs -> {CHOOSE k \in KeyFiles : TRUE}]
    /\ key = [p \in K!Procs |-> Empty]
    /\ keyFile = [k \in KeyFiles |-> NoFile]
    /\ path = NoFile
    /\ command = [c \in Commands |-> [step |-> "idle"]]
    /\ calm = TRUE
----------------------------------------------------------------------------
(* Processes                                                               *)

\* A server process begins, for the key file k.
Launch(d, k) ==
    /\ phase[d] = "new"
    /\ \A e \in Daemons : e < d => phase[e] # "new"
    /\ Overlap \/ \A e \in Daemons : Starting(e) => keyOf[e] = k
    /\ phase' = [phase EXCEPT ![d] = "locking"]
    /\ keyOf' = [keyOf EXCEPT ![d] = k]
    /\ calm' = (calm \/ \A e \in Daemons : ~Alive(e))
    /\ UNCHANGED <<key, keyFile, path>>

RunServer(d, k) == Launch(d, k) /\ UNCHANGED command

RunForward(f, k) ==
    /\ phase[f] = "new"
    /\ phase' = [phase EXCEPT ![f] = "reading"]
    /\ keyOf' = [keyOf EXCEPT ![f] = k]
    /\ UNCHANGED <<key, keyFile, path, command, calm>>

ServeKey(d) ==
    /\ K!LockKey(d) \/ K!LockLost(d) \/ K!ReadServeKey(d) \/ K!WriteServeKey(d)
    /\ UNCHANGED <<path, command, calm>>

ForwardKey(f) ==
    /\ K!ReadForwardKey(f) \/ K!CreateForwardKey(f) \/ K!WriteForwardKey(f)
    /\ UNCHANGED <<path, command, calm>>

\* The endpoint is bound and, after 20s at most, taken for online; routes and
\* forwards of the config are set up.
Online(d) ==
    /\ phase[d] = "online"
    /\ phase' = [phase EXCEPT ![d] = "binding"]
    /\ UNCHANGED <<keyOf, key, keyFile, path, command, calm>>

\* The config is invalid, or one of its forwards cannot listen.
StartFails(d) ==
    /\ Disturbed
    /\ phase[d] = "online"
    /\ phase' = [phase EXCEPT ![d] = "ended"]
    /\ calm' = FALSE
    /\ UNCHANGED <<keyOf, key, keyFile, path, command>>

Socket(d) ==
    /\ \/ P!Bind(d) \/ P!Probe(d) \/ P!Unlink(d) \/ P!Rebind(d) \/ P!Listen(d)
       \/ P!Exit(d)
    /\ UNCHANGED <<keyOf, key, keyFile, command, calm>>

Stop(d) ==
    /\ Disturbed
    /\ P!Stop(d)
    /\ calm' = FALSE
    /\ UNCHANGED <<keyOf, key, keyFile, command>>

\* A process is killed between any two steps: its lock goes, its files stay.  (A
\* forward that has its key does not touch anything here any more.)
Crash(p) ==
    /\ Disturbed
    /\ phase[p] \notin {"new", "ended", "forwarding"}
    /\ phase' = [phase EXCEPT ![p] = "ended"]
    /\ calm' = FALSE
    /\ UNCHANGED <<keyOf, key, keyFile, path, command>>
----------------------------------------------------------------------------
(* Commands: ensure_server_running                                         *)

CommandIs(c, progress) == command' = [command EXCEPT ![c] = progress]

FindsServer(c) ==
    /\ command[c].step = "idle"
    /\ P!Answered
    /\ CommandIs(c, [step |-> "connected"])
    /\ UNCHANGED <<processVars, calm>>

SpawnsServer(c, d, k) ==
    /\ command[c].step = "idle"
    /\ ~P!Answered
    /\ Launch(d, k)
    /\ CommandIs(c, [step |-> "polling", child |-> d, polls |-> 0])

\* A poll looks for any daemon first, then whether its own is still there.
PollServer(c) ==
    /\ command[c].step = "polling"
    /\ LET polled == command[c].polls + 1
       IN  CommandIs(c,
            IF P!Answered THEN [step |-> "connected"]
            ELSE IF phase[command[c].child] = "ended" THEN [step |-> "exited"]
            ELSE IF polled = Polls THEN [step |-> "timedOut"]
            ELSE [command[c] EXCEPT !.polls = polled])
    /\ UNCHANGED <<processVars, calm>>
----------------------------------------------------------------------------
DaemonStep(d) == ServeKey(d) \/ Online(d) \/ StartFails(d) \/ Socket(d)

Next ==
    \/ \E d \in Daemons, k \in KeyFiles :
          RunServer(d, k) \/ \E c \in Commands : SpawnsServer(c, d, k)
    \/ \E f \in Forwarders, k \in KeyFiles : RunForward(f, k)
    \/ \E d \in Daemons : DaemonStep(d) \/ Stop(d)
    \/ \E f \in Forwarders : ForwardKey(f)
    \/ \E p \in K!Procs : Crash(p)
    \/ \E c \in Commands : FindsServer(c) \/ PollServer(c)

\* Processes run until they end; nobody has to start or to stop one.
Fairness ==
    /\ \A d \in Daemons : WF_startupVars(DaemonStep(d))
    /\ \A c \in Commands : WF_startupVars(PollServer(c))

Spec == Init /\ [][Next]_startupVars /\ Fairness
----------------------------------------------------------------------------
TypeOK ==
    /\ phase \in [K!Procs -> K!Phases]
    /\ keyOf \in [K!Procs -> KeyFiles]
    /\ key \in [K!Procs -> K!Procs \cup {Empty}]
    /\ keyFile \in [KeyFiles -> K!Procs \cup {NoFile, Empty}]
    /\ path \in Daemons \cup {NoFile}
    /\ command \in [Commands -> CommandSteps]
    /\ calm \in BOOLEAN

\* A daemon that serves can be reached: through stale files, crashes and
\* shutdowns, no daemon takes the socket of another away, be it in its cleanup
\* (control_plane.rs:103-117) or in its recovery from a stale file (226-271).
\* So there is at most one.  Where daemons start at the same time, it is the
\* lock on their key file that keeps them apart.
ServerIsReachable == \A d \in Daemons : Serving(d) => path = d

\* A key file that holds a key nobody is writing keeps it for good, through
\* every order of starts and crashes (keys.rs:25-60, 89-114).
Settled(k) ==
    /\ keyFile[k] \in K!Procs
    /\ \A p \in K!Procs : keyOf[p] = k => phase[p] # "writing"
SettledKeyStays ==
    [][\A k \in KeyFiles : Settled(k) => Settled(k)' /\ keyFile'[k] = keyFile[k]]_startupVars

\* Every process runs with the key in its file, and so with the identity it has
\* after a restart, unless a server and a forward generated one at the same time
\* (keys.rs:42-59, 97-108).
Runs(p) == phase[p] \in K!Phases \ {"new", "writing", "creating", "ended"}
Generates(p) == key[p] = p \/ phase[p] = "writing"
RunsWithItsFilesKey ==
    \A p \in K!Procs :
        Runs(p) /\ key[p] # Empty =>
            \/ key[p] = K!Content(p)
            \/ \E f \in Forwarders, d \in Daemons :
                  keyOf[f] = keyOf[p] /\ keyOf[d] = keyOf[p] /\ Generates(f) /\ Generates(d)

\* Two daemons never have an endpoint of the same identity, whatever files they
\* were given: not by a race for an empty file, nor through a forward that writes a
\* key of its own over a daemon's, nor by a start before the last one of the file
\* has ended (keys.rs:137-141, "another iroh-proxy server may already be running").
HasEndpoint(d) == Alive(d) /\ phase[d] \notin {"locking", "reading", "writing"}
IdentityIsUnique ==
    \A d, e \in Daemons :
        HasEndpoint(d) /\ HasEndpoint(e) /\ key[d] = key[e] => d = e

\* Daemons that start at the same time, or after a crash, never all give way to
\* each other or to what is left of a dead one (keys.rs:131-137,
\* control_plane.rs:226-271).
SomeServerComesUp ==
    \A d \in Daemons :
        Starting(d) /\ calm ~> ~calm \/ \E e \in Daemons : Serving(e)

\* A command that reports that its server exited while starting leaves no server
\* that is up, or coming up (main.rs:94-99; README.md:176, "If the server is not
\* running, `add-serve` starts it in the background").
ExitMeansNoServer ==
    \A c \in Commands : command[c].step = "exited" =>
        \A d \in Daemons : ~Starting(d) /\ ~Serving(d)
============================================================================
