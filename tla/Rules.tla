------------------------------- MODULE Rules -------------------------------
(***************************************************************************)
(* Rules at run time and in the config file.  A daemon (run_server) holds  *)
(* the live serve routes and forwards; the file holds the persistent ones. *)
(* The commands, not the daemon, write the file: `add-serve -p`,           *)
(* `add-forward -p` and the TUI's dialogs first call the daemon and then   *)
(* load, change and replace the file (src/config.rs), taking the live rule *)
(* back when that fails (src/main.rs, src/tui.rs).  Nothing locks the file *)
(* between a load and the replacement, a command may be killed between any *)
(* two steps, and the daemon may stop and start at any time.               *)
(*                                                                         *)
(* Calls that the daemon refuses change nothing and are left out.          *)
(***************************************************************************)
EXTENDS Naturals

CONSTANTS
    Serves, Forwards,   \* the names of services, the addresses of listeners
    Targets,            \* what services lead to
    Bindings,           \* what forwards lead to: a remote as it was typed, and a timeout
    Remote, Shown,      \* a binding's remote as typed, and as the daemon lists it
    Commands            \* processes that run commands, one after the other

Names == Serves \cup Forwards

\* The daemon lists what it has parsed, formatted anew.  Remotes of one peer may be
\* typed differently; one typed as it is listed is listed as it was typed.
ASSUME RulesAssumption ==
    /\ Serves \cap Forwards = {}
    /\ \A t, u \in Bindings : Remote[t] = Shown[u] => Shown[t] = Shown[u]

VARIABLES
    daemon,     \* "down", "loaded" (it has read the file) or "up"
    image,      \* the file as the daemon read it
    live,       \* the running daemon's rules
    file,       \* the config file's; a missing file is an empty one
    cmd,        \* what each command is doing
    promised,   \* history: rules reported persistent and not removed since
    stale,      \* history: a command replaced a file it had not read
    crossed     \* history: since the daemon read the file, commands overlapped or one was killed

vars == <<daemon, image, live, file, cmd, promised, stale, crossed>>

Rule == [name: Serves, target: Targets] \cup [name: Forwards, target: Bindings]

\* A live forward is told apart by the rule it was made from; of its remote the daemon
\* lists what it is Shown as.
LiveRule == {[name |-> r.name, target |-> r.target, persisted |-> b] : r \in Rule, b \in BOOLEAN}

Ops == {"add", "del", "remove"}     \* "remove" is the TUI's, of the rule it shows
Idle == [step |-> "idle"]
Working == [step: {"shown", "load", "rollback"}, op: Ops, rule: Rule]
Writing == [step: {"write"}, op: Ops, rule: Rule, read: SUBSET Rule]

IsLive(n) == \E e \in live : e.name = n
Drop(n) == {e \in live : e.name # n}
AsRule(e) == [name |-> e.name, target |-> e.target]

\* The command has changed the daemon's rules and is not done.
Midway(c) == cmd[c].step \in {"load", "write", "rollback"}
Overlaps(c) == \E d \in Commands \ {c} : Midway(d)

Init ==
    /\ daemon = "down" /\ image = {} /\ live = {} /\ file = {}
    /\ cmd = [c \in Commands |-> Idle]
    /\ promised = {} /\ stale = FALSE /\ crossed = FALSE
----------------------------------------------------------------------------
(* The daemon                                                              *)

LoadConfig ==
    /\ daemon = "down"
    /\ daemon' = "loaded"
    /\ image' = file
    /\ crossed' = (\E c \in Commands : Midway(c))
    /\ UNCHANGED <<live, file, cmd, promised, stale>>

\* A forward of the file is listed as persisted; a route has no such flag.
Listed(r) == [name |-> r.name, target |-> r.target, persisted |-> r.name \in Forwards]

Serve ==
    /\ daemon = "loaded"
    /\ daemon' = "up"
    /\ live' = {Listed(r) : r \in image}
    /\ image' = {}
    /\ UNCHANGED <<file, cmd, promised, stale, crossed>>

\* It stops; or it exits while starting, for one listener it cannot bind.
Stop ==
    /\ daemon # "down"
    /\ daemon' = "down"
    /\ image' = {}
    /\ live' = {}
    /\ UNCHANGED <<file, cmd, promised, stale, crossed>>
----------------------------------------------------------------------------
(* Adding a rule                                                           *)

CallAdd(c, r, persist) ==
    /\ cmd[c] = Idle
    /\ daemon = "up"
    /\ ~IsLive(r.name)
    /\ live' = live \cup {[name |-> r.name, target |-> r.target,
                           persisted |-> persist /\ r.name \in Forwards]}
    /\ cmd' = IF persist
              THEN [cmd EXCEPT ![c] = [step |-> "load", op |-> "add", rule |-> r]]
              ELSE cmd
    /\ crossed' = (crossed \/ Overlaps(c))
    /\ UNCHANGED <<daemon, image, file, promised, stale>>

\* The check looks for the same rule.
ClashesWhole(r, f) == r \in f

\* The check of add_persistent_*_rule is by name: the same rule is fine, another
\* of its name an error, if only its timeout or the typing of its remote differs.
Clashes(r, f) == \E e \in f : e.name = r.name

LoadToAdd(c) ==
    /\ cmd[c].step = "load"
    /\ cmd[c].op = "add"
    /\ LET r == cmd[c].rule IN
        \/ /\ r \in file
           /\ cmd' = [cmd EXCEPT ![c] = Idle]
           /\ promised' = promised \cup {r}
        \/ /\ ~Clashes(r, file)
           /\ cmd' = [cmd EXCEPT ![c] =
                [step |-> "write", op |-> "add", rule |-> r, read |-> file]]
           /\ UNCHANGED promised
        \/ /\ Clashes(r, file)
           /\ r \notin file
           /\ cmd' = [cmd EXCEPT ![c] = [step |-> "rollback", op |-> "add", rule |-> r]]
           /\ UNCHANGED promised
    /\ UNCHANGED <<daemon, image, live, file, stale, crossed>>

\* The error is reported, and the live rule kept.
AddFailsOnly(c) ==
    /\ cmd[c].step \in {"load", "write"}
    /\ cmd[c].op = "add"
    /\ cmd' = [cmd EXCEPT ![c] = Idle]
    /\ UNCHANGED <<daemon, image, live, file, promised, stale, crossed>>

\* The file cannot be read, or its replacement not written.
AddFails(c) ==
    /\ cmd[c].step \in {"load", "write"}
    /\ cmd[c].op = "add"
    /\ cmd' = [cmd EXCEPT ![c] = [step |-> "rollback", op |-> "add", rule |-> cmd[c].rule]]
    /\ UNCHANGED <<daemon, image, live, file, promised, stale, crossed>>

\* Takes the live rule of that name back, whoever added it; a call to a daemon
\* that is gone fails, as the command does.
Rollback(c) ==
    /\ cmd[c].step = "rollback"
    /\ live' = Drop(cmd[c].rule.name)
    /\ cmd' = [cmd EXCEPT ![c] = Idle]
    /\ UNCHANGED <<daemon, image, file, promised, stale, crossed>>
----------------------------------------------------------------------------
(* Removing a rule                                                         *)

\* Both commands call the daemon with the name alone; only a forward can be
\* removed from the file too.
CallDel(c, e, persist) ==
    /\ cmd[c] = Idle
    /\ e \in live
    /\ persist => e.name \in Forwards
    /\ live' = Drop(e.name)
    /\ cmd' = IF persist
              THEN [cmd EXCEPT ![c] = [step |-> "load", op |-> "del", rule |-> AsRule(e)]]
              ELSE cmd
    /\ crossed' = (crossed \/ Overlaps(c))
    /\ UNCHANGED <<daemon, image, file, promised, stale>>

\* The TUI's dialog has the address and the remote of a forward as the daemon listed
\* it, Shown[e.target], and keeps them.
TuiShows(c, e) ==
    /\ cmd[c] = Idle
    /\ e \in live
    /\ e.name \in Forwards
    /\ cmd' = [cmd EXCEPT ![c] = [step |-> "shown", op |-> "remove", rule |-> AsRule(e)]]
    /\ UNCHANGED <<daemon, image, live, file, promised, stale, crossed>>

TuiConfirms(c, persist) ==
    /\ cmd[c].step = "shown"
    /\ \/ /\ IsLive(cmd[c].rule.name)
          /\ live' = Drop(cmd[c].rule.name)
          /\ cmd' = [cmd EXCEPT ![c] = IF persist THEN [cmd[c] EXCEPT !.step = "load"] ELSE Idle]
          /\ crossed' = (crossed \/ Overlaps(c))
       \/ /\ ~IsLive(cmd[c].rule.name)
          /\ cmd' = [cmd EXCEPT ![c] = Idle]
          /\ UNCHANGED <<live, crossed>>
    /\ UNCHANGED <<daemon, image, file, promised, stale>>

\* Both remove what has the address.
MatchesName(op, r, e) == e.name = r.name

\* `del-forward -p` removes what has the address, the TUI what has the remote it
\* shows as well, letter by letter and with whatever timeout.
Matches(op, r, e) ==
    /\ e.name = r.name
    /\ op = "remove" => Remote[e.target] = Shown[r.target]

\* What a command reports removed from the config: the rule that the TUI shows.
Reported(op, r, e) ==
    /\ e.name = r.name
    /\ op = "remove" => Shown[e.target] = Shown[r.target]

StillPromised(k) == {r \in promised : ~Reported(k.op, k.rule, r)}

\* Where nothing matches, the TUI reports the removal all the same.
LoadToRemove(c) ==
    /\ cmd[c].step = "load"
    /\ cmd[c].op # "add"
    /\ \/ /\ \E e \in file : Matches(cmd[c].op, cmd[c].rule, e)
          /\ cmd' = [cmd EXCEPT ![c] =
                [step |-> "write", op |-> cmd[c].op, rule |-> cmd[c].rule, read |-> file]]
          /\ UNCHANGED promised
       \/ /\ ~\E e \in file : Matches(cmd[c].op, cmd[c].rule, e)
          /\ cmd' = [cmd EXCEPT ![c] = Idle]
          /\ promised' = IF cmd[c].op = "remove" THEN StillPromised(cmd[c]) ELSE promised
    /\ UNCHANGED <<daemon, image, live, file, stale, crossed>>

RemoveFails(c) ==
    /\ cmd[c].step \in {"load", "write"}
    /\ cmd[c].op # "add"
    /\ cmd' = [cmd EXCEPT ![c] = Idle]
    /\ UNCHANGED <<daemon, image, live, file, promised, stale, crossed>>
----------------------------------------------------------------------------
(* Both                                                                    *)

\* What write_config makes of the file that was read.
Changed(k) ==
    IF k.op = "add" THEN k.read \cup {k.rule}
    ELSE {e \in k.read : ~Matches(k.op, k.rule, e)}

\* What the command then reports persistent, or removed from the config.
Promised(k) == IF k.op = "add" THEN promised \cup {k.rule} ELSE StillPromised(k)

\* rename replaces the file in one step.
Replace(c) ==
    /\ cmd[c].step = "write"
    /\ file' = Changed(cmd[c])
    /\ promised' = Promised(cmd[c])
    /\ stale' = (stale \/ cmd[c].read # file)
    /\ cmd' = [cmd EXCEPT ![c] = Idle]
    /\ UNCHANGED <<daemon, image, live, crossed>>

\* The command's process ends between two steps; what its temporary file holds
\* is never read.
Killed(c) ==
    /\ Midway(c)
    /\ cmd' = [cmd EXCEPT ![c] = Idle]
    /\ crossed' = TRUE
    /\ UNCHANGED <<daemon, image, live, file, promised, stale>>

Add(c) ==
    \/ \E r \in Rule, persist \in BOOLEAN : CallAdd(c, r, persist)
    \/ LoadToAdd(c) \/ AddFails(c) \/ Rollback(c)

Remove(c) ==
    \/ \E e \in live :
            TuiShows(c, e) \/ \E persist \in BOOLEAN : CallDel(c, e, persist)
    \/ \E persist \in BOOLEAN : TuiConfirms(c, persist)
    \/ LoadToRemove(c) \/ RemoveFails(c)

Next ==
    \/ LoadConfig \/ Serve \/ Stop
    \/ \E c \in Commands : Add(c) \/ Remove(c) \/ Replace(c) \/ Killed(c)

Spec == Init /\ [][Next]_vars
----------------------------------------------------------------------------
TypeOK ==
    /\ daemon \in {"down", "loaded", "up"}
    /\ image \subseteq Rule /\ file \subseteq Rule /\ promised \subseteq Rule
    /\ live \subseteq LiveRule
    /\ cmd \in [Commands -> {Idle} \cup Working \cup Writing]
    /\ stale \in BOOLEAN /\ crossed \in BOOLEAN

\* A rule that a command reported persistent stays in the file until one reports
\* its removal, through failed and killed commands and restarts, unless a command
\* replaced a file that another had changed since it was read (config.rs:137-160,
\* 176-203, 206-236).  The TUI in particular removes only what it shows.
PromisedIsKept == ~stale => promised \subseteq file

\* The file never has two rules of one name, not even when commands overlap: the
\* daemon refuses the second of them and does not start at all (mod.rs:54-56, 85,
\* routes.rs:34, forwards.rs:40).
FileNamesEachRuleOnce ==
    \A r, s \in file : r.name = s.name => r = s

\* What the daemon lists as persisted (ListForwards, the TUI) is in the file when
\* no command is under way, unless since its start commands overlapped or one was
\* killed: a persisted add that fails takes the live rule back (main.rs:272-292).
PersistedFlagIsTrue ==
    ~crossed /\ (\A c \in Commands : ~Midway(c)) =>
        \A e \in live : e.persisted => AsRule(e) \in file
============================================================================
