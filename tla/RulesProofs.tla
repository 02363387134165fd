---------------------------- MODULE RulesProofs ----------------------------
(***************************************************************************)
(* The config file of module Rules, for any number of rules, targets and   *)
(* commands: it keeps the types of the state, has one rule for a name, and *)
(* keeps what was promised; and the daemon's flags tell what is in it.     *)
(***************************************************************************)
EXTENDS Rules, TLAPS

\* A command with a file to write has read one with unique names, which does not
\* have the name it is going to add.
ReadIsSound(k) ==
    /\ \A r, s \in k.read : r.name = s.name => r = s
    /\ k.op = "add" => ~Clashes(k.rule, k.read)

ReadsAreSound == \A c \in Commands : cmd[c].step = "write" => ReadIsSound(cmd[c])

\* The TUI removes forwards only.
RemovesForward(k) == k.step # "idle" /\ k.op = "remove" => k.rule.name \in Forwards
RemovalsAreOfForwards == \A c \in Commands : RemovesForward(cmd[c])

FileInv == TypeOK /\ FileNamesEachRuleOnce /\ ReadsAreSound /\ RemovalsAreOfForwards

\* What a command's record holds at each of its steps.
LEMMA CmdShapes ==
    ASSUME TypeOK, NEW c \in Commands
    PROVE  /\ cmd[c].step \in {"load", "shown", "rollback"} => cmd[c] \in Working
           /\ cmd[c].step = "write" => cmd[c] \in Writing
BY DEF TypeOK, Idle, Working, Writing

\* A rule that is listed is the rule, with a flag.
LEMMA RuleShapes ==
    /\ \A r \in Rule : [name |-> r.name, target |-> r.target] = r
    /\ \A r \in Rule, b \in BOOLEAN :
         [name |-> r.name, target |-> r.target, persisted |-> b] \in LiveRule
    /\ \A e \in LiveRule : AsRule(e) \in Rule
<1>1. \A r \in Rule : [name |-> r.name, target |-> r.target] = r
    BY DEF Rule
<1>2. ASSUME NEW e \in LiveRule PROVE AsRule(e) \in Rule
    <2>1. PICK r \in Rule, b \in BOOLEAN :
            e = [name |-> r.name, target |-> r.target, persisted |-> b]
        BY DEF LiveRule
    <2> QED BY <1>1, <2>1 DEF AsRule
<1> QED BY <1>1, <1>2 DEF LiveRule

----------------------------------------------------------------------------
LEMMA InitType == Init => TypeOK
BY DEF Init, TypeOK, Idle

LEMMA NextType == TypeOK /\ [Next]_vars => TypeOK'
<1> SUFFICES ASSUME TypeOK, [Next]_vars PROVE TypeOK'
    OBVIOUS
<1> USE DEF TypeOK
<1>1. CASE LoadConfig
    <2>1. crossed' \in BOOLEAN
        BY <1>1 DEF LoadConfig, Midway
    <2> QED BY <1>1, <2>1 DEF LoadConfig
<1>2. CASE Serve
    <2>1. ASSUME NEW r \in image PROVE Listed(r) \in LiveRule
        <3> DEFINE flag == r.name \in Forwards
        <3>1. flag \in BOOLEAN /\ r \in Rule
            BY <2>1
        <3> HIDE DEF flag
        <3> QED BY <3>1, RuleShapes DEF Listed, flag
    <2> QED BY <1>2, <2>1 DEF Serve
<1>3. CASE Stop
    BY <1>3 DEF Stop
<1>4. ASSUME NEW c \in Commands, Add(c) PROVE TypeOK'
    <2>1. ASSUME NEW r \in Rule, NEW persist \in BOOLEAN, CallAdd(c, r, persist)
          PROVE TypeOK'
        <3>1. crossed' \in BOOLEAN
            BY <2>1 DEF CallAdd, Overlaps, Midway
        <3>2. [step |-> "load", op |-> "add", rule |-> r] \in Working
            BY DEF Working, Ops
        <3>3. live' \subseteq LiveRule
            <4> DEFINE flag == persist /\ r.name \in Forwards
            <4>1. flag \in BOOLEAN
                OBVIOUS
            <4> HIDE DEF flag
            <4>2. [name |-> r.name, target |-> r.target, persisted |-> flag] \in LiveRule
                BY <4>1, RuleShapes
            <4> QED BY <2>1, <4>2 DEF CallAdd, flag
        <3> QED BY <2>1, <3>1, <3>2, <3>3 DEF CallAdd
    <2>2. CASE LoadToAdd(c)
        <3>1. cmd[c].rule \in Rule /\ cmd[c].op = "add"
            BY <2>2, CmdShapes DEF LoadToAdd, Working
        <3>2. [step |-> "write", op |-> "add", rule |-> cmd[c].rule, read |-> file] \in Writing
            BY <3>1 DEF Writing, Ops
        <3>3. [step |-> "rollback", op |-> "add", rule |-> cmd[c].rule] \in Working
            BY <3>1 DEF Working, Ops
        <3> QED BY <2>2, <3>1, <3>2, <3>3 DEF LoadToAdd
    <2>3. CASE AddFails(c)
        <3>1. cmd[c].rule \in Rule
            BY <2>3, CmdShapes DEF AddFails, Working, Writing
        <3>2. [step |-> "rollback", op |-> "add", rule |-> cmd[c].rule] \in Working
            BY <3>1 DEF Working, Ops
        <3> QED BY <2>3, <3>2 DEF AddFails
    <2>4. CASE Rollback(c)
        BY <2>4 DEF Rollback, Drop
    <2> QED BY <1>4, <2>1, <2>2, <2>3, <2>4 DEF Add
<1>5. ASSUME NEW c \in Commands, Remove(c) PROVE TypeOK'
    <2>1. ASSUME NEW e \in live, TuiShows(c, e) PROVE TypeOK'
        <3>1. [step |-> "shown", op |-> "remove", rule |-> AsRule(e)] \in Working
            BY RuleShapes DEF Working, Ops
        <3> QED BY <2>1, <3>1 DEF TuiShows
    <2>2. ASSUME NEW e \in live, NEW persist \in BOOLEAN, CallDel(c, e, persist)
          PROVE TypeOK'
        <3>1. crossed' \in BOOLEAN
            BY <2>2 DEF CallDel, Overlaps, Midway
        <3>2. [step |-> "load", op |-> "del", rule |-> AsRule(e)] \in Working
            BY RuleShapes DEF Working, Ops
        <3>3. live' \subseteq LiveRule
            BY <2>2 DEF CallDel, Drop
        <3> QED BY <2>2, <3>1, <3>2, <3>3 DEF CallDel
    <2>3. ASSUME NEW persist \in BOOLEAN, TuiConfirms(c, persist) PROVE TypeOK'
        <3>1. crossed' \in BOOLEAN
            BY <2>3 DEF TuiConfirms, Overlaps, Midway
        <3>2. [cmd[c] EXCEPT !.step = "load"] \in Working
            BY <2>3, CmdShapes DEF TuiConfirms, Working
        <3>3. live' \subseteq LiveRule
            BY <2>3 DEF TuiConfirms, Drop
        <3> QED BY <2>3, <3>1, <3>2, <3>3 DEF TuiConfirms
    <2>4. CASE LoadToRemove(c)
        <3>1. [step |-> "write", op |-> cmd[c].op, rule |-> cmd[c].rule, read |-> file] \in Writing
            BY <2>4, CmdShapes DEF LoadToRemove, Working, Writing
        <3> QED BY <2>4, <3>1 DEF LoadToRemove, StillPromised
    <2>5. CASE RemoveFails(c)
        BY <2>5 DEF RemoveFails
    <2> QED BY <1>5, <2>1, <2>2, <2>3, <2>4, <2>5 DEF Remove
<1>6. ASSUME NEW c \in Commands, Replace(c) PROVE TypeOK'
    <2>1. cmd[c] \in Writing
        BY <1>6, CmdShapes DEF Replace
    <2>2. Changed(cmd[c]) \subseteq Rule
        BY <2>1 DEF Changed, Writing
    <2>3. Promised(cmd[c]) \subseteq Rule
        BY <2>1 DEF Promised, StillPromised, Writing
    <2>4. stale' \in BOOLEAN
        BY <1>6 DEF Replace
    <2> QED BY <1>6, <2>2, <2>3, <2>4 DEF Replace
<1>7. ASSUME NEW c \in Commands, Killed(c) PROVE TypeOK'
    BY <1>7 DEF Killed
<1>8. CASE UNCHANGED vars
    BY <1>8 DEF vars
<1> QED BY <1>1, <1>2, <1>3, <1>4, <1>5, <1>6, <1>7, <1>8 DEF Next

\* The state of the daemon, the file and the commands keeps its type (run_server,
\* config.rs, the commands of main.rs and tui.rs).
THEOREM TypeCorrect == Spec => []TypeOK
BY InitType, NextType, PTL DEF Spec
----------------------------------------------------------------------------
\* A command's step, seen from the file: its record becomes k, nothing else
\* changes, a record that is to be written holds a sound read, and a removal of the
\* TUI's is a forward's.
FileStep(c, k) ==
    /\ UNCHANGED file
    /\ cmd' = [cmd EXCEPT ![c] = k]
    /\ k.step = "write" => ReadIsSound(k)
    /\ RemovesForward(k)

LEMMA FileStepKeeps ==
    ASSUME FileInv, TypeOK', NEW c \in Commands, NEW k, FileStep(c, k)
    PROVE  FileInv'
<1>1. ASSUME NEW d \in Commands, cmd'[d].step = "write" PROVE ReadIsSound(cmd'[d])
    <2>1. cmd'[d] = IF d = c THEN k ELSE cmd[d]
        BY DEF FileInv, TypeOK, FileStep
    <2> QED BY <1>1, <2>1 DEF FileInv, ReadsAreSound, FileStep
<1>2. ReadsAreSound'
    BY <1>1 DEF ReadsAreSound, ReadIsSound, Clashes
<1>3. RemovalsAreOfForwards'
    <2>1. \A d \in Commands : cmd'[d] = IF d = c THEN k ELSE cmd[d]
        BY DEF FileInv, TypeOK, FileStep
    <2> QED BY <2>1 DEF FileInv, FileStep, RemovalsAreOfForwards, RemovesForward
<1> QED BY <1>2, <1>3 DEF FileInv, FileStep, FileNamesEachRuleOnce

\* What is written has one rule for a name: an added name was not in what was read.
LEMMA ChangedIsSound ==
    ASSUME NEW k \in Writing, ReadIsSound(k)
    PROVE  \A r, s \in Changed(k) : r.name = s.name => r = s
<1>1. CASE k.op = "add"
    BY <1>1 DEF Changed, ReadIsSound, Clashes
<1>2. CASE k.op # "add"
    BY <1>2 DEF Changed, ReadIsSound
<1> QED BY <1>1, <1>2

LEMMA NextFile == FileInv /\ [Next]_vars => FileInv'
<1> SUFFICES ASSUME FileInv, [Next]_vars PROVE FileInv'
    OBVIOUS
<1>0. TypeOK /\ TypeOK'
    BY NextType DEF FileInv
<1>1. ASSUME UNCHANGED <<file, cmd>> PROVE FileInv'
    BY <1>0, <1>1 DEF FileInv, FileNamesEachRuleOnce, ReadsAreSound, RemovalsAreOfForwards
<1>2. ASSUME NEW c \in Commands, NEW k, FileStep(c, k) PROVE FileInv'
    BY <1>0, <1>2, FileStepKeeps
<1>3. \A c \in Commands : RemovesForward(cmd[c])
    BY DEF FileInv, RemovalsAreOfForwards
<1>4. ASSUME NEW c \in Commands, Add(c) \/ Remove(c) PROVE FileInv'
    <2>1. ASSUME NEW r \in Rule, NEW persist \in BOOLEAN, CallAdd(c, r, persist)
          PROVE FileInv'
        <3>1. CASE persist
            <4>1. FileStep(c, [step |-> "load", op |-> "add", rule |-> r])
                BY <2>1, <3>1 DEF CallAdd, FileStep, RemovesForward
            <4> QED BY <1>2, <4>1
        <3>2. CASE ~persist
            BY <1>1, <2>1, <3>2 DEF CallAdd
        <3> QED BY <3>1, <3>2
    <2>2. CASE LoadToAdd(c)
        <3> DEFINE k == [step |-> "write", op |-> "add", rule |-> cmd[c].rule, read |-> file]
                   b == [step |-> "rollback", op |-> "add", rule |-> cmd[c].rule]
        <3>1. ~Clashes(cmd[c].rule, file) => ReadIsSound(k)
            BY DEF ReadIsSound, FileInv, FileNamesEachRuleOnce
        <3>2. FileStep(c, Idle) \/ FileStep(c, k) \/ FileStep(c, b)
            BY <2>2, <3>1 DEF LoadToAdd, FileStep, RemovesForward, Idle
        <3> HIDE DEF k, b
        <3> QED BY <1>2, <3>2
    <2>3. CASE AddFails(c)
        <3>1. FileStep(c, [step |-> "rollback", op |-> "add", rule |-> cmd[c].rule])
            BY <2>3 DEF AddFails, FileStep, RemovesForward
        <3> QED BY <1>2, <3>1
    <2>4. CASE Rollback(c) \/ RemoveFails(c)
        <3>1. FileStep(c, Idle)
            BY <2>4 DEF Rollback, RemoveFails, FileStep, RemovesForward, Idle
        <3> QED BY <1>2, <3>1
    <2>5. ASSUME NEW e \in live, TuiShows(c, e) PROVE FileInv'
        <3>1. FileStep(c, [step |-> "shown", op |-> "remove", rule |-> AsRule(e)])
            BY <2>5 DEF TuiShows, FileStep, RemovesForward, AsRule
        <3> QED BY <1>2, <3>1
    <2>6. ASSUME NEW e \in live, NEW persist \in BOOLEAN, CallDel(c, e, persist)
          PROVE FileInv'
        <3>1. CASE persist
            <4>1. FileStep(c, [step |-> "load", op |-> "del", rule |-> AsRule(e)])
                BY <2>6, <3>1 DEF CallDel, FileStep, RemovesForward
            <4> QED BY <1>2, <4>1
        <3>2. CASE ~persist
            BY <1>1, <2>6, <3>2 DEF CallDel
        <3> QED BY <3>1, <3>2
    <2>7. ASSUME NEW persist \in BOOLEAN, TuiConfirms(c, persist) PROVE FileInv'
        <3> DEFINE k == [cmd[c] EXCEPT !.step = "load"]
        <3>1. k.step = "load" /\ k.op = cmd[c].op /\ k.rule = cmd[c].rule
            BY <1>0, <2>7, CmdShapes DEF TuiConfirms, Working
        <3>2. FileStep(c, Idle) \/ FileStep(c, k)
            BY <1>3, <2>7, <3>1 DEF TuiConfirms, FileStep, RemovesForward, Idle
        <3> HIDE DEF k
        <3> QED BY <1>2, <3>2
    <2>8. CASE LoadToRemove(c)
        <3> DEFINE k == [step |-> "write", op |-> cmd[c].op, rule |-> cmd[c].rule, read |-> file]
        <3>1. ReadIsSound(k)
            BY <2>8 DEF LoadToRemove, ReadIsSound, FileInv, FileNamesEachRuleOnce
        <3>2. k.step = "write"
            OBVIOUS
        <3> HIDE DEF k
        <3>3. FileStep(c, Idle) \/ FileStep(c, k)
            BY <1>3, <2>8, <3>1, <3>2 DEF LoadToRemove, FileStep, RemovesForward, Idle, k
        <3> QED BY <1>2, <3>3
    <2> QED BY <1>4, <2>1, <2>2, <2>3, <2>4, <2>5, <2>6, <2>7, <2>8 DEF Add, Remove
<1>5. ASSUME NEW c \in Commands, Replace(c) PROVE FileInv'
    <2>1. cmd[c] \in Writing /\ ReadIsSound(cmd[c])
        BY <1>0, <1>5, CmdShapes DEF Replace, FileInv, ReadsAreSound
    <2>2. FileNamesEachRuleOnce'
        BY <1>5, <2>1, ChangedIsSound DEF Replace, FileNamesEachRuleOnce
    <2>3. ReadsAreSound'
        BY <1>0, <1>5 DEF Replace, ReadsAreSound, FileInv, TypeOK, Idle, ReadIsSound, Clashes
    <2>4. RemovalsAreOfForwards'
        BY <1>0, <1>3, <1>5 DEF Replace, RemovalsAreOfForwards, RemovesForward, TypeOK, Idle
    <2> QED BY <1>0, <2>2, <2>3, <2>4 DEF FileInv
<1>6. ASSUME NEW c \in Commands, Killed(c) PROVE FileInv'
    <2>1. FileStep(c, Idle)
        BY <1>6 DEF Killed, FileStep, RemovesForward, Idle
    <2> QED BY <1>2, <2>1
<1>7. CASE LoadConfig \/ Serve \/ Stop \/ UNCHANGED vars
    BY <1>1, <1>7 DEF LoadConfig, Serve, Stop, vars
<1> QED BY <1>4, <1>5, <1>6, <1>7 DEF Next

LEMMA InitFile == Init => FileInv
BY InitType DEF Init, FileInv, FileNamesEachRuleOnce, ReadsAreSound, RemovalsAreOfForwards,
    RemovesForward, Idle

\* However many commands overlap, fail or are killed, the config file keeps one
\* rule for a name, so the daemon never refuses to start over a second one
\* (add_persistent_*_rule, config.rs:139-155, 178-196).
THEOREM FileTheorem == Spec => []FileNamesEachRuleOnce
<1>1. FileInv => FileNamesEachRuleOnce
    BY DEF FileInv
<1> QED BY <1>1, InitFile, NextFile, PTL DEF Spec
----------------------------------------------------------------------------
\* Only the command that replaces the file takes a promised rule out of it, and
\* it takes out what it reports removed, from the file it has read.
LEMMA NextPromised == FileInv /\ PromisedIsKept /\ [Next]_vars => PromisedIsKept'
<1> SUFFICES ASSUME TypeOK, RemovalsAreOfForwards, PromisedIsKept, [Next]_vars
             PROVE  PromisedIsKept'
    BY DEF FileInv
<1>1. ASSUME UNCHANGED <<file, promised, stale>> PROVE PromisedIsKept'
    BY <1>1 DEF PromisedIsKept
<1>2. ASSUME NEW c \in Commands, Add(c) PROVE PromisedIsKept'
    <2>1. CASE LoadToAdd(c)
        BY <2>1 DEF LoadToAdd, PromisedIsKept
    <2>2. CASE ~LoadToAdd(c)
        BY <1>1, <1>2, <2>2 DEF Add, CallAdd, AddFails, Rollback
    <2> QED BY <2>1, <2>2
<1>3. ASSUME NEW c \in Commands, Remove(c) PROVE PromisedIsKept'
    <2>1. CASE LoadToRemove(c)
        BY <2>1 DEF LoadToRemove, StillPromised, PromisedIsKept
    <2>2. CASE ~LoadToRemove(c)
        BY <1>1, <1>3, <2>2 DEF Remove, CallDel, TuiShows, TuiConfirms, RemoveFails
    <2> QED BY <2>1, <2>2
<1>4. ASSUME NEW c \in Commands, Replace(c) PROVE PromisedIsKept'
    <2> SUFFICES ASSUME ~stale' PROVE promised' \subseteq file'
        BY DEF PromisedIsKept
    <2> DEFINE k == cmd[c]
    <2>1. k \in Writing /\ k.read = file /\ promised \subseteq file
        BY <1>4, CmdShapes DEF Replace, PromisedIsKept
    <2>2. promised' = Promised(k) /\ file' = Changed(k)
        BY <1>4 DEF Replace
    <2>3. RemovesForward(k)
        BY DEF RemovalsAreOfForwards
    <2> HIDE DEF k
    <2>4. CASE k.op = "add"
        BY <2>1, <2>2, <2>4 DEF Promised, Changed
    \* What it takes out it reports removed.
    <2>5. CASE k.op # "add"
        <3>1. ASSUME NEW e \in promised, Matches(k.op, k.rule, e) PROVE Reported(k.op, k.rule, e)
            <4>1. CASE k.op = "remove"
                <5>1. e \in Rule /\ k.rule \in Rule /\ e.name = k.rule.name
                    BY <2>1, <3>1 DEF Writing, TypeOK, Matches
                <5>2. k.rule.name \in Forwards
                    BY <2>1, <2>3, <4>1 DEF Writing, RemovesForward
                <5>3. e.target \in Bindings /\ k.rule.target \in Bindings
                    BY <5>1, <5>2, RulesAssumption DEF Rule
                <5>4. Remote[e.target] = Shown[k.rule.target]
                    BY <3>1, <4>1 DEF Matches
                <5> QED BY <5>1, <5>3, <5>4, RulesAssumption DEF Reported
            <4> QED BY <3>1, <4>1 DEF Matches, Reported
        <3> QED BY <2>1, <2>2, <2>5, <3>1 DEF Promised, StillPromised, Changed
    <2> QED BY <2>4, <2>5
<1>5. CASE LoadConfig \/ Serve \/ Stop \/ (\E c \in Commands : Killed(c)) \/ UNCHANGED vars
    BY <1>1, <1>5 DEF LoadConfig, Serve, Stop, Killed, vars
<1> QED BY <1>2, <1>3, <1>4, <1>5 DEF Next

\* A rule that was reported persistent is in the file until its removal is reported,
\* as long as no command replaced a file it had not read.
THEOREM PromisedTheorem == Spec => []PromisedIsKept
<1>1. Init => PromisedIsKept
    BY DEF Init, PromisedIsKept
<1> QED BY <1>1, InitFile, NextFile, NextPromised, PTL DEF Spec
----------------------------------------------------------------------------
(* Since the daemon's start no two commands overlapped and none was killed.   *)

\* A command is adding rule r, or taking it back.
Adds(c, r) == Midway(c) /\ cmd[c].op = "add" /\ cmd[c].rule = r

\* One command works at a time, none while the daemon starts ...
OneMidway ==
    /\ \A c, d \in Commands : Midway(c) /\ Midway(d) => c = d
    /\ daemon = "loaded" => image = file /\ \A c \in Commands : ~Midway(c)

\* ... so that the file it has read is the one it replaces, the name it removes is
\* not live, and what is listed as persisted is in the file or being added.
FlagsCovered ==
    /\ \A c \in Commands : cmd[c].step = "write" => cmd[c].read = file
    /\ \A c \in Commands : Midway(c) /\ cmd[c].op # "add" => ~IsLive(cmd[c].rule.name)
    /\ \A e \in live : e.persisted =>
         AsRule(e) \in file \/ \E c \in Commands : Adds(c, AsRule(e))

FlagInv ==
    /\ TypeOK
    /\ daemon # "up" => live = {}
    /\ ~crossed => OneMidway /\ FlagsCovered

LEMMA InitFlag == Init => FlagInv
BY InitType DEF Init, FlagInv, OneMidway, FlagsCovered, Midway, Idle

\* A command's step, seen from the flags: its record becomes k, which is that of a
\* command alone at work or of one that is not at work; names that other commands
\* remove do not become live, and what is listed is still covered.
Works(k) == k.step \in {"load", "write", "rollback"}
FlagStep(c, k) ==
    /\ UNCHANGED <<daemon, image, file>>
    /\ cmd' = [cmd EXCEPT ![c] = k]
    /\ daemon # "up" => live' = {}
    /\ Works(k) => ~Overlaps(c) /\ (Midway(c) \/ daemon = "up")
    /\ k.step = "write" => k.read = file
    /\ Works(k) /\ k.op # "add" => \A e \in live' : e.name # k.rule.name
    /\ live' \subseteq live \/ ~Overlaps(c)
    /\ \A e \in live' : e.persisted =>
         \/ AsRule(e) \in file
         \/ Works(k) /\ k.op = "add" /\ k.rule = AsRule(e)
         \/ \E d \in Commands \ {c} : Adds(d, AsRule(e))

LEMMA FlagStepKeeps ==
    ASSUME FlagInv, TypeOK', ~crossed, NEW c \in Commands, NEW k, FlagStep(c, k)
    PROVE  FlagInv'
<1>0. OneMidway /\ FlagsCovered /\ TypeOK
    BY DEF FlagInv
<1>1. \A d \in Commands : cmd'[d] = IF d = c THEN k ELSE cmd[d]
    BY <1>0 DEF TypeOK, FlagStep
<1>2. \A d \in Commands : Midway(d)' <=> IF d = c THEN Works(k) ELSE Midway(d)
    BY <1>1 DEF Midway, Works
<1>3. OneMidway'
    BY <1>0, <1>2 DEF OneMidway, FlagStep, Overlaps
<1>4. \A d \in Commands : cmd'[d].step = "write" => cmd'[d].read = file'
    BY <1>0, <1>1 DEF FlagsCovered, FlagStep
<1>5. ASSUME NEW d \in Commands, Midway(d)', cmd'[d].op # "add", NEW e \in live'
      PROVE  e.name # cmd'[d].rule.name
    <2>1. CASE d = c
        BY <1>1, <1>2, <1>5, <2>1 DEF FlagStep
    <2>2. CASE d # c
        <3>1. Midway(d) /\ cmd'[d] = cmd[d]
            BY <1>1, <1>2, <1>5, <2>2
        <3>2. live' \subseteq live
            BY <2>2, <3>1 DEF FlagStep, Overlaps
        <3> QED BY <1>0, <1>5, <3>1, <3>2 DEF FlagsCovered, IsLive
    <2> QED BY <2>1, <2>2
<1>6. ASSUME NEW e \in live', e.persisted
      PROVE  AsRule(e) \in file' \/ \E d \in Commands : Adds(d, AsRule(e))'
    <2>1. CASE AsRule(e) \in file
        BY <2>1 DEF FlagStep
    <2>2. CASE Works(k) /\ k.op = "add" /\ k.rule = AsRule(e)
        <3>1. Adds(c, AsRule(e))'
            BY <1>1, <1>2, <2>2 DEF Adds, AsRule
        <3> QED BY <3>1
    <2>3. ASSUME NEW d \in Commands \ {c}, Adds(d, AsRule(e))
          PROVE  Adds(d, AsRule(e))'
        BY <1>1, <1>2, <2>3 DEF Adds, AsRule
    <2> QED BY <1>6, <2>1, <2>2, <2>3 DEF FlagStep
<1>7. FlagsCovered'
    BY <1>4, <1>5, <1>6 DEF FlagsCovered, IsLive, AsRule
<1> QED BY <1>3, <1>7 DEF FlagInv, FlagStep

\* Only a daemon that is up has live rules.
LEMMA NextDown ==
    TypeOK /\ (daemon # "up" => live = {}) /\ [Next]_vars => (daemon' # "up" => live' = {})
<1> SUFFICES ASSUME TypeOK, daemon # "up" => live = {}, [Next]_vars, daemon' # "up"
             PROVE  live' = {}
    OBVIOUS
<1>1. ASSUME NEW c \in Commands, Add(c) PROVE live' = {}
    BY <1>1 DEF Add, CallAdd, LoadToAdd, AddFails, Rollback, Drop
<1>2. ASSUME NEW c \in Commands, Remove(c) PROVE live' = {}
    BY <1>2 DEF Remove, CallDel, TuiShows, TuiConfirms, LoadToRemove, RemoveFails, Drop
<1>3. ASSUME NEW c \in Commands, Replace(c) \/ Killed(c) PROVE live' = {}
    BY <1>3 DEF Replace, Killed
<1>4. CASE LoadConfig \/ Serve \/ Stop \/ UNCHANGED vars
    BY <1>4 DEF LoadConfig, Serve, Stop, vars
<1> QED BY <1>1, <1>2, <1>3, <1>4 DEF Next

\* A command that is not adding what e lists leaves e's cover to another command.
LEMMA OthersCover ==
    ASSUME FlagInv, ~crossed, NEW c \in Commands, NEW e \in live, e.persisted
    PROVE  \/ AsRule(e) \in file
           \/ Adds(c, AsRule(e))
           \/ \E d \in Commands \ {c} : Adds(d, AsRule(e))
BY DEF FlagInv, FlagsCovered

LEMMA AddFlag ==
    ASSUME FlagInv, TypeOK', ~crossed', NEW c \in Commands, Add(c), daemon' # "up" => live' = {}
    PROVE  FlagInv'
<1>0. TypeOK
    BY DEF FlagInv
<1>1. ASSUME NEW r \in Rule, NEW persist \in BOOLEAN, CallAdd(c, r, persist)
      PROVE  FlagInv'
    <2> DEFINE k == IF persist THEN [step |-> "load", op |-> "add", rule |-> r] ELSE Idle
               new == [name |-> r.name, target |-> r.target,
                       persisted |-> persist /\ r.name \in Forwards]
    <2>1. ~crossed /\ ~Overlaps(c) /\ daemon = "up" /\ cmd[c] = Idle
        BY <1>1 DEF CallAdd
    <2>2. cmd' = [cmd EXCEPT ![c] = k]
        BY <1>0, <1>1 DEF CallAdd, TypeOK
    <2>3. ASSUME NEW e \in live, e.persisted
          PROVE  AsRule(e) \in file \/ \E d \in Commands \ {c} : Adds(d, AsRule(e))
        BY <2>1, <2>3, OthersCover DEF Adds, Midway, Idle
    <2>4. AsRule(new) = r
        BY DEF AsRule, Rule
    <2>5. new.persisted => Works(k) /\ k.op = "add" /\ k.rule = r
        BY DEF Works
    <2>6. live' = live \cup {new}
        BY <1>1 DEF CallAdd
    <2>7. k.step # "write" /\ (Works(k) => k.op = "add")
        BY DEF Works, Idle
    <2> HIDE DEF k, new
    <2>8. \A e \in live' : e.persisted =>
            \/ AsRule(e) \in file
            \/ Works(k) /\ k.op = "add" /\ k.rule = AsRule(e)
            \/ \E d \in Commands \ {c} : Adds(d, AsRule(e))
        BY <2>3, <2>4, <2>5, <2>6
    <2>9. FlagStep(c, k)
        BY <1>1, <2>1, <2>2, <2>7, <2>8 DEF FlagStep, CallAdd
    <2> QED BY <2>1, <2>9, FlagStepKeeps
<1>2. ASSUME NEW k, ~crossed, Midway(c), cmd[c].op = "add", UNCHANGED <<daemon, image, live, file>>,
             cmd' = [cmd EXCEPT ![c] = k],
             k.step = "write" => k.read = file,
             \/ Works(k) /\ k.op = "add" /\ k.rule = cmd[c].rule
             \/ ~Works(k) /\ cmd[c].rule \in file
      PROVE  FlagInv'
    <2>1. ~Overlaps(c)
        BY <1>2 DEF FlagInv, OneMidway, Overlaps
    <2>2. FlagStep(c, k)
        BY <1>2, <2>1, OthersCover DEF FlagStep, Adds
    <2> QED BY <1>2, <2>2, FlagStepKeeps
<1>3. CASE LoadToAdd(c)
    <2> DEFINE r == cmd[c].rule
               k == [step |-> "write", op |-> "add", rule |-> r, read |-> file]
               b == [step |-> "rollback", op |-> "add", rule |-> r]
    <2>1. ~crossed /\ Midway(c) /\ cmd[c].op = "add" /\ UNCHANGED <<daemon, image, live, file>>
        BY <1>3 DEF LoadToAdd, Midway
    <2>2. \/ cmd' = [cmd EXCEPT ![c] = Idle] /\ r \in file
          \/ cmd' = [cmd EXCEPT ![c] = k]
          \/ cmd' = [cmd EXCEPT ![c] = b]
        BY <1>3 DEF LoadToAdd
    <2>3. ~Works(Idle) /\ Idle.step # "write"
        BY DEF Works, Idle
    <2>4. Works(k) /\ k.op = "add" /\ k.rule = r /\ k.read = file
        BY DEF Works
    <2>5. Works(b) /\ b.op = "add" /\ b.rule = r /\ b.step # "write"
        BY DEF Works
    <2> HIDE DEF k, b
    <2> QED BY <1>2, <2>1, <2>2, <2>3, <2>4, <2>5
<1>4. CASE AddFails(c)
    <2> DEFINE b == [step |-> "rollback", op |-> "add", rule |-> cmd[c].rule]
    <2>1. ~crossed /\ Midway(c) /\ cmd[c].op = "add" /\ UNCHANGED <<daemon, image, live, file>>
        BY <1>4 DEF AddFails, Midway
    <2>2. cmd' = [cmd EXCEPT ![c] = b]
        BY <1>4 DEF AddFails
    <2>3. Works(b) /\ b.op = "add" /\ b.rule = cmd[c].rule /\ b.step # "write"
        BY DEF Works
    <2> HIDE DEF b
    <2> QED BY <1>2, <2>1, <2>2, <2>3
<1>5. CASE Rollback(c)
    <2>1. ~crossed /\ UNCHANGED <<daemon, image, file>> /\ cmd' = [cmd EXCEPT ![c] = Idle]
        BY <1>5 DEF Rollback
    <2>2. ASSUME NEW e \in live' PROVE e \in live /\ ~Adds(c, AsRule(e))
        <3>1. e \in live /\ e.name # cmd[c].rule.name
            BY <1>5 DEF Rollback, Drop
        <3> QED BY <3>1 DEF Adds, AsRule
    <2>3. ~Works(Idle) /\ Idle.step # "write"
        BY DEF Works, Idle
    <2>4. FlagStep(c, Idle)
        BY <2>1, <2>2, <2>3, OthersCover DEF FlagStep, FlagInv
    <2> QED BY <2>1, <2>4, FlagStepKeeps
<1> QED BY <1>1, <1>3, <1>4, <1>5 DEF Add

LEMMA RemoveFlag ==
    ASSUME FlagInv, TypeOK', ~crossed', NEW c \in Commands, Remove(c), daemon' # "up" => live' = {}
    PROVE  FlagInv'
<1>0. TypeOK
    BY DEF FlagInv
<1>1. ASSUME NEW k, ~crossed, UNCHANGED <<daemon, image, file>>, live' \subseteq live,
             cmd' = [cmd EXCEPT ![c] = k],
             ~Midway(c) \/ cmd[c].op # "add",
             Works(k) => /\ ~Overlaps(c) /\ (Midway(c) \/ daemon = "up")
                         /\ \A e \in live' : e.name # k.rule.name,
             k.step = "write" => k.read = file
      PROVE  FlagInv'
    <2>1. FlagStep(c, k)
        BY <1>1, OthersCover DEF FlagStep, Adds
    <2> QED BY <1>1, <2>1, FlagStepKeeps
<1>2. ~Works(Idle) /\ Idle.step # "write"
    BY DEF Works, Idle
<1>3. ASSUME NEW e \in live, TuiShows(c, e) PROVE FlagInv'
    <2> DEFINE k == [step |-> "shown", op |-> "remove", rule |-> AsRule(e)]
    <2>1. ~Works(k) /\ k.step # "write"
        BY DEF Works
    <2>2. cmd' = [cmd EXCEPT ![c] = k] /\ ~Midway(c)
        BY <1>3 DEF TuiShows, Midway, Idle
    <2> HIDE DEF k
    <2> QED BY <1>1, <1>3, <2>1, <2>2 DEF TuiShows
<1>4. ASSUME NEW e \in live, NEW persist \in BOOLEAN, CallDel(c, e, persist) PROVE FlagInv'
    <2> DEFINE k == IF persist THEN [step |-> "load", op |-> "del", rule |-> AsRule(e)] ELSE Idle
    <2>1. ~crossed /\ ~Overlaps(c) /\ daemon = "up" /\ ~Midway(c)
        <3>1. ~crossed /\ ~Overlaps(c)
            BY <1>4 DEF CallDel
        <3>2. daemon = "up"
            BY <1>4 DEF FlagInv
        <3>3. ~Midway(c)
            BY <1>4 DEF CallDel, Midway, Idle
        <3> QED BY <3>1, <3>2, <3>3
    <2>2. cmd' = [cmd EXCEPT ![c] = k]
        <3>1. CASE persist
            BY <1>4, <3>1 DEF CallDel
        <3>2. CASE ~persist
            BY <1>0, <1>4, <3>2 DEF CallDel, TypeOK
        <3> QED BY <3>1, <3>2
    <2>3. k.step # "write" /\ (Works(k) => k.rule.name = e.name)
        BY <1>2 DEF Works, AsRule
    <2> HIDE DEF k
    <2>4. live' \subseteq live /\ \A x \in live' : x.name # e.name
        BY <1>4 DEF CallDel, Drop
    <2> QED BY <1>1, <1>4, <2>1, <2>2, <2>3, <2>4 DEF CallDel
<1>5. ASSUME NEW persist \in BOOLEAN, TuiConfirms(c, persist) PROVE FlagInv'
    <2>1. ~Midway(c) /\ cmd[c] \in Working
        BY <1>0, <1>5, CmdShapes DEF TuiConfirms, Midway
    <2>2. CASE IsLive(cmd[c].rule.name)
        <3> DEFINE k == IF persist THEN [cmd[c] EXCEPT !.step = "load"] ELSE Idle
        <3>1. ~crossed /\ ~Overlaps(c) /\ daemon = "up"
            BY <1>5, <2>2 DEF TuiConfirms, FlagInv, IsLive
        <3>2. cmd' = [cmd EXCEPT ![c] = k]
            BY <1>5, <2>2 DEF TuiConfirms
        <3>3. k.step # "write" /\ (Works(k) => k.rule = cmd[c].rule)
            BY <1>2, <2>1 DEF Working
        <3> HIDE DEF k
        <3>4. live' \subseteq live /\ \A x \in live' : x.name # cmd[c].rule.name
            BY <1>5, <2>2 DEF TuiConfirms, Drop
        <3> QED BY <1>1, <1>5, <2>1, <3>1, <3>2, <3>3, <3>4 DEF TuiConfirms
    <2>3. CASE ~IsLive(cmd[c].rule.name)
        BY <1>1, <1>2, <1>5, <2>1, <2>3 DEF TuiConfirms
    <2> QED BY <2>2, <2>3
<1>6. CASE LoadToRemove(c)
    <2> DEFINE w == [step |-> "write", op |-> cmd[c].op, rule |-> cmd[c].rule, read |-> file]
    <2>1. ~crossed /\ Midway(c) /\ cmd[c].op # "add" /\ UNCHANGED <<daemon, image, live, file>>
        BY <1>6 DEF LoadToRemove, Midway
    <2>2. ~Overlaps(c) /\ \A e \in live : e.name # cmd[c].rule.name
        BY <2>1 DEF FlagInv, OneMidway, FlagsCovered, Overlaps, IsLive
    <2>3. cmd' = [cmd EXCEPT ![c] = w] \/ cmd' = [cmd EXCEPT ![c] = Idle]
        BY <1>6 DEF LoadToRemove
    <2>4. w.rule = cmd[c].rule /\ w.read = file
        OBVIOUS
    <2> HIDE DEF w
    <2> QED BY <1>1, <1>2, <2>1, <2>2, <2>3, <2>4
<1>7. CASE RemoveFails(c)
    BY <1>1, <1>2, <1>7 DEF RemoveFails
<1> QED BY <1>3, <1>4, <1>5, <1>6, <1>7 DEF Remove

\* The file that a command replaces is the one it has read, and what it takes out
\* of it is not live.
LEMMA ReplaceFlag ==
    ASSUME FlagInv, TypeOK', ~crossed', NEW c \in Commands, Replace(c), daemon' # "up" => live' = {}
    PROVE  FlagInv'
<1> DEFINE k == cmd[c]
<1>0. TypeOK /\ OneMidway /\ FlagsCovered /\ UNCHANGED <<daemon, image, live>>
    BY DEF FlagInv, Replace
<1>1. k \in Writing /\ Midway(c) /\ k.read = file /\ file' = Changed(k)
    BY <1>0, CmdShapes DEF Replace, Midway, FlagsCovered
<1>2. \A d \in Commands : cmd'[d] = IF d = c THEN Idle ELSE cmd[d]
    BY <1>0 DEF Replace, TypeOK
<1>3. \A d \in Commands : ~Midway(d)' /\ cmd'[d].step # "write"
    BY <1>0, <1>1, <1>2 DEF OneMidway, Midway, Idle
<1>4. daemon' # "loaded"
    BY <1>0, <1>1 DEF OneMidway
<1>5. ASSUME NEW e \in live, e.persisted PROVE AsRule(e) \in file'
    <2>1. AsRule(e) \in file \/ Adds(c, AsRule(e))
        BY <1>0, <1>1, <1>5 DEF FlagsCovered, OneMidway, Adds
    <2> HIDE DEF k
    <2>2. CASE k.op = "add"
        BY <1>1, <2>1, <2>2 DEF Changed, Adds, k
    <2>3. CASE k.op # "add"
        <3>1. AsRule(e) \in file /\ e.name # k.rule.name
            BY <1>0, <1>1, <2>1, <2>3 DEF FlagsCovered, IsLive, Adds, k
        <3> QED BY <1>1, <2>3, <3>1 DEF Changed, Matches, AsRule
    <2> QED BY <2>2, <2>3
<1>6. OneMidway'
    BY <1>3, <1>4 DEF OneMidway
<1>7. FlagsCovered'
    BY <1>0, <1>3, <1>5 DEF FlagsCovered, AsRule
<1> QED BY <1>6, <1>7 DEF FlagInv

LEMMA NextFlag == FlagInv /\ [Next]_vars => FlagInv'
<1> SUFFICES ASSUME FlagInv, [Next]_vars PROVE FlagInv'
    OBVIOUS
<1>1. TypeOK' /\ (daemon' # "up" => live' = {})
    BY NextType, NextDown DEF FlagInv
<1>2. CASE crossed'
    BY <1>1, <1>2 DEF FlagInv
<1> SUFFICES ASSUME ~crossed' PROVE FlagInv'
    BY <1>2
<1>3. ASSUME NEW c \in Commands, Add(c) \/ Remove(c) \/ Replace(c) \/ Killed(c) PROVE FlagInv'
    BY <1>1, <1>3, AddFlag, RemoveFlag, ReplaceFlag DEF Killed
<1>4. CASE LoadConfig
    <2>1. live = {} /\ live' = {} /\ image' = file /\ UNCHANGED <<file, cmd>>
        BY <1>4 DEF LoadConfig, FlagInv
    <2>2. \A c \in Commands : ~Midway(c) /\ ~Midway(c)' /\ cmd'[c].step # "write"
        BY <1>4 DEF LoadConfig, Midway
    <2> QED BY <1>1, <2>1, <2>2 DEF FlagInv, OneMidway, FlagsCovered
<1>5. CASE Serve
    <2>1. OneMidway /\ image = file /\ (\A c \in Commands : ~Midway(c)) /\ UNCHANGED <<file, cmd>>
        BY <1>5 DEF Serve, FlagInv, OneMidway
    <2>2. \A c \in Commands : ~Midway(c)' /\ cmd'[c].step # "write"
        BY <2>1 DEF Midway
    <2>3. ASSUME NEW e \in live' PROVE AsRule(e) \in file'
        <3>1. PICK r \in file : e = Listed(r)
            BY <1>5, <2>1, <2>3 DEF Serve
        <3>2. r \in Rule
            BY <3>1 DEF FlagInv, TypeOK
        <3> QED BY <2>1, <3>1, <3>2 DEF AsRule, Listed, Rule
    <2> QED BY <1>1, <1>5, <2>2, <2>3 DEF Serve, FlagInv, OneMidway, FlagsCovered, AsRule
<1>6. CASE Stop
    <2>1. OneMidway /\ FlagsCovered /\ live' = {} /\ daemon' = "down" /\ UNCHANGED <<file, cmd>>
        BY <1>6 DEF Stop, FlagInv
    <2> QED BY <1>1, <2>1 DEF FlagInv, OneMidway, FlagsCovered, Midway, IsLive
<1>7. CASE UNCHANGED vars
    BY <1>1, <1>7 DEF vars, FlagInv, OneMidway, FlagsCovered, Midway, IsLive, Adds, AsRule
<1> QED BY <1>3, <1>4, <1>5, <1>6, <1>7 DEF Next

\* What the daemon lists as persisted is in the file whenever no command is under
\* way, as long as commands came one at a time and none was killed since it started
\* (main.rs:272-292, 346-353, config.rs:137-236).
THEOREM FlagTheorem == Spec => []PersistedFlagIsTrue
<1>1. FlagInv => PersistedFlagIsTrue
    BY DEF FlagInv, FlagsCovered, Adds, PersistedFlagIsTrue
<1> QED BY <1>1, InitFlag, NextFlag, PTL DEF Spec
============================================================================
