---------------------------- MODULE StartupProofs ----------------------------
(***************************************************************************)
(* That processes run with the keys in their files, that a settled key     *)
(* stays, and that a daemon that serves can be reached, for any number of  *)
(* daemons, forwards, commands and key files.                              *)
(***************************************************************************)
EXTENDS Startup, TLAPS

Procs == K!Procs

\* A daemon's lock, and its steps between its key and its end.
Holds(d) == phase[d] \in K!DaemonLives \ {"locking"}
Past(d) == phase[d] \in K!DaemonLives \ {"locking", "reading", "writing"}

\* A process has generated the key of its file, or is about to write it.
Made(p) == key[p] = p \/ phase[p] = "writing"

\* A server and a forward have each generated a key for this file.
Both(k) == \E f \in Forwarders, d \in Daemons :
    keyOf[f] = k /\ keyOf[d] = k /\ key[f] = f /\ key[d] = d

\* What processes may have at which phase.
PhasesInv ==
    /\ \A f \in Forwarders :
         phase[f] \in {"new", "reading", "creating", "writing", "forwarding", "ended"}
    /\ \A f \in Forwarders : phase[f] \in {"reading", "creating", "writing"} => key[f] = Empty
    /\ \A d \in Daemons : phase[d] \in {"locking", "reading"} => key[d] = Empty
    /\ \A d \in Daemons : phase[d] = "writing" => key[d] = d
    /\ \A d \in Daemons : Past(d) => key[d] # Empty
    /\ \A d \in Daemons : phase[d] \notin {"creating", "forwarding"}
    /\ \A p \in Procs : phase[p] = "new" => key[p] = Empty

\* A key file has one daemon at a time, and at most one forward that generates.
LockInv ==
    \A d, e \in Daemons : keyOf[d] = keyOf[e] /\ Holds(d) /\ Holds(e) => d = e
MakerInv ==
    \A f, g \in Forwarders : keyOf[f] = keyOf[g] /\ Made(f) /\ Made(g) => f = g

\* What is in the files.
FilesInv ==
    /\ \A d \in Daemons : Holds(d) => keyFile[keyOf[d]] # NoFile
    /\ \A p \in Procs : Made(p) \/ key[p] # Empty => keyFile[keyOf[p]] # NoFile
    /\ \A k \in KeyFiles : keyFile[k] \in Procs =>
         key[keyFile[k]] = keyFile[k] /\ keyOf[keyFile[k]] = k
    /\ \A d \in Daemons : phase[d] = "writing" =>
         keyFile[keyOf[d]] \in Forwarders \cup {Empty}
    /\ \A p \in Procs : Runs(p) /\ key[p] # Empty =>
         /\ keyFile[keyOf[p]] \in Procs
         /\ key[p] = keyFile[keyOf[p]] \/ Both(keyOf[p])

KeyInv == TypeOK /\ PhasesInv /\ LockInv /\ MakerInv /\ FilesInv

LEMMA PhaseSets ==
    /\ K!DaemonStarts = {"locking", "reading", "writing", "online", "binding", "probing",
                         "unlinking", "rebinding", "bound"}
    /\ K!DaemonLives = {"locking", "reading", "writing", "online", "binding", "probing",
                        "unlinking", "rebinding", "bound", "serving", "stopping"}
    /\ K!Phases = {"new", "creating", "forwarding", "ended", "locking", "reading",
                   "writing", "online", "binding", "probing", "unlinking", "rebinding",
                   "bound", "serving", "stopping"}
    /\ Procs = Daemons \cup Forwarders
BY DEF K!DaemonStarts, K!DaemonLives, K!Phases, K!Procs, Procs

----------------------------------------------------------------------------
(* The beginning                                                           *)

LEMMA KeyInit == Init => KeyInv
<1> SUFFICES ASSUME Init PROVE KeyInv
  OBVIOUS
<1>1. TypeOK
  <2>1. (CHOOSE k \in KeyFiles : TRUE) \in KeyFiles
    BY StartupAssumption
  <2> QED
    BY <2>1, PhaseSets DEF Init, TypeOK, CommandSteps, Procs
<1>2. \A p \in Procs : phase[p] = "new" /\ key[p] = Empty
  BY DEF Init, Procs
<1>3. \A k \in KeyFiles : keyFile[k] = NoFile
  BY DEF Init
<1>4. \A p \in Procs : ~Made(p) /\ ~Runs(p)
  BY <1>2, PhaseSets, StartupAssumption DEF Made, Runs
<1>5. \A d \in Daemons : ~Holds(d)
  BY <1>2, PhaseSets DEF Holds
<1>6. PhasesInv /\ LockInv /\ MakerInv
  BY <1>2, <1>4, <1>5, PhaseSets DEF PhasesInv, LockInv, MakerInv, Past
<1>7. FilesInv
  BY <1>2, <1>3, <1>4, <1>5, PhaseSets, StartupAssumption DEF FilesInv
<1> QED
  BY <1>1, <1>6, <1>7 DEF KeyInv
----------------------------------------------------------------------------
(* Types                                                                   *)

LEMMA LaunchTypes ==
    ASSUME TypeOK, NEW d \in Daemons, NEW k \in KeyFiles, Launch(d, k)
    PROVE  /\ phase' \in [Procs -> K!Phases] /\ keyOf' \in [Procs -> KeyFiles]
           /\ calm' \in BOOLEAN /\ UNCHANGED <<key, keyFile, path>>
BY PhaseSets DEF Launch, TypeOK, Procs

LEMMA CommandTypes ==
    ASSUME TypeOK, NEW c \in Commands,
           FindsServer(c) \/ PollServer(c)
              \/ \E d \in Daemons, k \in KeyFiles : SpawnsServer(c, d, k)
    PROVE  command' \in [Commands -> CommandSteps]
<1>1. command \in [Commands -> CommandSteps] /\ command[c] \in CommandSteps
  BY DEF TypeOK
<1>2. \A s \in {"connected", "exited", "timedOut"} : [step |-> s] \in CommandSteps
  BY DEF CommandSteps
<1>3. CASE FindsServer(c)
  BY <1>1, <1>2, <1>3 DEF FindsServer, CommandIs
<1>4. CASE PollServer(c)
  <2> DEFINE polled == command[c].polls + 1
  <2>1. /\ command[c].step = "polling" /\ command[c].polls \in 0 .. Polls - 1
        /\ command[c] = [step |-> "polling", child |-> command[c].child,
                         polls |-> command[c].polls]
        /\ command[c].child \in Daemons
    BY <1>1, <1>4 DEF PollServer, CommandSteps
  <2>2. ASSUME polled # Polls PROVE [command[c] EXCEPT !.polls = polled] \in CommandSteps
    <3>1. polled \in 0 .. Polls - 1
      BY <2>1, <2>2, StartupAssumption
    <3>2. [command[c] EXCEPT !.polls = polled]
             = [step |-> "polling", child |-> command[c].child, polls |-> polled]
      BY <2>1
    <3> HIDE DEF polled
    <3> QED
      BY <2>1, <3>1, <3>2 DEF CommandSteps
  <2> QED
    BY <1>1, <1>2, <1>4, <2>2 DEF PollServer, CommandIs
<1>5. ASSUME NEW d \in Daemons, NEW k \in KeyFiles, SpawnsServer(c, d, k)
      PROVE  command' \in [Commands -> CommandSteps]
  <2>1. [step |-> "polling", child |-> d, polls |-> 0] \in CommandSteps
    BY StartupAssumption DEF CommandSteps
  <2> QED
    BY <1>1, <1>5, <2>1 DEF SpawnsServer, CommandIs
<1> QED
  BY <1>3, <1>4, <1>5

LEMMA TypeStep == KeyInv /\ [Next]_startupVars => TypeOK'
<1> SUFFICES ASSUME KeyInv, [Next]_startupVars PROVE TypeOK'
  OBVIOUS
<1>0. TypeOK /\ FilesInv
  BY DEF KeyInv
<1>1. /\ phase \in [Procs -> K!Phases] /\ keyOf \in [Procs -> KeyFiles]
      /\ key \in [Procs -> Procs \cup {Empty}]
      /\ keyFile \in [KeyFiles -> Procs \cup {NoFile, Empty}]
      /\ path \in Daemons \cup {NoFile}
      /\ command \in [Commands -> CommandSteps] /\ calm \in BOOLEAN
  BY <1>0 DEF TypeOK, Procs
<1> SUFFICES /\ phase' \in [Procs -> K!Phases] /\ keyOf' \in [Procs -> KeyFiles]
             /\ key' \in [Procs -> Procs \cup {Empty}]
             /\ keyFile' \in [KeyFiles -> Procs \cup {NoFile, Empty}]
             /\ path' \in Daemons \cup {NoFile}
             /\ command' \in [Commands -> CommandSteps] /\ calm' \in BOOLEAN
  BY DEF TypeOK, Procs
<1>2. ASSUME NEW d \in Daemons, NEW k \in KeyFiles, RunServer(d, k) PROVE TypeOK'
  BY <1>0, <1>1, <1>2, LaunchTypes DEF RunServer, TypeOK, Procs
<1>3. ASSUME NEW c \in Commands, NEW d \in Daemons, NEW k \in KeyFiles, SpawnsServer(c, d, k)
      PROVE  TypeOK'
  BY <1>0, <1>1, <1>3, LaunchTypes, CommandTypes DEF SpawnsServer, TypeOK, Procs
<1>4. ASSUME NEW f \in Forwarders, NEW k \in KeyFiles, RunForward(f, k) PROVE TypeOK'
  BY <1>1, <1>4, PhaseSets DEF RunForward, TypeOK, Procs
<1>5. ASSUME NEW d \in Daemons, ServeKey(d) PROVE TypeOK'
  <2>1. Holds(d) => keyFile[keyOf[d]] \in Procs \cup {Empty}
    BY <1>0, <1>1, PhaseSets DEF FilesInv
  <2>2. phase[d] = "reading" => Holds(d)
    BY PhaseSets DEF Holds
  <2>3. /\ phase' \in [Procs -> K!Phases] /\ keyOf' = keyOf
        /\ keyFile' \in [KeyFiles -> Procs \cup {NoFile, Empty}]
    BY <1>1, <1>5, PhaseSets
       DEF ServeKey, K!LockKey, K!LockLost, K!ReadServeKey, K!WriteServeKey, K!Goto,
           K!Stores, K!Content
  <2>4. key' \in [Procs -> Procs \cup {Empty}]
    BY <1>1, <1>5, <2>1, <2>2, PhaseSets
       DEF ServeKey, K!LockKey, K!LockLost, K!ReadServeKey, K!WriteServeKey, K!Content
  <2> QED
    BY <1>1, <1>5, <2>3, <2>4 DEF ServeKey, TypeOK, Procs
<1>6. ASSUME NEW f \in Forwarders, ForwardKey(f) PROVE TypeOK'
  <2>1. /\ phase' \in [Procs -> K!Phases] /\ keyOf' = keyOf
        /\ keyFile' \in [KeyFiles -> Procs \cup {NoFile, Empty}]
    BY <1>1, <1>6, PhaseSets
       DEF ForwardKey, K!ReadForwardKey, K!CreateForwardKey, K!WriteForwardKey, K!Goto,
           K!Stores, K!Content
  <2>2. key' \in [Procs -> Procs \cup {Empty}]
    BY <1>1, <1>6, PhaseSets
       DEF ForwardKey, K!ReadForwardKey, K!CreateForwardKey, K!WriteForwardKey, K!Content
  <2> QED
    BY <1>1, <1>6, <2>1, <2>2 DEF ForwardKey, TypeOK, Procs
<1>7. ASSUME NEW d \in Daemons, Online(d) \/ StartFails(d) PROVE TypeOK'
  BY <1>1, <1>7, PhaseSets DEF Online, StartFails, TypeOK, Procs
<1>8. ASSUME NEW d \in Daemons, Socket(d) \/ Stop(d) PROVE TypeOK'
  <2>1. phase' \in [Procs -> K!Phases] /\ path' \in Daemons \cup {NoFile}
    BY <1>1, <1>8, PhaseSets
       DEF Socket, Stop, P!Bind, P!Probe, P!Unlink, P!Rebind, P!Listen, P!Exit, P!Stop,
           P!MoveTo
  <2> QED
    BY <1>1, <1>8, <2>1 DEF Socket, Stop, TypeOK, Procs
<1>9. ASSUME NEW p \in Procs, Crash(p) PROVE TypeOK'
  BY <1>1, <1>9, PhaseSets DEF Crash, TypeOK, Procs
<1>10. ASSUME NEW c \in Commands, FindsServer(c) \/ PollServer(c) PROVE TypeOK'
  <2>1. UNCHANGED <<processVars, calm>>
    BY <1>10 DEF FindsServer, PollServer
  <2> QED
    BY <1>0, <1>1, <1>10, <2>1, CommandTypes DEF processVars, TypeOK, Procs
<1>11. CASE UNCHANGED startupVars
  BY <1>1, <1>11 DEF startupVars, processVars, TypeOK, Procs
<1> QED
  BY <1>2, <1>3, <1>4, <1>5, <1>6, <1>7, <1>8, <1>9, <1>10, <1>11
     DEF Next, DaemonStep, TypeOK, Procs
----------------------------------------------------------------------------
(* Keys                                                                    *)

\* Steps of daemons that have their key, and ends of processes.
LEMMA KeyUnseen ==
    ASSUME KeyInv, TypeOK', UNCHANGED <<keyOf, key, keyFile>>,
           \A p \in Procs : \/ phase'[p] = phase[p] \/ phase'[p] = "ended"
                            \/ p \in Daemons /\ Past(p) /\ Past(p)'
    PROVE  KeyInv'
<1>1. PhasesInv /\ LockInv /\ MakerInv /\ FilesInv
  BY DEF KeyInv
<1>2. /\ \A p \in Procs : Made(p)' => Made(p)
      /\ \A p \in Procs : Runs(p)' => Runs(p)
      /\ \A d \in Daemons : Holds(d)' => Holds(d)
  BY PhaseSets DEF Made, Runs, Holds, Past
<1>3. PhasesInv'
  BY <1>1, PhaseSets DEF PhasesInv, Past
<1>4. LockInv' /\ MakerInv'
  BY <1>1, <1>2, PhaseSets DEF LockInv, MakerInv
<1>5. \A k : Both(k)' <=> Both(k)
  BY DEF Both
<1>6. \A d \in Daemons : (phase[d] = "writing")' => phase[d] = "writing"
  BY PhaseSets DEF Past
<1>7. FilesInv'
  BY <1>1, <1>2, <1>5, <1>6, PhaseSets DEF FilesInv
<1> QED
  BY <1>3, <1>4, <1>7 DEF KeyInv

\* A process that is new has no key, so it may be given any file.
LEMMA LaunchKeys ==
    ASSUME KeyInv, TypeOK', NEW p \in Procs, NEW k \in KeyFiles, phase[p] = "new",
           keyOf' = [keyOf EXCEPT ![p] = k], UNCHANGED <<key, keyFile>>,
           \A q \in Procs : q # p => phase'[q] = phase[q],
           phase'[p] = IF p \in Daemons THEN "locking" ELSE "reading"
    PROVE  KeyInv'
<1>1. TypeOK /\ PhasesInv /\ LockInv /\ MakerInv /\ FilesInv
  BY DEF KeyInv
<1>2. /\ keyOf'[p] = k /\ key[p] = Empty /\ Empty \notin Procs
      /\ \A q \in Procs : q # p => keyOf'[q] = keyOf[q]
  BY <1>1, PhaseSets, StartupAssumption DEF TypeOK, PhasesInv, Procs
<1>3. /\ ~Made(p)' /\ \A q \in Procs : q # p => (Made(q)' <=> Made(q))
      /\ \A q \in Procs : q # p => (Runs(q)' <=> Runs(q))
      /\ \A d \in Daemons : Holds(d)' => Holds(d) /\ d # p
  BY <1>2, PhaseSets DEF Made, Runs, Holds
<1>4. PhasesInv'
  <2>1. Forwarders \subseteq Procs /\ Daemons \subseteq Procs /\ Forwarders \cap Daemons = {}
    BY StartupAssumption DEF Procs, K!Procs
  <2>2. ASSUME NEW f \in Forwarders
        PROVE  /\ phase'[f] \in {"new", "reading", "creating", "writing", "forwarding", "ended"}
               /\ phase'[f] \in {"reading", "creating", "writing"} => key'[f] = Empty
    <3>1. CASE f = p
      BY <1>2, <2>1, <3>1
    <3>2. CASE f # p
      BY <1>1, <2>1, <3>2 DEF PhasesInv
    <3> QED
      BY <3>1, <3>2
  <2>3. ASSUME NEW d \in Daemons
        PROVE  /\ phase'[d] \in {"locking", "reading"} => key'[d] = Empty
               /\ phase'[d] = "writing" => key'[d] = d
               /\ Past(d)' => key'[d] # Empty
               /\ phase'[d] \notin {"creating", "forwarding"}
    <3>1. CASE d = p
      BY <1>2, <2>1, <3>1 DEF Past
    <3>2. CASE d # p
      BY <1>1, <2>1, <3>2 DEF PhasesInv, Past
    <3> QED
      BY <3>1, <3>2
  <2>4. \A q \in Procs : phase'[q] = "new" => key'[q] = Empty
    BY <1>1, <1>2 DEF PhasesInv
  <2> QED
    BY <2>2, <2>3, <2>4 DEF PhasesInv
<1>5. LockInv' /\ MakerInv'
  BY <1>1, <1>2, <1>3, PhaseSets DEF LockInv, MakerInv
<1>7. \A j \in KeyFiles : keyFile[j] \in Procs => keyFile[j] # p
  BY <1>1, <1>2 DEF FilesInv
<1>8. \A q \in Procs : phase'[q] = "writing" => q # p
  BY PhaseSets
<1>9. FilesInv'
  <2>1. \A d \in Daemons : Holds(d)' => keyFile'[keyOf'[d]] # NoFile
    BY <1>1, <1>2, <1>3, PhaseSets DEF FilesInv
  <2>2. \A q \in Procs : Made(q)' \/ key'[q] # Empty => keyFile'[keyOf'[q]] # NoFile
    BY <1>1, <1>2, <1>3 DEF FilesInv
  <2>3. \A j \in KeyFiles : keyFile'[j] \in Procs =>
           key'[keyFile'[j]] = keyFile'[j] /\ keyOf'[keyFile'[j]] = j
    BY <1>1, <1>2, <1>7 DEF FilesInv
  <2>4. \A d \in Daemons : phase'[d] = "writing" =>
           keyFile'[keyOf'[d]] \in Forwarders \cup {Empty}
    BY <1>1, <1>2, <1>8, PhaseSets DEF FilesInv
  <2>5. \A q \in Procs : Runs(q)' /\ key'[q] # Empty =>
           /\ keyFile'[keyOf'[q]] \in Procs
           /\ key'[q] = keyFile'[keyOf'[q]] \/ Both(keyOf[q])'
    <3> SUFFICES ASSUME NEW q \in Procs, Runs(q)', key'[q] # Empty
                 PROVE  /\ keyFile'[keyOf'[q]] \in Procs
                        /\ key'[q] = keyFile'[keyOf'[q]] \/ Both(keyOf[q])'
      OBVIOUS
    <3>1. q # p /\ Runs(q) /\ keyOf'[q] = keyOf[q] /\ key[q] # Empty
      BY <1>2, <1>3
    <3>2. Both(keyOf[q]) => Both(keyOf[q])'
      BY <1>2, <3>1, PhaseSets DEF Both
    <3> QED
      BY <1>1, <3>1, <3>2 DEF FilesInv
  <2> QED
    BY <2>1, <2>2, <2>3, <2>4, <2>5 DEF FilesInv
<1> QED
  BY <1>4, <1>5, <1>9 DEF KeyInv

\* The lock keeps other daemons from the file, and creates it where there is none.
LEMMA LockKeyStep ==
    ASSUME KeyInv, TypeOK', NEW d \in Daemons, K!LockKey(d) PROVE KeyInv'
<1>1. TypeOK /\ PhasesInv /\ LockInv /\ MakerInv /\ FilesInv /\ d \in Procs
  BY PhaseSets DEF KeyInv
<1>2. /\ phase \in [Procs -> K!Phases] /\ key \in [Procs -> Procs \cup {Empty}]
      /\ keyOf \in [Procs -> KeyFiles] /\ keyFile \in [KeyFiles -> Procs \cup {NoFile, Empty}]
      /\ Empty \notin Procs /\ NoFile \notin Procs /\ NoFile # Empty
  BY <1>1, PhaseSets, StartupAssumption DEF TypeOK, Procs
<1>3. /\ phase[d] = "locking" /\ phase'[d] = "reading" /\ keyOf' = keyOf /\ key' = key
      /\ \A q \in Procs : q # d => phase'[q] = phase[q]
      /\ \A k \in KeyFiles : keyFile'[k] = IF k = keyOf[d] /\ keyFile[k] = NoFile
                                              THEN Empty ELSE keyFile[k]
  BY <1>1, <1>2 DEF K!LockKey, K!Goto, K!Stores, K!Content
<1>4. \A e \in Daemons : keyOf[e] = keyOf[d] => ~Holds(e)
  BY <1>3, PhaseSets DEF K!LockKey, K!Locked, Holds
<1>5. /\ \A q \in Procs : Made(q)' <=> Made(q)
      /\ \A q \in Procs : key[q] # Empty => (Runs(q)' <=> Runs(q))
      /\ \A e \in Daemons : Holds(e)' <=> (Holds(e) \/ e = d)
      /\ key[d] = Empty
  BY <1>1, <1>3, PhaseSets DEF Made, Runs, Holds, PhasesInv
<1>6. PhasesInv' /\ LockInv' /\ MakerInv'
  <2>1. \A e \in Daemons : Past(e)' => key'[e] # Empty
    BY <1>1, <1>3, PhaseSets DEF PhasesInv, Past
  <2>2. PhasesInv'
    BY <1>1, <1>3, <2>1, PhaseSets, StartupAssumption DEF PhasesInv
  <2>3. LockInv'
    BY <1>1, <1>3, <1>4, <1>5 DEF LockInv
  <2>4. MakerInv'
    BY <1>1, <1>3, <1>5, PhaseSets DEF MakerInv
  <2> QED
    BY <2>2, <2>3, <2>4
<1>7. \A q \in Procs : keyFile[keyOf[q]] # NoFile => keyFile'[keyOf[q]] = keyFile[keyOf[q]]
  BY <1>2, <1>3
<1>8. FilesInv'
  <2>1. \A e \in Daemons : Holds(e)' => keyFile'[keyOf'[e]] # NoFile
    BY <1>1, <1>2, <1>3, <1>5, PhaseSets DEF FilesInv
  <2>2. \A q \in Procs : Made(q)' \/ key'[q] # Empty => keyFile'[keyOf'[q]] # NoFile
    BY <1>1, <1>2, <1>3, <1>5 DEF FilesInv
  <2>3. \A k \in KeyFiles : keyFile'[k] \in Procs =>
           key'[keyFile'[k]] = keyFile'[k] /\ keyOf'[keyFile'[k]] = k
    BY <1>1, <1>2, <1>3 DEF FilesInv
  <2>4. \A e \in Daemons : phase'[e] = "writing" =>
           keyFile'[keyOf'[e]] \in Forwarders \cup {Empty}
    BY <1>1, <1>2, <1>3, PhaseSets DEF FilesInv
  <2>5. \A q \in Procs : Runs(q)' /\ key'[q] # Empty =>
           /\ keyFile'[keyOf'[q]] \in Procs
           /\ key'[q] = keyFile'[keyOf'[q]] \/ Both(keyOf[q])'
    <3> SUFFICES ASSUME NEW q \in Procs, Runs(q)', key'[q] # Empty
                 PROVE  /\ keyFile'[keyOf'[q]] \in Procs
                        /\ key'[q] = keyFile'[keyOf'[q]] \/ Both(keyOf[q])'
      OBVIOUS
    <3>1. Runs(q) /\ key[q] # Empty /\ (Both(keyOf[q]) => Both(keyOf[q])')
      BY <1>3, <1>5 DEF Both
    <3> QED
      BY <1>1, <1>2, <1>3, <1>7, <3>1 DEF FilesInv
  <2> QED
    BY <2>1, <2>2, <2>3, <2>4, <2>5 DEF FilesInv
<1> QED
  BY <1>6, <1>8 DEF KeyInv

\* A process takes its key from its file, or a daemon that finds none makes one.
LEMMA ReadKeyStep ==
    ASSUME KeyInv, TypeOK', NEW p \in Procs,
           \/ p \in Daemons /\ K!ReadServeKey(p)
           \/ p \in Forwarders /\ K!ReadForwardKey(p)
    PROVE  KeyInv'
<1>1. TypeOK /\ PhasesInv /\ LockInv /\ MakerInv /\ FilesInv
  BY DEF KeyInv
<1>2. /\ phase \in [Procs -> K!Phases] /\ key \in [Procs -> Procs \cup {Empty}]
      /\ keyOf \in [Procs -> KeyFiles] /\ keyFile \in [KeyFiles -> Procs \cup {NoFile, Empty}]
      /\ Empty \notin Procs /\ NoFile \notin Procs /\ NoFile # Empty
      /\ keyFile[keyOf[p]] \in Procs \cup {NoFile, Empty}
  BY <1>1, PhaseSets, StartupAssumption DEF TypeOK, Procs
<1>3. /\ phase[p] = "reading" /\ key[p] = Empty /\ keyOf' = keyOf /\ keyFile' = keyFile
      /\ \A q \in Procs : q # p => phase'[q] = phase[q] /\ key'[q] = key[q]
  BY <1>1, <1>2 DEF K!ReadServeKey, K!ReadForwardKey, K!Goto, PhasesInv
<1>4. p \in Daemons => Holds(p) /\ keyFile[keyOf[p]] # NoFile
  BY <1>1, <1>3, PhaseSets DEF Holds, FilesInv
<1>5. \/ /\ keyFile[keyOf[p]] \in Procs /\ key'[p] = keyFile[keyOf[p]]
         /\ phase'[p] = IF p \in Daemons THEN "online" ELSE "forwarding"
      \/ /\ p \in Daemons /\ keyFile[keyOf[p]] = Empty /\ key'[p] = p /\ phase'[p] = "writing"
      \/ /\ p \in Forwarders /\ key'[p] = key[p] /\ phase'[p] \in {"creating", "ended"}
  BY <1>2, <1>4, StartupAssumption
     DEF K!ReadServeKey, K!ReadForwardKey, K!Goto, K!Content
<1>6. keyFile[keyOf[p]] # p
  BY <1>1, <1>2, <1>3 DEF FilesInv
<1>7. /\ \A q \in Procs : q # p => (Made(q)' <=> Made(q)) /\ (Runs(q)' <=> Runs(q))
      /\ \A e \in Daemons : Holds(e)' => Holds(e)
      /\ p \in Forwarders => ~Made(p)'
  BY <1>2, <1>3, <1>4, <1>5, <1>6, PhaseSets, StartupAssumption DEF Made, Runs, Holds
<1>8. PhasesInv'
  <2>1. \A e \in Daemons : Past(e)' => key'[e] # Empty
    <3>1. p \in Daemons /\ Past(p)' => key'[p] # Empty
      BY <1>2, <1>5, PhaseSets DEF Past
    <3>2. \A e \in Daemons : e # p /\ Past(e)' => key'[e] # Empty
      BY <1>1, <1>3, PhaseSets DEF PhasesInv, Past
    <3> QED
      BY <3>1, <3>2
  <2> QED
    BY <1>1, <1>3, <1>5, <2>1, PhaseSets, StartupAssumption DEF PhasesInv
<1>9. LockInv' /\ MakerInv'
  BY <1>1, <1>3, <1>7, PhaseSets DEF LockInv, MakerInv
<1>10. FilesInv'
  <2>1. \A e \in Daemons : Holds(e)' => keyFile'[keyOf'[e]] # NoFile
    BY <1>1, <1>3, <1>7 DEF FilesInv
  <2>2. \A q \in Procs : Made(q)' \/ key'[q] # Empty => keyFile'[keyOf'[q]] # NoFile
    BY <1>1, <1>2, <1>3, <1>4, <1>5, <1>7, PhaseSets DEF FilesInv
  <2>3. \A k \in KeyFiles : keyFile'[k] \in Procs =>
           key'[keyFile'[k]] = keyFile'[k] /\ keyOf'[keyFile'[k]] = k
    BY <1>1, <1>2, <1>3 DEF FilesInv
  <2>4. \A e \in Daemons : phase'[e] = "writing" =>
           keyFile'[keyOf'[e]] \in Forwarders \cup {Empty}
    BY <1>1, <1>3, <1>5, PhaseSets, StartupAssumption DEF FilesInv
  <2>5. \A q \in Procs : Runs(q)' /\ key'[q] # Empty =>
           /\ keyFile'[keyOf'[q]] \in Procs
           /\ key'[q] = keyFile'[keyOf'[q]] \/ Both(keyOf[q])'
    <3> SUFFICES ASSUME NEW q \in Procs, Runs(q)', key'[q] # Empty
                 PROVE  /\ keyFile'[keyOf'[q]] \in Procs
                        /\ key'[q] = keyFile'[keyOf'[q]] \/ Both(keyOf[q])'
      OBVIOUS
    <3>1. CASE q = p
      <4>1. phase'[p] \notin {"writing", "creating", "ended"}
        BY <3>1 DEF Runs
      <4> QED
        BY <1>3, <1>5, <3>1, <4>1
    <3>2. CASE q # p
      <4>1. Runs(q) /\ key[q] # Empty
        BY <1>3, <1>7, <3>2
      <4>2. Both(keyOf[q]) => Both(keyOf[q])'
        BY <1>2, <1>3, PhaseSets DEF Both
      <4> QED
        BY <1>1, <1>3, <3>2, <4>1, <4>2 DEF FilesInv
    <3> QED
      BY <3>1, <3>2
  <2> QED
    BY <2>1, <2>2, <2>3, <2>4, <2>5 DEF FilesInv
<1> QED
  BY <1>8, <1>9, <1>10 DEF KeyInv

LEMMA CreateKeyStep ==
    ASSUME KeyInv, TypeOK', NEW f \in Forwarders, K!CreateForwardKey(f) PROVE KeyInv'
<1>1. TypeOK /\ PhasesInv /\ LockInv /\ MakerInv /\ FilesInv /\ f \in Procs
  BY PhaseSets DEF KeyInv
<1>2. /\ phase \in [Procs -> K!Phases] /\ keyOf \in [Procs -> KeyFiles]
      /\ keyFile \in [KeyFiles -> Procs \cup {NoFile, Empty}]
      /\ Empty \notin Procs /\ NoFile \notin Procs /\ NoFile # Empty
  BY <1>1, PhaseSets, StartupAssumption DEF TypeOK, Procs
<1>3. /\ phase[f] = "creating" /\ key[f] = Empty /\ keyOf' = keyOf /\ key' = key
      /\ \A q \in Procs : q # f => phase'[q] = phase[q]
      /\ \A k \in KeyFiles : keyFile'[k] = IF k = keyOf[f] /\ keyFile[k] = NoFile
                                              THEN Empty ELSE keyFile[k]
      /\ phase'[f] = IF keyFile[keyOf[f]] = NoFile THEN "writing" ELSE "reading"
  BY <1>1, <1>2 DEF K!CreateForwardKey, K!Goto, K!Stores, K!Content, PhasesInv
<1>4. /\ \A q \in Procs : q # f => (Made(q)' <=> Made(q)) /\ (Runs(q)' <=> Runs(q))
      /\ \A e \in Daemons : Holds(e)' <=> Holds(e)
      /\ Made(f)' => keyFile[keyOf[f]] = NoFile
  BY <1>2, <1>3, PhaseSets, StartupAssumption DEF Made, Runs, Holds
<1>5. PhasesInv' /\ LockInv'
  BY <1>1, <1>3, <1>4, PhaseSets, StartupAssumption DEF PhasesInv, LockInv, Past
<1>6. MakerInv'
  <2>1. \A g \in Forwarders : keyOf[g] = keyOf[f] /\ keyFile[keyOf[f]] = NoFile => ~Made(g)
    BY <1>1, PhaseSets DEF FilesInv
  <2> QED
    BY <1>1, <1>3, <1>4, <2>1, PhaseSets DEF MakerInv
<1>7. \A q \in Procs : keyFile[keyOf[q]] # NoFile => keyFile'[keyOf[q]] = keyFile[keyOf[q]]
  BY <1>2, <1>3
<1>8. FilesInv'
  <2>1. \A e \in Daemons : Holds(e)' => keyFile'[keyOf'[e]] # NoFile
    BY <1>1, <1>3, <1>4, <1>7, PhaseSets DEF FilesInv
  <2>2. \A q \in Procs : Made(q)' \/ key'[q] # Empty => keyFile'[keyOf'[q]] # NoFile
    BY <1>1, <1>2, <1>3, <1>4 DEF FilesInv
  <2>3. \A k \in KeyFiles : keyFile'[k] \in Procs =>
           key'[keyFile'[k]] = keyFile'[k] /\ keyOf'[keyFile'[k]] = k
    BY <1>1, <1>2, <1>3 DEF FilesInv
  <2>4. \A e \in Daemons : phase'[e] = "writing" =>
           keyFile'[keyOf'[e]] \in Forwarders \cup {Empty}
    BY <1>1, <1>2, <1>3, PhaseSets, StartupAssumption DEF FilesInv
  <2>5. \A q \in Procs : Runs(q)' /\ key'[q] # Empty =>
           /\ keyFile'[keyOf'[q]] \in Procs
           /\ key'[q] = keyFile'[keyOf'[q]] \/ Both(keyOf[q])'
    <3> SUFFICES ASSUME NEW q \in Procs, Runs(q)', key'[q] # Empty
                 PROVE  /\ keyFile'[keyOf'[q]] \in Procs
                        /\ key'[q] = keyFile'[keyOf'[q]] \/ Both(keyOf[q])'
      OBVIOUS
    <3>1. q # f /\ Runs(q) /\ key[q] # Empty /\ (Both(keyOf[q]) => Both(keyOf[q])')
      BY <1>3, <1>4 DEF Both
    <3> QED
      BY <1>1, <1>2, <1>3, <1>7, <3>1 DEF FilesInv
  <2> QED
    BY <2>1, <2>2, <2>3, <2>4, <2>5 DEF FilesInv
<1> QED
  BY <1>5, <1>6, <1>8 DEF KeyInv

\* A key that is written replaces none but that of the other kind of process.
LEMMA WriteKeyStep ==
    ASSUME KeyInv, TypeOK', NEW p \in Procs,
           \/ p \in Daemons /\ K!WriteServeKey(p)
           \/ p \in Forwarders /\ K!WriteForwardKey(p)
    PROVE  KeyInv'
<1>1. TypeOK /\ PhasesInv /\ LockInv /\ MakerInv /\ FilesInv
  BY DEF KeyInv
<1>2. /\ phase \in [Procs -> K!Phases] /\ keyOf \in [Procs -> KeyFiles]
      /\ key \in [Procs -> Procs \cup {Empty}]
      /\ keyFile \in [KeyFiles -> Procs \cup {NoFile, Empty}]
      /\ Empty \notin Procs /\ NoFile \notin Procs /\ NoFile # Empty
      /\ Daemons \cap Forwarders = {}
  BY <1>1, PhaseSets, StartupAssumption DEF TypeOK, Procs
<1>3. /\ phase[p] = "writing" /\ key'[p] = p /\ keyOf' = keyOf
      /\ phase'[p] = IF p \in Daemons THEN "online" ELSE "forwarding"
      /\ \A q \in Procs : q # p => phase'[q] = phase[q] /\ key'[q] = key[q]
      /\ keyFile'[keyOf[p]] = p
      /\ \A k \in KeyFiles : k # keyOf[p] => keyFile'[k] = keyFile[k]
  BY <1>1, <1>2 DEF K!WriteServeKey, K!WriteForwardKey, K!Goto, K!Stores, PhasesInv
<1>4. p \in Daemons => Holds(p) /\ key[p] = p
  BY <1>1, <1>3, PhaseSets DEF Holds, PhasesInv
<1>5. /\ \A q \in Procs : q # p => (Made(q)' <=> Made(q)) /\ (Runs(q)' <=> Runs(q))
      /\ \A e \in Daemons : Holds(e)' => Holds(e)
      /\ Made(p)
  BY <1>3, <1>4, PhaseSets DEF Made, Runs, Holds
<1>6. keyFile[keyOf[p]] \in Procs => Both(keyOf[p])'
  <2> SUFFICES ASSUME keyFile[keyOf[p]] \in Procs PROVE Both(keyOf[p])'
    OBVIOUS
  <2> DEFINE before == keyFile[keyOf[p]]
  <2>1. key[before] = before /\ keyOf[before] = keyOf[p]
    BY <1>1, <1>2 DEF FilesInv
  <2>2. CASE p \in Daemons
    <3>1. before \in Forwarders
      BY <1>1, <1>2, <1>3, <2>2 DEF FilesInv
    <3> QED
      BY <1>2, <1>3, <2>1, <2>2, <3>1 DEF Both
  <2>3. CASE p \in Forwarders
    <3>1. key[p] = Empty /\ before # p
      BY <1>1, <1>2, <1>3, <2>1, <2>3 DEF PhasesInv
    <3>2. before \notin Forwarders
      BY <1>1, <1>5, <2>1, <2>3, <3>1 DEF MakerInv, Made
    <3>3. before \in Daemons
      BY <3>2, PhaseSets
    <3> QED
      BY <1>3, <2>1, <2>3, <3>1, <3>3 DEF Both
  <2> QED
    BY <2>2, <2>3, PhaseSets
<1>7. PhasesInv'
  BY <1>1, <1>2, <1>3, PhaseSets DEF PhasesInv, Past
<1>8. LockInv' /\ MakerInv'
  BY <1>1, <1>3, <1>5, PhaseSets DEF LockInv, MakerInv
<1>9. FilesInv'
  <2>1. \A e \in Daemons : Holds(e)' => keyFile'[keyOf'[e]] # NoFile
    BY <1>1, <1>2, <1>3, <1>5, PhaseSets DEF FilesInv
  <2>2. \A q \in Procs : Made(q)' \/ key'[q] # Empty => keyFile'[keyOf'[q]] # NoFile
    BY <1>1, <1>2, <1>3, <1>5 DEF FilesInv
  <2>3. \A k \in KeyFiles : keyFile'[k] \in Procs =>
           key'[keyFile'[k]] = keyFile'[k] /\ keyOf'[keyFile'[k]] = k
    BY <1>1, <1>2, <1>3 DEF FilesInv
  <2>4. \A e \in Daemons : phase'[e] = "writing" =>
           keyFile'[keyOf'[e]] \in Forwarders \cup {Empty}
    <3>1. \A e \in Daemons : phase[e] = "writing" => Holds(e)
      BY PhaseSets DEF Holds
    <3> QED
      BY <1>1, <1>2, <1>3, <1>4, <3>1, PhaseSets DEF FilesInv, LockInv
  <2>5. \A q \in Procs : Runs(q)' /\ key'[q] # Empty =>
           /\ keyFile'[keyOf'[q]] \in Procs
           /\ key'[q] = keyFile'[keyOf'[q]] \/ Both(keyOf[q])'
    <3> SUFFICES ASSUME NEW q \in Procs, Runs(q)', key'[q] # Empty
                 PROVE  /\ keyFile'[keyOf'[q]] \in Procs
                        /\ key'[q] = keyFile'[keyOf'[q]] \/ Both(keyOf[q])'
      OBVIOUS
    <3>1. CASE q = p
      BY <1>3, <3>1
    <3>2. CASE q # p
      <4>1. /\ Runs(q) /\ key[q] # Empty /\ keyFile[keyOf[q]] \in Procs
            /\ key[q] = keyFile[keyOf[q]] \/ Both(keyOf[q])
        BY <1>1, <1>3, <1>5, <3>2 DEF FilesInv
      <4>2. Both(keyOf[q]) => Both(keyOf[q])'
        BY <1>2, <1>3, PhaseSets DEF Both
      <4>3. CASE keyOf[q] = keyOf[p]
        BY <1>3, <1>6, <4>1, <4>3
      <4>4. CASE keyOf[q] # keyOf[p]
        BY <1>2, <1>3, <3>2, <4>1, <4>2, <4>4
      <4> QED
        BY <4>3, <4>4
    <3> QED
      BY <3>1, <3>2
  <2> QED
    BY <2>1, <2>2, <2>3, <2>4, <2>5 DEF FilesInv
<1> QED
  BY <1>7, <1>8, <1>9 DEF KeyInv

LEMMA KeyStep == KeyInv /\ [Next]_startupVars => KeyInv'
<1> SUFFICES ASSUME KeyInv, [Next]_startupVars PROVE KeyInv'
  OBVIOUS
<1>0. TypeOK'
  BY TypeStep
<1>1. /\ phase \in [Procs -> K!Phases] /\ keyOf \in [Procs -> KeyFiles]
      /\ Daemons \cap Forwarders = {}
  BY StartupAssumption DEF KeyInv, TypeOK, Procs
<1>2. ASSUME NEW d \in Daemons, NEW k \in KeyFiles, Launch(d, k) PROVE KeyInv'
  BY <1>0, <1>1, <1>2, LaunchKeys, PhaseSets DEF Launch
<1>3. ASSUME NEW f \in Forwarders, NEW k \in KeyFiles, RunForward(f, k) PROVE KeyInv'
  BY <1>0, <1>1, <1>3, LaunchKeys, PhaseSets DEF RunForward
<1>4. ASSUME NEW d \in Daemons, ServeKey(d) PROVE KeyInv'
  <2>1. CASE K!LockLost(d)
    BY <1>0, <1>1, <2>1, KeyUnseen, PhaseSets DEF K!LockLost, K!Goto
  <2> QED
    BY <1>0, <1>4, <2>1, LockKeyStep, ReadKeyStep, WriteKeyStep, PhaseSets DEF ServeKey
<1>5. ASSUME NEW f \in Forwarders, ForwardKey(f) PROVE KeyInv'
  BY <1>0, <1>5, ReadKeyStep, CreateKeyStep, WriteKeyStep, PhaseSets DEF ForwardKey
<1>6. ASSUME NEW d \in Daemons, Online(d) \/ StartFails(d) \/ Socket(d) \/ Stop(d)
      PROVE  KeyInv'
  <2>1. /\ UNCHANGED <<keyOf, key, keyFile>>
        /\ \A q \in Procs : q # d => phase'[q] = phase[q]
    BY <1>1, <1>6
       DEF Online, StartFails, Socket, Stop, P!Bind, P!Probe, P!Unlink, P!Rebind,
           P!Listen, P!Exit, P!Stop, P!MoveTo
  <2>2. phase'[d] = "ended" \/ (Past(d) /\ Past(d)')
    BY <1>1, <1>6, PhaseSets
       DEF Online, StartFails, Socket, Stop, P!Bind, P!Probe, P!Unlink, P!Rebind,
           P!Listen, P!Exit, P!Stop, P!MoveTo, Past
  <2> QED
    BY <1>0, <2>1, <2>2, KeyUnseen
<1>7. ASSUME NEW p \in Procs, Crash(p) PROVE KeyInv'
  BY <1>0, <1>1, <1>7, KeyUnseen DEF Crash
<1>8. ASSUME NEW c \in Commands, FindsServer(c) \/ PollServer(c) PROVE KeyInv'
  BY <1>0, <1>8, KeyUnseen DEF FindsServer, PollServer, processVars
<1>9. CASE UNCHANGED startupVars
  BY <1>0, <1>9, KeyUnseen DEF startupVars, processVars
<1> QED
  BY <1>2, <1>3, <1>4, <1>5, <1>6, <1>7, <1>8, <1>9
     DEF Next, DaemonStep, RunServer, SpawnsServer, Procs

LEMMA KeyInvariance == Spec => []KeyInv
BY KeyInit, KeyStep, PTL DEF Spec

\* Processes, key files, the socket's path and commands keep their types
\* (keys.rs, control_plane.rs, main.rs:54-107).
THEOREM TypeCorrect == Spec => []TypeOK
<1>1. KeyInv => TypeOK
  BY DEF KeyInv
<1> QED
  BY <1>1, KeyInvariance, PTL

\* However many daemons and forwards start, race and die, a process runs with the
\* key in its file unless a server and a forward have both made one (keys.rs:25-114).
THEOREM FilesKeyTheorem == Spec => []RunsWithItsFilesKey
<1>1. KeyInv => RunsWithItsFilesKey
  BY PhaseSets DEF KeyInv, FilesInv, RunsWithItsFilesKey, K!Content, Both, Generates, Procs
<1> QED
  BY <1>1, KeyInvariance, PTL

\* Every key was generated for the file of the process that has it.
OriginInv ==
    \A p \in Procs : key[p] # Empty =>
        key[p] \in Procs /\ key[key[p]] # Empty /\ keyOf[key[p]] = keyOf[p]

\* A process that gets a key gets its own, or the one in its file.
LEMMA OriginOfNew ==
    ASSUME KeyInv, OriginInv, NEW p \in Procs, NEW k \in Procs, keyOf' = keyOf,
           key' = [key EXCEPT ![p] = k], key[p] = Empty,
           k = p \/ (key[k] # Empty /\ keyOf[k] = keyOf[p])
    PROVE  OriginInv'
<1>1. key \in [Procs -> Procs \cup {Empty}] /\ Empty \notin Procs
  BY PhaseSets, StartupAssumption DEF KeyInv, TypeOK, Procs
<1>2. \A q \in Procs : q # p /\ key[q] # Empty => key[q] # p
  BY DEF OriginInv
<1>3. \A q \in Procs : key[q] # Empty => key'[q] = key[q]
  BY <1>1
<1>4. key'[p] = k /\ \A q \in Procs : q # p => key'[q] = key[q]
  BY <1>1
<1>5. key'[k] # Empty
  BY <1>1, <1>4
<1> QED
  BY <1>1, <1>2, <1>3, <1>4, <1>5 DEF OriginInv

LEMMA OriginStep == KeyInv /\ OriginInv /\ [Next]_startupVars => OriginInv'
<1> SUFFICES ASSUME KeyInv, OriginInv, [Next]_startupVars PROVE OriginInv'
  OBVIOUS
<1>1. /\ key \in [Procs -> Procs \cup {Empty}] /\ Empty \notin Procs
      /\ keyOf \in [Procs -> KeyFiles] /\ NoFile \notin Procs
      /\ keyFile \in [KeyFiles -> Procs \cup {NoFile, Empty}]
      /\ PhasesInv /\ FilesInv
  BY PhaseSets, StartupAssumption DEF KeyInv, TypeOK, Procs
<1>2. CASE UNCHANGED <<key, keyOf>>
  BY <1>2 DEF OriginInv
\* It has no key yet, so nobody has one of its.
<1>3. ASSUME NEW p \in Procs, NEW k \in KeyFiles, phase[p] = "new",
             key' = key, keyOf' = [keyOf EXCEPT ![p] = k]
      PROVE  OriginInv'
  <2>1. key[p] = Empty
    BY <1>1, <1>3 DEF PhasesInv
  <2>2. \A q \in Procs : key[q] # Empty => q # p /\ key[q] # p
    BY <2>1 DEF OriginInv
  <2> QED
    BY <1>1, <1>3, <2>2 DEF OriginInv
<1>4. \A p \in Procs : keyFile[keyOf[p]] \in Procs =>
        /\ key[keyFile[keyOf[p]]] # Empty /\ keyOf[keyFile[keyOf[p]]] = keyOf[p]
  BY <1>1 DEF FilesInv
<1>5. ASSUME NEW d \in Daemons, ServeKey(d) PROVE OriginInv'
  <2>1. CASE K!ReadServeKey(d)
    <3>1. d \in Procs /\ key[d] = Empty /\ keyOf' = keyOf
      BY <1>1, <2>1, PhaseSets DEF K!ReadServeKey, PhasesInv
    <3>2. keyFile[keyOf[d]] \in Procs \cup {Empty}
      <4>1. Holds(d)
        BY <2>1, PhaseSets DEF K!ReadServeKey, Holds
      <4> QED
        BY <1>1, <3>1, <4>1 DEF FilesInv
    <3>3. CASE keyFile[keyOf[d]] = Empty
      <4>1. key' = [key EXCEPT ![d] = d]
        BY <2>1, <3>3 DEF K!ReadServeKey, K!Content
      <4> QED
        BY <3>1, <4>1, OriginOfNew
    <3>4. CASE keyFile[keyOf[d]] \in Procs
      <4>1. key' = [key EXCEPT ![d] = keyFile[keyOf[d]]]
        BY <1>1, <2>1, <3>4 DEF K!ReadServeKey, K!Content
      <4> QED
        BY <1>4, <3>1, <3>4, <4>1, OriginOfNew
    <3> QED
      BY <3>2, <3>3, <3>4
  <2>2. CASE K!LockKey(d) \/ K!LockLost(d) \/ K!WriteServeKey(d)
    BY <1>2, <2>2 DEF K!LockKey, K!LockLost, K!WriteServeKey
  <2> QED
    BY <1>5, <2>1, <2>2 DEF ServeKey
<1>6. ASSUME NEW f \in Forwarders, ForwardKey(f) PROVE OriginInv'
  <2>1. CASE K!ReadForwardKey(f) /\ key' # key
    <3>1. f \in Procs /\ key[f] = Empty /\ keyOf' = keyOf
      BY <1>1, <2>1, PhaseSets DEF K!ReadForwardKey, PhasesInv
    <3>2. /\ keyFile[keyOf[f]] \in Procs
          /\ key' = [key EXCEPT ![f] = keyFile[keyOf[f]]]
      BY <1>1, <2>1, <3>1 DEF K!ReadForwardKey, K!Content
    <3> QED
      BY <1>4, <3>1, <3>2, OriginOfNew
  <2>2. CASE K!WriteForwardKey(f)
    <3>1. f \in Procs /\ key[f] = Empty /\ keyOf' = keyOf /\ key' = [key EXCEPT ![f] = f]
      BY <1>1, <2>2, PhaseSets DEF K!WriteForwardKey, PhasesInv
    <3> QED
      BY <3>1, OriginOfNew
  <2>3. CASE K!CreateForwardKey(f) \/ (K!ReadForwardKey(f) /\ key' = key)
    BY <1>2, <2>3 DEF K!CreateForwardKey, K!ReadForwardKey
  <2> QED
    BY <1>6, <2>1, <2>2, <2>3 DEF ForwardKey
<1>7. ASSUME NEW d \in Daemons, NEW k \in KeyFiles, Launch(d, k) PROVE OriginInv'
  BY <1>3, <1>7, PhaseSets DEF Launch
<1>8. ASSUME NEW f \in Forwarders, NEW k \in KeyFiles, RunForward(f, k) PROVE OriginInv'
  BY <1>3, <1>8, PhaseSets DEF RunForward
<1>9. ASSUME NEW d \in Daemons, Online(d) \/ StartFails(d) \/ Socket(d) \/ Stop(d)
      PROVE  OriginInv'
  BY <1>2, <1>9 DEF Online, StartFails, Socket, Stop
<1>10. ASSUME NEW p \in Procs, Crash(p) PROVE OriginInv'
  BY <1>2, <1>10 DEF Crash
<1>11. ASSUME NEW c \in Commands, FindsServer(c) \/ PollServer(c) PROVE OriginInv'
  BY <1>2, <1>11 DEF FindsServer, PollServer, processVars
<1>12. CASE UNCHANGED startupVars
  BY <1>2, <1>12 DEF startupVars, processVars
<1> QED
  BY <1>5, <1>6, <1>7, <1>8, <1>9, <1>10, <1>11, <1>12
     DEF Next, DaemonStep, RunServer, SpawnsServer, Procs

\* However many daemons start, race and die, beside forwards that write key files of
\* their own, no two have an endpoint of one identity (keys.rs:120-145): the same
\* key is one for the same file, and a file's lock is held by one of them.
THEOREM IdentityTheorem == Spec => []IdentityIsUnique
<1>1. Init => OriginInv
  BY PhaseSets DEF Init, OriginInv, Procs
<1>2. KeyInv /\ OriginInv => IdentityIsUnique
  <2> SUFFICES ASSUME KeyInv, OriginInv, NEW d \in Daemons, NEW e \in Daemons,
                      HasEndpoint(d), HasEndpoint(e), key[d] = key[e]
               PROVE  d = e
    BY DEF IdentityIsUnique
  <2>1. \A g \in Daemons : HasEndpoint(g) => Holds(g) /\ Runs(g)
    BY PhaseSets DEF HasEndpoint, Alive, Holds, Runs
  <2>2. key[d] # Empty /\ key[e] # Empty
    BY PhaseSets DEF KeyInv, PhasesInv, HasEndpoint, Alive, Past
  <2>3. keyOf[d] = keyOf[e]
    BY <2>2, PhaseSets DEF OriginInv
  <2> QED
    BY <2>1, <2>3 DEF KeyInv, LockInv
<1> QED
  BY <1>1, <1>2, KeyInvariance, OriginStep, PTL DEF Spec

LEMMA SettledStep ==
    ASSUME KeyInv, [Next]_startupVars, NEW k \in KeyFiles, Settled(k)
    PROVE  Settled(k)' /\ keyFile'[k] = keyFile[k]
<1>1. /\ phase \in [Procs -> K!Phases] /\ keyOf \in [Procs -> KeyFiles]
      /\ keyFile \in [KeyFiles -> Procs \cup {NoFile, Empty}]
      /\ keyFile[k] \in Procs /\ Empty \notin Procs /\ NoFile \notin Procs
      /\ \A p \in Procs : keyOf[p] = k => phase[p] # "writing"
  BY StartupAssumption, PhaseSets DEF KeyInv, TypeOK, Procs, Settled
<1> DEFINE Stays == Settled(k)' /\ keyFile'[k] = keyFile[k]
<1>2. ASSUME keyFile'[k] = keyFile[k],
             \A p \in Procs : phase'[p] = "writing" /\ keyOf'[p] = k =>
                                 phase[p] = "writing" /\ keyOf[p] = k
      PROVE  Stays
  BY <1>1, <1>2 DEF Settled, Procs
<1> HIDE DEF Stays
<1>3. ASSUME NEW d \in Daemons, NEW j \in KeyFiles, Launch(d, j) PROVE Stays
  BY <1>1, <1>2, <1>3, PhaseSets DEF Launch
<1>4. ASSUME NEW f \in Forwarders, NEW j \in KeyFiles, RunForward(f, j) PROVE Stays
  BY <1>1, <1>2, <1>4, PhaseSets DEF RunForward
<1>5. ASSUME NEW d \in Daemons, K!LockKey(d) \/ K!LockLost(d) PROVE Stays
  BY <1>1, <1>2, <1>5, PhaseSets DEF K!LockKey, K!LockLost, K!Goto, K!Stores, K!Content
<1>6. ASSUME NEW d \in Daemons, K!ReadServeKey(d) PROVE Stays
  BY <1>1, <1>2, <1>6, PhaseSets DEF K!ReadServeKey, K!Goto, K!Content
<1>7. ASSUME NEW d \in Daemons, K!WriteServeKey(d) PROVE Stays
  BY <1>1, <1>2, <1>7, PhaseSets DEF K!WriteServeKey, K!Goto, K!Stores
<1>8. ASSUME NEW f \in Forwarders, K!ReadForwardKey(f) PROVE Stays
  BY <1>1, <1>2, <1>8, PhaseSets DEF K!ReadForwardKey, K!Goto, K!Content
<1>9. ASSUME NEW f \in Forwarders, K!CreateForwardKey(f) PROVE Stays
  BY <1>1, <1>2, <1>9, PhaseSets DEF K!CreateForwardKey, K!Goto, K!Stores, K!Content
<1>10. ASSUME NEW f \in Forwarders, K!WriteForwardKey(f) PROVE Stays
  BY <1>1, <1>2, <1>10, PhaseSets DEF K!WriteForwardKey, K!Goto, K!Stores
<1>11. ASSUME NEW d \in Daemons, Online(d) \/ StartFails(d) \/ Socket(d) \/ Stop(d)
       PROVE  Stays
  BY <1>1, <1>2, <1>11, PhaseSets
     DEF Online, StartFails, Socket, Stop, P!Bind, P!Probe, P!Unlink, P!Rebind,
         P!Listen, P!Exit, P!Stop, P!MoveTo
<1>12. ASSUME NEW p \in Procs, Crash(p) PROVE Stays
  BY <1>1, <1>2, <1>12 DEF Crash
<1>13. ASSUME NEW c \in Commands, FindsServer(c) \/ PollServer(c) PROVE Stays
  BY <1>1, <1>2, <1>13 DEF FindsServer, PollServer, processVars
<1>14. ASSUME UNCHANGED startupVars PROVE Stays
  BY <1>1, <1>2, <1>14 DEF startupVars, processVars
<1>15. Stays
  <2>1. ASSUME NEW d \in Daemons, ServeKey(d) PROVE Stays
    BY <1>5, <1>6, <1>7, <2>1 DEF ServeKey
  <2>2. ASSUME NEW f \in Forwarders, ForwardKey(f) PROVE Stays
    BY <1>8, <1>9, <1>10, <2>2 DEF ForwardKey
  <2> QED
    BY <1>3, <1>4, <1>11, <1>12, <1>13, <1>14, <2>1, <2>2
       DEF Next, DaemonStep, RunServer, SpawnsServer, Procs
<1> QED
  BY <1>15 DEF Stays

\* A key that is in a file, and that nobody is writing, stays there for good
\* (keys.rs:25-60, 89-114).
THEOREM SettledTheorem == Spec => SettledKeyStays
<1>1. KeyInv /\ [Next]_startupVars =>
        [\A k \in KeyFiles : Settled(k) => Settled(k)' /\ keyFile'[k] = keyFile[k]]_startupVars
  BY SettledStep
<1> QED
  BY <1>1, KeyInvariance, PTL DEF Spec, SettledKeyStays

----------------------------------------------------------------------------
(* The socket                                                              *)

\* Daemons that start at the same time are after the same key file, so that its
\* lock lets one of them at the socket; that one has the path once it has bound it,
\* and takes a file away only when nobody serves.
Takes(d) == phase[d] \in {"unlinking", "rebinding", "bound"}

SocketInv ==
    /\ \A d, e \in Daemons : Starting(d) /\ Starting(e) => keyOf[d] = keyOf[e]
    /\ \A d \in Daemons : phase[d] = "bound" => path = d
    /\ \A d, e \in Daemons : Takes(d) => ~Serving(e)
    /\ ServerIsReachable

LEMMA SocketInit == Init => SocketInv
BY PhaseSets DEF Init, SocketInv, Starting, Takes, Serving, ServerIsReachable, Procs

\* Steps that leave the path alone, and in which no daemon goes on at the socket
\* or starts to serve.
LEMMA SocketUnseen ==
    ASSUME SocketInv, path' = path,
           \A d \in Daemons :
              /\ Starting(d)' => Starting(d) /\ keyOf'[d] = keyOf[d]
              /\ phase'[d] \in {"unlinking", "rebinding", "bound", "serving"} =>
                    phase'[d] = phase[d]
    PROVE  SocketInv'
BY DEF SocketInv, Takes, Serving, ServerIsReachable

LEMMA LaunchSocket ==
    ASSUME KeyInv, SocketInv, Overlap = FALSE, NEW d \in Daemons, NEW k \in KeyFiles,
           Launch(d, k)
    PROVE  SocketInv'
<1>1. /\ phase \in [Procs -> K!Phases] /\ keyOf \in [Procs -> KeyFiles]
  BY DEF KeyInv, TypeOK, Procs
<1>2. /\ phase'[d] = "locking" /\ keyOf'[d] = k /\ path' = path
      /\ \A e \in Daemons : e # d => phase'[e] = phase[e] /\ keyOf'[e] = keyOf[e]
      /\ \A e \in Daemons : Starting(e) => keyOf[e] = k
  BY <1>1, PhaseSets DEF Launch
<1>3. \A e \in Daemons : e # d => (Starting(e)' <=> Starting(e))
  BY <1>2, PhaseSets DEF Starting
<1> QED
  BY <1>1, <1>2, <1>3, PhaseSets DEF SocketInv, Takes, Serving, ServerIsReachable

LEMMA SocketStep ==
    ASSUME KeyInv, SocketInv, NEW d \in Daemons,
           P!Bind(d) \/ P!Probe(d) \/ P!Unlink(d) \/ P!Rebind(d) \/ P!Listen(d)
              \/ P!Exit(d) \/ P!Stop(d),
           keyOf' = keyOf
    PROVE  SocketInv'
<1>1. /\ phase \in [Procs -> K!Phases] /\ keyOf \in [Procs -> KeyFiles]
      /\ path \in Daemons \cup {NoFile} /\ NoFile \notin Daemons
      /\ Daemons \subseteq Procs
  BY PhaseSets, StartupAssumption DEF KeyInv, TypeOK, Procs
\* No other daemon is at the socket while this one is.
<1>2. ASSUME Starting(d), phase[d] # "locking", NEW e \in Daemons, e # d
      PROVE  phase[e] \notin {"binding", "probing", "unlinking", "rebinding", "bound"}
  BY <1>2, PhaseSets DEF SocketInv, KeyInv, LockInv, Starting, Holds
<1>3. \A e \in Daemons : e # d => phase'[e] = phase[e]
  BY <1>1 DEF P!Bind, P!Probe, P!Unlink, P!Rebind, P!Listen, P!Exit, P!Stop, P!MoveTo
<1>4. \A e, f \in Daemons : Starting(e)' /\ Starting(f)' => keyOf'[e] = keyOf'[f]
  <2>1. Starting(d)' => Starting(d)
    BY <1>1, PhaseSets
       DEF P!Bind, P!Probe, P!Unlink, P!Rebind, P!Listen, P!Exit, P!Stop, P!MoveTo, Starting
  <2> QED
    BY <1>3, <2>1 DEF SocketInv, Starting
<1> DEFINE Goal == /\ \A e \in Daemons : phase'[e] = "bound" => path' = e
                   /\ \A e, f \in Daemons : Takes(e)' => ~Serving(f)'
                   /\ \A e \in Daemons : Serving(e)' => path' = e
<1> SUFFICES Goal
  BY <1>4 DEF SocketInv, ServerIsReachable
<1>5. /\ \A e \in Daemons : phase[e] = "bound" => path = e
      /\ \A e, f \in Daemons : Takes(e) => ~Serving(f)
      /\ \A e \in Daemons : Serving(e) => path = e
  BY DEF SocketInv, ServerIsReachable
<1>6. ASSUME P!Bind(d) \/ P!Rebind(d) PROVE Goal
  <2>1. Starting(d) /\ phase[d] # "locking"
    BY <1>6, PhaseSets DEF P!Bind, P!Rebind, Starting
  <2>2. \/ path = NoFile /\ path' = d /\ phase'[d] = "bound"
        \/ path' = path /\ phase'[d] \in {"probing", "ended"}
    BY <1>1, <1>6 DEF P!Bind, P!Rebind, P!MoveTo
  <2>3. path = NoFile => \A e \in Daemons : ~Serving(e)
    BY <1>1, <1>5
  <2> QED
    BY <1>2, <1>3, <1>5, <2>1, <2>2, <2>3 DEF Takes, Serving
<1>7. ASSUME P!Probe(d) PROVE Goal
  <2>1. Starting(d) /\ phase[d] # "locking"
    BY <1>7, PhaseSets DEF P!Probe, Starting
  <2>2. /\ path' = path
        /\ \/ phase'[d] = "ended"
           \/ phase'[d] = "unlinking" /\ ~P!Answered
    BY <1>1, <1>7 DEF P!Probe, P!MoveTo
  <2>3. ~P!Answered => \A e \in Daemons : ~Serving(e)
    BY <1>1, <1>5 DEF P!Answered, Serving
  <2> QED
    BY <1>2, <1>3, <1>5, <2>1, <2>2, <2>3 DEF Takes, Serving
<1>8. ASSUME P!Unlink(d) PROVE Goal
  <2>1. /\ Starting(d) /\ phase[d] # "locking" /\ Takes(d)
        /\ phase'[d] = "rebinding" /\ path' = NoFile
    BY <1>1, <1>8, PhaseSets DEF P!Unlink, P!MoveTo, Starting, Takes
  <2> QED
    BY <1>2, <1>3, <1>5, <2>1 DEF Takes, Serving
<1>9. ASSUME P!Listen(d) PROVE Goal
  <2>1. /\ Starting(d) /\ phase[d] # "locking" /\ Takes(d) /\ path = d
        /\ phase'[d] = "serving" /\ path' = path
    BY <1>1, <1>5, <1>9, PhaseSets DEF P!Listen, P!MoveTo, Starting, Takes
  <2> QED
    BY <1>2, <1>3, <1>5, <2>1 DEF Takes, Serving
<1>10. ASSUME P!Exit(d) PROVE Goal
  <2>1. phase'[d] = "ended" /\ path' = path
    BY <1>1, <1>10 DEF P!Exit, P!MoveTo
  <2> QED
    BY <1>3, <1>5, <2>1 DEF Takes, Serving
<1>11. ASSUME P!Stop(d) PROVE Goal
  <2>1. Serving(d) /\ phase'[d] = "stopping" /\ path' = NoFile /\ path = d
    BY <1>1, <1>5, <1>11 DEF P!Stop, P!MoveTo, Serving
  <2>2. \A e \in Daemons : e # d => ~Serving(e) /\ phase[e] # "bound"
    BY <1>5, <2>1
  <2> QED
    BY <1>3, <1>5, <2>1, <2>2 DEF Takes, Serving
<1> HIDE DEF Goal
<1> QED
  BY <1>6, <1>7, <1>8, <1>9, <1>10, <1>11

LEMMA ReachableStep ==
    ASSUME Overlap = FALSE, KeyInv, SocketInv, [Next]_startupVars PROVE SocketInv'
<1>1. /\ phase \in [Procs -> K!Phases] /\ keyOf \in [Procs -> KeyFiles]
      /\ Daemons \subseteq Procs /\ Daemons \cap Forwarders = {}
  BY PhaseSets, StartupAssumption DEF KeyInv, TypeOK, Procs
<1>2. ASSUME NEW d \in Daemons, NEW k \in KeyFiles, Launch(d, k) PROVE SocketInv'
  BY <1>2, LaunchSocket
<1>3. ASSUME NEW f \in Forwarders, NEW k \in KeyFiles, RunForward(f, k) PROVE SocketInv'
  BY <1>1, <1>3, SocketUnseen, PhaseSets DEF RunForward, Starting
<1>4. ASSUME NEW d \in Daemons, ServeKey(d) PROVE SocketInv'
  <2>1. /\ path' = path /\ keyOf' = keyOf /\ Starting(d)
        /\ phase'[d] \in {"reading", "writing", "online", "ended"}
        /\ \A e \in Daemons : e # d => phase'[e] = phase[e]
    BY <1>1, <1>4, PhaseSets
       DEF ServeKey, K!LockKey, K!LockLost, K!ReadServeKey, K!WriteServeKey, K!Goto, Starting
  <2> QED
    BY <1>1, <2>1, SocketUnseen, PhaseSets DEF Starting
<1>5. ASSUME NEW f \in Forwarders, ForwardKey(f) PROVE SocketInv'
  <2>1. path' = path /\ keyOf' = keyOf /\ \A e \in Daemons : phase'[e] = phase[e]
    BY <1>1, <1>5, PhaseSets
       DEF ForwardKey, K!ReadForwardKey, K!CreateForwardKey, K!WriteForwardKey, K!Goto
  <2> QED
    BY <1>1, <2>1, SocketUnseen, PhaseSets DEF Starting
<1>6. ASSUME NEW d \in Daemons, Online(d) \/ StartFails(d) PROVE SocketInv'
  <2>1. /\ path' = path /\ keyOf' = keyOf /\ Starting(d)
        /\ phase'[d] \in {"binding", "ended"}
        /\ \A e \in Daemons : e # d => phase'[e] = phase[e]
    BY <1>1, <1>6, PhaseSets DEF Online, StartFails, Starting
  <2> QED
    BY <1>1, <2>1, SocketUnseen, PhaseSets DEF Starting
<1>7. ASSUME NEW d \in Daemons, Socket(d) \/ Stop(d) PROVE SocketInv'
  BY <1>7, SocketStep DEF Socket, Stop
<1>8. ASSUME NEW p \in Procs, Crash(p) PROVE SocketInv'
  BY <1>1, <1>8, SocketUnseen, PhaseSets DEF Crash, Starting
<1>9. ASSUME UNCHANGED processVars PROVE SocketInv'
  BY <1>9, SocketUnseen DEF processVars, Starting
<1> QED
  BY <1>2, <1>3, <1>4, <1>5, <1>6, <1>7, <1>8, <1>9
     DEF Next, DaemonStep, RunServer, SpawnsServer, FindsServer, PollServer, Procs,
         startupVars

\* As long as daemons of different key files do not start at the same moment, a
\* daemon that serves has the socket, through stale files, crashes and shutdowns of
\* any number of others (control_plane.rs:103-117, 226-271).
THEOREM ReachableTheorem == Overlap = FALSE => (Spec => []ServerIsReachable)
<1> SUFFICES ASSUME Overlap = FALSE PROVE Spec => []ServerIsReachable
  OBVIOUS
<1>1. KeyInv /\ SocketInv /\ [Next]_startupVars => KeyInv' /\ SocketInv'
  BY KeyStep, ReachableStep
<1>2. SocketInv => ServerIsReachable
  BY DEF SocketInv
<1> QED
  BY <1>1, <1>2, KeyInit, SocketInit, PTL DEF Spec
=============================================================================
