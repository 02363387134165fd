------------------------------ MODULE KeyFile ------------------------------
(***************************************************************************)
(* The secret key files (src/keys.rs) that give an endpoint its identity.  *)
(* A daemon locks its file for as long as it lives and, where the file is  *)
(* empty, generates the key.  A `forward --key-file` takes no lock: it     *)
(* reads the file, or creates it with create_new.                          *)
(*                                                                         *)
(* A key is named by the process that generated it.  The module has no     *)
(* specification of its own: its actions are steps of processes (module    *)
(* Startup), whose other steps it knows by the phases they may be in.      *)
(***************************************************************************)
CONSTANTS
    Daemons, Forwarders,    \* processes, each started at most once
    KeyFiles,
    NoFile,                 \* there is no file at the path
    Empty                   \* there is one, without content

VARIABLES
    phase,      \* each process's progress
    keyOf,      \* the key file it was given
    key,        \* the key it runs with, or Empty before it has one
    keyFile     \* [KeyFiles -> NoFile, Empty, or the key's generator]

Procs == Daemons \cup Forwarders

\* Phases in which a daemon's process lives, its file locked but in the first.
DaemonStarts == {"locking", "reading", "writing", "online", "binding", "probing",
                 "unlinking", "rebinding", "bound"}
DaemonLives == DaemonStarts \cup {"serving", "stopping"}

Phases == {"new", "creating", "forwarding", "ended"} \cup DaemonLives

Locked(k) == \E d \in Daemons :
                 keyOf[d] = k /\ phase[d] \in DaemonLives \ {"locking"}

Content(p) == keyFile[keyOf[p]]

Goto(p, next) == phase' = [phase EXCEPT ![p] = next]
Stores(p, content) == keyFile' = [keyFile EXCEPT ![keyOf[p]] = content]

\* The server does not heed that another holds the lock.
LockKeyAnyway(d) ==
    /\ phase[d] = "locking"
    /\ Goto(d, "reading")
    /\ IF Content(d) = NoFile THEN Stores(d, Empty) ELSE UNCHANGED keyFile
    /\ UNCHANGED <<keyOf, key>>

\* The server opens its file with create(true), never truncating, and takes the
\* lock on it.
LockKey(d) ==
    /\ phase[d] = "locking"
    /\ ~Locked(keyOf[d])
    /\ Goto(d, "reading")
    /\ IF Content(d) = NoFile THEN Stores(d, Empty) ELSE UNCHANGED keyFile
    /\ UNCHANGED <<keyOf, key>>

\* "another iroh-proxy server may already be running": the process exits.
LockLost(d) ==
    /\ phase[d] = "locking"
    /\ Locked(keyOf[d])
    /\ Goto(d, "ended")
    /\ UNCHANGED <<keyOf, key, keyFile>>

\* The server generates a key whatever the file holds.
ReadServeKeyBlindly(d) ==
    /\ phase[d] = "reading"
    /\ key' = [key EXCEPT ![d] = d]
    /\ Goto(d, "writing")
    /\ UNCHANGED <<keyOf, keyFile>>

\* The locked file is read; a key is generated where it is empty.
ReadServeKey(d) ==
    /\ phase[d] = "reading"
    /\ IF Content(d) = Empty
          THEN key' = [key EXCEPT ![d] = d] /\ Goto(d, "writing")
          ELSE key' = [key EXCEPT ![d] = Content(d)] /\ Goto(d, "online")
    /\ UNCHANGED <<keyOf, keyFile>>

\* The generated key replaces what the file holds by now.
WriteServeKey(d) ==
    /\ phase[d] = "writing"
    /\ Stores(d, key[d])
    /\ Goto(d, "online")
    /\ UNCHANGED <<keyOf, key>>

\* forward --key-file: what is in the file is the key, and an empty file is an
\* invalid one.
ReadForwardKey(f) ==
    /\ phase[f] = "reading"
    /\ CASE Content(f) = NoFile -> Goto(f, "creating") /\ UNCHANGED key
         [] Content(f) = Empty  -> Goto(f, "ended") /\ UNCHANGED key
         [] OTHER -> Goto(f, "forwarding") /\ key' = [key EXCEPT ![f] = Content(f)]
    /\ UNCHANGED <<keyOf, keyFile>>

\* The file is opened with create instead of create_new.
CreateForwardKeyAnyway(f) ==
    /\ phase[f] = "creating"
    /\ Stores(f, Empty) /\ Goto(f, "writing")
    /\ UNCHANGED <<keyOf, key>>

\* create_new fails for a file that showed up meanwhile, which is then read.
CreateForwardKey(f) ==
    /\ phase[f] = "creating"
    /\ IF Content(f) = NoFile
          THEN Stores(f, Empty) /\ Goto(f, "writing")
          ELSE Goto(f, "reading") /\ UNCHANGED keyFile
    /\ UNCHANGED <<keyOf, key>>

WriteForwardKey(f) ==
    /\ phase[f] = "writing"
    /\ Stores(f, f)
    /\ key' = [key EXCEPT ![f] = f]
    /\ Goto(f, "forwarding")
    /\ UNCHANGED keyOf
============================================================================
