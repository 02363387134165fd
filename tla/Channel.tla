------------------------------ MODULE Channel ------------------------------
(***************************************************************************)
(* What one direction of a forwarded connection promises, whatever happens *)
(* between its two programs (ROADMAP.md:27, "two explicit one-way copies   *)
(* with well-defined half-close and teardown behavior"): the reader gets a *)
(* prefix of what was written, nothing after the end it is shown, and that *)
(* end is either clean, after everything the writer wrote and after the    *)
(* writer ended, or the mark of a transfer that was cut short.             *)
(***************************************************************************)
EXTENDS Naturals

VARIABLES
    written,    \* chunks the writing program wrote
    ended,      \* it ended its side
    delivered,  \* chunks handed to the reading program's socket
    end         \* "open", or how that socket's stream was ended

channelVars == <<written, ended, delivered, end>>

Init == written = 0 /\ ended = FALSE /\ delivered = 0 /\ end = "open"

Write ==
    /\ ~ended
    /\ written' = written + 1
    /\ UNCHANGED <<ended, delivered, end>>

EndWriting ==
    /\ ~ended
    /\ ended' = TRUE
    /\ UNCHANGED <<written, delivered, end>>

Deliver ==
    /\ end = "open"
    /\ delivered < written
    /\ delivered' = delivered + 1
    /\ UNCHANGED <<written, ended, end>>

EndClean ==
    /\ end = "open"
    /\ ended
    /\ delivered = written
    /\ end' = "clean"
    /\ UNCHANGED <<written, ended, delivered>>

EndCut ==
    /\ end = "open"
    /\ end' = "cut"
    /\ UNCHANGED <<written, ended, delivered>>

Next == Write \/ EndWriting \/ Deliver \/ EndClean \/ EndCut

Spec == Init /\ [][Next]_channelVars
============================================================================
