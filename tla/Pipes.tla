------------------------------- MODULE Pipes -------------------------------
(***************************************************************************)
(* One direction of a byte stream: a half of a TCP socket or of a QUIC     *)
(* bidirectional stream, as src/proxy.rs and src/daemon/routes.rs use them *)
(* through tokio and noq.  Bytes are delivered in order and unaltered, so  *)
(* a pipe is the number of chunks written and the number read, with the    *)
(* state of its two ends:                                                  *)
(*                                                                         *)
(*   wr = "open"   the writer may still write                              *)
(*   wr = "fin"    it ended the stream: the reader sees EOF after the rest *)
(*   wr = "dead"   it reset the stream: the reader gets an error           *)
(*   rd = "gone"   the reader left: a write fails                          *)
(*                                                                         *)
(* Dropping a tokio OwnedWriteHalf shuts the socket's write side down, and *)
(* dropping a noq SendStream finishes it, so an owner that goes away in an *)
(* error leaves "fin" behind, the same as one that ended properly.         *)
(***************************************************************************)
EXTENDS Naturals

CONSTANT Cap      \* chunks in flight that a pipe holds before a write waits

ASSUME CapAssumption == Cap \in Nat \ {0}

Pipe == [sent: Nat, got: Nat, wr: {"open", "fin", "dead"}, rd: {"open", "gone"}]

EmptyPipe == [sent |-> 0, got |-> 0, wr |-> "open", rd |-> "open"]

HasData(p) == p.got < p.sent
HasRoom(p) == p.sent < p.got + Cap

\* Everything written was read and the writer is done.
AtEof(p) == p.wr = "fin" /\ ~HasData(p)

Put(p) == [p EXCEPT !.sent = @ + 1]
Take(p) == [p EXCEPT !.got = @ + 1]
Finish(p) == IF p.wr = "open" THEN [p EXCEPT !.wr = "fin"] ELSE p
Reset(p) == [p EXCEPT !.wr = "dead"]
StopReading(p) == [p EXCEPT !.rd = "gone"]
============================================================================
