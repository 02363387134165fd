------------------------------ MODULE MCRules ------------------------------
(***************************************************************************)
(* Bindings for the run of Rules: three ways to write forwards to one      *)
(* remote - again with another timeout, and typed otherwise than the       *)
(* daemon lists it - and a forward to another remote.                      *)
(***************************************************************************)
EXTENDS Rules, TLC

CONSTANTS plain, slower, retyped, other

MCBindings == {plain, slower, retyped, other}
MCRemote == plain :> "a" @@ slower :> "a" @@ retyped :> "A" @@ other :> "b"
MCShown == plain :> "a" @@ slower :> "a" @@ retyped :> "a" @@ other :> "b"

\* Nothing tells one command, or one target of a service, from another.
Symmetry == Permutations(Commands) \cup Permutations(Targets)
=============================================================================
