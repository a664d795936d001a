-------------------------- MODULE MCReversedServer --------------------------
(***************************************************************************)
(* Small instances of ReversedServer for TLC.                              *)
(***************************************************************************)
EXTENDS ReversedServer

\* Streams, calls and removers only differ by their names.
Symmetry ==
    Permutations(Streams) \cup Permutations(Calls) \cup Permutations(Removers)
=============================================================================
