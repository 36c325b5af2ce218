-------------------------- MODULE MCControlSocket --------------------------
(* Small instances of ControlSocket. *)
EXTENDS ControlSocketInv, TLC

CONSTANTS d1, d2, d3

\* Daemon processes are interchangeable.
Symmetric == Permutations(Daemons)
=============================================================================
