-------------------------- MODULE MCSessionStream --------------------------
(* Small instances of SessionStream. *)
EXTENDS SessionStreamInv

CONSTANTS alice, bob

\* Two machines, and two terminals of one machine.
TwoDevices == [c \in Clients |-> c]
OneDevice  == [c \in Clients |-> "laptop"]
=============================================================================
