----------------------------- MODULE MCRegistry -----------------------------
(* Small instances of Registry: clients, and the one name sessions can have. *)
EXTENDS Registry

CONSTANTS alice, bob, web
=============================================================================
