----------------------------- MODULE OutputLog -----------------------------
(***************************************************************************)
(* What a gritty session promises the terminals that watch it: the PTY     *)
(* output is an append-only log of bytes, and each client process is a     *)
(* reader that goes through the log once, forwards, without ever showing a *)
(* byte twice or a byte the shell has not produced.  A reader may pass     *)
(* over bytes; lost records the ones it passed over without a word.        *)
(***************************************************************************)
EXTENDS Integers

CONSTANT Clients

VARIABLES
    log,     \* number of bytes the PTY has produced
    cursor,  \* cursor[c]: the first byte client c has not been through
    lost     \* lost[c]: bytes c was moved past without being shown or told

logVars == <<log, cursor, lost>>

Init ==
    /\ log = 0
    /\ cursor = [c \in Clients |-> 0]
    /\ lost = [c \in Clients |-> {}]

\* The shell writes more bytes.
Produce ==
    /\ log' \in Nat
    /\ log' > log
    /\ UNCHANGED <<cursor, lost>>

\* Client c is taken through the bytes lo .. hi-1; it never goes back, and the
\* bytes between its cursor and lo are the ones it lost.
Show(c) ==
    \E lo \in cursor[c]..log : \E hi \in (lo + 1)..log :
        /\ cursor' = [cursor EXCEPT ![c] = hi]
        /\ lost' = [lost EXCEPT ![c] = @ \cup cursor[c]..(lo - 1)]
        /\ UNCHANGED log

Next == Produce \/ \E c \in Clients : Show(c)

Spec == Init /\ [][Next]_logVars
=============================================================================
