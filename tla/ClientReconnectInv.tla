-------------------------- MODULE ClientReconnectInv --------------------------
(***************************************************************************)
(* The inductive invariant behind BlipSurvived and VerdictPrompt: how old  *)
(* a streak can be against the outage that it is about, and against the    *)
(* wait that is under way.                                                 *)
(***************************************************************************)
EXTENDS ClientReconnect

\* The grace for a dead daemon is not the shorter one.  (client.rs has 3 and 5
\* seconds, a backoff of at most 10 and 15 for an attempt.)
GraceAssumption ==
    /\ {SocketGrace, DaemonGrace, AttemptTimeout, MaxFaults} \subseteq Nat
    /\ BackoffMax \in Nat \ {0}
    /\ SocketGrace <= DaemonGrace

Looping == pc \in {"wait", "attempt"}

\* A client that ended for want of a server has seen a second death, or one as
\* long as the grace.
VerdictInv ==
    /\ why \in {"none", "socket_gone", "daemon_gone", "handshake", "session", "user"}
    /\ pc = "exit" <=> why # "none"
    /\ why \in {"socket_gone", "daemon_gone"} =>
           deaths = 2 \/ (deaths = 1 /\ dead >= SocketGrace)

\* No streak is older than the only death so far; once that is over, a streak
\* goes on until somebody looks.
Bounded(sg, dg) ==
    /\ deaths # 0
    /\ deaths = 1 => /\ sg <= dead \/ dead >= SocketGrace
                     /\ dg <= dead \/ dead >= SocketGrace

OutageInv ==
    Looping =>
        /\ LooksDead => Bounded(socket_gone, daemon_gone)
        /\ deaths = 0 => socket_gone = -1 /\ daemon_gone = -1

\* An attempt is made when the socket is there or somebody may restore it, which
\* ends the streak; a wait that has not been parked ends with the grace.
WaitInv ==
    /\ pc = "attempt" => socket_gone = -1
    /\ pc = "wait" /\ ~was_offline /\ socket_gone # -1 =>
           socket_gone + left <= SocketGrace

IInv == TypeOK /\ VerdictInv /\ OutageInv /\ WaitInv
=============================================================================
