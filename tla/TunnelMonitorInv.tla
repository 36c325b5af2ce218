--------------------------- MODULE TunnelMonitorInv ---------------------------
(***************************************************************************)
(* The inductive invariant behind BackoffClimbs and GhostSpawnsOnce: what  *)
(* the next sleep keeps of the climb, and where the loop is after it has   *)
(* spawned ssh without its lock.                                           *)
(***************************************************************************)
EXTENDS TunnelMonitor

\* The backoff is a second at least.  (connect.rs has a limit of 60 seconds and
\* 2 strikes.)
BackoffAssumption ==
    MaxBackoff \in Nat \ {0} /\ Strikes \in Nat /\ MaxFaults \in Nat

\* What the next attempt doubles has not fallen behind the climb, although it is
\* not the backoff itself: it is 0 after a kill of our own and 1 after health.
ClimbInv ==
    /\ backoff >= Climb(streak)
    /\ pc \in {"respawn", "wait", "ready"} => sleep >= Climb(streak) \/ streak = 0

\* A kick from before the outage is discarded when respawn_tunnel begins.
KickInv == kick = "old" => pc \in {"select", "exit"}

\* A lock that is lost stays lost, and both ways back to a spawn look at it.
GhostInv == ghosted # 0 => ghosted = 1 /\ ~owned /\ pc \in {"select", "respawn", "exit"}

IInv == TypeOK /\ ClimbInv /\ KickInv /\ GhostInv
=============================================================================
