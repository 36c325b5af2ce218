------------------------------ MODULE TunnelInv ------------------------------
(***************************************************************************)
(* The inductive invariant behind DropKeepsOwner: who has the lock file    *)
(* open and its flock at each step, and what a guard that has looked at    *)
(* the lock may still rely on when it unlinks.                             *)
(***************************************************************************)
EXTENDS Tunnel

\* Processes are told apart; there are finitely many, so a new file gets a number.
ProcessAssumption ==
    /\ IsFiniteSet(Sups) /\ IsFiniteSet(Tools)
    /\ Sups \cap Tools = {}
    /\ None \notin Procs
    /\ MaxOps \in Nat /\ MaxFaults \in Nat

\* Where a process has the lock file open and waits for the flock, and where it
\* has both.
Opening == {"opened", "peeking", "cleaning"}
Holding ==
    {"owned", "swept", "named", "setup", "wait", "monitor", "respawn", "drop",
     "rmfiles", "rmlock", "release", "hung", "peeked", "sweep", "unlink", "unlinked"}

\* The flock of the file a process has open is its own, and it has no other.
FlockInv ==
    /\ \A x \in Procs :
        /\ pc[x] \in Opening => fd[x] # 0
        /\ pc[x] \in Holding => fd[x] # 0 /\ flock[fd[x]] = x
    /\ \A i \in Inodes, x \in Procs : flock[i] = x => pc[x] \in Holding /\ fd[x] = i

\* What tunnel-destroy knows of its target, and what the answer of is_lock_held
\* is for.
DestroyInv ==
    \A t \in Tools :
        /\ stage[t] \in {"poll", "kill", "last"} \/ pc[t] = "term" => target[t] \in Sups
        /\ pc[t] \in {"readpid", "term"} => stage[t] = "first"
        /\ pc[t] = "poll" => stage[t] = "poll"
        /\ pc[t] = "kill" => stage[t] = "kill"
        /\ pc[t] \in {"peek", "peeking", "peeked"} => stage[t] \in {"list", "kill"}

\* Between the look of the guards and their unlink, the lock file stays the one
\* they looked at.
GuardInv ==
    ~yanked => \A p \in Sups : pc[p] \in {"rmfiles", "rmlock"} => fd[p] = path

IInv == TypeOK /\ FlockInv /\ DestroyInv /\ GuardInv
=============================================================================
