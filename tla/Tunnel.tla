------------------------------- MODULE Tunnel -------------------------------
(***************************************************************************)
(* The files of one tunnel name (connect.rs): the lock file and the flock  *)
(* on its inode, the pid file and the local socket, as they are used by    *)
(* supervisors (tunnel-create, run), and by tools that clean up after dead *)
(* ones (tunnels) or stop live ones (tunnel-destroy).                      *)
(*                                                                         *)
(* An flock belongs to an inode and an unlink to a path, and every system  *)
(* call on them is a step of its own.  Inode numbers are reused once no    *)
(* process has the file open, as a file system does.  The supervisor's     *)
(* monitor is reduced to its ownership check, its probe and its respawn;   *)
(* TunnelMonitor has the rest.                                             *)
(***************************************************************************)
EXTENDS Integers, FiniteSets

CONSTANTS
    Sups,       \* tunnel-create processes
    Tools,      \* processes that run tunnels or tunnel-destroy
    None,
    MaxOps,     \* bound: commands the tools run
    MaxFaults   \* bound: crashes and hangs of supervisors, deaths of ssh

Procs == Sups \cup Tools
Inodes == 1..(Cardinality(Procs) + 1)

VARIABLES
    path,    \* the inode at the path of the lock file, 0 when there is none
    flock,   \* who holds the flock of an inode
    fd,      \* the inode of the lock file a process has open, 0 for none
    pc,
    pid,     \* the process the pid file names
    sock,    \* the supervisor whose ssh bound the file at local_sock
    ssh,     \* a supervisor's ssh child: none, starting, bound
    sigterm, \* supervisors with a SIGTERM they have not looked at
    stage,   \* a tool: the call it is in
    target,  \* a tool: the pid tunnel-destroy has read
    yanked,  \* history: a cleanup has unlinked a file other than the one it locked
    ops, faults

lockVars == <<path, flock, fd>>
fileVars == <<pid, sock>>
toolVars == <<stage, target>>
vars == <<lockVars, fileVars, pc, ssh, sigterm, toolVars, yanked, ops, faults>>

Init ==
    /\ path = 0
    /\ flock = [i \in Inodes |-> None]
    /\ fd = [x \in Procs |-> 0]
    /\ pc = [x \in Procs |-> IF x \in Sups THEN "out" ELSE "idle"]
    /\ pid = None /\ sock = None
    /\ ssh = [p \in Sups |-> "none"]
    /\ sigterm = {}
    /\ stage = [t \in Tools |-> "list"] /\ target = [t \in Tools |-> None]
    /\ yanked = FALSE /\ ops = 0 /\ faults = 0

Goto(x, l) == pc' = [pc EXCEPT ![x] = l]

\* UnixStream::connect(local_sock) succeeds.
Listening == sock # None /\ ssh[sock] = "bound"

-----------------------------------------------------------------------------
(* open, flock and close of the lock file *)

\* A number no file at the path and no open file has.
NewInode == CHOOSE i \in Inodes : i # path /\ \A x \in Procs : fd[x] # i

\* open with O_CREAT.
OpenCreate(x) ==
    LET i == IF path = 0 THEN NewInode ELSE path IN
    /\ path' = i
    /\ fd' = [fd EXCEPT ![x] = i]
    /\ UNCHANGED flock

\* flock(LOCK_EX | LOCK_NB) is granted, or fails and the file is closed.
Flock(x) ==
    /\ flock[fd[x]] = None
    /\ flock' = [flock EXCEPT ![fd[x]] = x]
    /\ UNCHANGED <<path, fd>>

FlockBusy(x) ==
    /\ flock[fd[x]] # None
    /\ fd' = [fd EXCEPT ![x] = 0]
    /\ UNCHANGED <<path, flock>>

\* The process closes the lock file, which releases the flock it holds.
Close(x) ==
    /\ fd' = [fd EXCEPT ![x] = 0]
    /\ flock' = [i \in Inodes |-> IF flock[i] = x THEN None ELSE flock[i]]
    /\ UNCHANGED path

\* lock_still_owned, LockIdentity::matches_path.
lock_still_owned(p) == fd[p] = path

\* cleanup_stale_files: .sock and .pid (.info and .kick go with them).
cleanup_stale_files == pid' = None /\ sock' = None

-----------------------------------------------------------------------------
(* is_lock_held: open without O_CREAT, try the flock, and let go of it.  The *)
(* answer sends a process to where it goes on.                               *)

AfterPeek(x, held) ==
    IF x \in Sups THEN IF held THEN "loser" ELSE "failed"
    ELSE CASE stage[x] = "list" -> IF held THEN "idle" ELSE "clean"
           [] stage[x] = "kill" -> IF held THEN "kill" ELSE "clean"

\* A tool's next cleanup after the kill is its last.
StageAfter(x) == IF x \in Tools /\ stage[x] = "kill" THEN [stage EXCEPT ![x] = "last"] ELSE stage

peekRest == <<fileVars, ssh, sigterm, target, yanked, ops, faults>>

PeekOpen(x) ==
    /\ pc[x] = "peek"
    /\ \/ /\ path = 0
          /\ Goto(x, AfterPeek(x, FALSE))
          /\ stage' = StageAfter(x)
          /\ UNCHANGED lockVars
       \/ /\ path # 0
          /\ fd' = [fd EXCEPT ![x] = path]
          /\ Goto(x, "peeking")
          /\ UNCHANGED <<path, flock, stage>>
    /\ UNCHANGED peekRest

PeekLock(x) ==
    /\ pc[x] = "peeking"
    /\ \/ Flock(x) /\ Goto(x, "peeked") /\ UNCHANGED stage
       \/ FlockBusy(x) /\ Goto(x, AfterPeek(x, TRUE)) /\ UNCHANGED stage
    /\ UNCHANGED peekRest

PeekRelease(x) ==
    /\ pc[x] = "peeked"
    /\ Close(x)
    /\ Goto(x, AfterPeek(x, FALSE))
    /\ stage' = StageAfter(x)
    /\ UNCHANGED peekRest

-----------------------------------------------------------------------------
(* run: tunnel-create *)

supRest == <<sigterm, toolVars, yanked, ops, faults>>

Create(p) ==
    /\ pc[p] = "out"
    /\ OpenCreate(p)
    /\ Goto(p, "opened")
    /\ UNCHANGED <<fileVars, ssh, supRest>>

\* try_acquire_lock returns.
Acquire(p) ==
    /\ pc[p] = "opened"
    /\ \/ Flock(p) /\ Goto(p, "owned")
       \/ FlockBusy(p) /\ Goto(p, "loser")
    /\ UNCHANGED <<fileVars, ssh, supRest>>

\* "any leftover files are stale": the sweep, and then the pid file.
SweepStale(p) ==
    /\ pc[p] = "owned"
    /\ cleanup_stale_files
    /\ Goto(p, "swept")
    /\ UNCHANGED <<lockVars, ssh, supRest>>

WritePid(p) ==
    /\ pc[p] = "swept"
    /\ pid' = p
    /\ Goto(p, "named")
    /\ UNCHANGED <<lockVars, sock, ssh, supRest>>

\* From here on a SIGTERM is queued; until now it ends the process.
InstallHandlers(p) ==
    /\ pc[p] = "named"
    /\ Goto(p, "setup")
    /\ UNCHANGED <<lockVars, fileVars, ssh, supRest>>

\* The lock is held by another: ready once the socket answers; else it waits
\* until it does, the deadline passes, or is_lock_held finds the peer gone.
LoserReady(p) ==
    /\ pc[p] = "loser" /\ Listening
    /\ Goto(p, "done")
    /\ UNCHANGED <<lockVars, fileVars, ssh, supRest>>

LoserWaits(p) ==
    /\ pc[p] = "loser" /\ ~Listening
    /\ \E l \in {"peek", "failed"} : Goto(p, l)
    /\ UNCHANGED <<lockVars, fileVars, ssh, supRest>>

\* ensure_remote_ready, the version gate or the spawn fails: LockFileBailGuard.
SetupFails(p) ==
    /\ pc[p] = "setup"
    /\ Goto(p, "drop")
    /\ UNCHANGED <<lockVars, fileVars, ssh, supRest>>

\* spawn_tunnel removes whatever is at local_sock and starts ssh.
spawn_tunnel(p) ==
    /\ sock' = None
    /\ ssh' = [ssh EXCEPT ![p] = "starting"]

Spawn(p) ==
    /\ pc[p] = "setup"
    /\ spawn_tunnel(p)
    /\ Goto(p, "wait")
    /\ UNCHANGED <<lockVars, pid, supRest>>

\* wait_for_socket against child.wait(), then the probe and the version gate.
WaitReady(p) ==
    /\ pc[p] = "wait" /\ Listening
    /\ \E l \in {"monitor", "drop"} : Goto(p, l)
    /\ UNCHANGED <<lockVars, fileVars, ssh, supRest>>

WaitFails(p) ==
    /\ pc[p] = "wait" /\ ~Listening
    /\ Goto(p, "drop")
    /\ UNCHANGED <<lockVars, fileVars, ssh, supRest>>

\* A mistake: the monitor does not look at the lock.
MonitorStays(p) ==
    /\ pc[p] = "monitor" /\ ~lock_still_owned(p)
    /\ UNCHANGED vars

\* The monitor's look at the lock: a supervisor that lost it goes.
MonitorGhost(p) ==
    /\ pc[p] = "monitor" /\ ~lock_still_owned(p)
    /\ Goto(p, "drop")
    /\ UNCHANGED <<lockVars, fileVars, ssh, supRest>>

\* The probe of local_sock fails, or the file is gone: ssh is killed, and
\* respawn_tunnel looks at the lock before it waits, not after.
MonitorKills(p) ==
    /\ pc[p] = "monitor" /\ lock_still_owned(p)
    /\ ssh[p] # "starting" /\ ~Listening
    /\ ssh' = [ssh EXCEPT ![p] = "none"]
    /\ Goto(p, "respawn")
    /\ UNCHANGED <<lockVars, fileVars, supRest>>

Respawn(p) ==
    /\ pc[p] = "respawn"
    /\ spawn_tunnel(p)
    /\ Goto(p, "monitor")
    /\ UNCHANGED <<lockVars, pid, supRest>>

\* The signal handlers are polled only once the setup is over.
TakeSigterm(p) ==
    /\ pc[p] \in {"monitor", "respawn"} /\ p \in sigterm
    /\ sigterm' = sigterm \ {p}
    /\ Goto(p, "drop")
    /\ UNCHANGED <<lockVars, fileVars, ssh, toolVars, yanked, ops, faults>>

\* A mistake: the files are removed without a look at the lock.
DropUnchecked(p) ==
    /\ pc[p] = "drop"
    /\ ssh' = [ssh EXCEPT ![p] = "none"]
    /\ Goto(p, "rmfiles")
    /\ UNCHANGED <<lockVars, fileVars, supRest>>

\* ConnectGuard::drop, LockFileBailGuard::drop: the child is killed; the files
\* go only if the lock file is still the one that was locked.
Drop(p) ==
    /\ pc[p] = "drop"
    /\ ssh' = [ssh EXCEPT ![p] = "none"]
    /\ Goto(p, IF lock_still_owned(p) THEN "rmfiles" ELSE "release")
    /\ UNCHANGED <<lockVars, fileVars, supRest>>

DropFiles(p) ==
    /\ pc[p] = "rmfiles"
    /\ cleanup_stale_files
    /\ Goto(p, "rmlock")
    /\ UNCHANGED <<lockVars, ssh, supRest>>

DropLock(p) ==
    /\ pc[p] = "rmlock"
    /\ path' = 0
    /\ Goto(p, "release")
    /\ UNCHANGED <<flock, fd, fileVars, ssh, supRest>>

Release(p) ==
    /\ pc[p] = "release"
    /\ Close(p)
    /\ Goto(p, "done")
    /\ UNCHANGED <<fileVars, ssh, supRest>>

-----------------------------------------------------------------------------
(* ssh, crashes and hangs *)

\* ssh binds local_sock (StreamLocalBindUnlink replaces what is there).
SshBinds(p) ==
    /\ ssh[p] = "starting"
    /\ ssh' = [ssh EXCEPT ![p] = "bound"]
    /\ sock' = p
    /\ UNCHANGED <<lockVars, pid, pc, supRest>>

SshDies(p) ==
    /\ ssh[p] # "none" /\ faults < MaxFaults
    /\ ssh' = [ssh EXCEPT ![p] = "none"]
    /\ faults' = faults + 1
    /\ UNCHANGED <<lockVars, fileVars, pc, sigterm, toolVars, yanked, ops>>

\* The ssh child of a supervisor that was killed ends by its ServerAliveInterval.
OrphanSshEnds(p) ==
    /\ pc[p] = "done" /\ ssh[p] # "none"
    /\ ssh' = [ssh EXCEPT ![p] = "none"]
    /\ UNCHANGED <<lockVars, fileVars, pc, supRest>>

Alive(p) == pc[p] \notin {"out", "done", "failed"}

\* A process that dies leaves its files, and the kernel closes its lock file.
\* Whoever did it goes on where after says.
Dies(p, after) ==
    /\ Close(p)
    /\ pc' = [after EXCEPT ![p] = "done"]
    /\ sigterm' = sigterm \ {p}

Crash(p) ==
    /\ Alive(p) /\ faults < MaxFaults
    /\ Dies(p, pc)
    /\ faults' = faults + 1
    /\ UNCHANGED <<fileVars, ssh, toolVars, yanked, ops>>

\* A supervisor no longer gets to its select.
Hang(p) ==
    /\ pc[p] \in {"setup", "monitor"} /\ faults < MaxFaults
    /\ Goto(p, "hung")
    /\ faults' = faults + 1
    /\ UNCHANGED <<lockVars, fileVars, ssh, sigterm, toolVars, yanked, ops>>

-----------------------------------------------------------------------------
(* tunnels and tunnel-destroy *)

toolRest == <<ssh, yanked, ops, faults>>

\* gather_tunnel_info lists the lock files and looks at each one's status.
List(t) ==
    /\ pc[t] = "idle" /\ ops < MaxOps /\ path # 0
    /\ ops' = ops + 1
    /\ stage' = [stage EXCEPT ![t] = "list"]
    /\ Goto(t, "peek")
    /\ UNCHANGED <<lockVars, fileVars, ssh, sigterm, target, yanked, faults>>

Destroy(t) ==
    /\ pc[t] = "idle" /\ ops < MaxOps
    /\ ops' = ops + 1
    /\ stage' = [stage EXCEPT ![t] = "first"]
    /\ Goto(t, "clean")
    /\ UNCHANGED <<lockVars, fileVars, ssh, sigterm, target, yanked, faults>>

\* cleanup_if_unheld: open, flock, sweep, unlink, close.
CleanOpen(t) ==
    /\ pc[t] = "clean"
    /\ OpenCreate(t)
    /\ Goto(t, "cleaning")
    /\ UNCHANGED <<fileVars, sigterm, toolVars, toolRest>>

CleanLock(t) ==
    /\ pc[t] = "cleaning"
    /\ \/ Flock(t) /\ Goto(t, "sweep")
       \/ /\ FlockBusy(t)
          /\ Goto(t, CASE stage[t] = "first" -> "readpid"
                       [] stage[t] = "poll" -> "poll"
                       [] OTHER -> "idle")
    /\ UNCHANGED <<fileVars, sigterm, toolVars, toolRest>>

CleanSweep(t) ==
    /\ pc[t] = "sweep"
    /\ cleanup_stale_files
    /\ Goto(t, "unlink")
    /\ UNCHANGED <<lockVars, sigterm, toolVars, toolRest>>

CleanUnlink(t) ==
    /\ pc[t] = "unlink"
    /\ path' = 0
    /\ yanked' = (yanked \/ path \notin {0, fd[t]})
    /\ Goto(t, "unlinked")
    /\ UNCHANGED <<flock, fd, fileVars, ssh, sigterm, toolVars, ops, faults>>

CleanDone(t) ==
    /\ pc[t] = "unlinked"
    /\ Close(t)
    /\ Goto(t, "idle")
    /\ UNCHANGED <<fileVars, sigterm, toolVars, toolRest>>

\* disconnect reads the pid file: it fails without one, and signals the process.
ReadPid(t) ==
    /\ pc[t] = "readpid"
    /\ target' = [target EXCEPT ![t] = pid]
    /\ Goto(t, IF pid = None THEN "idle" ELSE "term")
    /\ UNCHANGED <<lockVars, fileVars, sigterm, stage, toolRest>>

SendTerm(t) ==
    /\ pc[t] = "term"
    /\ stage' = [stage EXCEPT ![t] = "poll"]
    /\ IF pc[target[t]] = "named"
       THEN Dies(target[t], [pc EXCEPT ![t] = "poll"])
       ELSE /\ sigterm' = sigterm \cup {p \in {target[t]} : Alive(p)}
            /\ Goto(t, "poll")
            /\ UNCHANGED lockVars
    /\ UNCHANGED <<fileVars, target, toolRest>>

\* Every 100 ms, for two seconds.
Poll(t) ==
    /\ pc[t] = "poll"
    /\ Goto(t, "clean")
    /\ UNCHANGED <<lockVars, fileVars, sigterm, toolVars, toolRest>>

Deadline(t) ==
    /\ pc[t] = "poll"
    /\ stage' = [stage EXCEPT ![t] = "kill"]
    /\ Goto(t, "peek")
    /\ UNCHANGED <<lockVars, fileVars, sigterm, target, toolRest>>

\* A mistake: SIGTERM again, for one that does not listen to it.
KillPolitely(t) ==
    /\ pc[t] = "kill"
    /\ Goto(t, "clean")
    /\ stage' = [stage EXCEPT ![t] = "last"]
    /\ UNCHANGED <<lockVars, ssh, sigterm, fileVars, target, yanked, ops, faults>>

\* SIGKILL, and SIGTERM to the process group, which is where its ssh is.
Kill(t) ==
    /\ pc[t] = "kill"
    /\ LET p == target[t] IN
       IF Alive(p)
       THEN /\ Dies(p, [pc EXCEPT ![t] = "clean"])
            /\ ssh' = [ssh EXCEPT ![p] = "none"]
       ELSE Goto(t, "clean") /\ UNCHANGED <<lockVars, sigterm, ssh>>
    /\ stage' = [stage EXCEPT ![t] = "last"]
    /\ UNCHANGED <<fileVars, target, yanked, ops, faults>>

-----------------------------------------------------------------------------

SupStep(p) ==
    \/ Acquire(p) \/ SweepStale(p) \/ WritePid(p) \/ InstallHandlers(p)
    \/ LoserReady(p) \/ LoserWaits(p)
    \/ PeekOpen(p) \/ PeekLock(p) \/ PeekRelease(p)
    \/ SetupFails(p) \/ Spawn(p) \/ WaitReady(p) \/ WaitFails(p)
    \/ MonitorGhost(p) \/ MonitorKills(p) \/ Respawn(p) \/ TakeSigterm(p)
    \/ Drop(p) \/ DropFiles(p) \/ DropLock(p) \/ Release(p)

ToolStep(t) ==
    \/ PeekOpen(t) \/ PeekLock(t) \/ PeekRelease(t)
    \/ CleanOpen(t) \/ CleanLock(t) \/ CleanSweep(t) \/ CleanUnlink(t) \/ CleanDone(t)
    \/ ReadPid(t) \/ SendTerm(t) \/ Poll(t) \/ Kill(t)

Next ==
    \/ \E p \in Sups :
          \/ Create(p) \/ SupStep(p) \/ SshBinds(p)
          \/ SshDies(p) \/ OrphanSshEnds(p) \/ Crash(p) \/ Hang(p)
    \/ \E t \in Tools : List(t) \/ Destroy(t) \/ ToolStep(t) \/ Deadline(t)

Spec == Init /\ [][Next]_vars

\* Processes run, the two seconds of disconnect pass, and ssh binds or ends.
Fairness ==
    /\ \A p \in Sups : WF_vars(SupStep(p)) /\ WF_vars(SshBinds(p)) /\ WF_vars(OrphanSshEnds(p))
    /\ \A p \in Sups : SF_vars(TakeSigterm(p))
    /\ \A t \in Tools : WF_vars(ToolStep(t)) /\ SF_vars(Deadline(t))

FairSpec == Spec /\ Fairness

-----------------------------------------------------------------------------
(* Properties *)

Labels == {"out", "opened", "owned", "swept", "named", "setup", "wait", "monitor", "respawn",
           "drop", "rmfiles", "rmlock", "release", "done", "loser", "failed", "hung",
           "peek", "peeking", "peeked", "idle", "clean", "cleaning", "sweep", "unlink",
           "unlinked", "readpid", "term", "poll", "kill"}

TypeOK ==
    /\ path \in Inodes \cup {0}
    /\ flock \in [Inodes -> Procs \cup {None}]
    /\ fd \in [Procs -> Inodes \cup {0}]
    /\ pc \in [Procs -> Labels]
    /\ pid \in Sups \cup {None} /\ sock \in Sups \cup {None}
    /\ ssh \in [Sups -> {"none", "starting", "bound"}]
    /\ sigterm \subseteq Sups
    /\ stage \in [Tools -> {"list", "first", "poll", "kill", "last"}]
    /\ target \in [Tools -> Sups \cup {None}]
    /\ yanked \in BOOLEAN /\ ops \in 0..MaxOps /\ faults \in 0..MaxFaults

\* The lock file of a live supervisor: its flock is on the inode at the path.
Owns(p) == path # 0 /\ flock[path] = p

\* The ownership checks of the two guards suffice against everything but a
\* cleanup that unlinks what it has not locked: until one does, a supervisor
\* that ends never unlinks the lock file of another, although it looks first
\* and unlinks two steps later.
DropKeepsOwner ==
    [][\A p \in Sups : ~yanked /\ pc[p] = "rmlock" /\ path' = 0 /\ path # 0
            => \A q \in Sups \ {p} : ~Owns(q)]_vars

\* Supervisors that lost the path leave, and the one that has it is reachable,
\* whatever unlinks, crashes, kills and deaths of ssh came before.
Heals ==
    <>[](\A p \in Sups : pc[p] = "monitor" => lock_still_owned(p) /\ Listening)

\* tunnel-destroy ends the supervisor whose pid it read, hung or not, unless that
\* one is hung on a lock file that is no longer at the path.
DestroyStops ==
    \A t \in Tools, p \in Sups :
        (pc[t] = "poll" /\ target[t] = p) ~> (~Alive(p) \/ (pc[p] = "hung" /\ ~Owns(p)))

\* docs/tunnel-state-machine.md says of cleanup_if_unheld that it "acquires the
\* flock before touching anything, so a supervisor that races in between the
\* probe and the GC is unaffected": no cleanup unlinks the lock file of a live
\* supervisor.
CleanupSparesLive ==
    [][\A t \in Tools : pc[t] = "unlink" /\ pc'[t] = "unlinked"
            => \A p \in Sups : ~Owns(p)]_vars
=============================================================================
