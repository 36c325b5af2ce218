---------------------------- MODULE TunnelProofs ----------------------------
(***************************************************************************)
(* The proofs about Tunnel, for any finite numbers of supervisors and      *)
(* tools, any number of commands, crashes, hangs and deaths of ssh, and,   *)
(* at the end, about the loop of one supervisor, TunnelMonitor (M), for    *)
(* every backoff, number of strikes and faults.                            *)
(***************************************************************************)
EXTENDS TunnelInv, FiniteSetTheorems, TLAPS

\* The constants and variables of the loop of one supervisor; at is its pc.
CONSTANTS MaxBackoff, Strikes, MaxFailures
VARIABLES
    at, child, uptime, slept, probe_failures, backoff, recent, net_probe,
    we_killed, saw_unsatisfied, sleep, skip_wait, backoff_saw, sockfile, kick,
    net, event, remote, due, ticked, owned, failures, streak, ghosted

M == INSTANCE TunnelMonitorInv WITH MaxFaults <- MaxFailures, pc <- at, faults <- failures

\* Some inode number is free whenever a lock file is created: there is one more
\* than there are processes.
LEMMA FreeInode ==
  ASSUME ProcessAssumption, TypeOK, path = 0
  PROVE  NewInode \in Inodes /\ \A x \in Procs : fd[x] # NewInode
  <1> DEFINE Taken(i) == \E x \in Procs : fd[x] = i
  <1>1. IsFiniteSet(Procs) /\ Cardinality(Procs) \in Nat
    BY FS_Union, FS_CardinalityType DEF ProcessAssumption, Procs
  <1>2. IsFiniteSet(Inodes) /\ Cardinality(Inodes) = Cardinality(Procs) + 1
    BY <1>1, FS_Interval DEF Inodes
  <1>3. \E i \in Inodes : ~Taken(i)
    <2> SUFFICES ASSUME \A i \in Inodes : Taken(i) PROVE FALSE
      OBVIOUS
    <2> DEFINE f == [i \in Inodes |-> CHOOSE x \in Procs : fd[x] = i]
    <2>1. \A i \in Inodes : f[i] \in Procs /\ fd[f[i]] = i
      OBVIOUS
    <2>2. f \in [Inodes -> Procs]
      BY <2>1
    <2> HIDE DEF f, Taken
    <2>3. PICK i, j \in Inodes : i # j /\ f[i] = f[j]
      BY <1>1, <1>2, <2>2, FS_PigeonHole
    <2> QED
      BY <2>1, <2>3
  <1>4. \E i \in Inodes : i # path /\ \A x \in Procs : fd[x] # i
    <2>1. 0 \notin Inodes
      BY <1>1 DEF Inodes
    <2> QED
      BY <1>3, <2>1
  <1> QED
    BY <1>4 DEF NewInode

\* The four things that are done to the lock file and its flock keep their types.
LEMMA LockType ==
  ASSUME ProcessAssumption, TypeOK, NEW x \in Procs,
         OpenCreate(x) \/ Flock(x) \/ FlockBusy(x) \/ Close(x)
  PROVE  /\ path' \in Inodes \cup {0}
         /\ flock' \in [Inodes -> Procs \cup {None}]
         /\ fd' \in [Procs -> Inodes \cup {0}]
  <1>1. CASE OpenCreate(x)
    <2> DEFINE i == IF path = 0 THEN NewInode ELSE path
    <2>1. i \in Inodes
      BY FreeInode DEF TypeOK
    <2>2. path' = i /\ fd' = [fd EXCEPT ![x] = i] /\ flock' = flock
      BY <1>1 DEF OpenCreate
    <2> HIDE DEF i
    <2> QED
      BY <2>1, <2>2 DEF TypeOK
  <1>2. CASE Flock(x)
    BY <1>2 DEF Flock, TypeOK
  <1>3. CASE FlockBusy(x)
    BY <1>3 DEF FlockBusy, TypeOK
  <1>4. CASE Close(x)
    BY <1>4 DEF Close, TypeOK
  <1> QED
    BY <1>1, <1>2, <1>3, <1>4

\* Where an answer of is_lock_held sends a process, and what a tool does next.
LEMMA PeekAnswer ==
  ASSUME TypeOK, DestroyInv, ProcessAssumption, NEW x \in Procs, NEW held \in BOOLEAN,
         pc[x] \in {"peek", "peeking", "peeked"}
  PROVE  /\ AfterPeek(x, held) \in {"loser", "failed", "idle", "clean", "kill"}
         /\ AfterPeek(x, held) = "kill" => x \in Tools /\ stage[x] = "kill" /\ held
  BY DEF AfterPeek, DestroyInv, TypeOK, ProcessAssumption, Procs

LEMMA PeekStage ==
  ASSUME TypeOK, NEW x \in Procs
  PROVE  /\ StageAfter(x) \in [Tools -> {"list", "first", "poll", "kill", "last"}]
         /\ \A t \in Tools :
               \/ StageAfter(x)[t] = stage[t] /\ ~(t = x /\ stage[t] = "kill")
               \/ t = x /\ stage[t] = "kill" /\ StageAfter(x)[t] = "last"
  BY DEF StageAfter, TypeOK

-----------------------------------------------------------------------------
(* Types *)

\* Every step of a supervisor, of its ssh, of a tool or of the system keeps the types.
LEMMA SupType ==
  ASSUME ProcessAssumption, TypeOK, DestroyInv, NEW p \in Sups,
         \/ Create(p) \/ SupStep(p) \/ SshBinds(p)
         \/ SshDies(p) \/ OrphanSshEnds(p) \/ Crash(p) \/ Hang(p)
  PROVE  TypeOK'
  <1> p \in Procs
    BY DEF Procs
  <1>0. ASSUME NEW l \in Labels, Goto(p, l) PROVE pc' \in [Procs -> Labels]
    BY <1>0 DEF TypeOK, Goto
  <1>l. {"opened", "owned", "swept", "named", "setup", "wait", "monitor", "respawn", "drop",
         "rmfiles", "rmlock", "release", "done", "loser", "failed", "hung", "peek", "peeking",
         "peeked", "idle", "clean", "kill"} \subseteq Labels
    BY DEF Labels
  <1>1. CASE Create(p)
    <2>1. OpenCreate(p) /\ Goto(p, "opened") /\ UNCHANGED <<fileVars, ssh, supRest>>
      BY <1>1 DEF Create
    <2> QED
      BY <2>1, <1>0, <1>l, LockType DEF TypeOK, fileVars, supRest, toolVars
  <1>2. CASE Acquire(p)
    <2>1. (Flock(p) \/ FlockBusy(p)) /\ UNCHANGED <<fileVars, ssh, supRest>>
      BY <1>2 DEF Acquire
    <2>2. pc' \in [Procs -> Labels]
      BY <1>2, <1>0, <1>l DEF Acquire
    <2> QED
      BY <2>1, <2>2, LockType DEF TypeOK, fileVars, supRest, toolVars
  <1>3. CASE SweepStale(p) \/ WritePid(p) \/ InstallHandlers(p) \/ DropFiles(p)
    <2>1. pc' \in [Procs -> Labels]
      BY <1>3, <1>0, <1>l DEF SweepStale, WritePid, InstallHandlers, DropFiles
    <2>2. UNCHANGED <<lockVars, ssh, supRest>>
      BY <1>3 DEF SweepStale, WritePid, InstallHandlers, DropFiles, fileVars
    <2>3. pid' \in Sups \cup {None} /\ sock' \in Sups \cup {None}
      BY <1>3 DEF SweepStale, WritePid, InstallHandlers, DropFiles, fileVars, cleanup_stale_files, TypeOK
    <2> QED
      BY <2>1, <2>2, <2>3 DEF TypeOK, lockVars, supRest, toolVars
  <1>4. CASE LoserReady(p) \/ LoserWaits(p) \/ SetupFails(p) \/ WaitReady(p) \/ WaitFails(p) \/ MonitorGhost(p)
    <2>1. pc' \in [Procs -> Labels]
      BY <1>4, <1>0, <1>l DEF LoserReady, LoserWaits, SetupFails, WaitReady, WaitFails, MonitorGhost
    <2>2. UNCHANGED <<lockVars, fileVars, ssh, supRest>>
      BY <1>4 DEF LoserReady, LoserWaits, SetupFails, WaitReady, WaitFails, MonitorGhost
    <2> QED
      BY <2>1, <2>2 DEF TypeOK, lockVars, fileVars, supRest, toolVars
  <1>5. CASE PeekOpen(p) \/ PeekLock(p) \/ PeekRelease(p)
    <2>1. pc[p] \in {"peek", "peeking", "peeked"}
      BY <1>5 DEF PeekOpen, PeekLock, PeekRelease
    <2>2. \A held \in BOOLEAN : AfterPeek(p, held) \in Labels
      BY <2>1, <1>l, PeekAnswer
    <2>3. pc' \in [Procs -> Labels]
      BY <1>5, <1>0, <1>l, <2>2 DEF PeekOpen, PeekLock, PeekRelease
    <2>4. UNCHANGED peekRest
      BY <1>5 DEF PeekOpen, PeekLock, PeekRelease
    <2>5. stage' \in [Tools -> {"list", "first", "poll", "kill", "last"}]
      BY <1>5, PeekStage DEF PeekOpen, PeekLock, PeekRelease, TypeOK
    <2>6. /\ path' \in Inodes \cup {0}
          /\ flock' \in [Inodes -> Procs \cup {None}]
          /\ fd' \in [Procs -> Inodes \cup {0}]
      BY <1>5, LockType DEF PeekOpen, PeekLock, PeekRelease, TypeOK, lockVars
    <2> QED
      BY <2>3, <2>4, <2>5, <2>6 DEF TypeOK, peekRest, fileVars
  <1>6. CASE Spawn(p) \/ Respawn(p) \/ MonitorKills(p) \/ Drop(p)
    <2>1. pc' \in [Procs -> Labels]
      BY <1>6, <1>0, <1>l DEF Spawn, Respawn, MonitorKills, Drop
    <2>2. UNCHANGED <<lockVars, pid, supRest>>
      BY <1>6 DEF Spawn, Respawn, MonitorKills, Drop, fileVars
    <2>3. sock' \in Sups \cup {None} /\ ssh' \in [Sups -> {"none", "starting", "bound"}]
      BY <1>6 DEF Spawn, Respawn, MonitorKills, Drop, fileVars, spawn_tunnel, TypeOK
    <2> QED
      BY <2>1, <2>2, <2>3 DEF TypeOK, lockVars, supRest, toolVars
  <1>7. CASE TakeSigterm(p)
    <2>1. pc' \in [Procs -> Labels]
      BY <1>7, <1>0, <1>l DEF TakeSigterm
    <2> QED
      BY <1>7, <2>1 DEF TakeSigterm, TypeOK, lockVars, fileVars, toolVars
  <1>8. CASE DropLock(p)
    <2>1. pc' \in [Procs -> Labels]
      BY <1>8, <1>0, <1>l DEF DropLock
    <2> QED
      BY <1>8, <2>1 DEF DropLock, TypeOK, fileVars, supRest, toolVars
  <1>9. CASE Release(p)
    <2>1. Close(p) /\ UNCHANGED <<fileVars, ssh, supRest>>
      BY <1>9 DEF Release
    <2>2. pc' \in [Procs -> Labels]
      BY <1>9, <1>0, <1>l DEF Release
    <2> QED
      BY <2>1, <2>2, LockType DEF TypeOK, fileVars, supRest, toolVars
  <1>10. CASE SshBinds(p) \/ SshDies(p) \/ OrphanSshEnds(p)
    <2>1. UNCHANGED <<lockVars, pid, pc, sigterm, toolVars, yanked, ops>>
      BY <1>10 DEF SshBinds, SshDies, OrphanSshEnds, supRest, fileVars
    <2>2. sock' \in Sups \cup {None} /\ ssh' \in [Sups -> {"none", "starting", "bound"}]
      BY <1>10 DEF SshBinds, SshDies, OrphanSshEnds, TypeOK, fileVars
    <2>3. faults' \in 0..MaxFaults
      BY <1>10 DEF SshBinds, SshDies, OrphanSshEnds, TypeOK, supRest, ProcessAssumption
    <2> QED
      BY <2>1, <2>2, <2>3 DEF TypeOK, lockVars, toolVars
  <1>11. CASE Crash(p)
    <2>1. Close(p) /\ UNCHANGED <<fileVars, ssh, toolVars, yanked, ops>>
      BY <1>11 DEF Crash, Dies
    <2>2. pc' \in [Procs -> Labels] /\ sigterm' \subseteq Sups
      BY <1>11, <1>l DEF Crash, Dies, TypeOK
    <2>3. faults' \in 0..MaxFaults
      BY <1>11 DEF Crash, TypeOK, ProcessAssumption
    <2> QED
      BY <2>1, <2>2, <2>3, LockType DEF TypeOK, fileVars, toolVars
  <1>12. CASE Hang(p)
    <2>1. pc' \in [Procs -> Labels]
      BY <1>12, <1>0, <1>l DEF Hang
    <2>2. faults' \in 0..MaxFaults
      BY <1>12 DEF Hang, TypeOK, ProcessAssumption
    <2> QED
      BY <1>12, <2>1, <2>2 DEF Hang, TypeOK, lockVars, fileVars, toolVars
  <1> QED
    BY <1>1, <1>2, <1>3, <1>4, <1>5, <1>6, <1>7, <1>8, <1>9, <1>10, <1>11, <1>12 DEF SupStep

\* A signal or a kill goes to a supervisor that tunnel-destroy has read the pid of.
LEMMA TargetIsSup ==
  ASSUME TypeOK, DestroyInv, NEW t \in Tools, pc[t] \in {"term", "poll", "kill"}
  PROVE  target[t] \in Sups
  BY DEF DestroyInv

LEMMA ToolType ==
  ASSUME ProcessAssumption, TypeOK, DestroyInv, NEW t \in Tools,
         List(t) \/ Destroy(t) \/ ToolStep(t) \/ Deadline(t)
  PROVE  TypeOK'
  <1> t \in Procs
    BY DEF Procs
  <1>0. ASSUME NEW l \in Labels, Goto(t, l) PROVE pc' \in [Procs -> Labels]
    BY <1>0 DEF TypeOK, Goto
  <1>l. {"done", "loser", "failed", "peek", "peeking", "peeked", "idle", "clean", "cleaning",
         "sweep", "unlink", "unlinked", "readpid", "term", "poll", "kill"} \subseteq Labels
    BY DEF Labels
  <1>1. CASE List(t) \/ Destroy(t) \/ Deadline(t)
    <2>1. pc' \in [Procs -> Labels]
      BY <1>1, <1>0, <1>l DEF List, Destroy, Deadline
    <2>2. UNCHANGED <<lockVars, fileVars, ssh, sigterm, target, yanked, faults>>
      BY <1>1 DEF List, Destroy, Deadline, toolRest
    <2>3. stage' \in [Tools -> {"list", "first", "poll", "kill", "last"}]
      BY <1>1 DEF List, Destroy, Deadline, TypeOK
    <2>4. ops' \in 0..MaxOps
      BY <1>1 DEF List, Destroy, Deadline, toolRest, TypeOK, ProcessAssumption
    <2> QED
      BY <2>1, <2>2, <2>3, <2>4 DEF TypeOK, lockVars, fileVars
  <1>2. CASE PeekOpen(t) \/ PeekLock(t) \/ PeekRelease(t)
    <2>1. pc[t] \in {"peek", "peeking", "peeked"}
      BY <1>2 DEF PeekOpen, PeekLock, PeekRelease
    <2>2. \A held \in BOOLEAN : AfterPeek(t, held) \in Labels
      BY <2>1, <1>l, PeekAnswer
    <2>3. pc' \in [Procs -> Labels]
      BY <1>2, <1>0, <1>l, <2>2 DEF PeekOpen, PeekLock, PeekRelease
    <2>4. UNCHANGED peekRest
      BY <1>2 DEF PeekOpen, PeekLock, PeekRelease
    <2>5. stage' \in [Tools -> {"list", "first", "poll", "kill", "last"}]
      BY <1>2, PeekStage DEF PeekOpen, PeekLock, PeekRelease, TypeOK
    <2>6. /\ path' \in Inodes \cup {0}
          /\ flock' \in [Inodes -> Procs \cup {None}]
          /\ fd' \in [Procs -> Inodes \cup {0}]
      BY <1>2, LockType DEF PeekOpen, PeekLock, PeekRelease, TypeOK, lockVars
    <2> QED
      BY <2>3, <2>4, <2>5, <2>6 DEF TypeOK, peekRest, fileVars
  <1>3. CASE CleanOpen(t) \/ CleanLock(t) \/ CleanDone(t)
    <2>1. pc' \in [Procs -> Labels]
      BY <1>3, <1>0, <1>l DEF CleanOpen, CleanLock, CleanDone
    <2>2. OpenCreate(t) \/ Flock(t) \/ FlockBusy(t) \/ Close(t)
      BY <1>3 DEF CleanOpen, CleanLock, CleanDone
    <2>3. UNCHANGED <<fileVars, sigterm, toolVars, toolRest>>
      BY <1>3 DEF CleanOpen, CleanLock, CleanDone
    <2> QED
      BY <2>1, <2>2, <2>3, LockType DEF TypeOK, fileVars, toolVars, toolRest
  <1>4. CASE CleanSweep(t)
    <2>1. pc' \in [Procs -> Labels]
      BY <1>4, <1>0, <1>l DEF CleanSweep
    <2> QED
      BY <1>4, <2>1 DEF CleanSweep, cleanup_stale_files, TypeOK, lockVars, toolVars, toolRest
  <1>5. CASE CleanUnlink(t)
    <2>1. pc' \in [Procs -> Labels]
      BY <1>5, <1>0, <1>l DEF CleanUnlink
    <2>2. yanked' \in BOOLEAN
      BY <1>5 DEF CleanUnlink, TypeOK
    <2> QED
      BY <1>5, <2>1, <2>2 DEF CleanUnlink, TypeOK, fileVars, toolVars
  <1>6. CASE ReadPid(t)
    <2>1. pc' \in [Procs -> Labels]
      BY <1>6, <1>0, <1>l DEF ReadPid
    <2> QED
      BY <1>6, <2>1 DEF ReadPid, TypeOK, lockVars, fileVars, toolRest
  <1>7. CASE Poll(t)
    <2>1. pc' \in [Procs -> Labels]
      BY <1>7, <1>0, <1>l DEF Poll
    <2> QED
      BY <1>7, <2>1 DEF Poll, TypeOK, lockVars, fileVars, toolVars, toolRest
  <1>8. ASSUME NEW l \in Labels, Dies(target[t], [pc EXCEPT ![t] = l]), target[t] \in Sups
        PROVE  /\ pc' \in [Procs -> Labels] /\ sigterm' \subseteq Sups
               /\ path' \in Inodes \cup {0}
               /\ flock' \in [Inodes -> Procs \cup {None}]
               /\ fd' \in [Procs -> Inodes \cup {0}]
    <2>1. target[t] \in Procs
      BY <1>8 DEF Procs
    <2>2. pc' \in [Procs -> Labels] /\ sigterm' \subseteq Sups
      BY <1>8, <2>1, <1>l DEF Dies, TypeOK
    <2> QED
      BY <1>8, <2>1, <2>2, LockType DEF Dies
  <1>9. CASE SendTerm(t)
    <2>1. target[t] \in Sups
      BY <1>9, TargetIsSup DEF SendTerm
    <2>2. /\ pc' \in [Procs -> Labels] /\ sigterm' \subseteq Sups
          /\ path' \in Inodes \cup {0}
          /\ flock' \in [Inodes -> Procs \cup {None}]
          /\ fd' \in [Procs -> Inodes \cup {0}]
      <3>1. CASE pc[target[t]] = "named"
        BY <1>8, <1>9, <2>1, <3>1, <1>l DEF SendTerm
      <3>2. CASE pc[target[t]] # "named"
        BY <1>0, <1>9, <2>1, <3>2, <1>l DEF SendTerm, TypeOK, lockVars
      <3> QED
        BY <3>1, <3>2
    <2> QED
      BY <1>9, <2>2 DEF SendTerm, TypeOK, fileVars, toolRest
  <1>10. CASE Kill(t)
    <2>1. target[t] \in Sups
      BY <1>10, TargetIsSup DEF Kill
    <2>2. /\ pc' \in [Procs -> Labels] /\ sigterm' \subseteq Sups
          /\ path' \in Inodes \cup {0}
          /\ flock' \in [Inodes -> Procs \cup {None}]
          /\ fd' \in [Procs -> Inodes \cup {0}]
      <3>1. CASE Alive(target[t])
        BY <1>8, <1>10, <2>1, <3>1, <1>l DEF Kill
      <3>2. CASE ~Alive(target[t])
        BY <1>0, <1>10, <2>1, <3>2, <1>l DEF Kill, TypeOK, lockVars
      <3> QED
        BY <3>1, <3>2
    <2>3. ssh' \in [Sups -> {"none", "starting", "bound"}]
      BY <1>10 DEF Kill, TypeOK
    <2> QED
      BY <1>10, <2>2, <2>3 DEF Kill, TypeOK, fileVars
  <1> QED
    BY <1>1, <1>2, <1>3, <1>4, <1>5, <1>6, <1>7, <1>9, <1>10 DEF ToolStep

-----------------------------------------------------------------------------
(* The flocks *)

\* A process other than x stays where it was, as far as the lock file goes.
Elsewhere(x) ==
    \A y \in Procs \ {x} :
        /\ pc'[y] \in Holding <=> pc[y] \in Holding
        /\ pc'[y] \in Opening => pc[y] \in Opening

LEMMA NoInodeZero == ASSUME ProcessAssumption PROVE 0 \notin Inodes
  <1>1. IsFiniteSet(Procs) /\ Cardinality(Procs) \in Nat
    BY FS_Union, FS_CardinalityType DEF ProcessAssumption, Procs
  <1> QED
    BY <1>1 DEF Inodes

LEMMA LabelsApart == \A l \in Opening : l \notin Holding
  BY DEF Opening, Holding

\* A step that leaves the lock file and its flock alone keeps who has them, as long
\* as no process comes to where it must have one or the other, or leaves it.
LEMMA FlockStays ==
  ASSUME TypeOK, FlockInv, NEW x \in Procs, Elsewhere(x),
         UNCHANGED <<flock, fd>>,
         pc'[x] \in Holding <=> pc[x] \in Holding,
         pc'[x] \in Opening => pc[x] \in Opening
  PROVE  FlockInv'
  BY DEF FlockInv, Elsewhere

\* The file that x opens is another than x holds: it holds none.
LEMMA FlockOpened ==
  ASSUME ProcessAssumption, TypeOK, FlockInv, NEW x \in Procs, Elsewhere(x),
         pc[x] \notin Holding, pc'[x] \in Opening,
         NEW i \in Inodes, fd' = [fd EXCEPT ![x] = i], flock' = flock
  PROVE  FlockInv'
  <1>1. fd'[x] = i /\ \A y \in Procs \ {x} : fd'[y] = fd[y]
    BY DEF TypeOK
  <1>2. i # 0 /\ pc'[x] \notin Holding
    BY NoInodeZero, LabelsApart
  <1>3. ASSUME NEW y \in Procs
        PROVE  /\ pc'[y] \in Opening => fd'[y] # 0
               /\ pc'[y] \in Holding => fd'[y] # 0 /\ flock'[fd'[y]] = y
    BY <1>1, <1>2 DEF FlockInv, Elsewhere
  <1>4. ASSUME NEW j \in Inodes, NEW y \in Procs, flock'[j] = y
        PROVE  pc'[y] \in Holding /\ fd'[y] = j
    BY <1>1, <1>4 DEF FlockInv, Elsewhere
  <1> QED
    BY <1>3, <1>4 DEF FlockInv

\* The flock is granted only if nobody has it.
LEMMA FlockGranted ==
  ASSUME ProcessAssumption, TypeOK, FlockInv, NEW x \in Procs, Elsewhere(x),
         pc[x] \in Opening, pc'[x] \in Holding, Flock(x)
  PROVE  FlockInv'
  <1>1. fd[x] \in Inodes /\ fd[x] # 0 /\ fd' = fd
    BY DEF TypeOK, FlockInv, Flock
  <1>2. flock[fd[x]] = None /\ flock'[fd[x]] = x
    BY <1>1 DEF Flock, TypeOK
  <1>3. \A j \in Inodes \ {fd[x]} : flock'[j] = flock[j]
    BY DEF Flock, TypeOK
  <1>4. pc'[x] \notin Opening
    BY LabelsApart
  <1>5. ASSUME NEW y \in Procs
        PROVE  /\ pc'[y] \in Opening => fd'[y] # 0
               /\ pc'[y] \in Holding => fd'[y] # 0 /\ flock'[fd'[y]] = y
    <2>1. CASE y = x
      BY <2>1, <1>1, <1>2, <1>4
    <2>2. CASE y # x
      <3>1. pc'[y] \in Opening => fd[y] # 0
        BY <2>2 DEF FlockInv, Elsewhere
      <3>2. ASSUME pc'[y] \in Holding PROVE fd[y] # 0 /\ flock'[fd[y]] = y
        <4>1. fd[y] # 0 /\ flock[fd[y]] = y /\ fd[y] \in Inodes
          BY <2>2, <3>2 DEF FlockInv, Elsewhere, TypeOK
        <4>2. fd[y] # fd[x]
          BY <4>1, <1>2 DEF ProcessAssumption
        <4> QED
          BY <4>1, <4>2, <1>3
      <3> QED
        BY <3>1, <3>2, <1>1
    <2> QED
      BY <2>1, <2>2
  <1>6. ASSUME NEW j \in Inodes, NEW y \in Procs, flock'[j] = y
        PROVE  pc'[y] \in Holding /\ fd'[y] = j
    <2>1. CASE j = fd[x]
      BY <2>1, <1>1, <1>2, <1>6
    <2>2. CASE j # fd[x]
      <3>1. pc[y] \in Holding /\ fd[y] = j
        BY <2>2, <1>3, <1>6 DEF FlockInv
      <3>2. y # x
        BY <3>1, LabelsApart
      <3> QED
        BY <3>1, <3>2, <1>1 DEF Elsewhere
    <2> QED
      BY <2>1, <2>2
  <1> QED
    BY <1>5, <1>6 DEF FlockInv

\* Who closes the lock file gives up its flock with it.
LEMMA FlockClosed ==
  ASSUME ProcessAssumption, TypeOK, FlockInv, NEW x \in Procs, Elsewhere(x),
         \/ Close(x)
         \/ FlockBusy(x) /\ pc[x] \in Opening,
         pc'[x] \notin Opening \cup Holding
  PROVE  FlockInv'
  <1>1. \A y \in Procs \ {x} : fd'[y] = fd[y]
    BY DEF Close, FlockBusy, TypeOK
  <1>2. \A j \in Inodes : \/ flock'[j] = flock[j] /\ flock[j] # x
                          \/ flock'[j] = None /\ flock[j] = x
    <2>1. CASE Close(x)
      BY <2>1 DEF Close
    <2>2. CASE FlockBusy(x) /\ pc[x] \in Opening
      BY <2>2, LabelsApart DEF FlockBusy, FlockInv
    <2> QED
      BY <2>1, <2>2
  <1>3. ASSUME NEW y \in Procs
        PROVE  /\ pc'[y] \in Opening => fd'[y] # 0
               /\ pc'[y] \in Holding => fd'[y] # 0 /\ flock'[fd'[y]] = y
    <2>1. CASE y = x
      BY <2>1
    <2>2. CASE y # x
      <3>1. pc'[y] \in Opening => fd[y] # 0
        BY <2>2 DEF FlockInv, Elsewhere
      <3>2. ASSUME pc'[y] \in Holding PROVE fd[y] # 0 /\ flock'[fd[y]] = y
        <4>1. fd[y] # 0 /\ flock[fd[y]] = y /\ fd[y] \in Inodes
          BY <2>2, <3>2 DEF FlockInv, Elsewhere, TypeOK
        <4> QED
          BY <4>1, <1>2, <2>2
      <3> QED
        BY <3>1, <3>2, <1>1, <2>2
    <2> QED
      BY <2>1, <2>2
  <1>4. ASSUME NEW j \in Inodes, NEW y \in Procs, flock'[j] = y
        PROVE  pc'[y] \in Holding /\ fd'[y] = j
    <2>1. flock[j] = y /\ y # x
      BY <1>2, <1>4 DEF ProcessAssumption
    <2> QED
      BY <2>1, <1>1 DEF FlockInv, Elsewhere
  <1> QED
    BY <1>3, <1>4 DEF FlockInv

\* Going somewhere else is nothing to the others.
LEMMA GotoElsewhere ==
  ASSUME TypeOK, NEW x \in Procs, NEW l, Goto(x, l)
  PROVE  Elsewhere(x) /\ pc'[x] = l
  BY DEF Goto, Elsewhere, TypeOK

\* is_lock_held of whichever process.
LEMMA PeekFlock ==
  ASSUME ProcessAssumption, TypeOK, DestroyInv, FlockInv, NEW x \in Procs,
         PeekOpen(x) \/ PeekLock(x) \/ PeekRelease(x)
  PROVE  FlockInv'
  <1>0. ASSUME NEW held \in BOOLEAN, Goto(x, AfterPeek(x, held)),
               pc[x] \in {"peek", "peeking", "peeked"}
        PROVE  pc'[x] \notin Opening \cup Holding
    <2>1. AfterPeek(x, held) \in {"loser", "failed", "idle", "clean", "kill"}
      BY <1>0, PeekAnswer
    <2>2. pc'[x] = AfterPeek(x, held)
      BY <1>0, GotoElsewhere
    <2> QED
      BY <2>1, <2>2 DEF Opening, Holding
  <1>1. CASE PeekOpen(x)
    <2>1. pc[x] \notin Holding
      BY <1>1 DEF PeekOpen, Holding
    <2>2. CASE Goto(x, AfterPeek(x, FALSE)) /\ UNCHANGED lockVars
      <3>1. pc'[x] \notin Opening \cup Holding
        BY <1>0, <1>1, <2>2 DEF PeekOpen
      <3> QED
        BY <2>1, <2>2, <3>1, GotoElsewhere, FlockStays DEF lockVars
    <2>3. CASE path # 0 /\ fd' = [fd EXCEPT ![x] = path] /\ Goto(x, "peeking") /\ flock' = flock
      <3>1. path \in Inodes
        BY <2>3 DEF TypeOK
      <3>2. pc'[x] \in Opening
        BY <2>3, GotoElsewhere DEF Opening
      <3> QED
        BY <2>1, <2>3, <3>1, <3>2, GotoElsewhere, FlockOpened
    <2> QED
      BY <1>1, <2>2, <2>3 DEF PeekOpen
  <1>2. CASE PeekLock(x)
    <2>1. pc[x] \in Opening
      BY <1>2 DEF PeekLock, Opening
    <2>2. CASE Flock(x) /\ Goto(x, "peeked")
      <3>1. pc'[x] \in Holding
        BY <2>2, GotoElsewhere DEF Holding
      <3> QED
        BY <2>1, <2>2, <3>1, GotoElsewhere, FlockGranted
    <2>3. CASE FlockBusy(x) /\ Goto(x, AfterPeek(x, TRUE))
      <3>1. pc'[x] \notin Opening \cup Holding
        BY <1>0, <1>2, <2>3 DEF PeekLock
      <3> QED
        BY <2>1, <2>3, <3>1, GotoElsewhere, FlockClosed
    <2> QED
      BY <1>2, <2>2, <2>3 DEF PeekLock
  <1>3. CASE PeekRelease(x)
    <2>1. Close(x) /\ Goto(x, AfterPeek(x, FALSE))
      BY <1>3 DEF PeekRelease
    <2>2. pc'[x] \notin Opening \cup Holding
      BY <1>0, <1>3, <2>1 DEF PeekRelease
    <2> QED
      BY <2>1, <2>2, GotoElsewhere, FlockClosed
  <1> QED
    BY <1>1, <1>2, <1>3

LEMMA SupFlock ==
  ASSUME ProcessAssumption, TypeOK, DestroyInv, FlockInv, NEW p \in Sups,
         \/ Create(p) \/ SupStep(p) \/ SshBinds(p)
         \/ SshDies(p) \/ OrphanSshEnds(p) \/ Crash(p) \/ Hang(p)
  PROVE  FlockInv'
  <1> p \in Procs
    BY DEF Procs
  <1>1. CASE Create(p)
    <2>1. OpenCreate(p) /\ Goto(p, "opened") /\ pc[p] = "out"
      BY <1>1 DEF Create
    <2> DEFINE i == IF path = 0 THEN NewInode ELSE path
    <2>2. i \in Inodes
      BY FreeInode DEF TypeOK
    <2>3. fd' = [fd EXCEPT ![p] = i] /\ flock' = flock
      BY <2>1 DEF OpenCreate
    <2>4. pc[p] \notin Holding /\ pc'[p] \in Opening
      BY <2>1, GotoElsewhere DEF Opening, Holding
    <2> HIDE DEF i
    <2> QED
      BY <2>1, <2>2, <2>3, <2>4, GotoElsewhere, FlockOpened
  <1>2. CASE Acquire(p)
    <2>1. pc[p] \in Opening
      BY <1>2 DEF Acquire, Opening
    <2>2. CASE Flock(p) /\ Goto(p, "owned")
      <3>1. pc'[p] \in Holding
        BY <2>2, GotoElsewhere DEF Holding
      <3> QED
        BY <2>1, <2>2, <3>1, GotoElsewhere, FlockGranted
    <2>3. CASE FlockBusy(p) /\ Goto(p, "loser")
      <3>1. pc'[p] \notin Opening \cup Holding
        BY <2>3, GotoElsewhere DEF Opening, Holding
      <3> QED
        BY <2>1, <2>3, <3>1, GotoElsewhere, FlockClosed
    <2> QED
      BY <1>2, <2>2, <2>3 DEF Acquire
  <1>3. CASE \/ SweepStale(p) \/ WritePid(p) \/ InstallHandlers(p) \/ DropFiles(p)
             \/ SetupFails(p) \/ WaitReady(p) \/ WaitFails(p) \/ MonitorGhost(p)
             \/ Spawn(p) \/ Respawn(p) \/ MonitorKills(p) \/ TakeSigterm(p)
             \/ Drop(p) \/ DropLock(p) \/ Hang(p)
    <2>1. UNCHANGED <<flock, fd>>
      BY <1>3 DEF SweepStale, WritePid, InstallHandlers, DropFiles, SetupFails, WaitReady,
                  WaitFails, MonitorGhost, Spawn, Respawn, MonitorKills, TakeSigterm, Drop,
                  DropLock, Hang, lockVars
    <2>2. /\ pc[p] \in {"owned", "swept", "named", "rmfiles", "setup", "wait", "monitor",
                        "respawn", "drop", "rmlock"}
          /\ \E l \in {"swept", "named", "setup", "rmlock", "drop", "monitor", "wait",
                       "respawn", "rmfiles", "release", "hung"} : Goto(p, l)
      BY <1>3 DEF SweepStale, WritePid, InstallHandlers, DropFiles, SetupFails, WaitReady,
                  WaitFails, MonitorGhost, Spawn, Respawn, MonitorKills, TakeSigterm, Drop,
                  DropLock, Hang
    <2>3. Elsewhere(p) /\ pc[p] \in Holding /\ pc'[p] \in Holding
      BY <2>2, GotoElsewhere DEF Holding
    <2> QED
      BY <2>1, <2>3, FlockStays, LabelsApart
  <1>4. CASE LoserReady(p) \/ LoserWaits(p)
    <2>1. UNCHANGED <<flock, fd>>
      BY <1>4 DEF LoserReady, LoserWaits, lockVars
    <2>2. pc[p] = "loser" /\ \E l \in {"done", "peek", "failed"} : Goto(p, l)
      BY <1>4 DEF LoserReady, LoserWaits
    <2>3. Elsewhere(p) /\ pc[p] \notin Holding /\ pc'[p] \notin Opening \cup Holding
      BY <2>2, GotoElsewhere DEF Holding, Opening
    <2> QED
      BY <2>1, <2>3, FlockStays
  <1>5. CASE PeekOpen(p) \/ PeekLock(p) \/ PeekRelease(p)
    BY <1>5, PeekFlock
  <1>6. CASE Release(p)
    <2>1. Close(p) /\ Goto(p, "done")
      BY <1>6 DEF Release
    <2>2. pc'[p] \notin Opening \cup Holding
      BY <2>1, GotoElsewhere DEF Holding, Opening
    <2> QED
      BY <2>1, <2>2, GotoElsewhere, FlockClosed
  <1>7. CASE SshBinds(p) \/ SshDies(p) \/ OrphanSshEnds(p)
    <2>1. UNCHANGED <<flock, fd, pc>>
      BY <1>7 DEF SshBinds, SshDies, OrphanSshEnds, lockVars
    <2> QED
      BY <2>1, FlockStays DEF Elsewhere
  <1>8. CASE Crash(p)
    <2>1. Close(p) /\ pc' = [pc EXCEPT ![p] = "done"]
      BY <1>8 DEF Crash, Dies
    <2>2. Goto(p, "done")
      BY <2>1 DEF Goto
    <2>3. Elsewhere(p) /\ pc'[p] \notin Opening \cup Holding
      BY <2>2, GotoElsewhere DEF Holding, Opening
    <2> QED
      BY <2>1, <2>3, FlockClosed
  <1> QED
    BY <1>1, <1>2, <1>3, <1>4, <1>5, <1>6, <1>7, <1>8 DEF SupStep

LEMMA ToolFlock ==
  ASSUME ProcessAssumption, TypeOK, DestroyInv, FlockInv, NEW t \in Tools,
         List(t) \/ Destroy(t) \/ ToolStep(t) \/ Deadline(t)
  PROVE  FlockInv'
  <1> t \in Procs
    BY DEF Procs
  <1>1. CASE List(t) \/ Destroy(t) \/ Deadline(t) \/ ReadPid(t) \/ Poll(t)
    <2>1. UNCHANGED <<flock, fd>>
      BY <1>1 DEF List, Destroy, Deadline, ReadPid, Poll, lockVars
    <2>2. /\ pc[t] \in {"idle", "poll", "readpid"}
          /\ \E l \in {"peek", "clean", "idle", "term"} : Goto(t, l)
      BY <1>1 DEF List, Destroy, Deadline, ReadPid, Poll
    <2>3. Elsewhere(t) /\ pc[t] \notin Holding /\ pc'[t] \notin Opening \cup Holding
      BY <2>2, GotoElsewhere DEF Holding, Opening
    <2> QED
      BY <2>1, <2>3, FlockStays
  <1>2. CASE PeekOpen(t) \/ PeekLock(t) \/ PeekRelease(t)
    BY <1>2, PeekFlock
  <1>3. CASE CleanOpen(t)
    <2>1. OpenCreate(t) /\ Goto(t, "cleaning") /\ pc[t] = "clean"
      BY <1>3 DEF CleanOpen
    <2> DEFINE i == IF path = 0 THEN NewInode ELSE path
    <2>2. i \in Inodes
      BY FreeInode DEF TypeOK
    <2>3. fd' = [fd EXCEPT ![t] = i] /\ flock' = flock
      BY <2>1 DEF OpenCreate
    <2>4. pc[t] \notin Holding /\ pc'[t] \in Opening
      BY <2>1, GotoElsewhere DEF Opening, Holding
    <2> HIDE DEF i
    <2> QED
      BY <2>1, <2>2, <2>3, <2>4, GotoElsewhere, FlockOpened
  <1>4. CASE CleanLock(t)
    <2>1. pc[t] \in Opening
      BY <1>4 DEF CleanLock, Opening
    <2>2. CASE Flock(t) /\ Goto(t, "sweep")
      <3>1. pc'[t] \in Holding
        BY <2>2, GotoElsewhere DEF Holding
      <3> QED
        BY <2>1, <2>2, <3>1, GotoElsewhere, FlockGranted
    <2>3. ASSUME NEW l \in {"readpid", "poll", "idle"}, FlockBusy(t), Goto(t, l)
          PROVE  FlockInv'
      <3>1. pc'[t] \notin Opening \cup Holding
        BY <2>3, GotoElsewhere DEF Opening, Holding
      <3> QED
        BY <2>1, <2>3, <3>1, GotoElsewhere, FlockClosed
    <2>4. (CASE stage[t] = "first" -> "readpid" [] stage[t] = "poll" -> "poll" [] OTHER -> "idle")
              \in {"readpid", "poll", "idle"}
      OBVIOUS
    <2> QED
      BY <1>4, <2>2, <2>3, <2>4 DEF CleanLock
  <1>5. CASE CleanSweep(t) \/ CleanUnlink(t)
    <2>1. UNCHANGED <<flock, fd>>
      BY <1>5 DEF CleanSweep, CleanUnlink, lockVars
    <2>2. pc[t] \in {"sweep", "unlink"} /\ \E l \in {"unlink", "unlinked"} : Goto(t, l)
      BY <1>5 DEF CleanSweep, CleanUnlink
    <2>3. Elsewhere(t) /\ pc[t] \in Holding /\ pc'[t] \in Holding
      BY <2>2, GotoElsewhere DEF Holding
    <2> QED
      BY <2>1, <2>3, FlockStays, LabelsApart
  <1>6. CASE CleanDone(t)
    <2>1. Close(t) /\ Goto(t, "idle")
      BY <1>6 DEF CleanDone
    <2>2. pc'[t] \notin Opening \cup Holding
      BY <2>1, GotoElsewhere DEF Holding, Opening
    <2> QED
      BY <2>1, <2>2, GotoElsewhere, FlockClosed
  <1>7. ASSUME NEW l \in {"poll", "clean"}, pc[t] \in {"term", "kill"}, target[t] \in Sups,
               \/ Dies(target[t], [pc EXCEPT ![t] = l])
               \/ Goto(t, l) /\ UNCHANGED lockVars
        PROVE  FlockInv'
    <2>1. pc[t] \notin Opening \cup Holding /\ l \notin Opening \cup Holding
      BY <1>7 DEF Opening, Holding
    <2>2. CASE Dies(target[t], [pc EXCEPT ![t] = l])
      <3> DEFINE p == target[t]
      <3>1. p \in Procs /\ p # t
        BY <1>7 DEF Procs, ProcessAssumption
      <3>2. Close(p) /\ pc' = [[pc EXCEPT ![t] = l] EXCEPT ![p] = "done"]
        BY <2>2 DEF Dies
      <3> HIDE DEF p
      <3>3. pc'[p] \notin Opening \cup Holding
        BY <3>1, <3>2 DEF TypeOK, Opening, Holding
      <3>4. Elsewhere(p)
        BY <2>1, <3>1, <3>2 DEF TypeOK, Elsewhere
      <3> QED
        BY <3>1, <3>2, <3>3, <3>4, FlockClosed
    <2>3. CASE Goto(t, l) /\ UNCHANGED lockVars
      BY <2>1, <2>3, GotoElsewhere, FlockStays DEF lockVars
    <2> QED
      BY <1>7, <2>2, <2>3
  <1>8. CASE SendTerm(t) \/ Kill(t)
    <2>1. pc[t] \in {"term", "kill"} /\ target[t] \in Sups
      BY <1>8, TargetIsSup DEF SendTerm, Kill
    <2>2. \E l \in {"poll", "clean"} :
             \/ Dies(target[t], [pc EXCEPT ![t] = l])
             \/ Goto(t, l) /\ UNCHANGED lockVars
      BY <1>8 DEF SendTerm, Kill
    <2> QED
      BY <1>7, <2>1, <2>2
  <1> QED
    BY <1>1, <1>2, <1>3, <1>4, <1>5, <1>6, <1>8 DEF ToolStep

-----------------------------------------------------------------------------
(* The tools *)

\* What a supervisor does is nothing to what a tool knows.
LEMMA SupDestroy ==
  ASSUME ProcessAssumption, TypeOK, DestroyInv, NEW p \in Sups,
         \/ Create(p) \/ SupStep(p) \/ SshBinds(p)
         \/ SshDies(p) \/ OrphanSshEnds(p) \/ Crash(p) \/ Hang(p)
  PROVE  DestroyInv'
  <1> p \in Procs /\ p \notin Tools
    BY DEF Procs, ProcessAssumption
  <1>1. target' = target /\ stage' = stage
    BY DEF SupStep, Create, Acquire, SweepStale, WritePid, InstallHandlers, LoserReady,
           LoserWaits, PeekOpen, PeekLock, PeekRelease, SetupFails, Spawn, WaitReady, WaitFails,
           MonitorGhost, MonitorKills, Respawn, TakeSigterm, Drop, DropFiles, DropLock, Release,
           SshBinds, SshDies, OrphanSshEnds, Crash, Hang, StageAfter, supRest, toolVars, peekRest
  <1>2. pc' = pc \/ (\E l : Goto(p, l)) \/ Dies(p, pc)
    BY DEF SupStep, Create, Acquire, SweepStale, WritePid, InstallHandlers, LoserReady,
           LoserWaits, PeekOpen, PeekLock, PeekRelease, SetupFails, Spawn, WaitReady, WaitFails,
           MonitorGhost, MonitorKills, Respawn, TakeSigterm, Drop, DropFiles, DropLock, Release,
           SshBinds, SshDies, OrphanSshEnds, Crash, Hang
  <1>3. \A t \in Tools : pc'[t] = pc[t]
    BY <1>2 DEF Goto, Dies, TypeOK, Procs
  <1> QED
    BY <1>1, <1>3 DEF DestroyInv

\* A tool's step is nothing to what another tool knows, and keeps its own in order.
LEMMA ToolDestroy ==
  ASSUME ProcessAssumption, TypeOK, DestroyInv, NEW t \in Tools,
         List(t) \/ Destroy(t) \/ ToolStep(t) \/ Deadline(t)
  PROVE  DestroyInv'
  <1> DEFINE Knows(st, ta, l) ==
               /\ st \in {"poll", "kill", "last"} \/ l = "term" => ta \in Sups
               /\ l \in {"readpid", "term"} => st = "first"
               /\ l = "poll" => st = "poll"
               /\ l = "kill" => st = "kill"
               /\ l \in {"peek", "peeking", "peeked"} => st \in {"list", "kill"}
  <1> t \in Procs /\ Tools \subseteq Procs
    BY DEF Procs
  <1>0. Knows(stage[t], target[t], pc[t])
    BY DEF DestroyInv
  <1>q. ASSUME \A u \in Tools \ {t} : pc'[u] = pc[u] /\ stage'[u] = stage[u] /\ target'[u] = target[u],
               Knows(stage'[t], target'[t], pc'[t])
        PROVE  DestroyInv'
    BY <1>q DEF DestroyInv
  <1>g. ASSUME NEW l, Goto(t, l)
        PROVE  pc'[t] = l /\ \A u \in Tools \ {t} : pc'[u] = pc[u]
    BY <1>g DEF Goto, TypeOK
  <1> HIDE DEF Knows
  <1>1. CASE List(t)
    <2>1. stage' = [stage EXCEPT ![t] = "list"] /\ target' = target /\ Goto(t, "peek")
      BY <1>1 DEF List
    <2>2. stage'[t] = "list" /\ pc'[t] = "peek"
      BY <2>1, <1>g DEF TypeOK
    <2>3. Knows(stage'[t], target'[t], pc'[t])
      BY <2>2 DEF Knows
    <2> QED
      BY <2>1, <2>3, <1>g, <1>q DEF TypeOK
  <1>2. CASE Destroy(t)
    <2>1. stage' = [stage EXCEPT ![t] = "first"] /\ target' = target /\ Goto(t, "clean")
      BY <1>2 DEF Destroy
    <2>2. stage'[t] = "first" /\ pc'[t] = "clean"
      BY <2>1, <1>g DEF TypeOK
    <2>3. Knows(stage'[t], target'[t], pc'[t])
      BY <2>2 DEF Knows
    <2> QED
      BY <2>1, <2>3, <1>g, <1>q DEF TypeOK
  <1>3. CASE Deadline(t)
    <2>1. stage' = [stage EXCEPT ![t] = "kill"] /\ target' = target /\ Goto(t, "peek") /\ pc[t] = "poll"
      BY <1>3 DEF Deadline
    <2>2. stage'[t] = "kill" /\ pc'[t] = "peek" /\ target'[t] \in Sups
      BY <2>1, <1>g, <1>0, TargetIsSup DEF TypeOK
    <2>3. Knows(stage'[t], target'[t], pc'[t])
      BY <2>2 DEF Knows
    <2> QED
      BY <2>1, <2>3, <1>g, <1>q DEF TypeOK
  <1>4. CASE PeekOpen(t) \/ PeekLock(t) \/ PeekRelease(t)
    <2>0. target' = target /\ pc[t] \in {"peek", "peeking", "peeked"}
      BY <1>4 DEF PeekOpen, PeekLock, PeekRelease, peekRest
    <2>s. stage[t] \in {"list", "kill"}
      BY <2>0, <1>0 DEF Knows
    <2>1. CASE stage' = stage /\ \E l \in {"peeking", "peeked"} : Goto(t, l)
      <3>1. Knows(stage'[t], target'[t], pc'[t])
        BY <2>0, <2>1, <2>s, <1>0, <1>g DEF Knows
      <3> QED
        BY <2>0, <2>1, <3>1, <1>g, <1>q
    <2>2. CASE stage' = stage /\ Goto(t, AfterPeek(t, TRUE))
      <3>1. pc'[t] \in {"idle", "kill"} /\ (pc'[t] = "kill" => stage[t] = "kill")
        <4>1. AfterPeek(t, TRUE) \in {"idle", "kill"} /\ (AfterPeek(t, TRUE) = "kill" => stage[t] = "kill")
          BY <2>s DEF AfterPeek, ProcessAssumption
        <4> QED
          BY <4>1, <2>2, <1>g
      <3>2. Knows(stage'[t], target'[t], pc'[t])
        BY <2>0, <2>2, <2>s, <3>1, <1>0 DEF Knows
      <3> QED
        BY <2>0, <2>2, <3>2, <1>g, <1>q
    <2>3. CASE stage' = StageAfter(t) /\ Goto(t, AfterPeek(t, FALSE))
      <3>1. pc'[t] = "clean"
        <4>1. AfterPeek(t, FALSE) = "clean"
          BY <2>s DEF AfterPeek, ProcessAssumption
        <4> QED
          BY <4>1, <2>3, <1>g
      <3>2. stage'[t] \in {"list", "last"} /\ (stage'[t] = "last" => stage[t] = "kill")
        BY <2>3, <2>s, PeekStage
      <3>3. Knows(stage'[t], target'[t], pc'[t])
        BY <2>0, <3>1, <3>2, <1>0 DEF Knows
      <3>4. \A u \in Tools \ {t} : stage'[u] = stage[u]
        BY <2>3, PeekStage
      <3> QED
        BY <2>0, <2>3, <3>3, <3>4, <1>g, <1>q
    <2> QED
      BY <1>4, <2>1, <2>2, <2>3 DEF PeekOpen, PeekLock, PeekRelease
  <1>5. CASE CleanOpen(t) \/ CleanLock(t) \/ CleanSweep(t) \/ CleanUnlink(t) \/ CleanDone(t) \/ Poll(t)
    <2>1. stage' = stage /\ target' = target
      BY <1>5 DEF CleanOpen, CleanLock, CleanSweep, CleanUnlink, CleanDone, Poll, toolVars
    <2>2. \E l \in {"cleaning", "sweep", "unlink", "unlinked", "idle", "clean", "readpid", "poll"} :
             Goto(t, l) /\ (l = "readpid" => stage[t] = "first") /\ (l = "poll" => stage[t] = "poll")
      BY <1>5 DEF CleanOpen, CleanLock, CleanSweep, CleanUnlink, CleanDone, Poll
    <2>3. Knows(stage'[t], target'[t], pc'[t])
      BY <2>1, <2>2, <1>0, <1>g DEF Knows
    <2> QED
      BY <2>1, <2>2, <2>3, <1>g, <1>q
  <1>6. CASE ReadPid(t)
    <2>1. /\ stage' = stage /\ target' = [target EXCEPT ![t] = pid] /\ stage[t] = "first"
          /\ Goto(t, IF pid = None THEN "idle" ELSE "term")
      BY <1>6, <1>0 DEF ReadPid, Knows
    <2>2. target'[t] = pid /\ pc'[t] = (IF pid = None THEN "idle" ELSE "term")
      BY <2>1, <1>g DEF TypeOK
    <2>3. Knows(stage'[t], target'[t], pc'[t])
      BY <2>1, <2>2 DEF Knows, TypeOK
    <2> QED
      BY <2>1, <2>3, <1>g, <1>q DEF TypeOK
  <1>7. CASE SendTerm(t) \/ Kill(t)
    <2>1. target[t] \in Sups /\ target' = target
      BY <1>7, TargetIsSup DEF SendTerm, Kill
    <2>2. \/ stage' = [stage EXCEPT ![t] = "poll"] /\ pc'[t] = "poll"
          \/ stage' = [stage EXCEPT ![t] = "last"] /\ pc'[t] = "clean"
      BY <1>7, <2>1 DEF SendTerm, Kill, Dies, Goto, TypeOK, ProcessAssumption
    <2>3. \A u \in Tools \ {t} : pc'[u] = pc[u]
      BY <1>7, <2>1 DEF SendTerm, Kill, Dies, Goto, TypeOK, ProcessAssumption
    <2>4. stage'[t] \in {"poll", "last"} /\ (pc'[t] = "poll" => stage'[t] = "poll")
          /\ \A u \in Tools \ {t} : stage'[u] = stage[u]
      BY <2>2 DEF TypeOK
    <2>5. Knows(stage'[t], target'[t], pc'[t])
      BY <2>1, <2>2, <2>4 DEF Knows
    <2> QED
      BY <2>1, <2>3, <2>4, <2>5, <1>q
  <1> QED
    BY <1>1, <1>2, <1>3, <1>4, <1>5, <1>6, <1>7 DEF ToolStep

-----------------------------------------------------------------------------
(* The guards *)

Unlinking == {"rmfiles", "rmlock"}

LEMMA UnlinkingHolds == Unlinking \subseteq Holding
  BY DEF Unlinking, Holding

\* Two processes never have the flock of one file, and there is one at the path as
\* long as a guard has looked.
LEMMA GuardsFile ==
  ASSUME ProcessAssumption, TypeOK, FlockInv, GuardInv, ~yanked,
         NEW p \in Sups, pc[p] \in Unlinking
  PROVE  path # 0 /\ \A x \in Procs \ {p} : pc[x] \in Holding => fd[x] # path
  <1>1. p \in Procs /\ pc[p] \in Holding
    BY UnlinkingHolds DEF Procs
  <1>2. fd[p] = path
    BY DEF GuardInv, Unlinking
  <1> QED
    BY <1>1, <1>2 DEF FlockInv

\* A step that leaves the path alone brings no guard to its unlink, and closes no
\* file of one, keeps what the guards have seen.
LEMMA GuardStays ==
  ASSUME GuardInv, path' = path, yanked' = yanked,
         \A p \in Sups : pc'[p] \in Unlinking => pc[p] \in Unlinking /\ fd'[p] = fd[p]
  PROVE  GuardInv'
  BY DEF GuardInv, Unlinking

\* The lock file a process opens is a new one only while no guard has looked.
LEMMA GuardOpened ==
  ASSUME ProcessAssumption, TypeOK, FlockInv, GuardInv, NEW x \in Procs,
         OpenCreate(x), NEW l, l \notin Unlinking, Goto(x, l), yanked' = yanked
  PROVE  GuardInv'
  <1> SUFFICES ASSUME ~yanked, NEW p \in Sups, pc'[p] \in Unlinking PROVE fd'[p] = path'
    BY DEF GuardInv, Unlinking
  <1>1. p \in Procs /\ p # x /\ pc[p] \in Unlinking
    BY DEF Goto, TypeOK, Procs
  <1>2. path # 0 /\ fd[p] = path
    BY <1>1, GuardsFile DEF GuardInv, Unlinking
  <1>3. fd'[p] = fd[p] /\ path' = path
    BY <1>1, <1>2 DEF OpenCreate, TypeOK
  <1> QED
    BY <1>2, <1>3

\* x goes somewhere but to an unlink, and opens or closes no file but its own.
LEMMA GuardElsewhere ==
  ASSUME ProcessAssumption, TypeOK, GuardInv, NEW x \in Procs, path' = path, yanked' = yanked,
         NEW l, l \notin Unlinking, Goto(x, l), \A y \in Procs \ {x} : fd'[y] = fd[y]
  PROVE  GuardInv'
  <1>1. ASSUME NEW p \in Sups, pc'[p] \in Unlinking PROVE pc[p] \in Unlinking /\ fd'[p] = fd[p]
    BY <1>1 DEF Goto, TypeOK, Procs
  <1> QED
    BY <1>1, GuardStays

\* A guard unlinks its own file: no other guard has seen that one.
LEMMA GuardUnlinks ==
  ASSUME ProcessAssumption, TypeOK, FlockInv, GuardInv, NEW x \in Procs, pc[x] \in Holding,
         yanked' \/ fd[x] = path \/ path = 0, yanked => yanked',
         NEW l, l \notin Unlinking, Goto(x, l), fd' = fd
  PROVE  GuardInv'
  <1> SUFFICES ASSUME ~yanked', NEW p \in Sups, pc'[p] \in Unlinking PROVE FALSE
    BY DEF GuardInv, Unlinking
  <1>1. p \in Procs /\ p # x /\ pc[p] \in Unlinking
    BY DEF Goto, TypeOK, Procs
  <1> QED
    BY <1>1, GuardsFile

LEMMA PeekGuard ==
  ASSUME ProcessAssumption, TypeOK, DestroyInv, GuardInv, NEW x \in Procs,
         PeekOpen(x) \/ PeekLock(x) \/ PeekRelease(x)
  PROVE  GuardInv'
  <1>1. path' = path /\ yanked' = yanked
    BY DEF PeekOpen, PeekLock, PeekRelease, lockVars, peekRest, Flock, FlockBusy, Close
  <1>2. \A y \in Procs \ {x} : fd'[y] = fd[y]
    BY DEF PeekOpen, PeekLock, PeekRelease, lockVars, Flock, FlockBusy, Close, TypeOK
  <1>3. \A held \in BOOLEAN : AfterPeek(x, held) \notin Unlinking
    <2> SUFFICES ASSUME NEW held \in BOOLEAN PROVE AfterPeek(x, held) \notin Unlinking
      OBVIOUS
    <2>1. pc[x] \in {"peek", "peeking", "peeked"}
      BY DEF PeekOpen, PeekLock, PeekRelease
    <2>2. AfterPeek(x, held) \in {"loser", "failed", "idle", "clean", "kill"}
      BY <2>1, PeekAnswer
    <2> QED
      BY <2>2 DEF Unlinking
  <1>4. \E l : l \notin Unlinking /\ Goto(x, l)
    <2>1. "peeking" \notin Unlinking /\ "peeked" \notin Unlinking
      BY DEF Unlinking
    <2> QED
      BY <1>3, <2>1 DEF PeekOpen, PeekLock, PeekRelease
  <1> QED
    BY <1>1, <1>2, <1>4, GuardElsewhere

LEMMA SupGuard ==
  ASSUME ProcessAssumption, TypeOK, DestroyInv, FlockInv, GuardInv, NEW p \in Sups,
         \/ Create(p) \/ SupStep(p) \/ SshBinds(p)
         \/ SshDies(p) \/ OrphanSshEnds(p) \/ Crash(p) \/ Hang(p)
  PROVE  GuardInv'
  <1> p \in Procs
    BY DEF Procs
  <1>l. \A l \in {"opened", "owned", "swept", "named", "setup", "wait", "monitor", "respawn",
                  "drop", "release", "done", "loser", "failed", "hung", "peek"} : l \notin Unlinking
    BY DEF Unlinking
  <1>1. CASE Create(p)
    BY <1>1, <1>l, GuardOpened DEF Create, supRest
  <1>2. CASE \/ Acquire(p) \/ SweepStale(p) \/ WritePid(p) \/ InstallHandlers(p)
             \/ LoserReady(p) \/ LoserWaits(p) \/ SetupFails(p) \/ Spawn(p) \/ WaitReady(p)
             \/ WaitFails(p) \/ MonitorGhost(p) \/ MonitorKills(p) \/ Respawn(p)
             \/ TakeSigterm(p) \/ Release(p) \/ Hang(p)
    <2>1. path' = path /\ yanked' = yanked
      BY <1>2 DEF Acquire, SweepStale, WritePid, InstallHandlers, LoserReady, LoserWaits,
                  SetupFails, Spawn, WaitReady, WaitFails, MonitorGhost, MonitorKills, Respawn,
                  TakeSigterm, Release, Hang, lockVars, supRest, Flock, FlockBusy, Close
    <2>2. \A y \in Procs \ {p} : fd'[y] = fd[y]
      BY <1>2 DEF Acquire, SweepStale, WritePid, InstallHandlers, LoserReady, LoserWaits,
                  SetupFails, Spawn, WaitReady, WaitFails, MonitorGhost, MonitorKills, Respawn,
                  TakeSigterm, Release, Hang, lockVars, Flock, FlockBusy, Close, TypeOK
    <2>3. \E l : l \notin Unlinking /\ Goto(p, l)
      BY <1>2, <1>l DEF Acquire, SweepStale, WritePid, InstallHandlers, LoserReady, LoserWaits,
                  SetupFails, Spawn, WaitReady, WaitFails, MonitorGhost, MonitorKills, Respawn,
                  TakeSigterm, Release, Hang
    <2> QED
      BY <2>1, <2>2, <2>3, GuardElsewhere
  <1>3. CASE PeekOpen(p) \/ PeekLock(p) \/ PeekRelease(p)
    BY <1>3, PeekGuard
  <1>4. CASE Drop(p)
    <2>1. UNCHANGED <<path, fd, yanked>>
      BY <1>4 DEF Drop, lockVars, supRest
    <2>2. Goto(p, IF fd[p] = path THEN "rmfiles" ELSE "release")
      BY <1>4 DEF Drop, lock_still_owned
    <2>3. ASSUME NEW q \in Sups, pc'[q] \in Unlinking, ~yanked PROVE fd[q] = path
      BY <2>2, <2>3, <1>l DEF Goto, TypeOK, Procs, GuardInv, Unlinking
    <2> QED
      BY <2>1, <2>3 DEF GuardInv, Unlinking
  <1>5. CASE DropFiles(p)
    <2>1. UNCHANGED <<path, fd, yanked>> /\ Goto(p, "rmlock") /\ pc[p] \in Unlinking
      BY <1>5 DEF DropFiles, lockVars, supRest, Unlinking
    <2>2. \A q \in Sups : pc'[q] \in Unlinking => pc[q] \in Unlinking
      BY <2>1 DEF Goto, TypeOK, Procs
    <2> QED
      BY <2>1, <2>2, GuardStays
  <1>6. CASE DropLock(p)
    <2>1. fd' = fd /\ yanked' = yanked /\ Goto(p, "release") /\ pc[p] \in Unlinking
      BY <1>6 DEF DropLock, supRest, Unlinking
    <2>2. yanked \/ fd[p] = path
      BY <2>1 DEF GuardInv, Unlinking
    <2> QED
      BY <2>1, <2>2, <1>l, UnlinkingHolds, GuardUnlinks
  <1>7. CASE SshBinds(p) \/ SshDies(p) \/ OrphanSshEnds(p)
    <2>1. UNCHANGED <<path, fd, pc, yanked>>
      BY <1>7 DEF SshBinds, SshDies, OrphanSshEnds, lockVars, supRest
    <2> QED
      BY <2>1, GuardStays
  <1>8. CASE Crash(p)
    <2>1. path' = path /\ yanked' = yanked /\ Goto(p, "done")
      BY <1>8 DEF Crash, Dies, Close, Goto
    <2>2. \A y \in Procs \ {p} : fd'[y] = fd[y]
      BY <1>8 DEF Crash, Dies, Close, TypeOK
    <2> QED
      BY <2>1, <2>2, <1>l, GuardElsewhere
  <1> QED
    BY <1>1, <1>2, <1>3, <1>4, <1>5, <1>6, <1>7, <1>8 DEF SupStep

LEMMA ToolGuard ==
  ASSUME ProcessAssumption, TypeOK, DestroyInv, FlockInv, GuardInv, NEW t \in Tools,
         List(t) \/ Destroy(t) \/ ToolStep(t) \/ Deadline(t)
  PROVE  GuardInv'
  <1> t \in Procs
    BY DEF Procs
  <1>l. \A l \in {"idle", "peek", "clean", "cleaning", "sweep", "unlink", "unlinked", "readpid",
                  "term", "poll", "done"} : l \notin Unlinking
    BY DEF Unlinking
  <1>1. CASE CleanOpen(t)
    BY <1>1, <1>l, GuardOpened DEF CleanOpen, toolRest
  <1>2. CASE \/ List(t) \/ Destroy(t) \/ Deadline(t) \/ CleanLock(t) \/ CleanSweep(t)
             \/ CleanDone(t) \/ ReadPid(t) \/ Poll(t)
    <2>1. path' = path /\ yanked' = yanked
      BY <1>2 DEF List, Destroy, Deadline, CleanLock, CleanSweep, CleanDone, ReadPid, Poll,
                  lockVars, toolRest, Flock, FlockBusy, Close
    <2>2. \A y \in Procs \ {t} : fd'[y] = fd[y]
      BY <1>2 DEF List, Destroy, Deadline, CleanLock, CleanSweep, CleanDone, ReadPid, Poll,
                  lockVars, Flock, FlockBusy, Close, TypeOK
    <2>3. \E l : l \notin Unlinking /\ Goto(t, l)
      BY <1>2, <1>l DEF List, Destroy, Deadline, CleanLock, CleanSweep, CleanDone, ReadPid, Poll
    <2> QED
      BY <2>1, <2>2, <2>3, GuardElsewhere
  <1>3. CASE PeekOpen(t) \/ PeekLock(t) \/ PeekRelease(t)
    BY <1>3, PeekGuard
  <1>4. CASE CleanUnlink(t)
    <2>1. fd' = fd /\ Goto(t, "unlinked") /\ pc[t] \in Holding /\ yanked' = (yanked \/ path \notin {0, fd[t]})
      BY <1>4 DEF CleanUnlink, Holding
    <2> QED
      BY <2>1, <1>l, GuardUnlinks
  <1>5. CASE SendTerm(t) \/ Kill(t)
    <2>1. target[t] \in Sups /\ target[t] \in Procs /\ target[t] # t
      BY <1>5, TargetIsSup DEF SendTerm, Kill, Procs, ProcessAssumption
    <2>2. path' = path /\ yanked' = yanked
      BY <1>5 DEF SendTerm, Kill, Dies, Close, lockVars, toolRest
    <2>3. ASSUME NEW p \in Sups, pc'[p] \in Unlinking PROVE pc[p] \in Unlinking /\ fd'[p] = fd[p]
      <3>1. p \in Procs /\ p # t
        BY DEF Procs, ProcessAssumption
      <3>2. CASE \E l \in {"poll", "clean"} : Dies(target[t], [pc EXCEPT ![t] = l])
        <4>1. pc'[p] = IF p = target[t] THEN "done" ELSE pc[p]
          BY <2>1, <3>1, <3>2 DEF Dies, TypeOK
        <4>2. p # target[t]
          BY <2>3, <4>1, <1>l
        <4>3. fd'[p] = fd[p]
          BY <2>1, <3>1, <3>2, <4>2 DEF Dies, Close, TypeOK
        <4> QED
          BY <2>3, <4>1, <4>2, <4>3
      <3>3. CASE (\E l : Goto(t, l)) /\ UNCHANGED lockVars
        BY <2>3, <3>1, <3>3 DEF Goto, TypeOK, lockVars
      <3> QED
        BY <1>5, <3>2, <3>3 DEF SendTerm, Kill
    <2> QED
      BY <2>2, <2>3, GuardStays
  <1> QED
    BY <1>1, <1>2, <1>3, <1>4, <1>5 DEF ToolStep

-----------------------------------------------------------------------------
(* The theorems *)

LEMMA InvInit == ProcessAssumption /\ Init => IInv
  <1> SUFFICES ASSUME ProcessAssumption, Init PROVE IInv
    OBVIOUS
  <1>1. TypeOK
    <2>1. pc \in [Procs -> Labels]
      BY DEF Init, Labels
    <2>2. /\ path \in Inodes \cup {0}
          /\ flock \in [Inodes -> Procs \cup {None}]
          /\ fd \in [Procs -> Inodes \cup {0}]
      BY DEF Init
    <2>3. ops \in 0..MaxOps /\ faults \in 0..MaxFaults
      BY DEF Init, ProcessAssumption
    <2>4. /\ pid \in Sups \cup {None} /\ sock \in Sups \cup {None}
          /\ ssh \in [Sups -> {"none", "starting", "bound"}]
          /\ sigterm \subseteq Sups /\ yanked \in BOOLEAN
      BY DEF Init
    <2>5. /\ stage \in [Tools -> {"list", "first", "poll", "kill", "last"}]
          /\ target \in [Tools -> Sups \cup {None}]
      BY DEF Init
    <2> QED
      BY <2>1, <2>2, <2>3, <2>4, <2>5 DEF TypeOK
  <1>2. FlockInv
    <2>1. \A x \in Procs : pc[x] \in {"out", "idle"}
      BY DEF Init
    <2>2. \A x \in Procs : pc[x] \notin Opening \cup Holding
      BY <2>1 DEF Opening, Holding
    <2>3. \A i \in Inodes : flock[i] \notin Procs
      BY DEF Init, ProcessAssumption
    <2> QED
      BY <2>2, <2>3 DEF FlockInv
  <1>3. DestroyInv
    BY DEF Init, DestroyInv, Procs, ProcessAssumption
  <1>4. GuardInv
    BY DEF Init, GuardInv, Procs
  <1> QED
    BY <1>1, <1>2, <1>3, <1>4 DEF IInv

LEMMA InvNext == ProcessAssumption /\ IInv /\ [Next]_vars => IInv'
  <1> SUFFICES ASSUME ProcessAssumption, IInv, [Next]_vars PROVE IInv'
    OBVIOUS
  <1>1. TypeOK /\ FlockInv /\ DestroyInv /\ GuardInv
    BY DEF IInv
  <1>2. ASSUME NEW p \in Sups,
               \/ Create(p) \/ SupStep(p) \/ SshBinds(p)
               \/ SshDies(p) \/ OrphanSshEnds(p) \/ Crash(p) \/ Hang(p)
        PROVE  IInv'
    BY <1>1, <1>2, SupType, SupFlock, SupDestroy, SupGuard DEF IInv
  <1>3. ASSUME NEW t \in Tools, List(t) \/ Destroy(t) \/ ToolStep(t) \/ Deadline(t)
        PROVE  IInv'
    BY <1>1, <1>3, ToolType, ToolFlock, ToolDestroy, ToolGuard DEF IInv
  <1>4. CASE UNCHANGED vars
    BY <1>1, <1>4 DEF IInv, TypeOK, FlockInv, DestroyInv, GuardInv, vars, lockVars, fileVars, toolVars
  <1> QED
    BY <1>2, <1>3, <1>4 DEF Next

\* The invariant of TunnelInv is one: the flock of an open lock file is where the
\* code of each step takes it to be (connect.rs).
THEOREM Invariance == ASSUME ProcessAssumption PROVE Spec => []IInv
  BY InvInit, InvNext, PTL DEF Spec

\* The types of the files, the locks and the processes are kept.
THEOREM TypeCorrect == ASSUME ProcessAssumption PROVE Spec => []TypeOK
  <1>1. IInv => TypeOK
    BY DEF IInv
  <1> QED
    BY <1>1, Invariance, PTL

\* A supervisor that ends never unlinks the lock file of another one, as long as
\* no cleanup has unlinked a file it had not locked, although ConnectGuard::drop
\* looks at the lock two steps before it unlinks the path.
THEOREM OwnerKept == ASSUME ProcessAssumption PROVE Spec => DropKeepsOwner
  <1>1. IInv => (\A p \in Sups : ~yanked /\ pc[p] = "rmlock" /\ path # 0
                    => \A q \in Sups \ {p} : ~Owns(q))
    <2> SUFFICES ASSUME IInv, NEW p \in Sups, ~yanked, pc[p] = "rmlock", NEW q \in Sups \ {p}, Owns(q)
                 PROVE  FALSE
      OBVIOUS
    <2>1. p \in Procs /\ q \in Procs /\ path \in Inodes
      BY DEF Procs, Owns, IInv, TypeOK
    <2>2. fd[p] = path /\ flock[path] = p
      BY <2>1 DEF IInv, GuardInv, FlockInv, Holding
    <2> QED
      BY <2>2 DEF Owns
  <1>2. IInv => (\A p \in Sups : ~yanked /\ pc[p] = "rmlock" /\ path' = 0 /\ path # 0
                    => \A q \in Sups \ {p} : ~Owns(q))
    BY <1>1
  <1> QED
    BY <1>2, Invariance, PTL DEF DropKeepsOwner

-----------------------------------------------------------------------------
(* The loop of one supervisor *)

\* A set of n + 1 elements has twice as many subsets as one of n: those without the
\* last element, and the same with it.
LEMMA PowerDoubles ==
  ASSUME NEW n \in Nat
  PROVE  2 ^ (n + 1) = 2 * 2 ^ n /\ 2 ^ n \in Nat /\ 2 ^ n >= 1
  <1> DEFINE S == 1..n
             A == SUBSET S
             B == {T \cup {n + 1} : T \in A}
             f == [T \in A |-> T \cup {n + 1}]
  <1>1. IsFiniteSet(S) /\ Cardinality(S) = n
    BY FS_Interval
  <1>2. IsFiniteSet(1..(n + 1)) /\ Cardinality(1..(n + 1)) = n + 1
    BY FS_Interval
  <1>3. n + 1 \notin S /\ 1..(n + 1) = S \cup {n + 1}
    OBVIOUS
  <1> HIDE DEF S
  <1>4. IsFiniteSet(A) /\ Cardinality(A) = 2 ^ n
    BY <1>1, FS_SUBSET
  <1>5. Cardinality(SUBSET (1..(n + 1))) = 2 ^ (n + 1)
    BY <1>2, FS_SUBSET
  <1>6. f \in Bijection(A, B)
    <2>1. \A T, U \in A : T \cup {n + 1} = U \cup {n + 1} => T = U
      BY <1>3
    <2> HIDE DEF A
    <2>2. f \in [A -> B] /\ \A T \in A : f[T] = T \cup {n + 1}
      OBVIOUS
    <2>3. \A V \in B : \E T \in A : f[T] = V
      OBVIOUS
    <2> HIDE DEF B, f
    <2>4. f \in Injection(A, B)
      BY <2>1, <2>2 DEF Injection, IsInjective
    <2>5. f \in Surjection(A, B)
      BY <2>2, <2>3 DEF Surjection
    <2> QED
      BY <2>4, <2>5 DEF Bijection
  <1>7. IsFiniteSet(B) /\ Cardinality(B) = Cardinality(A)
    BY <1>4, <1>6, FS_Bijection DEF ExistsBijection
  <1>8. SUBSET (1..(n + 1)) = A \cup B
    <2>1. ASSUME NEW V \in SUBSET (1..(n + 1)) PROVE V \in A \cup B
      <3>1. CASE n + 1 \in V
        <4>1. V \ {n + 1} \in A /\ V = (V \ {n + 1}) \cup {n + 1}
          BY <1>3, <3>1
        <4> QED
          BY <4>1
      <3>2. CASE n + 1 \notin V
        BY <1>3, <3>2
      <3> QED
        BY <3>1, <3>2
    <2>2. A \cup B \subseteq SUBSET (1..(n + 1))
      BY <1>3
    <2> QED
      BY <2>1, <2>2
  <1>9. A \cap B = {} /\ {} \in A
    BY <1>3
  <1> HIDE DEF A, B, f
  <1>10. Cardinality(A) \in Nat /\ Cardinality(A) # 0
    BY <1>4, <1>9, FS_CardinalityType, FS_EmptySet
  <1>11. Cardinality(A \cup B) = Cardinality(A) + Cardinality(B)
    <2>1. Cardinality(A \cup B) = Cardinality(A) + Cardinality(B) - Cardinality(A \cap B)
      BY <1>4, <1>7, FS_Union
    <2>2. Cardinality(A \cap B) = 0
      BY <1>9, FS_EmptySet
    <2> QED
      BY <1>7, <1>10, <2>1, <2>2
  <1>12. Cardinality(SUBSET (1..(n + 1))) = 2 * Cardinality(A) /\ Cardinality(A) >= 1
    <2>1. Cardinality(SUBSET (1..(n + 1))) = Cardinality(A) + Cardinality(A)
      BY <1>7, <1>8, <1>11, Zenon
    <2> QED
      BY <1>10, <2>1
  <1>13. 2 ^ (n + 1) = 2 * 2 ^ n
    BY <1>4, <1>5, <1>12, Zenon
  <1>14. 2 ^ n \in Nat /\ 2 ^ n >= 1
    BY <1>4, <1>10, <1>12, Zenon
  <1> QED
    BY <1>13, <1>14

-----------------------------------------------------------------------------

\* What is left of a climb when it is doubled is the climb of one more failure.
LEMMA ClimbDoubles ==
  ASSUME M!BackoffAssumption, NEW n \in 0..MaxBackoff, NEW s \in 0..MaxBackoff,
         s >= M!Climb(n) \/ n = 0
  PROVE  /\ M!double_backoff(s) \in 1..MaxBackoff
         /\ M!double_backoff(s) >= M!Climb(M!Min2(n + 1, MaxBackoff))
         /\ M!Min2(n + 1, MaxBackoff) \in 0..MaxBackoff
  <1>1. MaxBackoff \in Nat \ {0}
    BY DEF M!BackoffAssumption
  <1>2. M!double_backoff(s) \in 1..MaxBackoff /\ M!Min2(n + 1, MaxBackoff) \in 0..MaxBackoff
    BY <1>1 DEF M!double_backoff, M!Min2
  <1>3. 2 ^ (n + 1) = 2 * 2 ^ n /\ 2 ^ n \in Nat /\ 2 ^ n >= 1 /\ 2 ^ 0 = 1
    BY PowerDoubles
  <1> DEFINE p == 2 ^ n
             q == 2 ^ (n + 1)
  <1>4. q = 2 * p /\ p \in Nat /\ p >= 1 /\ (n = 0 => p = 1)
    BY <1>3
  <1>5. M!Climb(n) = M!Min2(p, MaxBackoff) /\ M!Climb(n + 1) = M!Min2(q, MaxBackoff)
    BY DEF M!Climb
  <1> HIDE DEF p, q
  <1>6. CASE n < MaxBackoff
    <2>1. M!Min2(n + 1, MaxBackoff) = n + 1
      BY <1>1, <1>6 DEF M!Min2
    <2> QED
      BY <1>1, <1>2, <1>4, <1>5, <2>1 DEF M!double_backoff, M!Min2
  <1>7. CASE n = MaxBackoff
    <2>1. M!Min2(n + 1, MaxBackoff) = n
      BY <1>1, <1>7 DEF M!Min2
    <2> QED
      BY <1>1, <1>2, <1>4, <1>5, <1>7, <2>1 DEF M!double_backoff, M!Min2
  <1> QED
    BY <1>1, <1>6, <1>7

\* A climb that begins is at one second.
LEMMA ClimbBegins == ASSUME M!BackoffAssumption PROVE M!Climb(0) = 1
  <1>1. 2 ^ 0 = 1
    OBVIOUS
  <1> QED
    BY <1>1 DEF M!Climb, M!Min2, M!BackoffAssumption

LEMMA ClimbType ==
  ASSUME M!BackoffAssumption, NEW n \in Nat
  PROVE  M!Climb(n) \in 1..MaxBackoff
  <1>1. 2 ^ n \in Nat /\ 2 ^ n >= 1
    BY PowerDoubles
  <1> DEFINE p == 2 ^ n
  <1>2. M!Climb(n) = M!Min2(p, MaxBackoff) /\ p \in Nat /\ p >= 1
    BY <1>1 DEF M!Climb
  <1> HIDE DEF p
  <1> QED
    BY <1>2 DEF M!Min2, M!BackoffAssumption

-----------------------------------------------------------------------------

\* The select loop changes the backoff in nothing, and enters respawn_tunnel with
\* what is left of the climb.
LEMMA LoopKeeps ==
  ASSUME M!BackoffAssumption, M!IInv, M!LoopStep \/ M!ChildGaveUp \/ M!Stop
  PROVE  M!IInv'
  <1>1. M!TypeOK /\ M!ClimbInv /\ M!KickInv /\ M!GhostInv
    BY DEF M!IInv
  <1> USE DEF M!selectRest, M!loopVars, M!envVars, M!msVars
  <1>2. CASE M!NetChanged
    <2>1. M!TypeOK'
      BY <1>1, <1>2 DEF M!TypeOK, M!NetChanged
    <2> QED
      BY <1>1, <1>2, <2>1 DEF M!IInv, M!NetChanged, M!ClimbInv, M!KickInv, M!GhostInv
  <1>3. CASE M!NetProbe
    <2>1. probe_failures' \in 0..Strikes
      BY <1>1, <1>3 DEF M!NetProbe, M!TypeOK, M!BackoffAssumption
    <2>2. M!TypeOK'
      BY <1>1, <1>3, <2>1 DEF M!TypeOK, M!NetProbe, M!KillChild
    <2> QED
      BY <1>1, <1>3, <2>2 DEF M!IInv, M!NetProbe, M!ClimbInv, M!KickInv, M!GhostInv
  <1>4. CASE M!ProbeTick
    <2>1. probe_failures' \in 0..Strikes
      BY <1>1, <1>4 DEF M!ProbeTick, M!TypeOK, M!BackoffAssumption, M!Min2
    <2>2. /\ recent' \in BOOLEAN /\ saw_unsatisfied' \in BOOLEAN
          /\ child' \in {"starting", "bound", "dead"} /\ we_killed' \in BOOLEAN
      BY <1>1, <1>4 DEF M!ProbeTick, M!TypeOK, M!KillChild
    <2>3. M!TypeOK'
      BY <1>1, <1>4, <2>1, <2>2 DEF M!TypeOK, M!ProbeTick
    <2> QED
      BY <1>1, <1>4, <2>3 DEF M!IInv, M!ProbeTick, M!ClimbInv, M!KickInv, M!GhostInv
  <1>5. CASE M!ProbeTickGhost \/ M!ChildGaveUp \/ M!Stop
    <2>1. M!TypeOK'
      BY <1>1, <1>5 DEF M!TypeOK, M!ProbeTickGhost, M!ChildGaveUp, M!Stop
    <2> QED
      BY <1>1, <1>5, <2>1
        
            DEF M!IInv, M!ProbeTickGhost, M!ChildGaveUp, M!Stop, M!ClimbInv, M!KickInv,
                M!GhostInv
  <1>6. CASE M!ChildExited
    <2>1. /\ sleep' \in 0..MaxBackoff /\ streak' \in 0..MaxBackoff
          /\ sleep' >= M!Climb(streak') \/ streak' = 0
      BY <1>1, <1>6
         DEF M!ChildExited, M!respawn_sleep, M!TypeOK, M!ClimbInv, M!BackoffAssumption
    <2>2. backoff' >= M!Climb(streak')
      BY <1>1, <1>6, ClimbBegins
         DEF M!ChildExited, M!TypeOK, M!ClimbInv, M!BackoffAssumption
    <2>3. /\ saw_unsatisfied' \in BOOLEAN /\ we_killed' \in BOOLEAN /\ skip_wait' \in BOOLEAN
          /\ backoff_saw' \in BOOLEAN /\ ticked' \in BOOLEAN
      BY <1>1, <1>6 DEF M!ChildExited, M!TypeOK
    <2>4. M!TypeOK'
      BY <1>1, <1>6, <2>1, <2>3 DEF M!TypeOK, M!ChildExited, M!DiscardKick
    <2> QED
      BY <1>1, <1>6, <2>1, <2>2, <2>4
         DEF M!IInv, M!ChildExited, M!DiscardKick, M!ClimbInv, M!KickInv, M!GhostInv
  <1> QED
    BY <1>2, <1>3, <1>4, <1>5, <1>6 DEF M!LoopStep

\* In respawn_tunnel the sleep carries the climb, and every way around goes by the
\* look at the lock.
LEMMA RespawnKeeps ==
  ASSUME M!BackoffAssumption, M!IInv, M!RespawnStep \/ M!WaitKicked \/ M!WaitNet \/ M!SpawnFails
  PROVE  M!IInv'
  <1>1. M!TypeOK /\ M!ClimbInv /\ M!KickInv /\ M!GhostInv
    BY DEF M!IInv
  <1> USE DEF M!respawnRest, M!loopVars, M!envVars
  <1>2. CASE M!RespawnGhost \/ M!RespawnTop \/ M!WaitElapsed \/ M!WaitKicked
    <2>1. M!TypeOK'
      BY <1>1, <1>2
         DEF M!TypeOK, M!RespawnGhost, M!RespawnTop, M!WaitElapsed, M!WaitKicked
    <2> QED
      BY <1>1, <1>2, <2>1 DEF M!IInv, M!RespawnGhost, M!RespawnTop, M!WaitElapsed, M!WaitKicked,
                              M!ClimbInv, M!KickInv, M!GhostInv
  <1>3. CASE M!WaitNet
    <2>1. /\ sleep' \in 0..MaxBackoff /\ streak' \in 0..MaxBackoff
          /\ sleep' >= M!Climb(streak') \/ streak' = 0
      BY <1>1, <1>3 DEF M!WaitNet, M!TypeOK, M!ClimbInv, M!BackoffAssumption
    <2>2. backoff' >= M!Climb(streak')
      BY <1>1, <1>3, ClimbBegins DEF M!WaitNet, M!TypeOK, M!ClimbInv, M!BackoffAssumption
    <2>3. at' \in {"wait", "ready"} /\ backoff_saw' \in BOOLEAN
      BY <1>3 DEF M!WaitNet
    <2>4. M!TypeOK'
      BY <1>1, <1>3, <2>1, <2>3 DEF M!TypeOK, M!WaitNet
    <2> QED
      BY <1>1, <1>3, <2>1, <2>2, <2>3, <2>4
         DEF M!IInv, M!WaitNet, M!ClimbInv, M!KickInv, M!GhostInv
  <1>4. CASE M!Advance
    <2>1. /\ backoff' \in 1..MaxBackoff /\ backoff' >= M!Climb(streak')
          /\ streak' \in 0..MaxBackoff
      BY <1>1, <1>4, ClimbDoubles DEF M!Advance, M!TypeOK, M!ClimbInv
    <2>2. \/ at' = "ensured" /\ sleep' = sleep
          \/ at' = "respawn" /\ sleep' = backoff'
      BY <1>4 DEF M!Advance
    <2>3. M!TypeOK'
      BY <1>1, <1>4, <2>1, <2>2 DEF M!TypeOK, M!Advance
    <2> QED
      BY <1>1, <1>4, <2>1, <2>2, <2>3
         DEF M!IInv, M!Advance, M!ClimbInv, M!KickInv, M!GhostInv
  <1>5. CASE M!SpawnTunnel
    <2>1. ghosted = 0 /\ ghosted' = (IF owned THEN 0 ELSE 1)
      BY <1>1, <1>5 DEF M!SpawnTunnel, M!GhostInv, M!Min2
    <2>2. probe_failures' = 0 /\ 0 \in 0..Strikes /\ ghosted' \in 0..2
      BY <1>5, <2>1 DEF M!SpawnTunnel, M!BackoffAssumption
    <2>3. M!TypeOK'
      BY <1>1, <1>5, <2>2 DEF M!TypeOK, M!SpawnTunnel
    <2> QED
      BY <1>1, <1>5, <2>1, <2>3
         DEF M!IInv, M!SpawnTunnel, M!ClimbInv, M!KickInv, M!GhostInv
  <1>6. CASE M!SpawnFails
    <2>1. failures' \in 0..MaxFailures /\ sleep' \in 0..MaxBackoff /\ sleep' >= M!Climb(streak')
      BY <1>1, <1>6 DEF M!SpawnFails, M!TypeOK, M!ClimbInv, M!BackoffAssumption
    <2>2. M!TypeOK'
      BY <1>1, <1>6, <2>1 DEF M!TypeOK, M!SpawnFails, M!msVars
    <2> QED
      BY <1>1, <1>6, <2>1, <2>2
         DEF M!IInv, M!SpawnFails, M!msVars, M!ClimbInv, M!KickInv, M!GhostInv
  <1> QED
    BY <1>2, <1>3, <1>4, <1>5, <1>6 DEF M!RespawnStep

\* What happens around the loop leaves its climb alone, and a lock that is lost is
\* not found again.
LEMMA MonitorWorld ==
  ASSUME M!BackoffAssumption, M!IInv,
         M!SshBinds \/ M!SshEnds \/ M!Age \/ M!Interval \/ M!Fault \/ M!Recover \/ M!Kick
  PROVE  M!IInv'
  <1>1. M!TypeOK /\ M!ClimbInv /\ M!KickInv /\ M!GhostInv
    BY DEF M!IInv
  <1>2. /\ UNCHANGED M!ctlVars
        /\ child' \in {"starting", "bound", "dead"} /\ uptime' \in {"grace", "young", "healthy"}
        /\ kick' \in {"none", "old", "new"} /\ (kick' = "old" => at \in {"select", "exit"})
        /\ net' \in {"satisfied", "unsatisfied"} /\ owned' \in {owned, FALSE}
    BY <1>1
       DEF M!SshBinds, M!SshEnds, M!Age, M!Interval, M!Fault, M!Recover, M!Kick,
           M!TypeOK, M!KickInv, M!envVars
  <1>3. failures' \in 0..MaxFailures
    BY <1>1 DEF M!SshBinds, M!SshEnds, M!Age, M!Interval, M!Fault, M!Recover, M!Kick, M!TypeOK, M!envVars,
                M!BackoffAssumption
  <1>4. {slept', recent', sockfile', event', remote', due', ticked', owned'} \subseteq BOOLEAN
    <2>1. /\ slept' \in {slept, TRUE} /\ recent' \in {recent, FALSE}
          /\ sockfile' \in {sockfile, TRUE, FALSE} /\ event' \in {event, TRUE}
          /\ remote' \in {remote, TRUE, FALSE} /\ due' \in {due, TRUE}
          /\ ticked' \in {ticked, FALSE} /\ owned' \in {owned, FALSE}
      BY Zenon
         DEF M!SshBinds, M!SshEnds, M!Age, M!Interval, M!Fault, M!Recover, M!Kick,
             M!envVars
    <2> QED
      BY <1>1, <2>1 DEF M!TypeOK
  <1>5. M!TypeOK'
    BY <1>1, <1>2, <1>3, <1>4 DEF M!TypeOK, M!ctlVars, M!loopVars
  <1>6. M!ClimbInv' /\ M!KickInv'
    BY <1>1, <1>2 DEF M!ClimbInv, M!KickInv, M!ctlVars, M!loopVars
  <1>7. M!GhostInv'
    BY <1>1, <1>2, Zenon DEF M!GhostInv, M!ctlVars
  <1> QED
    BY <1>5, <1>6, <1>7 DEF M!IInv

LEMMA MonitorInit == M!BackoffAssumption /\ M!Init => M!IInv
  <1> SUFFICES ASSUME M!BackoffAssumption, M!Init PROVE M!IInv
    OBVIOUS
  <1>1. M!TypeOK
    <2>1. {slept, recent, net_probe, we_killed, saw_unsatisfied, skip_wait, backoff_saw, sockfile,
           event, remote, due, ticked, owned} \subseteq BOOLEAN
      BY Zenon DEF M!Init
    <2>2. at = "select" /\ child = "bound" /\ uptime = "grace" /\ probe_failures = 0
          /\ backoff = 1 /\ sleep = 0 /\ kick = "none" /\ net = "satisfied" /\ failures = 0
          /\ streak = 0 /\ ghosted = 0
      BY DEF M!Init
    <2> QED
      BY <2>1, <2>2 DEF M!TypeOK, M!BackoffAssumption
  <1>2. M!ClimbInv /\ M!KickInv /\ M!GhostInv
    BY ClimbBegins DEF M!Init, M!ClimbInv, M!KickInv, M!GhostInv
  <1> QED
    BY <1>1, <1>2 DEF M!IInv

LEMMA MonitorNext == M!BackoffAssumption /\ M!IInv /\ [M!Next]_(M!vars) => M!IInv'
  <1> SUFFICES ASSUME M!BackoffAssumption, M!IInv, [M!Next]_(M!vars) PROVE M!IInv'
    OBVIOUS
  <1>1. CASE M!Next
    BY <1>1, LoopKeeps, RespawnKeeps, MonitorWorld DEF M!Next
  <1>2. CASE UNCHANGED M!vars
    BY <1>2
       DEF M!vars, M!msVars, M!loopVars, M!envVars, M!IInv, M!TypeOK, M!ClimbInv,
           M!KickInv, M!GhostInv
  <1> QED
    BY <1>1, <1>2

THEOREM MonitorInvariance == ASSUME M!BackoffAssumption PROVE M!Spec => []M!IInv
  BY MonitorInit, MonitorNext, PTL DEF M!Spec

\* The backoff, the strikes and the states of the child keep their ranges
\* (MonitorState, ChildState).
THEOREM MonitorTypes == ASSUME M!BackoffAssumption PROVE M!Spec => []M!TypeOK
  <1>1. M!IInv => M!TypeOK
    BY DEF M!IInv
  <1> QED
    BY <1>1, MonitorInvariance, PTL

\* For every limit of the backoff: a run of n failures has brought it to 2 ^ n
\* seconds or to the limit, whatever cut its sleeps short, and a kick from before
\* the outage is not seen (respawn_tunnel, double_backoff).
THEOREM ClimbKept == ASSUME M!BackoffAssumption PROVE M!Spec => []M!BackoffClimbs
  <1>1. M!IInv => M!BackoffClimbs
    BY DEF M!IInv, M!ClimbInv, M!KickInv, M!BackoffClimbs
  <1> QED
    BY <1>1, MonitorInvariance, PTL

\* A supervisor that has lost its lock spawns ssh at most once more, whatever
\* happens to the network, the remote and ssh (monitor_loop, respawn_tunnel).
THEOREM OneGhost == ASSUME M!BackoffAssumption PROVE M!Spec => []M!GhostSpawnsOnce
  <1>1. M!IInv => M!GhostSpawnsOnce
    BY DEF M!IInv, M!GhostInv, M!GhostSpawnsOnce
  <1> QED
    BY <1>1, MonitorInvariance, PTL
=============================================================================
