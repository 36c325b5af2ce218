------------------------ MODULE ControlSocketProofs ------------------------
(***************************************************************************)
(* The proofs about ControlSocket, for any number of daemons, cleanups and *)
(* crashes; and, at the end, those about Orphans (O!), for any interval of *)
(* the self-check, any number of cleanups and of runs of gritty refresh.   *)
(***************************************************************************)
EXTENDS ControlSocketInv, TLAPS

\* What Orphans has besides: the files as it follows them, and the refresh.
CONSTANTS None, CheckInterval, Lateness, MaxRefreshes
VARIABLES
    binary, state, due, at_sock, at_pid, info, refresh, yes, suspects, wait,
    seen, cleanups, refreshes

O == INSTANCE OrphansInv WITH sock <- at_sock, pid <- at_pid, wipes <- cleanups

USE DEF NoFile
USE WipeAssumption, LimitsAssumption, NoDaemonAssumption

\* A daemon that ends leaves a well-typed state behind.
LEMMA GiveUpType ==
  ASSUME NEW d \in Daemons, TypeOK, GiveUp(d) PROVE TypeOK'
  BY DEF TypeOK, Labels, GiveUp, Exits, Goto, inodeVars, fileVars, limitVars

\* Every step of a daemon or of the cleanup keeps the types.
LEMMA TypeStep == TypeOK /\ [Next]_vars => TypeOK'
  <1> SUFFICES ASSUME TypeOK, [Next]_vars PROVE TypeOK'
    OBVIOUS
  <1> USE DEF TypeOK, Labels, Goto, Exits, fileVars, inodeVars, sockVars, lockVars, limitVars
  <1>1. ASSUME NEW d \in Daemons, Start(d) PROVE TypeOK'
    BY <1>1 DEF Start
  <1>2. ASSUME NEW d \in Daemons, Crash(d) PROVE TypeOK'
    BY <1>2 DEF Crash
  <1>3. ASSUME NEW d \in Daemons, Stop(d) PROVE TypeOK'
    BY <1>3 DEF Stop
  <1>4. ASSUME NEW f \in Files, Wipe(f) PROVE TypeOK'
    BY <1>4 DEF Wipe
  <1>5. ASSUME NEW d \in Daemons, OpenLock(d) PROVE TypeOK'
    BY <1>5 DEF OpenLock
  <1>6. ASSUME NEW d \in Daemons, AcquireLock(d) PROVE TypeOK'
    BY <1>6 DEF AcquireLock
  <1>7. ASSUME NEW d \in Daemons, LockTimeout(d) PROVE TypeOK'
    BY <1>7, GiveUpType DEF LockTimeout
  <1>8. ASSUME NEW d \in Daemons, BindSocket(d) PROVE TypeOK'
    BY <1>8 DEF BindSocket, Bind
  <1>9. ASSUME NEW d \in Daemons, AddrInUse(d) PROVE TypeOK'
    <2>1. CASE GiveUp(d)
      BY <2>1, GiveUpType
    <2>2. CASE ~GiveUp(d)
      BY <1>9, <2>2 DEF AddrInUse
    <2> QED
      BY <2>1, <2>2
  <1>10. ASSUME NEW d \in Daemons, Listen(d) PROVE TypeOK'
    BY <1>10 DEF Listen
  <1>11. ASSUME NEW d \in Daemons, Probe(d) PROVE TypeOK'
    <2>1. CASE GiveUp(d)
      BY <2>1, GiveUpType
    <2>2. CASE ~GiveUp(d)
      BY <1>11, <2>2 DEF Probe
    <2> QED
      BY <2>1, <2>2
  <1>12. ASSUME NEW d \in Daemons, RemoveStale(d) PROVE TypeOK'
    <2>1. CASE GiveUp(d)
      BY <2>1, GiveUpType
    <2>2. CASE ~GiveUp(d)
      BY <1>12, <2>2 DEF RemoveStale
    <2> QED
      BY <2>1, <2>2
  <1>13. ASSUME NEW d \in Daemons, SetPermissions(d) PROVE TypeOK'
    <2>1. CASE GiveUp(d)
      BY <2>1, GiveUpType
    <2>2. CASE ~GiveUp(d)
      <3>1. /\ lockFd' = [lockFd EXCEPT ![d] = NoFile]
            /\ locked' = [locked EXCEPT ![d] = FALSE]
            /\ pc' = [pc EXCEPT ![d] = "stat"]
            /\ UNCHANGED <<fileVars, inodeVars, recovering, sockVars, gaveUp, limitVars>>
        BY <1>13, <2>2 DEF SetPermissions
      <3>2. lockFd' \in [Daemons -> 0..nlock] /\ locked' \in [Daemons -> BOOLEAN]
        BY <3>1
      <3>3. pc' \in [Daemons -> Labels]
        BY <3>1
      <3> QED
        BY <3>1, <3>2, <3>3
    <2> QED
      BY <2>1, <2>2
  <1>14. ASSUME NEW d \in Daemons, Identify(d) PROVE TypeOK'
    <2>1. CASE GiveUp(d)
      BY <2>1, GiveUpType
    <2>2. CASE ~GiveUp(d)
      <3> DEFINE newest == {s \in bound[d] : \A t \in bound[d] : t <= s}
      <3>1. /\ ident' = [ident EXCEPT ![d] = sock]
            /\ bound' = [bound EXCEPT ![d] = newest]
            /\ listening' = [listening EXCEPT ![d] = newest]
            /\ recovering' = [recovering EXCEPT ![d] = FALSE]
            /\ pc' = [pc EXCEPT ![d] = "register"]
            /\ UNCHANGED <<fileVars, inodeVars, lockVars, gaveUp, limitVars>>
        BY <1>14, <2>2 DEF Identify
      <3>2. newest \subseteq 1..nsock
        OBVIOUS
      <3> HIDE DEF newest
      <3>3. bound' \in [Daemons -> SUBSET (1..nsock)] /\ listening' \in [Daemons -> SUBSET (1..nsock)]
        BY <3>1, <3>2
      <3>4. ident' \in [Daemons -> 0..nsock] /\ recovering' \in [Daemons -> BOOLEAN]
        BY <3>1
      <3>5. pc' \in [Daemons -> Labels]
        BY <3>1
      <3> QED
        BY <3>1, <3>3, <3>4, <3>5
    <2> QED
      BY <2>1, <2>2
  <1>15. ASSUME NEW d \in Daemons, Register(d) PROVE TypeOK'
    BY <1>15 DEF Register
  <1>16. ASSUME NEW d \in Daemons, CheckSocket(d) PROVE TypeOK'
    BY <1>16 DEF CheckSocket
  <1>17. ASSUME NEW d \in Daemons, EnsureRegistration(d) PROVE TypeOK'
    BY <1>17 DEF EnsureRegistration
  <1>18. ASSUME NEW d \in Daemons, StopStep(d) PROVE TypeOK'
    <2>1. CASE UnlinkSocket(d)
      BY <2>1 DEF UnlinkSocket
    <2>2. CASE OpenLockToRemove(d)
      BY <2>2 DEF OpenLockToRemove
    <2>3. CASE TryLock(d)
      <3>1. \/ lockFd' = [lockFd EXCEPT ![d] = NoFile] /\ pc' = [pc EXCEPT ![d] = "unlink_pid"]
               /\ locked' = locked
            \/ locked' = [locked EXCEPT ![d] = TRUE] /\ pc' = [pc EXCEPT ![d] = "unlink_lock"]
               /\ lockFd' = lockFd
        BY <2>3 DEF TryLock
      <3>2. lockFd' \in [Daemons -> 0..nlock]
        BY <3>1
      <3>5. locked' \in [Daemons -> BOOLEAN]
        BY <3>1
      <3>3. pc' \in [Daemons -> Labels]
        BY <3>1
      <3>4. UNCHANGED <<fileVars, inodeVars, recovering, sockVars, gaveUp, limitVars>>
        BY <2>3 DEF TryLock
      <3> QED
        BY <3>2, <3>3, <3>4, <3>5
    <2>4. CASE UnlinkLock(d)
      BY <2>4 DEF UnlinkLock
    <2>5. CASE UnlinkPid(d)
      BY <2>5 DEF UnlinkPid
    <2> QED
      BY <1>18, <2>1, <2>2, <2>3, <2>4, <2>5 DEF StopStep
  <1>19. CASE UNCHANGED vars
    BY <1>19 DEF vars
  <1> HIDE DEF TypeOK
  <1> QED
    BY <1>1, <1>2, <1>3, <1>4, <1>5, <1>6, <1>7, <1>8, <1>9, <1>10, <1>11, <1>12, <1>13,
       <1>14, <1>15, <1>16, <1>17, <1>18, <1>19
    DEF Next, DaemonStep, BindStep, ServeStep

\* Whatever daemons and cleanup do, the state keeps its type: in particular no
\* path names an inode that was never created.
THEOREM TypeCorrect == Spec => []TypeOK
  <1>1. Init => TypeOK
    BY DEF Init, TypeOK, Labels
  <1> QED
    BY <1>1, TypeStep, PTL DEF Spec

-----------------------------------------------------------------------------
(* The bind section *)

\* A daemon that ends listens on nothing.
LEMMA GiveUpListen ==
  ASSUME NEW d \in Daemons, TypeOK, GiveUp(d), \A x \in Daemons : ListenInv(x)
  PROVE  \A x \in Daemons : ListenInv(x)'
  BY DEF TypeOK, ListenInv, GiveUp, Exits, Goto

\* Every step keeps the bind section exclusive while the bindlock stays.
LEMMA SerialStep ==
  ASSUME "lock" \notin Wipeable, BindInv, [Next]_vars, \A z \in Daemons : ~UnlinkSocket(z)
  PROVE  BindInv'
  <1>0. TypeOK
    BY DEF BindInv
  <1>1. TypeOK'
    BY TypeStep DEF BindInv
  <1> DEFINE Rest == /\ \A x \in Daemons : LockInv(x)
                     /\ \A x \in Daemons : ListenInv(x)
                     /\ \A x \in Daemons : RemoveInv(x)
                     /\ \A x, y \in Daemons : locked[x] /\ locked[y] => x = y
  <1>2. Rest
    BY DEF BindInv
  <1> USE DEF fileVars, inodeVars, sockVars, lockVars, limitVars, Goto, InBindSection, Binding
  <1>3. ASSUME NEW d \in Daemons, Start(d) PROVE Rest'
    <2>1. \A x \in Daemons : LockInv(x)'
      BY <1>1, <1>2, <1>3, <1>0 DEF TypeOK, LockInv, Start
    <2>2. \A x \in Daemons : ListenInv(x)'
      BY <1>1, <1>2, <1>3, <1>0 DEF TypeOK, ListenInv, Start
    <2>3. \A x \in Daemons : RemoveInv(x)'
      BY <1>1, <1>2, <1>3, <1>0 DEF TypeOK, LockInv, ListenInv, RemoveInv, Start
    <2>4. \A x, y \in Daemons : locked'[x] /\ locked'[y] => x = y
      BY <1>1, <1>2, <1>3, <1>0 DEF TypeOK, LockInv, Start
    <2> QED
      BY <2>1, <2>2, <2>3, <2>4
  <1>4. ASSUME NEW d \in Daemons, Crash(d) PROVE Rest'
    <2>1. \A x \in Daemons : LockInv(x)'
      BY <1>1, <1>2, <1>4, <1>0 DEF TypeOK, LockInv, Crash, Exits
    <2>2. \A x \in Daemons : ListenInv(x)'
      BY <1>1, <1>2, <1>4, <1>0 DEF TypeOK, ListenInv, Crash, Exits
    <2>3. \A x \in Daemons : RemoveInv(x)'
      BY <1>1, <1>2, <1>4, <1>0 DEF TypeOK, LockInv, ListenInv, RemoveInv, Crash, Exits
    <2>4. \A x, y \in Daemons : locked'[x] /\ locked'[y] => x = y
      BY <1>1, <1>2, <1>4, <1>0 DEF TypeOK, LockInv, Crash, Exits
    <2> QED
      BY <2>1, <2>2, <2>3, <2>4
  <1>5. ASSUME NEW d \in Daemons, LockTimeout(d) PROVE Rest'
    <2>1. \A x \in Daemons : LockInv(x)'
      BY <1>1, <1>2, <1>5, <1>0 DEF TypeOK, LockInv, LockTimeout, GiveUp, Exits
    <2>2. \A x \in Daemons : ListenInv(x)'
      BY <1>1, <1>2, <1>5, <1>0 DEF TypeOK, ListenInv, LockTimeout, GiveUp, Exits
    <2>3. \A x \in Daemons : RemoveInv(x)'
      BY <1>1, <1>2, <1>5, <1>0 DEF TypeOK, LockInv, ListenInv, RemoveInv, LockTimeout, GiveUp, Exits
    <2>4. \A x, y \in Daemons : locked'[x] /\ locked'[y] => x = y
      BY <1>1, <1>2, <1>5, <1>0 DEF TypeOK, LockInv, LockTimeout, GiveUp, Exits
    <2> QED
      BY <2>1, <2>2, <2>3, <2>4
  <1>6. ASSUME NEW d \in Daemons, OpenLock(d) PROVE Rest'
    <2>1. \A x \in Daemons : LockInv(x)'
      BY <1>1, <1>2, <1>6, <1>0 DEF TypeOK, LockInv, OpenLock
    <2>2. \A x \in Daemons : ListenInv(x)'
      BY <1>1, <1>2, <1>6, <1>0 DEF TypeOK, ListenInv, OpenLock
    <2>3. \A x \in Daemons : RemoveInv(x)'
      BY <1>1, <1>2, <1>6, <1>0 DEF TypeOK, LockInv, ListenInv, RemoveInv, OpenLock
    <2>4. \A x, y \in Daemons : locked'[x] /\ locked'[y] => x = y
      BY <1>1, <1>2, <1>6, <1>0 DEF TypeOK, LockInv, OpenLock
    <2> QED
      BY <2>1, <2>2, <2>3, <2>4
  <1>7. ASSUME NEW d \in Daemons, AcquireLock(d) PROVE Rest'
    <2>1. \A x \in Daemons : LockInv(x)'
      BY <1>1, <1>2, <1>7, <1>0 DEF TypeOK, LockInv, AcquireLock, Held
    <2>2. \A x \in Daemons : ListenInv(x)'
      BY <1>1, <1>2, <1>7, <1>0 DEF TypeOK, ListenInv, AcquireLock, Held
    <2>3. \A x \in Daemons : RemoveInv(x)'
      BY <1>1, <1>2, <1>7, <1>0 DEF TypeOK, LockInv, ListenInv, RemoveInv, AcquireLock, Held
    <2>4. \A x, y \in Daemons : locked'[x] /\ locked'[y] => x = y
      BY <1>1, <1>2, <1>7, <1>0 DEF TypeOK, LockInv, AcquireLock, Held
    <2> QED
      BY <2>1, <2>2, <2>3, <2>4
  <1>8. ASSUME NEW d \in Daemons, BindSocket(d) PROVE Rest'
    <2>1. \A x \in Daemons : LockInv(x)'
      BY <1>1, <1>2, <1>8, <1>0 DEF TypeOK, LockInv, BindSocket, Bind
    <2>2. \A x \in Daemons : ListenInv(x)'
      BY <1>1, <1>2, <1>8, <1>0 DEF TypeOK, ListenInv, BindSocket, Bind
    <2>3. \A x \in Daemons : RemoveInv(x)'
      BY <1>1, <1>2, <1>8, <1>0 DEF TypeOK, LockInv, ListenInv, RemoveInv, BindSocket, Bind
    <2>4. \A x, y \in Daemons : locked'[x] /\ locked'[y] => x = y
      BY <1>1, <1>2, <1>8, <1>0 DEF TypeOK, LockInv, BindSocket, Bind
    <2> QED
      BY <2>1, <2>2, <2>3, <2>4
  <1>9. ASSUME NEW d \in Daemons, AddrInUse(d) PROVE Rest'
    <2>1. \A x \in Daemons : LockInv(x)'
      BY <1>1, <1>2, <1>9, <1>0 DEF TypeOK, LockInv, AddrInUse, GiveUp, Exits
    <2>2. \A x \in Daemons : ListenInv(x)'
      <3>1. CASE GiveUp(d)
        BY <1>0, <1>2, <3>1, GiveUpListen
      <3>2. CASE ~GiveUp(d)
        <4>1. UNCHANGED <<bound, listening>> /\ pc[d] # "listen" /\ \A x \in Daemons \ {d} : pc'[x] = pc[x]
          BY <1>0, <1>9, <3>2 DEF TypeOK, AddrInUse
        <4> QED
          BY <1>0, <1>2, <4>1 DEF TypeOK, ListenInv
      <3> QED
        BY <3>1, <3>2
    <2>3. \A x \in Daemons : RemoveInv(x)'
      BY <1>1, <1>2, <1>9, <1>0 DEF TypeOK, LockInv, ListenInv, RemoveInv, AddrInUse, GiveUp, Exits
    <2>4. \A x, y \in Daemons : locked'[x] /\ locked'[y] => x = y
      BY <1>1, <1>2, <1>9, <1>0 DEF TypeOK, LockInv, AddrInUse, GiveUp, Exits
    <2> QED
      BY <2>1, <2>2, <2>3, <2>4
  <1>10. ASSUME NEW d \in Daemons, Listen(d) PROVE Rest'
    <2>1. \A x \in Daemons : LockInv(x)'
      BY <1>1, <1>2, <1>10, <1>0 DEF TypeOK, LockInv, Listen
    <2>2. \A x \in Daemons : ListenInv(x)'
      BY <1>1, <1>2, <1>10, <1>0 DEF TypeOK, ListenInv, Listen
    <2>3. \A x \in Daemons : RemoveInv(x)'
      BY <1>1, <1>2, <1>10, <1>0 DEF TypeOK, LockInv, ListenInv, RemoveInv, Listen
    <2>4. \A x, y \in Daemons : locked'[x] /\ locked'[y] => x = y
      BY <1>1, <1>2, <1>10, <1>0 DEF TypeOK, LockInv, Listen
    <2> QED
      BY <2>1, <2>2, <2>3, <2>4
  <1>11. ASSUME NEW d \in Daemons, Probe(d) PROVE Rest'
    <2>1. \A x \in Daemons : LockInv(x)'
      BY <1>1, <1>2, <1>11, <1>0 DEF TypeOK, LockInv, Probe, GiveUp, Exits, Alive
    <2>2. \A x \in Daemons : ListenInv(x)'
      <3>1. CASE GiveUp(d)
        BY <1>0, <1>2, <3>1, GiveUpListen
      <3>2. CASE ~GiveUp(d)
        <4>1. UNCHANGED <<bound, listening>> /\ pc[d] # "listen" /\ \A x \in Daemons \ {d} : pc'[x] = pc[x]
          BY <1>0, <1>11, <3>2 DEF TypeOK, Probe
        <4> QED
          BY <1>0, <1>2, <4>1 DEF TypeOK, ListenInv
      <3> QED
        BY <3>1, <3>2
    <2>3. \A x \in Daemons : RemoveInv(x)'
      BY <1>1, <1>2, <1>11, <1>0 DEF TypeOK, LockInv, ListenInv, RemoveInv, Probe, GiveUp, Exits, Alive
    <2>4. \A x, y \in Daemons : locked'[x] /\ locked'[y] => x = y
      BY <1>1, <1>2, <1>11, <1>0 DEF TypeOK, LockInv, Probe, GiveUp, Exits, Alive
    <2> QED
      BY <2>1, <2>2, <2>3, <2>4
  <1>12. ASSUME NEW d \in Daemons, RemoveStale(d) PROVE Rest'
    <2>1. \A x \in Daemons : LockInv(x)'
      BY <1>1, <1>2, <1>12, <1>0 DEF TypeOK, LockInv, RemoveStale, GiveUp, Exits
    <2>2. \A x \in Daemons : ListenInv(x)'
      <3>1. CASE GiveUp(d)
        BY <1>0, <1>2, <3>1, GiveUpListen
      <3>2. CASE ~GiveUp(d)
        <4>1. UNCHANGED <<bound, listening>> /\ pc[d] # "listen" /\ \A x \in Daemons \ {d} : pc'[x] = pc[x]
          BY <1>0, <1>12, <3>2 DEF TypeOK, RemoveStale
        <4> QED
          BY <1>0, <1>2, <4>1 DEF TypeOK, ListenInv
      <3> QED
        BY <3>1, <3>2
    <2>3. \A x \in Daemons : RemoveInv(x)'
      BY <1>1, <1>2, <1>12, <1>0 DEF TypeOK, LockInv, ListenInv, RemoveInv, RemoveStale, GiveUp, Exits
    <2>4. \A x, y \in Daemons : locked'[x] /\ locked'[y] => x = y
      BY <1>1, <1>2, <1>12, <1>0 DEF TypeOK, LockInv, RemoveStale, GiveUp, Exits
    <2> QED
      BY <2>1, <2>2, <2>3, <2>4
  <1>13. ASSUME NEW d \in Daemons, SetPermissions(d) PROVE Rest'
    <2>1. \A x \in Daemons : LockInv(x)'
      BY <1>1, <1>2, <1>13, <1>0 DEF TypeOK, LockInv, SetPermissions, GiveUp, Exits
    <2>2. \A x \in Daemons : ListenInv(x)'
      <3>1. CASE GiveUp(d)
        BY <1>0, <1>2, <3>1, GiveUpListen
      <3>2. CASE ~GiveUp(d)
        <4>1. UNCHANGED <<bound, listening>> /\ pc[d] # "listen" /\ \A x \in Daemons \ {d} : pc'[x] = pc[x]
          BY <1>0, <1>13, <3>2 DEF TypeOK, SetPermissions
        <4> QED
          BY <1>0, <1>2, <4>1 DEF TypeOK, ListenInv
      <3> QED
        BY <3>1, <3>2
    <2>3. \A x \in Daemons : RemoveInv(x)'
      BY <1>1, <1>2, <1>13, <1>0 DEF TypeOK, LockInv, ListenInv, RemoveInv, SetPermissions, GiveUp, Exits
    <2>4. \A x, y \in Daemons : locked'[x] /\ locked'[y] => x = y
      BY <1>1, <1>2, <1>13, <1>0 DEF TypeOK, LockInv, SetPermissions, GiveUp, Exits
    <2> QED
      BY <2>1, <2>2, <2>3, <2>4
  <1>14. ASSUME NEW d \in Daemons, Identify(d) PROVE Rest'
    <2>1. \A x \in Daemons : LockInv(x)'
      BY <1>1, <1>2, <1>14, <1>0 DEF TypeOK, LockInv, Identify, GiveUp, Exits
    <2>2. \A x \in Daemons : ListenInv(x)'
      <3>1. CASE GiveUp(d)
        BY <1>0, <1>2, <3>1, GiveUpListen
      <3>2. CASE ~GiveUp(d)
        <4> DEFINE newest == {s \in bound[d] : \A t \in bound[d] : t <= s}
        <4>1. /\ bound' = [bound EXCEPT ![d] = newest]
              /\ listening' = [listening EXCEPT ![d] = newest]
              /\ \A x \in Daemons \ {d} : pc'[x] = pc[x]
          BY <1>0, <1>14, <3>2 DEF TypeOK, Identify
        <4> HIDE DEF newest
        <4> QED
          BY <1>0, <1>2, <4>1 DEF TypeOK, ListenInv
      <3> QED
        BY <3>1, <3>2
    <2>3. \A x \in Daemons : RemoveInv(x)'
      BY <1>1, <1>2, <1>14, <1>0 DEF TypeOK, LockInv, ListenInv, RemoveInv, Identify, GiveUp, Exits
    <2>4. \A x, y \in Daemons : locked'[x] /\ locked'[y] => x = y
      BY <1>1, <1>2, <1>14, <1>0 DEF TypeOK, LockInv, Identify, GiveUp, Exits
    <2> QED
      BY <2>1, <2>2, <2>3, <2>4
  <1>15. ASSUME NEW d \in Daemons, Register(d) PROVE Rest'
    <2>1. \A x \in Daemons : LockInv(x)'
      BY <1>1, <1>2, <1>15, <1>0 DEF TypeOK, LockInv, Register
    <2>2. \A x \in Daemons : ListenInv(x)'
      BY <1>1, <1>2, <1>15, <1>0 DEF TypeOK, ListenInv, Register
    <2>3. \A x \in Daemons : RemoveInv(x)'
      BY <1>1, <1>2, <1>15, <1>0 DEF TypeOK, LockInv, ListenInv, RemoveInv, Register
    <2>4. \A x, y \in Daemons : locked'[x] /\ locked'[y] => x = y
      BY <1>1, <1>2, <1>15, <1>0 DEF TypeOK, LockInv, Register
    <2> QED
      BY <2>1, <2>2, <2>3, <2>4
  <1>16. ASSUME NEW d \in Daemons, CheckSocket(d) PROVE Rest'
    <2>1. \A x \in Daemons : LockInv(x)'
      BY <1>1, <1>2, <1>16, <1>0 DEF TypeOK, LockInv, CheckSocket
    <2>2. \A x \in Daemons : ListenInv(x)'
      BY <1>1, <1>2, <1>16, <1>0 DEF TypeOK, ListenInv, CheckSocket
    <2>3. \A x \in Daemons : RemoveInv(x)'
      BY <1>1, <1>2, <1>16, <1>0 DEF TypeOK, LockInv, ListenInv, RemoveInv, CheckSocket
    <2>4. \A x, y \in Daemons : locked'[x] /\ locked'[y] => x = y
      BY <1>1, <1>2, <1>16, <1>0 DEF TypeOK, LockInv, CheckSocket
    <2> QED
      BY <2>1, <2>2, <2>3, <2>4
  <1>17. ASSUME NEW d \in Daemons, EnsureRegistration(d) PROVE Rest'
    <2>1. \A x \in Daemons : LockInv(x)'
      BY <1>1, <1>2, <1>17, <1>0 DEF TypeOK, LockInv, EnsureRegistration
    <2>2. \A x \in Daemons : ListenInv(x)'
      BY <1>1, <1>2, <1>17, <1>0 DEF TypeOK, ListenInv, EnsureRegistration
    <2>3. \A x \in Daemons : RemoveInv(x)'
      BY <1>1, <1>2, <1>17, <1>0 DEF TypeOK, LockInv, ListenInv, RemoveInv, EnsureRegistration
    <2>4. \A x, y \in Daemons : locked'[x] /\ locked'[y] => x = y
      BY <1>1, <1>2, <1>17, <1>0 DEF TypeOK, LockInv, EnsureRegistration
    <2> QED
      BY <2>1, <2>2, <2>3, <2>4
  <1>18. ASSUME NEW f \in Files, Wipe(f) PROVE Rest'
    <2>1. \A x \in Daemons : LockInv(x)'
      BY <1>1, <1>2, <1>18, <1>0 DEF TypeOK, LockInv, Wipe
    <2>2. \A x \in Daemons : ListenInv(x)'
      BY <1>1, <1>2, <1>18, <1>0 DEF TypeOK, ListenInv, Wipe
    <2>3. \A x \in Daemons : RemoveInv(x)'
      BY <1>1, <1>2, <1>18, <1>0 DEF TypeOK, LockInv, ListenInv, RemoveInv, Wipe
    <2>4. \A x, y \in Daemons : locked'[x] /\ locked'[y] => x = y
      BY <1>1, <1>2, <1>18, <1>0 DEF TypeOK, LockInv, Wipe
    <2> QED
      BY <2>1, <2>2, <2>3, <2>4
  <1>19. ASSUME UNCHANGED vars PROVE Rest'
    <2>1. \A x \in Daemons : LockInv(x)'
      BY <1>1, <1>2, <1>19, <1>0 DEF TypeOK, LockInv, vars
    <2>2. \A x \in Daemons : ListenInv(x)'
      BY <1>1, <1>2, <1>19, <1>0 DEF TypeOK, ListenInv, vars
    <2>3. \A x \in Daemons : RemoveInv(x)'
      BY <1>1, <1>2, <1>19, <1>0 DEF TypeOK, LockInv, ListenInv, RemoveInv, vars
    <2>4. \A x, y \in Daemons : locked'[x] /\ locked'[y] => x = y
      BY <1>1, <1>2, <1>19, <1>0 DEF TypeOK, LockInv, vars
    <2> QED
      BY <2>1, <2>2, <2>3, <2>4
  <1>20. ASSUME NEW d \in Daemons PROVE ~StopStep(d)
    BY <1>2 DEF LockInv, StopStep, OpenLockToRemove, TryLock, UnlinkLock, UnlinkPid
  <1>21. ASSUME NEW d \in Daemons, Stop(d) PROVE Rest'
    <2>1. \A x \in Daemons : LockInv(x)'
      BY <1>1, <1>2, <1>21, <1>0 DEF TypeOK, LockInv, Stop
    <2>2. \A x \in Daemons : ListenInv(x)'
      BY <1>1, <1>2, <1>21, <1>0 DEF TypeOK, ListenInv, Stop
    <2>3. \A x \in Daemons : RemoveInv(x)'
      BY <1>1, <1>2, <1>21, <1>0 DEF TypeOK, LockInv, ListenInv, RemoveInv, Stop
    <2>4. \A x, y \in Daemons : locked'[x] /\ locked'[y] => x = y
      BY <1>1, <1>2, <1>21, <1>0 DEF TypeOK, LockInv, Stop
    <2> QED
      BY <2>1, <2>2, <2>3, <2>4
  <1> HIDE DEF Rest
  <1>22. Rest'
    BY <1>3, <1>4, <1>5, <1>6, <1>7, <1>8, <1>9, <1>10, <1>11, <1>12, <1>13, <1>14, <1>15,
       <1>16, <1>17, <1>18, <1>19, <1>20, <1>21
    DEF Next, DaemonStep, BindStep, ServeStep
  <1> QED
    BY <1>1, <1>22 DEF Rest, BindInv

\* Nobody is told to stop if nobody may be.
LEMMA NobodyStops ==
  ASSUME MaxStops = 0, TypeOK, \A d \in Daemons : pc[d] # "unlink_sock", [Next]_vars
  PROVE  \A d \in Daemons : ~UnlinkSocket(d) /\ pc'[d] # "unlink_sock"
  <1>1. \A d \in Daemons : ~Stop(d) /\ ~UnlinkSocket(d)
    BY DEF TypeOK, Stop, UnlinkSocket
  <1>2. ASSUME NEW d \in Daemons, NEW e \in Daemons,
               BindStep(e) \/ ServeStep(e) \/ Start(e) \/ Crash(e)
        PROVE  pc'[d] # "unlink_sock"
    BY <1>2 DEF TypeOK, BindStep, ServeStep, OpenLock, AcquireLock, LockTimeout, BindSocket, Bind,
       AddrInUse, Listen, Probe, RemoveStale, SetPermissions, Identify, Register, CheckSocket,
       EnsureRegistration, Start, Crash, GiveUp, Exits, Goto
  <1>3. ASSUME NEW d \in Daemons, NEW e \in Daemons, StopStep(e)
        PROVE  pc'[d] # "unlink_sock"
    BY <1>1, <1>3 DEF TypeOK, StopStep, OpenLockToRemove, TryLock, UnlinkLock, UnlinkPid, Exits, Goto
  <1>4. ASSUME NEW d \in Daemons, NEW f \in Files, Wipe(f) PROVE pc'[d] # "unlink_sock"
    BY <1>4 DEF Wipe
  <1> QED
    BY <1>1, <1>2, <1>3, <1>4 DEF Next, DaemonStep, vars

\* As long as nobody unlinks the bindlock, the bind section stays exclusive.
LEMMA SerialInvariance ==
  ASSUME LockStays
  PROVE  Spec => [](BindInv /\ NoStop)
  <1>1. Init => BindInv /\ NoStop
    BY DEF Init, BindInv, TypeOK, Labels, LockInv, ListenInv, RemoveInv, InBindSection, Binding,
           NoStop
  <1>2. BindInv /\ NoStop /\ [Next]_vars => BindInv' /\ NoStop'
    BY SerialStep, NobodyStops DEF LockStays, NoStop, BindInv
  <1> QED
    BY <1>1, <1>2, PTL DEF Spec

\* As long as nobody unlinks the bindlock, at most one daemon is between its
\* flock and the end of bind_unix_listener.
THEOREM Serialized ==
  ASSUME LockStays
  PROVE  Spec => []BindSerialized
  <1>1. BindInv => BindSerialized
    BY DEF BindInv, BindSerialized, LockInv
  <1> QED
    BY <1>1, SerialInvariance, PTL

\* As long as nobody unlinks the bindlock, bind_unix_listener never removes a
\* socket that a daemon listens on.
THEOREM LiveSocketKept ==
  ASSUME LockStays
  PROVE  Spec => BindKeepsLiveSocket
  <1>1. BindInv /\ [Next]_vars
          => [\A d \in Daemons : pc[d] = "remove" /\ pc'[d] = "rebind" => ~Alive(sock)]_vars
    BY DEF BindInv, RemoveInv, Alive
  <1> QED
    BY <1>1, SerialInvariance, PTL DEF Spec, BindKeepsLiveSocket

-----------------------------------------------------------------------------
(* The identity of the socket *)

\* Every step keeps the socket of a binder at the path, if the cleanup spares
\* binders.
LEMMA FreshStep ==
  ASSUME "lock" \notin Wipeable, WipeInBind = FALSE \/ Wipeable = {}, OwnInv, [Next]_vars,
         \A z \in Daemons : ~UnlinkSocket(z)
  PROVE  \A x \in Daemons : FreshInv(x)'
  <1>0. TypeOK /\ BindInv /\ \A x \in Daemons : FreshInv(x)
    BY DEF BindInv, OwnInv
  <1> USE DEF fileVars, inodeVars, sockVars, lockVars, limitVars, Goto
  <1> SUFFICES ASSUME NEW x \in Daemons PROVE FreshInv(x)'
    OBVIOUS
  <1> DEFINE Just == {"listen", "chmod", "stat"}
  <1>1. ASSUME sock' = sock,
               pc'[x] \in Just => pc[x] \in Just /\ bound'[x] = bound[x]
        PROVE  FreshInv(x)'
    BY <1>0, <1>1 DEF FreshInv
  <1>2. ASSUME NEW d \in Daemons, Start(d) PROVE FreshInv(x)'
    <2>1. sock' = sock
      BY <1>2 DEF Start
    <2>2. pc'[x] \in Just => pc[x] \in Just /\ bound'[x] = bound[x]
      BY <1>0, <1>2 DEF TypeOK, Start
    <2> QED
      BY <1>1, <2>1, <2>2
  <1>3. ASSUME NEW d \in Daemons, Crash(d) PROVE FreshInv(x)'
    <2>1. sock' = sock
      BY <1>3 DEF Crash, Exits
    <2>2. pc'[x] \in Just => pc[x] \in Just /\ bound'[x] = bound[x]
      BY <1>0, <1>3 DEF TypeOK, Crash, Exits
    <2> QED
      BY <1>1, <2>1, <2>2
  <1>4. ASSUME NEW d \in Daemons, OpenLock(d) PROVE FreshInv(x)'
    <2>1. sock' = sock
      BY <1>4 DEF OpenLock
    <2>2. pc'[x] \in Just => pc[x] \in Just /\ bound'[x] = bound[x]
      BY <1>0, <1>4 DEF TypeOK, OpenLock
    <2> QED
      BY <1>1, <2>1, <2>2
  <1>5. ASSUME NEW d \in Daemons, AcquireLock(d) PROVE FreshInv(x)'
    <2>1. sock' = sock
      BY <1>5 DEF AcquireLock
    <2>2. pc'[x] \in Just => pc[x] \in Just /\ bound'[x] = bound[x]
      BY <1>0, <1>5 DEF TypeOK, AcquireLock
    <2> QED
      BY <1>1, <2>1, <2>2
  <1>6. ASSUME NEW d \in Daemons, LockTimeout(d) PROVE FreshInv(x)'
    <2>1. sock' = sock
      BY <1>6 DEF LockTimeout, GiveUp, Exits
    <2>2. pc'[x] \in Just => pc[x] \in Just /\ bound'[x] = bound[x]
      BY <1>0, <1>6 DEF TypeOK, LockTimeout, GiveUp, Exits
    <2> QED
      BY <1>1, <2>1, <2>2
  <1>7. ASSUME NEW d \in Daemons, AddrInUse(d) PROVE FreshInv(x)'
    <2>1. sock' = sock
      BY <1>7 DEF AddrInUse, GiveUp, Exits
    <2>2. pc'[x] \in Just => pc[x] \in Just /\ bound'[x] = bound[x]
      BY <1>0, <1>7 DEF TypeOK, AddrInUse, GiveUp, Exits
    <2> QED
      BY <1>1, <2>1, <2>2
  <1>8. ASSUME NEW d \in Daemons, Listen(d) PROVE FreshInv(x)'
    <2>1. sock' = sock
      BY <1>8 DEF Listen
    <2>2. pc'[x] \in Just => pc[x] \in Just /\ bound'[x] = bound[x]
      BY <1>0, <1>8 DEF TypeOK, Listen
    <2> QED
      BY <1>1, <2>1, <2>2
  <1>9. ASSUME NEW d \in Daemons, Probe(d) PROVE FreshInv(x)'
    <2>1. sock' = sock
      BY <1>9 DEF Probe, GiveUp, Exits
    <2>2. pc'[x] \in Just => pc[x] \in Just /\ bound'[x] = bound[x]
      BY <1>0, <1>9 DEF TypeOK, Probe, GiveUp, Exits
    <2> QED
      BY <1>1, <2>1, <2>2
  <1>10. ASSUME NEW d \in Daemons, SetPermissions(d) PROVE FreshInv(x)'
    <2>1. sock' = sock
      BY <1>10 DEF SetPermissions, GiveUp, Exits
    <2>2. pc'[x] \in Just => pc[x] \in Just /\ bound'[x] = bound[x]
      BY <1>0, <1>10 DEF TypeOK, SetPermissions, GiveUp, Exits
    <2> QED
      BY <1>1, <2>1, <2>2
  <1>11. ASSUME NEW d \in Daemons, Identify(d) PROVE FreshInv(x)'
    <2>1. sock' = sock
      BY <1>11 DEF Identify, GiveUp, Exits
    <2>2. pc'[x] \in Just => pc[x] \in Just /\ bound'[x] = bound[x]
      BY <1>0, <1>11 DEF TypeOK, Identify, GiveUp, Exits
    <2> QED
      BY <1>1, <2>1, <2>2
  <1>12. ASSUME NEW d \in Daemons, Register(d) PROVE FreshInv(x)'
    <2>1. sock' = sock
      BY <1>12 DEF Register
    <2>2. pc'[x] \in Just => pc[x] \in Just /\ bound'[x] = bound[x]
      BY <1>0, <1>12 DEF TypeOK, Register
    <2> QED
      BY <1>1, <2>1, <2>2
  <1>13. ASSUME NEW d \in Daemons, CheckSocket(d) PROVE FreshInv(x)'
    <2>1. sock' = sock
      BY <1>13 DEF CheckSocket
    <2>2. pc'[x] \in Just => pc[x] \in Just /\ bound'[x] = bound[x]
      BY <1>0, <1>13 DEF TypeOK, CheckSocket
    <2> QED
      BY <1>1, <2>1, <2>2
  <1>14. ASSUME NEW d \in Daemons, EnsureRegistration(d) PROVE FreshInv(x)'
    <2>1. sock' = sock
      BY <1>14 DEF EnsureRegistration
    <2>2. pc'[x] \in Just => pc[x] \in Just /\ bound'[x] = bound[x]
      BY <1>0, <1>14 DEF TypeOK, EnsureRegistration
    <2> QED
      BY <1>1, <2>1, <2>2
  <1>15. ASSUME NEW d \in Daemons, BindSocket(d) PROVE FreshInv(x)'
    <2>1. CASE x = d
      BY <1>0, <1>15, <2>1 DEF TypeOK, BindSocket, Bind, FreshInv
    <2>2. CASE x # d
      <3>1. pc[x] \notin Just
        BY <1>0, <1>15 DEF TypeOK, BindSocket, Bind, FreshInv
      <3> QED
        BY <1>0, <1>15, <2>2, <3>1 DEF TypeOK, BindSocket, Bind, FreshInv
    <2> QED
      BY <2>1, <2>2
  <1>16. ASSUME NEW d \in Daemons, RemoveStale(d) PROVE FreshInv(x)'
    <2>1. CASE GiveUp(d)
      <3>1. sock' = sock
        BY <2>1 DEF GiveUp
      <3>2. pc'[x] \in Just => pc[x] \in Just /\ bound'[x] = bound[x]
        BY <1>0, <2>1 DEF TypeOK, GiveUp, Exits
      <3> QED
        BY <1>1, <3>1, <3>2
    <2>2. CASE ~GiveUp(d)
      <3>1. pc[d] = "remove" /\ pc' = [pc EXCEPT ![d] = "rebind"]
        BY <1>16, <2>2 DEF RemoveStale
      <3>2. CASE x = d
        BY <1>0, <3>1, <3>2 DEF TypeOK, FreshInv
      <3>3. CASE x # d /\ pc[x] \in {"listen", "chmod"}
        BY <1>0, <3>1, <3>3 DEF BindInv, LockInv, InBindSection, Binding
      <3>4. CASE x # d /\ pc[x] = "stat"
        <4>1. sock \in bound[x] /\ bound[x] = listening[x]
          BY <1>0, <3>4 DEF BindInv, ListenInv, FreshInv
        <4> QED
          BY <1>0, <3>1, <4>1 DEF BindInv, RemoveInv
      <3>5. CASE x # d /\ pc[x] \notin Just
        BY <1>0, <3>1, <3>5 DEF TypeOK, FreshInv
      <3> QED
        BY <3>2, <3>3, <3>4, <3>5
    <2> QED
      BY <2>1, <2>2
  <1>17. ASSUME NEW f \in Files, Wipe(f) PROVE FreshInv(x)'
    BY <1>0, <1>17 DEF TypeOK, Wipe, Binding, FreshInv
  <1>18. CASE UNCHANGED vars
    BY <1>0, <1>18 DEF vars, FreshInv
  <1>19. ASSUME NEW d \in Daemons PROVE ~StopStep(d)
    BY <1>0 DEF BindInv, LockInv, StopStep, OpenLockToRemove, TryLock, UnlinkLock, UnlinkPid
  <1>20. ASSUME NEW d \in Daemons, Stop(d) PROVE FreshInv(x)'
    <2>1. sock' = sock
      BY <1>20 DEF Stop
    <2>2. pc'[x] \in Just => pc[x] \in Just /\ bound'[x] = bound[x]
      BY <1>0, <1>20 DEF TypeOK, Stop
    <2> QED
      BY <1>1, <2>1, <2>2
  <1> QED
    BY <1>2, <1>3, <1>4, <1>5, <1>6, <1>7, <1>8, <1>9, <1>10, <1>11, <1>12, <1>13, <1>14, <1>15, <1>16, <1>17, <1>18, <1>19, <1>20
    DEF Next, DaemonStep, BindStep, ServeStep

\* Every step keeps the recorded identity that of a socket the daemon bound.
LEMMA IdentityStep ==
  ASSUME "lock" \notin Wipeable, OwnInv, [Next]_vars, \A z \in Daemons : ~UnlinkSocket(z)
  PROVE  IdentityIsOwn'
  <1>0. TypeOK /\ BindInv /\ IdentityIsOwn /\ \A x \in Daemons : FreshInv(x)
    BY DEF BindInv, OwnInv
  <1> USE DEF fileVars, inodeVars, sockVars, lockVars, limitVars, Goto
  <1> DEFINE Up == {"register", "serve", "ensure"}
  <1> SUFFICES ASSUME NEW x \in Daemons, pc'[x] \in Up PROVE ident'[x] \in bound'[x]
    BY DEF IdentityIsOwn
  <1>1. ASSUME pc[x] \in Up, ident'[x] = ident[x], bound'[x] = bound[x]
        PROVE  ident'[x] \in bound'[x]
    BY <1>0, <1>1 DEF IdentityIsOwn
  <1>2. ASSUME NEW d \in Daemons, Start(d) PROVE ident'[x] \in bound'[x]
    <2>1. pc[x] \in Up /\ ident'[x] = ident[x] /\ bound'[x] = bound[x]
      BY <1>0, <1>2 DEF TypeOK, Start
    <2> QED
      BY <1>1, <2>1
  <1>3. ASSUME NEW d \in Daemons, Crash(d) PROVE ident'[x] \in bound'[x]
    <2>1. pc[x] \in Up /\ ident'[x] = ident[x] /\ bound'[x] = bound[x]
      BY <1>0, <1>3 DEF TypeOK, Crash, Exits
    <2> QED
      BY <1>1, <2>1
  <1>4. ASSUME NEW d \in Daemons, OpenLock(d) PROVE ident'[x] \in bound'[x]
    <2>1. pc[x] \in Up /\ ident'[x] = ident[x] /\ bound'[x] = bound[x]
      BY <1>0, <1>4 DEF TypeOK, OpenLock
    <2> QED
      BY <1>1, <2>1
  <1>5. ASSUME NEW d \in Daemons, AcquireLock(d) PROVE ident'[x] \in bound'[x]
    <2>1. pc[x] \in Up /\ ident'[x] = ident[x] /\ bound'[x] = bound[x]
      BY <1>0, <1>5 DEF TypeOK, AcquireLock
    <2> QED
      BY <1>1, <2>1
  <1>6. ASSUME NEW d \in Daemons, LockTimeout(d) PROVE ident'[x] \in bound'[x]
    <2>1. pc[x] \in Up /\ ident'[x] = ident[x] /\ bound'[x] = bound[x]
      BY <1>0, <1>6 DEF TypeOK, LockTimeout, GiveUp, Exits
    <2> QED
      BY <1>1, <2>1
  <1>7. ASSUME NEW d \in Daemons, BindSocket(d) PROVE ident'[x] \in bound'[x]
    <2>1. pc[x] \in Up /\ ident'[x] = ident[x] /\ bound'[x] = bound[x]
      BY <1>0, <1>7 DEF TypeOK, BindSocket, Bind
    <2> QED
      BY <1>1, <2>1
  <1>8. ASSUME NEW d \in Daemons, AddrInUse(d) PROVE ident'[x] \in bound'[x]
    <2>1. pc[x] \in Up /\ ident'[x] = ident[x] /\ bound'[x] = bound[x]
      BY <1>0, <1>8 DEF TypeOK, AddrInUse, GiveUp, Exits
    <2> QED
      BY <1>1, <2>1
  <1>9. ASSUME NEW d \in Daemons, Listen(d) PROVE ident'[x] \in bound'[x]
    <2>1. pc[x] \in Up /\ ident'[x] = ident[x] /\ bound'[x] = bound[x]
      BY <1>0, <1>9 DEF TypeOK, Listen
    <2> QED
      BY <1>1, <2>1
  <1>10. ASSUME NEW d \in Daemons, Probe(d) PROVE ident'[x] \in bound'[x]
    <2>1. pc[x] \in Up /\ ident'[x] = ident[x] /\ bound'[x] = bound[x]
      BY <1>0, <1>10 DEF TypeOK, Probe, GiveUp, Exits
    <2> QED
      BY <1>1, <2>1
  <1>11. ASSUME NEW d \in Daemons, RemoveStale(d) PROVE ident'[x] \in bound'[x]
    <2>1. pc[x] \in Up /\ ident'[x] = ident[x] /\ bound'[x] = bound[x]
      BY <1>0, <1>11 DEF TypeOK, RemoveStale, GiveUp, Exits
    <2> QED
      BY <1>1, <2>1
  <1>12. ASSUME NEW d \in Daemons, SetPermissions(d) PROVE ident'[x] \in bound'[x]
    <2>1. pc[x] \in Up /\ ident'[x] = ident[x] /\ bound'[x] = bound[x]
      BY <1>0, <1>12 DEF TypeOK, SetPermissions, GiveUp, Exits
    <2> QED
      BY <1>1, <2>1
  <1>13. ASSUME NEW d \in Daemons, Register(d) PROVE ident'[x] \in bound'[x]
    <2>1. pc[x] \in Up /\ ident'[x] = ident[x] /\ bound'[x] = bound[x]
      BY <1>0, <1>13 DEF TypeOK, Register
    <2> QED
      BY <1>1, <2>1
  <1>14. ASSUME NEW d \in Daemons, CheckSocket(d) PROVE ident'[x] \in bound'[x]
    <2>1. pc[x] \in Up /\ ident'[x] = ident[x] /\ bound'[x] = bound[x]
      BY <1>0, <1>14 DEF TypeOK, CheckSocket
    <2> QED
      BY <1>1, <2>1
  <1>15. ASSUME NEW d \in Daemons, EnsureRegistration(d) PROVE ident'[x] \in bound'[x]
    <2>1. pc[x] \in Up /\ ident'[x] = ident[x] /\ bound'[x] = bound[x]
      BY <1>0, <1>15 DEF TypeOK, EnsureRegistration
    <2> QED
      BY <1>1, <2>1
  <1>16. ASSUME NEW d \in Daemons, Identify(d) PROVE ident'[x] \in bound'[x]
    <2>1. CASE GiveUp(d)
      <3>1. pc[x] \in Up /\ ident'[x] = ident[x] /\ bound'[x] = bound[x]
        BY <1>0, <2>1 DEF TypeOK, GiveUp, Exits
      <3> QED
        BY <1>1, <3>1
    <2>2. CASE ~GiveUp(d) /\ x = d
      <3> DEFINE newest == {s \in bound[d] : \A t \in bound[d] : t <= s}
      <3>1. pc[d] = "stat" /\ ident' = [ident EXCEPT ![d] = sock] /\ bound' = [bound EXCEPT ![d] = newest]
        BY <1>16, <2>2 DEF Identify
      <3>2. sock \in newest
        BY <1>0, <3>1 DEF FreshInv
      <3> HIDE DEF newest
      <3> QED
        BY <1>0, <2>2, <3>1, <3>2 DEF TypeOK
    <2>3. CASE ~GiveUp(d) /\ x # d
      <3>1. pc[x] \in Up /\ ident'[x] = ident[x] /\ bound'[x] = bound[x]
        BY <1>0, <1>16, <2>3 DEF TypeOK, Identify
      <3> QED
        BY <1>1, <3>1
    <2> QED
      BY <2>1, <2>2, <2>3
  <1>17. ASSUME NEW f \in Files, Wipe(f) PROVE ident'[x] \in bound'[x]
    BY <1>0, <1>1, <1>17 DEF Wipe
  <1>18. CASE UNCHANGED vars
    BY <1>0, <1>1, <1>18 DEF vars
  <1>19. ASSUME NEW d \in Daemons PROVE ~StopStep(d)
    BY <1>0 DEF BindInv, LockInv, StopStep, OpenLockToRemove, TryLock, UnlinkLock, UnlinkPid
  <1>20. ASSUME NEW d \in Daemons, Stop(d) PROVE ident'[x] \in bound'[x]
    <2>1. pc[x] \in Up /\ ident'[x] = ident[x] /\ bound'[x] = bound[x]
      BY <1>0, <1>20 DEF TypeOK, Stop
    <2> QED
      BY <1>1, <2>1
  <1> QED
    BY <1>2, <1>3, <1>4, <1>5, <1>6, <1>7, <1>8, <1>9, <1>10, <1>11, <1>12, <1>13, <1>14, <1>15, <1>16, <1>17, <1>18, <1>19, <1>20
    DEF Next, DaemonStep, BindStep, ServeStep

\* Every step keeps OwnInv, but for those of a shutdown that removes files.
LEMMA OwnStep ==
  ASSUME "lock" \notin Wipeable, WipeInBind = FALSE \/ Wipeable = {}, OwnInv, [Next]_vars,
         \A z \in Daemons : ~UnlinkSocket(z)
  PROVE  OwnInv'
  <1>1. BindInv'
    BY SerialStep DEF OwnInv
  <1>2. \A x \in Daemons : FreshInv(x)'
    BY FreshStep
  <1>3. IdentityIsOwn'
    BY IdentityStep
  <1> QED
    BY <1>1, <1>2, <1>3 DEF OwnInv

\* At the start nobody has bound anything.
LEMMA OwnInit == ASSUME Init PROVE OwnInv
  BY DEF Init, OwnInv, BindInv, TypeOK, Labels, LockInv, ListenInv, RemoveInv, FreshInv,
         IdentityIsOwn, InBindSection, Binding

\* If the bindlock stays and the cleanup spares binders, the identity that
\* check_socket compares the path with is that of the daemon's own socket, so a
\* daemon that lost the path notices.
THEOREM OwnIdentity ==
  ASSUME LockStays, WipeInBind = FALSE
  PROVE  Spec => []IdentityIsOwn
  <1>1. Init => OwnInv
    BY OwnInit
  <1>2. OwnInv /\ NoStop /\ [Next]_vars => OwnInv'
    BY OwnStep DEF LockStays, NoStop, UnlinkSocket
  <1>3. OwnInv => IdentityIsOwn
    BY DEF OwnInv
  <1> QED
    BY <1>1, <1>2, <1>3, SerialInvariance, PTL DEF Spec

-----------------------------------------------------------------------------
(* Giving up *)

\* What a daemon does, as long as it removes no file in a shutdown.
LiveStep(d) == BindStep(d) \/ ServeStep(d) \/ Start(d) \/ Crash(d) \/ Stop(d)

\* A step that is not that of a shutdown is one of a daemon, or of the cleanup.
LEMMA StepKinds ==
  ASSUME BindInv, [Next]_vars, \A z \in Daemons : ~UnlinkSocket(z)
  PROVE  \/ \E d \in Daemons : LiveStep(d)
         \/ \E f \in Files : Wipe(f)
         \/ UNCHANGED vars
  <1>1. ASSUME NEW d \in Daemons PROVE ~StopStep(d)
    BY DEF BindInv, LockInv, StopStep, OpenLockToRemove, TryLock, UnlinkLock, UnlinkPid
  <1> QED
    BY <1>1 DEF Next, DaemonStep, LiveStep

\* A daemon changes nothing of another process.
LEMMA OthersStay ==
  ASSUME TypeOK, NEW d \in Daemons, LiveStep(d), NEW x \in Daemons, x # d
  PROVE  /\ pc'[x] = pc[x] /\ bound'[x] = bound[x] /\ listening'[x] = listening[x]
         /\ ident'[x] = ident[x] /\ gaveUp'[x] = gaveUp[x]
  <1> USE DEF TypeOK, Goto, fileVars, inodeVars, sockVars, lockVars, limitVars
  <1>1. CASE GiveUp(d)
    BY <1>1 DEF GiveUp, Exits
  <1>2. CASE BindStep(d) /\ ~GiveUp(d)
    BY <1>2 DEF BindStep, OpenLock, AcquireLock, LockTimeout, BindSocket, Bind, AddrInUse, Listen,
                Probe, RemoveStale, SetPermissions
  <1>3. CASE ServeStep(d) /\ ~GiveUp(d)
    BY <1>3 DEF ServeStep, Identify, Register, CheckSocket, EnsureRegistration
  <1>4. CASE Start(d) \/ Crash(d) \/ Stop(d)
    BY <1>4 DEF Start, Crash, Stop, Exits
  <1> QED
    BY <1>1, <1>2, <1>3, <1>4 DEF LiveStep

\* The path changes when a daemon binds, and when it removes what it probed.
LEMMA PathChange ==
  ASSUME TypeOK, NEW d \in Daemons, LiveStep(d)
  PROVE  \/ sock' = sock
         \/ BindSocket(d)
         \/ pc[d] = "remove" /\ sock' = NoFile /\ pc' = [pc EXCEPT ![d] = "rebind"]
              /\ UNCHANGED sockVars
  <1> USE DEF Goto, fileVars
  <1>1. CASE BindStep(d)
    BY <1>1 DEF BindStep, OpenLock, AcquireLock, LockTimeout, AddrInUse, Listen, Probe,
                RemoveStale, SetPermissions, GiveUp
  <1>2. CASE ServeStep(d)
    BY <1>2 DEF ServeStep, Identify, Register, CheckSocket, EnsureRegistration, GiveUp
  <1>3. CASE Start(d) \/ Crash(d) \/ Stop(d)
    BY <1>3 DEF Start, Crash, Stop
  <1> QED
    BY <1>1, <1>2, <1>3 DEF LiveStep

\* PathInv depends on the path and on the daemon's own state only.
LEMMA PathFrame ==
  ASSUME NEW x \in Daemons, PathInv(x),
         pc'[x] = pc[x], bound'[x] = bound[x], ident'[x] = ident[x],
         pc[x] \in Contending => sock' \notin bound[x],
         pc[x] \in {"probe", "remove", "rebind"} => sock' = sock
  PROVE  PathInv(x)'
  BY DEF PathInv, Running

\* A daemon's own step.
LEMMA PathOwnStep ==
  ASSUME OwnInv, NEW d \in Daemons, PathInv(d), LiveStep(d)
  PROVE  PathInv(d)'
  <1>0. TypeOK /\ BindInv /\ FreshInv(d)
    BY DEF OwnInv, BindInv
  <1> USE DEF Goto, fileVars, inodeVars, sockVars, lockVars, limitVars, Contending, Running
  <1>1. CASE GiveUp(d) \/ Crash(d)
    <2>1. pc'[d] = "gone" /\ bound'[d] = {}
      BY <1>0, <1>1 DEF TypeOK, GiveUp, Crash, Exits
    <2> QED
      BY <2>1 DEF PathInv
  <1>2. ASSUME sock' = sock, bound'[d] = bound[d], ident'[d] = ident[d],
               \/ pc[d] \in Contending \ {"gone"} /\ pc'[d] \in {"open", "flock", "bind"}
               \/ pc[d] \in {"chmod", "listen"} /\ pc'[d] \in {"chmod", "stat"}
               \/ pc[d] \in {"register", "serve", "ensure"}
                    /\ pc'[d] \in {"serve", "ensure", "unlink_sock"}
        PROVE  PathInv(d)'
    BY <1>2 DEF PathInv
  <1>3. CASE OpenLock(d) \/ AcquireLock(d) \/ Start(d)
    <2>1. /\ sock' = sock /\ bound' = bound /\ ident' = ident
          /\ pc[d] \in {"off", "open", "flock"} /\ pc'[d] \in {"open", "flock", "bind"}
      BY <1>0, <1>3 DEF TypeOK, OpenLock, AcquireLock, Start
    <2> QED
      BY <1>2, <2>1
  <1>4. CASE (Listen(d) \/ SetPermissions(d)) /\ ~GiveUp(d)
    <2>1. /\ sock' = sock /\ bound' = bound /\ ident' = ident
          /\ pc[d] \in {"listen", "chmod"} /\ pc'[d] \in {"chmod", "stat"}
      BY <1>0, <1>4 DEF TypeOK, Listen, SetPermissions
    <2> QED
      BY <1>2, <2>1
  <1>5. CASE Register(d) \/ EnsureRegistration(d) \/ Stop(d)
    <2>1. /\ sock' = sock /\ bound' = bound /\ ident' = ident
          /\ pc[d] \in {"register", "ensure", "serve"} /\ pc'[d] \in {"serve", "unlink_sock"}
      BY <1>0, <1>5 DEF TypeOK, Register, EnsureRegistration, Stop
    <2> QED
      BY <1>2, <2>1
  <1>6. CASE BindSocket(d)
    <2>1. pc'[d] = "listen" /\ bound'[d] = bound[d] \cup {nsock + 1}
      BY <1>0, <1>6 DEF TypeOK, BindSocket, Bind
    <2> QED
      BY <2>1 DEF PathInv
  <1>7. CASE AddrInUse(d) /\ ~GiveUp(d)
    <2>1. /\ sock' = sock /\ bound' = bound /\ sock # NoFile
          /\ pc[d] = "bind" /\ pc'[d] = "probe"
      BY <1>0, <1>7 DEF TypeOK, AddrInUse
    <2> QED
      BY <2>1 DEF PathInv
  <1>8. CASE Probe(d) /\ ~GiveUp(d)
    <2>1. sock' = sock /\ bound' = bound /\ pc[d] = "probe" /\ pc'[d] = "remove"
      BY <1>0, <1>8 DEF TypeOK, Probe
    <2> QED
      BY <2>1 DEF PathInv
  <1>9. CASE RemoveStale(d) /\ ~GiveUp(d)
    <2>1. sock' = NoFile /\ bound' = bound /\ pc'[d] = "rebind"
      BY <1>0, <1>9 DEF TypeOK, RemoveStale
    <2>2. NoFile \notin bound[d]
      BY <1>0 DEF TypeOK
    <2> QED
      BY <2>1, <2>2 DEF PathInv
  <1>10. CASE Identify(d) /\ ~GiveUp(d)
    <2> DEFINE newest == {s \in bound[d] : \A t \in bound[d] : t <= s}
    <2>1. /\ pc[d] = "stat" /\ pc'[d] = "register"
          /\ ident' = [ident EXCEPT ![d] = sock] /\ bound' = [bound EXCEPT ![d] = newest]
      BY <1>0, <1>10 DEF TypeOK, Identify
    <2>2. \A s \in newest : s = sock
      BY <1>0, <2>1 DEF FreshInv, TypeOK
    <2> HIDE DEF newest
    <2>3. bound'[d] \subseteq {ident'[d]}
      BY <1>0, <2>1, <2>2 DEF TypeOK
    <2> QED
      BY <2>1, <2>3 DEF PathInv
  <1>11. CASE CheckSocket(d)
    <2>1. /\ sock' = sock /\ bound' = bound /\ ident' = ident /\ pc[d] = "serve"
          /\ \/ pc'[d] = "ensure"
             \/ pc'[d] = "open" /\ sock # ident[d]
      BY <1>0, <1>11 DEF TypeOK, CheckSocket
    <2> QED
      BY <2>1 DEF PathInv
  <1> QED
    BY <1>1, <1>3, <1>4, <1>5, <1>6, <1>7, <1>8, <1>9, <1>10, <1>11
    DEF LiveStep, BindStep, ServeStep, LockTimeout

\* A contender's path is left alone, or changed to what is not its own.
LEMMA PathStep ==
  ASSUME "lock" \notin Wipeable, WipeInBind = FALSE, PathsInv, [Next]_vars,
         \A z \in Daemons : ~UnlinkSocket(z), NEW x \in Daemons
  PROVE  PathInv(x)'
  <1>0. OwnInv /\ BindInv /\ TypeOK /\ PathInv(x)
    BY DEF PathsInv, OwnInv, BindInv
  <1>1. bound[x] \subseteq 1..nsock /\ nsock \in Nat
    BY <1>0 DEF TypeOK
  <1>2. ASSUME NEW d \in Daemons, LiveStep(d), d # x PROVE PathInv(x)'
    <2>1. pc'[x] = pc[x] /\ bound'[x] = bound[x] /\ ident'[x] = ident[x]
      BY <1>0, <1>2, OthersStay
    <2>2. CASE sock' = sock
      BY <1>0, <2>1, <2>2, PathFrame DEF PathInv
    <2>3. ASSUME ~(pc[x] \in {"probe", "remove", "rebind"}), sock' \notin bound[x]
          PROVE  PathInv(x)'
      BY <1>0, <2>1, <2>3, PathFrame
    <2>4. pc[d] \in {"bind", "rebind", "remove"} => pc[x] \notin {"probe", "remove", "rebind"}
      BY <1>0, <1>2 DEF BindInv, LockInv, InBindSection, Binding
    <2>5. CASE BindSocket(d)
      <3>1. pc[d] \in {"bind", "rebind"} /\ sock' = nsock + 1
        BY <2>5 DEF BindSocket, Bind
      <3>2. sock' \notin bound[x]
        BY <1>1, <3>1
      <3> QED
        BY <2>3, <2>4, <3>1, <3>2
    <2>6. CASE pc[d] = "remove" /\ sock' = NoFile
      <3>1. sock' \notin bound[x]
        BY <1>1, <2>6
      <3> QED
        BY <2>3, <2>4, <2>6, <3>1
    <2> QED
      BY <1>0, <1>2, <2>2, <2>5, <2>6, PathChange
  <1>3. CASE LiveStep(x)
    BY <1>0, <1>3, PathOwnStep
  <1>4. ASSUME NEW f \in Files, Wipe(f) PROVE PathInv(x)'
    <2>1. sock' \in {sock, NoFile} /\ ~Binding(x) /\ pc' = pc /\ bound' = bound /\ ident' = ident
      BY <1>4 DEF Wipe, sockVars
    <2>2. NoFile \notin bound[x] /\ pc[x] \notin {"probe", "remove", "rebind"}
      BY <1>1, <2>1 DEF Binding
    <2> QED
      BY <1>0, <2>1, <2>2, PathFrame DEF PathInv
  <1>5. CASE UNCHANGED vars
    BY <1>0, <1>5, PathFrame DEF vars, fileVars, sockVars, PathInv
  <1> QED
    BY <1>0, <1>2, <1>3, <1>4, <1>5, StepKinds

\* Whoever gives up leaves another daemon running.
LEMMA GiveUpStep ==
  ASSUME PathsInv, NEW d \in Daemons, LiveStep(d), gaveUp'[d], ~gaveUp[d]
  PROVE  \E e \in Daemons \ {d} : Running(e)
  <1>0. OwnInv /\ BindInv /\ TypeOK /\ PathInv(d) /\ FreshInv(d)
    BY DEF PathsInv, OwnInv, BindInv
  <1>1. pc[d] \in {"listen", "chmod", "stat"} => sock # NoFile
    BY <1>0 DEF FreshInv, TypeOK
  <1>2. \/ LockTimeout(d)
        \/ pc[d] = "rebind" /\ sock # NoFile
        \/ pc[d] = "probe" /\ Alive(sock)
        \/ pc[d] \in {"remove", "chmod", "stat"} /\ sock = NoFile
    <2> USE DEF limitVars
    <2>1. CASE BindStep(d)
      BY <2>1 DEF BindStep, OpenLock, AcquireLock, BindSocket, Bind, AddrInUse, Listen, Probe,
                  RemoveStale, SetPermissions
    <2>2. CASE ServeStep(d)
      BY <2>2 DEF ServeStep, Identify, Register, CheckSocket, EnsureRegistration
    <2>3. CASE Start(d) \/ Crash(d) \/ Stop(d)
      BY <2>3 DEF Start, Crash, Stop
    <2> QED
      BY <2>1, <2>2, <2>3 DEF LiveStep
  <1>3. CASE LockTimeout(d)
    <2>1. PICK e \in Daemons : locked[e]
      BY <1>3 DEF LockTimeout, Held
    <2>2. InBindSection(e) /\ ~locked[d]
      BY <1>0, <1>3, <2>1 DEF BindInv, LockInv, InBindSection, Binding, LockTimeout
    <2> QED
      BY <2>1, <2>2 DEF InBindSection, Binding, Running
  <1>4. CASE pc[d] = "probe" /\ Alive(sock)
    <2>1. PICK e \in Daemons : sock \in listening[e]
      BY <1>4 DEF Alive
    <2>2. sock \in bound[e] /\ sock \notin bound[d]
      BY <1>0, <1>4, <2>1 DEF BindInv, ListenInv, PathInv, Contending
    <2> QED
      BY <2>1, <2>2 DEF PathsInv, PathInv
  <1> QED
    BY <1>0, <1>1, <1>2, <1>3, <1>4 DEF PathInv

\* A daemon that gives up the socket, and with it its sessions, gives it up to
\* another one: check_socket and bind_unix_listener mistake neither its own
\* socket, nor a dead one, nor a path that is free, for that of somebody else.
THEOREM GivesUpRightly ==
  ASSUME LockStays, WipeInBind = FALSE
  PROVE  Spec => GivesUpToAnother
  <1>1. Init => PathsInv
    BY OwnInit DEF Init, PathsInv, PathInv, Contending, Running
  <1>2. PathsInv /\ NoStop /\ [Next]_vars => PathsInv'
    BY OwnStep, PathStep DEF LockStays, NoStop, UnlinkSocket, PathsInv
  <1>3. ASSUME PathsInv, NoStop, [Next]_vars, NEW d \in Daemons, gaveUp'[d], ~gaveUp[d]
        PROVE  \E e \in Daemons \ {d} : Running(e)
    <2>1. TypeOK /\ BindInv
      BY <1>3 DEF PathsInv, OwnInv, BindInv
    <2>2. \E e \in Daemons : LiveStep(e)
      BY <1>3, <2>1, StepKinds DEF NoStop, UnlinkSocket, Wipe, vars
    <2>3. LiveStep(d)
      BY <1>3, <2>1, <2>2, OthersStay
    <2> QED
      BY <1>3, <2>3, GiveUpStep
  <1>4. PathsInv /\ NoStop /\ [Next]_vars =>
          [\A d \in Daemons : gaveUp'[d] /\ ~gaveUp[d] => \E e \in Daemons \ {d} : Running(e)]_vars
    BY <1>3
  <1> QED
    BY <1>1, <1>2, <1>4, SerialInvariance, PTL DEF Spec, GivesUpToAnother

-----------------------------------------------------------------------------
(* Stopping *)

\* Only a daemon that is told to stop comes to remove the socket.
LEMMA OnlyStopStops ==
  ASSUME TypeOK, [Next]_vars, NEW x \in Daemons, pc[x] # "unlink_sock", pc'[x] = "unlink_sock"
  PROVE  Stop(x)
  <1> USE DEF TypeOK, Goto
  <1>1. ASSUME NEW e \in Daemons, LiveStep(e), e # x PROVE FALSE
    BY <1>1, OthersStay
  <1>2. CASE BindStep(x) \/ ServeStep(x) \/ Start(x) \/ Crash(x)
    BY <1>2 DEF BindStep, ServeStep, OpenLock, AcquireLock, LockTimeout, BindSocket, Bind,
       AddrInUse, Listen, Probe, RemoveStale, SetPermissions, Identify, Register, CheckSocket,
       EnsureRegistration, Start, Crash, GiveUp, Exits
  <1>3. ASSUME NEW e \in Daemons, StopStep(e) PROVE FALSE
    BY <1>3 DEF StopStep, UnlinkSocket, OpenLockToRemove, TryLock, UnlinkLock, UnlinkPid, Exits
  <1>4. ASSUME NEW f \in Files, Wipe(f) PROVE FALSE
    BY <1>4 DEF Wipe
  <1> QED
    BY <1>1, <1>2, <1>3, <1>4 DEF Next, DaemonStep, LiveStep, vars

\* Stops are counted.
LEMMA StopsCounted ==
  ASSUME [Next]_vars
  PROVE  stops' = stops \/ \E d \in Daemons : Stop(d)
  <1> USE DEF limitVars
  <1>1. ASSUME NEW d \in Daemons, BindStep(d) PROVE stops' = stops
    BY <1>1 DEF BindStep, OpenLock, AcquireLock, LockTimeout, BindSocket, Bind,
       AddrInUse, Listen, Probe, RemoveStale, SetPermissions, GiveUp
  <1>2. ASSUME NEW d \in Daemons, ServeStep(d) PROVE stops' = stops
    BY <1>2 DEF ServeStep, Identify, Register, CheckSocket, EnsureRegistration, GiveUp
  <1>3. ASSUME NEW d \in Daemons, StopStep(d) PROVE stops' = stops
    BY <1>3 DEF StopStep, UnlinkSocket, OpenLockToRemove, TryLock, UnlinkLock, UnlinkPid
  <1>4. ASSUME NEW d \in Daemons, Start(d) \/ Crash(d) PROVE stops' = stops
    BY <1>4 DEF Start, Crash
  <1>5. ASSUME NEW f \in Files, Wipe(f) PROVE stops' = stops
    BY <1>5 DEF Wipe
  <1> QED
    BY <1>1, <1>2, <1>3, <1>4, <1>5 DEF Next, DaemonStep, vars

\* A second stop would need a bound of two.
LEMMA OneStopStep ==
  ASSUME MaxStops <= 1, TypeOK, OneStop, [Next]_vars
  PROVE  OneStop'
  <1>1. CASE \E d \in Daemons : Stop(d)
    <2>1. PICK d \in Daemons : Stop(d)
      BY <1>1
    <2>2. stops = 0 /\ stops' = 1 /\ pc' = [pc EXCEPT ![d] = "unlink_sock"]
      BY <2>1 DEF Stop, Goto, TypeOK
    <2> QED
      BY <2>2 DEF OneStop, TypeOK
  <1>2. CASE \A d \in Daemons : ~Stop(d)
    <2>1. \A x \in Daemons : pc'[x] = "unlink_sock" => pc[x] = "unlink_sock"
      BY <1>2, OnlyStopStops
    <2>2. stops' = stops
      BY <1>2, StopsCounted
    <2> QED
      BY <2>1, <2>2 DEF OneStop
  <1> QED
    BY <1>1, <1>2

\* After the socket was removed nobody comes to remove it again.
LEMMA CalmEnds ==
  ASSUME MaxStops <= 1, TypeOK, OneStop, [Next]_vars, Calm'
  PROVE  Calm /\ \A z \in Daemons : ~UnlinkSocket(z)
  <1>1. Calm
    <2> SUFFICES ASSUME ~Calm PROVE FALSE
      OBVIOUS
    <2>1. stops # 0 /\ stops \in Nat /\ \A x \in Daemons : pc[x] # "unlink_sock"
      BY DEF Calm, TypeOK
    <2>2. \A d \in Daemons : ~Stop(d)
      BY <2>1 DEF Stop
    <2>3. stops' = stops /\ \A x \in Daemons : pc'[x] # "unlink_sock"
      BY <2>1, <2>2, StopsCounted, OnlyStopStops
    <2> QED
      BY <2>1, <2>3 DEF Calm
  <1>2. ASSUME NEW z \in Daemons, UnlinkSocket(z) PROVE FALSE
    <2>1. pc[z] = "unlink_sock" /\ pc' = [pc EXCEPT ![z] = "open_lock"] /\ stops' = stops
      BY <1>2 DEF UnlinkSocket, Goto, limitVars
    <2>2. \A x \in Daemons : pc'[x] # "unlink_sock"
      BY <2>1 DEF OneStop, TypeOK
    <2> QED
      BY <2>1, <2>2 DEF OneStop, Calm
  <1> QED
    BY <1>1, <1>2

\* Sockets are bound once: a new one has a new inode.
LEMMA BoundApart ==
  ASSUME KeptInv, NEW d \in Daemons, LiveStep(d), NEW x \in Daemons, NEW y \in Daemons,
         bound'[x] \cap bound'[y] # {}
  PROVE  x = y
  <1>0. TypeOK /\ bound[x] \subseteq 1..nsock /\ bound[y] \subseteq 1..nsock /\ nsock \in Nat
    BY DEF KeptInv, OwnInv, BindInv, TypeOK
  <1>1. bound[x] \cap bound[y] # {} => x = y
    BY DEF KeptInv, ServeInv
  <1>2. \A z \in Daemons : bound'[z] \subseteq bound[z] \/ (z = d /\ bound'[z] = bound[z] \cup {nsock + 1})
    <2>1. ASSUME NEW z \in Daemons, z # d PROVE bound'[z] = bound[z]
      BY <1>0, <2>1, OthersStay
    <2>2. bound'[d] \subseteq bound[d] \/ bound'[d] = bound[d] \cup {nsock + 1}
      <3> USE <1>0 DEF TypeOK, sockVars
      <3>1. CASE GiveUp(d) \/ Crash(d)
        BY <3>1 DEF GiveUp, Crash, Exits
      <3>2. CASE BindStep(d) /\ ~GiveUp(d)
        BY <3>2 DEF BindStep, OpenLock, AcquireLock, LockTimeout, BindSocket, Bind, AddrInUse,
                    Listen, Probe, RemoveStale, SetPermissions
      <3>3. CASE ServeStep(d) /\ ~GiveUp(d)
        BY <3>3 DEF ServeStep, Identify, Register, CheckSocket, EnsureRegistration
      <3>4. CASE Start(d) \/ Stop(d)
        BY <3>4 DEF Start, Stop
      <3> QED
        BY <3>1, <3>2, <3>3, <3>4 DEF LiveStep
    <2> QED
      BY <2>1, <2>2
  <1>3. nsock + 1 \notin bound[x] /\ nsock + 1 \notin bound[y]
    BY <1>0
  <1> QED
    BY <1>1, <1>2, <1>3

\* Nobody takes the path from a daemon that serves.
LEMMA ServeStays ==
  ASSUME KeptInv, NEW d \in Daemons, LiveStep(d), NEW x \in Daemons,
         pc'[x] \in {"register", "serve", "ensure", "unlink_sock"}
  PROVE  sock' \in listening'[x]
  <1> DEFINE Up == {"register", "serve", "ensure", "unlink_sock"}
  <1>0. TypeOK /\ BindInv /\ FreshInv(d) /\ (pc[x] \in Up => sock \in listening[x])
    BY DEF KeptInv, OwnInv, BindInv, ServeInv
  <1>1. CASE x # d
    <2>1. pc[x] \in Up /\ sock \in listening[x] /\ listening'[x] = listening[x]
      BY <1>0, <1>1, OthersStay
    <2>2. sock # NoFile
      BY <1>0, <2>1 DEF TypeOK
    <2>3. ~BindSocket(d) /\ pc[d] # "remove"
      BY <1>0, <2>1, <2>2 DEF BindSocket, Bind, BindInv, RemoveInv
    <2> QED
      BY <1>0, <2>1, <2>3, PathChange
  <1>2. CASE x = d
    <2> USE DEF TypeOK, Goto, fileVars, sockVars
    <2>1. CASE Identify(d) /\ ~GiveUp(d)
      <3> DEFINE newest == {s \in bound[d] : \A t \in bound[d] : t <= s}
      <3>1. pc[d] = "stat" /\ listening' = [listening EXCEPT ![d] = newest] /\ sock' = sock
        BY <2>1 DEF Identify
      <3>2. sock \in newest
        BY <1>0, <3>1 DEF FreshInv
      <3> HIDE DEF newest
      <3> QED
        BY <1>0, <1>2, <3>1, <3>2
    <2>2. CASE GiveUp(d) \/ Crash(d)
      BY <1>0, <1>2, <2>2 DEF GiveUp, Crash, Exits
    <2>3. CASE Start(d) \/ (BindStep(d) /\ ~GiveUp(d))
      BY <1>0, <1>2, <2>3 DEF Start, BindStep, OpenLock, AcquireLock, LockTimeout, BindSocket,
                  Bind, AddrInUse, Listen, Probe, RemoveStale, SetPermissions
    <2>4. CASE Register(d) \/ CheckSocket(d) \/ EnsureRegistration(d) \/ Stop(d)
      <3>1. pc[d] \in Up /\ sock' = sock /\ listening' = listening
        BY <2>4 DEF Register, CheckSocket, EnsureRegistration, Stop
      <3> QED
        BY <1>0, <1>2, <3>1
    <2> QED
      BY <2>1, <2>2, <2>3, <2>4 DEF LiveStep, ServeStep
  <1> QED
    BY <1>1, <1>2

\* Without cleanup, KeptInv ends only with a shutdown that removes the socket.
LEMMA KeptStep ==
  ASSUME Wipeable = {}, KeptInv, [Next]_vars, \A z \in Daemons : ~UnlinkSocket(z)
  PROVE  KeptInv'
  <1>0. OwnInv /\ BindInv
    BY DEF KeptInv, OwnInv
  <1>1. OwnInv'
    BY <1>0, OwnStep
  <1>2. ASSUME NEW d \in Daemons, LiveStep(d) PROVE \A x \in Daemons : ServeInv(x)'
    BY <1>2, BoundApart, ServeStays DEF ServeInv
  <1>3. ASSUME UNCHANGED vars PROVE \A x \in Daemons : ServeInv(x)'
    BY <1>3 DEF vars, fileVars, sockVars, KeptInv, ServeInv
  <1>4. \A f \in Files : ~Wipe(f)
    BY DEF Wipe
  <1> QED
    BY <1>0, <1>1, <1>2, <1>3, <1>4, StepKinds DEF KeptInv

\* Without external cleanup, the first daemon that is told to stop removes only
\* its own socket, although shutdown does not compare the path with
\* socket_identity.  (Its shutdown also unlinks the bindlock; a second one may
\* then meet the socket of somebody else.)
THEOREM FirstStopSpares ==
  ASSUME Wipeable = {}, MaxStops <= 1
  PROVE  Spec => StopKeepsOthersSocket
  <1>1. Init => StopInv
    BY OwnInit DEF Init, StopInv, OneStop, KeptInv, OwnInv, BindInv, ServeInv
  <1>2. StopInv /\ [Next]_vars => StopInv'
    BY TypeStep, OneStopStep, CalmEnds, KeptStep DEF StopInv
  <1>3. ASSUME StopInv, NEW d \in Daemons, pc[d] = "unlink_sock"
        PROVE  \A e \in Daemons \ {d} : sock \notin listening[e]
    <2>1. KeptInv
      BY <1>3 DEF Calm, StopInv
    <2>2. sock \in listening[d] /\ \A e \in Daemons : listening[e] \subseteq bound[e]
      BY <1>3, <2>1 DEF KeptInv, ServeInv, OwnInv, BindInv, ListenInv
    <2> QED
      BY <2>1, <2>2 DEF KeptInv, ServeInv
  <1>4. StopInv /\ [Next]_vars =>
          [\A d \in Daemons : pc[d] = "unlink_sock" /\ pc'[d] = "open_lock"
              => \A e \in Daemons \ {d} : sock \notin listening[e]]_vars
    BY <1>3
  <1> QED
    BY <1>1, <1>2, <1>4, PTL DEF Spec, StopKeepsOthersSocket

-----------------------------------------------------------------------------
(* gritty refresh: the types, the grace period, the theorems. *)

\* It holds at the start: no wait has begun.
LEMMA OrphansInit ==
  ASSUME O!LatenessAssumption, O!Init
  PROVE  O!IInv
  <1>1. PICK d \in Daemons, b \in {"old", "new"} :
            /\ binary = [e \in Daemons |-> IF e = d THEN b ELSE "new"]
            /\ state = [e \in Daemons |-> IF e = d THEN "serving" ELSE "off"]
            /\ at_sock = d /\ at_pid = d /\ info = b
    BY DEF O!Init
  <1>2. binary \in [Daemons -> {"old", "new"}] /\ info \in {"old", "new", None}
    BY <1>1
  <1>3. state \in [Daemons -> {"off", "serving", "stopping", "draining", "gone"}]
    BY <1>1
  <1>4. due \in [Daemons -> -Lateness..CheckInterval]
    BY DEF O!Init, O!LatenessAssumption
  <1>5. wait \in 0..O!CONFIRM_DELAY /\ cleanups \in 0..MaxWipes /\ refreshes \in 0..MaxRefreshes
    BY DEF O!Init, O!LatenessAssumption, O!CONFIRM_DELAY
  <1> QED
    BY <1>1, <1>2, <1>3, <1>4, <1>5 DEF O!Init, O!IInv, O!TypeOK, O!GraceInv

\* The daemon that is started registers itself, with its own binary.
LEMMA OrphansStartsType ==
  ASSUME O!LatenessAssumption, O!TypeOK, NEW d \in Daemons, O!Starts(d)
  PROVE  /\ state' \in [Daemons -> {"off", "serving", "stopping", "draining", "gone"}]
         /\ due' \in [Daemons -> -Lateness..CheckInterval]
         /\ at_sock' \in Daemons \cup {None} /\ at_pid' \in Daemons \cup {None}
         /\ info' \in {"old", "new", None}
  <1>1. CheckInterval \in -Lateness..CheckInterval
    BY DEF O!LatenessAssumption
  <1> QED
    BY <1>1 DEF O!Starts, O!write_registration, O!TypeOK

\* The daemons' own steps keep the types.
LEMMA OrphansDaemonType ==
  ASSUME O!LatenessAssumption, O!TypeOK, NEW d \in Daemons, O!DaemonStep(d)
  PROVE  /\ binary' \in [Daemons -> {"old", "new"}]
         /\ state' \in [Daemons -> {"off", "serving", "stopping", "draining", "gone"}]
         /\ due' \in [Daemons -> -Lateness..CheckInterval]
         /\ at_sock' \in Daemons \cup {None} /\ at_pid' \in Daemons \cup {None}
         /\ info' \in {"old", "new", None}
         /\ refresh' \in {refresh, "start"}
         /\ UNCHANGED <<yes, suspects, wait, cleanups, refreshes>>
  <1>1. CheckInterval \in -Lateness..CheckInterval
    BY DEF O!LatenessAssumption
  <1>2. CASE O!ClientStarts(d)
    BY <1>2, OrphansStartsType DEF O!ClientStarts, O!TypeOK, O!scan
  <1>3. CASE O!Intact(d)
    BY <1>3, <1>1 DEF O!Intact, O!write_registration, O!TypeOK, O!scan
  <1>4. CASE O!Recovered(d)
    BY <1>4, <1>1 DEF O!Recovered, O!write_registration, O!TypeOK, O!scan
  <1>5. CASE O!Lost(d)
    BY <1>5 DEF O!Lost, O!TypeOK, O!scan, O!files
  <1>6. CASE O!Removes(d)
    BY <1>6 DEF O!Removes, O!TypeOK
  <1> QED
    BY <1>2, <1>3, <1>4, <1>5, <1>6 DEF O!DaemonStep

\* So do those of gritty refresh.
LEMMA OrphansRefreshType ==
  ASSUME O!LatenessAssumption, O!TypeOK, O!RefreshStep
  PROVE  /\ binary' \in [Daemons -> {"old", "new"}]
         /\ state' \in [Daemons -> {"off", "serving", "stopping", "draining", "gone"}]
         /\ due' \in [Daemons -> -Lateness..CheckInterval]
         /\ at_sock' \in Daemons \cup {None} /\ at_pid' \in Daemons \cup {None}
         /\ info' \in {"old", "new", None}
         /\ refresh' \in {"idle", "count", "kill", "killing", "start", "scan", "confirm"}
         /\ yes' \in BOOLEAN /\ suspects' \subseteq Daemons
         /\ wait' \in 0..O!CONFIRM_DELAY
         /\ cleanups' \in 0..MaxWipes /\ refreshes' \in 0..MaxRefreshes
  <1>1. CASE O!Assess
    BY <1>1 DEF O!Assess, O!TypeOK, O!files, O!LatenessAssumption
  <1>2. CASE O!CountSessions
    BY <1>2 DEF O!CountSessions, O!TypeOK, O!files
  <1>3. CASE O!KillServer
    BY <1>3 DEF O!KillServer, O!TypeOK, O!files
  <1>4. CASE O!Sigterm
    BY <1>4 DEF O!Sigterm, O!TypeOK, O!files
  <1>5. CASE O!AutoStartFails
    BY <1>5 DEF O!AutoStartFails, O!TypeOK, O!files
  <1>6. CASE O!Scan
    <2>1. suspects' \subseteq Daemons
      BY <1>6 DEF O!Scan, O!find_orphan_daemons
    <2>2. wait' \in 0..O!CONFIRM_DELAY
      BY <1>6 DEF O!Scan, O!CONFIRM_DELAY, O!LatenessAssumption
    <2> QED
      BY <1>6, <2>1, <2>2 DEF O!Scan, O!TypeOK, O!files
  <1>7. CASE O!ConfirmAndReap
    BY <1>7 DEF O!ConfirmAndReap, O!TypeOK, O!files
  <1>8. CASE \E d \in Daemons : O!AutoStart(d)
    BY <1>8, OrphansStartsType DEF O!AutoStart, O!TypeOK
  <1> QED
    BY <1>1, <1>2, <1>3, <1>4, <1>5, <1>6, <1>7, <1>8 DEF O!RefreshStep

\* Every step keeps the types.
LEMMA OrphansTypes ==
  ASSUME O!LatenessAssumption, O!TypeOK, O!Next
  PROVE  O!TypeOK'
  <1>1. at_pid' \in Daemons \cup {None} => seen' \subseteq Daemons \cup {None}
    BY DEF O!Next, O!TypeOK
  <1>2. CASE O!Tick
    <2>1. \A d \in Daemons : due'[d] \in -Lateness..CheckInterval
      BY <1>2 DEF O!Tick, O!TypeOK, O!LatenessAssumption
    <2>2. due' \in [Daemons -> -Lateness..CheckInterval]
      BY <1>2, <2>1 DEF O!Tick
    <2>3. wait' \in 0..O!CONFIRM_DELAY
      BY <1>2 DEF O!Tick, O!TypeOK, O!CONFIRM_DELAY, O!LatenessAssumption
    <2> QED
      BY <1>1, <1>2, <2>2, <2>3 DEF O!Tick, O!TypeOK, O!files
  <1>3. CASE O!RefreshStep
    BY <1>1, <1>3, OrphansRefreshType DEF O!TypeOK
  <1>4. ASSUME NEW d \in Daemons, O!DaemonStep(d) PROVE O!TypeOK'
    BY <1>1, <1>4, OrphansDaemonType DEF O!TypeOK, O!CONFIRM_DELAY
  <1>5. ASSUME NEW gone \in SUBSET {"sock", "pid", "info"}, O!Wipe(gone) PROVE O!TypeOK'
    <2>1. cleanups' \in 0..MaxWipes
      BY <1>5 DEF O!Wipe, O!TypeOK, O!LatenessAssumption
    <2> QED
      BY <1>1, <1>5, <2>1 DEF O!Wipe, O!TypeOK, O!scan
  <1> QED
    BY <1>2, <1>3, <1>4, <1>5 DEF O!Next

\* Whoever is registered during the wait is known to have been.
LEMMA SeenGrows ==
  ASSUME O!Next, refresh = "confirm"
  PROVE  seen \subseteq seen' /\ at_pid' \in seen'
  BY DEF O!Next

\* A daemon that starts, or comes to its self-check, registers itself or ends;
\* what a daemon does leaves the others, and their clocks, alone.
LEMMA DaemonGrace ==
  ASSUME O!LatenessAssumption, O!TypeOK, NEW d \in Daemons, O!DaemonStep(d),
         NEW e \in Daemons, O!SelfHeals(e)'
  PROVE  at_pid' = e \/ (O!SelfHeals(e) /\ due'[e] = due[e])
  <1>1. CASE O!ClientStarts(d)
    BY <1>1 DEF O!ClientStarts, O!Starts, O!write_registration, O!SelfHeals, O!TypeOK
  <1>2. CASE O!Intact(d)
    BY <1>2 DEF O!Intact, O!write_registration, O!SelfHeals, O!TypeOK
  <1>3. CASE O!Recovered(d)
    BY <1>3 DEF O!Recovered, O!write_registration, O!SelfHeals, O!TypeOK
  <1>4. CASE O!Lost(d)
    BY <1>4 DEF O!Lost, O!SelfHeals, O!TypeOK
  <1>5. CASE O!Removes(d)
    BY <1>5 DEF O!Removes, O!SelfHeals, O!TypeOK
  <1> QED
    BY <1>1, <1>2, <1>3, <1>4, <1>5 DEF O!DaemonStep

\* The scan leaves every suspect its interval and two seconds, and a second that
\* passes is taken from both; the wait never outlives a self-check that is due.
LEMMA GraceInvariant ==
  ASSUME O!LatenessAssumption, O!IInv, O!Next
  PROVE  O!GraceInv'
  <1> USE DEF O!IInv
  <1> SUFFICES ASSUME refresh' = "confirm", NEW e \in suspects', O!SelfHeals(e)', e \notin seen'
               PROVE  due'[e] + 2 <= wait'
    BY DEF O!GraceInv
  <1>1. CASE O!Tick
    <2>1. refresh = "confirm" /\ e \in suspects /\ e \in Daemons /\ O!SelfHeals(e)
      BY <1>1 DEF O!Tick, O!TypeOK, O!SelfHeals
    <2>2. e \notin seen
      BY <2>1, SeenGrows
    <2>3. due[e] + 2 <= wait
      BY <2>1, <2>2 DEF O!GraceInv
    <2>4. due[e] \in Int /\ due[e] >= -1 /\ wait \in Nat
      BY <2>1 DEF O!TypeOK, O!LatenessAssumption, O!CONFIRM_DELAY
    <2>5. due'[e] = due[e] - 1
      BY <1>1, <2>1 DEF O!Tick, O!SelfHeals
    <2>6. wait' = wait - 1
      BY <1>1, <2>3, <2>4 DEF O!Tick
    <2> QED
      BY <2>3, <2>4, <2>5, <2>6
  <1>2. CASE O!RefreshStep
    <2>1. O!Scan
      BY <1>2 DEF O!RefreshStep, O!Assess, O!CountSessions, O!KillServer, O!Sigterm,
           O!AutoStartFails,
                  O!ConfirmAndReap, O!AutoStart
    <2>2. wait' = CheckInterval + 2 /\ due' = due /\ e \in Daemons
      BY <2>1 DEF O!Scan, O!CONFIRM_DELAY, O!find_orphan_daemons
    <2>3. due[e] \in Int /\ due[e] <= CheckInterval
      BY <2>2 DEF O!TypeOK, O!LatenessAssumption
    <2> QED
      BY <2>2, <2>3 DEF O!LatenessAssumption
  <1>3. ASSUME NEW d \in Daemons, O!DaemonStep(d) PROVE due'[e] + 2 <= wait'
    <2>1. refresh = "confirm" /\ suspects' = suspects /\ wait' = wait /\ e \in Daemons
      BY <1>3, OrphansDaemonType DEF O!TypeOK
    <2>2. e \notin seen /\ at_pid' # e
      BY <2>1, SeenGrows
    <2>3. O!SelfHeals(e) /\ due'[e] = due[e]
      BY <1>3, <2>1, <2>2, DaemonGrace
    <2> QED
      BY <2>1, <2>2, <2>3 DEF O!GraceInv
  <1>4. ASSUME NEW gone \in SUBSET {"sock", "pid", "info"}, O!Wipe(gone)
        PROVE  due'[e] + 2 <= wait'
    <2>1. refresh = "confirm" /\ e \in suspects /\ O!SelfHeals(e) /\ due' = due /\ wait' = wait
      BY <1>4 DEF O!Wipe, O!scan, O!SelfHeals
    <2>2. e \notin seen
      BY <2>1, SeenGrows
    <2> QED
      BY <2>1, <2>2 DEF O!GraceInv
  <1> QED
    BY <1>1, <1>2, <1>3, <1>4 DEF O!Next

\* The inductive invariant, under the assumption on how late a self-check is.
THEOREM OrphansInvariant == ASSUME O!LatenessAssumption PROVE O!Spec => []O!IInv
  <1>1. O!Init => O!IInv
    BY OrphansInit
  <1>2. O!IInv /\ [O!Next]_(O!vars) => O!IInv'
    <2> SUFFICES ASSUME O!IInv, [O!Next]_(O!vars) PROVE O!IInv'
      OBVIOUS
    <2>1. CASE O!Next
      BY <2>1, OrphansTypes, GraceInvariant DEF O!IInv
    <2>2. CASE UNCHANGED O!vars
      BY <2>2 DEF O!vars, O!files, O!scan, O!IInv, O!TypeOK, O!GraceInv, O!SelfHeals,
                  O!CONFIRM_DELAY
    <2> QED
      BY <2>1, <2>2
  <1> QED
    BY <1>1, <1>2, PTL DEF O!Spec

\* The variables keep their types: no self-check is later than Lateness and no
\* wait longer than CONFIRM_DELAY.
THEOREM OrphansTyped == ASSUME O!LatenessAssumption PROVE O!Spec => []O!TypeOK
  <1>1. O!IInv => O!TypeOK
    BY DEF O!IInv
  <1> QED
    BY <1>1, OrphansInvariant, PTL

\* refresh reaps no daemon that heals itself and was not registered since the
\* scan, however many daemons there are and whatever cleanup does.
THEOREM HealingSpared == ASSUME O!LatenessAssumption PROVE O!Spec => O!SparesHealing
  <1>1. ASSUME O!IInv, [O!Next]_(O!vars), NEW d \in Daemons,
               refresh = "confirm", refresh' # "confirm",
               state[d] = "serving", binary[d] = "new", state'[d] = "gone"
        PROVE  d \in seen
    <2>1. O!ConfirmAndReap
      <3>1. O!Next
        BY <1>1 DEF O!vars, O!scan
      <3>2. ~O!Tick /\ \A gone : ~O!Wipe(gone)
        BY <1>1 DEF O!Tick, O!Wipe, O!scan
      <3>3. ASSUME NEW e \in Daemons, O!DaemonStep(e) PROVE FALSE
        BY <1>1, <3>3 DEF O!DaemonStep, O!ClientStarts, O!Intact, O!Recovered, O!Lost,
                          O!Removes, O!scan, O!IInv, O!TypeOK
      <3>4. O!RefreshStep
        BY <3>1, <3>2, <3>3 DEF O!Next
      <3> QED
        BY <1>1, <3>4 DEF O!RefreshStep, O!Assess, O!CountSessions, O!KillServer, O!Sigterm,
                          O!AutoStartFails, O!Scan, O!AutoStart
    <2>2. d \in suspects /\ wait = 0
      BY <1>1, <2>1 DEF O!ConfirmAndReap
    <2>3. d \in seen \/ due[d] + 2 <= 0
      BY <1>1, <2>2 DEF O!IInv, O!GraceInv, O!SelfHeals
    <2>4. due[d] \in Int /\ due[d] >= -1
      BY <1>1 DEF O!IInv, O!TypeOK, O!LatenessAssumption
    <2> QED
      BY <2>3, <2>4
  <1>2. O!IInv /\ [O!Next]_(O!vars) =>
          [\A d \in Daemons :
             /\ refresh = "confirm" /\ refresh' # "confirm"
             /\ state[d] = "serving" /\ binary[d] = "new"
             /\ state'[d] = "gone"
             => d \in seen]_(O!vars)
    BY <1>1
  <1> QED
    BY <1>2, OrphansInvariant, PTL DEF O!SparesHealing, O!Spec
=============================================================================
