--------------------------- MODULE ControlSocket ---------------------------
(***************************************************************************)
(* The daemons of one user and the files they share: the control socket    *)
(* ctl.sock, its companion ctl.sock.bindlock and the registration          *)
(* daemon.pid.  A daemon starts (a client auto-starts one when it finds no *)
(* socket), binds the socket under the flock of the bindlock, checks every *)
(* few seconds that the socket on disk is still its own, re-binds or gives *)
(* up when it is not, and removes the files when it is told to stop.       *)
(* External cleanup deletes any of the files at any time.                  *)
(*                                                                         *)
(* A file is the inode its path names, 0 when there is none: an unlinked   *)
(* inode lives on in the processes that have it open, and the path can     *)
(* name another one.  Inodes are numbered in the order they are created.   *)
(***************************************************************************)
EXTENDS Integers

CONSTANTS
    Daemons,      \* daemon processes; each is started at most once
    Wipeable,     \* the files external cleanup may delete
    WipeInBind,   \* whether it may hit while a daemon is Binding
    MaxWipes,     \* bound: files deleted by external cleanup
    MaxCrashes,   \* bound: daemons killed or crashed
    MaxStops      \* bound: daemons told to stop (SIGTERM, KillServer)

Files == {"sock", "lock", "pid"}

ASSUME WipeAssumption == Wipeable \subseteq Files /\ WipeInBind \in BOOLEAN
ASSUME LimitsAssumption == MaxWipes \in Nat /\ MaxCrashes \in Nat /\ MaxStops \in Nat

NoFile == 0
NoDaemon == "none"

ASSUME NoDaemonAssumption == NoDaemon \notin Daemons

VARIABLES
    (* the socket directory *)
    sock,       \* the inode at ctl.sock
    lock,       \* the inode at ctl.sock.bindlock
    pid,        \* the daemon that daemon.pid names
    nsock, nlock,   \* inodes created so far
    (* one daemon process *)
    pc,         \* what it does next
    recovering, \* it binds because its self-check failed
    bound,      \* socket inodes it has bound
    listening,  \* those of them it listens on
    ident,      \* socket_identity
    lockFd,     \* the bindlock inode it has open
    locked,     \* it holds the flock of lockFd
    gaveUp,     \* it exited because it could not get the socket
    wipes, crashes, stops

fileVars  == <<sock, lock, pid>>
inodeVars == <<nsock, nlock>>
sockVars  == <<bound, listening, ident>>
lockVars  == <<lockFd, locked>>
limitVars == <<wipes, crashes, stops>>
vars == <<fileVars, inodeVars, pc, recovering, sockVars, lockVars, gaveUp, limitVars>>

Init ==
    /\ sock = NoFile /\ lock = NoFile /\ pid = NoDaemon
    /\ nsock = 0 /\ nlock = 0
    /\ pc = [d \in Daemons |-> "off"]
    /\ recovering = [d \in Daemons |-> FALSE]
    /\ bound = [d \in Daemons |-> {}]
    /\ listening = [d \in Daemons |-> {}]
    /\ ident = [d \in Daemons |-> NoFile]
    /\ lockFd = [d \in Daemons |-> NoFile]
    /\ locked = [d \in Daemons |-> FALSE]
    /\ gaveUp = [d \in Daemons |-> FALSE]
    /\ wipes = 0 /\ crashes = 0 /\ stops = 0

Goto(d, label) == pc' = [pc EXCEPT ![d] = label]

Running(d) == pc[d] \notin {"off", "gone"}

\* A connect to socket inode s succeeds.
Alive(s) == \E d \in Daemons : s \in listening[d]

-----------------------------------------------------------------------------
(* Processes *)

Start(d) ==
    /\ pc[d] = "off"
    /\ Goto(d, "open")
    /\ UNCHANGED <<fileVars, inodeVars, recovering, sockVars, lockVars, gaveUp, limitVars>>

\* The process ends: its descriptors are closed, its flock is released.
Exits(d) ==
    /\ Goto(d, "gone")
    /\ bound' = [bound EXCEPT ![d] = {}]
    /\ listening' = [listening EXCEPT ![d] = {}]
    /\ lockFd' = [lockFd EXCEPT ![d] = NoFile]
    /\ locked' = [locked EXCEPT ![d] = FALSE]
    /\ UNCHANGED <<inodeVars, recovering, ident>>

Crash(d) ==
    /\ Running(d)
    /\ crashes < MaxCrashes
    /\ crashes' = crashes + 1
    /\ Exits(d)
    /\ UNCHANGED <<fileVars, gaveUp, wipes, stops>>

\* bind_unix_listener failed.  A starting daemon reports it and exits; one that
\* recovers is SocketCheck::Lost: it drains its sessions and exits, and leaves
\* the files to whoever owns them now.
GiveUp(d) ==
    /\ Exits(d)
    /\ gaveUp' = [gaveUp EXCEPT ![d] = TRUE]
    /\ UNCHANGED <<fileVars, limitVars>>

\* Between the flock and the stat that follows the bind: a few system calls.
Binding(d) ==
    pc[d] \in {"bind", "probe", "remove", "rebind", "listen", "chmod", "stat"}

\* External cleanup: an age-based sweep, a wiped runtime directory.
Wipe(f) ==
    /\ f \in Wipeable
    /\ wipes < MaxWipes
    /\ WipeInBind \/ \A d \in Daemons : ~Binding(d)
    /\ wipes' = wipes + 1
    /\ sock' = IF f = "sock" THEN NoFile ELSE sock
    /\ lock' = IF f = "lock" THEN NoFile ELSE lock
    /\ pid' = IF f = "pid" THEN NoDaemon ELSE pid
    /\ UNCHANGED <<inodeVars, pc, recovering, sockVars, lockVars, gaveUp, crashes, stops>>

-----------------------------------------------------------------------------
(* security.rs: bind_unix_listener, acquire_bind_lock *)

\* Open the bindlock, creating it if it is not there.
OpenLock(d) ==
    /\ pc[d] = "open"
    /\ IF lock = NoFile
       THEN nlock' = nlock + 1 /\ lock' = nlock + 1
       ELSE UNCHANGED <<nlock, lock>>
    /\ lockFd' = [lockFd EXCEPT ![d] = lock']
    /\ Goto(d, "flock")
    /\ UNCHANGED <<sock, pid, nsock, recovering, sockVars, locked, gaveUp, limitVars>>

Held(i) == \E e \in Daemons : locked[e] /\ lockFd[e] = i

AcquireLockUnchecked(d) ==
    /\ pc[d] = "flock"
    /\ locked' = [locked EXCEPT ![d] = TRUE]
    /\ Goto(d, "bind")
    /\ UNCHANGED <<fileVars, inodeVars, recovering, sockVars, lockFd, gaveUp, limitVars>>

\* The flock is on the inode, whether or not the path still names it.
AcquireLock(d) ==
    /\ pc[d] = "flock"
    /\ ~Held(lockFd[d])
    /\ locked' = [locked EXCEPT ![d] = TRUE]
    /\ Goto(d, "bind")
    /\ UNCHANGED <<fileVars, inodeVars, recovering, sockVars, lockFd, gaveUp, limitVars>>

\* Two seconds of retries have passed.
LockTimeout(d) ==
    /\ pc[d] = "flock"
    /\ Held(lockFd[d])
    /\ GiveUp(d)

\* bind(2) creates the socket file, if nothing is at the path.
Bind(d) ==
    /\ sock = NoFile
    /\ nsock' = nsock + 1
    /\ sock' = nsock + 1
    /\ bound' = [bound EXCEPT ![d] = @ \cup {nsock + 1}]
    /\ Goto(d, "listen")
    /\ UNCHANGED <<lock, pid, nlock, recovering, listening, ident, lockVars, gaveUp, limitVars>>

BindSocket(d) == pc[d] \in {"bind", "rebind"} /\ Bind(d)

AddrInUseFatal(d) ==
    /\ sock # NoFile
    /\ pc[d] \in {"bind", "rebind"}
    /\ GiveUp(d)

\* AddrInUse.  The first time it leads to the probe, the second it is an error.
AddrInUse(d) ==
    /\ sock # NoFile
    /\ \/ /\ pc[d] = "bind"
          /\ Goto(d, "probe")
          /\ UNCHANGED <<fileVars, inodeVars, recovering, sockVars, lockVars, gaveUp, limitVars>>
       \/ pc[d] = "rebind" /\ GiveUp(d)

Listen(d) ==
    /\ pc[d] = "listen"
    /\ listening' = [listening EXCEPT ![d] = bound[d]]
    /\ Goto(d, "chmod")
    /\ UNCHANGED <<fileVars, inodeVars, recovering, bound, ident, lockVars, gaveUp, limitVars>>

ProbeTrusting(d) ==
    /\ pc[d] = "probe"
    /\ Goto(d, "remove")
    /\ UNCHANGED <<fileVars, inodeVars, recovering, sockVars, lockVars, gaveUp, limitVars>>

\* Connect to what is at the path: a live socket is an error, anything else is
\* stale and will be removed.
Probe(d) ==
    /\ pc[d] = "probe"
    /\ IF Alive(sock)
       THEN GiveUp(d)
       ELSE /\ Goto(d, "remove")
            /\ UNCHANGED <<fileVars, inodeVars, recovering, sockVars, lockVars, gaveUp, limitVars>>

\* Remove what is at the path by now.
RemoveStale(d) ==
    /\ pc[d] = "remove"
    /\ IF sock = NoFile
       THEN GiveUp(d)
       ELSE /\ sock' = NoFile
            /\ Goto(d, "rebind")
            /\ UNCHANGED <<lock, pid, inodeVars, recovering, sockVars, lockVars, gaveUp, limitVars>>

\* set_socket_permissions needs the path; then the guard of the lock is dropped.
SetPermissions(d) ==
    /\ pc[d] = "chmod"
    /\ IF sock = NoFile
       THEN GiveUp(d)
       ELSE /\ lockFd' = [lockFd EXCEPT ![d] = NoFile]
            /\ locked' = [locked EXCEPT ![d] = FALSE]
            /\ Goto(d, "stat")
            /\ UNCHANGED <<fileVars, inodeVars, recovering, sockVars, gaveUp, limitVars>>

-----------------------------------------------------------------------------
(* daemon.rs: run_with_options *)

\* SocketIdentity::of the path, after the lock was released; a daemon that has
\* recovered drops its old listener.
Identify(d) ==
    /\ pc[d] = "stat"
    /\ IF sock = NoFile
       THEN GiveUp(d)
       ELSE LET newest == {s \in bound[d] : \A t \in bound[d] : t <= s}
            IN  /\ ident' = [ident EXCEPT ![d] = sock]
                /\ bound' = [bound EXCEPT ![d] = newest]
                /\ listening' = [listening EXCEPT ![d] = newest]
                /\ recovering' = [recovering EXCEPT ![d] = FALSE]
                /\ Goto(d, "register")
                /\ UNCHANGED <<fileVars, inodeVars, lockVars, gaveUp, limitVars>>

\* write_registration: daemon.pid names this process.
Register(d) ==
    /\ pc[d] = "register"
    /\ pid' = d
    /\ Goto(d, "serve")
    /\ UNCHANGED <<sock, lock, inodeVars, recovering, sockVars, lockVars, gaveUp, limitVars>>

CheckSocketMissing(d) ==
    /\ pc[d] = "serve"
    /\ IF sock # NoFile
       THEN Goto(d, "ensure") /\ UNCHANGED recovering
       ELSE Goto(d, "open") /\ recovering' = [recovering EXCEPT ![d] = TRUE]
    /\ UNCHANGED <<fileVars, inodeVars, sockVars, lockVars, gaveUp, limitVars>>

\* check_socket, on the tick of socket_check.
CheckSocket(d) ==
    /\ pc[d] = "serve"
    /\ IF sock = ident[d]
       THEN Goto(d, "ensure") /\ UNCHANGED recovering
       ELSE Goto(d, "open") /\ recovering' = [recovering EXCEPT ![d] = TRUE]
    /\ UNCHANGED <<fileVars, inodeVars, sockVars, lockVars, gaveUp, limitVars>>

EnsureRegistrationOfPath(d) ==
    /\ pc[d] = "ensure"
    /\ pid' = "sock"
    /\ Goto(d, "serve")
    /\ UNCHANGED <<sock, lock, inodeVars, recovering, sockVars, lockVars, gaveUp, limitVars>>

\* SocketCheck::Intact: rewrite daemon.pid if it does not name this process.
EnsureRegistration(d) ==
    /\ pc[d] = "ensure"
    /\ pid' = d
    /\ Goto(d, "serve")
    /\ UNCHANGED <<sock, lock, inodeVars, recovering, sockVars, lockVars, gaveUp, limitVars>>

-----------------------------------------------------------------------------
(* daemon.rs: shutdown *)

\* SIGTERM, SIGINT or KillServer; the sessions are drained first.
Stop(d) ==
    /\ pc[d] = "serve"
    /\ stops < MaxStops
    /\ stops' = stops + 1
    /\ Goto(d, "unlink_sock")
    /\ UNCHANGED <<fileVars, inodeVars, recovering, sockVars, lockVars, gaveUp, wipes, crashes>>

\* remove_file(ctl_path), whoever's socket is there.
UnlinkSocket(d) ==
    /\ pc[d] = "unlink_sock"
    /\ sock' = NoFile
    /\ Goto(d, "open_lock")
    /\ UNCHANGED <<lock, pid, inodeVars, recovering, sockVars, lockVars, gaveUp, limitVars>>

\* remove_bind_lock_if_unheld: open without creating, flock without waiting,
\* unlink the path, unlock.
OpenLockToRemove(d) ==
    /\ pc[d] = "open_lock"
    /\ IF lock = NoFile
       THEN Goto(d, "unlink_pid") /\ UNCHANGED lockFd
       ELSE Goto(d, "try_flock") /\ lockFd' = [lockFd EXCEPT ![d] = lock]
    /\ UNCHANGED <<fileVars, inodeVars, recovering, sockVars, locked, gaveUp, limitVars>>

TryLock(d) ==
    /\ pc[d] = "try_flock"
    /\ IF Held(lockFd[d])
       THEN /\ lockFd' = [lockFd EXCEPT ![d] = NoFile]
            /\ Goto(d, "unlink_pid")
            /\ UNCHANGED locked
       ELSE /\ locked' = [locked EXCEPT ![d] = TRUE]
            /\ Goto(d, "unlink_lock")
            /\ UNCHANGED lockFd
    /\ UNCHANGED <<fileVars, inodeVars, recovering, sockVars, gaveUp, limitVars>>

UnlinkLock(d) ==
    /\ pc[d] = "unlink_lock"
    /\ lock' = NoFile
    /\ lockFd' = [lockFd EXCEPT ![d] = NoFile]
    /\ locked' = [locked EXCEPT ![d] = FALSE]
    /\ Goto(d, "unlink_pid")
    /\ UNCHANGED <<sock, pid, inodeVars, recovering, sockVars, gaveUp, limitVars>>

\* Remove daemon.pid, whoever it names, and exit.
UnlinkPid(d) ==
    /\ pc[d] = "unlink_pid"
    /\ pid' = NoDaemon
    /\ Exits(d)
    /\ UNCHANGED <<sock, lock, gaveUp, limitVars>>

-----------------------------------------------------------------------------

BindStep(d) ==
    \/ OpenLock(d) \/ AcquireLock(d) \/ LockTimeout(d)
    \/ BindSocket(d) \/ AddrInUse(d) \/ Listen(d)
    \/ Probe(d) \/ RemoveStale(d) \/ SetPermissions(d)

ServeStep(d) ==
    Identify(d) \/ Register(d) \/ CheckSocket(d) \/ EnsureRegistration(d)

StopStep(d) ==
    UnlinkSocket(d) \/ OpenLockToRemove(d) \/ TryLock(d) \/ UnlinkLock(d) \/ UnlinkPid(d)

DaemonStep(d) == BindStep(d) \/ ServeStep(d) \/ StopStep(d)

Next ==
    \/ \E d \in Daemons : DaemonStep(d) \/ Start(d) \/ Stop(d) \/ Crash(d)
    \/ \E f \in Files : Wipe(f)

Spec == Init /\ [][Next]_vars

\* A running daemon keeps running: its event loop turns, the socket_check
\* interval ticks for ever, a retry of the flock comes back.
Fairness == \A d \in Daemons : WF_vars(DaemonStep(d))

FairSpec == Spec /\ Fairness

-----------------------------------------------------------------------------
(* Properties *)

Labels ==
    {"off", "open", "flock", "bind", "listen", "probe", "remove", "rebind", "chmod",
     "stat", "register", "serve", "ensure", "unlink_sock", "open_lock", "try_flock",
     "unlink_lock", "unlink_pid", "gone"}

TypeOK ==
    /\ sock \in 0..nsock /\ lock \in 0..nlock /\ pid \in Daemons \cup {NoDaemon}
    /\ nsock \in Nat /\ nlock \in Nat
    /\ pc \in [Daemons -> Labels]
    /\ recovering \in [Daemons -> BOOLEAN]
    /\ bound \in [Daemons -> SUBSET (1..nsock)]
    /\ listening \in [Daemons -> SUBSET (1..nsock)]
    /\ ident \in [Daemons -> 0..nsock]
    /\ lockFd \in [Daemons -> 0..nlock]
    /\ locked \in [Daemons -> BOOLEAN]
    /\ gaveUp \in [Daemons -> BOOLEAN]
    /\ wipes \in Nat /\ crashes \in Nat /\ stops \in Nat

\* bind, probe, remove and re-bind of bind_unix_listener.
InBindSection(d) == Binding(d) /\ pc[d] # "stat"

\* The doc comment of bind_unix_listener: the probe/remove/bind sequence is
\* serialized against concurrent callers.
BindSerialized ==
    \A d, e \in Daemons : InBindSection(d) /\ InBindSection(e) => d = e

\* Binding never removes the socket of a daemon that listens on it: what the
\* probe found dead is still what is at the path when it is removed.
BindKeepsLiveSocket ==
    [][\A d \in Daemons : pc[d] = "remove" /\ pc'[d] = "rebind" => ~Alive(sock)]_vars

\* The comments of drain_sessions and SocketCheck::Lost: a daemon that has lost
\* the path must not unlink the new owner's socket.
StopKeepsOthersSocket ==
    [][\A d \in Daemons : pc[d] = "unlink_sock" /\ pc'[d] = "open_lock"
          => \A e \in Daemons \ {d} : sock \notin listening[e]]_vars

\* The identity a daemon compares the path with is that of the socket it bound.
IdentityIsOwn ==
    \A d \in Daemons : pc[d] \in {"register", "serve", "ensure"} => ident[d] \in bound[d]

\* A daemon gives up the socket, and drains its sessions, only if another one
\* was running.
GivesUpToAnother ==
    [][\A d \in Daemons : gaveUp'[d] /\ ~gaveUp[d] => \E e \in Daemons \ {d} : Running(e)]_vars

\* Once the cleanup, the crashes and the stops are over, every daemon that has
\* not exited can be reached at the path and is the one daemon.pid names: none
\* lingers as an unreachable orphan, and there is at most one.
NoOrphans ==
    <>[](\A d \in Daemons : Running(d) => sock \in listening[d] /\ pid = d)
=============================================================================
