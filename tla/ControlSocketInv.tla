-------------------------- MODULE ControlSocketInv --------------------------
(***************************************************************************)
(* The inductive invariant behind the serialization of bind_unix_listener, *)
(* as long as nothing unlinks the bindlock under a binder.                 *)
(***************************************************************************)
EXTENDS ControlSocket

\* Nobody removes the bindlock: no external cleanup of it, no shutdown.  A
\* shutdown that has yet to remove its first file does no harm.
LockStays == "lock" \notin Wipeable /\ MaxStops = 0

\* A daemon holds the flock exactly while it is in the bind section, on the
\* inode that the path names for everybody.
LockInv(d) ==
    /\ pc[d] \notin {"open_lock", "try_flock", "unlink_lock", "unlink_pid"}
    /\ locked[d] <=> InBindSection(d)
    /\ pc[d] = "flock" \/ InBindSection(d) => lockFd[d] = lock /\ lock # NoFile

\* What a daemon has bound it listens on, but for the step in between.
ListenInv(d) ==
    /\ listening[d] \subseteq bound[d]
    /\ pc[d] # "listen" => listening[d] = bound[d]

\* What the probe found dead stays dead until it is removed.
RemoveInv(d) == pc[d] = "remove" => \A e \in Daemons : sock \notin listening[e]

BindInv ==
    /\ TypeOK
    /\ \A d \in Daemons : LockInv(d) /\ ListenInv(d) /\ RemoveInv(d)
    /\ \A d, e \in Daemons : locked[d] /\ locked[e] => d = e

\* If cleanup does not hit a binder, the socket a daemon has just bound stays at
\* the path until it has been identified, and is the newest it has.
FreshInv(d) ==
    pc[d] \in {"listen", "chmod", "stat"} =>
        sock \in bound[d] /\ \A t \in bound[d] : t <= sock

OwnInv ==
    /\ BindInv
    /\ \A d \in Daemons : FreshInv(d)
    /\ IdentityIsOwn

-----------------------------------------------------------------------------
(* Why a daemon that gives up has lost the path to another one *)

\* Where a daemon looks for a socket to bind, or has started to.
Contending == {"off", "open", "flock", "bind", "probe", "remove", "rebind", "gone"}

\* What is at the path while a daemon contends is not its own: it has only the
\* one it compared the path with, and inodes are not reused.  Nobody else removes
\* what it probes, nor binds what it has removed.
PathInv(d) ==
    /\ pc[d] \in Contending => sock \notin bound[d]
    /\ pc[d] \in {"register", "serve", "ensure", "unlink_sock"} => bound[d] \subseteq {ident[d]}
    /\ pc[d] \in {"probe", "remove"} => sock # NoFile
    /\ pc[d] = "rebind" => sock = NoFile
    /\ bound[d] # {} => Running(d)

\* Without cleanup, the socket of a daemon that serves stays at the path.
ServeInv(d) ==
    /\ pc[d] \in {"register", "serve", "ensure", "unlink_sock"} => sock \in listening[d]
    /\ \A e \in Daemons : bound[d] \cap bound[e] # {} => d = e

PathsInv == OwnInv /\ \A d \in Daemons : PathInv(d)
KeptInv == OwnInv /\ \A d \in Daemons : ServeInv(d)

\* Nobody has been told to stop.
NoStop == \A d \in Daemons : pc[d] # "unlink_sock"

\* One stop at most: who removes the socket is the one that was told to.
OneStop ==
    /\ \A d \in Daemons : pc[d] = "unlink_sock" => stops # 0
    /\ \A d, e \in Daemons : pc[d] = "unlink_sock" /\ pc[e] = "unlink_sock" => d = e

\* Nobody has removed a file in a shutdown yet.
Calm == stops = 0 \/ \E d \in Daemons : pc[d] = "unlink_sock"

\* With one stop at most, and no cleanup, all is well until it removes a file.
StopInv == TypeOK /\ OneStop /\ (Calm => KeptInv)
=============================================================================
