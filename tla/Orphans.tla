------------------------------- MODULE Orphans -------------------------------
(***************************************************************************)
(* gritty refresh: it restarts the local daemon when that one runs stale   *)
(* code, then walks the process table for daemons whose registration no    *)
(* longer names them and kills, after a grace period, those that are still *)
(* orphaned.  Daemons of a current binary heal the loss of their files at  *)
(* their next self-check; those of an old one never do.  External cleanup  *)
(* deletes the files, and clients start a daemon when none answers.        *)
(*                                                                         *)
(* What a daemon does to the files is one step here; ControlSocket has its *)
(* parts.  Time passes in seconds.                                         *)
(***************************************************************************)
EXTENDS Integers

CONSTANTS
    Daemons,        \* daemon processes; each is started at most once
    None,           \* no such file; an answer that cannot be had
    CheckInterval,  \* SOCKET_CHECK_INTERVAL
    Lateness,       \* how late a busy daemon may run its self-check
    MaxWipes,       \* bound: cleanups
    MaxRefreshes    \* bound: runs of gritty refresh

VARIABLES
    binary,     \* the code a daemon runs: "new" is the one refresh has
    state,      \* "off", "serving", "stopping", "draining", "gone"
    due,        \* time to the next self-check, negative when it is late
    sock,       \* the daemon that bound what is at ctl.sock
    pid,        \* the daemon daemon.pid names
    info,       \* the binary daemon.info names
    refresh,    \* what refresh does next
    yes,        \* refresh was run with -y
    suspects,   \* the orphans of its first scan
    wait,       \* what is left of CONFIRM_DELAY
    seen,       \* daemons that were registered since that scan
    wipes, refreshes

files == <<sock, pid, info>>
scan == <<refresh, yes, suspects, wait>>
vars == <<binary, state, due, files, scan, seen, wipes, refreshes>>

\* A mistake: the grace period is not derived from the check interval.
CONFIRM_DELAY_alone == 2

CONFIRM_DELAY == CheckInterval + 2

Process(d) == state[d] \in {"serving", "stopping", "draining"}

\* A connect to the socket succeeds: the kernel accepts for its daemon.
Connectable == sock # None /\ Process(sock)

\* A request sent there is answered.
Answers == sock # None /\ state[sock] = "serving"

\* One daemon serves and is registered.
Init ==
    /\ \E d \in Daemons, b \in {"old", "new"} :
           /\ binary = [e \in Daemons |-> IF e = d THEN b ELSE "new"]
           /\ state = [e \in Daemons |-> IF e = d THEN "serving" ELSE "off"]
           /\ sock = d /\ pid = d /\ info = b
    /\ due = [d \in Daemons |-> CheckInterval]
    /\ refresh = "idle" /\ yes = FALSE
    /\ suspects = {} /\ wait = 0 /\ seen = {}
    /\ wipes = 0 /\ refreshes = 0

-----------------------------------------------------------------------------
(* The daemons *)

write_registration(d) == pid' = d /\ info' = binary[d]

Starts(d) ==
    /\ state[d] = "off"
    /\ ~Connectable
    /\ state' = [state EXCEPT ![d] = "serving"]
    /\ due' = [due EXCEPT ![d] = CheckInterval]
    /\ sock' = d
    /\ write_registration(d)

\* A client that finds nobody at the socket starts a daemon.
ClientStarts(d) ==
    /\ Starts(d)
    /\ UNCHANGED <<binary, scan, wipes, refreshes>>

ChecksSocket(d) == state[d] = "serving" /\ binary[d] = "new" /\ due[d] <= 0

\* The socket is its own: ensure_registration.
Intact(d) ==
    /\ ChecksSocket(d)
    /\ sock = d
    /\ IF pid = d THEN UNCHANGED <<pid, info>> ELSE write_registration(d)
    /\ due' = [due EXCEPT ![d] = CheckInterval]
    /\ UNCHANGED <<binary, state, sock, scan, wipes, refreshes>>

\* The path is free, or what is there is dead: it binds again.
Recovered(d) ==
    /\ ChecksSocket(d)
    /\ ~Connectable
    /\ sock' = d
    /\ write_registration(d)
    /\ due' = [due EXCEPT ![d] = CheckInterval]
    /\ UNCHANGED <<binary, state, scan, wipes, refreshes>>

\* Another daemon has the path: it goes and leaves the files.
Lost(d) ==
    /\ ChecksSocket(d)
    /\ sock # d /\ Connectable
    /\ state' = [state EXCEPT ![d] = "gone"]
    /\ UNCHANGED <<binary, due, files, scan, wipes, refreshes>>

\* The end of shutdown: the sessions are drained and the files removed,
\* whosever they are by now; KillServer is answered after that.
Removes(d) ==
    /\ state[d] \in {"stopping", "draining"}
    /\ state' = [state EXCEPT ![d] = "gone"]
    /\ sock' = None /\ pid' = None /\ info' = None
    /\ refresh' = IF state[d] = "stopping" THEN "start" ELSE refresh
    /\ UNCHANGED <<binary, due, yes, suspects, wait, wipes, refreshes>>

-----------------------------------------------------------------------------
(* gritty refresh local *)

\* Verdict::needs_restart of assess: alive, and .info is stale or missing.
needs_restart == pid # None /\ Process(pid) /\ info # "new"

Assess ==
    /\ refresh = "idle"
    /\ refreshes < MaxRefreshes
    /\ refreshes' = refreshes + 1
    /\ \E y \in BOOLEAN : yes' = y
    /\ refresh' = IF needs_restart THEN "count" ELSE "scan"
    /\ UNCHANGED <<binary, state, due, files, suspects, wait, wipes>>

\* attached_session_count: none when the daemon speaks another protocol.
attached_session_count ==
    (IF Answers THEN {0, 1} ELSE {None}) \cup
    (IF Answers /\ binary[sock] = "old" THEN {None} ELSE {})

restart_blocked_by(attached) == attached # None /\ attached > 0 /\ ~yes

CountSessions ==
    /\ refresh = "count"
    /\ \E attached \in attached_session_count :
           refresh' = IF restart_blocked_by(attached) THEN "idle" ELSE "kill"
    /\ UNCHANGED <<binary, state, due, files, yes, suspects, wait, wipes, refreshes>>

\* KillServer, answered when the files are gone.
KillServer ==
    /\ refresh = "kill"
    /\ Answers
    /\ state' = [state EXCEPT ![sock] = "stopping"]
    /\ refresh' = "killing"
    /\ UNCHANGED <<binary, due, files, yes, suspects, wait, wipes, refreshes>>

\* No answer: SIGTERM to the registered process, without waiting for it.
Sigterm ==
    /\ refresh = "kill"
    /\ ~Answers
    /\ state' = IF pid # None /\ state[pid] = "serving"
                THEN [state EXCEPT ![pid] = "draining"] ELSE state
    /\ refresh' = "start"
    /\ UNCHANGED <<binary, due, files, yes, suspects, wait, wipes, refreshes>>

AutoStart(d) ==
    /\ refresh = "start"
    /\ Starts(d)
    /\ refresh' = "scan"
    /\ UNCHANGED <<binary, yes, suspects, wait, wipes, refreshes>>

\* The new daemon finds another one at the path; refresh fails with it.
AutoStartFails ==
    /\ refresh = "start"
    /\ Connectable
    /\ refresh' = "idle"
    /\ UNCHANGED <<binary, state, due, files, yes, suspects, wait, wipes, refreshes>>

\* Daemons with a bound socket and a registration that does not name them.
find_orphan_daemons == {d \in Daemons : Process(d) /\ pid # d}

Scan ==
    /\ refresh = "scan"
    /\ suspects' = find_orphan_daemons
    /\ IF suspects' = {} THEN refresh' = "idle" /\ wait' = 0
                         ELSE refresh' = "confirm" /\ wait' = CONFIRM_DELAY
    /\ UNCHANGED <<binary, state, due, files, yes, wipes, refreshes>>

ConfirmAndReap ==
    /\ refresh = "confirm"
    /\ wait = 0
    /\ LET confirmed == suspects \cap find_orphan_daemons IN
           state' = [d \in Daemons |-> IF d \in confirmed THEN "gone" ELSE state[d]]
    /\ suspects' = {}
    /\ refresh' = "idle"
    /\ UNCHANGED <<binary, due, files, yes, wait, wipes, refreshes>>

-----------------------------------------------------------------------------
(* The environment *)

\* Cleanup of the runtime directory, or a sweep that takes some of the files.
Wipe(gone) ==
    /\ wipes < MaxWipes
    /\ wipes' = wipes + 1
    /\ sock' = IF "sock" \in gone THEN None ELSE sock
    /\ pid' = IF "pid" \in gone THEN None ELSE pid
    /\ info' = IF "info" \in gone THEN None ELSE info
    /\ UNCHANGED <<binary, state, due, scan, refreshes>>

\* A self-check is late by at most Lateness, a shutdown takes under a second.
Tick ==
    /\ \A d \in Daemons :
           /\ state[d] = "serving" /\ binary[d] = "new" => due[d] > -Lateness
           /\ state[d] \notin {"stopping", "draining"}
    /\ due' = [d \in Daemons |->
                  IF state[d] = "serving" /\ binary[d] = "new" THEN due[d] - 1 ELSE due[d]]
    /\ wait' = IF wait > 0 THEN wait - 1 ELSE 0
    /\ UNCHANGED <<binary, state, files, refresh, yes, suspects, wipes, refreshes>>

-----------------------------------------------------------------------------

DaemonStep(d) ==
    ClientStarts(d) \/ Intact(d) \/ Recovered(d) \/ Lost(d) \/ Removes(d)

RefreshStep ==
    \/ Assess \/ CountSessions \/ KillServer \/ Sigterm \/ AutoStartFails
    \/ Scan \/ ConfirmAndReap
    \/ \E d \in Daemons : AutoStart(d)

\* The daemons registered since the first scan are what a reap is judged by.
Next ==
    /\ \/ Tick
       \/ RefreshStep
       \/ \E d \in Daemons : DaemonStep(d)
       \/ \E gone \in (SUBSET {"sock", "pid", "info"}) \ {{}} : Wipe(gone)
    /\ seen' = (IF refresh = "scan" /\ refresh' # "scan" THEN {} ELSE seen) \cup {pid'}

Spec == Init /\ [][Next]_vars

TypeOK ==
    /\ binary \in [Daemons -> {"old", "new"}]
    /\ state \in [Daemons -> {"off", "serving", "stopping", "draining", "gone"}]
    /\ due \in [Daemons -> -Lateness..CheckInterval]
    /\ sock \in Daemons \cup {None} /\ pid \in Daemons \cup {None}
    /\ info \in {"old", "new", None}
    /\ refresh \in {"idle", "count", "kill", "killing", "start", "scan", "confirm"}
    /\ yes \in BOOLEAN /\ suspects \subseteq Daemons
    /\ wait \in 0..CONFIRM_DELAY /\ seen \subseteq Daemons \cup {None}
    /\ wipes \in 0..MaxWipes /\ refreshes \in 0..MaxRefreshes

\* refresh kills no daemon that heals itself: one of a current binary that
\* serves is reaped only if it was registered in between and lost its files
\* once more, never because it had not come to its self-check yet, and never
\* because refresh itself had its files removed by the daemon it replaced.
SparesHealing ==
    [][\A d \in Daemons :
           /\ refresh = "confirm" /\ refresh' # "confirm"
           /\ state[d] = "serving" /\ binary[d] = "new"
           /\ state'[d] = "gone"
           => d \in seen]_vars
=============================================================================
