--------------------------- MODULE ClientReconnect ---------------------------
(***************************************************************************)
(* The reconnect loops of client.rs: run (an attached terminal) and tail.  *)
(* The client waits, looks at the network, at the tunnel's lock and at the *)
(* control socket, tries to attach again, and gives up when what it sees   *)
(* has looked dead for a grace period.                                     *)
(*                                                                         *)
(* Time is in seconds.  It passes in waits, and in attempts against a      *)
(* server that accepts and does not answer.                                *)
(***************************************************************************)
EXTENDS Integers

CONSTANTS
    BackoffMax,      \* RECONNECT_BACKOFF_MAX
    SocketGrace,     \* SOCKET_GONE_GRACE
    DaemonGrace,     \* DAEMON_GONE_GRACE
    AttemptTimeout,  \* RECONNECT_ATTEMPT_TIMEOUT
    MaxFaults        \* bound: what fails around the client

VARIABLES
    tail, is_remote,  \* which loop; whether ctl_path is the end of a tunnel
    pc,               \* attached, wait, attempt, exit
    why,              \* what ended the loop
    backoff, left,    \* the schedule, and the seconds to the deadline of the wait
    elapsed,          \* since reconnect_started: 0, or 1 for RECONNECT_CHROME_DELAY and more
    was_offline,
    socket_gone, daemon_gone,   \* PersistenceGates: -1, or the age of the streak
    chrome_shown,
    sup, dirty, spent,  \* an attempt: tunnel_supervisor_alive, line_dirty, its age
    (* around it *)
    file,             \* there is a file at ctl_path
    server,           \* behind it: up, refusing, eof (accepts and closes), silent
    lock,             \* a supervisor holds the tunnel's lock
    session,          \* the session is there and still this device's
    net, event,       \* the path, and a change nobody has waited for yet
    faults,
    (* history *)
    dead, deaths      \* length and number of the times the server looked dead

gates == <<socket_gone, daemon_gone>>
try == <<sup, dirty, spent>>
loopVars == <<tail, is_remote, pc, why, backoff, left, elapsed, was_offline, gates, chrome_shown, try>>
worldVars == <<file, server, lock, session, net>>
vars == <<loopVars, worldVars, event, faults, dead, deaths>>

Min2(a, b) == IF a < b THEN a ELSE b
Max2(a, b) == IF a < b THEN b ELSE a

Init ==
    /\ tail \in BOOLEAN /\ is_remote \in BOOLEAN
    /\ pc = "attached" /\ why = "none" /\ backoff = 0 /\ left = 0 /\ elapsed = 0
    /\ was_offline = FALSE /\ socket_gone = -1 /\ daemon_gone = -1 /\ chrome_shown = FALSE
    /\ sup = FALSE /\ dirty = FALSE /\ spent = 0
    /\ file = TRUE /\ server = "up" /\ lock = is_remote /\ session = TRUE
    /\ net = "satisfied" /\ event = FALSE /\ faults = 0
    /\ dead = 0 /\ deaths = 0

next_reconnect_delay(prev) == IF prev < 1 THEN 1 ELSE Min2(2 * prev, BackoffMax)

\* PersistenceGate: exceeded starts a streak or goes on with it; remaining.
Streak(since) == IF since = -1 THEN 0 ELSE since
Remaining(since, grace) == IF since = -1 THEN BackoffMax ELSE Max2(grace - since, 0)

\* A mistake: the wait follows the schedule alone.
uncapped_backoff(sleep_for, sg, dg) == sleep_for

cap_backoff(sleep_for, sg, dg) ==
    Min2(sleep_for, Min2(Remaining(sg, SocketGrace), Remaining(dg, DaemonGrace)))

\* tail has a fixed deadline of one second.
WaitFor(b, sg, dg) == IF tail THEN 1 ELSE cap_backoff(next_reconnect_delay(b), sg, dg)

\* The top of the loop.
Waits(b, sg, dg) ==
    /\ pc' = "wait"
    /\ backoff' = b /\ socket_gone' = sg /\ daemon_gone' = dg
    /\ left' = WaitFor(b, sg, dg)
    /\ UNCHANGED <<why, try>>

Exits(reason) ==
    /\ pc' = "exit" /\ why' = reason
    /\ UNCHANGED <<backoff, left, gates, try>>

Offline == is_remote /\ net = "unsatisfied"
tunnel_supervisor_alive == is_remote /\ lock

\* What the loop takes for the death of its server; an attempt goes by the
\* supervisor it saw when it began.
LooksDead ==
    /\ ~tunnel_supervisor_alive \/ (pc = "attempt" /\ ~sup)
    /\ ~file \/ server = "refusing"

-----------------------------------------------------------------------------
(* The relay ends, and the loop begins *)

RelayEnds ==
    /\ pc = "attached"
    /\ server # "up" \/ Offline \/ ~file \/ ~session
    /\ Waits(0, -1, -1)
    /\ elapsed' = 0 /\ was_offline' = FALSE /\ chrome_shown' = FALSE
    /\ dead' = 0 /\ deaths' = IF LooksDead THEN 1 ELSE 0
    /\ UNCHANGED <<tail, is_remote, worldVars, event, faults>>

Disconnect == ~tail /\ RelayEnds
TailDisconnect == tail /\ RelayEnds

\* A mistake: a spinner that also paints while an attempt is running.
PaintAnyTime ==
    /\ pc \in {"wait", "attempt"} /\ elapsed = 1 /\ ~chrome_shown
    /\ chrome_shown' = TRUE
    /\ UNCHANGED <<tail, is_remote, pc, why, backoff, left, elapsed, was_offline, gates, try,
                   worldVars, event, faults, dead, deaths>>

\* The spinner: the first paint opens a line and moves the cursor.  In an
\* alternate screen there is none.
Paint ==
    /\ pc = "wait" /\ elapsed = 1 /\ ~chrome_shown
    /\ chrome_shown' = TRUE
    /\ UNCHANGED <<tail, is_remote, pc, why, backoff, left, elapsed, was_offline, gates, try,
                   worldVars, event, faults, dead, deaths>>

\* The path is unsatisfied and no key was pressed: the loop starts over.
Park ==
    /\ Waits(backoff, socket_gone, daemon_gone)
    /\ was_offline' = TRUE
    /\ UNCHANGED <<elapsed, chrome_shown>>

\* The path allows an attempt: the schedule, the supervisor, the socket.
Look(net_hint, key_hint) ==
    LET back  == was_offline /\ ~Offline
        b     == IF net_hint \/ back THEN 0
                 ELSE IF key_hint THEN backoff ELSE next_reconnect_delay(backoff)
        gone  == ~file /\ ~tunnel_supervisor_alive
        sg    == IF gone THEN Streak(socket_gone) ELSE -1
    IN
    /\ was_offline' = (was_offline /\ Offline)
    /\ elapsed' = IF back THEN 0 ELSE elapsed
    /\ \/ gone /\ sg >= SocketGrace /\ Exits("socket_gone") /\ UNCHANGED chrome_shown
       \/ gone /\ sg < SocketGrace /\ Waits(b, sg, daemon_gone) /\ UNCHANGED chrome_shown
       \/ /\ ~gone
          /\ pc' = "attempt" /\ backoff' = b /\ socket_gone' = sg
          /\ chrome_shown' \in {chrome_shown, chrome_shown \/ (key_hint /\ elapsed' = 1)}
          /\ sup' = tunnel_supervisor_alive /\ dirty' = chrome_shown' /\ spent' = 0
          /\ UNCHANGED <<why, left, daemon_gone>>

\* The wait ends: its deadline, a network event, a key (not in tail, and not
\* before the chrome delay).
Wake(net_hint, key_hint) ==
    /\ pc = "wait"
    /\ IF Offline /\ ~key_hint THEN Park ELSE Look(net_hint, key_hint)
    /\ UNCHANGED <<tail, is_remote, worldVars, faults, dead, deaths>>

\* A mistake: a key starts the wait again.
KeyRestartsWait ==
    /\ ~tail /\ pc = "wait" /\ elapsed = 1
    /\ Waits(backoff, socket_gone, daemon_gone)
    /\ UNCHANGED <<tail, is_remote, elapsed, was_offline, chrome_shown, worldVars, event, faults,
                   dead, deaths>>

WakeDeadline == ~tail /\ left = 0 /\ Wake(FALSE, FALSE) /\ UNCHANGED event
WakeNet == ~tail /\ event /\ event' = FALSE /\ Wake(TRUE, FALSE)
WakeKey == ~tail /\ elapsed = 1 /\ Wake(FALSE, TRUE) /\ UNCHANGED event

\* tail has no keys and no schedule: both of its wakes lead to the same.
TailWake ==
    /\ tail
    /\ \/ left = 0 /\ UNCHANGED event
       \/ event /\ event' = FALSE
    /\ Wake(FALSE, FALSE)

\* SIGTERM, SIGHUP, Ctrl-C, end of stdin.
UserQuits ==
    /\ pc = "wait"
    /\ Exits("user")
    /\ UNCHANGED <<tail, is_remote, elapsed, was_offline, chrome_shown, worldVars, event, faults,
                   dead, deaths>>

-----------------------------------------------------------------------------
(* An attempt: connect, handshake, Attach or Tail *)

\* Attempt::Retry, a timeout, or a handshake that a dying ssh cut: a supervisor
\* that is alive limits the rate.
Retry == Waits(IF sup THEN 0 ELSE backoff, socket_gone, -1)
TailRetry == Waits(backoff, socket_gone, -1)

is_terminal_handshake_err == ~sup

\* A mistake: the first refusal is final.
RefusedAtOnce == Exits("daemon_gone")

\* Attempt::DaemonGone.
Refused ==
    LET dg == Streak(daemon_gone) IN
    IF dg >= DaemonGrace THEN Exits("daemon_gone") ELSE Waits(backoff, socket_gone, dg)

Attached ==
    /\ pc' = "attached" /\ chrome_shown' = FALSE
    /\ UNCHANGED <<why, backoff, left, gates, try>>

\* connect returns at once; what it reached may fail later.
Accepted == spent > 0 \/ (file /\ server # "refusing")

\* AlreadyAttached, and a connection lost on the way, are Retry as well.
Answer(again) ==
    \/ ~Accepted /\ (IF ~file \/ sup THEN again ELSE Refused) /\ UNCHANGED chrome_shown
    \/ /\ Accepted /\ server \in {"eof", "refusing"} /\ UNCHANGED chrome_shown
       /\ IF is_terminal_handshake_err THEN Exits("handshake") ELSE again
    \/ /\ Accepted /\ (server = "silent" \/ Offline) /\ spent >= AttemptTimeout
       /\ again /\ UNCHANGED chrome_shown
    \/ /\ Accepted /\ server = "up" /\ ~Offline
       /\ \/ session /\ Attached
          \/ ~session /\ Exits("session") /\ UNCHANGED chrome_shown

attemptRest == <<tail, is_remote, elapsed, was_offline, worldVars, event, faults, dead, deaths>>

Attempt == ~tail /\ pc = "attempt" /\ Answer(Retry) /\ UNCHANGED attemptRest
TailAttempt == tail /\ pc = "attempt" /\ Answer(TailRetry) /\ UNCHANGED attemptRest

-----------------------------------------------------------------------------
(* Time, and the world *)

\* An overdue gate leaves a wait of zero, and the loop turns without a pause
\* while it is parked, or while the other gate is in its grace.
Turns ==
    /\ WaitFor(backoff, socket_gone, daemon_gone) = 0
    /\ \/ Offline /\ was_offline
       \/ ~Offline /\ ~file /\ ~tunnel_supervisor_alive /\ socket_gone \in 0..(SocketGrace - 1)

Older(g, grace) == IF g = -1 THEN -1 ELSE Min2(g + 1, grace + 1)

Tick ==
    /\ \/ pc = "wait" /\ (left > 0 \/ Turns) /\ ~event
          /\ left' = Max2(left - 1, 0) /\ UNCHANGED spent
       \/ pc = "attempt" /\ Accepted /\ server \in {"up", "silent"} /\ spent < AttemptTimeout
          /\ spent' = spent + 1 /\ UNCHANGED left
    /\ elapsed' = 1
    /\ socket_gone' = Older(socket_gone, SocketGrace)
    /\ daemon_gone' = Older(daemon_gone, DaemonGrace)
    /\ dead' = IF LooksDead THEN Min2(dead + 1, SocketGrace) ELSE dead
    /\ UNCHANGED <<tail, is_remote, pc, why, backoff, was_offline, chrome_shown, sup, dirty,
                   worldVars, event, faults, deaths>>

\* What changed around the client, seen as a death or not.
Observed ==
    /\ UNCHANGED loopVars
    /\ IF LooksDead' /\ ~LooksDead THEN dead' = 0 /\ deaths' = Min2(deaths + 1, 2)
                                   ELSE UNCHANGED <<dead, deaths>>

\* The daemon or its ssh dies, closes what it accepts or goes silent; the socket
\* file is removed; the supervisor dies; the session ends or is taken over.
Fault ==
    /\ faults < MaxFaults /\ faults' = faults + 1
    /\ \/ \E s \in {"refusing", "eof", "silent"} : server = "up" /\ server' = s
          /\ UNCHANGED <<file, lock, session, net, event>>
       \/ file /\ file' = FALSE /\ UNCHANGED <<server, lock, session, net, event>>
       \/ lock /\ lock' = FALSE /\ UNCHANGED <<file, server, session, net, event>>
       \/ session /\ session' = FALSE /\ UNCHANGED <<file, server, lock, net, event>>
       \/ /\ net = "satisfied" /\ net' = "unsatisfied" /\ event' = TRUE
          /\ UNCHANGED <<file, server, lock, session>>
    /\ Observed

\* The path is back; a supervisor restores the socket; a server that is stuck
\* or closing gets over it, and so do its clients.
Heal ==
    /\ \/ net = "unsatisfied" /\ net' = "satisfied" /\ event' = TRUE /\ UNCHANGED <<file, server>>
       \/ /\ tunnel_supervisor_alive /\ (~file \/ server # "up")
          /\ file' = TRUE /\ server' = "up" /\ UNCHANGED <<net, event>>
       \/ server \in {"eof", "silent"} /\ server' = "up" /\ UNCHANGED <<file, net, event>>
    /\ UNCHANGED <<lock, session, faults>>
    /\ Observed

\* A dead daemon or a dead supervisor may be started again, or not.
Restart ==
    /\ \/ is_remote /\ ~lock /\ lock' = TRUE /\ UNCHANGED <<file, server>>
       \/ ~is_remote /\ LooksDead /\ file' = TRUE /\ server' = "up" /\ UNCHANGED lock
    /\ Observed
    /\ UNCHANGED <<session, net, event, faults>>

-----------------------------------------------------------------------------

ClientStep == Disconnect \/ WakeDeadline \/ WakeNet \/ Attempt
TailStep == TailDisconnect \/ TailWake \/ TailAttempt

Next == ClientStep \/ TailStep \/ Paint \/ WakeKey \/ UserQuits \/ Tick \/ Fault \/ Heal \/ Restart

Spec == Init /\ [][Next]_vars

\* The client runs, select! takes every arm that is ready again and again, time
\* passes, and what heals by itself heals.
Fairness ==
    /\ WF_vars(ClientStep) /\ SF_vars(WakeNet)
    /\ WF_vars(TailStep) /\ SF_vars(TailWake)
    /\ SF_vars(Tick) /\ WF_vars(Heal)

FairSpec == Spec /\ Fairness

-----------------------------------------------------------------------------
(* Properties *)

\* Ranges; and the line_dirty an attempt was given is what the screen shows when
\* it succeeds: nothing paints in between.
TypeOK ==
    /\ pc \in {"attached", "wait", "attempt", "exit"}
    /\ backoff \in 0..BackoffMax /\ left \in 0..BackoffMax
    /\ elapsed \in 0..1 /\ spent \in 0..AttemptTimeout
    /\ socket_gone \in -1..(SocketGrace + 1) /\ daemon_gone \in -1..(DaemonGrace + 1)
    /\ server \in {"up", "refusing", "eof", "silent"}
    /\ {tail, is_remote, was_offline, sup, file, lock, session, event} \subseteq BOOLEAN
    /\ pc = "attempt" => dirty = chrome_shown
    /\ faults \in 0..MaxFaults /\ dead \in 0..SocketGrace /\ deaths \in 0..2

\* One outage of the socket and its supervisor shorter than the grace, such as
\* a wake from suspend makes, ends no client.
BlipSurvived ==
    why \in {"socket_gone", "daemon_gone"} /\ deaths <= 1 => dead >= SocketGrace

\* Once the socket was seen gone the verdict, or the end of the suspicion, comes
\* with the end of the grace, however far the backoff has climbed.
VerdictPrompt == pc = "wait" /\ ~was_offline => socket_gone <= SocketGrace

\* A disconnected client attaches again or ends: nobody's keys, no network event
\* and no climb keep it waiting for ever.
Settles == pc = "wait" ~> pc \in {"attached", "exit"}

\* client.rs says that while there is no usable route the loop must "park on
\* net.changed()": a parked client has something to wait for.
ParksOffline == pc = "wait" /\ was_offline /\ Offline => WaitFor(backoff, socket_gone, daemon_gone) > 0
=============================================================================
