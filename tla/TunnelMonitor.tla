---------------------------- MODULE TunnelMonitor ----------------------------
(***************************************************************************)
(* tunnel_monitor of connect.rs: the select loop of one supervisor over    *)
(* its ssh child, the probe ticker and network-change events, and          *)
(* respawn_tunnel with its backoff.                                        *)
(*                                                                         *)
(* Times are what the code tells apart: the child is within its spawn      *)
(* grace, past it, or has been up for HEALTHY_CHILD_THRESHOLD; the last    *)
(* healthy probe is recent or not.  Backoffs are in seconds.               *)
(***************************************************************************)
EXTENDS Integers

CONSTANTS
    MaxBackoff,  \* MAX_RESPAWN_BACKOFF, a power of two here
    Strikes,     \* PROBE_FAILURES_BEFORE_RESPAWN
    MaxFaults    \* bound: faults of the network, the remote, ssh and the files

VARIABLES
    pc,          \* select, respawn (top of its loop), wait, ready, ensured, exit
    child,       \* ssh: starting, bound, dead
    uptime,      \* of the child: grace, young, healthy
    slept,       \* the machine was suspended while the child was up
    probe_failures,
    (* MonitorState *)
    backoff, recent, net_probe, we_killed, saw_unsatisfied,
    (* respawn_tunnel *)
    sleep, skip_wait, backoff_saw,
    (* around it *)
    sockfile,    \* there is a file at local_sock
    kick,        \* the kick file: none, old (older than this episode), new
    net, event,  \* the path as the OS sees it; a change nobody has waited for yet
    remote,      \* the remote host and its daemon answer
    due,         \* the probe ticker has a tick
    ticked,      \* it ticked since the respawn that is under way began
    owned,       \* the lock file is the one this supervisor locked
    faults,
    (* history *)
    streak,      \* attempts in a row with no reason to start the climb again
    ghosted      \* ssh children spawned since the lock was lost

msVars   == <<backoff, recent, net_probe, we_killed, saw_unsatisfied>>
loopVars == <<sleep, skip_wait, backoff_saw>>
envVars  == <<net, remote, faults>>
vars == <<pc, child, uptime, slept, probe_failures, msVars, loopVars, sockfile, kick,
          event, due, ticked, owned, envVars, streak, ghosted>>

\* run has just spawned ssh, waited for its socket and probed it.
Init ==
    /\ pc = "select" /\ child = "bound" /\ uptime = "grace" /\ slept = FALSE
    /\ probe_failures = 0
    /\ backoff = 1 /\ recent = TRUE /\ net_probe = FALSE
    /\ we_killed = FALSE /\ saw_unsatisfied = FALSE
    /\ sleep = 0 /\ skip_wait = FALSE /\ backoff_saw = FALSE
    /\ sockfile = TRUE /\ kick = "none"
    /\ net = "satisfied" /\ event = FALSE
    /\ remote = TRUE /\ due = FALSE /\ ticked = FALSE /\ owned = TRUE /\ faults = 0
    /\ streak = 0 /\ ghosted = 0

respawn_sleep(prev, up) == IF up = "healthy" THEN 1 ELSE prev

Min2(a, b) == IF a < b THEN a ELSE b

\* The lower clamp starts the climb after a sleep of zero.
double_backoff(cur) == Min2(2 * (IF cur < 1 THEN 1 ELSE cur), MaxBackoff)

\* A mistake: a socket file that is gone counts for nothing.
respawn_on_strikes(exists, failures) == failures >= Strikes

respawn_now(exists, failures) == ~exists \/ failures >= Strikes

\* probe_tunnel_alive: Hello and its answer, through the tunnel.
ProbeOk == sockfile /\ child = "bound" /\ net = "satisfied" /\ remote

-----------------------------------------------------------------------------
(* The select loop *)

selectRest == <<loopVars, kick, owned, envVars, streak, ghosted>>

KillChild == child' = "dead" /\ we_killed' = TRUE

\* _ = net.changed()
NetChanged ==
    /\ pc = "select" /\ event
    /\ event' = FALSE
    /\ saw_unsatisfied' = (saw_unsatisfied \/ net = "unsatisfied")
    /\ net_probe' = TRUE
    /\ UNCHANGED <<pc, child, uptime, slept, probe_failures, backoff, recent, we_killed,
                   sockfile, due, ticked, selectRest>>

\* The debounced probe: one strike, but not within the spawn grace.
NetProbe ==
    /\ pc = "select" /\ net_probe
    /\ net_probe' = FALSE
    /\ \/ /\ saw_unsatisfied /\ ProbeOk
          /\ probe_failures' = 0 /\ recent' = TRUE /\ saw_unsatisfied' = FALSE
          /\ UNCHANGED <<child, we_killed>>
       \/ /\ saw_unsatisfied /\ ~ProbeOk /\ uptime # "grace"
          /\ KillChild
          /\ UNCHANGED <<probe_failures, recent, saw_unsatisfied>>
       \/ /\ ~saw_unsatisfied \/ (~ProbeOk /\ uptime = "grace")
          /\ UNCHANGED <<child, we_killed, probe_failures, recent, saw_unsatisfied>>
    /\ UNCHANGED <<pc, uptime, slept, backoff, sockfile, event, due, ticked, selectRest>>

\* _ = probe_ticker.tick(): the lock, the socket file, the probe, the verdict.
ProbeTick ==
    /\ pc = "select" /\ due /\ owned
    /\ due' = FALSE /\ ticked' = TRUE
    /\ LET failures == IF ~sockfile THEN probe_failures
                       ELSE IF ProbeOk THEN 0 ELSE Min2(probe_failures + 1, Strikes) IN
       /\ probe_failures' = failures
       /\ recent' = (recent \/ ProbeOk)
       /\ saw_unsatisfied' = (saw_unsatisfied /\ ~ProbeOk)
       /\ IF respawn_now(sockfile, failures) THEN KillChild ELSE UNCHANGED <<child, we_killed>>
    /\ UNCHANGED <<pc, uptime, slept, backoff, net_probe, sockfile, event, selectRest>>

ProbeTickGhost ==
    /\ pc = "select" /\ due /\ ~owned
    /\ pc' = "exit" /\ child' = "dead"
    /\ UNCHANGED <<uptime, slept, probe_failures, msVars, sockfile, event, due, ticked,
                   selectRest>>

\* A mistake: a kick of an earlier outage is kept.
KeepKick == UNCHANGED kick

DiscardKick == kick' = "none"

\* status = state.child.wait(): the class of the exit, then respawn_tunnel's entry,
\* which throws away a kick that is there and applies the healthy reset once.
ChildExited ==
    /\ pc = "select" /\ child = "dead"
    /\ saw_unsatisfied' = FALSE
    /\ pc' = "respawn"
    /\ DiscardKick
    /\ we_killed' = FALSE
    /\ sleep' = IF we_killed THEN 0 ELSE respawn_sleep(backoff, uptime)
    /\ skip_wait' = (slept /\ sleep' # 0)
    /\ backoff_saw' = FALSE
    /\ ticked' = (ticked /\ sleep' = 0)
    /\ streak' = IF we_killed \/ uptime = "healthy" THEN 0 ELSE streak
    /\ UNCHANGED <<child, uptime, slept, probe_failures, backoff, recent, net_probe,
                   sockfile, event, due, owned, envVars, ghosted>>

\* An exit code that is not transient ends the monitor, and the supervisor.
ChildGaveUp ==
    /\ pc = "select" /\ child = "dead" /\ ~we_killed
    /\ pc' = "exit"
    /\ UNCHANGED <<child, uptime, slept, probe_failures, msVars, sockfile, event, due, ticked,
                   selectRest>>

\* stop.cancelled(), in the loop or in a wait.
Stop ==
    /\ pc \in {"select", "wait"}
    /\ pc' = "exit" /\ child' = "dead"
    /\ UNCHANGED <<uptime, slept, probe_failures, msVars, sockfile, event, due, ticked,
                   selectRest>>

-----------------------------------------------------------------------------
(* respawn_tunnel *)

respawnRest == <<child, uptime, slept, probe_failures, recent, net_probe, we_killed,
                 saw_unsatisfied, sockfile, due, ticked, owned, envVars, ghosted>>

RespawnGhost ==
    /\ pc = "respawn" /\ ~owned
    /\ pc' = "exit"
    /\ UNCHANGED <<respawnRest, backoff, loopVars, kick, event, streak>>

\* A mistake: the lock is looked at by the ticker alone.
RespawnTopUnchecked ==
    /\ pc = "respawn"
    /\ skip_wait' = FALSE
    /\ pc' = IF skip_wait THEN "ready" ELSE "wait"
    /\ UNCHANGED <<respawnRest, backoff, sleep, backoff_saw, kick, event, streak>>

RespawnTop ==
    /\ pc = "respawn" /\ owned
    /\ skip_wait' = FALSE
    /\ pc' = IF skip_wait THEN "ready" ELSE "wait"
    /\ UNCHANGED <<respawnRest, backoff, sleep, backoff_saw, kick, event, streak>>

\* backoff_wait returns: the sleep is over, or the machine woke up meanwhile.
WaitElapsed ==
    /\ pc = "wait"
    /\ pc' = "ready"
    /\ UNCHANGED <<respawnRest, backoff, loopVars, kick, event, streak>>

\* The poll of the kick file consumes it.
WaitKicked ==
    /\ pc = "wait" /\ kick # "none"
    /\ kick' = "none"
    /\ pc' = "ready"
    /\ UNCHANGED <<respawnRest, backoff, loopVars, event, streak>>

\* A network event: only the edge from unsatisfied to satisfied ends the wait.
WaitNet ==
    /\ pc = "wait" /\ event
    /\ event' = FALSE
    /\ LET recovered == net # "unsatisfied" /\ backoff_saw IN
       /\ backoff_saw' = (net = "unsatisfied")
       /\ sleep' = IF recovered THEN 1 ELSE sleep
       /\ streak' = IF recovered THEN 0 ELSE streak
       /\ pc' = IF recovered THEN "ready" ELSE pc
    /\ UNCHANGED <<respawnRest, backoff, skip_wait, kick>>

\* The climb, then ensure_remote_ready unless the tunnel was healthy just now.
Advance ==
    /\ pc = "ready"
    /\ backoff' = double_backoff(sleep)
    /\ streak' = Min2(streak + 1, MaxBackoff)
    /\ LET ok == recent \/ (net = "satisfied" /\ remote) IN
       /\ pc' = IF ok THEN "ensured" ELSE "respawn"
       /\ sleep' = IF ok THEN sleep ELSE backoff'
    /\ UNCHANGED <<respawnRest, skip_wait, backoff_saw, kick, event>>

\* spawn_tunnel removes the socket file; ChildState::new.
SpawnTunnel ==
    /\ pc = "ensured"
    /\ pc' = "select"
    /\ child' = "starting" /\ uptime' = "grace" /\ slept' = FALSE
    /\ probe_failures' = 0 /\ net_probe' = FALSE
    /\ sockfile' = FALSE
    /\ ghosted' = IF owned THEN 0 ELSE Min2(ghosted + 1, 2)
    /\ UNCHANGED <<backoff, recent, we_killed, saw_unsatisfied, loopVars, kick, event, due,
                   ticked, owned, envVars, streak>>

SpawnFails ==
    /\ pc = "ensured" /\ faults < MaxFaults
    /\ faults' = faults + 1
    /\ sockfile' = FALSE
    /\ sleep' = backoff
    /\ pc' = "respawn"
    /\ UNCHANGED <<child, uptime, slept, probe_failures, msVars, skip_wait, backoff_saw, kick,
                   event, due, ticked, owned, net, remote, streak, ghosted>>

-----------------------------------------------------------------------------
(* ssh, time, the network, the files and the user *)

ctlVars == <<pc, probe_failures,  backoff, net_probe, we_killed, saw_unsatisfied, loopVars, streak, ghosted>>

SshBinds ==
    /\ child = "starting" /\ net = "satisfied"
    /\ child' = "bound" /\ sockfile' = TRUE /\ ticked' = FALSE
    /\ UNCHANGED <<ctlVars, uptime, slept, recent, kick, event, due, owned, envVars>>

\* ssh ends by itself when it cannot reach the remote, and for other reasons.
SshEnds ==
    /\ child # "dead"
    /\ \/ faults < MaxFaults /\ faults' = faults + 1
       \/ ~(remote /\ net = "satisfied") /\ UNCHANGED faults
    /\ child' = "dead"
    /\ UNCHANGED <<ctlVars, uptime, slept, recent, sockfile, kick, event, due, ticked, owned, net, remote>>

\* The child gets older; the last healthy probe too.
Age ==
    /\ \/ /\ child = "bound" /\ uptime # "healthy"
          /\ uptime' = IF uptime = "grace" THEN "young" ELSE "healthy"
          /\ UNCHANGED recent
       \/ recent /\ recent' = FALSE /\ UNCHANGED uptime
    /\ UNCHANGED <<ctlVars, child, slept, sockfile, kick, event, due, ticked, owned, envVars>>

\* With a network, a respawn without a sleep and the start of ssh take less than
\* PROBE_INTERVAL: at most one tick falls into them.
Quick == net = "satisfied" /\ IF pc = "select" THEN child # "bound" ELSE sleep = 0

\* The ticker ticks.  In respawn_tunnel nobody polls it, and the tick waits.
Interval ==
    /\ ~due /\ ~(Quick /\ ticked)
    /\ due' = TRUE
    /\ UNCHANGED <<ctlVars, child, uptime, slept, recent, sockfile, kick, event, ticked, owned, envVars>>

\* A fault: the route goes, the remote stops answering, the socket file is
\* removed, the machine is suspended, the lock file is replaced.
Fault ==
    /\ faults < MaxFaults /\ faults' = faults + 1
    /\ \/ /\ net = "satisfied" /\ net' = "unsatisfied" /\ event' = TRUE
          /\ UNCHANGED <<remote, sockfile, slept, owned>>
       \/ remote /\ remote' = FALSE /\ UNCHANGED <<net, event, sockfile, slept, owned>>
       \/ sockfile /\ sockfile' = FALSE /\ UNCHANGED <<net, event, remote, slept, owned>>
       \/ ~slept /\ slept' = TRUE /\ UNCHANGED <<net, event, remote, sockfile, owned>>
       \/ owned /\ owned' = FALSE /\ UNCHANGED <<net, event, remote, sockfile, slept>>
    /\ UNCHANGED <<ctlVars, child, uptime, recent, kick, due, ticked>>

\* The route is back, or the remote answers again.
Recover ==
    /\ \/ net = "unsatisfied" /\ net' = "satisfied" /\ event' = TRUE /\ UNCHANGED remote
       \/ ~remote /\ remote' = TRUE /\ UNCHANGED <<net, event>>
    /\ UNCHANGED <<ctlVars, child, uptime, slept, recent, sockfile, kick, due, ticked, owned, faults>>

\* kick_respawn: a key is pressed in a client that is disconnected.
Kick ==
    /\ kick = "none" /\ ~ProbeOk
    /\ kick' = IF pc \in {"select", "exit"} THEN "old" ELSE "new"
    /\ UNCHANGED <<ctlVars, child, uptime, slept, recent, sockfile, event, due, ticked, owned, envVars>>

-----------------------------------------------------------------------------

LoopStep == NetChanged \/ NetProbe \/ ProbeTick \/ ProbeTickGhost \/ ChildExited
RespawnStep == RespawnGhost \/ RespawnTop \/ WaitElapsed \/ Advance \/ SpawnTunnel

Next ==
    \/ LoopStep \/ ChildGaveUp \/ Stop \/ RespawnStep \/ WaitKicked \/ WaitNet \/ SpawnFails
    \/ SshBinds \/ SshEnds \/ Age \/ Interval \/ Fault \/ Recover \/ Kick

Spec == Init /\ [][Next]_vars

\* The loop runs, sleeps end, the ticker ticks, ssh binds where there is a network.
Fairness ==
    /\ WF_vars(LoopStep) /\ WF_vars(RespawnStep) /\ WF_vars(Interval)
    /\ WF_vars(SshBinds) /\ WF_vars(Recover)

FairSpec == Spec /\ Fairness

-----------------------------------------------------------------------------
(* Properties *)

TypeOK ==
    /\ pc \in {"select", "respawn", "wait", "ready", "ensured", "exit"}
    /\ child \in {"starting", "bound", "dead"} /\ uptime \in {"grace", "young", "healthy"}
    /\ probe_failures \in 0..Strikes /\ backoff \in 1..MaxBackoff /\ sleep \in 0..MaxBackoff
    /\ {slept, recent, net_probe, we_killed, saw_unsatisfied, skip_wait, backoff_saw, sockfile,
        event, remote, due, ticked, owned} \subseteq BOOLEAN
    /\ kick \in {"none", "old", "new"} /\ net \in {"satisfied", "unsatisfied"}
    /\ faults \in 0..MaxFaults /\ streak \in 0..MaxBackoff /\ ghosted \in 0..2

\* Where a run of n failures has brought the backoff at least.
Climb(n) == Min2(2 ^ n, MaxBackoff)

\* The backoff climbs through a run of failures whatever cuts its sleeps short:
\* a kick, a wake or a kill of our own does not restart it, and a kick that was
\* made before the outage is not even seen.
BackoffClimbs ==
    /\ backoff >= Climb(streak)
    /\ pc = "wait" => kick # "old"

\* A supervisor that has lost its lock spawns ssh, and with it removes the
\* owner's socket, at most once: when the lock goes while it waits.
GhostSpawnsOnce == ghosted <= 1

\* However the network, the remote, ssh and the files fail, a supervisor that is
\* not stopped and keeps its lock gets its tunnel back.
Reconnects == []<>(pc = "exit" \/ ~owned \/ ProbeOk)
=============================================================================
