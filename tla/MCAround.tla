------------------------------ MODULE MCAround ------------------------------
(***************************************************************************)
(* Small instances of what keeps a session usable: the registry with its   *)
(* reapers, whose variables are the module's own; the tunnel and its       *)
(* supervisor; the client's reconnect loop; and the services beside the    *)
(* terminal.  A behaviour is one of one part; the others stay as they      *)
(* were.  A part's promises hold under that part's own fairness.           *)
(***************************************************************************)
EXTENDS RegistryInv

CONSTANTS alice, bob, web, None, sup1, sup2, tool, s1, s2, r1, r2

Sups == {sup1, sup2}
Senders == {s1, s2}
Receivers == {r1, r2}

VARIABLE part   \* whose behaviour this is

VARIABLES tn_path, tn_flock, tn_fd, tn_pc, tn_pid, tn_sock, tn_ssh,
    tn_sigterm, tn_stage, tn_target, tn_yanked, tn_ops, tn_faults

tunnel == <<tn_path, tn_flock, tn_fd, tn_pc, tn_pid, tn_sock, tn_ssh,
    tn_sigterm, tn_stage, tn_target, tn_yanked, tn_ops, tn_faults>>

T == INSTANCE TunnelInv WITH
    Sups <- Sups, Tools <- {tool}, None <- None, MaxOps <- 1,
    MaxFaults <- 1,
    path <- tn_path, flock <- tn_flock, fd <- tn_fd, pc <- tn_pc,
    pid <- tn_pid, sock <- tn_sock, ssh <- tn_ssh, sigterm <- tn_sigterm,
    stage <- tn_stage, target <- tn_target, yanked <- tn_yanked,
    ops <- tn_ops, faults <- tn_faults

\* What the theorems of TunnelProofs assume of the processes holds of these.
ASSUME TunnelProcesses == T!ProcessAssumption

VARIABLES mo_pc, mo_child, mo_uptime, mo_slept, mo_probe_failures, mo_backoff,
    mo_recent, mo_net_probe, mo_we_killed, mo_saw_unsatisfied, mo_sleep,
    mo_skip_wait, mo_backoff_saw, mo_sockfile, mo_kick, mo_net, mo_event,
    mo_remote, mo_due, mo_ticked, mo_owned, mo_faults, mo_streak, mo_ghosted

monitor == <<mo_pc, mo_child, mo_uptime, mo_slept, mo_probe_failures,
    mo_backoff, mo_recent, mo_net_probe, mo_we_killed, mo_saw_unsatisfied,
    mo_sleep, mo_skip_wait, mo_backoff_saw, mo_sockfile, mo_kick, mo_net,
    mo_event, mo_remote, mo_due, mo_ticked, mo_owned, mo_faults, mo_streak,
    mo_ghosted>>

M == INSTANCE TunnelMonitor WITH
    MaxBackoff <- 4, Strikes <- 2, MaxFaults <- 1,
    pc <- mo_pc, child <- mo_child, uptime <- mo_uptime, slept <- mo_slept,
    probe_failures <- mo_probe_failures, backoff <- mo_backoff,
    recent <- mo_recent, net_probe <- mo_net_probe, we_killed <- mo_we_killed,
    saw_unsatisfied <- mo_saw_unsatisfied, sleep <- mo_sleep,
    skip_wait <- mo_skip_wait, backoff_saw <- mo_backoff_saw,
    sockfile <- mo_sockfile, kick <- mo_kick, net <- mo_net,
    event <- mo_event, remote <- mo_remote, due <- mo_due,
    ticked <- mo_ticked, owned <- mo_owned, faults <- mo_faults,
    streak <- mo_streak, ghosted <- mo_ghosted

VARIABLES tr_pc, tr_pick, tr_cli, tr_written, tr_partial, tr_target, tr_quits,
    tr_sent, tr_events, tr_slot, tr_relay, tr_notify, tr_srv, tr_inbox

transfer == <<tr_pc, tr_pick, tr_cli, tr_written, tr_partial, tr_target,
    tr_quits, tr_sent, tr_events, tr_slot, tr_relay, tr_notify, tr_srv,
    tr_inbox>>

X == INSTANCE Transfer WITH
    Sessions <- {1}, Senders <- Senders, Receivers <- Receivers, Size <- 1,
    MaxQuits <- 0,
    pc <- tr_pc, pick <- tr_pick, cli <- tr_cli, written <- tr_written,
    partial <- tr_partial, target <- tr_target, quits <- tr_quits,
    sent <- tr_sent, events <- tr_events, slot <- tr_slot, relay <- tr_relay,
    notify <- tr_notify, srv <- tr_srv, inbox <- tr_inbox

VARIABLES rc_tail, rc_is_remote, rc_pc, rc_why, rc_backoff, rc_left,
    rc_elapsed, rc_was_offline, rc_socket_gone, rc_daemon_gone,
    rc_chrome_shown, rc_sup, rc_dirty, rc_spent, rc_file, rc_server, rc_lock,
    rc_session, rc_net, rc_event, rc_faults, rc_dead, rc_deaths

reconnect == <<rc_tail, rc_is_remote, rc_pc, rc_why, rc_backoff, rc_left,
    rc_elapsed, rc_was_offline, rc_socket_gone, rc_daemon_gone,
    rc_chrome_shown, rc_sup, rc_dirty, rc_spent, rc_file, rc_server, rc_lock,
    rc_session, rc_net, rc_event, rc_faults, rc_dead, rc_deaths>>

R == INSTANCE ClientReconnect WITH
    BackoffMax <- 2, SocketGrace <- 2, DaemonGrace <- 2, AttemptTimeout <- 2,
    MaxFaults <- 2,
    tail <- rc_tail, is_remote <- rc_is_remote, pc <- rc_pc, why <- rc_why,
    backoff <- rc_backoff, left <- rc_left, elapsed <- rc_elapsed,
    was_offline <- rc_was_offline, socket_gone <- rc_socket_gone,
    daemon_gone <- rc_daemon_gone, chrome_shown <- rc_chrome_shown,
    sup <- rc_sup, dirty <- rc_dirty, spent <- rc_spent, file <- rc_file,
    server <- rc_server, lock <- rc_lock, session <- rc_session,
    net <- rc_net, event <- rc_event, faults <- rc_faults, dead <- rc_dead,
    deaths <- rc_deaths

VARIABLES sv_kind, sv_req, sv_answer, sv_phase, sv_owner, sv_link, sv_caps,
    sv_negotiated_caps, sv_open_forward_enabled, sv_open_event,
    sv_clipboard_event, sv_pending_paste, sv_paste_deadline, sv_to_client,
    sv_from_client, sv_used, sv_done, sv_attaches

services == <<sv_kind, sv_req, sv_answer, sv_phase, sv_owner, sv_link,
    sv_caps, sv_negotiated_caps, sv_open_forward_enabled, sv_open_event,
    sv_clipboard_event, sv_pending_paste, sv_paste_deadline, sv_to_client,
    sv_from_client, sv_used, sv_done, sv_attaches>>

V == INSTANCE ServicesInv WITH
    Tools <- {s1, s2}, Clients <- {r1, r2}, None <- None, MaxCount <- 1,
    MaxAttaches <- 2,
    kind <- sv_kind, req <- sv_req, answer <- sv_answer, phase <- sv_phase,
    owner <- sv_owner, link <- sv_link, caps <- sv_caps,
    negotiated_caps <- sv_negotiated_caps,
    open_forward_enabled <- sv_open_forward_enabled,
    open_event <- sv_open_event, clipboard_event <- sv_clipboard_event,
    pending_paste <- sv_pending_paste, paste_deadline <- sv_paste_deadline,
    to_client <- sv_to_client, from_client <- sv_from_client, used <- sv_used,
    done <- sv_done, attaches <- sv_attaches

\* What the theorems about Services assume of its constants holds of these.
ASSUME ServicesNames == V!ServicesAssumption

\* What the theorems of RegistryProofs assume of names and bounds holds of these.
ASSUME RegistryNames == RegistryAssumption

-----------------------------------------------------------------------------

AroundInit ==
    /\ part \in {"linger", "tunnel", "monitor", "transfer", "reconnect",
                 "services"}
    /\ Init /\ T!Init /\ M!Init /\ X!Init /\ R!Init /\ V!Init
    (* an idle part has one initial state *)
    /\ part # "reconnect" => rc_tail /\ rc_is_remote
    /\ part # "services" => sv_caps = {r1}

AroundNext ==
    /\ part' = part
    /\ \/ part = "tunnel" /\ T!Next
          /\ UNCHANGED <<monitor, transfer, reconnect, vars, services>>
       \/ part = "monitor" /\ M!Next
          /\ UNCHANGED <<tunnel, transfer, reconnect, vars, services>>
       \/ part = "transfer" /\ X!Next
          /\ UNCHANGED <<tunnel, monitor, reconnect, vars, services>>
       \/ part = "reconnect" /\ R!Next
          /\ UNCHANGED <<tunnel, monitor, transfer, vars, services>>
       \/ part = "linger" /\ Next
          /\ UNCHANGED <<tunnel, monitor, transfer, reconnect, services>>
       \/ part = "services" /\ V!Next
          /\ UNCHANGED <<tunnel, monitor, transfer, reconnect, vars>>

aroundVars == <<part, tunnel, monitor, transfer, reconnect, vars, services>>

AroundSpec == AroundInit /\ [][AroundNext]_aroundVars

-----------------------------------------------------------------------------
(* The Fairness of each part, asked of the behaviours of that part: what is  *)
(* guarded by the part is never enabled in those of another one.             *)

TunnelFair ==
    /\ \A p \in Sups :
        /\ WF_tunnel(part = "tunnel" /\ T!SupStep(p))
        /\ WF_tunnel(part = "tunnel" /\ T!SshBinds(p))
        /\ WF_tunnel(part = "tunnel" /\ T!OrphanSshEnds(p))
        /\ SF_tunnel(part = "tunnel" /\ T!TakeSigterm(p))
    /\ WF_tunnel(part = "tunnel" /\ T!ToolStep(tool))
    /\ SF_tunnel(part = "tunnel" /\ T!Deadline(tool))

MonitorFair ==
    /\ WF_monitor(part = "monitor" /\ M!LoopStep)
    /\ WF_monitor(part = "monitor" /\ M!RespawnStep)
    /\ WF_monitor(part = "monitor" /\ M!Interval)
    /\ WF_monitor(part = "monitor" /\ M!SshBinds)
    /\ WF_monitor(part = "monitor" /\ M!Recover)

TransferFair ==
    /\ \A x \in Senders \cup Receivers :
        WF_transfer(part = "transfer" /\ X!PeerStep(x))
    /\ WF_transfer(part = "transfer" /\ X!SessionStep(1))
    /\ \A s \in Senders, r \in Receivers :
        WF_transfer(part = "transfer" /\ X!RelayStep(s, r, 1))

ReconnectFair ==
    /\ WF_reconnect(part = "reconnect" /\ R!ClientStep)
    /\ SF_reconnect(part = "reconnect" /\ R!WakeNet)
    /\ WF_reconnect(part = "reconnect" /\ R!TailStep)
    /\ SF_reconnect(part = "reconnect" /\ R!TailWake)
    /\ SF_reconnect(part = "reconnect" /\ R!Tick)
    /\ WF_reconnect(part = "reconnect" /\ R!Heal)

RegistryFair ==
    /\ WF_vars(part = "linger" /\ Tick)
    /\ WF_vars(part = "linger" /\ LoopStep)
    /\ \A i \in Ids : WF_vars(part = "linger" /\ TaskStep(i))

ServicesFair ==
    /\ WF_services(part = "services" /\ V!HandleOpenEvent)
    /\ WF_services(part = "services" /\ V!HandleClipboardEvent)
    /\ WF_services(part = "services" /\ V!PasteDeadline)
    /\ WF_services(part = "services" /\ V!ClientGone)

-----------------------------------------------------------------------------
(* Properties.  NoGhostSession, ReconnectsHome and LingerKept are in        *)
(* Registry.                                                               *)

\* Every variable of every part keeps its type; the registry, the tunnel and the
\* services, their inductive invariants.
TypesOK ==
    CASE part = "tunnel" -> T!IInv
      [] part = "monitor" -> M!TypeOK
      [] part = "transfer" -> X!TypeOK
      [] part = "reconnect" -> R!TypeOK
      [] part = "linger" -> IInv
      [] part = "services" -> V!IInv

\* A supervisor that ends never unlinks the lock file of another one, as long as
\* no cleanup has unlinked what it had not locked (the guards of connect.rs).
DropKeepsOwner == T!DropKeepsOwner

\* Supervisors that lost the lock leave, and the one that has it is reachable,
\* whatever came before (lock_still_owned, ensure_socket_file).
Heals == part = "tunnel" => (TunnelFair => T!Heals)

\* tunnel-destroy ends the supervisor it read the pid of, hung or not, unless that
\* one hangs on a lock file that is no longer at the path (disconnect).
DestroyStops == part = "tunnel" => (TunnelFair => T!DestroyStops)

\* A supervisor that is not stopped and keeps its lock gets its tunnel back
\* (monitor_loop).
Reconnects == part = "monitor" => (MonitorFair => M!Reconnects)

\* A sender and a receiver that were paired complete unless one is stopped,
\* whatever earlier and later transfers do (TransferState).
PairedCompletes == part = "transfer" => (TransferFair => X!PairedCompletes)

\* A disconnected client attaches again or ends (the reconnect loop of run).
Settles == part = "reconnect" => (ReconnectFair => R!Settles)

\* A session nobody comes back to is reaped (reap_lingering, reap_sessions).
IdleReaped == part = "linger" => (RegistryFair => EventuallyReaped)

\* Every request of a program in the session is answered, and nothing it was
\* told to have failed is done after all (open, copy and paste of server.rs).
AnsweredTruly == part = "services" => (ServicesFair => V!AnsweredTruly)
=============================================================================
