------------------------------ MODULE MCDaemon ------------------------------
(***************************************************************************)
(* Small instances of the daemon's parts: its control socket, with the     *)
(* bounds of the .cfg and once more with a daemon that is told to stop;    *)
(* its session registry, for the names (MCAround has it for the reapers);  *)
(* gritty refresh; the forwards; and the stream of one session, whose      *)
(* safety has a run of its own.  A behaviour is one of one part; the       *)
(* others stay as they were, and a part's promises hold under its own      *)
(* fairness.                                                               *)
(***************************************************************************)
EXTENDS ControlSocketInv

CONSTANTS d1, d2, d3, alice, bob, web, NoName, NoClient, Dash, None

\* Two machines.
Devices == [c \in {alice, bob} |-> c]

VARIABLE part   \* whose behaviour this is

VARIABLES ho_sock, ho_lock, ho_pid, ho_nsock, ho_nlock, ho_pc, ho_recovering,
    ho_bound, ho_listening, ho_ident, ho_lockFd, ho_locked, ho_gaveUp,
    ho_wipes, ho_crashes, ho_stops

handover == <<ho_sock, ho_lock, ho_pid, ho_nsock, ho_nlock, ho_pc,
    ho_recovering, ho_bound, ho_listening, ho_ident, ho_lockFd, ho_locked,
    ho_gaveUp, ho_wipes, ho_crashes, ho_stops>>

H == INSTANCE ControlSocketInv WITH
    Daemons <- Daemons, Wipeable <- {}, WipeInBind <- FALSE, MaxWipes <- 0,
    MaxCrashes <- 1, MaxStops <- 1,
    sock <- ho_sock, lock <- ho_lock, pid <- ho_pid, nsock <- ho_nsock,
    nlock <- ho_nlock, pc <- ho_pc, recovering <- ho_recovering,
    bound <- ho_bound, listening <- ho_listening, ident <- ho_ident,
    lockFd <- ho_lockFd, locked <- ho_locked, gaveUp <- ho_gaveUp,
    wipes <- ho_wipes, crashes <- ho_crashes, stops <- ho_stops

VARIABLES na_server_id, na_sessions, na_next_id, na_last_attached, na_loop,
    na_op, na_todo, na_reading, na_expired, na_client, na_home

names == <<na_server_id, na_sessions, na_next_id, na_last_attached, na_loop,
    na_op, na_todo, na_reading, na_expired, na_client, na_home>>

N == INSTANCE RegistryInv WITH
    Clients <- {alice}, Names <- {web}, Lingers <- {0}, MaxAge <- 0,
    MaxIds <- 2, MaxRestarts <- 1, MaxQueue <- 1, NoName <- NoName,
    NoClient <- NoClient, Dash <- Dash,
    server_id <- na_server_id, sessions <- na_sessions, next_id <- na_next_id,
    last_attached <- na_last_attached, loop <- na_loop, op <- na_op,
    todo <- na_todo, reading <- na_reading, expired <- na_expired,
    client <- na_client, home <- na_home

\* What the theorems of RegistryProofs assume of names and bounds holds of these.
ASSUME RegistryNames == N!RegistryAssumption

VARIABLES or_binary, or_state, or_due, or_sock, or_pid, or_info, or_refresh,
    or_yes, or_suspects, or_wait, or_seen, or_wipes, or_refreshes

orphans == <<or_binary, or_state, or_due, or_sock, or_pid, or_info,
    or_refresh, or_yes, or_suspects, or_wait, or_seen, or_wipes,
    or_refreshes>>

O == INSTANCE OrphansInv WITH
    Daemons <- 1..2, None <- None, CheckInterval <- 3, Lateness <- 1,
    MaxWipes <- 2, MaxRefreshes <- 1,
    binary <- or_binary, state <- or_state, due <- or_due, sock <- or_sock,
    pid <- or_pid, info <- or_info, refresh <- or_refresh, yes <- or_yes,
    suspects <- or_suspects, wait <- or_wait, seen <- or_seen,
    wipes <- or_wipes, refreshes <- or_refreshes

\* So does what ControlSocketProofs assumes of times and bounds for Orphans.
ASSUME RefreshTimes == O!LatenessAssumption

VARIABLES fw_svc, fw_up, fw_relay, fw_used, fw_registered, fw_kept, fw_next,
    fw_cid, fw_born, fw_chan, fw_sock, fw_said, fw_got, fw_ev, fw_wire,
    fw_faults

forwarding == <<fw_svc, fw_up, fw_relay, fw_used, fw_registered, fw_kept,
    fw_next, fw_cid, fw_born, fw_chan, fw_sock, fw_said, fw_got, fw_ev,
    fw_wire, fw_faults>>

F == INSTANCE Forwarding WITH
    MaxConns <- 1, MaxData <- 1, MaxRelays <- 2, MaxFaults <- 1,
    svc <- fw_svc, up <- fw_up, relay <- fw_relay, used <- fw_used,
    registered <- fw_registered, kept <- fw_kept, next <- fw_next,
    cid <- fw_cid, born <- fw_born, chan <- fw_chan, sock <- fw_sock,
    said <- fw_said, got <- fw_got, ev <- fw_ev, wire <- fw_wire,
    faults <- fw_faults

VARIABLES st_total, st_base, st_starts, st_fin, st_alt, st_phase, st_replay,
    st_framed, st_client_rx, st_attached, st_owner, st_client, st_connOf,
    st_rendered, st_wire, st_link, st_nconns, st_faults, st_cursor, st_lost,
    st_interrupted, st_holder

stream == <<st_total, st_base, st_starts, st_fin, st_alt, st_phase, st_replay,
    st_framed, st_client_rx, st_attached, st_owner, st_client, st_connOf,
    st_rendered, st_wire, st_link, st_nconns, st_faults, st_cursor, st_lost,
    st_interrupted, st_holder>>

V == INSTANCE SessionStreamInv WITH
    Clients <- {alice, bob}, Creator <- alice, Device <- Devices, Cap <- 1,
    Chunks <- {1}, MaxTotal <- 2, MaxConns <- 4, MaxFaults <- 1,
    total <- st_total, base <- st_base, starts <- st_starts, fin <- st_fin,
    alt <- st_alt, phase <- st_phase, replay <- st_replay,
    framed <- st_framed, client_rx <- st_client_rx, attached <- st_attached,
    owner <- st_owner, client <- st_client, connOf <- st_connOf,
    rendered <- st_rendered, wire <- st_wire, link <- st_link,
    nconns <- st_nconns, faults <- st_faults, cursor <- st_cursor,
    lost <- st_lost, interrupted <- st_interrupted, holder <- st_holder

-----------------------------------------------------------------------------

DaemonInit ==
    /\ part \in {"socket", "handover", "names", "orphans", "forwarding", "stream"}
    /\ Init /\ H!Init /\ N!Init /\ O!Init /\ F!Init /\ V!Init
    (* the first daemon that refresh meets is the first; an idle part has one state *)
    /\ or_sock = 1 /\ (part # "orphans" => or_info = "new")
    /\ part # "forwarding" => fw_svc = "lf"

DaemonNext ==
    /\ part' = part
    /\ \/ part = "socket" /\ Next
          /\ UNCHANGED <<handover, names, orphans, forwarding, stream>>
       \/ part = "handover" /\ H!Next
          /\ UNCHANGED <<vars, names, orphans, forwarding, stream>>
       \/ part = "names" /\ N!Next
          /\ UNCHANGED <<vars, handover, orphans, forwarding, stream>>
       \/ part = "orphans" /\ O!Next
          /\ UNCHANGED <<vars, handover, names, forwarding, stream>>
       \/ part = "forwarding" /\ F!Next
          /\ UNCHANGED <<vars, handover, names, orphans, stream>>
       \/ part = "stream" /\ V!Next
          /\ UNCHANGED <<vars, handover, names, orphans, forwarding>>

daemonVars == <<part, vars, handover, names, orphans, forwarding, stream>>

DaemonSpec == DaemonInit /\ [][DaemonNext]_daemonVars

-----------------------------------------------------------------------------
(* The Fairness of each part, asked of the behaviours of that part: what is  *)
(* guarded by the part is never enabled in those of another one.             *)

SocketFair == \A d \in Daemons : WF_vars(part = "socket" /\ DaemonStep(d))

ForwardingFair ==
    \A e \in F!Ends :
        /\ WF_forwarding(part = "forwarding" /\ F!EventStep(e))
        /\ WF_forwarding(part = "forwarding" /\ F!FrameStep(e))

StreamFair ==
    /\ WF_stream(part = "stream" /\ V!SessionStep)
    /\ \A c \in {alice, bob} : WF_stream(part = "stream" /\ V!ClientStep(c))

-----------------------------------------------------------------------------
(* Properties.  BindSerialized and BindKeepsLiveSocket are in ControlSocket. *)

\* Every variable of every part keeps its type; the sockets, the registry,
\* refresh and the stream, their inductive invariants.
TypesOK ==
    CASE part = "socket" -> PathsInv
      [] part = "handover" -> H!StopInv
      [] part = "names" -> N!IInv
      [] part = "orphans" -> O!IInv
      [] part = "forwarding" -> F!TypeOK
      [] part = "stream" -> V!IInv /\ V!UnbrokenInv

\* A daemon gives up only to another one that listens, and once cleanup and
\* crashes have ended, every daemon that still runs is at the socket and
\* registered: at most one (check_socket, ensure_registration).
OneDaemonStays == GivesUpToAnother /\ (part = "socket" => (SocketFair => NoOrphans))

\* A daemon that stops removes no socket of another one, although it unlinks the
\* path without looking (shutdown): the daemons bind one after the other.
StopSparesOthers == H!StopKeepsOthersSocket

\* refresh reaps no daemon that has not had the time to heal itself
\* (confirm_and_reap).
SparesHealing == O!SparesHealing

\* Forwarded bytes arrive, and a channel that one end has closed leaves the
\* tables of both (handle_tunnel_event, handle_client_frame).
ChannelsFinish ==
    part = "forwarding" => (ForwardingFair => F!BytesArrive /\ F!ClosesBoth)

\* A client that stays connected ends up with everything the shell wrote
\* (the relay and the replay of server.rs).
Converges == part = "stream" => (StreamFair => V!Converges)
=============================================================================
