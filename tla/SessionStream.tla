--------------------------- MODULE SessionStream ---------------------------
(***************************************************************************)
(* One gritty session and the clients that attach to it: the session task  *)
(* of server.rs (PTY output, the History ring, the replay a reconnecting   *)
(* client gets, takeover), the part of daemon.rs that grants an Attach and *)
(* hands the connection to the task, and the part of client.rs that counts *)
(* rendered bytes and reconnects.  Links fail at any point.                *)
(*                                                                         *)
(* A frame that carries PTY bytes records which ones (lo .. hi-1), and     *)
(* every frame records where the server takes the client to be after it    *)
(* (at).  The wire carries neither: the client sees the length of a Data   *)
(* and the offset of a Resume, and counts for itself.                      *)
(*   Data    live output, counted by the client                            *)
(*   Resume  the client's new offset hi; lo < hi when the plan gives up on *)
(*           the bytes lo .. hi-1 (a TUI repaint, a fresh viewer)          *)
(*   Replay  a Notice with a chunk of history: shown, not counted          *)
(*   Marker  the Notice that says lo .. hi-1 were lost while disconnected  *)
(*   Detached, Exit, ServerShutdown                                        *)
(***************************************************************************)
EXTENDS Integers, Sequences

CONSTANTS
    Clients,    \* client processes; each runs one `gritty connect`
    Creator,    \* the client whose NewSession created the session
    Device,     \* Device[c]: the device_id of the machine c runs on
    Cap,        \* History.cap, the configured ring size in bytes
    Chunks,     \* sizes a PTY read can return
    MaxTotal,   \* bound: PTY bytes produced
    MaxConns,   \* bound: connections made
    MaxFaults   \* bound: failures of links and stalls of peers

ASSUME ClientsAssumption == Creator \in Clients
ASSUME DeviceAssumption == DOMAIN Device = Clients
ASSUME CapAssumption == Cap \in Nat \ {0}
ASSUME ChunksAssumption == Chunks \subseteq Nat \ {0}
ASSUME BoundsAssumption ==
    MaxTotal \in Nat /\ MaxConns \in Nat \ {0} /\ MaxFaults \in Nat

Conns == 1..MaxConns
NoConn == 0

VARIABLES
    (* server.rs: the session task *)
    total,      \* History.total_out
    base,       \* History::base(), the oldest retained byte
    starts,     \* where the retained chunks start
    fin,        \* bytes drain_pty_final sent after the shell exited
    alt,        \* AltScreenTracker::in_alternate_screen
    phase,      \* where the task is: birth, attached, replay, detached, ended
    replay,     \* progress of send_reconnect_replay
    framed,     \* the connection the task serves, or last served
    (* shared between the daemon and the session task *)
    client_rx,  \* connections handed over and not yet taken
    attached,   \* SessionMetadata.attached
    owner,      \* SessionMetadata.owner_device_id
    (* client.rs *)
    client,     \* new, live (in relay), down (reconnecting), gone (exited)
    connOf,     \* the connection a live client reads from
    rendered,   \* rendered_offset
    (* the network *)
    wire,       \* frames on their way to the client
    link,       \* unused, up, cut, closed (by the server), left (by the client)
    nconns, faults,
    (* history variables: they record, nothing reads them *)
    cursor,      \* cursor[c]: first byte c was not taken through
    lost,        \* lost[c]: bytes c passed over unshown and untold
    interrupted, \* interrupted[c]: a replay to c was cut short
    holder       \* the client whose Attach the daemon granted last

histVars   == <<total, base, starts>>
taskVars   == <<fin, alt, phase, replay, framed>>
serverVars == <<histVars, taskVars>>
sharedVars == <<client_rx, attached, owner>>
clientVars == <<client, connOf, rendered>>
netVars    == <<wire, link, nconns, faults>>
readVars   == <<cursor, lost, interrupted>>
vars == <<serverVars, sharedVars, clientVars, netVars, readVars, holder>>

Frame(kind, lo, hi, at) == [kind |-> kind, lo |-> lo, hi |-> hi, at |-> at]
FrameKinds == {"Data", "Resume", "Replay", "Marker", "Detached", "Exit", "ServerShutdown"}

HandoffWithoutOffset(k, c, fresh) ==
    [conn |-> k, client |-> c, offset |-> 0, fresh |-> fresh]

Handoff(k, c, fresh) ==
    [conn |-> k, client |-> c, offset |-> rendered[c], fresh |-> fresh]

NoReplay ==
    [plan |-> "None", stage |-> "done", from |-> 0, pos |-> 0, takeover |-> FALSE]

\* NewSession has been dispatched: the creator's connection waits in client_rx.
\* mark_attached_when_ready gives up after 3s, so attached may still be unset.
Init ==
    /\ total = 0 /\ base = 0 /\ starts = {} /\ fin = 0
    /\ alt = FALSE
    /\ phase = "birth"
    /\ replay = NoReplay
    /\ framed = NoConn
    /\ client_rx = <<[conn |-> 1, client |-> Creator, offset |-> 0, fresh |-> TRUE]>>
    /\ attached \in BOOLEAN
    /\ owner = Device[Creator]
    /\ client = [c \in Clients |-> IF c = Creator THEN "live" ELSE "new"]
    /\ connOf = [c \in Clients |-> IF c = Creator THEN 1 ELSE NoConn]
    /\ rendered = [c \in Clients |-> 0]
    /\ wire = [k \in Conns |-> <<>>]
    /\ link = [k \in Conns |-> IF k = 1 THEN "up" ELSE "unused"]
    /\ nconns = 1
    /\ faults = 0
    /\ cursor = [c \in Clients |-> 0]
    /\ lost = [c \in Clients |-> {}]
    /\ interrupted = [c \in Clients |-> FALSE]
    /\ holder = Creator

-----------------------------------------------------------------------------
(* History and the replay plan *)

PushEvictingEarly(n) ==
    LET all == starts \cup {total}
        top == total + n
    IN  /\ top <= MaxTotal
        /\ total' = top
        /\ \E b \in all \cup {top} :
              /\ top - b < Cap
              /\ \A s \in all : s < b => top - s >= Cap
              /\ base' = b
              /\ starts' = {s \in all : s >= b}

\* History::push of an n-byte chunk: evict whole chunks from the front, as few
\* as bring the size down to Cap (all of them when the chunk exceeds Cap).
Push(n) ==
    LET all == starts \cup {total}
        top == total + n
    IN  /\ top <= MaxTotal
        /\ total' = top
        /\ \E b \in all \cup {top} :
              /\ top - b <= Cap
              /\ \A s \in all : s < b => top - s > Cap
              /\ base' = b
              /\ starts' = {s \in all : s >= b}

plan_replay(rendered_offset, is_fresh) ==
    IF alt THEN "AltRedraw"
    ELSE IF is_fresh \/ rendered_offset > total THEN "Fresh"
    ELSE IF rendered_offset < base THEN "Truncated"
    ELSE "Clean"

\* The end of the retained chunk that byte p belongs to: slice_from clips the
\* first chunk to start at p and takes the others whole.
ChunkEnd(p, e) ==
    /\ e \in starts \cup {total}
    /\ p < e
    /\ \A s \in starts : s > p => e <= s

-----------------------------------------------------------------------------
(* The network *)

\* A frame written to a connection that is no longer up is accepted by some
\* buffer on the way and never arrives.
Send(k, f) ==
    wire' = IF link[k] = "up" THEN [wire EXCEPT ![k] = Append(@, f)] ELSE wire

SendAll(k, fs) ==
    wire' = IF link[k] = "up" THEN [wire EXCEPT ![k] = @ \o fs] ELSE wire

\* Dropping a Framed closes the socket; what was flushed is still delivered.
Dropped(ks) ==
    [k \in Conns |-> IF k \in ks /\ link[k] = "up" THEN "closed" ELSE link[k]]

Fault == faults < MaxFaults /\ faults' = faults + 1

\* The network loses a connection and everything in flight on it.
Cut(k) ==
    /\ link[k] \in {"up", "closed"}
    /\ Fault
    /\ link' = [link EXCEPT ![k] = "cut"]
    /\ wire' = [wire EXCEPT ![k] = <<>>]
    /\ UNCHANGED <<serverVars, sharedVars, clientVars, nconns, readVars, holder>>

-----------------------------------------------------------------------------
(* daemon.rs: dispatch_control, Frame::Attach *)

\* A claim to resume (claim_ownership) always forces, and needs the owner's
\* device_id; any other Attach needs force while the session is attached.
MayAttachAnyDevice(c, force) ==
    /\ client[c] = "new" \/ force
    /\ force \/ ~attached

MayAttach(c, force) ==
    /\ client[c] = "new" \/ (force /\ Device[c] = owner)
    /\ force \/ ~attached

\* The daemon grants client c's Attach.  An explicit connect (a new client,
\* attach_token 0) is a fresh viewer, an auto-reconnect claims ownership.  acked
\* says whether the AttachAck that was written to the socket reaches the client:
\* the daemon cannot tell.
Attach(c, force, acked) ==
    LET fresh == client[c] = "new"
        k == nconns + 1
    IN  /\ client[c] \in {"new", "down"}
        /\ phase # "ended"
        /\ k \in Conns
        /\ MayAttach(c, force)
        /\ nconns' = k
        /\ client_rx' = Append(client_rx, Handoff(k, c, fresh))
        /\ attached' = TRUE
        /\ owner' = Device[c]
        /\ holder' = c
        /\ link' = [link EXCEPT ![k] = IF acked THEN "up" ELSE "cut"]
        /\ \/ acked /\ UNCHANGED faults
           \/ ~acked /\ Fault
        /\ client' = [client EXCEPT ![c] = IF acked THEN "live" ELSE @]
        /\ connOf' = [connOf EXCEPT ![c] = IF acked THEN k ELSE @]
        /\ UNCHANGED <<serverVars, rendered, wire, readVars>>

\* OwnerChanged or NoSuchSession: a reconnecting client exits.
AttachRefused(c) ==
    /\ client[c] = "down"
    /\ phase = "ended" \/ Device[c] # owner
    /\ client' = [client EXCEPT ![c] = "gone"]
    /\ UNCHANGED <<serverVars, sharedVars, connOf, rendered, netVars, readVars, holder>>

-----------------------------------------------------------------------------
(* server.rs: the session task *)

\* The task learns of the failure when it reads or writes a dead connection.
Dead(k) == link[k] \in {"cut", "left"}

MarkDetached == attached' = FALSE /\ phase' = "detached"

\* The first Active client: no replay.  Its Env frame, or the lack of it after
\* 2s, only decides the shell's environment.
FirstClient ==
    /\ phase = "birth"
    /\ client_rx # <<>>
    /\ framed' = Head(client_rx).conn
    /\ client_rx' = Tail(client_rx)
    /\ attached' = TRUE
    /\ phase' = "attached"
    /\ UNCHANGED <<histVars, fin, alt, replay, owner, clientVars, netVars, readVars, holder>>

\* The first byte a replay sends: the oldest retained one, if the client missed
\* some that are gone.
ReplayStartAtBase(plan, offset) == base

ReplayStart(plan, offset) == IF plan = "Truncated" THEN base ELSE offset

\* send_reconnect_replay starts for the connection of hand-off h.
BeginReplay(h, takeover) ==
    LET plan == plan_replay(h.offset, h.fresh)
    IN  /\ framed' = h.conn
        /\ phase' = "replay"
        /\ replay' = [plan |-> plan, stage |-> "resume", from |-> h.offset,
                      pos |-> ReplayStart(plan, h.offset),
                      takeover |-> takeover]

TakeClientUnmarked ==
    /\ phase = "detached"
    /\ client_rx # <<>>
    /\ BeginReplay(Head(client_rx), FALSE)
    /\ client_rx' = Tail(client_rx)
    /\ link' = Dropped({framed})
    /\ UNCHANGED <<histVars, fin, alt, attached, owner, clientVars, wire, nconns, faults,
                   readVars, holder>>

\* Detached drain: take the next client; the old Framed is dropped.
TakeClient ==
    /\ phase = "detached"
    /\ client_rx # <<>>
    /\ BeginReplay(Head(client_rx), FALSE)
    /\ client_rx' = Tail(client_rx)
    /\ attached' = TRUE
    /\ link' = Dropped({framed})
    /\ UNCHANGED <<histVars, fin, alt, owner, clientVars, wire, nconns, faults, readVars, holder>>

\* Attached relay: a new client displaces the one being served, which is told
\* Detached before its Framed is dropped.  told is FALSE when that send stalls.
Takeover(told) ==
    /\ phase = "attached"
    /\ client_rx # <<>>
    /\ \/ told /\ Send(framed, Frame("Detached", 0, 0, total)) /\ UNCHANGED faults
       \/ ~told /\ Fault /\ UNCHANGED wire
    /\ BeginReplay(Head(client_rx), TRUE)
    /\ client_rx' = Tail(client_rx)
    /\ link' = Dropped({framed})
    /\ UNCHANGED <<histVars, fin, alt, attached, owner, clientVars, nconns, readVars, holder>>

\* What a replay does after its Resume.
AfterResumeNoMarker(plan) ==
    CASE plan = "AltRedraw" -> "redraw"
      [] plan = "Fresh"     -> "done"
      [] OTHER              -> "chunks"

AfterResume(plan) ==
    CASE plan = "AltRedraw" -> "redraw"
      [] plan = "Fresh"     -> "done"
      [] plan = "Truncated" -> "marker"
      [] OTHER              -> "chunks"

\* Resume first: a Clean or Truncated replay counts the whole backlog as
\* rendered before any of it is sent.
SendResume ==
    LET skipped == IF replay.from <= total THEN replay.from ELSE total
        written == IF replay.plan \in {"AltRedraw", "Fresh"} THEN skipped ELSE total
    IN  /\ phase = "replay" /\ replay.stage = "resume"
        /\ Send(framed, Frame("Resume", written, total, total))
        /\ replay' = [replay EXCEPT !.stage = AfterResume(replay.plan)]
        /\ UNCHANGED <<histVars, fin, alt, phase, framed, sharedVars, clientVars,
                       link, nconns, faults, readVars, holder>>

\* "... lost while disconnected"
SendMarker ==
    /\ phase = "replay" /\ replay.stage = "marker"
    /\ Send(framed, Frame("Marker", replay.from, replay.pos, total))
    /\ replay' = [replay EXCEPT !.stage = "chunks"]
    /\ UNCHANGED <<histVars, fin, alt, phase, framed, sharedVars, clientVars,
                   link, nconns, faults, readVars, holder>>

\* send_scrubbed: one retained chunk, its terminal queries stripped.
SendChunk ==
    /\ phase = "replay" /\ replay.stage = "chunks"
    /\ \E e \in starts \cup {total} :
          /\ ChunkEnd(replay.pos, e)
          /\ Send(framed, Frame("Replay", replay.pos, e, total))
          /\ replay' = [replay EXCEPT !.pos = e]
    /\ UNCHANGED <<histVars, fin, alt, phase, framed, sharedVars, clientVars,
                   link, nconns, faults, readVars, holder>>

\* force_tui_redraw: PTY output read while the TUI repaints goes to history and
\* to the client as Data.
RedrawOutput(n, screen) ==
    /\ phase = "replay" /\ replay.stage = "redraw"
    /\ Push(n)
    /\ alt' = screen
    /\ Send(framed, Frame("Data", total, total + n, total + n))
    /\ UNCHANGED <<fin, phase, replay, framed, sharedVars, clientVars,
                   link, nconns, faults, readVars, holder>>

ReplayDone ==
    /\ phase = "replay"
    /\ replay.stage \in {"done", "redraw"} \/ (replay.stage = "chunks" /\ replay.pos = total)
    /\ phase' = "attached"
    /\ replay' = NoReplay
    /\ UNCHANGED <<histVars, fin, alt, framed, sharedVars, clientVars, netVars, readVars, holder>>

\* A send of the replay fails, or stalls for CLIENT_SEND_TIMEOUT.  From the
\* drain loop the task detaches; after a takeover the error is ignored and the
\* relay goes on with the rest of the replay unsent.  A frame that stalled stays
\* in the codec's buffer, ahead of whatever the relay sends next: the failure
\* after a takeover comes after at least the Resume.
ReplayFails ==
    /\ phase = "replay"
    /\ \/ Dead(framed) /\ UNCHANGED faults
       \/ ~Dead(framed) /\ Fault /\ (replay.takeover => replay.stage # "resume")
    /\ replay' = NoReplay
    /\ IF replay.takeover
       THEN phase' = "attached" /\ UNCHANGED attached
       ELSE MarkDetached
    /\ interrupted' = [c \in Clients |-> interrupted[c] \/ connOf[c] = framed]
    /\ UNCHANGED <<histVars, fin, alt, framed, client_rx, owner, clientVars,
                   wire, link, nconns, cursor, lost, holder>>

\* Attached relay: PTY output goes to history, then to the client as Data.
PtyOutput(n, screen) ==
    /\ phase = "attached"
    /\ Push(n)
    /\ alt' = screen
    /\ Send(framed, Frame("Data", total, total + n, total + n))
    /\ UNCHANGED <<fin, phase, replay, framed, sharedVars, clientVars,
                   link, nconns, faults, readVars, holder>>

\* The same, when the Data send fails or stalls: in history, not delivered.
PtyOutputUnsent(n, screen) ==
    /\ phase = "attached"
    /\ Push(n)
    /\ alt' = screen
    /\ \/ Dead(framed) /\ UNCHANGED faults
       \/ ~Dead(framed) /\ Fault
    /\ MarkDetached
    /\ UNCHANGED <<fin, replay, framed, client_rx, owner, clientVars, wire, link,
                   nconns, readVars, holder>>

\* Detached drain: PTY output goes to history only.
DetachedOutput(n, screen) ==
    /\ phase = "detached"
    /\ Push(n)
    /\ alt' = screen
    /\ UNCHANGED <<fin, phase, replay, framed, sharedVars, clientVars, netVars, readVars, holder>>

\* framed.next() yields None or an error.
ClientGone ==
    /\ phase = "attached"
    /\ Dead(framed)
    /\ MarkDetached
    /\ UNCHANGED <<histVars, fin, alt, replay, framed, client_rx, owner, clientVars,
                   netVars, readVars, holder>>

\* No frame from the client for IDLE_EVICT_TIMEOUT: the socket is closed.
IdleEvict ==
    /\ phase = "attached"
    /\ Fault
    /\ MarkDetached
    /\ link' = Dropped({framed})
    /\ UNCHANGED <<histVars, fin, alt, replay, framed, client_rx, owner, clientVars,
                   wire, nconns, readVars, holder>>

\* The task returns: client_rx and framed are dropped with it.
EndTask ==
    /\ phase' = "ended"
    /\ replay' = NoReplay
    /\ client_rx' = <<>>
    /\ link' = Dropped({framed} \cup {client_rx[i].conn : i \in DOMAIN client_rx})
    /\ UNCHANGED <<framed, owner, clientVars, nconns, faults, readVars, holder>>

\* The shell exits under an attached client: drain_pty_final sends the last n
\* bytes as Data without recording them in history, then Exit.
ShellExit(n) ==
    /\ phase = "attached"
    /\ total + n <= MaxTotal
    /\ fin' = n
    /\ SendAll(framed, IF n = 0 THEN <<Frame("Exit", 0, 0, total + n)>>
                       ELSE <<Frame("Data", total, total + n, total + n), Frame("Exit", 0, 0, total + n)>>)
    /\ EndTask
    /\ UNCHANGED <<histVars, alt, attached>>

\* The shell exits while detached (the chunks of drain_pty_final that go into
\* history first are DetachedOutput steps); or the daemon shuts down with nobody
\* to tell, or aborts the task (KillSession, the linger reaper).
EndUnattended ==
    /\ phase # "ended"
    /\ EndTask
    /\ UNCHANGED <<histVars, fin, alt, wire, attached>>

\* ClientConn::Shutdown with a client attached.
ShutdownAttached ==
    /\ phase = "attached"
    /\ Send(framed, Frame("ServerShutdown", 0, 0, total))
    /\ EndTask
    /\ UNCHANGED <<histVars, fin, alt, attached>>

-----------------------------------------------------------------------------
(* client.rs: relay and the reconnect loop *)

\* History variables: the terminal is taken through the bytes of frame f.
Reads(c, f) ==
    IF f.lo < f.hi
    THEN /\ cursor' = [cursor EXCEPT ![c] = f.hi]
         /\ lost' = [lost EXCEPT ![c] = @ \cup cursor[c]..(f.lo - 1)]
    ELSE UNCHANGED <<cursor, lost>>

CountedBackwards(c, f) ==
    CASE f.kind = "Data"   -> rendered[c] - (f.hi - f.lo)
      [] f.kind = "Resume" -> f.hi
      [] OTHER             -> rendered[c]

CountedWithNotices(c, f) ==
    CASE f.kind \in {"Data", "Replay"} -> rendered[c] + (f.hi - f.lo)
      [] f.kind = "Resume" -> f.hi
      [] OTHER             -> rendered[c]

CountedWithoutResume(c, f) ==
    CASE f.kind = "Data" -> rendered[c] + (f.hi - f.lo)
      [] OTHER           -> rendered[c]

\* rendered_offset after frame f: Data adds its length, Resume overrides,
\* Notices do not count.
Counted(c, f) ==
    CASE f.kind = "Data"   -> rendered[c] + (f.hi - f.lo)
      [] f.kind = "Resume" -> f.hi
      [] OTHER             -> rendered[c]

Goodbye == {"Detached", "Exit", "ServerShutdown"}

Receives(c) ==
    /\ connOf[c] # NoConn
    /\ link[connOf[c]] \in {"up", "closed"}
    /\ wire[connOf[c]] # <<>>

\* handle_server_frame, for the frames of the output stream.
RecvFrame(c) ==
    LET k == connOf[c]
        f == Head(wire[k])
    IN  /\ Receives(c)
        /\ f.kind \notin Goodbye
        /\ wire' = [wire EXCEPT ![k] = Tail(@)]
        /\ rendered' = [rendered EXCEPT ![c] = Counted(c, f)]
        /\ Reads(c, f)
        /\ UNCHANGED <<serverVars, sharedVars, client, connOf, link, nconns, faults,
                       interrupted, holder>>

\* Client c gives up its connection: it goes to reconnect or exits.
Leave(c, state) ==
    /\ client' = [client EXCEPT ![c] = state]
    /\ connOf' = [connOf EXCEPT ![c] = NoConn]
    /\ link' = [link EXCEPT ![connOf[c]] = IF @ = "up" THEN "left" ELSE @]
    /\ wire' = [wire EXCEPT ![connOf[c]] = <<>>]
    /\ interrupted' = [interrupted EXCEPT ![c] = @ \/ cursor[c] < rendered[c]]
    /\ UNCHANGED <<serverVars, sharedVars, rendered, nconns, cursor, lost, holder>>

\* Detached, Exit and ServerShutdown end the client.
RecvGoodbye(c) ==
    /\ Receives(c)
    /\ Head(wire[connOf[c]]).kind \in Goodbye
    /\ Leave(c, "gone")
    /\ UNCHANGED faults

\* End of stream, or an error on a dead link.
RecvEof(c) ==
    /\ client[c] = "live"
    /\ \/ link[connOf[c]] = "cut"
       \/ link[connOf[c]] = "closed" /\ wire[connOf[c]] = <<>>
    /\ Leave(c, "down")
    /\ UNCHANGED faults

\* The server holds the connection open without serving it.
Unserved(k) ==
    /\ link[k] = "up"
    /\ \A i \in DOMAIN client_rx : client_rx[i].conn # k
    /\ framed # k \/ phase = "detached"

LinkStaleIfDisplaced(c) ==
    /\ client[c] = "live"
    /\ Unserved(connOf[c]) /\ connOf[c] # framed
    /\ Leave(c, "down")
    /\ UNCHANGED faults

\* link_is_stale: nothing heard for the heartbeat timeout on a connection the
\* server does not serve.
LinkStale(c) ==
    /\ client[c] = "live"
    /\ Unserved(connOf[c])
    /\ Leave(c, "down")
    /\ UNCHANGED faults

\* The same on a connection that is served, or soon will be: something stalls.
LinkSilent(c) ==
    /\ client[c] = "live"
    /\ link[connOf[c]] = "up" /\ ~Unserved(connOf[c])
    /\ Fault
    /\ Leave(c, "down")

\* The user detaches, or interrupts the reconnect loop.
Quit(c) ==
    \/ client[c] = "live" /\ Leave(c, "gone") /\ UNCHANGED faults
    \/ /\ client[c] = "down"
       /\ client' = [client EXCEPT ![c] = "gone"]
       /\ UNCHANGED <<serverVars, sharedVars, connOf, rendered, netVars, readVars, holder>>

-----------------------------------------------------------------------------

\* What the session task does without being asked; PTY output and the end of
\* the session are the shell's and the daemon's choice.
SessionStep ==
    \/ FirstClient \/ TakeClient \/ Takeover(TRUE)
    \/ SendResume \/ SendMarker \/ SendChunk \/ ReplayDone
    \/ ClientGone

SessionInput ==
    \/ Takeover(FALSE) \/ ReplayFails \/ IdleEvict
    \/ \E n \in Chunks, screen \in BOOLEAN :
          RedrawOutput(n, screen) \/ PtyOutput(n, screen)
          \/ PtyOutputUnsent(n, screen) \/ DetachedOutput(n, screen)
    \/ \E n \in Chunks \cup {0} : ShellExit(n)
    \/ EndUnattended \/ ShutdownAttached

ClientStep(c) ==
    \/ RecvFrame(c) \/ RecvGoodbye(c) \/ RecvEof(c) \/ LinkStale(c)
    \/ client[c] = "down" /\ Attach(c, TRUE, TRUE)
    \/ AttachRefused(c)

Next ==
    \/ SessionStep
    \/ SessionInput
    \/ \E c \in Clients :
          \/ ClientStep(c)
          \/ \E force, acked \in BOOLEAN : Attach(c, force, acked)
          \/ LinkSilent(c)
          \/ Quit(c)
    \/ \E k \in Conns : Cut(k)

Spec == Init /\ [][Next]_vars

\* The task and every client keep running.  A stalled link is noticed by one
\* of the timeouts, a down client retries for as long as it runs.
Fairness == WF_vars(SessionStep) /\ \A c \in Clients : WF_vars(ClientStep(c))

FairSpec == Spec /\ Fairness

-----------------------------------------------------------------------------
(* Properties *)

FrameType == [kind : FrameKinds, lo : Nat, hi : Nat, at : Nat]

HistType ==
    total \in Nat /\ base \in Nat /\ starts \subseteq Nat

TaskType ==
    /\ fin \in Nat
    /\ alt \in BOOLEAN
    /\ phase \in {"birth", "attached", "replay", "detached", "ended"}
    /\ replay \in [plan : {"None", "AltRedraw", "Fresh", "Truncated", "Clean"},
                   stage : {"resume", "marker", "chunks", "redraw", "done"},
                   from : Nat, pos : Nat, takeover : BOOLEAN]
    /\ framed \in Conns \cup {NoConn}

HandoffType == [conn : Conns, client : Clients, offset : Nat, fresh : BOOLEAN]

SharedType ==
    /\ client_rx \in Seq(HandoffType)
    /\ attached \in BOOLEAN
    /\ \E c \in Clients : owner = Device[c]

ClientType ==
    /\ client \in [Clients -> {"new", "live", "down", "gone"}]
    /\ connOf \in [Clients -> Conns \cup {NoConn}]
    /\ rendered \in [Clients -> Nat]

NetType ==
    /\ wire \in [Conns -> Seq(FrameType)]
    /\ link \in [Conns -> {"unused", "up", "cut", "closed", "left"}]
    /\ nconns \in Conns
    /\ faults \in 0..MaxFaults

ReadType ==
    /\ cursor \in [Clients -> Nat]
    /\ lost \in [Clients -> SUBSET Nat]
    /\ interrupted \in [Clients -> BOOLEAN]
    /\ holder \in Clients

TypeOK ==
    HistType /\ TaskType /\ SharedType /\ ClientType /\ NetType /\ ReadType

\* The client's count of rendered bytes is the true position in the PTY stream
\* of the next byte it gets: whatever was replayed, skipped, cut or taken over,
\* when a live client is about to render a Data frame, rendered_offset is the
\* offset of that frame's first byte (client.rs counts, server.rs must send
\* exactly what it pushed to History, in order, after a correct Resume).
CountIsPosition ==
    \A c \in Clients :
        Receives(c) /\ Head(wire[connOf[c]]).kind = "Data"
            => rendered[c] = Head(wire[connOf[c]]).lo

\* No client is ever ahead of the stream while the session lives, so the
\* "nonsense offset" arm of plan_replay is never taken for a reconnect.
NeverAhead ==
    phase # "ended" => \A c \in Clients : rendered[c] <= total

\* A byte is lost to a running client only if a replay to it was cut short:
\* output lost in flight as Data, or produced while it was away, is always
\* replayed or declared lost.
LossOnlyFromCutReplay ==
    \A c \in Clients : lost[c] # {} => interrupted[c]

\* What the documents say: nothing is lost across a reconnect.
NoSilentLoss == \A c \in Clients : lost[c] = {}

\* After an outage the client's position is still in the ring unless it missed
\* more than Cap + 1 less one read: eviction takes whole chunks (one read each),
\* and never more than the overflow asks for.
ShortOutageResumes ==
    \A o \in 0..total :
        (\A n \in Chunks : total - o + n <= Cap + 1) => o >= base

\* While the task serves a client the session is marked attached: the linger
\* reaper and a plain connect both go by that flag.
ServedIsAttached == phase \in {"attached", "replay"} => attached

\* A claim to resume is honoured only for the client that held the session
\* last: a client that somebody took over from never gets it back by itself.
StaleClaimRejected ==
    [][holder' # holder => client[holder'] = "new"]_vars

\* Once links stop failing, every client still running is connected and has
\* been taken to the end of the stream.
Converges ==
    <>[](\A c \in Clients :
            client[c] \in {"live", "down"} =>
                /\ client[c] = "live"
                /\ wire[connOf[c]] = <<>>
                /\ rendered[c] = total)

Log == INSTANCE OutputLog WITH log <- total + fin

\* The session and its clients implement an append-only log with readers that
\* only move forward.
ImplementsOutputLog == Log!Spec
=============================================================================
