------------------------------- MODULE MCParts ------------------------------
(***************************************************************************)
(* Small instances of the parts at the two ends of a session that bytes    *)
(* pass through, and of the loops that keep them connected.  A behaviour   *)
(* is one of one part, whose variables are in the slots, in the order of   *)
(* its INSTANCE; the slots it does not use stay 0.  The heartbeat has      *)
(* variables of its own.                                                   *)
(***************************************************************************)
EXTENDS HeartbeatInv

CONSTANTS s1, s2, r1, r2

\* Queries, other sequences, and what is left when one is cut somewhere.
Pieces ==
    {<<"esc">>, <<"esc", "[">>, <<"esc", "]">>, <<"esc", "P", "$">>,
     <<"esc", "apc", "G">>, <<"c">>, <<"m">>, <<"?">>, <<"sep">>, <<"q">>, <<"k">>,
     <<"x">>, <<"Z">>, <<"bel">>, <<"\\">>, <<"$", "p">>, <<"18", "t">>,
     <<"?", "u">>, <<"1", "S">>}

\* A service whose ids outlive the clients: the session gives them out.  The
\* theorem of ForwardingProofs is about all four.
Service == {"lf"}

Operations ==
    {"print", "wide", "return", "backspace", "tab", "newline", "next_line",
     "column2", "home", "right2", "left", "wrap_off", "wrap_on", "save",
     "restore", "reset", "plain", "bold", "black", "title", "charset"}

VARIABLES
    part,   \* whose behaviour this is
    x1, x2, x3, x4, x5, x6, x7, x8, x9, x10, x11, x12, x13, x14, x15, x16,
    x17, x18, x19, x20, x21, x22, x23, x24

slots == <<x1, x2, x3, x4, x5, x6, x7, x8, x9, x10, x11, x12, x13, x14, x15,
           x16, x17, x18, x19, x20, x21, x22, x23, x24>>

F == INSTANCE ForwardingInv WITH
    MaxConns <- 2, MaxData <- 1, MaxRelays <- 2, MaxFaults <- 0,
    svc <- x1, up <- x2, relay <- x3, used <- x4, registered <- x5,
    kept <- x6, next <- x7, cid <- x8, born <- x9, chan <- x10, sock <- x11,
    said <- x12, got <- x13, ev <- x14, wire <- x15, faults <- x16

\* What the theorems of ForwardingProofs assume of the bounds holds of these.
ASSUME ForwardingBounds == F!BoundsAssumption

Q == INSTANCE QueryFilterInv WITH
    MaxCsi <- 4, MaxString <- 5, Pieces <- Pieces, MaxPieces <- 4,
    input <- x1, filter <- x2, fed <- x3

\* What the theorems about the query filter assume of the bounds holds of these.
ASSUME QueryBounds == Q!QueryFilterAssumption

L == INSTANCE LineShadow WITH
    Cols <- 3, MaxSgr <- 3, MaxCsi <- 12, Ops <- Operations, MaxOps <- 5,
    term <- x1, shadow <- x2, reading <- x3, placed <- x4, painted <- x5,
    marked <- x6, written <- x7

\* What the theorems about the line shadow assume of the bounds holds of these.
ASSUME LineBounds == L!LineShadowAssumption

K == INSTANCE KeyboardInv WITH
    Keys <- {"x", "nl", "~", "."}, Cap <- 2, PtyRoom <- 1, MaxTyped <- 4,
    MaxDrops <- 1,
    typed <- x1, stdin <- x2, escape <- x3, seen <- x4, link <- x5,
    wire <- x6, pending_input <- x7, pending_input_bytes <- x8, pty <- x9,
    shell <- x10, exited <- x11, lost <- x12, undone <- x13, drops <- x14

\* What the theorems of KeyboardProofs assume of the bounds holds of these.
ASSUME KeyboardBounds == K!KeyboardAssumption

\* What the theorems of HeartbeatProofs assume of the times holds of these.
ASSUME HeartbeatTimes == TimesAssumption

C == INSTANCE FrameCodec WITH
    Base <- 4, MaxFrame <- 200, Seeds <- {2}, MaxSent <- 2,
    sent <- x1, fit <- x2, pipe <- x3, buf <- x4, got <- x5, dead <- x6

M == INSTANCE TunnelMonitorInv WITH
    MaxBackoff <- 4, Strikes <- 2, MaxFaults <- 2,
    pc <- x1, child <- x2, uptime <- x3, slept <- x4, probe_failures <- x5,
    backoff <- x6, recent <- x7, net_probe <- x8, we_killed <- x9,
    saw_unsatisfied <- x10, sleep <- x11, skip_wait <- x12,
    backoff_saw <- x13, sockfile <- x14, kick <- x15, net <- x16,
    event <- x17, remote <- x18, due <- x19, ticked <- x20, owned <- x21,
    faults <- x22, streak <- x23, ghosted <- x24

\* What the theorems about the loop of a supervisor assume of the backoff holds.
ASSUME MonitorBackoff == M!BackoffAssumption

X == INSTANCE TransferInv WITH
    Sessions <- {1}, Senders <- {s1, s2}, Receivers <- {r1, r2}, Size <- 2,
    MaxQuits <- 1,
    pc <- x1, pick <- x2, cli <- x3, written <- x4, partial <- x5,
    target <- x6, quits <- x7, sent <- x8, events <- x9, slot <- x10,
    relay <- x11, notify <- x12, srv <- x13, inbox <- x14

\* What the theorems of TransferProofs assume of the peers holds of these.
ASSUME TransferPeers == X!PeersAssumption

R == INSTANCE ClientReconnectInv WITH
    BackoffMax <- 4, SocketGrace <- 2, DaemonGrace <- 3, AttemptTimeout <- 2,
    MaxFaults <- 2,
    tail <- x1, is_remote <- x2, pc <- x3, why <- x4, backoff <- x5,
    left <- x6, elapsed <- x7, was_offline <- x8, socket_gone <- x9,
    daemon_gone <- x10, chrome_shown <- x11, sup <- x12, dirty <- x13,
    spent <- x14, file <- x15, server <- x16, lock <- x17, session <- x18,
    net <- x19, event <- x20, faults <- x21, dead <- x22, deaths <- x23

\* What the theorems about the reconnect loop assume of the graces holds.
ASSUME ReconnectGraces == R!GraceAssumption

-----------------------------------------------------------------------------
(* The slots after the first 23, the first 16, and so on. *)

rest23 == <<x24>>
Empty23 == x24 = 0

rest16 == <<x17, x18, x19, x20, x21, x22, x23, rest23>>
Empty16 == x17 = 0 /\ x18 = 0 /\ x19 = 0 /\ x20 = 0 /\ x21 = 0 /\ x22 = 0 /\
          x23 = 0 /\ Empty23

rest14 == <<x15, x16, rest16>>
Empty14 == x15 = 0 /\ x16 = 0 /\ Empty16

rest7 == <<x8, x9, x10, x11, x12, x13, x14, rest14>>
Empty7 == x8 = 0 /\ x9 = 0 /\ x10 = 0 /\ x11 = 0 /\ x12 = 0 /\ x13 = 0 /\
          x14 = 0 /\ Empty14

rest6 == <<x7, rest7>>
Empty6 == x7 = 0 /\ Empty7

rest3 == <<x4, x5, x6, rest6>>
Empty3 == x4 = 0 /\ x5 = 0 /\ x6 = 0 /\ Empty6

Empty == x1 = 0 /\ x2 = 0 /\ x3 = 0 /\ Empty3

PartsInit ==
    /\ Init
    /\ \/ part = "heartbeat" /\ Empty
       \/ part = "codec" /\ C!Init /\ Empty6
       \/ part = "forwarding" /\ F!Init /\ x1 \in Service /\ Empty16
       \/ part = "queries" /\ Q!Init /\ Empty3
       \/ part = "line" /\ L!Init /\ Empty7
       \/ part = "keyboard" /\ K!Init /\ Empty14
       \/ part = "monitor" /\ M!Init
       \/ part = "transfer" /\ X!Init /\ Empty14
       \/ part = "reconnect" /\ R!Init /\ Empty23
    (* an idle heartbeat has one initial state *)
    /\ part # "heartbeat" => config = clamp_heartbeat(3, 6)

PartsNext ==
    /\ part' = part
    /\ \/ part = "heartbeat" /\ Next /\ UNCHANGED slots
       \/ /\ UNCHANGED vars
          /\ \/ part = "forwarding" /\ F!Next /\ UNCHANGED rest16
             \/ part = "codec" /\ C!Next /\ UNCHANGED rest6
             \/ part = "queries" /\ Q!Next /\ UNCHANGED rest3
             \/ part = "line" /\ L!Next /\ UNCHANGED rest7
             \/ part = "keyboard" /\ K!Next /\ UNCHANGED rest14
             \/ part = "monitor" /\ M!Next
             \/ part = "transfer" /\ X!Next /\ UNCHANGED rest14
             \/ part = "reconnect" /\ R!Next /\ UNCHANGED rest23

PartsSpec == PartsInit /\ [][PartsNext]_<<part, vars, slots>>

-----------------------------------------------------------------------------
(* Properties.  HealthyStays and DeadNoticed are in Heartbeat. *)

\* Every variable of every part keeps its type; the forwards, the keyboard, the
\* transfer, the heartbeat, the monitor and the reconnect loop keep their
\* inductive invariants.
TypesOK ==
    CASE part = "forwarding" -> F!IInv
      [] part = "codec" -> C!TypeOK
      [] part = "queries" -> Q!TypeOK /\ Q!IInv
      [] part = "line" -> L!TypeOK /\ L!IInv
      [] part = "keyboard" -> K!TypeOK /\ K!IInv
      [] part = "heartbeat" -> IInv
      [] part = "monitor" -> M!IInv
      [] part = "transfer" -> X!IInv
      [] part = "reconnect" -> R!IInv

\* Forwarded bytes stay in their connection: those of one client's connections
\* never mix (ChannelMap of the two ends).
OwnBytes == part = "forwarding" => F!OwnBytes

\* Frames within the limits of the format are decoded to what was encoded, however
\* the bytes are cut into reads (FrameCodec of protocol.rs).
FramesIntact == part = "codec" => C!FramesIntact

\* A replay has lost the queries the history holds and nothing else, however
\* the history is cut into chunks (QueryFilter).
InputMinusQueries == part = "queries" => Q!InputMinusQueries

\* The cursor and the attributes a reconnect restores are those the terminal
\* had (LineShadow).
CursorRestored == part = "line" => L!CursorRestored

\* What is typed for the shell reaches it in order, once and whole, but for what
\* a dead link or a full queue drops as a whole (EscapeProcessor, pending_input).
InputIntact == part = "keyboard" => K!InputIntact

\* The backoff climbs through a run of failures; a kick from before the outage
\* does not cut its first wait short (respawn_tunnel).
BackoffClimbs == part = "monitor" => M!BackoffClimbs

\* A supervisor that has lost its lock spawns ssh at most once more
\* (monitor_loop).
GhostSpawnsOnce == part = "monitor" => M!GhostSpawnsOnce

\* The file a receiver ends up with is the old one or the whole of one sender's
\* (persist of commands/transfer.rs).
TargetIsWhole == part = "transfer" => X!TargetIsWhole

\* One outage shorter than the grace ends no client, and a real one is noticed
\* with the end of the grace, however far the backoff has climbed
\* (PersistenceGate, cap_backoff).
GraceKept == part = "reconnect" => R!BlipSurvived /\ R!VerdictPrompt
=============================================================================
