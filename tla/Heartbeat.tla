------------------------------- MODULE Heartbeat -------------------------------
(***************************************************************************)
(* Who notices that the other end has gone: the client's Pings and its     *)
(* check of the time since the server was last heard, the session's        *)
(* eviction of a silent client, and the clamping of the configured times   *)
(* that is to keep the two apart.                                          *)
(*                                                                         *)
(* Time passes in seconds, for both ends at once.  A laptop that sleeps    *)
(* stops the client's timers but not its wall clock, and stops nothing at  *)
(* the server.  An age grows no further once it is past every limit.       *)
(***************************************************************************)
EXTENDS Integers, Sequences, FiniteSetsExt

CONSTANTS
    Evict,          \* IDLE_EVICT_TIMEOUT
    Margin,         \* IDLE_EVICT_SAFETY_MARGIN
    SendTimeout,    \* SEND_TIMEOUT
    Delay,          \* the longest a frame is on its way when the link is up
    RawTimes,       \* values found in the configuration
    MaxFrames       \* bound: frames on their way for more to be sent freely

VARIABLES
    hb_interval, hb_timeout,
    client,             \* "relay", "sending" (blocked), "stopped" (~^Z), "gone"
    awake,              \* FALSE while the laptop sleeps
    last_activity,      \* wall-clock time since the server was heard
    last_outbound_at,   \* the client's own time since it last sent
    heartbeat,          \* the client's own time to the next heartbeat tick
    blocked,            \* time left to the send that blocks
    server,             \* "serving", "evicted"
    last_client_frame_at,   \* the server's time since it heard the client
    link,               \* "up", "dead"
    up, down,           \* frames on their way: [kind, age]
    disturbed,          \* the link died, or the client slept or was stopped
    stale               \* how long the client has run with a stale link

config == <<hb_interval, hb_timeout>>
vars == <<hb_interval, hb_timeout, client, awake, last_activity,
          last_outbound_at, heartbeat, blocked, server, last_client_frame_at,
          link, up, down, disturbed, stale>>

-----------------------------------------------------------------------------
(* Configuration *)

idle_evict_ceiling == Evict - Margin

\* A mistake: the interval is used as it is configured.
clamp_timeout_only(raw_interval, raw_timeout) ==
    LET interval == Max({raw_interval, 1})
        timeout == IF raw_timeout <= interval THEN interval + 1 ELSE raw_timeout
    IN  <<interval, Min({timeout, Max({0, idle_evict_ceiling - interval})})>>

clamp_heartbeat(raw_interval, raw_timeout) ==
    LET max_interval == Max({1, (idle_evict_ceiling - 1) \div 2})
        interval == Min({Max({raw_interval, 1}), max_interval})
        timeout == IF raw_timeout <= interval THEN interval + 1 ELSE raw_timeout
    IN  <<interval, Min({timeout, idle_evict_ceiling - interval})>>

\* Both ends have just heard each other.
Init ==
    /\ \E i, t \in RawTimes :
           LET c == clamp_heartbeat(i, t) IN hb_interval = c[1] /\ hb_timeout = c[2]
    /\ client = "relay" /\ awake = TRUE
    /\ last_activity = 0 /\ last_outbound_at = 0
    /\ heartbeat = hb_interval
    /\ blocked = 0
    /\ server = "serving" /\ last_client_frame_at = 0
    /\ link = "up"
    /\ up = <<>> /\ down = <<>>
    /\ disturbed = FALSE /\ stale = 0

-----------------------------------------------------------------------------
(* Time *)

Older(age) == Min({age + 1, Evict + 1})

OlderFrames(q) == [i \in DOMAIN q |-> [q[i] EXCEPT !.age = Min({@ + 1, Delay})]]

Room == Len(up) + Len(down) < MaxFrames

\* A mistake: a frame that could be sent is taken for a sign of life.
link_is_stale_by_sends == last_outbound_at > hb_timeout

link_is_stale == last_activity > hb_timeout

Running == awake /\ client \in {"relay", "sending"}

\* What is due happens before the next second begins.
NothingDue ==
    /\ (awake /\ client = "relay") => heartbeat > 0
    /\ (awake /\ client = "sending") => blocked > 0
    /\ link = "up" => \A i \in DOMAIN up : up[i].age < Delay
    /\ (link = "up" /\ awake /\ client = "relay") =>
           \A i \in DOMAIN down : down[i].age < Delay
    /\ server = "serving" => last_client_frame_at < Evict

Second ==
    /\ client # "gone"
    /\ NothingDue
    /\ last_activity' = Older(last_activity)
    /\ last_outbound_at' = IF awake THEN Older(last_outbound_at) ELSE last_outbound_at
    /\ heartbeat' = IF awake /\ heartbeat > 0 THEN heartbeat - 1 ELSE heartbeat
    /\ blocked' = IF awake /\ blocked > 0 THEN blocked - 1 ELSE blocked
    /\ last_client_frame_at' = Older(last_client_frame_at)
    /\ up' = OlderFrames(up) /\ down' = OlderFrames(down)
    /\ stale' = IF Running /\ last_activity > hb_timeout THEN Older(stale) ELSE stale
    /\ UNCHANGED <<config, client, awake, server, link, disturbed>>

Sleep ==
    /\ client # "gone" /\ awake
    /\ awake' = FALSE /\ disturbed' = TRUE
    /\ UNCHANGED <<config, client, last_activity, last_outbound_at, heartbeat,
                   blocked, server, last_client_frame_at, link, up, down, stale>>

Wake ==
    /\ ~awake
    /\ awake' = TRUE
    /\ UNCHANGED <<config, client, last_activity, last_outbound_at, heartbeat,
                   blocked, server, last_client_frame_at, link, up, down,
                   disturbed, stale>>

\* What was on its way is lost, and so is all that is sent from now on.
LinkDies ==
    /\ link = "up" /\ client # "gone"
    /\ link' = "dead" /\ disturbed' = TRUE
    /\ up' = <<>> /\ down' = <<>>
    /\ UNCHANGED <<config, client, awake, last_activity, last_outbound_at,
                   heartbeat, blocked, server, last_client_frame_at, stale>>

-----------------------------------------------------------------------------
(* The client *)

InRelay == awake /\ client = "relay"

Disconnect ==
    /\ client' = "gone"
    /\ UNCHANGED <<config, awake, last_activity, last_outbound_at, heartbeat,
                   blocked, server, last_client_frame_at, link, up, down,
                   disturbed, stale>>

\* timed_send: over a dead link the frame is buffered, to be lost, or the send
\* blocks until SEND_TIMEOUT.
timed_send(kind) ==
    \/ /\ up' = IF link = "up" THEN Append(up, [kind |-> kind, age |-> 0]) ELSE up
       /\ last_outbound_at' = 0
       /\ client' = "relay"
       /\ UNCHANGED blocked
    \/ /\ link = "dead"
       /\ client' = "sending" /\ blocked' = SendTimeout
       /\ UNCHANGED <<up, last_outbound_at>>

SendTimesOut ==
    /\ awake /\ client = "sending" /\ blocked = 0
    /\ Disconnect

\* A mistake: a client that sends has no need to ask whether it is heard.
PingDueOutbound == last_outbound_at >= hb_interval

PingDue == last_outbound_at >= hb_interval \/ last_activity >= hb_interval

HeartbeatStale == InRelay /\ heartbeat = 0 /\ link_is_stale /\ Disconnect

Heartbeat ==
    /\ InRelay /\ heartbeat = 0 /\ ~link_is_stale
    /\ heartbeat' = hb_interval
    /\ IF PingDue THEN timed_send("Ping")
       ELSE UNCHANGED <<client, blocked, up, last_outbound_at>>
    /\ UNCHANGED <<config, awake, last_activity, server, last_client_frame_at,
                   link, down, disturbed, stale>>

\* The network path changed: a Ping at once, whatever the ages.
NetChanged ==
    /\ InRelay
    /\ Room
    /\ timed_send("Ping")
    /\ UNCHANGED <<config, awake, last_activity, heartbeat, server,
                   last_client_frame_at, link, down, disturbed, stale>>

\* A key, or bytes of a forwarded connection: the link is looked at first.
KeyStale == InRelay /\ link_is_stale /\ Disconnect

Key ==
    /\ InRelay /\ ~link_is_stale
    /\ Room
    /\ timed_send("Data")
    /\ UNCHANGED <<config, awake, last_activity, heartbeat, server,
                   last_client_frame_at, link, down, disturbed, stale>>

\* Any frame proves the server alive; the end of the stream ends the relay.
Hear ==
    /\ InRelay /\ down # <<>> /\ Head(down).kind # "Eof"
    /\ last_activity' = 0
    /\ down' = Tail(down)
    /\ stale' = 0
    /\ UNCHANGED <<config, client, awake, last_outbound_at, heartbeat, blocked,
                   server, last_client_frame_at, link, up, disturbed>>

HearEof == InRelay /\ down # <<>> /\ Head(down).kind = "Eof" /\ Disconnect

\* ~^Z stops the client; when it runs again its timers start afresh and the
\* size of the terminal is sent.
Suspend ==
    /\ InRelay /\ Room
    /\ client' = "stopped" /\ disturbed' = TRUE
    /\ UNCHANGED <<config, awake, last_activity, last_outbound_at, heartbeat,
                   blocked, server, last_client_frame_at, link, up, down, stale>>

Resume ==
    /\ awake /\ client = "stopped"
    /\ heartbeat' = hb_interval
    /\ last_activity' = 0 /\ stale' = 0
    /\ timed_send("Resize")
    /\ UNCHANGED <<config, awake, server, last_client_frame_at, link, down, disturbed>>

-----------------------------------------------------------------------------
(* The session *)

Take ==
    /\ up # <<>> /\ server = "serving"
    /\ up' = Tail(up)
    /\ last_client_frame_at' = 0
    /\ down' = IF Head(up).kind = "Ping"
               THEN Append(down, [kind |-> "Pong", age |-> 0]) ELSE down
    /\ UNCHANGED <<config, client, awake, last_activity, last_outbound_at,
                   heartbeat, blocked, server, link, disturbed, stale>>

\* Nobody reads what is sent to a session that has closed the connection.
Discard ==
    /\ up # <<>> /\ server = "evicted"
    /\ up' = Tail(up)
    /\ UNCHANGED <<config, client, awake, last_activity, last_outbound_at,
                   heartbeat, blocked, server, last_client_frame_at, link, down,
                   disturbed, stale>>

\* Output of the shell.
Output ==
    /\ server = "serving" /\ link = "up"
    /\ Room
    /\ down' = Append(down, [kind |-> "Data", age |-> 0])
    /\ UNCHANGED <<config, client, awake, last_activity, last_outbound_at,
                   heartbeat, blocked, server, last_client_frame_at, link, up,
                   disturbed, stale>>

\* The silent client's socket is closed; a frame that has arrived comes first.
IdleEvict ==
    /\ server = "serving" /\ last_client_frame_at >= Evict
    /\ link = "up" => \A i \in DOMAIN up : up[i].age < Delay
    /\ server' = "evicted"
    /\ down' = IF link = "up" THEN Append(down, [kind |-> "Eof", age |-> 0]) ELSE down
    /\ UNCHANGED <<config, client, awake, last_activity, last_outbound_at,
                   heartbeat, blocked, last_client_frame_at, link, up,
                   disturbed, stale>>

Next ==
    \/ Second \/ Sleep \/ Wake \/ LinkDies
    \/ SendTimesOut \/ HeartbeatStale \/ Heartbeat \/ NetChanged
    \/ KeyStale \/ Key \/ Hear \/ HearEof \/ Suspend \/ Resume
    \/ Take \/ Discard \/ Output \/ IdleEvict

Spec == Init /\ [][Next]_vars

-----------------------------------------------------------------------------
(* Properties *)

\* The clamped times are in order and leave the server its margin.
TypeOK ==
    /\ hb_interval \in 1..Evict /\ hb_timeout \in (hb_interval + 1)..Evict
    /\ hb_interval + hb_timeout <= idle_evict_ceiling
    /\ client \in {"relay", "sending", "stopped", "gone"}
    /\ server \in {"serving", "evicted"} /\ link \in {"up", "dead"}
    /\ awake \in BOOLEAN /\ disturbed \in BOOLEAN
    /\ {last_activity, last_outbound_at, last_client_frame_at, stale} \subseteq 0..(Evict + 1)
    /\ heartbeat \in 0..hb_interval /\ blocked \in 0..SendTimeout

\* While the link is up and the client runs, the session never evicts it,
\* whatever the configuration says and whatever traffic there is (or is not) in
\* either direction; and the client does not give the session up either, when
\* its timeout leaves room for two intervals and a round trip: a Ping may be put
\* off by almost an interval after the first tick that found something heard.
HealthyStays ==
    ~disturbed =>
        /\ server = "serving"
        /\ hb_timeout >= 2 * hb_interval + 2 * Delay - 1 => client = "relay"

\* Once the link is stale by the wall clock, no matter how much of that time the
\* laptop slept, the client runs for at most one heartbeat interval, and a send
\* that blocks, before it gives the connection up.
DeadNoticed ==
    client # "gone" => stale <= hb_interval + SendTimeout

=============================================================================
