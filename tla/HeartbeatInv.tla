----------------------------- MODULE HeartbeatInv -----------------------------
(***************************************************************************)
(* The inductive invariant behind HealthyStays and DeadNoticed: how old    *)
(* the last sign of life can be at each end, given what is on its way and  *)
(* how far the next heartbeat tick is.                                     *)
(***************************************************************************)
EXTENDS Heartbeat

\* The ceiling leaves room for an interval and a longer timeout, and the margin
\* for a frame on its way.  (protocol.rs has 90 and 10 seconds.)
TimesAssumption ==
    /\ {Evict, Margin, SendTimeout, Delay, MaxFrames} \subseteq Nat
    /\ idle_evict_ceiling >= 3
    /\ Delay <= Margin
    /\ RawTimes \subseteq Nat

UpType == Seq([kind : {"Ping", "Data", "Resize"}, age : 0..Delay])
DownType == Seq([kind : {"Pong", "Data", "Eof"}, age : 0..Delay])
WireInv == up \in UpType /\ down \in DownType

\* Two intervals and a frame's delay pass before the session's patience ends.
ClampInv == 2 * hb_interval + Delay <= Evict

\* Nothing has happened to the link or to the client.
CalmInv ==
    /\ link = "up" /\ awake /\ client \in {"relay", "gone"}
    /\ server = "serving"
    /\ \A j \in DOMAIN down : down[j].kind # "Eof"

\* The client sends at every second tick at least, and the session has heard what
\* is no longer on its way.
HeardInv ==
    /\ last_outbound_at + heartbeat <= 2 * hb_interval - 1
    /\ up = <<>> => last_client_frame_at <= last_outbound_at
    /\ up # <<>> => last_client_frame_at <= Head(up).age + 2 * hb_interval - 1

\* A Ping is on its way that was sent in time.
Asked == \E j \in DOMAIN up :
    up[j].kind = "Ping" /\ last_activity <= up[j].age + 2 * hb_interval - 1

\* Something is on its way from the session that answers it, or comes sooner.
Answered == \E j \in DOMAIN down :
    last_activity <= down[j].age + Delay + 2 * hb_interval - 1

\* Either the next tick is soon enough to ask, or the client has asked.
AskedInv == last_activity + heartbeat <= 2 * hb_interval - 1 \/ Asked \/ Answered

\* Nothing but a stale link makes the client give up.
GoneInv == client = "gone" => last_activity > hb_timeout

\* The time a stale link has been used is taken from the time to the next tick,
\* or from the patience of a send.
StaleInv ==
    /\ last_activity <= hb_timeout => stale = 0
    /\ client = "relay" => stale + heartbeat <= hb_interval
    /\ client = "stopped" => stale <= hb_interval
    /\ client = "sending" => stale + blocked <= hb_interval + SendTimeout

IInv ==
    /\ TypeOK /\ WireInv /\ ClampInv /\ StaleInv
    /\ ~disturbed => CalmInv /\ HeardInv /\ AskedInv /\ GoneInv
=============================================================================
