------------------------------ MODULE Forwarding ------------------------------
(***************************************************************************)
(* Forwarded connections between a session (server.rs) and its client      *)
(* (client.rs): local and remote port forwards, the SSH agent and the      *)
(* OAuth callback tunnel.  In all four one end accepts connections, gives  *)
(* each a channel id and asks the other to connect to a target; bytes go   *)
(* both ways as frames that carry the id.  A behaviour has one of them,    *)
(* with one forward, through several relays (connections of clients).      *)
(*                                                                         *)
(* Connections are numbered in the order they are accepted.  The number is *)
(* carried along with events and frames to tell whose bytes they are; the  *)
(* code only sees the channel id.                                          *)
(***************************************************************************)
EXTENDS Integers, Sequences

CONSTANTS
    MaxConns,   \* bound: connections accepted
    MaxData,    \* bound: chunks a socket yields
    MaxRelays,  \* bound: clients one after another
    MaxFaults   \* bound: refused targets, full writers, stops

Ends == {"server", "client"}
Peer(e) == IF e = "server" THEN "client" ELSE "server"
Conns == 1..MaxConns

VARIABLES
    svc,        \* lf, rf, agent, tunnel
    up, relay,  \* a client is attached; the number of its relay
    used,       \* the relay has had its forward
    registered, \* an end knows the forward: forwards, enabled, tunnel.port, listener
    kept,       \* the keepalive task of start_pf_keepalive runs
    next,       \* next_channel_id of the end that accepts
    cid, born,  \* of a connection: its channel id, the relay it was accepted in
    chan,       \* an end's channels: the connection behind an id, 0 for none
    sock,       \* at an end: none, open (its reader runs), closed
    said, got,  \* of a socket: chunks read from it, whose bytes were written to it
    ev, wire,   \* the event queue of an end, the frames on their way to it
    faults

tables == <<used, registered, kept, chan>>
socks == <<sock, said, got>>
ids == <<next, cid, born>>
vars == <<svc, up, relay, tables, ids, socks, ev, wire, faults>>

Acceptor == IF svc \in {"lf", "agent"} THEN "server" ELSE "client"
Initiator == IF svc = "tunnel" THEN "server" ELSE "client"

\* Channel 0 is TUNNEL_DECLINE_CHANNEL.
NoChannels == [i \in Conns \cup {0} |-> 0]

Init ==
    /\ svc \in {"lf", "rf", "agent", "tunnel"}
    /\ up = TRUE /\ relay = 1
    /\ used = FALSE /\ kept = FALSE /\ registered = [e \in Ends |-> FALSE]
    /\ next = 1 /\ cid = [n \in Conns |-> 0] /\ born = [n \in Conns |-> 0]
    /\ chan = [e \in Ends |-> NoChannels]
    /\ sock = [e \in Ends |-> [n \in Conns |-> "none"]]
    /\ said = [e \in Ends |-> [n \in Conns |-> 0]]
    /\ got = [e \in Ends |-> [n \in Conns |-> {}]]
    /\ ev = [e \in Ends |-> <<>>] /\ wire = [e \in Ends |-> <<>>]
    /\ faults = 0

Send(e, f) == wire' = [wire EXCEPT ![Peer(e)] = Append(@, f)]
Frame(t, i, n) == [t |-> t, id |-> i, of |-> n]

Fail == faults < MaxFaults /\ faults' = faults + 1

-----------------------------------------------------------------------------
(* Setting a forward up, and taking it down *)

\* The end that begins registers the forward and tells the other.
Begin(e) ==
    /\ up /\ ~registered[e] /\ ~used
    /\ used' = TRUE
    /\ registered' = [registered EXCEPT ![e] = TRUE]
    /\ Send(e, Frame("setup", 0, 0))
    /\ UNCHANGED <<svc, up, relay, chan, ids, socks, ev, faults>>

\* A local forward is not kept before the session has confirmed it.
HandleFwdRequest == svc \in {"lf", "rf"} /\ Begin("client") /\ kept' = (svc = "rf")
SendAgentForward == svc = "agent" /\ Begin("client") /\ UNCHANGED kept
HandleOpenEvent == svc = "tunnel" /\ Begin("server") /\ UNCHANGED kept

\* The forward and its channels leave the tables of an end; the writers of the
\* channels go with them, the readers stay.
Forget(e) ==
    /\ registered' = [registered EXCEPT ![e] = FALSE]
    /\ chan' = [chan EXCEPT ![e] = NoChannels]

Queue(e, x) == ev' = [ev EXCEPT ![e] = Append(@, x)]
Event(t, n) == [t |-> t, n |-> n]

\* The lf or rf command ends, and the keepalive task reports it.
KeepaliveEnds ==
    /\ up /\ kept /\ Fail
    /\ kept' = FALSE
    /\ Queue("client", Event("stopped", 0))
    /\ UNCHANGED <<svc, up, relay, used, registered, chan, ids, socks, wire>>

\* The idle deadline of the OAuth tunnel, armed when its last channel closed.
TunnelIdle ==
    /\ up /\ svc = "tunnel" /\ registered["server"]
    /\ chan["server"] = NoChannels /\ \E n \in Conns : sock["server"][n] # "none"
    /\ Forget("server")
    /\ UNCHANGED <<svc, up, relay, used, kept, ids, socks, ev, wire, faults>>

\* A mistake: the numbers start again with every client.
NumbersRestart == 1

\* A client's tables are new with every relay, the session's go on.
NextRelaysFirstId == IF Acceptor = "client" THEN 1 ELSE next

\* ClientGone: the tables of both ends are cleared.  What was on the wire is lost;
\* so are the client's events, with its relay.  The session keeps its event queue,
\* and its readers.
Disconnect ==
    /\ up
    /\ up' = FALSE /\ used' = FALSE /\ kept' = FALSE
    /\ registered' = [e \in Ends |-> FALSE] /\ chan' = [e \in Ends |-> NoChannels]
    /\ wire' = [e \in Ends |-> <<>>]
    /\ ev' = [ev EXCEPT !["client"] = <<>>]
    /\ sock' = [sock EXCEPT !["client"] = [n \in Conns |-> IF @[n] = "open" THEN "closed" ELSE @[n]]]
    /\ next' = NextRelaysFirstId
    /\ UNCHANGED <<svc, relay, cid, born, said, got, faults>>

Attach ==
    /\ ~up /\ relay < MaxRelays
    /\ up' = TRUE /\ relay' = relay + 1
    /\ UNCHANGED <<svc, tables, ids, socks, ev, wire, faults>>

\* The detached session throws away what its readers report.
DrainEvents ==
    /\ ~up /\ ev["server"] # <<>>
    /\ ev' = [ev EXCEPT !["server"] = Tail(@)]
    /\ UNCHANGED <<svc, up, relay, tables, ids, socks, wire, faults>>

-----------------------------------------------------------------------------
(* Sockets: the acceptor tasks, and the readers of spawn_channel_relay *)

\* Accepted is queued before the reader runs.
Accept(n) ==
    LET e == Acceptor IN
    /\ up /\ registered[e]
    /\ sock[e][n] = "none" /\ \A k \in 1..(n - 1) : sock[e][k] # "none"
    /\ sock' = [sock EXCEPT ![e][n] = "open"]
    /\ cid' = [cid EXCEPT ![n] = next] /\ next' = next + 1
    /\ born' = [born EXCEPT ![n] = relay]
    /\ Queue(e, Event("accepted", n))
    /\ UNCHANGED <<svc, up, relay, tables, said, got, wire, faults>>

AcceptLocalForward(n) == svc = "lf" /\ Accept(n)
AcceptAgent(n) == svc = "agent" /\ Accept(n)
AcceptRemoteForward(n) == svc = "rf" /\ Accept(n)
AcceptTunnel(n) == svc = "tunnel" /\ Accept(n)

Read(e, n) ==
    /\ sock[e][n] = "open" /\ said[e][n] < MaxData
    /\ said' = [said EXCEPT ![e][n] = @ + 1]
    /\ Queue(e, Event("data", n))
    /\ UNCHANGED <<svc, up, relay, tables, ids, sock, got, wire, faults>>

ReadEof(e, n) ==
    /\ sock[e][n] = "open"
    /\ sock' = [sock EXCEPT ![e][n] = "closed"]
    /\ Queue(e, Event("closed", n))
    /\ UNCHANGED <<svc, up, relay, tables, ids, said, got, wire, faults>>

-----------------------------------------------------------------------------
(* handle_pf_event, handle_agent_event, handle_tunnel_event of both ends *)

\* The client's end of the OAuth tunnel does not look an id up.
Unchecked(e) == svc = "tunnel" /\ e = "client"

EventAccepted(e, n) ==
    /\ \/ /\ registered[e] \/ Unchecked(e)
          /\ chan' = [chan EXCEPT ![e][cid[n]] = n]
          /\ Send(e, Frame("open", cid[n], n))
       \/ /\ ~registered[e] /\ ~Unchecked(e)
          /\ UNCHANGED <<chan, wire>>
    /\ UNCHANGED registered

Known(e, n) == cid[n] # 0 /\ chan[e][cid[n]] # 0

EventData(e, n) ==
    /\ IF Known(e, n) \/ Unchecked(e) THEN Send(e, Frame("data", cid[n], n)) ELSE UNCHANGED wire
    /\ UNCHANGED <<registered, chan>>

\* A mistake: the other end is not told.
EventClosedQuietly(e, n) ==
    /\ chan' = [chan EXCEPT ![e][cid[n]] = 0]
    /\ UNCHANGED <<registered, wire>>

EventClosed(e, n) ==
    /\ IF Known(e, n) \/ Unchecked(e) THEN Send(e, Frame("close", cid[n], n)) ELSE UNCHANGED wire
    /\ chan' = [chan EXCEPT ![e][cid[n]] = 0]
    /\ UNCHANGED registered

\* ForwardStopped.
EventStopped == Forget("client") /\ Send("client", Frame("stop", 0, 0))

HandleEvent(e) ==
    /\ up /\ ev[e] # <<>>
    /\ ev' = [ev EXCEPT ![e] = Tail(@)]
    /\ LET x == Head(ev[e]) IN
       \/ x.t = "accepted" /\ EventAccepted(e, x.n)
       \/ x.t = "data" /\ EventData(e, x.n)
       \/ x.t = "closed" /\ EventClosed(e, x.n)
       \/ x.t = "stopped" /\ EventStopped
    /\ UNCHANGED <<svc, up, relay, used, kept, ids, socks, faults>>

ServerPfEvent == svc \in {"lf", "rf"} /\ HandleEvent("server")
ServerAgentEvent == svc = "agent" /\ HandleEvent("server")
ServerTunnelEvent == svc = "tunnel" /\ HandleEvent("server")
ClientPfEvent == svc \in {"lf", "rf"} /\ HandleEvent("client")
ClientAgentEvent == svc = "agent" /\ HandleEvent("client")
ClientTunnelEvent == svc = "tunnel" /\ HandleEvent("client")

EventStep(e) ==
    \/ e = "server" /\ (ServerPfEvent \/ ServerAgentEvent \/ ServerTunnelEvent)
    \/ e = "client" /\ (ClientPfEvent \/ ClientAgentEvent \/ ClientTunnelEvent)

-----------------------------------------------------------------------------
(* handle_client_frame, handle_server_frame *)

frameRest == <<svc, up, relay, used, ids, said, ev>>

\* The frame f is taken off the wire, and an answer may be put on the other.
Take(e, f, answer) ==
    /\ up /\ wire[e] # <<>> /\ Head(wire[e]) = f
    /\ wire' = [wire EXCEPT ![e] = Tail(@), ![Peer(e)] = @ \o answer]

setupRest == <<frameRest, chan, sock, got>>

\* The other end has the forward now, or it declines.
Joins(e, answer) ==
    /\ Take(e, Frame("setup", 0, 0), answer)
    /\ registered' = [registered EXCEPT ![e] = TRUE]
    /\ UNCHANGED <<kept, faults>>

Declines(e, answer) ==
    /\ Fail
    /\ Take(e, Frame("setup", 0, 0), answer)
    /\ UNCHANGED <<kept, registered>>

\* Only the port of a local forward can be in use: a remote one has no listener here.
PortForwardRequest ==
    /\ \/ svc \in {"lf", "rf"} /\ Joins("server", <<Frame("ready", 0, 0)>>)
       \/ svc = "lf" /\ Declines("server", <<Frame("stop", 0, 0)>>)
    /\ UNCHANGED setupRest

AgentForward == svc = "agent" /\ Joins("server", <<>>) /\ UNCHANGED setupRest

\* The decline of a tunnel (channel 0) changes nothing at the session.
TunnelListen ==
    /\ svc = "tunnel"
    /\ Joins("client", <<>>) \/ Declines("client", <<Frame("close", 0, 0)>>)
    /\ UNCHANGED setupRest

\* The session has bound the port: the lf command is told and its stream kept.
PortForwardReady ==
    /\ Take("client", Frame("ready", 0, 0), <<>>)
    /\ kept' = (kept \/ svc = "lf")
    /\ UNCHANGED <<setupRest, registered, faults>>

\* A command that still waits for the session is told of the refusal.
Stopped(e) ==
    /\ Take(e, Frame("stop", 0, 0), <<>>)
    /\ Forget(e)
    /\ kept' = (kept /\ e = "server")
    /\ UNCHANGED <<frameRest, sock, got, faults>>

ServerPortForwardStop == Stopped("server")
ClientPortForwardStop == Stopped("client")

\* A mistake: the channel is not entered before the next frame is read.
RecvOpenLate(e, i, n) ==
    /\ Take(e, Frame("open", i, n), <<>>)
    /\ sock' = [sock EXCEPT ![e][n] = "open"]
    /\ UNCHANGED <<frameRest, registered, kept, got, chan, faults>>

\* The connection to the target is made before the next frame is read.
RecvOpen(e, i, n) ==
    LET Refusal == <<Frame("close", i, n)>> IN
    /\ \/ /\ registered[e]
          /\ Take(e, Frame("open", i, n), <<>>)
          /\ chan' = [chan EXCEPT ![e][i] = n]
          /\ sock' = [sock EXCEPT ![e][n] = "open"]
          /\ UNCHANGED faults
       \/ /\ registered[e] /\ Fail
          /\ Take(e, Frame("open", i, n), Refusal)
          /\ UNCHANGED <<chan, sock>>
       \/ /\ ~registered[e]
          /\ Take(e, Frame("open", i, n), IF e = "client" THEN Refusal ELSE <<>>)
          /\ UNCHANGED <<chan, sock, faults>>
    /\ UNCHANGED <<frameRest, registered, kept, got>>

ServerPortForwardOpen(i, n) == svc = "rf" /\ RecvOpen("server", i, n)
ServerTunnelOpen(i, n) == svc = "tunnel" /\ RecvOpen("server", i, n)
ClientPortForwardOpen(i, n) == svc = "lf" /\ RecvOpen("client", i, n)
ClientAgentOpen(i, n) == svc = "agent" /\ RecvOpen("client", i, n)

\* A full writer (try_send fails) closes the channel and tells the peer.
RecvData(e, i, n) ==
    LET m == chan[e][i] IN
    /\ \/ /\ m # 0
          /\ Take(e, Frame("data", i, n), <<>>)
          /\ got' = [got EXCEPT ![e][m] = @ \cup {n}]
          /\ UNCHANGED <<chan, faults>>
       \/ /\ m # 0 /\ Fail
          /\ Take(e, Frame("data", i, n), <<Frame("close", i, n)>>)
          /\ chan' = [chan EXCEPT ![e][i] = 0]
          /\ UNCHANGED got
       \/ /\ m = 0
          /\ Take(e, Frame("data", i, n), <<>>)
          /\ UNCHANGED <<chan, got, faults>>
    /\ UNCHANGED <<frameRest, registered, kept, sock>>

RecvClose(e, i, n) ==
    /\ Take(e, Frame("close", i, n), <<>>)
    /\ chan' = [chan EXCEPT ![e][i] = 0]
    /\ UNCHANGED <<frameRest, registered, kept, sock, got, faults>>

\* The Data and Close frames of a service at one of the ends.
Recv(e, i, n) == RecvData(e, i, n) \/ RecvClose(e, i, n)

ServerPortForwardRecv(i, n) == svc \in {"lf", "rf"} /\ Recv("server", i, n)
ServerAgentRecv(i, n) == svc = "agent" /\ Recv("server", i, n)
ServerTunnelRecv(i, n) == svc = "tunnel" /\ Recv("server", i, n)
ClientPortForwardRecv(i, n) == svc \in {"lf", "rf"} /\ Recv("client", i, n)
ClientAgentRecv(i, n) == svc = "agent" /\ Recv("client", i, n)
ClientTunnelRecv(i, n) == svc = "tunnel" /\ Recv("client", i, n)

FrameStep(e) ==
    /\ up /\ wire[e] # <<>>
    /\ LET i == Head(wire[e]).id  n == Head(wire[e]).of IN
       \/ /\ e = "server"
          /\ \/ PortForwardRequest \/ AgentForward \/ ServerPortForwardStop
             \/ ServerPortForwardOpen(i, n) \/ ServerTunnelOpen(i, n)
             \/ ServerPortForwardRecv(i, n) \/ ServerAgentRecv(i, n) \/ ServerTunnelRecv(i, n)
       \/ /\ e = "client"
          /\ \/ TunnelListen \/ PortForwardReady \/ ClientPortForwardStop
             \/ ClientPortForwardOpen(i, n) \/ ClientAgentOpen(i, n)
             \/ ClientPortForwardRecv(i, n) \/ ClientAgentRecv(i, n) \/ ClientTunnelRecv(i, n)

-----------------------------------------------------------------------------

Accepts(n) ==
    AcceptLocalForward(n) \/ AcceptAgent(n) \/ AcceptRemoteForward(n) \/ AcceptTunnel(n)

Next ==
    \/ HandleFwdRequest \/ SendAgentForward \/ HandleOpenEvent
    \/ KeepaliveEnds \/ TunnelIdle \/ Disconnect \/ Attach \/ DrainEvents
    \/ \E n \in Conns : Accepts(n)
    \/ \E e \in Ends, n \in Conns : Read(e, n) \/ ReadEof(e, n)
    \/ \E e \in Ends : EventStep(e) \/ FrameStep(e)

Spec == Init /\ [][Next]_vars

\* The relay loops of both ends run.
Fairness == \A e \in Ends : WF_vars(EventStep(e)) /\ WF_vars(FrameStep(e))

FairSpec == Spec /\ Fairness

-----------------------------------------------------------------------------
(* Properties *)

TypeOK ==
    /\ relay \in 1..MaxRelays /\ {up, used, kept} \subseteq BOOLEAN
    /\ next \in 1..(MaxConns + 1)
    /\ cid \in [Conns -> 0..MaxConns] /\ born \in [Conns -> 0..MaxRelays]
    /\ chan \in [Ends -> [Conns \cup {0} -> 0..MaxConns]]
    /\ sock \in [Ends -> [Conns -> {"none", "open", "closed"}]]
    /\ said \in [Ends -> [Conns -> 0..MaxData]]
    /\ \A e \in Ends, n \in Conns : got[e][n] \subseteq Conns
    /\ faults \in 0..MaxFaults

\* Two connections of one relay never get each other's bytes, nor does any where
\* the session numbers the channels: what is written to a socket was read from
\* the other end of the same connection.
OwnBytes ==
    \A e \in Ends, m, n \in Conns :
        n \in got[e][m] /\ n # m => Acceptor = "client" /\ born[n] # born[m]

\* handle_tunnel_event of server.rs says of its look at the channels that "without
\* this, a stale reader task from a previous client forwards bytes to the new
\* client on a channel_id the new client never opened": no connection gets the
\* bytes of another, not even of one from an earlier client.
NoCrossTalk == \A e \in Ends, n \in Conns : got[e][n] \subseteq {n}

\* Bytes that were read from an accepted connection reach the target, the first
\* ones included, unless an end is closed, a writer is full, the forward is stopped
\* or the client goes: the other end has connected before it looks for bytes.
BytesArrive ==
    \A n \in Conns :
        LET e == Acceptor IN
        (said[e][n] > 0 /\ Known(e, n) /\ born[n] = relay)
            ~> (n \in got[Peer(e)][n] \/ relay # born[n] \/ ~Known(e, n)
                  \/ ~up \/ ~registered["server"])

\* A channel does not outlive its other half: once the reader at one end has seen
\* the end of its socket, the channel leaves both tables.
ClosesBoth ==
    \A e \in Ends, n \in Conns :
        sock[e][n] = "closed" ~> \A x \in Ends, i \in Conns : chan[x][i] # n
=============================================================================
