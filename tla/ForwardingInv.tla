----------------------------- MODULE ForwardingInv -----------------------------
(***************************************************************************)
(* The inductive invariant behind OwnBytes: an id names one connection of  *)
(* a relay (of all relays, where the session numbers them), and the        *)
(* tables, the events and the frames of both ends agree on which.          *)
(***************************************************************************)
EXTENDS Forwarding, Functions

BoundsAssumption ==
    {MaxConns, MaxData, MaxFaults} \subseteq Nat /\ MaxRelays \in Nat \ {0}

EventType == [t : {"accepted", "data", "closed", "stopped"}, n : Conns \cup {0}]
FrameType ==
    [t : {"setup", "ready", "stop", "open", "data", "close"}, id : Conns \cup {0}, of : Conns \cup {0}]

QueuesInv ==
    /\ svc \in {"lf", "rf", "agent", "tunnel"}
    /\ registered \in [Ends -> BOOLEAN]
    /\ got \in [Ends -> [Conns -> SUBSET Conns]]
    /\ ev \in [Ends -> Seq(EventType)] /\ wire \in [Ends -> Seq(FrameType)]

\* Ids are given out in order, and no more of them than connections are accepted.
NextInv ==
    /\ \A n \in Conns : cid[n] = 0 => next <= n
    /\ \A n \in Conns : born[n] <= relay /\ (cid[n] = 0 => born[n] = 0)
    /\ Acceptor = "server" => \A n \in Conns : cid[n] < next
    /\ up => \A n \in Conns : born[n] = relay => cid[n] < next

\* A connection has an id from the moment it is accepted.
SockInv ==
    /\ \A n \in Conns : cid[n] # 0 => sock[Acceptor][n] # "none"
    /\ \A e \in Ends, n \in Conns : sock[e][n] # "none" => cid[n] # 0

\* Connections share an id only across relays, and only where the client numbers.
IdsInv ==
    \A m, n \in Conns :
        cid[m] = cid[n] /\ cid[m] # 0 /\ m # n => Acceptor = "client" /\ born[m] # born[n]

\* The id that connection n was given.
Given(i, n) == n \in Conns /\ i # 0 /\ cid[n] = i

\* The tables, the events and the frames go by the ids that were given out.
ChanInv == \A e \in Ends, i \in Conns \cup {0} : chan[e][i] # 0 => Given(i, chan[e][i])

EventInv ==
    \A e \in Ends : \A x \in Range(ev[e]) : x.t # "stopped" => Given(cid[x.n], x.n)

FrameInv ==
    \A e \in Ends : \A f \in Range(wire[e]) : f.t \in {"open", "data"} => Given(f.id, f.of)

\* Only bytes of accepted connections are written, and only to accepted ones.
GotInv == \A e \in Ends, m, n \in Conns : n \in got[e][m] => cid[m] # 0 /\ cid[n] # 0

IInv ==
    /\ TypeOK /\ QueuesInv /\ NextInv /\ SockInv /\ IdsInv /\ GotInv
    /\ ChanInv /\ EventInv /\ FrameInv /\ OwnBytes
=============================================================================
