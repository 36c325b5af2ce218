--------------------------- MODULE ForwardingProofs ---------------------------
(***************************************************************************)
(* The proofs about Forwarding, for every number of connections, chunks,   *)
(* relays and faults.  First the queues, then what each kind of step does  *)
(* to the ids, the tables and the queues, then the theorems.  At the end,  *)
(* the proofs about Services, the other requests of the programs in a      *)
(* session: what an answer does, one lemma for each action, the theorems.  *)
(***************************************************************************)
EXTENDS ForwardingInv, SequenceTheorems, TLAPS

\* The constants and variables of Services; heard is what a tool was answered,
\* spent what its client has obeyed in the window.
CONSTANTS Tools, Clients, None, MaxCount, MaxAttaches
VARIABLES
    kind, req, heard, phase, owner, link, caps, negotiated_caps,
    open_forward_enabled, open_event, clipboard_event, pending_paste,
    paste_deadline, to_client, from_client, spent, done, attaches

V == INSTANCE ServicesInv WITH answer <- heard, used <- spent

-----------------------------------------------------------------------------
(* Queues *)

LEMMA RangeAppend ==
  ASSUME NEW T, NEW q \in Seq(T), NEW x \in T
  PROVE  Append(q, x) \in Seq(T) /\ Range(Append(q, x)) \subseteq Range(q) \cup {x}
  <1>1. /\ Append(q, x) \in Seq(T) /\ Len(Append(q, x)) = Len(q) + 1 /\ Len(q) \in Nat
        /\ \A i \in 1..Len(q) : Append(q, x)[i] = q[i]
        /\ Append(q, x)[Len(q) + 1] = x
    BY AppendProperties, LenProperties
  <1>2. ASSUME NEW i \in DOMAIN Append(q, x) PROVE Append(q, x)[i] \in Range(q) \cup {x}
    <2>1. i \in 1..(Len(q) + 1) /\ DOMAIN q = 1..Len(q)
      BY <1>1
    <2>2. CASE i = Len(q) + 1
      BY <1>1, <2>2
    <2>3. CASE i # Len(q) + 1
      <3>1. i \in DOMAIN q
        BY <1>1, <2>1, <2>3
      <3> QED
        BY <1>1, <2>1, <3>1 DEF Range
    <2> QED
      BY <2>2, <2>3
  <1> QED
    BY <1>1, <1>2 DEF Range

LEMMA RangeTail ==
  ASSUME NEW T, NEW q \in Seq(T), q # <<>>
  PROVE  /\ Tail(q) \in Seq(T) /\ Range(Tail(q)) \subseteq Range(q)
         /\ Head(q) \in Range(q) /\ Head(q) \in T
  <1>1. /\ Len(q) \in Nat \ {0} /\ Tail(q) \in Seq(T) /\ Head(q) = q[1] /\ Head(q) \in T
        /\ Len(Tail(q)) = Len(q) - 1
        /\ \A i \in 1..(Len(q) - 1) : Tail(q)[i] = q[i + 1]
    OBVIOUS
  <1>2. DOMAIN q = 1..Len(q) /\ DOMAIN Tail(q) = 1..(Len(q) - 1) /\ 1 \in DOMAIN q
    BY <1>1
  <1>3. \A i \in DOMAIN Tail(q) : i + 1 \in DOMAIN q /\ Tail(q)[i] = q[i + 1]
    BY <1>1, <1>2
  <1>4. Head(q) \in Range(q)
    BY <1>1, <1>2 DEF Range
  <1>5. \A i \in DOMAIN Tail(q) : Tail(q)[i] \in Range(q)
    BY <1>3, Zenon DEF Range
  <1>6. Range(Tail(q)) \subseteq Range(q)
    BY <1>5, Zenon DEF Range
  <1> QED
    BY <1>1, <1>4, <1>6

LEMMA RangeConcat ==
  ASSUME NEW T, NEW q \in Seq(T), NEW r \in Seq(T)
  PROVE  q \o r \in Seq(T) /\ Range(q \o r) \subseteq Range(q) \cup Range(r)
  <1>1. /\ q \o r \in Seq(T) /\ Len(q \o r) = Len(q) + Len(r) /\ Len(q) \in Nat /\ Len(r) \in Nat
        /\ \A i \in 1..(Len(q) + Len(r)) : (q \o r)[i] = IF i <= Len(q) THEN q[i] ELSE r[i - Len(q)]
    BY ConcatProperties, LenProperties
  <1>2. ASSUME NEW i \in DOMAIN (q \o r) PROVE (q \o r)[i] \in Range(q) \cup Range(r)
    <2>1. i \in 1..(Len(q) + Len(r)) /\ DOMAIN q = 1..Len(q) /\ DOMAIN r = 1..Len(r)
      BY <1>1
    <2>2. CASE i <= Len(q)
      <3>1. i \in DOMAIN q /\ (q \o r)[i] = q[i]
        BY <1>1, <2>1, <2>2
      <3> QED
        BY <3>1 DEF Range
    <2>3. CASE ~(i <= Len(q))
      <3>1. i - Len(q) \in DOMAIN r /\ (q \o r)[i] = r[i - Len(q)]
        BY <1>1, <2>1, <2>3
      <3> QED
        BY <3>1 DEF Range
    <2> QED
      BY <2>2, <2>3
  <1> QED
    BY <1>1, <1>2 DEF Range

-----------------------------------------------------------------------------
(* The invariant, by what its parts are about *)

TableOK ==
  /\ up \in BOOLEAN /\ used \in BOOLEAN /\ kept \in BOOLEAN
  /\ registered \in [Ends -> BOOLEAN] /\ faults \in 0..MaxFaults
  /\ said \in [Ends -> [Conns -> 0..MaxData]]

IdsOK ==
  /\ svc \in {"lf", "rf", "agent", "tunnel"} /\ relay \in 1..MaxRelays
  /\ next \in 1..(MaxConns + 1)
  /\ cid \in [Conns -> 0..MaxConns] /\ born \in [Conns -> 0..MaxRelays]
  /\ NextInv /\ IdsInv

ChanOK == chan \in [Ends -> [Conns \cup {0} -> 0..MaxConns]] /\ ChanInv
SockOK == sock \in [Ends -> [Conns -> {"none", "open", "closed"}]] /\ SockInv
GotOK == got \in [Ends -> [Conns -> SUBSET Conns]] /\ GotInv /\ OwnBytes
EvOK == ev \in [Ends -> Seq(EventType)] /\ EventInv
WireOK == wire \in [Ends -> Seq(FrameType)] /\ FrameInv

LEMMA Parts == IInv <=> TableOK /\ IdsOK /\ ChanOK /\ SockOK /\ GotOK /\ EvOK /\ WireOK
  <1> DEFINE EventSeqs == Seq(EventType)  FrameSeqs == Seq(FrameType)
  <1>1. (got \in [Ends -> [Conns -> SUBSET Conns]])
          => \A e \in Ends, n \in Conns : got[e][n] \subseteq Conns
    OBVIOUS
  <1> HIDE DEF EventSeqs, FrameSeqs
  <1>2. TypeOK /\ QueuesInv <=>
          /\ TableOK
          /\ svc \in {"lf", "rf", "agent", "tunnel"} /\ relay \in 1..MaxRelays
          /\ next \in 1..(MaxConns + 1)
          /\ cid \in [Conns -> 0..MaxConns] /\ born \in [Conns -> 0..MaxRelays]
          /\ chan \in [Ends -> [Conns \cup {0} -> 0..MaxConns]]
          /\ sock \in [Ends -> [Conns -> {"none", "open", "closed"}]]
          /\ got \in [Ends -> [Conns -> SUBSET Conns]]
          /\ ev \in [Ends -> Seq(EventType)] /\ wire \in [Ends -> Seq(FrameType)]
    BY <1>1, Zenon DEF TypeOK, QueuesInv, TableOK
  <1> QED
    BY <1>2, Zenon DEF IInv, IdsOK, ChanOK, SockOK, GotOK, EvOK, WireOK

\* What connections have been given stays theirs.
Grows ==
  /\ svc' = svc
  /\ \A n \in Conns : cid[n] # 0 => cid'[n] = cid[n] /\ born'[n] = born[n]

LEMMA SameIdsGrow ==
  ASSUME UNCHANGED <<svc, cid, born>>
  PROVE  Grows
  BY DEF Grows

LEMMA GivenStays ==
  ASSUME Grows, NEW i, NEW n, Given(i, n)
  PROVE  Given(i, n)'
  BY DEF Grows, Given

LEMMA IdsKept ==
  ASSUME IdsOK, UNCHANGED <<svc, up, relay, ids>>
  PROVE  IdsOK'
  BY DEF IdsOK, NextInv, IdsInv, ids, Acceptor

LEMMA SockKept ==
  ASSUME SockOK, UNCHANGED <<svc, cid, sock>>
  PROVE  SockOK'
  BY DEF SockOK, SockInv, Acceptor

LEMMA ChanKept ==
  ASSUME ChanOK, Grows, UNCHANGED chan
  PROVE  ChanOK'
  <1>1. ASSUME NEW e \in Ends, NEW i \in Conns \cup {0}, chan[e][i] # 0 PROVE Given(i, chan[e][i])'
    BY <1>1, GivenStays DEF ChanOK, ChanInv
  <1> QED
    BY <1>1 DEF ChanOK, ChanInv, Given

LEMMA GotKept ==
  ASSUME GotOK, Grows, UNCHANGED got
  PROVE  GotOK'
  <1>1. ASSUME NEW e \in Ends, NEW m \in Conns, NEW n \in Conns, n \in got[e][m]
        PROVE  /\ cid'[m] # 0 /\ cid'[n] # 0
               /\ n # m => Acceptor' = "client" /\ born'[n] # born'[m]
    <2>1. cid[m] # 0 /\ cid[n] # 0 /\ (n # m => Acceptor = "client" /\ born[n] # born[m])
      BY <1>1, Zenon DEF GotOK, GotInv, OwnBytes
    <2> QED
      BY <2>1 DEF Grows, Acceptor
  <1> QED
    BY <1>1, Zenon DEF GotOK, GotInv, OwnBytes

LEMMA EvKept ==
  ASSUME EvOK, Grows, UNCHANGED ev
  PROVE  EvOK'
  <1>1. ASSUME NEW e \in Ends, NEW x \in Range(ev[e]), x.t # "stopped"
        PROVE  Given(cid[x.n], x.n)'
    <2>1. Given(cid[x.n], x.n)
      BY <1>1, Zenon DEF EvOK, EventInv
    <2> QED
      BY <2>1 DEF Grows, Given
  <1>2. EventInv'
    BY <1>1, Zenon DEF EvOK, EventInv
  <1> QED
    BY <1>2, Zenon DEF EvOK

LEMMA WireKept ==
  ASSUME WireOK, Grows, UNCHANGED wire
  PROVE  WireOK'
  <1>1. ASSUME NEW e \in Ends, NEW f \in Range(wire[e]), f.t \in {"open", "data"}
        PROVE  Given(f.id, f.of)'
    BY <1>1, GivenStays, Zenon DEF WireOK, FrameInv
  <1>2. FrameInv'
    BY <1>1, Zenon DEF WireOK, FrameInv
  <1> QED
    BY <1>2, Zenon DEF WireOK

\* Everything but the ids, after a step that leaves the tables, sockets and queues.
LEMMA RestKept ==
  ASSUME Grows
  PROVE  /\ ChanOK /\ UNCHANGED chan => ChanOK'
         /\ GotOK /\ UNCHANGED got => GotOK'
         /\ EvOK /\ UNCHANGED ev => EvOK'
         /\ WireOK /\ UNCHANGED wire => WireOK'
  BY ChanKept, GotKept, EvKept, WireKept, Zenon

-----------------------------------------------------------------------------
(* Frames put on the wire and taken off it *)

GoodFrame(f) == f \in FrameType /\ (f.t \in {"open", "data"} => Given(f.id, f.of))

LEMMA Peers == \A e \in Ends : Peer(e) \in Ends /\ Peer(e) # e
  BY DEF Peer, Ends

LEMMA FrameIs ==
  ASSUME NEW t \in {"setup", "ready", "stop", "open", "data", "close"},
         NEW i \in Conns \cup {0}, NEW n \in Conns \cup {0}
  PROVE  /\ Frame(t, i, n) \in FrameType
         /\ Frame(t, i, n).t = t /\ Frame(t, i, n).id = i /\ Frame(t, i, n).of = n
         /\ (t \in {"open", "data"} => Given(i, n)) => GoodFrame(Frame(t, i, n))
  BY DEF Frame, FrameType, GoodFrame

\* A queue of good frames, and what it becomes.
LEMMA WirePut ==
  ASSUME WireOK, Grows, NEW e \in Ends, NEW q \in Seq(FrameType),
         wire' = [wire EXCEPT ![e] = q],
         \A f \in Range(q) : GoodFrame(f)
  PROVE  WireOK'
  <1>1. wire' \in [Ends -> Seq(FrameType)]
    <2> DEFINE S == Seq(FrameType)
    <2>1. wire \in [Ends -> S] /\ q \in S
      BY DEF WireOK
    <2> HIDE DEF S
    <2>2. wire' \in [Ends -> S]
      BY <2>1
    <2> QED
      BY <2>2 DEF S
  <1>2. ASSUME NEW x \in Ends, NEW f \in Range(wire'[x]), f.t \in {"open", "data"}
        PROVE  Given(f.id, f.of)'
    <2>1. CASE x = e
      <3>1. wire'[x] = q
        BY <2>1 DEF WireOK
      <3>2. Given(f.id, f.of)
        BY <1>2, <3>1, Zenon DEF GoodFrame
      <3> QED
        BY <3>2, GivenStays, Zenon
    <2>2. CASE x # e
      <3>1. wire'[x] = wire[x]
        BY <2>2 DEF WireOK
      <3>2. Given(f.id, f.of)
        BY <1>2, <3>1, Zenon DEF WireOK, FrameInv
      <3> QED
        BY <3>2, GivenStays, Zenon
    <2> QED
      BY <2>1, <2>2
  <1>3. FrameInv'
    BY <1>2, Zenon DEF FrameInv
  <1> QED
    BY <1>1, <1>3, Zenon DEF WireOK

LEMMA GoodQueue ==
  ASSUME WireOK, NEW e \in Ends
  PROVE  wire[e] \in Seq(FrameType) /\ \A f \in Range(wire[e]) : GoodFrame(f)
  <1>1. wire[e] \in Seq(FrameType)
    <2> DEFINE S == Seq(FrameType)
    <2>1. wire \in [Ends -> S]
      BY DEF WireOK
    <2> HIDE DEF S
    <2>2. wire[e] \in S
      BY <2>1
    <2> QED
      BY <2>2 DEF S
  <1>2. ASSUME NEW f \in Range(wire[e]) PROVE f \in FrameType
    BY <1>1 DEF Range
  <1> QED
    BY <1>1, <1>2, Zenon DEF WireOK, FrameInv, GoodFrame

LEMMA Sent ==
  ASSUME WireOK, Grows, NEW e \in Ends, NEW f, GoodFrame(f), Send(e, f)
  PROVE  WireOK'
  <1> DEFINE q == Append(wire[Peer(e)], f)
  <1>1. Peer(e) \in Ends /\ f \in FrameType
    BY Peers DEF GoodFrame
  <1>2. wire[Peer(e)] \in Seq(FrameType) /\ \A g \in Range(wire[Peer(e)]) : GoodFrame(g)
    BY <1>1, GoodQueue, Zenon
  <1>3. q \in Seq(FrameType) /\ Range(q) \subseteq Range(wire[Peer(e)]) \cup {f}
    BY <1>1, <1>2, RangeAppend, Zenon
  <1>4. \A g \in Range(q) : GoodFrame(g)
    BY <1>2, <1>3
  <1>5. wire' = [wire EXCEPT ![Peer(e)] = q]
    BY Zenon DEF Send
  <1> QED
    BY <1>1, <1>3, <1>4, <1>5, WirePut, Zenon

LEMMA Taken ==
  ASSUME WireOK, Grows, NEW e \in Ends, NEW f, NEW answer \in Seq(FrameType),
         \A g \in Range(answer) : GoodFrame(g), Take(e, f, answer)
  PROVE  WireOK' /\ GoodFrame(f)
  <1> DEFINE p == Peer(e)
             rest == Tail(wire[e])
             reply == wire[p] \o answer
             mid == [wire EXCEPT ![e] = rest]
  <1>1. p \in Ends /\ p # e
    BY Peers
  <1>2. /\ wire[e] \in Seq(FrameType) /\ \A g \in Range(wire[e]) : GoodFrame(g)
        /\ wire[p] \in Seq(FrameType) /\ \A g \in Range(wire[p]) : GoodFrame(g)
    BY <1>1, GoodQueue, Zenon
  <1>3. wire[e] # <<>> /\ Head(wire[e]) = f
    BY DEF Take
  <1>4. rest \in Seq(FrameType) /\ Range(rest) \subseteq Range(wire[e]) /\ f \in Range(wire[e])
    BY <1>2, <1>3, RangeTail, Zenon
  <1>5. reply \in Seq(FrameType) /\ Range(reply) \subseteq Range(wire[p]) \cup Range(answer)
    BY <1>2, RangeConcat, Zenon
  <1>6. (\A g \in Range(rest) : GoodFrame(g)) /\ (\A g \in Range(reply) : GoodFrame(g))
    BY <1>2, <1>4, <1>5
  <1>7. /\ DOMAIN wire = Ends
        /\ \A x \in Ends : wire[x] \in Seq(FrameType) /\ \A g \in Range(wire[x]) : GoodFrame(g)
    BY GoodQueue, Zenon DEF WireOK
  <1>8. wire' = [x \in Ends |-> IF x = e THEN rest ELSE reply]
    <2>1. wire' = [wire EXCEPT ![e] = rest, ![p] = reply]
      <3>1. [wire EXCEPT ![e] = rest][p] = wire[p]
        BY <1>1, <1>7
      <3> QED
        BY <3>1, Zenon DEF Take
    <2>2. \A x \in Ends : x = e \/ x = p
      BY DEF Ends, Peer
    <2> QED
      BY <1>1, <1>7, <2>1, <2>2
  <1>9. ASSUME NEW x \in Ends
        PROVE  wire'[x] \in Seq(FrameType) /\ \A g \in Range(wire'[x]) : GoodFrame(g)
    <2>1. wire'[x] = rest \/ wire'[x] = reply
      BY <1>8, Zenon
    <2> QED
      BY <2>1, <1>4, <1>5, <1>6, Zenon
  <1>10. wire' \in [Ends -> Seq(FrameType)]
    BY <1>8, <1>9, Zenon
  <1>11. FrameInv'
    BY <1>9, GivenStays, Zenon DEF GoodFrame, FrameInv
  <1> QED
    BY <1>2, <1>4, <1>10, <1>11, Zenon DEF WireOK

-----------------------------------------------------------------------------
(* Events queued and taken *)

GoodEvent(x) == x \in EventType /\ (x.t # "stopped" => Given(cid[x.n], x.n))

LEMMA EventIs ==
  ASSUME NEW t \in {"accepted", "data", "closed", "stopped"}, NEW n \in Conns \cup {0}
  PROVE  Event(t, n) \in EventType /\ Event(t, n).t = t /\ Event(t, n).n = n
  BY DEF Event, EventType

LEMMA GoodEvents ==
  ASSUME EvOK, NEW e \in Ends
  PROVE  ev[e] \in Seq(EventType) /\ \A x \in Range(ev[e]) : GoodEvent(x)
  <1>1. ev[e] \in Seq(EventType)
    <2> DEFINE S == Seq(EventType)
    <2>1. ev \in [Ends -> S]
      BY DEF EvOK
    <2> HIDE DEF S
    <2>2. ev[e] \in S
      BY <2>1
    <2> QED
      BY <2>2 DEF S
  <1>2. ASSUME NEW x \in Range(ev[e]) PROVE x \in EventType
    BY <1>1 DEF Range
  <1> QED
    BY <1>1, <1>2, Zenon DEF EvOK, EventInv, GoodEvent

\* An end's queue becomes q, whose events are old ones or are of connections that
\* have their ids after the step.
LEMMA EvPut ==
  ASSUME EvOK, Grows, NEW e \in Ends, NEW q \in Seq(EventType),
         ev' = [ev EXCEPT ![e] = q],
         \A x \in Range(q) : x \in Range(ev[e]) \/ (x.t # "stopped" => Given(cid[x.n], x.n)')
  PROVE  EvOK'
  <1>1. ev' \in [Ends -> Seq(EventType)]
    <2> DEFINE S == Seq(EventType)
    <2>1. ev \in [Ends -> S] /\ q \in S
      BY DEF EvOK
    <2> HIDE DEF S
    <2>2. ev' \in [Ends -> S]
      BY <2>1
    <2> QED
      BY <2>2 DEF S
  <1>2. ASSUME NEW y \in Ends, NEW x \in Range(ev[y]), x.t # "stopped"
        PROVE  Given(cid[x.n], x.n)'
    <2>1. Given(cid[x.n], x.n)
      BY <1>2, Zenon DEF EvOK, EventInv
    <2> QED
      BY <2>1 DEF Grows, Given
  <1>3. ASSUME NEW y \in Ends, NEW x \in Range(ev'[y]), x.t # "stopped"
        PROVE  Given(cid[x.n], x.n)'
    <2>1. CASE y = e
      <3>1. ev'[y] = q
        BY <2>1 DEF EvOK
      <3> QED
        BY <1>2, <1>3, <3>1, Zenon
    <2>2. CASE y # e
      <3>1. ev'[y] = ev[y]
        BY <2>2 DEF EvOK
      <3> QED
        BY <1>2, <1>3, <3>1, Zenon
    <2> QED
      BY <2>1, <2>2
  <1>4. EventInv'
    BY <1>3, Zenon DEF EventInv
  <1> QED
    BY <1>1, <1>4, Zenon DEF EvOK

LEMMA Queued ==
  ASSUME EvOK, Grows, NEW e \in Ends, NEW x \in EventType,
         x.t # "stopped" => Given(cid[x.n], x.n)', Queue(e, x)
  PROVE  EvOK'
  <1> DEFINE q == Append(ev[e], x)
  <1>1. ev[e] \in Seq(EventType)
    BY GoodEvents, Zenon
  <1>2. q \in Seq(EventType) /\ Range(q) \subseteq Range(ev[e]) \cup {x}
    BY <1>1, RangeAppend, Zenon
  <1>3. ev' = [ev EXCEPT ![e] = q]
    BY Zenon DEF Queue
  <1>4. \A y \in Range(q) : y \in Range(ev[e]) \/ y = x
    BY <1>2
  <1> HIDE DEF q
  <1>5. \A y \in Range(q) : y \in Range(ev[e]) \/ (y.t # "stopped" => Given(cid[y.n], y.n)')
    BY <1>4, Zenon
  <1> QED
    BY <1>2, <1>3, <1>5, EvPut, Zenon

LEMMA EventTaken ==
  ASSUME EvOK, Grows, NEW e \in Ends, ev[e] # <<>>, ev' = [ev EXCEPT ![e] = Tail(@)]
  PROVE  EvOK' /\ GoodEvent(Head(ev[e]))
  <1> DEFINE q == Tail(ev[e])
  <1>1. ev[e] \in Seq(EventType) /\ \A x \in Range(ev[e]) : GoodEvent(x)
    BY GoodEvents, Zenon
  <1>2. q \in Seq(EventType) /\ Range(q) \subseteq Range(ev[e]) /\ Head(ev[e]) \in Range(ev[e])
    BY <1>1, RangeTail, Zenon
  <1>3. ev' = [ev EXCEPT ![e] = q]
    BY Zenon
  <1>4. \A y \in Range(q) : y \in Range(ev[e])
    BY <1>2
  <1> HIDE DEF q
  <1>5. EvOK'
    BY <1>2, <1>3, <1>4, EvPut, Zenon
  <1> QED
    BY <1>1, <1>2, <1>5, Zenon

-----------------------------------------------------------------------------
(* The tables and the sockets *)

LEMMA ChanPut ==
  ASSUME ChanOK, Grows, MaxConns \in Nat, NEW e \in Ends, NEW i \in Conns \cup {0}, NEW m,
         m = 0 \/ Given(i, m), chan' = [chan EXCEPT ![e][i] = m]
  PROVE  ChanOK'
  <1>1. m \in 0..MaxConns
    BY DEF Given, Conns
  <1>2. chan' \in [Ends -> [Conns \cup {0} -> 0..MaxConns]]
    BY <1>1 DEF ChanOK
  <1>3. ASSUME NEW x \in Ends, NEW j \in Conns \cup {0}, chan'[x][j] # 0
        PROVE  Given(j, chan[x][j])'
    <2>1. chan'[x][j] = IF x = e /\ j = i THEN m ELSE chan[x][j]
      BY DEF ChanOK
    <2>2. Given(j, chan'[x][j])
      BY <1>3, <2>1, Zenon DEF ChanOK, ChanInv
    <2> QED
      BY <2>2 DEF Grows, Given
  <1> QED
    BY <1>2, <1>3, Zenon DEF ChanOK, ChanInv

LEMMA ChanForgot ==
  ASSUME ChanOK, Grows, MaxConns \in Nat, NEW E \in SUBSET Ends,
         chan' = [e \in Ends |-> IF e \in E THEN NoChannels ELSE chan[e]]
  PROVE  ChanOK'
  <1>1. NoChannels \in [Conns \cup {0} -> 0..MaxConns] /\ \A j \in Conns \cup {0} : NoChannels[j] = 0
    BY DEF NoChannels
  <1>2. chan' \in [Ends -> [Conns \cup {0} -> 0..MaxConns]]
    BY <1>1 DEF ChanOK
  <1>3. ASSUME NEW x \in Ends, NEW j \in Conns \cup {0}, chan'[x][j] # 0
        PROVE  Given(j, chan[x][j])'
    <2>1. chan'[x] = chan[x]
      BY <1>1, <1>3
    <2>2. Given(j, chan'[x][j])
      BY <1>3, <2>1, Zenon DEF ChanOK, ChanInv
    <2> QED
      BY <2>2 DEF Grows, Given
  <1> QED
    BY <1>2, <1>3, Zenon DEF ChanOK, ChanInv

LEMMA Forgotten ==
  ASSUME TableOK, ChanOK, Grows, MaxConns \in Nat, NEW e \in Ends, Forget(e)
  PROVE  ChanOK' /\ registered' \in [Ends -> BOOLEAN]
  <1>1. chan' = [x \in Ends |-> IF x \in {e} THEN NoChannels ELSE chan[x]]
    BY DEF Forget, ChanOK
  <1>2. ChanOK'
    BY <1>1, ChanForgot, {e} \in SUBSET Ends
  <1>3. registered' \in [Ends -> BOOLEAN]
    BY Zenon DEF Forget, TableOK
  <1> QED
    BY <1>2, <1>3

\* A socket is opened or closed of a connection that has its id.
LEMMA SockPut ==
  ASSUME SockOK, NEW e \in Ends, NEW n \in Conns, NEW s \in {"open", "closed"},
         cid[n] # 0, sock' = [sock EXCEPT ![e][n] = s], UNCHANGED <<svc, cid>>
  PROVE  SockOK'
  <1>1. Acceptor' = Acceptor /\ Acceptor \in Ends
    BY DEF Acceptor, Ends
  <1>2. sock' \in [Ends -> [Conns -> {"none", "open", "closed"}]]
    BY DEF SockOK
  <1>3. \A x \in Ends, k \in Conns : sock'[x][k] = IF x = e /\ k = n THEN s ELSE sock[x][k]
    BY DEF SockOK
  <1>4. s # "none" /\ cid' = cid
    OBVIOUS
  <1>5. SockInv'
    BY <1>1, <1>3, <1>4, Zenon DEF SockOK, SockInv
  <1> QED
    BY <1>2, <1>5, Zenon DEF SockOK

\* The bytes of a connection are written to one with the same id.
LEMMA GotPut ==
  ASSUME GotOK, IdsOK, UNCHANGED <<svc, cid, born>>, NEW e \in Ends, NEW i,
         NEW m, NEW n, Given(i, m), Given(i, n), got' = [got EXCEPT ![e][m] = @ \cup {n}]
  PROVE  GotOK'
  <1>1. m \in Conns /\ n \in Conns /\ cid[m] # 0 /\ cid[n] # 0 /\ cid[m] = cid[n]
    BY DEF Given
  <1>2. n # m => Acceptor = "client" /\ born[n] # born[m]
    BY <1>1, Zenon DEF IdsOK, IdsInv
  <1>3. Acceptor' = Acceptor /\ cid' = cid /\ born' = born
    BY DEF Acceptor
  <1>4. got' \in [Ends -> [Conns -> SUBSET Conns]]
    BY <1>1 DEF GotOK
  <1>5. ASSUME NEW x \in Ends, NEW a \in Conns, NEW b \in Conns, b \in got'[x][a]
        PROVE  b \in got[x][a] \/ (a = m /\ b = n)
    BY <1>1, <1>5 DEF GotOK
  <1>6. GotInv'
    BY <1>1, <1>3, <1>5, Zenon DEF GotOK, GotInv
  <1>7. ASSUME NEW x \in Ends, NEW a \in Conns, NEW b \in Conns, b \in got'[x][a], b # a
        PROVE  Acceptor' = "client" /\ born'[b] # born'[a]
    <2>1. CASE b \in got[x][a]
      BY <1>3, <1>7, <2>1, Zenon DEF GotOK, OwnBytes
    <2>2. CASE a = m /\ b = n
      BY <1>2, <1>3, <1>7, <2>2, Zenon
    <2> QED
      BY <1>5, <1>7, <2>1, <2>2, Zenon
  <1>8. OwnBytes'
    BY <1>7, Zenon DEF OwnBytes
  <1> QED
    BY <1>4, <1>6, <1>8, Zenon DEF GotOK

-----------------------------------------------------------------------------
(* The steps *)

LEMMA FailCounts ==
  ASSUME BoundsAssumption, faults \in 0..MaxFaults, Fail
  PROVE  faults' \in 0..MaxFaults
  BY DEF BoundsAssumption, Fail

LEMMA Initially ==
  ASSUME BoundsAssumption, Init
  PROVE  IInv
  <1>1. MaxConns \in Nat /\ MaxData \in Nat /\ MaxFaults \in Nat /\ MaxRelays \in Nat \ {0}
    BY DEF BoundsAssumption
  <1>2. TableOK
    <2>1. registered \in [Ends -> BOOLEAN] /\ up \in BOOLEAN /\ used \in BOOLEAN /\ kept \in BOOLEAN
      BY Zenon DEF Init
    <2>2. faults \in 0..MaxFaults /\ said \in [Ends -> [Conns -> 0..MaxData]]
      BY <1>1 DEF Init
    <2> QED
      BY <2>1, <2>2, Zenon DEF TableOK
  <1>3. IdsOK
    <2>1. NextInv
      BY <1>1 DEF Init, NextInv, Conns
    <2>2. IdsInv
      BY DEF Init, IdsInv
    <2> QED
      BY <1>1, <2>1, <2>2 DEF Init, IdsOK
  <1>4. ChanOK
    BY <1>1 DEF Init, ChanOK, ChanInv, NoChannels
  <1>5. SockOK
    <2>1. Acceptor \in Ends
      BY DEF Acceptor, Ends
    <2>2. SockInv
      BY <2>1 DEF Init, SockInv
    <2> QED
      BY <2>2 DEF Init, SockOK
  <1>6. GotOK
    BY DEF Init, GotOK, GotInv, OwnBytes
  <1>7. Range(<<>>) = {} /\ <<>> \in Seq(EventType) /\ <<>> \in Seq(FrameType)
    BY DEF Range
  <1>8. EvOK
    BY <1>7, Zenon DEF Init, EvOK, EventInv
  <1>9. WireOK
    BY <1>7, Zenon DEF Init, WireOK, FrameInv
  <1> QED
    BY Parts, <1>2, <1>3, <1>4, <1>5, <1>6, <1>8, <1>9, Zenon

LEMMA StutterKeeps ==
  ASSUME IInv, UNCHANGED vars
  PROVE  IInv'
  <1>1. TableOK /\ IdsOK /\ ChanOK /\ SockOK /\ GotOK /\ EvOK /\ WireOK
    BY Parts, Zenon
  <1>2. TableOK'
    BY <1>1 DEF TableOK, vars, tables, socks
  <1>3. Grows /\ IdsOK'
    BY <1>1, SameIdsGrow, IdsKept DEF vars, ids
  <1>4. SockOK'
    BY <1>1, SockKept DEF vars, ids, socks
  <1>5. ChanOK' /\ GotOK' /\ EvOK' /\ WireOK'
    BY <1>1, <1>3, RestKept DEF vars, tables, socks
  <1> QED
    BY Parts, <1>2, <1>3, <1>4, <1>5, PTL

LEMMA BeginKeeps ==
  ASSUME IInv, NEW e \in Ends, Begin(e), kept' \in BOOLEAN
  PROVE  IInv'
  <1>1. TableOK /\ IdsOK /\ ChanOK /\ SockOK /\ GotOK /\ EvOK /\ WireOK
    BY Parts, Zenon
  <1>2. TableOK'
    BY <1>1 DEF Begin, TableOK, socks
  <1>3. Grows /\ IdsOK'
    BY <1>1, SameIdsGrow, IdsKept DEF Begin, ids
  <1>4. SockOK'
    BY <1>1, SockKept DEF Begin, ids, socks
  <1>5. ChanOK' /\ GotOK' /\ EvOK'
    BY <1>1, <1>3, RestKept DEF Begin, socks
  <1>6. GoodFrame(Frame("setup", 0, 0)) /\ Send(e, Frame("setup", 0, 0))
    BY FrameIs DEF Begin
  <1>7. WireOK'
    BY <1>1, <1>3, <1>6, Sent, Zenon
  <1> QED
    BY Parts, <1>2, <1>3, <1>4, <1>5, <1>7, PTL

LEMMA KeepaliveKeeps ==
  ASSUME BoundsAssumption, IInv, KeepaliveEnds
  PROVE  IInv'
  <1>1. TableOK /\ IdsOK /\ ChanOK /\ SockOK /\ GotOK /\ EvOK /\ WireOK
    BY Parts, Zenon
  <1>2. TableOK'
    <2>1. faults' \in 0..MaxFaults
      BY <1>1, FailCounts DEF KeepaliveEnds, TableOK
    <2>2. UNCHANGED <<up, used, registered, said>> /\ kept' = FALSE
      BY DEF KeepaliveEnds, socks
    <2> QED
      BY <1>1, <2>1, <2>2, Zenon DEF TableOK
  <1>3. Grows /\ IdsOK'
    BY <1>1, SameIdsGrow, IdsKept DEF KeepaliveEnds, ids
  <1>4. SockOK'
    BY <1>1, SockKept DEF KeepaliveEnds, ids, socks
  <1>5. ChanOK' /\ GotOK' /\ WireOK'
    BY <1>1, <1>3, RestKept DEF KeepaliveEnds, socks
  <1>6. /\ Event("stopped", 0) \in EventType /\ Event("stopped", 0).t = "stopped"
        /\ Queue("client", Event("stopped", 0)) /\ "client" \in Ends
    BY EventIs DEF KeepaliveEnds, Ends
  <1>7. EvOK'
    BY <1>1, <1>3, <1>6, Queued, Zenon
  <1> QED
    BY Parts, <1>2, <1>3, <1>4, <1>5, <1>7, PTL

LEMMA IdleKeeps ==
  ASSUME BoundsAssumption, IInv, TunnelIdle
  PROVE  IInv'
  <1>1. TableOK /\ IdsOK /\ ChanOK /\ SockOK /\ GotOK /\ EvOK /\ WireOK
    BY Parts, Zenon
  <1>2. Grows /\ IdsOK'
    BY <1>1, SameIdsGrow, IdsKept DEF TunnelIdle, ids
  <1>3. ChanOK' /\ registered' \in [Ends -> BOOLEAN]
    BY <1>1, <1>2, Forgotten DEF TunnelIdle, Ends, BoundsAssumption
  <1>4. TableOK'
    BY <1>1, <1>3 DEF TunnelIdle, TableOK, socks
  <1>5. SockOK'
    BY <1>1, SockKept DEF TunnelIdle, ids, socks
  <1>6. GotOK' /\ EvOK' /\ WireOK'
    BY <1>1, <1>2, RestKept DEF TunnelIdle, socks
  <1> QED
    BY Parts, <1>2, <1>3, <1>4, <1>5, <1>6, PTL

LEMMA DrainKeeps ==
  ASSUME IInv, DrainEvents
  PROVE  IInv'
  <1>1. TableOK /\ IdsOK /\ ChanOK /\ SockOK /\ GotOK /\ EvOK /\ WireOK
    BY Parts, Zenon
  <1>2. Grows /\ IdsOK'
    BY <1>1, SameIdsGrow, IdsKept DEF DrainEvents, ids
  <1>3. TableOK'
    BY <1>1 DEF DrainEvents, TableOK, tables, socks
  <1>4. SockOK'
    BY <1>1, SockKept DEF DrainEvents, ids, socks
  <1>5. ChanOK' /\ GotOK' /\ WireOK'
    BY <1>1, <1>2, RestKept DEF DrainEvents, tables, socks
  <1>6. "server" \in Ends /\ ev["server"] # <<>> /\ ev' = [ev EXCEPT !["server"] = Tail(@)]
    BY DEF DrainEvents, Ends
  <1>7. EvOK'
    BY <1>1, <1>2, <1>6, EventTaken, Zenon
  <1> QED
    BY Parts, <1>2, <1>3, <1>4, <1>5, <1>7, PTL

LEMMA ReadKeeps ==
  ASSUME BoundsAssumption, IInv, NEW e \in Ends, NEW n \in Conns, Read(e, n)
  PROVE  IInv'
  <1>1. TableOK /\ IdsOK /\ ChanOK /\ SockOK /\ GotOK /\ EvOK /\ WireOK
    BY Parts, Zenon
  <1>2. Grows /\ IdsOK'
    BY <1>1, SameIdsGrow, IdsKept DEF Read, ids
  <1>3. TableOK'
    <2>1. said' \in [Ends -> [Conns -> 0..MaxData]]
      BY <1>1 DEF Read, TableOK, BoundsAssumption
    <2> QED
      BY <1>1, <2>1 DEF Read, TableOK, tables
  <1>4. SockOK'
    BY <1>1, SockKept DEF Read, ids
  <1>5. ChanOK' /\ GotOK' /\ WireOK'
    BY <1>1, <1>2, RestKept DEF Read, tables
  <1>6. /\ Event("data", n) \in EventType /\ Event("data", n).n = n
        /\ Queue(e, Event("data", n))
    BY EventIs DEF Read
  <1>7. Given(cid[n], n) /\ cid' = cid
    BY <1>1 DEF Read, SockOK, SockInv, Given, ids
  <1>8. Given(cid[Event("data", n).n], Event("data", n).n)'
    BY <1>6, <1>7 DEF Given
  <1>9. EvOK'
    BY <1>1, <1>2, <1>6, <1>8, Queued, Zenon
  <1> QED
    BY Parts, <1>2, <1>3, <1>4, <1>5, <1>9, PTL

LEMMA ReadEofKeeps ==
  ASSUME IInv, NEW e \in Ends, NEW n \in Conns, ReadEof(e, n)
  PROVE  IInv'
  <1>1. TableOK /\ IdsOK /\ ChanOK /\ SockOK /\ GotOK /\ EvOK /\ WireOK
    BY Parts, Zenon
  <1>2. Grows /\ IdsOK'
    BY <1>1, SameIdsGrow, IdsKept DEF ReadEof, ids
  <1>3. TableOK'
    BY <1>1 DEF ReadEof, TableOK, tables
  <1>4. ChanOK' /\ GotOK' /\ WireOK'
    BY <1>1, <1>2, RestKept DEF ReadEof, tables
  <1>5. Given(cid[n], n) /\ cid' = cid /\ cid[n] # 0
    BY <1>1 DEF ReadEof, SockOK, SockInv, Given, ids
  <1>6. SockOK'
    BY <1>1, <1>5, SockPut DEF ReadEof
  <1>7. /\ Event("closed", n) \in EventType /\ Event("closed", n).n = n
        /\ Queue(e, Event("closed", n))
    BY EventIs DEF ReadEof
  <1>8. Given(cid[Event("closed", n).n], Event("closed", n).n)'
    BY <1>5, <1>7 DEF Given
  <1>9. EvOK'
    BY <1>1, <1>2, <1>7, <1>8, Queued, Zenon
  <1> QED
    BY Parts, <1>2, <1>3, <1>4, <1>6, <1>9, PTL

LEMMA AttachKeeps ==
  ASSUME BoundsAssumption, IInv, Attach
  PROVE  IInv'
  <1>1. TableOK /\ IdsOK /\ ChanOK /\ SockOK /\ GotOK /\ EvOK /\ WireOK
    BY Parts, Zenon
  <1>2. Grows
    BY SameIdsGrow DEF Attach, ids
  <1>3. TableOK'
    BY <1>1 DEF Attach, TableOK, tables, socks
  <1>4. SockOK'
    BY <1>1, SockKept DEF Attach, ids, socks
  <1>5. ChanOK' /\ GotOK' /\ EvOK' /\ WireOK'
    BY <1>1, <1>2, RestKept DEF Attach, tables, socks
  <1>6. /\ svc' = svc /\ next' = next /\ cid' = cid /\ born' = born /\ Acceptor' = Acceptor
        /\ relay' = relay + 1 /\ relay' \in 1..MaxRelays /\ relay \in Nat
    BY <1>1 DEF Attach, ids, Acceptor, IdsOK, BoundsAssumption
  <1>7. \A n \in Conns : born[n] <= relay /\ born[n] \in Nat
    BY <1>1 DEF IdsOK, NextInv
  <1>8. NextInv'
    <2>1. ASSUME NEW n \in Conns PROVE born[n] <= relay + 1 /\ born[n] # relay + 1
      BY <1>6, <1>7
    <2> QED
      BY <1>1, <1>6, <2>1 DEF IdsOK, NextInv
  <1>9. IdsOK'
    BY <1>1, <1>6, <1>8 DEF IdsOK, IdsInv
  <1> QED
    BY Parts, <1>3, <1>4, <1>5, <1>9, PTL

LEMMA DisconnectKeeps ==
  ASSUME BoundsAssumption, IInv, Disconnect
  PROVE  IInv'
  <1>1. TableOK /\ IdsOK /\ ChanOK /\ SockOK /\ GotOK /\ EvOK /\ WireOK
    BY Parts, Zenon
  <1>2. Grows
    BY SameIdsGrow DEF Disconnect
  <1>3. TableOK'
    <2>1. UNCHANGED <<said, faults>> /\ up' = FALSE /\ used' = FALSE /\ kept' = FALSE
      BY DEF Disconnect
    <2>2. registered' \in [Ends -> BOOLEAN]
      BY Zenon DEF Disconnect
    <2> QED
      BY <1>1, <2>1, <2>2, Zenon DEF TableOK
  <1>4. IdsOK'
    <2>1. /\ UNCHANGED <<svc, relay, cid, born>> /\ up' = FALSE /\ Acceptor' = Acceptor
          /\ next' = 1 \/ next' = next
          /\ Acceptor = "server" => next' = next
      BY DEF Disconnect, Acceptor, NextRelaysFirstId
    <2>2. next' \in 1..(MaxConns + 1) /\ (Acceptor = "server" => next' = next)
      BY <1>1, <2>1 DEF IdsOK, BoundsAssumption, Disconnect, NextRelaysFirstId
    <2>3. \A n \in Conns : cid[n] = 0 => next' <= n
      BY <1>1, <2>1 DEF IdsOK, NextInv, Conns, BoundsAssumption
    <2>4. NextInv'
      BY <1>1, <2>1, <2>2, <2>3 DEF IdsOK, NextInv
    <2> QED
      BY <1>1, <2>1, <2>2, <2>4 DEF IdsOK, IdsInv
  <1>5. SockOK'
    <2>1. Acceptor' = Acceptor /\ Acceptor \in Ends /\ cid' = cid
      BY DEF Disconnect, Acceptor, Ends
    <2>2. sock' = [sock EXCEPT !["client"] = [n \in Conns |-> IF @[n] = "open" THEN "closed" ELSE @[n]]]
      BY DEF Disconnect
    <2>3. \A e \in Ends, n \in Conns :
             /\ sock'[e][n] \in {"none", "open", "closed"}
             /\ sock'[e][n] = "none" <=> sock[e][n] = "none"
      BY <1>1, <2>2 DEF SockOK, Ends
    <2>4. sock' \in [Ends -> [Conns -> {"none", "open", "closed"}]]
      BY <1>1, <2>2 DEF SockOK, Ends
    <2>5. SockInv'
      BY <1>1, <2>1, <2>3, Zenon DEF SockOK, SockInv
    <2> QED
      BY <2>4, <2>5, Zenon DEF SockOK
  <1>6. ChanOK'
    <2>1. chan' = [e \in Ends |-> IF e \in Ends THEN NoChannels ELSE chan[e]]
      BY DEF Disconnect
    <2> QED
      BY <1>1, <1>2, <2>1, ChanForgot, Ends \in SUBSET Ends DEF BoundsAssumption
  <1>7. GotOK'
    BY <1>1, <1>2, GotKept DEF Disconnect
  <1>8. EvOK'
    <2>1. <<>> \in Seq(EventType) /\ Range(<<>>) = {} /\ "client" \in Ends
      BY DEF Range, Ends
    <2>2. ev' = [ev EXCEPT !["client"] = <<>>]
      BY DEF Disconnect
    <2>3. \A x \in Range(<<>>) : x \in Range(ev["client"]) \/ (x.t # "stopped" => Given(cid[x.n], x.n)')
      BY <2>1
    <2> QED
      BY <1>1, <1>2, <2>1, <2>2, <2>3, EvPut, Zenon
  <1>9. WireOK'
    <2>1. <<>> \in Seq(FrameType) /\ Range(<<>>) = {}
      BY DEF Range
    <2>2. wire' = [e \in Ends |-> <<>>]
      BY DEF Disconnect
    <2>3. wire' \in [Ends -> Seq(FrameType)] /\ \A e \in Ends : Range(wire'[e]) = {}
      BY <2>1, <2>2, Zenon
    <2> QED
      BY <2>3, Zenon DEF WireOK, FrameInv
  <1> QED
    BY Parts, <1>3, <1>4, <1>5, <1>6, <1>7, <1>8, <1>9, PTL

\* The first connection not accepted yet gets the next id, and no other has it.
LEMMA AcceptKeeps ==
  ASSUME BoundsAssumption, IInv, NEW n \in Conns, Accept(n)
  PROVE  IInv'
  <1> DEFINE e == Acceptor
  <1>1. TableOK /\ IdsOK /\ ChanOK /\ SockOK /\ GotOK /\ EvOK /\ WireOK
    BY Parts, Zenon
  <1>2. /\ up /\ sock[e][n] = "none" /\ \A k \in 1..(n - 1) : sock[e][k] # "none"
        /\ sock' = [sock EXCEPT ![e][n] = "open"]
        /\ cid' = [cid EXCEPT ![n] = next] /\ next' = next + 1
        /\ born' = [born EXCEPT ![n] = relay]
        /\ Queue(e, Event("accepted", n))
        /\ UNCHANGED <<svc, up, relay, tables, said, got, wire, faults>>
    BY DEF Accept
  <1>3. Acceptor' = Acceptor /\ Acceptor \in Ends /\ Acceptor \in {"server", "client"}
    BY <1>2 DEF Acceptor, Ends
  <1>4. MaxConns \in Nat /\ MaxRelays \in Nat /\ n \in 1..MaxConns
    BY DEF BoundsAssumption, Conns
  <1>5. cid[n] = 0 /\ next <= n /\ next \in 1..MaxConns
    <2>1. cid[n] = 0
      BY <1>1, <1>2, <1>3, Zenon DEF SockOK, SockInv
    <2>2. next <= n /\ next \in 1..(MaxConns + 1)
      BY <1>1, <2>1 DEF IdsOK, NextInv
    <2> QED
      BY <1>4, <2>1, <2>2
  <1>6. ASSUME NEW k \in Conns
        PROVE  /\ cid'[k] = (IF k = n THEN next ELSE cid[k])
               /\ born'[k] = (IF k = n THEN relay ELSE born[k])
               /\ cid[k] \in 0..MaxConns /\ born[k] \in 0..MaxRelays /\ born[k] <= relay
    BY <1>1, <1>2 DEF IdsOK, NextInv
  <1>7. Grows
    BY <1>2, <1>5, <1>6 DEF Grows
  <1>8. ChanOK' /\ GotOK' /\ WireOK'
    BY <1>1, <1>2, <1>7, RestKept DEF tables
  <1>9. TableOK'
    BY <1>1, <1>2 DEF TableOK, tables
  <1>10. EvOK'
    <2>1. Event("accepted", n) \in EventType /\ Event("accepted", n).n = n
      BY EventIs
    <2>2. Given(cid[n], n)'
      BY <1>5, <1>6 DEF Given
    <2>3. Given(cid[Event("accepted", n).n], Event("accepted", n).n)'
      BY <2>1, <2>2 DEF Given
    <2> QED
      BY <1>1, <1>2, <1>3, <1>7, <2>1, <2>3, Queued, Zenon
  <1>11. SockOK'
    <2>1. sock' \in [Ends -> [Conns -> {"none", "open", "closed"}]]
      BY <1>1, <1>2, <1>3 DEF SockOK
    <2>2. \A x \in Ends, k \in Conns : sock'[x][k] = IF x = e /\ k = n THEN "open" ELSE sock[x][k]
      BY <1>1, <1>2, <1>3 DEF SockOK
    <2>3. "open" # "none" /\ next # 0
      BY <1>5
    <2> HIDE DEF e
    <2>4. ASSUME NEW k \in Conns, cid'[k] # 0 PROVE sock'[Acceptor][k] # "none"
      BY <1>1, <1>3, <1>6, <2>2, <2>3, <2>4, Zenon DEF SockOK, SockInv, e
    <2>5. ASSUME NEW x \in Ends, NEW k \in Conns, sock'[x][k] # "none" PROVE cid'[k] # 0
      <3>1. CASE k = n
        BY <1>6, <2>3, <3>1, Zenon
      <3>2. CASE k # n
        <4>1. sock[x][k] # "none"
          BY <2>2, <2>5, <3>2, Zenon
        <4> QED
          BY <1>1, <1>6, <3>2, <4>1, Zenon DEF SockOK, SockInv
      <3> QED
        BY <3>1, <3>2
    <2>6. SockInv'
      BY <1>3, <2>4, <2>5, Zenon DEF SockInv
    <2> QED
      BY <2>1, <2>6, Zenon DEF SockOK
  <1>12. IdsOK'
    <2>1. /\ next' \in 1..(MaxConns + 1)
          /\ cid' \in [Conns -> 0..MaxConns] /\ born' \in [Conns -> 0..MaxRelays]
      BY <1>1, <1>2, <1>4, <1>5 DEF IdsOK
    <2>2. ASSUME NEW k \in Conns, cid'[k] = 0 PROVE next + 1 <= k
      <3>1. k # n /\ cid[k] = 0
        BY <1>5, <1>6, <2>2
      <3>2. sock[e][k] = "none"
        BY <1>1, <1>3, <3>1, Zenon DEF SockOK, SockInv
      <3>3. k \notin 1..(n - 1) /\ k \in Nat \ {0}
        BY <1>2, <3>2 DEF Conns
      <3> QED
        BY <1>4, <1>5, <3>1, <3>3
    <2>3. relay \in Nat \ {0} /\ relay \in 1..MaxRelays
      BY <1>1, <1>4 DEF IdsOK
    <2>4. ASSUME NEW k \in Conns PROVE born'[k] <= relay /\ (cid'[k] = 0 => born'[k] = 0)
      <3>1. cid[k] = 0 => born[k] = 0
        BY <1>1 DEF IdsOK, NextInv
      <3> QED
        BY <1>5, <1>6, <2>3, <3>1
    <2>5. ASSUME NEW k \in Conns, Acceptor = "server" \/ born[k] = relay PROVE cid[k] < next
      BY <1>1, <1>2, <2>5 DEF IdsOK, NextInv
    <2>6. ASSUME NEW k \in Conns, Acceptor = "server" \/ born'[k] = relay PROVE cid'[k] < next + 1
      <3>1. CASE k = n
        BY <1>5, <1>6, <3>1
      <3>2. CASE k # n
        <4>1. cid[k] < next /\ cid'[k] = cid[k] /\ cid[k] \in Nat
          BY <1>4, <1>6, <2>5, <2>6, <3>2
        <4> QED
          BY <4>1, <1>5
      <3> QED
        BY <3>1, <3>2
    <2>7. NextInv'
      BY <1>2, <1>3, <2>2, <2>4, <2>6 DEF NextInv
    <2>8. ASSUME NEW k \in Conns, k # n, cid[k] = next PROVE Acceptor = "client" /\ born[k] # relay
      <3>1. ~(cid[k] < next)
        BY <1>5, <2>8
      <3> QED
        BY <1>3, <2>5, <3>1, Zenon
    <2>9. ASSUME NEW j \in Conns, NEW k \in Conns, cid'[j] = cid'[k], cid'[j] # 0, j # k
          PROVE  Acceptor = "client" /\ born'[j] # born'[k]
      <3>1. CASE j = n
        BY <1>6, <2>8, <2>9, <3>1, Zenon
      <3>2. CASE k = n
        BY <1>6, <2>8, <2>9, <3>2, Zenon
      <3>3. CASE j # n /\ k # n
        BY <1>1, <1>6, <2>9, <3>3, Zenon DEF IdsOK, IdsInv
      <3> QED
        BY <3>1, <3>2, <3>3
    <2>10. IdsInv'
      BY <1>3, <2>9, Zenon DEF IdsInv
    <2> QED
      BY <1>1, <1>2, <2>1, <2>7, <2>10 DEF IdsOK
  <1> QED
    BY Parts, <1>8, <1>9, <1>10, <1>11, <1>12, PTL

\* An event is handled: the table and the frame are of the connection it is about.
LEMMA EventKeeps ==
  ASSUME BoundsAssumption, IInv, NEW e \in Ends, HandleEvent(e)
  PROVE  IInv'
  <1> DEFINE x == Head(ev[e])
  <1>1. TableOK /\ IdsOK /\ ChanOK /\ SockOK /\ GotOK /\ EvOK /\ WireOK
    BY Parts, Zenon
  <1>2. UNCHANGED <<svc, up, relay, used, kept, ids, socks, faults>>
    BY DEF HandleEvent
  <1>3. Grows /\ IdsOK'
    BY <1>1, <1>2, SameIdsGrow, IdsKept DEF ids
  <1>4. SockOK' /\ GotOK'
    BY <1>1, <1>2, <1>3, SockKept, RestKept DEF ids, socks
  <1>5. EvOK' /\ GoodEvent(x)
    BY <1>1, <1>3, EventTaken DEF HandleEvent
  <1>6. MaxConns \in Nat
    BY DEF BoundsAssumption
  <1>7. ASSUME x.t # "stopped"
        PROVE  /\ x.n \in Conns /\ cid[x.n] # 0 /\ cid[x.n] \in Conns \cup {0}
               /\ Given(cid[x.n], x.n)
    <2>1. Given(cid[x.n], x.n)
      BY <1>5, <1>7 DEF GoodEvent
    <2>2. x.n \in Conns /\ cid[x.n] # 0
      BY <2>1 DEF Given
    <2>3. cid[x.n] \in 0..MaxConns
      BY <1>1, <2>2 DEF IdsOK
    <2> QED
      BY <1>6, <2>1, <2>2, <2>3 DEF Conns
  <1> HIDE DEF x
  <1>8. CASE x.t = "accepted" /\ EventAccepted(e, x.n)
    <2>1. x.t # "stopped"
      BY <1>8
    <2>2. GoodFrame(Frame("open", cid[x.n], x.n))
      BY <1>7, <2>1, FrameIs
    <2>3. ASSUME chan' = [chan EXCEPT ![e][cid[x.n]] = x.n],
                 Send(e, Frame("open", cid[x.n], x.n))
          PROVE  ChanOK' /\ WireOK'
      <3>1. ChanOK'
        BY <1>1, <1>3, <1>6, <1>7, <2>1, <2>3, ChanPut
      <3>2. WireOK'
        BY <1>1, <1>3, <2>2, <2>3, Sent, Zenon
      <3> QED
        BY <3>1, <3>2
    <2>4. ASSUME UNCHANGED <<chan, wire>> PROVE ChanOK' /\ WireOK'
      BY <1>1, <1>3, <2>4, RestKept
    <2>5. ChanOK' /\ WireOK'
      BY <1>8, <2>3, <2>4, Zenon DEF EventAccepted
    <2>6. TableOK'
      BY <1>1, <1>2, <1>8 DEF EventAccepted, TableOK, socks
    <2> QED
      BY Parts, <1>3, <1>4, <1>5, <2>5, <2>6, PTL
  <1>9. CASE x.t = "data" /\ EventData(e, x.n)
    <2>1. x.t # "stopped"
      BY <1>9
    <2>2. GoodFrame(Frame("data", cid[x.n], x.n))
      BY <1>7, <2>1, FrameIs
    <2>3. WireOK'
      <3>1. Send(e, Frame("data", cid[x.n], x.n)) \/ UNCHANGED wire
        BY <1>9, Zenon DEF EventData
      <3> QED
        BY <1>1, <1>3, <2>2, <3>1, Sent, WireKept, Zenon
    <2>4. ChanOK'
      BY <1>1, <1>3, <1>9, RestKept DEF EventData
    <2>5. TableOK'
      BY <1>1, <1>2, <1>9 DEF EventData, TableOK, socks
    <2> QED
      BY Parts, <1>3, <1>4, <1>5, <2>3, <2>4, <2>5, PTL
  <1>10. CASE x.t = "closed" /\ EventClosed(e, x.n)
    <2>1. x.t # "stopped"
      BY <1>10
    <2>2. GoodFrame(Frame("close", cid[x.n], x.n))
      BY <1>7, <2>1, FrameIs
    <2>3. WireOK'
      <3>1. Send(e, Frame("close", cid[x.n], x.n)) \/ UNCHANGED wire
        BY <1>10, Zenon DEF EventClosed
      <3> QED
        BY <1>1, <1>3, <2>2, <3>1, Sent, WireKept, Zenon
    <2>4. ChanOK'
      <3>1. chan' = [chan EXCEPT ![e][cid[x.n]] = 0] /\ cid[x.n] \in Conns \cup {0}
        BY <1>7, <1>10, <2>1 DEF EventClosed
      <3> QED
        BY <1>1, <1>3, <1>6, <3>1, ChanPut
    <2>5. TableOK'
      BY <1>1, <1>2, <1>10 DEF EventClosed, TableOK, socks
    <2> QED
      BY Parts, <1>3, <1>4, <1>5, <2>3, <2>4, <2>5, PTL
  <1>11. CASE x.t = "stopped" /\ EventStopped
    <2>1. "client" \in Ends /\ Forget("client") /\ Send("client", Frame("stop", 0, 0))
      BY <1>11 DEF EventStopped, Ends
    <2>2. ChanOK' /\ registered' \in [Ends -> BOOLEAN]
      BY <1>1, <1>3, <1>6, <2>1, Forgotten, Zenon
    <2>3. WireOK'
      BY <1>1, <1>3, <2>1, FrameIs, Sent
    <2>4. TableOK'
      BY <1>1, <1>2, <2>2 DEF TableOK, socks
    <2> QED
      BY Parts, <1>3, <1>4, <1>5, <2>2, <2>3, <2>4, PTL
  <1> QED
    BY <1>8, <1>9, <1>10, <1>11, Zenon DEF HandleEvent, x

-----------------------------------------------------------------------------
(* Frames handled *)

LEMMA NoAnswer == <<>> \in Seq(FrameType) /\ \A g \in Range(<<>>) : GoodFrame(g)
  BY DEF Range

LEMMA OneAnswer ==
  ASSUME NEW f, GoodFrame(f)
  PROVE  <<f>> \in Seq(FrameType) /\ \A g \in Range(<<f>>) : GoodFrame(g)
  BY DEF GoodFrame, Range

\* A frame of the set-up: Take with an answer of its kind.
LEMMA SetupTaken ==
  ASSUME IInv, NEW e \in Ends, NEW t \in {"setup", "ready", "stop"},
         NEW s \in {"ready", "stop", "close"}, Grows,
         \/ Take(e, Frame(t, 0, 0), <<>>)
         \/ Take(e, Frame(t, 0, 0), <<Frame(s, 0, 0)>>)
  PROVE  WireOK'
  <1>1. WireOK
    BY Parts, Zenon
  <1>2. GoodFrame(Frame(s, 0, 0))
    BY FrameIs
  <1> QED
    BY <1>1, <1>2, NoAnswer, OneAnswer, Taken, Zenon

\* What the set-up leaves alone.
LEMMA SetupKeeps ==
  ASSUME IInv, WireOK', UNCHANGED setupRest, kept' \in BOOLEAN,
         registered' \in [Ends -> BOOLEAN], faults' \in 0..MaxFaults
  PROVE  IInv'
  <1>1. TableOK /\ IdsOK /\ ChanOK /\ SockOK /\ GotOK /\ EvOK /\ WireOK
    BY Parts, Zenon
  <1>2. Grows /\ IdsOK'
    BY <1>1, SameIdsGrow, IdsKept DEF setupRest, frameRest, ids
  <1>3. TableOK'
    BY <1>1, Zenon DEF TableOK, setupRest, frameRest
  <1>4. SockOK'
    BY <1>1, SockKept DEF setupRest, frameRest, ids
  <1>5. ChanOK' /\ GotOK' /\ EvOK'
    BY <1>1, <1>2, RestKept DEF setupRest, frameRest
  <1> QED
    BY Parts, <1>2, <1>3, <1>4, <1>5, PTL

LEMMA SetupFrames ==
  ASSUME BoundsAssumption, IInv,
         PortForwardRequest \/ AgentForward \/ TunnelListen \/ PortForwardReady
  PROVE  IInv'
  <1>1. TableOK
    BY Parts, Zenon
  <1>2. UNCHANGED setupRest
    BY DEF PortForwardRequest, AgentForward, TunnelListen, PortForwardReady, setupRest
  <1>3. Grows
    BY <1>2, SameIdsGrow DEF setupRest, frameRest, ids
  <1>4. "server" \in Ends /\ "client" \in Ends
    BY DEF Ends
  <1>5. ASSUME NEW e \in Ends, NEW answer, Joins(e, answer)
        PROVE  /\ registered' \in [Ends -> BOOLEAN] /\ kept' \in BOOLEAN /\ faults' \in 0..MaxFaults
               /\ Take(e, Frame("setup", 0, 0), answer)
    BY <1>1, <1>5, Zenon DEF Joins, TableOK
  <1>6. ASSUME NEW e \in Ends, NEW answer, Declines(e, answer)
        PROVE  /\ registered' \in [Ends -> BOOLEAN] /\ kept' \in BOOLEAN /\ faults' \in 0..MaxFaults
               /\ Take(e, Frame("setup", 0, 0), answer)
    <2>1. faults' \in 0..MaxFaults
      BY <1>1, <1>6, FailCounts DEF Declines, TableOK
    <2> QED
      BY <1>1, <1>6, <2>1, Zenon DEF Declines, TableOK
  <1>7. CASE PortForwardRequest
    <2>1. /\ registered' \in [Ends -> BOOLEAN] /\ kept' \in BOOLEAN /\ faults' \in 0..MaxFaults
          /\ \/ Take("server", Frame("setup", 0, 0), <<Frame("ready", 0, 0)>>)
             \/ Take("server", Frame("setup", 0, 0), <<Frame("stop", 0, 0)>>)
      BY <1>4, <1>5, <1>6, <1>7, Zenon DEF PortForwardRequest
    <2>2. WireOK'
      BY <1>3, <1>4, <2>1, SetupTaken
    <2> QED
      BY <1>2, <2>1, <2>2, SetupKeeps, Zenon
  <1>8. CASE AgentForward
    <2>1. /\ registered' \in [Ends -> BOOLEAN] /\ kept' \in BOOLEAN /\ faults' \in 0..MaxFaults
          /\ Take("server", Frame("setup", 0, 0), <<>>)
      BY <1>4, <1>5, <1>8, Zenon DEF AgentForward
    <2>2. WireOK'
      BY <1>3, <1>4, <2>1, SetupTaken
    <2> QED
      BY <1>2, <2>1, <2>2, SetupKeeps, Zenon
  <1>9. CASE TunnelListen
    <2>1. /\ registered' \in [Ends -> BOOLEAN] /\ kept' \in BOOLEAN /\ faults' \in 0..MaxFaults
          /\ \/ Take("client", Frame("setup", 0, 0), <<>>)
             \/ Take("client", Frame("setup", 0, 0), <<Frame("close", 0, 0)>>)
      BY <1>4, <1>5, <1>6, <1>9, Zenon DEF TunnelListen
    <2>2. WireOK'
      BY <1>3, <1>4, <2>1, SetupTaken
    <2> QED
      BY <1>2, <2>1, <2>2, SetupKeeps, Zenon
  <1>10. CASE PortForwardReady
    <2>1. /\ registered' \in [Ends -> BOOLEAN] /\ kept' \in BOOLEAN /\ faults' \in 0..MaxFaults
          /\ Take("client", Frame("ready", 0, 0), <<>>)
      BY <1>1, <1>10, Zenon DEF PortForwardReady, TableOK
    <2>2. WireOK'
      BY <1>3, <1>4, <2>1, SetupTaken
    <2> QED
      BY <1>2, <2>1, <2>2, SetupKeeps, Zenon
  <1> QED
    BY <1>7, <1>8, <1>9, <1>10

LEMMA StopKeeps ==
  ASSUME BoundsAssumption, IInv, NEW e \in Ends, Stopped(e)
  PROVE  IInv'
  <1>1. TableOK /\ IdsOK /\ ChanOK /\ SockOK /\ GotOK /\ EvOK /\ WireOK
    BY Parts, Zenon
  <1>2. UNCHANGED <<frameRest, sock, got, faults>>
    BY DEF Stopped
  <1>3. Grows /\ IdsOK'
    BY <1>1, <1>2, SameIdsGrow, IdsKept DEF frameRest, ids
  <1>4. WireOK'
    BY <1>3, SetupTaken DEF Stopped
  <1>5. ChanOK' /\ registered' \in [Ends -> BOOLEAN]
    BY <1>1, <1>3, Forgotten DEF Stopped, BoundsAssumption
  <1>6. kept' \in BOOLEAN
    BY <1>1, Zenon DEF Stopped, TableOK
  <1>7. TableOK'
    BY <1>1, <1>2, <1>5, <1>6, Zenon DEF TableOK, frameRest
  <1>8. SockOK'
    BY <1>1, <1>2, SockKept DEF frameRest, ids
  <1>9. GotOK' /\ EvOK'
    BY <1>1, <1>2, <1>3, RestKept DEF frameRest
  <1> QED
    BY Parts, <1>3, <1>4, <1>5, <1>7, <1>8, <1>9, PTL

\* A connection is asked for: whoever has the forward enters it under its id.
LEMMA OpenKeeps ==
  ASSUME BoundsAssumption, IInv, NEW e \in Ends, NEW i \in Conns \cup {0}, NEW n \in Conns \cup {0},
         RecvOpen(e, i, n)
  PROVE  IInv'
  <1> DEFINE f == Frame("open", i, n)  r == Frame("close", i, n)
  <1>1. TableOK /\ IdsOK /\ ChanOK /\ SockOK /\ GotOK /\ EvOK /\ WireOK
    BY Parts, Zenon
  <1>2. UNCHANGED <<frameRest, registered, kept, got>>
    BY DEF RecvOpen
  <1>3. Grows /\ IdsOK'
    BY <1>1, <1>2, SameIdsGrow, IdsKept DEF frameRest, ids
  <1>4. PICK answer \in {<<>>, <<r>>} : Take(e, f, answer)
    BY Zenon DEF RecvOpen
  <1>5. answer \in Seq(FrameType) /\ \A g \in Range(answer) : GoodFrame(g)
    <2>1. GoodFrame(r)
      BY FrameIs
    <2> QED
      BY <1>4, <2>1, NoAnswer, OneAnswer, Zenon
  <1>6. WireOK' /\ Given(i, n)
    <2>1. WireOK' /\ GoodFrame(f)
      BY <1>1, <1>3, <1>4, <1>5, Taken
    <2> QED
      BY <2>1, FrameIs DEF GoodFrame
  <1>7. n \in Conns /\ cid[n] # 0
    BY <1>6 DEF Given
  <1>8. ChanOK'
    <2>1. chan' = [chan EXCEPT ![e][i] = n] \/ UNCHANGED chan
      BY Zenon DEF RecvOpen
    <2>2. MaxConns \in Nat
      BY DEF BoundsAssumption
    <2> QED
      BY <1>1, <1>3, <1>6, <2>1, <2>2, ChanPut, ChanKept
  <1>9. SockOK'
    <2>1. sock' = [sock EXCEPT ![e][n] = "open"] \/ UNCHANGED sock
      BY Zenon DEF RecvOpen
    <2>2. UNCHANGED <<svc, cid>>
      BY <1>2 DEF frameRest, ids
    <2> QED
      BY <1>1, <1>7, <2>1, <2>2, SockPut, SockKept
  <1>10. GotOK' /\ EvOK'
    BY <1>1, <1>2, <1>3, RestKept DEF frameRest
  <1>11. faults' \in 0..MaxFaults
    <2>1. Fail \/ UNCHANGED faults
      BY Zenon DEF RecvOpen
    <2> QED
      BY <1>1, <2>1, FailCounts DEF TableOK
  <1>12. TableOK'
    BY <1>1, <1>2, <1>11, Zenon DEF TableOK, frameRest
  <1> QED
    BY Parts, <1>3, <1>6, <1>8, <1>9, <1>10, <1>12, PTL

\* Bytes are written to the connection behind the id they came with.
LEMMA DataKeeps ==
  ASSUME BoundsAssumption, IInv, NEW e \in Ends, NEW i \in Conns \cup {0}, NEW n \in Conns \cup {0},
         RecvData(e, i, n)
  PROVE  IInv'
  <1> DEFINE f == Frame("data", i, n)  r == Frame("close", i, n)  m == chan[e][i]
  <1>1. TableOK /\ IdsOK /\ ChanOK /\ SockOK /\ GotOK /\ EvOK /\ WireOK
    BY Parts, Zenon
  <1>2. UNCHANGED <<frameRest, registered, kept, sock>>
    BY DEF RecvData
  <1>3. Grows /\ IdsOK' /\ UNCHANGED <<svc, cid, born>>
    BY <1>1, <1>2, SameIdsGrow, IdsKept DEF frameRest, ids
  <1>4. PICK answer \in {<<>>, <<r>>} : Take(e, f, answer)
    BY Zenon DEF RecvData
  <1>5. answer \in Seq(FrameType) /\ \A g \in Range(answer) : GoodFrame(g)
    <2>1. GoodFrame(r)
      BY FrameIs
    <2> QED
      BY <1>4, <2>1, NoAnswer, OneAnswer, Zenon
  <1>6. WireOK' /\ Given(i, n)
    <2>1. WireOK' /\ GoodFrame(f)
      BY <1>1, <1>3, <1>4, <1>5, Taken
    <2> QED
      BY <2>1, FrameIs DEF GoodFrame
  <1>7. ChanOK'
    <2>1. chan' = [chan EXCEPT ![e][i] = 0] \/ UNCHANGED chan
      BY Zenon DEF RecvData
    <2>2. MaxConns \in Nat
      BY DEF BoundsAssumption
    <2> QED
      BY <1>1, <1>3, <2>1, <2>2, ChanPut, ChanKept
  <1>8. GotOK'
    <2>1. (m # 0 /\ got' = [got EXCEPT ![e][m] = @ \cup {n}]) \/ UNCHANGED got
      BY Zenon DEF RecvData
    <2>2. m # 0 => Given(i, m)
      BY <1>1, Zenon DEF ChanOK, ChanInv
    <2> HIDE DEF m
    <2> QED
      BY <1>1, <1>3, <1>6, <2>1, <2>2, GotPut, GotKept
  <1>9. SockOK' /\ EvOK'
    BY <1>1, <1>2, <1>3, SockKept, RestKept DEF frameRest
  <1>10. faults' \in 0..MaxFaults
    <2>1. Fail \/ UNCHANGED faults
      BY Zenon DEF RecvData
    <2> QED
      BY <1>1, <2>1, FailCounts DEF TableOK
  <1>11. TableOK'
    BY <1>1, <1>2, <1>10, Zenon DEF TableOK, frameRest
  <1> QED
    BY Parts, <1>3, <1>6, <1>7, <1>8, <1>9, <1>11, PTL

LEMMA CloseKeeps ==
  ASSUME BoundsAssumption, IInv, NEW e \in Ends, NEW i \in Conns \cup {0}, NEW n \in Conns \cup {0},
         RecvClose(e, i, n)
  PROVE  IInv'
  <1>1. TableOK /\ IdsOK /\ ChanOK /\ SockOK /\ GotOK /\ EvOK /\ WireOK
    BY Parts, Zenon
  <1>2. UNCHANGED <<frameRest, registered, kept, sock, got, faults>>
    BY DEF RecvClose
  <1>3. Grows /\ IdsOK'
    BY <1>1, <1>2, SameIdsGrow, IdsKept DEF frameRest, ids
  <1>4. WireOK'
    BY <1>1, <1>3, NoAnswer, Taken DEF RecvClose
  <1>5. ChanOK'
    BY <1>1, <1>3, ChanPut DEF RecvClose, BoundsAssumption
  <1>6. TableOK'
    BY <1>1, <1>2, Zenon DEF TableOK, frameRest
  <1>7. SockOK' /\ GotOK' /\ EvOK'
    BY <1>1, <1>2, <1>3, SockKept, RestKept DEF frameRest, ids
  <1> QED
    BY Parts, <1>3, <1>4, <1>5, <1>6, <1>7, PTL

LEMMA FrameKeeps ==
  ASSUME BoundsAssumption, IInv, NEW e \in Ends, FrameStep(e)
  PROVE  IInv'
  <1> DEFINE i == Head(wire[e]).id  n == Head(wire[e]).of
  <1>1. i \in Conns \cup {0} /\ n \in Conns \cup {0}
    <2>1. WireOK /\ wire[e] # <<>>
      BY Parts, Zenon DEF FrameStep
    <2>2. Head(wire[e]) \in FrameType
      BY <2>1, GoodQueue, RangeTail, Zenon
    <2> QED
      BY <2>2 DEF FrameType
  <1> HIDE DEF i, n
  <1>2. \/ PortForwardRequest \/ AgentForward \/ TunnelListen \/ PortForwardReady
        \/ Stopped(e) \/ RecvOpen(e, i, n) \/ RecvData(e, i, n) \/ RecvClose(e, i, n)
    BY Zenon DEF FrameStep, i, n, ServerPortForwardStop, ClientPortForwardStop,
         ServerPortForwardOpen, ServerTunnelOpen, ClientPortForwardOpen, ClientAgentOpen,
         ServerPortForwardRecv, ServerAgentRecv, ServerTunnelRecv,
         ClientPortForwardRecv, ClientAgentRecv, ClientTunnelRecv, Recv
  <1> QED
    BY <1>1, <1>2, SetupFrames, StopKeeps, OpenKeeps, DataKeeps, CloseKeeps

-----------------------------------------------------------------------------
(* The theorems *)

LEMMA StepKeeps ==
  ASSUME BoundsAssumption, IInv, [Next]_vars
  PROVE  IInv'
  <1>1. TableOK /\ "server" \in Ends /\ "client" \in Ends
    BY Parts, Zenon DEF Ends
  <1>2. CASE HandleFwdRequest \/ SendAgentForward \/ HandleOpenEvent
    <2>1. PICK e \in Ends : Begin(e)
      BY <1>1, <1>2, Zenon DEF HandleFwdRequest, SendAgentForward, HandleOpenEvent
    <2>2. kept' \in BOOLEAN
      BY <1>1, <1>2, Zenon DEF HandleFwdRequest, SendAgentForward, HandleOpenEvent, TableOK
    <2> QED
      BY <2>1, <2>2, BeginKeeps
  <1>3. CASE KeepaliveEnds
    BY <1>3, KeepaliveKeeps
  <1>4. CASE TunnelIdle
    BY <1>4, IdleKeeps
  <1>5. CASE Disconnect
    BY <1>5, DisconnectKeeps
  <1>6. CASE Attach
    BY <1>6, AttachKeeps
  <1>7. CASE DrainEvents
    BY <1>7, DrainKeeps
  <1>8. CASE \E n \in Conns : Accepts(n)
    <2>1. PICK n \in Conns : Accept(n)
      BY <1>8, Zenon DEF Accepts, AcceptLocalForward, AcceptAgent, AcceptRemoteForward, AcceptTunnel
    <2> QED
      BY <2>1, AcceptKeeps
  <1>9. CASE \E e \in Ends, n \in Conns : Read(e, n) \/ ReadEof(e, n)
    BY <1>9, ReadKeeps, ReadEofKeeps
  <1>10. CASE \E e \in Ends : EventStep(e) \/ FrameStep(e)
    <2>1. PICK e \in Ends : EventStep(e) \/ FrameStep(e)
      BY <1>10
    <2>2. EventStep(e) => HandleEvent(e)
      BY Zenon DEF EventStep, ServerPfEvent, ServerAgentEvent, ServerTunnelEvent,
           ClientPfEvent, ClientAgentEvent, ClientTunnelEvent
    <2> QED
      BY <2>1, <2>2, EventKeeps, FrameKeeps
  <1>11. CASE UNCHANGED vars
    BY <1>11, StutterKeeps
  <1> QED
    BY <1>2, <1>3, <1>4, <1>5, <1>6, <1>7, <1>8, <1>9, <1>10, <1>11, Zenon DEF Next

\* The ids, tables, events and frames of both ends agree on whose connection is
\* meant, through any number of clients.
THEOREM Invariance == ASSUME BoundsAssumption PROVE Spec => []IInv
  <1>1. Init => IInv
    BY Initially
  <1>2. IInv /\ [Next]_vars => IInv'
    BY StepKeeps
  <1> QED
    BY <1>1, <1>2, PTL DEF Spec

\* The channel tables, sockets and counters of server.rs and client.rs keep their
\* types; above all no end gives out more ids than it accepts connections.
THEOREM TypeCorrect == ASSUME BoundsAssumption PROVE Spec => []TypeOK
  <1>1. IInv => TypeOK
    BY DEF IInv
  <1> QED
    BY <1>1, Invariance, PTL

\* A Data frame is written to the connection it was read from, whatever the
\* service, the forwards, the refusals and the clients in between; only where the
\* client numbers the channels can bytes of an earlier relay reach a later one's.
THEOREM BytesStayApart == ASSUME BoundsAssumption PROVE Spec => []OwnBytes
  <1>1. IInv => OwnBytes
    BY DEF IInv
  <1> QED
    BY <1>1, Invariance, PTL

-----------------------------------------------------------------------------
(* Services: queues without repetitions *)

LEMMA RangeInSet ==
  ASSUME NEW T, NEW q \in Seq(T)
  PROVE  V!Range(q) \in SUBSET T
  BY DEF V!Range

LEMMA HeadLeaves ==
  ASSUME NEW T, NEW q \in Seq(T), q # <<>>
  PROVE  /\ Tail(q) \in Seq(T) /\ Head(q) \in T
         /\ V!Range(q) = V!Range(Tail(q)) \cup {Head(q)}
         /\ V!IsInjective(q) => V!IsInjective(Tail(q)) /\ Head(q) \notin V!Range(Tail(q))
  <1>1. /\ Len(q) \in Nat \ {0} /\ Tail(q) \in Seq(T) /\ Head(q) = q[1] /\ Head(q) \in T
        /\ Len(Tail(q)) = Len(q) - 1
        /\ \A i \in 1..(Len(q) - 1) : Tail(q)[i] = q[i + 1]
    OBVIOUS
  <1>2. DOMAIN q = 1..Len(q) /\ DOMAIN Tail(q) = 1..(Len(q) - 1) /\ 1 \in DOMAIN q
    BY <1>1
  <1>3. \A i \in DOMAIN Tail(q) : i + 1 \in DOMAIN q /\ i + 1 # 1 /\ Tail(q)[i] = q[i + 1]
    BY <1>1, <1>2
  <1>4. \A i \in DOMAIN q : i = 1 \/ (i - 1 \in DOMAIN Tail(q) /\ Tail(q)[i - 1] = q[i])
    BY <1>1, <1>2
  <1>5. V!Range(q) = V!Range(Tail(q)) \cup {Head(q)}
    <2>1. V!Range(Tail(q)) \subseteq V!Range(q)
      BY <1>3, Zenon DEF V!Range
    <2>2. Head(q) \in V!Range(q)
      BY <1>1, <1>2, Zenon DEF V!Range
    <2>3. ASSUME NEW i \in DOMAIN q PROVE q[i] \in V!Range(Tail(q)) \cup {Head(q)}
      BY <1>1, <1>4, Zenon DEF V!Range
    <2> QED
      BY <2>1, <2>2, <2>3 DEF V!Range
  <1>6. ASSUME V!IsInjective(q)
        PROVE  V!IsInjective(Tail(q)) /\ Head(q) \notin V!Range(Tail(q))
    <2>1. ASSUME NEW i \in DOMAIN Tail(q), NEW j \in DOMAIN Tail(q), Tail(q)[i] = Tail(q)[j]
          PROVE  i = j
      <3>1. q[i + 1] = q[j + 1] /\ i + 1 \in DOMAIN q /\ j + 1 \in DOMAIN q
        BY <1>3, <2>1
      <3>2. i + 1 = j + 1
        BY <3>1, <1>6, Zenon DEF V!IsInjective
      <3> QED
        BY <3>2, <1>2
    <2>2. ASSUME NEW i \in DOMAIN Tail(q), Tail(q)[i] = Head(q) PROVE FALSE
      BY <1>1, <1>2, <1>3, <1>6, <2>2 DEF V!IsInjective
    <2> QED
      BY <2>1, <2>2, Zenon DEF V!IsInjective, V!Range
  <1> QED
    BY <1>1, <1>5, <1>6

LEMMA AppendJoins ==
  ASSUME NEW T, NEW q \in Seq(T), NEW x \in T
  PROVE  /\ Append(q, x) \in Seq(T) /\ Append(q, x) # <<>>
         /\ V!Range(Append(q, x)) = V!Range(q) \cup {x}
         /\ V!IsInjective(q) /\ x \notin V!Range(q) => V!IsInjective(Append(q, x))
  <1>1. /\ Append(q, x) \in Seq(T) /\ Len(Append(q, x)) = Len(q) + 1 /\ Len(q) \in Nat
        /\ Append(q, x) # <<>>
        /\ \A i \in 1..Len(q) : Append(q, x)[i] = q[i]
        /\ Append(q, x)[Len(q) + 1] = x
    BY AppendProperties, LenProperties
  <1>2. DOMAIN q = 1..Len(q) /\ DOMAIN Append(q, x) = 1..(Len(q) + 1)
    BY <1>1
  <1>3. \A i \in DOMAIN Append(q, x) : i = Len(q) + 1 \/ (i \in DOMAIN q /\ Append(q, x)[i] = q[i])
    BY <1>1, <1>2
  <1>4. \A i \in DOMAIN q : i \in DOMAIN Append(q, x) /\ Append(q, x)[i] = q[i]
    BY <1>1, <1>2
  <1>5. Len(q) + 1 \in DOMAIN Append(q, x)
    BY <1>1, <1>2
  <1>6. V!Range(Append(q, x)) = V!Range(q) \cup {x}
    <2>1. V!Range(q) \subseteq V!Range(Append(q, x))
      BY <1>4, Zenon DEF V!Range
    <2>2. x \in V!Range(Append(q, x))
      BY <1>1, <1>5, Zenon DEF V!Range
    <2>3. ASSUME NEW i \in DOMAIN Append(q, x) PROVE Append(q, x)[i] \in V!Range(q) \cup {x}
      BY <1>1, <1>3, Zenon DEF V!Range
    <2> QED
      BY <2>1, <2>2, <2>3 DEF V!Range
  <1>7. ASSUME V!IsInjective(q), x \notin V!Range(q)
        PROVE  V!IsInjective(Append(q, x))
    <2>1. \A i \in DOMAIN q : q[i] # x
      BY <1>7, Zenon DEF V!Range
    <2> QED
      BY <1>1, <1>3, <1>7, <2>1, Zenon DEF V!IsInjective
  <1> QED
    BY <1>1, <1>6, <1>7

LEMMA TellEffect ==
  ASSUME NEW S \in SUBSET (Tools \X V!Answers), V!Types, V!Tell(S)
  PROVE  /\ heard' \in [Tools -> V!Answers \cup {"none"}]
         /\ req' \in [Tools -> {"none", "queued", "over"}]
         /\ \A t \in Tools : (\E a \in S : a[1] = t) =>
               req'[t] = "over" /\ <<t, heard'[t]>> \in S /\ heard'[t] \in V!Answers
         /\ \A t \in Tools : ~(\E a \in S : a[1] = t) =>
               req'[t] = req[t] /\ heard'[t] = heard[t]
  <1>1. heard \in [Tools -> V!Answers \cup {"none"}] /\ req \in [Tools -> {"none", "queued", "over"}]
    BY DEF V!Types, V!Answers
  <1>2. ASSUME NEW t \in Tools, \E a \in S : a[1] = t
        PROVE  req'[t] = "over" /\ <<t, heard'[t]>> \in S /\ heard'[t] \in V!Answers
    <2> DEFINE b == CHOOSE a \in S : a[1] = t
    <2>1. b \in S /\ b[1] = t
      BY <1>2, Zenon
    <2>2. heard'[t] = b[2] /\ req'[t] = "over"
      BY <1>2, Zenon DEF V!Tell
    <2>3. b = <<t, b[2]>> /\ b[2] \in V!Answers
      <3> HIDE DEF b
      <3> QED BY <2>1
    <2> QED
      BY <2>1, <2>2, <2>3
  <1>3. ASSUME NEW t \in Tools, ~(\E a \in S : a[1] = t)
        PROVE  req'[t] = req[t] /\ heard'[t] = heard[t]
    BY <1>3, Zenon DEF V!Tell
  <1>4. DOMAIN heard' = Tools /\ DOMAIN req' = Tools
    BY Zenon DEF V!Tell
  <1>5. heard' \in [Tools -> V!Answers \cup {"none"}]
    <2>1. heard' = [t \in Tools |-> heard'[t]]
      BY Zenon DEF V!Tell
    <2>2. \A t \in Tools : heard'[t] \in V!Answers \cup {"none"}
      BY <1>1, <1>2, <1>3
    <2> QED
      BY <2>1, <2>2, Zenon
  <1>6. req' \in [Tools -> {"none", "queued", "over"}]
    <2>1. req' = [t \in Tools |-> req'[t]]
      BY Zenon DEF V!Tell
    <2>2. \A t \in Tools : req'[t] \in {"none", "queued", "over"}
      BY <1>1, <1>2, <1>3
    <2> QED
      BY <2>1, <2>2, Zenon
  <1> QED
    BY <1>2, <1>3, <1>5, <1>6

LEMMA TellOne ==
  ASSUME NEW t \in Tools, NEW w \in V!Answers, V!Types, V!Tell({<<t, w>>})
  PROVE  /\ heard' \in [Tools -> V!Answers \cup {"none"}]
         /\ req' \in [Tools -> {"none", "queued", "over"}]
         /\ req'[t] = "over" /\ heard'[t] = w
         /\ \A u \in Tools \ {t} : req'[u] = req[u] /\ heard'[u] = heard[u]
  <1> DEFINE S == {<<t, w>>}
  <1>1. S \in SUBSET (Tools \X V!Answers)
    OBVIOUS
  <1>2. \A u \in Tools : (\E a \in S : a[1] = u) <=> u = t
    OBVIOUS
  <1>3. V!Tell(S)
    OBVIOUS
  <1>4. \A x : <<t, x>> \in S => x = w
    OBVIOUS
  <1> HIDE DEF S
  <1> QED
    BY <1>1, <1>2, <1>3, <1>4, TellEffect

LEMMA TellPasteEffect ==
  ASSUME NEW w \in V!Answers, V!Types, V!Tell(V!TellPaste(w))
  PROVE  /\ heard' \in [Tools -> V!Answers \cup {"none"}]
         /\ req' \in [Tools -> {"none", "queued", "over"}]
         /\ pending_paste # None => req'[pending_paste] = "over" /\ heard'[pending_paste] = w
         /\ \A u \in Tools : u # pending_paste \/ pending_paste = None =>
               req'[u] = req[u] /\ heard'[u] = heard[u]
  <1>1. CASE pending_paste = None
    <2> DEFINE S == {}
    <2>1. V!Tell(S)
      BY <1>1 DEF V!TellPaste
    <2>2. S \in SUBSET (Tools \X V!Answers)
      OBVIOUS
    <2>3. \A u \in Tools : ~ \E a \in S : a[1] = u
      OBVIOUS
    <2> HIDE DEF S
    <2>4. /\ heard' \in [Tools -> V!Answers \cup {"none"}]
          /\ req' \in [Tools -> {"none", "queued", "over"}]
          /\ \A u \in Tools : req'[u] = req[u] /\ heard'[u] = heard[u]
      BY <2>1, <2>2, <2>3, TellEffect
    <2> QED
      BY <1>1, <2>4
  <1>2. CASE pending_paste # None
    <2>1. PICK t \in Tools : t = pending_paste
      BY <1>2 DEF V!Types
    <2>2. V!Tell({<<t, w>>})
      BY <1>2, <2>1 DEF V!TellPaste
    <2> QED
      BY <1>2, <2>1, <2>2, TellOne
  <1> QED
    BY <1>1, <1>2

-----------------------------------------------------------------------------
(* The service socket *)

LEMMA AskStep ==
  ASSUME V!ServicesAssumption, V!IInv, NEW t \in Tools, NEW k \in V!Kinds,
         NEW size \in {"fits", "empty", "large"}, V!Ask(t, k, size)
  PROVE  V!IInv'
  <1> USE DEF V!ServicesAssumption
  <1>1. /\ req[t] = "none" /\ phase # "ended"
        /\ kind' = [kind EXCEPT ![t] = k]
        /\ UNCHANGED <<phase, V!conn, V!paste, to_client, from_client, spent, done, attaches>>
    BY Zenon DEF V!Ask
  <1>2. kind' \in [Tools -> V!Kinds \cup {None}] /\ kind'[t] = k /\ k # None
        /\ \A u \in Tools \ {t} : kind'[u] = kind[u]
    BY <1>1 DEF V!IInv, V!Types
  <1>3. kind[t] = None /\ heard[t] = "none" /\ ~V!Waiting(t)
    BY <1>1 DEF V!IInv, V!WaitInv, V!Types
  <1>4. \A f \in V!Range(to_client) : f.tool \in Tools /\ f.tool # t
    <2>1. \A f \in V!Range(to_client) : f \in V!FrameType
      BY RangeInSet DEF V!IInv, V!Types
    <2> QED
      BY <1>3, <2>1 DEF V!IInv, V!ObeyInv, V!FramesKept, V!FrameType, V!Kinds
  <1>5. t \notin done /\ done \subseteq Tools
    BY <1>3 DEF V!IInv, V!ObeyInv, V!FramesKept, V!Types
  <1>6. CASE /\ heard' \in [Tools -> V!Answers \cup {"none"}]
             /\ req' \in [Tools -> {"none", "queued", "over"}]
             /\ req'[t] = "over" /\ heard'[t] # "none"
             /\ \A u \in Tools \ {t} : req'[u] = req[u] /\ heard'[u] = heard[u]
             /\ UNCHANGED V!queues
    <2>1. V!Types' /\ V!RateHeld'
      BY <1>1, <1>2, <1>6 DEF V!IInv, V!Types, V!RateHeld, V!conn, V!paste, V!queues, V!Answers
    <2>2. \A u \in Tools : V!Waiting(u)' = V!Waiting(u)
      BY <1>1, <1>6 DEF V!Waiting, V!paste, V!queues
    <2>3. V!InOnePlace'
      BY <1>1, <1>2, <1>3, <1>6 DEF V!IInv, V!InOnePlace, V!Waiting, V!paste, V!queues, V!Types
    <2>4. V!WaitInv'
      BY <1>1, <1>2, <1>3, <1>6, <2>2 DEF V!IInv, V!WaitInv
    <2>5. V!PasteInv'
      BY <1>1, <1>6 DEF V!IInv, V!PasteInv, V!paste, V!conn, V!queues
    <2>6. V!ObeyInv'
      BY <1>1, <1>2, <1>4, <1>5, <1>6 DEF V!IInv, V!ObeyInv, V!FramesKept
    <2> QED
      BY <2>1, <2>3, <2>4, <2>5, <2>6 DEF V!IInv
  <1>7. CASE /\ req' = [req EXCEPT ![t] = "queued"]
             /\ UNCHANGED heard
             /\ IF k = "OpenUrl"
                THEN open_event' = Append(open_event, t) /\ UNCHANGED clipboard_event
                ELSE clipboard_event' = Append(clipboard_event, t) /\ UNCHANGED open_event
    <2>1. req' \in [Tools -> {"none", "queued", "over"}] /\ req'[t] = "queued"
          /\ \A u \in Tools \ {t} : req'[u] = req[u]
      BY <1>7 DEF V!IInv, V!Types
    <2>2. t \notin V!Range(open_event) /\ t \notin V!Range(clipboard_event) /\ t # pending_paste
      BY <1>3 DEF V!Waiting
    <2>3. /\ open_event' \in Seq(Tools) /\ clipboard_event' \in Seq(Tools)
          /\ V!IsInjective(open_event') /\ V!IsInjective(clipboard_event')
          /\ V!Range(open_event') = V!Range(open_event) \cup (IF k = "OpenUrl" THEN {t} ELSE {})
          /\ V!Range(clipboard_event') = V!Range(clipboard_event) \cup (IF k = "OpenUrl" THEN {} ELSE {t})
      <3>1. open_event \in Seq(Tools) /\ clipboard_event \in Seq(Tools)
            /\ V!IsInjective(open_event) /\ V!IsInjective(clipboard_event)
        BY DEF V!IInv, V!Types, V!InOnePlace
      <3>a. \A q \in Seq(Tools) : V!IsInjective(q) /\ t \notin V!Range(q) =>
               /\ Append(q, t) \in Seq(Tools) /\ V!IsInjective(Append(q, t))
               /\ V!Range(Append(q, t)) = V!Range(q) \cup {t}
        BY AppendJoins
      <3>2. CASE k = "OpenUrl"
        <4>1. open_event' = Append(open_event, t) /\ clipboard_event' = clipboard_event
          BY <1>7, <3>2
        <4>2. V!IsInjective(open_event') /\ V!IsInjective(clipboard_event')
          BY <4>1, <3>a, <3>1, <2>2, Zenon
        <4> QED
          BY <4>1, <4>2, <3>a, <3>1, <3>2, <2>2
      <3>3. CASE k # "OpenUrl"
        <4>1. clipboard_event' = Append(clipboard_event, t) /\ open_event' = open_event
          BY <1>7, <3>3
        <4>2. V!IsInjective(open_event') /\ V!IsInjective(clipboard_event')
          BY <4>1, <3>a, <3>1, <2>2, Zenon
        <4> QED
          BY <4>1, <4>2, <3>a, <3>1, <3>3, <2>2
      <3> QED
        BY <3>2, <3>3
    <2>4. V!Types' /\ V!RateHeld'
      BY <1>1, <1>2, <1>7, <2>1, <2>3 DEF V!IInv, V!Types, V!RateHeld, V!conn, V!paste
    <2>5. \A u \in Tools : V!Waiting(u)' = (V!Waiting(u) \/ u = t)
      BY <1>1, <2>3 DEF V!Waiting, V!paste
    <2>6. V!InOnePlace'
      <3>1. V!Range(open_event) \subseteq Tools /\ V!Range(clipboard_event) \subseteq Tools
        BY RangeInSet DEF V!IInv, V!Types
      <3>2. k # "OpenUrl" => k \in {"Copy", "Paste"}
        BY DEF V!Kinds
      <3>3. pending_paste' = pending_paste /\ pending_paste \in Tools \cup {None}
        BY <1>1 DEF V!IInv, V!Types, V!paste
      <3> QED
        BY <1>2, <2>2, <2>3, <3>1, <3>2, <3>3 DEF V!IInv, V!InOnePlace
    <2>7. V!WaitInv'
      BY <1>1, <1>2, <1>3, <1>7, <2>1, <2>5 DEF V!IInv, V!WaitInv
    <2>8. V!PasteInv'
      BY <1>1 DEF V!IInv, V!PasteInv, V!paste, V!conn
    <2>9. V!ObeyInv'
      BY <1>1, <1>2, <1>4, <1>5, <1>7 DEF V!IInv, V!ObeyInv, V!FramesKept
    <2> QED
      BY <2>4, <2>6, <2>7, <2>8, <2>9 DEF V!IInv
  <1>8. ASSUME NEW w \in {"closed", "too_large", "no"}, V!Tell({<<t, w>>}), UNCHANGED V!queues
        PROVE  V!IInv'
    <2>1. w \in V!Answers /\ w # "none"
      BY DEF V!Answers
    <2> QED
      BY <1>6, <1>8, <2>1, TellOne DEF V!IInv
  <1> DEFINE refused ==
             CASE k = "OpenUrl" -> IF size = "empty" THEN {<<t, "closed">>} ELSE {}
               [] k = "Copy" -> IF size = "large" THEN {<<t, "too_large">>}
                                ELSE IF size = "empty" \/ ~negotiated_caps THEN {<<t, "no">>}
                                ELSE {}
               [] k = "Paste" -> IF negotiated_caps THEN {} ELSE {<<t, "closed">>}
  <1>9. refused \in {{}, {<<t, "closed">>}, {<<t, "too_large">>}, {<<t, "no">>}}
    BY DEF V!Kinds
  <1>10. IF refused # {}
         THEN V!Tell(refused) /\ UNCHANGED V!queues
         ELSE /\ req' = [req EXCEPT ![t] = "queued"]
              /\ UNCHANGED heard
              /\ IF k = "OpenUrl"
                 THEN open_event' = Append(open_event, t) /\ UNCHANGED clipboard_event
                 ELSE clipboard_event' = Append(clipboard_event, t) /\ UNCHANGED open_event
    BY DEF V!Ask
  <1> HIDE DEF refused
  <1> QED
    BY <1>7, <1>8, <1>9, <1>10

-----------------------------------------------------------------------------
(* What every answer does *)

LEMMA ToldStep ==
  ASSUME V!ServicesAssumption, V!IInv, NEW t \in Tools, V!Waiting(t), kind' = kind, done' = done,
         req'[t] = "over", heard'[t] # "none",
         \A u \in Tools \ {t} : req'[u] = req[u] /\ heard'[u] = heard[u],
         \A u \in Tools : V!Waiting(u)' = (V!Waiting(u) /\ u # t)
  PROVE  /\ V!WaitInv'
         /\ \A u \in Tools : heard[u] = "yes" => heard'[u] = "yes"
         /\ \A u \in done' : heard'[u] = "yes" /\ kind'[u] \in V!Limited
  <1>1. req[t] = "queued" /\ heard[t] = "none" /\ kind[t] # None
    BY DEF V!IInv, V!WaitInv, V!Types
  <1>2. V!WaitInv'
    <2>1. ASSUME NEW u \in Tools
          PROVE  /\ (req'[u] = "queued") = V!Waiting(u)'
                 /\ (req'[u] = "over") = (heard'[u] # "none")
                 /\ (req'[u] = "none") = (kind'[u] = None)
      <3>1. /\ (req[u] = "queued") = V!Waiting(u)
            /\ (req[u] = "over") = (heard[u] # "none")
            /\ (req[u] = "none") = (kind[u] = None)
        BY DEF V!IInv, V!WaitInv
      <3>2. CASE u = t
        BY <1>1, <3>1, <3>2
      <3>3. CASE u # t
        BY <3>1, <3>3
      <3> QED
        BY <3>2, <3>3
    <2> QED
      BY <2>1, Zenon DEF V!WaitInv
  <1>3. \A u \in Tools : heard[u] = "yes" => heard'[u] = "yes"
    BY <1>1
  <1> QED
    BY <1>2, <1>3 DEF V!IInv, V!ObeyInv, V!FramesKept, V!Types

LEMMA PasteToldStep ==
  ASSUME V!ServicesAssumption, V!IInv, NEW w \in V!Answers, V!Tell(V!TellPaste(w)),
         kind' = kind, done' = done,
         \A u \in Tools : V!Waiting(u)' = (V!Waiting(u) /\ u # pending_paste)
  PROVE  /\ heard' \in [Tools -> V!Answers \cup {"none"}]
         /\ req' \in [Tools -> {"none", "queued", "over"}]
         /\ V!WaitInv'
         /\ \A u \in Tools : heard[u] = "yes" => heard'[u] = "yes"
         /\ \A u \in done' : heard'[u] = "yes" /\ kind'[u] \in V!Limited
  <1>0. V!Types
    BY DEF V!IInv
  <1>1. CASE pending_paste = None
    <2>1. /\ heard' \in [Tools -> V!Answers \cup {"none"}]
          /\ req' \in [Tools -> {"none", "queued", "over"}]
          /\ \A u \in Tools : req'[u] = req[u] /\ heard'[u] = heard[u]
      BY <1>0, <1>1, TellPasteEffect
    <2>2. \A u \in Tools : V!Waiting(u)' = V!Waiting(u)
      BY <1>1 DEF V!ServicesAssumption, V!Waiting
    <2>3. V!WaitInv'
      BY <2>1, <2>2 DEF V!IInv, V!WaitInv
    <2> QED
      BY <2>1, <2>3 DEF V!IInv, V!ObeyInv, V!FramesKept, V!Types
  <1>2. CASE pending_paste # None
    <2>1. PICK t \in Tools : t = pending_paste
      BY <1>0, <1>2 DEF V!Types
    <2>2. V!Waiting(t)
      BY <2>1 DEF V!Waiting
    <2>3. w # "none"
      BY DEF V!Answers
    <2>4. /\ heard' \in [Tools -> V!Answers \cup {"none"}]
          /\ req' \in [Tools -> {"none", "queued", "over"}]
          /\ req'[t] = "over" /\ heard'[t] = w
          /\ \A u \in Tools \ {t} : req'[u] = req[u] /\ heard'[u] = heard[u]
      BY <1>0, <1>2, <2>1, TellPasteEffect
    <2>5. \A u \in Tools : V!Waiting(u)' = (V!Waiting(u) /\ u # t)
      BY <2>1
    <2>6. /\ req'[t] = "over" /\ heard'[t] # "none"
          /\ \A u \in Tools \ {t} : req'[u] = req[u] /\ heard'[u] = heard[u]
      BY <2>3, <2>4
    <2>7. /\ V!WaitInv'
          /\ \A u \in Tools : heard[u] = "yes" => heard'[u] = "yes"
          /\ \A u \in done' : heard'[u] = "yes" /\ kind'[u] \in V!Limited
      BY <2>2, <2>5, <2>6, ToldStep, Zenon
    <2> QED
      BY <2>4, <2>7
  <1> QED
    BY <1>1, <1>2

LEMMA FramesStep ==
  ASSUME V!IInv, kind' = kind, NEW q \in Seq(V!FrameType),
         V!Range(q) \subseteq V!Range(to_client), to_client' = q,
         \A u \in Tools : heard[u] = "yes" => heard'[u] = "yes"
  PROVE  V!FramesKept'
  <1>1. \A f \in V!Range(q) : f \in V!FrameType
    BY RangeInSet
  <1> QED
    BY <1>1 DEF V!IInv, V!ObeyInv, V!FramesKept, V!FrameType

LEMMA SendStep ==
  ASSUME V!IInv, kind' = kind, NEW k \in V!Kinds, NEW t \in Tools, kind[t] = k,
         k \in V!Limited => heard'[t] = "yes", V!send_framed_timed(k, t),
         \A u \in Tools : heard[u] = "yes" => heard'[u] = "yes"
  PROVE  to_client' \in Seq(V!FrameType) /\ V!FramesKept'
  <1> DEFINE f == [kind |-> k, tool |-> t]
  <1>1. f \in V!FrameType /\ f.kind = k /\ f.tool = t
    BY DEF V!FrameType
  <1>2. to_client \in Seq(V!FrameType)
    BY DEF V!IInv, V!Types
  <1>3. to_client' = to_client \/ to_client' = Append(to_client, f)
    BY DEF V!send_framed_timed
  <1> HIDE DEF f
  <1>4. Append(to_client, f) \in Seq(V!FrameType)
        /\ V!Range(Append(to_client, f)) = V!Range(to_client) \cup {f}
    BY <1>1, <1>2, AppendJoins
  <1>5. to_client' \in Seq(V!FrameType) /\ V!Range(to_client') \subseteq V!Range(to_client) \cup {f}
    BY <1>2, <1>3, <1>4
  <1>6. \A g \in V!Range(to_client) : g \in V!FrameType
    BY <1>2, RangeInSet
  <1> QED
    BY <1>1, <1>5, <1>6 DEF V!IInv, V!ObeyInv, V!FramesKept, V!FrameType

-----------------------------------------------------------------------------
(* The session *)

LEMMA OpenStep ==
  ASSUME V!ServicesAssumption, V!IInv, V!HandleOpenEvent
  PROVE  V!IInv'
  <1> DEFINE t == Head(open_event)
  <1>1. /\ open_event # <<>> /\ open_event' = Tail(open_event)
        /\ phase \in {"attached", "detached"}
        /\ UNCHANGED <<kind, phase, V!conn, clipboard_event, V!paste, from_client, spent,
                       done, attaches>>
    BY DEF V!HandleOpenEvent
  <1>2. /\ \/ V!send_framed_timed("OpenUrl", t) /\ V!Tell({<<t, "yes">>})
           \/ V!Tell({<<t, "no">>}) /\ UNCHANGED to_client
    BY DEF V!HandleOpenEvent
  <1> HIDE DEF t
  <1>3. /\ open_event' \in Seq(Tools) /\ t \in Tools
        /\ V!Range(open_event) = V!Range(open_event') \cup {t}
        /\ V!IsInjective(open_event') /\ t \notin V!Range(open_event')
    <2>1. open_event \in Seq(Tools) /\ V!IsInjective(open_event)
      BY DEF V!IInv, V!Types, V!InOnePlace
    <2>2. /\ Tail(open_event) \in Seq(Tools) /\ t \in Tools
          /\ V!Range(open_event) = V!Range(Tail(open_event)) \cup {t}
          /\ V!IsInjective(Tail(open_event)) /\ t \notin V!Range(Tail(open_event))
      BY <1>1, <2>1, HeadLeaves, Zenon DEF t
    <2> QED
      BY <1>1, <2>2, Zenon
  <1>4. kind[t] = "OpenUrl" /\ V!Waiting(t)
    BY <1>3 DEF V!IInv, V!InOnePlace, V!Waiting
  <1>5. \A u \in Tools : V!Waiting(u)' = (V!Waiting(u) /\ u # t)
    <2>1. t \notin V!Range(clipboard_event) /\ t # pending_paste
      <3>1. t # None
        BY <1>3 DEF V!ServicesAssumption
      <3> QED
        BY <1>4, <3>1 DEF V!IInv, V!InOnePlace
    <2> QED
      BY <1>1, <1>3, <2>1 DEF V!Waiting, V!paste
  <1>6. V!Types
    BY DEF V!IInv
  <1>7. /\ heard' \in [Tools -> V!Answers \cup {"none"}]
        /\ req' \in [Tools -> {"none", "queued", "over"}]
        /\ req'[t] = "over" /\ heard'[t] \in {"yes", "no"}
        /\ \/ V!send_framed_timed("OpenUrl", t) /\ heard'[t] = "yes"
           \/ UNCHANGED to_client
        /\ \A u \in Tools \ {t} : req'[u] = req[u] /\ heard'[u] = heard[u]
    <2>1. "yes" \in V!Answers /\ "no" \in V!Answers
      BY DEF V!Answers
    <2>2. CASE V!send_framed_timed("OpenUrl", t) /\ V!Tell({<<t, "yes">>})
      BY <1>3, <1>6, <2>1, <2>2, TellOne
    <2>3. CASE V!Tell({<<t, "no">>}) /\ UNCHANGED to_client
      BY <1>3, <1>6, <2>1, <2>3, TellOne
    <2> QED
      BY <1>2, <2>2, <2>3
  <1>8. /\ V!WaitInv'
        /\ \A u \in Tools : heard[u] = "yes" => heard'[u] = "yes"
        /\ \A u \in done' : heard'[u] = "yes" /\ kind'[u] \in V!Limited
    <2>1. heard'[t] # "none" /\ kind' = kind /\ done' = done
      BY <1>1, <1>7
    <2> QED
      BY <1>3, <1>4, <1>5, <1>7, <2>1, ToldStep, Zenon
  <1>9. to_client' \in Seq(V!FrameType) /\ V!FramesKept'
    <2>1. CASE V!send_framed_timed("OpenUrl", t) /\ heard'[t] = "yes"
      BY <1>1, <1>3, <1>4, <1>8, <2>1, SendStep DEF V!Kinds
    <2>2. CASE UNCHANGED to_client
      BY <1>1, <1>8, <2>2, FramesStep DEF V!IInv, V!Types
    <2> QED
      BY <1>7, <2>1, <2>2
  <1>10. V!Types' /\ V!RateHeld'
    BY <1>1, <1>3, <1>7, <1>9 DEF V!IInv, V!Types, V!RateHeld, V!conn, V!paste, V!Answers
  <1>11. V!InOnePlace'
    BY <1>1, <1>3 DEF V!IInv, V!InOnePlace, V!paste
  <1>12. V!PasteInv'
    BY <1>1 DEF V!IInv, V!PasteInv, V!paste, V!conn
  <1>13. V!ObeyInv'
    BY <1>8, <1>9 DEF V!FramesKept, V!ObeyInv
  <1> QED
    BY <1>8, <1>10, <1>11, <1>12, <1>13 DEF V!IInv

LEMMA ClipboardStep ==
  ASSUME V!ServicesAssumption, V!IInv, V!HandleClipboardEvent
  PROVE  V!IInv'
  <1> DEFINE t == Head(clipboard_event)
  <1>1. /\ clipboard_event # <<>> /\ clipboard_event' = Tail(clipboard_event)
        /\ phase \in {"attached", "detached"}
        /\ UNCHANGED <<kind, phase, V!conn, open_event, from_client, spent, done, attaches>>
    BY DEF V!HandleClipboardEvent
  <1>2. \/ /\ \E w \in {"no", "closed"} : V!Tell({<<t, w>>})
           /\ UNCHANGED <<V!paste, to_client>>
        \/ /\ kind[t] = "Copy" /\ V!send_framed_timed("Copy", t)
           /\ V!Tell({<<t, "yes">>}) /\ UNCHANGED V!paste
        \/ /\ kind[t] # "Copy" /\ phase = "attached"
           /\ V!Tell(V!TellPaste("closed"))
           /\ pending_paste' = t /\ paste_deadline' = TRUE
           /\ V!send_framed_timed("Paste", t)
    <2>1. CASE phase = "detached" \/ ~negotiated_caps
      BY <2>1, Zenon DEF V!HandleClipboardEvent
    <2>2. CASE ~(phase = "detached" \/ ~negotiated_caps)
      BY <1>1, <2>2 DEF V!HandleClipboardEvent
    <2> QED
      BY <2>1, <2>2
  <1> HIDE DEF t
  <1>3. /\ clipboard_event' \in Seq(Tools) /\ t \in Tools
        /\ V!Range(clipboard_event) = V!Range(clipboard_event') \cup {t}
        /\ V!IsInjective(clipboard_event') /\ t \notin V!Range(clipboard_event')
    <2>1. clipboard_event \in Seq(Tools) /\ V!IsInjective(clipboard_event)
      BY DEF V!IInv, V!Types, V!InOnePlace
    <2>2. /\ Tail(clipboard_event) \in Seq(Tools) /\ t \in Tools
          /\ V!Range(clipboard_event) = V!Range(Tail(clipboard_event)) \cup {t}
          /\ V!IsInjective(Tail(clipboard_event)) /\ t \notin V!Range(Tail(clipboard_event))
      BY <1>1, <2>1, HeadLeaves, Zenon DEF t
    <2> QED
      BY <1>1, <2>2, Zenon
  <1>4. kind[t] \in {"Copy", "Paste"} /\ V!Waiting(t) /\ t # pending_paste
        /\ t \notin V!Range(open_event) /\ t # None
    <2>1. kind[t] \in {"Copy", "Paste"} /\ t # pending_paste
      BY <1>3 DEF V!IInv, V!InOnePlace
    <2> QED
      BY <1>3, <2>1 DEF V!IInv, V!InOnePlace, V!Waiting, V!ServicesAssumption
  <1>5. V!Types
    BY DEF V!IInv
  <1>6. ASSUME NEW w \in V!Answers, V!Tell({<<t, w>>}), UNCHANGED V!paste,
               \/ UNCHANGED to_client
               \/ w = "yes" /\ kind[t] = "Copy" /\ V!send_framed_timed("Copy", t)
        PROVE  V!IInv'
    <2>1. \A u \in Tools : V!Waiting(u)' = (V!Waiting(u) /\ u # t)
      BY <1>1, <1>3, <1>4, <1>6 DEF V!Waiting, V!paste
    <2>2. /\ heard' \in [Tools -> V!Answers \cup {"none"}]
          /\ req' \in [Tools -> {"none", "queued", "over"}]
          /\ req'[t] = "over" /\ heard'[t] = w
          /\ \A u \in Tools \ {t} : req'[u] = req[u] /\ heard'[u] = heard[u]
      BY <1>3, <1>5, <1>6, TellOne
    <2>3. /\ V!WaitInv'
          /\ \A u \in Tools : heard[u] = "yes" => heard'[u] = "yes"
          /\ \A u \in done' : heard'[u] = "yes" /\ kind'[u] \in V!Limited
      <3>1. heard'[t] # "none" /\ kind' = kind /\ done' = done
        BY <1>1, <1>6, <2>2 DEF V!Answers
      <3> QED
        BY <1>3, <1>4, <2>1, <2>2, <3>1, ToldStep, Zenon
    <2>4. to_client' \in Seq(V!FrameType) /\ V!FramesKept'
      <3>1. CASE w = "yes" /\ kind[t] = "Copy" /\ V!send_framed_timed("Copy", t)
        BY <1>1, <1>3, <2>2, <2>3, <3>1, SendStep DEF V!Kinds
      <3>2. CASE UNCHANGED to_client
        BY <1>1, <2>3, <3>2, FramesStep DEF V!IInv, V!Types
      <3> QED
        BY <1>6, <3>1, <3>2
    <2>5. V!Types' /\ V!RateHeld'
      BY <1>1, <1>3, <1>6, <2>2, <2>4 DEF V!IInv, V!Types, V!RateHeld, V!conn, V!paste,
           V!Answers
    <2>6. V!InOnePlace'
      BY <1>1, <1>3, <1>6 DEF V!IInv, V!InOnePlace, V!paste
    <2>7. V!PasteInv'
      BY <1>1, <1>6 DEF V!IInv, V!PasteInv, V!paste, V!conn
    <2>8. V!ObeyInv'
      BY <2>3, <2>4 DEF V!FramesKept, V!ObeyInv
    <2> QED
      BY <2>3, <2>5, <2>6, <2>7, <2>8 DEF V!IInv
  <1>7. ASSUME kind[t] # "Copy", phase = "attached", V!Tell(V!TellPaste("closed")),
               pending_paste' = t, paste_deadline' = TRUE, V!send_framed_timed("Paste", t)
        PROVE  V!IInv'
    <2>0. kind[t] = "Paste"
      BY <1>4, <1>7
    <2>1. \A u \in Tools : V!Waiting(u)' = (V!Waiting(u) /\ u # pending_paste)
      <3>1. \A u \in Tools : u = pending_paste =>
               u \notin V!Range(open_event) /\ u \notin V!Range(clipboard_event)
        BY DEF V!IInv, V!InOnePlace, V!ServicesAssumption
      <3> QED
        BY <1>1, <1>3, <1>4, <1>7, <3>1 DEF V!Waiting
    <2>2. /\ heard' \in [Tools -> V!Answers \cup {"none"}]
          /\ req' \in [Tools -> {"none", "queued", "over"}]
          /\ V!WaitInv'
          /\ \A u \in Tools : heard[u] = "yes" => heard'[u] = "yes"
          /\ \A u \in done' : heard'[u] = "yes" /\ kind'[u] \in V!Limited
      <3>1. "closed" \in V!Answers /\ kind' = kind /\ done' = done
        BY <1>1 DEF V!Answers
      <3> QED
        BY <1>7, <2>1, <3>1, PasteToldStep, Zenon
    <2>3. to_client' \in Seq(V!FrameType) /\ V!FramesKept'
      BY <1>1, <1>3, <1>7, <2>0, <2>2, SendStep DEF V!Kinds, V!Limited
    <2>4. V!Types' /\ V!RateHeld'
      BY <1>1, <1>3, <1>7, <2>2, <2>3 DEF V!IInv, V!Types, V!RateHeld, V!conn, V!Answers
    <2>5. V!InOnePlace'
      BY <1>1, <1>3, <1>4, <1>7, <2>0 DEF V!IInv, V!InOnePlace
    <2>6. V!PasteInv'
      BY <1>1, <1>4, <1>7 DEF V!IInv, V!PasteInv, V!conn
    <2>7. V!ObeyInv'
      BY <2>2, <2>3 DEF V!FramesKept, V!ObeyInv
    <2> QED
      BY <2>2, <2>4, <2>5, <2>6, <2>7 DEF V!IInv
  <1>8. {"no", "closed", "yes"} \subseteq V!Answers
    BY DEF V!Answers
  <1> QED
    BY <1>2, <1>6, <1>7, <1>8

LEMMA PasteEnds ==
  ASSUME V!ServicesAssumption, V!IInv, NEW w \in V!Answers, V!Tell(V!TellPaste(w)),
         pending_paste' = None, UNCHANGED <<kind, V!queues, done>>,
         to_client' = to_client \/ to_client' = <<>>
  PROVE  /\ heard' \in [Tools -> V!Answers \cup {"none"}]
         /\ req' \in [Tools -> {"none", "queued", "over"}]
         /\ to_client' \in Seq(V!FrameType)
         /\ V!WaitInv' /\ V!ObeyInv' /\ V!InOnePlace'
  <1>1. \A u \in Tools : V!Waiting(u)' = (V!Waiting(u) /\ u # pending_paste)
    <2>1. \A u \in Tools : u = pending_paste =>
             u \notin V!Range(open_event) /\ u \notin V!Range(clipboard_event)
      BY DEF V!IInv, V!InOnePlace, V!ServicesAssumption
    <2>2. \A u \in Tools : u # None
      BY DEF V!ServicesAssumption
    <2> QED
      BY <2>1, <2>2 DEF V!Waiting, V!queues
  <1>2. /\ heard' \in [Tools -> V!Answers \cup {"none"}]
        /\ req' \in [Tools -> {"none", "queued", "over"}]
        /\ V!WaitInv'
        /\ \A u \in Tools : heard[u] = "yes" => heard'[u] = "yes"
        /\ \A u \in done' : heard'[u] = "yes" /\ kind'[u] \in V!Limited
    BY <1>1, PasteToldStep, Zenon
  <1>3. to_client' \in Seq(V!FrameType) /\ V!Range(to_client') \subseteq V!Range(to_client)
    <2>1. V!Range(<<>>) = {} /\ <<>> \in Seq(V!FrameType)
      BY DEF V!Range
    <2> QED
      BY <2>1 DEF V!IInv, V!Types
  <1>4. V!FramesKept'
    BY <1>2, <1>3, FramesStep
  <1>5. V!InOnePlace'
    <2>1. \A u \in V!Range(clipboard_event) : u # None
      BY RangeInSet DEF V!IInv, V!Types, V!ServicesAssumption
    <2> QED
      BY <2>1 DEF V!IInv, V!InOnePlace, V!queues
  <1> QED
    BY <1>2, <1>3, <1>4, <1>5 DEF V!FramesKept, V!ObeyInv

LEMMA DeadlineStep ==
  ASSUME V!ServicesAssumption, V!IInv, V!PasteDeadline
  PROVE  V!IInv'
  <1>1. "closed" \in V!Answers
    BY DEF V!Answers
  <1>2. /\ heard' \in [Tools -> V!Answers \cup {"none"}]
        /\ req' \in [Tools -> {"none", "queued", "over"}]
        /\ V!WaitInv' /\ V!ObeyInv' /\ V!InOnePlace'
    BY <1>1, PasteEnds DEF V!PasteDeadline
  <1>3. V!Types' /\ V!RateHeld'
    BY <1>2 DEF V!PasteDeadline, V!IInv, V!Types, V!RateHeld, V!conn, V!queues, V!Answers
  <1>4. V!PasteInv'
    BY DEF V!PasteDeadline, V!IInv, V!PasteInv, V!conn, V!queues
  <1> QED
    BY <1>2, <1>3, <1>4 DEF V!IInv

LEMMA ClientFrameStep ==
  ASSUME V!ServicesAssumption, V!IInv, V!HandleClientFrame
  PROVE  V!IInv'
  <1>1. /\ phase = "attached" /\ from_client # <<>> /\ from_client' = Tail(from_client)
        /\ UNCHANGED <<kind, phase, owner, link, caps, negotiated_caps, V!queues,
                       to_client, spent, done, attaches>>
    BY DEF V!HandleClientFrame
  <1>2. from_client' \in Seq({"OpenForward", "ClipboardData"})
    BY <1>1 DEF V!IInv, V!Types
  <1>3. CASE open_forward_enabled' = TRUE /\ UNCHANGED <<V!paste, req, heard>>
    <2>1. V!Types' /\ V!RateHeld'
      BY <1>1, <1>2, <1>3 DEF V!IInv, V!Types, V!RateHeld, V!paste, V!queues
    <2>2. V!InOnePlace' /\ V!PasteInv' /\ V!ObeyInv'
      BY <1>1, <1>3 DEF V!IInv, V!InOnePlace, V!PasteInv, V!ObeyInv, V!FramesKept, V!paste,
           V!queues
    <2>3. V!WaitInv'
      BY <1>1, <1>3 DEF V!IInv, V!WaitInv, V!Waiting, V!paste, V!queues
    <2> QED
      BY <2>1, <2>2, <2>3 DEF V!IInv
  <1>4. CASE /\ paste_deadline' = FALSE /\ pending_paste' = None
             /\ V!Tell(V!TellPaste("data")) /\ UNCHANGED open_forward_enabled
    <2>1. "data" \in V!Answers
      BY DEF V!Answers
    <2>2. /\ heard' \in [Tools -> V!Answers \cup {"none"}]
          /\ req' \in [Tools -> {"none", "queued", "over"}]
          /\ V!WaitInv' /\ V!ObeyInv' /\ V!InOnePlace'
      BY <1>1, <1>4, <2>1, PasteEnds
    <2>3. V!Types' /\ V!RateHeld'
      BY <1>1, <1>2, <1>4, <2>2 DEF V!IInv, V!Types, V!RateHeld, V!queues, V!Answers
    <2>4. V!PasteInv'
      BY <1>1, <1>4 DEF V!IInv, V!PasteInv, V!queues
    <2> QED
      BY <2>2, <2>3, <2>4 DEF V!IInv
  <1> QED
    BY <1>3, <1>4 DEF V!HandleClientFrame

LEMMA AttachStep ==
  ASSUME V!ServicesAssumption, V!IInv, NEW c \in Clients, NEW f \in BOOLEAN, V!Attach(c, f)
  PROVE  V!IInv'
  <1>1. "closed" \in V!Answers
    BY DEF V!Answers
  <1>2. /\ heard' \in [Tools -> V!Answers \cup {"none"}]
        /\ req' \in [Tools -> {"none", "queued", "over"}]
        /\ to_client' \in Seq(V!FrameType)
        /\ V!WaitInv' /\ V!ObeyInv' /\ V!InOnePlace'
    BY <1>1, PasteEnds DEF V!Attach
  <1>3. /\ attaches' \in 0..MaxAttaches
        /\ from_client' \in Seq({"OpenForward", "ClipboardData"})
        /\ negotiated_caps' \in BOOLEAN
    <2>1. attaches \in 0..MaxAttaches /\ attaches < MaxAttaches /\ attaches' = attaches + 1
      BY DEF V!Attach, V!IInv, V!Types
    <2>2. from_client' = <<"OpenForward">> \/ from_client' = <<>>
      BY DEF V!Attach
    <2>3. from_client' \in Seq({"OpenForward", "ClipboardData"})
      <3>1. <<"OpenForward">> \in Seq({"OpenForward", "ClipboardData"})
        OBVIOUS
      <3>2. <<>> \in Seq({"OpenForward", "ClipboardData"})
        OBVIOUS
      <3> QED
        BY <2>2, <3>1, <3>2
    <2>4. negotiated_caps' = (c \in caps)
      BY DEF V!Attach
    <2>5. negotiated_caps' \in BOOLEAN
      BY <2>4
    <2> QED
      BY <2>1, <2>3, <2>5 DEF V!ServicesAssumption
  <1>4. V!Types' /\ V!RateHeld'
    BY <1>2, <1>3 DEF V!Attach, V!IInv, V!Types, V!RateHeld, V!queues, V!Answers
  <1>5. V!PasteInv'
    BY DEF V!Attach, V!IInv, V!PasteInv, V!queues, V!ServicesAssumption
  <1> QED
    BY <1>2, <1>4, <1>5 DEF V!IInv

LEMMA LinkDiesStep ==
  ASSUME V!ServicesAssumption, V!IInv, V!LinkDies
  PROVE  V!IInv'
  <1>1. V!Range(<<>>) = {}
    BY DEF V!Range
  <1>2. V!Types' /\ V!RateHeld'
    BY DEF V!LinkDies, V!IInv, V!Types, V!RateHeld, V!tools, V!queues, V!paste
  <1>3. V!InOnePlace' /\ V!PasteInv' /\ V!ObeyInv'
    BY <1>1 DEF V!LinkDies, V!IInv, V!InOnePlace, V!PasteInv, V!ObeyInv, V!FramesKept,
         V!tools, V!queues, V!paste
  <1>4. V!WaitInv'
    BY DEF V!LinkDies, V!IInv, V!WaitInv, V!Waiting, V!tools, V!queues, V!paste
  <1> QED
    BY <1>2, <1>3, <1>4 DEF V!IInv

LEMMA ClientGoneStep ==
  ASSUME V!ServicesAssumption, V!IInv, V!ClientGone
  PROVE  V!IInv'
  <1>1. "closed" \in V!Answers
    BY DEF V!Answers
  <1>2. /\ heard' \in [Tools -> V!Answers \cup {"none"}]
        /\ req' \in [Tools -> {"none", "queued", "over"}]
        /\ to_client' \in Seq(V!FrameType)
        /\ V!WaitInv' /\ V!ObeyInv' /\ V!InOnePlace'
    BY <1>1, PasteEnds DEF V!ClientGone
  <1>3. V!Types' /\ V!RateHeld'
    BY <1>2 DEF V!ClientGone, V!IInv, V!Types, V!RateHeld, V!queues, V!Answers
  <1>4. V!PasteInv'
    BY DEF V!ClientGone, V!IInv, V!PasteInv, V!queues
  <1> QED
    BY <1>2, <1>3, <1>4 DEF V!IInv

LEMMA EndStep ==
  ASSUME V!ServicesAssumption, V!IInv, V!End
  PROVE  V!IInv'
  <1> DEFINE S == {<<t, IF kind[t] = "Copy" THEN "no" ELSE "closed">> :
                     t \in V!Range(open_event) \cup V!Range(clipboard_event)}
                  \cup V!TellPaste("closed")
  <1>1. V!Range(open_event) \subseteq Tools /\ V!Range(clipboard_event) \subseteq Tools
        /\ pending_paste \in Tools \cup {None} /\ V!Types
    BY RangeInSet DEF V!IInv, V!Types
  <1>2. S \in SUBSET (Tools \X V!Answers)
    BY <1>1 DEF V!TellPaste, V!Answers
  <1>3. \A u \in Tools : (\E a \in S : a[1] = u) <=> V!Waiting(u)
    <2>1. ASSUME NEW u \in Tools, NEW a \in S, a[1] = u PROVE V!Waiting(u)
      BY <2>1 DEF V!TellPaste, V!Waiting
    <2>2. ASSUME NEW u \in Tools, V!Waiting(u) PROVE \E a \in S : a[1] = u
      <3>1. CASE u \in V!Range(open_event) \cup V!Range(clipboard_event)
        <4>1. <<u, IF kind[u] = "Copy" THEN "no" ELSE "closed">> \in S
          BY <3>1
        <4> QED
          BY <4>1
      <3>2. CASE u = pending_paste
        <4>1. <<u, "closed">> \in S
          BY <3>2 DEF V!TellPaste, V!ServicesAssumption
        <4> QED
          BY <4>1
      <3> QED
        BY <2>2, <3>1, <3>2 DEF V!Waiting
    <2> QED
      BY <2>1, <2>2
  <1>4. V!Tell(S)
    BY DEF V!End
  <1> HIDE DEF S
  <1>5. /\ heard' \in [Tools -> V!Answers \cup {"none"}]
        /\ req' \in [Tools -> {"none", "queued", "over"}]
        /\ \A u \in Tools : V!Waiting(u) => req'[u] = "over" /\ heard'[u] \in V!Answers
        /\ \A u \in Tools : ~V!Waiting(u) => req'[u] = req[u] /\ heard'[u] = heard[u]
    BY <1>1, <1>2, <1>3, <1>4, TellEffect
  <1>6. /\ phase' = "ended" /\ link' = "none" /\ open_event' = <<>> /\ clipboard_event' = <<>>
        /\ pending_paste' = None /\ paste_deadline' = FALSE
        /\ UNCHANGED <<kind, owner, caps, negotiated_caps, open_forward_enabled,
                       to_client, from_client, spent, done, attaches>>
    BY DEF V!End
  <1>7. V!Range(<<>>) = {} /\ V!IsInjective(<<>>)
    BY DEF V!Range, V!IsInjective
  <1>8. \A u \in Tools : ~V!Waiting(u)'
    BY <1>6, <1>7 DEF V!Waiting, V!ServicesAssumption
  <1>9. V!WaitInv'
    <2>1. ASSUME NEW u \in Tools
          PROVE  /\ (req'[u] = "queued") = FALSE
                 /\ (req'[u] = "over") = (heard'[u] # "none")
                 /\ (req'[u] = "none") = (kind'[u] = None)
      <3>1. /\ (req[u] = "queued") <=> V!Waiting(u)
            /\ (req[u] = "over") = (heard[u] # "none")
            /\ (req[u] = "none") = (kind[u] = None)
        BY DEF V!IInv, V!WaitInv, V!Waiting
      <3>2. CASE V!Waiting(u)
        BY <1>5, <1>6, <3>1, <3>2 DEF V!Answers
      <3>3. CASE ~V!Waiting(u)
        BY <1>5, <1>6, <3>1, <3>3
      <3> QED
        BY <3>2, <3>3
    <2> QED
      BY <1>8, <2>1 DEF V!WaitInv, V!Waiting
  <1>10. V!Types' /\ V!RateHeld'
    <2>1. <<>> \in Seq(Tools)
      OBVIOUS
    <2>2. open_event' \in Seq(Tools) /\ clipboard_event' \in Seq(Tools)
      BY <1>6, <2>1
    <2> QED
      BY <1>5, <1>6, <2>2 DEF V!IInv, V!Types, V!RateHeld, V!Answers
  <1>11. V!InOnePlace'
    BY <1>6, <1>7 DEF V!InOnePlace
  <1>12. V!PasteInv'
    BY <1>6 DEF V!PasteInv
  <1>13. \A u \in Tools : heard[u] = "yes" => heard'[u] = "yes"
    BY <1>5 DEF V!IInv, V!WaitInv, V!Waiting
  <1>14. V!FramesKept'
    BY <1>6, <1>13, FramesStep DEF V!IInv, V!Types
  <1>15. V!ObeyInv'
    BY <1>6, <1>13, <1>14 DEF V!IInv, V!ObeyInv, V!FramesKept, V!Types
  <1> QED
    BY <1>9, <1>10, <1>11, <1>12, <1>15 DEF V!IInv

-----------------------------------------------------------------------------
(* The client *)

LEMMA ClientTakesStep ==
  ASSUME V!ServicesAssumption, V!IInv, V!ClientTakes
  PROVE  V!IInv'
  <1> DEFINE f == Head(to_client)
  <1>1. /\ to_client # <<>> /\ owner # None /\ to_client' = Tail(to_client)
        /\ UNCHANGED <<V!tools, phase, V!conn, V!queues, V!paste, attaches>>
    BY DEF V!ClientTakes
  <1>2. /\ to_client' \in Seq(V!FrameType) /\ f \in V!FrameType
        /\ V!Range(to_client) = V!Range(to_client') \cup {f}
    <2>1. to_client \in Seq(V!FrameType)
      BY DEF V!IInv, V!Types
    <2>2. /\ Tail(to_client) \in Seq(V!FrameType) /\ f \in V!FrameType
          /\ V!Range(to_client) = V!Range(Tail(to_client)) \cup {f}
      BY <1>1, <2>1, HeadLeaves, Zenon
    <2> QED
      BY <1>1, <2>2, Zenon
  <1>3. \/ /\ from_client' \in Seq({"OpenForward", "ClipboardData"})
           /\ UNCHANGED <<spent, done>>
        \/ /\ f.kind # "Paste" /\ spent[owner][f.kind] < MaxCount
           /\ spent' = [spent EXCEPT ![owner][f.kind] = @ + 1]
           /\ done' = done \cup {f.tool} /\ UNCHANGED from_client
    <2>1. from_client \in Seq({"OpenForward", "ClipboardData"})
      BY DEF V!IInv, V!Types
    <2>2. Append(from_client, "ClipboardData") \in Seq({"OpenForward", "ClipboardData"})
      BY <2>1
    <2>3. CASE f.kind = "Paste"
      BY <2>1, <2>2, <2>3 DEF V!ClientTakes
    <2>4. CASE f.kind # "Paste"
      BY <2>1, <2>4 DEF V!ClientTakes, V!check
    <2> QED
      BY <2>3, <2>4
  <1> HIDE DEF f
  <1>4. /\ kind[f.tool] = f.kind /\ f.tool \in Tools
        /\ f.kind # "Paste" => f.kind \in V!Limited /\ heard[f.tool] = "yes"
    BY <1>2 DEF V!IInv, V!ObeyInv, V!FramesKept, V!FrameType, V!Kinds, V!Limited
  <1>5. spent' \in [Clients -> [V!Limited -> Nat]] /\ V!RateHeld'
    <2>1. spent \in [Clients -> [V!Limited -> Nat]] /\ owner \in Clients
      BY <1>1 DEF V!IInv, V!Types
    <2>2. CASE UNCHANGED spent
      BY <2>1, <2>2 DEF V!IInv, V!RateHeld
    <2>3. CASE /\ f.kind # "Paste" /\ spent[owner][f.kind] < MaxCount
               /\ spent' = [spent EXCEPT ![owner][f.kind] = @ + 1]
      <3>1. f.kind \in V!Limited
        BY <1>4, <2>3
      <3>2. \A c \in Clients, k \in V!Limited :
               spent'[c][k] = IF c = owner /\ k = f.kind THEN spent[c][k] + 1 ELSE spent[c][k]
        BY <2>1, <2>3, <3>1
      <3>3. spent' \in [Clients -> [V!Limited -> Nat]]
        BY <2>1, <2>3, <3>1
      <3> QED
        BY <2>1, <2>3, <3>2, <3>3 DEF V!IInv, V!RateHeld, V!ServicesAssumption
    <2> QED
      BY <1>3, <2>2, <2>3
  <1>6. done' \subseteq Tools /\ (\A u \in done' : heard[u] = "yes" /\ kind[u] \in V!Limited)
    BY <1>3, <1>4 DEF V!IInv, V!Types, V!ObeyInv, V!FramesKept
  <1>7. V!Types'
    BY <1>1, <1>2, <1>3, <1>5, <1>6 DEF V!IInv, V!Types, V!tools, V!conn, V!queues, V!paste
  <1>8. V!InOnePlace' /\ V!PasteInv'
    BY <1>1 DEF V!IInv, V!InOnePlace, V!PasteInv, V!tools, V!conn, V!queues, V!paste
  <1>9. V!WaitInv'
    BY <1>1 DEF V!IInv, V!WaitInv, V!Waiting, V!tools, V!queues, V!paste
  <1>10. V!ObeyInv'
    BY <1>1, <1>2, <1>6 DEF V!IInv, V!ObeyInv, V!FramesKept, V!tools
  <1> QED
    BY <1>5, <1>7, <1>8, <1>9, <1>10 DEF V!IInv

LEMMA WindowStep ==
  ASSUME V!ServicesAssumption, V!IInv, NEW c \in Clients, NEW k \in V!Limited, V!WindowMoves(c, k)
  PROVE  V!IInv'
  <1>1. spent' \in [Clients -> [V!Limited -> Nat]] /\ V!RateHeld'
    <2>1. spent \in [Clients -> [V!Limited -> Nat]]
          /\ spent[c][k] > 0 /\ spent' = [spent EXCEPT ![c][k] = @ - 1]
      BY DEF V!IInv, V!Types, V!WindowMoves
    <2>2. \A d \in Clients, l \in V!Limited :
             spent'[d][l] = IF d = c /\ l = k THEN spent[d][l] - 1 ELSE spent[d][l]
      BY <2>1
    <2>3. spent[c][k] - 1 \in Nat
      BY <2>1
    <2>4. spent' \in [Clients -> [V!Limited -> Nat]]
      BY <2>1, <2>3
    <2> QED
      BY <2>1, <2>2, <2>4 DEF V!IInv, V!RateHeld, V!ServicesAssumption
  <1>2. V!Types'
    BY <1>1 DEF V!WindowMoves, V!IInv, V!Types, V!tools, V!conn, V!queues, V!paste
  <1>3. V!InOnePlace' /\ V!PasteInv' /\ V!ObeyInv'
    BY DEF V!WindowMoves, V!IInv, V!InOnePlace, V!PasteInv, V!ObeyInv, V!FramesKept, V!tools,
         V!conn, V!queues, V!paste
  <1>4. V!WaitInv'
    BY DEF V!WindowMoves, V!IInv, V!WaitInv, V!Waiting, V!tools, V!queues, V!paste
  <1> QED
    BY <1>1, <1>2, <1>3, <1>4 DEF V!IInv

-----------------------------------------------------------------------------
(* The theorems *)

LEMMA ServicesInit ==
  ASSUME V!ServicesAssumption, V!Init
  PROVE  V!IInv
  <1>1. V!Range(<<>>) = {} /\ V!IsInjective(<<>>)
    BY DEF V!Range, V!IsInjective
  <1>2. V!Types /\ V!RateHeld
    <2>1. /\ open_event \in Seq(Tools) /\ clipboard_event \in Seq(Tools)
          /\ to_client \in Seq(V!FrameType)
          /\ from_client \in Seq({"OpenForward", "ClipboardData"})
      BY DEF V!Init
    <2>2. /\ kind \in [Tools -> V!Kinds \cup {None}]
          /\ req \in [Tools -> {"none", "queued", "over"}]
          /\ heard \in [Tools -> V!Answers \cup {"none"}]
          /\ spent \in [Clients -> [V!Limited -> Nat]]
      BY DEF V!Init, V!Limited
    <2>3. \A c \in Clients, k \in V!Limited : spent[c][k] = 0
      BY DEF V!Init, V!Limited
    <2>4. V!RateHeld
      BY <2>3 DEF V!RateHeld, V!ServicesAssumption
    <2>5. /\ phase = "detached" /\ owner = None /\ link = "none" /\ caps \in SUBSET Clients
          /\ negotiated_caps = FALSE /\ open_forward_enabled = FALSE
          /\ pending_paste = None /\ paste_deadline = FALSE /\ done = {} /\ attaches = 0
      BY DEF V!Init
    <2>6. attaches \in 0..MaxAttaches
      BY <2>5 DEF V!ServicesAssumption
    <2>7. negotiated_caps \in BOOLEAN /\ open_forward_enabled \in BOOLEAN /\ paste_deadline \in BOOLEAN
      BY <2>5
    <2> QED
      BY <2>1, <2>2, <2>4, <2>5, <2>6, <2>7 DEF V!Types
  <1>3. V!InOnePlace /\ V!PasteInv /\ V!ObeyInv
    BY <1>1 DEF V!Init, V!InOnePlace, V!PasteInv, V!ObeyInv, V!FramesKept
  <1>4. V!WaitInv
    BY <1>1 DEF V!Init, V!WaitInv, V!Waiting, V!ServicesAssumption
  <1> QED
    BY <1>2, <1>3, <1>4 DEF V!IInv

LEMMA ServicesNext ==
  ASSUME V!ServicesAssumption, V!IInv, [V!Next]_(V!vars)
  PROVE  V!IInv'
  <1>1. ASSUME NEW t \in Tools, NEW k \in V!Kinds, NEW size \in {"fits", "empty", "large"},
               V!Ask(t, k, size)
        PROVE  V!IInv'
    BY <1>1, AskStep
  <1>2. CASE V!HandleOpenEvent
    BY <1>2, OpenStep
  <1>3. CASE V!HandleClipboardEvent
    BY <1>3, ClipboardStep
  <1>4. CASE V!PasteDeadline
    BY <1>4, DeadlineStep
  <1>5. CASE V!HandleClientFrame
    BY <1>5, ClientFrameStep
  <1>6. ASSUME NEW c \in Clients, NEW f \in BOOLEAN, V!Attach(c, f)
        PROVE  V!IInv'
    BY <1>6, AttachStep
  <1>7. CASE V!LinkDies
    BY <1>7, LinkDiesStep
  <1>8. CASE V!ClientGone
    BY <1>8, ClientGoneStep
  <1>9. CASE V!End
    BY <1>9, EndStep
  <1>10. CASE V!ClientTakes
    BY <1>10, ClientTakesStep
  <1>11. ASSUME NEW c \in Clients, NEW k \in {"OpenUrl", "Copy"}, V!WindowMoves(c, k)
         PROVE  V!IInv'
    BY <1>11, WindowStep DEF V!Limited
  <1>12. CASE UNCHANGED V!vars
    <2>1. /\ UNCHANGED <<kind, req, heard, phase, owner, link, caps, negotiated_caps,
                          open_forward_enabled, open_event, clipboard_event>>
          /\ UNCHANGED <<pending_paste, paste_deadline, to_client, from_client, spent, done, attaches>>
      BY <1>12 DEF V!vars, V!tools, V!conn, V!queues, V!paste
    <2>2. V!Types' /\ V!RateHeld' /\ V!InOnePlace' /\ V!PasteInv' /\ V!ObeyInv'
      BY <2>1 DEF V!IInv, V!Types, V!RateHeld, V!InOnePlace, V!PasteInv, V!ObeyInv,
           V!FramesKept
    <2>3. V!WaitInv'
      BY <2>1 DEF V!IInv, V!WaitInv, V!Waiting
    <2> QED
      BY <2>2, <2>3 DEF V!IInv
  <1> QED
    BY <1>1, <1>2, <1>3, <1>4, <1>5, <1>6, <1>7, <1>8, <1>9, <1>10, <1>11, <1>12 DEF V!Next

\* A request is in one place from the moment it is read from the service socket
\* until it is answered; what goes to a client, or was obeyed, was answered "yes";
\* and no client obeys more than RateLimiter allows.
THEOREM ServicesAccounted ==
  ASSUME V!ServicesAssumption
  PROVE  V!Spec => [](V!IInv /\ V!TypeOK)
  <1>1. V!IInv => V!TypeOK
    <2>1. V!IInv => V!Range(open_event) \subseteq Tools /\ V!Range(clipboard_event) \subseteq Tools
      BY RangeInSet DEF V!IInv, V!Types
    <2> QED
      BY <2>1 DEF V!IInv, V!Types, V!TypeOK, V!Answers
  <1> QED
    BY <1>1, ServicesInit, ServicesNext, PTL DEF V!Spec

\* A tool that is told that its request failed is told the truth, whatever clients
\* attach, die or are replaced between the request and the answer.
THEOREM ServicesToldTruly ==
  ASSUME V!ServicesAssumption
  PROVE  V!Spec => []V!ToldTruly
  <1>1. V!IInv => V!ToldTruly
    BY DEF V!IInv, V!ObeyInv, V!FramesKept, V!ToldTruly
  <1> QED
    BY <1>1, ServicesAccounted, PTL

LEMMA TellsOnce ==
  ASSUME V!IInv, NEW S \in SUBSET (Tools \X V!Answers), V!Tell(S),
         \A a \in S : heard[a[1]] = "none"
  PROVE  \A t \in Tools : heard[t] # "none" => heard'[t] = heard[t]
  <1>1. V!Types
    BY DEF V!IInv
  <1>2. \A t \in Tools : ~(\E a \in S : a[1] = t) => heard'[t] = heard[t]
    BY <1>1, TellEffect
  <1> QED
    BY <1>2

LEMMA PasteToldOnce ==
  ASSUME V!ServicesAssumption, V!IInv, NEW w \in V!Answers, V!Tell(V!TellPaste(w))
  PROVE  \A t \in Tools : heard[t] # "none" => heard'[t] = heard[t]
  <1>1. V!Types /\ (pending_paste # None => pending_paste \in Tools /\ heard[pending_paste] = "none")
    BY DEF V!IInv, V!Types, V!WaitInv, V!Waiting
  <1>2. \A u \in Tools : u # pending_paste \/ pending_paste = None => heard'[u] = heard[u]
    BY <1>1, TellPasteEffect
  <1> QED
    BY <1>1, <1>2

LEMMA AnswersStay ==
  ASSUME V!ServicesAssumption, V!IInv, [V!Next]_(V!vars)
  PROVE  \A t \in Tools : heard[t] # "none" => heard'[t] = heard[t]
  <1> DEFINE Stay == \A t \in Tools : heard[t] # "none" => heard'[t] = heard[t]
  <1>1. {"yes", "no", "too_large", "closed", "data"} \subseteq V!Answers
    BY DEF V!Answers
  <1>2. \A t \in Tools : req[t] # "over" => heard[t] = "none"
    BY DEF V!IInv, V!WaitInv
  <1>3. \A t \in Tools : V!Waiting(t) => heard[t] = "none"
    BY DEF V!IInv, V!WaitInv, V!Waiting
  <1>4. ASSUME NEW t \in Tools, heard[t] = "none", NEW w \in V!Answers, V!Tell({<<t, w>>})
        PROVE  Stay
    <2> DEFINE S == {<<t, w>>}
    <2>1. S \in SUBSET (Tools \X V!Answers) /\ (\A a \in S : heard[a[1]] = "none") /\ V!Tell(S)
      BY <1>4
    <2> HIDE DEF S
    <2> QED
      BY <2>1, TellsOnce
  <1>5. /\ open_event # <<>> => Head(open_event) \in Tools /\ V!Waiting(Head(open_event))
        /\ clipboard_event # <<>> =>
              Head(clipboard_event) \in Tools /\ V!Waiting(Head(clipboard_event))
    <2>1. open_event \in Seq(Tools) /\ clipboard_event \in Seq(Tools)
      BY DEF V!IInv, V!Types
    <2> QED
      BY <2>1, HeadLeaves DEF V!Waiting
  <1>6. ASSUME NEW t \in Tools, NEW k \in V!Kinds, NEW size \in {"fits", "empty", "large"},
               V!Ask(t, k, size)
        PROVE  Stay
    <2>1. heard[t] = "none"
      BY <1>2, <1>6 DEF V!Ask
    <2>2. UNCHANGED heard \/ \E w \in V!Answers : V!Tell({<<t, w>>})
      BY <1>1, <1>6 DEF V!Ask, V!Kinds
    <2> QED
      BY <1>4, <2>1, <2>2
  <1>7. CASE V!HandleOpenEvent
    <2>1. \E w \in V!Answers : V!Tell({<<Head(open_event), w>>})
      BY <1>1, <1>7 DEF V!HandleOpenEvent
    <2> QED
      BY <1>3, <1>4, <1>5, <1>7, <2>1 DEF V!HandleOpenEvent
  <1>8. CASE V!HandleClipboardEvent
    <2>1. \/ \E w \in V!Answers : V!Tell({<<Head(clipboard_event), w>>})
          \/ V!Tell(V!TellPaste("closed"))
      BY <1>1, <1>8 DEF V!HandleClipboardEvent
    <2>2. CASE V!Tell(V!TellPaste("closed"))
      BY <1>1, <2>2, PasteToldOnce
    <2>3. CASE \E w \in V!Answers : V!Tell({<<Head(clipboard_event), w>>})
      BY <1>3, <1>4, <1>5, <1>8, <2>3 DEF V!HandleClipboardEvent
    <2> QED
      BY <2>1, <2>2, <2>3
  <1>9. CASE \/ V!PasteDeadline \/ V!HandleClientFrame \/ V!ClientGone
             \/ \E c \in Clients, f \in BOOLEAN : V!Attach(c, f)
    <2>1. UNCHANGED heard \/ \E w \in V!Answers : V!Tell(V!TellPaste(w))
      BY <1>1, <1>9 DEF V!PasteDeadline, V!HandleClientFrame, V!ClientGone, V!Attach
    <2> QED
      BY <2>1, PasteToldOnce
  <1>10. CASE V!End
    <2> DEFINE S == {<<t, IF kind[t] = "Copy" THEN "no" ELSE "closed">> :
                       t \in V!Range(open_event) \cup V!Range(clipboard_event)}
                    \cup V!TellPaste("closed")
    <2>1. V!Range(open_event) \subseteq Tools /\ V!Range(clipboard_event) \subseteq Tools
          /\ pending_paste \in Tools \cup {None}
      BY RangeInSet DEF V!IInv, V!Types
    <2>2. S \in SUBSET (Tools \X V!Answers) /\ \A a \in S : a[1] \in Tools /\ V!Waiting(a[1])
      BY <1>1, <2>1 DEF V!TellPaste, V!Waiting
    <2>3. V!Tell(S)
      BY <1>10 DEF V!End
    <2> HIDE DEF S
    <2> QED
      BY <1>3, <2>2, <2>3, TellsOnce
  <1>11. CASE \/ V!LinkDies \/ V!ClientTakes \/ UNCHANGED V!vars
              \/ \E c \in Clients, k \in {"OpenUrl", "Copy"} : V!WindowMoves(c, k)
    BY <1>11 DEF V!LinkDies, V!ClientTakes, V!WindowMoves, V!vars, V!tools
  <1> QED
    BY <1>6, <1>7, <1>8, <1>9, <1>10, <1>11 DEF V!Next

\* What a tool is told is final: no later event of the session answers its request
\* again (the reply sender is taken once).
THEOREM ServicesAnswerOnce ==
  ASSUME V!ServicesAssumption
  PROVE  V!Spec => [][\A t \in Tools : heard[t] # "none" => heard'[t] = heard[t]]_(V!vars)
  <1>1. V!IInv /\ [V!Next]_(V!vars) =>
           [\A t \in Tools : heard[t] # "none" => heard'[t] = heard[t]]_(V!vars)
    BY AnswersStay
  <1>2. V!Spec => []V!IInv
    BY ServicesInit, ServicesNext, PTL DEF V!Spec
  <1> QED
    BY <1>1, <1>2, PTL DEF V!Spec
=============================================================================
