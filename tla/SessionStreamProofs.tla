------------------------ MODULE SessionStreamProofs ------------------------
(***************************************************************************)
(* The proofs about SessionStream, for every number of clients and devices,*)
(* ring size, chunk size and bound.  First what appending to and consuming *)
(* from a stream of frames preserves, then one lemma per conjunct of IInv  *)
(* with a step per action, then the theorems.                              *)
(***************************************************************************)
EXTENDS SessionStreamInv, SequenceTheorems, TLAPS

USE DEF Conns, NoConn
USE ClientsAssumption, DeviceAssumption, CapAssumption, ChunksAssumption, BoundsAssumption

-----------------------------------------------------------------------------
(* Streams of frames *)

\* The offsets a frame records are naturals.
LEMMA FrameFields ==
  ASSUME NEW f \in FrameType
  PROVE  f.lo \in Nat /\ f.hi \in Nat /\ f.at \in Nat
  BY DEF FrameType

\* So are those of every frame in flight.
LEMMA SeqFrame ==
  ASSUME NEW w \in Seq(FrameType), NEW i \in DOMAIN w
  PROVE  w[i] \in FrameType /\ w[i].lo \in Nat /\ w[i].hi \in Nat /\ w[i].at \in Nat
  <1>1. w[i] \in FrameType
    OBVIOUS
  <1> QED
    BY <1>1, FrameFields

\* A frame that continues the stream keeps it chained and becomes its end.
LEMMA ChainAppend ==
  ASSUME NEW p \in Nat, NEW w \in Seq(FrameType), NEW f \in FrameType,
         Chained(p, w), Fits(EndOf(p, w), f)
  PROVE  Chained(p, Append(w, f)) /\ EndOf(p, Append(w, f)) = f.at
  <1> DEFINE v == Append(w, f)
  <1>1. /\ v \in Seq(FrameType)
        /\ Len(v) = Len(w) + 1
        /\ \A i \in 1..Len(w) : v[i] = w[i]
        /\ v[Len(w) + 1] = f
        /\ v # <<>>
    OBVIOUS
  <1>2. EndOf(p, v) = f.at
    BY <1>1 DEF EndOf
  <1>3. ASSUME NEW i \in DOMAIN v PROVE Fits(IF i = 1 THEN p ELSE v[i - 1].at, v[i])
    <2>1. CASE i \in 1..Len(w)
      BY <1>1, <2>1 DEF Chained
    <2>2. CASE i = Len(w) + 1
      <3>1. CASE w = <<>>
        BY <1>1, <2>2, <3>1 DEF EndOf
      <3>2. CASE w # <<>>
        BY <1>1, <2>2, <3>2 DEF EndOf
      <3> QED
        BY <3>1, <3>2
    <2> QED
      BY <1>1, <2>1, <2>2
  <1> QED
    BY <1>2, <1>3 DEF Chained

\* Consuming the first frame leaves a chain that starts where it left off.
LEMMA ChainTail ==
  ASSUME NEW p \in Nat, NEW w \in Seq(FrameType), w # <<>>, Chained(p, w)
  PROVE  /\ Fits(p, Head(w))
         /\ Chained(Head(w).at, Tail(w))
         /\ EndOf(Head(w).at, Tail(w)) = EndOf(p, w)
  <1> DEFINE v == Tail(w)
  <1>1. /\ v \in Seq(FrameType)
        /\ Len(v) = Len(w) - 1
        /\ \A i \in 1..Len(v) : v[i] = w[i + 1]
        /\ Head(w) = w[1]
        /\ Len(w) \in Nat /\ Len(w) > 0
    OBVIOUS
  <1>2. Fits(p, Head(w))
    <2>1. 1 \in DOMAIN w
      BY <1>1
    <2>2. Fits(IF 1 = 1 THEN p ELSE w[1 - 1].at, w[1])
      BY <2>1, Zenon DEF Chained
    <2> QED
      BY <1>1, <2>2
  <1>3. ASSUME NEW i \in DOMAIN v PROVE Fits(IF i = 1 THEN Head(w).at ELSE v[i - 1].at, v[i])
    <2>1. i \in 1..Len(v) /\ i + 1 \in DOMAIN w /\ i + 1 # 1
      BY <1>1
    <2>2. Fits(w[i].at, w[i + 1])
      <3>1. Fits(IF i + 1 = 1 THEN p ELSE w[(i + 1) - 1].at, w[i + 1])
        BY <2>1, Zenon DEF Chained
      <3>2. (i + 1) - 1 = i /\ i + 1 # 1
        BY <2>1
      <3> QED
        BY <3>1, <3>2
    <2>3. CASE i = 1
      BY <1>1, <2>1, <2>2, <2>3
    <2>4. CASE i # 1
      BY <1>1, <2>1, <2>2, <2>4
    <2> QED
      BY <2>3, <2>4
  <1>4. EndOf(Head(w).at, v) = EndOf(p, w)
    <2>1. CASE Len(w) = 1
      BY <1>1, <2>1 DEF EndOf
    <2>2. CASE Len(w) # 1
      <3>1. Len(v) \in 1..Len(v) /\ Len(v) + 1 = Len(w)
        BY <1>1, <2>2
      <3>2. v[Len(v)] = w[Len(w)]
        BY <1>1, <3>1
      <3>3. v # <<>>
        <4>1. Len(v) # 0 /\ Len(<<>>) = 0
          BY <1>1, <3>1
        <4> HIDE DEF v
        <4> QED
          BY <4>1
      <3> QED
        BY <3>2, <3>3 DEF EndOf
    <2> QED
      BY <2>1, <2>2
  <1> QED
    BY <1>2, <1>3, <1>4 DEF Chained

\* A frame below the limit keeps the frames in flight below it.
LEMMA WithinAppend ==
  ASSUME NEW w \in Seq(FrameType), NEW f \in FrameType, NEW m \in Nat, NEW m2 \in Nat,
         Within(w, m), m <= m2, f.at <= m2
  PROVE  Within(Append(w, f), m2)
  <1> DEFINE v == Append(w, f)
  <1>1. /\ Len(v) = Len(w) + 1
        /\ \A i \in 1..Len(w) : v[i] = w[i]
        /\ v[Len(w) + 1] = f
        /\ Len(w) \in Nat
        /\ DOMAIN v = 1..(Len(w) + 1)
    OBVIOUS
  <1>2. ASSUME NEW i \in DOMAIN v PROVE v[i].at <= m2
    <2>1. CASE i \in 1..Len(w)
      BY <1>1, <2>1, SeqFrame DEF Within
    <2>2. CASE i = Len(w) + 1
      BY <1>1, <2>2
    <2> QED
      BY <1>1, <2>1, <2>2
  <1> QED
    BY <1>2 DEF Within

\* Consuming the first frame keeps the others below the limit.
LEMMA WithinTail ==
  ASSUME NEW w \in Seq(FrameType), NEW m \in Nat, w # <<>>, Within(w, m)
  PROVE  Within(Tail(w), m) /\ Head(w).at <= m
  BY SMTT(60) DEF Within, FrameType

\* Raising the limit on the frames in flight.
LEMMA WithinMore ==
  ASSUME NEW w \in Seq(FrameType), NEW m \in Nat, NEW m2 \in Nat, m <= m2, Within(w, m)
  PROVE  Within(w, m2)
  BY SeqFrame DEF Within

\* A frame whose bytes start at the limit or later keeps the stream in order.
LEMMA OrderedAppend ==
  ASSUME NEW q \in Nat, NEW w \in Seq(FrameType), NEW u \in Nat, NEW f \in FrameType, NEW u2 \in Nat,
         Ordered(q, w, u), u <= u2, f.lo < f.hi => u <= f.lo /\ f.hi <= u2
  PROVE  Ordered(q, Append(w, f), u2)
  <1> DEFINE v == Append(w, f)
  <1>1. /\ Len(v) = Len(w) + 1
        /\ \A i \in 1..Len(w) : v[i] = w[i] /\ w[i] \in FrameType
        /\ v[Len(w) + 1] = f
        /\ Len(w) \in Nat
        /\ DOMAIN v = 1..(Len(w) + 1)
    OBVIOUS
  <1>2. \A i \in 1..Len(w) : w[i].lo \in Nat /\ w[i].hi \in Nat
    BY <1>1 DEF FrameType
  <1>3. f.lo \in Nat /\ f.hi \in Nat
    BY DEF FrameType
  <1>4. q <= u2
    BY DEF Ordered
  <1>5. ASSUME NEW i \in DOMAIN v, v[i].lo < v[i].hi PROVE q <= v[i].lo /\ v[i].hi <= u2
    <2>1. CASE i \in 1..Len(w)
      BY <1>1, <1>2, <1>5, <2>1 DEF Ordered
    <2>2. CASE i = Len(w) + 1
      BY <1>1, <1>3, <1>5, <2>2 DEF Ordered
    <2> QED
      BY <1>1, <2>1, <2>2
  <1>6. ASSUME NEW i \in DOMAIN v, NEW j \in DOMAIN v,
               i < j, v[i].lo < v[i].hi, v[j].lo < v[j].hi
        PROVE  v[i].hi <= v[j].lo
    <2>1. CASE j \in 1..Len(w)
      <3>1. i \in 1..Len(w) /\ i \in DOMAIN w /\ j \in DOMAIN w
        BY <1>1, <1>6, <2>1
      <3>2. v[i] = w[i] /\ v[j] = w[j]
        BY <1>1, <2>1, <3>1
      <3> QED
        BY <1>6, <3>1, <3>2 DEF Ordered
    <2>2. CASE j = Len(w) + 1
      <3>1. i \in 1..Len(w)
        BY <1>1, <1>6, <2>2
      <3>2. w[i].hi <= u /\ u <= f.lo
        BY <1>1, <1>6, <2>2, <3>1 DEF Ordered
      <3> QED
        BY <1>1, <1>2, <1>3, <2>2, <3>1, <3>2
    <2> QED
      BY <1>1, <2>1, <2>2
  <1> QED
    BY <1>4, <1>5, <1>6 DEF Ordered

\* Consuming the first frame moves the reader to its end.
LEMMA OrderedTail ==
  ASSUME NEW q \in Nat, NEW w \in Seq(FrameType), NEW u \in Nat, w # <<>>, Ordered(q, w, u)
  PROVE  /\ Head(w).lo < Head(w).hi => q <= Head(w).lo /\ Ordered(Head(w).hi, Tail(w), u)
         /\ Ordered(q, Tail(w), u)
  <1> DEFINE v == Tail(w)
  <1>1. /\ Len(v) = Len(w) - 1
        /\ \A i \in 1..Len(v) : v[i] = w[i + 1] /\ i + 1 \in DOMAIN w
        /\ Head(w) = w[1]
        /\ Len(w) \in Nat /\ Len(w) > 0
        /\ DOMAIN v = 1..Len(v)
        /\ 1 \in DOMAIN w
    OBVIOUS
  <1>2. Ordered(q, v, u)
    BY <1>1 DEF Ordered
  <1>3. ASSUME Head(w).lo < Head(w).hi
        PROVE  q <= Head(w).lo /\ Ordered(Head(w).hi, v, u)
    <2>1. q <= w[1].lo /\ w[1].hi <= u
      BY <1>1, <1>3 DEF Ordered
    <2>2. \A i \in DOMAIN v : v[i].lo < v[i].hi => w[1].hi <= v[i].lo
      BY <1>1, <1>3 DEF Ordered
    <2> QED
      BY <1>1, <1>2, <2>1, <2>2 DEF Ordered
  <1> QED
    BY <1>2, <1>3

\* Raising the limit.
LEMMA OrderedMore ==
  ASSUME NEW q \in Nat, NEW w \in Seq(FrameType), NEW u \in Nat, NEW u2 \in Nat,
         u <= u2, Ordered(q, w, u)
  PROVE  Ordered(q, w, u2)
  <1>1. q <= u2
    BY DEF Ordered
  <1>2. \A i \in DOMAIN w : w[i].lo < w[i].hi => q <= w[i].lo /\ w[i].hi <= u2
    BY SeqFrame DEF Ordered
  <1> QED
    BY <1>1, <1>2 DEF Ordered

-----------------------------------------------------------------------------
(* Types *)

\* The state NewSession leaves behind has its type.
LEMMA InitType == Init => TypeOK
  <1> SUFFICES ASSUME Init PROVE TypeOK
    OBVIOUS
  <1>1. HistType
    BY DEF Init, HistType
  <1>2. TaskType
    BY DEF Init, TaskType, NoReplay
  <1>3. SharedType
    BY DEF Init, SharedType, HandoffType
  <1>4. ClientType
    BY DEF Init, ClientType
  <1>5. NetType
    BY DEF Init, NetType
  <1>6. ReadType
    BY DEF Init, ReadType
  <1> QED
    BY <1>1, <1>2, <1>3, <1>4, <1>5, <1>6 DEF TypeOK

\* History::push keeps the ring's type.
LEMMA PushType ==
  ASSUME HistType, NEW n \in Nat, Push(n)
  PROVE  HistType'
  <1>1. total' \in Nat
    BY DEF Push, HistType
  <1>2. base' \in Nat
    BY DEF Push, HistType
  <1>3. starts' \subseteq Nat
    BY DEF Push, HistType
  <1> QED
    BY <1>1, <1>2, <1>3 DEF HistType

\* Updating a function at one argument keeps its type.
LEMMA ExceptType ==
  ASSUME NEW S, NEW f \in [Conns -> S], NEW k, NEW x, k \in Conns => x \in S
  PROVE  [f EXCEPT ![k] = x] \in [Conns -> S]
  OBVIOUS

\* What the task builds is a frame.
LEMMA FrameIn ==
  ASSUME NEW kind \in FrameKinds, NEW lo \in Nat, NEW hi \in Nat, NEW at \in Nat
  PROVE  Frame(kind, lo, hi, at) \in FrameType
  BY DEF Frame, FrameType

\* Writing a frame to a connection keeps the type of the wires.
LEMMA SendType ==
  ASSUME NetType, NEW k, NEW f \in FrameType, Send(k, f)
  PROVE  wire' \in [Conns -> Seq(FrameType)]
  <1>1. k \in Conns => Append(wire[k], f) \in Seq(FrameType)
    BY DEF NetType
  <1> QED
    BY <1>1, ExceptType DEF Send, NetType

\* Writing several frames does, too.
LEMMA SendAllType ==
  ASSUME NetType, NEW k, NEW fs \in Seq(FrameType), SendAll(k, fs)
  PROVE  wire' \in [Conns -> Seq(FrameType)]
  <1>1. k \in Conns => wire[k] \o fs \in Seq(FrameType)
    BY DEF NetType
  <1> QED
    BY <1>1, ExceptType DEF SendAll, NetType

\* Dropping a Framed keeps the type of the links.
LEMMA DroppedType ==
  ASSUME NetType, NEW ks
  PROVE  Dropped(ks) \in [Conns -> {"unused", "up", "cut", "closed", "left"}]
  BY DEF Dropped, NetType

\* The replay that send_reconnect_replay starts has its type.
LEMMA BeginReplayType ==
  ASSUME TypeOK, NEW h \in HandoffType, NEW b \in BOOLEAN, BeginReplay(h, b),
         fin' = fin, alt' = alt
  PROVE  TaskType'
  <1>1. plan_replay(h.offset, h.fresh) \in {"None", "AltRedraw", "Fresh", "Truncated", "Clean"}
    BY DEF plan_replay
  <1>2. h.conn \in Conns /\ h.offset \in Nat
    BY DEF HandoffType
  <1> QED
    BY <1>1, <1>2 DEF BeginReplay, ReplayStart, TypeOK, TaskType, HistType

\* A client that gives up its connection keeps the types.
LEMMA LeaveType ==
  ASSUME TypeOK, NEW c \in Clients, NEW st \in {"down", "gone"}, Leave(c, st)
  PROVE  /\ ClientType'
         /\ wire' \in [Conns -> Seq(FrameType)]
         /\ link' \in [Conns -> {"unused", "up", "cut", "closed", "left"}]
         /\ ReadType'
  <1>1. ClientType'
    BY DEF Leave, TypeOK, ClientType
  <1>2. wire' \in [Conns -> Seq(FrameType)]
    <2>1. <<>> \in Seq(FrameType)
      OBVIOUS
    <2>2. wire' = [wire EXCEPT ![connOf[c]] = <<>>]
      BY DEF Leave
    <2> QED
      BY <2>1, <2>2, ExceptType DEF TypeOK, NetType
  <1>3. link' \in [Conns -> {"unused", "up", "cut", "closed", "left"}]
    BY ExceptType DEF Leave, TypeOK, NetType
  <1>4. ReadType'
    BY DEF Leave, TypeOK, ReadType
  <1> QED
    BY <1>1, <1>2, <1>3, <1>4

\* The first frame in flight and the rest.
LEMMA HeadTail ==
  ASSUME NEW S, NEW s \in Seq(S), s # <<>>
  PROVE  Head(s) \in S /\ Tail(s) \in Seq(S)
  OBVIOUS

\* The two forms of the last frames of drain_pty_final and Exit.
LEMMA ExitType ==
  ASSUME TypeOK, NEW n \in Nat,
         SendAll(framed, IF n = 0 THEN <<Frame("Exit", 0, 0, total + n)>>
                         ELSE <<Frame("Data", total, total + n, total + n),
                                Frame("Exit", 0, 0, total + n)>>)
  PROVE  wire' \in [Conns -> Seq(FrameType)]
  <1>1. Frame("Exit", 0, 0, total + n) \in FrameType
    BY FrameIn DEF FrameKinds, TypeOK, HistType
  <1>2. Frame("Data", total, total + n, total + n) \in FrameType
    BY FrameIn DEF FrameKinds, TypeOK, HistType
  <1> DEFINE fs == IF n = 0 THEN <<Frame("Exit", 0, 0, total + n)>>
                   ELSE <<Frame("Data", total, total + n, total + n),
                          Frame("Exit", 0, 0, total + n)>>
  <1>3. fs \in Seq(FrameType)
    BY <1>1, <1>2
  <1>4. SendAll(framed, fs)
    OBVIOUS
  <1> HIDE DEF fs
  <1> QED
    BY <1>3, <1>4, SendAllType DEF TypeOK

\* The frame a client reads next continues its stream.
LEMMA HeadFits ==
  ASSUME IInv, NEW c \in Clients, Receives(c)
  PROVE  LET f == Head(wire[connOf[c]])
         IN  /\ f \in FrameType
             /\ f.lo \in Nat /\ f.hi \in Nat /\ f.at \in Nat
             /\ f.lo <= f.hi
             /\ Fits(rendered[c], f)
  <1>1. wire[connOf[c]] \in Seq(FrameType) /\ wire[connOf[c]] # <<>> /\ rendered[c] \in Nat
    BY DEF IInv, TypeOK, ClientType, NetType, Receives
  <1>2. Chained(rendered[c], wire[connOf[c]])
    BY DEF IInv, StreamInv, Receives
  <1>3. Fits(rendered[c], Head(wire[connOf[c]])) /\ Head(wire[connOf[c]]) \in FrameType
    BY <1>1, <1>2, ChainTail, HeadTail
  <1> QED
    BY <1>3 DEF Fits, FrameType

\* Every step keeps the types, rendered_offset by way of the frame's bounds.
LEMMA TypeStep == IInv /\ [Next]_vars => TypeOK'
  <1> SUFFICES ASSUME IInv, TypeOK, [Next]_vars PROVE TypeOK'
    BY DEF IInv
  <1> USE DEF TypeOK, histVars, taskVars, serverVars, sharedVars, clientVars, netVars, readVars
  <1>1. CASE UNCHANGED vars
    BY <1>1 DEF vars, HistType, TaskType, SharedType, ClientType, NetType, ReadType
  <1>2. CASE FirstClient
    <2>1. TaskType'
      <3>1. Head(client_rx) \in HandoffType
        BY <1>2, HeadTail DEF FirstClient, SharedType
      <3>2. Head(client_rx).conn \in Conns
        BY <3>1 DEF HandoffType
      <3> QED
        BY <1>2, <3>2 DEF FirstClient, TaskType
    <2>2. SharedType'
      BY <1>2, HeadTail DEF FirstClient, SharedType
    <2> QED
      BY <1>2, <2>1, <2>2 DEF FirstClient, HistType, ClientType, NetType, ReadType
  <1>3. CASE TakeClient
    <2>1. TaskType'
      BY <1>3, BeginReplayType, HeadTail DEF TakeClient, TaskType, SharedType
    <2>2. SharedType'
      BY <1>3, HeadTail DEF TakeClient, SharedType
    <2>3. NetType'
      BY <1>3, DroppedType DEF TakeClient, NetType
    <2> QED
      BY <1>3, <2>1, <2>2, <2>3 DEF TakeClient, HistType, ClientType, ReadType, BeginReplay
  <1>4. ASSUME NEW told \in BOOLEAN, Takeover(told) PROVE TypeOK'
    <2>1. TaskType'
      BY <1>4, BeginReplayType, HeadTail DEF Takeover, TaskType, SharedType
    <2>2. SharedType'
      BY <1>4, HeadTail DEF Takeover, SharedType
    <2>3. NetType'
      BY <1>4, DroppedType, SendType, FrameIn, SMTT(60) DEF Takeover, NetType, Fault, HistType, FrameKinds
    <2> QED
      BY <1>4, <2>1, <2>2, <2>3 DEF Takeover, HistType, ClientType, ReadType
  <1>5. CASE SendResume
    <2>1. TaskType'
      BY <1>5 DEF SendResume, AfterResume, TaskType
    <2>2. NetType'
      BY <1>5, SendType, FrameIn DEF SendResume, AfterResume, NetType, TaskType, HistType, FrameKinds
    <2> QED
      BY <1>5, <2>1, <2>2 DEF SendResume, AfterResume, HistType, SharedType, ClientType, ReadType
  <1>6. CASE SendMarker
    <2>1. TaskType'
      BY <1>6 DEF SendMarker, TaskType
    <2>2. NetType'
      BY <1>6, SendType, FrameIn DEF SendMarker, NetType, TaskType, HistType, FrameKinds
    <2> QED
      BY <1>6, <2>1, <2>2 DEF SendMarker, HistType, SharedType, ClientType, ReadType
  <1>7. CASE SendChunk
    <2>1. TaskType'
      BY <1>7 DEF SendChunk, TaskType, HistType
    <2>2. NetType'
      BY <1>7, SendType, FrameIn DEF SendChunk, NetType, TaskType, HistType, FrameKinds
    <2> QED
      BY <1>7, <2>1, <2>2 DEF SendChunk, HistType, SharedType, ClientType, ReadType
  <1>8. CASE ReplayDone
    <2>1. TaskType'
      BY <1>8 DEF ReplayDone, TaskType, NoReplay
    <2> QED
      BY <1>8, <2>1 DEF ReplayDone, HistType, SharedType, ClientType, NetType, ReadType
  <1>9. CASE ClientGone
    <2>1. TaskType'
      BY <1>9 DEF ClientGone, TaskType, MarkDetached
    <2>2. SharedType'
      BY <1>9 DEF ClientGone, SharedType, MarkDetached
    <2> QED
      BY <1>9, <2>1, <2>2 DEF ClientGone, HistType, ClientType, NetType, ReadType
  <1>10. CASE ReplayFails
    <2>1. TaskType'
      BY <1>10 DEF ReplayFails, TaskType, MarkDetached, NoReplay
    <2>2. SharedType'
      BY <1>10 DEF ReplayFails, SharedType, MarkDetached
    <2>3. NetType'
      BY <1>10 DEF ReplayFails, NetType, Fault
    <2>4. ReadType'
      BY <1>10 DEF ReplayFails, ReadType
    <2> QED
      BY <1>10, <2>1, <2>2, <2>3, <2>4 DEF ReplayFails, HistType, ClientType
  <1>11. CASE IdleEvict
    <2>1. TaskType'
      BY <1>11 DEF IdleEvict, TaskType, MarkDetached
    <2>2. SharedType'
      BY <1>11 DEF IdleEvict, SharedType, MarkDetached
    <2>3. NetType'
      BY <1>11, DroppedType DEF IdleEvict, NetType, Fault
    <2> QED
      BY <1>11, <2>1, <2>2, <2>3 DEF IdleEvict, HistType, ClientType, ReadType
  <1>12. ASSUME NEW n \in Chunks, NEW screen \in BOOLEAN, RedrawOutput(n, screen) PROVE TypeOK'
    <2>1. HistType'
      BY <1>12, PushType DEF RedrawOutput, HistType
    <2>2. TaskType'
      BY <1>12 DEF RedrawOutput, TaskType
    <2>3. NetType'
      BY <1>12, SendType, FrameIn DEF RedrawOutput, NetType, TaskType, HistType, FrameKinds
    <2> QED
      BY <1>12, <2>1, <2>2, <2>3 DEF RedrawOutput, SharedType, ClientType, ReadType
  <1>13. ASSUME NEW n \in Chunks, NEW screen \in BOOLEAN, PtyOutput(n, screen) PROVE TypeOK'
    <2>1. HistType'
      BY <1>13, PushType DEF PtyOutput, HistType
    <2>2. TaskType'
      BY <1>13 DEF PtyOutput, TaskType
    <2>3. NetType'
      BY <1>13, SendType, FrameIn DEF PtyOutput, NetType, TaskType, HistType, FrameKinds
    <2> QED
      BY <1>13, <2>1, <2>2, <2>3 DEF PtyOutput, SharedType, ClientType, ReadType
  <1>14. ASSUME NEW n \in Chunks, NEW screen \in BOOLEAN, PtyOutputUnsent(n, screen) PROVE TypeOK'
    <2>1. HistType'
      BY <1>14, PushType DEF PtyOutputUnsent, HistType
    <2>2. TaskType'
      BY <1>14 DEF PtyOutputUnsent, TaskType, MarkDetached
    <2>3. SharedType'
      BY <1>14 DEF PtyOutputUnsent, SharedType, MarkDetached
    <2>4. NetType'
      BY <1>14 DEF PtyOutputUnsent, NetType, Fault
    <2> QED
      BY <1>14, <2>1, <2>2, <2>3, <2>4 DEF PtyOutputUnsent, ClientType, ReadType
  <1>15. ASSUME NEW n \in Chunks, NEW screen \in BOOLEAN, DetachedOutput(n, screen) PROVE TypeOK'
    <2>1. HistType'
      BY <1>15, PushType DEF DetachedOutput, HistType
    <2>2. TaskType'
      BY <1>15 DEF DetachedOutput, TaskType
    <2> QED
      BY <1>15, <2>1, <2>2 DEF DetachedOutput, SharedType, ClientType, NetType, ReadType
  <1>16. ASSUME NEW n \in Chunks \cup {0}, ShellExit(n) PROVE TypeOK'
    <2>1. TaskType'
      <3>1. n \in Nat
        BY <1>16
      <3> QED
        BY <1>16, <3>1 DEF ShellExit, TaskType, EndTask, NoReplay
    <2>2. SharedType'
      BY <1>16 DEF ShellExit, SharedType, EndTask
    <2>3. NetType'
      <3>1. n \in Nat
        BY <1>16
      <3>2. wire' \in [Conns -> Seq(FrameType)]
        BY <1>16, <3>1, ExitType DEF ShellExit
      <3> QED
        BY <1>16, <3>2, DroppedType DEF ShellExit, NetType, EndTask
    <2> QED
      BY <1>16, <2>1, <2>2, <2>3 DEF ShellExit, HistType, ClientType, ReadType, EndTask
  <1>17. CASE EndUnattended
    <2>1. TaskType'
      BY <1>17 DEF EndUnattended, TaskType, EndTask, NoReplay
    <2>2. SharedType'
      BY <1>17 DEF EndUnattended, SharedType, EndTask
    <2>3. NetType'
      BY <1>17, DroppedType DEF EndUnattended, NetType, EndTask
    <2> QED
      BY <1>17, <2>1, <2>2, <2>3 DEF EndUnattended, HistType, ClientType, ReadType, EndTask
  <1>18. CASE ShutdownAttached
    <2>1. TaskType'
      BY <1>18 DEF ShutdownAttached, TaskType, EndTask, NoReplay
    <2>2. SharedType'
      BY <1>18 DEF ShutdownAttached, SharedType, EndTask
    <2>3. NetType'
      BY <1>18, DroppedType, SendType, FrameIn DEF ShutdownAttached, NetType, EndTask, HistType, FrameKinds
    <2> QED
      BY <1>18, <2>1, <2>2, <2>3 DEF ShutdownAttached, HistType, ClientType, ReadType, EndTask
  <1>19. ASSUME NEW c \in Clients, NEW force \in BOOLEAN, NEW acked \in BOOLEAN, Attach(c, force, acked) PROVE TypeOK'
    <2>1. SharedType'
      BY <1>19 DEF Attach, SharedType, Handoff, HandoffType, ClientType, NetType
    <2>2. ClientType'
      BY <1>19 DEF Attach, ClientType
    <2>3. NetType'
      BY <1>19 DEF Attach, NetType, Fault
    <2>4. ReadType'
      BY <1>19 DEF Attach, ReadType
    <2> QED
      BY <1>19, <2>1, <2>2, <2>3, <2>4 DEF Attach, HistType, TaskType
  <1>20. ASSUME NEW c \in Clients, AttachRefused(c) PROVE TypeOK'
    <2>1. ClientType'
      BY <1>20 DEF AttachRefused, ClientType
    <2> QED
      BY <1>20, <2>1 DEF AttachRefused, HistType, TaskType, SharedType, NetType, ReadType
  <1>21. ASSUME NEW c \in Clients, RecvFrame(c) PROVE TypeOK'
    <2>1. ClientType'
      <3> DEFINE f == Head(wire[connOf[c]])
      <3>1. f.lo \in Nat /\ f.hi \in Nat /\ f.lo <= f.hi
        BY <1>21, HeadFits DEF RecvFrame, IInv
      <3>2. Counted(c, f) \in Nat
        BY <3>1 DEF Counted, ClientType
      <3>3. rendered' = [rendered EXCEPT ![c] = Counted(c, f)] /\ UNCHANGED <<client, connOf>>
        BY <1>21 DEF RecvFrame
      <3> HIDE DEF f
      <3> QED
        BY <3>2, <3>3 DEF ClientType
    <2>2. NetType'
      BY <1>21, HeadTail DEF RecvFrame, NetType, Receives, ClientType
    <2>3. ReadType'
      <3> DEFINE f == Head(wire[connOf[c]])
      <3>1. f.lo \in Nat /\ f.hi \in Nat
        BY <1>21, HeadFits DEF RecvFrame, IInv
      <3>2. Reads(c, f) /\ UNCHANGED <<interrupted, holder>>
        BY <1>21 DEF RecvFrame
      <3> HIDE DEF f
      <3> QED
        BY <3>1, <3>2 DEF Reads, ReadType
    <2> QED
      BY <1>21, <2>1, <2>2, <2>3 DEF RecvFrame, HistType, TaskType, SharedType, Reads
  <1>22. ASSUME NEW c \in Clients, RecvGoodbye(c) PROVE TypeOK'
    <2>1. ClientType'
      BY <1>22, LeaveType DEF RecvGoodbye, ClientType
    <2>2. NetType'
      <3>1. wire' \in [Conns -> Seq(FrameType)] /\ link' \in [Conns -> {"unused", "up", "cut", "closed", "left"}]
        BY <1>22, LeaveType DEF RecvGoodbye
      <3>2. nconns' = nconns /\ faults' \in 0..MaxFaults
        BY <1>22 DEF RecvGoodbye, Leave, NetType, Fault
      <3> QED
        BY <3>1, <3>2 DEF NetType
    <2>3. ReadType'
      BY <1>22, LeaveType DEF RecvGoodbye, ReadType
    <2> QED
      BY <1>22, <2>1, <2>2, <2>3 DEF RecvGoodbye, HistType, TaskType, SharedType, Leave
  <1>23. ASSUME NEW c \in Clients, RecvEof(c) PROVE TypeOK'
    <2>1. ClientType'
      BY <1>23, LeaveType DEF RecvEof, ClientType
    <2>2. NetType'
      <3>1. wire' \in [Conns -> Seq(FrameType)] /\ link' \in [Conns -> {"unused", "up", "cut", "closed", "left"}]
        BY <1>23, LeaveType DEF RecvEof
      <3>2. nconns' = nconns /\ faults' \in 0..MaxFaults
        BY <1>23 DEF RecvEof, Leave, NetType, Fault
      <3> QED
        BY <3>1, <3>2 DEF NetType
    <2>3. ReadType'
      BY <1>23, LeaveType DEF RecvEof, ReadType
    <2> QED
      BY <1>23, <2>1, <2>2, <2>3 DEF RecvEof, HistType, TaskType, SharedType, Leave
  <1>24. ASSUME NEW c \in Clients, LinkStale(c) \/ LinkSilent(c) PROVE TypeOK'
    <2>1. ClientType'
      BY <1>24, LeaveType DEF LinkStale, LinkSilent, ClientType
    <2>2. NetType'
      <3>1. wire' \in [Conns -> Seq(FrameType)] /\ link' \in [Conns -> {"unused", "up", "cut", "closed", "left"}]
        BY <1>24, LeaveType DEF LinkStale, LinkSilent
      <3>2. nconns' = nconns /\ faults' \in 0..MaxFaults
        BY <1>24 DEF LinkStale, LinkSilent, Leave, NetType, Fault
      <3> QED
        BY <3>1, <3>2 DEF NetType
    <2>3. ReadType'
      BY <1>24, LeaveType DEF LinkStale, LinkSilent, ReadType
    <2> QED
      BY <1>24, <2>1, <2>2, <2>3 DEF LinkStale, LinkSilent, HistType, TaskType, SharedType, Leave
  <1>25. ASSUME NEW c \in Clients, Quit(c) PROVE TypeOK'
    <2>1. ClientType'
      BY <1>25, LeaveType DEF Quit, ClientType
    <2>2. NetType'
      <3>1. CASE client[c] = "live" /\ Leave(c, "gone") /\ UNCHANGED faults
        BY <3>1, LeaveType DEF Leave, NetType
      <3>2. CASE UNCHANGED netVars
        BY <3>2 DEF NetType
      <3> QED
        BY <1>25, <3>1, <3>2 DEF Quit
    <2>3. ReadType'
      BY <1>25, LeaveType DEF Quit, ReadType
    <2> QED
      BY <1>25, <2>1, <2>2, <2>3 DEF Quit, HistType, TaskType, SharedType, Leave
  <1>26. ASSUME NEW k \in Conns, Cut(k) PROVE TypeOK'
    <2>1. NetType'
      BY <1>26 DEF Cut, NetType, Fault
    <2> QED
      BY <1>26, <2>1, SMTT(60) DEF Cut, HistType, TaskType, SharedType, ClientType, ReadType
  <1> QED
    BY <1>1, <1>2, <1>3, <1>4, <1>5, <1>6, <1>7, <1>8, <1>9, <1>10, <1>11, <1>12, <1>13, <1>14, <1>15, <1>16, <1>17, <1>18, <1>19, <1>20, <1>21, <1>22, <1>23, <1>24, <1>25, <1>26 DEF Next, SessionStep, SessionInput, ClientStep

-----------------------------------------------------------------------------
(* The ring and the queue *)

\* History::push keeps the chunk starts between base and total.
LEMMA PushRing ==
  ASSUME HistType, NEW n \in Nat, Push(n), \A s \in starts : base <= s /\ s <= total
  PROVE  /\ base' <= total' /\ total <= total'
         /\ \A s \in starts' : base' <= s /\ s <= total'
  <1>1. total' = total + n
    BY DEF Push
  <1>2. PICK b \in (starts \cup {total}) \cup {total + n} :
               base' = b /\ starts' = {s \in starts \cup {total} : s >= b}
    BY DEF Push
  <1>3. b \in Nat /\ b <= total + n
    BY <1>2 DEF HistType
  <1>4. \A s \in starts' : base' <= s /\ s <= total'
    BY <1>1, <1>2, <1>3 DEF HistType
  <1> QED
    BY <1>1, <1>2, <1>3, <1>4 DEF HistType

\* Every step keeps the ring sound.
LEMMA RingStep == IInv /\ [Next]_vars => RingInv'
  <1> SUFFICES ASSUME IInv, [Next]_vars PROVE RingInv'
    OBVIOUS
  <1> USE DEF histVars, taskVars, serverVars, sharedVars, clientVars, netVars, readVars
  <1>0. RingInv /\ HistType
    BY DEF IInv, TypeOK
  <1>1. ASSUME NEW n \in Chunks, Push(n), phase # "birth", phase' # "birth", phase # "ended", UNCHANGED fin
        PROVE  RingInv'
    BY <1>0, <1>1, PushRing DEF RingInv
  <1>2. ASSUME UNCHANGED <<total, base, starts>>, UNCHANGED fin \/ phase' = "ended",
               phase' = "birth" => phase = "birth", phase = "ended" => phase' = "ended"
        PROVE  RingInv'
    BY <1>0, <1>2 DEF RingInv
  <1>3. CASE UNCHANGED vars
    BY <1>2, <1>3 DEF vars
  <1>4. CASE SessionStep
    BY <1>2, <1>4 DEF SessionStep, FirstClient, TakeClient, Takeover, BeginReplay, SendResume,
       SendMarker, SendChunk, ReplayDone, ClientGone, MarkDetached
  <1>5. CASE Takeover(FALSE) \/ ReplayFails \/ IdleEvict
    BY <1>2, <1>5 DEF Takeover, BeginReplay, ReplayFails, IdleEvict, MarkDetached
  <1>6. ASSUME NEW n \in Chunks, NEW screen \in BOOLEAN,
               RedrawOutput(n, screen) \/ PtyOutput(n, screen)
               \/ PtyOutputUnsent(n, screen) \/ DetachedOutput(n, screen)
        PROVE  RingInv'
    BY <1>1, <1>6 DEF RedrawOutput, PtyOutput, PtyOutputUnsent, DetachedOutput, MarkDetached
  <1>7. CASE (\E n \in Chunks \cup {0} : ShellExit(n)) \/ EndUnattended \/ ShutdownAttached
    BY <1>2, <1>7 DEF ShellExit, EndUnattended, ShutdownAttached, EndTask
  <1>8. ASSUME NEW c \in Clients,
               ClientStep(c) \/ (\E force, acked \in BOOLEAN : Attach(c, force, acked))
                \/ LinkSilent(c) \/ Quit(c)
        PROVE  RingInv'
    BY <1>2, <1>8 DEF ClientStep, RecvFrame, RecvGoodbye, RecvEof, LinkStale, LinkSilent, Leave, Attach,
       AttachRefused, Quit
  <1>9. ASSUME NEW k \in Conns, Cut(k) PROVE RingInv'
    BY <1>2, <1>9 DEF Cut
  <1> QED
    BY <1>3, <1>4, <1>5, <1>6, <1>7, <1>8, <1>9 DEF Next, SessionInput

\* An entry of client_rx has its type.
LEMMA QueueItem ==
  ASSUME SharedType, NEW i \in DOMAIN client_rx
  PROVE  client_rx[i].conn \in Conns /\ client_rx[i].offset \in Nat
  <1>1. client_rx[i] \in HandoffType
    BY DEF SharedType
  <1> QED
    BY <1>1 DEF HandoffType

\* Nothing is ever sent on a connection that waits in the queue or is not yet
\* made.
LEMMA QueueStep == IInv /\ [Next]_vars => QueueInv'
  <1> SUFFICES ASSUME IInv, [Next]_vars PROVE QueueInv'
    OBVIOUS
  <1> USE DEF histVars, taskVars, serverVars, sharedVars, clientVars, netVars, readVars
  <1>0. QueueInv /\ TaskType /\ SharedType /\ NetType /\ ClientType /\ ConnInv
    BY DEF IInv, TypeOK
  <1>h. client_rx # <<>> =>
           /\ Head(client_rx) = client_rx[1] /\ 1 \in DOMAIN client_rx
           /\ Head(client_rx).conn \in Conns
           /\ Head(client_rx).conn <= nconns
           /\ framed < Head(client_rx).conn
           /\ \A i \in DOMAIN Tail(client_rx) :
                 /\ i + 1 \in DOMAIN client_rx
                 /\ Tail(client_rx)[i] = client_rx[i + 1]
                 /\ Head(client_rx).conn < Tail(client_rx)[i].conn
    <2> SUFFICES ASSUME client_rx # <<>>
                 PROVE  /\ Head(client_rx) = client_rx[1] /\ 1 \in DOMAIN client_rx
                        /\ Head(client_rx).conn \in Conns
                        /\ Head(client_rx).conn <= nconns
                        /\ framed < Head(client_rx).conn
                        /\ \A i \in DOMAIN Tail(client_rx) :
                              /\ i + 1 \in DOMAIN client_rx
                              /\ Tail(client_rx)[i] = client_rx[i + 1]
                              /\ Head(client_rx).conn < Tail(client_rx)[i].conn
      OBVIOUS
    <2>1. Head(client_rx) = client_rx[1] /\ 1 \in DOMAIN client_rx
      BY <1>0 DEF SharedType
    <2>2. Head(client_rx) \in HandoffType
      BY <1>0, HeadTail DEF SharedType
    <2>3. Head(client_rx).conn \in Conns
      BY <2>2 DEF HandoffType
    <2>4. \A i \in DOMAIN Tail(client_rx) :
             /\ i + 1 \in DOMAIN client_rx /\ 1 < i + 1
             /\ Tail(client_rx)[i] = client_rx[i + 1]
      BY <1>0 DEF SharedType
    <2>5. \A i \in DOMAIN Tail(client_rx) : Head(client_rx).conn < Tail(client_rx)[i].conn
      BY <1>0, <2>1, <2>4 DEF QueueInv
    <2> QED
      BY <1>0, <2>1, <2>3, <2>4, <2>5 DEF QueueInv
  <1> DEFINE Quiet == \A k \in Conns :
                \/ wire'[k] = wire[k] \/ wire'[k] = <<>> \/ wire[k] # <<>> \/ k = framed
             Served == {"attached", "replay", "detached"}
  \* the task takes the first connection of the queue
  <1>1. ASSUME client_rx # <<>>, framed' = Head(client_rx).conn, client_rx' = Tail(client_rx),
               nconns' = nconns, Quiet
        PROVE  QueueInv'
    <2>1. \A k \in Conns : k > nconns => wire'[k] = <<>>
      BY <1>0, <1>1, SMTT(60) DEF QueueInv, NetType, TaskType
    <2>2. ASSUME NEW i \in DOMAIN client_rx'
          PROVE  /\ client_rx'[i].conn <= nconns
                 /\ framed' < client_rx'[i].conn
                 /\ wire'[client_rx'[i].conn] = <<>>
                 /\ \A j \in DOMAIN client_rx' : i < j => client_rx'[i].conn < client_rx'[j].conn
      <3>1. /\ i + 1 \in DOMAIN client_rx /\ client_rx'[i] = client_rx[i + 1]
            /\ framed' < client_rx'[i].conn
        BY <1>h, <1>1
      <3>2. client_rx'[i].conn \in Conns /\ framed < client_rx'[i].conn
        <4>1. client_rx[i + 1] \in HandoffType
          BY <1>0, <3>1 DEF SharedType
        <4> QED
          BY <1>0, <3>1, <4>1 DEF HandoffType, QueueInv
      <3>3. wire'[client_rx'[i].conn] = <<>>
        BY <1>0, <1>1, <3>1, <3>2 DEF QueueInv, TaskType
      <3>4. ASSUME NEW j \in DOMAIN client_rx', i < j PROVE client_rx'[i].conn < client_rx'[j].conn
        <4>1. j + 1 \in DOMAIN client_rx /\ client_rx'[j] = client_rx[j + 1]
          BY <1>h, <1>1
        <4>2. i + 1 < j + 1
          BY <1>0, <1>1, <3>4 DEF SharedType
        <4> QED
          BY <1>0, <3>1, <4>1, <4>2 DEF QueueInv
      <3> QED
        BY <1>0, <3>1, <3>3, <3>4 DEF QueueInv
    <2> QED
      BY <1>h, <1>1, <2>1, <2>2 DEF QueueInv
  \* the queue and the connection served stay
  <1>2. ASSUME UNCHANGED <<framed, client_rx, nconns>>, Quiet, phase' \in Served => phase \in Served
        PROVE  QueueInv'
    <2>1. \A k \in Conns : k > nconns => wire'[k] = <<>>
      BY <1>0, <1>2, SMTT(60) DEF QueueInv, NetType, TaskType
    <2>2. ASSUME NEW i \in DOMAIN client_rx PROVE wire'[client_rx[i].conn] = <<>>
      <3>1. client_rx[i].conn \in Conns
        BY <1>0, QueueItem
      <3> QED
        BY <1>0, <1>2, <3>1 DEF QueueInv, TaskType
    <2> QED
      BY <1>0, <1>2, <2>1, <2>2 DEF QueueInv
  \* the task ends
  <1>3. ASSUME UNCHANGED <<framed, nconns>>, client_rx' = <<>>, Quiet, phase' = "ended"
        PROVE  QueueInv'
    <2>1. \A k \in Conns : k > nconns => wire'[k] = <<>>
      BY <1>0, <1>3 DEF QueueInv, NetType, TaskType
    <2> QED
      BY <1>0, <1>3, <2>1 DEF QueueInv
  \* the daemon hands over another connection
  <1>4. ASSUME NEW c \in Clients, NEW force \in BOOLEAN, NEW acked \in BOOLEAN, Attach(c, force, acked)
        PROVE  QueueInv'
    <2> DEFINE h == Handoff(nconns + 1, c, client[c] = "new")
    <2>1. /\ UNCHANGED <<wire, framed, phase>>
          /\ nconns' = nconns + 1 /\ nconns' \in Conns
          /\ client_rx' = Append(client_rx, h)
      BY <1>4 DEF Attach
    <2>2. h.conn = nconns + 1
      BY DEF Handoff
    <2> HIDE DEF h
    <2>3. /\ Len(client_rx') = Len(client_rx) + 1
          /\ \A i \in 1..Len(client_rx) : client_rx'[i] = client_rx[i]
          /\ client_rx'[Len(client_rx) + 1] = h
          /\ Len(client_rx) \in Nat
          /\ DOMAIN client_rx' = 1..(Len(client_rx) + 1)
          /\ DOMAIN client_rx = 1..Len(client_rx)
      BY <1>0, <2>1 DEF SharedType
    <2>4. ASSUME NEW i \in DOMAIN client_rx'
          PROVE  /\ client_rx'[i].conn <= nconns'
                 /\ framed' < client_rx'[i].conn
                 /\ wire'[client_rx'[i].conn] = <<>>
                 /\ \A j \in DOMAIN client_rx' : i < j => client_rx'[i].conn < client_rx'[j].conn
      <3>1. CASE i \in 1..Len(client_rx)
        <4>1. client_rx[i].conn \in Conns
          BY <1>0, <2>3, <3>1, QueueItem
        <4>2. /\ client_rx[i].conn <= nconns
              /\ framed < client_rx[i].conn
              /\ wire[client_rx[i].conn] = <<>>
          BY <1>0, <2>3, <3>1 DEF QueueInv
        <4>3. ASSUME NEW j \in DOMAIN client_rx', i < j PROVE client_rx'[i].conn < client_rx'[j].conn
          <5>1. CASE j \in 1..Len(client_rx)
            BY <1>0, <2>3, <3>1, <4>3, <5>1 DEF QueueInv
          <5>2. CASE j = Len(client_rx) + 1
            <6>1. client_rx'[i] = client_rx[i]
              BY <2>3, <3>1
            <6>2. client_rx'[j] = h
              BY <2>3, <5>2
            <6>3. client_rx'[j].conn = nconns + 1
              BY <2>2, <6>2
            <6>4. nconns \in Nat /\ client_rx[i].conn \in Nat
              BY <1>0, <4>1 DEF NetType, Conns
            <6>5. client_rx[i].conn < nconns + 1
              BY <4>2, <6>4
            <6> QED
              BY <6>1, <6>3, <6>5
          <5> QED
            BY <2>3, <5>1, <5>2
        <4>4. client_rx'[i] = client_rx[i]
          BY <2>3, <3>1
        <4>5. client_rx'[i].conn <= nconns' /\ framed' < client_rx'[i].conn
          BY <1>0, <2>1, <4>1, <4>2, <4>4 DEF NetType
        <4>6. wire'[client_rx'[i].conn] = <<>>
          BY <2>1, <4>2, <4>4
        <4> QED
          BY <4>3, <4>5, <4>6
      <3>2. CASE i = Len(client_rx) + 1
        BY <1>0, <2>1, <2>2, <2>3, <3>2, SMTT(60) DEF QueueInv, NetType, TaskType
      <3> QED
        BY <2>3, <3>1, <3>2
    <2>5. framed' <= nconns' /\ (phase' \in Served => framed' # NoConn)
      BY <1>0, <2>1 DEF QueueInv, NetType, TaskType
    <2>6. \A k \in Conns : k > nconns' => wire'[k] = <<>>
      BY <1>0, <2>1 DEF QueueInv, NetType
    <2> QED
      BY <2>4, <2>5, <2>6 DEF QueueInv
  <1>5. CASE UNCHANGED vars
    BY <1>2, <1>5 DEF vars
  <1>6. CASE FirstClient \/ TakeClient
    BY <1>1, <1>6 DEF FirstClient, TakeClient, BeginReplay
  <1>s. ASSUME NEW f, Send(framed, f) PROVE Quiet
    BY <1>0, <1>s DEF Send, NetType
  <1>7. ASSUME NEW told \in BOOLEAN, Takeover(told) PROVE QueueInv'
    <2>1. Quiet
      BY <1>7, <1>s DEF Takeover
    <2> QED
      BY <1>1, <1>7, <2>1 DEF Takeover, BeginReplay
  <1>8. CASE SendResume \/ SendMarker \/ SendChunk
    <2>1. Quiet
      BY <1>8, <1>s DEF SendResume, AfterResume, SendMarker, SendChunk
    <2> QED
      BY <1>2, <1>8, <2>1 DEF SendResume, AfterResume, SendMarker, SendChunk
  <1>9. CASE ReplayDone \/ ClientGone \/ ReplayFails \/ IdleEvict
    BY <1>2, <1>9 DEF ReplayDone, ClientGone, ReplayFails, IdleEvict, MarkDetached
  <1>10. ASSUME NEW n \in Chunks, NEW screen \in BOOLEAN,
               RedrawOutput(n, screen) \/ PtyOutput(n, screen)
               \/ PtyOutputUnsent(n, screen) \/ DetachedOutput(n, screen)
        PROVE  QueueInv'
    <2>1. Quiet
      BY <1>10, <1>s DEF RedrawOutput, PtyOutput, PtyOutputUnsent, DetachedOutput
    <2> QED
      BY <1>2, <1>10, <2>1 DEF RedrawOutput, PtyOutput, PtyOutputUnsent, DetachedOutput, MarkDetached
  <1>11. CASE (\E n \in Chunks \cup {0} : ShellExit(n)) \/ EndUnattended \/ ShutdownAttached
    <2>1. Quiet
      BY <1>0, <1>11, <1>s DEF ShellExit, EndUnattended, ShutdownAttached, SendAll, NetType
    <2> QED
      BY <1>3, <1>11, <2>1 DEF ShellExit, EndUnattended, ShutdownAttached, EndTask
  <1>12. ASSUME NEW c \in Clients, RecvFrame(c) PROVE QueueInv'
    <2>1. Quiet
      BY <1>0, <1>12 DEF RecvFrame, Receives, NetType, ClientType
    <2> QED
      BY <1>2, <1>12, <2>1 DEF RecvFrame
  <1>13. ASSUME NEW c \in Clients, RecvGoodbye(c) \/ RecvEof(c) \/ LinkStale(c) \/ LinkSilent(c) \/ Quit(c) \/ AttachRefused(c)
         PROVE  QueueInv'
    <2>1. Quiet
      BY <1>0, <1>13 DEF RecvGoodbye, RecvEof, LinkStale, LinkSilent, Quit, Leave, AttachRefused, NetType, ClientType
    <2> QED
      BY <1>2, <1>13, <2>1 DEF RecvGoodbye, RecvEof, LinkStale, LinkSilent, Quit, Leave, AttachRefused
  <1>14. ASSUME NEW k \in Conns, Cut(k) PROVE QueueInv'
    <2>1. Quiet
      BY <1>0, <1>14 DEF Cut, NetType
    <2> QED
      BY <1>2, <1>14, <2>1 DEF Cut
  <1> QED
    BY <1>4, <1>5, <1>6, <1>7, <1>8, <1>9, <1>10, <1>11, <1>12, <1>13, <1>14
    DEF Next, SessionStep, SessionInput, ClientStep

\* Every step keeps clients and connections matched, and a queued offset true.
LEMMA ConnStep == IInv /\ [Next]_vars => ConnInv'
  <1> SUFFICES ASSUME IInv, [Next]_vars PROVE ConnInv'
    OBVIOUS
  <1> USE DEF histVars, taskVars, serverVars, sharedVars, clientVars, netVars, readVars
  <1>0. ConnInv /\ QueueInv /\ SharedType /\ NetType /\ ClientType
    BY DEF IInv, TypeOK
  <1> DEFINE Shrinks == \A i \in DOMAIN client_rx' : \E j \in DOMAIN client_rx : client_rx'[i] = client_rx[j]
  <1>t. client_rx # <<>> /\ client_rx' = Tail(client_rx) => Shrinks
    <2>1. client_rx # <<>> /\ client_rx' = Tail(client_rx)
             => \A i \in DOMAIN client_rx' : i + 1 \in DOMAIN client_rx /\ client_rx'[i] = client_rx[i + 1]
      BY <1>0 DEF SharedType
    <2> QED
      BY <2>1
  \* the session task, and the network
  <1>1. ASSUME UNCHANGED <<client, connOf, rendered, nconns>>, Shrinks
        PROVE  ConnInv'
    BY <1>0, <1>1 DEF ConnInv
  \* client d gives up its connection
  <1>2. ASSUME NEW d \in Clients, NEW st \in {"down", "gone"}, UNCHANGED <<rendered, client_rx, nconns>>,
               client' = [client EXCEPT ![d] = st], connOf' = [connOf EXCEPT ![d] = NoConn]
        PROVE  ConnInv'
    <2> SUFFICES ASSUME NEW c \in Clients
                 PROVE  /\ client'[c] = "live" <=> connOf'[c] # NoConn
                        /\ connOf'[c] <= nconns
                        /\ \A e \in Clients : connOf'[c] = connOf'[e] /\ connOf'[c] # NoConn => c = e
                        /\ \A i \in DOMAIN client_rx :
                              connOf'[c] = client_rx[i].conn => client_rx[i].offset = rendered[c]
      BY <1>2 DEF ConnInv
    <2>1. CASE c = d
      <3>1. connOf'[c] = NoConn /\ client'[c] = st
        BY <1>0, <1>2, <2>1 DEF ClientType
      <3>2. \A i \in DOMAIN client_rx : client_rx[i].conn # NoConn
        BY <1>0, QueueItem
      <3> QED
        BY <1>0, <3>1, <3>2 DEF NetType
    <2>2. CASE c # d
      BY <1>0, <1>2, <2>2 DEF ClientType, ConnInv
    <2> QED
      BY <2>1, <2>2
  \* client d, which has no connection, exits
  <1>3. ASSUME NEW d \in Clients, client[d] = "down", UNCHANGED <<connOf, rendered, client_rx, nconns>>,
               client' = [client EXCEPT ![d] = "gone"]
        PROVE  ConnInv'
    BY <1>0, <1>3 DEF ConnInv, ClientType
  <1>4. CASE UNCHANGED vars
    BY <1>1, <1>4 DEF vars
  <1>5. CASE SessionStep \/ Takeover(FALSE) \/ ReplayFails \/ IdleEvict
    BY <1>1, <1>t, <1>5 DEF SessionStep, FirstClient, TakeClient, Takeover, SendResume,
       SendMarker, SendChunk, ReplayDone, ClientGone, ReplayFails, IdleEvict
  <1>6. ASSUME NEW n \in Chunks, NEW screen \in BOOLEAN,
               RedrawOutput(n, screen) \/ PtyOutput(n, screen)
               \/ PtyOutputUnsent(n, screen) \/ DetachedOutput(n, screen)
        PROVE  ConnInv'
    BY <1>1, <1>6 DEF RedrawOutput, PtyOutput, PtyOutputUnsent, DetachedOutput
  <1>7. CASE (\E n \in Chunks \cup {0} : ShellExit(n)) \/ EndUnattended \/ ShutdownAttached
    <2>1. UNCHANGED <<client, connOf, rendered, nconns>> /\ client_rx' = <<>>
      BY <1>7 DEF ShellExit, EndUnattended, ShutdownAttached, EndTask
    <2> QED
      BY <1>1, <2>1
  <1>8. ASSUME NEW d \in Clients, NEW force \in BOOLEAN, NEW acked \in BOOLEAN, Attach(d, force, acked)
        PROVE  ConnInv'
    <2> DEFINE h == Handoff(nconns + 1, d, client[d] = "new")
    <2>1. /\ nconns' = nconns + 1 /\ nconns' \in Conns
          /\ client_rx' = Append(client_rx, h)
          /\ client[d] \in {"new", "down"}
          /\ rendered' = rendered
          /\ client' = [client EXCEPT ![d] = IF acked THEN "live" ELSE @]
          /\ connOf' = [connOf EXCEPT ![d] = IF acked THEN nconns + 1 ELSE @]
      BY <1>8 DEF Attach
    <2>2. h.conn = nconns + 1 /\ h.offset = rendered[d]
      BY DEF Handoff
    <2> HIDE DEF h
    <2>3. \A i \in DOMAIN client_rx' :
             client_rx'[i] = h \/ (i \in DOMAIN client_rx /\ client_rx'[i] = client_rx[i])
      BY <1>0, <2>1 DEF SharedType
    <2>4. \A i \in DOMAIN client_rx : client_rx[i].conn <= nconns /\ client_rx[i].conn \in Conns
      BY <1>0, QueueItem DEF QueueInv
    <2>5. \A c \in Clients : connOf[c] <= nconns /\ connOf[c] \in Conns \cup {NoConn} /\ nconns \in Nat
      BY <1>0 DEF ConnInv, ClientType, NetType
    <2>6. connOf[d] = NoConn
      BY <1>0, <2>1 DEF ConnInv
    <2> SUFFICES ASSUME NEW c \in Clients
                 PROVE  /\ client'[c] = "live" <=> connOf'[c] # NoConn
                        /\ connOf'[c] <= nconns'
                        /\ \A e \in Clients : connOf'[c] = connOf'[e] /\ connOf'[c] # NoConn => c = e
                        /\ \A i \in DOMAIN client_rx' :
                              connOf'[c] = client_rx'[i].conn => client_rx'[i].offset = rendered'[c]
      BY DEF ConnInv
    <2>7. client'[c] = "live" <=> connOf'[c] # NoConn
      BY <1>0, <2>1, <2>5, <2>6 DEF ConnInv, ClientType
    <2>8. connOf'[c] <= nconns'
      BY <1>0, <2>1, <2>5, <2>6 DEF ClientType
    <2>9. \A e \in Clients : connOf'[c] = connOf'[e] /\ connOf'[c] # NoConn => c = e
      BY <1>0, <2>1, <2>5, <2>6 DEF ConnInv, ClientType
    <2>10. ASSUME NEW i \in DOMAIN client_rx', connOf'[c] = client_rx'[i].conn
           PROVE  client_rx'[i].offset = rendered'[c]
      <3>1. CASE client_rx'[i] = h
        <4>1. connOf'[c] = nconns + 1
          BY <2>2, <2>10, <3>1
        <4>2. c = d
          BY <1>0, <2>1, <2>5, <4>1 DEF ClientType
        <4> QED
          BY <2>1, <2>2, <3>1, <4>2
      <3>2. CASE i \in DOMAIN client_rx /\ client_rx'[i] = client_rx[i]
        <4>1. connOf'[c] <= nconns /\ connOf'[c] # NoConn
          BY <2>4, <2>10, <3>2
        <4>2. connOf'[c] = connOf[c]
          BY <1>0, <2>1, <2>5, <2>6, <4>1 DEF ClientType
        <4> QED
          BY <1>0, <2>1, <2>10, <3>2, <4>2 DEF ConnInv
      <3> QED
        BY <2>3, <3>1, <3>2
    <2> QED
      BY <2>7, <2>8, <2>9, <2>10
  <1>9. ASSUME NEW d \in Clients, RecvFrame(d) PROVE ConnInv'
    <2>1. /\ UNCHANGED <<client, connOf, client_rx, nconns>>
          /\ \A c \in Clients : c # d => rendered'[c] = rendered[c]
          /\ connOf[d] # NoConn /\ wire[connOf[d]] # <<>>
      BY <1>0, <1>9 DEF RecvFrame, Receives, ClientType
    <2>2. \A i \in DOMAIN client_rx : connOf[d] # client_rx[i].conn
      BY <1>0, <2>1 DEF QueueInv
    <2> QED
      BY <1>0, <2>1, <2>2 DEF ConnInv
  <1>10. ASSUME NEW d \in Clients, RecvGoodbye(d) \/ RecvEof(d) \/ LinkStale(d) \/ LinkSilent(d) PROVE ConnInv'
    BY <1>2, <1>10 DEF RecvGoodbye, RecvEof, LinkStale, LinkSilent, Leave
  <1>11. ASSUME NEW d \in Clients, Quit(d) \/ AttachRefused(d) PROVE ConnInv'
    BY <1>2, <1>3, <1>11 DEF Quit, Leave, AttachRefused
  <1>12. ASSUME NEW k \in Conns, Cut(k) PROVE ConnInv'
    BY <1>1, <1>12 DEF Cut
  <1> QED
    BY <1>4, <1>5, <1>6, <1>7, <1>8, <1>9, <1>10, <1>11, <1>12 DEF Next, SessionInput, ClientStep

\* A replay under way stays within the bounds its plan was made with.
LEMMA ReplayStep == IInv /\ [Next]_vars => ReplayInv'
  <1> SUFFICES ASSUME IInv, [Next]_vars PROVE ReplayInv'
    OBVIOUS
  <1> USE DEF histVars, taskVars, serverVars, sharedVars, clientVars, netVars, readVars
  <1>0. ReplayInv /\ RingInv /\ HistType /\ TaskType /\ SharedType
    BY DEF IInv, TypeOK
  <1>1. ASSUME NEW h \in HandoffType, NEW b \in BOOLEAN, BeginReplay(h, b), UNCHANGED histVars
        PROVE  ReplayInv'
    <2>1. h.offset \in Nat /\ plan_replay(h.offset, h.fresh) # "None"
      BY DEF HandoffType, plan_replay
    <2>2. CASE plan_replay(h.offset, h.fresh) = "Truncated"
      <3>1. h.offset < base
        BY <2>2 DEF plan_replay
      <3> QED
        BY <1>0, <1>1, <2>1, <2>2, <3>1 DEF BeginReplay, ReplayStart, ReplayInv, RingInv, HistType
    <2>3. CASE plan_replay(h.offset, h.fresh) # "Truncated"
      <3>1. plan_replay(h.offset, h.fresh) = "Clean" => h.offset <= total
        BY <1>0, <2>1 DEF plan_replay, HistType
      <3>2. /\ total' = total
            /\ replay' = [plan |-> plan_replay(h.offset, h.fresh), stage |-> "resume",
                          from |-> h.offset, pos |-> h.offset, takeover |-> b]
        BY <1>1, <2>3 DEF BeginReplay, ReplayStart
      <3> QED
        BY <2>1, <2>3, <3>1, <3>2 DEF ReplayInv
    <2> QED
      BY <2>2, <2>3
  <1>2. ASSUME phase' # "replay" PROVE ReplayInv'
    BY <1>2 DEF ReplayInv
  <1>3. ASSUME UNCHANGED <<phase, replay>>, total' \in Nat, total <= total' PROVE ReplayInv'
    BY <1>0, <1>3 DEF ReplayInv, HistType, TaskType
  <1>4. CASE UNCHANGED vars
    BY <1>0, <1>3, <1>4 DEF vars, HistType
  <1>5. CASE TakeClient
    BY <1>0, <1>1, <1>5, HeadTail DEF TakeClient, SharedType
  <1>6. ASSUME NEW told \in BOOLEAN, Takeover(told) PROVE ReplayInv'
    BY <1>0, <1>1, <1>6, HeadTail DEF Takeover, SharedType
  <1>7. CASE SendResume
    BY <1>0, <1>7 DEF SendResume, AfterResume, ReplayInv, TaskType
  <1>8. CASE SendMarker
    BY <1>0, <1>8 DEF SendMarker, ReplayInv, TaskType
  <1>9. CASE SendChunk
    <2>1. PICK e \in starts \cup {total} :
                 replay.pos < e /\ replay' = [replay EXCEPT !.pos = e]
      BY <1>9 DEF SendChunk, ChunkEnd
    <2>2. e \in Nat /\ e <= total
      BY <1>0 DEF RingInv, HistType
    <2>3. phase = "replay" /\ replay.stage = "chunks" /\ total' = total /\ phase' = "replay"
      BY <1>9 DEF SendChunk
    <2>4. /\ replay'.plan = replay.plan /\ replay'.stage = replay.stage
          /\ replay'.from = replay.from /\ replay'.pos = e
          /\ replay.from \in Nat /\ replay.pos \in Nat
      BY <1>0, <2>1 DEF TaskType
    <2> QED
      BY <1>0, <2>1, <2>2, <2>3, <2>4 DEF ReplayInv
  <1>10. CASE FirstClient \/ ReplayDone \/ ClientGone \/ ReplayFails \/ IdleEvict
    BY <1>2, <1>10 DEF FirstClient, ReplayDone, ClientGone, ReplayFails, IdleEvict, MarkDetached
  <1>11. ASSUME NEW n \in Chunks, NEW screen \in BOOLEAN, RedrawOutput(n, screen) PROVE ReplayInv'
    BY <1>0, <1>3, <1>11 DEF RedrawOutput, Push, HistType
  <1>12. ASSUME NEW n \in Chunks, NEW screen \in BOOLEAN,
               PtyOutput(n, screen) \/ PtyOutputUnsent(n, screen) \/ DetachedOutput(n, screen)
        PROVE  ReplayInv'
    BY <1>2, <1>12 DEF PtyOutput, PtyOutputUnsent, DetachedOutput, MarkDetached
  <1>13. CASE (\E n \in Chunks \cup {0} : ShellExit(n)) \/ EndUnattended \/ ShutdownAttached
    BY <1>2, <1>13 DEF ShellExit, EndUnattended, ShutdownAttached, EndTask
  <1>14. ASSUME NEW c \in Clients,
               ClientStep(c) \/ (\E force, acked \in BOOLEAN : Attach(c, force, acked))
                \/ LinkSilent(c) \/ Quit(c)
        PROVE  ReplayInv'
    <2>1. UNCHANGED <<phase, replay, total>>
      BY <1>14 DEF ClientStep, RecvFrame, RecvGoodbye, RecvEof, LinkStale, LinkSilent, Leave,
         Attach, AttachRefused, Quit
    <2> QED
      BY <1>0, <1>3, <2>1 DEF HistType
  <1>15. ASSUME NEW k \in Conns, Cut(k) PROVE ReplayInv'
    BY <1>0, <1>3, <1>15 DEF Cut, HistType
  <1> QED
    BY <1>4, <1>5, <1>6, <1>7, <1>8, <1>9, <1>10, <1>11, <1>12, <1>13, <1>14, <1>15
    DEF Next, SessionStep, SessionInput
-----------------------------------------------------------------------------
(* The stream of one client *)

\* The types that the lemmas on one client's stream need.
LEMMA StreamTypes ==
  ASSUME IInv, NEW c \in Clients
  PROVE  /\ rendered[c] \in Nat /\ cursor[c] \in Nat
         /\ total \in Nat /\ fin \in Nat
         /\ connOf[c] # NoConn => wire[connOf[c]] \in Seq(FrameType)
         /\ cursor[c] <= rendered[c] /\ rendered[c] <= total + fin
  <1>1. rendered[c] \in Nat /\ connOf[c] \in Conns \cup {NoConn}
    BY DEF IInv, TypeOK, ClientType
  <1>2. cursor[c] \in Nat
    BY DEF IInv, TypeOK, ReadType
  <1>3. total \in Nat /\ fin \in Nat
    BY DEF IInv, TypeOK, HistType, TaskType
  <1>4. connOf[c] # NoConn => wire[connOf[c]] \in Seq(FrameType)
    BY <1>1 DEF IInv, TypeOK, NetType
  <1>5. cursor[c] <= rendered[c] /\ rendered[c] <= total + fin
    BY DEF IInv, StreamInv
  <1> QED
    BY <1>1, <1>2, <1>3, <1>4, <1>5

\* What the task sends next never lies beyond what the shell has written.
LEMMA UpcomingBound ==
  ASSUME IInv, NEW c \in Clients, connOf[c] # NoConn, Serves(c)
  PROVE  Upcoming \in Nat /\ Upcoming <= total /\ fin = 0
  <1>1. fin = 0
    BY DEF IInv, RingInv, Serves
  <1>2. total \in Nat /\ replay.from \in Nat /\ replay.pos \in Nat
    BY DEF IInv, TypeOK, HistType, TaskType
  <1>3. phase = "replay" /\ replay.stage = "resume" => replay.from = rendered[c]
    BY DEF IInv, StreamInv
  <1>4. rendered[c] <= total
    BY <1>1, StreamTypes
  <1>5. phase = "replay" /\ replay.stage \in {"marker", "chunks"}
           => replay.from <= replay.pos /\ replay.pos <= total
    BY DEF IInv, ReplayInv
  <1>6. CASE phase = "replay" /\ replay.stage \in {"resume", "marker"}
    BY <1>1, <1>2, <1>3, <1>4, <1>5, <1>6 DEF Upcoming
  <1>7. CASE phase = "replay" /\ replay.stage = "chunks"
    BY <1>1, <1>2, <1>5, <1>7 DEF Upcoming
  <1>8. CASE ~(phase = "replay" /\ replay.stage \in {"resume", "marker", "chunks"})
    BY <1>1, <1>2, <1>8 DEF Upcoming
  <1> QED
    BY <1>6, <1>7, <1>8

\* A step that does not touch client c's side of things.
LEMMA StreamSame ==
  ASSUME IInv, NEW c \in Clients,
         cursor'[c] = cursor[c], rendered'[c] = rendered[c], connOf'[c] = connOf[c],
         connOf[c] # NoConn => wire'[connOf[c]] = wire[connOf[c]],
         UNCHANGED <<total, fin, phase, replay, framed>>,
         connOf[c] = framed /\ connOf[c] # NoConn /\ link'[framed] = "up" => link[framed] = "up"
  PROVE  StreamInv(c)'
  <1>1. StreamInv(c)
    BY DEF IInv
  <1>2. Upcoming' = Upcoming /\ Serves(c)' = Serves(c)
    BY DEF Upcoming, Serves
  <1>3. CASE connOf[c] = NoConn
    BY <1>1, <1>3 DEF StreamInv
  <1>4. CASE connOf[c] # NoConn
    BY <1>1, <1>2, <1>4 DEF StreamInv, Serves
  <1> QED
    BY <1>3, <1>4

\* Afterwards the task does not serve c: only the order of its frames matters.
LEMMA StreamUnserved ==
  ASSUME IInv, NEW c \in Clients,
         cursor'[c] = cursor[c], rendered'[c] = rendered[c], connOf'[c] = connOf[c],
         connOf[c] # NoConn => wire'[connOf[c]] = wire[connOf[c]],
         total' \in Nat, fin' \in Nat, total + fin <= total' + fin',
         connOf[c] # NoConn /\ connOf[c] = framed' => phase' \notin {"attached", "replay"}
  PROVE  StreamInv(c)'
  <1> DEFINE w == wire[connOf[c]]
  <1>1. StreamInv(c)
    BY DEF IInv
  <1>2. /\ rendered[c] \in Nat /\ cursor[c] \in Nat /\ total \in Nat /\ fin \in Nat
        /\ cursor[c] <= rendered[c] /\ rendered[c] <= total + fin
    BY StreamTypes
  <1>3. cursor'[c] <= rendered'[c] /\ rendered'[c] <= total' + fin'
    BY <1>2
  <1>4. CASE connOf[c] = NoConn
    BY <1>3, <1>4 DEF StreamInv
  <1>5. CASE connOf[c] # NoConn
    <2>1. w \in Seq(FrameType) /\ Chained(rendered[c], w) /\ Within(w, total + fin)
      BY <1>1, <1>5, StreamTypes DEF StreamInv
    <2>2. total + fin \in Nat /\ total' + fin' \in Nat
      <3>1. total + fin \in Nat
        BY <1>2
      <3>2. total' + fin' \in Nat
        OBVIOUS
      <3> QED
        BY <3>1, <3>2
    <2>3. Within(w, total' + fin')
      BY <2>1, <2>2, WithinMore
    <2>4. Ordered(cursor[c], w, IF Serves(c) THEN Upcoming ELSE total + fin)
      BY <1>1, <1>5 DEF StreamInv
    <2>5. Ordered(cursor[c], w, total' + fin')
      <3>1. CASE Serves(c)
        <4>1. Upcoming \in Nat /\ Upcoming <= total' + fin'
          BY <1>2, <1>5, <3>1, UpcomingBound
        <4> QED
          BY <1>2, <2>1, <2>2, <2>4, <3>1, <4>1, OrderedMore
      <3>2. CASE ~Serves(c)
        BY <1>2, <2>1, <2>2, <2>4, <3>2, OrderedMore
      <3> QED
        BY <3>1, <3>2
    <2> HIDE DEF w
    <2>6. wire'[connOf'[c]] = w
      BY <1>5 DEF w
    <2> QED
      BY <1>3, <1>5, <2>1, <2>3, <2>5, <2>6 DEF StreamInv, Serves
  <1> QED
    BY <1>4, <1>5

\* The task sends frame f to client c, which it goes on serving.
LEMMA StreamAppend ==
  ASSUME IInv, NEW c \in Clients, connOf[c] # NoConn, Serves(c), Serves(c)',
         cursor'[c] = cursor[c], rendered'[c] = rendered[c], connOf'[c] = connOf[c],
         framed' = framed, link' = link,
         NEW f \in FrameType,
         wire'[framed] = IF link[framed] = "up" THEN Append(wire[framed], f) ELSE wire[framed],
         total' \in Nat, total <= total', fin' = fin,
         f.at = total',
         link[framed] = "up" => Fits(EndOf(rendered[c], wire[framed]), f),
         Upcoming' \in Nat, Upcoming <= Upcoming',
         f.lo < f.hi => Upcoming <= f.lo /\ f.hi <= Upcoming',
         ~(phase' = "replay" /\ replay'.stage = "resume")
  PROVE  StreamInv(c)'
  <1> DEFINE w == wire[framed]
             v == wire'[framed]
  <1>1. StreamInv(c) /\ connOf[c] = framed
    BY DEF IInv, Serves
  <1>2. /\ rendered[c] \in Nat /\ cursor[c] \in Nat /\ total \in Nat /\ fin \in Nat
        /\ cursor[c] <= rendered[c] /\ rendered[c] <= total + fin
        /\ w \in Seq(FrameType)
    BY <1>1, StreamTypes
  <1>3. Upcoming \in Nat /\ fin = 0
    BY UpcomingBound
  <1>4. Chained(rendered[c], w) /\ Within(w, total + fin) /\ Ordered(cursor[c], w, Upcoming)
    BY <1>1 DEF StreamInv
  <1>5. CASE link[framed] = "up"
    <2>1. v = Append(w, f)
      BY <1>5
    <2>2. Chained(rendered[c], v) /\ EndOf(rendered[c], v) = total'
      BY <1>2, <1>4, <1>5, <2>1, ChainAppend
    <2>3. Within(v, total' + fin')
      <3>1. total + fin \in Nat /\ total' + fin' \in Nat /\ total + fin <= total' + fin' /\ f.at <= total' + fin'
        BY <1>2, <1>3
      <3> QED
        BY <1>2, <1>4, <2>1, <3>1, WithinAppend
    <2>4. Ordered(cursor[c], v, Upcoming')
      BY <1>2, <1>3, <1>4, <2>1, OrderedAppend
    <2> HIDE DEF v
    <2>5. wire'[connOf'[c]] = v
      BY <1>1 DEF v
    <2> QED
      BY <1>1, <1>2, <2>2, <2>3, <2>4, <2>5 DEF StreamInv
  <1>6. CASE link[framed] # "up"
    <2>1. v = w /\ link'[framed'] # "up"
      BY <1>6
    <2>2. Within(v, total' + fin')
      BY <1>2, <1>3, <1>4, <2>1, WithinMore
    <2>3. Ordered(cursor[c], v, Upcoming')
      BY <1>2, <1>3, <1>4, <2>1, OrderedMore
    <2>4. Chained(rendered[c], v)
      BY <1>4, <2>1
    <2> HIDE DEF v
    <2>5. wire'[connOf'[c]] = v
      BY <1>1 DEF v
    <2> QED
      BY <1>1, <1>2, <2>1, <2>2, <2>3, <2>4, <2>5 DEF StreamInv
  <1> QED
    BY <1>5, <1>6

\* The task goes on serving client c and sends nothing.
LEMMA StreamServed ==
  ASSUME IInv, NEW c \in Clients, connOf[c] # NoConn, Serves(c), Serves(c)',
         cursor'[c] = cursor[c], rendered'[c] = rendered[c], connOf'[c] = connOf[c],
         wire'[framed] = wire[framed],
         UNCHANGED <<framed, link, total, fin>>,
         Upcoming' \in Nat, Upcoming <= Upcoming',
         ~(phase' = "replay" /\ replay'.stage = "resume"),
         link[framed] = "up" => ~(phase = "replay" /\ replay.stage = "resume")
  PROVE  StreamInv(c)'
  <1> DEFINE w == wire[framed]
  <1>1. StreamInv(c) /\ connOf[c] = framed
    BY DEF IInv, Serves
  <1>2. /\ rendered[c] \in Nat /\ cursor[c] \in Nat /\ total \in Nat /\ fin \in Nat
        /\ w \in Seq(FrameType)
    BY <1>1, StreamTypes
  <1>3. Upcoming \in Nat
    BY UpcomingBound
  <1>4. Ordered(cursor[c], w, Upcoming')
    <2>1. Ordered(cursor[c], w, Upcoming)
      BY <1>1 DEF StreamInv
    <2> QED
      BY <1>2, <1>3, <2>1, OrderedMore
  <1>5. wire'[connOf'[c]] = w
    BY <1>1
  <1> HIDE DEF w
  <1> QED
    BY <1>1, <1>4, <1>5 DEF StreamInv, w

\* The task starts to serve client c, to which nothing was sent yet.
LEMMA StreamBegin ==
  ASSUME IInv, NEW c \in Clients, connOf[c] # NoConn, Serves(c)',
         cursor'[c] = cursor[c], rendered'[c] = rendered[c], connOf'[c] = connOf[c],
         wire'[connOf[c]] = <<>>,
         UNCHANGED <<total, fin>>, fin = 0,
         Upcoming' = rendered[c],
         \/ phase' = "replay" /\ replay'.stage = "resume" /\ replay'.from = rendered[c]
         \/ phase' = "attached" /\ rendered[c] = total
  PROVE  StreamInv(c)'
  <1>1. /\ rendered[c] \in Nat /\ cursor[c] \in Nat /\ total \in Nat /\ fin \in Nat
        /\ cursor[c] <= rendered[c] /\ rendered[c] <= total + fin
    BY StreamTypes
  <1>2. /\ Chained(rendered[c], <<>>) /\ Within(<<>>, total + fin)
        /\ Ordered(cursor[c], <<>>, rendered[c]) /\ EndOf(rendered[c], <<>>) = rendered[c]
    BY <1>1 DEF Chained, Within, Ordered, EndOf
  <1> QED
    BY <1>1, <1>2 DEF StreamInv, Serves

\* Nothing in flight to client c, and the task does not serve it.
LEMMA StreamEmpty ==
  ASSUME IInv, NEW c \in Clients,
         cursor'[c] = cursor[c], rendered'[c] = rendered[c], UNCHANGED <<total, fin>>,
         connOf'[c] # NoConn => wire'[connOf'[c]] = <<>> /\ connOf'[c] # framed'
  PROVE  StreamInv(c)'
  <1>1. /\ rendered[c] \in Nat /\ cursor[c] \in Nat /\ total \in Nat /\ fin \in Nat
        /\ cursor[c] <= rendered[c] /\ rendered[c] <= total + fin
    BY StreamTypes
  <1>2. /\ Chained(rendered[c], <<>>) /\ Within(<<>>, total + fin)
        /\ Ordered(cursor[c], <<>>, total + fin)
    BY <1>1 DEF Chained, Within, Ordered
  <1> QED
    BY <1>1, <1>2 DEF StreamInv, Serves

\* What was in flight to client c is lost and its link is no longer up.
LEMMA StreamCut ==
  ASSUME IInv, NEW c \in Clients, connOf[c] # NoConn,
         cursor'[c] = cursor[c], rendered'[c] = rendered[c], connOf'[c] = connOf[c],
         wire'[connOf[c]] = <<>>, link'[connOf[c]] # "up",
         UNCHANGED <<total, fin, phase, replay, framed>>
  PROVE  StreamInv(c)'
  <1>1. StreamInv(c)
    BY DEF IInv
  <1>2. Upcoming' = Upcoming /\ Serves(c)' = Serves(c)
    BY DEF Upcoming, Serves
  <1> DEFINE u == IF Serves(c) THEN Upcoming ELSE total + fin
  <1>3. Ordered(cursor[c], wire[connOf[c]], u)
    BY <1>1 DEF StreamInv
  <1>4. Chained(rendered[c], <<>>) /\ Within(<<>>, total + fin) /\ Ordered(cursor[c], <<>>, u)
    BY <1>3 DEF Chained, Within, Ordered
  <1>5. wire'[connOf'[c]] = <<>>
    OBVIOUS
  <1>6. (Serves(c) => link'[framed'] # "up")
    BY DEF Serves
  <1> QED
    BY <1>1, <1>2, <1>4, <1>5, <1>6 DEF StreamInv

\* Client c reads the first frame in flight.
LEMMA StreamRecv ==
  ASSUME IInv, NEW c \in Clients, RecvFrame(c)
  PROVE  StreamInv(c)'
  <1> DEFINE w == wire[connOf[c]]
             f == Head(w)
             u == IF Serves(c) THEN Upcoming ELSE total + fin
  <1>1. /\ connOf[c] # NoConn /\ connOf[c] \in Conns /\ w # <<>>
        /\ UNCHANGED <<total, fin, phase, replay, framed, connOf, link>>
        /\ wire'[connOf[c]] = Tail(w)
        /\ rendered'[c] = Counted(c, f)
        /\ f.kind \notin Goodbye
    BY DEF RecvFrame, Receives, IInv, TypeOK, ClientType, NetType, serverVars, histVars, taskVars
  <1>2. /\ rendered[c] \in Nat /\ cursor[c] \in Nat /\ total \in Nat /\ fin \in Nat
        /\ w \in Seq(FrameType) /\ cursor[c] <= rendered[c]
    BY <1>1, StreamTypes
  <1>3. /\ f \in FrameType
        /\ f.lo \in Nat /\ f.hi \in Nat /\ f.at \in Nat /\ f.lo <= f.hi
        /\ Fits(rendered[c], f)
    BY HeadFits DEF RecvFrame
  <1>4. rendered'[c] = f.at /\ f.hi <= f.at
    BY <1>1, <1>2, <1>3, SMTT(60) DEF Counted, Fits
  <1>5. cursor'[c] = IF f.lo < f.hi THEN f.hi ELSE cursor[c]
    BY <1>1 DEF RecvFrame, Reads, IInv, TypeOK, ReadType
  <1>6. StreamInv(c)
    BY DEF IInv
  <1>7. Chained(rendered[c], w) /\ Within(w, total + fin) /\ Ordered(cursor[c], w, u)
    BY <1>1, <1>6 DEF StreamInv
  <1>8. total + fin \in Nat
    BY <1>2
  <1>9. u \in Nat
    <2>1. CASE Serves(c)
      BY <1>1, <2>1, UpcomingBound
    <2>2. CASE ~Serves(c)
      BY <1>8, <2>2
    <2> QED
      BY <2>1, <2>2
  <1>10. Tail(w) \in Seq(FrameType)
    BY <1>1, <1>2, HeadTail
  <1>11. Chained(f.at, Tail(w)) /\ EndOf(f.at, Tail(w)) = EndOf(rendered[c], w)
    BY <1>1, <1>2, <1>7, ChainTail
  <1>12. Within(Tail(w), total + fin) /\ f.at <= total + fin
    BY <1>1, <1>2, <1>7, <1>8, WithinTail
  <1>13. Ordered(cursor'[c], Tail(w), u)
    <2> HIDE DEF u
    <2>1. /\ f.lo < f.hi => Ordered(f.hi, Tail(w), u)
          /\ Ordered(cursor[c], Tail(w), u)
      BY <1>1, <1>2, <1>7, <1>9, OrderedTail
    <2> QED
      BY <1>5, <2>1
  <1>14. Upcoming' = Upcoming /\ Serves(c)' = Serves(c)
    BY <1>1 DEF Upcoming, Serves
  <1>15. cursor'[c] <= f.at
    <2>1. rendered[c] <= f.at
      BY <1>3 DEF Fits
    <2> QED
      BY <1>2, <1>3, <1>4, <1>5, <2>1
  <1>16. ~(Serves(c) /\ phase = "replay" /\ replay.stage = "resume")
    BY <1>1, <1>6 DEF StreamInv
  <1>17. Serves(c) /\ link[framed] = "up" /\ ~(phase = "replay" /\ replay.stage = "resume")
            => EndOf(rendered[c], w) = total
    BY <1>1, <1>6 DEF StreamInv
  <1> DEFINE v == Tail(w)
  <1>18. wire'[connOf'[c]] = v
    BY <1>1
  <1> HIDE DEF v, f, w
  <1> QED
    BY <1>1, <1>4, <1>11, <1>12, <1>13, <1>14, <1>15, <1>16, <1>17, <1>18 DEF StreamInv, v

\* The task sends one last frame to client c and stops serving it.
LEMMA StreamLast ==
  ASSUME IInv, NEW c \in Clients, connOf[c] # NoConn,
         cursor'[c] = cursor[c], rendered'[c] = rendered[c], connOf'[c] = connOf[c],
         connOf[c] = framed' => phase' \notin {"attached", "replay"},
         total' \in Nat, fin' \in Nat, total + fin <= total' + fin',
         Chained(rendered[c], wire'[connOf[c]]),
         Within(wire'[connOf[c]], total' + fin'),
         Ordered(cursor[c], wire'[connOf[c]], total' + fin')
  PROVE  StreamInv(c)'
  <1> DEFINE v == wire'[connOf[c]]
  <1>1. /\ rendered[c] \in Nat /\ cursor[c] \in Nat /\ total \in Nat /\ fin \in Nat
        /\ cursor[c] <= rendered[c] /\ rendered[c] <= total + fin
    BY StreamTypes
  <1>2. cursor'[c] <= rendered'[c] /\ rendered'[c] <= total' + fin'
    BY <1>1
  <1>3. wire'[connOf'[c]] = v
    OBVIOUS
  <1>4. Chained(rendered'[c], v) /\ Within(v, total' + fin') /\ Ordered(cursor'[c], v, total' + fin')
    OBVIOUS
  <1> HIDE DEF v
  <1> QED
    BY <1>2, <1>3, <1>4 DEF StreamInv, Serves

\* A frame appended to a well-formed stream.
LEMMA GoodAppend ==
  ASSUME NEW p \in Nat, NEW q \in Nat, NEW w \in Seq(FrameType), NEW f \in FrameType,
         NEW m \in Nat, NEW u \in Nat, NEW m2 \in Nat,
         Chained(p, w), Within(w, m), Ordered(q, w, u), Fits(EndOf(p, w), f),
         m <= m2, u <= m2, f.at <= m2, f.lo < f.hi => u <= f.lo /\ f.hi <= m2
  PROVE  /\ Append(w, f) \in Seq(FrameType)
         /\ Chained(p, Append(w, f)) /\ EndOf(p, Append(w, f)) = f.at
         /\ Within(Append(w, f), m2)
         /\ Ordered(q, Append(w, f), m2)
  <1>1. Append(w, f) \in Seq(FrameType)
    OBVIOUS
  <1> QED
    BY <1>1, ChainAppend, WithinAppend, OrderedAppend

\* The client the task serves, when its replay is past the Resume.
LEMMA ServedFacts ==
  ASSUME IInv, NEW c \in Clients, connOf[c] = framed, phase \in {"attached", "replay"}
  PROVE  /\ connOf[c] # NoConn /\ framed \in Conns /\ Serves(c)
         /\ rendered[c] \in Nat /\ cursor[c] \in Nat /\ total \in Nat
         /\ wire[framed] \in Seq(FrameType)
         /\ cursor[c] <= rendered[c] /\ rendered[c] <= total /\ fin = 0
         /\ Upcoming \in Nat /\ Upcoming <= total
         /\ Chained(rendered[c], wire[framed])
         /\ Within(wire[framed], total)
         /\ Ordered(cursor[c], wire[framed], Upcoming)
         /\ phase = "replay" /\ replay.stage = "resume" =>
               wire[framed] = <<>> /\ replay.from = rendered[c]
         /\ link[framed] = "up" /\ ~(phase = "replay" /\ replay.stage = "resume") =>
               EndOf(rendered[c], wire[framed]) = total
  <1>1. framed # NoConn /\ framed \in Conns
    BY DEF IInv, QueueInv, TypeOK, TaskType
  <1>2. Serves(c) /\ StreamInv(c)
    BY DEF Serves, IInv
  <1>3. Upcoming \in Nat /\ Upcoming <= total /\ fin = 0
    BY <1>1, <1>2, UpcomingBound
  <1>4. /\ rendered[c] \in Nat /\ cursor[c] \in Nat /\ total \in Nat
        /\ wire[framed] \in Seq(FrameType)
        /\ cursor[c] <= rendered[c] /\ rendered[c] <= total
    BY <1>1, <1>3, StreamTypes
  <1>5. total + fin = total
    BY <1>3, <1>4
  <1> QED
    BY <1>1, <1>2, <1>3, <1>4, <1>5 DEF StreamInv

\* A frame sent on framed reaches no other connection.
LEMMA SendOther ==
  ASSUME NetType, NEW f, Send(framed, f), NEW k \in Conns, k # framed
  PROVE  wire'[k] = wire[k]
  BY DEF Send, NetType

\* What Send does to the connection it writes to.
LEMMA SendServed ==
  ASSUME NetType, NEW f, Send(framed, f), framed \in Conns
  PROVE  wire'[framed] = IF link[framed] = "up" THEN Append(wire[framed], f) ELSE wire[framed]
  BY DEF Send, NetType

\* A count that grows by the length of what follows it.
LEMMA SumUp ==
  ASSUME NEW a \in Nat, NEW b \in Nat, NEW n \in Nat, a <= b
  PROVE  a + n <= b + n
  OBVIOUS

\* The task sends a frame that continues the stream, and goes on serving.
LEMMA StreamSend ==
  ASSUME IInv, NEW c \in Clients, NEW f \in FrameType, Send(framed, f),
         phase \in {"attached", "replay"}, phase' \in {"attached", "replay"},
         UNCHANGED <<framed, link, cursor, rendered, connOf, fin>>,
         total' \in Nat, total <= total', f.at = total', f.lo <= f.hi, f.hi <= f.at,
         phase = "replay" /\ replay.stage = "resume" => f.kind = "Resume" /\ f.hi = total',
         ~(phase = "replay" /\ replay.stage = "resume") =>
             \/ f.kind = "Data" /\ f.lo = total /\ f.hi = total'
             \/ f.kind \notin {"Data", "Resume"} /\ total' = total,
         Upcoming' \in Nat, Upcoming <= Upcoming',
         connOf[c] = framed /\ f.lo < f.hi => Upcoming <= f.lo /\ f.hi <= Upcoming',
         ~(phase' = "replay" /\ replay'.stage = "resume")
  PROVE  StreamInv(c)'
  <1>1. NetType /\ connOf[c] \in Conns \cup {NoConn}
    BY DEF IInv, TypeOK, ClientType
  <1>2. CASE connOf[c] # framed
    <2>1. connOf[c] # NoConn => wire'[connOf[c]] = wire[connOf[c]]
      BY <1>1, <1>2, SendOther
    <2>2. total \in Nat /\ fin \in Nat
      BY StreamTypes
    <2>3. fin' = fin
      OBVIOUS
    <2>4. total + fin <= total' + fin'
      BY <2>2, <2>3, SumUp, Zenon
    <2> QED
      BY <1>2, <2>1, <2>2, <2>3, <2>4, StreamUnserved
  <1>3. CASE connOf[c] = framed
    <2>1. /\ connOf[c] # NoConn /\ framed \in Conns /\ Serves(c)
          /\ rendered[c] \in Nat /\ total \in Nat /\ rendered[c] <= total
          /\ phase = "replay" /\ replay.stage = "resume" => wire[framed] = <<>>
          /\ link[framed] = "up" /\ ~(phase = "replay" /\ replay.stage = "resume") =>
                EndOf(rendered[c], wire[framed]) = total
      BY <1>3, ServedFacts
    <2>2. Serves(c)'
      BY <1>3 DEF Serves
    <2>3. wire'[framed] = IF link[framed] = "up" THEN Append(wire[framed], f) ELSE wire[framed]
      BY <1>1, <2>1, SendServed
    <2>4. ASSUME link[framed] = "up" PROVE Fits(EndOf(rendered[c], wire[framed]), f)
      <3>1. CASE phase = "replay" /\ replay.stage = "resume"
        <4>1. EndOf(rendered[c], wire[framed]) = rendered[c]
          BY <2>1, <3>1 DEF EndOf
        <4> QED
          BY <2>1, <3>1, <4>1 DEF Fits
      <3>2. CASE ~(phase = "replay" /\ replay.stage = "resume")
        <4>1. EndOf(rendered[c], wire[framed]) = total
          BY <2>1, <2>4, <3>2
        <4> QED
          BY <2>1, <3>2, <4>1 DEF Fits
      <3> QED
        BY <3>1, <3>2
    <2> QED
      BY <1>3, <2>1, <2>2, <2>3, <2>4, StreamAppend
  <1> QED
    BY <1>2, <1>3

\* The task says goodbye on framed and does not serve it any more.
LEMMA StreamGoodbye ==
  ASSUME IInv, NEW c \in Clients, NEW kind \in Goodbye, phase = "attached",
         Send(framed, Frame(kind, 0, 0, total)),
         UNCHANGED <<cursor, rendered, connOf, total, fin>>,
         connOf[c] = framed' => phase' \notin {"attached", "replay"}
  PROVE  StreamInv(c)'
  <1>1. NetType /\ connOf[c] \in Conns \cup {NoConn} /\ total \in Nat /\ fin \in Nat
    BY DEF IInv, TypeOK, ClientType, HistType, TaskType
  <1>2. CASE connOf[c] # framed
    <2>1. connOf[c] # NoConn => wire'[connOf[c]] = wire[connOf[c]]
      BY <1>1, <1>2, SendOther
    <2>2. total + fin <= total' + fin'
      BY <1>1
    <2> QED
      BY <1>1, <2>1, <2>2, StreamUnserved
  <1>3. CASE connOf[c] = framed
    <2> DEFINE f == Frame(kind, 0, 0, total)
               w == wire[framed]
    <2>1. /\ f \in FrameType /\ f.lo = 0 /\ f.hi = 0 /\ f.at = total /\ f.kind = kind
          /\ f.kind \notin {"Resume", "Data"}
      BY <1>1, FrameIn DEF Frame, Goodbye, FrameKinds
    <2>2. Send(framed, f)
      OBVIOUS
    <2> HIDE DEF f
    <2>3. /\ connOf[c] # NoConn /\ framed \in Conns
          /\ rendered[c] \in Nat /\ cursor[c] \in Nat /\ w \in Seq(FrameType) /\ fin = 0
          /\ Upcoming \in Nat /\ Upcoming <= total
          /\ Chained(rendered[c], w) /\ Within(w, total) /\ Ordered(cursor[c], w, Upcoming)
          /\ link[framed] = "up" => EndOf(rendered[c], w) = total
      BY <1>3, ServedFacts
    <2>4. wire'[framed] = IF link[framed] = "up" THEN Append(w, f) ELSE w
      BY <1>1, <2>2, <2>3, SendServed
    <2>5. total' + fin' = total /\ total + fin = total
      BY <1>1, <2>3
    <2>6. Chained(rendered[c], wire'[framed]) /\ Within(wire'[framed], total)
          /\ Ordered(cursor[c], wire'[framed], total)
      <3>1. CASE link[framed] = "up"
        <4>1. Fits(EndOf(rendered[c], w), f)
          BY <1>1, <2>1, <2>3, <3>1 DEF Fits
        <4>2. f.at <= total /\ total <= total /\ ~(f.lo < f.hi)
          BY <1>1, <2>1
        <4>3. wire'[framed] = Append(w, f)
          BY <2>4, <3>1
        <4> HIDE DEF w
        <4>4. Chained(rendered[c], Append(w, f))
          BY <2>1, <2>3, <4>1, ChainAppend
        <4>5. Within(Append(w, f), total)
          BY <1>1, <2>1, <2>3, <4>2, WithinAppend
        <4>6. Ordered(cursor[c], Append(w, f), total)
          BY <1>1, <2>1, <2>3, <4>2, OrderedAppend
        <4> QED
          BY <4>3, <4>4, <4>5, <4>6
      <3>2. CASE link[framed] # "up"
        <4>1. wire'[framed] = w
          BY <2>4, <3>2
        <4>2. Ordered(cursor[c], w, total)
          BY <1>1, <2>3, OrderedMore
        <4> QED
          BY <2>3, <4>1, <4>2
      <3> QED
        BY <3>1, <3>2
    <2> QED
      BY <1>1, <1>3, <2>3, <2>5, <2>6, StreamLast
  <1> QED
    BY <1>2, <1>3

\* The last Data and Exit, one after the other.
LEMMA AppendTwo ==
  ASSUME NEW w \in Seq(FrameType), NEW d \in FrameType, NEW x \in FrameType
  PROVE  w \o <<d, x>> = Append(Append(w, d), x)
  <1> DEFINE v == w \o <<d, x>>
             u == Append(Append(w, d), x)
             n == Len(w)
  <1>1. v \in Seq(FrameType) /\ Len(v) = n + 2 /\ n \in Nat
    OBVIOUS
  <1>2. u \in Seq(FrameType) /\ Len(u) = n + 2
    OBVIOUS
  <1>3. ASSUME NEW i \in 1..(n + 2) PROVE v[i] = u[i]
    <2>1. CASE i \in 1..n
      BY <1>1, <2>1
    <2>2. CASE i = n + 1
      BY <1>1, <2>2
    <2>3. CASE i = n + 2
      BY <1>1, <2>3
    <2> QED
      BY <1>1, <2>1, <2>2, <2>3
  <1> QED
    BY <1>1, <1>2, <1>3, SeqEqual

\* A step in which client c keeps its stream, or the task stops serving it.
LEMMA StreamStep == IInv /\ [Next]_vars => \A c \in Clients : StreamInv(c)'
  <1> SUFFICES ASSUME IInv, [Next]_vars, NEW c \in Clients PROVE StreamInv(c)'
    OBVIOUS
  <1> USE DEF histVars, taskVars, serverVars, sharedVars, clientVars, netVars, readVars
  <1>0. /\ HistType /\ TaskType /\ SharedType /\ ClientType /\ NetType /\ ReadType
        /\ RingInv /\ QueueInv /\ ConnInv /\ ReplayInv
        /\ total \in Nat /\ fin \in Nat /\ total + fin \in Nat
    BY DEF IInv, TypeOK, HistType, TaskType
  <1>1. ASSUME UNCHANGED <<cursor, rendered, connOf, wire, total, fin>>,
               connOf[c] # NoConn /\ connOf[c] = framed' => phase' \notin {"attached", "replay"}
        PROVE  StreamInv(c)'
    <2>1. total' \in Nat /\ fin' \in Nat
      BY <1>0, <1>1
    <2>2. total + fin <= total' + fin'
      BY <1>0, <1>1
    <2> QED
      BY <1>1, <2>1, <2>2, StreamUnserved
  <1>2. CASE UNCHANGED vars
    BY <1>2, StreamSame DEF vars
  <1>3. ASSUME client_rx # <<>>,
               framed' = Head(client_rx).conn, connOf[c] = framed'
        PROVE  /\ connOf[c] # NoConn /\ connOf[c] \in Conns
               /\ wire[connOf[c]] = <<>> /\ connOf[c] # framed
               /\ Head(client_rx).offset = rendered[c]
    <2>1. 1 \in DOMAIN client_rx /\ Head(client_rx) = client_rx[1] /\ Head(client_rx) \in HandoffType
      BY <1>0, <1>3, HeadTail DEF SharedType
    <2>2. connOf[c] = client_rx[1].conn /\ client_rx[1].conn \in Conns
      BY <1>3, <2>1 DEF HandoffType
    <2>3. framed < client_rx[1].conn /\ wire[client_rx[1].conn] = <<>> /\ framed \in Nat
      BY <1>0, <2>1 DEF QueueInv, TaskType
    <2>4. client_rx[1].offset = rendered[c]
      BY <1>0, <2>1, <2>2 DEF ConnInv
    <2> QED
      BY <2>1, <2>2, <2>3, <2>4
  <1>4. CASE FirstClient
    <2>1. /\ UNCHANGED <<cursor, rendered, connOf, wire, total, fin>>
          /\ client_rx # <<>> /\ framed' = Head(client_rx).conn
          /\ phase' = "attached" /\ phase = "birth"
      BY <1>4 DEF FirstClient
    <2>2. CASE connOf[c] = framed'
      <3>1. /\ connOf[c] # NoConn /\ connOf[c] \in Conns /\ wire[connOf[c]] = <<>>
        BY <1>3, <2>1, <2>2
      <3>2. total = 0 /\ fin = 0
        BY <1>0, <2>1 DEF RingInv
      <3>3. rendered[c] = total
        BY <3>2, StreamTypes
      <3>4. Upcoming' = rendered[c] /\ Serves(c)'
        BY <2>1, <2>2, <3>3 DEF Upcoming, Serves
      <3> QED
        BY <2>1, <3>1, <3>2, <3>3, <3>4, StreamBegin
    <2> QED
      BY <1>1, <2>1, <2>2
  <1>5. ASSUME NEW b \in BOOLEAN, BeginReplay(Head(client_rx), b), client_rx # <<>>,
               UNCHANGED <<cursor, rendered, connOf, total, fin>>, phase # "ended",
               connOf[c] = framed', wire'[connOf[c]] = wire[connOf[c]]
        PROVE  StreamInv(c)'
    <2>1. /\ framed' = Head(client_rx).conn /\ phase' = "replay"
          /\ replay'.stage = "resume" /\ replay'.from = Head(client_rx).offset
      BY <1>5 DEF BeginReplay, ReplayStart
    <2>2. /\ connOf[c] # NoConn /\ wire[connOf[c]] = <<>> /\ replay'.from = rendered[c]
      BY <1>3, <1>5, <2>1
    <2>3. fin = 0
      BY <1>0, <1>5 DEF RingInv
    <2>4. Upcoming' = rendered[c] /\ Serves(c)'
      BY <1>5, <2>1, <2>2 DEF Upcoming, Serves
    <2> QED
      BY <1>5, <2>1, <2>2, <2>3, <2>4, StreamBegin
  <1>6. CASE TakeClient
    <2>1. /\ UNCHANGED <<cursor, rendered, connOf, wire, total, fin>>
          /\ client_rx # <<>> /\ BeginReplay(Head(client_rx), FALSE) /\ phase # "ended"
      BY <1>6 DEF TakeClient
    <2> QED
      BY <1>1, <1>5, <2>1
  <1>7. ASSUME NEW told \in BOOLEAN, Takeover(told) PROVE StreamInv(c)'
    <2>1. /\ UNCHANGED <<cursor, rendered, connOf, total, fin>>
          /\ client_rx # <<>> /\ BeginReplay(Head(client_rx), TRUE) /\ phase = "attached"
          /\ Send(framed, Frame("Detached", 0, 0, total)) \/ UNCHANGED wire
      BY <1>7 DEF Takeover
    <2>2. framed' = Head(client_rx).conn
      BY <2>1 DEF BeginReplay, ReplayStart
    <2>3. CASE connOf[c] = framed'
      <3>1. connOf[c] \in Conns /\ connOf[c] # framed
        BY <1>3, <2>1, <2>2, <2>3
      <3>2. wire'[connOf[c]] = wire[connOf[c]]
        BY <1>0, <2>1, <3>1, SendOther
      <3> QED
        BY <1>5, <2>1, <2>3, <3>2
    <2>4. CASE connOf[c] # framed' /\ UNCHANGED wire
      BY <1>1, <2>1, <2>4
    <2>5. CASE connOf[c] # framed' /\ Send(framed, Frame("Detached", 0, 0, total))
      <3>1. "Detached" \in Goodbye
        BY DEF Goodbye
      <3> QED
        BY <2>1, <2>5, <3>1, StreamGoodbye
    <2> QED
      BY <2>1, <2>3, <2>4, <2>5
  <1>8. CASE SendResume
    <2> DEFINE skipped == IF replay.from <= total THEN replay.from ELSE total
               written == IF replay.plan \in {"AltRedraw", "Fresh"} THEN skipped ELSE total
               f == Frame("Resume", written, total, total)
    <2>1. /\ phase = "replay" /\ replay.stage = "resume" /\ phase' = "replay"
          /\ Send(framed, f)
          /\ UNCHANGED <<framed, link, cursor, rendered, connOf, fin, total>>
          /\ replay'.from = replay.from /\ replay'.pos = replay.pos
          /\ replay'.stage = CASE replay.plan = "AltRedraw" -> "redraw"
                               [] replay.plan = "Fresh"     -> "done"
                               [] replay.plan = "Truncated" -> "marker"
                               [] OTHER                     -> "chunks"
      BY <1>0, <1>8 DEF SendResume, AfterResume, TaskType
    <2>2. replay.from \in Nat /\ replay.pos \in Nat /\ replay.from <= replay.pos
      BY <1>0, <2>1 DEF TaskType, ReplayInv
    <2>3. written \in Nat /\ written <= total
      BY <1>0, <2>2
    <2>4. /\ f \in FrameType /\ f.kind = "Resume" /\ f.lo = written /\ f.hi = total /\ f.at = total
      BY <1>0, <2>3, FrameIn DEF Frame, FrameKinds
    <2>5. Upcoming = replay.from
      BY <2>1 DEF Upcoming
    <2> HIDE DEF f, written
    <2>6. CASE connOf[c] # framed
      <3>1. connOf[c] # NoConn => wire'[connOf[c]] = wire[connOf[c]]
        BY <1>0, <2>1, <2>6, SendOther DEF ClientType
      <3>2. total' \in Nat /\ fin' \in Nat
        BY <1>0, <2>1
      <3>3. total + fin <= total' + fin'
        BY <1>0, <2>1
      <3> QED
        BY <2>1, <2>6, <3>1, <3>2, <3>3, StreamUnserved
    <2>7. CASE connOf[c] = framed
      <3>1. Upcoming <= total /\ rendered[c] <= total /\ replay.from = rendered[c] /\ rendered[c] \in Nat
        BY <2>1, <2>7, ServedFacts
      <3>2. CASE replay.plan \in {"AltRedraw", "Fresh"}
        <4>1. Upcoming' = total /\ replay'.stage # "resume"
          BY <2>1, <3>2 DEF Upcoming
        <4>2. written = replay.from
          BY <2>2, <2>5, <3>1, <3>2 DEF written
        <4> QED
          BY <1>0, <2>1, <2>2, <2>3, <2>4, <2>5, <3>1, <4>1, <4>2, StreamSend
      <3>3. CASE replay.plan \notin {"AltRedraw", "Fresh"}
        <4>1. /\ Upcoming' \in Nat /\ Upcoming <= Upcoming' /\ replay'.stage # "resume"
          BY <2>1, <2>2, <2>5, <3>3 DEF Upcoming
        <4>2. written = total
          BY <3>3 DEF written
        <4> QED
          BY <1>0, <2>1, <2>2, <2>3, <2>4, <2>5, <3>1, <4>1, <4>2, StreamSend
      <3> QED
        BY <3>2, <3>3
    <2> QED
      BY <2>6, <2>7
  <1>9. CASE SendMarker
    <2> DEFINE f == Frame("Marker", replay.from, replay.pos, total)
    <2>1. /\ phase = "replay" /\ replay.stage = "marker" /\ phase' = "replay"
          /\ Send(framed, f)
          /\ UNCHANGED <<framed, link, cursor, rendered, connOf, fin, total>>
          /\ replay'.pos = replay.pos /\ replay'.stage = "chunks"
      BY <1>0, <1>9 DEF SendMarker, TaskType
    <2>2. /\ replay.from \in Nat /\ replay.pos \in Nat
          /\ replay.from <= replay.pos /\ replay.pos <= total
      BY <1>0, <2>1 DEF TaskType, ReplayInv
    <2>3. /\ f \in FrameType /\ f.kind = "Marker" /\ f.lo = replay.from
          /\ f.hi = replay.pos /\ f.at = total
      BY <1>0, <2>2, FrameIn DEF Frame, FrameKinds
    <2>4. Upcoming = replay.from /\ Upcoming' = replay.pos
      BY <2>1 DEF Upcoming
    <2> HIDE DEF f
    <2> QED
      BY <1>0, <2>1, <2>2, <2>3, <2>4, StreamSend
  <1>10. CASE SendChunk
    <2>1. PICK e \in starts \cup {total} :
                 /\ ChunkEnd(replay.pos, e)
                 /\ Send(framed, Frame("Replay", replay.pos, e, total))
                 /\ replay' = [replay EXCEPT !.pos = e]
      BY <1>10 DEF SendChunk
    <2> DEFINE f == Frame("Replay", replay.pos, e, total)
    <2>2. /\ phase = "replay" /\ replay.stage = "chunks" /\ phase' = "replay"
          /\ UNCHANGED <<framed, link, cursor, rendered, connOf, fin, total>>
          /\ replay'.pos = e /\ replay'.stage = "chunks"
      BY <1>0, <1>10, <2>1 DEF SendChunk, TaskType
    <2>3. e \in Nat /\ e <= total /\ replay.pos \in Nat /\ replay.pos < e
      BY <1>0, <2>1 DEF RingInv, HistType, TaskType, ChunkEnd
    <2>4. /\ f \in FrameType /\ f.kind = "Replay" /\ f.lo = replay.pos /\ f.hi = e /\ f.at = total
      BY <1>0, <2>3, FrameIn DEF Frame, FrameKinds
    <2>5. Upcoming = replay.pos /\ Upcoming' = e
      BY <2>2 DEF Upcoming
    <2>6. Send(framed, f)
      BY <2>1
    <2> HIDE DEF f
    <2> QED
      BY <1>0, <2>2, <2>3, <2>4, <2>5, <2>6, StreamSend
  <1>11. ASSUME NEW n \in Chunks, NEW screen \in BOOLEAN,
                RedrawOutput(n, screen) \/ PtyOutput(n, screen)
         PROVE  StreamInv(c)'
    <2> DEFINE f == Frame("Data", total, total + n, total + n)
    <2>1. /\ Send(framed, f)
          /\ UNCHANGED <<framed, link, cursor, rendered, connOf, fin, phase, replay>>
          /\ Push(n)
          /\ phase = "attached" \/ (phase = "replay" /\ replay.stage = "redraw")
      BY <1>11 DEF RedrawOutput, PtyOutput
    <2>2. total' = total + n /\ n \in Nat
      BY <2>1 DEF Push
    <2>3. total' \in Nat /\ total <= total'
      BY <1>0, <2>2
    <2>4. /\ f \in FrameType /\ f.kind = "Data" /\ f.lo = total /\ f.hi = total' /\ f.at = total'
      BY <1>0, <2>2, <2>3, FrameIn DEF Frame, FrameKinds
    <2>5. Upcoming = total /\ Upcoming' = total'
      BY <2>1 DEF Upcoming
    <2> HIDE DEF f
    <2> QED
      BY <1>0, <2>1, <2>3, <2>4, <2>5, StreamSend
  <1>12. ASSUME UNCHANGED <<framed, link, wire, cursor, rendered, connOf, fin, total>>,
                phase = "replay", phase' = "attached", replay' = NoReplay,
                link[framed] = "up" => replay.stage # "resume"
         PROVE  StreamInv(c)'
    <2>1. CASE connOf[c] # framed
      BY <1>1, <1>12, <2>1
    <2>2. CASE connOf[c] = framed
      <3>1. /\ connOf[c] # NoConn /\ Serves(c) /\ Upcoming \in Nat /\ Upcoming <= total
        BY <1>12, <2>2, ServedFacts
      <3>2. Upcoming' = total /\ Serves(c)'
        BY <1>12, <2>2 DEF Upcoming, Serves
      <3> QED
        BY <1>0, <1>12, <2>2, <3>1, <3>2, StreamServed
    <2> QED
      BY <2>1, <2>2
  <1>13. CASE ReplayDone
    BY <1>12, <1>13 DEF ReplayDone
  <1>14. CASE ReplayFails
    <2>1. CASE replay.takeover
      BY <1>12, <1>14, <2>1 DEF ReplayFails, Dead
    <2>2. CASE ~replay.takeover
      BY <1>1, <1>14, <2>2 DEF ReplayFails, MarkDetached
    <2> QED
      BY <2>1, <2>2
  <1>15. CASE ClientGone \/ IdleEvict \/ EndUnattended
    BY <1>1, <1>15 DEF ClientGone, IdleEvict, EndUnattended, EndTask, MarkDetached
  <1>16. ASSUME NEW n \in Chunks, NEW screen \in BOOLEAN,
                PtyOutputUnsent(n, screen) \/ DetachedOutput(n, screen)
         PROVE  StreamInv(c)'
    <2>1. /\ UNCHANGED <<cursor, rendered, connOf, fin, wire>> /\ Push(n) /\ phase' = "detached"
      BY <1>16 DEF PtyOutputUnsent, DetachedOutput, MarkDetached
    <2>2. total' = total + n /\ n \in Nat
      BY <2>1 DEF Push
    <2>3. total' \in Nat /\ total <= total'
      BY <1>0, <2>2
    <2>4. total + fin <= total' + fin
      BY <1>0, <2>3, SumUp
    <2>5. fin' = fin
      BY <2>1
    <2> QED
      BY <1>0, <2>1, <2>3, <2>4, <2>5, StreamUnserved
  <1>17. CASE ShutdownAttached
    <2>1. /\ UNCHANGED <<cursor, rendered, connOf, total, fin>> /\ phase' = "ended"
          /\ phase = "attached" /\ Send(framed, Frame("ServerShutdown", 0, 0, total))
      BY <1>17 DEF ShutdownAttached, EndTask
    <2>2. "ServerShutdown" \in Goodbye
      BY DEF Goodbye
    <2> QED
      BY <2>1, <2>2, StreamGoodbye
  <1>18. ASSUME NEW n \in Chunks \cup {0}, ShellExit(n) PROVE StreamInv(c)'
    <2> DEFINE top == total + n
               d == Frame("Data", total, top, top)
               x == Frame("Exit", 0, 0, top)
               fs == IF n = 0 THEN <<x>> ELSE <<d, x>>
    <2>1. /\ phase = "attached" /\ phase' = "ended" /\ fin' = n /\ total' = total
          /\ UNCHANGED <<cursor, rendered, connOf>>
          /\ SendAll(framed, fs)
      BY <1>18 DEF ShellExit, EndTask
    <2>2. /\ n \in Nat /\ fin = 0 /\ total + fin = total
          /\ top \in Nat /\ total <= top /\ total' + fin' = top
      BY <1>0, <2>1 DEF RingInv
    <2>3. /\ d \in FrameType /\ d.kind = "Data" /\ d.lo = total /\ d.hi = top /\ d.at = top
          /\ x \in FrameType /\ x.kind = "Exit" /\ x.lo = 0 /\ x.hi = 0 /\ x.at = top
      BY <1>0, <2>2, FrameIn DEF Frame, FrameKinds
    <2>4. wire' = IF link[framed] = "up" THEN [wire EXCEPT ![framed] = @ \o fs] ELSE wire
      BY <2>1 DEF SendAll
    <2> HIDE DEF d, x, top
    <2>5. CASE connOf[c] # framed \/ link[framed] # "up"
      <3>1. connOf[c] # NoConn => wire'[connOf[c]] = wire[connOf[c]]
        BY <1>0, <2>4, <2>5 DEF NetType, ClientType
      <3>2. total' \in Nat /\ fin' \in Nat
        BY <1>0, <2>1, <2>2
      <3>3. total + fin <= total' + fin'
        BY <2>2
      <3> QED
        BY <2>1, <3>1, <3>2, <3>3, StreamUnserved
    <2>6. CASE connOf[c] = framed /\ link[framed] = "up"
      <3> DEFINE w == wire[framed]
      <3>1. /\ connOf[c] # NoConn /\ framed \in Conns
            /\ rendered[c] \in Nat /\ cursor[c] \in Nat /\ w \in Seq(FrameType)
            /\ Upcoming \in Nat /\ Upcoming <= total
            /\ Chained(rendered[c], w) /\ Within(w, total) /\ Ordered(cursor[c], w, Upcoming)
            /\ EndOf(rendered[c], w) = total
        BY <2>1, <2>6, ServedFacts
      <3>2. wire'[framed] = w \o fs
        BY <1>0, <2>4, <2>6, <3>1 DEF NetType
      <3>3. Ordered(cursor[c], w, total)
        BY <1>0, <3>1, OrderedMore
      <3>4. CASE n = 0
        <4>1. top = total
          BY <1>0, <3>4 DEF top
        <4>2. wire'[framed] = Append(w, x)
          BY <2>3, <3>1, <3>2, <3>4
        <4>3. Fits(total, x) /\ ~(x.lo < x.hi) /\ x.at <= top
          BY <1>0, <2>2, <2>3, <4>1 DEF Fits
        <4> HIDE DEF w
        <4>4. Chained(rendered[c], Append(w, x))
          BY <2>3, <3>1, <4>3, ChainAppend
        <4>5. Within(Append(w, x), top)
          BY <1>0, <2>2, <2>3, <3>1, <4>3, WithinAppend
        <4>6. Ordered(cursor[c], Append(w, x), top)
          BY <1>0, <2>2, <2>3, <3>1, <3>3, <4>3, OrderedAppend
        <4>7. /\ Chained(rendered[c], wire'[connOf[c]])
              /\ Within(wire'[connOf[c]], total' + fin')
              /\ Ordered(cursor[c], wire'[connOf[c]], total' + fin')
          BY <2>2, <2>6, <4>2, <4>4, <4>5, <4>6
        <4>8. total' \in Nat /\ fin' \in Nat
          BY <1>0, <2>1, <2>2
        <4>9. total + fin <= total' + fin'
          BY <2>2
        <4> QED
          BY <2>1, <3>1, <4>7, <4>8, <4>9, StreamLast
      <3>5. CASE n # 0
        <4> DEFINE v == Append(w, d)
        <4>1. wire'[framed] = Append(v, x)
          <5>1. fs = <<d, x>>
            BY <3>5
          <5> HIDE DEF fs
          <5> QED
            BY <2>3, <3>1, <3>2, <5>1, AppendTwo
        <4>2. Fits(total, d) /\ d.at <= top /\ total <= d.lo /\ d.hi <= top
          BY <1>0, <2>2, <2>3 DEF Fits
        <4>3. Fits(top, x) /\ ~(x.lo < x.hi) /\ x.at <= top
          BY <2>2, <2>3 DEF Fits
        <4> HIDE DEF w
        <4>4. Chained(rendered[c], v) /\ EndOf(rendered[c], v) = top /\ v \in Seq(FrameType)
          BY <2>3, <3>1, <4>2, ChainAppend
        <4>5. Within(v, top)
          BY <1>0, <2>2, <2>3, <3>1, <4>2, WithinAppend
        <4>6. Ordered(cursor[c], v, top)
          BY <1>0, <2>2, <2>3, <3>1, <3>3, <4>2, OrderedAppend
        <4> HIDE DEF v
        <4>7. Chained(rendered[c], Append(v, x))
          BY <2>3, <3>1, <4>3, <4>4, ChainAppend
        <4>8. Within(Append(v, x), top)
          BY <2>2, <2>3, <4>3, <4>4, <4>5, WithinAppend
        <4>9. Ordered(cursor[c], Append(v, x), top)
          BY <2>2, <2>3, <3>1, <4>3, <4>4, <4>6, OrderedAppend
        <4>10. /\ Chained(rendered[c], wire'[connOf[c]])
               /\ Within(wire'[connOf[c]], total' + fin')
               /\ Ordered(cursor[c], wire'[connOf[c]], total' + fin')
          BY <2>2, <2>6, <4>1, <4>7, <4>8, <4>9
        <4>11. total' \in Nat /\ fin' \in Nat
          BY <1>0, <2>1, <2>2
        <4>12. total + fin <= total' + fin'
          BY <2>2
        <4> QED
          BY <2>1, <3>1, <4>10, <4>11, <4>12, StreamLast
      <3> QED
        BY <3>4, <3>5
    <2> QED
      BY <2>5, <2>6
  <1>19. ASSUME NEW d \in Clients, NEW force \in BOOLEAN, NEW acked \in BOOLEAN,
                Attach(d, force, acked)
         PROVE  StreamInv(c)'
    <2>1. /\ UNCHANGED <<cursor, rendered, wire, total, fin, phase, replay, framed>>
          /\ nconns + 1 \in Conns /\ client[d] # "live"
          /\ connOf' = [connOf EXCEPT ![d] = IF acked THEN nconns + 1 ELSE @]
          /\ link' = [link EXCEPT ![nconns + 1] = IF acked THEN "up" ELSE "cut"]
      BY <1>19 DEF Attach
    <2>2. /\ wire[nconns + 1] = <<>> /\ framed <= nconns /\ framed # nconns + 1
      BY <1>0, <2>1 DEF QueueInv, NetType, TaskType
    <2>3. connOf[d] = NoConn
      BY <1>0, <2>1 DEF ConnInv
    <2>4. CASE c = d
      <3>1. connOf'[c] # NoConn => connOf'[c] = nconns + 1
        BY <1>0, <2>1, <2>3, <2>4 DEF ClientType
      <3> QED
        BY <2>1, <2>2, <3>1, StreamEmpty
    <2>5. CASE c # d
      <3>1. connOf'[c] = connOf[c]
        BY <1>0, <2>1, <2>5 DEF ClientType
      <3>2. link'[framed] = link[framed]
        BY <1>0, <2>1, <2>2 DEF NetType
      <3> QED
        BY <2>1, <3>1, <3>2, StreamSame
    <2> QED
      BY <2>4, <2>5
  <1>20. ASSUME NEW d \in Clients, RecvFrame(d) PROVE StreamInv(c)'
    <2>1. CASE c = d
      BY <1>20, <2>1, StreamRecv
    <2>2. CASE c # d
      <3>1. /\ UNCHANGED <<total, fin, phase, replay, framed, connOf, link>>
            /\ connOf[d] # NoConn
            /\ wire' = [wire EXCEPT ![connOf[d]] = Tail(@)]
            /\ rendered'[c] = rendered[c]
        BY <1>0, <1>20, <2>2 DEF RecvFrame, Receives, ClientType
      <3>2. cursor'[c] = cursor[c]
        BY <1>0, <1>20, <2>2 DEF RecvFrame, Reads, ReadType
      <3>3. connOf[c] # NoConn => connOf[c] # connOf[d]
        BY <1>0, <2>2 DEF ConnInv
      <3>4. connOf[c] # NoConn => wire'[connOf[c]] = wire[connOf[c]]
        BY <1>0, <3>1, <3>3 DEF NetType, ClientType
      <3> QED
        BY <3>1, <3>2, <3>4, StreamSame
    <2> QED
      BY <2>1, <2>2
  <1>21. ASSUME NEW d \in Clients, NEW st, Leave(d, st) PROVE StreamInv(c)'
    <2>1. /\ UNCHANGED <<total, fin, phase, replay, framed, cursor, rendered>>
          /\ connOf' = [connOf EXCEPT ![d] = NoConn]
          /\ wire' = [wire EXCEPT ![connOf[d]] = <<>>]
          /\ link' = [link EXCEPT ![connOf[d]] = IF @ = "up" THEN "left" ELSE @]
      BY <1>21 DEF Leave
    <2>2. CASE c = d
      <3>1. connOf'[c] = NoConn
        BY <1>0, <2>1, <2>2 DEF ClientType
      <3> QED
        BY <2>1, <3>1, StreamEmpty
    <2>3. CASE c # d
      <3>1. connOf'[c] = connOf[c]
        BY <1>0, <2>1, <2>3 DEF ClientType
      <3>2. connOf[c] # NoConn => connOf[c] # connOf[d] /\ connOf[c] \in Conns
        BY <1>0, <2>3 DEF ConnInv, ClientType
      <3>3. connOf[c] # NoConn => wire'[connOf[c]] = wire[connOf[c]]
        BY <1>0, <2>1, <3>2 DEF NetType
      <3>4. connOf[c] # NoConn /\ connOf[c] = framed => link'[framed] = link[framed]
        BY <1>0, <2>1, <3>2 DEF NetType
      <3> QED
        BY <2>1, <3>1, <3>3, <3>4, StreamSame
    <2> QED
      BY <2>2, <2>3
  <1>22. ASSUME NEW d \in Clients, RecvGoodbye(d) \/ RecvEof(d) \/ LinkStale(d) \/ LinkSilent(d) PROVE StreamInv(c)'
    BY <1>21, <1>22 DEF RecvGoodbye, RecvEof, LinkStale, LinkSilent
  <1>23. ASSUME NEW d \in Clients, Quit(d) \/ AttachRefused(d) PROVE StreamInv(c)'
    <2>1. CASE Leave(d, "gone")
      BY <1>21, <2>1
    <2>2. CASE ~Leave(d, "gone")
      BY <1>23, <2>2, StreamSame DEF Quit, AttachRefused
    <2> QED
      BY <2>1, <2>2
  <1>24. ASSUME NEW k \in Conns, Cut(k) PROVE StreamInv(c)'
    <2>1. /\ UNCHANGED <<total, fin, phase, replay, framed, cursor, rendered, connOf>>
          /\ link' = [link EXCEPT ![k] = "cut"]
          /\ wire' = [wire EXCEPT ![k] = <<>>]
      BY <1>24 DEF Cut
    <2>2. CASE connOf[c] = k
      <3>1. connOf[c] # NoConn /\ wire'[connOf[c]] = <<>> /\ link'[connOf[c]] # "up"
        BY <1>0, <2>1, <2>2 DEF NetType
      <3> QED
        BY <2>1, <3>1, StreamCut
    <2>3. CASE connOf[c] # k
      <3>1. connOf[c] # NoConn => /\ connOf[c] \in Conns
                                  /\ wire'[connOf[c]] = wire[connOf[c]]
                                  /\ link'[connOf[c]] = link[connOf[c]]
        BY <1>0, <2>1, <2>3 DEF NetType, ClientType
      <3> QED
        BY <2>1, <3>1, StreamSame
    <2> QED
      BY <2>2, <2>3
  <1> QED
    BY <1>2, <1>4, <1>6, <1>7, <1>8, <1>9, <1>10, <1>11, <1>13, <1>14, <1>15, <1>16, <1>17,
       <1>18, <1>19, <1>20, <1>22, <1>23, <1>24
    DEF Next, SessionStep, SessionInput, ClientStep
-----------------------------------------------------------------------------
(* The theorems *)

\* The invariant holds when NewSession has been dispatched.
LEMMA InitInv == Init => IInv
  <1> SUFFICES ASSUME Init PROVE IInv
    OBVIOUS
  <1>1. TypeOK
    BY InitType
  <1>2. RingInv
    BY DEF Init, RingInv
  <1>3. QueueInv
    BY DEF Init, QueueInv
  <1>4. ConnInv
    <2>1. /\ client_rx = <<[conn |-> 1, client |-> Creator, offset |-> 0, fresh |-> TRUE]>>
          /\ nconns = 1
      BY DEF Init
    <2>2. \A i \in DOMAIN client_rx : client_rx[i].offset = 0
      BY <2>1
    <2>3. \A c \in Clients : /\ client[c] = IF c = Creator THEN "live" ELSE "new"
                             /\ connOf[c] = IF c = Creator THEN 1 ELSE 0
                             /\ rendered[c] = 0
      BY DEF Init
    <2> SUFFICES ASSUME NEW c \in Clients
                 PROVE  /\ client[c] = "live" <=> connOf[c] # NoConn
                        /\ connOf[c] <= nconns
                        /\ \A d \in Clients : connOf[c] = connOf[d] /\ connOf[c] # NoConn => c = d
                        /\ \A i \in DOMAIN client_rx :
                              connOf[c] = client_rx[i].conn => client_rx[i].offset = rendered[c]
      BY DEF ConnInv
    <2>4. client[c] = "live" <=> connOf[c] # NoConn
      BY <2>3
    <2>5. connOf[c] <= nconns
      BY <2>1, <2>3
    <2>6. \A d \in Clients : connOf[c] = connOf[d] /\ connOf[c] # NoConn => c = d
      BY <2>3
    <2> QED
      BY <2>2, <2>3, <2>4, <2>5, <2>6
  <1>5. ReplayInv
    BY DEF Init, ReplayInv
  <1>6. ASSUME NEW c \in Clients PROVE StreamInv(c)
    <2>1. wire[connOf[c]] = <<>> \/ connOf[c] = NoConn
      BY DEF Init
    <2>2. cursor[c] = 0 /\ rendered[c] = 0 /\ total + fin = 0 /\ ~Serves(c)
      BY DEF Init, Serves
    <2>3. Chained(0, <<>>) /\ Within(<<>>, 0) /\ Ordered(0, <<>>, 0)
      BY DEF Chained, Within, Ordered
    <2> QED
      BY <2>1, <2>2, <2>3 DEF StreamInv
  <1> QED
    BY <1>1, <1>2, <1>3, <1>4, <1>5, <1>6 DEF IInv

\* The invariant holds of every behaviour: each step of the session task, the
\* daemon, a client or the network preserves its parts.
THEOREM Invariance == Spec => []IInv
  <1>1. IInv /\ [Next]_vars => IInv'
    BY TypeStep, RingStep, QueueStep, ConnStep, ReplayStep, StreamStep DEF IInv
  <1> QED
    BY <1>1, InitInv, PTL DEF Spec

\* The state of the session, its clients and the links keeps its type.
THEOREM TypeCorrect == Spec => []TypeOK
  <1>1. IInv => TypeOK
    BY DEF IInv
  <1> QED
    BY <1>1, Invariance, PTL

\* For every ring size, chunking and number of clients and connections, and
\* however links fail: a client about to render Data has counted exactly the
\* bytes before it (rendered_offset of client.rs is a position in the stream).
THEOREM CountCorrect == Spec => []CountIsPosition
  <1>1. IInv => CountIsPosition
    <2> SUFFICES ASSUME IInv, NEW c \in Clients,
                        Receives(c), Head(wire[connOf[c]]).kind = "Data"
                 PROVE  rendered[c] = Head(wire[connOf[c]]).lo
      BY DEF CountIsPosition
    <2> QED
      BY HeadFits DEF Fits
  <1> QED
    BY <1>1, Invariance, PTL

\* No offset a client reports is beyond the session's stream: the Fresh arm of
\* plan_replay for a nonsense offset is dead for reconnecting clients.
THEOREM OffsetsAreSane == Spec => []NeverAhead
  <1>1. IInv => NeverAhead
    <2> SUFFICES ASSUME IInv, phase # "ended", NEW c \in Clients PROVE rendered[c] <= total
      BY DEF NeverAhead
    <2>1. fin = 0
      BY DEF IInv, RingInv
    <2> QED
      BY <2>1, StreamTypes
  <1> QED
    BY <1>1, Invariance, PTL

\* While the task serves a client, the flag the daemon and the linger reaper go
\* by says attached, whatever Attach, takeover or failure comes in between.
THEOREM ServedMarked == Spec => []ServedIsAttached
  <1> USE DEF histVars, taskVars, serverVars, sharedVars, clientVars, netVars, readVars
  <1>1. Init => ServedIsAttached
    BY DEF Init, ServedIsAttached
  <1>2. ServedIsAttached /\ [Next]_vars => ServedIsAttached'
    <2> SUFFICES ASSUME ServedIsAttached, [Next]_vars PROVE ServedIsAttached'
      OBVIOUS
    <2> USE DEF ServedIsAttached
    <2>1. CASE UNCHANGED vars
      BY <2>1 DEF vars
    <2>2. CASE SessionStep
      BY <2>2 DEF SessionStep, FirstClient, TakeClient, Takeover, SendResume, SendMarker,
         SendChunk, ReplayDone, ClientGone, MarkDetached, BeginReplay
    <2>3. CASE Takeover(FALSE) \/ ReplayFails \/ IdleEvict
      BY <2>3 DEF Takeover, ReplayFails, IdleEvict, MarkDetached, BeginReplay
    <2>4. CASE \E n \in Chunks, screen \in BOOLEAN :
                  RedrawOutput(n, screen) \/ PtyOutput(n, screen)
                  \/ PtyOutputUnsent(n, screen) \/ DetachedOutput(n, screen)
      BY <2>4 DEF RedrawOutput, PtyOutput, PtyOutputUnsent, DetachedOutput, MarkDetached
    <2>5. CASE (\E n \in Chunks \cup {0} : ShellExit(n)) \/ EndUnattended \/ ShutdownAttached
      BY <2>5 DEF ShellExit, EndUnattended, ShutdownAttached, EndTask
    <2>6. ASSUME NEW c \in Clients,
                 ClientStep(c) \/ (\E force, acked \in BOOLEAN : Attach(c, force, acked))
                \/ LinkSilent(c) \/ Quit(c)
          PROVE  ServedIsAttached'
      BY <2>6 DEF ClientStep, RecvFrame, RecvGoodbye, RecvEof, LinkStale, LinkSilent, Leave, Attach,
         AttachRefused, Quit
    <2>7. ASSUME NEW k \in Conns, Cut(k) PROVE ServedIsAttached'
      BY <2>7 DEF Cut
    <2> QED
      BY <2>1, <2>2, <2>3, <2>4, <2>5, <2>6, <2>7 DEF Next, SessionInput
  <1> QED
    BY <1>1, <1>2, PTL DEF Spec

\* If no two clients run on one device, the owner check of dispatch_control
\* rejects every reconnect of a client that somebody took over from.
THEOREM StaleClaims ==
  ASSUME \A c, d \in Clients : Device[c] = Device[d] => c = d
  PROVE  Spec => StaleClaimRejected
  <1> DEFINE OwnerInv == holder \in Clients /\ owner = Device[holder]
  <1> USE DEF histVars, taskVars, serverVars, sharedVars, clientVars, netVars, readVars
  <1>1. Init => OwnerInv
    BY DEF Init
  <1>2. OwnerInv /\ [Next]_vars => OwnerInv' /\ (holder' # holder => client[holder'] = "new")
    <2> SUFFICES ASSUME OwnerInv, [Next]_vars
                 PROVE  OwnerInv' /\ (holder' # holder => client[holder'] = "new")
      OBVIOUS
    <2>1. ASSUME NEW c \in Clients, NEW force \in BOOLEAN, NEW acked \in BOOLEAN,
                 Attach(c, force, acked)
          PROVE  OwnerInv' /\ (holder' # holder => client[holder'] = "new")
      BY <2>1 DEF Attach, MayAttach
    <2>2. CASE UNCHANGED <<owner, holder>>
      BY <2>2
    <2>3. CASE UNCHANGED vars
      BY <2>2, <2>3 DEF vars
    <2>4. CASE SessionStep
      BY <2>2, <2>4 DEF SessionStep, FirstClient, TakeClient, Takeover, SendResume, SendMarker,
         SendChunk, ReplayDone, ClientGone, MarkDetached, BeginReplay
    <2>5. CASE Takeover(FALSE) \/ ReplayFails \/ IdleEvict
      BY <2>2, <2>5 DEF Takeover, ReplayFails, IdleEvict, MarkDetached, BeginReplay
    <2>6. CASE \E n \in Chunks, screen \in BOOLEAN :
                  RedrawOutput(n, screen) \/ PtyOutput(n, screen)
                  \/ PtyOutputUnsent(n, screen) \/ DetachedOutput(n, screen)
      BY <2>2, <2>6 DEF RedrawOutput, PtyOutput, PtyOutputUnsent, DetachedOutput, MarkDetached
    <2>7. CASE (\E n \in Chunks \cup {0} : ShellExit(n)) \/ EndUnattended \/ ShutdownAttached
      BY <2>2, <2>7 DEF ShellExit, EndUnattended, ShutdownAttached, EndTask
    <2>8. ASSUME NEW c \in Clients,
                 ClientStep(c) \/ (\E force, acked \in BOOLEAN : Attach(c, force, acked))
                \/ LinkSilent(c) \/ Quit(c)
          PROVE  OwnerInv' /\ (holder' # holder => client[holder'] = "new")
      <3>1. CASE \E force, acked \in BOOLEAN : Attach(c, force, acked)
        BY <2>1, <3>1
      <3>2. CASE ~(\E force, acked \in BOOLEAN : Attach(c, force, acked))
        BY <2>2, <2>8, <3>2 DEF ClientStep, RecvFrame, RecvGoodbye, RecvEof, LinkStale, LinkSilent, Leave,
           AttachRefused, Quit
      <3> QED
        BY <3>1, <3>2
    <2>9. ASSUME NEW k \in Conns, Cut(k)
          PROVE  OwnerInv' /\ (holder' # holder => client[holder'] = "new")
      BY <2>2, <2>9 DEF Cut
    <2> QED
      BY <2>3, <2>4, <2>5, <2>6, <2>7, <2>8, <2>9 DEF Next, SessionInput
  <1> HIDE DEF OwnerInv
  <1>3. OwnerInv /\ [Next]_vars => [holder' # holder => client[holder'] = "new"]_vars
    BY <1>2
  <1> QED
    BY <1>1, <1>2, <1>3, PTL DEF Spec, StaleClaimRejected

\* Every step of the session and its clients, under the mapping log <- total +
\* fin, is a step of the append-only log or leaves it alone: PTY output is a
\* Produce, a received frame with bytes is a Show, and replays, takeovers,
\* reconnects and failures are invisible.
LEMMA LogStep == IInv /\ [Next]_vars => [Log!Next]_(Log!logVars)
  <1> SUFFICES ASSUME IInv, [Next]_vars PROVE [Log!Next]_(Log!logVars)
    OBVIOUS
  <1> USE DEF histVars, taskVars, serverVars, sharedVars, clientVars, netVars, readVars
  <1>0. total \in Nat /\ fin \in Nat /\ total + fin \in Nat
    BY DEF IInv, TypeOK, HistType, TaskType
  <1>1. ASSUME UNCHANGED <<total, fin, cursor, lost>> PROVE [Log!Next]_(Log!logVars)
    BY <1>1 DEF Log!logVars
  <1>2. ASSUME UNCHANGED <<cursor, lost>>, NEW n \in Nat \ {0}, total' + fin' = total + fin + n
        PROVE  [Log!Next]_(Log!logVars)
    <2>1. total' + fin' \in Nat /\ total' + fin' > total + fin
      BY <1>0, <1>2
    <2>2. Log!Produce
      BY <1>2, <2>1 DEF Log!Produce
    <2> QED
      BY <2>2 DEF Log!Next
  <1>3. ASSUME NEW n \in Chunks, Push(n), UNCHANGED <<fin, cursor, lost>>
        PROVE  [Log!Next]_(Log!logVars)
    <2>1. n \in Nat \ {0} /\ total' = total + n
      BY <1>3 DEF Push
    <2>2. total' + fin' = total + fin + n
      BY <1>0, <1>3, <2>1
    <2> QED
      BY <1>2, <1>3, <2>1, <2>2
  <1>4. CASE UNCHANGED vars
    BY <1>1, <1>4 DEF vars
  <1>5. CASE SessionStep
    BY <1>1, <1>5 DEF SessionStep, FirstClient, TakeClient, Takeover, SendResume, SendMarker,
       SendChunk, ReplayDone, ClientGone, MarkDetached, BeginReplay
  <1>6. CASE Takeover(FALSE) \/ ReplayFails \/ IdleEvict
    BY <1>1, <1>6 DEF Takeover, ReplayFails, IdleEvict, MarkDetached, BeginReplay
  <1>7. CASE \E n \in Chunks, screen \in BOOLEAN :
                RedrawOutput(n, screen) \/ PtyOutput(n, screen)
                \/ PtyOutputUnsent(n, screen) \/ DetachedOutput(n, screen)
    BY <1>3, <1>7 DEF RedrawOutput, PtyOutput, PtyOutputUnsent, DetachedOutput, MarkDetached
  <1>8. ASSUME NEW n \in Chunks \cup {0}, ShellExit(n) PROVE [Log!Next]_(Log!logVars)
    <2>1. /\ phase = "attached" /\ fin' = n /\ total' = total /\ UNCHANGED <<cursor, lost>>
      BY <1>8 DEF ShellExit, EndTask
    <2>2. fin = 0 /\ n \in Nat
      BY <2>1 DEF IInv, RingInv
    <2>3. total' + fin' = total + fin + n
      BY <1>0, <2>1, <2>2
    <2>4. CASE n = 0
      BY <1>1, <2>1, <2>2, <2>4
    <2>5. CASE n # 0
      BY <1>2, <2>1, <2>2, <2>3, <2>5
    <2> QED
      BY <2>4, <2>5
  <1>9. CASE EndUnattended \/ ShutdownAttached
    BY <1>1, <1>9 DEF EndUnattended, ShutdownAttached, EndTask
  <1>10. ASSUME NEW c \in Clients, RecvFrame(c) PROVE [Log!Next]_(Log!logVars)
    <2> DEFINE w == wire[connOf[c]]
               f == Head(w)
               u == IF Serves(c) THEN Upcoming ELSE total + fin
    <2>1. connOf[c] # NoConn /\ w # <<>> /\ UNCHANGED <<total, fin>> /\ Reads(c, f)
      BY <1>10 DEF RecvFrame, Receives
    <2>2. f.lo \in Nat /\ f.hi \in Nat /\ f.at \in Nat /\ Fits(rendered[c], f)
      BY <1>10, HeadFits DEF RecvFrame
    <2>3. cursor[c] \in Nat /\ w \in Seq(FrameType)
      BY <2>1, StreamTypes
    <2>4. Ordered(cursor[c], w, u) /\ Within(w, total + fin)
      BY <2>1 DEF IInv, StreamInv
    <2>5. u \in Nat
      <3>1. CASE Serves(c)
        BY <2>1, <3>1, UpcomingBound
      <3>2. CASE ~Serves(c)
        BY <1>0, <3>2
      <3> QED
        BY <3>1, <3>2
    <2>6. f.lo < f.hi => cursor[c] <= f.lo
      <3> HIDE DEF u
      <3> QED
        BY <2>1, <2>3, <2>4, <2>5, OrderedTail
    <2>7. f.at <= total + fin
      BY <1>0, <2>1, <2>3, <2>4, WithinTail
    <2>8. f.hi <= total + fin
      BY <1>0, <2>2, <2>7 DEF Fits
    <2> HIDE DEF f, w
    <2>9. CASE f.lo < f.hi
      <3>1. f.lo \in cursor[c]..(total + fin) /\ f.hi \in (f.lo + 1)..(total + fin)
        BY <1>0, <2>2, <2>3, <2>6, <2>8, <2>9
      <3>2. /\ cursor' = [cursor EXCEPT ![c] = f.hi]
            /\ lost' = [lost EXCEPT ![c] = @ \cup cursor[c]..(f.lo - 1)]
        BY <2>1, <2>9 DEF Reads
      <3>3. Log!Show(c)
        BY <2>1, <3>1, <3>2 DEF Log!Show
      <3> QED
        BY <3>3 DEF Log!Next
    <2>10. CASE ~(f.lo < f.hi)
      BY <1>1, <2>1, <2>10 DEF Reads
    <2> QED
      BY <2>9, <2>10
  <1>11. ASSUME NEW c \in Clients,
                RecvGoodbye(c) \/ RecvEof(c) \/ LinkStale(c) \/ LinkSilent(c) \/ Quit(c) \/ AttachRefused(c)
         PROVE  [Log!Next]_(Log!logVars)
    BY <1>1, <1>11 DEF RecvGoodbye, RecvEof, LinkStale, LinkSilent, Leave, Quit, AttachRefused
  <1>12. ASSUME NEW c \in Clients, NEW force \in BOOLEAN, NEW acked \in BOOLEAN,
                Attach(c, force, acked)
         PROVE  [Log!Next]_(Log!logVars)
    BY <1>1, <1>12 DEF Attach
  <1>13. ASSUME NEW k \in Conns, Cut(k) PROVE [Log!Next]_(Log!logVars)
    BY <1>1, <1>13 DEF Cut
  <1> QED
    BY <1>4, <1>5, <1>6, <1>7, <1>8, <1>9, <1>10, <1>11, <1>12, <1>13
    DEF Next, SessionInput, ClientStep

\* The session and its clients implement the append-only log: no client is
\* ever shown a byte twice, out of order or before the shell wrote it.
THEOREM Refinement == Spec => ImplementsOutputLog
  <1>1. Init => Log!Init
    BY DEF Init, Log!Init
  <1> QED
    BY <1>1, LogStep, Invariance, PTL DEF Spec, Log!Spec, ImplementsOutputLog

-----------------------------------------------------------------------------
(* What the frames in flight carry *)

\* A frame more carries what was carried, and its own bytes.
LEMMA CarriedAppend ==
  ASSUME NEW w \in Seq(FrameType), NEW f \in FrameType, NEW p \in Nat
  PROVE  /\ \A k \in 1..(Len(w) + 1) : CarriedBefore(w, p, k) => CarriedBefore(Append(w, f), p, k)
         /\ f.lo <= p /\ p < f.hi => CarriedBefore(Append(w, f), p, Len(w) + 2)
         /\ \A k \in 1..(Len(w) + 1) : CarriedBefore(w, p, k) => CarriedBefore(w, p, k + 1)
  <1> DEFINE v == Append(w, f)
  <1>1. /\ Len(v) = Len(w) + 1 /\ DOMAIN v = 1..(Len(w) + 1) /\ DOMAIN w = 1..Len(w)
        /\ \A i \in 1..Len(w) : v[i] = w[i]
        /\ v[Len(w) + 1] = f
        /\ Len(w) \in Nat
    OBVIOUS
  <1> HIDE DEF v
  <1>2. \A k \in 1..(Len(w) + 1) : CarriedBefore(w, p, k) => CarriedBefore(v, p, k)
    BY <1>1 DEF CarriedBefore
  <1>3. f.lo <= p /\ p < f.hi => CarriedBefore(v, p, Len(w) + 2)
    BY <1>1 DEF CarriedBefore
  <1>4. \A k \in 1..(Len(w) + 1) : CarriedBefore(w, p, k) => CarriedBefore(w, p, k + 1)
    BY <1>1 DEF CarriedBefore
  <1> QED
    BY <1>2, <1>3, <1>4 DEF v

\* A frame that starts where the carried bytes end, or carries none, leaves no gap.
LEMMA GaplessAppend ==
  ASSUME NEW w \in Seq(FrameType), NEW f \in FrameType, NEW q \in Nat, NEW u \in Nat,
         Gapless(q, w), f.lo < f.hi => Covers(q, w, u) /\ f.lo <= u
  PROVE  Gapless(q, Append(w, f))
  <1> DEFINE v == Append(w, f)
  <1>1. /\ DOMAIN v = 1..(Len(w) + 1) /\ DOMAIN w = 1..Len(w) /\ Len(w) \in Nat
        /\ \A i \in 1..Len(w) : v[i] = w[i]
        /\ v[Len(w) + 1] = f
    OBVIOUS
  <1>2. SUFFICES ASSUME NEW i \in DOMAIN v, v[i].lo < v[i].hi, NEW p \in q..(v[i].lo - 1)
                 PROVE  CarriedBefore(v, p, i)
    BY DEF Gapless
  <1>3. p \in Nat
    BY <1>1, FrameFields
  <1>4. CASE i \in 1..Len(w)
    <2>1. CarriedBefore(w, p, i)
      BY <1>1, <1>2, <1>4 DEF Gapless
    <2> QED
      BY <1>1, <1>3, <1>4, <2>1, CarriedAppend
  <1>5. CASE i = Len(w) + 1
    <2>1. p \in q..(f.lo - 1) /\ f.lo \in Nat /\ f.lo < f.hi
      BY <1>1, <1>2, <1>5, FrameFields
    <2>2. p \in q..(u - 1)
      BY <1>3, <2>1
    <2>3. CarriedBefore(w, p, Len(w) + 1)
      BY <2>1, <2>2 DEF Covers
    <2> QED
      BY <1>1, <1>3, <1>5, <2>3, CarriedAppend
  <1> QED
    BY <1>1, <1>4, <1>5

\* It brings the end of the carried bytes to its own.
LEMMA CoversAppend ==
  ASSUME NEW w \in Seq(FrameType), NEW f \in FrameType,
         NEW q \in Nat, NEW u \in Nat, NEW u2 \in Nat,
         Covers(q, w, u), u2 <= u \/ (f.lo <= u /\ u2 <= f.hi)
  PROVE  Covers(q, Append(w, f), u2)
  <1>1. Len(w) \in Nat /\ Len(Append(w, f)) = Len(w) + 1 /\ f.lo \in Nat /\ f.hi \in Nat
    BY FrameFields
  <1>2. SUFFICES ASSUME NEW p \in q..(u2 - 1)
                 PROVE  CarriedBefore(Append(w, f), p, Len(w) + 2)
    BY <1>1 DEF Covers
  <1>3. p \in Nat
    OBVIOUS
  <1>4. CASE p < u
    <2>1. CarriedBefore(w, p, Len(w) + 1)
      BY <1>4 DEF Covers
    <2>2. CarriedBefore(w, p, Len(w) + 2) /\ CarriedBefore(Append(w, f), p, Len(w) + 1)
      BY <1>1, <1>3, <2>1, CarriedAppend
    <2>3. PICK i \in DOMAIN Append(w, f) :
             i < Len(w) + 1 /\ Append(w, f)[i].lo <= p /\ p < Append(w, f)[i].hi
      BY <2>2 DEF CarriedBefore
    <2>4. i < Len(w) + 2
      BY <1>1, <2>3
    <2> QED
      BY <2>3, <2>4 DEF CarriedBefore
  <1>5. CASE ~(p < u)
    <2>1. f.lo <= p /\ p < f.hi
      BY <1>1, <1>3, <1>5
    <2> QED
      BY <1>3, <2>1, CarriedAppend
  <1> QED
    BY <1>4, <1>5

\* The bytes wanted after the frame f was read from q on.
After(q, f) == IF f.lo < f.hi THEN f.hi ELSE q

\* Reading the first frame: it leaves no gap behind it, nor do the others.
LEMMA GaplessTail ==
  ASSUME NEW w \in Seq(FrameType), w # <<>>, NEW q \in Nat, NEW u \in Nat,
         Ordered(q, w, u), Gapless(q, w)
  PROVE  /\ w[1].lo < w[1].hi => w[1].lo <= q /\ q <= w[1].hi
         /\ \A p, k \in Nat : p >= After(q, w[1]) /\ CarriedBefore(w, p, k + 1)
                                 => CarriedBefore(Tail(w), p, k)
         /\ Gapless(After(q, w[1]), Tail(w))
         /\ Covers(q, w, u) => Covers(After(q, w[1]), Tail(w), u)
  <1> DEFINE v == Tail(w)
             f == w[1]
             r == After(q, f)
  <1>1. /\ DOMAIN w = 1..Len(w) /\ Len(w) \in Nat \ {0} /\ 1 \in DOMAIN w
        /\ Len(v) = Len(w) - 1 /\ DOMAIN v = 1..(Len(w) - 1)
        /\ \A i \in 1..(Len(w) - 1) : v[i] = w[i + 1]
        /\ f \in FrameType
    OBVIOUS
  <1>2. \A i \in DOMAIN w : w[i].lo \in Nat /\ w[i].hi \in Nat
    BY SeqFrame
  <1> HIDE DEF v, f
  <1>3. f.lo \in Nat /\ f.hi \in Nat /\ f = w[1]
    BY <1>1, <1>2 DEF f
  <1>4. f.lo < f.hi => f.lo <= q /\ q <= f.hi
    <2>1. SUFFICES ASSUME f.lo < f.hi PROVE f.lo <= q /\ q <= f.hi
      OBVIOUS
    <2>2. q <= f.lo
      BY <1>1, <1>3, <2>1 DEF Ordered
    <2>3. ASSUME q < f.lo PROVE FALSE
      <3>1. q \in q..(f.lo - 1)
        BY <1>3, <2>3
      <3>2. CarriedBefore(w, q, 1)
        BY <1>1, <1>3, <2>1, <3>1 DEF Gapless
      <3> QED
        BY <1>1, <3>2 DEF CarriedBefore
    <2> QED
      BY <1>3, <2>1, <2>2, <2>3
  <1>5. r \in Nat /\ q <= r /\ (f.lo < f.hi => r = f.hi)
    BY <1>3, <1>4 DEF After
  <1> HIDE DEF r
  <1>6. ASSUME NEW p \in Nat, NEW k \in Nat, p >= r, CarriedBefore(w, p, k + 1)
        PROVE  CarriedBefore(v, p, k)
    <2>1. PICK i \in DOMAIN w : i < k + 1 /\ w[i].lo <= p /\ p < w[i].hi
      BY <1>6 DEF CarriedBefore
    <2>2. i # 1
      BY <1>2, <1>3, <1>5, <1>6, <2>1
    <2>3. i - 1 \in DOMAIN v /\ v[i - 1] = w[i] /\ i - 1 < k
      BY <1>1, <2>1, <2>2
    <2> QED
      BY <2>1, <2>3 DEF CarriedBefore
  <1>7. Gapless(r, v)
    <2>1. SUFFICES ASSUME NEW i \in DOMAIN v, v[i].lo < v[i].hi, NEW p \in r..(v[i].lo - 1)
                   PROVE  CarriedBefore(v, p, i)
      BY DEF Gapless
    <2>2. i + 1 \in DOMAIN w /\ v[i] = w[i + 1] /\ i \in Nat
      BY <1>1
    <2>3. w[i + 1].lo \in Nat
      BY <1>2, <2>2
    <2>4. p \in Nat /\ p >= r /\ p \in q..(w[i + 1].lo - 1)
      BY <1>5, <2>1, <2>2, <2>3
    <2>5. CarriedBefore(w, p, i + 1)
      BY <2>1, <2>2, <2>4 DEF Gapless
    <2> QED
      BY <1>6, <2>2, <2>4, <2>5
  <1>8. ASSUME Covers(q, w, u) PROVE Covers(r, v, u)
    <2>1. SUFFICES ASSUME NEW p \in r..(u - 1) PROVE CarriedBefore(v, p, Len(v) + 1)
      BY DEF Covers
    <2>2. p \in Nat /\ p >= r /\ p \in q..(u - 1)
      BY <1>5
    <2>3. CarriedBefore(w, p, Len(w) + 1)
      BY <1>8, <2>2 DEF Covers
    <2>4. Len(w) \in Nat /\ Len(v) + 1 = Len(w)
      BY <1>1
    <2> QED
      BY <1>6, <2>2, <2>3, <2>4
  <1> QED
    BY <1>4, <1>6, <1>7, <1>8 DEF v, f, r

-----------------------------------------------------------------------------
(* What one client misses *)

\* Client c's connection waits to be taken.
Queued(c) == \E i \in DOMAIN client_rx : client_rx[i].conn = connOf[c]

\* A step that does not touch client c's side of things.
LEMMA UnbrokenSame ==
  ASSUME NEW c \in Clients, Unbroken(c),
         cursor'[c] = cursor[c], rendered'[c] = rendered[c],
         connOf'[c] = connOf[c], lost'[c] = lost[c],
         connOf[c] # NoConn => wire'[connOf[c]] = wire[connOf[c]],
         Queued(c)' => Queued(c),
         connOf[c] # NoConn /\ Serves(c)' =>
            /\ Serves(c) /\ Upcoming' = Upcoming /\ (AtResume' => AtResume)
            /\ link'[framed'] = "up" => link[framed] = "up"
  PROVE  Unbroken(c)'
  <1>1. CASE connOf[c] = NoConn
    BY <1>1 DEF Unbroken
  <1>2. CASE connOf[c] # NoConn
    <2>1. wire'[connOf'[c]] = wire[connOf[c]]
      BY <1>2
    <2>2. Queued(c)' => cursor'[c] = rendered'[c]
      BY <1>2 DEF Unbroken, Queued
    <2>3. /\ Serves(c)' /\ AtResume' => cursor'[c] = rendered'[c]
          /\ Serves(c)' /\ link'[framed'] = "up" =>
                Covers(cursor'[c], wire'[connOf'[c]], Upcoming')
      BY <1>2, <2>1 DEF Unbroken
    <2>4. lost'[c] = {} /\ Gapless(cursor'[c], wire'[connOf'[c]])
      BY <1>2, <2>1 DEF Unbroken
    <2> QED
      BY <1>2, <2>2, <2>3, <2>4 DEF Unbroken, Queued
  <1> QED
    BY <1>1, <1>2

\* What Unbroken comes to when client c has a connection that does not wait.
LEMMA UnbrokenIf ==
  ASSUME NEW c \in Clients, connOf'[c] # NoConn, ~Queued(c)', lost'[c] = {},
         Gapless(cursor'[c], wire'[connOf'[c]]),
         Serves(c)' => ~AtResume',
         Serves(c)' /\ link'[framed'] = "up" => Covers(cursor'[c], wire'[connOf'[c]], Upcoming')
  PROVE  Unbroken(c)'
  BY DEF Unbroken, Queued

\* A connection that is served does not wait.
LEMMA ServedNotQueued ==
  ASSUME IInv, NEW c \in Clients, connOf[c] = framed
  PROVE  ~Queued(c)
  <1>1. framed \in Nat /\ client_rx \in Seq(HandoffType)
    BY DEF IInv, TypeOK, TaskType, SharedType
  <1>2. \A i \in DOMAIN client_rx : client_rx[i].conn \in Nat /\ framed < client_rx[i].conn
    <2>1. \A i \in DOMAIN client_rx : client_rx[i] \in HandoffType
      BY <1>1
    <2> QED
      BY <2>1 DEF IInv, QueueInv, HandoffType
  <1> QED
    BY <1>1, <1>2 DEF Queued

\* The task sends a frame to client c, and may stop serving it.
LEMMA UnbrokenSent ==
  ASSUME IInv, NEW c \in Clients, Unbroken(c), connOf[c] = framed,
         phase \in {"attached", "replay"},
         UNCHANGED <<cursor, rendered, connOf, lost>>,
         Queued(c)' => Queued(c),
         NEW f \in FrameType, Send(framed, f),
         f.lo < f.hi => f.lo <= Upcoming,
         Serves(c)' => /\ framed' = framed /\ link' = link /\ ~AtResume' /\ Upcoming' \in Nat
                       /\ Upcoming' <= Upcoming \/ (f.lo <= Upcoming /\ Upcoming' <= f.hi)
  PROVE  Unbroken(c)'
  <1> DEFINE w == wire[framed]
             v == wire'[framed]
  <1>1. /\ connOf[c] # NoConn /\ framed \in Conns /\ Serves(c)
        /\ cursor[c] \in Nat /\ w \in Seq(FrameType) /\ Upcoming \in Nat
    BY ServedFacts
  <1>2. ~Queued(c)'
    BY ServedNotQueued
  <1>3. /\ lost[c] = {} /\ Gapless(cursor[c], w)
        /\ link[framed] = "up" => Covers(cursor[c], w, Upcoming)
    BY <1>1 DEF Unbroken
  <1>4. v = IF link[framed] = "up" THEN Append(w, f) ELSE w
    BY <1>1, SendServed DEF IInv, TypeOK
  <1>5. wire'[connOf'[c]] = v
    OBVIOUS
  <1> HIDE DEF w, v
  <1>6. CASE link[framed] = "up"
    <2>1. v = Append(w, f) /\ Covers(cursor[c], w, Upcoming)
      BY <1>3, <1>4, <1>6
    <2>2. Gapless(cursor[c], Append(w, f))
      BY <1>1, <1>3, <2>1, GaplessAppend
    <2>3. Serves(c)' => Covers(cursor[c], Append(w, f), Upcoming')
      BY <1>1, <2>1, CoversAppend
    <2> QED
      BY <1>1, <1>2, <1>3, <1>5, <2>1, <2>2, <2>3, UnbrokenIf
  <1>7. CASE link[framed] # "up"
    BY <1>1, <1>2, <1>3, <1>4, <1>5, <1>7, UnbrokenIf
  <1> QED
    BY <1>6, <1>7

\* The task takes client c's connection from the queue.
LEMMA UnbrokenBegin ==
  ASSUME IInv, NEW c \in Clients, Unbroken(c), Queued(c), connOf[c] # NoConn,
         cursor'[c] = cursor[c], rendered'[c] = rendered[c],
         connOf'[c] = connOf[c], lost'[c] = lost[c],
         wire'[connOf[c]] = <<>>,
         Upcoming' \in Nat, Upcoming' <= rendered[c]
  PROVE  Unbroken(c)'
  <1>1. cursor[c] = rendered[c] /\ lost[c] = {}
    BY DEF Unbroken, Queued
  <1>2. rendered[c] \in Nat
    BY StreamTypes
  <1>3. Gapless(cursor[c], <<>>) /\ Covers(cursor[c], <<>>, Upcoming')
    <2>1. Gapless(cursor[c], <<>>)
      BY DEF Gapless
    <2>2. cursor[c]..(Upcoming' - 1) = {}
      BY <1>1, <1>2
    <2> QED
      BY <2>1, <2>2 DEF Covers
  <1> QED
    BY <1>1, <1>3 DEF Unbroken

\* Client c reads the first frame in flight: nothing lies between what it had
\* and that frame.
LEMMA UnbrokenRecv ==
  ASSUME IInv, NEW c \in Clients, Unbroken(c), RecvFrame(c)
  PROVE  Unbroken(c)'
  <1> DEFINE w == wire[connOf[c]]
             u == IF Serves(c) THEN Upcoming ELSE total + fin
  <1>1. /\ connOf[c] # NoConn /\ connOf[c] \in Conns /\ w # <<>>
        /\ UNCHANGED <<total, fin, phase, replay, framed, connOf, link, client_rx>>
        /\ wire'[connOf[c]] = Tail(w)
        /\ Reads(c, Head(w))
    BY DEF RecvFrame, Receives, IInv, TypeOK, ClientType, NetType, serverVars, histVars, taskVars,
         sharedVars
  <1>2. /\ cursor[c] \in Nat /\ total \in Nat /\ fin \in Nat /\ w \in Seq(FrameType)
    BY <1>1, StreamTypes
  <1>3. u \in Nat /\ Ordered(cursor[c], w, u)
    <2>1. Serves(c) => Upcoming \in Nat
      BY <1>1, UpcomingBound
    <2>2. total + fin \in Nat
      BY <1>2
    <2> QED
      BY <1>1, <2>1, <2>2 DEF IInv, StreamInv
  <1>4. /\ lost[c] = {} /\ Gapless(cursor[c], w)
        /\ Serves(c) /\ link[framed] = "up" => Covers(cursor[c], w, Upcoming)
    BY <1>1 DEF Unbroken
  <1>5. Upcoming' = Upcoming /\ Serves(c)' = Serves(c) /\ wire'[connOf'[c]] = Tail(w)
        /\ connOf'[c] = connOf[c]
    BY <1>1 DEF Upcoming, Serves
  <1>6. ~Queued(c)'
    BY <1>1 DEF IInv, QueueInv, Queued
  <1>7. Serves(c)' => ~AtResume'
    BY <1>1, <1>5 DEF IInv, StreamInv, AtResume
  <1>8. Head(w) = w[1] /\ w[1].lo \in Nat /\ w[1].hi \in Nat
    <2>1. 1 \in DOMAIN w /\ Head(w) = w[1]
      BY <1>1, <1>2
    <2> QED
      BY <1>2, <2>1, SeqFrame
  <1> HIDE DEF w
  <1>9. cursor \in [Clients -> Nat] /\ lost \in [Clients -> SUBSET Nat]
    BY DEF IInv, TypeOK, ReadType
  <1>10. cursor'[c] = After(cursor[c], w[1])
    BY <1>1, <1>8, <1>9 DEF Reads, After
  <1> HIDE DEF u
  <1>11. /\ w[1].lo < w[1].hi => w[1].lo <= cursor[c] /\ cursor[c] <= w[1].hi
         /\ Gapless(After(cursor[c], w[1]), Tail(w))
         /\ Covers(cursor[c], w, u) => Covers(After(cursor[c], w[1]), Tail(w), u)
    BY <1>1, <1>2, <1>3, <1>4, GaplessTail
  <1>12. lost'[c] = {}
    <2>1. CASE w[1].lo < w[1].hi
      <3>1. lost'[c] = lost[c] \cup cursor[c]..(w[1].lo - 1)
        BY <1>1, <1>8, <1>9, <2>1 DEF Reads
      <3>2. cursor[c]..(w[1].lo - 1) = {}
        BY <1>2, <1>8, <1>11, <2>1
      <3> QED
        BY <1>4, <3>1, <3>2
    <2>2. CASE ~(w[1].lo < w[1].hi)
      BY <1>1, <1>4, <1>8, <2>2 DEF Reads
    <2> QED
      BY <2>1, <2>2
  <1>13. Serves(c)' /\ link'[framed'] = "up"
            => Covers(cursor'[c], wire'[connOf'[c]], Upcoming')
    BY <1>1, <1>4, <1>5, <1>10, <1>11 DEF u
  <1> QED
    BY <1>1, <1>5, <1>6, <1>7, <1>10, <1>11, <1>12, <1>13, UnbrokenIf

\* Client c gives its connection up: if its replays are not cut short by that,
\* it has been shown all it has counted.
LEMMA UnbrokenLeave ==
  ASSUME IInv, NEW c \in Clients, Unbroken(c), NEW st, Leave(c, st), ~interrupted'[c]
  PROVE  Unbroken(c)'
  <1>1. /\ connOf'[c] = NoConn /\ UNCHANGED <<cursor, rendered, lost>>
        /\ interrupted'[c] = (interrupted[c] \/ cursor[c] < rendered[c])
    BY DEF Leave, IInv, TypeOK, ClientType, ReadType
  <1>2. ~(cursor[c] < rendered[c])
    BY <1>1, Zenon
  <1>3. cursor[c] = rendered[c]
    BY <1>2, StreamTypes
  <1> QED
    BY <1>1, <1>3 DEF Unbroken

-----------------------------------------------------------------------------
(* Nobody misses a byte *)

\* Taking the head of the queue, or closing it, puts nobody in it.
LEMMA QueueShrinks ==
  ASSUME IInv, NEW c \in Clients, connOf'[c] = connOf[c],
         \/ client_rx' = client_rx
         \/ client_rx # <<>> /\ client_rx' = Tail(client_rx)
         \/ client_rx' = <<>>
  PROVE  Queued(c)' => Queued(c)
  <1>1. client_rx \in Seq(HandoffType)
    BY DEF IInv, TypeOK, SharedType
  <1>2. CASE client_rx # <<>> /\ client_rx' = Tail(client_rx)
    <2>1. \A i \in DOMAIN client_rx' : i + 1 \in DOMAIN client_rx /\ client_rx'[i] = client_rx[i + 1]
      BY <1>1, <1>2
    <2> QED
      BY <2>1 DEF Queued
  <1> QED
    BY <1>2 DEF Queued

\* The head of the queue is queued, and was sent nothing.
LEMMA HeadQueued ==
  ASSUME IInv, NEW c \in Clients, client_rx # <<>>, connOf[c] = Head(client_rx).conn
  PROVE  /\ Queued(c) /\ connOf[c] # NoConn /\ connOf[c] # framed /\ connOf[c] \in Conns
         /\ wire[connOf[c]] = <<>> /\ Head(client_rx).offset = rendered[c]
  <1>1. 1 \in DOMAIN client_rx /\ Head(client_rx) = client_rx[1] /\ Head(client_rx) \in HandoffType
    BY HeadTail DEF IInv, TypeOK, SharedType
  <1>2. client_rx[1].conn \in Conns /\ framed < client_rx[1].conn /\ framed \in Nat
    BY <1>1 DEF IInv, QueueInv, HandoffType, TypeOK, TaskType
  <1>3. wire[client_rx[1].conn] = <<>> /\ client_rx[1].offset = rendered[c]
    BY <1>1 DEF IInv, QueueInv, ConnInv
  <1> QED
    BY <1>1, <1>2, <1>3 DEF Queued

\* A cut stays a cut.
LEMMA InterruptedStays ==
  ASSUME TypeOK, [Next]_vars, NEW c \in Clients, ~interrupted'[c]
  PROVE  ~interrupted[c]
  <1> USE DEF histVars, taskVars, serverVars, sharedVars, clientVars, netVars, readVars
  <1>1. interrupted \in [Clients -> BOOLEAN]
    BY DEF TypeOK, ReadType
  <1>2. CASE UNCHANGED interrupted
    BY <1>2
  <1>3. CASE ReplayFails
    <2>1. interrupted' = [d \in Clients |-> interrupted[d] \/ connOf[d] = framed]
      BY <1>3 DEF ReplayFails
    <2>2. interrupted'[c] = (interrupted[c] \/ connOf[c] = framed)
      BY <2>1
    <2> QED
      BY <2>2
  <1>4. ASSUME NEW d \in Clients, NEW st, Leave(d, st) PROVE ~interrupted[c]
    <2>1. interrupted' = [interrupted EXCEPT ![d] = @ \/ cursor[d] < rendered[d]]
      BY <1>4 DEF Leave
    <2>2. interrupted'[c] = IF c = d THEN interrupted[c] \/ cursor[c] < rendered[c]
                            ELSE interrupted[c]
      BY <1>1, <2>1
    <2> QED
      BY <2>2
  <1>5. CASE SessionStep \/ (SessionInput /\ ~ReplayFails)
    BY <1>2, <1>5 DEF SessionStep, SessionInput, FirstClient, TakeClient, Takeover, SendResume,
         SendMarker, SendChunk, ReplayDone, ClientGone, IdleEvict, RedrawOutput, PtyOutput,
         PtyOutputUnsent, DetachedOutput, ShellExit, EndUnattended, ShutdownAttached, EndTask
  <1>6. ASSUME NEW d \in Clients,
               ClientStep(d) \/ (\E force, acked \in BOOLEAN : Attach(d, force, acked))
                \/ LinkSilent(d) \/ Quit(d)
        PROVE  ~interrupted[c]
    BY <1>2, <1>4, <1>6 DEF ClientStep, RecvFrame, RecvGoodbye, RecvEof, LinkStale, LinkSilent,
         Attach, AttachRefused, Quit
  <1>7. ASSUME NEW k \in Conns, Cut(k) PROVE ~interrupted[c]
    BY <1>2, <1>7 DEF Cut
  <1> QED
    BY <1>2, <1>3, <1>5, <1>6, <1>7 DEF Next, vars

\* A step of the session task.
LEMMA UnbrokenTask ==
  ASSUME IInv, NEW c \in Clients, Unbroken(c), ~interrupted'[c], SessionStep \/ SessionInput
  PROVE  Unbroken(c)'
  <1> USE DEF histVars, taskVars, serverVars, sharedVars, clientVars, netVars, readVars
  <1>0. /\ HistType /\ TaskType /\ SharedType /\ ClientType /\ NetType /\ ReadType
        /\ RingInv /\ QueueInv /\ ReplayInv
        /\ total \in Nat /\ fin \in Nat /\ connOf[c] \in Conns \cup {NoConn}
    BY DEF IInv, TypeOK, HistType, TaskType, ClientType
  <1>1. ASSUME UNCHANGED <<cursor, rendered, lost, connOf>>,
               connOf[c] # NoConn => wire'[connOf[c]] = wire[connOf[c]],
               Queued(c)' => Queued(c),
               connOf[c] = framed' => phase' \notin {"attached", "replay"}
        PROVE  Unbroken(c)'
    BY <1>1, UnbrokenSame DEF Serves
  <1>2. CASE FirstClient
    <2>1. /\ UNCHANGED <<cursor, rendered, lost, connOf, wire, total, fin>>
          /\ client_rx # <<>> /\ framed' = Head(client_rx).conn
          /\ phase' = "attached" /\ phase = "birth" /\ client_rx' = Tail(client_rx)
      BY <1>2 DEF FirstClient
    <2>2. CASE connOf[c] = framed'
      <3>1. Upcoming' = 0
        BY <1>0, <2>1 DEF Upcoming, RingInv
      <3>2. rendered[c] \in Nat
        BY StreamTypes
      <3> QED
        BY <2>1, <2>2, <3>1, <3>2, HeadQueued, UnbrokenBegin
    <2> QED
      BY <1>1, <2>1, <2>2, QueueShrinks
  <1>3. ASSUME NEW b \in BOOLEAN, BeginReplay(Head(client_rx), b), client_rx # <<>>,
               UNCHANGED <<cursor, rendered, connOf, lost>>,
               connOf[c] = Head(client_rx).conn, wire'[connOf[c]] = wire[connOf[c]]
        PROVE  Unbroken(c)'
    <2>1. /\ phase' = "replay" /\ replay'.stage = "resume"
          /\ replay'.from = Head(client_rx).offset
      BY <1>3 DEF BeginReplay, ReplayStart
    <2>2. Upcoming' = rendered[c] /\ rendered[c] \in Nat
      BY <1>3, <2>1, HeadQueued, StreamTypes DEF Upcoming
    <2> QED
      BY <1>3, <2>2, HeadQueued, UnbrokenBegin
  <1>4. CASE TakeClient
    <2>1. /\ UNCHANGED <<cursor, rendered, lost, connOf, wire>>
          /\ client_rx # <<>> /\ BeginReplay(Head(client_rx), FALSE)
          /\ framed' = Head(client_rx).conn /\ client_rx' = Tail(client_rx)
      BY <1>4 DEF TakeClient, BeginReplay, ReplayStart
    <2> QED
      BY <1>1, <1>3, <2>1, QueueShrinks
  <1>5. ASSUME NEW told \in BOOLEAN, Takeover(told) PROVE Unbroken(c)'
    <2>1. /\ UNCHANGED <<cursor, rendered, lost, connOf>>
          /\ client_rx # <<>> /\ BeginReplay(Head(client_rx), TRUE) /\ phase = "attached"
          /\ framed' = Head(client_rx).conn /\ client_rx' = Tail(client_rx)
          /\ Send(framed, Frame("Detached", 0, 0, total)) \/ UNCHANGED wire
      BY <1>5 DEF Takeover, BeginReplay, ReplayStart
    <2>2. CASE connOf[c] # framed \/ UNCHANGED wire
      <3>1. connOf[c] # NoConn => wire'[connOf[c]] = wire[connOf[c]]
        BY <1>0, <2>1, <2>2, SendOther
      <3>2. CASE connOf[c] = framed'
        BY <1>3, <2>1, <3>1, <3>2, HeadQueued
      <3> QED
        BY <1>1, <2>1, <3>1, <3>2, QueueShrinks
    <2>3. CASE connOf[c] = framed /\ Send(framed, Frame("Detached", 0, 0, total))
      <3> DEFINE f == Frame("Detached", 0, 0, total)
      <3>1. f \in FrameType /\ f.lo = 0 /\ f.hi = 0 /\ Send(framed, f)
        BY <1>0, <2>3, FrameIn DEF Frame, FrameKinds
      <3> HIDE DEF f
      <3>2. ~Serves(c)'
        BY <2>1, <2>3, HeadQueued DEF Serves
      <3>3. Queued(c)' => Queued(c)
        BY <2>1, QueueShrinks
      <3> QED
        BY <2>1, <2>3, <3>1, <3>2, <3>3, UnbrokenSent
    <2> QED
      BY <2>1, <2>2, <2>3
  \* The task sends one frame, and goes on.
  <1>6. ASSUME NEW f \in FrameType, Send(framed, f), phase \in {"attached", "replay"},
               UNCHANGED <<cursor, rendered, lost, connOf, client_rx, framed, link>>,
               connOf[c] = framed => /\ f.lo < f.hi => f.lo <= Upcoming
                                     /\ ~AtResume' /\ Upcoming' \in Nat
                                     /\ Upcoming' <= Upcoming \/ (f.lo <= Upcoming /\ Upcoming' <= f.hi),
               connOf[c] # framed => connOf[c] # framed'
        PROVE  Unbroken(c)'
    <2>1. Queued(c)' => Queued(c)
      BY <1>6, QueueShrinks
    <2>2. CASE connOf[c] = framed
      BY <1>6, <2>1, <2>2, UnbrokenSent
    <2>3. CASE connOf[c] # framed
      <3>1. connOf[c] # NoConn => wire'[connOf[c]] = wire[connOf[c]]
        BY <1>0, <1>6, <2>3, SendOther
      <3> QED
        BY <1>1, <1>6, <2>1, <2>3, <3>1
    <2> QED
      BY <2>2, <2>3
  <1>7. CASE SendResume
    <2> DEFINE skipped == IF replay.from <= total THEN replay.from ELSE total
               written == IF replay.plan \in {"AltRedraw", "Fresh"} THEN skipped ELSE total
               f == Frame("Resume", written, total, total)
    <2>1. /\ phase = "replay" /\ replay.stage = "resume" /\ phase' = "replay"
          /\ Send(framed, f)
          /\ UNCHANGED <<framed, link, cursor, rendered, connOf, lost, client_rx, total>>
          /\ replay'.from = replay.from /\ replay'.pos = replay.pos
          /\ replay'.stage = CASE replay.plan = "AltRedraw" -> "redraw"
                               [] replay.plan = "Fresh"     -> "done"
                               [] replay.plan = "Truncated" -> "marker"
                               [] OTHER                     -> "chunks"
      BY <1>0, <1>7 DEF SendResume, AfterResume, TaskType
    <2>2. /\ replay.from \in Nat /\ replay.pos \in Nat /\ replay.plan # "None"
          /\ replay.plan \in {"None", "AltRedraw", "Fresh", "Truncated", "Clean"}
          /\ replay.plan = "Clean" => replay.pos = replay.from
      BY <1>0, <2>1 DEF TaskType, ReplayInv
    <2>3. written \in Nat
      BY <1>0, <2>2
    <2>4. f \in FrameType /\ f.lo = written /\ f.hi = total
      BY <1>0, <2>3, FrameIn DEF Frame, FrameKinds
    <2>5. Upcoming = replay.from /\ ~AtResume'
      BY <2>1 DEF Upcoming, AtResume
    <2>6. CASE replay.plan \in {"AltRedraw", "Fresh"}
      <3>1. Upcoming' = total
        BY <2>1, <2>6 DEF Upcoming
      <3>2. written <= replay.from
        BY <1>0, <2>2, <2>6
      <3> HIDE DEF f, written
      <3> QED
        BY <1>0, <1>6, <2>1, <2>4, <2>5, <3>1, <3>2
    <2>7. CASE replay.plan \in {"Truncated", "Clean"}
      <3>1. Upcoming' = replay.from
        BY <2>1, <2>2, <2>7 DEF Upcoming
      <3>2. written = total
        BY <2>7
      <3> HIDE DEF f, written
      <3> QED
        BY <1>0, <1>6, <2>1, <2>2, <2>4, <2>5, <3>1, <3>2
    <2> QED
      BY <2>2, <2>6, <2>7
  <1>8. CASE SendMarker
    <2> DEFINE f == Frame("Marker", replay.from, replay.pos, total)
    <2>1. /\ phase = "replay" /\ replay.stage = "marker" /\ phase' = "replay"
          /\ Send(framed, f)
          /\ UNCHANGED <<framed, link, cursor, rendered, connOf, lost, client_rx>>
          /\ replay'.pos = replay.pos /\ replay'.stage = "chunks"
      BY <1>0, <1>8 DEF SendMarker, TaskType
    <2>2. replay.from \in Nat /\ replay.pos \in Nat
      BY <1>0 DEF TaskType
    <2>3. f \in FrameType /\ f.lo = replay.from /\ f.hi = replay.pos
      BY <1>0, <2>2, FrameIn DEF Frame, FrameKinds
    <2>4. Upcoming = replay.from /\ Upcoming' = replay.pos /\ ~AtResume'
      BY <2>1 DEF Upcoming, AtResume
    <2> HIDE DEF f
    <2> QED
      BY <1>6, <2>1, <2>2, <2>3, <2>4
  <1>9. CASE SendChunk
    <2>1. PICK e \in starts \cup {total} :
             /\ Send(framed, Frame("Replay", replay.pos, e, total))
             /\ replay' = [replay EXCEPT !.pos = e]
      BY <1>9 DEF SendChunk
    <2> DEFINE f == Frame("Replay", replay.pos, e, total)
    <2>2. /\ phase = "replay" /\ replay.stage = "chunks" /\ phase' = "replay"
          /\ UNCHANGED <<framed, link, cursor, rendered, connOf, lost, client_rx>>
          /\ replay'.pos = e /\ replay'.stage = "chunks"
      BY <1>0, <1>9, <2>1 DEF SendChunk, TaskType
    <2>3. replay.pos \in Nat /\ e \in Nat
      BY <1>0 DEF TaskType, HistType
    <2>4. f \in FrameType /\ f.lo = replay.pos /\ f.hi = e /\ Send(framed, f)
      BY <1>0, <2>1, <2>3, FrameIn DEF Frame, FrameKinds
    <2>5. Upcoming = replay.pos /\ Upcoming' = e /\ ~AtResume'
      BY <2>2 DEF Upcoming, AtResume
    <2> HIDE DEF f
    <2> QED
      BY <1>6, <2>2, <2>3, <2>4, <2>5
  <1>10. ASSUME NEW n \in Chunks, NEW screen \in BOOLEAN,
                RedrawOutput(n, screen) \/ PtyOutput(n, screen)
         PROVE  Unbroken(c)'
    <2> DEFINE f == Frame("Data", total, total + n, total + n)
    <2>1. /\ phase \in {"attached", "replay"} /\ phase' = phase /\ total' = total + n
          /\ phase = "replay" => replay.stage = "redraw" /\ replay' = replay
          /\ Send(framed, f)
          /\ UNCHANGED <<framed, link, cursor, rendered, connOf, lost, client_rx>>
      BY <1>10 DEF RedrawOutput, PtyOutput, Push
    <2>2. n \in Nat /\ total + n \in Nat
      BY <1>0
    <2>3. f \in FrameType /\ f.lo = total /\ f.hi = total + n
      BY <1>0, <2>2, FrameIn DEF Frame, FrameKinds
    <2>4. Upcoming = total /\ Upcoming' = total + n /\ ~AtResume'
      BY <2>1 DEF Upcoming, AtResume
    <2> HIDE DEF f
    <2> QED
      BY <1>0, <1>6, <2>1, <2>2, <2>3, <2>4
  <1>11. CASE ReplayDone
    <2>1. /\ UNCHANGED <<cursor, rendered, lost, connOf, wire, client_rx, framed, link>>
          /\ phase = "replay" /\ phase' = "attached" /\ total' = total
          /\ replay.stage \in {"done", "redraw"} \/ (replay.stage = "chunks" /\ replay.pos = total)
      BY <1>11 DEF ReplayDone
    <2>2. Upcoming = total /\ Upcoming' = total /\ ~AtResume' /\ Serves(c)' = Serves(c)
      BY <2>1 DEF Upcoming, AtResume, Serves
    <2>3. Queued(c)' => Queued(c)
      BY <2>1, QueueShrinks
    <2> QED
      BY <2>1, <2>2, <2>3, UnbrokenSame
  <1>12. CASE ReplayFails
    <2>1. UNCHANGED <<cursor, rendered, lost, connOf, wire, client_rx, framed>>
      BY <1>12 DEF ReplayFails
    <2>2. interrupted' = [d \in Clients |-> interrupted[d] \/ connOf[d] = framed]
      BY <1>12 DEF ReplayFails
    <2>3. interrupted'[c] = (interrupted[c] \/ connOf[c] = framed)
      BY <2>2
    <2>4. connOf[c] # framed
      BY <2>3
    <2> QED
      BY <1>1, <2>1, <2>4, QueueShrinks
  <1>13. ASSUME NEW n \in Chunks, NEW screen \in BOOLEAN,
                PtyOutputUnsent(n, screen) \/ DetachedOutput(n, screen)
         PROVE  Unbroken(c)'
    <2>1. /\ UNCHANGED <<cursor, rendered, lost, connOf, wire, client_rx>>
          /\ phase' = "detached"
      BY <1>13 DEF PtyOutputUnsent, DetachedOutput, MarkDetached
    <2> QED
      BY <1>1, <2>1, QueueShrinks
  <1>14. CASE ClientGone \/ IdleEvict
    <2>1. /\ UNCHANGED <<cursor, rendered, lost, connOf, wire, client_rx>>
          /\ phase' = "detached"
      BY <1>14 DEF ClientGone, IdleEvict, MarkDetached
    <2> QED
      BY <1>1, <2>1, QueueShrinks
  <1>15. CASE EndUnattended
    <2>1. /\ UNCHANGED <<cursor, rendered, lost, connOf, wire>>
          /\ phase' = "ended" /\ client_rx' = <<>>
      BY <1>15 DEF EndUnattended, EndTask
    <2> QED
      BY <1>1, <2>1, QueueShrinks
  <1>16. CASE ShutdownAttached
    <2> DEFINE f == Frame("ServerShutdown", 0, 0, total)
    <2>1. /\ UNCHANGED <<cursor, rendered, lost, connOf>> /\ phase = "attached"
          /\ phase' = "ended" /\ client_rx' = <<>> /\ Send(framed, f) /\ framed' = framed
      BY <1>16 DEF ShutdownAttached, EndTask
    <2>2. f \in FrameType /\ f.lo = 0 /\ f.hi = 0
      BY <1>0, FrameIn DEF Frame, FrameKinds
    <2>3. ~Serves(c)'
      BY <2>1 DEF Serves
    <2>4. Queued(c)' => Queued(c)
      BY <2>1, QueueShrinks
    <2> HIDE DEF f
    <2>5. CASE connOf[c] = framed
      BY <2>1, <2>2, <2>3, <2>4, <2>5, UnbrokenSent
    <2>6. CASE connOf[c] # framed
      <3>1. connOf[c] # NoConn => wire'[connOf[c]] = wire[connOf[c]]
        BY <1>0, <2>1, <2>6, SendOther
      <3> QED
        BY <1>1, <2>1, <2>4, <2>6, <3>1
    <2> QED
      BY <2>5, <2>6
  <1>17. ASSUME NEW n \in Chunks \cup {0}, ShellExit(n) PROVE Unbroken(c)'
    <2> DEFINE top == total + n
               d == Frame("Data", total, top, top)
               x == Frame("Exit", 0, 0, top)
               fs == IF n = 0 THEN <<x>> ELSE <<d, x>>
               w == wire[framed]
    <2>1. /\ phase = "attached" /\ phase' = "ended" /\ client_rx' = <<>>
          /\ UNCHANGED <<cursor, rendered, lost, connOf>>
          /\ SendAll(framed, fs)
      BY <1>17 DEF ShellExit, EndTask
    <2>2. n \in Nat /\ top \in Nat
      BY <1>0
    <2>3. /\ d \in FrameType /\ d.lo = total /\ x \in FrameType /\ x.lo = 0 /\ x.hi = 0
      BY <1>0, <2>2, FrameIn DEF Frame, FrameKinds
    <2>4. wire' = IF link[framed] = "up" THEN [wire EXCEPT ![framed] = @ \o fs] ELSE wire
      BY <2>1 DEF SendAll
    <2>5. (Queued(c)' => Queued(c)) /\ ~Serves(c)'
      BY <2>1, QueueShrinks DEF Serves
    <2> HIDE DEF d, x, top
    <2>6. CASE connOf[c] # framed \/ link[framed] # "up"
      <3>1. connOf[c] # NoConn => wire'[connOf[c]] = wire[connOf[c]]
        BY <1>0, <2>4, <2>6 DEF NetType, ClientType
      <3> QED
        BY <1>1, <2>1, <2>5, <3>1
    <2>7. CASE connOf[c] = framed /\ link[framed] = "up"
      <3>1. /\ connOf[c] # NoConn /\ framed \in Conns /\ Serves(c)
            /\ cursor[c] \in Nat /\ w \in Seq(FrameType)
        BY <2>1, <2>7, ServedFacts
      <3>2. Upcoming = total
        BY <2>1 DEF Upcoming
      <3>3. lost[c] = {} /\ Gapless(cursor[c], w) /\ Covers(cursor[c], w, total)
        BY <2>7, <3>1, <3>2 DEF Unbroken
      <3>4. wire'[framed] = w \o fs
        BY <1>0, <2>4, <2>7, <3>1 DEF NetType
      <3>5. wire'[framed] = Append(w, x) \/ wire'[framed] = Append(Append(w, d), x)
        <4>1. CASE n = 0
          BY <2>3, <3>1, <3>4, <4>1
        <4>2. CASE n # 0
          <5>1. fs = <<d, x>>
            BY <4>2
          <5> HIDE DEF fs, w
          <5> QED
            BY <2>3, <3>1, <3>4, <5>1, AppendTwo
        <4> QED
          BY <4>1, <4>2
      <3> HIDE DEF w, fs
      <3>6. ASSUME NEW v \in Seq(FrameType), Gapless(cursor[c], v)
            PROVE  Gapless(cursor[c], Append(v, x))
        BY <1>0, <2>3, <3>1, <3>6, GaplessAppend
      <3>7. Append(w, d) \in Seq(FrameType) /\ Gapless(cursor[c], Append(w, d))
        <4>1. Gapless(cursor[c], Append(w, d))
          BY <1>0, <2>3, <3>1, <3>3, GaplessAppend
        <4> QED
          BY <2>3, <3>1, <4>1
      <3>8. Gapless(cursor[c], wire'[framed])
        BY <3>1, <3>3, <3>5, <3>6, <3>7
      <3>9. ~Queued(c)'
        BY <2>5, <2>7, ServedNotQueued
      <3> QED
        BY <2>1, <2>5, <2>7, <3>1, <3>3, <3>8, <3>9, UnbrokenIf
    <2> QED
      BY <2>6, <2>7
  <1> QED
    BY <1>2, <1>4, <1>5, <1>7, <1>8, <1>9, <1>10, <1>11, <1>12, <1>13, <1>14, <1>15, <1>16, <1>17
    DEF SessionStep, SessionInput

\* Other clients' steps leave client c alone.
LEMMA UnbrokenApart ==
  ASSUME IInv, NEW c \in Clients, Unbroken(c),
         UNCHANGED <<total, phase, replay, framed>>,
         cursor'[c] = cursor[c], rendered'[c] = rendered[c],
         connOf'[c] = connOf[c], lost'[c] = lost[c],
         connOf[c] # NoConn => wire'[connOf[c]] = wire[connOf[c]],
         connOf[c] = framed /\ link'[framed] = "up" => link[framed] = "up",
         Queued(c)' => Queued(c)
  PROVE  Unbroken(c)'
  <1>1. Upcoming' = Upcoming /\ (AtResume' => AtResume) /\ Serves(c)' = Serves(c)
    BY DEF Upcoming, AtResume, Serves
  <1>2. Serves(c)' /\ link'[framed'] = "up" => link[framed] = "up"
    BY DEF Serves
  <1> QED
    BY <1>1, <1>2, UnbrokenSame

LEMMA UnbrokenClient ==
  ASSUME IInv, NEW c \in Clients, Unbroken(c), ~interrupted'[c],
         NEW d \in Clients,
         ClientStep(d) \/ (\E force, acked \in BOOLEAN : Attach(d, force, acked))
           \/ LinkSilent(d) \/ Quit(d)
  PROVE  Unbroken(c)'
  <1> USE DEF histVars, taskVars, serverVars, sharedVars, clientVars, netVars, readVars
  <1>0. /\ ClientType /\ NetType /\ ReadType /\ QueueInv /\ ConnInv /\ SharedType
        /\ connOf[c] \in Conns \cup {NoConn} /\ connOf[d] \in Conns \cup {NoConn}
    BY DEF IInv, TypeOK, ClientType
  <1>1. ASSUME NEW st, Leave(d, st) PROVE Unbroken(c)'
    <2>1. CASE c = d
      BY <1>1, <2>1, UnbrokenLeave
    <2>2. CASE c # d
      <3>1. /\ UNCHANGED <<total, phase, replay, framed, client_rx, cursor, rendered, lost>>
            /\ connOf'[c] = connOf[c]
            /\ link' = [link EXCEPT ![connOf[d]] = IF @ = "up" THEN "left" ELSE @]
            /\ wire' = [wire EXCEPT ![connOf[d]] = <<>>]
        BY <1>0, <1>1, <2>2 DEF Leave, ClientType
      <3>2. connOf[c] # NoConn => wire'[connOf[c]] = wire[connOf[c]]
        BY <1>0, <2>2, <3>1 DEF ConnInv, NetType
      <3>3. link'[framed] = "up" => link[framed] = "up"
        BY <1>0, <3>1 DEF NetType
      <3> QED
        BY <3>1, <3>2, <3>3, QueueShrinks, UnbrokenApart
    <2> QED
      BY <2>1, <2>2
  <1>2. CASE RecvFrame(d)
    <2>1. CASE c = d
      BY <1>2, <2>1, UnbrokenRecv
    <2>2. CASE c # d
      <3>1. /\ UNCHANGED <<total, phase, replay, framed, client_rx, connOf, link>>
            /\ rendered'[c] = rendered[c] /\ wire' = [wire EXCEPT ![connOf[d]] = Tail(@)]
            /\ connOf[d] # NoConn
        BY <1>0, <1>2, <2>2 DEF RecvFrame, Receives, ClientType
      <3>2. cursor'[c] = cursor[c] /\ lost'[c] = lost[c]
        <4>1. Reads(d, Head(wire[connOf[d]]))
          BY <1>2 DEF RecvFrame
        <4> QED
          BY <1>0, <2>2, <4>1 DEF Reads, ReadType
      <3>3. connOf[c] # NoConn => wire'[connOf[c]] = wire[connOf[c]]
        BY <1>0, <2>2, <3>1 DEF ConnInv, NetType
      <3> QED
        BY <3>1, <3>2, <3>3, QueueShrinks, UnbrokenApart
    <2> QED
      BY <2>1, <2>2
  <1>3. CASE AttachRefused(d) \/ (Quit(d) /\ client[d] = "down" /\ UNCHANGED netVars)
    BY <1>3, QueueShrinks, UnbrokenApart DEF AttachRefused, Quit, Leave
  <1>4. ASSUME NEW force \in BOOLEAN, NEW acked \in BOOLEAN, Attach(d, force, acked)
        PROVE  Unbroken(c)'
    <2> DEFINE k == nconns + 1
               h == Handoff(k, d, client[d] = "new")
    <2>1. /\ UNCHANGED <<total, phase, replay, framed, cursor, rendered, lost, wire>>
          /\ client[d] \in {"new", "down"} /\ k \in Conns
          /\ client_rx' = Append(client_rx, h)
          /\ link' = [link EXCEPT ![k] = IF acked THEN "up" ELSE "cut"]
          /\ connOf' = [connOf EXCEPT ![d] = IF acked THEN k ELSE @]
      BY <1>4 DEF Attach
    <2>2. h.conn = k
      BY DEF Handoff
    <2>3. nconns \in Nat /\ framed <= nconns /\ framed \in Nat /\ connOf[c] <= nconns
      BY <1>0 DEF NetType, QueueInv, ConnInv, IInv, TypeOK, TaskType
    <2>4. CASE c = d /\ acked
      <3>1. connOf[c] = NoConn /\ connOf'[c] = k /\ k # NoConn
        BY <1>0, <2>1, <2>3, <2>4 DEF ConnInv, ClientType
      <3>2. lost[c] = {} /\ cursor[c] = rendered[c]
        BY <3>1 DEF Unbroken
      <3>3. wire'[k] = <<>>
        BY <1>0, <2>1, <2>3 DEF QueueInv
      <3>4. ~Serves(c)'
        BY <2>1, <2>3, <3>1 DEF Serves
      <3>5. Gapless(cursor'[c], <<>>)
        BY DEF Gapless
      <3> QED
        BY <2>1, <3>1, <3>2, <3>3, <3>4, <3>5 DEF Unbroken
    <2>5. CASE ~(c = d /\ acked)
      <3>1. connOf'[c] = connOf[c]
        BY <1>0, <2>1, <2>5 DEF ClientType
      <3>2. link'[framed] = link[framed]
        BY <1>0, <2>1, <2>3 DEF NetType
      <3>3. Queued(c)' => Queued(c)
        <4>1. client_rx \in Seq(HandoffType) /\ connOf[c] # k
          BY <1>0, <2>3 DEF SharedType
        <4> HIDE DEF h
        <4>2. \A i \in DOMAIN client_rx' :
                 (i \in DOMAIN client_rx /\ client_rx'[i] = client_rx[i]) \/ client_rx'[i] = h
          BY <2>1, <4>1
        <4> QED
          BY <2>2, <3>1, <4>1, <4>2 DEF Queued
      <3> QED
        BY <2>1, <3>1, <3>2, <3>3, UnbrokenApart
    <2> QED
      BY <2>4, <2>5
  <1> QED
    BY <1>1, <1>2, <1>3, <1>4
    DEF ClientStep, RecvGoodbye, RecvEof, LinkStale, LinkSilent, Quit

\* The network loses what is in flight on a connection: the counts stay true.
LEMMA UnbrokenCut ==
  ASSUME IInv, NEW c \in Clients, Unbroken(c), NEW k \in Conns, Cut(k)
  PROVE  Unbroken(c)'
  <1> USE DEF histVars, taskVars, serverVars, sharedVars, clientVars, netVars, readVars
  <1>1. /\ UNCHANGED <<total, phase, replay, framed, client_rx, cursor, rendered, lost, connOf>>
        /\ link' = [link EXCEPT ![k] = "cut"] /\ wire' = [wire EXCEPT ![k] = <<>>]
    BY DEF Cut
  <1>2. NetType
    BY DEF IInv, TypeOK
  <1>3. link'[framed] = "up" => link[framed] = "up" /\ framed # k
    BY <1>1, <1>2 DEF NetType
  <1>4. Queued(c)' => Queued(c)
    BY <1>1, QueueShrinks
  <1>5. CASE connOf[c] # k
    <2>1. wire'[connOf[c]] = wire[connOf[c]]
      BY <1>1, <1>2, <1>5 DEF NetType
    <2> QED
      BY <1>1, <1>3, <1>4, <2>1, UnbrokenApart
  <1>6. CASE connOf[c] = k
    <2>1. wire'[connOf'[c]] = <<>>
      BY <1>1, <1>2, <1>6 DEF NetType
    <2>2. Serves(c)' = Serves(c) /\ (AtResume' => AtResume) /\ connOf[c] # NoConn
      BY <1>1, <1>6 DEF Serves, AtResume
    <2>3. Serves(c)' => link'[framed'] # "up"
      BY <1>1, <1>3, <1>6 DEF Serves
    <2>4. Gapless(cursor'[c], <<>>)
      BY DEF Gapless
    <2> QED
      BY <1>1, <1>4, <2>1, <2>2, <2>3, <2>4 DEF Unbroken, Queued
  <1> QED
    BY <1>5, <1>6

LEMMA UnbrokenNext == IInv /\ UnbrokenInv /\ [Next]_vars => UnbrokenInv'
  <1> SUFFICES ASSUME IInv, UnbrokenInv, [Next]_vars, NEW c \in Clients, ~interrupted'[c]
               PROVE  Unbroken(c)'
    BY DEF UnbrokenInv
  <1>1. Unbroken(c)
    BY InterruptedStays DEF IInv, UnbrokenInv
  <1>2. CASE UNCHANGED vars
    <2>1. UNCHANGED <<total, phase, replay, framed, cursor, rendered, connOf, lost, wire, link,
                      client_rx>>
      BY <1>2 DEF vars, histVars, taskVars, serverVars, sharedVars, clientVars, netVars, readVars
    <2> QED
      BY <1>1, <2>1, QueueShrinks, UnbrokenApart
  <1>3. CASE SessionStep \/ SessionInput
    BY <1>1, <1>3, UnbrokenTask
  <1>4. ASSUME NEW d \in Clients,
               ClientStep(d) \/ (\E force, acked \in BOOLEAN : Attach(d, force, acked))
                 \/ LinkSilent(d) \/ Quit(d)
        PROVE  Unbroken(c)'
    BY <1>1, <1>4, UnbrokenClient
  <1>5. ASSUME NEW k \in Conns, Cut(k) PROVE Unbroken(c)'
    BY <1>1, <1>5, UnbrokenCut
  <1> QED
    BY <1>2, <1>3, <1>4, <1>5 DEF Next

LEMMA UnbrokenInit == Init => UnbrokenInv
  <1> SUFFICES ASSUME Init, NEW c \in Clients PROVE Unbroken(c)
    BY DEF UnbrokenInv
  <1>1. /\ cursor[c] = 0 /\ rendered[c] = 0 /\ lost[c] = {} /\ phase = "birth"
        /\ connOf[c] # NoConn => wire[connOf[c]] = <<>>
    BY DEF Init
  <1>2. Gapless(0, <<>>) /\ ~AtResume /\ ~Serves(c)
    BY <1>1 DEF Gapless, AtResume, Serves
  <1> QED
    BY <1>1, <1>2 DEF Unbroken

\* However links fail, clients come and go and take over from each other: a
\* byte that a running client was neither shown nor told of was part of a replay
\* to it that was cut short (plan_replay, send_reconnect_replay, rendered_offset).
THEOREM NothingElseLost == Spec => []LossOnlyFromCutReplay
  <1>1. IInv /\ UnbrokenInv /\ [Next]_vars => UnbrokenInv'
    BY UnbrokenNext
  <1>2. UnbrokenInv => LossOnlyFromCutReplay
    BY DEF UnbrokenInv, Unbroken, LossOnlyFromCutReplay
  <1> QED
    BY <1>1, <1>2, UnbrokenInit, Invariance, PTL DEF Spec

-----------------------------------------------------------------------------
(* What the ring keeps *)

\* Besides a push of a read, no step touches the ring.
LEMMA OnlyPush ==
  ASSUME TypeOK, [Next]_vars
  PROVE  UNCHANGED histVars \/ \E n \in Chunks : Push(n)
  <1>1. CASE UNCHANGED vars
    BY <1>1 DEF vars, serverVars
  <1>2. CASE SessionStep
    BY <1>2 DEF SessionStep, FirstClient, TakeClient, Takeover, SendResume, SendMarker,
                SendChunk, ReplayDone, ClientGone
  <1>3. CASE SessionInput
    BY <1>3 DEF SessionInput, Takeover, ReplayFails, IdleEvict, RedrawOutput, PtyOutput,
                PtyOutputUnsent, DetachedOutput, ShellExit, EndUnattended, ShutdownAttached
  <1>4. ASSUME NEW c \in Clients,
               ClientStep(c) \/ (\E force, acked \in BOOLEAN : Attach(c, force, acked))
                 \/ LinkSilent(c) \/ Quit(c)
        PROVE  UNCHANGED histVars
    BY <1>4 DEF ClientStep, RecvFrame, RecvGoodbye, RecvEof, LinkStale, Leave, Attach,
                AttachRefused, LinkSilent, Quit, serverVars
  <1>5. ASSUME NEW k \in Conns, Cut(k) PROVE UNCHANGED histVars
    BY <1>5 DEF Cut, serverVars
  <1> QED
    BY <1>1, <1>2, <1>3, <1>4, <1>5 DEF Next

\* A retained byte of an earlier read keeps the whole read: the eviction point is
\* a read's start.
LEMMA PushKeepsReads ==
  ASSUME HistType, RingInv, ReadsKept, NEW m \in Chunks, Push(m)
  PROVE  ReadsKept'
  <1> DEFINE all == starts \cup {total}
             top == total + m
  <1>1. PICK b \in all \cup {top} : base' = b /\ starts' = {s \in all : s >= b}
    BY Zenon DEF Push
  <1>2. /\ total \in Nat /\ m \in Nat \ {0} /\ base \in Nat /\ b \in Nat
        /\ total' = top /\ base <= b
        /\ \A s \in starts : s \in Nat /\ base <= s /\ s <= total
    BY <1>1 DEF HistType, RingInv, Push
  <1> SUFFICES ASSUME NEW o \in b..(top - 1)
               PROVE  \E s \in starts', n \in Chunks :
                         /\ s <= o /\ o < s + n
                         /\ \A e \in starts' \cup {top} : e <= s \/ e >= s + n
    BY <1>1, <1>2, Zenon DEF ReadsKept
  <1>3. CASE o < total
    <2>1. o \in base..(total - 1)
      BY <1>2, <1>3
    <2>2. PICK s \in starts, n \in Chunks :
             /\ s <= o /\ o < s + n
             /\ \A e \in starts \cup {total} : e <= s \/ e >= s + n
      BY <2>1, Zenon DEF ReadsKept
    <2>3. s \in Nat /\ n \in Nat /\ total >= s + n
      BY <1>2, <1>3, <2>2
    <2>4. b <= s
      BY <1>1, <1>2, <1>3, <2>2, <2>3
    <2>5. s \in starts'
      BY <1>1, <1>2, <2>3, <2>4
    <2>6. \A e \in starts' \cup {top} : e <= s \/ e >= s + n
      BY <1>1, <1>2, <2>2, <2>3
    <2> QED
      BY <2>2, <2>5, <2>6
  <1>4. CASE ~(o < total)
    <2>1. total \in starts'
      BY <1>1, <1>2
    <2>2. /\ total <= o /\ o < total + m
          /\ \A e \in starts' \cup {top} : e <= total \/ e >= total + m
      BY <1>1, <1>2, <1>4
    <2> QED
      BY <2>1, <2>2
  <1> QED
    BY <1>3, <1>4

\* Eviction stops as soon as the ring fits: an offset closer to the end than its
\* capacity less one read survives the push.
LEMMA PushKeepsNear ==
  ASSUME HistType, RingInv, ReadsKept, ShortOutageResumes, NEW m \in Chunks, Push(m)
  PROVE  ShortOutageResumes'
  <1> DEFINE all == starts \cup {total}
             top == total + m
  <1>1. PICK b \in all \cup {top} : base' = b /\ \A s \in all : s < b => top - s > Cap
    BY Zenon DEF Push
  <1>2. /\ total \in Nat /\ m \in Nat \ {0} /\ base \in Nat /\ b \in Nat /\ b <= top
        /\ total' = top
        /\ \A s \in starts : s \in Nat /\ s <= total
    BY <1>1 DEF HistType, RingInv, Push
  <1> SUFFICES ASSUME NEW o \in 0..top, \A n \in Chunks : top - o + n <= Cap + 1, o < b
               PROVE  FALSE
    BY <1>1, <1>2 DEF ShortOutageResumes
  <1>3. CASE o < total
    <2>1. \A n \in Chunks : total - o + n <= Cap + 1
      BY <1>2
    <2>2. o >= base
      BY <1>2, <1>3, <2>1 DEF ShortOutageResumes
    <2>3. PICK s \in starts, n \in Chunks :
             /\ s <= o /\ o < s + n
             /\ \A e \in starts \cup {total} : e <= s \/ e >= s + n
      <3>1. o \in base..(total - 1)
        BY <1>2, <1>3, <2>2
      <3> QED
        BY <3>1, Zenon DEF ReadsKept
    <2>4. s \in Nat /\ n \in Nat
      BY <1>2
    <2>5. s < b
      BY <1>2, <2>3, <2>4
    <2>6. top - s > Cap
      BY <1>1, <2>5
    <2>7. top - o + n <= Cap + 1
      OBVIOUS
    <2> QED
      BY <1>2, <2>3, <2>4, <2>6, <2>7
  <1>4. CASE ~(o < total)
    <2>1. total < b
      BY <1>2, <1>4
    <2>2. top - total > Cap
      BY <1>1, <2>1
    <2>3. top - o + m <= Cap + 1
      OBVIOUS
    <2> QED
      BY <1>2, <2>2, <2>3
  <1> QED
    BY <1>3, <1>4

RingKept == ReadsKept /\ ShortOutageResumes

LEMMA KeepStep == IInv /\ RingKept /\ [Next]_vars => RingKept'
  <1> SUFFICES ASSUME IInv, RingKept, [Next]_vars PROVE RingKept'
    OBVIOUS
  <1>1. HistType /\ RingInv /\ TypeOK
    BY DEF IInv, TypeOK
  <1>2. CASE UNCHANGED histVars
    BY <1>2 DEF RingKept, ReadsKept, ShortOutageResumes, histVars
  <1>3. CASE \E n \in Chunks : Push(n)
    BY <1>1, <1>3, PushKeepsReads, PushKeepsNear DEF RingKept
  <1> QED
    BY <1>1, <1>2, <1>3, OnlyPush

\* However the reads fall, an eviction never drops more than the overflow asks
\* for: a client that missed no more than Cap + 1 less one read still finds its
\* offset in the ring when it reconnects (History::push, History::base).
THEOREM OutagesResume == Spec => []ShortOutageResumes
  <1>1. Init => RingKept
    BY DEF Init, RingKept, ReadsKept, ShortOutageResumes
  <1>2. IInv /\ RingKept /\ [Next]_vars => RingKept'
    BY KeepStep
  <1>3. RingKept => ShortOutageResumes
    BY DEF RingKept
  <1> QED
    BY <1>1, <1>2, <1>3, Invariance, PTL DEF Spec
=============================================================================
