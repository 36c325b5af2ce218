---------------------------- MODULE HeartbeatProofs ----------------------------
(***************************************************************************)
(* The proofs about the two clocks of a client: Heartbeat, for every       *)
(* timeout of the two ends, every delay within the margin and whatever the *)
(* configuration says, and, at the end, ClientReconnect (R), for every     *)
(* schedule and grace.  First the clamping, then what is on its way, then  *)
(* one lemma per conjunct of IInv with a step per action, then the         *)
(* theorems.                                                               *)
(***************************************************************************)
EXTENDS HeartbeatInv, SequenceTheorems, TLAPS

\* The constants and variables of the reconnect loop; daemon is what is behind
\* the socket.
CONSTANTS BackoffMax, SocketGrace, DaemonGrace, AttemptTimeout, MaxFaults
VARIABLES
    tail, is_remote, pc, why, backoff, left, elapsed, was_offline, socket_gone,
    daemon_gone, chrome_shown, sup, dirty, spent, file, daemon, lock, session,
    net, event, faults, dead, deaths

R == INSTANCE ClientReconnectInv WITH server <- daemon

-----------------------------------------------------------------------------
(* Configuration *)

LEMMA MinTwo ==
  ASSUME NEW a \in Int, NEW b \in Int
  PROVE  Min({a, b}) = IF a <= b THEN a ELSE b
  <1> DEFINE m == IF a <= b THEN a ELSE b
  <1>1. m \in {a, b} /\ \A y \in {a, b} : m <= y
    OBVIOUS
  <1>2. \A x \in {a, b} : (\A y \in {a, b} : x <= y) => x = m
    OBVIOUS
  <1> HIDE DEF m
  <1>3. Min({a, b}) = m
    BY <1>1, <1>2, Zenon DEF Min
  <1> QED
    BY <1>3 DEF m

LEMMA MaxTwo ==
  ASSUME NEW a \in Int, NEW b \in Int
  PROVE  Max({a, b}) = IF a >= b THEN a ELSE b
  <1> DEFINE m == IF a >= b THEN a ELSE b
  <1>1. m \in {a, b} /\ \A y \in {a, b} : m >= y
    OBVIOUS
  <1>2. \A x \in {a, b} : (\A y \in {a, b} : x >= y) => x = m
    OBVIOUS
  <1> HIDE DEF m
  <1>3. Max({a, b}) = m
    BY <1>1, <1>2, Zenon DEF Max
  <1> QED
    BY <1>3 DEF m

\* Whatever is configured, an interval is at least a second, two of them stay
\* below the ceiling, and the timeout lies between the interval and the ceiling.
LEMMA Clamped ==
  ASSUME TimesAssumption, NEW i \in RawTimes, NEW t \in RawTimes
  PROVE  LET c == clamp_heartbeat(i, t)
         IN  /\ c[1] \in Nat \ {0} /\ c[2] \in Nat
             /\ 2 * c[1] + 1 <= idle_evict_ceiling
             /\ c[1] < c[2] /\ c[1] + c[2] <= idle_evict_ceiling
  <1> DEFINE ceiling == idle_evict_ceiling
             half == (ceiling - 1) \div 2
             limit == Max({1, half})
             raised == Max({i, 1})
             interval == Min({raised, limit})
             wanted == IF t <= interval THEN interval + 1 ELSE t
             timeout == Min({wanted, ceiling - interval})
  <1>1. i \in Nat /\ t \in Nat /\ ceiling \in Nat /\ ceiling >= 3
    BY DEF TimesAssumption, idle_evict_ceiling
  <1>2. clamp_heartbeat(i, t) = <<interval, timeout>>
    BY Zenon DEF clamp_heartbeat
  <1> HIDE DEF ceiling
  <1>3. half \in Nat /\ half >= 1 /\ 2 * half + 1 <= ceiling
    BY <1>1
  <1> HIDE DEF half
  <1>4. limit = half
    <2>1. limit = IF 1 >= half THEN 1 ELSE half
      BY <1>3, MaxTwo
    <2> QED
      BY <1>3, <2>1
  <1>5. raised \in Nat /\ raised >= 1
    <2>1. raised = IF i >= 1 THEN i ELSE 1
      BY <1>1, MaxTwo
    <2> QED
      BY <1>1, <2>1
  <1> HIDE DEF limit, raised
  <1>6. interval \in Nat \ {0} /\ 2 * interval + 1 <= ceiling
    <2>1. interval = IF raised <= limit THEN raised ELSE limit
      BY <1>3, <1>4, <1>5, MinTwo
    <2> QED
      BY <1>1, <1>3, <1>4, <1>5, <2>1
  <1> HIDE DEF interval
  <1>7. wanted \in Nat /\ wanted > interval
    BY <1>1, <1>6
  <1> HIDE DEF wanted
  <1>8. timeout \in Nat /\ interval < timeout /\ interval + timeout <= ceiling
    <2>1. timeout = IF wanted <= ceiling - interval THEN wanted ELSE ceiling - interval
      BY <1>1, <1>6, <1>7, MinTwo
    <2> QED
      BY <1>1, <1>6, <1>7, <2>1
  <1> HIDE DEF timeout
  <1> QED
    BY <1>2, <1>6, <1>8 DEF ceiling

-----------------------------------------------------------------------------
(* Ages, and what is on its way *)

LEMMA OlderIs ==
  ASSUME TimesAssumption, NEW age \in Nat
  PROVE  Older(age) = IF age <= Evict THEN age + 1 ELSE Evict + 1
  BY MinTwo DEF Older, TimesAssumption

LEMMA Element ==
  ASSUME NEW T, NEW q \in Seq(T), NEW i \in DOMAIN q
  PROVE  q[i] \in T
  OBVIOUS

\* A second makes every frame on its way older, up to the longest delay.
LEMMA Aged ==
  ASSUME TimesAssumption, NEW K, NEW q \in Seq([kind : K, age : 0..Delay])
  PROVE  /\ OlderFrames(q) \in Seq([kind : K, age : 0..Delay])
         /\ Len(OlderFrames(q)) = Len(q) /\ DOMAIN OlderFrames(q) = DOMAIN q
         /\ \A i \in DOMAIN q :
               /\ OlderFrames(q)[i].kind = q[i].kind
               /\ OlderFrames(q)[i].age = IF q[i].age < Delay THEN q[i].age + 1 ELSE Delay
  <1> DEFINE v == OlderFrames(q)
             T == [kind : K, age : 0..Delay]
  <1>1. ASSUME NEW i \in DOMAIN q
        PROVE  /\ v[i] \in T /\ v[i].kind = q[i].kind
               /\ v[i].age = IF q[i].age < Delay THEN q[i].age + 1 ELSE Delay
    <2>1. q[i] \in T
      BY Element
    <2>2. q[i].age \in 0..Delay /\ Delay \in Nat
      BY <2>1 DEF TimesAssumption
    <2>3. Min({q[i].age + 1, Delay}) = IF q[i].age + 1 <= Delay THEN q[i].age + 1 ELSE Delay
      BY <2>2, MinTwo
    <2>4. v[i] = [q[i] EXCEPT !.age = Min({q[i].age + 1, Delay})]
      BY DEF OlderFrames
    <2>5. Min({q[i].age + 1, Delay}) \in 0..Delay
      BY <2>2, <2>3
    <2> QED
      BY <2>1, <2>2, <2>3, <2>4, <2>5
  <1>2. DOMAIN v = 1..Len(q) /\ Len(q) \in Nat
    BY DEF OlderFrames
  <1>3. v = [i \in 1..Len(q) |-> v[i]]
    BY <1>2 DEF OlderFrames
  <1>4. v \in Seq(T) /\ Len(v) = Len(q)
    <2> HIDE DEF v, T
    <2>1. \A i \in 1..Len(q) : v[i] \in T
      BY <1>1
    <2> QED
      BY <1>2, <1>3, <2>1
  <1> QED
    BY <1>1, <1>2, <1>4

\* What a frame at the end of a queue leaves as it was.
LEMMA Queued ==
  ASSUME NEW T, NEW q \in Seq(T), NEW f \in T
  PROVE  /\ Append(q, f) \in Seq(T) /\ Append(q, f) # <<>>
         /\ DOMAIN Append(q, f) = 1..(Len(q) + 1) /\ Len(q) \in Nat
         /\ \A i \in DOMAIN q : i \in DOMAIN Append(q, f) /\ Append(q, f)[i] = q[i]
         /\ Append(q, f)[Len(q) + 1] = f
         /\ Head(Append(q, f)) = IF q = <<>> THEN f ELSE Head(q)
  <1>1. CASE q = <<>>
    BY <1>1
  <1>2. CASE q # <<>>
    <2>1. Append(q, f) # <<>> /\ Append(q, f) \in Seq(T)
      BY AppendProperties
    <2>2. Len(q) \in Nat \ {0} /\ Append(q, f)[1] = q[1]
      BY <1>2
    <2> QED
      BY <1>2, <2>1, <2>2
  <1> QED
    BY <1>1, <1>2

\* What taking the first frame leaves.
LEMMA Taken ==
  ASSUME NEW T, NEW q \in Seq(T), q # <<>>
  PROVE  /\ Head(q) \in T /\ Tail(q) \in Seq(T) /\ Head(q) = q[1] /\ 1 \in DOMAIN q
         /\ \A i \in DOMAIN q : i # 1 => i - 1 \in DOMAIN Tail(q) /\ Tail(q)[i - 1] = q[i]
         /\ \A i \in DOMAIN Tail(q) : i + 1 \in DOMAIN q /\ Tail(q)[i] = q[i + 1]
  <1>1. /\ Len(q) \in Nat \ {0} /\ Tail(q) \in Seq(T) /\ Head(q) = q[1]
        /\ Len(Tail(q)) = Len(q) - 1
        /\ \A i \in 1..(Len(q) - 1) : Tail(q)[i] = q[i + 1]
    OBVIOUS
  <1>2. DOMAIN q = 1..Len(q) /\ DOMAIN Tail(q) = 1..(Len(q) - 1)
    BY <1>1
  <1>3. q[1] \in T
    BY <1>1
  <1>4. \A i \in 1..Len(q) : i # 1 => i - 1 \in 1..(Len(q) - 1) /\ Tail(q)[i - 1] = q[i]
    BY <1>1
  <1> QED
    BY <1>1, <1>2, <1>3, <1>4

-----------------------------------------------------------------------------
(* Types *)

LEMMA InitType == TimesAssumption /\ Init => TypeOK /\ WireInv /\ ClampInv
  <1> SUFFICES ASSUME TimesAssumption, Init PROVE TypeOK /\ WireInv /\ ClampInv
    OBVIOUS
  <1>1. PICK i \in RawTimes, t \in RawTimes :
           LET c == clamp_heartbeat(i, t) IN hb_interval = c[1] /\ hb_timeout = c[2]
    BY DEF Init
  <1>2. /\ hb_interval \in Nat \ {0} /\ hb_timeout \in Nat
        /\ 2 * hb_interval + 1 <= idle_evict_ceiling
        /\ hb_interval < hb_timeout /\ hb_interval + hb_timeout <= idle_evict_ceiling
    BY <1>1, Clamped, Zenon
  <1>3. Evict \in Nat /\ Margin \in Nat /\ Delay \in Nat /\ SendTimeout \in Nat /\ Delay <= Margin
    BY DEF TimesAssumption
  <1>4. ClampInv
    BY <1>2, <1>3 DEF ClampInv, idle_evict_ceiling
  <1>5. hb_interval \in 1..Evict /\ hb_timeout \in (hb_interval + 1)..Evict
    BY <1>2, <1>3 DEF idle_evict_ceiling
  <1>6. WireInv
    BY DEF Init, WireInv, UpType, DownType
  <1>7. heartbeat \in 0..hb_interval /\ hb_interval + hb_timeout <= idle_evict_ceiling
    BY <1>2 DEF Init
  <1>8. 0 \in 0..(Evict + 1) /\ 0 \in 0..SendTimeout
    BY <1>3
  <1>9. {last_activity, last_outbound_at, last_client_frame_at, stale} \subseteq 0..(Evict + 1)
    BY <1>8 DEF Init
  <1> QED
    BY <1>4, <1>5, <1>6, <1>7, <1>8, <1>9 DEF Init, TypeOK

\* A frame that is sent has a kind and has not waited.
LEMMA SendType ==
  ASSUME TimesAssumption, TypeOK, WireInv, NEW kind \in {"Ping", "Data", "Resize"}, timed_send(kind)
  PROVE  /\ up' \in UpType /\ client' \in {"relay", "sending"}
         /\ last_outbound_at' \in 0..(Evict + 1) /\ blocked' \in 0..SendTimeout
  <1>1. Delay \in Nat /\ Evict \in Nat /\ SendTimeout \in Nat
    BY DEF TimesAssumption
  <1>2. [kind |-> kind, age |-> 0] \in [kind : {"Ping", "Data", "Resize"}, age : 0..Delay]
    BY <1>1
  <1>3. Append(up, [kind |-> kind, age |-> 0]) \in UpType
    BY <1>2, Queued DEF WireInv, UpType
  <1>4. up' \in UpType
    BY <1>3 DEF timed_send, WireInv
  <1> QED
    BY <1>1, <1>4 DEF timed_send, TypeOK

LEMMA TypeStep == TimesAssumption /\ TypeOK /\ WireInv /\ [Next]_vars => TypeOK' /\ WireInv'
  <1> SUFFICES ASSUME TimesAssumption, TypeOK, WireInv, [Next]_vars PROVE TypeOK' /\ WireInv'
    OBVIOUS
  <1> USE DEF config
  <1>1. Delay \in Nat /\ Evict \in Nat /\ SendTimeout \in Nat
    BY DEF TimesAssumption
  <1>2. up \in Seq([kind : {"Ping", "Data", "Resize"}, age : 0..Delay])
        /\ down \in Seq([kind : {"Pong", "Data", "Eof"}, age : 0..Delay])
    BY DEF WireInv, UpType, DownType
  <1>3. CASE UNCHANGED vars
    BY <1>3 DEF TypeOK, WireInv, vars
  <1>4. CASE Second
    <2>1. \A a \in 0..(Evict + 1) : Older(a) \in 0..(Evict + 1)
      BY <1>1, OlderIs
    <2>2. WireInv'
      BY <1>2, <1>4, Aged DEF Second, WireInv, UpType, DownType
    <2>3. heartbeat' \in 0..hb_interval /\ blocked' \in 0..SendTimeout
      BY <1>1, <1>4 DEF Second, TypeOK
    <2> QED
      BY <1>1, <1>4, <2>1, <2>2, <2>3 DEF Second, TypeOK
  <1>5. CASE Sleep \/ Wake \/ LinkDies \/ Suspend
    <2>1. <<>> \in UpType /\ <<>> \in DownType
      BY DEF UpType, DownType
    <2> QED
      BY <1>1, <1>5, <2>1 DEF Sleep, Wake, LinkDies, Suspend, TypeOK, WireInv
  <1>6. CASE SendTimesOut \/ HeartbeatStale \/ KeyStale \/ HearEof
    BY <1>1, <1>6 DEF SendTimesOut, HeartbeatStale, KeyStale, HearEof, Disconnect, TypeOK, WireInv
  <1>7. CASE Heartbeat
    <2>1. heartbeat' \in 0..hb_interval
      BY <1>7 DEF Heartbeat, TypeOK
    <2>2. CASE PingDue
      BY <1>1, <1>7, <2>1, <2>2, SendType DEF Heartbeat, TypeOK, WireInv
    <2>3. CASE ~PingDue
      BY <1>1, <1>7, <2>1, <2>3 DEF Heartbeat, TypeOK, WireInv
    <2> QED
      BY <2>2, <2>3
  <1>8. CASE NetChanged \/ Key
    BY <1>1, <1>8, SendType DEF NetChanged, Key, TypeOK, WireInv
  <1>9. CASE Hear
    BY <1>1, <1>2, <1>9, Taken DEF Hear, TypeOK, WireInv, UpType, DownType
  <1>10. CASE Resume
    <2>1. heartbeat' \in 0..hb_interval
      BY <1>10 DEF Resume, TypeOK
    <2> QED
      BY <1>1, <1>10, <2>1, SendType DEF Resume, TypeOK, WireInv
  <1>11. CASE Take
    <2>1. up' \in UpType
      BY <1>2, <1>11, Taken DEF Take, UpType
    <2>2. [kind |-> "Pong", age |-> 0] \in [kind : {"Pong", "Data", "Eof"}, age : 0..Delay]
      BY <1>1
    <2>3. down' \in DownType
      BY <1>2, <1>11, <2>2, Queued DEF Take, DownType
    <2> QED
      BY <1>1, <1>11, <2>1, <2>3 DEF Take, TypeOK, WireInv
  <1>12. CASE Discard
    BY <1>1, <1>2, <1>12, Taken DEF Discard, TypeOK, WireInv, UpType
  <1>13. CASE Output \/ IdleEvict
    <2>1. /\ [kind |-> "Data", age |-> 0] \in [kind : {"Pong", "Data", "Eof"}, age : 0..Delay]
          /\ [kind |-> "Eof", age |-> 0] \in [kind : {"Pong", "Data", "Eof"}, age : 0..Delay]
      BY <1>1
    <2>2. /\ Append(down, [kind |-> "Data", age |-> 0]) \in DownType
          /\ Append(down, [kind |-> "Eof", age |-> 0]) \in DownType
      BY <1>2, <2>1, Queued DEF DownType
    <2>3. down' \in DownType
      BY <1>13, <2>2 DEF Output, IdleEvict, WireInv
    <2> QED
      BY <1>1, <1>13, <2>3 DEF Output, IdleEvict, TypeOK, WireInv
  <1> QED
    BY <1>3, <1>4, <1>5, <1>6, <1>7, <1>8, <1>9, <1>10, <1>11, <1>12, <1>13 DEF Next

LEMMA ClampStep == ClampInv /\ [Next]_vars => ClampInv'
  <1> SUFFICES ASSUME ClampInv, [Next]_vars PROVE ClampInv'
    OBVIOUS
  <1>1. UNCHANGED config
    BY DEF Next, Second, Sleep, Wake, LinkDies, SendTimesOut, HeartbeatStale, Heartbeat,
           NetChanged, KeyStale, Key, Hear, HearEof, Suspend, Resume, Take, Discard, Output,
           IdleEvict, Disconnect, config, vars
  <1> QED
    BY <1>1 DEF ClampInv, config

-----------------------------------------------------------------------------
(* A stale link *)

LEMMA LessSum ==
  ASSUME NEW a \in Nat, NEW b \in Nat, NEW c \in Nat, NEW m \in Nat, a + b <= m, c <= b
  PROVE  a + c <= m
  OBVIOUS

LEMMA StaleStep == TimesAssumption /\ TypeOK /\ StaleInv /\ [Next]_vars => StaleInv'
  <1> SUFFICES ASSUME TimesAssumption, TypeOK, StaleInv, [Next]_vars PROVE StaleInv'
    OBVIOUS
  <1> USE DEF config, StaleInv
  <1>1. /\ Evict \in Nat /\ SendTimeout \in Nat
        /\ hb_interval \in Nat /\ hb_interval >= 1 /\ hb_timeout \in Nat
        /\ last_activity \in 0..(Evict + 1) /\ stale \in 0..(Evict + 1)
        /\ heartbeat \in 0..hb_interval /\ blocked \in 0..SendTimeout
    BY DEF TimesAssumption, TypeOK
  <1>2. CASE UNCHANGED vars
    BY <1>2 DEF vars
  <1>3. CASE Second
    <2>1. /\ last_activity' = IF last_activity <= Evict THEN last_activity + 1 ELSE Evict + 1
          /\ Older(stale) = IF stale <= Evict THEN stale + 1 ELSE Evict + 1
      BY <1>1, <1>3, OlderIs DEF Second
    <2>2. UNCHANGED <<hb_interval, hb_timeout, client, awake>>
      BY <1>3 DEF Second
    <2>3. last_activity' <= hb_timeout => stale' = 0
      BY <1>1, <1>3, <2>1, <2>2 DEF Second
    <2>4. CASE Running /\ client = "relay"
      BY <1>1, <1>3, <2>1, <2>2, <2>3, <2>4 DEF Second, NothingDue, Running
    <2>5. CASE Running /\ client = "sending"
      BY <1>1, <1>3, <2>1, <2>2, <2>3, <2>5 DEF Second, NothingDue, Running
    <2>6. CASE ~Running
      <3>1. stale' = stale
        BY <1>3, <2>6 DEF Second
      <3>2. /\ heartbeat' <= heartbeat /\ blocked' <= blocked
            /\ heartbeat' \in Nat /\ blocked' \in Nat
        BY <1>1, <1>3 DEF Second
      <3>3. /\ stale \in Nat /\ heartbeat \in Nat /\ blocked \in Nat
            /\ hb_interval \in Nat /\ hb_interval + SendTimeout \in Nat
        BY <1>1
      <3>4. client = "relay" => stale + heartbeat' <= hb_interval
        BY <3>2, <3>3, LessSum, Zenon
      <3>5. client = "sending" => stale + blocked' <= hb_interval + SendTimeout
        BY <3>2, <3>3, LessSum, Zenon
      <3> QED
        BY <2>2, <2>3, <3>1, <3>4, <3>5, Zenon
    <2> QED
      BY <2>4, <2>5, <2>6 DEF Running
  <1>4. CASE Sleep \/ Wake \/ LinkDies \/ Suspend
    BY <1>1, <1>4 DEF Sleep, Wake, LinkDies, Suspend, InRelay
  <1>5. CASE SendTimesOut \/ HeartbeatStale \/ KeyStale \/ HearEof
    BY <1>1, <1>5 DEF SendTimesOut, HeartbeatStale, KeyStale, HearEof, Disconnect
  <1>6. CASE Heartbeat
    <2>1. stale = 0 /\ stale' = 0 /\ heartbeat' = hb_interval /\ UNCHANGED <<hb_interval, hb_timeout>>
      BY <1>1, <1>6 DEF Heartbeat, link_is_stale
    <2>2. client' = "relay" \/ (client' = "sending" /\ blocked' = SendTimeout)
      BY <1>6 DEF Heartbeat, InRelay, timed_send
    <2> QED
      BY <1>1, <2>1, <2>2
  <1>7. CASE NetChanged \/ Key
    <2>1. client = "relay" /\ UNCHANGED <<hb_interval, hb_timeout, last_activity, heartbeat, stale>>
      BY <1>7 DEF NetChanged, Key, InRelay
    <2>2. client' = "relay" \/ (client' = "sending" /\ blocked' = SendTimeout)
      BY <1>7 DEF NetChanged, Key, timed_send
    <2> QED
      BY <1>1, <2>1, <2>2
  <1>8. CASE Hear
    BY <1>1, <1>8 DEF Hear, InRelay
  <1>9. CASE Resume
    <2>1. stale' = 0 /\ heartbeat' = hb_interval /\ UNCHANGED <<hb_interval, hb_timeout>>
      BY <1>9 DEF Resume
    <2>2. client' = "relay" \/ (client' = "sending" /\ blocked' = SendTimeout)
      BY <1>9 DEF Resume, timed_send
    <2> QED
      BY <1>1, <2>1, <2>2
  <1>10. CASE Take \/ Discard \/ Output \/ IdleEvict
    BY <1>1, <1>10 DEF Take, Discard, Output, IdleEvict
  <1> QED
    BY <1>2, <1>3, <1>4, <1>5, <1>6, <1>7, <1>8, <1>9, <1>10 DEF Next

-----------------------------------------------------------------------------
(* A healthy link *)

\* What holds of two ends that nothing happened to.
CalmSpan == CalmInv /\ HeardInv /\ AskedInv

Typed == TimesAssumption /\ TypeOK /\ WireInv /\ ClampInv

\* The numbers, as the steps below use them.
LEMMA Numbers ==
  ASSUME Typed
  PROVE  /\ Evict \in Nat /\ Delay \in Nat
         /\ hb_interval \in Nat /\ hb_interval >= 1 /\ hb_timeout \in Nat
         /\ 2 * hb_interval + Delay <= Evict
         /\ last_activity \in Nat /\ last_outbound_at \in Nat /\ last_client_frame_at \in Nat
         /\ last_activity <= Evict + 1 /\ last_outbound_at <= Evict + 1
         /\ last_client_frame_at <= Evict + 1
         /\ heartbeat \in Nat /\ heartbeat <= hb_interval
  BY DEF Typed, TimesAssumption, TypeOK, ClampInv

LEMMA Frames ==
  ASSUME Typed
  PROVE  /\ \A j \in DOMAIN up : up[j].age \in 0..Delay
         /\ \A j \in DOMAIN down : down[j].age \in 0..Delay
         /\ up # <<>> => Head(up) = up[1] /\ 1 \in DOMAIN up
  <1>1. ASSUME NEW j \in DOMAIN up PROVE up[j].age \in 0..Delay
    <2>1. up[j] \in [kind : {"Ping", "Data", "Resize"}, age : 0..Delay]
      BY Element DEF Typed, WireInv, UpType
    <2> QED
      BY <2>1
  <1>2. ASSUME NEW j \in DOMAIN down PROVE down[j].age \in 0..Delay
    <2>1. down[j] \in [kind : {"Pong", "Data", "Eof"}, age : 0..Delay]
      BY Element DEF Typed, WireInv, DownType
    <2> QED
      BY <2>1
  <1> QED
    BY <1>1, <1>2, Taken DEF Typed, WireInv, UpType

\* The session never finds the client too old.
LEMMA NotTooOld == ASSUME Typed, CalmSpan PROVE last_client_frame_at < Evict
  <1>1. up # <<>> => Head(up).age <= Delay /\ Head(up).age \in Nat
    BY Frames, Numbers
  <1>2. up # <<>> => last_client_frame_at <= Head(up).age + 2 * hb_interval - 1
    BY DEF CalmSpan, HeardInv
  <1>3. up = <<>> => last_client_frame_at <= last_outbound_at
    BY DEF CalmSpan, HeardInv
  <1>4. last_outbound_at + heartbeat <= 2 * hb_interval - 1
    BY DEF CalmSpan, HeardInv
  <1> QED
    BY <1>1, <1>2, <1>3, <1>4, Numbers

\* Nor does the client, if it waits for two intervals and a round trip.
LEMMA NotStale ==
  ASSUME Typed, CalmSpan
  PROVE  last_activity <= 2 * hb_interval + 2 * Delay - 1
  <1>1. CASE last_activity + heartbeat <= 2 * hb_interval - 1
    BY <1>1, Numbers
  <1>2. CASE Asked
    <2>1. PICK j \in DOMAIN up : last_activity <= up[j].age + 2 * hb_interval - 1
      BY <1>2 DEF Asked
    <2>2. up[j].age \in 0..Delay
      BY Frames
    <2> QED
      BY <2>1, <2>2, Numbers
  <1>3. CASE Answered
    <2>1. PICK j \in DOMAIN down : last_activity <= down[j].age + Delay + 2 * hb_interval - 1
      BY <1>3 DEF Answered
    <2>2. down[j].age \in 0..Delay
      BY Frames
    <2> QED
      BY <2>1, <2>2, Numbers
  <1> QED
    BY <1>1, <1>2, <1>3 DEF CalmSpan, AskedInv

\* A frame that the client sends over a link that is up.
LEMMA SentCalmly ==
  ASSUME Typed, CalmSpan, ~disturbed, ~disturbed', NEW kind \in {"Ping", "Data", "Resize"}, timed_send(kind),
         UNCHANGED <<hb_interval, awake, last_activity, server, last_client_frame_at, link, down>>
  PROVE  /\ CalmInv' /\ last_outbound_at' = 0
         /\ up' # <<>>
         /\ last_client_frame_at' <= Head(up').age + 2 * hb_interval - 1
         /\ Asked => Asked'
         /\ Answered => Answered'
         /\ kind = "Ping" /\ last_activity <= 2 * hb_interval - 1 => Asked'
  <1> DEFINE f == [kind |-> kind, age |-> 0]
             T == [kind : {"Ping", "Data", "Resize"}, age : 0..Delay]
  <1>1. link = "up" /\ CalmInv
    BY DEF CalmSpan, CalmInv
  <1>2. up' = Append(up, f) /\ last_outbound_at' = 0 /\ client' = "relay"
    BY <1>1 DEF timed_send
  <1>3. up \in Seq(T) /\ f \in T /\ f.kind = kind /\ f.age = 0
    BY Numbers DEF Typed, WireInv, UpType
  <1> HIDE DEF f, T
  <1>4. /\ up' # <<>>
        /\ \A i \in DOMAIN up : i \in DOMAIN up' /\ up'[i] = up[i]
        /\ Len(up) + 1 \in DOMAIN up' /\ up'[Len(up) + 1] = f
        /\ Head(up') = IF up = <<>> THEN f ELSE Head(up)
    BY <1>2, <1>3, Queued
  <1>5. CalmInv'
    BY <1>1, <1>2 DEF CalmInv
  <1>6. last_client_frame_at <= Head(up').age + 2 * hb_interval - 1
    <2>1. CASE up = <<>>
      <3>1. last_client_frame_at <= last_outbound_at /\ last_outbound_at + heartbeat <= 2 * hb_interval - 1
        BY <2>1 DEF CalmSpan, HeardInv
      <3>2. Head(up').age = 0
        BY <1>3, <1>4, <2>1
      <3> QED
        BY <3>1, <3>2, Numbers
    <2>2. CASE up # <<>>
      BY <1>4, <2>2 DEF CalmSpan, HeardInv
    <2> QED
      BY <2>1, <2>2
  <1>7. Asked => Asked'
    BY <1>4 DEF Asked
  <1>8. Answered => Answered'
    BY DEF Answered
  <1>9. ASSUME kind = "Ping", last_activity <= 2 * hb_interval - 1 PROVE Asked'
    <2>1. last_activity <= f.age + 2 * hb_interval - 1
      BY <1>3, <1>9, Numbers
    <2> QED
      BY <1>3, <1>4, <1>9, <2>1 DEF Asked
  <1> QED
    BY <1>2, <1>4, <1>5, <1>6, <1>7, <1>8, <1>9

\* A second passes only while nothing is due: the tick, a frame or an eviction.
LEMMA CalmSecond ==
  ASSUME Typed, CalmSpan, ~disturbed, Second
  PROVE  CalmSpan'
  <1>1. /\ client = "relay" /\ awake /\ link = "up"
        /\ UNCHANGED <<hb_interval, client, awake, server, link>>
        /\ heartbeat > 0 /\ heartbeat' = heartbeat - 1
    BY Numbers DEF Second, NothingDue, CalmSpan, CalmInv, config
  <1>2. /\ \A j \in DOMAIN up : up[j].age < Delay
        /\ \A j \in DOMAIN down : down[j].age < Delay
    BY <1>1 DEF Second, NothingDue
  <1>3. /\ last_activity' <= last_activity + 1 /\ last_activity' \in Nat
        /\ last_outbound_at' <= last_outbound_at + 1 /\ last_outbound_at' \in Nat
        /\ last_client_frame_at' <= last_client_frame_at + 1 /\ last_client_frame_at' \in Nat
        /\ last_client_frame_at <= last_outbound_at => last_client_frame_at' <= last_outbound_at'
    <2>1. \A a \in Nat : Older(a) = IF a <= Evict THEN a + 1 ELSE Evict + 1
      BY OlderIs DEF Typed
    <2> QED
      BY <1>1, <2>1, Numbers DEF Second
  <1>4. /\ up' # <<>> <=> up # <<>>
        /\ DOMAIN up' = DOMAIN up /\ DOMAIN down' = DOMAIN down
        /\ \A j \in DOMAIN up : up'[j].kind = up[j].kind /\ up'[j].age = up[j].age + 1
        /\ \A j \in DOMAIN down : down'[j].kind = down[j].kind /\ down'[j].age = down[j].age + 1
        /\ up # <<>> => Head(up') = up'[1]
    <2>1. /\ up' \in Seq([kind : {"Ping", "Data", "Resize"}, age : 0..Delay])
          /\ Len(up') = Len(up) /\ DOMAIN up' = DOMAIN up
          /\ \A j \in DOMAIN up : up'[j].kind = up[j].kind /\ up'[j].age = up[j].age + 1
      BY <1>2, Aged DEF Second, Typed, WireInv, UpType
    <2>2. /\ DOMAIN down' = DOMAIN down
          /\ \A j \in DOMAIN down : down'[j].kind = down[j].kind /\ down'[j].age = down[j].age + 1
      BY <1>2, Aged DEF Second, Typed, WireInv, DownType
    <2>3. up' # <<>> <=> up # <<>>
      BY <2>1 DEF Typed, WireInv, UpType
    <2>4. up # <<>> => Head(up') = up'[1]
      BY <2>1, <2>3, Taken
    <2> QED
      BY <2>1, <2>2, <2>3, <2>4
  <1>5. CalmInv'
    BY <1>1, <1>4 DEF CalmSpan, CalmInv
  <1>6. HeardInv'
    <2>1. last_outbound_at' + heartbeat' <= 2 * hb_interval - 1
      <3>1. last_outbound_at + heartbeat <= 2 * hb_interval - 1
        BY DEF CalmSpan, HeardInv
      <3> QED
        BY <1>1, <1>3, <3>1, Numbers
    <2>2. up = <<>> => last_client_frame_at' <= last_outbound_at'
      BY <1>3 DEF CalmSpan, HeardInv
    <2>3. ASSUME up # <<>> PROVE last_client_frame_at' <= Head(up').age + 2 * hb_interval - 1
      <3>1. Head(up).age \in 0..Delay /\ Head(up').age = Head(up).age + 1
        BY <1>4, <2>3, Frames
      <3>2. last_client_frame_at <= Head(up).age + 2 * hb_interval - 1
        BY <2>3 DEF CalmSpan, HeardInv
      <3> QED
        BY <1>3, <3>1, <3>2, Numbers
    <2> QED
      BY <1>1, <1>4, <2>1, <2>2, <2>3 DEF HeardInv
  <1>7. AskedInv'
    <2>1. CASE last_activity + heartbeat <= 2 * hb_interval - 1
      BY <1>1, <1>3, <2>1, Numbers DEF AskedInv
    <2>2. CASE Asked
      <3>1. PICK j \in DOMAIN up :
               up[j].kind = "Ping" /\ last_activity <= up[j].age + 2 * hb_interval - 1
        BY <2>2 DEF Asked
      <3>2. last_activity' <= up'[j].age + 2 * hb_interval - 1
        <4>1. up[j].age \in 0..Delay /\ up'[j].age = up[j].age + 1
          BY <1>4, Frames
        <4> QED
          BY <1>3, <3>1, <4>1, Numbers
      <3> QED
        BY <1>1, <1>4, <3>1, <3>2 DEF AskedInv, Asked
    <2>3. CASE Answered
      <3>1. PICK j \in DOMAIN down : last_activity <= down[j].age + Delay + 2 * hb_interval - 1
        BY <2>3 DEF Answered
      <3>2. last_activity' <= down'[j].age + Delay + 2 * hb_interval - 1
        <4>1. down[j].age \in 0..Delay /\ down'[j].age = down[j].age + 1
          BY <1>4, Frames
        <4> QED
          BY <1>3, <3>1, <4>1, Numbers
      <3> QED
        BY <1>1, <1>4, <3>1, <3>2 DEF AskedInv, Answered
    <2> QED
      BY <2>1, <2>2, <2>3 DEF CalmSpan, AskedInv
  <1> QED
    BY <1>5, <1>6, <1>7 DEF CalmSpan

\* A Ping or another frame leaves the client early enough.
LEMMA CalmSend ==
  ASSUME Typed, CalmSpan, ~disturbed, ~disturbed', Heartbeat \/ NetChanged \/ Key
  PROVE  CalmSpan'
  <1>1. hb_interval + hb_interval = 2 * hb_interval /\ hb_interval <= 2 * hb_interval - 1
    BY Numbers
  <1>2. CASE Heartbeat /\ ~PingDue
    <2>1. /\ UNCHANGED <<hb_interval, client, awake, link, server, up, down,
                         last_activity, last_outbound_at, last_client_frame_at>>
          /\ heartbeat' = hb_interval
      BY <1>2 DEF Heartbeat, config
    <2>2. last_outbound_at < hb_interval /\ last_activity < hb_interval
      BY <1>2, Numbers DEF PingDue
    <2>3. /\ last_outbound_at + hb_interval <= 2 * hb_interval - 1
          /\ last_activity + hb_interval <= 2 * hb_interval - 1
      BY <2>2, Numbers
    <2> QED
      BY <2>1, <2>3, Zenon DEF CalmSpan, CalmInv, HeardInv, AskedInv
  <1>3. ASSUME NEW kind \in {"Ping", "Data", "Resize"}, timed_send(kind),
               UNCHANGED <<hb_interval, awake, last_activity, server, last_client_frame_at, link, down>>,
               heartbeat' \in Nat, heartbeat' <= hb_interval,
               heartbeat' = heartbeat \/ (kind = "Ping" /\ heartbeat = 0)
        PROVE  CalmSpan'
    <2>1. /\ CalmInv' /\ last_outbound_at' = 0 /\ up' # <<>>
          /\ last_client_frame_at' <= Head(up').age + 2 * hb_interval - 1
          /\ Asked => Asked'
          /\ Answered => Answered'
          /\ kind = "Ping" /\ last_activity <= 2 * hb_interval - 1 => Asked'
      BY <1>3, SentCalmly
    <2>2. 0 + heartbeat' <= 2 * hb_interval - 1
      BY <1>1, <1>3, Numbers
    <2>3. HeardInv'
      BY <1>3, <2>1, <2>2, Zenon DEF HeardInv
    <2>4. AskedInv'
      <3>1. CASE Asked \/ Answered
        BY <2>1, <3>1 DEF CalmSpan, AskedInv
      <3>2. CASE last_activity + heartbeat <= 2 * hb_interval - 1 /\ heartbeat' = heartbeat
        BY <1>3, <3>2, Zenon DEF AskedInv
      <3>3. CASE last_activity + heartbeat <= 2 * hb_interval - 1 /\ kind = "Ping" /\ heartbeat = 0
        <4>1. last_activity <= 2 * hb_interval - 1
          BY <3>3, Numbers
        <4> QED
          BY <2>1, <3>3, <4>1 DEF AskedInv
      <3> QED
        BY <1>3, <3>1, <3>2, <3>3 DEF CalmSpan, AskedInv
    <2> QED
      BY <2>1, <2>3, <2>4 DEF CalmSpan
  <1>4. CASE Heartbeat /\ PingDue
    <2>1. timed_send("Ping") /\ heartbeat' = hb_interval
      BY <1>4 DEF Heartbeat
    <2>2. UNCHANGED <<hb_interval, awake, last_activity, server, last_client_frame_at, link, down>>
      BY <1>4 DEF Heartbeat, config
    <2>3. heartbeat = 0 /\ heartbeat' \in Nat /\ heartbeat' <= hb_interval
      BY <1>4, <2>1, Numbers DEF Heartbeat
    <2> QED
      BY <1>3, <2>1, <2>2, <2>3
  <1>5. CASE NetChanged \/ Key
    <2>1. timed_send("Ping") \/ timed_send("Data")
      BY <1>5 DEF NetChanged, Key
    <2>2. UNCHANGED <<hb_interval, awake, last_activity, server, last_client_frame_at, link, down,
                      heartbeat>>
      BY <1>5 DEF NetChanged, Key, config
    <2>3. heartbeat' \in Nat /\ heartbeat' <= hb_interval
      BY <2>2, Numbers
    <2> QED
      BY <1>3, <2>1, <2>2, <2>3
  <1> QED
    BY <1>2, <1>4, <1>5

\* The session's answer to a Ping is on its way when the Ping no longer is.
LEMMA CalmTake ==
  ASSUME Typed, Typed', CalmSpan, Take
  PROVE  CalmSpan'
  <1> DEFINE f == [kind |-> "Pong", age |-> 0]
             T == [kind : {"Ping", "Data", "Resize"}, age : 0..Delay]
             U == [kind : {"Pong", "Data", "Eof"}, age : 0..Delay]
  <1>1. /\ up # <<>> /\ up' = Tail(up)
        /\ down' = IF Head(up).kind = "Ping" THEN Append(down, f) ELSE down
        /\ last_client_frame_at' = 0
        /\ UNCHANGED <<hb_interval, client, awake, link, server, last_activity, last_outbound_at,
                       heartbeat>>
    BY DEF Take, config
  <1>2. up \in Seq(T) /\ down \in Seq(U) /\ f \in U /\ f.kind = "Pong" /\ f.age = 0
    BY Numbers DEF Typed, WireInv, UpType, DownType
  <1> HIDE DEF f, T, U
  <1>3. /\ Head(up) = up[1]
        /\ \A i \in DOMAIN up : i # 1 => i - 1 \in DOMAIN Tail(up) /\ Tail(up)[i - 1] = up[i]
    BY <1>1, <1>2, Taken
  <1>4. /\ DOMAIN Append(down, f) = 1..(Len(down) + 1) /\ Len(down) \in Nat
        /\ \A i \in DOMAIN down : i \in DOMAIN Append(down, f) /\ Append(down, f)[i] = down[i]
        /\ Append(down, f)[Len(down) + 1] = f
    BY <1>2, Queued
  <1>5. \A i \in DOMAIN down : i \in DOMAIN down' /\ down'[i] = down[i]
    BY <1>1, <1>4
  <1>6. CalmInv'
    <2>1. ASSUME NEW j \in DOMAIN down' PROVE down'[j].kind # "Eof"
      <3>1. CASE j \in DOMAIN down
        BY <1>5, <3>1 DEF CalmSpan, CalmInv
      <3>2. CASE j \notin DOMAIN down
        <4>1. DOMAIN down = 1..Len(down) /\ down' = Append(down, f)
          BY <1>1, <1>2, <2>1, <3>2
        <4>2. j = Len(down) + 1
          BY <1>4, <2>1, <3>2, <4>1
        <4> QED
          BY <1>2, <1>4, <4>1, <4>2
      <3> QED
        BY <3>1, <3>2
    <2> QED
      BY <1>1, <2>1 DEF CalmSpan, CalmInv
  <1>7. HeardInv'
    <2>1. up' # <<>> => Head(up').age \in Nat
      <3>1. \A j \in DOMAIN up' : up'[j].age \in 0..Delay
        <4>1. up' \in Seq([kind : {"Ping", "Data", "Resize"}, age : 0..Delay])
          BY DEF Typed, WireInv, UpType
        <4>2. ASSUME NEW j \in DOMAIN up' PROVE up'[j].age \in 0..Delay
          <5>1. up'[j] \in [kind : {"Ping", "Data", "Resize"}, age : 0..Delay]
            BY <4>1, Element
          <5> QED
            BY <5>1
        <4> QED
          BY <4>2
      <3>2. up' # <<>> => Head(up') = up'[1] /\ 1 \in DOMAIN up'
        BY Taken DEF Typed, WireInv, UpType
      <3> QED
        BY <3>1, <3>2, Numbers
    <2>2. up' # <<>> => 0 <= Head(up').age + 2 * hb_interval - 1
      BY <2>1, Numbers
    <2>3. 0 <= last_outbound_at
      BY Numbers
    <2>4. last_outbound_at + heartbeat <= 2 * hb_interval - 1
      BY DEF CalmSpan, HeardInv
    <2> QED
      BY <1>1, <2>2, <2>3, <2>4, Zenon DEF HeardInv
  <1>8. AskedInv'
    <2>1. CASE last_activity + heartbeat <= 2 * hb_interval - 1
      BY <1>1, <2>1, Zenon DEF AskedInv
    <2>2. CASE Answered
      BY <1>1, <1>5, <2>2, Zenon DEF Answered, AskedInv
    <2>3. CASE Asked
      <3>1. PICK j \in DOMAIN up :
               up[j].kind = "Ping" /\ last_activity <= up[j].age + 2 * hb_interval - 1
        BY <2>3 DEF Asked
      <3>2. CASE j = 1
        <4>1. down' = Append(down, f)
          BY <1>1, <1>3, <3>1, <3>2
        <4>2. Len(down) + 1 \in DOMAIN down' /\ down'[Len(down) + 1] = f
          BY <1>4, <4>1
        <4>3. last_activity <= 0 + Delay + 2 * hb_interval - 1
          <5>1. up[j].age \in 0..Delay /\ last_activity <= up[j].age + 2 * hb_interval - 1
            BY <3>1, Frames
          <5> QED
            BY <5>1, Numbers
        <4>4. f.age + Delay + 2 * hb_interval - 1 = 0 + Delay + 2 * hb_interval - 1
          BY <1>2
        <4> QED
          BY <1>1, <4>2, <4>3, <4>4, Zenon DEF Answered, AskedInv
      <3>3. CASE j # 1
        BY <1>1, <1>3, <3>1, <3>3, Zenon DEF Asked, AskedInv
      <3> QED
        BY <3>2, <3>3
    <2> QED
      BY <2>1, <2>2, <2>3 DEF CalmSpan, AskedInv
  <1> QED
    BY <1>6, <1>7, <1>8 DEF CalmSpan

LEMMA CalmStep ==
  ASSUME Typed, Typed', CalmSpan, ~disturbed, ~disturbed', [Next]_vars
  PROVE  CalmSpan'
  <1>1. /\ client \in {"relay", "gone"} /\ awake /\ link = "up" /\ server = "serving"
        /\ \A j \in DOMAIN down : down[j].kind # "Eof"
    BY DEF CalmSpan, CalmInv
  <1> USE DEF config
  <1>2. CASE UNCHANGED vars
    BY <1>2 DEF vars, CalmSpan, CalmInv, HeardInv, AskedInv, Asked, Answered
  <1>3. CASE Second
    BY <1>3, CalmSecond
  <1>4. CASE Sleep \/ Wake \/ LinkDies \/ Suspend \/ Resume \/ SendTimesOut \/ Discard
    BY <1>1, <1>4 DEF Sleep, Wake, LinkDies, Suspend, Resume, SendTimesOut, Discard
  <1>5. CASE HeartbeatStale \/ KeyStale \/ HearEof
    BY <1>1, <1>5 DEF HeartbeatStale, KeyStale, HearEof, Disconnect, CalmSpan, CalmInv, HeardInv,
                      AskedInv, Asked, Answered
  <1>6. CASE Heartbeat \/ NetChanged \/ Key
    BY <1>6, CalmSend
  <1>7. CASE Hear
    <2>1. /\ down # <<>> /\ down' = Tail(down) /\ last_activity' = 0
          /\ UNCHANGED <<hb_interval, client, awake, link, server, up, last_outbound_at,
                         last_client_frame_at, heartbeat>>
      BY <1>7 DEF Hear
    <2>2. \A j \in DOMAIN down' : down'[j].kind # "Eof"
      BY <1>1, <2>1, Taken DEF Typed, WireInv, DownType
    <2>3. 0 + heartbeat <= 2 * hb_interval - 1
      BY Numbers
    <2>4. CalmInv' /\ HeardInv'
      BY <2>1, <2>2, Zenon DEF CalmSpan, CalmInv, HeardInv
    <2>5. AskedInv'
      BY <2>1, <2>3, Zenon DEF AskedInv
    <2> QED
      BY <2>4, <2>5 DEF CalmSpan
  <1>8. CASE Take
    BY <1>8, CalmTake
  <1>9. CASE Output
    <2>1. /\ down' = Append(down, [kind |-> "Data", age |-> 0])
          /\ UNCHANGED <<hb_interval, client, awake, link, server, up, last_outbound_at,
                         last_client_frame_at, heartbeat, last_activity>>
      BY <1>9 DEF Output
    <2>2. /\ \A j \in DOMAIN down : j \in DOMAIN down' /\ down'[j] = down[j]
          /\ \A j \in DOMAIN down' : j \in DOMAIN down \/ down'[j].kind = "Data"
      <3>1. /\ down \in Seq([kind : {"Pong", "Data", "Eof"}, age : 0..Delay])
            /\ [kind |-> "Data", age |-> 0] \in [kind : {"Pong", "Data", "Eof"}, age : 0..Delay]
        BY Numbers DEF Typed, WireInv, DownType
      <3>2. /\ DOMAIN down' = 1..(Len(down) + 1) /\ Len(down) \in Nat /\ DOMAIN down = 1..Len(down)
            /\ \A j \in DOMAIN down : j \in DOMAIN down' /\ down'[j] = down[j]
            /\ down'[Len(down) + 1] = [kind |-> "Data", age |-> 0]
        BY <2>1, <3>1, Queued
      <3>3. ASSUME NEW j \in DOMAIN down', j \notin DOMAIN down PROVE down'[j].kind = "Data"
        <4>1. j = Len(down) + 1
          BY <3>2, <3>3
        <4> QED
          BY <3>2, <4>1
      <3> QED
        BY <3>2, <3>3
    <2>3. CalmInv'
      BY <1>1, <2>1, <2>2 DEF CalmInv
    <2>4. HeardInv'
      BY <2>1, Zenon DEF CalmSpan, HeardInv
    <2>5. AskedInv'
      BY <2>1, <2>2, Zenon DEF CalmSpan, AskedInv, Asked, Answered
    <2> QED
      BY <2>3, <2>4, <2>5 DEF CalmSpan
  <1>10. CASE IdleEvict
    <2>1. last_client_frame_at < Evict
      BY NotTooOld
    <2> QED
      BY <1>10, <2>1, Numbers DEF IdleEvict
  <1> QED
    BY <1>2, <1>3, <1>4, <1>5, <1>6, <1>7, <1>8, <1>9, <1>10 DEF Next

\* Of the four ways to give up, the other three are not open to the client.
LEMMA GoneStep ==
  ASSUME Typed, CalmSpan, GoneInv, ~disturbed, [Next]_vars
  PROVE  GoneInv'
  <1>1. /\ client \in {"relay", "gone"} /\ awake /\ link = "up"
        /\ \A j \in DOMAIN down : down[j].kind # "Eof"
    BY DEF CalmSpan, CalmInv
  <1>2. down # <<>> => Head(down).kind # "Eof"
    BY <1>1, Taken DEF Typed, WireInv, DownType
  <1>3. CASE HeartbeatStale \/ KeyStale
    <2>1. last_activity > hb_timeout /\ UNCHANGED <<last_activity, hb_timeout>>
      BY <1>3 DEF HeartbeatStale, KeyStale, link_is_stale, Disconnect, config
    <2> QED
      BY <2>1, Zenon DEF GoneInv
  <1>4. CASE ~(HeartbeatStale \/ KeyStale)
    <2>1. client' = "gone" => client = "gone" /\ UNCHANGED <<last_activity, hb_timeout>>
      BY <1>1, <1>2, <1>4
         DEF Next, Second, Sleep, Wake, LinkDies, SendTimesOut, Heartbeat, NetChanged, Key, Hear,
             HearEof, Suspend, Resume, Take, Discard, Output, IdleEvict, InRelay, timed_send,
             config, vars
    <2> QED
      BY <2>1, Zenon DEF GoneInv
  <1> QED
    BY <1>3, <1>4

-----------------------------------------------------------------------------
(* The theorems *)

LEMMA StaysDisturbed == ASSUME [Next]_vars, ~disturbed' PROVE ~disturbed
  BY DEF Next, Second, Sleep, Wake, LinkDies, SendTimesOut, HeartbeatStale, Heartbeat, NetChanged,
         KeyStale, Key, Hear, HearEof, Suspend, Resume, Take, Discard, Output, IdleEvict,
         Disconnect, vars

LEMMA InvInit == TimesAssumption /\ Init => IInv
  <1> SUFFICES ASSUME TimesAssumption, Init PROVE IInv
    OBVIOUS
  <1>1. TypeOK /\ WireInv /\ ClampInv
    BY InitType
  <1>2. Typed
    BY <1>1 DEF Typed
  <1>3. heartbeat = hb_interval /\ last_activity = 0 /\ last_outbound_at = 0 /\ stale = 0
    BY DEF Init
  <1>4. StaleInv
    BY <1>2, <1>3, Numbers DEF Init, StaleInv
  <1>5. 0 + hb_interval <= 2 * hb_interval - 1
    BY <1>2, Numbers
  <1>6. CalmInv /\ HeardInv /\ AskedInv /\ GoneInv
    <2>1. 0 <= 0 /\ DOMAIN <<>> = {}
      OBVIOUS
    <2>2. CalmInv /\ GoneInv
      BY <2>1 DEF Init, CalmInv, GoneInv
    <2>3. HeardInv /\ AskedInv
      BY <1>3, <1>5, <2>1, Zenon DEF Init, HeardInv, AskedInv
    <2> QED
      BY <2>2, <2>3
  <1> QED
    BY <1>1, <1>4, <1>6 DEF IInv

LEMMA InvNext == TimesAssumption /\ IInv /\ [Next]_vars => IInv'
  <1> SUFFICES ASSUME TimesAssumption, IInv, [Next]_vars PROVE IInv'
    OBVIOUS
  <1>1. TypeOK' /\ WireInv' /\ ClampInv' /\ StaleInv'
    BY TypeStep, ClampStep, StaleStep DEF IInv
  <1>2. TimesAssumption'
    BY DEF TimesAssumption, idle_evict_ceiling
  <1>3. Typed /\ Typed'
    BY <1>1, <1>2 DEF IInv, Typed
  <1>4. ASSUME ~disturbed' PROVE CalmSpan' /\ GoneInv'
    <2>1. ~disturbed
      BY <1>4, StaysDisturbed
    <2>2. CalmSpan /\ GoneInv
      BY <2>1 DEF IInv, CalmSpan
    <2> QED
      BY <1>3, <1>4, <2>1, <2>2, CalmStep, GoneStep
  <1> QED
    BY <1>1, <1>4 DEF IInv, CalmSpan

\* The ages of the last signs of life stay within what the ticks and the frames on
\* their way allow.
THEOREM Invariance == ASSUME TimesAssumption PROVE Spec => []IInv
  <1>1. Init => IInv
    BY InvInit
  <1>2. IInv /\ [Next]_vars => IInv'
    BY InvNext
  <1> QED
    BY <1>1, <1>2, PTL DEF Spec

\* Whatever the configuration says, the times in use are in order and leave the
\* session its margin (clamp_heartbeat), and no timer leaves its range.
THEOREM TypeCorrect == ASSUME TimesAssumption PROVE Spec => []TypeOK
  <1>1. IInv => TypeOK
    BY DEF IInv
  <1> QED
    BY <1>1, Invariance, PTL

\* For every ceiling, margin and delay within it, and every configuration: the
\* session never evicts a client that runs behind a link that is up (clamp_heartbeat,
\* IDLE_EVICT_TIMEOUT), nor does such a client give up, when its timeout leaves
\* room for two intervals and a round trip (link_is_stale).
THEOREM HealthyLinkStays == ASSUME TimesAssumption PROVE Spec => []HealthyStays
  <1>1. IInv => HealthyStays
    <2> SUFFICES ASSUME IInv, ~disturbed
                 PROVE  /\ server = "serving"
                        /\ hb_timeout >= 2 * hb_interval + 2 * Delay - 1 => client = "relay"
      BY DEF HealthyStays
    <2>1. Typed /\ CalmSpan /\ GoneInv
      BY DEF IInv, Typed, CalmSpan
    <2>2. last_activity <= 2 * hb_interval + 2 * Delay - 1
      BY <2>1, NotStale
    <2>3. hb_timeout >= 2 * hb_interval + 2 * Delay - 1 => ~(last_activity > hb_timeout)
      BY <2>1, <2>2, Numbers
    <2> QED
      BY <2>1, <2>3 DEF CalmSpan, CalmInv, GoneInv
  <1> QED
    BY <1>1, Invariance, PTL

\* However long the laptop slept and whatever is sent meanwhile, a client whose
\* link has gone stale gives it up within a heartbeat interval and a send that
\* blocks (link_is_stale, timed_send).
THEOREM DeadLinkNoticed == ASSUME TimesAssumption PROVE Spec => []DeadNoticed
  <1>1. IInv => DeadNoticed
    <2> SUFFICES ASSUME IInv, client # "gone" PROVE stale <= hb_interval + SendTimeout
      BY DEF DeadNoticed
    <2>1. TypeOK /\ StaleInv
      BY DEF IInv
    <2>2. /\ stale \in Nat /\ hb_interval \in Nat /\ SendTimeout \in Nat
          /\ heartbeat \in Nat /\ blocked \in Nat /\ client \in {"relay", "sending", "stopped"}
      BY <2>1 DEF TypeOK, TimesAssumption
    <2>3. CASE client = "relay"
      BY <2>1, <2>2, <2>3 DEF StaleInv
    <2>4. CASE client = "sending"
      BY <2>1, <2>2, <2>4 DEF StaleInv
    <2>5. CASE client = "stopped"
      BY <2>1, <2>2, <2>5 DEF StaleInv
    <2> QED
      BY <2>2, <2>3, <2>4, <2>5
  <1> QED
    BY <1>1, Invariance, PTL

-----------------------------------------------------------------------------
(* The reconnect loop *)

\* A wait is no longer than the schedule, nor than what is left of the grace.
LEMMA WaitBounded ==
  ASSUME R!GraceAssumption, tail \in BOOLEAN,
         NEW b \in 0..BackoffMax,
         NEW sg \in -1..(SocketGrace + 1), NEW dg \in -1..(DaemonGrace + 1)
  PROVE  /\ R!WaitFor(b, sg, dg) \in 0..BackoffMax
         /\ sg # -1 /\ sg < SocketGrace => sg + R!WaitFor(b, sg, dg) <= SocketGrace
         /\ R!WaitFor(b, sg, dg) = 0 => ~tail
  <1>1. R!next_reconnect_delay(b) \in 0..BackoffMax
    BY DEF R!next_reconnect_delay, R!Min2, R!GraceAssumption
  <1>2. /\ R!Remaining(sg, SocketGrace) \in Nat /\ R!Remaining(dg, DaemonGrace) \in Nat
        /\ sg # -1 /\ sg < SocketGrace => R!Remaining(sg, SocketGrace) = SocketGrace - sg
    BY DEF R!Remaining, R!Max2, R!GraceAssumption
  <1>3. CASE tail
    BY <1>3 DEF R!WaitFor, R!GraceAssumption
  <1>4. CASE ~tail
    BY <1>1, <1>2, <1>4 DEF R!WaitFor, R!cap_backoff, R!Min2, R!GraceAssumption
  <1> QED
    BY <1>3, <1>4

\* The top of the loop with an admissible schedule and admissible streaks.
LEMMA WaitsType ==
  ASSUME R!GraceAssumption, R!TypeOK,
         NEW b \in 0..BackoffMax,
         NEW sg \in -1..(SocketGrace + 1), NEW dg \in -1..(DaemonGrace + 1),
         R!Waits(b, sg, dg)
  PROVE  /\ pc' = "wait" /\ why' = why /\ UNCHANGED R!try
         /\ backoff' \in 0..BackoffMax /\ left' \in 0..BackoffMax
         /\ socket_gone' = sg /\ daemon_gone' = dg
         /\ sg # -1 /\ sg < SocketGrace => sg + left' <= SocketGrace
  BY WaitBounded DEF R!Waits, R!TypeOK

\* The arithmetic of the schedule and of the streaks.
LEMMA ReconnectRanges ==
  ASSUME R!GraceAssumption, R!TypeOK
  PROVE  /\ 0 \in 0..BackoffMax /\ -1 \in -1..(SocketGrace + 1) /\ -1 \in -1..(DaemonGrace + 1)
         /\ R!next_reconnect_delay(backoff) \in 0..BackoffMax
         /\ R!Streak(socket_gone) \in 0..(SocketGrace + 1)
         /\ R!Streak(daemon_gone) \in 0..(DaemonGrace + 1)
         /\ R!Older(socket_gone, SocketGrace) \in -1..(SocketGrace + 1)
         /\ R!Older(daemon_gone, DaemonGrace) \in -1..(DaemonGrace + 1)
  BY DEF R!TypeOK, R!GraceAssumption, R!next_reconnect_delay, R!Min2, R!Streak, R!Older

\* What no step of the loop itself changes.
Apart == UNCHANGED <<tail, is_remote, R!worldVars, faults, dead, deaths>>

\* The top of the loop keeps the invariant if the streaks are no older than the
\* death, and the streak of the socket leaves room for the wait.
LEMMA WaitsKeeps ==
  ASSUME R!GraceAssumption, R!IInv, R!Looping,
         NEW b \in 0..BackoffMax,
         NEW sg \in -1..(SocketGrace + 1), NEW dg \in -1..(DaemonGrace + 1),
         R!Waits(b, sg, dg), Apart,
         event' \in BOOLEAN, elapsed' \in 0..1, was_offline' \in BOOLEAN,
         R!LooksDead' => R!Bounded(sg, dg),
         deaths = 0 => sg = -1 /\ dg = -1,
         sg = -1 \/ sg < SocketGrace \/ was_offline'
  PROVE  R!IInv'
  <1>1. R!TypeOK /\ R!VerdictInv
    BY DEF R!IInv
  <1>2. /\ pc' = "wait" /\ why' = why /\ UNCHANGED R!try
        /\ backoff' \in 0..BackoffMax /\ left' \in 0..BackoffMax
        /\ socket_gone' = sg /\ daemon_gone' = dg
        /\ sg # -1 /\ sg < SocketGrace => sg + left' <= SocketGrace
    BY <1>1, WaitsType
  <1>3. R!TypeOK'
    BY <1>1, <1>2 DEF R!TypeOK, Apart, R!worldVars, R!try
  <1>4. R!VerdictInv'
    BY <1>1, <1>2 DEF R!VerdictInv, R!Looping, Apart
  <1>5. R!OutageInv'
    BY <1>2 DEF R!OutageInv, R!Bounded, Apart
  <1>6. R!WaitInv'
    BY <1>2 DEF R!WaitInv
  <1> QED
    BY <1>3, <1>4, <1>5, <1>6 DEF R!IInv

\* An exit keeps it if its reason holds.
LEMMA ExitsKeeps ==
  ASSUME R!GraceAssumption, R!IInv,
         NEW r \in {"socket_gone", "daemon_gone", "handshake", "session", "user"},
         R!Exits(r), Apart,
         event' \in BOOLEAN, elapsed' \in 0..1, was_offline' \in BOOLEAN,
         r \in {"socket_gone", "daemon_gone"} =>
             deaths = 2 \/ (deaths = 1 /\ dead >= SocketGrace)
  PROVE  R!IInv'
  <1>1. R!TypeOK
    BY DEF R!IInv
  <1>2. R!TypeOK'
    BY <1>1 DEF R!TypeOK, R!Exits, Apart, R!worldVars, R!gates, R!try
  <1>3. R!VerdictInv'
    BY DEF R!VerdictInv, R!Exits, Apart
  <1>4. R!OutageInv' /\ R!WaitInv'
    BY DEF R!OutageInv, R!WaitInv, R!Looping, R!Exits
  <1> QED
    BY <1>2, <1>3, <1>4 DEF R!IInv

\* A key, a network event or the end of the wait: the loop parks, ends, waits
\* again or makes an attempt.
LEMMA WakeKeeps ==
  ASSUME R!GraceAssumption, R!IInv, NEW net_hint \in BOOLEAN, NEW key_hint \in BOOLEAN,
         R!Wake(net_hint, key_hint), event' \in BOOLEAN
  PROVE  R!IInv'
  <1>1. R!TypeOK /\ R!VerdictInv /\ R!OutageInv /\ R!WaitInv /\ pc = "wait" /\ R!Looping /\ Apart
    BY DEF R!IInv, R!Wake, R!Looping, Apart
  <1>2. CASE R!Offline /\ ~key_hint
    <2>1. R!Park
      BY <1>2 DEF R!Wake
    <2>2. R!LooksDead' => R!LooksDead
      BY <1>1, <2>1
         DEF R!LooksDead, R!tunnel_supervisor_alive, R!Park, R!Waits, Apart, R!worldVars
    <2>3. /\ R!LooksDead => R!Bounded(socket_gone, daemon_gone)
          /\ deaths = 0 => socket_gone = -1 /\ daemon_gone = -1
      BY <1>1 DEF R!OutageInv
    <2> QED
      BY <1>1, <2>1, <2>2, <2>3, WaitsKeeps DEF R!Park, R!TypeOK
  <1>3. CASE ~(R!Offline /\ ~key_hint)
    <2> DEFINE back == was_offline /\ ~R!Offline
               b    == IF net_hint \/ back THEN 0
                       ELSE IF key_hint THEN backoff ELSE R!next_reconnect_delay(backoff)
               gone == ~file /\ ~R!tunnel_supervisor_alive
               sg   == IF gone THEN R!Streak(socket_gone) ELSE -1
    <2>1. R!Look(net_hint, key_hint)
      BY <1>3 DEF R!Wake
    <2>2. was_offline' \in BOOLEAN /\ elapsed' \in 0..1
      BY <1>1, <2>1 DEF R!Look, R!TypeOK
    <2>3. b \in 0..BackoffMax
      BY <1>1, ReconnectRanges DEF R!TypeOK
    <2>4. sg \in -1..(SocketGrace + 1) /\ (gone => sg # -1)
      BY <1>1, ReconnectRanges
    <2>5. gone => R!LooksDead /\ R!Bounded(sg, daemon_gone) /\ deaths # 0
      BY <1>1 DEF R!OutageInv, R!Bounded, R!LooksDead, R!Streak, R!TypeOK
    <2>6. CASE gone /\ sg >= SocketGrace /\ R!Exits("socket_gone")
      <3>1. deaths = 2 \/ (deaths = 1 /\ dead >= SocketGrace)
        BY <1>1, <2>4, <2>5, <2>6 DEF R!Bounded, R!TypeOK, R!GraceAssumption
      <3> QED
        BY <1>1, <2>2, <2>6, <3>1, ExitsKeeps
    <2>7. CASE gone /\ sg < SocketGrace /\ R!Waits(b, sg, daemon_gone)
      BY <1>1, <2>2, <2>3, <2>4, <2>5, <2>7, WaitsKeeps DEF R!TypeOK
    <2>8. CASE /\ ~gone
               /\ pc' = "attempt" /\ backoff' = b /\ socket_gone' = sg
               /\ sup' = R!tunnel_supervisor_alive /\ dirty' = chrome_shown' /\ spent' = 0
               /\ UNCHANGED <<why, left, daemon_gone>>
      <3>1. R!TypeOK'
        <4>1. R!tunnel_supervisor_alive \in BOOLEAN
          BY DEF R!tunnel_supervisor_alive
        <4> QED
          BY <1>1, <2>2, <2>3, <2>4, <2>8, <4>1
             DEF R!TypeOK, Apart, R!worldVars, R!GraceAssumption
      <3>2. R!VerdictInv'
        BY <1>1, <2>8 DEF R!VerdictInv, Apart
      <3>3. R!OutageInv'
        <4>1. R!LooksDead' => R!LooksDead
          BY <1>1, <2>8 DEF R!LooksDead, R!tunnel_supervisor_alive, Apart, R!worldVars
        <4>2. socket_gone' = -1 /\ daemon_gone' = daemon_gone /\ dead' = dead /\ deaths' = deaths
          BY <1>1, <2>8 DEF Apart
        <4>3. dead \in Nat
          BY <1>1 DEF R!TypeOK
        <4> QED
          BY <1>1, <4>1, <4>2, <4>3 DEF R!OutageInv, R!Bounded
      <3>4. R!WaitInv'
        BY <2>8 DEF R!WaitInv
      <3> QED
        BY <3>1, <3>2, <3>3, <3>4 DEF R!IInv
    <2> QED
      BY <2>1, <2>6, <2>7, <2>8 DEF R!Look
  <1> QED
    BY <1>2, <1>3

\* The relay ends: no streak yet, and a new count of deaths.
LEMMA RelayEndsKeeps ==
  ASSUME R!GraceAssumption, R!IInv, R!RelayEnds
  PROVE  R!IInv'
  <1>1. R!TypeOK /\ R!VerdictInv /\ pc = "attached"
    BY DEF R!IInv, R!RelayEnds
  <1>2. R!Waits(0, -1, -1) /\ 0 \in 0..BackoffMax
        /\ -1 \in -1..(SocketGrace + 1) /\ -1 \in -1..(DaemonGrace + 1)
    BY <1>1, ReconnectRanges DEF R!RelayEnds
  <1>3. /\ pc' = "wait" /\ why' = why /\ UNCHANGED R!try
        /\ backoff' \in 0..BackoffMax /\ left' \in 0..BackoffMax
        /\ socket_gone' = -1 /\ daemon_gone' = -1
    BY <1>1, <1>2, WaitsType
  <1>4. dead' = 0 /\ deaths' = (IF R!LooksDead THEN 1 ELSE 0)
    BY DEF R!RelayEnds
  <1>5. R!TypeOK'
    <2>1. dead' \in 0..SocketGrace /\ deaths' \in 0..2
      BY <1>4 DEF R!GraceAssumption
    <2>2. elapsed' = 0 /\ was_offline' \in BOOLEAN
          /\ UNCHANGED <<tail, is_remote, R!worldVars, event, faults>>
      BY Zenon DEF R!RelayEnds
    <2> QED
      BY <1>1, <1>2, <1>3, <2>1, <2>2 DEF R!TypeOK, R!worldVars, R!try, R!GraceAssumption
  <1>6. R!VerdictInv'
    BY <1>1, <1>3 DEF R!VerdictInv
  <1>7. R!OutageInv'
    <2>1. R!LooksDead' => R!LooksDead
      BY <1>3 DEF R!LooksDead, R!tunnel_supervisor_alive, R!RelayEnds, R!worldVars
    <2>2. dead' \in Nat /\ (R!LooksDead' => deaths' = 1)
      BY <1>4, <2>1
    <2> QED
      BY <1>3, <2>2 DEF R!OutageInv, R!Bounded
  <1>8. R!WaitInv'
    BY <1>3 DEF R!WaitInv
  <1> QED
    BY <1>5, <1>6, <1>7, <1>8 DEF R!IInv

\* Every answer to an attempt; the client and tail differ in what they do with the
\* schedule when they try again.
LEMMA AnswerKeeps ==
  ASSUME R!GraceAssumption, R!IInv, pc = "attempt", UNCHANGED R!attemptRest,
         NEW again, again => R!Retry \/ R!TailRetry,
         R!Answer(again)
  PROVE  R!IInv'
  <1>1. /\ R!TypeOK /\ R!VerdictInv /\ R!OutageInv /\ R!WaitInv /\ R!Looping /\ Apart
        /\ event' \in BOOLEAN /\ elapsed' \in 0..1 /\ was_offline' \in BOOLEAN
    BY DEF R!IInv, R!Looping, Apart, R!attemptRest, R!TypeOK
  <1>2. socket_gone = -1 /\ dead \in Nat
    BY <1>1 DEF R!WaitInv, R!TypeOK
  <1>3. (pc' = "wait" /\ R!LooksDead') => R!LooksDead
    BY <1>1 DEF R!LooksDead, R!tunnel_supervisor_alive, Apart, R!worldVars
  <1>4. ASSUME NEW b \in 0..BackoffMax, NEW dg \in -1..(DaemonGrace + 1),
               R!Waits(b, socket_gone, dg),
               R!LooksDead => dg <= dead \/ dead >= SocketGrace \/ deaths # 1,
               deaths = 0 => dg = -1
        PROVE  R!IInv'
    <2>1. R!LooksDead' => R!Bounded(-1, dg)
      BY <1>1, <1>2, <1>3, <1>4 DEF R!OutageInv, R!Bounded, R!Waits
    <2> QED
      BY <1>1, <1>2, <1>4, <2>1, ReconnectRanges, WaitsKeeps
  <1>5. CASE again
    <2>1. CASE R!Retry
      BY <1>1, <1>2, <1>4, <2>1, ReconnectRanges DEF R!Retry, R!TypeOK
    <2>2. CASE R!TailRetry
      BY <1>1, <1>2, <1>4, <2>2, ReconnectRanges DEF R!TailRetry, R!TypeOK
    <2> QED
      BY <1>5, <2>1, <2>2
  <1>6. CASE ~R!Accepted /\ file /\ ~sup /\ R!Refused
    <2> DEFINE dg == R!Streak(daemon_gone)
    <2>1. R!LooksDead
      BY <1>6 DEF R!Accepted, R!LooksDead
    <2>2. R!Bounded(-1, dg) /\ dg \in 0..(DaemonGrace + 1)
      BY <1>1, <1>2, <2>1, ReconnectRanges DEF R!OutageInv, R!Bounded, R!Streak
    <2>3. CASE dg >= DaemonGrace /\ R!Exits("daemon_gone")
      <3>1. deaths = 2 \/ (deaths = 1 /\ dead >= SocketGrace)
        BY <1>1, <1>2, <2>2, <2>3 DEF R!Bounded, R!TypeOK, R!GraceAssumption
      <3> QED
        BY <1>1, <2>3, <3>1, ExitsKeeps
    <2>4. CASE R!Waits(backoff, socket_gone, dg)
      BY <1>1, <1>4, <2>2, <2>4 DEF R!Bounded, R!TypeOK
    <2> QED
      BY <1>6, <2>3, <2>4 DEF R!Refused
  <1>7. CASE R!Exits("handshake")
    BY <1>1, <1>7, ExitsKeeps
  <1>8. CASE R!Exits("session")
    BY <1>1, <1>8, ExitsKeeps
  <1>9. CASE R!Attached
    <2>1. R!TypeOK'
      BY <1>1, <1>9 DEF R!TypeOK, R!Attached, Apart, R!worldVars, R!gates, R!try
    <2>2. R!VerdictInv' /\ R!OutageInv' /\ R!WaitInv'
      BY <1>1, <1>9 DEF R!VerdictInv, R!OutageInv, R!WaitInv, R!Looping, R!Attached, Apart
    <2> QED
      BY <2>1, <2>2 DEF R!IInv
  <1> QED
    BY <1>5, <1>6, <1>7, <1>8, <1>9 DEF R!Answer

\* A second passes: it counts for the death and for the streaks.
LEMMA TickKeeps ==
  ASSUME R!GraceAssumption, R!IInv, R!Tick
  PROVE  R!IInv'
  <1>1. R!TypeOK /\ R!VerdictInv /\ R!OutageInv /\ R!WaitInv /\ R!Looping
    BY DEF R!IInv, R!Tick, R!Looping
  <1>2. /\ socket_gone' = R!Older(socket_gone, SocketGrace)
        /\ daemon_gone' = R!Older(daemon_gone, DaemonGrace)
        /\ dead' = IF R!LooksDead THEN R!Min2(dead + 1, SocketGrace) ELSE dead
        /\ UNCHANGED <<tail, is_remote, pc, why, backoff, was_offline, chrome_shown, sup,
                       dirty, R!worldVars, event, faults, deaths>>
    BY DEF R!Tick
  <1>3. left' \in 0..BackoffMax /\ spent' \in 0..AttemptTimeout /\ dead' \in 0..SocketGrace
        /\ elapsed' \in 0..1
    BY <1>1, <1>2 DEF R!Tick, R!TypeOK, R!Max2, R!Min2, R!GraceAssumption
  <1>4. R!TypeOK'
    BY <1>1, <1>2, <1>3, ReconnectRanges DEF R!TypeOK, R!worldVars
  <1>5. R!VerdictInv'
    BY <1>1, <1>2 DEF R!VerdictInv, R!TypeOK, R!Looping
  <1>6. R!OutageInv'
    <2>1. R!LooksDead' => R!LooksDead
      BY <1>2 DEF R!LooksDead, R!tunnel_supervisor_alive, R!worldVars
    <2> QED
      BY <1>1, <1>2, <2>1
        
            DEF R!OutageInv, R!Bounded, R!Looping, R!Older, R!Min2, R!TypeOK,
                R!GraceAssumption
  <1>7. R!WaitInv'
    <2>1. CASE pc = "attempt"
      BY <1>1, <1>2, <2>1 DEF R!WaitInv, R!Older
    <2>2. CASE pc = "wait" /\ ~was_offline /\ socket_gone # -1
      <3>1. socket_gone + left <= SocketGrace /\ left' = R!Max2(left - 1, 0)
            /\ (left > 0 \/ R!Turns)
        BY <1>1, <2>2 DEF R!WaitInv, R!Tick
      <3>2. CASE left > 0
        BY <1>1, <1>2, <3>1, <3>2
           DEF R!WaitInv, R!Older, R!Max2, R!Min2, R!TypeOK, R!GraceAssumption
      <3>3. CASE left = 0 /\ socket_gone \in 0..(SocketGrace - 1)
        BY <1>1, <1>2, <3>1, <3>3
           DEF R!WaitInv, R!Older, R!Max2, R!Min2, R!TypeOK, R!GraceAssumption
      <3> QED
        BY <1>1, <2>2, <3>1, <3>2, <3>3 DEF R!Turns, R!TypeOK
    <2>3. CASE pc = "wait" /\ (was_offline \/ socket_gone = -1)
      BY <1>2, <2>3 DEF R!WaitInv, R!Older
    <2> QED
      BY <1>1, <2>1, <2>2, <2>3 DEF R!Looping, R!TypeOK
  <1> QED
    BY <1>4, <1>5, <1>6, <1>7 DEF R!IInv

\* What happens around the client: what begins to look dead is another death.
LEMMA WorldKeeps ==
  ASSUME R!GraceAssumption, R!IInv, R!Observed, faults' \in 0..MaxFaults,
         daemon' \in {"up", "refusing", "eof", "silent"},
         file' \in BOOLEAN, lock' \in BOOLEAN, session' \in BOOLEAN, event' \in BOOLEAN
  PROVE  R!IInv'
  <1>1. R!TypeOK /\ R!VerdictInv /\ R!OutageInv /\ R!WaitInv
    BY DEF R!IInv
  <1>2. \/ dead' = 0 /\ deaths' = R!Min2(deaths + 1, 2) /\ ~R!LooksDead
        \/ dead' = dead /\ deaths' = deaths /\ (R!LooksDead' => R!LooksDead)
    BY DEF R!Observed
  <1>3. dead' \in 0..SocketGrace /\ deaths' \in 0..2
    BY <1>1, <1>2 DEF R!TypeOK, R!Min2, R!GraceAssumption
  <1>4. R!TypeOK'
    BY <1>1, <1>3 DEF R!TypeOK, R!Observed, R!loopVars, R!gates, R!try
  <1>5. UNCHANGED <<pc, why, socket_gone, daemon_gone>>
    BY DEF R!Observed, R!loopVars, R!gates
  <1>6. deaths = 0 \/ deaths = 1 \/ deaths = 2
    BY <1>1 DEF R!TypeOK
  <1>7. R!VerdictInv'
    <2>1. \/ deaths' = 2
          \/ deaths' = deaths /\ dead' = dead
          \/ deaths = 0
      BY <1>2, <1>6 DEF R!Min2
    <2>2. why \in {"socket_gone", "daemon_gone"} =>
            deaths' = 2 \/ (deaths' = 1 /\ dead' >= SocketGrace)
      BY <1>1, <2>1 DEF R!VerdictInv
    <2> QED
      BY <1>1, <1>5, <2>2 DEF R!VerdictInv
  <1>8. R!OutageInv'
    <2>1. CASE dead' = 0 /\ deaths' = R!Min2(deaths + 1, 2)
      BY <1>1, <1>5, <1>6, <2>1 DEF R!OutageInv, R!Looping, R!Bounded, R!Min2
    <2>2. CASE dead' = dead /\ deaths' = deaths /\ (R!LooksDead' => R!LooksDead)
      BY <1>1, <1>5, <2>2 DEF R!OutageInv, R!Looping, R!Bounded
    <2> QED
      BY <1>2, <2>1, <2>2
  <1>9. R!WaitInv'
    BY <1>1 DEF R!WaitInv, R!Observed, R!loopVars, R!gates
  <1> QED
    BY <1>4, <1>7, <1>8, <1>9 DEF R!IInv

\* Nothing else touches the loop: a quit of the user, the spinner.
LEMMA QuitKeeps ==
  ASSUME R!GraceAssumption, R!IInv, R!UserQuits
  PROVE  R!IInv'
  <1>1. /\ R!Exits("user") /\ Apart
        /\ event' \in BOOLEAN /\ elapsed' \in 0..1 /\ was_offline' \in BOOLEAN
    BY DEF R!UserQuits, Apart, R!IInv, R!TypeOK
  <1> QED
    BY <1>1, ExitsKeeps

LEMMA PaintKeeps ==
  ASSUME R!GraceAssumption, R!IInv, R!Paint
  PROVE  R!IInv'
  <1>1. /\ pc = "wait" /\ Apart
        /\ UNCHANGED <<pc, why, backoff, left, elapsed, was_offline, R!gates, R!try, event>>
    BY DEF R!Paint, Apart
  <1>2. R!TypeOK'
    BY <1>1 DEF R!IInv, R!TypeOK, Apart, R!worldVars, R!gates, R!try
  <1>3. R!VerdictInv' /\ R!WaitInv'
    BY <1>1 DEF R!IInv, R!VerdictInv, R!WaitInv, Apart, R!gates
  <1>4. R!OutageInv'
    <2>1. R!LooksDead' => R!LooksDead
      BY <1>1 DEF R!LooksDead, R!tunnel_supervisor_alive, Apart, R!worldVars
    <2> QED
      BY <1>1, <2>1 DEF R!IInv, R!OutageInv, R!Bounded, R!Looping, Apart, R!gates
  <1> QED
    BY <1>2, <1>3, <1>4 DEF R!IInv

LEMMA ReconnectInit == R!GraceAssumption /\ R!Init => R!IInv
  <1> SUFFICES ASSUME R!GraceAssumption, R!Init PROVE R!IInv
    OBVIOUS
  <1>1. R!TypeOK
    <2>1. {tail, is_remote, was_offline, sup, file, lock, session, event} \subseteq BOOLEAN
      BY Zenon DEF R!Init
    <2>2. pc = "attached" /\ backoff = 0 /\ left = 0 /\ elapsed = 0 /\ spent = 0
          /\ socket_gone = -1 /\ daemon_gone = -1 /\ daemon = "up" /\ faults = 0
          /\ dead = 0 /\ deaths = 0
      BY DEF R!Init
    <2> QED
      BY <2>1, <2>2 DEF R!TypeOK, R!GraceAssumption
  <1>2. R!VerdictInv /\ R!OutageInv /\ R!WaitInv
    BY DEF R!Init, R!VerdictInv, R!OutageInv, R!WaitInv, R!Looping, R!Bounded
  <1> QED
    BY <1>1, <1>2 DEF R!IInv

LEMMA ReconnectNext == R!GraceAssumption /\ R!IInv /\ [R!Next]_(R!vars) => R!IInv'
  <1> SUFFICES ASSUME R!GraceAssumption, R!IInv, [R!Next]_(R!vars) PROVE R!IInv'
    OBVIOUS
  <1> USE DEF R!ClientStep, R!TailStep
  <1>1. CASE R!Disconnect \/ R!TailDisconnect
    BY <1>1, RelayEndsKeeps DEF R!Disconnect, R!TailDisconnect
  <1>2. CASE R!WakeDeadline \/ R!WakeNet \/ R!WakeKey \/ R!TailWake
    BY <1>2, WakeKeeps
       DEF R!WakeDeadline, R!WakeNet, R!WakeKey, R!TailWake, R!IInv, R!TypeOK
  <1>3. CASE R!Attempt \/ R!TailAttempt
    BY <1>3, AnswerKeeps DEF R!Attempt, R!TailAttempt
  <1>4. CASE R!Tick
    BY <1>4, TickKeeps
  <1>5. CASE R!Fault \/ R!Heal \/ R!Restart
    <2>1. /\ R!Observed /\ faults' \in 0..MaxFaults
          /\ daemon' \in {"up", "refusing", "eof", "silent"}
          /\ file' \in BOOLEAN /\ lock' \in BOOLEAN /\ session' \in BOOLEAN /\ event' \in BOOLEAN
      <3>1. CASE R!Fault
        <4>1. R!Observed /\ faults' \in 0..MaxFaults
          BY <3>1 DEF R!Fault, R!IInv, R!TypeOK, R!GraceAssumption
        <4>2. daemon' \in {daemon, "refusing", "eof", "silent"}
          BY <3>1, Zenon DEF R!Fault
        <4>3. /\ file' \in {file, FALSE} /\ lock' \in {lock, FALSE}
              /\ session' \in {session, FALSE} /\ event' \in {event, TRUE}
          BY <3>1, Zenon DEF R!Fault
        <4> QED
          BY <4>1, <4>2, <4>3 DEF R!IInv, R!TypeOK
      <3>2. CASE R!Heal
        BY <3>2 DEF R!Heal, R!IInv, R!TypeOK
      <3>3. CASE R!Restart
        BY <3>3 DEF R!Restart, R!IInv, R!TypeOK
      <3> QED
        BY <1>5, <3>1, <3>2, <3>3
    <2> QED
      BY <2>1, WorldKeeps
  <1>6. CASE R!UserQuits
    BY <1>6, QuitKeeps
  <1>7. CASE R!Paint
    BY <1>7, PaintKeeps
  <1>8. CASE UNCHANGED R!vars
    BY <1>8 DEF R!vars, R!loopVars, R!gates, R!try, R!worldVars, R!IInv, R!TypeOK, R!VerdictInv, R!OutageInv,
                R!WaitInv, R!Looping, R!LooksDead, R!tunnel_supervisor_alive, R!Bounded
  <1> QED
    BY <1>1, <1>2, <1>3, <1>4, <1>5, <1>6, <1>7, <1>8 DEF R!Next

THEOREM ReconnectInvariance == ASSUME R!GraceAssumption PROVE R!Spec => []R!IInv
  BY ReconnectInit, ReconnectNext, PTL DEF R!Spec

\* The schedule, the gates and the ages of the reconnect loops keep their ranges,
\* and an attempt knows what the spinner left on the screen (PersistenceGate,
\* line_dirty).
THEOREM ReconnectTypes == ASSUME R!GraceAssumption PROVE R!Spec => []R!TypeOK
  <1>1. R!IInv => R!TypeOK
    BY DEF R!IInv
  <1> QED
    BY <1>1, ReconnectInvariance, PTL

\* One outage shorter than the grace ends no client, whatever else fails meanwhile
\* and however its attempts and waits fall (PersistenceGate, DaemonGone).
THEOREM OutageSurvived == ASSUME R!GraceAssumption PROVE R!Spec => []R!BlipSurvived
  <1>1. R!IInv => R!BlipSurvived
    BY DEF R!IInv, R!VerdictInv, R!BlipSurvived, R!TypeOK
  <1> QED
    BY <1>1, ReconnectInvariance, PTL

\* However far the backoff has climbed, no wait outlasts the grace of a socket that
\* is gone (cap_backoff).
THEOREM VerdictInTime == ASSUME R!GraceAssumption PROVE R!Spec => []R!VerdictPrompt
  <1>1. R!IInv => R!VerdictPrompt
    BY DEF R!IInv, R!WaitInv, R!VerdictPrompt, R!TypeOK, R!GraceAssumption
  <1> QED
    BY <1>1, ReconnectInvariance, PTL
=============================================================================
