---------------------------- MODULE RegistryProofs ----------------------------
(***************************************************************************)
(* The proofs about Registry, for any clients, names, lingers and bounds.  *)
(* First what the steps of session tasks, of clients and of time have in   *)
(* common, which leave the daemon alone; then what the requests that are   *)
(* done in one go have in common; then the daemon's other steps.           *)
(*                                                                         *)
(* At the end are the proofs about Transfer (T!), for any number of peers  *)
(* and sessions, any size of the file and any bound: one lemma per         *)
(* conjunct of IInv, with a step per action, then the theorems.            *)
(***************************************************************************)
EXTENDS RegistryInv, SequenceTheorems, TLAPS

\* What Transfer has besides: its slot is called meeting here.
CONSTANTS Sessions, Senders, Receivers, Size, MaxQuits
VARIABLES
    pc, pick, cli, written, partial, target, quits,
    sent, events, meeting, relay, notify, srv, inbox

T == INSTANCE TransferInv WITH slot <- meeting

-----------------------------------------------------------------------------
(* The steps that the daemon does not take *)

\* What a step may make of the entry a.
Evolves(a, b) ==
    /\ b \in Session
    /\ b.given = a.given
    /\ Presence(a) => Presence(b)
    /\ Presence(a) /\ Judged(a) => Judged(b)

ClientsTyped ==
    /\ client \in [Clients -> {"out", "asking", "live", "down"}]
    /\ home \in [Clients -> {{}} \cup {{<<v, i>>} : v \in 0..MaxRestarts, i \in Ids}]

\* The daemon's client is still asking, from where it was.
ClientsKept ==
    /\ ClientsTyped'
    /\ \A c \in Clients : client[c] = "asking" => client'[c] = "asking" /\ home'[c] = home[c]

LEMMA EvolveStep ==
  ASSUME IInv, sessions' \in [Live -> Session],
         \A i \in Live : Evolves(sessions[i], sessions'[i]),
         UNCHANGED daemonVars, ClientsKept
  PROVE  IInv'
  <1>1. Live' = Live
    BY DEF Live
  <1>2. UNCHANGED <<server_id, next_id, last_attached, loop, op, todo, reading, expired>>
    BY DEF daemonVars, scanVars
  <1>3. TypeOK'
    BY <1>1, <1>2 DEF IInv, TypeOK, ClientsKept, ClientsTyped
  <1>4. PresenceInv'
    BY <1>1 DEF IInv, PresenceInv, Evolves
  <1>5. ScanInv'
    <2>1. \A r \in reading : r.id \in Live
      BY DEF IInv, TypeOK
    <2>2. \A r \in reading : Judged(sessions'[r.id])
      BY <2>1 DEF IInv, ScanInv, PresenceInv, Evolves
    <2> QED
      BY <1>2, <2>2 DEF IInv, ScanInv
  <1>6. AskingInv'
    BY <1>1, <1>2 DEF IInv, AskingInv, ClientsKept
  <1>7. NoGhostSession'
    BY <1>1, <1>2 DEF IInv, NoGhostSession, Evolves
  <1>8. ReconnectsHome'
    BY <1>2 DEF IInv, AskingInv, ReconnectsHome, ClientsKept
  <1> QED
    BY <1>3, <1>4, <1>5, <1>6, <1>7, <1>8 DEF IInv

\* Clients that are connected are not asking.
LEMMA BecomeKept ==
  ASSUME TypeOK, NEW S \in SUBSET Clients, NEW st \in {"out", "live", "down"},
         \A c \in S : client[c] # "asking", ClientsBecome(S, st)
  PROVE  ClientsKept
  BY DEF TypeOK, ClientsBecome, ClientsKept, ClientsTyped

LEMMA SameClients ==
  ASSUME TypeOK, UNCHANGED clientVars
  PROVE  ClientsKept
  BY DEF TypeOK, clientVars, ClientsKept, ClientsTyped

\* A shell that starts, a client that is taken and a Ping mark the session as used.
LEMMA TouchEvolves ==
  ASSUME RegistryAssumption, NEW a \in Session, NEW b \in Session,
         b.given = a.given, b.slot = a.slot, b.age = 0, b.seen = 0, b.idle = 0,
         b.task = "leaving" => b.served = NoClient,
         Serves(b) => b.attached \/ (Serves(a) /\ b.attached = a.attached)
  PROVE  Evolves(a, b)
  BY DEF Evolves, Presence, Judged

\* Other steps of the task leave the time stamps.
LEMMA StampEvolves ==
  ASSUME RegistryAssumption, NEW a \in Session, NEW b \in Session,
         b.given = a.given, b.slot = a.slot, b.age = a.age, b.seen = a.seen, b.idle = a.idle,
         b.attached = a.attached, b.task # "leaving",
         Serves(b) => Serves(a)
  PROVE  Evolves(a, b)
  BY DEF Evolves, Presence, Judged

LEMMA TickEvolves ==
  ASSUME RegistryAssumption, NEW a \in Session
  PROVE  Evolves(a, [a EXCEPT !.age = Older(@),
                              !.idle = IF a.task = "running" /\ a.served # NoClient
                                       THEN 0 ELSE Older(@)])
  <1> DEFINE b == [a EXCEPT !.age = Older(@),
                            !.idle = IF a.task = "running" /\ a.served # NoClient
                                     THEN 0 ELSE Older(@)]
  <1>1. /\ a.age \in 0..MaxAge /\ a.seen \in 0..MaxAge /\ a.idle \in 0..MaxAge /\ MaxAge \in Nat
    BY DEF Session, RegistryAssumption
  <1>2. /\ Older(a.age) \in 0..MaxAge /\ Older(a.idle) \in 0..MaxAge
        /\ a.age <= a.idle => Older(a.age) <= Older(a.idle)
        /\ a.idle <= Older(a.idle) /\ 0 \in 0..MaxAge
    BY <1>1 DEF Older
  <1>3. b \in Session
    BY <1>2 DEF Session
  <1>4. /\ b.age = Older(a.age) /\ b.seen = a.seen
        /\ b.idle = IF Serves(a) THEN 0 ELSE Older(a.idle)
        /\ b.task = a.task /\ b.served = a.served /\ b.attached = a.attached
        /\ b.slot = a.slot /\ b.given = a.given
    BY DEF Session, Serves
  <1> HIDE DEF b
  <1>5. Presence(a) => Presence(b)
    BY <1>1, <1>2, <1>4 DEF Presence, Serves
  <1>6. Judged(a) => Judged(b)
    BY <1>1, <1>2, <1>4 DEF Judged, Serves
  <1> USE DEF b
  <1> QED
    BY <1>3, <1>4, <1>5, <1>6 DEF Evolves

LEMMA SameEvolves ==
  ASSUME NEW a \in Session
  PROVE  Evolves(a, a)
  BY DEF Evolves

\* A task that evolves its entry and touches no client that asks.
LEMMA TaskKeeps ==
  ASSUME RegistryAssumption, IInv, NEW i \in Live, NEW s, Evolves(sessions[i], s),
         TaskLeaves(i, s), ClientsKept
  PROVE  IInv'
  <1>1. sessions \in [Live -> Session] /\ s \in Session
    BY DEF IInv, TypeOK, Evolves
  <1>2. sessions' = [sessions EXCEPT ![i] = s] /\ UNCHANGED daemonVars
    BY DEF TaskLeaves
  <1>3. sessions' \in [Live -> Session]
    BY <1>1, <1>2
  <1>4. \A j \in Live : sessions'[j] = IF j = i THEN s ELSE sessions[j]
    BY <1>1, <1>2
  <1>5. \A j \in Live : Evolves(sessions[j], sessions'[j])
    BY <1>1, <1>4, SameEvolves
  <1> QED
    BY <1>2, <1>3, <1>5, EvolveStep

LEMMA ZeroAge ==
  ASSUME RegistryAssumption
  PROVE  0 \in 0..MaxAge
  BY DEF RegistryAssumption

\* touch_presence and mark_attached, for a record they are applied to.
LEMMA TouchFields ==
  ASSUME RegistryAssumption, NEW s \in Session
  PROVE  LET b == touch_presence(s) IN
         /\ b \in Session
         /\ b.age = 0 /\ b.seen = 0 /\ b.idle = 0 /\ b.attached = s.attached
         /\ b.task = s.task /\ b.served = s.served /\ b.slot = s.slot /\ b.given = s.given
  <1>1. 0 \in 0..MaxAge
    BY ZeroAge
  <1> QED
    BY <1>1 DEF touch_presence, Session

LEMMA MarkedFields ==
  ASSUME RegistryAssumption, NEW s \in Session
  PROVE  LET b == Marked(s) IN
         /\ b \in Session
         /\ b.age = 0 /\ b.seen = 0 /\ b.idle = 0 /\ b.attached = TRUE
         /\ b.task = s.task /\ b.served = s.served /\ b.slot = s.slot /\ b.given = s.given
  <1> DEFINE m == [s EXCEPT !.attached = TRUE]
  <1>1. /\ m \in Session /\ m.attached = TRUE
        /\ m.task = s.task /\ m.served = s.served /\ m.slot = s.slot /\ m.given = s.given
    BY DEF Session
  <1>2. Marked(s) = touch_presence(m)
    BY DEF Marked
  <1> HIDE DEF m
  <1> QED
    BY <1>1, <1>2, TouchFields

LEMMA TaskStepInv ==
  ASSUME RegistryAssumption, IInv, NEW i \in Ids, TaskStep(i) \/ TaskInput(i)
  PROVE  IInv'
  <1> DEFINE a == sessions[i]
  <1>1. i \in Live /\ a \in Session /\ TypeOK /\ Presence(a)
    BY DEF TaskStep, TaskInput, IInv, TypeOK, PresenceInv
  <1>2. UNCHANGED clientVars => ClientsKept
    BY <1>1, SameClients
  <1>3. /\ ServedBy(i) \in SUBSET Clients
        /\ \A c \in ServedBy(i) \cup ConnectedTo({i}) : client[c] = "live"
    BY DEF ServedBy, ConnectedTo
  <1>4. \A st \in {"out", "down"} : ClientsBecome(ServedBy(i), st) => ClientsKept
    BY <1>1, <1>3, BecomeKept
  <1>5. CASE Publish(i)
    <2> DEFINE s == [a EXCEPT !.task = "birth", !.slot = TRUE, !.age = 0, !.seen = 0]
    <2>1. s \in Session
      BY <1>1, ZeroAge DEF Session, Phases
    <2>2. /\ s.task = "birth" /\ s.age = 0 /\ s.seen = 0 /\ s.idle = a.idle /\ s.given = a.given
          /\ a.idle \in 0..MaxAge
      BY <1>1 DEF Session, Phases
    <2>3. Evolves(a, s)
      <3>1. 0 <= a.idle
        BY <2>2
      <3>2. s.slot = TRUE
        BY <1>1 DEF Session
      <3> HIDE DEF s, a
      <3>3. s.age <= s.idle /\ s.seen <= s.idle /\ ~Serves(s) /\ s.task # "leaving"
        BY <2>2, <3>1 DEF Serves
      <3> QED
        BY <2>1, <2>2, <3>2, <3>3 DEF Evolves, Presence, Judged
    <2> QED
      BY <1>1, <1>2, <1>5, <2>3, TaskKeeps DEF Publish
  <1>6. CASE TakeFirst(i)
    <2> DEFINE s == [a EXCEPT !.task = "env", !.served = Head(a.queue), !.queue = Tail(@)]
    <2>1. a.queue \in Seq(Clients) /\ a.queue # <<>>
      BY <1>1, <1>6 DEF Session, Phases, TakeFirst
    <2>2. s \in Session
      <3>1. Head(a.queue) \in Clients /\ Tail(a.queue) \in Seq(Clients)
        BY <2>1
      <3> HIDE DEF a
      <3> QED
        BY <1>1, <3>1 DEF Session, Phases
    <2>3. Evolves(a, s)
      BY <1>1, <2>2, StampEvolves DEF Session, Phases, Serves
    <2> QED
      BY <1>1, <1>2, <1>6, <2>3, TaskKeeps DEF TakeFirst
  <1>7. CASE SpawnShell(i)
    <2> DEFINE s == [a EXCEPT !.task = "running"]
    <2>1. s \in Session /\ s.slot = a.slot /\ s.given = a.given /\ s.task = "running"
      BY <1>1 DEF Session, Phases
    <2>2. Evolves(a, Marked(s))
      <3> HIDE DEF s, a
      <3>1. /\ Marked(s) \in Session /\ Marked(s).task = "running" /\ Marked(s).attached = TRUE
            /\ Marked(s).given = a.given /\ Marked(s).slot = a.slot
            /\ Marked(s).age = 0 /\ Marked(s).seen = 0 /\ Marked(s).idle = 0
        BY <2>1, MarkedFields
      <3> QED
        BY <1>1, <3>1, TouchEvolves
    <2> QED
      BY <1>1, <1>2, <1>7, <2>2, TaskKeeps DEF SpawnShell
  <1>8. CASE TakeClient(i)
    <2> DEFINE s == [a EXCEPT !.served = Head(a.queue), !.queue = Tail(@)]
               b == IF a.served = NoClient THEN Marked(s) ELSE touch_presence(s)
    <2>1. a.queue \in Seq(Clients) /\ a.queue # <<>> /\ a.task = "running"
      BY <1>1, <1>8 DEF Session, Phases, TakeClient
    <2>2. /\ s \in Session /\ s.slot = a.slot /\ s.given = a.given /\ s.task = "running"
          /\ s.attached = a.attached
      <3>1. Head(a.queue) \in Clients /\ Tail(a.queue) \in Seq(Clients)
        BY <2>1
      <3> HIDE DEF a
      <3> QED
        BY <1>1, <2>1, <3>1 DEF Session, Phases
    <2>3. Evolves(a, b)
      <3>1. /\ b \in Session /\ b.given = a.given /\ b.slot = a.slot /\ b.task = "running"
            /\ b.age = 0 /\ b.seen = 0 /\ b.idle = 0
            /\ b.attached \/ (a.served # NoClient /\ b.attached = a.attached)
        <4> HIDE DEF s, a
        <4> QED
          BY <2>2, MarkedFields, TouchFields
      <3> HIDE DEF s, a, b
      <3> QED
        BY <1>1, <2>1, <3>1, TouchEvolves DEF Serves
    <2>4. TaskLeaves(i, b) /\ ClientsKept
      BY <1>4, <1>8 DEF TakeClient
    <2> HIDE DEF b
    <2> QED
      BY <1>1, <2>3, <2>4, TaskKeeps
  <1>9. CASE Ping(i)
    <2>1. Evolves(a, touch_presence(a))
      BY <1>1, <1>9, TouchFields, TouchEvolves DEF Ping, Serves
    <2> QED
      BY <1>1, <1>2, <1>9, <2>1, TaskKeeps DEF Ping
  <1>10. CASE LoseClient(i) \/ NoticeLoss(i)
    <2> DEFINE s == [a EXCEPT !.task = "leaving", !.served = NoClient]
    <2>1. /\ s \in Session /\ s.slot = a.slot /\ s.given = a.given /\ s.task = "leaving"
          /\ s.served = NoClient
      BY <1>1 DEF Session, Phases
    <2>2. Evolves(a, touch_presence(s))
      <3> HIDE DEF s, a
      <3>1. LET b == touch_presence(s) IN
            /\ b \in Session /\ b.given = a.given /\ b.slot = a.slot /\ b.task = "leaving"
            /\ b.age = 0 /\ b.seen = 0 /\ b.idle = 0 /\ b.served = NoClient
        BY <2>1, TouchFields
      <3> QED
        BY <1>1, <3>1, TouchEvolves DEF Serves
    <2>3. TaskLeaves(i, touch_presence(s)) /\ ClientsKept
      BY <1>4, <1>10 DEF LoseClient, NoticeLoss
    <2> HIDE DEF s
    <2> QED
      BY <1>1, <2>2, <2>3, TaskKeeps
  <1>11. CASE ClearAttached(i)
    <2> DEFINE s == [a EXCEPT !.task = "running", !.attached = FALSE]
    <2>1. /\ s \in Session /\ s.task = "running" /\ s.served = a.served /\ s.slot = a.slot
          /\ s.age = a.age /\ s.seen = a.seen /\ s.idle = a.idle /\ s.given = a.given
      BY <1>1 DEF Session, Phases
    <2>2. a.task = "leaving" /\ a.served = NoClient
      BY <1>1, <1>11 DEF ClearAttached, Presence
    <2>3. Evolves(a, s)
      <3> HIDE DEF s
      <3> QED
        BY <2>1, <2>2 DEF Evolves, Presence, Judged, Serves
    <2> QED
      BY <1>1, <1>2, <1>11, <2>3, TaskKeeps DEF ClearAttached
  <1>12. CASE Pin(i)
    <2> DEFINE s == [a EXCEPT !.linger = 0]
    <2>1. s \in Session
      BY <1>1, ZeroAge DEF Session
    <2>2. Evolves(a, s)
      BY <1>1, <1>12, <2>1, StampEvolves DEF Session, Phases, Serves, Pin
    <2> QED
      BY <1>1, <1>2, <1>12, <2>2, TaskKeeps DEF Pin
  <1>13. CASE EndTask(i)
    <2> DEFINE s == [a EXCEPT !.task = "closed", !.queue = <<>>, !.served = NoClient]
    <2>1. s \in Session
      <3>1. <<>> \in Seq(Clients)
        OBVIOUS
      <3> HIDE DEF a
      <3> QED
        BY <1>1, <3>1 DEF Session, Phases
    <2>2. Evolves(a, s)
      BY <1>1, <2>1, StampEvolves DEF Session, Phases, Serves
    <2>3. ClientsKept
      <3>1. PICK told \in SUBSET ServedBy(i) :
              /\ client' = [c \in Clients |-> IF c \in told THEN "out"
                              ELSE IF c \in ConnectedTo({i}) THEN "down" ELSE client[c]]
              /\ home' = [c \in Clients |-> IF c \in told THEN {} ELSE home[c]]
        BY <1>13 DEF EndTask
      <3>2. \A c \in told : client[c] = "live"
        BY <1>3
      <3>3. ClientsTyped'
        BY <1>1, <3>1 DEF ClientsTyped, TypeOK
      <3>4. \A c \in Clients : client[c] = "asking" => client'[c] = "asking" /\ home'[c] = home[c]
        BY <1>3, <3>1, <3>2
      <3> QED
        BY <3>3, <3>4 DEF ClientsKept
    <2> QED
      BY <1>1, <1>13, <2>2, <2>3, TaskKeeps DEF EndTask
  <1>14. CASE FinishTask(i)
    <2> DEFINE s == [a EXCEPT !.task = "finished"]
    <2>1. s \in Session
      BY <1>1 DEF Session, Phases
    <2>2. Evolves(a, s)
      BY <1>1, <2>1, StampEvolves DEF Session, Phases, Serves
    <2> QED
      BY <1>1, <1>2, <1>14, <2>2, TaskKeeps DEF FinishTask
  <1> QED
    BY <1>5, <1>6, <1>7, <1>8, <1>9, <1>10, <1>11, <1>12, <1>13, <1>14 DEF TaskStep, TaskInput

\* What the clients and time do leaves the daemon alone too.
LEMMA AloneInv ==
  ASSUME RegistryAssumption, IInv,
         Tick \/ (\E c \in Clients : Leave(c) \/ Interrupt(c)) \/ UNCHANGED vars
  PROVE  IInv'
  <1>1. TypeOK /\ sessions \in [Live -> Session]
    BY DEF IInv, TypeOK
  <1>2. UNCHANGED sessions => /\ sessions' \in [Live -> Session]
                              /\ \A i \in Live : Evolves(sessions[i], sessions'[i])
    BY <1>1, SameEvolves
  <1>3. CASE Tick
    <2>1. UNCHANGED daemonVars /\ ClientsKept
      BY <1>1, <1>3, SameClients DEF Tick
    <2>2. \A i \in Live : Evolves(sessions[i], sessions'[i])
      BY <1>1, <1>3, TickEvolves DEF Tick
    <2>3. sessions' \in [Live -> Session]
      <3>1. DOMAIN sessions' = Live /\ sessions' = [i \in Live |-> sessions'[i]]
        BY <1>3 DEF Tick
      <3> QED
        BY <2>2, <3>1 DEF Evolves
    <2> QED
      BY <2>1, <2>2, <2>3, EvolveStep
  <1>4. CASE \E c \in Clients : Leave(c) \/ Interrupt(c)
    <2>1. PICK c \in Clients, st \in {"down", "out"} :
             /\ client[c] # "asking" /\ ClientsBecome({c}, st)
             /\ UNCHANGED <<daemonVars, sessions>>
      BY <1>4 DEF Leave, Interrupt
    <2>2. ClientsKept
      BY <1>1, <2>1, BecomeKept
    <2> QED
      BY <1>2, <2>1, <2>2, EvolveStep
  <1>5. CASE UNCHANGED vars
    BY <1>1, <1>2, <1>5, SameClients, EvolveStep DEF vars
  <1> QED
    BY <1>3, <1>4, <1>5

-----------------------------------------------------------------------------
(* The daemon's steps after which no handler waits and no scan is on *)

LEMMA Settles ==
  ASSUME TypeOK', PresenceInv', loop' \in {"top", "select"},
         todo' = {}, reading' = {}, expired' = {},
         \A i \in Live' : sessions'[i].given
  PROVE  IInv'
  BY DEF IInv, ScanInv, AskingInv, NoGhostSession, ReconnectsHome

\* A request that is done in one go: entries go, those that remain may change.
LEMMA SweepStep ==
  ASSUME IInv, loop = "select", NEW S \in SUBSET Live, sessions' \in [S -> Session],
         \A i \in S : Presence(sessions'[i]) /\ sessions'[i].given = sessions[i].given,
         loop' = "top", ClientsTyped',
         UNCHANGED <<server_id, next_id, last_attached, op, scanVars>>
  PROVE  IInv'
  <1>1. Live' = S
    BY DEF Live
  <1>2. UNCHANGED <<server_id, next_id, last_attached, op, todo, reading, expired>>
        /\ todo = {} /\ reading = {} /\ expired = {}
    BY DEF scanVars, IInv, ScanInv
  <1>3. TypeOK'
    BY <1>1, <1>2 DEF IInv, TypeOK, ClientsTyped
  <1>4. PresenceInv' /\ \A i \in Live' : sessions'[i].given
    BY <1>1 DEF PresenceInv, IInv, NoGhostSession
  <1> QED
    BY <1>1, <1>2, <1>3, <1>4, Settles

LEMMA BecomeTyped ==
  ASSUME TypeOK, NEW S, NEW st \in {"out", "asking", "live", "down"}, ClientsBecome(S, st)
  PROVE  ClientsTyped'
  BY DEF TypeOK, ClientsBecome, ClientsTyped

\* The map without some of its entries.
LEMMA KeptSweeps ==
  ASSUME IInv, NEW S \in SUBSET Live
  PROVE  /\ Kept(sessions, S) \in [S -> Session]
         /\ \A i \in S : /\ Kept(sessions, S)[i] = sessions[i]
                         /\ Presence(Kept(sessions, S)[i])
                         /\ Kept(sessions, S)[i].given = sessions[i].given
  BY DEF IInv, TypeOK, PresenceInv, Kept

\* A request that changes one entry of those that remain.
LEMMA EditStep ==
  ASSUME IInv, loop = "select", UNCHANGED clientVars,
         NEW i \in reap_sessions, NEW e \in Session, Presence(e), e.given = sessions[i].given,
         Done([Kept(sessions, reap_sessions) EXCEPT ![i] = e])
  PROVE  IInv'
  <1> DEFINE K == Kept(sessions, reap_sessions)
  <1>1. reap_sessions \subseteq Live
    BY DEF reap_sessions
  <1>2. /\ K \in [reap_sessions -> Session]
        /\ \A j \in reap_sessions : Presence(K[j]) /\ K[j].given = sessions[j].given
    BY <1>1, KeptSweeps
  <1>3. sessions' = [K EXCEPT ![i] = e]
    BY DEF Done
  <1> HIDE DEF K
  <1>4. sessions' \in [reap_sessions -> Session]
    BY <1>2, <1>3
  <1>5. \A j \in reap_sessions : /\ Presence(sessions'[j])
                                 /\ sessions'[j].given = sessions[j].given
    BY <1>2, <1>3
  <1>6. ClientsTyped'
    BY SameClients DEF IInv, ClientsKept
  <1> QED
    BY <1>1, <1>4, <1>5, <1>6, SweepStep DEF Done

\* The requests that are done in one go.
LEMMA RequestInv ==
  ASSUME RegistryAssumption, IInv,
         \/ OtherEvent \/ (\E c \in Clients : ReconnectRefused(c))
         \/ \E t \in Strings :
              \/ KillSession(t) \/ NotFound(t)
              \/ \E n \in Strings : RenameSession(t, n)
              \/ \E l \in Lingers : SetLinger(t, l)
  PROVE  IInv'
  <1>1. TypeOK /\ sessions \in [Live -> Session] /\ (UNCHANGED clientVars => ClientsTyped')
    BY SameClients DEF IInv, TypeOK, ClientsKept
  <1>2. reap_sessions \subseteq Live
    BY DEF reap_sessions
  <1>3. \A t : resolve_session(t) \subseteq reap_sessions /\ Resolved(t) \subseteq reap_sessions
    BY DEF resolve_session, Resolved
  <1>4. sessions = Kept(sessions, Live)
    BY <1>1 DEF Kept
  <1>5. \A S \in SUBSET Live :
          (/\ sessions' = Kept(sessions, S) /\ loop = "select" /\ loop' = "top" /\ ClientsTyped'
           /\ UNCHANGED <<server_id, next_id, last_attached, op, scanVars>>) => IInv'
    BY KeptSweeps, SweepStep
  <1>6. \A t : \E S \in SUBSET Live : Swept(t) = Kept(sessions, S)
    BY <1>2 DEF Swept
  <1>7. CASE OtherEvent
    BY <1>1, <1>2, <1>4, <1>5, <1>7 DEF OtherEvent
  <1>8. ASSUME NEW c \in Clients, ReconnectRefused(c) PROVE IInv'
    <2>1. ClientsTyped'
      BY <1>1, <1>8, BecomeTyped DEF ReconnectRefused
    <2>2. \E S \in SUBSET Live : sessions' = Kept(sessions, S)
      BY <1>4, <1>6, <1>8 DEF ReconnectRefused
    <2> QED
      BY <1>5, <1>8, <2>1, <2>2 DEF ReconnectRefused
  <1>9. ASSUME NEW t \in Strings, KillSession(t) PROVE IInv'
    <2>1. PICK i \in Resolved(t) : abort_session({i}, reap_sessions)
      BY <1>9 DEF KillSession
    <2>2. ClientsTyped'
      BY <1>1, <2>1, BecomeTyped DEF abort_session
    <2> QED
      BY <1>2, <1>5, <1>9, <2>1, <2>2 DEF KillSession, abort_session
  <1>10. ASSUME NEW t \in Strings, NotFound(t) PROVE IInv'
    BY <1>1, <1>5, <1>6, <1>10 DEF NotFound, Done
  <1>11. ASSUME NEW t \in Strings, NEW n \in Strings, RenameSession(t, n) PROVE IInv'
    <2>1. PICK i \in reap_sessions : Done([Kept(sessions, reap_sessions) EXCEPT ![i].name = n])
      BY <1>3, <1>11 DEF RenameSession
    <2> DEFINE e == [sessions[i] EXCEPT !.name = n]
    <2>2. sessions[i] \in Session /\ Presence(sessions[i])
      BY <1>1, <1>2 DEF IInv, PresenceInv
    <2>3. e \in Session
      BY <1>11, <2>2 DEF Session, RenameSession, validate_session_name
    <2>4. Presence(e) /\ e.given = sessions[i].given
      BY <2>2 DEF Presence, Serves, Session
    <2>5. [Kept(sessions, reap_sessions) EXCEPT ![i].name = n]
            = [Kept(sessions, reap_sessions) EXCEPT ![i] = e]
      BY DEF Kept
    <2>6. loop = "select" /\ UNCHANGED clientVars
      BY <1>11 DEF RenameSession
    <2>7. Done([Kept(sessions, reap_sessions) EXCEPT ![i] = e])
      BY <2>1, <2>5
    <2> HIDE DEF e
    <2> QED
      BY <2>3, <2>4, <2>6, <2>7, EditStep
  <1>12. ASSUME NEW t \in Strings, NEW l \in Lingers, SetLinger(t, l) PROVE IInv'
    <2>1. PICK i \in reap_sessions : Done([Kept(sessions, reap_sessions) EXCEPT ![i].linger = l])
      BY <1>3, <1>12 DEF SetLinger
    <2> DEFINE e == [sessions[i] EXCEPT !.linger = l]
    <2>2. sessions[i] \in Session /\ Presence(sessions[i])
      BY <1>1, <1>2 DEF IInv, PresenceInv
    <2>3. e \in Session
      BY <2>2 DEF Session, RegistryAssumption
    <2>4. Presence(e) /\ e.given = sessions[i].given
      BY <2>2 DEF Presence, Serves, Session
    <2>5. [Kept(sessions, reap_sessions) EXCEPT ![i].linger = l]
            = [Kept(sessions, reap_sessions) EXCEPT ![i] = e]
      BY DEF Kept
    <2>6. loop = "select" /\ UNCHANGED clientVars
      BY <1>12 DEF SetLinger
    <2>7. Done([Kept(sessions, reap_sessions) EXCEPT ![i] = e])
      BY <2>1, <2>5
    <2> HIDE DEF e
    <2> QED
      BY <2>3, <2>4, <2>6, <2>7, EditStep
  <1> QED
    BY <1>7, <1>8, <1>9, <1>10, <1>11, <1>12

LEMMA HandOverInv ==
  ASSUME RegistryAssumption, IInv, loop \in {"new", "attach"}, NEW s \in Session,
         s.slot => s.age = 0 /\ s.seen = 0,
         s.task = "leaving" => s.served = NoClient,
         Serves(s) => s.attached,
         HandOver(s)
  PROVE  IInv'
  <1> DEFINE q == IF Closed(op.id) THEN s.queue ELSE Append(s.queue, op.client)
             e == [s EXCEPT !.given = TRUE, !.idle = 0, !.queue = q]
  <1>1. /\ TypeOK /\ sessions \in [Live -> Session] /\ Live \subseteq Ids
        /\ op.id \in Live /\ op.client \in Clients
    BY DEF IInv, TypeOK, AskingInv
  <1>2. q \in Seq(Clients)
    <2>1. s.queue \in Seq(Clients)
      BY DEF Session
    <2> QED
      BY <1>1, <2>1
  <1>3. e = [s EXCEPT !.given = TRUE, !.idle = 0,
                      !.queue = IF Closed(op.id) THEN @ ELSE Append(@, op.client)]
    BY DEF Session
  <1> HIDE DEF q
  <1>4. /\ e \in Session /\ e.given = TRUE /\ e.idle = 0 /\ e.slot = s.slot /\ e.age = s.age
        /\ e.seen = s.seen /\ e.task = s.task /\ e.served = s.served /\ e.attached = s.attached
    BY <1>2, ZeroAge DEF Session
  <1>5. sessions' = [sessions EXCEPT ![op.id] = e]
    BY <1>3 DEF HandOver
  <1> HIDE DEF e
  <1>6. Presence(e)
    BY <1>4 DEF Presence, Serves
  <1>7. /\ sessions' \in [Live -> Session] /\ Live' = Live
        /\ \A i \in Live : sessions'[i] = IF i = op.id THEN e ELSE sessions[i]
    BY <1>1, <1>4, <1>5 DEF Live
  <1>8. /\ loop' = "top" /\ op' = NoOp
        /\ UNCHANGED <<server_id, next_id, todo, reading, expired>>
    BY DEF HandOver, scanVars
  <1>9. /\ todo = {} /\ reading = {} /\ expired = {}
    BY DEF IInv, ScanInv
  <1>10. TypeOK'
    <2>1. ClientsTyped'
      BY <1>1 DEF HandOver, ClientsTyped, TypeOK
    <2>2. last_attached' \subseteq Ids
      BY <1>1 DEF HandOver
    <2>3. op' \in [id : Ids \cup {-1}, client : Clients \cup {NoClient},
                   was : {"out", "down"}, force : BOOLEAN]
      BY <1>8 DEF NoOp
    <2> QED
      BY <1>1, <1>7, <1>8, <1>9, <2>1, <2>2, <2>3 DEF TypeOK, ClientsTyped
  <1>11. PresenceInv' /\ \A i \in Live' : sessions'[i].given
    BY <1>4, <1>6, <1>7 DEF PresenceInv, IInv, NoGhostSession
  <1> QED
    BY <1>8, <1>9, <1>10, <1>11, Settles

\* The handlers that waited come to an end; the scan comes to its verdict.
LEMMA EndInv ==
  ASSUME RegistryAssumption, IInv,
         EndScan \/ NewSessionFails \/ NewSessionDone \/ AttachFails \/ AttachDone
  PROVE  IInv'
  <1>1. TypeOK /\ sessions \in [Live -> Session] /\ Live \subseteq Ids
    BY DEF IInv, TypeOK
  <1>2. NoOp \in [id : Ids \cup {-1}, client : Clients \cup {NoClient},
                  was : {"out", "down"}, force : BOOLEAN]
    BY DEF NoOp
  <1>3. op.was \in {"out", "down"}
    BY <1>1 DEF TypeOK
  <1>4. CASE EndScan
    <2>1. PICK S \in SUBSET Live :
            sessions' = [i \in S |-> [sessions[i] EXCEPT !.seen = 0]]
      BY <1>4 DEF EndScan, reap_sessions
    <2>2. \A i \in S : /\ sessions'[i] \in Session /\ Presence(sessions'[i])
                       /\ sessions'[i].given = sessions[i].given
      <3>1. ASSUME NEW s \in Session, Presence(s)
            PROVE  LET e == [s EXCEPT !.seen = 0] IN
                   e \in Session /\ Presence(e) /\ e.given = s.given
        <4> DEFINE e == [s EXCEPT !.seen = 0]
        <4>1. /\ e \in Session /\ e.given = s.given /\ e.seen = 0 /\ e.age = s.age
              /\ e.idle = s.idle /\ e.slot = s.slot /\ e.task = s.task /\ e.served = s.served
              /\ e.attached = s.attached
          BY ZeroAge DEF Session
        <4>2. s.idle \in 0..MaxAge /\ MaxAge \in Nat
          BY DEF Session, RegistryAssumption
        <4> HIDE DEF e
        <4>3. Presence(e)
          BY <3>1, <4>1, <4>2 DEF Presence, Serves
        <4> USE DEF e
        <4> QED
          BY <4>1, <4>3
      <3> QED
        BY <1>1, <2>1, <3>1 DEF IInv, PresenceInv
    <2>3. sessions' \in [S -> Session] /\ Live' = S
      BY <2>1, <2>2 DEF Live
    <2>4. /\ loop' = "select" /\ UNCHANGED <<server_id, next_id, last_attached, op>>
          /\ todo' = {} /\ reading' = {} /\ expired' = {}
      BY <1>4 DEF EndScan
    <2>5. ClientsTyped'
      BY <1>1, <1>4, BecomeTyped DEF EndScan
    <2>6. TypeOK'
      BY <1>1, <2>3, <2>4, <2>5 DEF TypeOK, ClientsTyped
    <2>7. PresenceInv' /\ \A i \in Live' : sessions'[i].given
      BY <1>4, <2>2, <2>3 DEF PresenceInv, IInv, NoGhostSession, EndScan
    <2> QED
      BY <2>4, <2>6, <2>7, Settles
  <1>5. CASE NewSessionFails \/ AttachFails
    <2>1. /\ loop \in {"new", "attach"} /\ loop' = "top" /\ op' = NoOp
          /\ UNCHANGED <<server_id, next_id, last_attached, todo, reading, expired>>
          /\ todo = {} /\ reading = {} /\ expired = {}
      BY <1>5 DEF NewSessionFails, AttachFails, scanVars, IInv, ScanInv
    <2>2. PICK S \in SUBSET Live :
             sessions' = Kept(sessions, S) /\ \A i \in S : sessions[i].given
      <3>1. sessions = Kept(sessions, Live)
        BY <1>1 DEF Kept
      <3> QED
        BY <1>5, <3>1 DEF NewSessionFails, AttachFails, IInv, NoGhostSession
    <2>3. /\ sessions' \in [S -> Session] /\ Live' = S
          /\ \A i \in S : sessions'[i].given /\ Presence(sessions'[i])
      BY <2>2, KeptSweeps DEF Live
    <2>4. ClientsTyped'
      BY <1>1, <1>3, <1>5, BecomeTyped DEF NewSessionFails, AttachFails
    <2>5. TypeOK'
      BY <1>1, <1>2, <2>1, <2>3, <2>4 DEF TypeOK, ClientsTyped
    <2>6. PresenceInv'
      BY <2>3 DEF PresenceInv
    <2> QED
      BY <2>1, <2>3, <2>5, <2>6, Settles
  <1>6. CASE NewSessionDone \/ AttachDone
    <2> DEFINE a == sessions[op.id]
    <2>1. loop \in {"new", "attach"} /\ a \in Session /\ Presence(a)
      BY <1>1, <1>6 DEF NewSessionDone, AttachDone, IInv, AskingInv, PresenceInv
    <2>2. /\ Marked(a) \in Session /\ Marked(a).age = 0 /\ Marked(a).seen = 0
          /\ Marked(a).attached = TRUE
          /\ Marked(a).task = a.task /\ Marked(a).served = a.served
      BY <2>1, MarkedFields
    <2>3. HandOver(Marked(a)) \/ (~a.slot /\ HandOver(a))
      BY <1>6 DEF NewSessionDone, AttachDone
    <2> HIDE DEF a
    <2>4. CASE HandOver(Marked(a))
      BY <2>1, <2>2, <2>4, HandOverInv DEF Presence
    <2>5. CASE ~a.slot /\ HandOver(a)
      BY <2>1, <2>5, HandOverInv DEF Presence
    <2> QED
      BY <2>3, <2>4, <2>5
  <1> QED
    BY <1>4, <1>5, <1>6

LEMMA RestartInv ==
  ASSUME RegistryAssumption, IInv, Restart
  PROVE  IInv'
  <1>1. TypeOK
    BY DEF IInv
  <1>2. Live' = {} /\ sessions' \in [{} -> Session]
    BY DEF Restart, Live
  <1>3. server_id' \in 0..MaxRestarts /\ next_id' \in 0..MaxIds
    BY <1>1 DEF Restart, TypeOK, RegistryAssumption
  <1>4. ClientsTyped'
    <2>1. PICK told \in SUBSET Clients :
            /\ client' = [c \in Clients |->
                           IF c \in told THEN "out"
                           ELSE IF client[c] = "asking" THEN op.was
                           ELSE IF client[c] = "live" THEN "down" ELSE client[c]]
            /\ home' = [c \in Clients |-> IF c \in told THEN {} ELSE home[c]]
      BY DEF Restart, ConnectedTo
    <2>2. op.was \in {"out", "down"}
      BY <1>1 DEF TypeOK
    <2> QED
      BY <1>1, <2>1, <2>2 DEF TypeOK, ClientsTyped
  <1>5. op' \in [id : Ids \cup {-1}, client : Clients \cup {NoClient},
                 was : {"out", "down"}, force : BOOLEAN]
    BY DEF Restart, NoOp
  <1>6. /\ loop' = "top" /\ last_attached' = {}
        /\ todo' = {} /\ reading' = {} /\ expired' = {}
    BY DEF Restart
  <1>7. TypeOK'
    BY <1>2, <1>3, <1>4, <1>5, <1>6 DEF TypeOK, ClientsTyped
  <1> QED
    BY <1>2, <1>6, <1>7, Settles DEF PresenceInv

-----------------------------------------------------------------------------
(* The scan *)

LEMMA ScanStepInv ==
  ASSUME RegistryAssumption, IInv,
         StartScan \/ (\E i \in Ids : ReadAttached(i)) \/ ReadHeartbeat
  PROVE  IInv'
  <1>1. TypeOK /\ sessions \in [Live -> Session] /\ ScanInv
    BY DEF IInv, TypeOK
  <1>2. /\ loop \in {"top", "scan"} /\ loop' = "scan" /\ UNCHANGED clientVars
        /\ UNCHANGED <<server_id, next_id, last_attached, op>>
    BY DEF StartScan, ReadAttached, ReadHeartbeat
  <1>3. /\ sessions' \in [Live -> Session] /\ Live' = Live
        /\ \A i \in Live : Presence(sessions'[i]) /\ sessions'[i].given = sessions[i].given
    <2>1. CASE UNCHANGED sessions
      BY <1>1, <2>1 DEF IInv, PresenceInv, Live
    <2>2. CASE StartScan
      <3>1. ASSUME NEW s \in Session, Presence(s)
            PROVE  LET e == [s EXCEPT !.seen = s.age] IN
                   e \in Session /\ Presence(e) /\ e.given = s.given
        BY <3>1 DEF Session, Presence, Serves
      <3>2. sessions' = [i \in Live |-> [sessions[i] EXCEPT !.seen = sessions[i].age]]
        BY <2>2 DEF StartScan
      <3>3. \A i \in Live : /\ sessions'[i] \in Session /\ Presence(sessions'[i])
                            /\ sessions'[i].given = sessions[i].given
        BY <1>1, <3>1, <3>2 DEF IInv, PresenceInv
      <3> QED
        BY <3>2, <3>3 DEF Live
    <2> QED
      BY <2>1, <2>2 DEF ReadAttached, ReadHeartbeat
  <1>4. /\ todo' \subseteq Live /\ expired' \subseteq Live
        /\ reading' \subseteq [id : Live, linger : 1..MaxAge]
        /\ ScanInv'
    <2>1. CASE StartScan
      BY <1>1, <1>2, <2>1 DEF StartScan, ScanInv
    <2>2. ASSUME NEW i \in Ids, ReadAttached(i)
          PROVE  /\ todo' \subseteq Live /\ expired' \subseteq Live
                 /\ reading' \subseteq [id : Live, linger : 1..MaxAge]
                 /\ ScanInv'
      <3>1. /\ reading = {} /\ i \in todo /\ i \in Live /\ todo' = todo \ {i}
            /\ UNCHANGED <<sessions, expired>>
        BY <1>1, <2>2 DEF ReadAttached, TypeOK
      <3>2. \A r \in reading' : /\ r = [id |-> i, linger |-> sessions[i].linger]
                                /\ r \in [id : Live, linger : 1..MaxAge]
                                /\ Judged(sessions[r.id])
        <4>1. CASE sessions[i].slot /\ sessions[i].linger # 0 /\ ~sessions[i].attached
          <5>1. Judged(sessions[i])
            BY <1>1, <3>1, <4>1 DEF IInv, PresenceInv, Presence, Judged
          <5>2. sessions[i].linger \in 1..MaxAge
            BY <1>1, <3>1, <4>1 DEF Session, RegistryAssumption
          <5> QED
            BY <2>2, <3>1, <4>1, <5>1, <5>2 DEF ReadAttached
        <4>2. CASE ~(sessions[i].slot /\ sessions[i].linger # 0 /\ ~sessions[i].attached)
          BY <2>2, <4>2 DEF ReadAttached
        <4> QED
          BY <4>1, <4>2
      <3>3. ScanInv'
        BY <1>1, <1>2, <3>1, <3>2 DEF ScanInv
      <3> QED
        BY <1>1, <3>1, <3>2, <3>3 DEF TypeOK
    <2>3. CASE ReadHeartbeat
      BY <1>1, <1>2, <2>3 DEF ReadHeartbeat, ScanInv, TypeOK
    <2> QED
      BY <2>1, <2>2, <2>3
  <1>5. ClientsTyped'
    BY <1>1, <1>2, SameClients DEF ClientsKept
  <1>6. TypeOK'
    BY <1>1, <1>2, <1>3, <1>4, <1>5 DEF TypeOK, ClientsTyped
  <1>7. PresenceInv' /\ NoGhostSession'
    BY <1>2, <1>3 DEF PresenceInv, NoGhostSession, IInv
  <1> QED
    BY <1>2, <1>4, <1>6, <1>7 DEF IInv, AskingInv, ReconnectsHome

-----------------------------------------------------------------------------
(* The requests that wait *)

LEMMA BeginInv ==
  ASSUME RegistryAssumption, IInv, loop = "select",
         NEW where \in {"new", "attach"}, NEW i \in Ids, NEW c \in Clients, NEW force \in BOOLEAN,
         client[c] \in {"out", "down"}, Begin(where, i, c, force),
         sessions' \in [Live' -> Session], Live' \subseteq Ids, i \in Live',
         \A j \in Live' : /\ Presence(sessions'[j])
                          /\ sessions'[j].given \/ (where = "new" /\ j = i),
         next_id' \in 0..MaxIds, UNCHANGED <<server_id, last_attached, scanVars>>,
         where = "attach" /\ client[c] = "down" => home[c] = {<<server_id, i>>}
  PROVE  IInv'
  <1>1. TypeOK
    BY DEF IInv
  <1>2. /\ loop' = where /\ op' = [id |-> i, client |-> c, was |-> client[c], force |-> force]
        /\ client' = [client EXCEPT ![c] = "asking"] /\ home' = home
    <2>1. client' = [d \in Clients |-> IF d \in {c} THEN "asking" ELSE client[d]]
      BY DEF Begin, ClientsBecome
    <2>2. client = [d \in Clients |-> client[d]]
      BY <1>1 DEF TypeOK
    <2>3. client' = [client EXCEPT ![c] = "asking"]
      BY <2>1, <2>2
    <2> QED
      BY <2>3 DEF Begin, ClientsBecome
  <1>3. /\ todo = {} /\ reading = {} /\ expired = {}
        /\ todo' = {} /\ reading' = {} /\ expired' = {}
    BY DEF IInv, ScanInv, scanVars
  <1>4. ClientsTyped'
    BY <1>1, <1>2 DEF ClientsTyped, TypeOK
  <1>5. TypeOK'
    BY <1>1, <1>2, <1>3, <1>4 DEF TypeOK, ClientsTyped
  <1>6. AskingInv'
    BY <1>1, <1>2 DEF AskingInv, TypeOK
  <1>7. ReconnectsHome'
    BY <1>2 DEF ReconnectsHome
  <1>8. PresenceInv' /\ NoGhostSession' /\ ScanInv'
    BY <1>2, <1>3 DEF PresenceInv, NoGhostSession, ScanInv
  <1> QED
    BY <1>5, <1>6, <1>7, <1>8 DEF IInv

LEMMA NewSessionInv ==
  ASSUME RegistryAssumption, IInv,
         NEW c \in Clients, NEW n \in Strings \cup {NoName}, NEW l \in Lingers,
         NewSession(c, n, l)
  PROVE  IInv'
  <1> DEFINE e == [name |-> n, task |-> "starting", slot |-> FALSE, attached |-> FALSE,
                   linger |-> l, age |-> 0, seen |-> 0, queue |-> <<>>, served |-> NoClient,
                   idle |-> 0, given |-> FALSE]
             S == reap_sessions \cup {next_id}
  <1>1. TypeOK /\ sessions \in [Live -> Session] /\ Live \subseteq Ids /\ next_id \in Ids
    BY DEF IInv, TypeOK, NewSession
  <1>2. e \in Session /\ Presence(e)
    <2>1. n \in Names \cup {NoName} /\ l \in 0..MaxAge
      BY DEF NewSession, validate_session_name, RegistryAssumption
    <2>2. <<>> \in Seq(Clients)
      OBVIOUS
    <2>3. e \in Session
      BY <2>1, <2>2, ZeroAge DEF Session, Phases
    <2> QED
      BY <2>3 DEF Presence, Serves
  <1>3. sessions' = [i \in S |-> IF i = next_id THEN e ELSE sessions[i]]
    BY DEF NewSession
  <1>4. S \subseteq Ids /\ S \ {next_id} \subseteq Live
    BY <1>1 DEF reap_sessions
  <1> HIDE DEF e
  <1>5. sessions' \in [S -> Session] /\ Live' = S
    BY <1>1, <1>2, <1>3, <1>4 DEF Live
  <1>6. \A j \in S : /\ Presence(sessions'[j])
                     /\ sessions'[j].given \/ j = next_id
    BY <1>2, <1>3, <1>4 DEF IInv, PresenceInv, NoGhostSession, NewSession
  <1>7. next_id' \in 0..MaxIds
    BY <1>1 DEF NewSession, RegistryAssumption, Ids
  <1> HIDE DEF S
  <1>8. next_id \in S
    BY DEF S
  <1> QED
    BY <1>1, <1>4, <1>5, <1>6, <1>7, <1>8, BeginInv DEF NewSession

\* No name hides an id: it resolves to itself, if to anything.
LEMMA IdResolves ==
  ASSUME RegistryAssumption, TypeOK, NEW i \in Ids
  PROVE  Resolved(i) \subseteq {i}
  <1>1. i # Dash
    BY DEF RegistryAssumption
  <1>2. ~NameTaken(i)
    <2>1. \A j \in Live : sessions[j].name \in Names \cup {NoName}
      BY DEF TypeOK, Session
    <2> QED
      BY <2>1 DEF NameTaken, reap_sessions, RegistryAssumption
  <1> QED
    BY <1>1, <1>2 DEF Resolved, resolve_session

LEMMA AttachRequestInv ==
  ASSUME RegistryAssumption, IInv, NEW c \in Clients,
         Reconnect(c) \/ \E t \in Strings, force \in BOOLEAN : ConnectRequest(c, t, force)
  PROVE  IInv'
  <1>1. TypeOK /\ Live \subseteq Ids /\ reap_sessions \subseteq Live
    BY DEF IInv, TypeOK, reap_sessions
  <1>2. \A t : Resolved(t) \subseteq reap_sessions
    BY DEF Resolved, resolve_session
  <1>3. PICK i \in reap_sessions, force \in BOOLEAN :
          /\ Begin("attach", i, c, force)
          /\ client[c] = "out" \/ home[c] = {<<server_id, i>>}
    <2>1. CASE Reconnect(c)
      <3>1. PICK i \in HomeNow(c) : \E k \in Resolved(i) : Begin("attach", k, c, TRUE)
        BY <2>1 DEF Reconnect
      <3>2. i \in Ids /\ home[c] = {<<server_id, i>>}
        BY <3>1 DEF HomeNow
      <3>3. i \in Resolved(i) /\ Begin("attach", i, c, TRUE)
        BY <1>1, <3>1, <3>2, IdResolves
      <3> QED
        BY <1>2, <3>2, <3>3
    <2>2. CASE \E t \in Strings, force \in BOOLEAN : ConnectRequest(c, t, force)
      BY <1>2, <2>2 DEF ConnectRequest
    <2> QED
      BY <2>1, <2>2
  <1>4. /\ loop = "select" /\ client[c] \in {"out", "down"}
        /\ sessions' = Kept(sessions, reap_sessions)
        /\ UNCHANGED <<server_id, next_id, last_attached, scanVars>>
    BY DEF Reconnect, ConnectRequest
  <1>5. /\ sessions' \in [reap_sessions -> Session] /\ Live' = reap_sessions
        /\ \A j \in reap_sessions : Presence(sessions'[j]) /\ sessions'[j].given
    <2>1. \A j \in reap_sessions : sessions[j].given
      BY <1>1, <1>4 DEF IInv, NoGhostSession
    <2> QED
      BY <1>1, <1>4, <2>1, KeptSweeps DEF Live
  <1>6. next_id' \in 0..MaxIds
    BY <1>1, <1>4 DEF TypeOK
  <1> QED
    BY <1>1, <1>3, <1>4, <1>5, <1>6, BeginInv

-----------------------------------------------------------------------------
(* The theorems *)

LEMMA InvInit ==
  ASSUME RegistryAssumption, Init
  PROVE  IInv
  <1>1. Live = {} /\ sessions \in [{} -> Session]
    BY DEF Init, Live
  <1>2. op \in [id : Ids \cup {-1}, client : Clients \cup {NoClient},
                was : {"out", "down"}, force : BOOLEAN]
    BY DEF Init, NoOp
  <1>3. TypeOK
    BY <1>1, <1>2 DEF Init, TypeOK, RegistryAssumption
  <1> QED
    BY <1>1, <1>3 DEF Init, IInv, PresenceInv, ScanInv, AskingInv, NoGhostSession, ReconnectsHome

LEMMA InvNext ==
  ASSUME RegistryAssumption, IInv, [Next]_vars
  PROVE  IInv'
  <1>1. CASE UNCHANGED vars \/ Tick \/ \E c \in Clients : Leave(c) \/ Interrupt(c)
    BY <1>1, AloneInv
  <1>2. CASE LoopStep
    BY <1>2, ScanStepInv, EndInv, RequestInv DEF LoopStep
  <1>3. CASE Request
    <2>1. ASSUME NEW c \in Clients, Reconnect(c) \/ ReconnectRefused(c)
                   \/ \E t \in Strings, force \in BOOLEAN : ConnectRequest(c, t, force)
          PROVE  IInv'
      BY <2>1, AttachRequestInv, RequestInv
    <2>2. ASSUME NEW c \in Clients,
                 \E n \in Strings \cup {NoName}, l \in Lingers : NewSession(c, n, l)
          PROVE  IInv'
      BY <2>2, NewSessionInv
    <2> QED
      BY <1>3, <2>1, <2>2, RequestInv DEF Request
  <1>4. CASE Restart
    BY <1>4, RestartInv
  <1>5. CASE \E i \in Ids : TaskStep(i) \/ TaskInput(i)
    BY <1>5, TaskStepInv
  <1> QED
    BY <1>1, <1>2, <1>3, <1>4, <1>5 DEF Next

\* Each field, each client and each request has its type.
THEOREM TypeCorrect ==
  ASSUME RegistryAssumption
  PROVE  Spec => []TypeOK
  <1>1. Init => IInv
    BY InvInit
  <1>2. IInv /\ [Next]_vars => IInv'
    BY InvNext
  <1>3. IInv => TypeOK
    BY DEF IInv
  <1> QED
    BY <1>1, <1>2, <1>3, PTL DEF Spec

\* A creator that vanishes before it is told leaves no session behind.
THEOREM NoneUnattended ==
  ASSUME RegistryAssumption
  PROVE  Spec => []NoGhostSession
  <1>1. Init => IInv
    BY InvInit
  <1>2. IInv /\ [Next]_vars => IInv'
    BY InvNext
  <1>3. IInv => NoGhostSession
    BY DEF IInv
  <1> QED
    BY <1>1, <1>2, <1>3, PTL DEF Spec

\* Across renames, kills and daemons, a reconnecting client is handed to its own session.
THEOREM Homecoming ==
  ASSUME RegistryAssumption
  PROVE  Spec => []ReconnectsHome
  <1>1. Init => IInv
    BY InvInit
  <1>2. IInv /\ [Next]_vars => IInv'
    BY InvNext
  <1>3. IInv => ReconnectsHome
    BY DEF IInv
  <1> QED
    BY <1>1, <1>2, <1>3, PTL DEF Spec

\* Only the second load of the reaper condemns a session.
LEMMA Condemned ==
  ASSUME Next, ~ReadHeartbeat
  PROVE  expired' \subseteq expired
  <1>1. CASE Tick \/ \E c \in Clients : Leave(c) \/ Interrupt(c)
    BY <1>1 DEF Tick, Leave, Interrupt, daemonVars, scanVars
  <1>2. CASE LoopStep
    BY <1>2 DEF LoopStep, StartScan, ReadAttached, EndScan, OtherEvent, NewSessionFails,
         NewSessionDone, AttachFails, AttachDone, HandOver, scanVars
  <1>3. CASE Request
    BY <1>3 DEF Request, NewSession, ConnectRequest, Reconnect, ReconnectRefused, KillSession,
         NotFound, RenameSession, SetLinger, Done, scanVars
  <1>4. CASE Restart
    BY <1>4 DEF Restart
  <1>5. CASE \E i \in Ids : TaskStep(i) \/ TaskInput(i)
    BY <1>5 DEF TaskStep, TaskInput, NoticeLoss, Publish, TakeFirst, SpawnShell, TakeClient, Ping,
         LoseClient, ClearAttached, Pin, EndTask, FinishTask, TaskLeaves, daemonVars, scanVars
  <1> QED
    BY <1>1, <1>2, <1>3, <1>4, <1>5 DEF Next

\* Whatever the task does between the reaper's two loads, a session it condemns
\* has not been used for as long as its linger.
THEOREM NoEarlyVerdict ==
  ASSUME RegistryAssumption
  PROVE  Spec => LingerKept
  <1>1. Init => IInv
    BY InvInit
  <1>2. IInv /\ [Next]_vars => IInv'
    BY InvNext
  <1>3. IInv /\ [Next]_vars
          => [\A r \in reading : r.id \in expired' => sessions[r.id].idle >= r.linger]_vars
    <2> SUFFICES ASSUME IInv, Next, NEW r \in reading, r.id \in expired'
                 PROVE  sessions[r.id].idle >= r.linger
      OBVIOUS
    <2>1. r.id \notin expired /\ Judged(sessions[r.id]) /\ \A q \in reading : q = r
      BY DEF IInv, ScanInv
    <2>2. ReadHeartbeat
      BY <2>1, Condemned
    <2>3. sessions[r.id].seen >= r.linger
      BY <2>1, <2>2 DEF ReadHeartbeat
    <2>4. sessions[r.id] \in Session /\ r.linger \in 1..MaxAge
      BY DEF IInv, TypeOK
    <2>5. /\ sessions[r.id].seen \in 0..MaxAge /\ sessions[r.id].idle \in 0..MaxAge
          /\ MaxAge \in Nat
      BY <2>4 DEF Session, RegistryAssumption
    <2> QED
      BY <2>1, <2>3, <2>4, <2>5 DEF Judged
  <1> QED
    BY <1>1, <1>2, <1>3, PTL DEF Spec, LingerKept

-----------------------------------------------------------------------------
(* File transfer *)

-----------------------------------------------------------------------------
(* Types *)

\* What the other steps of a peer's race leave: it has won a stream, or has one
\* stream less.
LEMMA RaceType ==
  ASSUME T!PeersAssumption, T!TypeOK, NEW x \in T!Peers, NEW i \in Sessions,
         NEW in \in Seq(T!Messages), T!Wins(x, i, in) \/ T!Skips(x, i)
  PROVE  /\ pc' \in [T!Peers -> {"out", "racing", "busy", "done", "failed"}]
         /\ pick' \in [T!Peers -> Sessions \cup {0}]
         /\ cli' \subseteq T!Streams
         /\ inbox' \in [T!Streams -> Seq(T!Messages)]
  <1>1. CASE T!Wins(x, i, in)
    BY <1>1 DEF T!TypeOK, T!Wins, T!Leaves, T!Streams
  <1>2. CASE T!Skips(x, i)
    BY <1>2 DEF T!TypeOK, T!Skips, T!Leaves
  <1> QED
    BY <1>1, <1>2

\* Saying something keeps the types of the streams, whoever it is said to.
LEMMA SayType ==
  ASSUME T!TypeOK, NEW y, NEW i, NEW m \in T!Messages, T!Say(y, i, m)
  PROVE  inbox' \in [T!Streams -> Seq(T!Messages)]
  <1>1. CASE <<y, i>> \in T!Streams
    <2>1. Append(inbox[<<y, i>>], m) \in Seq(T!Messages)
      BY <1>1 DEF T!TypeOK
    <2> QED
      BY <2>1 DEF T!TypeOK, T!Say
  <1>2. CASE <<y, i>> \notin T!Streams
    BY <1>2 DEF T!TypeOK, T!Say
  <1> QED
    BY <1>1, <1>2

LEMMA TypeStep ==
  ASSUME T!PeersAssumption, T!TypeOK, [T!Next]_(T!vars)
  PROVE  T!TypeOK'
  <1> USE DEF T!peerVars, T!sessVars
  <1>1. ASSUME NEW x \in T!Peers, NEW S \in T!Discovered, T!Offer(x, S) PROVE T!TypeOK'
    BY <1>1 DEF T!TypeOK, T!Offer, T!Discovered, T!Streams
  <1>2. ASSUME NEW x \in Senders, NEW i \in Sessions, T!ReadGo(x, i) PROVE T!TypeOK'
    <2>1. <<>> \in Seq(T!Messages) /\ (T!Wins(x, i, <<>>) \/ T!Skips(x, i))
      BY <1>2 DEF T!ReadGo
    <2>2. UNCHANGED <<written, partial, target, quits, sent, events, meeting, relay, notify, srv>>
      BY <1>2 DEF T!ReadGo
    <2> QED
      BY <2>1, <2>2, RaceType DEF T!TypeOK, T!Peers
  <1>3. ASSUME NEW x \in Receivers, NEW i \in Sessions, T!ReadCount(x, i) PROVE T!TypeOK'
    <2>1. inbox[<<x, i>>] \in Seq(T!Messages)
      BY DEF T!TypeOK, T!Streams, T!Peers
    <2>2. \E in \in Seq(T!Messages) : T!Wins(x, i, in) \/ T!Skips(x, i)
      <3>1. CASE inbox[<<x, i>>] # <<>> /\ T!Wins(x, i, Tail(inbox[<<x, i>>]))
        <4>1. Tail(inbox[<<x, i>>]) \in Seq(T!Messages)
          BY <2>1, <3>1
        <4> QED
          BY <3>1, <4>1
      <3>2. CASE T!Skips(x, i)
        BY <2>1, <3>2
      <3> QED
        BY <1>3, <3>1, <3>2 DEF T!ReadCount
    <2>3. UNCHANGED <<written, partial, target, quits, sent, events, meeting, relay, notify, srv>>
      BY <1>3 DEF T!ReadCount
    <2> QED
      BY <2>2, <2>3, RaceType DEF T!TypeOK, T!Peers
  <1>4. ASSUME NEW x \in T!Peers, T!Write(x) PROVE T!TypeOK'
    <2>1. UNCHANGED <<pick, partial, target, quits, T!sessVars>>
      BY <1>4 DEF T!Write
    <2>2. written' \in [Senders -> 0..Size]
      <3>1. written' = written \/ (x \in Senders /\ written[x] < Size
                                  /\ written' = [written EXCEPT ![x] = @ + 1])
        BY <1>4 DEF T!Write
      <3>2. \A w \in 0..Size : w < Size => w + 1 \in 0..Size
        BY DEF T!PeersAssumption
      <3>3. CASE x \in Senders /\ written[x] < Size /\ written' = [written EXCEPT ![x] = @ + 1]
        <4>1. written[x] + 1 \in 0..Size
          BY <3>2, <3>3 DEF T!TypeOK
        <4> QED
          BY <3>3, <4>1 DEF T!TypeOK
      <3> QED
        BY <3>1, <3>3 DEF T!TypeOK
    <2>3. /\ pc' \in [T!Peers -> {"out", "racing", "busy", "done", "failed"}]
          /\ cli' \subseteq T!Streams
      BY <1>4 DEF T!TypeOK, T!Write, T!Leaves
    <2> QED
      BY <2>1, <2>2, <2>3 DEF T!TypeOK
  <1>5. ASSUME NEW r \in T!Peers, T!Receive(r) PROVE T!TypeOK'
    <2> DEFINE a == <<r, pick[r]>>  in == inbox[a]
    <2>1. /\ r \in Receivers
          /\ UNCHANGED <<pick, written, quits, sent, events, meeting, relay, notify, srv>>
      BY <1>5 DEF T!Receive
    <2>2. /\ pc' \in [T!Peers -> {"out", "racing", "busy", "done", "failed"}]
          /\ cli' \subseteq T!Streams
      BY <1>5 DEF T!TypeOK, T!Receive, T!Leaves
    <2>3. inbox' \in [T!Streams -> Seq(T!Messages)]
      <3>1. inbox' = inbox \/ (in # <<>> /\ inbox' = [inbox EXCEPT ![a] = Tail(in)])
        BY <1>5 DEF T!Receive
      <3>2. in # <<>> /\ a \in T!Streams => Tail(in) \in Seq(T!Messages)
        BY DEF T!TypeOK
      <3> HIDE DEF a, in
      <3> QED
        BY <3>1, <3>2 DEF T!TypeOK
    <2>4. partial' \in [Receivers -> Seq(Senders)] /\ target' \in [Receivers -> Seq(Senders)]
      <3>1. CASE in # <<>> /\ Head(in) \in Senders
        <4> DEFINE p == Append(partial[r], Head(in))
        <4>1. p \in Seq(Senders)
          BY <2>1, <3>1 DEF T!TypeOK
        <4>2. target' = target \/ target' = [target EXCEPT ![r] = p]
          BY <1>5, <3>1 DEF T!Receive, T!PeersAssumption, T!Peers
        <4>3. \/ partial' = partial \/ partial' = [partial EXCEPT ![r] = p]
              \/ partial' = [partial EXCEPT ![r] = <<>>]
          BY <1>5, <3>1 DEF T!Receive
        <4>4. <<>> \in Seq(Senders)
          OBVIOUS
        <4> HIDE DEF p
        <4> QED
          BY <2>1, <4>1, <4>2, <4>3, <4>4 DEF T!TypeOK
      <3>2. CASE ~(in # <<>> /\ Head(in) \in Senders)
        <4>1. target' = target /\ (partial' = partial \/ partial' = [partial EXCEPT ![r] = <<>>])
          BY <1>5, <3>2 DEF T!Receive
        <4>2. <<>> \in Seq(Senders)
          OBVIOUS
        <4> QED
          BY <2>1, <4>1, <4>2 DEF T!TypeOK
      <3> QED
        BY <3>1, <3>2
    <2> QED
      BY <2>1, <2>2, <2>3, <2>4 DEF T!TypeOK
  <1>6. ASSUME NEW x \in T!Peers, T!Quit(x) PROVE T!TypeOK'
    BY <1>6 DEF T!TypeOK, T!Quit, T!Leaves
  <1>7. ASSUME NEW x \in T!Peers, NEW i \in Sessions, T!Arrive(x, i) PROVE T!TypeOK'
    BY <1>7 DEF T!TypeOK, T!Arrive
  <1>8. ASSUME NEW x \in T!Peers, NEW i \in Sessions, T!Refuse(x, i) PROVE T!TypeOK'
    BY <1>8 DEF T!TypeOK, T!Refuse
  <1>9. ASSUME NEW i \in Sessions, T!HandleSendEvent(i) PROVE T!TypeOK'
    <2> DEFINE x == Head(events[i])  old == meeting[i]
    <2>1. /\ events[i] \in Seq(T!Peers) /\ events[i] # <<>> /\ x \in T!Peers
          /\ events' = [events EXCEPT ![i] = Tail(@)]
          /\ UNCHANGED <<T!peerVars, sent, notify>>
      BY <1>9 DEF T!TypeOK, T!HandleSendEvent
    <2>2. events' \in [Sessions -> Seq(T!Peers)]
      BY <2>1 DEF T!TypeOK
    <2>3. /\ meeting' \in [Sessions -> T!Slots] /\ relay' \in [T!Pairs -> 0..T!End]
          /\ srv' \subseteq T!Streams
      <3>1. old \in T!Slots
        BY DEF T!TypeOK
      <3>2. CASE T!Running(i)
        BY <1>9, <3>2 DEF T!TypeOK, T!HandleSendEvent
      <3>3. ASSUME NEW s \in Senders, NEW r \in Receivers, T!Pair(s, r, i)
            PROVE  /\ meeting' \in [Sessions -> T!Slots] /\ relay' \in [T!Pairs -> 0..T!End]
                   /\ srv' \subseteq T!Streams
        <4>1. [k |-> "active", s |-> s, r |-> r] \in T!Slots
          BY DEF T!Slots
        <4>2. 1 \in 0..T!End
          BY DEF T!PeersAssumption, T!End
        <4> QED
          BY <3>3, <4>1, <4>2 DEF T!TypeOK, T!Pair
      <3>4. ASSUME NEW k, T!Displace(x, i, k, old), [k |-> k, x |-> x] \in T!Slots
            PROVE  /\ meeting' \in [Sessions -> T!Slots] /\ relay' \in [T!Pairs -> 0..T!End]
                   /\ srv' \subseteq T!Streams
        BY <3>4 DEF T!TypeOK, T!Displace
      <3>5. CASE ~T!Running(i) /\ x \in Senders
        <4>1. [k |-> "sender", x |-> x] \in T!Slots
          BY <3>5 DEF T!Slots
        <4>2. old.k = "receiver" => old.x \in Receivers
          BY <3>1 DEF T!Slots, T!Idle
        <4> QED
          BY <1>9, <3>3, <3>4, <3>5, <4>1, <4>2 DEF T!HandleSendEvent, T!PeersAssumption
      <3>6. CASE ~T!Running(i) /\ x \in Receivers
        <4>1. [k |-> "receiver", x |-> x] \in T!Slots
          BY <3>6 DEF T!Slots
        <4>2. old.k = "sender" => old.x \in Senders
          BY <3>1 DEF T!Slots, T!Idle
        <4> QED
          BY <1>9, <3>3, <3>4, <3>6, <4>1, <4>2 DEF T!HandleSendEvent, T!PeersAssumption
      <3> QED
        BY <2>1, <3>2, <3>5, <3>6 DEF T!Peers
    <2>4. inbox' \in [T!Streams -> Seq(T!Messages)]
      <3>1. inbox' = inbox \/ (\E y \in {x, old.x}, m \in T!Messages : T!Say(y, i, m))
        BY <1>9 DEF T!HandleSendEvent, T!Pair, T!Messages
      <3> QED
        BY <3>1, SayType DEF T!TypeOK
    <2> QED
      BY <2>1, <2>2, <2>3, <2>4 DEF T!TypeOK
  <1>10. ASSUME NEW i \in Sessions, T!Notification(i) PROVE T!TypeOK'
    BY <1>10 DEF T!TypeOK, T!Notification, T!Slots, T!Idle
  <1>11. ASSUME NEW s \in Senders, NEW r \in Receivers, NEW i \in Sessions, T!RelayStep(s, r, i)
         PROVE T!TypeOK'
    <2> DEFINE n == relay[<<s, r, i>>]
    <2>1. /\ n \in 1..(T!End - 1) /\ n + 1 \in 0..T!End /\ T!End \in 0..T!End
          /\ UNCHANGED <<T!peerVars, sent, events, meeting>>
      BY <1>11 DEF T!RelayStep, T!End, T!PeersAssumption
    <2>2. /\ relay' \in [T!Pairs -> 0..T!End] /\ notify' \in [Sessions -> Nat]
          /\ srv' \subseteq T!Streams
      <3>1. \/ relay' = [relay EXCEPT ![<<s, r, i>>] = T!End]
            \/ relay' = [relay EXCEPT ![<<s, r, i>>] = n + 1]
        BY <1>11 DEF T!RelayStep, T!RelayEnds, T!RelayWrites
      <3>2. notify' = notify \/ notify' = [notify EXCEPT ![i] = @ + 1]
        BY <1>11 DEF T!RelayStep, T!RelayEnds, T!RelayWrites
      <3>3. srv' \subseteq srv
        BY <1>11 DEF T!RelayStep, T!RelayEnds, T!RelayWrites
      <3> HIDE DEF n
      <3>4. relay' \in [T!Pairs -> 0..T!End]
        BY <2>1, <3>1 DEF T!TypeOK
      <3>5. notify' \in [Sessions -> Nat]
        <4>1. notify[i] + 1 \in Nat
          BY DEF T!TypeOK
        <4> QED
          BY <3>2, <4>1 DEF T!TypeOK
      <3> QED
        BY <3>3, <3>4, <3>5 DEF T!TypeOK
    <2>3. inbox' \in [T!Streams -> Seq(T!Messages)]
      <3>1. inbox' = inbox \/ (\E y \in {s, r}, m \in T!Messages : T!Say(y, i, m))
        BY <1>11 DEF T!RelayStep, T!RelayWrites, T!Messages
      <3> QED
        BY <3>1, SayType DEF T!TypeOK
    <2> QED
      BY <2>1, <2>2, <2>3 DEF T!TypeOK
  <1>12. CASE UNCHANGED T!vars
    BY <1>12 DEF T!TypeOK, T!vars
  <1> QED
    BY <1>1, <1>2, <1>3, <1>4, <1>5, <1>6, <1>7, <1>8, <1>9, <1>10, <1>11, <1>12
    DEF T!Next, T!PeerStep, T!SessionStep, T!SendCommand, T!ReceiveCommand

-----------------------------------------------------------------------------
(* What the steps do *)

\* A peer that is offered does not touch what the sessions hold.
LEMMA PeerFrame ==
  ASSUME T!TypeOK, NEW x \in T!Peers, NEW i \in Sessions,
         T!ReadGo(x, i) \/ T!ReadCount(x, i) \/ T!Write(x) \/ T!Receive(x) \/ T!Quit(x)
  PROVE  /\ UNCHANGED <<sent, events, meeting, relay, notify>>
         /\ \A y \in T!Peers : pc'[y] = "out" => pc[y] = "out"
  BY DEF T!TypeOK, T!ReadGo, T!ReadCount, T!Wins, T!Skips, T!Leaves, T!Write, T!Receive,
       T!Quit, T!sessVars

\* handle_send_event drops the newcomer, puts it in the slot, or moves it and
\* the peer that waits there to a relay; receivers are told nothing.
LEMMA HandleEffect ==
  ASSUME T!PeersAssumption, T!TypeOK, NEW i \in Sessions, T!HandleSendEvent(i)
  PROVE  \E x \in T!Peers :
         /\ UNCHANGED <<T!peerVars, sent, notify>>
         /\ events[i] # <<>> /\ x = Head(events[i]) /\ events' = [events EXCEPT ![i] = Tail(@)]
         /\ \/ UNCHANGED <<meeting, relay>>
            \/ \E k \in {"sender", "receiver"} :
                  meeting' = [meeting EXCEPT ![i] = [k |-> k, x |-> x]] /\ UNCHANGED relay
            \/ \E s \in Senders, r \in Receivers :
                  /\ T!Pair(s, r, i)
                  /\ \/ s = x /\ T!Waits(r, i)
                     \/ r = x /\ T!Waits(s, i)
         /\ \A r \in Receivers, j \in Sessions : inbox'[<<r, j>>] = inbox[<<r, j>>]
  <1> DEFINE x == Head(events[i])  old == meeting[i]
  <1>1. /\ UNCHANGED <<T!peerVars, sent, notify>>
        /\ events[i] # <<>> /\ events' = [events EXCEPT ![i] = Tail(@)] /\ x \in T!Peers
    BY DEF T!HandleSendEvent, T!TypeOK
  <1>2. /\ old.k = "sender" => old.x \in Senders
        /\ old.k = "receiver" => old.x \in Receivers
    <2>1. old \in T!Slots
      BY DEF T!TypeOK
    <2> QED
      BY <2>1 DEF T!Slots, T!Idle
  <1>3. ASSUME NEW y \in Senders, NEW m, T!Say(y, i, m)
        PROVE  \A r \in Receivers, j \in Sessions : inbox'[<<r, j>>] = inbox[<<r, j>>]
    BY <1>3 DEF T!Say, T!TypeOK, T!PeersAssumption, T!Streams, T!Peers
  <1>4. CASE T!Running(i)
    BY <1>1, <1>3, <1>4 DEF T!HandleSendEvent
  <1>5. CASE ~T!Running(i) /\ x \in Senders
    BY <1>1, <1>2, <1>3, <1>5 DEF T!HandleSendEvent, T!Displace, T!Pair, T!Waits,
         T!PeersAssumption
  <1>6. CASE ~T!Running(i) /\ x \in Receivers
    BY <1>1, <1>2, <1>3, <1>6 DEF T!HandleSendEvent, T!Displace, T!Pair, T!Waits,
         T!PeersAssumption
  <1>7. \/ UNCHANGED <<meeting, relay>>
        \/ \E k \in {"sender", "receiver"} :
              meeting' = [meeting EXCEPT ![i] = [k |-> k, x |-> x]] /\ UNCHANGED relay
        \/ \E s \in Senders, r \in Receivers :
              /\ T!Pair(s, r, i)
              /\ \/ s = x /\ T!Waits(r, i)
                 \/ r = x /\ T!Waits(s, i)
    BY <1>1, <1>4, <1>5, <1>6 DEF T!Peers
  <1>8. \A r \in Receivers, j \in Sessions : inbox'[<<r, j>>] = inbox[<<r, j>>]
    BY <1>1, <1>4, <1>5, <1>6 DEF T!Peers
  <1> QED
    BY <1>1, <1>7, <1>8

-----------------------------------------------------------------------------
(* One place per peer and session *)

\* The first of a queue without duplicates is not among the rest.
LEMMA QueueHead ==
  ASSUME NEW q \in Seq(T!Peers), q # <<>>, \A j, k \in DOMAIN q : q[j] = q[k] => j = k
  PROVE  /\ \A j, k \in DOMAIN Tail(q) : Tail(q)[j] = Tail(q)[k] => j = k
         /\ \A j \in DOMAIN Tail(q) : Tail(q)[j] # Head(q) /\ \E k \in DOMAIN q : Tail(q)[j] = q[k]
  <1>1. /\ Len(Tail(q)) = Len(q) - 1 /\ Len(q) \in Nat \ {0}
        /\ DOMAIN q = 1..Len(q) /\ DOMAIN Tail(q) = 1..Len(Tail(q))
        /\ \A j \in 1..Len(Tail(q)) : Tail(q)[j] = q[j + 1]
        /\ Head(q) = q[1]
    OBVIOUS
  <1> QED
    BY <1>1

\* A peer that goes nowhere new is still in one place.
LEMMA PlaceKept ==
  ASSUME NEW x, NEW i, T!PlaceInv(x, i),
         pc'[x] = "out" => pc[x] = "out",
         <<x, i>> \in sent' => <<x, i>> \in sent,
         T!Queued(x, i)' => T!Queued(x, i), T!Waits(x, i)' => T!Waits(x, i),
         T!Relayed(x, i)' => T!Relayed(x, i)
  PROVE  T!PlaceInv(x, i)'
  BY DEF T!PlaceInv

LEMMA PlaceStep ==
  ASSUME T!PeersAssumption, T!TypeOK, [T!Next]_(T!vars),
         \A i \in Sessions : T!QueueInv(i),
         \A x \in T!Peers, i \in Sessions : T!PlaceInv(x, i)
  PROVE  /\ \A i \in Sessions : T!QueueInv(i)'
         /\ \A x \in T!Peers, i \in Sessions : T!PlaceInv(x, i)'
  <1> DEFINE Goal == /\ \A i \in Sessions : T!QueueInv(i)'
                     /\ \A x \in T!Peers, i \in Sessions : T!PlaceInv(x, i)'
  <1>1. ASSUME NEW y \in T!Peers, NEW S \in T!Discovered, T!Offer(y, S) PROVE Goal
    <2>1. UNCHANGED <<events, meeting, relay>>
      BY <1>1 DEF T!Offer
    <2>2. \A x, i : /\ T!Queued(x, i)' <=> T!Queued(x, i)
                    /\ T!Waits(x, i)' <=> T!Waits(x, i)
                    /\ T!Relayed(x, i)' <=> T!Relayed(x, i)
      BY <2>1 DEF T!Queued, T!Waits, T!Relayed
    <2>3. \A x \in T!Peers, i \in Sessions : T!PlaceInv(x, i)'
      <3> TAKE x \in T!Peers, i \in Sessions
      <3>1. CASE x = y
        BY <1>1, <2>2, <3>1 DEF T!Offer, T!TypeOK, T!PlaceInv
      <3>2. CASE x # y
        <4>1. pc'[x] = pc[x] /\ (<<x, i>> \in sent' => <<x, i>> \in sent)
          BY <1>1, <3>2 DEF T!Offer, T!TypeOK
        <4> QED
          BY <2>2, <4>1, PlaceKept
      <3> QED
        BY <3>1, <3>2
    <2> QED
      BY <2>1, <2>3 DEF T!QueueInv
  <1>2. ASSUME NEW y \in T!Peers, NEW i \in Sessions,
               T!ReadGo(y, i) \/ T!ReadCount(y, i) \/ T!Write(y) \/ T!Receive(y) \/ T!Quit(y)
        PROVE  Goal
    <2>1. /\ UNCHANGED <<sent, events, meeting, relay, notify>>
          /\ \A x \in T!Peers : pc'[x] = "out" => pc[x] = "out"
      BY <1>2, PeerFrame
    <2>2. \A x, j : /\ T!Queued(x, j)' <=> T!Queued(x, j)
                    /\ T!Waits(x, j)' <=> T!Waits(x, j)
                    /\ T!Relayed(x, j)' <=> T!Relayed(x, j)
      BY <2>1 DEF T!Queued, T!Waits, T!Relayed
    <2> QED
      BY <2>1, <2>2, PlaceKept DEF T!QueueInv
  <1>3. ASSUME NEW y \in T!Peers, NEW k \in Sessions, T!Arrive(y, k) PROVE Goal
    <2>1. /\ <<y, k>> \in sent /\ sent' = sent \ {<<y, k>>}
          /\ events' = [events EXCEPT ![k] = Append(@, y)]
          /\ UNCHANGED <<pc, meeting, relay>>
      BY <1>3 DEF T!Arrive, T!peerVars
    <2>2. \A x, i : T!Waits(x, i)' <=> T!Waits(x, i)
      BY <2>1 DEF T!Waits
    <2>3. \A x, i : T!Relayed(x, i)' <=> T!Relayed(x, i)
      BY <2>1 DEF T!Relayed
    <2>4. /\ Len(events'[k]) = Len(events[k]) + 1 /\ Len(events[k]) \in Nat
          /\ DOMAIN events'[k] = 1..Len(events'[k]) /\ DOMAIN events[k] = 1..Len(events[k])
          /\ \A j \in DOMAIN events[k] : events'[k][j] = events[k][j]
          /\ events'[k][Len(events[k]) + 1] = y
          /\ \A i \in Sessions \ {k} : events'[i] = events[i]
      <3>1. events[k] \in Seq(T!Peers) /\ events'[k] = Append(events[k], y)
        BY <2>1 DEF T!TypeOK
      <3>2. \A i \in Sessions \ {k} : events'[i] = events[i]
        BY <2>1 DEF T!TypeOK
      <3> QED
        BY <3>1, <3>2
    <2>5. \A x \in T!Peers, i \in Sessions :
            T!Queued(x, i)' => T!Queued(x, i) \/ (x = y /\ i = k)
      BY <2>4 DEF T!Queued
    <2>6. \A i \in Sessions : T!QueueInv(i)'
      <3>1. ~T!Queued(y, k)
        BY <2>1 DEF T!PlaceInv
      <3>2. \A j \in DOMAIN events[k] : events[k][j] # y
        BY <3>1 DEF T!Queued
      <3>3. \A j \in DOMAIN events'[k] : j \in DOMAIN events[k] \/ j = Len(events[k]) + 1
        BY <2>4
      <3>4. \A j, l \in DOMAIN events'[k] : events'[k][j] = events'[k][l] => j = l
        BY <2>4, <3>2, <3>3 DEF T!QueueInv
      <3> QED
        BY <2>4, <3>4 DEF T!QueueInv
    <2>7. \A x \in T!Peers, i \in Sessions : T!PlaceInv(x, i)'
      <3> TAKE x \in T!Peers, i \in Sessions
      <3>1. CASE x = y /\ i = k
        BY <2>1, <2>2, <2>3, <3>1 DEF T!PlaceInv
      <3>2. CASE ~(x = y /\ i = k)
        BY <2>1, <2>2, <2>3, <2>5, <3>2, PlaceKept
      <3> QED
        BY <3>1, <3>2
    <2> QED
      BY <2>6, <2>7
  <1>4. ASSUME NEW y \in T!Peers, NEW k \in Sessions, T!Refuse(y, k) PROVE Goal
    <2>1. sent' = sent \ {<<y, k>>} /\ UNCHANGED <<pc, events, meeting, relay>>
      BY <1>4 DEF T!Refuse, T!peerVars
    <2>2. \A x, j : /\ T!Queued(x, j)' <=> T!Queued(x, j)
                    /\ T!Waits(x, j)' <=> T!Waits(x, j)
                    /\ T!Relayed(x, j)' <=> T!Relayed(x, j)
      BY <2>1 DEF T!Queued, T!Waits, T!Relayed
    <2> QED
      BY <2>1, <2>2, PlaceKept DEF T!QueueInv
  <1>5. ASSUME NEW k \in Sessions, T!HandleSendEvent(k) PROVE Goal
    <2>1. PICK y \in T!Peers :
          /\ UNCHANGED <<pc, sent>>
          /\ events[k] # <<>> /\ y = Head(events[k]) /\ events' = [events EXCEPT ![k] = Tail(@)]
          /\ \/ UNCHANGED <<meeting, relay>>
             \/ \E d \in {"sender", "receiver"} :
                   meeting' = [meeting EXCEPT ![k] = [k |-> d, x |-> y]] /\ UNCHANGED relay
             \/ \E s \in Senders, r \in Receivers :
                   /\ T!Pair(s, r, k)
                   /\ \/ s = y /\ T!Waits(r, k)
                      \/ r = y /\ T!Waits(s, k)
      BY <1>5, HandleEffect DEF T!peerVars
    <2>2. /\ T!Queued(y, k) /\ ~T!Queued(y, k)'
          /\ \A x \in T!Peers, i \in Sessions : T!Queued(x, i)' => T!Queued(x, i)
          /\ \A i \in Sessions : T!QueueInv(i)'
      <3>1. events[k] \in Seq(T!Peers) /\ events'[k] = Tail(events[k])
        BY <2>1 DEF T!TypeOK
      <3>2. \A i \in Sessions \ {k} : events'[i] = events[i]
        BY <2>1 DEF T!TypeOK
      <3>3. \A j, l \in DOMAIN events[k] : events[k][j] = events[k][l] => j = l
        BY DEF T!QueueInv
      <3>4. /\ \A j, l \in DOMAIN events'[k] : events'[k][j] = events'[k][l] => j = l
            /\ \A j \in DOMAIN events'[k] :
                  events'[k][j] # y /\ \E l \in DOMAIN events[k] : events'[k][j] = events[k][l]
        <4>1. events[k] # <<>> /\ Head(events[k]) = y
          BY <2>1
        <4> DEFINE q == events[k]
        <4>2. /\ q \in Seq(T!Peers) /\ q # <<>>
              /\ \A j, l \in DOMAIN q : q[j] = q[l] => j = l
          BY <3>1, <3>3, <4>1
        <4> HIDE DEF q
        <4>3. /\ \A j, l \in DOMAIN Tail(q) : Tail(q)[j] = Tail(q)[l] => j = l
              /\ \A j \in DOMAIN Tail(q) :
                    Tail(q)[j] # Head(q) /\ \E l \in DOMAIN q : Tail(q)[j] = q[l]
          BY <4>2, QueueHead
        <4> USE DEF q
        <4> QED
          BY <3>1, <4>1, <4>3
      <3>5. 1 \in DOMAIN events[k] /\ events[k][1] = y
        BY <2>1, <3>1
      <3> QED
        BY <3>2, <3>4, <3>5 DEF T!Queued, T!QueueInv
    <2>3. ASSUME UNCHANGED <<meeting, relay>> PROVE Goal
      <3>1. \A x, j : T!Waits(x, j)' <=> T!Waits(x, j)
        BY <2>3 DEF T!Waits
      <3>2. \A x, j : T!Relayed(x, j)' <=> T!Relayed(x, j)
        BY <2>3 DEF T!Relayed
      <3> QED
        BY <2>1, <2>2, <3>1, <3>2, PlaceKept
    <2>4. ASSUME NEW d \in {"sender", "receiver"},
                 meeting' = [meeting EXCEPT ![k] = [k |-> d, x |-> y]], UNCHANGED relay
          PROVE  Goal
      <3>1. \A x, j : T!Relayed(x, j)' <=> T!Relayed(x, j)
        BY <2>4 DEF T!Relayed
      <3>2. \A x \in T!Peers, i \in Sessions : T!Waits(x, i)' => T!Waits(x, i) \/ (x = y /\ i = k)
        BY <2>4 DEF T!Waits, T!TypeOK
      <3>3. \A x \in T!Peers, i \in Sessions : T!PlaceInv(x, i)'
        <4> TAKE x \in T!Peers, i \in Sessions
        <4>1. CASE x = y /\ i = k
          BY <2>1, <2>2, <3>1, <4>1 DEF T!PlaceInv
        <4>2. CASE ~(x = y /\ i = k)
          BY <2>1, <2>2, <3>1, <3>2, <4>2, PlaceKept
        <4> QED
          BY <4>1, <4>2
      <3> QED
        BY <2>2, <3>3
    <2>5. ASSUME NEW s \in Senders, NEW r \in Receivers, T!Pair(s, r, k),
                 (s = y /\ T!Waits(r, k)) \/ (r = y /\ T!Waits(s, k))
          PROVE  Goal
      <3>1. \A x \in T!Peers, i \in Sessions : T!Waits(x, i)' => T!Waits(x, i) /\ i # k
        BY <2>5 DEF T!Waits, T!Pair, T!TypeOK
      <3>2. \A x \in T!Peers, i \in Sessions :
              T!Relayed(x, i)' => T!Relayed(x, i) \/ (x \in {s, r} /\ i = k)
        BY <2>5 DEF T!Relayed, T!Pair, T!TypeOK, T!Pairs
      <3>3. \A x \in T!Peers, i \in Sessions : T!PlaceInv(x, i)'
        <4> TAKE x \in T!Peers, i \in Sessions
        <4>1. CASE x \in {s, r} /\ i = k
          <5>1. T!Queued(x, i) \/ T!Waits(x, i)
            BY <2>2, <2>5, <4>1
          <5>2. ~T!Queued(x, i)'
            BY <2>2, <2>5, <4>1 DEF T!PlaceInv
          <5> QED
            BY <2>1, <3>1, <4>1, <5>1, <5>2 DEF T!PlaceInv
        <4>2. CASE ~(x \in {s, r} /\ i = k)
          BY <2>1, <2>2, <3>1, <3>2, <4>2, PlaceKept
        <4> QED
          BY <4>1, <4>2
      <3> QED
        BY <2>2, <3>3
    <2> QED
      BY <2>1, <2>3, <2>4, <2>5
  <1>6. ASSUME NEW k \in Sessions, T!Notification(k) PROVE Goal
    <2>1. /\ UNCHANGED <<pc, sent, events, relay>>
          /\ meeting' = meeting \/ meeting' = [meeting EXCEPT ![k] = T!Idle]
      BY <1>6 DEF T!Notification, T!peerVars
    <2>2. \A x \in T!Peers, i \in Sessions : T!Waits(x, i)' => T!Waits(x, i)
      <3>1. T!Idle.k = "idle"
        BY DEF T!Idle
      <3>2. \A i \in Sessions : meeting'[i] \in {meeting[i], T!Idle}
        BY <2>1 DEF T!TypeOK
      <3> QED
        BY <3>1, <3>2 DEF T!Waits
    <2>3. \A x, i : (T!Queued(x, i)' <=> T!Queued(x, i)) /\ (T!Relayed(x, i)' <=> T!Relayed(x, i))
      BY <2>1 DEF T!Queued, T!Relayed
    <2> QED
      BY <2>1, <2>2, <2>3, PlaceKept DEF T!QueueInv
  <1>7. ASSUME NEW s \in Senders, NEW r \in Receivers, NEW k \in Sessions, T!RelayStep(s, r, k)
        PROVE  Goal
    <2>1. /\ UNCHANGED <<pc, sent, events, meeting>> /\ relay[<<s, r, k>>] > 0
          /\ \E n : relay' = [relay EXCEPT ![<<s, r, k>>] = n]
      BY <1>7 DEF T!RelayStep, T!RelayEnds, T!RelayWrites, T!peerVars, T!End, T!PeersAssumption
    <2>2. \A x \in T!Peers, i \in Sessions : T!Relayed(x, i)' => T!Relayed(x, i)
      BY <2>1 DEF T!Relayed, T!TypeOK, T!Pairs
    <2>3. \A x, i : (T!Queued(x, i)' <=> T!Queued(x, i)) /\ (T!Waits(x, i)' <=> T!Waits(x, i))
      BY <2>1 DEF T!Queued, T!Waits
    <2> QED
      BY <2>1, <2>2, <2>3, PlaceKept DEF T!QueueInv
  <1>8. CASE UNCHANGED T!vars
    <2>1. \A x, j : /\ T!Queued(x, j)' <=> T!Queued(x, j)
                    /\ T!Waits(x, j)' <=> T!Waits(x, j)
                    /\ T!Relayed(x, j)' <=> T!Relayed(x, j)
      BY <1>8 DEF T!Queued, T!Waits, T!Relayed, T!vars, T!sessVars
    <2> QED
      BY <1>8, <2>1, PlaceKept DEF T!QueueInv, T!vars, T!peerVars, T!sessVars
  <1> QED
    BY <1>1, <1>2, <1>3, <1>4, <1>5, <1>6, <1>7, <1>8
    DEF T!Next, T!PeerStep, T!SessionStep, T!SendCommand, T!ReceiveCommand, T!Discovered

-----------------------------------------------------------------------------
(* One sender per receiver and session *)

\* No other relay, no message from nowhere, no race won without one.
LEMMA SenderKept ==
  ASSUME NEW r \in Receivers, NEW i \in Sessions, T!SenderInv(r, i),
         \A s \in Senders : relay'[<<s, r, i>>] > 0 <=> relay[<<s, r, i>>] > 0,
         T!Relayed(r, i) => T!Relayed(r, i)',
         inbox'[<<r, i>>] # <<>> => inbox[<<r, i>>] # <<>>,
         pc'[r] = "busy" /\ pick'[r] = i
            => inbox[<<r, i>>] # <<>> \/ (pc[r] = "busy" /\ pick[r] = i)
  PROVE  T!SenderInv(r, i)'
  BY DEF T!SenderInv

\* What a peer's step does to the streams and the states of the others: they
\* keep theirs; it reads from one of its own, if any, and wins where it read.
LEMMA PeerEffect ==
  ASSUME T!TypeOK, NEW x \in T!Peers, NEW i \in Sessions,
         T!ReadGo(x, i) \/ T!ReadCount(x, i) \/ T!Write(x) \/ T!Receive(x) \/ T!Quit(x)
  PROVE  \A y \in T!Peers, j \in Sessions :
            /\ inbox'[<<y, j>>] # <<>> => inbox[<<y, j>>] # <<>>
            /\ pc'[y] = "busy" /\ pick'[y] = j
                  => inbox[<<y, j>>] # <<>> \/ (pc[y] = "busy" /\ pick[y] = j)
            /\ y # x => /\ inbox'[<<y, j>>] = inbox[<<y, j>>]
                        /\ pc'[y] = pc[y] /\ pick'[y] = pick[y]
  <1>1. CASE T!ReadGo(x, i) \/ T!ReadCount(x, i)
    <2>1. \/ /\ inbox[<<x, i>>] # <<>>
             /\ \E in : T!Wins(x, i, in) /\ (in = <<>> \/ inbox[<<x, i>>] # <<>>)
          \/ T!Skips(x, i)
      BY <1>1 DEF T!ReadGo, T!ReadCount
    <2>2. ASSUME NEW in, T!Wins(x, i, in), inbox[<<x, i>>] # <<>>
          PROVE  \A y \in T!Peers, j \in Sessions :
                   /\ <<y, j>> # <<x, i>> => inbox'[<<y, j>>] = inbox[<<y, j>>]
                   /\ y # x => pc'[y] = pc[y] /\ pick'[y] = pick[y]
                   /\ pick'[x] = i
      BY <2>2 DEF T!Wins, T!Leaves, T!TypeOK, T!Streams
    <2>3. ASSUME T!Skips(x, i)
          PROVE  /\ UNCHANGED <<pick, inbox>>
                 /\ \A y \in T!Peers : IF y = x THEN pc'[y] # "busy" ELSE pc'[y] = pc[y]
      BY <2>3 DEF T!Skips, T!Leaves, T!TypeOK
    <2> QED
      BY <2>1, <2>2, <2>3
  <1>2. CASE T!Write(x)
    BY <1>2 DEF T!Write, T!Leaves, T!sessVars, T!TypeOK
  <1>3. CASE T!Receive(x)
    <2>1. /\ pc[x] = "busy" /\ UNCHANGED pick
          /\ pc' = pc \/ \E st : pc' = [pc EXCEPT ![x] = st]
          /\ \/ inbox' = inbox
             \/ /\ inbox[<<x, pick[x]>>] # <<>>
                /\ inbox' = [inbox EXCEPT ![<<x, pick[x]>>] = Tail(@)]
      BY <1>3 DEF T!Receive, T!Leaves
    <2> QED
      BY <2>1 DEF T!TypeOK, T!Streams
  <1>4. CASE T!Quit(x)
    BY <1>4 DEF T!Quit, T!Leaves, T!sessVars, T!TypeOK
  <1> QED
    BY <1>1, <1>2, <1>3, <1>4

\* Where a step of a relay leaves it, and all the others.
LEMMA RelayAt ==
  ASSUME T!TypeOK, NEW s \in Senders, NEW r \in Receivers, NEW i \in Sessions, NEW n \in 1..T!End,
         relay' = [relay EXCEPT ![<<s, r, i>>] = n]
  PROVE  \A t \in Senders, q \in Receivers, j \in Sessions :
            /\ relay'[<<t, q, j>>] = IF <<t, q, j>> = <<s, r, i>> THEN n ELSE relay[<<t, q, j>>]
            /\ relay[<<t, q, j>>] > 0 => relay'[<<t, q, j>>] > 0
  <1> SUFFICES ASSUME NEW t \in Senders, NEW q \in Receivers, NEW j \in Sessions
               PROVE  relay'[<<t, q, j>>] =
                        IF <<t, q, j>> = <<s, r, i>> THEN n ELSE relay[<<t, q, j>>]
    <2>1. n > 0
      OBVIOUS
    <2> QED
      BY <2>1
  <1> QED
    BY DEF T!TypeOK, T!Pairs

\* A relay that is running is not new; it says something to its two peers only.
LEMMA RelayEffect ==
  ASSUME T!PeersAssumption, T!TypeOK, NEW s \in Senders, NEW r \in Receivers, NEW i \in Sessions,
         T!RelayStep(s, r, i)
  PROVE  /\ UNCHANGED <<T!peerVars, sent, events, meeting>> /\ relay[<<s, r, i>>] > 0
         /\ \E n \in 1..T!End : relay' = [relay EXCEPT ![<<s, r, i>>] = n]
         /\ \A q \in Receivers, j \in Sessions :
               <<q, j>> # <<r, i>> => inbox'[<<q, j>>] = inbox[<<q, j>>]
  <1>1. UNCHANGED <<T!peerVars, sent, events, meeting>> /\ relay[<<s, r, i>>] \in 1..(T!End - 1)
    BY DEF T!RelayStep
  <1>2. \E n \in 1..T!End : relay' = [relay EXCEPT ![<<s, r, i>>] = n]
    <2>1. relay' = [relay EXCEPT ![<<s, r, i>>] = T!End]
          \/ relay' = [relay EXCEPT ![<<s, r, i>>] = relay[<<s, r, i>>] + 1]
      BY DEF T!RelayStep, T!RelayEnds, T!RelayWrites
    <2>2. T!End \in 1..T!End /\ relay[<<s, r, i>>] + 1 \in 1..T!End
      BY <1>1 DEF T!End, T!PeersAssumption
    <2> QED
      BY <2>1, <2>2
  <1>3. inbox' = inbox \/ \E y \in {s, r} : \E m : T!Say(y, i, m)
    BY DEF T!RelayStep, T!RelayWrites
  <1>4. \A q \in Receivers, j \in Sessions :
          <<q, j>> # <<r, i>> => inbox'[<<q, j>>] = inbox[<<q, j>>]
    <2>1. ASSUME NEW y \in {s, r}, NEW m, T!Say(y, i, m), NEW q \in Receivers, NEW j \in Sessions,
                 <<q, j>> # <<r, i>>
          PROVE  inbox'[<<q, j>>] = inbox[<<q, j>>]
      <3>1. <<q, j>> # <<y, i>>
        BY <2>1 DEF T!PeersAssumption
      <3>2. <<q, j>> \in T!Streams
        BY DEF T!Streams, T!Peers
      <3> QED
        BY <2>1, <3>1, <3>2 DEF T!Say, T!TypeOK
    <2> QED
      BY <1>3, <2>1
  <1> QED
    <2>1. relay[<<s, r, i>>] > 0
      BY <1>1 DEF T!End, T!PeersAssumption
    <2> QED
      BY <1>1, <1>2, <1>4, <2>1

LEMMA SenderStep ==
  ASSUME T!PeersAssumption, T!TypeOK, [T!Next]_(T!vars),
         \A x \in T!Peers, i \in Sessions : T!PlaceInv(x, i),
         \A r \in Receivers, i \in Sessions : T!SenderInv(r, i)
  PROVE  \A r \in Receivers, i \in Sessions : T!SenderInv(r, i)'
  <1> SUFFICES ASSUME NEW r \in Receivers, NEW i \in Sessions PROVE T!SenderInv(r, i)'
    OBVIOUS
  <1>r. r \in T!Peers
    BY DEF T!Peers
  <1>1. ASSUME NEW y \in T!Peers, NEW S \in T!Discovered, T!Offer(y, S) PROVE T!SenderInv(r, i)'
    <2>1. UNCHANGED <<pick, inbox, relay>> /\ (pc'[r] = "busy" => pc[r] = "busy")
      BY <1>1, <1>r DEF T!Offer, T!TypeOK
    <2> QED
      BY <2>1, SenderKept DEF T!Relayed
  <1>2. ASSUME NEW y \in T!Peers, NEW k \in Sessions,
               T!ReadGo(y, k) \/ T!ReadCount(y, k) \/ T!Write(y) \/ T!Receive(y) \/ T!Quit(y)
        PROVE  T!SenderInv(r, i)'
    <2>1. UNCHANGED relay
      BY <1>2, PeerFrame
    <2>2. /\ inbox'[<<r, i>>] # <<>> => inbox[<<r, i>>] # <<>>
          /\ pc'[r] = "busy" /\ pick'[r] = i
                => inbox[<<r, i>>] # <<>> \/ (pc[r] = "busy" /\ pick[r] = i)
      BY <1>2, <1>r, PeerEffect
    <2> QED
      BY <2>1, <2>2, SenderKept DEF T!Relayed
  <1>3. ASSUME UNCHANGED <<pc, pick, inbox, relay>> PROVE T!SenderInv(r, i)'
    BY <1>3, SenderKept DEF T!Relayed
  <1>4. ASSUME NEW k \in Sessions, T!HandleSendEvent(k) PROVE T!SenderInv(r, i)'
    <2>1. PICK y \in T!Peers :
          /\ UNCHANGED <<pc, pick>>
          /\ events[k] # <<>> /\ y = Head(events[k])
          /\ \/ UNCHANGED relay
             \/ \E s \in Senders, q \in Receivers :
                   /\ T!Pair(s, q, k)
                   /\ \/ s = y /\ T!Waits(q, k)
                      \/ q = y /\ T!Waits(s, k)
          /\ inbox'[<<r, i>>] = inbox[<<r, i>>]
      BY <1>4, HandleEffect DEF T!peerVars
    <2>2. CASE UNCHANGED relay
      BY <2>1, <2>2, SenderKept DEF T!Relayed
    <2>3. ASSUME NEW s \in Senders, NEW q \in Receivers, T!Pair(s, q, k),
                 (s = y /\ T!Waits(q, k)) \/ (q = y /\ T!Waits(s, k))
          PROVE  T!SenderInv(r, i)'
      <3>1. relay' = [relay EXCEPT ![<<s, q, k>>] = 1]
        BY <2>3 DEF T!Pair
      <3>2. CASE q = r /\ k = i
        <4>1. T!Queued(y, k)
          <5>1. events[k] \in Seq(T!Peers)
            BY DEF T!TypeOK
          <5> QED
            BY <2>1, <5>1 DEF T!Queued
        <4>2. ~T!Relayed(r, i)
          BY <1>r, <2>3, <3>2, <4>1 DEF T!PlaceInv
        <4>3. \A t \in Senders : relay'[<<t, r, i>>] > 0 => t = s
          BY <3>1, <3>2, <4>2 DEF T!Relayed, T!TypeOK, T!Pairs
        <4>4. inbox[<<r, i>>] = <<>> /\ ~(pc[r] = "busy" /\ pick[r] = i)
          BY <4>2 DEF T!SenderInv
        <4> QED
          BY <2>1, <4>3, <4>4 DEF T!SenderInv
      <3>3. CASE ~(q = r /\ k = i)
        <4>1. \A t \in Senders : relay'[<<t, r, i>>] = relay[<<t, r, i>>]
          BY <3>1, <3>3 DEF T!TypeOK, T!Pairs
        <4>2. T!Relayed(r, i) => T!Relayed(r, i)'
          <5>1. 1 \in 1..T!End
            BY DEF T!End, T!PeersAssumption
          <5> QED
            BY <3>1, <5>1, RelayAt DEF T!Relayed
        <4> QED
          BY <2>1, <4>1, <4>2, SenderKept
      <3> QED
        BY <3>2, <3>3
    <2> QED
      BY <2>1, <2>2, <2>3
  <1>5. ASSUME NEW s \in Senders, NEW q \in Receivers, NEW k \in Sessions, T!RelayStep(s, q, k)
        PROVE  T!SenderInv(r, i)'
    <2>1. /\ UNCHANGED <<pc, pick>> /\ relay[<<s, q, k>>] > 0
          /\ \E n \in 1..T!End : relay' = [relay EXCEPT ![<<s, q, k>>] = n]
          /\ <<r, i>> # <<q, k>> => inbox'[<<r, i>>] = inbox[<<r, i>>]
      BY <1>5, RelayEffect DEF T!peerVars
    <2>2. \A t \in Senders, p \in Receivers, j \in Sessions :
            relay'[<<t, p, j>>] > 0 <=> relay[<<t, p, j>>] > 0
      <3>1. PICK n \in 1..T!End : relay' = [relay EXCEPT ![<<s, q, k>>] = n]
        BY <2>1
      <3>2. n > 0
        OBVIOUS
      <3> SUFFICES ASSUME NEW t \in Senders, NEW p \in Receivers, NEW j \in Sessions
                   PROVE  relay'[<<t, p, j>>] > 0 <=> relay[<<t, p, j>>] > 0
        OBVIOUS
      <3>3. relay'[<<t, p, j>>] = IF <<t, p, j>> = <<s, q, k>> THEN n ELSE relay[<<t, p, j>>]
        BY <3>1 DEF T!TypeOK, T!Pairs
      <3> QED
        BY <2>1, <3>2, <3>3
    <2>3. T!Relayed(r, i) <=> T!Relayed(r, i)'
      BY <2>2 DEF T!Relayed
    <2>4. <<r, i>> = <<q, k>> => T!Relayed(r, i)
      BY <2>1 DEF T!Relayed
    <2> QED
      BY <2>1, <2>2, <2>3, <2>4 DEF T!SenderInv
  <1> QED
    BY <1>1, <1>2, <1>3, <1>4, <1>5
    DEF T!Next, T!PeerStep, T!SessionStep, T!SendCommand, T!ReceiveCommand, T!Arrive,
         T!Refuse, T!Notification,
        T!vars, T!peerVars, T!sessVars, T!Discovered

-----------------------------------------------------------------------------
(* What a receiver reads *)

\* The file, chunk by chunk.
LEMMA FileGrows ==
  ASSUME T!PeersAssumption, NEW s \in Senders, NEW a \in 0..(Size + 3)
  PROVE  /\ T!FileOf(s, a) \in Seq(Senders)
         /\ a < 3 => T!FileOf(s, a) = <<>>
         /\ a >= 2 => Len(T!FileOf(s, a)) = a - 2 /\ Append(T!FileOf(s, a), s) = T!FileOf(s, a + 1)
  <1>1. Size \in Nat
    BY DEF T!PeersAssumption
  <1> DEFINE n == IF a < 2 THEN 0 ELSE a - 2  f == T!FileOf(s, a)
  <1>2. n \in Nat /\ (a < 3 => n = 0) /\ (a >= 2 => n = a - 2)
    BY <1>1
  <1> HIDE DEF n
  <1>3. f = [j \in 1..n |-> s]
    BY DEF T!FileOf, n
  <1>4. f \in Seq(Senders) /\ Len(f) = n
    BY <1>2, <1>3
  <1>5. n = 0 => f = <<>>
    BY <1>4
  <1>6. ASSUME a >= 2 PROVE Append(f, s) = T!FileOf(s, a + 1)
    <2>1. T!FileOf(s, a + 1) = [j \in 1..(n + 1) |-> s]
      BY <1>1, <1>2, <1>6 DEF T!FileOf
    <2>2. T!FileOf(s, a + 1) \in Seq(Senders) /\ Len(T!FileOf(s, a + 1)) = n + 1
      BY <1>2, <2>1
    <2>3. Append(f, s) \in Seq(Senders) /\ Len(Append(f, s)) = n + 1
      BY <1>4
    <2>4. \A j \in 1..(n + 1) : Append(f, s)[j] = T!FileOf(s, a + 1)[j]
      BY <1>2, <1>3, <1>4, <2>1
    <2> QED
      BY <2>2, <2>3, <2>4, SeqEqual
  <1> QED
    BY <1>2, <1>4, <1>5, <1>6

\* The messages to a receiver are told apart by what they are.
LEMMA Distinct ==
  ASSUME T!PeersAssumption, NEW s \in Senders, NEW j \in 1..(Size + 3)
  PROVE  /\ T!ToReceiver(s, j) = "header" => j = 2
         /\ T!ToReceiver(s, j) = "end" => j = Size + 3
         /\ T!ToReceiver(s, j) \in Senders => j \in 3..(Size + 2) /\ T!ToReceiver(s, j) = s
  BY DEF T!PeersAssumption, T!ToReceiver, T!Peers

\* Reading a message leaves the receiver at the next one.
LEMMA Consume ==
  ASSUME NEW s, NEW a \in Nat, NEW in \in Seq(T!Messages), in # <<>>,
         \A j \in DOMAIN in : in[j] = T!ToReceiver(s, a + j)
  PROVE  /\ Tail(in) \in Seq(T!Messages) /\ Len(Tail(in)) = Len(in) - 1 /\ Len(in) >= 1
         /\ Head(in) = T!ToReceiver(s, a + 1)
         /\ \A j \in DOMAIN Tail(in) : Tail(in)[j] = T!ToReceiver(s, (a + 1) + j)
  <1>1. /\ Len(Tail(in)) = Len(in) - 1 /\ Len(in) \in Nat /\ Len(in) >= 1
        /\ Tail(in) \in Seq(T!Messages)
        /\ DOMAIN in = 1..Len(in) /\ DOMAIN Tail(in) = 1..Len(Tail(in))
        /\ \A j \in 1..Len(Tail(in)) : Tail(in)[j] = in[j + 1]
        /\ Head(in) = in[1]
    OBVIOUS
  <1>2. \A j \in Nat : a + (j + 1) = (a + 1) + j
    OBVIOUS
  <1> QED
    BY <1>1, <1>2

\* A receiver that did not read and a relay that did not write.
LEMMA StreamKept ==
  ASSUME NEW s \in Senders, NEW r \in Receivers, NEW i \in Sessions, T!StreamInv(s, r, i),
         relay'[<<s, r, i>>] = relay[<<s, r, i>>], inbox'[<<r, i>>] = inbox[<<r, i>>],
         \/ pc'[r] = pc[r] /\ pick'[r] = pick[r] /\ partial'[r] = partial[r]
         \/ pc'[r] \notin {"racing", "busy"}
         \/ pc'[r] = "busy" /\ pick'[r] # i
  PROVE  T!StreamInv(s, r, i)'
  <1> SUFFICES ASSUME relay[<<s, r, i>>] > 0, NEW a \in 0..(Size + 3), T!Position(s, r, i, a)
               PROVE  T!Position(s, r, i, a)'
    BY DEF T!StreamInv
  <1> QED
    BY DEF T!Position

\* The receiver reads from the stream of this relay.
LEMMA ReadStep ==
  ASSUME T!PeersAssumption, T!TypeOK, NEW s \in Senders, NEW r \in Receivers,
         T!Receive(r), pick[r] \in Sessions, T!StreamInv(s, r, pick[r])
  PROVE  T!StreamInv(s, r, pick[r])'
  <1> DEFINE i == pick[r]  in == inbox[<<r, i>>]
  <1>1. /\ pc[r] = "busy" /\ UNCHANGED <<pick, relay>>
        /\ in \in Seq(T!Messages) /\ r \in T!Peers /\ Size \in Nat /\ <<r, i>> \in T!Streams
    BY DEF T!Receive, T!TypeOK, T!Streams, T!Peers, T!PeersAssumption
  <1> SUFFICES ASSUME relay[<<s, r, i>>] > 0, NEW a \in 0..(Size + 3), T!Position(s, r, i, a)
               PROVE  \E b \in 0..(Size + 3) : T!Position(s, r, i, b)'
    BY <1>1 DEF T!StreamInv
  <1>2. /\ a + Len(in) <= Size + 3 /\ a \in 1..(Size + 2) /\ partial[r] = T!FileOf(s, a)
        /\ \A j \in DOMAIN in : in[j] = T!ToReceiver(s, a + j)
        /\ relay[<<s, r, i>>] = 1 => a + Len(in) = 0
        /\ relay[<<s, r, i>>] \in 2..(T!End - 1) => a + Len(in) = relay[<<s, r, i>>] - 2
        /\ a \in Nat /\ Len(in) \in Nat
    BY <1>1 DEF T!Position
  <1>c. in # <<>> => /\ Len(Tail(in)) = Len(in) - 1 /\ Len(in) >= 1
                     /\ Head(in) = T!ToReceiver(s, a + 1)
                     /\ \A j \in DOMAIN Tail(in) : Tail(in)[j] = T!ToReceiver(s, (a + 1) + j)
    <2>1. a \in Nat /\ in \in Seq(T!Messages) /\ \A j \in DOMAIN in : in[j] = T!ToReceiver(s, a + j)
      BY <1>1, <1>2
    <2> HIDE DEF in
    <2> QED
      BY <2>1, Consume
  <1>3. ASSUME in # <<>>, inbox' = [inbox EXCEPT ![<<r, i>>] = Tail(in)], UNCHANGED pc,
               partial'[r] = T!FileOf(s, a + 1), a <= Size + 1
        PROVE  T!Position(s, r, i, a + 1)'
    <2>1. /\ inbox'[<<r, i>>] = Tail(in) /\ Len(Tail(in)) = Len(in) - 1 /\ Len(in) >= 1
          /\ \A j \in DOMAIN Tail(in) : Tail(in)[j] = T!ToReceiver(s, (a + 1) + j)
      <3>1. inbox'[<<r, i>>] = Tail(in)
        BY <1>1, <1>3 DEF T!TypeOK
      <3> HIDE DEF in
      <3> QED
        BY <1>3, <1>c, <3>1
    <2> HIDE DEF in
    <2>2. a + 1 \in 1..(Size + 2)
      BY <1>1, <1>2, <1>3
    <2>3. (a + 1) + Len(Tail(in)) = a + Len(in)
      <3>1. a \in Nat /\ Len(in) \in Nat /\ Len(Tail(in)) = Len(in) - 1
        BY <1>2, <2>1
      <3>2. \A m, l \in Nat : (m + 1) + (l - 1) = m + l
        OBVIOUS
      <3> QED
        BY <3>1, <3>2
    <2> USE DEF in
    <2> QED
      BY <1>1, <1>2, <1>3, <2>1, <2>2, <2>3 DEF T!Position
  <1>4. ASSUME in # <<>>
        PROVE  /\ Head(in) = T!ToReceiver(s, a + 1) /\ a + 1 \in 1..(Size + 3)
               /\ Head(in) = "header" => a = 1 /\ a <= Size + 1
               /\ Head(in) \in Senders => a >= 2 /\ Head(in) = s /\ a <= Size + 1
    <2>1. Head(in) = T!ToReceiver(s, a + 1) /\ a + 1 \in 1..(Size + 3)
      BY <1>1, <1>2, <1>4, <1>c
    <2> QED
      BY <1>1, <1>2, <2>1, Distinct DEF T!PeersAssumption
  <1>5. CASE in # <<>> /\ Head(in) = "header" /\ partial' = [partial EXCEPT ![r] = <<>>]
             /\ inbox' = [inbox EXCEPT ![<<r, i>>] = Tail(in)] /\ UNCHANGED pc
    <2>1. T!FileOf(s, a + 1) = <<>>
      BY <1>1, <1>2, <1>4, <1>5, FileGrows
    <2>2. partial'[r] = T!FileOf(s, a + 1)
      BY <1>5, <2>1 DEF T!TypeOK
    <2> QED
      BY <1>1, <1>2, <1>3, <1>4, <1>5, <2>2
  <1>6. CASE in # <<>> /\ Head(in) \in Senders
             /\ partial' = [partial EXCEPT ![r] = Append(partial[r], Head(in))]
             /\ inbox' = [inbox EXCEPT ![<<r, i>>] = Tail(in)] /\ UNCHANGED pc
    <2>1. partial'[r] = Append(T!FileOf(s, a), s)
      BY <1>2, <1>4, <1>6 DEF T!TypeOK
    <2>2. partial'[r] = T!FileOf(s, a + 1)
      BY <1>4, <1>6, <2>1, FileGrows
    <2> QED
      BY <1>1, <1>2, <1>3, <1>4, <1>6, <2>2
  <1>7. ASSUME pc'[r] \in {"done", "failed"}, UNCHANGED inbox PROVE T!Position(s, r, i, a)'
    BY <1>1, <1>2, <1>7 DEF T!Position
  <1>8. \/ in # <<>> /\ Head(in) = "header" /\ partial' = [partial EXCEPT ![r] = <<>>]
           /\ inbox' = [inbox EXCEPT ![<<r, i>>] = Tail(in)] /\ UNCHANGED pc
        \/ in # <<>> /\ Head(in) \in Senders
           /\ partial' = [partial EXCEPT ![r] = Append(partial[r], Head(in))]
           /\ inbox' = [inbox EXCEPT ![<<r, i>>] = Tail(in)] /\ UNCHANGED pc
        \/ pc'[r] \in {"done", "failed"} /\ UNCHANGED inbox
    BY <1>1 DEF T!Receive, T!Leaves, T!TypeOK
  <1> QED
    BY <1>5, <1>6, <1>7, <1>8

\* The receiver reads the count, which comes first.
LEMMA CountStep ==
  ASSUME T!PeersAssumption, T!TypeOK, NEW s \in Senders, NEW r \in Receivers, NEW i \in Sessions,
         pc[r] = "racing", partial[r] = <<>>, inbox[<<r, i>>] # <<>>,
         T!Wins(r, i, Tail(inbox[<<r, i>>])), UNCHANGED <<partial, relay>>, T!StreamInv(s, r, i)
  PROVE  T!StreamInv(s, r, i)'
  <1> DEFINE in == inbox[<<r, i>>]
  <1>1. in \in Seq(T!Messages) /\ r \in T!Peers /\ Size \in Nat
    BY DEF T!TypeOK, T!Streams, T!Peers, T!PeersAssumption
  <1>2. inbox'[<<r, i>>] = Tail(in) /\ pc'[r] = "busy" /\ pick'[r] = i
    BY <1>1 DEF T!Wins, T!Leaves, T!TypeOK, T!Streams
  <1> SUFFICES ASSUME relay[<<s, r, i>>] > 0, NEW a \in 0..(Size + 3), T!Position(s, r, i, a)
               PROVE  T!Position(s, r, i, 1)'
    BY <1>1 DEF T!StreamInv
  <1>3. /\ a = 0 /\ Len(in) <= Size + 3
        /\ \A j \in DOMAIN in : in[j] = T!ToReceiver(s, 0 + j)
        /\ relay[<<s, r, i>>] = 1 => Len(in) = 0
        /\ relay[<<s, r, i>>] \in 2..(T!End - 1) => Len(in) = relay[<<s, r, i>>] - 2
        /\ Len(in) \in Nat
    BY <1>1 DEF T!Position
  <1>4. /\ Len(Tail(in)) = Len(in) - 1 /\ Len(in) >= 1
        /\ \A j \in DOMAIN Tail(in) : Tail(in)[j] = T!ToReceiver(s, (0 + 1) + j)
    <2>1. /\ 0 \in Nat /\ in \in Seq(T!Messages) /\ in # <<>>
          /\ \A j \in DOMAIN in : in[j] = T!ToReceiver(s, 0 + j)
      BY <1>1, <1>3
    <2> HIDE DEF in
    <2> QED
      BY <2>1, Consume
  <1>5. T!FileOf(s, 1) = <<>>
    BY <1>1, FileGrows
  <1>6. 1 + Len(Tail(in)) = Len(in) /\ 1 \in 1..(Size + 2) /\ 0 + 1 = 1
    BY <1>1, <1>3, <1>4
  <1>7. relay'[<<s, r, i>>] = relay[<<s, r, i>>] /\ partial'[r] = <<>>
    OBVIOUS
  <1>8. pc'[r] # "racing"
    BY <1>2
  <1> HIDE DEF in
  <1> QED
    BY <1>2, <1>3, <1>4, <1>5, <1>6, <1>7, <1>8 DEF T!Position

\* The relay writes what comes next, or ends.
LEMMA WriteStep ==
  ASSUME T!PeersAssumption, T!TypeOK, NEW s \in Senders, NEW r \in Receivers, NEW i \in Sessions,
         T!RelayStep(s, r, i), T!StreamInv(s, r, i)
  PROVE  T!StreamInv(s, r, i)'
  <1> DEFINE n == relay[<<s, r, i>>]  in == inbox[<<r, i>>]
  <1>1. /\ n \in 1..(T!End - 1) /\ n > 0 /\ UNCHANGED <<pc, pick, partial>> /\ r # s
        /\ in \in Seq(T!Messages) /\ Size \in Nat /\ T!End = Size + 5 /\ <<s, r, i>> \in T!Pairs
        /\ <<r, i>> \in T!Streams /\ <<s, i>> \in T!Streams
    BY DEF T!RelayStep, T!TypeOK, T!peerVars, T!PeersAssumption, T!End, T!Pairs, T!Streams,
         T!Peers
  <1> SUFFICES ASSUME NEW a \in 0..(Size + 3), T!Position(s, r, i, a) PROVE T!Position(s, r, i, a)'
    BY <1>1 DEF T!StreamInv
  <1>2. /\ a + Len(in) <= Size + 3 /\ Len(in) \in Nat /\ a \in Nat
        /\ \A j \in DOMAIN in : in[j] = T!ToReceiver(s, a + j)
        /\ n = 1 => a + Len(in) = 0
        /\ n # 1 => a + Len(in) = n - 2
        /\ pc'[r] = "racing" => a = 0
        /\ pc'[r] = "busy" /\ pick'[r] = i => a \in 1..(Size + 2) /\ partial'[r] = T!FileOf(s, a)
    <2>1. n # 1 => n \in 2..(T!End - 1)
      BY <1>1
    <2>2. a \in Nat /\ Len(in) \in Nat
      BY <1>1
    <2>3. pc'[r] = pc[r] /\ pick'[r] = pick[r] /\ partial'[r] = partial[r]
      BY <1>1
    <2> QED
      BY <2>1, <2>2, <2>3 DEF T!Position
  <1>3. ASSUME NEW m, inbox' = [inbox EXCEPT ![<<r, i>>] = Append(@, m)], n # 1,
               m = T!ToReceiver(s, n - 1)
        PROVE  /\ Len(inbox'[<<r, i>>]) = Len(in) + 1
               /\ \A j \in DOMAIN inbox'[<<r, i>>] : inbox'[<<r, i>>][j] = T!ToReceiver(s, a + j)
               /\ n <= Size + 4 /\ a + (Len(in) + 1) <= Size + 3 /\ a + (Len(in) + 1) = n - 1
    <2>1. /\ inbox'[<<r, i>>] = Append(in, m)
          /\ Len(Append(in, m)) = Len(in) + 1 /\ DOMAIN Append(in, m) = 1..(Len(in) + 1)
          /\ \A j \in 1..Len(in) : Append(in, m)[j] = in[j] /\ j \in DOMAIN in
          /\ Append(in, m)[Len(in) + 1] = m
      <3>1. inbox'[<<r, i>>] = Append(in, m)
        BY <1>1, <1>3 DEF T!TypeOK
      <3>2. in \in Seq(T!Messages)
        BY <1>1
      <3> HIDE DEF in
      <3> QED
        BY <3>1, <3>2
    <2> HIDE DEF n, in
    <2>2. a + (Len(in) + 1) = n - 1 /\ n <= Size + 4 /\ n \in Int /\ a + (Len(in) + 1) <= Size + 3
      <3>1. a \in Nat /\ Len(in) \in Nat /\ a + Len(in) = n - 2
        BY <1>2, <1>3
      <3>2. n \in Int /\ n <= Size + 4 /\ Size \in Nat
        BY <1>1
      <3> QED
        BY <3>1, <3>2
    <2>3. ASSUME NEW j \in 1..(Len(in) + 1) PROVE Append(in, m)[j] = T!ToReceiver(s, a + j)
      <3>1. CASE j \in 1..Len(in)
        BY <1>2, <2>1, <3>1
      <3>2. CASE j = Len(in) + 1
        BY <1>3, <2>1, <2>2, <3>2
      <3> QED
        BY <1>2, <3>1, <3>2
    <2> QED
      BY <1>2, <2>1, <2>2, <2>3
  <1>4. ASSUME relay' = [relay EXCEPT ![<<s, r, i>>] = T!End], UNCHANGED inbox
        PROVE  T!Position(s, r, i, a)'
    <2>1. relay'[<<s, r, i>>] = T!End
      BY <1>1, <1>4 DEF T!TypeOK
    <2>2. T!End # 1 /\ T!End \notin 2..(T!End - 1)
      BY <1>1
    <2>3. pc'[r] = pc[r] /\ pick'[r] = pick[r] /\ partial'[r] = partial[r]
      BY <1>1
    <2> QED
      BY <1>2, <1>4, <2>1, <2>2, <2>3 DEF T!Position
  <1>5. CASE n = 1
    <2>1. CASE <<s, i>> \in cli
      <3>1. relay'[<<s, r, i>>] = 2 /\ inbox'[<<r, i>>] = in
        BY <1>1, <1>5, <2>1 DEF T!RelayStep, T!RelayWrites, T!Say, T!TypeOK
      <3>2. 0 = 2 - 2 /\ pc'[r] = pc[r] /\ pick'[r] = pick[r] /\ partial'[r] = partial[r]
        BY <1>1
      <3> QED
        BY <1>2, <1>5, <3>1, <3>2 DEF T!Position
    <2>2. CASE <<s, i>> \notin cli
      BY <1>1, <1>4, <1>5, <2>2 DEF T!RelayStep, T!RelayEnds
    <2> QED
      BY <2>1, <2>2
  <1>6. CASE n # 1
    <2>1. CASE UNCHANGED inbox
      <3>1. relay' = [relay EXCEPT ![<<s, r, i>>] = T!End]
        <4>1. ~\E m : T!Say(r, i, m)
          <5> SUFFICES ASSUME NEW m, T!Say(r, i, m) PROVE FALSE
            OBVIOUS
          <5>1. in = Append(in, m) /\ Len(Append(in, m)) = Len(in) + 1
            BY <1>1, <2>1 DEF T!Say, T!TypeOK
          <5> QED
            BY <1>2, <5>1
        <4> QED
          BY <1>1, <1>6, <4>1 DEF T!RelayStep, T!RelayWrites, T!RelayEnds
      <3> QED
        BY <1>4, <2>1, <3>1
    <2>2. ASSUME NEW m, T!Say(r, i, m), relay' = [relay EXCEPT ![<<s, r, i>>] = n + 1],
                 m = T!ToReceiver(s, n - 1)
          PROVE  T!Position(s, r, i, a)'
      <3>1. relay'[<<s, r, i>>] = n + 1
        BY <1>1, <2>2 DEF T!TypeOK
      <3>2. /\ Len(inbox'[<<r, i>>]) = Len(in) + 1
            /\ \A j \in DOMAIN inbox'[<<r, i>>] : inbox'[<<r, i>>][j] = T!ToReceiver(s, a + j)
            /\ n <= Size + 4 /\ a + (Len(in) + 1) <= Size + 3 /\ a + (Len(in) + 1) = n - 1
        BY <1>3, <1>6, <2>2 DEF T!Say
      <3>3. n + 1 # 1 /\ (n + 1) - 2 = n - 1
        BY <1>1
      <3>4. pc'[r] = pc[r] /\ pick'[r] = pick[r] /\ partial'[r] = partial[r]
        BY <1>1
      <3> HIDE DEF n, in
      <3> QED
        BY <1>2, <3>1, <3>2, <3>3, <3>4 DEF T!Position
    <2>3. CASE UNCHANGED inbox \/ \E m : /\ T!Say(r, i, m) /\ m = T!ToReceiver(s, n - 1)
                                         /\ relay' = [relay EXCEPT ![<<s, r, i>>] = n + 1]
      BY <2>1, <2>2, <2>3
    <2>4. \/ UNCHANGED inbox
          \/ \E m : /\ T!Say(r, i, m) /\ m = T!ToReceiver(s, n - 1)
                    /\ relay' = [relay EXCEPT ![<<s, r, i>>] = n + 1]
      <3>1. CASE n \in {2, 3, T!End - 1}
        <4>1. /\ T!ToReceiver(s, 1) = "count" /\ T!ToReceiver(s, 2) = "header"
              /\ T!ToReceiver(s, Size + 3) = "end"
              /\ (T!End - 1) - 1 = Size + 3 /\ (T!End - 1) + 1 = T!End
          BY <1>1 DEF T!ToReceiver
        <4> QED
          BY <1>1, <1>6, <3>1, <4>1 DEF T!RelayStep, T!RelayWrites, T!RelayEnds
      <3>2. CASE n \in 4..(T!End - 2)
        <4>1. T!ToReceiver(s, n - 1) = s
          BY <1>1, <3>2 DEF T!ToReceiver
        <4> QED
          BY <1>1, <1>6, <3>2, <4>1 DEF T!RelayStep, T!RelayWrites, T!RelayEnds
      <3> QED
        BY <1>1, <1>6, <3>1, <3>2 DEF T!RelayStep
    <2> QED
      BY <2>3, <2>4
  <1> QED
    BY <1>5, <1>6

LEMMA StreamStep ==
  ASSUME T!PeersAssumption, T!TypeOK, [T!Next]_(T!vars),
         \A x \in T!Peers, i \in Sessions : T!PlaceInv(x, i),
         \A r \in Receivers, i \in Sessions : T!SenderInv(r, i),
         \A s \in Senders, r \in Receivers, i \in Sessions : T!StreamInv(s, r, i),
         \A r \in Receivers : T!ReceiverInv(r)
  PROVE  \A s \in Senders, r \in Receivers, i \in Sessions : T!StreamInv(s, r, i)'
  <1> SUFFICES ASSUME NEW s \in Senders, NEW r \in Receivers, NEW i \in Sessions
               PROVE  T!StreamInv(s, r, i)'
    OBVIOUS
  <1>0. r \in T!Peers /\ s \in T!Peers /\ r \notin Senders
    BY DEF T!Peers, T!PeersAssumption
  <1>1. ASSUME NEW y \in T!Peers, NEW S \in T!Discovered, T!Offer(y, S) PROVE T!StreamInv(s, r, i)'
    <2>1. UNCHANGED <<pick, partial, inbox, relay>> /\ pc[y] = "out"
          /\ pc' = [pc EXCEPT ![y] = "racing"]
      BY <1>1 DEF T!Offer
    <2>2. CASE relay[<<s, r, i>>] > 0
      <3>1. pc[r] # "out"
        BY <1>0, <2>2 DEF T!PlaceInv, T!Relayed
      <3>2. pc'[r] = pc[r]
        BY <2>1, <3>1 DEF T!TypeOK
      <3> QED
        BY <2>1, <3>2, StreamKept
    <2>3. CASE ~(relay[<<s, r, i>>] > 0)
      BY <2>1, <2>3 DEF T!StreamInv
    <2> QED
      BY <2>2, <2>3
  <1>2. ASSUME NEW y \in T!Peers, NEW k \in Sessions,
               T!ReadGo(y, k) \/ T!ReadCount(y, k) \/ T!Write(y) \/ T!Receive(y) \/ T!Quit(y), y # r
        PROVE  T!StreamInv(s, r, i)'
    <2>1. UNCHANGED relay
      BY <1>2, PeerFrame
    <2>2. pc'[r] = pc[r] /\ pick'[r] = pick[r] /\ inbox'[<<r, i>>] = inbox[<<r, i>>]
      BY <1>0, <1>2, PeerEffect
    <2>3. partial'[r] = partial[r]
      BY <1>2 DEF T!ReadGo, T!ReadCount, T!Write, T!Receive, T!Quit, T!TypeOK
    <2> QED
      BY <2>1, <2>2, <2>3, StreamKept
  <1>3. ASSUME NEW k \in Sessions, T!ReadCount(r, k) PROVE T!StreamInv(s, r, i)'
    <2>1. pc[r] = "racing" /\ UNCHANGED <<partial, relay>> /\ partial[r] = <<>>
      BY <1>3 DEF T!ReadCount, T!ReceiverInv
    <2>2. CASE inbox[<<r, k>>] # <<>> /\ T!Wins(r, k, Tail(inbox[<<r, k>>]))
      <3>1. CASE k = i
        BY <2>1, <2>2, <3>1, CountStep
      <3>2. CASE k # i
        <4>1. inbox'[<<r, i>>] = inbox[<<r, i>>] /\ pc'[r] = "busy" /\ pick'[r] # i
          BY <1>0, <2>2, <3>2 DEF T!Wins, T!Leaves, T!TypeOK, T!Streams
        <4> QED
          BY <2>1, <4>1, StreamKept
      <3> QED
        BY <3>1, <3>2
    <2>3. CASE T!Skips(r, k)
      <3>1. UNCHANGED <<pick, inbox>> /\ pc'[r] \in {"failed", "racing"}
        BY <1>0, <2>3 DEF T!Skips, T!Leaves, T!TypeOK
      <3> QED
        BY <2>1, <3>1, StreamKept
    <2> QED
      BY <1>3, <2>2, <2>3 DEF T!ReadCount
  <1>4. ASSUME T!Receive(r) PROVE T!StreamInv(s, r, i)'
    <2>1. pc[r] = "busy" /\ UNCHANGED <<pick, relay>> /\ pick[r] \in Sessions
      BY <1>4 DEF T!Receive, T!ReceiverInv
    <2>2. CASE pick[r] = i
      BY <1>4, <2>1, <2>2, ReadStep
    <2>3. CASE pick[r] # i
      <3>1. inbox'[<<r, i>>] = inbox[<<r, i>>]
        BY <1>0, <1>4, <2>3 DEF T!Receive, T!TypeOK, T!Streams
      <3>2. pc'[r] \in {"busy", "done", "failed"}
        BY <1>0, <1>4, <2>1 DEF T!Receive, T!Leaves, T!TypeOK
      <3> QED
        BY <2>1, <2>3, <3>1, <3>2, StreamKept
    <2> QED
      BY <2>2, <2>3
  <1>5. ASSUME T!Quit(r) PROVE T!StreamInv(s, r, i)'
    <2>1. UNCHANGED <<relay, inbox>> /\ pc'[r] = "failed"
      BY <1>0, <1>5 DEF T!Quit, T!Leaves, T!TypeOK, T!sessVars
    <2> QED
      BY <2>1, StreamKept
  <1>6. ASSUME UNCHANGED <<pc, pick, partial, inbox, relay>> PROVE T!StreamInv(s, r, i)'
    BY <1>6, StreamKept
  <1>7. ASSUME NEW k \in Sessions, T!HandleSendEvent(k) PROVE T!StreamInv(s, r, i)'
    <2>1. PICK y \in T!Peers :
          /\ UNCHANGED <<pc, pick, partial>>
          /\ events[k] # <<>> /\ y = Head(events[k])
          /\ \/ UNCHANGED relay
             \/ \E t \in Senders, q \in Receivers :
                   /\ T!Pair(t, q, k)
                   /\ \/ t = y /\ T!Waits(q, k)
                      \/ q = y /\ T!Waits(t, k)
          /\ inbox'[<<r, i>>] = inbox[<<r, i>>]
      BY <1>7, HandleEffect DEF T!peerVars
    <2>2. CASE relay'[<<s, r, i>>] = relay[<<s, r, i>>]
      BY <2>1, <2>2, StreamKept
    <2>3. CASE relay'[<<s, r, i>>] # relay[<<s, r, i>>]
      <3>1. relay'[<<s, r, i>>] = 1 /\ (s = y \/ r = y \/ T!Waits(s, i) \/ T!Waits(r, i)) /\ k = i
            /\ ((s = y /\ T!Waits(r, i)) \/ (r = y /\ T!Waits(s, i)))
        BY <2>1, <2>3 DEF T!Pair, T!TypeOK, T!Pairs
      <3>2. T!Queued(y, i)
        <4>1. events[k] \in Seq(T!Peers)
          BY DEF T!TypeOK
        <4> QED
          BY <2>1, <3>1, <4>1 DEF T!Queued
      <3>3. ~T!Relayed(r, i)
        BY <1>0, <3>1, <3>2 DEF T!PlaceInv
      <3>4. inbox[<<r, i>>] = <<>> /\ ~(pc[r] = "busy" /\ pick[r] = i)
        BY <3>3 DEF T!SenderInv
      <3>5. T!Position(s, r, i, 0)'
        <4>1. 0 + Len(inbox'[<<r, i>>]) = 0 /\ DOMAIN inbox'[<<r, i>>] = {} /\ 0 <= Size + 3
          BY <2>1, <3>4 DEF T!PeersAssumption
        <4> QED
          BY <2>1, <3>1, <3>4, <4>1 DEF T!Position
      <3> QED
        BY <3>5 DEF T!StreamInv, T!PeersAssumption
    <2> QED
      BY <2>2, <2>3
  <1>8. ASSUME NEW t \in Senders, NEW q \in Receivers, NEW k \in Sessions, T!RelayStep(t, q, k)
        PROVE  T!StreamInv(s, r, i)'
    <2>1. /\ UNCHANGED <<pc, pick, partial>> /\ relay[<<t, q, k>>] > 0
          /\ \E n \in 1..T!End : relay' = [relay EXCEPT ![<<t, q, k>>] = n]
          /\ <<r, i>> # <<q, k>> => inbox'[<<r, i>>] = inbox[<<r, i>>]
      BY <1>8, RelayEffect DEF T!peerVars
    <2>2. <<t, q, k>> # <<s, r, i>> => relay'[<<s, r, i>>] = relay[<<s, r, i>>]
      BY <2>1 DEF T!TypeOK, T!Pairs
    <2>3. CASE t = s /\ q = r /\ k = i
      BY <1>8, <2>3, WriteStep
    <2>4. CASE ~(q = r /\ k = i)
      BY <2>1, <2>2, <2>4, StreamKept
    <2>5. CASE t # s /\ q = r /\ k = i
      <3>1. ~(relay[<<s, r, i>>] > 0)
        BY <2>1, <2>5 DEF T!SenderInv
      <3> QED
        BY <2>2, <2>5, <3>1 DEF T!StreamInv
    <2> QED
      BY <2>3, <2>4, <2>5
  <1>9. ~T!Write(r)
    BY <1>0 DEF T!Write
  <1> QED
    BY <1>0, <1>1, <1>2, <1>3, <1>4, <1>5, <1>6, <1>7, <1>8, <1>9
    DEF T!Next, T!PeerStep, T!SessionStep, T!SendCommand, T!ReceiveCommand, T!Arrive,
         T!Refuse, T!Notification,
        T!vars, T!peerVars, T!sessVars, T!Discovered

-----------------------------------------------------------------------------
(* The receiver's files *)

\* Sessions and relays leave the peers alone.
LEMMA SessionFrame ==
  ASSUME NEW k \in Sessions,
         T!SessionStep(k) \/ (\E x \in T!Peers : T!Refuse(x, k))
             \/ (\E s \in Senders, q \in Receivers : T!RelayStep(s, q, k))
  PROVE  UNCHANGED T!peerVars
  <1>1. (\E x \in T!Peers : T!Arrive(x, k) \/ T!Refuse(x, k)) => UNCHANGED T!peerVars
    BY DEF T!Arrive, T!Refuse
  <1>2. T!HandleSendEvent(k) => UNCHANGED T!peerVars
    BY DEF T!HandleSendEvent
  <1>3. T!Notification(k) => UNCHANGED T!peerVars
    BY DEF T!Notification
  <1>4. (\E s \in Senders, q \in Receivers : T!RelayStep(s, q, k)) => UNCHANGED T!peerVars
    BY DEF T!RelayStep
  <1> QED
    BY <1>1, <1>2, <1>3, <1>4 DEF T!SessionStep

LEMMA ReceiverStep ==
  ASSUME T!PeersAssumption, T!TypeOK, [T!Next]_(T!vars), \A r \in Receivers : T!ReceiverInv(r)
  PROVE  \A r \in Receivers : T!ReceiverInv(r)'
  <1> SUFFICES ASSUME NEW r \in Receivers PROVE T!ReceiverInv(r)'
    OBVIOUS
  <1>0. r \in T!Peers
    BY DEF T!Peers
  <1>1. ASSUME NEW y \in T!Peers, NEW S \in T!Discovered, T!Offer(y, S) PROVE T!ReceiverInv(r)'
    BY <1>0, <1>1 DEF T!Offer, T!TypeOK, T!ReceiverInv
  <1>2. ASSUME NEW y \in T!Peers, NEW k \in Sessions, T!ReadGo(y, k) \/ T!ReadCount(y, k)
        PROVE  T!ReceiverInv(r)'
    <2>1. UNCHANGED partial /\ pc[y] = "racing"
          /\ ((\E in : T!Wins(y, k, in)) \/ T!Skips(y, k))
      BY <1>2 DEF T!ReadGo, T!ReadCount
    <2>2. ASSUME NEW in, T!Wins(y, k, in) PROVE T!ReceiverInv(r)'
      BY <1>0, <2>1, <2>2 DEF T!Wins, T!Leaves, T!TypeOK, T!ReceiverInv
    <2>3. ASSUME T!Skips(y, k) PROVE T!ReceiverInv(r)'
      BY <1>0, <2>1, <2>3 DEF T!Skips, T!Leaves, T!TypeOK, T!ReceiverInv
    <2> QED
      BY <2>1, <2>2, <2>3
  <1>3. ASSUME NEW y \in T!Peers, T!Write(y) PROVE T!ReceiverInv(r)'
    BY <1>0, <1>3 DEF T!Write, T!Leaves, T!TypeOK, T!ReceiverInv
  <1>4. ASSUME NEW y \in T!Peers, T!Receive(y) PROVE T!ReceiverInv(r)'
    <2>1. /\ pc[y] = "busy" /\ UNCHANGED pick
          /\ pc' = pc \/ pc' = [pc EXCEPT ![y] = "done"] \/ pc' = [pc EXCEPT ![y] = "failed"]
          /\ partial' = partial \/ \E p : partial' = [partial EXCEPT ![y] = p]
      BY <1>4 DEF T!Receive, T!Leaves
    <2> QED
      BY <1>0, <2>1 DEF T!TypeOK, T!ReceiverInv
  <1>5. ASSUME NEW y \in T!Peers, T!Quit(y) PROVE T!ReceiverInv(r)'
    BY <1>0, <1>5 DEF T!Quit, T!Leaves, T!TypeOK, T!ReceiverInv
  <1>6. ASSUME UNCHANGED <<pc, pick, partial>> PROVE T!ReceiverInv(r)'
    BY <1>6 DEF T!ReceiverInv
  <1>7. ASSUME NEW k \in Sessions,
               T!SessionStep(k) \/ (\E x \in T!Peers : T!Refuse(x, k))
                   \/ (\E s \in Senders, q \in Receivers : T!RelayStep(s, q, k))
        PROVE  UNCHANGED <<pc, pick, partial>>
    BY <1>7, SessionFrame DEF T!peerVars
  <1> QED
    BY <1>1, <1>2, <1>3, <1>4, <1>5, <1>6, <1>7
    DEF T!Next, T!PeerStep, T!SendCommand, T!ReceiveCommand, T!vars, T!peerVars, T!Discovered

LEMMA TargetStep ==
  ASSUME T!PeersAssumption, T!TypeOK, [T!Next]_(T!vars), T!TargetIsWhole,
         \A r \in Receivers, i \in Sessions : T!SenderInv(r, i),
         \A s \in Senders, r \in Receivers, i \in Sessions : T!StreamInv(s, r, i),
         \A r \in Receivers : T!ReceiverInv(r)
  PROVE  T!TargetIsWhole'
  <1>1. CASE UNCHANGED target
    BY <1>1 DEF T!TargetIsWhole
  <1>2. ASSUME NEW y \in Receivers, T!Receive(y), target' # target PROVE T!TargetIsWhole'
    <2> DEFINE i == pick[y]  in == inbox[<<y, i>>]  p == Append(partial[y], Head(in))
    <2>1. /\ pc[y] = "busy" /\ i \in Sessions
          /\ in # <<>> /\ Head(in) \in Senders /\ T!Persists(p)
          /\ target' = [target EXCEPT ![y] = p]
      BY <1>2 DEF T!Receive, T!ReceiverInv
    <2>2. in \in Seq(T!Messages) /\ Size \in Nat
      BY <2>1 DEF T!TypeOK, T!Streams, T!Peers, T!PeersAssumption
    <2>3. T!Relayed(y, i)
      BY <2>1 DEF T!SenderInv
    <2>4. PICK s \in Senders : relay[<<s, y, i>>] > 0
      BY <2>3 DEF T!Relayed, T!PeersAssumption
    <2>5. PICK a \in 0..(Size + 3) : T!Position(s, y, i, a)
      BY <2>1, <2>4 DEF T!StreamInv
    <2>6. /\ a \in 1..(Size + 2) /\ partial[y] = T!FileOf(s, a)
          /\ \A j \in DOMAIN in : in[j] = T!ToReceiver(s, a + j)
      BY <2>1, <2>5 DEF T!Position
    <2> HIDE DEF in
    <2>7. Head(in) = T!ToReceiver(s, a + 1) /\ a + 1 \in 1..(Size + 3) /\ a \in Nat
      <3>1. a \in Nat /\ a + 1 \in 1..(Size + 3)
        BY <2>2, <2>6
      <3> QED
        BY <2>1, <2>2, <2>6, <3>1, Consume
    <2>8. a >= 2 /\ Head(in) = s
      BY <2>1, <2>2, <2>6, <2>7, Distinct
    <2>9. p = T!FileOf(s, a + 1) /\ Len(p) = a - 1
      <3>1. Append(T!FileOf(s, a), s) = T!FileOf(s, a + 1)
        BY <2>8, FileGrows
      <3>2. p = Append(T!FileOf(s, a), s)
        BY <2>6, <2>8
      <3>3. a + 1 \in 0..(Size + 3) /\ (a + 1) - 2 = a - 1 /\ a + 1 >= 2
        BY <2>2, <2>7, <2>8
      <3>4. Len(T!FileOf(s, a + 1)) = (a + 1) - 2
        BY <3>3, FileGrows
      <3> QED
        BY <3>1, <3>2, <3>3, <3>4
    <2>10. p = [j \in 1..Size |-> s]
      BY <2>1, <2>2, <2>6, <2>8, <2>9 DEF T!Persists, T!FileOf
    <2> HIDE DEF p
    <2>11. \A r \in Receivers : target'[r] = target[r] \/ target'[r] = [j \in 1..Size |-> s]
      BY <2>1, <2>10 DEF T!TypeOK
    <2> SUFFICES ASSUME NEW r \in Receivers
                 PROVE  target'[r] = <<>> \/ \E t \in Senders : target'[r] = [j \in 1..Size |-> t]
      BY DEF T!TargetIsWhole
    <2>12. target[r] = <<>> \/ \E t \in Senders : target[r] = [j \in 1..Size |-> t]
      BY DEF T!TargetIsWhole
    <2> QED
      BY <2>11, <2>12, Zenon
  <1>3. ASSUME NEW k \in Sessions,
               T!SessionStep(k) \/ (\E x \in T!Peers : T!Refuse(x, k))
                   \/ (\E s \in Senders, q \in Receivers : T!RelayStep(s, q, k))
        PROVE  UNCHANGED target
    BY <1>3, SessionFrame DEF T!peerVars
  <1>4. ASSUME NEW y, NEW k, T!ReadGo(y, k) \/ T!ReadCount(y, k) \/ T!Write(y) \/ T!Quit(y)
        PROVE  UNCHANGED target
    BY <1>4 DEF T!ReadGo, T!ReadCount, T!Write, T!Quit
  <1>5. \A y : T!Receive(y) => y \in Receivers
    BY DEF T!Receive
  <1> QED
    BY <1>1, <1>2, <1>3, <1>4, <1>5
    DEF T!Next, T!PeerStep, T!SendCommand, T!ReceiveCommand, T!Offer, T!vars, T!peerVars

-----------------------------------------------------------------------------
(* The theorems *)

LEMMA TransferInit ==
  ASSUME T!PeersAssumption, T!Init
  PROVE  T!IInv
  <1> USE DEF T!Init
  <1>1. T!TypeOK
    <2>1. /\ \A S : <<>> \in Seq(S)
          /\ 0 \in 0..Size /\ 0 \in 0..T!End /\ 0 \in Nat /\ T!Idle \in T!Slots
      BY DEF T!PeersAssumption, T!End, T!Slots
    <2> QED
      BY <2>1 DEF T!TypeOK
  <1>2. \A i \in Sessions : T!QueueInv(i)
    BY DEF T!QueueInv
  <1>3. ASSUME NEW x \in T!Peers, NEW i \in Sessions
        PROVE  ~T!Queued(x, i) /\ ~T!Waits(x, i) /\ ~T!Relayed(x, i) /\ <<x, i>> \notin sent
    <2>1. ~T!Queued(x, i)
      BY DEF T!Queued
    <2>2. ~T!Waits(x, i)
      BY DEF T!Waits, T!Idle
    <2>3. ~T!Relayed(x, i)
      <3>1. \A s \in Senders, r \in Receivers : relay[<<s, r, i>>] = 0
        BY DEF T!Pairs
      <3> HIDE DEF T!Init
      <3>2. ~(0 > 0)
        OBVIOUS
      <3> QED
        BY <3>1, <3>2 DEF T!Relayed
    <2> QED
      BY <2>1, <2>2, <2>3
  <1>4. \A x \in T!Peers, i \in Sessions : T!PlaceInv(x, i)
    BY <1>3 DEF T!PlaceInv
  <1>5. \A r \in Receivers, i \in Sessions : T!SenderInv(r, i)
    BY DEF T!SenderInv, T!Pairs, T!Streams, T!Peers
  <1>6. \A s \in Senders, r \in Receivers, i \in Sessions : T!StreamInv(s, r, i)
    BY DEF T!StreamInv, T!Pairs
  <1>7. \A r \in Receivers : T!ReceiverInv(r)
    BY DEF T!ReceiverInv, T!Peers
  <1>8. T!TargetIsWhole
    BY DEF T!TargetIsWhole
  <1> QED
    BY <1>1, <1>2, <1>4, <1>5, <1>6, <1>7, <1>8 DEF T!IInv

LEMMA InvStep ==
  ASSUME T!PeersAssumption, T!IInv, [T!Next]_(T!vars)
  PROVE  T!IInv'
  BY TypeStep, PlaceStep, SenderStep, StreamStep, ReceiverStep, TargetStep DEF T!IInv

\* Every reachable state of the peers and of the sessions is of the types that
\* send_command, receive_command, handle_send_event and the relays assume.
THEOREM TransferTyped ==
  ASSUME T!PeersAssumption
  PROVE  T!Spec => []T!TypeOK
  <1>1. T!IInv => T!TypeOK
    BY DEF T!IInv
  <1> QED
    BY <1>1, TransferInit, InvStep, PTL DEF T!Spec

\* However the peers race, replace each other, stop or are dropped, and whenever
\* their relays end, PartialFile::persist only ever puts whole files, each from
\* one sender, under their names.
THEOREM WholeTarget ==
  ASSUME T!PeersAssumption
  PROVE  T!Spec => []T!TargetIsWhole
  <1>1. T!IInv => T!TargetIsWhole
    BY DEF T!IInv
  <1> QED
    BY <1>1, TransferInit, InvStep, PTL DEF T!Spec

\* In a session a receiver is paired with one sender at most: spawn_transfer_relay
\* is not called again for a stream that a relay has, or had.
THEOREM OneSender ==
  ASSUME T!PeersAssumption
  PROVE  T!Spec => [](\A s, t \in Senders, r \in Receivers, i \in Sessions :
                       relay[<<s, r, i>>] > 0 /\ relay[<<t, r, i>>] > 0 => s = t)
  <1>1. T!IInv => \A s, t \in Senders, r \in Receivers, i \in Sessions :
                   relay[<<s, r, i>>] > 0 /\ relay[<<t, r, i>>] > 0 => s = t
    BY DEF T!IInv, T!SenderInv
  <1> QED
    BY <1>1, TransferInit, InvStep, PTL DEF T!Spec
=============================================================================
