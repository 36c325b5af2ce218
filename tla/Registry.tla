------------------------------ MODULE Registry ------------------------------
(***************************************************************************)
(* The session registry of daemon.rs: the sessions map, names and ids, the *)
(* control requests that change it, the two reapers at the top of the      *)
(* accept loop, and the part of a session task and its clients that they   *)
(* race with.  Requests are dispatched one at a time; a handler that waits *)
(* (for a send, or for the task's metadata) lets the tasks run meanwhile.  *)
(*                                                                         *)
(* Time is counted in boundaries of whole seconds, as epoch_now does.  An  *)
(* age is the distance of a time stamp from now, capped at MaxAge: nothing *)
(* tells larger ones apart.                                                *)
(***************************************************************************)
EXTENDS Integers, Sequences, FiniteSets

CONSTANTS
    Clients,     \* client processes of one machine: they share a device_id
    Names,       \* session names that are not numbers
    Lingers,     \* linger_secs a session can be given, 0 for never
    MaxAge,      \* bound: the largest age that is told apart
    MaxIds,      \* bound: sessions one daemon creates
    MaxRestarts, \* bound: daemons that follow the first one
    MaxQueue,    \* bound: clients waiting in a session's channel
    NoName, NoClient, Dash   \* no name, no client, the target "-"

Ids == 0..(MaxIds - 1)

\* What a request can name a session by, or propose as its name.  The decimal
\* string of an id is that id.
Strings == Names \cup Ids \cup {Dash}

VARIABLES
    (* the daemon *)
    server_id,      \* which daemon it is
    sessions,       \* the map: from live ids to Session records
    next_id,
    last_attached,  \* a set: empty for None
    loop,           \* top, scan, select, new (in NewSession), attach (in Attach)
    op,             \* the request being handled
    todo,           \* reap_lingering: sessions not looked at yet
    reading,        \* reap_lingering: the session between its two loads, with its linger
    expired,        \* reap_lingering: the verdict
    (* clients *)
    client,         \* out, asking, live, down
    home            \* the session a client belongs to, a set: {} or {<<server, id>>}

scanVars   == <<todo, reading, expired>>
daemonVars == <<server_id, next_id, last_attached, loop, op, scanVars>>
clientVars == <<client, home>>
vars == <<daemonVars, sessions, clientVars>>

Phases == {"starting", "birth", "env", "running", "leaving", "closed", "finished"}

\* SessionState with its SessionMetadata and its task.  The last two fields
\* record history: nothing reads them.
Session ==
    [name     : Names \cup {NoName},
     task     : Phases,                  \* where the session task is
     slot     : BOOLEAN,                 \* the metadata is published
     attached : BOOLEAN,
     linger   : 0..MaxAge,
     age      : 0..MaxAge,               \* of max(last_heartbeat, created_at)
     seen     : 0..MaxAge,               \* that age at the reaper's epoch_now
     queue    : Seq(Clients),            \* handed over and not yet taken
     served   : Clients \cup {NoClient}, \* by the task
     idle     : 0..MaxAge,  \* of the last moment a client was handed over or used the shell
     given    : BOOLEAN]    \* a client was handed over

Live == DOMAIN sessions

NoOp == [id |-> -1, client |-> NoClient, was |-> "out", force |-> TRUE]

Init ==
    /\ server_id = 0
    /\ sessions = [i \in {} |-> NoOp]
    /\ next_id = 0 /\ last_attached = {}
    /\ loop = "top" /\ op = NoOp
    /\ todo = {} /\ reading = {} /\ expired = {}
    /\ client = [c \in Clients |-> "out"]
    /\ home = [c \in Clients |-> {}]

\* The entries of the map m that are in S.
Kept(m, S) == [i \in S |-> m[i]]

\* client_tx.is_closed(): the task has dropped its receiver.
Closed(i) == sessions[i].task \in {"closed", "finished"}

Waiting(c, i) == \E j \in DOMAIN sessions[i].queue : sessions[i].queue[j] = c

-----------------------------------------------------------------------------
(* Clients *)

\* Clients in S end up in state st; one that is out belongs nowhere.
ClientsBecome(S, st) ==
    /\ client' = [c \in Clients |-> IF c \in S THEN st ELSE client[c]]
    /\ home' = IF st = "out" THEN [c \in Clients |-> IF c \in S THEN {} ELSE home[c]] ELSE home

\* The clients that are connected to one of the sessions S.
ConnectedTo(S) == {c \in Clients : client[c] = "live" /\ \E i \in S : home[c] = {<<server_id, i>>}}

\* A client loses its link, or detaches; its task has not noticed.
Leave(c) ==
    /\ client[c] = "live"
    /\ \E st \in {"down", "out"} : ClientsBecome({c}, st)
    /\ UNCHANGED <<daemonVars, sessions>>

\* The user stops a client that reconnects.
Interrupt(c) ==
    /\ client[c] = "down"
    /\ ClientsBecome({c}, "out")
    /\ UNCHANGED <<daemonVars, sessions>>

-----------------------------------------------------------------------------
(* Time *)

Older(a) == IF a < MaxAge THEN a + 1 ELSE a

\* A second begins.  While the shell serves a client the session is not idle.
Tick ==
    /\ sessions' = [i \in Live |->
          [sessions[i] EXCEPT
             !.age = Older(@),
             !.idle = IF sessions[i].task = "running" /\ sessions[i].served # NoClient
                      THEN 0 ELSE Older(@)]]
    /\ UNCHANGED <<daemonVars, clientVars>>

\* touch_presence: the time stamp becomes the current time, which is not before
\* the reaper's.
touch_presence(s) == [s EXCEPT !.age = 0, !.seen = 0, !.idle = 0]

-----------------------------------------------------------------------------
(* The top of the accept loop: reap_lingering, reap_sessions *)

StartScan ==
    /\ loop = "top"
    /\ loop' = "scan"
    /\ todo' = Live
    /\ sessions' = [i \in Live |-> [sessions[i] EXCEPT !.seen = sessions[i].age]]
    /\ UNCHANGED <<server_id, next_id, last_attached, op, reading, expired, clientVars>>

\* The load of attached.
ReadAttached(i) ==
    /\ loop = "scan" /\ reading = {}
    /\ i \in todo
    /\ todo' = todo \ {i}
    /\ reading' = IF sessions[i].slot /\ sessions[i].linger # 0 /\ ~sessions[i].attached
                  THEN {[id |-> i, linger |-> sessions[i].linger]} ELSE {}
    /\ UNCHANGED <<server_id, sessions, next_id, last_attached, loop, op, expired, clientVars>>

\* The load of last_heartbeat, and the comparison with the reaper's clock.
ReadHeartbeat ==
    /\ loop = "scan"
    /\ \E r \in reading :
          expired' = IF sessions[r.id].seen >= r.linger THEN expired \cup {r.id} ELSE expired
    /\ reading' = {}
    /\ UNCHANGED <<server_id, sessions, next_id, last_attached, loop, op, todo, clientVars>>

\* reap_sessions: the entries whose task has not finished.
reap_sessions == {i \in Live : sessions[i].task # "finished"}

\* abort_session for the sessions in S: their tasks are dropped with all their
\* connections, and the entries S0 \ S remain.
abort_session(S, S0) ==
    /\ sessions' = Kept(sessions, S0 \ S)
    /\ ClientsBecome(ConnectedTo(S), "down")

EndScan ==
    /\ loop = "scan" /\ todo = {} /\ reading = {}
    /\ \E S \in {reap_sessions \ expired} :
          sessions' = [i \in S |-> [sessions[i] EXCEPT !.seen = 0]]
    /\ ClientsBecome(ConnectedTo(expired), "down")
    /\ expired' = {}
    /\ loop' = "select"
    /\ UNCHANGED <<server_id, next_id, last_attached, op, todo, reading>>

\* An arm of the select! that does no more than reap: a connection is accepted,
\* the socket is checked, the sessions are listed, an Attach is refused.
OtherEvent ==
    /\ loop = "select"
    /\ loop' = "top"
    /\ sessions' \in {sessions, Kept(sessions, reap_sessions)}
    /\ UNCHANGED <<server_id, next_id, last_attached, op, scanVars, clientVars>>

-----------------------------------------------------------------------------
(* Names *)

NameTaken(n) == \E i \in reap_sessions : sessions[i].name = n

ValidNameIfNumeric(n) == n \in Names \cup Ids /\ ~NameTaken(n)

validate_session_name(n) == n \in Names /\ ~NameTaken(n)

\* resolve_session after a reap: "-", then names, then ids.
resolve_session(t) ==
    reap_sessions \cap
      (IF t = Dash THEN last_attached
       ELSE IF NameTaken(t) THEN {CHOOSE i \in reap_sessions : sessions[i].name = t}
       ELSE {t})

\* resolve_live_session: the session t names, whose task lives, as a set.
Resolved(t) == {i \in resolve_session(t) : ~Closed(i)}

\* The map that resolve_live_session leaves: the entry of a dead task is removed.
Swept(t) == Kept(sessions, reap_sessions \ {i \in resolve_session(t) : Closed(i)})

-----------------------------------------------------------------------------
(* dispatch_control *)

\* The request in hand needs a wait: op holds what it goes on with.
Begin(where, i, c, force) ==
    /\ loop' = where
    /\ op' = [id |-> i, client |-> c, was |-> client[c], force |-> force]
    /\ ClientsBecome({c}, "asking")

\* NewSession: the entry is made and the task spawned before the creator is told.
NewSession(c, n, l) ==
    /\ loop = "select" /\ client[c] = "out"
    /\ next_id \in Ids
    /\ n = NoName \/ validate_session_name(n)
    /\ sessions' = [i \in reap_sessions \cup {next_id} |->
          IF i = next_id
          THEN [name |-> n, task |-> "starting", slot |-> FALSE, attached |-> FALSE,
                linger |-> l, age |-> 0, seen |-> 0, queue |-> <<>>, served |-> NoClient,
                idle |-> 0, given |-> FALSE]
          ELSE sessions[i]]
    /\ next_id' = next_id + 1
    /\ Begin("new", next_id, c, TRUE)
    /\ UNCHANGED <<server_id, last_attached, scanVars>>

NewSessionFailsKept ==
    /\ loop = "new"
    /\ ClientsBecome({op.client}, "out")
    /\ loop' = "top" /\ op' = NoOp
    /\ UNCHANGED <<server_id, sessions, next_id, last_attached, scanVars>>

\* The creator is gone before SessionCreated and AttachAck are sent: roll back.
NewSessionFails ==
    /\ loop = "new"
    /\ sessions' = Kept(sessions, Live \ {op.id})
    /\ ClientsBecome({op.client}, "out")
    /\ loop' = "top" /\ op' = NoOp
    /\ UNCHANGED <<server_id, next_id, last_attached, scanVars>>

\* client_tx.send of the connection of op.client to its session, which is s but
\* for the mark; a closed channel drops the connection.
HandOver(s) ==
    LET i == op.id
        c == op.client
    IN  /\ Len(s.queue) < MaxQueue
        /\ sessions' = [sessions EXCEPT ![i] =
              [s EXCEPT !.given = TRUE, !.idle = 0,
                        !.queue = IF Closed(i) THEN @ ELSE Append(@, c)]]
        /\ client' = [client EXCEPT ![c] = IF Closed(i) THEN "down" ELSE "live"]
        /\ home' = [home EXCEPT ![c] = {<<server_id, i>>}]
        /\ last_attached' = {i}
        /\ loop' = "top" /\ op' = NoOp
        /\ UNCHANGED <<server_id, next_id, scanVars>>

Marked(s) == touch_presence([s EXCEPT !.attached = TRUE])

\* mark_attached_when_ready, up to its deadline, and the hand-over.
NewSessionDone ==
    /\ loop = "new"
    /\ \E s \in {sessions[op.id]} : HandOver(IF s.slot THEN Marked(s) ELSE s)

\* Attach of an explicit connect by target t.
ConnectRequest(c, t, force) ==
    /\ loop = "select" /\ client[c] = "out"
    /\ \E i \in Resolved(t) :
          /\ force \/ ~sessions[i].attached
          /\ Begin("attach", i, c, force)
    /\ sessions' = Kept(sessions, reap_sessions)
    /\ UNCHANGED <<server_id, next_id, last_attached, scanVars>>

HomeAnyServer(c) == {i \in Ids : (\E v \in 0..MaxRestarts : home[c] = {<<v, i>>})
                                 /\ \E k \in Resolved(i) : sessions[k].slot}

\* The session the client c asks for when it reconnects, if the daemon is the
\* one it knows and has an owner for the session: OwnerChanged without metadata.
HomeNow(c) == {i \in Ids : home[c] = {<<server_id, i>>}
                           /\ \E k \in Resolved(i) : sessions[k].slot}

\* Attach of the reconnect loop: by id and forced.
Reconnect(c) ==
    /\ loop = "select" /\ client[c] = "down"
    /\ \E i \in HomeNow(c) : \E k \in Resolved(i) : Begin("attach", k, c, TRUE)
    /\ sessions' = Kept(sessions, reap_sessions)
    /\ UNCHANGED <<server_id, next_id, last_attached, scanVars>>

\* The server was restarted, the session is gone, or its owner is not known yet:
\* the client exits.
ReconnectRefused(c) ==
    /\ loop = "select" /\ client[c] = "down"
    /\ HomeNow(c) = {}
    /\ sessions' = IF \E i \in Ids : home[c] = {<<server_id, i>>}
                   THEN Swept(CHOOSE i \in Ids : home[c] = {<<server_id, i>>}) ELSE sessions
    /\ loop' = "top"
    /\ ClientsBecome({c}, "out")
    /\ UNCHANGED <<server_id, next_id, last_attached, op, scanVars>>

AttachFailsMarked ==
    /\ loop = "attach"
    /\ sessions' = [sessions EXCEPT ![op.id].attached = TRUE]
    /\ ClientsBecome({op.client}, op.was)
    /\ loop' = "top" /\ op' = NoOp
    /\ UNCHANGED <<server_id, next_id, last_attached, scanVars>>

\* The AttachAck cannot be sent, or the metadata does not come in time.
AttachFails ==
    /\ loop = "attach"
    /\ ClientsBecome({op.client}, op.was)
    /\ loop' = "top" /\ op' = NoOp
    /\ UNCHANGED <<server_id, sessions, next_id, last_attached, scanVars>>

AttachDone ==
    /\ loop = "attach" /\ sessions[op.id].slot
    /\ HandOver(Marked(sessions[op.id]))

\* A request that is done in one go and leaves the map m.
Done(m) ==
    /\ sessions' = m
    /\ loop' = "top"
    /\ UNCHANGED <<server_id, next_id, last_attached, op, scanVars>>

KillSession(t) ==
    /\ loop = "select"
    /\ \E i \in Resolved(t) : abort_session({i}, reap_sessions)
    /\ loop' = "top"
    /\ UNCHANGED <<server_id, next_id, last_attached, op, scanVars>>

RenameSession(t, n) ==
    /\ loop = "select"
    /\ validate_session_name(n)
    /\ \E i \in Resolved(t) : Done([Kept(sessions, reap_sessions) EXCEPT ![i].name = n])
    /\ UNCHANGED clientVars

SetLinger(t, l) ==
    /\ loop = "select"
    /\ \E i \in Resolved(t) :
          /\ sessions[i].slot
          /\ Done([Kept(sessions, reap_sessions) EXCEPT ![i].linger = l])
    /\ UNCHANGED clientVars

\* NoSuchSession, from any request that names a session.
NotFound(t) ==
    /\ loop = "select"
    /\ Resolved(t) = {}
    /\ Done(Swept(t))
    /\ UNCHANGED clientVars

\* KillServer, a signal or a crash, and the next daemon: it knows nothing of the
\* sessions, which went with their tasks.  Those told ServerShutdown exit.
Restart ==
    /\ server_id < MaxRestarts
    /\ server_id' = server_id + 1
    /\ sessions' = [i \in {} |-> NoOp]
    /\ next_id' = 0 /\ last_attached' = {}
    /\ loop' = "top" /\ op' = NoOp
    /\ todo' = {} /\ reading' = {} /\ expired' = {}
    /\ \E told \in SUBSET ConnectedTo({i \in Live : sessions[i].served # NoClient}) :
          /\ client' = [c \in Clients |->
                           IF c \in told THEN "out"
                           ELSE IF client[c] = "asking" THEN op.was
                           ELSE IF client[c] = "live" THEN "down" ELSE client[c]]
          /\ home' = [c \in Clients |-> IF c \in told THEN {} ELSE home[c]]

-----------------------------------------------------------------------------
(* server.rs: the session task *)

\* A step of the task of session i, which leaves the entry s.
TaskLeaves(i, s) ==
    /\ sessions' = [sessions EXCEPT ![i] = s]
    /\ UNCHANGED daemonVars

\* The metadata slot is set: created_at is now.
Publish(i) ==
    /\ sessions[i].task = "starting"
    /\ TaskLeaves(i, [sessions[i] EXCEPT !.task = "birth", !.slot = TRUE, !.age = 0, !.seen = 0])
    /\ UNCHANGED clientVars

\* The first client is taken; its Env frame is awaited before the shell starts.
TakeFirst(i) ==
    /\ sessions[i].task = "birth" /\ sessions[i].queue # <<>>
    /\ TaskLeaves(i, [sessions[i] EXCEPT !.task = "env", !.served = Head(sessions[i].queue),
                                         !.queue = Tail(@)])
    /\ UNCHANGED clientVars

SpawnShell(i) ==
    /\ sessions[i].task = "env"
    /\ TaskLeaves(i, Marked([sessions[i] EXCEPT !.task = "running"]))
    /\ UNCHANGED clientVars

\* The client served by i, if it still takes that connection for its own.
ServedBy(i) == {c \in ConnectedTo({i}) : c = sessions[i].served /\ ~Waiting(c, i)}

\* The task takes the next client: from the drain loop, or in a takeover, where
\* the one it served is told Detached and exits.
TakeClient(i) ==
    LET s == [sessions[i] EXCEPT !.served = Head(sessions[i].queue), !.queue = Tail(@)]
    IN  /\ sessions[i].task = "running" /\ sessions[i].queue # <<>>
        /\ TaskLeaves(i, IF sessions[i].served = NoClient THEN Marked(s) ELSE touch_presence(s))
        /\ ClientsBecome(ServedBy(i), "out")

\* A Ping of the client.
Ping(i) ==
    /\ sessions[i].task = "running" /\ sessions[i].served # NoClient
    /\ TaskLeaves(i, touch_presence(sessions[i]))
    /\ UNCHANGED clientVars

LoseClientUntouched(i) ==
    /\ sessions[i].task = "running" /\ sessions[i].served # NoClient
    /\ TaskLeaves(i, [sessions[i] EXCEPT !.task = "leaving", !.served = NoClient])
    /\ ClientsBecome(ServedBy(i), "down")

\* The client is gone, or is evicted: mark_detached, its two stores.
LoseClient(i) ==
    /\ sessions[i].task = "running" /\ sessions[i].served # NoClient
    /\ TaskLeaves(i, touch_presence([sessions[i] EXCEPT !.task = "leaving", !.served = NoClient]))
    /\ ClientsBecome(ServedBy(i), "down")

ClearAttached(i) ==
    /\ sessions[i].task = "leaving"
    /\ TaskLeaves(i, [sessions[i] EXCEPT !.task = "running", !.attached = FALSE])
    /\ UNCHANGED clientVars

\* ~K: the client being served pins the session.
Pin(i) ==
    /\ sessions[i].task = "running" /\ sessions[i].served # NoClient
    /\ TaskLeaves(i, [sessions[i] EXCEPT !.linger = 0])
    /\ UNCHANGED clientVars

\* The shell exits, or the PTY or the shell cannot be started: the client that
\* is served gets Exit and exits, or loses its link; those that wait lose theirs.
EndTask(i) ==
    /\ sessions[i].task \in {"starting", "env", "running"}
    /\ TaskLeaves(i, [sessions[i] EXCEPT !.task = "closed", !.queue = <<>>, !.served = NoClient])
    /\ \E told \in SUBSET {c \in ServedBy(i) : sessions[i].task = "running"} :
          /\ client' = [c \in Clients |-> IF c \in told THEN "out"
                                          ELSE IF c \in ConnectedTo({i}) THEN "down" ELSE client[c]]
          /\ home' = [c \in Clients |-> IF c \in told THEN {} ELSE home[c]]

\* The JoinHandle of a task that has returned says so.
FinishTask(i) ==
    /\ sessions[i].task = "closed"
    /\ TaskLeaves(i, [sessions[i] EXCEPT !.task = "finished"])
    /\ UNCHANGED clientVars

-----------------------------------------------------------------------------

\* The daemon's own steps: the loop turns, handlers come to an end.
LoopStep ==
    \/ StartScan \/ (\E i \in Ids : ReadAttached(i)) \/ ReadHeartbeat \/ EndScan
    \/ OtherEvent
    \/ NewSessionFails \/ NewSessionDone \/ AttachFails \/ AttachDone

Request ==
    \/ \E c \in Clients :
          \/ \E n \in Strings \cup {NoName}, l \in Lingers : NewSession(c, n, l)
          \/ \E t \in Strings, force \in BOOLEAN : ConnectRequest(c, t, force)
          \/ Reconnect(c) \/ ReconnectRefused(c)
    \/ \E t \in Strings :
          \/ KillSession(t) \/ NotFound(t)
          \/ \E n \in Strings : RenameSession(t, n)
          \/ \E l \in Lingers : SetLinger(t, l)

\* The task finds out that the client it serves has gone.
NoticeLoss(i) == LoseClient(i) /\ ServedBy(i) = {}

TaskStep(i) ==
    /\ i \in Live
    /\ \/ NoticeLoss(i)
       \/ Publish(i) \/ TakeFirst(i) \/ SpawnShell(i) \/ TakeClient(i)
       \/ ClearAttached(i) \/ FinishTask(i)

TaskInput(i) == i \in Live /\ (Ping(i) \/ LoseClient(i) \/ Pin(i) \/ EndTask(i))

Next ==
    \/ Tick \/ LoopStep \/ Request \/ Restart
    \/ \E i \in Ids : TaskStep(i) \/ TaskInput(i)
    \/ \E c \in Clients : Leave(c) \/ Interrupt(c)

Spec == Init /\ [][Next]_vars

\* Time passes, the loop turns (its socket_check interval ticks) and tasks run.
Fairness ==
    /\ WF_vars(Tick) /\ WF_vars(LoopStep)
    /\ \A i \in Ids : WF_vars(TaskStep(i))

FairSpec == Spec /\ Fairness

-----------------------------------------------------------------------------
(* Properties *)

TypeOK ==
    /\ server_id \in 0..MaxRestarts
    /\ Live \subseteq Ids /\ sessions \in [Live -> Session]
    /\ next_id \in 0..MaxIds
    /\ last_attached \subseteq Ids
    /\ loop \in {"top", "scan", "select", "new", "attach"}
    /\ op \in [id : Ids \cup {-1}, client : Clients \cup {NoClient},
               was : {"out", "down"}, force : BOOLEAN]
    /\ todo \subseteq Live /\ expired \subseteq Live
    /\ reading \subseteq [id : Live, linger : 1..MaxAge]
    /\ client \in [Clients -> {"out", "asking", "live", "down"}]
    /\ home \in [Clients -> {{}} \cup {{<<v, i>>} : v \in 0..MaxRestarts, i \in Ids}]

\* A client that reconnects by itself is handed to the very session it belongs
\* to: no name hides its id, and no id of a later daemon is taken for it.
ReconnectsHome ==
    loop = "attach" /\ op.was = "down" => home[op.client] = {<<server_id, op.id>>}

\* Every entry has been handed a client, unless its creation is in progress: a
\* creator that vanishes leaves no session that waits for its first client.
NoGhostSession ==
    \A i \in Live : sessions[i].given \/ (loop = "new" /\ op.id = i)

\* The linger reaper condemns a session only when no client was handed over to
\* it or used its shell for the linger: the two loads of reap_lingering and the
\* two stores of mark_detached never combine into an early verdict.
LingerKept ==
    [][\A r \in reading : r.id \in expired' => sessions[r.id].idle >= r.linger]_vars

\* A client is connected to session i, or is about to be.
Attended(i) == op.id = i \/ ConnectedTo({i}) # {}

\* A session with a linger that nobody is connected to does not stay for ever.
EventuallyReaped ==
    \A i \in Ids : []<>(i \notin Live \/ sessions[i].linger = 0 \/ Attended(i))

\* daemon.rs says of the mark at hand-off that "a subsequent non-forced Attach
\* is guaranteed to observe this": none is granted while a client that was
\* handed over to a session with a shell waits to be taken.
HandOffObserved ==
    loop = "attach" /\ ~op.force /\ sessions[op.id].task \in {"running", "leaving"}
        => sessions[op.id].queue = <<>>
=============================================================================
