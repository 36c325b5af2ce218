------------------------------ MODULE Transfer ------------------------------
(***************************************************************************)
(* File transfer (server.rs, commands/transfer.rs): gritty send and gritty *)
(* receive offer themselves to one or to several sessions; each session    *)
(* pairs a sender with a receiver and relays one file of Size chunks.      *)
(*                                                                         *)
(* A stream is a Unix socket between a peer and a session.  Each end can   *)
(* close; what was written before is still read.  The sessions' events and *)
(* notifications are unbounded channels.                                   *)
(***************************************************************************)
EXTENDS Integers, Sequences, FiniteSets

CONSTANTS
    Sessions, Senders, Receivers,
    Size,       \* chunks of the file
    MaxQuits    \* bound: peers the user stops or that time out

Peers == Senders \cup Receivers
Pairs == Senders \X Receivers \X Sessions

VARIABLES
    (* the peers *)
    pc,       \* out, racing, busy (streaming or receiving), done, failed
    pick,     \* the session a peer was paired in
    cli,      \* streams whose end at the peer is open
    written,  \* a sender: chunks written to the stream it picked
    partial,  \* a receiver: the chunks in its temporary file, by their senders
    target,   \* a receiver: the content of the file, empty for what was there before
    quits,    \* peers that were stopped
    (* the sessions *)
    sent,     \* streams whose request is not parsed yet
    events,   \* send_event_rx
    slot,     \* TransferState
    relay,    \* spawn_transfer_relay: how far each relay is
    notify,   \* SendDone and SendCancel frames in send_notify_rx
    srv,      \* streams whose end at the session is open
    inbox     \* what a session wrote to a stream and the peer has not read

peerVars == <<pc, pick, cli, written, partial, target, quits>>
sessVars == <<sent, events, slot, relay, notify, srv, inbox>>
vars == <<peerVars, sessVars>>

Streams == Peers \X Sessions
Idle == [k |-> "idle"]

\* A relay that was not started, or the steps it has done; End when it returned.
End == Size + 5

Init ==
    /\ pc = [x \in Peers |-> "out"] /\ pick = [x \in Peers |-> 0]
    /\ cli = {} /\ srv = {} /\ sent = {}
    /\ written = [s \in Senders |-> 0]
    /\ partial = [r \in Receivers |-> <<>>] /\ target = [r \in Receivers |-> <<>>]
    /\ quits = <<>>
    /\ events = [i \in Sessions |-> <<>>]
    /\ slot = [i \in Sessions |-> Idle]
    /\ relay = [p \in Pairs |-> 0]
    /\ notify = [i \in Sessions |-> 0]
    /\ inbox = [a \in Streams |-> <<>>]

StreamsOf(x) == {x} \X Sessions

\* discover_all_sessions: sessions that answer, each of them once.
Discovered == (SUBSET Sessions) \ {{}}

-----------------------------------------------------------------------------
(* gritty send, gritty receive *)

\* connect_send_sockets: the session it runs in, the one named, or all of them.
Offer(x, S) ==
    /\ pc[x] = "out"
    /\ pc' = [pc EXCEPT ![x] = "racing"]
    /\ cli' = cli \cup ({x} \X S) /\ srv' = srv \cup ({x} \X S) /\ sent' = sent \cup ({x} \X S)
    /\ UNCHANGED <<pick, written, partial, target, quits, events, slot, relay, notify, inbox>>

\* send_command and receive_command, up to the wait for a partner.
SendCommand(s, S) == s \in Senders /\ Offer(s, S)
ReceiveCommand(r, S) == r \in Receivers /\ Offer(r, S)

\* The peer closes the streams in C and goes to state st.
Leaves(x, C, st) ==
    /\ cli' = cli \ C
    /\ pc' = [pc EXCEPT ![x] = st]

\* race_first_ready: this stream won, the others are dropped.
Wins(x, i, in) ==
    /\ Leaves(x, StreamsOf(x) \ {<<x, i>>}, "busy")
    /\ pick' = [pick EXCEPT ![x] = i]
    /\ inbox' = [inbox EXCEPT ![<<x, i>>] = in]

\* This one is out of the race; with the last one the command fails.
Skips(x, i) ==
    /\ Leaves(x, {<<x, i>>}, IF cli \cap StreamsOf(x) = {<<x, i>>} THEN "failed" ELSE "racing")
    /\ UNCHANGED <<pick, inbox>>

\* classify_go.
ReadGo(s, i) ==
    /\ pc[s] = "racing" /\ <<s, i>> \in cli
    /\ \/ inbox[<<s, i>>] = <<"paired">> /\ Wins(s, i, <<>>)
       \/ inbox[<<s, i>>] \in {<<"superseded">>, <<"busy">>} /\ Skips(s, i)
       \/ inbox[<<s, i>>] = <<>> /\ <<s, i>> \notin srv /\ Skips(s, i)
    /\ UNCHANGED <<written, partial, target, quits, sent, events, slot, relay, notify, srv>>

\* The sender writes a chunk; the write fails once the relay has gone.
Write(s) ==
    /\ pc[s] = "busy" /\ s \in Senders /\ written[s] < Size
    /\ IF <<s, pick[s]>> \in srv
       THEN /\ written' = [written EXCEPT ![s] = @ + 1]
            /\ IF written[s] + 1 = Size THEN Leaves(s, StreamsOf(s), "done")
                                       ELSE UNCHANGED <<cli, pc>>
       ELSE Leaves(s, StreamsOf(s), "failed") /\ UNCHANGED written
    /\ UNCHANGED <<pick, partial, target, quits, sessVars>>

\* The receiver reads the file count, or finds the stream closed.
ReadCount(r, i) ==
    /\ pc[r] = "racing" /\ <<r, i>> \in cli
    /\ \/ inbox[<<r, i>>] # <<>> /\ Wins(r, i, Tail(inbox[<<r, i>>]))
       \/ inbox[<<r, i>>] = <<>> /\ <<r, i>> \notin srv /\ Skips(r, i)
    /\ UNCHANGED <<written, partial, target, quits, sent, events, slot, relay, notify, srv>>

\* A mistake: the file is renamed once it has content.
PersistsEarly(p) == p # <<>>

\* PartialFile::persist, after the last byte of the file.
Persists(p) == Len(p) = Size

\* receive_to_dir: a header opens the temporary file, which replaces the target
\* when it is complete; the sentinel ends the transfer; at EOF it is removed.
Receive(r) ==
    LET a == <<r, pick[r]>>  in == inbox[a] IN
    /\ pc[r] = "busy" /\ r \in Receivers
    /\ \/ /\ in # <<>> /\ Head(in) = "header"
          /\ partial' = [partial EXCEPT ![r] = <<>>]
          /\ inbox' = [inbox EXCEPT ![a] = Tail(in)]
          /\ UNCHANGED <<cli, pc, target>>
       \/ /\ in # <<>> /\ Head(in) \in Senders
          /\ LET p == Append(partial[r], Head(in)) IN
             /\ partial' = [partial EXCEPT ![r] = p]
             /\ target' = IF Persists(p) THEN [target EXCEPT ![r] = p] ELSE target
          /\ inbox' = [inbox EXCEPT ![a] = Tail(in)]
          /\ UNCHANGED <<cli, pc>>
       \/ /\ in # <<>> /\ Head(in) = "end"
          /\ Leaves(r, StreamsOf(r), "done")
          /\ UNCHANGED <<inbox, partial, target>>
       \/ /\ in = <<>> /\ a \notin srv
          /\ Leaves(r, StreamsOf(r), "failed")
          /\ partial' = [partial EXCEPT ![r] = <<>>]
          /\ UNCHANGED <<inbox, target>>
    /\ UNCHANGED <<pick, written, quits, sent, events, slot, relay, notify, srv>>

\* --timeout, or the user stops the command.
Quit(x) ==
    /\ pc[x] \in {"racing", "busy"} /\ Len(quits) < MaxQuits
    /\ quits' = Append(quits, x)
    /\ Leaves(x, StreamsOf(x), "failed")
    /\ UNCHANGED <<pick, written, partial, target, sessVars>>

-----------------------------------------------------------------------------
(* A session *)

\* spawn_svc_acceptor, handle_send_stream: the request was read and is valid.
Arrive(x, i) ==
    /\ <<x, i>> \in sent
    /\ sent' = sent \ {<<x, i>>}
    /\ events' = [events EXCEPT ![i] = Append(@, x)]
    /\ UNCHANGED <<peerVars, slot, relay, notify, srv, inbox>>

\* It is not, or the peer left before it was read: the stream is dropped.
Refuse(x, i) ==
    /\ <<x, i>> \in sent /\ <<x, i>> \notin cli
    /\ sent' = sent \ {<<x, i>>}
    /\ srv' = srv \ {<<x, i>>}
    /\ UNCHANGED <<peerVars, events, slot, relay, notify, inbox>>

stream_is_dead(x, i) == <<x, i>> \notin cli

Say(x, i, m) == inbox' = [inbox EXCEPT ![<<x, i>>] = Append(@, m)]

\* The two streams are moved into a new relay.
Pair(s, r, i) ==
    /\ relay' = [relay EXCEPT ![<<s, r, i>>] = 1]
    /\ slot' = [slot EXCEPT ![i] = [k |-> "active", s |-> s, r |-> r]]
    /\ UNCHANGED <<srv, inbox>>

\* The newcomer takes the slot, and what was waiting there is dropped.
Displace(x, i, k, old) ==
    /\ slot' = [slot EXCEPT ![i] = [k |-> k, x |-> x]]
    /\ srv' = IF old.k \in {"sender", "receiver"} THEN srv \ {<<old.x, i>>} ELSE srv
    /\ UNCHANGED relay

Running(i) == slot[i].k = "active" /\ relay[<<slot[i].s, slot[i].r, i>>] < End

\* handle_send_event.
HandleSendEvent(i) ==
    /\ events[i] # <<>>
    /\ events' = [events EXCEPT ![i] = Tail(@)]
    /\ LET x == Head(events[i])  old == slot[i] IN
       \/ /\ Running(i)
          /\ srv' = srv \ {<<x, i>>}
          /\ IF x \in Senders THEN Say(x, i, "busy") ELSE UNCHANGED inbox
          /\ UNCHANGED <<slot, relay>>
       \/ /\ ~Running(i) /\ x \in Senders
          /\ IF old.k = "receiver" /\ ~stream_is_dead(old.x, i) THEN Pair(x, old.x, i)
             ELSE /\ Displace(x, i, "sender", old)
                  /\ IF old.k = "sender" THEN Say(old.x, i, "superseded") ELSE UNCHANGED inbox
       \/ /\ ~Running(i) /\ x \in Receivers
          /\ IF old.k = "sender" /\ ~stream_is_dead(old.x, i) THEN Pair(old.x, x, i)
             ELSE Displace(x, i, "receiver", old) /\ UNCHANGED inbox
    /\ UNCHANGED <<peerVars, sent, notify>>

\* A mistake: the notification takes down whatever is in the slot.
NotificationAborts(i) ==
    /\ notify[i] > 0
    /\ notify' = [notify EXCEPT ![i] = @ - 1]
    /\ slot' = IF slot[i].k = "active" THEN [slot EXCEPT ![i] = Idle] ELSE slot
    /\ srv' = IF slot[i].k = "active" THEN srv \ {<<slot[i].s, i>>, <<slot[i].r, i>>} ELSE srv
    /\ UNCHANGED <<peerVars, sent, events, relay, inbox>>

\* A SendDone or SendCancel frees the slot, whichever relay it is from.
Notification(i) ==
    /\ notify[i] > 0
    /\ notify' = [notify EXCEPT ![i] = @ - 1]
    /\ slot' = IF slot[i].k = "active" THEN [slot EXCEPT ![i] = Idle] ELSE slot
    /\ UNCHANGED <<peerVars, sent, events, relay, srv, inbox>>

\* The relay returns: SendDone or SendCancel, and both streams are closed.
RelayEnds(s, r, i) ==
    /\ relay' = [relay EXCEPT ![<<s, r, i>>] = End]
    /\ notify' = [notify EXCEPT ![i] = @ + 1]
    /\ srv' = srv \ {<<s, i>>, <<r, i>>}

RelayWrites(s, r, i, x, m) ==
    /\ Say(x, i, m)
    /\ relay' = [relay EXCEPT ![<<s, r, i>>] = @ + 1]
    /\ UNCHANGED <<notify, srv>>

\* spawn_transfer_relay: the go byte to the sender; then the count, a header, the
\* chunks as they come and a sentinel to the receiver.  It ends when a write
\* meets a closed end, or the sender closes before it has written everything.
RelayStep(s, r, i) ==
    LET n == relay[<<s, r, i>>] IN
    /\ n \in 1..(End - 1)
    /\ \/ /\ n = 1
          /\ IF <<s, i>> \in cli THEN RelayWrites(s, r, i, s, "paired")
             ELSE RelayEnds(s, r, i) /\ UNCHANGED inbox
       \/ /\ n \in {2, 3, End - 1}
          /\ IF <<r, i>> \in cli
             THEN IF n = End - 1 THEN RelayEnds(s, r, i) /\ Say(r, i, "end")
                  ELSE RelayWrites(s, r, i, r, IF n = 2 THEN "count" ELSE "header")
             ELSE RelayEnds(s, r, i) /\ UNCHANGED inbox
       \/ /\ n \in 4..(End - 2)
          /\ IF pick[s] = i /\ written[s] > n - 4
             THEN IF <<r, i>> \in cli THEN RelayWrites(s, r, i, r, s)
                  ELSE RelayEnds(s, r, i) /\ UNCHANGED inbox
             ELSE /\ <<s, i>> \notin cli
                  /\ RelayEnds(s, r, i) /\ UNCHANGED inbox
    /\ UNCHANGED <<peerVars, sent, events, slot>>

-----------------------------------------------------------------------------

PeerStep(x) ==
    \/ \E i \in Sessions : x \in Senders /\ ReadGo(x, i)
    \/ \E i \in Sessions : x \in Receivers /\ ReadCount(x, i)
    \/ Write(x) \/ Receive(x)

SessionStep(i) ==
    \/ \E x \in Peers : Arrive(x, i)
    \/ HandleSendEvent(i) \/ Notification(i)

Next ==
    \/ \E x \in Peers : PeerStep(x) \/ Quit(x) \/ (\E S \in Discovered : SendCommand(x, S) \/ ReceiveCommand(x, S))
    \/ \E i \in Sessions : SessionStep(i) \/ (\E x \in Peers : Refuse(x, i))
    \/ \E s \in Senders, r \in Receivers, i \in Sessions : RelayStep(s, r, i)

Spec == Init /\ [][Next]_vars

\* Peers, session tasks and relay tasks are scheduled.
Fairness ==
    /\ \A x \in Peers : WF_vars(PeerStep(x))
    /\ \A i \in Sessions : WF_vars(SessionStep(i))
    /\ \A s \in Senders, r \in Receivers, i \in Sessions : WF_vars(RelayStep(s, r, i))

FairSpec == Spec /\ Fairness

-----------------------------------------------------------------------------
(* Properties *)

\* What a session says to a peer.
Messages == {"paired", "superseded", "busy", "count", "header", "end"} \cup Senders

Slots ==
    {Idle} \cup [k : {"sender"}, x : Senders] \cup [k : {"receiver"}, x : Receivers]
           \cup [k : {"active"}, s : Senders, r : Receivers]

TypeOK ==
    /\ pc \in [Peers -> {"out", "racing", "busy", "done", "failed"}]
    /\ pick \in [Peers -> Sessions \cup {0}]
    /\ cli \subseteq Streams /\ srv \subseteq Streams /\ sent \subseteq Streams
    /\ written \in [Senders -> 0..Size]
    /\ partial \in [Receivers -> Seq(Senders)] /\ target \in [Receivers -> Seq(Senders)]
    /\ quits \in Seq(Peers)
    /\ events \in [Sessions -> Seq(Peers)]
    /\ slot \in [Sessions -> Slots]
    /\ relay \in [Pairs -> 0..End]
    /\ notify \in [Sessions -> Nat]
    /\ inbox \in [Streams -> Seq(Messages)]

Stopped(x) == \E j \in DOMAIN quits : quits[j] = x

\* What a receiver finds under the name of the file is what was there before, or
\* the whole file of one sender: no interruption, replaced offer or second
\* relay leaves a part of a file or a mixture of two.
TargetIsWhole ==
    \A r \in Receivers : target[r] = <<>> \/ \E s \in Senders : target[r] = [j \in 1..Size |-> s]

\* A pair that has found each other in a session completes its transfer unless
\* one of the two is stopped: later offers, and the late SendDone of an earlier
\* transfer that frees a slot it no longer owns, do not disturb it.
PairedCompletes ==
    \A s \in Senders, r \in Receivers, i \in Sessions :
        (relay[<<s, r, i>>] > 0 /\ pick[s] = i /\ pick[r] = i)
            ~> (target[r] # <<>> \/ Stopped(s) \/ Stopped(r))
=============================================================================
