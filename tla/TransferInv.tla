----------------------------- MODULE TransferInv -----------------------------
(***************************************************************************)
(* The inductive invariant behind TargetIsWhole: in each session a peer is *)
(* in one place at a time and never comes back, so that one relay at most  *)
(* ever writes to a receiver; and what that relay wrote is, from the first *)
(* byte on, the file of its sender.                                        *)
(***************************************************************************)
EXTENDS Transfer

\* The peers are distinct from each other and from what sessions say; 0 is no
\* session; the file is not empty.
PeersAssumption ==
    /\ Senders \cap Receivers = {}
    /\ Peers \cap {"paired", "superseded", "busy", "count", "header", "end"} = {}
    /\ 0 \notin Sessions
    /\ Size \in Nat \ {0}

\* The places of a peer in a session.
Queued(x, i) == \E j \in DOMAIN events[i] : events[i][j] = x
Waits(x, i) == slot[i].k \in {"sender", "receiver"} /\ slot[i].x = x
Relayed(x, i) == \E s \in Senders, r \in Receivers : relay[<<s, r, i>>] > 0 /\ x \in {s, r}

\* It has one place: it offers itself once, is queued once and leaves the slot
\* for a relay or for good.
PlaceInv(x, i) ==
    /\ pc[x] = "out" =>
          <<x, i>> \notin sent /\ ~Queued(x, i) /\ ~Waits(x, i) /\ ~Relayed(x, i)
    /\ <<x, i>> \in sent => ~Queued(x, i) /\ ~Waits(x, i) /\ ~Relayed(x, i)
    /\ Queued(x, i) => ~Waits(x, i) /\ ~Relayed(x, i)
    /\ Waits(x, i) => ~Relayed(x, i)

QueueInv(i) ==
    \A j, k \in DOMAIN events[i] : events[i][j] = events[i][k] => j = k

\* A receiver has one sender in a session.
SenderInv(r, i) ==
    /\ \A s, t \in Senders : relay[<<s, r, i>>] > 0 /\ relay[<<t, r, i>>] > 0 => s = t
    /\ inbox[<<r, i>>] # <<>> \/ (pc[r] = "busy" /\ pick[r] = i) => Relayed(r, i)

\* What the relay of sender s writes to its receiver, one after the other.
ToReceiver(s, j) ==
    CASE j = 1 -> "count"
      [] j = 2 -> "header"
      [] j = Size + 3 -> "end"
      [] OTHER -> s

\* The chunks of the file among the first a of them.
FileOf(s, a) == [j \in 1..(IF a < 2 THEN 0 ELSE a - 2) |-> s]

\* The receiver has read a of them, and what is in its stream are the next ones.
Position(s, r, i, a) ==
    LET in == inbox[<<r, i>>]  n == relay[<<s, r, i>>] IN
    /\ a + Len(in) <= Size + 3
    /\ \A j \in DOMAIN in : in[j] = ToReceiver(s, a + j)
    /\ n = 1 => a + Len(in) = 0
    /\ n \in 2..(End - 1) => a + Len(in) = n - 2
    /\ pc[r] = "racing" => a = 0
    /\ pc[r] = "busy" /\ pick[r] = i => a \in 1..(Size + 2) /\ partial[r] = FileOf(s, a)

StreamInv(s, r, i) ==
    relay[<<s, r, i>>] > 0 => \E a \in 0..(Size + 3) : Position(s, r, i, a)

\* Nothing is received before the race is won; and a busy peer has won it.
ReceiverInv(r) ==
    /\ pc[r] \in {"out", "racing"} => partial[r] = <<>>
    /\ pc[r] = "busy" => pick[r] \in Sessions

IInv ==
    /\ TypeOK
    /\ \A i \in Sessions : QueueInv(i)
    /\ \A x \in Peers, i \in Sessions : PlaceInv(x, i)
    /\ \A r \in Receivers, i \in Sessions : SenderInv(r, i)
    /\ \A s \in Senders, r \in Receivers, i \in Sessions : StreamInv(s, r, i)
    /\ \A r \in Receivers : ReceiverInv(r)
    /\ TargetIsWhole
=============================================================================
