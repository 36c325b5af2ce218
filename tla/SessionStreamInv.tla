-------------------------- MODULE SessionStreamInv --------------------------
(***************************************************************************)
(* The inductive invariant behind the safety properties of SessionStream.  *)
(***************************************************************************)
EXTENDS SessionStream

\* The ring's chunk starts lie between base and total; the shell writes nothing
\* before the first client, and drain_pty_final runs only at the end.
RingInv ==
    /\ base <= total
    /\ \A s \in starts : base <= s /\ s <= total
    /\ phase = "birth" => total = 0
    /\ phase # "ended" => fin = 0

\* Connections are numbered in the order the daemon grants them; the queue
\* holds later ones than the task serves, and nothing was sent on them yet.
QueueInv ==
    /\ framed <= nconns
    /\ phase \in {"attached", "replay", "detached"} => framed # NoConn
    /\ \A k \in Conns : k > nconns => wire[k] = <<>>
    /\ \A i \in DOMAIN client_rx :
          /\ client_rx[i].conn <= nconns
          /\ framed < client_rx[i].conn
          /\ wire[client_rx[i].conn] = <<>>
          /\ \A j \in DOMAIN client_rx : i < j => client_rx[i].conn < client_rx[j].conn

\* A connection has one client, which reported its offset when it was handed
\* over and has rendered nothing since.
ConnInv ==
    \A c \in Clients :
        /\ client[c] = "live" <=> connOf[c] # NoConn
        /\ connOf[c] <= nconns
        /\ \A d \in Clients : connOf[c] = connOf[d] /\ connOf[c] # NoConn => c = d
        /\ \A i \in DOMAIN client_rx :
              connOf[c] = client_rx[i].conn => client_rx[i].offset = rendered[c]

\* Frame f continues a stream of which the client has reached offset p.
Fits(p, f) ==
    /\ f.kind = "Resume" => f.at = f.hi
    /\ f.kind = "Data" => f.lo = p /\ f.at = f.hi
    /\ f.kind \notin {"Resume", "Data"} => f.at = p
    /\ f.lo <= f.hi
    /\ f.hi <= f.at
    /\ p <= f.at

\* The frames w take a client at offset p from one to the next.
Chained(p, w) ==
    \A i \in DOMAIN w : Fits(IF i = 1 THEN p ELSE w[i - 1].at, w[i])

\* Where a client at p will be once the frames w have arrived.
EndOf(p, w) == IF w = <<>> THEN p ELSE w[Len(w)].at

\* No frame of w takes the client past m.
Within(w, m) == \A i \in DOMAIN w : w[i].at <= m

\* The bytes the frames w carry start at q or later, come in order and are
\* below u.
Ordered(q, w, u) ==
    /\ q <= u
    /\ \A i \in DOMAIN w : w[i].lo < w[i].hi => q <= w[i].lo /\ w[i].hi <= u
    /\ \A i, j \in DOMAIN w :
          i < j /\ w[i].lo < w[i].hi /\ w[j].lo < w[j].hi => w[i].hi <= w[j].lo

\* The task serves client c.
Serves(c) == connOf[c] = framed /\ phase \in {"attached", "replay"}

\* The first byte of the stream the task has yet to send to the client it
\* serves.
Upcoming ==
    CASE phase = "replay" /\ replay.stage \in {"resume", "marker"} -> replay.from
      [] phase = "replay" /\ replay.stage = "chunks" -> replay.pos
      [] OTHER -> total

ReplayInv ==
    phase = "replay" =>
        /\ replay.plan # "None"
        /\ replay.from <= replay.pos
        /\ replay.plan \in {"Clean", "Truncated"} => replay.pos <= total
        /\ replay.stage \in {"marker", "chunks"} => replay.plan \in {"Clean", "Truncated"}
        /\ replay.stage = "resume" /\ replay.plan = "Clean" => replay.pos = replay.from

\* Client c's stream: what is in flight continues what it has rendered, and the
\* task goes on where the frames in flight end.
StreamInv(c) ==
    LET w == wire[connOf[c]]
    IN  /\ cursor[c] <= rendered[c]
        /\ rendered[c] <= total + fin
        /\ connOf[c] # NoConn =>
              /\ Chained(rendered[c], w)
              /\ Within(w, total + fin)
              /\ Ordered(cursor[c], w, IF Serves(c) THEN Upcoming ELSE total + fin)
              /\ Serves(c) /\ phase = "replay" /\ replay.stage = "resume" =>
                    w = <<>> /\ replay.from = rendered[c]
              /\ Serves(c) /\ link[framed] = "up" /\ ~(phase = "replay" /\ replay.stage = "resume") =>
                    EndOf(rendered[c], w) = total

IInv ==
    TypeOK /\ RingInv /\ QueueInv /\ ConnInv /\ ReplayInv /\ (\A c \in Clients : StreamInv(c))

-----------------------------------------------------------------------------
(* On top of IInv: the ring keeps whole reads, and a client whose replays  *)
(* were not cut short misses no byte.                                      *)

\* Every retained byte belongs to one read, none of whose bytes was evicted.
ReadsKept ==
    \A o \in base..(total - 1) : \E s \in starts, n \in Chunks :
        /\ s <= o /\ o < s + n
        /\ \A e \in starts \cup {total} : e <= s \/ e >= s + n

\* Some frame of w before the k-th carries the byte p.
CarriedBefore(w, p, k) == \E i \in DOMAIN w : i < k /\ w[i].lo <= p /\ p < w[i].hi

\* A frame of w that carries bytes comes after all the bytes from q to them.
Gapless(q, w) ==
    \A i \in DOMAIN w : w[i].lo < w[i].hi =>
        \A p \in q..(w[i].lo - 1) : CarriedBefore(w, p, i)

\* The frames of w carry all the bytes from q to u.
Covers(q, w, u) == \A p \in q..(u - 1) : CarriedBefore(w, p, Len(w) + 1)

AtResume == phase = "replay" /\ replay.stage = "resume"

\* Client c was shown, or told of, all it has counted, unless the rest is on
\* its way; the task goes on where that ends.
Unbroken(c) ==
    LET w == wire[connOf[c]]
    IN  /\ lost[c] = {}
        /\ connOf[c] = NoConn => cursor[c] = rendered[c]
        /\ connOf[c] # NoConn =>
              /\ \A i \in DOMAIN client_rx :
                    connOf[c] = client_rx[i].conn => cursor[c] = rendered[c]
              /\ Gapless(cursor[c], w)
              /\ Serves(c) /\ AtResume => cursor[c] = rendered[c]
              /\ Serves(c) /\ link[framed] = "up" => Covers(cursor[c], w, Upcoming)

UnbrokenInv == \A c \in Clients : ~interrupted[c] => Unbroken(c)
=============================================================================
