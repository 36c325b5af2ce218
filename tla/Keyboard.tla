------------------------------- MODULE Keyboard -------------------------------
(***************************************************************************)
(* What the user types, on its way to the shell: the escape processor of   *)
(* the client (~. ~R ~K ~# ~? ~~), its sends to the session, the queue of  *)
(* input that the session keeps while the shell does not read, and the     *)
(* writes to the PTY, which take as much as there is room for.             *)
(*                                                                         *)
(* A byte is followed by its place in what was typed.  "?" stands for the  *)
(* commands after which typing goes on (~K, ~^Z, ~#, ~?).                  *)
(***************************************************************************)
EXTENDS Integers, SequencesExt, FiniteSetsExt

CONSTANTS
    Keys,       \* the bytes that are typed
    Cap,        \* PENDING_INPUT_CAP
    PtyRoom,    \* what the PTY takes before the shell reads
    MaxTyped,   \* bound: bytes typed
    MaxDrops    \* bound: times the link goes down

VARIABLES
    typed,      \* all that was typed
    stdin,      \* places of the bytes the client has not read
    escape,     \* state of the EscapeProcessor
    seen,       \* places of the bytes the processor was given
    link,       \* "up", "down"; "left": the client has detached
    wire,       \* Data frames on their way
    pending_input, pending_input_bytes,     \* the session's queue
    pty, shell, \* in the PTY, and read by the shell
    exited,     \* the shell has gone
    lost,       \* places of bytes that were dropped on the way
    undone,     \* a ~. was not obeyed: the send before it had failed
    drops       \* times the link has gone down

vars == <<typed, stdin, escape, seen, link, wire, pending_input,
          pending_input_bytes, pty, shell, exited, lost, undone, drops>>

Init ==
    /\ typed = <<>> /\ stdin = <<>> /\ seen = <<>>
    /\ escape = "AfterNewline"
    /\ link = "up"
    /\ wire = <<>> /\ pending_input = <<>> /\ pending_input_bytes = 0
    /\ pty = <<>> /\ shell = <<>> /\ exited = FALSE
    /\ lost = {} /\ undone = FALSE /\ drops = 0

Type(b) ==
    /\ Len(typed) < MaxTyped /\ link # "left"
    /\ typed' = Append(typed, b)
    /\ stdin' = Append(stdin, Len(typed) + 1)
    /\ UNCHANGED <<escape, seen, link, wire, pending_input, pending_input_bytes,
                   pty, shell, exited, lost, undone, drops>>

-----------------------------------------------------------------------------
(* EscapeProcessor::process: p holds the actions so far, the data not yet    *)
(* flushed, the state, and the places taken; a stop ends the loop            *)

flush_pending(p) ==
    [p EXCEPT !.actions = IF p.data = <<>> THEN @ ELSE Append(@, p.data), !.data = <<>>]

Keep(p, places, state) == [p EXCEPT !.data = @ \o places, !.state = state]

Normal(p, i) == Keep(p, <<i>>, IF typed[i] = "nl" THEN "AfterNewline" ELSE "Normal")

AfterNewline(p, i) ==
    CASE typed[i] = "~" -> [flush_pending(p) EXCEPT !.state = "AfterTilde"]
      [] typed[i] = "nl" -> Keep(p, <<i>>, "AfterNewline")
      [] OTHER -> Keep(p, <<i>>, "Normal")

\* A mistake: a tilde that begins no command is forgotten.
AfterTildeForgets(p, i, tilde) ==
    CASE typed[i] = "." -> [flush_pending(p) EXCEPT !.stop = "Detach"]
      [] typed[i] = "R" -> [flush_pending(p) EXCEPT !.stop = "Reconnect", !.state = "Normal"]
      [] typed[i] = "?" -> [flush_pending(p) EXCEPT !.state = "Normal"]
      [] typed[i] = "~" -> Keep(p, <<i>>, "Normal")
      [] typed[i] = "nl" -> Keep(p, <<i>>, "AfterNewline")
      [] OTHER -> Keep(p, <<i>>, "Normal")

AfterTilde(p, i, tilde) ==
    CASE typed[i] = "." -> [flush_pending(p) EXCEPT !.stop = "Detach"]
      [] typed[i] = "R" -> [flush_pending(p) EXCEPT !.stop = "Reconnect", !.state = "Normal"]
      [] typed[i] = "?" -> [flush_pending(p) EXCEPT !.state = "Normal"]
      [] typed[i] = "~" -> Keep(p, <<i>>, "Normal")
      [] typed[i] = "nl" -> Keep(p, <<tilde, i>>, "AfterNewline")
      [] OTHER -> Keep(p, <<tilde, i>>, "Normal")

ProcessByte(p, i) ==
    IF p.stop # "No" THEN p
    ELSE LET q == [p EXCEPT !.seen = Append(@, i)]
         IN  CASE p.state = "Normal" -> Normal(q, i)
               [] p.state = "AfterNewline" -> AfterNewline(q, i)
               [] p.state = "AfterTilde" ->
                     AfterTilde(q, i, Max({k \in Range(p.seen) : typed[k] = "~"}))

process(places) ==
    flush_pending(FoldLeft(ProcessByte,
        [actions |-> <<>>, data |-> <<>>, state |-> escape, seen |-> seen, stop |-> "No"],
        places))

-----------------------------------------------------------------------------
(* The client's relay *)

\* A read of stdin: the Data actions are sent in order until one of them fails
\* (at the failed-th), and the command that stopped the processor is obeyed.
Read(n, failed) ==
    /\ link = "up" /\ n \in 1..Len(stdin)
    /\ LET p == process(SubSeq(stdin, 1, n))
           sent == SubSeq(p.actions, 1, failed - 1)
           unseen == Range(SubSeq(stdin, 1, n)) \ Range(p.seen)
       IN  /\ failed \in 1..(Len(p.actions) + 1)
           /\ failed <= Len(p.actions) => drops < MaxDrops
           /\ escape' = p.state
           /\ seen' = p.seen
           /\ wire' = wire \o sent
           /\ IF failed <= Len(p.actions)
              THEN /\ link' = "down"
                   /\ drops' = drops + 1
                   /\ undone' = (undone \/ p.stop = "Detach")
                   /\ lost' = lost \cup unseen
                        \cup UNION {Range(p.actions[k]) : k \in failed..Len(p.actions)}
              ELSE /\ link' = CASE p.stop = "Detach" -> "left"
                                [] p.stop = "Reconnect" -> "down"
                                [] OTHER -> "up"
                   /\ lost' = lost \cup unseen
                   /\ UNCHANGED <<undone, drops>>
    /\ stdin' = SubSeq(stdin, n + 1, Len(stdin))
    /\ UNCHANGED <<typed, pending_input, pending_input_bytes, pty, shell, exited>>

\* link_is_stale: the keystrokes are dropped and the link is given up.
ReadStale(n) ==
    /\ link = "up" /\ n \in 1..Len(stdin) /\ drops < MaxDrops
    /\ link' = "down"
    /\ lost' = lost \cup Range(SubSeq(stdin, 1, n))
    /\ drops' = drops + 1
    /\ stdin' = SubSeq(stdin, n + 1, Len(stdin))
    /\ UNCHANGED <<typed, escape, seen, wire, pending_input, pending_input_bytes,
                   pty, shell, undone, exited>>

\* The reconnect loop reads keys only to see whether the user gives up.
ReadWhileDown ==
    /\ link = "down" /\ stdin # <<>>
    /\ lost' = lost \cup Range(stdin)
    /\ stdin' = <<>>
    /\ UNCHANGED <<typed, escape, seen, link, wire, pending_input,
                   pending_input_bytes, pty, shell, undone, drops, exited>>

\* The old connection is gone with what the session has not read from it.
Reconnected ==
    /\ link = "down"
    /\ link' = "up"
    /\ wire' = <<>>
    /\ lost' = lost \cup UNION {Range(wire[k]) : k \in DOMAIN wire}
    /\ UNCHANGED <<typed, stdin, escape, seen, pending_input, pending_input_bytes,
                   pty, shell, undone, drops, exited>>

-----------------------------------------------------------------------------
(* The session *)

\* handle_client_frame: Data is queued, or dropped whole past the cap.
Queue ==
    /\ wire # <<>>
    /\ wire' = Tail(wire)
    /\ IF pending_input_bytes + Len(Head(wire)) > Cap
       THEN /\ lost' = lost \cup Range(Head(wire))
            /\ UNCHANGED <<pending_input, pending_input_bytes>>
       ELSE /\ pending_input' = Append(pending_input, Head(wire))
            /\ pending_input_bytes' = pending_input_bytes + Len(Head(wire))
            /\ UNCHANGED lost
    /\ UNCHANGED <<typed, stdin, escape, seen, link, pty, shell, undone, drops, exited>>

\* A mistake: a frame that was written in part is taken for written.
drain_whole_frames(n) ==
    /\ pending_input' = Tail(pending_input)
    /\ pending_input_bytes' = pending_input_bytes - n

\* drain_pending_input after a write of n bytes of the first frame.
drain_front(n) ==
    /\ pending_input' = IF n = Len(Head(pending_input))
                        THEN Tail(pending_input)
                        ELSE [pending_input EXCEPT ![1] = SubSeq(@, n + 1, Len(@))]
    /\ pending_input_bytes' = pending_input_bytes - n

Drain ==
    /\ pending_input # <<>> /\ Len(pty) < PtyRoom /\ ~exited
    /\ LET n == Min({Len(Head(pending_input)), PtyRoom - Len(pty)})
       IN  /\ pty' = pty \o SubSeq(Head(pending_input), 1, n)
           /\ drain_front(n)
    /\ UNCHANGED <<typed, stdin, escape, seen, link, wire, shell, lost, undone, drops, exited>>

\* EIO: the shell has gone, what is queued for it is dropped.
DrainFails ==
    /\ pending_input # <<>> /\ exited
    /\ lost' = lost \cup UNION {Range(pending_input[k]) : k \in DOMAIN pending_input}
    /\ pending_input' = <<>> /\ pending_input_bytes' = 0
    /\ UNCHANGED <<typed, stdin, escape, seen, link, wire, pty, shell, undone, drops, exited>>

ShellReads ==
    /\ pty # <<>> /\ ~exited
    /\ shell' = shell \o pty
    /\ pty' = <<>>
    /\ UNCHANGED <<typed, stdin, escape, seen, link, wire, pending_input,
                   pending_input_bytes, lost, undone, drops, exited>>

\* Its end of the PTY closes; what is queued meets EIO.
ShellExits ==
    /\ ~exited
    /\ exited' = TRUE
    /\ UNCHANGED <<typed, stdin, escape, seen, link, wire, pending_input,
                   pending_input_bytes, pty, shell, lost, undone, drops>>

Next ==
    \/ \E b \in Keys : Type(b)
    \/ \E n \in 1..MaxTyped : ReadStale(n) \/ \E failed \in 1..(MaxTyped + 1) : Read(n, failed)
    \/ ReadWhileDown \/ Reconnected \/ Queue \/ Drain \/ DrainFails \/ ShellReads
    \/ ShellExits

Spec == Init /\ [][Next]_vars

-----------------------------------------------------------------------------
TypeOK ==
    /\ escape \in {"Normal", "AfterNewline", "AfterTilde"}
    /\ link \in {"up", "down", "left"}
    /\ pending_input_bytes \in 0..Cap
    /\ Len(pty) <= PtyRoom
    /\ lost \subseteq DOMAIN typed

\* Which of the bytes the processor was given are meant for the shell: all but
\* a command at the beginning of a line, and the first of two tildes there.
Tilde(s, k) == typed[s[k]] = "~" /\ (k = 1 \/ typed[s[k - 1]] = "nl")
Meant(s, k) ==
    /\ Tilde(s, k) => k < Len(s) /\ typed[s[k + 1]] \notin {".", "R", "?", "~"}
    /\ k > 1 /\ Tilde(s, k - 1) => typed[s[k]] \notin {".", "R", "?"}
MeantPlaces(s) == {s[k] : k \in {i \in DOMAIN s : Meant(s, i)}}

Increasing(s) == \A i, j \in DOMAIN s : i < j => s[i] < s[j]

\* What has reached the shell, and what is on its way.
OnItsWay == shell \o pty \o FlattenSeq(pending_input) \o FlattenSeq(wire)

\* What has reached the shell, and what is still on its way, is what was typed
\* for it, in order and without a byte repeated, however it was cut into reads,
\* frames and writes; only what the client or the session dropped as a whole is
\* missing, and the session's count is that of its queue.  One case is left
\* out: a ~. that is not obeyed leaves the processor after its tilde, which
\* then goes to the shell with the next byte.
InputIntact ==
    /\ undone \/ (Increasing(OnItsWay) /\ Range(OnItsWay) = MeantPlaces(seen) \ lost)
    /\ pending_input_bytes = Len(FlattenSeq(pending_input))
=============================================================================
