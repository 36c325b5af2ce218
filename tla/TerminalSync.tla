----------------------------- MODULE TerminalSync -----------------------------
(***************************************************************************)
(* The state that a program's output sets in the terminal of the client    *)
(* and that no screen shows: private modes such as mouse reports, and the  *)
(* alternate screen.  The session follows it in everything the program     *)
(* writes (term_modes.rs, alt_screen.rs) and puts the terminal of a client *)
(* that comes back into it (send_reconnect_replay in server.rs); the       *)
(* client undoes it when it leaves (client.rs).                            *)
(*                                                                         *)
(* Output is a sequence of bytes, written in chunks that may end inside an *)
(* escape sequence.  Modes 1 (off by default) and 7 (on by default) stand  *)
(* for the sixteen that are tracked, 47 for the three numbers of the       *)
(* alternate screen.  What the program writes while a client is attached   *)
(* reaches its terminal at once: SessionStream has the wire.               *)
(***************************************************************************)
EXTENDS Integers, SequencesExt, FiniteSetsExt

CONSTANTS
    Chunks,     \* what the program may write at a time
    Cap,        \* chunks that the history holds
    MaxModes,   \* MAX_MODES_PER_SEQUENCE
    MaxNumber,  \* the largest mode number that fits
    MaxLines,   \* max_lines of the scrollback
    MaxLine,    \* MAX_LINE_BYTES of the scrollback
    MaxChunks,  \* bound: chunks written
    MaxTurns    \* bound: attaches after the first

VARIABLES
    written,    \* the chunks written since the session began
    server,     \* what the session has scanned: scanner, modes, alt screen
    scrollback, \* lines kept for a fresh viewer, and the unfinished line,
                \* each as the positions of its bytes in the stream
    link,       \* "attached", "detached"; "exited", "killed": there is no client
    rendered,   \* rendered_offset, in chunks
    term,       \* the client's terminal
    alt_screen, \* AltScreenState of the client
    stray,      \* a client has left an alternate screen it was not in
    inherited,  \* the terminal was in the alternate screen when the client began
    aligned,    \* the last replay had no gap, meant without its queries what it
                \* meant with them, and ended where the stream is in a sequence
    whole,      \* no sequence was cut in two where a replay began
    turns       \* attaches so far

vars == <<written, server, scrollback, link, rendered, term, alt_screen,
          stray, inherited, aligned, whole, turns>>

Q == INSTANCE QueryFilter WITH MaxCsi <- 64, MaxString <- 4096, Pieces <- {},
                               MaxPieces <- 0, input <- <<>>, filter <- <<>>, fed <- 0

Defaults == {7}
Tracked == {1, 7}
AltModes == {47}

-----------------------------------------------------------------------------
(* PrivateModeScanner: a record of its state, and of what it drives *)

Digit == [b \in {"1", "4", "7"} |-> CASE b = "1" -> 1 [] b = "4" -> 4 [] OTHER -> 7]
NoNumber == -1

NewScanner == [state |-> "Ground", modes |-> <<>>, partial |-> NoNumber]
NewTerminal == [scan |-> NewScanner, set |-> Defaults, alt |-> FALSE]

push_digit(s, d) ==
    LET widened == (IF s.partial = NoNumber THEN 0 ELSE s.partial) * 10 + d
    IN  IF widened > MaxNumber
        THEN [s EXCEPT !.partial = NoNumber, !.state = "Ground"]
        ELSE [s EXCEPT !.partial = widened]

end_mode_number(s) ==
    IF s.partial = NoNumber THEN s
    ELSE IF Len(s.modes) = MaxModes
    THEN [s EXCEPT !.partial = NoNumber, !.state = "Ground"]
    ELSE [s EXCEPT !.partial = NoNumber, !.modes = Append(@, s.partial)]

Changed(t, modes, is_set) ==
    LET tracked == modes \cap Tracked
    IN  [t EXCEPT !.set = IF is_set THEN @ \cup tracked ELSE @ \ tracked,
                  !.alt = IF modes \cap AltModes # {} THEN is_set ELSE @]

FullReset(t) == [t EXCEPT !.set = Defaults]

ScanByte(t, b) ==
    LET s == t.scan
        To(state) == [t EXCEPT !.scan.state = state]
        ended == end_mode_number(s)
    IN  CASE b = "esc" -> To("Esc")
          [] s.state = "Esc" /\ b = "[" -> To("Csi")
          [] s.state = "Esc" /\ b = "c" -> FullReset(To("Ground"))
          [] s.state = "Csi" /\ b = "?" ->
                [t EXCEPT !.scan = [NewScanner EXCEPT !.state = "Params"]]
          [] s.state = "Params" /\ b \in DOMAIN Digit ->
                [t EXCEPT !.scan = push_digit(s, Digit[b])]
          [] s.state = "Params" /\ b = ";" -> [t EXCEPT !.scan = ended]
          [] s.state = "Params" /\ b \in {"h", "l"} ->
                IF ended.state = "Params"
                THEN Changed(To("Ground"), Range(ended.modes), b = "h")
                ELSE To("Ground")
          [] OTHER -> To("Ground")

Scan(t, bytes) == FoldLeft(ScanByte, t, bytes)

\* The numbers of TRACKED_MODES that are in set, in the order of the table.
Numbers(set) ==
    IF set = Tracked THEN <<"1", ";", "7">> ELSE IF 1 \in set THEN <<"1">> ELSE <<"7">>

Named(set, final) ==
    IF set = {} THEN <<>> ELSE <<"esc", "[", "?">> \o Numbers(set) \o <<final>>

sync_sequence(set) == Named(Tracked \ set, "l") \o Named(set, "h")

-----------------------------------------------------------------------------
(* The stream, its history and the scrollback *)

Bytes(chunks) == FlattenSeq(chunks)
Stream == Bytes(written)
base == Max({0, Len(written) - Cap})

\* push and flush_partial: a line ends at a newline or when it is too long.
ScrollbackByte(sb, b, position) ==
    LET line == Append(sb.partial, position)
        lines == Append(sb.lines, line)
    IN  IF b = "nl" \/ Len(line) >= MaxLine
        THEN [lines |-> IF Len(lines) > MaxLines THEN Tail(lines) ELSE lines,
              partial |-> <<>>]
        ELSE [sb EXCEPT !.partial = line]

ScrollbackPush(sb, chunk) ==
    LET n == Len(Stream)
    IN  FoldLeft(LAMBDA acc, i : ScrollbackByte(acc, chunk[i], n + i),
                 sb, [i \in DOMAIN chunk |-> i])

lines_and_partial == FlattenSeq(scrollback.lines) \o scrollback.partial

Init ==
    /\ written = <<>>
    /\ server = NewTerminal
    /\ scrollback = [lines |-> <<>>, partial |-> <<>>]
    /\ link = "attached"
    /\ rendered = 0
    /\ term = NewTerminal
    /\ alt_screen = NewTerminal
    /\ stray = FALSE /\ inherited = FALSE /\ aligned = TRUE /\ whole = TRUE
    /\ turns = 0

\* PTY output, relayed to the attached client as Data.
Output(chunk) ==
    /\ Len(written) < MaxChunks
    /\ written' = Append(written, chunk)
    /\ server' = Scan(server, chunk)
    /\ scrollback' = IF server'.alt THEN scrollback ELSE ScrollbackPush(scrollback, chunk)
    /\ IF link = "attached"
       THEN /\ term' = Scan(term, chunk)
            /\ alt_screen' = Scan(alt_screen, chunk)
            /\ rendered' = rendered + 1
       ELSE UNCHANGED <<term, alt_screen, rendered>>
    /\ UNCHANGED <<link, stray, inherited, aligned, whole, turns>>

-----------------------------------------------------------------------------
(* The link goes down, the client shows a status line, and comes back *)

LinkDrops ==
    /\ link = "attached"
    /\ link' = "detached"
    /\ UNCHANGED <<written, server, scrollback, rendered, term, alt_screen,
                   stray, inherited, aligned, whole, turns>>

\* The status line goes to the terminal past the client's own tracker.
StatusLine ==
    /\ link = "detached" /\ ~alt_screen.alt
    /\ term' = Scan(term, <<"esc", "[", "m">>)
    /\ UNCHANGED <<written, server, scrollback, link, rendered, alt_screen,
                   stray, inherited, aligned, whole, turns>>

send_scrubbed(bytes) == Q!strip_queries(bytes)

LeaveAlt == <<"esc", "[", "?", "4", "7", "l">>
EnterAlt == <<"esc", "[", "?", "4", "7", "h">>

\* The bytes of the frames after Resume, for each plan of plan_replay.  The
\* restore of the cursor and the markers change no mode.
\* A mistake: the modes follow the replay.
HandoffSyncLast(plan, tail) ==
    CASE plan = "AltRedraw" -> sync_sequence(server.set) \o EnterAlt
      [] plan = "Truncated" -> LeaveAlt \o send_scrubbed(tail) \o sync_sequence(server.set)
      [] OTHER -> send_scrubbed(tail) \o sync_sequence(server.set)

Handoff(plan, tail) ==
    CASE plan = "AltRedraw" -> sync_sequence(server.set) \o EnterAlt
      [] plan = "Truncated" -> sync_sequence(server.set) \o LeaveAlt \o send_scrubbed(tail)
      [] OTHER -> sync_sequence(server.set) \o send_scrubbed(tail)

\* send_reconnect_replay, to a terminal and the tracker of its client.
send_reconnect_replay(is_fresh, terminal, tracker) ==
    LET plan == CASE server.alt -> "AltRedraw"
                  [] ~server.alt /\ is_fresh -> "Fresh"
                  [] ~server.alt /\ ~is_fresh /\ rendered < base -> "Truncated"
                  [] OTHER -> "Clean"
        stream == Stream
        total == Len(stream)
        seen == Bytes(SubSeq(written, 1, IF plan = "Truncated" THEN base ELSE rendered))
        shown == CASE plan = "AltRedraw" -> <<>>
                   [] plan = "Fresh" -> lines_and_partial
                   [] OTHER -> [i \in 1..(total - Len(seen)) |-> Len(seen) + i]
        tail == [i \in DOMAIN shown |-> stream[shown[i]]]
        notice == Handoff(plan, tail)
    IN  /\ term' = Scan(terminal, notice)
        /\ alt_screen' = Scan(tracker, notice)
        /\ rendered' = Len(written)
        /\ scrollback' = IF plan = "Fresh" THEN [scrollback EXCEPT !.lines = <<>>]
                                           ELSE scrollback
        /\ aligned' =
              /\ Scan(NewTerminal, tail).scan.state = server.scan.state
              /\ \A set \in SUBSET Tracked, alt \in BOOLEAN :
                    LET t == [NewTerminal EXCEPT !.set = set, !.alt = alt]
                    IN  Scan(t, tail) = Scan(t, send_scrubbed(tail))
              /\ \A i \in DOMAIN shown : shown[i] = total - Len(shown) + i
        /\ whole' = (plan = "Clean" =>
              /\ whole /\ aligned
              /\ Scan(NewTerminal, seen).scan.state = "Ground")

\* The same client reconnects: it counts on from what it has rendered.
Reconnect ==
    /\ link = "detached" /\ turns < MaxTurns
    /\ send_reconnect_replay(FALSE, term, alt_screen)
    /\ link' = "attached"
    /\ turns' = turns + 1
    /\ UNCHANGED <<written, server, stray, inherited>>

\* Another client process, on the same terminal or on another one.
Attach(terminal) ==
    /\ link \in {"exited", "killed"} /\ turns < MaxTurns
    /\ send_reconnect_replay(TRUE, terminal, NewTerminal)
    /\ inherited' = terminal.alt
    /\ stray' = FALSE
    /\ link' = "attached"
    /\ turns' = turns + 1
    /\ UNCHANGED <<written, server>>

-----------------------------------------------------------------------------
(* The client ends *)

\* A mistake: the tracker is not told of the leave.
leave_prefix_unnoted(goodbye) ==
    IF goodbye /\ alt_screen.alt
    THEN [bytes |-> LeaveAlt, after |-> alt_screen]
    ELSE [bytes |-> <<>>, after |-> alt_screen]

\* leave_prefix and note_left: what goes before a message on the main screen.
leave_prefix(goodbye) ==
    IF goodbye /\ alt_screen.alt
    THEN [bytes |-> LeaveAlt, after |-> [alt_screen EXCEPT !.alt = FALSE, !.scan = NewScanner]]
    ELSE [bytes |-> <<>>, after |-> alt_screen]

terminal_handback_sequence(in_alt_screen) ==
    (IF in_alt_screen THEN LeaveAlt ELSE <<>>) \o <<"esc", "[", "m">>
        \o sync_sequence(Defaults)

\* With a message (Detached, ServerShutdown, ~.) or without one; at last
\* TerminalResetGuard is dropped.
Exit(goodbye) ==
    /\ link \in {"attached", "detached"}
    /\ LET left == leave_prefix(goodbye)
           told == Scan(term, left.bytes)
       IN  /\ term' = Scan(told, terminal_handback_sequence(left.after.alt))
           /\ alt_screen' = left.after
           /\ stray' = \/ left.bytes # <<>> /\ ~term.alt
                       \/ left.after.alt /\ ~told.alt
    /\ link' = "exited"
    /\ UNCHANGED <<written, server, scrollback, rendered, inherited, aligned, whole, turns>>

\* The client is killed and cleans nothing up.
Killed ==
    /\ link \in {"attached", "detached"}
    /\ link' = "killed"
    /\ UNCHANGED <<written, server, scrollback, rendered, term, alt_screen,
                   stray, inherited, aligned, whole, turns>>

Next ==
    \/ \E chunk \in Chunks : Output(chunk)
    \/ LinkDrops \/ StatusLine \/ Reconnect
    \/ Attach(term) \/ Attach(NewTerminal)
    \/ Exit(TRUE) \/ Exit(FALSE) \/ Killed

Spec == Init /\ [][Next]_vars

-----------------------------------------------------------------------------
TypeOK ==
    /\ link \in {"attached", "detached", "exited", "killed"}
    /\ rendered \in 0..Len(written)
    /\ {term.set, server.set, alt_screen.set} \subseteq SUBSET Tracked
    /\ turns \in 0..MaxTurns

\* The terminal of an attached client has the modes the program has asked for,
\* whatever it had before and whatever part of the stream it has missed, as
\* long as the replay ends where the stream does (send_resume: the sync goes
\* before the replay); and the screen the program is on, if no sequence was
\* cut in two when the link dropped.
TerminalAgrees ==
    link = "attached" /\ aligned =>
        /\ term.set = server.set
        /\ whole /\ ~inherited => term.alt = server.alt

\* A client that exits leaves the terminal on the main screen in its default
\* modes, whatever the program had set and wherever the stream was cut, and
\* never sends a leave to a terminal that is on the main screen
\* (TerminalResetGuard, leave_prefix).
HandedBack ==
    link = "exited" =>
        /\ term.set = Defaults
        /\ ~inherited => ~term.alt /\ ~stray
=============================================================================
