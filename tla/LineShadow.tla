------------------------------ MODULE LineShadow ------------------------------
(***************************************************************************)
(* line_shadow.rs: where the cursor stands in its line and how text is     *)
(* painted, found by reading the retained output again.  A client that has *)
(* shown a status line gets its cursor back from it (cursor_restore in     *)
(* server.rs).  The history may have lost its oldest bytes, so the reading *)
(* may begin in the middle of a line or of a sequence.                     *)
(*                                                                         *)
(* The program writes operations; a terminal, which is not part of the     *)
(* code, carries them out, and the shadow reads their bytes.  Bytes are    *)
(* named as they are written, "sep" is the semicolon between parameters,   *)
(* "u" and "cont" are those of a wide character.                           *)
(***************************************************************************)
EXTENDS Integers, SequencesExt, FiniteSetsExt

CONSTANTS
    Cols,       \* the width of the terminal, 0 if it is unknown
    MaxSgr,     \* MAX_SGR_SEGMENTS
    MaxCsi,     \* MAX_CSI_BYTES
    Ops,        \* the operations the program may write
    MaxOps      \* bound: operations written

VARIABLES
    term,       \* the terminal: column, wrap pending, autowrap, attributes, saved
    shadow,     \* the LineShadow
    reading,    \* the shadow has begun to read
    placed,     \* the program has said since then which column it is in
    painted,    \* and has begun its attributes anew
    marked,     \* placed and painted, when the position was last saved
    written     \* operations so far

vars == <<term, shadow, reading, placed, painted, marked, written>>

Digits == [d \in {"0", "1", "2", "3", "5", "7", "8"} |->
             CASE d = "0" -> 0 [] d = "1" -> 1 [] d = "2" -> 2
               [] d = "3" -> 3 [] d = "5" -> 5 [] d = "7" -> 7 [] OTHER -> 8]
Controls == {"esc", "cr", "bs", "tab", "lf", "bel"}
CsiBytes == {"sep", "?", "$"} \cup DOMAIN Digits
Finals == {"m", "G", "C", "D", "H", "E", "h", "l", "K"}

\* A field that can be parsed has nothing but digits.
IsNumber(field) == field # <<>> /\ Range(field) \subseteq DOMAIN Digits
Value(field) == FoldLeft(LAMBDA v, d : 10 * v + Digits[d], 0, field)

\* split(';'): a semicolon begins a field, another byte goes to the last one.
Split(fields, b) ==
    IF b = "sep" THEN Append(fields, <<>>)
                 ELSE [fields EXCEPT ![Len(fields)] = Append(@, b)]
Fields(s) == FoldLeft(Split, <<<<>>>>, s)

nth_param(params, idx, default) ==
    IF idx \in DOMAIN Fields(params) /\ IsNumber(Fields(params)[idx])
    THEN Value(Fields(params)[idx])
    ELSE default

-----------------------------------------------------------------------------
(* The shadow *)

new == [col |-> 0, autowrap |-> TRUE, sgr |-> <<>>, saved |-> <<>>, state |-> "Ground",
        csi |-> <<>>, overflow |-> FALSE, utf8 |-> 0]

Clamp(col) == IF Cols > 0 THEN Min({col, Cols - 1}) ELSE col
Back(col, n) == Max({0, col - n})

\* A mistake: a wide glyph is split over the margin instead of wrapping whole.
advance_split(s, w) ==
    CASE Cols = 0 -> [s EXCEPT !.col = @ + w]
      [] Cols > 0 /\ s.autowrap ->
            [s EXCEPT !.col = Min({(IF @ >= Cols THEN 0 ELSE @) + w, Cols})]
      [] OTHER -> [s EXCEPT !.col = Min({@ + w, Cols - 1})]

advance(s, w) ==
    CASE Cols = 0 -> [s EXCEPT !.col = @ + w]
      [] Cols > 0 /\ s.autowrap ->
            [s EXCEPT !.col = Min({(IF @ + w > Cols THEN 0 ELSE @) + w, Cols})]
      [] OTHER -> [s EXCEPT !.col = Min({@ + w, Cols - 1})]

\* "u" leads a wide character of three bytes, "cont" continues it; a lead or a
\* continuation that stands alone counts one column, and a lead that is
\* interrupted counts none.
printable(s, b) ==
    CASE b = "cont" /\ s.utf8 = 1 -> advance([s EXCEPT !.utf8 = 0], 2)
      [] b = "cont" /\ s.utf8 > 1 -> [s EXCEPT !.utf8 = @ - 1]
      [] b = "u" -> [s EXCEPT !.utf8 = 2]
      [] OTHER -> advance([s EXCEPT !.utf8 = 0], 1)

ground(s, b) ==
    LET t == [s EXCEPT !.utf8 = 0]
    IN  CASE b = "esc" -> [t EXCEPT !.state = "Esc"]
          [] b = "cr" -> [t EXCEPT !.col = 0]
          [] b = "bs" -> [t EXCEPT !.col = Back(@, 1)]
          [] b = "tab" -> [t EXCEPT !.col = Clamp((@ \div 8) * 8 + 8)]
          [] b \in Controls \ {"esc", "cr", "bs", "tab"} -> t
          [] OTHER -> printable(s, b)

esc(s, b) ==
    LET t == [s EXCEPT !.state = "Ground"]
    IN  CASE b = "[" -> [t EXCEPT !.csi = <<>>, !.overflow = FALSE, !.state = "Csi"]
          [] b = "]" -> [t EXCEPT !.state = "StringBody"]
          [] b = "7" -> [t EXCEPT !.saved = <<s.col, s.sgr>>]
          [] b = "8" /\ s.saved # <<>> -> [t EXCEPT !.col = s.saved[1], !.sgr = s.saved[2]]
          [] b = "c" -> [t EXCEPT !.col = 0, !.autowrap = TRUE, !.sgr = <<>>, !.saved = <<>>]
          [] b = "E" -> [t EXCEPT !.col = 0]
          [] b = "(" -> [t EXCEPT !.state = "EscIntermediate"]
          [] OTHER -> t

push_sgr(sgr, segment) ==
    Append(IF Len(sgr) >= MaxSgr THEN <<>> ELSE sgr, segment)

\* A mistake: the numbers of an extended color are read one by one.
SegmentAlone(fields, i) == 1

\* How many fields the segment that begins at field i has: an extended color
\* takes its numbers along, which may be 0.
Segment(fields, i) ==
    LET length == CASE i = Len(fields) -> 1
                    [] i < Len(fields) /\ fields[i + 1] = <<"5">> -> 3
                    [] i < Len(fields) /\ fields[i + 1] = <<"2">> -> 5
                    [] OTHER -> 1
    IN  IF Value(fields[i]) \in {38, 48, 58} THEN Min({length, Len(fields) - i + 1}) ELSE 1

\* An empty field is a 0.
IsReset(field) == field = <<>> \/ (IsNumber(field) /\ Value(field) = 0)

\* Field i, unless it is part of the segment before.
Take(fields, acc, i) ==
    IF i < acc.next THEN acc
    ELSE IF IsReset(fields[i]) THEN [sgr |-> <<>>, next |-> i + 1]
    ELSE IF ~IsNumber(fields[i]) THEN [acc EXCEPT !.next = i + 1]
    ELSE [sgr |-> push_sgr(acc.sgr, SubSeq(fields, i, i + Segment(fields, i) - 1)),
          next |-> i + Segment(fields, i)]

apply_sgr(sgr, params) ==
    LET fields == Fields(params)
    IN  FoldLeft(LAMBDA acc, i : Take(fields, acc, i), [sgr |-> sgr, next |-> 1],
                 [i \in DOMAIN fields |-> i]).sgr

csi_dispatch(s, final) ==
    LET params == s.csi
        t == [s EXCEPT !.csi = <<>>]
    IN  IF "$" \in Range(params) THEN t
        ELSE IF IsPrefix(<<"?">>, params)
        THEN IF final \in {"h", "l"} /\ <<"7">> \in Range(Fields(Tail(params)))
             THEN [t EXCEPT !.autowrap = (final = "h")]
             ELSE t
        ELSE
        CASE final = "m" -> [t EXCEPT !.sgr = apply_sgr(@, params)]
          [] final = "G" -> [t EXCEPT !.col = Clamp(Back(nth_param(params, 1, 1), 1))]
          [] final = "C" -> [t EXCEPT !.col = Clamp(@ + Max({1, nth_param(params, 1, 1)}))]
          [] final = "D" -> [t EXCEPT !.col = Back(@, Max({1, nth_param(params, 1, 1)}))]
          [] final = "H" -> [t EXCEPT !.col = Clamp(Back(nth_param(params, 2, 1), 1))]
          [] final = "E" -> [t EXCEPT !.col = 0]
          [] OTHER -> t

csi_byte(s, b) ==
    CASE b \in CsiBytes ->
            IF Len(s.csi) < MaxCsi THEN [s EXCEPT !.csi = Append(@, b)]
                                   ELSE [s EXCEPT !.overflow = TRUE]
      [] b = "esc" -> [s EXCEPT !.state = "Esc"]
      [] b \in (Controls \ {"esc"}) \cup {"u", "cont"} -> s
      [] OTHER -> [(IF s.overflow THEN s ELSE csi_dispatch(s, b)) EXCEPT !.state = "Ground"]

step(s, b) ==
    CASE s.state = "Ground" -> ground(s, b)
      [] s.state = "Esc" -> esc(s, b)
      [] s.state = "EscIntermediate" -> [s EXCEPT !.state = "Ground"]
      [] s.state = "Csi" -> csi_byte(s, b)
      [] s.state = "StringBody" ->
            [s EXCEPT !.state = CASE b = "bel" -> "Ground"
                                  [] b = "esc" -> "StringEsc"
                                  [] OTHER -> "StringBody"]
      [] s.state = "StringEsc" ->
            [s EXCEPT !.state = IF b = "\\" THEN "Ground" ELSE "StringBody"]

scan(s, bytes) == FoldLeft(step, s, bytes)

\* restore_sequence: a column, then a reset and the segments in their order.
restore_column == Clamp(shadow.col)

-----------------------------------------------------------------------------
(* The terminal, and the bytes of each operation *)

Csi(params, final) == <<"esc", "[">> \o params \o <<final>>
Encode(op) ==
    CASE op = "print" -> <<"x">>
      [] op = "wide" -> <<"u", "cont", "cont">>
      [] op = "return" -> <<"cr">>
      [] op = "backspace" -> <<"bs">>
      [] op = "tab" -> <<"tab">>
      [] op = "newline" -> <<"lf">>
      [] op = "next_line" -> <<"esc", "E">>
      [] op = "column2" -> Csi(<<"2">>, "G")
      [] op = "home" -> Csi(<<>>, "H")
      [] op = "right2" -> Csi(<<"2">>, "C")
      [] op = "left" -> Csi(<<>>, "D")
      [] op = "wrap_off" -> Csi(<<"?", "7">>, "l")
      [] op = "wrap_on" -> Csi(<<"?", "7">>, "h")
      [] op = "save" -> <<"esc", "7">>
      [] op = "restore" -> <<"esc", "8">>
      [] op = "reset" -> <<"esc", "c">>
      [] op = "plain" -> Csi(<<>>, "m")
      [] op = "bold" -> Csi(<<"1">>, "m")
      [] op = "black" -> Csi(<<"3", "5", "sep", "3", "8", "sep", "5", "sep", "0">>, "m")
      [] op = "title" -> <<"esc", "]", "x", "cr", "bel">>
      [] op = "charset" -> <<"esc", "(", "x">>

Plain == {}
\* What the segments the shadow has kept make of the attributes.
Painted(segments) == {segments[i] : i \in DOMAIN segments}

Glyph(t, w) ==
    LET full == t.autowrap /\ (t.wrap \/ t.col + w > Cols)
        from == IF full THEN 0 ELSE t.col
    IN  [t EXCEPT !.col = Min({from + w, Cols - 1}),
                  !.wrap = t.autowrap /\ from + w >= Cols]
Move(t, col) == [t EXCEPT !.col = Min({Max({0, col}), Cols - 1}), !.wrap = FALSE]

Perform(t, op) ==
    CASE op = "print" -> Glyph(t, 1)
      [] op = "wide" -> Glyph(t, 2)
      [] op \in {"return", "next_line", "home"} -> Move(t, 0)
      [] op \in {"backspace", "left"} -> Move(t, t.col - 1)
      [] op = "tab" -> Move(t, (t.col \div 8) * 8 + 8)
      [] op = "column2" -> Move(t, 1)
      [] op = "right2" -> Move(t, t.col + 2)
      [] op = "wrap_off" -> [t EXCEPT !.autowrap = FALSE]
      [] op = "wrap_on" -> [t EXCEPT !.autowrap = TRUE]
      [] op = "save" -> [t EXCEPT !.saved = <<t.col, t.wrap, t.attrs, t.count>>]
      [] op = "restore" /\ t.saved # <<>> ->
            [t EXCEPT !.col = t.saved[1], !.wrap = t.saved[2], !.attrs = t.saved[3],
                      !.count = t.saved[4]]
      [] op = "reset" -> [col |-> 0, wrap |-> FALSE, autowrap |-> TRUE, attrs |-> Plain,
                          count |-> 0, saved |-> <<>>]
      [] op = "plain" -> [t EXCEPT !.attrs = Plain, !.count = 0]
      [] op = "bold" -> [t EXCEPT !.attrs = @ \cup {<<<<"1">>>>}, !.count = @ + 1]
      [] op = "black" -> [t EXCEPT !.attrs = @ \cup {<<<<"3", "5">>>>,
                                                     <<<<"3", "8">>, <<"5">>, <<"0">>>>},
                                   !.count = @ + 2]
      [] OTHER -> t

NewTerminal == Perform([saved |-> <<>>], "reset")

-----------------------------------------------------------------------------
Init ==
    /\ term = NewTerminal
    /\ shadow = new
    /\ reading \in BOOLEAN
    /\ placed = reading /\ painted = reading /\ marked = <<reading, reading>>
    /\ written = 0

\* The terminal's column is known again after these, its attributes after those.
Places == {"return", "next_line", "home", "column2", "reset"}
Paints == {"plain", "reset"}
Restores(op) == op = "restore" /\ term.saved # <<>>
\* The shadow takes the position after the last column for a column of its own.
OneOff(op) == op \in {"backspace", "left"} /\ term.wrap

\* The program writes an operation, and the shadow reads its bytes.
Write(op) ==
    /\ reading /\ written < MaxOps
    /\ term' = Perform(term, op)
    /\ shadow' = scan(shadow, Encode(op))
    /\ placed' = /\ \/ op \in Places
                    \/ IF Restores(op) THEN marked[1] ELSE placed /\ ~OneOff(op)
                 /\ shadow'.autowrap = term'.autowrap
    /\ painted' = (op \in Paints \/ IF Restores(op) THEN marked[2] ELSE painted)
    /\ marked' = IF op = "save" THEN <<placed, painted>> ELSE marked
    /\ written' = written + 1
    /\ UNCHANGED reading

\* An operation whose first bytes the history has lost: the reading begins
\* with the rest of it, or after it.
Evicted(op, kept) ==
    /\ ~reading /\ written < MaxOps
    /\ term' = Perform(term, op)
    /\ IF kept > 0
       THEN /\ kept < Len(Encode(op))
            /\ reading' = TRUE
            /\ shadow' = scan(shadow, SubSeq(Encode(op), Len(Encode(op)) - kept + 1,
                                             Len(Encode(op))))
       ELSE reading' \in BOOLEAN /\ UNCHANGED shadow
    /\ written' = written + 1
    /\ UNCHANGED <<placed, painted, marked>>

Next == \E op \in Ops : Write(op) \/ \E kept \in 0..2 : Evicted(op, kept)

Spec == Init /\ [][Next]_vars

-----------------------------------------------------------------------------
TypeOK ==
    /\ shadow.col \in 0..(Cols + 8)
    /\ Len(shadow.sgr) <= MaxSgr
    /\ {reading, placed, painted} \subseteq BOOLEAN

\* The cursor goes back to the column the terminal had it in, through wraps,
\* wide characters, tabs, saved positions and the edges of the screen, and the
\* attributes are the ones it painted with, even when the reading began in the
\* middle of the output, from the first operation that says where the line
\* begins or resets the attributes (restore_sequence, cursor_restore).
CursorRestored ==
    /\ placed => restore_column = term.col
    /\ painted /\ term.count <= MaxSgr => Painted(shadow.sgr) = term.attrs

-----------------------------------------------------------------------------
(* The inductive invariant behind CursorRestored: between two operations   *)
(* the shadow is inside no sequence, its column is the one after a         *)
(* terminal's last one exactly while that has a wrap pending, and what     *)
(* each of the two has saved agrees in the same way.                       *)

Operations ==
    {"print", "wide", "return", "backspace", "tab", "newline", "next_line",
     "column2", "home", "right2", "left", "wrap_off", "wrap_on", "save",
     "restore", "reset", "plain", "bold", "black", "title", "charset"}

\* The longest parameters of an operation have nine bytes.
LineShadowAssumption ==
    /\ Cols \in Nat \ {0}
    /\ MaxSgr \in Nat \ {0}
    /\ MaxCsi \in Nat /\ MaxCsi >= 9
    /\ Ops \subseteq Operations
    /\ MaxOps \in Nat

Segments == Seq(Seq(Seq(CsiBytes)))

Shadows ==
    [col : Nat, autowrap : BOOLEAN, sgr : Segments,
     saved : {<<>>} \cup (Nat \X Segments),
     state : {"Ground", "Esc", "EscIntermediate", "Csi", "StringBody", "StringEsc"},
     csi : Seq(CsiBytes), overflow : BOOLEAN, utf8 : Nat]

Attributes == SUBSET Seq(Seq(CsiBytes))
Positions == (0..(Cols - 1)) \X BOOLEAN \X Attributes \X Nat
Terminals ==
    [col : 0..(Cols - 1), wrap : BOOLEAN, autowrap : BOOLEAN, attrs : Attributes,
     count : Nat, saved : {<<>>} \cup Positions]

Types ==
    /\ term \in Terminals /\ shadow \in Shadows
    /\ reading \in BOOLEAN /\ placed \in BOOLEAN /\ painted \in BOOLEAN
    /\ marked \in BOOLEAN \X BOOLEAN
    /\ written \in 0..MaxOps

\* A column of the shadow for one of the terminal.
SameColumn(c, col, wrap) == c = IF wrap THEN Cols ELSE col

\* The segments of the shadow for what the terminal paints with, unless there
\* have been more than the shadow keeps.
SamePaint(sgr, attrs, count) ==
    count <= MaxSgr => Len(sgr) = count /\ Painted(sgr) = attrs

\* What the shadow has while it reads nothing, between two operations, and ever.
ShadowHere ==
    /\ ~reading => shadow = new /\ ~placed /\ ~painted /\ marked = <<FALSE, FALSE>>
    /\ shadow.state = "Ground" /\ shadow.utf8 = 0
    /\ shadow.col <= Cols /\ Len(shadow.sgr) <= MaxSgr
    /\ shadow.saved # <<>> => shadow.saved[1] <= Cols /\ Len(shadow.saved[2]) <= MaxSgr

\* A wrap is pending in the last column only.
WrapHere ==
    /\ term.wrap => term.col = Cols - 1
    /\ term.saved # <<>> /\ term.saved[2] => term.saved[1] = Cols - 1

PlaceHere ==
    placed => /\ SameColumn(shadow.col, term.col, term.wrap)
              /\ shadow.autowrap = term.autowrap

PaintHere == painted => SamePaint(shadow.sgr, term.attrs, term.count)

SavedHere ==
    /\ term.saved = <<>> => shadow.saved = <<>>
    /\ term.saved # <<>> /\ marked[1] =>
          /\ shadow.saved # <<>>
          /\ SameColumn(shadow.saved[1], term.saved[1], term.saved[2])
    /\ term.saved # <<>> /\ marked[2] =>
          /\ shadow.saved # <<>>
          /\ SamePaint(shadow.saved[2], term.saved[3], term.saved[4])

IInv == Types /\ ShadowHere /\ WrapHere /\ PlaceHere /\ PaintHere /\ SavedHere
=============================================================================
