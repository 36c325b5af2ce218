----------------------------- MODULE QueryFilter ------------------------------
(***************************************************************************)
(* query_filter.rs: the questions a program once asked its terminal (what  *)
(* are you, where is the cursor, which color is this) are taken out of the *)
(* output that is played again to a client that comes back, and nothing    *)
(* else is.  The history arrives in chunks cut anywhere, so the filter     *)
(* holds back a sequence it cannot tell yet.                               *)
(*                                                                         *)
(* A byte is one of a few representatives: "esc", "bel", the introducers,  *)
(* a final byte of each kind of query and one of none.  "18" stands for    *)
(* the digits of a report number, "k" for the pair a=q of kitty's graphics *)
(* control data, "apc" for the underscore that introduces it, "sep" for    *)
(* the semicolon.                                                          *)
(***************************************************************************)
EXTENDS Integers, SequencesExt, FiniteSetsExt

CONSTANTS
    MaxCsi,     \* MAX_CSI_BYTES
    MaxString,  \* MAX_STRING_BYTES
    Pieces,     \* the chunks that are fed to the filter
    MaxPieces   \* bound: chunks of one replay

VARIABLES
    input,      \* the bytes replayed so far
    filter,     \* the QueryFilter, and what it has let through
    fed         \* chunks replayed so far

vars == <<input, filter, fed>>

CsiIntermediate == {"$"}
CsiParameter == {"?", ">", "sep", "1", "4", "7", "18"} \cup CsiIntermediate
CsiFinal == {"c", "n", "p", "q", "u", "t", "S", "m", "h", "l", "k", "G",
             "Z", "[", "]", "P", "apc", "\\"}

\* What stands before, and after, the first byte of s that is in stop.
Upto(s, stop) ==
    LET hits == {i \in DOMAIN s : s[i] \in stop}
    IN  IF hits = {} THEN s ELSE SubSeq(s, 1, Min(hits) - 1)
After(s, stop) == SubSeq(s, Len(Upto(s, stop)) + 2, Len(s))

is_csi_query(inner, final) ==
    LET params == Upto(inner, CsiIntermediate)
        intermediates == SubSeq(inner, Len(params) + 1, Len(inner))
        marked == params # <<>> /\ Head(params) \in {"?", ">"}
        fields == IF marked THEN Tail(params) ELSE params
        second == Upto(After(fields, {"sep"}), {"sep"})
    IN  \/ final \in {"c", "n"} /\ intermediates = <<>>
        \/ final = "p" /\ intermediates = <<"$">>
        \/ final = "q" /\ intermediates = <<>> /\ IsPrefix(<<">">>, params)
        \/ final = "u" /\ intermediates = <<>> /\ params = <<"?">>
        \/ final = "t" /\ intermediates = <<>> /\ Upto(fields, {"sep"}) = <<"18">>
        \/ /\ final = "S" /\ intermediates = <<>>
           /\ IsPrefix(<<"?">>, params) /\ second = <<"1">>

kitty_is_query(control) == "k" \in Range(control)

-----------------------------------------------------------------------------
(* The state machine *)

new == [state |-> "Ground", kind |-> "None", pending |-> <<>>, out |-> <<>>]

drop(f) == [f EXCEPT !.state = "Ground", !.kind = "None", !.pending = <<>>]
flush_raw(f) == [drop(f) EXCEPT !.out = @ \o f.pending]
Push(f, b) == [f EXCEPT !.pending = Append(@, b)]
Body(f) == SubSeq(f.pending, 3, Len(f.pending))

Ground(f, b) ==
    IF b = "esc"
    THEN [Push(f, b) EXCEPT !.state = "Esc"]
    ELSE [f EXCEPT !.out = Append(@, b)]

Esc(f, b) ==
    CASE b = "[" -> [Push(f, b) EXCEPT !.state = "Csi"]
      [] b \in {"]", "P", "apc"} -> [Push(f, b) EXCEPT !.state = "StringBody", !.kind = b]
      [] b = "Z" -> drop(f)
      [] OTHER -> Ground(flush_raw(f), b)

\* A mistake: the byte that ends an unfinished sequence is only let through.
CsiForgets(f, b) ==
    IF Len(f.pending) >= MaxCsi
    THEN Ground(flush_raw(f), b)
    ELSE CASE b \in CsiParameter -> Push(f, b)
           [] b \in CsiFinal ->
                 IF is_csi_query(Body(f), b) THEN drop(f) ELSE flush_raw(Push(f, b))
           [] OTHER -> flush_raw(Push(f, b))

Csi(f, b) ==
    IF Len(f.pending) >= MaxCsi
    THEN Ground(flush_raw(f), b)
    ELSE CASE b \in CsiParameter -> Push(f, b)
           [] b \in CsiFinal ->
                 IF is_csi_query(Body(f), b) THEN drop(f) ELSE flush_raw(Push(f, b))
           [] OTHER -> Ground(flush_raw(f), b)

string_may_be_query(f) ==
    LET body == Body(f)
    IN  CASE f.kind = "P" -> Len(body) < 2 \/ IsPrefix(<<"$", "q">>, body)
          [] f.kind = "apc" /\ body # <<>> ->
                /\ body[1] = "G"
                /\ "sep" \in Range(body) => kitty_is_query(Upto(Tail(body), {"sep"}))
          [] OTHER -> TRUE

strip_terminator(body) ==
    IF IsSuffix(<<"esc", "\\">>, body)
    THEN SubSeq(body, 1, Len(body) - 2)
    ELSE SubSeq(body, 1, Len(body) - 1)

end_string(f) ==
    LET body == strip_terminator(Body(f))
        query == CASE f.kind = "]" -> body = <<"?">> \/ IsSuffix(<<"sep", "?">>, body)
                   [] f.kind = "P" -> IsPrefix(<<"$", "q">>, body)
                   [] f.kind = "apc" -> /\ IsPrefix(<<"G">>, body)
                                        /\ kitty_is_query(Upto(Tail(body), {"sep"}))
    IN  IF query THEN drop(f) ELSE flush_raw(f)

StringBody(f, b) ==
    LET g == Push(f, b)
    IN  CASE b = "esc" -> [g EXCEPT !.state = "StringEsc"]
          [] b = "bel" -> end_string(g)
          [] OTHER -> IF Len(g.pending) > MaxString \/ ~string_may_be_query(g)
                      THEN flush_raw(g) ELSE g

StringEsc(f, b) ==
    IF b = "\\"
    THEN end_string(Push(f, b))
    ELSE LET g == flush_raw([f EXCEPT !.pending = Front(@)])
         IN  Esc([Push(g, "esc") EXCEPT !.state = "Esc"], b)

step(f, b) ==
    CASE f.state = "Ground" -> Ground(f, b)
      [] f.state = "Esc" -> Esc(f, b)
      [] f.state = "Csi" -> Csi(f, b)
      [] f.state = "StringBody" -> StringBody(f, b)
      [] f.state = "StringEsc" -> StringEsc(f, b)

scrub(f, chunk) == FoldLeft(step, f, chunk)
finish(f) == f.out \o f.pending
strip_queries(bytes) == finish(scrub(new, bytes))

-----------------------------------------------------------------------------
Init == input = <<>> /\ filter = new /\ fed = 0

Scrub(chunk) ==
    /\ fed < MaxPieces
    /\ filter' = scrub(filter, chunk)
    /\ input' = input \o chunk
    /\ fed' = fed + 1

Next == \E chunk \in Pieces : Scrub(chunk)

Spec == Init /\ [][Next]_vars

-----------------------------------------------------------------------------
(* What the filter promises, stated over the whole input at once *)

TypeOK ==
    /\ filter.state \in {"Ground", "Esc", "Csi", "StringBody", "StringEsc"}
    /\ (filter.state = "Ground") = (filter.pending = <<>>)
    /\ Len(filter.pending) <= MaxCsi \/ Len(filter.pending) <= MaxString + 1
    /\ fed \in 0..MaxPieces

\* A complete sequence that a terminal answers.
IsCsiQuery(w) ==
    /\ Len(w) \in 3..MaxCsi /\ w[2] = "["
    /\ Range(SubSeq(w, 3, Len(w) - 1)) \subseteq CsiParameter
    /\ w[Len(w)] \in CsiFinal
    /\ is_csi_query(SubSeq(w, 3, Len(w) - 1), w[Len(w)])

StringQuery(kind, body) ==
    CASE kind = "]" -> body # <<>> /\ Last(body) = "?"
                       /\ (Len(body) = 1 \/ body[Len(body) - 1] = "sep")
      [] kind = "P" -> Len(body) >= 2 /\ body[1] = "$" /\ body[2] = "q"
      [] kind = "apc" -> /\ body # <<>> /\ body[1] = "G"
                         /\ \E i \in DOMAIN body :
                               body[i] = "k" /\ \A j \in 1..i : body[j] # "sep"
      [] OTHER -> FALSE

IsStringQuery(w) ==
    \E terminator \in {<<"bel">>, <<"esc", "\\">>} :
        LET n == Len(w) - Len(terminator)
            body == SubSeq(w, 3, n)
        IN  /\ n \in 2..MaxString
            /\ IsSuffix(terminator, w)
            /\ Range(body) \cap {"esc", "bel"} = {}
            /\ StringQuery(w[2], body)

IsQuery(w) ==
    /\ w[1] = "esc"
    /\ w = <<"esc", "Z">> \/ IsCsiQuery(w) \/ IsStringQuery(w)

\* The places of s that are in a complete query.
QueryPlaces(s) ==
    UNION {p[1]..p[2] : p \in {q \in (1..Len(s)) \X (1..Len(s)) :
                                  q[1] < q[2] /\ IsQuery(SubSeq(s, q[1], q[2]))}}

\* s without the places in R.
Without(s, R) ==
    LET upto[k \in 0..Len(s)] ==
            IF k = 0 THEN <<>>
            ELSE IF k \in R THEN upto[k - 1] ELSE Append(upto[k - 1], s[k])
    IN  upto[Len(s)]

QueriesRemoved(s) == Without(s, QueryPlaces(s))

\* However the history is cut into chunks, what has been let through followed
\* by what is held back is the input without its complete queries: no query of
\* a straddled, abandoned or interrupted sequence survives, and no other byte
\* is lost, repeated or moved (scrub, finish).
InputMinusQueries == finish(filter) = QueriesRemoved(input)
=============================================================================
