------------------------------ MODULE FrameCodec ------------------------------
(***************************************************************************)
(* The frame codec of protocol.rs: a type byte, a length of four bytes and *)
(* a payload, written to a socket by one side and decoded from whatever    *)
(* part of it has arrived at the other.  What encode writes and what       *)
(* decode expects are two tables, each taken from its own function.        *)
(*                                                                         *)
(* Numbers keep their width in bytes; a byte has Base values, so that the  *)
(* length of a text can reach the limit of its two bytes.  A frame is its  *)
(* name and the values of its fields.                                      *)
(***************************************************************************)
EXTENDS Integers, SequencesExt

CONSTANTS
    Base,       \* the values of a byte
    MaxFrame,   \* MAX_FRAME_SIZE
    Seeds,      \* which field values are tried
    MaxSent     \* bound: frames sent

VARIABLES
    sent,       \* the frames encoded, as the decoder has to give them
    fit,        \* all of them were within the limits of the format
    pipe,       \* bytes on their way
    buf,        \* src: bytes that have arrived
    got, dead   \* the frames decoded; decode has failed

vars == <<sent, fit, pipe, buf, got, dead>>

Width == [u8 |-> 1, flag |-> 1, u16 |-> 2, i32 |-> 4, u32 |-> 4, u64 |-> 8]
HeaderLen == 5

\* put_u8 .. put_u64 write the low bytes of a number, the highest one first.
Put(w, v) == [i \in 1..w |-> (v \div Base^(w - i)) % Base]
Get(s) == FoldLeft(LAMBDA v, b : v * Base + b, 0, s)

-----------------------------------------------------------------------------
(* What encode writes *)

Blobs == {"Data", "Notice", "ClipboardSet", "ClipboardData"}
Strings == {"OpenUrl", "SendCancel", "Tail", "KillSession", "SendFile", "DiagResponse"}
Empties == {"Detached", "ServerShutdown", "Ping", "Pong", "AgentForward", "OpenForward",
            "ClipboardGet", "SendDone", "ListSessions", "KillServer", "Ok", "DiagRequest"}
Channels == {"AgentOpen", "AgentClose", "TunnelOpen", "TunnelClose", "PortForwardClose",
             "PortForwardReady", "PortForwardStop", "SessionCreated"}
ChannelBlobs == {"AgentData", "TunnelData", "PortForwardData"}

EncodeFixed ==
    [Resume |-> <<"u64">>, Resize |-> <<"u16", "u16">>, Exit |-> <<"i32">>,
     Hello |-> <<"u16", "u32", "u64">>, HelloAck |-> <<"u16", "u32", "u64">>,
     TunnelListen |-> <<"u16">>, SendOffer |-> <<"u32", "u64">>,
     PortForwardListen |-> <<"u32", "u16", "u16">>,
     PortForwardOpen |-> <<"u32", "u32", "u16">>,
     PortForwardRequest |-> <<"u32", "u8", "u16", "u16">>]

EncodeStructured ==
    [RenameSession |-> <<"text", "rest">>, SetLinger |-> <<"text", "u64">>,
     NewSession |-> <<"text", "text", "text", "u16", "u16", "text", "u64">>,
     Attach |-> <<"text", "text", "flag", "flag", "u16", "u16", "u64", "u64", "flag">>,
     AttachAck |-> <<"u64", "u32">>, Error |-> <<"u16", "rest">>]

\* encode_env and encode_session_info: the fields of one entry.
EncodeEntry ==
    [Env |-> <<"text", "text">>,
     SessionInfo |-> <<"u32", "text", "text", "u32", "u64", "flag", "u64", "text", "text",
                       "text", "flag", "flag", "u64", "u64">>]

Lists == DOMAIN EncodeEntry
Kinds == Blobs \cup Strings \cup Empties \cup Channels \cup ChannelBlobs
             \cup DOMAIN EncodeFixed \cup DOMAIN EncodeStructured \cup Lists

EncodeLayout(k) ==
    CASE k \in Empties -> <<>>
      [] k \in Blobs \cup Strings -> <<"rest">>
      [] k \in Channels -> <<"u32">>
      [] k \in ChannelBlobs -> <<"u32", "rest">>
      [] k \in DOMAIN EncodeFixed -> EncodeFixed[k]
      [] k \in DOMAIN EncodeStructured -> EncodeStructured[k]

\* The type byte is the name itself: no two types have the same.
Write(t, v) ==
    CASE t = "text" -> Put(2, Len(v)) \o v
      [] t = "rest" -> v
      [] OTHER -> Put(Width[t], v)

WriteAll(layout, vals) == FlattenSeq([i \in 1..Len(vals) |-> Write(layout[i], vals[i])])

\* Only the entries of a session list carry their own length.
WriteEntry(k, e) ==
    LET body == WriteAll(EncodeEntry[k], e) IN
    IF k = "SessionInfo" THEN Put(4, Len(body)) \o body ELSE body

Payload(k, vals) ==
    IF k \in Lists
    THEN Put(4, Len(vals)) \o FlattenSeq([i \in 1..Len(vals) |-> WriteEntry(k, vals[i])])
    ELSE WriteAll(EncodeLayout(k), vals)

Encode(k, vals) == LET p == Payload(k, vals) IN [kind |-> k, len |-> Put(4, Len(p)), body |-> p]

\* The bytes of an encoded frame: its name stands for its type byte.
Wire(f) == <<f.kind>> \o f.len \o f.body

-----------------------------------------------------------------------------
(* What decode expects: fields that must be there, then fields that a sender *)
(* of an older version leaves out                                            *)

DecodeFixed ==
    [Resume |-> <<"u64">>, Resize |-> <<"u16", "u16">>, Exit |-> <<"i32">>,
     Hello |-> <<"u16", "u32">>, HelloAck |-> <<"u16", "u32", "u64">>,
     TunnelListen |-> <<"u16">>, SendOffer |-> <<"u32", "u64">>,
     PortForwardListen |-> <<"u32", "u16", "u16">>,
     PortForwardOpen |-> <<"u32", "u32", "u16">>,
     PortForwardRequest |-> <<"u32", "u8", "u16", "u16">>]

DecodeStructured ==
    [RenameSession |-> <<"text", "rest">>, SetLinger |-> <<"text", "u64">>,
     NewSession |-> <<"text", "text", "text", "u16", "u16">>,
     Attach |-> <<"text", "text", "flag">>,
     AttachAck |-> <<"u64", "u32">>, Error |-> <<"u16", "rest">>]

DecodeEntry ==
    [Env |-> <<"text", "text">>,
     SessionInfo |-> <<"u32", "text", "text", "u32", "u64", "flag", "u64", "text", "text", "text">>]

\* A mistake: two of the newer fields of Attach in the wrong order.
DecodeLaterSwapped ==
    [Hello |-> <<"u64">>, NewSession |-> <<"text", "u64">>,
     Attach |-> <<"flag", "u16", "u16", "u64", "flag", "u64">>,
     SessionInfo |-> <<"flag", "flag", "u64", "u64">>]

DecodeLater ==
    [Hello |-> <<"u64">>, NewSession |-> <<"text", "u64">>,
     Attach |-> <<"flag", "u16", "u16", "u64", "u64", "flag">>,
     SessionInfo |-> <<"flag", "flag", "u64", "u64">>]

Later(k) == IF k \in DOMAIN DecodeLater THEN DecodeLater[k] ELSE <<>>

DecodeLayout(k) ==
    CASE k \in Empties -> <<>>
      [] k \in Blobs \cup Strings -> <<"rest">>
      [] k \in Channels -> <<"u32">>
      [] k \in ChannelBlobs -> <<"u32", "rest">>
      [] k \in DOMAIN DecodeFixed -> DecodeFixed[k]
      [] k \in DOMAIN DecodeStructured -> DecodeStructured[k]

\* A reader: the bytes left of the payload, the values read, and whether all is well.
Reader(p) == [left |-> p, vals |-> <<>>, ok |-> TRUE]
Fail(r) == [r EXCEPT !.ok = FALSE]
Value(r, v, n) == [r EXCEPT !.left = SubSeq(@, n + 1, Len(@)), !.vals = Append(@, v)]

ReadNumber(r, w) ==
    IF Len(r.left) < w THEN Fail(r) ELSE Value(r, Get(SubSeq(r.left, 1, w)), w)

\* read_u16 of the length, the check that the text is there, String::from_utf8.
ReadText(r) ==
    LET n == Get(SubSeq(r.left, 1, 2)) IN
    IF Len(r.left) < 2 \/ Len(r.left) < 2 + n THEN Fail(r)
    ELSE Value(r, SubSeq(r.left, 3, 2 + n), 2 + n)

ReadField(r, t) ==
    CASE ~r.ok -> r
      [] r.ok /\ t = "text" -> ReadText(r)
      [] r.ok /\ t = "rest" -> Value(r, r.left, Len(r.left))
      [] OTHER -> ReadNumber(r, Width[t])

\* A later field that is not there is 0, false or empty.
ReadLater(r, t) ==
    LET w == IF t = "text" THEN 2 ELSE Width[t] IN
    IF r.ok /\ Len(r.left) < w THEN Value(r, IF t = "text" THEN <<>> ELSE 0, Len(r.left))
    ELSE ReadField(r, t)

ReadFields(p, need, later) == FoldLeft(ReadLater, FoldLeft(ReadField, Reader(p), need), later)

\* One round of the loops of decode_env and decode_session_info.
ReadEntry(k, r) ==
    LET own == ReadNumber(r, 4)
        n == own.vals[Len(own.vals)]
        e == IF k = "SessionInfo" THEN SubSeq(r.left, 5, 4 + n) ELSE r.left
        x == ReadFields(e, DecodeEntry[k], Later(k))
        used == IF k = "SessionInfo" THEN 4 + n ELSE Len(r.left) - Len(x.left)
    IN CASE ~r.ok -> r
         [] r.ok /\ k = "SessionInfo" /\ (~own.ok \/ Len(r.left) < 4 + n) -> Fail(r)
         [] OTHER -> IF x.ok THEN Value(r, x.vals, used) ELSE Fail(r)

ReadList(k, p) ==
    LET head == ReadNumber(Reader(p), 4) IN
    IF ~head.ok THEN head
    ELSE FoldLeft(LAMBDA r, i : ReadEntry(k, r), [head EXCEPT !.vals = <<>>],
                  [i \in 1..head.vals[1] |-> i])

DecodePayload(k, p) ==
    IF k \in Lists THEN ReadList(k, p) ELSE ReadFields(p, DecodeLayout(k), Later(k))

PayloadLen(src) == Get(SubSeq(src, 2, HeaderLen))

\* Ok(None): wait for more.
Incomplete(src) ==
    \/ Len(src) < HeaderLen
    \/ PayloadLen(src) <= MaxFrame /\ Len(src) < HeaderLen + PayloadLen(src)

-----------------------------------------------------------------------------
(* A sender, the socket and the decoder behind it *)

Init ==
    /\ sent = <<>> /\ fit = TRUE
    /\ pipe = <<>> /\ buf = <<>>
    /\ got = <<>> /\ dead = FALSE

\* A value for field i of type t.
Sample(t, i, s) ==
    IF t \in {"text", "rest"} THEN [x \in 1..(i + s) |-> i % Base]
    ELSE IF t = "flag" THEN i % 2 ELSE (i + s) % Base^Width[t]

Samples(layout, s) == [i \in 1..Len(layout) |-> Sample(layout[i], i, s)]

SampleOf(k, s) ==
    IF k \in Lists THEN [n \in 1..(s % 3) |-> Samples(EncodeEntry[k], n)]
    ELSE Samples(EncodeLayout(k), s)

\* The fields that an older sender leaves out are the last ones.
Older(k, vals, cut) ==
    IF k \in Lists THEN [n \in DOMAIN vals |-> SubSeq(vals[n], 1, Len(vals[n]) - cut)]
    ELSE SubSeq(vals, 1, Len(vals) - cut)

Zeros(k, n) ==
    LET z == [t \in DOMAIN Width \cup {"text"} |-> IF t = "text" THEN <<>> ELSE 0]
        l == Later(k)
    IN [i \in 1..n |-> z[l[Len(l) - n + i]]]

Filled(k, vals, cut) ==
    IF k \in Lists THEN [n \in DOMAIN vals |-> vals[n] \o Zeros(k, cut)] ELSE vals \o Zeros(k, cut)

\* Texts whose length fits into its two bytes.
TextsFit(k, vals) ==
    k \in Lists \/ \A i \in DOMAIN vals : EncodeLayout(k)[i] = "text" => Len(vals[i]) < Base^2

\* Another version of this program, or this one (cut = 0), sends a frame.
Send(k, s, cut) ==
    LET vals == Older(k, SampleOf(k, s), cut)
        f == Encode(k, vals)
    IN /\ sent' = Append(sent, [kind |-> k, vals |-> Filled(k, vals, cut)])
       /\ fit' = (fit /\ Len(f.body) <= MaxFrame /\ TextsFit(k, vals))
       /\ pipe' = pipe \o Wire(f)
       /\ UNCHANGED <<buf, got, dead>>

\* A read of the socket returns n bytes.
Arrive(n) ==
    /\ n \in 1..Len(pipe) /\ ~dead
    /\ buf' = buf \o SubSeq(pipe, 1, n) /\ pipe' = SubSeq(pipe, n + 1, Len(pipe))
    /\ UNCHANGED <<sent, fit, got, dead>>

\* decode: a frame, whose bytes leave the buffer, or an error, after which the
\* reader of the socket gives up.
Decode ==
    LET end == HeaderLen + PayloadLen(buf)
        r == DecodePayload(buf[1], SubSeq(buf, HeaderLen + 1, end))
    IN /\ ~dead /\ ~Incomplete(buf)
       /\ IF PayloadLen(buf) > MaxFrame \/ ~r.ok
          THEN dead' = TRUE /\ UNCHANGED <<buf, got>>
          ELSE /\ got' = Append(got, [kind |-> buf[1], vals |-> r.vals])
               /\ buf' = SubSeq(buf, end + 1, Len(buf))
               /\ UNCHANGED dead
       /\ UNCHANGED <<sent, fit, pipe>>

Next ==
    \/ /\ Len(sent) < MaxSent
       /\ \E k \in Kinds, s \in Seeds : \E cut \in 0..Len(Later(k)) : Send(k, s, cut)
    \/ \E n \in {1, Len(pipe)} : Arrive(n)
    \/ Decode

Spec == Init /\ [][Next]_vars

-----------------------------------------------------------------------------
(* Properties *)

TypeOK ==
    /\ \A i \in DOMAIN sent : sent[i].kind \in Kinds
    /\ Len(sent) <= MaxSent /\ Len(got) <= Len(sent)
    /\ fit \in BOOLEAN /\ dead \in BOOLEAN

\* However the bytes are cut into reads, and whatever trailing fields an older
\* sender leaves out, decode gives the frames that were encoded, in their order,
\* with nothing lost at the end; as long as a frame is within MAX_FRAME_SIZE and a
\* text within the two bytes of its length.
FramesIntact ==
    fit => /\ ~dead
           /\ IsPrefix(got, sent)
           /\ pipe = <<>> /\ Incomplete(buf) => got = sent /\ buf = <<>>
=============================================================================
