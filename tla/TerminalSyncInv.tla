---------------------------- MODULE TerminalSyncInv ----------------------------
(***************************************************************************)
(* The inductive invariant behind TerminalAgrees and HandedBack: the       *)
(* session has scanned the whole stream, the client's tracker stands where *)
(* its terminal does, and a terminal that has had all of the stream is     *)
(* where the session is.                                                   *)
(***************************************************************************)
EXTENDS TerminalSync

\* The bytes that the program writes, and those of the sequences that the
\* session and the client send.
Byte == {"esc", "[", "?", ";", "1", "4", "7", "h", "l", "m"}
          \cup UNION {Range(chunk) : chunk \in Chunks}

TerminalSyncAssumption ==
    /\ Chunks \subseteq Seq(Byte)
    /\ Cap \in Nat \ {0}
    /\ MaxModes \in Nat /\ MaxModes >= 2
    /\ MaxNumber \in Nat /\ MaxNumber >= 47
    /\ MaxLines \in Nat /\ MaxLine \in Nat \ {0}
    /\ MaxChunks \in Nat /\ MaxTurns \in Nat

Scanner ==
    [state : {"Ground", "Esc", "Csi", "Params"}, modes : Seq(Nat),
     partial : Nat \cup {NoNumber}]
Terminal == [scan : Scanner, set : SUBSET Tracked, alt : BOOLEAN]

\* Two scanners that are at the same place of a sequence: they take the next
\* byte alike.
Sync(x, y) == x.state = y.state /\ (x.state = "Params" => x = y)

HasClient == link \in {"attached", "detached"}

\* A scrollback of bytes of a stream of n bytes.
Kept(n) == [lines : Seq(Seq(1..n)), partial : Seq(1..n)]

Types ==
    /\ written \in Seq(Chunks)
    /\ {server, term, alt_screen} \subseteq Terminal
    /\ scrollback \in Kept(Len(Stream))
    /\ link \in {"attached", "detached", "exited", "killed"}
    /\ rendered \in 0..Len(written)
    /\ {stray, inherited, aligned, whole} \subseteq BOOLEAN
    /\ turns \in 0..MaxTurns

\* What the program has the terminal be, after the first n chunks.
Told(n) == Scan(NewTerminal, Bytes(SubSeq(written, 1, n)))

SessionHasAll == server = Told(Len(written))

ClientHasAll ==
    link = "attached" => rendered = Len(written) /\ term.scan = alt_screen.scan

TrackerIsRight == HasClient /\ ~inherited => term.alt = alt_screen.alt

ModesAgree ==
    link = "attached" /\ aligned =>
        term.set = server.set /\ Sync(term.scan, server.scan)

\* The screen is the one of what has been rendered, while the link is down too.
ScreenAgrees ==
    HasClient /\ whole /\ aligned /\ ~inherited => term.alt = Told(rendered).alt

IInv ==
    /\ Types
    /\ SessionHasAll
    /\ ClientHasAll
    /\ TrackerIsRight
    /\ ModesAgree
    /\ ScreenAgrees
    /\ HandedBack
=============================================================================
