------------------------------ MODULE MCOutput ------------------------------
(***************************************************************************)
(* Small instances of what brings a program's output to a terminal: the    *)
(* stream of a session to its clients, and what the stream does to the     *)
(* modes and the screen of a terminal.  A behaviour is one of one part;    *)
(* the other stays as it was.                                              *)
(***************************************************************************)
EXTENDS MCSessionStream, Sequences

\* Modes set, reset and cut in two; the alternate screen; a line end.
Private(rest) == <<"esc", "[", "?">> \o rest
Writes ==
    {Private(<<"1", "h">>), Private(<<"1">>), <<"h">>, <<"nl">>,
     Private(<<"4", "7", "h">>), Private(<<"7", ";", "1", "l">>)}

VARIABLE part   \* whose behaviour this is

VARIABLES te_written, te_server, te_scrollback, te_link, te_rendered, te_term,
    te_alt_screen, te_stray, te_inherited, te_aligned, te_whole, te_turns

terminal == <<te_written, te_server, te_scrollback, te_link, te_rendered,
    te_term, te_alt_screen, te_stray, te_inherited, te_aligned, te_whole,
    te_turns>>

T == INSTANCE TerminalSyncInv WITH
    Chunks <- Writes, Cap <- 2, MaxModes <- 2, MaxNumber <- 99, MaxLines <- 2,
    MaxLine <- 6, MaxChunks <- 3, MaxTurns <- 2,
    written <- te_written, server <- te_server, scrollback <- te_scrollback,
    link <- te_link, rendered <- te_rendered, term <- te_term,
    alt_screen <- te_alt_screen, stray <- te_stray,
    inherited <- te_inherited, aligned <- te_aligned, whole <- te_whole,
    turns <- te_turns

\* What the theorems of TerminalSyncProofs assume of bytes and bounds.
ASSUME TerminalBytes == T!TerminalSyncAssumption

-----------------------------------------------------------------------------

OutputInit == part \in {"stream", "terminal"} /\ Init /\ T!Init

OutputNext ==
    /\ part' = part
    /\ \/ part = "stream" /\ Next /\ UNCHANGED terminal
       \/ part = "terminal" /\ T!Next /\ UNCHANGED vars

OutputSpec == OutputInit /\ [][OutputNext]_<<part, vars, terminal>>

-----------------------------------------------------------------------------
(* Properties.  Those of the stream are in SessionStream. *)

\* The terminal of an attached client has the program's modes and screen, over
\* reconnects, gaps and fresh viewers (send_resume, TermModes); what follows them
\* keeps its type, and the invariant behind it holds.
TerminalAgrees == T!IInv /\ T!TypeOK /\ T!TerminalAgrees

\* A client that exits leaves the terminal as a shell expects it, wherever the
\* stream was cut (TerminalResetGuard).
HandedBack == T!HandedBack
=============================================================================
