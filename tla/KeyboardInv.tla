---------------------------- MODULE KeyboardInv ----------------------------
(***************************************************************************)
(* The inductive invariant behind InputIntact: keys are read in the order  *)
(* they were typed, the processor's state is that of the last byte it was  *)
(* given, and what is not read yet, or waits after a tilde, is not lost.   *)
(***************************************************************************)
EXTENDS Keyboard

KeyboardAssumption ==
    Cap \in Nat /\ PtyRoom \in Nat /\ MaxTyped \in Nat /\ MaxDrops \in Nat

Place == 1..Len(typed)

Types ==
    /\ typed \in Seq(Keys)
    /\ {stdin, seen, pty, shell} \subseteq Seq(Place)
    /\ {wire, pending_input} \subseteq Seq(Seq(Place))
    /\ escape \in {"Normal", "AfterNewline", "AfterTilde"}
    /\ link \in {"up", "down", "left"}
    /\ pending_input_bytes \in 0..Cap
    /\ Len(pty) <= PtyRoom
    /\ exited \in BOOLEAN /\ undone \in BOOLEAN
    /\ lost \subseteq Place
    /\ drops \in 0..MaxDrops

\* What the client has not read yet comes after all that it has.
InOrder == Increasing(seen \o stdin)

\* The processor still obeys: the last ~. it met has not been passed over.
Obeys == ~undone /\ link # "left"

\* Its state is told by the last of the bytes it was given.
StateTold(s, state) ==
    /\ state = "AfterNewline" <=> s = <<>> \/ typed[Last(s)] = "nl"
    /\ state = "AfterTilde" <=> s # <<>> /\ Tilde(s, Len(s))

EscapeInv ==
    /\ Obeys => StateTold(seen, escape)
    /\ Obeys /\ escape = "AfterTilde" => Last(seen) \notin lost
    /\ escape = "AfterTilde" => \E i \in Range(seen) : typed[i] = "~"

UnreadKept == undone \/ lost \cap Range(stdin) = {}

IInv == Types /\ InOrder /\ EscapeInv /\ UnreadKept /\ InputIntact
=============================================================================
