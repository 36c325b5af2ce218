---------------------------- MODULE QueryFilterInv ----------------------------
(***************************************************************************)
(* The inductive invariant behind InputMinusQueries: what is held back is  *)
(* the end of the input, no query reaches into it, and what begins before  *)
(* it is a query by now or will never be one.                              *)
(***************************************************************************)
EXTENDS QueryFilter

Bytes == UNION {Range(chunk) : chunk \in Pieces}

QueryFilterAssumption ==
    /\ Pieces \subseteq Seq(Bytes)
    /\ MaxCsi \in Nat /\ MaxCsi >= 2
    /\ MaxString \in Nat /\ MaxString >= 2
    /\ MaxPieces \in Nat

StringKinds == {"]", "P", "apc"}
Filters ==
    [state : {"Ground", "Esc", "Csi", "StringBody", "StringEsc"},
     kind : StringKinds \cup {"None"}, pending : Seq(Bytes), out : Seq(Bytes)]

Types == input \in Seq(Bytes) /\ filter \in Filters /\ fed \in 0..MaxPieces

\* A sequence that has begun, w, and whether the body of a string is still open.
Begun(w, introducers) == Len(w) >= 2 /\ w[1] = "esc" /\ w[2] \in introducers
OpenString(w) ==
    /\ Begun(w, StringKinds)
    /\ \A i \in 3..Len(w) : w[i] \notin {"esc", "bel"}
    /\ Len(w) <= MaxString

\* What is held back in each state.
Shape(f) ==
    CASE f.state = "Ground" -> f.pending = <<>> /\ f.kind = "None"
      [] f.state = "Esc" -> f.pending = <<"esc">>
      [] f.state = "Csi" -> /\ Begun(f.pending, {"["}) /\ Len(f.pending) <= MaxCsi
                            /\ \A i \in 3..Len(f.pending) : f.pending[i] \in CsiParameter
      [] f.state = "StringBody" -> OpenString(f.pending) /\ f.kind = f.pending[2]
      [] f.state = "StringEsc" -> /\ Len(f.pending) >= 3 /\ Last(f.pending) = "esc"
                                  /\ OpenString(Front(f.pending))
                                  /\ f.kind = f.pending[2]

\* Nothing that begins with w, and is longer, is a query.
Hopeless(w) ==
    \/ w[1] # "esc"
    \/ Len(w) >= 2 /\ w[2] \notin {"["} \cup StringKinds
    \/ /\ Begun(w, {"["})
       /\ Len(w) >= MaxCsi \/ \E i \in 3..Len(w) : w[i] \notin CsiParameter
    \/ /\ Begun(w, StringKinds)
       /\ \/ \E i \in 3..Len(w) : w[i] = "bel" \/ (w[i] = "esc" /\ i < Len(w))
          \/ Len(w) > MaxString /\ w[MaxString + 1] # "esc"
          \/ w[2] = "P" /\ Len(w) >= 4 /\ ~(w[3] = "$" /\ w[4] = "q")
          \/ w[2] = "apc" /\ Len(w) >= 3 /\ w[3] # "G"
          \/ w[2] = "apc" /\ \E i \in 3..Len(w) : w[i] = "sep" /\ \A j \in 3..i : w[j] # "k"

\* Where the filter stands in s, of which it holds back the end.
Stands(s, pending, out) ==
    LET k == Len(s) - Len(pending)
    IN  /\ k \in 0..Len(s)
        /\ pending = SubSeq(s, k + 1, Len(s))
        /\ QueryPlaces(s) \subseteq 1..k
        /\ out = Without(SubSeq(s, 1, k), QueryPlaces(s))
        /\ \A p \in 1..k : Hopeless(SubSeq(s, p, Len(s)))

IInv == Types /\ Shape(filter) /\ Stands(input, filter.pending, filter.out)
=============================================================================
