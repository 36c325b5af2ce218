------------------------------ MODULE ServicesInv ------------------------------
(***************************************************************************)
(* The inductive invariant behind ToldTruly: a request that has not been   *)
(* answered is in one place of the session, once, and what is on its way   *)
(* to a client, or has been obeyed by one, was answered "yes".             *)
(***************************************************************************)
EXTENDS Services

ServicesAssumption ==
    /\ None \notin Tools \cup Clients \cup Kinds
    /\ MaxCount \in Nat /\ MaxAttaches \in Nat

FrameType == [kind : Kinds, tool : Tools]
Limited == {"OpenUrl", "Copy"}
Answers == {"yes", "no", "too_large", "closed", "data"}

Types ==
    /\ kind \in [Tools -> Kinds \cup {None}]
    /\ req \in [Tools -> {"none", "queued", "over"}]
    /\ answer \in [Tools -> Answers \cup {"none"}]
    /\ phase \in {"attached", "detached", "ended"}
    /\ owner \in Clients \cup {None} /\ link \in {"up", "dead", "none"}
    /\ caps \subseteq Clients /\ negotiated_caps \in BOOLEAN
    /\ open_forward_enabled \in BOOLEAN
    /\ open_event \in Seq(Tools) /\ clipboard_event \in Seq(Tools)
    /\ pending_paste \in Tools \cup {None} /\ paste_deadline \in BOOLEAN
    /\ to_client \in Seq(FrameType)
    /\ from_client \in Seq({"OpenForward", "ClipboardData"})
    /\ used \in [Clients -> [Limited -> Nat]]
    /\ done \subseteq Tools /\ attaches \in 0..MaxAttaches

\* A client obeys at most MaxCount requests of a kind in a window.
RateHeld == \A c \in Clients, k \in Limited : used[c][k] <= MaxCount

\* Where a request that is not answered yet can be.
Waiting(t) ==
    \/ t \in Range(open_event)
    \/ t \in Range(clipboard_event)
    \/ t = pending_paste

\* It is in one of the three, by its kind, and once.
InOnePlace ==
    /\ IsInjective(open_event) /\ IsInjective(clipboard_event)
    /\ \A t \in Range(open_event) : kind[t] = "OpenUrl"
    /\ \A t \in Range(clipboard_event) : kind[t] \in {"Copy", "Paste"} /\ t # pending_paste
    /\ pending_paste # None => kind[pending_paste] = "Paste"

\* A tool waits while its request does, and has an answer when it is over.
WaitInv ==
    \A t \in Tools :
        /\ (req[t] = "queued") = Waiting(t)
        /\ (req[t] = "over") = (answer[t] # "none")
        /\ (req[t] = "none") = (kind[t] = None)

\* A paste waits for an attached client, under a deadline.
PasteInv ==
    /\ paste_deadline = (pending_paste # None)
    /\ paste_deadline => phase = "attached"
    /\ phase = "attached" => link # "none" /\ owner # None
    /\ phase = "ended" => open_event = <<>> /\ clipboard_event = <<>>

\* What a client is asked to open or set, or has, is what its tool was told.
FramesKept ==
    \A f \in Range(to_client) :
        /\ kind[f.tool] = f.kind
        /\ f.kind \in Limited => answer[f.tool] = "yes"

ObeyInv == FramesKept /\ \A t \in done : answer[t] = "yes" /\ kind[t] \in Limited

IInv == Types /\ RateHeld /\ InOnePlace /\ WaitInv /\ PasteInv /\ ObeyInv
=============================================================================
