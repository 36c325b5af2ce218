----------------------------- MODULE RegistryInv -----------------------------
(***************************************************************************)
(* The inductive invariant behind ReconnectsHome, NoGhostSession and       *)
(* LingerKept: which client a waiting handler holds, which session it      *)
(* names, and how the time stamps of a session that nobody is attached to  *)
(* compare, between the two loads of the reaper as well.                   *)
(***************************************************************************)
EXTENDS Registry

\* Names are neither decimal numbers nor "-" (validate_session_name); a linger
\* is told apart from no linger.
RegistryAssumption ==
    /\ MaxAge \in Nat /\ MaxIds \in Nat /\ MaxRestarts \in Nat
    /\ Lingers \subseteq 0..MaxAge
    /\ Names \cap (Ids \cup {Dash, NoName}) = {}
    /\ NoName \notin Ids /\ Dash \notin Ids
    /\ NoClient \notin Clients

\* A shell serves a client.
Serves(s) == s.task = "running" /\ s.served # NoClient

\* A session serves only while it is marked; one that is not, or is about to
\* lose the mark, has not been used since its last time stamp.
Presence(s) ==
    /\ s.task = "leaving" => s.served = NoClient
    /\ Serves(s) => s.attached
    /\ s.slot /\ (~s.attached \/ s.task = "leaving") => s.age <= s.idle /\ s.seen <= s.idle

\* What the reaper is about to judge: if it is served by now, its time stamp
\* says so.
Judged(s) ==
    /\ s.slot
    /\ s.seen <= s.idle
    /\ Serves(s) => s.seen = 0

PresenceInv == \A i \in Live : Presence(sessions[i])

ScanInv ==
    /\ loop # "scan" => todo = {} /\ reading = {} /\ expired = {}
    /\ todo \cap expired = {}
    /\ \A r, q \in reading : r = q
    /\ \A r \in reading : r.id \notin todo \cup expired /\ Judged(sessions[r.id])

\* A handler that waits holds a session and the client that asked for it.
AskingInv ==
    loop \in {"new", "attach"} =>
        op.id \in Live /\ op.client \in Clients /\ client[op.client] = "asking"

IInv ==
    /\ TypeOK
    /\ PresenceInv
    /\ ScanInv
    /\ AskingInv
    /\ NoGhostSession
    /\ ReconnectsHome
=============================================================================
