------------------------------- MODULE Services -------------------------------
(***************************************************************************)
(* The requests that programs in a session make of the user's own machine: *)
(* open a URL, set the clipboard, read the clipboard.  A request arrives   *)
(* on the service socket, is queued to the session, forwarded to the       *)
(* client that is attached, and answered to the program that made it;      *)
(* meanwhile clients come, go and take the session over from each other.   *)
(***************************************************************************)
EXTENDS Integers, SequencesExt, FiniteSetsExt

CONSTANTS
    Tools,          \* programs, each with one request
    Clients,        \* machines a client may run on
    None,
    MaxCount,       \* requests of one kind a client obeys in a window
    MaxAttaches     \* bound: attaches

VARIABLES
    kind, req,      \* a tool's request, and where it is
    answer,         \* what the tool has been told
    phase,          \* "attached", "detached", "ended"
    owner, link,    \* the client that is attached, and its connection
    caps,           \* clients that negotiated CAP_CLIPBOARD; never changes
    negotiated_caps,        \* the clipboard bit of the last client attached
    open_forward_enabled,
    open_event, clipboard_event,    \* queues of tools
    pending_paste, paste_deadline,
    to_client, from_client, \* frames on the connection
    used,           \* requests of each kind in the client's window
    done,           \* tools whose request a client has obeyed
    attaches

conn == <<owner, link, caps, negotiated_caps, open_forward_enabled>>
tools == <<kind, req, answer>>
queues == <<open_event, clipboard_event>>
paste == <<pending_paste, paste_deadline>>
vars == <<tools, phase, conn, queues, paste, to_client, from_client, used, done,
          attaches>>

Kinds == {"OpenUrl", "Copy", "Paste"}

Init ==
    /\ kind = [t \in Tools |-> None]
    /\ req = [t \in Tools |-> "none"] /\ answer = [t \in Tools |-> "none"]
    /\ phase = "detached"
    /\ owner = None /\ link = "none"
    /\ caps \in SUBSET Clients
    /\ negotiated_caps = FALSE /\ open_forward_enabled = FALSE
    /\ open_event = <<>> /\ clipboard_event = <<>>
    /\ pending_paste = None /\ paste_deadline = FALSE
    /\ to_client = <<>> /\ from_client = <<>>
    /\ used = [c \in Clients |-> [k \in {"OpenUrl", "Copy"} |-> 0]]
    /\ done = {} /\ attaches = 0

\* answers is a set of pairs of a tool and what it is told
Tell(answers) ==
    /\ answer' = [t \in Tools |->
          IF \E a \in answers : a[1] = t THEN (CHOOSE a \in answers : a[1] = t)[2]
          ELSE answer[t]]
    /\ req' = [t \in Tools |-> IF \E a \in answers : a[1] = t THEN "over" ELSE req[t]]

\* A reply to the paste that waits, if one does.
TellPaste(what) == IF pending_paste = None THEN {} ELSE {<<pending_paste, what>>}

-----------------------------------------------------------------------------
(* The service socket: the request is read, and refused or queued *)

Ask(t, k, size) ==
    /\ req[t] = "none" /\ phase # "ended"
    /\ kind' = [kind EXCEPT ![t] = k]
    /\ LET refused ==
             CASE k = "OpenUrl" -> IF size = "empty" THEN {<<t, "closed">>} ELSE {}
               [] k = "Copy" -> IF size = "large" THEN {<<t, "too_large">>}
                                ELSE IF size = "empty" \/ ~negotiated_caps THEN {<<t, "no">>}
                                ELSE {}
               [] k = "Paste" -> IF negotiated_caps THEN {} ELSE {<<t, "closed">>}
       IN  IF refused # {}
           THEN Tell(refused) /\ UNCHANGED queues
           ELSE /\ req' = [req EXCEPT ![t] = "queued"]
                /\ UNCHANGED answer
                /\ IF k = "OpenUrl"
                   THEN open_event' = Append(open_event, t) /\ UNCHANGED clipboard_event
                   ELSE clipboard_event' = Append(clipboard_event, t) /\ UNCHANGED open_event
    /\ UNCHANGED <<phase, conn, paste, to_client, from_client, used, done, attaches>>

-----------------------------------------------------------------------------
(* The session *)

\* send_framed_timed, whose result the callers below do not look at.
send_framed_timed(k, t) ==
    to_client' = IF link = "up" THEN Append(to_client, [kind |-> k, tool |-> t])
                 ELSE to_client

HandleOpenEvent ==
    /\ phase \in {"attached", "detached"} /\ open_event # <<>>
    /\ open_event' = Tail(open_event)
    /\ LET t == Head(open_event)
       IN  IF phase = "attached" /\ open_forward_enabled
           THEN send_framed_timed("OpenUrl", t) /\ Tell({<<t, "yes">>})
           ELSE Tell({<<t, "no">>}) /\ UNCHANGED to_client
    /\ UNCHANGED <<kind, phase, conn, clipboard_event, paste, from_client, used,
                   done, attaches>>

HandleClipboardEvent ==
    /\ phase \in {"attached", "detached"} /\ clipboard_event # <<>>
    /\ clipboard_event' = Tail(clipboard_event)
    /\ LET t == Head(clipboard_event)
       IN  IF phase = "detached" \/ ~negotiated_caps
           THEN /\ Tell({<<t, IF kind[t] = "Copy" THEN "no" ELSE "closed">>})
                /\ UNCHANGED <<paste, to_client>>
           ELSE IF kind[t] = "Copy"
           THEN /\ send_framed_timed("Copy", t)
                /\ Tell({<<t, "yes">>})
                /\ UNCHANGED paste
           ELSE /\ Tell(TellPaste("closed"))
                /\ pending_paste' = t /\ paste_deadline' = TRUE
                /\ send_framed_timed("Paste", t)
    /\ UNCHANGED <<kind, phase, conn, open_event, from_client, used, done, attaches>>

PasteDeadline ==
    /\ phase = "attached" /\ paste_deadline
    /\ paste_deadline' = FALSE /\ pending_paste' = None
    /\ Tell(TellPaste("closed"))
    /\ UNCHANGED <<kind, phase, conn, queues, to_client, from_client, used, done, attaches>>

HandleClientFrame ==
    /\ phase = "attached" /\ from_client # <<>>
    /\ from_client' = Tail(from_client)
    /\ IF Head(from_client) = "OpenForward"
       THEN /\ open_forward_enabled' = TRUE
            /\ UNCHANGED <<paste, req, answer>>
       ELSE /\ paste_deadline' = FALSE /\ pending_paste' = None
            /\ Tell(TellPaste("data"))
            /\ UNCHANGED open_forward_enabled
    /\ UNCHANGED <<kind, phase, owner, link, caps, negotiated_caps, queues,
                   to_client, used, done, attaches>>

\* A client attaches, to a detached session or over another client.
Attach(c, forwards) ==
    /\ phase # "ended" /\ attaches < MaxAttaches
    /\ attaches' = attaches + 1
    /\ phase' = "attached" /\ owner' = c /\ link' = "up"
    /\ negotiated_caps' = (c \in caps)
    /\ open_forward_enabled' = FALSE
    /\ pending_paste' = None /\ paste_deadline' = FALSE
    /\ Tell(TellPaste("closed"))
    /\ to_client' = <<>>
    /\ from_client' = IF forwards THEN <<"OpenForward">> ELSE <<>>
    /\ UNCHANGED <<kind, caps, queues, used, done>>

LinkDies ==
    /\ link = "up"
    /\ link' = "dead"
    /\ to_client' = <<>> /\ from_client' = <<>>
    /\ UNCHANGED <<tools, phase, owner, caps, negotiated_caps,
                   open_forward_enabled, queues, paste, used, done, attaches>>

\* A mistake: the paste that waits for the client is left waiting.
ClientGoneQuietly ==
    /\ phase = "attached" /\ link = "dead"
    /\ phase' = "detached" /\ owner' = None /\ link' = "none"
    /\ open_forward_enabled' = FALSE
    /\ paste_deadline' = FALSE
    /\ UNCHANGED <<tools, caps, negotiated_caps, queues, pending_paste,
                   to_client, from_client, used, done, attaches>>

\* End of the stream, or eviction of a silent client.  negotiated_caps stays.
ClientGone ==
    /\ phase = "attached" /\ link = "dead"
    /\ phase' = "detached" /\ owner' = None /\ link' = "none"
    /\ open_forward_enabled' = FALSE
    /\ paste_deadline' = FALSE /\ pending_paste' = None
    /\ Tell(TellPaste("closed"))
    /\ UNCHANGED <<kind, caps, negotiated_caps, queues, to_client, from_client,
                   used, done, attaches>>

\* The session ends and drops its queues: a copy is answered "no" by its own
\* task, the other streams are closed.
End ==
    /\ phase # "ended"
    /\ phase' = "ended" /\ link' = "none"
    /\ Tell({<<t, IF kind[t] = "Copy" THEN "no" ELSE "closed">> :
                t \in Range(open_event) \cup Range(clipboard_event)}
            \cup TellPaste("closed"))
    /\ open_event' = <<>> /\ clipboard_event' = <<>>
    /\ pending_paste' = None /\ paste_deadline' = FALSE
    /\ UNCHANGED <<kind, owner, caps, negotiated_caps, open_forward_enabled,
                   to_client, from_client, used, done, attaches>>

-----------------------------------------------------------------------------
(* The client *)

\* RateLimiter::check; a timestamp leaves the window in WindowMoves.
check(c, k) == used[c][k] < MaxCount

ClientTakes ==
    /\ to_client # <<>> /\ owner # None
    /\ to_client' = Tail(to_client)
    /\ LET f == Head(to_client)
       IN  IF f.kind = "Paste"
           THEN /\ from_client' = IF link = "up" THEN Append(from_client, "ClipboardData")
                                  ELSE from_client
                /\ UNCHANGED <<used, done>>
           ELSE /\ IF check(owner, f.kind)
                   THEN /\ used' = [used EXCEPT ![owner][f.kind] = @ + 1]
                        /\ done' = done \cup {f.tool}
                   ELSE UNCHANGED <<used, done>>
                /\ UNCHANGED from_client
    /\ UNCHANGED <<tools, phase, conn, queues, paste, attaches>>

WindowMoves(c, k) ==
    /\ used[c][k] > 0
    /\ used' = [used EXCEPT ![c][k] = @ - 1]
    /\ UNCHANGED <<tools, phase, conn, queues, paste, to_client, from_client,
                   done, attaches>>

Next ==
    \/ \E t \in Tools, k \in Kinds, size \in {"fits", "empty", "large"} : Ask(t, k, size)
    \/ HandleOpenEvent \/ HandleClipboardEvent \/ PasteDeadline \/ HandleClientFrame
    \/ \E c \in Clients, f \in BOOLEAN : Attach(c, f)
    \/ LinkDies \/ ClientGone \/ End
    \/ ClientTakes
    \/ \E c \in Clients, k \in {"OpenUrl", "Copy"} : WindowMoves(c, k)

\* The session's loop gets to its queues and its deadlines, and drops a client
\* whose connection has died (by then silent for IDLE_EVICT_TIMEOUT).
Fairness ==
    /\ WF_vars(HandleOpenEvent) /\ WF_vars(HandleClipboardEvent)
    /\ WF_vars(PasteDeadline) /\ WF_vars(ClientGone)

Spec == Init /\ [][Next]_vars
FairSpec == Spec /\ Fairness

-----------------------------------------------------------------------------
(* Properties *)

TypeOK ==
    /\ kind \in [Tools -> Kinds \cup {None}]
    /\ req \in [Tools -> {"none", "queued", "over"}]
    /\ answer \in [Tools -> {"none", "yes", "no", "too_large", "closed", "data"}]
    /\ phase \in {"attached", "detached", "ended"}
    /\ owner \in Clients \cup {None} /\ link \in {"up", "dead", "none"}
    /\ pending_paste \in Tools \cup {None} /\ paste_deadline \in BOOLEAN
    /\ Range(open_event) \subseteq Tools /\ Range(clipboard_event) \subseteq Tools

\* A program that is told that nothing was done (it prints the URL for the user,
\* or fails) is told the truth: no client has opened or set what it asked for, and
\* none will (the reply to the service socket, after send_framed_timed).
ToldTruly ==
    \A t \in Tools : answer[t] \in {"no", "too_large", "closed"} => t \notin done

\* Every request is answered, whatever becomes of the clients, and truly.
AnsweredTruly ==
    /\ \A t \in Tools : req[t] # "none" ~> answer[t] # "none"
    /\ []ToldTruly

=============================================================================
