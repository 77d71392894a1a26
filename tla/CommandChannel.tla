--------------------------- MODULE CommandChannel ---------------------------
(***************************************************************************)
(* What the host/DSP interface promises to an application client, with no  *)
(* queue bounds, message descriptors, event flags or threads in it:        *)
(*   - a command is executed by the DSP once, in the order it was sent;    *)
(*   - it is answered once, and answers reach their client in the order    *)
(*     the DSP completed the commands;                                     *)
(*   - an answered command slot belongs to the application again.          *)
(* ProxyIpc, the translation of xf-msgq.c, xf-msg.c, xf-msgq1.c and of the *)
(* proxy thread, is shown to implement this module.                        *)
(***************************************************************************)
EXTENDS Sequences

CONSTANTS
    Clients,      \* application-side clients (and the proxy itself)
    Bufs          \* command slots of one client (its buffers)

Slots == Clients \X Bufs
Client(s) == s[1]

VARIABLES
    owned,        \* slots that belong to the application
    requests,     \* commands sent and not yet accepted by the DSP, in order
    executing,    \* commands the DSP is working on
    answers,      \* completed commands on their way back, in order
    inbox         \* answers each client has not read yet

chanVars == <<owned, requests, executing, answers, inbox>>

ChanInit ==
    /\ owned = Slots
    /\ requests = <<>>
    /\ executing = {}
    /\ answers = <<>>
    /\ inbox = [c \in Clients |-> <<>>]

\* The application sends a command: the slot is no longer its own.
Send(s) ==
    /\ s \in owned
    /\ owned' = owned \ {s}
    /\ requests' = Append(requests, s)
    /\ UNCHANGED <<executing, answers, inbox>>

\* The DSP takes the oldest command.
Accept ==
    /\ requests # <<>>
    /\ executing' = executing \cup {Head(requests)}
    /\ requests' = Tail(requests)
    /\ UNCHANGED <<owned, answers, inbox>>

\* The DSP takes the oldest command and answers it at once.
Reply ==
    /\ requests # <<>>
    /\ answers' = Append(answers, Head(requests))
    /\ requests' = Tail(requests)
    /\ UNCHANGED <<owned, executing, inbox>>

\* The DSP completes any command it is working on.
Finish(s) ==
    /\ s \in executing
    /\ executing' = executing \ {s}
    /\ answers' = Append(answers, s)
    /\ UNCHANGED <<owned, requests, inbox>>

\* The oldest answer reaches the client that sent the command.
Deliver ==
    /\ answers # <<>>
    /\ LET s == Head(answers) IN
         inbox' = [inbox EXCEPT ![Client(s)] = Append(@, s)]
    /\ answers' = Tail(answers)
    /\ UNCHANGED <<owned, requests, executing>>

\* The client reads its oldest answer and owns the slot again.
Receive(c) ==
    /\ inbox[c] # <<>>
    /\ owned' = owned \cup {Head(inbox[c])}
    /\ inbox' = [inbox EXCEPT ![c] = Tail(@)]
    /\ UNCHANGED <<requests, executing, answers>>

ChanNext ==
    \/ \E s \in Slots : Send(s) \/ Finish(s)
    \/ Accept
    \/ Reply
    \/ Deliver
    \/ \E c \in Clients : Receive(c)

ChanSpec == ChanInit /\ [][ChanNext]_chanVars

\* The channel with progress: whatever was sent is accepted, completed,
\* delivered and read.
ChanLive ==
    /\ WF_chanVars(Accept \/ Reply)
    /\ \A s \in Slots : WF_chanVars(Finish(s))
    /\ WF_chanVars(Deliver)
    /\ \A c \in Clients : WF_chanVars(Receive(c))

FairChanSpec == ChanSpec /\ ChanLive
==============================================================================
