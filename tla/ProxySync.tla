------------------------------ MODULE ProxySync ------------------------------
(***************************************************************************)
(* The application side's proxy (xf-proxy.c): opening and closing          *)
(* component handles, the map from local client ids to handles, synchronous *)
(* commands with their time-out, and the proxy thread, which gives every   *)
(* answer of the DSP either to the synchronous call in progress or to the  *)
(* queue of a handle.                                                      *)
(* The transport below is the one ProxyIpc models, taken here as a reliable *)
(* queue each way. The DSP is what xf-core.c makes of a command: it answers *)
(* each one once, those of one component in order, those of different      *)
(* components in any order. A component is never created twice, so that an *)
(* earlier user of a client id can be told from a later one.               *)
(***************************************************************************)
EXTENDS Integers, Sequences, FiniteSets, SequencesExt

CONSTANTS
    Threads,     \* application threads
    Handles,     \* component handles (xf_handle_t)
    Clients,     \* local client ids 0 .. XF_CFG_PROXY_MAX_CLIENTS - 1
    Buffers,     \* proxy->aux, the pool of control buffers
    Components,  \* components the DSP can create
    Cmds,        \* command descriptors
    MayTimeout,  \* may an answer take longer than MAXIMUM_TIMEOUT?
    None

ASSUME ClientsAssumption ==
    /\ IsFiniteSet(Clients)
    /\ Clients = 0..(Cardinality(Clients) - 1)
    /\ Cardinality(Clients) > 1
ASSUME NoneAssumption ==
    None \notin Threads \cup Handles \cup Components \cup Cmds \cup Buffers \cup Clients
ASSUME HandlesAssumption == Handles \cap Clients = {}
ASSUME TimeoutAssumption == MayTimeout \in BOOLEAN

VARIABLES
    lock,      \* proxy->lock: the thread inside, or None
    cmap,      \* proxy->cmap, links and handles; [0] heads the free list
    aux,       \* control buffers in the pool
    handle,    \* handles: state, local client id, DSP component, buffer
    thread,    \* application threads: the call they are in
    result,    \* what the call that has just returned reported
    cmd,       \* descriptors in use: what they ask
    out,       \* commands the DSP has not answered, in the order they were sent
    resp,      \* answers the proxy thread has not read
    inbox,     \* proxy->ipc.lresp_msgq
    box,       \* handle->ipc.resp_msgq
    live,      \* components of the DSP
    fresh,     \* components not created yet
    timely     \* history: no call has timed out

vars == <<timely, lock, cmap, aux, handle, thread, result, cmd, out, resp, inbox, box, live, fresh>>

Closed == [st |-> "closed", client |-> 0, comp |-> None, buf |-> None]
Blank == [op |-> "none", handle |-> None, client |-> 0, comp |-> None, buf |-> None]
NoAnswer == [cmd |-> None, op |-> "none", comp |-> None]
Idle == [pc |-> "idle", cmd |-> None, asked |-> Blank, answer |-> NoAnswer]

\* xf_proxy_init links the clients; the last one points back to the head.
LinkPastEnd(c) == c + 1
InitialLink(c) == IF c + 1 \in Clients THEN c + 1 ELSE 0

Init ==
    /\ lock = None
    /\ cmap = [c \in Clients |-> InitialLink(c)]
    /\ aux = Buffers
    /\ handle = [h \in Handles |-> Closed]
    /\ thread = [t \in Threads |-> Idle]
    /\ result = "none"
    /\ cmd = [c \in Cmds |-> Blank]
    /\ out = <<>>
    /\ resp = <<>>
    /\ inbox = <<>>
    /\ box = [h \in Handles |-> <<>>]
    /\ live = {}
    /\ fresh = Components
    /\ timely = TRUE

-----------------------------------------------------------------------------
(* The client map.                                                         *)

\* xf_client_alloc: the free list starts at cmap[0] and 0 ends it.
FreeHead == cmap[0]
Allocated(h) == [cmap EXCEPT ![0] = cmap[FreeHead], ![FreeHead] = h]

\* xf_client_free
NotUnmapped(c) == [cmap EXCEPT ![0] = c]
Freed(c) == [cmap EXCEPT ![c] = FreeHead, ![0] = c]

-----------------------------------------------------------------------------
(* Application calls. A call sends its command under the lock, waits for an *)
(* answer in the proxy's queue, and leaves with it or without.             *)

Submit(c, request) ==
    /\ cmd[c] = Blank
    /\ cmd' = [cmd EXCEPT ![c] = request]
    /\ out' = Append(out, c)

\* xf_proxy_lock ... xf_proxy_cmd_exec, up to the wait.
LockIgnored == TRUE
LockIsFree == lock = None
Begin(t, c, request) ==
    /\ thread[t] = Idle
    /\ LockIsFree
    /\ lock' = t
    /\ Submit(c, request)
    /\ thread' = [thread EXCEPT ![t] = [pc |-> "waiting", cmd |-> c,
                                          asked |-> request, answer |-> NoAnswer]]
    /\ result' = "none"

\* xf_buffer_get
BufferShared(b) == aux
WithoutBuffer(b) == aux \ {b}

\* xf_open: a control buffer, a local client id, and the registration.
Open(t, h, c, b) ==
    /\ handle[h].st = "closed"
    /\ b \in aux /\ FreeHead # 0
    /\ aux' = WithoutBuffer(b)
    /\ cmap' = Allocated(h)
    /\ handle' = [handle EXCEPT ![h] =
                    [st |-> "opening", client |-> FreeHead, comp |-> None, buf |-> b]]
    /\ Begin(t, c, [op |-> "register", handle |-> h, client |-> 0, comp |-> None, buf |-> b])
    /\ UNCHANGED <<timely, resp, inbox, box, live, fresh>>

\* xf_close
Close(t, h, c) ==
    /\ handle[h].st = "open"
    /\ handle' = [handle EXCEPT ![h].st = "closing"]
    /\ Begin(t, c, [op |-> "unregister", handle |-> h, client |-> 0,
                    comp |-> handle[h].comp, buf |-> None])
    /\ UNCHANGED <<timely, cmap, aux, resp, inbox, box, live, fresh>>

\* xf_route, xf_unroute, xf_create_event_channel, xf_delete_event_channel: a
\* command in a control buffer taken for the call.
Call(t, h, c, b) ==
    /\ handle[h].st = "open"
    /\ b \in aux
    /\ aux' = WithoutBuffer(b)
    /\ Begin(t, c, [op |-> "call", handle |-> h, client |-> 0,
                    comp |-> handle[h].comp, buf |-> b])
    /\ UNCHANGED <<timely, cmap, handle, resp, inbox, box, live, fresh>>

\* xf_set_config_with_lock, xf_get_config_with_lock: in the handle's own buffer.
Config(t, h, c) ==
    /\ handle[h].st = "open"
    /\ Begin(t, c, [op |-> "config", handle |-> h, client |-> 0,
                    comp |-> handle[h].comp, buf |-> handle[h].buf])
    /\ UNCHANGED <<timely, cmap, aux, handle, resp, inbox, box, live, fresh>>

\* xf_command: no lock, no waiting; the answer is for the handle.
Data(h, c) ==
    /\ handle[h].st = "open"
    /\ Submit(c, [op |-> "data", handle |-> h, client |-> handle[h].client,
                  comp |-> handle[h].comp, buf |-> None])
    /\ result' = "none"
    /\ UNCHANGED <<timely, lock, cmap, aux, handle, thread, resp, inbox, box, live, fresh>>

\* xf_response_get
Read(h) ==
    /\ handle[h].st = "open" /\ box[h] # <<>>
    /\ box' = [box EXCEPT ![h] = Tail(@)]
    /\ cmd' = [cmd EXCEPT ![Head(box[h]).cmd] = Blank]
    /\ result' = "none"
    /\ UNCHANGED <<timely, lock, cmap, aux, handle, thread, out, resp, inbox, live, fresh>>

\* xf_proxy_response_get, with an answer ...
TakeAnswer(t) ==
    /\ thread[t].pc = "waiting" /\ inbox # <<>>
    /\ inbox' = Tail(inbox)
    /\ thread' = [thread EXCEPT ![t].pc = "answered", ![t].answer = Head(inbox)]
    /\ cmd' = [cmd EXCEPT ![Head(inbox).cmd] = Blank]
    /\ result' = "none"
    /\ UNCHANGED <<timely, lock, cmap, aux, handle, out, resp, box, live, fresh>>

\* ... or without one, MAXIMUM_TIMEOUT later.
TimesOut(t) ==
    /\ MayTimeout
    /\ thread[t].pc = "waiting" /\ inbox = <<>>
    /\ thread' = [thread EXCEPT ![t].pc = "answered"]   \* the answer is NoAnswer
    /\ timely' = FALSE
    /\ result' = "none"
    /\ UNCHANGED <<lock, cmap, aux, handle, cmd, out, resp, inbox, box, live, fresh>>

Leaves(t, op) ==
    /\ thread[t].pc = "answered" /\ thread[t].asked.op = op
    /\ lock' = None
    /\ thread' = [thread EXCEPT ![t] = Idle]
    /\ UNCHANGED <<timely, out, resp, inbox, live, fresh>>

\* A handle's client id and buffer go back, and its queue is destroyed.
Destroyed(h) ==
    /\ cmap' = Freed(handle[h].client)
    /\ aux' = aux \cup {handle[h].buf}
    /\ handle' = [handle EXCEPT ![h] = Closed]
    /\ box' = [box EXCEPT ![h] = <<>>]
    /\ cmd' = [c \in Cmds |->
                 IF \E i \in DOMAIN box[h] : box[h][i].cmd = c THEN Blank ELSE cmd[c]]

\* The opcode of the answer tells success: it is the one that was asked for.
Unchecked(a, op) == TRUE
Rejected(a, op) == FALSE
Succeeded(a, op) == a.op = op

\* xf_client_register
OpenReturns(t) ==
    /\ Leaves(t, "register")
    /\ LET h == thread[t].asked.handle  a == thread[t].answer IN
         \/ /\ Succeeded(a, "register")
            /\ handle' = [handle EXCEPT ![h].st = "open", ![h].comp = a.comp]
            /\ result' = "success"
            /\ UNCHANGED <<cmap, aux, box, cmd>>
         \/ /\ ~Succeeded(a, "register")
            /\ result' = "failure"
            /\ Destroyed(h)

\* xf_close ignores the result of the unregistration.
CloseReturns(t) ==
    /\ Leaves(t, "unregister")
    /\ Destroyed(thread[t].asked.handle)
    /\ result' = "none"

CallReturns(t) ==
    /\ Leaves(t, "call")
    /\ aux' = aux \cup {thread[t].asked.buf}
    /\ result' = IF Succeeded(thread[t].answer, "call") THEN "success" ELSE "failure"
    /\ UNCHANGED <<cmap, handle, box, cmd>>

\* Only an answer changes the opcode that is checked here; without one the error
\* code returned is msg.error, which nothing has written.
ConfigReturns(t) ==
    /\ Leaves(t, "config")
    /\ \/ /\ thread[t].answer # NoAnswer
          /\ result' = IF Succeeded(thread[t].answer, "config") THEN "success" ELSE "failure"
       \/ /\ thread[t].answer = NoAnswer
          /\ \E r \in {"success", "failure"} : result' = r
    /\ UNCHANGED <<cmap, aux, handle, box, cmd>>

-----------------------------------------------------------------------------
(* The proxy thread: xf_proxy_thread.                                      *)

\* xf_client_lookup
MappedTo(c) == IF cmap[c] \in Handles THEN cmap[c] ELSE None

\* By destination: client 0 is the proxy, another a handle if there is one.
ForProxy(c) == cmd[c].client = 0
ToHandle(c) == MappedTo(cmd[c].client)

ProxyDelivers ==
    /\ resp # <<>>
    /\ resp' = Tail(resp)
    /\ LET a == Head(resp)  c == a.cmd IN
         \/ /\ ForProxy(c)
            /\ inbox' = Append(inbox, a)
            /\ UNCHANGED <<box, cmd>>
         \/ /\ ~ForProxy(c) /\ ToHandle(c) # None
            /\ box' = [box EXCEPT ![ToHandle(c)] = Append(@, a)]
            /\ UNCHANGED <<inbox, cmd>>
         \/ /\ ~ForProxy(c) /\ ToHandle(c) = None
            /\ cmd' = [cmd EXCEPT ![c] = Blank]
            /\ UNCHANGED <<inbox, box>>
    /\ result' = "none"
    /\ UNCHANGED <<timely, lock, cmap, aux, handle, thread, out, live, fresh>>

-----------------------------------------------------------------------------
(* The DSP. It completes a component's commands in order; a failure is     *)
(* answered with XF_UNREGISTER as its opcode (xf_response_err).            *)

AnyTurn(i) == TRUE
ItsTurn(i) ==
    \A j \in 1..(i - 1) : cmd[out[j]].comp # cmd[out[i]].comp \/ cmd[out[j]].comp = None

Answers(i, op, comp) ==
    /\ out' = RemoveAt(out, i)
    /\ resp' = Append(resp, [cmd |-> out[i], op |-> op, comp |-> comp])
    /\ result' = "none"
    /\ UNCHANGED <<timely, lock, cmap, aux, handle, thread, cmd, inbox, box>>

DspRegisters(i, k) ==
    /\ cmd[out[i]].op = "register"
    /\ k \in fresh
    /\ fresh' = fresh \ {k}
    /\ live' = live \cup {k}
    /\ Answers(i, "register", k)

DspUnregisters(i) ==
    /\ cmd[out[i]].op = "unregister"
    /\ ItsTurn(i)
    /\ live' = live \ {cmd[out[i]].comp}
    /\ Answers(i, "unregister", None)
    /\ UNCHANGED fresh

DspExecutes(i) ==
    /\ cmd[out[i]].op \in {"call", "config", "data"}
    /\ ItsTurn(i)
    /\ cmd[out[i]].comp \in live
    /\ Answers(i, cmd[out[i]].op, None)
    /\ UNCHANGED <<live, fresh>>

\* No component can be created, the component is not registered, or it fails.
DspFails(i) ==
    /\ cmd[out[i]].op # "unregister"
    /\ ItsTurn(i)
    /\ Answers(i, "unregister", None)
    /\ UNCHANGED <<live, fresh>>

-----------------------------------------------------------------------------
DspAnswers(i) ==
    \/ \E k \in Components : DspRegisters(i, k)
    \/ DspUnregisters(i) \/ DspExecutes(i) \/ DspFails(i)

Dsp == \E i \in DOMAIN out : DspAnswers(i)

Returns(t) == OpenReturns(t) \/ CloseReturns(t) \/ CallReturns(t) \/ ConfigReturns(t)

Begins(t) ==
    \E h \in Handles, c \in Cmds :
        \/ Close(t, h, c) \/ Config(t, h, c)
        \/ \E b \in Buffers : Open(t, h, c, b) \/ Call(t, h, c, b)

Next ==
    \/ \E t \in Threads : Begins(t) \/ TakeAnswer(t) \/ TimesOut(t) \/ Returns(t)
    \/ \E h \in Handles : Read(h) \/ \E c \in Cmds : Data(h, c)
    \/ ProxyDelivers
    \/ Dsp

Spec == Init /\ [][Next]_vars

-----------------------------------------------------------------------------
(* Properties.                                                             *)

Answer == [cmd : Cmds \cup {None}, comp : Components \cup {None},
           op : {"none", "register", "unregister", "call", "config", "data"}]
Request == [op : {"none", "register", "unregister", "call", "config", "data"},
            handle : Handles \cup {None}, client : Clients,
            comp : Components \cup {None}, buf : Buffers \cup {None}]

TypeOK ==
    /\ lock \in Threads \cup {None}
    /\ cmap \in [Clients -> Clients \cup Handles]
    /\ aux \subseteq Buffers
    /\ handle \in [Handles -> [st : {"closed", "opening", "open", "closing"},
                               client : Clients, comp : Components \cup {None},
                               buf : Buffers \cup {None}]]
    /\ thread \in [Threads -> [pc : {"idle", "waiting", "answered"},
                               cmd : Cmds \cup {None}, asked : Request, answer : Answer]]
    /\ result \in {"none", "success", "failure"}
    /\ cmd \in [Cmds -> Request]
    /\ out \in Seq(Cmds)
    /\ resp \in Seq(Answer) /\ inbox \in Seq(Answer)
    /\ box \in [Handles -> Seq(Answer)]
    /\ live \subseteq Components /\ fresh \subseteq Components /\ timely \in BOOLEAN

\* A call reports success only if the DSP executed its command ("check result is
\* successful"), until one has timed out.
SuccessIsReal ==
    [][\A t \in Threads : timely /\ Returns(t) /\ result' = "success" =>
          /\ thread[t].answer.cmd = thread[t].cmd
          /\ thread[t].answer.op = thread[t].asked.op]_vars

\* xf_client_unregister's assertion: "opcode must be XF_UNREGISTER".
UnregisterAnswered ==
    \A t \in Threads :
        thread[t].asked.op = "unregister" =>
            thread[t].answer = NoAnswer \/ thread[t].answer.op = "unregister"

\* Until a call times out, answers come to who asked. A synchronous call gets the answer to
\* its own command, never one to a command of an earlier call: calls share one queue, and
\* nothing in an answer says whose it is. An asynchronous answer reaches only the component
\* handle whose command it answers, though client ids are reused; one for a handle closed
\* since is dropped ("client has been disconnected already; drop message").
AnswersToSender == timely =>
    /\ \A t \in Threads : thread[t].answer # NoAnswer => thread[t].answer.cmd = thread[t].cmd
    /\ \A h \in Handles : \A i \in DOMAIN box[h] :
         LET c == box[h][i].cmd IN cmd[c].handle = h /\ cmd[c].comp = handle[h].comp

\* The free list of the client map: what its links lead to from the head.
Closes(S) == 0 \in S /\ \A c \in S : cmap[c] \in Clients => cmap[c] \in S
FreeClients == {c \in Clients : \A S \in SUBSET Clients : Closes(S) => c \in S}

\* Every local client id is on the free list or names the one handle that holds
\* it, also after calls that timed out or failed.
ClientsConserved ==
    \A c \in Clients \ {0} :
        IF c \in FreeClients THEN \A h \in Handles : handle[h].client # c
        ELSE cmap[c] \in Handles /\ handle[cmap[c]].client = c

\* A control buffer whose command the DSP has not answered is not in the pool:
\* the next call would overwrite what the DSP is about to read, until a call times out.
BuffersHeldWhileUsed == timely => \A i \in DOMAIN out : cmd[out[i]].buf \notin aux

\* No component is orphaned: each one is the component of a handle, or of a
\* registration or deletion that is still being reported, until a call times out.
NoOrphans == timely =>
    \A k \in live :
        \/ \E h \in Handles : handle[h].comp = k
        \/ \E t \in Threads : thread[t].answer.comp = k
        \/ \E i \in DOMAIN resp : resp[i].comp = k
        \/ \E i \in DOMAIN inbox : inbox[i].comp = k

=============================================================================
