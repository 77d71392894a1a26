------------------------------ MODULE ProxyIpc ------------------------------
(***************************************************************************)
(* The host/DSP interface of the hostless framework, thread by thread:     *)
(*   - application threads sending commands (xf_ipc_send) and reading      *)
(*     answers (xf_response_get, xf_proxy_response_get);                   *)
(*   - the DSP thread (xf_core_loop, xf_shmem_process_queues), which moves *)
(*     commands into message descriptors from a fixed pool and answers     *)
(*     into the bounded response queue;                                    *)
(*   - worker threads completing messages (xf_msg_proxy_complete);         *)
(*   - the proxy thread (xf_proxy_thread) handing answers to clients;      *)
(*   - the main thread closing the device (xaf_adev_close).                *)
(* They share one event group: CMD and DSP_DIE wake the DSP thread, RESP   *)
(* and DIE wake the proxy thread.                                          *)
(*                                                                         *)
(* A command is a slot <<client, buffer>>: the payload plays no part here. *)
(* The client of synchronous proxy commands is a member of Clients with    *)
(* one buffer in use at a time, its inbox being lresp_msgq.                *)
(***************************************************************************)
EXTENDS Integers, Sequences, FiniteSets

CONSTANTS
    Clients,       \* application clients, each with its own thread
    Bufs,          \* buffers (command slots) of one client
    Descriptors,   \* XF_CFG_MESSAGE_POOL_SIZE message descriptors
    Workers,       \* DSP worker threads
    CmdEntries,    \* SEND_MSGQ_ENTRIES
    RespEntries,   \* RECV_MSGQ_ENTRIES
    LocalEntries,  \* SEND_LOCAL_MSGQ_ENTRIES
    NoCmd          \* content of a descriptor that is in the pool

Slots == Clients \X Bufs
Client(s) == s[1]

ASSUME CapacityAssumption ==
    /\ CmdEntries \in Nat \ {0}
    /\ RespEntries \in Nat \ {0}
    /\ LocalEntries \in Nat \ {0}

ASSUME NoCmdAssumption == NoCmd \notin Slots

\* XAF_MAX_INBUFS + one output buffer never exceed the 16 entries of the
\* client's response queue.
ASSUME BufsAssumption == IsFiniteSet(Bufs) /\ Cardinality(Bufs) <= LocalEntries

Flags  == {"CMD", "RESP", "DIE", "DSP_DIE"}
Status == {"LOCAL", "REMOTE"}

VARIABLES
    owned,     \* slots the application owns
    apc,       \* application thread of each client: "idle" or "signal"
    cmdq,      \* cmd_msgq
    respq,     \* resp_msgq
    inbox,     \* the clients' resp_msgq / lresp_msgq
    events,    \* msgq_event: the flags that are set
    pool,      \* descriptors on the free list
    content,   \* the command a descriptor carries
    held,      \* descriptors submitted to the DSP and not completed
    remote,    \* rw->remote: completed descriptors, in order
    wpc,       \* worker threads: "idle" or "resume"
    dpc,       \* DSP thread
    status,    \* status flags of the current xf_shmem_process_queues pass
    ppc,       \* proxy thread
    pmsg,      \* answer in the proxy thread's hands
    mpc        \* main thread

hostVars == <<owned, apc, inbox>>
dspVars  == <<pool, content, held, remote>>
vars == <<owned, apc, cmdq, respq, inbox, events, pool, content, held,
          remote, wpc, dpc, status, ppc, pmsg, mpc>>

Init ==
    /\ owned = Slots
    /\ apc = [c \in Clients |-> "idle"]
    /\ cmdq = <<>>
    /\ respq = <<>>
    /\ inbox = [c \in Clients |-> <<>>]
    /\ events = {}
    /\ pool = Descriptors
    /\ content = [d \in Descriptors |-> NoCmd]
    /\ held = {}
    /\ remote = <<>>
    /\ wpc = [w \in Workers |-> "idle"]
    /\ dpc = "wait"
    /\ status = {}
    /\ ppc = "wait"
    /\ pmsg = NoCmd
    /\ mpc = "open"

-----------------------------------------------------------------------------
(* Application threads.                                                    *)

\* The application only sends a buffer it owns: one it has read back.
MaySendAny(c, b) == TRUE
MaySend(c, b) == <<c, b>> \in owned

\* xf_ipc_send, first half: put the command, waiting for room.
AppSend(c, b) ==
    /\ mpc = "open"
    /\ apc[c] = "idle"
    /\ MaySend(c, b)
    /\ Len(cmdq) < CmdEntries
    /\ owned' = owned \ {<<c, b>>}
    /\ cmdq' = Append(cmdq, <<c, b>>)
    /\ apc' = [apc EXCEPT ![c] = "signal"]
    /\ UNCHANGED <<respq, inbox, events, dspVars, wpc, dpc, status, ppc, pmsg, mpc>>

\* xf_ipc_send, second half: wake the DSP thread.
AppSignal(c) ==
    /\ apc[c] = "signal"
    /\ apc' = [apc EXCEPT ![c] = "idle"]
    /\ events' = events \cup {"CMD"}
    /\ UNCHANGED <<owned, cmdq, respq, inbox, dspVars, wpc, dpc, status, ppc, pmsg, mpc>>

\* xf_response_get / xf_proxy_response_get.
AppReceive(c) ==
    /\ apc[c] = "idle"
    /\ inbox[c] # <<>>
    /\ owned' = owned \cup {Head(inbox[c])}
    /\ inbox' = [inbox EXCEPT ![c] = Tail(@)]
    /\ UNCHANGED <<apc, cmdq, respq, events, dspVars, wpc, dpc, status, ppc, pmsg, mpc>>

-----------------------------------------------------------------------------
(* The proxy thread.                                                       *)

\* xf_ipc_wait: RESP or DIE is set; DIE ends the thread.
ProxyWake ==
    /\ ppc = "wait"
    /\ events \cap {"RESP", "DIE"} # {}
    /\ ppc' = IF "DIE" \in events THEN "exit" ELSE "clear"
    /\ UNCHANGED <<hostVars, cmdq, respq, events, dspVars, wpc, dpc, status, pmsg, mpc>>

\* xf_ipc_wait: RESP is cleared before the response queue is drained.
ProxyClear ==
    /\ ppc = "clear"
    /\ events' = events \ {"RESP"}
    /\ ppc' = "recv"
    /\ UNCHANGED <<hostVars, cmdq, respq, dspVars, wpc, dpc, status, pmsg, mpc>>

\* xf_ipc_recv: take an answer, or go back to waiting when there is none.
ProxyRecv ==
    /\ ppc = "recv"
    /\ respq # <<>>
    /\ pmsg' = Head(respq)
    /\ respq' = Tail(respq)
    /\ ppc' = "put"
    /\ UNCHANGED <<hostVars, cmdq, events, dspVars, wpc, dpc, status, mpc>>

ProxyDrained ==
    /\ ppc = "recv"
    /\ respq = <<>>
    /\ ppc' = "wait"
    /\ UNCHANGED <<hostVars, cmdq, respq, events, dspVars, wpc, dpc, status, pmsg, mpc>>

\* The client whose response callback takes the answer.
AnyRecipient(m) == CHOOSE c \in Clients : TRUE
Recipient(m) == Client(m)

\* xf_proxy_response_put / client->response: a blocking put.
InboxFull(c) == Len(inbox[c]) >= LocalEntries

ProxyPut ==
    /\ ppc = "put"
    /\ ~InboxFull(Client(pmsg))
    /\ inbox' = [inbox EXCEPT ![Recipient(pmsg)] = Append(@, pmsg)]
    /\ pmsg' = NoCmd
    /\ ppc' = "recv"
    /\ UNCHANGED <<owned, apc, cmdq, respq, events, dspVars, wpc, dpc, status, mpc>>

ProxyBlocked == ppc = "put" /\ InboxFull(Client(pmsg))

ProxyReady ==
    \/ ppc = "wait" /\ events \cap {"RESP", "DIE"} # {}
    \/ ppc \in {"clear", "recv"}
    \/ ppc = "put" /\ ~InboxFull(Client(pmsg))

\* xaf_adev_open only accepts a DSP thread priority below that of the proxy
\* thread: on one core the DSP thread runs only when the proxy thread cannot.
DspAnyPriority == TRUE
DspMayRun == ~ProxyReady

-----------------------------------------------------------------------------
(* The DSP thread.                                                         *)

\* xf_ipi_wait: CMD or DSP_DIE is set; DSP_DIE ends the loop.
DspWake ==
    /\ DspMayRun
    /\ dpc = "wait"
    /\ events \cap {"CMD", "DSP_DIE"} # {}
    /\ dpc' = IF "DSP_DIE" \in events THEN "exit" ELSE "clear"
    /\ UNCHANGED <<hostVars, cmdq, respq, events, dspVars, wpc, status, ppc, pmsg, mpc>>

\* xf_ipi_wait: both flags are cleared, then the queues are serviced.
DspClear ==
    /\ DspMayRun
    /\ dpc = "clear"
    /\ events' = events \ {"CMD", "DSP_DIE"}
    /\ dpc' = "output"
    /\ UNCHANGED <<hostVars, cmdq, respq, dspVars, wpc, status, ppc, pmsg, mpc>>

RespFull == Len(respq) >= RespEntries

\* What is sent for a completed descriptor, before it goes back to the pool.
AnswerOfFreed(d) == NoCmd
Answer(d) == content[d]

\* xf_msg_pool_put.
PoolLeak(d) == pool
PoolPut(d) == pool \cup {d}

\* xf_shmem_process_output: one turn of its loop.
DspOutput ==
    /\ DspMayRun
    /\ dpc = "output"
    /\ ~RespFull
    /\ remote # <<>>
    /\ LET d == Head(remote) IN
         /\ respq' = Append(respq, Answer(d))
         /\ content' = [content EXCEPT ![d] = NoCmd]
         /\ pool' = PoolPut(d)
    /\ remote' = Tail(remote)
    /\ status' = Status
    /\ UNCHANGED <<hostVars, cmdq, events, held, wpc, dpc, ppc, pmsg, mpc>>

DspOutputDone ==
    /\ DspMayRun
    /\ dpc = "output"
    /\ RespFull \/ remote = <<>>
    /\ dpc' = "input"
    /\ UNCHANGED <<hostVars, cmdq, respq, events, dspVars, wpc, status, ppc, pmsg, mpc>>

\* The status a received command adds: a full command queue also notifies
\* the other side.
InputStatus == IF Len(cmdq) >= CmdEntries THEN Status ELSE {"LOCAL"}

\* rw->remote is a FIFO (xf_sync_enqueue).
QueuedFirst(d) == <<d>> \o remote
Queued(d) == Append(remote, d)

\* xf_ipi_resume_dsp.
NotResumed == events
Resumed == events \cup {"CMD"}

\* xf_shmem_process_input: one turn of its loop, the command being handed to
\* a component (xf_msg_submit).
DspAccept(d) ==
    /\ DspMayRun
    /\ dpc = "input"
    /\ cmdq # <<>>
    /\ d \in pool
    /\ pool' = pool \ {d}
    /\ content' = [content EXCEPT ![d] = Head(cmdq)]
    /\ cmdq' = Tail(cmdq)
    /\ status' = status \cup InputStatus
    /\ held' = held \cup {d}
    /\ UNCHANGED <<hostVars, respq, events, remote, wpc, dpc, ppc, pmsg, mpc>>

\* The same turn for a command the DSP thread answers itself: a proxy command
\* (xf_proxy_command) or one for a client that is not registered. The answer
\* goes to rw->remote and the DSP thread wakes itself.
DspReply(d) ==
    /\ DspMayRun
    /\ dpc = "input"
    /\ cmdq # <<>>
    /\ d \in pool
    /\ pool' = pool \ {d}
    /\ content' = [content EXCEPT ![d] = Head(cmdq)]
    /\ cmdq' = Tail(cmdq)
    /\ status' = status \cup InputStatus
    /\ remote' = Queued(d)
    /\ events' = Resumed
    /\ UNCHANGED <<hostVars, respq, held, wpc, dpc, ppc, pmsg, mpc>>

\* xf_ipi_assert at the end of a pass that sent an answer.
NotNotified == events
Notified == IF "REMOTE" \in status THEN events \cup {"RESP"} ELSE events

\* End of a pass of xf_shmem_process_queues: notify the proxy thread, and
\* make another pass if this one did anything.
DspPassDone ==
    /\ DspMayRun
    /\ dpc = "input"
    /\ cmdq = <<>> \/ pool = {}
    /\ events' = Notified
    /\ dpc' = IF status = {} THEN "wait" ELSE "output"
    /\ status' = {}
    /\ UNCHANGED <<hostVars, cmdq, respq, dspVars, wpc, ppc, pmsg, mpc>>

-----------------------------------------------------------------------------
(* Worker threads.                                                         *)

\* xf_msg_proxy_put, first half: queue the completed message.
WorkerComplete(w, d) ==
    /\ wpc[w] = "idle"
    /\ d \in held
    /\ held' = held \ {d}
    /\ remote' = Queued(d)
    /\ wpc' = [wpc EXCEPT ![w] = "resume"]
    /\ UNCHANGED <<hostVars, cmdq, respq, events, pool, content, dpc, status, ppc, pmsg, mpc>>

\* xf_msg_proxy_put, second half: xf_ipi_resume_dsp.
WorkerResume(w) ==
    /\ wpc[w] = "resume"
    /\ wpc' = [wpc EXCEPT ![w] = "idle"]
    /\ events' = Resumed
    /\ UNCHANGED <<hostVars, cmdq, respq, dspVars, dpc, status, ppc, pmsg, mpc>>

-----------------------------------------------------------------------------
(* The main thread: xaf_adev_close once every component is deleted. It is  *)
(* never scheduled between the two halves of xf_ipi_wait: see README.      *)

CloseSetDspDie ==
    /\ mpc = "open"
    /\ owned = Slots
    /\ \A c \in Clients : apc[c] = "idle"
    /\ dpc # "clear"
    /\ events' = events \cup {"DSP_DIE"}
    /\ mpc' = "joinDsp"
    /\ UNCHANGED <<hostVars, cmdq, respq, dspVars, wpc, dpc, status, ppc, pmsg>>

\* xf_ipc_close_set_event.
NotToldToDie == events \cup {"RESP"}
ToldToDie == events \cup {"DIE"}

CloseProxy ==
    /\ mpc = "joinDsp"
    /\ dpc = "exit"
    /\ events' = ToldToDie
    /\ mpc' = "joinProxy"
    /\ UNCHANGED <<hostVars, cmdq, respq, dspVars, wpc, dpc, status, ppc, pmsg>>

CloseDone ==
    /\ mpc = "joinProxy"
    /\ ppc = "exit"
    /\ mpc' = "closed"
    /\ UNCHANGED <<hostVars, cmdq, respq, events, dspVars, wpc, dpc, status, ppc, pmsg>>

-----------------------------------------------------------------------------
App(c) == (\E b \in Bufs : AppSend(c, b)) \/ AppSignal(c) \/ AppReceive(c)

ProxyThread == ProxyWake \/ ProxyClear \/ ProxyRecv \/ ProxyDrained \/ ProxyPut

DspThread ==
    \/ DspWake \/ DspClear \/ DspOutput \/ DspOutputDone \/ DspPassDone
    \/ \E d \in Descriptors : DspAccept(d) \/ DspReply(d)

Worker(w) == (\E d \in Descriptors : WorkerComplete(w, d)) \/ WorkerResume(w)

MainThread == CloseSetDspDie \/ CloseProxy \/ CloseDone

Next ==
    \/ \E c \in Clients : App(c)
    \/ ProxyThread
    \/ DspThread
    \/ \E w \in Workers : Worker(w)
    \/ MainThread

Spec == Init /\ [][Next]_vars

\* Every thread runs; a component completes every message it is given, even
\* if its worker is busy with others in between (its queue is a FIFO); the
\* application reads its answers. It need never send, nor ever close.
Fairness ==
    /\ \A c \in Clients : WF_vars(AppSignal(c)) /\ WF_vars(AppReceive(c))
    /\ WF_vars(ProxyThread)
    /\ WF_vars(DspThread)
    /\ \A w \in Workers : WF_vars(WorkerResume(w))
    /\ \A d \in Descriptors : SF_vars(\E w \in Workers : WorkerComplete(w, d))
    /\ WF_vars(CloseProxy) /\ WF_vars(CloseDone)

FairSpec == Spec /\ Fairness

-----------------------------------------------------------------------------
(* Properties.                                                             *)

TypeOK ==
    /\ owned \subseteq Slots
    /\ apc \in [Clients -> {"idle", "signal"}]
    /\ cmdq \in Seq(Slots)
    /\ respq \in Seq(Slots)
    /\ inbox \in [Clients -> Seq(Slots)]
    /\ events \subseteq Flags
    /\ pool \subseteq Descriptors
    /\ content \in [Descriptors -> Slots \cup {NoCmd}]
    /\ held \subseteq Descriptors
    /\ remote \in Seq(Descriptors)
    /\ wpc \in [Workers -> {"idle", "resume"}]
    /\ dpc \in {"wait", "clear", "output", "input", "exit"}
    /\ status \subseteq Status
    /\ ppc \in {"wait", "clear", "recv", "put", "exit"}
    /\ pmsg \in Slots \cup {NoCmd}
    /\ mpc \in {"open", "joinDsp", "joinProxy", "closed"}

\* No slot or descriptor occurs twice in a queue.
Distinct(q) == \A i, j \in 1..Len(q) : q[i] = q[j] => i = j
Elements(q) == {q[i] : i \in 1..Len(q)}

\* A descriptor is on the free list, with a component, or on rw->remote, in
\* exactly one of them, and carries a command exactly when it is not free:
\* what xf_msg_enqueue asserts with BUG(m->next != NULL, "message is active"),
\* for every place a descriptor can be in.
DescriptorConserved ==
    /\ Distinct(remote)
    /\ pool \cap held = {}
    /\ pool \cap Elements(remote) = {}
    /\ held \cap Elements(remote) = {}
    /\ pool \cup held \cup Elements(remote) = Descriptors
    /\ \A d \in Descriptors : content[d] = NoCmd <=> d \in pool

\* Where a command slot can be.
InDsp(s)   == \E d \in Descriptors : content[d] = s
InInbox(s) == s \in Elements(inbox[Client(s)])

\* A command is in exactly one place from the moment the application gives it
\* up to the moment it reads the answer: none is lost between two queues, none
\* is answered twice, and an answer only ever sits in its own client's inbox.
CommandConserved ==
    /\ Distinct(cmdq) /\ Distinct(respq)
    /\ \A c \in Clients : Distinct(inbox[c])
    /\ \A c \in Clients : \A s \in Elements(inbox[c]) : Client(s) = c
    /\ \A d, e \in Descriptors : content[d] = content[e] /\ content[d] # NoCmd => d = e
    /\ \A s \in Slots :
         /\ \/ s \in owned \/ s \in Elements(cmdq) \/ InDsp(s)
            \/ s \in Elements(respq) \/ s = pmsg \/ InInbox(s)
         /\ s \in owned => /\ s \notin Elements(cmdq) /\ ~InDsp(s)
                           /\ s \notin Elements(respq) /\ s # pmsg /\ ~InInbox(s)
         /\ s \in Elements(cmdq) => /\ ~InDsp(s) /\ s \notin Elements(respq)
                                    /\ s # pmsg /\ ~InInbox(s)
         /\ InDsp(s) => s \notin Elements(respq) /\ s # pmsg /\ ~InInbox(s)
         /\ s \in Elements(respq) => s # pmsg /\ ~InInbox(s)
         /\ s = pmsg => ~InInbox(s)

\* The proxy thread never waits for a client to read: the comment at the
\* response callback in xf_proxy_thread says it "must be non-blocking", and
\* one slow client would otherwise hold up the answers of all the others.
ProxyNeverBlocks == ~ProxyBlocked

\* Somebody is between queueing a message and setting CMD.
WakeupPending ==
    \/ "CMD" \in events
    \/ \E c \in Clients : apc[c] = "signal"
    \/ \E w \in Workers : wpc[w] = "resume"

\* The DSP thread does not go to sleep over work it could do: when it waits
\* and no wake-up is on its way, every completed message has been sent out and
\* commands are left in cmd_msgq only for want of a descriptor. (The response
\* queue may have been full when the DSP thread looked, and nothing tells it
\* that the proxy thread has made room.)
NoLostWakeup ==
    dpc = "wait" /\ ~WakeupPending =>
        remote = <<>> /\ (cmdq = <<>> \/ pool = {})

\* The proxy thread does not go to sleep over an unread answer: RESP is
\* cleared before the drain, and the DSP thread sets it after a pass that sent.
NoLostAnswer ==
    ppc = "wait" /\ "RESP" \notin events /\ "REMOTE" \notin status =>
        respq = <<>>

\* The interface implements the channel of CommandChannel, with its progress:
\* bounded queues, descriptors, event flags and threads lose, duplicate and
\* reorder nothing, and whatever is sent is in the end answered and read.
Executing == {content[d] : d \in held}
Completed == [i \in 1..Len(remote) |-> content[remote[i]]]
Answers   == (IF pmsg = NoCmd THEN <<>> ELSE <<pmsg>>) \o (respq \o Completed)

Channel == INSTANCE CommandChannel WITH
    requests <- cmdq, executing <- Executing, answers <- Answers

ImplementsChannel == Channel!ChanSpec
ImplementsFairChannel == Channel!FairChanSpec

\* Closing the device ends both threads: xaf_adev_close joins the DSP thread
\* and then the proxy thread, and each can be asleep when it is told to end.
CloseTerminates == mpc = "joinDsp" ~> mpc = "closed"
==============================================================================
