---------------------------- MODULE CoreDispatch ----------------------------
(***************************************************************************)
(* The DSP core's message dispatcher with worker threads (xf-core.c):      *)
(*   - the client map, a union of component pointers and free-list links   *)
(*     (xf_client_lookup, xf_client_alloc, xf_client_free);                *)
(*   - the DSP thread, which registers components and hands every other    *)
(*     command to the queue of the worker the component's priority names   *)
(*     (xf_core_dispatch, xf_comp_send);                                   *)
(*   - worker threads running scheduled components first and then the      *)
(*     messages of their queue (dsp_worker_entry);                         *)
(*   - the deletion of a component: exit, then, at a priority above the    *)
(*     DSP thread, the purge of the worker queue with a marker, then the   *)
(*     recycling of the client id (xf_core_process_message,                *)
(*     xf_client_cleanup, xf_worker_queue_purge).                          *)
(* Commands come from the application; messages between components do not  *)
(* appear. A component object is never allocated twice, so that one that   *)
(* was destroyed can be told from its successor under the same client id.  *)
(***************************************************************************)
EXTENDS Integers, Sequences, FiniteSets, SequencesExt

CONSTANTS
    Ids,           \* client ids, 0 .. XF_CFG_MAX_CLIENTS - 1
    Components,    \* component objects that can ever be created
    Workers,       \* worker indices 0 .. n_workers - 1; 0 is the background one
    Msgs,          \* command descriptors
    QueueEntries,  \* length of a worker queue
    DataUntil,     \* data for a component may be sent until its deletion is "asked"
                   \* for, until it has "exited", or for "ever"
    None

End == Cardinality(Ids)             \* XF_CFG_MAX_CLIENTS, the end of the free list
LastWorker == Cardinality(Workers) - 1
\* component_default_priority_idx, the real-time workers being above worker 0.
DefaultWorkerPastEnd == LastWorker + 1
DefaultWorker == LastWorker

ASSUME IdsAssumption == Ids = 0..(Cardinality(Ids) - 1) /\ IsFiniteSet(Ids)
ASSUME WorkersAssumption ==
    Workers = 0..(Cardinality(Workers) - 1) /\ IsFiniteSet(Workers) /\ Workers # {}
ASSUME NoneAssumption == None \notin Components \cup Msgs \cup Workers
ASSUME ComponentsAssumption == Components \cap (Ids \cup {End}) = {}
ASSUME UntilAssumption == DataUntil \in {"asked", "exited", "ever"}
ASSUME QueueAssumption == QueueEntries \in Nat \ {0}

VARIABLES
    cmap,      \* cd->cmap
    free,      \* cd->free
    fresh,     \* component objects not created yet
    alive,     \* component objects whose memory is allocated
    id,        \* component->id
    prio,      \* component->priority
    ready,     \* components with XA_BASE_FLAG_POSTINIT set
    flag,      \* components with XA_BASE_FLAG_SCHEDULE set
    tree,      \* worker->sched: tasks waiting to run
    inside,    \* messages a component holds
    cmd,       \* what a descriptor says: operation and component it is meant for
    owned,     \* descriptors of the application (their answer has been sent)
    open,      \* components the application has registered and not deleted
    cmdq,      \* commands waiting for the DSP thread
    queue,     \* worker->queue
    dsp,       \* DSP thread: where it is, its message, component and queue
    wk,        \* worker threads: where they are, message, component, priority
    elevated,  \* the worker running above the DSP thread, or None
    sent       \* history: commands for a component, sent and not yet executed

mapVars  == <<cmap, free>>
compVars == <<fresh, alive, id, prio, ready>>
runVars  == <<flag, tree, inside>>
appVars  == <<cmd, owned, open>>
vars == <<mapVars, compVars, runVars, appVars, cmdq, queue, dsp, wk, elevated, sent>>

Item(k, m) == [to |-> k, msg |-> m]
Marker == Item(None, None)
Blank == [op |-> "data", for |-> None, arg |-> None]
Idle == [pc |-> "idle", msg |-> None, to |-> None, at |-> None]

Init ==
    /\ cmap = [i \in Ids |-> i + 1]
    /\ free = 0
    /\ fresh = Components
    /\ alive = {}
    /\ id = [k \in Components |-> End]
    /\ prio = [k \in Components |-> DefaultWorker]
    /\ ready = {}
    /\ flag = {}
    /\ tree = [w \in Workers |-> {}]
    /\ inside = [k \in Components |-> {}]
    /\ cmd = [m \in Msgs |-> Blank]
    /\ owned = Msgs
    /\ open = {}
    /\ cmdq = <<>>
    /\ queue = [w \in Workers |-> <<>>]
    /\ dsp = Idle
    /\ wk = [w \in Workers |-> Idle]
    /\ elevated = None
    /\ sent = [k \in Components |-> <<>>]

-----------------------------------------------------------------------------
(* The application. Registering, deleting and configuring are synchronous  *)
(* and hold the proxy lock; data commands are not and do not.              *)

Outstanding(k) == {m \in Msgs \ owned : cmd[m].for = k}
LockFree == \A m \in Msgs \ owned : cmd[m].op = "data"
\* A priority is given, or the component's first configuration resets it.
Moves(k, p) == p # None \/ k \notin ready
Moving(k) == \E m \in Outstanding(k) : cmd[m].op = "setparam" /\ Moves(k, cmd[m].arg)

Issue(m, op, k, arg) ==
    /\ m \in owned
    /\ owned' = owned \ {m}
    /\ cmd' = [n \in Msgs |-> IF n = m THEN [op |-> op, for |-> k, arg |-> arg]
                             ELSE IF n \in owned THEN Blank ELSE cmd[n]]
    /\ cmdq' = Append(cmdq, m)
    /\ sent' = IF k = None THEN sent ELSE [sent EXCEPT ![k] = Append(@, m)]
    /\ UNCHANGED <<mapVars, compVars, runVars, open, queue, dsp, wk, elevated>>

\* xf_client_register
HostRegister(m) == LockFree /\ Issue(m, "register", None, None)

\* xaf_comp_set_config, with or without XAF_COMP_CONFIG_PARAM_PRIORITY; worker
\* 0 cannot be asked for. The application moves no component that has commands
\* outstanding: a task put on the tree of a sleeping worker would wait there.
HostSetParam(m, k, p) ==
    /\ LockFree /\ k \in open
    /\ Outstanding(k) = {} \/ ~Moves(k, p)
    /\ Issue(m, "setparam", k, p)

\* Its deletion has been asked for and not executed.
Leaving(k) == \E m \in Outstanding(k) : cmd[m].op = "unregister"

\* xf_command, asynchronous: another thread may issue it during a deletion, and a
\* component of another worker that is still connected may send after it.
HostData(m, k) ==
    /\ k \notin fresh /\ ~Moving(k)
    /\ DataUntil # "ever" => k \in open
    /\ DataUntil = "asked" => ~Leaving(k)
    /\ Issue(m, "data", k, None)

\* xf_client_unregister
HostUnregister(m, k) ==
    /\ LockFree /\ k \in open
    /\ Issue(m, "unregister", k, None)

-----------------------------------------------------------------------------
(* Scheduling. One core: a worker that cleans a client up runs above the   *)
(* DSP thread, which runs above the workers.                               *)

QueueFull(w) == Len(queue[w]) >= QueueEntries

DspBlocked == dsp.pc = "send" /\ QueueFull(dsp.at)
DspReady   == ~DspBlocked /\ (dsp.pc # "idle" \/ cmdq # <<>>)

Blocked(w) == \/ wk[w].pc = "marker" /\ QueueFull(wk[w].at)
              \/ wk[w].pc = "purge" /\ queue[wk[w].at] = <<>>

NoneElevated == elevated \in Workers => Blocked(elevated)

DspMayRun == NoneElevated
WorkerMayRun(w) == elevated = w \/ (NoneElevated /\ ~DspReady)

\* The priority field of a component: in freed memory it may have become a link
\* of the allocator's address tree (xf_mm_block_t.a_node.left), a pointer,
\* which xf_comp_send takes for the last worker.
AnyWorker(k) == Workers
PriorityRead(k) == IF k \in alive THEN {prio[k]} ELSE {prio[k], LastWorker}

\* xf_client_free links the client before the head of the free list.
NotRelinked(i) == [cmap EXCEPT ![i] = i + 1]
Recycled(i) == [cmap EXCEPT ![i] = free]

Lookup(i) == IF cmap[i] \in Components THEN cmap[i] ELSE None
Client(m) == id[cmd[m].for]

\* m will not be executed, or is being executed: it leaves the history.
Forget(m) == [k \in Components |->
    IF \E i \in DOMAIN sent[k] : sent[k][i] = m
    THEN RemoveAt(sent[k], CHOOSE i \in DOMAIN sent[k] : sent[k][i] = m) ELSE sent[k]]

-----------------------------------------------------------------------------
(* The DSP thread: xf_core_dispatch.                                       *)

\* xf_proxy_register: xf_client_alloc reads the head of the free list.
DspRegister ==
    /\ DspMayRun
    /\ dsp.pc = "idle" /\ cmdq # <<>> /\ cmd[Head(cmdq)].op = "register"
    /\ cmdq' = Tail(cmdq)
    /\ \/ /\ free = End
          /\ owned' = owned \cup {Head(cmdq)}
          /\ UNCHANGED dsp
       \/ /\ free # End
          /\ dsp' = [pc |-> "alloc", msg |-> Head(cmdq), to |-> None, at |-> free]
          /\ UNCHANGED owned
    /\ UNCHANGED <<mapVars, compVars, runVars, cmd, open, queue, wk, elevated, sent>>

\* xf_client_alloc advances the head past the client it took.
DspAlloc ==
    /\ DspMayRun
    /\ dsp.pc = "alloc"
    /\ free' = cmap[dsp.at]
    /\ dsp' = [dsp EXCEPT !.pc = "create"]
    /\ UNCHANGED <<cmap, compVars, runVars, appVars, cmdq, queue, wk, elevated, sent>>

\* The component is created and entered in the map.
DspCreate(k) ==
    /\ DspMayRun
    /\ dsp.pc = "create"
    /\ k \in fresh
    /\ fresh' = fresh \ {k}
    /\ alive' = alive \cup {k}
    /\ cmap' = [cmap EXCEPT ![dsp.at] = k]
    /\ id' = [id EXCEPT ![k] = dsp.at]
    /\ prio' = [prio EXCEPT ![k] = DefaultWorker]
    /\ UNCHANGED ready
    /\ owned' = owned \cup {dsp.msg}
    /\ open' = open \cup {k}
    /\ dsp' = Idle
    /\ UNCHANGED <<free, runVars, cmd, cmdq, queue, wk, elevated, sent>>

\* The class factory fails: the client id is recycled.
DspCreateFails ==
    /\ DspMayRun
    /\ dsp.pc = "create"
    /\ cmap' = Recycled(dsp.at)
    /\ free' = dsp.at
    /\ owned' = owned \cup {dsp.msg}
    /\ dsp' = Idle
    /\ UNCHANGED <<compVars, runVars, cmd, open, cmdq, queue, wk, elevated, sent>>

\* xf_core_dispatch: look the component up; a command for a client that is not
\* registered is answered with an error.
DspLookup ==
    /\ DspMayRun
    /\ dsp.pc = "idle" /\ cmdq # <<>> /\ cmd[Head(cmdq)].op # "register"
    /\ cmdq' = Tail(cmdq)
    /\ LET m == Head(cmdq)  k == Lookup(Client(m)) IN
         \/ /\ k # None
            /\ dsp' = [pc |-> "route", msg |-> m, to |-> k, at |-> None]
            /\ UNCHANGED <<owned, sent>>
         \/ /\ k = None
            /\ owned' = owned \cup {m}
            /\ sent' = Forget(m)
            /\ UNCHANGED dsp
    /\ UNCHANGED <<mapVars, compVars, runVars, cmd, open, queue, wk, elevated>>

\* xf_comp_send: the priority selects the queue ...
DspRoute(w) ==
    /\ DspMayRun
    /\ dsp.pc = "route"
    /\ w \in PriorityRead(dsp.to)
    /\ dsp' = [dsp EXCEPT !.pc = "send", !.at = w]
    /\ UNCHANGED <<mapVars, compVars, runVars, appVars, cmdq, queue, wk, elevated, sent>>

\* ... and the DSP thread waits for room in it.
DspSend ==
    /\ DspMayRun
    /\ dsp.pc = "send" /\ ~QueueFull(dsp.at)
    /\ queue' = [queue EXCEPT ![dsp.at] = Append(@, Item(dsp.to, dsp.msg))]
    /\ dsp' = Idle
    /\ UNCHANGED <<mapVars, compVars, runVars, appVars, cmdq, wk, elevated, sent>>

-----------------------------------------------------------------------------
(* A worker thread: dsp_worker_entry.                                      *)

\* xf_sched_put, xf_sched_cancel on the tree of the component's worker.
NotScheduled(k) == tree
Scheduled(k) == [tree EXCEPT ![prio[k]] = @ \cup {k}]
Cancelled(k) == [tree EXCEPT ![prio[k]] = @ \ {k}]

\* xf_sched_get: a scheduled component comes before any message.
WorkerTask(w, k) ==
    /\ WorkerMayRun(w)
    /\ wk[w].pc = "idle"
    /\ k \in tree[w]
    /\ tree' = [tree EXCEPT ![w] = @ \ {k}]
    /\ wk' = [wk EXCEPT ![w] = [pc |-> "task", msg |-> None, to |-> k, at |-> None]]
    /\ UNCHANGED <<mapVars, compVars, flag, inside, appVars, cmdq, queue, dsp, elevated, sent>>

\* xf_core_process: the component consumes and produces, completing some of
\* what it holds, and schedules itself again if there is more to do.
WorkerProcess(w, done) ==
    /\ WorkerMayRun(w)
    /\ wk[w].pc = "task"
    /\ LET k == wk[w].to IN
         /\ done \subseteq inside[k]
         /\ inside[k] # {} => done # {}
         /\ inside' = [inside EXCEPT ![k] = @ \ done]
         /\ IF inside[k] \ done = {}
            THEN flag' = flag \ {k} /\ UNCHANGED tree
            ELSE /\ flag' = flag \cup {k}
                 /\ tree' = Scheduled(k)
    /\ owned' = owned \cup done
    /\ wk' = [wk EXCEPT ![w] = Idle]
    /\ UNCHANGED <<mapVars, compVars, cmd, open, cmdq, queue, dsp, elevated, sent>>

\* With nothing scheduled the worker reads its queue and waits there until it
\* has a message (__xf_msgq_recv_blocking).
WorkerWait(w) ==
    /\ WorkerMayRun(w)
    /\ wk[w].pc = "idle"
    /\ tree[w] = {}
    /\ wk' = [wk EXCEPT ![w].pc = "wait"]
    /\ UNCHANGED <<mapVars, compVars, runVars, appVars, cmdq, queue, dsp, elevated, sent>>

\* A marker that reaches it here ends the thread.
WorkerRecv(w) ==
    /\ WorkerMayRun(w)
    /\ wk[w].pc = "wait"
    /\ queue[w] # <<>>
    /\ LET it == Head(queue[w]) IN
         wk' = [wk EXCEPT ![w] =
                  IF it = Marker THEN [Idle EXCEPT !.pc = "exit"]
                  ELSE [pc |-> "lookup", msg |-> it.msg, to |-> it.to, at |-> None]]
    /\ queue' = [queue EXCEPT ![w] = Tail(@)]
    /\ UNCHANGED <<mapVars, compVars, runVars, appVars, cmdq, dsp, elevated, sent>>

\* The client id must still be registered; the component run is the one found
\* when the message was sent. Its priority is read before it runs.
WorkerLookup(w, p) ==
    /\ WorkerMayRun(w)
    /\ wk[w].pc = "lookup"
    /\ Lookup(Client(wk[w].msg)) # None
    /\ p \in PriorityRead(wk[w].to)
    /\ wk' = [wk EXCEPT ![w].pc = "entry", ![w].at = p]
    /\ UNCHANGED <<mapVars, compVars, runVars, appVars, cmdq, queue, dsp, elevated, sent>>

WorkerReject(w) ==
    /\ WorkerMayRun(w)
    /\ wk[w].pc = "lookup"
    /\ Lookup(Client(wk[w].msg)) = None
    /\ owned' = owned \cup {wk[w].msg}
    /\ sent' = Forget(wk[w].msg)
    /\ wk' = [wk EXCEPT ![w] = Idle]
    /\ UNCHANGED <<mapVars, compVars, runVars, cmd, open, cmdq, queue, dsp, elevated>>

Enter(w, op) == WorkerMayRun(w) /\ wk[w].pc = "entry" /\ cmd[wk[w].msg].op = op

\* A data command: answered at once, or kept while the component is scheduled
\* on the worker its priority names (xa_base_schedule).
WorkerData(w) ==
    /\ Enter(w, "data")
    /\ LET k == wk[w].to  m == wk[w].msg IN
         \/ /\ owned' = owned \cup {m}
            /\ UNCHANGED runVars
         \/ /\ inside' = [inside EXCEPT ![k] = @ \cup {m}]
            /\ flag' = flag \cup {k}
            /\ tree' = IF k \in flag THEN tree ELSE Scheduled(k)
            /\ UNCHANGED owned
    /\ sent' = Forget(wk[w].msg)
    /\ wk' = [wk EXCEPT ![w] = Idle]
    /\ UNCHANGED <<mapVars, compVars, cmd, open, cmdq, queue, dsp, elevated>>

\* xa_base_set_param: the first one moves the component to worker 0, the default
\* when no priority is given; xa_component_setparam cancels a pending task and
\* schedules it on the new worker's tree.
WorkerSetParam(w) ==
    /\ Enter(w, "setparam")
    /\ LET k == wk[w].to  p == cmd[wk[w].msg].arg
           new == IF p # None THEN p ELSE IF k \in ready THEN prio[k] ELSE 0
       IN /\ prio' = [prio EXCEPT ![k] = new]
          /\ tree' = IF k \notin flag THEN tree
                     ELSE [v \in Workers |->
                             (IF v = prio[k] THEN tree[v] \ {k} ELSE tree[v])
                                \cup (IF v = new THEN {k} ELSE {})]
          /\ ready' = ready \cup {k}
    /\ owned' = owned \cup {wk[w].msg}
    /\ sent' = Forget(wk[w].msg)
    /\ wk' = [wk EXCEPT ![w] = Idle]
    /\ UNCHANGED <<mapVars, fresh, alive, id, flag, inside, cmd, open, cmdq, queue, dsp, elevated>>

\* component->exit: pending processing is cancelled, what the component holds
\* is completed, its memory freed and the command answered.
WorkerUnregister(w) ==
    /\ Enter(w, "unregister")
    /\ LET k == wk[w].to IN
         /\ tree' = IF k \in flag THEN Cancelled(k) ELSE tree
         /\ flag' = flag \ {k}
         /\ owned' = owned \cup inside[k] \cup {wk[w].msg}
         /\ inside' = [inside EXCEPT ![k] = {}]
         /\ alive' = alive \ {k}
         /\ open' = open \ {k}
    /\ sent' = Forget(wk[w].msg)
    /\ wk' = [wk EXCEPT ![w].pc = "cleanup", ![w].msg = None]
    /\ UNCHANGED <<mapVars, fresh, id, prio, ready, cmd, cmdq, queue, dsp, elevated>>

\* xf_client_cleanup: rise above the DSP thread,
WorkerElevate(w) ==
    /\ WorkerMayRun(w)
    /\ wk[w].pc = "cleanup"
    /\ elevated' = w
    /\ wk' = [wk EXCEPT ![w].pc = "marker"]
    /\ UNCHANGED <<mapVars, compVars, runVars, appVars, cmdq, queue, dsp, sent>>

\* put the marker into the queue of the component's worker, waiting for room,
WorkerMarker(w) ==
    /\ WorkerMayRun(w)
    /\ wk[w].pc = "marker" /\ ~QueueFull(wk[w].at)
    /\ queue' = [queue EXCEPT ![wk[w].at] = Append(@, Marker)]
    /\ wk' = [wk EXCEPT ![w].pc = "purge"]
    /\ UNCHANGED <<mapVars, compVars, runVars, appVars, cmdq, dsp, elevated, sent>>

\* (which items are the deleted client's, and what the queue keeps of an item)
NoneOfClient(w, it) == FALSE
OfClient(w, it) == it # Marker /\ Client(it.msg) = id[wk[w].to]
MarkerKept(w, it) == IF OfClient(w, it) THEN <<>> ELSE <<it>>
OnlyOwnKept(w, it) == <<>>
AllPutBack(w, it) == IF it = Marker THEN <<>> ELSE <<it>>
PutBack(w, it) == IF it = Marker \/ OfClient(w, it) THEN <<>> ELSE <<it>>

\* turn the queue round once, answering what is for this client with an error
\* (the read times out if another worker has taken the marker),
WorkerPurge(w) ==
    /\ WorkerMayRun(w)
    /\ wk[w].pc = "purge"
    /\ LET v == wk[w].at  it == Head(queue[v]) IN
         \/ /\ queue[v] = <<>>
            /\ wk' = [wk EXCEPT ![w].pc = "free"]
            /\ UNCHANGED <<queue, owned, sent>>
         \/ /\ queue[v] # <<>>
            /\ queue' = [queue EXCEPT ![v] = Tail(@) \o PutBack(w, it)]
            /\ wk' = IF it = Marker THEN [wk EXCEPT ![w].pc = "free"] ELSE wk
            /\ IF OfClient(w, it)
               THEN owned' = owned \cup {it.msg} /\ sent' = Forget(it.msg)
               ELSE UNCHANGED <<owned, sent>>
    /\ UNCHANGED <<mapVars, compVars, runVars, cmd, open, cmdq, dsp, elevated>>

\* recycle the client id and fall back to the worker's own priority.
WorkerFree(w) ==
    /\ WorkerMayRun(w)
    /\ wk[w].pc = "free"
    /\ cmap' = Recycled(id[wk[w].to])
    /\ free' = id[wk[w].to]
    /\ elevated' = None
    /\ wk' = [wk EXCEPT ![w] = Idle]
    /\ UNCHANGED <<compVars, runVars, appVars, cmdq, queue, dsp, sent>>

-----------------------------------------------------------------------------
App ==
    \E m \in Msgs :
       \/ HostRegister(m)
       \/ \E k \in Components :
            \/ HostData(m, k) \/ HostUnregister(m, k)
            \/ \E p \in (Workers \ {0}) \cup {None} : HostSetParam(m, k, p)

DspThread ==
    \/ DspRegister \/ DspAlloc \/ DspCreateFails \/ DspLookup \/ DspSend
    \/ \E k \in Components : DspCreate(k)
    \/ \E w \in Workers : DspRoute(w)

Worker(w) ==
    \/ \E k \in Components : WorkerTask(w, k)
    \/ \E done \in SUBSET Msgs : WorkerProcess(w, done)
    \/ \E p \in Workers : WorkerLookup(w, p)
    \/ WorkerWait(w) \/ WorkerRecv(w) \/ WorkerReject(w)
    \/ WorkerData(w) \/ WorkerSetParam(w) \/ WorkerUnregister(w)
    \/ WorkerElevate(w) \/ WorkerMarker(w) \/ WorkerPurge(w) \/ WorkerFree(w)

Next == App \/ DspThread \/ \E w \in Workers : Worker(w)

Spec == Init /\ [][Next]_vars

\* The DSP thread runs whenever it can; a worker runs whenever the threads
\* above it leave it the core time and again.
FairSpec == Spec /\ WF_vars(DspThread) /\ \A w \in Workers : SF_vars(Worker(w))

-----------------------------------------------------------------------------
(* Properties.                                                             *)

Places == {"idle", "alloc", "create", "route", "send"}
WorkerPlaces == {"idle", "wait", "task", "lookup", "entry", "cleanup", "marker", "purge", "free", "exit"}

TypeOK ==
    /\ cmap \in [Ids -> Ids \cup {End} \cup Components]
    /\ free \in Ids \cup {End}
    /\ fresh \subseteq Components /\ alive \subseteq Components
    /\ id \in [Components -> Ids \cup {End}]
    /\ prio \in [Components -> Workers]
    /\ ready \subseteq Components
    /\ flag \subseteq Components
    /\ tree \in [Workers -> SUBSET Components]
    /\ inside \in [Components -> SUBSET Msgs]
    /\ cmd \in [Msgs -> [op : {"register", "setparam", "data", "unregister"},
                         for : Components \cup {None}, arg : Workers \cup {None}]]
    /\ owned \subseteq Msgs /\ open \subseteq Components
    /\ cmdq \in Seq(Msgs)
    /\ queue \in [Workers -> Seq([to : Components \cup {None}, msg : Msgs \cup {None}])]
    /\ dsp \in [pc : Places, msg : Msgs \cup {None}, to : Components \cup {None},
                at : Ids \cup Workers \cup {None}]
    /\ wk \in [Workers -> [pc : WorkerPlaces, msg : Msgs \cup {None},
                           to : Components \cup {None}, at : Workers \cup {None}]]
    /\ elevated \in Workers \cup {None}
    /\ sent \in [Components -> Seq(Msgs)]

\* Who may have a command, and what each of them has.
Holders == {<<"application", None>>, <<"dsp queue", None>>, <<"dsp", None>>}
           \cup ({"queue", "worker"} \X Workers) \cup ({"component"} \X Components)
Holding(p) ==
    CASE p[1] = "application" -> owned
      [] p[1] = "dsp queue"   -> {cmdq[i] : i \in DOMAIN cmdq}
      [] p[1] = "dsp"         -> {dsp.msg} \ {None}
      [] p[1] = "queue"       -> {queue[p[2]][i].msg : i \in DOMAIN queue[p[2]]} \ {None}
      [] p[1] = "worker"      -> {wk[p[2]].msg} \ {None}
      [] p[1] = "component"   -> inside[p[2]]

\* A command is never lost, duplicated or answered twice: whatever the thread
\* switches, purges and failures, it is with the application or in one place of
\* the DSP (the zero-copy message passing of xf_comp_send, xf_response and the
\* purge's turning of the queue, which has one marker at most).
MessagesConserved ==
    /\ \A m \in Msgs : \E p \in Holders : \A q \in Holders : m \in Holding(q) <=> q = p
    /\ \A i, j \in DOMAIN cmdq : cmdq[i] = cmdq[j] => i = j
    /\ \A w \in Workers : \A i, j \in DOMAIN queue[w] : queue[w][i].msg = queue[w][j].msg => i = j

Busy == {"task", "entry"}

\* A worker enters a component only while its memory is allocated: neither a task
\* nor a message survives the component it names ("check if client is alive").
NoStaleComponent == \A w \in Workers : wk[w].pc \in Busy => wk[w].to \in alive

\* A component is run by one thread at a time, the one of its priority: its
\* code takes no lock.
OneThreadPerComponent ==
    \A w \in Workers : wk[w].pc \in Busy => prio[wk[w].to] = w

\* A component executes its commands in the order the application sent them,
\* whichever queues they travelled through.
ExecutedInOrder ==
    \A w \in Workers : wk[w].pc = "entry" => Head(sent[wk[w].to]) = wk[w].msg

\* The free list: the smallest set of ids that has its head, and of each of its
\* members the next one.
Follows(S) == /\ free \in Ids => free \in S
              /\ \A i \in S : cmap[i] \in Ids => cmap[i] \in S
FreeIds == {i \in Ids : \A S \in SUBSET Ids : Follows(S) => i \in S}
MappedIds == {i \in Ids : cmap[i] \in Components}
IdsInHand == IF dsp.pc = "create" THEN {dsp.at} ELSE {}

\* No client id is lost or used twice: each is on the free list, which ends, or
\* stands for a component, or is being given to one; the threads that change
\* the list take no lock ("recycle component-id").
ClientIdsConserved ==
    /\ free = End \/ \E i \in FreeIds : cmap[i] = End
    /\ FreeIds \cup MappedIds \cup IdsInHand = Ids
    /\ FreeIds \cap MappedIds = {}
    /\ IdsInHand \cap (FreeIds \cup MappedIds) = {}

\* A worker that waits for messages has no task.
NoneAsleep == \A w \in Workers : wk[w].pc = "wait" => tree[w] = {}

\* Workers serve: none sleeps over a task that another one gave it, and none takes
\* the marker of a purge of another thread's, at which it would end.
WorkersServe == NoneAsleep /\ \A w \in Workers : wk[w].pc # "exit"

\* Every command is answered, also one that came late and is rejected, as long as
\* no worker sleeps over a task (a late command whose client id is in use again may
\* reach a component whose priority is being changed).
EveryCommandAnswered ==
    []NoneAsleep => \A m \in Msgs : (m \notin owned) ~> (m \in owned)

=============================================================================
