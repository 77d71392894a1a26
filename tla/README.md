# A verification model of xaf-hostless

This directory holds TLA+ specifications of the hostless Xtensa Audio Framework,
the TLC configurations that check them on small instances, and theorems about
them that TLAPS has checked. `src/algo/host-apf` is the application side,
`src/algo/hifi-dpf` the DSP side; in the hostless build both run as threads of one
core. The configuration modelled is the one `src/build/makefile` selects:
`LOCAL_SCHED=1`, `LOCAL_MSGQ=1`, `XF_MSG_ERR_HANDLING=1`, one DSP core.

Modules are checked with `tlc -config MCx.cfg MCx` and `tlapm x.tla`.
`PROJECT.json` lists the runs, the source lines behind each definition, a mutation
of the code for each property, the hazards, and the findings.

## 1. Inventory

### Parts of the system

| Part | Source | State | Operations |
|---|---|---|---|
| Host API | `host-apf/src/xaf-api.c`, `xaf-structs.h` | component chain and states, buffer pools and counts, event-channel chain | open/close device, create/delete/configure/connect components, `xaf_comp_process`, `xaf_comp_get_status` |
| Application-side proxy | `host-apf/src/xf-proxy.c` | client map with an embedded free list, global lock, control-buffer pool, proxy thread | `xf_open`, `xf_close`, synchronous commands with a time-out, `xf_command`, answer routing |
| Host/DSP interface | `xf-msgq1.c`, `xf-msgq.c`, `xf-msg.c`, `xf-msg.h`, `xf-dp_ipc.h`, `xf-main.c` | `cmd_msgq`, `resp_msgq`, client queues, event group, descriptor pool, `rw->remote` | send, receive, `xf_shmem_process_queues`, completion, shutdown |
| DSP dispatcher and workers | `xf-core.c`, `xf-core.h` | client map and free list, worker queues, worker schedule trees | register, dispatch, worker loop, unregister with queue purge |
| Scheduler, red-black tree | `xf-sched.c`, `rbtree.c` | per-worker tree ordered by deadline | put, get, cancel |
| Component base class | `xa-class-base.c` | state flags, task, priority, event channels | start-up, set/get parameters, schedule/cancel, events |
| Component ports | `xf-io.c`, `xf-io.h` | port flags, message queues, internal buffer | put, fill, consume, purge, route, flush, unroute, produce |
| Component classes | `xa-class-{audio-codec,mixer,mimo-proc,renderer,capturer}.c` | ports and class flags | fill/empty buffer, route, flush, pause, two-stage exit |
| Memory | `xf-mem.c`, `xf-mm.h` | free blocks by size and by address | allocate (best fit), free (coalesce) |
| Operating-system layer | `include/sysdeps/*/include/osal-*.h` | queues, events, locks, threads | blocking and timed receive, event wait |
| Interrupts, time base | `xf-isr.c`, `xf-ipi.c`, `xf-timebase.h` | - | thin wrappers |
| Tests, plug-ins | `src/test` | - | users of the framework |

### How they interact

An application thread sends a command through the proxy into `cmd_msgq` and sets
the CMD flag. The DSP thread wakes, takes the command into a message descriptor
from a fixed pool, looks the addressed component up in the client map, and hands
the descriptor to the queue of the worker that the component's priority names.
The worker enters the component, which answers, or keeps the descriptor in a port
and schedules itself on the worker's tree. A completed descriptor is linked to
`rw->remote`; the DSP thread copies it into `resp_msgq` and sets RESP; the proxy
thread hands it to the queue of the calling thread or of a component handle.
Components exchange messages with each other through worker queues and local lists.

### What is hard here

* *Sleeping and waking.* One event group serves four flags and two sleeping
  threads; queues are bounded; flags are cleared after the wait.
* *Ownership by convention.* Descriptors, client ids and buffers move between
  threads without locks; a client map entry is a component pointer or a free-list
  link.
* *Deletion while messages travel.* The client id may be reused and the
  component's memory freed before the last message for it is handled.
* *Priorities instead of locks.* The client map is safe only because of who can
  preempt whom; changing a component's priority moves it between threads.
* *Time-outs.* A synchronous call gives up after `MAXIMUM_TIMEOUT`; its answer
  still comes, in a queue without sequence numbers.
* *Flow control between ports.* Flush and unroute are messages that must return.

Section 8 and `hazards` in `PROJECT.json` give the lines.

### What makes each part correct

| Part | Properties |
|---|---|
| Interface | nothing lost, doubled or reordered; no sleep over work; the proxy thread never blocks; close ends both threads |
| Proxy | each call gets its own answer; success is reported only if the DSP said so; ids, buffers and DSP components are conserved |
| Dispatcher | commands conserved, executed in order, by one thread per component; no use of a freed component; ids conserved; every command answered |
| Scheduler | deadline order, FIFO among equals, right across wrap-around, safe under the callers' locking |
| Ports, classes | every message in one place and answered once; a pool freed only when complete; flush, unroute and delete always finish; end of stream once, after the data |
| Memory | blocks disjoint, coalesced, sizes recovered |
| Host API | component state and buffer counts agree with the DSP's |

## 2. Plan

| Step | Module | Status |
|---|---|---|
| 1 | `CommandChannel` (abstract) and `ProxyIpc` (detailed), refinement | written, checked, proved |
| 2 | `CoreDispatch`: client map, workers, priorities, deletion | written, checked, safety proved |
| 3 | `ProxySync`: synchronous commands and answer routing over an abstract transport | written, checked, safety proved |
| 4 | `CodecChain`: audio-codec components connected through ports, on several workers; end of stream, flush, route, unroute, pause, two-stage exit | written, checked, its safety proved but for `OutputIsOurs` |
| 5 | `EdfQueue` (abstract), `Sched` and `RedBlackTree` (detailed): deadlines at a small width, FIFO order, the balanced tree; refinement | written, checked |
| 6 | `EventChannel`: event buffers in transit and deletion | planned |
| 7 | `ApiStatus`: `xaf_comp_process` / `xaf_comp_get_status` buffer accounting, `xaf_comp_delete` order | planned |
| 8 | `MemPool`: the allocator, on two trees of `RedBlackTree` | planned |
| 9 | `Ports`, `Mixer`, `MimoProc`, `Renderer`, `Capturer`: the ports and the other classes as operators; `Classes`: one such component among its neighbours | written, checked |

`ProxySync` stands on the promise of `CommandChannel`: commands arrive in order,
once, and are answered once. `CoreDispatch` is the inside of `Finish`/`Reply` of that
channel, and `CodecChain` what the components behind `CoreDispatch` do with data.
`Classes` turns the view round: one component of a class with many ports or a device,
and neighbours that keep to what `CodecChain` shows of a port.

To come, in this order: a promise of `CodecChain` (a connection is a FIFO of buffers that circulate, delivering data in
order and the end of the stream after it) with a refinement; steps 6 to 8; the dummy lock of a worker's
scheduler under an `xf_sched_put` from another worker.

## 3. Modules and the code

**`CommandChannel`** - what the interface promises. A command slot belongs to the
application, is requested, executing, answered, or in its client's inbox, and moves
in that order; requests and answers are FIFOs.

**`ProxyIpc`** - the interface, thread by thread. Program counters: `apc` an
application thread between `__xf_msgq_send` and `xf_ipi_assert`; `ppc` the proxy
thread in `xf_ipc_wait`, after the wait, draining, delivering; `dpc` the DSP thread in
`xf_ipi_wait` and in the output and input halves of `xf_shmem_process_queues`;
`wpc` a worker between queueing a completion and waking the DSP thread; `mpc` the
main thread in `xaf_adev_close`. `events` is the event group, `pool`/`content` the
message pool, `remote` is `rw->remote`. Message payloads are left out. A component
is `held`: it completes a message at any later time, or at once.
`AppReceive` reads from either kind of client queue.

**`CoreDispatch`** - the DSP core. `cmap`/`free` are `cd->cmap` and `cd->free`, the
union of pointers and links; `id`, `prio`, `alive`, `ready`, `flag` the fields and flags
of a component; `tree`, `queue` a worker's schedule tree and message queue; `dsp` and
`wk` the threads between two points at which another thread can run (the read and the
advance of the free list are two steps, as are the look-up, the read of the priority
and the send). `elevated` is the worker that raised itself above the DSP thread in
`xf_client_cleanup`. A freed component's `priority` field reads as its old value or as
a pointer the allocator stored there. `cmd`, `owned`, `open` are the application's view;
`sent` is a history variable. `DataUntil` says how long data for a component may be sent:
until its deletion is `"asked"` for; until it has `"exited"`, also while its deletion is on
its way; or for `"ever"`, as a component of another worker that is still connected to it does.

**`CodecChain`** - connected components. `codec[k]` is a component's structure:
`state` its `base->state` without POSTINIT, `mode` which of its three entry points
is installed (running, terminating, gone), `tree` how often it is in its worker's
tree, `in`/`iflags`/`filled` the input port's queue, flags and buffer, `out`/`oflags`/
`route` those of the output port, `ptr` what the plugin's output pointer refers to,
`prepared` whether the start message was answered. `local` and `queue` are a
worker's two queues. `owned`, `ready`, `conn` and `call` are the application's view.
A message is identified by the pool it is from, and the pool's flow-control message
has its own name. One action is one message given to a component or one
execution, with all it sends: `xf_msg_submit` either keeps a message local, queues it
with another worker, or, when its destination is gone, returns it with
`XF_MSG_LENGTH_INVALID`. `Destroy` includes the purge of the worker queue, whose
answers are routed through the priority of the freed component (both outcomes).

**`ProxySync`** - the proxy. `cmap` is `proxy->cmap`, `lock` the proxy lock, `aux` the
control buffers, `thread[t]` a synchronous call between sending and returning, with
what it asked and the answer it took, `inbox`/`box` the proxy's and the handles'
answer queues. Taking the lock, allocating and sending are one step, as nothing
another thread does can come between them except through the lock; so are
returning a buffer and releasing the lock. The transport is a reliable FIFO each
way (proved for `ProxyIpc`), the DSP answers each command once. `timely` (no call has
timed out yet) and `result` (what the call that just returned reported) are history:
what only holds without time-outs says so.

**`Ports`** - `xf-io.c` and the scheduling of the base class, as operators that take a
component's structure `c` to the structure it leaves; what it sends is collected in
`c.sent` and delivered when the handler ends, as the worker cannot be left in between.
A port is a queue, its flags under their names, and `filled` or `ptr`, the internal
buffer of an input port and the plugin's pointer of an output port. A failed `BUG` or
`XF_CHK_ERR` leaves the flag `bug`.

**`Mixer`**, **`MimoProc`**, **`Renderer`**, **`Capturer`** - the classes: one operator for
each handler of `xa_mixer_cmd`, `xa_mimo_proc_cmd`, `xa_renderer_cmd`, `xa_capturer_cmd`, one
each for pre- and postprocessing, one for what the repository's plug-in does with the
ports it is given (mixer, `mimo_mix`, `pcm_split`, renderer, capturer), and
the two-stage exit (`...Cleanup`, `...Destroy`, `...Terminate`). `c.plugin` is what the
plug-in keeps: inputs that are over, held, used; ports it was told of; the FIFO of a
device, whether its timer runs.

**`Classes`** - a component of one of these classes, given by `variant`, and around it:
`feed`, for each input the output port that feeds it (buffers at home, where its
flow-control message is); `sink`, for each routed output what the component below has not
answered; `owned`, `ready`, `wired`, `call`, the application. `local` and `inbox`
are the two queues of the component's worker. One action is one handler with all it
sends. A neighbour in `variant.near` runs on the same worker: it acts only when the local
queue is empty, its messages go there, and it answers a flush while it is being
sent, as `xf_msg_submit` makes it. `Tick` is the interrupt handler of a device,
`IsrDelivered` the core thread that takes the component's own message to its worker.

**`EdfQueue`** - what the scheduler promises: a queue, earliest deadline first, first
come first served among equal ones, deadlines told from now.

**`Sched`** - the scheduler of one worker. `tree` is `sched->tree`; the sentinel's
`right` is the cached first task, as in the code. A node's colour word is split into
`red` (its last bit) and `stamp`/`now` (the others), so that losing the last bit of a
timestamp is visible: deadlines are compared with it on one side and without it on
the other. `Put`, `Get` and `Cancel` are `xf_sched_put`, `xf_sched_get`, `xf_sched_cancel`.

**`RedBlackTree`** - `rbtree.c` as operators on a tree, the left and right variant of a
case being one operator with a `side`. Every rebalancing case is an operator of its own
that assigns the same fields as the code, the sentinel's among them, which the code
uses as a scratch node.

**`ProxyIpcProofs`**, **`CoreDispatchProofs`**, **`CoreDispatchOrderProofs`**, **`ProxySyncProofs`**,
**`CodecChainStepProofs`**, **`CodecChainProofs`**, **`CodecChainMessageProofs`**, **`ClassesProofs`** -
theorems. **`MC*`** - constants and symmetry for TLC.

## 4. Runs

| Run | Question | Result |
|---|---|---|
| `ipc` | Does any interleaving lose, double or reorder a command or a descriptor, block the proxy thread, or let a thread sleep over work? Is each step one of the channel, and with fair threads is everything answered though queues and pool are smaller than the traffic? Does close finish? | holds |
| `dispatch_safety` | Two workers, three components over two ids, set-priority, deletion, data arriving until a component has exited: are commands conserved and in order, ids conserved, components entered by one thread and only while alive? Does no worker end, or sleep while its tree has work? | holds |
| `dispatch_progress` | Is every command answered with blocking queues and priority elevation, also data that comes after its component's exit and is rejected, as long as no worker sleeps over a task? | holds |
| `dispatch_late_two_workers` | Data arriving after the exit: do purge and look-up protect the freed component? | violated: a freed component is entered |
| `sync_safety` | Time-outs at any moment, failed openings, late answers: are client ids, buffers and DSP components conserved; does each call get its own answer and report only what the DSP said, until the first time-out? | holds |
| `sync_late_answer` | Does `xf_client_unregister`'s assertion hold after a time-out? | violated: late answers shift all later ones |
| `chain_safety` | Three codecs on two workers, in any order of connecting, feeding, ending, disconnecting and deleting: is every message in one place, one flush of a connection at a time, none sent to the gone, and each home when its pool is freed? Is a component only run with what it needs, and scheduled once? | holds |
| `chain_calls` | Does every connect, disconnect, pause, resume and delete return, whatever is in transit? | holds |
| `chain_idle` | Is an idle port one without outstanding messages, as `xf-io.h` says, when a stream may end without any output? | violated: the end of the stream leaves an idle port |
| `classes` | Nine components - mixers (two tracks; pauses; a probe; a probe and a connected output), `mimo_mix` (two inputs; pauses), `pcm_split`, a renderer that passes on what it plays, a capturer - in every order of data, ends of streams, flushes, calls, deleted neighbours and interrupts of a calm neighbourhood (section 8): does no assertion fail, is no message lost or doubled, is everything back with its owner when the component is gone, no pool freed with a buffer away, no given-away buffer written to, and does every call return? | holds |
| `mixer_unroute` | Is a component not scheduled while its output is being disconnected, as `xf-io.c` says, when the mixer is not paused? | violated: it is, and runs into a `BUG` |
| `sched` | Do tasks come out earliest deadline first, FIFO among equal ones, while timestamps wrap around and tasks are cancelled anywhere in the tree? Is the tree always a red-black tree of the scheduled tasks? | holds |

The four violations are findings: each contradicts a comment or an assertion quoted
in `PROJECT.json`. They are outside what the passing runs assume, and say what an
application must not do, or what the code would have to change.

## 5. Bounds, and why they are enough

* *Queue lengths* of 1 to 4 instead of 16 and 100: smaller than the number of
  commands in flight where a full queue matters (`ipc`), and larger where the
  code relies on room (`dispatch_*`: 100 entries against at most 256 descriptors;
  the full worker queue is listed as an open hazard). The proofs of `ProxyIpc` hold for every
  length.
* *Clients, handles, components*: two suffice for every pairwise race; three
  components over two ids, so that an id is reused while its former owner's messages
  may be around. Components are never recreated as the same object, so a stale
  pointer is recognised.
* *Two workers*: the default (last) worker and worker 0, to which an unset priority
  leads; two are enough for each worker to be "another one".
* *Two or three commands*: one synchronous command (the proxy lock admits one) and
  asynchronous data behind or before it.
* *Client map* of `ProxySync`: ids 0 to 2, of which 0 is the proxy's own, as in the code; the
  proofs hold for every size.
* *Chain* of three in `chain_safety`: the middle component is fed and feeds, and the
  components around it are on its own worker and on another, so that messages take
  the local and the other way. Two in `chain_calls`, which is about liveness.
* *One buffer* for each connection, one input buffer, one end-of-stream marker and
  one output buffer: with the flow-control message, two messages of a connection race,
  and a buffer can be on either side or in transit when a flush begins. `Frame` = 1:
  a message fills the plugin's input buffer. Streams end and restart any number of
  times.
* *One synchronous call* of the application at a time in `CodecChain` and `Classes`.
* *Variants* of `classes`: one buffer for each connection (two for the capturer, whose
  stream goes on while the first is away), `Frame` = 1, at most two ports on a side,
  each on the component's worker or on another. The model has a variable number of ports,
  and every flag of a port; a variant switches on the operations that
  concern its class (pauses, a probe, a second output), so that their product stays small.
  `MayBeBarren` is FALSE, as for the chain. The capturer's file has three frames, so
  that it ends by itself.
* *Seven tasks* in `sched`, whose trees take every branch of insertion and deletion
  (TLC's coverage shows it); timestamps below 8 and delays of 0 and 3: the timestamp
  wraps around every few steps, a delay is just less than half the range, an odd one
  loses its last bit, and two tasks may have equal or different deadlines.
* *Symmetry* is used in some of the runs without liveness, over sets of model values that
  the specifications treat alike; workers and ids are numbers and are not permuted.

## 6. Fairness

* `ProxyIpc`: weak fairness of each thread - each runs in a loop and the operating
  system schedules it, the interface being idle most of the time; a component
  completes every message it holds (strong fairness per descriptor, as workers
  alternate between them); the application reads its answers. Nothing makes the
  application send or close.
* `CoreDispatch`: weak fairness of the DSP thread, the highest one; *strong* fairness
  of each worker, as a worker is disabled whenever the threads above it run. It holds
  because those threads block again and again; it would not hold for a component that
  never stops scheduling itself on a higher worker, which `WorkerProcess` excludes:
  processing a component completes something it holds.
* `ProxySync`: none; its run assumes nothing of the DSP, whose answers may never come, and asks
  for nothing to happen. That a caller's wait ends is the time-out's doing (`xf-proxy.c:121`).
* `CodecChain`: weak fairness of each worker, which has work and runs whatever it takes
  next, and of the application asking its last component for output, as every
  test program's loop does. The application need not feed, connect, resume or delete.
* `Classes`: weak fairness of the worker, written out with `HasWork` (its guard) as TLC
  evaluates the handlers twice otherwise; of the core thread that takes an interrupt's
  message to it; and of each sink's answers. Nothing of feeders, the application
  or the device: a call returns whatever they do not do.

## 7. Proofs

`ProxyIpcProofs` is proved with TLAPS for every number of
clients, buffers, descriptors and workers. Assumptions: queue lengths are positive;
`NoCmd` is not a command; a client has no more buffers than its answer queue has
entries (`BufsAssumption`: `XAF_MAX_INBUFS` plus one output buffer against 16).
The argument is a chain, each invariant inductive given those before it:

1. `BaseInv` - types, `DescriptorConserved`, and `HandInv` (the proxy thread holds an
   answer exactly while delivering). Gives `TypeCorrect`, `DescriptorsConserved`.
2. `CommandConserved` - a command is in one place. It needs the first: a queue
   element could otherwise be a descriptor that is free. Gives `CommandsConserved`.
3. `ProxyNeverBlocks` follows without induction: the answers in a client's queue are
   distinct commands of that client, one more is in the proxy thread's hand, and there
   are no more than the queue holds (a cardinality argument).
4. `WakeInv` - what each flag still owes while a thread is between clearing a flag
   and going to sleep: completed messages or free room have a wake-up pending.
   `NoLostWakeup` alone is not inductive, as it says nothing about a pass in progress;
   it also needs that the response queue is not full when a pass starts
   (`NotFullAtStartOfPass`), which rests on the priorities (`DspMayRun`) and on 2.
   Gives `NoWakeupLost`, `NoAnswerLost`.
5. `IpcImplementsChannel` - the refinement, with the answers of the channel spread
   over the proxy thread's hand, `resp_msgq` and `rw->remote`. The lemmas show that
   moving an answer from one to the next leaves that sequence unchanged.

The first run checks `ImplementsFairChannel`, which contains what this theorem proves,
and the other invariants named here, on a small instance.

`ProxySyncProofs` proves every safety property that `sync_safety` checks, for every number of threads, handles, ids, buffers, components and
commands, whether calls may time out or not. Assumptions: the ids are 0 to some number
above 0, and handles are not ids (the map holds either). Again a chain:

1. `BaseInv` - types; only the thread that has the lock is in a call (`CallInv`), and a handle
   that is not closed has an id, to which the map leads back (`HandleInv`); the ids that
   hold links form one cycle through the head (`MapInv`). That they form one cycle is said
   of sets - a set of links that holds the head and the successor of each member holds
   every link - as an induction along the list is beyond TLAPS. `xf_client_alloc`
   takes the second of the cycle out and `xf_client_free` puts one in there, whatever
   else happens. Gives `TypeCorrect`, `ClientIdsConserved`: no time-out needs to be excluded.
2. `PlaceInv` - a command is in one place on its way out and back.
3. `BufferInv` - a control buffer has one owner: the pool, a handle, or the call in progress.
4. `ReportInv`, `CompInv` - an answer names a component exactly if it reports its creation,
   which happens once; a handle has a component while it is open or being closed.
5. `SyncInv` - until a call times out, the synchronous command under way is the one the
   waiting thread sent, asking what that thread is asking. It is what the queue of answers
   has instead of sequence numbers, and what the first time-out destroys.
6. `DataInv` - until then, an asynchronous command or answer belongs to a handle that is open
   with the same id, and when that handle is being closed it is ahead of the
   unregistration: the queues are FIFOs and the DSP takes a component's commands in turn.
   This is why an id may be reused. With 5 it gives `AnswersReachSender`, `SuccessReported`;
   with 3, `BuffersHeld`.
7. `OrphanInv` - until then, a live component is an open handle's or named in the
   answer to its registration, on its way or taken. Gives `NothingOrphaned`.

`sync_safety` checks the properties on a small instance; `sync_late_answer` shows what becomes of
them after a time-out.

`CoreDispatchProofs` proves for every number of ids, components, workers and commands and
any queue length, *whether data may be late or not*, that no command and no client id is
lost or used twice. Assumptions: ids and workers are numbered from 0 and there is a worker;
components are not ids (the map holds either). One invariant, `BaseInv`, in these parts:

1. `ShapeInv` - what the program counters say of a thread's message, component and queue
   (`DspInv`, `WorkerInv`, `QueueInv`), and that one synchronous command is outstanding at
   a time (`CmdInv`, the proxy lock).
2. `MessagesConserved` itself. Each step moves a set of commands from one holder to another
   (`FromTo`, `Moved`); a queue that is turned keeps what it holds. It needs `MarkerInv`: a
   second marker would be an entry twice. Gives `TypeCorrect`, `CommandsAreConserved`.
3. `CompInv`, `ExitInv` - a component keeps its id until the end of its deletion, which one
   worker does: the command is executed where its priority names, as no other
   synchronous command can change that meanwhile, so the queue it purges is its own.
4. `MarkerInv` - hence a queue has a marker exactly while its own worker purges it: no
   worker ends (`WorkersNeverEnd`), and a purge never waits for an empty queue.
5. `AllocInv` - hence, when the DSP thread has read the head of the free list, the only worker
   that could be above it waits for room in a full queue: nothing comes between that read
   and the advance of the head, although the list has no lock.
6. `ListInv` - the ids that are neither mapped nor in the DSP thread's hand are one chain from
   the head to the end; as for `ProxySync`, that it is one chain is said of sets.
   Gives `ClientIdsAreConserved`.

`CoreDispatchOrderProofs` proves the rest of the safety properties of `dispatch_safety` on top of
`BaseInv`, again for all sizes, for data that comes in time: `ExecutedInOrder`,
`OneThreadPerComponent`, `NoStaleComponent` and `WorkersServe` follow from `InTime /\ Spec`.
Its invariant `OrderlyInv` has these parts:

1. `ElevatedInv` - the worker above the DSP thread cleans up, and what was raised earlier waits
   for room in the one queue only it reads.
2. `TaskInv` - what a component holds are commands for it, and while it holds some it is
   scheduled or being run, on the worker of its priority. Gives `ComponentsHaveOneThread`.
3. `MoveInv` - a component that is about to move has no other command outstanding.
4. `PlaceInv` - a command for a component is on its way along the queues its priority names,
   and the component is alive; only the queue being purged holds commands for the dead one, and
   the purge comes to them before its marker. Gives `NoComponentIsStale`.
5. `SentInv`, `OrderInv` - the history has just the commands under way, and of two for a component
   the one sent first is never the one further off. "Further off" must be said of a
   queue that is being turned: what is behind the marker comes first (`Nearer`).
   With 4 it gives `CommandsAreExecutedInOrder`.
6. `NoneAsleep` - the worker's loop between serving and waiting. Gives `WorkersGoOnServing`.

`InTime` is that nothing is sent to a component once its deletion is asked for; or nothing once
it has exited, and a worker queue has room for all commands. Neither can be left out.
Without the first, `dispatch_late_two_workers` ends in a freed component. Without the room
the DSP thread can look up a component, wait in `xf_msgq_send` with data for it in hand until
it is gone, and queue the data after the purge: TLC finds this with
`DataUntil = "exited"`, `QueueEntries = 1`, three components, two ids, four commands,
as a violation of `NoStaleComponent` 48 steps deep. In the code the queue has 100 entries
(`xf-core.c:419`) for up to 256 descriptors (`xf-dp_config.h:33`), so the room is an assumption
about the traffic, not a fact. `MarkersFindRoom` is about the same gap (hazard at `xf-core.c:731`):
if a worker queue has more entries than there are commands, a worker that purges
its own queue never waits for room for its marker. The bound is sharp: with as many entries as
commands, or fewer, TLC finds it waiting, in `dispatch_progress` with `QueueEntries` = 2 for ever.

`dispatch_safety` checks the properties on a small instance, with `DataUntil = "exited"` and
room for the three commands. Late data breaks `NoStaleComponent`
(`dispatch_late_two_workers`), and by `CoreDispatchProofs` neither conservation nor the ids.

`CodecChainStepProofs`, `CodecChainProofs` and `CodecChainMessageProofs` prove `TypeOK`,
`FreedAtHome`, `MessageExpected`, `RunExpected`, `IdleIsHome`, `NoneForTheGone` and
`MessagesConserved` for every number of components, workers and buffers, every graph of
possible connections and every set of components that may be paused, from one hypothesis,
`MayBeBarren = FALSE`: a stream does not end before something has gone through the
connection. `chain_idle` shows that it is needed, and by what comment of the code it is a
finding. Assumptions on the constants: there are finitely many components and buffers;
possible connections make no circle; a port is connected or the application's; names differ.
A circle is not excluded by the code, but a flush that is passed on would come round to
the port that is waiting for it.

The invariant is `ChainSafe`, inductive as a whole. Sequences are known in it by what they hold
and what is ahead of what, so that it counts nothing:

1. `TypeInv`, and `PoolInv`: a message of a pool is somewhere its connection leads through
   (`PlaceInv`: forth in the queue of the worker below, or its local queue; at that input;
   back on the owner's worker), its port is routed (`RouteInv`), and nothing of the pool
   is behind the flow-control message (`ClosedInv`, in one queue; `NoneBehind`, where it has
   been). That is why the flush sweeps the connection. It rests on a message
   taking the same way as those before it: a near one always the local queue, until its
   destination is gone. `PortInv` says what the port's flags say of it: the
   flow-control message is out only while FLUSHING is set, and nothing is while IDLE is. It
   gives `PoolsAreFreedAtHome` and `IdlePortsAreHome`: an unroute ends when the
   flush is back or finds the port idle.
2. `CompInv` - what the flags, queues and stages of one component say of one another
   (`TaskOk`, `InputOk`, `OutputOk`). The flags are toggled, so each must be known to be
   off before it is turned on.
3. `FlushInv` - a flush on its way has a sender that waits for it, so none comes twice.
   `LeadInv` - of the messages in a local queue, those that may make a component send
   another one down are of one connection, and the others are on their way back
   above it. This is where the graph must not be circular: without an order of the
   components, two answers on the worker's local queue could start two flushes of one port.
4. `AloneInv` - a component that is completed and scheduled was just routed, and runs before
   its worker takes any message: `base->state` is assigned as a whole elsewhere, and would
   lose SCHEDULE. It is what `RunsAreExpected` needs most.
5. `ReadyInv`, `ConnInv`, `CallInv`, `StartInv` - the application's view: which component it knows
   to be initialised, which connections it made, where the one call in progress is.
   `ScopeInv` - all components a flush may come to are initialised; that they are is said
   of a set closed under "is connected to", as for the lists above.
6. `MarkInv` - an input port is enabled until the end of its stream, and has no empty message
   until then unless it is the flush it holds. With the others: `MessagesAreExpected`,
   `RunsAreExpected`.

`MessagesConserved` needs more. The invariant above says where a message may be, and that a
place is empty where the argument needs it; it does not count. `CodecChainMessageProofs` adds two
parts, inductive with `ChainInv` (together `ChainKeeps`):

7. `OnceInv` - a message is in one place at most: one queue, one port or the application's hands,
   and once in it.
8. `HeldInv` - what must be somewhere: the messages of the application; the command, unless the
   component `CallInv` names has saved it; the flow-control message of a port that is flushing;
   the buffers of a connection (`Whole`) unless the component below is gone. One case lies
   between: the component below is being deleted and has refused a
   buffer, which its owner takes as the signal to flush and drop what is at home (`IsCut`). The
   buffers it drops are missed while the port is still routed, so `IsCut` also says that the flush will
   take the connection apart when it returns (`EndsRoute`).

A handler has messages in hand: the one it is given, those at its input and its output. `Hands` says
what becomes of them: each is kept or sent, but once, and nothing else is, except what was
nowhere (`IsNew`: the flow-control message of a port that does not flush, the pool of a new
connection, the command it saved); a pool may be dropped only with its connection. `HandStep`
shows that a step of that kind preserves both parts, wherever what is sent lands (near, far,
turned round at a component that is gone), and there is one lemma per
handler that it is of that kind. The counting (`AbroadCount`, `OutputCount`) comes last.

`chain_safety` checks these properties on a small instance, whose streams do not
end barren either. One that it checks has no theorem:

* `OutputIsOurs`, which does not hold for every instance. It holds where a component has one
  place its output may lead to. With a choice of two, four components on one worker, and
  three of them in a row, TLC finds (35 steps deep, outside the runs): the sink is deleted, the end of
  the stream bounces off it, the port is taken apart without clearing OUTPUT_SETUP
  (`xa-class-audio-codec.c:316`, unlike `:352`, `:466` and `:578`) and the component is completed;
  then the first component is disconnected, and its flush
  arrives. At `:530` an exclusive or, under the comment "set the component
  state to completed for unrouted port", turns EXECUTION on and COMPLETED off, as
  it was completed already. Connected to the other place, it runs with the
  pointer into the pool that was freed.

`ClassesProofs` proves `ScheduledOnce` for mixers, MIMO components, renderers and capturers
with any finite number of ports and buffers, whatever the neighbours are and *in a calm
neighbourhood or not* (`ScheduledInTreeOnce`). Assumptions (`ClassesAssumption`): the component is of one
of the four classes and as its memtab function leaves it, its inputs are numbered, and a mixer
has one output to route. There is one condition, `FedFromElsewhere`: no feeder of a mixer or MIMO component
runs on its own worker. Without it the property is false: a restart of
these two classes is `base->state = XA_BASE_FLAG_EXECUTION | ...`, and data from a near
feeder is served before the tree, so it can find a completed component that is scheduled and make it forget
that. TLC finds this with `MixerPaused` of `MCClasses`, not calm and its feeder
near; the hazard is listed at `xa-class-audio-codec.c:368`. The variants that
`classes` checks meet the condition. The argument:

1. `Kin` - each operation of `Ports`, and each operator of a class that does not schedule, leaves
   a component's shape and its place in the schedule alone. There is a lemma for each. The loops
   over ports are folds; `FoldInduction` (by well-founded induction on the number of ports left)
   and `FoldKin` say once that what the turns leave alone the loop leaves alone.
2. `Runs`, `Follows` - `xa_base_schedule` and `xa_base_cancel` change flag and tree together, so
   each handler keeps a `Sound` component sound, and the ones that end it cancel first. Only
   the restart needs to know that the component is not scheduled (`MixerEmptyRuns`,
   `MimoEmptyRuns`).
3. `ScheduleInv` - the component is `Sound`; what is in the queues and in the sinks' hands are
   messages of its pools, replies or commands for ports that it has (`QueuesOK`, `NeighboursOK`); and the local
   queue holds no data for a mixer or MIMO component (`Quiet`). Data then comes from the inbox, which the worker reads when its tree is empty
   (`xf-core.c:294`); this is what rules the bad restart out.

Model-checked only: `OutputIsOurs` of `CodecChain`; the other properties of `Classes`, which
hold in a calm neighbourhood only, and for the variants checked, each of which keeps apart
operations that the code does not stand together; all of `Sched`, whose tree operators are recursive;
progress (`ImplementsFairChannel`, `CloseTerminates`, `EveryCommandAnswered`, `CallsReturn`),
as liveness under fairness is beyond TLAPS.

## 8. Assumptions, and what is not modelled

* `ProxyIpc`: the closing thread is not scheduled between the two adjacent halves of the
  DSP thread's `xf_ipi_wait` (wait, then clear). Without that, DSP_DIE could be
  cleared unseen; it is listed as a hazard.
* `ProxyIpc`: the response queue has room again when the DSP thread runs after
  sleeping because the proxy thread's priority (6) is above the DSP thread's (5), and
  the device is closed after its components. Both are the defaults and the API's contract.
* `CoreDispatch`: workers interleave freely, a superset of what their priorities allow;
  each schedule-tree operation and each set-parameter is one step. Worker trees are
  created with a dummy lock, so the atomicity of a cross-worker `xf_sched_put` is an
  assumption here and in `Sched` (hazard, section 2). Any scheduled component may be taken
  next. A component ends in one stage; `CodecChain` has the two-stage exit.
  A component's priority is changed only with no data outstanding: data behind the
  change would be scheduled on a worker that nothing wakes (hazard at
  `xa-class-base.c:245`).
* `CoreDispatch`: the DSP thread's priority is above every worker's. The API's check also
  lets a worker have the same priority; the free list of client ids is then unprotected.
* `CoreDispatch`: single application, whose failing commands are answered with an error
  and are not told from those that succeed; the path of `xf_core_process_message` that
  destroys a component on another component's failing message is not modelled.
* `ProxySync`: time-outs may happen at any moment of the wait; a component's commands
  are answered in order, those of different components in any order.
* `ProxySync`: what a configuration call reports after a time-out is not asserted: it
  returns fields nothing has written (hazard at `xf-proxy.c:869`).
* `CodecChain`, the plugin: a decoder is initialised when it has input or is told that none
  will come, others at once; an execution consumes all its input, produces nothing or
  one buffer, and is the last one when the end of its input was signalled. With
  `MayBeBarren` FALSE the last execution produces something if nothing went through
  the connection before; without that assumption `chain_idle` fails.
* `CodecChain`, the application: it takes a connection apart, or deletes its upstream
  end, only when every component below is initialised (a flush of one that is not sets
  EXECUTION beside RUNTIME_INIT); it sends the end of the stream after initialisation, no
  input after it until the marker is back, and does not send to a component it has
  deleted; a component it takes output from is not connected. In `chain_calls` it
  pauses only the first component: an end of stream held at a paused component keeps the
  flow-control message, and disconnecting its feeder does not return until it is
  resumed.
* `CodecChain` gives each component an id of its own and takes a handler as one step:
  reuse of ids and the windows inside the dispatcher are in `CoreDispatch`. Queues
  between workers are not bounded. Probe ports, bypass ports, decoders that initialise
  without input, fatal errors and the single-threaded build (`n_workers` = 0) are left
  out. The free of a pool and of a component are steps of no duration.
* `Sched`: a task is put only when it is not scheduled (`XA_BASE_FLAG_SCHEDULE`), and a delay
  is less than half the range of the timestamps. `rb_delete` recognises a successor's
  child by comparing it with the successor's left one, which would be wrong for a successor
  two levels down without a child of its own; a red-black tree whose node lacks its left
  child has no such successor.
* `Classes`, the calm neighbourhood (`MayFeed`, `MayLose`, `MayTick`, `MayConnect`,
  `MayDelete` and the guards that test `variant.calm`). Each restriction was found by leaving it out
  and is something an application of these classes must see to, or the code would have
  to handle:
  - a mixer's output is disconnected only while it is paused, a renderer's or capturer's, and
    its sink deleted, only when nothing of the stream is left to run: a buffer that comes back during the
    unrouting schedules the component into the `BUG` of `xf_output_port_data`
    (`mixer_unroute`, and the same lines in the other two classes);
  - a mixer gets no input while its output is being flushed or another track's
    end of stream is on its way: the flush that belongs to the old stream marks the new one
    idle (a restart also assigns `state` as a whole, and would lose SCHEDULE if the
    feeder was near, section 7);
  - a paused probe port is one that keeps PROBE_SETUP: only the probe of a mixer is
    paused and started here, by the application that drains it;
  - an input of `mimo_mix` whose stream is over gets no more; `pcm_split` is not restarted
    while an output is set up whose buffer the end of the stream gave back; an output is
    not connected after an end of stream: FLUSHING_DONE of an output stays until it
    produces again, OUTPUT_SETUP until then too, EXEC_DONE of the plug-in for ever. Outputs
    are connected before there is input (`fed`), as the start-up forgets which were;
  - a renderer that underran, or whose stream is over, gets no more input; its device is
    started before its output is connected; a flush finds it in EXECUTION (elsewhere
    it is an error); it is deleted, and its sink is, with the output at rest: a stale
    pointer into the freed pool would be written by the next execution, and a cleanup
    does not flush the output;
  - an interrupt of a capturer finds the frame before it read, no call in progress and
    a living sink: an overrun ends the stream, and the component's own message in
    COMPLETED is an error; `xa_capturer_cleanup` does not wait for that message.
* `Classes`, what is dropped: while an output port is being flushed, the code throws away a buffer of
  the port's own pool that its sink returns (the sink is gone, or the component is being
  deleted: `xa-class-mixer.c:404`, `:1253` and the same lines of the others); the flush ends with
  the pool freed. `MessagesConserved` names this case and allows no other. `xa_mixer_terminate`
  takes *every* buffer to fill for one of those, without looking at its port: a buffer of
  the probe port that came then would be lost to the application. `xaf_comp_process` refuses to send it,
  as `xaf_comp_delete` begins with `comp_state = XAF_COMP_RESET` (`XAF_COMP_STATE_CHK`); this is `InUse`
  in the model, where test and send are one step, which they are not in the code (hazard at
  `xaf-api.c:1716`). Leaving the test out is the mutant of `MessagesConserved`.
* `Classes`: the neighbours keep to what `CodecChain` checks of a port, and a near sink answers
  a flush at once. Time stamps of tracks, bypass ports, relaxed scheduling, components of the MIMO
  class without output or with a probe, and plug-in parameters other than the
  device's state are left out. The device's FIFO counter is updated in one step (hazard at
  `xa-renderer.c:271`).
* Not modelled: see the components marked so in `PROJECT.json`: event channels, DSP
  memory and the buffer accounting of the host API are planned; of interrupts only what
  a renderer or capturer sees is modelled; timers, tracing, thread creation and the signal
  processing inside the plug-ins are outside.
