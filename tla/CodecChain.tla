----------------------------- MODULE CodecChain -----------------------------
(***************************************************************************)
(* Components of the audio-codec class connected in a chain                *)
(* (xa-class-audio-codec.c, xa-class-base.c) and their ports (xf-io.c).    *)
(* A connection is a pool of buffers owned by the upstream output port: a  *)
(* buffer goes down as EMPTY_THIS_BUFFER and returns as FILL_THIS_BUFFER.  *)
(* One more message of the pool, the flow-control message, carries         *)
(*   - the end of the stream down the chain, as an empty buffer, and       *)
(*   - XF_FLUSH, which empties the connection before it is taken apart     *)
(*     (unroute) or its upstream component destroyed (a two-stage exit).   *)
(* A message for a component that is gone returns to its sender with       *)
(* XF_MSG_LENGTH_INVALID, and the sender takes the connection apart itself.*)
(* The pool is freed while other components run: nothing of it may then be *)
(* anywhere but with its owner.                                            *)
(* A handler is one step: components share nothing but message queues. The *)
(* windows inside the dispatcher are the subject of CoreDispatch, the way  *)
(* of answers to the application that of ProxyIpc.                         *)
(***************************************************************************)
EXTENDS Integers, Sequences, FiniteSets

CONSTANTS
    Codecs,      \* the components, all registered and configured
    WorkerOf,    \* the worker thread of each
    Decoders,    \* those of type XAF_DECODER, which need input to initialise
    Edges,       \* connections the application may make
    Sources,     \* components the application feeds
    Sinks,       \* components the application takes output from
    Bufs,        \* buffers of a connection
    Frame,       \* length of an input port's buffer, in messages
    Pausable,    \* components whose ports it may pause and resume
    MayBeBarren, \* a stream may end without having produced anything since the last
    App, None

Workers == {WorkerOf[k] : k \in Codecs}

ASSUME CodecsAssumption == IsFiniteSet(Codecs)
ASSUME EdgesAssumption == Edges \subseteq Codecs \X Codecs
\* Connections make no circle.
ASSUME AcyclicAssumption ==
    \E depth \in [Codecs -> 0..Cardinality(Codecs)] : \A e \in Edges : depth[e[1]] < depth[e[2]]
ASSUME FrameAssumption == Frame \in Nat \ {0}
ASSUME AppAssumption == App \notin Codecs /\ None \notin Codecs \cup {App}
ASSUME CallAssumption == None \notin [op : {"route", "unroute", "unregister", "pause", "resume"}, on : Codecs,
                                      arg : Codecs \cup {None, "in", "out"}]
ASSUME BufsAssumption == IsFiniteSet(Bufs) /\ Bufs # {}
ASSUME NamesAssumption == Bufs \cap {"control", "cmd", "start", "in", "eos", "out"} = {}
ASSUME BarrenAssumption == MayBeBarren \in BOOLEAN
\* A port is connected or the application's.
ASSUME SourceAssumption == \A e \in Edges : e[2] \notin Sources
ASSUME SinkAssumption == \A e \in Edges : e[1] \notin Sinks

VARIABLES
    codec,    \* the component structures
    local,    \* worker->local_msg_queue
    queue,    \* worker->queue
    owned,    \* messages the application has
    ready,    \* components the application knows to be initialised (init_done)
    conn,     \* the application's map of connections
    call      \* the synchronous call in progress, or None

appVars == <<owned, ready, conn, call>>
vars == <<codec, local, queue, appVars>>

Invalid == -1                \* XF_MSG_LENGTH_INVALID
Pool == Bufs \cup {"control"}
Msg(k, what) == [of |-> k, what |-> what]
Control(k) == Msg(k, "control")
Cmd == Msg(App, "cmd")
FromPool(m) == m.what \in Pool

\* The messages of the application: one for its calls, one to start each
\* component, a buffer and an end-of-stream marker for each source and a buffer
\* for each sink.
AppMsgs == {Cmd} \cup {Msg(k, "start") : k \in Codecs}
           \cup {Msg(k, what) : k \in Sources, what \in {"in", "eos"}}
           \cup {Msg(k, "out") : k \in Sinks}

Item(to, m, op, len) == [to |-> to, msg |-> m, op |-> op, len |-> len]

\* A component after xf_input_port_init, xf_output_port_init and the first
\* SET_PARAM, and one destroyed.
Configured ==
    [mode |-> "running", state |-> {"runtime_init"}, tree |-> 0, prepared |-> FALSE,
     in |-> <<>>, iflags |-> {"enabled"}, filled |-> 0,
     out |-> <<>>, oflags |-> {"idle"}, route |-> None, ptr |-> None]
Destroyed == [Configured EXCEPT !.mode = "gone", !.state = {}, !.iflags = {}, !.oflags = {}]

Init ==
    /\ codec = [k \in Codecs |-> Configured]
    /\ local = [w \in Workers |-> <<>>]
    /\ queue = [w \in Workers |-> <<>>]
    /\ owned = AppMsgs
    /\ ready = {}
    /\ conn = [k \in Codecs |-> None]
    /\ call = None

-----------------------------------------------------------------------------
(* Messages.                                                               *)

Gone(k) == codec[k].mode = "gone"
Alive(x) == x.to \in Codecs /\ ~Gone(x.to)

\* xf_msg_complete, for a message on its way from the port that owns it: it
\* goes back there, an emptied buffer as one to fill.
Origin(m) == IF FromPool(m) THEN m.of ELSE App
Answered(x, len) ==
    Item(Origin(x.msg), x.msg,
         IF x.op = "empty" /\ FromPool(x.msg) THEN "fill" ELSE x.op, len)

\* ... and for one the output port of component c has filled.
Passed(c, m, len) ==
    IF FromPool(m) THEN Item(c.route, m, "empty", len) ELSE Item(App, m, "fill", len)

\* What s has in the places I.
Those(s, I) == LET nth(n) == CHOOSE i \in I : Cardinality({j \in I : j < i}) = n - 1
               IN [n \in 1..Cardinality(I) |-> s[nth(n)]]

\* A message whose destination is gone: it returns to its sender, if that lives.
Returned(x) == Answered(x, IF FromPool(x.msg) THEN Invalid ELSE 0)
Bounced(s) ==
    LET kept == Those(s, {i \in DOMAIN s : Origin(s[i].msg) = App \/ Alive(Returned(s[i]))})
    IN [i \in DOMAIN kept |-> Returned(kept[i])]

\* What of s is for components of worker v, and what for none.
At(v, s) == Those(s, {i \in DOMAIN s : Alive(s[i]) /\ WorkerOf[s[i].to] = v})
Lost(s) == Those(s, {i \in DOMAIN s : s[i].to \in Codecs /\ Gone(s[i].to)})

\* xf_msg_submit by worker w, whose queues have come down to l and q: to the
\* local queue, to another worker's, or back at once. A response to a component
\* never bounces: its sender would be gone, and take the way of any bounced one.
\* (What is sent and what comes back are made sequences once.)
Sent(w, l, q, out) == \E sent \in {out \o <<>>} : \E back \in {Bounced(Lost(sent)) \o <<>>} :
    /\ local' = [local EXCEPT ![w] = l \o At(w, sent)]
    /\ queue' = [v \in Workers |->
                   (IF v = w THEN q ELSE queue[v] \o At(v, sent)) \o At(v, back)]

\* What the application sees: the start message comes back filled when the
\* component is initialised (init_done), its calls return.
Told(out) ==
    LET back == {out[i] : i \in {j \in DOMAIN out : out[j].to = App}}
        returned == \E x \in back : x.msg = Cmd
    IN /\ owned' = owned \cup {x.msg : x \in back}
       /\ ready' = ready \cup {x.msg.of : x \in {y \in back : y.msg.what = "start" /\ y.len > 0}}
       /\ call' = IF returned THEN None ELSE call
       /\ conn' = IF ~returned THEN conn
                  ELSE CASE call.op = "route"   -> [conn EXCEPT ![call.on] = call.arg]
                         [] call.op = "unroute" -> [conn EXCEPT ![call.on] = None]
                         [] OTHER               -> conn

\* dsp_worker_entry: the local queue is emptied after each step, then come the
\* scheduled components, then the worker's queue.
Scheduling(w) == {k \in Codecs : WorkerOf[k] = w /\ codec[k].tree > 0}
ItemFirst(w) == IF local[w] # <<>> THEN {Head(local[w])}
                ELSE {queue[w][i] : i \in DOMAIN queue[w] \cap {1}}
NextItem(w) == IF local[w] # <<>> THEN {Head(local[w])}
               ELSE IF queue[w] # <<>> /\ Scheduling(w) = {} THEN {Head(queue[w])}
               ELSE {}
LocalLeft(w) == IF local[w] # <<>> THEN Tail(local[w]) ELSE <<>>
QueueLeft(w) == IF local[w] # <<>> THEN queue[w] ELSE Tail(queue[w])

\* xf_core_process_message: what component k is given, in this mode.
Given(k, mode) == {x \in NextItem(WorkerOf[k]) : x.to = k /\ codec[k].mode = mode}
Gets(k, op) == {x \in Given(k, "running") : x.op = op}

\* The structure of k becomes c and k sends out.
Becomes(k, c, out) ==
    /\ codec' = [codec EXCEPT ![k] = c]
    /\ Sent(WorkerOf[k], LocalLeft(WorkerOf[k]), QueueLeft(WorkerOf[k]), out)
    /\ Told(out)

-----------------------------------------------------------------------------
(* Scheduling and ports. An operator gives the component it leaves or, as  *)
(* [c |-> the component, out |-> the messages sent], both.                 *)

Toggled(S, T) == (S \ T) \cup (T \ S)

Scheduled(c) == IF "schedule" \in c.state THEN c
                ELSE [c EXCEPT !.state = @ \cup {"schedule"}, !.tree = @ + 1]
Cancelled(c) == IF "schedule" \notin c.state THEN c
                ELSE [c EXCEPT !.state = @ \ {"schedule"}, !.tree = 0]

InReady(c) == c.in # <<>> /\ "purging" \notin c.iflags
\* (Whatever the port is doing.)
OutHeld(c) == c.out # <<>>
OutReady(c) == c.out # <<>> /\ c.oflags \cap {"unrouting", "flushing"} = {}
Routed(c) == "routed" \in c.oflags

\* base->state without OUTPUT_SETUP: the plugin's output pointer is void.
OutputKept(c) == c
NoOutput(c) == [c EXCEPT !.state = @ \ {"output_setup"}, !.ptr = None]
Restarted(c) == [c EXCEPT !.state = {"execution"}, !.ptr = None]

\* (The messages are forgotten.)
Forgotten(c) ==
    [c   |-> [c EXCEPT !.in = <<>>, !.filled = 0,
                       !.iflags = (@ \cap {"paused"}) \cup {"enabled"}],
     out |-> <<>>]
Purged(c) ==
    [c   |-> [c EXCEPT !.in = <<>>, !.filled = 0,
                       !.iflags = (@ \cap {"paused"}) \cup {"enabled"}],
     out |-> [i \in DOMAIN c.in |-> Answered(c.in[i], 0)]]

\* (A flush on its way taken for one that is over; another one sent.)
FlushedEarly(k, c, op) ==
    LET over == ~Routed(c) \/ "flushing" \in c.oflags \/ ("idle" \in c.oflags /\ op # "fill")
    IN [c |-> IF over THEN c ELSE [c EXCEPT !.oflags = @ \cup {"flushing"}], done |-> over,
        out |-> IF over THEN <<>> ELSE <<Item(c.route, Control(k), op, 0)>>]
FlushedAgain(k, c, op) ==
    LET over == ~Routed(c) \/ ("idle" \in c.oflags /\ op # "fill")
    IN [c |-> IF over THEN c ELSE [c EXCEPT !.oflags = @ \cup {"flushing"}], done |-> over,
        out |-> IF over THEN <<>> ELSE <<Item(c.route, Control(k), op, 0)>>]

\* xf_output_port_flush; done tells that nothing is left to wait for.
Flushed(k, c, op) ==
    LET control == Item(c.route, Control(k), IF op = "fill" THEN "empty" ELSE op, 0)
    IN CASE ~Routed(c) ->
              [c |-> [c EXCEPT !.out = <<>>], done |-> TRUE,
               out |-> [i \in DOMAIN c.out |-> Item(App, c.out[i], "fill", 0)]]
         [] Routed(c) /\ "idle" \in c.oflags /\ op # "fill" ->
              [c |-> c, done |-> TRUE, out |-> <<>>]
         [] Routed(c) /\ ~("idle" \in c.oflags /\ op # "fill") ->
              [c |-> [c EXCEPT !.oflags = @ \cup {"flushing"}], done |-> FALSE,
               out |-> IF "flushing" \in c.oflags THEN <<>> ELSE <<control>>]

FlushDone(c) == [c EXCEPT !.oflags = Toggled(@, {"idle", "flushing"})]

\* The pool is freed: an output pointer left is stale.
Stale == Msg(None, "freed")
Unrouted(c) == [c EXCEPT !.out = <<>>, !.oflags = {"idle"}, !.route = None,
                         !.ptr = IF @ = None THEN None ELSE Stale]

CmdDone(op) == Item(App, Cmd, op, 0)

-----------------------------------------------------------------------------
(* Command handlers of a running component.                                *)

\* xa_codec_empty_this_buffer, xf_input_port_put
EmptyThisBuffer(k) == \E x \in Gets(k, "empty") :
    LET c == codec[k]
        eos == x.len = 0
        put == [c EXCEPT !.in = Append(@, x),
                         !.iflags = IF eos THEN Toggled(@, {"enabled", "eos"}) ELSE @]
        live == IF "completed" \in c.state THEN Restarted(put) ELSE put
        first == IF OutReady(live) THEN Scheduled(live) ELSE live
    IN IF "enabled" \notin c.iflags THEN Becomes(k, c, <<Answered(x, 0)>>)
          ELSE Becomes(k, IF c.in = <<>> THEN first ELSE put, <<>>)

\* (The unroute command is not answered.)
UnrouteForgotten(k, x) == Becomes(k, Unrouted(FlushDone(codec[k])), <<>>)

\* xa_codec_fill_this_buffer. First, the flow-control message back from below.
ControlReturns(k, x) ==
    LET c == FlushDone(codec[k])
        unroutes == "unrouting" \in c.oflags \/ x.len = Invalid
        purge == Purged(IF unroutes THEN Unrouted(c) ELSE c)
        answer == IF "unrouting" \in c.oflags THEN <<CmdDone("unroute")>> ELSE <<>>
    IN Becomes(k, purge.c, answer \o purge.out)

\* A buffer bounced off a component that is gone: take the connection apart.
BufferBounced(k) ==
    LET c == codec[k]
        flush == Flushed(k, Cancelled(c), "fill")
    IN IF "flushing" \in c.oflags THEN Becomes(k, c, <<>>)
       ELSE Becomes(k, NoOutput(flush.c), flush.out)

OutputReceived(k, x) ==
    LET c == codec[k]
        init == "runtime_init" \in c.state
        live == IF ~init /\ "eos_seq_done" \in c.state THEN Restarted(c) ELSE c
        put == [live EXCEPT !.out = Append(@, x.msg)]
        due == /\ c.out = <<>>
               /\ InReady(put) \/ (init /\ k \notin Decoders)
               /\ put.state \cap {"runtime_init", "execution"} # {}
               /\ OutReady(put)
    IN Becomes(k, IF due THEN Scheduled(put) ELSE put, <<>>)

\* (The flow-control message taken for a buffer.)
FillAnything(k) == \E x \in Gets(k, "fill") : OutputReceived(k, x)
FillThisBuffer(k) == \E x \in Gets(k, "fill") :
    LET c == codec[k] IN
    IF "runtime_init" \in c.state THEN OutputReceived(k, x)
       ELSE IF x.msg = Control(k) THEN ControlReturns(k, x)
       ELSE IF "completed" \in c.state /\ "eos_seq_done" \notin c.state /\ ~Routed(c) THEN
            Becomes(k, [c EXCEPT !.state = @ \cup {"eos_seq_done"}], <<Answered(x, 0)>>)
       ELSE IF x.len = Invalid /\ Routed(c) THEN BufferBounced(k)
       ELSE OutputReceived(k, x)

\* xa_codec_port_route, xf_output_port_route
PortRoute(k) == \E x \in Gets(k, "route") :
    LET pool == CHOOSE s \in [1..Cardinality(Bufs) -> Bufs] : {s[i] : i \in DOMAIN s} = Bufs
        c == [codec[k] EXCEPT !.out = @ \o [i \in DOMAIN pool |-> Msg(k, pool[i])],
                              !.oflags = (@ \cup {"routed"}) \ {"idle"}, !.route = call.arg]
    IN Becomes(k, Scheduled(c), <<Answered(x, 0)>>)

\* xa_codec_port_unroute, xf_output_port_unroute_start
PortUnroute(k) == \E x \in Gets(k, "unroute") :
    LET flush == Flushed(k, NoOutput(Cancelled(codec[k])), "flush") IN
    IF ~Routed(codec[k]) THEN Becomes(k, codec[k], <<Answered(x, 0)>>)
       ELSE IF flush.done THEN Becomes(k, Unrouted(flush.c), <<Answered(x, 0)>>)
       ELSE Becomes(k, [flush.c EXCEPT !.oflags = @ \cup {"unrouting"}], flush.out)

\* xa_codec_flush at the input port: pass it on and wait, or answer at once.
FlushInput(k) == \E x \in Gets(k, "flush") :
    LET purge == Purged(Cancelled(codec[k]))
        c == [purge.c EXCEPT !.state = @ \ {"input_setup"}]
        flush == Flushed(k, c, "flush")
        f == flush.c
        over == Toggled(f.state, {"execution", "completed"})
                \cup (IF OutReady(c) THEN {"eos_seq_done"} ELSE {})
    IN /\ x.msg # Control(k)
       /\ IF flush.done
          THEN Becomes(k, IF Routed(f) THEN f ELSE [f EXCEPT !.state = over],
                       purge.out \o flush.out \o <<Answered(x, x.len)>>)
          ELSE Becomes(k, [f EXCEPT !.in = Append(@, x), !.iflags = Toggled(@, {"purging"})],
                       purge.out \o flush.out)

\* xa_codec_flush at the output port: the answer to a flush. (It comes while the
\* port is routed only.)
FlushReturns(k) == \E x \in Gets(k, "flush") :
    LET c == codec[k]
        f == NoOutput(FlushDone(c))
    IN /\ x.msg = Control(k)
       /\ IF "unrouting" \in c.oflags THEN Becomes(k, Unrouted(c), <<CmdDone("unroute")>>)
          ELSE Becomes(k, [f EXCEPT !.in = Tail(@), !.iflags = Toggled(@, {"purging"})],
                       <<Answered(Head(c.in), 0)>>)

\* xa_codec_port_pause, xa_codec_port_resume
Paused(c) == "paused" \in c.iflags \cup c.oflags
PortPause(k) == \E x \in Gets(k, "pause") :
    LET c == codec[k] IN
    Becomes(k, IF "completed" \in c.state THEN c
                  ELSE IF call.arg = "in" THEN [c EXCEPT !.iflags = @ \cup {"paused"}]
                  ELSE [c EXCEPT !.oflags = @ \cup {"paused"}], <<Answered(x, 0)>>)
PortResume(k) == \E x \in Gets(k, "resume") :
    LET c == codec[k]
        flags == IF call.arg = "in" THEN c.iflags ELSE c.oflags
        r == IF call.arg = "in" THEN [c EXCEPT !.iflags = @ \ {"paused"}]
             ELSE [c EXCEPT !.oflags = @ \ {"paused"}]
    IN Becomes(k, IF "completed" \in c.state \/ "paused" \notin flags THEN c
                     ELSE IF InReady(r) /\ OutReady(r) THEN Scheduled(r) ELSE r,
                  <<Answered(x, 0)>>)

-----------------------------------------------------------------------------
(* Data processing, xa_base_process.                                       *)

\* xf_input_port_fill: move messages into the buffer until it is full, the
\* queue is empty or the end of the stream is met; ok tells that it may be used.
Filled(c) ==
    LET room == Frame - c.filled
        data == CHOOSE n \in 0..Len(c.in) :
                  /\ \A i \in 1..n : c.in[i].len > 0
                  /\ n < Len(c.in) => c.in[n + 1].len <= 0
        n == IF data < room THEN data ELSE room
        over == n < room /\ n < Len(c.in)
    IN [c   |-> [c EXCEPT !.in = SubSeq(@, n + 1, Len(@)), !.filled = @ + n,
                          !.iflags = IF over THEN Toggled(@, {"eos", "done"}) ELSE @],
        out |-> [i \in 1..n |-> Answered(c.in[i], c.in[i].len)],
        ok  |-> c.in # <<>> /\ (n = room \/ over)]

\* xa_codec_preprocess: point the plugin to its output, then fill its input.
Preprocessed(k, c) ==
    LET init == "runtime_init" \in c.state
        output == IF "output_setup" \in c.state THEN c
                  ELSE [c EXCEPT !.state = @ \cup {"output_setup"},
                                 !.ptr = IF init THEN Msg(k, "scratch") ELSE Head(c.out)]
        fill == IF "done" \in output.iflags THEN [c |-> output, out |-> <<>>, ok |-> TRUE]
                ELSE Filled(output)
        NoData(d, out) == [c |-> d, out |-> out, ok |-> FALSE]
    IN IF Paused(c) \/ (~init /\ "output_setup" \notin c.state /\ c.out = <<>>) THEN NoData(c, <<>>)
       ELSE IF (init /\ k \notin Decoders) \/ "input_setup" \in c.state THEN
            [c |-> output, out |-> <<>>, ok |-> TRUE]
       ELSE IF ~fill.ok /\ ~init THEN NoData(fill.c, fill.out)
       ELSE [c |-> [fill.c EXCEPT !.state = @ \cup {"input_setup"}], out |-> fill.out, ok |-> TRUE]

\* What the plugin may do. Initialisation is over once a decoder has input or was
\* told that none will come, at once for others. An execution consumes all, and
\* is the last (done) when the end of the input was signalled.
Executed(k, c) ==
    IF "runtime_init" \in c.state THEN
        LET done == k \notin Decoders \/ c.filled > 0 \/ "done" \in c.iflags
        IN {[c |-> IF done THEN [c EXCEPT !.state = Toggled(@, {"runtime_init", "execution"})] ELSE c,
             consumed |-> 0, produced |-> 0, done |-> done]}
    ELSE IF "execution" \in c.state THEN
        LET done == "done" \in c.iflags
            barren == done /\ {"routed", "idle"} \subseteq c.oflags /\ ~MayBeBarren
        IN {[c |-> IF done THEN [c EXCEPT !.state = Toggled(@, {"execution", "completed"})] ELSE c,
             consumed |-> c.filled, produced |-> n, done |-> done] :
               n \in IF ~c.prepared THEN {0} ELSE IF barren THEN {1} ELSE {0, 1}}
    ELSE {[c |-> c, consumed |-> 0, produced |-> 0, done |-> FALSE]}

\* xf_output_port_produce with the output pointer made void
Produced(c) ==
    [c   |-> [c EXCEPT !.out = Tail(@), !.oflags = @ \ {"idle"},
                       !.state = Toggled(@, {"output_setup"}), !.ptr = None],
     out |-> <<Passed(c, Head(c.out), 1)>>]

\* xa_codec_prepare_runtime: the start message goes back with the parameters.
Prepared(c) ==
    [c   |-> [c EXCEPT !.out = Tail(@), !.oflags = @ \ {"idle"}, !.prepared = TRUE,
                       !.state = @ \ {"input_setup", "output_setup"}, !.ptr = None],
     out |-> <<Passed(c, Head(c.out), 1)>>]

\* The end of the stream goes on to the next component or to the application.
StreamOver(k, c, produced) ==
    LET flush == Flushed(k, c, "fill")
        purge == Purged(flush.c)
        d == IF flush.done THEN purge.c ELSE flush.c
    IN [c   |-> IF produced = 0 /\ ~Routed(d) THEN [d EXCEPT !.state = @ \cup {"eos_seq_done"}] ELSE d,
        out |-> flush.out \o IF flush.done THEN purge.out ELSE <<>>]

\* xa_codec_postprocess
Postprocessed(k, e) ==
    LET used == IF e.consumed = 0 THEN e.c
                ELSE [e.c EXCEPT !.filled = 0, !.state = Toggled(@, {"input_setup"})]
        made == IF e.produced = 0 THEN [c |-> used, out |-> <<>>] ELSE Produced(used)
        c == made.c
        last == IF "execution" \in c.state THEN Prepared(c) ELSE StreamOver(k, c, e.produced)
        again == IF "runtime_init" \in c.state /\ e.consumed = 0
                 THEN [c EXCEPT !.state = @ \ {"input_setup"}] ELSE c
    IN IF e.done THEN [c |-> last.c, out |-> made.out \o last.out]
       ELSE [c |-> IF InReady(again) /\ OutReady(again) THEN Scheduled(again) ELSE again,
             out |-> made.out]

\* The worker takes component k off its tree. Which of several scheduled ones is
\* first, their time stamps decide: any may be.
Process(k) ==
    LET w == WorkerOf[k]
        pre == Preprocessed(k, [codec[k] EXCEPT !.state = @ \ {"schedule"}, !.tree = @ - 1])
    IN /\ local[w] = <<>> /\ k \in Scheduling(w)
       /\ \E r \in IF pre.ok THEN {Postprocessed(k, e) : e \in Executed(k, pre.c)}
                   ELSE {[c |-> pre.c, out |-> <<>>]} :
            /\ codec' = [codec EXCEPT ![k] = r.c]
            /\ Sent(w, <<>>, queue[w], pre.out \o r.out)
            /\ Told(pre.out \o r.out)

-----------------------------------------------------------------------------
(* Deletion.                                                               *)

\* (Without the purge.)
DestroyOnly(k, out) ==
    /\ codec' = [codec EXCEPT ![k] = Destroyed]
    /\ Told(out \o <<CmdDone("unregister")>>)
    /\ Sent(WorkerOf[k], LocalLeft(WorkerOf[k]), QueueLeft(WorkerOf[k]), out \o <<CmdDone("unregister")>>)

\* xa_audio_codec_destroy and xf_client_cleanup, after out was sent: answer the
\* saved command, then what is queued for the component. Those answers go by
\* component->priority, already freed: they pass for local ones (near) or not.
Destroy(k, out) ==
    LET w == WorkerOf[k]
        left == QueueLeft(w)
        for == {i \in DOMAIN left : left[i].to = k}
        back == Bounced(Those(left, for))
        sent == out \o <<CmdDone("unregister")>>
    IN /\ codec' = [codec EXCEPT ![k] = Destroyed]
       /\ Told(sent \o back)
       /\ \E near \in BOOLEAN :
            LET Far(x) == x.to \in Codecs /\ WorkerOf[x.to] = w /\ ~near
                kept == Those(left, {i \in DOMAIN left : i \in for =>
                                       Alive(Returned(left[i])) /\ Far(Returned(left[i]))})
            IN Sent(w, LocalLeft(w),
                    [i \in DOMAIN kept |-> IF kept[i].to = k THEN Returned(kept[i]) ELSE kept[i]],
                    sent \o Those(back, {i \in DOMAIN back : ~Far(back[i])}))

\* xa_audio_codec_cleanup
Unregister(k) == \E x \in Gets(k, "unregister") :
    LET purge == Purged(Cancelled(codec[k]))
        flush == Flushed(k, purge.c, "flush")
    IN IF flush.done THEN Destroy(k, purge.out \o flush.out)
       ELSE Becomes(k, [flush.c EXCEPT !.mode = "terminating"], purge.out \o flush.out)

\* xa_audio_codec_terminate
Terminate(k) == \E x \in Given(k, "terminating") :
    IF x.msg = Control(k) THEN Destroy(k, <<>>)
    ELSE Becomes(k, codec[k],
                 IF x.op = "fill" THEN <<>>
                 ELSE <<Answered(x, IF FromPool(x.msg) THEN Invalid ELSE 0)>>)

\* dsp_worker_entry. Its look-up never fails here: see NoneForTheGone.
WorkerStep(w) == \E k \in Codecs :
    /\ WorkerOf[k] = w
    /\ \/ EmptyThisBuffer(k) \/ FillThisBuffer(k) \/ PortRoute(k) \/ PortUnroute(k)
       \/ FlushInput(k) \/ FlushReturns(k) \/ PortPause(k) \/ PortResume(k)
       \/ Unregister(k) \/ Terminate(k) \/ Process(k)

-----------------------------------------------------------------------------
(* The application (xaf-api.c). It sends to a component it has not deleted.  *)

InUse(k) == ~Gone(k) /\ ~(call # None /\ call.op = "unregister" /\ call.on = k)
FedBy(k) == {j \in Codecs : conn[j] = k}

Sends(k, m, op, len) ==
    /\ InUse(k) /\ m \in owned
    /\ owned' = owned \ {m}
    /\ queue' = [queue EXCEPT ![WorkerOf[k]] = Append(@, Item(k, m, op, len))]
    /\ UNCHANGED <<codec, local, ready, conn>>

\* xaf_comp_process
Start(k) == k \notin ready /\ Sends(k, Msg(k, "start"), "fill", 0) /\ UNCHANGED call
Input(k) == /\ k \in Sources /\ Msg(k, "eos") \in owned
            /\ Sends(k, Msg(k, "in"), "empty", 1) /\ UNCHANGED call
InputOver(k) == k \in Sources \cap ready /\ Sends(k, Msg(k, "eos"), "empty", 0) /\ UNCHANGED call
NeedOutput(k) == k \in Sinks \cap ready /\ Sends(k, Msg(k, "out"), "fill", 1) /\ UNCHANGED call

\* One synchronous call at a time.
Calls(k, op, arg) ==
    /\ call = None /\ Sends(k, Cmd, op, 0)
    /\ call' = [op |-> op, on |-> k, arg |-> arg]

\* xaf_connect, xaf_disconnect, xaf_comp_delete
Connect(e) == /\ e[1] \in ready /\ conn[e[1]] = None
              /\ FedBy(e[2]) = {} /\ InUse(e[2])
              /\ Calls(e[1], "route", e[2])
\* (A set that all below connection k are in has only components that are initialised.)
Initialised(S) == \A k \in S : Gone(k) \/ (k \in ready /\ conn[k] \in S \cup {None})
MayLose(k) == \E S \in SUBSET Codecs : Initialised(S) /\ conn[k] \in S \cup {None}
Disconnect(k) == conn[k] # None /\ MayLose(k) /\ Calls(k, "unroute", None)
Delete(k) == MayLose(k) /\ Calls(k, "unregister", None)

\* xaf_pause, xaf_resume
Pause(k) == \E port \in {"in", "out"} : k \in Pausable /\ Calls(k, "pause", port)
Resume(k) == \E port \in {"in", "out"} : k \in Pausable /\ Calls(k, "resume", port)

AppStep ==
    \/ \E e \in Edges : Connect(e)
    \/ \E k \in Codecs :
         \/ Start(k) \/ Input(k) \/ InputOver(k) \/ NeedOutput(k)
         \/ Disconnect(k) \/ Delete(k) \/ Pause(k) \/ Resume(k)

Next == AppStep \/ \E w \in Workers : WorkerStep(w)
Spec == Init /\ [][Next]_vars

\* Worker threads run; the application takes the output of its sinks.
FairSpec ==
    /\ Spec
    /\ \A w \in Workers : WF_vars(WorkerStep(w))
    /\ \A k \in Sinks : WF_vars(NeedOutput(k))

-----------------------------------------------------------------------------
(* Properties.                                                             *)

Flags == [state |-> {"runtime_init", "execution", "completed", "schedule", "eos_seq_done",
                     "input_setup", "output_setup"},
          in |-> {"enabled", "eos", "done", "purging", "paused"},
          out |-> {"routed", "flushing", "idle", "unrouting", "paused"}]
AllMsgs == AppMsgs \cup {Msg(k, what) : k \in Codecs, what \in Pool}
IsItem(x) == /\ x.to \in Codecs /\ x.msg \in AllMsgs /\ x.len \in {Invalid, 0, 1}
             /\ x.op \in {"empty", "fill", "flush", "route", "unroute", "unregister", "pause", "resume"}
AllItems(s) == \A i \in DOMAIN s : IsItem(s[i])

\* Types; with Frame the bound of the input buffer.
TypeOK ==
    /\ \A k \in Codecs : LET c == codec[k] IN
         /\ c.mode \in {"running", "terminating", "gone"}
         /\ c.state \subseteq Flags.state /\ c.iflags \subseteq Flags.in /\ c.oflags \subseteq Flags.out
         /\ c.tree \in Nat /\ c.prepared \in BOOLEAN /\ c.filled \in 0..Frame
         /\ AllItems(c.in) /\ \A i \in DOMAIN c.in : c.in[i].op \in {"empty", "flush"}
         /\ \A i \in DOMAIN c.out : c.out[i] \in {Msg(k, what) : what \in Bufs \cup {"start", "out"}}
         /\ c.route \in Codecs \cup {None} /\ c.ptr \in AllMsgs \cup {Msg(k, "scratch"), Stale, None}
    /\ \A w \in Workers : AllItems(local[w]) /\ AllItems(queue[w])
    /\ owned \subseteq AppMsgs /\ ready \subseteq Codecs
    /\ conn \in [Codecs -> Codecs \cup {None}]
    /\ call = None \/ (call.on \in Codecs /\ call.arg \in Codecs \cup {None, "in", "out"})

\* Where message m is: in transit or held at an input (abroad), at an output.
Spots(name, f, m) == UNION {{<<name, x, i>> : i \in {j \in DOMAIN f[x] : f[x][j].msg = m}} : x \in DOMAIN f}
Abroad(m) == Spots("local", local, m) \cup Spots("queue", queue, m)
             \cup Spots("in", [k \in Codecs |-> codec[k].in], m)
AtOutputs(m) == UNION {{<<"out", k, i>> : i \in {j \in DOMAIN codec[k].out : codec[k].out[j] = m}} : k \in Codecs}
Saved == {k \in Codecs : codec[k].mode = "terminating" \/ "unrouting" \in codec[k].oflags}

\* The flow-control message is on its way exactly while its port is flushing: no
\* flush is sent twice, none is forgotten.
OneFlushAtATime == \A k \in Codecs :
    Cardinality(Abroad(Control(k))) = IF "flushing" \in codec[k].oflags THEN 1 ELSE 0

\* Nothing is left for a component that is gone: its deletion has answered all
\* that was queued for it (xf_worker_queue_purge), the two-stage exit has waited for
\* the rest, and nobody sends to it any more.
NoneForTheGone == \A w \in Workers :
    /\ \A i \in DOMAIN local[w] : Alive(local[w][i])
    /\ \A i \in DOMAIN queue[w] : Alive(queue[w][i])

\* No message is lost or doubled: each message of the application is with the
\* application, in transit, at one port or, the command, saved by the handler
\* that will answer it; each buffer of a connection is at its output port or
\* in one place beyond (only a flush, or a component gone below, may have it dropped);
\* its flow-control message and what was meant for a component that is gone, as above.
MessagesConserved ==
    /\ OneFlushAtATime /\ NoneForTheGone
    /\ \A m \in AppMsgs :
         (IF m \in owned THEN 1 ELSE 0) + Cardinality(Abroad(m)) + Cardinality(AtOutputs(m))
           + (IF m = Cmd THEN Cardinality(Saved) ELSE 0) = 1
    /\ \A k \in Codecs, buf \in Bufs :
         LET n == Cardinality(Abroad(Msg(k, buf))) + Cardinality(AtOutputs(Msg(k, buf)))
             c == codec[k]
         IN n <= 1 /\ (Routed(c) /\ ~Gone(c.route) /\ c.mode = "running" /\ "flushing" \notin c.oflags => n = 1)

\* The pool of a connection is freed (unroute, destroy) only when none of its
\* messages is in a queue or in another component.
FreedAtHome == \A k \in Codecs : ~Routed(codec[k]) => \A what \in Pool : Abroad(Msg(k, what)) = {}

\* xf-io.h: "port is idle - no outstanding messages".
IdleIsHome == \A k \in Codecs : {"routed", "idle"} \subseteq codec[k].oflags =>
                 \A what \in Pool : Abroad(Msg(k, what)) = {}

\* What the BUG() checks of the handlers say of the message they are given; while the
\* answer to a flush passed on is out, that flush is all there is at the input ...
MessageExpected == \A k \in Codecs : LET c == codec[k] IN
    /\ \A x \in Gets(k, "empty") : x.len = 0 /\ "enabled" \in c.iflags => "eos" \notin c.iflags
    /\ \A x \in Gets(k, "fill") : "runtime_init" \in c.state => x.len = 0
    /\ \A x \in Gets(k, "fill") \cup Gets(k, "flush") : x.msg = Control(k) => "flushing" \in c.oflags
    /\ \A x \in Gets(k, "flush") : x.msg = Control(k) /\ "unrouting" \notin c.oflags =>
         Routed(c) /\ "purging" \in c.iflags
    /\ "purging" \in c.iflags => Len(c.in) = 1 /\ c.in[1].op = "flush"
    /\ \A x \in Given(k, "terminating") : x.msg = Control(k) => c.oflags \cap {"flushing", "idle"} = {"flushing"}
    /\ Gets(k, "route") # {} => ~Routed(c)

\* ... and of the component that is to run. The scheduling flag tells whether it is in its
\* worker's tree, once, also after the handlers that assign base->state as a whole; it has
\* a buffer to produce (the start message when it is initialised), a port not being taken
\* apart, the end of the stream where the queue has an empty message.
RunExpected == \A k \in Codecs : LET c == codec[k] IN
    /\ c.tree = IF "schedule" \in c.state THEN 1 ELSE 0
    /\ "schedule" \in c.state =>
      /\ "runtime_init" \in c.state => c.out # <<>> /\ Head(c.out) = Msg(k, "start")
      /\ c.out # <<>> => "unrouting" \notin c.oflags
      /\ \A i \in DOMAIN c.in : c.in[i].len <= 0 => c.iflags \cap {"eos", "done"} # {}

\* A component that runs writes to the buffer that it will send: the plugin's
\* output pointer, if set up, is that of the first buffer of the output port.
OutputIsOurs == \A k \in Codecs : LET c == codec[k] IN
    {"schedule", "execution", "output_setup"} \subseteq c.state => c.out # <<>> /\ c.ptr = Head(c.out)

\* Every call of the application returns.
CallsReturn == call # None ~> call = None

=============================================================================
