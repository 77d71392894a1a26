------------------------------ MODULE MimoProc ------------------------------
(***************************************************************************)
(* The class of components with several inputs and outputs                 *)
(* (xa-class-mimo-proc.c), with two plugins of the repository: mimo_mix,   *)
(* which adds its inputs up, and pcm_split, which copies its input to each *)
(* output. No port has its scheduling relaxed, and there is an output.     *)
(* The plugin is told which ports are connected, paused and over; it holds *)
(* input and, in its last run, used some.                                  *)
(***************************************************************************)
EXTENDS Ports, Folds

\* xa_mimo_proc_factory, xa_mimo_proc_memtab: the class's own flags of an output port.
MimoConfigured(pool, ins, outs, splits) ==
    [class |-> "mimo", pool |-> pool, mode |-> "running", state |-> {"runtime_init"}, tree |-> 0, isr |-> "none",
     in |-> [i \in ins |-> InPort({"idle"})],
     out |-> [j \in outs |-> OutPort({"unstarted", "to_sink"})],
     plugin |-> [splits |-> splits, connected |-> {}, paused |-> {}, over |-> {},
                 holds |-> {}, used |-> {}, done |-> FALSE],
     sent |-> <<>>]

\* XA_MIMO_PROC_CONFIG_PARAM_PORT_CONNECT, _DISCONNECT, _PAUSE, _RESUME
Tells(c, what, p) == [c EXCEPT !.plugin[what] = @ \cup {p}]
Untells(c, what, p) == [c EXCEPT !.plugin[what] = @ \ {p}]

\* xa_mimo_proc_check_active, _input_port_ready, _output_port_ready, _output_port_flush_done
MimoActive(c) == {i \in DOMAIN c.in : InHas(c, i, {"recvd", "active"})}
MimoInReady(c) == \E i \in DOMAIN c.in : InHas(c, i, {"paused"}) \/ (i \in MimoActive(c) /\ InReady(c, i))
MimoOutReady(c) == \A j \in DOMAIN c.out :
    OutHas(c, j, {"paused"}) \/ ~OutHas(c, j, {"to_sink"}) \/ OutReady(c, j)
MimoFlushed(c) == \A j \in DOMAIN c.out : OutHas(c, j, {"flush_done"})
MimoDue(c) == ScheduleIf(c, MimoInReady(c) /\ MimoOutReady(c))

\* What a handler does once every output is flushed: the inputs are over.
MimoCollect(c) == IF MimoFlushed(c) THEN InPurgeAll(c) ELSE c

-----------------------------------------------------------------------------
(* Commands.                                                               *)

\* xa_mimo_proc_empty_this_buffer. Run-time initialisation of pcm_split forgets what
\* it was told; that of mimo_mix does nothing.
MimoRestart(c) ==
    IF "completed" \notin c.state THEN c
    ELSE [c EXCEPT !.state = {"execution"},
                   !.plugin = IF @.splits
                              THEN [@ EXCEPT !.connected = {}, !.paused = {}, !.over = {}, !.done = FALSE]
                              ELSE @]
MimoEmpty(c, x) ==
    LET i == x.port
        put == InPut(IF x.len # 0 THEN InSet(c, i, {"recvd"}) ELSE InClear(c, i, {"recvd"}), i, x)
        live == MimoRestart(put)
        active == IF InHas(live, i, {"idle"})
                  THEN Tells(InToggle(live, i, {"idle", "active"}), "connected", i) ELSE live
    IN IF IsFirst(c, i) THEN ScheduleIf(active, MimoOutReady(active)) ELSE put

\* xa_mimo_proc_fill_this_buffer: the flow-control message is back; a buffer is back from
\* a sink that is gone; a buffer to fill.
MimoControlBack(c, x) ==
    LET j == x.port
        d == MimoCollect(OutSet(OutFlushDone(c, j), j, {"flush_done"}))
    IN IF Unrouting(d, j) THEN UnrouteDone(d, j)
       ELSE IF x.len = Invalid THEN OutUnroute(d, j) ELSE d
MimoApart(c, j) == Untells(Untells(OutClear(c, j, {"setup", "to_sink"}), "paused", j), "connected", j)
MimoBounced(c, j) ==
    LET d == MimoApart(OutFlush(Cancel(c), j, "fill"), j)
    IN IF OutHas(c, j, {"flushing"}) THEN c
       ELSE ScheduleIf(d, MimoOutReady(d) /\ (MimoInReady(d) \/ "runtime_init" \in c.state))
MimoToFill(c, x) ==
    LET j == x.port
        init == "runtime_init" \in c.state
        put == OutPut(Check(c, init => x.len = 0), j, x.msg)
        active == IF OutHas(put, j, {"unstarted"})
                  THEN OutSet(OutClear(put, j, {"unstarted"}), j, {"active"}) ELSE put
        joins == ~OutHas(c, j, {"to_sink"}) /\ ~init /\ ~Unrouting(c, j)
        d == IF joins THEN Tells(OutSet(active, j, {"to_sink"}), "connected", j) ELSE active
    IN IF OutEmpty(c, j) THEN ScheduleIf(d, MimoOutReady(d) /\ (MimoInReady(d) \/ init)) ELSE put
MimoFill(c, x) ==
    LET j == x.port IN
    IF "runtime_init" \in c.state THEN MimoToFill(c, x)
    ELSE IF x.msg = Control(j) THEN MimoControlBack(c, x)
    ELSE IF "completed" \in c.state /\ ~Routed(c, j) THEN Answer(c, x, 0)
    ELSE IF x.len = Invalid /\ Routed(c, j) THEN MimoBounced(c, j)
    ELSE MimoToFill(c, x)

\* xa_mimo_proc_port_route, xa_mimo_proc_port_unroute
MimoRoute(c, x) ==
    LET j == x.port
        d == OutSet(OutRoute(Tells(c, "connected", j), j), j, {"active", "to_sink"})
    IN Answer(MimoDue(d), x, 0)
MimoUnroute(c, x) ==
    LET j == x.port
        flush == OutFlush(MimoApart(Cancel(c), j), j, "flush")
        over == OutUnroute(flush, j)
    IN IF ~Routed(c, j) THEN Answer(c, x, 0)
       ELSE IF FlushOver(c, j, "flush") THEN Answer(ScheduleIf(over, MimoOutReady(over)), x, 0)
       ELSE UnrouteStart(flush, j)

\* xa_mimo_proc_flush, of an input port and of an output port.
MimoFlushIn(c, x) ==
    LET i == x.port
        d == InClear(InPurge(c, i), i, {"active", "paused", "input_setup", "recvd"})
        e == Untells(Untells(InSet(d, i, {"idle"}), "paused", i), "connected", i)
    IN Answer(IF InHas(c, i, {"active", "paused"}) THEN MimoDue(e) ELSE c, x, x.len)
MimoFlushOut(c, x) ==
    LET j == x.port
        due == OutSet(ScheduleIf(c, MimoOutReady(c)), j, {"flush_done"})
        own == Answer(OutFlush(c, j, "flush"), x, x.len)
        back == OutSet(OutFlushDone(Check(c, x.msg = Control(j)), j), j, {"flush_done"})
    IN IF Unrouting(c, j)
       THEN UnrouteDone(IF "completed" \in c.state THEN MimoCollect(due) ELSE due, j)
       ELSE OutClear(MimoCollect(IF Routed(c, j) THEN back ELSE own), j, {"paused", "setup"})
MimoFlush(c, x) == IF x.port \in DOMAIN c.in THEN MimoFlushIn(c, x) ELSE MimoFlushOut(c, x)

\* xa_mimo_proc_port_pause, xa_mimo_proc_port_resume
MimoPausable(c, p) == IF p \in DOMAIN c.in THEN InHas(c, p, {"active"}) ELSE OutHas(c, p, {"active"})
MimoPause(c, x) ==
    LET p == x.port
        d == Tells(IF p \in DOMAIN c.in THEN InSet(c, p, {"paused"}) ELSE OutSet(c, p, {"paused"}), "paused", p)
        was == IF p \in DOMAIN c.in THEN InHas(c, p, {"paused"}) ELSE OutHas(c, p, {"paused"})
    IN Answer(IF "completed" \notin c.state /\ MimoPausable(c, p) /\ ~was THEN MimoDue(d) ELSE c, x, 0)
MimoResume(c, x) ==
    LET p == x.port
        d == Untells(IF p \in DOMAIN c.in THEN InClear(c, p, {"paused"}) ELSE OutClear(c, p, {"paused"}), "paused", p)
        was == IF p \in DOMAIN c.in THEN InHas(c, p, {"paused"}) ELSE OutHas(c, p, {"paused"})
    IN Answer(IF "completed" \notin c.state /\ MimoPausable(c, p) /\ was THEN MimoDue(d) ELSE c, x, 0)

-----------------------------------------------------------------------------
(* Processing.                                                             *)

\* xa_mimo_proc_preprocess: a buffer for every output that takes data, in order up to one
\* that has none ...
Feeding(c) == {j \in DOMAIN c.out : OutHas(c, j, {"active"}) /\ OutHas(c, j, {"to_sink"})}
Taking(c) == {j \in Feeding(c) : ~OutHas(c, j, {"paused"})}
ToSetup(c) == {j \in Taking(c) : ~OutHas(c, j, {"setup"})}
MimoOutputs(c) ==
    LET got == {j \in ToSetup(c) : \A k \in ToSetup(c) : k <= j => ~OutEmpty(c, k)}
    IN FoldSet(LAMBDA j, d : OutSet(OutSetup(d, j), j, {"setup"}), c, got)
\* ... and what there is of every input that is active.
MimoInput(c, i) ==
    LET f == IF InDone(c, i) THEN c ELSE InFill(c, i)
        full == f.in[i].filled > 0
        over == IF InDone(f, i) THEN Tells(f, "over", i) ELSE f
        told == IF full THEN Tells(over, "holds", i) ELSE Untells(over, "holds", i)
    IN IF ~InDone(f, i) /\ ~full /\ ~InHas(c, i, {"paused"}) THEN f
       ELSE InSet(told, i, {"input_setup"})
MimoPreprocess(c) ==
    LET o == MimoOutputs(c)
        todo == {i \in DOMAIN c.in : InHas(c, i, {"active"}) /\ ~InHas(c, i, {"input_setup"})}
        d == FoldSet(LAMBDA i, b : MimoInput(b, i), o, todo)
        waiting == {i \in todo : ~InHas(d, i, {"input_setup"})}
    IN IF "runtime_init" \in c.state THEN [c |-> c, ok |-> \E j \in DOMAIN c.out : OutHas(c, j, {"active"})]
       ELSE IF \E j \in ToSetup(c) : OutEmpty(c, j) THEN [c |-> o, ok |-> FALSE]
       ELSE [c |-> d, ok |-> /\ \E i \in DOMAIN c.in : InHas(c, i, {"active"})
                             /\ Cardinality(waiting) < Cardinality(MimoActive(c))]

\* The plugins (xa-mimo-mix.c, xa-pcm-split.c): as much as all inputs have, or what the
\* one has that is not over. mimo_mix has its output buffer whether it is connected or not.
MimoRuns(c) ==
    LET g == c.plugin
        ports == DOMAIN c.in \cup DOMAIN c.out
    IN IF g.splits THEN g.paused = {} /\ ports \subseteq g.connected
       ELSE g.paused = {} /\ DOMAIN c.in \subseteq g.holds \cup g.over
MimoExecute(c) ==
    LET g == c.plugin
        own == \A j \in DOMAIN c.out : ~OutEmpty(c, j) /\ c.out[j].ptr = Head(c.out[j].q)
        over == DOMAIN c.in \subseteq g.over
        ran == [Check(c, g.holds # {} => own) EXCEPT
                   !.plugin.used = g.holds, !.plugin.holds = {}, !.plugin.done = @ \/ over]
        d == IF MimoRuns(c) THEN ran ELSE [c EXCEPT !.plugin.used = {}]
    IN IF "runtime_init" \in c.state
       THEN [c |-> [c EXCEPT !.state = Toggled(@, {"runtime_init", "execution"})], done |-> TRUE]
       ELSE IF "execution" \in c.state
       THEN [c |-> IF d.plugin.done THEN [d EXCEPT !.state = Toggled(@, {"execution", "completed"})] ELSE d,
             done |-> d.plugin.done]
       ELSE [c |-> c, done |-> FALSE]

\* xa_mimo_proc_postprocess, for one input ...
MimoConsumed(c, i, done) ==
    LET used == i \in c.plugin.used
        e == IF used THEN InConsume(c, i) ELSE c
        f == IF used \/ e.in[i].filled # Frame THEN InClear(e, i, {"input_setup"}) ELSE e
        idle == Untells(InToggle(f, i, {"active", "idle"}), "connected", i)
    IN IF ~InHas(c, i, {"active"}) THEN c
       ELSE IF ~InDone(f, i) \/ f.in[i].filled # 0 THEN f
       ELSE IF MimoActive(idle) # {} \/ ~done THEN InPurge(idle, i) ELSE idle
\* ... and for one output.
MimoProduced(c, j) ==
    IF j \in Feeding(c) /\ c.plugin.used # {}
    THEN OutClear(OutProduce(c, j, 1), j, {"setup", "flush_done"}) ELSE c

\* xa_mimo_proc_prepare_runtime: every output's first message tells the application.
MimoTell(c, j) ==
    LET told == [Sends(c, Head(c.out[j].q), "fill", 1) EXCEPT !.out[j].q = Tail(@)]
    IN Untells(OutClear(IF OutEmpty(c, j) THEN c ELSE told, j, {"to_sink"}), "connected", j)
MimoStarted(c) ==
    LET first == CHOOSE j \in DOMAIN c.out : \A k \in DOMAIN c.out : j <= k IN
    FoldSet(LAMBDA j, d : MimoTell(d, j), Check(c, ~OutEmpty(c, first)), DOMAIN c.out)
\* An output is flushed, down to its sink; here with the end of the stream.
MimoFlushOne(c, j, op) ==
    LET d == OutFlush(c, j, op) IN IF FlushOver(c, j, op) THEN OutSet(d, j, {"flush_done"}) ELSE d
MimoOver(c) == MimoCollect(FoldSet(LAMBDA j, d : MimoFlushOne(d, j, "fill"), c, DOMAIN c.out))
MimoPostprocess(c, done) ==
    LET inputs == MapThenFoldSet(LAMBDA i, d : MimoConsumed(d, i, done), c, LAMBDA i : i, Max, DOMAIN c.in)
        p == FoldSet(LAMBDA j, d : MimoProduced(d, j), inputs, DOMAIN c.out)
    IN IF done /\ "execution" \in c.state THEN MimoStarted(c)
       ELSE IF done THEN MimoOver(p)
       ELSE ScheduleIf(p, MimoInReady(p) /\ MimoOutReady(p) /\ c.plugin.used # {})

MimoProcess(c) ==
    LET pre == MimoPreprocess(c)
        e == MimoExecute(pre.c)
    IN IF pre.ok THEN MimoPostprocess(e.c, e.done) ELSE pre.c

-----------------------------------------------------------------------------
(* Deletion.                                                               *)

\* xa_mimo_proc_destroy
MimoDestroy(c) ==
    LET d == FoldSet(LAMBDA j, b : OutDestroy(b, j), c, DOMAIN c.out)
    IN Sends([d EXCEPT !.mode = "gone", !.state = @ \cap {"bug"}], Cmd, "unregister", 0)

\* xa_mimo_proc_cleanup
MimoCleanup(c) ==
    LET d == FoldSet(LAMBDA j, b : MimoFlushOne(b, j, "flush"), InPurgeAll(Cancel(c)), DOMAIN c.out)
    IN IF MimoFlushed(d) THEN MimoDestroy(d) ELSE [d EXCEPT !.mode = "terminating"]

\* xa_mimo_proc_terminate
MimoTerminate(c, x) ==
    LET j == x.port
        out == j \in DOMAIN c.out
        d == OutSet(OutFlushDone(c, j), j, {"flush_done"})
    IN IF out /\ x.msg = Control(j) THEN (IF MimoFlushed(d) THEN MimoDestroy(d) ELSE d)
       ELSE IF out /\ x.op = "fill" /\ Routed(c, j) THEN c
       ELSE Answer(c, x, IF FromPool(x.msg) THEN Invalid ELSE 0)
=============================================================================
