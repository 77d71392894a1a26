------------------------------ MODULE Renderer ------------------------------
(***************************************************************************)
(* The renderer class (xa-class-renderer.c) with the renderer plugin of    *)
(* the repository: it plays its input through a device with a FIFO of two  *)
(* frames, whose interrupt sends the component its own message. If its     *)
(* output port is connected, it also gets what is played.                  *)
(* The plugin has avail frames of room in the FIFO; it holds input, used   *)
(* it, made output in its last run; the stream is over, and done.          *)
(***************************************************************************)
EXTENDS Ports

Played == 3      \* the output port
Fifo == 2        \* HW_FIFO_LENGTH, in frames
Isr == Msg(App, "isr")

\* xa_renderer_factory, xa_renderer_memtab
RendererConfigured(pool) ==
    [class |-> "renderer", pool |-> pool, mode |-> "running", state |-> {"runtime_init"}, tree |-> 0, isr |-> "home",
     in |-> [i \in {1} |-> InPort({})], out |-> [j \in {Played} |-> OutPort({})],
     plugin |-> [avail |-> Fifo, device |-> "idle", timer |-> FALSE, over |-> FALSE,
                 holds |-> FALSE, used |-> FALSE, made |-> FALSE],
     sent |-> <<>>]

Clears(c, f) == [c EXCEPT !.state = @ \ f]

-----------------------------------------------------------------------------
(* Commands.                                                               *)

\* xa_renderer_empty_this_buffer
RendererEmpty(c, x) ==
    ScheduleIf(InPut(c, x.port, x),
               IsFirst(c, x.port) /\ ("runtime_init" \in c.state => "output_ready" \in c.state))

\* xa_renderer_fill_this_buffer: the device, or the application's first message, sets
\* it going; the flow-control message is back; the sink is gone; a buffer to fill.
RendererKick(c) ==
    LET d == [c EXCEPT !.isr = "home"] IN
    IF "output_ready" \in c.state THEN d ELSE Schedule([d EXCEPT !.state = @ \cup {"output_ready"}])
RendererBounced(c) ==
    IF OutHas(c, Played, {"flushing"}) THEN c
    ELSE Clears(OutFlush(c, Played, "fill"), {"output_setup"})
RendererFill(c, x) ==
    LET put == OutPut(c, Played, x.msg) IN
    IF x.msg = Isr THEN RendererKick([c EXCEPT !.state = @ \cup {"running"}])
    ELSE IF "runtime_init" \in c.state THEN RendererKick(Check(put, x.len = 0))
    ELSE IF x.msg = Control(Played) THEN InPurge(ControlBack(c, Played, x.len), 1)
    ELSE IF x.len = Invalid /\ Routed(c, Played) THEN RendererBounced(c)
    ELSE put

\* xa_renderer_flush, of the input port, whose feeder flushes it, and of the output port.
RendererFlushOut(c, x) ==
    IF Unrouting(c, Played) THEN UnrouteDone(c, Played)
    ELSE IF ~Routed(c, Played) THEN Answer(OutFlush(c, Played, "flush"), x, x.len)
    ELSE InPurgeDone(OutFlushDone(c, Played), 1)
RendererFlush(c, x) ==
    LET d == Check(c, "execution" \in c.state) IN
    IF x.port = 1 THEN Answer(InPurge(Cancel(d), 1), x, x.len)
    ELSE Clears(RendererFlushOut(d, x), {"output_setup"})

\* xa_renderer_port_route, xa_renderer_port_unroute
RendererRoute(c, x) == Answer(OutRoute(c, Played), x, 0)
RendererUnroute(c, x) ==
    LET unset == [Clears(c, {"output_setup"}) EXCEPT !.out[Played].ptr = Msg(App, "none")]
        flush == OutFlush(unset, Played, "flush")
    IN IF ~Routed(c, Played) THEN Answer(c, x, 0)
       ELSE IF FlushOver(c, Played, "flush") THEN Answer(OutUnroute(flush, Played), x, 0)
       ELSE UnrouteStart(flush, Played)

\* READ_FIFO: the frame played goes to the output buffer the plugin has, which must be
\* at the head of the port still.
Playing(c) ==
    LET p == c.out[Played] IN
    IF p.ptr = Msg(App, "none") THEN c
    ELSE [Check(c, p.q # <<>> /\ p.ptr = Head(p.q)) EXCEPT !.plugin.made = TRUE]

\* xa_hw_renderer_control: the application starts the device.
RendererStart(c, x) ==
    Answer(IF c.plugin.device = "running" THEN c
           ELSE [Playing(c) EXCEPT !.plugin.avail = 0, !.plugin.timer = TRUE, !.plugin.device = "running"],
           x, x.len)

-----------------------------------------------------------------------------
(* The device.                                                             *)

\* xa_renderer_callback, xa_capturer_callback: raise the component's own message.
Callback(c) == IF c.isr = "home" THEN [c EXCEPT !.isr = "raised"] ELSE c

\* xa_fw_handler: a frame is played; if there was none, the device stops.
RendererTick(c) ==
    LET played == c.plugin.avail + 1 IN
    Callback(IF played > Fifo
             THEN [c EXCEPT !.plugin.device = IF @ = "idle" THEN "running" ELSE "idle",
                            !.plugin.timer = FALSE, !.plugin.avail = Fifo]
             ELSE [c EXCEPT !.plugin.avail = played])

-----------------------------------------------------------------------------
(* Processing.                                                             *)

\* xa_renderer_preprocess: [c, ok], ok if the plugin is to run.
RendererPreprocess(c) ==
    LET full == InDone(c, 1) \/ InFills(c, 1)
        f == IF InDone(c, 1) THEN c ELSE InFill(c, 1)
        told == [f EXCEPT !.plugin.holds = f.in[1].filled > 0, !.plugin.over = @ \/ InDone(f, 1)]
        setup == "output_setup" \notin c.state /\ Routed(c, Played)
        none == [told EXCEPT !.out[Played].ptr = Msg(App, "none")]
    IN IF "runtime_init" \in c.state THEN [c |-> c, ok |-> TRUE]
       ELSE IF "output_ready" \notin c.state /\ (full => "running" \in c.state)
       THEN [c |-> f, ok |-> FALSE]
       ELSE [c |-> IF ~setup THEN told
                   ELSE IF OutEmpty(c, Played) THEN none
                   ELSE [OutSetup(told, Played) EXCEPT !.state = @ \cup {"output_setup"}],
             ok |-> TRUE]

\* xa_fw_renderer_submit: a frame goes to the FIFO if there is room, of silence if there
\* is no input; the device starts when the FIFO is full.
Submitted(c) ==
    LET g == c.plugin
        in == [c EXCEPT !.plugin.avail = @ - 1, !.plugin.used = g.holds]
        starts == g.device = "idle" /\ g.avail = 1
        out == IF g.device = "running" \/ starts THEN Playing(in) ELSE in
    IN IF starts THEN [out EXCEPT !.plugin.timer = TRUE, !.plugin.device = "running"] ELSE out
RendererExecute(c) ==
    LET g == c.plugin
        idle == [c EXCEPT !.plugin.used = FALSE, !.plugin.made = FALSE]
        run == Submitted(idle)
        stopped == [run EXCEPT !.plugin.timer = FALSE,
                               !.plugin.device = IF @ = "idle" THEN "running" ELSE "idle",
                               !.state = Toggled(@, {"execution", "completed"})]
    IN IF "runtime_init" \in c.state
       THEN [c |-> [c EXCEPT !.state = Toggled(@, {"runtime_init", "execution"})], done |-> TRUE]
       ELSE IF "execution" \notin c.state THEN [c |-> c, done |-> FALSE]
       ELSE IF g.avail = 0 THEN [c |-> idle, done |-> FALSE]
       ELSE IF g.over /\ ~g.holds THEN [c |-> stopped, done |-> TRUE]
       ELSE [c |-> run, done |-> FALSE]

\* xa_renderer_postprocess; xa_renderer_prepare_runtime once the plugin is initialised.
RendererPostprocess(c, done) ==
    LET g == c.plugin
        produces == "output_setup" \in c.state /\ g.made
        o == IF produces THEN Clears(OutProduce(c, Played, 1), {"output_setup"}) ELSE c
        d == Clears(IF g.used THEN InConsume(o, 1) ELSE o, {"output_ready"})
        over == OutFlush(d, Played, "fill")
    IN IF done /\ "execution" \in c.state THEN Schedule(OutProduce(Clears(c, {"output_ready"}), Played, 1))
       ELSE IF done /\ FlushOver(d, Played, "fill") THEN Clears(InPurge(over, 1), {"running"})
       ELSE IF done THEN over
       ELSE ScheduleIf(d, InReady(d, 1) /\ g.used)

RendererProcess(c) ==
    LET pre == RendererPreprocess(c)
        e == RendererExecute(pre.c)
    IN IF pre.ok THEN RendererPostprocess(e.c, e.done) ELSE pre.c

-----------------------------------------------------------------------------
(* Deletion.                                                               *)

\* xa_renderer_destroy: the output port stays as it is.
RendererDestroy(c) ==
    Sends([c EXCEPT !.mode = "gone", !.state = @ \cap {"bug"}, !.isr = "home"], Cmd, "unregister", 0)

\* xa_renderer_cleanup: the component's own message is waited for.
RendererCleanup(c) ==
    LET d == InPurge([Cancel(c) EXCEPT !.plugin.timer = FALSE, !.plugin.device = "stopped"], 1)
    IN IF c.isr # "home" THEN [d EXCEPT !.mode = "terminating"] ELSE RendererDestroy(d)

\* xa_renderer_terminate
RendererTerminate(c, x) ==
    IF x.msg = Isr THEN RendererDestroy(c)
    ELSE Answer(c, x, IF FromPool(x.msg) THEN Invalid ELSE 0)
=============================================================================
