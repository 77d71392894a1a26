------------------------------ MODULE Capturer ------------------------------
(***************************************************************************)
(* The capturer class (xa-class-capturer.c) with the capturer plugin of    *)
(* the repository: a device fills a FIFO of two frames and its interrupt   *)
(* sends the component its own message, for which the component reads one  *)
(* frame, into its output if there is a buffer. The plugin has avail frames*)
(* in the FIFO, left of the file it captures from, and what it made.       *)
(***************************************************************************)
EXTENDS Renderer

Captured == 3    \* the output port

\* xa_capturer_factory, xa_capturer_memtab
CapturerConfigured(pool, frames) ==
    [class |-> "capturer", pool |-> pool, mode |-> "running", state |-> {"runtime_init"}, tree |-> 0, isr |-> "home",
     in |-> [i \in {} |-> InPort({})], out |-> [j \in {Captured} |-> OutPort({})],
     plugin |-> [avail |-> 0, left |-> frames, device |-> "idle", timer |-> FALSE, made |-> FALSE],
     sent |-> <<>>]

-----------------------------------------------------------------------------
(* Commands.                                                               *)

\* xa_capturer_empty_this_buffer, with the component's own message.
CapturerEmpty(c, x) ==
    LET d == [c EXCEPT !.isr = "home"] IN
    IF c.state \cap {"runtime_init", "execution"} = {} THEN Check(c, FALSE) ELSE Schedule(d)

\* xa_capturer_fill_this_buffer
CapturerBounced(c) ==
    IF OutHas(c, Captured, {"flushing"}) THEN c ELSE OutFlush(Cancel(c), Captured, "fill")
CapturerFill(c, x) ==
    LET put == OutPut(c, Captured, x.msg) IN
    IF "runtime_init" \in c.state THEN ScheduleIf(Check(put, x.len = 0), OutEmpty(c, Captured))
    ELSE IF x.msg = Control(Captured) THEN ControlBack(c, Captured, x.len)
    ELSE IF "completed" \in c.state /\ ~Routed(c, Captured) THEN Answer(c, x, 0)
    ELSE IF x.len = Invalid /\ Routed(c, Captured) THEN CapturerBounced(c)
    ELSE put

\* xa_capturer_port_route, xa_capturer_port_unroute
CapturerRoute(c, x) == Answer(OutRoute(c, Captured), x, 0)
CapturerUnroute(c, x) ==
    LET flush == OutFlush(Cancel(c), Captured, "flush") IN
    IF ~Routed(c, Captured) THEN Answer(c, x, 0)
    ELSE IF FlushOver(c, Captured, "flush") THEN Answer(OutUnroute(flush, Captured), x, 0)
    ELSE UnrouteStart(flush, Captured)

\* xa_capturer_flush
CapturerFlush(c, x) ==
    IF Unrouting(c, Captured) THEN UnrouteDone(c, Captured)
    ELSE IF ~Routed(c, Captured) THEN Answer(OutFlush(c, Captured, "flush"), x, x.len)
    ELSE OutFlushDone(c, Captured)

\* xa_hw_capturer_control
CapturerStart(c, x) ==
    Answer(IF c.plugin.device # "idle" THEN c
           ELSE [c EXCEPT !.plugin.timer = TRUE, !.plugin.device = "running"], x, x.len)

-----------------------------------------------------------------------------
(* The device and the processing.                                          *)

\* xa_fw_handler: a frame is captured; if there is no room, all is dropped.
CapturerTick(c) ==
    IF c.plugin.avail = Fifo THEN [c EXCEPT !.plugin.avail = 0]
    ELSE Callback([c EXCEPT !.plugin.avail = @ + 1])

\* xa_capturer_preprocess
CapturerPreprocess(c) ==
    IF "runtime_init" \in c.state THEN c
    ELSE IF OutEmpty(c, Captured) THEN [c EXCEPT !.out[Captured].ptr = Msg(App, "none")]
    ELSE OutSetup(c, Captured)

\* xa_capturer_do_exec: a frame, and nothing at the end of the file; it is skipped if
\* there is no buffer. A run that finds nothing in the FIFO ends the stream, too.
CapturerExecute(c) ==
    LET g == c.plugin
        buffer == c.out[Captured].ptr # Msg(App, "none")
        made == buffer /\ g.avail > 0 /\ g.left > 0
        over == buffer /\ ~made
        read == IF g.avail = 0 THEN c
                ELSE [c EXCEPT !.plugin.avail = @ - 1, !.plugin.left = IF @ = 0 THEN 0 ELSE @ - 1]
        d == [read EXCEPT !.plugin.made = made]
    IN IF "runtime_init" \in c.state
       THEN [c |-> [c EXCEPT !.state = Toggled(@, {"runtime_init", "execution"})], done |-> TRUE]
       ELSE IF "execution" \notin c.state THEN [c |-> c, done |-> FALSE]
       ELSE IF over THEN [c |-> [d EXCEPT !.plugin.timer = FALSE,
                                          !.state = Toggled(@, {"execution", "completed"})], done |-> TRUE]
       ELSE [c |-> d, done |-> FALSE]

\* xa_capturer_postprocess; xa_capturer_prepare_runtime once the plugin is initialised.
CapturerPostprocess(c, done) ==
    IF done /\ "execution" \in c.state THEN OutProduce(c, Captured, 1)
    ELSE IF done THEN OutFlush(c, Captured, "fill")
    ELSE IF c.plugin.made THEN OutProduce([c EXCEPT !.plugin.made = FALSE], Captured, 1) ELSE c

CapturerProcess(c) ==
    LET e == CapturerExecute(CapturerPreprocess(c)) IN CapturerPostprocess(e.c, e.done)

-----------------------------------------------------------------------------
(* Deletion.                                                               *)

\* xa_capturer_destroy
CapturerDestroy(c) ==
    Sends([OutDestroy(c, Captured) EXCEPT !.mode = "gone", !.state = @ \cap {"bug"}], Cmd, "unregister", 0)

\* xa_capturer_cleanup: the flow-control message is waited for, the component's own is not.
CapturerCleanup(c) ==
    LET stopped == [Cancel(c) EXCEPT !.plugin.timer = FALSE, !.plugin.device = "stopped"]
        flush == OutFlush(stopped, Captured, "flush")
    IN IF FlushOver(c, Captured, "flush") THEN CapturerDestroy(flush)
       ELSE [flush EXCEPT !.mode = "terminating"]

\* xa_capturer_terminate
CapturerTerminate(c, x) ==
    IF x.msg = Control(Captured) THEN CapturerDestroy(OutFlushDone(c, Captured))
    ELSE IF x.op = "fill" THEN c
    ELSE Answer(c, x, IF FromPool(x.msg) THEN Invalid ELSE 0)
=============================================================================
