------------------------------- MODULE Mixer -------------------------------
(***************************************************************************)
(* The mixer class (xa-class-mixer.c) with the mixer plugin of the         *)
(* repository: tracks, each an input port, mixed into one output port, and *)
(* a probe port if it is enabled. An operator takes the structure c of the *)
(* component, and the message x it is given, to the structure it leaves.   *)
(* Of the plugin the model keeps the tracks it was told are over, those it *)
(* holds input of, and those it consumed input of when it last ran. Time   *)
(* stamps are left out: a track starts and resumes at the mixer's own, so  *)
(* that it is never ahead.                                                 *)
(***************************************************************************)
EXTENDS Ports

MixOut == 3
Probe == 5

\* xa_mixer_factory, xa_mixer_memtab
MixerConfigured(pool, ins, probed) ==
    [class |-> "mixer", pool |-> pool, mode |-> "running", state |-> {"runtime_init"}, tree |-> 0, isr |-> "none",
     in |-> [i \in ins |-> InPort({"idle"})],
     out |-> [j \in {MixOut} \cup (IF probed THEN {Probe} ELSE {}) |->
                OutPort(IF j = Probe THEN {"paused"} ELSE {})],
     plugin |-> [over |-> {}, holds |-> {}, used |-> {}], sent |-> <<>>]

HasProbe(c) == Probe \in DOMAIN c.out
ProbeOn(c) == HasProbe(c) /\ ~OutHas(c, Probe, {"paused"})
MixerDue(c) == ScheduleIf(c, OutReady(c, MixOut))
OutputKept(c) == c
NoOutput(c) == [c EXCEPT !.state = @ \ {"output_setup"}]

-----------------------------------------------------------------------------
(* Commands.                                                               *)

\* xa_mixer_empty_this_buffer
MixerEmpty(c, x) ==
    LET i == x.port
        put == InPut(IF x.len # 0 THEN InSet(c, i, {"recvd"}) ELSE InClear(c, i, {"recvd"}), i, x)
        live == IF "completed" \in c.state THEN [put EXCEPT !.state = {"execution"}] ELSE put
        active == IF InHas(live, i, {"idle"}) THEN InToggle(live, i, {"idle", "active"}) ELSE live
    IN IF IsFirst(c, i) THEN MixerDue(active) ELSE put

\* xa_mixer_fill_this_buffer, at the probe port ...
MixerFillProbe(c, x) ==
    IF "completed" \in c.state \/ OutHas(c, Probe, {"paused"}) THEN Answer(c, x, 0)
    ELSE ScheduleIf(OutPut(c, Probe, x.msg),
                    OutEmpty(c, Probe) /\ OutReady(c, MixOut) /\ "execution" \in c.state)

\* ... and at the output port: the flow-control message is back; a buffer is back from
\* a sink that is gone; a buffer to fill.
MixerControlBack(c, x) == InPurgeAll(ControlBack(c, MixOut, x.len))
MixerBounced(c) ==
    IF OutHas(c, MixOut, {"flushing"}) THEN c
    ELSE NoOutput(OutFlush(Cancel(c), MixOut, "fill"))
MixerToFill(c, x) ==
    LET init == "runtime_init" \in c.state
        put == OutPut(Check(c, init => x.len = 0), MixOut, x.msg)
        probeReady == ~ProbeOn(c) \/ OutReady(c, Probe)
    IN ScheduleIf(put, OutEmpty(c, MixOut) /\ (init \/ probeReady))
MixerFill(c, x) ==
    IF x.port = Probe THEN MixerFillProbe(c, x)
    ELSE IF "runtime_init" \in c.state THEN MixerToFill(c, x)
    ELSE IF x.msg = Control(MixOut) THEN MixerControlBack(c, x)
    ELSE IF x.len = Invalid /\ Routed(c, MixOut) THEN MixerBounced(c)
    ELSE IF "completed" \in c.state /\ ~Routed(c, MixOut) THEN Answer(Check(c, x.len = 1), x, 0)
    ELSE MixerToFill(c, x)

\* xa_mixer_port_route, xa_mixer_port_unroute
MixerRoute(c, x) == Answer(Schedule(OutRoute(c, MixOut)), x, 0)
MixerUnroute(c, x) ==
    LET flush == OutFlush(NoOutput(Cancel(c)), MixOut, "flush") IN
    IF ~Routed(c, MixOut) THEN Answer(c, x, 0)
    ELSE IF FlushOver(c, MixOut, "flush") THEN Answer(OutUnroute(flush, MixOut), x, 0)
    ELSE UnrouteStart(flush, MixOut)

\* xa_mixer_pause
MixerPause(c, x) ==
    LET p == x.port IN
    Answer(IF "completed" \in c.state THEN c
           ELSE IF p \in DOMAIN c.in /\ InHas(c, p, {"active"})
           THEN MixerDue(InToggle(c, p, {"active", "paused"}))
           ELSE IF p = MixOut THEN OutSet(c, p, {"paused"})
           ELSE IF p = Probe /\ ProbeOn(c) THEN MixerDue(OutSet(OutFlush(c, p, "flush"), p, {"paused"}))
           ELSE c, x, x.len)

\* xa_mixer_resume
MixerResume(c, x) ==
    LET p == x.port IN
    Answer(IF "completed" \in c.state THEN c
           ELSE IF p \in DOMAIN c.in /\ InHas(c, p, {"paused"})
           THEN MixerDue(InToggle(c, p, {"active", "paused"}))
           ELSE IF p = MixOut /\ OutHas(c, p, {"paused"})
           THEN MixerDue(OutClear(c, p, {"paused"}))
           ELSE IF p = Probe /\ HasProbe(c) /\ ~ProbeOn(c)
           THEN ScheduleIf(OutClear(c, p, {"paused"}), OutReady(c, MixOut) /\ OutReady(c, p))
           ELSE c, x, x.len)

\* xa_mixer_flush
MixerFlushUnpurged(c, x) ==
    IF x.port = MixOut THEN UnrouteDone(c, MixOut) ELSE Answer(c, x, x.len)
MixerFlush(c, x) ==
    LET i == x.port
        d == InClear(InPurge(c, i), i, {"active", "paused", "input_setup", "recvd"})
    IN IF i = MixOut THEN UnrouteDone(c, MixOut)
       ELSE Answer(IF InHas(c, i, {"active", "paused"}) THEN MixerDue(InSet(d, i, {"idle"})) ELSE c,
                   x, x.len)

-----------------------------------------------------------------------------
(* Processing.                                                             *)

\* xa_mixer_preprocess, for one track: what there is of its input goes to the plugin.
\* TrackWaits: there is not enough of it.
TrackSkipped(c, i) == ~InHas(c, i, {"active"}) \/ InHas(c, i, {"input_setup"})
TrackWaits(c, i) == ~TrackSkipped(c, i) /\ ~InFills(c, i)
InputOver(c, i) == [c EXCEPT !.plugin.over = @ \cup {i}]
SetInputBytes(c, i, n) ==
    [c EXCEPT !.plugin.holds = IF n > 0 THEN @ \cup {i} ELSE @ \ {i},
              !.plugin.over = IF n = Frame THEN @ \ {i} ELSE @]
TrackInput(c, i) ==
    LET f == InFill(c, i)
        told == SetInputBytes(IF InDone(f, i) THEN InputOver(f, i) ELSE f, i, f.in[i].filled)
    IN IF TrackSkipped(c, i) THEN (IF InHas(c, i, {"active", "paused"}) THEN c ELSE InputOver(c, i))
       ELSE IF TrackWaits(c, i) THEN f
       ELSE InSet(told, i, {"input_setup"})

\* xa_mixer_preprocess: [c, ok], ok if the plugin is to run.
MixerPreprocess(c) ==
    LET init == "runtime_init" \in c.state
        probes == ProbeOn(c) /\ ~OutHas(c, Probe, {"probe_setup"}) /\ ~init
        p == IF probes THEN OutSet(c, Probe, {"probe_setup"}) ELSE c
        setup == "output_setup" \in c.state
        o == IF setup THEN p ELSE [OutSetup(p, MixOut) EXCEPT !.state = @ \cup {"output_setup"}]
        ports == DOMAIN c.in
    IN IF OutHas(c, MixOut, {"paused"}) \/ (probes /\ OutEmpty(c, Probe)) THEN [c |-> c, ok |-> FALSE]
       ELSE IF ~setup /\ init THEN [c |-> p, ok |-> TRUE]
       ELSE IF ~setup /\ OutEmpty(c, MixOut) THEN [c |-> p, ok |-> FALSE]
       ELSE [c  |-> FoldSet(LAMBDA i, d : TrackInput(d, i), o, ports),
             ok |-> /\ \E i \in ports : InHas(c, i, {"active"})
                    /\ \A i \in ports : ~TrackWaits(c, i)]

\* The plugin (xa-mixer.c): a frame, unless there is nothing left of any track.
MixerExecute(c) ==
    LET g == c.plugin
        nothing == g.holds = {} /\ g.over = DOMAIN c.in
        done == g.over = DOMAIN c.in
        ran == IF nothing THEN c ELSE [c EXCEPT !.plugin.used = g.holds, !.plugin.holds = {}]
    IN IF "runtime_init" \in c.state
       THEN [c |-> [c EXCEPT !.state = Toggled(@, {"runtime_init", "execution"})],
             done |-> TRUE, produced |-> 0]
       ELSE IF "execution" \in c.state
       THEN [c |-> IF done THEN [ran EXCEPT !.state = Toggled(@, {"execution", "completed"})] ELSE ran,
             done |-> done,
             produced |-> IF nothing /\ (MayBeBarren \/ ~Barren(c, MixOut)) THEN 0 ELSE 1]
       ELSE [c |-> c, done |-> FALSE, produced |-> 0]

\* xa_mixer_postprocess, for one track.
TrackOutput(c, i) ==
    LET d == InClear(c, i, {"input_setup"})
        e == IF i \in c.plugin.used THEN InConsume(d, i) ELSE d
    IN IF ~InHas(c, i, {"active", "input_setup"}) THEN c
       ELSE IF InDone(e, i) THEN InToggle(InPurge(e, i), i, {"active", "idle"}) ELSE e

\* xa_mixer_postprocess; xa_mixer_prepare_runtime once the plugin is initialised.
MixerPostprocess(c, done, produced) ==
    LET ports == DOMAIN c.in
        t == FoldSet(LAMBDA i, d : TrackOutput(d, i), c, ports)
        o == IF produced = 0 THEN t ELSE NoOutput(OutProduce(t, MixOut, produced))
        probed == /\ ProbeOn(c)
                  /\ produced > 0 \/ \E i \in c.plugin.used : InHas(c, i, {"active", "input_setup"})
        p == IF ~probed THEN o
             ELSE [OutProduce(o, Probe, 1) EXCEPT !.out[Probe].flags = Toggled(@, {"probe_setup"})]
        over == OutFlush(p, MixOut, "fill")
    IN IF done /\ "execution" \in c.state THEN OutProduce(c, MixOut, 1)
       ELSE IF done THEN (IF HasProbe(c) THEN OutFlush(over, Probe, "flush") ELSE over)
       ELSE MixerDue(p)

MixerProcess(c) ==
    LET pre == MixerPreprocess(c)
        e == MixerExecute(pre.c)
    IN IF pre.ok THEN MixerPostprocess(e.c, e.done, e.produced) ELSE pre.c

-----------------------------------------------------------------------------
(* Deletion.                                                               *)

\* xa_mixer_destroy
MixerDestroy(c) ==
    LET d == FoldSet(LAMBDA j, b : OutDestroy(b, j), c, DOMAIN c.out)
    IN Sends([d EXCEPT !.mode = "gone", !.state = @ \cap {"bug"}], Cmd, "unregister", 0)

\* xa_mixer_cleanup
MixerCleanupUnpurged(c) ==
    LET flush == OutFlush(Cancel(c), MixOut, "flush") IN
    IF FlushOver(c, MixOut, "flush") THEN MixerDestroy(flush) ELSE [flush EXCEPT !.mode = "terminating"]
MixerCleanup(c) ==
    LET p == InPurgeAll(Cancel(c))
        q == IF HasProbe(c) THEN OutFlush(p, Probe, "flush") ELSE p
        flush == OutFlush(q, MixOut, "flush")
    IN IF FlushOver(c, MixOut, "flush") THEN MixerDestroy(flush)
       ELSE [flush EXCEPT !.mode = "terminating"]

\* xa_mixer_terminate
MixerTerminate(c, x) ==
    IF x.msg = Control(MixOut) THEN MixerDestroy(OutFlushDone(c, MixOut))
    ELSE IF x.op = "fill" /\ Routed(c, MixOut) THEN c
    ELSE Answer(c, x, IF FromPool(x.msg) THEN Invalid ELSE 0)
=============================================================================
