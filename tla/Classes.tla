------------------------------ MODULE Classes ------------------------------
(***************************************************************************)
(* One DSP component of the mixer, MIMO, renderer or capturer class among  *)
(* its neighbours: feeders, the output ports connected to its inputs;      *)
(* sinks, the components its outputs are routed to; the application, which *)
(* starts it, takes the output it does not route, pauses and resumes its   *)
(* ports, takes connections apart and deletes it; the interrupt handler of *)
(* the device a renderer or capturer drives.                               *)
(* A step of the component is one handler, as its worker runs it: answers  *)
(* and data from components of the same worker (near) come by the local    *)
(* queue, which is served first, then its own processing if it is          *)
(* scheduled, then the worker's queue.                                     *)
(***************************************************************************)
EXTENDS Mixer, MimoProc, Capturer

CONSTANTS
    Variants,    \* the components to look at: one is chosen at the start
    None

VARIABLES
    variant,    \* what of its neighbourhood does not change
    comp,       \* the component's structure
    local,      \* worker->local_msg_queue
    inbox,      \* worker->queue
    feed,       \* at each input, the output port that feeds it
    sink,       \* at each output, the component it is routed to
    owned,      \* messages the application has
    ready,      \* outputs the application knows to be initialised
    wired,      \* outputs the application has connected
    call        \* the synchronous call in progress, or None

vars == <<variant, comp, local, inbox, feed, sink, owned, ready, wired, call>>

Item(port, m, op, len) == [port |-> port, msg |-> m, op |-> op, len |-> len]
Start(j) == Msg(j, "start")
Out(j) == Msg(j, "out")
OfApplication == {Cmd} \cup {Start(j) : j \in variant.routes \cup variant.drained}
                       \cup {Out(j) : j \in variant.drained}

\* A feeder: connected, being taken apart (its unroute, or its deletion, waits for the
\* flow-control message) or gone, with the buffers that are at home.
Connected == [on |-> "on", home |-> comp.pool, control |-> "fresh"]
Apart == [on |-> "off", home |-> comp.pool, control |-> "home"]
Living == [alive |-> TRUE, q |-> <<>>]

\* A variant has comp, the component; the outputs that can be routed (routes) and those the
\* application takes itself (drained); the neighbours of the same worker (near); the inputs
\* whose feeders may flush them and be taken apart (cut); the sinks that may be deleted
\* (mortal); the ports that may be paused (pausable); the outputs to connect before there
\* is input (fed); and whether the neighbourhood is calm (below). The component is one of the
\* four classes, as its memtab function leaves it; a mixer has one output to route.
Configured(c) ==
    CASE c.class = "mixer"    -> c = MixerConfigured(c.pool, DOMAIN c.in, Probe \in DOMAIN c.out)
      [] c.class = "mimo"     -> c = MimoConfigured(c.pool, DOMAIN c.in, DOMAIN c.out, c.plugin.splits)
      [] c.class = "renderer" -> c = RendererConfigured(c.pool)
      [] c.class = "capturer" -> c = CapturerConfigured(c.pool, c.plugin.left)
ASSUME ClassesAssumption == \A v \in Variants :
    /\ v.comp.class \in {"mixer", "mimo", "renderer", "capturer"} /\ Configured(v.comp)
    /\ IsFiniteSet(v.comp.pool) /\ IsFiniteSet(DOMAIN v.comp.in) /\ IsFiniteSet(DOMAIN v.comp.out)
    /\ DOMAIN v.comp.in \subseteq Nat /\ v.routes \cup v.drained \subseteq DOMAIN v.comp.out
    /\ v.pausable \subseteq DOMAIN v.comp.in \cup DOMAIN v.comp.out
    /\ v.comp.class = "mixer" => v.routes \subseteq {MixOut}

Init ==
    /\ variant \in Variants
    /\ comp = variant.comp
    /\ local = <<>> /\ inbox = <<>>
    /\ feed = [i \in DOMAIN comp.in |-> Connected]
    /\ sink = [j \in variant.routes |-> Living]
    /\ owned = OfApplication
    /\ ready = {} /\ wired = {}
    /\ call = None

-----------------------------------------------------------------------------
(* Messages.                                                               *)

Gone == comp.mode = "gone"
Sent(c, of) ==
    LET at == {n \in DOMAIN c.sent : c.sent[n].msg.of = of /\ FromPool(c.sent[n].msg)}
    IN MapThenFoldSet(LAMBDA s, q : Append(q, s), <<>>, LAMBDA n : c.sent[n], Max, at)

\* What a feeder gets back. Its flow-control message tells it that nothing of the pool
\* is away: if it is to be taken apart, or the component is gone, it frees the pool.
Returned(f, s) ==
    LET at == {n \in DOMAIN s : s[n].msg.what = "control"}
        Whats(S) == {s[n].msg.what : n \in S} \ {"control"}
        early == {n \in DOMAIN s : \A k \in at : n < k}
    IN IF at = {} THEN [f EXCEPT !.home = @ \cup Whats(DOMAIN s)]
       ELSE IF f.on = "ending" \/ \E n \in at : s[n].len = Invalid
       THEN [on |-> "off", home |-> f.home \cup Whats(early), control |-> "home"]
       ELSE [f EXCEPT !.home = @ \cup Whats(DOMAIN s), !.control = "idle"]

\* What a sink answers; what bounces off one that is gone.
Answers(j, s) == [n \in DOMAIN s |-> Item(j, s[n].msg, Back(s[n]), s[n].len)]
Bounced(j, s) == [n \in DOMAIN s |-> Item(j, s[n].msg, Back(s[n]), Invalid)]

\* The component's structure becomes c and what it sent is delivered, the queues of its
\* worker having come down to l and q.
Becomes(c, l, q) ==
    LET toApp == {c.sent[n] : n \in {k \in DOMAIN c.sent : ~FromPool(c.sent[k].msg)}}
        returned == \E s \in toApp : s.msg = Cmd
        dead == {j \in DOMAIN sink : ~sink[j].alive}
        back == FoldSet(LAMBDA j, b : b \o Bounced(j, Sent(c, j)), <<>>, dead)
        flushed == {j \in (variant.near \cap DOMAIN sink) \ dead :
                      \E n \in DOMAIN c.sent : c.sent[n].msg = Control(j) /\ c.sent[n].op = "flush"}
        prompt == FoldSet(LAMBDA j, b : b \o Answers(j, sink[j].q \o Sent(c, j)), <<>>, flushed)
    IN /\ comp' = [c EXCEPT !.sent = <<>>]
       /\ local' = IF c.mode = "gone" THEN <<>> ELSE l \o prompt
       /\ inbox' = IF c.mode = "gone" THEN <<>> ELSE q \o back
       /\ feed' = [i \in DOMAIN feed |-> Returned(feed[i], Sent(c, i))]
       /\ sink' = [j \in DOMAIN sink |->
                     IF j \in dead THEN sink[j]
                     ELSE IF j \in flushed THEN Living ELSE [sink[j] EXCEPT !.q = @ \o Sent(c, j)]]
       /\ owned' = owned \cup {s.msg : s \in toApp}
       /\ ready' = ready \cup {s.msg.of : s \in {t \in toApp : t.msg.what = "start" /\ t.len > 0}}
       /\ call' = IF returned THEN None ELSE call
       /\ wired' = IF ~returned THEN wired
                   ELSE CASE call.op = "route"   -> wired \cup {call.port}
                          [] call.op = "unroute" -> wired \ {call.port}
                          [] OTHER               -> wired
       /\ UNCHANGED variant

\* dsp_worker_entry: the message the worker takes, if it is not to process.
ItemFirst == IF local # <<>> THEN {Head(local)} ELSE {inbox[n] : n \in {k \in DOMAIN inbox : k = 1}}
NextItem == IF local # <<>> THEN {Head(local)}
            ELSE {inbox[n] : n \in {k \in DOMAIN inbox : k = 1 /\ comp.tree = 0}}
LocalLeft == IF local # <<>> THEN Tail(local) ELSE <<>>
InboxLeft == IF local # <<>> THEN inbox ELSE Tail(inbox)
Gets(op) == {x \in NextItem : comp.mode = "running" /\ x.op = op}

\* xf_client_cleanup of a component that is gone: what is queued for it returns.
WithRest(c) ==
    IF c.mode # "gone" THEN c
    ELSE LET rest == LocalLeft \o InboxLeft
         IN [c EXCEPT !.sent = @ \o [n \in DOMAIN rest |->
                [msg |-> rest[n].msg, op |-> Back(rest[n]),
                 len |-> IF FromPool(rest[n].msg) THEN Invalid ELSE 0]]]
Handled(c) == Becomes(WithRest(c), LocalLeft, InboxLeft)

-----------------------------------------------------------------------------
(* The worker.                                                             *)

\* base->command[cmd], by the class of the component.
Emptied(c, x) == CASE c.class = "mixer"    -> MixerEmpty(c, x)
                   [] c.class = "mimo"     -> MimoEmpty(c, x)
                   [] c.class = "renderer" -> RendererEmpty(c, x)
                   [] c.class = "capturer" -> CapturerEmpty(c, x)
Filled(c, x) == CASE c.class = "mixer"    -> MixerFill(c, x)
                  [] c.class = "mimo"     -> MimoFill(c, x)
                  [] c.class = "renderer" -> RendererFill(c, x)
                  [] c.class = "capturer" -> CapturerFill(c, x)
Routes(c, x) == CASE c.class = "mixer"    -> MixerRoute(c, x)
                  [] c.class = "mimo"     -> MimoRoute(c, x)
                  [] c.class = "renderer" -> RendererRoute(c, x)
                  [] c.class = "capturer" -> CapturerRoute(c, x)
Unroutes(c, x) == CASE c.class = "mixer"    -> MixerUnroute(c, x)
                    [] c.class = "mimo"     -> MimoUnroute(c, x)
                    [] c.class = "renderer" -> RendererUnroute(c, x)
                    [] c.class = "capturer" -> CapturerUnroute(c, x)
Flushed(c, x) == CASE c.class = "mixer"    -> MixerFlush(c, x)
                   [] c.class = "mimo"     -> MimoFlush(c, x)
                   [] c.class = "renderer" -> RendererFlush(c, x)
                   [] c.class = "capturer" -> CapturerFlush(c, x)
Processed(c) == CASE c.class = "mixer"    -> MixerProcess(c)
                  [] c.class = "mimo"     -> MimoProcess(c)
                  [] c.class = "renderer" -> RendererProcess(c)
                  [] c.class = "capturer" -> CapturerProcess(c)
Cleaned(c) == CASE c.class = "mixer"    -> MixerCleanup(c)
                [] c.class = "mimo"     -> MimoCleanup(c)
                [] c.class = "renderer" -> RendererCleanup(c)
                [] c.class = "capturer" -> CapturerCleanup(c)
Terminating(c, x) == CASE c.class = "mixer"    -> MixerTerminate(c, x)
                       [] c.class = "mimo"     -> MimoTerminate(c, x)
                       [] c.class = "renderer" -> RendererTerminate(c, x)
                       [] c.class = "capturer" -> CapturerTerminate(c, x)

EmptyThisBuffer == \E x \in Gets("empty") : Handled(Emptied(comp, x))
FillThisBuffer == \E x \in Gets("fill") : Handled(Filled(comp, x))
PortRoute == \E x \in Gets("route") : Handled(Routes(comp, x))
PortUnroute == \E x \in Gets("unroute") : Handled(Unroutes(comp, x))
PortPause == \E x \in Gets("pause") :
    Handled(IF comp.class = "mixer" THEN MixerPause(comp, x) ELSE MimoPause(comp, x))
PortResume == \E x \in Gets("resume") :
    Handled(IF comp.class = "mixer" THEN MixerResume(comp, x) ELSE MimoResume(comp, x))
SetParam == \E x \in Gets("set_param") :
    Handled(IF comp.class = "renderer" THEN RendererStart(comp, x) ELSE CapturerStart(comp, x))
Flush == \E x \in Gets("flush") : Handled(Flushed(comp, x))
Unregister == \E x \in Gets("unregister") : Handled(Cleaned(comp))
Terminate == \E x \in NextItem : comp.mode = "terminating" /\ Handled(Terminating(comp, x))

Process ==
    /\ local = <<>> /\ comp.tree > 0
    /\ LET c == [comp EXCEPT !.state = @ \ {"schedule"}, !.tree = @ - 1]
       IN Becomes(IF comp.mode = "running" THEN Processed(c) ELSE c, <<>>, inbox)

WorkerStep == \/ EmptyThisBuffer \/ FillThisBuffer \/ PortRoute \/ PortUnroute \/ PortPause
              \/ PortResume \/ SetParam \/ Flush \/ Unregister \/ Terminate \/ Process

-----------------------------------------------------------------------------
(* The device, and the thread of the core, which takes the component's own *)
(* message to its worker (xf_msg_schedule_isr, xf_core_service).           *)

Device == {"renderer", "capturer"}
HasDevice == comp.class \in Device
Flushing == \E j \in DOMAIN comp.out : OutHas(comp, j, {"flushing"})

MayTick == CASE comp.class = "capturer" -> comp.plugin.avail = 0 /\ ~Flushing /\ call = None
                                      /\ \A j \in DOMAIN sink : sink[j].alive
             [] comp.class = "renderer" -> (wired # {} \/ call # None) => feed[1].control # "over"
Tick ==
    /\ HasDevice /\ comp.mode # "gone" /\ comp.plugin.timer
    /\ variant.calm => MayTick
    /\ comp' = IF comp.class = "renderer" THEN RendererTick(comp) ELSE CapturerTick(comp)
    /\ UNCHANGED <<variant, local, inbox, feed, sink, owned, ready, wired, call>>
IsrDelivered ==
    /\ comp.isr = "raised"
    /\ comp' = [comp EXCEPT !.isr = "queued"]
    /\ inbox' = Append(inbox, Item(App, Isr, IF comp.class = "renderer" THEN "fill" ELSE "empty", 0))
    /\ UNCHANGED <<variant, local, feed, sink, owned, ready, wired, call>>

-----------------------------------------------------------------------------
(* The neighbours. One of the same worker acts when it is run: the local   *)
(* queue has been served. In a calm neighbourhood nobody does what a class *)
(* does not survive: input for a mixer whose output is being flushed, for  *)
(* mimo_mix once that input was over, for pcm_split with an output set up  *)
(* that was flushed, or for a renderer whose stream is over; taking the    *)
(* output of a mixer that is not paused, or of a renderer or capturer that *)
(* runs; connecting an output of a MIMO component that had the end of a    *)
(* stream before; a frame of a capturer before the one before it was read, *)
(* or while a call is made; starting the device of a renderer, or deleting *)
(* it, with its output connected; deleting a capturer that runs.           *)

Arrives(x) ==
    IF x.port \in variant.near THEN local = <<>> /\ local' = <<x>> /\ UNCHANGED inbox
    ELSE inbox' = Append(inbox, x) /\ UNCHANGED local

\* An output port that feeds input i (xf-io.c, as CodecChain has it): data, the end
\* of the stream, a flush.
Feeds(i, what, op, len, f) ==
    /\ ~Gone /\ feed[i].on = "on" /\ feed[i].control \in {"fresh", "home", "idle"}
    /\ Arrives(Item(i, Msg(i, what), op, len))
    /\ feed' = [feed EXCEPT ![i] = f]
    /\ UNCHANGED <<variant, comp, sink, owned, ready, wired, call>>
MayFeed(i) ==
    CASE comp.class = "mixer"    -> feed[i].control \in {"fresh", "idle"} =>
                                      ~Flushing /\ \A k \in DOMAIN feed : feed[k].control # "over"
      [] comp.class = "mimo"     -> IF comp.plugin.splits
                                    THEN \A j \in DOMAIN comp.out : ~({"setup", "flush_done"} \subseteq comp.out[j].flags)
                                    ELSE i \notin comp.plugin.over
      [] comp.class = "renderer" -> ~comp.plugin.over
      [] OTHER                   -> TRUE
FeederData(i) == \E b \in feed[i].home :
    /\ variant.calm => MayFeed(i)
    /\ variant.fed \subseteq wired
    /\ Feeds(i, b, "empty", 1, [feed[i] EXCEPT !.home = @ \ {b}, !.control = "home"])
FeederOver(i) ==
    /\ feed[i].control = "home"
    /\ variant.calm /\ comp.class = "renderer" /\ (wired # {} \/ call # None) => comp.isr = "home"
    /\ Feeds(i, "control", "empty", 0, [feed[i] EXCEPT !.control = "over"])
FeederFlush(i) == \E on \in {"on", "ending"} :
    /\ i \in variant.cut /\ feed[i].control # "idle"
    /\ comp.class = "renderer" => "execution" \in comp.state
    /\ Feeds(i, "control", "flush", 0, [feed[i] EXCEPT !.control = "flush", !.on = on])
\* Unroute it, which needs no flush if it is idle, and route it again.
FeederEnds(i) ==
    /\ i \in variant.cut /\ feed[i].on = "on" /\ feed[i].control \in {"idle", "over"} /\ ~Gone
    /\ feed' = [feed EXCEPT ![i] = IF @.control = "over" THEN [@ EXCEPT !.on = "ending"]
                                   ELSE [@ EXCEPT !.on = "off", !.control = "home"]]
    /\ UNCHANGED <<variant, comp, local, inbox, sink, owned, ready, wired, call>>
FeederConnects(i) ==
    /\ feed[i] = Apart /\ ~Gone
    /\ feed' = [feed EXCEPT ![i] = Connected]
    /\ UNCHANGED <<variant, comp, local, inbox, sink, owned, ready, wired, call>>

\* The component output j is routed to answers in order; when it is deleted, it answers what it
\* has, and what is still on its way returns.
SinkAnswers(j) ==
    /\ sink[j].q # <<>> /\ ~Gone
    /\ LET s == Head(sink[j].q) IN Arrives(Item(j, s.msg, Back(s), s.len))
    /\ sink' = [sink EXCEPT ![j].q = Tail(@)]
    /\ UNCHANGED <<variant, comp, feed, owned, ready, wired, call>>
MayLose(j) == CASE comp.class = "mixer"    -> OutHas(comp, j, {"paused"})
                [] comp.class = "mimo"     -> comp.plugin.splits
                [] comp.class = "renderer" -> /\ "completed" \in comp.state /\ comp.isr = "home"
                                              /\ OutHas(comp, j, {"idle", "flushing"})
                [] comp.class = "capturer" -> comp.isr = "home" /\ comp.tree = 0
SinkDies(j) ==
    /\ j \in variant.mortal \cap wired /\ sink[j].alive /\ ~Gone /\ local = <<>>
    /\ variant.calm /\ HasDevice => MayLose(j)
    /\ \E n \in 0 .. Len(sink[j].q) :
         LET Answered(k) == IF j \in variant.near \/ k <= n THEN 0 ELSE Invalid
             back == [k \in DOMAIN sink[j].q |-> [Answers(j, sink[j].q)[k] EXCEPT !.len = Answered(k)]]
         IN IF j \in variant.near THEN local' = back /\ UNCHANGED inbox
            ELSE inbox' = inbox \o back /\ UNCHANGED local
    /\ sink' = [sink EXCEPT ![j] = [alive |-> FALSE, q |-> <<>>]]
    /\ UNCHANGED <<variant, comp, feed, owned, ready, wired, call>>

-----------------------------------------------------------------------------
(* The application (xaf-api.c).                                            *)

Commands(m, x) ==
    /\ ~Gone /\ m \in owned
    /\ owned' = owned \ {m}
    /\ inbox' = Append(inbox, x)
    /\ UNCHANGED <<variant, comp, local, feed, ready, wired>>
\* XAF_COMP_STATE_CHK: no command of the application follows its deletion of the component.
AlwaysInUse == TRUE
InUse == ~(call # None /\ call.op = "unregister")

\* xaf_comp_process
StartOutput(j) == j \notin ready /\ InUse /\ Commands(Start(j), Item(j, Start(j), "fill", 0))
                  /\ UNCHANGED <<sink, call>>
NeedOutput(j) == j \in ready \cup {Probe} /\ ready # {} /\ InUse
                 /\ Commands(Out(j), Item(j, Out(j), "fill", 1)) /\ UNCHANGED <<sink, call>>

\* One synchronous call at a time.
Calls(op, port) ==
    /\ call = None /\ Commands(Cmd, Item(port, Cmd, op, 0))
    /\ call' = [op |-> op, port |-> port]

\* xaf_connect (to a component that is there), xaf_disconnect, xaf_comp_delete, xaf_pause, xaf_resume
MayConnect(j) == CASE comp.class = "mimo"     -> ~OutHas(comp, j, {"flush_done"})
                   [] comp.class = "renderer" -> feed[1].control # "over"
                   [] OTHER                   -> TRUE
Connect(j) ==
    /\ j \in (DOMAIN sink \cap ready) \ wired /\ (variant.calm => MayConnect(j))
    /\ Calls("route", j) /\ sink' = [sink EXCEPT ![j].alive = TRUE]
Disconnect(j) == j \in wired /\ (variant.calm => MayLose(j)) /\ Calls("unroute", j) /\ UNCHANGED sink
MayDelete == CASE comp.class = "renderer" -> ~Routed(comp, Played)
               [] comp.class = "capturer" -> MayLose(Captured)
               [] OTHER                   -> TRUE
Delete == (variant.calm => MayDelete) /\ Calls("unregister", App) /\ UNCHANGED sink
Pause(p) == p \in variant.pausable \ {Probe} /\ Calls("pause", p) /\ UNCHANGED sink
Resume(p) == p \in variant.pausable /\ Calls("resume", p) /\ UNCHANGED sink
\* xaf_comp_set_config, of the device's state
StartDevice ==
    /\ HasDevice /\ ready # {} /\ comp.plugin.device = "idle"
    /\ variant.calm => wired = {} /\ "completed" \notin comp.state
    /\ Calls("set_param", App) /\ UNCHANGED sink

Next ==
    \/ WorkerStep
    \/ \E i \in DOMAIN feed : \/ FeederData(i) \/ FeederOver(i) \/ FeederFlush(i)
                              \/ FeederEnds(i) \/ FeederConnects(i)
    \/ \E j \in DOMAIN sink : SinkAnswers(j) \/ SinkDies(j) \/ Connect(j) \/ Disconnect(j)
    \/ \E j \in variant.routes \cup variant.drained : StartOutput(j) \/ NeedOutput(j)
    \/ \E p \in variant.pausable : Pause(p) \/ Resume(p)
    \/ Delete \/ StartDevice \/ Tick \/ IsrDelivered
Spec == Init /\ [][Next]_vars

\* The worker and the thread of the core run, and sinks answer: a worker that has work for
\* ever does some (weak fairness of WorkerStep, its ENABLED written out).
HasWork == ~Gone /\ (local # <<>> \/ inbox # <<>> \/ comp.tree > 0)
WorkerFairness == <>[]HasWork => []<><<WorkerStep>>_vars
FairSpec == /\ Spec /\ WorkerFairness /\ WF_vars(IsrDelivered)
            /\ \A j \in {3, 4} : WF_vars(j \in DOMAIN sink /\ SinkAnswers(j))

-----------------------------------------------------------------------------
(* Properties.                                                             *)

Held(s, m) == {n \in DOMAIN s : s[n].msg = m}
AtInputs(m) == UNION {{<<i, n>> : n \in Held(comp.in[i].q, m)} : i \in DOMAIN comp.in}
AtOutputs(m) == UNION {{<<j, n>> : n \in {k \in DOMAIN comp.out[j].q : comp.out[j].q[k] = m}}
                       : j \in DOMAIN comp.out}
AtSinks(m) == UNION {{<<j, n>> : n \in Held(sink[j].q, m)} : j \in DOMAIN sink}
Copies(m) == Cardinality(Held(local, m)) + Cardinality(Held(inbox, m)) + Cardinality(AtInputs(m))
             + Cardinality(AtOutputs(m)) + Cardinality(AtSinks(m))
Saved == (IF comp.mode = "terminating" THEN 1 ELSE 0)
         + Cardinality({j \in DOMAIN comp.out : Unrouting(comp, j)})

\* Types: the component's state and place in the schedule, its ports, the neighbours.
States == {"runtime_init", "execution", "completed", "schedule", "output_setup", "output_ready",
           "running", "bug"}
PortFlags == InFlags \cup {"idle", "active", "paused", "recvd", "input_setup"}
OutFlags == {"idle", "routed", "unrouting", "flushing", "paused", "probe_setup", "unstarted",
             "active", "to_sink", "setup", "flush_done"}
Messages == [of : 0 .. 5, what : Pool \cup {"cmd", "isr", "start", "out", "none", "freed"}]
Items == [port : 0 .. 5, msg : Messages, len : {Invalid, 0, 1},
          op : {"empty", "fill", "flush", "route", "unroute", "pause", "resume", "set_param", "unregister"}]
Of(S, s) == \A n \in DOMAIN s : s[n] \in S
TypeOK ==
    /\ comp.mode \in {"running", "terminating", "gone"} /\ comp.state \subseteq States
    /\ comp.isr \in {"none", "home", "raised", "queued"} /\ comp.sent = <<>>
    /\ \A i \in DOMAIN comp.in : /\ Of(Items, comp.in[i].q) /\ comp.in[i].flags \subseteq PortFlags
                                 /\ comp.in[i].filled \in 0 .. Frame
    /\ \A j \in DOMAIN comp.out : /\ Of(Messages, comp.out[j].q) /\ comp.out[j].ptr \in Messages
                                  /\ comp.out[j].flags \subseteq OutFlags
    /\ Of(Items, local) /\ Of(Items, inbox)
    /\ \A i \in DOMAIN feed : feed[i] \in [on : {"on", "ending", "off"}, home : SUBSET comp.pool,
                                  control : {"fresh", "home", "over", "flush", "idle"}]
    /\ owned \subseteq Messages /\ wired \subseteq ready \cap DOMAIN sink

\* No assertion of the classes, of their plugins and of the ports fails (BUG, XF_CHK_ERR): no
\* buffer is taken from a port that is being unrouted, none produced from an empty one, no
\* flow-control message comes back to a port that did not send it, and no port is destroyed
\* before it is idle, in whatever order streams, calls, deletions and interrupts come.
NoAssertion == "bug" \notin comp.state

\* A component is in its worker's schedule once, and only while its flag says so: what a
\* handler cancels, a later one does not find there (xa_base_schedule, xa_base_cancel).
ScheduledOnce == comp.tree = IF "schedule" \in comp.state /\ ~Gone THEN 1 ELSE 0

\* Every buffer and flow-control message of a feeder, and every message of the application,
\* is at one place: with its owner, on its way, or in one port. None is lost or doubled by
\* flushes, bounces and the two-stage deletion. An output port sends its flow-control message
\* once, from the start of a flush until it is back. Of its own pool it has each buffer once,
\* but for the one case the code has for dropping them: while the port is being flushed, a
\* buffer that comes back from the sink may be thrown away (the sink is gone, or the
\* component is being deleted), as the pool is freed after the flush.
MessagesConserved ==
    /\ \A i \in DOMAIN feed : \A b \in comp.pool :
         Copies(Msg(i, b)) = IF b \in feed[i].home THEN 0 ELSE 1
    /\ \A i \in DOMAIN feed : Copies(Control(i)) = IF feed[i].control \in {"over", "flush"} THEN 1 ELSE 0
    /\ \A m \in OfApplication \ {Cmd} : Copies(m) = IF m \in owned THEN 0 ELSE 1
    /\ Copies(Cmd) + Saved = IF Cmd \in owned THEN 0 ELSE 1
    /\ Copies(Isr) = IF comp.isr = "queued" THEN 1 ELSE 0
    /\ \A j \in DOMAIN sink : Copies(Control(j)) = IF OutHas(comp, j, {"flushing"}) THEN 1 ELSE 0
    /\ \A j \in DOMAIN sink : \A b \in comp.pool : Routed(comp, j) =>
         Copies(Msg(j, b)) \in IF OutHas(comp, j, {"flushing"}) THEN {0, 1} ELSE {1}

\* When a component is gone, nothing is left in it or on the way to it: its feeders have all
\* their buffers and their flow-control messages, and the application has all its messages,
\* the answer to its call among them. Whatever was at an input, at an output the application
\* takes from, in either queue of the worker, or saved until a flush is over
\* came back (xa_..._cleanup, xa_..._destroy, xf_worker_queue_purge).
ReturnedWhenGone ==
    Gone => /\ \A i \in DOMAIN feed : /\ feed[i].home = comp.pool /\ Copies(Control(i)) = 0
                                      /\ \A b \in comp.pool : Copies(Msg(i, b)) = 0
            /\ owned = OfApplication /\ \A m \in OfApplication : Copies(m) = 0
            /\ call = None

\* A pool is freed only when all its buffers and its flow-control message are back: that of a
\* feeder that is taken apart, and that of an output port (xf_output_port_unroute), whether
\* the application disconnects it, its sink is deleted, or the component itself.
FreedAtHome ==
    /\ \A i \in DOMAIN feed : feed[i].on = "off" => feed[i].home = comp.pool
    /\ \A j \in DOMAIN sink : ~Routed(comp, j) => \A what \in Pool : Copies(Msg(j, what)) = 0

\* The buffer that a component set up for its plugin is the first of the output port still,
\* until it has been produced: no handler gave it away meanwhile.
OutputIsOurs ==
    LET Ours(j) == comp.out[j].q # <<>> /\ comp.out[j].ptr = Head(comp.out[j].q) IN
    /\ comp.mode = "running" /\ {"execution", "output_setup"} \subseteq comp.state => Ours(3)
    /\ comp.mode = "running" /\ "execution" \in comp.state => \A j \in DOMAIN comp.out : OutHas(comp, j, {"setup"}) => Ours(j)

\* Every synchronous call returns: a connection taken apart or a component deleted in the
\* middle of a stream waits for flow-control messages and interrupts, but not for ever.
CallsReturn == call # None ~> call = None
=============================================================================
