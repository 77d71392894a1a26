------------------------------- MODULE Ports -------------------------------
(***************************************************************************)
(* The ports of a DSP component (xf-io.c, xf-io.h) and its place in the    *)
(* schedule (xa-class-base.c), as operators on the component's structure c.*)
(* Each gives the structure it leaves. What it sends is appended to c.sent,*)
(* which is emptied before the next step.                                  *)
(* A message of a pool belongs to the output port on the other side of the *)
(* connection: those of input port i to the port that feeds it, those of   *)
(* output port j to the component itself, for as long as j is routed.      *)
(* A failed BUG() or XF_CHK_ERR() leaves the flag "bug" in c.state.        *)
(***************************************************************************)
EXTENDS Integers, Sequences, FiniteSets, FiniteSetsExt

CONSTANTS
    Bufs,    \* the buffers a connection may have; c.pool are those of one of c
    Frame,   \* length of the buffer of an input port, in messages
    MayBeBarren   \* a stream may end without having produced anything since the last

ASSUME PortsAssumption == Bufs # {} /\ Frame \in Nat \ {0} /\ MayBeBarren \in BOOLEAN

Invalid == -1                       \* XF_MSG_LENGTH_INVALID
App == 0                            \* no port: the application's own messages
Pool == Bufs \cup {"control"}
Msg(of, what) == [of |-> of, what |-> what]
Control(j) == Msg(j, "control")
Cmd == Msg(App, "cmd")
FromPool(m) == m.what \in Pool

\* xf_input_port_init, xf_output_port_init. Input ports have a buffer of their own (none
\* is in bypass mode); ptr is the buffer the plugin was given last.
InPort(own) == [q |-> <<>>, flags |-> {"enabled"} \cup own, filled |-> 0]
OutPort(own) == [q |-> <<>>, flags |-> {"idle"} \cup own, ptr |-> Msg(App, "none")]

InFlags == {"enabled", "eos", "done", "purging"}
Toggled(S, T) == (S \ T) \cup (T \ S)
Check(c, ok) == IF ok THEN c ELSE [c EXCEPT !.state = @ \cup {"bug"}]

-----------------------------------------------------------------------------
(* Messages and scheduling.                                                *)

Sends(c, m, op, len) == [c EXCEPT !.sent = Append(@, [msg |-> m, op |-> op, len |-> len])]

\* xf_response, xf_response_ok: message x goes back, an emptied buffer as one to fill.
Back(x) == IF x.op = "empty" /\ FromPool(x.msg) THEN "fill" ELSE x.op
Answer(c, x, len) == Sends(c, x.msg, Back(x), len)
AnswerAll(c, s) ==
    [c EXCEPT !.sent = @ \o [n \in DOMAIN s |-> [msg |-> s[n].msg, op |-> Back(s[n]), len |-> 0]]]

\* xa_base_schedule, xa_base_cancel
Schedule(c) == IF "schedule" \in c.state THEN c
               ELSE [c EXCEPT !.state = @ \cup {"schedule"}, !.tree = @ + 1]
ScheduleIf(c, due) == IF due THEN Schedule(c) ELSE c
Cancel(c) == IF "schedule" \notin c.state THEN c
             ELSE [c EXCEPT !.state = @ \ {"schedule"}, !.tree = 0]

-----------------------------------------------------------------------------
(* Input ports.                                                            *)

InReady(c, i) == c.in[i].q # <<>> /\ "purging" \notin c.in[i].flags
InDone(c, i) == "done" \in c.in[i].flags
InSet(c, i, f) == [c EXCEPT !.in[i].flags = @ \cup f]
InClear(c, i, f) == [c EXCEPT !.in[i].flags = @ \ f]
InToggle(c, i, f) == [c EXCEPT !.in[i].flags = Toggled(@, f)]
InHas(c, i, f) == c.in[i].flags \cap f # {}

\* xf_input_port_put; IsFirst is its result.
IsFirst(c, i) == c.in[i].q = <<>> /\ InHas(c, i, {"enabled"})
InPut(c, i, x) ==
    LET eos == x.len = 0
        over == IF ~eos THEN c
                ELSE InToggle(Check(c, ~InHas(c, i, {"eos"})), i, {"enabled", "eos"})
    IN IF ~InHas(c, i, {"enabled"}) THEN Answer(c, x, 0)
       ELSE [over EXCEPT !.in[i].q = Append(@, x)]

\* xf_input_port_fill: whole messages move in until the buffer is full or the stream is
\* over. InFills is the result.
RoomWhole(p) == Frame
Room(p) == Frame - p.filled
Moved(p) == LET Enough(n) == n = Room(p) \/ n = Len(p.q) \/ p.q[n + 1].len = 0
            IN CHOOSE n \in 0 .. Len(p.q) :
                 Enough(n) /\ \A m \in 0 .. n - 1 : ~Enough(m)
Ends(p) == Moved(p) < Room(p) /\ Moved(p) < Len(p.q)
InFills(c, i) == LET p == c.in[i] IN p.q # <<>> /\ (Moved(p) = Room(p) \/ Ends(p))
InFill(c, i) ==
    LET p == c.in[i]
        n == Moved(p)
        d == [AnswerAll(c, SubSeq(p.q, 1, n)) EXCEPT
                 !.in[i].q = SubSeq(p.q, n + 1, Len(p.q)), !.in[i].filled = @ + n]
    IN IF Ends(p) THEN InToggle(Check(d, InHas(d, i, {"eos"})), i, {"eos", "done"}) ELSE d

\* xf_input_port_consume, of all that there is
InConsume(c, i) == [c EXCEPT !.in[i].filled = 0]

\* xf_input_port_purge: the flags of the class stay.
InPurge(c, i) ==
    [AnswerAll(c, c.in[i].q) EXCEPT
        !.in[i].q = <<>>, !.in[i].filled = 0,
        !.in[i].flags = (@ \ InFlags) \cup {"enabled"}]
InPurgeAll(c) == FoldSet(LAMBDA i, d : InPurge(d, i), c, DOMAIN c.in)

\* xf_input_port_control_save, xf_input_port_purge_done
InSave(c, i, x) ==
    [Check(c, ~InHas(c, i, {"purging"})) EXCEPT
        !.in[i].q = Append(@, x), !.in[i].flags = Toggled(@, {"purging"})]
InPurgeDone(c, i) ==
    LET q == c.in[i].q IN
    IF q = <<>> \/ ~InHas(c, i, {"purging"}) THEN Check(c, FALSE)
    ELSE InToggle([Answer(c, Head(q), 0) EXCEPT !.in[i].q = Tail(q)], i, {"purging"})

-----------------------------------------------------------------------------
(* Output ports.                                                           *)

OutHas(c, j, f) == c.out[j].flags \cap f # {}
Routed(c, j) == OutHas(c, j, {"routed"})
Unrouting(c, j) == OutHas(c, j, {"unrouting"})
OutReady(c, j) == c.out[j].q # <<>> /\ ~OutHas(c, j, {"unrouting", "flushing"})
OutSet(c, j, f) == [c EXCEPT !.out[j].flags = @ \cup f]
OutClear(c, j, f) == [c EXCEPT !.out[j].flags = @ \ f]

\* xf_output_port_put; its result: whether the port was empty.
OutEmpty(c, j) == c.out[j].q = <<>>
OutPut(c, j, m) == [c EXCEPT !.out[j].q = Append(@, m)]

\* xf_output_port_data, given to the plugin.
OutSetup(c, j) == [Check(c, ~Unrouting(c, j)) EXCEPT !.out[j].ptr = Head(c.out[j].q)]

\* xf_output_port_produce
OutProduce(c, j, n) ==
    LET q == c.out[j].q
        m == Head(q)
        d == Sends(Check(c, ~Unrouting(c, j)), m,
                   IF FromPool(m) THEN "empty" ELSE "fill", n)
    IN IF q = <<>> THEN Check(c, FALSE)
       ELSE [d EXCEPT !.out[j].q = Tail(q), !.out[j].flags = @ \ {"idle"}]

\* xf_output_port_flush: FlushOver is its result.
OverUnlessEnd(c, j, op) == ~Routed(c, j) \/ op # "fill"
FlushOver(c, j, op) == ~Routed(c, j) \/ (OutHas(c, j, {"idle"}) /\ op # "fill")
OutFlush(c, j, op) ==
    LET q == c.out[j].q IN
    IF ~Routed(c, j)
    THEN [c EXCEPT !.out[j].q = <<>>,
                   !.sent = @ \o [n \in DOMAIN q |-> [msg |-> q[n], op |-> "fill", len |-> 0]]]
    ELSE IF FlushOver(c, j, op) \/ OutHas(c, j, {"flushing"}) THEN c
    ELSE Sends(OutSet(c, j, {"flushing"}), Control(j), IF op = "fill" THEN "empty" ELSE op, 0)
OutFlushDone(c, j) ==
    [Check(c, OutHas(c, j, {"flushing"})) EXCEPT
        !.out[j].flags = Toggled(@, {"idle", "flushing"})]

\* What the port sends next is the end of an empty stream.
Barren(c, j) == {"routed", "idle"} \subseteq c.out[j].flags

\* xf_output_port_route, _unroute, _unroute_start, _unroute_done. With the pool goes the
\* buffer the plugin may still have.
OutRoute(c, j) ==
    LET pool == CHOOSE s \in [1 .. Cardinality(c.pool) -> c.pool] : {s[n] : n \in DOMAIN s} = c.pool
    IN [Check(c, ~Routed(c, j)) EXCEPT
           !.out[j].q = @ \o [n \in DOMAIN pool |-> Msg(j, pool[n])],
           !.out[j].flags = (@ \cup {"routed"}) \ {"idle"}]
OutUnroute(c, j) ==
    [c EXCEPT !.out[j] = [OutPort({}) EXCEPT
        !.ptr = IF c.out[j].ptr.of = j THEN Msg(App, "freed") ELSE c.out[j].ptr]]
UnrouteStart(c, j) == OutSet(Check(c, Routed(c, j)), j, {"unrouting"})
UnrouteDone(c, j) ==
    Answer(OutUnroute(Check(c, Unrouting(c, j)), j), [msg |-> Cmd, op |-> "unroute"], 0)

\* xf_output_port_destroy
OutDestroy(c, j) ==
    [IF Routed(c, j) THEN OutUnroute(Check(c, OutHas(c, j, {"idle"})), j) ELSE c
        EXCEPT !.out[j].flags = {}]

\* What the handlers do with a flow-control message that is back at port j, len what it
\* brings: the unroute command is done, or the sink is gone.
UnrouteForgotten(c, j, len) == OutFlushDone(c, j)
ControlBack(c, j, len) ==
    LET d == OutFlushDone(c, j)
    IN IF Unrouting(d, j) THEN UnrouteDone(d, j)
       ELSE IF len = Invalid THEN OutUnroute(d, j) ELSE d
=============================================================================
