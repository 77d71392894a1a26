-------------------------- MODULE CodecChainProofs --------------------------
(***************************************************************************)
(* CodecChain, second part of its proof: the other handlers, an execution,  *)
(* the deletion and the application keep the invariant; the marks of the    *)
(* end of the stream; and the theorems, for chains whose streams do not end *)
(* without having produced anything (MayBeBarren = FALSE).                  *)
(***************************************************************************)
EXTENDS CodecChainStepProofs

-----------------------------------------------------------------------------
(* Commands.                                                               *)

CmdOps == {"route", "unroute", "unregister", "pause", "resume"}

\* A command is that of the call, and is answered so.
LEMMA CmdGiven ==
    ASSUME ChainInv, NEW k \in Codecs, NEW x, Serves(k, x), x.op \in CmdOps
    PROVE  /\ x.msg = Cmd /\ ~FromPool(x.msg) /\ call # None /\ call \in CallType /\ call.on = k /\ call.op = x.op
           /\ \A h \in Codecs : ~IsSaved(h)
           /\ LocalLeft(WorkerOf[k]) = <<>> /\ Scheduling(WorkerOf[k]) = {}
           /\ HasMsg({x}, Cmd) /\ \A what : ~HasMsg({x}, Msg(k, what))
           /\ LET s == <<Answered(x, 0)>> IN
              /\ s \in Seq(OutType) /\ Plain(k, {x}, s) /\ Ordered(s)
              /\ \A m : ToApp(s, m) <=> m = Cmd
              /\ \A y \in Items(s) : ~IsControl(y) /\ ~FromPool(y.msg) /\ y.to = App
<1>1. x \in ItemType /\ x.to = k
  BY ServedKinds
<1>2. ~FromPool(x.msg)
  <2> SUFFICES ASSUME FromPool(x.msg) PROVE FALSE
    OBVIOUS
  <2>1. x.op \in {"empty", "fill", "flush"}
    BY ServedKinds DEF BackKind, BackOp, ForthKind
  <2> QED BY <2>1 DEF CmdOps
<1>3. x.msg = Cmd
  <2>1. AppKind(x)
    BY <1>2, ServedKinds
  <2> QED BY <2>1 DEF AppKind, CmdOps
<1>4. HasMsg({x}, Cmd)
  BY <1>3 DEF HasMsg
<1>5. /\ Takes(k, {x}, LocalLeft(WorkerOf[k]), QueueLeft(WorkerOf[k]))
      /\ LocalLeft(WorkerOf[k]) = <<>> /\ Scheduling(WorkerOf[k]) = {}
  BY <1>2, ServesOne
<1>6. /\ call # None /\ call \in CallType /\ call.on = k /\ x = Item(k, Cmd, call.op, 0)
      /\ \A h \in Codecs : ~IsSaved(h)
  BY <1>3, <1>4, <1>5, CallFacts
<1>7. call.op = x.op
  BY <1>6, ItemFacts
<1>8. \A what : ~HasMsg({x}, Msg(k, what))
  <2>1. \A what : Msg(k, what).of = k
    BY MsgFacts
  <2>2. Cmd.of = App /\ App # k
    BY MsgFacts, AppAssumption
  <2> QED BY <1>3, <2>1, <2>2 DEF HasMsg
<1> DEFINE y == Answered(x, 0)
<1>9. ~Of(x, k) /\ x \in {x}
  BY <1>2 DEF Of
<1>10. y \in OutType /\ y.msg = x.msg /\ (AppReply(k, y) \/ Reply(k, {x}, y)) /\ y.to = App
  BY <1>2, <1>9, GivenAnswered
<1> HIDE DEF y
<1> DEFINE s == <<y>>
<1>11. s \in Seq(OutType) /\ Items(s) = {y} /\ \A a, b : ~Ahead(s, a, b)
  BY <1>10, OneItem
<1> HIDE DEF s
<1>12. Plain(k, {x}, s)
  BY <1>10, <1>11 DEF Plain
<1>13. Ordered(s)
  BY <1>11 DEF Ordered
<1>14. \A m : ToApp(s, m) <=> m = Cmd
  BY <1>3, <1>10, <1>11 DEF ToApp
<1>15. ~IsControl(y) /\ ~FromPool(y.msg)
  BY <1>2, <1>10, AppMsgFacts
<1> QED BY <1>2, <1>3, <1>4, <1>5, <1>6, <1>7, <1>8, <1>10, <1>11, <1>12, <1>13, <1>14, <1>15 DEF s, y

\* The buffers of a pool, in some order.
LEMMA PoolSequence ==
    ASSUME NEW k \in Codecs
    PROVE  LET pool == CHOOSE s \in [1..Cardinality(Bufs) -> Bufs] : {s[i] : i \in DOMAIN s} = Bufs
               t == [i \in DOMAIN pool |-> Msg(k, pool[i])] IN
           /\ t \in Seq(AllMsgs) /\ t # <<>>
           /\ \A m \in Items(t) : m \in {Msg(k, what) : what \in Bufs}
<1> DEFINE n == Cardinality(Bufs)
           pool == CHOOSE s \in [1..n -> Bufs] : {s[i] : i \in DOMAIN s} = Bufs
           t == [i \in DOMAIN pool |-> Msg(k, pool[i])]
<1>1. n \in Nat /\ n # 0
  BY BufsAssumption, FS_CardinalityType, FS_EmptySet
<1>2. ExistsBijection(1..n, Bufs)
  BY BufsAssumption, FS_CardinalityType
<1>3. \E s \in [1..n -> Bufs] : {s[i] : i \in DOMAIN s} = Bufs
  <2>1. PICK s \in Bijection(1..n, Bufs) : TRUE
    BY <1>2 DEF ExistsBijection
  <2>2. s \in [1..n -> Bufs] /\ \A b \in Bufs : \E i \in 1..n : s[i] = b
    BY <2>1 DEF Bijection, Injection, Surjection
  <2>3. {s[i] : i \in DOMAIN s} = Bufs
    BY <2>2
  <2> QED BY <2>2, <2>3
<1>4. pool \in [1..n -> Bufs]
  BY <1>3
<1> HIDE DEF pool
<1>5. \A i \in 1..n : t[i] \in {Msg(k, what) : what \in Bufs} /\ t[i] \in AllMsgs
  <2> SUFFICES ASSUME NEW i \in 1..n PROVE Msg(k, pool[i]) \in {Msg(k, what) : what \in Bufs} /\ Msg(k, pool[i]) \in AllMsgs
    BY <1>4
  <2>1. pool[i] \in Bufs
    BY <1>4
  <2>2. pool[i] \in Pool
    BY <2>1 DEF Pool
  <2> QED BY <2>1, <2>2, MsgFacts
<1>6. DOMAIN t = 1..n
  BY <1>4
<1> HIDE DEF n
<1>7. t \in Seq(AllMsgs)
  <2>1. t = [i \in 1..n |-> t[i]]
    BY <1>6
  <2> HIDE DEF t
  <2> QED BY <1>1, <1>5, <2>1
<1>8. t # <<>>
  <2>1. 1 \in DOMAIN t
    BY <1>1, <1>6
  <2>2. DOMAIN <<>> = {}
    OBVIOUS
  <2> QED BY <2>1, <2>2
<1>9. \A m \in Items(t) : m \in {Msg(k, what) : what \in Bufs}
  <2> HIDE DEF t
  <2> QED BY <1>5, <1>6 DEF Items
<1> QED BY <1>7, <1>8, <1>9 DEF t, pool, n

\* Another connection at the output.
PutRoute(c, s, F, j) == [c EXCEPT !.out = s, !.oflags = F, !.route = j]

\* What that leaves alone.
LEMMA PutRouteFields ==
    ASSUME NEW k \in Codecs, NEW c \in CodecType(k), NEW s \in Seq(AllMsgs), NEW F \in SUBSET Flags.out,
           NEW j \in Codecs
    PROVE  LET d == PutRoute(c, s, F, j) IN
           /\ d \in CodecType(k) /\ SameMode(c, d) /\ SameTask(c, d) /\ SameIn(c, d)
           /\ d.out = s /\ d.oflags = F /\ d.route = j
BY DEF CodecType, SameMode, SameTask, SameIn, PutRoute

\* xa_codec_port_route
LEMMA RouteStep == ASSUME ChainInv, NEW k \in Codecs, PortRoute(k) PROVE ChainInv'
<1> DEFINE c == codec[k]
           l == LocalLeft(WorkerOf[k])
           q == QueueLeft(WorkerOf[k])
           pool == CHOOSE s \in [1..Cardinality(Bufs) -> Bufs] : {s[i] : i \in DOMAIN s} = Bufs
           t == [i \in DOMAIN pool |-> Msg(k, pool[i])]
           s == c.out \o t
           F == (c.oflags \cup {"routed"}) \ {"idle"}
           e == PutRoute(c, s, F, call.arg)
           d == Scheduled(e)
<1>1. PICK x \in Gets(k, "route") : Becomes(k, d, <<Answered(x, 0)>>)
  BY DEF PortRoute, PutRoute
<1> DEFINE out == <<Answered(x, 0)>>
           T == {x}
<1>2. Serves(k, x) /\ c.mode = "running" /\ x.op = "route" /\ ~Gone(k)
  BY GetsServes DEF Serves
<1>3. /\ x.msg = Cmd /\ ~FromPool(x.msg) /\ call # None /\ call \in CallType /\ call.on = k /\ call.op = "route"
      /\ \A h \in Codecs : ~IsSaved(h)
      /\ l = <<>> /\ Scheduling(WorkerOf[k]) = {}
      /\ HasMsg(T, Cmd) /\ \A what : ~HasMsg(T, Msg(k, what))
      /\ out \in Seq(OutType) /\ Plain(k, T, out) /\ Ordered(out)
      /\ \A m : ToApp(out, m) <=> m = Cmd
      /\ \A y \in Items(out) : ~IsControl(y) /\ ~FromPool(y.msg) /\ y.to = App
  BY <1>2, CmdGiven DEF CmdOps
<1>4. Steps(k, T, l, q, d, out)
  BY <1>1, <1>2, ServesSteps
<1> HIDE DEF out
<1>5. <<k, call.arg>> \in Edges /\ k \in ready /\ conn[k] = None
  BY <1>3 DEF ChainInv, CallInv
<1>6. /\ c \in CodecType(k) /\ TaskOk(k, c) /\ InputOk(c) /\ OutputOk(k, c) /\ c.out \in Seq(AllMsgs)
      /\ ~Initial(c) /\ c.oflags \subseteq Flags.out /\ (Routed(c) => conn[k] = RouteOf(k) /\ RouteOf(k) \in Codecs)
  BY <1>2, <1>5, Mine DEF CompOk
<1>7. ~Routed(c)
  BY <1>5, <1>6, AppAssumption
<1>8. call.arg \in Codecs /\ k \notin Sinks
  <2> DEFINE a == <<k, call.arg>>
  <2>1. a \in Edges /\ a[1] = k /\ a[2] = call.arg
    BY <1>5
  <2> HIDE DEF a
  <2> QED BY <2>1, EdgeFacts, SinkAssumption
<1>9. c.out = <<>>
  <2> DEFINE r == c.out
  <2>1. r \in Seq(AllMsgs) /\ \A m \in Items(r) : FALSE
    BY <1>6, <1>7, <1>8 DEF OutputOk
  <2> HIDE DEF r
  <2>2. r = <<>>
    BY <2>1, SeqFacts
  <2> QED BY <2>2 DEF r
<1>10. t \in Seq(AllMsgs) /\ t # <<>> /\ \A m \in Items(t) : m \in {Msg(k, what) : what \in Bufs}
  BY PoolSequence
<1> HIDE DEF t
<1>11. s = t
  BY <1>9, <1>10
<1>12. F \in SUBSET Flags.out /\ "routed" \in F /\ "idle" \notin F
       /\ (Flushing(c) <=> "flushing" \in F) /\ (Unrouting(c) <=> "unrouting" \in F)
  BY <1>6 DEF Flags, Flushing, Unrouting
<1> HIDE DEF s, F
<1>13. /\ e \in CodecType(k) /\ SameMode(c, e) /\ SameTask(c, e) /\ SameIn(c, e)
       /\ e.out = s /\ e.oflags = F /\ e.route = call.arg
  BY <1>6, <1>8, <1>10, <1>11, <1>12, PutRouteFields
<1> HIDE DEF e
<1>14. /\ d \in CodecType(k) /\ SameMode(e, d) /\ SameIn(e, d) /\ SameOut(e, d)
       /\ d.state = e.state \cup {"schedule"}
       /\ d.tree = IF "schedule" \in e.state THEN e.tree ELSE e.tree + 1
  BY <1>13, ScheduledFields
<1> HIDE DEF d
<1>15. /\ d.mode = "running" /\ d.prepared = c.prepared /\ d.in = c.in /\ d.iflags = c.iflags
       /\ d.out = t /\ d.oflags = F /\ d.route = call.arg /\ d.state = c.state \cup {"schedule"}
       /\ d.tree = IF "schedule" \in c.state THEN c.tree ELSE c.tree + 1
  BY <1>2, <1>11, <1>13, <1>14 DEF SameMode, SameTask, SameIn, SameOut
<1>16. ~IsScheduled(c) /\ c.tree = 0 /\ ~Flushing(c) /\ ~Unrouting(c)
  <2>1. ~IsScheduled(c) /\ c.tree = 0
    BY <1>6, <1>9 DEF TaskOk
  <2>2. ~Flushing(c) /\ ~Unrouting(c)
    BY <1>6, <1>7 DEF OutputOk
  <2> QED BY <2>1, <2>2
<1>17. /\ Routed(d) /\ ~Flushing(d) /\ ~Unrouting(d) /\ IsScheduled(d) /\ d.tree = 1 /\ ~Initial(d)
       /\ (Completed(d) <=> Completed(c)) /\ (OnePhase(d) <=> OnePhase(c)) /\ (Purging(d) <=> Purging(c))
       /\ ("eos_seq_done" \in d.state <=> "eos_seq_done" \in c.state)
  <2>1. Routed(d) /\ ~Flushing(d) /\ ~Unrouting(d)
    BY <1>12, <1>15, <1>16 DEF Routed, Flushing, Unrouting
  <2>2. d.tree = 1
    BY <1>15, <1>16 DEF IsScheduled
  <2> QED BY <1>6, <1>15, <2>1, <2>2 DEF IsScheduled, Initial, Completed, OnePhase, Purging
<1>18. CompOk(k, d)
  <2>1. TaskOk(k, d)
    BY <1>6, <1>8, <1>10, <1>15, <1>16, <1>17 DEF TaskOk
  <2>2. InputOk(d)
    BY <1>6, <1>15, <1>16, <1>17 DEF InputOk
  <2>3. OutputOk(k, d)
    BY <1>10, <1>15, <1>17 DEF OutputOk
  <2> QED BY <2>1, <2>2, <2>3 DEF CompOk
<1>19. \A y \in Items(out), z \in Items(d.in) : IsControl(y) => ~Of(z, y.msg.of)
  BY <1>3
<1>20. InOk(k, T, d)
  BY <1>15, InputKept
<1>21. PortDone(k, T, out)
  <2>1. \A y \in Items(out) : ~Of(y, k)
    BY <1>3 DEF Of
  <2> QED BY <1>7, <2>1 DEF PortDone
<1>22. ModeOk(k, l, q, d)
  BY <1>2, <1>5, <1>15 DEF ModeOk
<1>23. CallOk(k, T, d, out)
  <2>1. ~SavedIn(d)
    BY <1>15, <1>17 DEF SavedIn
  <2> QED BY <1>3, <2>1 DEF CallOk
<1>24. ConnOk(k, d, out)
  BY <1>3, <1>15 DEF ConnOk
<1>25. StartOk(k, T, d, out)
  <2>1. ~ToApp(out, Msg(k, "start"))
    BY <1>3, AppMsgFacts
  <2> QED BY <1>3, <1>6, <1>17, <2>1, NoStart
<1>26. AloneOk(k, l, d, out)
  BY <1>3 DEF AloneOk
<1>27. FlushAbroad(k) => FALSE
  BY <1>16, FlushFlags
<1>28. IF d.mode = "gone" THEN d = Destroyed ELSE CompOk(k, d)
  BY <1>15, <1>18
<1> HIDE DEF T, l, q
<1> QED BY <1>3, <1>4, <1>14, <1>19, <1>20, <1>21, <1>22, <1>23, <1>24, <1>25, <1>26, <1>27, <1>28, PlainStep

\* The flow-control message is sent unless it is on its way.
LEMMA FlushSent ==
    ASSUME ChainInv, NEW k \in Codecs, ~Gone(k), Routed(codec[k]), "idle" \notin codec[k].oflags,
           NEW d, Routed(d), d.route = RouteOf(k), "idle" \notin d.oflags, Flushing(d), NEW op \in {"empty", "flush"}
    PROVE  LET s == IF Flushing(codec[k]) THEN <<>> ELSE <<Item(RouteOf(k), Control(k), op, 0)>> IN
           /\ s \in Seq(OutType) /\ Ordered(s)
           /\ \A y \in Items(s) : /\ IsSent(k, d, y) /\ y.msg = Control(k) /\ y.op = op /\ y.to # App
                                  /\ ~Flushing(codec[k])
           /\ \A m : ~ToApp(s, m)
<1>1. CASE Flushing(codec[k])
  BY <1>1, EmptyItems DEF Ordered, ToApp
<1>2. CASE ~Flushing(codec[k])
  <2> DEFINE s == <<Item(RouteOf(k), Control(k), op, 0)>>
  <2>1. /\ s \in Seq(OutType) /\ Ordered(s)
        /\ \A y \in Items(s) : IsSent(k, d, y) /\ y.msg = Control(k) /\ y.op = op /\ y.to # App
        /\ \A m : ~ToApp(s, m)
    BY <1>2, ControlSent
  <2> HIDE DEF s
  <2>2. (IF Flushing(codec[k]) THEN <<>> ELSE <<Item(RouteOf(k), Control(k), op, 0)>>) = s
    BY <1>2 DEF s
  <2> QED BY <1>2, <2>1, <2>2
<1> QED BY <1>1, <1>2

\* An input holds nothing of its own connection.
LEMMA InputIsOthers ==
    ASSUME ChainInv, NEW k \in Codecs, ~Gone(k), NEW z \in Items(codec[k].in)
    PROVE  ~Of(z, k)
<1> SUFFICES ASSUME Of(z, k) PROVE FALSE
  OBVIOUS
<1>1. InputPlace(k, z) /\ FromPool(z.msg) /\ z.msg.of = k
  BY DEF ChainInv, PoolInv, PlaceInv, Of
<1>2. Routed(codec[k]) /\ RouteOf(k) = k
  BY <1>1 DEF InputPlace
<1> QED BY <1>2, Mine

\* xa_codec_port_unroute
LEMMA UnrouteStep == ASSUME ChainInv, NEW k \in Codecs, PortUnroute(k) PROVE ChainInv'
<1> DEFINE c == codec[k]
           l == LocalLeft(WorkerOf[k])
           q == QueueLeft(WorkerOf[k])
           b == Cancelled(c)
           e == NoOutput(b)
           f == Flushed(k, e, "flush")
           g == f.c
           fout == f.out
           over == f.done
           h == [g EXCEPT !.oflags = @ \cup {"unrouting"}]
           u == Unrouted(g)
<1>1. PICK x \in Gets(k, "unroute") :
        IF ~Routed(c) THEN Becomes(k, c, <<Answered(x, 0)>>)
        ELSE IF over THEN Becomes(k, u, <<Answered(x, 0)>>)
        ELSE Becomes(k, h, fout)
  BY DEF PortUnroute
<1> DEFINE out == <<Answered(x, 0)>>
           T == {x}
<1>2. Serves(k, x) /\ c.mode = "running" /\ x.op = "unroute" /\ ~Gone(k)
  BY GetsServes DEF Serves
<1>3. /\ x.msg = Cmd /\ ~FromPool(x.msg) /\ call # None /\ call \in CallType /\ call.on = k /\ call.op = "unroute"
      /\ \A i \in Codecs : ~IsSaved(i)
      /\ l = <<>> /\ Scheduling(WorkerOf[k]) = {}
      /\ HasMsg(T, Cmd) /\ \A what : ~HasMsg(T, Msg(k, what))
      /\ out \in Seq(OutType) /\ Plain(k, T, out) /\ Ordered(out)
      /\ \A m : ToApp(out, m) <=> m = Cmd
      /\ \A y \in Items(out) : ~IsControl(y) /\ ~FromPool(y.msg) /\ y.to = App
  BY <1>2, CmdGiven DEF CmdOps
<1>4. IF ~Routed(c) THEN Steps(k, T, l, q, c, out)
      ELSE IF over THEN Steps(k, T, l, q, u, out)
      ELSE Steps(k, T, l, q, h, fout)
  BY <1>1, <1>2, ServesSteps
<1> HIDE DEF out
<1>5. /\ c \in CodecType(k) /\ CompOk(k, c) /\ TaskOk(k, c) /\ InputOk(c) /\ OutputOk(k, c)
      /\ c.out \in Seq(AllMsgs) /\ c.oflags \subseteq Flags.out /\ c.route = RouteOf(k)
      /\ (Routed(c) => <<k, RouteOf(k)>> \in Edges /\ k \notin Sinks)
  BY <1>2, Mine DEF CompOk
<1>6. ~Unrouting(c)
  BY <1>3 DEF IsSaved
<1>7. \A y \in Items(out) : ~Of(y, k)
  BY <1>3 DEF Of
<1>8. ~ToApp(out, Msg(k, "start"))
  BY <1>3, AppMsgFacts
<1>9. Scheduling(WorkerOf[k]) \subseteq {k} /\ ~IsScheduled(c) /\ c.tree = 0
  <2>1. k \notin Scheduling(WorkerOf[k])
    BY <1>3
  <2>2. ~(c.tree > 0)
    BY <2>1 DEF Scheduling
  <2> QED BY <1>3, <1>5, <2>2 DEF TaskOk
<1>10. CASE ~Routed(c)
  <2>1. Steps(k, T, l, q, c, out)
    BY <1>4, <1>10
  <2>2. \A y \in Items(out), z \in Items(c.in) : IsControl(y) => ~Of(z, y.msg.of)
    BY <1>3
  <2>3. InOk(k, T, c)
    BY InputKept
  <2>4. PortDone(k, T, out)
    BY <1>7, <1>10 DEF PortDone
  <2>5. ModeOk(k, l, q, c)
    BY <1>2, <1>10 DEF ModeOk
  <2>6. CallOk(k, T, c, out)
    BY <1>2, <1>3, <1>6 DEF CallOk, SavedIn
  <2>7. ConnOk(k, c, out)
    BY <1>10 DEF ConnOk
  <2>8. StartOk(k, T, c, out)
    BY <1>3, <1>8, NoStart
  <2>9. AloneOk(k, l, c, out)
    BY <1>9 DEF AloneOk
  <2>10. FlushAbroad(k) => FlushOk(c)
    BY DEF ChainInv, FlushInv
  <2>11. IF c.mode = "gone" THEN c = Destroyed ELSE CompOk(k, c)
    BY <1>2, <1>5
  <2> HIDE DEF T, l, q
  <2> QED BY <1>3, <1>5, <2>1, <2>2, <2>3, <2>4, <2>5, <2>6, <2>7, <2>8, <2>9, <2>10, <2>11, PlainStep
<1>11. CASE Routed(c)
  <2>1. /\ b \in CodecType(k) /\ SameMode(c, b) /\ SameIn(c, b) /\ SameOut(c, b)
        /\ b.state = c.state \ {"schedule"}
        /\ b.tree = IF "schedule" \in c.state THEN 0 ELSE c.tree
    BY <1>5, CancelledFields
  <2> HIDE DEF b
  <2>2. /\ e \in CodecType(k) /\ SameMode(b, e) /\ SameIn(b, e) /\ SameOut(b, e)
        /\ e.state = b.state \ {"output_setup"} /\ e.tree = b.tree
    BY <2>1, NoOutputFields
  <2> HIDE DEF e
  <2>3. Routed(e) /\ e.route = RouteOf(k) /\ e.oflags = c.oflags
    BY <1>5, <1>11, <2>1, <2>2 DEF Routed, SameOut
  <2> HIDE DEF f
  <2>4. /\ f.c \in CodecType(k) /\ SameMode(e, f.c) /\ SameTask(e, f.c) /\ SameIn(e, f.c)
        /\ f.c.out = e.out /\ f.c.route = e.route
        /\ LET now == "idle" \in e.oflags /\ "flush" # "fill" IN
           /\ f.done <=> now
           /\ now => f.out = <<>> /\ f.c.oflags = e.oflags
           /\ ~now => /\ f.c.oflags = e.oflags \cup {"flushing"}
                      /\ f.out = IF Flushing(e) THEN <<>>
                                 ELSE <<Item(e.route, Control(k), IF "flush" = "fill" THEN "empty" ELSE "flush", 0)>>
    BY <2>2, <2>3, FlushedFacts DEF f
  <2>5. /\ g \in CodecType(k) /\ g.mode = "running" /\ g.prepared = c.prepared /\ g.in = c.in
        /\ g.iflags = c.iflags /\ g.out = c.out /\ g.route = RouteOf(k)
        /\ g.state = (c.state \ {"schedule"}) \ {"output_setup"} /\ g.tree = 0
    BY <1>2, <1>9, <2>1, <2>2, <2>3, <2>4 DEF SameMode, SameTask, SameIn, SameOut
  <2>6. /\ over <=> "idle" \in c.oflags
        /\ over => g.oflags = c.oflags
        /\ ~over => /\ g.oflags = c.oflags \cup {"flushing"}
                    /\ fout = IF Flushing(c) THEN <<>> ELSE <<Item(RouteOf(k), Control(k), "flush", 0)>>
    BY <2>3, <2>4 DEF Flushing
  <2>7. /\ ~IsScheduled(g) /\ ~Initial(c) /\ ~Initial(g) /\ (Completed(g) <=> Completed(c)) /\ OnePhase(g)
        /\ "eos_seq_done" \notin g.state /\ (g.prepared <=> ~Initial(g)) /\ (Purging(g) <=> Purging(c))
    <3>1. ~Initial(c) /\ "eos_seq_done" \notin c.state
      BY <1>5, <1>11 DEF TaskOk, OutputOk
    <3> QED BY <1>5, <2>5, <3>1 DEF IsScheduled, Initial, Completed, OnePhase, Purging, TaskOk
  <2> HIDE DEF g, over, fout
  <2>8. CASE over
    <3>1. Steps(k, T, l, q, u, out)
      BY <1>4, <1>11, <2>8
    <3>2. "idle" \in c.oflags /\ ~Flushing(c)
      BY <1>5, <2>6, <2>8 DEF OutputOk
    <3>3. /\ u \in CodecType(k) /\ SameMode(g, u) /\ SameIn(g, u) /\ SameTask(g, u)
          /\ u.out = <<>> /\ u.route = None /\ u.oflags = {"idle"}
      BY <2>5, UnroutedFields
    <3> HIDE DEF u
    <3>4. ~Routed(u) /\ ~Flushing(u) /\ ~Unrouting(u) /\ u.mode = "running" /\ u.in = c.in /\ u.iflags = c.iflags
      BY <2>5, <3>3 DEF Routed, Flushing, Unrouting, SameMode, SameIn
    <3>5. /\ ~IsScheduled(u) /\ ~Initial(u) /\ (Completed(u) <=> Completed(c)) /\ OnePhase(u)
          /\ "eos_seq_done" \notin u.state /\ (u.prepared <=> ~Initial(u)) /\ (Purging(u) <=> Purging(c)) /\ u.tree = 0
      BY <2>5, <2>7, <3>3, <3>4 DEF SameTask, SameMode, IsScheduled, Initial, Completed, OnePhase, Purging
    <3>6. CompOk(k, u)
      <4>1. TaskOk(k, u)
        BY <1>5, <3>2, <3>3, <3>4, <3>5 DEF TaskOk
      <4>2. InputOk(u)
        BY <1>2, <1>5, <3>2, <3>4, <3>5 DEF InputOk
      <4>3. OutputOk(k, u)
        BY <3>3, <3>4, <3>5, EmptyItems DEF OutputOk
      <4> QED BY <4>1, <4>2, <4>3 DEF CompOk
    <3>7. \A y \in Items(out), z \in Items(u.in) : IsControl(y) => ~Of(z, y.msg.of)
      BY <1>3
    <3>8. InOk(k, T, u)
      BY <3>4, InputKept
    <3>9. PortDone(k, T, out)
      BY <1>7, <3>2 DEF PortDone
    <3>10. ModeOk(k, l, q, u)
      BY <1>2, <3>4 DEF ModeOk
    <3>11. CallOk(k, T, u, out)
      BY <1>3, <3>4 DEF CallOk, SavedIn
    <3>12. ConnOk(k, u, out)
      BY <3>4 DEF ConnOk
    <3>13. StartOk(k, T, u, out)
      BY <1>3, <1>8, <2>7, <3>5, NoStart
    <3>14. AloneOk(k, l, u, out)
      BY <3>5 DEF AloneOk
    <3>15. ~PortKept(k, u)
      BY <3>4 DEF PortKept
    <3>16. IF u.mode = "gone" THEN u = Destroyed ELSE CompOk(k, u)
      BY <3>4, <3>6
    <3> HIDE DEF T, l, q
    <3> QED BY <1>3, <3>1, <3>3, <3>7, <3>8, <3>9, <3>10, <3>11, <3>12, <3>13, <3>14, <3>15, <3>16, PlainStep
  <2>9. CASE ~over
    <3>1. Steps(k, T, l, q, h, fout)
      BY <1>4, <1>11, <2>9
    <3>2. "idle" \notin c.oflags /\ g.oflags = c.oflags \cup {"flushing"}
          /\ fout = IF Flushing(c) THEN <<>> ELSE <<Item(RouteOf(k), Control(k), "flush", 0)>>
      BY <2>6, <2>9
    <3>3. /\ h \in CodecType(k) /\ SameMode(g, h) /\ SameTask(g, h) /\ SameIn(g, h)
          /\ h.out = g.out /\ h.route = g.route /\ h.oflags = g.oflags \cup {"unrouting"}
      BY <2>5 DEF CodecType, SameMode, SameTask, SameIn, Flags
    <3> HIDE DEF h
    <3>4. /\ h.mode = "running" /\ h.in = c.in /\ h.iflags = c.iflags /\ h.out = c.out /\ h.route = RouteOf(k)
          /\ h.oflags = c.oflags \cup {"flushing", "unrouting"} /\ h.tree = 0
      <4>1. h.oflags = (c.oflags \cup {"flushing"}) \cup {"unrouting"}
        BY <3>2, <3>3
      <4> QED BY <2>5, <3>3, <4>1 DEF SameMode, SameTask, SameIn
    <3>5. Routed(h) /\ Flushing(h) /\ Unrouting(h) /\ "idle" \notin h.oflags
      BY <1>11, <3>2, <3>4 DEF Routed, Flushing, Unrouting
    <3>6. /\ ~IsScheduled(h) /\ ~Initial(h) /\ (Completed(h) <=> Completed(c)) /\ OnePhase(h)
          /\ "eos_seq_done" \notin h.state /\ (h.prepared <=> ~Initial(h)) /\ (Purging(h) <=> Purging(c))
      BY <2>7, <3>3, <3>4, <2>5 DEF SameTask, SameMode, IsScheduled, Initial, Completed, OnePhase, Purging
    <3>7. CompOk(k, h)
      <4>1. TaskOk(k, h)
        BY <3>4, <3>5, <3>6 DEF TaskOk
      <4>2. InputOk(h)
        BY <1>2, <1>5, <3>4, <3>5, <3>6 DEF InputOk
      <4>3. OutputOk(k, h)
        BY <1>5, <1>11, <2>7, <3>4, <3>5, <3>6 DEF OutputOk
      <4> QED BY <4>1, <4>2, <4>3 DEF CompOk
    <3>8. /\ fout \in Seq(OutType) /\ Ordered(fout)
          /\ \A y \in Items(fout) : /\ IsSent(k, h, y) /\ y.msg = Control(k) /\ y.op = "flush" /\ y.to # App
                                    /\ ~Flushing(c)
          /\ \A m : ~ToApp(fout, m)
      <4> DEFINE s == IF Flushing(codec[k]) THEN <<>> ELSE <<Item(RouteOf(k), Control(k), "flush", 0)>>
      <4>1. /\ s \in Seq(OutType) /\ Ordered(s)
            /\ \A y \in Items(s) : /\ IsSent(k, h, y) /\ y.msg = Control(k) /\ y.op = "flush" /\ y.to # App
                                   /\ ~Flushing(codec[k])
            /\ \A m : ~ToApp(s, m)
        BY <1>2, <1>11, <3>2, <3>4, <3>5, FlushSent
      <4>2. fout = s
        BY <3>2
      <4> HIDE DEF s
      <4> QED BY <4>1, <4>2
    <3>9. \A y \in Items(fout) : Down(k, T, h, y)
      BY <3>8 DEF Down
    <3>10. \A y \in Items(fout), z \in Items(h.in) : IsControl(y) => ~Of(z, y.msg.of)
      <4> SUFFICES ASSUME NEW y \in Items(fout), NEW z \in Items(c.in) PROVE ~Of(z, y.msg.of)
        BY <3>4
      <4>1. y.msg.of = k
        BY <3>8, MsgFacts
      <4> QED BY <1>2, <4>1, InputIsOthers
    <3>11. InOk(k, T, h)
      BY <3>4, InputKept
    <3>12. PortKept(k, h)
      BY <1>11, <3>4, <3>5 DEF PortKept, Flushing
    <3>13. ModeOk(k, l, q, h)
      BY <1>2, <1>5, <1>11, <3>4 DEF ModeOk
    <3>14. CallOk(k, T, h, fout)
      BY <1>3, <3>4, <3>5, <3>8 DEF CallOk, SavedIn
    <3>15. ConnOk(k, h, fout)
      BY <1>11, <3>4, <3>8 DEF ConnOk
    <3>16. StartOk(k, T, h, fout)
      BY <1>3, <2>7, <3>6, <3>8, NoStart
    <3>17. AloneOk(k, l, h, fout)
      BY <3>6 DEF AloneOk
    <3>18. FlushStepOk(k, T, h, fout)
      <4>1. FlushAbroad(k) => FlushOk(h)
        <5>1. FlushAbroad(k) => FlushOk(c)
          BY DEF ChainInv, FlushInv
        <5> QED BY <3>4, <3>5, <3>6, <5>1 DEF FlushOk, Waiting
      <4>2. (\E y \in Items(fout) : IsFlush(y, k)) => FlushOk(h)
        <5> SUFFICES ASSUME ~Flushing(c) PROVE FlushOk(h)
          BY <3>8
        <5>1. ~(Completed(c) /\ c.in # <<>>)
          BY <1>5 DEF TaskOk
        <5> QED BY <3>4, <3>5, <3>6, <5>1 DEF FlushOk, Waiting
      <4> QED BY <1>3, <4>1, <4>2 DEF FlushStepOk
    <3>19. Items(l) = {}
      BY <1>3, EmptyItems
    <3>20. h.mode # "gone"
      BY <3>4
    <3> HIDE DEF T, l, q
    <3> QED BY <3>1, <3>3, <3>7, <3>8, <3>9, <3>10, <3>11, <3>12, <3>13, <3>14, <3>15, <3>16, <3>17, <3>18,
               <3>19, <3>20, SendStep
  <2> QED BY <2>8, <2>9
<1> QED BY <1>10, <1>11

-----------------------------------------------------------------------------
(* A flush from above.                                                     *)

\* A flush is from the component above, which waits for it.
LEMMA FlushGiven ==
    ASSUME ChainInv, NEW k \in Codecs, NEW x, Serves(k, x), codec[k].mode = "running", x.op = "flush",
           x.msg # Control(k)
    PROVE  /\ x \in ItemType /\ FromPool(x.msg) /\ IsControl(x) /\ ~Of(x, k) /\ x.len = 0
           /\ x.msg.of \in Codecs /\ x.msg.of # k /\ IsLead(x)
           /\ ~HasMsg({x}, Cmd) /\ ~HasMsg({x}, Msg(k, "start"))
           /\ ~Purging(codec[k]) /\ \A y \in Items(codec[k].in) : ~IsControl(y)
           /\ k \in ready /\ ~Initial(codec[k])
           /\ ~(IsScheduled(codec[k]) /\ Completed(codec[k]))
           /\ LET l == LocalLeft(WorkerOf[k]) IN
              /\ \A y \in Items(l) : ~IsLead(y)
              /\ \A y \in Items(l) : IsBack(y) => Depth[y.to] < Depth[k]
           /\ LET s == <<Answered(x, x.len)>> IN
              /\ s \in Seq(OutType) /\ Plain(k, {x}, s) /\ Ordered(s)
              /\ \A y \in Items(s) : y.msg = x.msg
              /\ \A m : ~ToApp(s, m)
<1> DEFINE j == x.msg.of
           w == WorkerOf[k]
           l == LocalLeft(w)
<1>0. ~Gone(k) /\ w \in Workers
  BY DEF Serves, Workers
<1>1. /\ x \in ItemType /\ x.to = k /\ IsAbroad(x)
      /\ Of(x, k) => BackKind(x)
      /\ FromPool(x.msg) /\ ~Of(x, k) =>
           /\ IsForth(x) /\ ForthKind(x) /\ j \in Codecs /\ j # k
           /\ Routed(codec[j]) /\ RouteOf(j) = k /\ <<j, k>> \in Edges
      /\ ~FromPool(x.msg) => AppKind(x)
  BY ServedKinds
<1>2. FromPool(x.msg)
  BY <1>1 DEF AppKind
<1>3. IsControl(x)
  BY <1>1, <1>2, FlushFlags
<1>4. ~Of(x, k)
  <2> SUFFICES ASSUME Of(x, k) PROVE FALSE
    OBVIOUS
  <2>1. x.msg = Msg(k, "control")
    BY <1>1, <1>3, ItemFacts, MsgFacts DEF Of, IsControl
  <2> QED BY <2>1, MsgFacts
<1>5. x.len = 0 /\ j \in Codecs /\ j # k /\ Routed(codec[j]) /\ RouteOf(j) = k /\ IsForth(x) /\ ForthKind(x)
  BY <1>1, <1>2, <1>3, <1>4, NamesAssumption DEF ForthKind, IsControl
<1>6. IsLead(x)
  BY <1>5 DEF IsLead, IsForth
<1>7. ~HasMsg({x}, Cmd) /\ ~HasMsg({x}, Msg(k, "start"))
  BY <1>2, AppMsgFacts, MsgFacts DEF HasMsg
<1>8. ~Purging(codec[k]) /\ \A y \in Items(codec[k].in) : ~IsControl(y)
  BY <1>2, <1>4, NothingAfterFlush
<1>9. k \in ready /\ ~Initial(codec[k])
  <2>1. FlushAbroad(j)
    BY <1>1, <1>2 DEF FlushAbroad, IsFlush, Of
  <2>2. PICK S \in SUBSET Codecs : InScope(S)
    BY DEF ChainInv, ScopeInv
  <2>3. k \in S
    BY <1>5, <2>1, <2>2 DEF InScope
  <2>4. k \in ready
    BY <1>0, <2>2, <2>3 DEF InScope, Initialised
  <2> QED BY <1>0, <2>4, Mine
<1>10. ~(IsScheduled(codec[k]) /\ Completed(codec[k]))
  BY ServesOne
<1>11. /\ \A y \in Items(l) : ~IsLead(y)
       /\ \A y \in Items(l) : IsBack(y) => Depth[y.to] < Depth[k]
  <2>1. Takes(k, {x}, l, QueueLeft(w)) /\ (l = <<>> \/ x \in Items(local[w]))
    BY ServesOne
  <2> HIDE DEF l
  <2>2. CASE l = <<>>
    BY <2>2, EmptyItems
  <2>3. CASE x \in Items(local[w])
    <3>1. Items(l) \subseteq Items(local[w])
      BY <2>1 DEF Takes
    <3>2. ASSUME NEW y \in Items(l)
          PROVE  (IsLead(y) => x.msg.of = y.msg.of) /\ (IsBack(y) => Depth[y.to] < Depth[RouteOf(j)])
      BY <1>0, <1>6, <2>3, <3>1 DEF ChainInv, LeadInv
    <3>3. ASSUME NEW y \in Items(l), IsLead(y) PROVE FALSE
      <4>1. LocalPlace(w, y) /\ y.msg.of = j
        BY <1>0, <3>1, <3>2, <3>3 DEF ChainInv, PoolInv, PlaceInv
      <4>2. Of(y, x.msg.of)
        BY <4>1 DEF LocalPlace, Of
      <4>3. y.to # k
        BY <1>3, <2>1, <4>2 DEF Takes
      <4>4. CASE ~IsBack(y)
        BY <1>5, <4>1, <4>3, <4>4 DEF LocalPlace
      <4>5. CASE IsBack(y)
        BY <1>5, <3>3, <4>1, <4>5 DEF LocalPlace, BackKind, IsLead
      <4> QED BY <4>4, <4>5
    <3> QED BY <1>5, <3>2, <3>3
  <2> QED BY <2>1, <2>2, <2>3
<1> DEFINE y == Answered(x, 0)
<1>12. y \in OutType /\ y.msg = x.msg /\ (AppReply(k, y) \/ Reply(k, {x}, y)) /\ y.to # App
  <2>1. x \in {x}
    OBVIOUS
  <2> QED BY <1>2, <1>4, <2>1, GivenAnswered
<1>13. y = Answered(x, x.len)
  BY <1>5
<1> HIDE DEF y
<1> DEFINE s == <<y>>
<1>14. s \in Seq(OutType) /\ Items(s) = {y} /\ \A a, b : ~Ahead(s, a, b)
  BY <1>12, OneItem
<1>15. s = <<Answered(x, x.len)>>
  BY <1>13
<1> HIDE DEF s
<1>16. Plain(k, {x}, s) /\ Ordered(s) /\ (\A z \in Items(s) : z.msg = x.msg) /\ \A m : ~ToApp(s, m)
  BY <1>12, <1>14 DEF Plain, Ordered, ToApp
<1> QED BY <1>1, <1>2, <1>3, <1>4, <1>5, <1>6, <1>7, <1>8, <1>9, <1>10, <1>11, <1>14, <1>15, <1>16

\* The buffers of the application go back when nothing is below.
LEMMA UnroutedFlush ==
    ASSUME NEW k \in Codecs, NEW T, NEW c \in CodecType(k), ~Routed(c), NEW op,
           \A m \in Items(c.out) : m = Msg(k, "out") /\ k \in Sinks
    PROVE  LET f == Flushed(k, c, op) IN
           /\ f.c \in CodecType(k) /\ SameMode(c, f.c) /\ SameTask(c, f.c) /\ SameIn(c, f.c)
           /\ f.c.out = <<>> /\ f.c.route = c.route /\ f.c.oflags = c.oflags
           /\ f.done
           /\ f.out \in Seq(OutType) /\ Plain(k, T, f.out) /\ Ordered(f.out)
           /\ \A y \in Items(f.out) : y.msg = Msg(k, "out") /\ ~IsControl(y) /\ ~FromPool(y.msg)
<1> DEFINE t == c.out
           s == [i \in DOMAIN t |-> Item(App, t[i], "fill", 0)]
           e == [c EXCEPT !.out = <<>>]
           nil == <<>>
<1>1. Flushed(k, c, op) = [c |-> e, done |-> TRUE, out |-> s]
  BY DEF Flushed, Routed
<1>2. nil \in Seq(AllMsgs)
  OBVIOUS
<1>3. e = PutOut(c, nil)
  BY DEF PutOut
<1> HIDE DEF nil, e
<1>4. /\ e \in CodecType(k) /\ SameMode(c, e) /\ SameTask(c, e) /\ SameIn(c, e)
      /\ e.out = nil /\ e.route = c.route /\ e.oflags = c.oflags
  BY <1>2, <1>3, PutOutFields
<1>5. t \in Seq(AllMsgs) /\ \A m \in Items(t) : m = Msg(k, "out") /\ k \in Sinks
  BY DEF CodecType
<1> HIDE DEF t
<1>6. ASSUME NEW i \in DOMAIN t
      PROVE  /\ s[i] \in OutType /\ s[i].to = App /\ s[i].msg = Msg(k, "out")
             /\ AppReply(k, s[i]) /\ ~FromPool(s[i].msg) /\ ~IsControl(s[i])
  <2>1. t[i] \in Items(t)
    BY DEF Items
  <2>2. t[i] = Msg(k, "out") /\ k \in Sinks
    BY <1>5, <2>1
  <2> DEFINE m == t[i]
             y == Item(App, m, "fill", 0)
  <2>3. m \in AppMsgs /\ m \in AllMsgs /\ m.of = k /\ ~FromPool(m)
    BY <2>2, AppMsgFacts, MsgFacts
  <2>4. y.to = App /\ y.msg = m
    BY ItemFacts
  <2>5. y \in OutType
    BY <2>3, ItemFacts DEF Ops, Lens
  <2>6. s[i] = y
    OBVIOUS
  <2> HIDE DEF y, m, s
  <2>7. ~IsControl(y)
    BY <2>3, <2>4, AppMsgFacts
  <2> QED BY <2>2, <2>3, <2>4, <2>5, <2>6, <2>7 DEF AppReply, m
<1>7. s \in Seq(OutType)
  BY <1>5, <1>6
<1>8. DOMAIN s = DOMAIN t
  OBVIOUS
<1> HIDE DEF s
<1>9. \A y \in Items(s) : AppReply(k, y) /\ y.msg = Msg(k, "out") /\ ~IsControl(y) /\ ~FromPool(y.msg)
  BY <1>6, <1>8 DEF Items
<1>10. Plain(k, T, s)
  BY <1>9 DEF Plain
<1>11. Ordered(s)
  <2>1. \A a, b : Ahead(s, a, b) => a \in Items(s)
    BY DEF Ahead, Items
  <2> QED BY <1>9, <2>1 DEF Ordered
<1> QED BY <1>1, <1>4, <1>7, <1>9, <1>10, <1>11 DEF nil

\* Another phase.
PutState(c, S) == [c EXCEPT !.state = S]

\* What that leaves alone.
LEMMA PutStateFields ==
    ASSUME NEW k \in Codecs, NEW c \in CodecType(k), NEW S \in SUBSET Flags.state
    PROVE  LET d == PutState(c, S) IN
           /\ d \in CodecType(k) /\ SameMode(c, d) /\ SameIn(c, d) /\ SameOut(c, d)
           /\ d.state = S /\ d.tree = c.tree
BY DEF CodecType, SameMode, SameIn, SameOut, PutState

\* xa_codec_flush at the input port
LEMMA FlushInputStep == ASSUME ChainInv, NEW k \in Codecs, FlushInput(k) PROVE ChainInv'
<1> DEFINE c == codec[k]
           l == LocalLeft(WorkerOf[k])
           q == QueueLeft(WorkerOf[k])
           a == Cancelled(c)
           p == Purged(a).c
           pout == Purged(a).out
           S == p.state \ {"input_setup"}
           e == PutState(p, S)
           g == Flushed(k, e, "flush")
           f == g.c
           fout == g.out
           done == g.done
           over == Toggled(f.state, {"execution", "completed"})
                   \cup (IF OutReady(e) THEN {"eos_seq_done"} ELSE {})
<1>1. PICK x \in Gets(k, "flush") :
        /\ x.msg # Control(k)
        /\ IF done
           THEN Becomes(k, IF Routed(f) THEN f ELSE PutState(f, over), pout \o fout \o <<Answered(x, x.len)>>)
           ELSE Becomes(k, Put(f, Append(f.in, x), Toggled(f.iflags, {"purging"})), pout \o fout)
  BY DEF FlushInput, PutState, Put
<1> DEFINE T == {x}
           ans == <<Answered(x, x.len)>>
           r == pout \o fout
           out == r \o ans
           d1 == PutState(f, over)
           d3 == Put(f, Append(f.in, x), Toggled(f.iflags, {"purging"}))
<1>2. Serves(k, x) /\ c.mode = "running" /\ x.op = "flush" /\ ~Gone(k)
  BY GetsServes DEF Serves
<1>3. /\ x \in ItemType /\ FromPool(x.msg) /\ IsControl(x) /\ ~Of(x, k)
      /\ x.msg.of \in Codecs /\ x.msg.of # k
      /\ ~HasMsg(T, Cmd) /\ ~HasMsg(T, Msg(k, "start"))
      /\ ~Purging(c) /\ \A y \in Items(c.in) : ~IsControl(y)
      /\ ~Initial(c)
      /\ ~(IsScheduled(c) /\ Completed(c))
      /\ \A y \in Items(l) : ~IsLead(y)
      /\ \A y \in Items(l) : IsBack(y) => Depth[y.to] < Depth[k]
      /\ ans \in Seq(OutType) /\ Plain(k, T, ans) /\ Ordered(ans)
      /\ \A y \in Items(ans) : y.msg = x.msg
      /\ \A m : ~ToApp(ans, m)
  BY <1>1, <1>2, FlushGiven
<1>4. IF done THEN Steps(k, T, l, q, IF Routed(f) THEN f ELSE d1, out)
      ELSE Steps(k, T, l, q, d3, r)
  BY <1>1, <1>2, ServesSteps
<1> HIDE DEF ans
<1>5. /\ c \in CodecType(k) /\ TaskOk(k, c) /\ InputOk(c) /\ OutputOk(k, c)
      /\ c.out \in Seq(AllMsgs) /\ c.oflags \subseteq Flags.out /\ c.route = RouteOf(k)
      /\ (Routed(c) => <<k, RouteOf(k)>> \in Edges /\ k \notin Sinks)
  BY <1>2, Mine DEF CompOk
<1>6. /\ a \in CodecType(k) /\ SameMode(c, a) /\ SameIn(c, a) /\ SameOut(c, a)
      /\ a.state = c.state \ {"schedule"}
      /\ a.tree = IF "schedule" \in c.state THEN 0 ELSE c.tree
  BY <1>5, CancelledFields
<1> HIDE DEF a
<1>60. /\ Items(a.in) \subseteq Items(codec[k].in) /\ \A y, z : Ahead(a.in, y, z) => Ahead(codec[k].in, y, z)
       /\ a.in = c.in
  BY <1>6 DEF SameIn
<1>7. /\ p \in CodecType(k) /\ SameMode(a, p) /\ SameTask(a, p) /\ SameOut(a, p)
      /\ p.in = <<>> /\ p.iflags = (a.iflags \cap {"paused"}) \cup {"enabled"}
      /\ pout \in Seq(OutType) /\ Plain(k, T, pout) /\ Ordered(pout)
      /\ \A y \in Items(pout) : \E z \in Items(c.in) : y.msg = z.msg
      /\ \A y \in Items(pout) : ~Of(y, k)
      /\ \A m : ToApp(pout, m) => m \in {Msg(k, "in"), Msg(k, "eos")}
  <2>1. LET u == Purged(a) IN
        /\ u.c \in CodecType(k) /\ SameMode(a, u.c) /\ SameTask(a, u.c) /\ SameOut(a, u.c) /\ u.c.ptr = a.ptr
        /\ u.c.in = <<>> /\ u.c.iflags = (a.iflags \cap {"paused"}) \cup {"enabled"}
        /\ u.out \in Seq(OutType) /\ Plain(k, T, u.out) /\ Ordered(u.out)
        /\ \A y \in Items(u.out) : y.to = App => y.msg \in {Msg(k, "in"), Msg(k, "eos")}
        /\ \A y \in Items(u.out) : \E z \in Items(a.in) : y.msg = z.msg
        /\ \A y \in Items(u.out) : ~Of(y, k)
        /\ \A m : ToApp(u.out, m) => m \in {Msg(k, "in"), Msg(k, "eos")}
    BY <1>6, <1>60, PurgedFacts
  <2> QED BY <1>60, <2>1
<1> HIDE DEF p, pout
<1>8. S \in SUBSET Flags.state
  BY <1>7 DEF CodecType
<1> HIDE DEF S
<1>9. /\ e \in CodecType(k) /\ SameMode(p, e) /\ SameIn(p, e) /\ SameOut(p, e) /\ e.state = S /\ e.tree = p.tree
  BY <1>7, <1>8, PutStateFields
<1> HIDE DEF e
<1>10. /\ e.mode = "running" /\ e.prepared = c.prepared /\ e.in = <<>>
       /\ e.iflags = (c.iflags \cap {"paused"}) \cup {"enabled"}
       /\ e.out = c.out /\ e.oflags = c.oflags /\ e.route = RouteOf(k)
       /\ e.state = (c.state \ {"schedule"}) \ {"input_setup"} /\ e.tree = 0
  <2>1. e.tree = 0
    BY <1>5, <1>6, <1>7, <1>9 DEF SameTask, TaskOk, IsScheduled
  <2> QED BY <1>2, <1>5, <1>6, <1>7, <1>9, <2>1 DEF SameMode, SameTask, SameIn, SameOut, S
<1>11. /\ ~IsScheduled(e) /\ ~Initial(e) /\ (Completed(e) <=> Completed(c)) /\ OnePhase(e)
       /\ ("eos_seq_done" \in e.state <=> "eos_seq_done" \in c.state) /\ (e.prepared <=> ~Initial(e)) /\ ~Purging(e)
       /\ "enabled" \in e.iflags
  <2>1. /\ ~IsScheduled(e) /\ ~Initial(e) /\ (Completed(e) <=> Completed(c))
        /\ ("eos_seq_done" \in e.state <=> "eos_seq_done" \in c.state)
        /\ ("execution" \in e.state <=> "execution" \in c.state)
    BY <1>3, <1>10 DEF IsScheduled, Initial, Completed
  <2>2. ~Purging(e) /\ "enabled" \in e.iflags
    BY <1>10 DEF Purging
  <2>3. OnePhase(e) /\ (e.prepared <=> ~Initial(e))
    BY <1>3, <1>5, <1>10, <2>1 DEF OnePhase, TaskOk
  <2> QED BY <2>1, <2>2, <2>3
<1>12. \A y \in Items(pout) : ~IsControl(y)
  BY <1>3, <1>7 DEF IsControl
<1>13. ~ToApp(pout, Cmd) /\ ~ToApp(pout, Msg(k, "start"))
  BY <1>7, AppMsgFacts
<1>14. CASE ~Routed(c)
  <2>1. /\ f \in CodecType(k) /\ SameMode(e, f) /\ SameTask(e, f) /\ SameIn(e, f)
        /\ f.out = <<>> /\ f.route = e.route /\ f.oflags = e.oflags
        /\ done
        /\ fout \in Seq(OutType) /\ Plain(k, T, fout) /\ Ordered(fout)
        /\ \A y \in Items(fout) : y.msg = Msg(k, "out") /\ ~IsControl(y) /\ ~FromPool(y.msg)
    <3>1. ~Routed(e) /\ \A m \in Items(e.out) : m = Msg(k, "out") /\ k \in Sinks
      BY <1>3, <1>5, <1>10, <1>14 DEF Routed, OutputOk
    <3> QED BY <1>9, <3>1, UnroutedFlush
  <2> HIDE DEF f, fout, done
  <2>2. ~Routed(f)
    BY <1>10, <1>14, <2>1 DEF Routed
  <2>3. Steps(k, T, l, q, d1, out)
    BY <1>4, <2>1, <2>2
  <2>4. over \in SUBSET Flags.state
    BY <2>1 DEF CodecType, Toggled, Flags
  <2>5. /\ f.state = e.state /\ (Completed(c) <=> "execution" \notin c.state)
        /\ ("execution" \in e.state <=> "execution" \in c.state)
    BY <1>3, <1>5, <1>10, <2>1 DEF SameTask, TaskOk, OnePhase
  <2>6. /\ "schedule" \notin over /\ "runtime_init" \notin over
        /\ ("execution" \in over <=> "completed" \in c.state) /\ ("completed" \in over <=> "execution" \in c.state)
        /\ ("eos_seq_done" \in over => "eos_seq_done" \in c.state \/ OutReady(e))
    <3>1. /\ "schedule" \notin e.state /\ "runtime_init" \notin e.state
          /\ ("completed" \in e.state <=> "completed" \in c.state)
          /\ ("eos_seq_done" \in e.state <=> "eos_seq_done" \in c.state)
      BY <1>11 DEF IsScheduled, Initial, Completed
    <3>2. "execution" \in over <=> "execution" \notin e.state
      BY <2>5 DEF Toggled
    <3>3. "completed" \in over <=> "completed" \notin e.state
      BY <2>5 DEF Toggled
    <3> QED BY <2>5, <3>1, <3>2, <3>3 DEF Toggled, Completed
  <2> HIDE DEF over
  <2>7. /\ d1 \in CodecType(k) /\ SameMode(f, d1) /\ SameIn(f, d1) /\ SameOut(f, d1)
        /\ d1.state = over /\ d1.tree = f.tree
    BY <2>1, <2>4, PutStateFields
  <2> HIDE DEF d1
  <2>8. /\ d1.mode = "running" /\ d1.prepared = c.prepared /\ d1.in = <<>> /\ d1.iflags = e.iflags
        /\ d1.out = <<>> /\ d1.oflags = c.oflags /\ d1.tree = 0
    BY <1>10, <2>1, <2>7 DEF SameMode, SameTask, SameIn, SameOut
  <2>9. /\ ~IsScheduled(d1) /\ ~Initial(d1) /\ OnePhase(d1) /\ (d1.prepared <=> ~Initial(d1)) /\ ~Routed(d1)
        /\ ~Purging(d1) /\ "enabled" \in d1.iflags
        /\ ("eos_seq_done" \in d1.state => k \in Sinks)
    <3>1. ~IsScheduled(d1) /\ ~Initial(d1)
      BY <2>6, <2>7 DEF IsScheduled, Initial
    <3>2. OnePhase(d1)
      BY <2>5, <2>6, <2>7, <3>1 DEF OnePhase, Completed
    <3>3. (d1.prepared <=> ~Initial(d1)) /\ ~Routed(d1) /\ ~Purging(d1) /\ "enabled" \in d1.iflags
      BY <1>10, <1>11, <1>14, <2>8, <3>1 DEF Initial, Routed, Purging
    <3>4. "eos_seq_done" \in d1.state => k \in Sinks
      <4> SUFFICES ASSUME OutReady(e) PROVE k \in Sinks
        BY <1>5, <2>6, <2>7 DEF TaskOk
      <4> DEFINE s == c.out
      <4>1. s # <<>> /\ s \in Seq(AllMsgs) /\ \A m \in Items(s) : k \in Sinks
        BY <1>3, <1>5, <1>10, <1>14 DEF OutReady, OutputOk
      <4> HIDE DEF s
      <4>2. Items(s) # {}
        BY <4>1, SeqFacts
      <4> QED BY <4>1, <4>2
    <3> QED BY <3>1, <3>2, <3>3, <3>4
  <2>10. CompOk(k, d1)
    <3>1. TaskOk(k, d1)
      BY <2>8, <2>9 DEF TaskOk
    <3>2. InputOk(d1)
      BY <2>8, <2>9, EmptyItems DEF InputOk
    <3>3. OutputOk(k, d1)
      BY <1>5, <1>14, <2>8, <2>9, EmptyItems DEF OutputOk, Flushing, Unrouting, Routed
    <3> QED BY <3>1, <3>2, <3>3 DEF CompOk
  <2>11. /\ r \in Seq(OutType) /\ Plain(k, T, r) /\ Ordered(r) /\ Items(r) = Items(pout) \cup Items(fout)
         /\ \A m : ToApp(r, m) <=> (ToApp(pout, m) \/ ToApp(fout, m))
    BY <1>7, <1>12, <2>1, PlainJoined
  <2> HIDE DEF r
  <2>12. \A y \in Items(r) : ~IsControl(y)
    BY <1>12, <2>1, <2>11
  <2>13. /\ out \in Seq(OutType) /\ Plain(k, T, out) /\ Ordered(out)
         /\ \A m : ToApp(out, m) <=> (ToApp(r, m) \/ ToApp(ans, m))
    BY <1>3, <2>11, <2>12, PlainJoined
  <2> HIDE DEF out
  <2>14. ~ToApp(out, Cmd) /\ ~ToApp(out, Msg(k, "start"))
    <3>1. \A m : ToApp(fout, m) => m = Msg(k, "out")
      BY <2>1 DEF ToApp
    <3> QED BY <1>3, <1>13, <2>11, <2>13, <3>1, AppMsgFacts
  <2>15. \A y \in Items(out), z \in Items(d1.in) : IsControl(y) => ~Of(z, y.msg.of)
    BY <2>8, EmptyItems
  <2>16. InOk(k, T, d1)
    BY <2>8, EmptyItems DEF InOk
  <2>17. PortDone(k, T, out)
    <3>1. \A y \in Items(out) : ~Of(y, k)
      BY <2>13, PlainFacts
    <3> QED BY <1>14, <3>1 DEF PortDone
  <2>18. ModeOk(k, l, q, d1)
    BY <1>2, <2>8, <2>9 DEF ModeOk
  <2>19. CallOk(k, T, d1, out)
    BY <1>2, <1>3, <2>8, <2>14 DEF CallOk, Unrouting
  <2>20. ConnOk(k, d1, out)
    BY <2>9 DEF ConnOk
  <2>21. StartOk(k, T, d1, out)
    BY <1>3, <2>9, <2>14, NoStart
  <2>22. AloneOk(k, l, d1, out)
    BY <2>9 DEF AloneOk
  <2>23. ~PortKept(k, d1)
    BY <2>9 DEF PortKept
  <2>24. IF d1.mode = "gone" THEN d1 = Destroyed ELSE CompOk(k, d1)
    BY <2>8, <2>10
  <2> HIDE DEF T, l, q
  <2> QED BY <2>3, <2>7, <2>13, <2>15, <2>16, <2>17, <2>18, <2>19, <2>20, <2>21, <2>22, <2>23, <2>24, PlainStep
<1>15. CASE Routed(c)
  <2>1. Routed(e) /\ "eos_seq_done" \notin e.state
    BY <1>5, <1>10, <1>11, <1>15 DEF Routed, TaskOk
  <2> HIDE DEF g
  <2>2. /\ g.c \in CodecType(k) /\ SameMode(e, g.c) /\ SameTask(e, g.c) /\ SameIn(e, g.c)
        /\ g.c.out = e.out /\ g.c.route = e.route
        /\ LET now == "idle" \in e.oflags /\ "flush" # "fill" IN
           /\ g.done <=> now
           /\ now => g.out = <<>> /\ g.c.oflags = e.oflags
           /\ ~now => /\ g.c.oflags = e.oflags \cup {"flushing"}
                      /\ g.out = IF Flushing(e) THEN <<>>
                                 ELSE <<Item(e.route, Control(k), IF "flush" = "fill" THEN "empty" ELSE "flush", 0)>>
    BY <1>9, <2>1, FlushedFacts DEF g
  <2>3. /\ f \in CodecType(k) /\ f.mode = "running" /\ f.prepared = c.prepared /\ f.in = <<>>
        /\ f.iflags = e.iflags /\ f.out = c.out /\ f.route = RouteOf(k) /\ f.state = e.state /\ f.tree = 0
    BY <1>10, <2>2 DEF SameMode, SameTask, SameIn
  <2>4. /\ done <=> "idle" \in c.oflags
        /\ done => fout = <<>> /\ f.oflags = c.oflags
        /\ ~done => /\ f.oflags = c.oflags \cup {"flushing"}
                    /\ fout = IF Flushing(c) THEN <<>> ELSE <<Item(RouteOf(k), Control(k), "flush", 0)>>
    BY <1>10, <2>2 DEF Flushing
  <2>5. /\ ~IsScheduled(f) /\ ~Initial(f) /\ OnePhase(f) /\ (f.prepared <=> ~Initial(f)) /\ Routed(f)
        /\ ~Purging(f) /\ "eos_seq_done" \notin f.state /\ "enabled" \in f.iflags
        /\ (Unrouting(f) <=> Unrouting(c))
    <3>1. Routed(f) /\ (Unrouting(f) <=> Unrouting(c))
      BY <1>15, <2>4 DEF Routed, Unrouting
    <3> QED BY <1>10, <1>11, <2>1, <2>3, <3>1 DEF IsScheduled, Initial, OnePhase, Completed, Purging
  <2> HIDE DEF f, fout, done
  <2>6. CASE done
    <3>1. Steps(k, T, l, q, f, out)
      BY <1>4, <2>5, <2>6
    <3>2. "idle" \in c.oflags /\ ~Flushing(c) /\ f.oflags = c.oflags /\ fout = <<>>
      BY <1>5, <2>4, <2>6 DEF OutputOk
    <3>3. CompOk(k, f)
      <4>1. TaskOk(k, f)
        BY <2>3, <2>5 DEF TaskOk
      <4>2. InputOk(f)
        BY <2>3, <2>5, EmptyItems DEF InputOk
      <4>3. OutputOk(k, f)
        BY <1>3, <1>5, <1>15, <2>3, <2>5, <3>2 DEF OutputOk, Flushing, Unrouting
      <4> QED BY <4>1, <4>2, <4>3 DEF CompOk
    <3>4. r = pout
      BY <1>7, <3>2
    <3> HIDE DEF r
    <3>5. /\ out \in Seq(OutType) /\ Plain(k, T, out) /\ Ordered(out)
          /\ \A m : ToApp(out, m) <=> (ToApp(r, m) \/ ToApp(ans, m))
      BY <1>3, <1>7, <1>12, <3>4, PlainJoined
    <3> HIDE DEF out
    <3>6. ~ToApp(out, Cmd) /\ ~ToApp(out, Msg(k, "start"))
      BY <1>3, <1>13, <3>4, <3>5
    <3>7. \A y \in Items(out), z \in Items(f.in) : IsControl(y) => ~Of(z, y.msg.of)
      BY <2>3, EmptyItems
    <3>8. InOk(k, T, f)
      BY <2>3, EmptyItems DEF InOk
    <3>9. PortKept(k, f)
      BY <1>15, <2>3, <2>5, <3>2 DEF PortKept
    <3>10. ModeOk(k, l, q, f)
      BY <1>2, <1>5, <1>15, <2>3 DEF ModeOk
    <3>11. CallOk(k, T, f, out)
      BY <1>2, <1>3, <2>3, <2>5, <3>6 DEF CallOk
    <3>12. ConnOk(k, f, out)
      BY <1>15, <2>3, <3>6 DEF ConnOk
    <3>13. StartOk(k, T, f, out)
      BY <1>3, <2>5, <3>6, NoStart
    <3>14. AloneOk(k, l, f, out)
      BY <2>5 DEF AloneOk
    <3>15. FlushAbroad(k) => FALSE
      BY <3>2, FlushFlags
    <3>16. IF f.mode = "gone" THEN f = Destroyed ELSE CompOk(k, f)
      BY <2>3, <3>3
    <3> HIDE DEF T, l, q
    <3> QED BY <2>3, <3>1, <3>5, <3>7, <3>8, <3>9, <3>10, <3>11, <3>12, <3>13, <3>14, <3>15, <3>16, PlainStep
  <2>7. CASE ~done
    <3> DEFINE s == Append(f.in, x)
               F == Toggled(f.iflags, {"purging"})
    <3>1. Steps(k, T, l, q, d3, r)
      BY <1>4, <2>7
    <3>2. "idle" \notin c.oflags /\ f.oflags = c.oflags \cup {"flushing"}
          /\ fout = IF Flushing(c) THEN <<>> ELSE <<Item(RouteOf(k), Control(k), "flush", 0)>>
      BY <2>4, <2>7
    <3>3. s = <<x>> /\ s \in Seq(ItemType) /\ Items(s) = {x} /\ \A y, z : ~Ahead(s, y, z)
      <4>1. s = <<x>>
        BY <2>3
      <4> DEFINE t == <<x>>
      <4>2. t \in Seq(ItemType) /\ Items(t) = {x} /\ \A y, z : ~Ahead(t, y, z)
        BY <1>3, OneItem
      <4> HIDE DEF s, t
      <4>3. s = t
        BY <4>1 DEF t
      <4> QED BY <4>1, <4>2, <4>3
    <3>4. F \in SUBSET Flags.in /\ "purging" \in F /\ "enabled" \in F
      <4>1. f.iflags \subseteq Flags.in
        BY <2>3 DEF CodecType
      <4> QED BY <2>5, <4>1 DEF Toggled, Flags, Purging
    <3>5. d3 = Put(f, s, F)
      OBVIOUS
    <3> HIDE DEF s, F, d3
    <3>6. /\ d3 \in CodecType(k) /\ SameMode(f, d3) /\ SameTask(f, d3) /\ SameOut(f, d3)
          /\ d3.in = s /\ d3.iflags = F
      BY <2>3, <3>3, <3>4, <3>5, PutFields
    <3>7. /\ d3.mode = "running" /\ d3.out = c.out /\ d3.oflags = c.oflags \cup {"flushing"} /\ d3.route = RouteOf(k)
          /\ d3.tree = 0
      BY <2>3, <3>2, <3>6 DEF SameMode, SameTask, SameOut
    <3>8. Routed(d3) /\ Flushing(d3) /\ "idle" \notin d3.oflags /\ (Unrouting(d3) <=> Unrouting(c)) /\ Purging(d3)
      BY <1>15, <3>2, <3>4, <3>6, <3>7 DEF Routed, Flushing, Unrouting, Purging
    <3>9. /\ ~IsScheduled(d3) /\ ~Initial(d3) /\ OnePhase(d3) /\ (d3.prepared <=> ~Initial(d3))
          /\ "eos_seq_done" \notin d3.state
      BY <2>5, <3>6 DEF SameTask, SameMode, IsScheduled, Initial, OnePhase, Completed
    <3>10. CompOk(k, d3)
      <4>1. TaskOk(k, d3)
        BY <3>7, <3>8, <3>9 DEF TaskOk
      <4>2. InputOk(d3)
        BY <1>2, <3>3, <3>4, <3>6, <3>7, <3>8 DEF InputOk
      <4>3. OutputOk(k, d3)
        BY <1>3, <1>5, <1>15, <3>7, <3>8, <3>9 DEF OutputOk
      <4> QED BY <4>1, <4>2, <4>3 DEF CompOk
    <3>11. /\ fout \in Seq(OutType) /\ Ordered(fout)
           /\ \A y \in Items(fout) : /\ IsSent(k, d3, y) /\ y.msg = Control(k) /\ y.op = "flush" /\ y.to # App
                                     /\ ~Flushing(c)
           /\ \A m : ~ToApp(fout, m)
      <4> DEFINE u == IF Flushing(codec[k]) THEN <<>> ELSE <<Item(RouteOf(k), Control(k), "flush", 0)>>
      <4>1. /\ u \in Seq(OutType) /\ Ordered(u)
            /\ \A y \in Items(u) : /\ IsSent(k, d3, y) /\ y.msg = Control(k) /\ y.op = "flush" /\ y.to # App
                                   /\ ~Flushing(codec[k])
            /\ \A m : ~ToApp(u, m)
        BY <1>2, <1>15, <3>2, <3>7, <3>8, FlushSent
      <4>2. fout = u
        BY <3>2
      <4> HIDE DEF u
      <4> QED BY <4>1, <4>2
    <3>12. /\ r \in Seq(OutType) /\ Items(r) = Items(pout) \cup Items(fout) /\ Ordered(r)
           /\ \A m : ToApp(r, m) <=> (ToApp(pout, m) \/ ToApp(fout, m))
      BY <1>7, <1>12, <3>11, PlainJoined
    <3> HIDE DEF r
    <3>13. \A y \in Items(r) : Down(k, T, d3, y)
      BY <1>7, <3>11, <3>12 DEF Down, Plain
    <3>14. ~ToApp(r, Cmd) /\ ~ToApp(r, Msg(k, "start"))
      BY <1>13, <3>11, <3>12
    <3>15. \A y \in Items(r), z \in Items(d3.in) : IsControl(y) => ~Of(z, y.msg.of)
      <4> SUFFICES ASSUME NEW y \in Items(r), IsControl(y) PROVE ~Of(x, y.msg.of)
        BY <3>3, <3>6
      <4>1. y.msg = Control(k)
        BY <1>12, <3>11, <3>12
      <4>2. y.msg.of = k
        BY <4>1, MsgFacts
      <4> QED BY <1>3, <4>2
    <3>16. InOk(k, T, d3)
      BY <1>3, <3>3, <3>6 DEF InOk
    <3>17. PortKept(k, d3)
      BY <1>15, <3>7, <3>8 DEF PortKept, Flushing
    <3>18. ModeOk(k, l, q, d3)
      BY <1>2, <1>5, <1>15, <3>7 DEF ModeOk
    <3>19. CallOk(k, T, d3, r)
      BY <1>2, <1>3, <3>7, <3>8, <3>14 DEF CallOk
    <3>20. ConnOk(k, d3, r)
      BY <1>15, <3>7, <3>14 DEF ConnOk
    <3>21. StartOk(k, T, d3, r)
      BY <1>3, <3>9, <3>14, NoStart
    <3>22. AloneOk(k, l, d3, r)
      BY <3>9 DEF AloneOk
    <3>23. FlushStepOk(k, T, d3, r)
      <4>1. FlushOk(d3)
        BY <3>8 DEF FlushOk, Waiting
      <4>2. \E z \in T : FromPool(z.msg) /\ z.msg.of # k /\ z.op = "flush"
        BY <1>2, <1>3
      <4> QED BY <4>1, <4>2 DEF FlushStepOk
    <3>24. /\ \A y \in Items(l) : IsLead(y) => y.msg.of = k
           /\ \A y \in Items(l) : IsBack(y) => Depth[y.to] < Depth[RouteOf(k)]
      <4> DEFINE ed == <<k, RouteOf(k)>>
      <4>1. ed \in Edges /\ ed[1] = k /\ ed[2] = RouteOf(k)
        BY <1>5, <1>15
      <4> HIDE DEF ed
      <4>2. Depth[k] < Depth[RouteOf(k)] /\ RouteOf(k) \in Codecs /\ Depth \in [Codecs -> Nat]
        BY <4>1, DepthFacts, EdgeFacts
      <4>3. Takes(k, T, l, q)
        BY <3>1 DEF Steps
      <4>4. ASSUME NEW y \in Items(l), IsBack(y) PROVE Depth[y.to] < Depth[RouteOf(k)]
        <5>1. y.to \in Codecs
          <6> DEFINE t == l
          <6>1. t \in Seq(ItemType) /\ y \in Items(t)
            BY <4>3 DEF Takes
          <6> HIDE DEF t
          <6>2. y \in ItemType
            BY <6>1, SeqFacts
          <6> QED BY <6>2, ItemFacts
        <5>2. Depth[y.to] < Depth[k]
          BY <1>3, <4>4
        <5>3. Depth[y.to] \in Nat /\ Depth[k] \in Nat /\ Depth[RouteOf(k)] \in Nat
          BY <4>2, <5>1
        <5> QED BY <4>2, <5>2, <5>3
      <4> QED BY <1>3, <4>4
    <3>25. d3.mode # "gone"
      BY <3>7
    <3> HIDE DEF T, l, q
    <3> QED BY <3>1, <3>6, <3>10, <3>12, <3>13, <3>15, <3>16, <3>17, <3>18, <3>19, <3>20, <3>21, <3>22, <3>23,
               <3>24, <3>25, SendStep
  <2> QED BY <2>6, <2>7
<1> QED BY <1>14, <1>15

\* While a port is being unrouted its component passes no flush on.
LEMMA UnroutingAlone ==
    ASSUME ChainInv, NEW k \in Codecs, Unrouting(codec[k]), ~Gone(k)
    PROVE  ~Purging(codec[k])
<1> SUFFICES ASSUME Purging(codec[k]) PROVE FALSE
  OBVIOUS
<1>1. PICK z \in Items(codec[k].in) : z.op = "flush"
  BY Mine DEF CompOk, InputOk
<1>2. InputPlace(k, z) /\ IsAbroad(z)
  BY <1>1 DEF ChainInv, PoolInv, PlaceInv, IsAbroad, AtInput
<1>3. FromPool(z.msg) /\ Routed(codec[z.msg.of]) /\ RouteOf(z.msg.of) = k
  BY <1>1, <1>2 DEF InputPlace
<1>4. z \in ItemType
  <2> DEFINE s == codec[k].in
  <2>1. s \in Seq(ItemType) /\ z \in Items(s)
    BY <1>1, Mine
  <2> HIDE DEF s
  <2> QED BY <2>1, SeqFacts
<1> DEFINE j == z.msg.of
           e == <<j, k>>
<1>5. j \in Codecs
  BY <1>3, <1>4, ItemFacts, MsgFacts
<1>6. e \in Edges /\ e[1] = j /\ e[2] = k
  BY <1>3, <1>5 DEF ChainInv, PoolInv, RouteInv
<1>7. FlushAbroad(j)
  BY <1>1, <1>2, <1>3 DEF FlushAbroad, IsFlush, Of
<1> HIDE DEF e, j
<1>8. Depth[j] < Depth[k]
  BY <1>6, DepthFacts
<1>9. PICK i \in Codecs : IsSaved(i) /\ Depth[i] <= Depth[j]
  BY <1>5, <1>7, FlushIsForCall DEF ChainInv, SavedAbove
<1>10. IsSaved(k)
  BY DEF IsSaved
<1>11. i = k
  BY <1>9, <1>10 DEF ChainInv, CallInv
<1> QED BY <1>5, <1>8, <1>9, <1>11, DepthFacts

\* xa_codec_flush at the output port
LEMMA FlushReturnsStep == ASSUME ChainInv, NEW k \in Codecs, FlushReturns(k) PROVE ChainInv'
<1> DEFINE c == codec[k]
           l == LocalLeft(WorkerOf[k])
           q == QueueLeft(WorkerOf[k])
           a == FlushDone(c)
           f == NoOutput(a)
           d1 == Unrouted(c)
           d2 == Put(f, Tail(f.in), Toggled(f.iflags, {"purging"}))
           out1 == <<CmdDone("unroute")>>
           out2 == <<Answered(Head(c.in), 0)>>
<1>1. PICK x \in Gets(k, "flush") :
        /\ x.msg = Control(k)
        /\ IF Unrouting(c) THEN Becomes(k, d1, out1) ELSE Becomes(k, d2, out2)
  BY DEF FlushReturns, Put, Unrouting
<1> DEFINE T == {x}
<1>2. Serves(k, x) /\ c.mode = "running" /\ x.op = "flush" /\ ~Gone(k)
  BY GetsServes DEF Serves
<1>3. /\ Of(x, k) /\ Flushing(c) /\ Routed(c) /\ "idle" \notin c.oflags
      /\ ~IsScheduled(c) /\ ~Initial(c) /\ k \notin Sinks
      /\ "eos_seq_done" \notin c.state
      /\ \A out : (\A y \in Items(out) : ~Of(y, k)) => PortDone(k, T, out)
  BY <1>1, <1>2, ControlGiven
<1>4. IF Unrouting(c) THEN Steps(k, T, l, q, d1, out1) ELSE Steps(k, T, l, q, d2, out2)
  BY <1>1, <1>2, ServesSteps
<1>5. /\ c \in CodecType(k) /\ TaskOk(k, c) /\ InputOk(c) /\ OutputOk(k, c)
      /\ c.in \in Seq(ItemType) /\ c.route = RouteOf(k) /\ <<k, RouteOf(k)>> \in Edges
  BY <1>2, <1>3, Mine DEF CompOk
<1>6. ~HasMsg(T, Cmd) /\ ~HasMsg(T, Msg(k, "start"))
  <2>1. FromPool(x.msg) /\ x.msg # Cmd /\ x.msg.what \notin {"start"}
    BY <1>3, AppMsgFacts DEF Of
  <2>2. x.msg # Msg(k, "start")
    BY <2>1, MsgFacts
  <2> QED BY <2>1, <2>2 DEF HasMsg
<1>7. FlushOk(c)
  <2>1. FlushAbroad(k)
    BY <1>2, <1>3, ServedKinds DEF FlushAbroad, IsFlush
  <2> QED BY <2>1 DEF ChainInv, FlushInv
<1>8. CASE Unrouting(c)
  <2>1. Steps(k, T, l, q, d1, out1)
    BY <1>4, <1>8
  <2>2. ~Purging(c) /\ (Completed(c) => c.in = <<>>)
    BY <1>2, <1>7, <1>8, UnroutingAlone DEF FlushOk
  <2>3. /\ d1 \in CodecType(k) /\ SameMode(c, d1) /\ SameIn(c, d1) /\ SameTask(c, d1)
        /\ d1.out = <<>> /\ d1.route = None /\ d1.oflags = {"idle"}
    BY <1>5, UnroutedFields
  <2> HIDE DEF d1
  <2>4. /\ d1.mode = "running" /\ d1.in = c.in /\ d1.iflags = c.iflags /\ d1.state = c.state /\ d1.tree = c.tree
        /\ d1.prepared = c.prepared
    BY <1>2, <2>3 DEF SameMode, SameIn, SameTask
  <2>5. /\ ~Routed(d1) /\ ~Flushing(d1) /\ ~Unrouting(d1) /\ ~Initial(d1) /\ ~IsScheduled(d1) /\ ~Purging(d1)
        /\ (Completed(d1) <=> Completed(c)) /\ OnePhase(d1)
    <3>1. ~Routed(d1) /\ ~Flushing(d1) /\ ~Unrouting(d1)
      BY <2>3 DEF Routed, Flushing, Unrouting
    <3> QED BY <1>3, <1>5, <2>2, <2>4, <3>1 DEF TaskOk, OnePhase, Initial, IsScheduled, Purging, Completed
  <2>6. CompOk(k, d1)
    <3>1. TaskOk(k, d1)
      BY <1>3, <1>5, <2>2, <2>3, <2>4, <2>5 DEF TaskOk
    <3>2. InputOk(d1)
      BY <1>5, <2>2, <2>4, <2>5 DEF InputOk
    <3>3. OutputOk(k, d1)
      BY <2>3, <2>4, <2>5, EmptyItems DEF OutputOk
    <3> QED BY <3>1, <3>2, <3>3 DEF CompOk
  <2>7. /\ out1 \in Seq(OutType) /\ Plain(k, T, out1) /\ Ordered(out1)
        /\ \A m : ToApp(out1, m) <=> m = Cmd
        /\ \A y \in Items(out1) : ~IsControl(y) /\ ~FromPool(y.msg)
    BY CmdReplied DEF Ops
  <2> HIDE DEF out1
  <2>8. \A y \in Items(out1), z \in Items(d1.in) : IsControl(y) => ~Of(z, y.msg.of)
    BY <2>7
  <2>9. InOk(k, T, d1)
    BY <2>4, InputKept
  <2>10. PortDone(k, T, out1)
    BY <1>3, <2>7 DEF Of
  <2>11. ModeOk(k, l, q, d1)
    BY <1>2, <2>4, <2>5 DEF ModeOk
  <2>12. CallOk(k, T, d1, out1)
    BY <1>6, <1>8, <2>4, <2>5, <2>7 DEF CallOk, SavedIn
  <2>13. ConnOk(k, d1, out1)
    BY <2>5 DEF ConnOk
  <2>14. StartOk(k, T, d1, out1)
    BY <1>3, <1>6, <2>5, <2>7, NoStart, AppMsgFacts
  <2>15. AloneOk(k, l, d1, out1)
    BY <2>5 DEF AloneOk
  <2>16. ~PortKept(k, d1)
    BY <2>5 DEF PortKept
  <2>17. IF d1.mode = "gone" THEN d1 = Destroyed ELSE CompOk(k, d1)
    BY <2>4, <2>6
  <2> HIDE DEF T, l, q
  <2> QED BY <2>1, <2>3, <2>7, <2>8, <2>9, <2>10, <2>11, <2>12, <2>13, <2>14, <2>15, <2>16, <2>17, PlainStep
<1>9. CASE ~Unrouting(c)
  <2>1. Steps(k, T, l, q, d2, out2)
    BY <1>4, <1>9
  <2>2. Purging(c)
    BY <1>2, <1>7, <1>9 DEF FlushOk, Waiting
  <2>3. PICK z \in Items(c.in) : c.in = <<z>> /\ z.op = "flush"
    BY <1>5, <2>2 DEF InputOk
  <2>4. Head(c.in) = z /\ Tail(c.in) = <<>>
    BY <2>3
  <2>5. /\ a \in CodecType(k) /\ SameMode(c, a) /\ SameIn(c, a) /\ SameTask(c, a)
        /\ a.out = c.out /\ a.route = c.route
        /\ a.oflags = (c.oflags \ {"idle", "flushing"}) \cup ({"idle", "flushing"} \ c.oflags)
    BY <1>5, FlushDoneFields
  <2> HIDE DEF a
  <2>6. /\ f \in CodecType(k) /\ SameMode(a, f) /\ SameIn(a, f) /\ SameOut(a, f)
        /\ f.state = a.state \ {"output_setup"} /\ f.tree = a.tree
    BY <2>5, NoOutputFields
  <2> DEFINE s == Tail(f.in)
             F == Toggled(f.iflags, {"purging"})
  <2> HIDE DEF f
  <2>7. f.in = c.in /\ f.iflags = c.iflags
    BY <2>5, <2>6 DEF SameIn
  <2>8. s = <<>>
    BY <2>4, <2>7
  <2>80. s \in Seq(ItemType)
    <3>1. <<>> \in Seq(ItemType)
      OBVIOUS
    <3> HIDE DEF s
    <3> QED BY <2>8, <3>1
  <2>9. /\ F \in SUBSET Flags.in /\ "purging" \notin F /\ ("enabled" \in F <=> "enabled" \in c.iflags)
    <3>1. f.iflags \subseteq Flags.in /\ "purging" \in f.iflags
      BY <2>2, <2>6, <2>7 DEF CodecType, Purging
    <3> QED BY <2>7, <3>1 DEF Toggled, Flags
  <2>10. d2 = Put(f, s, F)
    OBVIOUS
  <2> HIDE DEF s, F, d2
  <2>11. /\ d2 \in CodecType(k) /\ SameMode(f, d2) /\ SameTask(f, d2) /\ SameOut(f, d2)
         /\ d2.in = s /\ d2.iflags = F
    BY <2>6, <2>80, <2>9, <2>10, PutFields
  <2>12. /\ d2.mode = "running" /\ d2.prepared = c.prepared /\ d2.in = <<>> /\ d2.tree = c.tree
         /\ d2.state = c.state \ {"output_setup"} /\ d2.out = c.out /\ d2.route = RouteOf(k)
         /\ d2.oflags = (c.oflags \ {"flushing"}) \cup {"idle"}
    <3>1. a.oflags = (c.oflags \ {"flushing"}) \cup {"idle"}
      BY <1>3, <2>5 DEF Flushing
    <3> QED BY <1>2, <1>5, <2>5, <2>6, <2>8, <2>11, <3>1 DEF SameMode, SameTask, SameOut
  <2>13. /\ Routed(d2) /\ ~Flushing(d2) /\ ~Unrouting(d2) /\ ~Initial(d2) /\ ~IsScheduled(d2) /\ ~Purging(d2)
         /\ (Completed(d2) <=> Completed(c)) /\ OnePhase(d2) /\ "eos_seq_done" \notin d2.state
         /\ "enabled" \in d2.iflags
    <3>1. Routed(d2) /\ ~Flushing(d2) /\ ~Unrouting(d2)
      BY <1>3, <1>9, <2>12 DEF Routed, Flushing, Unrouting
    <3>2. "enabled" \in c.iflags
      <4> DEFINE t == <<z>>
      <4>1. Items(t) = {z}
        BY OneItem
      <4>2. c.in = t
        BY <2>3
      <4> HIDE DEF t
      <4>3. \A y \in Items(c.in) : y.op # "empty"
        BY <2>3, <4>1, <4>2
      <4> QED BY <1>5, <4>3 DEF InputOk
    <3>3. ~Purging(d2) /\ "enabled" \in d2.iflags
      BY <2>9, <2>11, <3>2 DEF Purging
    <3> QED BY <1>3, <1>5, <2>12, <3>1, <3>3 DEF TaskOk, OnePhase, Initial, IsScheduled, Completed
  <2>14. CompOk(k, d2)
    <3>1. TaskOk(k, d2)
      BY <1>3, <1>5, <2>12, <2>13 DEF TaskOk
    <3>2. InputOk(d2)
      BY <2>12, <2>13, EmptyItems DEF InputOk
    <3>3. OutputOk(k, d2)
      BY <1>3, <1>5, <2>12, <2>13 DEF OutputOk
    <3> QED BY <3>1, <3>2, <3>3 DEF CompOk
  <2> DEFINE y == Answered(z, 0)
  <2>15. FromPool(z.msg) /\ z.msg.of # k
    <3>1. InputPlace(k, z)
      BY <2>3 DEF ChainInv, PoolInv, PlaceInv
    <3>2. FromPool(z.msg)
      BY <2>3, <3>1 DEF InputPlace
    <3> QED BY <1>2, <2>3, <3>2, InputIsOthers DEF Of
  <2>16. y \in OutType /\ y.msg = z.msg /\ (AppReply(k, y) \/ Reply(k, T, y))
    BY <2>3, InputAnswered
  <2>17. out2 = <<y>>
    BY <2>4
  <2> HIDE DEF y
  <2>18. \A u \in Items(d2.in) : IsControl(y) => ~Of(u, y.msg.of)
    BY <2>12, EmptyItems
  <2> DEFINE t == <<y>>
  <2>19. t \in Seq(OutType) /\ Plain(k, T, t) /\ \A m : ToApp(t, m) <=> (y.to = App /\ y.msg = m)
    BY <2>16, <2>18, OneReplied
  <2>20. Items(t) = {y} /\ \A u, v : ~Ahead(t, u, v)
    BY OneItem
  <2>21. out2 = t
    BY <2>17
  <2> HIDE DEF t, out2
  <2>22. /\ out2 \in Seq(OutType) /\ Plain(k, T, out2) /\ Ordered(out2)
         /\ ~ToApp(out2, Cmd) /\ ~ToApp(out2, Msg(k, "start"))
    <3>1. y.msg # Cmd /\ y.msg # Msg(k, "start")
      BY <1>2, <2>15, <2>16, AppMsgFacts, MsgFacts
    <3>2. Ordered(t)
      BY <2>20 DEF Ordered
    <3> QED BY <2>19, <2>21, <3>1, <3>2
  <2>23. \A u \in Items(out2), v \in Items(d2.in) : IsControl(u) => ~Of(v, u.msg.of)
    BY <2>12, EmptyItems
  <2>24. InOk(k, T, d2)
    BY <2>12, EmptyItems DEF InOk
  <2>25. PortDone(k, T, out2)
    BY <1>3, <2>15, <2>16, <2>20, <2>21 DEF Of
  <2>26. ModeOk(k, l, q, d2)
    BY <1>2, <1>5, <2>12 DEF ModeOk
  <2>27. CallOk(k, T, d2, out2)
    BY <1>2, <1>6, <1>9, <2>12, <2>13, <2>22 DEF CallOk
  <2>28. ConnOk(k, d2, out2)
    BY <1>3, <2>12, <2>22 DEF ConnOk
  <2>29. StartOk(k, T, d2, out2)
    BY <1>3, <1>6, <2>13, <2>22, NoStart
  <2>30. AloneOk(k, l, d2, out2)
    BY <2>13 DEF AloneOk
  <2>31. ~PortKept(k, d2)
    BY <1>3, <2>13 DEF PortKept, Flushing
  <2>32. IF d2.mode = "gone" THEN d2 = Destroyed ELSE CompOk(k, d2)
    BY <2>12, <2>14
  <2> HIDE DEF T, l, q
  <2> QED BY <2>1, <2>11, <2>22, <2>23, <2>24, <2>25, <2>26, <2>27, <2>28, <2>29, <2>30, <2>31, <2>32, PlainStep
<1> QED BY <1>8, <1>9

-----------------------------------------------------------------------------
(* Pausing.                                                                *)

\* Other flags at the input, at the output.
PutInFlags(c, F) == [c EXCEPT !.iflags = F]
PutOutFlags(c, F) == [c EXCEPT !.oflags = F]

\* What they leave alone.
LEMMA PutFlagsFields ==
    ASSUME NEW k \in Codecs, NEW c \in CodecType(k), NEW F \in SUBSET Flags.in, NEW G \in SUBSET Flags.out
    PROVE  /\ PutInFlags(c, F) \in CodecType(k) /\ PutOutFlags(c, G) \in CodecType(k)
           /\ SameMode(c, PutInFlags(c, F)) /\ SameTask(c, PutInFlags(c, F)) /\ SameOut(c, PutInFlags(c, F))
           /\ PutInFlags(c, F).in = c.in /\ PutInFlags(c, F).iflags = F
           /\ SameMode(c, PutOutFlags(c, G)) /\ SameTask(c, PutOutFlags(c, G)) /\ SameIn(c, PutOutFlags(c, G))
           /\ PutOutFlags(c, G).out = c.out /\ PutOutFlags(c, G).route = c.route
           /\ PutOutFlags(c, G).oflags = G
BY DEF CodecType, SameMode, SameTask, SameIn, SameOut, PutInFlags, PutOutFlags

\* A component that differs in what is paused only, and may now be scheduled.
PausesOnly(c, d) ==
    /\ SameMode(c, d) /\ d.in = c.in /\ d.out = c.out /\ d.route = c.route
    /\ d.iflags \ {"paused"} = c.iflags \ {"paused"} /\ d.oflags \ {"paused"} = c.oflags \ {"paused"}
    /\ \/ SameTask(c, d)
       \/ /\ ~Completed(c) /\ OutReady(d) /\ d.state = c.state \cup {"schedule"}
          /\ d.tree = IF IsScheduled(c) THEN c.tree ELSE c.tree + 1

\* A command handled so.
Pauses(k, x, d) ==
    /\ Serves(k, x) /\ codec[k].mode = "running" /\ x.op \in {"pause", "resume"}
    /\ d \in CodecType(k) /\ PausesOnly(codec[k], d) /\ Becomes(k, d, <<Answered(x, 0)>>)

\* It keeps the invariant.
LEMMA PausesStep ==
    ASSUME ChainInv, NEW k \in Codecs, NEW x, NEW d, Pauses(k, x, d)
    PROVE  ChainInv'
<1> DEFINE c == codec[k]
           l == LocalLeft(WorkerOf[k])
           T == {x}
           out == <<Answered(x, 0)>>
<1>0. /\ Serves(k, x) /\ c.mode = "running" /\ x.op \in {"pause", "resume"}
      /\ d \in CodecType(k) /\ PausesOnly(c, d) /\ Becomes(k, d, out)
  BY DEF Pauses
<1>1. /\ x.msg = Cmd /\ ~FromPool(x.msg)
      /\ HasMsg(T, Cmd) /\ \A what : ~HasMsg(T, Msg(k, what))
      /\ out \in Seq(OutType) /\ Plain(k, T, out)
      /\ \A m : ToApp(out, m) <=> m = Cmd
      /\ \A y \in Items(out) : ~IsControl(y) /\ ~FromPool(y.msg) /\ y.to = App
  BY <1>0, CmdGiven DEF CmdOps
<1>2. /\ ~Gone(k) /\ ~(IsScheduled(c) /\ Completed(c))
  BY <1>0, ServesOne DEF Serves
<1>3. /\ c \in CodecType(k) /\ TaskOk(k, c) /\ InputOk(c) /\ OutputOk(k, c)
  BY <1>2, Mine DEF CompOk
<1>4. Becomes(k, d, out) /\ PausesOnly(c, d) /\ d \in CodecType(k) /\ Serves(k, x) /\ c.mode = "running"
  BY <1>0
<1> HIDE DEF out
<1>5. /\ (Purging(d) <=> Purging(c)) /\ ("enabled" \in d.iflags <=> "enabled" \in c.iflags)
      /\ (Routed(d) <=> Routed(c)) /\ (Flushing(d) <=> Flushing(c)) /\ (Unrouting(d) <=> Unrouting(c))
      /\ ("idle" \in d.oflags <=> "idle" \in c.oflags)
      /\ (Initial(d) <=> Initial(c)) /\ (Completed(d) <=> Completed(c))
      /\ ("execution" \in d.state <=> "execution" \in c.state)
      /\ ("eos_seq_done" \in d.state <=> "eos_seq_done" \in c.state)
      /\ d.mode = c.mode /\ d.prepared = c.prepared /\ d.in = c.in /\ d.out = c.out /\ d.route = c.route
  <2>1. (Purging(d) <=> Purging(c)) /\ ("enabled" \in d.iflags <=> "enabled" \in c.iflags)
    BY <1>4 DEF PausesOnly, Purging
  <2>2. /\ (Routed(d) <=> Routed(c)) /\ (Flushing(d) <=> Flushing(c)) /\ (Unrouting(d) <=> Unrouting(c))
        /\ ("idle" \in d.oflags <=> "idle" \in c.oflags)
    BY <1>4 DEF PausesOnly, Routed, Flushing, Unrouting
  <2>3. /\ (Initial(d) <=> Initial(c)) /\ (Completed(d) <=> Completed(c))
        /\ ("execution" \in d.state <=> "execution" \in c.state)
        /\ ("eos_seq_done" \in d.state <=> "eos_seq_done" \in c.state)
    BY <1>4 DEF PausesOnly, SameTask, Initial, Completed
  <2> QED BY <1>4, <2>1, <2>2, <2>3 DEF PausesOnly, SameMode
<1>6. /\ d.tree = (IF IsScheduled(d) THEN 1 ELSE 0) /\ (IsScheduled(d) => d.out # <<>> /\ ~Flushing(d))
      /\ ~(IsScheduled(d) /\ Completed(d))
  <2>1. CASE SameTask(c, d)
    BY <1>2, <1>3, <1>5, <2>1 DEF SameTask, IsScheduled, TaskOk
  <2>2. CASE /\ ~Completed(c) /\ OutReady(d) /\ d.state = c.state \cup {"schedule"}
             /\ d.tree = IF IsScheduled(c) THEN c.tree ELSE c.tree + 1
    <3>1. IsScheduled(d) /\ d.tree = 1
      BY <1>3, <2>2 DEF IsScheduled, TaskOk
    <3>2. d.out # <<>> /\ ~Flushing(d)
      BY <2>2 DEF OutReady, Flushing
    <3> QED BY <1>5, <2>2, <3>1, <3>2
  <2> QED BY <1>4, <2>1, <2>2 DEF PausesOnly
<1>7. CompOk(k, d)
  <2>1. TaskOk(k, d)
    BY <1>3, <1>5, <1>6 DEF TaskOk, OnePhase
  <2>2. InputOk(d)
    BY <1>3, <1>5 DEF InputOk
  <2>3. OutputOk(k, d)
    BY <1>3, <1>5 DEF OutputOk
  <2> QED BY <2>1, <2>2, <2>3 DEF CompOk
<1>8. OutOk(k, T, d, out)
  <2>1. \A y, z : Ahead(out, y, z) => y \in Items(out)
    BY DEF Ahead, Items
  <2> QED BY <1>1, <2>1 DEF OutOk
<1>9. InOk(k, T, d)
  BY <1>5, InputKept
<1>10. StartOk(k, T, d, out)
  BY <1>1, <1>5, NoStart, AppMsgFacts
<1>11. FlushAbroad(k) => FlushOk(d)
  BY <1>5 DEF ChainInv, FlushInv, FlushOk, Waiting
<1>12. /\ d.mode = codec[k].mode /\ d.route = codec[k].route
       /\ d.oflags \ {"paused"} = codec[k].oflags \ {"paused"}
       /\ (x.msg = Cmd) <=> ToApp(out, Cmd)
       /\ x.msg = Cmd => x.op \notin {"route", "unroute"}
  BY <1>0, <1>1, <1>5 DEF PausesOnly
<1> QED BY <1>1, <1>4, <1>6, <1>7, <1>8, <1>9, <1>10, <1>11, <1>12, QuietStep

\* xa_codec_port_pause
LEMMA PauseIs == ASSUME ChainInv, NEW k \in Codecs, PortPause(k) PROVE \E x, d : Pauses(k, x, d)
<1> DEFINE c == codec[k]
           F == c.iflags \cup {"paused"}
           G == c.oflags \cup {"paused"}
           e1 == PutInFlags(c, F)
           e2 == PutOutFlags(c, G)
           d == IF Completed(c) THEN c ELSE IF call.arg = "in" THEN e1 ELSE e2
<1>1. PICK x \in Gets(k, "pause") : Becomes(k, d, <<Answered(x, 0)>>)
  BY DEF PortPause, Completed, PutInFlags, PutOutFlags
<1>2. Serves(k, x) /\ c.mode = "running" /\ x.op = "pause" /\ ~Gone(k)
  BY GetsServes DEF Serves
<1>3. c \in CodecType(k) /\ F \in SUBSET Flags.in /\ G \in SUBSET Flags.out
  BY <1>2, Mine DEF Flags
<1> DEFINE F0 == F
           G0 == G
<1> HIDE DEF F0, G0
<1>4. e1 = PutInFlags(c, F0) /\ e2 = PutOutFlags(c, G0) /\ F0 = F /\ G0 = G
  BY DEF F0, G0
<1> HIDE DEF e1, e2
<1>5. /\ e1 \in CodecType(k) /\ e2 \in CodecType(k)
      /\ SameMode(c, e1) /\ SameTask(c, e1) /\ SameOut(c, e1) /\ e1.in = c.in /\ e1.iflags = F0
      /\ SameMode(c, e2) /\ SameTask(c, e2) /\ SameIn(c, e2) /\ e2.out = c.out /\ e2.route = c.route
      /\ e2.oflags = G0
  BY <1>3, <1>4, PutFlagsFields
<1>6. d \in CodecType(k)
  BY <1>3, <1>5
<1>7. PausesOnly(c, c) /\ PausesOnly(c, e1) /\ PausesOnly(c, e2)
  <2>1. PausesOnly(c, c)
    BY DEF PausesOnly, SameMode, SameTask
  <2>2. PausesOnly(c, e1)
    BY <1>4, <1>5 DEF PausesOnly, SameOut
  <2>3. PausesOnly(c, e2)
    BY <1>4, <1>5 DEF PausesOnly, SameIn
  <2> QED BY <2>1, <2>2, <2>3
<1>8. PausesOnly(c, d)
  BY <1>7
<1> HIDE DEF d
<1> QED BY <1>1, <1>2, <1>6, <1>8 DEF Pauses

\* Thus the invariant is kept.
LEMMA PauseStep == ASSUME ChainInv, NEW k \in Codecs, PortPause(k) PROVE ChainInv'
BY PauseIs, PausesStep

\* xa_codec_port_resume
LEMMA ResumeIs == ASSUME ChainInv, NEW k \in Codecs, PortResume(k) PROVE \E x, d : Pauses(k, x, d)
<1> DEFINE c == codec[k]
           F == c.iflags \ {"paused"}
           G == c.oflags \ {"paused"}
           flags == IF call.arg = "in" THEN c.iflags ELSE c.oflags
           e1 == PutInFlags(c, F)
           e2 == PutOutFlags(c, G)
           r == IF call.arg = "in" THEN e1 ELSE e2
           s == Scheduled(r)
           d == IF Completed(c) \/ "paused" \notin flags THEN c
                ELSE IF InReady(r) /\ OutReady(r) THEN s ELSE r
<1>1. PICK x \in Gets(k, "resume") : Becomes(k, d, <<Answered(x, 0)>>)
  BY DEF PortResume, Completed, PutInFlags, PutOutFlags
<1>2. Serves(k, x) /\ c.mode = "running" /\ x.op = "resume" /\ ~Gone(k)
  BY GetsServes DEF Serves
<1>3. c \in CodecType(k) /\ F \in SUBSET Flags.in /\ G \in SUBSET Flags.out
  BY <1>2, Mine DEF Flags
<1> DEFINE F0 == F
           G0 == G
<1> HIDE DEF F0, G0
<1>4. e1 = PutInFlags(c, F0) /\ e2 = PutOutFlags(c, G0) /\ F0 = F /\ G0 = G
  BY DEF F0, G0
<1> HIDE DEF e1, e2
<1>5. /\ e1 \in CodecType(k) /\ e2 \in CodecType(k)
      /\ SameMode(c, e1) /\ SameTask(c, e1) /\ SameOut(c, e1) /\ e1.in = c.in /\ e1.iflags = F0
      /\ SameMode(c, e2) /\ SameTask(c, e2) /\ SameIn(c, e2) /\ e2.out = c.out /\ e2.route = c.route
      /\ e2.oflags = G0
  BY <1>3, <1>4, PutFlagsFields
<1>6. /\ r \in CodecType(k) /\ SameMode(c, r) /\ SameTask(c, r) /\ r.in = c.in /\ r.out = c.out /\ r.route = c.route
      /\ r.iflags \ {"paused"} = c.iflags \ {"paused"} /\ r.oflags \ {"paused"} = c.oflags \ {"paused"}
  BY <1>4, <1>5 DEF SameIn, SameOut
<1> HIDE DEF r
<1>7. /\ s \in CodecType(k) /\ SameMode(r, s) /\ SameIn(r, s) /\ SameOut(r, s)
      /\ s.state = r.state \cup {"schedule"}
      /\ s.tree = IF "schedule" \in r.state THEN r.tree ELSE r.tree + 1
  BY <1>6, ScheduledFields
<1> HIDE DEF s
<1>8. d \in CodecType(k)
  BY <1>3, <1>6, <1>7
<1>9. PausesOnly(c, c) /\ PausesOnly(c, r)
  BY <1>6 DEF PausesOnly, SameMode, SameTask
<1>10. ASSUME ~Completed(c), OutReady(r) PROVE PausesOnly(c, s)
  <2>1. OutReady(s)
    BY <1>7, <1>10 DEF OutReady, SameOut
  <2>2. /\ SameMode(c, s) /\ s.in = c.in /\ s.out = c.out /\ s.route = c.route
        /\ s.iflags \ {"paused"} = c.iflags \ {"paused"} /\ s.oflags \ {"paused"} = c.oflags \ {"paused"}
    BY <1>6, <1>7 DEF SameMode, SameIn, SameOut
  <2>3. s.state = c.state \cup {"schedule"} /\ s.tree = IF IsScheduled(c) THEN c.tree ELSE c.tree + 1
    BY <1>6, <1>7 DEF SameTask, IsScheduled
  <2> QED BY <1>10, <2>1, <2>2, <2>3 DEF PausesOnly
<1>11. PausesOnly(c, d)
  BY <1>9, <1>10
<1> HIDE DEF d
<1> QED BY <1>1, <1>2, <1>8, <1>11 DEF Pauses

\* Thus the invariant is kept.
LEMMA ResumeStep == ASSUME ChainInv, NEW k \in Codecs, PortResume(k) PROVE ChainInv'
BY ResumeIs, PausesStep

-----------------------------------------------------------------------------
(* An execution, xa_base_process.                                          *)

\* It is the turn of component k to run.
Runs(k) == local[WorkerOf[k]] = <<>> /\ k \in Scheduling(WorkerOf[k])

\* What is known of it then.
LEMMA RunsFacts ==
    ASSUME ChainInv, NEW k \in Codecs, Runs(k)
    PROVE  LET c == codec[k] IN
           /\ ~Gone(k) /\ Takes(k, {}, <<>>, queue[WorkerOf[k]]) /\ Turn(k, {}, <<>>, queue[WorkerOf[k]])
           /\ c \in CodecType(k) /\ TaskOk(k, c) /\ InputOk(c) /\ OutputOk(k, c) /\ c.mode = "running"
           /\ IsScheduled(c) /\ c.out # <<>> /\ ~Flushing(c) /\ ~Unrouting(c) /\ ~Purging(c)
           /\ "eos_seq_done" \notin c.state /\ (Completed(c) => c.in = <<>> /\ Routed(c))
           /\ ~FlushAbroad(k) /\ c.out \in Seq(AllMsgs) /\ c.in \in Seq(ItemType) /\ c.route = RouteOf(k)
<1> DEFINE c == codec[k]
           w == WorkerOf[k]
           q == queue[w]
<1>1. local[w] = <<>> /\ k \in Scheduling(w) /\ c.tree > 0 /\ w \in Workers
  BY DEF Runs, Scheduling, Workers
<1>2. ~Gone(k)
  <2>1. Destroyed.tree = 0
    BY DEF Destroyed, Configured
  <2>2. Gone(k) => c = Destroyed
    BY DEF ChainInv, CompInv
  <2> QED BY <1>1, <2>1, <2>2
<1>3. /\ c \in CodecType(k) /\ TaskOk(k, c) /\ InputOk(c) /\ OutputOk(k, c) /\ c.mode \in {"running", "terminating"}
      /\ c.out \in Seq(AllMsgs) /\ c.in \in Seq(ItemType) /\ c.route = RouteOf(k)
  BY <1>2, Mine DEF CompOk
<1>4. IsScheduled(c)
  BY <1>1, <1>3 DEF TaskOk
<1>5. c.out # <<>> /\ ~Flushing(c) /\ "eos_seq_done" \notin c.state
  BY <1>3, <1>4 DEF TaskOk
<1>6. c.mode = "running" /\ ~Unrouting(c) /\ ~Purging(c)
  BY <1>3, <1>5 DEF OutputOk, InputOk
<1>7. Completed(c) => c.in = <<>> /\ Routed(c)
  BY <1>3, <1>5 DEF TaskOk
<1>8. ~FlushAbroad(k)
  BY <1>5, FlushFlags
<1>9. q \in Seq(ItemType)
  BY <1>1 DEF ChainInv, TypeInv
<1>10. Takes(k, {}, <<>>, q)
  <2>1. {} \subseteq ItemType /\ <<>> \in Seq(ItemType)
    OBVIOUS
  <2> QED BY <1>2, <1>9, <2>1, EmptyItems DEF Takes
<1>11. Turn(k, {}, <<>>, q)
  BY <1>1 DEF Turn, Alone
<1> QED BY <1>2, <1>3, <1>4, <1>5, <1>6, <1>7, <1>8, <1>10, <1>11

\* A run that keeps the port, or has none below.
LEMMA RunStep ==
    ASSUME ChainInv, NEW k \in Codecs, Runs(k), NEW d \in CodecType(k), NEW out \in Seq(OutType),
           codec' = [codec EXCEPT ![k] = d], Sent(WorkerOf[k], <<>>, queue[WorkerOf[k]], out), Told(out),
           CompOk(k, d), d.mode = "running",
           \A y \in Items(out) : Down(k, {}, d, y) /\ ~IsFlush(y, k), Ordered(out),
           \A x \in Items(out), y \in Items(d.in) : IsControl(x) => ~Of(y, x.msg.of),
           InOk(k, {}, d), d.route = RouteOf(k), (Routed(d) <=> Routed(codec[k])), ~Unrouting(d),
           "idle" \in d.oflags => "idle" \in codec[k].oflags,
           ~ToApp(out, Cmd), StartOk(k, {}, d, out), ~(IsScheduled(d) /\ Completed(d))
    PROVE  ChainInv'
<1> DEFINE c == codec[k]
           T == {}
           l == <<>>
           q == queue[WorkerOf[k]]
<1>1. /\ ~Gone(k) /\ Takes(k, T, l, q) /\ Turn(k, T, l, q) /\ c.mode = "running"
      /\ ~Flushing(c) /\ ~Unrouting(c) /\ ~FlushAbroad(k) /\ c.route = RouteOf(k)
  BY RunsFacts
<1>2. Steps(k, T, l, q, d, out)
  BY <1>1 DEF Steps
<1>3. CallOk(k, T, d, out)
  BY <1>1 DEF CallOk, HasMsg
<1>4. ConnOk(k, d, out)
  BY DEF ConnOk
<1>5. Routed(c) => <<k, RouteOf(k)>> \in Edges
  BY <1>1, Mine
<1>6. ModeOk(k, l, q, d)
  BY <1>1, <1>5 DEF ModeOk
<1>7. AloneOk(k, l, d, out)
  BY DEF AloneOk
<1>8. InOk(k, T, d) /\ StartOk(k, T, d, out) /\ \A y \in Items(out) : Down(k, T, d, y)
  OBVIOUS
<1>9. CASE Routed(c)
  <2>1. PortKept(k, d)
    BY <1>1, <1>9 DEF PortKept, Flushing
  <2>2. FlushStepOk(k, T, d, out)
    BY <1>1 DEF FlushStepOk
  <2>3. /\ \A x \in Items(l) : IsLead(x) => x.msg.of = k
        /\ \A x \in Items(l) : IsBack(x) => Depth[x.to] < Depth[RouteOf(k)]
    BY EmptyItems
  <2>4. d.mode # "gone"
    OBVIOUS
  <2> HIDE DEF T, l, q
  <2> QED BY <1>2, <1>3, <1>4, <1>6, <1>7, <1>8, <2>1, <2>2, <2>3, <2>4, SendStep
<1>10. CASE ~Routed(c)
  <2>1. Plain(k, T, out)
    BY <1>8, <1>10 DEF Down, Plain, IsSent
  <2>2. \A y \in Items(out) : ~Of(y, k)
    BY <2>1, PlainFacts
  <2>3. PortDone(k, T, out)
    BY <1>10, <2>2 DEF PortDone
  <2>4. IF d.mode = "gone" THEN d = Destroyed ELSE CompOk(k, d)
    OBVIOUS
  <2>5. FlushAbroad(k) /\ PortKept(k, d) => FlushOk(d)
    BY <1>1
  <2> HIDE DEF T, l, q
  <2> QED BY <1>2, <1>3, <1>4, <1>6, <1>7, <1>8, <2>1, <2>3, <2>4, <2>5, PlainStep
<1> QED BY <1>9, <1>10

\* Where the first message without data is.
IsData(s, n) == /\ \A i \in 1..n : s[i].len > 0
                /\ n < Len(s) => s[n + 1].len <= 0

\* There is such a place.
LEMMA DataFacts ==
    ASSUME NEW s \in Seq(ItemType)
    PROVE  \E n \in 0..Len(s) : IsData(s, n)
<1> DEFINE N == {n \in 0..Len(s) : n < Len(s) => s[n + 1].len <= 0}
<1>0. Len(s) \in Nat /\ DOMAIN s = 1..Len(s) /\ \A i \in DOMAIN s : s[i] \in ItemType
  BY SeqFacts
<1>1. Len(s) \in N /\ N \subseteq Nat
  BY <1>0
<1>2. PICK n \in N : \A m \in N : ~(<<m, n>> \in OpToRel(<, Nat))
  <2> HIDE DEF N
  <2> QED BY <1>1, NatLessThanWellFounded, WFMin
<1>3. \A m \in N : ~(m < n)
  BY <1>1, <1>2 DEF OpToRel
<1>4. ASSUME NEW i \in 1..n PROVE s[i].len > 0
  <2>1. i - 1 \in 0..Len(s) /\ i - 1 < n /\ i \in 1..Len(s) /\ (i - 1) + 1 = i
    BY <1>0, <1>1
  <2>2. i - 1 \notin N
    BY <1>3, <2>1
  <2>3. ~(s[i].len <= 0)
    BY <2>1, <2>2
  <2>4. s[i].len \in Lens
    BY <1>0, <2>1 DEF ItemType
  <2> QED BY <2>3, <2>4 DEF Lens, Invalid
<1> QED BY <1>0, <1>1, <1>4 DEF IsData

\* The input buffer filled.
PutInput(c, s, n, F) == [c EXCEPT !.in = s, !.filled = n, !.iflags = F]

\* What that leaves alone.
LEMMA PutInputFields ==
    ASSUME NEW k \in Codecs, NEW c \in CodecType(k), NEW s \in Seq(ItemType), NEW n \in 0..Frame,
           NEW F \in SUBSET Flags.in
    PROVE  LET d == PutInput(c, s, n, F) IN
           /\ d \in CodecType(k) /\ SameMode(c, d) /\ SameTask(c, d) /\ SameOut(c, d)
           /\ d.in = s /\ d.iflags = F /\ d.filled = n
BY DEF CodecType, SameMode, SameTask, SameOut, PutInput

\* xf_input_port_fill: the first messages go, each is as long as a buffer.
LEMMA FilledFacts ==
    ASSUME NEW k \in Codecs, NEW c \in CodecType(k)
    PROVE  \E n \in 0..Len(c.in) : LET g == Filled(c) IN
           /\ g.c \in CodecType(k) /\ SameMode(c, g.c) /\ SameTask(c, g.c) /\ SameOut(c, g.c)
           /\ g.c.in = SubSeq(c.in, n + 1, Len(c.in))
           /\ ("enabled" \in g.c.iflags <=> "enabled" \in c.iflags) /\ (Purging(g.c) <=> Purging(c))
           /\ \A i \in 1..n : c.in[i].len = 1
           /\ g.out = [i \in 1..n |-> Answered(c.in[i], c.in[i].len)]
<1> DEFINE s == c.in
           room == Frame - c.filled
           data == CHOOSE n \in 0..Len(c.in) :
                     /\ \A i \in 1..n : c.in[i].len > 0
                     /\ n < Len(c.in) => c.in[n + 1].len <= 0
           n == IF data < room THEN data ELSE room
           over == n < room /\ n < Len(c.in)
           F == IF over THEN Toggled(c.iflags, {"eos", "done"}) ELSE c.iflags
           r == SubSeq(c.in, n + 1, Len(c.in))
           m == c.filled + n
           d == PutInput(c, r, m, F)
           o == [i \in 1..n |-> Answered(c.in[i], c.in[i].len)]
<1>1. Filled(c).c = d /\ Filled(c).out = o
  BY DEF Filled, PutInput
<1>2. s \in Seq(ItemType) /\ c.filled \in 0..Frame /\ c.iflags \subseteq Flags.in /\ Frame \in Nat
  BY FrameAssumption DEF CodecType
<1>3. data \in 0..Len(s) /\ \A i \in 1..data : s[i].len > 0
  BY <1>2, DataFacts DEF IsData
<1> HIDE DEF data
<1>4. room \in Nat
  BY <1>2
<1>5. n \in 0..Len(s) /\ n <= data /\ n <= room
  <2>1. Len(s) \in Nat
    BY <1>2, SeqFacts
  <2> QED BY <1>3, <1>4, <2>1
<1>6. m \in 0..Frame
  BY <1>2, <1>4, <1>5
<1>7. \A i \in 1..n : s[i].len = 1
  <2> SUFFICES ASSUME NEW i \in 1..n PROVE s[i].len = 1
    OBVIOUS
  <2>1. i \in 1..data /\ i \in 1..Len(s)
    BY <1>3, <1>5
  <2>2. s[i].len > 0
    BY <1>3, <2>1
  <2>3. s[i] \in ItemType
    BY <1>2, <2>1
  <2>4. s[i].len \in Lens
    BY <2>3 DEF ItemType
  <2> QED BY <2>2, <2>4 DEF Lens, Invalid
<1> HIDE DEF n
<1>8. F \in SUBSET Flags.in /\ ("enabled" \in F <=> "enabled" \in c.iflags) /\ ("purging" \in F <=> "purging" \in c.iflags)
  BY <1>2 DEF Toggled, Flags
<1>9. r \in Seq(ItemType)
  <2> HIDE DEF s
  <2>1. SubSeq(s, n + 1, Len(s)) \in Seq(ItemType)
    BY <1>2, <1>5, Divided
  <2> QED BY <2>1 DEF s
<1> HIDE DEF F, r, m
<1>10. /\ d \in CodecType(k) /\ SameMode(c, d) /\ SameTask(c, d) /\ SameOut(c, d)
       /\ d.in = r /\ d.iflags = F
  BY <1>6, <1>8, <1>9, PutInputFields
<1> HIDE DEF d, o
<1>11. /\ ("enabled" \in d.iflags <=> "enabled" \in c.iflags) /\ (Purging(d) <=> Purging(c))
       /\ d.in = SubSeq(c.in, n + 1, Len(c.in))
       /\ o = [i \in 1..n |-> Answered(c.in[i], c.in[i].len)]
  BY <1>8, <1>10 DEF Purging, r, o
<1> QED BY <1>1, <1>5, <1>7, <1>10, <1>11

\* Component k has become e and sent out what it took off its input: its phase and its
\* output are as they were.
Fed(k, e, out) == LET c == codec[k] IN
    /\ e \in CodecType(k) /\ e.mode = "running" /\ e.prepared = c.prepared /\ e.tree = 0
    /\ e.out = c.out /\ e.oflags = c.oflags /\ e.route = c.route
    /\ ~IsScheduled(e) /\ "eos_seq_done" \notin e.state
    /\ (Initial(e) <=> Initial(c)) /\ (Completed(e) <=> Completed(c))
    /\ ("execution" \in e.state <=> "execution" \in c.state)
    /\ ~Purging(e) /\ ("enabled" \in e.iflags \/ \E x \in Items(e.in) : x.op = "empty" /\ x.len = 0)
    /\ Items(e.in) \subseteq Items(c.in) /\ \A x, y : Ahead(e.in, x, y) => Ahead(c.in, x, y)
    /\ out \in Seq(OutType) /\ Plain(k, {}, out) /\ Ordered(out)
    /\ \A x \in Items(out), y \in Items(e.in) : IsControl(x) => ~Of(y, x.msg.of)
    /\ ~ToApp(out, Cmd) /\ ~ToApp(out, Msg(k, "start"))

\* Taken off the tree; pointed to its output.
TakenOff(c) == [c EXCEPT !.state = @ \ {"schedule"}, !.tree = @ - 1]
PutSetup(c, S, p) == [c EXCEPT !.state = S, !.ptr = p]

\* What that leaves alone.
LEMMA TakenOffFields ==
    ASSUME NEW k \in Codecs, NEW c \in CodecType(k), c.tree = 1
    PROVE  LET d == TakenOff(c) IN
           /\ d \in CodecType(k) /\ SameMode(c, d) /\ SameIn(c, d) /\ SameOut(c, d)
           /\ d.state = c.state \ {"schedule"} /\ d.tree = 0
<1> DEFINE S == c.state \ {"schedule"}
           n == c.tree - 1
           d == [c EXCEPT !.state = S, !.tree = n]
<1>1. n = 0 /\ S \in SUBSET Flags.state
  BY DEF CodecType
<1>2. n \in Nat
  BY <1>1
<1>3. TakenOff(c) = d
  BY DEF TakenOff
<1> HIDE DEF S, n
<1>4. /\ d \in CodecType(k) /\ SameMode(c, d) /\ SameIn(c, d) /\ SameOut(c, d)
      /\ d.state = S /\ d.tree = n
  BY <1>1, <1>2 DEF CodecType, SameMode, SameIn, SameOut
<1> QED BY <1>1, <1>3, <1>4 DEF S

\* What setting up the output leaves alone.
LEMMA PutSetupFields ==
    ASSUME NEW k \in Codecs, NEW c \in CodecType(k), NEW S \in SUBSET Flags.state,
           NEW p \in AllMsgs \cup {Msg(k, "scratch")}
    PROVE  LET d == PutSetup(c, S, p) IN
           /\ d \in CodecType(k) /\ SameMode(c, d) /\ SameIn(c, d) /\ SameOut(c, d)
           /\ d.state = S /\ d.tree = c.tree
BY DEF CodecType, SameMode, SameIn, SameOut, PutSetup

\* Another state that is the same phase.
LEMMA FedOn ==
    ASSUME NEW k \in Codecs, NEW e, NEW out, Fed(k, e, out),
           NEW d \in CodecType(k), SameMode(e, d), d.in = e.in, d.iflags = e.iflags, SameOut(e, d), d.tree = e.tree,
           d.state \ {"output_setup", "input_setup"} = e.state \ {"output_setup", "input_setup"}
    PROVE  Fed(k, d, out)
<1>1. /\ (IsScheduled(d) <=> IsScheduled(e)) /\ ("eos_seq_done" \in d.state <=> "eos_seq_done" \in e.state)
      /\ (Initial(d) <=> Initial(e)) /\ (Completed(d) <=> Completed(e))
      /\ ("execution" \in d.state <=> "execution" \in e.state)
  BY DEF IsScheduled, Initial, Completed
<1>2. (Purging(d) <=> Purging(e)) /\ ("enabled" \in d.iflags <=> "enabled" \in e.iflags)
  BY DEF Purging
<1> QED BY <1>1, <1>2 DEF Fed, SameMode, SameOut

\* What it took off its input is what it sent.
FedFrom(k, e, out) == LET s == codec[k].in IN
    \E n \in 0..Len(s) : /\ e.in = SubSeq(s, n + 1, Len(s)) /\ DOMAIN out = 1..n
                         /\ \A i \in 1..n : out[i].msg = s[i].msg

\* The input buffer filled.
LEMMA FedFilled ==
    ASSUME ChainInv, NEW k \in Codecs, Runs(k), NEW e, Fed(k, e, <<>>), e.in = codec[k].in
    PROVE  Fed(k, Filled(e).c, Filled(e).out) /\ FedFrom(k, Filled(e).c, Filled(e).out)
<1> DEFINE c == codec[k]
           g == Filled(e)
           d == g.c
           o == g.out
<1>1. e \in CodecType(k)
  BY DEF Fed
<1> HIDE DEF g
<1>2. PICK n \in 0..Len(e.in) :
        /\ d \in CodecType(k) /\ SameMode(e, d) /\ SameTask(e, d) /\ SameOut(e, d)
        /\ d.in = SubSeq(e.in, n + 1, Len(e.in))
        /\ ("enabled" \in d.iflags <=> "enabled" \in e.iflags) /\ (Purging(d) <=> Purging(e))
        /\ \A i \in 1..n : e.in[i].len = 1
        /\ o = [i \in 1..n |-> Answered(e.in[i], e.in[i].len)]
  BY <1>1, FilledFacts DEF g
<1> DEFINE f == [i \in 1..n |-> e.in[i].len]
           s == [i \in 1..n |-> Answered(codec[k].in[i], f[i])]
<1>3. n \in 0..Len(c.in) /\ f \in [1..n -> {0, 1}] /\ o = s
  BY <1>2
<1> HIDE DEF f
<1>4. /\ s \in Seq(OutType) /\ Plain(k, {}, s)
      /\ \A y \in Items(s) : y.to = App => y.msg \in {Msg(k, "in"), Msg(k, "eos")}
      /\ \A x, y : Ahead(s, x, y) /\ IsControl(x) => ~Of(y, x.msg.of)
      /\ \A x \in Items(s), y \in Items(SubSeq(codec[k].in, n + 1, Len(codec[k].in))) :
           IsControl(x) => ~Of(y, x.msg.of)
  BY <1>3, InputAnswers
<1> HIDE DEF d, o, s
<1>5. d.in = SubSeq(c.in, n + 1, Len(c.in))
  BY <1>2
<1>6. /\ o \in Seq(OutType) /\ Plain(k, {}, o) /\ Ordered(o)
      /\ \A x \in Items(o), y \in Items(d.in) : IsControl(x) => ~Of(y, x.msg.of)
  BY <1>3, <1>4, <1>5 DEF Ordered
<1>7. ~ToApp(o, Cmd) /\ ~ToApp(o, Msg(k, "start"))
  BY <1>3, <1>4, AppMsgFacts DEF ToApp
<1> DEFINE t == c.in
           r == SubSeq(t, n + 1, Len(t))
<1>8. t \in Seq(ItemType) /\ n \in 0..Len(t) /\ d.in = r
  BY <1>3, <1>5, RunsFacts
<1>9. \A i \in 1..n : t[i].len = 1
  BY <1>2
<1> HIDE DEF t
<1>10. /\ Items(r) \subseteq Items(t)
       /\ \A x, y : Ahead(r, x, y) => Ahead(t, x, y)
       /\ \A i \in DOMAIN t : i > n => t[i] \in Items(r)
  BY <1>8, Divided
<1> HIDE DEF r
<1>11. ASSUME NEW x \in Items(t), x.len = 0 PROVE x \in Items(r)
  <2>1. PICK i \in DOMAIN t : t[i] = x
    BY DEF Items
  <2>2. i \in 1..Len(t) /\ Len(t) \in Nat
    BY <1>8, SeqFacts
  <2>3. i \notin 1..n
    BY <1>9, <1>11, <2>1
  <2>4. i > n
    BY <1>8, <2>2, <2>3
  <2> QED BY <1>10, <2>1, <2>4
<1>12. "enabled" \in d.iflags \/ \E x \in Items(d.in) : x.op = "empty" /\ x.len = 0
  BY <1>2, <1>8, <1>11 DEF Fed, t
<1>13. Items(d.in) \subseteq Items(c.in) /\ \A x, y : Ahead(d.in, x, y) => Ahead(c.in, x, y)
  BY <1>8, <1>10 DEF t
<1>14. /\ d.mode = e.mode /\ d.prepared = e.prepared /\ d.tree = e.tree /\ d.state = e.state
       /\ d.out = e.out /\ d.oflags = e.oflags /\ d.route = e.route
  BY <1>2 DEF SameMode, SameTask, SameOut
<1>15. (IsScheduled(d) <=> IsScheduled(e)) /\ (Initial(d) <=> Initial(e)) /\ (Completed(d) <=> Completed(e))
  BY <1>14 DEF IsScheduled, Initial, Completed
<1>16. Fed(k, d, o)
  BY <1>2, <1>6, <1>7, <1>12, <1>13, <1>14, <1>15 DEF Fed
<1>17. FedFrom(k, d, o)
  <2>1. DOMAIN s = 1..n /\ \A i \in 1..n : s[i].msg = codec[k].in[i].msg
    BY ItemFacts DEF Answered, s
  <2>3. n \in 0..Len(c.in) /\ d.in = SubSeq(c.in, n + 1, Len(c.in)) /\ o = s
    BY <1>3, <1>5
  <2> QED BY <2>1, <2>3 DEF FedFrom
<1> QED BY <1>16, <1>17 DEF d, o, g

\* xa_codec_preprocess
LEMMA PreFacts ==
    ASSUME ChainInv, NEW k \in Codecs, Runs(k)
    PROVE  LET pre == Preprocessed(k, TakenOff(codec[k])) IN Fed(k, pre.c, pre.out) /\ FedFrom(k, pre.c, pre.out)
<1> DEFINE c == codec[k]
           c0 == TakenOff(c)
           init == "runtime_init" \in c0.state
           S == c0.state \cup {"output_setup"}
           p == IF init THEN Msg(k, "scratch") ELSE Head(c0.out)
           o1 == PutSetup(c0, S, p)
           o == IF "output_setup" \in c0.state THEN c0 ELSE o1
           g == Filled(o)
           fc == IF "done" \in o.iflags THEN o ELSE g.c
           fout == IF "done" \in o.iflags THEN <<>> ELSE g.out
           R == fc.state \cup {"input_setup"}
           u == PutState(fc, R)
           pre == Preprocessed(k, c0)
<1>1. \/ pre.c = c0 /\ pre.out = <<>>
      \/ pre.c = o /\ pre.out = <<>>
      \/ pre.c = fc /\ pre.out = fout
      \/ pre.c = u /\ pre.out = fout
  BY DEF Preprocessed, PutState, PutSetup
<1>2. /\ c \in CodecType(k) /\ TaskOk(k, c) /\ InputOk(c) /\ c.mode = "running" /\ IsScheduled(c) /\ c.out # <<>>
      /\ ~Purging(c) /\ "eos_seq_done" \notin c.state /\ c.out \in Seq(AllMsgs)
  BY RunsFacts
<1>3. c.tree = 1
  BY <1>2 DEF TaskOk
<1>4. /\ c0 \in CodecType(k) /\ SameMode(c, c0) /\ SameIn(c, c0) /\ SameOut(c, c0)
      /\ c0.state = c.state \ {"schedule"} /\ c0.tree = 0
  BY <1>2, <1>3, TakenOffFields
<1> HIDE DEF c0
<1>5. c0.in = c.in /\ Fed(k, c0, <<>>)
  <2>1. /\ ~IsScheduled(c0) /\ "eos_seq_done" \notin c0.state
        /\ (Initial(c0) <=> Initial(c)) /\ (Completed(c0) <=> Completed(c))
        /\ ("execution" \in c0.state <=> "execution" \in c.state)
    BY <1>2, <1>4 DEF IsScheduled, Initial, Completed
  <2>2. /\ <<>> \in Seq(OutType) /\ Plain(k, {}, <<>>) /\ \A m : ~ToApp(<<>>, m)
    BY NothingSent
  <2>3. Ordered(<<>>) /\ \A x \in Items(<<>>), y \in Items(c0.in) : IsControl(x) => ~Of(y, x.msg.of)
    BY EmptyItems DEF Ordered
  <2>4. /\ c0.in = c.in /\ c0.iflags = c.iflags /\ c0.mode = "running" /\ c0.prepared = c.prepared
        /\ c0.out = c.out /\ c0.oflags = c.oflags /\ c0.route = c.route
    BY <1>2, <1>4 DEF SameMode, SameIn, SameOut
  <2>5. ~Purging(c0) /\ ("enabled" \in c0.iflags \/ \E x \in Items(c0.in) : x.op = "empty" /\ x.len = 0)
    BY <1>2, <2>4 DEF Purging, InputOk
  <2> QED BY <1>4, <2>1, <2>2, <2>3, <2>4, <2>5 DEF Fed
<1>6. S \in SUBSET Flags.state /\ p \in AllMsgs \cup {Msg(k, "scratch")}
  <2>1. S \in SUBSET Flags.state
    BY <1>4 DEF CodecType, Flags
  <2>2. c0.out # <<>> /\ c0.out \in Seq(AllMsgs)
    BY <1>2, <1>4 DEF SameOut
  <2> DEFINE s == c0.out
  <2>3. s # <<>> /\ s \in Seq(AllMsgs)
    BY <2>2
  <2> HIDE DEF s
  <2>4. Head(s) \in AllMsgs
    BY <2>3, Rest
  <2> QED BY <2>1, <2>4 DEF s
<1>7. S = c0.state \cup {"output_setup"}
  OBVIOUS
<1> HIDE DEF S, p
<1>8. /\ o1 \in CodecType(k) /\ SameMode(c0, o1) /\ SameIn(c0, o1) /\ SameOut(c0, o1)
      /\ o1.state = S /\ o1.tree = c0.tree
  BY <1>4, <1>6, PutSetupFields
<1> HIDE DEF o1
<1>9. Fed(k, o1, <<>>) /\ o1.in = c.in
  <2>1. o1.state \ {"output_setup", "input_setup"} = c0.state \ {"output_setup", "input_setup"}
    BY <1>7, <1>8
  <2>2. o1.in = c0.in /\ o1.iflags = c0.iflags
    BY <1>8 DEF SameIn
  <2> QED BY <1>5, <1>8, <2>1, <2>2, FedOn
<1>10. Fed(k, o, <<>>) /\ o.in = c.in
  BY <1>5, <1>9
<1> HIDE DEF o
<1>11. Fed(k, g.c, g.out) /\ FedFrom(k, g.c, g.out)
  BY <1>10, FedFilled
<1> HIDE DEF g
<1>18. ASSUME NEW f, f.in = c.in PROVE FedFrom(k, f, <<>>)
  <2> DEFINE s == codec[k].in
  <2>1. s \in Seq(ItemType)
    BY RunsFacts
  <2>2. f.in = s
    BY <1>18
  <2> HIDE DEF s
  <2>3. 0 \in 0..Len(s) /\ SubSeq(s, 0 + 1, Len(s)) = s
    BY <2>1, SeqFacts, Divided
  <2>4. DOMAIN <<>> = 1..0 /\ \A i \in 1..0 : <<>>[i].msg = s[i].msg
    OBVIOUS
  <2> QED BY <2>2, <2>3, <2>4 DEF FedFrom, s
<1>19. FedFrom(k, c0, <<>>) /\ FedFrom(k, o, <<>>)
  BY <1>5, <1>10, <1>18
<1>12. Fed(k, fc, fout) /\ FedFrom(k, fc, fout)
  BY <1>10, <1>11, <1>19
<1>13. R = fc.state \cup {"input_setup"}
  OBVIOUS
<1> HIDE DEF R, fc, fout
<1>14. fc \in CodecType(k) /\ R \in SUBSET Flags.state
  BY <1>12, <1>13 DEF Fed, CodecType, Flags
<1>15. /\ u \in CodecType(k) /\ SameMode(fc, u) /\ SameIn(fc, u) /\ SameOut(fc, u)
       /\ u.state = R /\ u.tree = fc.tree
  BY <1>14, PutStateFields
<1> HIDE DEF u
<1>16. Fed(k, u, fout)
  <2>1. u.state \ {"output_setup", "input_setup"} = fc.state \ {"output_setup", "input_setup"}
    BY <1>13, <1>15
  <2> QED BY <1>12, <1>15, <2>1, FedOn DEF SameIn
<1>20. FedFrom(k, u, fout)
  <2>1. u.in = fc.in
    BY <1>15 DEF SameIn
  <2> QED BY <1>12, <2>1 DEF FedFrom
<1> HIDE DEF pre
<1>17. Fed(k, pre.c, pre.out) /\ FedFrom(k, pre.c, pre.out)
  BY <1>1, <1>5, <1>10, <1>12, <1>16, <1>19, <1>20
<1> QED BY <1>17 DEF pre, c0

\* A run: first what it took off its input was sent, then out.
LEMMA PostStep ==
    ASSUME ChainInv, NEW k \in Codecs, Runs(k), NEW e, NEW first, Fed(k, e, first),
           NEW d \in CodecType(k), NEW out \in Seq(OutType),
           codec' = [codec EXCEPT ![k] = d],
           Sent(WorkerOf[k], <<>>, queue[WorkerOf[k]], first \o out), Told(first \o out),
           CompOk(k, d), d.mode = "running", d.in = e.in \/ d.in = <<>>,
           \A y \in Items(out) : Down(k, {}, d, y) /\ ~IsFlush(y, k), Ordered(out),
           \A x \in Items(out), y \in Items(d.in) : IsControl(x) => ~Of(y, x.msg.of),
           \A x \in Items(first), y \in Items(out) : IsControl(x) => ~Of(y, x.msg.of),
           d.route = RouteOf(k), (Routed(d) <=> Routed(codec[k])), ~Unrouting(d),
           "idle" \in d.oflags => "idle" \in codec[k].oflags,
           ~ToApp(out, Cmd), StartOk(k, {}, d, out), ~(IsScheduled(d) /\ Completed(d))
    PROVE  ChainInv'
<1> DEFINE r == first \o out
<1>1. /\ first \in Seq(OutType) /\ Plain(k, {}, first) /\ Ordered(first)
      /\ \A x \in Items(first), y \in Items(e.in) : IsControl(x) => ~Of(y, x.msg.of)
      /\ ~ToApp(first, Cmd) /\ ~ToApp(first, Msg(k, "start"))
      /\ Items(e.in) \subseteq Items(codec[k].in) /\ \A x, y : Ahead(e.in, x, y) => Ahead(codec[k].in, x, y)
  BY DEF Fed
<1>2. /\ r \in Seq(OutType) /\ Items(r) = Items(first) \cup Items(out) /\ Ordered(r)
      /\ \A m : ToApp(r, m) <=> (ToApp(first, m) \/ ToApp(out, m))
  BY <1>1, PlainJoined
<1>3. Sent(WorkerOf[k], <<>>, queue[WorkerOf[k]], r) /\ Told(r)
  OBVIOUS
<1> HIDE DEF r
<1>4. \A y \in Items(first) : Down(k, {}, d, y) /\ ~IsFlush(y, k)
  BY <1>1, PlainFacts DEF Plain, Down, IsFlush
<1>5. \A y \in Items(r) : Down(k, {}, d, y) /\ ~IsFlush(y, k)
  BY <1>2, <1>4
<1>6. \A x \in Items(r), y \in Items(d.in) : IsControl(x) => ~Of(y, x.msg.of)
  BY <1>1, <1>2, EmptyItems
<1>7. InOk(k, {}, d)
  BY <1>1, InputKept, EmptyItems
<1>8. StartTold(r, k) <=> StartTold(out, k)
  <2>1. ~StartTold(first, k)
    BY <1>1 DEF StartTold, ToApp
  <2> QED BY <1>2, <2>1 DEF StartTold
<1>9. StartOk(k, {}, d, r)
  BY <1>1, <1>2, <1>8 DEF StartOk
<1>10. ~ToApp(r, Cmd)
  BY <1>1, <1>2
<1> QED BY <1>2, <1>3, <1>5, <1>6, <1>7, <1>9, <1>10, RunStep

\* What a component is while it runs, and what it takes to be one that has run.
LEMMA FedFacts ==
    ASSUME ChainInv, NEW k \in Codecs, Runs(k), NEW e, NEW out, Fed(k, e, out)
    PROVE  /\ e \in CodecType(k) /\ OnePhase(e) /\ (e.prepared <=> ~Initial(e)) /\ e.mode = "running"
           /\ e.route = RouteOf(k) /\ (Routed(e) <=> Routed(codec[k])) /\ ~Unrouting(e) /\ ~Flushing(e)
           /\ e.out # <<>> /\ e.out \in Seq(AllMsgs) /\ Head(e.out) \in Items(e.out)
           /\ Items(Tail(e.out)) \subseteq Items(e.out) /\ Tail(e.out) \in Seq(AllMsgs)
           /\ (Completed(e) => e.in = <<>> /\ Routed(e))
           /\ Initial(e) => ~Routed(e) /\ e.out = <<Msg(k, "start")>>
           /\ ~Initial(e) /\ Routed(e) => \A m \in Items(e.out) : m \in {Msg(k, what) : what \in Bufs}
           /\ ~Initial(e) /\ ~Routed(e) => k \in Sinks /\ \A m \in Items(e.out) : m = Msg(k, "out")
           /\ InputOk(e) /\ OutputOk(k, e) /\ e.in \in Seq(ItemType)
           /\ (Routed(e) => k \notin Sinks)
<1> DEFINE c == codec[k]
<1>1. /\ c \in CodecType(k) /\ TaskOk(k, c) /\ InputOk(c) /\ OutputOk(k, c) /\ c.mode = "running" /\ ~Gone(k)
      /\ c.out # <<>> /\ ~Flushing(c) /\ ~Unrouting(c) /\ ~Purging(c)
      /\ (Completed(c) => c.in = <<>> /\ Routed(c))
      /\ c.out \in Seq(AllMsgs) /\ c.in \in Seq(ItemType) /\ c.route = RouteOf(k)
  BY RunsFacts
<1>2. /\ e \in CodecType(k) /\ e.mode = "running" /\ e.prepared = c.prepared
      /\ e.out = c.out /\ e.oflags = c.oflags /\ e.route = c.route
      /\ (Initial(e) <=> Initial(c)) /\ (Completed(e) <=> Completed(c))
      /\ ("execution" \in e.state <=> "execution" \in c.state)
      /\ ~Purging(e) /\ ("enabled" \in e.iflags \/ \E x \in Items(e.in) : x.op = "empty" /\ x.len = 0)
      /\ Items(e.in) \subseteq Items(c.in)
  BY DEF Fed
<1>3. (Routed(e) <=> Routed(c)) /\ (Unrouting(e) <=> Unrouting(c)) /\ (Flushing(e) <=> Flushing(c))
  BY <1>2 DEF Routed, Unrouting, Flushing
<1>4. OnePhase(e) /\ (e.prepared <=> ~Initial(e))
  BY <1>1, <1>2 DEF TaskOk, OnePhase
<1> DEFINE s == e.out
<1>5. s # <<>> /\ s \in Seq(AllMsgs)
  BY <1>1, <1>2
<1> HIDE DEF s
<1>6. Head(s) \in Items(s) /\ Items(Tail(s)) \subseteq Items(s) /\ Tail(s) \in Seq(AllMsgs) /\ Items(s) # {}
  <2>1. /\ Head(s) \in AllMsgs /\ Tail(s) \in Seq(AllMsgs)
        /\ Items(s) = {Head(s)} \cup Items(Tail(s))
    BY <1>5, Rest
  <2> QED BY <2>1
<1>7. e.in \in Seq(ItemType)
  BY <1>2 DEF CodecType
<1>8. Completed(e) => e.in = <<>>
  <2> DEFINE t == e.in
             t0 == c.in
  <2>1. t \in Seq(ItemType) /\ Items(t) \subseteq Items(t0) /\ (Completed(e) => t0 = <<>>)
    BY <1>1, <1>2, <1>7
  <2> HIDE DEF t, t0
  <2>2. Completed(e) => Items(t) = {}
    BY <2>1, EmptyItems
  <2>3. Completed(e) => t = <<>>
    BY <2>1, <2>2, SeqFacts
  <2> QED BY <2>3 DEF t
<1>9. InputOk(e)
  BY <1>1, <1>2 DEF InputOk
<1>10. OutputOk(k, e)
  BY <1>1, <1>2, <1>3 DEF OutputOk
<1>11. Routed(e) => k \notin Sinks
  BY <1>1, <1>3, Mine
<1>12. ~Initial(e) /\ ~Routed(e) => k \in Sinks
  BY <1>6, <1>10 DEF OutputOk, s
<1>13. Initial(e) => ~Routed(e) /\ e.out = <<Msg(k, "start")>>
  BY <1>1, <1>2, <1>10 DEF OutputOk
<1>14. Completed(e) => Routed(e)
  BY <1>1, <1>2, <1>3
<1>15. /\ ~Initial(e) /\ Routed(e) => \A m \in Items(e.out) : m \in {Msg(k, what) : what \in Bufs}
       /\ ~Initial(e) /\ ~Routed(e) => \A m \in Items(e.out) : m = Msg(k, "out")
  BY <1>10 DEF OutputOk
<1>16. /\ e.out # <<>> /\ e.out \in Seq(AllMsgs) /\ Head(e.out) \in Items(e.out)
       /\ Items(Tail(e.out)) \subseteq Items(e.out) /\ Tail(e.out) \in Seq(AllMsgs)
  BY <1>5, <1>6 DEF s
<1> QED BY <1>1, <1>2, <1>3, <1>4, <1>7, <1>8, <1>9, <1>10, <1>11, <1>12, <1>13, <1>14, <1>15, <1>16

\* One that sends nothing more: its phase and ports are as they were, and it may be
\* scheduled again.
LEMMA QuietRun ==
    ASSUME ChainInv, NEW k \in Codecs, Runs(k), NEW e, NEW out, Fed(k, e, out),
           NEW d \in CodecType(k), SameMode(e, d), d.in = e.in, d.iflags = e.iflags, SameOut(e, d),
           (Initial(d) <=> Initial(e)), (Completed(d) <=> Completed(e)),
           ("execution" \in d.state <=> "execution" \in e.state), "eos_seq_done" \notin d.state,
           d.tree = IF IsScheduled(d) THEN 1 ELSE 0, ~(IsScheduled(d) /\ Completed(d)),
           codec' = [codec EXCEPT ![k] = d],
           Sent(WorkerOf[k], <<>>, queue[WorkerOf[k]], out \o <<>>), Told(out \o <<>>)
    PROVE  ChainInv'
<1>1. /\ e \in CodecType(k) /\ OnePhase(e) /\ (e.prepared <=> ~Initial(e)) /\ e.mode = "running"
      /\ e.route = RouteOf(k) /\ (Routed(e) <=> Routed(codec[k])) /\ ~Unrouting(e) /\ ~Flushing(e)
      /\ e.out # <<>> /\ (Completed(e) => e.in = <<>> /\ Routed(e))
      /\ InputOk(e) /\ OutputOk(k, e)
  BY FedFacts
<1>2. /\ d.mode = "running" /\ d.prepared = e.prepared /\ d.in = e.in /\ d.iflags = e.iflags /\ d.out = e.out
      /\ d.oflags = e.oflags /\ d.route = e.route
  BY <1>1 DEF SameMode, SameOut
<1>3. /\ (Routed(d) <=> Routed(e)) /\ ~Unrouting(d) /\ ~Flushing(d) /\ (Purging(d) <=> Purging(e))
      /\ OnePhase(d) /\ (d.prepared <=> ~Initial(d))
  BY <1>1, <1>2 DEF Routed, Unrouting, Flushing, Purging, OnePhase
<1>4. CompOk(k, d)
  <2>1. TaskOk(k, d)
    BY <1>1, <1>2, <1>3 DEF TaskOk
  <2>2. InputOk(d)
    BY <1>1, <1>2, <1>3 DEF InputOk
  <2>3. OutputOk(k, d)
    BY <1>1, <1>2, <1>3 DEF OutputOk
  <2> QED BY <2>1, <2>2, <2>3 DEF CompOk
<1>5. /\ "idle" \in d.oflags => "idle" \in codec[k].oflags
      /\ (Initial(d) <=> Initial(codec[k])) /\ d.out = codec[k].out
      /\ d.route = RouteOf(k) /\ (Routed(d) <=> Routed(codec[k])) /\ (d.in = e.in \/ d.in = <<>>)
  BY <1>1, <1>2, <1>3 DEF Fed
<1> DEFINE o == <<>>
<1>6. o \in Seq(OutType) /\ Items(o) = {} /\ (\A x, y : ~Ahead(o, x, y)) /\ \A m : ~ToApp(o, m)
  BY EmptyItems DEF ToApp
<1>7. Sent(WorkerOf[k], <<>>, queue[WorkerOf[k]], out \o o) /\ Told(out \o o)
  OBVIOUS
<1> HIDE DEF o
<1>8. Ordered(o)
  BY <1>6 DEF Ordered
<1>9. StartOk(k, {}, d, o)
  BY <1>5, <1>6, NoStart DEF HasMsg
<1>10. /\ \A y \in Items(o) : Down(k, {}, d, y) /\ ~IsFlush(y, k)
       /\ \A x \in Items(o), y \in Items(d.in) : IsControl(x) => ~Of(y, x.msg.of)
       /\ \A x \in Items(out), y \in Items(o) : IsControl(x) => ~Of(y, x.msg.of)
  BY <1>6
<1> QED BY <1>2, <1>3, <1>4, <1>5, <1>6, <1>7, <1>8, <1>9, <1>10, PostStep

\* A buffer that goes to the next component or the application.
LEMMA PassedFacts ==
    ASSUME ChainInv, NEW k \in Codecs, Runs(k), NEW e, NEW first, Fed(k, e, first),
           NEW c \in CodecType(k), c.route = e.route, NEW m, m = Head(e.out)
    PROVE  LET s == <<Passed(c, m, 1)>> IN
           /\ s \in Seq(OutType) /\ Ordered(s)
           /\ \A y \in Items(s) : /\ y.msg = m /\ m.of = k /\ ~IsControl(y) /\ y.op # "flush" /\ y.len = 1
                                  /\ (y.to = App <=> ~Routed(e))
           /\ \A d : (Routed(e) => Routed(d) /\ d.route = RouteOf(k) /\ "idle" \notin d.oflags) =>
                \A y \in Items(s) : Down(k, {}, d, y)
           /\ ~ToApp(s, Cmd) /\ (Initial(e) <=> ToApp(s, Msg(k, "start"))) /\ (Initial(e) <=> StartTold(s, k))
<1> DEFINE y == Passed(c, m, 1)
           s == <<y>>
<1>1. /\ e.route = RouteOf(k) /\ (Routed(e) <=> Routed(codec[k])) /\ ~Flushing(e)
      /\ e.out \in Seq(AllMsgs) /\ m \in Items(e.out)
      /\ Initial(e) => ~Routed(e) /\ e.out = <<Msg(k, "start")>>
      /\ ~Initial(e) /\ Routed(e) => \A u \in Items(e.out) : u \in {Msg(k, what) : what \in Bufs}
      /\ ~Initial(e) /\ ~Routed(e) => k \in Sinks /\ \A u \in Items(e.out) : u = Msg(k, "out")
  BY FedFacts
<1>2. ~Gone(k) /\ (Routed(codec[k]) => RouteOf(k) \in Codecs) /\ ~Flushing(codec[k])
  BY RunsFacts, Mine
<1>3. CASE Initial(e)
  <2>1. m = Msg(k, "start")
    BY <1>1, <1>3
  <2>2. m \in AppMsgs /\ m \in AllMsgs /\ ~FromPool(m) /\ m # Cmd /\ m.of = k
    BY <2>1, MsgFacts, AppMsgFacts
  <2>3. y = Item(App, m, "fill", 1)
    BY <2>2 DEF Passed
  <2>4. y \in OutType /\ y.to = App /\ y.msg = m /\ y.op = "fill" /\ y.len = 1
    <3> DEFINE u == Item(App, m, "fill", 1)
    <3>1. u.to = App /\ u.msg = m /\ u.op = "fill" /\ u.len = 1
      BY ItemFacts
    <3>2. u \in OutType
      BY <2>2, ItemFacts DEF Ops, Lens
    <3>3. y = u
      BY <2>3
    <3> HIDE DEF u, y
    <3> QED BY <3>1, <3>2, <3>3
  <2> HIDE DEF y
  <2>5. Items(s) = {y} /\ (\A u, v : ~Ahead(s, u, v)) /\ s \in Seq(OutType)
    BY <2>4, OneItem
  <2> HIDE DEF s
  <2>6. ~IsControl(y)
    BY <2>2, <2>4, AppMsgFacts
  <2>7. \A d : Down(k, {}, d, y)
    BY <2>2, <2>4 DEF Down, AppReply
  <2>8. ToApp(s, Msg(k, "start")) /\ StartTold(s, k) /\ ~ToApp(s, Cmd)
    BY <2>1, <2>2, <2>4, <2>5 DEF ToApp, StartTold
  <2>9. Ordered(s)
    BY <2>5 DEF Ordered
  <2>10. ~Routed(e)
    BY <1>1, <1>3
  <2>11. /\ s \in Seq(OutType) /\ Ordered(s)
         /\ \A z \in Items(s) : /\ z.msg = m /\ m.of = k /\ ~IsControl(z) /\ z.op # "flush" /\ z.len = 1
                                /\ (z.to = App <=> ~Routed(e))
         /\ \A d : \A z \in Items(s) : Down(k, {}, d, z)
    BY <2>2, <2>4, <2>5, <2>6, <2>7, <2>9, <2>10
  <2> QED BY <1>3, <2>5, <2>8, <2>11 DEF s, y
<1>4. CASE ~Initial(e) /\ Routed(e)
  <2>1. PICK what \in Bufs : m = Msg(k, what)
    BY <1>1, <1>4
  <2>2. what \in Pool /\ what # "control"
    BY <2>1, NamesAssumption DEF Pool
  <2>3. m \in AllMsgs /\ FromPool(m) /\ m.of = k /\ m.what = what /\ m # Cmd /\ m # Msg(k, "start")
    <3>1. m \in AllMsgs /\ FromPool(m) /\ m.of = k /\ m.what = what
      BY <2>1, <2>2, MsgFacts
    <3>2. m # Cmd /\ m # Msg(k, "start")
      BY <3>1, AppMsgFacts, MsgFacts
    <3> QED BY <3>1, <3>2
  <2>4. y = Item(RouteOf(k), m, "empty", 1)
    BY <1>1, <2>3 DEF Passed
  <2>5. /\ y \in OutType /\ y.to = RouteOf(k) /\ y.msg = m /\ y.op = "empty" /\ y.len = 1 /\ y.to # App
    BY <1>1, <1>2, <1>4, <2>3, <2>4, ItemFacts, AppAssumption DEF Ops, Lens
  <2> HIDE DEF y
  <2>6. Items(s) = {y} /\ (\A u, v : ~Ahead(s, u, v)) /\ s \in Seq(OutType)
    BY <2>5, OneItem
  <2> HIDE DEF s
  <2>7. ~IsControl(y)
    BY <2>2, <2>3, <2>5 DEF IsControl
  <2>8. ASSUME NEW d, Routed(d), d.route = RouteOf(k), "idle" \notin d.oflags PROVE Down(k, {}, d, y)
    <3>1. ForthKind(y)
      BY <2>1, <2>3, <2>5 DEF ForthKind
    <3>2. Of(y, k)
      BY <2>3, <2>5 DEF Of
    <3>3. IsSent(k, d, y)
      BY <1>1, <1>2, <1>4, <2>5, <2>7, <2>8, <3>1, <3>2 DEF IsSent, Flushing
    <3> QED BY <3>3 DEF Down
  <2>9. ~ToApp(s, Msg(k, "start")) /\ ~StartTold(s, k) /\ ~ToApp(s, Cmd)
    BY <2>5, <2>6 DEF ToApp, StartTold
  <2>10. Ordered(s)
    BY <2>6 DEF Ordered
  <2>11. /\ s \in Seq(OutType) /\ Ordered(s)
         /\ \A z \in Items(s) : /\ z.msg = m /\ m.of = k /\ ~IsControl(z) /\ z.op # "flush" /\ z.len = 1
                                /\ (z.to = App <=> ~Routed(e))
         /\ \A d : (Routed(e) => Routed(d) /\ d.route = RouteOf(k) /\ "idle" \notin d.oflags) =>
              \A z \in Items(s) : Down(k, {}, d, z)
    BY <1>4, <2>3, <2>5, <2>6, <2>7, <2>8, <2>10
  <2> QED BY <1>4, <2>6, <2>9, <2>11 DEF s, y
<1>5. CASE ~Initial(e) /\ ~Routed(e)
  <2>1. m = Msg(k, "out") /\ k \in Sinks
    BY <1>1, <1>5
  <2>2. m \in AppMsgs /\ m \in AllMsgs /\ ~FromPool(m) /\ m # Cmd /\ m.of = k /\ m # Msg(k, "start")
    BY <2>1, MsgFacts, AppMsgFacts
  <2>3. y = Item(App, m, "fill", 1)
    BY <2>2 DEF Passed
  <2>4. y \in OutType /\ y.to = App /\ y.msg = m /\ y.op = "fill" /\ y.len = 1
    <3> DEFINE u == Item(App, m, "fill", 1)
    <3>1. u.to = App /\ u.msg = m /\ u.op = "fill" /\ u.len = 1
      BY ItemFacts
    <3>2. u \in OutType
      BY <2>2, ItemFacts DEF Ops, Lens
    <3>3. y = u
      BY <2>3
    <3> HIDE DEF u, y
    <3> QED BY <3>1, <3>2, <3>3
  <2> HIDE DEF y
  <2>5. Items(s) = {y} /\ (\A u, v : ~Ahead(s, u, v)) /\ s \in Seq(OutType)
    BY <2>4, OneItem
  <2> HIDE DEF s
  <2>6. ~IsControl(y)
    BY <2>2, <2>4, AppMsgFacts
  <2>7. \A d : Down(k, {}, d, y)
    BY <2>2, <2>4 DEF Down, AppReply
  <2>8. ~ToApp(s, Msg(k, "start")) /\ ~StartTold(s, k) /\ ~ToApp(s, Cmd)
    BY <2>2, <2>4, <2>5 DEF ToApp, StartTold
  <2>9. Ordered(s)
    BY <2>5 DEF Ordered
  <2>11. /\ s \in Seq(OutType) /\ Ordered(s)
         /\ \A z \in Items(s) : /\ z.msg = m /\ m.of = k /\ ~IsControl(z) /\ z.op # "flush" /\ z.len = 1
                                /\ (z.to = App <=> ~Routed(e))
         /\ \A d : \A z \in Items(s) : Down(k, {}, d, z)
    BY <1>5, <2>2, <2>4, <2>5, <2>6, <2>7, <2>9
  <2> QED BY <1>5, <2>5, <2>8, <2>11 DEF s, y
<1> QED BY <1>3, <1>4, <1>5

\* What a component that is initialised, or has produced, leaves alone.
LEMMA PassingFields ==
    ASSUME NEW k \in Codecs, NEW c \in CodecType(k), Tail(c.out) \in Seq(AllMsgs)
    PROVE  /\ LET d == Prepared(c).c IN
              /\ d \in CodecType(k) /\ d.mode = c.mode /\ d.prepared = TRUE /\ SameIn(c, d) /\ d.tree = c.tree
              /\ d.state = c.state \ {"input_setup", "output_setup"} /\ d.out = Tail(c.out)
              /\ d.oflags = c.oflags \ {"idle"} /\ d.route = c.route
           /\ LET d == Produced(c).c IN
              /\ d \in CodecType(k) /\ SameMode(c, d) /\ SameIn(c, d) /\ d.tree = c.tree
              /\ d.state = Toggled(c.state, {"output_setup"}) /\ d.out = Tail(c.out)
              /\ d.oflags = c.oflags \ {"idle"} /\ d.route = c.route
<1> DEFINE s == Tail(c.out)
           S1 == c.state \ {"input_setup", "output_setup"}
           S2 == Toggled(c.state, {"output_setup"})
           F == c.oflags \ {"idle"}
           d1 == [c EXCEPT !.out = s, !.oflags = F, !.prepared = TRUE, !.state = S1, !.ptr = None]
           d2 == [c EXCEPT !.out = s, !.oflags = F, !.state = S2, !.ptr = None]
<1>1. Prepared(c).c = d1 /\ Produced(c).c = d2
  BY DEF Prepared, Produced
<1>2. F \in SUBSET Flags.out /\ S1 \in SUBSET Flags.state /\ S2 \in SUBSET Flags.state
  BY DEF CodecType, Flags, Toggled
<1>3. s \in Seq(AllMsgs)
  OBVIOUS
<1> HIDE DEF s, S1, S2, F
<1>4. /\ d1 \in CodecType(k) /\ d1.mode = c.mode /\ d1.prepared = TRUE /\ SameIn(c, d1) /\ d1.tree = c.tree
      /\ d1.state = S1 /\ d1.out = s /\ d1.oflags = F /\ d1.route = c.route
  BY <1>2, <1>3 DEF CodecType, SameIn
<1>5. /\ d2 \in CodecType(k) /\ SameMode(c, d2) /\ SameIn(c, d2) /\ d2.tree = c.tree
      /\ d2.state = S2 /\ d2.out = s /\ d2.oflags = F /\ d2.route = c.route
  BY <1>2, <1>3 DEF CodecType, SameIn, SameMode
<1> HIDE DEF d1, d2
<1> QED BY <1>1, <1>4, <1>5 DEF s, S1, S2, F

\* xa_codec_prepare_runtime
LEMMA PreparedStep ==
    ASSUME ChainInv, NEW k \in Codecs, Runs(k), NEW e, NEW first, Fed(k, e, first), Initial(e),
           NEW e1, e1 = PutState(e, Toggled(e.state, {"runtime_init", "execution"})),
           codec' = [codec EXCEPT ![k] = Prepared(e1).c],
           Sent(WorkerOf[k], <<>>, queue[WorkerOf[k]], first \o (<<>> \o Prepared(e1).out)),
           Told(first \o (<<>> \o Prepared(e1).out))
    PROVE  ChainInv'
<1> DEFINE c == codec[k]
           S == Toggled(e.state, {"runtime_init", "execution"})
           d == Prepared(e1).c
           m == Head(e.out)
           out == <<Passed(e1, m, 1)>>
<1>1. /\ e \in CodecType(k) /\ OnePhase(e) /\ e.mode = "running" /\ (e.prepared <=> ~Initial(e))
      /\ e.route = RouteOf(k) /\ (Routed(e) <=> Routed(codec[k])) /\ ~Unrouting(e) /\ ~Flushing(e)
      /\ e.out # <<>> /\ ~Routed(e) /\ e.out = <<Msg(k, "start")>>
      /\ InputOk(e) /\ OutputOk(k, e)
  BY FedFacts
<1>2. /\ e.tree = 0 /\ ~IsScheduled(e) /\ "eos_seq_done" \notin e.state /\ (Initial(e) <=> Initial(c))
      /\ e.out = c.out /\ e.oflags = c.oflags /\ ~Purging(e)
  BY DEF Fed
<1>3. /\ S \in SUBSET Flags.state /\ "runtime_init" \notin S /\ "execution" \in S /\ "completed" \notin S
      /\ "schedule" \notin S /\ "eos_seq_done" \notin S
  BY <1>1, <1>2 DEF CodecType, Toggled, Flags, OnePhase, Initial, Completed, IsScheduled
<1> HIDE DEF S
<1>4. /\ e1 \in CodecType(k) /\ SameMode(e, e1) /\ SameIn(e, e1) /\ SameOut(e, e1)
      /\ e1.state = S /\ e1.tree = e.tree
  BY <1>1, <1>3, PutStateFields DEF S
<1>5. e1.out = e.out /\ e1.route = e.route /\ e1.oflags = e.oflags
  BY <1>4 DEF SameOut
<1>6. Tail(e1.out) = <<>> /\ Tail(e1.out) \in Seq(AllMsgs)
  <2>1. Tail(e1.out) = <<>>
    <3> DEFINE z == Msg(k, "start")
    <3>1. e1.out = <<z>>
      BY <1>1, <1>5
    <3> HIDE DEF z
    <3>2. Tail(<<z>>) = <<>>
      OBVIOUS
    <3> QED BY <3>1, <3>2
  <2>2. <<>> \in Seq(AllMsgs)
    OBVIOUS
  <2> QED BY <2>1, <2>2
<1>7. LET u == Prepared(e1).c IN
      /\ u \in CodecType(k) /\ u.mode = e1.mode /\ u.prepared = TRUE /\ SameIn(e1, u) /\ u.tree = e1.tree
      /\ u.state = e1.state \ {"input_setup", "output_setup"} /\ u.out = Tail(e1.out)
      /\ u.oflags = e1.oflags \ {"idle"} /\ u.route = e1.route
  BY <1>4, <1>6, PassingFields
<1> HIDE DEF d
<1>8. /\ d \in CodecType(k) /\ d.mode = "running" /\ d.prepared = TRUE /\ d.in = e.in /\ d.iflags = e.iflags
      /\ d.tree = 0 /\ d.state = S \ {"input_setup", "output_setup"} /\ d.out = <<>>
      /\ d.oflags = c.oflags \ {"idle"} /\ d.route = RouteOf(k)
  <2>1. /\ d \in CodecType(k) /\ d.mode = e1.mode /\ d.prepared = TRUE /\ SameIn(e1, d) /\ d.tree = e1.tree
        /\ d.state = e1.state \ {"input_setup", "output_setup"} /\ d.out = Tail(e1.out)
        /\ d.oflags = e1.oflags \ {"idle"} /\ d.route = e1.route
    BY <1>7 DEF d
  <2>2. d.mode = "running" /\ d.in = e.in /\ d.iflags = e.iflags
    BY <1>1, <1>4, <2>1 DEF SameMode, SameIn
  <2>3. d.tree = 0 /\ d.state = S \ {"input_setup", "output_setup"} /\ d.out = <<>>
    BY <1>2, <1>4, <1>6, <2>1
  <2>4. d.oflags = c.oflags \ {"idle"} /\ d.route = RouteOf(k)
    BY <1>1, <1>2, <1>5, <2>1
  <2> QED BY <2>1, <2>2, <2>3, <2>4
<1>9. /\ ~Initial(d) /\ ~Completed(d) /\ OnePhase(d) /\ ~IsScheduled(d) /\ "eos_seq_done" \notin d.state
      /\ (Routed(d) <=> Routed(c)) /\ ~Routed(d) /\ ~Unrouting(d) /\ ~Flushing(d) /\ ~Purging(d)
  <2>1. ~Routed(d) /\ ~Unrouting(d) /\ ~Flushing(d) /\ ~Purging(d)
    BY <1>1, <1>2, <1>8 DEF Routed, Unrouting, Flushing, Purging
  <2> QED BY <1>1, <1>3, <1>8, <2>1 DEF Initial, Completed, OnePhase, IsScheduled
<1>10. CompOk(k, d)
  <2>1. TaskOk(k, d)
    BY <1>8, <1>9 DEF TaskOk
  <2>2. InputOk(d)
    BY <1>1, <1>2, <1>8, <1>9 DEF InputOk
  <2>3. OutputOk(k, d)
    BY <1>8, <1>9, EmptyItems DEF OutputOk
  <2> QED BY <2>1, <2>2, <2>3 DEF CompOk
<1> DEFINE s == <<Passed(e1, m, 1)>>
<1>11. /\ s \in Seq(OutType) /\ Ordered(s)
       /\ \A y \in Items(s) : /\ y.msg = m /\ m.of = k /\ ~IsControl(y) /\ y.op # "flush" /\ y.len = 1
                              /\ (y.to = App <=> ~Routed(e))
       /\ \A u : (Routed(e) => Routed(u) /\ u.route = RouteOf(k) /\ "idle" \notin u.oflags) =>
            \A y \in Items(s) : Down(k, {}, u, y)
       /\ ~ToApp(s, Cmd) /\ (Initial(e) <=> ToApp(s, Msg(k, "start"))) /\ (Initial(e) <=> StartTold(s, k))
  <2>1. e1.route = e.route /\ m = Head(e.out)
    BY <1>5
  <2> HIDE DEF m
  <2> QED BY <1>4, <2>1, PassedFacts
<1>12. <<>> \o Prepared(e1).out = s
  BY <1>5 DEF Prepared
<1> HIDE DEF s
<1>13. Sent(WorkerOf[k], <<>>, queue[WorkerOf[k]], first \o s) /\ Told(first \o s)
  BY <1>12
<1>14. codec' = [codec EXCEPT ![k] = d]
  BY DEF d
<1>15. /\ \A y \in Items(s) : Down(k, {}, d, y) /\ ~IsFlush(y, k)
       /\ \A x \in Items(s), y \in Items(d.in) : IsControl(x) => ~Of(y, x.msg.of)
  BY <1>1, <1>11 DEF IsFlush
<1>16. \A x \in Items(first), y \in Items(s) : IsControl(x) => ~Of(y, x.msg.of)
  <2> SUFFICES ASSUME NEW y \in Items(s) PROVE ~FromPool(y.msg)
    BY DEF Of
  <2>1. y.msg = Msg(k, "start")
    BY <1>1, <1>11
  <2> QED BY <2>1, MsgFacts
<1>17. StartOk(k, {}, d, s)
  BY <1>1, <1>2, <1>9, <1>11 DEF StartOk
<1> QED BY <1>8, <1>9, <1>10, <1>11, <1>13, <1>14, <1>15, <1>16, <1>17, PostStep

\* It has executed; the buffer it has produced, if any, is out.
Made(k, e, m, out, done) ==
    /\ m \in CodecType(k) /\ SameMode(e, m) /\ m.in = e.in /\ m.iflags = e.iflags /\ m.route = e.route /\ m.tree = 0
    /\ m.oflags \ {"idle"} = e.oflags \ {"idle"} /\ ("idle" \in m.oflags => "idle" \in e.oflags)
    /\ m.out \in Seq(AllMsgs) /\ Items(m.out) \subseteq Items(e.out)
    /\ ~IsScheduled(m) /\ ~Initial(m) /\ "eos_seq_done" \notin m.state
    /\ (Completed(m) <=> done) /\ ("execution" \in m.state <=> ~done)
    /\ out \in Seq(OutType) /\ Ordered(out) /\ ~ToApp(out, Cmd) /\ ~ToApp(out, Msg(k, "start"))
    /\ \A y \in Items(out) : y.msg.of = k /\ ~IsControl(y) /\ y.op # "flush"
    /\ \A d : (Routed(e) => Routed(d) /\ d.route = RouteOf(k) /\ "idle" \notin d.oflags) =>
         \A y \in Items(out) : Down(k, {}, d, y)
    /\ out = <<>> \/ "idle" \notin m.oflags

\* What is known of it.
LEMMA MadeFacts ==
    ASSUME ChainInv, NEW k \in Codecs, Runs(k), NEW e, NEW first, Fed(k, e, first), ~Initial(e),
           NEW m, NEW out, NEW done \in BOOLEAN, Made(k, e, m, out, done)
    PROVE  /\ m.mode = "running" /\ m.prepared /\ OnePhase(m) /\ (Routed(m) <=> Routed(codec[k]))
           /\ ~Unrouting(m) /\ ~Flushing(m) /\ ~Purging(m) /\ InputOk(m) /\ OutputOk(k, m) /\ m.route = RouteOf(k)
           /\ ("idle" \in m.oflags => "idle" \in codec[k].oflags) /\ ~Initial(codec[k])
           /\ (Routed(m) <=> Routed(e)) /\ (~Routed(m) => k \in Sinks) /\ (Routed(m) => k \notin Sinks)
           /\ \A x \in Items(first), y \in Items(out) : IsControl(x) => ~Of(y, x.msg.of)
<1>1. /\ (e.prepared <=> ~Initial(e)) /\ e.mode = "running" /\ OnePhase(e)
      /\ e.route = RouteOf(k) /\ (Routed(e) <=> Routed(codec[k])) /\ ~Unrouting(e) /\ ~Flushing(e)
      /\ (~Initial(e) /\ ~Routed(e) => k \in Sinks) /\ (Routed(e) => k \notin Sinks)
      /\ InputOk(e) /\ OutputOk(k, e)
  BY FedFacts
<1>2. /\ ~Purging(e) /\ e.oflags = codec[k].oflags /\ (Initial(e) <=> Initial(codec[k])) /\ Plain(k, {}, first)
      /\ first \in Seq(OutType)
  BY DEF Fed
<1>3. /\ SameMode(e, m) /\ m.in = e.in /\ m.iflags = e.iflags /\ m.route = e.route
      /\ m.oflags \ {"idle"} = e.oflags \ {"idle"} /\ ("idle" \in m.oflags => "idle" \in e.oflags)
      /\ Items(m.out) \subseteq Items(e.out) /\ ~Initial(m)
      /\ (Completed(m) <=> done) /\ ("execution" \in m.state <=> ~done)
      /\ \A y \in Items(out) : y.msg.of = k
  BY DEF Made
<1>4. /\ (Routed(m) <=> Routed(e)) /\ (Unrouting(m) <=> Unrouting(e)) /\ (Flushing(m) <=> Flushing(e))
      /\ (Purging(m) <=> Purging(e))
  BY <1>3 DEF Routed, Unrouting, Flushing, Purging
<1>5. m.mode = "running" /\ m.prepared /\ OnePhase(m)
  BY <1>1, <1>3 DEF SameMode, OnePhase
<1>6. InputOk(m)
  BY <1>1, <1>2, <1>3, <1>4, <1>5 DEF InputOk
<1>7. OutputOk(k, m)
  BY <1>1, <1>3, <1>4, <1>5 DEF OutputOk
<1>8. \A x \in Items(first), y \in Items(out) : IsControl(x) => ~Of(y, x.msg.of)
  <2> SUFFICES ASSUME NEW x \in Items(first), NEW y \in Items(out), IsControl(x), Of(y, x.msg.of) PROVE FALSE
    OBVIOUS
  <2>1. x.msg.of = k
    BY <1>3 DEF Of
  <2>2. ~Of(x, k)
    BY <1>2, PlainFacts
  <2> QED BY <2>1, <2>2, AppMsgFacts DEF Of
<1> QED BY <1>1, <1>2, <1>3, <1>4, <1>5, <1>6, <1>7, <1>8

\* It is not done: it runs again if there is more.
LEMMA GoesOnStep ==
    ASSUME ChainInv, NEW k \in Codecs, Runs(k), NEW e, NEW first, Fed(k, e, first), ~Initial(e),
           NEW m, NEW out, Made(k, e, m, out, FALSE),
           NEW d, d = IF InReady(m) /\ OutReady(m) THEN Scheduled(m) ELSE m,
           codec' = [codec EXCEPT ![k] = d],
           Sent(WorkerOf[k], <<>>, queue[WorkerOf[k]], first \o out), Told(first \o out)
    PROVE  ChainInv'
<1>1. /\ m.mode = "running" /\ m.prepared /\ OnePhase(m) /\ (Routed(m) <=> Routed(codec[k]))
      /\ ~Unrouting(m) /\ ~Flushing(m) /\ ~Purging(m) /\ InputOk(m) /\ OutputOk(k, m) /\ m.route = RouteOf(k)
      /\ ("idle" \in m.oflags => "idle" \in codec[k].oflags) /\ ~Initial(codec[k])
      /\ (Routed(m) <=> Routed(e))
      /\ \A x \in Items(first), y \in Items(out) : IsControl(x) => ~Of(y, x.msg.of)
  BY MadeFacts
<1>2. /\ m \in CodecType(k) /\ m.in = e.in /\ m.tree = 0
      /\ ~IsScheduled(m) /\ ~Initial(m) /\ "eos_seq_done" \notin m.state /\ ~Completed(m) /\ "execution" \in m.state
      /\ out \in Seq(OutType) /\ Ordered(out) /\ ~ToApp(out, Cmd) /\ ~ToApp(out, Msg(k, "start"))
      /\ \A y \in Items(out) : y.msg.of = k /\ ~IsControl(y) /\ y.op # "flush"
      /\ \A u : (Routed(e) => Routed(u) /\ u.route = RouteOf(k) /\ "idle" \notin u.oflags) =>
           \A y \in Items(out) : Down(k, {}, u, y)
      /\ out = <<>> \/ "idle" \notin m.oflags
  BY DEF Made
<1> DEFINE r == Scheduled(m)
<1>3. /\ r \in CodecType(k) /\ SameMode(m, r) /\ SameIn(m, r) /\ SameOut(m, r)
      /\ r.state = m.state \cup {"schedule"}
      /\ r.tree = IF "schedule" \in m.state THEN m.tree ELSE m.tree + 1
  BY <1>2, ScheduledFields
<1>4. r.tree = 1
  BY <1>2, <1>3 DEF IsScheduled
<1> HIDE DEF r
<1>5. /\ d \in CodecType(k) /\ d.mode = "running" /\ d.prepared /\ d.in = e.in /\ d.iflags = m.iflags
      /\ d.out = m.out /\ d.oflags = m.oflags /\ d.route = RouteOf(k)
      /\ (Initial(d) <=> Initial(m)) /\ (Completed(d) <=> Completed(m))
      /\ ("execution" \in d.state <=> "execution" \in m.state)
      /\ ("eos_seq_done" \in d.state <=> "eos_seq_done" \in m.state)
      /\ d.tree = (IF IsScheduled(d) THEN 1 ELSE 0) /\ (IsScheduled(d) => d.out # <<>>)
  <2>1. CASE InReady(m) /\ OutReady(m)
    <3>1. d = r /\ m.out # <<>>
      BY <2>1 DEF r, OutReady
    <3>2. /\ d.mode = "running" /\ d.prepared /\ d.in = e.in /\ d.iflags = m.iflags
          /\ d.out = m.out /\ d.oflags = m.oflags /\ d.route = RouteOf(k)
      BY <1>1, <1>2, <1>3, <3>1 DEF SameMode, SameIn, SameOut
    <3>3. /\ IsScheduled(d) /\ (Initial(d) <=> Initial(m)) /\ (Completed(d) <=> Completed(m))
          /\ ("execution" \in d.state <=> "execution" \in m.state)
          /\ ("eos_seq_done" \in d.state <=> "eos_seq_done" \in m.state)
      BY <1>3, <3>1 DEF IsScheduled, Initial, Completed
    <3> QED BY <1>3, <1>4, <3>1, <3>2, <3>3
  <2>2. CASE ~(InReady(m) /\ OutReady(m))
    BY <1>1, <1>2, <2>2
  <2> QED BY <2>1, <2>2
<1>6. /\ (Routed(d) <=> Routed(m)) /\ ~Unrouting(d) /\ ~Flushing(d) /\ ~Purging(d) /\ OnePhase(d)
  BY <1>1, <1>2, <1>5 DEF Routed, Unrouting, Flushing, Purging, OnePhase
<1>7. CompOk(k, d)
  <2>1. TaskOk(k, d)
    BY <1>2, <1>5, <1>6 DEF TaskOk
  <2>2. InputOk(d)
    BY <1>1, <1>2, <1>5, <1>6 DEF InputOk
  <2>3. OutputOk(k, d)
    BY <1>1, <1>2, <1>5, <1>6 DEF OutputOk
  <2> QED BY <2>1, <2>2, <2>3 DEF CompOk
<1>8. \A y \in Items(out) : Down(k, {}, d, y) /\ ~IsFlush(y, k)
  <2>1. \A y \in Items(out) : Down(k, {}, d, y)
    BY <1>1, <1>2, <1>5, <1>6, EmptyItems
  <2> QED BY <1>2, <2>1 DEF IsFlush
<1>9. StartOk(k, {}, d, out)
  BY <1>1, <1>2, <1>5, NoStart DEF HasMsg
<1>10. /\ \A x \in Items(out), y \in Items(d.in) : IsControl(x) => ~Of(y, x.msg.of)
       /\ d.in = e.in \/ d.in = <<>>
       /\ (Routed(d) <=> Routed(codec[k])) /\ ("idle" \in d.oflags => "idle" \in codec[k].oflags)
       /\ ~(IsScheduled(d) /\ Completed(d))
  BY <1>1, <1>2, <1>5, <1>6
<1> QED BY <1>1, <1>2, <1>5, <1>6, <1>7, <1>8, <1>9, <1>10, PostStep

\* The end of the stream, with nothing below.
LEMMA OverStep ==
    ASSUME ChainInv, NEW k \in Codecs, Runs(k), NEW e, NEW first, Fed(k, e, first), ~Initial(e),
           NEW m, NEW out, Made(k, e, m, out, TRUE), ~Routed(m), NEW n,
           codec' = [codec EXCEPT ![k] = StreamOver(k, m, n).c],
           Sent(WorkerOf[k], <<>>, queue[WorkerOf[k]], first \o (out \o StreamOver(k, m, n).out)),
           Told(first \o (out \o StreamOver(k, m, n).out))
    PROVE  ChainInv'
<1> DEFINE g == Flushed(k, m, "fill")
           f == g.c
           fout == g.out
           p == Purged(f).c
           pout == Purged(f).out
           S == p.state \cup {"eos_seq_done"}
           u == PutState(p, S)
           d == IF n = 0 THEN u ELSE p
           r2 == fout \o pout
           r == out \o r2
<1>1. /\ m.mode = "running" /\ m.prepared /\ OnePhase(m) /\ (Routed(m) <=> Routed(codec[k]))
      /\ ~Unrouting(m) /\ ~Flushing(m) /\ ~Purging(m) /\ InputOk(m) /\ OutputOk(k, m) /\ m.route = RouteOf(k)
      /\ ("idle" \in m.oflags => "idle" \in codec[k].oflags) /\ ~Initial(codec[k])
      /\ (Routed(m) <=> Routed(e)) /\ k \in Sinks
      /\ \A x \in Items(first), y \in Items(out) : IsControl(x) => ~Of(y, x.msg.of)
  BY MadeFacts
<1>2. /\ m \in CodecType(k) /\ m.in = e.in /\ m.tree = 0 /\ m.iflags = e.iflags
      /\ ~IsScheduled(m) /\ ~Initial(m) /\ "eos_seq_done" \notin m.state /\ Completed(m) /\ "execution" \notin m.state
      /\ out \in Seq(OutType) /\ Ordered(out) /\ ~ToApp(out, Cmd) /\ ~ToApp(out, Msg(k, "start"))
      /\ \A y \in Items(out) : y.msg.of = k /\ ~IsControl(y) /\ y.op # "flush"
      /\ \A v : (Routed(e) => Routed(v) /\ v.route = RouteOf(k) /\ "idle" \notin v.oflags) =>
           \A y \in Items(out) : Down(k, {}, v, y)
  BY DEF Made
<1>3. \A y \in Items(m.out) : y = Msg(k, "out") /\ k \in Sinks
  BY <1>1, <1>2 DEF OutputOk
<1> HIDE DEF g
<1>4. /\ f \in CodecType(k) /\ SameMode(m, f) /\ SameTask(m, f) /\ SameIn(m, f)
      /\ f.out = <<>> /\ f.route = m.route /\ f.oflags = m.oflags
      /\ g.done
      /\ fout \in Seq(OutType) /\ Plain(k, {}, fout) /\ Ordered(fout)
      /\ \A y \in Items(fout) : y.msg = Msg(k, "out") /\ ~IsControl(y) /\ ~FromPool(y.msg)
  BY <1>2, <1>3, UnroutedFlush DEF g
<1>5. f.in = e.in /\ f.oflags = m.oflags /\ ~Routed(f) /\ f.state = m.state /\ f.tree = 0 /\ f.mode = "running"
      /\ f.prepared /\ f.route = RouteOf(k)
  BY <1>1, <1>2, <1>4 DEF SameIn, SameTask, SameMode, Routed
<1>6. /\ StreamOver(k, m, n).out = r2
      /\ StreamOver(k, m, n).c = IF n = 0 /\ ~Routed(p) THEN u ELSE p
  BY <1>4 DEF StreamOver, PutState, g
<1> HIDE DEF f, fout
<1>7. /\ Items(f.in) \subseteq Items(codec[k].in) /\ \A y, z : Ahead(f.in, y, z) => Ahead(codec[k].in, y, z)
  BY <1>5 DEF Fed
<1>8. LET v == Purged(f) IN
      /\ v.c \in CodecType(k) /\ SameMode(f, v.c) /\ SameTask(f, v.c) /\ SameOut(f, v.c) /\ v.c.ptr = f.ptr
      /\ v.c.in = <<>> /\ v.c.iflags = (f.iflags \cap {"paused"}) \cup {"enabled"}
      /\ v.out \in Seq(OutType) /\ Plain(k, {}, v.out) /\ Ordered(v.out)
      /\ \A y \in Items(v.out) : y.to = App => y.msg \in {Msg(k, "in"), Msg(k, "eos")}
      /\ \A y \in Items(v.out) : \E z \in Items(f.in) : y.msg = z.msg
      /\ \A y \in Items(v.out) : ~Of(y, k)
      /\ \A a : ToApp(v.out, a) => a \in {Msg(k, "in"), Msg(k, "eos")}
  BY <1>4, <1>7, PurgedFacts
<1>9. /\ p \in CodecType(k) /\ p.mode = "running" /\ p.prepared /\ p.state = m.state /\ p.tree = 0
      /\ p.in = <<>> /\ p.iflags = (f.iflags \cap {"paused"}) \cup {"enabled"}
      /\ p.out = <<>> /\ p.oflags = m.oflags /\ p.route = RouteOf(k)
  BY <1>4, <1>5, <1>8 DEF SameMode, SameTask, SameOut
<1>10. /\ pout \in Seq(OutType) /\ Plain(k, {}, pout) /\ Ordered(pout)
       /\ \A y \in Items(pout) : \E z \in Items(e.in) : y.msg = z.msg
       /\ \A y \in Items(pout) : ~Of(y, k)
       /\ \A a : ToApp(pout, a) => a \in {Msg(k, "in"), Msg(k, "eos")}
  BY <1>5, <1>8
<1> HIDE DEF p, pout
<1>11. S \in SUBSET Flags.state /\ S = m.state \cup {"eos_seq_done"}
  BY <1>9 DEF CodecType, Flags
<1> HIDE DEF S
<1>12. /\ u \in CodecType(k) /\ SameMode(p, u) /\ SameIn(p, u) /\ SameOut(p, u)
       /\ u.state = S /\ u.tree = p.tree
  BY <1>9, <1>11, PutStateFields
<1> HIDE DEF u
<1>13. ~Routed(p) /\ StreamOver(k, m, n).c = d
  BY <1>6, <1>9 DEF Routed
<1>14. /\ d \in CodecType(k) /\ d.mode = "running" /\ d.prepared /\ d.tree = 0
       /\ d.in = <<>> /\ d.iflags = (f.iflags \cap {"paused"}) \cup {"enabled"}
       /\ d.out = <<>> /\ d.oflags = m.oflags /\ d.route = RouteOf(k)
       /\ d.state \ {"eos_seq_done"} = m.state \ {"eos_seq_done"}
  BY <1>9, <1>11, <1>12 DEF SameMode, SameIn, SameOut
<1> HIDE DEF d
<1>15. /\ ~Initial(d) /\ Completed(d) /\ OnePhase(d) /\ ~IsScheduled(d) /\ ~Routed(d) /\ ~Unrouting(d)
       /\ ~Flushing(d) /\ ~Purging(d) /\ "enabled" \in d.iflags
  <2>1. ~Routed(d) /\ ~Unrouting(d) /\ ~Flushing(d) /\ ~Purging(d) /\ "enabled" \in d.iflags
    BY <1>1, <1>14 DEF Routed, Unrouting, Flushing, Purging
  <2> QED BY <1>2, <1>14, <2>1 DEF Initial, Completed, OnePhase, IsScheduled
<1>16. CompOk(k, d)
  <2>1. TaskOk(k, d)
    BY <1>1, <1>14, <1>15 DEF TaskOk
  <2>2. InputOk(d)
    BY <1>14, <1>15, EmptyItems DEF InputOk
  <2>3. OutputOk(k, d)
    BY <1>14, <1>15, EmptyItems DEF OutputOk
  <2> QED BY <2>1, <2>2, <2>3 DEF CompOk
<1>17. /\ r2 \in Seq(OutType) /\ Items(r2) = Items(fout) \cup Items(pout) /\ Plain(k, {}, r2) /\ Ordered(r2)
       /\ \A a : ToApp(r2, a) <=> (ToApp(fout, a) \/ ToApp(pout, a))
  BY <1>4, <1>10, PlainJoined
<1> HIDE DEF r2
<1>18. /\ r \in Seq(OutType) /\ Items(r) = Items(out) \cup Items(r2) /\ Ordered(r)
       /\ \A a : ToApp(r, a) <=> (ToApp(out, a) \/ ToApp(r2, a))
  BY <1>2, <1>17, PlainJoined
<1>19. Sent(WorkerOf[k], <<>>, queue[WorkerOf[k]], first \o r) /\ Told(first \o r)
  BY <1>6
<1> HIDE DEF r
<1>20. codec' = [codec EXCEPT ![k] = d]
  BY <1>13
<1>21. ~ToApp(r, Cmd) /\ ~ToApp(r, Msg(k, "start"))
  <2>1. \A a : ToApp(fout, a) => a = Msg(k, "out")
    BY <1>4 DEF ToApp
  <2> QED BY <1>2, <1>10, <1>17, <1>18, <2>1, AppMsgFacts
<1>22. \A y \in Items(r) : Down(k, {}, d, y) /\ ~IsFlush(y, k)
  <2>1. \A y \in Items(out) : Down(k, {}, d, y) /\ ~IsFlush(y, k)
    BY <1>1, <1>2 DEF IsFlush
  <2>2. \A y \in Items(r2) : Down(k, {}, d, y)
    BY <1>17 DEF Plain, Down
  <2>3. \A y \in Items(r2) : ~Of(y, k)
    BY <1>17, PlainFacts
  <2> QED BY <1>18, <2>1, <2>2, <2>3 DEF IsFlush
<1>23. \A x \in Items(first), y \in Items(r) : IsControl(x) => ~Of(y, x.msg.of)
  <2>1. \A x \in Items(first), y \in Items(e.in) : IsControl(x) => ~Of(y, x.msg.of)
    BY DEF Fed
  <2>2. \A x \in Items(first), y \in Items(pout) : IsControl(x) => ~Of(y, x.msg.of)
    BY <1>10, <2>1 DEF Of
  <2>3. \A x \in Items(first), y \in Items(fout) : IsControl(x) => ~Of(y, x.msg.of)
    BY <1>4 DEF Of
  <2> QED BY <1>1, <1>17, <1>18, <2>2, <2>3
<1>24. StartOk(k, {}, d, r)
  BY <1>1, <1>15, <1>21, NoStart DEF HasMsg
<1>25. /\ \A x \in Items(r), y \in Items(d.in) : IsControl(x) => ~Of(y, x.msg.of)
       /\ d.in = e.in \/ d.in = <<>>
       /\ (Routed(d) <=> Routed(codec[k])) /\ ("idle" \in d.oflags => "idle" \in codec[k].oflags)
       /\ ~(IsScheduled(d) /\ Completed(d))
  BY <1>1, <1>14, <1>15, EmptyItems
<1> QED BY <1>14, <1>15, <1>16, <1>18, <1>19, <1>20, <1>21, <1>22, <1>23, <1>24, <1>25, PostStep

\* The end of the stream goes down.
LEMMA OverBelowStep ==
    ASSUME ChainInv, NEW k \in Codecs, Runs(k), NEW e, NEW first, Fed(k, e, first), ~Initial(e),
           NEW m, NEW out, Made(k, e, m, out, TRUE), Routed(m), "idle" \notin m.oflags, NEW n,
           codec' = [codec EXCEPT ![k] = StreamOver(k, m, n).c],
           Sent(WorkerOf[k], <<>>, queue[WorkerOf[k]], first \o (out \o StreamOver(k, m, n).out)),
           Told(first \o (out \o StreamOver(k, m, n).out))
    PROVE  ChainInv'
<1> DEFINE g == Flushed(k, m, "fill")
           d == g.c
           fout == g.out
           r == out \o fout
<1>1. /\ m.mode = "running" /\ m.prepared /\ OnePhase(m) /\ (Routed(m) <=> Routed(codec[k]))
      /\ ~Unrouting(m) /\ ~Flushing(m) /\ ~Purging(m) /\ InputOk(m) /\ OutputOk(k, m) /\ m.route = RouteOf(k)
      /\ ("idle" \in m.oflags => "idle" \in codec[k].oflags) /\ ~Initial(codec[k])
      /\ (Routed(m) <=> Routed(e)) /\ k \notin Sinks
      /\ \A x \in Items(first), y \in Items(out) : IsControl(x) => ~Of(y, x.msg.of)
  BY MadeFacts
<1>2. /\ m \in CodecType(k) /\ m.in = e.in /\ m.tree = 0 /\ m.iflags = e.iflags
      /\ ~IsScheduled(m) /\ ~Initial(m) /\ "eos_seq_done" \notin m.state /\ Completed(m) /\ "execution" \notin m.state
      /\ out \in Seq(OutType) /\ Ordered(out) /\ ~ToApp(out, Cmd) /\ ~ToApp(out, Msg(k, "start"))
      /\ \A y \in Items(out) : y.msg.of = k /\ ~IsControl(y) /\ y.op # "flush"
      /\ \A v : (Routed(e) => Routed(v) /\ v.route = RouteOf(k) /\ "idle" \notin v.oflags) =>
           \A y \in Items(out) : Down(k, {}, v, y)
  BY DEF Made
<1>3. ~Gone(k) /\ ~Flushing(codec[k])
  BY RunsFacts
<1> HIDE DEF g
<1>4. /\ g.c \in CodecType(k) /\ SameMode(m, g.c) /\ SameTask(m, g.c) /\ SameIn(m, g.c)
      /\ g.c.out = m.out /\ g.c.route = m.route
      /\ LET now == "idle" \in m.oflags /\ "fill" # "fill" IN
         /\ g.done <=> now
         /\ now => g.out = <<>> /\ g.c.oflags = m.oflags
         /\ ~now => /\ g.c.oflags = m.oflags \cup {"flushing"}
                    /\ g.out = IF Flushing(m) THEN <<>>
                               ELSE <<Item(m.route, Control(k), IF "fill" = "fill" THEN "empty" ELSE "fill", 0)>>
  BY <1>2, FlushedFacts DEF g
<1>5. /\ d \in CodecType(k) /\ d.mode = "running" /\ d.prepared /\ d.in = e.in /\ d.iflags = m.iflags
      /\ d.out = m.out /\ d.oflags = m.oflags \cup {"flushing"} /\ d.route = RouteOf(k) /\ d.state = m.state
      /\ d.tree = 0 /\ ~g.done
      /\ fout = <<Item(RouteOf(k), Control(k), "empty", 0)>>
  BY <1>1, <1>2, <1>4 DEF SameMode, SameTask, SameIn
<1>6. /\ Routed(d) /\ Flushing(d) /\ "idle" \notin d.oflags /\ ~Unrouting(d) /\ ~Purging(d)
      /\ ~Initial(d) /\ Completed(d) /\ OnePhase(d) /\ ~IsScheduled(d) /\ "eos_seq_done" \notin d.state
  <2>1. Routed(d) /\ Flushing(d) /\ "idle" \notin d.oflags /\ ~Unrouting(d) /\ ~Purging(d)
    BY <1>1, <1>5 DEF Routed, Flushing, Unrouting, Purging
  <2> QED BY <1>1, <1>2, <1>5, <2>1 DEF Initial, Completed, OnePhase, IsScheduled
<1>7. StreamOver(k, m, n).c = d /\ StreamOver(k, m, n).out = fout \o <<>>
  BY <1>5, <1>6 DEF StreamOver, g
<1> HIDE DEF d
<1> DEFINE s == <<Item(RouteOf(k), Control(k), "empty", 0)>>
<1>8. /\ s \in Seq(OutType) /\ Ordered(s)
      /\ \A y \in Items(s) : IsSent(k, d, y) /\ y.msg = Control(k) /\ y.op = "empty" /\ y.to # App
      /\ \A a : ~ToApp(s, a)
  BY <1>1, <1>3, <1>5, <1>6, ControlSent
<1>9. fout = s
  BY <1>5
<1> HIDE DEF s, fout
<1>10. fout \o <<>> = fout
  BY <1>8, <1>9
<1>11. \A x \in Items(out), y \in Items(s) : IsControl(x) => ~Of(y, x.msg.of)
  BY <1>2
<1>12. /\ r \in Seq(OutType) /\ Items(r) = Items(out) \cup Items(fout) /\ Ordered(r)
       /\ \A a : ToApp(r, a) <=> (ToApp(out, a) \/ ToApp(fout, a))
  BY <1>2, <1>8, <1>9, <1>11, PlainJoined
<1>13. Sent(WorkerOf[k], <<>>, queue[WorkerOf[k]], first \o r) /\ Told(first \o r)
  BY <1>7, <1>10
<1> HIDE DEF r
<1>14. codec' = [codec EXCEPT ![k] = d]
  BY <1>7
<1>15. CompOk(k, d)
  <2>1. TaskOk(k, d)
    BY <1>5, <1>6 DEF TaskOk
  <2>2. InputOk(d)
    BY <1>1, <1>2, <1>5, <1>6 DEF InputOk
  <2>3. OutputOk(k, d)
    BY <1>1, <1>2, <1>5, <1>6 DEF OutputOk
  <2> QED BY <2>1, <2>2, <2>3 DEF CompOk
<1>16. \A y \in Items(r) : Down(k, {}, d, y) /\ ~IsFlush(y, k)
  <2>1. \A y \in Items(out) : Down(k, {}, d, y) /\ ~IsFlush(y, k)
    BY <1>2, <1>5, <1>6 DEF IsFlush
  <2>2. \A y \in Items(fout) : Down(k, {}, d, y) /\ ~IsFlush(y, k)
    BY <1>8, <1>9 DEF Down, IsFlush
  <2> QED BY <1>12, <2>1, <2>2
<1>17. \A y \in Items(fout) : y.msg.of = k /\ FromPool(y.msg)
  BY <1>8, <1>9, MsgFacts
<1>18. \A x \in Items(r), y \in Items(d.in) : IsControl(x) => ~Of(y, x.msg.of)
  <2> SUFFICES ASSUME NEW y \in Items(d.in) PROVE ~Of(y, k)
    BY <1>2, <1>12, <1>17
  <2>1. y \in Items(codec[k].in)
    BY <1>5 DEF Fed
  <2> QED BY <1>3, <2>1, InputIsOthers
<1>19. \A x \in Items(first), y \in Items(r) : IsControl(x) => ~Of(y, x.msg.of)
  <2> SUFFICES ASSUME NEW x \in Items(first), NEW y \in Items(fout), IsControl(x), Of(y, x.msg.of) PROVE FALSE
    BY <1>1, <1>12
  <2>1. first \in Seq(OutType) /\ Plain(k, {}, first)
    BY DEF Fed
  <2>2. ~Of(x, k)
    BY <2>1, PlainFacts
  <2> QED BY <1>17, <2>2, AppMsgFacts DEF Of
<1>20. ~ToApp(r, Cmd) /\ ~ToApp(r, Msg(k, "start"))
  BY <1>2, <1>8, <1>9, <1>12
<1>21. StartOk(k, {}, d, r)
  BY <1>1, <1>6, <1>20, NoStart DEF HasMsg
<1>22. /\ d.in = e.in \/ d.in = <<>>
       /\ (Routed(d) <=> Routed(codec[k])) /\ ("idle" \in d.oflags => "idle" \in codec[k].oflags)
       /\ ~(IsScheduled(d) /\ Completed(d))
  BY <1>1, <1>5, <1>6
<1> QED BY <1>5, <1>6, <1>12, <1>13, <1>14, <1>15, <1>16, <1>18, <1>19, <1>20, <1>21, <1>22, PostStep

\* The input buffer consumed.
PutUsed(c, S) == [c EXCEPT !.filled = 0, !.state = S]

\* What that leaves alone.
LEMMA PutUsedFields ==
    ASSUME NEW k \in Codecs, NEW c \in CodecType(k), NEW S \in SUBSET Flags.state
    PROVE  LET d == PutUsed(c, S) IN
           /\ d \in CodecType(k) /\ SameMode(c, d) /\ SameOut(c, d) /\ d.in = c.in /\ d.iflags = c.iflags
           /\ d.state = S /\ d.tree = c.tree
<1>1. 0 \in 0..Frame
  BY FrameAssumption
<1> QED BY <1>1 DEF CodecType, SameMode, SameOut, PutUsed

\* What an execution leaves, before what it has produced goes out.
UsedOf(x) == IF x.consumed = 0 THEN x.c ELSE PutUsed(x.c, Toggled(x.c.state, {"input_setup"}))
OutOf(x) == IF x.produced = 0 THEN [c |-> UsedOf(x), out |-> <<>>] ELSE Produced(UsedOf(x))

\* The plugin's execution, and what it consumes.
LEMMA UsedFacts ==
    ASSUME ChainInv, NEW k \in Codecs, Runs(k), NEW e, NEW first, Fed(k, e, first), "execution" \in e.state,
           NEW x \in Executed(k, e)
    PROVE  LET u == UsedOf(x) IN
           /\ u \in CodecType(k) /\ SameMode(e, u) /\ SameOut(e, u) /\ u.in = e.in /\ u.iflags = e.iflags /\ u.tree = 0
           /\ ~IsScheduled(u) /\ ~Initial(u) /\ "eos_seq_done" \notin u.state
           /\ (Completed(u) <=> x.done) /\ ("execution" \in u.state <=> ~x.done)
           /\ x.done \in BOOLEAN /\ x.produced \in {0, 1}
           /\ x.done /\ {"routed", "idle"} \subseteq e.oflags /\ ~MayBeBarren => x.produced = 1
<1> DEFINE done == "done" \in e.iflags
           S == Toggled(e.state, {"execution", "completed"})
           e1 == PutState(e, S)
           d == x.c
           R == Toggled(d.state, {"input_setup"})
           v == PutUsed(d, R)
           u == UsedOf(x)
<1>1. /\ e \in CodecType(k) /\ OnePhase(e) /\ (e.prepared <=> ~Initial(e))
  BY FedFacts
<1>2. e.tree = 0 /\ ~IsScheduled(e) /\ "eos_seq_done" \notin e.state
  BY DEF Fed
<1>3. ~Initial(e) /\ ~Completed(e) /\ e.prepared
  BY <1>1 DEF OnePhase
<1> DEFINE barren == done /\ {"routed", "idle"} \subseteq e.oflags /\ ~MayBeBarren
           N == IF ~e.prepared THEN {0} ELSE IF barren THEN {1} ELSE {0, 1}
<1>4. /\ x.c = (IF done THEN e1 ELSE e) /\ (x.done <=> done) /\ x.done \in BOOLEAN /\ x.produced \in N
  <2>1. Executed(k, e) = {[c |-> IF done THEN e1 ELSE e, consumed |-> e.filled, produced |-> n, done |-> done] : n \in N}
    BY <1>3 DEF Executed, Initial, PutState
  <2>2. PICK n \in N : x = [c |-> IF done THEN e1 ELSE e, consumed |-> e.filled, produced |-> n, done |-> done]
    BY <2>1
  <2>3. done \in BOOLEAN
    OBVIOUS
  <2> HIDE DEF N, done, e1
  <2> QED BY <2>2, <2>3
<1>5. x.produced \in {0, 1} /\ (x.done /\ {"routed", "idle"} \subseteq e.oflags /\ ~MayBeBarren => x.produced = 1)
  BY <1>3, <1>4
<1>6. /\ S \in SUBSET Flags.state /\ "runtime_init" \notin S /\ "execution" \notin S /\ "completed" \in S
      /\ "schedule" \notin S /\ "eos_seq_done" \notin S
  BY <1>1, <1>2, <1>3 DEF CodecType, Toggled, Flags, Initial, Completed, IsScheduled
<1> HIDE DEF S, N, done
<1>7. /\ e1 \in CodecType(k) /\ SameMode(e, e1) /\ SameIn(e, e1) /\ SameOut(e, e1)
      /\ e1.state = S /\ e1.tree = e.tree
  BY <1>1, <1>6, PutStateFields
<1> HIDE DEF e1
<1>8. /\ d \in CodecType(k) /\ SameMode(e, d) /\ SameOut(e, d) /\ d.in = e.in /\ d.iflags = e.iflags /\ d.tree = 0
      /\ ~IsScheduled(d) /\ ~Initial(d) /\ "eos_seq_done" \notin d.state
      /\ (Completed(d) <=> x.done) /\ ("execution" \in d.state <=> ~x.done)
  <2>1. CASE done
    BY <1>2, <1>4, <1>6, <1>7, <2>1 DEF SameIn, IsScheduled, Initial, Completed
  <2>2. CASE ~done
    BY <1>1, <1>2, <1>3, <1>4, <2>2 DEF SameMode, SameOut
  <2> QED BY <2>1, <2>2
<1> HIDE DEF d
<1>9. /\ R \in SUBSET Flags.state /\ ("schedule" \in R <=> "schedule" \in d.state)
      /\ ("runtime_init" \in R <=> "runtime_init" \in d.state) /\ ("eos_seq_done" \in R <=> "eos_seq_done" \in d.state)
      /\ ("completed" \in R <=> "completed" \in d.state) /\ ("execution" \in R <=> "execution" \in d.state)
  BY <1>8 DEF CodecType, Toggled, Flags
<1>10. u = IF x.consumed = 0 THEN d ELSE v
  BY DEF UsedOf, d
<1> HIDE DEF R, u
<1>11. /\ v \in CodecType(k) /\ SameMode(d, v) /\ SameOut(d, v) /\ v.in = d.in /\ v.iflags = d.iflags
       /\ v.state = R /\ v.tree = d.tree
  BY <1>8, <1>9, PutUsedFields
<1> HIDE DEF v
<1>12. /\ v \in CodecType(k) /\ SameMode(e, v) /\ SameOut(e, v) /\ v.in = e.in /\ v.iflags = e.iflags /\ v.tree = 0
       /\ ~IsScheduled(v) /\ ~Initial(v) /\ "eos_seq_done" \notin v.state
       /\ (Completed(v) <=> x.done) /\ ("execution" \in v.state <=> ~x.done)
  BY <1>8, <1>9, <1>11 DEF SameMode, SameOut, IsScheduled, Initial, Completed
<1>13. /\ u \in CodecType(k) /\ SameMode(e, u) /\ SameOut(e, u) /\ u.in = e.in /\ u.iflags = e.iflags /\ u.tree = 0
       /\ ~IsScheduled(u) /\ ~Initial(u) /\ "eos_seq_done" \notin u.state
       /\ (Completed(u) <=> x.done) /\ ("execution" \in u.state <=> ~x.done)
  BY <1>8, <1>10, <1>12
<1> QED BY <1>4, <1>5, <1>13 DEF u

\* ... and what it has produced.
LEMMA ExecutedMade ==
    ASSUME ChainInv, NEW k \in Codecs, Runs(k), NEW e, NEW first, Fed(k, e, first), "execution" \in e.state,
           NEW x \in Executed(k, e)
    PROVE  LET o == OutOf(x) IN
           /\ x.done \in BOOLEAN /\ Made(k, e, o.c, o.out, x.done)
           /\ x.done /\ Routed(o.c) /\ ~MayBeBarren => "idle" \notin o.c.oflags
<1> DEFINE u == UsedOf(x)
           y == OutOf(x)
           m == Produced(u).c
           h == Head(e.out)
           s == <<Passed(u, h, 1)>>
<1>1. /\ u \in CodecType(k) /\ SameMode(e, u) /\ SameOut(e, u) /\ u.in = e.in /\ u.iflags = e.iflags /\ u.tree = 0
      /\ ~IsScheduled(u) /\ ~Initial(u) /\ "eos_seq_done" \notin u.state
      /\ (Completed(u) <=> x.done) /\ ("execution" \in u.state <=> ~x.done)
      /\ x.done \in BOOLEAN /\ x.produced \in {0, 1}
      /\ x.done /\ {"routed", "idle"} \subseteq e.oflags /\ ~MayBeBarren => x.produced = 1
  BY UsedFacts
<1>2. /\ e \in CodecType(k) /\ OnePhase(e) /\ e.out \in Seq(AllMsgs)
      /\ Items(Tail(e.out)) \subseteq Items(e.out) /\ Tail(e.out) \in Seq(AllMsgs)
  BY FedFacts
<1>3. ~Initial(e)
  BY <1>2 DEF OnePhase
<1>4. y = IF x.produced = 0 THEN [c |-> u, out |-> <<>>] ELSE Produced(u)
  BY DEF OutOf
<1> HIDE DEF u, y
<1>5. u.out = e.out /\ u.oflags = e.oflags /\ u.route = e.route
  BY <1>1 DEF SameOut
<1>6. CASE x.produced = 0
  <2>1. y.c = u /\ y.out = <<>>
    BY <1>4, <1>6
  <2> DEFINE o == <<>>
  <2>2. o \in Seq(OutType) /\ Items(o) = {} /\ (\A a, b : ~Ahead(o, a, b)) /\ \A a : ~ToApp(o, a)
    BY EmptyItems DEF ToApp
  <2>3. y.out = o /\ o = <<>>
    BY <2>1
  <2> HIDE DEF o
  <2>4. Ordered(o)
    BY <2>2 DEF Ordered
  <2>5. Made(k, e, u, o, x.done)
    BY <1>1, <1>2, <1>5, <2>2, <2>3, <2>4 DEF Made
  <2>6. ~(x.done /\ Routed(u) /\ "idle" \in u.oflags /\ ~MayBeBarren)
    BY <1>1, <1>5, <1>6 DEF Routed
  <2> QED BY <1>1, <2>1, <2>3, <2>5, <2>6 DEF y
<1>7. CASE x.produced = 1
  <2>1. y = Produced(u)
    BY <1>4, <1>7
  <2>2. /\ m \in CodecType(k) /\ SameMode(u, m) /\ SameIn(u, m) /\ m.tree = u.tree
        /\ m.state = Toggled(u.state, {"output_setup"}) /\ m.out = Tail(u.out)
        /\ m.oflags = u.oflags \ {"idle"} /\ m.route = u.route
    BY <1>1, <1>2, <1>5, PassingFields
  <2>3. Produced(u).out = s
    BY <1>5 DEF Produced
  <2> HIDE DEF m
  <2>4. /\ s \in Seq(OutType) /\ Ordered(s)
        /\ \A z \in Items(s) : /\ z.msg = h /\ h.of = k /\ ~IsControl(z) /\ z.op # "flush" /\ z.len = 1
                               /\ (z.to = App <=> ~Routed(e))
        /\ \A d : (Routed(e) => Routed(d) /\ d.route = RouteOf(k) /\ "idle" \notin d.oflags) =>
             \A z \in Items(s) : Down(k, {}, d, z)
        /\ ~ToApp(s, Cmd) /\ (Initial(e) <=> ToApp(s, Msg(k, "start"))) /\ (Initial(e) <=> StartTold(s, k))
    BY <1>1, <1>5, PassedFacts
  <2> HIDE DEF s, h
  <2>5. /\ ~IsScheduled(m) /\ ~Initial(m) /\ "eos_seq_done" \notin m.state
        /\ (Completed(m) <=> x.done) /\ ("execution" \in m.state <=> ~x.done)
    BY <1>1, <2>2 DEF IsScheduled, Initial, Completed, Toggled
  <2>6. /\ SameMode(e, m) /\ m.in = e.in /\ m.iflags = e.iflags /\ m.route = e.route /\ m.tree = 0
        /\ m.oflags \ {"idle"} = e.oflags \ {"idle"} /\ "idle" \notin m.oflags /\ m.out = Tail(e.out)
    BY <1>1, <1>5, <2>2 DEF SameMode, SameIn
  <2>7. Made(k, e, m, s, x.done)
    BY <1>2, <1>3, <2>2, <2>4, <2>5, <2>6 DEF Made
  <2>8. y.c = m /\ y.out = s
    BY <2>1, <2>3 DEF m
  <2> QED BY <1>1, <2>6, <2>7, <2>8 DEF y
<1> QED BY <1>1, <1>6, <1>7

\* xa_codec_postprocess, in parts.
LEMMA PostprocessedIs ==
    ASSUME NEW k, NEW x
    PROVE  LET r == Postprocessed(k, x)
               c == OutOf(x).c
               out == OutOf(x).out
               again == IF "runtime_init" \in c.state /\ x.consumed = 0
                        THEN PutState(c, c.state \ {"input_setup"}) ELSE c
           IN /\ x.done /\ "execution" \in c.state => r.c = Prepared(c).c /\ r.out = out \o Prepared(c).out
              /\ x.done /\ "execution" \notin c.state =>
                   /\ r.c = StreamOver(k, c, x.produced).c
                   /\ r.out = out \o StreamOver(k, c, x.produced).out
              /\ ~x.done => /\ r.c = IF InReady(again) /\ OutReady(again) THEN Scheduled(again) ELSE again
                            /\ r.out = out
<1> DEFINE u == IF x.consumed = 0 THEN x.c ELSE [x.c EXCEPT !.filled = 0, !.state = Toggled(@, {"input_setup"})]
           made == IF x.produced = 0 THEN [c |-> u, out |-> <<>>] ELSE Produced(u)
           c == made.c
           last == IF "execution" \in c.state THEN Prepared(c) ELSE StreamOver(k, c, x.produced)
           again == IF "runtime_init" \in c.state /\ x.consumed = 0
                    THEN [c EXCEPT !.state = @ \ {"input_setup"}] ELSE c
<1>1. u = UsedOf(x)
  BY DEF UsedOf, PutUsed
<1>2. made = OutOf(x)
  BY <1>1 DEF OutOf
<1>3. Postprocessed(k, x) =
        IF x.done THEN [c |-> last.c, out |-> made.out \o last.out]
        ELSE [c |-> IF InReady(again) /\ OutReady(again) THEN Scheduled(again) ELSE again, out |-> made.out]
  BY DEF Postprocessed
<1>4. again = IF "runtime_init" \in c.state /\ x.consumed = 0 THEN PutState(c, c.state \ {"input_setup"}) ELSE c
  BY DEF PutState
<1> HIDE DEF u, made, last, again
<1> DEFINE o == OutOf(x)
<1>5. c = o.c /\ made.out = o.out
  BY <1>2
<1>6. last = IF "execution" \in c.state THEN Prepared(c) ELSE StreamOver(k, c, x.produced)
  BY DEF last
<1> HIDE DEF c, o
<1> DEFINE r == Postprocessed(k, x)
<1>7. ~x.done => /\ r.c = IF InReady(again) /\ OutReady(again) THEN Scheduled(again) ELSE again
                 /\ r.out = o.out
  BY <1>3, <1>5
<1>8. x.done => r.c = last.c /\ r.out = o.out \o last.out
  <2> DEFINE z == made.out \o last.out
  <2> SUFFICES ASSUME x.done PROVE r.c = last.c /\ r.out = o.out \o last.out
    OBVIOUS
  <2> DEFINE a == last.c
  <2>1. r = [c |-> a, out |-> z]
    BY <1>3
  <2>2. z = o.out \o last.out
    BY <1>5
  <2> HIDE DEF z, r, a
  <2>3. r.c = a /\ r.out = z
    BY <2>1
  <2> QED BY <2>2, <2>3 DEF a
<1> HIDE DEF r
<1>9. /\ x.done /\ "execution" \in c.state => r.c = Prepared(c).c /\ r.out = o.out \o Prepared(c).out
      /\ x.done /\ "execution" \notin c.state =>
           /\ r.c = StreamOver(k, c, x.produced).c
           /\ r.out = o.out \o StreamOver(k, c, x.produced).out
  BY <1>6, <1>8
<1> QED BY <1>4, <1>5, <1>7, <1>9 DEF r, o

\* xa_base_process while the component is initialised.
LEMMA InitialRun ==
    ASSUME ChainInv, NEW k \in Codecs, Runs(k), NEW e, NEW first, Fed(k, e, first), Initial(e),
           NEW x \in Executed(k, e), NEW r, r = Postprocessed(k, x),
           codec' = [codec EXCEPT ![k] = r.c],
           Sent(WorkerOf[k], <<>>, queue[WorkerOf[k]], first \o r.out), Told(first \o r.out)
    PROVE  ChainInv'
<1> DEFINE done == k \notin Decoders \/ e.filled > 0 \/ "done" \in e.iflags
           S == Toggled(e.state, {"runtime_init", "execution"})
           e1 == PutState(e, S)
           R == e.state \ {"input_setup"}
           a == PutState(e, R)
           d == IF InReady(a) /\ OutReady(a) THEN Scheduled(a) ELSE a
<1>1. /\ e \in CodecType(k) /\ OnePhase(e) /\ ~Completed(e) /\ "execution" \notin e.state
  BY FedFacts DEF OnePhase
<1>2. e.tree = 0 /\ ~IsScheduled(e) /\ "eos_seq_done" \notin e.state
  BY DEF Fed
<1>3. x.c = (IF done THEN e1 ELSE e) /\ (x.done <=> done) /\ x.consumed = 0 /\ x.produced = 0
  <2>1. Executed(k, e) = {[c |-> IF done THEN e1 ELSE e, consumed |-> 0, produced |-> 0, done |-> done]}
    BY DEF Executed, Initial, PutState
  <2> HIDE DEF done, e1
  <2> QED BY <2>1
<1>4. OutOf(x).c = x.c /\ OutOf(x).out = <<>>
  BY <1>3 DEF OutOf, UsedOf
<1> HIDE DEF done
<1>5. CASE x.done
  <2>1. x.c = e1
    BY <1>3, <1>5
  <2>2. "execution" \in S
    BY <1>1 DEF Toggled
  <2>3. e1.state = S
    <3>1. S \in SUBSET Flags.state
      BY <1>1 DEF CodecType, Toggled, Flags
    <3> HIDE DEF S
    <3> QED BY <1>1, <3>1, PutStateFields
  <2>4. r.c = Prepared(e1).c /\ r.out = <<>> \o Prepared(e1).out
    BY <1>4, <1>5, <2>1, <2>2, <2>3, PostprocessedIs
  <2> DEFINE z == PutState(e, Toggled(e.state, {"runtime_init", "execution"}))
  <2>5. z = e1
    OBVIOUS
  <2> HIDE DEF e1, z
  <2>6. z = PutState(e, Toggled(e.state, {"runtime_init", "execution"}))
    BY DEF z
  <2>7. /\ codec' = [codec EXCEPT ![k] = Prepared(z).c]
        /\ Sent(WorkerOf[k], <<>>, queue[WorkerOf[k]], first \o (<<>> \o Prepared(z).out))
        /\ Told(first \o (<<>> \o Prepared(z).out))
    BY <2>4, <2>5
  <2> QED BY <2>6, <2>7, PreparedStep
<1>6. CASE ~x.done
  <2>1. x.c = e
    BY <1>3, <1>6
  <2>2. r.c = d /\ r.out = <<>>
    <3>1. "runtime_init" \in e.state
      BY DEF Initial
    <3> QED BY <1>3, <1>4, <1>6, <2>1, <3>1, PostprocessedIs
  <2>3. R \in SUBSET Flags.state /\ R = e.state \ {"input_setup"}
    BY <1>1 DEF CodecType, Flags
  <2> HIDE DEF R
  <2>4. /\ a \in CodecType(k) /\ SameMode(e, a) /\ SameIn(e, a) /\ SameOut(e, a) /\ a.state = R /\ a.tree = e.tree
    BY <1>1, <2>3, PutStateFields
  <2> HIDE DEF a
  <2> DEFINE b == Scheduled(a)
  <2>5. /\ b \in CodecType(k) /\ SameMode(a, b) /\ SameIn(a, b) /\ SameOut(a, b)
        /\ b.state = a.state \cup {"schedule"}
        /\ b.tree = IF "schedule" \in a.state THEN a.tree ELSE a.tree + 1
    BY <2>4, ScheduledFields
  <2>6. d = b \/ d = a
    OBVIOUS
  <2> HIDE DEF b, d
  <2>7. /\ SameMode(e, a) /\ a.in = e.in /\ a.iflags = e.iflags /\ SameOut(e, a) /\ a \in CodecType(k)
        /\ (Initial(a) <=> Initial(e)) /\ (Completed(a) <=> Completed(e))
        /\ ("execution" \in a.state <=> "execution" \in e.state) /\ "eos_seq_done" \notin a.state
        /\ a.tree = IF IsScheduled(a) THEN 1 ELSE 0
    BY <1>2, <2>3, <2>4 DEF SameIn, Initial, Completed, IsScheduled
  <2>8. /\ SameMode(e, b) /\ b.in = e.in /\ b.iflags = e.iflags /\ SameOut(e, b) /\ b \in CodecType(k)
        /\ (Initial(b) <=> Initial(e)) /\ (Completed(b) <=> Completed(e))
        /\ ("execution" \in b.state <=> "execution" \in e.state) /\ "eos_seq_done" \notin b.state
        /\ b.tree = IF IsScheduled(b) THEN 1 ELSE 0
    <3>1. "schedule" \notin a.state /\ a.tree = 0
      BY <1>2, <2>3, <2>4 DEF IsScheduled
    <3>2. b.tree = 1 /\ IsScheduled(b)
      BY <2>5, <3>1 DEF IsScheduled
    <3> QED BY <2>5, <2>7, <3>2 DEF SameMode, SameIn, SameOut, Initial, Completed
  <2>9. /\ SameMode(e, d) /\ d.in = e.in /\ d.iflags = e.iflags /\ SameOut(e, d) /\ d \in CodecType(k)
        /\ (Initial(d) <=> Initial(e)) /\ (Completed(d) <=> Completed(e))
        /\ ("execution" \in d.state <=> "execution" \in e.state) /\ "eos_seq_done" \notin d.state
        /\ d.tree = IF IsScheduled(d) THEN 1 ELSE 0
    BY <2>6, <2>7, <2>8
  <2>10. /\ codec' = [codec EXCEPT ![k] = d]
         /\ Sent(WorkerOf[k], <<>>, queue[WorkerOf[k]], first \o <<>>) /\ Told(first \o <<>>)
    BY <2>2
  <2>11. ~(IsScheduled(d) /\ Completed(d))
    BY <1>1, <2>9
  <2> QED BY <2>9, <2>10, <2>11, QuietRun
<1> QED BY <1>5, <1>6

\* ... while it runs.
LEMMA ExecutionRun ==
    ASSUME ChainInv, MayBeBarren = FALSE, NEW k \in Codecs, Runs(k), NEW e, NEW first, Fed(k, e, first),
           "execution" \in e.state, NEW x \in Executed(k, e), NEW r, r = Postprocessed(k, x),
           codec' = [codec EXCEPT ![k] = r.c],
           Sent(WorkerOf[k], <<>>, queue[WorkerOf[k]], first \o r.out), Told(first \o r.out)
    PROVE  ChainInv'
<1> DEFINE m == OutOf(x).c
           out == OutOf(x).out
           d == IF InReady(m) /\ OutReady(m) THEN Scheduled(m) ELSE m
           n == x.produced
<1>1. /\ x.done \in BOOLEAN /\ Made(k, e, m, out, x.done)
      /\ x.done /\ Routed(m) /\ ~MayBeBarren => "idle" \notin m.oflags
  BY ExecutedMade
<1>2. ~Initial(e)
  BY FedFacts DEF OnePhase
<1>3. ("execution" \in m.state <=> ~x.done) /\ "runtime_init" \notin m.state
  BY <1>1 DEF Made, Initial
<1>4. /\ x.done => r.c = StreamOver(k, m, n).c /\ r.out = out \o StreamOver(k, m, n).out
      /\ ~x.done => r.c = d /\ r.out = out
  BY <1>3, PostprocessedIs
<1> HIDE DEF m, out, n
<1>5. CASE ~x.done
  <2>1. /\ codec' = [codec EXCEPT ![k] = d]
        /\ Sent(WorkerOf[k], <<>>, queue[WorkerOf[k]], first \o out) /\ Told(first \o out)
    BY <1>4, <1>5
  <2>2. x.done = FALSE
    BY <1>1, <1>5
  <2>3. Made(k, e, m, out, FALSE)
    BY <1>1, <2>2
  <2>4. d = IF InReady(m) /\ OutReady(m) THEN Scheduled(m) ELSE m
    OBVIOUS
  <2> HIDE DEF d
  <2> QED BY <1>2, <2>1, <2>3, <2>4, GoesOnStep
<1>6. CASE x.done
  <2>1. /\ codec' = [codec EXCEPT ![k] = StreamOver(k, m, n).c]
        /\ Sent(WorkerOf[k], <<>>, queue[WorkerOf[k]], first \o (out \o StreamOver(k, m, n).out))
        /\ Told(first \o (out \o StreamOver(k, m, n).out))
    BY <1>4, <1>6
  <2>2. x.done = TRUE
    BY <1>1, <1>6
  <2>3. Made(k, e, m, out, TRUE)
    BY <1>1, <2>2
  <2>4. CASE ~Routed(m)
    BY <1>2, <2>1, <2>3, <2>4, OverStep
  <2>5. CASE Routed(m)
    <3>1. "idle" \notin m.oflags
      BY <1>1, <2>2, <2>5
    <3> QED BY <1>2, <2>1, <2>3, <2>5, <3>1, OverBelowStep
  <2> QED BY <2>4, <2>5
<1> QED BY <1>5, <1>6

\* ... when it is completed.
LEMMA CompletedRun ==
    ASSUME ChainInv, NEW k \in Codecs, Runs(k), NEW e, NEW first, Fed(k, e, first), Completed(e),
           NEW x \in Executed(k, e), NEW r, r = Postprocessed(k, x),
           codec' = [codec EXCEPT ![k] = r.c],
           Sent(WorkerOf[k], <<>>, queue[WorkerOf[k]], first \o r.out), Told(first \o r.out)
    PROVE  ChainInv'
<1>1. e \in CodecType(k) /\ OnePhase(e) /\ e.in = <<>>
  BY FedFacts
<1>2. e.tree = 0 /\ ~IsScheduled(e) /\ "eos_seq_done" \notin e.state
  BY DEF Fed
<1>3. "runtime_init" \notin e.state /\ "execution" \notin e.state
  BY <1>1 DEF OnePhase, Initial
<1>4. x = [c |-> e, consumed |-> 0, produced |-> 0, done |-> FALSE]
  BY <1>3 DEF Executed
<1>5. x.c = e /\ x.consumed = 0 /\ x.produced = 0 /\ ~x.done
  BY <1>4
<1>6. OutOf(x).c = e /\ OutOf(x).out = <<>>
  BY <1>5 DEF OutOf, UsedOf
<1>7. ~InReady(e)
  BY <1>1 DEF InReady
<1>8. r.c = e /\ r.out = <<>>
  BY <1>3, <1>5, <1>6, <1>7, PostprocessedIs
<1>9. /\ codec' = [codec EXCEPT ![k] = e]
      /\ Sent(WorkerOf[k], <<>>, queue[WorkerOf[k]], first \o <<>>) /\ Told(first \o <<>>)
  BY <1>8
<1>10. SameMode(e, e) /\ SameOut(e, e) /\ e.tree = IF IsScheduled(e) THEN 1 ELSE 0
  BY <1>2 DEF SameMode, SameOut
<1> QED BY <1>1, <1>2, <1>9, <1>10, QuietRun

\* xa_base_process
LEMMA ProcessStep ==
    ASSUME ChainInv, MayBeBarren = FALSE, NEW k \in Codecs, Process(k)
    PROVE  ChainInv'
<1> DEFINE w == WorkerOf[k]
           pre == Preprocessed(k, TakenOff(codec[k]))
           e == pre.c
           first == pre.out
<1>1. /\ local[w] = <<>> /\ k \in Scheduling(w)
      /\ \E r \in IF pre.ok THEN {Postprocessed(k, x) : x \in Executed(k, e)}
                  ELSE {[c |-> e, out |-> <<>>]} :
            /\ codec' = [codec EXCEPT ![k] = r.c]
            /\ Sent(w, <<>>, queue[w], first \o r.out)
            /\ Told(first \o r.out)
  BY DEF Process, TakenOff
<1>2. Runs(k)
  BY <1>1 DEF Runs
<1>3. Fed(k, e, first)
  BY <1>2, PreFacts
<1>4. e \in CodecType(k) /\ OnePhase(e)
  BY <1>2, <1>3, FedFacts
<1>5. e.tree = 0 /\ ~IsScheduled(e) /\ "eos_seq_done" \notin e.state
  BY <1>3 DEF Fed
<1>6. CASE ~pre.ok
  <2>1. PICK r \in {[c |-> e, out |-> <<>>]} :
            /\ codec' = [codec EXCEPT ![k] = r.c]
            /\ Sent(w, <<>>, queue[w], first \o r.out)
            /\ Told(first \o r.out)
    BY <1>1, <1>6
  <2> HIDE DEF pre, e, first
  <2>2. r.c = e /\ r.out = <<>>
    OBVIOUS
  <2>3. /\ codec' = [codec EXCEPT ![k] = e]
        /\ Sent(w, <<>>, queue[w], first \o <<>>) /\ Told(first \o <<>>)
    BY <2>1, <2>2
  <2>4. SameMode(e, e) /\ SameOut(e, e) /\ e.tree = IF IsScheduled(e) THEN 1 ELSE 0
    BY <1>5 DEF SameMode, SameOut
  <2> QED BY <1>2, <1>3, <1>4, <1>5, <2>3, <2>4, QuietRun
<1>7. CASE pre.ok
  <2>1. PICK x \in Executed(k, e) :
            /\ codec' = [codec EXCEPT ![k] = Postprocessed(k, x).c]
            /\ Sent(w, <<>>, queue[w], first \o Postprocessed(k, x).out)
            /\ Told(first \o Postprocessed(k, x).out)
    BY <1>1, <1>7
  <2> DEFINE r == Postprocessed(k, x)
  <2>2. /\ codec' = [codec EXCEPT ![k] = r.c]
        /\ Sent(w, <<>>, queue[w], first \o r.out) /\ Told(first \o r.out)
    BY <2>1
  <2>3. r = Postprocessed(k, x)
    OBVIOUS
  <2> HIDE DEF pre, e, first, r
  <2>4. CASE Initial(e)
    BY <1>2, <1>3, <2>2, <2>3, <2>4, InitialRun
  <2>5. CASE "execution" \in e.state
    BY <1>2, <1>3, <2>2, <2>3, <2>5, ExecutionRun
  <2>6. CASE Completed(e)
    BY <1>2, <1>3, <2>2, <2>3, <2>6, CompletedRun
  <2> QED BY <1>4, <2>4, <2>5, <2>6 DEF OnePhase
<1> QED BY <1>6, <1>7

-----------------------------------------------------------------------------
(* Deletion.                                                               *)

\* A component that may go: it is done with its port.
MayGo(k, x) ==
    /\ Serves(k, x)
    /\ x.msg = Control(k) \/ ~Routed(codec[k]) \/ "idle" \in codec[k].oflags
    /\ LocalLeft(WorkerOf[k]) = <<>> \/ x.msg = Control(k)

\* What is left for it are messages of the application and of other workers.
LEMMA LeftBehind ==
    ASSUME ChainInv, NEW k \in Codecs, NEW x, MayGo(k, x)
    PROVE  LET w == WorkerOf[k] IN
           /\ \A y \in Items(LocalLeft(w)) : y.to # k
           /\ \A z \in Items(QueueLeft(w)) : z.to = k =>
                /\ z \in ItemType /\ z \in Items(queue[w])
                /\ ~FromPool(z.msg) => AppKind(z)
                /\ FromPool(z.msg) => /\ IsForth(z) /\ ForthKind(z) /\ z.msg.of \in Codecs
                                      /\ z.msg.of # k /\ WorkerOf[z.msg.of] # w
<1> DEFINE w == WorkerOf[k]
           l == LocalLeft(w)
           q == QueueLeft(w)
           T == {x}
           nil == <<>>
<1>1. /\ Takes(k, T, l, q) /\ TypeInv /\ PoolInv /\ w \in Workers
      /\ (l = <<>> /\ Scheduling(w) = {} /\ Queued(x)) \/ (FromPool(x.msg) /\ x \in Items(local[w]))
  BY ServesOne DEF MayGo, ChainInv, Workers
<1>2. \A y \in Items(nil) : ~Of(y, k)
  BY EmptyItems
<1>3. PortDone(k, T, nil)
  BY <1>2 DEF PortDone, MayGo
<1>4. /\ l \in Seq(ItemType) /\ q \in Seq(ItemType)
      /\ Items(l) \subseteq Items(local[w]) /\ Items(q) \subseteq Items(queue[w])
      /\ \A y \in Items(l) \cup Items(q) : ~Of(y, k)
  <2>1. \A y \in Items(l) \cup Items(q) : IsLeft(k, l, q, y)
    BY <1>1 DEF Takes, IsLeft
  <2>2. \A y \in Items(l) \cup Items(q) : ~Of(y, k)
    BY <1>1, <1>3, <2>1, NothingLeft
  <2> QED BY <1>1, <2>2 DEF Takes
<1> HIDE DEF nil, T
<1>5. ASSUME NEW z \in Items(q), z.to = k
      PROVE  /\ z \in ItemType /\ z \in Items(queue[w])
             /\ ~FromPool(z.msg) => AppKind(z)
             /\ FromPool(z.msg) => /\ IsForth(z) /\ ForthKind(z) /\ z.msg.of \in Codecs
                                   /\ z.msg.of # k /\ WorkerOf[z.msg.of] # w
  <2>1. z \in ItemType /\ z \in Items(queue[w])
    BY <1>4, SeqFacts
  <2>2. QueuePlace(w, z) /\ InTransit(z)
    BY <1>1, <2>1 DEF PoolInv, PlaceInv, InTransit
  <2>3. z.msg \in AllMsgs
    BY <2>1, ItemFacts
  <2>4. ASSUME FromPool(z.msg) PROVE z.msg.of \in Codecs /\ z.msg.of # k
    BY <1>4, <1>5, <2>3, <2>4, MsgFacts DEF Of
  <2> QED BY <1>5, <2>1, <2>2, <2>4 DEF QueuePlace, IsForth, IsBack
<1>6. ASSUME NEW y \in Items(l), y.to = k PROVE FALSE
  <2>1. x.msg = Control(k) /\ x \in Items(local[w]) /\ y \in Items(local[w])
    BY <1>1, <1>4, <1>6, EmptyItems DEF MayGo
  <2>2. LocalPlace(w, y) /\ y.msg \in AllMsgs
    <3>1. y \in ItemType
      BY <1>4, SeqFacts
    <3> QED BY <1>1, <2>1, <3>1, ItemFacts DEF PoolInv, PlaceInv
  <2>3. ~IsBack(y) /\ RouteOf(y.msg.of) = k
    BY <1>4, <1>6, <2>2 DEF LocalPlace, Of, IsBack
  <2>4. x.to = k /\ IsBack(x)
    BY <2>1, MsgFacts DEF MayGo, Serves, IsBack
  <2>5. Depth[k] < Depth[k]
    BY <1>1, <1>6, <2>1, <2>3, <2>4 DEF ChainInv, LeadInv, IsLead
  <2>6. Depth[k] \in Nat
    BY DepthFacts
  <2> QED BY <2>5, <2>6
<1> QED BY <1>5, <1>6 DEF w, l, q

\* What returns of it.
LEMMA WhatReturns ==
    ASSUME ChainInv, NEW k \in Codecs, NEW x, MayGo(k, x), NEW z \in Items(QueueLeft(WorkerOf[k])), z.to = k
    PROVE  LET y == Returned(z) IN
           /\ y \in OutType /\ y.msg = z.msg
           /\ \/ AppReply(k, y)
              \/ /\ \A T : z \in T => IsAnswer(k, T, Destroyed, y)
                 /\ WorkerOf[y.to] # WorkerOf[k]
           /\ FromPool(z.msg) => y.to = z.msg.of
           /\ ~FromPool(z.msg) => y.to = App
<1> DEFINE w == WorkerOf[k]
           y == Returned(z)
           len == IF FromPool(z.msg) THEN Invalid ELSE 0
<1>1. /\ z \in ItemType /\ z \in Items(queue[w])
      /\ ~FromPool(z.msg) => AppKind(z)
      /\ FromPool(z.msg) => /\ IsForth(z) /\ ForthKind(z) /\ z.msg.of \in Codecs
                            /\ z.msg.of # k /\ WorkerOf[z.msg.of] # w
  BY LeftBehind
<1>2. z \in OutType /\ len \in Lens /\ y = Answered(z, len) /\ z.msg \in AllMsgs
  BY <1>1, ItemFacts DEF Lens, Returned
<1> HIDE DEF len, y
<1>3. /\ y \in OutType /\ y.msg = z.msg
      /\ y.to = IF FromPool(z.msg) THEN z.msg.of ELSE App
      /\ y.op = IF z.op = "empty" /\ FromPool(z.msg) THEN "fill" ELSE z.op
  BY <1>2, AnswerFacts
<1>4. CASE FromPool(z.msg)
  <2>1. y.to = z.msg.of /\ IsBack(y) /\ BackOp(y) /\ (y.op = "flush" => z.op = "flush")
    BY <1>1, <1>3, <1>4 DEF IsBack, BackOp, ForthKind, IsControl
  <2>2. Destroyed.mode = "gone"
    BY DEF Destroyed, Configured
  <2>3. ASSUME NEW T, z \in T PROVE IsAnswer(k, T, Destroyed, y)
    <3>1. Destroyed.mode # "running" /\ z \in T \cup Items(codec[k].in)
      BY <2>2, <2>3
    <3> QED BY <1>1, <1>3, <1>4, <2>1, <3>1 DEF IsAnswer
  <2> QED BY <1>1, <1>3, <1>4, <2>1, <2>3 DEF y
<1>5. CASE ~FromPool(z.msg)
  <2>1. z.msg \in AppMsgs /\ AppKind(z)
    BY <1>1, <1>2, <1>5, MsgFacts
  <2>2. z.msg = Cmd \/ z.msg.of = k
    BY <2>1, MsgFacts DEF AppKind
  <2> QED BY <1>3, <1>5, <2>1, <2>2 DEF AppReply, y
<1> QED BY <1>4, <1>5

\* ... in the order it was in.
IsFor(k, left) == {i \in DOMAIN left : left[i].to = k}
Bounce(k) == Bounced(Those(QueueLeft(WorkerOf[k]), IsFor(k, QueueLeft(WorkerOf[k]))))

\* Those answers are messages in that order.
LEMMA BounceFacts ==
    ASSUME ChainInv, NEW k \in Codecs, NEW x, MayGo(k, x)
    PROVE  /\ Bounce(k) \in Seq(OutType) /\ Ordered(Bounce(k))
           /\ \A y \in Items(Bounce(k)) : \E z \in Items(QueueLeft(WorkerOf[k])) : z.to = k /\ y = Returned(z)
           /\ \A z \in Items(QueueLeft(WorkerOf[k])) :
                z.to = k /\ (Origin(z.msg) = App \/ Alive(Returned(z))) => Returned(z) \in Items(Bounce(k))
           /\ \A y, z : Ahead(Bounce(k), y, z) =>
                \E a, b : /\ Ahead(QueueLeft(WorkerOf[k]), a, b) /\ a.to = k /\ b.to = k
                          /\ y = Returned(a) /\ z = Returned(b)
<1> DEFINE w == WorkerOf[k]
           q == QueueLeft(w)
           T == {x}
           A == {y \in ItemType : y.to = k}
           I == IsFor(k, q)
           s == Those(q, I)
<1>1. /\ Takes(k, T, LocalLeft(w), q) /\ w \in Workers
  BY ServesOne DEF MayGo, Workers
<1>2. q \in Seq(ItemType) /\ \A a, b : Ahead(q, a, b) => Ahead(queue[w], a, b)
  BY <1>1 DEF Takes
<1> HIDE DEF q, T
<1>3. I \in SUBSET (DOMAIN q) /\ \A i \in DOMAIN q : (i \in I) <=> (q[i] \in A)
  BY <1>2, SeqFacts DEF IsFor
<1> HIDE DEF I, A
<1>4. /\ s \in Seq(ItemType)
      /\ \A a : (a \in Items(s)) <=> (a \in Items(q) /\ a \in A)
      /\ \A a, b : Ahead(s, a, b) => Ahead(q, a, b) /\ a \in A /\ b \in A
  BY <1>2, <1>3, Chosen
<1> HIDE DEF s
<1>5. s \in Seq(OutType)
  <2>1. Len(s) \in Nat /\ DOMAIN s = 1..Len(s) /\ \A i \in DOMAIN s : s[i] \in ItemType
    BY <1>4, SeqFacts
  <2>2. \A i \in DOMAIN s : s[i] \in OutType
    BY <2>1, ItemFacts
  <2> QED BY <1>4, <2>1, <2>2
<1> DEFINE back == Bounced(s)
<1>6. /\ back \in Seq(OutType)
      /\ \A y \in Items(back) : \E z \in Items(s) : y = Returned(z)
      /\ \A z \in Items(s) : Origin(z.msg) = App \/ Alive(Returned(z)) => Returned(z) \in Items(back)
      /\ \A y, z : Ahead(back, y, z) =>
           \E a, b : Ahead(s, a, b) /\ y = Returned(a) /\ z = Returned(b)
  BY <1>5, BouncedFacts
<1>7. back = Bounce(k)
  BY DEF Bounce, s, I, q
<1> HIDE DEF back
<1>8. \A y \in Items(back) : \E z \in Items(q) : z.to = k /\ y = Returned(z)
  BY <1>4, <1>6 DEF A
<1>9. Ordered(back)
  <2> SUFFICES ASSUME NEW y, NEW z, Ahead(back, y, z), IsControl(y), Of(z, y.msg.of) PROVE FALSE
    BY DEF Ordered
  <2>1. PICK a, b : Ahead(s, a, b) /\ y = Returned(a) /\ z = Returned(b)
    BY <1>6
  <2>2. /\ Ahead(queue[w], a, b) /\ a.to = k /\ b.to = k /\ a \in Items(q) /\ b \in Items(q)
    <3>1. Ahead(q, a, b) /\ a \in A /\ b \in A
      BY <1>4, <2>1
    <3> QED BY <1>2, <3>1 DEF A, Ahead, Items
  <2>3. y.msg = a.msg /\ z.msg = b.msg
    BY <2>1, <2>2, WhatReturns DEF q
  <2>4. IsControl(a) /\ Of(b, a.msg.of)
    BY <2>3 DEF IsControl, Of
  <2> QED BY <1>1, <2>2, <2>4 DEF ChainInv, PoolInv, ClosedInv, Closed
<1>10. \A z \in Items(q) : z.to = k /\ (Origin(z.msg) = App \/ Alive(Returned(z))) => Returned(z) \in Items(back)
  <2>1. \A z \in Items(q) : z \in ItemType
    BY <1>2, SeqFacts
  <2> QED BY <1>4, <1>6, <2>1 DEF A
<1>11. \A y, z : Ahead(back, y, z) =>
        \E a, b : Ahead(q, a, b) /\ a.to = k /\ b.to = k /\ y = Returned(a) /\ z = Returned(b)
  BY <1>4, <1>6 DEF A
<1> QED BY <1>6, <1>7, <1>8, <1>9, <1>10, <1>11 DEF q

\* What the application is told by a message does not hang on their order.
LEMMA ToldSame ==
    ASSUME NEW s, NEW t, Items(s) = Items(t), Told(s)
    PROVE  Told(t)
<1> DEFINE a == {s[i] : i \in {j \in DOMAIN s : s[j].to = App}}
           b == {t[i] : i \in {j \in DOMAIN t : t[j].to = App}}
<1>1. a = {y \in Items(s) : y.to = App} /\ b = {y \in Items(t) : y.to = App}
  BY DEF Items
<1>2. a = b
  BY <1>1
<1> DEFINE Says(r) ==
             LET returned == \E x \in r : x.msg = Cmd
             IN /\ owned' = owned \cup {x.msg : x \in r}
                /\ ready' = ready \cup {x.msg.of : x \in {y \in r : y.msg.what = "start" /\ y.len > 0}}
                /\ call' = IF returned THEN None ELSE call
                /\ conn' = IF ~returned THEN conn
                           ELSE CASE call.op = "route"   -> [conn EXCEPT ![call.on] = call.arg]
                                  [] call.op = "unroute" -> [conn EXCEPT ![call.on] = None]
                                  [] OTHER               -> conn
<1>3. Told(s) <=> Says(a)
  BY DEF Told
<1>4. Told(t) <=> Says(b)
  BY DEF Told
<1> HIDE DEF Says, a, b
<1> QED BY <1>2, <1>3, <1>4

\* A deletion as a step: what it was given are the message that came and what was left;
\* r are the answers to that.
AllGiven(k, x) == {x} \cup {z \in Items(QueueLeft(WorkerOf[k])) : z.to = k}

\* So it is.
LEMMA DestroySteps ==
    ASSUME ChainInv, NEW k \in Codecs, NEW x, MayGo(k, x), NEW s \in Seq(OutType), Destroy(k, s)
    PROVE  \E q, r :
             /\ Steps(k, AllGiven(k, x), LocalLeft(WorkerOf[k]), q, Destroyed, (s \o <<CmdDone("unregister")>>) \o r)
             /\ r \in Seq(OutType) /\ Items(r) = Items(Bounce(k)) /\ Ordered(r)
             /\ \A y, z : Ahead(r, y, z) => Ahead(Bounce(k), y, z)
             /\ \A y \in Items(q) : y.to # k
             /\ \A y \in Items(QueueLeft(WorkerOf[k])) : y.to # k => y \in Items(q)
             /\ Items(q) \subseteq Items(QueueLeft(WorkerOf[k]))
<1> DEFINE w == WorkerOf[k]
           l == LocalLeft(w)
           left == QueueLeft(w)
           for == IsFor(k, left)
           back == Bounce(k)
           done == <<CmdDone("unregister")>>
           sent == s \o done
           T == AllGiven(k, x)
<1>1. /\ codec' = [codec EXCEPT ![k] = Destroyed]
      /\ Told(sent \o back)
      /\ \E near \in BOOLEAN :
            LET Far(y) == y.to \in Codecs /\ WorkerOf[y.to] = w /\ ~near
                kept == Those(left, {i \in DOMAIN left : i \in for =>
                                       Alive(Returned(left[i])) /\ Far(Returned(left[i]))})
            IN Sent(w, l,
                    [i \in DOMAIN kept |-> IF kept[i].to = k THEN Returned(kept[i]) ELSE kept[i]],
                    sent \o Those(back, {i \in DOMAIN back : ~Far(back[i])}))
  BY DEF Destroy, Bounce, IsFor
<1>2. PICK near \in BOOLEAN :
            LET Far(y) == y.to \in Codecs /\ WorkerOf[y.to] = w /\ ~near
                kept == Those(left, {i \in DOMAIN left : i \in for =>
                                       Alive(Returned(left[i])) /\ Far(Returned(left[i]))})
            IN Sent(w, l,
                    [i \in DOMAIN kept |-> IF kept[i].to = k THEN Returned(kept[i]) ELSE kept[i]],
                    sent \o Those(back, {i \in DOMAIN back : ~Far(back[i])}))
  BY <1>1
<1> DEFINE Far(y) == y.to \in Codecs /\ WorkerOf[y.to] = w /\ ~near
           I == {i \in DOMAIN left : i \in for => Alive(Returned(left[i])) /\ Far(Returned(left[i]))}
           kept == Those(left, I)
           q == [i \in DOMAIN kept |-> IF kept[i].to = k THEN Returned(kept[i]) ELSE kept[i]]
           J == {i \in DOMAIN back : ~Far(back[i])}
           r == Those(back, J)
<1>3. Sent(w, l, q, sent \o r)
  BY <1>2
<1>4. /\ Takes(k, {x}, l, left) /\ Turn(k, {x}, l, left) /\ w \in Workers /\ x \in ItemType /\ x.to = k
      /\ left \in Seq(ItemType)
  BY ServesOne, ServedKinds DEF MayGo, Workers, Takes
<1>5. /\ back \in Seq(OutType) /\ Ordered(back)
      /\ \A y \in Items(back) : \E z \in Items(left) : z.to = k /\ y = Returned(z)
  BY BounceFacts
<1>6. \A z \in Items(left) : z.to = k => ~Far(Returned(z))
  <2> SUFFICES ASSUME NEW z \in Items(left), z.to = k PROVE ~Far(Returned(z))
    OBVIOUS
  <2>1. /\ FromPool(z.msg) => Returned(z).to = z.msg.of
        /\ ~FromPool(z.msg) => Returned(z).to = App
    BY WhatReturns
  <2>2. FromPool(z.msg) => WorkerOf[z.msg.of] # w
    BY LeftBehind
  <2> QED BY <2>1, <2>2, AppAssumption
<1> DEFINE A == {y \in ItemType : y.to # k}
<1> HIDE DEF left, back
<1>7. I \in SUBSET (DOMAIN left) /\ \A i \in DOMAIN left : (i \in I) <=> (left[i] \in A)
  <2>1. \A i \in DOMAIN left : left[i] \in Items(left) /\ left[i] \in ItemType /\ (i \in for <=> left[i].to = k)
    BY <1>4, SeqFacts DEF Items, IsFor
  <2> QED BY <1>6, <2>1
<1>8. J \in SUBSET (DOMAIN back) /\ \A i \in DOMAIN back : i \in J
  <2>1. \A i \in DOMAIN back : back[i] \in Items(back)
    BY DEF Items
  <2> QED BY <1>5, <1>6, <2>1
<1> HIDE DEF Far, I, J, A
<1>9. /\ kept \in Seq(ItemType)
      /\ \A a : (a \in Items(kept)) <=> (a \in Items(left) /\ a \in A)
      /\ \A a, b : Ahead(kept, a, b) => Ahead(left, a, b) /\ a \in A /\ b \in A
  BY <1>4, <1>7, Chosen
<1>10. q = kept
  <2> HIDE DEF kept
  <2>1. \A i \in DOMAIN kept : kept[i] \in Items(kept) /\ kept[i].to # k
    BY <1>9 DEF A, Items
  <2>2. kept = [i \in DOMAIN kept |-> kept[i]]
    BY <1>9
  <2> QED BY <2>1, <2>2
<1> HIDE DEF kept, q
<1>11. /\ r \in Seq(OutType) /\ Items(r) = {back[i] : i \in J}
       /\ \A a, b : Ahead(r, a, b) => \E i, j \in J : i < j /\ back[i] = a /\ back[j] = b
  BY <1>5, <1>8, ThoseChosen
<1>12. Items(r) = Items(back)
  BY <1>8, <1>11 DEF Items
<1> HIDE DEF r
<1>20. \A a, b : Ahead(r, a, b) => Ahead(back, a, b)
  BY <1>8, <1>11 DEF Ahead
<1>13. Ordered(r)
  BY <1>5, <1>20 DEF Ordered
<1>14. sent \in Seq(OutType)
  <2>1. done \in Seq(OutType)
    BY CmdReplied DEF Ops
  <2> HIDE DEF done
  <2> QED BY <2>1
<1> HIDE DEF sent
<1>15. Told(sent \o r)
  <2>1. Items(sent \o back) = Items(sent) \cup Items(back)
    BY <1>5, <1>14, Joined
  <2>2. Items(sent \o r) = Items(sent) \cup Items(r)
    BY <1>11, <1>14, Joined
  <2>3. Items(sent \o back) = Items(sent \o r)
    BY <1>12, <2>1, <2>2
  <2> QED BY <1>1, <2>3, ToldSame
<1>16. \A y \in Items(q) : y.to # k
  BY <1>9, <1>10 DEF A
<1>17. Takes(k, T, l, q)
  <2>1. /\ T \subseteq ItemType /\ \A y \in T : y.to = k /\ (y \in Items(local[w]) \/ y \in Items(queue[w]))
    <3>1. \A y \in Items(left) : y \in ItemType /\ y \in Items(queue[w])
      BY <1>4, SeqFacts DEF Takes
    <3>2. x \in Items(local[w]) \/ x \in Items(queue[w])
      BY <1>4 DEF Takes
    <3>3. \A y \in T : y = x \/ (y \in Items(left) /\ y.to = k)
      BY DEF AllGiven, left
    <3> QED BY <1>4, <3>1, <3>2, <3>3
  <2>2. q \in Seq(ItemType) /\ Items(q) \subseteq Items(queue[w]) /\ \A a, b : Ahead(q, a, b) => Ahead(queue[w], a, b)
    BY <1>4, <1>9, <1>10 DEF Takes
  <2>3. \A y \in Items(l) \cup Items(q) : y.to # k
    BY <1>16, LeftBehind
  <2> QED BY <1>4, <2>1, <2>2, <2>3 DEF Takes
<1>18. Turn(k, T, l, q)
  <2>1. ASSUME NEW z \in T, NEW y \in Items(q), z.msg = Cmd \/ IsStart(z) PROVE y.msg # z.msg
    <3>1. Queued(y) /\ y \in ItemType /\ QueuePlace(w, y)
      <4>1. y \in Items(queue[w]) /\ y \in ItemType
        BY <1>4, <1>17, SeqFacts DEF Takes
      <4> QED BY <1>4, <4>1 DEF Queued, ChainInv, PoolInv, PlaceInv
    <3>2. z.to = k /\ z \in ItemType
      BY <1>17 DEF Takes
    <3>3. CASE z.msg = Cmd
      <4>1. HasMsg(T, Cmd)
        BY <3>3 DEF HasMsg
      <4>2. y.msg = Cmd => y = Item(k, Cmd, call.op, 0)
        BY <1>17, <3>1, <4>1, CallFacts
      <4>3. y.msg # Cmd
        BY <1>16, <4>2, ItemFacts
      <4> QED BY <3>3, <4>3
    <3>4. CASE IsStart(z)
      <4> SUFFICES ASSUME y.msg = z.msg PROVE FALSE
        OBVIOUS
      <4>1. ~FromPool(z.msg)
        BY <3>4, AppMsgFacts DEF IsStart
      <4>2. AppKind(y) /\ y.msg.what = "start"
        BY <3>1, <3>4, <4>1 DEF QueuePlace, IsStart
      <4>3. y.msg = Msg(y.to, "start")
        BY <4>2, MsgFacts DEF AppKind
      <4>4. AppKind(z)
        <5>1. z.msg.what = "start"
          BY <3>4 DEF IsStart
        <5>2. CASE z = x
          BY <4>1, <5>2, ServedKinds DEF MayGo
        <5>3. CASE z \in Items(left) /\ z.to = k
          BY <4>1, <5>3, LeftBehind DEF left
        <5> QED BY <5>2, <5>3 DEF AllGiven, left
      <4>5. z.msg = Msg(z.to, "start")
        BY <3>4, <4>4, MsgFacts DEF AppKind, IsStart
      <4>6. y.msg.of = y.to /\ z.msg.of = z.to
        <5>1. \A h, what : Msg(h, what).of = h
          BY MsgFacts
        <5>2. Msg(y.to, "start").of = y.to
          BY <5>1
        <5>3. Msg(z.to, "start").of = z.to
          BY <5>1
        <5> QED BY <4>3, <4>5, <5>2, <5>3
      <4> QED BY <1>16, <3>2, <4>6
    <3> QED BY <2>1, <3>3, <3>4
  <2>2. (local[w] = <<>> /\ l = <<>>) \/ \E z \in T : z \in Items(local[w])
    BY <1>4 DEF Turn, AllGiven
  <2>3. \A h \in Codecs : h # k /\ WorkerOf[h] = w => ~Alone(h)
    BY <1>4 DEF Turn
  <2> QED BY <2>1, <2>2, <2>3 DEF Turn
<1>19. Steps(k, T, l, q, Destroyed, sent \o r)
  BY <1>1, <1>3, <1>15, <1>17, <1>18 DEF Steps
<1>21. (\A y \in Items(left) : y.to # k => y \in Items(q)) /\ Items(q) \subseteq Items(left)
  <2>1. \A y \in Items(left) : y \in ItemType
    BY <1>4, SeqFacts
  <2> QED BY <1>9, <1>10, <2>1 DEF A
<1> QED BY <1>11, <1>12, <1>13, <1>16, <1>19, <1>20, <1>21 DEF sent, back, left

\* A component that was configured, and one that is gone.
LEMMA ConfiguredType == ASSUME NEW k \in Codecs PROVE Configured \in CodecType(k) /\ Destroyed \in CodecType(k)
<1> DEFINE nil == <<>>
           S == {"runtime_init"}
           I == {"enabled"}
           O == {"idle"}
           c == [mode |-> "running", state |-> S, tree |-> 0, prepared |-> FALSE,
                 in |-> nil, iflags |-> I, filled |-> 0,
                 out |-> nil, oflags |-> O, route |-> None, ptr |-> None]
<1>1. nil \in Seq(ItemType) /\ nil \in Seq(AllMsgs) /\ 0 \in 0..Frame /\ 0 \in Nat /\ FALSE \in BOOLEAN
  BY FrameAssumption
<1>2. S \in SUBSET Flags.state /\ I \in SUBSET Flags.in /\ O \in SUBSET Flags.out
  BY DEF Flags
<1>3. Configured = c
  BY DEF Configured
<1> HIDE DEF nil, S, I, O
<1>4. c \in CodecType(k)
  BY <1>1, <1>2 DEF CodecType
<1> HIDE DEF c
<1>5. Destroyed = [c EXCEPT !.mode = "gone", !.state = {}, !.iflags = {}, !.oflags = {}]
  BY <1>3 DEF Destroyed
<1>6. Destroyed \in CodecType(k)
  BY <1>4, <1>5 DEF CodecType
<1> QED BY <1>3, <1>4, <1>6

\* xa_audio_codec_destroy: s has been sent; a command, given or saved, is answered.
LEMMA DestroyStep ==
    ASSUME ChainInv, NEW k \in Codecs, NEW x, MayGo(k, x), NEW s \in Seq(OutType), Destroy(k, s),
           Plain(k, {x}, s), Ordered(s), ~ToApp(s, Cmd),
           \A y \in Items(s) : IsControl(y) => \E z \in Items(codec[k].in) : y.msg = z.msg,
           x.msg = Cmd \/ SavedIn(codec[k]), call.op = "unregister"
    PROVE  ChainInv'
<1> DEFINE w == WorkerOf[k]
           l == LocalLeft(w)
           left == QueueLeft(w)
           T == AllGiven(k, x)
           d == Destroyed
           done == <<CmdDone("unregister")>>
           sent == s \o done
<1>1. PICK q, r :
        /\ Steps(k, T, l, q, d, sent \o r)
        /\ r \in Seq(OutType) /\ Items(r) = Items(Bounce(k)) /\ Ordered(r)
        /\ \A y \in Items(q) : y.to # k
  BY DestroySteps
<1> DEFINE out == sent \o r
<1>2. /\ done \in Seq(OutType) /\ Plain(k, {x}, done) /\ Ordered(done)
      /\ \A m : ToApp(done, m) <=> m = Cmd
      /\ \A y \in Items(done) : ~IsControl(y) /\ ~FromPool(y.msg)
  BY CmdReplied DEF Ops
<1>3. Serves(k, x) /\ ~Gone(k) /\ w \in Workers /\ x \in ItemType
  BY ServedKinds DEF MayGo, Serves, Workers
<1>4. Takes(k, T, l, q) /\ Turn(k, T, l, q) /\ Told(out) /\ codec' = [codec EXCEPT ![k] = d] /\ Sent(w, l, q, out)
  BY <1>1 DEF Steps
<1>5. ASSUME NEW y \in Items(r)
      PROVE  \E z \in Items(left) : /\ z.to = k /\ y.msg = z.msg /\ z \in T
                                    /\ \/ AppReply(k, y)
                                       \/ IsAnswer(k, T, d, y) /\ WorkerOf[y.to] # w
  <2>1. PICK z \in Items(left) : z.to = k /\ y = Returned(z)
    BY <1>1, <1>5, BounceFacts
  <2>2. z \in T
    BY <2>1 DEF AllGiven
  <2>3. /\ y.msg = z.msg
        /\ \/ AppReply(k, y)
           \/ /\ \A U : z \in U => IsAnswer(k, U, d, y)
              /\ WorkerOf[y.to] # w
    BY <2>1, WhatReturns
  <2> QED BY <2>1, <2>2, <2>3
<1>6. x \in T
  BY DEF AllGiven
<1> HIDE DEF done
<1>7. /\ sent \in Seq(OutType) /\ Items(sent) = Items(s) \cup Items(done)
      /\ Plain(k, {x}, sent)
      /\ Ordered(sent)
      /\ ToApp(sent, Cmd)
  <2>1. \A y \in Items(s), z \in Items(done) : IsControl(y) => ~Of(z, y.msg.of)
    BY <1>2 DEF Of
  <2> QED BY <1>2, <2>1, PlainJoined
<1> HIDE DEF sent
<1>8. /\ out \in Seq(OutType) /\ Items(out) = Items(sent) \cup Items(r)
      /\ ToApp(out, Cmd)
  <2>1. /\ sent \o r \in Seq(OutType) /\ Items(sent \o r) = Items(sent) \cup Items(r)
        /\ \A m : ToApp(sent \o r, m) <=> (ToApp(sent, m) \/ ToApp(r, m))
    BY <1>1, <1>7, PlainJoined
  <2> QED BY <1>7, <2>1
<1>9. Ordered(out)
  <2>1. ASSUME NEW y \in Items(sent), NEW z \in Items(r), IsControl(y), Of(z, y.msg.of) PROVE FALSE
    <3>1. y \in Items(s)
      BY <1>2, <1>7, <2>1
    <3>2. PICK a \in Items(codec[k].in) : y.msg = a.msg
      BY <2>1, <3>1
    <3>3. PICK b \in Items(left) : b.to = k /\ z.msg = b.msg
      BY <1>5
    <3>4. IsControl(a) /\ Of(b, a.msg.of) /\ FromPool(b.msg)
      BY <2>1, <3>2, <3>3 DEF IsControl, Of
    <3>5. IsForth(b)
      BY <3>3, <3>4, LeftBehind
    <3> QED BY <3>2, <3>4, <3>5 DEF ChainInv, PoolInv, NoneBehind
  <2> QED BY <1>1, <1>7, <2>1, PlainJoined
<1> HIDE DEF out, T, left
<1>10. /\ d.mode = "gone" /\ d.in = <<>> /\ ~Routed(d) /\ ~IsScheduled(d) /\ ~SavedIn(d)
       /\ d \in CodecType(k) /\ Items(d.in) = {}
  <2>1. /\ d.mode = "gone" /\ d.in = <<>> /\ d.oflags = {} /\ d.state = {}
    BY DEF Destroyed, Configured
  <2>2. d \in CodecType(k)
    BY ConfiguredType
  <2> QED BY <2>1, <2>2, EmptyItems DEF Routed, IsScheduled, SavedIn, Unrouting
<1> HIDE DEF d
<1>11. ASSUME NEW y \in Items(out)
       PROVE  /\ y.to = App \/ IsAnswer(k, T, d, y)
              /\ y.to = App => AppReply(k, y)
              /\ y.to # App /\ WorkerOf[y.to] = w => ~IsLead(y)
              /\ ~Of(y, k)
  <2>1. y \in OutType /\ y.msg \in AllMsgs
    BY <1>8, SeqFacts, ItemFacts
  <2>2. CASE y \in Items(sent)
    <3>1. Plain(k, T, sent)
      <4>1. \A z : Reply(k, {x}, z) => Reply(k, T, z)
        BY <1>6 DEF Reply
      <4> QED BY <1>7, <4>1 DEF Plain
    <3>2. (y.to = App \/ IsAnswer(k, T, d, y)) /\ ~Of(y, k)
      BY <1>7, <2>2, <3>1, PlainFacts
    <3>3. AppReply(k, y) \/ Reply(k, T, y)
      BY <2>2, <3>1 DEF Plain
    <3>4. CASE AppReply(k, y)
      BY <3>2, <3>4 DEF AppReply
    <3>5. CASE Reply(k, T, y)
      <4>1. y.to = y.msg.of /\ y.msg.of \in Codecs
        BY <2>1, <3>5, MsgFacts DEF Reply, IsBack
      <4> QED BY <3>2, <3>5, <4>1, AppAssumption DEF Reply, IsLead
    <3> QED BY <3>3, <3>4, <3>5
  <2>3. CASE y \in Items(r)
    <3>1. AppReply(k, y) \/ (IsAnswer(k, T, d, y) /\ WorkerOf[y.to] # w)
      BY <1>5, <2>3
    <3>2. CASE AppReply(k, y)
      <4>1. ~FromPool(y.msg)
        BY <3>2, MsgFacts DEF AppReply
      <4> QED BY <3>2, <4>1 DEF AppReply, Of
    <3>3. CASE IsAnswer(k, T, d, y) /\ WorkerOf[y.to] # w
      <4>1. y.to = y.msg.of /\ y.msg.of \in Codecs /\ y.msg.of # k
        BY <2>1, <3>3, MsgFacts DEF IsAnswer, IsBack
      <4> QED BY <3>3, <4>1, AppAssumption DEF Of
    <3> QED BY <3>1, <3>2, <3>3
  <2> QED BY <1>8, <2>2, <2>3
<1>12. OutOk(k, T, d, out)
  BY <1>8, <1>9, <1>10, <1>11 DEF OutOk, Ordered
<1>13. InOk(k, T, d)
  <2>1. \A y, z : ~Ahead(d.in, y, z)
    BY <1>10, EmptyItems
  <2> QED BY <1>10, <2>1 DEF InOk
<1>14. PortDone(k, T, out)
  BY <1>6, <1>11 DEF PortDone, MayGo
<1>15. ModeOk(k, l, q, d)
  <2>1. \A y \in Items(l) \cup Items(q) : y.to # k
    BY <1>1, LeftBehind
  <2> QED BY <1>10, <2>1 DEF ModeOk
<1>16. Handles(k, T, l, q, d, out)
  BY <1>4, <1>10, <1>12, <1>13, <1>14, <1>15, ToldReady DEF Handles
<1>17. AppOk(k, out)
  BY <1>11 DEF AppOk, AppReply
<1>18. CallOk(k, T, d, out)
  <2>1. CASE HasMsg(T, Cmd)
    BY <1>8, <1>10, <2>1 DEF CallOk
  <2>2. CASE ~HasMsg(T, Cmd)
    <3>1. x.msg # Cmd
      BY <1>6, <2>2 DEF HasMsg
    <3> QED BY <1>8, <1>10, <2>2, <3>1 DEF CallOk
  <2> QED BY <2>1, <2>2
<1>19. ConnOk(k, d, out)
  BY <1>10 DEF ConnOk
<1>20. StartOk(k, T, d, out)
  BY <1>10 DEF StartOk
<1>21. AloneOk(k, l, d, out)
  BY <1>10 DEF AloneOk
<1>22. FlushStepOk(k, T, d, out)
  BY <1>10, <1>11 DEF FlushStepOk, PortKept, IsFlush
<1>23. LeadOk(k, l, out)
  BY <1>11 DEF LeadOk
<1>24. IF d.mode = "gone" THEN d = Destroyed ELSE CompOk(k, d)
  BY <1>10 DEF d
<1>25. StepOk(k, T, l, q, d, out)
  <2> HIDE DEF l
  <2> QED BY <1>4, <1>16, <1>17, <1>18, <1>19, <1>20, <1>21, <1>22, <1>23, <1>24 DEF StepOk
<1> QED BY <1>25, StepKeeps

\* What an output port that is not connected holds goes back to the application.
LEMMA UnroutedLeft ==
    ASSUME NEW k \in Codecs, NEW T, NEW c \in CodecType(k), ~Routed(c), NEW op,
           \A m \in Items(c.out) : m \in AppMsgs /\ m # Cmd /\ m.of = k
    PROVE  LET f == Flushed(k, c, op) IN
           /\ f.done /\ f.out \in Seq(OutType) /\ Plain(k, T, f.out) /\ Ordered(f.out)
           /\ \A y \in Items(f.out) : ~IsControl(y) /\ ~FromPool(y.msg) /\ y.msg # Cmd
<1> DEFINE t == c.out
           s == [i \in DOMAIN t |-> Item(App, t[i], "fill", 0)]
           e == [c EXCEPT !.out = <<>>]
<1>1. Flushed(k, c, op) = [c |-> e, done |-> TRUE, out |-> s]
  BY DEF Flushed, Routed
<1> HIDE DEF e
<1>2. Flushed(k, c, op).done /\ Flushed(k, c, op).out = s
  BY <1>1
<1>3. t \in Seq(AllMsgs) /\ \A m \in Items(t) : m \in AppMsgs /\ m # Cmd /\ m.of = k
  BY DEF CodecType
<1> HIDE DEF t
<1>4. Len(t) \in Nat /\ DOMAIN t = 1..Len(t) /\ \A i \in DOMAIN t : t[i] \in AllMsgs /\ t[i] \in Items(t)
  BY <1>3, SeqFacts DEF Items
<1>5. ASSUME NEW i \in DOMAIN t
      PROVE  /\ s[i] \in OutType /\ AppReply(k, s[i])
             /\ ~IsControl(s[i]) /\ ~FromPool(s[i].msg) /\ s[i].msg # Cmd
  <2> DEFINE m == t[i]
             y == Item(App, m, "fill", 0)
  <2>1. m \in AppMsgs /\ m # Cmd /\ m.of = k /\ m \in AllMsgs /\ ~FromPool(m)
    BY <1>3, <1>4, MsgFacts
  <2>2. s[i] = y
    OBVIOUS
  <2> HIDE DEF m
  <2>3. y \in OutType /\ y.to = App /\ y.msg = m
    BY <2>1, ItemFacts DEF Ops, Lens
  <2> HIDE DEF y
  <2>4. AppReply(k, y) /\ ~FromPool(y.msg) /\ y.msg # Cmd
    BY <2>1, <2>3 DEF AppReply
  <2>5. ~IsControl(y)
    BY <2>4, AppMsgFacts
  <2> QED BY <2>2, <2>3, <2>4, <2>5
<1>6. s \in Seq(OutType) /\ DOMAIN s = DOMAIN t
  BY <1>4, <1>5
<1> HIDE DEF s
<1>7. \A y \in Items(s) : AppReply(k, y) /\ ~IsControl(y) /\ ~FromPool(y.msg) /\ y.msg # Cmd
  BY <1>5, <1>6 DEF Items
<1>8. Ordered(s)
  <2>1. \A y, z : Ahead(s, y, z) => y \in Items(s)
    BY DEF Ahead, Items
  <2> QED BY <1>7, <2>1 DEF Ordered
<1>9. Plain(k, T, s)
  BY <1>7 DEF Plain
<1> QED BY <1>2, <1>6, <1>7, <1>8, <1>9

\* xa_audio_codec_cleanup
LEMMA UnregisterStep == ASSUME ChainInv, NEW k \in Codecs, Unregister(k) PROVE ChainInv'
<1> DEFINE c == codec[k]
           l == LocalLeft(WorkerOf[k])
           q == QueueLeft(WorkerOf[k])
           a == Cancelled(c)
           p == Purged(a).c
           pout == Purged(a).out
           g == Flushed(k, p, "flush")
           f == g.c
           fout == g.out
           done == g.done
           d == [f EXCEPT !.mode = "terminating"]
           out == pout \o fout
<1>1. PICK x \in Gets(k, "unregister") : IF done THEN Destroy(k, out) ELSE Becomes(k, d, out)
  BY DEF Unregister
<1> DEFINE T == {x}
<1>2. Serves(k, x) /\ c.mode = "running" /\ x.op = "unregister" /\ ~Gone(k)
  BY GetsServes DEF Serves
<1>3. /\ x.msg = Cmd /\ ~FromPool(x.msg) /\ call # None /\ call \in CallType /\ call.on = k /\ call.op = "unregister"
      /\ \A i \in Codecs : ~IsSaved(i)
      /\ l = <<>> /\ Scheduling(WorkerOf[k]) = {}
      /\ HasMsg(T, Cmd) /\ \A what : ~HasMsg(T, Msg(k, what))
  BY <1>2, CmdGiven DEF CmdOps
<1>4. ~done => Steps(k, T, l, q, d, out)
  BY <1>1, <1>2, ServesSteps
<1>5. /\ c \in CodecType(k) /\ TaskOk(k, c) /\ InputOk(c) /\ OutputOk(k, c)
      /\ c.out \in Seq(AllMsgs) /\ c.oflags \subseteq Flags.out /\ c.route = RouteOf(k)
      /\ (Routed(c) => <<k, RouteOf(k)>> \in Edges /\ k \notin Sinks)
  BY <1>2, Mine DEF CompOk
<1>6. ~Unrouting(c)
  BY <1>3 DEF IsSaved
<1>7. ~IsScheduled(c) /\ c.tree = 0
  <2>1. k \notin Scheduling(WorkerOf[k])
    BY <1>3
  <2>2. ~(c.tree > 0)
    BY <2>1 DEF Scheduling
  <2> QED BY <1>5, <2>2 DEF TaskOk
<1>8. /\ a \in CodecType(k) /\ SameMode(c, a) /\ SameIn(c, a) /\ SameOut(c, a)
      /\ a.state = c.state \ {"schedule"}
      /\ a.tree = IF "schedule" \in c.state THEN 0 ELSE c.tree
  BY <1>5, CancelledFields
<1> HIDE DEF a
<1>9. Items(a.in) \subseteq Items(codec[k].in) /\ (\A y, z : Ahead(a.in, y, z) => Ahead(codec[k].in, y, z)) /\ a.in = c.in
  BY <1>8 DEF SameIn
<1>10. /\ p \in CodecType(k) /\ SameMode(a, p) /\ SameTask(a, p) /\ SameOut(a, p)
       /\ p.in = <<>> /\ p.iflags = (a.iflags \cap {"paused"}) \cup {"enabled"}
       /\ pout \in Seq(OutType) /\ Plain(k, T, pout) /\ Ordered(pout)
       /\ \A y \in Items(pout) : \E z \in Items(a.in) : y.msg = z.msg
       /\ \A y \in Items(pout) : ~Of(y, k)
       /\ \A m : ToApp(pout, m) => m \in {Msg(k, "in"), Msg(k, "eos")}
  BY <1>8, <1>9, PurgedFacts
<1> HIDE DEF p, pout
<1>11. /\ p.mode = "running" /\ p.prepared = c.prepared /\ p.in = <<>> /\ ~Purging(p) /\ "enabled" \in p.iflags
       /\ p.out = c.out /\ p.oflags = c.oflags /\ p.route = RouteOf(k)
       /\ p.state = c.state \ {"schedule"} /\ p.tree = 0
  BY <1>2, <1>5, <1>7, <1>8, <1>10 DEF SameMode, SameTask, SameIn, SameOut, Purging
<1>12. ~ToApp(pout, Cmd) /\ ~ToApp(pout, Msg(k, "start"))
  BY <1>10, AppMsgFacts
<1>13. CASE ~Routed(c)
  <2>1. ~Routed(p)
    BY <1>11, <1>13 DEF Routed
  <2>2. \A m \in Items(p.out) : m \in AppMsgs /\ m # Cmd /\ m.of = k
    <3>1. CASE Initial(c)
      <4> DEFINE m == Msg(k, "start")
                 nil == <<>>
                 one == <<m>>
      <4>1. p.out = nil \/ p.out = one
        BY <1>5, <1>11, <3>1 DEF OutputOk
      <4>2. Items(nil) = {} /\ Items(one) = {m}
        BY EmptyItems, OneItem
      <4>3. m \in AppMsgs /\ m # Cmd /\ m.of = k
        BY MsgFacts, AppMsgFacts
      <4> HIDE DEF m, nil, one
      <4> QED BY <4>1, <4>2, <4>3
    <3>2. CASE ~Initial(c)
      <4>1. \A m \in Items(c.out) : m = Msg(k, "out") /\ k \in Sinks
        BY <1>5, <1>13, <3>2 DEF OutputOk
      <4> QED BY <1>11, <4>1, MsgFacts, AppMsgFacts
    <3> QED BY <3>1, <3>2
  <2> HIDE DEF g
  <2>3. /\ done /\ fout \in Seq(OutType) /\ Plain(k, T, fout) /\ Ordered(fout)
        /\ \A y \in Items(fout) : ~IsControl(y) /\ ~FromPool(y.msg) /\ y.msg # Cmd
    BY <1>10, <2>1, <2>2, UnroutedLeft DEF g
  <2> HIDE DEF done, fout
  <2>4. \A y \in Items(pout), z \in Items(fout) : IsControl(y) => ~Of(z, y.msg.of)
    BY <2>3 DEF Of
  <2>5. /\ out \in Seq(OutType) /\ Items(out) = Items(pout) \cup Items(fout)
        /\ Plain(k, T, out) /\ Ordered(out)
        /\ \A m : ToApp(out, m) <=> (ToApp(pout, m) \/ ToApp(fout, m))
    BY <1>10, <2>3, <2>4, PlainJoined
  <2>6. ~ToApp(fout, Cmd)
    BY <2>3 DEF ToApp
  <2>7. Destroy(k, out)
    BY <1>1, <2>3
  <2> HIDE DEF out
  <2>8. MayGo(k, x)
    BY <1>2, <1>3, <1>13 DEF MayGo
  <2>9. \A y \in Items(out) : IsControl(y) => \E z \in Items(codec[k].in) : y.msg = z.msg
    BY <1>9, <1>10, <2>3, <2>5
  <2>10. ~ToApp(out, Cmd)
    BY <1>12, <2>5, <2>6
  <2> QED BY <1>3, <2>5, <2>7, <2>8, <2>9, <2>10, DestroyStep
<1>14. CASE Routed(c)
  <2>1. Routed(p)
    BY <1>11, <1>14 DEF Routed
  <2> HIDE DEF g
  <2>2. /\ g.c \in CodecType(k) /\ SameMode(p, g.c) /\ SameTask(p, g.c) /\ SameIn(p, g.c)
        /\ g.c.out = p.out /\ g.c.route = p.route
        /\ LET now == "idle" \in p.oflags /\ "flush" # "fill" IN
           /\ g.done <=> now
           /\ now => g.out = <<>> /\ g.c.oflags = p.oflags
           /\ ~now => /\ g.c.oflags = p.oflags \cup {"flushing"}
                      /\ g.out = IF Flushing(p) THEN <<>>
                                 ELSE <<Item(p.route, Control(k), IF "flush" = "fill" THEN "empty" ELSE "flush", 0)>>
    BY <1>10, <2>1, FlushedFacts DEF g
  <2>3. /\ done <=> "idle" \in c.oflags
        /\ done => fout = <<>>
        /\ ~done => /\ f.oflags = c.oflags \cup {"flushing"}
                    /\ fout = IF Flushing(c) THEN <<>> ELSE <<Item(RouteOf(k), Control(k), "flush", 0)>>
    BY <1>11, <2>2 DEF Flushing
  <2>4. /\ f \in CodecType(k) /\ f.mode = "running" /\ f.prepared = c.prepared /\ f.in = <<>>
        /\ f.iflags = p.iflags /\ f.out = c.out /\ f.route = RouteOf(k)
        /\ f.state = c.state \ {"schedule"} /\ f.tree = 0
    BY <1>11, <2>2 DEF SameMode, SameTask, SameIn
  <2> HIDE DEF done, f, fout
  <2>5. CASE done
    <3>1. out = pout
      <4>1. out = pout \o <<>>
        BY <2>3, <2>5
      <4>2. pout \o <<>> = pout
        BY <1>10
      <4> QED BY <4>1, <4>2
    <3>2. Destroy(k, pout)
      BY <1>1, <2>5, <3>1
    <3>3. MayGo(k, x)
      BY <1>2, <1>3, <2>3, <2>5 DEF MayGo
    <3>4. \A y \in Items(pout) : IsControl(y) => \E z \in Items(codec[k].in) : y.msg = z.msg
      BY <1>9, <1>10
    <3> QED BY <1>3, <1>10, <1>12, <3>2, <3>3, <3>4, DestroyStep
  <2>6. CASE ~done
    <3>1. Steps(k, T, l, q, d, out)
      BY <1>4, <2>6
    <3>2. "idle" \notin c.oflags /\ f.oflags = c.oflags \cup {"flushing"}
          /\ fout = IF Flushing(c) THEN <<>> ELSE <<Item(RouteOf(k), Control(k), "flush", 0)>>
      BY <2>3, <2>6
    <3>3. /\ d \in CodecType(k) /\ SameTask(f, d) /\ SameIn(f, d) /\ SameOut(f, d)
          /\ d.mode = "terminating" /\ d.prepared = f.prepared
      BY <2>4 DEF CodecType, SameTask, SameIn, SameOut
    <3> HIDE DEF d
    <3>4. /\ d.prepared = c.prepared /\ d.in = <<>> /\ d.iflags = p.iflags /\ d.out = c.out /\ d.route = RouteOf(k)
          /\ d.oflags = c.oflags \cup {"flushing"} /\ d.state = c.state \ {"schedule"} /\ d.tree = 0
      BY <2>4, <3>2, <3>3 DEF SameTask, SameIn, SameOut
    <3>5. Routed(d) /\ Flushing(d) /\ ~Unrouting(d) /\ "idle" \notin d.oflags /\ ~Purging(d) /\ "enabled" \in d.iflags
      BY <1>6, <1>11, <1>14, <3>2, <3>4 DEF Routed, Flushing, Unrouting, Purging
    <3>6. /\ ~IsScheduled(d) /\ ~Initial(c) /\ ~Initial(d) /\ (Completed(d) <=> Completed(c)) /\ OnePhase(d)
          /\ "eos_seq_done" \notin d.state /\ (d.prepared <=> ~Initial(d))
      <4>1. ~Initial(c) /\ "eos_seq_done" \notin c.state
        BY <1>5, <1>14 DEF TaskOk, OutputOk
      <4> QED BY <1>5, <3>4, <4>1 DEF IsScheduled, Initial, Completed, OnePhase, TaskOk
    <3>7. CompOk(k, d)
      <4>1. TaskOk(k, d)
        BY <3>4, <3>5, <3>6 DEF TaskOk
      <4>2. InputOk(d)
        BY <3>4, <3>5, EmptyItems DEF InputOk
      <4>3. OutputOk(k, d)
        BY <1>5, <1>14, <3>4, <3>5, <3>6 DEF OutputOk
      <4> QED BY <4>1, <4>2, <4>3 DEF CompOk
    <3>8. /\ fout \in Seq(OutType) /\ Ordered(fout)
          /\ \A y \in Items(fout) : /\ IsSent(k, d, y) /\ y.msg = Control(k) /\ y.op = "flush" /\ y.to # App
                                    /\ ~Flushing(c)
          /\ \A m : ~ToApp(fout, m)
      <4> DEFINE s == IF Flushing(codec[k]) THEN <<>> ELSE <<Item(RouteOf(k), Control(k), "flush", 0)>>
      <4>1. /\ s \in Seq(OutType) /\ Ordered(s)
            /\ \A y \in Items(s) : /\ IsSent(k, d, y) /\ y.msg = Control(k) /\ y.op = "flush" /\ y.to # App
                                   /\ ~Flushing(codec[k])
            /\ \A m : ~ToApp(s, m)
        BY <1>2, <1>14, <3>2, <3>4, <3>5, FlushSent
      <4>2. fout = s
        BY <3>2
      <4> HIDE DEF s
      <4> QED BY <4>1, <4>2
    <3>80. \A y \in Items(pout), z \in Items(fout) : IsControl(y) => ~Of(z, y.msg.of)
      <4> SUFFICES ASSUME NEW y \in Items(pout), NEW z \in Items(fout), IsControl(y), Of(z, y.msg.of) PROVE FALSE
        OBVIOUS
      <4>1. z.msg.of = k
        BY <3>8, MsgFacts
      <4>2. y.msg.of = k /\ FromPool(y.msg)
        BY <4>1, AppMsgFacts DEF Of
      <4> QED BY <1>10, <4>2 DEF Of
    <3>81. /\ out \in Seq(OutType) /\ Items(out) = Items(pout) \cup Items(fout)
           /\ Ordered(out)
           /\ \A m : ToApp(out, m) <=> (ToApp(pout, m) \/ ToApp(fout, m))
      BY <1>10, <3>8, <3>80, PlainJoined
    <3> HIDE DEF out
    <3>9. \A y \in Items(out) : Down(k, T, d, y)
      BY <1>10, <3>8, <3>81 DEF Down, Plain
    <3>10. \A y \in Items(out), z \in Items(d.in) : IsControl(y) => ~Of(z, y.msg.of)
      BY <3>4, EmptyItems
    <3>11. InOk(k, T, d)
      <4>1. Items(d.in) = {} /\ \A y, z : ~Ahead(d.in, y, z)
        BY <3>4, EmptyItems
      <4> QED BY <4>1 DEF InOk
    <3>12. PortKept(k, d)
      BY <1>14, <3>4, <3>5 DEF PortKept, Flushing
    <3>13. ModeOk(k, l, q, d)
      BY <1>5, <1>14, <3>3, <3>4 DEF ModeOk
    <3>14. CallOk(k, T, d, out)
      BY <1>3, <1>12, <3>3, <3>5, <3>8, <3>81 DEF CallOk, SavedIn
    <3>15. ~ToApp(out, Cmd)
      BY <1>12, <3>8, <3>81
    <3>16. ConnOk(k, d, out)
      BY <1>14, <3>4, <3>15 DEF ConnOk
    <3>17. StartOk(k, T, d, out)
      BY <1>3, <1>12, <3>6, <3>8, <3>81, NoStart
    <3>18. AloneOk(k, l, d, out)
      BY <3>6 DEF AloneOk
    <3>19. FlushStepOk(k, T, d, out)
      <4>1. FlushOk(d)
        BY <3>3, <3>4 DEF FlushOk, Waiting
      <4> QED BY <1>3, <4>1 DEF FlushStepOk
    <3>20. Items(l) = {}
      BY <1>3, EmptyItems
    <3>21. d.mode # "gone"
      BY <3>3
    <3> HIDE DEF T, l, q
    <3> QED BY <3>1, <3>3, <3>7, <3>81, <3>9, <3>10, <3>11, <3>12, <3>13, <3>14, <3>16, <3>17, <3>18, <3>19,
               <3>20, <3>21, SendStep
  <2> QED BY <2>5, <2>6
<1> QED BY <1>13, <1>14

\* xa_audio_codec_terminate
LEMMA TerminateStep == ASSUME ChainInv, NEW k \in Codecs, Terminate(k) PROVE ChainInv'
<1> DEFINE c == codec[k]
           w == WorkerOf[k]
           l == LocalLeft(w)
           q == QueueLeft(w)
<1>1. PICK x \in Given(k, "terminating") :
        IF x.msg = Control(k) THEN Destroy(k, <<>>)
        ELSE Becomes(k, c, IF x.op = "fill" THEN <<>>
                           ELSE <<Answered(x, IF FromPool(x.msg) THEN Invalid ELSE 0)>>)
  BY DEF Terminate
<1>2. Serves(k, x) /\ c.mode = "terminating" /\ ~Gone(k)
  BY DEF Given, Serves, Gone
<1> DEFINE T == {x}
<1>3. /\ Takes(k, T, l, q) /\ Turn(k, T, l, q) /\ w \in Workers
      /\ (l = <<>> /\ Queued(x)) \/ (FromPool(x.msg) /\ x \in Items(local[w]))
  BY <1>2, ServesOne DEF Workers
<1>4. SavedIn(c)
  BY <1>2 DEF SavedIn
<1>5. call # None /\ call.op = "unregister" /\ call.on = k /\ \A y : Queued(y) => y.msg # Cmd
  <2>1. /\ call # None /\ call.on = k /\ \A y : Queued(y) => y.msg # Cmd
        /\ call.op = IF Unrouting(codec[k]) THEN "unroute" ELSE "unregister"
        /\ codec[k].mode = "running" <=> call.op = "unroute"
    BY <1>3, <1>4, CallFacts
  <2>2. call.op = "unroute" \/ call.op = "unregister"
    BY <2>1
  <2> QED BY <1>2, <2>1, <2>2
<1>6. CASE x.msg = Control(k)
  <2> DEFINE nil == <<>>
  <2>1. Destroy(k, nil)
    BY <1>1, <1>6
  <2>2. nil \in Seq(OutType) /\ Plain(k, T, nil) /\ (\A m : ~ToApp(nil, m)) /\ Ordered(nil) /\ Items(nil) = {}
    BY NothingSent, EmptyItems DEF Ordered
  <2>3. MayGo(k, x)
    BY <1>2, <1>6 DEF MayGo
  <2> HIDE DEF nil
  <2> QED BY <1>4, <1>5, <2>1, <2>2, <2>3, DestroyStep
<1>7. CASE x.msg # Control(k)
  <2> DEFINE len == IF FromPool(x.msg) THEN Invalid ELSE 0
             y == Answered(x, len)
             out == IF x.op = "fill" THEN <<>> ELSE <<y>>
  <2>1. Steps(k, T, l, q, c, out)
    BY <1>1, <1>2, <1>7, ServesSteps
  <2>2. /\ c \in CodecType(k) /\ CompOk(k, c) /\ TaskOk(k, c) /\ InputOk(c) /\ OutputOk(k, c) /\ c.route = RouteOf(k)
        /\ (Routed(c) => <<k, RouteOf(k)>> \in Edges)
    BY <1>2, Mine DEF CompOk
  <2>3. Flushing(c) /\ Routed(c) /\ ~IsScheduled(c) /\ ~Initial(c) /\ c.in = <<>>
    BY <1>2, <2>2 DEF OutputOk, TaskOk, InputOk
  <2>4. /\ x \in ItemType /\ x \in OutType /\ x.msg \in AllMsgs /\ len \in Lens /\ len \in {Invalid, 0}
        /\ Of(x, k) => BackKind(x)
        /\ FromPool(x.msg) /\ ~Of(x, k) =>
             /\ IsForth(x) /\ ForthKind(x) /\ x.msg.of \in Codecs /\ x.msg.of # k /\ RouteOf(x.msg.of) = k
        /\ ~FromPool(x.msg) => AppKind(x) /\ Queued(x) /\ x.to = k
    BY <1>2, ServedKinds, ItemFacts DEF Lens
  <2>5. x.msg # Cmd
    BY <1>5, <2>4, MsgFacts
  <2>6. /\ y \in OutType /\ y.msg = x.msg /\ y.len = len
        /\ y.to = IF FromPool(x.msg) THEN x.msg.of ELSE App
        /\ y.op = IF x.op = "empty" /\ FromPool(x.msg) THEN "fill" ELSE x.op
    BY <2>4, AnswerFacts
  <2>7. len = IF FromPool(x.msg) THEN Invalid ELSE 0
    OBVIOUS
  <2> HIDE DEF y, len
  <2>8. /\ out \in Seq(OutType) /\ (\A z \in Items(out) : z = y /\ x.op # "fill") /\ \A a, b : ~Ahead(out, a, b)
    <3> DEFINE nil == <<>>
               one == <<y>>
    <3>1. nil \in Seq(OutType) /\ Items(nil) = {} /\ \A a, b : ~Ahead(nil, a, b)
      BY EmptyItems
    <3>2. one \in Seq(OutType) /\ Items(one) = {y} /\ \A a, b : ~Ahead(one, a, b)
      BY <2>6, OneItem
    <3>3. out = IF x.op = "fill" THEN nil ELSE one
      OBVIOUS
    <3> HIDE DEF nil, one, out
    <3>4. CASE x.op = "fill"
      BY <3>1, <3>3, <3>4
    <3>5. CASE x.op # "fill"
      BY <3>2, <3>3, <3>5
    <3> QED BY <3>4, <3>5
  <2> HIDE DEF out
  <2>9. x.op # "fill" => ~Of(x, k)
    <3> SUFFICES ASSUME x.op # "fill", Of(x, k) PROVE FALSE
      OBVIOUS
    <3>1. IsControl(x) /\ FromPool(x.msg) /\ x.msg.of = k
      BY <2>4 DEF BackKind, BackOp, Of
    <3>2. x.msg = Msg(k, x.msg.what) /\ x.msg.what = "control"
      BY <2>4, <3>1, MsgFacts DEF IsControl
    <3> QED BY <1>7, <3>2, MsgFacts
  <2>10. ASSUME x.op # "fill"
         PROVE  /\ y.to = App \/ IsAnswer(k, T, c, y)
                /\ y.to = App => AppReply(k, y)
                /\ y.to # App => FromPool(x.msg) /\ IsForth(x) /\ RouteOf(x.msg.of) = k /\ y.to = x.msg.of
    <3>1. CASE FromPool(x.msg)
      <4>1. ForthKind(x) /\ x.msg.of \in Codecs /\ x.msg.of # k /\ IsForth(x) /\ RouteOf(x.msg.of) = k
        BY <2>4, <2>9, <2>10, <3>1
      <4>2. IsBack(y) /\ BackOp(y) /\ (y.op = "flush" => x.op = "flush") /\ y.to = x.msg.of
        BY <2>6, <3>1, <4>1 DEF IsBack, BackOp, ForthKind, IsControl
      <4>3. x \in T \cup Items(codec[k].in) /\ c.mode # "running"
        BY <1>2
      <4>4. IsAnswer(k, T, c, y)
        BY <2>6, <3>1, <4>1, <4>2, <4>3 DEF IsAnswer
      <4> QED BY <3>1, <4>1, <4>2, <4>4, AppAssumption
    <3>2. CASE ~FromPool(x.msg)
      <4>1. x.msg \in AppMsgs
        BY <2>4, <3>2, MsgFacts
      <4>2. x.msg.of = k
        BY <2>4, <2>5, <3>2, MsgFacts DEF AppKind
      <4> QED BY <2>6, <3>2, <4>1, <4>2 DEF AppReply
    <3> QED BY <3>1, <3>2
  <2>11. OutOk(k, T, c, out)
    BY <2>3, <2>8, <2>10, EmptyItems DEF OutOk
  <2>12. InOk(k, T, c)
    BY InputKept
  <2>13. PortKept(k, c)
    BY <2>2, <2>3 DEF PortKept
  <2>14. ModeOk(k, l, q, c)
    BY <1>2, <2>2 DEF ModeOk
  <2>15. Handles(k, T, l, q, c, out)
    BY <2>1, <2>2, <2>11, <2>12, <2>13, <2>14, ToldReady DEF Handles, Steps
  <2>16. AppOk(k, out)
    BY <2>8, <2>10 DEF AppOk, AppReply
  <2>17. ~HasMsg(T, Cmd) /\ \A m : ToApp(out, m) => m = x.msg
    BY <2>5, <2>6, <2>8 DEF HasMsg, ToApp
  <2>18. CallOk(k, T, c, out)
    BY <2>5, <2>17 DEF CallOk
  <2>19. ConnOk(k, c, out)
    BY <2>2, <2>5, <2>17 DEF ConnOk
  <2>20. StartOk(k, T, c, out)
    <3>1. ~(len > 0)
      BY <2>4 DEF Invalid
    <3>2. ~StartTold(out, k)
      BY <2>6, <2>8, <3>1 DEF StartTold
    <3> QED BY <2>3, <3>2 DEF StartOk
  <2>21. AloneOk(k, l, c, out)
    BY <2>3 DEF AloneOk
  <2>22. FlushStepOk(k, T, c, out)
    <3>1. FlushAbroad(k) => FlushOk(c)
      BY DEF ChainInv, FlushInv
    <3>2. \A z \in Items(out) : ~Of(z, k)
      <4>1. ~Of(x, k) => ~Of(y, k)
        BY <2>6 DEF Of
      <4> QED BY <2>8, <2>9, <4>1
    <3> QED BY <3>1, <3>2 DEF FlushStepOk, IsFlush
  <2>23. LeadOk(k, l, out)
    <3> SUFFICES ASSUME NEW z \in Items(out), z.to # App, WorkerOf[z.to] = w, IsLead(z)
                 PROVE  /\ \A v \in Items(l) : IsLead(v) => v.msg.of = z.msg.of
                        /\ \A v \in Items(l) : IsBack(v) => Depth[v.to] < Depth[RouteOf(z.msg.of)]
                        /\ \A v \in Items(out) : v.to # App /\ IsLead(v) => v.msg.of = z.msg.of
      BY DEF LeadOk
    <3>1. z = y /\ x.op # "fill"
      BY <2>8
    <3>2. FromPool(x.msg) /\ IsForth(x) /\ y.to = x.msg.of /\ WorkerOf[x.msg.of] = w /\ ~IsBack(x)
      BY <2>10, <3>1 DEF IsForth
    <3>3. x \notin Items(queue[w])
      <4> SUFFICES ASSUME x \in Items(queue[w]) PROVE FALSE
        OBVIOUS
      <4>1. QueuePlace(w, x)
        BY <1>3 DEF ChainInv, PoolInv, PlaceInv
      <4> QED BY <3>2, <4>1 DEF QueuePlace
    <3>4. x \in Items(local[w])
      BY <1>3, <3>3 DEF Takes
    <3>5. Items(l) \subseteq Items(local[w])
      BY <1>3 DEF Takes
    <3>6. y.msg.of = x.msg.of /\ IsLead(x)
      BY <2>6, <3>2 DEF IsLead
    <3>7. \A v \in Items(local[w]) : /\ IsLead(v) => x.msg.of = v.msg.of
                                     /\ IsBack(v) => Depth[v.to] < Depth[RouteOf(x.msg.of)]
      BY <1>3, <3>4, <3>6 DEF ChainInv, LeadInv
    <3> QED BY <2>8, <3>1, <3>5, <3>6, <3>7
  <2>24. IF c.mode = "gone" THEN c = Destroyed ELSE CompOk(k, c)
    BY <1>2, <2>2
  <2>25. StepOk(k, T, l, q, c, out)
    <3> HIDE DEF T, l, q
    <3> QED BY <1>3, <2>1, <2>15, <2>16, <2>18, <2>19, <2>20, <2>21, <2>22, <2>23, <2>24 DEF StepOk, Steps
  <2> QED BY <2>25, StepKeeps
<1> QED BY <1>6, <1>7

-----------------------------------------------------------------------------
(* The application.                                                        *)

\* A message x of the application joins the queue of its component k.
Joins(k, x) ==
    LET w == WorkerOf[k] IN
    /\ x \in ItemType /\ x.to = k
    /\ x.msg \in AppMsgs /\ x.msg \in owned /\ x.msg \in AllMsgs /\ ~FromPool(x.msg) /\ ~IsControl(x)
    /\ ~Gone(k) /\ w \in Workers
    /\ queue' \in [Workers -> Seq(ItemType)]
    /\ \A v \in Workers : \A y : (y \in Items(queue'[v])) <=> (y \in Items(queue[v]) \/ (v = w /\ y = x))
    /\ \A v \in Workers : \A y, z : Ahead(queue'[v], y, z) =>
         Ahead(queue[v], y, z) \/ (v = w /\ y \in Items(queue[w]) /\ z = x)

\* The application sends a message.
LEMMA SendsFacts ==
    ASSUME ChainInv, NEW k \in Codecs, NEW m, NEW op \in Ops, NEW len \in Lens, Sends(k, m, op, len)
    PROVE  /\ Joins(k, Item(k, m, op, len))
           /\ Item(k, m, op, len).msg = m /\ Item(k, m, op, len).op = op /\ Item(k, m, op, len).len = len
<1> DEFINE x == Item(k, m, op, len)
           w == WorkerOf[k]
           s == queue[w]
           t == Append(s, x)
<1>1. x.to = k /\ x.msg = m /\ x.op = op /\ x.len = len
  BY ItemFacts
<1>2. m \in owned /\ ~Gone(k) /\ queue' = [queue EXCEPT ![w] = t]
  BY DEF Sends, InUse
<1>3. m \in AppMsgs /\ w \in Workers /\ queue \in [Workers -> Seq(ItemType)] /\ s \in Seq(ItemType)
  BY <1>2 DEF ChainInv, TypeInv, Workers
<1>4. m \in AllMsgs /\ ~FromPool(m)
  BY <1>3, MsgFacts
<1>5. x \in ItemType
  BY <1>1, <1>4, ItemFacts
<1>6. ~IsControl(x)
  BY <1>1, <1>4, AppMsgFacts
<1> HIDE DEF x, s
<1>7. /\ t \in Seq(ItemType) /\ Items(t) = Items(s) \cup {x}
      /\ \A y, z : Ahead(t, y, z) => Ahead(s, y, z) \/ (y \in Items(s) /\ z = x)
  BY <1>3, <1>5, Appended
<1> HIDE DEF t
<1>8. queue' \in [Workers -> Seq(ItemType)] /\ queue'[w] = t /\ \A v \in Workers : v # w => queue'[v] = queue[v]
  BY <1>2, <1>3, <1>7
<1>9. \A v \in Workers : \A y : (y \in Items(queue'[v])) <=> (y \in Items(queue[v]) \/ (v = w /\ y = x))
  BY <1>7, <1>8 DEF s
<1>10. \A v \in Workers : \A y, z : Ahead(queue'[v], y, z) =>
         Ahead(queue[v], y, z) \/ (v = w /\ y \in Items(queue[w]) /\ z = x)
  BY <1>7, <1>8 DEF s
<1>11. Joins(k, x)
  BY <1>1, <1>2, <1>3, <1>4, <1>5, <1>6, <1>8, <1>9, <1>10 DEF Joins
<1> QED BY <1>1, <1>11 DEF x

\* What does not depend on the call.
LEMMA SendsKeeps ==
    ASSUME ChainInv, NEW k \in Codecs, NEW m, NEW op \in Ops, NEW len \in Lens, Sends(k, m, op, len),
           AppKind(Item(k, m, op, len)), m = Msg(k, "start") => k \notin ready
    PROVE  /\ PoolInv' /\ CompInv' /\ ReadyInv' /\ FlushInv' /\ AloneInv' /\ ConnInv' /\ LeadInv' /\ StartInv'
           /\ owned' \subseteq AppMsgs /\ queue' \in [Workers -> Seq(ItemType)]
           /\ UNCHANGED <<codec, local, ready, conn>>
           /\ \A y : Queued(y)' <=> (Queued(y) \/ y = Item(k, m, op, len))
           /\ \A h \in Codecs : FlushAbroad(h)' <=> FlushAbroad(h)
<1> DEFINE x == Item(k, m, op, len)
           w == WorkerOf[k]
<1>1. /\ x \in ItemType /\ x.to = k /\ x.msg = m /\ x.op = op /\ x.len = len
      /\ m \in AppMsgs /\ m \in owned /\ m \in AllMsgs /\ ~FromPool(m) /\ ~IsControl(x)
      /\ ~Gone(k) /\ w \in Workers
      /\ queue' \in [Workers -> Seq(ItemType)]
      /\ \A v \in Workers : \A y : (y \in Items(queue'[v])) <=> (y \in Items(queue[v]) \/ (v = w /\ y = x))
      /\ \A v \in Workers : \A y, z : Ahead(queue'[v], y, z) =>
           Ahead(queue[v], y, z) \/ (v = w /\ y \in Items(queue[w]) /\ z = x)
  <2>1. Joins(k, x) /\ x.msg = m /\ x.op = op /\ x.len = len
    BY SendsFacts
  <2> HIDE DEF x
  <2> QED BY <2>1 DEF Joins
<1>2. /\ owned' = owned \ {m} /\ codec' = codec /\ local' = local /\ ready' = ready /\ conn' = conn
  BY DEF Sends
<1>3. AppKind(x)
  OBVIOUS
<1> HIDE DEF x
<1>4. \A y : ~Of(x, y)
  BY <1>1 DEF Of
<1>5. /\ \A y : InTransit(y)' <=> (InTransit(y) \/ y = x)
      /\ \A y : AtInput(y)' <=> AtInput(y)
      /\ \A y : Queued(y)' <=> (Queued(y) \/ y = x)
      /\ \A y : IsQueuedBack(y)' => IsQueuedBack(y) \/ y = x
  BY <1>1, <1>2 DEF InTransit, AtInput, Queued, IsQueuedBack, Items, IsBack
<1>6. /\ \A y : IsAbroad(y)' <=> (IsAbroad(y) \/ y = x)
      /\ \A y : IsForth(y)' => IsForth(y) \/ y = x
  BY <1>5 DEF IsAbroad, IsForth, IsBack
<1>7. PlaceInv'
  <2>1. ASSUME NEW v \in Workers, NEW y \in Items(queue'[v]) PROVE QueuePlace(v, y)'
    <3>1. CASE y \in Items(queue[v])
      <4>1. QueuePlace(v, y)
        BY <3>1 DEF ChainInv, PoolInv, PlaceInv
      <4> QED BY <1>2, <4>1 DEF QueuePlace, Gone, AppKind, BackKind, RouteOf
    <3>2. CASE v = w /\ y = x
      BY <1>1, <1>2, <1>3, <3>2 DEF QueuePlace, Gone, AppKind
    <3> QED BY <1>1, <2>1, <3>1, <3>2
  <2>2. ASSUME NEW v \in Workers, NEW y \in Items(local[v]) PROVE LocalPlace(v, y)'
    <3>1. LocalPlace(v, y)
      BY <2>2 DEF ChainInv, PoolInv, PlaceInv
    <3> QED BY <1>2, <3>1 DEF LocalPlace, Gone, BackKind, RouteOf
  <2>3. ASSUME NEW h \in Codecs, NEW y \in Items(codec[h].in) PROVE InputPlace(h, y)'
    <3>1. InputPlace(h, y)
      BY <2>3 DEF ChainInv, PoolInv, PlaceInv
    <3> QED BY <1>2, <3>1 DEF InputPlace, AppKind, RouteOf
  <2> QED BY <1>2, <2>1, <2>2, <2>3 DEF PlaceInv, Items
<1>8. RouteInv'
  BY <1>2 DEF ChainInv, PoolInv, RouteInv, RouteOf, Gone
<1>9. ClosedInv'
  <2>1. ASSUME NEW v \in Workers PROVE Closed(queue'[v])
    <3> SUFFICES ASSUME NEW y, NEW z, Ahead(queue'[v], y, z), IsControl(y), Of(z, y.msg.of) PROVE y.to # z.to
      BY DEF Closed
    <3>1. Ahead(queue[v], y, z)
      BY <1>1, <1>4
    <3> QED BY <3>1 DEF ChainInv, PoolInv, ClosedInv, Closed
  <2> QED BY <1>2, <2>1 DEF ChainInv, PoolInv, ClosedInv, Closed, Ahead
<1>10. NoneBehind'
  <2>1. ASSUME NEW y, NEW z, Of(y, z.msg.of)
        PROVE  /\ IsQueuedBack(y)' => IsQueuedBack(y)
               /\ IsForth(y)' => IsForth(y)
               /\ AtInput(y)' => AtInput(y)
    BY <1>4, <1>5, <1>6, <2>1
  <2>2. ASSUME NEW v \in Workers, NEW z \in Items(local[v]), IsControl(z), IsBack(z), NEW y, Of(y, z.msg.of)
        PROVE  ~IsQueuedBack(y)' /\ ~AtInput(y)' /\ ~IsForth(y)'
    BY <2>1, <2>2 DEF ChainInv, PoolInv, NoneBehind
  <2>3. ASSUME NEW v \in Workers, NEW z \in Items(queue'[v]), IsControl(z), IsBack(z), NEW y, Of(y, z.msg.of)
        PROVE  ~AtInput(y)' /\ ~IsForth(y)'
    <3>1. z \in Items(queue[v])
      BY <1>1, <2>3
    <3> QED BY <2>1, <2>3, <3>1 DEF ChainInv, PoolInv, NoneBehind
  <2>4. ASSUME NEW h \in Codecs, NEW z \in Items(codec[h].in), IsControl(z), NEW y, Of(y, z.msg.of)
        PROVE  ~IsForth(y)'
    BY <2>1, <2>4 DEF ChainInv, PoolInv, NoneBehind
  <2> QED BY <1>2, <2>2, <2>3, <2>4 DEF NoneBehind, Items, IsControl, IsBack, Of
<1>11. PortInv'
  <2>1. ASSUME NEW h \in Codecs, NEW y, IsAbroad(y)', Of(y, h) PROVE IsAbroad(y)
    BY <1>4, <1>6, <2>1
  <2> QED BY <1>2, <2>1 DEF ChainInv, PoolInv, PortInv, Of, IsControl
<1>12. \A h \in Codecs : FlushAbroad(h)' <=> FlushAbroad(h)
  BY <1>4, <1>6 DEF FlushAbroad, IsFlush, Of
<1>13. CompInv' /\ ReadyInv'
  BY <1>2 DEF ChainInv, CompInv, ReadyInv, Gone
<1>14. FlushInv'
  BY <1>2, <1>12 DEF ChainInv, FlushInv
<1>15. AloneInv' /\ ConnInv' /\ LeadInv'
  <2>1. AloneInv'
    BY <1>2 DEF ChainInv, AloneInv, Alone, Scheduling
  <2>2. ConnInv'
    BY <1>2 DEF ChainInv, ConnInv, RouteOf
  <2>3. LeadInv'
    BY <1>2 DEF ChainInv, LeadInv, RouteOf, Items, IsLead, IsBack, IsControl
  <2> QED BY <2>1, <2>2, <2>3
<1>16. StartInv'
  <2>1. IsStart(x) => m = Msg(k, "start")
    BY <1>1, <1>3, MsgFacts DEF AppKind, IsStart
  <2>2. ASSUME NEW y, Queued(y)', IsStart(y)
        PROVE  y.to \notin ready /\ y.msg \notin owned' /\ codec[y.to].out = <<>>
    <3>1. CASE Queued(y)
      BY <1>2, <2>2, <3>1 DEF ChainInv, StartInv
    <3>2. CASE y = x
      <4>1. m = Msg(k, "start")
        BY <2>1, <2>2, <3>2
      <4>2. x.op = "fill" /\ x.len = 0 /\ k \in Codecs
        BY <1>1, <1>3, <4>1, MsgFacts, AppMsgFacts DEF AppKind
      <4>3. k \notin ready
        BY <4>1
      <4>4. ~(Initial(codec[k]) /\ codec[k].out # <<>>)
        BY <1>1, <4>1 DEF ChainInv, StartInv
      <4>5. Initial(codec[k])
        BY <1>1, <4>3 DEF ChainInv, ReadyInv
      <4> QED BY <1>1, <1>2, <3>2, <4>3, <4>4, <4>5
    <3> QED BY <1>5, <2>2, <3>1, <3>2
  <2>3. \A h \in Codecs : ~Gone(h) /\ Initial(codec[h]) /\ codec[h].out # <<>> => Msg(h, "start") \notin owned'
    BY <1>2 DEF ChainInv, StartInv
  <2>4. ASSUME NEW v \in Workers, NEW y, NEW z, Ahead(queue'[v], y, z), IsStart(y) PROVE y.msg # z.msg
    <3>1. CASE Ahead(queue[v], y, z)
      BY <2>4, <3>1 DEF ChainInv, StartInv
    <3>2. CASE y \in Items(queue[w]) /\ z = x
      <4>1. y.msg \notin owned
        BY <1>1, <2>4, <3>2 DEF ChainInv, StartInv, Queued
      <4> QED BY <1>1, <3>2, <4>1
    <3> QED BY <1>1, <2>4, <3>1, <3>2
  <2> QED BY <1>2, <2>2, <2>3, <2>4 DEF StartInv, IsStart, Gone, Ahead
<1>17. owned' \subseteq AppMsgs
  BY <1>2 DEF ChainInv, TypeInv
<1> QED BY <1>1, <1>2, <1>5, <1>7, <1>8, <1>9, <1>10, <1>11, <1>12, <1>13, <1>14, <1>15, <1>16, <1>17 DEF PoolInv, x

\* The types.
LEMMA SendsType ==
    ASSUME ChainInv, NEW k \in Codecs, NEW m, NEW op \in Ops, NEW len \in Lens, Sends(k, m, op, len),
           AppKind(Item(k, m, op, len)), m = Msg(k, "start") => k \notin ready,
           call' \in {None} \cup CallType
    PROVE  TypeInv'
<1>1. /\ owned' \subseteq AppMsgs /\ queue' \in [Workers -> Seq(ItemType)]
      /\ codec' = codec /\ local' = local /\ ready' = ready /\ conn' = conn
  BY SendsKeeps
<1> QED BY <1>1 DEF ChainInv, TypeInv

\* A message to a component.
LEMMA PlainSend ==
    ASSUME ChainInv, NEW k \in Codecs, NEW m, NEW op \in Ops, NEW len \in Lens, Sends(k, m, op, len),
           AppKind(Item(k, m, op, len)), m = Msg(k, "start") => k \notin ready,
           m # Cmd, call' = call
    PROVE  ChainInv'
<1> DEFINE x == Item(k, m, op, len)
           w == WorkerOf[k]
<1>1. /\ PoolInv' /\ CompInv' /\ ReadyInv' /\ FlushInv' /\ AloneInv' /\ ConnInv' /\ LeadInv' /\ StartInv'
      /\ codec' = codec /\ local' = local /\ ready' = ready /\ conn' = conn
      /\ \A y : Queued(y)' <=> (Queued(y) \/ y = x)
      /\ \A h \in Codecs : FlushAbroad(h)' <=> FlushAbroad(h)
  BY SendsKeeps
<1>2. /\ x.msg = m /\ owned' \subseteq owned
      /\ \A v \in Workers : \A y, z : Ahead(queue'[v], y, z) =>
           Ahead(queue[v], y, z) \/ (v = w /\ y \in Items(queue[w]) /\ z = x)
  <2>1. Joins(k, x) /\ x.msg = m
    BY SendsFacts
  <2> HIDE DEF x
  <2> QED BY <2>1 DEF Joins, Sends
<1> HIDE DEF x
<1>3. TypeInv'
  <2>1. call' \in {None} \cup CallType
    BY DEF ChainInv, TypeInv
  <2> QED BY <2>1, SendsType
<1>4. CallInv'
  <2>1. \A y : Queued(y)' /\ y.msg = Cmd => Queued(y)
    BY <1>1, <1>2
  <2>2. \A h \in Codecs : IsSaved(h)' <=> IsSaved(h)
    BY <1>1 DEF IsSaved
  <2>3. \A v \in Workers : \A y, z : Ahead(queue'[v], y, z) /\ y.msg = Cmd => z.msg # Cmd
    <3>1. \A v \in Workers : \A y, z : Ahead(queue[v], y, z) /\ y.msg = Cmd => z.msg # Cmd
      BY DEF ChainInv, CallInv
    <3> QED BY <1>2, <3>1
  <2>4. CASE call = None
    <3>1. /\ \A y : Queued(y) => y.msg # Cmd
          /\ \A h \in Codecs : ~IsSaved(h)
      BY <2>4 DEF ChainInv, CallInv
    <3>2. /\ \A y : Queued(y)' => y.msg # Cmd
          /\ \A h \in Codecs : ~IsSaved(h)'
      BY <2>1, <2>2, <3>1
    <3> QED BY <2>3, <2>4, <3>2 DEF CallInv, Ahead
  <2>5. CASE call # None
    <3>0. call.on \in Codecs
      BY <2>5 DEF ChainInv, TypeInv, CallType
    <3>1. /\ Cmd \notin owned' /\ ~Gone(call.on)'
          /\ call.op = "route" =>
               /\ <<call.on, call.arg>> \in Edges /\ call.on \in ready' /\ conn'[call.on] = None
               /\ \A h \in Codecs : conn'[h] # call.arg
      BY <1>1, <1>2, <2>5 DEF ChainInv, CallInv, Gone
    <3>2. CASE /\ \A y : Queued(y) /\ y.msg = Cmd => y = Item(call.on, Cmd, call.op, 0)
               /\ \A h \in Codecs : ~IsSaved(h)
      <4>1. /\ \A y : Queued(y)' /\ y.msg = Cmd => y = Item(call.on, Cmd, call.op, 0)
            /\ \A h \in Codecs : ~IsSaved(h)'
        BY <2>1, <2>2, <3>2
      <4> QED BY <2>3, <2>5, <3>1, <4>1 DEF CallInv, Ahead
    <3>3. CASE /\ \A y : Queued(y) => y.msg # Cmd
               /\ \A h \in Codecs : IsSaved(h) <=> h = call.on
               /\ call.op = IF Unrouting(codec[call.on]) THEN "unroute" ELSE "unregister"
               /\ codec[call.on].mode = "running" <=> call.op = "unroute"
      <4>1. /\ \A y : Queued(y)' => y.msg # Cmd
            /\ \A h \in Codecs : IsSaved(h)' <=> h = call.on
        BY <2>1, <2>2, <3>3
      <4>2. /\ call.op = IF Unrouting(codec'[call.on]) THEN "unroute" ELSE "unregister"
            /\ codec'[call.on].mode = "running" <=> call.op = "unroute"
        BY <1>1, <3>3
      <4> QED BY <2>3, <2>5, <3>1, <4>1, <4>2 DEF CallInv, Ahead
    <3> QED BY <2>5, <3>2, <3>3 DEF ChainInv, CallInv
  <2> QED BY <2>4, <2>5
<1>5. ScopeInv'
  <2>1. PICK S \in SUBSET Codecs : InScope(S)
    BY DEF ChainInv, ScopeInv
  <2>2. InScope(S)'
    BY <1>1, <2>1 DEF InScope, Initialised, Gone, RouteOf
  <2> QED BY <2>2 DEF ScopeInv
<1> QED BY <1>1, <1>3, <1>4, <1>5 DEF ChainInv

\* A call.
LEMMA CallMade ==
    ASSUME ChainInv, NEW k \in Codecs, NEW op \in CmdOps, NEW arg \in Codecs \cup {None, "in", "out"},
           Calls(k, op, arg),
           op = "route" => /\ <<k, arg>> \in Edges /\ k \in ready /\ conn[k] = None
                           /\ \A h \in Codecs : conn[h] # arg,
           op \in {"unroute", "unregister"} => MayLose(k)
    PROVE  ChainInv'
<1> DEFINE x == Item(k, Cmd, op, 0)
           w == WorkerOf[k]
           len == 0
           new == [op |-> op, on |-> k, arg |-> arg]
<1>1. call = None /\ Sends(k, Cmd, op, len) /\ call' = new
  BY DEF Calls
<1>2. op \in Ops /\ len \in Lens
  BY DEF CmdOps, Ops, Lens
<1>3. Cmd # Msg(k, "start")
  BY AppMsgFacts
<1>4. AppKind(x)
  <2>1. x.msg = Cmd /\ x.op = op /\ x.len = 0
    BY ItemFacts
  <2> HIDE DEF x
  <2> QED BY <2>1 DEF AppKind, CmdOps
<1>5. x = Item(k, Cmd, op, len)
  OBVIOUS
<1>6. new.op = op /\ new.on = k /\ new.arg = arg /\ new \in CallType
  BY DEF CallType, CmdOps
<1>7. new # None
  BY <1>6, CallAssumption DEF CallType
<1> HIDE DEF new, x, len
<1>8. /\ PoolInv' /\ CompInv' /\ ReadyInv' /\ FlushInv' /\ AloneInv' /\ ConnInv' /\ LeadInv' /\ StartInv'
      /\ codec' = codec /\ local' = local /\ ready' = ready /\ conn' = conn
      /\ \A y : Queued(y)' <=> (Queued(y) \/ y = x)
      /\ \A h \in Codecs : FlushAbroad(h)' <=> FlushAbroad(h)
  BY <1>1, <1>2, <1>3, <1>4, <1>5, SendsKeeps
<1>9. Joins(k, x) /\ x.msg = Cmd
  BY <1>1, <1>2, <1>5, SendsFacts
<1>10. TypeInv'
  <2>1. call' \in {None} \cup CallType
    BY <1>1, <1>6
  <2> QED BY <1>1, <1>2, <1>3, <1>4, <1>5, <2>1, SendsType
<1>11. /\ \A y : Queued(y) => y.msg # Cmd
       /\ \A h \in Codecs : ~IsSaved(h)
  BY <1>1 DEF ChainInv, CallInv
<1>12. CallInv'
  <2>1. /\ \A y : Queued(y)' /\ y.msg = Cmd => y = Item(call'.on, Cmd, call'.op, 0)
        /\ \A h \in Codecs : ~IsSaved(h)'
    <3>1. \A y : Queued(y)' /\ y.msg = Cmd => y = x
      BY <1>8, <1>11
    <3>2. \A h \in Codecs : ~IsSaved(h)'
      BY <1>8, <1>11 DEF IsSaved
    <3> QED BY <1>1, <1>6, <3>1, <3>2 DEF x
  <2>2. Cmd \notin owned'
    BY <1>1 DEF Sends
  <2>3. codec'[call'.on].mode # "gone"
    BY <1>1, <1>6, <1>8, <1>9 DEF Joins, Gone
  <2>4. call'.op = "route" =>
          /\ <<call'.on, call'.arg>> \in Edges /\ call'.on \in ready' /\ conn'[call'.on] = None
          /\ \A h \in Codecs : conn'[h] # call'.arg
    BY <1>1, <1>6, <1>8
  <2>5. ASSUME NEW v \in Workers, NEW y, NEW z, Ahead(queue'[v], y, z), y.msg = Cmd PROVE z.msg # Cmd
    <3>1. CASE Ahead(queue[v], y, z)
      BY <2>5, <3>1 DEF ChainInv, CallInv
    <3>2. CASE v = w /\ y \in Items(queue[w]) /\ z = x
      <4>1. Queued(y)
        BY <3>2, <2>5 DEF Queued
      <4> QED BY <1>11, <2>5, <4>1
    <3> QED BY <1>9, <2>5, <3>1, <3>2 DEF Joins
  <2>6. call' # None
    BY <1>1, <1>7
  <2> QED BY <2>1, <2>2, <2>3, <2>4, <2>5, <2>6 DEF CallInv, Ahead, Gone
<1>13. ScopeInv'
  <2>1. \A h \in Codecs : ~FlushAbroad(h)
    BY <1>1, FlushHasCall DEF NoFlushAlone, ChainInv
  <2>2. CASE op \in {"unroute", "unregister"}
    <3>1. PICK S \in SUBSET Codecs : Initialised(S) /\ conn[k] \in S \cup {None}
      BY <2>2 DEF MayLose
    <3>2. InScope(S)'
      BY <1>1, <1>6, <1>8, <2>1, <3>1 DEF InScope, Initialised, Gone
    <3> QED BY <3>2 DEF ScopeInv
  <2>3. CASE op \notin {"unroute", "unregister"}
    <3>1. PICK S \in SUBSET Codecs : InScope(S)
      BY DEF ChainInv, ScopeInv
    <3>2. InScope(S)'
      BY <1>1, <1>6, <1>8, <2>1, <2>3, <3>1 DEF InScope, Initialised, Gone
    <3> QED BY <3>2 DEF ScopeInv
  <2> QED BY <2>2, <2>3
<1> QED BY <1>8, <1>10, <1>12, <1>13 DEF ChainInv

\* What the application does.
LEMMA AppSteps == ASSUME ChainInv, AppStep PROVE ChainInv'
<1> USE DEF Lens
<1>1. {"fill", "empty"} \subseteq Ops
  BY DEF Ops
<1>2. \A m : \A h \in Codecs : m \in {Msg(h, "start"), Msg(h, "in"), Msg(h, "eos"), Msg(h, "out")} => m # Cmd
  BY AppMsgFacts
<1>3. \A h \in Codecs : /\ Msg(h, "in") # Msg(h, "start") /\ Msg(h, "eos") # Msg(h, "start")
                        /\ Msg(h, "out") # Msg(h, "start")
  BY AppMsgFacts
<1>4. ASSUME NEW k \in Codecs, Start(k) PROVE ChainInv'
  <2> DEFINE m == Msg(k, "start")
             x == Item(k, m, "fill", 0)
  <2>1. x.to = k /\ x.msg = m /\ x.op = "fill" /\ x.len = 0
    BY ItemFacts
  <2>2. k \notin ready /\ Sends(k, m, "fill", 0) /\ call' = call
    BY <1>4 DEF Start
  <2>3. AppKind(x)
    BY <2>1 DEF AppKind
  <2>4. m # Cmd
    BY <1>2
  <2> HIDE DEF m
  <2> QED BY <1>1, <2>2, <2>3, <2>4, PlainSend
<1>5. ASSUME NEW k \in Codecs, Input(k) PROVE ChainInv'
  <2> DEFINE m == Msg(k, "in")
             x == Item(k, m, "empty", 1)
  <2>1. x.to = k /\ x.msg = m /\ x.op = "empty" /\ x.len = 1
    BY ItemFacts
  <2>2. k \in Sources /\ Sends(k, m, "empty", 1) /\ call' = call
    BY <1>5 DEF Input
  <2>3. AppKind(x)
    BY <2>1, <2>2 DEF AppKind
  <2>4. m # Cmd /\ m # Msg(k, "start")
    BY <1>2, <1>3
  <2> HIDE DEF m
  <2> QED BY <1>1, <2>2, <2>3, <2>4, PlainSend
<1>6. ASSUME NEW k \in Codecs, InputOver(k) PROVE ChainInv'
  <2> DEFINE m == Msg(k, "eos")
             x == Item(k, m, "empty", 0)
  <2>1. x.to = k /\ x.msg = m /\ x.op = "empty" /\ x.len = 0
    BY ItemFacts
  <2>2. k \in Sources /\ Sends(k, m, "empty", 0) /\ call' = call
    BY <1>6 DEF InputOver
  <2>3. AppKind(x)
    BY <2>1, <2>2 DEF AppKind
  <2>4. m # Cmd /\ m # Msg(k, "start")
    BY <1>2, <1>3
  <2> HIDE DEF m
  <2> QED BY <1>1, <2>2, <2>3, <2>4, PlainSend
<1>7. ASSUME NEW k \in Codecs, NeedOutput(k) PROVE ChainInv'
  <2> DEFINE m == Msg(k, "out")
             x == Item(k, m, "fill", 1)
  <2>1. x.to = k /\ x.msg = m /\ x.op = "fill" /\ x.len = 1
    BY ItemFacts
  <2>2. k \in Sinks /\ k \in ready /\ Sends(k, m, "fill", 1) /\ call' = call
    BY <1>7 DEF NeedOutput
  <2>3. AppKind(x)
    BY <2>1, <2>2 DEF AppKind
  <2>4. m # Cmd /\ m # Msg(k, "start")
    BY <1>2, <1>3
  <2> HIDE DEF m
  <2> QED BY <1>1, <2>2, <2>3, <2>4, PlainSend
<1>8. ASSUME NEW e \in Edges, Connect(e) PROVE ChainInv'
  <2> DEFINE k == e[1]
             j == e[2]
  <2>1. e = <<k, j>> /\ k \in Codecs /\ j \in Codecs
    BY EdgesAssumption
  <2>2. k \in ready /\ conn[k] = None /\ FedBy(j) = {} /\ Calls(k, "route", j)
    BY <1>8 DEF Connect
  <2>3. <<k, j>> \in Edges
    BY <2>1
  <2> HIDE DEF k, j
  <2>4. \A h \in Codecs : conn[h] # j
    BY <2>2 DEF FedBy
  <2>5. "route" \in CmdOps /\ j \in Codecs \cup {None, "in", "out"}
    BY <2>1 DEF CmdOps
  <2> QED BY <2>1, <2>2, <2>3, <2>4, <2>5, CallMade
<1>9. ASSUME NEW k \in Codecs, Disconnect(k) PROVE ChainInv'
  <2>1. "unroute" \in CmdOps /\ MayLose(k) /\ Calls(k, "unroute", None)
    BY <1>9 DEF Disconnect, CmdOps
  <2> QED BY <2>1, CallMade
<1>10. ASSUME NEW k \in Codecs, Delete(k) PROVE ChainInv'
  <2>1. "unregister" \in CmdOps /\ MayLose(k) /\ Calls(k, "unregister", None)
    BY <1>10 DEF Delete, CmdOps
  <2> QED BY <2>1, CallMade
<1>11. ASSUME NEW k \in Codecs, Pause(k) PROVE ChainInv'
  <2>1. PICK port \in {"in", "out"} : Calls(k, "pause", port)
    BY <1>11 DEF Pause
  <2>2. "pause" \in CmdOps /\ port \in Codecs \cup {None, "in", "out"}
    BY DEF CmdOps
  <2> QED BY <2>1, <2>2, CallMade
<1>12. ASSUME NEW k \in Codecs, Resume(k) PROVE ChainInv'
  <2>1. PICK port \in {"in", "out"} : Calls(k, "resume", port)
    BY <1>12 DEF Resume
  <2>2. "resume" \in CmdOps /\ port \in Codecs \cup {None, "in", "out"}
    BY DEF CmdOps
  <2> QED BY <2>1, <2>2, CallMade
<1> QED BY <1>4, <1>5, <1>6, <1>7, <1>8, <1>9, <1>10, <1>11, <1>12 DEF AppStep

-----------------------------------------------------------------------------
(* The invariant holds.                                                    *)

\* At first nothing is on its way.
LEMMA InitChain == Init => ChainInv
<1> SUFFICES ASSUME Init PROVE ChainInv
  OBVIOUS
<1>1. /\ \A k \in Codecs : codec[k] = Configured /\ conn[k] = None
      /\ \A w \in Workers : local[w] = <<>> /\ queue[w] = <<>>
      /\ owned = AppMsgs /\ ready = {} /\ call = None
  BY DEF Init
<1>2. /\ Configured.in = <<>> /\ Configured.out = <<>> /\ Configured.mode = "running" /\ Configured.tree = 0
      /\ Configured.state = {"runtime_init"} /\ Configured.iflags = {"enabled"} /\ Configured.oflags = {"idle"}
      /\ Configured.prepared = FALSE /\ Configured.route = None
  BY DEF Configured
<1>3. /\ \A k \in Codecs : Items(codec[k].in) = {} /\ \A x, y : ~Ahead(codec[k].in, x, y)
      /\ \A w \in Workers : /\ Items(local[w]) = {} /\ Items(queue[w]) = {}
                            /\ \A x, y : ~Ahead(local[w], x, y) /\ ~Ahead(queue[w], x, y)
  BY <1>1, <1>2, EmptyItems
<1>4. \A x : ~InTransit(x) /\ ~AtInput(x) /\ ~IsAbroad(x) /\ ~IsForth(x) /\ ~IsQueuedBack(x) /\ ~Queued(x)
  BY <1>3 DEF InTransit, AtInput, IsAbroad, IsForth, IsQueuedBack, Queued
<1>5. TypeInv
  <2>1. \A k \in Codecs : codec[k] \in CodecType(k)
    BY <1>1, ConfiguredType
  <2>2. /\ codec = [k \in Codecs |-> codec[k]]
        /\ local \in [Workers -> Seq(ItemType)] /\ queue \in [Workers -> Seq(ItemType)]
        /\ conn \in [Codecs -> Codecs \cup {None}]
    BY DEF Init
  <2> QED BY <1>1, <2>1, <2>2 DEF TypeInv
<1>6. \A k \in Codecs : ~Gone(k) /\ ~Routed(codec[k])
  BY <1>1, <1>2 DEF Gone, Routed
<1>7. PoolInv
  <2>1. PlaceInv /\ RouteInv
    BY <1>3, <1>6 DEF PlaceInv, RouteInv
  <2>2. ClosedInv /\ NoneBehind
    BY <1>3 DEF ClosedInv, Closed, NoneBehind
  <2>3. PortInv
    BY <1>4 DEF PortInv
  <2> QED BY <2>1, <2>2, <2>3 DEF PoolInv
<1>8. CompInv
  <2>1. ASSUME NEW k \in Codecs PROVE CompOk(k, codec[k])
    <3>1. TaskOk(k, codec[k])
      BY <1>1, <1>2 DEF TaskOk, OnePhase, Initial, Completed, IsScheduled, Flushing, Routed
    <3>2. InputOk(codec[k])
      BY <1>1, <1>2, <1>3 DEF InputOk, Purging, Flushing
    <3>3. OutputOk(k, codec[k])
      BY <1>1, <1>2 DEF OutputOk, Initial, Routed, Flushing, Unrouting
    <3> QED BY <3>1, <3>2, <3>3 DEF CompOk
  <2> QED BY <1>6, <2>1 DEF CompInv
<1>9. ReadyInv /\ FlushInv /\ AloneInv /\ ConnInv
  <2>1. ReadyInv
    BY <1>1, <1>2 DEF ReadyInv, Initial
  <2>2. FlushInv
    BY <1>4 DEF FlushInv, FlushAbroad
  <2>3. AloneInv
    BY <1>1, <1>2 DEF AloneInv, IsScheduled
  <2>4. ConnInv
    BY <1>1, <1>6 DEF ConnInv
  <2> QED BY <2>1, <2>2, <2>3, <2>4
<1>10. CallInv
  <2>1. \A k \in Codecs : ~IsSaved(k)
    BY <1>1, <1>2 DEF IsSaved, Unrouting
  <2> QED BY <1>1, <1>3, <1>4, <2>1 DEF CallInv
<1>11. ScopeInv
  <2>1. InScope({})
    BY <1>1, <1>4 DEF InScope, Initialised, FlushAbroad
  <2> QED BY <2>1 DEF ScopeInv
<1>12. StartInv
  BY <1>1, <1>2, <1>3, <1>4 DEF StartInv
<1>13. LeadInv
  BY <1>3 DEF LeadInv
<1> QED BY <1>5, <1>7, <1>8, <1>9, <1>10, <1>11, <1>12, <1>13 DEF ChainInv

\* Every step keeps it.
LEMMA NextChain == ASSUME ChainInv, MayBeBarren = FALSE, Next PROVE ChainInv'
<1>1. CASE AppStep
  BY <1>1, AppSteps
<1>2. ASSUME NEW w \in Workers, WorkerStep(w) PROVE ChainInv'
  <2>1. PICK k \in Codecs :
          \/ EmptyThisBuffer(k) \/ FillThisBuffer(k) \/ PortRoute(k) \/ PortUnroute(k)
          \/ FlushInput(k) \/ FlushReturns(k) \/ PortPause(k) \/ PortResume(k)
          \/ Unregister(k) \/ Terminate(k) \/ Process(k)
    BY <1>2 DEF WorkerStep
  <2> QED BY <2>1, EmptyStep, FillStep, RouteStep, UnrouteStep, FlushInputStep, FlushReturnsStep,
             PauseStep, ResumeStep, UnregisterStep, TerminateStep, ProcessStep
<1> QED BY <1>1, <1>2 DEF Next

\* So does one that changes nothing.
LEMMA StutterChain == ASSUME ChainInv, UNCHANGED vars PROVE ChainInv'
<1>1. /\ codec' = codec /\ local' = local /\ queue' = queue /\ owned' = owned /\ ready' = ready
      /\ conn' = conn /\ call' = call
  BY DEF vars, appVars
<1>2. TypeInv' /\ CompInv' /\ ReadyInv'
  BY <1>1 DEF ChainInv, TypeInv, CompInv, ReadyInv, Gone
<1>3. /\ \A x : InTransit(x)' = InTransit(x)
      /\ \A x : AtInput(x)' = AtInput(x)
      /\ \A x : Queued(x)' = Queued(x)
  BY <1>1 DEF InTransit, AtInput, Queued
<1>4. /\ \A x : IsAbroad(x)' = IsAbroad(x)
      /\ \A x : IsForth(x)' = IsForth(x)
      /\ \A x : IsQueuedBack(x)' = IsQueuedBack(x)
      /\ \A k : FlushAbroad(k)' = FlushAbroad(k)
  BY <1>1 DEF IsAbroad, IsForth, IsQueuedBack, InTransit, AtInput, FlushAbroad
<1>5. PoolInv'
  <2>1. PlaceInv'
    BY <1>1 DEF ChainInv, PoolInv, PlaceInv, LocalPlace, QueuePlace, InputPlace, Gone, AppKind, BackKind, RouteOf
  <2>2. RouteInv' /\ ClosedInv'
    BY <1>1 DEF ChainInv, PoolInv, RouteInv, RouteOf, Gone, ClosedInv
  <2>3. NoneBehind' /\ PortInv'
    BY <1>1, <1>3, <1>4 DEF ChainInv, PoolInv, NoneBehind, PortInv
  <2> QED BY <2>1, <2>2, <2>3 DEF PoolInv
<1>6. FlushInv' /\ AloneInv' /\ ConnInv'
  BY <1>1, <1>4 DEF ChainInv, FlushInv, AloneInv, Alone, Scheduling, ConnInv, RouteOf
<1>7. CallInv' /\ StartInv' /\ LeadInv'
  BY <1>1, <1>3 DEF ChainInv, CallInv, StartInv, LeadInv, IsSaved, Gone, RouteOf
<1>8. ScopeInv'
  BY <1>1, <1>4 DEF ChainInv, ScopeInv, InScope, Initialised, Gone, RouteOf
<1> QED BY <1>2, <1>5, <1>6, <1>7, <1>8 DEF ChainInv

-----------------------------------------------------------------------------
(* What an input port says of the end of its stream.                       *)

\* A port is enabled while the end of the stream was not met; it is not then in the queue,
\* unless as the flush the port holds.
Marked(c) == /\ "enabled" \in c.iflags <=> c.iflags \cap {"eos", "done"} = {}
             /\ "enabled" \in c.iflags /\ ~Purging(c) => \A x \in Items(c.in) : x.len # 0
MarkInv == \A k \in Codecs : ~Gone(k) => Marked(codec[k])

\* A component with the same input.
HasInput(c) == {"in", "iflags"} \subseteq DOMAIN c
InputAs(c, d) == HasInput(d) /\ d.in = c.in /\ d.iflags = c.iflags

\* It is as well marked.
LEMMA MarkedAs == ASSUME NEW c, NEW d, Marked(c), InputAs(c, d) PROVE Marked(d)
BY DEF Marked, InputAs, Purging

\* Operators that leave the input alone.
LEMMA Unmarked ==
    ASSUME NEW c, HasInput(c)
    PROVE  /\ InputAs(c, c) /\ InputAs(c, Scheduled(c)) /\ InputAs(c, Cancelled(c)) /\ InputAs(c, NoOutput(c))
           /\ InputAs(c, Restarted(c)) /\ InputAs(c, FlushDone(c)) /\ InputAs(c, Unrouted(c))
           /\ InputAs(c, Prepared(c).c) /\ InputAs(c, Produced(c).c)
           /\ \A k, op : InputAs(c, Flushed(k, c, op).c)
<1>1. InputAs(c, c) /\ InputAs(c, Scheduled(c)) /\ InputAs(c, Cancelled(c)) /\ InputAs(c, NoOutput(c))
  BY DEF InputAs, HasInput, Scheduled, Cancelled, NoOutput
<1>2. InputAs(c, Restarted(c)) /\ InputAs(c, FlushDone(c)) /\ InputAs(c, Unrouted(c))
  BY DEF InputAs, HasInput, Restarted, FlushDone, Unrouted
<1>3. InputAs(c, Prepared(c).c) /\ InputAs(c, Produced(c).c)
  BY DEF InputAs, HasInput, Prepared, Produced
<1>4. ASSUME NEW k, NEW op PROVE InputAs(c, Flushed(k, c, op).c)
  BY DEF InputAs, HasInput, Flushed
<1> QED BY <1>1, <1>2, <1>3, <1>4

\* One after the other.
LEMMA InputAsThen == ASSUME NEW c, NEW d, NEW e, InputAs(c, d), InputAs(d, e) PROVE InputAs(c, e)
BY DEF InputAs

\* An input that was purged is enabled and empty.
LEMMA PurgedMarked ==
    ASSUME NEW c, HasInput(c)
    PROVE  LET d == Purged(c).c IN
           /\ HasInput(d) /\ Marked(d) /\ d.in = <<>> /\ d.iflags = (c.iflags \cap {"paused"}) \cup {"enabled"}
<1> DEFINE d == Purged(c).c
           F == (c.iflags \cap {"paused"}) \cup {"enabled"}
<1>1. HasInput(d) /\ d.in = <<>> /\ d.iflags = F
  BY DEF HasInput, Purged
<1>2. Items(d.in) = {}
  BY <1>1, EmptyItems
<1> HIDE DEF d
<1>3. Marked(d)
  BY <1>1, <1>2 DEF Marked
<1> QED BY <1>1, <1>3 DEF d

\* What a step leaves of the component that takes it.
Leaves(k) == \E d : codec' = [codec EXCEPT ![k] = d] /\ (d.mode = "gone" \/ Marked(d))

\* The others are left alone.
LEMMA LeavesMarks == ASSUME TypeInv, MarkInv, NEW k \in Codecs, Leaves(k) PROVE MarkInv'
<1>1. PICK d : codec' = [codec EXCEPT ![k] = d] /\ (d.mode = "gone" \/ Marked(d))
  BY DEF Leaves
<1>2. codec'[k] = d /\ \A h \in Codecs : h # k => codec'[h] = codec[h]
  BY <1>1 DEF TypeInv
<1> QED BY <1>1, <1>2 DEF MarkInv, Gone

\* A component that handles a message, or runs.
LEMMA OwnInput ==
    ASSUME TypeInv, MarkInv, NEW k \in Codecs, ~Gone(k)
    PROVE  HasInput(codec[k]) /\ Marked(codec[k])
<1>1. codec[k] \in CodecType(k)
  BY DEF TypeInv
<1>2. HasInput(codec[k])
  BY <1>1 DEF CodecType, HasInput
<1> QED BY <1>2 DEF MarkInv

\* xa_codec_empty_this_buffer
LEMMA EmptyMarks ==
    ASSUME ChainInv, MarkInv, NEW k \in Codecs, EmptyThisBuffer(k)
    PROVE  Leaves(k)
<1> DEFINE c == codec[k]
<1>1. PICK x \in Gets(k, "empty") :
        LET eos == x.len = 0
            put == [c EXCEPT !.in = Append(@, x),
                             !.iflags = IF eos THEN Toggled(@, {"enabled", "eos"}) ELSE @]
            live == IF "completed" \in c.state THEN Restarted(put) ELSE put
            first == IF OutReady(live) THEN Scheduled(live) ELSE live
        IN IF "enabled" \notin c.iflags THEN Becomes(k, c, <<Answered(x, 0)>>)
              ELSE Becomes(k, IF c.in = <<>> THEN first ELSE put, <<>>)
  BY DEF EmptyThisBuffer
<1>2. Serves(k, x)
  BY GetsServes
<1>3. ~Gone(k) /\ x \in ItemType
  BY <1>2, ServedKinds DEF Serves
<1>4. HasInput(c) /\ Marked(c) /\ c.in \in Seq(ItemType)
  <2>1. TypeInv
    BY DEF ChainInv
  <2> QED BY <1>3, <2>1, OwnInput, Mine
<1> DEFINE F == IF x.len = 0 THEN Toggled(c.iflags, {"enabled", "eos"}) ELSE c.iflags
           s == c.in
           t == Append(s, x)
           put == [c EXCEPT !.in = t, !.iflags = F]
           live == IF "completed" \in c.state THEN Restarted(put) ELSE put
           first == IF OutReady(live) THEN Scheduled(live) ELSE live
           d == IF "enabled" \notin c.iflags THEN c ELSE IF s = <<>> THEN first ELSE put
<1>5. codec' = [codec EXCEPT ![k] = d]
  BY <1>1 DEF Becomes
<1>6. Items(t) = Items(s) \cup {x}
  <2> HIDE DEF s
  <2>1. s \in Seq(ItemType)
    BY <1>4 DEF s
  <2> QED BY <1>3, <2>1, Appended
<1> HIDE DEF t, F
<1>7. HasInput(put) /\ put.in = t /\ put.iflags = F
  BY <1>4 DEF HasInput
<1> HIDE DEF put
<1>8. CASE "enabled" \in c.iflags
  <2>1. /\ "enabled" \in F <=> F \cap {"eos", "done"} = {}
        /\ "enabled" \in F => x.len # 0
    BY <1>4, <1>8 DEF Marked, F, Toggled
  <2>2. ("purging" \in F <=> "purging" \in c.iflags)
    BY DEF F, Toggled
  <2>3. Marked(put)
    BY <1>4, <1>6, <1>7, <1>8, <2>1, <2>2 DEF Marked, Purging
  <2>4. InputAs(put, live)
    BY <1>7, Unmarked
  <2>5. InputAs(put, first)
    <3> HIDE DEF live
    <3>1. InputAs(live, first)
      BY <2>4, Unmarked DEF InputAs
    <3> QED BY <2>4, <3>1, InputAsThen
  <2>6. Marked(d)
    BY <1>8, <2>3, <2>5, MarkedAs
  <2> QED BY <1>5, <2>6 DEF Leaves
<1>9. CASE "enabled" \notin c.iflags
  <2>1. Marked(d)
    BY <1>4, <1>9
  <2> QED BY <1>5, <2>1 DEF Leaves
<1> QED BY <1>8, <1>9

\* A handler that leaves the input alone.
LEMMA KeepsMarks ==
    ASSUME TypeInv, MarkInv, NEW k \in Codecs, ~Gone(k), NEW d, NEW out, Becomes(k, d, out), InputAs(codec[k], d)
    PROVE  Leaves(k)
<1>1. Marked(d)
  BY OwnInput, MarkedAs
<1> QED BY <1>1 DEF Becomes, Leaves

\* A buffer to fill.
LEMMA ReceivedMarks ==
    ASSUME TypeInv, MarkInv, NEW k \in Codecs, ~Gone(k), NEW x, OutputReceived(k, x)
    PROVE  Leaves(k)
<1> DEFINE c == codec[k]
           init == "runtime_init" \in c.state
           live == IF ~init /\ "eos_seq_done" \in c.state THEN Restarted(c) ELSE c
           put == [live EXCEPT !.out = Append(@, x.msg)]
           due == /\ c.out = <<>>
                  /\ InReady(put) \/ (init /\ k \notin Decoders)
                  /\ put.state \cap {"runtime_init", "execution"} # {}
                  /\ OutReady(put)
           d == IF due THEN Scheduled(put) ELSE put
<1>1. Becomes(k, d, <<>>)
  BY DEF OutputReceived
<1>2. HasInput(c)
  BY OwnInput
<1>3. InputAs(c, live)
  BY <1>2, Unmarked
<1> HIDE DEF live, c
<1>4. InputAs(live, put)
  BY <1>3 DEF InputAs, HasInput
<1> HIDE DEF put
<1>5. InputAs(put, d)
  BY <1>4, Unmarked DEF InputAs
<1>6. InputAs(c, d)
  BY <1>3, <1>4, <1>5, InputAsThen
<1> QED BY <1>1, <1>6, KeepsMarks DEF c

\* xa_codec_fill_this_buffer
LEMMA FillMarks ==
    ASSUME ChainInv, MarkInv, NEW k \in Codecs, FillThisBuffer(k)
    PROVE  Leaves(k)
<1> DEFINE c == codec[k]
<1>1. PICK x \in Gets(k, "fill") :
        IF "runtime_init" \in c.state THEN OutputReceived(k, x)
        ELSE IF x.msg = Control(k) THEN ControlReturns(k, x)
        ELSE IF "completed" \in c.state /\ "eos_seq_done" \notin c.state /\ ~Routed(c) THEN
             Becomes(k, [c EXCEPT !.state = @ \cup {"eos_seq_done"}], <<Answered(x, 0)>>)
        ELSE IF x.len = Invalid /\ Routed(c) THEN BufferBounced(k)
        ELSE OutputReceived(k, x)
  BY DEF FillThisBuffer
<1>2. ~Gone(k) /\ TypeInv
  BY GetsServes DEF Serves, ChainInv
<1>3. HasInput(c) /\ Marked(c)
  BY <1>2, OwnInput
<1>4. CASE OutputReceived(k, x)
  BY <1>2, <1>4, ReceivedMarks
<1>5. CASE ControlReturns(k, x)
  <2> DEFINE f == FlushDone(c)
             unroutes == "unrouting" \in f.oflags \/ x.len = Invalid
             u == IF unroutes THEN Unrouted(f) ELSE f
             purge == Purged(u)
  <2>1. codec' = [codec EXCEPT ![k] = purge.c]
    BY <1>5 DEF ControlReturns, Becomes
  <2>2. HasInput(f)
    BY <1>3, Unmarked DEF InputAs
  <2> HIDE DEF f
  <2>3. HasInput(u)
    BY <2>2, Unmarked DEF InputAs
  <2> HIDE DEF u
  <2>4. Marked(purge.c)
    BY <2>3, PurgedMarked
  <2> QED BY <2>1, <2>4 DEF Leaves
<1>6. CASE Becomes(k, [c EXCEPT !.state = @ \cup {"eos_seq_done"}], <<Answered(x, 0)>>)
  <2> DEFINE d == [c EXCEPT !.state = @ \cup {"eos_seq_done"}]
  <2>1. InputAs(c, d)
    BY <1>3 DEF InputAs, HasInput
  <2> HIDE DEF d
  <2>2. Becomes(k, d, <<Answered(x, 0)>>)
    BY <1>6 DEF d
  <2> QED BY <1>2, <2>1, <2>2, KeepsMarks
<1>7. CASE BufferBounced(k)
  <2> DEFINE e == Cancelled(c)
             f == Flushed(k, e, "fill").c
             d == NoOutput(f)
  <2>1. codec' = [codec EXCEPT ![k] = c] \/ codec' = [codec EXCEPT ![k] = d]
    BY <1>7 DEF BufferBounced, Becomes
  <2>2. InputAs(c, e)
    BY <1>3, Unmarked
  <2> HIDE DEF e
  <2>3. InputAs(e, f)
    BY <2>2, Unmarked DEF InputAs
  <2> HIDE DEF f
  <2>4. InputAs(f, d)
    BY <2>3, Unmarked DEF InputAs
  <2>5. Marked(d)
    BY <1>3, <2>2, <2>3, <2>4, InputAsThen, MarkedAs
  <2> QED BY <1>3, <2>1, <2>5 DEF Leaves
<1> QED BY <1>1, <1>4, <1>5, <1>6, <1>7

\* xa_codec_port_route, xa_codec_port_unroute
LEMMA RouteMarks ==
    ASSUME ChainInv, MarkInv, NEW k \in Codecs, PortRoute(k) \/ PortUnroute(k)
    PROVE  Leaves(k)
<1> DEFINE c == codec[k]
<1>1. TypeInv
  BY DEF ChainInv
<1>2. CASE PortRoute(k)
  <2> DEFINE pool == CHOOSE s \in [1..Cardinality(Bufs) -> Bufs] : {s[i] : i \in DOMAIN s} = Bufs
             r == [codec[k] EXCEPT !.out = @ \o [i \in DOMAIN pool |-> Msg(k, pool[i])],
                                   !.oflags = (@ \cup {"routed"}) \ {"idle"}, !.route = call.arg]
             d == Scheduled(r)
  <2>1. PICK x \in Gets(k, "route") : Becomes(k, d, <<Answered(x, 0)>>)
    BY <1>2 DEF PortRoute
  <2>2. ~Gone(k)
    BY GetsServes DEF Serves
  <2>3. HasInput(c)
    BY <1>1, <2>2, OwnInput
  <2> HIDE DEF pool
  <2>4. InputAs(c, r)
    BY <2>3 DEF InputAs, HasInput
  <2> HIDE DEF r
  <2>5. InputAs(r, d)
    BY <2>4, Unmarked DEF InputAs
  <2>6. InputAs(c, d)
    BY <2>4, <2>5, InputAsThen
  <2> HIDE DEF d
  <2> QED BY <1>1, <2>1, <2>2, <2>6, KeepsMarks
<1>3. CASE PortUnroute(k)
  <2> DEFINE a == Cancelled(c)
             b == NoOutput(a)
             f == Flushed(k, b, "flush").c
             u == Unrouted(f)
             g == [f EXCEPT !.oflags = @ \cup {"unrouting"}]
  <2>1. PICK x \in Gets(k, "unroute") :
             \/ Becomes(k, c, <<Answered(x, 0)>>)
             \/ Becomes(k, u, <<Answered(x, 0)>>)
             \/ Becomes(k, g, Flushed(k, b, "flush").out)
    BY <1>3 DEF PortUnroute
  <2>2. ~Gone(k)
    BY GetsServes DEF Serves
  <2>3. InputAs(c, c) /\ InputAs(c, a)
    BY <1>1, <2>2, OwnInput, Unmarked
  <2> HIDE DEF a
  <2>4. InputAs(a, b)
    BY <2>3, Unmarked DEF InputAs
  <2> HIDE DEF b
  <2>5. InputAs(b, f)
    BY <2>4, Unmarked DEF InputAs
  <2> HIDE DEF f
  <2>6. InputAs(f, u)
    BY <2>5, Unmarked DEF InputAs
  <2>7. InputAs(f, g)
    BY <2>5 DEF InputAs, HasInput
  <2>8. InputAs(c, u) /\ InputAs(c, g)
    BY <2>3, <2>4, <2>5, <2>6, <2>7, InputAsThen
  <2> HIDE DEF u, g
  <2> QED BY <1>1, <2>1, <2>2, <2>3, <2>8, KeepsMarks
<1> QED BY <1>2, <1>3

\* xa_codec_flush, at the input port ...
LEMMA FlushInputMarks ==
    ASSUME ChainInv, MarkInv, NEW k \in Codecs, FlushInput(k)
    PROVE  Leaves(k)
<1> DEFINE a == Cancelled(codec[k])
           p == Purged(a).c
           c == [p EXCEPT !.state = @ \ {"input_setup"}]
           f == Flushed(k, c, "flush").c
           over == Toggled(f.state, {"execution", "completed"})
                   \cup (IF OutReady(c) THEN {"eos_seq_done"} ELSE {})
           g == [f EXCEPT !.state = over]
<1>1. PICK x \in Gets(k, "flush") :
        \/ codec' = [codec EXCEPT ![k] = f]
        \/ codec' = [codec EXCEPT ![k] = g]
        \/ codec' = [codec EXCEPT ![k] = [f EXCEPT !.in = Append(@, x), !.iflags = Toggled(@, {"purging"})]]
  BY DEF FlushInput, Becomes
<1>2. ~Gone(k) /\ TypeInv
  BY GetsServes DEF Serves, ChainInv
<1>3. HasInput(a)
  BY <1>2, OwnInput, Unmarked DEF InputAs
<1> HIDE DEF a
<1>4. HasInput(p) /\ Marked(p) /\ p.iflags = (a.iflags \cap {"paused"}) \cup {"enabled"}
  BY <1>3, PurgedMarked
<1> HIDE DEF p
<1>5. InputAs(p, c)
  BY <1>4 DEF InputAs, HasInput
<1> HIDE DEF c
<1>6. InputAs(c, f)
  BY <1>5, Unmarked DEF InputAs
<1> HIDE DEF f
<1>7. InputAs(p, f)
  BY <1>5, <1>6, InputAsThen
<1>8. InputAs(f, g)
  BY <1>7 DEF InputAs, HasInput
<1>9. Marked(f) /\ Marked(g)
  BY <1>4, <1>7, <1>8, InputAsThen, MarkedAs
<1> DEFINE F == Toggled(f.iflags, {"purging"})
           t == Append(f.in, x)
           h == [f EXCEPT !.in = t, !.iflags = F]
<1>10. F = (a.iflags \cap {"paused"}) \cup {"enabled", "purging"}
  BY <1>4, <1>7 DEF Toggled, InputAs
<1> HIDE DEF F, t
<1>11. h.iflags = F
  BY <1>7 DEF InputAs, HasInput
<1>12. Marked(h)
  BY <1>10, <1>11 DEF Marked, Purging
<1>13. codec' = [codec EXCEPT ![k] = f] \/ codec' = [codec EXCEPT ![k] = g] \/ codec' = [codec EXCEPT ![k] = h]
  BY <1>1 DEF F, t
<1> QED BY <1>9, <1>12, <1>13 DEF Leaves

\* ... and at the output port.
LEMMA FlushReturnsMarks ==
    ASSUME ChainInv, MarkInv, NEW k \in Codecs, FlushReturns(k)
    PROVE  Leaves(k)
<1> DEFINE c == codec[k]
           e == FlushDone(c)
           f == NoOutput(e)
           u == Unrouted(c)
           d == [f EXCEPT !.in = Tail(@), !.iflags = Toggled(@, {"purging"})]
<1>1. PICK x \in Gets(k, "flush") :
        /\ x.msg = Control(k)
        /\ IF "unrouting" \in c.oflags THEN codec' = [codec EXCEPT ![k] = u]
           ELSE codec' = [codec EXCEPT ![k] = d]
  BY DEF FlushReturns, Becomes
<1>2. Serves(k, x) /\ codec[k].mode = "running" /\ x.op = "flush"
  BY GetsServes
<1>3. ~Gone(k) /\ TypeInv
  BY <1>2 DEF Serves, ChainInv
<1>4. HasInput(c) /\ Marked(c)
  BY <1>3, OwnInput
<1>5. CASE "unrouting" \in c.oflags
  <2>1. InputAs(c, u)
    BY <1>4, Unmarked
  <2>2. Marked(u)
    BY <1>4, <2>1, MarkedAs
  <2> QED BY <1>1, <1>5, <2>2 DEF Leaves
<1>6. CASE "unrouting" \notin c.oflags
  <2>1. FlushAbroad(k)
    <3>1. IsAbroad(x) /\ x \in ItemType
      BY <1>2, ServedKinds
    <3>2. Of(x, k)
      BY <1>1, MsgFacts DEF Of, Pool
    <3> QED BY <1>2, <3>1, <3>2 DEF FlushAbroad, IsFlush
  <2>2. Purging(c)
    BY <1>2, <1>6, <2>1 DEF ChainInv, FlushInv, FlushOk, Waiting, Unrouting
  <2>3. \E y : c.in = <<y>>
    BY <1>3, <2>2, Mine DEF CompOk, InputOk
  <2>4. InputAs(c, e)
    BY <1>4, Unmarked
  <2> HIDE DEF e
  <2>5. InputAs(e, f)
    BY <2>4, Unmarked DEF InputAs
  <2> HIDE DEF f
  <2>6. InputAs(c, f)
    BY <2>4, <2>5, InputAsThen
  <2>7. d.in = <<>> /\ d.iflags = Toggled(c.iflags, {"purging"})
    <3>1. d.in = Tail(c.in) /\ d.iflags = Toggled(c.iflags, {"purging"})
      BY <2>6 DEF InputAs, HasInput
    <3> QED BY <2>3, <3>1
  <2> HIDE DEF d
  <2>8. Items(d.in) = {}
    BY <2>7, EmptyItems
  <2>9. Marked(d)
    BY <1>4, <2>7, <2>8 DEF Marked, Toggled
  <2> QED BY <1>1, <1>6, <2>9 DEF Leaves
<1> QED BY <1>5, <1>6

\* xa_codec_port_pause, xa_codec_port_resume
LEMMA PauseMarks ==
    ASSUME ChainInv, MarkInv, NEW k \in Codecs, PortPause(k) \/ PortResume(k)
    PROVE  Leaves(k)
<1> DEFINE c == codec[k]
           F == c.iflags \cup {"paused"}
           G == c.iflags \ {"paused"}
           a == [c EXCEPT !.iflags = F]
           b == [c EXCEPT !.oflags = @ \cup {"paused"}]
           d == [c EXCEPT !.iflags = G]
           e == [c EXCEPT !.oflags = @ \ {"paused"}]
<1>1. /\ \E op : Gets(k, op) # {}
      /\ \/ codec' = [codec EXCEPT ![k] = c] \/ codec' = [codec EXCEPT ![k] = a]
         \/ codec' = [codec EXCEPT ![k] = b] \/ codec' = [codec EXCEPT ![k] = d]
         \/ codec' = [codec EXCEPT ![k] = e]
         \/ codec' = [codec EXCEPT ![k] = Scheduled(d)] \/ codec' = [codec EXCEPT ![k] = Scheduled(e)]
  <2>1. CASE PortPause(k)
    BY <2>1 DEF PortPause, Becomes
  <2>2. CASE PortResume(k)
    BY <2>2 DEF PortResume, Becomes
  <2> QED BY <2>1, <2>2
<1>2. ~Gone(k) /\ TypeInv
  BY <1>1, GetsServes DEF Serves, ChainInv
<1>3. HasInput(c) /\ Marked(c)
  BY <1>2, OwnInput
<1>4. /\ HasInput(a) /\ a.in = c.in /\ a.iflags = F
      /\ HasInput(d) /\ d.in = c.in /\ d.iflags = G
      /\ InputAs(c, b) /\ InputAs(c, e)
  BY <1>3 DEF InputAs, HasInput
<1> HIDE DEF a, b, d, e
<1>5. Marked(a) /\ Marked(d)
  BY <1>3, <1>4 DEF Marked, Purging
<1>6. Marked(b) /\ Marked(e)
  BY <1>3, <1>4, MarkedAs
<1>7. Marked(Scheduled(d)) /\ Marked(Scheduled(e))
  <2>1. InputAs(d, Scheduled(d)) /\ InputAs(e, Scheduled(e))
    BY <1>4, Unmarked DEF InputAs
  <2> QED BY <1>5, <1>6, <2>1, MarkedAs
<1> QED BY <1>1, <1>3, <1>5, <1>6, <1>7 DEF Leaves

\* xa_codec_cleanup, xa_audio_codec_terminate
LEMMA EndMarks ==
    ASSUME ChainInv, MarkInv, NEW k \in Codecs, Unregister(k) \/ Terminate(k)
    PROVE  Leaves(k)
<1> DEFINE a == Cancelled(codec[k])
           p == Purged(a).c
           f == Flushed(k, p, "flush").c
           d == [f EXCEPT !.mode = "terminating"]
<1>1. ASSUME NEW out, Destroy(k, out) PROVE Leaves(k)
  <2>1. codec' = [codec EXCEPT ![k] = Destroyed]
    BY <1>1 DEF Destroy
  <2>2. Destroyed.mode = "gone"
    BY DEF Destroyed, Configured
  <2> QED BY <2>1, <2>2 DEF Leaves
<1>2. CASE Unregister(k)
  <2>1. /\ \E op : Gets(k, op) # {}
        /\ (\E out : Destroy(k, out)) \/ codec' = [codec EXCEPT ![k] = d]
    BY <1>2 DEF Unregister, Becomes
  <2>2. ~Gone(k) /\ TypeInv
    BY <2>1, GetsServes DEF Serves, ChainInv
  <2>3. HasInput(a)
    BY <2>2, OwnInput, Unmarked DEF InputAs
  <2> HIDE DEF a
  <2>4. HasInput(p) /\ Marked(p)
    BY <2>3, PurgedMarked
  <2> HIDE DEF p
  <2>5. InputAs(p, f)
    BY <2>4, Unmarked
  <2> HIDE DEF f
  <2>6. InputAs(f, d)
    BY <2>5 DEF InputAs, HasInput
  <2>7. Marked(d)
    BY <2>4, <2>5, <2>6, InputAsThen, MarkedAs
  <2> HIDE DEF d
  <2> QED BY <1>1, <2>1, <2>7 DEF Leaves
<1>3. CASE Terminate(k)
  <2>1. PICK x \in Given(k, "terminating") :
          Destroy(k, <<>>) \/ codec' = [codec EXCEPT ![k] = codec[k]]
    BY <1>3 DEF Terminate, Becomes
  <2>2. ~Gone(k) /\ TypeInv
    BY DEF Given, Gone, ChainInv
  <2>3. Marked(codec[k])
    BY <2>2, OwnInput
  <2> QED BY <1>1, <2>1, <2>3 DEF Leaves
<1> QED BY <1>2, <1>3

\* xf_input_port_fill, while the end of the stream was not signalled to the plugin.
LEMMA FilledMarked ==
    ASSUME NEW k \in Codecs, NEW c \in CodecType(k), Marked(c), ~Purging(c), "done" \notin c.iflags,
           \A x \in Items(c.in) : x.len # Invalid
    PROVE  HasInput(Filled(c).c) /\ Marked(Filled(c).c)
<1> DEFINE s == c.in
           room == Frame - c.filled
           data == CHOOSE n \in 0..Len(c.in) :
                     /\ \A i \in 1..n : c.in[i].len > 0
                     /\ n < Len(c.in) => c.in[n + 1].len <= 0
           n == IF data < room THEN data ELSE room
           over == n < room /\ n < Len(c.in)
           F == IF over THEN Toggled(c.iflags, {"eos", "done"}) ELSE c.iflags
           r == SubSeq(s, n + 1, Len(s))
           m == c.filled + n
           d == PutInput(c, r, m, F)
<1>1. Filled(c).c = d
  BY DEF Filled, PutInput
<1>2. s \in Seq(ItemType) /\ c.filled \in 0..Frame /\ c.iflags \subseteq Flags.in /\ Frame \in Nat
  BY FrameAssumption DEF CodecType
<1>3. data \in 0..Len(s) /\ (data < Len(s) => s[data + 1].len <= 0)
  BY <1>2, DataFacts DEF IsData
<1> HIDE DEF data
<1>4. room \in Nat /\ Len(s) \in Nat
  BY <1>2, SeqFacts
<1>5. n \in 0..Len(s)
  BY <1>3, <1>4
<1>6. over => \E x \in Items(s) : x.len = 0
  <2> SUFFICES ASSUME over PROVE \E x \in Items(s) : x.len = 0
    OBVIOUS
  <2>1. n = data /\ data < Len(s)
    BY <1>3, <1>4
  <2>2. data + 1 \in DOMAIN s /\ s[data + 1] \in Items(s)
    <3> HIDE DEF s
    <3>1. data + 1 \in 1..Len(s)
      BY <1>3, <1>4, <2>1
    <3>2. DOMAIN s = 1..Len(s)
      BY <1>2
    <3> QED BY <3>1, <3>2 DEF Items
  <2>3. s[data + 1].len <= 0
    BY <1>3, <2>1
  <2>4. s[data + 1] \in ItemType
    BY <1>2, <2>2
  <2>5. s[data + 1].len \in Lens /\ s[data + 1].len # Invalid
    BY <2>2, <2>4 DEF ItemType
  <2> QED BY <2>2, <2>3, <2>5 DEF Lens, Invalid
<1>7. over => "enabled" \notin c.iflags /\ "eos" \in c.iflags
  BY <1>6 DEF Marked
<1>8. /\ "enabled" \in F <=> F \cap {"eos", "done"} = {}
      /\ "enabled" \in F => F = c.iflags
      /\ "purging" \in F <=> "purging" \in c.iflags
  BY <1>7 DEF Marked, Toggled
<1>9. Items(r) \subseteq Items(s)
  <2> HIDE DEF s
  <2> QED BY <1>2, <1>5, Divided
<1>10. HasInput(d) /\ d.in = r /\ d.iflags = F
  BY DEF CodecType, HasInput, PutInput
<1> HIDE DEF d, F, r, n
<1>11. Marked(d)
  BY <1>8, <1>9, <1>10 DEF Marked, Purging
<1> QED BY <1>1, <1>10, <1>11

\* xa_codec_preprocess
LEMMA PreMarked ==
    ASSUME ChainInv, MarkInv, NEW k \in Codecs, Runs(k)
    PROVE  LET e == Preprocessed(k, TakenOff(codec[k])).c IN HasInput(e) /\ Marked(e)
<1> DEFINE c == codec[k]
           c0 == TakenOff(c)
           init == "runtime_init" \in c0.state
           S == c0.state \cup {"output_setup"}
           p == IF init THEN Msg(k, "scratch") ELSE Head(c0.out)
           o1 == PutSetup(c0, S, p)
           o == IF "output_setup" \in c0.state THEN c0 ELSE o1
           g == Filled(o).c
           fc == IF "done" \in o.iflags THEN o ELSE g
           R == fc.state \cup {"input_setup"}
           u == PutState(fc, R)
           e == Preprocessed(k, c0).c
<1>1. e = c0 \/ e = o \/ e = fc \/ e = u
  BY DEF Preprocessed, PutState, PutSetup
<1>2. /\ c \in CodecType(k) /\ TaskOk(k, c) /\ IsScheduled(c) /\ c.out # <<>>
      /\ ~Purging(c) /\ c.out \in Seq(AllMsgs) /\ ~Gone(k)
  BY RunsFacts
<1>3. c.tree = 1
  BY <1>2 DEF TaskOk
<1>4. /\ c0 \in CodecType(k) /\ SameIn(c, c0) /\ SameOut(c, c0)
      /\ c0.state = c.state \ {"schedule"}
  BY <1>2, <1>3, TakenOffFields
<1>5. HasInput(c) /\ Marked(c)
  BY <1>2, OwnInput DEF ChainInv
<1> HIDE DEF c0
<1>6. InputAs(c, c0)
  BY <1>4 DEF CodecType, InputAs, HasInput, SameIn
<1>7. S \in SUBSET Flags.state /\ p \in AllMsgs \cup {Msg(k, "scratch")}
  <2>1. S \in SUBSET Flags.state
    BY <1>4 DEF CodecType, Flags
  <2>2. c0.out # <<>> /\ c0.out \in Seq(AllMsgs)
    BY <1>2, <1>4 DEF SameOut
  <2> DEFINE s == c0.out
  <2>3. s # <<>> /\ s \in Seq(AllMsgs)
    BY <2>2
  <2> HIDE DEF s
  <2>4. Head(s) \in AllMsgs
    BY <2>3, Rest
  <2> QED BY <2>1, <2>4 DEF s
<1> HIDE DEF S, p
<1>8. o1 \in CodecType(k) /\ SameIn(c0, o1)
  BY <1>4, <1>7, PutSetupFields
<1> HIDE DEF o1
<1>9. o \in CodecType(k) /\ InputAs(c, o)
  BY <1>4, <1>6, <1>8 DEF CodecType, InputAs, HasInput, SameIn
<1> HIDE DEF o
<1>10. Marked(o) /\ HasInput(o) /\ ~Purging(o)
  BY <1>2, <1>5, <1>9, MarkedAs DEF InputAs, Purging
<1>11. \A x \in Items(o.in) : x.len # Invalid
  <2>1. o.in = c.in
    BY <1>9 DEF InputAs
  <2>2. ASSUME NEW x \in Items(c.in) PROVE x.len # Invalid
    <3>1. InputPlace(k, x)
      BY <2>2 DEF ChainInv, PoolInv, PlaceInv
    <3>2. x.len \in {0, 1}
      BY <3>1 DEF InputPlace, AppKind, ForthKind
    <3> QED BY <3>2 DEF Invalid
  <2> QED BY <2>1, <2>2
<1>12. HasInput(fc) /\ Marked(fc)
  BY <1>9, <1>10, <1>11, FilledMarked
<1> HIDE DEF g, fc, R
<1>13. InputAs(fc, u)
  BY <1>12 DEF InputAs, HasInput, PutState
<1>14. HasInput(u) /\ Marked(u)
  BY <1>12, <1>13, MarkedAs DEF InputAs
<1>15. HasInput(c0) /\ Marked(c0)
  BY <1>5, <1>6, MarkedAs DEF InputAs
<1> HIDE DEF e
<1>16. HasInput(e) /\ Marked(e)
  BY <1>1, <1>10, <1>12, <1>14, <1>15
<1> QED BY <1>16 DEF e, c0

\* The plugin's execution, and what is done about what it consumed and produced.
LEMMA PostMarked ==
    ASSUME NEW k, NEW e, HasInput(e), Marked(e), NEW x \in Executed(k, e)
    PROVE  Marked(Postprocessed(k, x).c)
<1> DEFINE u == UsedOf(x)
           m == OutOf(x).c
           r == Postprocessed(k, x)
           again == IF "runtime_init" \in m.state /\ x.consumed = 0
                    THEN PutState(m, m.state \ {"input_setup"}) ELSE m
           flush == Flushed(k, m, "fill")
           purge == Purged(flush.c)
           d == IF flush.done THEN purge.c ELSE flush.c
           over == [d EXCEPT !.state = @ \cup {"eos_seq_done"}]
<1>1. \/ r.c = Prepared(m).c \/ r.c = StreamOver(k, m, x.produced).c
      \/ r.c = again \/ r.c = Scheduled(again)
  BY PostprocessedIs
<1>2. StreamOver(k, m, x.produced).c = d \/ StreamOver(k, m, x.produced).c = over
  BY DEF StreamOver
<1>3. InputAs(e, x.c)
  BY DEF Executed, InputAs, HasInput
<1>4. InputAs(x.c, u)
  BY <1>3 DEF InputAs, HasInput, UsedOf, PutUsed
<1> HIDE DEF u
<1>5. InputAs(u, m)
  <2>1. InputAs(u, u) /\ InputAs(u, Produced(u).c)
    BY <1>4, Unmarked DEF InputAs
  <2> QED BY <2>1 DEF OutOf, u
<1>6. HasInput(m) /\ Marked(m)
  <2>1. InputAs(e, m)
    BY <1>3, <1>4, <1>5, InputAsThen
  <2> QED BY <2>1, MarkedAs DEF InputAs
<1> HIDE DEF m
<1>7. InputAs(m, Prepared(m).c) /\ InputAs(m, flush.c)
  BY <1>6, Unmarked
<1>8. InputAs(m, again)
  BY <1>6 DEF InputAs, HasInput, PutState
<1> HIDE DEF again
<1>9. InputAs(m, Scheduled(again))
  <2>1. InputAs(again, Scheduled(again))
    BY <1>8, Unmarked DEF InputAs
  <2> QED BY <1>8, <2>1, InputAsThen
<1> HIDE DEF flush
<1>10. HasInput(d) /\ Marked(d)
  <2>1. HasInput(flush.c) /\ Marked(flush.c)
    BY <1>6, <1>7, MarkedAs DEF InputAs
  <2>2. HasInput(purge.c) /\ Marked(purge.c)
    BY <2>1, PurgedMarked
  <2> QED BY <2>1, <2>2
<1> HIDE DEF d
<1>11. Marked(over)
  <2>1. InputAs(d, over)
    BY <1>10 DEF InputAs, HasInput
  <2> QED BY <1>10, <2>1, MarkedAs
<1>12. Marked(Prepared(m).c) /\ Marked(again) /\ Marked(Scheduled(again))
  BY <1>6, <1>7, <1>8, <1>9, MarkedAs
<1> HIDE DEF over, r
<1>13. Marked(r.c)
  <2>1. StreamOver(k, m, x.produced).c = d \/ StreamOver(k, m, x.produced).c = over
    BY <1>2 DEF d, over, flush
  <2> QED BY <1>1, <1>10, <1>11, <1>12, <2>1
<1> QED BY <1>13 DEF r

\* xa_base_process
LEMMA ProcessMarks ==
    ASSUME ChainInv, MarkInv, NEW k \in Codecs, Process(k)
    PROVE  Leaves(k)
<1> DEFINE w == WorkerOf[k]
           pre == Preprocessed(k, TakenOff(codec[k]))
           e == pre.c
<1>1. /\ local[w] = <<>> /\ k \in Scheduling(w)
      /\ \E r \in IF pre.ok THEN {Postprocessed(k, x) : x \in Executed(k, e)}
                  ELSE {[c |-> e, out |-> <<>>]} : codec' = [codec EXCEPT ![k] = r.c]
  BY DEF Process, TakenOff
<1>2. Runs(k)
  BY <1>1 DEF Runs
<1>3. HasInput(e) /\ Marked(e)
  BY <1>2, PreMarked
<1> HIDE DEF pre
<1>4. CASE pre.ok
  <2>1. PICK x \in Executed(k, e) : codec' = [codec EXCEPT ![k] = Postprocessed(k, x).c]
    BY <1>1, <1>4
  <2>2. Marked(Postprocessed(k, x).c)
    BY <1>3, PostMarked
  <2> QED BY <2>1, <2>2 DEF Leaves
<1>5. CASE ~pre.ok
  <2>1. PICK r \in {[c |-> e, out |-> <<>>]} : codec' = [codec EXCEPT ![k] = r.c]
    BY <1>1, <1>5
  <2> HIDE DEF e
  <2>2. r.c = e
    OBVIOUS
  <2>3. codec' = [codec EXCEPT ![k] = e]
    BY <2>1, <2>2
  <2> QED BY <1>3, <2>3 DEF Leaves
<1> QED BY <1>4, <1>5

\* Every step keeps the marks.
LEMMA NextMarks == ASSUME ChainInv, MarkInv, Next PROVE MarkInv'
<1>1. CASE AppStep
  <2>1. codec' = codec
    BY <1>1 DEF AppStep, Connect, Start, Input, InputOver, NeedOutput, Disconnect, Delete, Pause, Resume, Calls, Sends
  <2> QED BY <2>1 DEF MarkInv, Gone
<1>2. ASSUME NEW w \in Workers, WorkerStep(w) PROVE MarkInv'
  <2>1. PICK k \in Codecs :
          \/ EmptyThisBuffer(k) \/ FillThisBuffer(k) \/ PortRoute(k) \/ PortUnroute(k)
          \/ FlushInput(k) \/ FlushReturns(k) \/ PortPause(k) \/ PortResume(k)
          \/ Unregister(k) \/ Terminate(k) \/ Process(k)
    BY <1>2 DEF WorkerStep
  <2>2. Leaves(k)
    BY <2>1, EmptyMarks, FillMarks, RouteMarks, FlushInputMarks, FlushReturnsMarks, PauseMarks, EndMarks, ProcessMarks
  <2> QED BY <2>2, LeavesMarks DEF ChainInv
<1> QED BY <1>1, <1>2 DEF Next

\* At first no stream is over.
LEMMA InitMarks == Init => MarkInv
<1> SUFFICES ASSUME Init, NEW k \in Codecs PROVE Marked(codec[k])
  BY DEF MarkInv
<1>1. codec[k].in = <<>> /\ codec[k].iflags = {"enabled"}
  BY DEF Init, Configured
<1>2. Items(codec[k].in) = {}
  BY <1>1, EmptyItems
<1> QED BY <1>1, <1>2 DEF Marked

\* A step that changes nothing keeps the marks.
LEMMA StutterMarks == ASSUME MarkInv, UNCHANGED vars PROVE MarkInv'
<1>1. codec' = codec
  BY DEF vars
<1> QED BY <1>1 DEF MarkInv, Gone

-----------------------------------------------------------------------------
(* What the invariants say.                                                *)

\* Items of the type are items.
LEMMA ItemsAre == \A s \in Seq(ItemType) : AllItems(s)
<1> SUFFICES ASSUME NEW s \in Seq(ItemType), NEW i \in DOMAIN s PROVE IsItem(s[i])
  BY DEF AllItems
<1>1. s[i] \in ItemType
  BY SeqFacts
<1> QED BY <1>1 DEF IsItem, ItemType, Ops, Lens

\* One that is gone has nothing.
LEMMA GoneFacts ==
    ASSUME ChainInv, NEW k \in Codecs, Gone(k)
    PROVE  LET c == codec[k] IN
           /\ c.in = <<>> /\ c.out = <<>> /\ c.state = {} /\ c.iflags = {} /\ c.oflags = {} /\ c.tree = 0
<1>1. codec[k] = Destroyed
  BY DEF ChainInv, CompInv
<1> QED BY <1>1 DEF Destroyed, Configured

\* Types.
LEMMA TypesAre == ChainInv => TypeOK
<1> SUFFICES ASSUME ChainInv PROVE TypeOK
  OBVIOUS
<1>1. TypeInv
  BY DEF ChainInv
<1>2. ASSUME NEW k \in Codecs
      PROVE  /\ \A i \in DOMAIN codec[k].in : codec[k].in[i].op \in {"empty", "flush"}
             /\ \A i \in DOMAIN codec[k].out :
                  codec[k].out[i] \in {Msg(k, what) : what \in Bufs \cup {"start", "out"}}
  <2> DEFINE c == codec[k]
             M == {Msg(k, what) : what \in Bufs \cup {"start", "out"}}
  <2>1. Msg(k, "start") \in M /\ Msg(k, "out") \in M /\ \A b \in Bufs : Msg(k, b) \in M
    OBVIOUS
  <2>2. CASE Gone(k)
    <3>1. c.in = <<>> /\ c.out = <<>>
      BY <2>2, GoneFacts
    <3> QED BY <3>1
  <2>3. CASE ~Gone(k)
    <3>1. InputOk(c) /\ OutputOk(k, c)
      BY <2>3, Mine DEF CompOk
    <3>2. \A x \in Items(c.in) : x.op \in {"empty", "flush"}
      <4>1. CASE Purging(c)
        <5>1. PICK x \in Items(c.in) : c.in = <<x>> /\ x.op = "flush"
          BY <3>1, <4>1 DEF InputOk
        <5>2. Items(c.in) = {x}
          BY <5>1, OneItem
        <5> QED BY <5>1, <5>2
      <4>2. CASE ~Purging(c)
        BY <3>1, <4>2 DEF InputOk
      <4> QED BY <4>1, <4>2
    <3> HIDE DEF M
    <3>3. \A m \in Items(c.out) : m \in M
      <4>1. CASE Initial(c)
        <5>1. CASE c.out = <<>>
          BY <5>1, EmptyItems
        <5>2. CASE c.out = <<Msg(k, "start")>>
          BY <2>1, <5>2, OneItem
        <5> QED BY <3>1, <4>1, <5>1, <5>2 DEF OutputOk
      <4>2. CASE ~Initial(c) /\ Routed(c)
        BY <2>1, <3>1, <4>2 DEF OutputOk
      <4>3. CASE ~Initial(c) /\ ~Routed(c)
        BY <2>1, <3>1, <4>3 DEF OutputOk
      <4> QED BY <4>1, <4>2, <4>3
    <3> QED BY <3>2, <3>3 DEF Items, M
  <2> QED BY <2>2, <2>3
<1>3. ASSUME NEW k \in Codecs
      PROVE  LET c == codec[k] IN
             /\ c.mode \in {"running", "terminating", "gone"}
             /\ c.state \subseteq Flags.state /\ c.iflags \subseteq Flags.in /\ c.oflags \subseteq Flags.out
             /\ c.tree \in Nat /\ c.prepared \in BOOLEAN /\ c.filled \in 0..Frame
             /\ AllItems(c.in)
             /\ c.route \in Codecs \cup {None} /\ c.ptr \in AllMsgs \cup {Msg(k, "scratch"), Stale, None}
  <2>1. codec[k] \in CodecType(k)
    BY <1>1 DEF TypeInv
  <2>2. codec[k].in \in Seq(ItemType)
    BY <2>1 DEF CodecType
  <2>3. AllItems(codec[k].in)
    BY <2>2, ItemsAre
  <2> QED BY <2>1, <2>3 DEF CodecType
<1>4. \A w \in Workers : AllItems(local[w]) /\ AllItems(queue[w])
  BY <1>1, ItemsAre DEF TypeInv
<1>5. call = None \/ (call.on \in Codecs /\ call.arg \in Codecs \cup {None, "in", "out"})
  BY <1>1 DEF TypeInv, CallType
<1> QED BY <1>1, <1>2, <1>3, <1>4, <1>5 DEF TypeOK, TypeInv

\* Nothing is left for a component that is gone.
LEMMA NoneLeft == ChainInv => NoneForTheGone
<1> SUFFICES ASSUME ChainInv, NEW w \in Workers
             PROVE  /\ \A i \in DOMAIN local[w] : Alive(local[w][i])
                    /\ \A i \in DOMAIN queue[w] : Alive(queue[w][i])
  BY DEF NoneForTheGone
<1>1. local[w] \in Seq(ItemType) /\ queue[w] \in Seq(ItemType)
  BY DEF ChainInv, TypeInv
<1>2. \A x \in Items(local[w]) \cup Items(queue[w]) : x.to \in Codecs
  BY <1>1, SeqFacts, ItemFacts
<1>3. \A x \in Items(local[w]) \cup Items(queue[w]) : ~Gone(x.to)
  BY DEF ChainInv, PoolInv, PlaceInv, LocalPlace, QueuePlace
<1> QED BY <1>2, <1>3 DEF Alive, Items

\* A message that is nowhere abroad.
LEMMA NowhereAbroad == ASSUME NEW m, \A x : IsAbroad(x) => x.msg # m, TypeInv PROVE Abroad(m) = {}
<1>1. ASSUME NEW w \in Workers
      PROVE  /\ \A j \in DOMAIN local[w] : local[w][j].msg # m
             /\ \A j \in DOMAIN queue[w] : queue[w][j].msg # m
  BY DEF IsAbroad, InTransit, Items
<1>2. ASSUME NEW k \in Codecs, NEW j \in DOMAIN codec[k].in PROVE codec[k].in[j].msg # m
  BY DEF IsAbroad, AtInput, Items
<1>3. DOMAIN local = Workers /\ DOMAIN queue = Workers
  BY DEF TypeInv
<1>4. ASSUME NEW name, NEW f, \A x \in DOMAIN f : \A j \in DOMAIN f[x] : f[x][j].msg # m
      PROVE  Spots(name, f, m) = {}
  BY <1>4 DEF Spots
<1>5. Spots("local", local, m) = {} /\ Spots("queue", queue, m) = {}
  BY <1>1, <1>3, <1>4
<1> DEFINE f == [k \in Codecs |-> codec[k].in]
<1>6. \A x \in DOMAIN f : \A j \in DOMAIN f[x] : f[x][j].msg # m
  BY <1>2
<1>7. Spots("in", f, m) = {}
  BY <1>4, <1>6
<1> QED BY <1>5, <1>7 DEF Abroad

\* A pool is freed when it is at home.
LEMMA FreedHome == ChainInv => FreedAtHome
<1> SUFFICES ASSUME ChainInv, NEW k \in Codecs, ~Routed(codec[k]), NEW what \in Pool
             PROVE  Abroad(Msg(k, what)) = {}
  BY DEF FreedAtHome
<1>1. ASSUME NEW x, IsAbroad(x) PROVE x.msg # Msg(k, what)
  <2> SUFFICES ASSUME x.msg = Msg(k, what) PROVE FALSE
    OBVIOUS
  <2>1. FromPool(x.msg) /\ x.msg.of = k
    BY MsgFacts
  <2>2. Routed(codec[x.msg.of])
    BY <1>1, <2>1 DEF IsAbroad, InTransit, AtInput, ChainInv, PoolInv, PlaceInv,
                      LocalPlace, QueuePlace, InputPlace
  <2> QED BY <2>1, <2>2
<1>2. TypeInv
  BY DEF ChainInv
<1> QED BY <1>1, <1>2, NowhereAbroad

\* So is one whose port is idle.
LEMMA IdleHome == ChainInv => IdleIsHome
<1> SUFFICES ASSUME ChainInv, NEW k \in Codecs, {"routed", "idle"} \subseteq codec[k].oflags, NEW what \in Pool
             PROVE  Abroad(Msg(k, what)) = {}
  BY DEF IdleIsHome
<1>1. ASSUME NEW x, IsAbroad(x) PROVE x.msg # Msg(k, what)
  <2>1. ~Of(x, k)
    BY <1>1 DEF ChainInv, PoolInv, PortInv, Routed
  <2> QED BY <2>1, MsgFacts DEF Of
<1>2. TypeInv
  BY DEF ChainInv
<1> QED BY <1>1, <1>2, NowhereAbroad

\* The messages a component is given are those its handlers expect.
LEMMA AreExpected == ChainInv /\ MarkInv => MessageExpected
<1> SUFFICES ASSUME ChainInv, MarkInv, NEW k \in Codecs
             PROVE  LET c == codec[k] IN
    /\ \A x \in Gets(k, "empty") : x.len = 0 /\ "enabled" \in c.iflags => "eos" \notin c.iflags
    /\ \A x \in Gets(k, "fill") : "runtime_init" \in c.state => x.len = 0
    /\ \A x \in Gets(k, "fill") \cup Gets(k, "flush") : x.msg = Control(k) => "flushing" \in c.oflags
    /\ \A x \in Gets(k, "flush") : x.msg = Control(k) /\ "unrouting" \notin c.oflags =>
         Routed(c) /\ "purging" \in c.iflags
    /\ "purging" \in c.iflags => Len(c.in) = 1 /\ c.in[1].op = "flush"
    /\ \A x \in Given(k, "terminating") : x.msg = Control(k) => c.oflags \cap {"flushing", "idle"} = {"flushing"}
    /\ Gets(k, "route") # {} => ~Routed(c)
  BY DEF MessageExpected
<1> DEFINE c == codec[k]
<1>1. \A op : \A x \in Gets(k, op) : Serves(k, x) /\ ~Gone(k) /\ c.mode = "running" /\ x.op = op
  BY GetsServes DEF Serves
<1>2. ~Gone(k) => InputOk(c) /\ OutputOk(k, c) /\ Marked(c)
  BY Mine DEF CompOk, MarkInv
<1>3. ASSUME NEW x \in Gets(k, "empty"), x.len = 0, "enabled" \in c.iflags PROVE "eos" \notin c.iflags
  <2>1. Marked(c)
    BY <1>1, <1>2
  <2> QED BY <1>3, <2>1 DEF Marked
<1>4. ASSUME NEW x \in Gets(k, "fill"), "runtime_init" \in c.state PROVE x.len = 0
  <2>1. /\ Serves(k, x) /\ ~Gone(k) /\ x.op = "fill" /\ Initial(c)
    BY <1>1, <1>4 DEF Initial
  <2>2. ~Routed(c) /\ k \notin ready
    BY <1>2, <2>1, Mine DEF OutputOk
  <2>3. ~FromPool(x.msg)
    BY <2>1, <2>2, ServedKinds DEF ForthKind
  <2>4. AppKind(x) /\ x.to = k
    BY <2>1, <2>3, ServedKinds
  <2> QED BY <2>1, <2>2, <2>4 DEF AppKind
<1>5. ASSUME NEW x, Serves(k, x), x.msg = Control(k)
      PROVE  IsAbroad(x) /\ Of(x, k) /\ Routed(c) /\ "flushing" \in c.oflags
  <2>1. FromPool(x.msg) /\ x.msg.of = k /\ x.msg.what = "control"
    BY <1>5, MsgFacts
  <2>2. IsAbroad(x) /\ Of(x, k) /\ IsControl(x) /\ Routed(c)
    BY <1>5, <2>1, ServedKinds DEF Of, IsControl
  <2> QED BY <2>2 DEF ChainInv, PoolInv, PortInv
<1>6. ASSUME NEW x \in Gets(k, "flush"), x.msg = Control(k), "unrouting" \notin c.oflags
      PROVE  Routed(c) /\ "purging" \in c.iflags
  <2>1. IsAbroad(x) /\ Of(x, k) /\ Routed(c) /\ x.op = "flush" /\ c.mode = "running"
    BY <1>1, <1>5, <1>6
  <2>2. FlushAbroad(k)
    BY <2>1 DEF FlushAbroad, IsFlush
  <2>3. Waiting(c)
    BY <2>2 DEF ChainInv, FlushInv, FlushOk
  <2> QED BY <1>6, <2>1, <2>3 DEF Waiting, Unrouting, Purging
<1>7. ASSUME "purging" \in c.iflags PROVE Len(c.in) = 1 /\ c.in[1].op = "flush"
  <2>1. ~Gone(k)
    BY <1>7, GoneFacts
  <2>2. PICK x \in Items(c.in) : c.in = <<x>> /\ x.op = "flush"
    BY <1>2, <1>7, <2>1 DEF InputOk, Purging
  <2> HIDE DEF c
  <2> QED BY <2>2
<1>8. ASSUME NEW x \in Given(k, "terminating"), x.msg = Control(k)
      PROVE  c.oflags \cap {"flushing", "idle"} = {"flushing"}
  <2>1. ~Gone(k) /\ c.mode = "terminating"
    BY <1>8 DEF Given, Gone
  <2> QED BY <1>2, <2>1 DEF OutputOk, Flushing
<1>9. ASSUME NEW x \in Gets(k, "route") PROVE ~Routed(c)
  <2>1. Serves(k, x) /\ ~Gone(k) /\ x.op = "route"
    BY <1>1
  <2>2. ~FromPool(x.msg)
    BY <2>1, ServedKinds DEF ForthKind, BackKind, BackOp
  <2>3. AppKind(x) /\ Queued(x) /\ x.to = k
    BY <2>1, <2>2, ServedKinds
  <2>4. x.msg = Cmd
    BY <2>1, <2>3 DEF AppKind
  <2>5. call # None /\ x = Item(call.on, Cmd, call.op, 0)
    BY <2>3, <2>4 DEF ChainInv, CallInv
  <2>6. call.on = k /\ call.op = "route"
    BY <2>1, <2>3, <2>5, ItemFacts
  <2>7. conn[k] = None
    BY <2>5, <2>6 DEF ChainInv, CallInv
  <2> QED BY <2>1, <2>7, Mine, AppAssumption
<1> QED BY <1>1, <1>3, <1>4, <1>5, <1>6, <1>7, <1>8, <1>9

\* So is a component that is to run.
LEMMA RunsExpected == ChainInv /\ MarkInv => RunExpected
<1> SUFFICES ASSUME ChainInv, MarkInv, NEW k \in Codecs
             PROVE  LET c == codec[k] IN
    /\ c.tree = IF "schedule" \in c.state THEN 1 ELSE 0
    /\ "schedule" \in c.state =>
      /\ "runtime_init" \in c.state => c.out # <<>> /\ Head(c.out) = Msg(k, "start")
      /\ c.out # <<>> => "unrouting" \notin c.oflags
      /\ \A i \in DOMAIN c.in : c.in[i].len <= 0 => c.iflags \cap {"eos", "done"} # {}
  BY DEF RunExpected
<1> DEFINE c == codec[k]
<1>1. CASE Gone(k)
  BY <1>1, GoneFacts
<1>2. CASE ~Gone(k)
  <2>1. TaskOk(k, c) /\ InputOk(c) /\ OutputOk(k, c) /\ Marked(c)
    BY <1>2, Mine DEF CompOk, MarkInv
  <2>2. c.tree = IF "schedule" \in c.state THEN 1 ELSE 0
    BY <2>1 DEF TaskOk, IsScheduled
  <2>3. ASSUME "schedule" \in c.state
        PROVE  /\ "runtime_init" \in c.state => c.out # <<>> /\ Head(c.out) = Msg(k, "start")
               /\ c.out # <<>> => "unrouting" \notin c.oflags
               /\ \A i \in DOMAIN c.in : c.in[i].len <= 0 => c.iflags \cap {"eos", "done"} # {}
    <3>1. c.out # <<>> /\ ~Flushing(c)
      BY <2>1, <2>3 DEF TaskOk, IsScheduled
    <3>2. ~Unrouting(c) /\ ~Purging(c)
      BY <2>1, <3>1 DEF OutputOk, InputOk
    <3>3. "runtime_init" \in c.state => Head(c.out) = Msg(k, "start")
      BY <2>1, <3>1 DEF OutputOk, Initial
    <3>4. ASSUME NEW i \in DOMAIN c.in, c.in[i].len <= 0 PROVE c.iflags \cap {"eos", "done"} # {}
      <4> DEFINE x == c.in[i]
      <4>1. x \in Items(c.in)
        BY <3>4 DEF Items
      <4>2. x.len \in {0, 1}
        BY <4>1 DEF ChainInv, PoolInv, PlaceInv, InputPlace, AppKind, ForthKind
      <4>3. x.len = 0
        BY <3>4, <4>2
      <4> HIDE DEF x
      <4> QED BY <2>1, <3>2, <4>1, <4>3 DEF Marked
    <3> QED BY <3>1, <3>2, <3>3, <3>4 DEF Unrouting
  <2> QED BY <2>2, <2>3
<1> QED BY <1>1, <1>2

-----------------------------------------------------------------------------
(* The theorems.                                                           *)

\* The inductive invariant.
ChainSafe == ChainInv /\ MarkInv

\* The invariant holds in every state, where no stream ends without having produced anything.
THEOREM ChainIsSafe == MayBeBarren = FALSE /\ Spec => []ChainSafe
<1> DEFINE Hyp == MayBeBarren = FALSE
<1>1. Init => ChainSafe
  BY InitChain, InitMarks DEF ChainSafe
<1>2. Hyp /\ ChainSafe /\ [Next]_vars => ChainSafe'
  <2> SUFFICES ASSUME Hyp, ChainSafe, [Next]_vars PROVE ChainSafe'
    OBVIOUS
  <2>1. ChainInv /\ MarkInv
    BY DEF ChainSafe
  <2>2. CASE Next
    BY <2>1, <2>2, NextChain, NextMarks DEF ChainSafe
  <2>3. CASE UNCHANGED vars
    BY <2>1, <2>3, StutterChain, StutterMarks DEF ChainSafe
  <2> QED BY <2>2, <2>3
<1>3. Hyp => Hyp'
  OBVIOUS
<1> QED BY <1>1, <1>2, <1>3, PTL DEF Spec

\* Types.
THEOREM ChainTypesHold == MayBeBarren = FALSE /\ Spec => []TypeOK
<1>1. ChainSafe => TypeOK
  BY TypesAre DEF ChainSafe
<1> QED BY <1>1, ChainIsSafe, PTL

\* Nobody sends to a component that is gone, and its deletion leaves nothing queued for it:
\* the dispatcher's look-up finds a component.
THEOREM NoneIsForTheGone == MayBeBarren = FALSE /\ Spec => []NoneForTheGone
<1>1. ChainSafe => NoneForTheGone
  BY NoneLeft DEF ChainSafe
<1> QED BY <1>1, ChainIsSafe, PTL

\* A pool is freed only when all of it is with its owner.
THEOREM PoolsAreFreedAtHome == MayBeBarren = FALSE /\ Spec => []FreedAtHome
<1>1. ChainSafe => FreedAtHome
  BY FreedHome DEF ChainSafe
<1> QED BY <1>1, ChainIsSafe, PTL

\* A routed port that says it is idle has its whole pool, as xf-io.h has it.
THEOREM IdlePortsAreHome == MayBeBarren = FALSE /\ Spec => []IdleIsHome
<1>1. ChainSafe => IdleIsHome
  BY IdleHome DEF ChainSafe
<1> QED BY <1>1, ChainIsSafe, PTL

\* No BUG() check of a handler fails on the message it is given.
THEOREM MessagesAreExpected == MayBeBarren = FALSE /\ Spec => []MessageExpected
<1>1. ChainSafe => MessageExpected
  BY AreExpected DEF ChainSafe
<1> QED BY <1>1, ChainIsSafe, PTL

\* None fails of the component that is to run; it is in its worker's tree once.
THEOREM RunsAreExpected == MayBeBarren = FALSE /\ Spec => []RunExpected
<1>1. ChainSafe => RunExpected
  BY RunsExpected DEF ChainSafe
<1> QED BY <1>1, ChainIsSafe, PTL
===============================================================================
