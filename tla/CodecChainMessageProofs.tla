---------------------- MODULE CodecChainMessageProofs ----------------------
(***************************************************************************)
(* No message of CodecChain is lost or doubled (MessagesConserved), proved *)
(* on top of the invariant of CodecChainProofs. A message is in one place  *)
(* at most (OnceInv); which ones are somewhere, HeldInv says. A handler    *)
(* has messages in hand: the one it is given, those at its input and at    *)
(* its output. The lemma HandStep says what it has to do with them; there  *)
(* is a lemma per handler that it does, and the counting comes at the end. *)
(***************************************************************************)
EXTENDS CodecChainProofs

-----------------------------------------------------------------------------
(* Sequences without a message twice.                                      *)

InSeq(s, m) == \E x \in Items(s) : x.msg = m
Single(s) == \A x, y : Ahead(s, x, y) => x.msg # y.msg
Distinct(s) == \A m, n : Ahead(s, m, n) => m # n

\* There a message has one index.
LEMMA SinglePlace ==
    ASSUME NEW S, NEW s \in Seq(S), Single(s)
    PROVE  /\ \A i, j \in DOMAIN s : s[i].msg = s[j].msg => i = j
           /\ \A x, y \in Items(s) : x.msg = y.msg => x = y
<1>1. DOMAIN s = 1..Len(s) /\ Len(s) \in Nat
  BY SeqFacts
<1>2. \A i, j \in DOMAIN s : s[i].msg = s[j].msg => i = j
  <2> SUFFICES ASSUME NEW i \in DOMAIN s, NEW j \in DOMAIN s, s[i].msg = s[j].msg, i # j PROVE FALSE
    OBVIOUS
  <2>1. i < j \/ j < i
    BY <1>1
  <2>2. Ahead(s, s[i], s[j]) \/ Ahead(s, s[j], s[i])
    BY <2>1 DEF Ahead
  <2> QED BY <2>2 DEF Single
<1> QED BY <1>2 DEF Items

\* The same for a sequence of messages.
LEMMA DistinctPlace ==
    ASSUME NEW S, NEW s \in Seq(S), Distinct(s)
    PROVE  \A i, j \in DOMAIN s : s[i] = s[j] => i = j
<1>1. DOMAIN s = 1..Len(s) /\ Len(s) \in Nat
  BY SeqFacts
<1> SUFFICES ASSUME NEW i \in DOMAIN s, NEW j \in DOMAIN s, s[i] = s[j], i # j PROVE FALSE
  OBVIOUS
<1>2. i < j \/ j < i
  BY <1>1
<1>3. Ahead(s, s[i], s[j]) \/ Ahead(s, s[j], s[i])
  BY <1>2 DEF Ahead
<1> QED BY <1>3 DEF Distinct

\* Short sequences.
LEMMA SingleShort ==
    /\ Single(<<>>) /\ Distinct(<<>>) /\ \A m : ~InSeq(<<>>, m)
    /\ \A x : Single(<<x>>) /\ Distinct(<<x>>) /\ \A m : InSeq(<<x>>, m) <=> m = x.msg
<1>1. \A x : Items(<<x>>) = {x} /\ \A y, z : ~Ahead(<<x>>, y, z)
  BY OneItem
<1> QED BY <1>1, EmptyItems DEF Single, Distinct, InSeq

\* Two in a row.
LEMMA SingleJoined ==
    ASSUME NEW S, NEW s \in Seq(S), NEW t \in Seq(S)
    PROVE  /\ \A m : InSeq(s \o t, m) <=> (InSeq(s, m) \/ InSeq(t, m))
           /\ Single(s) /\ Single(t) /\ (\A m : ~(InSeq(s, m) /\ InSeq(t, m))) => Single(s \o t)
           /\ Distinct(s) /\ Distinct(t) /\ (\A m : ~(m \in Items(s) /\ m \in Items(t))) => Distinct(s \o t)
<1> DEFINE r == s \o t
<1>1. /\ Items(r) = Items(s) \cup Items(t)
      /\ \A x, y : Ahead(r, x, y) =>
           Ahead(s, x, y) \/ (x \in Items(s) /\ y \in Items(t)) \/ Ahead(t, x, y)
  BY Joined
<1> HIDE DEF r
<1>2. \A m : InSeq(r, m) <=> (InSeq(s, m) \/ InSeq(t, m))
  BY <1>1 DEF InSeq
<1>3. Single(s) /\ Single(t) /\ (\A m : ~(InSeq(s, m) /\ InSeq(t, m))) => Single(r)
  <2> SUFFICES ASSUME Single(s), Single(t), \A m : ~(InSeq(s, m) /\ InSeq(t, m)),
                      NEW x, NEW y, Ahead(r, x, y)
               PROVE  x.msg # y.msg
    BY DEF Single
  <2>1. CASE x \in Items(s) /\ y \in Items(t)
    <3>1. InSeq(s, x.msg) /\ InSeq(t, y.msg)
      BY <2>1 DEF InSeq
    <3> QED BY <3>1
  <2> QED BY <1>1, <2>1 DEF Single
<1>4. Distinct(s) /\ Distinct(t) /\ (\A m : ~(m \in Items(s) /\ m \in Items(t))) => Distinct(r)
  BY <1>1 DEF Distinct
<1> QED BY <1>2, <1>3, <1>4 DEF r

\* One more.
LEMMA SingleAppended ==
    ASSUME NEW S, NEW s \in Seq(S), NEW z \in S
    PROVE  /\ \A m : InSeq(Append(s, z), m) <=> (InSeq(s, m) \/ m = z.msg)
           /\ Single(s) /\ ~InSeq(s, z.msg) => Single(Append(s, z))
           /\ Distinct(s) /\ z \notin Items(s) => Distinct(Append(s, z))
<1> DEFINE r == Append(s, z)
<1>1. /\ Items(r) = Items(s) \cup {z}
      /\ \A x, y : Ahead(r, x, y) => Ahead(s, x, y) \/ (x \in Items(s) /\ y = z)
  BY Appended
<1> HIDE DEF r
<1>2. \A m : InSeq(r, m) <=> (InSeq(s, m) \/ m = z.msg)
  BY <1>1 DEF InSeq
<1>3. Single(s) /\ ~InSeq(s, z.msg) => Single(r)
  BY <1>1 DEF Single, InSeq
<1>4. Distinct(s) /\ z \notin Items(s) => Distinct(r)
  BY <1>1 DEF Distinct
<1> QED BY <1>2, <1>3, <1>4 DEF r

\* One less.
LEMMA SingleRest ==
    ASSUME NEW S, NEW s \in Seq(S), s # <<>>
    PROVE  /\ \A m : InSeq(s, m) <=> (InSeq(Tail(s), m) \/ m = Head(s).msg)
           /\ Single(s) => Single(Tail(s)) /\ ~InSeq(Tail(s), Head(s).msg)
           /\ Distinct(s) => Distinct(Tail(s)) /\ Head(s) \notin Items(Tail(s))
<1> DEFINE r == Tail(s)
           z == Head(s)
<1>1. /\ Items(s) = {z} \cup Items(r)
      /\ \A x, y : Ahead(r, x, y) => Ahead(s, x, y)
      /\ \A x \in Items(r) : Ahead(s, z, x)
  BY Rest
<1> HIDE DEF r, z
<1>2. \A m : InSeq(s, m) <=> (InSeq(r, m) \/ m = z.msg)
  BY <1>1 DEF InSeq
<1>3. Single(s) => Single(r) /\ ~InSeq(r, z.msg)
  BY <1>1 DEF Single, InSeq
<1>4. Distinct(s) => Distinct(r) /\ z \notin Items(r)
  BY <1>1 DEF Distinct
<1> QED BY <1>2, <1>3, <1>4 DEF r, z

\* A sequence with the messages of another, in its order.
LEMMA SameMessages ==
    ASSUME NEW s, NEW t, DOMAIN t = DOMAIN s, \A i \in DOMAIN s : t[i].msg = s[i].msg
    PROVE  /\ \A m : InSeq(t, m) <=> InSeq(s, m)
           /\ Single(s) => Single(t)
<1>1. \A m : InSeq(t, m) <=> InSeq(s, m)
  BY DEF InSeq, Items
<1>2. ASSUME Single(s), NEW i \in DOMAIN s, NEW j \in DOMAIN s, i < j PROVE t[i].msg # t[j].msg
  <2>1. Ahead(s, s[i], s[j])
    BY <1>2 DEF Ahead
  <2> QED BY <1>2, <2>1 DEF Single
<1>3. Single(s) => Single(t)
  BY <1>2 DEF Single, Ahead
<1> QED BY <1>1, <1>3

-----------------------------------------------------------------------------
(* Places.                                                                 *)

Has(n, x, m) ==
    \/ n = "local" /\ x \in Workers /\ InSeq(local[x], m)
    \/ n = "queue" /\ x \in Workers /\ InSeq(queue[x], m)
    \/ n = "in" /\ x \in Codecs /\ InSeq(codec[x].in, m)
    \/ n = "out" /\ x \in Codecs /\ m \in Items(codec[x].out)
    \/ n = "app" /\ x = App /\ m \in owned
Held(m) == \E n, x : Has(n, x, m)

\* No message is in two places, or twice in one.
OnceInv ==
    /\ \A w \in Workers : Single(local[w]) /\ Single(queue[w])
    /\ \A k \in Codecs : Single(codec[k].in) /\ Distinct(codec[k].out)
    /\ \A m, n, o, x, y : Has(n, x, m) /\ Has(o, y, m) => n = o /\ x = y

\* All buffers of a connection are somewhere. Or the component below is being deleted and
\* has answered one as invalid: the port is flushing, and what its flow-control message
\* brings will take the connection apart.
Whole(k) == \A buf \in Bufs : Held(Msg(k, buf))
EndsRoute(k) == \A x : IsAbroad(x) /\ x.msg = Control(k) =>
    ~IsBack(x) \/ x.len = Invalid \/ Unrouting(codec[k])
IsCut(k) == Flushing(codec[k]) /\ codec[RouteOf(k)].mode = "terminating" /\ EndsRoute(k)
IsRefused(k) == \E y : IsAbroad(y) /\ Of(y, k) /\ ~IsControl(y) /\ y.len = Invalid
Connects(k) == Routed(codec[k]) /\ codec[k].mode = "running"

\* What is somewhere: all messages of the application, where the command may be saved; the
\* flow-control message of a port that is flushing; the buffers of a connection.
HeldInv ==
    /\ \A m \in AppMsgs \ {Cmd} : Held(m)
    /\ call = None => Cmd \in owned
    /\ call # None => (\E x : Queued(x) /\ x.msg = Cmd) \/ \E k \in Codecs : IsSaved(k)
    /\ \A k \in Codecs : Flushing(codec[k]) => Held(Control(k))
    /\ \A k \in Codecs : Connects(k) /\ ~Gone(RouteOf(k)) => Whole(k) \/ IsCut(k)
    /\ \A k \in Codecs : Connects(k) /\ codec[RouteOf(k)].mode = "terminating" /\ IsRefused(k) => EndsRoute(k)

\* What a port holds is its own.
LEMMA HeldAtOutput ==
    ASSUME ChainInv, NEW k \in Codecs, NEW m \in Items(codec[k].out)
    PROVE  /\ m \in AllMsgs /\ m # Cmd /\ m.of = k /\ ~Gone(k)
           /\ FromPool(m) => Routed(codec[k]) /\ (\E buf \in Bufs : m = Msg(k, buf)) /\ m # Control(k)
           /\ ~FromPool(m) => m \in AppMsgs /\ ~Routed(codec[k])
<1> DEFINE c == codec[k]
<1>1. ~Gone(k)
  <2>1. Destroyed.out = <<>>
    BY DEF Destroyed, Configured
  <2>2. Gone(k) => c.out = <<>>
    BY <2>1 DEF ChainInv, CompInv
  <2> QED BY <2>2, EmptyItems
<1>2. OutputOk(k, c) /\ c.out \in Seq(AllMsgs)
  BY <1>1, Mine DEF CompOk
<1>3. m \in AllMsgs
  BY <1>2, SeqFacts
<1>4. \A buf \in Bufs : Msg(k, buf) # Control(k)
  <2>1. \A buf \in Bufs : Msg(k, buf).what # Control(k).what
    BY MsgFacts, NamesAssumption
  <2> QED BY <2>1
<1>5. CASE Initial(c)
  <2>1. c.out = <<Msg(k, "start")>> /\ ~Routed(c)
    BY <1>2, <1>5, EmptyItems DEF OutputOk
  <2>2. m = Msg(k, "start")
    BY <2>1, OneItem
  <2> QED BY <1>1, <1>3, <2>1, <2>2, MsgFacts, AppMsgFacts
<1>6. CASE ~Initial(c) /\ Routed(c)
  <2>1. PICK buf \in Bufs : m = Msg(k, buf)
    BY <1>2, <1>6 DEF OutputOk
  <2>2. FromPool(m) /\ m.of = k
    BY <2>1, MsgFacts DEF Pool
  <2> QED BY <1>1, <1>3, <1>4, <1>6, <2>1, <2>2, AppMsgFacts
<1>7. CASE ~Initial(c) /\ ~Routed(c)
  <2>1. m = Msg(k, "out") /\ k \in Sinks
    BY <1>2, <1>7 DEF OutputOk
  <2> QED BY <1>1, <1>3, <1>7, <2>1, MsgFacts, AppMsgFacts
<1> QED BY <1>5, <1>6, <1>7

\* A message is in one place.
LEMMA OnePlace ==
    ASSUME OnceInv, NEW m, NEW n, NEW x, NEW o, NEW y, Has(n, x, m), Has(o, y, m)
    PROVE  n = o /\ x = y
BY DEF OnceInv

\* What is abroad is somewhere.
LEMMA AbroadHas ==
    /\ \A x : IsAbroad(x) <=>
         \/ \E w \in Workers : x \in Items(local[w]) /\ Has("local", w, x.msg)
         \/ \E w \in Workers : x \in Items(queue[w]) /\ Has("queue", w, x.msg)
         \/ \E k \in Codecs : x \in Items(codec[k].in) /\ Has("in", k, x.msg)
    /\ \A m : (\E x : IsAbroad(x) /\ x.msg = m) <=>
         \E n \in {"local", "queue", "in"} : \E y : Has(n, y, m)
<1>1. \A x : IsAbroad(x) <=>
         \/ \E w \in Workers : x \in Items(local[w]) /\ Has("local", w, x.msg)
         \/ \E w \in Workers : x \in Items(queue[w]) /\ Has("queue", w, x.msg)
         \/ \E k \in Codecs : x \in Items(codec[k].in) /\ Has("in", k, x.msg)
  BY DEF IsAbroad, InTransit, AtInput, Has, InSeq
<1>2. ASSUME NEW m, NEW n \in {"local", "queue", "in"}, NEW y, Has(n, y, m)
      PROVE  \E x : IsAbroad(x) /\ x.msg = m
  <2>1. CASE n = "local"
    BY <1>2, <2>1 DEF IsAbroad, InTransit, Has, InSeq
  <2>2. CASE n = "queue"
    BY <1>2, <2>2 DEF IsAbroad, InTransit, Has, InSeq
  <2>3. CASE n = "in"
    BY <1>2, <2>3 DEF IsAbroad, AtInput, Has, InSeq
  <2> QED BY <1>2, <2>1, <2>2, <2>3
<1> QED BY <1>1, <1>2

\* A message abroad is of a connection, or the application's.
LEMMA AbroadKinds ==
    ASSUME ChainInv, NEW x, IsAbroad(x)
    PROVE  /\ x \in ItemType /\ x.msg \in AllMsgs
           /\ FromPool(x.msg) => x.msg.of \in Codecs /\ Routed(codec[x.msg.of]) /\ ~Gone(x.msg.of)
           /\ x.msg = Cmd => Queued(x)
<1>1. PlaceInv /\ RouteInv /\ TypeInv
  BY DEF ChainInv, PoolInv
<1>2. x \in ItemType /\ (FromPool(x.msg) => Routed(codec[x.msg.of])) /\ (x.msg = Cmd => Queued(x))
  <2>1. ASSUME NEW w \in Workers, x \in Items(local[w])
        PROVE  x \in ItemType /\ FromPool(x.msg) /\ Routed(codec[x.msg.of])
    <3>1. local[w] \in Seq(ItemType)
      BY <1>1 DEF TypeInv
    <3>2. x \in ItemType
      BY <2>1, <3>1, SeqFacts
    <3> QED BY <1>1, <2>1, <3>2 DEF PlaceInv, LocalPlace
  <2>2. ASSUME NEW w \in Workers, x \in Items(queue[w])
        PROVE  x \in ItemType /\ (FromPool(x.msg) => Routed(codec[x.msg.of])) /\ Queued(x)
    <3>1. queue[w] \in Seq(ItemType)
      BY <1>1 DEF TypeInv
    <3>2. x \in ItemType
      BY <2>2, <3>1, SeqFacts
    <3> QED BY <1>1, <2>2, <3>2 DEF PlaceInv, QueuePlace, Queued
  <2>3. ASSUME NEW k \in Codecs, x \in Items(codec[k].in)
        PROVE  x \in ItemType /\ (FromPool(x.msg) => Routed(codec[x.msg.of])) /\ x.msg # Cmd
    <3>1. codec[k].in \in Seq(ItemType)
      BY <1>1 DEF TypeInv, CodecType
    <3>2. x \in ItemType /\ InputPlace(k, x)
      BY <1>1, <2>3, <3>1, SeqFacts DEF PlaceInv
    <3>3. x.msg # Cmd
      <4> SUFFICES ASSUME x.msg = Cmd PROVE FALSE
        OBVIOUS
      <4>1. AppKind(x) /\ x.op = "empty"
        BY <3>2, MsgFacts DEF InputPlace
      <4>2. x.msg.what = "cmd"
        BY MsgFacts
      <4>3. x.msg \notin {Msg(x.to, "start"), Msg(x.to, "in"), Msg(x.to, "eos"), Msg(x.to, "out")}
        BY <4>2, MsgFacts
      <4> QED BY <4>1, <4>3 DEF AppKind
    <3> QED BY <3>2, <3>3 DEF InputPlace
  <2>4. FromPool(x.msg) => x.msg # Cmd
    BY AppMsgFacts
  <2> QED BY <2>1, <2>2, <2>3, <2>4 DEF IsAbroad, InTransit, AtInput
<1>3. x.msg \in AllMsgs
  BY <1>2 DEF ItemType
<1>4. FromPool(x.msg) => x.msg.of \in Codecs
  BY <1>3, MsgFacts
<1> QED BY <1>1, <1>2, <1>3, <1>4 DEF RouteInv

\* What a handler may take from elsewhere: its flow-control message while none is on its
\* way, the pool of a new connection, the command that was saved.
IsNew(k, m) ==
    \/ m = Control(k) /\ ~Flushing(codec[k])
    \/ (\E buf \in Bufs : m = Msg(k, buf)) /\ ~Routed(codec[k])
    \/ m = Cmd /\ SavedIn(codec[k])

\* That is nowhere.
LEMMA NewNowhere ==
    ASSUME ChainInv, NEW k \in Codecs, NEW m, IsNew(k, m)
    PROVE  ~Held(m)
<1> SUFFICES ASSUME NEW n, NEW y, Has(n, y, m) PROVE FALSE
  BY DEF Held
<1>1. CASE n \in {"local", "queue", "in"}
  <2>1. PICK x : IsAbroad(x) /\ x.msg = m
    BY <1>1, AbroadHas
  <2>2. CASE m = Control(k) /\ ~Flushing(codec[k])
    <3>1. Of(x, k) /\ IsControl(x)
      BY <2>1, <2>2, MsgFacts DEF Of, IsControl
    <3> QED BY <2>1, <2>2, <3>1 DEF ChainInv, PoolInv, PortInv, Flushing
  <2>3. CASE (\E buf \in Bufs : m = Msg(k, buf)) /\ ~Routed(codec[k])
    <3>1. FromPool(m) /\ m.of = k
      BY <2>3, MsgFacts DEF Pool
    <3> QED BY <2>1, <2>3, <3>1, AbroadKinds
  <2>4. CASE m = Cmd /\ SavedIn(codec[k])
    <3>1. Queued(x) /\ IsSaved(k)
      BY <2>1, <2>4, AbroadKinds DEF SavedIn, IsSaved
    <3> QED BY <2>1, <2>4, <3>1 DEF ChainInv, CallInv
  <2> QED BY <2>2, <2>3, <2>4 DEF IsNew
<1>2. CASE n = "out"
  <2>1. y \in Codecs /\ m \in Items(codec[y].out)
    BY <1>2 DEF Has
  <2>2. /\ m # Cmd /\ m.of = y
        /\ FromPool(m) => Routed(codec[y]) /\ m # Control(y)
    BY <2>1, HeldAtOutput
  <2>3. CASE m = Control(k)
    BY <2>2, <2>3, MsgFacts
  <2>4. CASE (\E buf \in Bufs : m = Msg(k, buf)) /\ ~Routed(codec[k])
    <3>1. FromPool(m) /\ m.of = k
      BY <2>4, MsgFacts DEF Pool
    <3> QED BY <2>2, <2>4, <3>1
  <2> QED BY <2>2, <2>3, <2>4 DEF IsNew
<1>3. CASE n = "app"
  <2>1. m \in owned /\ m \in AppMsgs
    BY <1>3 DEF Has, ChainInv, TypeInv
  <2>2. ~FromPool(m)
    BY <2>1, MsgFacts
  <2>3. m = Cmd /\ IsSaved(k)
    BY <2>2, MsgFacts DEF IsNew, Pool, SavedIn, IsSaved
  <2> QED BY <2>1, <2>3 DEF ChainInv, CallInv
<1> QED BY <1>1, <1>2, <1>3 DEF Has

-----------------------------------------------------------------------------
(* A step of component k: it has messages in hand and leaves them at its   *)
(* input, at its output, or sends them.                                    *)

\* It is given all of T that was in its worker's queues, and nothing else goes.
TakesAll(k, T, l, q) ==
    LET w == WorkerOf[k] IN
    /\ \A y \in Items(local[w]) : y \in Items(l) \/ y \in T
    /\ \A y \in Items(queue[w]) : y \in Items(q) \/ y \in T
    /\ \A x \in T : ~InSeq(l, x.msg) /\ ~InSeq(q, x.msg)

\* It sends to the application, back, or down its connection.
Mail(k, d, y) ==
    \/ y.to = App /\ y.msg \in AppMsgs
    \/ /\ FromPool(y.msg) /\ y.msg.of \in Codecs \ {k} /\ IsBack(y) /\ ~Gone(y.to)
       /\ y.len = Invalid => codec[k].mode = "terminating" \/ d.mode = "gone"
       /\ codec[k].mode = "terminating" => y.len = Invalid
       /\ \E z : IsAbroad(z) /\ z.msg = y.msg /\ (IsForth(z) \/ AtInput(z)) /\ RouteOf(y.msg.of) = k
    \/ /\ Of(y, k) /\ Routed(codec[k]) /\ y.to = RouteOf(k) /\ y.to # k /\ y.to \in Codecs /\ y.len # Invalid

\* What is not touched, and where what is sent comes.
Stays(k, l, q, n, x, m) ==
    \/ n = "local" /\ x \in Workers /\ InSeq(IF x = WorkerOf[k] THEN l ELSE local[x], m)
    \/ n = "queue" /\ x \in Workers /\ InSeq(QueueBase(WorkerOf[k], q, x), m)
    \/ n \in {"in", "out"} /\ x # k /\ Has(n, x, m)
    \/ n = "app" /\ Has(n, x, m)
LandsAt(k, y) ==
    IF y.to = App THEN <<"app", App>>
    ELSE IF Gone(y.to) THEN <<"queue", WorkerOf[k]>>
    ELSE IF WorkerOf[y.to] = WorkerOf[k] THEN <<"local", WorkerOf[k]>>
    ELSE <<"queue", WorkerOf[y.to]>>
Lands(k, y, n, x) == LandsAt(k, y)[1] = n /\ LandsAt(k, y)[2] = x

\* Each message sent comes to one place.
LEMMA LandsOnce ==
    ASSUME NEW k, NEW y
    PROVE  /\ \E n, x : Lands(k, y, n, x)
           /\ \A n, x, o, z : Lands(k, y, n, x) /\ Lands(k, y, o, z) => n = o /\ x = z
BY DEF Lands

\* Where the parts of it are found.
LEMMA LandsIs ==
    ASSUME NEW k, NEW y, NEW n, NEW x
    PROVE  Lands(k, y, n, x) <=>
             \/ y.to = App /\ n = "app" /\ x = App
             \/ y.to # App /\ Gone(y.to) /\ n = "queue" /\ x = WorkerOf[k]
             \/ y.to # App /\ ~Gone(y.to) /\ WorkerOf[y.to] = WorkerOf[k] /\ n = "local" /\ x = WorkerOf[k]
             \/ y.to # App /\ ~Gone(y.to) /\ WorkerOf[y.to] # WorkerOf[k] /\ n = "queue" /\ x = WorkerOf[y.to]
BY DEF Lands, LandsAt

\* What is sent turns back at a component that is gone.
LEMMA MailTurns ==
    ASSUME ChainInv, NEW k \in Codecs, ~Gone(k), NEW d, NEW y \in OutType, Mail(k, d, y)
    PROVE  /\ y.to \in Codecs \cup {App} /\ y.msg \in AllMsgs
           /\ y.to \in Codecs /\ Gone(y.to) =>
                /\ Of(y, k) /\ y.to = RouteOf(k)
                /\ Returned(y).msg = y.msg /\ Returned(y).to = k /\ Alive(Returned(y))
<1>1. y.to \in Codecs \cup {App} /\ y.msg \in AllMsgs
  BY ItemFacts
<1>2. ASSUME y.to \in Codecs, Gone(y.to)
      PROVE  /\ Of(y, k) /\ y.to = RouteOf(k)
             /\ Returned(y).msg = y.msg /\ Returned(y).to = k /\ Alive(Returned(y))
  <2>1. Of(y, k) /\ y.to = RouteOf(k)
    BY <1>2, AppAssumption DEF Mail
  <2>2. FromPool(y.msg) /\ y.msg.of = k
    BY <2>1 DEF Of
  <2>3. Returned(y) = Answered(y, Invalid) /\ Invalid \in Lens
    BY <2>2 DEF Returned, Lens
  <2>4. Returned(y).msg = y.msg /\ Returned(y).to = k
    BY <2>2, <2>3, AnswerFacts
  <2> QED BY <2>1, <2>4 DEF Alive
<1> QED BY <1>1, <1>2

\* Where messages are after the step.
LEMMA Landed ==
    ASSUME ChainInv, NEW k \in Codecs, NEW T, NEW l, NEW q, NEW d, NEW out \in Seq(OutType),
           Steps(k, T, l, q, d, out), \A y \in Items(out) : Mail(k, d, y)
    PROVE  /\ codec'[k] = d /\ \A j \in Codecs : j # k => codec'[j] = codec[j]
           /\ \A n, x, m : Has(n, x, m)' <=>
                \/ Stays(k, l, q, n, x, m)
                \/ n = "in" /\ x = k /\ InSeq(d.in, m)
                \/ n = "out" /\ x = k /\ m \in Items(d.out)
                \/ \E y \in Items(out) : y.msg = m /\ Lands(k, y, n, x)
<1> DEFINE w == WorkerOf[k]
<1>1. /\ TypeInv /\ w \in Workers /\ ~Gone(k) /\ Takes(k, T, l, q) /\ Sent(w, l, q, out) /\ Told(out)
      /\ codec' = [codec EXCEPT ![k] = d] /\ l \in Seq(ItemType) /\ q \in Seq(ItemType)
  BY DEF Steps, Takes, ChainInv, Workers
<1>2. codec'[k] = d /\ \A j \in Codecs : j # k => codec'[j] = codec[j]
  BY <1>1 DEF TypeInv
<1>3. /\ \A v \in Workers : v # w => local'[v] = local[v]
      /\ \A y : (y \in Items(local'[w])) <=> (y \in Items(l) \/ Goes(out, w, y))
      /\ \A v \in Workers : \A y : (y \in Items(queue'[v])) <=>
           (y \in Items(QueueBase(w, q, v)) \/ (v # w /\ Goes(out, v, y)) \/ Bounces(out, v, y))
  BY <1>1, SentFacts
<1>4. \A y \in Items(out) : y \in OutType /\ y.to \in Codecs \cup {App}
  <2>1. Items(out) \subseteq OutType
    BY SeqFacts
  <2> QED BY <2>1, ItemFacts
<1>5. \A y : (y \in Items(out) /\ y.to # App /\ ~Gone(y.to)) => Goes(out, WorkerOf[y.to], y)
  BY <1>4 DEF Goes, Alive
<1>6. ASSUME NEW v \in Workers, NEW m
      PROVE  (\E y : Bounces(out, v, y) /\ y.msg = m) <=>
               (v = w /\ \E z \in Items(out) : z.msg = m /\ z.to # App /\ Gone(z.to))
  <2>1. ASSUME NEW y, Bounces(out, v, y), y.msg = m
        PROVE  v = w /\ \E z \in Items(out) : z.msg = m /\ z.to # App /\ Gone(z.to)
    <3>1. PICK z \in Items(out) : z.to \in Codecs /\ Gone(z.to) /\ y = Returned(z) /\ WorkerOf[y.to] = v
      BY <2>1 DEF Bounces, Turns
    <3>2. y.msg = z.msg /\ y.to = k
      BY <1>1, <1>4, <3>1, MailTurns
    <3> QED BY <2>1, <3>1, <3>2, AppAssumption
  <2>2. ASSUME v = w, NEW z \in Items(out), z.msg = m, z.to # App, Gone(z.to)
        PROVE  \E y : Bounces(out, v, y) /\ y.msg = m
    <3>1. z.to \in Codecs /\ Returned(z).msg = m /\ Returned(z).to = k /\ Alive(Returned(z))
      BY <1>1, <1>4, <2>2, MailTurns
    <3>2. Bounces(out, v, Returned(z))
      BY <2>2, <3>1 DEF Bounces, Turns
    <3> QED BY <3>1, <3>2
  <2> QED BY <2>1, <2>2
<1>7. ASSUME NEW n, NEW x, NEW m
      PROVE  Has(n, x, m)' <=>
                \/ Stays(k, l, q, n, x, m)
                \/ n = "in" /\ x = k /\ InSeq(d.in, m)
                \/ n = "out" /\ x = k /\ m \in Items(d.out)
                \/ \E y \in Items(out) : y.msg = m /\ Lands(k, y, n, x)
  <2>1. CASE n = "local"
    <3>1. Has(n, x, m)' <=> (x \in Workers /\ InSeq(local'[x], m))
      BY <2>1 DEF Has
    <3>2. ASSUME x \in Workers, x # w PROVE InSeq(local'[x], m) <=> InSeq(local[x], m)
      BY <1>3, <3>2
    <3>3. InSeq(local'[w], m) <=> (InSeq(l, m) \/ \E y : Goes(out, w, y) /\ y.msg = m)
      BY <1>3 DEF InSeq
    <3>4. (\E y : Goes(out, w, y) /\ y.msg = m) <=>
            (\E y \in Items(out) : y.msg = m /\ y.to # App /\ ~Gone(y.to) /\ WorkerOf[y.to] = w)
      BY <1>5, AppAssumption DEF Goes, Alive
    <3>5. Stays(k, l, q, n, x, m) <=> (x \in Workers /\ InSeq(IF x = w THEN l ELSE local[x], m))
      BY <2>1 DEF Stays
    <3>6. \A y : Lands(k, y, n, x) <=> (y.to # App /\ ~Gone(y.to) /\ WorkerOf[y.to] = w /\ x = w)
      BY <2>1, LandsIs
    <3> QED BY <1>1, <2>1, <3>1, <3>2, <3>3, <3>4, <3>5, <3>6
  <2>2. CASE n = "queue"
    <3>1. Has(n, x, m)' <=> (x \in Workers /\ InSeq(queue'[x], m))
      BY <2>2 DEF Has
    <3>2. ASSUME x \in Workers
          PROVE InSeq(queue'[x], m) <=> (\/ InSeq(QueueBase(w, q, x), m)
                                         \/ x # w /\ \E y : Goes(out, x, y) /\ y.msg = m
                                         \/ \E y : Bounces(out, x, y) /\ y.msg = m)
      BY <1>3, <3>2 DEF InSeq
    <3>3. ASSUME x \in Workers
          PROVE (\E y : Goes(out, x, y) /\ y.msg = m) <=>
            (\E y \in Items(out) : y.msg = m /\ y.to # App /\ ~Gone(y.to) /\ WorkerOf[y.to] = x)
      BY <1>5, AppAssumption DEF Goes, Alive
    <3>4. Stays(k, l, q, n, x, m) <=> (x \in Workers /\ InSeq(QueueBase(w, q, x), m))
      BY <2>2 DEF Stays
    <3>5. \A y : Lands(k, y, n, x) <=>
            \/ y.to # App /\ Gone(y.to) /\ x = w
            \/ y.to # App /\ ~Gone(y.to) /\ WorkerOf[y.to] # w /\ x = WorkerOf[y.to]
      BY <2>2, LandsIs
    <3>6. \A y \in Items(out) : y.to # App => WorkerOf[y.to] \in Workers
      BY <1>4 DEF Workers
    <3>7. ASSUME x \in Workers PROVE Has(n, x, m)' <=>
                \/ Stays(k, l, q, n, x, m)
                \/ \E y \in Items(out) : y.msg = m /\ Lands(k, y, n, x)
      <4>1. (\E y : Bounces(out, x, y) /\ y.msg = m) <=>
               (x = w /\ \E z \in Items(out) : z.msg = m /\ z.to # App /\ Gone(z.to))
        BY <1>6, <3>7
      <4> QED BY <3>1, <3>2, <3>3, <3>4, <3>5, <3>7, <4>1
    <3> QED BY <1>1, <2>2, <3>1, <3>4, <3>5, <3>6, <3>7
  <2>3. CASE n = "in"
    <3>1. Has(n, x, m)' <=> (x \in Codecs /\ InSeq(codec'[x].in, m))
      BY <2>3 DEF Has
    <3>2. Stays(k, l, q, n, x, m) <=> (x \in Codecs /\ x # k /\ InSeq(codec[x].in, m))
      BY <2>3 DEF Stays, Has
    <3>3. \A y : ~Lands(k, y, n, x)
      BY <2>3, LandsIs
    <3> QED BY <1>2, <2>3, <3>1, <3>2, <3>3
  <2>4. CASE n = "out"
    <3>1. Has(n, x, m)' <=> (x \in Codecs /\ m \in Items(codec'[x].out))
      BY <2>4 DEF Has
    <3>2. Stays(k, l, q, n, x, m) <=> (x \in Codecs /\ x # k /\ m \in Items(codec[x].out))
      BY <2>4 DEF Stays, Has
    <3>3. \A y : ~Lands(k, y, n, x)
      BY <2>4, LandsIs
    <3> QED BY <1>2, <2>4, <3>1, <3>2, <3>3
  <2>5. CASE n = "app"
    <3>1. Has(n, x, m)' <=> (x = App /\ m \in owned')
      BY <2>5 DEF Has
    <3>2. Stays(k, l, q, n, x, m) <=> (x = App /\ m \in owned)
      BY <2>5 DEF Stays, Has
    <3>3. \A y : Lands(k, y, n, x) <=> (y.to = App /\ x = App)
      BY <2>5, LandsIs
    <3>4. (m \in owned') <=> (m \in owned \/ \E y \in Items(out) : y.to = App /\ y.msg = m)
      <4> DEFINE back == {out[i] : i \in {j \in DOMAIN out : out[j].to = App}}
      <4>1. \A y : (y \in back) <=> (y \in Items(out) /\ y.to = App)
        BY DEF Items
      <4>2. owned' = owned \cup {y.msg : y \in back}
        BY <1>1 DEF Told
      <4> HIDE DEF back
      <4> QED BY <4>1, <4>2
    <3> QED BY <2>5, <3>1, <3>2, <3>3, <3>4
  <2>6. CASE n \notin {"local", "queue", "in", "out", "app"}
    BY <2>6, LandsIs DEF Has, Stays
  <2> QED BY <2>1, <2>2, <2>3, <2>4, <2>5, <2>6
<1> QED BY <1>2, <1>7

-----------------------------------------------------------------------------
(* What a handler has to do with the messages it has in hand.              *)

\* Those of an input queue, an output queue and what is sent, each once.
Neat(i, u, o) ==
    /\ i \in Seq(ItemType) /\ u \in Seq(AllMsgs) /\ o \in Seq(OutType)
    /\ Single(i) /\ Distinct(u) /\ Single(o)
    /\ \A m : ~(InSeq(i, m) /\ m \in Items(u))
    /\ \A m : ~(InSeq(i, m) /\ InSeq(o, m))
    /\ \A m : ~(m \in Items(u) /\ InSeq(o, m))
Among(i, u, o, m) == InSeq(i, m) \/ m \in Items(u) \/ InSeq(o, m)
InHand(k, T, m) == HasMsg(T, m) \/ Among(codec[k].in, codec[k].out, <<>>, m)

\* It keeps or sends what is not its own, nothing twice, and what is new only if it is
\* nowhere; it answers a command or saves it.
KeepsMessages(k, T, d, out) ==
    /\ Neat(d.in, d.out, out)
    /\ \A m : Among(d.in, d.out, out, m) => InHand(k, T, m) \/ IsNew(k, m)
    /\ \A m : InHand(k, T, m) /\ (m \in AppMsgs \ {Cmd} \/ (FromPool(m) /\ m.of # k)) => Among(d.in, d.out, out, m)
    /\ \A y \in Items(out) : Mail(k, d, y)
    /\ HasMsg(T, Cmd) \/ SavedIn(codec[k]) => ToApp(out, Cmd) \/ SavedIn(d)

\* Its own it has all when it is routed, and keeps while it is; it drops a buffer that was
\* refused for a flush, which ends with the connection.
KeepsPool(k, T, d, out) ==
    LET c == codec[k] IN
    /\ c.mode # "running" => d.mode # "running"
    /\ Routed(d) /\ ~Routed(c) => \A buf \in Bufs : Msg(k, buf) \in Items(d.out)
    /\ Routed(d) /\ Routed(c) => d.route = c.route /\ (Unrouting(c) => Unrouting(d))
    /\ Routed(d) /\ Routed(c) /\ d.mode = "running" =>
         \/ \A buf \in Bufs : InHand(k, T, Msg(k, buf)) => Among(d.in, d.out, out, Msg(k, buf))
         \/ Flushing(d) /\ \E x \in T : Of(x, k) /\ ~IsControl(x) /\ x.len = Invalid
    /\ Routed(d) /\ d.mode = "running" /\ Flushing(c) /\ ~Flushing(d) =>
         \E x \in T : /\ x.msg = Control(k)
                      /\ (x.len # Invalid /\ ~Unrouting(c)) \/ codec[RouteOf(k)].mode # "terminating"
    /\ Flushing(d) => InSeq(out, Control(k)) \/ (Flushing(c) /\ ~HasMsg(T, Control(k)))

Hands(k, T, l, q, d, out) ==
    /\ Steps(k, T, l, q, d, out) /\ TakesAll(k, T, l, q)
    /\ KeepsMessages(k, T, d, out) /\ KeepsPool(k, T, d, out)

\* What it does not touch is not in its hands.
LEMMA StaysAway ==
    ASSUME ChainInv, OnceInv, NEW k \in Codecs, NEW T, NEW l, NEW q, NEW d, NEW out,
           Hands(k, T, l, q, d, out)
    PROVE  \A n, x, m : Stays(k, l, q, n, x, m) => Has(n, x, m) /\ ~InHand(k, T, m) /\ ~Among(d.in, d.out, out, m)
<1> DEFINE w == WorkerOf[k]
<1>1. w \in Workers /\ Takes(k, T, l, q) /\ TakesAll(k, T, l, q) /\ KeepsMessages(k, T, d, out)
  BY DEF Hands, Steps, Workers
<1> SUFFICES ASSUME NEW n, NEW x, NEW m, Stays(k, l, q, n, x, m)
             PROVE  Has(n, x, m) /\ ~InHand(k, T, m) /\ ~Among(d.in, d.out, out, m)
  OBVIOUS
<1>2. Has(n, x, m)
  <2>1. CASE n = "local" /\ x = w
    <3>1. InSeq(l, m)
      BY <2>1 DEF Stays
    <3>2. InSeq(local[w], m)
      BY <1>1, <3>1 DEF Takes, InSeq
    <3> QED BY <1>1, <2>1, <3>2 DEF Has
  <2>2. CASE n = "local" /\ x # w
    BY <2>2 DEF Stays, Has
  <2>3. CASE n = "queue" /\ x = w
    <3>1. InSeq(q, m)
      BY <2>3 DEF Stays, QueueBase
    <3>2. InSeq(queue[w], m)
      BY <1>1, <3>1 DEF Takes, InSeq
    <3> QED BY <1>1, <2>3, <3>2 DEF Has
  <2>4. CASE n = "queue" /\ x # w
    BY <2>4 DEF Stays, Has, QueueBase
  <2>5. CASE n \notin {"local", "queue"}
    BY <2>5 DEF Stays
  <2> QED BY <2>1, <2>2, <2>3, <2>4, <2>5
<1>3. ~HasMsg(T, m)
  <2> SUFFICES ASSUME NEW y \in T, y.msg = m PROVE FALSE
    BY DEF HasMsg
  <2>1. ~InSeq(l, m) /\ ~InSeq(q, m)
    BY <1>1 DEF TakesAll
  <2>2. Has("local", w, m) \/ Has("queue", w, m)
    BY <1>1 DEF Takes, Has, InSeq
  <2>3. x = w /\ n \in {"local", "queue"}
    BY <1>2, <2>2, OnePlace
  <2> QED BY <2>1, <2>3 DEF Stays, QueueBase
<1>4. ~InSeq(codec[k].in, m) /\ m \notin Items(codec[k].out)
  <2>1. ~(n \in {"in", "out"} /\ x = k)
    BY DEF Stays
  <2>2. InSeq(codec[k].in, m) => Has("in", k, m)
    BY DEF Has
  <2>3. m \in Items(codec[k].out) => Has("out", k, m)
    BY DEF Has
  <2> QED BY <1>2, <2>1, <2>2, <2>3, OnePlace
<1>5. ~InHand(k, T, m)
  BY <1>3, <1>4, SingleShort DEF InHand, Among
<1>6. ~IsNew(k, m)
  BY <1>2, NewNowhere DEF Held
<1> QED BY <1>1, <1>2, <1>5, <1>6 DEF KeepsMessages

\* Nothing is in two places after the step.
LEMMA OnceStep ==
    ASSUME ChainInv, OnceInv, NEW k \in Codecs, NEW T, NEW l, NEW q, NEW d, NEW out,
           Hands(k, T, l, q, d, out)
    PROVE  OnceInv'
<1> DEFINE w == WorkerOf[k]
<1>1. /\ w \in Workers /\ ~Gone(k) /\ TypeInv /\ Steps(k, T, l, q, d, out) /\ KeepsMessages(k, T, d, out)
      /\ l \in Seq(ItemType) /\ q \in Seq(ItemType) /\ Sent(w, l, q, out) /\ Takes(k, T, l, q)
  BY DEF Hands, Steps, Takes, Workers, ChainInv
<1>2. Neat(d.in, d.out, out) /\ out \in Seq(OutType) /\ \A y \in Items(out) : Mail(k, d, y)
  BY <1>1 DEF KeepsMessages, Neat
<1>3. \A n, x, m : Stays(k, l, q, n, x, m) => Has(n, x, m) /\ ~Among(d.in, d.out, out, m)
  BY StaysAway
<1>4. /\ codec'[k] = d /\ \A j \in Codecs : j # k => codec'[j] = codec[j]
      /\ \A n, x, m : Has(n, x, m)' <=>
           \/ Stays(k, l, q, n, x, m)
           \/ n = "in" /\ x = k /\ InSeq(d.in, m)
           \/ n = "out" /\ x = k /\ m \in Items(d.out)
           \/ \E y \in Items(out) : y.msg = m /\ Lands(k, y, n, x)
  BY <1>1, <1>2, Landed
<1>5. \A y \in Items(out) : y \in OutType
  BY <1>2, SeqFacts
<1>6. ASSUME NEW v, NEW y, Bounces(out, v, y)
      PROVE  v = w /\ \E z \in Items(out) : z.msg = y.msg /\ y = Returned(z)
  <2>1. PICK z \in Items(out) : z.to \in Codecs /\ Gone(z.to) /\ y = Returned(z) /\ WorkerOf[y.to] = v
    BY <1>6 DEF Bounces, Turns
  <2>2. y.msg = z.msg /\ y.to = k
    BY <1>1, <1>2, <1>5, <2>1, MailTurns
  <2> QED BY <2>1, <2>2
\* What was there and what comes.
<1>7. ASSUME NEW n \in {"local", "queue"}, NEW v, NEW y, NEW z, Stays(k, l, q, n, v, y.msg), InSeq(out, z.msg)
      PROVE  y.msg # z.msg
  BY <1>3, <1>7 DEF Among
<1>8. ASSUME NEW v \in Workers PROVE Single(local'[v])
  <2>1. CASE v # w
    <3>1. local'[v] = local[v]
      BY <1>1, <1>2, <2>1, SentFacts
    <3> QED BY <3>1 DEF OnceInv
  <2>2. CASE v = w
    <3>1. \A y, z : Ahead(local'[w], y, z) =>
                \/ Ahead(l, y, z)
                \/ y \in Items(l) /\ Goes(out, w, z)
                \/ Ahead(out, y, z) /\ Goes(out, w, y) /\ Goes(out, w, z)
      BY <1>1, <1>2, SentFacts
    <3>2. ASSUME NEW y, NEW z, Ahead(l, y, z) PROVE y.msg # z.msg
      <4>1. Ahead(local[w], y, z)
        BY <1>1, <3>2 DEF Takes
      <4> QED BY <1>1, <4>1 DEF OnceInv, Single
    <3>3. ASSUME NEW y, NEW z, y \in Items(l), Goes(out, w, z) PROVE y.msg # z.msg
      <4>1. Stays(k, l, q, "local", w, y.msg)
        BY <1>1, <3>3 DEF Stays, InSeq
      <4>2. InSeq(out, z.msg)
        BY <3>3 DEF Goes, InSeq
      <4> QED BY <1>7, <4>1, <4>2
    <3>4. \A y, z : Ahead(out, y, z) => y.msg # z.msg
      BY <1>2 DEF Neat, Single
    <3> QED BY <2>2, <3>1, <3>2, <3>3, <3>4 DEF Single
  <2> QED BY <2>1, <2>2
<1>9. ASSUME NEW v \in Workers PROVE Single(queue'[v])
  <2>1. \A y, z : Ahead(queue'[v], y, z) =>
                \/ Ahead(QueueBase(w, q, v), y, z)
                \/ y \in Items(QueueBase(w, q, v)) /\ ((v # w /\ Goes(out, v, z)) \/ Bounces(out, v, z))
                \/ v # w /\ Ahead(out, y, z) /\ Goes(out, v, y) /\ Goes(out, v, z)
                \/ v # w /\ Goes(out, v, y) /\ Bounces(out, v, z)
                \/ \E a, b : Ahead(out, a, b) /\ Turns(a, v, y) /\ Turns(b, v, z)
    BY <1>1, <1>2, SentFacts
  <2>2. ASSUME NEW y, NEW z, Ahead(QueueBase(w, q, v), y, z) PROVE y.msg # z.msg
    <3>1. Ahead(queue[v], y, z)
      BY <1>1, <2>2 DEF Takes, QueueBase
    <3> QED BY <3>1 DEF OnceInv, Single
  <2>3. ASSUME NEW y, NEW z, y \in Items(QueueBase(w, q, v)), Goes(out, v, z) \/ Bounces(out, v, z)
        PROVE  y.msg # z.msg
    <3>1. Stays(k, l, q, "queue", v, y.msg)
      BY <2>3 DEF Stays, InSeq
    <3>2. InSeq(out, z.msg)
      BY <1>6, <2>3 DEF Goes, InSeq
    <3> QED BY <1>7, <3>1, <3>2
  <2>4. \A y, z : Ahead(out, y, z) => y.msg # z.msg
    BY <1>2 DEF Neat, Single
  <2>5. \A y, z : ~(v # w /\ Goes(out, v, y) /\ Bounces(out, v, z))
    BY <1>6
  <2>6. ASSUME NEW y, NEW z, NEW a, NEW b, Ahead(out, a, b), Turns(a, v, y), Turns(b, v, z) PROVE y.msg # z.msg
    <3>1. a \in Items(out) /\ b \in Items(out)
      BY <2>6 DEF Ahead, Items
    <3>2. y.msg = a.msg /\ z.msg = b.msg
      BY <1>1, <1>2, <1>5, <2>6, <3>1, MailTurns DEF Turns
    <3> QED BY <2>4, <2>6, <3>2
  <2> QED BY <2>1, <2>2, <2>3, <2>4, <2>5, <2>6 DEF Single
<1>10. ASSUME NEW j \in Codecs PROVE Single(codec'[j].in) /\ Distinct(codec'[j].out)
  <2>1. CASE j = k
    BY <1>2, <1>4, <2>1 DEF Neat
  <2>2. CASE j # k
    BY <1>4, <2>2 DEF OnceInv
  <2> QED BY <2>1, <2>2
<1>11. ASSUME NEW m, NEW n, NEW o, NEW x, NEW y, Has(n, x, m)', Has(o, y, m)' PROVE n = o /\ x = y
  <2>1. ASSUME NEW y1 \in Items(out), NEW y2 \in Items(out), y1.msg = y2.msg PROVE y1 = y2
    BY <1>2, <2>1, SinglePlace DEF Neat
  <2>2. \/ Stays(k, l, q, n, x, m)
        \/ n = "in" /\ x = k /\ InSeq(d.in, m)
        \/ n = "out" /\ x = k /\ m \in Items(d.out)
        \/ \E z \in Items(out) : z.msg = m /\ Lands(k, z, n, x)
    BY <1>4, <1>11
  <2>3. \/ Stays(k, l, q, o, y, m)
        \/ o = "in" /\ y = k /\ InSeq(d.in, m)
        \/ o = "out" /\ y = k /\ m \in Items(d.out)
        \/ \E z \in Items(out) : z.msg = m /\ Lands(k, z, o, y)
    BY <1>4, <1>11
  <2>4. CASE Stays(k, l, q, n, x, m) \/ Stays(k, l, q, o, y, m)
    <3>1. ~Among(d.in, d.out, out, m)
      BY <1>3, <2>4
    <3>2. ~InSeq(d.in, m) /\ m \notin Items(d.out) /\ \A z \in Items(out) : z.msg # m
      BY <3>1 DEF Among, InSeq
    <3>3. Stays(k, l, q, n, x, m) /\ Stays(k, l, q, o, y, m)
      BY <2>2, <2>3, <3>2
    <3>4. Has(n, x, m) /\ Has(o, y, m)
      BY <1>3, <3>3
    <3> QED BY <3>4, OnePlace
  <2>5. CASE (\E z \in Items(out) : z.msg = m /\ Lands(k, z, n, x)) /\ \E z \in Items(out) : z.msg = m /\ Lands(k, z, o, y)
    <3>1. PICK z1 \in Items(out) : z1.msg = m /\ Lands(k, z1, n, x)
      BY <2>5
    <3>2. PICK z2 \in Items(out) : z2.msg = m /\ Lands(k, z2, o, y)
      BY <2>5
    <3>3. z1 = z2
      BY <2>1, <3>1, <3>2
    <3> QED BY <3>1, <3>2, <3>3, LandsOnce
  <2>6. (\E z \in Items(out) : z.msg = m /\ Lands(k, z, n, x)) => InSeq(out, m)
    BY DEF InSeq
  <2>7. (\E z \in Items(out) : z.msg = m /\ Lands(k, z, o, y)) => InSeq(out, m)
    BY DEF InSeq
  <2>8. ~(InSeq(d.in, m) /\ m \in Items(d.out)) /\ ~(InSeq(d.in, m) /\ InSeq(out, m)) /\ ~(m \in Items(d.out) /\ InSeq(out, m))
    BY <1>2 DEF Neat
  <2> QED BY <2>2, <2>3, <2>4, <2>5, <2>6, <2>7, <2>8
<1>12. \A m, n, o, x, y : Has(n, x, m)' /\ Has(o, y, m)' => n = o /\ x = y
  BY <1>11
<1> QED BY <1>8, <1>9, <1>10, <1>12 DEF OnceInv

\* What is not in hand, or kept, is somewhere after the step.
LEMMA KeptThen ==
    ASSUME ChainInv, NEW k \in Codecs, NEW T, NEW l, NEW q, NEW d, NEW out,
           Hands(k, T, l, q, d, out)
    PROVE  /\ \A m : Held(m) /\ (InHand(k, T, m) => Among(d.in, d.out, out, m)) => Held(m)'
           /\ \A m : Among(d.in, d.out, out, m) => Held(m)'
<1> DEFINE w == WorkerOf[k]
<1>1. /\ w \in Workers /\ Steps(k, T, l, q, d, out) /\ KeepsMessages(k, T, d, out) /\ TakesAll(k, T, l, q)
  BY DEF Hands, Workers
<1>2. out \in Seq(OutType) /\ \A y \in Items(out) : Mail(k, d, y)
  BY <1>1 DEF KeepsMessages, Neat
<1>3. \A n, x, m : Has(n, x, m)' <=>
           \/ Stays(k, l, q, n, x, m)
           \/ n = "in" /\ x = k /\ InSeq(d.in, m)
           \/ n = "out" /\ x = k /\ m \in Items(d.out)
           \/ \E y \in Items(out) : y.msg = m /\ Lands(k, y, n, x)
  BY <1>1, <1>2, Landed
<1>4. ASSUME NEW m, Among(d.in, d.out, out, m) PROVE Held(m)'
  <2>1. CASE InSeq(d.in, m)
    BY <1>3, <2>1 DEF Held
  <2>2. CASE m \in Items(d.out)
    BY <1>3, <2>2 DEF Held
  <2>3. CASE InSeq(out, m)
    <3>1. PICK y \in Items(out) : y.msg = m
      BY <2>3 DEF InSeq
    <3>2. PICK n, x : Lands(k, y, n, x)
      BY LandsOnce
    <3>3. Has(n, x, m)'
      BY <1>3, <3>1, <3>2
    <3> QED BY <3>3 DEF Held
  <2> QED BY <1>4, <2>1, <2>2, <2>3 DEF Among
<1>5. ASSUME NEW m, Held(m), InHand(k, T, m) => Among(d.in, d.out, out, m) PROVE Held(m)'
  <2>1. PICK n, x : Has(n, x, m)
    BY <1>5 DEF Held
  <2>2. CASE Stays(k, l, q, n, x, m)
    BY <1>3, <2>2 DEF Held
  <2>3. CASE ~Stays(k, l, q, n, x, m)
    <3>1. CASE n = "local"
      <4>1. x = w /\ InSeq(local[w], m) /\ ~InSeq(l, m)
        BY <1>1, <2>1, <2>3, <3>1 DEF Has, Stays
      <4>2. HasMsg(T, m)
        BY <1>1, <4>1 DEF TakesAll, InSeq, HasMsg
      <4> QED BY <1>4, <1>5, <4>2 DEF InHand
    <3>2. CASE n = "queue"
      <4>1. x = w /\ InSeq(queue[w], m) /\ ~InSeq(q, m)
        BY <1>1, <2>1, <2>3, <3>2 DEF Has, Stays, QueueBase
      <4>2. HasMsg(T, m)
        BY <1>1, <4>1 DEF TakesAll, InSeq, HasMsg
      <4> QED BY <1>4, <1>5, <4>2 DEF InHand
    <3>3. CASE n \in {"in", "out"}
      <4>1. x = k /\ (InSeq(codec[k].in, m) \/ m \in Items(codec[k].out))
        BY <2>1, <2>3, <3>3 DEF Has, Stays
      <4> QED BY <1>4, <1>5, <4>1 DEF InHand, Among
    <3>4. CASE n = "app"
      BY <2>1, <2>3, <3>4 DEF Stays
    <3> QED BY <2>1, <3>1, <3>2, <3>3, <3>4 DEF Has
  <2> QED BY <2>2, <2>3
<1> QED BY <1>4, <1>5

\* What is abroad after the step: what was, what it sends, what it holds, and what came
\* back because the component below is gone.
LEMMA AbroadThen ==
    ASSUME ChainInv, ChainInv', NEW k \in Codecs, NEW T, NEW l, NEW q, NEW d, NEW out,
           Hands(k, T, l, q, d, out), NEW x, IsAbroad(x)'
    PROVE  \/ IsAbroad(x)
           \/ x \in Items(out) /\ x.to # App
           \/ x.to = k /\ x \in Items(d.in) /\ ForthKind(x) /\ (FromPool(x.msg) => x.msg.of # k)
           \/ x.to = k /\ x \in Items(d.in) /\ ~FromPool(x.msg)
           \/ Of(x, k) /\ Gone(RouteOf(k)) /\ RouteOf(k) \in Codecs /\ Routed(codec[k])
<1> DEFINE w == WorkerOf[k]
<1>1. /\ w \in Workers /\ Steps(k, T, l, q, d, out) /\ KeepsMessages(k, T, d, out) /\ Takes(k, T, l, q)
      /\ l \in Seq(ItemType) /\ q \in Seq(ItemType) /\ Sent(w, l, q, out) /\ TypeInv /\ ~Gone(k)
  BY DEF Hands, Steps, Takes, Workers, ChainInv
<1>2. out \in Seq(OutType) /\ \A y \in Items(out) : Mail(k, d, y) /\ y \in OutType
  BY <1>1, SeqFacts DEF KeepsMessages, Neat
<1>3. codec'[k] = d /\ \A j \in Codecs : j # k => codec'[j] = codec[j]
  BY <1>1, <1>2, Landed
<1>4. ASSUME NEW v \in Workers, x \in Items(local'[v]) PROVE IsAbroad(x) \/ (x \in Items(out) /\ x.to # App)
  <2>1. CASE v = w
    <3>1. x \in Items(l) \/ Goes(out, w, x)
      BY <1>1, <1>2, <1>4, <2>1, SentFacts
    <3>2. x \in Items(l) => x \in Items(local[w])
      BY <1>1 DEF Takes
    <3> QED BY <1>1, <3>1, <3>2, AppAssumption DEF IsAbroad, InTransit, Goes, Alive
  <2>2. CASE v # w
    <3>1. local'[v] = local[v]
      BY <1>1, <1>2, <2>2, SentFacts
    <3> QED BY <1>4, <3>1 DEF IsAbroad, InTransit
  <2> QED BY <2>1, <2>2
<1>5. ASSUME NEW v \in Workers, x \in Items(queue'[v])
      PROVE  \/ IsAbroad(x)
             \/ x \in Items(out) /\ x.to # App
             \/ Of(x, k) /\ Gone(RouteOf(k)) /\ RouteOf(k) \in Codecs /\ Routed(codec[k])
  <2>1. x \in Items(QueueBase(w, q, v)) \/ (v # w /\ Goes(out, v, x)) \/ Bounces(out, v, x)
    BY <1>1, <1>2, <1>5, SentFacts
  <2>2. CASE x \in Items(QueueBase(w, q, v))
    <3>1. x \in Items(queue[v])
      BY <1>1, <2>2 DEF QueueBase, Takes
    <3> QED BY <3>1 DEF IsAbroad, InTransit
  <2>3. CASE Goes(out, v, x)
    BY <2>3, AppAssumption DEF Goes, Alive
  <2>4. CASE Bounces(out, v, x)
    <3>1. PICK z \in Items(out) : z.to \in Codecs /\ Gone(z.to) /\ x = Returned(z)
      BY <2>4 DEF Bounces, Turns
    <3>2. Of(z, k) /\ z.to = RouteOf(k) /\ x.msg = z.msg /\ Mail(k, d, z)
      BY <1>1, <1>2, <3>1, MailTurns
    <3>3. Routed(codec[k])
      BY <3>1, <3>2, AppAssumption DEF Mail, Of
    <3> QED BY <3>1, <3>2, <3>3 DEF Of
  <2> QED BY <2>1, <2>2, <2>3, <2>4
<1>6. ASSUME NEW j \in Codecs, j # k, x \in Items(codec'[j].in) PROVE IsAbroad(x)
  BY <1>3, <1>6 DEF IsAbroad, AtInput
<1>7. ASSUME x \in Items(codec'[k].in)
      PROVE  /\ x.to = k /\ x \in Items(d.in)
             /\ FromPool(x.msg) => ForthKind(x) /\ x.msg.of # k
  <2>1. InputPlace(k, x)'
    BY <1>7 DEF ChainInv, PoolInv, PlaceInv
  <2>2. IsAbroad(x)'
    OBVIOUS
  <2>3. ASSUME FromPool(x.msg) PROVE x.msg.of # k /\ ForthKind(x)
    <3>1. RouteOf(x.msg.of)' = k /\ Routed(codec'[x.msg.of]) /\ ForthKind(x)
      BY <2>1, <2>3 DEF InputPlace, Routed, ForthKind, IsControl
    <3>2. x.msg \in AllMsgs
      <4>1. codec'[k].in \in Seq(ItemType)
        BY DEF ChainInv, TypeInv, CodecType
      <4>2. x \in ItemType
        BY <1>7, <4>1, SeqFacts
      <4> QED BY <4>2 DEF ItemType
    <3>3. x.msg.of \in Codecs
      BY <2>3, <3>2, MsgFacts
    <3> DEFINE e == <<x.msg.of, k>>
    <3>4. e \in Edges
      BY <3>1, <3>3 DEF ChainInv, PoolInv, RouteInv
    <3>5. e[1] # e[2]
      BY <3>4, EdgeFacts
    <3> QED BY <3>1, <3>5
  <2>4. x.to = k
    BY <2>1 DEF InputPlace
  <2> QED BY <1>3, <1>7, <2>3, <2>4
<1>8. IsAbroad(x)' <=> \/ \E v \in Workers : x \in Items(local'[v]) \/ x \in Items(queue'[v])
                       \/ \E j \in Codecs : x \in Items(codec'[j].in)
  BY DEF IsAbroad, InTransit, AtInput, Workers
<1> QED BY <1>4, <1>5, <1>6, <1>7, <1>8

\* While a buffer is on its way down or at an input, the flow-control message is not on its
\* way back.
LEMMA ControlAhead ==
    ASSUME ChainInv, NEW j \in Codecs, NEW z, Of(z, j), IsForth(z) \/ AtInput(z)
    PROVE  EndsRoute(j)
<1> SUFFICES ASSUME NEW x, IsAbroad(x), x.msg = Control(j), IsBack(x) PROVE FALSE
  BY DEF EndsRoute
<1>1. IsControl(x) /\ x.msg.of = j /\ FromPool(x.msg)
  BY MsgFacts DEF IsControl
<1>2. CASE AtInput(x)
  <2>1. PICK h \in Codecs : x \in Items(codec[h].in)
    BY <1>2 DEF AtInput
  <2>2. x.to = h /\ Routed(codec[j]) /\ RouteOf(j) = h
    BY <1>1, <2>1 DEF ChainInv, PoolInv, PlaceInv, InputPlace
  <2> DEFINE e == <<j, h>>
  <2>3. e \in Edges
    BY <2>2 DEF ChainInv, PoolInv, RouteInv
  <2>4. e[1] # e[2]
    BY <2>3, EdgeFacts
  <2> QED BY <1>1, <2>2, <2>4 DEF IsBack
<1>3. CASE InTransit(x)
  BY <1>1, <1>3 DEF ChainInv, PoolInv, NoneBehind, InTransit
<1> QED BY <1>2, <1>3 DEF IsAbroad

\* A connection that ends goes on to.
LEMMA EndsThen ==
    ASSUME ChainInv, ChainInv', NEW k \in Codecs, NEW T, NEW l, NEW q, NEW d, NEW out,
           Hands(k, T, l, q, d, out), NEW j \in Codecs, EndsRoute(j),
           j # k /\ RouteOf(j) = k => codec[k].mode = "terminating",
           j = k => ~Gone(RouteOf(k)) /\ (Unrouting(codec[k]) => Unrouting(d))
    PROVE  EndsRoute(j)'
<1>1. Steps(k, T, l, q, d, out) /\ out \in Seq(OutType) /\ \A y \in Items(out) : Mail(k, d, y)
  BY DEF Hands, KeepsMessages, Neat
<1>2. codec'[k] = d /\ \A h \in Codecs : h # k => codec'[h] = codec[h]
  BY <1>1, Landed
<1> SUFFICES ASSUME NEW x, IsAbroad(x)', x.msg = Control(j)
             PROVE  ~IsBack(x) \/ x.len = Invalid \/ Unrouting(codec'[j])
  BY DEF EndsRoute, IsBack
<1>3. FromPool(x.msg) /\ x.msg.of = j /\ Of(x, j)
  BY MsgFacts DEF Of
<1>4. CASE IsAbroad(x)
  <2>1. ~IsBack(x) \/ x.len = Invalid \/ Unrouting(codec[j])
    BY <1>4 DEF EndsRoute
  <2> QED BY <1>2, <2>1
<1>5. CASE x \in Items(out) /\ x.to # App
  <2>1. CASE j = k
    BY <1>1, <1>3, <1>5, <2>1 DEF Mail, IsBack, Of
  <2>2. CASE j # k
    BY <1>1, <1>3, <1>5, <2>2 DEF Mail, Of
  <2> QED BY <2>1, <2>2
<1>6. CASE x.to = k /\ x.msg.of # k
  BY <1>3, <1>6 DEF IsBack
<1>7. CASE Of(x, k) /\ Gone(RouteOf(k))
  BY <1>3, <1>7 DEF Of
<1> QED BY <1>3, <1>4, <1>5, <1>6, <1>7, AbroadThen

\* A buffer that is refused was, or is by this component, or there is nobody below.
LEMMA RefusedThen ==
    ASSUME ChainInv, ChainInv', NEW k \in Codecs, NEW T, NEW l, NEW q, NEW d, NEW out,
           Hands(k, T, l, q, d, out), NEW j \in Codecs, IsRefused(j)'
    PROVE  \/ IsRefused(j)
           \/ /\ j # k /\ RouteOf(j) = k /\ (codec[k].mode = "terminating" \/ d.mode = "gone")
              /\ EndsRoute(j)
           \/ j = k /\ Gone(RouteOf(k)) /\ Routed(codec[k])
<1>1. \A y \in Items(out) : Mail(k, d, y)
  BY DEF Hands, KeepsMessages
<1>2. PICK y : IsAbroad(y)' /\ Of(y, j) /\ ~IsControl(y) /\ y.len = Invalid
  BY DEF IsRefused, Of, IsControl
<1>3. FromPool(y.msg) /\ y.msg.of = j
  BY <1>2 DEF Of
<1>4. CASE IsAbroad(y)
  BY <1>2, <1>4 DEF IsRefused
<1>5. CASE y \in Items(out) /\ y.to # App
  <2>1. ~(Of(y, k) /\ y.len # Invalid)
    BY <1>2
  <2>2. /\ j # k /\ (codec[k].mode = "terminating" \/ d.mode = "gone") /\ RouteOf(j) = k
        /\ \E z : IsAbroad(z) /\ z.msg = y.msg /\ (IsForth(z) \/ AtInput(z))
    BY <1>1, <1>2, <1>3, <1>5 DEF Mail
  <2>3. PICK z : IsAbroad(z) /\ z.msg = y.msg /\ (IsForth(z) \/ AtInput(z))
    BY <2>2
  <2>4. Of(z, j)
    BY <1>3, <2>3 DEF Of
  <2> QED BY <2>2, <2>3, <2>4, ControlAhead
<1>6. ~ForthKind(y)
  BY <1>2 DEF ForthKind, Invalid
<1>7. CASE Of(y, k) /\ Gone(RouteOf(k)) /\ Routed(codec[k])
  BY <1>3, <1>7 DEF Of
<1> QED BY <1>2, <1>3, <1>4, <1>5, <1>6, <1>7, AbroadThen

\* What is somewhere after the step.
LEMMA HeldStep ==
    ASSUME ChainInv, ChainInv', HeldInv, NEW k \in Codecs, NEW T, NEW l, NEW q, NEW d, NEW out,
           Hands(k, T, l, q, d, out)
    PROVE  HeldInv'
<1> DEFINE c == codec[k]
           w == WorkerOf[k]
<1>1. /\ Steps(k, T, l, q, d, out) /\ KeepsMessages(k, T, d, out) /\ KeepsPool(k, T, d, out)
      /\ Takes(k, T, l, q) /\ TakesAll(k, T, l, q) /\ Told(out) /\ ~Gone(k) /\ TypeInv /\ PoolInv /\ w \in Workers
      /\ Sent(w, l, q, out) /\ l \in Seq(ItemType) /\ q \in Seq(ItemType)
  BY DEF Hands, Steps, Takes, ChainInv, Workers
<1>2. out \in Seq(OutType) /\ \A y \in Items(out) : Mail(k, d, y)
  BY <1>1 DEF KeepsMessages, Neat
<1>3. codec'[k] = d /\ \A j \in Codecs : j # k => codec'[j] = codec[j]
  BY <1>1, <1>2, Landed
<1>4. \A m : Held(m) /\ (InHand(k, T, m) => Among(d.in, d.out, out, m)) => Held(m)'
  BY KeptThen
<1>5. \A m : Among(d.in, d.out, out, m) => Held(m)'
  BY KeptThen
\* Messages of the application.
<1>6. \A m \in AppMsgs \ {Cmd} : Held(m)'
  BY <1>1, <1>4 DEF HeldInv, KeepsMessages
\* The command.
<1>7. /\ \A m : (m \in owned') <=> (m \in owned \/ ToApp(out, m))
      /\ call' = IF ToApp(out, Cmd) THEN None ELSE call
  <2> DEFINE back == {out[i] : i \in {j \in DOMAIN out : out[j].to = App}}
  <2>1. \A y : (y \in back) <=> (y \in Items(out) /\ y.to = App)
    BY DEF Items
  <2>2. /\ owned' = owned \cup {y.msg : y \in back}
        /\ call' = IF \E y \in back : y.msg = Cmd THEN None ELSE call
    BY <1>1 DEF Told
  <2> HIDE DEF back
  <2>3. \A m : ToApp(out, m) <=> \E y \in back : y.msg = m
    BY <2>1 DEF ToApp
  <2> QED BY <2>2, <2>3
<1>8. call' = None => Cmd \in owned'
  BY <1>7 DEF HeldInv
<1>9. call' # None => (\E x : Queued(x)' /\ x.msg = Cmd) \/ \E j \in Codecs : IsSaved(j)'
  <2> SUFFICES ASSUME call' # None PROVE (\E x : Queued(x)' /\ x.msg = Cmd) \/ \E j \in Codecs : IsSaved(j)'
    OBVIOUS
  <2>1. call # None /\ ~ToApp(out, Cmd)
    BY <1>7
  <2>2. SavedIn(d) => IsSaved(k)'
    BY <1>3 DEF SavedIn, IsSaved, Unrouting
  <2>3. CASE \E j \in Codecs : IsSaved(j)
    <3>1. PICK j \in Codecs : IsSaved(j)
      BY <2>3
    <3>2. CASE j = k
      <4>1. SavedIn(c)
        BY <3>1, <3>2 DEF SavedIn, IsSaved
      <4> QED BY <1>1, <2>1, <2>2, <4>1 DEF KeepsMessages
    <3>3. CASE j # k
      BY <1>3, <3>1, <3>3 DEF IsSaved, Unrouting
    <3> QED BY <3>2, <3>3
  <2>4. CASE \E x : Queued(x) /\ x.msg = Cmd
    <3>1. PICK x : Queued(x) /\ x.msg = Cmd
      BY <2>4
    <3>2. PICK v \in Workers : x \in Items(queue[v])
      BY <3>1 DEF Queued
    <3>3. CASE v = w /\ x \in T
      BY <1>1, <2>1, <2>2, <3>1, <3>3 DEF KeepsMessages, HasMsg
    <3>4. CASE ~(v = w /\ x \in T)
      <4>1. x \in Items(QueueBase(w, q, v))
        BY <1>1, <3>2, <3>4 DEF TakesAll, QueueBase
      <4>2. x \in Items(queue'[v])
        BY <1>1, <1>2, <4>1, SentFacts
      <4>3. Queued(x)' <=> \E u \in Workers : x \in Items(queue'[u])
        BY DEF Queued, Workers
      <4> QED BY <3>1, <4>2, <4>3
    <3> QED BY <3>3, <3>4
  <2> QED BY <2>1, <2>3, <2>4 DEF HeldInv
\* The messages of a connection to or above another component.
<1>10. ASSUME NEW j \in Codecs, j # k, NEW m, FromPool(m), m.of = j, Held(m) PROVE Held(m)'
  BY <1>1, <1>4, <1>10 DEF KeepsMessages
<1>11. \A j \in Codecs : FromPool(Control(j)) /\ Control(j).of = j
                         /\ \A buf \in Bufs : FromPool(Msg(j, buf)) /\ Msg(j, buf).of = j
  BY MsgFacts DEF Pool
<1>12. ASSUME NEW j \in Codecs, Whole(j), j # k PROVE Whole(j)'
  BY <1>10, <1>11, <1>12 DEF Whole
<1>13. RouteInv /\ \A j \in Codecs : Routed(codec[j]) => RouteOf(j) # j /\ RouteOf(j) \in Codecs /\ ~Gone(j)
  <2>1. RouteInv
    BY <1>1 DEF PoolInv
  <2>2. ASSUME NEW j \in Codecs, Routed(codec[j]) PROVE RouteOf(j) # j /\ RouteOf(j) \in Codecs /\ ~Gone(j)
    <3>1. ~Gone(j)
      BY <2>1, <2>2 DEF RouteInv
    <3> QED BY <2>2, <3>1, Mine
  <2> QED BY <2>1, <2>2
<1>14. ASSUME NEW j \in Codecs, Flushing(codec'[j]) PROVE Held(Control(j))'
  <2>1. CASE j # k
    <3>1. Held(Control(j))
      BY <1>3, <1>14, <2>1 DEF HeldInv
    <3> QED BY <1>10, <1>11, <2>1, <3>1
  <2>2. CASE j = k /\ InSeq(out, Control(k))
    BY <1>5, <2>2 DEF Among
  <2>3. CASE j = k /\ Flushing(c) /\ ~HasMsg(T, Control(k))
    <3>1. Held(Control(k))
      BY <2>3 DEF HeldInv
    <3>2. ~InSeq(c.in, Control(k))
      <4> SUFFICES ASSUME NEW x \in Items(c.in), x.msg = Control(k) PROVE FALSE
        BY DEF InSeq
      <4>1. Routed(codec[k]) /\ RouteOf(k) = k
        BY <1>1, <1>11 DEF PoolInv, PlaceInv, InputPlace
      <4> QED BY <1>13, <4>1
    <3>3. Control(k) \notin Items(c.out)
      BY <1>11, HeldAtOutput
    <3>4. ~InHand(k, T, Control(k))
      BY <2>3, <3>2, <3>3, SingleShort DEF InHand, Among
    <3> QED BY <1>4, <2>3, <3>1, <3>4
  <2> QED BY <1>1, <1>3, <1>14, <2>1, <2>2, <2>3 DEF KeepsPool
<1>15. ASSUME NEW j \in Codecs, Connects(j)', ~Gone(RouteOf(j))' PROVE Whole(j)' \/ IsCut(j)'
  <2>1. CASE j # k
    <3>1. /\ codec'[j] = codec[j] /\ RouteOf(j)' = RouteOf(j) /\ Connects(j) /\ RouteOf(j) \in Codecs /\ RouteOf(j) # j
      <4>1. codec'[j] = codec[j]
        BY <1>3, <2>1
      <4>2. Connects(j) /\ RouteOf(j)' = RouteOf(j)
        BY <1>15, <4>1 DEF Connects, Routed, RouteOf
      <4> QED BY <1>13, <4>1, <4>2 DEF Connects
    <3>2. codec'[RouteOf(j)].mode # "gone" /\ ~Gone(RouteOf(j))
      BY <1>1, <1>3, <1>15, <3>1 DEF Gone
    <3>3. Whole(j) \/ IsCut(j)
      BY <3>1, <3>2 DEF HeldInv
    <3>4. CASE IsCut(j)
      <4>1. codec[RouteOf(j)].mode = "terminating" /\ EndsRoute(j) /\ Flushing(codec[j])
        BY <3>4 DEF IsCut
      <4>2. EndsRoute(j)'
        BY <2>1, <4>1, EndsThen
      <4>3. codec'[RouteOf(j)].mode = "terminating"
        <5>1. CASE RouteOf(j) = k
          <6>1. d.mode # "running" /\ d.mode # "gone"
            BY <1>1, <1>3, <3>2, <4>1, <5>1 DEF KeepsPool
          <6>2. d \in CodecType(k)
            BY <1>3 DEF ChainInv, TypeInv, CodecType
          <6> QED BY <1>3, <5>1, <6>1, <6>2 DEF CodecType
        <5>2. CASE RouteOf(j) # k
          BY <1>3, <3>1, <4>1, <5>2
        <5> QED BY <5>1, <5>2
      <4> QED BY <3>1, <4>1, <4>2, <4>3 DEF IsCut, Flushing
    <3> QED BY <1>12, <2>1, <3>3, <3>4
  <2>2. CASE j = k
    <3>1. Routed(d) /\ d.mode = "running" /\ c.mode = "running"
      <4>1. Routed(d) /\ d.mode = "running"
        BY <1>3, <1>15, <2>2 DEF Connects, Routed
      <4> QED BY <1>1, <4>1 DEF KeepsPool
    <3>2. CASE ~Routed(c)
      BY <1>1, <1>5, <2>2, <3>1, <3>2 DEF KeepsPool, Whole, Among
    <3>3. CASE Routed(c)
      <4>1. RouteOf(k)' = RouteOf(k) /\ (Unrouting(c) => Unrouting(d))
        BY <1>1, <1>3, <3>1, <3>3 DEF KeepsPool, RouteOf
      <4>2. codec'[RouteOf(k)] = codec[RouteOf(k)] /\ RouteOf(k) \in Codecs
        BY <1>3, <1>13, <3>3
      <4>3. ~Gone(RouteOf(k)) /\ Connects(k)
        BY <1>15, <2>2, <3>1, <3>3, <4>1, <4>2 DEF Gone, Connects
      <4>4. EndsRoute(k) => EndsRoute(k)'
        BY <4>1, <4>3, EndsThen
      <4>5. CASE Flushing(d) /\ codec[RouteOf(k)].mode = "terminating" /\ EndsRoute(k)
        BY <1>3, <2>2, <4>1, <4>2, <4>4, <4>5 DEF IsCut, Flushing
      <4>6. CASE IsCut(k) /\ ~Flushing(d)
        <5>1. PICK x \in T : /\ x.msg = Control(k)
                             /\ (x.len # Invalid /\ ~Unrouting(c)) \/ codec[RouteOf(k)].mode # "terminating"
          BY <1>1, <3>1, <4>6 DEF KeepsPool, IsCut
        <5>2. IsAbroad(x) /\ x.to = k
          BY <1>1, TakenFacts
        <5> QED BY <1>11, <4>6, <5>1, <5>2 DEF IsCut, EndsRoute, IsBack
      <4>7. CASE Whole(k)
        <5>1. CASE \A buf \in Bufs : InHand(k, T, Msg(k, buf)) => Among(d.in, d.out, out, Msg(k, buf))
          BY <1>4, <2>2, <4>7, <5>1 DEF Whole
        <5>2. CASE Flushing(d) /\ \E x \in T : Of(x, k) /\ ~IsControl(x) /\ x.len = Invalid
          <6>1. PICK x \in T : Of(x, k) /\ ~IsControl(x) /\ x.len = Invalid
            BY <5>2
          <6>2. IsAbroad(x) /\ BackKind(x)
            BY <1>1, <6>1, TakenFacts
          <6>3. codec[RouteOf(k)].mode # "running"
            BY <6>1, <6>2 DEF BackKind, Of
          <6>4. codec[RouteOf(k)].mode = "terminating"
            <7>1. codec[RouteOf(k)] \in CodecType(RouteOf(k))
              BY <1>1, <4>2 DEF TypeInv
            <7> QED BY <4>3, <6>3, <7>1 DEF CodecType, Gone
          <6>5. EndsRoute(k)
            BY <4>3, <6>1, <6>2, <6>4 DEF HeldInv, IsRefused
          <6> QED BY <4>5, <5>2, <6>4, <6>5
        <5> QED BY <1>1, <3>1, <3>3, <5>1, <5>2 DEF KeepsPool
      <4> QED BY <4>3, <4>5, <4>6, <4>7 DEF HeldInv, IsCut
    <3> QED BY <3>2, <3>3
  <2> QED BY <2>1, <2>2
<1>16. ASSUME NEW j \in Codecs, Connects(j)', codec'[RouteOf(j)'].mode = "terminating", IsRefused(j)'
       PROVE  EndsRoute(j)'
  <2>1. CASE j # k
    <3>1. codec'[j] = codec[j] /\ RouteOf(j)' = RouteOf(j) /\ Connects(j)
      BY <1>3, <1>16, <2>1 DEF Connects, RouteOf, Routed
    <3>2. RouteOf(j) \in Codecs
      BY <1>13, <3>1 DEF Connects
    <3>3. CASE RouteOf(j) # k
      <4>1. codec[RouteOf(j)].mode = "terminating" /\ IsRefused(j)
        BY <1>3, <1>16, <2>1, <3>1, <3>2, <3>3, RefusedThen
      <4>2. EndsRoute(j)
        BY <3>1, <4>1 DEF HeldInv
      <4> QED BY <2>1, <3>3, <4>2, EndsThen
    <3>4. CASE RouteOf(j) = k
      <4>1. d.mode = "terminating"
        BY <1>3, <1>16, <3>1, <3>4
      <4>2. IsRefused(j) => c.mode = "terminating"
        <5> SUFFICES ASSUME NEW y, IsAbroad(y), Of(y, j), ~IsControl(y), y.len = Invalid
                     PROVE  c.mode = "terminating"
          BY DEF IsRefused
        <5>1. c.mode # "running"
          <6>1. CASE InTransit(y)
            <7>1. LocalPlace(WorkerOf[y.to], y) \/ QueuePlace(WorkerOf[y.to], y)
              BY <1>1, <6>1 DEF InTransit, PoolInv, PlaceInv, LocalPlace, QueuePlace
            <7>2. ~ForthKind(y)
              BY DEF ForthKind, Invalid
            <7>3. BackKind(y)
              BY <7>1, <7>2 DEF LocalPlace, QueuePlace, Of
            <7> QED BY <3>4, <7>3 DEF BackKind, Of
          <6>2. CASE AtInput(y)
            <7>1. ForthKind(y)
              BY <1>1, <6>2 DEF AtInput, PoolInv, PlaceInv, InputPlace, Of
            <7> QED BY <7>1 DEF ForthKind, Invalid
          <6> QED BY <6>1, <6>2 DEF IsAbroad
        <5> QED BY <1>1, <5>1, Mine
      <4>3. c.mode = "terminating" /\ (IsRefused(j) \/ EndsRoute(j))
        BY <1>16, <2>1, <4>1, <4>2, RefusedThen
      <4>4. EndsRoute(j)
        BY <3>1, <3>4, <4>3 DEF HeldInv
      <4> QED BY <2>1, <4>3, <4>4, EndsThen
    <3> QED BY <3>3, <3>4
  <2>2. CASE j = k
    <3>1. Routed(d) /\ d.mode = "running" /\ c.mode = "running"
      <4>1. Routed(d) /\ d.mode = "running"
        BY <1>3, <1>16, <2>2 DEF Connects, Routed
      <4> QED BY <1>1, <4>1 DEF KeepsPool
    <3>2. CASE Routed(c)
      <4>1. RouteOf(k)' = RouteOf(k) /\ (Unrouting(c) => Unrouting(d))
        BY <1>1, <1>3, <3>1, <3>2 DEF KeepsPool, RouteOf
      <4>2. codec[RouteOf(k)].mode = "terminating"
        BY <1>3, <1>13, <1>16, <2>2, <3>2, <4>1
      <4>3. IsRefused(k)
        BY <1>16, <2>2, <4>2, RefusedThen DEF Gone
      <4>4. EndsRoute(k) /\ ~Gone(RouteOf(k))
        BY <3>1, <3>2, <4>2, <4>3 DEF HeldInv, Connects, Gone
      <4> QED BY <2>2, <4>1, <4>4, EndsThen
    <3>3. CASE ~Routed(c)
      <4>1. IsRefused(k)
        BY <1>16, <2>2, <3>3, RefusedThen
      <4>2. PICK y : IsAbroad(y) /\ Of(y, k)
        BY <4>1 DEF IsRefused
      <4> QED BY <3>3, <4>2, AbroadKinds DEF Of
    <3> QED BY <3>2, <3>3
  <2> QED BY <2>1, <2>2
<1> QED BY <1>6, <1>8, <1>9, <1>14, <1>15, <1>16 DEF HeldInv

\* Both at once.
LEMMA HandStep ==
    ASSUME ChainInv, ChainInv', OnceInv, HeldInv, NEW k \in Codecs, NEW T, NEW l, NEW q, NEW d, NEW out,
           Hands(k, T, l, q, d, out)
    PROVE  OnceInv' /\ HeldInv'
BY OnceStep, HeldStep

-----------------------------------------------------------------------------
(* Messages are moved.                                                     *)

\* One is taken at the input, put to the output, or sent.
LEMMA NeatOne ==
    ASSUME NEW i, NEW u, NEW o, Neat(i, u, o)
    PROVE  /\ \A z \in ItemType : ~Among(i, u, o, z.msg) =>
                /\ Neat(Append(i, z), u, o)
                /\ \A m : Among(Append(i, z), u, o, m) <=> (Among(i, u, o, m) \/ m = z.msg)
           /\ \A z \in AllMsgs : ~Among(i, u, o, z) =>
                /\ Neat(i, Append(u, z), o)
                /\ \A m : Among(i, Append(u, z), o, m) <=> (Among(i, u, o, m) \/ m = z)
           /\ \A y \in OutType : ~Among(i, u, o, y.msg) =>
                /\ Neat(i, u, o \o <<y>>)
                /\ \A m : Among(i, u, o \o <<y>>, m) <=> (Among(i, u, o, m) \/ m = y.msg)
<1>1. ASSUME NEW z \in ItemType, ~Among(i, u, o, z.msg)
      PROVE  /\ Neat(Append(i, z), u, o)
             /\ \A m : Among(Append(i, z), u, o, m) <=> (Among(i, u, o, m) \/ m = z.msg)
  <2> DEFINE r == Append(i, z)
  <2>1. /\ \A m : InSeq(r, m) <=> (InSeq(i, m) \/ m = z.msg)
        /\ Single(i) /\ ~InSeq(i, z.msg) => Single(r)
    BY SingleAppended DEF Neat
  <2>2. r \in Seq(ItemType)
    BY DEF Neat
  <2> HIDE DEF r
  <2>3. ~InSeq(i, z.msg) /\ z.msg \notin Items(u) /\ ~InSeq(o, z.msg)
    BY <1>1 DEF Among
  <2>4. Neat(r, u, o)
    BY <2>1, <2>2, <2>3 DEF Neat
  <2>5. \A m : Among(r, u, o, m) <=> (Among(i, u, o, m) \/ m = z.msg)
    BY <2>1 DEF Among
  <2> QED BY <2>4, <2>5 DEF r
<1>2. ASSUME NEW z \in AllMsgs, ~Among(i, u, o, z)
      PROVE  /\ Neat(i, Append(u, z), o)
             /\ \A m : Among(i, Append(u, z), o, m) <=> (Among(i, u, o, m) \/ m = z)
  <2> DEFINE r == Append(u, z)
  <2>1. Distinct(u) /\ z \notin Items(u) => Distinct(r)
    BY SingleAppended DEF Neat
  <2>2. r \in Seq(AllMsgs) /\ Items(r) = Items(u) \cup {z}
    BY Appended DEF Neat
  <2> HIDE DEF r
  <2>3. ~InSeq(i, z) /\ z \notin Items(u) /\ ~InSeq(o, z)
    BY <1>2 DEF Among
  <2>4. Neat(i, r, o)
    BY <2>1, <2>2, <2>3 DEF Neat
  <2>5. \A m : Among(i, r, o, m) <=> (Among(i, u, o, m) \/ m = z)
    BY <2>2 DEF Among
  <2> QED BY <2>4, <2>5 DEF r
<1>3. ASSUME NEW y \in OutType, ~Among(i, u, o, y.msg)
      PROVE  /\ Neat(i, u, o \o <<y>>)
             /\ \A m : Among(i, u, o \o <<y>>, m) <=> (Among(i, u, o, m) \/ m = y.msg)
  <2> DEFINE r == Append(o, y)
  <2>1. /\ \A m : InSeq(r, m) <=> (InSeq(o, m) \/ m = y.msg)
        /\ Single(o) /\ ~InSeq(o, y.msg) => Single(r)
    BY SingleAppended DEF Neat
  <2>2. r \in Seq(OutType) /\ o \o <<y>> = r
    BY DEF Neat
  <2> HIDE DEF r
  <2>3. ~InSeq(i, y.msg) /\ y.msg \notin Items(u) /\ ~InSeq(o, y.msg)
    BY <1>3 DEF Among
  <2>4. Neat(i, u, r)
    BY <2>1, <2>2, <2>3 DEF Neat
  <2>5. \A m : Among(i, u, r, m) <=> (Among(i, u, o, m) \/ m = y.msg)
    BY <2>1 DEF Among
  <2> QED BY <2>2, <2>4, <2>5
<1> QED BY <1>1, <1>2, <1>3

\* The first n at the input are sent.
LEMMA NeatAnswers ==
    ASSUME NEW i, NEW u, NEW o, Neat(i, u, o), NEW n \in 0..Len(i), NEW p \in Seq(OutType),
           DOMAIN p = 1..n, \A j \in 1..n : p[j].msg = i[j].msg
    PROVE  LET r == SubSeq(i, n + 1, Len(i)) IN
           Neat(r, u, o \o p) /\ \A m : Among(r, u, o \o p, m) <=> Among(i, u, o, m)
<1> DEFINE r == SubSeq(i, n + 1, Len(i))
<1>1. i \in Seq(ItemType) /\ o \in Seq(OutType) /\ Single(i) /\ Single(o)
  BY DEF Neat
<1>2. DOMAIN i = 1..Len(i) /\ Len(i) \in Nat
  BY <1>1, SeqFacts
<1>3. /\ r \in Seq(ItemType) /\ Items(r) \subseteq Items(i)
      /\ \A x, y : Ahead(r, x, y) => Ahead(i, x, y)
      /\ \A j \in DOMAIN i : j > n => i[j] \in Items(r)
      /\ \A j \in 1..n : j \in DOMAIN i
      /\ \A j \in 1..n, y \in Items(r) : Ahead(i, i[j], y)
  BY <1>1, Divided
<1> HIDE DEF r
<1>4. \A m : InSeq(p, m) <=> \E j \in 1..n : i[j].msg = m
  BY DEF InSeq, Items
<1>5. \A m : InSeq(i, m) <=> (InSeq(r, m) \/ InSeq(p, m))
  <2>1. ASSUME NEW m, NEW j \in DOMAIN i, i[j].msg = m PROVE InSeq(r, m) \/ InSeq(p, m)
    <3>1. CASE j > n
      BY <1>3, <2>1, <3>1 DEF InSeq
    <3>2. CASE ~(j > n)
      <4>1. j \in 1..n
        BY <1>2, <3>2
      <4> QED BY <1>4, <2>1, <4>1
    <3> QED BY <3>1, <3>2
  <2>2. ASSUME NEW m, InSeq(r, m) \/ InSeq(p, m) PROVE InSeq(i, m)
    BY <1>3, <1>4, <2>2 DEF InSeq, Items
  <2>3. \A m : InSeq(i, m) => InSeq(r, m) \/ InSeq(p, m)
    BY <2>1 DEF InSeq, Items
  <2> QED BY <2>2, <2>3
<1>6. \A m : ~(InSeq(r, m) /\ InSeq(p, m))
  <2> SUFFICES ASSUME NEW y \in Items(r), NEW j \in 1..n, i[j].msg = y.msg PROVE FALSE
    BY <1>4 DEF InSeq
  <2> QED BY <1>1, <1>3 DEF Single
<1>7. Single(r)
  BY <1>1, <1>3 DEF Single
<1>8. Single(p)
  <2> SUFFICES ASSUME NEW a \in 1..n, NEW b \in 1..n, a < b PROVE p[a].msg # p[b].msg
    BY DEF Single, Ahead
  <2>1. Ahead(i, i[a], i[b])
    BY <1>3 DEF Ahead
  <2> QED BY <1>1, <2>1 DEF Single
<1>9. /\ o \o p \in Seq(OutType)
      /\ \A m : InSeq(o \o p, m) <=> (InSeq(o, m) \/ InSeq(p, m))
      /\ Single(o) /\ Single(p) /\ (\A m : ~(InSeq(o, m) /\ InSeq(p, m))) => Single(o \o p)
  BY <1>1, SingleJoined
<1>10. \A m : InSeq(p, m) => InSeq(i, m)
  BY <1>5
<1>11. \A m : ~(InSeq(o, m) /\ InSeq(p, m)) /\ ~(m \in Items(u) /\ InSeq(p, m))
  BY <1>10 DEF Neat
<1>12. Single(o \o p)
  BY <1>1, <1>8, <1>9, <1>11
<1>13. Neat(r, u, o \o p)
  BY <1>3, <1>5, <1>6, <1>7, <1>9, <1>11, <1>12 DEF Neat
<1>14. \A m : Among(r, u, o \o p, m) <=> Among(i, u, o, m)
  BY <1>5, <1>9 DEF Among
<1> QED BY <1>13, <1>14 DEF r

\* All at the input are sent.
LEMMA NeatPurged ==
    ASSUME NEW i, NEW u, NEW o, Neat(i, u, o), NEW p \in Seq(OutType),
           DOMAIN p = DOMAIN i, \A j \in DOMAIN i : p[j].msg = i[j].msg
    PROVE  Neat(<<>>, u, o \o p) /\ \A m : Among(<<>>, u, o \o p, m) <=> Among(i, u, o, m)
<1> DEFINE n == Len(i)
           r == SubSeq(i, n + 1, n)
<1>1. i \in Seq(ItemType)
  BY DEF Neat
<1>2. n \in Nat /\ DOMAIN i = 1..n /\ n \in 0..n
  BY <1>1, SeqFacts
<1>3. r = <<>>
  BY <1>1, <1>2, Divided
<1> HIDE DEF r
<1>4. r = SubSeq(i, n + 1, Len(i))
  BY DEF r
<1>5. Neat(r, u, o \o p) /\ \A m : Among(r, u, o \o p, m) <=> Among(i, u, o, m)
  BY <1>2, <1>4, NeatAnswers
<1> QED BY <1>3, <1>5

\* The head of the output, or all of it, is sent; or it is dropped.
LEMMA NeatOutput ==
    ASSUME NEW i, NEW u, NEW o, Neat(i, u, o)
    PROVE  /\ \A y \in OutType : u # <<>> /\ y.msg = Head(u) =>
                /\ Neat(i, Tail(u), o \o <<y>>)
                /\ \A m : Among(i, Tail(u), o \o <<y>>, m) <=> Among(i, u, o, m)
           /\ \A p \in Seq(OutType) : DOMAIN p = DOMAIN u /\ (\A j \in DOMAIN u : p[j].msg = u[j]) =>
                /\ Neat(i, <<>>, o \o p)
                /\ \A m : Among(i, <<>>, o \o p, m) <=> Among(i, u, o, m)
           /\ Neat(i, <<>>, o)
           /\ \A m : Among(i, u, o, m) <=> (Among(i, <<>>, o, m) \/ m \in Items(u))
<1>1. u \in Seq(AllMsgs) /\ o \in Seq(OutType) /\ Distinct(u) /\ Single(o)
  BY DEF Neat
<1>2. Neat(i, <<>>, o) /\ \A m : Among(i, u, o, m) <=> (Among(i, <<>>, o, m) \/ m \in Items(u))
  BY EmptyItems, SingleShort DEF Neat, Among
<1>3. ASSUME NEW y \in OutType, u # <<>>, y.msg = Head(u)
      PROVE  /\ Neat(i, Tail(u), o \o <<y>>)
             /\ \A m : Among(i, Tail(u), o \o <<y>>, m) <=> Among(i, u, o, m)
  <2> DEFINE t == Tail(u)
             h == Head(u)
  <2>1. t \in Seq(AllMsgs) /\ Items(u) = {h} \cup Items(t) /\ Distinct(t) /\ h \notin Items(t)
    BY <1>1, <1>3, Rest, SingleRest
  <2> HIDE DEF t, h
  <2>2. Neat(i, t, o) /\ \A m : Among(i, u, o, m) <=> (Among(i, t, o, m) \/ m = h)
    BY <2>1 DEF Neat, Among
  <2>3. ~Among(i, t, o, h)
    BY <2>1 DEF Neat, Among
  <2>4. y.msg = h
    BY <1>3 DEF h
  <2>5. /\ Neat(i, t, o \o <<y>>)
        /\ \A m : Among(i, t, o \o <<y>>, m) <=> (Among(i, t, o, m) \/ m = y.msg)
    BY <2>2, <2>3, <2>4, NeatOne
  <2> QED BY <2>2, <2>4, <2>5 DEF t
<1>4. ASSUME NEW p \in Seq(OutType), DOMAIN p = DOMAIN u, \A j \in DOMAIN u : p[j].msg = u[j]
      PROVE  /\ Neat(i, <<>>, o \o p)
             /\ \A m : Among(i, <<>>, o \o p, m) <=> Among(i, u, o, m)
  <2>1. \A m : InSeq(p, m) <=> m \in Items(u)
    BY <1>4 DEF InSeq, Items
  <2>2. Single(p)
    <3> SUFFICES ASSUME NEW a \in DOMAIN u, NEW b \in DOMAIN u, a < b PROVE p[a].msg # p[b].msg
      BY <1>4 DEF Single, Ahead
    <3>1. Ahead(u, u[a], u[b])
      BY DEF Ahead
    <3> QED BY <1>1, <1>4, <3>1 DEF Distinct
  <2>3. /\ o \o p \in Seq(OutType)
        /\ \A m : InSeq(o \o p, m) <=> (InSeq(o, m) \/ InSeq(p, m))
        /\ Single(o) /\ Single(p) /\ (\A m : ~(InSeq(o, m) /\ InSeq(p, m))) => Single(o \o p)
    BY <1>1, SingleJoined
  <2>4. Single(o \o p)
    BY <1>1, <2>1, <2>2, <2>3 DEF Neat
  <2>5. Neat(i, <<>>, o \o p)
    BY <2>1, <2>3, <2>4, EmptyItems, SingleShort DEF Neat
  <2>6. \A m : Among(i, <<>>, o \o p, m) <=> Among(i, u, o, m)
    BY <2>1, <2>3, EmptyItems DEF Among
  <2> QED BY <2>5, <2>6
<1> QED BY <1>2, <1>3, <1>4

-----------------------------------------------------------------------------
(* What is given, and where a handler starts.                              *)

\* What a component holds it holds once.
LEMMA HeldNeatly ==
    ASSUME ChainInv, OnceInv, NEW k \in Codecs, ~Gone(k)
    PROVE  Neat(codec[k].in, codec[k].out, <<>>)
<1> DEFINE c == codec[k]
<1>1. c.in \in Seq(ItemType) /\ c.out \in Seq(AllMsgs)
  BY Mine
<1>2. <<>> \in Seq(OutType)
  OBVIOUS
<1>3. Single(c.in) /\ Distinct(c.out) /\ \A m : ~(InSeq(c.in, m) /\ m \in Items(c.out))
  <2>1. \A m : (InSeq(c.in, m) => Has("in", k, m)) /\ (m \in Items(c.out) => Has("out", k, m))
    BY DEF Has
  <2>2. \A m : ~(Has("in", k, m) /\ Has("out", k, m))
    <3>1. "in" # "out"
      OBVIOUS
    <3> QED BY <3>1, OnePlace
  <2> QED BY <2>1, <2>2 DEF OnceInv
<1> QED BY <1>1, <1>2, <1>3, SingleShort DEF Neat

\* A message that is served is all that goes.
LEMMA ServedAll ==
    ASSUME ChainInv, OnceInv, NEW k \in Codecs, NEW x, Serves(k, x)
    PROVE  /\ TakesAll(k, {x}, LocalLeft(WorkerOf[k]), QueueLeft(WorkerOf[k]))
           /\ Neat(codec[k].in, codec[k].out, <<>>) /\ ~Among(codec[k].in, codec[k].out, <<>>, x.msg)
           /\ x \in OutType /\ ~Gone(k)
           /\ \A m : InHand(k, {x}, m) <=> (Among(codec[k].in, codec[k].out, <<>>, m) \/ m = x.msg)
<1> DEFINE w == WorkerOf[k]
           l == LocalLeft(w)
           q == QueueLeft(w)
           s == local[w]
           t == queue[w]
           c == codec[k]
<1>1. w \in Workers /\ s \in Seq(ItemType) /\ t \in Seq(ItemType) /\ Single(s) /\ Single(t)
  BY DEF ChainInv, TypeInv, Workers, OnceInv
<1>2. x \in NextItem(w) /\ x.to = k /\ ~Gone(k) /\ x \in OutType
  BY ServedKinds, ItemFacts DEF Serves
<1>3. /\ TakesAll(k, {x}, l, q)
      /\ Has("local", w, x.msg) \/ Has("queue", w, x.msg)
  <2>1. CASE s # <<>>
    <3>1. x = Head(s) /\ l = Tail(s) /\ q = t
      BY <1>2, <2>1 DEF NextItem, LocalLeft, QueueLeft
    <3> HIDE DEF l, q, s, t
    <3>2. Items(s) = {x} \cup Items(l) /\ ~InSeq(l, x.msg)
      BY <1>1, <2>1, <3>1, Rest, SingleRest
    <3>3. Has("local", w, x.msg)
      BY <1>1, <3>2 DEF Has, InSeq, s
    <3>4. InSeq(q, x.msg) => Has("queue", w, x.msg)
      BY <1>1, <3>1 DEF Has, t
    <3>5. ~InSeq(q, x.msg)
      BY <3>3, <3>4, OnePlace
    <3> QED BY <3>1, <3>2, <3>3, <3>5 DEF TakesAll, s, t
  <2>2. CASE s = <<>>
    <3>1. x = Head(t) /\ l = <<>> /\ q = Tail(t) /\ t # <<>>
      BY <1>2, <2>2 DEF NextItem, LocalLeft, QueueLeft
    <3> HIDE DEF l, q, s, t
    <3>2. Items(t) = {x} \cup Items(q) /\ ~InSeq(q, x.msg)
      BY <1>1, <3>1, Rest, SingleRest
    <3>3. Has("queue", w, x.msg)
      BY <1>1, <3>2 DEF Has, InSeq, t
    <3>4. Items(s) = {} /\ ~InSeq(l, x.msg)
      BY <2>2, <3>1, EmptyItems, SingleShort
    <3> QED BY <3>1, <3>2, <3>3, <3>4 DEF TakesAll, s, t
  <2> QED BY <2>1, <2>2
<1>4. Neat(c.in, c.out, <<>>)
  BY <1>2, HeldNeatly
<1>5. ~Among(c.in, c.out, <<>>, x.msg)
  <2>1. \A m : (InSeq(c.in, m) => Has("in", k, m)) /\ (m \in Items(c.out) => Has("out", k, m))
    BY DEF Has
  <2>2. ~Has("in", k, x.msg) /\ ~Has("out", k, x.msg)
    <3>1. "in" \notin {"local", "queue"} /\ "out" \notin {"local", "queue"}
      OBVIOUS
    <3> QED BY <1>3, <3>1, OnePlace
  <2> QED BY <2>1, <2>2, SingleShort DEF Among
<1>6. \A m : InHand(k, {x}, m) <=> (Among(c.in, c.out, <<>>, m) \/ m = x.msg)
  BY DEF InHand, HasMsg
<1> QED BY <1>2, <1>3, <1>4, <1>5, <1>6

\* A component that runs is given nothing.
LEMMA RunsAll ==
    ASSUME ChainInv, OnceInv, NEW k \in Codecs, ~Gone(k), local[WorkerOf[k]] = <<>>
    PROVE  /\ TakesAll(k, {}, <<>>, queue[WorkerOf[k]])
           /\ Neat(codec[k].in, codec[k].out, <<>>)
           /\ \A m : InHand(k, {}, m) <=> Among(codec[k].in, codec[k].out, <<>>, m)
<1> DEFINE c == codec[k]
<1>1. TakesAll(k, {}, <<>>, queue[WorkerOf[k]])
  BY EmptyItems DEF TakesAll
<1>4. Neat(c.in, c.out, <<>>)
  BY HeldNeatly
<1>5. \A m : InHand(k, {}, m) <=> Among(c.in, c.out, <<>>, m)
  BY DEF InHand, HasMsg
<1> QED BY <1>1, <1>4, <1>5

\* A running component sends to the application, back, or down its connection.
LEMMA MailFrom ==
    ASSUME ChainInv, NEW k \in Codecs, codec[k].mode = "running", NEW T, NEW l, NEW q, Takes(k, T, l, q),
           NEW d, NEW out \in Seq(OutType), \A y \in Items(out) : Down(k, T, d, y)
    PROVE  \A y \in Items(out) : Mail(k, d, y)
<1>1. TypeInv /\ PoolInv
  BY DEF ChainInv
<1> SUFFICES ASSUME NEW y \in Items(out) PROVE Mail(k, d, y)
  OBVIOUS
<1>2. y \in OutType
  BY SeqFacts
<1>3. CASE AppReply(k, y)
  BY <1>3 DEF AppReply, Mail
<1>4. CASE Reply(k, T, y)
  <2>1. IsAnswer(k, T, d, y) /\ FromPool(y.msg) /\ IsBack(y) /\ y.len # Invalid
    BY <1>4 DEF Reply, IsAnswer
  <2>2. /\ y.msg.of \in Codecs /\ y.msg.of # k /\ y.to = y.msg.of
        /\ RouteOf(y.msg.of) = k /\ ~Gone(y.msg.of)
        /\ \E z \in ItemType :
             /\ z.msg = y.msg /\ IsAbroad(z) /\ z.to = k
             /\ (z \in T /\ IsForth(z)) \/ z \in Items(codec[k].in)
    BY <1>1, <2>1, AnswerFor
  <2>3. \E z : IsAbroad(z) /\ z.msg = y.msg /\ (IsForth(z) \/ AtInput(z))
    BY <2>2 DEF AtInput
  <2> QED BY <2>1, <2>2, <2>3 DEF Mail
<1>5. CASE IsSent(k, d, y)
  <2>1. y.to \in Codecs /\ y.to # k /\ y.to = RouteOf(k)
    BY <1>1, <1>2, <1>5, SentFor
  <2>2. Of(y, k) /\ Routed(codec[k]) /\ y.len # Invalid
    BY <1>5 DEF IsSent, ForthKind, Invalid
  <2> QED BY <2>1, <2>2 DEF Mail
<1> QED BY <1>3, <1>4, <1>5 DEF Down

\* A handler that keeps its connection, what it has in hand, and may start a flush.
LEMMA HandsOn ==
    ASSUME ChainInv, NEW k \in Codecs, NEW T, NEW l, NEW q, NEW d, NEW out,
           Steps(k, T, l, q, d, out), TakesAll(k, T, l, q), codec[k].mode = "running",
           Neat(d.in, d.out, out), \A y \in Items(out) : Down(k, T, d, y),
           \A m : Among(d.in, d.out, out, m) => InHand(k, T, m) \/ IsNew(k, m),
           \A m : InHand(k, T, m) /\ m # Cmd => Among(d.in, d.out, out, m),
           HasMsg(T, Cmd) => ToApp(out, Cmd) \/ SavedIn(d),
           Routed(d) <=> Routed(codec[k]), d.route = codec[k].route, Unrouting(codec[k]) => Unrouting(d),
           Flushing(codec[k]) => Flushing(d),
           Flushing(d) => InSeq(out, Control(k)) \/ (Flushing(codec[k]) /\ ~HasMsg(T, Control(k)))
    PROVE  Hands(k, T, l, q, d, out)
<1>1. Takes(k, T, l, q) /\ out \in Seq(OutType)
  BY DEF Steps, Neat
<1>2. \A y \in Items(out) : Mail(k, d, y)
  BY <1>1, MailFrom
<1>3. SavedIn(codec[k]) => SavedIn(d)
  BY DEF SavedIn
<1>4. \A m : FromPool(m) => m # Cmd
  BY AppMsgFacts
<1>5. KeepsMessages(k, T, d, out)
  BY <1>2, <1>3, <1>4 DEF KeepsMessages
<1>6. \A buf \in Bufs : Msg(k, buf) # Cmd
  BY <1>4, MsgFacts DEF Pool
<1>7. KeepsPool(k, T, d, out)
  BY <1>6 DEF KeepsPool
<1> QED BY <1>5, <1>7 DEF Hands

\* One that sends no message of its own.
LEMMA HandsBack ==
    ASSUME ChainInv, NEW k \in Codecs, NEW T, NEW l, NEW q, NEW d, NEW out,
           Steps(k, T, l, q, d, out), TakesAll(k, T, l, q), codec[k].mode = "running",
           Neat(d.in, d.out, out), \A y \in Items(out) : Down(k, T, d, y),
           \A m : Among(d.in, d.out, out, m) <=> InHand(k, T, m),
           HasMsg(T, Cmd) => ToApp(out, Cmd),
           d.route = codec[k].route, d.oflags \ {"paused", "idle"} = codec[k].oflags \ {"paused", "idle"},
           Flushing(codec[k]) => ~HasMsg(T, Control(k))
    PROVE  Hands(k, T, l, q, d, out)
<1>1. \A what : what \notin {"paused", "idle"} => (what \in d.oflags <=> what \in codec[k].oflags)
  OBVIOUS
<1>2. /\ (Routed(d) <=> Routed(codec[k])) /\ (Unrouting(d) <=> Unrouting(codec[k]))
      /\ (Flushing(d) <=> Flushing(codec[k]))
  BY <1>1 DEF Routed, Unrouting, Flushing
<1> QED BY <1>2, HandsOn


-----------------------------------------------------------------------------
(* The handlers, again: what they do with what they have in hand.          *)

Handed(k) == \E T, l, q, d, out : Hands(k, T, l, q, d, out)

\* A handler that sends no message of its own.
LEMMA ServedBack ==
    ASSUME ChainInv, OnceInv, NEW k \in Codecs, NEW x, Serves(k, x), codec[k].mode = "running",
           NEW d, NEW out, Becomes(k, d, out), Neat(d.in, d.out, out), Plain(k, {x}, out),
           \A m : Among(d.in, d.out, out, m) <=> (Among(codec[k].in, codec[k].out, <<>>, m) \/ m = x.msg),
           x.msg = Cmd => ToApp(out, Cmd), x.msg # Control(k),
           d.route = codec[k].route, d.oflags \ {"paused", "idle"} = codec[k].oflags \ {"paused", "idle"}
    PROVE  Handed(k)
<1> DEFINE T == {x}
           l == LocalLeft(WorkerOf[k])
           q == QueueLeft(WorkerOf[k])
<1>1. Steps(k, T, l, q, d, out)
  BY ServesSteps
<1>2. TakesAll(k, T, l, q) /\ \A m : InHand(k, T, m) <=> (Among(codec[k].in, codec[k].out, <<>>, m) \/ m = x.msg)
  BY ServedAll
<1>3. (HasMsg(T, Cmd) => ToApp(out, Cmd)) /\ ~HasMsg(T, Control(k))
  BY DEF HasMsg
<1>4. \A y \in Items(out) : Down(k, T, d, y)
  BY DEF Plain, Down
<1>5. \A m : Among(d.in, d.out, out, m) <=> InHand(k, T, m)
  BY <1>2
<1> HIDE DEF T, l, q
<1>6. Hands(k, T, l, q, d, out)
  BY <1>1, <1>2, <1>3, <1>4, <1>5, HandsBack
<1> QED BY <1>6 DEF Handed

\* What is given is answered, or kept at the input, or at the output.
LEMMA GivenNeatly ==
    ASSUME ChainInv, OnceInv, NEW k \in Codecs, NEW x, Serves(k, x)
    PROVE  LET i == codec[k].in
               u == codec[k].out IN
           /\ \A y \in OutType : y.msg = x.msg =>
                /\ Neat(i, u, <<y>>)
                /\ \A m : Among(i, u, <<y>>, m) <=> (Among(i, u, <<>>, m) \/ m = x.msg)
           /\ Neat(Append(i, x), u, <<>>)
           /\ \A m : Among(Append(i, x), u, <<>>, m) <=> (Among(i, u, <<>>, m) \/ m = x.msg)
           /\ Neat(i, Append(u, x.msg), <<>>)
           /\ \A m : Among(i, Append(u, x.msg), <<>>, m) <=> (Among(i, u, <<>>, m) \/ m = x.msg)
<1> DEFINE i == codec[k].in
           u == codec[k].out
           o == <<>>
<1>1. Neat(i, u, o) /\ ~Among(i, u, o, x.msg) /\ x \in ItemType /\ x.msg \in AllMsgs
  BY ServedAll, ServedKinds, ItemFacts
<1>2. ASSUME NEW y \in OutType PROVE o \o <<y>> = <<y>>
  OBVIOUS
<1> HIDE DEF i, u, o
<1>3. /\ \A z \in ItemType : ~Among(i, u, o, z.msg) =>
                /\ Neat(Append(i, z), u, o)
                /\ \A m : Among(Append(i, z), u, o, m) <=> (Among(i, u, o, m) \/ m = z.msg)
      /\ \A z \in AllMsgs : ~Among(i, u, o, z) =>
                /\ Neat(i, Append(u, z), o)
                /\ \A m : Among(i, Append(u, z), o, m) <=> (Among(i, u, o, m) \/ m = z)
      /\ \A y \in OutType : ~Among(i, u, o, y.msg) =>
                /\ Neat(i, u, o \o <<y>>)
                /\ \A m : Among(i, u, o \o <<y>>, m) <=> (Among(i, u, o, m) \/ m = y.msg)
  BY <1>1, NeatOne
<1>4. \A y \in OutType : y.msg = x.msg =>
                /\ Neat(i, u, <<y>>)
                /\ \A m : Among(i, u, <<y>>, m) <=> (Among(i, u, o, m) \/ m = x.msg)
  BY <1>1, <1>2, <1>3
<1>5. /\ Neat(Append(i, x), u, o)
      /\ \A m : Among(Append(i, x), u, o, m) <=> (Among(i, u, o, m) \/ m = x.msg)
  BY <1>1, <1>3
<1>6. /\ Neat(i, Append(u, x.msg), o)
      /\ \A m : Among(i, Append(u, x.msg), o, m) <=> (Among(i, u, o, m) \/ m = x.msg)
  BY <1>1, <1>3
<1> QED BY <1>4, <1>5, <1>6 DEF i, u, o

\* xa_codec_empty_this_buffer
LEMMA EmptyHands == ASSUME ChainInv, OnceInv, NEW k \in Codecs, EmptyThisBuffer(k) PROVE Handed(k)
<1> DEFINE c == codec[k]
<1>1. PICK x \in Gets(k, "empty") :
        LET eos == x.len = 0
            put == [c EXCEPT !.in = Append(@, x),
                             !.iflags = IF eos THEN Toggled(@, {"enabled", "eos"}) ELSE @]
            live == IF "completed" \in c.state THEN Restarted(put) ELSE put
            first == IF OutReady(live) THEN Scheduled(live) ELSE live
        IN IF "enabled" \notin c.iflags THEN Becomes(k, c, <<Answered(x, 0)>>)
              ELSE Becomes(k, IF c.in = <<>> THEN first ELSE put, <<>>)
  BY DEF EmptyThisBuffer
<1>2. Serves(k, x) /\ c.mode = "running" /\ x.op = "empty" /\ ~Gone(k)
  BY GetsServes DEF Serves
<1>3. /\ c \in CodecType(k) /\ c.in \in Seq(ItemType) /\ c.iflags \in SUBSET Flags.in
  BY <1>2, Mine
<1>4. ~Of(x, k) /\ x \in ItemType
  BY <1>2, ServedKinds DEF BackKind, BackOp
<1>5. x.msg # Cmd /\ x.msg # Control(k)
  <2>1. CASE FromPool(x.msg)
    <3>1. Control(k).of = k
      BY MsgFacts
    <3> QED BY <1>4, <2>1, <3>1, AppMsgFacts DEF Of
  <2>2. CASE ~FromPool(x.msg)
    <3>1. AppKind(x) /\ x.to = k
      BY <1>2, <2>2, ServedKinds
    <3>2. FromPool(Control(k))
      BY MsgFacts
    <3> QED BY <1>2, <2>2, <3>1, <3>2, AppMsgFacts, MsgFacts DEF AppKind
  <2> QED BY <2>1, <2>2
<1>6. LET i == c.in
          u == c.out IN
      /\ \A y \in OutType : y.msg = x.msg =>
           /\ Neat(i, u, <<y>>)
           /\ \A m : Among(i, u, <<y>>, m) <=> (Among(i, u, <<>>, m) \/ m = x.msg)
      /\ Neat(Append(i, x), u, <<>>)
      /\ \A m : Among(Append(i, x), u, <<>>, m) <=> (Among(i, u, <<>>, m) \/ m = x.msg)
  BY <1>2, GivenNeatly
<1>7. CASE "enabled" \notin c.iflags
  <2> DEFINE y == Answered(x, 0)
  <2>1. Becomes(k, c, <<y>>)
    BY <1>1, <1>7
  <2>2. /\ y \in OutType /\ y.msg = x.msg /\ (AppReply(k, y) \/ Reply(k, {x}, y))
    BY <1>2, <1>4, GivenAnswered
  <2> HIDE DEF y
  <2>3. Plain(k, {x}, <<y>>)
    <3>1. Items(<<y>>) = {y}
      BY <2>2, OneItem
    <3> QED BY <2>2, <3>1 DEF Plain
  <2> HIDE DEF c
  <2> QED BY <1>2, <1>5, <1>6, <2>1, <2>2, <2>3, ServedBack DEF c
<1>8. CASE "enabled" \in c.iflags
  <2> DEFINE s == Append(c.in, x)
             F == IF x.len = 0 THEN Toggled(c.iflags, {"enabled", "eos"}) ELSE c.iflags
             put == [c EXCEPT !.in = s, !.iflags = F]
             live == IF Completed(c) THEN Restarted(put) ELSE put
             first == IF OutReady(live) THEN Scheduled(live) ELSE live
             d == IF c.in = <<>> THEN first ELSE put
  <2>1. Becomes(k, d, <<>>)
    BY <1>1, <1>8 DEF Completed
  <2>2. s \in Seq(ItemType) /\ F \in SUBSET Flags.in
    BY <1>3, <1>4 DEF Toggled, Flags
  <2>3. /\ Neat(s, c.out, <<>>)
        /\ \A m : Among(s, c.out, <<>>, m) <=> (Among(c.in, c.out, <<>>, m) \/ m = x.msg)
    BY <1>6
  <2> HIDE DEF s, F
  <2>4. put \in CodecType(k) /\ SameOut(c, put) /\ put.in = s
    <3> DEFINE e == Put(c, s, F)
    <3>1. e \in CodecType(k) /\ SameOut(c, e) /\ e.in = s
      BY <1>3, <2>2, PutFields
    <3>2. put = e
      BY DEF Put
    <3> HIDE DEF e, put
    <3> QED BY <3>1, <3>2
  <2> HIDE DEF put
  <2>5. live \in CodecType(k) /\ SameOut(c, live) /\ live.in = s
    <3>1. LET e == Restarted(put) IN e \in CodecType(k) /\ SameIn(put, e) /\ SameOut(put, e)
      BY <2>4, RestartedFields
    <3> QED BY <2>4, <3>1 DEF SameOut, SameIn
  <2> HIDE DEF live
  <2>6. SameOut(c, first) /\ first.in = s
    <3>1. LET e == Scheduled(live) IN SameIn(live, e) /\ SameOut(live, e)
      BY <2>5, ScheduledFields
    <3> QED BY <2>5, <3>1 DEF SameOut, SameIn
  <2> HIDE DEF first
  <2>7. d.in = s /\ d.out = c.out /\ d.route = c.route /\ d.oflags = c.oflags
    BY <2>4, <2>6 DEF SameOut
  <2> HIDE DEF d
  <2>8. Plain(k, {x}, <<>>)
    BY NothingSent
  <2> HIDE DEF c
  <2> QED BY <1>2, <1>5, <2>1, <2>3, <2>7, <2>8, ServedBack DEF c
<1> QED BY <1>7, <1>8

\* A buffer kept at the output.
LEMMA ReceivedHands ==
    ASSUME ChainInv, OnceInv, NEW k \in Codecs, NEW x, Serves(k, x), codec[k].mode = "running", x.op = "fill",
           x.msg # Control(k), OutputReceived(k, x)
    PROVE  Handed(k)
<1> DEFINE c == codec[k]
           live == IF ~Initial(c) /\ "eos_seq_done" \in c.state THEN Restarted(c) ELSE c
           s == Append(live.out, x.msg)
           put == PutOut(live, s)
           due == /\ c.out = <<>>
                  /\ InReady(put) \/ (Initial(c) /\ k \notin Decoders)
                  /\ put.state \cap {"runtime_init", "execution"} # {}
                  /\ OutReady(put)
           d == IF due THEN Scheduled(put) ELSE put
<1>1. ~Gone(k)
  BY DEF Serves
<1>2. c \in CodecType(k) /\ c.out \in Seq(AllMsgs)
  BY <1>1, Mine
<1>3. x.msg \in AllMsgs /\ x.msg # Cmd
  BY FillKinds
<1>4. live \in CodecType(k) /\ SameIn(c, live) /\ SameOut(c, live)
  <2>1. LET e == Restarted(c) IN e \in CodecType(k) /\ SameIn(c, e) /\ SameOut(c, e)
    BY <1>2, RestartedFields
  <2> QED BY <1>2, <2>1 DEF SameIn, SameOut
<1>5. s = Append(c.out, x.msg) /\ s \in Seq(AllMsgs)
  <2> HIDE DEF live
  <2>1. live.out = c.out
    BY <1>4 DEF SameOut
  <2> QED BY <1>2, <1>3, <2>1
<1>6. Becomes(k, d, <<>>)
  BY DEF OutputReceived, PutOut, Initial
<1> HIDE DEF live
<1>7. put \in CodecType(k) /\ SameIn(live, put) /\ put.out = s /\ put.oflags = live.oflags /\ put.route = live.route
  BY <1>4, <1>5, PutOutFields
<1> HIDE DEF put
<1>8. d.in = c.in /\ d.out = s /\ d.oflags = c.oflags /\ d.route = c.route
  <2>1. LET e == Scheduled(put) IN SameIn(put, e) /\ SameOut(put, e)
    BY <1>7, ScheduledFields
  <2>2. d = put \/ d = Scheduled(put)
    OBVIOUS
  <2> HIDE DEF d, s
  <2> QED BY <1>4, <1>7, <2>1, <2>2 DEF SameIn, SameOut
<1> HIDE DEF d
<1>9. LET i == c.in
          u == c.out IN
      /\ Neat(i, Append(u, x.msg), <<>>)
      /\ \A m : Among(i, Append(u, x.msg), <<>>, m) <=> (Among(i, u, <<>>, m) \/ m = x.msg)
  BY GivenNeatly
<1>10. /\ Neat(d.in, d.out, <<>>)
       /\ \A m : Among(d.in, d.out, <<>>, m) <=> (Among(c.in, c.out, <<>>, m) \/ m = x.msg)
  BY <1>5, <1>8, <1>9
<1>11. Plain(k, {x}, <<>>)
  BY NothingSent
<1> HIDE DEF s
<1> QED BY <1>3, <1>6, <1>8, <1>10, <1>11, ServedBack

\* The end of the stream goes to the application with the first buffer given after it.
LEMMA LastBufferHands ==
    ASSUME ChainInv, OnceInv, NEW k \in Codecs, NEW x, Serves(k, x), codec[k].mode = "running", x.op = "fill",
           ~Initial(codec[k]), x.msg # Control(k), ~Routed(codec[k]),
           Becomes(k, [codec[k] EXCEPT !.state = @ \cup {"eos_seq_done"}], <<Answered(x, 0)>>)
    PROVE  Handed(k)
<1> DEFINE c == codec[k]
           d == [c EXCEPT !.state = @ \cup {"eos_seq_done"}]
           y == Answered(x, 0)
<1>1. ~Gone(k)
  BY DEF Serves
<1>2. c \in CodecType(k)
  BY <1>1, Mine
<1>3. x.msg # Cmd /\ ~Of(x, k)
  BY FillKinds, MsgFacts, AppMsgFacts DEF Of
<1>4. d.in = c.in /\ d.out = c.out /\ d.oflags = c.oflags /\ d.route = c.route
  BY <1>2 DEF CodecType
<1>5. Becomes(k, d, <<y>>)
  OBVIOUS
<1>6. y \in OutType /\ y.msg = x.msg /\ (AppReply(k, y) \/ Reply(k, {x}, y))
  BY <1>3, GivenAnswered
<1> HIDE DEF d, y
<1>7. Plain(k, {x}, <<y>>)
  <2>1. Items(<<y>>) = {y}
    BY <1>6, OneItem
  <2> QED BY <1>6, <2>1 DEF Plain
<1>8. LET i == c.in
          u == c.out IN
      \A z \in OutType : z.msg = x.msg =>
           /\ Neat(i, u, <<z>>)
           /\ \A m : Among(i, u, <<z>>, m) <=> (Among(i, u, <<>>, m) \/ m = x.msg)
  BY GivenNeatly
<1>9. /\ Neat(d.in, d.out, <<y>>)
      /\ \A m : Among(d.in, d.out, <<y>>, m) <=> (Among(c.in, c.out, <<>>, m) \/ m = x.msg)
  BY <1>4, <1>6, <1>8
<1> QED BY <1>3, <1>4, <1>5, <1>7, <1>9, ServedBack

\* An answer to a command.
LEMMA CmdOut == \A op \in Ops : CmdDone(op) \in OutType /\ CmdDone(op).msg = Cmd /\ CmdDone(op).to = App
<1> SUFFICES ASSUME NEW op \in Ops PROVE CmdDone(op) \in OutType /\ CmdDone(op).msg = Cmd /\ CmdDone(op).to = App
  OBVIOUS
<1>1. CmdDone(op).msg = Cmd /\ CmdDone(op).to = App
  BY ItemFacts DEF CmdDone
<1>2. CmdDone(op) \in OutType
  BY ItemFacts, MsgFacts DEF CmdDone, Lens
<1> QED BY <1>1, <1>2

\* What a component has is somewhere.
LEMMA HandHeld ==
    ASSUME NEW k \in Codecs
    PROVE  \A m : Among(codec[k].in, codec[k].out, <<>>, m) => Held(m)
<1>1. \A m : (InSeq(codec[k].in, m) => Has("in", k, m)) /\ (m \in Items(codec[k].out) => Has("out", k, m))
  BY DEF Has
<1> QED BY <1>1, SingleShort DEF Among, Held

\* A message that is nowhere is sent.
LEMMA FreshNeatly ==
    ASSUME ChainInv, OnceInv, NEW k \in Codecs, ~Gone(k), NEW y \in OutType, IsNew(k, y.msg)
    PROVE  /\ Neat(codec[k].in, codec[k].out, <<y>>)
           /\ \A m : Among(codec[k].in, codec[k].out, <<y>>, m) <=>
                (Among(codec[k].in, codec[k].out, <<>>, m) \/ m = y.msg)
<1> DEFINE i == codec[k].in
           u == codec[k].out
           o == <<>>
<1>1. Neat(i, u, o) /\ ~Among(i, u, o, y.msg)
  BY HeldNeatly, HandHeld, NewNowhere
<1>2. o \o <<y>> = <<y>>
  OBVIOUS
<1> HIDE DEF i, u, o
<1>3. /\ Neat(i, u, o \o <<y>>)
      /\ \A m : Among(i, u, o \o <<y>>, m) <=> (Among(i, u, o, m) \/ m = y.msg)
  BY <1>1, NeatOne
<1> QED BY <1>2, <1>3 DEF i, u, o

\* The input purged.
LEMMA PurgedNeatly ==
    ASSUME NEW c, NEW u, NEW o, Neat(c.in, u, o), Purged(c).out \in Seq(OutType)
    PROVE  /\ Neat(<<>>, u, o \o Purged(c).out)
           /\ \A m : Among(<<>>, u, o \o Purged(c).out, m) <=> Among(c.in, u, o, m)
<1> DEFINE t == c.in
           p == [i \in DOMAIN t |-> Answered(t[i], 0)]
<1>1. Purged(c).out = p
  BY DEF Purged
<1>2. DOMAIN p = DOMAIN t /\ \A i \in DOMAIN t : p[i].msg = t[i].msg
  BY ItemFacts DEF Answered
<1> HIDE DEF p
<1>3. p \in Seq(OutType) /\ Neat(t, u, o)
  BY <1>1
<1> HIDE DEF t
<1>4. Neat(<<>>, u, o \o p) /\ \A m : Among(<<>>, u, o \o p, m) <=> Among(t, u, o, m)
  BY <1>2, <1>3, NeatPurged
<1> QED BY <1>1, <1>4 DEF t

\* The flow-control message is no other.
LEMMA ControlFacts ==
    ASSUME NEW k \in Codecs
    PROVE  /\ Control(k) \in AllMsgs /\ FromPool(Control(k)) /\ Control(k).of = k /\ Control(k) # Cmd
           /\ Control(k) \notin AppMsgs
           /\ \A buf \in Bufs : Msg(k, buf) # Control(k) /\ Msg(k, buf).of = k /\ FromPool(Msg(k, buf))
                                /\ Msg(k, buf) # Cmd /\ Msg(k, buf) \notin AppMsgs /\ Msg(k, buf) \in AllMsgs
<1>1. ASSUME NEW buf \in Bufs PROVE Msg(k, buf) # Control(k) /\ buf \in Pool
  <2>1. buf # "control"
    BY NamesAssumption
  <2>2. Msg(k, buf).what = buf /\ Control(k).what = "control"
    BY MsgFacts
  <2> QED BY <2>1, <2>2 DEF Pool
<1>2. \A m : FromPool(m) => m # Cmd /\ m \notin AppMsgs
  BY MsgFacts, AppMsgFacts
<1> QED BY <1>1, <1>2, MsgFacts

\* The end of a flush that ends with a purge of the input.
LEMMA ControlHands ==
    ASSUME ChainInv, OnceInv, NEW k \in Codecs, NEW x, Serves(k, x), codec[k].mode = "running", x.op = "fill",
           x.msg = Control(k), ControlReturns(k, x)
    PROVE  Handed(k)
<1> DEFINE c == codec[k]
           T == {x}
           l == LocalLeft(WorkerOf[k])
           q == QueueLeft(WorkerOf[k])
           e == FlushDone(c)
           unroutes == Unrouting(e) \/ x.len = Invalid
           u == IF unroutes THEN Unrouted(e) ELSE e
           d == Purged(u).c
           ans == Purged(u).out
           answer == IF Unrouting(e) THEN <<CmdDone("unroute")>> ELSE <<>>
           out == answer \o ans
<1>1. Becomes(k, d, out)
  BY DEF ControlReturns, Unrouting
<1>2. /\ Of(x, k) /\ Flushing(c) /\ Routed(c) /\ "idle" \notin c.oflags /\ ~Initial(c) /\ ~Gone(k)
  BY ControlGiven DEF Serves
<1>3. c \in CodecType(k) /\ OutputOk(k, c) /\ c.route = RouteOf(k)
  BY <1>2, Mine DEF CompOk
<1>4. /\ e \in CodecType(k) /\ SameMode(c, e) /\ SameIn(c, e)
      /\ e.out = c.out /\ e.route = c.route /\ e.oflags = (c.oflags \ {"flushing"}) \cup {"idle"}
  <2>1. /\ e \in CodecType(k) /\ SameMode(c, e) /\ SameIn(c, e)
        /\ e.out = c.out /\ e.route = c.route
        /\ e.oflags = (c.oflags \ {"idle", "flushing"}) \cup ({"idle", "flushing"} \ c.oflags)
    BY <1>3, FlushDoneFields
  <2>2. "flushing" \in c.oflags
    BY <1>2 DEF Flushing
  <2> HIDE DEF e
  <2>3. e.oflags = (c.oflags \ {"flushing"}) \cup {"idle"}
    BY <1>2, <2>1, <2>2
  <2> QED BY <2>1, <2>3
<1> HIDE DEF e
<1>5. /\ u \in CodecType(k) /\ SameMode(c, u) /\ SameIn(c, u)
      /\ unroutes => u.out = <<>> /\ u.oflags = {"idle"}
      /\ ~unroutes => u.out = c.out /\ u.oflags = (c.oflags \ {"flushing"}) \cup {"idle"} /\ u.route = RouteOf(k)
  <2>1. CASE unroutes
    <3> DEFINE r == Unrouted(e)
    <3>1. /\ r \in CodecType(k) /\ SameMode(e, r) /\ SameIn(e, r)
          /\ r.out = <<>> /\ r.route = None /\ r.oflags = {"idle"}
      BY <1>4, UnroutedFields
    <3>2. u = r
      BY <2>1
    <3> HIDE DEF r
    <3> QED BY <1>4, <2>1, <3>1, <3>2 DEF SameMode, SameIn
  <2>2. CASE ~unroutes
    <3>1. u = e
      BY <2>2
    <3> QED BY <1>3, <1>4, <2>2, <3>1
  <2> QED BY <2>1, <2>2
<1>6. (Unrouting(e) <=> Unrouting(c)) /\ (SavedIn(c) <=> Unrouting(c))
  BY <1>4 DEF Unrouting, SavedIn
<1> HIDE DEF u
<1>7. /\ SameMode(u, d) /\ SameOut(u, d) /\ d.in = <<>>
      /\ ans \in Seq(OutType) /\ Plain(k, T, ans)
  BY <1>5, PurgedFacts DEF SameIn
<1>8. /\ answer \in Seq(OutType) /\ Plain(k, T, answer)
      /\ \A m : ToApp(answer, m) <=> (Unrouting(c) /\ m = Cmd)
      /\ Neat(c.in, c.out, answer)
      /\ \A m : Among(c.in, c.out, answer, m) <=> (Among(c.in, c.out, <<>>, m) \/ (m = Cmd /\ Unrouting(c)))
  <2>1. CASE Unrouting(e)
    <3> DEFINE y == CmdDone("unroute")
               s == <<y>>
    <3>1. /\ s \in Seq(OutType) /\ Plain(k, T, s)
          /\ \A m : ToApp(s, m) <=> m = Cmd
      BY CmdReplied DEF Ops
    <3>2. answer = s
      BY <2>1
    <3>3. y.msg = Cmd /\ y \in OutType
      <4>1. "unroute" \in Ops
        BY DEF Ops
      <4> QED BY <4>1, CmdOut
    <3> HIDE DEF y
    <3>4. IsNew(k, y.msg)
      BY <1>6, <2>1, <3>3 DEF IsNew
    <3>5. /\ Neat(c.in, c.out, s)
          /\ \A m : Among(c.in, c.out, s, m) <=> (Among(c.in, c.out, <<>>, m) \/ m = y.msg)
      BY <1>2, <3>3, <3>4, FreshNeatly
    <3> HIDE DEF s
    <3> QED BY <1>6, <2>1, <3>1, <3>2, <3>3, <3>5
  <2>2. CASE ~Unrouting(e)
    <3>1. answer = <<>>
      BY <2>2
    <3>2. Neat(c.in, c.out, <<>>)
      BY <1>2, HeldNeatly
    <3> QED BY <1>6, <2>2, <3>1, <3>2, NothingSent
  <2> QED BY <2>1, <2>2
<1> HIDE DEF answer
<1>9. /\ Plain(k, T, out)
      /\ \A m : ToApp(out, m) <=> (ToApp(answer, m) \/ ToApp(ans, m))
  BY <1>7, <1>8, PlainJoined
<1>10. /\ Neat(<<>>, c.out, out)
       /\ \A m : Among(<<>>, c.out, out, m) <=> Among(c.in, c.out, answer, m)
  <2>1. u.in = c.in
    BY <1>5 DEF SameIn
  <2> QED BY <1>7, <1>8, <2>1, PurgedNeatly
<1> HIDE DEF d, ans
<1>11. /\ d.mode = "running"
       /\ ~unroutes => d.out = c.out /\ d.oflags = (c.oflags \ {"flushing"}) \cup {"idle"} /\ d.route = RouteOf(k)
       /\ unroutes => d.out = <<>> /\ d.oflags = {"idle"}
  BY <1>5, <1>7 DEF SameMode, SameOut
<1>12. ~Flushing(d) /\ (Routed(d) <=> ~unroutes)
  <2>1. CASE unroutes
    BY <1>11, <2>1 DEF Flushing, Routed
  <2>2. CASE ~unroutes
    <3>1. d.oflags = (c.oflags \ {"flushing"}) \cup {"idle"}
      BY <1>11, <2>2
    <3> QED BY <1>2, <2>2, <3>1 DEF Flushing, Routed
  <2> QED BY <2>1, <2>2
<1>13. Steps(k, T, l, q, d, out)
  BY <1>1, ServesSteps
<1>14. TakesAll(k, T, l, q) /\ \A m : InHand(k, T, m) <=> (Among(c.in, c.out, <<>>, m) \/ m = Control(k))
  BY ServedAll
<1> HIDE DEF out
<1>15. /\ Neat(d.in, d.out, out)
       /\ \A m : Among(d.in, d.out, out, m) => Among(c.in, c.out, answer, m)
       /\ ~unroutes => \A m : Among(c.in, c.out, answer, m) => Among(d.in, d.out, out, m)
       /\ \A m : Among(c.in, c.out, answer, m) => Among(d.in, d.out, out, m) \/ m \in Items(c.out)
  <2>1. CASE unroutes
    <3>1. /\ Neat(<<>>, <<>>, out)
          /\ \A m : Among(<<>>, c.out, out, m) <=> (Among(<<>>, <<>>, out, m) \/ m \in Items(c.out))
      BY <1>10, NeatOutput
    <3> QED BY <1>7, <1>10, <1>11, <2>1, <3>1
  <2>2. CASE ~unroutes
    BY <1>7, <1>10, <1>11, <2>2
  <2> QED BY <2>1, <2>2
<1>16. \A m \in Items(c.out) : FromPool(m) /\ m.of = k /\ m \notin AppMsgs
  BY <1>2, <1>3, ControlFacts DEF OutputOk
<1>17. KeepsMessages(k, T, d, out)
  <2>1. \A m : Among(d.in, d.out, out, m) => InHand(k, T, m) \/ IsNew(k, m)
    BY <1>6, <1>8, <1>14, <1>15 DEF IsNew
  <2>2. ASSUME NEW m, InHand(k, T, m), m \in AppMsgs \ {Cmd} \/ (FromPool(m) /\ m.of # k)
        PROVE  Among(d.in, d.out, out, m)
    <3>1. m # Control(k) /\ m \notin Items(c.out)
      BY <1>16, <2>2, ControlFacts
    <3> QED BY <1>8, <1>14, <1>15, <2>2, <3>1
  <2>3. \A y \in Items(out) : Mail(k, d, y)
    <3>1. \A y \in Items(out) : Down(k, T, d, y)
      BY <1>9 DEF Plain, Down
    <3>2. out \in Seq(OutType) /\ Takes(k, T, l, q)
      BY <1>13, <1>15 DEF Neat, Steps
    <3> QED BY <3>1, <3>2, MailFrom
  <2>4. HasMsg(T, Cmd) \/ SavedIn(codec[k]) => ToApp(out, Cmd) \/ SavedIn(d)
    <3>1. ~HasMsg(T, Cmd)
      BY ControlFacts DEF HasMsg
    <3> QED BY <1>6, <1>8, <1>9, <3>1
  <2> QED BY <1>15, <2>1, <2>2, <2>3, <2>4 DEF KeepsMessages
<1>18. KeepsPool(k, T, d, out)
  <2>1. Routed(d) => /\ d.route = c.route /\ ~Unrouting(c) /\ x.len # Invalid
                     /\ \A buf \in Bufs : InHand(k, T, Msg(k, buf)) => Among(d.in, d.out, out, Msg(k, buf))
    BY <1>3, <1>6, <1>8, <1>11, <1>12, <1>14, <1>15, ControlFacts
  <2>2. x \in T /\ x.msg = Control(k)
    OBVIOUS
  <2> HIDE DEF T
  <2> QED BY <1>2, <1>11, <1>12, <2>1, <2>2 DEF KeepsPool
<1> HIDE DEF T, l, q
<1>19. Hands(k, T, l, q, d, out)
  BY <1>13, <1>14, <1>17, <1>18 DEF Hands
<1> QED BY <1>19 DEF Handed

\* A buffer that came back because the component below is gone.
LEMMA BouncedHands ==
    ASSUME ChainInv, OnceInv, NEW k \in Codecs, NEW x, Serves(k, x), codec[k].mode = "running", x.op = "fill",
           ~Initial(codec[k]), x.msg # Control(k), x.len = Invalid, Routed(codec[k]), BufferBounced(k)
    PROVE  Handed(k)
<1> DEFINE c == codec[k]
           T == {x}
           l == LocalLeft(WorkerOf[k])
           q == QueueLeft(WorkerOf[k])
<1>1. ~Gone(k)
  BY DEF Serves
<1>2. c \in CodecType(k) /\ c.route = RouteOf(k)
  BY <1>1, Mine
<1>3. Of(x, k) /\ x.msg # Cmd /\ ~IsControl(x) /\ FromPool(x.msg) /\ x.msg \notin AppMsgs /\ x.msg.of = k
  <2>1. Of(x, k) /\ x.msg # Cmd /\ x.msg \in AllMsgs
    BY FillKinds
  <2>2. x.msg = Msg(k, x.msg.what)
    BY <2>1, MsgFacts DEF Of
  <2>3. ~IsControl(x)
    BY <2>2, MsgFacts DEF IsControl
  <2> QED BY <2>1, <2>3, MsgFacts DEF Of
<1>4. ~HasMsg(T, Cmd) /\ ~HasMsg(T, Control(k))
  BY <1>3 DEF HasMsg
<1>5. TakesAll(k, T, l, q) /\ \A m : InHand(k, T, m) <=> (Among(c.in, c.out, <<>>, m) \/ m = x.msg)
  BY ServedAll
<1>6. x \in T
  OBVIOUS
\* It is dropped, and the port is flushing.
<1>7. ASSUME NEW d, NEW out, Becomes(k, d, out), Neat(d.in, d.out, out), \A y \in Items(out) : Down(k, T, d, y),
             \A m : Among(d.in, d.out, out, m) <=>
               (Among(c.in, c.out, <<>>, m) \/ (m = Control(k) /\ ~Flushing(c))),
             d.mode = c.mode, d.route = c.route, Routed(d), Flushing(d), Unrouting(d) <=> Unrouting(c),
             ~Flushing(c) => InSeq(out, Control(k))
      PROVE  Handed(k)
  <2>1. Steps(k, T, l, q, d, out)
    BY <1>7, ServesSteps
  <2> HIDE DEF T, l, q
  <2>2. \A y \in Items(out) : Mail(k, d, y)
    <3>1. out \in Seq(OutType) /\ Takes(k, T, l, q)
      BY <1>7, <2>1 DEF Neat, Steps
    <3> QED BY <1>7, <3>1, MailFrom
  <2>3. KeepsMessages(k, T, d, out)
    <3>1. \A m : Among(d.in, d.out, out, m) => InHand(k, T, m) \/ IsNew(k, m)
      BY <1>5, <1>7 DEF IsNew
    <3>2. \A m : InHand(k, T, m) /\ (m \in AppMsgs \ {Cmd} \/ (FromPool(m) /\ m.of # k)) => Among(d.in, d.out, out, m)
      BY <1>3, <1>5, <1>7
    <3>3. SavedIn(c) => SavedIn(d)
      BY <1>7 DEF SavedIn
    <3> QED BY <1>4, <1>7, <2>2, <3>1, <3>2, <3>3 DEF KeepsMessages
  <2>4. KeepsPool(k, T, d, out)
    BY <1>3, <1>4, <1>6, <1>7 DEF KeepsPool
  <2>5. Hands(k, T, l, q, d, out)
    BY <1>5, <2>1, <2>3, <2>4 DEF Hands
  <2> QED BY <2>5 DEF Handed
<1>8. CASE Flushing(c)
  <2>1. Becomes(k, c, <<>>)
    BY <1>8 DEF BufferBounced, Flushing
  <2>2. Neat(c.in, c.out, <<>>)
    BY <1>1, HeldNeatly
  <2>3. \A y \in Items(<<>>) : Down(k, T, c, y)
    BY EmptyItems
  <2> HIDE DEF c
  <2> QED BY <1>7, <1>8, <2>1, <2>2, <2>3 DEF c
<1>9. CASE ~Flushing(c)
  <2> DEFINE b == Cancelled(c)
             f == Flushed(k, b, "fill")
             d == NoOutput(f.c)
             out == f.out
  <2>1. Becomes(k, d, out)
    BY <1>9 DEF BufferBounced, Flushing
  <2>2. b \in CodecType(k) /\ SameMode(c, b) /\ SameIn(c, b) /\ SameOut(c, b)
    BY <1>2, CancelledFields
  <2> HIDE DEF b
  <2>3. Routed(b) /\ ~Flushing(b) /\ b.route = RouteOf(k)
    BY <1>2, <1>9, <2>2 DEF Routed, Flushing, SameOut
  <2>4. /\ f.c \in CodecType(k) /\ SameMode(b, f.c) /\ SameIn(b, f.c)
        /\ f.c.out = b.out /\ f.c.route = b.route /\ f.c.oflags = b.oflags \cup {"flushing"}
        /\ f.out = <<Item(RouteOf(k), Control(k), "empty", 0)>>
    <3> HIDE DEF f
    <3>1. /\ f.c \in CodecType(k) /\ SameMode(b, f.c) /\ SameTask(b, f.c) /\ SameIn(b, f.c)
          /\ f.c.out = b.out /\ f.c.route = b.route
          /\ LET over == "idle" \in b.oflags /\ "fill" # "fill" IN
             /\ ~over => /\ f.c.oflags = b.oflags \cup {"flushing"}
                         /\ f.out = IF Flushing(b) THEN <<>>
                                    ELSE <<Item(b.route, Control(k), IF "fill" = "fill" THEN "empty" ELSE "fill", 0)>>
      BY <2>2, <2>3, FlushedFacts DEF f
    <3> QED BY <2>3, <3>1
  <2> HIDE DEF f
  <2>5. d \in CodecType(k) /\ SameMode(f.c, d) /\ SameIn(f.c, d) /\ SameOut(f.c, d)
    BY <2>4, NoOutputFields
  <2> HIDE DEF d
  <2>6. /\ d.mode = c.mode /\ d.in = c.in
        /\ d.out = c.out /\ d.route = RouteOf(k) /\ d.oflags = c.oflags \cup {"flushing"}
    BY <1>2, <2>2, <2>4, <2>5 DEF SameMode, SameIn, SameOut
  <2>7. "idle" \notin c.oflags
    <3>1. IsAbroad(x)
      BY ServedKinds
    <3> QED BY <1>3, <3>1 DEF ChainInv, PoolInv, PortInv
  <2>8. Routed(d) /\ Flushing(d) /\ "idle" \notin d.oflags /\ (Unrouting(d) <=> Unrouting(c))
    BY <2>6, <2>7 DEF Routed, Flushing, Unrouting
  <2> DEFINE y == Item(RouteOf(k), Control(k), "empty", 0)
             s == <<y>>
  <2>9. /\ s \in Seq(OutType)
        /\ \A z \in Items(s) : IsSent(k, d, z)
    BY <1>1, <1>9, <2>6, <2>8, ControlSent
  <2>10. out = s
    BY <2>4
  <2>11. y.msg = Control(k) /\ y \in OutType
    <3>1. RouteOf(k) \in Codecs
      BY <1>1, Mine
    <3> QED BY <3>1, ItemFacts, ControlFacts DEF Ops, Lens
  <2> HIDE DEF y
  <2>12. IsNew(k, y.msg)
    BY <1>9, <2>11 DEF IsNew
  <2>13. /\ Neat(c.in, c.out, s)
         /\ \A m : Among(c.in, c.out, s, m) <=> (Among(c.in, c.out, <<>>, m) \/ m = y.msg)
    BY <1>1, <2>11, <2>12, FreshNeatly
  <2>14. InSeq(s, Control(k))
    <3>1. Items(s) = {y}
      BY <2>11, OneItem
    <3> QED BY <2>11, <3>1 DEF InSeq
  <2> HIDE DEF s, out
  <2>15. \A z \in Items(s) : Down(k, T, d, z)
    BY <2>9 DEF Down
  <2>16. Becomes(k, d, s)
    BY <2>1, <2>10
  <2>17. /\ Neat(d.in, d.out, s)
         /\ \A m : Among(d.in, d.out, s, m) <=> (Among(c.in, c.out, <<>>, m) \/ (m = Control(k) /\ ~Flushing(c)))
    BY <1>9, <2>6, <2>11, <2>13
  <2> HIDE DEF T
  <2> QED BY <1>2, <1>7, <2>6, <2>8, <2>14, <2>15, <2>16, <2>17
<1> QED BY <1>8, <1>9

\* xa_codec_fill_this_buffer
LEMMA FillHands == ASSUME ChainInv, OnceInv, NEW k \in Codecs, FillThisBuffer(k) PROVE Handed(k)
<1> DEFINE c == codec[k]
<1>1. PICK x \in Gets(k, "fill") :
        IF "runtime_init" \in c.state THEN OutputReceived(k, x)
        ELSE IF x.msg = Control(k) THEN ControlReturns(k, x)
        ELSE IF "completed" \in c.state /\ "eos_seq_done" \notin c.state /\ ~Routed(c) THEN
             Becomes(k, [c EXCEPT !.state = @ \cup {"eos_seq_done"}], <<Answered(x, 0)>>)
        ELSE IF x.len = Invalid /\ Routed(c) THEN BufferBounced(k)
        ELSE OutputReceived(k, x)
  BY DEF FillThisBuffer
<1>2. Serves(k, x) /\ c.mode = "running" /\ x.op = "fill"
  BY GetsServes
<1>3. CASE Initial(c)
  <2>1. OutputReceived(k, x)
    BY <1>1, <1>3 DEF Initial
  <2>2. x.msg # Control(k)
    <3>1. x.msg = Msg(k, "start")
      BY <1>2, <1>3, FillKinds
    <3> QED BY <3>1, ControlFacts, MsgFacts
  <2> QED BY <1>2, <2>1, <2>2, ReceivedHands
<1>4. CASE ~Initial(c) /\ x.msg = Control(k)
  <2>1. ControlReturns(k, x)
    BY <1>1, <1>4 DEF Initial
  <2> QED BY <1>2, <1>4, <2>1, ControlHands
<1>5. CASE ~Initial(c) /\ x.msg # Control(k) /\ Completed(c) /\ "eos_seq_done" \notin c.state /\ ~Routed(c)
  <2>1. Becomes(k, [c EXCEPT !.state = @ \cup {"eos_seq_done"}], <<Answered(x, 0)>>)
    BY <1>1, <1>5 DEF Initial, Completed
  <2> QED BY <1>2, <1>5, <2>1, LastBufferHands
<1>6. CASE /\ ~Initial(c) /\ x.msg # Control(k)
           /\ ~(Completed(c) /\ "eos_seq_done" \notin c.state /\ ~Routed(c))
  <2>1. CASE x.len = Invalid /\ Routed(c)
    <3>1. BufferBounced(k)
      BY <1>1, <1>6, <2>1 DEF Initial, Completed
    <3> QED BY <1>2, <1>6, <2>1, <3>1, BouncedHands
  <2>2. CASE ~(x.len = Invalid /\ Routed(c))
    <3>1. OutputReceived(k, x)
      BY <1>1, <1>6, <2>2 DEF Initial, Completed
    <3> QED BY <1>2, <1>6, <3>1, ReceivedHands
  <2> QED BY <2>1, <2>2
<1> QED BY <1>3, <1>4, <1>5, <1>6

\* A handler that makes or unmakes the connection.
LEMMA ServedApart ==
    ASSUME ChainInv, OnceInv, NEW k \in Codecs, NEW x, Serves(k, x), codec[k].mode = "running",
           NEW d, NEW out, Becomes(k, d, out), Neat(d.in, d.out, out), \A y \in Items(out) : Down(k, {x}, d, y),
           \A m : Among(d.in, d.out, out, m) => Among(codec[k].in, codec[k].out, <<>>, m) \/ m = x.msg \/ IsNew(k, m),
           \A m : (Among(codec[k].in, codec[k].out, <<>>, m) \/ m = x.msg)
                  /\ (m \in AppMsgs \ {Cmd} \/ (FromPool(m) /\ m.of # k)) => Among(d.in, d.out, out, m),
           x.msg = Cmd \/ SavedIn(codec[k]) => ToApp(out, Cmd), ~Flushing(d),
           Routed(d) => ~Routed(codec[k]) /\ \A buf \in Bufs : Msg(k, buf) \in Items(d.out)
    PROVE  Handed(k)
<1> DEFINE T == {x}
           l == LocalLeft(WorkerOf[k])
           q == QueueLeft(WorkerOf[k])
<1>1. Steps(k, T, l, q, d, out)
  BY ServesSteps
<1>2. TakesAll(k, T, l, q) /\ \A m : InHand(k, T, m) <=> (Among(codec[k].in, codec[k].out, <<>>, m) \/ m = x.msg)
  BY ServedAll
<1>3. HasMsg(T, Cmd) <=> x.msg = Cmd
  BY DEF HasMsg
<1> HIDE DEF T, l, q
<1>4. \A y \in Items(out) : Mail(k, d, y)
  <2>1. out \in Seq(OutType) /\ Takes(k, T, l, q)
    BY <1>1 DEF Neat, Steps
  <2>2. \A y \in Items(out) : Down(k, T, d, y)
    BY DEF T
  <2> QED BY <2>1, <2>2, MailFrom
<1>5. KeepsMessages(k, T, d, out)
  BY <1>2, <1>3, <1>4 DEF KeepsMessages
<1>6. KeepsPool(k, T, d, out)
  <2>1. Flushing(codec[k]) => Routed(codec[k])
    <3>1. ~Gone(k)
      BY DEF Serves
    <3> QED BY <3>1, Mine DEF CompOk, OutputOk
  <2> QED BY <2>1 DEF KeepsPool
<1>7. Hands(k, T, l, q, d, out)
  BY <1>1, <1>2, <1>5, <1>6 DEF Hands
<1> QED BY <1>7 DEF Handed

\* One that keeps its connection, what it has in hand, and may start a flush.
LEMMA ServedOn ==
    ASSUME ChainInv, OnceInv, NEW k \in Codecs, NEW x, Serves(k, x), codec[k].mode = "running",
           NEW d, NEW out, Becomes(k, d, out), Neat(d.in, d.out, out), \A y \in Items(out) : Down(k, {x}, d, y),
           \A m : Among(d.in, d.out, out, m) => Among(codec[k].in, codec[k].out, <<>>, m) \/ m = x.msg \/ IsNew(k, m),
           \A m : (Among(codec[k].in, codec[k].out, <<>>, m) \/ m = x.msg) /\ m # Cmd => Among(d.in, d.out, out, m),
           x.msg = Cmd => ToApp(out, Cmd) \/ SavedIn(d), x.msg # Control(k),
           Routed(d) <=> Routed(codec[k]), d.route = codec[k].route, Unrouting(codec[k]) => Unrouting(d),
           Flushing(codec[k]) => Flushing(d), Flushing(d) => InSeq(out, Control(k)) \/ Flushing(codec[k])
    PROVE  Handed(k)
<1> DEFINE T == {x}
           l == LocalLeft(WorkerOf[k])
           q == QueueLeft(WorkerOf[k])
<1>1. Steps(k, T, l, q, d, out)
  BY ServesSteps
<1>2. TakesAll(k, T, l, q) /\ \A m : InHand(k, T, m) <=> (Among(codec[k].in, codec[k].out, <<>>, m) \/ m = x.msg)
  BY ServedAll
<1>3. (HasMsg(T, Cmd) <=> x.msg = Cmd) /\ ~HasMsg(T, Control(k))
  BY DEF HasMsg
<1>4. \A y \in Items(out) : Down(k, T, d, y)
  OBVIOUS
<1> HIDE DEF T, l, q
<1>5. Hands(k, T, l, q, d, out)
  BY <1>1, <1>2, <1>3, <1>4, HandsOn
<1> QED BY <1>5 DEF Handed

\* A command that is answered at once.
LEMMA CommandNeatly ==
    ASSUME ChainInv, OnceInv, NEW k \in Codecs, NEW x, Serves(k, x), x.op \in CmdOps
    PROVE  LET c == codec[k]
               s == <<Answered(x, 0)>> IN
           /\ ~Gone(k) /\ x.msg = Cmd /\ x.msg # Control(k) /\ ~IsSaved(k) /\ call # None /\ call.on = k /\ call.op = x.op
           /\ s \in Seq(OutType) /\ Plain(k, {x}, s) /\ ToApp(s, Cmd)
           /\ Neat(c.in, c.out, s)
           /\ \A m : Among(c.in, c.out, s, m) <=> (Among(c.in, c.out, <<>>, m) \/ m = Cmd)
           /\ \A y \in Items(s) : y.msg = Cmd
<1> DEFINE y == Answered(x, 0)
<1>1. /\ x.msg = Cmd /\ ~FromPool(x.msg) /\ ~IsSaved(k) /\ call # None /\ call.on = k /\ call.op = x.op
      /\ <<y>> \in Seq(OutType) /\ Plain(k, {x}, <<y>>) /\ ToApp(<<y>>, Cmd)
  BY CmdGiven
<1>2. y \in OutType /\ y.msg = x.msg
  <2>1. ~Of(x, k)
    BY <1>1 DEF Of
  <2> QED BY <2>1, GivenAnswered
<1>3. ~Gone(k) /\ Cmd # Control(k)
  BY ControlFacts DEF Serves
<1> HIDE DEF y
<1>4. LET i == codec[k].in
          u == codec[k].out IN
      /\ Neat(i, u, <<y>>)
      /\ \A m : Among(i, u, <<y>>, m) <=> (Among(i, u, <<>>, m) \/ m = x.msg)
  BY <1>2, GivenNeatly
<1>5. \A z \in Items(<<y>>) : z.msg = Cmd
  BY <1>1, <1>2, OneItem
<1> QED BY <1>1, <1>3, <1>4, <1>5 DEF y

\* A pool has each of its buffers once.
LEMMA PoolWhole ==
    ASSUME NEW k \in Codecs
    PROVE  LET pool == CHOOSE s \in [1..Cardinality(Bufs) -> Bufs] : {s[i] : i \in DOMAIN s} = Bufs
               t == [i \in DOMAIN pool |-> Msg(k, pool[i])] IN
           Distinct(t) /\ \A buf \in Bufs : Msg(k, buf) \in Items(t)
<1> DEFINE n == Cardinality(Bufs)
           pool == CHOOSE s \in [1..n -> Bufs] : {s[i] : i \in DOMAIN s} = Bufs
           t == [i \in DOMAIN pool |-> Msg(k, pool[i])]
<1>1. n \in Nat /\ IsFiniteSet(1..n) /\ Cardinality(1..n) = n
  <2>1. n \in Nat
    BY BufsAssumption, FS_CardinalityType
  <2> HIDE DEF n
  <2>2. IsFiniteSet(1..n) /\ Cardinality(1..n) = IF 1 > n THEN 0 ELSE n - 1 + 1
    BY <2>1, FS_Interval
  <2> QED BY <2>1, <2>2
<1>2. ExistsBijection(1..n, Bufs)
  BY BufsAssumption, FS_CardinalityType
<1>3. \E s \in [1..n -> Bufs] : {s[i] : i \in DOMAIN s} = Bufs
  <2>1. PICK s \in Bijection(1..n, Bufs) : TRUE
    BY <1>2 DEF ExistsBijection
  <2>2. s \in [1..n -> Bufs] /\ \A b \in Bufs : \E i \in 1..n : s[i] = b
    BY <2>1 DEF Bijection, Injection, Surjection
  <2>3. {s[i] : i \in DOMAIN s} = Bufs
    BY <2>2
  <2> QED BY <2>2, <2>3
<1>4. pool \in [1..n -> Bufs] /\ {pool[i] : i \in DOMAIN pool} = Bufs
  BY <1>3
<1> HIDE DEF pool
<1>5. pool \in Surjection(1..n, Bufs)
  <2>1. \A b \in Bufs : \E i \in 1..n : pool[i] = b
    BY <1>4
  <2> QED BY <1>4, <2>1 DEF Surjection
<1>6. \A i, j \in 1..n : pool[i] = pool[j] => i = j
  <2>1. Cardinality(1..n) = Cardinality(Bufs)
    BY <1>1
  <2> HIDE DEF n
  <2>2. pool \in Injection(1..n, Bufs)
    BY <1>1, <1>5, <2>1, FS_SurjSameCardinalityImpliesInj
  <2> QED BY <2>2 DEF Injection, IsInjective
<1> HIDE DEF n
<1>7. DOMAIN t = 1..n /\ \A i \in 1..n : t[i] = Msg(k, pool[i])
  BY <1>4
<1> HIDE DEF t
<1>8. \A a, b : Msg(k, a) = Msg(k, b) => a = b
  <2>1. \A a : Msg(k, a).what = a
    BY MsgFacts
  <2> QED BY <2>1
<1>9. \A i, j \in 1..n : i < j => t[i] # t[j]
  <2> SUFFICES ASSUME NEW i \in 1..n, NEW j \in 1..n, i < j, t[i] = t[j] PROVE FALSE
    OBVIOUS
  <2>1. Msg(k, pool[i]) = Msg(k, pool[j])
    BY <1>7
  <2>2. pool[i] = pool[j]
    BY <1>8, <2>1
  <2>3. i = j
    BY <1>6, <2>2
  <2> QED BY <1>1, <2>3
<1>10. Distinct(t)
  BY <1>7, <1>9 DEF Distinct, Ahead
<1>11. \A buf \in Bufs : Msg(k, buf) \in Items(t)
  <2> SUFFICES ASSUME NEW buf \in Bufs PROVE Msg(k, buf) \in Items(t)
    OBVIOUS
  <2>1. PICK i \in 1..n : pool[i] = buf
    BY <1>4
  <2> QED BY <1>7, <2>1 DEF Items
<1> QED BY <1>10, <1>11 DEF t, pool, n

\* xa_codec_port_pause, xa_codec_port_resume
LEMMA PausesHands ==
    ASSUME ChainInv, OnceInv, NEW k \in Codecs, PortPause(k) \/ PortResume(k)
    PROVE  Handed(k)
<1> DEFINE c == codec[k]
<1>1. PICK x, d : Pauses(k, x, d)
  BY PauseIs, ResumeIs
<1> DEFINE out == <<Answered(x, 0)>>
<1>2. /\ Serves(k, x) /\ c.mode = "running" /\ x.op \in CmdOps /\ PausesOnly(c, d) /\ Becomes(k, d, out)
  BY <1>1 DEF Pauses, CmdOps
<1>3. /\ x.msg = Cmd /\ x.msg # Control(k) /\ Plain(k, {x}, out) /\ ToApp(out, Cmd)
      /\ Neat(c.in, c.out, out)
      /\ \A m : Among(c.in, c.out, out, m) <=> (Among(c.in, c.out, <<>>, m) \/ m = Cmd)
  BY <1>2, CommandNeatly
<1>4. /\ d.in = c.in /\ d.out = c.out /\ d.route = c.route
      /\ d.oflags \ {"paused", "idle"} = c.oflags \ {"paused", "idle"}
  BY <1>2 DEF PausesOnly
<1> HIDE DEF out, c
<1> QED BY <1>2, <1>3, <1>4, ServedBack DEF c

\* xa_codec_port_route
LEMMA RouteHands == ASSUME ChainInv, OnceInv, NEW k \in Codecs, PortRoute(k) PROVE Handed(k)
<1> DEFINE c == codec[k]
           pool == CHOOSE s \in [1..Cardinality(Bufs) -> Bufs] : {s[i] : i \in DOMAIN s} = Bufs
           t == [i \in DOMAIN pool |-> Msg(k, pool[i])]
           s == c.out \o t
           F == (c.oflags \cup {"routed"}) \ {"idle"}
           e == PutRoute(c, s, F, call.arg)
           d == Scheduled(e)
<1>1. PICK x \in Gets(k, "route") : Becomes(k, d, <<Answered(x, 0)>>)
  BY DEF PortRoute, PutRoute
<1> DEFINE out == <<Answered(x, 0)>>
           T == {x}
<1>2. Serves(k, x) /\ c.mode = "running" /\ x.op = "route" /\ x.op \in CmdOps
  BY <1>1, GetsServes DEF CmdOps
<1>3. /\ x.msg = Cmd /\ ~Gone(k) /\ ~IsSaved(k) /\ call # None /\ call.on = k /\ call.op = "route"
      /\ Plain(k, T, out) /\ ToApp(out, Cmd) /\ \A y \in Items(out) : y.msg = Cmd
      /\ Neat(c.in, c.out, out)
      /\ \A m : Among(c.in, c.out, out, m) <=> (Among(c.in, c.out, <<>>, m) \/ m = Cmd)
  BY <1>2, CommandNeatly
<1>4. Becomes(k, d, out)
  BY <1>1
<1> HIDE DEF out
<1>5. <<k, call.arg>> \in Edges /\ k \in ready /\ conn[k] = None
  BY <1>3 DEF ChainInv, CallInv
<1>6. /\ c \in CodecType(k) /\ OutputOk(k, c) /\ c.out \in Seq(AllMsgs)
      /\ c.oflags \subseteq Flags.out /\ (Routed(c) => conn[k] = RouteOf(k) /\ RouteOf(k) \in Codecs)
  BY <1>3, Mine DEF CompOk
<1>7. ~Routed(c)
  BY <1>5, <1>6, AppAssumption
<1>8. call.arg \in Codecs /\ k \notin Sinks
  <2> DEFINE a == <<k, call.arg>>
  <2>1. a \in Edges /\ a[1] = k /\ a[2] = call.arg
    BY <1>5
  <2> HIDE DEF a
  <2> QED BY <2>1, EdgeFacts, SinkAssumption
<1>9. c.out = <<>>
  <2> DEFINE r == c.out
  <2>1. r \in Seq(AllMsgs) /\ \A m \in Items(r) : FALSE
    BY <1>3, <1>5, <1>6, <1>7, <1>8, Mine DEF OutputOk, CompOk, TaskOk
  <2> HIDE DEF r
  <2>2. r = <<>>
    BY <2>1, SeqFacts
  <2> QED BY <2>2 DEF r
<1>10. t \in Seq(AllMsgs) /\ \A m \in Items(t) : m \in {Msg(k, what) : what \in Bufs}
  BY PoolSequence
<1>11. Distinct(t) /\ \A buf \in Bufs : Msg(k, buf) \in Items(t)
  BY PoolWhole
<1> HIDE DEF t
<1>12. s = t
  BY <1>9, <1>10
<1>13. F \in SUBSET Flags.out /\ "flushing" \notin F
  <2>1. ~Flushing(c)
    BY <1>6, <1>7 DEF OutputOk
  <2> QED BY <1>6, <2>1 DEF Flags, Flushing
<1> HIDE DEF s, F
<1>14. /\ e \in CodecType(k) /\ SameIn(c, e) /\ e.out = s /\ e.oflags = F
  BY <1>6, <1>8, <1>10, <1>12, <1>13, PutRouteFields
<1> HIDE DEF e
<1>15. SameIn(e, d) /\ SameOut(e, d)
  BY <1>14, ScheduledFields
<1> HIDE DEF d
<1>16. d.in = c.in /\ d.out = t /\ ~Flushing(d)
  BY <1>12, <1>13, <1>14, <1>15 DEF SameIn, SameOut, Flushing
<1>17. ASSUME NEW m \in Items(t)
       PROVE  IsNew(k, m) /\ m # Cmd /\ ~Among(c.in, c.out, <<>>, m)
  <2>1. PICK buf \in Bufs : m = Msg(k, buf)
    BY <1>10
  <2>2. IsNew(k, m)
    BY <1>7, <2>1 DEF IsNew
  <2> QED BY <2>1, <2>2, HandHeld, NewNowhere, ControlFacts
<1>18. /\ Neat(c.in, t, out)
       /\ \A m : Among(c.in, t, out, m) <=> (Among(c.in, c.out, <<>>, m) \/ m = Cmd \/ m \in Items(t))
  <2>1. Items(c.out) = {}
    BY <1>9, EmptyItems
  <2>2. \A m : ~InSeq(<<>>, m)
    BY SingleShort
  <2>3. \A m \in Items(t) : ~InSeq(c.in, m) /\ ~InSeq(out, m)
    BY <1>3, <1>17 DEF Among
  <2>4. Neat(c.in, t, out)
    BY <1>3, <1>10, <1>11, <2>3 DEF Neat
  <2> QED BY <1>3, <2>1, <2>2, <2>4 DEF Among
<1>19. \A y \in Items(out) : Down(k, {x}, d, y)
  BY <1>3 DEF Plain, Down
<1>20. \A m : Among(d.in, d.out, out, m) => Among(c.in, c.out, <<>>, m) \/ m = x.msg \/ IsNew(k, m)
  BY <1>3, <1>16, <1>17, <1>18
<1>21. \A m : (Among(c.in, c.out, <<>>, m) \/ m = x.msg) => Among(d.in, d.out, out, m)
  BY <1>3, <1>16, <1>18
<1>22. ~SavedIn(c)
  BY <1>3 DEF IsSaved, SavedIn
<1>23. \A buf \in Bufs : Msg(k, buf) \in Items(d.out)
  BY <1>11, <1>16
<1>24. Neat(d.in, d.out, out)
  BY <1>16, <1>18
<1> HIDE DEF T, c
<1> QED BY <1>2, <1>3, <1>4, <1>7, <1>16, <1>19, <1>20, <1>21, <1>22, <1>23, <1>24, ServedApart DEF c

\* The flow-control message, if it is not on its way already.
LEMMA FlushNeatly ==
    ASSUME ChainInv, OnceInv, NEW k \in Codecs, ~Gone(k), Routed(codec[k]), "idle" \notin codec[k].oflags,
           NEW T, NEW d, Routed(d), d.route = RouteOf(k), "idle" \notin d.oflags, Flushing(d),
           NEW op \in {"empty", "flush"}
    PROVE  LET c == codec[k]
               s == IF Flushing(c) THEN <<>> ELSE <<Item(RouteOf(k), Control(k), op, 0)>> IN
           /\ s \in Seq(OutType) /\ Neat(c.in, c.out, s)
           /\ \A m : Among(c.in, c.out, s, m) <=> (Among(c.in, c.out, <<>>, m) \/ (m = Control(k) /\ ~Flushing(c)))
           /\ \A y \in Items(s) : Down(k, T, d, y) /\ y.msg = Control(k)
           /\ InSeq(s, Control(k)) \/ Flushing(c)
           /\ ~ToApp(s, Cmd)
<1> DEFINE c == codec[k]
           y == Item(RouteOf(k), Control(k), op, 0)
           s == IF Flushing(c) THEN <<>> ELSE <<y>>
<1>1. /\ s \in Seq(OutType) /\ \A z \in Items(s) : IsSent(k, d, z) /\ z.msg = Control(k)
      /\ ~ToApp(s, Cmd)
  BY FlushSent
<1>2. \A z \in Items(s) : Down(k, T, d, z) /\ z.msg = Control(k)
  BY <1>1 DEF Down
<1>3. CASE Flushing(c)
  <2>1. s = <<>>
    BY <1>3
  <2>2. Neat(c.in, c.out, <<>>)
    BY HeldNeatly
  <2> HIDE DEF s, c
  <2> QED BY <1>1, <1>2, <1>3, <2>1, <2>2 DEF s, c, y
<1>4. CASE ~Flushing(c)
  <2>1. s = <<y>>
    BY <1>4
  <2>2. y.msg = Control(k) /\ y \in OutType
    <3>1. RouteOf(k) \in Codecs
      BY Mine
    <3> QED BY <3>1, ItemFacts, ControlFacts DEF Ops, Lens
  <2> HIDE DEF y
  <2>3. IsNew(k, y.msg)
    BY <1>4, <2>2 DEF IsNew
  <2>4. /\ Neat(c.in, c.out, <<y>>)
        /\ \A m : Among(c.in, c.out, <<y>>, m) <=> (Among(c.in, c.out, <<>>, m) \/ m = y.msg)
    BY <2>2, <2>3, FreshNeatly
  <2>5. InSeq(<<y>>, Control(k))
    <3>1. Items(<<y>>) = {y}
      BY OneItem
    <3> QED BY <2>2, <3>1 DEF InSeq
  <2> HIDE DEF s, c
  <2> QED BY <1>1, <1>2, <1>4, <2>1, <2>2, <2>4, <2>5 DEF s, c, y
<1> QED BY <1>3, <1>4

\* What is at a connected output is its own.
LEMMA OwnOutput ==
    ASSUME ChainInv, NEW k \in Codecs, ~Gone(k), Routed(codec[k])
    PROVE  \A m \in Items(codec[k].out) : FromPool(m) /\ m.of = k /\ m \notin AppMsgs /\ \E buf \in Bufs : m = Msg(k, buf)
<1>1. OutputOk(k, codec[k])
  BY Mine DEF CompOk
<1>2. \A m \in Items(codec[k].out) : m \in {Msg(k, what) : what \in Bufs}
  BY <1>1 DEF OutputOk
<1> QED BY <1>2, ControlFacts

\* xa_codec_port_unroute
LEMMA UnrouteHands == ASSUME ChainInv, OnceInv, NEW k \in Codecs, PortUnroute(k) PROVE Handed(k)
<1> DEFINE c == codec[k]
           b == Cancelled(c)
           e == NoOutput(b)
           f == Flushed(k, e, "flush")
           g == f.c
           fout == f.out
           over == f.done
           h == [g EXCEPT !.oflags = @ \cup {"unrouting"}]
           u == Unrouted(g)
<1>1. PICK x \in Gets(k, "unroute") :
        IF ~Routed(c) THEN Becomes(k, c, <<Answered(x, 0)>>)
        ELSE IF over THEN Becomes(k, u, <<Answered(x, 0)>>)
        ELSE Becomes(k, h, fout)
  BY DEF PortUnroute
<1> DEFINE out == <<Answered(x, 0)>>
           T == {x}
<1>2. Serves(k, x) /\ c.mode = "running" /\ x.op \in CmdOps
  BY <1>1, GetsServes DEF CmdOps
<1>3. /\ x.msg = Cmd /\ x.msg # Control(k) /\ ~Gone(k) /\ ~IsSaved(k)
      /\ Plain(k, T, out) /\ ToApp(out, Cmd) /\ \A y \in Items(out) : y.msg = Cmd
      /\ Neat(c.in, c.out, out)
      /\ \A m : Among(c.in, c.out, out, m) <=> (Among(c.in, c.out, <<>>, m) \/ m = Cmd)
  BY <1>2, CommandNeatly
<1>4. IF ~Routed(c) THEN Becomes(k, c, out) ELSE IF over THEN Becomes(k, u, out) ELSE Becomes(k, h, fout)
  BY <1>1
<1> HIDE DEF out
<1>5. c \in CodecType(k) /\ c.route = RouteOf(k)
  BY <1>3, Mine
<1>6. ~SavedIn(c)
  BY <1>3 DEF IsSaved, SavedIn
<1>7. CASE ~Routed(c)
  <2>1. Becomes(k, c, out)
    BY <1>4, <1>7
  <2> HIDE DEF c
  <2> QED BY <1>2, <1>3, <2>1, ServedBack DEF c
<1>8. CASE Routed(c)
  <2>1. b \in CodecType(k) /\ SameIn(c, b) /\ SameOut(c, b)
    BY <1>5, CancelledFields
  <2> HIDE DEF b
  <2>2. e \in CodecType(k) /\ SameIn(b, e) /\ SameOut(b, e)
    BY <2>1, NoOutputFields
  <2> HIDE DEF e
  <2>3. Routed(e) /\ e.route = RouteOf(k) /\ e.oflags = c.oflags
    BY <1>5, <1>8, <2>1, <2>2 DEF Routed, SameOut
  <2> HIDE DEF f
  <2>4. /\ f.c \in CodecType(k) /\ SameIn(e, f.c)
        /\ f.c.out = e.out /\ f.c.route = e.route
        /\ LET now == "idle" \in e.oflags /\ "flush" # "fill" IN
           /\ f.done <=> now
           /\ now => f.out = <<>> /\ f.c.oflags = e.oflags
           /\ ~now => /\ f.c.oflags = e.oflags \cup {"flushing"}
                      /\ f.out = IF Flushing(e) THEN <<>>
                                 ELSE <<Item(e.route, Control(k), IF "flush" = "fill" THEN "empty" ELSE "flush", 0)>>
    BY <2>2, <2>3, FlushedFacts DEF f
  <2>5. g \in CodecType(k) /\ g.in = c.in /\ g.out = c.out /\ g.route = RouteOf(k)
    BY <1>5, <2>1, <2>2, <2>3, <2>4 DEF SameIn, SameOut
  <2>6. ~over => /\ "idle" \notin c.oflags /\ g.oflags = c.oflags \cup {"flushing"}
                 /\ fout = IF Flushing(c) THEN <<>> ELSE <<Item(RouteOf(k), Control(k), "flush", 0)>>
    BY <2>3, <2>4 DEF Flushing
  <2> HIDE DEF g, over, fout
  <2>7. CASE over
    <3>1. Becomes(k, u, out)
      BY <1>4, <1>8, <2>7
    <3>2. SameIn(g, u) /\ u.out = <<>> /\ u.oflags = {"idle"}
      BY <2>5, UnroutedFields
    <3> HIDE DEF u
    <3>3. u.in = c.in /\ ~Routed(u) /\ ~Flushing(u)
      BY <2>5, <3>2 DEF SameIn, Routed, Flushing
    <3>4. /\ Neat(c.in, <<>>, out)
          /\ \A m : Among(c.in, c.out, out, m) <=> (Among(c.in, <<>>, out, m) \/ m \in Items(c.out))
      BY <1>3, NeatOutput
    <3>5. \A m \in Items(c.out) : FromPool(m) /\ m.of = k /\ m \notin AppMsgs
      BY <1>3, <1>8, OwnOutput
    <3>6. \A y \in Items(out) : Down(k, {x}, u, y)
      BY <1>3 DEF Plain, Down
    <3>7. /\ Neat(u.in, u.out, out)
          /\ \A m : Among(u.in, u.out, out, m) => Among(c.in, c.out, <<>>, m) \/ m = x.msg \/ IsNew(k, m)
          /\ \A m : (Among(c.in, c.out, <<>>, m) \/ m = x.msg)
                  /\ (m \in AppMsgs \ {Cmd} \/ (FromPool(m) /\ m.of # k)) => Among(u.in, u.out, out, m)
      BY <1>3, <3>2, <3>3, <3>4, <3>5
    <3> HIDE DEF T, c
    <3> QED BY <1>2, <1>3, <3>1, <3>3, <3>6, <3>7, ServedApart DEF c
  <2>8. CASE ~over
    <3>1. Becomes(k, h, fout)
      BY <1>4, <1>8, <2>8
    <3>2. h.in = g.in /\ h.out = g.out /\ h.route = g.route /\ h.oflags = g.oflags \cup {"unrouting"}
      BY <2>5 DEF CodecType
    <3> HIDE DEF h
    <3>3. /\ h.in = c.in /\ h.out = c.out /\ h.route = RouteOf(k)
          /\ h.oflags = (c.oflags \cup {"flushing"}) \cup {"unrouting"}
      BY <2>5, <2>6, <2>8, <3>2
    <3>4. Routed(h) /\ Flushing(h) /\ Unrouting(h) /\ "idle" \notin h.oflags
      BY <1>8, <2>6, <2>8, <3>3 DEF Routed, Flushing, Unrouting
    <3>5. /\ Neat(c.in, c.out, fout)
          /\ \A m : Among(c.in, c.out, fout, m) <=>
               (Among(c.in, c.out, <<>>, m) \/ (m = Control(k) /\ ~Flushing(c)))
          /\ \A y \in Items(fout) : Down(k, {x}, h, y)
          /\ InSeq(fout, Control(k)) \/ Flushing(c)
      BY <1>3, <1>8, <2>6, <2>8, <3>3, <3>4, FlushNeatly
    <3>6. /\ Neat(h.in, h.out, fout)
          /\ \A m : Among(h.in, h.out, fout, m) => Among(c.in, c.out, <<>>, m) \/ m = x.msg \/ IsNew(k, m)
          /\ \A m : (Among(c.in, c.out, <<>>, m) \/ m = x.msg) /\ m # Cmd => Among(h.in, h.out, fout, m)
      BY <1>3, <3>3, <3>5 DEF IsNew
    <3>7. SavedIn(h)
      BY <3>4 DEF SavedIn
    <3> HIDE DEF T, c
    <3> QED BY <1>2, <1>3, <1>5, <1>8, <3>1, <3>3, <3>4, <3>5, <3>6, <3>7, ServedOn DEF c
  <2> QED BY <2>7, <2>8
<1> QED BY <1>7, <1>8

\* The flow-control message after other messages.
LEMMA FlushNeatlyAfter ==
    ASSUME ChainInv, OnceInv, NEW k \in Codecs, ~Gone(k), Routed(codec[k]), "idle" \notin codec[k].oflags,
           NEW T, NEW d, Routed(d), d.route = RouteOf(k), "idle" \notin d.oflags, Flushing(d),
           NEW op \in {"empty", "flush"}, NEW i, NEW u, NEW o, Neat(i, u, o),
           \A m : Among(i, u, o, m) => InSeq(codec[k].in, m) \/ m \in Items(codec[k].out)
    PROVE  LET c == codec[k]
               s == IF Flushing(c) THEN <<>> ELSE <<Item(RouteOf(k), Control(k), op, 0)>> IN
           /\ s \in Seq(OutType) /\ Neat(i, u, o \o s)
           /\ \A m : Among(i, u, o \o s, m) <=> (Among(i, u, o, m) \/ (m = Control(k) /\ ~Flushing(c)))
           /\ \A y \in Items(s) : Down(k, T, d, y) /\ y.msg = Control(k)
           /\ InSeq(o \o s, Control(k)) \/ Flushing(c)
           /\ ~ToApp(s, Cmd)
<1> DEFINE c == codec[k]
           y == Item(RouteOf(k), Control(k), op, 0)
           s == IF Flushing(c) THEN <<>> ELSE <<y>>
           r == o \o s
<1>1. /\ s \in Seq(OutType)
      /\ \A z \in Items(s) : Down(k, T, d, z) /\ z.msg = Control(k)
      /\ ~ToApp(s, Cmd)
  BY FlushNeatly
<1>2. o \in Seq(OutType)
  BY DEF Neat
<1>3. CASE Flushing(c)
  <2>1. r = o
    BY <1>2, <1>3
  <2> HIDE DEF r, s, c
  <2> QED BY <1>1, <1>3, <2>1 DEF r, s, c, y
<1>4. CASE ~Flushing(c)
  <2>1. s = <<y>>
    BY <1>4
  <2>2. y.msg = Control(k) /\ y \in OutType
    <3>1. RouteOf(k) \in Codecs
      BY Mine
    <3> QED BY <3>1, ItemFacts, ControlFacts DEF Ops, Lens
  <2> HIDE DEF y
  <2>3. ~Among(i, u, o, y.msg)
    <3>1. IsNew(k, y.msg)
      BY <1>4, <2>2 DEF IsNew
    <3>2. ~Among(c.in, c.out, <<>>, y.msg)
      BY <3>1, HandHeld, NewNowhere
    <3> QED BY <3>2 DEF Among
  <2>4. /\ Neat(i, u, o \o <<y>>)
        /\ \A m : Among(i, u, o \o <<y>>, m) <=> (Among(i, u, o, m) \/ m = y.msg)
    BY <2>2, <2>3, NeatOne
  <2>5. InSeq(o \o <<y>>, Control(k))
    <3> DEFINE t == <<y>>
    <3>1. Items(t) = {y} /\ t \in Seq(OutType)
      BY <2>2, OneItem
    <3> HIDE DEF t
    <3>2. Items(o \o t) = Items(o) \cup Items(t)
      BY <1>2, <3>1, Joined
    <3> QED BY <2>2, <3>1, <3>2 DEF InSeq, t
  <2> HIDE DEF s, c
  <2> QED BY <1>1, <1>4, <2>1, <2>2, <2>4, <2>5 DEF s, c, y
<1> QED BY <1>3, <1>4

\* xa_codec_flush at the input port
LEMMA FlushInputHands == ASSUME ChainInv, OnceInv, NEW k \in Codecs, FlushInput(k) PROVE Handed(k)
<1> DEFINE c == codec[k]
           a == Cancelled(c)
           p == Purged(a).c
           pout == Purged(a).out
           S == p.state \ {"input_setup"}
           e == PutState(p, S)
           g == Flushed(k, e, "flush")
           f == g.c
           fout == g.out
           done == g.done
           over == Toggled(f.state, {"execution", "completed"})
                   \cup (IF OutReady(e) THEN {"eos_seq_done"} ELSE {})
           F == Toggled(f.iflags, {"purging"})
<1>1. PICK x \in Gets(k, "flush") :
        /\ x.msg # Control(k)
        /\ IF done
           THEN Becomes(k, IF Routed(f) THEN f ELSE PutState(f, over), pout \o fout \o <<Answered(x, x.len)>>)
           ELSE Becomes(k, Put(f, Append(f.in, x), F), pout \o fout)
  BY DEF FlushInput, PutState, Put
<1> DEFINE T == {x}
           y == Answered(x, x.len)
           ans == <<y>>
           r == pout \o fout
           out == r \o ans
           d1 == PutState(f, over)
           d3 == Put(f, Append(f.in, x), F)
<1>2. Serves(k, x) /\ c.mode = "running" /\ x.op = "flush" /\ ~Gone(k)
  BY GetsServes DEF Serves
<1>3. /\ x \in ItemType /\ FromPool(x.msg) /\ x.len = 0 /\ ~Of(x, k) /\ x.msg # Cmd /\ x.msg # Control(k)
      /\ ans \in Seq(OutType) /\ Plain(k, T, ans)
  <2>1. x.msg # Control(k)
    BY <1>1
  <2>2. /\ x \in ItemType /\ FromPool(x.msg) /\ x.len = 0 /\ ~Of(x, k)
        /\ ans \in Seq(OutType) /\ Plain(k, T, ans)
    BY <1>2, <2>1, FlushGiven
  <2>3. x.msg # Cmd
    BY <2>2, AppMsgFacts
  <2> HIDE DEF ans
  <2> QED BY <2>1, <2>2, <2>3
<1>4. y \in OutType /\ y.msg = x.msg
  BY <1>2, <1>3, GivenAnswered
<1>5. IF done THEN Becomes(k, IF Routed(f) THEN f ELSE d1, out) ELSE Becomes(k, d3, r)
  BY <1>1
<1> HIDE DEF y
<1>6. c \in CodecType(k) /\ OutputOk(k, c) /\ c.route = RouteOf(k) /\ ~Initial(c)
      /\ Neat(c.in, c.out, <<>>) /\ ~Among(c.in, c.out, <<>>, x.msg)
  <2>1. ~Initial(c)
    BY <1>2, <1>3, FlushGiven
  <2>2. Neat(c.in, c.out, <<>>) /\ ~Among(c.in, c.out, <<>>, x.msg)
    BY <1>2, ServedAll
  <2> QED BY <1>2, <2>1, <2>2, Mine DEF CompOk
<1>7. a \in CodecType(k) /\ SameMode(c, a) /\ SameOut(c, a) /\ a.in = c.in
      /\ Items(a.in) \subseteq Items(codec[k].in) /\ \A z, v : Ahead(a.in, z, v) => Ahead(codec[k].in, z, v)
  <2>1. a \in CodecType(k) /\ SameMode(c, a) /\ SameIn(c, a) /\ SameOut(c, a)
    BY <1>6, CancelledFields
  <2> QED BY <2>1 DEF SameIn
<1> HIDE DEF a
<1>8. /\ p \in CodecType(k) /\ SameMode(a, p) /\ SameOut(a, p) /\ p.in = <<>>
      /\ pout \in Seq(OutType) /\ Plain(k, T, pout)
  BY <1>7, PurgedFacts
<1>9. /\ Neat(<<>>, c.out, pout)
      /\ \A m : Among(<<>>, c.out, pout, m) <=> Among(c.in, c.out, <<>>, m)
  <2>1. /\ Neat(<<>>, c.out, <<>> \o pout)
        /\ \A m : Among(<<>>, c.out, <<>> \o pout, m) <=> Among(c.in, c.out, <<>>, m)
    BY <1>6, <1>7, <1>8, PurgedNeatly
  <2> HIDE DEF pout
  <2>2. <<>> \o pout = pout
    BY <1>8
  <2> QED BY <2>1, <2>2
<1> HIDE DEF p, pout
<1>10. S \in SUBSET Flags.state
  BY <1>8 DEF CodecType
<1> HIDE DEF S
<1>11. e \in CodecType(k) /\ SameMode(p, e) /\ SameIn(p, e) /\ SameOut(p, e)
  BY <1>8, <1>10, PutStateFields
<1> HIDE DEF e
<1>12. /\ e.in = <<>> /\ e.out = c.out /\ e.oflags = c.oflags /\ e.route = RouteOf(k)
  BY <1>6, <1>7, <1>8, <1>11 DEF SameIn, SameOut
<1>13. ASSUME NEW d, NEW u, Neat(<<>>, u, r), \A m : Among(<<>>, u, r, m) <=> Among(c.in, c.out, <<>>, m),
              r \in Seq(OutType), Plain(k, T, r), Becomes(k, d, out),
              d.in = <<>>, d.out = u, d.oflags = c.oflags, d.route = c.route
       PROVE  Handed(k)
  <2> HIDE DEF r
  <2>1. Plain(k, T, out)
    BY <1>3, <1>13, PlainJoined
  <2>2. Neat(<<>>, u, out) /\ \A m : Among(<<>>, u, out, m) <=> (Among(<<>>, u, r, m) \/ m = y.msg)
    BY <1>4, <1>6, <1>13, NeatOne
  <2>3. /\ Neat(d.in, d.out, out)
        /\ \A m : Among(d.in, d.out, out, m) <=> (Among(c.in, c.out, <<>>, m) \/ m = x.msg)
    BY <1>4, <1>13, <2>2
  <2> HIDE DEF out, c
  <2> QED BY <1>2, <1>3, <1>13, <2>1, <2>3, ServedBack DEF c
<1>14. CASE ~Routed(c)
  <2>1. ~Routed(e) /\ \A m \in Items(e.out) : m = Msg(k, "out") /\ k \in Sinks
    BY <1>6, <1>12, <1>14 DEF Routed, OutputOk
  <2>2. /\ f \in CodecType(k) /\ SameIn(e, f)
        /\ f.out = <<>> /\ f.route = e.route /\ f.oflags = e.oflags /\ done
        /\ fout \in Seq(OutType) /\ Plain(k, T, fout)
    <3>1. LET h == Flushed(k, e, "flush") IN
          /\ h.c \in CodecType(k) /\ SameMode(e, h.c) /\ SameTask(e, h.c) /\ SameIn(e, h.c)
          /\ h.c.out = <<>> /\ h.c.route = e.route /\ h.c.oflags = e.oflags
          /\ h.done
          /\ h.out \in Seq(OutType) /\ Plain(k, T, h.out) /\ Ordered(h.out)
          /\ \A z \in Items(h.out) : z.msg = Msg(k, "out") /\ ~IsControl(z) /\ ~FromPool(z.msg)
      <4>1. e \in CodecType(k)
        BY <1>11
      <4>2. ~Routed(e) /\ \A m \in Items(e.out) : m = Msg(k, "out") /\ k \in Sinks
        BY <2>1
      <4> HIDE DEF c, T, e
      <4> QED BY <4>1, <4>2, UnroutedFlush
    <3> QED BY <3>1
  <2>3. DOMAIN fout = DOMAIN c.out /\ \A j \in DOMAIN c.out : fout[j].msg = c.out[j]
    <3>1. fout = [j \in DOMAIN e.out |-> Item(App, e.out[j], "fill", 0)]
      BY <2>1 DEF Flushed, Routed
    <3> HIDE DEF fout
    <3> QED BY <1>12, <3>1, ItemFacts
  <2> HIDE DEF f, fout, done
  <2>4. Becomes(k, d1, out)
    BY <1>5, <1>12, <1>14, <2>2 DEF Routed
  <2>5. d1.in = <<>> /\ d1.out = <<>> /\ d1.oflags = c.oflags /\ d1.route = c.route
    <3>1. over \in SUBSET Flags.state
      BY <2>2 DEF CodecType, Toggled, Flags
    <3> HIDE DEF over
    <3>2. SameIn(f, d1) /\ SameOut(f, d1)
      BY <2>2, <3>1, PutStateFields
    <3> HIDE DEF d1
    <3> QED BY <1>6, <1>12, <2>2, <3>2 DEF SameIn, SameOut
  <2> HIDE DEF d1, out
  <2>6. r \in Seq(OutType) /\ Plain(k, T, r)
    BY <1>8, <2>2, PlainJoined
  <2>7. /\ Neat(<<>>, <<>>, pout \o fout)
        /\ \A m : Among(<<>>, <<>>, pout \o fout, m) <=> Among(<<>>, c.out, pout, m)
    BY <1>9, <2>2, <2>3, NeatOutput
  <2> QED BY <1>9, <1>13, <2>4, <2>5, <2>6, <2>7
<1>15. CASE Routed(c)
  <2>1. Routed(e)
    BY <1>12, <1>15 DEF Routed
  <2> HIDE DEF g
  <2>2. /\ g.c \in CodecType(k) /\ SameIn(e, g.c)
        /\ g.c.out = e.out /\ g.c.route = e.route
        /\ LET now == "idle" \in e.oflags /\ "flush" # "fill" IN
           /\ g.done <=> now
           /\ now => g.out = <<>> /\ g.c.oflags = e.oflags
           /\ ~now => /\ g.c.oflags = e.oflags \cup {"flushing"}
                      /\ g.out = IF Flushing(e) THEN <<>>
                                 ELSE <<Item(e.route, Control(k), IF "flush" = "fill" THEN "empty" ELSE "flush", 0)>>
    BY <1>11, <2>1, FlushedFacts DEF g
  <2>3. /\ f \in CodecType(k) /\ f.in = <<>> /\ f.out = c.out /\ f.route = RouteOf(k)
    BY <1>12, <2>2 DEF SameIn
  <2>4. /\ done => fout = <<>> /\ f.oflags = c.oflags
        /\ ~done => /\ "idle" \notin c.oflags /\ f.oflags = c.oflags \cup {"flushing"}
                    /\ fout = IF Flushing(c) THEN <<>> ELSE <<Item(RouteOf(k), Control(k), "flush", 0)>>
    BY <1>12, <2>2 DEF Flushing
  <2>5. Routed(f)
    BY <1>15, <2>4 DEF Routed
  <2> HIDE DEF f, fout, done
  <2>6. CASE done
    <3>1. r = pout
      BY <1>8, <2>4, <2>6
    <3>2. Becomes(k, f, out)
      BY <1>5, <2>5, <2>6
    <3> HIDE DEF out, r
    <3> QED BY <1>6, <1>8, <1>9, <1>13, <2>3, <2>4, <2>6, <3>1, <3>2
  <2>7. CASE ~done
    <3>1. Becomes(k, d3, r)
      BY <1>5, <2>7
    <3> DEFINE s == Append(f.in, x)
    <3>2. s = Append(<<>>, x) /\ s \in Seq(ItemType)
      BY <1>3, <2>3
    <3>3. F \in SUBSET Flags.in
      BY <2>3 DEF CodecType, Toggled, Flags
    <3> HIDE DEF s, F
    <3>4. d3 = Put(f, s, F)
      BY DEF s
    <3> HIDE DEF d3
    <3>5. SameOut(f, d3) /\ d3.in = s
      BY <2>3, <3>2, <3>3, <3>4, PutFields
    <3>6. d3.out = c.out /\ d3.oflags = c.oflags \cup {"flushing"} /\ d3.route = RouteOf(k)
      BY <2>3, <2>4, <2>7, <3>5 DEF SameOut
    <3>7. Routed(d3) /\ Flushing(d3) /\ "idle" \notin d3.oflags /\ (Unrouting(c) => Unrouting(d3))
      BY <1>15, <2>4, <2>7, <3>6 DEF Routed, Flushing, Unrouting
    <3>8. /\ fout \in Seq(OutType) /\ Neat(<<>>, c.out, r)
          /\ \A m : Among(<<>>, c.out, r, m) <=> (Among(<<>>, c.out, pout, m) \/ (m = Control(k) /\ ~Flushing(c)))
          /\ \A z \in Items(fout) : Down(k, T, d3, z)
          /\ InSeq(r, Control(k)) \/ Flushing(c)
      <4>1. fout = IF Flushing(codec[k]) THEN <<>> ELSE <<Item(RouteOf(k), Control(k), "flush", 0)>>
        BY <2>4, <2>7
      <4>2. \A m : Among(<<>>, c.out, pout, m) => InSeq(codec[k].in, m) \/ m \in Items(codec[k].out)
        BY <1>9, SingleShort DEF Among
      <4>3. "idle" \notin codec[k].oflags
        BY <2>4, <2>7
      <4> HIDE DEF T
      <4> QED BY <1>2, <1>9, <1>15, <3>6, <3>7, <4>1, <4>2, <4>3, FlushNeatlyAfter
    <3>9. \A z \in Items(r) : Down(k, {x}, d3, z)
      <4>1. Items(r) = Items(pout) \cup Items(fout)
        BY <1>8, <3>8, PlainJoined
      <4> QED BY <1>8, <3>8, <4>1 DEF Plain, Down
    <3> HIDE DEF r
    <3>10. ~Among(<<>>, c.out, r, x.msg)
      BY <1>3, <1>6, <1>9, <3>8
    <3>11. /\ Neat(s, c.out, r)
           /\ \A m : Among(s, c.out, r, m) <=> (Among(<<>>, c.out, r, m) \/ m = x.msg)
      BY <1>3, <3>2, <3>8, <3>10, NeatOne
    <3>12. /\ Neat(d3.in, d3.out, r)
           /\ \A m : Among(d3.in, d3.out, r, m) => Among(c.in, c.out, <<>>, m) \/ m = x.msg \/ IsNew(k, m)
           /\ \A m : (Among(c.in, c.out, <<>>, m) \/ m = x.msg) => Among(d3.in, d3.out, r, m)
      BY <1>9, <3>5, <3>6, <3>8, <3>11 DEF IsNew
    <3> HIDE DEF T, c
    <3> QED BY <1>2, <1>3, <1>6, <1>15, <3>1, <3>6, <3>7, <3>8, <3>9, <3>12, ServedOn DEF c
  <2> QED BY <2>6, <2>7
<1> QED BY <1>14, <1>15

\* A flush that passes comes from above the component whose call is waiting.
LEMMA NoneBelowWaits ==
    ASSUME ChainInv, NEW k \in Codecs, Routed(codec[k]), FlushAbroad(k)
    PROVE  codec[RouteOf(k)].mode # "terminating"
<1> DEFINE r == RouteOf(k)
           e == <<k, r>>
<1> SUFFICES ASSUME codec[r].mode = "terminating" PROVE FALSE
  OBVIOUS
<1>1. e \in Edges /\ e[1] = k /\ e[2] = r
  BY DEF ChainInv, PoolInv, RouteInv
<1> HIDE DEF e
<1>2. Depth[k] < Depth[r] /\ r \in Codecs
  BY <1>1, DepthFacts, EdgeFacts
<1>3. PICK i \in Codecs : IsSaved(i) /\ Depth[i] <= Depth[k]
  BY FlushIsForCall DEF ChainInv, SavedAbove
<1>4. IsSaved(r)
  BY DEF IsSaved
<1> HIDE DEF r
<1>5. i = r
  BY <1>2, <1>3, <1>4 DEF ChainInv, CallInv
<1> QED BY <1>2, <1>3, <1>5, DepthFacts

\* xa_codec_flush at the output port
LEMMA FlushReturnsHands == ASSUME ChainInv, OnceInv, NEW k \in Codecs, FlushReturns(k) PROVE Handed(k)
<1> DEFINE c == codec[k]
           l == LocalLeft(WorkerOf[k])
           q == QueueLeft(WorkerOf[k])
           a == FlushDone(c)
           f == NoOutput(a)
           F == Toggled(f.iflags, {"purging"})
           d1 == Unrouted(c)
           d2 == Put(f, Tail(f.in), F)
           out1 == <<CmdDone("unroute")>>
           out2 == <<Answered(Head(c.in), 0)>>
<1>1. PICK x \in Gets(k, "flush") :
        /\ x.msg = Control(k)
        /\ IF Unrouting(c) THEN Becomes(k, d1, out1) ELSE Becomes(k, d2, out2)
  BY DEF FlushReturns, Put, Unrouting
<1> DEFINE T == {x}
<1>2. Serves(k, x) /\ c.mode = "running" /\ x.op = "flush" /\ ~Gone(k) /\ x.msg = Control(k)
  BY <1>1, GetsServes DEF Serves
<1>3. Of(x, k) /\ Flushing(c) /\ Routed(c) /\ "idle" \notin c.oflags
  BY <1>2, ControlGiven
<1>4. c \in CodecType(k) /\ InputOk(c) /\ c.in \in Seq(ItemType) /\ c.route = RouteOf(k)
  BY <1>2, Mine DEF CompOk
<1>5. FlushAbroad(k) /\ FlushOk(c)
  <2>1. FlushAbroad(k)
    BY <1>2, <1>3, ServedKinds DEF FlushAbroad, IsFlush
  <2> QED BY <2>1 DEF ChainInv, FlushInv
<1>6. SavedIn(c) <=> Unrouting(c)
  BY <1>2 DEF SavedIn
<1>7. x.msg # Cmd
  BY <1>2, ControlFacts
<1>8. CASE Unrouting(c)
  <2>1. Becomes(k, d1, out1)
    BY <1>1, <1>8
  <2>2. SameIn(c, d1) /\ d1.out = <<>> /\ d1.oflags = {"idle"}
    BY <1>4, UnroutedFields
  <2> HIDE DEF d1
  <2>3. d1.in = c.in /\ ~Routed(d1) /\ ~Flushing(d1)
    BY <2>2 DEF SameIn, Routed, Flushing
  <2>4. Plain(k, T, out1) /\ ToApp(out1, Cmd)
    BY CmdReplied DEF Ops
  <2>5. \A y \in Items(out1) : Down(k, {x}, d1, y)
    BY <2>4 DEF Plain, Down
  <2> DEFINE y == CmdDone("unroute")
  <2>6. y.msg = Cmd /\ y \in OutType
    <3>1. "unroute" \in Ops
      BY DEF Ops
    <3> QED BY <3>1, CmdOut
  <2> HIDE DEF y
  <2>7. IsNew(k, y.msg)
    BY <1>6, <1>8, <2>6 DEF IsNew
  <2>8. /\ Neat(c.in, c.out, <<y>>)
        /\ \A m : Among(c.in, c.out, <<y>>, m) <=> (Among(c.in, c.out, <<>>, m) \/ m = y.msg)
    BY <1>2, <2>6, <2>7, FreshNeatly
  <2>9. /\ Neat(c.in, <<>>, out1)
        /\ \A m : Among(c.in, <<>>, out1, m) => Among(c.in, c.out, <<>>, m) \/ m = Cmd
        /\ \A m : Among(c.in, c.out, <<>>, m) => Among(c.in, <<>>, out1, m) \/ m \in Items(c.out)
    <3>1. /\ Neat(c.in, <<>>, <<y>>)
          /\ \A m : Among(c.in, c.out, <<y>>, m) <=> (Among(c.in, <<>>, <<y>>, m) \/ m \in Items(c.out))
      BY <2>8, NeatOutput
    <3>2. out1 = <<y>>
      BY DEF y
    <3> HIDE DEF out1
    <3> QED BY <2>6, <2>8, <3>1, <3>2
  <2> HIDE DEF out1
  <2>10. \A m \in Items(c.out) : FromPool(m) /\ m.of = k /\ m \notin AppMsgs
    BY <1>2, <1>3, OwnOutput
  <2>11. \A m : (Among(c.in, c.out, <<>>, m) \/ m = x.msg)
              /\ (m \in AppMsgs \ {Cmd} \/ (FromPool(m) /\ m.of # k)) => Among(d1.in, d1.out, out1, m)
    BY <1>2, <2>2, <2>3, <2>9, <2>10, ControlFacts
  <2>12. /\ Neat(d1.in, d1.out, out1)
         /\ \A m : Among(d1.in, d1.out, out1, m) => Among(c.in, c.out, <<>>, m) \/ m = x.msg \/ IsNew(k, m)
    BY <2>2, <2>3, <2>6, <2>7, <2>9
  <2> HIDE DEF T, c
  <2> QED BY <1>2, <1>7, <2>1, <2>3, <2>4, <2>5, <2>11, <2>12, ServedApart DEF c
<1>9. CASE ~Unrouting(c)
  <2>1. Becomes(k, d2, out2)
    BY <1>1, <1>9
  <2>2. Purging(c)
    BY <1>2, <1>5, <1>9 DEF FlushOk, Waiting
  <2>3. PICK z \in Items(c.in) : c.in = <<z>> /\ z.op = "flush"
    BY <1>4, <2>2 DEF InputOk
  <2>4. Head(c.in) = z /\ Tail(c.in) = <<>>
    BY <2>3
  <2>5. /\ a \in CodecType(k) /\ SameMode(c, a) /\ SameIn(c, a)
        /\ a.out = c.out /\ a.route = c.route
        /\ a.oflags = (c.oflags \ {"idle", "flushing"}) \cup ({"idle", "flushing"} \ c.oflags)
    BY <1>4, FlushDoneFields
  <2> HIDE DEF a
  <2>6. f \in CodecType(k) /\ SameMode(a, f) /\ SameIn(a, f) /\ SameOut(a, f)
    BY <2>5, NoOutputFields
  <2> DEFINE s == Tail(f.in)
  <2> HIDE DEF f
  <2>7. f.in = c.in
    BY <2>5, <2>6 DEF SameIn
  <2>8. s = <<>>
    BY <2>4, <2>7
  <2>9. s \in Seq(ItemType)
    <3>1. <<>> \in Seq(ItemType)
      OBVIOUS
    <3> HIDE DEF s
    <3> QED BY <2>8, <3>1
  <2>10. F \in SUBSET Flags.in
    BY <2>6 DEF CodecType, Toggled, Flags
  <2>11. d2 = Put(f, s, F)
    OBVIOUS
  <2> HIDE DEF s, F, d2
  <2>12. SameMode(f, d2) /\ SameOut(f, d2) /\ d2.in = s
    BY <2>6, <2>9, <2>10, <2>11, PutFields
  <2>13. /\ d2.in = <<>> /\ d2.out = c.out /\ d2.route = c.route
         /\ d2.oflags = (c.oflags \ {"flushing"}) \cup {"idle"}
    <3>1. a.oflags = (c.oflags \ {"flushing"}) \cup {"idle"}
      BY <1>3, <2>5 DEF Flushing
    <3> QED BY <2>5, <2>6, <2>8, <2>12, <3>1 DEF SameOut
  <2>14. Routed(d2) /\ ~Flushing(d2)
    BY <1>3, <2>13 DEF Routed, Flushing
  <2> DEFINE y == Answered(z, 0)
             p == <<y>>
  <2>15. y \in OutType /\ y.msg = z.msg /\ (AppReply(k, y) \/ Reply(k, T, y))
    BY <2>3, InputAnswered
  <2>16. out2 = p
    BY <2>4
  <2> HIDE DEF y, out2
  <2>17. \A v \in Items(p) : Down(k, T, d2, v)
    <3>1. Items(p) = {y}
      BY OneItem
    <3> QED BY <2>15, <3>1 DEF Down
  <2>18. /\ Neat(<<>>, c.out, p)
         /\ \A m : Among(<<>>, c.out, p, m) <=> Among(c.in, c.out, <<>>, m)
    <3>1. DOMAIN p = DOMAIN c.in /\ \A j \in DOMAIN c.in : p[j].msg = c.in[j].msg
      BY <2>3, <2>15
    <3>2. p \in Seq(OutType) /\ <<>> \o p = p
      BY <2>15
    <3>3. Neat(c.in, c.out, <<>>)
      BY <1>2, HeldNeatly
    <3> HIDE DEF p, c
    <3>4. Neat(<<>>, c.out, <<>> \o p) /\ \A m : Among(<<>>, c.out, <<>> \o p, m) <=> Among(c.in, c.out, <<>>, m)
      BY <3>1, <3>2, <3>3, NeatPurged
    <3> QED BY <3>2, <3>4
  <2>19. Steps(k, T, l, q, d2, p)
    BY <1>2, <2>1, <2>16, ServesSteps
  <2>20. TakesAll(k, T, l, q) /\ \A m : InHand(k, T, m) <=> (Among(c.in, c.out, <<>>, m) \/ m = Control(k))
    BY <1>2, ServedAll
  <2> HIDE DEF p
  <2>21. \A m : Among(d2.in, d2.out, p, m) <=> Among(c.in, c.out, <<>>, m)
    BY <2>13, <2>18
  <2>22. KeepsMessages(k, T, d2, p)
    <3>1. \A v \in Items(p) : Mail(k, d2, v)
      <4>1. p \in Seq(OutType) /\ Takes(k, T, l, q)
        BY <2>18, <2>19 DEF Neat, Steps
      <4> QED BY <1>2, <2>17, <4>1, MailFrom
    <3>2. ~HasMsg(T, Cmd)
      BY <1>7 DEF HasMsg
    <3>3. ~SavedIn(c)
      BY <1>6, <1>9
    <3>4. Neat(d2.in, d2.out, p)
      BY <2>13, <2>18
    <3>5. Control(k) \notin AppMsgs /\ Control(k).of = k
      BY ControlFacts
    <3> HIDE DEF T
    <3> QED BY <2>20, <2>21, <3>1, <3>2, <3>3, <3>4, <3>5 DEF KeepsMessages
  <2>23. KeepsPool(k, T, d2, p)
    <3>1. codec[RouteOf(k)].mode # "terminating"
      BY <1>3, <1>5, NoneBelowWaits
    <3>2. x \in T /\ x.msg = Control(k)
      BY <1>2
    <3>3. \A buf \in Bufs : InHand(k, T, Msg(k, buf)) => Among(d2.in, d2.out, p, Msg(k, buf))
      BY <2>20, <2>21, ControlFacts
    <3> HIDE DEF T
    <3> QED BY <1>2, <1>3, <1>9, <2>13, <2>14, <3>1, <3>2, <3>3 DEF KeepsPool
  <2> HIDE DEF T, l, q
  <2>24. Hands(k, T, l, q, d2, p)
    BY <2>19, <2>20, <2>22, <2>23 DEF Hands
  <2> QED BY <2>24 DEF Handed
<1> QED BY <1>8, <1>9

-----------------------------------------------------------------------------
(* Deletion.                                                               *)

\* What waits for a component that goes returns, each once.
LEMMA ReturnsNeatly ==
    ASSUME ChainInv, OnceInv, NEW k \in Codecs, NEW x, MayGo(k, x), NEW r \in Seq(OutType),
           Items(r) = Items(Bounce(k)), \A y, z : Ahead(r, y, z) => Ahead(Bounce(k), y, z)
    PROVE  LET left == QueueLeft(WorkerOf[k])
               Waits(m) == \E z \in Items(left) : z.to = k /\ z.msg = m IN
           /\ Single(r) /\ \A m : InSeq(r, m) <=> Waits(m)
           /\ \A y \in Items(r) : Mail(k, Destroyed, y)
           /\ Single(left) /\ Items(left) \subseteq Items(queue[WorkerOf[k]])
           /\ \A m : Waits(m) => /\ Has("queue", WorkerOf[k], m) /\ m # x.msg
                                 /\ ~Among(codec[k].in, codec[k].out, <<>>, m)
<1> DEFINE w == WorkerOf[k]
           left == QueueLeft(w)
           Waits(m) == \E z \in Items(left) : z.to = k /\ z.msg = m
           T == AllGiven(k, x)
           c == codec[k]
<1>1. /\ Serves(k, x) /\ w \in Workers /\ TypeInv /\ PoolInv
      /\ Takes(k, {x}, LocalLeft(w), left) /\ TakesAll(k, {x}, LocalLeft(w), left)
  BY ServesOne, ServedAll DEF MayGo, ChainInv, Workers
<1>2. left \in Seq(ItemType) /\ Items(left) \subseteq Items(queue[w]) /\ Single(left)
  BY <1>1 DEF Takes, OnceInv, Single
<1>3. ASSUME NEW z \in Items(left), z.to = k
      PROVE  /\ Returned(z) \in OutType /\ Returned(z).msg = z.msg
             /\ Returned(z) \in Items(Bounce(k)) /\ Mail(k, Destroyed, Returned(z))
  <2> DEFINE y == Returned(z)
  <2>1. /\ y \in OutType /\ y.msg = z.msg
        /\ \/ AppReply(k, y)
           \/ /\ \A U : z \in U => IsAnswer(k, U, Destroyed, y)
              /\ WorkerOf[y.to] # WorkerOf[k]
        /\ ~FromPool(z.msg) => y.to = App
    BY <1>3, WhatReturns
  <2>2. FromPool(z.msg) => y.len = Invalid
    <3>1. z \in OutType
      BY <1>2, <1>3, SeqFacts, ItemFacts
    <3> QED BY <3>1, AnswerFacts DEF Returned, Lens
  <2>3. ~FromPool(z.msg) => Origin(z.msg) = App
    BY DEF Origin
  <2> HIDE DEF y
  <2>4. CASE AppReply(k, y)
    <3>1. ~FromPool(z.msg)
      BY <2>1, <2>4, MsgFacts DEF AppReply
    <3>2. y \in Items(Bounce(k))
      BY <1>3, <2>3, <3>1, BounceFacts DEF y
    <3> QED BY <2>1, <2>4, <3>2 DEF AppReply, Mail, y
  <2>5. CASE \A U : z \in U => IsAnswer(k, U, Destroyed, y)
    <3>1. Takes(k, {z}, <<>>, <<>>)
      <4>1. z \in ItemType /\ z \in Items(queue[w])
        BY <1>2, <1>3, SeqFacts
      <4>2. <<>> \in Seq(ItemType)
        OBVIOUS
      <4>3. ~Gone(k)
        BY <1>1 DEF Takes
      <4> DEFINE nil == <<>>
      <4>4. nil \in Seq(ItemType) /\ Items(nil) = {} /\ \A a, b : ~Ahead(nil, a, b)
        BY <4>2, EmptyItems
      <4> HIDE DEF nil
      <4>5. Takes(k, {z}, nil, nil)
        BY <1>3, <4>1, <4>3, <4>4 DEF Takes
      <4> QED BY <4>5 DEF nil
    <3>2. IsAnswer(k, {z}, Destroyed, y)
      BY <2>5
    <3>3. /\ y.msg.of \in Codecs /\ y.msg.of # k /\ y.to = y.msg.of
          /\ RouteOf(y.msg.of) = k /\ ~Gone(y.msg.of)
          /\ \E v \in ItemType :
               /\ v.msg = y.msg /\ IsAbroad(v) /\ v.to = k
               /\ (v \in {z} /\ IsForth(v)) \/ v \in Items(codec[k].in)
      BY <1>1, <3>1, <3>2, AnswerFor
    <3>4. FromPool(y.msg) /\ IsBack(y)
      BY <3>2 DEF IsAnswer
    <3>5. Destroyed.mode = "gone"
      BY DEF Destroyed, Configured
    <3>6. \E v : IsAbroad(v) /\ v.msg = y.msg /\ (IsForth(v) \/ AtInput(v))
      BY <3>3 DEF AtInput
    <3>7. Mail(k, Destroyed, y)
      BY <2>1, <2>2, <3>3, <3>4, <3>5, <3>6 DEF Mail
    <3>8. y \in Items(Bounce(k))
      BY <1>3, <3>3, BounceFacts DEF Alive, y
    <3> QED BY <2>1, <3>7, <3>8 DEF y
  <2> QED BY <2>1, <2>4, <2>5
<1> HIDE DEF left
<1>4. \A y \in Items(r) : \E z \in Items(left) : z.to = k /\ y = Returned(z)
  BY BounceFacts DEF left
<1>5. \A m : InSeq(r, m) <=> Waits(m)
  <2>1. ASSUME NEW m, InSeq(r, m) PROVE Waits(m)
    BY <1>3, <1>4, <2>1 DEF InSeq
  <2>2. ASSUME NEW m, Waits(m) PROVE InSeq(r, m)
    BY <1>3, <2>2 DEF InSeq
  <2> QED BY <2>1, <2>2
<1>6. Single(r)
  <2> SUFFICES ASSUME NEW y, NEW z, Ahead(r, y, z) PROVE y.msg # z.msg
    BY DEF Single
  <2>1. PICK a, b : Ahead(left, a, b) /\ a.to = k /\ b.to = k /\ y = Returned(a) /\ z = Returned(b)
    BY BounceFacts DEF left
  <2>2. a \in Items(left) /\ b \in Items(left) /\ a.msg # b.msg
    BY <1>2, <2>1 DEF Single, Ahead, Items
  <2> QED BY <1>3, <2>1, <2>2
<1>7. \A y \in Items(r) : Mail(k, Destroyed, y)
  BY <1>3, <1>4
<1>8. ASSUME NEW m, Waits(m) PROVE Has("queue", w, m) /\ m # x.msg /\ ~Among(c.in, c.out, <<>>, m)
  <2>1. InSeq(left, m)
    BY <1>8 DEF InSeq
  <2>2. Has("queue", w, m)
    BY <1>1, <1>2, <2>1 DEF Has, InSeq
  <2>3. m # x.msg
    BY <1>1, <2>1 DEF TakesAll
  <2>4. \A n : (InSeq(c.in, n) => Has("in", k, n)) /\ (n \in Items(c.out) => Has("out", k, n))
    BY DEF Has
  <2>5. ~Has("in", k, m) /\ ~Has("out", k, m)
    <3>1. "in" # "queue" /\ "out" # "queue"
      OBVIOUS
    <3> QED BY <2>2, <3>1, OnePlace
  <2> QED BY <2>2, <2>3, <2>4, <2>5, SingleShort DEF Among
<1> QED BY <1>2, <1>5, <1>6, <1>7, <1>8 DEF left

\* xa_audio_codec_destroy: what was held has been sent, but for what is the component's own.
LEMMA DestroyHands ==
    ASSUME ChainInv, OnceInv, NEW k \in Codecs, NEW x, MayGo(k, x), NEW s \in Seq(OutType), Destroy(k, s),
           Single(s), \A y \in Items(s) : Mail(k, Destroyed, y),
           \A m : InSeq(s, m) => Among(codec[k].in, codec[k].out, <<>>, m),
           \A m : Among(codec[k].in, codec[k].out, <<>>, m)
                  /\ (m \in AppMsgs \ {Cmd} \/ (FromPool(m) /\ m.of # k)) => InSeq(s, m),
           x.msg = Cmd \/ (x.msg = Control(k) /\ SavedIn(codec[k]))
    PROVE  Handed(k)
<1> DEFINE w == WorkerOf[k]
           l == LocalLeft(w)
           left == QueueLeft(w)
           T == AllGiven(k, x)
           d == Destroyed
           c == codec[k]
           done == <<CmdDone("unregister")>>
           sent == s \o done
           Waits(m) == \E z \in Items(left) : z.to = k /\ z.msg = m
<1>1. PICK q, r :
        /\ Steps(k, T, l, q, d, sent \o r)
        /\ r \in Seq(OutType) /\ Items(r) = Items(Bounce(k))
        /\ \A y, z : Ahead(r, y, z) => Ahead(Bounce(k), y, z)
        /\ \A y \in Items(q) : y.to # k
        /\ \A y \in Items(left) : y.to # k => y \in Items(q)
        /\ Items(q) \subseteq Items(left)
  BY DestroySteps
<1> DEFINE out == sent \o r
<1>2. /\ Single(r) /\ \A m : InSeq(r, m) <=> Waits(m)
      /\ \A y \in Items(r) : Mail(k, d, y)
      /\ Single(left) /\ Items(left) \subseteq Items(queue[w])
      /\ \A m : Waits(m) => Has("queue", w, m) /\ m # x.msg /\ ~Among(c.in, c.out, <<>>, m)
  BY <1>1, ReturnsNeatly
<1>3. /\ Serves(k, x) /\ w \in Workers /\ left \in Seq(ItemType)
      /\ TakesAll(k, {x}, l, left) /\ ~Among(c.in, c.out, <<>>, x.msg)
      /\ Items(l) \subseteq Items(local[w])
  BY ServesOne, ServedAll DEF MayGo, Workers, Takes
<1>4. d.mode = "gone" /\ d.in = <<>> /\ d.out = <<>> /\ ~Routed(d) /\ ~Flushing(d)
  <2>1. d.mode = "gone" /\ d.in = <<>> /\ d.out = <<>> /\ d.oflags = {}
    BY DEF Destroyed, Configured
  <2> QED BY <2>1 DEF Routed, Flushing
<1> HIDE DEF d
<1>5. \A m : HasMsg(T, m) <=> (m = x.msg \/ Waits(m))
  BY DEF HasMsg, AllGiven
<1>6. /\ T = {x} \cup {z \in Items(left) : z.to = k}
      /\ \A z \in T : z = x \/ (z \in Items(left) /\ z.to = k)
  BY DEF AllGiven
<1> HIDE DEF T, left
<1>7. TakesAll(k, T, l, q)
  <2>1. \A y \in Items(local[w]) : y \in Items(l) \/ y \in T
    BY <1>3, <1>6 DEF TakesAll
  <2>2. \A y \in Items(queue[w]) : y \in Items(q) \/ y \in T
    BY <1>1, <1>3, <1>6 DEF TakesAll
  <2>3. ASSUME NEW z \in T PROVE ~InSeq(l, z.msg) /\ ~InSeq(q, z.msg)
    <3>1. CASE z = x
      <4>1. ~InSeq(l, x.msg) /\ ~InSeq(left, x.msg)
        BY <1>3 DEF TakesAll
      <4> QED BY <1>1, <3>1, <4>1 DEF InSeq
    <3>2. CASE z \in Items(left) /\ z.to = k
      <4>1. Waits(z.msg)
        BY <3>2
      <4>2. Has("queue", w, z.msg)
        BY <1>2, <4>1
      <4>3. ~Has("local", w, z.msg)
        <5>1. "local" # "queue"
          OBVIOUS
        <5> QED BY <4>2, <5>1, OnePlace
      <4>4. ~InSeq(l, z.msg)
        BY <1>3, <4>3 DEF Has, InSeq
      <4>5. \A y \in Items(left) : y.msg = z.msg => y = z
        BY <1>2, <1>3, <3>2, SinglePlace
      <4>6. ~InSeq(q, z.msg)
        BY <1>1, <3>2, <4>5 DEF InSeq
      <4> QED BY <4>4, <4>6
    <3> QED BY <1>6, <3>1, <3>2
  <2> QED BY <2>1, <2>2, <2>3 DEF TakesAll
<1>8. /\ done \in Seq(OutType) /\ Items(done) = {CmdDone("unregister")}
      /\ Single(done) /\ (\A m : InSeq(done, m) <=> m = Cmd)
      /\ \A y \in Items(done) : y.to = App /\ y.msg = Cmd
  <2> DEFINE y == CmdDone("unregister")
  <2>1. y \in OutType /\ y.msg = Cmd /\ y.to = App
    BY CmdOut DEF Ops
  <2> HIDE DEF y
  <2>2. Items(<<y>>) = {y} /\ <<y>> \in Seq(OutType) /\ Single(<<y>>) /\ \A m : InSeq(<<y>>, m) <=> m = y.msg
    BY <2>1, OneItem, SingleShort
  <2> QED BY <2>1, <2>2 DEF y
<1> HIDE DEF done
<1>9. ~Among(c.in, c.out, <<>>, Cmd) /\ ~Waits(Cmd) /\ (x.msg # Cmd => IsNew(k, Cmd))
  <2>1. CASE x.msg = Cmd
    BY <1>2, <1>3, <2>1
  <2>2. CASE x.msg # Cmd
    <3>1. IsNew(k, Cmd)
      BY <2>2 DEF IsNew
    <3>2. ~Held(Cmd)
      BY <3>1, NewNowhere
    <3>3. ~Among(c.in, c.out, <<>>, Cmd)
      BY <3>2, HandHeld
    <3>4. ~Waits(Cmd)
      BY <1>2, <3>2 DEF Held
    <3> QED BY <3>1, <3>3, <3>4
  <2> QED BY <2>1, <2>2
<1> HIDE DEF c
<1>10. /\ sent \in Seq(OutType) /\ Items(sent) = Items(s) \cup Items(done)
       /\ \A m : InSeq(sent, m) <=> (InSeq(s, m) \/ m = Cmd)
       /\ Single(sent)
  <2>1. /\ \A m : InSeq(s \o done, m) <=> (InSeq(s, m) \/ InSeq(done, m))
        /\ Single(s) /\ Single(done) /\ (\A m : ~(InSeq(s, m) /\ InSeq(done, m))) => Single(s \o done)
    BY <1>8, SingleJoined
  <2>2. \A m : ~(InSeq(s, m) /\ InSeq(done, m))
    BY <1>8, <1>9 DEF c
  <2>3. s \o done \in Seq(OutType) /\ Items(s \o done) = Items(s) \cup Items(done)
    BY <1>8, Joined
  <2> QED BY <1>8, <2>1, <2>2, <2>3
<1> HIDE DEF sent
<1>11. /\ out \in Seq(OutType) /\ Items(out) = Items(sent) \cup Items(r)
       /\ \A m : InSeq(out, m) <=> (InSeq(s, m) \/ m = Cmd \/ Waits(m))
       /\ Single(out)
  <2>1. /\ \A m : InSeq(sent \o r, m) <=> (InSeq(sent, m) \/ InSeq(r, m))
        /\ Single(sent) /\ Single(r) /\ (\A m : ~(InSeq(sent, m) /\ InSeq(r, m))) => Single(sent \o r)
    BY <1>1, <1>10, SingleJoined
  <2>2. \A m : ~(InSeq(sent, m) /\ InSeq(r, m))
    BY <1>2, <1>9, <1>10 DEF c
  <2>3. sent \o r \in Seq(OutType) /\ Items(sent \o r) = Items(sent) \cup Items(r)
    BY <1>1, <1>10, Joined
  <2> QED BY <1>2, <1>10, <2>1, <2>2, <2>3
<1>12. Steps(k, T, l, q, d, out)
  BY <1>1 DEF T, d, sent, done
<1> HIDE DEF out, Waits
<1>13. /\ Neat(d.in, d.out, out)
       /\ \A m : Among(d.in, d.out, out, m) <=> InSeq(out, m)
  <2>1. <<>> \in Seq(ItemType) /\ <<>> \in Seq(AllMsgs)
    OBVIOUS
  <2> QED BY <1>4, <1>11, <2>1, SingleShort, EmptyItems DEF Neat, Among
<1>14. \A m : InHand(k, T, m) <=> (Among(c.in, c.out, <<>>, m) \/ m = x.msg \/ Waits(m))
  BY <1>5 DEF InHand, c
<1>15. \A y \in Items(out) : Mail(k, d, y)
  <2>1. \A y \in Items(done) : Mail(k, d, y)
    BY <1>8, MsgFacts DEF Mail
  <2>2. \A y \in Items(s) : Mail(k, d, y)
    BY DEF d
  <2> QED BY <1>2, <1>10, <1>11, <2>1, <2>2
<1>16. ToApp(out, Cmd)
  <2>1. CmdDone("unregister") \in Items(done)
    BY <1>8
  <2> QED BY <1>8, <1>10, <1>11, <2>1 DEF ToApp
<1>17. KeepsMessages(k, T, d, out)
  <2>1. ASSUME NEW m, Among(d.in, d.out, out, m) PROVE InHand(k, T, m) \/ IsNew(k, m)
    <3>1. InSeq(s, m) \/ m = Cmd \/ Waits(m)
      BY <1>11, <1>13, <2>1
    <3>2. InSeq(s, m) => Among(c.in, c.out, <<>>, m)
      BY DEF c
    <3> QED BY <1>9, <1>14, <3>1, <3>2
  <2>2. ASSUME NEW m, InHand(k, T, m), m \in AppMsgs \ {Cmd} \/ (FromPool(m) /\ m.of # k)
        PROVE  Among(d.in, d.out, out, m)
    <3>1. Among(c.in, c.out, <<>>, m) \/ m = x.msg \/ Waits(m)
      BY <1>14, <2>2
    <3>2. Among(c.in, c.out, <<>>, m) => InSeq(s, m)
      BY <2>2 DEF c
    <3>3. m # x.msg
      <4>1. ~FromPool(Cmd)
        BY AppMsgFacts
      <4> QED BY <2>2, <4>1, ControlFacts
    <3> QED BY <1>11, <1>13, <3>1, <3>2, <3>3
  <2> QED BY <1>13, <1>15, <1>16, <2>1, <2>2 DEF KeepsMessages
<1>18. KeepsPool(k, T, d, out)
  BY <1>4 DEF KeepsPool
<1>19. Hands(k, T, l, q, d, out)
  BY <1>7, <1>12, <1>17, <1>18 DEF Hands
<1> QED BY <1>19 DEF Handed

\* xa_audio_codec_cleanup
LEMMA UnregisterHands == ASSUME ChainInv, OnceInv, NEW k \in Codecs, Unregister(k) PROVE Handed(k)
<1> DEFINE c == codec[k]
           l == LocalLeft(WorkerOf[k])
           q == QueueLeft(WorkerOf[k])
           a == Cancelled(c)
           p == Purged(a).c
           pout == Purged(a).out
           g == Flushed(k, p, "flush")
           f == g.c
           fout == g.out
           done == g.done
           d == [f EXCEPT !.mode = "terminating"]
           out == pout \o fout
<1>1. PICK x \in Gets(k, "unregister") : IF done THEN Destroy(k, out) ELSE Becomes(k, d, out)
  BY DEF Unregister
<1> DEFINE T == {x}
<1>2. Serves(k, x) /\ c.mode = "running" /\ x.op = "unregister" /\ ~Gone(k) /\ x.op \in CmdOps
  BY GetsServes DEF Serves, CmdOps
<1>3. /\ x.msg = Cmd /\ ~FromPool(x.msg)
      /\ \A i \in Codecs : ~IsSaved(i)
      /\ l = <<>> /\ Takes(k, T, l, q)
  BY <1>2, CmdGiven, ServesOne DEF CmdOps
<1>4. c \in CodecType(k) /\ OutputOk(k, c) /\ c.route = RouteOf(k)
  BY <1>2, Mine DEF CompOk
<1>5. /\ ~Unrouting(c) /\ ~SavedIn(c) /\ x.msg # Control(k)
      /\ Neat(c.in, c.out, <<>>) /\ ~Among(c.in, c.out, <<>>, Cmd)
  <2>1. ~Unrouting(c) /\ ~SavedIn(c)
    BY <1>2, <1>3 DEF IsSaved, SavedIn
  <2>2. x.msg # Control(k)
    BY <1>3, ControlFacts
  <2>3. Neat(c.in, c.out, <<>>) /\ ~Among(c.in, c.out, <<>>, Cmd)
    BY <1>2, <1>3, ServedAll
  <2> QED BY <2>1, <2>2, <2>3
<1>6. a \in CodecType(k) /\ SameOut(c, a) /\ a.in = c.in
      /\ Items(a.in) \subseteq Items(codec[k].in) /\ \A z, v : Ahead(a.in, z, v) => Ahead(codec[k].in, z, v)
  <2>1. a \in CodecType(k) /\ SameIn(c, a) /\ SameOut(c, a)
    BY <1>4, CancelledFields
  <2> QED BY <2>1 DEF SameIn
<1> HIDE DEF a
<1>7. /\ p \in CodecType(k) /\ SameOut(a, p) /\ p.in = <<>>
      /\ pout \in Seq(OutType) /\ Plain(k, T, pout)
  BY <1>6, PurgedFacts
<1>8. /\ Neat(<<>>, c.out, pout)
      /\ \A m : Among(<<>>, c.out, pout, m) <=> Among(c.in, c.out, <<>>, m)
  <2>1. /\ Neat(<<>>, c.out, <<>> \o pout)
        /\ \A m : Among(<<>>, c.out, <<>> \o pout, m) <=> Among(c.in, c.out, <<>>, m)
    BY <1>5, <1>6, <1>7, PurgedNeatly
  <2> HIDE DEF pout
  <2>2. <<>> \o pout = pout
    BY <1>7
  <2> QED BY <2>1, <2>2
<1> HIDE DEF p, pout
<1>9. /\ p.in = <<>> /\ p.out = c.out /\ p.oflags = c.oflags /\ p.route = RouteOf(k)
  BY <1>4, <1>6, <1>7 DEF SameOut
\* It goes: what was at its input and at its output has been sent.
<1>10. ASSUME NEW s \in Seq(OutType), Destroy(k, s), Plain(k, T, s), Neat(<<>>, <<>>, s), MayGo(k, x),
              \A m : InSeq(s, m) => Among(c.in, c.out, <<>>, m),
              \A m : Among(c.in, c.out, <<>>, m) => InSeq(s, m) \/ (FromPool(m) /\ m.of = k /\ m \notin AppMsgs)
       PROVE  Handed(k)
  <2>1. \A y \in Items(s) : Down(k, T, Destroyed, y)
    BY <1>10 DEF Plain, Down
  <2>2. \A y \in Items(s) : Mail(k, Destroyed, y)
    BY <1>2, <1>3, <2>1, MailFrom
  <2>3. Single(s)
    BY <1>10 DEF Neat
  <2>4. \A m : Among(c.in, c.out, <<>>, m) /\ (m \in AppMsgs \ {Cmd} \/ (FromPool(m) /\ m.of # k)) => InSeq(s, m)
    BY <1>10
  <2> HIDE DEF c, T
  <2> QED BY <1>3, <1>10, <2>2, <2>3, <2>4, DestroyHands DEF c
<1>11. CASE ~Routed(c)
  <2>1. ~Routed(p)
    BY <1>9, <1>11 DEF Routed
  <2>2. \A m \in Items(p.out) : m \in AppMsgs /\ m # Cmd /\ m.of = k
    <3>1. CASE Initial(c)
      <4> DEFINE m == Msg(k, "start")
                 nil == <<>>
                 one == <<m>>
      <4>1. p.out = nil \/ p.out = one
        BY <1>4, <1>9, <3>1 DEF OutputOk
      <4>2. Items(nil) = {} /\ Items(one) = {m}
        BY EmptyItems, OneItem
      <4>3. m \in AppMsgs /\ m # Cmd /\ m.of = k
        BY MsgFacts, AppMsgFacts
      <4> HIDE DEF m, nil, one
      <4> QED BY <4>1, <4>2, <4>3
    <3>2. CASE ~Initial(c)
      <4>1. \A m \in Items(c.out) : m = Msg(k, "out") /\ k \in Sinks
        BY <1>4, <1>11, <3>2 DEF OutputOk
      <4> QED BY <1>9, <4>1, MsgFacts, AppMsgFacts
    <3> QED BY <3>1, <3>2
  <2>3. DOMAIN fout = DOMAIN c.out /\ \A j \in DOMAIN c.out : fout[j].msg = c.out[j]
    <3>1. fout = [j \in DOMAIN p.out |-> Item(App, p.out[j], "fill", 0)]
      BY <2>1 DEF Flushed, Routed
    <3> HIDE DEF fout
    <3> QED BY <1>9, <3>1, ItemFacts
  <2> HIDE DEF g, c, T
  <2>4. done /\ fout \in Seq(OutType) /\ Plain(k, T, fout)
    BY <1>7, <2>1, <2>2, UnroutedLeft DEF g
  <2> HIDE DEF done, fout
  <2>5. out \in Seq(OutType) /\ Plain(k, T, out)
    BY <1>7, <2>4, PlainJoined
  <2>6. /\ Neat(<<>>, <<>>, pout \o fout)
        /\ \A m : Among(<<>>, <<>>, pout \o fout, m) <=> Among(<<>>, c.out, pout, m)
    BY <1>8, <2>3, <2>4, NeatOutput
  <2>7. \A m : InSeq(out, m) <=> Among(c.in, c.out, <<>>, m)
    BY <1>8, <2>6, EmptyItems, SingleShort DEF Among
  <2>8. Destroy(k, out)
    BY <1>1, <2>4
  <2>9. MayGo(k, x)
    BY <1>2, <1>3, <1>11 DEF MayGo, c
  <2> HIDE DEF out
  <2> QED BY <1>10, <2>5, <2>6, <2>7, <2>8, <2>9 DEF out
<1>12. CASE Routed(c)
  <2>1. Routed(p)
    BY <1>9, <1>12 DEF Routed
  <2> HIDE DEF g
  <2>2. /\ g.c \in CodecType(k) /\ SameIn(p, g.c)
        /\ g.c.out = p.out /\ g.c.route = p.route
        /\ LET now == "idle" \in p.oflags /\ "flush" # "fill" IN
           /\ g.done <=> now
           /\ now => g.out = <<>> /\ g.c.oflags = p.oflags
           /\ ~now => /\ g.c.oflags = p.oflags \cup {"flushing"}
                      /\ g.out = IF Flushing(p) THEN <<>>
                                 ELSE <<Item(p.route, Control(k), IF "flush" = "fill" THEN "empty" ELSE "flush", 0)>>
    BY <1>7, <2>1, FlushedFacts DEF g
  <2>3. /\ done <=> "idle" \in c.oflags
        /\ done => fout = <<>>
        /\ ~done => /\ f.oflags = c.oflags \cup {"flushing"}
                    /\ fout = IF Flushing(c) THEN <<>> ELSE <<Item(RouteOf(k), Control(k), "flush", 0)>>
    BY <1>9, <2>2 DEF Flushing
  <2>4. f \in CodecType(k) /\ f.in = <<>> /\ f.out = c.out /\ f.route = RouteOf(k)
    BY <1>9, <2>2 DEF SameIn
  <2> HIDE DEF done, f, fout
  <2>5. CASE done
    <3>1. out = pout
      BY <1>7, <2>3, <2>5
    <3>2. Destroy(k, pout)
      BY <1>1, <2>5, <3>1
    <3>3. MayGo(k, x)
      BY <1>2, <1>3, <2>3, <2>5 DEF MayGo
    <3>4. Neat(<<>>, <<>>, pout)
          /\ \A m : Among(<<>>, c.out, pout, m) <=> (Among(<<>>, <<>>, pout, m) \/ m \in Items(c.out))
      BY <1>8, NeatOutput
    <3>5. \A m \in Items(c.out) : FromPool(m) /\ m.of = k /\ m \notin AppMsgs
      BY <1>2, <1>12, OwnOutput
    <3>6. \A m : Among(<<>>, <<>>, pout, m) <=> InSeq(pout, m)
      BY EmptyItems, SingleShort DEF Among
    <3> HIDE DEF T, c
    <3> QED BY <1>7, <1>8, <1>10, <3>2, <3>3, <3>4, <3>5, <3>6
  <2>6. CASE ~done
    <3>1. Becomes(k, d, out)
      BY <1>1, <2>6
    <3>2. "idle" \notin c.oflags /\ f.oflags = c.oflags \cup {"flushing"}
          /\ fout = IF Flushing(c) THEN <<>> ELSE <<Item(RouteOf(k), Control(k), "flush", 0)>>
      BY <2>3, <2>6
    <3>3. d.in = f.in /\ d.out = f.out /\ d.route = f.route /\ d.oflags = f.oflags /\ d.mode = "terminating"
      BY <2>4 DEF CodecType
    <3> HIDE DEF d
    <3>4. /\ d.in = <<>> /\ d.out = c.out /\ d.route = RouteOf(k) /\ d.oflags = c.oflags \cup {"flushing"}
      BY <2>4, <3>2, <3>3
    <3>5. Routed(d) /\ Flushing(d) /\ "idle" \notin d.oflags /\ SavedIn(d)
      BY <1>12, <3>2, <3>3, <3>4 DEF Routed, Flushing, SavedIn
    <3>6. /\ fout \in Seq(OutType) /\ Neat(<<>>, c.out, out)
          /\ \A m : Among(<<>>, c.out, out, m) <=> (Among(<<>>, c.out, pout, m) \/ (m = Control(k) /\ ~Flushing(c)))
          /\ \A z \in Items(fout) : Down(k, T, d, z)
          /\ InSeq(out, Control(k)) \/ Flushing(c)
      <4>1. fout = IF Flushing(codec[k]) THEN <<>> ELSE <<Item(RouteOf(k), Control(k), "flush", 0)>>
        BY <3>2
      <4>2. \A m : Among(<<>>, c.out, pout, m) => InSeq(codec[k].in, m) \/ m \in Items(codec[k].out)
        BY <1>8, SingleShort DEF Among
      <4>3. "idle" \notin codec[k].oflags
        BY <3>2
      <4> HIDE DEF T
      <4> QED BY <1>2, <1>8, <1>12, <3>4, <3>5, <4>1, <4>2, <4>3, FlushNeatlyAfter
    <3>7. \A z \in Items(out) : Down(k, {x}, d, z)
      <4>1. Items(out) = Items(pout) \cup Items(fout)
        BY <1>7, <3>6, PlainJoined
      <4> QED BY <1>7, <3>6, <4>1 DEF Plain, Down
    <3> HIDE DEF out
    <3>8. /\ Neat(d.in, d.out, out)
          /\ \A m : Among(d.in, d.out, out, m) => Among(c.in, c.out, <<>>, m) \/ m = x.msg \/ IsNew(k, m)
          /\ \A m : (Among(c.in, c.out, <<>>, m) \/ m = x.msg) /\ m # Cmd => Among(d.in, d.out, out, m)
      BY <1>3, <1>8, <3>4, <3>6 DEF IsNew
    <3> HIDE DEF T, c
    <3> QED BY <1>2, <1>4, <1>5, <1>12, <3>1, <3>4, <3>5, <3>6, <3>7, <3>8, ServedOn DEF c
  <2> QED BY <2>5, <2>6
<1> QED BY <1>11, <1>12

\* xa_audio_codec_terminate
LEMMA TerminateHands == ASSUME ChainInv, OnceInv, NEW k \in Codecs, Terminate(k) PROVE Handed(k)
<1> DEFINE c == codec[k]
           w == WorkerOf[k]
           l == LocalLeft(w)
           q == QueueLeft(w)
<1>1. PICK x \in Given(k, "terminating") :
        IF x.msg = Control(k) THEN Destroy(k, <<>>)
        ELSE Becomes(k, c, IF x.op = "fill" THEN <<>>
                           ELSE <<Answered(x, IF FromPool(x.msg) THEN Invalid ELSE 0)>>)
  BY DEF Terminate
<1>2. Serves(k, x) /\ c.mode = "terminating" /\ ~Gone(k)
  BY DEF Given, Serves, Gone
<1> DEFINE T == {x}
<1>3. /\ Takes(k, T, l, q) /\ TypeInv /\ PoolInv
      /\ (l = <<>> /\ Queued(x)) \/ (FromPool(x.msg) /\ x \in Items(local[w]))
  BY <1>2, ServesOne DEF ChainInv
<1>4. SavedIn(c) /\ x.msg # Cmd
  <2>1. SavedIn(c)
    BY <1>2 DEF SavedIn
  <2>2. \A y : Queued(y) => y.msg # Cmd
    BY <1>3, <2>1, CallFacts
  <2>3. FromPool(x.msg) => x.msg # Cmd
    BY AppMsgFacts
  <2> QED BY <1>3, <2>1, <2>2, <2>3
<1>5. /\ c \in CodecType(k) /\ Routed(c) /\ Flushing(c) /\ c.in = <<>>
      /\ Neat(c.in, c.out, <<>>) /\ ~Among(c.in, c.out, <<>>, x.msg)
      /\ TakesAll(k, T, l, q) /\ \A m : InHand(k, T, m) <=> (Among(c.in, c.out, <<>>, m) \/ m = x.msg)
  <2>1. c \in CodecType(k) /\ Routed(c) /\ Flushing(c) /\ c.in = <<>>
    <3>1. CompOk(k, c) /\ c \in CodecType(k)
      BY <1>2, Mine
    <3> QED BY <1>2, <3>1 DEF CompOk, OutputOk, InputOk
  <2> QED BY <1>2, <2>1, ServedAll
<1>6. \A m \in Items(c.out) : FromPool(m) /\ m.of = k /\ m \notin AppMsgs
  BY <1>2, <1>5, OwnOutput
<1>7. CASE x.msg = Control(k)
  <2> DEFINE nil == <<>>
  <2>1. Destroy(k, nil) /\ nil \in Seq(OutType) /\ Items(nil) = {} /\ Single(nil) /\ \A m : ~InSeq(nil, m)
    BY <1>1, <1>7, EmptyItems, SingleShort
  <2>2. MayGo(k, x)
    BY <1>2, <1>7 DEF MayGo
  <2>3. \A m : Among(c.in, c.out, <<>>, m) => FromPool(m) /\ m.of = k /\ m \notin AppMsgs
    BY <1>5, <1>6, SingleShort DEF Among
  <2> HIDE DEF nil
  <2> QED BY <1>4, <1>7, <2>1, <2>2, <2>3, DestroyHands
<1>8. CASE x.msg # Control(k)
  <2> DEFINE len == IF FromPool(x.msg) THEN Invalid ELSE 0
             y == Answered(x, len)
             out == IF x.op = "fill" THEN <<>> ELSE <<y>>
  <2>1. Steps(k, T, l, q, c, out)
    BY <1>1, <1>2, <1>8, ServesSteps
  <2>2. /\ x \in ItemType /\ x \in OutType /\ x.msg \in AllMsgs /\ len \in Lens
        /\ Of(x, k) => BackKind(x)
        /\ FromPool(x.msg) /\ ~Of(x, k) =>
             /\ IsForth(x) /\ ForthKind(x) /\ x.msg.of \in Codecs /\ x.msg.of # k
        /\ ~FromPool(x.msg) => AppKind(x)
    BY <1>2, ServedKinds, ItemFacts DEF Lens
  <2>3. /\ y \in OutType /\ y.msg = x.msg /\ y.len = len
        /\ y.to = IF FromPool(x.msg) THEN x.msg.of ELSE App
        /\ y.op = IF x.op = "empty" /\ FromPool(x.msg) THEN "fill" ELSE x.op
    BY <2>2, AnswerFacts
  <2>4. FromPool(x.msg) => len = Invalid
    OBVIOUS
  <2> HIDE DEF y, len
  <2>5. x.op = "fill" => Of(x, k)
    <3>1. FromPool(x.msg) /\ ~Of(x, k) => x.op # "fill"
      BY <2>2 DEF ForthKind
    <3>2. ASSUME ~FromPool(x.msg), x.op = "fill" PROVE FALSE
      <4>1. AppKind(x) /\ Queued(x) /\ x.to = k
        BY <1>2, <3>2, ServedKinds
      <4>2. x.msg = Msg(k, "start") \/ k \in Sinks
        BY <3>2, <4>1 DEF AppKind
      <4>3. k \notin Sinks /\ ~Initial(c)
        <5>1. OutputOk(k, c)
          BY <1>2, Mine DEF CompOk
        <5>2. <<k, RouteOf(k)>> \in Edges /\ k \notin Sinks
          BY <1>2, <1>5, Mine
        <5> QED BY <1>5, <5>1, <5>2 DEF OutputOk
      <4>4. k \in ready
        BY <1>2, <4>3 DEF ChainInv, ReadyInv
      <4>5. IsStart(x)
        BY <4>2, <4>3, MsgFacts DEF IsStart
      <4>6. k \notin ready
        BY <4>1, <4>5 DEF ChainInv, StartInv
      <4> QED BY <4>4, <4>6
    <3> QED BY <3>1, <3>2
  <2>6. x.op # "fill" => ~Of(x, k)
    <3> SUFFICES ASSUME x.op # "fill", Of(x, k) PROVE FALSE
      OBVIOUS
    <3>1. IsControl(x) /\ FromPool(x.msg) /\ x.msg.of = k
      BY <2>2 DEF BackKind, BackOp, Of
    <3>2. x.msg = Msg(k, x.msg.what) /\ x.msg.what = "control"
      BY <2>2, <3>1, MsgFacts DEF IsControl
    <3> QED BY <1>8, <3>2, MsgFacts
  <2>7. x.op # "fill" => Mail(k, c, y)
    <3> SUFFICES ASSUME x.op # "fill" PROVE Mail(k, c, y)
      OBVIOUS
    <3>1. CASE ~FromPool(x.msg)
      <4>1. x.msg \in AppMsgs
        BY <2>2, <3>1, MsgFacts
      <4> QED BY <2>3, <3>1, <4>1 DEF Mail
    <3>2. CASE FromPool(x.msg)
      <4>1. ForthKind(x) /\ x.msg.of \in Codecs /\ x.msg.of # k
        BY <2>2, <2>6, <3>2
      <4>2. IsBack(y) /\ BackOp(y) /\ (y.op = "flush" => x.op = "flush")
        BY <2>3, <3>2, <4>1 DEF IsBack, BackOp, ForthKind, IsControl
      <4>3. x \in T \cup Items(codec[k].in) /\ c.mode # "running"
        BY <1>2
      <4>4. IsAnswer(k, T, c, y)
        BY <2>3, <3>2, <4>1, <4>2, <4>3 DEF IsAnswer
      <4>5. /\ y.msg.of \in Codecs /\ y.msg.of # k /\ y.to = y.msg.of
            /\ RouteOf(y.msg.of) = k /\ ~Gone(y.msg.of)
            /\ \E z \in ItemType :
                 /\ z.msg = y.msg /\ IsAbroad(z) /\ z.to = k
                 /\ (z \in T /\ IsForth(z)) \/ z \in Items(codec[k].in)
        BY <1>3, <4>4, AnswerFor
      <4>6. \E z : IsAbroad(z) /\ z.msg = y.msg /\ (IsForth(z) \/ AtInput(z))
        BY <4>5 DEF AtInput
      <4>7. y.len = Invalid /\ FromPool(y.msg)
        BY <2>3, <2>4, <3>2
      <4> QED BY <1>2, <4>2, <4>5, <4>6, <4>7 DEF Mail
    <3> QED BY <3>1, <3>2
  <2>8. ~HasMsg(T, Cmd) /\ ~HasMsg(T, Control(k))
    BY <1>4, <1>8 DEF HasMsg
  <2>9. ASSUME NEW o, Steps(k, T, l, q, c, o), Neat(c.in, c.out, o), \A z \in Items(o) : Mail(k, c, z),
               \A m : Among(c.in, c.out, o, m) <=>
                 (Among(c.in, c.out, <<>>, m) \/ (m = x.msg /\ x.op # "fill"))
        PROVE  Handed(k)
    <3>1. ASSUME NEW m, InHand(k, T, m), m \in AppMsgs \/ (FromPool(m) /\ m.of # k)
          PROVE  Among(c.in, c.out, o, m)
      <4>1. Among(c.in, c.out, <<>>, m) \/ m = x.msg
        BY <1>5, <3>1
      <4>2. m = x.msg => x.op # "fill"
        <5>1. Of(x, k) => x.msg \notin AppMsgs /\ x.msg.of = k
          BY MsgFacts DEF Of
        <5> QED BY <2>5, <3>1, <5>1
      <4> QED BY <2>9, <4>1, <4>2
    <3>2. \A m : Among(c.in, c.out, o, m) => InHand(k, T, m)
      BY <1>5, <2>9
    <3> HIDE DEF T, c
    <3>3. KeepsMessages(k, T, c, o)
      BY <1>4, <2>8, <2>9, <3>1, <3>2 DEF KeepsMessages
    <3>4. KeepsPool(k, T, c, o)
      BY <1>2, <2>8 DEF KeepsPool, c
    <3>5. Hands(k, T, l, q, c, o)
      BY <1>5, <2>9, <3>3, <3>4 DEF Hands
    <3> HIDE DEF l, q
    <3> QED BY <3>5 DEF Handed
  <2>10. CASE x.op = "fill"
    <3>1. out = <<>>
      BY <2>10
    <3>2. Steps(k, T, l, q, c, <<>>)
      BY <2>1, <3>1
    <3> QED BY <1>5, <2>9, <2>10, <3>2, EmptyItems
  <2>11. CASE x.op # "fill"
    <3>1. out = <<y>>
      BY <2>11
    <3>2. Steps(k, T, l, q, c, <<y>>)
      BY <2>1, <3>1
    <3>3. /\ Neat(c.in, c.out, <<y>>)
          /\ \A m : Among(c.in, c.out, <<y>>, m) <=> (Among(c.in, c.out, <<>>, m) \/ m = x.msg)
      BY <1>2, <2>3, GivenNeatly
    <3>4. Items(<<y>>) = {y}
      BY OneItem
    <3> QED BY <2>7, <2>9, <2>11, <3>2, <3>3, <3>4
  <2> QED BY <2>10, <2>11
<1> QED BY <1>7, <1>8

-----------------------------------------------------------------------------
(* A run.                                                                  *)

\* Component k, as d, and what it sends are what it had.
KeptNeatly(k, d, o) ==
    /\ Neat(d.in, d.out, o)
    /\ \A m : Among(d.in, d.out, o, m) <=> Among(codec[k].in, codec[k].out, <<>>, m)

\* A run starts with what was at the input.
LEMMA FedNeatly ==
    ASSUME ChainInv, OnceInv, NEW k \in Codecs, Runs(k), NEW e, NEW first, Fed(k, e, first), FedFrom(k, e, first)
    PROVE  KeptNeatly(k, e, first)
<1> DEFINE c == codec[k]
           s == c.in
<1>1. Neat(s, c.out, <<>>)
  <2>1. ~Gone(k)
    BY RunsFacts
  <2> QED BY <2>1, HeldNeatly
<1>2. first \in Seq(OutType) /\ e.out = c.out
  BY DEF Fed
<1>3. PICK n \in 0..Len(s) : /\ e.in = SubSeq(s, n + 1, Len(s)) /\ DOMAIN first = 1..n
                             /\ \A i \in 1..n : first[i].msg = s[i].msg
  BY DEF FedFrom
<1> DEFINE r == SubSeq(s, n + 1, Len(s))
<1> HIDE DEF c, s
<1>4. /\ Neat(r, c.out, <<>> \o first)
      /\ \A m : Among(r, c.out, <<>> \o first, m) <=> Among(s, c.out, <<>>, m)
  BY <1>1, <1>2, <1>3, NeatAnswers
<1>5. <<>> \o first = first
  BY <1>2
<1> HIDE DEF r
<1>6. e.in = r
  BY <1>3 DEF r
<1> QED BY <1>2, <1>4, <1>5, <1>6 DEF KeptNeatly, s, c

\* A run that keeps its connection and starts no flush.
LEMMA RunHands ==
    ASSUME ChainInv, OnceInv, NEW k \in Codecs, Runs(k), NEW e, NEW first, Fed(k, e, first), NEW d, NEW out,
           codec' = [codec EXCEPT ![k] = d],
           Sent(WorkerOf[k], <<>>, queue[WorkerOf[k]], first \o out), Told(first \o out),
           KeptNeatly(k, d, first \o out), out \in Seq(OutType), \A y \in Items(out) : Down(k, {}, d, y),
           d.route = RouteOf(k), d.oflags \ {"idle"} = codec[k].oflags \ {"idle"}
    PROVE  Handed(k)
<1> DEFINE c == codec[k]
           r == first \o out
           T == {}
           l == <<>>
           q == queue[WorkerOf[k]]
<1>1. /\ ~Gone(k) /\ Takes(k, T, l, q) /\ Turn(k, T, l, q) /\ c.mode = "running" /\ c.route = RouteOf(k)
      /\ local[WorkerOf[k]] = <<>>
  BY RunsFacts DEF Runs
<1>2. Steps(k, T, l, q, d, r)
  BY <1>1 DEF Steps
<1>3. TakesAll(k, T, l, q) /\ \A m : InHand(k, T, m) <=> Among(c.in, c.out, <<>>, m)
  BY <1>1, RunsAll
<1>4. Neat(d.in, d.out, r) /\ \A m : Among(d.in, d.out, r, m) <=> InHand(k, T, m)
  BY <1>3 DEF KeptNeatly
<1>5. first \in Seq(OutType) /\ \A y \in Items(first) : Down(k, T, d, y)
  BY DEF Fed, Plain, Down
<1>6. Items(r) = Items(first) \cup Items(out)
  BY <1>5, Joined
<1>7. \A y \in Items(r) : Down(k, T, d, y)
  BY <1>5, <1>6
<1>8. ~HasMsg(T, Cmd) /\ ~HasMsg(T, Control(k))
  BY DEF HasMsg
<1>9. d.route = c.route /\ d.oflags \ {"paused", "idle"} = c.oflags \ {"paused", "idle"}
  BY <1>1
<1> HIDE DEF c, T, l, q, r
<1>10. Hands(k, T, l, q, d, r)
  BY <1>1, <1>2, <1>3, <1>4, <1>7, <1>8, <1>9, HandsBack DEF c
<1> QED BY <1>10 DEF Handed

\* The first of the output goes.
LEMMA PassedNeatly ==
    ASSUME NEW k \in Codecs, NEW e, NEW o, KeptNeatly(k, e, o), e.out # <<>>, NEW y \in OutType,
           y.msg = Head(e.out), NEW d, d.in = e.in, d.out = Tail(e.out)
    PROVE  KeptNeatly(k, d, o \o <<y>>)
<1> DEFINE i == e.in
           u == e.out
<1>1. Neat(i, u, o) /\ \A m : Among(i, u, o, m) <=> Among(codec[k].in, codec[k].out, <<>>, m)
  BY DEF KeptNeatly
<1> HIDE DEF i, u
<1>2. u # <<>> /\ y.msg = Head(u)
  BY DEF u
<1>3. /\ Neat(i, Tail(u), o \o <<y>>)
      /\ \A m : Among(i, Tail(u), o \o <<y>>, m) <=> Among(i, u, o, m)
  BY <1>1, <1>2, NeatOutput
<1>4. d.in = i /\ d.out = Tail(u)
  BY DEF i, u
<1> QED BY <1>1, <1>3, <1>4 DEF KeptNeatly

\* A run that sends nothing more.
LEMMA QuietHands ==
    ASSUME ChainInv, OnceInv, NEW k \in Codecs, Runs(k), NEW e, NEW first, Fed(k, e, first), FedFrom(k, e, first),
           NEW d, d.in = e.in, SameOut(e, d), codec' = [codec EXCEPT ![k] = d],
           Sent(WorkerOf[k], <<>>, queue[WorkerOf[k]], first \o <<>>), Told(first \o <<>>)
    PROVE  Handed(k)
<1> DEFINE o == <<>>
<1>1. o \in Seq(OutType)
  OBVIOUS
<1>2. \A y \in Items(o) : Down(k, {}, d, y)
  BY EmptyItems
<1>3. first \in Seq(OutType) /\ e.route = codec[k].route /\ e.oflags = codec[k].oflags
  BY DEF Fed
<1>4. codec[k].route = RouteOf(k)
  BY RunsFacts
<1>5. first \o o = first
  BY <1>3
<1>6. KeptNeatly(k, e, first)
  BY FedNeatly
<1>7. d.out = e.out /\ d.route = RouteOf(k) /\ d.oflags \ {"idle"} = codec[k].oflags \ {"idle"}
  BY <1>3, <1>4 DEF SameOut
<1>8. KeptNeatly(k, d, first \o o)
  BY <1>5, <1>6, <1>7 DEF KeptNeatly
<1>9. Sent(WorkerOf[k], <<>>, queue[WorkerOf[k]], first \o o) /\ Told(first \o o)
  OBVIOUS
<1> HIDE DEF o
<1> QED BY <1>1, <1>2, <1>7, <1>8, <1>9, RunHands

\* A buffer or the start message that goes.
LEMMA PassedKept ==
    ASSUME ChainInv, OnceInv, NEW k \in Codecs, Runs(k), NEW e, NEW first, Fed(k, e, first), FedFrom(k, e, first),
           NEW c \in CodecType(k), c.route = e.route, NEW d, d.in = e.in, d.out = Tail(e.out)
    PROVE  LET s == <<Passed(c, Head(e.out), 1)>> IN
           /\ s \in Seq(OutType) /\ KeptNeatly(k, d, first \o s)
           /\ \A v : (Routed(e) => Routed(v) /\ v.route = RouteOf(k) /\ "idle" \notin v.oflags) =>
                \A y \in Items(s) : Down(k, {}, v, y)
<1> DEFINE m == Head(e.out)
           y == Passed(c, m, 1)
           s == <<y>>
<1>1. m = Head(e.out)
  OBVIOUS
<1> HIDE DEF m
<1>2. /\ s \in Seq(OutType) /\ \A z \in Items(s) : z.msg = m
      /\ \A v : (Routed(e) => Routed(v) /\ v.route = RouteOf(k) /\ "idle" \notin v.oflags) =>
           \A z \in Items(s) : Down(k, {}, v, z)
  BY <1>1, PassedFacts
<1> HIDE DEF y
<1>3. y \in OutType
  BY <1>2
<1>4. Items(s) = {y}
  BY <1>3, OneItem
<1>5. y.msg = Head(e.out)
  BY <1>1, <1>2, <1>4
<1>6. e.out # <<>>
  BY FedFacts
<1>7. KeptNeatly(k, e, first)
  BY FedNeatly
<1>8. KeptNeatly(k, d, first \o s)
  BY <1>3, <1>5, <1>6, <1>7, PassedNeatly
<1> QED BY <1>2, <1>8 DEF y, m

\* The end of the initialisation.
LEMMA PreparedHands ==
    ASSUME ChainInv, OnceInv, NEW k \in Codecs, Runs(k), NEW e, NEW first, Fed(k, e, first), FedFrom(k, e, first),
           Initial(e), NEW e1, e1 = PutState(e, Toggled(e.state, {"runtime_init", "execution"})),
           codec' = [codec EXCEPT ![k] = Prepared(e1).c],
           Sent(WorkerOf[k], <<>>, queue[WorkerOf[k]], first \o (<<>> \o Prepared(e1).out)),
           Told(first \o (<<>> \o Prepared(e1).out))
    PROVE  Handed(k)
<1> DEFINE S == Toggled(e.state, {"runtime_init", "execution"})
           d == Prepared(e1).c
           s == <<Passed(e1, Head(e.out), 1)>>
<1>1. /\ e \in CodecType(k) /\ OnePhase(e) /\ e.route = RouteOf(k) /\ ~Routed(e) /\ Tail(e.out) \in Seq(AllMsgs)
  BY FedFacts
<1>2. S \in SUBSET Flags.state
  BY <1>1 DEF CodecType, Toggled, Flags
<1> HIDE DEF S
<1>3. e1 \in CodecType(k) /\ SameIn(e, e1) /\ SameOut(e, e1)
  BY <1>1, <1>2, PutStateFields DEF S
<1>4. e1.out = e.out /\ e1.route = e.route /\ e1.oflags = e.oflags /\ e1.in = e.in
  BY <1>3 DEF SameOut, SameIn
<1>5. Tail(e1.out) \in Seq(AllMsgs)
  BY <1>1, <1>4
<1>6. SameIn(e1, d) /\ d.out = Tail(e1.out) /\ d.oflags = e1.oflags \ {"idle"} /\ d.route = e1.route
  BY <1>3, <1>5, PassingFields
<1>7. codec' = [codec EXCEPT ![k] = d]
  OBVIOUS
<1>8. <<>> \o Prepared(e1).out = s
  BY <1>4 DEF Prepared
<1> HIDE DEF d
<1>9. d.in = e.in /\ d.out = Tail(e.out) /\ d.route = RouteOf(k)
  BY <1>1, <1>4, <1>6 DEF SameIn
<1>10. s \in Seq(OutType) /\ KeptNeatly(k, d, first \o s) /\ \A y \in Items(s) : Down(k, {}, d, y)
  BY <1>1, <1>3, <1>4, <1>9, PassedKept
<1>11. d.oflags \ {"idle"} = codec[k].oflags \ {"idle"}
  <2>1. e.oflags = codec[k].oflags
    BY DEF Fed
  <2> QED BY <1>4, <1>6, <2>1
<1>12. Sent(WorkerOf[k], <<>>, queue[WorkerOf[k]], first \o s) /\ Told(first \o s)
  BY <1>8
<1> HIDE DEF s
<1> QED BY <1>7, <1>9, <1>10, <1>11, <1>12, RunHands

\* A run of a component that is initialised.
LEMMA InitialHands ==
    ASSUME ChainInv, OnceInv, NEW k \in Codecs, Runs(k), NEW e, NEW first, Fed(k, e, first), FedFrom(k, e, first),
           Initial(e), NEW x \in Executed(k, e), NEW r, r = Postprocessed(k, x),
           codec' = [codec EXCEPT ![k] = r.c],
           Sent(WorkerOf[k], <<>>, queue[WorkerOf[k]], first \o r.out), Told(first \o r.out)
    PROVE  Handed(k)
<1> DEFINE done == k \notin Decoders \/ e.filled > 0 \/ "done" \in e.iflags
           S == Toggled(e.state, {"runtime_init", "execution"})
           e1 == PutState(e, S)
           R == e.state \ {"input_setup"}
           a == PutState(e, R)
           d == IF InReady(a) /\ OutReady(a) THEN Scheduled(a) ELSE a
<1>1. /\ e \in CodecType(k) /\ OnePhase(e) /\ "execution" \notin e.state
  BY FedFacts DEF OnePhase
<1>3. x.c = (IF done THEN e1 ELSE e) /\ (x.done <=> done) /\ x.consumed = 0 /\ x.produced = 0
  <2>1. Executed(k, e) = {[c |-> IF done THEN e1 ELSE e, consumed |-> 0, produced |-> 0, done |-> done]}
    BY DEF Executed, Initial, PutState
  <2> HIDE DEF done, e1
  <2> QED BY <2>1
<1>4. OutOf(x).c = x.c /\ OutOf(x).out = <<>>
  BY <1>3 DEF OutOf, UsedOf
<1> HIDE DEF done
<1>5. CASE x.done
  <2>1. x.c = e1
    BY <1>3, <1>5
  <2>2. "execution" \in S
    BY <1>1 DEF Toggled
  <2>3. e1.state = S
    <3>1. S \in SUBSET Flags.state
      BY <1>1 DEF CodecType, Toggled, Flags
    <3> HIDE DEF S
    <3> QED BY <1>1, <3>1, PutStateFields
  <2>4. r.c = Prepared(e1).c /\ r.out = <<>> \o Prepared(e1).out
    BY <1>4, <1>5, <2>1, <2>2, <2>3, PostprocessedIs
  <2> DEFINE z == PutState(e, Toggled(e.state, {"runtime_init", "execution"}))
  <2>5. z = e1
    OBVIOUS
  <2> HIDE DEF e1, z
  <2>6. z = PutState(e, Toggled(e.state, {"runtime_init", "execution"}))
    BY DEF z
  <2>7. /\ codec' = [codec EXCEPT ![k] = Prepared(z).c]
        /\ Sent(WorkerOf[k], <<>>, queue[WorkerOf[k]], first \o (<<>> \o Prepared(z).out))
        /\ Told(first \o (<<>> \o Prepared(z).out))
    BY <2>4, <2>5
  <2> QED BY <2>6, <2>7, PreparedHands
<1>6. CASE ~x.done
  <2>1. x.c = e
    BY <1>3, <1>6
  <2>2. r.c = d /\ r.out = <<>>
    <3>1. "runtime_init" \in e.state
      BY DEF Initial
    <3> QED BY <1>3, <1>4, <1>6, <2>1, <3>1, PostprocessedIs
  <2>3. R \in SUBSET Flags.state
    BY <1>1 DEF CodecType, Flags
  <2> HIDE DEF R
  <2>4. a \in CodecType(k) /\ SameIn(e, a) /\ SameOut(e, a)
    BY <1>1, <2>3, PutStateFields
  <2> HIDE DEF a
  <2> DEFINE b == Scheduled(a)
  <2>5. SameIn(a, b) /\ SameOut(a, b)
    BY <2>4, ScheduledFields
  <2>6. d = b \/ d = a
    OBVIOUS
  <2> HIDE DEF b, d
  <2>7. d.in = e.in /\ SameOut(e, d)
    BY <2>4, <2>5, <2>6 DEF SameIn, SameOut
  <2>8. /\ codec' = [codec EXCEPT ![k] = d]
        /\ Sent(WorkerOf[k], <<>>, queue[WorkerOf[k]], first \o <<>>) /\ Told(first \o <<>>)
    BY <2>2
  <2> QED BY <2>7, <2>8, QuietHands
<1> QED BY <1>5, <1>6

\* What an execution leaves.
LEMMA MadeNeatly ==
    ASSUME ChainInv, OnceInv, NEW k \in Codecs, Runs(k), NEW e, NEW first, Fed(k, e, first), FedFrom(k, e, first),
           "execution" \in e.state, NEW x \in Executed(k, e)
    PROVE  KeptNeatly(k, OutOf(x).c, first \o OutOf(x).out)
<1> DEFINE u == UsedOf(x)
           y == OutOf(x)
           m == Produced(u).c
           s == <<Passed(u, Head(e.out), 1)>>
<1>1. u \in CodecType(k) /\ SameOut(e, u) /\ u.in = e.in /\ x.produced \in {0, 1}
  BY UsedFacts
<1>2. Tail(e.out) \in Seq(AllMsgs)
  BY FedFacts
<1>3. y = IF x.produced = 0 THEN [c |-> u, out |-> <<>>] ELSE Produced(u)
  BY DEF OutOf
<1> HIDE DEF u, y
<1>4. u.out = e.out /\ u.route = e.route
  BY <1>1 DEF SameOut
<1>5. CASE x.produced = 0
  <2>1. y.c = u /\ y.out = <<>>
    BY <1>3, <1>5
  <2>2. first \o y.out = first
    BY <2>1 DEF Fed
  <2>3. KeptNeatly(k, e, first)
    BY FedNeatly
  <2>4. KeptNeatly(k, u, first)
    BY <1>1, <1>4, <2>3 DEF KeptNeatly
  <2> QED BY <2>1, <2>2, <2>4 DEF y
<1>6. CASE x.produced = 1
  <2>1. y = Produced(u)
    BY <1>3, <1>6
  <2>2. SameIn(u, m) /\ m.out = Tail(u.out)
    BY <1>1, <1>2, <1>4, PassingFields
  <2>3. Produced(u).out = s
    BY <1>4 DEF Produced
  <2> HIDE DEF m
  <2>4. m.in = e.in /\ m.out = Tail(e.out)
    BY <1>1, <1>4, <2>2 DEF SameIn
  <2>5. KeptNeatly(k, m, first \o s)
    BY <1>1, <1>4, <2>4, PassedKept
  <2>6. y.c = m /\ y.out = s
    BY <2>1, <2>3 DEF m
  <2> QED BY <2>5, <2>6 DEF y
<1> QED BY <1>1, <1>5, <1>6

\* One that goes on.
LEMMA GoesOnHands ==
    ASSUME ChainInv, OnceInv, NEW k \in Codecs, Runs(k), NEW e, NEW first, Fed(k, e, first), ~Initial(e),
           NEW m, NEW out, Made(k, e, m, out, FALSE), KeptNeatly(k, m, first \o out),
           NEW d, d = IF InReady(m) /\ OutReady(m) THEN Scheduled(m) ELSE m,
           codec' = [codec EXCEPT ![k] = d],
           Sent(WorkerOf[k], <<>>, queue[WorkerOf[k]], first \o out), Told(first \o out)
    PROVE  Handed(k)
<1> DEFINE r == Scheduled(m)
<1>1. m.route = RouteOf(k) /\ (Routed(m) <=> Routed(e))
  BY MadeFacts
<1>2. /\ m \in CodecType(k) /\ m.oflags \ {"idle"} = e.oflags \ {"idle"} /\ out \in Seq(OutType)
      /\ \A u : (Routed(e) => Routed(u) /\ u.route = RouteOf(k) /\ "idle" \notin u.oflags) =>
           \A y \in Items(out) : Down(k, {}, u, y)
      /\ out = <<>> \/ "idle" \notin m.oflags
  BY DEF Made
<1>3. SameIn(m, r) /\ SameOut(m, r)
  BY <1>2, ScheduledFields
<1> HIDE DEF r
<1>4. d.in = m.in /\ d.out = m.out /\ d.oflags = m.oflags /\ d.route = RouteOf(k)
  <2>1. d = r \/ d = m
    BY DEF r
  <2> QED BY <1>1, <1>3, <2>1 DEF SameIn, SameOut
<1>5. \A y \in Items(out) : Down(k, {}, d, y)
  BY <1>1, <1>2, <1>4, EmptyItems DEF Routed
<1>6. KeptNeatly(k, d, first \o out)
  BY <1>4 DEF KeptNeatly
<1>7. d.oflags \ {"idle"} = codec[k].oflags \ {"idle"}
  <2>1. e.oflags = codec[k].oflags
    BY DEF Fed
  <2> QED BY <1>2, <1>4, <2>1
<1> HIDE DEF r
<1> QED BY <1>2, <1>4, <1>5, <1>6, <1>7, RunHands

\* Sequences joined.
LEMMA JoinedTwice ==
    ASSUME NEW S, NEW a \in Seq(S), NEW b \in Seq(S), NEW c \in Seq(S)
    PROVE  a \o (b \o c) = (a \o b) \o c
OBVIOUS

\* The end of the stream, with nothing below.
LEMMA OverHands ==
    ASSUME ChainInv, OnceInv, NEW k \in Codecs, Runs(k), NEW e, NEW first, Fed(k, e, first), ~Initial(e),
           NEW m, NEW out, Made(k, e, m, out, TRUE), KeptNeatly(k, m, first \o out), ~Routed(m), NEW n,
           codec' = [codec EXCEPT ![k] = StreamOver(k, m, n).c],
           Sent(WorkerOf[k], <<>>, queue[WorkerOf[k]], first \o (out \o StreamOver(k, m, n).out)),
           Told(first \o (out \o StreamOver(k, m, n).out))
    PROVE  Handed(k)
<1> DEFINE g == Flushed(k, m, "fill")
           f == g.c
           fout == g.out
           p == Purged(f).c
           pout == Purged(f).out
           S == p.state \cup {"eos_seq_done"}
           u == PutState(p, S)
           d == IF n = 0 /\ ~Routed(p) THEN u ELSE p
           r2 == fout \o pout
           r == out \o r2
           o == first \o out
           t == m.out
<1>1. m.mode = "running" /\ m.prepared /\ OutputOk(k, m) /\ m.route = RouteOf(k)
  BY MadeFacts
<1>2. /\ m \in CodecType(k) /\ m.in = e.in /\ out \in Seq(OutType) /\ m.oflags \ {"idle"} = e.oflags \ {"idle"}
      /\ m.route = e.route /\ t \in Seq(AllMsgs)
      /\ \A v : (Routed(e) => Routed(v) /\ v.route = RouteOf(k) /\ "idle" \notin v.oflags) =>
           \A y \in Items(out) : Down(k, {}, v, y)
  BY DEF Made
<1>3. \A y \in Items(t) : y = Msg(k, "out") /\ k \in Sinks
  <2>1. ~Initial(m)
    BY DEF Made
  <2> QED BY <1>1, <2>1 DEF OutputOk
<1> HIDE DEF g
<1>4. /\ f \in CodecType(k) /\ SameMode(m, f) /\ SameTask(m, f) /\ SameIn(m, f)
      /\ f.out = <<>> /\ f.route = m.route /\ f.oflags = m.oflags
      /\ g.done
      /\ fout \in Seq(OutType) /\ Plain(k, {}, fout) /\ Ordered(fout)
      /\ \A y \in Items(fout) : y.msg = Msg(k, "out") /\ ~IsControl(y) /\ ~FromPool(y.msg)
  BY <1>2, <1>3, UnroutedFlush DEF g
<1>5. fout = [i \in DOMAIN t |-> Item(App, t[i], "fill", 0)]
  BY DEF Flushed, g
<1>6. DOMAIN fout = DOMAIN t /\ \A j \in DOMAIN t : fout[j].msg = t[j]
  BY <1>5, ItemFacts
<1>7. StreamOver(k, m, n).out = r2 /\ StreamOver(k, m, n).c = d
  BY <1>4 DEF StreamOver, PutState, g
<1> HIDE DEF f, fout
<1>8. /\ Items(f.in) \subseteq Items(codec[k].in) /\ \A y, z : Ahead(f.in, y, z) => Ahead(codec[k].in, y, z)
  BY <1>2, <1>4 DEF Fed, SameIn
<1>9. /\ p \in CodecType(k) /\ SameOut(f, p) /\ p.in = <<>>
      /\ pout \in Seq(OutType) /\ Plain(k, {}, pout)
  BY <1>4, <1>8, PurgedFacts
<1> DEFINE pq == Purged(f).out
<1>10. /\ Neat(m.in, t, o)
       /\ \A a : Among(m.in, t, o, a) <=> Among(codec[k].in, codec[k].out, <<>>, a)
  BY DEF KeptNeatly
<1> HIDE DEF t, o
<1>11. /\ Neat(m.in, <<>>, o \o fout)
       /\ \A a : Among(m.in, <<>>, o \o fout, a) <=> Among(m.in, t, o, a)
  BY <1>4, <1>6, <1>10, NeatOutput
<1>12. f.in = m.in
  BY <1>4 DEF SameIn
<1> DEFINE o1 == o \o fout
           nil == <<>>
<1>13. Neat(f.in, nil, o1) /\ \A a : Among(f.in, nil, o1, a) <=> Among(m.in, t, o, a)
  BY <1>11, <1>12
<1> HIDE DEF o1
<1>14. /\ Neat(<<>>, nil, o1 \o pout)
       /\ \A a : Among(<<>>, nil, o1 \o pout, a) <=> Among(f.in, nil, o1, a)
  BY <1>9, <1>13, PurgedNeatly
<1> HIDE DEF p, pout
<1>15. S \in SUBSET Flags.state
  BY <1>9 DEF CodecType, Flags
<1> HIDE DEF S
<1>16. SameIn(p, u) /\ SameOut(p, u)
  BY <1>9, <1>15, PutStateFields
<1>17. d.in = <<>> /\ d.out = <<>> /\ d.oflags = m.oflags /\ d.route = RouteOf(k)
  <2>1. d = u \/ d = p
    OBVIOUS
  <2> HIDE DEF u, d
  <2>2. p.in = <<>> /\ p.out = <<>> /\ p.oflags = m.oflags /\ p.route = RouteOf(k)
    BY <1>1, <1>4, <1>9 DEF SameOut
  <2> QED BY <1>16, <2>1, <2>2 DEF SameIn, SameOut
<1> HIDE DEF u, d
<1>18. first \in Seq(OutType)
  BY DEF Fed
<1>19. r2 \in Seq(OutType) /\ Items(r2) = Items(fout) \cup Items(pout)
  BY <1>4, <1>9, Joined
<1>20. r \in Seq(OutType) /\ Items(r) = Items(out) \cup Items(fout) \cup Items(pout)
  <2> HIDE DEF r2
  <2> QED BY <1>2, <1>19, Joined
<1>21. first \o r = o1 \o pout
  <2>1. o \in Seq(OutType)
    BY <1>2, <1>18, Joined DEF o
  <2>2. o \o r2 = o1 \o pout
    BY <1>4, <1>9, <2>1, JoinedTwice DEF o1
  <2> HIDE DEF r2
  <2>3. first \o r = o \o r2
    BY <1>2, <1>18, <1>19, JoinedTwice DEF o
  <2> QED BY <2>2, <2>3
<1>22. Sent(WorkerOf[k], <<>>, queue[WorkerOf[k]], first \o r) /\ Told(first \o r)
  BY <1>7
<1>23. codec' = [codec EXCEPT ![k] = d]
  BY <1>7
<1>24. ~Routed(e)
  BY MadeFacts
<1>25. \A y \in Items(r) : Down(k, {}, d, y)
  BY <1>2, <1>4, <1>9, <1>20, <1>24 DEF Plain, Down
<1> HIDE DEF r
<1>26. KeptNeatly(k, d, first \o r)
  BY <1>10, <1>13, <1>14, <1>17, <1>21 DEF KeptNeatly
<1>27. d.oflags \ {"idle"} = codec[k].oflags \ {"idle"}
  <2>1. e.oflags = codec[k].oflags
    BY DEF Fed
  <2> QED BY <1>2, <1>17, <2>1
<1> QED BY <1>17, <1>20, <1>22, <1>23, <1>25, <1>26, <1>27, RunHands

\* The end of the stream goes down.
LEMMA OverBelowHands ==
    ASSUME ChainInv, OnceInv, NEW k \in Codecs, Runs(k), NEW e, NEW first, Fed(k, e, first), ~Initial(e),
           NEW m, NEW out, Made(k, e, m, out, TRUE), KeptNeatly(k, m, first \o out), Routed(m),
           "idle" \notin m.oflags, NEW n,
           codec' = [codec EXCEPT ![k] = StreamOver(k, m, n).c],
           Sent(WorkerOf[k], <<>>, queue[WorkerOf[k]], first \o (out \o StreamOver(k, m, n).out)),
           Told(first \o (out \o StreamOver(k, m, n).out))
    PROVE  Handed(k)
<1> DEFINE c == codec[k]
           g == Flushed(k, m, "fill")
           d == g.c
           fout == g.out
           x == Item(RouteOf(k), Control(k), "empty", 0)
           s == <<x>>
           o == first \o out
           r == o \o s
           T == {}
           l == <<>>
           q == queue[WorkerOf[k]]
<1>1. ~Unrouting(m) /\ ~Flushing(m) /\ m.route = RouteOf(k) /\ (Routed(m) <=> Routed(c)) /\ (Routed(m) <=> Routed(e))
  BY MadeFacts
<1>2. /\ m \in CodecType(k) /\ out \in Seq(OutType) /\ m.oflags \ {"idle"} = e.oflags \ {"idle"}
      /\ \A v : (Routed(e) => Routed(v) /\ v.route = RouteOf(k) /\ "idle" \notin v.oflags) =>
           \A y \in Items(out) : Down(k, {}, v, y)
  BY DEF Made
<1>3. /\ ~Gone(k) /\ ~Flushing(c) /\ ~Unrouting(c) /\ Takes(k, T, l, q) /\ Turn(k, T, l, q)
      /\ c.mode = "running" /\ c.route = RouteOf(k) /\ local[WorkerOf[k]] = <<>>
  BY RunsFacts DEF Runs
<1> HIDE DEF g
<1>4. /\ g.c \in CodecType(k) /\ SameMode(m, g.c) /\ SameTask(m, g.c) /\ SameIn(m, g.c)
      /\ g.c.out = m.out /\ g.c.route = m.route
      /\ LET now == "idle" \in m.oflags /\ "fill" # "fill" IN
         /\ g.done <=> now
         /\ now => g.out = <<>> /\ g.c.oflags = m.oflags
         /\ ~now => /\ g.c.oflags = m.oflags \cup {"flushing"}
                    /\ g.out = IF Flushing(m) THEN <<>>
                               ELSE <<Item(m.route, Control(k), IF "fill" = "fill" THEN "empty" ELSE "fill", 0)>>
  BY <1>2, FlushedFacts DEF g
<1>5. /\ d.in = m.in /\ d.out = m.out /\ d.oflags = m.oflags \cup {"flushing"} /\ d.route = RouteOf(k)
      /\ ~g.done /\ fout = s
  BY <1>1, <1>4 DEF SameIn
<1>6. Routed(d) /\ Flushing(d) /\ "idle" \notin d.oflags
  BY <1>5 DEF Routed, Flushing
<1>7. StreamOver(k, m, n).c = d /\ StreamOver(k, m, n).out = fout \o <<>>
  BY <1>5, <1>6 DEF StreamOver, g
<1> HIDE DEF d, fout
<1>8. s \in Seq(OutType) /\ (\A y \in Items(s) : IsSent(k, d, y)) /\ \A a : ~ToApp(s, a)
  BY <1>1, <1>3, <1>5, <1>6, ControlSent
<1>9. x \in OutType /\ x.msg = Control(k)
  <2>1. RouteOf(k) \in Codecs
    BY <1>1, <1>3, Mine
  <2> QED BY <2>1, ItemFacts, ControlFacts DEF Ops, Lens
<1> HIDE DEF x
<1>10. Items(s) = {x}
  BY <1>9, OneItem
<1> HIDE DEF s
<1>11. first \in Seq(OutType) /\ \A y \in Items(first) : Down(k, T, d, y)
  BY DEF Fed, Plain, Down
<1>12. o \in Seq(OutType) /\ Items(o) = Items(first) \cup Items(out)
  BY <1>2, <1>11, Joined
<1>13. r \in Seq(OutType) /\ Items(r) = Items(first) \cup Items(out) \cup {x}
  <2> HIDE DEF o
  <2> QED BY <1>8, <1>10, <1>12, Joined
<1>14. first \o (out \o StreamOver(k, m, n).out) = r
  <2>1. StreamOver(k, m, n).out = s
    BY <1>5, <1>7, <1>8
  <2>2. first \o (out \o s) = r
    BY <1>2, <1>8, <1>11, JoinedTwice
  <2> QED BY <2>1, <2>2
<1>15. /\ Neat(d.in, d.out, o)
       /\ \A a : Among(d.in, d.out, o, a) <=> Among(c.in, c.out, <<>>, a)
  BY <1>5 DEF KeptNeatly
<1>16. ~Among(d.in, d.out, o, x.msg) /\ IsNew(k, x.msg)
  <2>1. IsNew(k, x.msg)
    BY <1>3, <1>9 DEF IsNew
  <2>2. ~Among(c.in, c.out, <<>>, x.msg)
    BY <2>1, HandHeld, NewNowhere
  <2> QED BY <1>15, <2>1, <2>2
<1>17. /\ Neat(d.in, d.out, r)
       /\ \A a : Among(d.in, d.out, r, a) <=> (Among(d.in, d.out, o, a) \/ a = x.msg)
  <2> HIDE DEF o
  <2> QED BY <1>9, <1>15, <1>16, NeatOne DEF s
<1>18. \A y \in Items(r) : Down(k, T, d, y)
  <2>1. \A y \in Items(out) : Down(k, T, d, y)
    BY <1>2, <1>5, <1>6
  <2>2. Down(k, T, d, x)
    BY <1>8, <1>10 DEF Down
  <2> QED BY <1>11, <1>13, <2>1, <2>2
<1>19. Steps(k, T, l, q, d, r)
  <2>1. codec' = [codec EXCEPT ![k] = d]
    BY <1>7
  <2>2. Sent(WorkerOf[k], <<>>, queue[WorkerOf[k]], r) /\ Told(r)
    BY <1>14
  <2> HIDE DEF r
  <2> QED BY <1>3, <2>1, <2>2 DEF Steps
<1>20. TakesAll(k, T, l, q) /\ \A a : InHand(k, T, a) <=> Among(c.in, c.out, <<>>, a)
  BY <1>3, RunsAll
<1>21. InSeq(r, Control(k))
  BY <1>9, <1>13 DEF InSeq
<1>22. ~HasMsg(T, Cmd)
  BY DEF HasMsg
<1>23. /\ \A a : Among(d.in, d.out, r, a) => InHand(k, T, a) \/ IsNew(k, a)
       /\ \A a : InHand(k, T, a) /\ a # Cmd => Among(d.in, d.out, r, a)
  BY <1>15, <1>16, <1>17, <1>20
<1>24. d.route = c.route /\ (Routed(d) <=> Routed(c))
  BY <1>1, <1>3, <1>5, <1>6
<1> HIDE DEF c, T, l, q, r, o
<1>25. Hands(k, T, l, q, d, r)
  BY <1>3, <1>6, <1>17, <1>18, <1>19, <1>20, <1>21, <1>22, <1>23, <1>24, HandsOn DEF c
<1> QED BY <1>25 DEF Handed

\* A run of a component that executes.
LEMMA ExecutionHands ==
    ASSUME ChainInv, OnceInv, MayBeBarren = FALSE, NEW k \in Codecs, Runs(k), NEW e, NEW first,
           Fed(k, e, first), FedFrom(k, e, first),
           "execution" \in e.state, NEW x \in Executed(k, e), NEW r, r = Postprocessed(k, x),
           codec' = [codec EXCEPT ![k] = r.c],
           Sent(WorkerOf[k], <<>>, queue[WorkerOf[k]], first \o r.out), Told(first \o r.out)
    PROVE  Handed(k)
<1> DEFINE m == OutOf(x).c
           out == OutOf(x).out
           d == IF InReady(m) /\ OutReady(m) THEN Scheduled(m) ELSE m
           n == x.produced
<1>1. /\ x.done \in BOOLEAN /\ Made(k, e, m, out, x.done)
      /\ x.done /\ Routed(m) /\ ~MayBeBarren => "idle" \notin m.oflags
  BY ExecutedMade
<1>2. ~Initial(e)
  BY FedFacts DEF OnePhase
<1>3. ("execution" \in m.state <=> ~x.done) /\ "runtime_init" \notin m.state
  BY <1>1 DEF Made, Initial
<1>4. /\ x.done => r.c = StreamOver(k, m, n).c /\ r.out = out \o StreamOver(k, m, n).out
      /\ ~x.done => r.c = d /\ r.out = out
  BY <1>3, PostprocessedIs
<1>5. KeptNeatly(k, m, first \o out)
  BY MadeNeatly
<1> HIDE DEF m, out, n
<1>6. CASE ~x.done
  <2>1. /\ codec' = [codec EXCEPT ![k] = d]
        /\ Sent(WorkerOf[k], <<>>, queue[WorkerOf[k]], first \o out) /\ Told(first \o out)
    BY <1>4, <1>6
  <2>2. x.done = FALSE
    BY <1>1, <1>6
  <2>3. Made(k, e, m, out, FALSE)
    BY <1>1, <2>2
  <2>4. d = IF InReady(m) /\ OutReady(m) THEN Scheduled(m) ELSE m
    OBVIOUS
  <2> HIDE DEF d
  <2> QED BY <1>2, <1>5, <2>1, <2>3, <2>4, GoesOnHands
<1>7. CASE x.done
  <2>1. /\ codec' = [codec EXCEPT ![k] = StreamOver(k, m, n).c]
        /\ Sent(WorkerOf[k], <<>>, queue[WorkerOf[k]], first \o (out \o StreamOver(k, m, n).out))
        /\ Told(first \o (out \o StreamOver(k, m, n).out))
    BY <1>4, <1>7
  <2>2. x.done = TRUE
    BY <1>1, <1>7
  <2>3. Made(k, e, m, out, TRUE)
    BY <1>1, <2>2
  <2>4. CASE ~Routed(m)
    BY <1>2, <1>5, <2>1, <2>3, <2>4, OverHands
  <2>5. CASE Routed(m)
    <3>1. "idle" \notin m.oflags
      BY <1>1, <2>2, <2>5
    <3> QED BY <1>2, <1>5, <2>1, <2>3, <2>5, <3>1, OverBelowHands
  <2> QED BY <2>4, <2>5
<1> QED BY <1>6, <1>7

\* ... that is completed.
LEMMA CompletedHands ==
    ASSUME ChainInv, OnceInv, NEW k \in Codecs, Runs(k), NEW e, NEW first, Fed(k, e, first), FedFrom(k, e, first),
           Completed(e), NEW x \in Executed(k, e), NEW r, r = Postprocessed(k, x),
           codec' = [codec EXCEPT ![k] = r.c],
           Sent(WorkerOf[k], <<>>, queue[WorkerOf[k]], first \o r.out), Told(first \o r.out)
    PROVE  Handed(k)
<1>1. OnePhase(e) /\ e.in = <<>>
  BY FedFacts
<1>2. "runtime_init" \notin e.state /\ "execution" \notin e.state
  BY <1>1 DEF OnePhase, Initial
<1>3. x = [c |-> e, consumed |-> 0, produced |-> 0, done |-> FALSE]
  BY <1>2 DEF Executed
<1>4. x.c = e /\ x.consumed = 0 /\ x.produced = 0 /\ ~x.done
  BY <1>3
<1>5. OutOf(x).c = e /\ OutOf(x).out = <<>>
  BY <1>4 DEF OutOf, UsedOf
<1>6. ~InReady(e)
  BY <1>1 DEF InReady
<1>7. r.c = e /\ r.out = <<>>
  BY <1>2, <1>4, <1>5, <1>6, PostprocessedIs
<1>8. /\ codec' = [codec EXCEPT ![k] = e]
      /\ Sent(WorkerOf[k], <<>>, queue[WorkerOf[k]], first \o <<>>) /\ Told(first \o <<>>)
  BY <1>7
<1>9. SameOut(e, e)
  BY DEF SameOut
<1> QED BY <1>8, <1>9, QuietHands

\* xa_base_process
LEMMA ProcessHands ==
    ASSUME ChainInv, OnceInv, MayBeBarren = FALSE, NEW k \in Codecs, Process(k)
    PROVE  Handed(k)
<1> DEFINE w == WorkerOf[k]
           pre == Preprocessed(k, TakenOff(codec[k]))
           e == pre.c
           first == pre.out
<1>1. /\ local[w] = <<>> /\ k \in Scheduling(w)
      /\ \E r \in IF pre.ok THEN {Postprocessed(k, x) : x \in Executed(k, e)}
                  ELSE {[c |-> e, out |-> <<>>]} :
            /\ codec' = [codec EXCEPT ![k] = r.c]
            /\ Sent(w, <<>>, queue[w], first \o r.out)
            /\ Told(first \o r.out)
  BY DEF Process, TakenOff
<1>2. Runs(k)
  BY <1>1 DEF Runs
<1>3. Fed(k, e, first) /\ FedFrom(k, e, first)
  BY <1>2, PreFacts
<1>4. OnePhase(e)
  BY <1>2, <1>3, FedFacts
<1>5. CASE ~pre.ok
  <2>1. PICK r \in {[c |-> e, out |-> <<>>]} :
            /\ codec' = [codec EXCEPT ![k] = r.c]
            /\ Sent(w, <<>>, queue[w], first \o r.out)
            /\ Told(first \o r.out)
    BY <1>1, <1>5
  <2> HIDE DEF pre, e, first
  <2>2. r.c = e /\ r.out = <<>>
    OBVIOUS
  <2>3. /\ codec' = [codec EXCEPT ![k] = e]
        /\ Sent(w, <<>>, queue[w], first \o <<>>) /\ Told(first \o <<>>)
    BY <2>1, <2>2
  <2>4. SameOut(e, e)
    BY DEF SameOut
  <2> QED BY <1>2, <1>3, <2>3, <2>4, QuietHands
<1>6. CASE pre.ok
  <2>1. PICK x \in Executed(k, e) :
            /\ codec' = [codec EXCEPT ![k] = Postprocessed(k, x).c]
            /\ Sent(w, <<>>, queue[w], first \o Postprocessed(k, x).out)
            /\ Told(first \o Postprocessed(k, x).out)
    BY <1>1, <1>6
  <2> DEFINE r == Postprocessed(k, x)
  <2>2. /\ codec' = [codec EXCEPT ![k] = r.c]
        /\ Sent(w, <<>>, queue[w], first \o r.out) /\ Told(first \o r.out)
    BY <2>1
  <2>3. r = Postprocessed(k, x)
    OBVIOUS
  <2> HIDE DEF pre, e, first, r
  <2>4. CASE Initial(e)
    BY <1>2, <1>3, <2>2, <2>3, <2>4, InitialHands
  <2>5. CASE "execution" \in e.state
    BY <1>2, <1>3, <2>2, <2>3, <2>5, ExecutionHands
  <2>6. CASE Completed(e)
    BY <1>2, <1>3, <2>2, <2>3, <2>6, CompletedHands
  <2> QED BY <1>4, <2>4, <2>5, <2>6 DEF OnePhase
<1> QED BY <1>5, <1>6

-----------------------------------------------------------------------------
(* The application.                                                        *)

\* A message the application sends goes from its hands to one queue; a call sends the
\* command, nothing else does.
LEMMA SendHeld ==
    ASSUME ChainInv, OnceInv, HeldInv, NEW k \in Codecs, NEW m, NEW op \in Ops, NEW len \in Lens,
           Sends(k, m, op, len), (call' = call /\ m # Cmd) \/ (call' # None /\ m = Cmd)
    PROVE  OnceInv' /\ HeldInv'
<1> DEFINE x == Item(k, m, op, len)
           w == WorkerOf[k]
<1>1. /\ x.msg = m /\ m \in AppMsgs /\ m \in owned /\ ~FromPool(m) /\ w \in Workers
      /\ queue' \in [Workers -> Seq(ItemType)]
      /\ \A v \in Workers : \A y : (y \in Items(queue'[v])) <=> (y \in Items(queue[v]) \/ (v = w /\ y = x))
      /\ \A v \in Workers : \A y, z : Ahead(queue'[v], y, z) =>
           Ahead(queue[v], y, z) \/ (v = w /\ y \in Items(queue[w]) /\ z = x)
  <2>1. Joins(k, x) /\ x.msg = m
    BY SendsFacts
  <2> HIDE DEF x
  <2> QED BY <2>1 DEF Joins
<1>2. /\ owned' = owned \ {m} /\ codec' = codec /\ local' = local /\ ready' = ready /\ conn' = conn
  BY DEF Sends
<1> HIDE DEF x
<1>3. \A v \in Workers : \A z : InSeq(queue'[v], z) <=> (InSeq(queue[v], z) \/ (v = w /\ z = m))
  BY <1>1 DEF InSeq
<1>4. \A n, y, z : Has(n, y, z)' <=> \/ Has(n, y, z) /\ ~(n = "app" /\ z = m)
                                     \/ n = "queue" /\ y = w /\ z = m
  <2>1. ASSUME NEW n, NEW y, NEW z PROVE Has(n, y, z)' <=> \/ Has(n, y, z) /\ ~(n = "app" /\ z = m)
                                                           \/ n = "queue" /\ y = w /\ z = m
    <3>1. CASE n = "queue"
      <4>1. Has(n, y, z) <=> y \in Workers /\ InSeq(queue[y], z)
        BY <3>1 DEF Has
      <4>2. Has(n, y, z)' <=> y \in Workers /\ InSeq(queue'[y], z)
        BY <3>1 DEF Has
      <4>3. n # "app"
        BY <3>1
      <4> QED BY <1>1, <1>3, <3>1, <4>1, <4>2, <4>3
    <3>2. CASE n = "app"
      <4>1. Has(n, y, z) <=> y = App /\ z \in owned
        BY <3>2 DEF Has
      <4>2. Has(n, y, z)' <=> y = App /\ z \in owned'
        BY <3>2 DEF Has
      <4>3. n # "queue"
        BY <3>2
      <4> QED BY <1>2, <3>2, <4>1, <4>2, <4>3
    <3>3. CASE n # "queue" /\ n # "app"
      BY <1>2, <3>3 DEF Has
    <3> QED BY <3>1, <3>2, <3>3
  <2> QED BY <2>1
<1>5. Has("app", App, m)
  BY <1>1 DEF Has
<1>6. \A n, y : Has(n, y, m) => n = "app"
  BY <1>5, OnePlace
<1>7. OnceInv'
  <2>1. ASSUME NEW v \in Workers PROVE Single(local'[v]) /\ Single(queue'[v])
    <3>1. Single(local[v]) /\ Single(queue[v])
      BY DEF OnceInv
    <3>2. ASSUME NEW y, NEW z, Ahead(queue'[v], y, z) PROVE y.msg # z.msg
      <4>1. CASE Ahead(queue[v], y, z)
        BY <3>1, <4>1 DEF Single
      <4>2. CASE y \in Items(queue[w]) /\ z = x
        <5>1. Has("queue", w, y.msg)
          BY <1>1, <4>2 DEF Has, InSeq
        <5>2. y.msg # m
          <6>1. "queue" # "app"
            OBVIOUS
          <6> QED BY <1>6, <5>1, <6>1
        <5> QED BY <1>1, <4>2, <5>2
      <4> QED BY <1>1, <3>2, <4>1, <4>2
    <3> QED BY <1>2, <3>1, <3>2 DEF Single
  <2>2. \A h \in Codecs : Single(codec'[h].in) /\ Distinct(codec'[h].out)
    BY <1>2 DEF OnceInv
  <2>3. ASSUME NEW z, NEW n, NEW o, NEW y, NEW u, Has(n, y, z)', Has(o, u, z)' PROVE n = o /\ y = u
    <3>1. CASE z = m
      <4>1. (n = "queue" /\ y = w) /\ (o = "queue" /\ u = w)
        BY <1>4, <1>6, <2>3, <3>1
      <4> QED BY <4>1
    <3>2. CASE z # m
      <4>1. Has(n, y, z) /\ Has(o, u, z)
        BY <1>4, <2>3, <3>2
      <4> QED BY <4>1, OnePlace
    <3> QED BY <3>1, <3>2
  <2> QED BY <2>1, <2>2, <2>3 DEF OnceInv, Single, Distinct, Ahead
<1>8. \A z : Held(z) => Held(z)'
  <2> SUFFICES ASSUME NEW z, NEW n, NEW y, Has(n, y, z) PROVE Held(z)'
    BY DEF Held
  <2>1. Has(n, y, z)' \/ Has("queue", w, z)'
    BY <1>4
  <2> QED BY <2>1 DEF Held
<1>9. /\ \A y : Queued(y)' <=> (Queued(y) \/ y = x)
      /\ \A y : IsAbroad(y)' <=> (IsAbroad(y) \/ y = x)
  <2>1. \A y : Queued(y)' <=> (Queued(y) \/ y = x)
    BY <1>1 DEF Queued, Items
  <2>2. \A y : InTransit(y)' <=> (InTransit(y) \/ y = x)
    BY <1>1, <1>2 DEF InTransit, Items
  <2>3. \A y : AtInput(y)' <=> AtInput(y)
    BY <1>2 DEF AtInput, Items
  <2> QED BY <2>1, <2>2, <2>3 DEF IsAbroad
<1>10. call' # None => (\E y : Queued(y)' /\ y.msg = Cmd) \/ \E h \in Codecs : IsSaved(h)'
  <2>1. CASE call' = call /\ m # Cmd
    <3>1. \A h \in Codecs : IsSaved(h)' <=> IsSaved(h)
      BY <1>2 DEF IsSaved
    <3> QED BY <1>9, <2>1, <3>1 DEF HeldInv
  <2>2. CASE m = Cmd
    BY <1>1, <1>9, <2>2
  <2> QED BY <2>1, <2>2
<1>11. call' = None => Cmd \in owned'
  BY <1>2 DEF HeldInv
<1>12. \A h \in Codecs : Whole(h) => Whole(h)'
  BY <1>8 DEF Whole
<1>13. \A h \in Codecs : Control(h) # m /\ (EndsRoute(h) => EndsRoute(h)')
  <2> SUFFICES ASSUME NEW h \in Codecs PROVE Control(h) # m /\ (EndsRoute(h) => EndsRoute(h)')
    OBVIOUS
  <2>1. Control(h) # m
    BY <1>1, MsgFacts
  <2>2. \A y : IsAbroad(y)' /\ y.msg = Control(h) => IsAbroad(y)
    BY <1>1, <1>9, <2>1
  <2> QED BY <1>2, <2>1, <2>2 DEF EndsRoute
<1>14. \A h \in Codecs : IsRefused(h)' => IsRefused(h)
  <2>1. \A h : ~Of(x, h)
    BY <1>1 DEF Of
  <2> QED BY <1>9, <2>1 DEF IsRefused
<1>15. ASSUME NEW h \in Codecs
       PROVE  /\ Flushing(codec'[h]) => Held(Control(h))'
              /\ Connects(h)' /\ ~Gone(RouteOf(h))' => Whole(h)' \/ IsCut(h)'
              /\ Connects(h)' /\ codec'[RouteOf(h)'].mode = "terminating" /\ IsRefused(h)' => EndsRoute(h)'
  <2>1. RouteOf(h)' = RouteOf(h) /\ (Connects(h)' <=> Connects(h)) /\ (Gone(RouteOf(h))' <=> Gone(RouteOf(h)))
    BY <1>2 DEF RouteOf, Connects, Gone
  <2>2. IsCut(h) => IsCut(h)'
    BY <1>2, <1>13, <2>1 DEF IsCut
  <2>3. Flushing(codec[h]) => Held(Control(h))
    BY DEF HeldInv
  <2>4. Connects(h) /\ ~Gone(RouteOf(h)) => Whole(h) \/ IsCut(h)
    BY DEF HeldInv
  <2>5. Connects(h) /\ codec[RouteOf(h)].mode = "terminating" /\ IsRefused(h) => EndsRoute(h)
    BY DEF HeldInv
  <2> QED BY <1>2, <1>8, <1>12, <1>13, <1>14, <2>1, <2>2, <2>3, <2>4, <2>5
<1>16. \A z \in AppMsgs \ {Cmd} : Held(z)'
  BY <1>8 DEF HeldInv
<1>17. HeldInv'
  BY <1>10, <1>11, <1>15, <1>16 DEF HeldInv
<1> QED BY <1>7, <1>17

\* What the application does.
LEMMA AppHeld == ASSUME ChainInv, OnceInv, HeldInv, AppStep PROVE OnceInv' /\ HeldInv'
<1>1. "fill" \in Ops /\ "empty" \in Ops /\ 0 \in Lens /\ 1 \in Lens
  BY DEF Ops, Lens
<1>2. \A h \in Codecs : Msg(h, "start") # Cmd /\ Msg(h, "in") # Cmd /\ Msg(h, "eos") # Cmd /\ Msg(h, "out") # Cmd
  BY AppMsgFacts
<1>3. ASSUME NEW k \in Codecs, Start(k) \/ Input(k) \/ InputOver(k) \/ NeedOutput(k)
      PROVE  OnceInv' /\ HeldInv'
  <2>1. PICK m \in {Msg(k, "start"), Msg(k, "in"), Msg(k, "eos"), Msg(k, "out")}, op \in Ops, len \in Lens :
          Sends(k, m, op, len) /\ call' = call
    BY <1>1, <1>3 DEF Start, Input, InputOver, NeedOutput
  <2>2. m # Cmd
    BY <1>2
  <2> QED BY <2>1, <2>2, SendHeld
<1>4. ASSUME NEW k \in Codecs, NEW op \in Ops, NEW arg \in Codecs \cup {None, "in", "out"}, op \in CmdOps,
             Calls(k, op, arg)
      PROVE  OnceInv' /\ HeldInv'
  <2> DEFINE new == [op |-> op, on |-> k, arg |-> arg]
  <2>1. Sends(k, Cmd, op, 0) /\ call' = new
    BY <1>4 DEF Calls
  <2>2. new # None
    BY <1>4, CallAssumption DEF CmdOps
  <2> HIDE DEF new
  <2> QED BY <1>1, <2>1, <2>2, SendHeld
<1>5. CmdOps \subseteq Ops /\ "route" \in CmdOps /\ "unroute" \in CmdOps /\ "unregister" \in CmdOps
      /\ "pause" \in CmdOps /\ "resume" \in CmdOps
  BY DEF CmdOps, Ops
<1>6. ASSUME NEW e \in Edges, Connect(e) PROVE OnceInv' /\ HeldInv'
  <2>1. e[1] \in Codecs /\ e[2] \in Codecs /\ Calls(e[1], "route", e[2])
    BY <1>6, EdgesAssumption DEF Connect
  <2> QED BY <1>4, <1>5, <2>1
<1>7. ASSUME NEW k \in Codecs, Disconnect(k) \/ Delete(k) PROVE OnceInv' /\ HeldInv'
  <2>1. Calls(k, "unroute", None) \/ Calls(k, "unregister", None)
    BY <1>7 DEF Disconnect, Delete
  <2> QED BY <1>4, <1>5, <2>1
<1>8. ASSUME NEW k \in Codecs, Pause(k) \/ Resume(k) PROVE OnceInv' /\ HeldInv'
  <2>1. PICK port \in {"in", "out"} : Calls(k, "pause", port) \/ Calls(k, "resume", port)
    BY <1>8 DEF Pause, Resume
  <2>2. port \in Codecs \cup {None, "in", "out"}
    OBVIOUS
  <2> QED BY <1>4, <1>5, <2>1, <2>2
<1> QED BY <1>3, <1>6, <1>7, <1>8 DEF AppStep

-----------------------------------------------------------------------------
(* The invariants hold.                                                    *)

\* At first the application has all its messages.
LEMMA InitHeld == Init => OnceInv /\ HeldInv
<1> SUFFICES ASSUME Init PROVE OnceInv /\ HeldInv
  OBVIOUS
<1>1. /\ \A k \in Codecs : codec[k] = Configured
      /\ \A w \in Workers : local[w] = <<>> /\ queue[w] = <<>>
      /\ owned = AppMsgs /\ call = None
  BY DEF Init
<1>2. Configured.in = <<>> /\ Configured.out = <<>> /\ Configured.oflags = {"idle"}
  BY DEF Configured
<1>3. /\ \A k \in Codecs : codec[k].in = <<>> /\ codec[k].out = <<>> /\ ~Flushing(codec[k]) /\ ~Routed(codec[k])
  BY <1>1, <1>2 DEF Flushing, Routed
<1>4. /\ \A k \in Codecs : /\ Single(codec[k].in) /\ Distinct(codec[k].out)
                           /\ \A m : ~InSeq(codec[k].in, m) /\ m \notin Items(codec[k].out)
      /\ \A w \in Workers : /\ Single(local[w]) /\ Single(queue[w])
                            /\ \A m : ~InSeq(local[w], m) /\ ~InSeq(queue[w], m)
  BY <1>1, <1>3, SingleShort, EmptyItems
<1>5. \A n, x, m : Has(n, x, m) <=> n = "app" /\ x = App /\ m \in AppMsgs
  BY <1>1, <1>4 DEF Has
<1>6. OnceInv
  BY <1>4, <1>5 DEF OnceInv
<1>7. \A m \in AppMsgs : Held(m)
  BY <1>5 DEF Held
<1>8. Cmd \in owned
  BY <1>1, MsgFacts
<1>9. HeldInv
  BY <1>1, <1>3, <1>7, <1>8 DEF HeldInv, Connects
<1> QED BY <1>6, <1>9

\* Every step keeps them.
LEMMA NextHeld ==
    ASSUME ChainInv, OnceInv, HeldInv, MayBeBarren = FALSE, Next
    PROVE  ChainInv' /\ OnceInv' /\ HeldInv'
<1>1. ChainInv'
  BY NextChain
<1>2. CASE AppStep
  BY <1>1, <1>2, AppHeld
<1>3. ASSUME NEW w \in Workers, WorkerStep(w) PROVE OnceInv' /\ HeldInv'
  <2>1. PICK k \in Codecs :
          \/ EmptyThisBuffer(k) \/ FillThisBuffer(k) \/ PortRoute(k) \/ PortUnroute(k)
          \/ FlushInput(k) \/ FlushReturns(k) \/ PortPause(k) \/ PortResume(k)
          \/ Unregister(k) \/ Terminate(k) \/ Process(k)
    BY <1>3 DEF WorkerStep
  <2>2. Handed(k)
    BY <2>1, EmptyHands, FillHands, RouteHands, UnrouteHands, FlushInputHands, FlushReturnsHands,
       PausesHands, UnregisterHands, TerminateHands, ProcessHands
  <2>3. PICK T, l, q, d, out : Hands(k, T, l, q, d, out)
    BY <2>2 DEF Handed
  <2> QED BY <1>1, <2>3, HandStep
<1> QED BY <1>1, <1>2, <1>3 DEF Next

\* So does one that changes nothing.
LEMMA StutterHeld == ASSUME OnceInv, HeldInv, UNCHANGED vars PROVE OnceInv' /\ HeldInv'
<1>1. /\ codec' = codec /\ local' = local /\ queue' = queue /\ owned' = owned /\ ready' = ready
      /\ conn' = conn /\ call' = call
  BY DEF vars, appVars
<1>2. \A n, x, m : Has(n, x, m)' <=> Has(n, x, m)
  BY <1>1 DEF Has
<1>3. \A m : Held(m)' <=> Held(m)
  BY <1>2 DEF Held
<1>4. OnceInv'
  BY <1>1, <1>2 DEF OnceInv
<1>5. /\ \A x : IsAbroad(x)' <=> IsAbroad(x)
      /\ \A x : Queued(x)' <=> Queued(x)
      /\ \A k : RouteOf(k)' = RouteOf(k)
  BY <1>1 DEF InTransit, AtInput, IsAbroad, Queued, RouteOf
<1>6. /\ \A k : (EndsRoute(k)' <=> EndsRoute(k)) /\ (IsRefused(k)' <=> IsRefused(k))
      /\ \A k : (Connects(k)' <=> Connects(k)) /\ (Whole(k)' <=> Whole(k))
  BY <1>1, <1>3, <1>5 DEF EndsRoute, IsRefused, Connects, Whole
<1>7. \A k : IsCut(k)' <=> IsCut(k)
  BY <1>1, <1>5, <1>6 DEF IsCut
<1>8. /\ \A m \in AppMsgs \ {Cmd} : Held(m)'
      /\ call' = None => Cmd \in owned'
      /\ call' # None => (\E x : Queued(x)' /\ x.msg = Cmd) \/ \E k \in Codecs : IsSaved(k)'
  BY <1>1, <1>3, <1>5 DEF HeldInv, IsSaved
<1>9. ASSUME NEW k \in Codecs
      PROVE  /\ Flushing(codec'[k]) => Held(Control(k))'
             /\ Connects(k)' /\ ~Gone(RouteOf(k))' => Whole(k)' \/ IsCut(k)'
             /\ Connects(k)' /\ codec'[RouteOf(k)'].mode = "terminating" /\ IsRefused(k)' => EndsRoute(k)'
  <2>1. Gone(RouteOf(k))' <=> Gone(RouteOf(k))
    BY <1>1 DEF Gone, RouteOf
  <2>2. /\ Flushing(codec[k]) => Held(Control(k))
        /\ Connects(k) /\ ~Gone(RouteOf(k)) => Whole(k) \/ IsCut(k)
        /\ Connects(k) /\ codec[RouteOf(k)].mode = "terminating" /\ IsRefused(k) => EndsRoute(k)
    BY DEF HeldInv
  <2> QED BY <1>1, <1>3, <1>5, <1>6, <1>7, <2>1, <2>2
<1>10. HeldInv'
  BY <1>8, <1>9 DEF HeldInv
<1> QED BY <1>4, <1>10

-----------------------------------------------------------------------------
(* The counting.                                                           *)

\* The places of a message in transit or at an input; it is in one at most.
LEMMA AbroadCount ==
    ASSUME ChainInv, OnceInv, NEW m
    PROVE  Cardinality(Abroad(m)) = IF \E n \in {"local", "queue", "in"} : \E y : Has(n, y, m) THEN 1 ELSE 0
<1> DEFINE input == [k \in Codecs |-> codec[k].in]
           A == Spots("local", local, m)
           B == Spots("queue", queue, m)
           C == Spots("in", input, m)
           S == Abroad(m)
<1>1. /\ DOMAIN local = Workers /\ DOMAIN queue = Workers /\ DOMAIN input = Codecs
      /\ \A w \in Workers : local[w] \in Seq(ItemType) /\ queue[w] \in Seq(ItemType)
      /\ \A k \in Codecs : codec[k].in \in Seq(ItemType) /\ input[k] = codec[k].in
  BY DEF ChainInv, TypeInv, CodecType
<1>2. /\ \A s : s \in A <=> \E w \in Workers : \E i \in DOMAIN local[w] : s = <<"local", w, i>> /\ local[w][i].msg = m
      /\ \A s : s \in B <=> \E w \in Workers : \E i \in DOMAIN queue[w] : s = <<"queue", w, i>> /\ queue[w][i].msg = m
      /\ \A s : s \in C <=> \E k \in Codecs : \E i \in DOMAIN codec[k].in : s = <<"in", k, i>> /\ codec[k].in[i].msg = m
  <2> HIDE DEF input
  <2>1. \A s : s \in A <=> \E w \in Workers : \E i \in DOMAIN local[w] : s = <<"local", w, i>> /\ local[w][i].msg = m
    BY <1>1 DEF Spots
  <2>2. \A s : s \in B <=> \E w \in Workers : \E i \in DOMAIN queue[w] : s = <<"queue", w, i>> /\ queue[w][i].msg = m
    BY <1>1 DEF Spots
  <2>3. \A s : s \in C <=> \E k \in Codecs : \E i \in DOMAIN codec[k].in : s = <<"in", k, i>> /\ codec[k].in[i].msg = m
    BY <1>1 DEF Spots
  <2> QED BY <2>1, <2>2, <2>3
<1>3. S = A \cup B \cup C
  BY DEF Abroad
<1> HIDE DEF S, A, B, C, input
<1>4. ASSUME NEW s \in S
      PROVE  \E y, i : /\ \/ s = <<"local", y, i>> /\ y \in Workers /\ i \in DOMAIN local[y] /\ local[y][i].msg = m
                          \/ s = <<"queue", y, i>> /\ y \in Workers /\ i \in DOMAIN queue[y] /\ queue[y][i].msg = m
                          \/ s = <<"in", y, i>> /\ y \in Codecs /\ i \in DOMAIN codec[y].in /\ codec[y].in[i].msg = m
  BY <1>2, <1>3
<1> DEFINE Stands(n, y, i) == \/ n = "local" /\ y \in Workers /\ i \in DOMAIN local[y] /\ local[y][i].msg = m
                              \/ n = "queue" /\ y \in Workers /\ i \in DOMAIN queue[y] /\ queue[y][i].msg = m
                              \/ n = "in" /\ y \in Codecs /\ i \in DOMAIN codec[y].in /\ codec[y].in[i].msg = m
<1>5. \A s \in S : \E n, y, i : s = <<n, y, i>> /\ Stands(n, y, i)
  BY <1>4
<1>6. \A n, y, i : Stands(n, y, i) => Has(n, y, m) /\ n \in {"local", "queue", "in"}
  BY DEF Has, InSeq, Items
<1>7. ASSUME NEW n, NEW y, NEW i, NEW j, Stands(n, y, i), Stands(n, y, j) PROVE i = j
  <2>1. CASE n = "local"
    <3>1. y \in Workers /\ i \in DOMAIN local[y] /\ j \in DOMAIN local[y] /\ local[y][i].msg = local[y][j].msg
      BY <1>7, <2>1
    <3>2. Single(local[y]) /\ local[y] \in Seq(ItemType)
      BY <1>1, <3>1 DEF OnceInv
    <3> QED BY <3>1, <3>2, SinglePlace
  <2>2. CASE n = "queue"
    <3>1. y \in Workers /\ i \in DOMAIN queue[y] /\ j \in DOMAIN queue[y] /\ queue[y][i].msg = queue[y][j].msg
      BY <1>7, <2>2
    <3>2. Single(queue[y]) /\ queue[y] \in Seq(ItemType)
      BY <1>1, <3>1 DEF OnceInv
    <3> QED BY <3>1, <3>2, SinglePlace
  <2>3. CASE n = "in"
    <3> DEFINE t == codec[y].in
    <3>1. y \in Codecs /\ i \in DOMAIN t /\ j \in DOMAIN t /\ t[i].msg = t[j].msg
      BY <1>7, <2>3
    <3>2. Single(t) /\ t \in Seq(ItemType)
      BY <1>1, <3>1 DEF OnceInv
    <3> HIDE DEF t
    <3> QED BY <3>1, <3>2, SinglePlace
  <2> QED BY <1>7, <2>1, <2>2, <2>3
<1> HIDE DEF Stands
<1>8. ASSUME NEW s \in S, NEW t \in S PROVE s = t
  <2>1. PICK n, y, i : s = <<n, y, i>> /\ Stands(n, y, i)
    BY <1>5
  <2>2. PICK o, z, j : t = <<o, z, j>> /\ Stands(o, z, j)
    BY <1>5
  <2>3. n = o /\ y = z
    BY <1>6, <2>1, <2>2, OnePlace
  <2>4. i = j
    BY <1>7, <2>1, <2>2, <2>3
  <2> QED BY <2>1, <2>2, <2>3, <2>4
<1>9. (\E n \in {"local", "queue", "in"} : \E y : Has(n, y, m)) <=> S # {}
  <2>1. ASSUME NEW n \in {"local", "queue", "in"}, NEW y, Has(n, y, m) PROVE S # {}
    <3>1. CASE n = "local"
      BY <1>2, <1>3, <2>1, <3>1 DEF Has, InSeq, Items
    <3>2. CASE n = "queue"
      BY <1>2, <1>3, <2>1, <3>2 DEF Has, InSeq, Items
    <3>3. CASE n = "in"
      BY <1>2, <1>3, <2>1, <3>3 DEF Has, InSeq, Items
    <3> QED BY <2>1, <3>1, <3>2, <3>3
  <2>2. ASSUME NEW s \in S PROVE \E n \in {"local", "queue", "in"} : \E y : Has(n, y, m)
    BY <1>5, <1>6
  <2> QED BY <2>1, <2>2
<1>10. CASE S = {}
  BY <1>9, <1>10, FS_EmptySet DEF S
<1>11. CASE S # {}
  <2>1. PICK s : s \in S
    BY <1>11
  <2>2. S = {s}
    BY <1>8, <2>1
  <2> QED BY <1>9, <2>2, FS_Singleton DEF S
<1> QED BY <1>10, <1>11

\* Those of one at an output.
LEMMA OutputCount ==
    ASSUME ChainInv, OnceInv, NEW m
    PROVE  Cardinality(AtOutputs(m)) = IF \E y : Has("out", y, m) THEN 1 ELSE 0
<1> DEFINE S == AtOutputs(m)
<1>1. \A s : s \in S <=> \E k \in Codecs : \E i \in DOMAIN codec[k].out : s = <<"out", k, i>> /\ codec[k].out[i] = m
  BY DEF AtOutputs
<1> HIDE DEF S
<1>2. \A k \in Codecs : \A i \in DOMAIN codec[k].out : codec[k].out[i] = m => Has("out", k, m)
  BY DEF Has, Items
<1>3. ASSUME NEW s \in S, NEW t \in S PROVE s = t
  <2>1. PICK k \in Codecs : \E i \in DOMAIN codec[k].out : s = <<"out", k, i>> /\ codec[k].out[i] = m
    BY <1>1
  <2>2. PICK j \in Codecs : \E i \in DOMAIN codec[j].out : t = <<"out", j, i>> /\ codec[j].out[i] = m
    BY <1>1
  <2>3. k = j
    BY <1>2, <2>1, <2>2, OnePlace
  <2> DEFINE u == codec[k].out
  <2>4. u \in Seq(AllMsgs) /\ Distinct(u)
    BY DEF ChainInv, TypeInv, CodecType, OnceInv
  <2>5. (\E i \in DOMAIN u : s = <<"out", k, i>> /\ u[i] = m) /\ (\E i \in DOMAIN u : t = <<"out", k, i>> /\ u[i] = m)
    BY <2>1, <2>2, <2>3
  <2> HIDE DEF u
  <2>6. \A i, h \in DOMAIN u : u[i] = u[h] => i = h
    BY <2>4, DistinctPlace
  <2> QED BY <2>5, <2>6
<1>4. (\E y : Has("out", y, m)) <=> S # {}
  BY <1>1, <1>2 DEF Has, Items
<1>5. CASE S = {}
  BY <1>4, <1>5, FS_EmptySet DEF S
<1>6. CASE S # {}
  <2>1. PICK s : s \in S
    BY <1>6
  <2>2. S = {s}
    BY <1>3, <2>1
  <2> QED BY <1>4, <2>2, FS_Singleton DEF S
<1> QED BY <1>5, <1>6

\* A message that is somewhere is abroad, at an output or with the application, and only that.
LEMMA OneSpot ==
    ASSUME ChainInv, OnceInv, NEW m
    PROVE  LET out == \E n \in {"local", "queue", "in"} : \E y : Has(n, y, m)
               held == \E y : Has("out", y, m)
           IN /\ Held(m) <=> (out \/ held \/ m \in owned)
              /\ ~(out /\ held) /\ ~(out /\ m \in owned) /\ ~(held /\ m \in owned)
<1>1. m \in owned <=> Has("app", App, m)
  BY DEF Has
<1>2. \A n, y : Has(n, y, m) => n \in {"local", "queue", "in", "out", "app"} /\ (n = "app" => y = App)
  BY DEF Has
<1>3. "out" \notin {"local", "queue", "in"} /\ "app" \notin {"local", "queue", "in"} /\ "out" # "app"
  OBVIOUS
<1>4. \A n, o, x, y : Has(n, x, m) /\ Has(o, y, m) => n = o
  BY OnePlace
<1>5. Held(m) <=> \/ \E n \in {"local", "queue", "in"} : \E y : Has(n, y, m)
                  \/ \E y : Has("out", y, m)
                  \/ m \in owned
  BY <1>1, <1>2 DEF Held
<1> QED BY <1>1, <1>3, <1>4, <1>5

\* The messages of connections: a flow-control message is on its way while its port is
\* flushing, a buffer in one place at most, and somewhere unless a flush may have dropped it.
LEMMA PoolCounts ==
    ASSUME ChainInv, OnceInv, HeldInv, NEW k \in Codecs
    PROVE  /\ Cardinality(Abroad(Control(k))) = IF "flushing" \in codec[k].oflags THEN 1 ELSE 0
           /\ \A buf \in Bufs : LET n == Cardinality(Abroad(Msg(k, buf))) + Cardinality(AtOutputs(Msg(k, buf))) IN
                /\ n <= 1
                /\ Routed(codec[k]) /\ ~Gone(codec[k].route) /\ codec[k].mode = "running"
                     /\ "flushing" \notin codec[k].oflags => n = 1
<1>1. \A m \in owned : ~FromPool(m)
  BY MsgFacts DEF ChainInv, TypeInv
<1>2. Cardinality(Abroad(Control(k))) = IF "flushing" \in codec[k].oflags THEN 1 ELSE 0
  <2> DEFINE m == Control(k)
  <2>1. FromPool(m)
    BY MsgFacts
  <2>2. \A y : ~Has("out", y, m)
    <3>1. ASSUME NEW y \in Codecs, m \in Items(codec[y].out) PROVE FALSE
      <4>1. m.of = y /\ m # Control(y)
        BY <2>1, <3>1, HeldAtOutput
      <4> QED BY <4>1, MsgFacts
    <3> QED BY <3>1 DEF Has
  <2>3. CASE Flushing(codec[k])
    <3>1. Held(m)
      BY <2>3 DEF HeldInv
    <3> HIDE DEF m
    <3>2. \E n \in {"local", "queue", "in"} : \E y : Has(n, y, m)
      BY <1>1, <2>1, <2>2, <3>1, OneSpot
    <3>3. Cardinality(Abroad(m)) = 1
      BY <3>2, AbroadCount
    <3> QED BY <2>3, <3>3 DEF Flushing, m
  <2>4. CASE ~Flushing(codec[k])
    <3>1. ~Held(m)
      BY <2>4, NewNowhere DEF IsNew
    <3> HIDE DEF m
    <3>2. ~\E n \in {"local", "queue", "in"} : \E y : Has(n, y, m)
      BY <3>1, OneSpot
    <3>3. Cardinality(Abroad(m)) = 0
      BY <3>2, AbroadCount
    <3> QED BY <2>4, <3>3 DEF Flushing, m
  <2> QED BY <2>3, <2>4
<1>3. ASSUME NEW buf \in Bufs
      PROVE  LET n == Cardinality(Abroad(Msg(k, buf))) + Cardinality(AtOutputs(Msg(k, buf))) IN
             /\ n <= 1
             /\ Routed(codec[k]) /\ ~Gone(codec[k].route) /\ codec[k].mode = "running"
                  /\ "flushing" \notin codec[k].oflags => n = 1
  <2> DEFINE m == Msg(k, buf)
             a == Cardinality(Abroad(m))
             b == Cardinality(AtOutputs(m))
             out == \E n \in {"local", "queue", "in"} : \E y : Has(n, y, m)
             held == \E y : Has("out", y, m)
  <2>1. m \notin owned
    BY <1>1, MsgFacts DEF Pool
  <2>2. Routed(codec[k]) /\ ~Gone(codec[k].route) /\ codec[k].mode = "running" /\ "flushing" \notin codec[k].oflags => Held(m)
    BY DEF HeldInv, Connects, RouteOf, IsCut, Flushing, Whole
  <2> HIDE DEF m
  <2>3. a = (IF out THEN 1 ELSE 0) /\ b = (IF held THEN 1 ELSE 0)
    BY AbroadCount, OutputCount
  <2>4. (Held(m) <=> (out \/ held)) /\ ~(out /\ held)
    BY <2>1, OneSpot
  <2> HIDE DEF a, b, out, held
  <2>5. a + b <= 1 /\ (Held(m) => a + b = 1)
    BY <2>3, <2>4
  <2> QED BY <2>2, <2>5 DEF a, b, m
<1> QED BY <1>2, <1>3

\* The messages of the application.
LEMMA AppCounts ==
    ASSUME ChainInv, OnceInv, HeldInv, NEW m \in AppMsgs
    PROVE  (IF m \in owned THEN 1 ELSE 0) + Cardinality(Abroad(m)) + Cardinality(AtOutputs(m))
             + (IF m = Cmd THEN Cardinality(Saved) ELSE 0) = 1
<1> DEFINE a == Cardinality(Abroad(m))
           b == Cardinality(AtOutputs(m))
           c == Cardinality(Saved)
           out == \E n \in {"local", "queue", "in"} : \E y : Has(n, y, m)
           held == \E y : Has("out", y, m)
<1>1. a = (IF out THEN 1 ELSE 0) /\ b = (IF held THEN 1 ELSE 0)
  BY AbroadCount, OutputCount
<1>2. (Held(m) <=> (out \/ held \/ m \in owned)) /\ ~(out /\ held) /\ ~(out /\ m \in owned) /\ ~(held /\ m \in owned)
  BY OneSpot
<1>3. \A k : k \in Saved <=> k \in Codecs /\ IsSaved(k)
  BY DEF Saved, IsSaved, Unrouting
<1>4. CASE m # Cmd
  <2>1. Held(m)
    BY <1>4 DEF HeldInv
  <2> HIDE DEF a, b, c, out, held
  <2>2. (IF m \in owned THEN 1 ELSE 0) + a + b + 0 = 1
    BY <1>1, <1>2, <2>1
  <2> QED BY <1>4, <2>2 DEF a, b
<1>5. CASE m = Cmd /\ call = None
  <2>1. m \in owned /\ \A k \in Codecs : ~IsSaved(k)
    BY <1>5 DEF HeldInv, ChainInv, CallInv
  <2>2. Saved = {}
    BY <1>3, <2>1
  <2>3. c = 0
    BY <2>2, FS_EmptySet
  <2> HIDE DEF a, b, c, out, held
  <2>4. (IF m \in owned THEN 1 ELSE 0) + a + b + c = 1
    BY <1>1, <1>2, <2>1, <2>3
  <2> QED BY <1>5, <2>4 DEF a, b, c
<1>6. CASE m = Cmd /\ call # None
  <2>1. m \notin owned
    BY <1>6 DEF ChainInv, CallInv
  <2>2. ~held
    BY <1>6, HeldAtOutput DEF Has
  <2>3. out <=> \E x : Queued(x) /\ x.msg = Cmd
    <3>1. out <=> \E x : IsAbroad(x) /\ x.msg = m
      BY AbroadHas
    <3>2. \A x : IsAbroad(x) /\ x.msg = Cmd => Queued(x)
      BY AbroadKinds
    <3>3. \A x : Queued(x) => IsAbroad(x)
      BY DEF Queued, IsAbroad, InTransit
    <3> HIDE DEF out
    <3> QED BY <1>6, <3>1, <3>2, <3>3
  <2>4. (\E x : Queued(x) /\ x.msg = Cmd) \/ \E k \in Codecs : IsSaved(k)
    BY <1>6 DEF HeldInv
  <2>5. CASE \A k \in Codecs : ~IsSaved(k)
    <3>1. Saved = {}
      BY <1>3, <2>5
    <3>2. c = 0
      BY <3>1, FS_EmptySet
    <3>3. out
      BY <2>3, <2>4, <2>5
    <3> HIDE DEF a, b, c, out, held
    <3>4. (IF m \in owned THEN 1 ELSE 0) + a + b + c = 1
      BY <1>1, <2>1, <2>2, <3>2, <3>3
    <3> QED BY <1>6, <3>4 DEF a, b, c
  <2>6. CASE ~\A k \in Codecs : ~IsSaved(k)
    <3>1. /\ \A x : Queued(x) => x.msg # Cmd
          /\ \A k \in Codecs : IsSaved(k) <=> k = call.on
      BY <1>6, <2>6 DEF ChainInv, CallInv
    <3>2. \A k : k \in Saved <=> k = call.on
      BY <1>3, <2>6, <3>1
    <3>3. Saved = {call.on}
      BY <3>2
    <3>4. c = 1
      BY <3>3, FS_Singleton
    <3>5. ~out
      BY <2>3, <3>1
    <3> HIDE DEF a, b, c, out, held
    <3>6. (IF m \in owned THEN 1 ELSE 0) + a + b + c = 1
      BY <1>1, <2>1, <2>2, <3>4, <3>5
    <3> QED BY <1>6, <3>6 DEF a, b, c
  <2> QED BY <2>5, <2>6
<1> QED BY <1>4, <1>5, <1>6

-----------------------------------------------------------------------------
(* The theorem.                                                            *)

\* The inductive invariant.
ChainKeeps == ChainInv /\ OnceInv /\ HeldInv

\* It holds in every state, where no stream ends without having produced anything.
THEOREM ChainKeepsMessages == MayBeBarren = FALSE /\ Spec => []ChainKeeps
<1> DEFINE Hyp == MayBeBarren = FALSE
<1>1. Init => ChainKeeps
  BY InitChain, InitHeld DEF ChainKeeps
<1>2. Hyp /\ ChainKeeps /\ [Next]_vars => ChainKeeps'
  <2> SUFFICES ASSUME Hyp, ChainKeeps, [Next]_vars PROVE ChainKeeps'
    OBVIOUS
  <2>1. ChainInv /\ OnceInv /\ HeldInv
    BY DEF ChainKeeps
  <2>2. CASE Next
    BY <2>1, <2>2, NextHeld DEF ChainKeeps
  <2>3. CASE UNCHANGED vars
    BY <2>1, <2>3, StutterChain, StutterHeld DEF ChainKeeps
  <2> QED BY <2>2, <2>3
<1>3. Hyp => Hyp'
  OBVIOUS
<1> QED BY <1>1, <1>2, <1>3, PTL DEF Spec

\* No message of the application or of a connection is lost or doubled: flushes, the two-stage
\* exit and messages that return from a component that is gone included.
THEOREM MessagesAreConserved == MayBeBarren = FALSE /\ Spec => []MessagesConserved
<1>1. ChainKeeps => MessagesConserved
  <2> SUFFICES ASSUME ChainInv, OnceInv, HeldInv PROVE MessagesConserved
    BY DEF ChainKeeps
  <2>1. OneFlushAtATime
    BY PoolCounts DEF OneFlushAtATime
  <2>2. NoneForTheGone
    BY NoneLeft
  <2>3. \A m \in AppMsgs :
          (IF m \in owned THEN 1 ELSE 0) + Cardinality(Abroad(m)) + Cardinality(AtOutputs(m))
            + (IF m = Cmd THEN Cardinality(Saved) ELSE 0) = 1
    BY AppCounts
  <2>4. \A k \in Codecs, buf \in Bufs :
          LET n == Cardinality(Abroad(Msg(k, buf))) + Cardinality(AtOutputs(Msg(k, buf)))
              c == codec[k]
          IN n <= 1 /\ (Routed(c) /\ ~Gone(c.route) /\ c.mode = "running" /\ "flushing" \notin c.oflags => n = 1)
    BY PoolCounts
  <2> QED BY <2>1, <2>2, <2>3, <2>4 DEF MessagesConserved
<1> QED BY <1>1, ChainKeepsMessages, PTL
====
