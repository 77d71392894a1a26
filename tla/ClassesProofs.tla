---------------------------- MODULE ClassesProofs ----------------------------
(***************************************************************************)
(* ScheduledOnce of Classes, proved for the four classes and for any number *)
(* of ports: a component is in its worker's tree once if its flag says that *)
(* it is scheduled, not at all if it does not, and never while it is being  *)
(* deleted. Every operation on a port leaves the place in the schedule      *)
(* alone (its result is Kin); xa_base_schedule and xa_base_cancel change    *)
(* flag and tree together (Runs); and the restart of the mixer and the MIMO *)
(* class, which assigns the whole state, finds the component out of the     *)
(* schedule, because a worker takes data from its inbox only when its tree  *)
(* is empty. That last fact is about the neighbours: none of them on the    *)
(* component's own worker may feed it (FedFromElsewhere).                   *)
(***************************************************************************)
EXTENDS Classes, FiniteSetTheorems, WellFoundedInduction, TLAPS

-----------------------------------------------------------------------------
(* Folds over finite sets. Turn(k, i, d) is what the fold named by k makes *)
(* of d at i, and Chosen(k, s) the element of s that it takes last.        *)

Turn(k, i, d) ==
    CASE k.op = "select" -> Append(d, k.sent[i])
      [] k.op = "purge"   -> InPurge(d, i)
      [] k.op = "track"   -> TrackInput(d, i)
      [] k.op = "tracked" -> TrackOutput(d, i)
      [] k.op = "destroy" -> OutDestroy(d, i)
      [] k.op = "setup"   -> OutSet(OutSetup(d, i), i, {"setup"})
      [] k.op = "input"   -> MimoInput(d, i)
      [] k.op = "consume" -> MimoConsumed(d, i, k.done)
      [] k.op = "produce" -> MimoProduced(d, i)
      [] k.op = "tell"    -> MimoTell(d, i)
      [] k.op = "flush"   -> MimoFlushOne(d, i, k.by)
      [] k.op = "bounce"  -> d \o Bounced(i, k.sent[i])
      [] k.op = "answer"  -> d \o Answers(i, k.sent[i])
Chosen(k, s) == IF k.op \in {"consume", "select"} THEN Max(s) ELSE CHOOSE x \in s : TRUE
Others(k, s) == s \ {Chosen(k, s)}
Evaluates(k, S, b, it) ==
    it = [s \in SUBSET S |-> IF s = {} THEN b ELSE Turn(k, Chosen(k, s), it[Others(k, s)])]
Takes(k, S) == IsFiniteSet(S) /\ \A s \in SUBSET S : s # {} => Chosen(k, s) \in s

\* What a non-empty finite set is without one element.
LEMMA OthersFacts ==
    ASSUME NEW k, NEW S, Takes(k, S), NEW s \in SUBSET S, s # {}
    PROVE  /\ Chosen(k, s) \in s /\ Chosen(k, s) \in S /\ Others(k, s) \in SUBSET S
           /\ Cardinality(s) \in Nat /\ Cardinality(s) # 0
           /\ Cardinality(Others(k, s)) = Cardinality(s) - 1
<1>1. Chosen(k, s) \in s
  BY DEF Takes
<1>2. IsFiniteSet(s)
  BY FS_Subset DEF Takes
<1>3. /\ Cardinality(s) \in Nat
      /\ Cardinality(Others(k, s)) = Cardinality(s) - 1
  BY <1>1, <1>2, FS_RemoveElement, FS_CardinalityType DEF Others
<1>4. Cardinality(s) # 0
  BY <1>2, FS_EmptySet
<1> QED BY <1>1, <1>3, <1>4 DEF Others

\* What holds of the empty set, and of a set if it holds of what is left of it, holds
\* of a finite set.
LEMMA FoldInduction ==
    ASSUME NEW k, NEW S, Takes(k, S), NEW G, {} \in G,
           \A s \in SUBSET S : s # {} /\ Others(k, s) \in G => s \in G
    PROVE  S \in G
<1> SUFFICES ASSUME S \notin G PROVE FALSE
  OBVIOUS
<1> DEFINE N == {n \in Nat : \E r \in SUBSET S : r \notin G /\ Cardinality(r) = n}
<1>1. N # {}
  <2>1. Cardinality(S) \in Nat
    BY FS_CardinalityType DEF Takes
  <2> QED BY <2>1
<1>2. PICK n \in N : \A m \in N : ~(<<m, n>> \in OpToRel(<, Nat))
  <2>1. N \subseteq Nat
    OBVIOUS
  <2> HIDE DEF N
  <2> QED BY <1>1, <2>1, NatLessThanWellFounded, WFMin
<1>3. PICK r \in SUBSET S : r \notin G /\ Cardinality(r) = n
  OBVIOUS
<1>4. r # {}
  BY <1>3
<1>5. /\ Others(k, r) \in SUBSET S /\ n \in Nat /\ n # 0 /\ Cardinality(Others(k, r)) = n - 1
  BY <1>3, <1>4, OthersFacts
<1>6. Others(k, r) \notin G
  BY <1>3, <1>4
<1>7. n - 1 \in N /\ n - 1 < n
  BY <1>5, <1>6
<1> QED BY <1>2, <1>5, <1>7 DEF OpToRel

\* There is a function that a fold evaluates.
LEMMA FoldExists ==
    ASSUME NEW k, NEW S, Takes(k, S), NEW b
    PROVE  \E it : Evaluates(k, S, b, it)
<1> DEFINE Upto(n) == {s \in SUBSET S : Cardinality(s) <= n}
           Fits(n, f) == /\ DOMAIN f = Upto(n)
                         /\ \A s \in Upto(n) : f[s] = IF s = {} THEN b ELSE Turn(k, Chosen(k, s), f[Others(k, s)])
           N == {n \in Nat : ~\E f : Fits(n, f)}
<1>1. \A s \in SUBSET S : Cardinality(s) \in Nat /\ (Cardinality(s) = 0 <=> s = {})
  BY FS_Subset, FS_CardinalityType, FS_EmptySet DEF Takes
<1>2. Fits(0, [s \in Upto(0) |-> b])
  BY <1>1
<1>3. ASSUME NEW n \in Nat, n # 0, NEW f, Fits(n - 1, f)
      PROVE  \E g : Fits(n, g)
  <2> DEFINE g == [s \in Upto(n) |-> IF s \in Upto(n - 1) THEN f[s] ELSE Turn(k, Chosen(k, s), f[Others(k, s)])]
  <2>1. ASSUME NEW s \in Upto(n), s # {}
        PROVE  Others(k, s) \in Upto(n - 1) /\ Others(k, s) \in Upto(n) /\ Chosen(k, s) \in S
    BY <1>1, <2>1, OthersFacts
  <2>2. \A s \in Upto(n - 1) : s \in Upto(n)
    BY <1>1
  <2>3. {} \in Upto(n - 1)
    BY <1>1, <1>3
  <2>4. \A s \in Upto(n - 1) : f[s] = IF s = {} THEN b ELSE Turn(k, Chosen(k, s), f[Others(k, s)])
    BY <1>3
  <2> HIDE DEF Upto
  <2>5. \A s \in Upto(n) : g[s] = IF s = {} THEN b ELSE Turn(k, Chosen(k, s), g[Others(k, s)])
    <3> TAKE s \in Upto(n)
    <3>1. CASE s = {}
      BY <2>3, <2>4, <3>1
    <3>2. CASE s # {}
      <4>1. g[Others(k, s)] = f[Others(k, s)]
        BY <2>1, <3>2
      <4> QED BY <2>4, <3>2, <4>1
    <3> QED BY <3>1, <3>2
  <2>6. DOMAIN g = Upto(n)
    OBVIOUS
  <2>7. Fits(n, g)
    BY <2>5, <2>6
  <2> HIDE DEF g, Fits
  <2> QED BY <2>7
<1>4. N = {}
  <2> SUFFICES ASSUME N # {} PROVE FALSE
    OBVIOUS
  <2>1. PICK n \in N : \A m \in N : ~(<<m, n>> \in OpToRel(<, Nat))
    <3>1. N \subseteq Nat
      OBVIOUS
    <3> HIDE DEF N
    <3> QED BY <3>1, NatLessThanWellFounded, WFMin
  <2>2. n \in Nat /\ ~\E f : Fits(n, f)
    OBVIOUS
  <2>3. n # 0
    <3> HIDE DEF Fits
    <3> QED BY <1>2, <2>2
  <2>4. n - 1 \in Nat /\ n - 1 < n
    BY <2>2, <2>3
  <2>5. n - 1 \notin N
    BY <2>1, <2>2, <2>4 DEF OpToRel
  <2>6. PICK f : Fits(n - 1, f)
    BY <2>4, <2>5
  <2> HIDE DEF Fits
  <2> QED BY <1>3, <2>2, <2>3, <2>6
<1>5. PICK f : Fits(Cardinality(S), f)
  <2>1. Cardinality(S) \in Nat
    BY FS_CardinalityType DEF Takes
  <2> HIDE DEF Fits
  <2> QED BY <1>4, <2>1
<1>6. Upto(Cardinality(S)) = SUBSET S
  BY FS_Subset DEF Takes
<1> DEFINE g == [s \in SUBSET S |-> f[s]]
<1>7. \A s \in SUBSET S : g[s] = IF s = {} THEN b ELSE Turn(k, Chosen(k, s), g[Others(k, s)])
  <2> TAKE s \in SUBSET S
  <2>1. f[s] = IF s = {} THEN b ELSE Turn(k, Chosen(k, s), f[Others(k, s)])
    BY <1>5, <1>6
  <2>2. s # {} => g[Others(k, s)] = f[Others(k, s)]
    BY OthersFacts
  <2> QED BY <2>1, <2>2
<1>8. Evaluates(k, S, b, g)
  BY <1>7 DEF Evaluates
<1> HIDE DEF g
<1> QED BY <1>8

\* Most folds take any element.
LEMMA TakesAny ==
    ASSUME NEW k, k.op \notin {"consume", "select"}, NEW S, IsFiniteSet(S)
    PROVE  /\ Takes(k, S)
           /\ \A s : Chosen(k, s) = CHOOSE x \in s : TRUE
BY DEF Takes, Chosen

-----------------------------------------------------------------------------
(* The shape of a component's structure.                                   *)

IsSeq(s) == \E T : s \in Seq(T)
Fields == {"class", "pool", "mode", "state", "tree", "isr", "in", "out", "plugin", "sent"}
ShapeOK(c) ==
    /\ DOMAIN c = Fields /\ IsSeq(c.sent)
    /\ \A i \in DOMAIN c.in : DOMAIN c.in[i] = {"q", "flags", "filled"} /\ IsSeq(c.in[i].q)
    /\ \A j \in DOMAIN c.out : DOMAIN c.out[j] = {"q", "flags", "ptr"} /\ IsSeq(c.out[j].q)
    /\ IsFiniteSet(DOMAIN c.in) /\ IsFiniteSet(DOMAIN c.out) /\ IsFiniteSet(c.pool)
SameFrame(c, d) == /\ d.class = c.class /\ d.pool = c.pool /\ d.mode = c.mode
                   /\ DOMAIN d.in = DOMAIN c.in /\ DOMAIN d.out = DOMAIN c.out
Due(c) == "schedule" \in c.state

\* d is c after something that leaves its place in the schedule alone.
Kin(c, d) == ShapeOK(d) /\ SameFrame(c, d) /\ d.tree = c.tree /\ (Due(d) <=> Due(c))

\* Sequences are made of sequences.
LEMMA SeqFacts ==
    /\ IsSeq(<<>>)
    /\ \A s, x : IsSeq(s) => IsSeq(Append(s, x))
    /\ \A s, t : IsSeq(s) /\ IsSeq(t) => IsSeq(s \o t)
    /\ \A s : IsSeq(s) => /\ Len(s) \in Nat /\ DOMAIN s = 1 .. Len(s)
                          /\ s # <<>> => IsSeq(Tail(s))
    /\ \A s, m, n : IsSeq(s) /\ m \in 1 .. Len(s) + 1 /\ n \in 0 .. Len(s) => IsSeq(SubSeq(s, m, n))
    /\ \A n, f : n \in Nat /\ DOMAIN f = 1 .. n /\ f = [k \in DOMAIN f |-> f[k]] => IsSeq(f)
<1>1. IsSeq(<<>>)
  <2>1. <<>> \in Seq({})
    OBVIOUS
  <2> QED BY <2>1 DEF IsSeq
<1>2. ASSUME NEW s, NEW x, IsSeq(s) PROVE IsSeq(Append(s, x))
  <2>1. PICK T : s \in Seq(T)
    BY <1>2 DEF IsSeq
  <2>2. s \in Seq(T \cup {x})
    BY <2>1
  <2>3. Append(s, x) \in Seq(T \cup {x})
    BY <2>2
  <2> QED BY <2>3 DEF IsSeq
<1>3. ASSUME NEW s, NEW t, IsSeq(s), IsSeq(t) PROVE IsSeq(s \o t)
  <2>1. PICK T, U : s \in Seq(T) /\ t \in Seq(U)
    BY <1>3 DEF IsSeq
  <2>2. s \in Seq(T \cup U) /\ t \in Seq(T \cup U)
    BY <2>1
  <2>3. s \o t \in Seq(T \cup U)
    BY <2>2
  <2> QED BY <2>3 DEF IsSeq
<1>4. ASSUME NEW s, IsSeq(s)
      PROVE  Len(s) \in Nat /\ DOMAIN s = 1 .. Len(s) /\ (s # <<>> => IsSeq(Tail(s)))
  <2>1. PICK T : s \in Seq(T)
    BY <1>4 DEF IsSeq
  <2>2. s # <<>> => Tail(s) \in Seq(T)
    BY <2>1
  <2> QED BY <2>1, <2>2 DEF IsSeq
<1>5. ASSUME NEW s, NEW m, NEW n, IsSeq(s), m \in 1 .. Len(s) + 1, n \in 0 .. Len(s)
      PROVE  IsSeq(SubSeq(s, m, n))
  <2>1. PICK T : s \in Seq(T)
    BY <1>5 DEF IsSeq
  <2>2. SubSeq(s, m, n) \in Seq(T)
    BY <1>5, <2>1
  <2> QED BY <2>2 DEF IsSeq
<1>6. ASSUME NEW n, NEW f, n \in Nat, DOMAIN f = 1 .. n, f = [k \in DOMAIN f |-> f[k]] PROVE IsSeq(f)
  <2> DEFINE T == {f[k] : k \in 1 .. n}
  <2>1. f \in [1 .. n -> T]
    BY <1>6
  <2>2. f \in Seq(T)
    BY <1>6, <2>1
  <2> HIDE DEF T
  <2> QED BY <2>2 DEF IsSeq
<1> QED BY <1>1, <1>2, <1>3, <1>4, <1>5, <1>6

\* Being kin is transitive.
LEMMA KinKin ==
    ASSUME NEW c, NEW d, NEW e, Kin(c, d), Kin(d, e)
    PROVE  Kin(c, e)
BY DEF Kin, SameFrame

\* A component is its own kin.
LEMMA KinSelf ==
    ASSUME NEW c, ShapeOK(c)
    PROVE  Kin(c, c)
BY DEF Kin, SameFrame

\* Kin have the same shape, and the same place in the schedule.
LEMMA KinShape ==
    ASSUME NEW c, NEW d, Kin(c, d)
    PROVE  ShapeOK(d) /\ DOMAIN d.in = DOMAIN c.in /\ DOMAIN d.out = DOMAIN c.out
           /\ d.class = c.class /\ d.mode = c.mode /\ d.tree = c.tree /\ (Due(d) <=> Due(c))
BY DEF Kin, SameFrame

\* Fields that do not matter may change: the plugin's
LEMMA PluginKin ==
    ASSUME NEW c, ShapeOK(c), NEW x
    PROVE  Kin(c, [c EXCEPT !.plugin = x])
BY DEF ShapeOK, Fields, Kin, SameFrame, Due

\* - the interrupt handler's
LEMMA IsrKin ==
    ASSUME NEW c, ShapeOK(c), NEW x
    PROVE  Kin(c, [c EXCEPT !.isr = x])
BY DEF ShapeOK, Fields, Kin, SameFrame, Due

\* - the state, when it keeps the flag of the schedule
LEMMA StateKin ==
    ASSUME NEW c, ShapeOK(c), NEW x, "schedule" \in x <=> Due(c)
    PROVE  Kin(c, [c EXCEPT !.state = x])
BY DEF ShapeOK, Fields, Kin, SameFrame, Due

\* - what is sent, when it stays a sequence
LEMMA SentKin ==
    ASSUME NEW c, ShapeOK(c), NEW x, IsSeq(x)
    PROVE  Kin(c, [c EXCEPT !.sent = x])
BY DEF ShapeOK, Fields, Kin, SameFrame, Due

\* - an input port, when it stays one
LEMMA InKin ==
    ASSUME NEW c, ShapeOK(c), NEW i, NEW p,
           i \in DOMAIN c.in => DOMAIN p = {"q", "flags", "filled"} /\ IsSeq(p.q)
    PROVE  Kin(c, [c EXCEPT !.in[i] = p])
BY DEF ShapeOK, Fields, Kin, SameFrame, Due

\* - an output port, likewise.
LEMMA OutKin ==
    ASSUME NEW c, ShapeOK(c), NEW j, NEW p,
           j \in DOMAIN c.out => DOMAIN p = {"q", "flags", "ptr"} /\ IsSeq(p.q)
    PROVE  Kin(c, [c EXCEPT !.out[j] = p])
BY DEF ShapeOK, Fields, Kin, SameFrame, Due

-----------------------------------------------------------------------------
(* Messages and ports: what they do is nothing to the schedule.            *)

\* An assertion notes that it failed, and no more.
LEMMA CheckKin ==
    ASSUME NEW c, ShapeOK(c), NEW ok
    PROVE  Kin(c, Check(c, ok))
BY KinSelf, StateKin DEF Check, Due

\* A message is sent.
LEMMA SendsKin ==
    ASSUME NEW c, ShapeOK(c), NEW m, NEW op, NEW len
    PROVE  Kin(c, Sends(c, m, op, len))
BY SeqFacts, SentKin DEF Sends, ShapeOK

\* A message is answered (xf_response_data, xf_response).
LEMMA AnswerKin ==
    ASSUME NEW c, ShapeOK(c), NEW x, NEW len
    PROVE  Kin(c, Answer(c, x, len))
BY SendsKin DEF Answer

\* A queue of messages is answered.
LEMMA AnswerAllKin ==
    ASSUME NEW c, ShapeOK(c), NEW s, IsSeq(s)
    PROVE  Kin(c, AnswerAll(c, s))
<1> DEFINE t == [n \in DOMAIN s |-> [msg |-> s[n].msg, op |-> Back(s[n]), len |-> 0]]
<1>1. IsSeq(t)
  <2>1. DOMAIN t = 1 .. Len(s) /\ Len(s) \in Nat
    BY SeqFacts
  <2>2. t = [k \in DOMAIN t |-> t[k]]
    OBVIOUS
  <2> HIDE DEF t
  <2> QED BY <2>1, <2>2, SeqFacts
<1>2. AnswerAll(c, s) = [c EXCEPT !.sent = c.sent \o t]
  BY DEF AnswerAll
<1> HIDE DEF t
<1>3. IsSeq(c.sent \o t)
  BY <1>1, SeqFacts DEF ShapeOK
<1> QED BY <1>2, <1>3, SentKin

\* Flags set, cleared and toggled.
LEMMA InFlagsKin ==
    ASSUME NEW c, ShapeOK(c), NEW i, NEW f
    PROVE  Kin(c, InSet(c, i, f)) /\ Kin(c, InClear(c, i, f)) /\ Kin(c, InToggle(c, i, f))
<1>1. \A g : Kin(c, [c EXCEPT !.in[i] = [c.in[i] EXCEPT !.flags = g]])
  <2> TAKE g
  <2> DEFINE p == [c.in[i] EXCEPT !.flags = g]
  <2>1. i \in DOMAIN c.in => DOMAIN p = {"q", "flags", "filled"} /\ IsSeq(p.q)
    BY DEF ShapeOK
  <2> HIDE DEF p
  <2>2. Kin(c, [c EXCEPT !.in[i] = p])
    BY <2>1, InKin
  <2> QED BY <2>2 DEF p
<1>2. \A g : [c EXCEPT !.in[i].flags = g] = [c EXCEPT !.in[i] = [c.in[i] EXCEPT !.flags = g]]
  OBVIOUS
<1> QED BY <1>1, <1>2 DEF InSet, InClear, InToggle

\* The same at an output port.
LEMMA OutFlagsKin ==
    ASSUME NEW c, ShapeOK(c), NEW j, NEW f
    PROVE  /\ Kin(c, OutSet(c, j, f)) /\ Kin(c, OutClear(c, j, f))
           /\ Kin(c, [c EXCEPT !.out[j].flags = f]) /\ Kin(c, [c EXCEPT !.out[j].ptr = f])
<1>1. \A g : /\ Kin(c, [c EXCEPT !.out[j] = [c.out[j] EXCEPT !.flags = g]])
             /\ Kin(c, [c EXCEPT !.out[j] = [c.out[j] EXCEPT !.ptr = g]])
  <2> TAKE g
  <2> DEFINE p == [c.out[j] EXCEPT !.flags = g]
             r == [c.out[j] EXCEPT !.ptr = g]
  <2>1. j \in DOMAIN c.out => /\ DOMAIN p = {"q", "flags", "ptr"} /\ IsSeq(p.q)
                              /\ DOMAIN r = {"q", "flags", "ptr"} /\ IsSeq(r.q)
    BY DEF ShapeOK
  <2> HIDE DEF p, r
  <2>2. Kin(c, [c EXCEPT !.out[j] = p]) /\ Kin(c, [c EXCEPT !.out[j] = r])
    BY <2>1, OutKin
  <2> QED BY <2>2 DEF p, r
<1>2. \A g : /\ [c EXCEPT !.out[j].flags = g] = [c EXCEPT !.out[j] = [c.out[j] EXCEPT !.flags = g]]
             /\ [c EXCEPT !.out[j].ptr = g] = [c EXCEPT !.out[j] = [c.out[j] EXCEPT !.ptr = g]]
  OBVIOUS
<1> QED BY <1>1, <1>2 DEF OutSet, OutClear

\* xf_input_port_put
LEMMA InPutKin ==
    ASSUME NEW c, ShapeOK(c), NEW i, NEW x
    PROVE  Kin(c, InPut(c, i, x))
<1> DEFINE chk == Check(c, ~InHas(c, i, {"eos"}))
           over == IF x.len # 0 THEN c ELSE InToggle(chk, i, {"enabled", "eos"})
           p == [over.in[i] EXCEPT !.q = Append(over.in[i].q, x)]
<1>1. Kin(c, over)
  <2>1. Kin(c, chk)
    BY CheckKin
  <2> HIDE DEF chk
  <2>2. Kin(chk, InToggle(chk, i, {"enabled", "eos"}))
    BY <2>1, InFlagsKin DEF Kin
  <2> QED BY <2>1, <2>2, KinKin, KinSelf
<1>2. InPut(c, i, x) = IF ~InHas(c, i, {"enabled"}) THEN Answer(c, x, 0)
                       ELSE [over EXCEPT !.in[i] = p]
  <2>1. [over EXCEPT !.in[i].q = Append(@, x)] = [over EXCEPT !.in[i] = p]
    OBVIOUS
  <2> QED BY <2>1 DEF InPut
<1> HIDE DEF over
<1>3. ShapeOK(over)
  BY <1>1 DEF Kin
<1>4. i \in DOMAIN over.in => DOMAIN p = {"q", "flags", "filled"} /\ IsSeq(p.q)
  BY <1>3, SeqFacts DEF ShapeOK
<1> HIDE DEF p
<1>5. Kin(over, [over EXCEPT !.in[i] = p])
  BY <1>3, <1>4, InKin
<1> QED BY <1>1, <1>2, <1>5, AnswerKin, KinKin

\* xf_input_port_fill moves what there is, or less.
LEMMA MovedFacts ==
    ASSUME NEW p, IsSeq(p.q)
    PROVE  Moved(p) \in 0 .. Len(p.q) /\ Len(p.q) \in Nat
<1> DEFINE Enough(n) == n = Room(p) \/ n = Len(p.q) \/ p.q[n + 1].len = 0
           N == {n \in 0 .. Len(p.q) : Enough(n)}
<1>1. Len(p.q) \in Nat
  BY SeqFacts
<1>2. Len(p.q) \in N /\ N \subseteq Nat
  BY <1>1
<1>3. PICK n \in N : \A m \in N : ~(<<m, n>> \in OpToRel(<, Nat))
  <2> HIDE DEF N
  <2> QED BY <1>2, NatLessThanWellFounded, WFMin
<1>4. n \in 0 .. Len(p.q) /\ Enough(n) /\ \A m \in 0 .. n - 1 : ~Enough(m)
  <2>1. \A m \in N : ~(m < n)
    BY <1>2, <1>3 DEF OpToRel
  <2>2. n \in 0 .. Len(p.q) /\ Enough(n)
    BY <1>3
  <2>3. \A m \in 0 .. n - 1 : m \in 0 .. Len(p.q) /\ m < n
    BY <1>1, <2>2
  <2> HIDE DEF Enough
  <2> QED BY <2>1, <2>2, <2>3
<1>5. Moved(p) = CHOOSE k \in 0 .. Len(p.q) : Enough(k) /\ \A m \in 0 .. k - 1 : ~Enough(m)
  BY DEF Moved
<1> HIDE DEF Enough
<1> QED BY <1>1, <1>4, <1>5

\* xf_input_port_fill
LEMMA InFillKin ==
    ASSUME NEW c, ShapeOK(c), NEW i \in DOMAIN c.in
    PROVE  Kin(c, InFill(c, i))
<1> DEFINE p == c.in[i]
           n == Moved(p)
           head == SubSeq(p.q, 1, n)
           rest == SubSeq(p.q, n + 1, Len(p.q))
           a == AnswerAll(c, head)
           r == [a.in[i] EXCEPT !.q = rest, !.filled = @ + n]
           d == [a EXCEPT !.in[i] = r]
           chk == Check(d, InHas(d, i, {"eos"}))
<1>1. IsSeq(p.q)
  BY DEF ShapeOK
<1>2. n \in 0 .. Len(p.q) /\ Len(p.q) \in Nat
  BY <1>1, MovedFacts
<1>3. InFill(c, i) = IF Ends(p) THEN InToggle(chk, i, {"eos", "done"}) ELSE d
  <2>1. [a EXCEPT !.in[i].q = rest, !.in[i].filled = @ + n] = d
    OBVIOUS
  <2> QED BY <2>1 DEF InFill
<1> HIDE DEF p, n
<1>4. IsSeq(head) /\ IsSeq(rest)
  BY <1>1, <1>2, SeqFacts
<1> HIDE DEF head, rest
<1>5. Kin(c, a)
  BY <1>4, AnswerAllKin
<1> HIDE DEF a
<1>6. ShapeOK(a) /\ i \in DOMAIN a.in
  BY <1>5 DEF Kin, SameFrame
<1>7. DOMAIN r = {"q", "flags", "filled"} /\ IsSeq(r.q)
  BY <1>4, <1>6 DEF ShapeOK
<1> HIDE DEF r
<1>8. Kin(a, d)
  BY <1>6, <1>7, InKin
<1> HIDE DEF d
<1>9. Kin(d, chk)
  BY <1>8, CheckKin DEF Kin
<1> HIDE DEF chk
<1>10. Kin(chk, InToggle(chk, i, {"eos", "done"}))
  BY <1>9, InFlagsKin DEF Kin
<1> QED BY <1>3, <1>5, <1>8, <1>9, <1>10, KinKin

\* xf_input_port_consume
LEMMA InConsumeKin ==
    ASSUME NEW c, ShapeOK(c), NEW i
    PROVE  Kin(c, InConsume(c, i))
<1> DEFINE r == [c.in[i] EXCEPT !.filled = 0]
<1>1. i \in DOMAIN c.in => DOMAIN r = {"q", "flags", "filled"} /\ IsSeq(r.q)
  BY DEF ShapeOK
<1>2. InConsume(c, i) = [c EXCEPT !.in[i] = r]
  BY DEF InConsume
<1> HIDE DEF r
<1> QED BY <1>1, <1>2, InKin

\* xf_input_port_purge
LEMMA InPurgeKin ==
    ASSUME NEW c, ShapeOK(c), NEW i \in DOMAIN c.in
    PROVE  Kin(c, InPurge(c, i))
<1> DEFINE a == AnswerAll(c, c.in[i].q)
           r == [a.in[i] EXCEPT !.q = <<>>, !.filled = 0, !.flags = (@ \ InFlags) \cup {"enabled"}]
<1>1. Kin(c, a)
  BY AnswerAllKin DEF ShapeOK
<1>2. InPurge(c, i) = [a EXCEPT !.in[i] = r]
  BY DEF InPurge
<1> HIDE DEF a
<1>3. ShapeOK(a) /\ i \in DOMAIN a.in
  BY <1>1 DEF Kin, SameFrame
<1>4. DOMAIN r = {"q", "flags", "filled"} /\ IsSeq(r.q)
  BY <1>3, SeqFacts DEF ShapeOK
<1> HIDE DEF r
<1>5. Kin(a, [a EXCEPT !.in[i] = r])
  BY <1>3, <1>4, InKin
<1> QED BY <1>1, <1>2, <1>5, KinKin

\* xf_input_port_purge_done
LEMMA InPurgeDoneKin ==
    ASSUME NEW c, ShapeOK(c), NEW i \in DOMAIN c.in
    PROVE  Kin(c, InPurgeDone(c, i))
<1> DEFINE q == c.in[i].q
           a == Answer(c, Head(q), 0)
           r == [a.in[i] EXCEPT !.q = Tail(q)]
           d == [a EXCEPT !.in[i] = r]
<1>1. Kin(c, a)
  BY AnswerKin
<1>2. InPurgeDone(c, i) = IF q = <<>> \/ ~InHas(c, i, {"purging"}) THEN Check(c, FALSE)
                          ELSE InToggle(d, i, {"purging"})
  <2>1. [a EXCEPT !.in[i].q = Tail(q)] = d
    OBVIOUS
  <2> QED BY <2>1 DEF InPurgeDone
<1>3. IsSeq(q)
  BY DEF ShapeOK
<1> HIDE DEF a, q
<1>4. ShapeOK(a) /\ i \in DOMAIN a.in
  BY <1>1 DEF Kin, SameFrame
<1>5. q # <<>> => DOMAIN r = {"q", "flags", "filled"} /\ IsSeq(r.q)
  BY <1>3, <1>4, SeqFacts DEF ShapeOK
<1> HIDE DEF r
<1>6. q # <<>> => Kin(a, d)
  BY <1>4, <1>5, InKin
<1> HIDE DEF d
<1>7. q # <<>> => Kin(d, InToggle(d, i, {"purging"}))
  BY <1>6, InFlagsKin DEF Kin
<1>8. q # <<>> => Kin(c, InToggle(d, i, {"purging"}))
  BY <1>1, <1>6, <1>7, KinKin
<1>9. Kin(c, Check(c, FALSE))
  BY CheckKin
<1> QED BY <1>2, <1>8, <1>9

\* xf_output_port_put
LEMMA OutPutKin ==
    ASSUME NEW c, ShapeOK(c), NEW j, NEW m
    PROVE  Kin(c, OutPut(c, j, m))
<1> DEFINE r == [c.out[j] EXCEPT !.q = Append(c.out[j].q, m)]
<1>1. j \in DOMAIN c.out => DOMAIN r = {"q", "flags", "ptr"} /\ IsSeq(r.q)
  BY SeqFacts DEF ShapeOK
<1>2. OutPut(c, j, m) = [c EXCEPT !.out[j] = r]
  BY DEF OutPut
<1> HIDE DEF r
<1> QED BY <1>1, <1>2, OutKin

\* xf_output_port_data
LEMMA OutSetupKin ==
    ASSUME NEW c, ShapeOK(c), NEW j
    PROVE  Kin(c, OutSetup(c, j))
<1> DEFINE chk == Check(c, ~Unrouting(c, j))
<1>1. Kin(c, chk)
  BY CheckKin
<1>2. OutSetup(c, j) = [chk EXCEPT !.out[j].ptr = Head(c.out[j].q)]
  BY DEF OutSetup
<1> HIDE DEF chk
<1>3. Kin(chk, [chk EXCEPT !.out[j].ptr = Head(c.out[j].q)])
  BY <1>1, KinShape, OutFlagsKin
<1> QED BY <1>1, <1>2, <1>3, KinKin

\* xf_output_port_produce
LEMMA OutProduceKin ==
    ASSUME NEW c, ShapeOK(c), NEW j, NEW n
    PROVE  Kin(c, OutProduce(c, j, n))
<1> DEFINE q == c.out[j].q
           m == Head(q)
           chk == Check(c, ~Unrouting(c, j))
           d == Sends(chk, m, IF FromPool(m) THEN "empty" ELSE "fill", n)
           r == [d.out[j] EXCEPT !.q = Tail(q), !.flags = @ \ {"idle"}]
           e == [d EXCEPT !.out[j] = r]
<1>1. Kin(c, chk)
  BY CheckKin
<1>2. OutProduce(c, j, n) = IF q = <<>> THEN Check(c, FALSE) ELSE e
  <2> DEFINE x == Tail(q)
             y == d.out[j].flags \ {"idle"}
  <2>1. [d EXCEPT !.out[j].q = x, !.out[j].flags = y] = e
    <3>1. r = [d.out[j] EXCEPT !.q = x, !.flags = y] /\ e = [d EXCEPT !.out[j] = r]
      OBVIOUS
    <3> HIDE DEF d, x, y, r, e
    <3>2. [d EXCEPT !.out[j].q = x, !.out[j].flags = y]
          = [d EXCEPT !.out[j] = [d.out[j] EXCEPT !.q = x, !.flags = y]]
      OBVIOUS
    <3> QED BY <3>1, <3>2
  <2> QED BY <2>1 DEF OutProduce
<1>3. j \in DOMAIN c.out => IsSeq(q)
  BY DEF ShapeOK
<1> HIDE DEF q, m, chk
<1>4. Kin(chk, d)
  BY <1>1, SendsKin DEF Kin
<1> HIDE DEF d
<1>5. Kin(c, d)
  BY <1>1, <1>4, KinKin
<1>6. ShapeOK(d) /\ DOMAIN d.out = DOMAIN c.out
  BY <1>5 DEF Kin, SameFrame
<1>7. q # <<>> /\ j \in DOMAIN d.out => DOMAIN r = {"q", "flags", "ptr"} /\ IsSeq(r.q)
  BY <1>3, <1>6, SeqFacts DEF ShapeOK
<1> HIDE DEF r
<1>8. q # <<>> => Kin(d, e)
  BY <1>6, <1>7, OutKin
<1> HIDE DEF e
<1>9. q # <<>> => Kin(c, e)
  BY <1>5, <1>8, KinKin
<1>10. Kin(c, Check(c, FALSE))
  BY CheckKin
<1> QED BY <1>2, <1>9, <1>10

\* xf_output_port_flush
LEMMA OutFlushKin ==
    ASSUME NEW c, ShapeOK(c), NEW j \in DOMAIN c.out, NEW op
    PROVE  Kin(c, OutFlush(c, j, op))
<1> DEFINE q == c.out[j].q
           t == [n \in DOMAIN q |-> [msg |-> q[n], op |-> "fill", len |-> 0]]
           r == [c.out[j] EXCEPT !.q = <<>>]
           d == [c EXCEPT !.out[j] = r]
           x == c.sent \o t
           set == OutSet(c, j, {"flushing"})
           flush == Sends(set, Control(j), IF op = "fill" THEN "empty" ELSE op, 0)
<1>1. IsSeq(q) /\ DOMAIN r = {"q", "flags", "ptr"} /\ IsSeq(r.q)
  BY SeqFacts DEF ShapeOK
<1>2. IsSeq(t)
  <2>1. DOMAIN t = 1 .. Len(q) /\ Len(q) \in Nat /\ t = [k \in DOMAIN t |-> t[k]]
    BY <1>1, SeqFacts
  <2> HIDE DEF t
  <2> QED BY <2>1, SeqFacts
<1>3. OutFlush(c, j, op) = IF ~Routed(c, j) THEN [d EXCEPT !.sent = x]
                           ELSE IF FlushOver(c, j, op) \/ OutHas(c, j, {"flushing"}) THEN c
                           ELSE flush
  <2>1. [c EXCEPT !.out[j].q = <<>>, !.sent = @ \o t] = [d EXCEPT !.sent = x]
    BY DEF ShapeOK, Fields
  <2> QED BY <2>1 DEF OutFlush
<1> HIDE DEF t, q
<1>4. IsSeq(x)
  BY <1>2, SeqFacts DEF ShapeOK
<1> HIDE DEF x, r
<1>5. Kin(c, d)
  BY <1>1, OutKin
<1> HIDE DEF d
<1>6. Kin(d, [d EXCEPT !.sent = x])
  BY <1>4, <1>5, SentKin DEF Kin
<1>7. Kin(c, set)
  BY OutFlagsKin
<1> HIDE DEF set
<1>8. Kin(set, flush)
  BY <1>7, SendsKin DEF Kin
<1> HIDE DEF flush
<1>9. Kin(c, flush)
  BY <1>7, <1>8, KinKin
<1>10. Kin(c, [d EXCEPT !.sent = x])
  BY <1>5, <1>6, KinKin
<1> QED BY <1>3, <1>9, <1>10, KinSelf

\* xf_output_port_flush_done
LEMMA OutFlushDoneKin ==
    ASSUME NEW c, ShapeOK(c), NEW j
    PROVE  Kin(c, OutFlushDone(c, j))
<1> DEFINE chk == Check(c, OutHas(c, j, {"flushing"}))
           f == Toggled(chk.out[j].flags, {"idle", "flushing"})
<1>1. Kin(c, chk)
  BY CheckKin
<1>2. OutFlushDone(c, j) = [chk EXCEPT !.out[j].flags = f]
  BY DEF OutFlushDone
<1> HIDE DEF chk, f
<1>3. Kin(chk, [chk EXCEPT !.out[j].flags = f])
  BY <1>1, KinShape, OutFlagsKin
<1> QED BY <1>1, <1>2, <1>3, KinKin

\* xf_output_port_route: the pool is a sequence.
LEMMA OutRouteKin ==
    ASSUME NEW c, ShapeOK(c), NEW j
    PROVE  Kin(c, OutRoute(c, j))
<1> DEFINE P == c.pool
           N == Cardinality(P)
           pool == CHOOSE s \in [1 .. N -> P] : {s[n] : n \in DOMAIN s} = P
           t == [n \in DOMAIN pool |-> Msg(j, pool[n])]
           chk == Check(c, ~Routed(c, j))
           r == [chk.out[j] EXCEPT !.q = chk.out[j].q \o t, !.flags = (@ \cup {"routed"}) \ {"idle"}]
<1>1. N \in Nat /\ IsFiniteSet(P)
  BY FS_CardinalityType DEF ShapeOK
<1>2. \E s \in [1 .. N -> P] : {s[n] : n \in DOMAIN s} = P
  <2>1. ExistsBijection(1 .. N, P)
    BY <1>1, FS_CardinalityType
  <2>2. PICK s \in [1 .. N -> P] : \A y \in P : \E n \in 1 .. N : s[n] = y
    BY <2>1 DEF ExistsBijection, Bijection, Surjection
  <2>3. {s[n] : n \in DOMAIN s} = P
    BY <2>2
  <2> QED BY <2>3
<1>3. pool \in [1 .. N -> P]
  <2> HIDE DEF P, N
  <2> QED BY <1>2
<1>4. OutRoute(c, j) = [chk EXCEPT !.out[j] = r]
  <2> DEFINE x == chk.out[j].q \o t
             y == (chk.out[j].flags \cup {"routed"}) \ {"idle"}
  <2>1. [chk EXCEPT !.out[j].q = x, !.out[j].flags = y] = [chk EXCEPT !.out[j] = r]
    <3>1. r = [chk.out[j] EXCEPT !.q = x, !.flags = y]
      OBVIOUS
    <3> HIDE DEF chk, x, y, r
    <3>2. [chk EXCEPT !.out[j].q = x, !.out[j].flags = y]
          = [chk EXCEPT !.out[j] = [chk.out[j] EXCEPT !.q = x, !.flags = y]]
      OBVIOUS
    <3> QED BY <3>1, <3>2
  <2> QED BY <2>1 DEF OutRoute
<1> HIDE DEF pool
<1>5. IsSeq(t)
  <2>1. DOMAIN t = 1 .. N /\ t = [k \in DOMAIN t |-> t[k]]
    BY <1>3
  <2> HIDE DEF t, N
  <2> QED BY <1>1, <2>1, SeqFacts
<1> HIDE DEF t
<1>6. Kin(c, chk)
  BY CheckKin
<1> HIDE DEF chk
<1>7. ShapeOK(chk)
  BY <1>6 DEF Kin
<1>8. j \in DOMAIN chk.out => DOMAIN r = {"q", "flags", "ptr"} /\ IsSeq(r.q)
  BY <1>5, <1>7, SeqFacts DEF ShapeOK
<1> HIDE DEF r
<1>9. Kin(chk, [chk EXCEPT !.out[j] = r])
  BY <1>7, <1>8, OutKin
<1> QED BY <1>4, <1>6, <1>9, KinKin

\* xf_output_port_unroute, _unroute_start, _unroute_done, _destroy
LEMMA OutUnrouteKin ==
    ASSUME NEW c, ShapeOK(c), NEW j
    PROVE  Kin(c, OutUnroute(c, j))
<1> DEFINE r == [OutPort({}) EXCEPT !.ptr = IF c.out[j].ptr.of = j THEN Msg(App, "freed") ELSE c.out[j].ptr]
<1>1. DOMAIN r = {"q", "flags", "ptr"} /\ IsSeq(r.q)
  BY SeqFacts DEF OutPort
<1>2. OutUnroute(c, j) = [c EXCEPT !.out[j] = r]
  BY DEF OutUnroute
<1> HIDE DEF r
<1> QED BY <1>1, <1>2, OutKin

\* xf_output_port_unroute_start
LEMMA UnrouteStartKin ==
    ASSUME NEW c, ShapeOK(c), NEW j
    PROVE  Kin(c, UnrouteStart(c, j))
<1> DEFINE chk == Check(c, Routed(c, j))
<1>1. Kin(c, chk)
  BY CheckKin
<1> HIDE DEF chk
<1>2. Kin(chk, OutSet(chk, j, {"unrouting"}))
  BY <1>1, KinShape, OutFlagsKin
<1>3. UnrouteStart(c, j) = OutSet(chk, j, {"unrouting"})
  BY DEF UnrouteStart, chk
<1> QED BY <1>1, <1>2, <1>3, KinKin

\* xf_output_port_unroute_done
LEMMA UnrouteDoneKin ==
    ASSUME NEW c, ShapeOK(c), NEW j
    PROVE  Kin(c, UnrouteDone(c, j))
<1> DEFINE chk == Check(c, Unrouting(c, j))
           d == OutUnroute(chk, j)
           e == Answer(d, [msg |-> Cmd, op |-> "unroute"], 0)
<1>1. Kin(c, chk)
  BY CheckKin
<1>2. UnrouteDone(c, j) = e
  BY DEF UnrouteDone
<1> HIDE DEF chk
<1>3. Kin(chk, d)
  BY <1>1, OutUnrouteKin DEF Kin
<1> HIDE DEF d
<1>4. Kin(d, e)
  BY <1>3, AnswerKin DEF Kin
<1> HIDE DEF e
<1> QED BY <1>1, <1>2, <1>3, <1>4, KinKin

\* xf_output_port_destroy
LEMMA OutDestroyKin ==
    ASSUME NEW c, ShapeOK(c), NEW j
    PROVE  Kin(c, OutDestroy(c, j))
<1> DEFINE chk == Check(c, OutHas(c, j, {"idle"}))
           d == IF Routed(c, j) THEN OutUnroute(chk, j) ELSE c
<1>1. Kin(c, d)
  <2>1. Kin(c, chk)
    BY CheckKin
  <2> HIDE DEF chk
  <2>2. Kin(chk, OutUnroute(chk, j))
    BY <2>1, OutUnrouteKin DEF Kin
  <2> QED BY <2>1, <2>2, KinKin, KinSelf
<1>2. OutDestroy(c, j) = [d EXCEPT !.out[j].flags = {}]
  BY DEF OutDestroy
<1> HIDE DEF d
<1>3. Kin(d, [d EXCEPT !.out[j].flags = {}])
  BY <1>1, KinShape, OutFlagsKin
<1> QED BY <1>1, <1>2, <1>3, KinKin

\* The flow-control message is back.
LEMMA ControlBackKin ==
    ASSUME NEW c, ShapeOK(c), NEW j, NEW len
    PROVE  Kin(c, ControlBack(c, j, len))
<1> DEFINE d == OutFlushDone(c, j)
<1>1. Kin(c, d)
  BY OutFlushDoneKin
<1>2. ControlBack(c, j, len) = IF Unrouting(d, j) THEN UnrouteDone(d, j)
                               ELSE IF len = Invalid THEN OutUnroute(d, j) ELSE d
  BY DEF ControlBack
<1> HIDE DEF d
<1>3. Kin(d, UnrouteDone(d, j)) /\ Kin(d, OutUnroute(d, j))
  BY <1>1, UnrouteDoneKin, OutUnrouteKin DEF Kin
<1> QED BY <1>1, <1>2, <1>3, KinKin

\* What the turns of a fold leave alone, the fold leaves alone.
LEMMA FoldKin ==
    ASSUME NEW k, NEW S, Takes(k, S), NEW c, ShapeOK(c), NEW it,
           Evaluates(k, S, c, it),
           \A i \in S : \A d : Kin(c, d) => Kin(c, Turn(k, i, d))
    PROVE  Kin(c, it[S])
<1> DEFINE G == {s \in SUBSET S : Kin(c, it[s])}
<1>1. {} \in G
  BY KinSelf DEF Evaluates
<1>2. \A s \in SUBSET S : s # {} /\ Others(k, s) \in G => s \in G
  BY OthersFacts DEF Evaluates
<1> HIDE DEF G
<1>3. S \in G
  BY <1>1, <1>2, FoldInduction
<1> QED BY <1>3 DEF G

\* All inputs are purged, one by one.
LEMMA InPurgeAllKin ==
    ASSUME NEW c, ShapeOK(c)
    PROVE  Kin(c, InPurgeAll(c))
<1> DEFINE k == [op |-> "purge"]
           S == DOMAIN c.in
           it == CHOOSE f : f = [s \in SUBSET S |-> IF s = {} THEN c
                                   ELSE InPurge(f[s \ {CHOOSE x \in s : TRUE}], CHOOSE x \in s : TRUE)]
<1>1. InPurgeAll(c) = it[S]
  BY DEF InPurgeAll, FoldSet, MapThenFoldSet
<1>2. Takes(k, S) /\ \A s : Chosen(k, s) = CHOOSE x \in s : TRUE
  BY TakesAny DEF ShapeOK
<1>3. \A i, d : Turn(k, i, d) = InPurge(d, i)
  BY DEF Turn
<1>4. \A i \in S : \A d : Kin(c, d) => Kin(c, InPurge(d, i))
  BY KinShape, KinKin, InPurgeKin
<1> HIDE DEF k, S
<1>5. PICK f : Evaluates(k, S, c, f)
  BY <1>2, FoldExists
<1>6. f = [s \in SUBSET S |-> IF s = {} THEN c
             ELSE InPurge(f[s \ {CHOOSE x \in s : TRUE}], CHOOSE x \in s : TRUE)]
  BY <1>2, <1>3, <1>5 DEF Others, Evaluates
<1>7. it = [s \in SUBSET S |-> IF s = {} THEN c
             ELSE InPurge(it[s \ {CHOOSE x \in s : TRUE}], CHOOSE x \in s : TRUE)]
  BY <1>6
<1> HIDE DEF it
<1>8. Evaluates(k, S, c, it)
  BY <1>2, <1>3, <1>7 DEF Others, Evaluates
<1>9. Kin(c, it[S])
  BY <1>2, <1>3, <1>4, <1>8, FoldKin
<1> QED BY <1>1, <1>9

-----------------------------------------------------------------------------
(* The schedule.                                                           *)

\* The component is in the tree as its flag says, and not if it is being deleted.
Sound(c) == ShapeOK(c) /\ c.tree = (IF Due(c) THEN 1 ELSE 0) /\ (c.mode # "running" => ~Due(c))
Runs(c, d) == Sound(d) /\ SameFrame(c, d)
\* The same for a handler that may delete it.
Follows(c, d) == /\ Sound(d) /\ d.class = c.class
                 /\ DOMAIN d.in = DOMAIN c.in /\ DOMAIN d.out = DOMAIN c.out

\* A sound component has its shape.
LEMMA SoundShape ==
    ASSUME NEW c, Sound(c)
    PROVE  ShapeOK(c)
BY DEF Sound

\* A handler that leaves the schedule alone keeps it right.
LEMMA KinRuns ==
    ASSUME NEW c, Sound(c), NEW d, Kin(c, d)
    PROVE  Runs(c, d)
BY DEF Sound, Runs, Kin, SameFrame, Due

\* One thing done after another.
LEMMA RunsRuns ==
    ASSUME NEW c, NEW d, NEW e, Runs(c, d), Runs(d, e)
    PROVE  Runs(c, e)
BY DEF Runs, SameFrame

\* A component that runs on need not have been deleted.
LEMMA RunsFollows ==
    ASSUME NEW c, NEW d, Runs(c, d)
    PROVE  Follows(c, d)
BY DEF Follows, Runs, SameFrame

\* xa_base_schedule
LEMMA ScheduleRuns ==
    ASSUME NEW c, Sound(c), c.mode = "running", NEW d, Kin(c, d), NEW due
    PROVE  Runs(c, Schedule(d)) /\ Runs(c, ScheduleIf(d, due))
<1>1. Sound(d) /\ d.mode = "running" /\ SameFrame(c, d)
  BY KinRuns DEF Runs, SameFrame
<1>2. Schedule(d) = IF "schedule" \in d.state THEN d
                    ELSE [d EXCEPT !.state = d.state \cup {"schedule"}, !.tree = d.tree + 1]
  BY DEF Schedule
<1>3. Sound(Schedule(d)) /\ SameFrame(d, Schedule(d))
  BY <1>1, <1>2 DEF Sound, ShapeOK, Fields, SameFrame, Due
<1>4. Runs(c, Schedule(d))
  BY <1>1, <1>3 DEF Runs, SameFrame
<1> QED BY <1>1, <1>4 DEF ScheduleIf, Runs

\* xa_base_cancel: afterwards the component is out of the schedule.
LEMMA CancelRuns ==
    ASSUME NEW c, Sound(c)
    PROVE  Runs(c, Cancel(c)) /\ Sound(Cancel(c)) /\ ~Due(Cancel(c))
<1>1. Cancel(c) = IF "schedule" \notin c.state THEN c
                  ELSE [c EXCEPT !.state = c.state \ {"schedule"}, !.tree = 0]
  BY DEF Cancel
<1> QED BY <1>1 DEF Sound, ShapeOK, Fields, SameFrame, Due, Runs

-----------------------------------------------------------------------------
(* The mixer: commands.                                                    *)

\* The output port that a mixer has anyway.
MixerOK(c) == Sound(c) /\ c.mode = "running" /\ MixOut \in DOMAIN c.out

\* xa_mixer_empty_this_buffer: the restart forgets a flag of the schedule that is not there.
LEMMA MixerEmptyRuns ==
    ASSUME NEW c, MixerOK(c), ~Due(c), NEW x
    PROVE  Runs(c, MixerEmpty(c, x))
<1> DEFINE i == x.port
           flag == IF x.len # 0 THEN InSet(c, i, {"recvd"}) ELSE InClear(c, i, {"recvd"})
           put == InPut(flag, i, x)
           live == IF "completed" \in c.state THEN [put EXCEPT !.state = {"execution"}] ELSE put
           active == IF InHas(live, i, {"idle"}) THEN InToggle(live, i, {"idle", "active"}) ELSE live
<1>1. Kin(c, flag)
  BY InFlagsKin DEF MixerOK, Sound
<1>2. MixerEmpty(c, x) = IF IsFirst(c, i) THEN MixerDue(active) ELSE put
  BY DEF MixerEmpty
<1> HIDE DEF flag
<1>3. Kin(c, put)
  BY <1>1, KinShape, InPutKin, KinKin
<1> HIDE DEF put
<1>4. Kin(c, live)
  <2>1. "schedule" \in {"execution"} <=> Due(put)
    BY <1>3, KinShape
  <2> QED BY <1>3, <2>1, KinShape, KinKin, StateKin
<1> HIDE DEF live
<1>5. Kin(c, active)
  BY <1>4, KinShape, KinKin, InFlagsKin
<1> HIDE DEF active
<1> QED BY <1>2, <1>3, <1>5, KinRuns, ScheduleRuns DEF MixerDue, MixerOK

\* xa_mixer_fill_this_buffer
LEMMA MixerFillRuns ==
    ASSUME NEW c, MixerOK(c), NEW x
    PROVE  Runs(c, MixerFill(c, x))
<1>1. ShapeOK(c) /\ Sound(c) /\ c.mode = "running" /\ MixOut \in DOMAIN c.out
  BY DEF MixerOK, Sound
<1>2. Kin(c, Answer(c, x, 0))
  BY <1>1, AnswerKin
<1>3. Runs(c, MixerFillProbe(c, x))
  BY <1>1, <1>2, OutPutKin, KinRuns, ScheduleRuns DEF MixerFillProbe
<1>4. Runs(c, MixerControlBack(c, x))
  BY <1>1, ControlBackKin, InPurgeAllKin, KinShape, KinKin, KinRuns DEF MixerControlBack
<1>5. Runs(c, MixerBounced(c))
  <2>1. Runs(c, Cancel(c)) /\ Sound(Cancel(c)) /\ MixOut \in DOMAIN Cancel(c).out
    BY <1>1, CancelRuns DEF Runs, SameFrame
  <2> DEFINE d == Cancel(c)
             f == OutFlush(d, MixOut, "fill")
             s == f.state \ {"output_setup"}
  <2> HIDE DEF d
  <2>2. Kin(d, f)
    BY <2>1, SoundShape, OutFlushKin DEF d
  <2> HIDE DEF f
  <2>3. Kin(f, [f EXCEPT !.state = s])
    BY <2>2, KinShape, StateKin DEF Due
  <2>4. Runs(c, NoOutput(f))
    BY <2>1, <2>2, <2>3, KinKin, KinRuns, RunsRuns DEF NoOutput, d
  <2> QED BY <1>1, <2>4, KinSelf, KinRuns DEF MixerBounced, f, d
<1>6. Runs(c, MixerToFill(c, x))
  <2> DEFINE init == "runtime_init" \in c.state
             chk == Check(c, init => x.len = 0)
  <2>1. Kin(c, chk)
    BY <1>1, CheckKin
  <2>2. Kin(c, OutPut(chk, MixOut, x.msg))
    <3> HIDE DEF chk
    <3> QED BY <2>1, KinShape, KinKin, OutPutKin
  <2> QED BY <1>1, <2>2, ScheduleRuns DEF MixerToFill
<1>7. Runs(c, Answer(Check(c, x.len = 1), x, 0))
  <2> DEFINE chk == Check(c, x.len = 1)
  <2>1. Kin(c, chk) /\ ShapeOK(chk)
    BY <1>1, CheckKin, KinShape
  <2> HIDE DEF chk
  <2>2. Kin(chk, Answer(chk, x, 0))
    BY <2>1, AnswerKin
  <2>3. Runs(c, Answer(chk, x, 0))
    BY <1>1, <2>1, <2>2, KinKin, KinRuns
  <2> QED BY <2>3 DEF chk
<1> QED BY <1>1, <1>2, <1>3, <1>4, <1>5, <1>6, <1>7, KinRuns DEF MixerFill

\* xa_mixer_port_route, xa_mixer_port_unroute
LEMMA RunsAnswer ==
    ASSUME NEW c, NEW d, Runs(c, d), NEW x, NEW len
    PROVE  Runs(c, Answer(d, x, len))
BY SoundShape, AnswerKin, KinRuns, RunsRuns DEF Runs

\* The mixer's output is routed, or its route is taken down.
LEMMA MixerRouteRuns ==
    ASSUME NEW c, MixerOK(c), NEW x
    PROVE  Runs(c, MixerRoute(c, x)) /\ Runs(c, MixerUnroute(c, x))
<1>1. ShapeOK(c) /\ Sound(c) /\ c.mode = "running" /\ MixOut \in DOMAIN c.out
  BY DEF MixerOK, Sound
<1>2. Runs(c, MixerRoute(c, x))
  BY <1>1, OutRouteKin, ScheduleRuns, RunsAnswer DEF MixerRoute
<1> DEFINE d == Cancel(c)
           e == [d EXCEPT !.state = d.state \ {"output_setup"}]
           flush == OutFlush(e, MixOut, "flush")
           over == OutUnroute(flush, MixOut)
           start == UnrouteStart(flush, MixOut)
<1>3. Runs(c, d) /\ Sound(d)
  BY <1>1, CancelRuns
<1>4. MixerUnroute(c, x) = IF ~Routed(c, MixOut) THEN Answer(c, x, 0)
                           ELSE IF FlushOver(c, MixOut, "flush") THEN Answer(over, x, 0) ELSE start
  BY DEF MixerUnroute, NoOutput
<1> HIDE DEF d
<1>5. Kin(d, e)
  BY <1>3, SoundShape, StateKin DEF Due
<1> HIDE DEF e
<1>6. MixOut \in DOMAIN e.out
  BY <1>1, <1>3, <1>5, KinShape DEF Runs, SameFrame
<1>7. Kin(d, flush)
  BY <1>5, <1>6, KinShape, OutFlushKin, KinKin
<1> HIDE DEF flush
<1>8. Kin(d, over) /\ Kin(d, start)
  BY <1>7, KinShape, OutUnrouteKin, UnrouteStartKin, KinKin
<1> HIDE DEF over, start
<1>9. Runs(c, over) /\ Runs(c, start)
  BY <1>3, <1>8, KinRuns, RunsRuns
<1> QED BY <1>1, <1>2, <1>4, <1>9, AnswerKin, KinRuns, RunsAnswer

\* xa_mixer_pause, xa_mixer_resume
LEMMA MixerPauseRuns ==
    ASSUME NEW c, MixerOK(c), NEW x, x.port \in DOMAIN c.in \cup DOMAIN c.out
    PROVE  Runs(c, MixerPause(c, x)) /\ Runs(c, MixerResume(c, x))
<1> DEFINE p == x.port
<1>1. ShapeOK(c) /\ Sound(c) /\ c.mode = "running" /\ Kin(c, c)
  BY KinSelf DEF MixerOK, Sound
<1>2. \A d : Kin(c, d) => Runs(c, d) /\ Runs(c, MixerDue(d)) /\ \A due : Runs(c, ScheduleIf(d, due))
  BY <1>1, KinRuns, ScheduleRuns DEF MixerDue
<1>3. Runs(c, MixerPause(c, x))
  <2>1. \A f : Kin(c, InToggle(c, p, f)) /\ Kin(c, OutSet(c, p, f))
    BY <1>1, InFlagsKin, OutFlagsKin
  <2>2. ProbeOn(c) => \A f : Kin(c, OutSet(OutFlush(c, Probe, "flush"), Probe, f))
    <3>1. ProbeOn(c) => Kin(c, OutFlush(c, Probe, "flush"))
      BY <1>1, OutFlushKin DEF ProbeOn, HasProbe
    <3> QED BY <3>1, KinShape, KinKin, OutFlagsKin
  <2> DEFINE d == IF "completed" \in c.state THEN c
                  ELSE IF p \in DOMAIN c.in /\ InHas(c, p, {"active"})
                  THEN MixerDue(InToggle(c, p, {"active", "paused"}))
                  ELSE IF p = MixOut THEN OutSet(c, p, {"paused"})
                  ELSE IF p = Probe /\ ProbeOn(c)
                  THEN MixerDue(OutSet(OutFlush(c, p, "flush"), p, {"paused"}))
                  ELSE c
  <2>3. Runs(c, d)
    BY <1>1, <1>2, <2>1, <2>2
  <2>4. MixerPause(c, x) = Answer(d, x, x.len)
    BY DEF MixerPause
  <2> QED BY <2>3, <2>4, RunsAnswer
<1>4. Runs(c, MixerResume(c, x))
  <2>1. \A f : Kin(c, InToggle(c, p, f)) /\ Kin(c, OutClear(c, p, f))
    BY <1>1, InFlagsKin, OutFlagsKin
  <2> DEFINE d == IF "completed" \in c.state THEN c
                  ELSE IF p \in DOMAIN c.in /\ InHas(c, p, {"paused"})
                  THEN MixerDue(InToggle(c, p, {"active", "paused"}))
                  ELSE IF p = MixOut /\ OutHas(c, p, {"paused"})
                  THEN MixerDue(OutClear(c, p, {"paused"}))
                  ELSE IF p = Probe /\ HasProbe(c) /\ ~ProbeOn(c)
                  THEN ScheduleIf(OutClear(c, p, {"paused"}), OutReady(c, MixOut) /\ OutReady(c, p))
                  ELSE c
  <2>2. Runs(c, d)
    BY <1>1, <1>2, <2>1
  <2>3. MixerResume(c, x) = Answer(d, x, x.len)
    BY DEF MixerResume
  <2> QED BY <2>2, <2>3, RunsAnswer
<1> QED BY <1>3, <1>4

\* xa_mixer_flush
LEMMA MixerFlushRuns ==
    ASSUME NEW c, MixerOK(c), NEW x, x.port \in DOMAIN c.in \/ x.port = MixOut
    PROVE  Runs(c, MixerFlush(c, x))
<1> DEFINE i == x.port
           p == InPurge(c, i)
           d == InClear(p, i, {"active", "paused", "input_setup", "recvd"})
           e == InSet(d, i, {"idle"})
<1>1. ShapeOK(c) /\ Sound(c) /\ c.mode = "running" /\ Runs(c, c)
  BY KinSelf, KinRuns DEF MixerOK, Sound
<1>2. Runs(c, UnrouteDone(c, MixOut))
  BY <1>1, UnrouteDoneKin, KinRuns
<1>3. i \in DOMAIN c.in => Kin(c, p)
  BY <1>1, InPurgeKin
<1>4. MixerFlush(c, x) = IF i = MixOut THEN UnrouteDone(c, MixOut)
                         ELSE Answer(IF InHas(c, i, {"active", "paused"}) THEN MixerDue(e) ELSE c, x, x.len)
  BY DEF MixerFlush
<1> HIDE DEF p
<1>5. i \in DOMAIN c.in => Kin(c, d)
  BY <1>3, KinShape, KinKin, InFlagsKin
<1> HIDE DEF d
<1>6. i \in DOMAIN c.in => Kin(c, e)
  BY <1>5, KinShape, KinKin, InFlagsKin
<1> HIDE DEF e
<1>7. i \in DOMAIN c.in => Runs(c, MixerDue(e))
  BY <1>1, <1>6, ScheduleRuns DEF MixerDue
<1> QED BY <1>1, <1>2, <1>4, <1>7, RunsAnswer

-----------------------------------------------------------------------------
(* The mixer: processing and deletion.                                     *)

\* xa_mixer_preprocess, for one track.
LEMMA TrackInputKin ==
    ASSUME NEW c, ShapeOK(c), NEW i \in DOMAIN c.in
    PROVE  Kin(c, TrackInput(c, i))
<1>1. \A d : ShapeOK(d) => Kin(d, InputOver(d, i))
  <2> TAKE d
  <2> DEFINE g == [d.plugin EXCEPT !.over = d.plugin.over \cup {i}]
  <2>1. InputOver(d, i) = [d EXCEPT !.plugin = g]
    BY DEF InputOver
  <2> HIDE DEF g
  <2> QED BY <2>1, PluginKin
<1>2. \A d, n : ShapeOK(d) => Kin(d, SetInputBytes(d, i, n))
  <2> TAKE d, n
  <2> DEFINE x == IF n > 0 THEN d.plugin.holds \cup {i} ELSE d.plugin.holds \ {i}
             y == IF n = Frame THEN d.plugin.over \ {i} ELSE d.plugin.over
  <2>1. SetInputBytes(d, i, n) = [d EXCEPT !.plugin.holds = x, !.plugin.over = y]
    BY DEF SetInputBytes
  <2> HIDE DEF x, y
  <2> DEFINE g == [d.plugin EXCEPT !.holds = x, !.over = y]
  <2>2. [d EXCEPT !.plugin.holds = x, !.plugin.over = y] = [d EXCEPT !.plugin = g]
    OBVIOUS
  <2> HIDE DEF g
  <2> QED BY <2>1, <2>2, PluginKin
<1> DEFINE f == InFill(c, i)
           o == IF InDone(f, i) THEN InputOver(f, i) ELSE f
           told == SetInputBytes(o, i, f.in[i].filled)
<1>3. Kin(c, f)
  BY InFillKin
<1>4. TrackInput(c, i) = IF TrackSkipped(c, i)
                         THEN (IF InHas(c, i, {"active", "paused"}) THEN c ELSE InputOver(c, i))
                         ELSE IF TrackWaits(c, i) THEN f
                         ELSE InSet(told, i, {"input_setup"})
  BY DEF TrackInput
<1> HIDE DEF f
<1>5. Kin(c, o)
  BY <1>1, <1>3, KinShape, KinKin
<1> HIDE DEF o
<1>6. Kin(c, told)
  BY <1>2, <1>5, KinShape, KinKin
<1> HIDE DEF told
<1>7. Kin(c, InSet(told, i, {"input_setup"}))
  BY <1>6, KinShape, KinKin, InFlagsKin
<1> QED BY <1>1, <1>3, <1>4, <1>7, KinSelf

\* The same for the tracks one after another.
LEMMA TracksInputKin ==
    ASSUME NEW c, ShapeOK(c), NEW S, S \subseteq DOMAIN c.in
    PROVE  Kin(c, FoldSet(LAMBDA i, d : TrackInput(d, i), c, S))
<1> DEFINE k == [op |-> "track"]
           it == CHOOSE f : f = [s \in SUBSET S |-> IF s = {} THEN c
                                   ELSE TrackInput(f[s \ {CHOOSE x \in s : TRUE}], CHOOSE x \in s : TRUE)]
<1>1. FoldSet(LAMBDA i, d : TrackInput(d, i), c, S) = it[S]
  BY DEF FoldSet, MapThenFoldSet
<1>2. Takes(k, S) /\ \A s : Chosen(k, s) = CHOOSE x \in s : TRUE
  BY FS_Subset, TakesAny DEF ShapeOK
<1>3. \A i, d : Turn(k, i, d) = TrackInput(d, i)
  BY DEF Turn
<1>4. \A i \in S : \A d : Kin(c, d) => Kin(c, TrackInput(d, i))
  BY KinShape, KinKin, TrackInputKin
<1> HIDE DEF k
<1>5. PICK f : Evaluates(k, S, c, f)
  BY <1>2, FoldExists
<1>6. f = [s \in SUBSET S |-> IF s = {} THEN c
             ELSE TrackInput(f[s \ {CHOOSE x \in s : TRUE}], CHOOSE x \in s : TRUE)]
  BY <1>2, <1>3, <1>5 DEF Others, Evaluates
<1>7. it = [s \in SUBSET S |-> IF s = {} THEN c
             ELSE TrackInput(it[s \ {CHOOSE x \in s : TRUE}], CHOOSE x \in s : TRUE)]
  BY <1>6
<1> HIDE DEF it
<1>8. Evaluates(k, S, c, it)
  BY <1>2, <1>3, <1>7 DEF Others, Evaluates
<1>9. Kin(c, it[S])
  BY <1>2, <1>3, <1>4, <1>8, FoldKin
<1> QED BY <1>1, <1>9

\* xa_mixer_preprocess
LEMMA MixerPreprocessKin ==
    ASSUME NEW c, ShapeOK(c)
    PROVE  Kin(c, MixerPreprocess(c).c)
<1> DEFINE init == "runtime_init" \in c.state
           probes == ProbeOn(c) /\ ~OutHas(c, Probe, {"probe_setup"}) /\ ~init
           p == IF probes THEN OutSet(c, Probe, {"probe_setup"}) ELSE c
           setup == "output_setup" \in c.state
           a == OutSetup(p, MixOut)
           b == [a EXCEPT !.state = a.state \cup {"output_setup"}]
           o == IF setup THEN p ELSE b
           S == DOMAIN c.in
           all == FoldSet(LAMBDA i, d : TrackInput(d, i), o, S)
           ok == /\ \E i \in S : InHas(c, i, {"active"})
                 /\ \A i \in S : ~TrackWaits(c, i)
<1>1. MixerPreprocess(c) =
        IF OutHas(c, MixOut, {"paused"}) \/ (probes /\ OutEmpty(c, Probe)) THEN [c |-> c, ok |-> FALSE]
        ELSE IF ~setup /\ init THEN [c |-> p, ok |-> TRUE]
        ELSE IF ~setup /\ OutEmpty(c, MixOut) THEN [c |-> p, ok |-> FALSE]
        ELSE [c |-> all, ok |-> ok]
  BY DEF MixerPreprocess
<1> HIDE DEF ok, probes
<1>2. Kin(c, p) /\ Kin(c, c)
  BY OutFlagsKin, KinSelf
<1> HIDE DEF p
<1>3. Kin(c, a)
  BY <1>2, KinShape, KinKin, OutSetupKin
<1> HIDE DEF a
<1>4. Kin(a, b)
  BY <1>3, KinShape, StateKin DEF Due
<1> HIDE DEF b
<1>5. Kin(c, o)
  BY <1>2, <1>3, <1>4, KinKin
<1> HIDE DEF o
<1>6. ShapeOK(o) /\ S = DOMAIN o.in
  BY <1>5, KinShape
<1> HIDE DEF S
<1>7. Kin(o, all)
  BY <1>6, TracksInputKin
<1> HIDE DEF all
<1> QED BY <1>1, <1>2, <1>5, <1>7, KinKin

\* The plugin runs.
LEMMA MixerExecuteKin ==
    ASSUME NEW c, ShapeOK(c)
    PROVE  Kin(c, MixerExecute(c).c)
<1> DEFINE g == c.plugin
           nothing == g.holds = {} /\ g.over = DOMAIN c.in
           done == g.over = DOMAIN c.in
           x == [g EXCEPT !.used = g.holds, !.holds = {}]
           ran == IF nothing THEN c ELSE [c EXCEPT !.plugin = x]
           init == [c EXCEPT !.state = Toggled(c.state, {"runtime_init", "execution"})]
           over == [ran EXCEPT !.state = Toggled(ran.state, {"execution", "completed"})]
           n == IF nothing /\ (MayBeBarren \/ ~Barren(c, MixOut)) THEN 0 ELSE 1
<1>1. MixerExecute(c) =
        IF "runtime_init" \in c.state THEN [c |-> init, done |-> TRUE, produced |-> 0]
        ELSE IF "execution" \in c.state
        THEN [c |-> IF done THEN over ELSE ran, done |-> done, produced |-> n]
        ELSE [c |-> c, done |-> FALSE, produced |-> 0]
  <2>1. [c EXCEPT !.plugin.used = g.holds, !.plugin.holds = {}] = [c EXCEPT !.plugin = x]
    OBVIOUS
  <2> QED BY <2>1 DEF MixerExecute
<1> HIDE DEF g, nothing, done, x, n
<1>2. Kin(c, ran) /\ Kin(c, c)
  BY PluginKin, KinSelf
<1> HIDE DEF ran
<1>3. Kin(ran, over)
  <2>1. "schedule" \in Toggled(ran.state, {"execution", "completed"}) <=> Due(ran)
    BY DEF Toggled, Due
  <2> QED BY <1>2, <2>1, KinShape, StateKin
<1> HIDE DEF over
<1>4. Kin(c, init)
  <2>1. "schedule" \in Toggled(c.state, {"runtime_init", "execution"}) <=> Due(c)
    BY DEF Toggled, Due
  <2> QED BY <2>1, StateKin
<1> HIDE DEF init
<1>5. Kin(c, over)
  BY <1>2, <1>3, KinKin
<1> QED BY <1>1, <1>2, <1>4, <1>5

\* xa_mixer_postprocess, for one track.
LEMMA TrackOutputKin ==
    ASSUME NEW c, ShapeOK(c), NEW i \in DOMAIN c.in
    PROVE  Kin(c, TrackOutput(c, i))
<1> DEFINE d == InClear(c, i, {"input_setup"})
           e == IF i \in c.plugin.used THEN InConsume(d, i) ELSE d
           p == InPurge(e, i)
<1>1. TrackOutput(c, i) = IF ~InHas(c, i, {"active", "input_setup"}) THEN c
                          ELSE IF InDone(e, i) THEN InToggle(p, i, {"active", "idle"}) ELSE e
  BY DEF TrackOutput
<1>2. Kin(c, d)
  BY InFlagsKin
<1> HIDE DEF d
<1>3. Kin(c, e)
  BY <1>2, KinShape, KinKin, InConsumeKin
<1> HIDE DEF e
<1>4. Kin(c, p)
  BY <1>3, KinShape, KinKin, InPurgeKin
<1> HIDE DEF p
<1>5. Kin(c, InToggle(p, i, {"active", "idle"}))
  BY <1>4, KinShape, KinKin, InFlagsKin
<1> QED BY <1>1, <1>3, <1>5, KinSelf

\* The same for the tracks one after another.
LEMMA TracksOutputKin ==
    ASSUME NEW c, ShapeOK(c), NEW S, S \subseteq DOMAIN c.in
    PROVE  Kin(c, FoldSet(LAMBDA i, d : TrackOutput(d, i), c, S))
<1> DEFINE k == [op |-> "tracked"]
           it == CHOOSE f : f = [s \in SUBSET S |-> IF s = {} THEN c
                                   ELSE TrackOutput(f[s \ {CHOOSE x \in s : TRUE}], CHOOSE x \in s : TRUE)]
<1>1. FoldSet(LAMBDA i, d : TrackOutput(d, i), c, S) = it[S]
  BY DEF FoldSet, MapThenFoldSet
<1>2. Takes(k, S) /\ \A s : Chosen(k, s) = CHOOSE x \in s : TRUE
  BY FS_Subset, TakesAny DEF ShapeOK
<1>3. \A i, d : Turn(k, i, d) = TrackOutput(d, i)
  BY DEF Turn
<1>4. \A i \in S : \A d : Kin(c, d) => Kin(c, TrackOutput(d, i))
  BY KinShape, KinKin, TrackOutputKin
<1> HIDE DEF k
<1>5. PICK f : Evaluates(k, S, c, f)
  BY <1>2, FoldExists
<1>6. f = [s \in SUBSET S |-> IF s = {} THEN c
             ELSE TrackOutput(f[s \ {CHOOSE x \in s : TRUE}], CHOOSE x \in s : TRUE)]
  BY <1>2, <1>3, <1>5 DEF Others, Evaluates
<1>7. it = [s \in SUBSET S |-> IF s = {} THEN c
             ELSE TrackOutput(it[s \ {CHOOSE x \in s : TRUE}], CHOOSE x \in s : TRUE)]
  BY <1>6
<1> HIDE DEF it
<1>8. Evaluates(k, S, c, it)
  BY <1>2, <1>3, <1>7 DEF Others, Evaluates
<1>9. Kin(c, it[S])
  BY <1>2, <1>3, <1>4, <1>8, FoldKin
<1> QED BY <1>1, <1>9

\* A mixer's kin is a mixer.
LEMMA KinMixer ==
    ASSUME NEW c, MixerOK(c), NEW d, Kin(c, d)
    PROVE  Runs(c, d) /\ MixerOK(d)
BY KinRuns DEF MixerOK, Runs, SameFrame

\* xa_mixer_postprocess
LEMMA MixerPostprocessRuns ==
    ASSUME NEW c, MixerOK(c), NEW done, NEW n
    PROVE  Runs(c, MixerPostprocess(c, done, n))
<1> DEFINE S == DOMAIN c.in
           t == FoldSet(LAMBDA i, d : TrackOutput(d, i), c, S)
           a == OutProduce(t, MixOut, n)
           b == [a EXCEPT !.state = a.state \ {"output_setup"}]
           o == IF n = 0 THEN t ELSE b
           probed == /\ ProbeOn(c)
                     /\ n > 0 \/ \E i \in c.plugin.used : InHas(c, i, {"active", "input_setup"})
           q == OutProduce(o, Probe, 1)
           f == Toggled(q.out[Probe].flags, {"probe_setup"})
           p == IF ~probed THEN o ELSE [q EXCEPT !.out[Probe].flags = f]
           over == OutFlush(p, MixOut, "fill")
<1>1. ShapeOK(c) /\ Sound(c) /\ c.mode = "running" /\ MixOut \in DOMAIN c.out
  BY DEF MixerOK, Sound
<1>2. MixerPostprocess(c, done, n) =
        IF done /\ "execution" \in c.state THEN OutProduce(c, MixOut, 1)
        ELSE IF done THEN (IF HasProbe(c) THEN OutFlush(over, Probe, "flush") ELSE over)
        ELSE MixerDue(p)
  BY DEF MixerPostprocess, NoOutput
<1>3. Kin(c, t)
  BY <1>1, TracksOutputKin
<1> HIDE DEF t, probed
<1>4. Kin(c, a)
  BY <1>3, KinShape, KinKin, OutProduceKin
<1> HIDE DEF a
<1>5. Kin(a, b)
  BY <1>4, KinShape, StateKin DEF Due
<1> HIDE DEF b
<1>6. Kin(c, o)
  BY <1>3, <1>4, <1>5, KinKin
<1> HIDE DEF o
<1>7. Kin(c, q)
  BY <1>6, KinShape, KinKin, OutProduceKin
<1> HIDE DEF q, f
<1>8. Kin(q, [q EXCEPT !.out[Probe].flags = f])
  BY <1>7, KinShape, OutFlagsKin
<1>9. Kin(c, p)
  BY <1>6, <1>7, <1>8, KinKin
<1> HIDE DEF p
<1>10. Kin(c, over)
  BY <1>1, <1>9, KinShape, KinKin, OutFlushKin
<1> HIDE DEF over
<1>11. HasProbe(c) => Kin(c, OutFlush(over, Probe, "flush"))
  BY <1>10, KinShape, KinKin, OutFlushKin DEF HasProbe
<1>12. Kin(c, OutProduce(c, MixOut, 1))
  BY <1>1, OutProduceKin
<1>13. Runs(c, MixerDue(p))
  BY <1>1, <1>9, ScheduleRuns DEF MixerDue
<1> QED BY <1>1, <1>2, <1>10, <1>11, <1>12, <1>13, KinRuns

\* xa_base_process of the mixer
LEMMA MixerProcessRuns ==
    ASSUME NEW c, MixerOK(c)
    PROVE  Runs(c, MixerProcess(c))
<1> DEFINE pre == MixerPreprocess(c)
           e == MixerExecute(pre.c)
<1>1. Kin(c, pre.c)
  BY SoundShape, MixerPreprocessKin DEF MixerOK
<1>2. Runs(c, pre.c) /\ MixerOK(pre.c)
  BY <1>1, KinMixer
<1>3. MixerProcess(c) = IF pre.ok THEN MixerPostprocess(e.c, e.done, e.produced) ELSE pre.c
  BY DEF MixerProcess
<1> HIDE DEF pre
<1>4. Kin(pre.c, e.c)
  BY <1>2, SoundShape, MixerExecuteKin DEF MixerOK
<1>5. Runs(pre.c, e.c) /\ MixerOK(e.c)
  BY <1>2, <1>4, KinMixer
<1> HIDE DEF e
<1>6. Runs(e.c, MixerPostprocess(e.c, e.done, e.produced))
  BY <1>5, MixerPostprocessRuns
<1> QED BY <1>2, <1>3, <1>5, <1>6, RunsRuns

\* The outputs are destroyed one after another.
LEMMA OutDestroyAllKin ==
    ASSUME NEW c, ShapeOK(c), NEW S, S \subseteq DOMAIN c.out
    PROVE  Kin(c, FoldSet(LAMBDA j, b : OutDestroy(b, j), c, S))
<1> DEFINE k == [op |-> "destroy"]
           it == CHOOSE f : f = [s \in SUBSET S |-> IF s = {} THEN c
                                   ELSE OutDestroy(f[s \ {CHOOSE x \in s : TRUE}], CHOOSE x \in s : TRUE)]
<1>1. FoldSet(LAMBDA j, b : OutDestroy(b, j), c, S) = it[S]
  BY DEF FoldSet, MapThenFoldSet
<1>2. Takes(k, S) /\ \A s : Chosen(k, s) = CHOOSE x \in s : TRUE
  BY FS_Subset, TakesAny DEF ShapeOK
<1>3. \A j, d : Turn(k, j, d) = OutDestroy(d, j)
  BY DEF Turn
<1>4. \A j \in S : \A d : Kin(c, d) => Kin(c, OutDestroy(d, j))
  BY KinShape, KinKin, OutDestroyKin
<1> HIDE DEF k
<1>5. PICK f : Evaluates(k, S, c, f)
  BY <1>2, FoldExists
<1>6. f = [s \in SUBSET S |-> IF s = {} THEN c
             ELSE OutDestroy(f[s \ {CHOOSE x \in s : TRUE}], CHOOSE x \in s : TRUE)]
  BY <1>2, <1>3, <1>5 DEF Others, Evaluates
<1>7. it = [s \in SUBSET S |-> IF s = {} THEN c
             ELSE OutDestroy(it[s \ {CHOOSE x \in s : TRUE}], CHOOSE x \in s : TRUE)]
  BY <1>6
<1> HIDE DEF it
<1>8. Evaluates(k, S, c, it)
  BY <1>2, <1>3, <1>7 DEF Others, Evaluates
<1>9. Kin(c, it[S])
  BY <1>2, <1>3, <1>4, <1>8, FoldKin
<1> QED BY <1>1, <1>9

\* A component out of the schedule is gone, or waits to be.
LEMMA GoneFollows ==
    ASSUME NEW c, Sound(c), ~Due(c), NEW d, Kin(c, d), NEW e,
           e = Sends([d EXCEPT !.mode = "gone", !.state = @ \cap {"bug"}], Cmd, "unregister", 0)
    PROVE  Follows(c, e)
<1> DEFINE g == [d EXCEPT !.mode = "gone", !.state = d.state \cap {"bug"}]
<1>1. ShapeOK(d) /\ ~Due(d) /\ d.tree = 0 /\ d.class = c.class
      /\ DOMAIN d.in = DOMAIN c.in /\ DOMAIN d.out = DOMAIN c.out
  BY KinShape DEF Sound
<1>2. Follows(c, g)
  BY <1>1 DEF Follows, Sound, ShapeOK, Fields, Due
<1>3. e = Sends(g, Cmd, "unregister", 0)
  OBVIOUS
<1> HIDE DEF g
<1>4. Runs(g, e)
  BY <1>2, <1>3, SoundShape, SendsKin, KinRuns DEF Follows
<1> QED BY <1>2, <1>4 DEF Follows, Runs, SameFrame

\* Out of the schedule, a component may wait for its ports.
LEMMA WaitsFollows ==
    ASSUME NEW c, Sound(c), ~Due(c), NEW d, Kin(c, d)
    PROVE  Follows(c, [d EXCEPT !.mode = "terminating"])
<1>1. ShapeOK(d) /\ ~Due(d) /\ d.tree = 0 /\ d.class = c.class
      /\ DOMAIN d.in = DOMAIN c.in /\ DOMAIN d.out = DOMAIN c.out
  BY KinShape DEF Sound
<1> QED BY <1>1 DEF Follows, Sound, ShapeOK, Fields, Due

\* xa_mixer_destroy
LEMMA MixerDestroyFollows ==
    ASSUME NEW c, Sound(c), ~Due(c), NEW d, Kin(c, d)
    PROVE  Follows(c, MixerDestroy(d))
<1> DEFINE S == DOMAIN d.out
           b == FoldSet(LAMBDA j, e : OutDestroy(e, j), d, S)
           e == Sends([b EXCEPT !.mode = "gone", !.state = @ \cap {"bug"}], Cmd, "unregister", 0)
<1>1. Kin(d, b)
  BY KinShape, OutDestroyAllKin
<1>2. MixerDestroy(d) = e
  BY DEF MixerDestroy
<1> HIDE DEF b
<1>3. Kin(c, b)
  BY <1>1, KinKin
<1>4. Follows(c, e)
  BY <1>3, GoneFollows
<1> QED BY <1>2, <1>4

\* A handler may end in the component's end.
LEMMA RunsThenFollows ==
    ASSUME NEW c, NEW d, Runs(c, d), NEW e, Follows(d, e)
    PROVE  Follows(c, e)
BY DEF Follows, Runs, SameFrame

\* xa_mixer_cleanup, xa_mixer_terminate
LEMMA MixerCleanupFollows ==
    ASSUME NEW c, Sound(c), MixOut \in DOMAIN c.out
    PROVE  Follows(c, MixerCleanup(c))
<1> DEFINE d == Cancel(c)
           p == InPurgeAll(d)
           q == IF HasProbe(c) THEN OutFlush(p, Probe, "flush") ELSE p
           flush == OutFlush(q, MixOut, "flush")
<1>1. Runs(c, d) /\ Sound(d) /\ ~Due(d)
  BY CancelRuns
<1>2. MixerCleanup(c) = IF FlushOver(c, MixOut, "flush") THEN MixerDestroy(flush)
                        ELSE [flush EXCEPT !.mode = "terminating"]
  BY DEF MixerCleanup
<1> HIDE DEF d
<1>3. Kin(d, p) /\ DOMAIN d.out = DOMAIN c.out
  BY <1>1, SoundShape, InPurgeAllKin DEF Runs, SameFrame
<1> HIDE DEF p
<1>4. Kin(d, q)
  BY <1>3, KinShape, KinKin, OutFlushKin DEF HasProbe
<1> HIDE DEF q
<1>5. Kin(d, flush)
  BY <1>3, <1>4, KinShape, KinKin, OutFlushKin
<1> HIDE DEF flush
<1>6. Follows(d, MixerDestroy(flush)) /\ Follows(d, [flush EXCEPT !.mode = "terminating"])
  BY <1>1, <1>5, MixerDestroyFollows, WaitsFollows
<1> QED BY <1>1, <1>2, <1>6, RunsThenFollows

\* xa_mixer_terminate: only a component that is out of the schedule gets there.
LEMMA MixerTerminateFollows ==
    ASSUME NEW c, Sound(c), ~Due(c), NEW x
    PROVE  Follows(c, MixerTerminate(c, x))
<1>1. Kin(c, OutFlushDone(c, MixOut)) /\ Kin(c, c)
  BY SoundShape, OutFlushDoneKin, KinSelf
<1>2. Follows(c, MixerDestroy(OutFlushDone(c, MixOut)))
  BY <1>1, MixerDestroyFollows
<1>3. \A len : Follows(c, Answer(c, x, len))
  BY SoundShape, AnswerKin, KinRuns, RunsFollows
<1>4. Follows(c, c)
  BY <1>1, KinRuns, RunsFollows
<1> QED BY <1>2, <1>3, <1>4 DEF MixerTerminate

-----------------------------------------------------------------------------
(* The MIMO class: commands.                                               *)

\* The plugin is told of a port, or learns that it is gone.
LEMMA TellsKin ==
    ASSUME NEW c, ShapeOK(c), NEW what, NEW p
    PROVE  Kin(c, Tells(c, what, p)) /\ Kin(c, Untells(c, what, p))
<1> DEFINE g == [c.plugin EXCEPT ![what] = c.plugin[what] \cup {p}]
           h == [c.plugin EXCEPT ![what] = c.plugin[what] \ {p}]
<1>1. Tells(c, what, p) = [c EXCEPT !.plugin = g] /\ Untells(c, what, p) = [c EXCEPT !.plugin = h]
  BY DEF Tells, Untells
<1> HIDE DEF g, h
<1> QED BY <1>1, PluginKin

\* Once every output is flushed, the inputs are over.
LEMMA MimoCollectKin ==
    ASSUME NEW c, ShapeOK(c)
    PROVE  Kin(c, MimoCollect(c))
BY InPurgeAllKin, KinSelf DEF MimoCollect

MimoOK(c) == Sound(c) /\ c.mode = "running" /\ DOMAIN c.in \subseteq Int

\* A MIMO component's kin is one.
LEMMA KinMimo ==
    ASSUME NEW c, MimoOK(c), NEW d, Kin(c, d)
    PROVE  Runs(c, d) /\ MimoOK(d)
BY KinRuns DEF MimoOK, Runs, SameFrame

\* xa_mimo_proc_empty_this_buffer
LEMMA MimoEmptyRuns ==
    ASSUME NEW c, MimoOK(c), ~Due(c), NEW x
    PROVE  Runs(c, MimoEmpty(c, x))
<1> DEFINE i == x.port
           flag == IF x.len # 0 THEN InSet(c, i, {"recvd"}) ELSE InClear(c, i, {"recvd"})
           put == InPut(flag, i, x)
           live == MimoRestart(put)
           toggled == InToggle(live, i, {"idle", "active"})
           active == IF InHas(live, i, {"idle"}) THEN Tells(toggled, "connected", i) ELSE live
<1>1. Kin(c, flag)
  BY InFlagsKin DEF MimoOK, Sound
<1>2. MimoEmpty(c, x) = IF IsFirst(c, i) THEN ScheduleIf(active, MimoOutReady(active)) ELSE put
  BY DEF MimoEmpty
<1> HIDE DEF flag
<1>3. Kin(c, put)
  BY <1>1, KinShape, InPutKin, KinKin
<1> HIDE DEF put
<1>4. Kin(c, live)
  <2> DEFINE g == IF put.plugin.splits
                  THEN [put.plugin EXCEPT !.connected = {}, !.paused = {}, !.over = {}, !.done = FALSE]
                  ELSE put.plugin
             a == [put EXCEPT !.state = {"execution"}]
             b == [a EXCEPT !.plugin = g]
  <2>1. live = IF "completed" \notin put.state THEN put ELSE b
    <3>1. ShapeOK(put)
      BY <1>3, KinShape
    <3>2. live = IF "completed" \notin put.state THEN put
                 ELSE [put EXCEPT !.state = {"execution"}, !.plugin = g]
      BY DEF MimoRestart
    <3> HIDE DEF g
    <3>3. [put EXCEPT !.state = {"execution"}, !.plugin = g] = b
      BY <3>1 DEF ShapeOK, Fields
    <3> QED BY <3>2, <3>3
  <2>2. Kin(put, a)
    <3>1. "schedule" \in {"execution"} <=> Due(put)
      BY <1>3, KinShape
    <3> QED BY <1>3, <3>1, KinShape, StateKin
  <2> HIDE DEF a, g
  <2>3. Kin(put, b)
    BY <2>2, KinShape, KinKin, PluginKin
  <2> QED BY <1>3, <2>1, <2>3, KinKin
<1> HIDE DEF live
<1>5. Kin(c, toggled)
  BY <1>4, KinShape, KinKin, InFlagsKin
<1> HIDE DEF toggled
<1>6. Kin(c, active)
  BY <1>4, <1>5, KinShape, KinKin, TellsKin
<1> HIDE DEF active
<1> QED BY <1>2, <1>3, <1>6, KinRuns, ScheduleRuns DEF MimoOK

\* xa_mimo_proc_fill_this_buffer
LEMMA MimoControlBackRuns ==
    ASSUME NEW c, MimoOK(c), NEW x
    PROVE  Runs(c, MimoControlBack(c, x))
<1> DEFINE j == x.port
           a == OutFlushDone(c, j)
           b == OutSet(a, j, {"flush_done"})
           d == MimoCollect(b)
<1>1. Kin(c, a)
  BY SoundShape, OutFlushDoneKin DEF MimoOK
<1>2. MimoControlBack(c, x) = IF Unrouting(d, j) THEN UnrouteDone(d, j)
                              ELSE IF x.len = Invalid THEN OutUnroute(d, j) ELSE d
  BY DEF MimoControlBack
<1> HIDE DEF a
<1>3. Kin(c, b)
  BY <1>1, KinShape, KinKin, OutFlagsKin
<1> HIDE DEF b
<1>4. Kin(c, d)
  BY <1>3, KinShape, KinKin, MimoCollectKin
<1> HIDE DEF d
<1>5. Kin(c, UnrouteDone(d, j)) /\ Kin(c, OutUnroute(d, j))
  BY <1>4, KinShape, KinKin, UnrouteDoneKin, OutUnrouteKin
<1> QED BY <1>2, <1>4, <1>5, KinMimo

\* An output is taken from its sink.
LEMMA MimoApartKin ==
    ASSUME NEW c, ShapeOK(c), NEW j
    PROVE  Kin(c, MimoApart(c, j))
<1> DEFINE a == OutClear(c, j, {"setup", "to_sink"})
           b == Untells(a, "paused", j)
<1>1. Kin(c, a)
  BY OutFlagsKin
<1>2. MimoApart(c, j) = Untells(b, "connected", j)
  BY DEF MimoApart
<1> HIDE DEF a
<1>3. Kin(c, b)
  BY <1>1, KinShape, KinKin, TellsKin
<1> HIDE DEF b
<1> QED BY <1>2, <1>3, KinShape, KinKin, TellsKin

\* A buffer of a route that is being taken down comes back.
LEMMA MimoBouncedRuns ==
    ASSUME NEW c, MimoOK(c), NEW j \in DOMAIN c.out
    PROVE  Runs(c, MimoBounced(c, j))
<1> DEFINE b == Cancel(c)
           f == OutFlush(b, j, "fill")
           d == MimoApart(f, j)
           due == MimoOutReady(d) /\ (MimoInReady(d) \/ "runtime_init" \in c.state)
<1>1. Runs(c, b) /\ MimoOK(b) /\ DOMAIN b.out = DOMAIN c.out
  BY CancelRuns DEF MimoOK, Runs, SameFrame
<1>2. MimoBounced(c, j) = IF OutHas(c, j, {"flushing"}) THEN c ELSE ScheduleIf(d, due)
  BY DEF MimoBounced
<1> HIDE DEF b, due
<1>3. Kin(b, f)
  BY <1>1, SoundShape, OutFlushKin DEF MimoOK
<1> HIDE DEF f
<1>4. Kin(b, d)
  BY <1>3, KinShape, KinKin, MimoApartKin
<1> HIDE DEF d
<1>5. Runs(b, ScheduleIf(d, due))
  BY <1>1, <1>4, ScheduleRuns DEF MimoOK
<1>6. Runs(c, c)
  BY SoundShape, KinSelf, KinMimo DEF MimoOK
<1> QED BY <1>1, <1>2, <1>5, <1>6, RunsRuns

\* A buffer to be filled comes.
LEMMA MimoToFillRuns ==
    ASSUME NEW c, MimoOK(c), NEW x
    PROVE  Runs(c, MimoToFill(c, x))
<1> DEFINE j == x.port
           init == "runtime_init" \in c.state
           chk == Check(c, init => x.len = 0)
           put == OutPut(chk, j, x.msg)
           clear == OutClear(put, j, {"unstarted"})
           active == IF OutHas(put, j, {"unstarted"}) THEN OutSet(clear, j, {"active"}) ELSE put
           joins == ~OutHas(c, j, {"to_sink"}) /\ ~init /\ ~Unrouting(c, j)
           sets == OutSet(active, j, {"to_sink"})
           d == IF joins THEN Tells(sets, "connected", j) ELSE active
           due == MimoOutReady(d) /\ (MimoInReady(d) \/ init)
<1>1. Kin(c, chk)
  BY SoundShape, CheckKin DEF MimoOK
<1>2. MimoToFill(c, x) = IF OutEmpty(c, j) THEN ScheduleIf(d, due) ELSE put
  BY DEF MimoToFill
<1> HIDE DEF chk, init, joins, due
<1>3. Kin(c, put)
  BY <1>1, KinShape, KinKin, OutPutKin
<1> HIDE DEF put
<1>4. Kin(c, clear)
  BY <1>3, KinShape, KinKin, OutFlagsKin
<1> HIDE DEF clear
<1>5. Kin(c, active)
  BY <1>3, <1>4, KinShape, KinKin, OutFlagsKin
<1> HIDE DEF active
<1>6. Kin(c, sets)
  BY <1>5, KinShape, KinKin, OutFlagsKin
<1> HIDE DEF sets
<1>7. Kin(c, d)
  BY <1>5, <1>6, KinShape, KinKin, TellsKin
<1> HIDE DEF d
<1>8. Runs(c, ScheduleIf(d, due))
  BY <1>7, ScheduleRuns DEF MimoOK
<1> QED BY <1>2, <1>3, <1>8, KinMimo

\* xa_mimo_proc_fill_this_buffer: the flow-control message, a bounced buffer or one to be filled.
LEMMA MimoFillRuns ==
    ASSUME NEW c, MimoOK(c), NEW x, x.port \in DOMAIN c.out
    PROVE  Runs(c, MimoFill(c, x))
<1>1. Runs(c, Answer(c, x, 0))
  BY SoundShape, AnswerKin, KinMimo DEF MimoOK
<1> QED BY <1>1, MimoControlBackRuns, MimoBouncedRuns, MimoToFillRuns DEF MimoFill

\* xa_mimo_proc_port_route, xa_mimo_proc_port_unroute
LEMMA MimoRouteRuns ==
    ASSUME NEW c, MimoOK(c), NEW x
    PROVE  Runs(c, MimoRoute(c, x))
<1> DEFINE j == x.port
           a == Tells(c, "connected", j)
           b == OutRoute(a, j)
           d == OutSet(b, j, {"active", "to_sink"})
           due == MimoInReady(d) /\ MimoOutReady(d)
<1>1. Kin(c, a)
  BY SoundShape, TellsKin DEF MimoOK
<1>2. MimoRoute(c, x) = Answer(ScheduleIf(d, due), x, 0)
  BY DEF MimoRoute, MimoDue
<1> HIDE DEF a, due
<1>3. Kin(c, b)
  BY <1>1, KinShape, KinKin, OutRouteKin
<1> HIDE DEF b
<1>4. Kin(c, d)
  BY <1>3, KinShape, KinKin, OutFlagsKin
<1> HIDE DEF d
<1>5. Runs(c, ScheduleIf(d, due))
  BY <1>4, ScheduleRuns DEF MimoOK
<1> QED BY <1>2, <1>5, RunsAnswer

\* xa_mimo_proc_port_unroute
LEMMA MimoUnrouteRuns ==
    ASSUME NEW c, MimoOK(c), NEW x, x.port \in DOMAIN c.out
    PROVE  Runs(c, MimoUnroute(c, x))
<1> DEFINE j == x.port
           b == Cancel(c)
           a == MimoApart(b, j)
           flush == OutFlush(a, j, "flush")
           over == OutUnroute(flush, j)
           due == ScheduleIf(over, MimoOutReady(over))
           start == UnrouteStart(flush, j)
<1>1. Runs(c, b) /\ MimoOK(b) /\ DOMAIN b.out = DOMAIN c.out
  BY CancelRuns DEF MimoOK, Runs, SameFrame
<1>2. MimoUnroute(c, x) = IF ~Routed(c, j) THEN Answer(c, x, 0)
                          ELSE IF FlushOver(c, j, "flush") THEN Answer(due, x, 0) ELSE start
  BY DEF MimoUnroute
<1> HIDE DEF b
<1>3. Kin(b, a)
  BY <1>1, SoundShape, MimoApartKin DEF MimoOK
<1> HIDE DEF a
<1>4. Kin(b, flush)
  BY <1>1, <1>3, KinShape, KinKin, OutFlushKin
<1> HIDE DEF flush
<1>5. Kin(b, over) /\ Kin(b, start)
  BY <1>4, KinShape, KinKin, OutUnrouteKin, UnrouteStartKin
<1> HIDE DEF over, start
<1>6. Runs(b, due) /\ Runs(b, start)
  BY <1>1, <1>5, ScheduleRuns, KinMimo DEF MimoOK
<1> HIDE DEF due
<1>7. Runs(c, Answer(due, x, 0)) /\ Runs(c, start)
  BY <1>1, <1>6, RunsRuns, RunsAnswer
<1>8. Runs(c, Answer(c, x, 0))
  BY SoundShape, AnswerKin, KinMimo DEF MimoOK
<1> QED BY <1>2, <1>7, <1>8

\* xa_mimo_proc_flush
LEMMA MimoFlushInRuns ==
    ASSUME NEW c, MimoOK(c), NEW x, x.port \in DOMAIN c.in
    PROVE  Runs(c, MimoFlushIn(c, x))
<1> DEFINE i == x.port
           p == InPurge(c, i)
           d == InClear(p, i, {"active", "paused", "input_setup", "recvd"})
           s == InSet(d, i, {"idle"})
           u == Untells(s, "paused", i)
           e == Untells(u, "connected", i)
           due == MimoInReady(e) /\ MimoOutReady(e)
<1>1. Kin(c, p)
  BY SoundShape, InPurgeKin DEF MimoOK
<1>2. MimoFlushIn(c, x) =
        Answer(IF InHas(c, i, {"active", "paused"}) THEN ScheduleIf(e, due) ELSE c, x, x.len)
  BY DEF MimoFlushIn, MimoDue
<1> HIDE DEF p, due
<1>3. Kin(c, d)
  BY <1>1, KinShape, KinKin, InFlagsKin
<1> HIDE DEF d
<1>4. Kin(c, s)
  BY <1>3, KinShape, KinKin, InFlagsKin
<1> HIDE DEF s
<1>5. Kin(c, u)
  BY <1>4, KinShape, KinKin, TellsKin
<1> HIDE DEF u
<1>6. Kin(c, e)
  BY <1>5, KinShape, KinKin, TellsKin
<1> HIDE DEF e
<1>7. Runs(c, ScheduleIf(e, due)) /\ Runs(c, c)
  BY <1>6, SoundShape, KinSelf, ScheduleRuns, KinMimo DEF MimoOK
<1> QED BY <1>2, <1>7, RunsAnswer

\* The same at an output.
LEMMA MimoFlushOutRuns ==
    ASSUME NEW c, MimoOK(c), NEW x, x.port \in DOMAIN c.out
    PROVE  Runs(c, MimoFlushOut(c, x))
<1> DEFINE j == x.port
           s == ScheduleIf(c, MimoOutReady(c))
           due == OutSet(s, j, {"flush_done"})
           col == IF "completed" \in c.state THEN MimoCollect(due) ELSE due
           done == UnrouteDone(col, j)
           flush == OutFlush(c, j, "flush")
           own == Answer(flush, x, x.len)
           chk == Check(c, x.msg = Control(j))
           f == OutFlushDone(chk, j)
           back == OutSet(f, j, {"flush_done"})
           b == IF Routed(c, j) THEN back ELSE own
           m == MimoCollect(b)
<1>1. ShapeOK(c) /\ Kin(c, c) /\ MimoOK(c)
  BY SoundShape, KinSelf DEF MimoOK
<1>2. MimoFlushOut(c, x) = IF Unrouting(c, j) THEN done ELSE OutClear(m, j, {"paused", "setup"})
  BY DEF MimoFlushOut
<1>3. Runs(c, s) /\ MimoOK(s)
  BY <1>1, ScheduleRuns DEF MimoOK, Runs, SameFrame
<1> HIDE DEF s
<1>4. Kin(s, due)
  BY <1>3, SoundShape, OutFlagsKin DEF MimoOK
<1> HIDE DEF due
<1>5. Kin(s, col)
  BY <1>4, KinShape, KinKin, MimoCollectKin
<1> HIDE DEF col
<1>6. Kin(s, done)
  BY <1>5, KinShape, KinKin, UnrouteDoneKin
<1> HIDE DEF done
<1>7. Runs(c, done)
  BY <1>3, <1>6, KinMimo, RunsRuns
<1>8. Kin(c, flush) /\ Kin(c, chk)
  BY <1>1, OutFlushKin, CheckKin
<1> HIDE DEF flush, chk
<1>9. Kin(c, own) /\ Kin(c, f)
  BY <1>8, KinShape, KinKin, AnswerKin, OutFlushDoneKin
<1> HIDE DEF own, f
<1>10. Kin(c, back)
  BY <1>9, KinShape, KinKin, OutFlagsKin
<1> HIDE DEF back
<1>11. Kin(c, m)
  BY <1>9, <1>10, KinShape, KinKin, MimoCollectKin
<1> HIDE DEF m
<1>12. Kin(c, OutClear(m, j, {"paused", "setup"}))
  BY <1>11, KinShape, KinKin, OutFlagsKin
<1> QED BY <1>2, <1>7, <1>12, KinMimo

\* The same at any port.
LEMMA MimoFlushRuns ==
    ASSUME NEW c, MimoOK(c), NEW x, x.port \in DOMAIN c.in \cup DOMAIN c.out
    PROVE  Runs(c, MimoFlush(c, x))
BY MimoFlushInRuns, MimoFlushOutRuns DEF MimoFlush

\* xa_mimo_proc_port_pause, xa_mimo_proc_port_resume
LEMMA MimoPauseRuns ==
    ASSUME NEW c, MimoOK(c), NEW x
    PROVE  Runs(c, MimoPause(c, x)) /\ Runs(c, MimoResume(c, x))
<1> DEFINE p == x.port
           set == IF p \in DOMAIN c.in THEN InSet(c, p, {"paused"}) ELSE OutSet(c, p, {"paused"})
           clear == IF p \in DOMAIN c.in THEN InClear(c, p, {"paused"}) ELSE OutClear(c, p, {"paused"})
           d == Tells(set, "paused", p)
           e == Untells(clear, "paused", p)
           was == IF p \in DOMAIN c.in THEN InHas(c, p, {"paused"}) ELSE OutHas(c, p, {"paused"})
           can == "completed" \notin c.state /\ MimoPausable(c, p)
<1>1. ShapeOK(c) /\ Kin(c, c)
  BY SoundShape, KinSelf DEF MimoOK
<1>2. /\ MimoPause(c, x) = Answer(IF can /\ ~was THEN MimoDue(d) ELSE c, x, 0)
      /\ MimoResume(c, x) = Answer(IF can /\ was THEN MimoDue(e) ELSE c, x, 0)
  BY DEF MimoPause, MimoResume
<1>3. Kin(c, set) /\ Kin(c, clear)
  BY <1>1, InFlagsKin, OutFlagsKin
<1> HIDE DEF set, clear, was, can
<1>4. Kin(c, d) /\ Kin(c, e)
  BY <1>3, KinShape, KinKin, TellsKin
<1> HIDE DEF d, e
<1>5. Runs(c, MimoDue(d)) /\ Runs(c, MimoDue(e)) /\ Runs(c, c)
  BY <1>1, <1>4, ScheduleRuns, KinMimo DEF MimoOK, MimoDue
<1> QED BY <1>2, <1>5, RunsAnswer

-----------------------------------------------------------------------------
(* The MIMO class: processing.                                             *)

\* Outputs are set up one after another.
LEMMA OutputsSetupKin ==
    ASSUME NEW c, ShapeOK(c), NEW S, S \subseteq DOMAIN c.out
    PROVE  Kin(c, FoldSet(LAMBDA j, d : OutSet(OutSetup(d, j), j, {"setup"}), c, S))
<1> DEFINE k == [op |-> "setup"]
           it == CHOOSE f : f = [s \in SUBSET S |-> IF s = {} THEN c
                                   ELSE OutSet(OutSetup(f[s \ {CHOOSE x \in s : TRUE}], CHOOSE x \in s : TRUE), CHOOSE x \in s : TRUE, {"setup"})]
<1>1. FoldSet(LAMBDA j, d : OutSet(OutSetup(d, j), j, {"setup"}), c, S) = it[S]
  BY DEF FoldSet, MapThenFoldSet
<1>2. Takes(k, S) /\ \A s : Chosen(k, s) = CHOOSE x \in s : TRUE
  BY FS_Subset, TakesAny DEF ShapeOK
<1>3. \A j, d : Turn(k, j, d) = OutSet(OutSetup(d, j), j, {"setup"})
  BY DEF Turn
<1>4. \A j \in S : \A d : Kin(c, d) => Kin(c, OutSet(OutSetup(d, j), j, {"setup"}))
  BY KinShape, KinKin, OutSetupKin, OutFlagsKin
<1> HIDE DEF k
<1>5. PICK f : Evaluates(k, S, c, f)
  BY <1>2, FoldExists
<1>6. f = [s \in SUBSET S |-> IF s = {} THEN c
             ELSE OutSet(OutSetup(f[s \ {CHOOSE x \in s : TRUE}], CHOOSE x \in s : TRUE), CHOOSE x \in s : TRUE, {"setup"})]
  BY <1>2, <1>3, <1>5 DEF Others, Evaluates
<1>7. it = [s \in SUBSET S |-> IF s = {} THEN c
             ELSE OutSet(OutSetup(it[s \ {CHOOSE x \in s : TRUE}], CHOOSE x \in s : TRUE), CHOOSE x \in s : TRUE, {"setup"})]
  BY <1>6
<1> HIDE DEF it
<1>8. Evaluates(k, S, c, it)
  BY <1>2, <1>3, <1>7 DEF Others, Evaluates
<1>9. Kin(c, it[S])
  BY <1>2, <1>3, <1>4, <1>8, FoldKin
<1> QED BY <1>1, <1>9

\* xa_mimo_proc_preprocess, for one input.
LEMMA MimoInputKin ==
    ASSUME NEW c, ShapeOK(c), NEW i \in DOMAIN c.in
    PROVE  Kin(c, MimoInput(c, i))
<1> DEFINE f == IF InDone(c, i) THEN c ELSE InFill(c, i)
           full == f.in[i].filled > 0
           over == IF InDone(f, i) THEN Tells(f, "over", i) ELSE f
           told == IF full THEN Tells(over, "holds", i) ELSE Untells(over, "holds", i)
<1>1. Kin(c, f)
  BY InFillKin, KinSelf
<1>2. MimoInput(c, i) = IF ~InDone(f, i) /\ ~full /\ ~InHas(c, i, {"paused"}) THEN f
                        ELSE InSet(told, i, {"input_setup"})
  BY DEF MimoInput
<1> HIDE DEF f, full
<1>3. Kin(c, over)
  BY <1>1, KinShape, KinKin, TellsKin
<1> HIDE DEF over
<1>4. Kin(c, told)
  BY <1>3, KinShape, KinKin, TellsKin
<1> HIDE DEF told
<1>5. Kin(c, InSet(told, i, {"input_setup"}))
  BY <1>4, KinShape, KinKin, InFlagsKin
<1> QED BY <1>1, <1>2, <1>5

\* The same for the inputs one after another.
LEMMA InputsKin ==
    ASSUME NEW c, ShapeOK(c), NEW S, S \subseteq DOMAIN c.in
    PROVE  Kin(c, FoldSet(LAMBDA i, d : MimoInput(d, i), c, S))
<1> DEFINE k == [op |-> "input"]
           it == CHOOSE f : f = [s \in SUBSET S |-> IF s = {} THEN c
                                   ELSE MimoInput(f[s \ {CHOOSE x \in s : TRUE}], CHOOSE x \in s : TRUE)]
<1>1. FoldSet(LAMBDA i, d : MimoInput(d, i), c, S) = it[S]
  BY DEF FoldSet, MapThenFoldSet
<1>2. Takes(k, S) /\ \A s : Chosen(k, s) = CHOOSE x \in s : TRUE
  BY FS_Subset, TakesAny DEF ShapeOK
<1>3. \A i, d : Turn(k, i, d) = MimoInput(d, i)
  BY DEF Turn
<1>4. \A i \in S : \A d : Kin(c, d) => Kin(c, MimoInput(d, i))
  BY KinShape, KinKin, MimoInputKin
<1> HIDE DEF k
<1>5. PICK f : Evaluates(k, S, c, f)
  BY <1>2, FoldExists
<1>6. f = [s \in SUBSET S |-> IF s = {} THEN c
             ELSE MimoInput(f[s \ {CHOOSE x \in s : TRUE}], CHOOSE x \in s : TRUE)]
  BY <1>2, <1>3, <1>5 DEF Others, Evaluates
<1>7. it = [s \in SUBSET S |-> IF s = {} THEN c
             ELSE MimoInput(it[s \ {CHOOSE x \in s : TRUE}], CHOOSE x \in s : TRUE)]
  BY <1>6
<1> HIDE DEF it
<1>8. Evaluates(k, S, c, it)
  BY <1>2, <1>3, <1>7 DEF Others, Evaluates
<1>9. Kin(c, it[S])
  BY <1>2, <1>3, <1>4, <1>8, FoldKin
<1> QED BY <1>1, <1>9

\* xa_mimo_proc_preprocess
LEMMA MimoPreprocessKin ==
    ASSUME NEW c, ShapeOK(c)
    PROVE  Kin(c, MimoPreprocess(c).c)
<1> DEFINE got == {j \in ToSetup(c) : \A k \in ToSetup(c) : k <= j => ~OutEmpty(c, k)}
           o == FoldSet(LAMBDA j, d : OutSet(OutSetup(d, j), j, {"setup"}), c, got)
           todo == {i \in DOMAIN c.in : InHas(c, i, {"active"}) /\ ~InHas(c, i, {"input_setup"})}
           all == FoldSet(LAMBDA i, b : MimoInput(b, i), o, todo)
           waiting == {i \in todo : ~InHas(all, i, {"input_setup"})}
           init == \E j \in DOMAIN c.out : OutHas(c, j, {"active"})
           ok == /\ \E i \in DOMAIN c.in : InHas(c, i, {"active"})
                 /\ Cardinality(waiting) < Cardinality(MimoActive(c))
<1>1. MimoPreprocess(c) = IF "runtime_init" \in c.state THEN [c |-> c, ok |-> init]
                          ELSE IF \E j \in ToSetup(c) : OutEmpty(c, j) THEN [c |-> o, ok |-> FALSE]
                          ELSE [c |-> all, ok |-> ok]
  BY DEF MimoPreprocess, MimoOutputs
<1> HIDE DEF init, ok
<1>2. got \subseteq DOMAIN c.out /\ todo \subseteq DOMAIN c.in
  BY DEF ToSetup, Taking, Feeding
<1> HIDE DEF got, todo
<1>3. Kin(c, o)
  BY <1>2, OutputsSetupKin
<1> HIDE DEF o
<1>4. ShapeOK(o) /\ todo \subseteq DOMAIN o.in
  BY <1>2, <1>3, KinShape
<1>5. Kin(o, all)
  BY <1>4, InputsKin
<1> HIDE DEF all
<1> QED BY <1>1, <1>3, <1>5, KinKin, KinSelf

\* The plugin runs.
LEMMA MimoExecuteKin ==
    ASSUME NEW c, ShapeOK(c)
    PROVE  Kin(c, MimoExecute(c).c)
<1> DEFINE g == c.plugin
           own == \A j \in DOMAIN c.out : ~OutEmpty(c, j) /\ c.out[j].ptr = Head(c.out[j].q)
           over == DOMAIN c.in \subseteq g.over
           chk == Check(c, g.holds # {} => own)
           x == [chk.plugin EXCEPT !.used = g.holds, !.holds = {}, !.done = chk.plugin.done \/ over]
           y == [g EXCEPT !.used = {}]
           ran == [chk EXCEPT !.plugin = x]
           rest == [c EXCEPT !.plugin = y]
           d == IF MimoRuns(c) THEN ran ELSE rest
           done == [d EXCEPT !.state = Toggled(d.state, {"execution", "completed"})]
           init == [c EXCEPT !.state = Toggled(c.state, {"runtime_init", "execution"})]
<1>1. MimoExecute(c) =
        IF "runtime_init" \in c.state THEN [c |-> init, done |-> TRUE]
        ELSE IF "execution" \in c.state
        THEN [c |-> IF d.plugin.done THEN done ELSE d, done |-> d.plugin.done]
        ELSE [c |-> c, done |-> FALSE]
  <2>1. [chk EXCEPT !.plugin.used = g.holds, !.plugin.holds = {}, !.plugin.done = @ \/ over] = ran
    <3> HIDE DEF chk, over
    <3> QED OBVIOUS
  <2>2. [c EXCEPT !.plugin.used = {}] = rest
    OBVIOUS
  <2> QED BY <2>1, <2>2 DEF MimoExecute
<1>2. Kin(c, chk)
  BY CheckKin
<1> HIDE DEF chk, x, y
<1>3. Kin(c, ran) /\ Kin(c, rest)
  BY <1>2, KinShape, KinKin, PluginKin
<1> HIDE DEF ran, rest
<1>4. Kin(c, d)
  BY <1>3
<1> HIDE DEF d
<1>5. Kin(d, done)
  <2>1. "schedule" \in Toggled(d.state, {"execution", "completed"}) <=> Due(d)
    BY DEF Toggled, Due
  <2> QED BY <1>4, <2>1, KinShape, StateKin
<1> HIDE DEF done
<1>6. Kin(c, init)
  <2>1. "schedule" \in Toggled(c.state, {"runtime_init", "execution"}) <=> Due(c)
    BY DEF Toggled, Due
  <2> QED BY <2>1, StateKin
<1> HIDE DEF init
<1>7. Kin(c, done)
  BY <1>4, <1>5, KinKin
<1> QED BY <1>1, <1>4, <1>6, <1>7, KinSelf

\* xa_mimo_proc_postprocess, for one port.
LEMMA MimoConsumedKin ==
    ASSUME NEW c, ShapeOK(c), NEW i \in DOMAIN c.in, NEW done
    PROVE  Kin(c, MimoConsumed(c, i, done))
<1> DEFINE used == i \in c.plugin.used
           e == IF used THEN InConsume(c, i) ELSE c
           f == IF used \/ e.in[i].filled # Frame THEN InClear(e, i, {"input_setup"}) ELSE e
           t == InToggle(f, i, {"active", "idle"})
           idle == Untells(t, "connected", i)
<1>1. MimoConsumed(c, i, done) = IF ~InHas(c, i, {"active"}) THEN c
                                 ELSE IF ~InDone(f, i) \/ f.in[i].filled # 0 THEN f
                                 ELSE IF MimoActive(idle) # {} \/ ~done THEN InPurge(idle, i) ELSE idle
  BY DEF MimoConsumed
<1>2. Kin(c, e)
  BY InConsumeKin, KinSelf
<1> HIDE DEF used, e
<1>3. Kin(c, f)
  BY <1>2, KinShape, KinKin, InFlagsKin
<1> HIDE DEF f
<1>4. Kin(c, t)
  BY <1>3, KinShape, KinKin, InFlagsKin
<1> HIDE DEF t
<1>5. Kin(c, idle)
  BY <1>4, KinShape, KinKin, TellsKin
<1> HIDE DEF idle
<1>6. Kin(c, InPurge(idle, i))
  BY <1>5, KinShape, KinKin, InPurgeKin
<1> QED BY <1>1, <1>3, <1>5, <1>6, KinSelf

\* The same at an output.
LEMMA MimoProducedKin ==
    ASSUME NEW c, ShapeOK(c), NEW j
    PROVE  Kin(c, MimoProduced(c, j))
<1>1. Kin(c, OutProduce(c, j, 1))
  BY OutProduceKin
<1>2. Kin(c, OutClear(OutProduce(c, j, 1), j, {"setup", "flush_done"}))
  BY <1>1, KinShape, KinKin, OutFlagsKin
<1> QED BY <1>2, KinSelf DEF MimoProduced

\* xa_mimo_proc_prepare_runtime, for one output.
LEMMA MimoTellKin ==
    ASSUME NEW c, ShapeOK(c), NEW j \in DOMAIN c.out
    PROVE  Kin(c, MimoTell(c, j))
<1> DEFINE q == c.out[j].q
           s == Sends(c, Head(q), "fill", 1)
           r == [s.out[j] EXCEPT !.q = Tail(s.out[j].q)]
           told == [s EXCEPT !.out[j] = r]
           a == IF q = <<>> THEN c ELSE told
           b == OutClear(a, j, {"to_sink"})
<1>1. MimoTell(c, j) = Untells(b, "connected", j)
  <2>1. [s EXCEPT !.out[j].q = Tail(@)] = told
    OBVIOUS
  <2> QED BY <2>1 DEF MimoTell, OutEmpty
<1>2. Kin(c, s) /\ s.out = c.out
  BY SendsKin DEF Sends, ShapeOK, Fields
<1>3. IsSeq(q)
  BY DEF ShapeOK
<1>4. s.out[j].q = q /\ ShapeOK(s) /\ j \in DOMAIN s.out
  BY <1>2, KinShape
<1> HIDE DEF s, q
<1>5. q # <<>> => DOMAIN r = {"q", "flags", "ptr"} /\ IsSeq(r.q)
  BY <1>3, <1>4, SeqFacts DEF ShapeOK
<1> HIDE DEF r
<1>6. q # <<>> => Kin(s, told)
  BY <1>4, <1>5, OutKin
<1> HIDE DEF told
<1>7. Kin(c, a)
  BY <1>2, <1>6, KinKin, KinSelf
<1> HIDE DEF a
<1>8. Kin(c, b)
  BY <1>7, KinShape, KinKin, OutFlagsKin
<1> HIDE DEF b
<1> QED BY <1>1, <1>8, KinShape, KinKin, TellsKin

\* The end of the stream, passed on through one output.
LEMMA MimoFlushOneKin ==
    ASSUME NEW c, ShapeOK(c), NEW j \in DOMAIN c.out, NEW op
    PROVE  Kin(c, MimoFlushOne(c, j, op))
<1>1. Kin(c, OutFlush(c, j, op))
  BY OutFlushKin
<1>2. Kin(c, OutSet(OutFlush(c, j, op), j, {"flush_done"}))
  BY <1>1, KinShape, KinKin, OutFlagsKin
<1> QED BY <1>1, <1>2 DEF MimoFlushOne

\* The outputs one after another: what was produced is sent.
LEMMA OutputsProducedKin ==
    ASSUME NEW c, ShapeOK(c), NEW S, S \subseteq DOMAIN c.out
    PROVE  Kin(c, FoldSet(LAMBDA j, d : MimoProduced(d, j), c, S))
<1> DEFINE k == [op |-> "produce"]
           it == CHOOSE f : f = [s \in SUBSET S |-> IF s = {} THEN c
                                   ELSE MimoProduced(f[s \ {CHOOSE x \in s : TRUE}], CHOOSE x \in s : TRUE)]
<1>1. FoldSet(LAMBDA j, d : MimoProduced(d, j), c, S) = it[S]
  BY DEF FoldSet, MapThenFoldSet
<1>2. Takes(k, S) /\ \A s : Chosen(k, s) = CHOOSE x \in s : TRUE
  BY FS_Subset, TakesAny DEF ShapeOK
<1>3. \A j, d : Turn(k, j, d) = MimoProduced(d, j)
  BY DEF Turn
<1>4. \A j \in S : \A d : Kin(c, d) => Kin(c, MimoProduced(d, j))
  BY KinShape, KinKin, MimoProducedKin
<1> HIDE DEF k
<1>5. PICK f : Evaluates(k, S, c, f)
  BY <1>2, FoldExists
<1>6. f = [s \in SUBSET S |-> IF s = {} THEN c
             ELSE MimoProduced(f[s \ {CHOOSE x \in s : TRUE}], CHOOSE x \in s : TRUE)]
  BY <1>2, <1>3, <1>5 DEF Others, Evaluates
<1>7. it = [s \in SUBSET S |-> IF s = {} THEN c
             ELSE MimoProduced(it[s \ {CHOOSE x \in s : TRUE}], CHOOSE x \in s : TRUE)]
  BY <1>6
<1> HIDE DEF it
<1>8. Evaluates(k, S, c, it)
  BY <1>2, <1>3, <1>7 DEF Others, Evaluates
<1>9. Kin(c, it[S])
  BY <1>2, <1>3, <1>4, <1>8, FoldKin
<1> QED BY <1>1, <1>9

\* The outputs one after another: the next component is told the format.
LEMMA OutputsTellKin ==
    ASSUME NEW c, ShapeOK(c), NEW S, S \subseteq DOMAIN c.out
    PROVE  Kin(c, FoldSet(LAMBDA j, d : MimoTell(d, j), c, S))
<1> DEFINE k == [op |-> "tell"]
           it == CHOOSE f : f = [s \in SUBSET S |-> IF s = {} THEN c
                                   ELSE MimoTell(f[s \ {CHOOSE x \in s : TRUE}], CHOOSE x \in s : TRUE)]
<1>1. FoldSet(LAMBDA j, d : MimoTell(d, j), c, S) = it[S]
  BY DEF FoldSet, MapThenFoldSet
<1>2. Takes(k, S) /\ \A s : Chosen(k, s) = CHOOSE x \in s : TRUE
  BY FS_Subset, TakesAny DEF ShapeOK
<1>3. \A j, d : Turn(k, j, d) = MimoTell(d, j)
  BY DEF Turn
<1>4. \A j \in S : \A d : Kin(c, d) => Kin(c, MimoTell(d, j))
  BY KinShape, KinKin, MimoTellKin
<1> HIDE DEF k
<1>5. PICK f : Evaluates(k, S, c, f)
  BY <1>2, FoldExists
<1>6. f = [s \in SUBSET S |-> IF s = {} THEN c
             ELSE MimoTell(f[s \ {CHOOSE x \in s : TRUE}], CHOOSE x \in s : TRUE)]
  BY <1>2, <1>3, <1>5 DEF Others, Evaluates
<1>7. it = [s \in SUBSET S |-> IF s = {} THEN c
             ELSE MimoTell(it[s \ {CHOOSE x \in s : TRUE}], CHOOSE x \in s : TRUE)]
  BY <1>6
<1> HIDE DEF it
<1>8. Evaluates(k, S, c, it)
  BY <1>2, <1>3, <1>7 DEF Others, Evaluates
<1>9. Kin(c, it[S])
  BY <1>2, <1>3, <1>4, <1>8, FoldKin
<1> QED BY <1>1, <1>9

\* Several outputs are flushed.
FlushEach(c, S, op) == FoldSet(LAMBDA j, d : MimoFlushOne(d, j, op), c, S)
\* The outputs one after another: the end of the stream is passed on.
LEMMA OutputsFlushKin ==
    ASSUME NEW c, ShapeOK(c), NEW S, S \subseteq DOMAIN c.out, NEW op
    PROVE  Kin(c, FlushEach(c, S, op))
<1> DEFINE k == [op |-> "flush", by |-> op]
           it == CHOOSE f : f = [s \in SUBSET S |-> IF s = {} THEN c
                                   ELSE MimoFlushOne(f[s \ {CHOOSE x \in s : TRUE}], CHOOSE x \in s : TRUE, op)]
<1>1. FlushEach(c, S, op) = it[S]
  BY DEF FlushEach, FoldSet, MapThenFoldSet
<1>2. Takes(k, S) /\ \A s : Chosen(k, s) = CHOOSE x \in s : TRUE
  BY FS_Subset, TakesAny DEF ShapeOK
<1>3. \A j, d : Turn(k, j, d) = MimoFlushOne(d, j, op)
  BY DEF Turn
<1>4. \A j \in S : \A d : Kin(c, d) => Kin(c, MimoFlushOne(d, j, op))
  BY KinShape, KinKin, MimoFlushOneKin
<1> HIDE DEF k
<1>5. PICK f : Evaluates(k, S, c, f)
  BY <1>2, FoldExists
<1>10. \A g : \A s \in SUBSET S : Turn(k, Chosen(k, s), g[Others(k, s)])
             = MimoFlushOne(g[s \ {CHOOSE x \in s : TRUE}], CHOOSE x \in s : TRUE, op)
  BY <1>2, <1>3 DEF Others
<1>6. f = [s \in SUBSET S |-> IF s = {} THEN c
             ELSE MimoFlushOne(f[s \ {CHOOSE x \in s : TRUE}], CHOOSE x \in s : TRUE, op)]
  BY <1>5, <1>10 DEF Evaluates
<1>7. it = [s \in SUBSET S |-> IF s = {} THEN c
             ELSE MimoFlushOne(it[s \ {CHOOSE x \in s : TRUE}], CHOOSE x \in s : TRUE, op)]
  BY <1>6
<1> HIDE DEF it
<1>8. Evaluates(k, S, c, it)
  BY <1>7, <1>10 DEF Evaluates
<1>9. Kin(c, it[S])
  BY <1>2, <1>3, <1>4, <1>8, FoldKin
<1> QED BY <1>1, <1>9

\* A finite set of integers has a greatest element.
LEMMA TakesMax ==
    ASSUME NEW k, k.op \in {"consume", "select"}, NEW S, IsFiniteSet(S), S \subseteq Int
    PROVE  /\ Takes(k, S)
           /\ \A s : Chosen(k, s) = Max(s)
<1> DEFINE a == [op |-> "purge"]
           G == {s \in SUBSET S : s # {} => \E m \in s : \A y \in s : m >= y}
<1>1. ASSUME NEW T \in SUBSET S PROVE T # {} => \E m \in T : \A y \in T : m >= y
  <2> DEFINE H == {s \in SUBSET T : s # {} => \E m \in s : \A y \in s : m >= y}
  <2>1. Takes(a, T)
    BY FS_Subset, TakesAny
  <2>2. {} \in H
    OBVIOUS
  <2>3. ASSUME NEW s \in SUBSET T, s # {}, Others(a, s) \in H PROVE s \in H
    <3>1. Chosen(a, s) \in s /\ Others(a, s) = s \ {Chosen(a, s)}
      BY <2>1, <2>3, OthersFacts DEF Others
    <3> DEFINE x == Chosen(a, s)
    <3> HIDE DEF x, a
    <3>2. CASE Others(a, s) = {}
      <4>1. \A y \in s : x >= y
        BY <3>1, <3>2 DEF x
      <4> QED BY <3>1, <4>1 DEF x
    <3>3. CASE Others(a, s) # {}
      <4>1. PICK m \in Others(a, s) : \A y \in Others(a, s) : m >= y
        BY <2>3, <3>3
      <4>2. m \in s /\ m \in Int /\ x \in s /\ x \in Int /\ \A y \in s : y \in Int /\ (y = x \/ m >= y)
        BY <3>1, <4>1 DEF x
      <4>3. CASE x >= m
        BY <4>2, <4>3
      <4>4. CASE ~(x >= m)
        BY <4>2, <4>4
      <4> QED BY <4>3, <4>4
    <3> QED BY <3>2, <3>3
  <2> HIDE DEF H, a
  <2>4. T \in H
    BY <2>1, <2>2, <2>3, FoldInduction
  <2> QED BY <2>4 DEF H
<1>2. \A s : Chosen(k, s) = Max(s)
  BY DEF Chosen
<1>3. \A s \in SUBSET S : s # {} => Max(s) \in s
  BY <1>1 DEF Max
<1> QED BY <1>2, <1>3 DEF Takes

\* What the plugin used of every input is consumed, the greatest port first.
ConsumeEach(c, done) ==
    MapThenFoldSet(LAMBDA i, d : MimoConsumed(d, i, done), c, LAMBDA i : i, Max, DOMAIN c.in)
\* The inputs, from the first to the last, give back what is consumed.
LEMMA InputsConsumedKin ==
    ASSUME NEW c, ShapeOK(c), DOMAIN c.in \subseteq Int, NEW done
    PROVE  Kin(c, ConsumeEach(c, done))
<1> DEFINE k == [op |-> "consume", done |-> done]
           S == DOMAIN c.in
           it == CHOOSE f : f = [s \in SUBSET S |-> IF s = {} THEN c
                                   ELSE MimoConsumed(f[s \ {Max(s)}], Max(s), done)]
<1>1. ConsumeEach(c, done) = it[S]
  BY DEF ConsumeEach, MapThenFoldSet
<1>2. Takes(k, S) /\ \A s : Chosen(k, s) = Max(s)
  BY TakesMax DEF ShapeOK
<1>3. \A i, d : Turn(k, i, d) = MimoConsumed(d, i, done)
  BY DEF Turn
<1>4. \A i \in S : \A d : Kin(c, d) => Kin(c, MimoConsumed(d, i, done))
  BY KinShape, KinKin, MimoConsumedKin
<1> HIDE DEF k, S
<1>5. PICK f : Evaluates(k, S, c, f)
  BY <1>2, FoldExists
<1>10. \A g : \A s \in SUBSET S : Turn(k, Chosen(k, s), g[Others(k, s)])
             = MimoConsumed(g[s \ {Max(s)}], Max(s), done)
  BY <1>2, <1>3 DEF Others
<1>6. f = [s \in SUBSET S |-> IF s = {} THEN c ELSE MimoConsumed(f[s \ {Max(s)}], Max(s), done)]
  BY <1>5, <1>10 DEF Evaluates
<1>7. it = [s \in SUBSET S |-> IF s = {} THEN c ELSE MimoConsumed(it[s \ {Max(s)}], Max(s), done)]
  BY <1>6
<1> HIDE DEF it
<1>8. Evaluates(k, S, c, it)
  BY <1>7, <1>10 DEF Evaluates
<1>9. Kin(c, it[S])
  BY <1>2, <1>3, <1>4, <1>8, FoldKin
<1> QED BY <1>1, <1>9

\* xa_mimo_proc_postprocess
LEMMA MimoStartedKin ==
    ASSUME NEW c, ShapeOK(c)
    PROVE  Kin(c, MimoStarted(c))
<1> DEFINE first == CHOOSE j \in DOMAIN c.out : \A k \in DOMAIN c.out : j <= k
           chk == Check(c, ~OutEmpty(c, first))
           all == FoldSet(LAMBDA j, d : MimoTell(d, j), chk, DOMAIN c.out)
<1>1. Kin(c, chk)
  BY CheckKin
<1>2. MimoStarted(c) = all
  BY DEF MimoStarted
<1> HIDE DEF chk
<1>3. ShapeOK(chk) /\ DOMAIN c.out \subseteq DOMAIN chk.out
  BY <1>1, KinShape
<1>4. Kin(chk, all)
  BY <1>3, OutputsTellKin
<1> HIDE DEF all
<1> QED BY <1>1, <1>2, <1>4, KinKin

\* The stream is over at all inputs.
LEMMA MimoOverKin ==
    ASSUME NEW c, ShapeOK(c)
    PROVE  Kin(c, MimoOver(c))
<1> DEFINE all == FlushEach(c, DOMAIN c.out, "fill")
<1>1. MimoOver(c) = MimoCollect(all)
  BY DEF MimoOver, FlushEach
<1>2. Kin(c, all)
  BY OutputsFlushKin
<1> HIDE DEF all
<1> QED BY <1>1, <1>2, KinShape, KinKin, MimoCollectKin

\* xa_mimo_proc_postprocess, with its calls of xa_base_schedule.
LEMMA MimoPostprocessRuns ==
    ASSUME NEW c, MimoOK(c), NEW d, Kin(c, d), NEW done
    PROVE  Runs(c, MimoPostprocess(d, done))
<1> DEFINE inputs == ConsumeEach(d, done)
           p == FoldSet(LAMBDA j, b : MimoProduced(b, j), inputs, DOMAIN d.out)
           due == MimoInReady(p) /\ MimoOutReady(p) /\ d.plugin.used # {}
<1>1. MimoPostprocess(d, done) = IF done /\ "execution" \in d.state THEN MimoStarted(d)
                                 ELSE IF done THEN MimoOver(p) ELSE ScheduleIf(p, due)
  BY DEF MimoPostprocess, ConsumeEach
<1>2. ShapeOK(d) /\ DOMAIN d.in \subseteq Int
  BY KinMimo, KinShape DEF MimoOK
<1>3. Kin(d, inputs)
  BY <1>2, InputsConsumedKin
<1> HIDE DEF inputs
<1>4. ShapeOK(inputs) /\ DOMAIN d.out \subseteq DOMAIN inputs.out
  BY <1>3, KinShape
<1>5. Kin(inputs, p)
  BY <1>4, OutputsProducedKin
<1> HIDE DEF p, due
<1>6. Kin(c, p)
  BY <1>3, <1>5, KinKin
<1>7. Kin(c, MimoStarted(d)) /\ Kin(c, MimoOver(p))
  BY <1>2, <1>6, KinShape, KinKin, MimoStartedKin, MimoOverKin
<1> QED BY <1>1, <1>6, <1>7, KinMimo, ScheduleRuns DEF MimoOK

\* xa_mimo_proc_process
LEMMA MimoProcessRuns ==
    ASSUME NEW c, MimoOK(c)
    PROVE  Runs(c, MimoProcess(c))
<1> DEFINE pre == MimoPreprocess(c)
           e == MimoExecute(pre.c)
<1>1. MimoProcess(c) = IF pre.ok THEN MimoPostprocess(e.c, e.done) ELSE pre.c
  BY DEF MimoProcess
<1>2. Kin(c, pre.c)
  BY SoundShape, MimoPreprocessKin DEF MimoOK
<1> HIDE DEF pre
<1>3. Kin(c, e.c)
  BY <1>2, KinShape, KinKin, MimoExecuteKin
<1> HIDE DEF e
<1> QED BY <1>1, <1>2, <1>3, KinMimo, MimoPostprocessRuns

-----------------------------------------------------------------------------
(* The MIMO class: deletion.                                               *)

\* xa_mimo_proc_destroy
LEMMA MimoDestroyFollows ==
    ASSUME NEW c, Sound(c), ~Due(c), NEW d, Kin(c, d)
    PROVE  Follows(c, MimoDestroy(d))
<1> DEFINE e == FoldSet(LAMBDA j, b : OutDestroy(b, j), d, DOMAIN d.out)
           g == [e EXCEPT !.mode = "gone", !.state = e.state \cap {"bug"}]
<1>1. MimoDestroy(d) = Sends(g, Cmd, "unregister", 0)
  BY DEF MimoDestroy
<1>2. Kin(c, e)
  BY KinShape, KinKin, OutDestroyAllKin
<1> HIDE DEF e
<1>3. Follows(c, Sends(g, Cmd, "unregister", 0))
  BY <1>2, GoneFollows
<1> QED BY <1>1, <1>3

\* xa_mimo_proc_cleanup
LEMMA MimoCleanupFollows ==
    ASSUME NEW c, Sound(c)
    PROVE  Follows(c, MimoCleanup(c))
<1> DEFINE d == Cancel(c)
           p == InPurgeAll(d)
           q == FlushEach(p, DOMAIN c.out, "flush")
<1>1. Runs(c, d) /\ Sound(d) /\ ~Due(d)
  BY CancelRuns
<1>2. MimoCleanup(c) = IF MimoFlushed(q) THEN MimoDestroy(q) ELSE [q EXCEPT !.mode = "terminating"]
  BY DEF MimoCleanup, FlushEach
<1> HIDE DEF d
<1>3. Kin(d, p) /\ DOMAIN d.out = DOMAIN c.out
  BY <1>1, SoundShape, InPurgeAllKin DEF Runs, SameFrame
<1> HIDE DEF p
<1>4. ShapeOK(p) /\ DOMAIN c.out \subseteq DOMAIN p.out
  BY <1>3, KinShape
<1>5. Kin(p, q)
  BY <1>4, OutputsFlushKin
<1> HIDE DEF q
<1>6. Kin(d, q)
  BY <1>3, <1>5, KinKin
<1>7. Follows(d, MimoDestroy(q)) /\ Follows(d, [q EXCEPT !.mode = "terminating"])
  BY <1>1, <1>6, MimoDestroyFollows, WaitsFollows
<1> QED BY <1>1, <1>2, <1>7, RunsThenFollows

\* xa_mimo_proc_terminate
LEMMA MimoTerminateFollows ==
    ASSUME NEW c, Sound(c), ~Due(c), NEW x
    PROVE  Follows(c, MimoTerminate(c, x))
<1> DEFINE j == x.port
           out == j \in DOMAIN c.out
           a == OutFlushDone(c, j)
           d == OutSet(a, j, {"flush_done"})
           len == IF FromPool(x.msg) THEN Invalid ELSE 0
<1>1. Kin(c, a)
  BY SoundShape, OutFlushDoneKin
<1>2. MimoTerminate(c, x) = IF out /\ x.msg = Control(j) THEN (IF MimoFlushed(d) THEN MimoDestroy(d) ELSE d)
                            ELSE IF out /\ x.op = "fill" /\ Routed(c, j) THEN c ELSE Answer(c, x, len)
  BY DEF MimoTerminate
<1> HIDE DEF a, len
<1>3. Kin(c, d)
  BY <1>1, KinShape, KinKin, OutFlagsKin
<1> HIDE DEF d
<1>4. Follows(c, MimoDestroy(d)) /\ Follows(c, d)
  BY <1>3, MimoDestroyFollows, KinRuns, RunsFollows
<1>5. Follows(c, Answer(c, x, len)) /\ Follows(c, c)
  BY SoundShape, AnswerKin, KinSelf, KinRuns, RunsFollows
<1> QED BY <1>2, <1>4, <1>5

-----------------------------------------------------------------------------
(* The renderer: commands and device.                                      *)

RendererOK(c) == Sound(c) /\ c.mode = "running" /\ 1 \in DOMAIN c.in /\ Played \in DOMAIN c.out

\* A renderer's kin is a renderer.
LEMMA KinRenderer ==
    ASSUME NEW c, RendererOK(c), NEW d, Kin(c, d)
    PROVE  Runs(c, d) /\ RendererOK(d)
BY KinRuns DEF RendererOK, Runs, SameFrame

\* Flags of the state other than that of the schedule come and go.
LEMMA StateFlagsKin ==
    ASSUME NEW c, ShapeOK(c), NEW f, "schedule" \notin f
    PROVE  /\ Kin(c, Clears(c, f)) /\ Kin(c, [c EXCEPT !.state = c.state \cup f])
           /\ Kin(c, [c EXCEPT !.state = Toggled(c.state, f)])
<1>1. /\ "schedule" \in c.state \ f <=> Due(c)
      /\ "schedule" \in c.state \cup f <=> Due(c)
      /\ "schedule" \in Toggled(c.state, f) <=> Due(c)
  BY DEF Due, Toggled
<1> QED BY <1>1, StateKin DEF Clears

\* xa_renderer_empty_this_buffer
LEMMA RendererEmptyRuns ==
    ASSUME NEW c, RendererOK(c), NEW x
    PROVE  Runs(c, RendererEmpty(c, x))
BY SoundShape, InPutKin, ScheduleRuns DEF RendererOK, RendererEmpty

\* The interrupt handler's message is back: the component goes into the schedule.
LEMMA RendererKickRuns ==
    ASSUME NEW c, Sound(c), c.mode = "running", NEW d, Kin(c, d)
    PROVE  Runs(c, RendererKick(d))
<1> DEFINE e == [d EXCEPT !.isr = "home"]
           f == [e EXCEPT !.state = e.state \cup {"output_ready"}]
<1>1. RendererKick(d) = IF "output_ready" \in d.state THEN e ELSE Schedule(f)
  BY DEF RendererKick
<1>2. Kin(c, e)
  BY KinShape, KinKin, IsrKin
<1> HIDE DEF e
<1>3. Kin(c, f)
  BY <1>2, KinShape, KinKin, StateFlagsKin
<1> HIDE DEF f
<1> QED BY <1>1, <1>2, <1>3, KinRuns, ScheduleRuns

\* xa_renderer_fill_this_buffer
LEMMA RendererFillRuns ==
    ASSUME NEW c, RendererOK(c), NEW x
    PROVE  Runs(c, RendererFill(c, x))
<1> DEFINE put == OutPut(c, Played, x.msg)
           run == [c EXCEPT !.state = c.state \cup {"running"}]
           chk == Check(put, x.len = 0)
           back == ControlBack(c, Played, x.len)
           f == OutFlush(c, Played, "fill")
<1>1. ShapeOK(c) /\ 1 \in DOMAIN c.in /\ Played \in DOMAIN c.out /\ Sound(c) /\ c.mode = "running"
  BY DEF RendererOK, Sound
<1>2. RendererFill(c, x) = IF x.msg = Isr THEN RendererKick(run)
                           ELSE IF "runtime_init" \in c.state THEN RendererKick(chk)
                           ELSE IF x.msg = Control(Played) THEN InPurge(back, 1)
                           ELSE IF x.len = Invalid /\ Routed(c, Played)
                           THEN (IF OutHas(c, Played, {"flushing"}) THEN c ELSE Clears(f, {"output_setup"}))
                           ELSE put
  BY DEF RendererFill, RendererBounced
<1>3. Kin(c, put) /\ Kin(c, back) /\ Kin(c, f)
  BY <1>1, OutPutKin, ControlBackKin, OutFlushKin
<1> HIDE DEF put, back, f
<1>4. Kin(c, chk) /\ Kin(c, InPurge(back, 1)) /\ Kin(c, Clears(f, {"output_setup"}))
  BY <1>1, <1>3, KinShape, KinKin, CheckKin, InPurgeKin, StateFlagsKin
<1>5. Kin(c, run)
  BY <1>1, StateFlagsKin
<1> HIDE DEF chk, run
<1>6. Runs(c, RendererKick(run)) /\ Runs(c, RendererKick(chk))
  BY <1>1, <1>4, <1>5, RendererKickRuns
<1> QED BY <1>1, <1>2, <1>3, <1>4, <1>6, KinSelf, KinRuns

\* xa_renderer_flush
LEMMA RendererFlushRuns ==
    ASSUME NEW c, RendererOK(c), NEW x
    PROVE  Runs(c, RendererFlush(c, x))
<1> DEFINE d == Check(c, "execution" \in c.state)
           e == Cancel(d)
           done == OutFlushDone(d, Played)
           o == RendererFlushOut(d, x)
<1>1. ShapeOK(c) /\ 1 \in DOMAIN c.in /\ Played \in DOMAIN c.out /\ Sound(c) /\ c.mode = "running"
  BY DEF RendererOK, Sound
<1>2. RendererFlush(c, x) = IF x.port = 1 THEN Answer(InPurge(e, 1), x, x.len)
                            ELSE Clears(o, {"output_setup"})
  BY DEF RendererFlush
<1>3. Kin(c, d) /\ ShapeOK(d) /\ Sound(d) /\ 1 \in DOMAIN d.in /\ Played \in DOMAIN d.out
  BY <1>1, CheckKin, KinShape, KinRuns DEF Runs
<1> HIDE DEF d
<1>4. Runs(d, e) /\ Sound(e) /\ 1 \in DOMAIN e.in
  BY <1>3, CancelRuns DEF Runs, SameFrame
<1> HIDE DEF e
<1>5. Runs(d, Answer(InPurge(e, 1), x, x.len))
  BY <1>4, SoundShape, InPurgeKin, KinRuns, RunsRuns, RunsAnswer
<1>6. Kin(d, done)
  BY <1>3, OutFlushDoneKin
<1> HIDE DEF done
<1>7. Kin(d, InPurgeDone(done, 1)) /\ Kin(d, UnrouteDone(d, Played)) /\ Kin(d, OutFlush(d, Played, "flush"))
  BY <1>3, <1>6, KinShape, KinKin, InPurgeDoneKin, UnrouteDoneKin, OutFlushKin
<1>8. Kin(d, Answer(OutFlush(d, Played, "flush"), x, x.len))
  BY <1>7, KinShape, KinKin, AnswerKin
<1>9. Kin(d, o)
  BY <1>7, <1>8 DEF RendererFlushOut, done
<1> HIDE DEF o
<1>10. Kin(d, Clears(o, {"output_setup"}))
  BY <1>9, KinShape, KinKin, StateFlagsKin
<1>11. Runs(d, RendererFlush(c, x))
  BY <1>2, <1>3, <1>5, <1>10, KinRuns
<1> QED BY <1>1, <1>3, <1>11, KinRuns, RunsRuns

\* xa_renderer_port_route, xa_renderer_port_unroute
LEMMA RendererRouteRuns ==
    ASSUME NEW c, RendererOK(c), NEW x
    PROVE  Runs(c, RendererRoute(c, x)) /\ Runs(c, RendererUnroute(c, x))
<1> DEFINE a == Clears(c, {"output_setup"})
           unset == [a EXCEPT !.out[Played].ptr = Msg(App, "none")]
           flush == OutFlush(unset, Played, "flush")
           over == OutUnroute(flush, Played)
           start == UnrouteStart(flush, Played)
<1>1. ShapeOK(c) /\ Played \in DOMAIN c.out
  BY DEF RendererOK, Sound
<1>2. Kin(c, RendererRoute(c, x)) /\ Kin(c, Answer(c, x, 0))
  BY <1>1, OutRouteKin, AnswerKin, KinShape, KinKin DEF RendererRoute
<1>3. RendererUnroute(c, x) = IF ~Routed(c, Played) THEN Answer(c, x, 0)
                              ELSE IF FlushOver(c, Played, "flush") THEN Answer(over, x, 0) ELSE start
  BY DEF RendererUnroute
<1>4. Kin(c, a)
  BY <1>1, StateFlagsKin
<1> HIDE DEF a
<1>5. Kin(c, unset)
  BY <1>4, KinShape, KinKin, OutFlagsKin
<1> HIDE DEF unset
<1>6. Kin(c, flush)
  BY <1>1, <1>5, KinShape, KinKin, OutFlushKin
<1> HIDE DEF flush
<1>7. Kin(c, over) /\ Kin(c, start)
  BY <1>6, KinShape, KinKin, OutUnrouteKin, UnrouteStartKin
<1> HIDE DEF over, start
<1>8. Kin(c, Answer(over, x, 0))
  BY <1>7, KinShape, KinKin, AnswerKin
<1> QED BY <1>2, <1>3, <1>7, <1>8, KinRenderer

\* READ_FIFO
LEMMA PlayingKin ==
    ASSUME NEW c, ShapeOK(c)
    PROVE  Kin(c, Playing(c))
<1> DEFINE p == c.out[Played]
           chk == Check(c, p.q # <<>> /\ p.ptr = Head(p.q))
           g == [chk.plugin EXCEPT !.made = TRUE]
<1>1. Playing(c) = IF p.ptr = Msg(App, "none") THEN c ELSE [chk EXCEPT !.plugin = g]
  <2>1. [chk EXCEPT !.plugin.made = TRUE] = [chk EXCEPT !.plugin = g]
    OBVIOUS
  <2> QED BY <2>1 DEF Playing
<1>2. Kin(c, chk)
  BY CheckKin
<1> HIDE DEF chk, g
<1> QED BY <1>1, <1>2, KinSelf, KinShape, KinKin, PluginKin

\* xa_hw_renderer_control, xa_fw_handler
LEMMA RendererStartRuns ==
    ASSUME NEW c, RendererOK(c), NEW x
    PROVE  Runs(c, RendererStart(c, x))
<1> DEFINE p == Playing(c)
           g == [p.plugin EXCEPT !.avail = 0, !.timer = TRUE, !.device = "running"]
           d == [p EXCEPT !.plugin = g]
           e == IF c.plugin.device = "running" THEN c ELSE d
<1>1. ShapeOK(c) /\ Kin(c, p)
  BY PlayingKin DEF RendererOK, Sound
<1>2. RendererStart(c, x) = Answer(e, x, x.len)
  <2> HIDE DEF p
  <2>1. [p EXCEPT !.plugin.avail = 0, !.plugin.timer = TRUE, !.plugin.device = "running"] = d
    BY <1>1, KinShape DEF ShapeOK, Fields
  <2> QED BY <2>1 DEF RendererStart, p
<1> HIDE DEF p, g
<1>3. Kin(c, e)
  BY <1>1, KinSelf, KinShape, KinKin, PluginKin
<1> HIDE DEF e
<1> QED BY <1>2, <1>3, KinShape, KinKin, AnswerKin, KinRenderer

\* An interrupt of the output device.
LEMMA RendererTickKin ==
    ASSUME NEW c, ShapeOK(c)
    PROVE  Kin(c, RendererTick(c))
<1> DEFINE played == c.plugin.avail + 1
           g == [c.plugin EXCEPT !.device = IF c.plugin.device = "idle" THEN "running" ELSE "idle",
                                 !.timer = FALSE, !.avail = Fifo]
           h == [c.plugin EXCEPT !.avail = played]
           d == IF played > Fifo THEN [c EXCEPT !.plugin = g] ELSE [c EXCEPT !.plugin = h]
<1>1. RendererTick(c) = IF d.isr = "home" THEN [d EXCEPT !.isr = "raised"] ELSE d
  <2>1. [c EXCEPT !.plugin.device = IF @ = "idle" THEN "running" ELSE "idle",
                  !.plugin.timer = FALSE, !.plugin.avail = Fifo] = [c EXCEPT !.plugin = g]
    BY DEF ShapeOK, Fields
  <2>2. [c EXCEPT !.plugin.avail = played] = [c EXCEPT !.plugin = h]
    BY DEF ShapeOK, Fields
  <2> QED BY <2>1, <2>2 DEF RendererTick, Callback
<1> HIDE DEF played, g, h
<1>2. Kin(c, d)
  BY PluginKin
<1> HIDE DEF d
<1> QED BY <1>1, <1>2, KinShape, KinKin, IsrKin

-----------------------------------------------------------------------------
(* The renderer: processing and deletion.                                  *)

\* xa_renderer_preprocess
LEMMA RendererPreprocessKin ==
    ASSUME NEW c, ShapeOK(c), 1 \in DOMAIN c.in, Played \in DOMAIN c.out
    PROVE  Kin(c, RendererPreprocess(c).c)
<1> DEFINE full == InDone(c, 1) \/ InFills(c, 1)
           f == IF InDone(c, 1) THEN c ELSE InFill(c, 1)
           g == [f.plugin EXCEPT !.holds = f.in[1].filled > 0, !.over = f.plugin.over \/ InDone(f, 1)]
           told == [f EXCEPT !.plugin = g]
           setup == "output_setup" \notin c.state /\ Routed(c, Played)
           none == [told EXCEPT !.out[Played].ptr = Msg(App, "none")]
           o == OutSetup(told, Played)
           set == [o EXCEPT !.state = o.state \cup {"output_setup"}]
           e == IF ~setup THEN told ELSE IF OutEmpty(c, Played) THEN none ELSE set
<1>1. Kin(c, f)
  BY KinSelf, InFillKin
<1>2. RendererPreprocess(c) =
        IF "runtime_init" \in c.state THEN [c |-> c, ok |-> TRUE]
        ELSE IF "output_ready" \notin c.state /\ (full => "running" \in c.state)
        THEN [c |-> f, ok |-> FALSE] ELSE [c |-> e, ok |-> TRUE]
  <2> HIDE DEF full, setup
  <2>1. [f EXCEPT !.plugin.holds = f.in[1].filled > 0, !.plugin.over = @ \/ InDone(f, 1)] = told
    <3> HIDE DEF f
    <3> QED BY <1>1, KinShape DEF ShapeOK, Fields
  <2> QED BY <2>1 DEF RendererPreprocess, full, setup
<1> HIDE DEF f, g, full, setup
<1>3. Kin(c, told)
  BY <1>1, KinShape, KinKin, PluginKin
<1> HIDE DEF told
<1>4. Kin(c, none) /\ Kin(c, o)
  BY <1>3, KinShape, KinKin, OutFlagsKin, OutSetupKin
<1> HIDE DEF none, o
<1>5. Kin(c, set)
  BY <1>4, KinShape, KinKin, StateFlagsKin
<1> HIDE DEF set
<1>6. Kin(c, e)
  BY <1>3, <1>4, <1>5
<1> QED BY <1>1, <1>2, <1>6, KinSelf

\* xa_fw_renderer_submit
LEMMA SubmittedKin ==
    ASSUME NEW c, ShapeOK(c)
    PROVE  Kin(c, Submitted(c))
<1> DEFINE g == c.plugin
           h == [g EXCEPT !.avail = g.avail - 1, !.used = g.holds]
           in == [c EXCEPT !.plugin = h]
           starts == g.device = "idle" /\ g.avail = 1
           plays == g.device = "running" \/ starts
           out == IF plays THEN Playing(in) ELSE in
           r == [out.plugin EXCEPT !.timer = TRUE, !.device = "running"]
<1>1. Submitted(c) = IF starts THEN [out EXCEPT !.plugin = r] ELSE out
  <2> DEFINE raw == [c EXCEPT !.plugin.avail = @ - 1, !.plugin.used = g.holds]
             o == IF plays THEN Playing(raw) ELSE raw
  <2>1. Submitted(c) = IF starts THEN [o EXCEPT !.plugin.timer = TRUE, !.plugin.device = "running"] ELSE o
    BY DEF Submitted
  <2>2. raw = in
    BY DEF ShapeOK, Fields
  <2> HIDE DEF raw, in, plays, starts
  <2>3. o = out
    BY <2>2
  <2> HIDE DEF o, out
  <2>4. [out EXCEPT !.plugin.timer = TRUE, !.plugin.device = "running"] = [out EXCEPT !.plugin = r]
    OBVIOUS
  <2> QED BY <2>1, <2>3, <2>4
<1> HIDE DEF starts, plays, h
<1>2. Kin(c, in)
  BY PluginKin
<1> HIDE DEF in
<1>3. Kin(c, out)
  BY <1>2, KinShape, KinKin, PlayingKin
<1> HIDE DEF out, r
<1> QED BY <1>1, <1>3, KinShape, KinKin, PluginKin

\* xa_renderer_do_execute_16bit_stereo and its fellows
LEMMA RendererExecuteKin ==
    ASSUME NEW c, ShapeOK(c)
    PROVE  Kin(c, RendererExecute(c).c)
<1> DEFINE g == c.plugin
           h == [g EXCEPT !.used = FALSE, !.made = FALSE]
           idle == [c EXCEPT !.plugin = h]
           run == Submitted(idle)
           r == [run.plugin EXCEPT !.timer = FALSE, !.device = IF run.plugin.device = "idle" THEN "running" ELSE "idle"]
           off == [run EXCEPT !.plugin = r]
           stopped == [off EXCEPT !.state = Toggled(off.state, {"execution", "completed"})]
           init == [c EXCEPT !.state = Toggled(c.state, {"runtime_init", "execution"})]
<1>1. Kin(c, idle)
  BY PluginKin
<1>2. idle = [c EXCEPT !.plugin.used = FALSE, !.plugin.made = FALSE]
  BY DEF ShapeOK, Fields
<1>3. Kin(c, run)
  <2> HIDE DEF idle
  <2> QED BY <1>1, KinShape, KinKin, SubmittedKin
<1>4. RendererExecute(c) = IF "runtime_init" \in c.state THEN [c |-> init, done |-> TRUE]
                           ELSE IF "execution" \notin c.state THEN [c |-> c, done |-> FALSE]
                           ELSE IF g.avail = 0 THEN [c |-> idle, done |-> FALSE]
                           ELSE IF g.over /\ ~g.holds THEN [c |-> stopped, done |-> TRUE]
                           ELSE [c |-> run, done |-> FALSE]
  <2>1. [run EXCEPT !.plugin.timer = FALSE,
                    !.plugin.device = IF @ = "idle" THEN "running" ELSE "idle",
                    !.state = Toggled(@, {"execution", "completed"})] = stopped
    <3> HIDE DEF run
    <3> QED BY <1>3, KinShape DEF ShapeOK, Fields
  <2> HIDE DEF stopped
  <2> QED BY <1>2, <2>1 DEF RendererExecute
<1> HIDE DEF idle, run, r
<1>5. Kin(c, off)
  BY <1>3, KinShape, KinKin, PluginKin
<1> HIDE DEF off
<1>6. Kin(c, stopped) /\ Kin(c, init)
  BY <1>5, KinShape, KinKin, StateFlagsKin
<1> HIDE DEF stopped, init
<1> QED BY <1>1, <1>3, <1>4, <1>6, KinSelf

\* xa_renderer_postprocess
LEMMA RendererPostprocessRuns ==
    ASSUME NEW c, RendererOK(c), NEW d, Kin(c, d), NEW done
    PROVE  Runs(c, RendererPostprocess(d, done))
<1> DEFINE g == d.plugin
           produces == "output_setup" \in d.state /\ g.made
           p == OutProduce(d, Played, 1)
           o == IF produces THEN Clears(p, {"output_setup"}) ELSE d
           u == IF g.used THEN InConsume(o, 1) ELSE o
           e == Clears(u, {"output_ready"})
           over == OutFlush(e, Played, "fill")
           first == Clears(d, {"output_ready"})
           told == OutProduce(first, Played, 1)
           ended == Clears(InPurge(over, 1), {"running"})
           due == InReady(e, 1) /\ g.used
<1>1. RendererPostprocess(d, done) = IF done /\ "execution" \in d.state THEN Schedule(told)
                                     ELSE IF done /\ FlushOver(e, Played, "fill") THEN ended
                                     ELSE IF done THEN over ELSE ScheduleIf(e, due)
  BY DEF RendererPostprocess
<1>2. /\ 1 \in DOMAIN d.in /\ Played \in DOMAIN d.out /\ ShapeOK(d)
      /\ Sound(c) /\ c.mode = "running"
  BY KinShape DEF RendererOK
<1>3. Kin(d, p)
  BY <1>2, OutProduceKin
<1> HIDE DEF p, produces, due
<1>4. Kin(d, o)
  BY <1>2, <1>3, KinSelf, KinShape, KinKin, StateFlagsKin
<1> HIDE DEF o
<1>5. Kin(d, u)
  BY <1>4, KinShape, KinKin, InConsumeKin
<1> HIDE DEF u
<1>6. Kin(d, e)
  BY <1>5, KinShape, KinKin, StateFlagsKin
<1> HIDE DEF e
<1>7. Kin(d, over)
  BY <1>2, <1>6, KinShape, KinKin, OutFlushKin
<1> HIDE DEF over
<1>8. Kin(d, InPurge(over, 1))
  BY <1>2, <1>7, KinShape, KinKin, InPurgeKin
<1>9. Kin(d, ended)
  BY <1>8, KinShape, KinKin, StateFlagsKin
<1>10. Kin(d, first)
  BY <1>2, StateFlagsKin
<1> HIDE DEF ended, first
<1>11. Kin(d, told)
  BY <1>10, KinShape, KinKin, OutProduceKin
<1> HIDE DEF told
<1>12. Kin(c, told) /\ Kin(c, ended) /\ Kin(c, over) /\ Kin(c, e)
  BY <1>6, <1>7, <1>9, <1>11, KinKin
<1> QED BY <1>1, <1>2, <1>12, KinRuns, ScheduleRuns

\* xa_renderer_process
LEMMA RendererProcessRuns ==
    ASSUME NEW c, RendererOK(c)
    PROVE  Runs(c, RendererProcess(c))
<1> DEFINE pre == RendererPreprocess(c)
           e == RendererExecute(pre.c)
<1>1. RendererProcess(c) = IF pre.ok THEN RendererPostprocess(e.c, e.done) ELSE pre.c
  BY DEF RendererProcess
<1>2. Kin(c, pre.c)
  BY SoundShape, RendererPreprocessKin DEF RendererOK
<1> HIDE DEF pre
<1>3. Kin(c, e.c)
  BY <1>2, KinShape, KinKin, RendererExecuteKin
<1> HIDE DEF e
<1> QED BY <1>1, <1>2, <1>3, KinRenderer, RendererPostprocessRuns

\* xa_renderer_destroy, xa_renderer_cleanup, xa_renderer_terminate
LEMMA RendererDestroyFollows ==
    ASSUME NEW c, Sound(c), ~Due(c), NEW d, Kin(c, d)
    PROVE  Follows(c, RendererDestroy(d))
<1> DEFINE e == [d EXCEPT !.isr = "home"]
<1>1. [d EXCEPT !.mode = "gone", !.state = @ \cap {"bug"}, !.isr = "home"]
        = [e EXCEPT !.mode = "gone", !.state = @ \cap {"bug"}]
  BY KinShape DEF ShapeOK, Fields
<1>2. RendererDestroy(d) = Sends([e EXCEPT !.mode = "gone", !.state = @ \cap {"bug"}], Cmd, "unregister", 0)
  BY <1>1 DEF RendererDestroy
<1>3. Kin(c, e)
  BY KinShape, KinKin, IsrKin
<1> HIDE DEF e
<1> QED BY <1>2, <1>3, GoneFollows

\* xa_renderer_cleanup
LEMMA RendererCleanupFollows ==
    ASSUME NEW c, Sound(c), 1 \in DOMAIN c.in
    PROVE  Follows(c, RendererCleanup(c))
<1> DEFINE e == Cancel(c)
           g == [e.plugin EXCEPT !.timer = FALSE, !.device = "stopped"]
           off == [e EXCEPT !.plugin = g]
           d == InPurge(off, 1)
<1>1. Runs(c, e) /\ Sound(e) /\ ~Due(e) /\ 1 \in DOMAIN e.in
  BY CancelRuns DEF Runs, SameFrame
<1>2. RendererCleanup(c) = IF c.isr # "home" THEN [d EXCEPT !.mode = "terminating"] ELSE RendererDestroy(d)
  <2>1. [e EXCEPT !.plugin.timer = FALSE, !.plugin.device = "stopped"] = off
    <3> HIDE DEF e
    <3> QED BY <1>1, SoundShape DEF ShapeOK, Fields
  <2> QED BY <2>1 DEF RendererCleanup
<1> HIDE DEF e, g
<1>3. Kin(e, off)
  BY <1>1, SoundShape, PluginKin
<1> HIDE DEF off
<1>4. Kin(e, d)
  BY <1>1, <1>3, KinShape, KinKin, InPurgeKin
<1> HIDE DEF d
<1>5. Follows(e, RendererDestroy(d)) /\ Follows(e, [d EXCEPT !.mode = "terminating"])
  BY <1>1, <1>4, RendererDestroyFollows, WaitsFollows
<1> QED BY <1>1, <1>2, <1>5, RunsThenFollows

\* xa_renderer_terminate
LEMMA RendererTerminateFollows ==
    ASSUME NEW c, Sound(c), ~Due(c), NEW x
    PROVE  Follows(c, RendererTerminate(c, x))
<1>1. Follows(c, RendererDestroy(c))
  BY SoundShape, KinSelf, RendererDestroyFollows
<1>2. \A len : Follows(c, Answer(c, x, len))
  BY SoundShape, AnswerKin, KinRuns, RunsFollows
<1> QED BY <1>1, <1>2 DEF RendererTerminate

-----------------------------------------------------------------------------
(* The capturer.                                                           *)

CapturerOK(c) == Sound(c) /\ c.mode = "running" /\ Captured \in DOMAIN c.out

\* A capturer's kin is a capturer.
LEMMA KinCapturer ==
    ASSUME NEW c, CapturerOK(c), NEW d, Kin(c, d)
    PROVE  Runs(c, d) /\ CapturerOK(d)
BY KinRuns DEF CapturerOK, Runs, SameFrame

\* xa_capturer_empty_this_buffer, xa_capturer_fill_this_buffer
LEMMA CapturerEmptyRuns ==
    ASSUME NEW c, CapturerOK(c), NEW x
    PROVE  Runs(c, CapturerEmpty(c, x))
<1>1. Kin(c, [c EXCEPT !.isr = "home"]) /\ Kin(c, Check(c, FALSE))
  BY SoundShape, IsrKin, CheckKin DEF CapturerOK
<1> QED BY <1>1, KinRuns, ScheduleRuns DEF CapturerOK, CapturerEmpty

\* xa_capturer_fill_this_buffer
LEMMA CapturerFillRuns ==
    ASSUME NEW c, CapturerOK(c), NEW x
    PROVE  Runs(c, CapturerFill(c, x))
<1> DEFINE put == OutPut(c, Captured, x.msg)
           chk == Check(put, x.len = 0)
           e == Cancel(c)
           first == OutEmpty(c, Captured)
           bounced == IF OutHas(c, Captured, {"flushing"}) THEN c ELSE OutFlush(e, Captured, "fill")
<1>1. ShapeOK(c) /\ Sound(c) /\ c.mode = "running" /\ Captured \in DOMAIN c.out
  BY DEF CapturerOK, Sound
<1>2. CapturerFill(c, x) = IF "runtime_init" \in c.state THEN ScheduleIf(chk, first)
                           ELSE IF x.msg = Control(Captured) THEN ControlBack(c, Captured, x.len)
                           ELSE IF "completed" \in c.state /\ ~Routed(c, Captured) THEN Answer(c, x, 0)
                           ELSE IF x.len = Invalid /\ Routed(c, Captured) THEN bounced ELSE put
  BY DEF CapturerFill, CapturerBounced
<1>3. Kin(c, put) /\ Kin(c, ControlBack(c, Captured, x.len)) /\ Kin(c, Answer(c, x, 0)) /\ Kin(c, c)
  BY <1>1, OutPutKin, ControlBackKin, AnswerKin, KinSelf
<1> HIDE DEF put, first
<1>4. Kin(c, chk)
  BY <1>3, KinShape, KinKin, CheckKin
<1> HIDE DEF chk
<1>5. Runs(c, e) /\ Sound(e) /\ Captured \in DOMAIN e.out
  BY <1>1, CancelRuns DEF Runs, SameFrame
<1> HIDE DEF e
<1>6. Runs(c, bounced)
  BY <1>1, <1>3, <1>5, SoundShape, OutFlushKin, KinRuns, RunsRuns
<1> HIDE DEF bounced
<1> QED BY <1>1, <1>2, <1>3, <1>4, <1>6, KinRuns, ScheduleRuns

\* xa_capturer_port_route, xa_capturer_port_unroute
LEMMA CapturerRouteRuns ==
    ASSUME NEW c, CapturerOK(c), NEW x
    PROVE  Runs(c, CapturerRoute(c, x)) /\ Runs(c, CapturerUnroute(c, x))
<1> DEFINE e == Cancel(c)
           flush == OutFlush(e, Captured, "flush")
           over == OutUnroute(flush, Captured)
           start == UnrouteStart(flush, Captured)
<1>1. ShapeOK(c) /\ Sound(c) /\ Captured \in DOMAIN c.out
  BY DEF CapturerOK, Sound
<1>2. Kin(c, CapturerRoute(c, x)) /\ Kin(c, Answer(c, x, 0))
  BY <1>1, OutRouteKin, AnswerKin, KinShape, KinKin DEF CapturerRoute
<1>3. CapturerUnroute(c, x) = IF ~Routed(c, Captured) THEN Answer(c, x, 0)
                              ELSE IF FlushOver(c, Captured, "flush") THEN Answer(over, x, 0) ELSE start
  BY DEF CapturerUnroute
<1>4. Runs(c, e) /\ Sound(e) /\ Captured \in DOMAIN e.out
  BY <1>1, CancelRuns DEF Runs, SameFrame
<1> HIDE DEF e
<1>5. Kin(e, flush)
  BY <1>4, SoundShape, OutFlushKin
<1> HIDE DEF flush
<1>6. Kin(e, over) /\ Kin(e, start)
  BY <1>5, KinShape, KinKin, OutUnrouteKin, UnrouteStartKin
<1> HIDE DEF over, start
<1>7. Runs(c, over) /\ Runs(c, start)
  BY <1>4, <1>6, KinRuns, RunsRuns
<1> QED BY <1>2, <1>3, <1>7, RunsAnswer, KinCapturer

\* xa_capturer_flush
LEMMA CapturerFlushRuns ==
    ASSUME NEW c, CapturerOK(c), NEW x
    PROVE  Runs(c, CapturerFlush(c, x))
<1> DEFINE flush == OutFlush(c, Captured, "flush")
<1>1. ShapeOK(c) /\ Captured \in DOMAIN c.out
  BY DEF CapturerOK, Sound
<1>2. Kin(c, flush) /\ Kin(c, UnrouteDone(c, Captured)) /\ Kin(c, OutFlushDone(c, Captured))
  BY <1>1, OutFlushKin, UnrouteDoneKin, OutFlushDoneKin
<1>3. CapturerFlush(c, x) = IF Unrouting(c, Captured) THEN UnrouteDone(c, Captured)
                            ELSE IF ~Routed(c, Captured) THEN Answer(flush, x, x.len)
                            ELSE OutFlushDone(c, Captured)
  BY DEF CapturerFlush
<1> HIDE DEF flush
<1>4. Kin(c, Answer(flush, x, x.len))
  BY <1>2, KinShape, KinKin, AnswerKin
<1> QED BY <1>2, <1>3, <1>4, KinCapturer

\* xa_hw_capturer_control, xa_fw_handler
LEMMA CapturerStartRuns ==
    ASSUME NEW c, Sound(c), NEW x
    PROVE  Runs(c, CapturerStart(c, x))
<1> DEFINE g == [c.plugin EXCEPT !.timer = TRUE, !.device = "running"]
           d == [c EXCEPT !.plugin = g]
           e == IF c.plugin.device # "idle" THEN c ELSE d
<1>1. ShapeOK(c)
  BY DEF Sound
<1>2. CapturerStart(c, x) = Answer(e, x, x.len)
  <2>1. [c EXCEPT !.plugin.timer = TRUE, !.plugin.device = "running"] = d
    BY <1>1 DEF ShapeOK, Fields
  <2> QED BY <2>1 DEF CapturerStart
<1> HIDE DEF g
<1>3. Kin(c, e)
  BY <1>1, KinSelf, PluginKin
<1> HIDE DEF e
<1> QED BY <1>2, <1>3, KinShape, KinKin, AnswerKin, KinRuns

\* An interrupt of the input device.
LEMMA CapturerTickKin ==
    ASSUME NEW c, ShapeOK(c)
    PROVE  Kin(c, CapturerTick(c))
<1> DEFINE g == [c.plugin EXCEPT !.avail = 0]
           h == [c.plugin EXCEPT !.avail = c.plugin.avail + 1]
           d == [c EXCEPT !.plugin = h]
<1>1. CapturerTick(c) = IF c.plugin.avail = Fifo THEN [c EXCEPT !.plugin = g]
                        ELSE IF d.isr = "home" THEN [d EXCEPT !.isr = "raised"] ELSE d
  <2>1. /\ [c EXCEPT !.plugin.avail = 0] = [c EXCEPT !.plugin = g]
        /\ [c EXCEPT !.plugin.avail = @ + 1] = d
    BY DEF ShapeOK, Fields
  <2> QED BY <2>1 DEF CapturerTick, Callback
<1> HIDE DEF g, h
<1>2. Kin(c, d) /\ Kin(c, [c EXCEPT !.plugin = g])
  BY PluginKin
<1> HIDE DEF d
<1> QED BY <1>1, <1>2, KinShape, KinKin, IsrKin

\* xa_capturer_preprocess, xa_capturer_do_exec, xa_capturer_postprocess
LEMMA CapturerPreprocessKin ==
    ASSUME NEW c, ShapeOK(c)
    PROVE  Kin(c, CapturerPreprocess(c))
BY KinSelf, OutFlagsKin, OutSetupKin DEF CapturerPreprocess

\* xa_capturer_do_exec
LEMMA CapturerExecuteKin ==
    ASSUME NEW c, ShapeOK(c)
    PROVE  Kin(c, CapturerExecute(c).c)
<1> DEFINE g == c.plugin
           buffer == c.out[Captured].ptr # Msg(App, "none")
           made == buffer /\ g.avail > 0 /\ g.left > 0
           over == buffer /\ ~made
           h == [g EXCEPT !.avail = g.avail - 1, !.left = IF g.left = 0 THEN 0 ELSE g.left - 1]
           read == IF g.avail = 0 THEN c ELSE [c EXCEPT !.plugin = h]
           k == [read.plugin EXCEPT !.made = made]
           d == [read EXCEPT !.plugin = k]
           t == [d.plugin EXCEPT !.timer = FALSE]
           off == [d EXCEPT !.plugin = t]
           ended == [off EXCEPT !.state = Toggled(off.state, {"execution", "completed"})]
           init == [c EXCEPT !.state = Toggled(c.state, {"runtime_init", "execution"})]
<1>1. [c EXCEPT !.plugin.avail = @ - 1, !.plugin.left = IF @ = 0 THEN 0 ELSE @ - 1] = [c EXCEPT !.plugin = h]
  BY DEF ShapeOK, Fields
<1>2. Kin(c, read)
  <2> HIDE DEF h
  <2> QED BY KinSelf, PluginKin
<1>3. [read EXCEPT !.plugin.made = made] = d
  <2> HIDE DEF read, made
  <2> QED BY <1>2, KinShape DEF ShapeOK, Fields
<1>4. Kin(c, d)
  <2> HIDE DEF read, k
  <2> QED BY <1>2, KinShape, KinKin, PluginKin
<1>5. [d EXCEPT !.plugin.timer = FALSE, !.state = Toggled(@, {"execution", "completed"})] = ended
  <2> HIDE DEF d
  <2> QED BY <1>4, KinShape DEF ShapeOK, Fields
<1>6. CapturerExecute(c) = IF "runtime_init" \in c.state THEN [c |-> init, done |-> TRUE]
                           ELSE IF "execution" \notin c.state THEN [c |-> c, done |-> FALSE]
                           ELSE IF over THEN [c |-> ended, done |-> TRUE] ELSE [c |-> d, done |-> FALSE]
  <2> HIDE DEF ended, h
  <2> QED BY <1>1, <1>3, <1>5 DEF CapturerExecute
<1> HIDE DEF d, t, over
<1>7. Kin(c, off)
  BY <1>4, KinShape, KinKin, PluginKin
<1> HIDE DEF off
<1>8. Kin(c, ended) /\ Kin(c, init)
  BY <1>7, KinShape, KinKin, StateFlagsKin
<1> HIDE DEF ended, init
<1> QED BY <1>4, <1>6, <1>8, KinSelf

\* xa_base_process of the capturer
LEMMA CapturerProcessRuns ==
    ASSUME NEW c, CapturerOK(c)
    PROVE  Runs(c, CapturerProcess(c))
<1> DEFINE pre == CapturerPreprocess(c)
           e == CapturerExecute(pre)
           d == e.c
           g == [d.plugin EXCEPT !.made = FALSE]
           mute == [d EXCEPT !.plugin = g]
<1>1. Kin(c, pre)
  BY SoundShape, CapturerPreprocessKin DEF CapturerOK
<1>2. Kin(c, d)
  <2> HIDE DEF pre
  <2> QED BY <1>1, KinShape, KinKin, CapturerExecuteKin
<1>3. CapturerProcess(c) = IF e.done /\ "execution" \in d.state THEN OutProduce(d, Captured, 1)
                           ELSE IF e.done THEN OutFlush(d, Captured, "fill")
                           ELSE IF d.plugin.made THEN OutProduce(mute, Captured, 1) ELSE d
  <2>1. [d EXCEPT !.plugin.made = FALSE] = mute
    <3> HIDE DEF d
    <3> QED BY <1>2, KinShape DEF ShapeOK, Fields
  <2> HIDE DEF mute, pre
  <2> QED BY <2>1 DEF CapturerProcess, CapturerPostprocess, pre
<1>4. ShapeOK(d) /\ Captured \in DOMAIN d.out
  BY <1>2, KinShape DEF CapturerOK
<1> HIDE DEF d, g
<1>5. Kin(c, OutProduce(d, Captured, 1)) /\ Kin(c, OutFlush(d, Captured, "fill")) /\ Kin(c, mute)
  BY <1>2, <1>4, KinKin, OutProduceKin, OutFlushKin, PluginKin
<1> HIDE DEF mute
<1>6. Kin(c, OutProduce(mute, Captured, 1))
  BY <1>5, KinShape, KinKin, OutProduceKin
<1> QED BY <1>2, <1>3, <1>5, <1>6, KinCapturer

\* xa_capturer_destroy, xa_capturer_cleanup, xa_capturer_terminate
LEMMA CapturerDestroyFollows ==
    ASSUME NEW c, Sound(c), ~Due(c), NEW d, Kin(c, d)
    PROVE  Follows(c, CapturerDestroy(d))
<1> DEFINE e == OutDestroy(d, Captured)
<1>1. CapturerDestroy(d) = Sends([e EXCEPT !.mode = "gone", !.state = @ \cap {"bug"}], Cmd, "unregister", 0)
  BY DEF CapturerDestroy
<1>2. Kin(c, e)
  BY KinShape, KinKin, OutDestroyKin
<1> HIDE DEF e
<1> QED BY <1>1, <1>2, GoneFollows

\* xa_capturer_cleanup
LEMMA CapturerCleanupFollows ==
    ASSUME NEW c, Sound(c), Captured \in DOMAIN c.out
    PROVE  Follows(c, CapturerCleanup(c))
<1> DEFINE e == Cancel(c)
           g == [e.plugin EXCEPT !.timer = FALSE, !.device = "stopped"]
           off == [e EXCEPT !.plugin = g]
           flush == OutFlush(off, Captured, "flush")
<1>1. Runs(c, e) /\ Sound(e) /\ ~Due(e) /\ Captured \in DOMAIN e.out
  BY CancelRuns DEF Runs, SameFrame
<1>2. CapturerCleanup(c) = IF FlushOver(c, Captured, "flush") THEN CapturerDestroy(flush)
                           ELSE [flush EXCEPT !.mode = "terminating"]
  <2>1. [e EXCEPT !.plugin.timer = FALSE, !.plugin.device = "stopped"] = off
    <3> HIDE DEF e
    <3> QED BY <1>1, SoundShape DEF ShapeOK, Fields
  <2> QED BY <2>1 DEF CapturerCleanup
<1> HIDE DEF e, g
<1>3. Kin(e, off)
  BY <1>1, SoundShape, PluginKin
<1> HIDE DEF off
<1>4. Kin(e, flush)
  BY <1>1, <1>3, KinShape, KinKin, OutFlushKin
<1> HIDE DEF flush
<1>5. Follows(e, CapturerDestroy(flush)) /\ Follows(e, [flush EXCEPT !.mode = "terminating"])
  BY <1>1, <1>4, CapturerDestroyFollows, WaitsFollows
<1> QED BY <1>1, <1>2, <1>5, RunsThenFollows

\* xa_capturer_terminate
LEMMA CapturerTerminateFollows ==
    ASSUME NEW c, Sound(c), ~Due(c), NEW x
    PROVE  Follows(c, CapturerTerminate(c, x))
<1>1. Kin(c, OutFlushDone(c, Captured)) /\ Kin(c, c)
  BY SoundShape, OutFlushDoneKin, KinSelf
<1>2. Follows(c, CapturerDestroy(OutFlushDone(c, Captured))) /\ Follows(c, c)
  BY <1>1, CapturerDestroyFollows, KinRuns, RunsFollows
<1>3. \A len : Follows(c, Answer(c, x, len))
  BY SoundShape, AnswerKin, KinRuns, RunsFollows
<1> QED BY <1>2, <1>3 DEF CapturerTerminate

-----------------------------------------------------------------------------
(* Queues.                                                                 *)

Values(s) == {s[n] : n \in DOMAIN s}

\* What the queues that are made of queues hold.
LEMMA ValuesFacts ==
    /\ Values(<<>>) = {}
    /\ \A s, x : IsSeq(s) => Values(Append(s, x)) = Values(s) \cup {x}
    /\ \A s, t : IsSeq(s) /\ IsSeq(t) => Values(s \o t) = Values(s) \cup Values(t)
    /\ \A s : IsSeq(s) /\ s # <<>> => Head(s) \in Values(s) /\ Values(Tail(s)) \subseteq Values(s)
<1>1. Values(<<>>) = {}
  BY DEF Values
<1>2. ASSUME NEW s, NEW x, IsSeq(s) PROVE Values(Append(s, x)) = Values(s) \cup {x}
  <2>1. PICK T : s \in Seq(T)
    BY <1>2 DEF IsSeq
  <2>2. s \in Seq(T \cup {x})
    BY <2>1
  <2>3. /\ Len(s) \in Nat /\ DOMAIN s = 1 .. Len(s) /\ DOMAIN Append(s, x) = 1 .. Len(s) + 1
        /\ \A n \in 1 .. Len(s) : Append(s, x)[n] = s[n]
        /\ Append(s, x)[Len(s) + 1] = x
    BY <2>2
  <2>4. 1 .. Len(s) + 1 = (1 .. Len(s)) \cup {Len(s) + 1}
    BY <2>3
  <2> QED BY <2>3, <2>4 DEF Values
<1>3. ASSUME NEW s, NEW t, IsSeq(s), IsSeq(t) PROVE Values(s \o t) = Values(s) \cup Values(t)
  <2>1. PICK T, U : s \in Seq(T) /\ t \in Seq(U)
    BY <1>3 DEF IsSeq
  <2>2. s \in Seq(T \cup U) /\ t \in Seq(T \cup U)
    BY <2>1
  <2>3. /\ Len(s) \in Nat /\ Len(t) \in Nat /\ DOMAIN s = 1 .. Len(s) /\ DOMAIN t = 1 .. Len(t)
        /\ DOMAIN (s \o t) = 1 .. Len(s) + Len(t)
        /\ \A n \in 1 .. Len(s) + Len(t) : (s \o t)[n] = IF n <= Len(s) THEN s[n] ELSE t[n - Len(s)]
    BY <2>2
  <2>4. \A n \in 1 .. Len(s) : n \in 1 .. Len(s) + Len(t) /\ (s \o t)[n] = s[n]
    BY <2>3
  <2>5. \A n \in 1 .. Len(t) : n + Len(s) \in 1 .. Len(s) + Len(t) /\ (s \o t)[n + Len(s)] = t[n]
    BY <2>3
  <2>6. \A n \in 1 .. Len(s) + Len(t) : n \in 1 .. Len(s) \/ n - Len(s) \in 1 .. Len(t)
    BY <2>3
  <2>7. Values(s \o t) \subseteq Values(s) \cup Values(t)
    <3>1. \A n \in 1 .. Len(s) + Len(t) : (s \o t)[n] \in Values(s) \cup Values(t)
      BY <2>3, <2>6 DEF Values
    <3> QED BY <2>3, <3>1 DEF Values
  <2>8. Values(s) \subseteq Values(s \o t) /\ Values(t) \subseteq Values(s \o t)
    BY <2>3, <2>4, <2>5 DEF Values
  <2> QED BY <2>7, <2>8
<1>4. ASSUME NEW s, IsSeq(s), s # <<>> PROVE Head(s) \in Values(s) /\ Values(Tail(s)) \subseteq Values(s)
  <2>1. PICK T : s \in Seq(T)
    BY <1>4 DEF IsSeq
  <2>2. /\ Len(s) \in Nat \ {0} /\ DOMAIN s = 1 .. Len(s) /\ Head(s) = s[1]
        /\ DOMAIN Tail(s) = 1 .. Len(s) - 1
        /\ \A n \in 1 .. Len(s) - 1 : Tail(s)[n] = s[n + 1]
    BY <1>4, <2>1
  <2>3. \A n \in 1 .. Len(s) - 1 : n + 1 \in 1 .. Len(s)
    BY <2>2
  <2>4. 1 \in 1 .. Len(s)
    BY <2>2
  <2> QED BY <2>2, <2>3, <2>4 DEF Values
<1> QED BY <1>1, <1>2, <1>3, <1>4

\* Messages of pools, in order.
Pooled(s) == IsSeq(s) /\ \A x \in Values(s) : FromPool(x.msg)

\* What the component sends to one port is a queue of messages of pools.
LEMMA SentPooled ==
    ASSUME NEW c, IsSeq(c.sent), NEW of
    PROVE  Pooled(Sent(c, of))
<1> DEFINE k == [op |-> "select", sent |-> c.sent]
           S == {n \in DOMAIN c.sent : c.sent[n].msg.of = of /\ FromPool(c.sent[n].msg)}
           it == CHOOSE f : f = [s \in SUBSET S |-> IF s = {} THEN <<>>
                                   ELSE Append(f[s \ {Max(s)}], c.sent[Max(s)])]
           G == {s \in SUBSET S : Pooled(it[s])}
<1>1. Sent(c, of) = it[S]
  BY DEF Sent, MapThenFoldSet
<1>2. S \subseteq Int /\ IsFiniteSet(S)
  <2>1. Len(c.sent) \in Nat /\ DOMAIN c.sent = 1 .. Len(c.sent)
    BY SeqFacts
  <2>2. IsFiniteSet(1 .. Len(c.sent))
    BY <2>1, FS_Interval
  <2>3. S \subseteq 1 .. Len(c.sent)
    BY <2>1
  <2> QED BY <2>1, <2>2, <2>3, FS_Subset
<1>3. Takes(k, S) /\ \A s : Chosen(k, s) = Max(s)
  BY <1>2, TakesMax
<1>4. \A i, d : Turn(k, i, d) = Append(d, c.sent[i])
  BY DEF Turn
<1>5. \A i \in S : FromPool(c.sent[i].msg)
  OBVIOUS
<1> HIDE DEF k, S
<1>6. PICK f : Evaluates(k, S, <<>>, f)
  BY <1>3, FoldExists
<1>7. \A g : \A s \in SUBSET S : Turn(k, Chosen(k, s), g[Others(k, s)])
             = Append(g[s \ {Max(s)}], c.sent[Max(s)])
  BY <1>3, <1>4 DEF Others
<1>8. f = [s \in SUBSET S |-> IF s = {} THEN <<>> ELSE Append(f[s \ {Max(s)}], c.sent[Max(s)])]
  BY <1>6, <1>7 DEF Evaluates
<1>9. it = [s \in SUBSET S |-> IF s = {} THEN <<>> ELSE Append(it[s \ {Max(s)}], c.sent[Max(s)])]
  BY <1>8
<1>10. {} \in G
  <2> HIDE DEF it
  <2>1. it[{}] = <<>>
    BY <1>9
  <2> QED BY <2>1, SeqFacts, ValuesFacts DEF Pooled
<1>11. ASSUME NEW s \in SUBSET S, s # {}, Others(k, s) \in G PROVE s \in G
  <2> HIDE DEF it
  <2>1. it[s] = Append(it[Others(k, s)], c.sent[Max(s)]) /\ Max(s) \in S
    <3>1. Max(s) \in S /\ Others(k, s) = s \ {Max(s)}
      BY <1>3, <1>11, OthersFacts DEF Others
    <3> HIDE DEF G
    <3>2. it[s] = Append(it[s \ {Max(s)}], c.sent[Max(s)])
      BY <1>9, <1>11
    <3> QED BY <3>1, <3>2
  <2>2. Pooled(it[Others(k, s)])
    BY <1>11
  <2>3. IsSeq(it[s]) /\ Values(it[s]) = Values(it[Others(k, s)]) \cup {c.sent[Max(s)]}
    BY <2>1, <2>2, SeqFacts, ValuesFacts DEF Pooled
  <2> QED BY <1>5, <2>1, <2>2, <2>3 DEF Pooled
<1> HIDE DEF it, G
<1>12. S \in G
  BY <1>3, <1>10, <1>11, FoldInduction
<1> QED BY <1>1, <1>12 DEF G

\* Messages of pools that come back through the outputs of S.
Replies(S, t) == IsSeq(t) /\ \A x \in Values(t) : x.port \in S /\ x.op # "empty"

\* Replies after replies are replies.
LEMMA RepliesJoin ==
    ASSUME NEW S, NEW s, NEW t, Replies(S, s), Replies(S, t)
    PROVE  Replies(S, s \o t)
BY SeqFacts, ValuesFacts DEF Replies

\* Messages of pools after messages of pools.
LEMMA PooledJoin ==
    ASSUME NEW s, NEW t, Pooled(s), Pooled(t)
    PROVE  Pooled(s \o t)
BY SeqFacts, ValuesFacts DEF Pooled

\* What a sink answers, and what bounces off a port without one, are replies.
LEMMA BackReplies ==
    ASSUME NEW j, NEW s, Pooled(s), NEW S, j \in S
    PROVE  Replies(S, Answers(j, s)) /\ Replies(S, Bounced(j, s))
<1>1. DOMAIN s = 1 .. Len(s) /\ Len(s) \in Nat
  BY SeqFacts DEF Pooled
<1>2. IsSeq(Answers(j, s)) /\ IsSeq(Bounced(j, s))
  <2>1. /\ DOMAIN Answers(j, s) = 1 .. Len(s)
        /\ Answers(j, s) = [n \in DOMAIN Answers(j, s) |-> Answers(j, s)[n]]
        /\ DOMAIN Bounced(j, s) = 1 .. Len(s)
        /\ Bounced(j, s) = [n \in DOMAIN Bounced(j, s) |-> Bounced(j, s)[n]]
    BY <1>1 DEF Answers, Bounced
  <2> QED BY <1>1, <2>1, SeqFacts
<1>3. \A n \in DOMAIN s : Back(s[n]) # "empty"
  BY DEF Pooled, Values, Back
<1>4. \A n \in DOMAIN s : Answers(j, s)[n].port \in S /\ Answers(j, s)[n].op # "empty"
                          /\ Bounced(j, s)[n].port \in S /\ Bounced(j, s)[n].op # "empty"
  BY <1>3 DEF Answers, Bounced, Item
<1>5. DOMAIN Answers(j, s) = DOMAIN s /\ DOMAIN Bounced(j, s) = DOMAIN s
  BY DEF Answers, Bounced
<1> QED BY <1>2, <1>4, <1>5 DEF Replies, Values

\* The same from several ports, in any order.
BouncedFrom(c, S) == FoldSet(LAMBDA j, b : b \o Bounced(j, Sent(c, j)), <<>>, S)
AnswersFrom(c, S) == FoldSet(LAMBDA j, b : b \o Answers(j, sink[j].q \o Sent(c, j)), <<>>, S)
\* What bounces off all the ports of a set.
LEMMA BouncedReplies ==
    ASSUME NEW c, IsSeq(c.sent), NEW S, IsFiniteSet(S)
    PROVE  Replies(S, BouncedFrom(c, S))
<1> DEFINE k == [op |-> "bounce", sent |-> [j \in S |-> Sent(c, j)]]
           it == CHOOSE f : f = [s \in SUBSET S |-> IF s = {} THEN <<>>
                                   ELSE f[s \ {CHOOSE x \in s : TRUE}]
                                        \o Bounced(CHOOSE x \in s : TRUE, Sent(c, CHOOSE x \in s : TRUE))]
           G == {s \in SUBSET S : Replies(S, it[s])}
<1>1. BouncedFrom(c, S) = it[S]
  BY DEF BouncedFrom, FoldSet, MapThenFoldSet
<1>2. Takes(k, S) /\ \A s : Chosen(k, s) = CHOOSE x \in s : TRUE
  BY TakesAny
<1>3. \A j \in S : \A d : Turn(k, j, d) = d \o Bounced(j, Sent(c, j))
  BY DEF Turn
<1> HIDE DEF k
<1>4. PICK f : Evaluates(k, S, <<>>, f)
  BY <1>2, FoldExists
<1>5. \A g : \A s \in SUBSET S : s # {} =>
        Turn(k, Chosen(k, s), g[Others(k, s)])
          = g[s \ {CHOOSE x \in s : TRUE}] \o Bounced(CHOOSE x \in s : TRUE, Sent(c, CHOOSE x \in s : TRUE))
  BY <1>2, <1>3, OthersFacts DEF Others
<1>6. f = [s \in SUBSET S |-> IF s = {} THEN <<>>
             ELSE f[s \ {CHOOSE x \in s : TRUE}]
                  \o Bounced(CHOOSE x \in s : TRUE, Sent(c, CHOOSE x \in s : TRUE))]
  BY <1>4, <1>5 DEF Evaluates
<1>7. it = [s \in SUBSET S |-> IF s = {} THEN <<>>
             ELSE it[s \ {CHOOSE x \in s : TRUE}]
                  \o Bounced(CHOOSE x \in s : TRUE, Sent(c, CHOOSE x \in s : TRUE))]
  BY <1>6
<1>8. {} \in G
  <2> HIDE DEF it
  <2>1. it[{}] = <<>>
    BY <1>7
  <2> QED BY <2>1, SeqFacts, ValuesFacts DEF Replies
<1>9. ASSUME NEW s \in SUBSET S, s # {}, Others(k, s) \in G PROVE s \in G
  <2> HIDE DEF it
  <2> DEFINE j == Chosen(k, s)
  <2>1. it[s] = it[Others(k, s)] \o Bounced(j, Sent(c, j)) /\ j \in S
    BY <1>2, <1>7, <1>9, OthersFacts DEF Others
  <2>2. Replies(S, Bounced(j, Sent(c, j)))
    BY <2>1, SentPooled, BackReplies
  <2> QED BY <1>9, <2>1, <2>2, RepliesJoin
<1> HIDE DEF it, G
<1>10. S \in G
  BY <1>2, <1>8, <1>9, FoldInduction
<1> QED BY <1>1, <1>10 DEF G

\* What the sinks on the component's own worker answer at once.
LEMMA AnswersReplies ==
    ASSUME NEW c, IsSeq(c.sent), NEW S, IsFiniteSet(S), \A j \in S : Pooled(sink[j].q)
    PROVE  Replies(S, AnswersFrom(c, S))
<1> DEFINE k == [op |-> "answer", sent |-> [j \in S |-> sink[j].q \o Sent(c, j)]]
           it == CHOOSE f : f = [s \in SUBSET S |-> IF s = {} THEN <<>>
                                   ELSE f[s \ {CHOOSE x \in s : TRUE}]
                                        \o Answers(CHOOSE x \in s : TRUE, sink[CHOOSE x \in s : TRUE].q \o Sent(c, CHOOSE x \in s : TRUE))]
           G == {s \in SUBSET S : Replies(S, it[s])}
<1>1. AnswersFrom(c, S) = it[S]
  BY DEF AnswersFrom, FoldSet, MapThenFoldSet
<1>2. Takes(k, S) /\ \A s : Chosen(k, s) = CHOOSE x \in s : TRUE
  BY TakesAny
<1>3. \A j \in S : \A d : Turn(k, j, d) = d \o Answers(j, sink[j].q \o Sent(c, j))
  BY DEF Turn
<1> HIDE DEF k
<1>4. PICK f : Evaluates(k, S, <<>>, f)
  BY <1>2, FoldExists
<1>5. \A g : \A s \in SUBSET S : s # {} =>
        Turn(k, Chosen(k, s), g[Others(k, s)])
          = g[s \ {CHOOSE x \in s : TRUE}]
            \o Answers(CHOOSE x \in s : TRUE, sink[CHOOSE x \in s : TRUE].q \o Sent(c, CHOOSE x \in s : TRUE))
  BY <1>2, <1>3, OthersFacts DEF Others
<1>6. f = [s \in SUBSET S |-> IF s = {} THEN <<>>
             ELSE f[s \ {CHOOSE x \in s : TRUE}]
                  \o Answers(CHOOSE x \in s : TRUE, sink[CHOOSE x \in s : TRUE].q \o Sent(c, CHOOSE x \in s : TRUE))]
  BY <1>4, <1>5 DEF Evaluates
<1>7. it = [s \in SUBSET S |-> IF s = {} THEN <<>>
             ELSE it[s \ {CHOOSE x \in s : TRUE}]
                  \o Answers(CHOOSE x \in s : TRUE, sink[CHOOSE x \in s : TRUE].q \o Sent(c, CHOOSE x \in s : TRUE))]
  BY <1>6
<1>8. {} \in G
  <2> HIDE DEF it
  <2>1. it[{}] = <<>>
    BY <1>7
  <2> QED BY <2>1, SeqFacts, ValuesFacts DEF Replies
<1>9. ASSUME NEW s \in SUBSET S, s # {}, Others(k, s) \in G PROVE s \in G
  <2> HIDE DEF it
  <2> DEFINE j == Chosen(k, s)
  <2>1. it[s] = it[Others(k, s)] \o Answers(j, sink[j].q \o Sent(c, j)) /\ j \in S
    BY <1>2, <1>7, <1>9, OthersFacts DEF Others
  <2>2. Replies(S, Answers(j, sink[j].q \o Sent(c, j)))
    BY <2>1, SentPooled, PooledJoin, BackReplies
  <2> QED BY <1>9, <2>1, <2>2, RepliesJoin
<1> HIDE DEF it, G
<1>10. S \in G
  BY <1>2, <1>8, <1>9, FoldInduction
<1> QED BY <1>1, <1>10 DEF G

-----------------------------------------------------------------------------
(* What the variants are.                                                  *)

\* No feeder of a mixer or MIMO component is on its own worker.
FedFromElsewhere(v) == v.comp.class \in {"mixer", "mimo"} => v.near \cap DOMAIN v.comp.in = {}

\* The ports that a message of one kind comes through.
Sane(v, x) ==
    LET c == v.comp IN
    /\ c.class = "mimo" /\ x.op \in {"fill", "route", "unroute"} => x.port \in DOMAIN c.out
    /\ c.class = "mimo" /\ x.op = "flush" => x.port \in DOMAIN c.in \cup DOMAIN c.out
    /\ c.class = "mixer" /\ x.op = "flush" => x.port \in DOMAIN c.in \cup {MixOut}
    /\ x.op \in {"pause", "resume"} => x.port \in DOMAIN c.in \cup DOMAIN c.out

\* No input comes by the local queue.
Quiet(v, x) == v.comp.class \in {"mixer", "mimo"} => x.op # "empty"
Fits(v, c) == c.class = v.comp.class /\ DOMAIN c.in = DOMAIN v.comp.in /\ DOMAIN c.out = DOMAIN v.comp.out

\* A new port has the shape of one.
LEMMA PortShapes ==
    /\ \A own : DOMAIN InPort(own) = {"q", "flags", "filled"} /\ IsSeq(InPort(own).q)
    /\ \A own : DOMAIN OutPort(own) = {"q", "flags", "ptr"} /\ IsSeq(OutPort(own).q)
BY SeqFacts DEF InPort, OutPort

\* The component of a variant, as the factory leaves it, is sound and fits.
LEMMA VariantFacts ==
    ASSUME NEW v \in Variants
    PROVE  /\ v.comp.class \in {"mixer", "mimo", "renderer", "capturer"}
           /\ Sound(v.comp) /\ Fits(v, v.comp) /\ IsFiniteSet(DOMAIN v.comp.out)
           /\ DOMAIN v.comp.in \subseteq Int
           /\ v.comp.class = "mixer" => MixOut \in DOMAIN v.comp.out /\ v.routes \subseteq {MixOut}
           /\ v.comp.class = "renderer" => 1 \in DOMAIN v.comp.in /\ Played \in DOMAIN v.comp.out
           /\ v.comp.class = "capturer" => Captured \in DOMAIN v.comp.out
           /\ v.routes \cup v.drained \subseteq DOMAIN v.comp.out
           /\ v.pausable \subseteq DOMAIN v.comp.in \cup DOMAIN v.comp.out
<1> DEFINE c == v.comp
<1>1. /\ c.class \in {"mixer", "mimo", "renderer", "capturer"} /\ Configured(c)
      /\ IsFiniteSet(c.pool) /\ IsFiniteSet(DOMAIN c.in) /\ IsFiniteSet(DOMAIN c.out)
      /\ DOMAIN c.in \subseteq Nat /\ v.routes \cup v.drained \subseteq DOMAIN c.out
      /\ v.pausable \subseteq DOMAIN c.in \cup DOMAIN c.out
      /\ c.class = "mixer" => v.routes \subseteq {MixOut}
  BY ClassesAssumption
<1> HIDE DEF c
<1>2. CASE c.class = "mixer"
  <2> DEFINE ins == DOMAIN c.in
             probed == Probe \in DOMAIN c.out
             pool == c.pool
  <2>1. c = MixerConfigured(pool, ins, probed)
    BY <1>2, <1>1 DEF Configured
  <2> HIDE DEF ins, probed, pool
  <2>2. /\ DOMAIN c = Fields /\ c.tree = 0 /\ c.state = {"runtime_init"} /\ c.sent = <<>> /\ c.mode = "running"
        /\ \A i \in DOMAIN c.in : c.in[i] = InPort({"idle"})
        /\ \A j \in DOMAIN c.out : \E own : c.out[j] = OutPort(own)
        /\ MixOut \in DOMAIN c.out
    BY <2>1 DEF MixerConfigured, Fields
  <2> QED BY <1>1, <1>2, <2>2, PortShapes, SeqFacts DEF Sound, ShapeOK, Due, Fits, c
<1>3. CASE c.class = "mimo"
  <2> DEFINE ins == DOMAIN c.in
             outs == DOMAIN c.out
             pool == c.pool
             splits == c.plugin.splits
  <2>1. c = MimoConfigured(pool, ins, outs, splits)
    BY <1>3, <1>1 DEF Configured
  <2> HIDE DEF ins, outs, pool, splits
  <2>2. /\ DOMAIN c = Fields /\ c.tree = 0 /\ c.state = {"runtime_init"} /\ c.sent = <<>> /\ c.mode = "running"
        /\ \A i \in DOMAIN c.in : c.in[i] = InPort({"idle"})
        /\ \A j \in DOMAIN c.out : \E own : c.out[j] = OutPort(own)
    BY <2>1 DEF MimoConfigured, Fields
  <2> QED BY <1>1, <1>3, <2>2, PortShapes, SeqFacts DEF Sound, ShapeOK, Due, Fits, c
<1>4. CASE c.class = "renderer"
  <2> DEFINE pool == c.pool
  <2>1. c = RendererConfigured(pool)
    BY <1>4, <1>1 DEF Configured
  <2> HIDE DEF pool
  <2>2. /\ DOMAIN c = Fields /\ c.tree = 0 /\ c.state = {"runtime_init"} /\ c.sent = <<>> /\ c.mode = "running"
        /\ DOMAIN c.in = {1} /\ DOMAIN c.out = {Played}
        /\ \A i \in DOMAIN c.in : c.in[i] = InPort({})
        /\ \A j \in DOMAIN c.out : \E own : c.out[j] = OutPort(own)
    BY <2>1 DEF RendererConfigured, Fields
  <2> QED BY <1>1, <1>4, <2>2, PortShapes, SeqFacts DEF Sound, ShapeOK, Due, Fits, c
<1>5. CASE c.class = "capturer"
  <2> DEFINE pool == c.pool
             left == c.plugin.left
  <2>1. c = CapturerConfigured(pool, left)
    BY <1>5, <1>1 DEF Configured
  <2> HIDE DEF pool, left
  <2>2. /\ DOMAIN c = Fields /\ c.tree = 0 /\ c.state = {"runtime_init"} /\ c.sent = <<>> /\ c.mode = "running"
        /\ DOMAIN c.in = {} /\ DOMAIN c.out = {Captured}
        /\ \A j \in DOMAIN c.out : \E own : c.out[j] = OutPort(own)
    BY <2>1 DEF CapturerConfigured, Fields
  <2> QED BY <1>1, <1>5, <2>2, PortShapes, SeqFacts DEF Sound, ShapeOK, Due, Fits, c
<1> QED BY <1>1, <1>2, <1>3, <1>4, <1>5 DEF c

\* What comes back through a routed output is sane, and no input.
LEMMA RepliesSane ==
    ASSUME NEW v \in Variants, NEW S, S \subseteq v.routes, NEW t, Replies(S, t), NEW x \in Values(t)
    PROVE  Sane(v, x) /\ Quiet(v, x)
<1>1. x.port \in v.routes /\ x.op # "empty"
  BY DEF Replies
<1> QED BY <1>1, VariantFacts DEF Sane, Quiet

-----------------------------------------------------------------------------
(* A handler, whatever the class.                                          *)

Live(v, c) == v \in Variants /\ Fits(v, c) /\ Sound(c) /\ c.mode = "running"

\* A live component is one of its class.
LEMMA LiveFacts ==
    ASSUME NEW v, NEW c, Live(v, c)
    PROVE  /\ c.class \in {"mixer", "mimo", "renderer", "capturer"}
           /\ c.class = "mixer" => MixerOK(c)
           /\ MimoOK(c)
           /\ c.class = "renderer" => RendererOK(c)
           /\ c.class = "capturer" => CapturerOK(c)
BY VariantFacts DEF Live, Fits, MixerOK, MimoOK, RendererOK, CapturerOK

\* EMPTY_THIS_BUFFER, for the four classes; the mixer and the MIMO class must be out of the schedule.
LEMMA EmptiedRuns ==
    ASSUME NEW v, NEW c, Live(v, c), NEW x, c.class \in {"mixer", "mimo"} => ~Due(c)
    PROVE  Runs(c, Emptied(c, x))
BY LiveFacts, MixerEmptyRuns, MimoEmptyRuns, RendererEmptyRuns, CapturerEmptyRuns DEF Emptied

\* FILL_THIS_BUFFER, for the four classes.
LEMMA FilledRuns ==
    ASSUME NEW v, NEW c, Live(v, c), NEW x, Sane(v, x), x.op = "fill"
    PROVE  Runs(c, Filled(c, x))
<1>1. c.class = "mimo" => x.port \in DOMAIN c.out
  BY DEF Live, Fits, Sane
<1> QED BY <1>1, LiveFacts, MixerFillRuns, MimoFillRuns, RendererFillRuns, CapturerFillRuns DEF Filled

\* XF_ROUTE and XF_UNROUTE, for the four classes.
LEMMA RoutesRuns ==
    ASSUME NEW v, NEW c, Live(v, c), NEW x, Sane(v, x), x.op \in {"route", "unroute"}
    PROVE  Runs(c, Routes(c, x)) /\ Runs(c, Unroutes(c, x))
<1>1. c.class = "mimo" => x.port \in DOMAIN c.out
  BY DEF Live, Fits, Sane
<1>2. Runs(c, Routes(c, x))
  BY LiveFacts, MixerRouteRuns, MimoRouteRuns, RendererRouteRuns, CapturerRouteRuns DEF Routes
<1>3. Runs(c, Unroutes(c, x))
  BY <1>1, LiveFacts, MixerRouteRuns, MimoUnrouteRuns, RendererRouteRuns, CapturerRouteRuns DEF Unroutes
<1> QED BY <1>2, <1>3

\* XF_FLUSH, for the four classes.
LEMMA FlushedRuns ==
    ASSUME NEW v, NEW c, Live(v, c), NEW x, Sane(v, x), x.op = "flush"
    PROVE  Runs(c, Flushed(c, x))
<1>1. /\ c.class = "mimo" => x.port \in DOMAIN c.in \cup DOMAIN c.out
      /\ c.class = "mixer" => x.port \in DOMAIN c.in \/ x.port = MixOut
  BY DEF Live, Fits, Sane
<1> QED BY <1>1, LiveFacts, MixerFlushRuns, MimoFlushRuns, RendererFlushRuns, CapturerFlushRuns DEF Flushed

\* XF_PAUSE and XF_RESUME, for the classes that know them.
LEMMA PausedRuns ==
    ASSUME NEW v, NEW c, Live(v, c), NEW x, Sane(v, x), x.op \in {"pause", "resume"}
    PROVE  /\ Runs(c, IF c.class = "mixer" THEN MixerPause(c, x) ELSE MimoPause(c, x))
           /\ Runs(c, IF c.class = "mixer" THEN MixerResume(c, x) ELSE MimoResume(c, x))
<1>1. x.port \in DOMAIN c.in \cup DOMAIN c.out
  BY DEF Live, Fits, Sane
<1> QED BY <1>1, LiveFacts, MixerPauseRuns, MimoPauseRuns

\* xa_base_process, for the four classes.
LEMMA ProcessedRuns ==
    ASSUME NEW v, NEW c, Live(v, c)
    PROVE  Runs(c, Processed(c))
BY LiveFacts, MixerProcessRuns, MimoProcessRuns, RendererProcessRuns, CapturerProcessRuns DEF Processed

\* XF_UNREGISTER, for the four classes.
LEMMA CleanedFollows ==
    ASSUME NEW v, NEW c, Live(v, c)
    PROVE  Follows(c, Cleaned(c))
BY LiveFacts, MixerCleanupFollows, MimoCleanupFollows, RendererCleanupFollows, CapturerCleanupFollows
DEF Cleaned, MixerOK, MimoOK, RendererOK, CapturerOK

\* A message for a component that waits for its ports.
LEMMA TerminatingFollows ==
    ASSUME NEW v \in Variants, NEW c, Fits(v, c), Sound(c), c.mode = "terminating", NEW x
    PROVE  Follows(c, Terminating(c, x))
<1>1. ~Due(c) /\ c.class \in {"mixer", "mimo", "renderer", "capturer"}
  BY VariantFacts DEF Sound, Fits
<1> QED BY <1>1, MixerTerminateFollows, MimoTerminateFollows, RendererTerminateFollows,
           CapturerTerminateFollows DEF Terminating

-----------------------------------------------------------------------------
(* The invariant.                                                          *)

NeighboursOK ==
    /\ DOMAIN feed = DOMAIN variant.comp.in /\ DOMAIN sink = variant.routes
    /\ \A j \in DOMAIN sink : DOMAIN sink[j] = {"alive", "q"} /\ Pooled(sink[j].q)
QueuesOK ==
    /\ IsSeq(local) /\ \A x \in Values(local) : Sane(variant, x) /\ Quiet(variant, x)
    /\ IsSeq(inbox) /\ \A x \in Values(inbox) : Sane(variant, x)
ScheduleInv ==
    /\ variant \in Variants /\ Fits(variant, comp) /\ Sound(comp)
    /\ NeighboursOK /\ QueuesOK

\* The invariant implies the property.
LEMMA ScheduleInvHolds ==
    ASSUME ScheduleInv
    PROVE  ScheduledOnce
BY DEF ScheduleInv, Sound, Due, Gone, ScheduledOnce

\* It holds at first.
LEMMA InitScheduled ==
    ASSUME Init
    PROVE  ScheduleInv
<1>1. /\ variant \in Variants /\ comp = variant.comp /\ local = <<>> /\ inbox = <<>>
      /\ DOMAIN feed = DOMAIN comp.in /\ DOMAIN sink = variant.routes
      /\ \A j \in DOMAIN sink : sink[j] = Living
  BY DEF Init
<1>2. DOMAIN Living = {"alive", "q"} /\ Pooled(Living.q)
  BY SeqFacts, ValuesFacts DEF Living, Pooled
<1>3. NeighboursOK
  BY <1>1, <1>2 DEF NeighboursOK
<1>4. QueuesOK
  BY <1>1, SeqFacts, ValuesFacts DEF QueuesOK
<1> QED BY <1>1, <1>3, <1>4, VariantFacts DEF ScheduleInv

\* The component did something and what it sent is delivered.
LEMMA BecomesScheduled ==
    ASSUME ScheduleInv, NEW c, Fits(variant, c), Sound(c), NEW l, NEW q, Becomes(c, l, q),
           IsSeq(l), \A x \in Values(l) : Sane(variant, x) /\ Quiet(variant, x),
           IsSeq(q), \A x \in Values(q) : Sane(variant, x)
    PROVE  ScheduleInv'
<1> DEFINE dead == {j \in DOMAIN sink : ~sink[j].alive}
           back == BouncedFrom(c, dead)
           flushed == {j \in (variant.near \cap DOMAIN sink) \ dead :
                         \E n \in DOMAIN c.sent : c.sent[n].msg = Control(j) /\ c.sent[n].op = "flush"}
           prompt == AnswersFrom(c, flushed)
<1>1. /\ comp' = [c EXCEPT !.sent = <<>>]
      /\ local' = IF c.mode = "gone" THEN <<>> ELSE l \o prompt
      /\ inbox' = IF c.mode = "gone" THEN <<>> ELSE q \o back
      /\ DOMAIN feed' = DOMAIN feed
      /\ sink' = [j \in DOMAIN sink |->
                    IF j \in dead THEN sink[j]
                    ELSE IF j \in flushed THEN Living ELSE [sink[j] EXCEPT !.q = @ \o Sent(c, j)]]
      /\ variant' = variant
  BY DEF Becomes, BouncedFrom, AnswersFrom
<1>2. /\ IsSeq(c.sent) /\ ShapeOK(c)
      /\ DOMAIN sink = variant.routes /\ IsFiniteSet(DOMAIN sink)
      /\ variant \in Variants
  <2>1. variant.routes \subseteq DOMAIN variant.comp.out /\ IsFiniteSet(DOMAIN variant.comp.out)
    BY VariantFacts DEF ScheduleInv
  <2> QED BY <2>1, FS_Subset DEF ScheduleInv, NeighboursOK, Sound, ShapeOK
<1>3. dead \subseteq DOMAIN sink /\ flushed \subseteq DOMAIN sink
  OBVIOUS
<1> HIDE DEF flushed, dead
<1>4. IsFiniteSet(dead) /\ IsFiniteSet(flushed)
  BY <1>2, <1>3, FS_Subset
<1>5. Replies(dead, back)
  BY <1>2, <1>4, BouncedReplies
<1>6. Replies(flushed, prompt)
  <2>1. \A j \in flushed : Pooled(sink[j].q)
    BY <1>3 DEF ScheduleInv, NeighboursOK
  <2> QED BY <1>2, <1>4, <2>1, AnswersReplies
<1> HIDE DEF back, prompt
<1>7. Sound(comp') /\ Fits(variant', comp')
  <2>1. Kin(c, comp')
    BY <1>1, <1>2, SeqFacts, SentKin
  <2> QED BY <1>1, <2>1, KinRuns DEF Runs, SameFrame, Fits
<1>8. QueuesOK'
  <2>1. \A x \in Values(back) : Sane(variant, x)
    BY <1>2, <1>3, <1>5, RepliesSane
  <2>2. \A x \in Values(prompt) : Sane(variant, x) /\ Quiet(variant, x)
    BY <1>2, <1>3, <1>6, RepliesSane
  <2>3. IsSeq(local') /\ \A x \in Values(local') : Sane(variant, x) /\ Quiet(variant, x)
    BY <1>1, <1>6, <2>2, SeqFacts, ValuesFacts DEF Replies
  <2>4. IsSeq(inbox') /\ \A x \in Values(inbox') : Sane(variant, x)
    BY <1>1, <1>5, <2>1, SeqFacts, ValuesFacts DEF Replies
  <2> QED BY <1>1, <2>3, <2>4 DEF QueuesOK
<1>9. NeighboursOK'
  <2>1. DOMAIN sink' = DOMAIN sink /\ DOMAIN feed' = DOMAIN feed
    BY <1>1
  <2>2. ASSUME NEW j \in DOMAIN sink PROVE DOMAIN sink'[j] = {"alive", "q"} /\ Pooled(sink'[j].q)
    <3>1. DOMAIN sink[j] = {"alive", "q"} /\ Pooled(sink[j].q)
      BY DEF ScheduleInv, NeighboursOK
    <3>2. DOMAIN Living = {"alive", "q"} /\ Pooled(Living.q)
      BY SeqFacts, ValuesFacts DEF Living, Pooled
    <3> DEFINE r == [sink[j] EXCEPT !.q = sink[j].q \o Sent(c, j)]
    <3>3. DOMAIN r = {"alive", "q"} /\ Pooled(r.q)
      BY <1>2, <3>1, SentPooled, PooledJoin
    <3>4. sink'[j] \in {sink[j], Living, r}
      BY <1>1
    <3> HIDE DEF r
    <3> QED BY <3>1, <3>2, <3>3, <3>4
  <2> QED BY <1>1, <2>1, <2>2 DEF ScheduleInv, NeighboursOK
<1> QED BY <1>1, <1>2, <1>7, <1>8, <1>9 DEF ScheduleInv

\* The queues without the message that is taken.
LEMMA LeftFacts ==
    ASSUME ScheduleInv, NEW x \in NextItem
    PROVE  /\ Sane(variant, x)
           /\ IsSeq(LocalLeft) /\ \A y \in Values(LocalLeft) : Sane(variant, y) /\ Quiet(variant, y)
           /\ IsSeq(InboxLeft) /\ \A y \in Values(InboxLeft) : Sane(variant, y)
           /\ x.op = "empty" /\ comp.class \in {"mixer", "mimo"} => ~Due(comp)
<1>1. /\ IsSeq(local) /\ \A y \in Values(local) : Sane(variant, y) /\ Quiet(variant, y)
      /\ IsSeq(inbox) /\ \A y \in Values(inbox) : Sane(variant, y)
  BY DEF ScheduleInv, QueuesOK
<1>2. CASE local # <<>>
  <2>1. x = Head(local) /\ LocalLeft = Tail(local) /\ InboxLeft = inbox
    BY <1>2 DEF NextItem, LocalLeft, InboxLeft
  <2>2. x \in Values(local) /\ Values(LocalLeft) \subseteq Values(local) /\ IsSeq(LocalLeft)
    BY <1>1, <1>2, <2>1, SeqFacts, ValuesFacts
  <2>3. comp.class = variant.comp.class
    BY DEF ScheduleInv, Fits
  <2> QED BY <1>1, <2>1, <2>2, <2>3 DEF Quiet
<1>3. CASE local = <<>>
  <2>1. comp.tree = 0 /\ LocalLeft = <<>> /\ InboxLeft = Tail(inbox) /\ x \in Values(inbox)
    BY <1>3 DEF NextItem, LocalLeft, InboxLeft, Values
  <2>2. inbox # <<>>
    BY <2>1, ValuesFacts
  <2>3. IsSeq(InboxLeft) /\ Values(InboxLeft) \subseteq Values(inbox)
    BY <1>1, <2>1, <2>2, SeqFacts, ValuesFacts
  <2>4. ~Due(comp)
    BY <2>1 DEF ScheduleInv, Sound
  <2> QED BY <1>1, <2>1, <2>3, <2>4, SeqFacts, ValuesFacts
<1> QED BY <1>2, <1>3

\* A handler ran.
LEMMA HandledScheduled ==
    ASSUME ScheduleInv, NEW x \in NextItem, NEW c, Follows(comp, c), Handled(c)
    PROVE  ScheduleInv'
<1> DEFINE rest == LocalLeft \o InboxLeft
           t == [n \in DOMAIN rest |-> [msg |-> rest[n].msg, op |-> Back(rest[n]),
                                        len |-> IF FromPool(rest[n].msg) THEN Invalid ELSE 0]]
           d == IF c.mode # "gone" THEN c ELSE [c EXCEPT !.sent = c.sent \o t]
<1>1. Becomes(d, LocalLeft, InboxLeft)
  BY DEF Handled, WithRest
<1>2. IsSeq(t)
  <2>1. IsSeq(rest)
    BY LeftFacts, SeqFacts
  <2> HIDE DEF rest
  <2>2. Len(rest) \in Nat /\ DOMAIN rest = 1 .. Len(rest)
    BY <2>1, SeqFacts
  <2>3. DOMAIN t = 1 .. Len(rest) /\ t = [n \in DOMAIN t |-> t[n]]
    BY <2>2
  <2> HIDE DEF t
  <2> QED BY <2>2, <2>3, SeqFacts
<1> HIDE DEF t
<1>3. Sound(c) /\ Fits(variant, c)
  BY DEF Follows, ScheduleInv, Fits
<1>4. Kin(c, d)
  <2>1. ShapeOK(c) /\ IsSeq(c.sent \o t)
    BY <1>2, <1>3, SeqFacts DEF Sound, ShapeOK
  <2> QED BY <2>1, KinSelf, SentKin
<1> HIDE DEF d
<1>5. Sound(d) /\ Fits(variant, d)
  BY <1>3, <1>4, KinRuns DEF Runs, SameFrame, Fits
<1> QED BY <1>1, <1>5, LeftFacts, BecomesScheduled

-----------------------------------------------------------------------------
(* The steps.                                                              *)

\* A step of the worker: a message from its queues, or the component at the head of its tree.
LEMMA WorkerScheduled ==
    ASSUME ScheduleInv, WorkerStep
    PROVE  ScheduleInv'
<1>1. variant \in Variants /\ Fits(variant, comp) /\ Sound(comp)
  BY DEF ScheduleInv
<1>2. \A op : \A x \in Gets(op) : x \in NextItem /\ x.op = op /\ Live(variant, comp) /\ Sane(variant, x)
  BY <1>1, LeftFacts DEF Gets, Live
<1>3. CASE EmptyThisBuffer
  <2>1. PICK x \in Gets("empty") : Handled(Emptied(comp, x))
    BY <1>3 DEF EmptyThisBuffer
  <2>2. Runs(comp, Emptied(comp, x))
    BY <1>2, <2>1, LeftFacts, EmptiedRuns
  <2> QED BY <1>2, <2>1, <2>2, RunsFollows, HandledScheduled
<1>4. CASE FillThisBuffer
  <2>1. PICK x \in Gets("fill") : Handled(Filled(comp, x))
    BY <1>4 DEF FillThisBuffer
  <2>2. Runs(comp, Filled(comp, x))
    BY <1>2, <2>1, FilledRuns
  <2> QED BY <1>2, <2>1, <2>2, RunsFollows, HandledScheduled
<1>5. CASE PortRoute
  <2>1. PICK x \in Gets("route") : Handled(Routes(comp, x))
    BY <1>5 DEF PortRoute
  <2>2. Runs(comp, Routes(comp, x))
    BY <1>2, <2>1, RoutesRuns
  <2> QED BY <1>2, <2>1, <2>2, RunsFollows, HandledScheduled
<1>6. CASE PortUnroute
  <2>1. PICK x \in Gets("unroute") : Handled(Unroutes(comp, x))
    BY <1>6 DEF PortUnroute
  <2>2. Runs(comp, Unroutes(comp, x))
    BY <1>2, <2>1, RoutesRuns
  <2> QED BY <1>2, <2>1, <2>2, RunsFollows, HandledScheduled
<1>7. CASE PortPause
  <2>1. PICK x \in Gets("pause") :
          Handled(IF comp.class = "mixer" THEN MixerPause(comp, x) ELSE MimoPause(comp, x))
    BY <1>7 DEF PortPause
  <2>2. Runs(comp, IF comp.class = "mixer" THEN MixerPause(comp, x) ELSE MimoPause(comp, x))
    BY <1>2, <2>1, PausedRuns
  <2> QED BY <1>2, <2>1, <2>2, RunsFollows, HandledScheduled
<1>8. CASE PortResume
  <2>1. PICK x \in Gets("resume") :
          Handled(IF comp.class = "mixer" THEN MixerResume(comp, x) ELSE MimoResume(comp, x))
    BY <1>8 DEF PortResume
  <2>2. Runs(comp, IF comp.class = "mixer" THEN MixerResume(comp, x) ELSE MimoResume(comp, x))
    BY <1>2, <2>1, PausedRuns
  <2> QED BY <1>2, <2>1, <2>2, RunsFollows, HandledScheduled
<1>9. CASE SetParam
  <2>1. PICK x \in Gets("set_param") :
          Handled(IF comp.class = "renderer" THEN RendererStart(comp, x) ELSE CapturerStart(comp, x))
    BY <1>9 DEF SetParam
  <2>2. Runs(comp, IF comp.class = "renderer" THEN RendererStart(comp, x) ELSE CapturerStart(comp, x))
    BY <1>1, <1>2, <2>1, LiveFacts, RendererStartRuns, CapturerStartRuns
  <2> QED BY <1>2, <2>1, <2>2, RunsFollows, HandledScheduled
<1>10. CASE Flush
  <2>1. PICK x \in Gets("flush") : Handled(Flushed(comp, x))
    BY <1>10 DEF Flush
  <2>2. Runs(comp, Flushed(comp, x))
    BY <1>2, <2>1, FlushedRuns
  <2> QED BY <1>2, <2>1, <2>2, RunsFollows, HandledScheduled
<1>11. CASE Unregister
  <2>1. PICK x \in Gets("unregister") : Handled(Cleaned(comp))
    BY <1>11 DEF Unregister
  <2>2. Follows(comp, Cleaned(comp))
    BY <1>2, <2>1, CleanedFollows
  <2> QED BY <1>2, <2>1, <2>2, HandledScheduled
<1>12. CASE Terminate
  <2>1. PICK x \in NextItem : comp.mode = "terminating" /\ Handled(Terminating(comp, x))
    BY <1>12 DEF Terminate
  <2>2. Follows(comp, Terminating(comp, x))
    BY <1>1, <2>1, TerminatingFollows
  <2> QED BY <2>1, <2>2, HandledScheduled
<1>13. CASE Process
  <2> DEFINE c == [comp EXCEPT !.state = comp.state \ {"schedule"}, !.tree = comp.tree - 1]
             d == IF comp.mode = "running" THEN Processed(c) ELSE c
  <2>1. Becomes(d, <<>>, inbox) /\ comp.tree > 0
    BY <1>13 DEF Process
  <2>2. Due(comp) /\ comp.tree = 1
    BY <1>1, <2>1 DEF Sound
  <2>3. Runs(comp, c)
    BY <1>1, <2>2 DEF Sound, ShapeOK, Fields, Due, Runs, SameFrame
  <2> HIDE DEF c
  <2>4. comp.mode = "running" => Live(variant, c)
    BY <1>1, <2>3 DEF Live, Runs, SameFrame, Fits
  <2>5. Runs(comp, d)
    BY <2>3, <2>4, ProcessedRuns, RunsRuns
  <2> HIDE DEF d
  <2>6. Sound(d) /\ Fits(variant, d)
    BY <1>1, <2>5 DEF Runs, SameFrame, Fits
  <2>7. IsSeq(inbox) /\ \A x \in Values(inbox) : Sane(variant, x)
    BY DEF ScheduleInv, QueuesOK
  <2> QED BY <2>1, <2>6, <2>7, SeqFacts, ValuesFacts, BecomesScheduled
<1> QED BY <1>3, <1>4, <1>5, <1>6, <1>7, <1>8, <1>9, <1>10, <1>11, <1>12, <1>13 DEF WorkerStep

\* A message comes.
LEMMA AppendQueues ==
    ASSUME ScheduleInv, variant' = variant, NEW x, Sane(variant, x),
           local' = local, inbox' = Append(inbox, x)
    PROVE  QueuesOK'
BY SeqFacts, ValuesFacts DEF ScheduleInv, QueuesOK

\* A message from a neighbour: quiet when it is on the component's own worker.
LEMMA ArrivesQueues ==
    ASSUME ScheduleInv, variant' = variant, NEW x, Sane(variant, x),
           x.port \in variant.near => Quiet(variant, x), Arrives(x)
    PROVE  QueuesOK'
<1>1. CASE x.port \in variant.near
  <2>1. local' = <<x>> /\ inbox' = inbox /\ Quiet(variant, x)
    BY <1>1 DEF Arrives
  <2>3. IsSeq(<<x>>) /\ Values(<<x>>) = {x}
    <3>1. <<x>> \in Seq({x})
      OBVIOUS
    <3>2. DOMAIN <<x>> = {1} /\ <<x>>[1] = x
      OBVIOUS
    <3>3. IsSeq(<<x>>)
      BY <3>1 DEF IsSeq
    <3>4. Values(<<x>>) = {x}
      BY <3>2 DEF Values
    <3> QED BY <3>3, <3>4
  <2> QED BY <2>1, <2>3 DEF ScheduleInv, QueuesOK
<1>2. CASE x.port \notin variant.near
  BY <1>2, AppendQueues DEF Arrives
<1> QED BY <1>1, <1>2

\* The queues are what they were.
LEMMA SameQueues ==
    ASSUME ScheduleInv, variant' = variant, local' = local, inbox' = inbox
    PROVE  QueuesOK'
BY DEF ScheduleInv, QueuesOK

\* The neighbours are what they were.
LEMMA SameNeighbours ==
    ASSUME ScheduleInv, variant' = variant, DOMAIN feed' = DOMAIN feed, sink' = sink
    PROVE  NeighboursOK'
BY DEF ScheduleInv, NeighboursOK

\* The component is not concerned.
LEMMA StillScheduled ==
    ASSUME ScheduleInv, variant' = variant, comp' = comp, QueuesOK', NeighboursOK'
    PROVE  ScheduleInv'
BY DEF ScheduleInv

\* The feeders.
LEMMA FeedsScheduled ==
    ASSUME ScheduleInv, FedFromElsewhere(variant), NEW i \in DOMAIN feed, NEW what, NEW op \in {"empty", "flush"},
           NEW len, NEW f, Feeds(i, what, op, len, f)
    PROVE  ScheduleInv'
<1> DEFINE x == Item(i, Msg(i, what), op, len)
<1>1. Arrives(x) /\ feed' = [feed EXCEPT ![i] = f] /\ variant' = variant /\ comp' = comp /\ sink' = sink
  BY DEF Feeds
<1>2. x.port = i /\ x.op = op /\ i \in DOMAIN variant.comp.in
  BY DEF Item, ScheduleInv, NeighboursOK
<1> HIDE DEF x
<1>3. Sane(variant, x) /\ (i \in variant.near => Quiet(variant, x))
  BY <1>2 DEF Sane, Quiet, FedFromElsewhere
<1>4. QueuesOK'
  BY <1>1, <1>2, <1>3, ArrivesQueues
<1>5. NeighboursOK'
  BY <1>1, SameNeighbours
<1> QED BY <1>1, <1>4, <1>5, StillScheduled

\* Any step of a feeder.
LEMMA FeederScheduled ==
    ASSUME ScheduleInv, FedFromElsewhere(variant), NEW i \in DOMAIN feed,
           \/ FeederData(i) \/ FeederOver(i) \/ FeederFlush(i) \/ FeederEnds(i) \/ FeederConnects(i)
    PROVE  ScheduleInv'
<1>1. CASE FeederData(i)
  <2>1. PICK b : Feeds(i, b, "empty", 1, [feed[i] EXCEPT !.home = @ \ {b}, !.control = "home"])
    BY <1>1 DEF FeederData
  <2> QED BY <2>1, FeedsScheduled
<1>2. CASE FeederOver(i)
  <2>1. Feeds(i, "control", "empty", 0, [feed[i] EXCEPT !.control = "over"])
    BY <1>2 DEF FeederOver
  <2> QED BY <2>1, FeedsScheduled
<1>3. CASE FeederFlush(i)
  <2>1. PICK on : Feeds(i, "control", "flush", 0, [feed[i] EXCEPT !.control = "flush", !.on = on])
    BY <1>3 DEF FeederFlush
  <2> QED BY <2>1, FeedsScheduled
<1>4. CASE FeederEnds(i) \/ FeederConnects(i)
  <2>1. /\ DOMAIN feed' = DOMAIN feed /\ variant' = variant /\ comp' = comp /\ sink' = sink
        /\ local' = local /\ inbox' = inbox
    BY <1>4 DEF FeederEnds, FeederConnects
  <2> QED BY <2>1, SameQueues, SameNeighbours, StillScheduled
<1> QED BY <1>1, <1>2, <1>3, <1>4

\* The sinks.
LEMMA SinkAnswersScheduled ==
    ASSUME ScheduleInv, NEW j \in DOMAIN sink, SinkAnswers(j)
    PROVE  ScheduleInv'
<1> DEFINE q == sink[j].q
           s == Head(q)
           x == Item(j, s.msg, Back(s), s.len)
<1>1. /\ q # <<>> /\ Arrives(x) /\ sink' = [sink EXCEPT ![j].q = Tail(@)]
      /\ variant' = variant /\ comp' = comp /\ feed' = feed
  BY DEF SinkAnswers
<1>2. Pooled(q) /\ DOMAIN sink[j] = {"alive", "q"} /\ j \in variant.routes /\ variant \in Variants
  BY DEF ScheduleInv, NeighboursOK
<1>3. FromPool(s.msg) /\ Pooled(Tail(q))
  BY <1>1, <1>2, SeqFacts, ValuesFacts DEF Pooled
<1>4. x.port = j /\ x.op # "empty"
  BY <1>3 DEF Item, Back
<1> HIDE DEF x
<1>5. Sane(variant, x) /\ Quiet(variant, x)
  BY <1>2, <1>4, VariantFacts DEF Sane, Quiet
<1>6. QueuesOK'
  BY <1>1, <1>5, ArrivesQueues
<1>7. /\ DOMAIN sink' = DOMAIN sink /\ DOMAIN sink'[j] = {"alive", "q"} /\ sink'[j].q = Tail(q)
      /\ \A k \in DOMAIN sink : k # j => sink'[k] = sink[k]
  BY <1>1, <1>2
<1>8. NeighboursOK'
  BY <1>1, <1>3, <1>7 DEF ScheduleInv, NeighboursOK
<1> QED BY <1>1, <1>6, <1>8, StillScheduled

\* A sink goes away, and what it held bounces.
LEMMA SinkDiesScheduled ==
    ASSUME ScheduleInv, NEW j \in DOMAIN sink, SinkDies(j)
    PROVE  ScheduleInv'
<1> DEFINE q == sink[j].q
           Answered(n, k) == IF j \in variant.near \/ k <= n THEN 0 ELSE Invalid
           Came(n) == [k \in DOMAIN q |-> [Answers(j, q)[k] EXCEPT !.len = Answered(n, k)]]
<1>1. PICK n : IF j \in variant.near THEN local' = Came(n) /\ inbox' = inbox
               ELSE inbox' = inbox \o Came(n) /\ local' = local
  BY DEF SinkDies
<1>2. /\ sink' = [sink EXCEPT ![j] = [alive |-> FALSE, q |-> <<>>]]
      /\ variant' = variant /\ comp' = comp /\ feed' = feed
  BY DEF SinkDies
<1>3. Pooled(q) /\ j \in variant.routes /\ variant \in Variants
  BY DEF ScheduleInv, NeighboursOK
<1> DEFINE t == Came(n)
<1>4. Replies(variant.routes, t)
  <2>1. Replies(variant.routes, Answers(j, q))
    BY <1>3, BackReplies
  <2>2. DOMAIN q = 1 .. Len(q) /\ Len(q) \in Nat /\ DOMAIN Answers(j, q) = DOMAIN q
    BY <1>3, SeqFacts DEF Pooled, Answers
  <2>3. DOMAIN t = 1 .. Len(q) /\ t = [k \in DOMAIN t |-> t[k]]
    BY <2>2
  <2>4. IsSeq(t)
    <3> HIDE DEF t
    <3> QED BY <2>2, <2>3, SeqFacts
  <2>5. ASSUME NEW k \in DOMAIN q PROVE t[k].port \in variant.routes /\ t[k].op # "empty"
    <3> DEFINE a == Answers(j, q)[k]
    <3>1. a \in Values(Answers(j, q))
      BY <2>2 DEF Values
    <3>2. a.port \in variant.routes /\ a.op # "empty"
      BY <2>1, <3>1 DEF Replies
    <3>3. DOMAIN a = {"port", "msg", "op", "len"}
      BY DEF Answers, Item
    <3>4. t[k] = [a EXCEPT !.len = Answered(n, k)]
      OBVIOUS
    <3> HIDE DEF a, t, Answered
    <3> QED BY <3>2, <3>3, <3>4
  <2> HIDE DEF t
  <2> QED BY <2>2, <2>3, <2>4, <2>5 DEF Replies, Values
<1> HIDE DEF Came, Answered, t
<1>5. IF j \in variant.near THEN local' = t /\ inbox' = inbox ELSE inbox' = inbox \o t /\ local' = local
  BY <1>1 DEF t
<1>6. IsSeq(t) /\ \A x \in Values(t) : Sane(variant, x) /\ Quiet(variant, x)
  BY <1>3, <1>4, RepliesSane DEF Replies
<1>7. QueuesOK'
  <2>1. /\ IsSeq(local) /\ \A x \in Values(local) : Sane(variant, x) /\ Quiet(variant, x)
        /\ IsSeq(inbox) /\ \A x \in Values(inbox) : Sane(variant, x)
    BY DEF ScheduleInv, QueuesOK
  <2>2. IsSeq(inbox \o t) /\ \A x \in Values(inbox \o t) : Sane(variant, x)
    <3>1. IsSeq(inbox \o t) /\ Values(inbox \o t) = Values(inbox) \cup Values(t)
      BY <1>6, <2>1, SeqFacts, ValuesFacts
    <3> QED BY <1>6, <2>1, <3>1
  <2>3. CASE j \in variant.near
    BY <1>2, <1>5, <1>6, <2>1, <2>3 DEF QueuesOK
  <2>4. CASE j \notin variant.near
    BY <1>2, <1>5, <2>1, <2>2, <2>4 DEF QueuesOK
  <2> QED BY <2>3, <2>4
<1>8. NeighboursOK'
  <2> DEFINE r == [alive |-> FALSE, q |-> <<>>]
  <2>1. DOMAIN r = {"alive", "q"} /\ Pooled(r.q)
    BY SeqFacts, ValuesFacts DEF Pooled
  <2> HIDE DEF r
  <2>2. DOMAIN sink' = DOMAIN sink /\ sink'[j] = r /\ \A k \in DOMAIN sink : k # j => sink'[k] = sink[k]
    BY <1>2 DEF r
  <2> QED BY <1>2, <2>1, <2>2 DEF ScheduleInv, NeighboursOK
<1> QED BY <1>2, <1>7, <1>8, StillScheduled

\* The application.
LEMMA CommandsScheduled ==
    ASSUME ScheduleInv, NEW m, NEW x, Sane(variant, x), Commands(m, x), NeighboursOK'
    PROVE  ScheduleInv'
<1>1. variant' = variant /\ comp' = comp /\ local' = local /\ inbox' = Append(inbox, x)
  BY DEF Commands
<1> QED BY <1>1, AppendQueues, StillScheduled

\* A command does not touch the feeders and the sinks' queues.
LEMMA CommandsNeighbours ==
    ASSUME ScheduleInv, NEW m, NEW x, Commands(m, x), sink' = sink
    PROVE  NeighboursOK'
BY SameNeighbours DEF Commands

\* A command of the application comes.
LEMMA CallsScheduled ==
    ASSUME ScheduleInv, NEW op, NEW port, op \in {"unregister", "set_param"} \/
           (op \in {"route", "unroute"} /\ port \in variant.routes) \/
           (op \in {"pause", "resume"} /\ port \in variant.pausable),
           Calls(op, port), NeighboursOK' \/ sink' = sink
    PROVE  ScheduleInv'
<1> DEFINE x == Item(port, Cmd, op, 0)
<1>1. Commands(Cmd, x)
  BY DEF Calls
<1>2. x.op = op /\ x.port = port
  BY DEF Item
<1> HIDE DEF x
<1>3. Sane(variant, x)
  BY <1>2, VariantFacts DEF Sane, ScheduleInv
<1> QED BY <1>1, <1>3, CommandsScheduled, CommandsNeighbours

\* The application starts an output, or hands it a buffer to fill.
LEMMA OutputScheduled ==
    ASSUME ScheduleInv, NEW j \in variant.routes \cup variant.drained, StartOutput(j) \/ NeedOutput(j)
    PROVE  ScheduleInv'
<1>1. PICK m, len : Commands(m, Item(j, m, "fill", len)) /\ sink' = sink
  BY DEF StartOutput, NeedOutput
<1> DEFINE x == Item(j, m, "fill", len)
<1>2. x.op = "fill" /\ x.port = j
  BY DEF Item
<1> HIDE DEF x
<1>3. Sane(variant, x)
  BY <1>2, VariantFacts DEF Sane, ScheduleInv
<1> QED BY <1>1, <1>3, CommandsScheduled, CommandsNeighbours DEF x

\* The other calls of the application.
LEMMA CallScheduled ==
    ASSUME ScheduleInv,
           \/ \E j \in DOMAIN sink : Connect(j) \/ Disconnect(j)
           \/ \E p \in variant.pausable : Pause(p) \/ Resume(p)
           \/ Delete \/ StartDevice
    PROVE  ScheduleInv'
<1>1. CASE \E j \in DOMAIN sink : Connect(j)
  <2>1. PICK j \in DOMAIN sink : Calls("route", j) /\ sink' = [sink EXCEPT ![j].alive = TRUE]
    BY <1>1 DEF Connect
  <2>2. variant' = variant /\ feed' = feed /\ j \in variant.routes
    BY <2>1 DEF Calls, Commands, ScheduleInv, NeighboursOK
  <2>3. \A k \in DOMAIN sink : DOMAIN sink[k] = {"alive", "q"} /\ Pooled(sink[k].q)
    BY DEF ScheduleInv, NeighboursOK
  <2>4. DOMAIN sink' = DOMAIN sink /\ \A k \in DOMAIN sink : DOMAIN sink'[k] = DOMAIN sink[k] /\ sink'[k].q = sink[k].q
    BY <2>1, <2>3
  <2>5. NeighboursOK'
    BY <2>2, <2>4 DEF ScheduleInv, NeighboursOK
  <2> QED BY <2>1, <2>2, <2>5, CallsScheduled
<1>2. CASE \E j \in DOMAIN sink : Disconnect(j)
  BY <1>2, CallsScheduled DEF Disconnect, ScheduleInv, NeighboursOK
<1>3. CASE \E p \in variant.pausable : Pause(p) \/ Resume(p)
  BY <1>3, CallsScheduled DEF Pause, Resume
<1>4. CASE Delete \/ StartDevice
  BY <1>4, CallsScheduled DEF Delete, StartDevice
<1> QED BY <1>1, <1>2, <1>3, <1>4

\* The device.
LEMMA DeviceScheduled ==
    ASSUME ScheduleInv, Tick \/ IsrDelivered
    PROVE  ScheduleInv'
<1>1. Sound(comp) /\ ShapeOK(comp) /\ Fits(variant, comp)
  BY SoundShape DEF ScheduleInv
<1>2. /\ variant' = variant /\ feed' = feed /\ sink' = sink /\ local' = local
      /\ Kin(comp, comp')
  <2>1. CASE Tick
    <3>1. comp' \in {RendererTick(comp), CapturerTick(comp)}
      BY <2>1 DEF Tick
    <3>2. Kin(comp, comp')
      BY <1>1, <3>1, RendererTickKin, CapturerTickKin
    <3> QED BY <2>1, <3>2 DEF Tick
  <2>2. CASE IsrDelivered
    <3>1. comp' = [comp EXCEPT !.isr = "queued"]
      BY <2>2 DEF IsrDelivered
    <3>2. Kin(comp, comp')
      BY <1>1, <3>1, IsrKin
    <3> QED BY <2>2, <3>2 DEF IsrDelivered
  <2> QED BY <2>1, <2>2
<1>3. QueuesOK'
  <2>1. CASE Tick
    BY <1>2, <2>1, SameQueues DEF Tick
  <2>2. CASE IsrDelivered
    <3> DEFINE op == IF comp.class = "renderer" THEN "fill" ELSE "empty"
               x == Item(App, Isr, op, 0)
    <3>1. inbox' = Append(inbox, x)
      BY <2>2 DEF IsrDelivered
    <3>2. x.op = op
      BY DEF Item
    <3> HIDE DEF x
    <3>3. Sane(variant, x)
      BY <1>1, <3>2 DEF Sane, Fits
    <3> QED BY <1>2, <3>1, <3>3, AppendQueues
  <2> QED BY <2>1, <2>2
<1>4. NeighboursOK'
  BY <1>2, SameNeighbours
<1>5. Sound(comp') /\ Fits(variant', comp')
  BY <1>1, <1>2, KinRuns DEF Runs, SameFrame, Fits
<1> QED BY <1>2, <1>3, <1>4, <1>5 DEF ScheduleInv

\* A component of any class, with any ports, among any neighbours is in the schedule of its
\* worker once while its flag says so and never otherwise, whatever order its handlers,
\* processing, deletion, device and neighbours act in - unless a mixer or MIMO component is fed
\* by one of its own worker, whose data is served before the component's own processing.
THEOREM ScheduledInTreeOnce == Spec => [](FedFromElsewhere(variant) => ScheduledOnce)
<1> DEFINE Inv == FedFromElsewhere(variant) => ScheduleInv
<1>1. Init => Inv
  BY InitScheduled
<1>2. Inv /\ [Next]_vars => Inv'
  <2> SUFFICES ASSUME Inv, [Next]_vars, FedFromElsewhere(variant)' PROVE ScheduleInv'
    OBVIOUS
  <2>1. variant' = variant
    BY DEF Next, vars, WorkerStep, EmptyThisBuffer, FillThisBuffer, PortRoute, PortUnroute, PortPause,
           PortResume, SetParam, Flush, Unregister, Terminate, Process, Handled, Becomes, FeederData,
           FeederOver, FeederFlush, FeederEnds, FeederConnects, Feeds, SinkAnswers, SinkDies, Connect,
           Disconnect, StartOutput, NeedOutput, Pause, Resume, Delete, StartDevice, Calls, Commands,
           Tick, IsrDelivered
  <2>2. FedFromElsewhere(variant) /\ ScheduleInv
    BY <2>1
  <2>3. CASE WorkerStep
    BY <2>2, <2>3, WorkerScheduled
  <2>4. CASE \E i \in DOMAIN feed : \/ FeederData(i) \/ FeederOver(i) \/ FeederFlush(i)
                                    \/ FeederEnds(i) \/ FeederConnects(i)
    BY <2>2, <2>4, FeederScheduled
  <2>5. CASE \E j \in DOMAIN sink : SinkAnswers(j) \/ SinkDies(j)
    BY <2>2, <2>5, SinkAnswersScheduled, SinkDiesScheduled
  <2>6. CASE \E j \in variant.routes \cup variant.drained : StartOutput(j) \/ NeedOutput(j)
    BY <2>2, <2>6, OutputScheduled
  <2>7. CASE \/ \E j \in DOMAIN sink : Connect(j) \/ Disconnect(j)
             \/ \E p \in variant.pausable : Pause(p) \/ Resume(p)
             \/ Delete \/ StartDevice
    BY <2>2, <2>7, CallScheduled
  <2>8. CASE Tick \/ IsrDelivered
    BY <2>2, <2>8, DeviceScheduled
  <2>9. CASE UNCHANGED vars
    <3>1. variant' = variant /\ comp' = comp /\ local' = local /\ inbox' = inbox /\ feed' = feed /\ sink' = sink
      BY <2>9 DEF vars
    <3> QED BY <2>2, <3>1, SameQueues, SameNeighbours, StillScheduled
  <2> QED BY <2>3, <2>4, <2>5, <2>6, <2>7, <2>8, <2>9 DEF Next
<1>3. Inv => (FedFromElsewhere(variant) => ScheduledOnce)
  BY ScheduleInvHolds
<1> QED BY <1>1, <1>2, <1>3, PTL DEF Spec

=============================================================================
