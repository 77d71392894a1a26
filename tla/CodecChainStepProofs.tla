------------------------ MODULE CodecChainStepProofs ------------------------
(***************************************************************************)
(* CodecChain, first part of its proof: where the messages of a connection  *)
(* may be, the invariant of the chain, and what a step of a component must  *)
(* show of itself to keep it; then the handlers of the data messages,       *)
(* EMPTY_THIS_BUFFER and FILL_THIS_BUFFER. Sequences are known by what they *)
(* hold and what is ahead of what, so that no proof counts.                 *)
(***************************************************************************)
EXTENDS CodecChain, FiniteSetTheorems, WellFoundedInduction, TLAPS

-----------------------------------------------------------------------------
(* Sequences, by what they hold and what is ahead of what.                 *)

Items(s) == {s[i] : i \in DOMAIN s}
Ahead(s, x, y) == \E i, j \in DOMAIN s : i < j /\ s[i] = x /\ s[j] = y

\* A sequence has a place for each of its members.
LEMMA SeqFacts ==
    ASSUME NEW S, NEW s \in Seq(S)
    PROVE  /\ Len(s) \in Nat /\ DOMAIN s = 1..Len(s)
           /\ \A i \in DOMAIN s : s[i] \in S
           /\ Items(s) \subseteq S
           /\ (s = <<>>) <=> (Items(s) = {})
           /\ (s = <<>>) <=> (Len(s) = 0)
<1>1. Len(s) \in Nat /\ DOMAIN s = 1..Len(s) /\ \A i \in DOMAIN s : s[i] \in S
  OBVIOUS
<1>2. Items(s) \subseteq S
  BY <1>1 DEF Items
<1>3. s = <<>> <=> Len(s) = 0
  BY <1>1
<1>4. s # <<>> => Items(s) # {}
  <2> SUFFICES ASSUME s # <<>> PROVE Items(s) # {}
    OBVIOUS
  <2>1. 1 \in DOMAIN s
    BY <1>1, <1>3
  <2> QED BY <2>1 DEF Items
<1>5. s = <<>> => Items(s) = {}
  <2> SUFFICES ASSUME s = <<>> PROVE Items(s) = {}
    OBVIOUS
  <2>1. DOMAIN s = {}
    BY <1>1, <1>3
  <2> QED BY <2>1 DEF Items
<1> QED BY <1>1, <1>2, <1>3, <1>4, <1>5

\* Nothing is in the empty sequence.
LEMMA EmptyItems == Items(<<>>) = {} /\ \A x, y : ~Ahead(<<>>, x, y)
<1>1. DOMAIN <<>> = {}
  OBVIOUS
<1> QED BY <1>1 DEF Items, Ahead

\* A sequence of one.
LEMMA OneItem == ASSUME NEW x PROVE Items(<<x>>) = {x} /\ \A y, z : ~Ahead(<<x>>, y, z)
<1>1. DOMAIN <<x>> = {1} /\ <<x>>[1] = x
  OBVIOUS
<1>2. Items(<<x>>) = {x}
  BY <1>1 DEF Items
<1>3. \A y, z : ~Ahead(<<x>>, y, z)
  <2> SUFFICES ASSUME NEW i \in {1}, NEW j \in {1}, i < j PROVE FALSE
    BY <1>1 DEF Ahead
  <2> QED OBVIOUS
<1> QED BY <1>2, <1>3

\* Two sequences in a row.
LEMMA Joined ==
    ASSUME NEW S, NEW s \in Seq(S), NEW t \in Seq(S)
    PROVE  /\ s \o t \in Seq(S)
           /\ Items(s \o t) = Items(s) \cup Items(t)
           /\ \A x, y : Ahead(s \o t, x, y) =>
                Ahead(s, x, y) \/ (x \in Items(s) /\ y \in Items(t)) \/ Ahead(t, x, y)
<1> DEFINE r == s \o t
           m == Len(s)
           n == Len(t)
<1>1. /\ m \in Nat /\ n \in Nat /\ r \in Seq(S) /\ DOMAIN s = 1..m /\ DOMAIN t = 1..n /\ DOMAIN r = 1..m + n
  OBVIOUS
<1>2. \A i \in 1..m : r[i] = s[i]
  OBVIOUS
<1>3. \A i \in 1..n : r[m + i] = t[i]
  OBVIOUS
<1> HIDE DEF r, m, n
<1>4. \A i \in DOMAIN r : (i \in DOMAIN s /\ r[i] = s[i]) \/ (i - m \in DOMAIN t /\ i > m /\ r[i] = t[i - m])
  <2> SUFFICES ASSUME NEW i \in 1..m + n
               PROVE (i \in 1..m /\ r[i] = s[i]) \/ (i - m \in 1..n /\ i > m /\ r[i] = t[i - m])
    BY <1>1
  <2>1. CASE i <= m
    BY <1>1, <1>2, <2>1
  <2>2. CASE i > m
    <3>1. i - m \in 1..n /\ m + (i - m) = i
      BY <1>1, <2>2
    <3>2. r[m + (i - m)] = t[i - m]
      BY <1>3, <3>1
    <3> QED BY <2>2, <3>1, <3>2
  <2> QED BY <1>1, <2>1, <2>2
<1>5. Items(r) \subseteq Items(s) \cup Items(t)
  BY <1>4 DEF Items
<1>6. Items(s) \cup Items(t) \subseteq Items(r)
  <2>1. ASSUME NEW i \in DOMAIN s PROVE s[i] \in Items(r)
    <3>1. i \in DOMAIN r /\ r[i] = s[i]
      BY <1>1, <1>2
    <3> QED BY <3>1 DEF Items
  <2>2. ASSUME NEW i \in DOMAIN t PROVE t[i] \in Items(r)
    <3>1. m + i \in DOMAIN r /\ r[m + i] = t[i]
      BY <1>1, <1>3
    <3> QED BY <3>1 DEF Items
  <2> QED BY <2>1, <2>2 DEF Items
<1>7. ASSUME NEW x, NEW y, NEW i \in DOMAIN r, NEW j \in DOMAIN r, i < j, r[i] = x, r[j] = y
      PROVE  Ahead(s, x, y) \/ (x \in Items(s) /\ y \in Items(t)) \/ Ahead(t, x, y)
  <2>0. i \in Int /\ j \in Int
    BY <1>1
  <2>1. CASE i \in DOMAIN s /\ r[i] = s[i] /\ j \in DOMAIN s /\ r[j] = s[j]
    BY <1>7, <2>1 DEF Ahead
  <2>2. CASE i \in DOMAIN s /\ r[i] = s[i] /\ j - m \in DOMAIN t /\ r[j] = t[j - m]
    BY <1>7, <2>2 DEF Items
  <2>3. CASE i - m \in DOMAIN t /\ r[i] = t[i - m] /\ j - m \in DOMAIN t /\ r[j] = t[j - m]
    <3>1. i - m < j - m
      BY <1>1, <1>7, <2>0
    <3> QED BY <1>7, <2>3, <3>1 DEF Ahead
  <2>4. ~(i - m \in DOMAIN t /\ i > m /\ j \in DOMAIN s)
    BY <1>1, <1>7, <2>0
  <2> QED BY <1>4, <2>1, <2>2, <2>3, <2>4
<1>8. \A x, y : Ahead(r, x, y) =>
         Ahead(s, x, y) \/ (x \in Items(s) /\ y \in Items(t)) \/ Ahead(t, x, y)
  BY <1>7 DEF Ahead
<1> QED BY <1>1, <1>5, <1>6, <1>8 DEF r

\* One more at the end.
LEMMA Appended ==
    ASSUME NEW S, NEW s \in Seq(S), NEW z \in S
    PROVE  /\ Append(s, z) \in Seq(S) /\ Append(s, z) # <<>>
           /\ Items(Append(s, z)) = Items(s) \cup {z}
           /\ \A x, y : Ahead(Append(s, z), x, y) => Ahead(s, x, y) \/ (x \in Items(s) /\ y = z)
<1>1. Append(s, z) = s \o <<z>> /\ <<z>> \in Seq(S) /\ Append(s, z) # <<>>
  OBVIOUS
<1> DEFINE t == <<z>>
<1>2. t \in Seq(S) /\ Items(t) = {z} /\ \A x, y : ~Ahead(t, x, y)
  BY <1>1, OneItem
<1> HIDE DEF t
<1>3. /\ s \o t \in Seq(S) /\ Items(s \o t) = Items(s) \cup Items(t)
      /\ \A x, y : Ahead(s \o t, x, y) =>
           Ahead(s, x, y) \/ (x \in Items(s) /\ y \in Items(t)) \/ Ahead(t, x, y)
  BY <1>2, Joined
<1>4. Append(s, z) = s \o t
  BY <1>1 DEF t
<1> QED BY <1>1, <1>2, <1>3, <1>4

\* One taken from the head.
LEMMA Rest ==
    ASSUME NEW S, NEW s \in Seq(S), s # <<>>
    PROVE  /\ Head(s) \in S /\ Tail(s) \in Seq(S) /\ Len(Tail(s)) = Len(s) - 1
           /\ Items(s) = {Head(s)} \cup Items(Tail(s))
           /\ \A x, y : Ahead(Tail(s), x, y) => Ahead(s, x, y)
           /\ \A x \in Items(Tail(s)) : Ahead(s, Head(s), x)
           /\ (s = <<Head(s)>>) <=> (Tail(s) = <<>>)
<1> DEFINE r == Tail(s)
           n == Len(s)
<1>1. /\ n \in Nat \ {0} /\ DOMAIN s = 1..n /\ r \in Seq(S) /\ DOMAIN r = 1..n - 1 /\ Len(r) = n - 1
      /\ Head(s) = s[1] /\ Head(s) \in S
  OBVIOUS
<1>2. \A i \in 1..n - 1 : r[i] = s[i + 1]
  OBVIOUS
<1>3. (s = <<Head(s)>>) <=> (r = <<>>)
  <2>1. n = 1 => s = <<Head(s)>>
    OBVIOUS
  <2>2. s = <<Head(s)>> => n = 1
    <3>1. Len(<<Head(s)>>) = 1
      OBVIOUS
    <3> QED BY <3>1
  <2>3. (r = <<>>) <=> (Len(r) = 0)
    BY <1>1, SeqFacts
  <2> QED BY <1>1, <2>1, <2>2, <2>3
<1> HIDE DEF r, n
<1>4. \A i \in DOMAIN r : i + 1 \in DOMAIN s /\ 1 < i + 1 /\ r[i] = s[i + 1]
  BY <1>1, <1>2
<1>5. \A i \in DOMAIN s : i = 1 \/ (i - 1 \in DOMAIN r /\ r[i - 1] = s[i])
  <2> SUFFICES ASSUME NEW i \in 1..n, i # 1 PROVE i - 1 \in 1..n - 1 /\ r[i - 1] = s[i]
    BY <1>1
  <2>1. i - 1 \in 1..n - 1 /\ (i - 1) + 1 = i
    BY <1>1
  <2> QED BY <1>2, <2>1
<1>6. 1 \in DOMAIN s
  BY <1>1
<1>7. Items(s) = {Head(s)} \cup Items(r)
  <2>1. Items(s) \subseteq {Head(s)} \cup Items(r)
    BY <1>1, <1>5 DEF Items
  <2>2. Items(r) \subseteq Items(s)
    BY <1>4 DEF Items
  <2>3. Head(s) \in Items(s)
    BY <1>1, <1>6 DEF Items
  <2> QED BY <2>1, <2>2, <2>3
<1>8. \A x, y : Ahead(r, x, y) => Ahead(s, x, y)
  <2> SUFFICES ASSUME NEW i \in DOMAIN r, NEW j \in DOMAIN r, i < j PROVE Ahead(s, r[i], r[j])
    BY DEF Ahead
  <2>1. i + 1 \in DOMAIN s /\ j + 1 \in DOMAIN s /\ r[i] = s[i + 1] /\ r[j] = s[j + 1]
    BY <1>4
  <2>2. i + 1 < j + 1
    BY <1>1
  <2> QED BY <2>1, <2>2 DEF Ahead
<1>9. \A x \in Items(r) : Ahead(s, Head(s), x)
  BY <1>1, <1>4, <1>6 DEF Items, Ahead
<1> QED BY <1>1, <1>3, <1>7, <1>8, <1>9 DEF r, n

\* What Those chooses, in the order it was in.
LEMMA ThoseChosen ==
    ASSUME NEW S, NEW s \in Seq(S), NEW I \in SUBSET (DOMAIN s)
    PROVE  /\ Those(s, I) \in Seq(S)
           /\ Items(Those(s, I)) = {s[i] : i \in I}
           /\ \A x, y : Ahead(Those(s, I), x, y) => \E i, j \in I : i < j /\ s[i] = x /\ s[j] = y
<1> DEFINE N == Cardinality(I)
           low(i) == {j \in I : j < i}
           rank(i) == Cardinality(low(i))
           nth(n) == CHOOSE i \in I : Cardinality({j \in I : j < i}) = n - 1
           r == Those(s, I)
<1>1. Len(s) \in Nat /\ DOMAIN s = 1..Len(s) /\ (\A i \in I : i \in Int) /\ IsFiniteSet(I) /\ N \in Nat
  <2>1. Len(s) \in Nat /\ DOMAIN s = 1..Len(s)
    OBVIOUS
  <2>2. IsFiniteSet(1..Len(s))
    BY <2>1, FS_Interval
  <2>3. IsFiniteSet(I)
    BY <2>1, <2>2, FS_Subset
  <2> QED BY <2>1, <2>3, FS_CardinalityType
<1>2. ASSUME NEW i \in I PROVE IsFiniteSet(low(i)) /\ rank(i) \in Nat /\ rank(i) < N
  <2>1. low(i) \in SUBSET (I \ {i}) /\ low(i) \in SUBSET I
    BY <1>1
  <2>2. IsFiniteSet(I \ {i}) /\ Cardinality(I \ {i}) = N - 1
    BY <1>1, FS_RemoveElement
  <2>3. IsFiniteSet(low(i)) /\ Cardinality(low(i)) <= N - 1
    BY <2>1, <2>2, FS_Subset
  <2>4. Cardinality(low(i)) \in Nat
    BY <2>3, FS_CardinalityType
  <2> QED BY <1>1, <2>3, <2>4
<1>3. ASSUME NEW i \in I, NEW j \in I, i < j PROVE rank(i) < rank(j)
  <2>1. IsFiniteSet(low(i)) /\ rank(i) \in Nat /\ IsFiniteSet(low(j)) /\ rank(j) \in Nat
    BY <1>2
  <2>2. i \notin low(i) /\ low(i) \cup {i} \in SUBSET low(j)
    BY <1>1, <1>3
  <2>3. Cardinality(low(i) \cup {i}) = rank(i) + 1
    BY <2>1, <2>2, FS_AddElement
  <2>4. Cardinality(low(i) \cup {i}) <= rank(j)
    BY <2>1, <2>2, FS_Subset
  <2> QED BY <2>1, <2>3, <2>4
<1>4. \A i, j \in I : rank(i) = rank(j) => i = j
  <2> SUFFICES ASSUME NEW i \in I, NEW j \in I, rank(i) = rank(j), i # j PROVE FALSE
    OBVIOUS
  <2>1. rank(i) \in Nat /\ rank(j) \in Nat
    BY <1>2
  <2>2. CASE i < j
    <3>1. rank(i) < rank(j)
      BY <1>3, <2>2
    <3> QED BY <2>1, <3>1
  <2>3. CASE j < i
    <3>1. rank(j) < rank(i)
      BY <1>3, <2>3
    <3> QED BY <2>1, <3>1
  <2> QED BY <1>1, <2>2, <2>3
<1> HIDE DEF low
<1>5. \A n \in 1..N : \E i \in I : rank(i) = n - 1
  <2> DEFINE f == [i \in I |-> rank(i) + 1]
  <2>1. f \in [I -> 1..N]
    BY <1>1, <1>2
  <2>2. \A i, j \in I : f[i] = f[j] => i = j
    <3> SUFFICES ASSUME NEW i \in I, NEW j \in I, f[i] = f[j] PROVE i = j
      OBVIOUS
    <3>1. rank(i) \in Nat /\ rank(j) \in Nat /\ rank(i) + 1 = rank(j) + 1
      BY <1>2
    <3>2. rank(i) = rank(j)
      BY <3>1
    <3> QED BY <1>4, <3>2
  <2>3. f \in Injection(I, 1..N)
    BY <2>1, <2>2 DEF Injection, IsInjective
  <2>4. IsFiniteSet(1..N) /\ Cardinality(1..N) = N
    BY <1>1, FS_Interval
  <2>5. f \in Surjection(I, 1..N)
    BY <2>3, <2>4, FS_Injection
  <2>6. \A n \in 1..N : \E i \in I : f[i] = n
    BY <2>5 DEF Surjection
  <2> SUFFICES ASSUME NEW n \in 1..N PROVE \E i \in I : rank(i) = n - 1
    OBVIOUS
  <2>7. PICK i \in I : rank(i) + 1 = n
    BY <2>6
  <2>8. rank(i) = n - 1
    BY <1>2, <2>7
  <2> QED BY <2>8
<1>6. \A n \in 1..N : nth(n) \in I /\ rank(nth(n)) = n - 1
  BY <1>5 DEF low
<1>7. r = [n \in 1..N |-> s[nth(n)]]
  BY DEF Those
<1> HIDE DEF nth, rank, r
<1>8. DOMAIN r = 1..N /\ \A n \in 1..N : r[n] = s[nth(n)] /\ r[n] \in S
  BY <1>1, <1>6, <1>7
<1>9. r \in Seq(S)
  BY <1>1, <1>7, <1>8
<1>10. Items(r) = {s[i] : i \in I}
  <2>1. \A i \in I : \E n \in 1..N : nth(n) = i
    <3> SUFFICES ASSUME NEW i \in I PROVE \E n \in 1..N : nth(n) = i
      OBVIOUS
    <3>1. rank(i) \in Nat /\ rank(i) + 1 \in 1..N
      BY <1>1, <1>2
    <3>2. nth(rank(i) + 1) \in I /\ rank(nth(rank(i) + 1)) = rank(i)
      BY <1>6, <3>1
    <3> QED BY <1>4, <3>1, <3>2
  <2> QED BY <1>6, <1>8, <2>1 DEF Items
<1>11. ASSUME NEW x, NEW y, NEW m \in 1..N, NEW n \in 1..N, m < n, r[m] = x, r[n] = y
       PROVE  \E i, j \in I : i < j /\ s[i] = x /\ s[j] = y
  <2>1. nth(m) \in I /\ nth(n) \in I /\ rank(nth(m)) = m - 1 /\ rank(nth(n)) = n - 1
    BY <1>6
  <2>2. nth(m) \in Int /\ nth(n) \in Int /\ m \in Int /\ n \in Int
    BY <1>1, <2>1
  <2>3. ~(nth(n) < nth(m))
    BY <1>3, <1>11, <2>1, <2>2
  <2>4. nth(m) # nth(n)
    BY <1>11, <2>1, <2>2
  <2>5. nth(m) < nth(n)
    BY <2>2, <2>3, <2>4
  <2> QED BY <1>8, <1>11, <2>1, <2>5
<1>12. \A x, y : Ahead(r, x, y) => \E i, j \in I : i < j /\ s[i] = x /\ s[j] = y
  BY <1>8, <1>11 DEF Ahead
<1> QED BY <1>9, <1>10, <1>12 DEF r

-----------------------------------------------------------------------------
(* Types.                                                                  *)

Ops == {"empty", "fill", "flush", "route", "unroute", "unregister", "pause", "resume"}
Lens == {Invalid, 0, 1}
ItemType == [to : Codecs, msg : AllMsgs, op : Ops, len : Lens]
OutType == [to : Codecs \cup {App}, msg : AllMsgs, op : Ops, len : Lens]
CodecType(k) ==
    [mode : {"running", "terminating", "gone"}, state : SUBSET Flags.state, tree : Nat,
     prepared : BOOLEAN, in : Seq(ItemType), iflags : SUBSET Flags.in, filled : 0..Frame,
     out : Seq(AllMsgs), oflags : SUBSET Flags.out, route : Codecs \cup {None},
     ptr : AllMsgs \cup {Msg(k, "scratch"), Stale, None}]
CallType == [op : {"route", "unroute", "unregister", "pause", "resume"}, on : Codecs,
             arg : Codecs \cup {None, "in", "out"}]
TypeInv ==
    /\ DOMAIN codec = Codecs /\ codec = [k \in Codecs |-> codec[k]]
    /\ \A k \in Codecs : codec[k] \in CodecType(k)
    /\ local \in [Workers -> Seq(ItemType)]
    /\ queue \in [Workers -> Seq(ItemType)]
    /\ owned \subseteq AppMsgs /\ ready \subseteq Codecs
    /\ conn \in [Codecs -> Codecs \cup {None}]
    /\ call \in {None} \cup CallType

SameMode(c, d) == d.mode = c.mode /\ d.prepared = c.prepared
SameTask(c, d) == d.state = c.state /\ d.tree = c.tree
SameIn(c, d) == d.in = c.in /\ d.iflags = c.iflags /\ d.filled = c.filled
SameOut(c, d) == d.out = c.out /\ d.oflags = c.oflags /\ d.route = c.route

\* What a message is from.
LEMMA MsgFacts ==
    /\ \A m \in AllMsgs : FromPool(m) => m.of \in Codecs /\ m.what \in Pool /\ m = Msg(m.of, m.what)
    /\ \A k \in Codecs, what \in Pool : Msg(k, what) \in AllMsgs /\ FromPool(Msg(k, what))
    /\ \A m \in AppMsgs : m \in AllMsgs /\ ~FromPool(m)
    /\ \A m \in AllMsgs : ~FromPool(m) => m \in AppMsgs
    /\ Cmd \in AppMsgs /\ \A k \in Codecs : Msg(k, "start") \in AppMsgs
    /\ \A k, what : Msg(k, what).of = k /\ Msg(k, what).what = what
    /\ \A k : Control(k) = Msg(k, "control")
    /\ Cmd.what = "cmd" /\ Cmd.of = App
    /\ "control" \in Pool
<1> USE DEF Msg
<1>1. ASSUME NEW m \in AppMsgs PROVE m.what \in {"cmd", "start", "in", "eos", "out"}
  <2>1. CASE m = Cmd
    BY <2>1 DEF Cmd
  <2>2. CASE m \in {Msg(k, "start") : k \in Codecs}
    BY <2>2
  <2>3. CASE m \in {Msg(k, what) : k \in Sources, what \in {"in", "eos"}}
    BY <2>3
  <2>4. CASE m \in {Msg(k, "out") : k \in Sinks}
    BY <2>4
  <2> QED BY <2>1, <2>2, <2>3, <2>4 DEF AppMsgs
<1>2. ASSUME NEW k \in Codecs, NEW what \in Pool PROVE Msg(k, what) \in AllMsgs /\ FromPool(Msg(k, what))
  <2>1. Msg(k, what) \in {Msg(h, t) : h \in Codecs, t \in Pool}
    BY DEF Pool
  <2>2. Msg(k, what).what = what
    OBVIOUS
  <2> QED BY <2>1, <2>2 DEF AllMsgs, FromPool
<1>3. ASSUME NEW m \in AllMsgs PROVE m \in AppMsgs \/ (m.of \in Codecs /\ m.what \in Pool /\ m = Msg(m.of, m.what))
  <2>1. CASE m \in {Msg(h, t) : h \in Codecs, t \in Pool}
    <3>1. PICK h \in Codecs, t \in Pool : m = Msg(h, t)
      BY <2>1
    <3> QED BY <3>1
  <2> QED BY <2>1 DEF AllMsgs
<1>4. \A m \in AppMsgs : m \in AllMsgs /\ ~FromPool(m)
  BY <1>1, NamesAssumption DEF AllMsgs, FromPool, Pool
<1>5. \A m \in AllMsgs : FromPool(m) => m.of \in Codecs /\ m.what \in Pool /\ m = Msg(m.of, m.what)
  BY <1>3, <1>4
<1>6. \A m \in AllMsgs : ~FromPool(m) => m \in AppMsgs
  BY <1>3 DEF FromPool
<1>7. Cmd \in AppMsgs /\ \A k \in Codecs : Msg(k, "start") \in AppMsgs
  BY DEF AppMsgs
<1>8. /\ \A k, what : Msg(k, what).of = k /\ Msg(k, what).what = what
      /\ \A k : Control(k) = Msg(k, "control")
      /\ Cmd.what = "cmd" /\ Cmd.of = App
      /\ "control" \in Pool
  BY DEF Control, Cmd, Pool
<1> HIDE DEF Msg
<1> QED BY <1>2, <1>4, <1>5, <1>6, <1>7, <1>8

\* An item is its fields.
LEMMA ItemFacts ==
    /\ \A to, m, op, len : /\ Item(to, m, op, len).to = to /\ Item(to, m, op, len).msg = m
                           /\ Item(to, m, op, len).op = op /\ Item(to, m, op, len).len = len
    /\ \A to \in Codecs \cup {App}, m \in AllMsgs, op \in Ops, len \in Lens : Item(to, m, op, len) \in OutType
    /\ \A x \in OutType : x.to \in Codecs => x \in ItemType
    /\ \A x \in ItemType : x \in OutType
    /\ \A x \in OutType : x.to \in Codecs \cup {App} /\ x.msg \in AllMsgs /\ x.op \in Ops /\ x.len \in Lens
    /\ \A x \in ItemType : x.to \in Codecs
BY DEF Item, OutType, ItemType

\* The answer to a message.
LEMMA AnswerFacts ==
    ASSUME NEW x \in OutType, NEW len \in Lens
    PROVE  /\ Answered(x, len) \in OutType
           /\ Answered(x, len).msg = x.msg /\ Answered(x, len).len = len
           /\ Answered(x, len).to = IF FromPool(x.msg) THEN x.msg.of ELSE App
           /\ Answered(x, len).op = IF x.op = "empty" /\ FromPool(x.msg) THEN "fill" ELSE x.op
<1>1. x.msg \in AllMsgs /\ x.op \in Ops /\ x.len \in Lens
  BY ItemFacts
<1>2. Origin(x.msg) \in Codecs \cup {App}
  BY <1>1, MsgFacts DEF Origin
<1>3. (IF x.op = "empty" /\ FromPool(x.msg) THEN "fill" ELSE x.op) \in Ops
  BY <1>1 DEF Ops
<1> QED BY <1>1, <1>2, <1>3, ItemFacts DEF Answered, Origin

\* Scheduling, and its opposite.
LEMMA ScheduledFields ==
    ASSUME NEW k \in Codecs, NEW c \in CodecType(k)
    PROVE  LET d == Scheduled(c) IN
           /\ d \in CodecType(k) /\ SameMode(c, d) /\ SameIn(c, d) /\ SameOut(c, d) /\ d.ptr = c.ptr
           /\ d.state = c.state \cup {"schedule"}
           /\ d.tree = IF "schedule" \in c.state THEN c.tree ELSE c.tree + 1
<1>1. CASE "schedule" \in c.state
  <2>1. Scheduled(c) = c /\ c.state \cup {"schedule"} = c.state
    BY <1>1 DEF Scheduled
  <2> QED BY <1>1, <2>1 DEF SameMode, SameIn, SameOut
<1>2. CASE "schedule" \notin c.state
  <2>1. Scheduled(c) = [c EXCEPT !.state = @ \cup {"schedule"}, !.tree = @ + 1]
    BY <1>2 DEF Scheduled
  <2>2. c.tree \in Nat /\ c.state \subseteq Flags.state
    BY DEF CodecType
  <2>3. c.tree + 1 \in Nat /\ c.state \cup {"schedule"} \subseteq Flags.state
    BY <2>2 DEF Flags
  <2> DEFINE S == c.state \cup {"schedule"}
             n == c.tree + 1
             d == [c EXCEPT !.state = S, !.tree = n]
  <2>4. Scheduled(c) = d
    BY <2>1
  <2> HIDE DEF S, n
  <2>5. S \in SUBSET Flags.state /\ n \in Nat
    BY <2>3 DEF S, n
  <2>6. d \in CodecType(k)
    BY <2>5 DEF CodecType
  <2>7. SameMode(c, d) /\ SameIn(c, d) /\ SameOut(c, d) /\ d.ptr = c.ptr /\ d.state = S /\ d.tree = n
    BY DEF CodecType, SameMode, SameIn, SameOut
  <2> HIDE DEF d
  <2> QED BY <1>2, <2>4, <2>6, <2>7 DEF S, n
<1> QED BY <1>1, <1>2

\* Cancelling.
LEMMA CancelledFields ==
    ASSUME NEW k \in Codecs, NEW c \in CodecType(k)
    PROVE  LET d == Cancelled(c) IN
           /\ d \in CodecType(k) /\ SameMode(c, d) /\ SameIn(c, d) /\ SameOut(c, d) /\ d.ptr = c.ptr
           /\ d.state = c.state \ {"schedule"}
           /\ d.tree = IF "schedule" \in c.state THEN 0 ELSE c.tree
<1>1. CASE "schedule" \notin c.state
  <2>1. Cancelled(c) = c /\ c.state \ {"schedule"} = c.state
    BY <1>1 DEF Cancelled
  <2> QED BY <1>1, <2>1 DEF SameMode, SameIn, SameOut
<1>2. CASE "schedule" \in c.state
  <2>1. Cancelled(c) = [c EXCEPT !.state = @ \ {"schedule"}, !.tree = 0]
    BY <1>2 DEF Cancelled
  <2>2. c.state \ {"schedule"} \subseteq Flags.state
    BY DEF CodecType
  <2> DEFINE S == c.state \ {"schedule"}
             d == [c EXCEPT !.state = S, !.tree = 0]
  <2>3. Cancelled(c) = d
    BY <2>1
  <2>4. S \in SUBSET Flags.state /\ 0 \in Nat
    BY <2>2
  <2> HIDE DEF S
  <2>5. d \in CodecType(k)
    BY <2>4 DEF CodecType
  <2>6. SameMode(c, d) /\ SameIn(c, d) /\ SameOut(c, d) /\ d.ptr = c.ptr /\ d.state = S /\ d.tree = 0
    BY DEF CodecType, SameMode, SameIn, SameOut
  <2> HIDE DEF d
  <2> QED BY <1>2, <2>3, <2>5, <2>6 DEF S
<1> QED BY <1>1, <1>2

\* The operators that change some flags.
LEMMA NoOutputFields ==
    ASSUME NEW k \in Codecs, NEW c \in CodecType(k)
    PROVE  LET d == NoOutput(c) IN
           /\ d \in CodecType(k) /\ SameMode(c, d) /\ SameIn(c, d) /\ SameOut(c, d)
           /\ d.state = c.state \ {"output_setup"} /\ d.tree = c.tree /\ d.ptr = None
BY DEF NoOutput, CodecType, SameMode, SameIn, SameOut, Flags

\* A restart.
LEMMA RestartedFields ==
    ASSUME NEW k \in Codecs, NEW c \in CodecType(k)
    PROVE  LET d == Restarted(c) IN
           /\ d \in CodecType(k) /\ SameMode(c, d) /\ SameIn(c, d) /\ SameOut(c, d)
           /\ d.state = {"execution"} /\ d.tree = c.tree /\ d.ptr = None
BY DEF Restarted, CodecType, SameMode, SameIn, SameOut, Flags

\* The end of a flush.
LEMMA FlushDoneFields ==
    ASSUME NEW k \in Codecs, NEW c \in CodecType(k)
    PROVE  LET d == FlushDone(c) IN
           /\ d \in CodecType(k) /\ SameMode(c, d) /\ SameIn(c, d) /\ SameTask(c, d)
           /\ d.out = c.out /\ d.route = c.route /\ d.ptr = c.ptr
           /\ d.oflags = (c.oflags \ {"idle", "flushing"}) \cup ({"idle", "flushing"} \ c.oflags)
BY DEF FlushDone, Toggled, CodecType, SameMode, SameIn, SameTask, Flags

\* The end of a connection.
LEMMA UnroutedFields ==
    ASSUME NEW k \in Codecs, NEW c \in CodecType(k)
    PROVE  LET d == Unrouted(c) IN
           /\ d \in CodecType(k) /\ SameMode(c, d) /\ SameIn(c, d) /\ SameTask(c, d)
           /\ d.out = <<>> /\ d.route = None /\ d.oflags = {"idle"}
<1> DEFINE p == IF c.ptr = None THEN None ELSE Stale
<1>1. p \in AllMsgs \cup {Msg(k, "scratch"), Stale, None}
  OBVIOUS
<1>2. Unrouted(c) = [c EXCEPT !.out = <<>>, !.oflags = {"idle"}, !.route = None, !.ptr = p]
  BY DEF Unrouted
<1> HIDE DEF p
<1> DEFINE d == [c EXCEPT !.out = <<>>, !.oflags = {"idle"}, !.route = None, !.ptr = p]
<1>3. {"idle"} \in SUBSET Flags.out /\ <<>> \in Seq(AllMsgs)
  BY DEF Flags
<1>4. d \in CodecType(k)
  BY <1>1, <1>3 DEF CodecType
<1>5. /\ SameMode(c, d) /\ SameIn(c, d) /\ SameTask(c, d)
      /\ d.out = <<>> /\ d.route = None /\ d.oflags = {"idle"}
  BY DEF CodecType, SameMode, SameIn, SameTask
<1> HIDE DEF d
<1> QED BY <1>2, <1>4, <1>5 DEF d

-----------------------------------------------------------------------------
(* Messages on their way.                                                  *)

\* What is chosen for being in A.
LEMMA Chosen ==
    ASSUME NEW S, NEW s \in Seq(S), NEW A, NEW I \in SUBSET (DOMAIN s),
           \A i \in DOMAIN s : (i \in I) <=> (s[i] \in A)
    PROVE  /\ Those(s, I) \in Seq(S)
           /\ \A x : (x \in Items(Those(s, I))) <=> (x \in Items(s) /\ x \in A)
           /\ \A x, y : Ahead(Those(s, I), x, y) => Ahead(s, x, y) /\ x \in A /\ y \in A
<1>2. /\ Those(s, I) \in Seq(S)
      /\ Items(Those(s, I)) = {s[i] : i \in I}
      /\ \A x, y : Ahead(Those(s, I), x, y) => \E i, j \in I : i < j /\ s[i] = x /\ s[j] = y
  BY ThoseChosen
<1>4. \A x : (x \in {s[i] : i \in I}) <=> (x \in Items(s) /\ x \in A)
  BY DEF Items
<1>5. \A x, y : (\E i, j \in I : i < j /\ s[i] = x /\ s[j] = y) => Ahead(s, x, y) /\ x \in A /\ y \in A
  BY DEF Ahead
<1> QED BY <1>2, <1>4, <1>5

\* What of out goes to the component it is for, by way of worker v; what returns to
\* its sender there.
Goes(out, v, y) == y \in Items(out) /\ Alive(y) /\ WorkerOf[y.to] = v
Turns(z, v, y) == z.to \in Codecs /\ Gone(z.to) /\ y = Returned(z) /\ Alive(y) /\ WorkerOf[y.to] = v
Bounces(out, v, y) == \E z \in Items(out) : Turns(z, v, y)
QueueBase(w, q, v) == IF v = w THEN q ELSE queue[v]

\* A message that returned is one.
LEMMA ReturnedType == \A z \in OutType : Returned(z) \in OutType
BY AnswerFacts DEF Returned, Lens

\* What returns to its sender, in the order it was sent.
LEMMA BouncedFacts ==
    ASSUME NEW s \in Seq(OutType)
    PROVE  /\ Bounced(s) \in Seq(OutType)
           /\ \A y \in Items(Bounced(s)) : \E z \in Items(s) : y = Returned(z)
           /\ \A z \in Items(s) : Origin(z.msg) = App \/ Alive(Returned(z)) => Returned(z) \in Items(Bounced(s))
           /\ \A y, z : Ahead(Bounced(s), y, z) =>
                \E a, b : Ahead(s, a, b) /\ y = Returned(a) /\ z = Returned(b)
<1> DEFINE I == {i \in DOMAIN s : Origin(s[i].msg) = App \/ Alive(Returned(s[i]))}
           kept == Those(s, I)
           back == Bounced(s)
<1>1. back = [i \in DOMAIN kept |-> Returned(kept[i])]
  BY DEF Bounced
<1>2. I \in SUBSET (DOMAIN s)
  OBVIOUS
<1> HIDE DEF back, I
<1>3. /\ kept \in Seq(OutType)
      /\ Items(kept) = {s[i] : i \in I}
      /\ \A x, y : Ahead(kept, x, y) => \E i, j \in I : i < j /\ s[i] = x /\ s[j] = y
  BY <1>2, ThoseChosen
<1> HIDE DEF kept
<1>4. Items(kept) \subseteq Items(s)
  BY <1>2, <1>3 DEF Items
<1>5. \A x, y : Ahead(kept, x, y) => Ahead(s, x, y)
  <2> SUFFICES ASSUME NEW x, NEW y, Ahead(kept, x, y) PROVE Ahead(s, x, y)
    OBVIOUS
  <2>1. PICK i \in I, j \in I : i < j /\ s[i] = x /\ s[j] = y
    BY <1>3
  <2> QED BY <1>2, <2>1 DEF Ahead
<1>6. Len(kept) \in Nat /\ DOMAIN kept = 1..Len(kept) /\ \A i \in DOMAIN kept : kept[i] \in OutType
  BY <1>3, SeqFacts
<1>7. DOMAIN back = DOMAIN kept /\ \A i \in DOMAIN kept : back[i] = Returned(kept[i])
  BY <1>1
<1>8. back \in Seq(OutType)
  BY <1>1, <1>6, ReturnedType
<1>9. \A y \in Items(back) : \E z \in Items(s) : y = Returned(z)
  BY <1>4, <1>7 DEF Items
<1>10. \A y, z : Ahead(back, y, z) => \E a, b : Ahead(kept, a, b) /\ y = Returned(a) /\ z = Returned(b)
  BY <1>7 DEF Ahead
<1>11. ASSUME NEW z \in Items(s), Origin(z.msg) = App \/ Alive(Returned(z)) PROVE Returned(z) \in Items(back)
  <2>1. PICK i \in DOMAIN s : s[i] = z
    BY DEF Items
  <2>2. z \in Items(kept)
    BY <1>3, <1>11, <2>1 DEF I
  <2> QED BY <1>7, <2>2 DEF Items
<1> QED BY <1>5, <1>8, <1>9, <1>10, <1>11 DEF back

\* What is in the queues once worker w has sent out.
LEMMA SentFacts ==
    ASSUME TypeInv, NEW w \in Workers, NEW l \in Seq(ItemType), NEW q \in Seq(ItemType),
           NEW out \in Seq(OutType), Sent(w, l, q, out)
    PROVE  /\ local' \in [Workers -> Seq(ItemType)] /\ queue' \in [Workers -> Seq(ItemType)]
           /\ \A v \in Workers : v # w => local'[v] = local[v]
           /\ \A y \in Items(local'[w]) : y \in Items(l) \/ Goes(out, w, y)
           /\ \A y, z : Ahead(local'[w], y, z) =>
                \/ Ahead(l, y, z)
                \/ y \in Items(l) /\ Goes(out, w, z)
                \/ Ahead(out, y, z) /\ Goes(out, w, y) /\ Goes(out, w, z)
           /\ \A v \in Workers : \A y \in Items(queue'[v]) :
                \/ y \in Items(QueueBase(w, q, v))
                \/ v # w /\ Goes(out, v, y)
                \/ Bounces(out, v, y)
           /\ \A v \in Workers : \A y, z : Ahead(queue'[v], y, z) =>
                \/ Ahead(QueueBase(w, q, v), y, z)
                \/ y \in Items(QueueBase(w, q, v)) /\ ((v # w /\ Goes(out, v, z)) \/ Bounces(out, v, z))
                \/ v # w /\ Ahead(out, y, z) /\ Goes(out, v, y) /\ Goes(out, v, z)
                \/ v # w /\ Goes(out, v, y) /\ Bounces(out, v, z)
                \/ \E a, b : Ahead(out, a, b) /\ Turns(a, v, y) /\ Turns(b, v, z)
           /\ \A y : y \in Items(l) \/ Goes(out, w, y) => y \in Items(local'[w])
           /\ \A v \in Workers : \A y :
                y \in Items(QueueBase(w, q, v)) \/ (v # w /\ Goes(out, v, y)) \/ Bounces(out, v, y)
                => y \in Items(queue'[v])
<1> DEFINE dead == Lost(out)
           back == Bounced(dead)
<1>1. PICK came \in {back \o <<>>} :
        /\ local' = [local EXCEPT ![w] = l \o At(w, out)]
        /\ queue' = [v \in Workers |->
                       (IF v = w THEN q ELSE queue[v] \o At(v, out)) \o At(v, came)]
  <2>1. PICK sent \in {out \o <<>>} : \E came \in {Bounced(Lost(sent)) \o <<>>} :
          /\ local' = [local EXCEPT ![w] = l \o At(w, sent)]
          /\ queue' = [v \in Workers |->
                         (IF v = w THEN q ELSE queue[v] \o At(v, sent)) \o At(v, came)]
    BY DEF Sent
  <2>2. sent = out
    BY <2>1
  <2> QED BY <2>1, <2>2
<1>2. local \in [Workers -> Seq(ItemType)] /\ queue \in [Workers -> Seq(ItemType)]
  BY DEF TypeInv
\* What goes on.
<1>3. ASSUME NEW v \in Workers, NEW s \in Seq(OutType)
      PROVE  /\ At(v, s) \in Seq(ItemType)
             /\ \A y : (y \in Items(At(v, s))) <=> Goes(s, v, y)
             /\ \A y, z : Ahead(At(v, s), y, z) => Ahead(s, y, z) /\ Goes(s, v, y) /\ Goes(s, v, z)
  <2> DEFINE A == {y \in OutType : Alive(y) /\ WorkerOf[y.to] = v}
             t == At(v, s)
  <2>1. \A i \in DOMAIN s : s[i] \in OutType
    BY SeqFacts
  <2> DEFINE I == {i \in DOMAIN s : Alive(s[i]) /\ WorkerOf[s[i].to] = v}
  <2>2. I \in SUBSET (DOMAIN s) /\ \A i \in DOMAIN s : (i \in I) <=> (s[i] \in A)
    BY <2>1
  <2>3. t = Those(s, I)
    BY DEF At
  <2>4. A \subseteq ItemType
    BY ItemFacts DEF Alive
  <2>5. Items(s) \subseteq OutType
    BY SeqFacts
  <2>6. \A y \in OutType : (y \in A) <=> (Alive(y) /\ WorkerOf[y.to] = v)
    OBVIOUS
  <2> HIDE DEF A, t, I
  <2>7. /\ t \in Seq(OutType)
        /\ \A x : (x \in Items(t)) <=> (x \in Items(s) /\ x \in A)
        /\ \A x, y : Ahead(t, x, y) => Ahead(s, x, y) /\ x \in A /\ y \in A
    BY <2>2, <2>3, Chosen
  <2>8. \A y : (y \in Items(t)) <=> Goes(s, v, y)
    BY <2>5, <2>6, <2>7 DEF Goes
  <2>9. \A y, z : Ahead(t, y, z) => y \in Items(t) /\ z \in Items(t)
    BY DEF Ahead, Items
  <2>10. t \in Seq(ItemType)
    <3>1. Len(t) \in Nat /\ DOMAIN t = 1..Len(t) /\ t = [i \in 1..Len(t) |-> t[i]]
      BY <2>7
    <3>2. \A i \in 1..Len(t) : t[i] \in ItemType
      BY <2>4, <2>7, <3>1 DEF Items
    <3> QED BY <3>1, <3>2
  <2> QED BY <2>7, <2>8, <2>9, <2>10 DEF t
\* What cannot.
<1>4. /\ dead \in Seq(OutType)
      /\ \A y : (y \in Items(dead)) <=> (y \in Items(out) /\ y.to \in Codecs /\ Gone(y.to))
      /\ \A y, z : Ahead(dead, y, z) => Ahead(out, y, z)
  <2> DEFINE A == {y \in OutType : y.to \in Codecs /\ Gone(y.to)}
  <2>1. \A i \in DOMAIN out : out[i] \in OutType
    BY SeqFacts
  <2> DEFINE I == {i \in DOMAIN out : out[i].to \in Codecs /\ Gone(out[i].to)}
  <2>2. I \in SUBSET (DOMAIN out) /\ \A i \in DOMAIN out : (i \in I) <=> (out[i] \in A)
    BY <2>1
  <2>3. dead = Those(out, I)
    BY DEF Lost
  <2>5. Items(out) \subseteq OutType
    BY SeqFacts
  <2>6. \A y \in OutType : (y \in A) <=> (y.to \in Codecs /\ Gone(y.to))
    OBVIOUS
  <2> HIDE DEF A, dead, I
  <2>7. /\ dead \in Seq(OutType)
        /\ \A x : (x \in Items(dead)) <=> (x \in Items(out) /\ x \in A)
        /\ \A x, y : Ahead(dead, x, y) => Ahead(out, x, y) /\ x \in A /\ y \in A
    BY <2>2, <2>3, Chosen
  <2> QED BY <2>5, <2>6, <2>7
<1>5. /\ back \in Seq(OutType)
      /\ \A y \in Items(back) : \E z \in Items(dead) : y = Returned(z)
      /\ \A y, z : Ahead(back, y, z) =>
           \E a, b : Ahead(dead, a, b) /\ y = Returned(a) /\ z = Returned(b)
      /\ \A z \in Items(dead) : Alive(Returned(z)) => Returned(z) \in Items(back)
  BY <1>4, BouncedFacts
<1>6. ASSUME NEW v \in Workers
      PROVE  /\ At(v, back) \in Seq(ItemType)
             /\ \A y : (y \in Items(At(v, back))) <=> Bounces(out, v, y)
             /\ \A y, z : Ahead(At(v, back), y, z) =>
                  \E a, b : Ahead(out, a, b) /\ Turns(a, v, y) /\ Turns(b, v, z)
  <2> HIDE DEF back
  <2>1. /\ At(v, back) \in Seq(ItemType)
        /\ \A y : (y \in Items(At(v, back))) <=> Goes(back, v, y)
        /\ \A y, z : Ahead(At(v, back), y, z) => Ahead(back, y, z) /\ Goes(back, v, y) /\ Goes(back, v, z)
    BY <1>3, <1>5
  <2>2. \A y \in Items(At(v, back)) : Bounces(out, v, y)
    BY <1>4, <1>5, <2>1 DEF Goes, Bounces, Turns
  <2>5. ASSUME NEW y, Bounces(out, v, y) PROVE y \in Items(At(v, back))
    <3>1. PICK z \in Items(out) : Turns(z, v, y)
      BY <2>5 DEF Bounces
    <3>2. z \in Items(dead) /\ y = Returned(z) /\ Alive(y) /\ WorkerOf[y.to] = v
      BY <1>4, <3>1 DEF Turns
    <3> QED BY <1>5, <2>1, <3>2 DEF Goes
  <2>3. \A a, b : Ahead(dead, a, b) => a \in Items(dead) /\ b \in Items(dead)
    BY DEF Ahead, Items
  <2>4. \A y, z : Ahead(At(v, back), y, z) =>
          \E a, b : Ahead(out, a, b) /\ Turns(a, v, y) /\ Turns(b, v, z)
    BY <1>4, <1>5, <2>1, <2>3 DEF Goes, Turns
  <2> QED BY <2>1, <2>2, <2>4, <2>5
<1> HIDE DEF back, dead
<1>7. /\ local' \in [Workers -> Seq(ItemType)]
      /\ \A v \in Workers : v # w => local'[v] = local[v]
      /\ \A y \in Items(local'[w]) : y \in Items(l) \/ Goes(out, w, y)
      /\ \A y, z : Ahead(local'[w], y, z) =>
           \/ Ahead(l, y, z)
           \/ y \in Items(l) /\ Goes(out, w, z)
           \/ Ahead(out, y, z) /\ Goes(out, w, y) /\ Goes(out, w, z)
      /\ \A y : y \in Items(l) \/ Goes(out, w, y) => y \in Items(local'[w])
  <2> DEFINE t == At(w, out)
  <2>1. t \in Seq(ItemType) /\ (\A y : (y \in Items(t)) <=> Goes(out, w, y))
        /\ \A y, z : Ahead(t, y, z) => Ahead(out, y, z) /\ Goes(out, w, y) /\ Goes(out, w, z)
    BY <1>3
  <2> HIDE DEF t
  <2>2. /\ l \o t \in Seq(ItemType) /\ Items(l \o t) = Items(l) \cup Items(t)
        /\ \A x, y : Ahead(l \o t, x, y) =>
             Ahead(l, x, y) \/ (x \in Items(l) /\ y \in Items(t)) \/ Ahead(t, x, y)
    BY <2>1, Joined
  <2>3. local' = [local EXCEPT ![w] = l \o t]
    BY <1>1 DEF t
  <2>4. local'[w] = l \o t /\ (\A v \in Workers : v # w => local'[v] = local[v])
        /\ local' \in [Workers -> Seq(ItemType)]
    BY <1>2, <2>2, <2>3
  <2> QED BY <2>1, <2>2, <2>4
<1>8. ASSUME NEW v \in Workers
      PROVE  /\ queue'[v] \in Seq(ItemType)
             /\ \A y \in Items(queue'[v]) :
                  \/ y \in Items(QueueBase(w, q, v))
                  \/ v # w /\ Goes(out, v, y)
                  \/ Bounces(out, v, y)
             /\ \A y, z : Ahead(queue'[v], y, z) =>
                  \/ Ahead(QueueBase(w, q, v), y, z)
                  \/ y \in Items(QueueBase(w, q, v)) /\ ((v # w /\ Goes(out, v, z)) \/ Bounces(out, v, z))
                  \/ v # w /\ Ahead(out, y, z) /\ Goes(out, v, y) /\ Goes(out, v, z)
                  \/ v # w /\ Goes(out, v, y) /\ Bounces(out, v, z)
                  \/ \E a, b : Ahead(out, a, b) /\ Turns(a, v, y) /\ Turns(b, v, z)
             /\ \A y : y \in Items(QueueBase(w, q, v)) \/ (v # w /\ Goes(out, v, y)) \/ Bounces(out, v, y)
                  => y \in Items(queue'[v])
  <2> DEFINE base == QueueBase(w, q, v)
             t == At(v, out)
             r == At(v, back)
             h == base \o t
  <2>1. base \in Seq(ItemType)
    BY <1>2 DEF QueueBase
  <2>2. t \in Seq(ItemType) /\ (\A y : (y \in Items(t)) <=> Goes(out, v, y))
        /\ \A y, z : Ahead(t, y, z) => Ahead(out, y, z) /\ Goes(out, v, y) /\ Goes(out, v, z)
    BY <1>3
  <2>3. r \in Seq(ItemType) /\ (\A y : (y \in Items(r)) <=> Bounces(out, v, y))
        /\ \A y, z : Ahead(r, y, z) => \E a, e : Ahead(out, a, e) /\ Turns(a, v, y) /\ Turns(e, v, z)
    BY <1>6
  <2>4. queue'[v] = IF v = w THEN base \o r ELSE (base \o t) \o r
    <3>1. came = back
      <4> HIDE DEF back
      <4> QED BY <1>1, <1>5
    <3> QED BY <1>1, <3>1 DEF QueueBase
  <2> HIDE DEF base, t, r
  <2>5. /\ h \in Seq(ItemType) /\ Items(h) = Items(base) \cup Items(t)
        /\ \A x, y : Ahead(h, x, y) =>
             Ahead(base, x, y) \/ (x \in Items(base) /\ y \in Items(t)) \/ Ahead(t, x, y)
    BY <2>1, <2>2, Joined
  <2> HIDE DEF h
  <2>6. CASE v = w
    <3>1. queue'[v] = base \o r
      BY <2>4, <2>6
    <3>2. /\ base \o r \in Seq(ItemType) /\ Items(base \o r) = Items(base) \cup Items(r)
          /\ \A x, y : Ahead(base \o r, x, y) =>
               Ahead(base, x, y) \/ (x \in Items(base) /\ y \in Items(r)) \/ Ahead(r, x, y)
      BY <2>1, <2>3, Joined
    <3> QED BY <2>3, <2>6, <3>1, <3>2 DEF base
  <2>7. CASE v # w
    <3>1. queue'[v] = h \o r
      BY <2>4, <2>7 DEF h
    <3>2. /\ h \o r \in Seq(ItemType) /\ Items(h \o r) = Items(h) \cup Items(r)
          /\ \A x, y : Ahead(h \o r, x, y) =>
               Ahead(h, x, y) \/ (x \in Items(h) /\ y \in Items(r)) \/ Ahead(r, x, y)
      BY <2>3, <2>5, Joined
    <3>3. queue'[v] \in Seq(ItemType)
      BY <3>1, <3>2
    <3>4. \A y \in Items(queue'[v]) : y \in Items(base) \/ Goes(out, v, y) \/ Bounces(out, v, y)
      BY <2>2, <2>3, <2>5, <3>1, <3>2
    <3>5. \A y, z : Ahead(queue'[v], y, z) =>
            \/ Ahead(base, y, z)
            \/ y \in Items(base) /\ (Goes(out, v, z) \/ Bounces(out, v, z))
            \/ Ahead(out, y, z) /\ Goes(out, v, y) /\ Goes(out, v, z)
            \/ Goes(out, v, y) /\ Bounces(out, v, z)
            \/ \E a, e : Ahead(out, a, e) /\ Turns(a, v, y) /\ Turns(e, v, z)
      BY <2>2, <2>3, <2>5, <3>1, <3>2
    <3>6. \A y : y \in Items(base) \/ Goes(out, v, y) \/ Bounces(out, v, y) => y \in Items(queue'[v])
      BY <2>2, <2>3, <2>5, <3>1, <3>2
    <3> QED BY <2>7, <3>3, <3>4, <3>5, <3>6 DEF base
  <2> QED BY <2>6, <2>7
<1>9. queue' \in [Workers -> Seq(ItemType)]
  BY <1>1, <1>8
<1> QED BY <1>7, <1>8, <1>9

-----------------------------------------------------------------------------
(* Where the messages of a connection may be. One of them is on its way    *)
(* forth, at an input, or on its way back, by the queue or the local queue *)
(* of the worker of its owner.                                             *)

Of(x, k) == FromPool(x.msg) /\ x.msg.of = k
IsControl(x) == x.msg.what = "control"
IsBack(x) == x.to = x.msg.of
InTransit(x) == \E w \in Workers : x \in Items(local[w]) \/ x \in Items(queue[w])
AtInput(x) == \E k \in Codecs : x \in Items(codec[k].in)
IsForth(x) == InTransit(x) /\ ~IsBack(x)
IsQueuedBack(x) == IsBack(x) /\ \E w \in Workers : x \in Items(queue[w])
IsAbroad(x) == InTransit(x) \/ AtInput(x)
RouteOf(k) == codec[k].route

\* What it may be.
ForthKind(x) == \/ x.msg.what \in Bufs /\ x.op = "empty" /\ x.len = 1
                \/ IsControl(x) /\ x.op \in {"empty", "flush"} /\ x.len = 0
BackOp(x) == x.op = "fill" \/ (x.op = "flush" /\ IsControl(x))
BackKind(x) == BackOp(x) /\ (x.len = Invalid => codec[RouteOf(x.msg.of)].mode # "running")
AppKind(x) ==
    \/ x.msg = Cmd /\ x.op \in {"route", "unroute", "unregister", "pause", "resume"} /\ x.len = 0
    \/ x.msg = Msg(x.to, "start") /\ x.op = "fill" /\ x.len = 0
    \/ x.msg = Msg(x.to, "in") /\ x.op = "empty" /\ x.len = 1 /\ x.to \in Sources
    \/ x.msg = Msg(x.to, "eos") /\ x.op = "empty" /\ x.len = 0 /\ x.to \in Sources
    \/ x.msg = Msg(x.to, "out") /\ x.op = "fill" /\ x.len = 1 /\ x.to \in Sinks /\ x.to \in ready

\* In a local queue: messages between components of that worker; none is for one that
\* is gone.
LocalPlace(w, x) ==
    /\ FromPool(x.msg) /\ Routed(codec[x.msg.of]) /\ WorkerOf[x.msg.of] = w
    /\ WorkerOf[x.to] = w /\ ~Gone(x.to)
    /\ IsBack(x) => BackKind(x)
    /\ ~IsBack(x) => ForthKind(x) /\ x.to = RouteOf(x.msg.of)

\* In the queue of a worker: messages of the application and of other workers, and what
\* bounced off a component that is gone.
QueuePlace(w, x) ==
    /\ WorkerOf[x.to] = w /\ ~Gone(x.to)
    /\ ~FromPool(x.msg) => AppKind(x)
    /\ FromPool(x.msg) =>
         /\ Routed(codec[x.msg.of])
         /\ IsBack(x) => BackKind(x) /\ (WorkerOf[RouteOf(x.msg.of)] = w => Gone(RouteOf(x.msg.of)))
         /\ ~IsBack(x) => ForthKind(x) /\ x.to = RouteOf(x.msg.of) /\ WorkerOf[x.msg.of] # w

\* At an input.
InputPlace(k, x) ==
    /\ x.to = k
    /\ ~FromPool(x.msg) => AppKind(x) /\ x.op = "empty"
    /\ FromPool(x.msg) => Routed(codec[x.msg.of]) /\ RouteOf(x.msg.of) = k /\ ForthKind(x)

PlaceInv ==
    /\ \A w \in Workers : \A x \in Items(local[w]) : LocalPlace(w, x)
    /\ \A w \in Workers : \A x \in Items(queue[w]) : QueuePlace(w, x)
    /\ \A k \in Codecs : \A x \in Items(codec[k].in) : InputPlace(k, x)

\* A port that is routed is that of a component that lives; one that is gone has nothing.
RouteInv == \A k \in Codecs :
    /\ Routed(codec[k]) => <<k, RouteOf(k)>> \in Edges /\ ~Gone(k)
    /\ Gone(k) => codec[k].in = <<>>

\* Nothing of the pool is behind the flow-control message: in one queue ...
Closed(s) == \A x, y : Ahead(s, x, y) /\ IsControl(x) /\ Of(y, x.msg.of) => x.to # y.to
ClosedInv == /\ \A w \in Workers : Closed(local[w]) /\ Closed(queue[w])
             /\ \A k \in Codecs : Closed(codec[k].in)

\* ... or in a place it has passed.
NoneBehind ==
    /\ \A w \in Workers : \A x \in Items(local[w]) : IsControl(x) /\ IsBack(x) =>
         \A y : Of(y, x.msg.of) => ~IsQueuedBack(y) /\ ~AtInput(y) /\ ~IsForth(y)
    /\ \A w \in Workers : \A x \in Items(queue[w]) : IsControl(x) /\ IsBack(x) =>
         \A y : Of(y, x.msg.of) => ~AtInput(y) /\ ~IsForth(y)
    /\ \A k \in Codecs : \A x \in Items(codec[k].in) : IsControl(x) =>
         \A y : Of(y, x.msg.of) => ~IsForth(y)

\* What the flags of a port say of its pool.
PortInv == \A k \in Codecs :
    /\ \A x : IsAbroad(x) /\ Of(x, k) /\ IsControl(x) => "flushing" \in codec[k].oflags
    /\ Routed(codec[k]) /\ "idle" \in codec[k].oflags => \A x : IsAbroad(x) => ~Of(x, k)

PoolInv == PlaceInv /\ RouteInv /\ ClosedInv /\ NoneBehind /\ PortInv

-----------------------------------------------------------------------------
(* A step of component k, as far as pools are concerned. It is given the   *)
(* messages T, its worker's queues come down to l and q, it becomes d and  *)
(* sends out.                                                              *)

Takes(k, T, l, q) ==
    LET w == WorkerOf[k] IN
    /\ T \subseteq ItemType /\ l \in Seq(ItemType) /\ q \in Seq(ItemType) /\ ~Gone(k)
    /\ \A x \in T : x.to = k /\ (x \in Items(local[w]) \/ x \in Items(queue[w]))
    /\ Items(l) \subseteq Items(local[w]) /\ \A x, y : Ahead(l, x, y) => Ahead(local[w], x, y)
    /\ Items(q) \subseteq Items(queue[w]) /\ \A x, y : Ahead(q, x, y) => Ahead(queue[w], x, y)
    /\ \A x \in T : IsControl(x) =>
         \A y \in Items(l) \cup Items(q) : Of(y, x.msg.of) => y.to # k

\* An answer to what it was given or had at its input.
IsAnswer(k, T, d, y) ==
    /\ FromPool(y.msg) /\ y.msg.of # k /\ IsBack(y) /\ BackOp(y)
    /\ y.len = Invalid => d.mode # "running"
    /\ \E z \in T \cup Items(codec[k].in) : z.msg = y.msg /\ (y.op = "flush" => z.op = "flush")

\* A message of its own pool.
IsSent(k, d, y) ==
    /\ Of(y, k) /\ Routed(codec[k]) /\ "flushing" \notin codec[k].oflags
    /\ y.to = RouteOf(k) /\ ForthKind(y)
    /\ Routed(d) /\ d.route = RouteOf(k) /\ "idle" \notin d.oflags
    /\ IsControl(y) => "flushing" \in d.oflags

OutOk(k, T, d, out) ==
    /\ out \in Seq(OutType)
    /\ \A y \in Items(out) : y.to = App \/ IsAnswer(k, T, d, y) \/ IsSent(k, d, y)
    /\ \A x, y : Ahead(out, x, y) /\ IsControl(x) => ~Of(y, x.msg.of)
    /\ \A x \in Items(out), y \in Items(d.in) : IsControl(x) => ~Of(y, x.msg.of)
InOk(k, T, d) ==
    /\ \A x \in Items(d.in) : x \in Items(codec[k].in)
         \/ (x \in T /\ ~Of(x, k) /\ (~FromPool(x.msg) => x.op = "empty"))
    /\ \A x, y : Ahead(d.in, x, y) /\ IsControl(x) => ~Of(y, x.msg.of)
\* It keeps its port as it is, or is done with it.
PortKept(k, d) ==
    /\ Routed(codec[k]) /\ Routed(d) /\ d.route = RouteOf(k)
    /\ "flushing" \in codec[k].oflags => "flushing" \in d.oflags
    /\ "idle" \in d.oflags => "idle" \in codec[k].oflags
PortDone(k, T, out) ==
    /\ (\E x \in T : x.msg = Control(k)) \/ ~Routed(codec[k]) \/ "idle" \in codec[k].oflags
    /\ \A y \in Items(out) : ~Of(y, k)
ModeOk(k, l, q, d) ==
    /\ codec[k].mode # "running" => d.mode # "running"
    /\ Routed(d) => <<k, d.route>> \in Edges /\ d.mode # "gone"
    /\ d.mode = "gone" => /\ d.in = <<>>
                          /\ \A y \in Items(l) \cup Items(q) : y.to # k

Handles(k, T, l, q, d, out) ==
    /\ Takes(k, T, l, q) /\ OutOk(k, T, d, out) /\ InOk(k, T, d)
    /\ PortKept(k, d) \/ PortDone(k, T, out)
    /\ ModeOk(k, l, q, d)
    /\ d \in CodecType(k) /\ codec' = [codec EXCEPT ![k] = d]
    /\ Sent(WorkerOf[k], l, q, out) /\ ready \subseteq ready'

\* Where a message may come from.
IsLeft(k, l, q, x) ==
    \E v \in Workers : \/ x \in Items(local[v]) /\ (v = WorkerOf[k] => x \in Items(l))
                       \/ x \in Items(queue[v]) /\ (v = WorkerOf[k] => x \in Items(q))

\* No connection is a circle.
LEMMA EdgeFacts == \A e \in Edges : e[1] \in Codecs /\ e[2] \in Codecs /\ e[1] # e[2]
<1>1. PICK depth \in [Codecs -> 0..Cardinality(Codecs)] : \A e \in Edges : depth[e[1]] < depth[e[2]]
  BY AcyclicAssumption
<1>2. Cardinality(Codecs) \in Nat
  BY CodecsAssumption, FS_CardinalityType
<1> SUFFICES ASSUME NEW e \in Edges PROVE e[1] \in Codecs /\ e[2] \in Codecs /\ e[1] # e[2]
  OBVIOUS
<1>3. e[1] \in Codecs /\ e[2] \in Codecs
  BY EdgesAssumption
<1>4. depth[e[1]] \in Int /\ depth[e[1]] < depth[e[2]]
  BY <1>1, <1>2, <1>3
<1> QED BY <1>3, <1>4

\* What arrives, and what comes back because its destination is gone.
Arrives(k, T, d, out, v, y) ==
    /\ y \in Items(out) /\ Alive(y) /\ WorkerOf[y.to] = v
    /\ IsAnswer(k, T, d, y) \/ IsSent(k, d, y)
ComesBack(k, d, out, y) == \E z \in Items(out) : IsSent(k, d, z) /\ Gone(z.to) /\ y = Returned(z)

\* The messages that component k is given.
LEMMA TakenFacts ==
    ASSUME TypeInv, PoolInv, NEW k \in Codecs, NEW T, NEW l, NEW q, Takes(k, T, l, q), NEW x \in T
    PROVE  /\ x \in ItemType /\ x.to = k /\ InTransit(x) /\ IsAbroad(x)
           /\ FromPool(x.msg) => x.msg.of \in Codecs /\ Routed(codec[x.msg.of])
           /\ Of(x, k) => BackKind(x)
           /\ FromPool(x.msg) /\ ~Of(x, k) => IsForth(x) /\ RouteOf(x.msg.of) = k /\ ForthKind(x)
           /\ ~FromPool(x.msg) => AppKind(x)
<1> DEFINE w == WorkerOf[k]
<1>1. w \in Workers
  BY DEF Workers
<1>2. x.to = k /\ x \in ItemType /\ (x \in Items(local[w]) \/ x \in Items(queue[w]))
  BY DEF Takes
<1>3. x.msg \in AllMsgs
  BY <1>2 DEF ItemType
<1>4. FromPool(x.msg) => x.msg.of \in Codecs
  BY <1>3, MsgFacts
<1>5. CASE x \in Items(local[w])
  <2>1. LocalPlace(w, x)
    BY <1>1, <1>5 DEF PoolInv, PlaceInv
  <2> QED BY <1>1, <1>2, <1>4, <1>5, <2>1 DEF LocalPlace, InTransit, IsAbroad, Of, IsForth, IsBack
<1>6. CASE x \in Items(queue[w])
  <2>1. QueuePlace(w, x)
    BY <1>1, <1>6 DEF PoolInv, PlaceInv
  <2> QED BY <1>1, <1>2, <1>4, <1>6, <2>1 DEF QueuePlace, InTransit, IsAbroad, Of, IsForth, IsBack
<1> QED BY <1>2, <1>5, <1>6

\* What it answers is of a connection to it.
LEMMA AnswerFor ==
    ASSUME TypeInv, PoolInv, NEW k \in Codecs, NEW T, NEW l, NEW q, Takes(k, T, l, q),
           NEW d, NEW y, IsAnswer(k, T, d, y)
    PROVE  /\ y.msg.of \in Codecs /\ y.msg.of # k /\ y.to = y.msg.of
           /\ Routed(codec[y.msg.of]) /\ RouteOf(y.msg.of) = k /\ ~Gone(y.msg.of)
           /\ \E z \in ItemType :
                /\ z.msg = y.msg /\ (y.op = "flush" => z.op = "flush") /\ IsAbroad(z) /\ z.to = k
                /\ (z \in T /\ IsForth(z)) \/ z \in Items(codec[k].in)
<1>1. FromPool(y.msg) /\ y.msg.of # k /\ IsBack(y)
  BY DEF IsAnswer
<1>2. PICK z \in T \cup Items(codec[k].in) : z.msg = y.msg /\ (y.op = "flush" => z.op = "flush")
  BY DEF IsAnswer
<1>3. y.to = y.msg.of
  BY <1>1 DEF IsBack
<1>4. CASE z \in T
  <2>1. /\ InTransit(z) /\ z.msg.of \in Codecs /\ z.to = k /\ IsForth(z) /\ Routed(codec[z.msg.of])
        /\ RouteOf(z.msg.of) = k /\ z \in ItemType
    BY <1>1, <1>2, <1>4, TakenFacts DEF Of
  <2>2. ~Gone(z.msg.of)
    BY <2>1 DEF PoolInv, RouteInv
  <2> QED BY <1>1, <1>2, <1>3, <1>4, <2>1, <2>2 DEF IsAbroad
<1>5. CASE z \in Items(codec[k].in)
  <2>1. InputPlace(k, z)
    BY <1>5 DEF PoolInv, PlaceInv
  <2>2. codec[k].in \in Seq(ItemType)
    BY DEF TypeInv, CodecType
  <2>3. z \in ItemType
    BY <1>5, <2>2, SeqFacts
  <2>4. z.msg.of \in Codecs
    BY <1>1, <1>2, <2>3, MsgFacts DEF ItemType
  <2>5. Routed(codec[z.msg.of]) /\ RouteOf(z.msg.of) = k /\ z.to = k
    BY <1>1, <1>2, <2>1 DEF InputPlace
  <2>6. ~Gone(z.msg.of)
    BY <2>4, <2>5 DEF PoolInv, RouteInv
  <2>7. IsAbroad(z)
    BY <1>5 DEF IsAbroad, AtInput
  <2> QED BY <1>1, <1>2, <1>3, <1>5, <2>3, <2>4, <2>5, <2>6, <2>7
<1> QED BY <1>4, <1>5

\* What it sends goes down its connection; it comes back at once if nobody is there.
LEMMA SentFor ==
    ASSUME TypeInv, PoolInv, NEW k \in Codecs, NEW d, NEW y \in OutType, IsSent(k, d, y)
    PROVE  /\ y.msg.of = k /\ <<k, y.to>> \in Edges /\ y.to \in Codecs /\ y.to # k /\ y.to = RouteOf(k)
           /\ Returned(y).to = k /\ Returned(y).msg = y.msg /\ Returned(y).len = Invalid
           /\ BackOp(Returned(y)) /\ (Returned(y).op = "flush" => y.op = "flush")
<1>1. Of(y, k) /\ Routed(codec[k]) /\ y.to = RouteOf(k) /\ ForthKind(y)
  BY DEF IsSent
<1>2. <<k, y.to>> \in Edges
  BY <1>1 DEF PoolInv, RouteInv
<1>3. y.to \in Codecs /\ y.to # k
  BY <1>2, EdgeFacts
<1>4. FromPool(y.msg) /\ y.msg.of = k
  BY <1>1 DEF Of
<1>5. Returned(y) = Answered(y, Invalid) /\ Invalid \in Lens
  BY <1>4 DEF Returned, Lens
<1>6. /\ Returned(y).to = k /\ Returned(y).msg = y.msg /\ Returned(y).len = Invalid
      /\ Returned(y).op = IF y.op = "empty" THEN "fill" ELSE y.op
  BY <1>4, <1>5, AnswerFacts
<1>7. BackOp(Returned(y))
  BY <1>1, <1>6 DEF BackOp, ForthKind, IsControl
<1> QED BY <1>1, <1>2, <1>3, <1>4, <1>6, <1>7

\* The queues after the step.
LEMMA Arrived ==
    ASSUME TypeInv, PoolInv, NEW k \in Codecs, NEW T, NEW l, NEW q, NEW d, NEW out,
           Handles(k, T, l, q, d, out)
    PROVE  /\ codec'[k] = d /\ \A j \in Codecs : j # k => codec'[j] = codec[j]
           /\ \A v \in Workers : \A y \in Items(local'[v]) :
                \/ y \in Items(local[v]) /\ (v = WorkerOf[k] => y \in Items(l))
                \/ v = WorkerOf[k] /\ Arrives(k, T, d, out, v, y)
           /\ \A v \in Workers : \A y \in Items(queue'[v]) :
                \/ y \in Items(queue[v]) /\ (v = WorkerOf[k] => y \in Items(q))
                \/ v # WorkerOf[k] /\ Arrives(k, T, d, out, v, y)
                \/ v = WorkerOf[k] /\ ComesBack(k, d, out, y)
<1> DEFINE w == WorkerOf[k]
<1>1. w \in Workers
  BY DEF Workers
<1>2. /\ l \in Seq(ItemType) /\ q \in Seq(ItemType) /\ out \in Seq(OutType) /\ Sent(w, l, q, out)
      /\ codec' = [codec EXCEPT ![k] = d] /\ Takes(k, T, l, q) /\ Items(out) \subseteq OutType
      /\ \A y \in Items(out) : y.to = App \/ IsAnswer(k, T, d, y) \/ IsSent(k, d, y)
  BY SeqFacts DEF Handles, Takes, OutOk
<1>3. codec'[k] = d /\ \A j \in Codecs : j # k => codec'[j] = codec[j]
  BY <1>2 DEF TypeInv
<1>4. ASSUME NEW v \in Workers, NEW y, Goes(out, v, y) PROVE Arrives(k, T, d, out, v, y)
  BY <1>2, <1>4, AppAssumption DEF Goes, Arrives, Alive
<1>5. ASSUME NEW v \in Workers, NEW y, Bounces(out, v, y) PROVE v = w /\ ComesBack(k, d, out, y)
  <2>1. PICK z \in Items(out) : Turns(z, v, y)
    BY <1>5 DEF Bounces
  <2>2. z.to \in Codecs /\ Gone(z.to) /\ y = Returned(z) /\ WorkerOf[y.to] = v
    BY <2>1 DEF Turns
  <2>3. ~IsAnswer(k, T, d, z)
    BY <1>2, <2>2, AnswerFor
  <2>4. IsSent(k, d, z)
    BY <1>2, <2>2, <2>3, AppAssumption
  <2>5. z \in OutType
    BY <1>2
  <2>6. y.to = k
    BY <2>2, <2>4, <2>5, SentFor
  <2> QED BY <2>2, <2>4, <2>6 DEF ComesBack
<1>6. /\ \A v \in Workers : v # w => local'[v] = local[v]
      /\ \A y \in Items(local'[w]) : y \in Items(l) \/ Goes(out, w, y)
      /\ \A v \in Workers : \A y \in Items(queue'[v]) :
           \/ y \in Items(QueueBase(w, q, v))
           \/ v # w /\ Goes(out, v, y)
           \/ Bounces(out, v, y)
  BY <1>1, <1>2, SentFacts
<1>7. Items(l) \subseteq Items(local[w]) /\ Items(q) \subseteq Items(queue[w])
  BY <1>2 DEF Takes
<1>8. ASSUME NEW v \in Workers, NEW y \in Items(local'[v])
      PROVE  \/ y \in Items(local[v]) /\ (v = WorkerOf[k] => y \in Items(l))
             \/ v = WorkerOf[k] /\ Arrives(k, T, d, out, v, y)
  <2>1. CASE v = w
    BY <1>4, <1>6, <1>7, <1>8, <2>1
  <2>2. CASE v # w
    BY <1>6, <1>8, <2>2
  <2> QED BY <2>1, <2>2
<1>9. ASSUME NEW v \in Workers, NEW y \in Items(queue'[v])
      PROVE  \/ y \in Items(queue[v]) /\ (v = WorkerOf[k] => y \in Items(q))
             \/ v # WorkerOf[k] /\ Arrives(k, T, d, out, v, y)
             \/ v = WorkerOf[k] /\ ComesBack(k, d, out, y)
  <2>1. CASE y \in Items(QueueBase(w, q, v))
    BY <1>7, <2>1 DEF QueueBase
  <2>2. CASE v # w /\ Goes(out, v, y)
    BY <1>4, <2>2
  <2>3. CASE Bounces(out, v, y)
    BY <1>5, <2>3
  <2> QED BY <1>6, <1>9, <2>1, <2>2, <2>3
<1> QED BY <1>3, <1>8, <1>9

\* A component that is done with its port has nothing left anywhere.
LEMMA NothingLeft ==
    ASSUME TypeInv, PoolInv, NEW k \in Codecs, NEW T, NEW l, NEW q, NEW out,
           Takes(k, T, l, q), PortDone(k, T, out), NEW y, IsLeft(k, l, q, y) \/ AtInput(y)
    PROVE  ~Of(y, k)
<1> DEFINE w == WorkerOf[k]
<1>1. w \in Workers
  BY DEF Workers
<1>2. SUFFICES ASSUME Of(y, k) PROVE FALSE
  OBVIOUS
<1>3. FromPool(y.msg) /\ y.msg.of = k
  BY <1>2 DEF Of
<1>4. InTransit(y) \/ AtInput(y)
  BY DEF IsLeft, InTransit
<1>5. Routed(codec[k])
  <2>1. CASE \E v \in Workers : y \in Items(local[v])
    BY <1>3, <2>1 DEF PoolInv, PlaceInv, LocalPlace
  <2>2. CASE \E v \in Workers : y \in Items(queue[v])
    BY <1>3, <2>2 DEF PoolInv, PlaceInv, QueuePlace
  <2>3. CASE AtInput(y)
    BY <1>3, <2>3 DEF PoolInv, PlaceInv, InputPlace, AtInput
  <2> QED BY <1>4, <2>1, <2>2, <2>3 DEF InTransit
<1>6. "idle" \notin codec[k].oflags
  BY <1>2, <1>4, <1>5 DEF PoolInv, PortInv, IsAbroad
<1>7. PICK x \in T : x.msg = Control(k)
  BY <1>5, <1>6 DEF PortDone
<1>8. IsControl(x) /\ x.msg.of = k /\ IsBack(x) /\ x.to = k /\ (x \in Items(local[w]) \/ x \in Items(queue[w]))
  BY <1>7, MsgFacts DEF Takes, IsControl, IsBack
<1>9. ~AtInput(y) /\ ~IsForth(y)
  BY <1>1, <1>2, <1>8 DEF PoolInv, NoneBehind
<1>10. IsBack(y) /\ y.to = k /\ IsLeft(k, l, q, y)
  BY <1>3, <1>4, <1>9 DEF IsForth, IsBack
<1>11. y \notin Items(l) /\ y \notin Items(q)
  BY <1>2, <1>8, <1>10 DEF Takes
<1>12. PICK v \in Workers : v # w /\ (y \in Items(local[v]) \/ y \in Items(queue[v]))
  BY <1>10, <1>11 DEF IsLeft
<1>13. WorkerOf[y.to] = v
  BY <1>12 DEF PoolInv, PlaceInv, LocalPlace, QueuePlace
<1> QED BY <1>10, <1>12, <1>13

\* What is left keeps its place.
LEMMA LeftInPlace ==
    ASSUME TypeInv, PoolInv, NEW k \in Codecs, NEW T, NEW l, NEW q, NEW d, NEW out,
           Handles(k, T, l, q, d, out), NEW v \in Workers, NEW y
    PROVE  /\ y \in Items(local[v]) /\ (v = WorkerOf[k] => y \in Items(l)) => LocalPlace(v, y)'
           /\ y \in Items(queue[v]) /\ (v = WorkerOf[k] => y \in Items(q)) => QueuePlace(v, y)'
<1> DEFINE j == y.msg.of
<1>1. /\ codec'[k] = d /\ \A h \in Codecs : h # k => codec'[h] = codec[h]
  BY Arrived
<1>2. /\ Takes(k, T, l, q) /\ ModeOk(k, l, q, d) /\ ready \subseteq ready'
      /\ PortKept(k, d) \/ PortDone(k, T, out)
  BY DEF Handles
<1>3. local \in [Workers -> Seq(ItemType)] /\ queue \in [Workers -> Seq(ItemType)]
  BY DEF TypeInv
<1>4. ASSUME y \in Items(local[v]) \cup Items(queue[v]), IsLeft(k, l, q, y), WorkerOf[y.to] = v, ~Gone(y.to),
             v = WorkerOf[k] => y \in Items(l) \cup Items(q)
      PROVE  /\ ~Gone(y.to)'
             /\ FromPool(y.msg) /\ Routed(codec[j]) => Routed(codec[j])' /\ RouteOf(j)' = RouteOf(j)
             /\ FromPool(y.msg) /\ Routed(codec[j]) /\ BackKind(y) => BackKind(y)'
             /\ FromPool(y.msg) /\ Routed(codec[j]) /\ Gone(RouteOf(j)) => Gone(RouteOf(j))'
  <2>1. y \in ItemType
    BY <1>3, <1>4, SeqFacts
  <2>2. y.to \in Codecs /\ (FromPool(y.msg) => j \in Codecs)
    BY <2>1, MsgFacts DEF ItemType
  <2>3. ~Gone(y.to)'
    <3>1. CASE y.to # k
      BY <1>1, <1>4, <2>2, <3>1 DEF Gone
    <3>2. CASE y.to = k
      <4>1. d.mode # "gone"
        BY <1>2, <1>4, <3>2 DEF ModeOk
      <4> QED BY <1>1, <3>2, <4>1 DEF Gone
    <3> QED BY <3>1, <3>2
  <2>4. ASSUME FromPool(y.msg), Routed(codec[j])
        PROVE  /\ Routed(codec[j])' /\ RouteOf(j)' = RouteOf(j) /\ RouteOf(j) \in Codecs
    <3>1. RouteOf(j) \in Codecs
      <4>1. <<j, RouteOf(j)>> \in Edges
        BY <2>2, <2>4 DEF PoolInv, RouteInv
      <4> QED BY <4>1, EdgeFacts
    <3>2. CASE j # k
      BY <1>1, <2>2, <2>4, <3>1, <3>2 DEF RouteOf
    <3>3. CASE j = k
      <4>1. ~PortDone(k, T, out)
        BY <1>2, <1>4, <2>4, <3>3, NothingLeft DEF Of
      <4>2. PortKept(k, d)
        BY <1>2, <4>1
      <4> QED BY <1>1, <3>1, <3>3, <4>2 DEF PortKept, RouteOf
    <3> QED BY <3>2, <3>3
  <2>5. ASSUME FromPool(y.msg), Routed(codec[j])
        PROVE  /\ codec[RouteOf(j)].mode # "running" => codec[RouteOf(j)]'.mode # "running"
               /\ Gone(RouteOf(j)) => Gone(RouteOf(j))'
    <3>1. RouteOf(j) \in Codecs /\ RouteOf(j)' = RouteOf(j)
      BY <2>4, <2>5
    <3>2. CASE RouteOf(j) # k
      <4>1. codec'[RouteOf(j)] = codec[RouteOf(j)]
        BY <1>1, <3>1, <3>2
      <4> QED BY <3>1, <4>1 DEF Gone
    <3>3. CASE RouteOf(j) = k
      <4>1. ~Gone(k)
        BY <1>2 DEF Takes
      <4> QED BY <1>1, <1>2, <3>1, <3>3, <4>1 DEF ModeOk
    <3> QED BY <3>2, <3>3
  <2>6. FromPool(y.msg) /\ Routed(codec[j]) /\ BackKind(y) => BackKind(y)'
    BY <2>4, <2>5 DEF BackKind
  <2> QED BY <2>3, <2>4, <2>5, <2>6
<1>5. ASSUME y \in Items(local[v]), v = WorkerOf[k] => y \in Items(l) PROVE LocalPlace(v, y)'
  <2>1. LocalPlace(v, y)
    BY <1>5 DEF PoolInv, PlaceInv
  <2>2. IsLeft(k, l, q, y)
    BY <1>5 DEF IsLeft
  <2>3. /\ FromPool(y.msg) /\ Routed(codec[j]) /\ WorkerOf[j] = v
        /\ WorkerOf[y.to] = v /\ ~Gone(y.to)
        /\ IsBack(y) => BackKind(y)
        /\ ~IsBack(y) => ForthKind(y) /\ y.to = RouteOf(j)
    BY <2>1 DEF LocalPlace
  <2>4. ~Gone(y.to)' /\ Routed(codec[j])' /\ RouteOf(j)' = RouteOf(j) /\ (BackKind(y) => BackKind(y)')
    BY <1>4, <1>5, <2>2, <2>3
  <2> QED BY <2>3, <2>4 DEF LocalPlace
<1>6. ASSUME y \in Items(queue[v]), v = WorkerOf[k] => y \in Items(q) PROVE QueuePlace(v, y)'
  <2>1. QueuePlace(v, y)
    BY <1>6 DEF PoolInv, PlaceInv
  <2>2. IsLeft(k, l, q, y)
    BY <1>6 DEF IsLeft
  <2>3. /\ WorkerOf[y.to] = v /\ ~Gone(y.to)
        /\ ~FromPool(y.msg) => AppKind(y)
        /\ FromPool(y.msg) =>
             /\ Routed(codec[j])
             /\ IsBack(y) => BackKind(y) /\ (WorkerOf[RouteOf(j)] = v => Gone(RouteOf(j)))
             /\ ~IsBack(y) => ForthKind(y) /\ y.to = RouteOf(j) /\ WorkerOf[j] # v
    BY <2>1 DEF QueuePlace
  <2>4. /\ ~Gone(y.to)'
        /\ FromPool(y.msg) => Routed(codec[j])' /\ RouteOf(j)' = RouteOf(j) /\ (BackKind(y) => BackKind(y)')
        /\ FromPool(y.msg) /\ Gone(RouteOf(j)) => Gone(RouteOf(j))'
    BY <1>4, <1>6, <2>2, <2>3
  <2>5. ~FromPool(y.msg) => AppKind(y)'
    BY <1>2, <2>3 DEF AppKind
  <2>6. FromPool(y.msg) =>
             /\ Routed(codec[j])'
             /\ IsBack(y) => BackKind(y)' /\ (WorkerOf[RouteOf(j)'] = v => Gone(RouteOf(j))')
             /\ ~IsBack(y) => ForthKind(y) /\ y.to = RouteOf(j)' /\ WorkerOf[j] # v
    BY <2>3, <2>4
  <2> QED BY <2>3, <2>4, <2>5, <2>6 DEF QueuePlace
<1> QED BY <1>5, <1>6

\* What arrives has its place.
LEMMA NewInPlace ==
    ASSUME TypeInv, PoolInv, NEW k \in Codecs, NEW T, NEW l, NEW q, NEW d, NEW out,
           Handles(k, T, l, q, d, out), NEW v \in Workers, NEW y
    PROVE  /\ v = WorkerOf[k] /\ Arrives(k, T, d, out, v, y) => LocalPlace(v, y)'
           /\ v # WorkerOf[k] /\ Arrives(k, T, d, out, v, y) => QueuePlace(v, y)'
           /\ v = WorkerOf[k] /\ ComesBack(k, d, out, y) => QueuePlace(v, y)'
<1> DEFINE j == y.msg.of
           w == WorkerOf[k]
<1>1. /\ codec'[k] = d /\ \A h \in Codecs : h # k => codec'[h] = codec[h]
  BY Arrived
<1>2. /\ Takes(k, T, l, q) /\ ModeOk(k, l, q, d) /\ Items(out) \subseteq OutType /\ ~Gone(k)
  BY SeqFacts DEF Handles, OutOk, Takes
<1>3. ASSUME Arrives(k, T, d, out, v, y), IsAnswer(k, T, d, y)
      PROVE  /\ FromPool(y.msg) /\ Routed(codec[j])' /\ RouteOf(j)' = k /\ WorkerOf[j] = v
             /\ WorkerOf[y.to] = v /\ ~Gone(y.to)' /\ IsBack(y) /\ BackKind(y)'
  <2>1. j \in Codecs /\ j # k /\ y.to = j /\ Routed(codec[j]) /\ RouteOf(j) = k /\ ~Gone(j)
    BY <1>2, <1>3, AnswerFor
  <2>2. codec'[j] = codec[j]
    BY <1>1, <2>1
  <2>3. Routed(codec[j])' /\ RouteOf(j)' = k /\ ~Gone(y.to)'
    BY <2>1, <2>2 DEF RouteOf, Gone
  <2>4. FromPool(y.msg) /\ IsBack(y) /\ BackOp(y) /\ (y.len = Invalid => d.mode # "running")
    BY <1>3 DEF IsAnswer
  <2>5. BackKind(y)'
    BY <1>1, <2>3, <2>4 DEF BackKind
  <2> QED BY <1>3, <2>1, <2>3, <2>4, <2>5 DEF Arrives
<1>4. ASSUME Arrives(k, T, d, out, v, y), IsSent(k, d, y)
      PROVE  /\ FromPool(y.msg) /\ Routed(codec[j])' /\ WorkerOf[j] = w
             /\ WorkerOf[y.to] = v /\ ~Gone(y.to)' /\ ~IsBack(y) /\ ForthKind(y) /\ y.to = RouteOf(j)'
  <2>0. y \in OutType /\ Alive(y) /\ WorkerOf[y.to] = v
    BY <1>2, <1>4 DEF Arrives
  <2>1. j = k /\ y.to \in Codecs /\ y.to # k /\ y.to = RouteOf(k)
    BY <1>4, <2>0, SentFor
  <2>2. FromPool(y.msg) /\ Routed(d) /\ d.route = RouteOf(k) /\ ForthKind(y)
    BY <1>4 DEF IsSent, Of
  <2>3. ~Gone(y.to)'
    BY <1>1, <2>0, <2>1 DEF Gone, Alive
  <2> QED BY <1>1, <2>0, <2>1, <2>2, <2>3 DEF RouteOf, IsBack
<1>5. v = WorkerOf[k] /\ Arrives(k, T, d, out, v, y) => LocalPlace(v, y)'
  <2> SUFFICES ASSUME v = w, Arrives(k, T, d, out, v, y) PROVE LocalPlace(v, y)'
    OBVIOUS
  <2>1. CASE IsAnswer(k, T, d, y)
    BY <1>3, <2>1 DEF LocalPlace
  <2>2. CASE IsSent(k, d, y)
    BY <1>4, <2>2 DEF LocalPlace
  <2> QED BY <2>1, <2>2 DEF Arrives
<1>6. v # WorkerOf[k] /\ Arrives(k, T, d, out, v, y) => QueuePlace(v, y)'
  <2> SUFFICES ASSUME v # w, Arrives(k, T, d, out, v, y) PROVE QueuePlace(v, y)'
    OBVIOUS
  <2>1. CASE IsAnswer(k, T, d, y)
    BY <1>3, <2>1 DEF QueuePlace
  <2>2. CASE IsSent(k, d, y)
    BY <1>4, <2>2 DEF QueuePlace
  <2> QED BY <2>1, <2>2 DEF Arrives
<1>7. v = WorkerOf[k] /\ ComesBack(k, d, out, y) => QueuePlace(v, y)'
  <2> SUFFICES ASSUME v = w, ComesBack(k, d, out, y) PROVE QueuePlace(v, y)'
    OBVIOUS
  <2>1. PICK z \in Items(out) : IsSent(k, d, z) /\ Gone(z.to) /\ y = Returned(z)
    BY DEF ComesBack
  <2>2. z \in OutType
    BY <1>2
  <2>3. /\ z.msg.of = k /\ z.to \in Codecs /\ z.to # k /\ z.to = RouteOf(k)
        /\ y.to = k /\ y.msg = z.msg /\ y.len = Invalid /\ BackOp(y)
    BY <2>1, <2>2, SentFor
  <2>4. FromPool(z.msg) /\ Routed(d) /\ d.route = RouteOf(k)
    BY <2>1 DEF IsSent, Of
  <2>5. Gone(z.to)' /\ RouteOf(k)' = z.to
    BY <1>1, <2>1, <2>3, <2>4 DEF Gone, RouteOf
  <2>6. ~Gone(k)'
    BY <1>1, <1>2, <2>4 DEF ModeOk, Gone
  <2>7. BackKind(y)'
    BY <2>3, <2>5 DEF BackKind, Gone
  <2>8. Routed(codec[k])'
    BY <1>1, <2>4
  <2> QED BY <2>3, <2>4, <2>5, <2>6, <2>7, <2>8 DEF QueuePlace, IsBack
<1> QED BY <1>5, <1>6, <1>7

\* What the inputs hold has its place.
LEMMA InputInPlace ==
    ASSUME TypeInv, PoolInv, NEW k \in Codecs, NEW T, NEW l, NEW q, NEW d, NEW out,
           Handles(k, T, l, q, d, out), NEW h \in Codecs, NEW y \in Items(codec'[h].in)
    PROVE  /\ InputPlace(h, y)'
           /\ y \in Items(codec[h].in) \/ (h = k /\ y \in T /\ ~Of(y, k))
<1> DEFINE j == y.msg.of
<1>1. /\ codec'[k] = d /\ \A i \in Codecs : i # k => codec'[i] = codec[i]
  BY Arrived
<1>2. /\ Takes(k, T, l, q) /\ InOk(k, T, d) /\ ready \subseteq ready'
      /\ PortKept(k, d) \/ PortDone(k, T, out)
  BY DEF Handles
<1>3. y \in Items(codec[h].in) \/ (h = k /\ y \in T /\ ~Of(y, k) /\ (~FromPool(y.msg) => y.op = "empty"))
  <2>1. CASE h # k
    BY <1>1, <2>1
  <2>2. CASE h = k
    BY <1>1, <1>2, <2>2 DEF InOk
  <2> QED BY <2>1, <2>2
<1>4. /\ y.to = h /\ y \in ItemType
      /\ ~FromPool(y.msg) => AppKind(y) /\ y.op = "empty"
      /\ FromPool(y.msg) => Routed(codec[j]) /\ RouteOf(j) = h /\ ForthKind(y)
  <2>1. CASE y \in Items(codec[h].in)
    <3>1. InputPlace(h, y)
      BY <2>1 DEF PoolInv, PlaceInv
    <3>2. codec[h].in \in Seq(ItemType)
      BY DEF TypeInv, CodecType
    <3> QED BY <2>1, <3>1, <3>2, SeqFacts DEF InputPlace
  <2>2. CASE h = k /\ y \in T /\ ~Of(y, k) /\ (~FromPool(y.msg) => y.op = "empty")
    <3>1. /\ y.to = k /\ y \in ItemType
          /\ FromPool(y.msg) => y.msg.of \in Codecs /\ Routed(codec[y.msg.of])
          /\ FromPool(y.msg) /\ ~Of(y, k) => RouteOf(y.msg.of) = k /\ ForthKind(y)
          /\ ~FromPool(y.msg) => AppKind(y)
      BY <1>2, <2>2, TakenFacts
    <3> QED BY <2>2, <3>1
  <2> QED BY <1>3, <2>1, <2>2
<1>5. FromPool(y.msg) => Routed(codec[j])' /\ RouteOf(j)' = h
  <2> SUFFICES ASSUME FromPool(y.msg) PROVE Routed(codec[j])' /\ RouteOf(j)' = h
    OBVIOUS
  <2>1. j \in Codecs
    BY <1>4, MsgFacts DEF ItemType
  <2>2. CASE j # k
    BY <1>1, <1>4, <2>1, <2>2 DEF RouteOf
  <2>3. CASE j = k
    <3>1. AtInput(y)
      BY <1>3, <2>3 DEF AtInput, Of
    <3>2. ~PortDone(k, T, out)
      BY <1>2, <2>3, <3>1, NothingLeft DEF Of
    <3> QED BY <1>1, <1>2, <1>4, <2>3, <3>2 DEF PortKept, RouteOf
  <2> QED BY <2>2, <2>3
<1>6. ~FromPool(y.msg) => AppKind(y)'
  BY <1>2, <1>4 DEF AppKind
<1> QED BY <1>3, <1>4, <1>5, <1>6 DEF InputPlace

\* Everything has its place after the step.
LEMMA PlaceStep ==
    ASSUME TypeInv, PoolInv, NEW k \in Codecs, NEW T, NEW l, NEW q, NEW d, NEW out,
           Handles(k, T, l, q, d, out)
    PROVE  PlaceInv' /\ RouteInv'
<1>1. ASSUME NEW v \in Workers, NEW y \in Items(local'[v]) PROVE LocalPlace(v, y)'
  <2>1. \/ y \in Items(local[v]) /\ (v = WorkerOf[k] => y \in Items(l))
        \/ v = WorkerOf[k] /\ Arrives(k, T, d, out, v, y)
    BY <1>1, Arrived
  <2> QED BY <2>1, LeftInPlace, NewInPlace
<1>2. ASSUME NEW v \in Workers, NEW y \in Items(queue'[v]) PROVE QueuePlace(v, y)'
  <2>1. \/ y \in Items(queue[v]) /\ (v = WorkerOf[k] => y \in Items(q))
        \/ v # WorkerOf[k] /\ Arrives(k, T, d, out, v, y)
        \/ v = WorkerOf[k] /\ ComesBack(k, d, out, y)
    BY <1>2, Arrived
  <2> QED BY <2>1, LeftInPlace, NewInPlace
<1>3. ASSUME NEW h \in Codecs, NEW y \in Items(codec'[h].in) PROVE InputPlace(h, y)'
  BY <1>3, InputInPlace
<1>4. PlaceInv'
  BY <1>1, <1>2, <1>3 DEF PlaceInv, Items
<1>5. RouteInv'
  <2> SUFFICES ASSUME NEW h \in Codecs
               PROVE  /\ Routed(codec'[h]) => <<h, codec'[h].route>> \in Edges /\ codec'[h].mode # "gone"
                      /\ codec'[h].mode = "gone" => codec'[h].in = <<>>
    BY DEF RouteInv, RouteOf, Gone
  <2>1. codec'[k] = d /\ \A i \in Codecs : i # k => codec'[i] = codec[i]
    BY Arrived
  <2>2. CASE h = k
    BY <2>1, <2>2 DEF Handles, ModeOk
  <2>3. CASE h # k
    BY <2>1, <2>3 DEF PoolInv, RouteInv, RouteOf, Gone
  <2> QED BY <2>2, <2>3
<1> QED BY <1>4, <1>5

\* A message that goes on, and one that turns back.
LEMMA GoesArrives ==
    ASSUME TypeInv, PoolInv, NEW k \in Codecs, NEW T, NEW l, NEW q, NEW d, NEW out,
           Takes(k, T, l, q), OutOk(k, T, d, out), NEW v, NEW y, Goes(out, v, y)
    PROVE  Arrives(k, T, d, out, v, y)
BY AppAssumption DEF Goes, Arrives, Alive, OutOk

\* What does not arrive returns to component k.
LEMMA TurnsBack ==
    ASSUME TypeInv, PoolInv, NEW k \in Codecs, NEW T, NEW l, NEW q, NEW d, NEW out,
           Takes(k, T, l, q), OutOk(k, T, d, out), NEW v, NEW z \in Items(out), NEW y, Turns(z, v, y)
    PROVE  /\ v = WorkerOf[k] /\ IsSent(k, d, z) /\ Gone(z.to) /\ y = Returned(z)
           /\ y.msg = z.msg /\ Of(y, k) /\ y.to = k
<1>1. z.to \in Codecs /\ Gone(z.to) /\ y = Returned(z) /\ WorkerOf[y.to] = v
  BY DEF Turns
<1>2. z \in OutType
  BY SeqFacts DEF OutOk
<1>3. ~IsAnswer(k, T, d, z)
  BY <1>1, AnswerFor
<1>4. IsSent(k, d, z)
  BY <1>1, <1>3, AppAssumption DEF OutOk
<1>5. y.to = k /\ y.msg = z.msg
  BY <1>1, <1>2, <1>4, SentFor
<1>6. Of(z, k)
  BY <1>4 DEF IsSent
<1> QED BY <1>1, <1>4, <1>5, <1>6 DEF Of

\* No message of a pool is sent while its flow-control message is abroad.
LEMMA NoneSentBehind ==
    ASSUME TypeInv, PoolInv, NEW k \in Codecs, NEW d, NEW z, IsSent(k, d, z),
           NEW x, IsAbroad(x), IsControl(x), x.msg.of = k
    PROVE  FALSE
<1>1. FromPool(x.msg)
  BY MsgFacts DEF FromPool, IsControl
<1> QED BY <1>1 DEF PoolInv, PortInv, IsSent, Of

\* Nor does one arrive where the flow-control message is.
LEMMA NoneArrivesBehind ==
    ASSUME TypeInv, PoolInv, NEW k \in Codecs, NEW T, NEW l, NEW q, Takes(k, T, l, q),
           NEW d, NEW out, NEW v \in Workers, NEW y, Arrives(k, T, d, out, v, y),
           NEW u \in Workers, NEW x \in Items(local[u]) \cup Items(queue[u]),
           IsControl(x), Of(y, x.msg.of)
    PROVE  x.to # y.to
<1> SUFFICES ASSUME x.to = y.to PROVE FALSE
  OBVIOUS
<1>1. IsAbroad(x) /\ y.msg.of = x.msg.of
  BY DEF IsAbroad, InTransit, Of
<1>2. CASE IsAnswer(k, T, d, y)
  <2>1. /\ y.to = y.msg.of
        /\ \E z \in ItemType : z.msg = y.msg /\ ((z \in T /\ IsForth(z)) \/ z \in Items(codec[k].in))
    BY <1>2, AnswerFor
  <2>2. PICK z \in ItemType : z.msg = y.msg /\ (IsForth(z) \/ AtInput(z))
    BY <2>1 DEF AtInput
  <2>3. Of(z, x.msg.of)
    BY <2>2 DEF Of
  <2>4. IsBack(x)
    BY <1>1, <2>1 DEF IsBack
  <2> QED BY <2>2, <2>3, <2>4 DEF PoolInv, NoneBehind
<1>3. CASE IsSent(k, d, y)
  <2>1. y.msg.of = k
    BY <1>3 DEF IsSent, Of
  <2> QED BY <1>1, <1>3, <2>1, NoneSentBehind
<1> QED BY <1>2, <1>3 DEF Arrives

\* In no queue does anything of the pool get behind the flow-control message.
LEMMA ClosedStep ==
    ASSUME TypeInv, PoolInv, NEW k \in Codecs, NEW T, NEW l, NEW q, NEW d, NEW out,
           Handles(k, T, l, q, d, out)
    PROVE  ClosedInv'
<1> DEFINE w == WorkerOf[k]
<1>1. w \in Workers
  BY DEF Workers
<1>2. /\ l \in Seq(ItemType) /\ q \in Seq(ItemType) /\ out \in Seq(OutType) /\ Sent(w, l, q, out)
      /\ Takes(k, T, l, q) /\ OutOk(k, T, d, out) /\ InOk(k, T, d)
  BY DEF Handles, Takes, OutOk
<1>3. /\ Items(l) \subseteq Items(local[w]) /\ \A x, y : Ahead(l, x, y) => Ahead(local[w], x, y)
      /\ Items(q) \subseteq Items(queue[w]) /\ \A x, y : Ahead(q, x, y) => Ahead(queue[w], x, y)
  BY <1>2 DEF Takes
<1>4. codec'[k] = d /\ \A j \in Codecs : j # k => codec'[j] = codec[j]
  BY Arrived
<1>5. \A x, y : Ahead(out, x, y) => x \in Items(out) /\ y \in Items(out)
  BY DEF Ahead, Items
<1>6. /\ \A v \in Workers : v # w => local'[v] = local[v]
      /\ \A y, z : Ahead(local'[w], y, z) =>
           \/ Ahead(l, y, z)
           \/ y \in Items(l) /\ Goes(out, w, z)
           \/ Ahead(out, y, z) /\ Goes(out, w, y) /\ Goes(out, w, z)
      /\ \A v \in Workers : \A y, z : Ahead(queue'[v], y, z) =>
           \/ Ahead(QueueBase(w, q, v), y, z)
           \/ y \in Items(QueueBase(w, q, v)) /\ ((v # w /\ Goes(out, v, z)) \/ Bounces(out, v, z))
           \/ v # w /\ Ahead(out, y, z) /\ Goes(out, v, y) /\ Goes(out, v, z)
           \/ v # w /\ Goes(out, v, y) /\ Bounces(out, v, z)
           \/ \E a, b : Ahead(out, a, b) /\ Turns(a, v, y) /\ Turns(b, v, z)
  BY <1>1, <1>2, SentFacts
<1>7. ASSUME NEW v \in Workers PROVE Closed(local[v]) /\ Closed(queue[v])
  BY DEF PoolInv, ClosedInv
<1>8. ASSUME NEW x, NEW y, Ahead(out, x, y), IsControl(x), Of(y, x.msg.of) PROVE FALSE
  BY <1>2, <1>8 DEF OutOk
<1>9. ASSUME NEW v \in Workers PROVE Closed(local'[v])
  <2> SUFFICES ASSUME NEW x, NEW y, Ahead(local'[v], x, y), IsControl(x), Of(y, x.msg.of), x.to = y.to
               PROVE FALSE
    BY DEF Closed
  <2>1. CASE v # w
    BY <1>6, <1>7, <2>1 DEF Closed
  <2>2. CASE v = w
    <3>1. CASE Ahead(l, x, y)
      BY <1>1, <1>3, <1>7, <3>1 DEF Closed
    <3>2. CASE x \in Items(l) /\ Goes(out, w, y)
      BY <1>1, <1>2, <1>3, <3>2, GoesArrives, NoneArrivesBehind
    <3> QED BY <1>6, <1>8, <2>2, <3>1, <3>2
  <2> QED BY <2>1, <2>2
<1>10. ASSUME NEW v \in Workers PROVE Closed(queue'[v])
  <2> SUFFICES ASSUME NEW x, NEW y, Ahead(queue'[v], x, y), IsControl(x), Of(y, x.msg.of), x.to = y.to
               PROVE FALSE
    BY DEF Closed
  <2>0. /\ Items(QueueBase(w, q, v)) \subseteq Items(queue[v])
        /\ Ahead(QueueBase(w, q, v), x, y) => Ahead(queue[v], x, y)
    BY <1>3 DEF QueueBase
  <2>1. CASE Ahead(QueueBase(w, q, v), x, y)
    BY <1>7, <2>0, <2>1 DEF Closed
  <2>2. CASE x \in Items(QueueBase(w, q, v)) /\ v # w /\ Goes(out, v, y)
    BY <1>2, <2>0, <2>2, GoesArrives, NoneArrivesBehind
  <2>3. CASE x \in Items(QueueBase(w, q, v)) /\ Bounces(out, v, y)
    <3>1. PICK z \in Items(out) : Turns(z, v, y)
      BY <2>3 DEF Bounces
    <3>2. IsSent(k, d, z) /\ Of(y, k)
      BY <1>2, <3>1, TurnsBack
    <3>3. IsAbroad(x) /\ x.msg.of = k
      BY <2>0, <2>3, <3>2 DEF IsAbroad, InTransit, Of
    <3> QED BY <3>2, <3>3, NoneSentBehind
  <2>4. CASE v # w /\ Goes(out, v, x) /\ Bounces(out, v, y)
    <3>1. PICK z \in Items(out) : Turns(z, v, y)
      BY <2>4 DEF Bounces
    <3> QED BY <1>2, <2>4, <3>1, TurnsBack
  <2>5. CASE \E a, b : Ahead(out, a, b) /\ Turns(a, v, x) /\ Turns(b, v, y)
    <3>1. PICK a, b : Ahead(out, a, b) /\ Turns(a, v, x) /\ Turns(b, v, y)
      BY <2>5
    <3>2. a \in Items(out) /\ b \in Items(out)
      BY <1>5, <3>1
    <3>3. x.msg = a.msg /\ y.msg = b.msg
      BY <1>2, <3>1, <3>2, TurnsBack
    <3> QED BY <1>8, <3>1, <3>3 DEF IsControl, Of
  <2> QED BY <1>6, <1>8, <2>1, <2>2, <2>3, <2>4, <2>5
<1>11. ASSUME NEW h \in Codecs PROVE Closed(codec'[h].in)
  <2>1. CASE h = k
    BY <1>2, <1>4, <2>1 DEF InOk, Closed
  <2>2. CASE h # k
    BY <1>4, <2>2 DEF PoolInv, ClosedInv
  <2> QED BY <2>1, <2>2
<1> QED BY <1>9, <1>10, <1>11 DEF ClosedInv, Closed, Ahead

\* What goes forth after the step went forth before it or is of the component.
LEMMA ForthAfter ==
    ASSUME TypeInv, PoolInv, NEW k \in Codecs, NEW T, NEW l, NEW q, NEW d, NEW out,
           Handles(k, T, l, q, d, out), NEW y, IsForth(y)'
    PROVE  (IsForth(y) /\ IsLeft(k, l, q, y)) \/ IsSent(k, d, y)
<1>1. ~IsBack(y) /\ \E v \in Workers : y \in Items(local'[v]) \/ y \in Items(queue'[v])
  BY DEF IsForth, InTransit, IsBack, Items
<1>2. ASSUME NEW v, Arrives(k, T, d, out, v, y) PROVE IsSent(k, d, y)
  BY <1>1, <1>2 DEF Arrives, IsAnswer
<1>3. ~ComesBack(k, d, out, y)
  <2> SUFFICES ASSUME NEW z \in Items(out), IsSent(k, d, z), y = Returned(z) PROVE FALSE
    BY DEF ComesBack
  <2>1. z \in OutType
    BY SeqFacts DEF Handles, OutOk
  <2>2. z.msg.of = k /\ Returned(z).to = k /\ Returned(z).msg = z.msg
    BY <2>1, SentFor
  <2> QED BY <1>1, <2>2 DEF IsBack
<1>4. PICK v \in Workers : y \in Items(local'[v]) \/ y \in Items(queue'[v])
  BY <1>1
<1>5. CASE y \in Items(local'[v])
  <2>1. \/ y \in Items(local[v]) /\ (v = WorkerOf[k] => y \in Items(l))
        \/ Arrives(k, T, d, out, v, y)
    BY <1>5, Arrived
  <2> QED BY <1>1, <1>2, <2>1 DEF IsForth, InTransit, IsLeft
<1>6. CASE y \in Items(queue'[v])
  <2>1. \/ y \in Items(queue[v]) /\ (v = WorkerOf[k] => y \in Items(q))
        \/ Arrives(k, T, d, out, v, y)
        \/ ComesBack(k, d, out, y)
    BY <1>6, Arrived
  <2> QED BY <1>1, <1>2, <1>3, <2>1 DEF IsForth, InTransit, IsLeft
<1> QED BY <1>4, <1>5, <1>6

\* What is at an input after the step was there or on its way there.
LEMMA InputAfter ==
    ASSUME TypeInv, PoolInv, NEW k \in Codecs, NEW T, NEW l, NEW q, NEW d, NEW out,
           Handles(k, T, l, q, d, out), NEW y, FromPool(y.msg), AtInput(y)'
    PROVE  /\ AtInput(y) \/ (IsForth(y) /\ y \in T)
           /\ RouteOf(y.msg.of)' \in Codecs /\ y \in Items(codec'[RouteOf(y.msg.of)'].in)
<1>1. PICK h \in Codecs : y \in Items(codec'[h].in)
  BY DEF AtInput, Items
<1>2. InputPlace(h, y)' /\ (y \in Items(codec[h].in) \/ (h = k /\ y \in T /\ ~Of(y, k)))
  BY <1>1, InputInPlace
<1>3. RouteOf(y.msg.of)' = h
  BY <1>2 DEF InputPlace
<1>4. y \in T /\ ~Of(y, k) => IsForth(y)
  BY TakenFacts DEF Handles
<1> QED BY <1>1, <1>2, <1>3, <1>4 DEF AtInput

\* Once the flow-control message has reached the component all of its pool has.
LEMMA NoForthLeft ==
    ASSUME TypeInv, PoolInv, NEW k \in Codecs, NEW T, NEW l, NEW q, Takes(k, T, l, q),
           NEW z \in T \cup Items(codec[k].in), IsControl(z), z.msg.of # k,
           NEW y, Of(y, z.msg.of), IsForth(y), IsLeft(k, l, q, y)
    PROVE  FALSE
<1>1. FromPool(z.msg)
  BY MsgFacts DEF FromPool, IsControl
<1>2. CASE z \in Items(codec[k].in)
  BY <1>2 DEF PoolInv, NoneBehind
<1>3. CASE z \in T
  <2>1. RouteOf(z.msg.of) = k
    BY <1>1, <1>3, TakenFacts DEF Of
  <2>2. PICK v \in Workers : \/ y \in Items(local[v]) /\ (v = WorkerOf[k] => y \in Items(l))
                             \/ y \in Items(queue[v]) /\ (v = WorkerOf[k] => y \in Items(q))
    BY DEF IsLeft
  <2>3. y.to = RouteOf(y.msg.of) /\ WorkerOf[y.to] = v
    <3>1. FromPool(y.msg) /\ ~IsBack(y)
      BY DEF Of, IsForth
    <3> QED BY <2>2, <3>1 DEF PoolInv, PlaceInv, LocalPlace, QueuePlace
  <2>4. y.to = k /\ y \in Items(l) \cup Items(q)
    BY <2>1, <2>2, <2>3 DEF Of
  <2> QED BY <1>3, <2>4 DEF Takes
<1> QED BY <1>2, <1>3

\* In no place that the flow-control message has passed is anything left of the pool.
LEMMA BehindStep ==
    ASSUME TypeInv, PoolInv, NEW k \in Codecs, NEW T, NEW l, NEW q, NEW d, NEW out,
           Handles(k, T, l, q, d, out)
    PROVE  NoneBehind'
<1> DEFINE w == WorkerOf[k]
<1>0. w \in Workers
  BY DEF Workers
<1>1. codec'[k] = d /\ \A h \in Codecs : h # k => codec'[h] = codec[h]
  BY Arrived
<1>2. /\ Takes(k, T, l, q) /\ OutOk(k, T, d, out) /\ InOk(k, T, d) /\ ~Gone(k)
      /\ out \in Seq(OutType) /\ Items(out) \subseteq OutType
  BY SeqFacts DEF Handles, Takes, OutOk
<1>3. PlaceInv' /\ RouteInv'
  BY PlaceStep
<1>4. \A x : IsControl(x) => FromPool(x.msg)
  BY MsgFacts DEF FromPool, IsControl
\* An old one.
<1>5. ASSUME NEW x, IsAbroad(x), IsControl(x), NEW y, Of(y, x.msg.of)
      PROVE  /\ ~AtInput(y) /\ ~IsForth(y) => ~AtInput(y)'
             /\ ~IsForth(y) => ~IsForth(y)'
  <2>1. FromPool(y.msg) /\ y.msg.of = x.msg.of
    BY <1>5 DEF Of
  <2>2. ~IsSent(k, d, y)
    <3> SUFFICES ASSUME IsSent(k, d, y) PROVE FALSE
      OBVIOUS
    <3>1. x.msg.of = k
      BY <2>1 DEF IsSent, Of
    <3> QED BY <1>5, <3>1, NoneSentBehind
  <2>3. ~IsForth(y) => ~IsForth(y)'
    BY <2>2, ForthAfter
  <2>4. ~AtInput(y) /\ ~IsForth(y) => ~AtInput(y)'
    BY <2>1, InputAfter
  <2> QED BY <2>3, <2>4
\* A new one that is an answer: the original was with the component.
<1>6. ASSUME NEW v, NEW x, Arrives(k, T, d, out, v, x), IsControl(x), IsBack(x), NEW y, Of(y, x.msg.of)
      PROVE  ~AtInput(y)' /\ ~IsForth(y)' /\ x.msg.of # k /\ RouteOf(x.msg.of) = k
  <2>1. x \in OutType /\ x \in Items(out)
    BY <1>2, <1>6 DEF Arrives
  <2>2. ~IsSent(k, d, x)
    <3> SUFFICES ASSUME IsSent(k, d, x) PROVE FALSE
      OBVIOUS
    <3>1. x.msg.of = k /\ x.to # k
      BY <2>1, SentFor
    <3> QED BY <1>6, <3>1 DEF IsBack
  <2>3. IsAnswer(k, T, d, x)
    BY <1>6, <2>2 DEF Arrives
  <2>4. x.msg.of # k /\ x.msg.of \in Codecs /\ RouteOf(x.msg.of) = k /\ Routed(codec[x.msg.of])
    BY <1>2, <2>3, AnswerFor
  <2>5. PICK z \in T \cup Items(codec[k].in) : z.msg = x.msg
    BY <2>3 DEF IsAnswer
  <2>6. FromPool(y.msg) /\ y.msg.of = x.msg.of
    BY <1>6 DEF Of
  <2>7. ~AtInput(y)'
    <3> SUFFICES ASSUME AtInput(y)' PROVE FALSE
      OBVIOUS
    <3>1. y \in Items(codec'[RouteOf(y.msg.of)'].in)
      BY <2>6, InputAfter
    <3>2. RouteOf(y.msg.of)' = k
      BY <1>1, <2>4, <2>6 DEF RouteOf
    <3>3. y \in Items(d.in)
      BY <1>1, <3>1, <3>2
    <3> QED BY <1>2, <1>6, <2>1, <3>3 DEF OutOk
  <2>8. ~IsForth(y)'
    <3> SUFFICES ASSUME IsForth(y)' PROVE FALSE
      OBVIOUS
    <3>1. ~IsSent(k, d, y)
      BY <2>4, <2>6 DEF IsSent, Of
    <3>2. IsForth(y) /\ IsLeft(k, l, q, y)
      BY <3>1, ForthAfter
    <3>3. IsControl(z) /\ Of(y, z.msg.of) /\ z.msg.of # k
      BY <1>6, <2>4, <2>5 DEF IsControl
    <3> QED BY <1>2, <3>2, <3>3, NoForthLeft
  <2> QED BY <2>4, <2>7, <2>8
\* In a local queue.
<1>7. ASSUME NEW v \in Workers, NEW x \in Items(local'[v]), IsControl(x), IsBack(x), NEW y, Of(y, x.msg.of)
      PROVE  ~IsQueuedBack(y)' /\ ~AtInput(y)' /\ ~IsForth(y)'
  <2>0. FromPool(y.msg) /\ y.msg.of = x.msg.of
    BY <1>7 DEF Of
  <2>1. CASE x \in Items(local[v])
    <3>1. ~IsQueuedBack(y) /\ ~AtInput(y) /\ ~IsForth(y)
      BY <1>7, <2>1 DEF PoolInv, NoneBehind
    <3>2. IsAbroad(x)
      BY <2>1 DEF IsAbroad, InTransit
    <3>3. ~AtInput(y)' /\ ~IsForth(y)'
      BY <1>5, <1>7, <3>1, <3>2
    <3>4. ~IsQueuedBack(y)'
      <4> SUFFICES ASSUME IsBack(y), NEW u \in Workers, y \in Items(queue'[u]) PROVE FALSE
        BY DEF IsQueuedBack, IsBack, Items
      <4>1. y \notin Items(queue[u])
        BY <3>1 DEF IsQueuedBack
      <4>2. CASE Arrives(k, T, d, out, u, y)
        <5>1. x.to # y.to
          BY <1>2, <1>7, <2>1, <4>2, NoneArrivesBehind
        <5> QED BY <1>7, <2>0, <5>1 DEF IsBack
      <4>3. CASE ComesBack(k, d, out, y)
        <5>1. PICK z \in Items(out) : IsSent(k, d, z) /\ y = Returned(z)
          BY <4>3 DEF ComesBack
        <5>2. z.msg.of = k /\ Returned(z).msg = z.msg
          BY <1>2, <5>1, SentFor
        <5>3. x.msg.of = k
          BY <2>0, <5>1, <5>2
        <5> QED BY <1>7, <3>2, <5>1, <5>3, NoneSentBehind
      <4> QED BY <4>1, <4>2, <4>3, Arrived
    <3> QED BY <3>3, <3>4
  <2>2. CASE v = w /\ Arrives(k, T, d, out, v, x)
    <3>1. ~AtInput(y)' /\ ~IsForth(y)' /\ x.msg.of # k /\ RouteOf(x.msg.of) = k
      BY <1>6, <1>7, <2>2
    <3>2. WorkerOf[x.msg.of] = w
      BY <1>7, <2>2 DEF Arrives, IsBack
    <3>3. ~IsQueuedBack(y)'
      <4> SUFFICES ASSUME IsBack(y), NEW u \in Workers, y \in Items(queue'[u]) PROVE FALSE
        BY DEF IsQueuedBack, IsBack, Items
      <4>1. y.to = x.msg.of
        BY <2>0 DEF IsBack
      <4>2. CASE y \in Items(queue[u])
        <5>1. QueuePlace(u, y)
          BY <4>2 DEF PoolInv, PlaceInv
        <5>2. WorkerOf[y.to] = u /\ (WorkerOf[RouteOf(y.msg.of)] = u => Gone(RouteOf(y.msg.of)))
          BY <2>0, <5>1 DEF QueuePlace
        <5> QED BY <1>2, <2>0, <3>1, <3>2, <4>1, <5>2
      <4>3. CASE u # w /\ Arrives(k, T, d, out, u, y)
        BY <3>2, <4>1, <4>3 DEF Arrives
      <4>4. CASE ComesBack(k, d, out, y)
        <5>1. PICK z \in Items(out) : IsSent(k, d, z) /\ y = Returned(z)
          BY <4>4 DEF ComesBack
        <5>2. z.msg.of = k /\ Returned(z).msg = z.msg
          BY <1>2, <5>1, SentFor
        <5> QED BY <2>0, <3>1, <5>1, <5>2
      <4> QED BY <4>2, <4>3, <4>4, Arrived
    <3> QED BY <3>1, <3>3
  <2> QED BY <2>1, <2>2, Arrived
\* In a worker's queue.
<1>8. ASSUME NEW v \in Workers, NEW x \in Items(queue'[v]), IsControl(x), IsBack(x), NEW y, Of(y, x.msg.of)
      PROVE  ~AtInput(y)' /\ ~IsForth(y)'
  <2>0. FromPool(y.msg) /\ y.msg.of = x.msg.of
    BY <1>8 DEF Of
  <2>1. CASE x \in Items(queue[v])
    <3>1. ~AtInput(y) /\ ~IsForth(y)
      BY <1>8, <2>1 DEF PoolInv, NoneBehind
    <3>2. IsAbroad(x)
      BY <2>1 DEF IsAbroad, InTransit
    <3> QED BY <1>5, <1>8, <3>1, <3>2
  <2>2. CASE Arrives(k, T, d, out, v, x)
    BY <1>6, <1>8, <2>2
  <2>3. CASE ComesBack(k, d, out, x)
    <3>1. PICK z \in Items(out) : IsSent(k, d, z) /\ Gone(z.to) /\ x = Returned(z)
      BY <2>3 DEF ComesBack
    <3>2. z.msg.of = k /\ Returned(z).msg = z.msg /\ z.to \in Codecs /\ z.to # k /\ z.to = RouteOf(k)
      BY <1>2, <3>1, SentFor
    <3>3. d.route = RouteOf(k) /\ y.msg.of = k
      BY <2>0, <3>1, <3>2 DEF IsSent
    <3>4. RouteOf(y.msg.of)' = z.to /\ codec'[z.to] = codec[z.to]
      BY <1>1, <3>2, <3>3 DEF RouteOf
    <3>5. ~AtInput(y)'
      <4> SUFFICES ASSUME AtInput(y)' PROVE FALSE
        OBVIOUS
      <4>1. y \in Items(codec[z.to].in)
        BY <2>0, <3>4, InputAfter
      <4>2. codec[z.to].in = <<>>
        BY <3>1, <3>2 DEF PoolInv, RouteInv
      <4> QED BY <4>1, <4>2, EmptyItems
    <3>6. ~IsForth(y)'
      <4> SUFFICES ASSUME ~IsBack(y), NEW u \in Workers, y \in Items(local'[u]) \/ y \in Items(queue'[u]) PROVE FALSE
        BY DEF IsForth, InTransit, IsBack, Items
      <4>1. y.to = RouteOf(y.msg.of)' /\ ~Gone(y.to)'
        <5>1. LocalPlace(u, y)' \/ QueuePlace(u, y)'
          BY <1>3 DEF PlaceInv, Items
        <5> QED BY <2>0, <5>1 DEF LocalPlace, QueuePlace, IsBack
      <4> QED BY <3>1, <3>4, <4>1 DEF Gone
    <3> QED BY <3>5, <3>6
  <2> QED BY <2>1, <2>2, <2>3, Arrived
\* At an input.
<1>9. ASSUME NEW h \in Codecs, NEW x \in Items(codec'[h].in), IsControl(x), NEW y, Of(y, x.msg.of)
      PROVE  ~IsForth(y)'
  <2>0. FromPool(y.msg) /\ y.msg.of = x.msg.of
    BY <1>9 DEF Of
  <2>1. CASE x \in Items(codec[h].in)
    <3>1. ~IsForth(y)
      BY <1>9, <2>1 DEF PoolInv, NoneBehind
    <3>2. IsAbroad(x)
      BY <2>1 DEF IsAbroad, AtInput
    <3> QED BY <1>5, <1>9, <3>1, <3>2
  <2>2. CASE x \in T /\ ~Of(x, k)
    <3>1. x.msg.of # k
      BY <1>4, <1>9, <2>2 DEF Of
    <3>2. ~IsSent(k, d, y)
      BY <2>0, <3>1 DEF IsSent, Of
    <3> QED BY <1>2, <1>9, <2>2, <3>1, <3>2, ForthAfter, NoForthLeft
  <2> QED BY <1>9, <2>1, <2>2, InputInPlace
<1> QED BY <1>7, <1>8, <1>9 DEF NoneBehind, Items, IsControl, IsBack, Of

\* What is abroad after the step was before it, is an answer or was sent.
LEMMA AbroadAfter ==
    ASSUME TypeInv, PoolInv, NEW k \in Codecs, NEW T, NEW l, NEW q, NEW d, NEW out,
           Handles(k, T, l, q, d, out), NEW x, FromPool(x.msg), IsAbroad(x)'
    PROVE  \/ IsAbroad(x) /\ (x.msg.of = k => IsLeft(k, l, q, x) \/ AtInput(x))
           \/ x.msg.of # k /\ \E z : IsAbroad(z) /\ z.msg = x.msg /\ (x.op = "flush" => z.op = "flush")
           \/ \E z \in Items(out) : IsSent(k, d, z) /\ z.msg = x.msg /\ (x.op = "flush" => z.op = "flush")
<1> DEFINE Good == \/ IsAbroad(x) /\ (x.msg.of = k => IsLeft(k, l, q, x) \/ AtInput(x))
                   \/ x.msg.of # k /\ \E z : IsAbroad(z) /\ z.msg = x.msg /\ (x.op = "flush" => z.op = "flush")
                   \/ \E z \in Items(out) : IsSent(k, d, z) /\ z.msg = x.msg /\ (x.op = "flush" => z.op = "flush")
<1> SUFFICES Good
  OBVIOUS
<1>1. ASSUME NEW v, Arrives(k, T, d, out, v, x) PROVE Good
  <2>1. CASE IsSent(k, d, x)
    BY <1>1, <2>1 DEF Arrives
  <2>2. CASE IsAnswer(k, T, d, x)
    <3>1. x.msg.of # k /\ \E z \in ItemType : z.msg = x.msg /\ IsAbroad(z) /\ (x.op = "flush" => z.op = "flush")
      BY <2>2, AnswerFor DEF Handles
    <3> QED BY <3>1
  <2> QED BY <1>1, <2>1, <2>2 DEF Arrives
<1>2. ASSUME ComesBack(k, d, out, x) PROVE Good
  <2>1. PICK z \in Items(out) : IsSent(k, d, z) /\ x = Returned(z)
    BY <1>2 DEF ComesBack
  <2>2. z \in OutType
    BY SeqFacts DEF Handles, OutOk
  <2>3. Returned(z).msg = z.msg /\ (Returned(z).op = "flush" => z.op = "flush")
    BY <2>1, <2>2, SentFor
  <2> QED BY <2>1, <2>3
<1>3. ASSUME NEW v \in Workers, x \in Items(local'[v]) PROVE Good
  <2>1. CASE x \in Items(local[v]) /\ (v = WorkerOf[k] => x \in Items(l))
    BY <2>1 DEF IsAbroad, InTransit, IsLeft
  <2>2. CASE Arrives(k, T, d, out, v, x)
    BY <1>1, <2>2
  <2> HIDE DEF Good
  <2> QED BY <1>3, <2>1, <2>2, Arrived
<1>4. ASSUME NEW v \in Workers, x \in Items(queue'[v]) PROVE Good
  <2>1. CASE x \in Items(queue[v]) /\ (v = WorkerOf[k] => x \in Items(q))
    BY <2>1 DEF IsAbroad, InTransit, IsLeft
  <2>2. CASE Arrives(k, T, d, out, v, x)
    BY <1>1, <2>2
  <2>3. CASE ComesBack(k, d, out, x)
    BY <1>2, <2>3
  <2> HIDE DEF Good
  <2> QED BY <1>4, <2>1, <2>2, <2>3, Arrived
<1>5. ASSUME NEW h \in Codecs, x \in Items(codec'[h].in) PROVE Good
  <2>1. CASE x \in Items(codec[h].in)
    BY <2>1 DEF IsAbroad, AtInput
  <2>2. CASE x \in T /\ ~Of(x, k)
    <3>1. IsAbroad(x)
      BY <2>2, TakenFacts DEF Handles
    <3> QED BY <2>2, <3>1 DEF Of
  <2> HIDE DEF Good
  <2> QED BY <1>5, <2>1, <2>2, InputInPlace
<1>6. \/ \E v \in Workers : x \in Items(local'[v]) \/ x \in Items(queue'[v])
      \/ \E h \in Codecs : x \in Items(codec'[h].in)
  BY DEF IsAbroad, InTransit, AtInput, Items
<1> HIDE DEF Good
<1> QED BY <1>3, <1>4, <1>5, <1>6

\* The flags of the ports still say what is abroad.
LEMMA PortStep ==
    ASSUME TypeInv, PoolInv, NEW k \in Codecs, NEW T, NEW l, NEW q, NEW d, NEW out,
           Handles(k, T, l, q, d, out)
    PROVE  PortInv'
<1>1. codec'[k] = d /\ \A h \in Codecs : h # k => codec'[h] = codec[h]
  BY Arrived
<1>2. /\ Takes(k, T, l, q)
      /\ PortKept(k, d) \/ PortDone(k, T, out)
  BY DEF Handles
<1> SUFFICES ASSUME NEW j \in Codecs, NEW x, IsAbroad(x)', Of(x, j)
             PROVE  /\ IsControl(x) => "flushing" \in codec'[j].oflags
                    /\ ~(Routed(codec'[j]) /\ "idle" \in codec'[j].oflags)
  BY DEF PortInv, IsAbroad, InTransit, AtInput, Items, Of, IsControl
<1>3. FromPool(x.msg) /\ x.msg.of = j
  BY DEF Of
<1>4. CASE IsAbroad(x) /\ (j = k => IsLeft(k, l, q, x) \/ AtInput(x))
  <2>1. /\ IsControl(x) => "flushing" \in codec[j].oflags
        /\ ~(Routed(codec[j]) /\ "idle" \in codec[j].oflags)
    BY <1>4 DEF PoolInv, PortInv
  <2>2. CASE j # k
    BY <1>1, <2>1, <2>2
  <2>3. CASE j = k
    <3>1. ~PortDone(k, T, out)
      BY <1>2, <1>4, <2>3, NothingLeft
    <3> QED BY <1>1, <1>2, <2>1, <2>3, <3>1 DEF PortKept
  <2> QED BY <2>2, <2>3
<1>5. CASE j # k /\ \E z : IsAbroad(z) /\ z.msg = x.msg /\ (x.op = "flush" => z.op = "flush")
  <2>1. PICK z : IsAbroad(z) /\ z.msg = x.msg
    BY <1>5
  <2>2. Of(z, j) /\ (IsControl(x) => IsControl(z))
    BY <1>3, <2>1 DEF Of, IsControl
  <2>3. /\ IsControl(x) => "flushing" \in codec[j].oflags
        /\ ~(Routed(codec[j]) /\ "idle" \in codec[j].oflags)
    BY <2>1, <2>2 DEF PoolInv, PortInv
  <2> QED BY <1>1, <1>5, <2>3
<1>6. CASE \E z \in Items(out) : IsSent(k, d, z) /\ z.msg = x.msg /\ (x.op = "flush" => z.op = "flush")
  <2>1. PICK z : IsSent(k, d, z) /\ z.msg = x.msg
    BY <1>6
  <2>2. j = k /\ "idle" \notin d.oflags /\ (IsControl(x) => "flushing" \in d.oflags)
    BY <1>3, <2>1 DEF IsSent, Of, IsControl
  <2> QED BY <1>1, <2>2
<1> QED BY <1>3, <1>4, <1>5, <1>6, AbroadAfter

\* A step of a component keeps the invariant of the pools.
LEMMA PoolStep ==
    ASSUME TypeInv, PoolInv, NEW k \in Codecs, NEW T, NEW l, NEW q, NEW d, NEW out,
           Handles(k, T, l, q, d, out)
    PROVE  PoolInv'
BY PlaceStep, ClosedStep, BehindStep, PortStep DEF PoolInv

-----------------------------------------------------------------------------
(* The invariant.                                                          *)

\* Connections go down.
Depth == CHOOSE depth \in [Codecs -> 0..Cardinality(Codecs)] : \A e \in Edges : depth[e[1]] < depth[e[2]]

\* A component is in one phase.
Initial(c) == "runtime_init" \in c.state
Completed(c) == "completed" \in c.state
OnePhase(c) == \/ Initial(c) /\ "execution" \notin c.state /\ ~Completed(c)
               \/ ~Initial(c) /\ "execution" \in c.state /\ ~Completed(c)
               \/ ~Initial(c) /\ "execution" \notin c.state /\ Completed(c)
IsScheduled(c) == "schedule" \in c.state
Flushing(c) == "flushing" \in c.oflags
Unrouting(c) == "unrouting" \in c.oflags
Purging(c) == "purging" \in c.iflags

\* The phase of a component, its place in the tree and its ports.
TaskOk(k, c) ==
    /\ OnePhase(c) /\ (c.prepared <=> ~Initial(c))
    /\ c.tree = IF IsScheduled(c) THEN 1 ELSE 0
    /\ IsScheduled(c) => c.out # <<>> /\ ~Flushing(c)
    /\ "eos_seq_done" \in c.state => k \in Sinks /\ c.out = <<>> /\ ~Initial(c)
    /\ Completed(c) /\ c.in # <<>> => Flushing(c)
    /\ Completed(c) /\ ~Routed(c) => c.out = <<>>
InputOk(c) ==
    /\ Purging(c) => Flushing(c) /\ c.mode = "running" /\ \E x \in Items(c.in) : c.in = <<x>> /\ x.op = "flush"
    /\ ~Purging(c) => \A x \in Items(c.in) : x.op = "empty"
    /\ c.mode = "terminating" => c.in = <<>>
    /\ "enabled" \in c.iflags \/ \E x \in Items(c.in) : x.op = "empty" /\ x.len = 0
OutputOk(k, c) ==
    /\ Initial(c) => ~Routed(c) /\ c.out \in {<<>>, <<Msg(k, "start")>>}
    /\ ~Initial(c) /\ Routed(c) => \A m \in Items(c.out) : m \in {Msg(k, what) : what \in Bufs}
    /\ ~Initial(c) /\ ~Routed(c) => \A m \in Items(c.out) : m = Msg(k, "out") /\ k \in Sinks
    /\ Flushing(c) => Routed(c) /\ "idle" \notin c.oflags
    /\ Unrouting(c) \/ c.mode = "terminating" => Flushing(c)
CompOk(k, c) == TaskOk(k, c) /\ InputOk(c) /\ OutputOk(k, c)
CompInv == \A k \in Codecs : IF Gone(k) THEN codec[k] = Destroyed ELSE CompOk(k, codec[k])

\* What the application knows of it.
ReadyInv == \A k \in Codecs : ~Gone(k) => (k \in ready <=> ~Initial(codec[k]))

\* A flush on its way is one its sender waits for.
IsFlush(x, k) == Of(x, k) /\ x.op = "flush"
FlushAbroad(k) == \E x : IsAbroad(x) /\ IsFlush(x, k)
Waiting(c) == Unrouting(c) \/ c.mode = "terminating" \/ Purging(c)
FlushOk(c) == Waiting(c) /\ (Completed(c) /\ c.in # <<>> => Purging(c))
FlushInv == \A k \in Codecs : FlushAbroad(k) => FlushOk(codec[k])

\* A component that was completed when it was routed runs before anything else does.
Alone(k) == local[WorkerOf[k]] = <<>> /\ Scheduling(WorkerOf[k]) = {k}
AloneInv == \A k \in Codecs : IsScheduled(codec[k]) /\ Completed(codec[k]) => Alone(k)

\* The application's map is that of the ports. (A port may have been unrouted since.)
ConnInv ==
    /\ \A k \in Codecs : conn[k] # None => <<k, conn[k]>> \in Edges /\ k \in ready
    /\ \A j, k \in Codecs : conn[j] # None /\ conn[j] = conn[k] => j = k
    /\ \A k \in Codecs : Routed(codec[k]) => conn[k] = RouteOf(k)

\* The call in progress is in a queue or with the component that will answer it.
IsSaved(k) == codec[k].mode = "terminating" \/ Unrouting(codec[k])
Queued(x) == \E w \in Workers : x \in Items(queue[w])
CallInv ==
    /\ call = None => /\ \A x : Queued(x) => x.msg # Cmd
                      /\ \A k \in Codecs : ~IsSaved(k)
    /\ call # None =>
         /\ Cmd \notin owned /\ ~Gone(call.on)
         /\ \/ /\ \A x : Queued(x) /\ x.msg = Cmd => x = Item(call.on, Cmd, call.op, 0)
               /\ \A k \in Codecs : ~IsSaved(k)
            \/ /\ \A x : Queued(x) => x.msg # Cmd
               /\ \A k \in Codecs : IsSaved(k) <=> k = call.on
               /\ call.op = IF Unrouting(codec[call.on]) THEN "unroute" ELSE "unregister"
               /\ codec[call.on].mode = "running" <=> call.op = "unroute"
         /\ call.op = "route" =>
              /\ <<call.on, call.arg>> \in Edges /\ call.on \in ready /\ conn[call.on] = None
              /\ \A k \in Codecs : conn[k] # call.arg
    /\ \A w \in Workers : \A x, y : Ahead(queue[w], x, y) /\ x.msg = Cmd => y.msg # Cmd

\* A flush comes to components that are initialised.
InScope(S) ==
    /\ Initialised(S)
    /\ call # None /\ call.op \in {"unroute", "unregister"} => conn[call.on] \in S \cup {None}
    /\ \A k \in Codecs : FlushAbroad(k) => RouteOf(k) \in S
ScopeInv == \E S \in SUBSET Codecs : InScope(S)

\* There is one message to start a component.
IsStart(x) == x.msg.what = "start"
StartInv ==
    /\ \A x : Queued(x) /\ IsStart(x) => /\ x.to \notin ready /\ x.msg \notin owned
                                          /\ codec[x.to].out = <<>>
    /\ \A k \in Codecs : ~Gone(k) /\ Initial(codec[k]) /\ codec[k].out # <<>> => Msg(k, "start") \notin owned
    /\ \A w \in Workers : \A x, y : Ahead(queue[w], x, y) /\ IsStart(x) => x.msg # y.msg

\* Of the messages in a local queue those that may make a component send another one
\* down are of one connection, the others on their way back above it.
IsLead(x) == ~IsBack(x) \/ (x.len = Invalid /\ ~IsControl(x))
LeadInv == \A w \in Workers : \A x, y \in Items(local[w]) : IsLead(x) =>
    /\ IsLead(y) => x.msg.of = y.msg.of
    /\ IsBack(y) => Depth[y.to] < Depth[RouteOf(x.msg.of)]

ChainInv == /\ TypeInv /\ PoolInv /\ CompInv /\ ReadyInv /\ FlushInv /\ AloneInv
            /\ ConnInv /\ CallInv /\ ScopeInv /\ StartInv /\ LeadInv

-----------------------------------------------------------------------------
(* A step of component k. It is given the messages T, its worker's queues  *)
(* come down to l and q, it becomes d and sends out.                       *)

\* It is its turn: a component that must run before anything else would have run; what
\* it is given was given once.
Turn(k, T, l, q) ==
    LET w == WorkerOf[k] IN
    /\ \A h \in Codecs : h # k /\ WorkerOf[h] = w => ~Alone(h)
    /\ (local[w] = <<>> /\ l = <<>>) \/ \E x \in T : x \in Items(local[w])
    /\ \A x \in T, y \in Items(q) : x.msg = Cmd \/ IsStart(x) => y.msg # x.msg

\* The application gets its own messages back.
ToApp(out, m) == \E y \in Items(out) : y.to = App /\ y.msg = m
StartTold(out, k) == \E y \in Items(out) : y.to = App /\ y.msg = Msg(k, "start") /\ y.len > 0
AppOk(k, out) == \A y \in Items(out) : y.to = App => y.msg \in AppMsgs /\ (y.msg = Cmd \/ y.msg.of = k)

\* A command is answered or saved, a saved one answered.
HasMsg(T, m) == \E x \in T : x.msg = m
SavedIn(c) == c.mode = "terminating" \/ Unrouting(c)
CallOk(k, T, d, out) ==
    \/ /\ ~HasMsg(T, Cmd) /\ ~ToApp(out, Cmd)
       /\ d.mode = codec[k].mode /\ (Unrouting(d) <=> Unrouting(codec[k]))
    \/ HasMsg(T, Cmd) /\ ToApp(out, Cmd) /\ ~SavedIn(d)
    \/ /\ HasMsg(T, Cmd) /\ ~ToApp(out, Cmd) /\ SavedIn(d) /\ d.mode # "gone"
       /\ call.op = IF Unrouting(d) THEN "unroute" ELSE "unregister"
       /\ d.mode = "running" <=> call.op = "unroute"
    \/ ~HasMsg(T, Cmd) /\ ToApp(out, Cmd) /\ SavedIn(codec[k]) /\ ~SavedIn(d)

\* A port is routed and unrouted as the application was told.
ConnOk(k, d, out) == Routed(d) =>
    IF ToApp(out, Cmd) /\ call.op = "route" THEN d.route = call.arg
    ELSE Routed(codec[k]) /\ d.route = RouteOf(k) /\ ~(ToApp(out, Cmd) /\ call.op = "unroute")

\* The start message is held until the component is initialised.
StartOk(k, T, d, out) == LET c == codec[k] IN d.mode # "gone" =>
    /\ Initial(d) <=> Initial(c) /\ ~StartTold(out, k)
    /\ Initial(c) /\ c.out = <<>> /\ ~HasMsg(T, Msg(k, "start")) =>
         d.out = <<>> /\ ~ToApp(out, Msg(k, "start"))
    /\ Initial(d) /\ d.out # <<>> =>
         ~ToApp(out, Msg(k, "start")) /\ (c.out # <<>> \/ HasMsg(T, Msg(k, "start")))

AloneOk(k, l, d, out) == IsScheduled(d) /\ Completed(d) =>
    l = <<>> /\ Scheduling(WorkerOf[k]) \subseteq {k} /\ \A y \in Items(out) : y.to = App

\* A flush is sent to be waited for, on behalf of a call or of another flush.
FlushStepOk(k, T, d, out) ==
    /\ FlushAbroad(k) /\ PortKept(k, d) => FlushOk(d)
    /\ (\E y \in Items(out) : IsFlush(y, k)) =>
         /\ FlushOk(d)
         /\ \/ call # None /\ call.op \in {"unroute", "unregister"} /\ call.on = k
            \/ \E x \in T : FromPool(x.msg) /\ x.msg.of # k /\ x.op = "flush"

\* What is left in the local queue lets a message go down.
LeadOk(k, l, out) ==
    \A y \in Items(out) : y.to # App /\ WorkerOf[y.to] = WorkerOf[k] /\ IsLead(y) =>
      /\ \A x \in Items(l) : IsLead(x) => x.msg.of = y.msg.of
      /\ \A x \in Items(l) : IsBack(x) => Depth[x.to] < Depth[RouteOf(y.msg.of)]
      /\ \A z \in Items(out) : z.to # App /\ IsLead(z) => z.msg.of = y.msg.of

StepOk(k, T, l, q, d, out) ==
    /\ Handles(k, T, l, q, d, out) /\ Told(out) /\ Turn(k, T, l, q)
    /\ IF d.mode = "gone" THEN d = Destroyed ELSE CompOk(k, d)
    /\ AppOk(k, out) /\ CallOk(k, T, d, out) /\ ConnOk(k, d, out) /\ StartOk(k, T, d, out)
    /\ AloneOk(k, l, d, out) /\ FlushStepOk(k, T, d, out) /\ LeadOk(k, l, out)

\* What the application has been told.
LEMMA ToldFacts ==
    ASSUME TypeInv, NEW k \in Codecs, NEW out \in Seq(OutType), AppOk(k, out), Told(out)
    PROVE  /\ \A m : (m \in owned') <=> (m \in owned \/ ToApp(out, m))
           /\ \A h : (h \in ready') <=> (h \in ready \/ (h = k /\ StartTold(out, k)))
           /\ ~ToApp(out, Cmd) => call' = call /\ conn' = conn
           /\ ToApp(out, Cmd) => call' = None
           /\ ToApp(out, Cmd) /\ call.op = "route" => conn' = [conn EXCEPT ![call.on] = call.arg]
           /\ ToApp(out, Cmd) /\ call.op = "unroute" => conn' = [conn EXCEPT ![call.on] = None]
           /\ ToApp(out, Cmd) /\ call.op \notin {"route", "unroute"} => conn' = conn
<1> DEFINE back == {out[i] : i \in {j \in DOMAIN out : out[j].to = App}}
           returned == \E x \in back : x.msg = Cmd
<1>1. \A y : (y \in back) <=> (y \in Items(out) /\ y.to = App)
  BY DEF Items
<1>2. /\ owned' = owned \cup {x.msg : x \in back}
      /\ ready' = ready \cup {x.msg.of : x \in {y \in back : y.msg.what = "start" /\ y.len > 0}}
      /\ call' = IF returned THEN None ELSE call
      /\ conn' = IF ~returned THEN conn
                 ELSE CASE call.op = "route"   -> [conn EXCEPT ![call.on] = call.arg]
                        [] call.op = "unroute" -> [conn EXCEPT ![call.on] = None]
                        [] OTHER               -> conn
  BY DEF Told
<1>3. returned <=> ToApp(out, Cmd)
  BY <1>1 DEF ToApp
<1> HIDE DEF back, returned
<1>4. \A m : (m \in owned') <=> (m \in owned \/ ToApp(out, m))
  BY <1>1, <1>2 DEF ToApp
<1>5. \A h : (h \in ready') <=> (h \in ready \/ (h = k /\ StartTold(out, k)))
  <2>1. ASSUME NEW y \in back PROVE (y.msg.what = "start") <=> (y.msg = Msg(k, "start"))
    <3>1. y.msg \in AppMsgs /\ (y.msg = Cmd \/ y.msg.of = k)
      BY <1>1, <2>1 DEF AppOk
    <3>2. CASE y.msg.what = "start"
      <4>1. y.msg # Cmd
        BY <3>2, MsgFacts
      <4>2. y.msg.of = k
        BY <3>1, <4>1
      <4>3. y.msg = Msg(y.msg.of, y.msg.what)
        BY <3>1, <4>1 DEF AppMsgs, Msg
      <4> QED BY <3>2, <4>2, <4>3
    <3> QED BY <3>2, MsgFacts
  <2>2. \A h : (h \in ready') <=> (h \in ready \/ \E y \in back : y.msg.what = "start" /\ y.len > 0 /\ h = y.msg.of)
    BY <1>2
  <2> QED BY <1>1, <2>1, <2>2, MsgFacts DEF StartTold
<1> QED BY <1>2, <1>3, <1>4, <1>5

\* A command that is given or answered is that of the call in progress.
LEMMA CallFacts ==
    ASSUME ChainInv, NEW k \in Codecs, NEW T, NEW l, NEW q, Takes(k, T, l, q)
    PROVE  /\ HasMsg(T, Cmd) => /\ call # None /\ call \in CallType /\ call.on = k
                                /\ \A x \in T : x.msg = Cmd => x = Item(k, Cmd, call.op, 0)
                                /\ \A h \in Codecs : ~IsSaved(h)
                                /\ \A x : Queued(x) /\ x.msg = Cmd => x = Item(k, Cmd, call.op, 0)
           /\ SavedIn(codec[k]) => /\ call # None /\ call \in CallType /\ call.on = k
                                   /\ \A x : Queued(x) => x.msg # Cmd
                                   /\ \A h \in Codecs : IsSaved(h) <=> h = k
                                   /\ call.op = IF Unrouting(codec[k]) THEN "unroute" ELSE "unregister"
                                   /\ codec[k].mode = "running" <=> call.op = "unroute"
<1>1. call \in {None} \cup CallType /\ (call # None => call.on \in Codecs)
  BY DEF ChainInv, TypeInv, CallType
<1>2. ASSUME NEW x \in T, x.msg = Cmd PROVE Queued(x) /\ x.to = k
  <2>1. x.to = k /\ WorkerOf[k] \in Workers /\ (x \in Items(local[WorkerOf[k]]) \/ x \in Items(queue[WorkerOf[k]]))
    BY DEF Takes, Workers
  <2>2. ~FromPool(x.msg)
    BY <1>2, MsgFacts
  <2>3. x \notin Items(local[WorkerOf[k]])
    BY <2>1, <2>2 DEF ChainInv, PoolInv, PlaceInv, LocalPlace
  <2> QED BY <2>1, <2>3 DEF Queued
<1>3. ASSUME HasMsg(T, Cmd)
      PROVE  /\ call # None /\ call \in CallType /\ call.on = k
             /\ \A x \in T : x.msg = Cmd => x = Item(k, Cmd, call.op, 0)
             /\ \A h \in Codecs : ~IsSaved(h)
             /\ \A x : Queued(x) /\ x.msg = Cmd => x = Item(k, Cmd, call.op, 0)
  <2>1. PICK x \in T : x.msg = Cmd
    BY <1>3 DEF HasMsg
  <2>2. Queued(x) /\ x.to = k
    BY <1>2, <2>1
  <2>3. call # None
    BY <2>1, <2>2 DEF ChainInv, CallInv
  <2>4. /\ \A y : Queued(y) /\ y.msg = Cmd => y = Item(call.on, Cmd, call.op, 0)
        /\ \A h \in Codecs : ~IsSaved(h)
    BY <2>1, <2>2, <2>3 DEF ChainInv, CallInv
  <2>5. call.on = k
    BY <2>1, <2>2, <2>4, ItemFacts
  <2> QED BY <1>1, <1>2, <2>3, <2>4, <2>5
<1>4. ASSUME SavedIn(codec[k])
      PROVE  /\ call # None /\ call \in CallType /\ call.on = k
             /\ \A x : Queued(x) => x.msg # Cmd
             /\ \A h \in Codecs : IsSaved(h) <=> h = k
             /\ call.op = IF Unrouting(codec[k]) THEN "unroute" ELSE "unregister"
             /\ codec[k].mode = "running" <=> call.op = "unroute"
  <2>1. IsSaved(k)
    BY <1>4 DEF IsSaved, SavedIn
  <2>2. call # None
    BY <2>1 DEF ChainInv, CallInv
  <2>3. /\ \A x : Queued(x) => x.msg # Cmd
        /\ \A h \in Codecs : IsSaved(h) <=> h = call.on
        /\ call.op = IF Unrouting(codec[call.on]) THEN "unroute" ELSE "unregister"
        /\ codec[call.on].mode = "running" <=> call.op = "unroute"
    BY <2>1, <2>2 DEF ChainInv, CallInv
  <2>4. call.on = k
    BY <2>1, <2>3
  <2> QED BY <1>1, <2>2, <2>3, <2>4
<1> QED BY <1>3, <1>4

\* The types after the step.
LEMMA TypeStep ==
    ASSUME ChainInv, NEW k \in Codecs, NEW T, NEW l, NEW q, NEW d, NEW out, StepOk(k, T, l, q, d, out)
    PROVE  TypeInv'
<1>0. TypeInv
  BY DEF ChainInv
<1>1. /\ d \in CodecType(k) /\ codec' = [codec EXCEPT ![k] = d] /\ Sent(WorkerOf[k], l, q, out)
      /\ Takes(k, T, l, q) /\ l \in Seq(ItemType) /\ q \in Seq(ItemType) /\ out \in Seq(OutType)
      /\ Told(out) /\ AppOk(k, out) /\ CallOk(k, T, d, out) /\ WorkerOf[k] \in Workers
  BY DEF StepOk, Handles, Takes, OutOk, Workers
<1>2. local' \in [Workers -> Seq(ItemType)] /\ queue' \in [Workers -> Seq(ItemType)]
  BY <1>0, <1>1, SentFacts
<1>3. /\ DOMAIN codec' = Codecs /\ codec' = [h \in Codecs |-> codec'[h]]
      /\ \A h \in Codecs : codec'[h] \in CodecType(h)
  BY <1>0, <1>1 DEF TypeInv
<1>4. /\ \A m : (m \in owned') <=> (m \in owned \/ ToApp(out, m))
      /\ \A h : (h \in ready') <=> (h \in ready \/ (h = k /\ StartTold(out, k)))
      /\ ~ToApp(out, Cmd) => call' = call /\ conn' = conn
      /\ ToApp(out, Cmd) => call' = None
      /\ ToApp(out, Cmd) /\ call.op = "route" => conn' = [conn EXCEPT ![call.on] = call.arg]
      /\ ToApp(out, Cmd) /\ call.op = "unroute" => conn' = [conn EXCEPT ![call.on] = None]
      /\ ToApp(out, Cmd) /\ call.op \notin {"route", "unroute"} => conn' = conn
  BY <1>0, <1>1, ToldFacts
<1>5. owned' \subseteq AppMsgs /\ ready' \subseteq Codecs
  <2>1. \A m : ToApp(out, m) => m \in AppMsgs
    BY <1>1 DEF AppOk, ToApp
  <2>2. owned \subseteq AppMsgs /\ ready \subseteq Codecs
    BY <1>0 DEF TypeInv
  <2>3. owned' \subseteq AppMsgs
    BY <1>4, <2>1, <2>2
  <2>4. ready' \subseteq Codecs
    BY <1>4, <2>2
  <2> QED BY <2>3, <2>4
<1>6. ToApp(out, Cmd) => call # None
  BY <1>1, CallFacts DEF CallOk
<1>7. conn' \in [Codecs -> Codecs \cup {None}]
  <2>1. CASE ToApp(out, Cmd) /\ call.op = "route"
    <3>1. call.arg \in Codecs
      BY <1>6, <2>1, EdgeFacts DEF ChainInv, CallInv
    <3> QED BY <1>0, <1>4, <2>1, <3>1 DEF TypeInv
  <2>2. CASE ~(ToApp(out, Cmd) /\ call.op = "route")
    BY <1>0, <1>4, <2>2 DEF TypeInv
  <2> QED BY <2>1, <2>2
<1>8. call' \in {None} \cup CallType
  BY <1>0, <1>4 DEF TypeInv
<1> QED BY <1>2, <1>3, <1>5, <1>7, <1>8 DEF TypeInv, CodecType

\* The messages of the application in the queues: none is new.
LEMMA AppLeft ==
    ASSUME TypeInv, PoolInv, NEW k \in Codecs, NEW T, NEW l, NEW q, NEW d, NEW out,
           Handles(k, T, l, q, d, out), NEW v \in Workers
    PROVE  /\ \A x \in Items(queue'[v]) : ~FromPool(x.msg) =>
                x \in Items(queue[v]) /\ (v = WorkerOf[k] => x \in Items(q))
           /\ \A x, y : Ahead(queue'[v], x, y) /\ ~FromPool(x.msg) /\ ~FromPool(y.msg) =>
                Ahead(queue[v], x, y)
<1> DEFINE w == WorkerOf[k]
<1>1. w \in Workers
  BY DEF Workers
<1>2. /\ l \in Seq(ItemType) /\ q \in Seq(ItemType) /\ out \in Seq(OutType) /\ Sent(w, l, q, out)
      /\ Takes(k, T, l, q) /\ OutOk(k, T, d, out)
  BY DEF Handles, Takes, OutOk
<1>3. ASSUME NEW y, NEW u, Goes(out, u, y) PROVE FromPool(y.msg)
  <2>1. Arrives(k, T, d, out, u, y)
    BY <1>2, <1>3, GoesArrives
  <2> QED BY <2>1 DEF Arrives, IsAnswer, IsSent, Of
<1>4. ASSUME NEW z \in Items(out), NEW y, NEW u, Turns(z, u, y) PROVE FromPool(y.msg)
  BY <1>2, <1>4, TurnsBack DEF Of
<1>5. /\ \A y \in Items(queue'[v]) :
           \/ y \in Items(QueueBase(w, q, v))
           \/ v # w /\ Goes(out, v, y)
           \/ Bounces(out, v, y)
      /\ \A y, z : Ahead(queue'[v], y, z) =>
           \/ Ahead(QueueBase(w, q, v), y, z)
           \/ y \in Items(QueueBase(w, q, v)) /\ ((v # w /\ Goes(out, v, z)) \/ Bounces(out, v, z))
           \/ v # w /\ Ahead(out, y, z) /\ Goes(out, v, y) /\ Goes(out, v, z)
           \/ v # w /\ Goes(out, v, y) /\ Bounces(out, v, z)
           \/ \E a, b : Ahead(out, a, b) /\ Turns(a, v, y) /\ Turns(b, v, z)
  BY <1>1, <1>2, SentFacts
<1>6. \A y, u : Bounces(out, u, y) => FromPool(y.msg)
  BY <1>4 DEF Bounces
<1>7. \A a, b : Ahead(out, a, b) => a \in Items(out)
  BY DEF Ahead, Items
<1>8. /\ Items(QueueBase(w, q, v)) \subseteq Items(queue[v]) /\ (v = w => QueueBase(w, q, v) = q)
      /\ \A x, y : Ahead(QueueBase(w, q, v), x, y) => Ahead(queue[v], x, y)
  BY <1>2 DEF QueueBase, Takes
<1>9. \A x \in Items(queue'[v]) : ~FromPool(x.msg) =>
        x \in Items(queue[v]) /\ (v = w => x \in Items(q))
  BY <1>3, <1>5, <1>6, <1>8
<1>10. \A x, y : Ahead(queue'[v], x, y) /\ ~FromPool(x.msg) /\ ~FromPool(y.msg) => Ahead(queue[v], x, y)
  BY <1>3, <1>4, <1>5, <1>6, <1>7, <1>8
<1> QED BY <1>9, <1>10

\* What the step leaves alone.
LEMMA StepFacts ==
    ASSUME ChainInv, NEW k \in Codecs, NEW T, NEW l, NEW q, NEW d, NEW out, StepOk(k, T, l, q, d, out)
    PROVE  /\ TypeInv /\ PoolInv /\ Handles(k, T, l, q, d, out) /\ Takes(k, T, l, q) /\ ~Gone(k)
           /\ WorkerOf[k] \in Workers /\ out \in Seq(OutType)
           /\ codec'[k] = d /\ \A h \in Codecs : h # k => codec'[h] = codec[h]
           /\ \A m : (m \in owned') <=> (m \in owned \/ ToApp(out, m))
           /\ \A h : (h \in ready') <=> (h \in ready \/ (h = k /\ StartTold(out, k)))
           /\ ~ToApp(out, Cmd) => call' = call /\ conn' = conn
           /\ ToApp(out, Cmd) =>
                /\ call' = None /\ call # None /\ call \in CallType /\ call.on = k
                /\ call.op = "route" => conn' = [conn EXCEPT ![k] = call.arg]
                /\ call.op = "unroute" => conn' = [conn EXCEPT ![k] = None]
                /\ call.op \notin {"route", "unroute"} => conn' = conn
<1>1. /\ TypeInv /\ PoolInv /\ Handles(k, T, l, q, d, out) /\ Takes(k, T, l, q) /\ ~Gone(k)
      /\ WorkerOf[k] \in Workers /\ out \in Seq(OutType) /\ Told(out) /\ AppOk(k, out) /\ CallOk(k, T, d, out)
  BY DEF ChainInv, StepOk, Handles, Takes, OutOk, Workers
<1>2. codec'[k] = d /\ \A h \in Codecs : h # k => codec'[h] = codec[h]
  BY <1>1, Arrived
<1>3. /\ \A m : (m \in owned') <=> (m \in owned \/ ToApp(out, m))
      /\ \A h : (h \in ready') <=> (h \in ready \/ (h = k /\ StartTold(out, k)))
      /\ ~ToApp(out, Cmd) => call' = call /\ conn' = conn
      /\ ToApp(out, Cmd) => call' = None
      /\ ToApp(out, Cmd) /\ call.op = "route" => conn' = [conn EXCEPT ![call.on] = call.arg]
      /\ ToApp(out, Cmd) /\ call.op = "unroute" => conn' = [conn EXCEPT ![call.on] = None]
      /\ ToApp(out, Cmd) /\ call.op \notin {"route", "unroute"} => conn' = conn
  BY <1>1, ToldFacts
<1>4. ToApp(out, Cmd) => call # None /\ call \in CallType /\ call.on = k
  BY <1>1, CallFacts DEF CallOk
<1>5. ToApp(out, Cmd) /\ call.op = "route" => conn' = [conn EXCEPT ![k] = call.arg]
  BY <1>3, <1>4
<1>6. ToApp(out, Cmd) /\ call.op = "unroute" => conn' = [conn EXCEPT ![k] = None]
  BY <1>3, <1>4
<1> QED BY <1>1, <1>2, <1>3, <1>4, <1>5, <1>6

\* The components after the step, and what the application knows of them.
LEMMA ReadyStep ==
    ASSUME ChainInv, NEW k \in Codecs, NEW T, NEW l, NEW q, NEW d, NEW out, StepOk(k, T, l, q, d, out)
    PROVE  CompInv' /\ ReadyInv'
<1>1. /\ codec'[k] = d /\ (\A h \in Codecs : h # k => codec'[h] = codec[h]) /\ ~Gone(k)
      /\ \A h : (h \in ready') <=> (h \in ready \/ (h = k /\ StartTold(out, k)))
  BY StepFacts
<1>2. /\ IF d.mode = "gone" THEN d = Destroyed ELSE CompOk(k, d)
      /\ StartOk(k, T, d, out)
  BY DEF StepOk
<1>3. CompInv'
  BY <1>1, <1>2 DEF ChainInv, CompInv, Gone
<1>4. ASSUME NEW h \in Codecs, codec'[h].mode # "gone" PROVE h \in ready' <=> ~Initial(codec'[h])
  <2>1. CASE h # k
    BY <1>1, <1>4, <2>1 DEF ChainInv, ReadyInv, Gone
  <2>2. CASE h = k
    <3>1. Initial(d) <=> Initial(codec[k]) /\ ~StartTold(out, k)
      BY <1>1, <1>2, <1>4, <2>2 DEF StartOk
    <3>2. k \in ready <=> ~Initial(codec[k])
      BY <1>1 DEF ChainInv, ReadyInv
    <3> QED BY <1>1, <2>2, <3>1, <3>2
  <2> QED BY <2>1, <2>2
<1>5. ReadyInv'
  BY <1>4 DEF ReadyInv, Gone, Initial
<1> QED BY <1>3, <1>5

\* The flushes after the step.
LEMMA FlushStep ==
    ASSUME ChainInv, NEW k \in Codecs, NEW T, NEW l, NEW q, NEW d, NEW out, StepOk(k, T, l, q, d, out)
    PROVE  FlushInv'
<1>1. /\ codec'[k] = d /\ (\A h \in Codecs : h # k => codec'[h] = codec[h])
      /\ TypeInv /\ PoolInv /\ Handles(k, T, l, q, d, out) /\ Takes(k, T, l, q)
  BY StepFacts
<1>2. FlushStepOk(k, T, d, out) /\ (PortKept(k, d) \/ PortDone(k, T, out))
  BY DEF StepOk, Handles
<1> SUFFICES ASSUME NEW j \in Codecs, NEW x, IsAbroad(x)', IsFlush(x, j) PROVE FlushOk(codec'[j])
  BY DEF FlushInv, FlushAbroad, IsFlush, IsAbroad, InTransit, AtInput, Items, Of, FlushOk, Waiting, Unrouting,
         Purging, Completed
<1>3. FromPool(x.msg) /\ x.msg.of = j /\ x.op = "flush"
  BY DEF IsFlush, Of
<1>4. CASE IsAbroad(x) /\ (j = k => IsLeft(k, l, q, x) \/ AtInput(x))
  <2>1. FlushAbroad(j)
    BY <1>4 DEF FlushAbroad
  <2>2. CASE j # k
    BY <1>1, <2>1, <2>2 DEF ChainInv, FlushInv
  <2>3. CASE j = k
    <3>1. ~PortDone(k, T, out)
      BY <1>1, <1>4, <2>3, NothingLeft DEF IsFlush
    <3> QED BY <1>1, <1>2, <2>1, <2>3, <3>1 DEF FlushStepOk
  <2> QED BY <2>2, <2>3
<1>5. CASE j # k /\ \E z : IsAbroad(z) /\ z.msg = x.msg /\ (x.op = "flush" => z.op = "flush")
  <2>1. FlushAbroad(j)
    BY <1>3, <1>5 DEF FlushAbroad, IsFlush, Of
  <2> QED BY <1>1, <1>5, <2>1 DEF ChainInv, FlushInv
<1>6. CASE \E z \in Items(out) : IsSent(k, d, z) /\ z.msg = x.msg /\ (x.op = "flush" => z.op = "flush")
  <2>1. PICK z \in Items(out) : IsSent(k, d, z) /\ z.msg = x.msg /\ (x.op = "flush" => z.op = "flush")
    BY <1>6
  <2>2. j = k /\ IsFlush(z, k)
    BY <1>3, <2>1 DEF IsSent, Of, IsFlush
  <2> QED BY <1>1, <1>2, <2>2 DEF FlushStepOk
<1> QED BY <1>1, <1>3, <1>4, <1>5, <1>6, AbroadAfter

\* Nothing gets before a component that is alone.
LEMMA AloneStep ==
    ASSUME ChainInv, NEW k \in Codecs, NEW T, NEW l, NEW q, NEW d, NEW out, StepOk(k, T, l, q, d, out)
    PROVE  AloneInv'
<1> DEFINE w == WorkerOf[k]
<1>1. /\ codec'[k] = d /\ (\A h \in Codecs : h # k => codec'[h] = codec[h]) /\ w \in Workers
      /\ TypeInv /\ PoolInv /\ Handles(k, T, l, q, d, out) /\ Takes(k, T, l, q) /\ out \in Seq(OutType)
  BY StepFacts
<1>2. /\ AloneOk(k, l, d, out) /\ Turn(k, T, l, q) /\ Sent(w, l, q, out)
      /\ IF d.mode = "gone" THEN d = Destroyed ELSE CompOk(k, d)
      /\ l \in Seq(ItemType) /\ q \in Seq(ItemType)
  BY DEF StepOk, Handles, Takes
<1>3. /\ local' \in [Workers -> Seq(ItemType)]
      /\ \A v \in Workers : v # w => local'[v] = local[v]
      /\ \A y \in Items(local'[w]) : y \in Items(l) \/ Goes(out, w, y)
  BY <1>1, <1>2, SentFacts
<1> SUFFICES ASSUME NEW h \in Codecs, IsScheduled(codec'[h]), Completed(codec'[h])
             PROVE  local'[WorkerOf[h]] = <<>> /\ Scheduling(WorkerOf[h])' = {h}
  BY DEF AloneInv, Alone, IsScheduled, Completed
<1>4. CASE h = k
  <2>1. l = <<>> /\ Scheduling(w) \subseteq {k} /\ \A y \in Items(out) : y.to = App
    BY <1>1, <1>2, <1>4 DEF AloneOk
  <2>2. ASSUME NEW y \in Items(local'[w]) PROVE FALSE
    <3>1. y \in Items(l) \/ Goes(out, w, y)
      BY <1>3
    <3>2. y \notin Items(l)
      BY <2>1, EmptyItems
    <3> QED BY <2>1, <3>1, <3>2, AppAssumption DEF Goes, Alive
  <2>3. local'[w] = <<>>
    <3> DEFINE s == local'[w]
    <3>1. s \in Seq(ItemType) /\ Items(s) = {}
      BY <1>1, <1>3, <2>2
    <3> HIDE DEF s
    <3>2. s = <<>>
      BY <3>1, SeqFacts
    <3> QED BY <3>2 DEF s
  <2>4. d.tree = 1
    <3>1. d.mode # "gone"
      <4> SUFFICES ASSUME d = Destroyed PROVE FALSE
        BY <1>2
      <4>1. d.state = {}
        BY DEF Destroyed, Configured
      <4> QED BY <1>1, <1>4, <4>1 DEF IsScheduled
    <3> QED BY <1>1, <1>2, <1>4, <3>1 DEF CompOk, TaskOk
  <2>5. ASSUME NEW i \in Codecs PROVE (WorkerOf[i] = w /\ codec'[i].tree > 0) <=> i = k
    BY <1>1, <2>1, <2>4 DEF Scheduling
  <2>6. Scheduling(w)' = {k}
    BY <2>5 DEF Scheduling
  <2> QED BY <1>4, <2>3, <2>6
<1>5. CASE h # k
  <2>1. Alone(h)
    BY <1>1, <1>5 DEF ChainInv, AloneInv
  <2>2. WorkerOf[h] # w
    BY <1>2, <1>5, <2>1 DEF Turn
  <2>3. local'[WorkerOf[h]] = local[WorkerOf[h]]
    BY <1>3, <2>2 DEF Workers
  <2>4. ASSUME NEW i \in Codecs, WorkerOf[i] = WorkerOf[h] PROVE codec'[i] = codec[i]
    BY <1>1, <2>2, <2>4
  <2>5. Scheduling(WorkerOf[h])' = Scheduling(WorkerOf[h])
    BY <2>4 DEF Scheduling
  <2> QED BY <2>1, <2>3, <2>5 DEF Alone
<1> QED BY <1>4, <1>5

\* The application's map after the step.
LEMMA ConnStep ==
    ASSUME ChainInv, NEW k \in Codecs, NEW T, NEW l, NEW q, NEW d, NEW out, StepOk(k, T, l, q, d, out)
    PROVE  ConnInv'
<1> DEFINE ret == ToApp(out, Cmd)
<1>1. /\ codec'[k] = d /\ (\A h \in Codecs : h # k => codec'[h] = codec[h])
      /\ ready \subseteq ready'
      /\ ~ret => conn' = conn
      /\ ret => /\ call # None /\ call.on = k
                /\ call.op = "route" => conn' = [conn EXCEPT ![k] = call.arg]
                /\ call.op = "unroute" => conn' = [conn EXCEPT ![k] = None]
                /\ call.op \notin {"route", "unroute"} => conn' = conn
  BY StepFacts
<1>2. conn \in [Codecs -> Codecs \cup {None}] /\ None \notin Codecs
  BY AppAssumption DEF ChainInv, TypeInv
<1>3. ret /\ call.op = "route" => /\ <<k, call.arg>> \in Edges /\ k \in ready
                                  /\ call.arg \in Codecs
                                  /\ \A h \in Codecs : conn[h] # call.arg
  BY <1>1, EdgeFacts DEF ChainInv, CallInv
<1>4. \A h \in Codecs : h # k => conn'[h] = conn[h]
  BY <1>1, <1>2
<1>5. conn'[k] = IF ret /\ call.op = "route" THEN call.arg
                 ELSE IF ret /\ call.op = "unroute" THEN None ELSE conn[k]
  BY <1>1, <1>2
<1>6. ConnOk(k, d, out)
  BY DEF StepOk
<1>7. ConnInv
  BY DEF ChainInv
<1> HIDE DEF ret
<1>8. ASSUME NEW h \in Codecs, conn'[h] # None PROVE <<h, conn'[h]>> \in Edges /\ h \in ready'
  <2>1. CASE h = k
    BY <1>1, <1>3, <1>5, <1>7, <1>8, <2>1 DEF ConnInv
  <2>2. CASE h # k
    BY <1>1, <1>4, <1>7, <1>8, <2>2 DEF ConnInv
  <2> QED BY <2>1, <2>2
<1>9. ASSUME NEW i \in Codecs, NEW j \in Codecs, conn'[i] # None, conn'[i] = conn'[j] PROVE i = j
  <2>1. CASE i # k /\ j # k
    BY <1>4, <1>7, <1>9, <2>1 DEF ConnInv
  <2>2. CASE i = k /\ j # k
    BY <1>3, <1>4, <1>5, <1>7, <1>9, <2>2 DEF ConnInv
  <2>3. CASE i # k /\ j = k
    BY <1>3, <1>4, <1>5, <1>7, <1>9, <2>3 DEF ConnInv
  <2> QED BY <2>1, <2>2, <2>3
<1>10. ASSUME NEW h \in Codecs, Routed(codec'[h]) PROVE conn'[h] = codec'[h].route
  <2>1. CASE h # k
    BY <1>1, <1>4, <1>7, <1>10, <2>1 DEF ConnInv, RouteOf
  <2>2. CASE h = k
    BY <1>1, <1>5, <1>6, <1>7, <1>10, <2>2 DEF ConnInv, RouteOf, ConnOk, ret
  <2> QED BY <2>1, <2>2
<1> QED BY <1>8, <1>9, <1>10 DEF ConnInv, RouteOf, Routed

\* The call in progress after the step.
LEMMA CallStep ==
    ASSUME ChainInv, NEW k \in Codecs, NEW T, NEW l, NEW q, NEW d, NEW out, StepOk(k, T, l, q, d, out)
    PROVE  CallInv'
<1> DEFINE ret == ToApp(out, Cmd)
           cmd == HasMsg(T, Cmd)
<1>1. /\ codec'[k] = d /\ (\A h \in Codecs : h # k => codec'[h] = codec[h])
      /\ ready \subseteq ready' /\ Takes(k, T, l, q) /\ ~Gone(k)
      /\ TypeInv /\ PoolInv /\ Handles(k, T, l, q, d, out)
      /\ ~ret => call' = call /\ conn' = conn
      /\ ret => call' = None
      /\ Cmd \in owned' => Cmd \in owned \/ ret
  BY StepFacts
<1>2. CallOk(k, T, d, out) /\ Turn(k, T, l, q)
  BY DEF StepOk
<1>3. ~FromPool(Cmd)
  BY MsgFacts
<1>4. ASSUME NEW x, Queued(x)', x.msg = Cmd PROVE Queued(x) /\ ~cmd
  <2>1. PICK v \in Workers : x \in Items(queue'[v])
    BY <1>4 DEF Queued, Items
  <2>2. x \in Items(queue[v]) /\ (v = WorkerOf[k] => x \in Items(q))
    BY <1>1, <1>3, <1>4, <2>1, AppLeft
  <2>3. Queued(x)
    BY <2>2 DEF Queued
  <2>4. ~cmd
    <3> SUFFICES ASSUME cmd PROVE FALSE
      OBVIOUS
    <3>1. x.to = k
      BY <1>1, <1>4, <2>3, CallFacts, ItemFacts
    <3>2. v = WorkerOf[k]
      BY <1>1, <2>2, <3>1 DEF PoolInv, PlaceInv, QueuePlace
    <3> QED BY <1>2, <1>4, <2>2, <3>2 DEF Turn, HasMsg
  <2> QED BY <2>3, <2>4
<1>5. ASSUME NEW v \in Workers, NEW x, NEW y, Ahead(queue'[v], x, y), x.msg = Cmd PROVE y.msg # Cmd
  <2> SUFFICES ASSUME y.msg = Cmd PROVE FALSE
    OBVIOUS
  <2>1. Ahead(queue[v], x, y)
    BY <1>1, <1>3, <1>5, AppLeft
  <2> QED BY <1>5, <2>1 DEF ChainInv, CallInv
<1> DEFINE Saved1(h) == codec'[h].mode = "terminating" \/ Unrouting(codec'[h])
<1>6. \A h \in Codecs : h # k => (Saved1(h) <=> IsSaved(h))
  BY <1>1 DEF IsSaved
<1>7. Saved1(k) <=> SavedIn(d)
  BY <1>1 DEF SavedIn
<1>8. IsSaved(k) <=> SavedIn(codec[k])
  BY DEF SavedIn, IsSaved
<1> SUFFICES /\ call' = None => /\ \A x : Queued(x)' => x.msg # Cmd
                                /\ \A h \in Codecs : ~Saved1(h)
             /\ call' # None =>
                  /\ Cmd \notin owned' /\ codec'[call'.on].mode # "gone"
                  /\ \/ /\ \A x : Queued(x)' /\ x.msg = Cmd => x = Item(call'.on, Cmd, call'.op, 0)
                        /\ \A h \in Codecs : ~Saved1(h)
                     \/ /\ \A x : Queued(x)' => x.msg # Cmd
                        /\ \A h \in Codecs : Saved1(h) <=> h = call'.on
                        /\ call'.op = IF Unrouting(codec'[call'.on]) THEN "unroute" ELSE "unregister"
                        /\ codec'[call'.on].mode = "running" <=> call'.op = "unroute"
                  /\ call'.op = "route" =>
                       /\ <<call'.on, call'.arg>> \in Edges /\ call'.on \in ready' /\ conn'[call'.on] = None
                       /\ \A h \in Codecs : conn'[h] # call'.arg
  BY <1>5 DEF CallInv, Queued, Items, Ahead, IsSaved, Unrouting, Gone
<1> HIDE DEF Saved1
<1>9. CASE ret
  <2>1. call' = None /\ ~SavedIn(d) /\ (cmd \/ SavedIn(codec[k]))
    BY <1>1, <1>2, <1>9 DEF CallOk
  <2>2. \A x : Queued(x)' => x.msg # Cmd
    BY <1>1, <1>4, <2>1, CallFacts
  <2>3. \A h \in Codecs : h # k => ~IsSaved(h)
    BY <1>1, <2>1, CallFacts
  <2> QED BY <1>6, <1>7, <2>1, <2>2, <2>3
<1>10. CASE ~ret /\ cmd
  <2>1. /\ call' = call /\ conn' = conn /\ SavedIn(d) /\ d.mode # "gone"
        /\ call.op = IF Unrouting(d) THEN "unroute" ELSE "unregister"
        /\ d.mode = "running" <=> call.op = "unroute"
    BY <1>1, <1>2, <1>10 DEF CallOk
  <2>2. call # None /\ call.on = k /\ \A h \in Codecs : ~IsSaved(h)
    BY <1>1, <1>10, CallFacts
  <2>3. \A x : Queued(x)' => x.msg # Cmd
    BY <1>4, <1>10
  <2>4. Cmd \notin owned'
    BY <1>1, <1>10, <2>2 DEF ChainInv, CallInv
  <2>5. \A h \in Codecs : Saved1(h) <=> h = k
    BY <1>6, <1>7, <2>1, <2>2
  <2>6. call.op # "route"
    BY <2>1
  <2> QED BY <1>1, <2>1, <2>2, <2>3, <2>4, <2>5, <2>6
<1>11. CASE ~ret /\ ~cmd
  <2>1. /\ call' = call /\ conn' = conn /\ d.mode = codec[k].mode /\ (Unrouting(d) <=> Unrouting(codec[k]))
    BY <1>1, <1>2, <1>11 DEF CallOk
  <2>2. \A h \in Codecs : /\ Saved1(h) <=> IsSaved(h)
                          /\ codec'[h].mode = codec[h].mode /\ (Unrouting(codec'[h]) <=> Unrouting(codec[h]))
    BY <1>1, <1>6, <1>7, <1>8, <2>1 DEF SavedIn
  <2>3. CallInv
    BY DEF ChainInv
  <2>4. CASE call = None
    BY <1>4, <2>1, <2>2, <2>3, <2>4 DEF CallInv
  <2>5. CASE call # None
    <3>1. call.on \in Codecs
      BY <1>1, <2>5 DEF TypeInv, CallType
    <3>2. /\ Cmd \notin owned' /\ codec'[call.on].mode # "gone"
          /\ call.op = "route" =>
               /\ <<call.on, call.arg>> \in Edges /\ call.on \in ready' /\ conn[call.on] = None
               /\ \A h \in Codecs : conn[h] # call.arg
      BY <1>1, <1>11, <2>2, <2>3, <2>5, <3>1 DEF CallInv, Gone
    <3>3. \/ /\ \A x : Queued(x) /\ x.msg = Cmd => x = Item(call.on, Cmd, call.op, 0)
             /\ \A h \in Codecs : ~IsSaved(h)
          \/ /\ \A x : Queued(x) => x.msg # Cmd
             /\ \A h \in Codecs : IsSaved(h) <=> h = call.on
             /\ call.op = IF Unrouting(codec[call.on]) THEN "unroute" ELSE "unregister"
             /\ codec[call.on].mode = "running" <=> call.op = "unroute"
      BY <2>3, <2>5 DEF CallInv
    <3>4. CASE /\ \A x : Queued(x) /\ x.msg = Cmd => x = Item(call.on, Cmd, call.op, 0)
               /\ \A h \in Codecs : ~IsSaved(h)
      BY <1>4, <2>1, <2>2, <2>5, <3>2, <3>4
    <3>5. CASE /\ \A x : Queued(x) => x.msg # Cmd
               /\ \A h \in Codecs : IsSaved(h) <=> h = call.on
               /\ call.op = IF Unrouting(codec[call.on]) THEN "unroute" ELSE "unregister"
               /\ codec[call.on].mode = "running" <=> call.op = "unroute"
      BY <1>4, <2>1, <2>2, <2>5, <3>1, <3>2, <3>5
    <3> QED BY <3>3, <3>4, <3>5
  <2> QED BY <2>4, <2>5
<1> QED BY <1>9, <1>10, <1>11

\* Every connection goes down.
LEMMA DepthFacts == Depth \in [Codecs -> Nat] /\ \A e \in Edges : Depth[e[1]] < Depth[e[2]]
<1> DEFINE D == [Codecs -> 0..Cardinality(Codecs)]
<1>1. \E depth \in D : \A e \in Edges : depth[e[1]] < depth[e[2]]
  BY AcyclicAssumption
<1>2. Depth \in D /\ \A e \in Edges : Depth[e[1]] < Depth[e[2]]
  BY <1>1 DEF Depth
<1>3. 0..Cardinality(Codecs) \subseteq Nat
  OBVIOUS
<1> QED BY <1>2, <1>3

\* A flush is sent for a call that waits at its component or above.
SavedAbove == \A j \in Codecs : FlushAbroad(j) => \E i \in Codecs : IsSaved(i) /\ Depth[i] <= Depth[j]

\* So it is, by induction along the connections.
LEMMA FlushIsForCall == TypeInv /\ PoolInv /\ CompInv /\ FlushInv => SavedAbove
<1> SUFFICES ASSUME TypeInv, PoolInv, CompInv, FlushInv,
                    NEW j \in Codecs, FlushAbroad(j),
                    ~\E i \in Codecs : IsSaved(i) /\ Depth[i] <= Depth[j]
             PROVE  FALSE
  BY DEF SavedAbove
<1> DEFINE D == {n \in Nat : \E h \in Codecs : n = Depth[h] /\ n <= Depth[j] /\ FlushAbroad(h)}
<1>1. Depth \in [Codecs -> Nat]
  BY DepthFacts
<1>2. Depth[j] \in D
  BY <1>1
<1>3. IsWellFoundedOn({ss \in Nat \X Nat : ss[1] < ss[2]}, Nat)
  BY NatLessThanWellFounded DEF OpToRel
<1>4. D \subseteq Nat /\ D # {}
  BY <1>2
<1> HIDE DEF D
<1>5. PICK n \in D : \A m \in D : ~(<<m, n>> \in {ss \in Nat \X Nat : ss[1] < ss[2]})
  BY <1>3, <1>4, WFMin
<1>6. n \in Nat /\ \A m \in D : ~(m < n)
  BY <1>4, <1>5
<1>7. PICK h \in Codecs : n = Depth[h] /\ n <= Depth[j] /\ FlushAbroad(h)
  BY DEF D
<1>8. Waiting(codec[h]) /\ ~IsSaved(h)
  BY <1>7 DEF FlushInv, FlushOk
<1>9. Purging(codec[h])
  BY <1>8 DEF Waiting, IsSaved
<1>10. CompOk(h, codec[h])
  <2>1. ~Gone(h)
    <3> SUFFICES ASSUME codec[h] = Destroyed PROVE FALSE
      BY DEF CompInv
    <3>1. codec[h].iflags = {}
      BY DEF Destroyed, Configured
    <3> QED BY <1>9, <3>1 DEF Purging
  <2> QED BY <2>1 DEF CompInv
<1>11. PICK x \in Items(codec[h].in) : x.op = "flush"
  BY <1>9, <1>10 DEF CompOk, InputOk
<1>12. InputPlace(h, x)
  BY DEF PoolInv, PlaceInv
<1>13. FromPool(x.msg) /\ Routed(codec[x.msg.of]) /\ RouteOf(x.msg.of) = h
  BY <1>11, <1>12 DEF InputPlace
<1>14. x.msg.of \in Codecs
  <2>1. codec[h].in \in Seq(ItemType)
    BY DEF TypeInv, CodecType
  <2> DEFINE s == codec[h].in
  <2>2. s \in Seq(ItemType) /\ x \in Items(s)
    BY <2>1
  <2> HIDE DEF s
  <2>3. x \in ItemType
    BY <2>2, SeqFacts
  <2> QED BY <1>13, <2>3, ItemFacts, MsgFacts
<1> DEFINE i == x.msg.of
<1>15. <<i, h>> \in Edges
  BY <1>13, <1>14 DEF PoolInv, RouteInv
<1>16. FlushAbroad(i)
  BY <1>11, <1>13 DEF FlushAbroad, IsFlush, Of, IsAbroad, AtInput
<1>17. Depth[i] < Depth[h] /\ Depth[i] \in Nat /\ Depth[j] \in Nat /\ Depth[h] \in Nat
  BY <1>14, <1>15, DepthFacts
<1> HIDE DEF i
<1>18. Depth[i] \in D
  BY <1>7, <1>14, <1>16, <1>17 DEF D, i
<1> QED BY <1>6, <1>7, <1>17, <1>18

\* A flush has a call.
NoFlushAlone == call = None => \A j \in Codecs : ~FlushAbroad(j)

\* That is the call in progress.
LEMMA FlushHasCall == TypeInv /\ PoolInv /\ CompInv /\ FlushInv /\ CallInv => NoFlushAlone
BY FlushIsForCall DEF SavedAbove, CallInv, NoFlushAlone

\* A flush after the step was one before it, by a connection that is still that one, or is
\* sent for a call or another flush.
LEMMA FlushAfter ==
    ASSUME ChainInv, NEW k \in Codecs, NEW T, NEW l, NEW q, NEW d, NEW out, StepOk(k, T, l, q, d, out),
           NEW j \in Codecs, FlushAbroad(j)'
    PROVE  /\ codec'[j].route = RouteOf(j)
           /\ \/ FlushAbroad(j)
              \/ /\ j = k /\ Routed(codec[k])
                 /\ \/ call # None /\ call.op \in {"unroute", "unregister"} /\ call.on = k
                    \/ \E x \in T : FromPool(x.msg) /\ x.msg.of # k /\ x.op = "flush"
<1>1. /\ codec'[k] = d /\ (\A h \in Codecs : h # k => codec'[h] = codec[h])
      /\ TypeInv /\ PoolInv /\ Handles(k, T, l, q, d, out) /\ Takes(k, T, l, q)
  BY StepFacts
<1>2. FlushStepOk(k, T, d, out) /\ (PortKept(k, d) \/ PortDone(k, T, out))
  BY DEF StepOk, Handles
<1>3. PICK x : IsAbroad(x)' /\ IsFlush(x, j)
  <2>1. \E x : IsAbroad(x)' /\ IsFlush(x, j)
    BY DEF FlushAbroad, IsFlush, IsAbroad, InTransit, AtInput, Items, Of
  <2> QED BY <2>1
<1>4. FromPool(x.msg) /\ x.msg.of = j /\ x.op = "flush"
  BY <1>3 DEF IsFlush, Of
<1>5. CASE IsAbroad(x) /\ (j = k => IsLeft(k, l, q, x) \/ AtInput(x))
  <2>1. FlushAbroad(j)
    BY <1>3, <1>5 DEF FlushAbroad
  <2>2. CASE j # k
    BY <1>1, <2>1, <2>2 DEF RouteOf
  <2>3. CASE j = k
    <3>1. ~PortDone(k, T, out)
      BY <1>1, <1>3, <1>5, <2>3, NothingLeft DEF IsFlush
    <3> QED BY <1>1, <1>2, <2>1, <2>3, <3>1 DEF PortKept
  <2> QED BY <2>2, <2>3
<1>6. CASE j # k /\ \E z : IsAbroad(z) /\ z.msg = x.msg /\ (x.op = "flush" => z.op = "flush")
  <2>1. FlushAbroad(j)
    BY <1>4, <1>6 DEF FlushAbroad, IsFlush, Of
  <2> QED BY <1>1, <1>6, <2>1 DEF RouteOf
<1>7. CASE \E z \in Items(out) : IsSent(k, d, z) /\ z.msg = x.msg /\ (x.op = "flush" => z.op = "flush")
  <2>1. PICK z \in Items(out) : IsSent(k, d, z) /\ z.msg = x.msg /\ (x.op = "flush" => z.op = "flush")
    BY <1>7
  <2>2. j = k /\ IsFlush(z, k) /\ Routed(codec[k]) /\ d.route = RouteOf(k)
    BY <1>4, <2>1 DEF IsSent, Of, IsFlush
  <2> QED BY <1>1, <1>2, <2>1, <2>2 DEF FlushStepOk
<1> QED BY <1>1, <1>3, <1>4, <1>5, <1>6, <1>7, AbroadAfter

\* What is below a flush stays initialised.
LEMMA ScopeStep ==
    ASSUME ChainInv, NEW k \in Codecs, NEW T, NEW l, NEW q, NEW d, NEW out, StepOk(k, T, l, q, d, out),
           TypeInv' /\ PoolInv' /\ CompInv' /\ FlushInv' /\ CallInv'
    PROVE  ScopeInv'
<1>1. /\ codec'[k] = d /\ (\A h \in Codecs : h # k => codec'[h] = codec[h]) /\ ~Gone(k)
      /\ TypeInv /\ PoolInv /\ Takes(k, T, l, q) /\ ready \subseteq ready'
      /\ ToApp(out, Cmd) => call' = None
      /\ ~ToApp(out, Cmd) => call' = call /\ conn' = conn
  BY StepFacts
<1>2. CASE ToApp(out, Cmd)
  <2>1. NoFlushAlone'
    BY FlushHasCall, PTL
  <2>2. \A j \in Codecs : ~FlushAbroad(j)'
    BY <1>1, <1>2, <2>1 DEF NoFlushAlone
  <2>3. InScope({})'
    BY <1>1, <1>2, <2>2 DEF InScope, Initialised, FlushAbroad
  <2> QED BY <2>3 DEF ScopeInv
<1>3. CASE ~ToApp(out, Cmd)
  <2>1. PICK S \in SUBSET Codecs : InScope(S)
    BY DEF ChainInv, ScopeInv
  <2>2. Initialised(S)'
    <3> SUFFICES ASSUME NEW h \in S, codec'[h].mode # "gone" PROVE h \in ready' /\ conn'[h] \in S \cup {None}
      BY DEF Initialised, Gone
    <3>1. ~Gone(h)
      BY <1>1 DEF Gone
    <3> QED BY <1>1, <1>3, <2>1, <3>1 DEF InScope, Initialised
  <2>3. (call # None /\ call.op \in {"unroute", "unregister"} => conn[call.on] \in S \cup {None})'
    BY <1>1, <1>3, <2>1 DEF InScope
  <2>4. ASSUME NEW j \in Codecs, FlushAbroad(j)' PROVE codec'[j].route \in S
    <3>1. codec'[j].route = RouteOf(j)
      BY <2>4, FlushAfter
    <3>2. CASE FlushAbroad(j)
      BY <2>1, <3>1, <3>2 DEF InScope
    <3>3. CASE j = k /\ Routed(codec[k]) /\ conn[k] \in S \cup {None}
      <4>1. conn[k] = RouteOf(k) /\ RouteOf(k) \in Codecs
        BY <1>1, <3>3, EdgeFacts DEF ChainInv, ConnInv, PoolInv, RouteInv
      <4> QED BY <3>1, <3>3, <4>1, AppAssumption
    <3>4. (call # None /\ call.op \in {"unroute", "unregister"} /\ call.on = k) => conn[k] \in S \cup {None}
      BY <2>1 DEF InScope
    <3>5. (\E x \in T : FromPool(x.msg) /\ x.msg.of # k /\ x.op = "flush") => conn[k] \in S \cup {None}
      <4> SUFFICES ASSUME NEW x \in T, FromPool(x.msg), x.msg.of # k, x.op = "flush"
                   PROVE  conn[k] \in S \cup {None}
        OBVIOUS
      <4>1. IsAbroad(x) /\ x.msg.of \in Codecs /\ RouteOf(x.msg.of) = k
        BY <1>1, TakenFacts DEF Of
      <4>2. FlushAbroad(x.msg.of)
        BY <4>1 DEF FlushAbroad, IsFlush, Of
      <4>3. k \in S
        BY <2>1, <4>1, <4>2 DEF InScope
      <4> QED BY <1>1, <2>1, <4>3 DEF InScope, Initialised
    <3> QED BY <2>4, <3>2, <3>3, <3>4, <3>5, FlushAfter
  <2>5. InScope(S)'
    BY <2>2, <2>3, <2>4 DEF InScope, RouteOf
  <2> QED BY <2>5 DEF ScopeInv
<1> QED BY <1>2, <1>3

\* The start messages after the step.
LEMMA StartStep ==
    ASSUME ChainInv, NEW k \in Codecs, NEW T, NEW l, NEW q, NEW d, NEW out, StepOk(k, T, l, q, d, out)
    PROVE  StartInv'
<1> DEFINE start == Msg(k, "start")
<1>1. /\ codec'[k] = d /\ (\A h \in Codecs : h # k => codec'[h] = codec[h]) /\ ~Gone(k)
      /\ TypeInv /\ PoolInv /\ Handles(k, T, l, q, d, out) /\ Takes(k, T, l, q)
      /\ \A m : (m \in owned') <=> (m \in owned \/ ToApp(out, m))
      /\ \A h : (h \in ready') <=> (h \in ready \/ (h = k /\ StartTold(out, k)))
  BY StepFacts
<1>2. /\ AppOk(k, out) /\ StartOk(k, T, d, out) /\ ModeOk(k, l, q, d)
      /\ \A x \in T, y \in Items(q) : x.msg = Cmd \/ IsStart(x) => y.msg # x.msg
  BY DEF StepOk, Handles, Turn
<1>3. /\ \A x : Queued(x) /\ IsStart(x) => x.to \notin ready /\ x.msg \notin owned /\ codec[x.to].out = <<>>
      /\ \A h \in Codecs : ~Gone(h) /\ Initial(codec[h]) /\ codec[h].out # <<>> => Msg(h, "start") \notin owned
      /\ \A v \in Workers : \A x, y : Ahead(queue[v], x, y) /\ IsStart(x) => x.msg # y.msg
  BY DEF ChainInv, StartInv
<1>4. \A x : IsStart(x) => ~FromPool(x.msg)
  BY NamesAssumption DEF IsStart, FromPool, Pool
<1>5. StartTold(out, k) => ToApp(out, start)
  BY DEF StartTold, ToApp
<1>6. ASSUME NEW h \in Codecs, h # k PROVE ~ToApp(out, Msg(h, "start"))
  <2>1. Msg(h, "start") # Cmd /\ Msg(h, "start").of = h
    BY MsgFacts
  <2> QED BY <1>2, <1>6, <2>1 DEF AppOk, ToApp
<1>7. ASSUME NEW x, NEW v \in Workers, x \in Items(queue'[v]), IsStart(x)
      PROVE  /\ Queued(x) /\ x.to \in Codecs /\ x.msg = Msg(x.to, "start")
             /\ x.to = k => x \in Items(q)
  <2>1. x \in Items(queue[v]) /\ (v = WorkerOf[k] => x \in Items(q))
    BY <1>1, <1>4, <1>7, AppLeft
  <2>2. WorkerOf[x.to] = v /\ AppKind(x)
    BY <1>1, <1>4, <1>7, <2>1 DEF PoolInv, PlaceInv, QueuePlace
  <2>3. x \in ItemType
    <3> DEFINE s == queue[v]
    <3>1. s \in Seq(ItemType) /\ x \in Items(s)
      BY <1>1, <2>1 DEF TypeInv
    <3> HIDE DEF s
    <3> QED BY <3>1, SeqFacts
  <2>4. x.msg = Msg(x.to, "start")
    BY <1>7, <2>2, MsgFacts DEF AppKind, IsStart
  <2> QED BY <2>1, <2>2, <2>3, <2>4, ItemFacts DEF Queued
<1>8. ASSUME NEW x, NEW v \in Workers, x \in Items(queue'[v]), IsStart(x)
      PROVE  x.to \notin ready' /\ x.msg \notin owned' /\ codec'[x.to].out = <<>>
  <2>1. /\ Queued(x) /\ x.to \in Codecs /\ x.msg = Msg(x.to, "start")
        /\ x.to = k => x \in Items(q)
    BY <1>7, <1>8
  <2>2. x.to \notin ready /\ x.msg \notin owned /\ codec[x.to].out = <<>>
    BY <1>3, <1>8, <2>1
  <2>3. CASE x.to # k
    BY <1>1, <1>6, <2>1, <2>2, <2>3
  <2>4. CASE x.to = k
    <3>1. x \in Items(q) /\ x.msg = start
      BY <2>1, <2>4
    <3>2. d.mode # "gone"
      BY <1>2, <2>4, <3>1 DEF ModeOk
    <3>3. ~HasMsg(T, start)
      <4> SUFFICES ASSUME NEW z \in T, z.msg = start PROVE FALSE
        BY DEF HasMsg
      <4>1. IsStart(z)
        BY MsgFacts DEF IsStart
      <4> QED BY <1>2, <3>1, <4>1
    <3>4. Initial(codec[k])
      BY <1>1, <2>2, <2>4 DEF ChainInv, ReadyInv
    <3>5. d.out = <<>> /\ ~ToApp(out, start)
      BY <1>2, <2>2, <2>4, <3>2, <3>3, <3>4 DEF StartOk
    <3> QED BY <1>1, <1>5, <2>2, <2>4, <3>1, <3>5
  <2> QED BY <2>3, <2>4
<1>9. ASSUME NEW h \in Codecs, codec'[h].mode # "gone", Initial(codec'[h]), codec'[h].out # <<>>
      PROVE  Msg(h, "start") \notin owned'
  <2>1. CASE h # k
    BY <1>1, <1>3, <1>6, <1>9, <2>1 DEF Gone
  <2>2. CASE h = k
    <3>1. ~ToApp(out, start) /\ (codec[k].out # <<>> \/ HasMsg(T, start)) /\ Initial(codec[k])
      BY <1>1, <1>2, <1>9, <2>2 DEF StartOk
    <3>2. CASE codec[k].out # <<>>
      BY <1>1, <1>3, <2>2, <3>1, <3>2
    <3>3. CASE HasMsg(T, start)
      <4>1. PICK x \in T : x.msg = start
        BY <3>3 DEF HasMsg
      <4>2. IsStart(x) /\ ~FromPool(x.msg)
        BY <1>4, <4>1, MsgFacts DEF IsStart
      <4>3. WorkerOf[k] \in Workers /\ (x \in Items(local[WorkerOf[k]]) \/ x \in Items(queue[WorkerOf[k]]))
        BY <1>1 DEF Takes, Workers
      <4>4. x \notin Items(local[WorkerOf[k]])
        BY <1>1, <4>2, <4>3 DEF PoolInv, PlaceInv, LocalPlace
      <4>5. Queued(x)
        BY <4>3, <4>4 DEF Queued
      <4> QED BY <1>1, <1>3, <2>2, <3>1, <4>1, <4>2, <4>5
    <3> QED BY <3>1, <3>2, <3>3
  <2> QED BY <2>1, <2>2
<1>10. ASSUME NEW v \in Workers, NEW x, NEW y, Ahead(queue'[v], x, y), IsStart(x), x.msg = y.msg PROVE FALSE
  <2>1. ~FromPool(x.msg) /\ ~FromPool(y.msg)
    BY <1>4, <1>10
  <2>2. Ahead(queue[v], x, y)
    BY <1>1, <1>10, <2>1, AppLeft
  <2> QED BY <1>3, <1>10, <2>2
<1>11. \A x : Queued(x)' /\ IsStart(x) => x.to \notin ready' /\ x.msg \notin owned' /\ codec'[x.to].out = <<>>
  BY <1>8 DEF Queued, Items
<1> QED BY <1>9, <1>10, <1>11 DEF StartInv, Queued, Items, Ahead, Gone, Initial, IsStart

\* What is in a local queue lets messages of one connection go down.
LEMMA LeadStep ==
    ASSUME ChainInv, NEW k \in Codecs, NEW T, NEW l, NEW q, NEW d, NEW out, StepOk(k, T, l, q, d, out)
    PROVE  LeadInv'
<1> DEFINE w == WorkerOf[k]
           LedBy(x, y) == /\ IsLead(y) => x.msg.of = y.msg.of
                          /\ IsBack(y) => Depth[y.to] < Depth[codec'[x.msg.of].route]
<1>1. /\ codec'[k] = d /\ (\A h \in Codecs : h # k => codec'[h] = codec[h]) /\ w \in Workers
      /\ TypeInv /\ PoolInv /\ Handles(k, T, l, q, d, out) /\ Takes(k, T, l, q) /\ out \in Seq(OutType)
      /\ PlaceInv /\ RouteInv
  BY StepFacts DEF PoolInv
<1>2. /\ Sent(w, l, q, out) /\ OutOk(k, T, d, out) /\ (PortKept(k, d) \/ PortDone(k, T, out))
      /\ LeadOk(k, l, out) /\ Turn(k, T, l, q)
      /\ l \in Seq(ItemType) /\ q \in Seq(ItemType) /\ Items(l) \subseteq Items(local[w])
  BY DEF StepOk, Handles, Takes
<1>3. /\ \A v \in Workers : v # w => local'[v] = local[v]
      /\ \A y \in Items(local'[w]) : y \in Items(l) \/ Goes(out, w, y)
  BY <1>1, <1>2, SentFacts
<1>4. \A v \in Workers : \A x, y \in Items(local[v]) : IsLead(x) =>
        /\ IsLead(y) => x.msg.of = y.msg.of
        /\ IsBack(y) => Depth[y.to] < Depth[RouteOf(x.msg.of)]
  BY DEF ChainInv, LeadInv
<1>5. \A v \in Workers : \A x \in Items(local[v]) :
        FromPool(x.msg) /\ WorkerOf[x.msg.of] = v /\ (~IsBack(x) => x.to = RouteOf(x.msg.of))
        /\ x \in ItemType /\ x.msg.of \in Codecs
  <2> SUFFICES ASSUME NEW v \in Workers, NEW x \in Items(local[v])
               PROVE  FromPool(x.msg) /\ WorkerOf[x.msg.of] = v /\ (~IsBack(x) => x.to = RouteOf(x.msg.of))
                      /\ x \in ItemType /\ x.msg.of \in Codecs
    OBVIOUS
  <2>1. LocalPlace(v, x)
    BY <1>1 DEF PlaceInv
  <2>2. x \in ItemType
    <3> DEFINE s == local[v]
    <3>1. s \in Seq(ItemType) /\ x \in Items(s)
      BY <1>1 DEF TypeInv
    <3> HIDE DEF s
    <3> QED BY <3>1, SeqFacts
  <2> QED BY <2>1, <2>2, ItemFacts, MsgFacts DEF LocalPlace
\* What is left.
<1>6. ASSUME NEW x \in Items(l) PROVE codec'[x.msg.of].route = RouteOf(x.msg.of)
  <2>1. x \in Items(local[w]) /\ x.msg.of \in Codecs /\ FromPool(x.msg)
    BY <1>1, <1>2, <1>5
  <2>2. CASE x.msg.of # k
    BY <1>1, <2>1, <2>2 DEF RouteOf
  <2>3. CASE x.msg.of = k
    <3>1. IsLeft(k, l, q, x)
      BY <1>1, <2>1 DEF IsLeft
    <3>2. ~PortDone(k, T, out)
      BY <1>1, <2>1, <2>3, <3>1, NothingLeft DEF Of
    <3> QED BY <1>1, <1>2, <2>3, <3>2 DEF PortKept
  <2> QED BY <2>2, <2>3
\* What is new.
<1>7. ASSUME NEW y, Goes(out, w, y)
      PROVE  /\ y \in Items(out) /\ y.to # App /\ WorkerOf[y.to] = w
             /\ codec'[y.msg.of].route = RouteOf(y.msg.of)
             /\ \/ /\ y.msg.of # k /\ IsBack(y) /\ <<y.to, k>> \in Edges /\ RouteOf(y.msg.of) = k
                \/ y.msg.of = k /\ ~IsBack(y) /\ <<k, RouteOf(k)>> \in Edges
  <2>1. /\ y \in Items(out) /\ Alive(y) /\ WorkerOf[y.to] = w
        /\ IsAnswer(k, T, d, y) \/ IsSent(k, d, y)
    BY <1>1, <1>2, <1>7, GoesArrives DEF Arrives
  <2>2. CASE IsAnswer(k, T, d, y)
    <3>1. /\ y.msg.of \in Codecs /\ y.msg.of # k /\ y.to = y.msg.of
          /\ Routed(codec[y.msg.of]) /\ RouteOf(y.msg.of) = k
      BY <1>1, <2>2, AnswerFor
    <3>2. <<y.to, k>> \in Edges
      BY <1>1, <3>1 DEF RouteInv
    <3> QED BY <1>1, <2>1, <3>1, <3>2, AppAssumption DEF IsBack, Alive, RouteOf
  <2>3. CASE IsSent(k, d, y)
    <3>1. y.msg.of = k /\ y.to = RouteOf(k) /\ d.route = RouteOf(k) /\ Routed(codec[k])
      BY <2>3 DEF IsSent, Of
    <3>2. <<k, RouteOf(k)>> \in Edges
      BY <1>1, <3>1 DEF RouteInv
    <3>3. RouteOf(k) # k
      BY <3>2, EdgeFacts
    <3> QED BY <1>1, <2>1, <3>1, <3>2, <3>3, AppAssumption DEF IsBack, Alive, RouteOf
  <2> QED BY <2>1, <2>2, <2>3
<1>8. \A h, i \in Codecs : <<h, i>> \in Edges => Depth[h] < Depth[i]
  <2> SUFFICES ASSUME NEW h \in Codecs, NEW i \in Codecs, <<h, i>> \in Edges PROVE Depth[h] < Depth[i]
    OBVIOUS
  <2> DEFINE e == <<h, i>>
  <2>1. e \in Edges
    OBVIOUS
  <2>2. Depth[e[1]] < Depth[e[2]]
    BY <2>1, DepthFacts
  <2> QED BY <2>2
<1>9. \A h, i : <<h, i>> \in Edges => h \in Codecs /\ i \in Codecs
  BY EdgesAssumption
<1>10. Depth \in [Codecs -> Nat]
  BY DepthFacts
<1>11. ASSUME NEW x \in Items(l), IsLead(x), NEW h \in Codecs, <<h, k>> \in Edges
       PROVE  Depth[h] < Depth[RouteOf(x.msg.of)]
  <2>1. PICK x0 \in T : x0 \in Items(local[w])
    <3>1. l # <<>>
      BY <1>11, EmptyItems
    <3> QED BY <1>2, <3>1 DEF Turn
  <2>2. x0.to = k
    BY <1>1 DEF Takes
  <2>3. x \in Items(local[w])
    BY <1>2
  <2>4. Depth[h] < Depth[k] /\ Depth[h] \in Nat /\ Depth[k] \in Nat
    BY <1>8, <1>10, <1>11
  <2>5. CASE IsBack(x0)
    <3>1. Depth[k] < Depth[RouteOf(x.msg.of)]
      BY <1>1, <1>4, <1>11, <2>1, <2>2, <2>3, <2>5
    <3>2. RouteOf(x.msg.of) \in Codecs
      <4>1. LocalPlace(w, x) /\ x.msg.of \in Codecs
        BY <1>1, <1>5, <2>3 DEF PlaceInv
      <4>2. <<x.msg.of, RouteOf(x.msg.of)>> \in Edges
        BY <1>1, <4>1 DEF LocalPlace, RouteInv
      <4> QED BY <1>9, <4>2
    <3>3. Depth[RouteOf(x.msg.of)] \in Nat
      BY <1>10, <3>2
    <3> QED BY <2>4, <3>1, <3>3
  <2>6. CASE ~IsBack(x0)
    <3>1. k = RouteOf(x0.msg.of)
      BY <1>1, <1>5, <2>1, <2>2, <2>6
    <3>2. x0.msg.of = x.msg.of
      BY <1>1, <1>4, <1>11, <2>1, <2>3, <2>6 DEF IsLead
    <3> QED BY <2>4, <3>1, <3>2
  <2> QED BY <2>5, <2>6
<1>12. ASSUME NEW x \in Items(local'[w]), NEW y \in Items(local'[w]), IsLead(x) PROVE LedBy(x, y)
  <2>1. CASE x \in Items(l) /\ y \in Items(l)
    BY <1>1, <1>2, <1>4, <1>6, <1>12, <2>1
  <2>2. CASE x \in Items(l) /\ Goes(out, w, y)
    <3>1. codec'[x.msg.of].route = RouteOf(x.msg.of)
      BY <1>6, <2>2
    <3>2. ASSUME IsLead(y) PROVE x.msg.of = y.msg.of
      BY <1>2, <1>7, <1>12, <2>2, <3>2 DEF LeadOk
    <3>3. ASSUME IsBack(y) PROVE Depth[y.to] < Depth[RouteOf(x.msg.of)]
      <4>1. <<y.to, k>> \in Edges
        BY <1>7, <2>2, <3>3
      <4> QED BY <1>9, <1>11, <1>12, <2>2, <4>1
    <3> QED BY <3>1, <3>2, <3>3
  <2>3. CASE Goes(out, w, x) /\ y \in Items(l)
    <3>1. codec'[x.msg.of].route = RouteOf(x.msg.of) /\ x \in Items(out) /\ x.to # App /\ WorkerOf[x.to] = w
      BY <1>7, <2>3
    <3> QED BY <1>2, <1>12, <2>3, <3>1 DEF LeadOk
  <2>4. CASE Goes(out, w, x) /\ Goes(out, w, y)
    <3>1. codec'[x.msg.of].route = RouteOf(x.msg.of) /\ x \in Items(out) /\ x.to # App /\ WorkerOf[x.to] = w
      BY <1>7, <2>4
    <3>2. y \in Items(out) /\ y.to # App
      BY <1>7, <2>4
    <3>3. ASSUME IsLead(y) PROVE x.msg.of = y.msg.of
      BY <1>2, <1>12, <3>1, <3>2, <3>3 DEF LeadOk
    <3>4. ASSUME IsBack(y) PROVE Depth[y.to] < Depth[RouteOf(x.msg.of)]
      <4>1. <<y.to, k>> \in Edges
        BY <1>7, <2>4, <3>4
      <4>2. Depth[y.to] < Depth[k] /\ Depth[y.to] \in Nat /\ Depth[k] \in Nat
        BY <1>8, <1>9, <1>10, <4>1
      <4>3. CASE RouteOf(x.msg.of) = k
        BY <4>2, <4>3
      <4>4. CASE x.msg.of = k /\ <<k, RouteOf(k)>> \in Edges
        <5>1. Depth[k] < Depth[RouteOf(k)] /\ Depth[RouteOf(k)] \in Nat
          BY <1>8, <1>9, <1>10, <4>4
        <5> QED BY <4>2, <4>4, <5>1
      <4> QED BY <1>7, <2>4, <4>3, <4>4
    <3> QED BY <3>1, <3>3, <3>4
  <2> QED BY <1>3, <2>1, <2>2, <2>3, <2>4
<1>13. ASSUME NEW v \in Workers, v # w, NEW x \in Items(local'[v]), NEW y \in Items(local'[v]), IsLead(x)
       PROVE  LedBy(x, y)
  <2>1. x \in Items(local[v]) /\ y \in Items(local[v])
    BY <1>3, <1>13
  <2>2. codec'[x.msg.of].route = RouteOf(x.msg.of)
    <3>1. x.msg.of \in Codecs /\ x.msg.of # k
      BY <1>5, <1>13, <2>1
    <3> QED BY <1>1, <3>1 DEF RouteOf
  <2> QED BY <1>4, <1>13, <2>1, <2>2
<1>14. \A v \in Workers : \A x, y \in Items(local'[v]) : IsLead(x) => LedBy(x, y)
  BY <1>12, <1>13
<1> QED BY <1>14 DEF LeadInv, Items, RouteOf, IsLead, IsBack, IsControl

\* A step that is as it should be keeps the invariant.
LEMMA StepKeeps ==
    ASSUME ChainInv, NEW k \in Codecs, NEW T, NEW l, NEW q, NEW d, NEW out, StepOk(k, T, l, q, d, out)
    PROVE  ChainInv'
<1>1. PoolInv'
  <2>1. TypeInv /\ PoolInv /\ Handles(k, T, l, q, d, out)
    BY StepFacts
  <2> QED BY <2>1, PoolStep
<1>2. TypeInv' /\ FlushInv' /\ CallInv' /\ ConnInv' /\ AloneInv' /\ StartInv' /\ LeadInv'
  BY TypeStep, FlushStep, CallStep, ConnStep, AloneStep, StartStep, LeadStep
<1>3. CompInv' /\ ReadyInv'
  BY ReadyStep
<1>4. ScopeInv'
  BY <1>1, <1>2, <1>3, ScopeStep
<1> QED BY <1>1, <1>2, <1>3, <1>4 DEF ChainInv

\* What is known of a component that is not gone.
LEMMA Mine ==
    ASSUME ChainInv, NEW k \in Codecs, ~Gone(k)
    PROVE  /\ codec[k] \in CodecType(k) /\ CompOk(k, codec[k]) /\ WorkerOf[k] \in Workers
           /\ codec[k].in \in Seq(ItemType) /\ codec[k].out \in Seq(AllMsgs)
           /\ codec[k].state \subseteq Flags.state /\ codec[k].iflags \subseteq Flags.in
           /\ codec[k].oflags \subseteq Flags.out /\ codec[k].mode \in {"running", "terminating"}
           /\ codec[k].route = RouteOf(k)
           /\ Routed(codec[k]) => /\ <<k, RouteOf(k)>> \in Edges /\ RouteOf(k) \in Codecs /\ RouteOf(k) # k
                                  /\ k \notin Sinks /\ conn[k] = RouteOf(k)
           /\ k \in ready <=> ~Initial(codec[k])
<1>1. codec[k] \in CodecType(k)
  BY DEF ChainInv, TypeInv
<1>2. /\ codec[k].in \in Seq(ItemType) /\ codec[k].out \in Seq(AllMsgs)
      /\ codec[k].state \subseteq Flags.state /\ codec[k].iflags \subseteq Flags.in
      /\ codec[k].oflags \subseteq Flags.out /\ codec[k].mode \in {"running", "terminating"}
  BY <1>1 DEF CodecType, Gone
<1>3. CompOk(k, codec[k]) /\ WorkerOf[k] \in Workers /\ codec[k].route = RouteOf(k)
  BY DEF ChainInv, CompInv, Workers, RouteOf
<1>4. ASSUME Routed(codec[k])
      PROVE  /\ <<k, RouteOf(k)>> \in Edges /\ RouteOf(k) \in Codecs /\ RouteOf(k) # k
             /\ k \notin Sinks /\ conn[k] = RouteOf(k)
  <2> DEFINE e == <<k, RouteOf(k)>>
  <2>1. e \in Edges /\ conn[k] = RouteOf(k)
    BY <1>4 DEF ChainInv, PoolInv, RouteInv, ConnInv
  <2>2. e[1] = k /\ e[2] = RouteOf(k)
    OBVIOUS
  <2>3. e[2] \in Codecs /\ e[1] # e[2] /\ e[1] \notin Sinks
    BY <2>1, EdgeFacts, SinkAssumption
  <2> QED BY <2>1, <2>2, <2>3
<1>5. k \in ready <=> ~Initial(codec[k])
  BY DEF ChainInv, ReadyInv
<1> QED BY <1>1, <1>2, <1>3, <1>4, <1>5

\* Component k is given x, its worker's queues come down.
Serves(k, x) == x \in NextItem(WorkerOf[k]) /\ x.to = k /\ ~Gone(k)

\* It is given one message, in its turn.
LEMMA ServesOne ==
    ASSUME ChainInv, NEW k \in Codecs, NEW x, Serves(k, x)
    PROVE  LET w == WorkerOf[k]
               l == LocalLeft(w)
               q == QueueLeft(w) IN
           /\ Takes(k, {x}, l, q) /\ Turn(k, {x}, l, q)
           /\ ~(IsScheduled(codec[k]) /\ Completed(codec[k]))
           /\ (l = <<>> /\ Scheduling(w) = {} /\ Queued(x)) \/ (FromPool(x.msg) /\ x \in Items(local[w]))
<1> DEFINE w == WorkerOf[k]
           l == LocalLeft(w)
           q == QueueLeft(w)
           s == local[w]
           t == queue[w]
<1>1. w \in Workers /\ s \in Seq(ItemType) /\ t \in Seq(ItemType)
  BY DEF ChainInv, TypeInv, Workers
<1>2. x \in NextItem(w) /\ x.to = k /\ ~Gone(k)
  BY DEF Serves
<1>3. ~Alone(k)
  BY <1>2 DEF Alone, NextItem
<1>4. ~(IsScheduled(codec[k]) /\ Completed(codec[k]))
  BY <1>3 DEF ChainInv, AloneInv
<1>5. CASE s # <<>>
  <2>1. x = Head(s) /\ l = Tail(s) /\ q = t
    BY <1>2, <1>5 DEF NextItem, LocalLeft, QueueLeft
  <2> HIDE DEF l, q, s, t
  <2>2. /\ x \in ItemType /\ l \in Seq(ItemType) /\ q \in Seq(ItemType)
        /\ Items(s) = {x} \cup Items(l)
        /\ \A a, b : Ahead(l, a, b) => Ahead(s, a, b)
        /\ \A a \in Items(l) : Ahead(s, x, a)
    BY <1>1, <1>5, <2>1, Rest
  <2>3. x \in Items(s) /\ LocalPlace(w, x)
    <3>1. x \in Items(s)
      BY <2>2
    <3> QED BY <1>1, <3>1 DEF s, ChainInv, PoolInv, PlaceInv
  <2>4. FromPool(x.msg) /\ x.msg # Cmd /\ ~IsStart(x)
    BY <2>3, MsgFacts, NamesAssumption DEF LocalPlace, IsStart, FromPool, Pool
  <2>5. ASSUME IsControl(x), NEW y \in Items(l) \cup Items(q), Of(y, x.msg.of) PROVE y.to # k
    <3>1. CASE y \in Items(l)
      BY <1>1, <1>2, <2>2, <2>5, <3>1 DEF s, ChainInv, PoolInv, ClosedInv, Closed
    <3>2. CASE y \in Items(q) /\ IsBack(x)
      <4>1. InTransit(y) /\ (IsBack(y) => IsQueuedBack(y))
        BY <1>1, <2>1, <3>2 DEF t, InTransit, IsQueuedBack
      <4> QED BY <1>1, <2>3, <2>5, <3>2, <4>1 DEF s, ChainInv, PoolInv, NoneBehind, IsForth
    <3>3. CASE y \in Items(q) /\ ~IsBack(x)
      <4>1. QueuePlace(w, y)
        BY <1>1, <2>1, <3>3 DEF t, ChainInv, PoolInv, PlaceInv
      <4>2. k = RouteOf(x.msg.of) /\ WorkerOf[x.msg.of] = w /\ Routed(codec[x.msg.of]) /\ x.to # x.msg.of
        BY <1>2, <2>3, <3>3 DEF LocalPlace, IsBack
      <4>3. y.msg.of = x.msg.of /\ FromPool(y.msg)
        BY <2>5 DEF Of
      <4>4. IsBack(y)
        BY <4>1, <4>2, <4>3 DEF QueuePlace
      <4> QED BY <1>2, <4>2, <4>3, <4>4 DEF IsBack
    <3> QED BY <2>5, <3>1, <3>2, <3>3
  <2>6. Takes(k, {x}, l, q)
    BY <1>1, <1>2, <2>1, <2>2, <2>3, <2>5 DEF Takes, s, t
  <2>7. Turn(k, {x}, l, q)
    <3>1. \A h \in Codecs : WorkerOf[h] = w => ~Alone(h)
      BY <1>5 DEF Alone, s
    <3> QED BY <2>3, <2>4, <3>1 DEF Turn, s
  <2> QED BY <1>4, <2>3, <2>4, <2>6, <2>7 DEF l, q, s
<1>6. CASE s = <<>>
  <2>1. x = Head(t) /\ l = <<>> /\ q = Tail(t) /\ t # <<>> /\ Scheduling(w) = {}
    BY <1>2, <1>6 DEF NextItem, LocalLeft, QueueLeft
  <2>2. l \in Seq(ItemType) /\ Items(l) = {} /\ \A a, b : ~Ahead(l, a, b)
    BY <2>1, EmptyItems
  <2> HIDE DEF l, q, s, t
  <2>3. /\ x \in ItemType /\ q \in Seq(ItemType)
        /\ Items(t) = {x} \cup Items(q)
        /\ \A a, b : Ahead(q, a, b) => Ahead(t, a, b)
        /\ \A a \in Items(q) : Ahead(t, x, a)
    BY <1>1, <2>1, Rest
  <2>4. x \in Items(t) /\ Queued(x)
    BY <1>1, <2>3 DEF Queued, t
  <2>5. ASSUME IsControl(x), NEW y \in Items(l) \cup Items(q), Of(y, x.msg.of) PROVE y.to # k
    BY <1>1, <1>2, <2>2, <2>3, <2>5 DEF t, ChainInv, PoolInv, ClosedInv, Closed
  <2>6. Takes(k, {x}, l, q)
    BY <1>1, <1>2, <2>2, <2>3, <2>4, <2>5 DEF Takes, s, t
  <2>7. Turn(k, {x}, l, q)
    <3>1. \A h \in Codecs : WorkerOf[h] = w => ~Alone(h)
      BY <2>1 DEF Alone
    <3>2. ASSUME NEW y \in Items(q), x.msg = Cmd \/ IsStart(x) PROVE y.msg # x.msg
      <4>1. Ahead(queue[w], x, y)
        BY <2>3 DEF t
      <4>2. CASE x.msg = Cmd
        BY <1>1, <4>1, <4>2 DEF ChainInv, CallInv
      <4>3. CASE IsStart(x)
        BY <1>1, <4>1, <4>3 DEF ChainInv, StartInv
      <4> QED BY <3>2, <4>2, <4>3
    <3> QED BY <1>6, <2>1, <3>1, <3>2 DEF Turn, s
  <2> QED BY <1>4, <2>1, <2>4, <2>6, <2>7 DEF l, q, s
<1> QED BY <1>5, <1>6

\* What it may be.
LEMMA ServedKinds ==
    ASSUME ChainInv, NEW k \in Codecs, NEW x, Serves(k, x)
    PROVE  /\ x \in ItemType /\ x.to = k /\ IsAbroad(x)
           /\ Of(x, k) => BackKind(x) /\ Routed(codec[k]) /\ IsBack(x)
           /\ FromPool(x.msg) /\ ~Of(x, k) =>
                /\ IsForth(x) /\ ForthKind(x) /\ x.msg.of \in Codecs /\ x.msg.of # k
                /\ Routed(codec[x.msg.of]) /\ RouteOf(x.msg.of) = k
                /\ <<x.msg.of, k>> \in Edges /\ k \notin Sources
           /\ ~FromPool(x.msg) => AppKind(x) /\ Queued(x)
<1> DEFINE w == WorkerOf[k]
           T == {x}
<1>1. Takes(k, T, LocalLeft(w), QueueLeft(w)) /\ TypeInv /\ PoolInv /\ x \in T
  BY ServesOne DEF ChainInv
<1>2. /\ x \in ItemType /\ x.to = k /\ IsAbroad(x)
      /\ FromPool(x.msg) => x.msg.of \in Codecs /\ Routed(codec[x.msg.of])
      /\ Of(x, k) => BackKind(x)
      /\ FromPool(x.msg) /\ ~Of(x, k) => IsForth(x) /\ RouteOf(x.msg.of) = k /\ ForthKind(x)
      /\ ~FromPool(x.msg) => AppKind(x)
  BY <1>1, TakenFacts
<1>3. Of(x, k) => Routed(codec[k]) /\ IsBack(x)
  BY <1>2 DEF Of, IsBack
<1>4. ASSUME FromPool(x.msg), ~Of(x, k)
      PROVE  x.msg.of # k /\ <<x.msg.of, k>> \in Edges /\ k \notin Sources
  <2> DEFINE e == <<x.msg.of, k>>
  <2>1. e \in Edges
    BY <1>1, <1>2, <1>4 DEF PoolInv, RouteInv
  <2>2. e[2] \notin Sources
    BY <2>1, SourceAssumption
  <2> QED BY <1>4, <2>1, <2>2 DEF Of
<1>5. ~FromPool(x.msg) => Queued(x)
  BY ServesOne
<1> QED BY <1>2, <1>3, <1>4, <1>5

\* A step: what is left to show of it.
Steps(k, T, l, q, d, out) ==
    /\ Takes(k, T, l, q) /\ Turn(k, T, l, q)
    /\ codec' = [codec EXCEPT ![k] = d]
    /\ Sent(WorkerOf[k], l, q, out) /\ Told(out)

\* A handler is such a step.
LEMMA ServesSteps ==
    ASSUME ChainInv, NEW k \in Codecs, NEW x, Serves(k, x), NEW d, NEW out, Becomes(k, d, out)
    PROVE  Steps(k, {x}, LocalLeft(WorkerOf[k]), QueueLeft(WorkerOf[k]), d, out)
BY ServesOne DEF Steps, Becomes

\* The application does not forget a component that is initialised.
LEMMA ToldReady == ASSUME NEW out, Told(out) PROVE ready \subseteq ready'
BY DEF Told

\* One that neither routes nor unroutes, and answers the command it is given.
LEMMA OrdinaryStep ==
    ASSUME ChainInv, NEW k \in Codecs, NEW T, NEW l, NEW q, NEW d \in CodecType(k), NEW out,
           Steps(k, T, l, q, d, out), CompOk(k, d),
           OutOk(k, T, d, out), InOk(k, T, d), AppOk(k, out),
           d.mode = codec[k].mode, d.route = RouteOf(k),
           Routed(d) <=> Routed(codec[k]), Unrouting(d) <=> Unrouting(codec[k]),
           PortKept(k, d) \/ PortDone(k, T, out),
           HasMsg(T, Cmd) <=> ToApp(out, Cmd),
           ToApp(out, Cmd) => call.op \notin {"route", "unroute"},
           StartOk(k, T, d, out), AloneOk(k, l, d, out), FlushStepOk(k, T, d, out), LeadOk(k, l, out)
    PROVE  ChainInv'
<1>1. ~Gone(k) /\ Takes(k, T, l, q) /\ Turn(k, T, l, q) /\ Told(out)
  BY DEF Steps, Takes
<1>2. d.mode \in {"running", "terminating"} /\ (Routed(codec[k]) => <<k, RouteOf(k)>> \in Edges)
  BY <1>1, Mine
<1>3. ModeOk(k, l, q, d)
  BY <1>2 DEF ModeOk
<1>4. CallOk(k, T, d, out)
  <2>1. CASE ~HasMsg(T, Cmd)
    BY <2>1 DEF CallOk
  <2>2. CASE HasMsg(T, Cmd)
    <3>1. ~IsSaved(k)
      BY <1>1, <2>2, CallFacts
    <3>2. ~SavedIn(d)
      BY <3>1 DEF SavedIn, IsSaved
    <3> QED BY <2>2, <3>2 DEF CallOk
  <2> QED BY <2>1, <2>2
<1>5. ConnOk(k, d, out)
  BY DEF ConnOk
<1>6. Handles(k, T, l, q, d, out)
  BY <1>1, <1>3, ToldReady DEF Handles, Steps
<1>7. StepOk(k, T, l, q, d, out)
  BY <1>1, <1>2, <1>4, <1>5, <1>6 DEF StepOk
<1> QED BY <1>7, StepKeeps

\* What it sends when it sends nothing down.
AppReply(k, y) == y.to = App /\ y.msg \in AppMsgs /\ (y.msg = Cmd \/ y.msg.of = k)
Reply(k, T, y) ==
    /\ FromPool(y.msg) /\ y.msg.of # k /\ IsBack(y) /\ BackOp(y) /\ y.len # Invalid
    /\ \E z \in T \cup Items(codec[k].in) : z.msg = y.msg /\ (y.op = "flush" => z.op = "flush")
Plain(k, T, out) == \A y \in Items(out) : AppReply(k, y) \/ Reply(k, T, y)

\* Such answers disturb nothing.
LEMMA PlainFacts ==
    ASSUME NEW k \in Codecs, NEW T, NEW out \in Seq(OutType), Plain(k, T, out)
    PROVE  /\ \A d, y : y \in Items(out) => y.to = App \/ IsAnswer(k, T, d, y)
           /\ AppOk(k, out) /\ \A l : LeadOk(k, l, out)
           /\ \A y \in Items(out) : ~Of(y, k)
           /\ \A d : (FlushAbroad(k) /\ PortKept(k, d) => FlushOk(d)) => FlushStepOk(k, T, d, out)
<1>1. ASSUME NEW y \in Items(out)
      PROVE  /\ y.msg \in AllMsgs
             /\ AppReply(k, y) => ~FromPool(y.msg)
             /\ Reply(k, T, y) => y.to # App /\ ~IsLead(y) /\ \A d : IsAnswer(k, T, d, y)
  <2>1. y \in OutType
    BY SeqFacts
  <2>2. y.msg \in AllMsgs
    BY <2>1, ItemFacts
  <2>3. AppReply(k, y) => ~FromPool(y.msg)
    BY MsgFacts DEF AppReply
  <2>4. Reply(k, T, y) => y.to # App /\ ~IsLead(y) /\ \A d : IsAnswer(k, T, d, y)
    BY <2>2, MsgFacts, AppAssumption DEF Reply, IsLead, IsBack, IsAnswer
  <2> QED BY <2>2, <2>3, <2>4
<1>2. \A d, y : y \in Items(out) => y.to = App \/ IsAnswer(k, T, d, y)
  BY <1>1 DEF Plain, AppReply
<1>3. AppOk(k, out)
  BY <1>1 DEF Plain, AppReply, AppOk
<1>4. \A l : LeadOk(k, l, out)
  BY <1>1 DEF Plain, AppReply, LeadOk
<1>5. \A y \in Items(out) : ~Of(y, k)
  BY <1>1 DEF Plain, AppReply, Reply, Of
<1>6. \A d : (FlushAbroad(k) /\ PortKept(k, d) => FlushOk(d)) => FlushStepOk(k, T, d, out)
  BY <1>5 DEF FlushStepOk, IsFlush
<1> QED BY <1>2, <1>3, <1>4, <1>5, <1>6

\* The start message is not concerned.
LEMMA NoStart ==
    ASSUME NEW k \in Codecs, NEW T, NEW d, NEW out,
           ~HasMsg(T, Msg(k, "start")), ~ToApp(out, Msg(k, "start")),
           Initial(d) <=> Initial(codec[k]), Initial(d) => d.out = codec[k].out
    PROVE  StartOk(k, T, d, out)
<1>1. ~StartTold(out, k)
  BY DEF StartTold, ToApp
<1> QED BY <1>1 DEF StartOk

\* A flush is the flow-control message.
LEMMA FlushFlags ==
    ASSUME ChainInv, NEW k \in Codecs
    PROVE  /\ \A x : IsAbroad(x) /\ FromPool(x.msg) /\ x.op = "flush" => IsControl(x)
           /\ FlushAbroad(k) => Flushing(codec[k])
<1>1. PlaceInv /\ PortInv
  BY DEF ChainInv, PoolInv
<1>2. ASSUME NEW x, IsAbroad(x), FromPool(x.msg), x.op = "flush" PROVE IsControl(x)
  <2>1. ASSUME NEW v \in Workers, x \in Items(local[v]) PROVE IsControl(x)
    BY <1>1, <1>2, <2>1 DEF PlaceInv, LocalPlace, BackKind, BackOp, ForthKind
  <2>2. ASSUME NEW v \in Workers, x \in Items(queue[v]) PROVE IsControl(x)
    BY <1>1, <1>2, <2>2 DEF PlaceInv, QueuePlace, BackKind, BackOp, ForthKind
  <2>3. ASSUME NEW h \in Codecs, x \in Items(codec[h].in) PROVE IsControl(x)
    BY <1>1, <1>2, <2>3 DEF PlaceInv, InputPlace, ForthKind
  <2> QED BY <1>2, <2>1, <2>2, <2>3 DEF IsAbroad, InTransit, AtInput
<1>3. FlushAbroad(k) => Flushing(codec[k])
  BY <1>1, <1>2 DEF FlushAbroad, IsFlush, Of, PortInv, Flushing
<1> QED BY <1>2, <1>3

\* What is held at the input is answered so.
LEMMA InputAnswered ==
    ASSUME ChainInv, NEW k \in Codecs, NEW T, NEW z \in Items(codec[k].in), NEW len \in {0, 1}
    PROVE  LET y == Answered(z, len) IN
           /\ y \in OutType /\ y.msg = z.msg /\ y.len = len
           /\ AppReply(k, y) \/ Reply(k, T, y)
           /\ y.to = App => y.msg \in {Msg(k, "in"), Msg(k, "eos")}
<1> DEFINE y == Answered(z, len)
           s == codec[k].in
<1>1. z \in ItemType
  <2>1. s \in Seq(ItemType) /\ z \in Items(s)
    BY DEF ChainInv, TypeInv, CodecType
  <2> HIDE DEF s
  <2> QED BY <2>1, SeqFacts
<1>2. InputPlace(k, z)
  BY DEF ChainInv, PoolInv, PlaceInv
<1>3. len \in Lens /\ len # Invalid /\ z \in OutType
  BY <1>1, ItemFacts DEF Lens, Invalid
<1>4. /\ y \in OutType /\ y.msg = z.msg /\ y.len = len
      /\ y.to = IF FromPool(z.msg) THEN z.msg.of ELSE App
      /\ y.op = IF z.op = "empty" /\ FromPool(z.msg) THEN "fill" ELSE z.op
  BY <1>3, AnswerFacts
<1> HIDE DEF y
<1>5. CASE FromPool(z.msg)
  <2>1. ForthKind(z) /\ Routed(codec[z.msg.of]) /\ RouteOf(z.msg.of) = k
    BY <1>2, <1>5 DEF InputPlace
  <2>2. z.msg.of \in Codecs
    BY <1>3, <1>5, ItemFacts, MsgFacts
  <2>3. z.msg.of # k
    <3> DEFINE e == <<z.msg.of, k>>
    <3>1. e \in Edges
      BY <2>1, <2>2 DEF ChainInv, PoolInv, RouteInv
    <3>2. e[1] # e[2]
      BY <3>1, EdgeFacts
    <3> QED BY <3>2
  <2>4. Reply(k, T, y)
    BY <1>3, <1>4, <1>5, <2>1, <2>3 DEF Reply, IsBack, BackOp, IsControl, ForthKind
  <2> QED BY <1>4, <1>5, <2>2, <2>4, AppAssumption DEF y
<1>6. CASE ~FromPool(z.msg)
  <2>1. AppKind(z) /\ z.op = "empty" /\ z.to = k
    BY <1>2, <1>6 DEF InputPlace
  <2>2. z.msg \in {Msg(k, "in"), Msg(k, "eos")}
    BY <2>1 DEF AppKind
  <2>3. z.msg.of = k /\ z.msg \in AppMsgs
    BY <1>3, <1>6, <2>2, ItemFacts, MsgFacts
  <2> QED BY <1>4, <1>6, <2>2, <2>3 DEF y, AppReply
<1> QED BY <1>5, <1>6

\* The first n messages of a sequence, and the others.
LEMMA Divided ==
    ASSUME NEW S, NEW s \in Seq(S), NEW n \in 0..Len(s)
    PROVE  LET r == SubSeq(s, n + 1, Len(s)) IN
           /\ r \in Seq(S) /\ Items(r) \subseteq Items(s)
           /\ \A x, y : Ahead(r, x, y) => Ahead(s, x, y)
           /\ \A i \in DOMAIN s : i > n => s[i] \in Items(r)
           /\ \A i \in 1..n : i \in DOMAIN s
           /\ \A i \in 1..n, y \in Items(r) : Ahead(s, s[i], y)
           /\ n = Len(s) => r = <<>>
           /\ n = 0 => r = s
<1> DEFINE r == SubSeq(s, n + 1, Len(s))
           m == Len(s)
<1>1. m \in Nat /\ n \in Int /\ 0 <= n /\ n <= m /\ DOMAIN s = 1..m
  OBVIOUS
<1>2. r \in Seq(S) /\ DOMAIN r = 1..(m - n)
  OBVIOUS
<1>3. \A i \in 1..(m - n) : r[i] = s[i + n]
  OBVIOUS
<1>4. n = m => r = <<>>
  OBVIOUS
<1>5. n = 0 => r = s
  OBVIOUS
<1> HIDE DEF r, m
<1>6. \A i \in DOMAIN r : i + n \in DOMAIN s /\ r[i] = s[i + n] /\ i + n > n
  BY <1>1, <1>2, <1>3
<1>7. Items(r) \subseteq Items(s)
  BY <1>6 DEF Items
<1>8. ASSUME NEW i \in DOMAIN r, NEW j \in DOMAIN r, i < j PROVE Ahead(s, r[i], r[j])
  <2>1. i + n < j + n
    BY <1>1, <1>2, <1>8
  <2> QED BY <1>6, <2>1 DEF Ahead
<1>9. \A x, y : Ahead(r, x, y) => Ahead(s, x, y)
  BY <1>8 DEF Ahead
<1>10. ASSUME NEW i \in DOMAIN s, i > n PROVE s[i] \in Items(r)
  <2>1. i - n \in DOMAIN r /\ (i - n) + n = i
    BY <1>1, <1>2, <1>10
  <2>2. r[i - n] = s[i]
    BY <1>6, <2>1
  <2> QED BY <2>1, <2>2 DEF Items
<1>11. \A i \in 1..n : i \in DOMAIN s
  BY <1>1
<1>12. ASSUME NEW i \in 1..n, NEW j \in DOMAIN r PROVE Ahead(s, s[i], r[j])
  <2>1. i < j + n
    BY <1>1, <1>2
  <2> QED BY <1>6, <1>11, <2>1 DEF Ahead
<1>13. \A i \in 1..n, y \in Items(r) : Ahead(s, s[i], y)
  BY <1>12 DEF Items
<1> QED BY <1>2, <1>4, <1>5, <1>7, <1>9, <1>10, <1>11, <1>13 DEF r, m

\* Of what is held at the input the first n messages are answered.
LEMMA InputAnswers ==
    ASSUME ChainInv, NEW k \in Codecs, NEW T, NEW n \in 0..Len(codec[k].in),
           NEW f \in [1..n -> {0, 1}]
    PROVE  LET s == [i \in 1..n |-> Answered(codec[k].in[i], f[i])] IN
           /\ s \in Seq(OutType) /\ Plain(k, T, s)
           /\ \A y \in Items(s) : /\ y.to = App => y.msg \in {Msg(k, "in"), Msg(k, "eos")}
                                  /\ \E z \in Items(codec[k].in) : y.msg = z.msg
           /\ \A x, y : Ahead(s, x, y) /\ IsControl(x) => ~Of(y, x.msg.of)
           /\ \A x \in Items(s), y \in Items(SubSeq(codec[k].in, n + 1, Len(codec[k].in))) :
                IsControl(x) => ~Of(y, x.msg.of)
<1> DEFINE t == codec[k].in
           s == [i \in 1..n |-> Answered(t[i], f[i])]
           r == SubSeq(t, n + 1, Len(t))
<1>1. t \in Seq(ItemType) /\ n \in 0..Len(t)
  BY DEF ChainInv, TypeInv, CodecType
<1>2. \A x, y : Ahead(t, x, y) /\ IsControl(x) => ~Of(y, x.msg.of)
  <2> SUFFICES ASSUME NEW x, NEW y, Ahead(t, x, y), IsControl(x), Of(y, x.msg.of) PROVE FALSE
    OBVIOUS
  <2>1. x \in Items(t) /\ y \in Items(t)
    BY DEF Ahead, Items
  <2>2. x.to = k /\ y.to = k
    BY <2>1 DEF ChainInv, PoolInv, PlaceInv, InputPlace
  <2> QED BY <2>2 DEF ChainInv, PoolInv, ClosedInv, Closed
<1> HIDE DEF t
<1>3. /\ \A i \in 1..n : i \in DOMAIN t
      /\ \A i \in 1..n, y \in Items(r) : Ahead(t, t[i], y)
  BY <1>1, Divided
<1>4. ASSUME NEW i \in 1..n
      PROVE  /\ t[i] \in Items(t) /\ s[i] \in OutType /\ s[i].msg = t[i].msg
             /\ AppReply(k, s[i]) \/ Reply(k, T, s[i])
             /\ s[i].to = App => s[i].msg \in {Msg(k, "in"), Msg(k, "eos")}
  <2>1. t[i] \in Items(t) /\ f[i] \in {0, 1}
    BY <1>3 DEF Items
  <2> DEFINE z == t[i]
             len == f[i]
  <2>2. z \in Items(codec[k].in) /\ len \in {0, 1}
    BY <2>1 DEF t
  <2>3. s[i] = Answered(z, len)
    OBVIOUS
  <2> HIDE DEF z, len
  <2>4. LET y == Answered(z, len) IN
        /\ y \in OutType /\ y.msg = z.msg /\ y.len = len
        /\ AppReply(k, y) \/ Reply(k, T, y)
        /\ y.to = App => y.msg \in {Msg(k, "in"), Msg(k, "eos")}
    BY <2>2, InputAnswered
  <2> QED BY <2>1, <2>3, <2>4 DEF z
<1>5. DOMAIN s = 1..n
  OBVIOUS
<1>6. s \in Seq(OutType)
  BY <1>1, <1>4
<1> HIDE DEF s
<1>7. \A y \in Items(s) : \E i \in 1..n : y = s[i]
  BY <1>5 DEF Items
<1>8. Plain(k, T, s)
  BY <1>4, <1>7 DEF Plain
<1>9. \A y \in Items(s) : /\ y.to = App => y.msg \in {Msg(k, "in"), Msg(k, "eos")}
                          /\ \E z \in Items(t) : y.msg = z.msg
  BY <1>4, <1>7
<1>10. ASSUME NEW i \in 1..n, NEW j \in 1..n, i < j, IsControl(s[i]) PROVE ~Of(s[j], s[i].msg.of)
  <2>1. Ahead(t, t[i], t[j])
    BY <1>3, <1>10 DEF Ahead
  <2>2. IsControl(t[i])
    BY <1>4, <1>10 DEF IsControl
  <2>3. ~Of(t[j], t[i].msg.of)
    BY <1>2, <2>1, <2>2
  <2> QED BY <1>4, <2>3 DEF Of
<1>11. \A x, y : Ahead(s, x, y) /\ IsControl(x) => ~Of(y, x.msg.of)
  BY <1>5, <1>10 DEF Ahead
<1>12. ASSUME NEW i \in 1..n, NEW y \in Items(r), IsControl(s[i]) PROVE ~Of(y, s[i].msg.of)
  <2>1. Ahead(t, t[i], y) /\ IsControl(t[i])
    BY <1>3, <1>4, <1>12 DEF IsControl
  <2>2. ~Of(y, t[i].msg.of)
    BY <1>2, <2>1
  <2> QED BY <1>4, <2>2
<1>13. \A x \in Items(s), y \in Items(r) : IsControl(x) => ~Of(y, x.msg.of)
  BY <1>7, <1>12
<1> QED BY <1>6, <1>8, <1>9, <1>11, <1>13 DEF s, t

-----------------------------------------------------------------------------
(* The handlers.                                                           *)

\* What a running component is given is a message for it.
LEMMA GetsServes ==
    ASSUME NEW k \in Codecs, NEW op, NEW x \in Gets(k, op)
    PROVE  Serves(k, x) /\ codec[k].mode = "running" /\ x.op = op
BY DEF Gets, Given, Serves, Gone

\* What the application's messages are.
LEMMA AppMsgFacts ==
    /\ \A k \in Codecs : /\ Msg(k, "start") # Cmd /\ Msg(k, "in") # Cmd /\ Msg(k, "eos") # Cmd /\ Msg(k, "out") # Cmd
                         /\ Msg(k, "in") # Msg(k, "start") /\ Msg(k, "eos") # Msg(k, "start")
                         /\ Msg(k, "out") # Msg(k, "start")
    /\ \A m : FromPool(m) => m # Cmd /\ m.what \notin {"start", "in", "eos", "out"}
    /\ \A k \in Sinks : Msg(k, "out") \in AppMsgs
    /\ \A x : IsControl(x) => FromPool(x.msg)
<1>1. \A k, what : Msg(k, what).what = what
  BY MsgFacts
<1>2. Cmd.what = "cmd"
  BY MsgFacts
<1>3. \A m : FromPool(m) => m.what \notin {"start", "in", "eos", "out", "cmd"}
  BY NamesAssumption DEF FromPool, Pool
<1>4. \A k \in Sinks : Msg(k, "out") \in AppMsgs
  BY DEF AppMsgs
<1>5. \A x : IsControl(x) => FromPool(x.msg)
  BY DEF IsControl, FromPool, Pool
<1>6. /\ "start" # "cmd" /\ "in" # "cmd" /\ "eos" # "cmd" /\ "out" # "cmd"
      /\ "in" # "start" /\ "eos" # "start" /\ "out" # "start"
  OBVIOUS
<1>7. \A k \in Codecs : /\ Msg(k, "start") # Cmd /\ Msg(k, "in") # Cmd /\ Msg(k, "eos") # Cmd /\ Msg(k, "out") # Cmd
                        /\ Msg(k, "in") # Msg(k, "start") /\ Msg(k, "eos") # Msg(k, "start")
                        /\ Msg(k, "out") # Msg(k, "start")
  BY <1>1, <1>2, <1>6
<1> QED BY <1>2, <1>3, <1>4, <1>5, <1>7

\* Another input queue and other flags of it.
Put(c, s, F) == [c EXCEPT !.in = s, !.iflags = F]

\* What that leaves alone.
LEMMA PutFields ==
    ASSUME NEW k \in Codecs, NEW c \in CodecType(k), NEW s \in Seq(ItemType), NEW F \in SUBSET Flags.in
    PROVE  /\ Put(c, s, F) \in CodecType(k) /\ SameMode(c, Put(c, s, F)) /\ SameTask(c, Put(c, s, F))
           /\ SameOut(c, Put(c, s, F))
           /\ Put(c, s, F).in = s /\ Put(c, s, F).iflags = F
BY DEF CodecType, SameMode, SameTask, SameOut, Put

\* An input that holds a flush passed on gets nothing else.
LEMMA NothingAfterFlush ==
    ASSUME ChainInv, NEW k \in Codecs, NEW x, Serves(k, x), ~Of(x, k), x.op \in {"empty", "flush"}
    PROVE  /\ ~Purging(codec[k])
           /\ FromPool(x.msg) => \A y \in Items(codec[k].in) : ~IsControl(y)
<1> DEFINE s == codec[k].in
<1>1. ~Gone(k)
  BY DEF Serves
<1>2. s \in Seq(ItemType) /\ InputOk(codec[k])
  BY <1>1, Mine DEF CompOk
<1>3. ASSUME NEW y \in Items(s), IsControl(y) PROVE ~FromPool(x.msg) /\ k \notin Sources
  <2>1. y \in ItemType
    BY <1>2, SeqFacts
  <2>2. InputPlace(k, y) /\ FromPool(y.msg)
    BY <1>3, AppMsgFacts DEF ChainInv, PoolInv, PlaceInv
  <2>3. y.msg.of \in Codecs /\ Routed(codec[y.msg.of]) /\ RouteOf(y.msg.of) = k
    BY <2>1, <2>2, ItemFacts, MsgFacts DEF InputPlace
  <2> DEFINE e == <<y.msg.of, k>>
  <2>4. e \in Edges /\ conn[y.msg.of] = k
    BY <2>3 DEF ChainInv, PoolInv, RouteInv, ConnInv
  <2>5. e[2] \notin Sources
    BY <2>4, SourceAssumption
  <2>6. FromPool(x.msg) => FALSE
    <3> SUFFICES ASSUME FromPool(x.msg) PROVE FALSE
      OBVIOUS
    <3>1. IsForth(x) /\ x.msg.of \in Codecs /\ Routed(codec[x.msg.of]) /\ RouteOf(x.msg.of) = k
      BY ServedKinds
    <3>2. conn[x.msg.of] = k
      BY <3>1 DEF ChainInv, ConnInv
    <3>3. x.msg.of = y.msg.of
      BY <2>3, <2>4, <3>1, <3>2, AppAssumption DEF ChainInv, ConnInv
    <3> QED BY <1>3, <3>1, <3>3 DEF Of, ChainInv, PoolInv, NoneBehind
  <2> QED BY <2>5, <2>6
<1>4. ~Purging(codec[k])
  <2> SUFFICES ASSUME Purging(codec[k]) PROVE FALSE
    OBVIOUS
  <2>1. PICK y \in Items(s) : y.op = "flush"
    BY <1>2 DEF InputOk
  <2>2. InputPlace(k, y)
    BY DEF ChainInv, PoolInv, PlaceInv
  <2>3. IsControl(y)
    BY <2>1, <2>2 DEF InputPlace, ForthKind
  <2>4. ~FromPool(x.msg) /\ k \notin Sources
    BY <1>3, <2>3
  <2>5. AppKind(x) /\ x.to = k
    BY <2>4, ServedKinds
  <2> QED BY <2>4, <2>5, AppMsgFacts DEF AppKind
<1> QED BY <1>3, <1>4

\* The answer to what is given.
LEMMA GivenAnswered ==
    ASSUME ChainInv, NEW k \in Codecs, NEW x, Serves(k, x), ~Of(x, k), NEW T, x \in T, NEW len \in {0, 1}
    PROVE  LET y == Answered(x, len) IN
           /\ y \in OutType /\ y.msg = x.msg /\ y.len = len
           /\ AppReply(k, y) \/ Reply(k, T, y)
           /\ (y.to = App) <=> ~FromPool(x.msg)
<1> DEFINE y == Answered(x, len)
<1>1. len \in Lens /\ len # Invalid
  BY DEF Lens, Invalid
<1>2. x \in ItemType /\ x \in OutType /\ x.to = k /\ x.msg \in AllMsgs
  BY ServedKinds, ItemFacts
<1>3. /\ y \in OutType /\ y.msg = x.msg /\ y.len = len
      /\ y.to = IF FromPool(x.msg) THEN x.msg.of ELSE App
      /\ y.op = IF x.op = "empty" /\ FromPool(x.msg) THEN "fill" ELSE x.op
  BY <1>1, <1>2, AnswerFacts
<1> HIDE DEF y
<1>4. CASE FromPool(x.msg)
  <2>1. ForthKind(x) /\ x.msg.of \in Codecs /\ x.msg.of # k
    BY <1>4, ServedKinds
  <2>2. Reply(k, T, y)
    BY <1>1, <1>3, <1>4, <2>1 DEF Reply, IsBack, BackOp, IsControl, ForthKind
  <2> QED BY <1>3, <1>4, <2>1, <2>2, AppAssumption DEF y
<1>5. CASE ~FromPool(x.msg)
  <2>1. AppKind(x)
    BY <1>5, ServedKinds
  <2>2. x.msg \in AppMsgs
    BY <1>2, <1>5, MsgFacts
  <2>3. x.msg = Cmd \/ x.msg.of = k
    BY <1>2, <2>1, MsgFacts DEF AppKind
  <2> QED BY <1>3, <1>5, <2>2, <2>3 DEF y, AppReply
<1> QED BY <1>4, <1>5

\* Nothing sent, or one answer.
LEMMA NothingSent ==
    ASSUME NEW k \in Codecs, NEW T, NEW d
    PROVE  /\ <<>> \in Seq(OutType) /\ Plain(k, T, <<>>) /\ OutOk(k, T, d, <<>>)
           /\ \A m : ~ToApp(<<>>, m)
BY EmptyItems DEF Plain, OutOk, ToApp

\* One answer is sent.
LEMMA OneReplied ==
    ASSUME NEW k \in Codecs, NEW T, NEW d, NEW y \in OutType, AppReply(k, y) \/ Reply(k, T, y),
           \A z \in Items(d.in) : IsControl(y) => ~Of(z, y.msg.of)
    PROVE  /\ <<y>> \in Seq(OutType) /\ Plain(k, T, <<y>>) /\ OutOk(k, T, d, <<y>>)
           /\ \A m : ToApp(<<y>>, m) <=> (y.to = App /\ y.msg = m)
<1> DEFINE out == <<y>>
<1>1. out \in Seq(OutType) /\ Items(out) = {y} /\ \A a, b : ~Ahead(out, a, b)
  BY OneItem
<1> HIDE DEF out
<1>2. Plain(k, T, out)
  BY <1>1 DEF Plain
<1>3. \A z \in Items(out) : z.to = App \/ IsAnswer(k, T, d, z)
  BY <1>1, <1>2, PlainFacts
<1>4. OutOk(k, T, d, out)
  BY <1>1, <1>3 DEF OutOk
<1>5. \A m : ToApp(out, m) <=> (y.to = App /\ y.msg = m)
  BY <1>1 DEF ToApp
<1> QED BY <1>1, <1>2, <1>4, <1>5 DEF out

\* A port that is left as it is.
LEMMA PortLeft ==
    ASSUME ChainInv, NEW k \in Codecs, NEW T, NEW d, NEW out \in Seq(OutType), Plain(k, T, out),
           d.route = codec[k].route, d.oflags \ {"paused"} = codec[k].oflags \ {"paused"}
    PROVE  /\ PortKept(k, d) \/ PortDone(k, T, out)
           /\ d.route = RouteOf(k)
           /\ (Routed(d) <=> Routed(codec[k])) /\ (Unrouting(d) <=> Unrouting(codec[k]))
           /\ (Flushing(d) <=> Flushing(codec[k])) /\ ("idle" \in d.oflags <=> "idle" \in codec[k].oflags)
<1>1. \A what : what # "paused" => (what \in d.oflags <=> what \in codec[k].oflags)
  OBVIOUS
<1>2. /\ (Routed(d) <=> Routed(codec[k])) /\ (Unrouting(d) <=> Unrouting(codec[k]))
      /\ (Flushing(d) <=> Flushing(codec[k])) /\ ("idle" \in d.oflags <=> "idle" \in codec[k].oflags)
  BY <1>1 DEF Routed, Unrouting, Flushing
<1>3. Routed(codec[k]) => PortKept(k, d)
  <2>1. "flushing" \in codec[k].oflags => "flushing" \in d.oflags
    BY <1>1
  <2>2. d.route = RouteOf(k)
    BY DEF RouteOf
  <2> QED BY <1>2, <2>1, <2>2 DEF PortKept
<1>4. ~Routed(codec[k]) => PortDone(k, T, out)
  BY PlainFacts DEF PortDone
<1>5. d.route = RouteOf(k)
  BY DEF RouteOf
<1> QED BY <1>2, <1>3, <1>4, <1>5

\* What an input may hold after the step.
LEMMA InputKept ==
    ASSUME ChainInv, NEW k \in Codecs, NEW T, NEW d,
           Items(d.in) \subseteq Items(codec[k].in), \A x, y : Ahead(d.in, x, y) => Ahead(codec[k].in, x, y)
    PROVE  InOk(k, T, d)
<1> DEFINE t == codec[k].in
<1>1. \A x, y : Ahead(t, x, y) /\ IsControl(x) => ~Of(y, x.msg.of)
  <2> SUFFICES ASSUME NEW x, NEW y, Ahead(t, x, y), IsControl(x), Of(y, x.msg.of) PROVE FALSE
    OBVIOUS
  <2>1. x \in Items(t) /\ y \in Items(t)
    BY DEF Ahead, Items
  <2>2. x.to = k /\ y.to = k
    BY <2>1 DEF ChainInv, PoolInv, PlaceInv, InputPlace
  <2> QED BY <2>2 DEF ChainInv, PoolInv, ClosedInv, Closed
<1> QED BY <1>1 DEF InOk

\* A handler that leaves its port as it is and sends nothing down.
LEMMA QuietStep ==
    ASSUME ChainInv, NEW k \in Codecs, NEW x, Serves(k, x), NEW d \in CodecType(k), NEW out \in Seq(OutType),
           Becomes(k, d, out), CompOk(k, d),
           OutOk(k, {x}, d, out), InOk(k, {x}, d), Plain(k, {x}, out),
           d.mode = codec[k].mode, d.route = codec[k].route,
           d.oflags \ {"paused"} = codec[k].oflags \ {"paused"},
           (x.msg = Cmd) <=> ToApp(out, Cmd), x.msg = Cmd => x.op \notin {"route", "unroute"},
           StartOk(k, {x}, d, out),
           ~(IsScheduled(d) /\ Completed(d)), FlushAbroad(k) => FlushOk(d)
    PROVE  ChainInv'
<1> DEFINE T == {x}
           l == LocalLeft(WorkerOf[k])
           q == QueueLeft(WorkerOf[k])
<1>1. Steps(k, T, l, q, d, out) /\ Takes(k, T, l, q)
  BY ServesSteps, ServesOne
<1>2. HasMsg(T, Cmd) <=> x.msg = Cmd
  BY DEF HasMsg
<1>3. x.msg = Cmd => x = Item(k, Cmd, call.op, 0)
  BY <1>1, <1>2, CallFacts
<1>4. x.msg = Cmd => call.op \notin {"route", "unroute"}
  BY <1>3, ItemFacts
<1> HIDE DEF l, q
<1>5. AloneOk(k, l, d, out)
  BY DEF AloneOk
<1>6. OutOk(k, T, d, out) /\ InOk(k, T, d) /\ Plain(k, T, out) /\ StartOk(k, T, d, out)
  OBVIOUS
<1> HIDE DEF T
<1>7. AppOk(k, out) /\ LeadOk(k, l, out) /\ FlushStepOk(k, T, d, out)
  BY <1>6, PlainFacts
<1>8. /\ PortKept(k, d) \/ PortDone(k, T, out)
      /\ d.route = RouteOf(k)
      /\ (Routed(d) <=> Routed(codec[k])) /\ (Unrouting(d) <=> Unrouting(codec[k]))
  BY <1>6, PortLeft
<1>9. (HasMsg(T, Cmd) <=> ToApp(out, Cmd)) /\ (ToApp(out, Cmd) => call.op \notin {"route", "unroute"})
  BY <1>2, <1>4
<1> QED BY <1>1, <1>5, <1>6, <1>7, <1>8, <1>9, OrdinaryStep

\* xa_codec_empty_this_buffer
LEMMA EmptyStep == ASSUME ChainInv, NEW k \in Codecs, EmptyThisBuffer(k) PROVE ChainInv'
<1> DEFINE c == codec[k]
           T(x) == {x}
<1>1. PICK x \in Gets(k, "empty") :
        LET eos == x.len = 0
            put == [c EXCEPT !.in = Append(@, x),
                             !.iflags = IF eos THEN Toggled(@, {"enabled", "eos"}) ELSE @]
            live == IF "completed" \in c.state THEN Restarted(put) ELSE put
            first == IF OutReady(live) THEN Scheduled(live) ELSE live
        IN IF "enabled" \notin c.iflags THEN Becomes(k, c, <<Answered(x, 0)>>)
              ELSE Becomes(k, IF c.in = <<>> THEN first ELSE put, <<>>)
  BY DEF EmptyThisBuffer
<1>2. Serves(k, x) /\ c.mode = "running" /\ x.op = "empty" /\ ~Gone(k)
  BY GetsServes DEF Serves
<1>3. /\ c \in CodecType(k) /\ CompOk(k, c) /\ c.in \in Seq(ItemType) /\ c.iflags \in SUBSET Flags.in
      /\ c.out \in Seq(AllMsgs)
  BY <1>2, Mine
<1>4. ~Of(x, k) /\ x \in ItemType
  BY <1>2, ServedKinds DEF BackKind, BackOp
<1>5. x.msg # Cmd /\ x.msg # Msg(k, "start")
  <2>1. CASE FromPool(x.msg)
    BY <2>1, AppMsgFacts, MsgFacts
  <2>2. CASE ~FromPool(x.msg)
    <3>1. AppKind(x) /\ x.to = k
      BY <1>2, <2>2, ServedKinds
    <3> QED BY <1>2, <3>1, AppMsgFacts, MsgFacts DEF AppKind
  <2> QED BY <2>1, <2>2
<1>6. ~Purging(c) /\ (FromPool(x.msg) => \A y \in Items(c.in) : ~IsControl(y))
  BY <1>2, <1>4, NothingAfterFlush
<1>7. ~(IsScheduled(c) /\ Completed(c))
  BY <1>2, ServesOne
<1>8. ~HasMsg({x}, Msg(k, "start"))
  BY <1>5 DEF HasMsg
<1>9. FlushAbroad(k) => FlushOk(c)
  BY DEF ChainInv, FlushInv
<1>10. CASE "enabled" \notin c.iflags
  <2> DEFINE y == Answered(x, 0)
  <2>1. Becomes(k, c, <<y>>)
    BY <1>1, <1>10
  <2>2. /\ y \in OutType /\ y.msg = x.msg /\ (AppReply(k, y) \/ Reply(k, {x}, y))
    BY <1>2, <1>4, GivenAnswered
  <2> HIDE DEF y
  <2>3. \A z \in Items(c.in) : IsControl(y) => ~Of(z, y.msg.of)
    <3> SUFFICES ASSUME IsControl(y), NEW z \in Items(c.in), Of(z, y.msg.of) PROVE FALSE
      OBVIOUS
    <3>1. IsControl(x) /\ FromPool(x.msg)
      BY <2>2, AppMsgFacts DEF IsControl
    <3>2. k \notin Sources
      BY <1>2, <1>4, <3>1, ServedKinds
    <3>3. PICK z0 \in Items(c.in) : z0.op = "empty" /\ z0.len = 0
      BY <1>3, <1>10 DEF CompOk, InputOk
    <3>4. InputPlace(k, z0)
      BY DEF ChainInv, PoolInv, PlaceInv
    <3>5. CASE FromPool(z0.msg)
      <4>1. IsControl(z0)
        BY <3>3, <3>4, <3>5 DEF InputPlace, ForthKind
      <4> QED BY <1>6, <3>1, <3>3, <4>1
    <3>6. CASE ~FromPool(z0.msg)
      BY <3>2, <3>3, <3>4, <3>6 DEF InputPlace, AppKind
    <3> QED BY <3>5, <3>6
  <2>4. /\ <<y>> \in Seq(OutType) /\ Plain(k, {x}, <<y>>) /\ OutOk(k, {x}, c, <<y>>)
        /\ \A m : ToApp(<<y>>, m) <=> (y.to = App /\ y.msg = m)
    BY <2>2, <2>3, OneReplied
  <2>5. InOk(k, {x}, c)
    BY InputKept
  <2>6. ~ToApp(<<y>>, Cmd) /\ ~ToApp(<<y>>, Msg(k, "start"))
    BY <1>5, <2>2, <2>4
  <2>7. StartOk(k, {x}, c, <<y>>)
    BY <1>8, <2>6, NoStart
  <2> QED BY <1>2, <1>3, <1>5, <1>7, <1>9, <2>1, <2>4, <2>5, <2>6, <2>7, QuietStep
<1>11. CASE "enabled" \in c.iflags
  <2> DEFINE s == Append(c.in, x)
             F == IF x.len = 0 THEN Toggled(c.iflags, {"enabled", "eos"}) ELSE c.iflags
             put == [c EXCEPT !.in = s, !.iflags = F]
             live == IF Completed(c) THEN Restarted(put) ELSE put
             first == IF OutReady(live) THEN Scheduled(live) ELSE live
             d == IF c.in = <<>> THEN first ELSE put
  <2>1. Becomes(k, d, <<>>)
    BY <1>1, <1>11 DEF Completed
  <2>2. s \in Seq(ItemType) /\ F \in SUBSET Flags.in
    BY <1>3, <1>4 DEF Toggled, Flags
  <2>3. /\ Items(s) = Items(c.in) \cup {x}
        /\ \A a, b : Ahead(s, a, b) => Ahead(c.in, a, b) \/ (a \in Items(c.in) /\ b = x)
        /\ s # <<>>
    <3> DEFINE t == c.in
    <3>1. t \in Seq(ItemType)
      BY <1>3
    <3> HIDE DEF t
    <3>2. /\ Append(t, x) # <<>> /\ Items(Append(t, x)) = Items(t) \cup {x}
          /\ \A a, b : Ahead(Append(t, x), a, b) => Ahead(t, a, b) \/ (a \in Items(t) /\ b = x)
      BY <1>4, <3>1, Appended
    <3> QED BY <3>2 DEF t
  <2>4. ("purging" \in F <=> Purging(c)) /\ ("enabled" \in F \/ x.len = 0)
    BY <1>11 DEF Toggled, Purging
  <2> HIDE DEF s, F
  <2>5. /\ put \in CodecType(k) /\ SameMode(c, put) /\ SameTask(c, put) /\ SameOut(c, put)
        /\ put.in = s /\ put.iflags = F
    <3> DEFINE e == Put(c, s, F)
    <3>1. /\ e \in CodecType(k) /\ SameMode(c, e) /\ SameTask(c, e) /\ SameOut(c, e)
          /\ e.in = s /\ e.iflags = F
      BY <1>3, <2>2, PutFields
    <3>2. put = e
      BY DEF Put
    <3> HIDE DEF e, put
    <3> QED BY <3>1, <3>2
  <2> HIDE DEF put
  <2>6. /\ live \in CodecType(k) /\ SameMode(c, live) /\ SameOut(c, live)
        /\ live.in = s /\ live.iflags = F /\ live.tree = c.tree
        /\ live.state = IF Completed(c) THEN {"execution"} ELSE c.state
    <3>1. CASE Completed(c)
      <4>1. /\ Restarted(put) \in CodecType(k) /\ SameMode(put, Restarted(put)) /\ SameIn(put, Restarted(put))
            /\ SameOut(put, Restarted(put)) /\ Restarted(put).state = {"execution"}
            /\ Restarted(put).tree = put.tree
        BY <2>5, RestartedFields
      <4> QED BY <2>5, <3>1, <4>1 DEF SameMode, SameTask, SameOut, SameIn
    <3>2. CASE ~Completed(c)
      BY <2>5, <3>2 DEF SameTask
    <3> QED BY <3>1, <3>2
  <2> HIDE DEF live
  <2>7. /\ first \in CodecType(k) /\ SameMode(c, first) /\ SameOut(c, first)
        /\ first.in = s /\ first.iflags = F
        /\ \/ first.state = live.state /\ first.tree = live.tree
           \/ /\ OutReady(live) /\ first.state = live.state \cup {"schedule"}
              /\ first.tree = IF "schedule" \in live.state THEN live.tree ELSE live.tree + 1
    <3>1. CASE OutReady(live)
      <4>1. LET e == Scheduled(live) IN
            /\ e \in CodecType(k) /\ SameMode(live, e) /\ SameIn(live, e) /\ SameOut(live, e)
            /\ e.state = live.state \cup {"schedule"}
            /\ e.tree = IF "schedule" \in live.state THEN live.tree ELSE live.tree + 1
        BY <2>6, ScheduledFields
      <4> QED BY <2>6, <3>1, <4>1 DEF SameMode, SameOut, SameIn
    <3>2. CASE ~OutReady(live)
      BY <2>6, <3>2
    <3> QED BY <3>1, <3>2
  <2> HIDE DEF first
  <2>8. d \in CodecType(k) /\ SameMode(c, d) /\ SameOut(c, d) /\ d.in = s /\ d.iflags = F
    BY <2>5, <2>7
  <2>9. TaskOk(k, c) /\ InputOk(c) /\ OutputOk(k, c)
    BY <1>3 DEF CompOk
  <2>10. /\ Initial(d) <=> Initial(c)
         /\ TaskOk(k, d)
         /\ ~(IsScheduled(d) /\ Completed(d))
         /\ Completed(d) => Completed(c) /\ c.in # <<>>
    <3>1. CASE c.in # <<>>
      <4>1. d.state = c.state /\ d.tree = c.tree
        BY <2>5, <3>1 DEF SameTask
      <4> QED BY <1>7, <2>8, <2>9, <3>1, <4>1 DEF TaskOk, OnePhase, Initial, Completed, IsScheduled, Flushing,
                 Routed, SameMode, SameOut
    <3>2. CASE c.in = <<>> /\ Completed(c)
      <4>1. c.tree = 0 /\ ~Initial(c) /\ c.prepared
        BY <1>7, <2>9, <3>2 DEF TaskOk, OnePhase
      <4>2. d.state \in {{"execution"}, {"execution", "schedule"}}
        BY <2>6, <2>7, <3>2
      <4>3. d.tree = IF IsScheduled(d) THEN 1 ELSE 0
        BY <2>6, <2>7, <3>2, <4>1 DEF IsScheduled
      <4>4. IsScheduled(d) => d.out # <<>> /\ ~Flushing(d)
        BY <2>6, <2>7, <3>2 DEF IsScheduled, Flushing, OutReady, SameOut
      <4>5. ~Initial(d) /\ ~Completed(d) /\ "execution" \in d.state /\ "eos_seq_done" \notin d.state
        BY <4>2 DEF Initial, Completed
      <4> QED BY <2>8, <4>1, <4>3, <4>4, <4>5 DEF TaskOk, OnePhase, SameMode
    <3>3. CASE c.in = <<>> /\ ~Completed(c)
      <4>1. d.state \in {c.state, c.state \cup {"schedule"}}
        BY <2>6, <2>7, <3>3
      <4>2. d.tree = IF IsScheduled(d) THEN 1 ELSE 0
        BY <2>6, <2>7, <2>9, <3>3 DEF IsScheduled, TaskOk
      <4>3. IsScheduled(d) => d.out # <<>> /\ ~Flushing(d)
        BY <2>6, <2>7, <2>9, <3>3 DEF IsScheduled, Flushing, OutReady, SameOut, TaskOk
      <4>4. /\ Initial(d) <=> Initial(c)
            /\ ~Completed(d) /\ OnePhase(d) /\ ("eos_seq_done" \in d.state => "eos_seq_done" \in c.state)
        BY <2>9, <3>3, <4>1 DEF TaskOk, OnePhase, Initial, Completed
      <4> QED BY <2>8, <2>9, <4>2, <4>3, <4>4 DEF TaskOk, SameMode, SameOut
    <3> QED BY <3>1, <3>2, <3>3
  <2> HIDE DEF d
  <2>11. InputOk(d)
    <3>1. ~Purging(d) /\ d.mode = "running"
      BY <1>2, <1>6, <2>4, <2>8 DEF Purging, SameMode
    <3>2. \A z \in Items(s) : z.op = "empty"
      BY <1>2, <1>6, <2>3, <2>9 DEF InputOk
    <3>3. "enabled" \in d.iflags \/ \E z \in Items(d.in) : z.op = "empty" /\ z.len = 0
      BY <1>2, <2>3, <2>4, <2>8
    <3> QED BY <2>8, <3>1, <3>2, <3>3 DEF InputOk
  <2>12. OutputOk(k, d)
    BY <2>8, <2>9, <2>10 DEF OutputOk, Routed, Flushing, Unrouting, SameOut, SameMode
  <2>13. CompOk(k, d)
    BY <2>10, <2>11, <2>12 DEF CompOk
  <2>14. InOk(k, {x}, d)
    <3>1. \A y \in Items(d.in) : y \in Items(c.in)
            \/ (y \in {x} /\ ~Of(y, k) /\ (~FromPool(y.msg) => y.op = "empty"))
      BY <1>2, <1>4, <2>3, <2>8
    <3>2. ASSUME NEW a, NEW b, Ahead(d.in, a, b), IsControl(a) PROVE ~Of(b, a.msg.of)
      <4>1. CASE Ahead(c.in, a, b)
        BY <3>2, <4>1, InputKept DEF InOk
      <4>2. CASE a \in Items(c.in) /\ b = x
        BY <1>6, <3>2, <4>2 DEF Of
      <4> QED BY <2>3, <2>8, <3>2, <4>1, <4>2
    <3> QED BY <3>1, <3>2 DEF InOk
  <2>15. /\ <<>> \in Seq(OutType) /\ Plain(k, {x}, <<>>) /\ OutOk(k, {x}, d, <<>>)
         /\ \A m : ~ToApp(<<>>, m)
    BY NothingSent
  <2>16. StartOk(k, {x}, d, <<>>)
    BY <1>8, <2>8, <2>10, <2>15, NoStart DEF SameOut
  <2>17. FlushAbroad(k) => FlushOk(d)
    BY <1>6, <1>9, <2>4, <2>8, <2>10 DEF FlushOk, Waiting, Unrouting, Purging, SameMode, SameOut
  <2> QED BY <1>2, <1>5, <2>1, <2>8, <2>10, <2>13, <2>14, <2>15, <2>16, <2>17, QuietStep DEF SameMode, SameOut
<1> QED BY <1>10, <1>11

\* Other buffers at the output.
PutOut(c, s) == [c EXCEPT !.out = s]

\* What that leaves alone.
LEMMA PutOutFields ==
    ASSUME NEW k \in Codecs, NEW c \in CodecType(k), NEW s \in Seq(AllMsgs)
    PROVE  /\ PutOut(c, s) \in CodecType(k) /\ SameMode(c, PutOut(c, s)) /\ SameTask(c, PutOut(c, s))
           /\ SameIn(c, PutOut(c, s)) /\ PutOut(c, s).out = s
           /\ PutOut(c, s).oflags = c.oflags /\ PutOut(c, s).route = c.route
BY DEF CodecType, SameMode, SameTask, SameIn, PutOut

\* What a component is given to fill.
LEMMA FillKinds ==
    ASSUME ChainInv, NEW k \in Codecs, NEW x, Serves(k, x), x.op = "fill"
    PROVE  /\ x.msg \in AllMsgs /\ x.msg # Cmd
           /\ Initial(codec[k]) => x.msg = Msg(k, "start") /\ codec[k].out = <<>>
           /\ ~Initial(codec[k]) => x.msg # Msg(k, "start")
           /\ ~Initial(codec[k]) /\ Routed(codec[k]) =>
                Of(x, k) /\ BackKind(x) /\ (x.msg # Control(k) => x.msg \in {Msg(k, what) : what \in Bufs})
           /\ ~Initial(codec[k]) /\ ~Routed(codec[k]) => x.msg = Msg(k, "out") /\ k \in Sinks /\ x.len = 1
<1> DEFINE c == codec[k]
<1>1. ~Gone(k) /\ x.to = k /\ x \in ItemType
  BY ServedKinds DEF Serves
<1>2. x.msg \in AllMsgs
  BY <1>1, ItemFacts
<1>3. OutputOk(k, c) /\ (k \in ready <=> ~Initial(c)) /\ (Routed(c) => k \notin Sinks)
  BY <1>1, Mine DEF CompOk
<1>4. CASE FromPool(x.msg)
  <2>1. Of(x, k)
    BY <1>4, ServedKinds DEF ForthKind
  <2>2. Routed(c) /\ BackKind(x)
    BY <2>1, ServedKinds
  <2>3. ~Initial(c)
    BY <1>3, <2>2 DEF OutputOk
  <2>4. x.msg.of = k /\ x.msg.what \in Pool /\ x.msg = Msg(k, x.msg.what)
    BY <1>2, <1>4, <2>1, MsgFacts DEF Of
  <2>5. x.msg # Control(k) => x.msg \in {Msg(k, what) : what \in Bufs}
    BY <2>4, MsgFacts DEF Pool
  <2>6. x.msg # Cmd /\ x.msg # Msg(k, "start")
    BY <1>4, AppMsgFacts, MsgFacts
  <2> QED BY <1>2, <2>1, <2>2, <2>3, <2>5, <2>6
<1>5. CASE ~FromPool(x.msg)
  <2>1. AppKind(x) /\ Queued(x)
    BY <1>5, ServedKinds
  <2>2. \/ x.msg = Msg(k, "start")
        \/ x.msg = Msg(k, "out") /\ k \in Sinks /\ k \in ready /\ x.len = 1
    BY <1>1, <2>1 DEF AppKind
  <2>3. x.msg = Msg(k, "start") => k \notin ready /\ c.out = <<>>
    <3>1. x.msg = Msg(k, "start") => IsStart(x)
      BY MsgFacts DEF IsStart
    <3> QED BY <1>1, <2>1, <3>1 DEF ChainInv, StartInv
  <2>4. x.msg # Cmd
    BY <2>2, AppMsgFacts
  <2> QED BY <1>2, <1>3, <2>2, <2>3, <2>4, AppMsgFacts
<1> QED BY <1>4, <1>5

\* A buffer kept at the output.
LEMMA ReceivedStep ==
    ASSUME ChainInv, NEW k \in Codecs, NEW x, Serves(k, x), codec[k].mode = "running", x.op = "fill",
           OutputReceived(k, x),
           \/ Initial(codec[k])
           \/ /\ x.msg # Control(k)
              /\ Completed(codec[k]) /\ ~Routed(codec[k]) => "eos_seq_done" \in codec[k].state
    PROVE  ChainInv'
<1> DEFINE c == codec[k]
           live == IF ~Initial(c) /\ "eos_seq_done" \in c.state THEN Restarted(c) ELSE c
           s == Append(live.out, x.msg)
           put == PutOut(live, s)
           due == /\ c.out = <<>>
                  /\ InReady(put) \/ (Initial(c) /\ k \notin Decoders)
                  /\ put.state \cap {"runtime_init", "execution"} # {}
                  /\ OutReady(put)
           d == IF due THEN Scheduled(put) ELSE put
<1>1. ~Gone(k)
  BY DEF Serves
<1>2. /\ c \in CodecType(k) /\ TaskOk(k, c) /\ InputOk(c) /\ OutputOk(k, c) /\ c.out \in Seq(AllMsgs)
      /\ (Routed(c) => k \notin Sinks)
  BY <1>1, Mine DEF CompOk
<1>3. /\ x.msg \in AllMsgs /\ x.msg # Cmd
      /\ Initial(c) => x.msg = Msg(k, "start") /\ c.out = <<>>
      /\ ~Initial(c) => x.msg # Msg(k, "start")
      /\ ~Initial(c) /\ Routed(c) => (x.msg # Control(k) => x.msg \in {Msg(k, what) : what \in Bufs})
      /\ ~Initial(c) /\ ~Routed(c) => x.msg = Msg(k, "out") /\ k \in Sinks
  BY FillKinds
<1>4. ~(IsScheduled(c) /\ Completed(c))
  BY ServesOne
<1>5. /\ live \in CodecType(k) /\ SameMode(c, live) /\ SameIn(c, live) /\ SameOut(c, live)
      /\ live.tree = c.tree
      /\ live.state = IF ~Initial(c) /\ "eos_seq_done" \in c.state THEN {"execution"} ELSE c.state
  <2>1. CASE ~Initial(c) /\ "eos_seq_done" \in c.state
    <3> DEFINE e == Restarted(c)
    <3>1. /\ e \in CodecType(k) /\ SameMode(c, e) /\ SameIn(c, e) /\ SameOut(c, e)
          /\ e.state = {"execution"} /\ e.tree = c.tree
      BY <1>2, RestartedFields
    <3> HIDE DEF e
    <3>2. live = e
      BY <2>1 DEF e
    <3> QED BY <2>1, <3>1, <3>2
  <2>2. CASE ~(~Initial(c) /\ "eos_seq_done" \in c.state)
    BY <1>2, <2>2 DEF SameMode, SameIn, SameOut
  <2> QED BY <2>1, <2>2
<1>6. s \in Seq(AllMsgs) /\ s # <<>> /\ Items(s) = Items(c.out) \cup {x.msg} /\ (c.out = <<>> => s = <<x.msg>>)
  <2> DEFINE t == c.out
             m == x.msg
  <2>1. t \in Seq(AllMsgs) /\ m \in AllMsgs
    BY <1>2, <1>3
  <2> HIDE DEF t, m, live
  <2>2. Append(t, m) \in Seq(AllMsgs) /\ Append(t, m) # <<>> /\ Items(Append(t, m)) = Items(t) \cup {m}
    BY <2>1, Appended
  <2>3. t = <<>> => Append(t, m) = <<m>>
    OBVIOUS
  <2>4. s = Append(t, m)
    BY <1>5 DEF SameOut, t, m
  <2> QED BY <2>2, <2>3, <2>4 DEF t, m
<1>7. Becomes(k, d, <<>>)
  BY DEF OutputReceived, PutOut, Initial
<1> HIDE DEF live
<1>8. /\ put \in CodecType(k) /\ SameMode(live, put) /\ SameTask(live, put) /\ SameIn(live, put) /\ put.out = s
      /\ put.oflags = live.oflags /\ put.route = live.route
  BY <1>5, <1>6, PutOutFields
<1> HIDE DEF put
<1>9. /\ d \in CodecType(k) /\ SameMode(put, d) /\ SameIn(put, d) /\ SameOut(put, d)
      /\ \/ d.state = put.state /\ d.tree = put.tree
         \/ /\ put.state \cap {"runtime_init", "execution"} # {} /\ OutReady(put)
            /\ d.state = put.state \cup {"schedule"}
            /\ d.tree = IF "schedule" \in put.state THEN put.tree ELSE put.tree + 1
  <2>1. CASE due
    <3> DEFINE e == Scheduled(put)
    <3>1. /\ e \in CodecType(k) /\ SameMode(put, e) /\ SameIn(put, e) /\ SameOut(put, e)
          /\ e.state = put.state \cup {"schedule"}
          /\ e.tree = IF "schedule" \in put.state THEN put.tree ELSE put.tree + 1
      BY <1>8, ScheduledFields
    <3> HIDE DEF e
    <3>2. d = e
      BY <2>1 DEF e
    <3> QED BY <2>1, <3>1, <3>2
  <2>2. CASE ~due
    BY <1>8, <2>2 DEF SameMode, SameIn, SameOut
  <2> QED BY <2>1, <2>2
<1> HIDE DEF d, due, s
<1>10. /\ d.mode = c.mode /\ d.prepared = c.prepared /\ d.in = c.in /\ d.iflags = c.iflags
       /\ d.out = s /\ d.oflags = c.oflags /\ d.route = c.route
  BY <1>5, <1>8, <1>9 DEF SameMode, SameIn, SameOut
<1>11. (Initial(d) <=> Initial(c)) /\ OnePhase(d) /\ "eos_seq_done" \notin d.state
       /\ (Completed(d) => Completed(c) /\ "eos_seq_done" \notin c.state)
  <2>1. live.state = put.state /\ d.state \in {put.state, put.state \cup {"schedule"}}
    BY <1>8, <1>9 DEF SameTask
  <2>2. CASE ~Initial(c) /\ "eos_seq_done" \in c.state
    <3>1. d.state \in {{"execution"}, {"execution", "schedule"}}
      BY <1>5, <2>1, <2>2
    <3> QED BY <2>2, <3>1 DEF Initial, Completed, OnePhase
  <2>3. CASE ~(~Initial(c) /\ "eos_seq_done" \in c.state)
    <3>1. d.state \in {c.state, c.state \cup {"schedule"}}
      BY <1>5, <2>1, <2>3
    <3>2. "eos_seq_done" \notin c.state
      BY <1>2, <2>3 DEF TaskOk
    <3> QED BY <1>2, <3>1, <3>2 DEF Initial, Completed, OnePhase, TaskOk
  <2> QED BY <2>2, <2>3
<1>12. /\ d.tree = IF IsScheduled(d) THEN 1 ELSE 0
       /\ IsScheduled(d) => ~Flushing(d)
       /\ ~(IsScheduled(d) /\ Completed(d))
  <2>1. "eos_seq_done" \in c.state => ~IsScheduled(c)
    BY <1>2 DEF TaskOk
  <2>2. /\ put.tree = IF IsScheduled(put) THEN 1 ELSE 0
        /\ IsScheduled(put) => IsScheduled(c) /\ ~Completed(put)
    <3>1. CASE ~Initial(c) /\ "eos_seq_done" \in c.state
      <4>1. put.state = {"execution"} /\ put.tree = c.tree
        BY <1>5, <1>8, <3>1 DEF SameTask
      <4>2. ~IsScheduled(put) /\ c.tree = 0
        BY <1>2, <2>1, <3>1, <4>1 DEF IsScheduled, TaskOk
      <4> QED BY <4>1, <4>2
    <3>2. CASE ~(~Initial(c) /\ "eos_seq_done" \in c.state)
      <4>1. put.state = c.state /\ put.tree = c.tree
        BY <1>5, <1>8, <3>2 DEF SameTask
      <4> QED BY <1>2, <1>4, <4>1 DEF IsScheduled, TaskOk, Completed
    <3> QED BY <3>1, <3>2
  <2>3. CASE d.state = put.state /\ d.tree = put.tree
    <3>1. IsScheduled(d) => ~Flushing(d)
      BY <1>2, <1>10, <2>2, <2>3 DEF IsScheduled, TaskOk, Flushing
    <3> QED BY <2>2, <2>3, <3>1 DEF IsScheduled, Completed
  <2>4. CASE /\ put.state \cap {"runtime_init", "execution"} # {} /\ OutReady(put)
             /\ d.state = put.state \cup {"schedule"}
             /\ d.tree = IF "schedule" \in put.state THEN put.tree ELSE put.tree + 1
    <3>1. d.tree = 1 /\ IsScheduled(d)
      BY <2>2, <2>4 DEF IsScheduled
    <3>2. ~Flushing(d)
      BY <1>9, <2>4 DEF OutReady, Flushing, SameOut
    <3>3. ~Completed(d)
      BY <1>11, <2>4 DEF OnePhase, Initial, Completed
    <3> QED BY <3>1, <3>2, <3>3
  <2> QED BY <1>9, <2>3, <2>4
<1>13. TaskOk(k, d)
  <2>1. Completed(d) /\ d.in # <<>> => Flushing(d)
    BY <1>2, <1>10, <1>11 DEF TaskOk, Flushing
  <2>2. Completed(d) /\ ~Routed(d) => d.out = <<>>
    BY <1>2, <1>10, <1>11 DEF TaskOk, OnePhase, Routed
  <2>3. d.prepared <=> ~Initial(d)
    BY <1>2, <1>10, <1>11 DEF TaskOk
  <2> QED BY <1>6, <1>10, <1>11, <1>12, <2>1, <2>2, <2>3 DEF TaskOk
<1>14. InputOk(d)
  BY <1>2, <1>10 DEF InputOk, Purging, Flushing
<1>15. OutputOk(k, d)
  <2>1. Initial(d) => ~Routed(d) /\ d.out \in {<<>>, <<Msg(k, "start")>>}
    BY <1>2, <1>3, <1>6, <1>10, <1>11 DEF OutputOk, Routed
  <2>2. ~Initial(d) /\ Routed(d) => \A m \in Items(d.out) : m \in {Msg(k, what) : what \in Bufs}
    BY <1>2, <1>3, <1>6, <1>10, <1>11 DEF OutputOk, Routed
  <2>3. ~Initial(d) /\ ~Routed(d) => \A m \in Items(d.out) : m = Msg(k, "out") /\ k \in Sinks
    BY <1>2, <1>3, <1>6, <1>10, <1>11 DEF OutputOk, Routed
  <2>4. /\ Flushing(d) => Routed(d) /\ "idle" \notin d.oflags
        /\ Unrouting(d) \/ d.mode = "terminating" => Flushing(d)
    BY <1>2, <1>10 DEF OutputOk, Routed, Flushing, Unrouting
  <2> QED BY <2>1, <2>2, <2>3, <2>4 DEF OutputOk
<1>16. CompOk(k, d)
  BY <1>13, <1>14, <1>15 DEF CompOk
<1>17. /\ <<>> \in Seq(OutType) /\ Plain(k, {x}, <<>>) /\ OutOk(k, {x}, d, <<>>)
       /\ \A m : ~ToApp(<<>>, m)
  BY NothingSent
<1>18. StartOk(k, {x}, d, <<>>)
  <2>1. ~StartTold(<<>>, k)
    BY <1>17 DEF StartTold, ToApp
  <2>2. Initial(c) => HasMsg({x}, Msg(k, "start"))
    BY <1>3 DEF HasMsg
  <2> QED BY <1>11, <1>17, <2>1, <2>2 DEF StartOk
<1>19. FlushAbroad(k) => FlushOk(d)
  <2>1. FlushAbroad(k) => FlushOk(c)
    BY DEF ChainInv, FlushInv
  <2> QED BY <1>10, <1>11, <2>1 DEF FlushOk, Waiting, Unrouting, Purging
<1>20. InOk(k, {x}, d)
  BY <1>10, InputKept
<1> QED BY <1>3, <1>7, <1>9, <1>10, <1>12, <1>16, <1>17, <1>18, <1>19, <1>20, QuietStep
-----------------------------------------------------------------------------
(* The output port taken apart.                                            *)

\* Nothing of a pool is behind its flow-control message.
Ordered(s) == \A x, y : Ahead(s, x, y) /\ IsControl(x) => ~Of(y, x.msg.of)

\* What is sent in two parts.
LEMMA PlainJoined ==
    ASSUME NEW k \in Codecs, NEW T, NEW s \in Seq(OutType), NEW t \in Seq(OutType)
    PROVE  /\ s \o t \in Seq(OutType) /\ Items(s \o t) = Items(s) \cup Items(t)
           /\ Plain(k, T, s) /\ Plain(k, T, t) => Plain(k, T, s \o t)
           /\ Ordered(s) /\ Ordered(t) /\ (\A x \in Items(s), y \in Items(t) : IsControl(x) => ~Of(y, x.msg.of)) =>
                Ordered(s \o t)
           /\ \A m : ToApp(s \o t, m) <=> (ToApp(s, m) \/ ToApp(t, m))
<1>1. /\ s \o t \in Seq(OutType) /\ Items(s \o t) = Items(s) \cup Items(t)
      /\ \A x, y : Ahead(s \o t, x, y) =>
           Ahead(s, x, y) \/ (x \in Items(s) /\ y \in Items(t)) \/ Ahead(t, x, y)
  BY Joined
<1> DEFINE r == s \o t
<1> HIDE DEF r
<1>2. /\ r \in Seq(OutType) /\ Items(r) = Items(s) \cup Items(t)
      /\ \A x, y : Ahead(r, x, y) =>
           Ahead(s, x, y) \/ (x \in Items(s) /\ y \in Items(t)) \/ Ahead(t, x, y)
  BY <1>1 DEF r
<1>3. Plain(k, T, s) /\ Plain(k, T, t) => Plain(k, T, r)
  BY <1>2 DEF Plain
<1>4. /\ Ordered(s) /\ Ordered(t) /\ (\A x \in Items(s), y \in Items(t) : IsControl(x) => ~Of(y, x.msg.of)) =>
                Ordered(r)
  BY <1>2 DEF Ordered
<1>5. \A m : ToApp(r, m) <=> (ToApp(s, m) \/ ToApp(t, m))
  BY <1>2 DEF ToApp
<1> QED BY <1>2, <1>3, <1>4, <1>5 DEF r

\* A command that is answered late.
LEMMA CmdReplied ==
    ASSUME NEW k \in Codecs, NEW T, NEW op \in Ops
    PROVE  LET s == <<CmdDone(op)>> IN
           /\ s \in Seq(OutType) /\ Plain(k, T, s) /\ Ordered(s)
           /\ \A m : ToApp(s, m) <=> m = Cmd
           /\ \A x \in Items(s) : ~IsControl(x) /\ ~FromPool(x.msg)
<1> DEFINE y == CmdDone(op)
<1>1. y.to = App /\ y.msg = Cmd /\ y.len = 0
  BY ItemFacts DEF CmdDone
<1>2. y \in OutType
  BY ItemFacts, MsgFacts DEF CmdDone, Lens
<1> HIDE DEF y
<1> DEFINE s == <<y>>
<1>3. s \in Seq(OutType) /\ Items(s) = {y} /\ \A a, b : ~Ahead(s, a, b)
  BY <1>2, OneItem
<1> HIDE DEF s
<1>4. AppReply(k, y)
  BY <1>1, MsgFacts DEF AppReply
<1>5. Plain(k, T, s)
  BY <1>3, <1>4 DEF Plain
<1>6. Ordered(s)
  BY <1>3 DEF Ordered
<1>7. \A m : ToApp(s, m) <=> m = Cmd
  BY <1>1, <1>3 DEF ToApp
<1>8. ~FromPool(y.msg)
  BY <1>1, MsgFacts
<1>9. ~IsControl(y)
  BY <1>8, AppMsgFacts
<1> QED BY <1>3, <1>5, <1>6, <1>7, <1>8, <1>9 DEF s, y

\* The input purged.
LEMMA PurgedFacts ==
    ASSUME ChainInv, NEW k \in Codecs, NEW T, NEW c \in CodecType(k),
           Items(c.in) \subseteq Items(codec[k].in), \A x, y : Ahead(c.in, x, y) => Ahead(codec[k].in, x, y)
    PROVE  LET p == Purged(c) IN
           /\ p.c \in CodecType(k) /\ SameMode(c, p.c) /\ SameTask(c, p.c) /\ SameOut(c, p.c) /\ p.c.ptr = c.ptr
           /\ p.c.in = <<>> /\ p.c.iflags = (c.iflags \cap {"paused"}) \cup {"enabled"}
           /\ p.out \in Seq(OutType) /\ Plain(k, T, p.out) /\ Ordered(p.out)
           /\ \A y \in Items(p.out) : y.to = App => y.msg \in {Msg(k, "in"), Msg(k, "eos")}
           /\ \A y \in Items(p.out) : \E z \in Items(c.in) : y.msg = z.msg
           /\ \A y \in Items(p.out) : ~Of(y, k)
           /\ \A m : ToApp(p.out, m) => m \in {Msg(k, "in"), Msg(k, "eos")}
<1> DEFINE F == (c.iflags \cap {"paused"}) \cup {"enabled"}
           d == [c EXCEPT !.in = <<>>, !.filled = 0, !.iflags = F]
           t == c.in
           s == [i \in DOMAIN t |-> Answered(t[i], 0)]
<1>1. Purged(c).c = d /\ Purged(c).out = s
  BY DEF Purged
<1>2. F \in SUBSET Flags.in
  BY DEF Flags
<1> HIDE DEF F
<1>3. /\ d \in CodecType(k) /\ SameMode(c, d) /\ SameTask(c, d) /\ SameOut(c, d) /\ d.ptr = c.ptr
      /\ d.in = <<>> /\ d.iflags = F
  <2> DEFINE e == <<>>
  <2>1. 0 \in 0..Frame /\ e \in Seq(ItemType)
    BY FrameAssumption
  <2>2. d = [c EXCEPT !.in = e, !.filled = 0, !.iflags = F]
    OBVIOUS
  <2>3. d.in = e /\ d.iflags = F
    BY <2>2 DEF CodecType
  <2>4. SameMode(c, d) /\ SameTask(c, d) /\ SameOut(c, d) /\ d.ptr = c.ptr
    BY <2>2 DEF CodecType, SameMode, SameTask, SameOut
  <2> HIDE DEF e
  <2>5. d \in CodecType(k)
    BY <1>2, <2>1, <2>2 DEF CodecType
  <2> QED BY <2>3, <2>4, <2>5 DEF e
<1> HIDE DEF d
<1>4. t \in Seq(ItemType) /\ DOMAIN s = DOMAIN t /\ DOMAIN t = 1..Len(t) /\ Len(t) \in Nat
  BY DEF CodecType
<1>5. /\ Items(t) \subseteq Items(codec[k].in)
      /\ \A x, y : Ahead(t, x, y) /\ IsControl(x) => ~Of(y, x.msg.of)
  <2> SUFFICES ASSUME NEW x, NEW y, Ahead(t, x, y), IsControl(x), Of(y, x.msg.of) PROVE FALSE
    OBVIOUS
  <2>1. Ahead(codec[k].in, x, y) /\ x \in Items(codec[k].in) /\ y \in Items(codec[k].in)
    BY DEF Ahead, Items
  <2>2. x.to = k /\ y.to = k
    BY <2>1 DEF ChainInv, PoolInv, PlaceInv, InputPlace
  <2> QED BY <2>1, <2>2 DEF ChainInv, PoolInv, ClosedInv, Closed
<1> HIDE DEF t
<1>6. ASSUME NEW i \in DOMAIN t
      PROVE  /\ t[i] \in Items(t) /\ s[i] \in OutType /\ s[i].msg = t[i].msg
             /\ AppReply(k, s[i]) \/ Reply(k, T, s[i])
             /\ s[i].to = App => s[i].msg \in {Msg(k, "in"), Msg(k, "eos")}
  <2> DEFINE z == t[i]
             len == 0
  <2>1. z \in Items(t) /\ z \in Items(codec[k].in) /\ len \in {0, 1}
    BY <1>5 DEF Items
  <2>2. s[i] = Answered(z, len)
    OBVIOUS
  <2> HIDE DEF z, len
  <2>3. LET y == Answered(z, len) IN
        /\ y \in OutType /\ y.msg = z.msg /\ y.len = len
        /\ AppReply(k, y) \/ Reply(k, T, y)
        /\ y.to = App => y.msg \in {Msg(k, "in"), Msg(k, "eos")}
    BY <2>1, InputAnswered
  <2> QED BY <2>1, <2>2, <2>3 DEF z
<1>7. s \in Seq(OutType)
  BY <1>4, <1>6
<1> HIDE DEF s
<1>70. \A y \in Items(s) : \E i \in DOMAIN t : y = s[i]
  BY <1>4 DEF Items
<1>8. /\ s \in Seq(OutType) /\ Plain(k, T, s)
      /\ \A y \in Items(s) : /\ y.to = App => y.msg \in {Msg(k, "in"), Msg(k, "eos")}
                             /\ \E z \in Items(t) : y.msg = z.msg
  BY <1>6, <1>7, <1>70 DEF Plain
<1>81. ASSUME NEW i \in DOMAIN t, NEW j \in DOMAIN t, i < j, IsControl(s[i]) PROVE ~Of(s[j], s[i].msg.of)
  <2>1. Ahead(t, t[i], t[j])
    BY <1>81 DEF Ahead
  <2> QED BY <1>5, <1>6, <1>81, <2>1 DEF IsControl, Of
<1>9. Ordered(s)
  BY <1>4, <1>81 DEF Ordered, Ahead
<1>10. \A y \in Items(s) : ~Of(y, k)
  BY <1>8, PlainFacts
<1>11. \A m : ToApp(s, m) => m \in {Msg(k, "in"), Msg(k, "eos")}
  BY <1>8 DEF ToApp
<1> QED BY <1>1, <1>3, <1>8, <1>9, <1>10, <1>11 DEF F, t

\* A step that sends nothing down.
LEMMA PlainStep ==
    ASSUME ChainInv, NEW k \in Codecs, NEW T, NEW l, NEW q, NEW d \in CodecType(k), NEW out \in Seq(OutType),
           Steps(k, T, l, q, d, out), IF d.mode = "gone" THEN d = Destroyed ELSE CompOk(k, d),
           Plain(k, T, out), Ordered(out),
           \A x \in Items(out), y \in Items(d.in) : IsControl(x) => ~Of(y, x.msg.of),
           InOk(k, T, d), PortKept(k, d) \/ PortDone(k, T, out), ModeOk(k, l, q, d),
           CallOk(k, T, d, out), ConnOk(k, d, out), StartOk(k, T, d, out), AloneOk(k, l, d, out),
           FlushAbroad(k) /\ PortKept(k, d) => FlushOk(d)
    PROVE  ChainInv'
<1>1. /\ \A y \in Items(out) : y.to = App \/ IsAnswer(k, T, d, y)
      /\ AppOk(k, out) /\ LeadOk(k, l, out) /\ FlushStepOk(k, T, d, out)
  BY PlainFacts
<1>2. OutOk(k, T, d, out)
  BY <1>1 DEF OutOk, Ordered
<1>3. Handles(k, T, l, q, d, out)
  BY <1>2, ToldReady DEF Handles, Steps
<1>4. StepOk(k, T, l, q, d, out)
  BY <1>1, <1>3 DEF StepOk, Steps
<1> QED BY <1>4, StepKeeps

\* The flow-control message back from below.
LEMMA ControlGiven ==
    ASSUME ChainInv, NEW k \in Codecs, NEW x, Serves(k, x), x.msg = Control(k)
    PROVE  /\ Of(x, k) /\ Flushing(codec[k]) /\ Routed(codec[k]) /\ "idle" \notin codec[k].oflags
           /\ ~IsScheduled(codec[k]) /\ ~Initial(codec[k]) /\ BackKind(x) /\ k \notin Sinks
           /\ "eos_seq_done" \notin codec[k].state
           /\ \A T, out : x \in T /\ (\A y \in Items(out) : ~Of(y, k)) => PortDone(k, T, out)
<1>1. FromPool(x.msg) /\ x.msg.of = k /\ IsControl(x)
  BY MsgFacts DEF IsControl
<1>2. Of(x, k) /\ IsAbroad(x) /\ ~Gone(k)
  BY <1>1, ServedKinds DEF Of, Serves
<1>3. Flushing(codec[k])
  BY <1>1, <1>2 DEF ChainInv, PoolInv, PortInv, Flushing
<1>4. CompOk(k, codec[k]) /\ (Routed(codec[k]) => k \notin Sinks)
  BY <1>2, Mine
<1>5. Routed(codec[k]) /\ "idle" \notin codec[k].oflags /\ ~Initial(codec[k])
  BY <1>3, <1>4 DEF CompOk, OutputOk
<1>6. ~IsScheduled(codec[k]) /\ "eos_seq_done" \notin codec[k].state
  BY <1>3, <1>4, <1>5 DEF CompOk, TaskOk
<1>7. BackKind(x)
  BY <1>2, ServedKinds
<1>8. \A T, out : x \in T /\ (\A y \in Items(out) : ~Of(y, k)) => PortDone(k, T, out)
  BY DEF PortDone
<1> QED BY <1>2, <1>3, <1>4, <1>5, <1>6, <1>7, <1>8

\* The end of a flush that ends with a purge of the input.
LEMMA ControlStep ==
    ASSUME ChainInv, NEW k \in Codecs, NEW x, Serves(k, x), codec[k].mode = "running", x.op = "fill",
           x.msg = Control(k), ControlReturns(k, x)
    PROVE  ChainInv'
<1> DEFINE c == codec[k]
           T == {x}
           l == LocalLeft(WorkerOf[k])
           q == QueueLeft(WorkerOf[k])
           e == FlushDone(c)
           unroutes == Unrouting(e) \/ x.len = Invalid
           u == IF unroutes THEN Unrouted(e) ELSE e
           d == Purged(u).c
           ans == Purged(u).out
           answer == IF Unrouting(e) THEN <<CmdDone("unroute")>> ELSE <<>>
           out == answer \o ans
<1>1. Becomes(k, d, out)
  BY DEF ControlReturns, Unrouting
<1>2. /\ Of(x, k) /\ Flushing(c) /\ Routed(c) /\ "idle" \notin c.oflags
      /\ ~IsScheduled(c) /\ ~Initial(c) /\ k \notin Sinks /\ "eos_seq_done" \notin c.state
      /\ ((\A y \in Items(out) : ~Of(y, k)) => PortDone(k, T, out))
  BY ControlGiven
<1>3. c \in CodecType(k) /\ TaskOk(k, c) /\ InputOk(c) /\ OutputOk(k, c) /\ c.route = RouteOf(k)
      /\ ~Gone(k) /\ <<k, RouteOf(k)>> \in Edges
  BY <1>2, Mine DEF CompOk, Serves
<1>4. /\ e \in CodecType(k) /\ SameMode(c, e) /\ SameIn(c, e) /\ SameTask(c, e)
      /\ e.out = c.out /\ e.route = c.route /\ e.oflags = (c.oflags \ {"flushing"}) \cup {"idle"}
  <2>1. /\ e \in CodecType(k) /\ SameMode(c, e) /\ SameIn(c, e) /\ SameTask(c, e)
        /\ e.out = c.out /\ e.route = c.route
        /\ e.oflags = (c.oflags \ {"idle", "flushing"}) \cup ({"idle", "flushing"} \ c.oflags)
    BY <1>3, FlushDoneFields
  <2>2. "flushing" \in c.oflags
    BY <1>2 DEF Flushing
  <2> HIDE DEF e
  <2>3. e.oflags = (c.oflags \ {"flushing"}) \cup {"idle"}
    BY <1>2, <2>1, <2>2
  <2> QED BY <2>1, <2>3
<1> HIDE DEF e
<1>5. /\ u \in CodecType(k) /\ SameMode(c, u) /\ SameIn(c, u) /\ SameTask(c, u)
      /\ unroutes => u.out = <<>> /\ u.oflags = {"idle"} /\ u.route = None
      /\ ~unroutes => u.out = c.out /\ u.oflags = (c.oflags \ {"flushing"}) \cup {"idle"} /\ u.route = RouteOf(k)
  <2>1. CASE unroutes
    <3> DEFINE r == Unrouted(e)
    <3>1. /\ r \in CodecType(k) /\ SameMode(e, r) /\ SameIn(e, r) /\ SameTask(e, r)
          /\ r.out = <<>> /\ r.route = None /\ r.oflags = {"idle"}
      BY <1>4, UnroutedFields
    <3>2. u = r
      BY <2>1
    <3> HIDE DEF r
    <3> QED BY <1>4, <2>1, <3>1, <3>2 DEF SameMode, SameIn, SameTask
  <2>2. CASE ~unroutes
    <3>1. u = e
      BY <2>2
    <3> QED BY <1>3, <1>4, <2>2, <3>1
  <2> QED BY <2>1, <2>2
<1>6. Unrouting(e) <=> Unrouting(c)
  BY <1>4 DEF Unrouting
<1> HIDE DEF u
<1>7. /\ d \in CodecType(k) /\ SameMode(u, d) /\ SameTask(u, d) /\ SameOut(u, d)
      /\ d.in = <<>> /\ d.iflags = (u.iflags \cap {"paused"}) \cup {"enabled"}
      /\ ans \in Seq(OutType) /\ Plain(k, T, ans) /\ Ordered(ans)
      /\ \A m : ToApp(ans, m) => m \in {Msg(k, "in"), Msg(k, "eos")}
  BY <1>5, PurgedFacts DEF SameIn
<1> HIDE DEF d, ans
<1>8. /\ answer \in Seq(OutType) /\ Plain(k, T, answer) /\ Ordered(answer)
      /\ \A m : ToApp(answer, m) <=> (Unrouting(c) /\ m = Cmd)
      /\ \A y \in Items(answer) : ~IsControl(y)
  <2>1. CASE Unrouting(e)
    <3> DEFINE s == <<CmdDone("unroute")>>
    <3>1. /\ s \in Seq(OutType) /\ Plain(k, T, s) /\ Ordered(s)
          /\ \A m : ToApp(s, m) <=> m = Cmd
          /\ \A y \in Items(s) : ~IsControl(y)
      BY CmdReplied DEF Ops
    <3>2. answer = s
      BY <2>1
    <3> HIDE DEF s
    <3> QED BY <1>6, <2>1, <3>1, <3>2
  <2>2. CASE ~Unrouting(e)
    <3>1. answer = <<>>
      BY <2>2
    <3>2. Ordered(<<>>) /\ Items(<<>>) = {}
      BY EmptyItems DEF Ordered
    <3> QED BY <1>6, <2>2, <3>1, <3>2, NothingSent
  <2> QED BY <2>1, <2>2
<1> HIDE DEF answer
<1>9. /\ out \in Seq(OutType) /\ Plain(k, T, out) /\ Ordered(out)
      /\ \A m : ToApp(out, m) <=> (ToApp(answer, m) \/ ToApp(ans, m))
  BY <1>7, <1>8, PlainJoined
<1> HIDE DEF out
<1>10. /\ ToApp(out, Cmd) <=> Unrouting(c)
       /\ ~ToApp(out, Msg(k, "start"))
  BY <1>7, <1>8, <1>9, AppMsgFacts
<1>11. \A y \in Items(out) : ~Of(y, k)
  BY <1>9, PlainFacts
<1>12. PortDone(k, T, out)
  BY <1>2, <1>11
<1>13. /\ d.mode = "running" /\ d.state = c.state /\ d.tree = c.tree /\ d.prepared = c.prepared
       /\ ~unroutes => d.out = c.out /\ d.oflags = (c.oflags \ {"flushing"}) \cup {"idle"} /\ d.route = RouteOf(k)
       /\ unroutes => d.out = <<>> /\ d.oflags = {"idle"}
  BY <1>5, <1>7 DEF SameMode, SameTask, SameOut
<1>14. /\ ~Initial(d) /\ ~IsScheduled(d) /\ ~Flushing(d) /\ ~Unrouting(d) /\ ~Purging(d)
       /\ (Routed(d) <=> ~unroutes)
  <2>1. ~Initial(d) /\ ~IsScheduled(d)
    BY <1>2, <1>13 DEF Initial, IsScheduled
  <2>2. CASE unroutes
    <3>1. d.oflags = {"idle"}
      BY <1>13, <2>2
    <3> QED BY <1>7, <2>1, <2>2, <3>1 DEF Flushing, Unrouting, Purging, Routed
  <2>3. CASE ~unroutes
    <3>1. d.oflags = (c.oflags \ {"flushing"}) \cup {"idle"}
      BY <1>13, <2>3
    <3>2. ~Unrouting(c)
      BY <1>6, <2>3
    <3> QED BY <1>2, <1>7, <2>1, <2>3, <3>1, <3>2 DEF Flushing, Unrouting, Purging, Routed
  <2> QED BY <2>2, <2>3
<1>15. CompOk(k, d)
  <2>1. TaskOk(k, d)
    <3>1. OnePhase(d) /\ (d.prepared <=> ~Initial(d)) /\ "eos_seq_done" \notin d.state
      BY <1>2, <1>3, <1>13 DEF TaskOk, OnePhase, Initial, Completed
    <3>2. d.tree = IF IsScheduled(d) THEN 1 ELSE 0
      BY <1>3, <1>13 DEF TaskOk, IsScheduled
    <3>3. Completed(d) /\ ~Routed(d) => d.out = <<>>
      BY <1>13, <1>14
    <3> QED BY <1>7, <1>14, <3>1, <3>2, <3>3 DEF TaskOk
  <2>2. InputOk(d)
    BY <1>7, <1>13, <1>14, EmptyItems DEF InputOk
  <2>3. OutputOk(k, d)
    <3>1. unroutes => Items(d.out) = {}
      BY <1>13, EmptyItems
    <3> QED BY <1>2, <1>3, <1>13, <1>14, <3>1 DEF OutputOk
  <2> QED BY <2>1, <2>2, <2>3 DEF CompOk
<1>16. Steps(k, T, l, q, d, out)
  BY <1>1, ServesSteps DEF out
<1>17. \A y \in Items(out), z \in Items(d.in) : IsControl(y) => ~Of(z, y.msg.of)
  BY <1>7, EmptyItems
<1>18. InOk(k, T, d)
  BY <1>7, EmptyItems DEF InOk
<1>19. ModeOk(k, l, q, d)
  BY <1>3, <1>13, <1>14 DEF ModeOk
<1>20. ~HasMsg(T, Cmd) /\ ~HasMsg(T, Msg(k, "start"))
  <2>1. FromPool(x.msg)
    BY <1>2 DEF Of
  <2> QED BY <2>1, AppMsgFacts, MsgFacts DEF HasMsg
<1>21. CallOk(k, T, d, out)
  <2>1. CASE Unrouting(c)
    <3>1. SavedIn(codec[k]) /\ ~SavedIn(d)
      BY <1>13, <1>14, <2>1 DEF SavedIn
    <3> QED BY <1>10, <1>20, <2>1, <3>1 DEF CallOk
  <2>2. CASE ~Unrouting(c)
    BY <1>10, <1>13, <1>14, <1>20, <2>2 DEF CallOk
  <2> QED BY <2>1, <2>2
<1>22. ConnOk(k, d, out)
  BY <1>2, <1>6, <1>10, <1>13, <1>14 DEF ConnOk
<1>23. StartOk(k, T, d, out)
  BY <1>2, <1>10, <1>14, <1>20, NoStart
<1>24. AloneOk(k, l, d, out)
  BY <1>14 DEF AloneOk
<1>25. ~PortKept(k, d)
  BY <1>2, <1>14 DEF PortKept, Flushing
<1>26. IF d.mode = "gone" THEN d = Destroyed ELSE CompOk(k, d)
  BY <1>15, <1>13
<1> HIDE DEF T, l, q
<1> QED BY <1>7, <1>9, <1>12, <1>16, <1>17, <1>18, <1>19, <1>21, <1>22, <1>23, <1>24, <1>25, <1>26, PlainStep

\* A step that sends messages of its own pool.
Down(k, T, d, y) == AppReply(k, y) \/ Reply(k, T, y) \/ IsSent(k, d, y)

\* It keeps the invariant.
LEMMA SendStep ==
    ASSUME ChainInv, NEW k \in Codecs, NEW T, NEW l, NEW q, NEW d \in CodecType(k), NEW out \in Seq(OutType),
           Steps(k, T, l, q, d, out), CompOk(k, d), d.mode # "gone",
           \A y \in Items(out) : Down(k, T, d, y), Ordered(out),
           \A x \in Items(out), y \in Items(d.in) : IsControl(x) => ~Of(y, x.msg.of),
           InOk(k, T, d), PortKept(k, d), ModeOk(k, l, q, d),
           CallOk(k, T, d, out), ConnOk(k, d, out), StartOk(k, T, d, out), AloneOk(k, l, d, out),
           FlushStepOk(k, T, d, out),
           \A x \in Items(l) : IsLead(x) => x.msg.of = k,
           \A x \in Items(l) : IsBack(x) => Depth[x.to] < Depth[RouteOf(k)]
    PROVE  ChainInv'
<1>1. ASSUME NEW y \in Items(out)
      PROVE  /\ y.to = App \/ IsAnswer(k, T, d, y) \/ IsSent(k, d, y)
             /\ y.to = App => AppReply(k, y)
             /\ y.to # App /\ IsLead(y) => y.msg.of = k
  <2>1. y \in OutType
    BY SeqFacts
  <2>2. y.msg \in AllMsgs
    BY <2>1, ItemFacts
  <2>3. CASE AppReply(k, y)
    BY <2>3 DEF AppReply
  <2>4. CASE Reply(k, T, y)
    <3>1. y.to \in Codecs
      BY <2>2, <2>4, MsgFacts DEF Reply, IsBack
    <3> QED BY <2>4, <3>1, AppAssumption DEF Reply, IsAnswer, IsLead
  <2>5. CASE IsSent(k, d, y)
    <3>1. y.to \in Codecs /\ y.msg.of = k
      BY <2>1, <2>5, SentFor DEF ChainInv
    <3> QED BY <2>5, <3>1, AppAssumption
  <2> QED BY <2>3, <2>4, <2>5 DEF Down
<1>2. OutOk(k, T, d, out)
  BY <1>1 DEF OutOk, Ordered
<1>3. AppOk(k, out)
  BY <1>1 DEF AppOk, AppReply
<1>4. LeadOk(k, l, out)
  BY <1>1 DEF LeadOk
<1>5. Handles(k, T, l, q, d, out)
  BY <1>2, ToldReady DEF Handles, Steps
<1>6. StepOk(k, T, l, q, d, out)
  BY <1>3, <1>4, <1>5 DEF StepOk, Steps
<1> QED BY <1>6, StepKeeps

\* The flow-control message is sent.
LEMMA ControlSent ==
    ASSUME ChainInv, NEW k \in Codecs, ~Gone(k), Routed(codec[k]), ~Flushing(codec[k]), NEW d,
           Routed(d), d.route = RouteOf(k), "idle" \notin d.oflags, Flushing(d), NEW op \in {"empty", "flush"}
    PROVE  LET s == <<Item(RouteOf(k), Control(k), op, 0)>> IN
           /\ s \in Seq(OutType) /\ Ordered(s)
           /\ \A y \in Items(s) : IsSent(k, d, y) /\ y.msg = Control(k) /\ y.op = op /\ y.to # App
           /\ \A m : ~ToApp(s, m)
<1> DEFINE y == Item(RouteOf(k), Control(k), op, 0)
<1>1. y.to = RouteOf(k) /\ y.msg = Control(k) /\ y.op = op /\ y.len = 0
  BY ItemFacts
<1>2. RouteOf(k) \in Codecs
  BY Mine
<1>3. Control(k) \in AllMsgs /\ FromPool(Control(k)) /\ Control(k).of = k /\ Control(k).what = "control"
  BY MsgFacts
<1>4. y \in OutType
  BY <1>2, <1>3, ItemFacts DEF Lens, Ops
<1> HIDE DEF y
<1>5. IsSent(k, d, y)
  BY <1>1, <1>3 DEF IsSent, Of, ForthKind, IsControl, Flushing
<1> DEFINE s == <<y>>
<1>6. s \in Seq(OutType) /\ Items(s) = {y} /\ \A a, b : ~Ahead(s, a, b)
  BY <1>4, OneItem
<1> HIDE DEF s
<1>7. Ordered(s)
  BY <1>6 DEF Ordered
<1>8. \A m : ~ToApp(s, m)
  BY <1>1, <1>2, <1>6, AppAssumption DEF ToApp
<1> QED BY <1>1, <1>2, <1>5, <1>6, <1>7, <1>8, AppAssumption DEF s, y

\* What a flush does to a port that is routed.
LEMMA FlushedFacts ==
    ASSUME NEW k \in Codecs, NEW c \in CodecType(k), Routed(c), NEW op
    PROVE  LET f == Flushed(k, c, op)
               over == "idle" \in c.oflags /\ op # "fill" IN
           /\ f.c \in CodecType(k) /\ SameMode(c, f.c) /\ SameTask(c, f.c) /\ SameIn(c, f.c)
           /\ f.c.out = c.out /\ f.c.route = c.route
           /\ f.done <=> over
           /\ over => f.out = <<>> /\ f.c.oflags = c.oflags
           /\ ~over => /\ f.c.oflags = c.oflags \cup {"flushing"}
                       /\ f.out = IF Flushing(c) THEN <<>>
                                  ELSE <<Item(c.route, Control(k), IF op = "fill" THEN "empty" ELSE op, 0)>>
<1>1. CASE "idle" \in c.oflags /\ op # "fill"
  <2>1. Flushed(k, c, op) = [c |-> c, done |-> TRUE, out |-> <<>>]
    BY <1>1 DEF Flushed
  <2> QED BY <1>1, <2>1 DEF SameMode, SameTask, SameIn
<1>2. CASE ~("idle" \in c.oflags /\ op # "fill")
  <2> DEFINE e == [c EXCEPT !.oflags = @ \cup {"flushing"}]
             s == IF "flushing" \in c.oflags THEN <<>>
                  ELSE <<Item(c.route, Control(k), IF op = "fill" THEN "empty" ELSE op, 0)>>
  <2>1. Flushed(k, c, op) = [c |-> e, done |-> FALSE, out |-> s]
    BY <1>2 DEF Flushed
  <2>2. /\ e \in CodecType(k) /\ SameMode(c, e) /\ SameTask(c, e) /\ SameIn(c, e)
        /\ e.out = c.out /\ e.route = c.route /\ e.oflags = c.oflags \cup {"flushing"}
    BY DEF CodecType, SameMode, SameTask, SameIn, Flags
  <2> HIDE DEF e
  <2> QED BY <1>2, <2>1, <2>2 DEF Flushing
<1> QED BY <1>1, <1>2

\* A buffer that came back because the component below is gone.
LEMMA BouncedStep ==
    ASSUME ChainInv, NEW k \in Codecs, NEW x, Serves(k, x), codec[k].mode = "running", x.op = "fill",
           ~Initial(codec[k]), x.msg # Control(k), x.len = Invalid, Routed(codec[k]), BufferBounced(k)
    PROVE  ChainInv'
<1> DEFINE c == codec[k]
           T == {x}
           l == LocalLeft(WorkerOf[k])
           q == QueueLeft(WorkerOf[k])
<1>1. ~Gone(k)
  BY DEF Serves
<1>2. /\ c \in CodecType(k) /\ CompOk(k, c) /\ TaskOk(k, c) /\ InputOk(c) /\ OutputOk(k, c)
      /\ c.route = RouteOf(k) /\ <<k, RouteOf(k)>> \in Edges /\ k \notin Sinks /\ RouteOf(k) \in Codecs
  BY <1>1, Mine DEF CompOk
<1>3. Of(x, k) /\ BackKind(x) /\ x.msg # Cmd /\ x.msg # Msg(k, "start") /\ ~IsControl(x) /\ IsBack(x) /\ IsAbroad(x)
  <2>1. Of(x, k) /\ BackKind(x) /\ x.msg # Cmd /\ x.msg # Msg(k, "start") /\ x.msg \in AllMsgs
    BY FillKinds
  <2>2. x.msg = Msg(k, x.msg.what)
    BY <2>1, MsgFacts DEF Of
  <2>3. ~IsControl(x)
    BY <2>2, MsgFacts DEF IsControl
  <2> QED BY <2>1, <2>3, ServedKinds
<1>4. ~HasMsg(T, Cmd) /\ ~HasMsg(T, Msg(k, "start"))
  BY <1>3 DEF HasMsg
<1>5. FlushAbroad(k) => FlushOk(c) /\ Flushing(c)
  BY FlushFlags DEF ChainInv, FlushInv
<1>6. ~(IsScheduled(c) /\ Completed(c))
  BY ServesOne
<1>7. CASE Flushing(c)
  <2>1. Becomes(k, c, <<>>)
    BY <1>7 DEF BufferBounced, Flushing
  <2>2. /\ <<>> \in Seq(OutType) /\ Plain(k, T, <<>>) /\ OutOk(k, T, c, <<>>)
        /\ \A m : ~ToApp(<<>>, m)
    BY NothingSent
  <2>3. InOk(k, T, c)
    BY InputKept
  <2>4. StartOk(k, T, c, <<>>)
    BY <1>4, <2>2, NoStart
  <2> QED BY <1>2, <1>3, <1>5, <1>6, <2>1, <2>2, <2>3, <2>4, QuietStep
<1>8. CASE ~Flushing(c)
  <2> DEFINE b == Cancelled(c)
             f == Flushed(k, b, "fill")
             d == NoOutput(f.c)
             out == f.out
  <2>1. Becomes(k, d, out)
    BY <1>8 DEF BufferBounced, Flushing
  <2>2. /\ b \in CodecType(k) /\ SameMode(c, b) /\ SameIn(c, b) /\ SameOut(c, b)
        /\ b.state = c.state \ {"schedule"}
        /\ b.tree = IF "schedule" \in c.state THEN 0 ELSE c.tree
    BY <1>2, CancelledFields
  <2> HIDE DEF b
  <2>3. Routed(b) /\ ~Flushing(b) /\ b.route = RouteOf(k)
    BY <1>2, <1>8, <2>2 DEF Routed, Flushing, SameOut
  <2>4. /\ f.c \in CodecType(k) /\ SameMode(b, f.c) /\ SameTask(b, f.c) /\ SameIn(b, f.c)
        /\ f.c.out = b.out /\ f.c.route = b.route /\ f.c.oflags = b.oflags \cup {"flushing"}
        /\ f.out = <<Item(RouteOf(k), Control(k), "empty", 0)>>
    <3> HIDE DEF f
    <3>1. /\ f.c \in CodecType(k) /\ SameMode(b, f.c) /\ SameTask(b, f.c) /\ SameIn(b, f.c)
          /\ f.c.out = b.out /\ f.c.route = b.route
          /\ LET over == "idle" \in b.oflags /\ "fill" # "fill" IN
             /\ ~over => /\ f.c.oflags = b.oflags \cup {"flushing"}
                         /\ f.out = IF Flushing(b) THEN <<>>
                                    ELSE <<Item(b.route, Control(k), IF "fill" = "fill" THEN "empty" ELSE "fill", 0)>>
      BY <2>2, <2>3, FlushedFacts DEF f
    <3> QED BY <2>3, <3>1
  <2> HIDE DEF f
  <2>5. /\ d \in CodecType(k) /\ SameMode(f.c, d) /\ SameIn(f.c, d) /\ SameOut(f.c, d)
        /\ d.state = f.c.state \ {"output_setup"} /\ d.tree = f.c.tree
    BY <2>4, NoOutputFields
  <2> HIDE DEF d
  <2>6. /\ d.mode = "running" /\ d.prepared = c.prepared /\ d.in = c.in /\ d.iflags = c.iflags
        /\ d.out = c.out /\ d.route = RouteOf(k) /\ d.oflags = c.oflags \cup {"flushing"}
        /\ d.state = c.state \ {"schedule", "output_setup"} /\ d.tree = IF "schedule" \in c.state THEN 0 ELSE c.tree
    <3>1. d.state = (c.state \ {"schedule"}) \ {"output_setup"}
      BY <2>2, <2>4, <2>5 DEF SameTask
    <3> QED BY <1>2, <2>2, <2>4, <2>5, <3>1 DEF SameMode, SameTask, SameIn, SameOut
  <2>7. "idle" \notin c.oflags
    BY <1>3 DEF ChainInv, PoolInv, PortInv
  <2>8. /\ Routed(d) /\ Flushing(d) /\ "idle" \notin d.oflags /\ ~IsScheduled(d) /\ d.tree = 0
        /\ (Initial(d) <=> Initial(c)) /\ (Completed(d) <=> Completed(c)) /\ (Unrouting(d) <=> Unrouting(c))
    <3>1. Routed(d) /\ Flushing(d) /\ "idle" \notin d.oflags /\ (Unrouting(d) <=> Unrouting(c))
      BY <2>6, <2>7 DEF Routed, Flushing, Unrouting
    <3>2. ~IsScheduled(d) /\ (Initial(d) <=> Initial(c)) /\ (Completed(d) <=> Completed(c))
      BY <2>6 DEF IsScheduled, Initial, Completed
    <3>3. d.tree = 0
      BY <1>2, <2>6 DEF TaskOk, IsScheduled
    <3> QED BY <3>1, <3>2, <3>3
  <2>9. CompOk(k, d)
    <3>1. TaskOk(k, d)
      <4>1. OnePhase(d) /\ (d.prepared <=> ~Initial(d)) /\ "eos_seq_done" \notin d.state
        BY <1>2, <2>6, <2>8 DEF TaskOk, OnePhase, Initial, Completed
      <4> QED BY <2>8, <4>1 DEF TaskOk
    <3>2. InputOk(d)
      <4>1. ~Purging(c) /\ ~Purging(d)
        BY <1>2, <1>8, <2>6 DEF InputOk, Purging
      <4> QED BY <1>2, <2>6, <4>1 DEF InputOk
    <3>3. OutputOk(k, d)
      BY <1>2, <2>6, <2>8 DEF OutputOk
    <3> QED BY <3>1, <3>2, <3>3 DEF CompOk
  <2> DEFINE s == <<Item(RouteOf(k), Control(k), "empty", 0)>>
  <2>10. /\ s \in Seq(OutType) /\ Ordered(s)
         /\ \A y \in Items(s) : IsSent(k, d, y) /\ y.msg = Control(k) /\ y.op = "empty" /\ y.to # App
         /\ \A m : ~ToApp(s, m)
    BY <1>1, <1>8, <2>6, <2>8, ControlSent
  <2>11. out = s
    BY <2>4
  <2> HIDE DEF s, out
  <2>12. Steps(k, T, l, q, d, s)
    BY <2>1, <2>11, ServesSteps
  <2>13. \A y \in Items(s) : Down(k, T, d, y)
    BY <2>10 DEF Down
  <2>14. \A y \in Items(s), z \in Items(d.in) : IsControl(y) => ~Of(z, y.msg.of)
    <3> SUFFICES ASSUME NEW z \in Items(c.in), Of(z, k) PROVE FALSE
      BY <2>6, <2>10, MsgFacts
    <3>1. InputPlace(k, z) /\ FromPool(z.msg) /\ z.msg.of = k
      BY DEF ChainInv, PoolInv, PlaceInv, Of
    <3>2. RouteOf(k) = k
      BY <3>1 DEF InputPlace
    <3> QED BY <1>1, <3>2, Mine
  <2>15. InOk(k, T, d)
    BY <2>6, InputKept
  <2>16. PortKept(k, d)
    BY <2>6, <2>8 DEF PortKept, Flushing
  <2>17. ModeOk(k, l, q, d)
    BY <1>2, <2>6 DEF ModeOk
  <2>18. CallOk(k, T, d, s)
    BY <1>4, <2>6, <2>8, <2>10 DEF CallOk
  <2>19. ConnOk(k, d, s)
    BY <2>6, <2>10 DEF ConnOk
  <2>20. StartOk(k, T, d, s)
    BY <1>4, <2>6, <2>8, <2>10, NoStart
  <2>21. AloneOk(k, l, d, s)
    BY <2>8 DEF AloneOk
  <2>22. FlushStepOk(k, T, d, s)
    BY <1>5, <1>8, <2>10 DEF FlushStepOk, IsFlush
  <2>23. /\ \A y \in Items(l) : IsLead(y) => y.msg.of = k
         /\ \A y \in Items(l) : IsBack(y) => Depth[y.to] < Depth[RouteOf(k)]
    <3>1. l = <<>> \/ x \in Items(local[WorkerOf[k]])
      BY ServesOne
    <3>2. CASE l = <<>>
      BY <3>2, EmptyItems
    <3>3. CASE x \in Items(local[WorkerOf[k]])
      <4>1. Items(l) \subseteq Items(local[WorkerOf[k]])
        BY <2>12 DEF Steps, Takes
      <4>2. IsLead(x) /\ x.msg.of = k /\ WorkerOf[k] \in Workers
        BY <1>3 DEF IsLead, Of, Workers
      <4> HIDE DEF l
      <4> QED BY <3>3, <4>1, <4>2 DEF ChainInv, LeadInv
    <3> QED BY <3>1, <3>2, <3>3
  <2>24. d.mode # "gone"
    BY <2>6
  <2> HIDE DEF T, l, q
  <2> QED BY <2>5, <2>9, <2>10, <2>12, <2>13, <2>14, <2>15, <2>16, <2>17, <2>18, <2>19, <2>20, <2>21, <2>22,
             <2>23, <2>24, SendStep
<1> QED BY <1>7, <1>8

\* The end of the stream goes to the application with the first buffer given after it.
LEMMA LastBufferStep ==
    ASSUME ChainInv, NEW k \in Codecs, NEW x, Serves(k, x), codec[k].mode = "running", x.op = "fill",
           ~Initial(codec[k]), x.msg # Control(k), ~Routed(codec[k]), Completed(codec[k]),
           Becomes(k, [codec[k] EXCEPT !.state = @ \cup {"eos_seq_done"}], <<Answered(x, 0)>>)
    PROVE  ChainInv'
<1> DEFINE c == codec[k]
           d == [c EXCEPT !.state = @ \cup {"eos_seq_done"}]
           y == Answered(x, 0)
           out == <<y>>
<1>1. ~Gone(k)
  BY DEF Serves
<1>2. /\ c \in CodecType(k) /\ CompOk(k, c) /\ TaskOk(k, c) /\ InputOk(c) /\ OutputOk(k, c)
  BY <1>1, Mine DEF CompOk
<1>3. x.msg = Msg(k, "out") /\ k \in Sinks /\ x.msg # Cmd /\ x.msg # Msg(k, "start") /\ ~FromPool(x.msg)
  BY FillKinds, MsgFacts, AppMsgFacts
<1>4. /\ d \in CodecType(k) /\ SameMode(c, d) /\ SameIn(c, d) /\ SameOut(c, d)
      /\ d.state = c.state \cup {"eos_seq_done"} /\ d.tree = c.tree
  BY <1>2 DEF CodecType, Flags, SameMode, SameIn, SameOut
<1>5. Becomes(k, d, out)
  OBVIOUS
<1>6. ~Of(x, k)
  BY <1>3 DEF Of
<1>7. y \in OutType /\ y.msg = x.msg /\ (AppReply(k, y) \/ Reply(k, {x}, y))
  BY <1>6, GivenAnswered
<1> HIDE DEF d, y
<1>8. ~IsControl(y)
  BY <1>3, <1>7, AppMsgFacts
<1>9. /\ out \in Seq(OutType) /\ Plain(k, {x}, out) /\ OutOk(k, {x}, d, out)
      /\ \A m : ToApp(out, m) <=> (y.to = App /\ y.msg = m)
  BY <1>7, <1>8, OneReplied
<1> HIDE DEF out
<1>10. ~ToApp(out, Cmd) /\ ~ToApp(out, Msg(k, "start")) /\ ~HasMsg({x}, Msg(k, "start"))
  BY <1>3, <1>7, <1>9 DEF HasMsg
<1>11. (Initial(d) <=> Initial(c)) /\ (Completed(d) <=> Completed(c)) /\ (IsScheduled(d) <=> IsScheduled(c))
       /\ (OnePhase(d) <=> OnePhase(c))
  BY <1>4 DEF Initial, Completed, IsScheduled, OnePhase
<1>12. d.out = <<>>
  BY <1>2, <1>4 DEF TaskOk, SameOut
<1>13. CompOk(k, d)
  <2>1. TaskOk(k, d)
    BY <1>2, <1>3, <1>4, <1>11, <1>12 DEF TaskOk, SameMode, SameIn, SameOut, Flushing
  <2>2. InputOk(d)
    BY <1>2, <1>4 DEF InputOk, SameMode, SameIn, SameOut, Flushing, Purging
  <2>3. OutputOk(k, d)
    BY <1>2, <1>4, <1>11 DEF OutputOk, SameMode, SameOut, Flushing, Routed, Unrouting
  <2> QED BY <2>1, <2>2, <2>3 DEF CompOk
<1>14. InOk(k, {x}, d)
  BY <1>4, InputKept DEF SameIn
<1>15. StartOk(k, {x}, d, out)
  BY <1>4, <1>10, <1>11, NoStart DEF SameOut
<1>16. ~(IsScheduled(d) /\ Completed(d))
  BY <1>11, ServesOne
<1>17. FlushAbroad(k) => FlushOk(d)
  BY <1>2, FlushFlags DEF OutputOk
<1>18. d.mode = c.mode /\ d.route = c.route /\ d.oflags = c.oflags
  BY <1>4 DEF SameMode, SameOut
<1> QED BY <1>3, <1>4, <1>5, <1>9, <1>10, <1>13, <1>14, <1>15, <1>16, <1>17, <1>18, QuietStep

\* xa_codec_fill_this_buffer
LEMMA FillStep == ASSUME ChainInv, NEW k \in Codecs, FillThisBuffer(k) PROVE ChainInv'
<1> DEFINE c == codec[k]
<1>1. PICK x \in Gets(k, "fill") :
        IF "runtime_init" \in c.state THEN OutputReceived(k, x)
        ELSE IF x.msg = Control(k) THEN ControlReturns(k, x)
        ELSE IF "completed" \in c.state /\ "eos_seq_done" \notin c.state /\ ~Routed(c) THEN
             Becomes(k, [c EXCEPT !.state = @ \cup {"eos_seq_done"}], <<Answered(x, 0)>>)
        ELSE IF x.len = Invalid /\ Routed(c) THEN BufferBounced(k)
        ELSE OutputReceived(k, x)
  BY DEF FillThisBuffer
<1>2. Serves(k, x) /\ c.mode = "running" /\ x.op = "fill"
  BY GetsServes
<1>3. CASE Initial(c)
  <2>1. OutputReceived(k, x)
    BY <1>1, <1>3 DEF Initial
  <2> QED BY <1>2, <1>3, <2>1, ReceivedStep
<1>4. CASE ~Initial(c) /\ x.msg = Control(k)
  <2>1. ControlReturns(k, x)
    BY <1>1, <1>4 DEF Initial
  <2> QED BY <1>2, <1>4, <2>1, ControlStep
<1>5. CASE ~Initial(c) /\ x.msg # Control(k) /\ Completed(c) /\ "eos_seq_done" \notin c.state /\ ~Routed(c)
  <2>1. Becomes(k, [c EXCEPT !.state = @ \cup {"eos_seq_done"}], <<Answered(x, 0)>>)
    BY <1>1, <1>5 DEF Initial, Completed
  <2> QED BY <1>2, <1>5, <2>1, LastBufferStep
<1>6. CASE /\ ~Initial(c) /\ x.msg # Control(k)
           /\ ~(Completed(c) /\ "eos_seq_done" \notin c.state /\ ~Routed(c))
  <2>1. CASE x.len = Invalid /\ Routed(c)
    <3>1. BufferBounced(k)
      BY <1>1, <1>6, <2>1 DEF Initial, Completed
    <3> QED BY <1>2, <1>6, <2>1, <3>1, BouncedStep
  <2>2. CASE ~(x.len = Invalid /\ Routed(c))
    <3>1. OutputReceived(k, x)
      BY <1>1, <1>6, <2>2 DEF Initial, Completed
    <3> QED BY <1>2, <1>6, <3>1, ReceivedStep
  <2> QED BY <2>1, <2>2
<1> QED BY <1>3, <1>4, <1>5, <1>6
===============================================================================
