---------------------- MODULE CoreDispatchOrderProofs ----------------------
(***************************************************************************)
(* What TLAPS proves about the order and the place in which the DSP core   *)
(* executes commands, on top of the invariant of CoreDispatchProofs: a     *)
(* component executes its commands in the order they were sent, on one     *)
(* thread, and none of them after its memory was freed; no worker sleeps   *)
(* over a task. All this needs data to come in time, as InTime says: for   *)
(* what may happen otherwise see the runs of MCCoreDispatch that expect a  *)
(* violation.                                                              *)
(* A worker's queue is read from its head. While it is purged its items    *)
(* go round, past the marker: those behind the marker come first then.     *)
(***************************************************************************)
EXTENDS CoreDispatchProofs

\* Either nothing is sent to a component once its deletion has been asked for; or nothing
\* once it has exited and a worker queue has room for all commands there are, so that the
\* DSP thread never holds one back while the component exits.
InTime ==
    \/ DataUntil = "asked"
    \/ DataUntil = "exited" /\ IsFiniteSet(Msgs) /\ Cardinality(Msgs) <= QueueEntries

\* The worker above the DSP thread is cleaning up; one that was raised before it waits for
\* room in the queue that only it reads.
ElevatedInv == \A w \in Workers :
    /\ wk[w].pc \in {"purge", "free"} => elevated = w
    /\ wk[w].pc = "marker" => elevated = w \/ QueueFull(w)
    /\ elevated = w => wk[w].pc \in {"marker", "purge", "free"}

\* What a component holds are commands for it; while it holds some it is scheduled, or being
\* run, on the worker of its priority.
TaskInv ==
    /\ \A k \in Components : k \in flag <=> inside[k] # {}
    /\ flag \subseteq alive
    /\ \A k \in Components : \A m \in inside[k] : m \notin owned /\ cmd[m].for = k
    /\ \A w \in Workers : \A k \in tree[w] : k \in flag /\ prio[k] = w
    /\ \A w \in Workers : wk[w].pc = "task" =>
         wk[w].to \in flag /\ prio[wk[w].to] = w /\ wk[w].to \notin tree[w]

\* A component that is about to move has no other command.
MoveInv == \A m \in Msgs \ owned : cmd[m].op = "setparam" /\ Moves(cmd[m].for, cmd[m].arg) =>
              \A n \in Msgs \ owned : cmd[n].for = cmd[m].for => n = m

\* A command is on its way to a component that is alive, along the queues its priority
\* names; only in the queue that is about to be purged it may outlive its component, and
\* the purge comes to it before the marker.
InCmdq == {cmdq[i] : i \in DOMAIN cmdq}
RouteInv ==
    /\ \A m \in InCmdq : cmd[m].op # "register" => cmd[m].for \in alive
    /\ dsp.pc \in {"route", "send"} =>
         /\ cmd[dsp.msg].op # "register" /\ dsp.to = cmd[dsp.msg].for /\ dsp.to \in alive
         /\ dsp.pc = "send" => dsp.at = prio[dsp.to]
Purging(w, k) == wk[w].pc \in {"cleanup", "marker", "purge"} /\ wk[w].to = k
LineInv == \A w \in Workers : \A i \in DOMAIN queue[w] : queue[w][i].msg # None =>
    /\ cmd[queue[w][i].msg].op # "register" /\ cmd[queue[w][i].msg].for = queue[w][i].to
    /\ prio[queue[w][i].to] = w
    /\ queue[w][i].to \in alive \/ Purging(w, queue[w][i].to)
MarkInv == \A w \in Workers : \A i, j \in DOMAIN queue[w] :
    queue[w][i].msg # None /\ queue[w][j].msg = None /\ queue[w][i].to \notin alive => i < j
HandInv == \A w \in Workers : wk[w].pc \in {"lookup", "entry"} =>
    /\ cmd[wk[w].msg].op # "register" /\ cmd[wk[w].msg].for = wk[w].to
    /\ prio[wk[w].to] = w /\ wk[w].to \in alive
    /\ wk[w].pc = "entry" => wk[w].at = w

\* The history has the commands that are neither answered nor with their component.
SentTo(k) == {sent[k][i] : i \in DOMAIN sent[k]}
SentInv ==
    /\ \A k \in Components : \A m \in SentTo(k) :
         /\ m \notin owned /\ cmd[m].op # "register" /\ cmd[m].for = k
         /\ \A h \in Components : m \notin inside[h]
    /\ \A m \in Msgs \ owned : cmd[m].op # "register" =>
         cmd[m].for \in Components /\ m \in SentTo(cmd[m].for) \cup inside[cmd[m].for]

\* One command before another: in the history, in the queue of the DSP thread, in a
\* worker's.
Before(k, m, n) == \E i, j \in DOMAIN sent[k] : i < j /\ sent[k][i] = m /\ sent[k][j] = n
InFront(q, m, n) == \E i, j \in DOMAIN q : i < j /\ q[i] = m /\ q[j] = n
MarkBetween(q, i, j) == \E p \in DOMAIN q : q[p].msg = None /\ i < p /\ p < j
Nearer(q, m, n) == \E i, j \in DOMAIN q :
    /\ q[i].msg = m /\ q[j].msg = n
    /\ (i < j /\ ~MarkBetween(q, i, j)) \/ (j < i /\ MarkBetween(q, j, i))

\* Of two commands for a component, the one sent first is never the one further off.
OrderInv == \A k \in Components : \A m, n \in Msgs : Before(k, m, n) =>
    /\ m # n
    /\ m \in InCmdq => n \in InCmdq /\ ~InFront(cmdq, n, m)
    /\ m = dsp.msg => n \in InCmdq
    /\ \A w \in Workers : ~Nearer(queue[w], n, m)
    /\ \A v, w \in Workers : wk[w].msg = n => m \notin Named(queue[v])
    /\ DataUntil = "asked" => cmd[m].op # "unregister"

PlaceInv == RouteInv /\ LineInv /\ MarkInv /\ HandInv
OrderlyInv == /\ InTime /\ BaseInv /\ ElevatedInv /\ TaskInv /\ MoveInv /\ PlaceInv
              /\ SentInv /\ OrderInv /\ NoneAsleep

-----------------------------------------------------------------------------
(* Queues and the history.                                                 *)

\* The history after one more command for k ...
LEMMA Appended ==
    ASSUME TypeOK, NEW k \in Components, NEW m \in Msgs, sent' = [sent EXCEPT ![k] = Append(@, m)]
    PROVE  \A h \in Components :
             /\ SentTo(h)' = IF h = k THEN SentTo(h) \cup {m} ELSE SentTo(h)
             /\ \A a, b \in Msgs : Before(h, a, b)' => Before(h, a, b) \/ (h = k /\ b = m /\ a \in SentTo(k))
<1> SUFFICES ASSUME NEW h \in Components
             PROVE  /\ SentTo(h)' = IF h = k THEN SentTo(h) \cup {m} ELSE SentTo(h)
                    /\ \A a, b \in Msgs : Before(h, a, b)' => Before(h, a, b) \/ (h = k /\ b = m /\ a \in SentTo(k))
  OBVIOUS
<1>1. sent \in [Components -> Seq(Msgs)]
  BY DEF TypeOK
<1>2. CASE h # k
  <2>1. sent'[h] = sent[h]
    BY <1>1, <1>2
  <2> QED BY <1>2, <2>1 DEF SentTo, Before
<1>3. CASE h = k
  <2> DEFINE q == sent[k]
             r == Append(q, m)
  <2>1. sent'[h] = r /\ q \in Seq(Msgs) /\ q = sent[h]
    BY <1>1, <1>3
  <2>2. /\ Len(q) \in Nat /\ DOMAIN q = 1 .. Len(q) /\ DOMAIN r = 1 .. Len(q) + 1
        /\ r[Len(q) + 1] = m /\ \A i \in 1 .. Len(q) : r[i] = q[i]
    BY <2>1
  <2>4. ASSUME NEW a, NEW b, NEW i \in DOMAIN r, NEW j \in DOMAIN r, i < j, r[i] = a, r[j] = b
        PROVE  \/ \E x, y \in DOMAIN q : x < y /\ q[x] = a /\ q[y] = b
               \/ b = m /\ a \in {q[x] : x \in DOMAIN q}
    <3>1. i \in 1 .. Len(q) /\ r[i] = q[i]
      BY <2>2, <2>4
    <3>2. CASE j = Len(q) + 1
      BY <2>2, <2>4, <3>1, <3>2
    <3>3. CASE j # Len(q) + 1
      <4>1. j \in 1 .. Len(q) /\ r[j] = q[j]
        BY <2>2, <3>3
      <4> QED BY <2>2, <2>4, <3>1, <4>1
    <3> QED BY <3>2, <3>3
  <2> HIDE DEF r
  <2>5. \A a, b : Before(h, a, b)' => Before(h, a, b) \/ (b = m /\ a \in SentTo(k))
    BY <1>3, <2>1, <2>4 DEF Before, SentTo
  <2>6. SentTo(h)' = SentTo(h) \cup {m}
    <3>1. \A e : e \in SentTo(h)' <=> \E i \in DOMAIN r : r[i] = e
      BY <2>1 DEF SentTo
    <3>2. \A e : e \in SentTo(h) <=> \E i \in DOMAIN q : q[i] = e
      BY <2>1 DEF SentTo
    <3> QED BY <2>2, <3>1, <3>2
  <2> QED BY <1>3, <2>5, <2>6
<1> QED BY <1>2, <1>3

\* ... and after one has left it.
LEMMA Forgotten ==
    ASSUME TypeOK, NEW m \in Msgs, sent' = Forget(m),
           \A k \in Components : \A a, b \in Msgs : Before(k, a, b) => a # b
    PROVE  \A h \in Components :
             /\ SentTo(h)' = SentTo(h) \ {m}
             /\ \A a, b \in Msgs : Before(h, a, b)' => Before(h, a, b) /\ a # m /\ b # m
<1> SUFFICES ASSUME NEW h \in Components
             PROVE  /\ SentTo(h)' = SentTo(h) \ {m}
                    /\ \A a, b \in Msgs : Before(h, a, b)' => Before(h, a, b) /\ a # m /\ b # m
  OBVIOUS
<1> DEFINE q == sent[h]
<1>1. q \in Seq(Msgs) /\ Len(q) \in Nat /\ DOMAIN q = 1 .. Len(q) /\ \A i \in 1 .. Len(q) : q[i] \in Msgs
  BY DEF TypeOK
<1>2. \A i, j \in DOMAIN q : q[i] = q[j] => i = j
  <2>1. ASSUME NEW i \in DOMAIN q, NEW j \in DOMAIN q, i < j PROVE q[i] # q[j]
    BY <1>1, <2>1 DEF Before
  <2> QED BY <1>1, <2>1
<1>3. CASE ~ \E i \in DOMAIN q : q[i] = m
  <2>1. sent'[h] = sent[h]
    BY <1>3 DEF Forget
  <2> QED BY <1>3, <2>1 DEF SentTo, Before
<1>4. CASE \E i \in DOMAIN q : q[i] = m
  <2> DEFINE c == CHOOSE i \in DOMAIN q : q[i] = m
             r == RemoveAt(q, c)
  <2>1. c \in DOMAIN q /\ q[c] = m
    BY <1>4
  <2>2. sent'[h] = r
    BY <1>4 DEF Forget
  <2> HIDE DEF c
  <2>3. /\ r \in Seq(Msgs) /\ Len(r) = Len(q) - 1 /\ DOMAIN r = 1 .. Len(q) - 1
        /\ \A i \in 1 .. Len(q) - 1 : r[i] = IF i < c THEN q[i] ELSE q[i + 1]
    <3>1. /\ SubSeq(q, 1, c - 1) \in Seq(Msgs) /\ Len(SubSeq(q, 1, c - 1)) = c - 1
          /\ \A i \in 1 .. c - 1 : SubSeq(q, 1, c - 1)[i] = q[i]
      BY <1>1, <2>1
    <3>2. /\ SubSeq(q, c + 1, Len(q)) \in Seq(Msgs) /\ Len(SubSeq(q, c + 1, Len(q))) = Len(q) - c
          /\ \A i \in 1 .. Len(q) - c : SubSeq(q, c + 1, Len(q))[i] = q[c + i]
      BY <1>1, <2>1
    <3>3. \A s, t \in Seq(Msgs) : /\ s \o t \in Seq(Msgs) /\ Len(s \o t) = Len(s) + Len(t)
                                  /\ \A i \in 1 .. Len(s) : (s \o t)[i] = s[i]
                                  /\ \A i \in Len(s) + 1 .. Len(s) + Len(t) : (s \o t)[i] = t[i - Len(s)]
      OBVIOUS
    <3> DEFINE s == SubSeq(q, 1, c - 1)
               t == SubSeq(q, c + 1, Len(q))
    <3>4. r = s \o t /\ c \in 1 .. Len(q)
      BY <1>1, <2>1 DEF r, RemoveAt
    <3> HIDE DEF s, t, q
    <3>5. s \in Seq(Msgs) /\ Len(s) = c - 1 /\ t \in Seq(Msgs) /\ Len(t) = Len(q) - c
      BY <3>1, <3>2 DEF s, t
    <3>6. /\ s \o t \in Seq(Msgs) /\ Len(s \o t) = Len(s) + Len(t)
          /\ \A i \in 1 .. Len(s) : (s \o t)[i] = s[i]
          /\ \A i \in Len(s) + 1 .. Len(s) + Len(t) : (s \o t)[i] = t[i - Len(s)]
      BY <3>3, <3>5
    <3>7. /\ r \in Seq(Msgs) /\ Len(r) = (c - 1) + (Len(q) - c)
          /\ \A i \in 1 .. c - 1 : r[i] = s[i]
          /\ \A i \in (c - 1) + 1 .. (c - 1) + (Len(q) - c) : r[i] = t[i - (c - 1)]
      BY <3>4, <3>5, <3>6
    <3>8. ASSUME NEW i \in c .. Len(q) - 1 PROVE r[i] = q[i + 1]
      <4>1. /\ i \in (c - 1) + 1 .. (c - 1) + (Len(q) - c) /\ i - (c - 1) \in 1 .. Len(q) - c
            /\ c + (i - (c - 1)) = i + 1
        BY <1>1, <3>4
      <4>2. r[i] = t[i - (c - 1)] /\ t[i - (c - 1)] = q[c + (i - (c - 1))]
        BY <3>2, <3>7, <4>1 DEF t
      <4> QED BY <4>1, <4>2
    <3>9. \A i \in 1 .. c - 1 : r[i] = q[i]
      BY <3>1, <3>7 DEF s
    <3>10. Len(q) \in Nat /\ c \in 1 .. Len(q)
      BY <1>1, <3>4
    <3>11. r \in Seq(Msgs) /\ Len(r) = Len(q) - 1
      BY <3>7, <3>10
    <3>12. DOMAIN r = 1 .. Len(q) - 1
      BY <3>11
    <3>13. ASSUME NEW i \in 1 .. Len(q) - 1 PROVE r[i] = IF i < c THEN q[i] ELSE q[i + 1]
      <4>1. i \in 1 .. c - 1 \/ (i \in c .. Len(q) - 1 /\ ~(i < c))
        BY <3>10
      <4> HIDE DEF r
      <4>2. i \in 1 .. c - 1 => i < c
        BY <3>10
      <4> QED BY <3>8, <3>9, <4>1, <4>2
    <3> QED BY <3>11, <3>12, <3>13
  <2> HIDE DEF r
  <2> DEFINE from(i) == IF i < c THEN i ELSE i + 1
  <2>4. \A i \in DOMAIN r : from(i) \in DOMAIN q /\ from(i) # c /\ r[i] = q[from(i)]
    BY <1>1, <2>1, <2>3
  <2>5. \A i, j \in DOMAIN r : i < j => from(i) < from(j)
    BY <1>1, <2>1, <2>3
  <2>6. \A i \in DOMAIN q : i # c => \E j \in DOMAIN r : from(j) = i
    <3>1. ASSUME NEW i \in DOMAIN q, i < c PROVE i \in DOMAIN r /\ from(i) = i
      BY <1>1, <2>1, <2>3, <3>1
    <3>2. ASSUME NEW i \in DOMAIN q, i > c PROVE i - 1 \in DOMAIN r /\ from(i - 1) = i
      BY <1>1, <2>1, <2>3, <3>2
    <3> QED BY <1>1, <2>1, <3>1, <3>2
  <2> HIDE DEF from
  <2>7. \A i \in DOMAIN q : q[i] = m => i = c
    BY <1>2, <2>1
  <2>8. SentTo(h)' = SentTo(h) \ {m}
    <3>1. ASSUME NEW i \in DOMAIN r PROVE r[i] \in SentTo(h) \ {m}
      BY <2>4, <2>7 DEF SentTo
    <3>2. ASSUME NEW i \in DOMAIN q, q[i] # m PROVE \E j \in DOMAIN r : r[j] = q[i]
      <4>1. PICK j \in DOMAIN r : from(j) = i
        BY <2>1, <2>6, <3>2
      <4> QED BY <2>4, <4>1
    <3> QED BY <2>2, <3>1, <3>2 DEF SentTo
  <2>9. ASSUME NEW a \in Msgs, NEW b \in Msgs, NEW i \in DOMAIN r, NEW j \in DOMAIN r, i < j, r[i] = a, r[j] = b
        PROVE  Before(h, a, b) /\ a # m /\ b # m
    <3>1. from(i) < from(j) /\ q[from(i)] = a /\ q[from(j)] = b /\ from(i) \in DOMAIN q /\ from(j) \in DOMAIN q
          /\ from(i) # c /\ from(j) # c
      BY <2>4, <2>5, <2>9
    <3> QED BY <2>7, <3>1 DEF Before
  <2> QED BY <2>2, <2>8, <2>9 DEF Before
<1> QED BY <1>3, <1>4

\* The queue of the DSP thread after one more command and after its head was taken.
LEMMA CmdqOrder ==
    ASSUME NEW q \in Seq(Msgs)
    PROVE  /\ \A m \in Msgs : \A a, b : InFront(Append(q, m), a, b) => InFront(q, a, b) \/ b = m
           /\ q # <<>> => /\ \A a, b : InFront(Tail(q), a, b) => InFront(q, a, b)
                          /\ \A i \in DOMAIN q : q[i] # Head(q) => InFront(q, Head(q), q[i])
<1>1. Len(q) \in Nat /\ DOMAIN q = 1 .. Len(q)
  OBVIOUS
<1>2. ASSUME NEW m \in Msgs, NEW a, NEW b, InFront(Append(q, m), a, b) PROVE InFront(q, a, b) \/ b = m
  <2>1. /\ DOMAIN Append(q, m) = 1 .. Len(q) + 1 /\ Append(q, m)[Len(q) + 1] = m
        /\ \A i \in 1 .. Len(q) : Append(q, m)[i] = q[i]
    OBVIOUS
  <2>2. PICK i, j \in 1 .. Len(q) + 1 : i < j /\ Append(q, m)[i] = a /\ Append(q, m)[j] = b
    BY <1>2, <2>1 DEF InFront
  <2> QED BY <1>1, <2>1, <2>2 DEF InFront
<1>3. ASSUME q # <<>> PROVE /\ \A a, b : InFront(Tail(q), a, b) => InFront(q, a, b)
                            /\ \A i \in DOMAIN q : q[i] # Head(q) => InFront(q, Head(q), q[i])
  <2>1. /\ Len(q) # 0 /\ Head(q) = q[1] /\ DOMAIN Tail(q) = 1 .. Len(q) - 1
        /\ \A i \in 1 .. Len(q) - 1 : Tail(q)[i] = q[i + 1]
    BY <1>3
  <2>2. ASSUME NEW a, NEW b, InFront(Tail(q), a, b) PROVE InFront(q, a, b)
    <3>1. PICK i, j \in 1 .. Len(q) - 1 : i < j /\ Tail(q)[i] = a /\ Tail(q)[j] = b
      BY <2>1, <2>2 DEF InFront
    <3>2. i + 1 \in 1 .. Len(q) /\ j + 1 \in 1 .. Len(q) /\ i + 1 < j + 1
      BY <1>1, <3>1
    <3> QED BY <1>1, <2>1, <3>1, <3>2 DEF InFront
  <2>3. ASSUME NEW i \in DOMAIN q, q[i] # Head(q) PROVE InFront(q, Head(q), q[i])
    <3>1. 1 \in 1 .. Len(q) /\ i \in 1 .. Len(q) /\ 1 < i
      BY <1>1, <2>1, <2>3
    <3> QED BY <1>1, <2>1, <3>1 DEF InFront
  <2> QED BY <2>2, <2>3
<1> QED BY <1>2, <1>3

\* A worker's queue after one more item ...
LEMMA NearerAppended ==
    ASSUME NEW q \in Seq(Item0), NEW it \in Item0, None \notin Named(q),
           NEW a, NEW b, a # None, b # None, Nearer(Append(q, it), a, b)
    PROVE  Nearer(q, a, b) \/ b = it.msg
<1> DEFINE r == Append(q, it)
<1>1. /\ Len(q) \in Nat /\ DOMAIN q = 1 .. Len(q) /\ DOMAIN r = 1 .. Len(q) + 1
      /\ r[Len(q) + 1] = it /\ \A i \in 1 .. Len(q) : r[i] = q[i]
  OBVIOUS
<1> HIDE DEF r
<1>2. \A i \in 1 .. Len(q) : r[i].msg # None /\ q[i].msg # None
  BY <1>1 DEF Named
<1>3. PICK i, j \in DOMAIN r : r[i].msg = a /\ r[j].msg = b
                               /\ ((i < j /\ ~MarkBetween(r, i, j)) \/ (j < i /\ MarkBetween(r, j, i)))
  BY DEF Nearer, r
<1>4. i < j
  <2>1. ASSUME j < i, MarkBetween(r, j, i) PROVE FALSE
    <3>1. PICK p \in DOMAIN r : r[p].msg = None /\ j < p /\ p < i
      BY <2>1 DEF MarkBetween
    <3>2. p \in 1 .. Len(q)
      BY <1>1, <3>1
    <3> QED BY <1>2, <3>1, <3>2
  <2> QED BY <1>3, <2>1
<1>5. CASE j = Len(q) + 1
  BY <1>1, <1>3, <1>5
<1>6. CASE j # Len(q) + 1
  <2>1. i \in 1 .. Len(q) /\ j \in 1 .. Len(q) /\ q[i].msg = a /\ q[j].msg = b
    BY <1>1, <1>3, <1>4, <1>6
  <2>2. ~MarkBetween(q, i, j)
    BY <1>1, <1>2 DEF MarkBetween
  <2> QED BY <1>1, <1>4, <2>1, <2>2 DEF Nearer
<1> QED BY <1>5, <1>6

\* ... without its head ...
LEMMA NearerTail ==
    ASSUME NEW q \in Seq(Item0), q # <<>>, NEW a, NEW b, Nearer(Tail(q), a, b)
    PROVE  Nearer(q, a, b)
<1> DEFINE r == Tail(q)
<1>1. /\ Len(q) \in Nat /\ Len(q) # 0 /\ DOMAIN q = 1 .. Len(q) /\ DOMAIN r = 1 .. Len(q) - 1
      /\ \A i \in 1 .. Len(q) - 1 : r[i] = q[i + 1]
  OBVIOUS
<1> HIDE DEF r
<1>2. \A i, j \in DOMAIN r : MarkBetween(q, i + 1, j + 1) <=> MarkBetween(r, i, j)
  <2> SUFFICES ASSUME NEW i \in DOMAIN r, NEW j \in DOMAIN r
               PROVE  MarkBetween(q, i + 1, j + 1) <=> MarkBetween(r, i, j)
    OBVIOUS
  <2>1. ASSUME NEW p \in DOMAIN q, q[p].msg = None, i + 1 < p, p < j + 1 PROVE MarkBetween(r, i, j)
    <3>1. p - 1 \in DOMAIN r /\ (p - 1) + 1 = p /\ i < p - 1 /\ p - 1 < j
      BY <1>1, <2>1
    <3>2. r[p - 1] = q[p]
      BY <1>1, <3>1
    <3> QED BY <2>1, <3>1, <3>2 DEF MarkBetween
  <2>2. ASSUME NEW p \in DOMAIN r, r[p].msg = None, i < p, p < j PROVE MarkBetween(q, i + 1, j + 1)
    <3>1. p + 1 \in DOMAIN q /\ i + 1 < p + 1 /\ p + 1 < j + 1 /\ q[p + 1].msg = None
      BY <1>1, <2>2
    <3> QED BY <3>1 DEF MarkBetween
  <2> QED BY <2>1, <2>2 DEF MarkBetween
<1>3. PICK i, j \in DOMAIN r : r[i].msg = a /\ r[j].msg = b
                               /\ ((i < j /\ ~MarkBetween(r, i, j)) \/ (j < i /\ MarkBetween(r, j, i)))
  BY DEF Nearer, r
<1>4. /\ i + 1 \in DOMAIN q /\ j + 1 \in DOMAIN q /\ q[i + 1].msg = a /\ q[j + 1].msg = b
      /\ i < j => i + 1 < j + 1
      /\ j < i => j + 1 < i + 1
  BY <1>1, <1>3
<1> QED BY <1>2, <1>3, <1>4 DEF Nearer

\* ... which was the nearest ...
LEMMA HeadIsNearest ==
    ASSUME NEW q \in Seq(Item0), None \notin Named(q), NEW b \in Named(q), b # Head(q).msg
    PROVE  Nearer(q, Head(q).msg, b)
<1>1. PICK j \in DOMAIN q : q[j].msg = b
  BY DEF Named
<1>2. 1 \in DOMAIN q /\ Head(q) = q[1] /\ 1 < j
  BY <1>1
<1>3. ~MarkBetween(q, 1, j)
  BY DEF MarkBetween, Named
<1> QED BY <1>1, <1>2, <1>3 DEF Nearer

\* ... and turned by one, with the marker in it.
LEMMA NearerTurned ==
    ASSUME NEW q \in Seq(Item0), \A i, j \in DOMAIN q : q[i].msg = q[j].msg => i = j,
           None \in Named(q), Head(q).msg # None,
           NEW a, NEW b, a # None, b # None, Nearer(Append(Tail(q), Head(q)), a, b)
    PROVE  Nearer(q, a, b)
<1> DEFINE r == Append(Tail(q), Head(q))
<1>1. PICK p \in DOMAIN q : q[p].msg = None
  BY DEF Named
<1>2. /\ Len(q) \in Nat /\ Len(q) # 0 /\ DOMAIN q = 1 .. Len(q) /\ p # 1
  BY <1>1
<1>3. /\ DOMAIN r = 1 .. Len(q) /\ r[Len(q)] = q[1]
      /\ \A i \in 1 .. Len(q) - 1 : r[i] = q[i + 1]
  <2>1. /\ q # <<>> /\ Head(q) = q[1] /\ Head(q) \in Item0 /\ Tail(q) \in Seq(Item0)
        /\ Len(Tail(q)) = Len(q) - 1 /\ \A i \in 1 .. Len(q) - 1 : Tail(q)[i] = q[i + 1]
    BY <1>2
  <2> QED BY <1>2, <2>1
<1> HIDE DEF r
<1>4. \A i, j : MarkBetween(q, i, j) <=> (i < p /\ p < j)
  BY <1>1 DEF MarkBetween
<1>5. p - 1 \in DOMAIN r /\ \A i \in DOMAIN r : r[i].msg = None <=> i = p - 1
  <2>1. p - 1 \in 1 .. Len(q) - 1 /\ r[p - 1] = q[p]
    BY <1>1, <1>2, <1>3
  <2>2. ASSUME NEW i \in 1 .. Len(q) - 1, r[i].msg = None PROVE i = p - 1
    BY <1>1, <1>2, <1>3, <2>2
  <2>3. r[Len(q)].msg # None
    BY <1>1, <1>2, <1>3
  <2> QED BY <1>1, <1>2, <1>3, <2>1, <2>2, <2>3
<1>6. \A i, j : MarkBetween(r, i, j) <=> (i < p - 1 /\ p - 1 < j)
  BY <1>5 DEF MarkBetween
<1>7. PICK i, j \in DOMAIN r : r[i].msg = a /\ r[j].msg = b
                               /\ ((i < j /\ ~MarkBetween(r, i, j)) \/ (j < i /\ MarkBetween(r, j, i)))
  BY DEF Nearer, r
<1>8. i # p - 1 /\ j # p - 1
  BY <1>5, <1>7
<1>9. CASE i \in 1 .. Len(q) - 1 /\ j \in 1 .. Len(q) - 1
  <2>1. i + 1 \in DOMAIN q /\ j + 1 \in DOMAIN q /\ q[i + 1].msg = a /\ q[j + 1].msg = b
    BY <1>2, <1>3, <1>7, <1>9
  <2>2. (i + 1 < j + 1 /\ ~MarkBetween(q, i + 1, j + 1)) \/ (j + 1 < i + 1 /\ MarkBetween(q, j + 1, i + 1))
    BY <1>2, <1>4, <1>6, <1>7, <1>9
  <2> QED BY <2>1, <2>2 DEF Nearer
<1>10. CASE i = Len(q) /\ j \in 1 .. Len(q) - 1
  <2>1. 1 \in DOMAIN q /\ j + 1 \in DOMAIN q /\ q[1].msg = a /\ q[j + 1].msg = b
    BY <1>2, <1>3, <1>7, <1>10
  <2>2. 1 < j + 1 /\ ~MarkBetween(q, 1, j + 1)
    BY <1>2, <1>4, <1>6, <1>7, <1>10
  <2> QED BY <2>1, <2>2 DEF Nearer
<1>11. CASE j = Len(q) /\ i \in 1 .. Len(q) - 1
  <2>1. 1 \in DOMAIN q /\ i + 1 \in DOMAIN q /\ q[i + 1].msg = a /\ q[1].msg = b
    BY <1>2, <1>3, <1>7, <1>11
  <2>2. 1 < i + 1 /\ MarkBetween(q, 1, i + 1)
    BY <1>2, <1>4, <1>6, <1>7, <1>8, <1>11
  <2> QED BY <2>1, <2>2 DEF Nearer
<1> QED BY <1>2, <1>3, <1>7, <1>9, <1>10, <1>11

-----------------------------------------------------------------------------
(* What the invariant says of a state.                                     *)

\* A command is in one place: with the application, in a queue, with a thread or with a
\* component.
LEMMA Whereabouts ==
    ASSUME BaseInv, NEW m \in Msgs
    PROVE  /\ \/ m \in owned \/ m \in InCmdq \/ m = dsp.msg
              \/ \E w \in Workers : m \in Named(queue[w]) \/ m = wk[w].msg
              \/ \E k \in Components : m \in inside[k]
           /\ m \in owned => /\ m \notin InCmdq /\ m # dsp.msg
                             /\ \A w \in Workers : m \notin Named(queue[w]) /\ m # wk[w].msg
                             /\ \A k \in Components : m \notin inside[k]
           /\ m \in InCmdq => /\ m # dsp.msg
                              /\ \A w \in Workers : m \notin Named(queue[w]) /\ m # wk[w].msg
                              /\ \A k \in Components : m \notin inside[k]
           /\ m = dsp.msg => /\ \A w \in Workers : m \notin Named(queue[w]) /\ m # wk[w].msg
                             /\ \A k \in Components : m \notin inside[k]
           /\ \A w \in Workers : m \in Named(queue[w]) =>
                /\ \A v \in Workers : m # wk[v].msg /\ (v # w => m \notin Named(queue[v]))
                /\ \A k \in Components : m \notin inside[k]
           /\ \A w \in Workers : m = wk[w].msg =>
                /\ \A v \in Workers : v # w => m # wk[v].msg
                /\ \A k \in Components : m \notin inside[k]
<1> DEFINE At(p) == m \in Holding(p)
<1>1. PICK p \in Holders : \A q \in Holders : At(q) <=> q = p
  BY DEF BaseInv, MessagesConserved
<1>2. m # None
  BY Numbers
<1>3. /\ m \in owned <=> At(<<"application", None>>)
      /\ m \in InCmdq <=> At(<<"dsp queue", None>>)
      /\ m = dsp.msg <=> At(<<"dsp", None>>)
      /\ \A w \in Workers : m \in Named(queue[w]) <=> At(<<"queue", w>>)
      /\ \A w \in Workers : m = wk[w].msg <=> At(<<"worker", w>>)
      /\ \A k \in Components : m \in inside[k] <=> At(<<"component", k>>)
  <2>1. m \in owned <=> At(<<"application", None>>)
    BY HoldingIs
  <2>2. m \in InCmdq <=> At(<<"dsp queue", None>>)
    BY HoldingIs DEF InCmdq
  <2>3. m = dsp.msg <=> At(<<"dsp", None>>)
    <3>1. Holding(<<"dsp", None>>) = {dsp.msg} \ {None}
      BY HoldingIs
    <3> QED BY <1>2, <3>1
  <2>4. ASSUME NEW w \in Workers PROVE m \in Named(queue[w]) <=> At(<<"queue", w>>)
    <3>1. Holding(<<"queue", w>>) = Named(queue[w]) \ {None}
      BY HoldingIs
    <3> QED BY <1>2, <3>1
  <2>5. ASSUME NEW w \in Workers PROVE m = wk[w].msg <=> At(<<"worker", w>>)
    <3>1. Holding(<<"worker", w>>) = {wk[w].msg} \ {None}
      BY HoldingIs
    <3> QED BY <1>2, <3>1
  <2>6. ASSUME NEW k \in Components PROVE m \in inside[k] <=> At(<<"component", k>>)
    <3>1. Holding(<<"component", k>>) = inside[k]
      BY HoldingIs
    <3> QED BY <3>1
  <2> HIDE DEF At
  <2> QED BY <2>1, <2>2, <2>3, <2>4, <2>5, <2>6
<1> HIDE DEF At
<1> DEFINE A == <<"application", None>>
           C == <<"dsp queue", None>>
           D == <<"dsp", None>>
           Q(w) == <<"queue", w>>
           W(w) == <<"worker", w>>
           K(k) == <<"component", k>>
<1>4. /\ {A, C, D} \subseteq Holders
      /\ \A w \in Workers : Q(w) \in Holders /\ W(w) \in Holders
      /\ \A k \in Components : K(k) \in Holders
      /\ \A x \in Holders : \/ x = A \/ x = C \/ x = D
                            \/ \E w \in Workers : x = Q(w) \/ x = W(w)
                            \/ \E k \in Components : x = K(k)
  BY HoldersAre
<1>5. /\ A # C /\ A # D /\ C # D
      /\ \A w \in Workers : A # Q(w) /\ A # W(w) /\ C # Q(w) /\ C # W(w) /\ D # Q(w) /\ D # W(w)
      /\ \A k \in Components : A # K(k) /\ C # K(k) /\ D # K(k)
      /\ \A v, w \in Workers : Q(v) # W(w) /\ (v # w => Q(v) # Q(w) /\ W(v) # W(w))
      /\ \A w \in Workers, k \in Components : Q(w) # K(k) /\ W(w) # K(k)
  OBVIOUS
<1> HIDE DEF A, C, D, Q, W, K
<1>6. /\ m \in owned <=> At(A)
      /\ m \in InCmdq <=> At(C)
      /\ m = dsp.msg <=> At(D)
      /\ \A w \in Workers : m \in Named(queue[w]) <=> At(Q(w))
      /\ \A w \in Workers : m = wk[w].msg <=> At(W(w))
      /\ \A k \in Components : m \in inside[k] <=> At(K(k))
  BY <1>3 DEF A, C, D, Q, W, K
<1>7. \A x \in Holders : At(x) <=> x = p
  BY <1>1
<1>8. /\ \/ At(A) \/ At(C) \/ At(D)
         \/ \E w \in Workers : At(Q(w)) \/ At(W(w))
         \/ \E k \in Components : At(K(k))
      /\ At(A) => /\ ~At(C) /\ ~At(D) /\ \A w \in Workers : ~At(Q(w)) /\ ~At(W(w))
                  /\ \A k \in Components : ~At(K(k))
      /\ At(C) => /\ ~At(D) /\ \A w \in Workers : ~At(Q(w)) /\ ~At(W(w))
                  /\ \A k \in Components : ~At(K(k))
      /\ At(D) => /\ \A w \in Workers : ~At(Q(w)) /\ ~At(W(w))
                  /\ \A k \in Components : ~At(K(k))
  BY <1>4, <1>5, <1>7
<1>9. /\ \A w \in Workers : At(Q(w)) =>
           /\ \A v \in Workers : ~At(W(v)) /\ (v # w => ~At(Q(v)))
           /\ \A k \in Components : ~At(K(k))
      /\ \A w \in Workers : At(W(w)) =>
           /\ \A v \in Workers : v # w => ~At(W(v))
           /\ \A k \in Components : ~At(K(k))
  BY <1>4, <1>5, <1>7
<1> QED BY <1>6, <1>8, <1>9

\* Of two commands in the history one is before the other, and none is before the first.
LEMMA OneIsBefore ==
    ASSUME TypeOK, NEW k \in Components, NEW m \in SentTo(k)
    PROVE  /\ \A n \in SentTo(k) : n # m => Before(k, m, n) \/ Before(k, n, m)
           /\ Head(sent[k]) \in SentTo(k)
           /\ m # Head(sent[k]) => Before(k, Head(sent[k]), m)
<1> DEFINE q == sent[k]
<1>1. q \in Seq(Msgs) /\ Len(q) \in Nat /\ DOMAIN q = 1 .. Len(q)
  BY DEF TypeOK
<1>2. PICK i \in DOMAIN q : q[i] = m
  BY DEF SentTo
<1>3. 1 \in DOMAIN q /\ Head(q) = q[1]
  BY <1>1, <1>2
<1>4. ASSUME NEW n \in SentTo(k), n # m PROVE Before(k, m, n) \/ Before(k, n, m)
  <2>1. PICK j \in DOMAIN q : q[j] = n
    BY DEF SentTo
  <2>2. i < j \/ j < i
    BY <1>1, <1>2, <1>4, <2>1
  <2> QED BY <1>2, <2>1, <2>2 DEF Before
<1>5. ASSUME m # Head(q) PROVE Before(k, Head(q), m)
  <2>1. 1 < i
    BY <1>1, <1>2, <1>3, <1>5
  <2> QED BY <1>2, <1>3, <2>1 DEF Before
<1> QED BY <1>3, <1>4, <1>5 DEF SentTo

\* Commands that are before one another are in the history.
LEMMA BeforeSent ==
    ASSUME NEW k, NEW m, NEW n, Before(k, m, n) PROVE m \in SentTo(k) /\ n \in SentTo(k)
BY DEF Before, SentTo

\* A worker that purges a queue or recycles a client runs alone.
LEMMA PurgeExcludes ==
    ASSUME BaseInv, ElevatedInv, NEW w \in Workers, wk[w].pc \in {"purge", "free"}
    PROVE  /\ elevated = w /\ ~NoneElevated
           /\ \A v \in Workers : WorkerMayRun(v) => v = w
<1>1. elevated = w
  BY DEF ElevatedInv
<1>2. ~Blocked(w)
  <2>1. CASE wk[w].pc = "purge"
    <3>1. None \in Named(queue[w]) /\ wk[w].at = w
      BY <2>1 DEF BaseInv, ThreadInv, MarkerInv, CompInv, Cleans
    <3>2. queue[w] # <<>>
      <4>1. Named(<<>>) = {}
        BY DEF Named
      <4> QED BY <3>1, <4>1
    <3> QED BY <2>1, <3>1, <3>2 DEF Blocked
  <2>2. CASE wk[w].pc = "free"
    BY <2>2 DEF Blocked
  <2> QED BY <2>1, <2>2
<1> QED BY <1>1, <1>2 DEF NoneElevated, WorkerMayRun

\* The DSP thread finds the component a command is for and sends it to the worker of its
\* priority ...
LEMMA Routed ==
    ASSUME OrderlyInv
    PROVE  /\ DspLookup => /\ dsp' = [pc |-> "route", msg |-> Head(cmdq), to |-> cmd[Head(cmdq)].for, at |-> None]
                           /\ cmd[Head(cmdq)].for \in alive /\ cmd[Head(cmdq)].op # "register"
                           /\ UNCHANGED <<owned, sent>>
           /\ \A w \in Workers : DspRoute(w) => w = prio[dsp.to]
<1>1. ASSUME DspLookup
      PROVE  /\ dsp' = [pc |-> "route", msg |-> Head(cmdq), to |-> cmd[Head(cmdq)].for, at |-> None]
             /\ cmd[Head(cmdq)].for \in alive /\ cmd[Head(cmdq)].op # "register"
             /\ UNCHANGED <<owned, sent>>
  <2>1. cmdq \in Seq(Msgs) /\ cmdq # <<>> /\ Head(cmdq) = cmdq[1] /\ 1 \in DOMAIN cmdq
    BY <1>1 DEF DspLookup, OrderlyInv, BaseInv, TypeOK
  <2>2. cmd[Head(cmdq)].op # "register" /\ cmd[Head(cmdq)].for \in alive
    BY <1>1, <2>1 DEF DspLookup, OrderlyInv, PlaceInv, RouteInv, InCmdq
  <2>3. Lookup(Client(Head(cmdq))) = cmd[Head(cmdq)].for /\ cmd[Head(cmdq)].for # None
    <3>1. /\ cmd[Head(cmdq)].for \in Components
          /\ id[cmd[Head(cmdq)].for] \in Ids /\ cmap[id[cmd[Head(cmdq)].for]] = cmd[Head(cmdq)].for
      BY <2>2 DEF OrderlyInv, BaseInv, TypeOK, ThreadInv, CompInv
    <3> QED BY <3>1, Numbers DEF Lookup, Client
  <2> QED BY <1>1, <2>2, <2>3 DEF DspLookup
<1>2. ASSUME NEW w \in Workers, DspRoute(w) PROVE w = prio[dsp.to]
  BY <1>2 DEF DspRoute, PriorityRead, OrderlyInv, PlaceInv, RouteInv
<1> QED BY <1>1, <1>2

\* ... which finds it alive and enters it.
LEMMA Found ==
    ASSUME OrderlyInv, NEW w \in Workers
    PROVE  /\ ~WorkerReject(w)
           /\ \A p \in Workers : WorkerLookup(w, p) => p = w
<1>1. ASSUME wk[w].pc = "lookup"
      PROVE  /\ Lookup(Client(wk[w].msg)) # None /\ wk[w].to \in alive /\ prio[wk[w].to] = w
  <2>1. cmd[wk[w].msg].for = wk[w].to /\ wk[w].to \in alive /\ prio[wk[w].to] = w
    BY <1>1 DEF OrderlyInv, PlaceInv, HandInv
  <2>2. wk[w].to \in Components /\ id[wk[w].to] \in Ids /\ cmap[id[wk[w].to]] = wk[w].to
    BY <2>1 DEF OrderlyInv, BaseInv, TypeOK, ThreadInv, CompInv
  <2> QED BY <2>1, <2>2, Numbers DEF Lookup, Client
<1> QED BY <1>1 DEF WorkerReject, WorkerLookup, PriorityRead

\* What a worker executes.
LEMMA Executing ==
    ASSUME OrderlyInv, NEW w \in Workers, NEW op, Enter(w, op)
    PROVE  /\ wk[w].pc = "entry" /\ wk[w].msg \in Msgs \ owned /\ wk[w].to \in Components
           /\ wk[w].to \in alive /\ prio[wk[w].to] = w /\ wk[w].at = w
           /\ cmd[wk[w].msg].op = op /\ op # "register" /\ cmd[wk[w].msg].for = wk[w].to
           /\ wk[w].msg \in SentTo(wk[w].to)
<1>1. /\ wk[w].pc = "entry" /\ cmd[wk[w].msg].op = op
      /\ wk[w].msg \in Msgs /\ wk[w].to \in Components
  BY DEF Enter, OrderlyInv, BaseInv, TypeOK, ShapeInv, WorkerInv
<1>2. /\ wk[w].msg \notin owned
      /\ \A k \in Components : wk[w].msg \notin inside[k]
  BY <1>1, Whereabouts DEF OrderlyInv
<1>3. /\ op # "register" /\ cmd[wk[w].msg].for = wk[w].to
      /\ wk[w].to \in alive /\ prio[wk[w].to] = w /\ wk[w].at = w
  BY <1>1 DEF OrderlyInv, PlaceInv, HandInv
<1>4. wk[w].msg \in SentTo(wk[w].to)
  BY <1>1, <1>2, <1>3 DEF OrderlyInv, SentInv
<1> QED BY <1>1, <1>2, <1>3, <1>4

\* A component that changes its worker has no other command and no task.
LEMMA MovesAlone ==
    ASSUME OrderlyInv, NEW w \in Workers, WorkerSetParam(w)
    PROVE  \/ prio' = prio
           \/ /\ inside[wk[w].to] = {} /\ wk[w].to \notin flag
              /\ \A n \in Msgs \ owned : cmd[n].for = wk[w].to => n = wk[w].msg
<1> DEFINE k == wk[w].to
           m == wk[w].msg
<1>1. /\ m \in Msgs \ owned /\ cmd[m].op = "setparam" /\ cmd[m].for = k /\ k \in Components
  BY Executing DEF WorkerSetParam
<1>2. prio' = [prio EXCEPT ![k] = IF cmd[m].arg # None THEN cmd[m].arg ELSE IF k \in ready THEN prio[k] ELSE 0]
  BY DEF WorkerSetParam
<1> HIDE DEF k, m
<1>3. CASE ~Moves(k, cmd[m].arg)
  <2>1. prio' = [prio EXCEPT ![k] = prio[k]]
    BY <1>2, <1>3 DEF Moves
  <2> QED BY <2>1 DEF OrderlyInv, BaseInv, TypeOK
<1>4. CASE Moves(k, cmd[m].arg)
  <2>1. \A n \in Msgs \ owned : cmd[n].for = k => n = m
    BY <1>1, <1>4 DEF OrderlyInv, MoveInv
  <2>2. m \notin inside[k]
    BY <1>1, Whereabouts DEF OrderlyInv, m
  <2>3. \A n \in inside[k] : n \in Msgs \ owned /\ cmd[n].for = k
    BY <1>1 DEF OrderlyInv, TaskInv, BaseInv, TypeOK
  <2>4. inside[k] = {} /\ k \notin flag
    BY <1>1, <2>1, <2>2, <2>3 DEF OrderlyInv, TaskInv
  <2> QED BY <2>1, <2>4 DEF k, m
<1> QED BY <1>3, <1>4

\* A worker's queue has commands and markers.
LEMMA QueueNames ==
    ASSUME BaseInv, NEW v \in Workers PROVE Named(queue[v]) \subseteq Msgs \cup {None}
<1> DEFINE q == queue[v]
<1>1. q \in Seq(Item0)
  BY DEF BaseInv, TypeOK, Item0
<1> HIDE DEF q
<1>2. \A i \in DOMAIN q : q[i] \in Item0
  BY <1>1
<1> QED BY <1>2 DEF Named, Item0, q

\* A queue without a marker is not longer than there are commands that may be in it.
LEMMA QueueFits ==
    ASSUME BaseInv, IsFiniteSet(Msgs), NEW v \in Workers, NEW S \in SUBSET Msgs,
           None \notin Named(queue[v]), Named(queue[v]) \subseteq S
    PROVE  Len(queue[v]) \in Nat /\ Cardinality(S) \in Nat /\ Len(queue[v]) <= Cardinality(S)
<1> DEFINE q == queue[v]
           f == [i \in 1 .. Len(q) |-> q[i].msg]
<1>1. q \in Seq(Item0) /\ Len(q) \in Nat /\ DOMAIN q = 1 .. Len(q)
  <2>1. q \in Seq(Item0)
    BY DEF BaseInv, TypeOK, Item0
  <2> HIDE DEF q
  <2> QED BY <2>1
<1>2. \A i \in 1 .. Len(q) : q[i].msg \in S
  BY <1>1 DEF Named
<1>3. \A i, j \in 1 .. Len(q) : q[i].msg = q[j].msg => i = j
  BY <1>1 DEF BaseInv, MessagesConserved
<1>4. f \in Injection(1 .. Len(q), S)
  <2>1. f \in [1 .. Len(q) -> S]
    BY <1>2
  <2> QED BY <1>3, <2>1 DEF Injection, IsInjective
<1>5. IsFiniteSet(S) /\ Cardinality(S) \in Nat
  BY FS_Subset, FS_CardinalityType
<1>6. Cardinality(1 .. Len(q)) = Len(q) /\ IsFiniteSet(1 .. Len(q))
  <2>1. \A n \in Nat : Cardinality(1 .. n) = IF 1 > n THEN 0 ELSE n - 1 + 1
    BY FS_Interval
  <2>2. \A n \in Nat : Cardinality(1 .. n) = n
    BY <2>1
  <2> HIDE DEF q
  <2> QED BY <1>1, <2>2, FS_Interval
<1> HIDE DEF f, q
<1>7. Cardinality(1 .. Len(q)) <= Cardinality(S)
  BY <1>4, <1>5, <1>6, FS_Injection
<1> QED BY <1>1, <1>5, <1>6, <1>7 DEF q

\* A queue that cannot take the command of the DSP thread has a marker, if it has room for all.
LEMMA Roomy ==
    ASSUME BaseInv, IsFiniteSet(Msgs), Cardinality(Msgs) <= QueueEntries,
           NEW v \in Workers, dsp.msg \in Msgs, QueueFull(v)
    PROVE  None \in Named(queue[v])
<1> SUFFICES ASSUME None \notin Named(queue[v]) PROVE FALSE
  OBVIOUS
<1> DEFINE S == Msgs \ {dsp.msg}
<1>1. Named(queue[v]) \subseteq S
  <2>1. Named(queue[v]) \subseteq Msgs \cup {None}
    BY QueueNames
  <2> QED BY <2>1, Whereabouts
<1>2. Cardinality(S) = Cardinality(Msgs) - 1 /\ Cardinality(Msgs) \in Nat
  BY FS_RemoveElement, FS_CardinalityType
<1>3. Len(queue[v]) \in Nat /\ Len(queue[v]) <= Cardinality(S)
  BY <1>1, QueueFits
<1>4. Len(queue[v]) >= QueueEntries /\ QueueEntries \in Nat
  BY QueueAssumption DEF QueueFull
<1> HIDE DEF S
<1> QED BY <1>2, <1>3, <1>4

\* A component's deletion is the last the DSP thread has to do with it.
LEMMA ExitsAlone ==
    ASSUME OrderlyInv, NEW w \in Workers, WorkerUnregister(w)
    PROVE  /\ \A m \in InCmdq : cmd[m].op # "register" => cmd[m].for # wk[w].to
           /\ dsp.pc \in {"route", "send"} => dsp.to # wk[w].to
<1> DEFINE k == wk[w].to
           x == wk[w].msg
<1>1. /\ wk[w].pc = "entry" /\ x \in Msgs \ owned /\ cmd[x].op = "unregister" /\ cmd[x].for = k
      /\ k \in Components /\ x \in SentTo(k)
  BY Executing DEF WorkerUnregister
<1>2. x \notin InCmdq /\ x # dsp.msg
  BY <1>1, Whereabouts DEF OrderlyInv
<1>3. CASE DataUntil = "asked"
  <2>1. ASSUME NEW m \in Msgs, m \in InCmdq \/ m = dsp.msg, cmd[m].op # "register" PROVE cmd[m].for # k
    <3> SUFFICES ASSUME cmd[m].for = k PROVE FALSE
      OBVIOUS
    <3>1. m \notin owned /\ m # x /\ \A h \in Components : m \notin inside[h]
      BY <1>1, <1>2, <2>1, Whereabouts DEF OrderlyInv
    <3>2. m \in SentTo(k)
      BY <1>1, <2>1, <3>1 DEF OrderlyInv, SentInv
    <3>3. TypeOK
      BY DEF OrderlyInv, BaseInv
    <3> HIDE DEF k, x
    <3>4. Before(k, m, x) \/ Before(k, x, m)
      BY <1>1, <3>1, <3>2, <3>3, OneIsBefore
    <3>5. ~Before(k, x, m)
      BY <1>1, <1>3 DEF OrderlyInv, OrderInv
    <3>6. x \in InCmdq
      BY <1>1, <2>1, <3>4, <3>5 DEF OrderlyInv, OrderInv
    <3> QED BY <1>2, <3>6
  <2>2. InCmdq \subseteq Msgs
    BY DEF InCmdq, OrderlyInv, BaseInv, TypeOK
  <2>3. dsp.pc \in {"route", "send"} => dsp.msg \in Msgs /\ cmd[dsp.msg].op # "register" /\ dsp.to = cmd[dsp.msg].for
    BY DEF OrderlyInv, PlaceInv, RouteInv, BaseInv, TypeOK, ShapeInv, DspInv
  <2> QED BY <2>1, <2>2, <2>3
<1>4. CASE IsFiniteSet(Msgs) /\ Cardinality(Msgs) <= QueueEntries
  <2>1. WorkerMayRun(w) /\ elevated # w
    BY <1>1 DEF WorkerUnregister, Enter, OrderlyInv, ElevatedInv
  <2>2. NoneElevated /\ ~DspReady
    BY <2>1 DEF WorkerMayRun
  <2>3. ~DspBlocked
    <3> SUFFICES ASSUME dsp.pc = "send", QueueFull(dsp.at) PROVE FALSE
      BY DEF DspBlocked
    <3>1. dsp.at \in Workers /\ dsp.msg \in Msgs
      BY DEF OrderlyInv, BaseInv, TypeOK, ShapeInv, DspInv
    <3> DEFINE v == dsp.at
    <3>2. None \in Named(queue[v])
      BY <1>4, <3>1, Roomy DEF OrderlyInv
    <3>3. wk[v].pc = "purge"
      BY <3>1, <3>2 DEF OrderlyInv, BaseInv, ThreadInv, MarkerInv
    <3> QED BY <2>2, <3>1, <3>3, PurgeExcludes DEF OrderlyInv
  <2>4. dsp.pc = "idle" /\ cmdq = <<>>
    BY <2>2, <2>3 DEF DspReady
  <2>5. InCmdq = {}
    <3>1. DOMAIN cmdq = {}
      BY <2>4
    <3> QED BY <3>1 DEF InCmdq
  <2> QED BY <2>4, <2>5
<1> QED BY <1>3, <1>4 DEF OrderlyInv, InTime

-----------------------------------------------------------------------------
(* Who runs.                                                               *)

StepsOf(w) ==
    \/ \E k \in Components : WorkerTask(w, k)
    \/ \E done \in SUBSET Msgs : WorkerProcess(w, done)
    \/ \E p \in Workers : WorkerLookup(w, p)
    \/ WorkerWait(w) \/ WorkerRecv(w) \/ WorkerReject(w)
    \/ WorkerData(w) \/ WorkerSetParam(w) \/ WorkerUnregister(w)
    \/ WorkerElevate(w) \/ WorkerMarker(w) \/ WorkerPurge(w) \/ WorkerFree(w)

\* Every step is one of these actors'.
LEMMA Actors == [Next]_vars => AppSteps \/ DspSteps \/ (\E w \in Workers : StepsOf(w)) \/ UNCHANGED vars
BY NextIsSteps DEF WorkerSteps, StepsOf

\* What a worker receives is no marker.
LEMMA Receives ==
    ASSUME BaseInv, NEW w \in Workers, WorkerRecv(w)
    PROVE  /\ wk[w].pc = "wait" /\ queue[w] \in Seq(Item0) /\ queue[w] # <<>> /\ 1 \in DOMAIN queue[w]
           /\ None \notin Named(queue[w]) /\ Head(queue[w]) = queue[w][1]
           /\ Head(queue[w]).msg \in Msgs /\ Head(queue[w]).to \in Components
           /\ wk' = [wk EXCEPT ![w] = [pc |-> "lookup", msg |-> Head(queue[w]).msg,
                                       to |-> Head(queue[w]).to, at |-> None]]
           /\ queue' = [queue EXCEPT ![w] = Tail(queue[w])]
<1>1. queue[w] \in Seq(Item0) /\ queue[w] # <<>> /\ wk[w].pc = "wait"
  BY DEF WorkerRecv, BaseInv, TypeOK, Item0
<1>2. None \notin Named(queue[w])
  BY <1>1 DEF BaseInv, ThreadInv, MarkerInv
<1>3. /\ 1 \in DOMAIN queue[w] /\ Head(queue[w]) = queue[w][1]
      /\ Head(queue[w]).msg \in Named(queue[w]) /\ Head(queue[w]) # Marker
  BY <1>1, <1>2, TailNamed DEF Marker, Item
<1>4. Head(queue[w]).msg \in Msgs /\ Head(queue[w]).to \in Components
  BY <1>3 DEF BaseInv, ShapeInv, QueueInv
<1> QED BY <1>1, <1>2, <1>3, <1>4 DEF WorkerRecv

\* How a worker goes from place to place, and when it is raised.
LEMMA Goes ==
    ASSUME BaseInv, NEW w \in Workers, StepsOf(w)
    PROVE  /\ WorkerMayRun(w)
           /\ \A v \in Workers \ {w} : wk'[v] = wk[v] /\ queue'[v] = queue[v]
           /\ \/ /\ wk[w].pc \in {"idle", "wait", "task", "lookup", "entry"} /\ elevated' = elevated
                 /\ wk'[w].pc \in {"idle", "wait", "task", "lookup", "entry", "cleanup"}
              \/ wk[w].pc = "cleanup" /\ wk'[w].pc = "marker" /\ elevated' = w
              \/ wk[w].pc = "marker" /\ wk'[w].pc = "purge" /\ elevated' = elevated /\ ~QueueFull(w)
              \/ wk[w].pc = "purge" /\ wk'[w].pc \in {"purge", "free"} /\ elevated' = elevated
              \/ wk[w].pc = "free" /\ wk'[w].pc = "idle" /\ elevated' = None
<1>1. wk \in [Workers -> [pc : WorkerPlaces, msg : Msgs \cup {None},
                          to : Components \cup {None}, at : Workers \cup {None}]]
  BY DEF BaseInv, TypeOK
<1>2. ASSUME NEW k \in Components, WorkerTask(w, k)
      PROVE  /\ WorkerMayRun(w) /\ wk[w].pc = "idle" /\ UNCHANGED <<queue, elevated>>
             /\ wk'[w].pc = "task" /\ \A v \in Workers \ {w} : wk'[v] = wk[v]
  BY <1>1, <1>2 DEF WorkerTask
<1>3. ASSUME NEW done \in SUBSET Msgs, WorkerProcess(w, done)
      PROVE  /\ WorkerMayRun(w) /\ wk[w].pc = "task" /\ UNCHANGED <<queue, elevated>>
             /\ wk'[w].pc = "idle" /\ \A v \in Workers \ {w} : wk'[v] = wk[v]
  <2>1. WorkerMayRun(w) /\ wk[w].pc = "task" /\ UNCHANGED <<queue, elevated>> /\ wk' = [wk EXCEPT ![w] = Idle]
    BY <1>3 DEF WorkerProcess
  <2> QED BY <1>1, <2>1 DEF Idle
<1>4. ASSUME NEW p \in Workers, WorkerLookup(w, p)
      PROVE  /\ WorkerMayRun(w) /\ wk[w].pc = "lookup" /\ UNCHANGED <<queue, elevated>>
             /\ wk'[w].pc = "entry" /\ \A v \in Workers \ {w} : wk'[v] = wk[v]
  BY <1>1, <1>4 DEF WorkerLookup
<1>5. ASSUME WorkerWait(w)
      PROVE  /\ WorkerMayRun(w) /\ wk[w].pc = "idle" /\ UNCHANGED <<queue, elevated>>
             /\ wk'[w].pc = "wait" /\ \A v \in Workers \ {w} : wk'[v] = wk[v]
  BY <1>1, <1>5 DEF WorkerWait
<1>6. ASSUME WorkerReject(w) \/ WorkerData(w) \/ WorkerSetParam(w)
      PROVE  /\ WorkerMayRun(w) /\ wk[w].pc \in {"lookup", "entry"} /\ UNCHANGED <<queue, elevated>>
             /\ wk'[w].pc = "idle" /\ \A v \in Workers \ {w} : wk'[v] = wk[v]
  <2>1. WorkerMayRun(w) /\ wk[w].pc \in {"lookup", "entry"} /\ UNCHANGED <<queue, elevated>>
    BY <1>6 DEF WorkerReject, WorkerData, WorkerSetParam, Enter
  <2>2. wk' = [wk EXCEPT ![w] = Idle]
    BY <1>6 DEF WorkerReject, WorkerData, WorkerSetParam
  <2> QED BY <1>1, <2>1, <2>2 DEF Idle
<1>7. ASSUME WorkerUnregister(w)
      PROVE  /\ WorkerMayRun(w) /\ wk[w].pc = "entry" /\ UNCHANGED <<queue, elevated>>
             /\ wk'[w].pc = "cleanup" /\ \A v \in Workers \ {w} : wk'[v] = wk[v]
  <2>1. WorkerMayRun(w) /\ wk[w].pc = "entry" /\ UNCHANGED <<queue, elevated>>
    BY <1>7 DEF WorkerUnregister, Enter
  <2>2. wk' = [wk EXCEPT ![w].pc = "cleanup", ![w].msg = None]
    BY <1>7 DEF WorkerUnregister
  <2> QED BY <1>1, <2>1, <2>2
<1>8. ASSUME WorkerRecv(w)
      PROVE  /\ WorkerMayRun(w) /\ wk[w].pc = "wait" /\ UNCHANGED <<elevated>>
             /\ wk'[w].pc = "lookup" /\ \A v \in Workers \ {w} : wk'[v] = wk[v] /\ queue'[v] = queue[v]
  <2>1. WorkerMayRun(w) /\ UNCHANGED elevated
    BY <1>8 DEF WorkerRecv
  <2>2. queue \in [Workers -> Seq(Item0)]
    BY DEF BaseInv, TypeOK, Item0
  <2> QED BY <1>1, <1>8, <2>1, <2>2, Receives
<1>9. ASSUME WorkerElevate(w)
      PROVE  /\ WorkerMayRun(w) /\ wk[w].pc = "cleanup" /\ elevated' = w /\ UNCHANGED queue
             /\ wk'[w].pc = "marker" /\ \A v \in Workers \ {w} : wk'[v] = wk[v]
  BY <1>1, <1>9 DEF WorkerElevate
<1>10. ASSUME WorkerMarker(w)
       PROVE  /\ WorkerMayRun(w) /\ wk[w].pc = "marker" /\ elevated' = elevated /\ ~QueueFull(w)
              /\ wk'[w].pc = "purge" /\ \A v \in Workers \ {w} : wk'[v] = wk[v] /\ queue'[v] = queue[v]
  <2>1. WorkerMayRun(w) /\ elevated' = elevated /\ ~QueueFull(wk[w].at)
    BY <1>10 DEF WorkerMarker
  <2>2. queue \in [Workers -> Seq(Item0)]
    BY DEF BaseInv, TypeOK, Item0
  <2> QED BY <1>1, <1>10, <2>1, <2>2, MarksOwn
<1>11. ASSUME WorkerPurge(w)
       PROVE  /\ WorkerMayRun(w) /\ wk[w].pc = "purge" /\ elevated' = elevated
              /\ wk'[w].pc \in {"purge", "free"}
              /\ \A v \in Workers \ {w} : wk'[v] = wk[v] /\ queue'[v] = queue[v]
  <2>1. WorkerMayRun(w) /\ elevated' = elevated
    BY <1>11 DEF WorkerPurge
  <2>2. queue \in [Workers -> Seq(Item0)]
    BY DEF BaseInv, TypeOK, Item0
  <2>3. wk[w].pc = "purge" /\ (wk' = wk \/ wk' = [wk EXCEPT ![w].pc = "free"])
    BY <1>11, PurgesOwn
  <2>4. \A v \in Workers \ {w} : queue'[v] = queue[v]
    BY <1>11, <2>2, PurgesOwn
  <2> QED BY <1>1, <2>1, <2>3, <2>4
<1>12. ASSUME WorkerFree(w)
       PROVE  /\ WorkerMayRun(w) /\ wk[w].pc = "free" /\ elevated' = None /\ UNCHANGED queue
              /\ wk'[w].pc = "idle" /\ \A v \in Workers \ {w} : wk'[v] = wk[v]
  <2>1. /\ WorkerMayRun(w) /\ wk[w].pc = "free" /\ elevated' = None /\ UNCHANGED queue
        /\ wk' = [wk EXCEPT ![w] = Idle]
    BY <1>12 DEF WorkerFree
  <2> QED BY <1>1, <2>1 DEF Idle
<1> DEFINE Others == \A v \in Workers \ {w} : wk'[v] = wk[v] /\ queue'[v] = queue[v]
           Runs == \/ /\ wk[w].pc \in {"idle", "wait", "task", "lookup", "entry"} /\ elevated' = elevated
                      /\ wk'[w].pc \in {"idle", "wait", "task", "lookup", "entry", "cleanup"}
                   \/ wk[w].pc = "cleanup" /\ wk'[w].pc = "marker" /\ elevated' = w
                   \/ wk[w].pc = "marker" /\ wk'[w].pc = "purge" /\ elevated' = elevated /\ ~QueueFull(w)
                   \/ wk[w].pc = "purge" /\ wk'[w].pc \in {"purge", "free"} /\ elevated' = elevated
                   \/ wk[w].pc = "free" /\ wk'[w].pc = "idle" /\ elevated' = None
           Good == WorkerMayRun(w) /\ Others /\ Runs
<1>13. ASSUME NEW k \in Components, WorkerTask(w, k) PROVE Good
  BY <1>2, <1>13
<1>14. ASSUME NEW done \in SUBSET Msgs, WorkerProcess(w, done) PROVE Good
  BY <1>3, <1>14
<1>15. ASSUME NEW p \in Workers, WorkerLookup(w, p) PROVE Good
  BY <1>4, <1>15
<1>16. ASSUME WorkerWait(w) \/ WorkerRecv(w) \/ WorkerReject(w) \/ WorkerData(w) \/ WorkerSetParam(w) PROVE Good
  BY <1>5, <1>6, <1>8, <1>16
<1>17. ASSUME WorkerUnregister(w) \/ WorkerElevate(w) \/ WorkerMarker(w) \/ WorkerPurge(w) \/ WorkerFree(w) PROVE Good
  <2>1. CASE WorkerUnregister(w) \/ WorkerElevate(w)
    BY <1>7, <1>9, <2>1
  <2>2. CASE WorkerMarker(w)
    BY <1>10, <2>2
  <2>3. CASE WorkerPurge(w)
    BY <1>11, <2>3
  <2>4. CASE WorkerFree(w)
    BY <1>12, <2>4
  <2> QED BY <1>17, <2>1, <2>2, <2>3, <2>4
<1>18. Good
  <2> HIDE DEF Good
  <2> QED BY <1>13, <1>14, <1>15, <1>16, <1>17 DEF StepsOf
<1> QED BY <1>18

\* Only the worker above the DSP thread purges, and one that was raised before it waits for room.
LEMMA ElevatedStep ==
    ASSUME OrderlyInv, [Next]_vars
    PROVE  ElevatedInv'
<1>1. BaseInv /\ ElevatedInv
  BY DEF OrderlyInv
<1>2. \A w \in Workers : queue[w] \in Seq(Item0) /\ Len(queue[w]) \in Nat
  <2>1. queue \in [Workers -> Seq(Item0)]
    BY <1>1 DEF BaseInv, TypeOK, Item0
  <2> QED BY <2>1
<1>3. CASE AppSteps \/ UNCHANGED vars
  <2>1. UNCHANGED <<queue, wk, elevated>>
    BY <1>3, Leaves DEF vars
  <2> QED BY <1>1, <2>1 DEF ElevatedInv, QueueFull
<1>4. CASE DspSteps
  <2>1. UNCHANGED <<wk, elevated>>
    BY <1>4, Leaves
  <2>2. ASSUME NEW w \in Workers, QueueFull(w) PROVE QueueFull(w)'
    <3>1. CASE DspSend
      <4>1. queue' = [queue EXCEPT ![dsp.at] = Append(@, Item(dsp.to, dsp.msg))]
        BY <3>1 DEF DspSend
      <4>2. queue'[w] = queue[w] \/ queue'[w] = Append(queue[w], Item(dsp.to, dsp.msg))
        BY <1>1, <4>1 DEF BaseInv, TypeOK
      <4>3. Len(queue'[w]) >= Len(queue[w])
        BY <1>2, <4>2
      <4>4. Len(queue'[w]) \in Nat
        BY <1>2, <4>2
      <4> QED BY <1>2, <2>2, <4>3, <4>4, QueueAssumption DEF QueueFull
    <3>2. CASE queue' = queue
      BY <2>2, <3>2 DEF QueueFull
    <3> QED BY <1>4, <3>1, <3>2 DEF DspSteps, DspRegister, DspAlloc, DspCreateFails, DspLookup, DspCreate, DspRoute
  <2> QED BY <1>1, <2>1, <2>2 DEF ElevatedInv
<1>5. ASSUME NEW w \in Workers, StepsOf(w) PROVE ElevatedInv'
  <2>1. /\ WorkerMayRun(w)
        /\ \A v \in Workers \ {w} : wk'[v] = wk[v] /\ queue'[v] = queue[v]
        /\ \/ /\ wk[w].pc \in {"idle", "wait", "task", "lookup", "entry"} /\ elevated' = elevated
              /\ wk'[w].pc \in {"idle", "wait", "task", "lookup", "entry", "cleanup"}
           \/ wk[w].pc = "cleanup" /\ wk'[w].pc = "marker" /\ elevated' = w
           \/ wk[w].pc = "marker" /\ wk'[w].pc = "purge" /\ elevated' = elevated /\ ~QueueFull(w)
           \/ wk[w].pc = "purge" /\ wk'[w].pc \in {"purge", "free"} /\ elevated' = elevated
           \/ wk[w].pc = "free" /\ wk'[w].pc = "idle" /\ elevated' = None
    BY <1>1, <1>5, Goes
  <2>2. \A v \in Workers \ {w} : QueueFull(v)' <=> QueueFull(v)
    BY <2>1 DEF QueueFull
  <2>3. ASSUME NEW v \in Workers, wk[v].pc \in {"purge", "free"} PROVE v = w
    BY <1>1, <2>1, <2>3, PurgeExcludes
  <2>4. ASSUME NEW v \in Workers \ {w}, wk[v].pc = "marker" PROVE QueueFull(v)
    <3>1. CASE elevated # v
      BY <1>1, <2>4, <3>1 DEF ElevatedInv
    <3>2. CASE elevated = v
      <4>1. Blocked(v) /\ wk[v].at = v
        BY <1>1, <2>1, <2>4, <3>2 DEF WorkerMayRun, NoneElevated, BaseInv, ThreadInv, CompInv, Cleans
      <4> QED BY <2>4, <4>1 DEF Blocked
    <3> QED BY <3>1, <3>2
  <2>5. wk[w].pc = "marker" /\ ~QueueFull(w) => elevated = w
    BY <1>1 DEF ElevatedInv
  <2>6. /\ wk[w].pc \in {"purge", "free"} => elevated = w
        /\ elevated = w => wk[w].pc \in {"marker", "purge", "free"}
        /\ None \notin Workers
    BY <1>1, Numbers DEF ElevatedInv
  <2> SUFFICES ASSUME NEW v \in Workers
               PROVE  /\ wk'[v].pc \in {"purge", "free"} => elevated' = v
                      /\ wk'[v].pc = "marker" => elevated' = v \/ QueueFull(v)'
                      /\ elevated' = v => wk'[v].pc \in {"marker", "purge", "free"}
    BY DEF ElevatedInv
  <2>7. CASE v = w
    <3>1. wk'[w].pc \in {"purge", "free"} => elevated' = w
      BY <2>1, <2>5, <2>6
    <3>2. wk'[w].pc = "marker" => elevated' = w
      BY <2>1
    <3>3. elevated' = w => wk'[w].pc \in {"marker", "purge", "free"}
      BY <2>1, <2>6
    <3> QED BY <2>7, <3>1, <3>2, <3>3
  <2>8. CASE v # w
    <3>1. wk'[v] = wk[v] /\ wk[v].pc \notin {"purge", "free"}
      BY <2>1, <2>3, <2>8
    <3>2. wk[v].pc = "marker" => QueueFull(v)'
      BY <2>2, <2>4, <2>8
    <3>3. elevated = v => wk[v].pc \in {"marker", "purge", "free"}
      BY <1>1 DEF ElevatedInv
    <3>4. elevated' = v => elevated = v
      BY <2>1, <2>6, <2>8
    <3> QED BY <3>1, <3>2, <3>3, <3>4
  <2> QED BY <2>7, <2>8
<1> QED BY <1>3, <1>4, <1>5, Actors

-----------------------------------------------------------------------------
(* What the actors do to the commands.                                     *)

\* The application issues a command of its own, to a component that is registered.
LEMMA Issues ==
    ASSUME OrderlyInv, AppSteps
    PROVE  \E m \in Msgs, op \in {"register", "setparam", "data", "unregister"},
              k \in Components \cup {None}, a \in Workers \cup {None} :
             /\ Issue(m, op, k, a)
             /\ op = "register" <=> k = None
             /\ k # None => k \in alive /\ ~Moving(k) /\ (DataUntil = "asked" => ~Leaving(k))
             /\ op = "setparam" => Outstanding(k) = {} \/ ~Moves(k, a)
<1>1. open = alive /\ DataUntil # "ever"
  BY UntilAssumption DEF OrderlyInv, BaseInv, ThreadInv, CompInv, InTime
<1>2. ASSUME LockFree, NEW k PROVE ~Moving(k) /\ ~Leaving(k)
  BY <1>2 DEF LockFree, Moving, Leaving, Outstanding
<1>3. ASSUME NEW m \in Msgs, HostRegister(m) PROVE Issue(m, "register", None, None)
  BY <1>3 DEF HostRegister
<1>4. ASSUME NEW m \in Msgs, NEW k \in Components, HostData(m, k)
      PROVE  Issue(m, "data", k, None) /\ k \in alive /\ ~Moving(k) /\ (DataUntil = "asked" => ~Leaving(k))
  BY <1>1, <1>4 DEF HostData
<1>5. ASSUME NEW m \in Msgs, NEW k \in Components, HostUnregister(m, k)
      PROVE  Issue(m, "unregister", k, None) /\ k \in alive /\ ~Moving(k) /\ ~Leaving(k)
  BY <1>1, <1>2, <1>5 DEF HostUnregister
<1>6. ASSUME NEW m \in Msgs, NEW k \in Components, NEW p \in (Workers \ {0}) \cup {None}, HostSetParam(m, k, p)
      PROVE  /\ Issue(m, "setparam", k, p) /\ k \in alive /\ ~Moving(k) /\ ~Leaving(k)
             /\ Outstanding(k) = {} \/ ~Moves(k, p)
  BY <1>1, <1>2, <1>6 DEF HostSetParam
<1>7. None \notin Components
  BY Numbers
<1> HIDE DEF Issue, Moving, Leaving, Outstanding, Moves
<1> QED BY <1>3, <1>4, <1>5, <1>6, <1>7 DEF AppSteps

\* What the application has outstanding it does not touch.
LEMMA IssueKeeps ==
    ASSUME OrderlyInv, AppSteps
    PROVE  /\ UNCHANGED <<alive, prio, ready, flag, tree, inside, queue, dsp, wk, elevated>>
           /\ owned' \subseteq owned
           /\ \A n \in Msgs \ owned : n \notin owned' /\ cmd'[n] = cmd[n]
<1>1. UNCHANGED <<alive, prio, ready, queue, dsp, wk, elevated>>
  BY Leaves
<1>2. PICK m \in Msgs, op \in {"register", "setparam", "data", "unregister"},
           k \in Components \cup {None}, a \in Workers \cup {None} : Issue(m, op, k, a)
  BY Issues
<1>3. UNCHANGED <<flag, tree, inside>>
  BY <1>2 DEF Issue, runVars
<1>4. owned' = owned \ {m} /\ m \in owned /\ \A n \in Msgs \ owned : n # m /\ cmd'[n] = cmd[n]
  BY <1>2, IssueSays DEF OrderlyInv
<1> QED BY <1>1, <1>3, <1>4

\* The DSP thread answers nothing but registrations.
LEMMA DspDoes ==
    ASSUME OrderlyInv, DspSteps
    PROVE  /\ UNCHANGED <<flag, tree, inside, ready, cmd, sent, wk, elevated>>
           /\ DspMayRun
           /\ alive \subseteq alive'
           /\ \A k \in Components \ fresh : prio'[k] = prio[k] /\ (k \in alive' => k \in alive)
           /\ owned \subseteq owned'
           /\ \A m \in owned' : m \in owned \/ (m \in Msgs /\ cmd[m].op = "register" /\ m \in InCmdq \cup {dsp.msg})
<1>1. UNCHANGED <<ready, cmd, wk, elevated>>
  BY Leaves
<1>2. /\ cmdq # <<>> => Head(cmdq) \in Msgs /\ Head(cmdq) \in InCmdq
      /\ dsp.pc = "create" => dsp.msg \in Msgs /\ cmd[dsp.msg].op = "register"
      /\ prio \in [Components -> Workers]
  <2>1. ASSUME cmdq # <<>> PROVE Head(cmdq) \in Msgs /\ Head(cmdq) \in InCmdq
    <3>1. cmdq \in Seq(Msgs) /\ Head(cmdq) = cmdq[1] /\ 1 \in DOMAIN cmdq
      BY <2>1 DEF OrderlyInv, BaseInv, TypeOK
    <3> QED BY <3>1 DEF InCmdq
  <2> QED BY <2>1 DEF OrderlyInv, BaseInv, TypeOK, ShapeInv, DspInv
<1>3. CASE DspRegister \/ DspAlloc
  BY <1>1, <1>2, <1>3 DEF DspRegister, DspAlloc, compVars, runVars, appVars
<1>4. CASE DspCreateFails
  BY <1>1, <1>2, <1>4 DEF DspCreateFails, compVars, runVars
<1>5. ASSUME NEW k \in Components, DspCreate(k)
      PROVE  /\ UNCHANGED <<flag, tree, inside, sent>> /\ DspMayRun
             /\ alive \subseteq alive'
             /\ \A h \in Components \ fresh : prio'[h] = prio[h] /\ (h \in alive' => h \in alive)
             /\ owned \subseteq owned'
             /\ \A m \in owned' : m \in owned \/ (m \in Msgs /\ cmd[m].op = "register" /\ m \in InCmdq \cup {dsp.msg})
  BY <1>2, <1>5 DEF DspCreate, runVars
<1>6. CASE DspLookup
  <2>1. UNCHANGED <<owned, sent>>
    BY <1>6, Routed
  <2> QED BY <1>1, <1>6, <2>1 DEF DspLookup, compVars, runVars
<1>7. ASSUME NEW w \in Workers, DspRoute(w)
      PROVE  UNCHANGED <<flag, tree, inside, sent, alive, prio, owned>> /\ DspMayRun
  BY <1>7 DEF DspRoute, compVars, runVars, appVars
<1>8. CASE DspSend
  BY <1>1, <1>8 DEF DspSend, compVars, runVars, appVars
<1> QED BY <1>1, <1>3, <1>4, <1>5, <1>6, <1>7, <1>8 DEF DspSteps

\* The steps of a worker that execute nothing.
Quiet(w) == \/ \E p \in Workers : WorkerLookup(w, p)
            \/ WorkerWait(w) \/ WorkerRecv(w) \/ WorkerElevate(w) \/ WorkerMarker(w) \/ WorkerFree(w)
\* (... and what they leave alone)
LEMMA QuietKeeps ==
    ASSUME NEW w \in Workers, Quiet(w)
    PROVE  UNCHANGED <<fresh, alive, id, prio, ready, flag, tree, inside, cmd, owned, open, cmdq, dsp, sent>>
<1>1. ASSUME NEW p \in Workers, WorkerLookup(w, p)
      PROVE  UNCHANGED <<fresh, alive, id, prio, ready, flag, tree, inside, cmd, owned, open, cmdq, dsp, sent>>
  BY <1>1 DEF WorkerLookup, compVars, runVars, appVars
<1>2. CASE WorkerWait(w)
  BY <1>2 DEF WorkerWait, compVars, runVars, appVars
<1>3. CASE WorkerRecv(w)
  BY <1>3 DEF WorkerRecv, compVars, runVars, appVars
<1>4. CASE WorkerElevate(w)
  BY <1>4 DEF WorkerElevate, compVars, runVars, appVars
<1>5. CASE WorkerMarker(w)
  BY <1>5 DEF WorkerMarker, compVars, runVars, appVars
<1>6. CASE WorkerFree(w)
  BY <1>6 DEF WorkerFree, compVars, runVars, appVars
<1> QED BY <1>1, <1>2, <1>3, <1>4, <1>5, <1>6 DEF Quiet

\* A worker does one of these.
LEMMA WorkerKinds ==
    ASSUME OrderlyInv, NEW w \in Workers, StepsOf(w)
    PROVE  \/ Quiet(w) \/ (\E k \in Components : WorkerTask(w, k))
           \/ (\E done \in SUBSET Msgs : WorkerProcess(w, done))
           \/ WorkerData(w) \/ WorkerSetParam(w) \/ WorkerUnregister(w) \/ WorkerPurge(w)
<1>1. ~WorkerReject(w)
  BY Found
<1> QED BY <1>1 DEF StepsOf, Quiet

\* What the purge of a component's worker turns round: it answers what is for that component.
LEMMA Turns ==
    ASSUME OrderlyInv, NEW w \in Workers, WorkerPurge(w)
    PROVE  /\ queue[w] \in Seq(Item0) /\ queue[w] # <<>> /\ 1 \in DOMAIN queue[w] /\ Head(queue[w]) = queue[w][1]
           /\ \/ /\ Head(queue[w]) = Marker /\ queue' = [queue EXCEPT ![w] = Tail(queue[w])]
                 /\ wk' = [wk EXCEPT ![w].pc = "free"] /\ UNCHANGED <<owned, sent>>
              \/ /\ Head(queue[w]).msg \in Msgs \ owned /\ Head(queue[w]).to = wk[w].to
                 /\ queue' = [queue EXCEPT ![w] = Tail(queue[w])] /\ wk' = wk
                 /\ owned' = owned \cup {Head(queue[w]).msg} /\ sent' = Forget(Head(queue[w]).msg)
              \/ /\ Head(queue[w]).msg \in Msgs \ owned /\ Head(queue[w]).to # wk[w].to /\ Head(queue[w]).to \in alive
                 /\ queue' = [queue EXCEPT ![w] = Append(Tail(queue[w]), Head(queue[w]))] /\ wk' = wk
                 /\ UNCHANGED <<owned, sent>>
           /\ wk[w].pc = "purge" /\ None \in Named(queue[w])
           /\ UNCHANGED <<alive, prio, ready, flag, tree, inside, cmd, open, cmdq, dsp, elevated>>
<1> DEFINE it == Head(queue[w])
<1>1. /\ wk[w].at = w /\ wk[w].pc = "purge" /\ None \in Named(queue[w])
      /\ queue[w] \in Seq(Item0) /\ queue[w] # <<>>
      /\ wk' = IF it = Marker THEN [wk EXCEPT ![w].pc = "free"] ELSE wk
      /\ queue' = [queue EXCEPT ![w] = IF it = Marker \/ OfClient(w, it) THEN Tail(@) ELSE Append(Tail(@), Head(@))]
  BY PurgesOwn DEF OrderlyInv
<1>2. 1 \in DOMAIN queue[w] /\ it = queue[w][1] /\ it.msg \in Named(queue[w])
  BY <1>1, TailNamed
<1>3. /\ UNCHANGED <<alive, prio, ready, flag, tree, inside, cmd, open, cmdq, dsp, elevated>>
      /\ IF OfClient(w, it) THEN owned' = owned \cup {it.msg} /\ sent' = Forget(it.msg)
                            ELSE UNCHANGED <<owned, sent>>
  BY <1>1 DEF WorkerPurge, compVars, runVars
<1>4. it = Marker => ~OfClient(w, it)
  BY DEF OfClient
<1>5. ASSUME it # Marker
      PROVE  /\ it.msg \in Msgs \ owned /\ (OfClient(w, it) <=> it.to = wk[w].to)
             /\ it.to # wk[w].to => it.to \in alive
  <2>1. it.msg \in Msgs /\ it.to \in Components
    BY <1>2, <1>5 DEF OrderlyInv, BaseInv, ShapeInv, QueueInv
  <2>2. it.msg \notin owned
    BY <1>2, <2>1, Whereabouts DEF OrderlyInv
  <2>3. cmd[it.msg].for = it.to /\ (it.to \in alive \/ it.to = wk[w].to)
    BY <1>2, <2>1, Numbers DEF OrderlyInv, PlaceInv, LineInv, Purging
  <2>4. Cleans(w)
    BY <1>1 DEF Cleans
  <2>5. /\ it.to \in alive => id[it.to] \in Ids /\ cmap[id[it.to]] = it.to
        /\ wk[w].to \notin alive /\ cmap[id[wk[w].to]] = wk[w].to
    BY <2>4 DEF OrderlyInv, BaseInv, ThreadInv, CompInv
  <2>6. id[it.to] = id[wk[w].to] <=> it.to = wk[w].to
    BY <2>3, <2>5
  <2> QED BY <1>5, <2>1, <2>2, <2>3, <2>6 DEF OfClient, Client
<1> HIDE DEF it
<1>6. CASE it = Marker
  BY <1>1, <1>2, <1>3, <1>4, <1>6 DEF it
<1>7. CASE it # Marker /\ it.to = wk[w].to
  BY <1>1, <1>2, <1>3, <1>5, <1>7 DEF it
<1>8. CASE it # Marker /\ it.to # wk[w].to
  BY <1>1, <1>2, <1>3, <1>5, <1>8 DEF it
<1> QED BY <1>6, <1>7, <1>8

-----------------------------------------------------------------------------
(* Tasks.                                                                  *)

\* What a component holds is not given back before it is done with.
LEMMA TaskKept ==
    ASSUME OrderlyInv, UNCHANGED <<flag, tree, inside>>,
           \A k \in alive : k \in alive' /\ prio'[k] = prio[k],
           \A m \in Msgs \ owned : (\E k \in Components : m \in inside[k]) => m \notin owned' /\ cmd'[m] = cmd[m],
           \A w \in Workers : wk'[w].pc = "task" => wk'[w] = wk[w]
    PROVE  TaskInv'
<1>1. TaskInv /\ inside \in [Components -> SUBSET Msgs] /\ flag \subseteq alive
  BY DEF OrderlyInv, TaskInv, BaseInv, TypeOK
<1>2. \A k \in Components : k \in flag' <=> inside'[k] # {}
  BY <1>1 DEF TaskInv
<1>3. flag' \subseteq alive'
  BY <1>1
<1>4. ASSUME NEW k \in Components, NEW m \in inside'[k] PROVE m \notin owned' /\ cmd'[m].for = k
  BY <1>1, <1>4 DEF TaskInv
<1>5. ASSUME NEW w \in Workers, NEW k \in tree'[w] PROVE k \in flag' /\ prio'[k] = w
  BY <1>1, <1>5 DEF TaskInv
<1>6. ASSUME NEW w \in Workers, wk'[w].pc = "task"
      PROVE  wk'[w].to \in flag' /\ prio'[wk'[w].to] = w /\ wk'[w].to \notin tree'[w]
  <2>1. wk'[w] = wk[w] /\ wk[w].pc = "task"
    BY <1>6
  <2>2. wk[w].to \in flag /\ prio[wk[w].to] = w /\ wk[w].to \notin tree[w]
    BY <1>1, <2>1 DEF TaskInv
  <2> QED BY <1>1, <2>1, <2>2
<1> QED BY <1>2, <1>3, <1>4, <1>5, <1>6 DEF TaskInv

\* A component that holds commands is scheduled or being run, where its priority says.
LEMMA TaskStep ==
    ASSUME OrderlyInv, [Next]_vars
    PROVE  TaskInv'
<1>1. /\ TaskInv /\ inside \in [Components -> SUBSET Msgs] /\ flag \subseteq Components /\ flag \subseteq alive
      /\ tree \in [Workers -> SUBSET Components] /\ prio \in [Components -> Workers] /\ alive \subseteq Components
      /\ wk \in [Workers -> [pc : WorkerPlaces, msg : Msgs \cup {None},
                             to : Components \cup {None}, at : Workers \cup {None}]]
      /\ alive \cap fresh = {} /\ owned \subseteq Msgs
  BY DEF OrderlyInv, TaskInv, BaseInv, TypeOK, ThreadInv, CompInv
<1>2. CASE AppSteps \/ UNCHANGED vars
  <2>1. /\ UNCHANGED <<flag, tree, inside, alive, prio, wk>>
        /\ \A n \in Msgs \ owned : n \notin owned' /\ cmd'[n] = cmd[n]
    BY <1>2, IssueKeeps DEF vars, compVars, runVars, appVars
  <2> QED BY <2>1, TaskKept
<1>3. CASE DspSteps
  <2>1. /\ UNCHANGED <<flag, tree, inside, cmd, wk>>
        /\ \A k \in alive : k \in alive' /\ prio'[k] = prio[k]
        /\ \A m \in owned' : m \in owned \/ m \in InCmdq \cup {dsp.msg}
    BY <1>1, <1>3, DspDoes
  <2>2. ASSUME NEW m \in Msgs \ owned, NEW k \in Components, m \in inside[k] PROVE m \notin InCmdq \cup {dsp.msg}
    BY <2>2, Whereabouts DEF OrderlyInv
  <2> QED BY <2>1, <2>2, TaskKept
<1>4. ASSUME NEW w \in Workers, Quiet(w) PROVE TaskInv'
  <2>1. UNCHANGED <<alive, prio, flag, tree, inside, cmd, owned>>
    BY <1>4, QuietKeeps
  <2>2. /\ wk'[w].pc \in {"entry", "wait", "lookup", "marker", "purge", "idle"}
        /\ \A v \in Workers \ {w} : wk'[v] = wk[v]
    <3>1. ASSUME NEW p \in Workers, WorkerLookup(w, p)
          PROVE  wk'[w].pc = "entry" /\ \A v \in Workers \ {w} : wk'[v] = wk[v]
      BY <1>1, <3>1 DEF WorkerLookup
    <3>2. CASE WorkerWait(w) \/ WorkerElevate(w)
      <4>1. wk' = [wk EXCEPT ![w].pc = "wait"] \/ wk' = [wk EXCEPT ![w].pc = "marker"]
        BY <3>2 DEF WorkerWait, WorkerElevate
      <4> QED BY <1>1, <4>1
    <3>3. CASE WorkerRecv(w)
      BY <1>1, <3>3, Receives DEF OrderlyInv
    <3>4. CASE WorkerMarker(w)
      BY <1>1, <3>4, MarksOwn DEF OrderlyInv
    <3>5. CASE WorkerFree(w)
      <4>1. wk' = [wk EXCEPT ![w] = Idle]
        BY <3>5 DEF WorkerFree
      <4> QED BY <1>1, <4>1 DEF Idle
    <3> QED BY <1>4, <3>1, <3>2, <3>3, <3>4, <3>5 DEF Quiet
  <2> QED BY <2>1, <2>2, TaskKept
<1>5. ASSUME NEW w \in Workers, WorkerPurge(w) PROVE TaskInv'
  <2>1. /\ UNCHANGED <<alive, prio, flag, tree, inside, cmd>> /\ wk[w].pc = "purge"
        /\ wk' = wk \/ wk' = [wk EXCEPT ![w].pc = "free"]
        /\ owned' = owned \/ (Head(queue[w]).msg \in Msgs /\ owned' = owned \cup {Head(queue[w]).msg})
        /\ Head(queue[w]).msg \in Named(queue[w])
    BY <1>5, Turns DEF Named
  <2>2. ASSUME NEW m \in Msgs \ owned, NEW k \in Components, m \in inside[k] PROVE m # Head(queue[w]).msg
    BY <2>1, <2>2, Whereabouts DEF OrderlyInv
  <2>3. \A v \in Workers : wk'[v].pc = "task" => wk'[v] = wk[v]
    BY <1>1, <2>1
  <2> QED BY <2>1, <2>2, <2>3, TaskKept
<1>6. ASSUME NEW w \in Workers, NEW k \in Components, WorkerTask(w, k) PROVE TaskInv'
  <2>1. /\ k \in tree[w] /\ tree' = [tree EXCEPT ![w] = @ \ {k}]
        /\ wk' = [wk EXCEPT ![w] = [pc |-> "task", msg |-> None, to |-> k, at |-> None]]
        /\ UNCHANGED <<alive, prio, flag, inside, cmd, owned>>
    BY <1>6 DEF WorkerTask, compVars, appVars
  <2>2. k \in flag /\ prio[k] = w
    BY <1>1, <2>1 DEF TaskInv
  <2>3. /\ tree'[w] = tree[w] \ {k} /\ wk'[w].to = k
        /\ \A v \in Workers \ {w} : tree'[v] = tree[v] /\ wk'[v] = wk[v]
    BY <1>1, <2>1
  <2> QED BY <1>1, <2>1, <2>2, <2>3 DEF TaskInv
<1>7. ASSUME NEW w \in Workers, NEW done \in SUBSET Msgs, WorkerProcess(w, done) PROVE TaskInv'
  <2> DEFINE k == wk[w].to
  <2>1. /\ done \subseteq inside[k] /\ inside' = [inside EXCEPT ![k] = @ \ done] /\ owned' = owned \cup done
        /\ IF inside[k] \ done = {} THEN flag' = flag \ {k} /\ tree' = tree
                                    ELSE flag' = flag \cup {k} /\ tree' = Scheduled(k)
        /\ UNCHANGED <<alive, prio, cmd>> /\ wk' = [wk EXCEPT ![w] = Idle] /\ wk[w].pc = "task"
    BY <1>7 DEF WorkerProcess, compVars
  <2>2. k \in flag /\ prio[k] = w /\ k \notin tree[w] /\ k \in Components
    BY <1>1, <2>1 DEF TaskInv
  <2> HIDE DEF k
  <2>3. /\ inside'[k] = inside[k] \ done /\ \A h \in Components \ {k} : inside'[h] = inside[h]
        /\ wk'[w].pc = "idle" /\ \A v \in Workers \ {w} : wk'[v] = wk[v]
    BY <1>1, <2>1, <2>2 DEF Idle
  <2>4. /\ \A v \in Workers \ {w} : tree'[v] = tree[v]
        /\ tree'[w] = IF inside'[k] = {} THEN tree[w] ELSE tree[w] \cup {k}
        /\ flag' = IF inside'[k] = {} THEN flag \ {k} ELSE flag \cup {k}
    BY <1>1, <2>1, <2>2, <2>3 DEF Scheduled
  <2>5. ASSUME NEW h \in Components, NEW m \in inside'[h] PROVE m \notin owned' /\ cmd'[m].for = h
    BY <1>1, <2>1, <2>3, <2>5 DEF TaskInv
  <2>6. ASSUME NEW v \in Workers, NEW h \in tree'[v] PROVE h \in flag' /\ prio'[h] = v
    <3>1. CASE v = w
      BY <1>1, <2>1, <2>2, <2>4, <2>6, <3>1 DEF TaskInv
    <3>2. CASE v # w
      BY <1>1, <2>1, <2>2, <2>4, <2>6, <3>2 DEF TaskInv
    <3> QED BY <3>1, <3>2
  <2>7. ASSUME NEW v \in Workers, wk'[v].pc = "task"
        PROVE  wk'[v].to \in flag' /\ prio'[wk'[v].to] = v /\ wk'[v].to \notin tree'[v]
    <3>1. v # w /\ wk'[v] = wk[v] /\ tree'[v] = tree[v]
      BY <2>3, <2>4, <2>7
    <3>2. wk[v].to \in flag /\ prio[wk[v].to] = v /\ wk[v].to \notin tree[v]
      BY <1>1, <2>7, <3>1 DEF TaskInv
    <3> QED BY <2>1, <2>2, <2>4, <3>1, <3>2
  <2>8. (\A h \in Components : h \in flag' <=> inside'[h] # {}) /\ flag' \subseteq alive'
    BY <1>1, <2>1, <2>2, <2>3, <2>4 DEF TaskInv
  <2> QED BY <2>5, <2>6, <2>7, <2>8 DEF TaskInv
<1>8. ASSUME NEW w \in Workers, WorkerData(w) \/ WorkerSetParam(w) \/ WorkerUnregister(w)
      PROVE  /\ wk[w].msg \in Msgs \ owned /\ wk[w].to \in Components
             /\ wk[w].to \in alive /\ prio[wk[w].to] = w /\ cmd[wk[w].msg].for = wk[w].to
             /\ \A h \in Components : wk[w].msg \notin inside[h]
             /\ \A v \in Workers \ {w} : wk'[v] = wk[v]
             /\ wk'[w].pc # "task" /\ cmd' = cmd
             /\ \A v \in Workers \ {w} : wk[v].pc = "task" =>
                  wk[v].to \in flag /\ prio[wk[v].to] = v /\ wk[v].to \notin tree[v] /\ wk[v].to # wk[w].to
  <2>1. \E op : Enter(w, op)
    BY <1>8 DEF WorkerData, WorkerSetParam, WorkerUnregister
  <2>2. /\ wk[w].msg \in Msgs \ owned /\ wk[w].to \in Components
        /\ wk[w].to \in alive /\ prio[wk[w].to] = w /\ cmd[wk[w].msg].for = wk[w].to
    BY <2>1, Executing
  <2>3. \A h \in Components : wk[w].msg \notin inside[h]
    BY <2>2, Whereabouts DEF OrderlyInv
  <2>4. wk' = [wk EXCEPT ![w] = Idle] \/ wk' = [wk EXCEPT ![w].pc = "cleanup", ![w].msg = None]
    BY <1>8 DEF WorkerData, WorkerSetParam, WorkerUnregister
  <2>5. cmd' = cmd
    BY <1>8 DEF WorkerData, WorkerSetParam, WorkerUnregister
  <2>6. \A v \in Workers \ {w} : wk[v].pc = "task" =>
          wk[v].to \in flag /\ prio[wk[v].to] = v /\ wk[v].to \notin tree[v] /\ wk[v].to # wk[w].to
    BY <1>1, <2>2 DEF TaskInv
  <2>7. wk'[w].pc # "task" /\ \A v \in Workers \ {w} : wk'[v] = wk[v]
    BY <1>1, <2>4 DEF Idle
  <2> QED BY <2>2, <2>3, <2>5, <2>6, <2>7
<1>9. ASSUME NEW w \in Workers, WorkerData(w) PROVE TaskInv'
  <2> DEFINE k == wk[w].to
             m == wk[w].msg
  <2>1. UNCHANGED <<alive, prio>>
    BY <1>9 DEF WorkerData, compVars
  <2>2. CASE owned' = owned \cup {m} /\ UNCHANGED runVars
    BY <1>8, <1>9, <2>1, <2>2, TaskKept DEF runVars
  <2>3. CASE /\ inside' = [inside EXCEPT ![k] = @ \cup {m}] /\ flag' = flag \cup {k}
             /\ tree' = IF k \in flag THEN tree ELSE Scheduled(k)
             /\ owned' = owned
    <3>1. /\ m \in Msgs \ owned /\ k \in Components /\ k \in alive /\ prio[k] = w /\ cmd[m].for = k
          /\ \A v \in Workers \ {w} : wk'[v] = wk[v]
          /\ wk'[w].pc # "task" /\ cmd' = cmd
          /\ \A v \in Workers \ {w} : wk[v].pc = "task" =>
               wk[v].to \in flag /\ prio[wk[v].to] = v /\ wk[v].to \notin tree[v] /\ wk[v].to # k
      BY <1>8, <1>9
    <3> HIDE DEF k, m
    <3>2. /\ inside'[k] = inside[k] \cup {m} /\ \A h \in Components \ {k} : inside'[h] = inside[h]
          /\ \A v \in Workers \ {w} : tree'[v] = tree[v]
          /\ tree'[w] = IF k \in flag THEN tree[w] ELSE tree[w] \cup {k}
      BY <1>1, <2>3, <3>1 DEF Scheduled
    <3>3. ASSUME NEW h \in Components, NEW n \in inside'[h] PROVE n \notin owned' /\ cmd'[n].for = h
      BY <1>1, <2>3, <3>1, <3>2, <3>3 DEF TaskInv
    <3>4. ASSUME NEW v \in Workers, NEW h \in tree'[v] PROVE h \in flag' /\ prio'[h] = v
      <4>1. CASE h \in tree[v]
        BY <1>1, <2>1, <2>3, <4>1 DEF TaskInv
      <4>2. CASE h \notin tree[v]
        BY <2>1, <2>3, <3>1, <3>2, <3>4, <4>2
      <4> QED BY <4>1, <4>2
    <3>5. ASSUME NEW v \in Workers, wk'[v].pc = "task"
          PROVE  wk'[v].to \in flag' /\ prio'[wk'[v].to] = v /\ wk'[v].to \notin tree'[v]
      BY <2>1, <2>3, <3>1, <3>2, <3>5
    <3>6. (\A h \in Components : h \in flag' <=> inside'[h] # {}) /\ flag' \subseteq alive'
      BY <1>1, <2>1, <2>3, <3>1, <3>2 DEF TaskInv
    <3> QED BY <3>3, <3>4, <3>5, <3>6 DEF TaskInv
  <2> QED BY <1>9, <2>2, <2>3 DEF WorkerData
<1>10. ASSUME NEW w \in Workers, WorkerSetParam(w) PROVE TaskInv'
  <2> DEFINE k == wk[w].to
             m == wk[w].msg
  <2>1. /\ UNCHANGED <<alive, inside, flag>> /\ owned' = owned \cup {m}
        /\ \E new : /\ prio' = [prio EXCEPT ![k] = new]
                    /\ tree' = IF k \notin flag THEN tree
                       ELSE [v \in Workers |-> (IF v = prio[k] THEN tree[v] \ {k} ELSE tree[v])
                                                 \cup (IF v = new THEN {k} ELSE {})]
    BY <1>10 DEF WorkerSetParam
  <2>2. prio' = prio \/ k \notin flag
    BY <1>10, MovesAlone
  <2>3. /\ m \in Msgs \ owned /\ k \in Components /\ k \in alive /\ prio[k] = w /\ cmd[m].for = k
        /\ \A h \in Components : m \notin inside[h]
        /\ \A v \in Workers \ {w} : wk'[v] = wk[v]
        /\ wk'[w].pc # "task" /\ cmd' = cmd
        /\ \A v \in Workers \ {w} : wk[v].pc = "task" =>
             wk[v].to \in flag /\ prio[wk[v].to] = v /\ wk[v].to \notin tree[v] /\ wk[v].to # k
    BY <1>8, <1>10
  <2> HIDE DEF k, m
  <2>4. \A h \in Components \ {k} : prio'[h] = prio[h]
    BY <1>1, <2>1
  <2>5. ASSUME k \in flag
        PROVE  prio' = prio /\ tree'[w] = tree[w] \cup {k} /\ \A v \in Workers \ {w} : tree'[v] = tree[v]
    <3>1. PICK new : /\ prio' = [prio EXCEPT ![k] = new]
                     /\ tree' = [v \in Workers |-> (IF v = prio[k] THEN tree[v] \ {k} ELSE tree[v])
                                                     \cup (IF v = new THEN {k} ELSE {})]
      BY <2>1, <2>5
    <3>2. prio' = prio /\ new = w
      BY <1>1, <2>2, <2>3, <2>5, <3>1
    <3> QED BY <2>3, <3>1, <3>2
  <2>6. k \notin flag => tree' = tree
    BY <2>1
  <2>7. ASSUME NEW h \in Components, NEW n \in inside'[h] PROVE n \notin owned' /\ cmd'[n].for = h
    BY <1>1, <2>1, <2>3, <2>7 DEF TaskInv
  <2>8. ASSUME NEW v \in Workers, NEW h \in tree'[v] PROVE h \in flag' /\ prio'[h] = v
    <3>1. CASE k \in flag
      BY <1>1, <2>1, <2>3, <2>5, <2>8, <3>1 DEF TaskInv
    <3>2. CASE k \notin flag
      <4>1. h \in flag /\ prio[h] = v /\ h # k /\ h \in Components
        BY <1>1, <2>6, <2>8, <3>2 DEF TaskInv
      <4> QED BY <2>1, <2>4, <4>1
    <3> QED BY <3>1, <3>2
  <2>9. ASSUME NEW v \in Workers, wk'[v].pc = "task"
        PROVE  wk'[v].to \in flag' /\ prio'[wk'[v].to] = v /\ wk'[v].to \notin tree'[v]
    <3>1. v # w /\ wk'[v] = wk[v] /\ tree'[v] = tree[v]
      BY <2>3, <2>5, <2>6, <2>9
    <3>2. /\ wk[v].to \in flag /\ prio[wk[v].to] = v /\ wk[v].to \notin tree[v]
          /\ wk[v].to # k /\ wk[v].to \in Components
      BY <1>1, <2>3, <2>9, <3>1
    <3> QED BY <2>1, <2>4, <3>1, <3>2
  <2>10. (\A h \in Components : h \in flag' <=> inside'[h] # {}) /\ flag' \subseteq alive'
    BY <1>1, <2>1 DEF TaskInv
  <2> QED BY <2>7, <2>8, <2>9, <2>10 DEF TaskInv
<1>11. ASSUME NEW w \in Workers, WorkerUnregister(w) PROVE TaskInv'
  <2> DEFINE k == wk[w].to
             m == wk[w].msg
  <2>1. /\ tree' = IF k \in flag THEN Cancelled(k) ELSE tree
        /\ flag' = flag \ {k} /\ owned' = owned \cup inside[k] \cup {m} /\ inside' = [inside EXCEPT ![k] = {}]
        /\ alive' = alive \ {k} /\ UNCHANGED prio
    BY <1>11 DEF WorkerUnregister
  <2>2. /\ m \in Msgs \ owned /\ k \in Components /\ k \in alive /\ prio[k] = w /\ cmd[m].for = k
        /\ \A h \in Components : m \notin inside[h]
        /\ \A v \in Workers \ {w} : wk'[v] = wk[v]
        /\ wk'[w].pc # "task" /\ cmd' = cmd
        /\ \A v \in Workers \ {w} : wk[v].pc = "task" =>
             wk[v].to \in flag /\ prio[wk[v].to] = v /\ wk[v].to \notin tree[v] /\ wk[v].to # k
    BY <1>8, <1>11
  <2> HIDE DEF k, m
  <2>3. \A v \in Workers : tree'[v] = tree[v] \ {k}
    BY <1>1, <2>1, <2>2 DEF Cancelled, TaskInv
  <2>4. inside'[k] = {} /\ \A h \in Components \ {k} : inside'[h] = inside[h]
    BY <1>1, <2>1, <2>2
  <2>5. ASSUME NEW h \in Components, NEW n \in inside'[h] PROVE n \notin owned' /\ cmd'[n].for = h
    <3>1. h # k /\ n \in inside[h]
      BY <2>4, <2>5
    <3> QED BY <1>1, <2>1, <2>2, <3>1 DEF TaskInv
  <2>6. ASSUME NEW v \in Workers, NEW h \in tree'[v] PROVE h \in flag' /\ prio'[h] = v
    BY <1>1, <2>1, <2>3, <2>6 DEF TaskInv
  <2>7. ASSUME NEW v \in Workers, wk'[v].pc = "task"
        PROVE  wk'[v].to \in flag' /\ prio'[wk'[v].to] = v /\ wk'[v].to \notin tree'[v]
    BY <2>1, <2>2, <2>3, <2>7
  <2>8. (\A h \in Components : h \in flag' <=> inside'[h] # {}) /\ flag' \subseteq alive'
    BY <1>1, <2>1, <2>4 DEF TaskInv
  <2> QED BY <2>5, <2>6, <2>7, <2>8 DEF TaskInv
<1> QED BY Actors, WorkerKinds, <1>2, <1>3, <1>4, <1>5, <1>6, <1>7, <1>9, <1>10, <1>11

\* A worker issues no command, and takes back neither an answer nor a configuration.
LEMMA WorkerGives ==
    ASSUME OrderlyInv, NEW w \in Workers, StepsOf(w)
    PROVE  owned \subseteq owned' /\ ready \subseteq ready' /\ cmd' = cmd
<1>1. CASE Quiet(w)
  BY <1>1, QuietKeeps
<1>2. ASSUME NEW k \in Components, WorkerTask(w, k)
      PROVE  owned \subseteq owned' /\ ready \subseteq ready' /\ cmd' = cmd
  BY <1>2 DEF WorkerTask, compVars, appVars
<1>3. ASSUME NEW done \in SUBSET Msgs, WorkerProcess(w, done)
      PROVE  owned \subseteq owned' /\ ready \subseteq ready' /\ cmd' = cmd
  BY <1>3 DEF WorkerProcess, compVars
<1>4. CASE WorkerData(w)
  BY <1>4 DEF WorkerData, compVars
<1>5. CASE WorkerSetParam(w) \/ WorkerUnregister(w)
  BY <1>5 DEF WorkerSetParam, WorkerUnregister
<1>6. CASE WorkerPurge(w)
  BY <1>6, Turns
<1> QED BY WorkerKinds, <1>1, <1>2, <1>3, <1>4, <1>5, <1>6

\* A component that is about to move to another worker has no other command.
LEMMA MoveStep ==
    ASSUME OrderlyInv, [Next]_vars
    PROVE  MoveInv'
<1>1. MoveInv /\ CmdInv
  BY DEF OrderlyInv, BaseInv, ShapeInv
<1>2. ASSUME owned \subseteq owned', ready \subseteq ready', cmd' = cmd PROVE MoveInv'
  BY <1>1, <1>2 DEF MoveInv, Moves
<1>3. ASSUME AppSteps PROVE MoveInv'
  <2>1. PICK m \in Msgs, op \in {"register", "setparam", "data", "unregister"},
             k \in Components \cup {None}, a \in Workers \cup {None} :
             /\ Issue(m, op, k, a)
             /\ op = "register" <=> k = None
             /\ k # None => k \in alive /\ ~Moving(k) /\ (DataUntil = "asked" => ~Leaving(k))
             /\ op = "setparam" => Outstanding(k) = {} \/ ~Moves(k, a)
    BY <1>3, Issues
  <2>2. /\ m \in owned /\ owned' = owned \ {m} /\ ready' = ready
        /\ cmd'[m] = [op |-> op, for |-> k, arg |-> a]
        /\ \A n \in Msgs \ owned : n # m /\ cmd'[n] = cmd[n]
    BY <1>3, <2>1, IssueSays, IssueKeeps DEF OrderlyInv
  <2>3. Msgs \ owned' = (Msgs \ owned) \cup {m}
    BY <2>2
  <2> SUFFICES ASSUME NEW x \in Msgs \ owned', NEW y \in Msgs \ owned', cmd'[x].op = "setparam",
                      cmd'[x].arg # None \/ cmd'[x].for \notin ready', cmd'[y].for = cmd'[x].for
               PROVE  y = x
    BY DEF MoveInv, Moves
  <2>4. Moves(cmd'[x].for, cmd'[x].arg)
    BY <2>2 DEF Moves
  <2>5. CASE x = m
    <3>1. op = "setparam" /\ Outstanding(k) = {} /\ cmd'[x].for = k
      BY <2>1, <2>2, <2>4, <2>5
    <3>2. y \notin Msgs \ owned
      BY <2>2, <3>1 DEF Outstanding
    <3> QED BY <2>3, <2>5, <3>2
  <2>6. CASE x # m
    <3>1. /\ x \in Msgs \ owned /\ cmd'[x] = cmd[x] /\ cmd[x].for \in Components
          /\ cmd[x].op = "setparam" /\ Moves(cmd[x].for, cmd[x].arg)
      BY <1>1, <2>2, <2>3, <2>4, <2>6 DEF CmdInv
    <3>2. y # m
      <4> SUFFICES ASSUME y = m PROVE FALSE
        OBVIOUS
      <4>1. cmd[x].for = k /\ k # None
        BY <2>2, <3>1, Numbers
      <4> QED BY <2>1, <3>1, <4>1 DEF Moving, Outstanding
    <3>3. y \in Msgs \ owned /\ cmd[y].for = cmd[x].for
      BY <2>2, <2>3, <3>1, <3>2
    <3> QED BY <1>1, <3>1, <3>3 DEF MoveInv
  <2> QED BY <2>5, <2>6
<1>4. CASE DspSteps
  BY <1>2, <1>4, DspDoes
<1>5. CASE UNCHANGED vars
  BY <1>2, <1>5 DEF vars, compVars, appVars
<1>6. ASSUME NEW w \in Workers, StepsOf(w) PROVE MoveInv'
  BY <1>2, <1>6, WorkerGives
<1> QED BY <1>3, <1>4, <1>5, <1>6, Actors

\* No worker is given a task while it waits for messages.
LEMMA AsleepStep ==
    ASSUME OrderlyInv, [Next]_vars
    PROVE  NoneAsleep'
<1>1. /\ NoneAsleep /\ TaskInv
      /\ tree \in [Workers -> SUBSET Components] /\ prio \in [Components -> Workers]
      /\ wk \in [Workers -> [pc : WorkerPlaces, msg : Msgs \cup {None},
                             to : Components \cup {None}, at : Workers \cup {None}]]
  BY DEF OrderlyInv, BaseInv, TypeOK
<1>2. CASE AppSteps \/ DspSteps \/ UNCHANGED vars
  <2>1. UNCHANGED <<tree, wk>>
    BY <1>2, IssueKeeps, DspDoes DEF vars, runVars
  <2> QED BY <1>1, <2>1 DEF NoneAsleep
<1>3. ASSUME NEW w \in Workers, StepsOf(w) PROVE NoneAsleep'
  <2>1. \A v \in Workers \ {w} : wk'[v] = wk[v]
    BY <1>3, Goes DEF OrderlyInv
  <2>2. ASSUME wk'[w].pc = "wait" => tree'[w] = {}, \A v \in Workers \ {w} : tree'[v] = tree[v] PROVE NoneAsleep'
    BY <1>1, <2>1, <2>2 DEF NoneAsleep
  <2>3. CASE WorkerWait(w)
    BY <2>2, <2>3 DEF WorkerWait, runVars
  <2>4. CASE Quiet(w) /\ ~WorkerWait(w)
    <3>1. tree' = tree
      BY <2>4, QuietKeeps
    <3>2. CASE \E p \in Workers : WorkerLookup(w, p)
      BY <1>1, <2>2, <3>1, <3>2 DEF WorkerLookup
    <3>3. CASE WorkerRecv(w)
      BY <1>1, <2>2, <3>1, <3>3, Receives DEF OrderlyInv
    <3>4. CASE WorkerElevate(w) \/ WorkerMarker(w)
      <4>1. wk' = [wk EXCEPT ![w].pc = "purge"] \/ wk' = [wk EXCEPT ![w].pc = "marker"]
        BY <3>4 DEF WorkerElevate, WorkerMarker
      <4> QED BY <1>1, <2>2, <3>1, <4>1
    <3>5. CASE WorkerFree(w)
      <4>1. wk' = [wk EXCEPT ![w] = Idle]
        BY <3>5 DEF WorkerFree
      <4> QED BY <1>1, <2>2, <3>1, <4>1 DEF Idle
    <3> QED BY <2>4, <3>2, <3>3, <3>4, <3>5 DEF Quiet
  <2>5. CASE WorkerPurge(w)
    <3>1. tree' = tree /\ wk[w].pc = "purge" /\ (wk' = wk \/ wk' = [wk EXCEPT ![w].pc = "free"])
      BY <2>5, Turns
    <3>2. wk'[w].pc # "wait"
      BY <1>1, <3>1
    <3> QED BY <2>2, <3>1, <3>2
  <2>6. ASSUME NEW k \in Components, WorkerTask(w, k) PROVE NoneAsleep'
    BY <1>1, <2>2, <2>6 DEF WorkerTask
  <2>7. ASSUME NEW done \in SUBSET Msgs, WorkerProcess(w, done) PROVE NoneAsleep'
    <3>1. wk' = [wk EXCEPT ![w] = Idle] /\ (tree' = tree \/ tree' = Scheduled(wk[w].to)) /\ wk[w].pc = "task"
      BY <2>7 DEF WorkerProcess
    <3>2. prio[wk[w].to] = w
      BY <1>1, <3>1 DEF TaskInv
    <3>3. wk'[w].pc # "wait"
      BY <1>1, <3>1 DEF Idle
    <3>4. \A v \in Workers \ {w} : tree'[v] = tree[v]
      BY <1>1, <3>1, <3>2 DEF Scheduled
    <3> QED BY <2>2, <3>3, <3>4
  <2>8. ASSUME WorkerData(w) \/ WorkerSetParam(w) \/ WorkerUnregister(w)
        PROVE  prio[wk[w].to] = w /\ wk'[w].pc # "wait" /\ wk[w].to \in Components
    <3>1. \E op : Enter(w, op)
      BY <2>8 DEF WorkerData, WorkerSetParam, WorkerUnregister
    <3>2. wk' = [wk EXCEPT ![w] = Idle] \/ wk' = [wk EXCEPT ![w].pc = "cleanup", ![w].msg = None]
      BY <2>8 DEF WorkerData, WorkerSetParam, WorkerUnregister
    <3>3. wk'[w].pc # "wait"
      BY <1>1, <3>2 DEF Idle
    <3> QED BY <3>1, <3>3, Executing
  <2>9. CASE WorkerData(w) \/ WorkerUnregister(w)
    <3>1. tree' = tree \/ tree' = Scheduled(wk[w].to) \/ tree' = Cancelled(wk[w].to)
      BY <2>9 DEF WorkerData, WorkerUnregister, runVars
    <3>2. \A v \in Workers \ {w} : tree'[v] = tree[v]
      BY <1>1, <2>8, <2>9, <3>1 DEF Scheduled, Cancelled
    <3> QED BY <2>2, <2>8, <2>9, <3>2
  <2>10. CASE WorkerSetParam(w)
    <3> DEFINE k == wk[w].to
    <3>1. \E new : /\ prio' = [prio EXCEPT ![k] = new]
                   /\ tree' = IF k \notin flag THEN tree
                       ELSE [v \in Workers |-> (IF v = prio[k] THEN tree[v] \ {k} ELSE tree[v])
                                                 \cup (IF v = new THEN {k} ELSE {})]
      BY <2>10 DEF WorkerSetParam
    <3>2. (prio' = prio \/ k \notin flag) /\ prio[k] = w /\ wk'[w].pc # "wait" /\ k \in Components
      BY <2>8, <2>10, MovesAlone
    <3> HIDE DEF k
    <3>3. \A v \in Workers \ {w} : tree'[v] = tree[v]
      <4>1. PICK new : /\ prio' = [prio EXCEPT ![k] = new]
                       /\ tree' = IF k \notin flag THEN tree
                           ELSE [v \in Workers |-> (IF v = prio[k] THEN tree[v] \ {k} ELSE tree[v])
                                                     \cup (IF v = new THEN {k} ELSE {})]
        BY <3>1
      <4>2. CASE k \notin flag
        BY <4>1, <4>2
      <4>3. CASE k \in flag
        <5>1. new = w
          BY <1>1, <3>2, <4>1, <4>3
        <5> QED BY <3>2, <4>1, <4>3, <5>1
      <4> QED BY <4>2, <4>3
    <3> QED BY <2>2, <3>2, <3>3
  <2> QED BY <1>3, WorkerKinds, <2>3, <2>4, <2>5, <2>6, <2>7, <2>9, <2>10
<1> QED BY <1>2, <1>3, Actors

-----------------------------------------------------------------------------
(* Places.                                                                 *)

\* Only a deletion ends a component, and only a configuration moves one.
LEMMA WorkerChanges ==
    ASSUME OrderlyInv, NEW w \in Workers, StepsOf(w)
    PROVE  /\ alive' = alive \/ (WorkerUnregister(w) /\ alive' = alive \ {wk[w].to})
           /\ \/ prio' = prio
              \/ WorkerSetParam(w) /\ \A k \in Components : k # wk[w].to => prio'[k] = prio[k]
<1>1. CASE Quiet(w)
  BY <1>1, QuietKeeps
<1>2. ASSUME NEW k \in Components, WorkerTask(w, k) PROVE UNCHANGED <<alive, prio>>
  BY <1>2 DEF WorkerTask, compVars
<1>3. ASSUME NEW done \in SUBSET Msgs, WorkerProcess(w, done) PROVE UNCHANGED <<alive, prio>>
  BY <1>3 DEF WorkerProcess, compVars
<1>4. CASE WorkerData(w)
  BY <1>4 DEF WorkerData, compVars
<1>5. CASE WorkerSetParam(w)
  <2>1. alive' = alive /\ \E new : prio' = [prio EXCEPT ![wk[w].to] = new]
    BY <1>5 DEF WorkerSetParam
  <2> QED BY <1>5, <2>1 DEF OrderlyInv, BaseInv, TypeOK
<1>6. CASE WorkerUnregister(w)
  BY <1>6 DEF WorkerUnregister
<1>7. CASE WorkerPurge(w)
  BY <1>7, Turns
<1> QED BY WorkerKinds, <1>1, <1>2, <1>3, <1>4, <1>5, <1>6, <1>7

\* Where a worker is after its step, and what it has in hand.
LEMMA After ==
    ASSUME OrderlyInv, NEW w \in Workers, StepsOf(w)
    PROVE  /\ wk'[w].pc = "lookup" => WorkerRecv(w)
           /\ wk'[w].pc = "entry" => WorkerLookup(w, w)
           /\ wk'[w].msg # None => WorkerRecv(w) \/ (wk'[w].msg = wk[w].msg /\ UNCHANGED queue)
           /\ wk[w].pc \in {"cleanup", "marker", "purge"} =>
                /\ wk'[w].to = wk[w].to
                /\ wk'[w].pc \in {"cleanup", "marker", "purge"} \/ (WorkerPurge(w) /\ Head(queue[w]) = Marker)
           /\ WorkerUnregister(w) => wk'[w].pc = "cleanup" /\ wk'[w].to = wk[w].to
<1> DEFINE Good == /\ wk'[w].pc = "lookup" => WorkerRecv(w)
                   /\ wk'[w].pc = "entry" => WorkerLookup(w, w)
                   /\ wk'[w].msg # None => WorkerRecv(w) \/ (wk'[w].msg = wk[w].msg /\ UNCHANGED queue)
                   /\ wk[w].pc \in {"cleanup", "marker", "purge"} =>
                        /\ wk'[w].to = wk[w].to
                        /\ \/ wk'[w].pc \in {"cleanup", "marker", "purge"}
                           \/ WorkerPurge(w) /\ Head(queue[w]) = Marker
                   /\ WorkerUnregister(w) => wk'[w].pc = "cleanup" /\ wk'[w].to = wk[w].to
<1> SUFFICES Good
  OBVIOUS
<1>1. /\ wk \in [Workers -> [pc : WorkerPlaces, msg : Msgs \cup {None},
                             to : Components \cup {None}, at : Workers \cup {None}]]
      /\ wk[w].pc \in {"cleanup", "marker", "purge"} => wk[w].msg = None
      /\ WorkerUnregister(w) => wk[w].pc = "entry"
  BY DEF OrderlyInv, BaseInv, TypeOK, ShapeInv, WorkerInv, WorkerUnregister, Enter
<1>2. ASSUME NEW k \in Components, WorkerTask(w, k) PROVE Good
  BY <1>1, <1>2 DEF WorkerTask
<1>3. ASSUME wk' = [wk EXCEPT ![w] = Idle], wk[w].pc \notin {"cleanup", "marker", "purge", "entry"} PROVE Good
  BY <1>1, <1>3 DEF Idle
<1>4. ASSUME NEW done \in SUBSET Msgs, WorkerProcess(w, done) PROVE Good
  BY <1>3, <1>4 DEF WorkerProcess
<1>5. CASE WorkerFree(w)
  BY <1>3, <1>5 DEF WorkerFree
<1>6. CASE WorkerData(w) \/ WorkerSetParam(w)
  <2>1. wk[w].pc = "entry" /\ wk' = [wk EXCEPT ![w] = Idle]
    BY <1>6 DEF WorkerData, WorkerSetParam, Enter
  <2>2. ~WorkerUnregister(w)
    <3>1. WorkerUnregister(w) => cmd[wk[w].msg].op = "unregister"
      BY DEF WorkerUnregister, Enter
    <3> QED BY <1>6, <3>1 DEF WorkerData, WorkerSetParam, Enter
  <2> QED BY <1>1, <2>1, <2>2 DEF Idle
<1>7. CASE WorkerUnregister(w)
  <2>1. wk[w].pc = "entry" /\ wk' = [wk EXCEPT ![w].pc = "cleanup", ![w].msg = None]
    BY <1>7 DEF WorkerUnregister, Enter
  <2> QED BY <1>1, <2>1
<1>8. CASE WorkerPurge(w)
  <2>1. wk[w].pc = "purge" /\ (wk' = wk \/ (wk' = [wk EXCEPT ![w].pc = "free"] /\ Head(queue[w]) = Marker))
    BY <1>8, Turns
  <2> QED BY <1>1, <1>8, <2>1
<1>9. ASSUME NEW p \in Workers, WorkerLookup(w, p) PROVE Good
  <2>1. WorkerLookup(w, w)
    BY <1>9, Found
  <2> QED BY <1>1, <2>1 DEF WorkerLookup
<1>10. CASE WorkerWait(w) \/ WorkerElevate(w)
  <2>1. /\ UNCHANGED queue
        /\ \/ wk[w].pc = "idle" /\ wk' = [wk EXCEPT ![w].pc = "wait"]
           \/ wk[w].pc = "cleanup" /\ wk' = [wk EXCEPT ![w].pc = "marker"]
    BY <1>10 DEF WorkerWait, WorkerElevate
  <2> QED BY <1>1, <2>1
<1>11. CASE WorkerRecv(w)
  <2>1. /\ wk[w].pc = "wait"
        /\ wk' = [wk EXCEPT ![w] = [pc |-> "lookup", msg |-> Head(queue[w]).msg,
                                    to |-> Head(queue[w]).to, at |-> None]]
    BY <1>11, Receives DEF OrderlyInv
  <2> QED BY <1>1, <1>11, <2>1
<1>12. CASE WorkerMarker(w)
  <2>1. wk[w].pc = "marker" /\ wk' = [wk EXCEPT ![w].pc = "purge"]
    BY <1>12, MarksOwn DEF OrderlyInv
  <2> QED BY <1>1, <2>1
<1> HIDE DEF Good
<1> QED BY WorkerKinds, <1>2, <1>4, <1>5, <1>6, <1>7, <1>8, <1>9, <1>10, <1>11, <1>12 DEF Quiet

\* No command is in hand or in a queue for a component that moves, other than that which moves it.
LEMMA MovedOnly ==
    ASSUME OrderlyInv, NEW w \in Workers, WorkerSetParam(w), prio' # prio,
           NEW m \in Msgs, m \notin owned, m # wk[w].msg
    PROVE  cmd[m].for # wk[w].to
BY MovesAlone

\* Commands on their way are for components that are alive.
LEMMA RouteStep ==
    ASSUME OrderlyInv, [Next]_vars
    PROVE  RouteInv'
<1>1. /\ RouteInv /\ cmdq \in Seq(Msgs) /\ prio \in [Components -> Workers] /\ alive \subseteq Components
      /\ alive \cap fresh = {} /\ InCmdq \subseteq Msgs
      /\ dsp.pc \in {"route", "send"} => dsp.msg \in Msgs \ owned
      /\ dsp \in [pc : Places, msg : Msgs \cup {None}, to : Components \cup {None},
                  at : Ids \cup Workers \cup {None}]
  <2>1. dsp.pc \in {"route", "send"} => dsp.msg \in Msgs
    BY DEF OrderlyInv, BaseInv, TypeOK, ShapeInv, DspInv
  <2>2. dsp.pc \in {"route", "send"} => dsp.msg \notin owned
    BY <2>1, Whereabouts DEF OrderlyInv
  <2> QED BY <2>1, <2>2 DEF OrderlyInv, PlaceInv, BaseInv, TypeOK, ThreadInv, CompInv, InCmdq
<1>2. \A m \in InCmdq : m \notin owned
  BY <1>1, Whereabouts DEF OrderlyInv
<1>3. CASE AppSteps
  <2>1. PICK m \in Msgs, op \in {"register", "setparam", "data", "unregister"},
             k \in Components \cup {None}, a \in Workers \cup {None} :
             Issue(m, op, k, a) /\ (op = "register" <=> k = None) /\ (k # None => k \in alive)
    BY <1>3, Issues
  <2>2. /\ UNCHANGED <<alive, prio, dsp>> /\ cmdq' = Append(cmdq, m)
        /\ cmd'[m] = [op |-> op, for |-> k, arg |-> a] /\ \A n \in Msgs \ owned : cmd'[n] = cmd[n]
    <3>1. cmd'[m] = [op |-> op, for |-> k, arg |-> a]
      BY <2>1, IssueSays DEF OrderlyInv
    <3> QED BY <1>3, <2>1, <3>1, IssueKeeps DEF Issue
  <2>3. ASSUME NEW n \in InCmdq' PROVE n \in InCmdq \/ n = m
    <3>1. PICK i \in DOMAIN Append(cmdq, m) : n = Append(cmdq, m)[i]
      BY <2>2, <2>3 DEF InCmdq
    <3> QED BY <1>1, <3>1 DEF InCmdq
  <2>4. ASSUME NEW n \in InCmdq', cmd'[n].op # "register" PROVE cmd'[n].for \in alive'
    BY <1>1, <1>2, <2>1, <2>2, <2>3, <2>4 DEF RouteInv
  <2>5. dsp'.pc \in {"route", "send"} =>
          /\ cmd'[dsp'.msg].op # "register" /\ dsp'.to = cmd'[dsp'.msg].for /\ dsp'.to \in alive'
          /\ dsp'.pc = "send" => dsp'.at = prio'[dsp'.to]
    BY <1>1, <2>2 DEF RouteInv
  <2> QED BY <2>4, <2>5 DEF RouteInv
<1>4. CASE DspSteps
  <2>1. /\ cmd' = cmd /\ alive \subseteq alive' /\ \A k \in alive : prio'[k] = prio[k]
    BY <1>1, <1>4, DspDoes
  <2>2. cmdq' = cmdq \/ (cmdq # <<>> /\ cmdq' = Tail(cmdq))
    BY <1>4 DEF DspSteps, DspRegister, DspAlloc, DspCreateFails, DspLookup, DspSend, DspCreate, DspRoute
  <2>3. InCmdq' \subseteq InCmdq
    <3>1. CASE cmdq' = cmdq
      BY <3>1 DEF InCmdq
    <3>2. CASE cmdq # <<>> /\ cmdq' = Tail(cmdq)
      <4>1. /\ Len(cmdq) \in Nat /\ DOMAIN cmdq = 1 .. Len(cmdq) /\ DOMAIN Tail(cmdq) = 1 .. Len(cmdq) - 1
            /\ \A i \in 1 .. Len(cmdq) - 1 : Tail(cmdq)[i] = cmdq[i + 1] /\ i + 1 \in 1 .. Len(cmdq)
        BY <1>1, <3>2
      <4> QED BY <3>2, <4>1 DEF InCmdq
    <3> QED BY <2>2, <3>1, <3>2
  <2>4. \A m \in InCmdq' : cmd'[m].op # "register" => cmd'[m].for \in alive'
    BY <1>1, <2>1, <2>3 DEF RouteInv
  <2> DEFINE Good == dsp'.pc \in {"route", "send"} =>
               /\ cmd[dsp'.msg].op # "register" /\ dsp'.to = cmd[dsp'.msg].for /\ dsp'.to \in alive
               /\ dsp'.pc = "send" => dsp'.at = prio[dsp'.to]
  <2>5. Good
    <3>1. CASE DspRegister
      <4>1. dsp' = dsp \/ dsp'.pc = "alloc"
        BY <3>1 DEF DspRegister
      <4> QED BY <1>1, <4>1 DEF RouteInv
    <3>2. CASE DspAlloc
      BY <1>1, <3>2 DEF DspAlloc
    <3>3. CASE DspCreateFails \/ DspSend \/ \E k \in Components : DspCreate(k)
      <4>1. dsp' = Idle
        BY <3>3 DEF DspCreateFails, DspSend, DspCreate
      <4> QED BY <4>1 DEF Idle
    <3>4. CASE DspLookup
      BY <3>4, Routed
    <3>5. ASSUME NEW w \in Workers, DspRoute(w) PROVE Good
      <4>1. w = prio[dsp.to] /\ dsp.pc = "route" /\ dsp' = [dsp EXCEPT !.pc = "send", !.at = w]
        BY <3>5, Routed DEF DspRoute
      <4>2. dsp'.pc = "send" /\ dsp'.at = w /\ dsp'.to = dsp.to /\ dsp'.msg = dsp.msg
        BY <1>1, <4>1
      <4> QED BY <1>1, <4>1, <4>2 DEF RouteInv
    <3> QED BY <1>4, <3>1, <3>2, <3>3, <3>4, <3>5 DEF DspSteps
  <2> QED BY <2>1, <2>4, <2>5 DEF RouteInv
<1>5. ASSUME NEW w \in Workers, StepsOf(w) PROVE RouteInv'
  <2>1. UNCHANGED <<cmd, cmdq, dsp>> /\ InCmdq' = InCmdq
    <3>1. WorkerSteps
      BY <1>5 DEF StepsOf, WorkerSteps
    <3> QED BY <3>1, Leaves DEF InCmdq
  <2>2. \A k \in alive : (\E m \in InCmdq : cmd[m].op # "register" /\ cmd[m].for = k)
                            \/ (dsp.pc \in {"route", "send"} /\ dsp.to = k) => k \in alive'
    BY <1>5, WorkerChanges, ExitsAlone
  <2>3. dsp.pc \in {"route", "send"} => prio'[dsp.to] = prio[dsp.to]
    <3> SUFFICES ASSUME dsp.pc \in {"route", "send"}, prio' # prio PROVE prio'[dsp.to] = prio[dsp.to]
      OBVIOUS
    <3>1. WorkerSetParam(w) /\ \A k \in Components : k # wk[w].to => prio'[k] = prio[k]
      BY <1>5, WorkerChanges
    <3>2. dsp.msg \in Msgs \ owned /\ dsp.msg # wk[w].msg /\ cmd[dsp.msg].for = dsp.to /\ dsp.to \in Components
      BY <1>1, Whereabouts DEF OrderlyInv, RouteInv
    <3> QED BY <3>1, <3>2, MovedOnly
  <2> QED BY <1>1, <2>1, <2>2, <2>3 DEF RouteInv
<1>6. CASE UNCHANGED vars
  BY <1>1, <1>6 DEF vars, compVars, appVars, RouteInv, InCmdq
<1> QED BY <1>3, <1>4, <1>5, <1>6, Actors

\* What is in a worker's queue is for components of its own, alive or being purged.
LEMMA LineStep ==
    ASSUME OrderlyInv, [Next]_vars
    PROVE  LineInv'
<1>1. /\ LineInv /\ prio \in [Components -> Workers] /\ alive \subseteq Components /\ alive \cap fresh = {}
      /\ \A v \in Workers : Cleans(v) => wk[v].to \notin fresh
      /\ queue \in [Workers -> Seq(Item0)]
  BY DEF OrderlyInv, PlaceInv, BaseInv, TypeOK, ThreadInv, CompInv, Item0
<1>2. SUFFICES ASSUME NEW v \in Workers, NEW j \in DOMAIN queue'[v], queue'[v][j].msg # None
               PROVE  /\ cmd'[queue'[v][j].msg].op # "register" /\ cmd'[queue'[v][j].msg].for = queue'[v][j].to
                      /\ prio'[queue'[v][j].to] = v
                      /\ \/ queue'[v][j].to \in alive'
                         \/ wk'[v].pc \in {"cleanup", "marker", "purge"} /\ wk'[v].to = queue'[v][j].to
  BY DEF LineInv, Purging
<1> DEFINE it == queue'[v][j]
           Good == /\ cmd'[it.msg].op # "register" /\ cmd'[it.msg].for = it.to
                   /\ prio'[it.to] = v
                   /\ it.to \in alive' \/ (wk'[v].pc \in {"cleanup", "marker", "purge"} /\ wk'[v].to = it.to)
<1> SUFFICES Good
  OBVIOUS
<1>3. \/ \E i \in DOMAIN queue[v] : it = queue[v][i]
      \/ DspSend /\ dsp.at = v /\ it = Item(dsp.to, dsp.msg)
  <2>1. Marker.msg = None
    BY DEF Marker, Item
  <2>2. BaseInv
    BY DEF OrderlyInv
  <2> QED BY <1>2, <2>1, <2>2, QueueItems
<1>4. ASSUME NEW i \in DOMAIN queue[v], it = queue[v][i]
      PROVE  /\ cmd[it.msg].op # "register" /\ cmd[it.msg].for = it.to /\ prio[it.to] = v
             /\ it.to \in alive \/ Purging(v, it.to)
             /\ it.msg \in Msgs \ owned /\ it.to \in Components \ fresh
             /\ it.msg \in Named(queue[v]) /\ \A w \in Workers : it.msg # wk[w].msg
  <2>1. it.msg \in Msgs /\ it.to \in Components
    <3>1. queue[v][i] # Marker
      BY <1>2, <1>4 DEF Marker, Item
    <3> QED BY <1>4, <3>1 DEF OrderlyInv, BaseInv, ShapeInv, QueueInv
  <2>2. it.msg \in Named(queue[v])
    BY <1>4 DEF Named
  <2>3. it.msg \notin owned /\ \A w \in Workers : it.msg # wk[w].msg
    BY <2>1, <2>2, Whereabouts DEF OrderlyInv
  <2>4. it.to \in alive \/ Purging(v, it.to)
    BY <1>1, <1>2, <1>4 DEF LineInv
  <2>5. it.to \notin fresh
    BY <1>1, <2>4 DEF Purging, Cleans
  <2>6. cmd[it.msg].op # "register" /\ cmd[it.msg].for = it.to /\ prio[it.to] = v
    BY <1>1, <1>2, <1>4 DEF LineInv
  <2> QED BY <2>1, <2>2, <2>3, <2>4, <2>5, <2>6
<1>5. CASE AppSteps
  <2>1. UNCHANGED <<alive, prio, queue, wk>> /\ \A n \in Msgs \ owned : cmd'[n] = cmd[n]
    BY <1>5, IssueKeeps
  <2>2. PICK i \in DOMAIN queue[v] : it = queue[v][i]
    BY <2>1
  <2> HIDE DEF it
  <2> QED BY <1>4, <2>1, <2>2 DEF Purging
<1>6. CASE UNCHANGED vars
  <2>1. UNCHANGED <<alive, prio, queue, wk, cmd>>
    BY <1>6 DEF vars, compVars, appVars
  <2>2. PICK i \in DOMAIN queue[v] : it = queue[v][i]
    BY <2>1
  <2> HIDE DEF it
  <2> QED BY <1>4, <2>1, <2>2 DEF Purging
<1>7. CASE DspSteps
  <2>1. /\ cmd' = cmd /\ wk' = wk /\ alive \subseteq alive'
        /\ \A k \in Components \ fresh : prio'[k] = prio[k]
    BY <1>7, DspDoes
  <2>2. CASE DspSend /\ dsp.at = v /\ it = Item(dsp.to, dsp.msg)
    <3>1. /\ dsp.pc = "send" /\ it.to = dsp.to /\ it.msg = dsp.msg
      BY <2>2 DEF DspSend, Item
    <3>2. /\ cmd[dsp.msg].op # "register" /\ dsp.to = cmd[dsp.msg].for /\ dsp.to \in alive /\ dsp.at = prio[dsp.to]
      BY <3>1 DEF OrderlyInv, PlaceInv, RouteInv
    <3> HIDE DEF it
    <3> QED BY <1>1, <2>1, <2>2, <3>1, <3>2
  <2>3. ASSUME NEW i \in DOMAIN queue[v], it = queue[v][i] PROVE Good
    <3> HIDE DEF it
    <3> QED BY <1>4, <2>1, <2>3 DEF Purging
  <2> QED BY <1>3, <2>2, <2>3
<1>8. ASSUME NEW w \in Workers, StepsOf(w) PROVE Good
  <2>1. PICK i \in DOMAIN queue[v] : it = queue[v][i]
    <3>1. ~DspSend
      <4>1. ASSUME DspSend PROVE dsp' # dsp
        BY <4>1 DEF DspSend, Idle
      <4>2. dsp' = dsp
        <5>1. WorkerSteps
          BY <1>8 DEF StepsOf, WorkerSteps
        <5> QED BY <5>1, Leaves
      <4> QED BY <4>1, <4>2
    <3> QED BY <1>3, <3>1
  <2>2. cmd' = cmd
    BY <1>8, WorkerGives
  <2>3. prio'[it.to] = v
    <3>1. CASE prio' = prio
      BY <1>4, <2>1, <3>1
    <3>2. CASE prio' # prio
      <4>1. WorkerSetParam(w) /\ \A k \in Components : k # wk[w].to => prio'[k] = prio[k]
        BY <1>8, <3>2, WorkerChanges
      <4> HIDE DEF it
      <4>2. it.to # wk[w].to
        BY <1>4, <2>1, <3>2, <4>1, MovedOnly
      <4> QED BY <1>4, <2>1, <4>1, <4>2
    <3> QED BY <3>1, <3>2
  <2>4. CASE it.to \in alive /\ it.to \notin alive'
    <3>1. WorkerUnregister(w) /\ it.to = wk[w].to
      BY <1>8, <2>4, WorkerChanges
    <3>2. prio[wk[w].to] = w
      BY <3>1, Executing DEF WorkerUnregister
    <3>3. v = w
      BY <1>4, <2>1, <3>1, <3>2
    <3>4. wk'[w].pc = "cleanup" /\ wk'[w].to = wk[w].to
      BY <1>8, <3>1, After
    <3>5. wk'[v].pc \in {"cleanup", "marker", "purge"} /\ wk'[v].to = it.to
      BY <3>1, <3>3, <3>4 DEF Purging
    <3> HIDE DEF it
    <3> QED BY <1>4, <2>1, <2>2, <2>3, <3>5
  <2>5. CASE it.to \in alive'
    <3> HIDE DEF it
    <3> QED BY <1>4, <2>1, <2>2, <2>3, <2>5
  <2>6. CASE it.to \notin alive
    <3>1. Purging(v, it.to)
      BY <1>4, <2>1, <2>6
    <3>2. CASE v # w
      <4>1. wk'[v] = wk[v]
        BY <1>8, <3>2, Goes DEF OrderlyInv
      <4>2. wk'[v].pc \in {"cleanup", "marker", "purge"} /\ wk'[v].to = it.to
        BY <3>1, <4>1 DEF Purging
      <4> HIDE DEF it
      <4> QED BY <1>4, <2>1, <2>2, <2>3, <4>2
    <3>3. CASE v = w
      <4>1. /\ wk'[w].to = it.to /\ wk[w].to = it.to
            /\ wk'[w].pc \in {"cleanup", "marker", "purge"} \/ (WorkerPurge(w) /\ Head(queue[w]) = Marker)
        BY <1>8, <3>1, <3>3, After DEF Purging
      <4>2. ASSUME WorkerPurge(w), Head(queue[w]) = Marker PROVE FALSE
        <5>1. 1 \in DOMAIN queue[w] /\ queue[w][1].msg = None /\ queue[w] \in Seq(Item0)
          BY <4>2, Turns DEF Marker, Item
        <5>2. i < 1
          BY <1>2, <2>1, <2>6, <3>3, <5>1 DEF OrderlyInv, PlaceInv, MarkInv
        <5>3. i \in 1 .. Len(queue[w])
          BY <2>1, <3>3, <5>1
        <5> QED BY <5>2, <5>3
      <4>3. wk'[v].pc \in {"cleanup", "marker", "purge"} /\ wk'[v].to = it.to
        BY <3>3, <4>1, <4>2 DEF Purging
      <4> HIDE DEF it
      <4> QED BY <1>4, <2>1, <2>2, <2>3, <4>3
    <3> QED BY <3>2, <3>3
  <2> QED BY <2>4, <2>5, <2>6
<1> HIDE DEF Good
<1> QED BY <1>5, <1>6, <1>7, <1>8, Actors

\* What a worker's step does to the queues: only receiving and purging change them.
LEMMA QueueKept ==
    ASSUME OrderlyInv, NEW w \in Workers, StepsOf(w), ~WorkerRecv(w), ~WorkerMarker(w), ~WorkerPurge(w)
    PROVE  queue' = queue
<1>1. \/ \E k \in Components : WorkerTask(w, k)
      \/ \E p \in Workers : WorkerLookup(w, p)
      \/ \E done \in SUBSET Msgs : WorkerProcess(w, done)
      \/ WorkerWait(w) \/ WorkerData(w) \/ WorkerSetParam(w) \/ WorkerUnregister(w)
      \/ WorkerElevate(w) \/ WorkerFree(w)
  BY WorkerKinds DEF Quiet
<1>2. ASSUME NEW k \in Components, WorkerTask(w, k) PROVE queue' = queue
  BY <1>2 DEF WorkerTask
<1>3. ASSUME NEW p \in Workers, WorkerLookup(w, p) PROVE queue' = queue
  BY <1>3 DEF WorkerLookup
<1>4. ASSUME NEW done \in SUBSET Msgs, WorkerProcess(w, done) PROVE queue' = queue
  BY <1>4 DEF WorkerProcess
<1> QED BY <1>1, <1>2, <1>3, <1>4 DEF WorkerWait, WorkerData, WorkerSetParam, WorkerUnregister,
                                       WorkerElevate, WorkerFree

\* The purge of a queue comes to what is left for the dead component before it comes to its marker.
LEMMA MarkStep ==
    ASSUME OrderlyInv, [Next]_vars
    PROVE  MarkInv'
<1>1. MarkInv /\ queue \in [Workers -> Seq(Item0)] /\ None \notin Msgs /\ alive \cap fresh = {}
  BY Numbers DEF OrderlyInv, PlaceInv, BaseInv, TypeOK, ThreadInv, CompInv, Item0
<1> DEFINE Good(v) == \A i, j \in DOMAIN queue'[v] :
                         queue'[v][i].msg # None /\ queue'[v][j].msg = None /\ queue'[v][i].to \notin alive' => i < j
<1>2. SUFFICES ASSUME NEW v \in Workers PROVE Good(v)
  BY DEF MarkInv
<1> DEFINE q == queue[v]
<1>3. q \in Seq(Item0) /\ Len(q) \in Nat /\ DOMAIN q = 1 .. Len(q)
  <2>1. q \in Seq(Item0)
    BY <1>1
  <2> HIDE DEF q
  <2> QED BY <2>1
<1>4. \A i, j \in DOMAIN q : q[i].msg # None /\ q[j].msg = None /\ q[i].to \notin alive => i < j
  BY <1>1 DEF MarkInv
<1>5. ASSUME queue'[v] = q, alive \subseteq alive' PROVE Good(v)
  BY <1>4, <1>5
<1>6. ASSUME queue'[v] = Tail(q), q # <<>>, alive \subseteq alive' PROVE Good(v)
  <2> DEFINE r == Tail(q)
  <2> HIDE DEF q
  <2>1. /\ DOMAIN r = 1 .. Len(q) - 1
        /\ \A i \in 1 .. Len(q) - 1 : r[i] = q[i + 1] /\ i + 1 \in DOMAIN q
    BY <1>3, <1>6
  <2>2. queue'[v] = r
    BY <1>6
  <2> HIDE DEF r
  <2>3. ASSUME NEW i \in DOMAIN r, NEW j \in DOMAIN r, r[i].msg # None, r[j].msg = None, r[i].to \notin alive
        PROVE  i < j
    <3>1. /\ q[i + 1].msg # None /\ q[j + 1].msg = None /\ q[i + 1].to \notin alive
          /\ i + 1 \in DOMAIN q /\ j + 1 \in DOMAIN q
      BY <2>1, <2>3
    <3>2. i + 1 < j + 1 /\ i \in Int /\ j \in Int
      BY <1>3, <1>4, <2>1, <3>1
    <3> QED BY <3>2
  <2> QED BY <1>6, <2>2, <2>3
<1>7. ASSUME NEW e \in Item0, queue'[v] = Append(q, e), e.msg # None, e.to \in alive', alive \subseteq alive'
      PROVE  Good(v)
  <2> HIDE DEF q
  <2>1. /\ DOMAIN Append(q, e) = 1 .. Len(q) + 1 /\ Append(q, e)[Len(q) + 1] = e
        /\ \A i \in 1 .. Len(q) : Append(q, e)[i] = q[i]
    BY <1>3
  <2> SUFFICES ASSUME NEW i \in 1 .. Len(q) + 1, NEW j \in 1 .. Len(q) + 1, Append(q, e)[i].msg # None,
                      Append(q, e)[j].msg = None, Append(q, e)[i].to \notin alive'
               PROVE  i < j
    BY <1>7, <2>1
  <2>2. i # Len(q) + 1 /\ j # Len(q) + 1
    BY <1>7, <2>1
  <2>3. i \in 1 .. Len(q) /\ j \in 1 .. Len(q)
    BY <1>3, <2>2
  <2> QED BY <1>3, <1>4, <1>7, <2>1, <2>3
<1>8. CASE AppSteps \/ UNCHANGED vars
  BY <1>5, <1>8, IssueKeeps DEF vars, compVars
<1>9. CASE DspSteps
  <2>1. alive \subseteq alive'
    BY <1>9, DspDoes
  <2>2. CASE queue' = queue
    BY <1>5, <2>1, <2>2
  <2>3. CASE DspSend
    <3>1. queue' = [queue EXCEPT ![dsp.at] = Append(@, Item(dsp.to, dsp.msg))] /\ dsp.pc = "send"
      BY <2>3 DEF DspSend
    <3>2. /\ Item(dsp.to, dsp.msg) \in Item0 /\ Item(dsp.to, dsp.msg).msg # None
          /\ Item(dsp.to, dsp.msg).to \in alive'
      BY <2>1, <3>1 DEF OrderlyInv, PlaceInv, RouteInv, BaseInv, TypeOK, ShapeInv, DspInv, Item, Item0
    <3>3. queue'[v] = q \/ queue'[v] = Append(q, Item(dsp.to, dsp.msg))
      BY <1>1, <3>1
    <3> HIDE DEF q, Good
    <3> QED BY <1>5, <1>7, <2>1, <3>2, <3>3
  <2> QED BY <1>9, <2>2, <2>3 DEF DspSteps, DspRegister, DspAlloc, DspCreateFails, DspLookup, DspCreate, DspRoute
<1>10. ASSUME NEW w \in Workers, StepsOf(w) PROVE Good(v)
  <2>1. v # w => queue'[v] = q
    BY <1>10, Goes DEF OrderlyInv
  <2>2. CASE WorkerUnregister(w)
    <3>1. queue' = queue /\ alive' = alive \ {wk[w].to} /\ wk[w].pc = "entry"
      BY <2>2 DEF WorkerUnregister, Enter
    <3>2. prio[wk[w].to] = w
      BY <2>2, Executing DEF WorkerUnregister
    <3> SUFFICES ASSUME NEW i \in DOMAIN q, NEW j \in DOMAIN q, q[i].msg # None, q[j].msg = None, q[i].to = wk[w].to
                 PROVE  i < j
      BY <1>4, <3>1
    <3>3. prio[q[i].to] = v
      BY DEF OrderlyInv, PlaceInv, LineInv
    <3>4. None \in Named(queue[w])
      BY <3>2, <3>3 DEF Named
    <3>5. wk[w].pc = "purge"
      BY <3>4 DEF OrderlyInv, BaseInv, ThreadInv, MarkerInv
    <3> QED BY <3>1, <3>5
  <2>3. CASE ~WorkerUnregister(w) /\ v # w
    <3>1. alive' = alive
      BY <1>10, <2>3, WorkerChanges
    <3> HIDE DEF Good, q
    <3> QED BY <1>5, <2>1, <2>3, <3>1
  <2>4. CASE ~WorkerUnregister(w) /\ v = w
    <3>1. alive' = alive
      BY <1>10, <2>4, WorkerChanges
    <3>2. CASE queue' = queue
      BY <1>5, <3>1, <3>2
    <3>3. CASE WorkerRecv(w)
      <4>1. queue'[v] = Tail(q) /\ q # <<>>
        BY <1>1, <2>4, <3>3, Receives DEF OrderlyInv
      <4> QED BY <1>6, <3>1, <4>1
    <3>4. CASE WorkerMarker(w)
      <4>1. queue'[v] = Append(q, Marker) /\ None \notin Named(q)
        BY <1>1, <2>4, <3>4, MarksOwn DEF OrderlyInv
      <4>2. \A i \in DOMAIN q : q[i].msg # None
        BY <4>1 DEF Named
      <4> HIDE DEF q
      <4>3. /\ DOMAIN Append(q, Marker) = 1 .. Len(q) + 1 /\ Append(q, Marker)[Len(q) + 1] = Marker
            /\ \A i \in 1 .. Len(q) : Append(q, Marker)[i] = q[i]
        <5>1. Marker \in Item0
          BY DEF Marker, Item, Item0
        <5> QED BY <1>3, <5>1
      <4> SUFFICES ASSUME NEW i \in 1 .. Len(q) + 1, NEW j \in 1 .. Len(q) + 1, Append(q, Marker)[i].msg # None,
                          Append(q, Marker)[j].msg = None
                   PROVE  i < j
        BY <4>1, <4>3
      <4>4. j = Len(q) + 1
        BY <1>3, <4>2, <4>3
      <4>5. i # Len(q) + 1
        BY <4>3 DEF Marker, Item
      <4> QED BY <1>3, <4>4, <4>5
    <3>5. CASE WorkerPurge(w)
      <4> DEFINE e == Head(q)
      <4>1. /\ q # <<>> /\ 1 \in DOMAIN q /\ e = q[1]
            /\ \/ queue'[v] = Tail(q)
               \/ queue'[v] = Append(Tail(q), e) /\ e.msg \in Msgs /\ e.to \in alive
        BY <1>1, <2>4, <3>5, Turns
      <4>2. CASE queue'[v] = Tail(q)
        BY <1>6, <3>1, <4>1, <4>2
      <4>3. CASE queue'[v] = Append(Tail(q), e) /\ e.msg \in Msgs /\ e.to \in alive
        <5> HIDE DEF q
        <5>1. /\ e \in Item0 /\ Tail(q) \in Seq(Item0)
          BY <1>3, <4>1
        <5>2. /\ Len(Tail(q)) = Len(q) - 1
              /\ \A i \in 1 .. Len(q) - 1 : Tail(q)[i] = q[i + 1] /\ i + 1 \in DOMAIN q
          BY <1>3, <4>1
        <5> DEFINE t == Tail(q)
                   r == Append(t, e)
        <5> HIDE DEF t, e
        <5>3. /\ DOMAIN r = 1 .. Len(q) /\ r[Len(q)] = e
              /\ \A i \in 1 .. Len(q) - 1 : r[i] = t[i]
          <6>1. t \in Seq(Item0) /\ Len(t) = Len(q) - 1 /\ Len(q) \in Nat /\ e \in Item0
            BY <1>3, <5>1, <5>2 DEF t
          <6>2. \A s \in Seq(Item0) : DOMAIN Append(s, e) = 1 .. Len(s) + 1 /\ Append(s, e)[Len(s) + 1] = e
                                      /\ \A i \in 1 .. Len(s) : Append(s, e)[i] = s[i]
            BY <6>1
          <6>3. DOMAIN r = 1 .. Len(t) + 1 /\ r[Len(t) + 1] = e /\ \A i \in 1 .. Len(t) : r[i] = t[i]
            BY <6>1, <6>2
          <6>4. Len(t) + 1 = Len(q)
            BY <6>1
          <6> HIDE DEF r
          <6> QED BY <6>1, <6>3, <6>4
        <5>4. queue'[v] = r
          BY <4>3 DEF t
        <5> HIDE DEF r
        <5> SUFFICES ASSUME NEW i \in 1 .. Len(q), NEW j \in 1 .. Len(q), r[i].msg # None,
                            r[j].msg = None, r[i].to \notin alive
                     PROVE  i < j
          BY <3>1, <5>3, <5>4
        <5>5. i # Len(q) /\ j # Len(q)
          BY <1>1, <4>3, <5>3
        <5>6. i \in 1 .. Len(q) - 1 /\ j \in 1 .. Len(q) - 1
          <6>1. Len(q) \in Nat
            BY <1>3
          <6> QED BY <5>5, <6>1
        <5>7. r[i] = q[i + 1] /\ r[j] = q[j + 1] /\ i + 1 \in DOMAIN q /\ j + 1 \in DOMAIN q
          BY <5>2, <5>3, <5>6 DEF t
        <5>8. i + 1 < j + 1
          BY <1>4, <5>7
        <5> QED BY <5>8
      <4> QED BY <4>1, <4>2, <4>3
    <3>6. ASSUME ~WorkerRecv(w), ~WorkerMarker(w), ~WorkerPurge(w) PROVE queue' = queue
      BY <1>10, <3>6, QueueKept
    <3> HIDE DEF Good
    <3> QED BY <3>2, <3>3, <3>4, <3>5, <3>6
  <2> QED BY <2>2, <2>3, <2>4
<1> HIDE DEF Good
<1> QED BY <1>8, <1>9, <1>10, Actors

\* What a worker has in hand is for a component of its own that is alive.
LEMMA HandStep ==
    ASSUME OrderlyInv, [Next]_vars
    PROVE  HandInv'
<1> DEFINE Good(w) == wk'[w].pc \in {"lookup", "entry"} =>
               /\ cmd'[wk'[w].msg].op # "register" /\ cmd'[wk'[w].msg].for = wk'[w].to
               /\ prio'[wk'[w].to] = w /\ wk'[w].to \in alive'
               /\ wk'[w].pc = "entry" => wk'[w].at = w
<1>1. SUFFICES ASSUME NEW v \in Workers PROVE Good(v)
  BY DEF HandInv
<1>2. /\ wk \in [Workers -> [pc : WorkerPlaces, msg : Msgs \cup {None},
                             to : Components \cup {None}, at : Workers \cup {None}]]
      /\ prio \in [Components -> Workers] /\ alive \subseteq Components /\ alive \cap fresh = {}
  BY DEF OrderlyInv, BaseInv, TypeOK, ThreadInv, CompInv
<1>3. ASSUME wk[v].pc \in {"lookup", "entry"}
      PROVE  /\ cmd[wk[v].msg].op # "register" /\ cmd[wk[v].msg].for = wk[v].to
             /\ prio[wk[v].to] = v /\ wk[v].to \in alive
             /\ wk[v].pc = "entry" => wk[v].at = v
             /\ wk[v].msg \in Msgs \ owned
  <2>1. wk[v].msg \in Msgs
    BY <1>2, <1>3 DEF OrderlyInv, BaseInv, ShapeInv, WorkerInv
  <2>2. wk[v].msg \notin owned
    BY <2>1, Whereabouts DEF OrderlyInv
  <2> QED BY <1>3, <2>1, <2>2 DEF OrderlyInv, PlaceInv, HandInv
<1>4. ASSUME wk'[v] = wk[v],
             wk[v].pc \in {"lookup", "entry"} => /\ cmd'[wk[v].msg] = cmd[wk[v].msg]
                                                 /\ prio'[wk[v].to] = prio[wk[v].to] /\ wk[v].to \in alive'
      PROVE  Good(v)
  BY <1>3, <1>4
<1>5. CASE AppSteps \/ UNCHANGED vars
  <2>1. UNCHANGED <<wk, prio, alive>> /\ \A n \in Msgs \ owned : cmd'[n] = cmd[n]
    BY <1>5, IssueKeeps DEF vars, compVars, appVars
  <2> QED BY <1>3, <1>4, <2>1
<1>6. CASE DspSteps
  <2>1. /\ UNCHANGED <<wk, cmd>> /\ alive \subseteq alive' /\ \A k \in alive : prio'[k] = prio[k]
    BY <1>2, <1>6, DspDoes
  <2> QED BY <1>3, <1>4, <2>1
<1>7. ASSUME NEW w \in Workers, StepsOf(w) PROVE Good(v)
  <2>1. cmd' = cmd
    BY <1>7, WorkerGives
  <2>2. CASE v # w
    <3>1. wk'[v] = wk[v]
      BY <1>7, <2>2, Goes DEF OrderlyInv
    <3>2. ASSUME wk[v].pc \in {"lookup", "entry"} PROVE wk[v].to \in alive'
      <4>1. ASSUME WorkerUnregister(w) PROVE wk[w].to # wk[v].to
        <5>1. prio[wk[w].to] = w
          BY <4>1, Executing DEF WorkerUnregister
        <5> QED BY <1>3, <2>2, <3>2, <5>1
      <4> QED BY <1>3, <1>7, <3>2, <4>1, WorkerChanges
    <3>3. ASSUME wk[v].pc \in {"lookup", "entry"}, prio' # prio PROVE prio'[wk[v].to] = prio[wk[v].to]
      <4>1. WorkerSetParam(w) /\ \A k \in Components : k # wk[w].to => prio'[k] = prio[k]
        BY <1>7, <3>3, WorkerChanges
      <4>2. wk[v].msg # wk[w].msg
        BY <1>3, <2>2, <3>3, Whereabouts DEF OrderlyInv
      <4>3. wk[v].to # wk[w].to
        BY <1>3, <3>3, <4>1, <4>2, MovedOnly
      <4> QED BY <1>2, <1>3, <3>3, <4>1, <4>3
    <3> QED BY <1>4, <2>1, <3>1, <3>2, <3>3
  <2>3. CASE v = w /\ WorkerRecv(w)
    <3> DEFINE it == Head(queue[w])
    <3>1. /\ wk'[w] = [pc |-> "lookup", msg |-> it.msg, to |-> it.to, at |-> None]
          /\ it = queue[w][1] /\ 1 \in DOMAIN queue[w] /\ it.msg \in Msgs /\ wk[w].pc = "wait"
      BY <1>2, <2>3, Receives DEF OrderlyInv
    <3> HIDE DEF it
    <3>2. /\ cmd[it.msg].op # "register" /\ cmd[it.msg].for = it.to /\ prio[it.to] = w
          /\ it.to \in alive \/ Purging(w, it.to)
      BY <3>1, Numbers DEF OrderlyInv, PlaceInv, LineInv
    <3>3. it.to \in alive
      BY <3>1, <3>2 DEF Purging
    <3>4. UNCHANGED <<alive, prio>>
      BY <2>3, QuietKeeps DEF Quiet
    <3> QED BY <2>1, <2>3, <3>1, <3>2, <3>3, <3>4
  <2>4. CASE v = w /\ WorkerLookup(w, w)
    <3>1. wk[w].pc = "lookup" /\ wk' = [wk EXCEPT ![w].pc = "entry", ![w].at = w] /\ UNCHANGED <<alive, prio>>
      BY <2>4 DEF WorkerLookup, compVars
    <3>2. wk'[w].to = wk[w].to /\ wk'[w].msg = wk[w].msg /\ wk'[w].at = w
      BY <1>2, <3>1
    <3> QED BY <1>3, <2>1, <2>4, <3>1, <3>2
  <2>5. v = w /\ wk'[w].pc \in {"lookup", "entry"} => WorkerRecv(w) \/ WorkerLookup(w, w)
    BY <1>7, After
  <2> QED BY <2>2, <2>3, <2>4, <2>5
<1> HIDE DEF Good
<1> QED BY <1>5, <1>6, <1>7, Actors

-----------------------------------------------------------------------------
(* The history and the order.                                              *)

\* What a step that executes or answers a command leaves of the history.
LEMMA HistoryAfter ==
    ASSUME OrderlyInv, NEW m \in Msgs, sent' = Forget(m)
    PROVE  /\ \A h \in Components : SentTo(h)' = SentTo(h) \ {m}
           /\ \A h \in Components : \A a, b \in Msgs : Before(h, a, b)' => Before(h, a, b) /\ a # m /\ b # m
<1>1. TypeOK /\ \A k \in Components : \A a, b \in Msgs : Before(k, a, b) => a # b
  BY DEF OrderlyInv, BaseInv, OrderInv
<1> QED BY <1>1, Forgotten

\* The history has the commands that are not with the application or their component.
LEMMA SentStep ==
    ASSUME OrderlyInv, [Next]_vars
    PROVE  SentInv'
<1>1. /\ SentInv /\ CmdInv /\ inside \in [Components -> SUBSET Msgs] /\ TypeOK
      /\ \A k \in Components : SentTo(k) \subseteq Msgs
  <2>1. TypeOK /\ SentInv /\ CmdInv
    BY DEF OrderlyInv, BaseInv, ShapeInv
  <2>2. inside \in [Components -> SUBSET Msgs] /\ sent \in [Components -> Seq(Msgs)]
    BY <2>1 DEF TypeOK
  <2>3. ASSUME NEW k \in Components PROVE SentTo(k) \subseteq Msgs
    <3> DEFINE q == sent[k]
    <3>1. q \in Seq(Msgs)
      BY <2>2
    <3> HIDE DEF q
    <3>2. \A i \in DOMAIN q : q[i] \in Msgs
      BY <3>1
    <3> QED BY <3>2 DEF SentTo, q
  <2> QED BY <2>1, <2>2, <2>3
<1> DEFINE S(k) == SentTo(k)
           T(k) == {sent'[k][i] : i \in DOMAIN sent'[k]}
           Good == /\ \A k \in Components : \A n \in T(k) :
                        /\ n \notin owned' /\ cmd'[n].op # "register" /\ cmd'[n].for = k
                        /\ \A h \in Components : n \notin inside'[h]
                   /\ \A n \in Msgs \ owned' : cmd'[n].op # "register" =>
                        cmd'[n].for \in Components /\ n \in T(cmd'[n].for) \cup inside'[cmd'[n].for]
<1>0. ASSUME Good PROVE SentInv'
  <2>0. \A k \in Components : SentTo(k)' = T(k)
    BY DEF SentTo
  <2>1. \A k \in Components : \A m \in SentTo(k)' :
           m \notin owned' /\ cmd'[m].op # "register" /\ cmd'[m].for = k /\ \A h \in Components : m \notin inside'[h]
    BY <1>0, <2>0
  <2>2. ASSUME NEW m \in Msgs, m \notin owned', cmd'[m].op # "register"
        PROVE  cmd'[m].for \in Components /\ (m \in {sent'[cmd'[m].for][i] : i \in DOMAIN sent'[cmd'[m].for]}
                                                       \cup inside'[cmd'[m].for])
    BY <1>0, <2>2
  <2> HIDE DEF T, Good
  <2> QED BY <2>1, <2>2 DEF SentInv, SentTo
<1> SUFFICES Good
  BY <1>0
<1>2. /\ \A k \in Components : \A n \in S(k) :
           /\ n \in Msgs \ owned /\ cmd[n].op # "register" /\ cmd[n].for = k
           /\ \A h \in Components : n \notin inside[h]
      /\ \A n \in Msgs \ owned : cmd[n].op # "register" =>
           cmd[n].for \in Components /\ n \in S(cmd[n].for) \cup inside[cmd[n].for]
  BY <1>1 DEF SentInv
<1>3. ASSUME UNCHANGED sent PROVE \A k \in Components : T(k) = S(k)
  <2> SUFFICES ASSUME NEW k \in Components PROVE T(k) = S(k)
    OBVIOUS
  <2>1. sent'[k] = sent[k]
    BY <1>3
  <2> QED BY <2>1 DEF SentTo
<1> HIDE DEF S, T, SentTo
<1>4. CASE AppSteps
  <2>1. PICK m \in Msgs, op \in {"register", "setparam", "data", "unregister"},
             k \in Components \cup {None}, a \in Workers \cup {None} :
             Issue(m, op, k, a) /\ (op = "register" <=> k = None)
    BY <1>4, Issues
  <2>2. /\ m \in owned /\ owned' = owned \ {m} /\ UNCHANGED inside
        /\ cmd'[m] = [op |-> op, for |-> k, arg |-> a] /\ \A n \in Msgs \ owned : n # m /\ cmd'[n] = cmd[n]
    BY <1>4, <2>1, IssueSays, IssueKeeps DEF OrderlyInv
  <2>3. \A h \in Components : m \notin inside[h]
    BY <2>2, Whereabouts DEF OrderlyInv
  <2>4. Msgs \ owned' = (Msgs \ owned) \cup {m}
    BY <2>2
  <2>5. CASE k = None
    <3>1. \A h \in Components : T(h) = S(h)
      BY <1>3, <2>1, <2>5 DEF Issue
    <3> QED BY <1>2, <2>1, <2>2, <2>4, <2>5, <3>1
  <2>6. CASE k # None
    <3>1. k \in Components /\ sent' = [sent EXCEPT ![k] = Append(@, m)]
      BY <2>1, <2>6 DEF Issue
    <3>2. \A h \in Components : T(h) = IF h = k THEN S(h) \cup {m} ELSE S(h)
      BY <1>1, <3>1, Appended DEF S, T, SentTo
    <3>3. ASSUME NEW h \in Components, NEW n \in T(h)
          PROVE  /\ n \notin owned' /\ cmd'[n].op # "register" /\ cmd'[n].for = h
                 /\ \A c \in Components : n \notin inside'[c]
      <4>1. CASE n = m
        <5>1. h = k
          BY <1>2, <2>2, <3>2, <3>3, <4>1
        <5> QED BY <2>1, <2>2, <2>3, <2>6, <4>1, <5>1
      <4>2. CASE n # m
        <5>1. n \in S(h)
          BY <3>2, <3>3, <4>2
        <5> QED BY <1>2, <2>2, <5>1
      <4> QED BY <4>1, <4>2
    <3>4. ASSUME NEW n \in Msgs \ owned', cmd'[n].op # "register"
          PROVE  cmd'[n].for \in Components /\ n \in T(cmd'[n].for) \cup inside'[cmd'[n].for]
      <4>1. CASE n = m
        BY <2>2, <3>1, <3>2, <4>1
      <4>2. CASE n # m
        <5>1. n \in Msgs \ owned /\ cmd'[n] = cmd[n]
          BY <2>2, <2>4, <4>2
        <5>2. cmd[n].for \in Components /\ n \in S(cmd[n].for) \cup inside[cmd[n].for]
          BY <1>2, <3>4, <5>1
        <5> QED BY <2>2, <3>2, <5>1, <5>2
      <4> QED BY <4>1, <4>2
    <3> QED BY <3>3, <3>4
  <2> QED BY <2>5, <2>6
<1>5. ASSUME UNCHANGED <<sent, inside, cmd>>, owned \subseteq owned',
             \A k \in Components : S(k) \cap owned' = {}
      PROVE  Good
  <2>1. \A k \in Components : T(k) = S(k)
    BY <1>3, <1>5
  <2> QED BY <1>2, <1>5, <2>1
<1>6. CASE DspSteps
  <2>1. /\ UNCHANGED <<sent, inside, cmd>> /\ owned \subseteq owned'
        /\ \A m \in owned' : m \in owned \/ cmd[m].op = "register"
    BY <1>6, DspDoes
  <2> QED BY <1>2, <1>5, <2>1
<1>7. CASE UNCHANGED vars
  BY <1>2, <1>5, <1>7 DEF vars, runVars, appVars
<1>8. ASSUME NEW w \in Workers, Quiet(w) PROVE Good
  BY <1>2, <1>5, <1>8, QuietKeeps
<1>9. ASSUME NEW w \in Workers, NEW k \in Components, WorkerTask(w, k) PROVE Good
  BY <1>2, <1>5, <1>9 DEF WorkerTask, appVars
<1>10. ASSUME NEW w \in Workers, NEW done \in SUBSET Msgs, WorkerProcess(w, done) PROVE Good
  <2> DEFINE k == wk[w].to
  <2>1. /\ done \subseteq inside[k] /\ inside' = [inside EXCEPT ![k] = @ \ done] /\ owned' = owned \cup done
        /\ UNCHANGED <<cmd, sent>> /\ wk[w].pc = "task"
    BY <1>10 DEF WorkerProcess
  <2>2. k \in Components
    BY <2>1 DEF OrderlyInv, TaskInv, BaseInv, TypeOK
  <2> HIDE DEF k
  <2>3. inside'[k] = inside[k] \ done /\ \A h \in Components \ {k} : inside'[h] = inside[h]
    BY <1>1, <2>1, <2>2
  <2>4. \A h \in Components : T(h) = S(h)
    BY <1>3, <2>1
  <2>5. ASSUME NEW h \in Components, NEW n \in T(h)
        PROVE  /\ n \notin owned' /\ cmd'[n].op # "register" /\ cmd'[n].for = h
               /\ \A c \in Components : n \notin inside'[c]
    BY <1>2, <2>1, <2>2, <2>3, <2>4, <2>5
  <2>6. ASSUME NEW n \in Msgs \ owned', cmd'[n].op # "register"
        PROVE  cmd'[n].for \in Components /\ n \in T(cmd'[n].for) \cup inside'[cmd'[n].for]
    <3>1. cmd[n].for \in Components /\ n \in S(cmd[n].for) \cup inside[cmd[n].for]
      BY <1>2, <2>1, <2>6
    <3> QED BY <2>1, <2>3, <2>4, <2>6, <3>1
  <2> QED BY <2>5, <2>6
<1>11. ASSUME NEW m \in Msgs, sent' = Forget(m), cmd' = cmd, NEW D, owned' = owned \cup D \cup {m},
              \A h \in Components : S(h) \cap D = {},
              \A h \in Components : inside'[h] \subseteq inside[h] /\ inside[h] \subseteq inside'[h] \cup D
       PROVE  Good
  <2>1. \A h \in Components : T(h) = S(h) \ {m}
    BY <1>11, HistoryAfter DEF S, T, SentTo
  <2>2. ASSUME NEW h \in Components, NEW n \in T(h)
        PROVE  /\ n \notin owned' /\ cmd'[n].op # "register" /\ cmd'[n].for = h
               /\ \A c \in Components : n \notin inside'[c]
    <3>1. n \in S(h) /\ n # m
      BY <2>1, <2>2
    <3> QED BY <1>2, <1>11, <3>1
  <2>3. ASSUME NEW n \in Msgs \ owned', cmd'[n].op # "register"
        PROVE  cmd'[n].for \in Components /\ n \in T(cmd'[n].for) \cup inside'[cmd'[n].for]
    <3>1. n \in Msgs \ owned /\ n # m /\ n \notin D
      BY <1>11, <2>3
    <3>2. cmd[n].for \in Components /\ n \in S(cmd[n].for) \cup inside[cmd[n].for]
      BY <1>2, <1>11, <2>3, <3>1
    <3> QED BY <1>11, <2>1, <3>1, <3>2
  <2> QED BY <2>2, <2>3
<1>12. ASSUME NEW w \in Workers, WorkerData(w) \/ WorkerSetParam(w) \/ WorkerUnregister(w)
       PROVE  /\ wk[w].msg \in Msgs \ owned /\ wk[w].to \in Components /\ cmd[wk[w].msg].for = wk[w].to
              /\ sent' = Forget(wk[w].msg) /\ cmd' = cmd
  <2>1. \E op : Enter(w, op)
    BY <1>12 DEF WorkerData, WorkerSetParam, WorkerUnregister
  <2>2. sent' = Forget(wk[w].msg) /\ cmd' = cmd
    BY <1>12 DEF WorkerData, WorkerSetParam, WorkerUnregister
  <2> QED BY <2>1, <2>2, Executing
<1>13. ASSUME NEW w \in Workers, WorkerData(w) PROVE Good
  <2> DEFINE k == wk[w].to
             m == wk[w].msg
  <2>1. m \in Msgs \ owned /\ k \in Components /\ cmd[m].for = k /\ sent' = Forget(m) /\ cmd' = cmd
    BY <1>12, <1>13
  <2>2. \/ owned' = owned \cup {m} /\ inside' = inside
        \/ inside' = [inside EXCEPT ![k] = @ \cup {m}] /\ owned' = owned
    BY <1>13 DEF WorkerData, runVars
  <2> HIDE DEF k, m
  <2>3. CASE owned' = owned \cup {m} /\ inside' = inside
    <3>1. owned' = owned \cup {} \cup {m} /\ \A h \in Components : S(h) \cap {} = {}
      BY <2>3
    <3>2. \A h \in Components : inside'[h] \subseteq inside[h] /\ inside[h] \subseteq inside'[h] \cup {}
      BY <2>3
    <3> HIDE DEF Good
    <3> QED BY <1>11, <2>1, <3>1, <3>2
  <2>4. CASE inside' = [inside EXCEPT ![k] = @ \cup {m}] /\ owned' = owned
    <3>1. \A h \in Components : T(h) = S(h) \ {m}
      BY <2>1, HistoryAfter DEF S, T, SentTo
    <3>2. inside'[k] = inside[k] \cup {m} /\ \A h \in Components \ {k} : inside'[h] = inside[h]
      BY <1>1, <2>1, <2>4
    <3>3. ASSUME NEW h \in Components, NEW n \in T(h)
          PROVE  /\ n \notin owned' /\ cmd'[n].op # "register" /\ cmd'[n].for = h
                 /\ \A c \in Components : n \notin inside'[c]
      <4>1. n \in S(h) /\ n # m
        BY <3>1, <3>3
      <4> QED BY <1>2, <2>1, <2>4, <3>2, <4>1
    <3>4. ASSUME NEW n \in Msgs \ owned', cmd'[n].op # "register"
          PROVE  cmd'[n].for \in Components /\ n \in T(cmd'[n].for) \cup inside'[cmd'[n].for]
      <4>1. CASE n = m
        BY <2>1, <3>2, <4>1
      <4>2. CASE n # m
        <5>1. cmd[n].for \in Components /\ n \in S(cmd[n].for) \cup inside[cmd[n].for]
          BY <1>2, <2>1, <2>4, <3>4
        <5> QED BY <2>1, <3>1, <3>2, <4>2, <5>1
      <4> QED BY <4>1, <4>2
    <3> QED BY <3>3, <3>4
  <2> QED BY <2>2, <2>3, <2>4
<1>14. ASSUME NEW w \in Workers, WorkerSetParam(w) PROVE Good
  <2>1. owned' = owned \cup {} \cup {wk[w].msg} /\ inside' = inside
    BY <1>14 DEF WorkerSetParam
  <2>2. \A h \in Components : /\ S(h) \cap {} = {}
                              /\ inside'[h] \subseteq inside[h] /\ inside[h] \subseteq inside'[h] \cup {}
    BY <2>1
  <2> HIDE DEF Good
  <2> QED BY <1>11, <1>12, <1>14, <2>1, <2>2
<1>15. ASSUME NEW w \in Workers, WorkerUnregister(w) PROVE Good
  <2> DEFINE k == wk[w].to
             m == wk[w].msg
  <2>1. m \in Msgs \ owned /\ k \in Components /\ sent' = Forget(m) /\ cmd' = cmd
    BY <1>12, <1>15
  <2>2. owned' = owned \cup inside[k] \cup {m} /\ inside' = [inside EXCEPT ![k] = {}]
    BY <1>15 DEF WorkerUnregister
  <2> HIDE DEF k, m
  <2>3. \A h \in Components : inside'[h] \subseteq inside[h] /\ inside[h] \subseteq inside'[h] \cup inside[k]
    BY <1>1, <2>1, <2>2
  <2>4. \A h \in Components : S(h) \cap inside[k] = {}
    BY <1>2, <2>1
  <2> HIDE DEF Good
  <2> QED BY <1>11, <2>1, <2>2, <2>3, <2>4
<1>16. ASSUME NEW w \in Workers, WorkerPurge(w) PROVE Good
  <2> DEFINE m == Head(queue[w]).msg
  <2>1. /\ UNCHANGED <<inside, cmd>>
        /\ \/ UNCHANGED <<owned, sent>>
           \/ m \in Msgs \ owned /\ owned' = owned \cup {m} /\ sent' = Forget(m)
    BY <1>16, Turns
  <2> HIDE DEF m
  <2>2. CASE UNCHANGED <<owned, sent>>
    BY <1>2, <1>5, <2>1, <2>2
  <2>3. CASE m \in Msgs \ owned /\ owned' = owned \cup {m} /\ sent' = Forget(m)
    <3>1. owned' = owned \cup {} \cup {m} /\ \A h \in Components : S(h) \cap {} = {}
      BY <2>3
    <3>2. \A h \in Components : inside'[h] \subseteq inside[h] /\ inside[h] \subseteq inside'[h] \cup {}
      BY <2>1
    <3> HIDE DEF Good
    <3> QED BY <1>11, <2>1, <2>3, <3>1, <3>2
  <2> QED BY <2>1, <2>2, <2>3
<1> HIDE DEF Good
<1> QED BY Actors, WorkerKinds, <1>4, <1>6, <1>7, <1>8, <1>9, <1>10, <1>13, <1>14, <1>15, <1>16

\* A worker's step puts nothing new into the history, the DSP thread's queue or its hand.
LEMMA NothingNew ==
    ASSUME OrderlyInv, NEW w \in Workers, StepsOf(w)
    PROVE  /\ UNCHANGED <<cmd, cmdq, dsp>>
           /\ \A h \in Components : \A a, b \in Msgs : Before(h, a, b)' => Before(h, a, b)
<1>1. UNCHANGED <<cmd, cmdq, dsp>>
  <2>1. WorkerSteps
    BY DEF StepsOf, WorkerSteps
  <2> QED BY <2>1, Leaves
<1>2. ASSUME sent' = sent
      PROVE  \A h \in Components : \A a, b \in Msgs : Before(h, a, b)' => Before(h, a, b)
  BY <1>2 DEF Before
<1>3. ASSUME NEW m \in Msgs, sent' = Forget(m)
      PROVE  \A h \in Components : \A a, b \in Msgs : Before(h, a, b)' => Before(h, a, b)
  BY <1>3, HistoryAfter
<1>4. sent' = sent \/ \E m \in Msgs : sent' = Forget(m)
  <2>1. CASE Quiet(w)
    BY <2>1, QuietKeeps
  <2>2. ASSUME NEW k \in Components, WorkerTask(w, k) PROVE sent' = sent
    BY <2>2 DEF WorkerTask
  <2>3. ASSUME NEW done \in SUBSET Msgs, WorkerProcess(w, done) PROVE sent' = sent
    BY <2>3 DEF WorkerProcess
  <2>4. CASE WorkerData(w)
    BY <2>4, Executing DEF WorkerData
  <2>5. CASE WorkerSetParam(w)
    BY <2>5, Executing DEF WorkerSetParam
  <2>6. CASE WorkerUnregister(w)
    BY <2>6, Executing DEF WorkerUnregister
  <2>7. CASE WorkerPurge(w)
    BY <2>7, Turns
  <2> QED BY WorkerKinds, <2>1, <2>2, <2>3, <2>4, <2>5, <2>6, <2>7
<1> QED BY <1>1, <1>2, <1>3, <1>4

\* Two commands for one component, one sent before the other: neither is with the application or the component.
LEMMA Ordered ==
    ASSUME OrderlyInv, NEW k \in Components, NEW m \in Msgs, NEW n \in Msgs, Before(k, m, n)
    PROVE  /\ m # n /\ m \in Msgs \ owned /\ n \in Msgs \ owned /\ m \in SentTo(k)
           /\ cmd[m].op # "register" /\ cmd[n].op # "register" /\ cmd[m].for = k /\ cmd[n].for = k
           /\ m \in InCmdq => n \in InCmdq /\ ~InFront(cmdq, n, m)
           /\ m = dsp.msg => n \in InCmdq
           /\ \A w \in Workers : ~Nearer(queue[w], n, m)
           /\ \A v, w \in Workers : wk[w].msg = n => m \notin Named(queue[v])
           /\ DataUntil = "asked" => cmd[m].op # "unregister"
<1>1. m \in SentTo(k) /\ n \in SentTo(k)
  BY BeforeSent
<1> QED BY <1>1 DEF OrderlyInv, SentInv, OrderInv

\* A command is sent after all others for its component ...
LEMMA OrderIssued ==
    ASSUME OrderlyInv, AppSteps
    PROVE  OrderInv'
<1>1. PICK x \in Msgs, op \in {"register", "setparam", "data", "unregister"},
           c \in Components \cup {None}, a \in Workers \cup {None} :
             /\ Issue(x, op, c, a)
             /\ c # None => c \in alive /\ ~Moving(c) /\ (DataUntil = "asked" => ~Leaving(c))
  BY Issues
<1>2. /\ x \in owned /\ cmdq' = Append(cmdq, x) /\ cmdq \in Seq(Msgs)
      /\ UNCHANGED <<queue, dsp, wk>> /\ \A n \in Msgs \ owned : cmd'[n] = cmd[n]
  BY <1>1, IssueKeeps DEF Issue, OrderlyInv, BaseInv, TypeOK
<1>3. InCmdq' = InCmdq \cup {x} /\ InCmdq \subseteq Msgs
  <2>1. \A q \in Seq(Msgs) : \A e \in Msgs :
           {Append(q, e)[i] : i \in DOMAIN Append(q, e)} = {q[i] : i \in DOMAIN q} \cup {e}
    <3> SUFFICES ASSUME NEW q \in Seq(Msgs), NEW e \in Msgs
                 PROVE  {Append(q, e)[i] : i \in DOMAIN Append(q, e)} = {q[i] : i \in DOMAIN q} \cup {e}
      OBVIOUS
    <3>1. /\ Len(q) \in Nat /\ DOMAIN q = 1 .. Len(q) /\ DOMAIN Append(q, e) = 1 .. Len(q) + 1
          /\ Append(q, e)[Len(q) + 1] = e /\ \A i \in 1 .. Len(q) : Append(q, e)[i] = q[i]
      OBVIOUS
    <3>2. 1 .. Len(q) + 1 = (1 .. Len(q)) \cup {Len(q) + 1}
      BY <3>1
    <3> QED BY <3>1, <3>2
  <2>2. \A q \in Seq(Msgs) : {q[i] : i \in DOMAIN q} \subseteq Msgs
    OBVIOUS
  <2> QED BY <1>2, <2>1, <2>2 DEF InCmdq
<1>4. \A h \in Components : \A m, n \in Msgs :
         Before(h, m, n)' => Before(h, m, n) \/ (h = c /\ n = x /\ m \in SentTo(c))
  <2>1. CASE c = None
    <3>1. sent' = sent
      BY <1>1, <2>1 DEF Issue
    <3> QED BY <3>1 DEF Before
  <2>2. CASE c # None
    <3>1. c \in Components /\ sent' = [sent EXCEPT ![c] = Append(@, x)] /\ TypeOK
      BY <1>1, <2>2 DEF Issue, OrderlyInv, BaseInv
    <3> QED BY <3>1, Appended
  <2> QED BY <2>1, <2>2
<1>5. \A m, n \in Msgs : m # x /\ InFront(cmdq', n, m) => InFront(cmdq, n, m)
  BY <1>2, CmdqOrder
<1> DEFINE Good(m, n) ==
        /\ m # n
        /\ m \in InCmdq' => n \in InCmdq' /\ ~InFront(cmdq', n, m)
        /\ m = dsp'.msg => n \in InCmdq'
        /\ \A w \in Workers : ~Nearer(queue'[w], n, m)
        /\ \A v, w \in Workers : wk'[w].msg = n => m \notin Named(queue'[v])
        /\ DataUntil = "asked" => cmd'[m].op # "unregister"
<1>6. SUFFICES ASSUME NEW h \in Components, NEW m \in Msgs, NEW n \in Msgs, Before(h, m, n)' PROVE Good(m, n)
  <2>1. \A h \in Components : \A m, n \in Msgs : Before(h, m, n)' => Good(m, n)
    BY <1>6
  <2> QED BY <2>1 DEF OrderInv, InFront, Nearer, MarkBetween, Named
<1>7. CASE Before(h, m, n)
  <2>1. /\ m # n /\ m \in Msgs \ owned /\ n \in Msgs \ owned
        /\ m \in InCmdq => n \in InCmdq /\ ~InFront(cmdq, n, m)
        /\ m = dsp.msg => n \in InCmdq
        /\ \A w \in Workers : ~Nearer(queue[w], n, m)
        /\ \A v, w \in Workers : wk[w].msg = n => m \notin Named(queue[v])
        /\ DataUntil = "asked" => cmd[m].op # "unregister"
    BY <1>7, Ordered
  <2>2. m # x
    BY <1>2, <2>1
  <2> QED BY <1>2, <1>3, <1>5, <2>1, <2>2
<1>8. CASE c \in Components /\ n = x /\ m \in SentTo(c)
  <2>1. m \in Msgs \ owned /\ m # x /\ cmd[m].for = c
    BY <1>2, <1>8 DEF OrderlyInv, SentInv
  <2>2. /\ x \notin InCmdq /\ x # dsp.msg
        /\ \A w \in Workers : x \notin Named(queue[w]) /\ x # wk[w].msg
    BY <1>2, Whereabouts DEF OrderlyInv
  <2>3. ~InFront(cmdq, x, m)
    BY <2>2 DEF InFront, InCmdq
  <2>4. \A w \in Workers : ~Nearer(queue[w], x, m)
    BY <2>2 DEF Nearer, Named
  <2>5. DataUntil = "asked" => cmd[m].op # "unregister"
    BY <1>1, <1>8, <2>1, Numbers DEF Leaving, Outstanding
  <2> QED BY <1>2, <1>3, <1>5, <1>8, <2>1, <2>2, <2>3, <2>4, <2>5
<1> QED BY <1>4, <1>6, <1>7, <1>8

\* ... and taken from the DSP thread's queue before those.
LEMMA OrderRouted ==
    ASSUME OrderlyInv, DspSteps
    PROVE  OrderInv'
<1>1. /\ UNCHANGED <<cmd, sent, wk>> /\ DspMayRun /\ cmdq \in Seq(Msgs)
      /\ queue \in [Workers -> Seq(Item0)] /\ None \notin Msgs
  BY DspDoes, Numbers DEF OrderlyInv, BaseInv, TypeOK, Item0
<1> DEFINE Good(m, n) ==
        /\ m # n
        /\ m \in InCmdq' => n \in InCmdq' /\ ~InFront(cmdq', n, m)
        /\ m = dsp'.msg => n \in InCmdq'
        /\ \A w \in Workers : ~Nearer(queue'[w], n, m)
        /\ \A v, w \in Workers : wk'[w].msg = n => m \notin Named(queue'[v])
        /\ DataUntil = "asked" => cmd'[m].op # "unregister"
<1>2. SUFFICES ASSUME NEW k \in Components, NEW m \in Msgs, NEW n \in Msgs, Before(k, m, n) PROVE Good(m, n)
  <2>1. ASSUME NEW k \in Components, NEW m \in Msgs, NEW n \in Msgs, Before(k, m, n)' PROVE Good(m, n)
    <3>1. Before(k, m, n)
      BY <1>1, <2>1 DEF Before
    <3> QED BY <1>2, <3>1
  <2> QED BY <2>1 DEF OrderInv, InFront, Nearer, MarkBetween, Named
<1>3. /\ m # n /\ m \in Msgs \ owned /\ n \in Msgs \ owned /\ cmd[m].op # "register" /\ cmd[n].op # "register"
      /\ m \in InCmdq => n \in InCmdq /\ ~InFront(cmdq, n, m)
      /\ m = dsp.msg => n \in InCmdq
      /\ \A w \in Workers : ~Nearer(queue[w], n, m)
      /\ \A v, w \in Workers : wk[w].msg = n => m \notin Named(queue[v])
      /\ DataUntil = "asked" => cmd[m].op # "unregister"
  BY <1>2, Ordered
<1>4. ASSUME UNCHANGED <<cmdq, queue>>, dsp'.msg = dsp.msg \/ dsp'.msg = None PROVE Good(m, n)
  <2>1. InCmdq' = InCmdq
    BY <1>4 DEF InCmdq
  <2> QED BY <1>1, <1>3, <1>4, <2>1
<1>5. ASSUME cmdq # <<>>, cmdq' = Tail(cmdq), queue' = queue, m \in InCmdq => n # Head(cmdq),
             m = dsp'.msg => n \in InCmdq \ {Head(cmdq)}
      PROVE  Good(m, n)
  <2>1. InCmdq = InCmdq' \cup {Head(cmdq)}
    <3>1. \A q \in Seq(Msgs) : q # <<>> =>
             {q[i] : i \in DOMAIN q} = {Tail(q)[i] : i \in DOMAIN Tail(q)} \cup {Head(q)}
      <4> SUFFICES ASSUME NEW q \in Seq(Msgs), q # <<>>
                   PROVE  {q[i] : i \in DOMAIN q} = {Tail(q)[i] : i \in DOMAIN Tail(q)} \cup {Head(q)}
        OBVIOUS
      <4>1. /\ Len(q) \in Nat \ {0} /\ DOMAIN q = 1 .. Len(q) /\ DOMAIN Tail(q) = 1 .. Len(q) - 1 /\ Head(q) = q[1]
            /\ \A i \in 1 .. Len(q) - 1 : Tail(q)[i] = q[i + 1]
        OBVIOUS
      <4>2. \A i \in 1 .. Len(q) - 1 : i + 1 \in 1 .. Len(q)
        BY <4>1
      <4>3. 1 \in 1 .. Len(q) /\ \A i \in 1 .. Len(q) : i = 1 \/ (i - 1 \in 1 .. Len(q) - 1 /\ (i - 1) + 1 = i)
        BY <4>1
      <4>4. ASSUME NEW i \in 1 .. Len(q), i # 1 PROVE q[i] \in {Tail(q)[j] : j \in DOMAIN Tail(q)}
        <5>1. q[i] = Tail(q)[i - 1] /\ i - 1 \in DOMAIN Tail(q)
          BY <4>1, <4>3, <4>4
        <5> QED BY <5>1
      <4> QED BY <4>1, <4>2, <4>3, <4>4
    <3> QED BY <1>1, <1>5, <3>1 DEF InCmdq
  <2>2. InFront(cmdq', n, m) => InFront(cmdq, n, m)
    BY <1>1, <1>5, CmdqOrder
  <2> QED BY <1>1, <1>3, <1>5, <2>1, <2>2
<1>6. CASE DspRegister
  <2>1. cmdq # <<>> /\ cmdq' = Tail(cmdq) /\ queue' = queue /\ cmd[Head(cmdq)].op = "register"
        /\ (dsp' = dsp \/ dsp'.msg = Head(cmdq))
    BY <1>6 DEF DspRegister
  <2> HIDE DEF Good
  <2> QED BY <1>3, <1>5, <2>1
<1>7. CASE DspLookup
  <2>1. cmdq # <<>> /\ cmdq' = Tail(cmdq) /\ queue' = queue /\ dsp'.msg = Head(cmdq)
    BY <1>7, Routed DEF DspLookup
  <2>2. Head(cmdq) \in InCmdq
    <3>1. \A q \in Seq(Msgs) : q # <<>> => 1 \in DOMAIN q /\ Head(q) = q[1]
      OBVIOUS
    <3> QED BY <1>1, <2>1, <3>1 DEF InCmdq
  <2>3. ASSUME m \in InCmdq PROVE n # Head(cmdq)
    <3> SUFFICES ASSUME n = Head(cmdq) PROVE FALSE
      OBVIOUS
    <3>1. PICK i \in DOMAIN cmdq : cmdq[i] = m
      BY <2>3 DEF InCmdq
    <3>2. InFront(cmdq, n, m)
      BY <1>1, <1>3, <2>1, <3>1, CmdqOrder
    <3> QED BY <1>3, <2>3, <3>2
  <2>4. m = dsp'.msg => n \in InCmdq \ {Head(cmdq)}
    BY <1>3, <2>1, <2>2
  <2> HIDE DEF Good
  <2> QED BY <1>5, <2>1, <2>3, <2>4
<1>8. CASE DspSend
  <2> DEFINE u == dsp.at
             e == Item(dsp.to, dsp.msg)
             q == queue[u]
  <2>1. /\ u \in Workers /\ dsp.msg \in Msgs /\ dsp.to \in Components /\ dsp.pc = "send"
        /\ UNCHANGED cmdq /\ dsp'.msg = None /\ queue' = [queue EXCEPT ![u] = Append(@, e)]
    BY <1>8 DEF DspSend, Idle, OrderlyInv, BaseInv, TypeOK, ShapeInv, DspInv
  <2>2. e \in Item0 /\ e.msg = dsp.msg /\ q \in Seq(Item0)
    BY <1>1, <2>1 DEF Item, Item0
  <2>3. None \notin Named(q)
    <3> SUFFICES ASSUME None \in Named(q) PROVE FALSE
      OBVIOUS
    <3>1. wk[u].pc = "purge"
      BY <2>1 DEF OrderlyInv, BaseInv, ThreadInv, MarkerInv
    <3> QED BY <1>1, <2>1, <3>1, PurgeExcludes DEF OrderlyInv, DspMayRun
  <2>4. InCmdq' = InCmdq
    BY <2>1 DEF InCmdq
  <2>5. queue'[u] = Append(q, e) /\ \A w \in Workers \ {u} : queue'[w] = queue[w]
    BY <1>1, <2>1
  <2>6. Named(queue'[u]) = Named(q) \cup {dsp.msg}
    BY <2>2, <2>5, AppendNamed
  <2> HIDE DEF u, e, q
  <2>7. ASSUME Nearer(queue'[u], n, m) PROVE FALSE
    <3>1. Nearer(q, n, m) \/ m = dsp.msg
      BY <1>1, <2>2, <2>3, <2>5, <2>7, NearerAppended
    <3>2. m = dsp.msg
      BY <1>3, <2>1, <3>1 DEF q
    <3>3. n \in Named(queue'[u])
      BY <2>7 DEF Nearer, Named
    <3>4. n \in Named(queue[u]) /\ n \in InCmdq
      BY <1>3, <2>6, <3>2, <3>3 DEF q
    <3> QED BY <2>1, <3>4, Whereabouts DEF OrderlyInv
  <2>8. ASSUME NEW v \in Workers, NEW w \in Workers, wk[w].msg = n, m \in Named(queue'[v]) PROVE FALSE
    <3>1. m \in Named(queue[v]) \/ m = dsp.msg
      BY <2>5, <2>6, <2>8 DEF q
    <3>2. n \in InCmdq
      BY <1>3, <2>8, <3>1
    <3> QED BY <2>8, <3>2, Whereabouts DEF OrderlyInv
  <2>9. \A w \in Workers : ~Nearer(queue'[w], n, m)
    BY <1>3, <2>5, <2>7
  <2> QED BY <1>1, <1>3, <2>1, <2>4, <2>8, <2>9
<1>9. CASE DspAlloc \/ DspCreateFails \/ (\E c \in Components : DspCreate(c)) \/ \E w \in Workers : DspRoute(w)
  <2>1. UNCHANGED <<cmdq, queue>> /\ (dsp'.msg = dsp.msg \/ dsp'.msg = None)
    <3>1. dsp \in [pc : Places, msg : Msgs \cup {None}, to : Components \cup {None},
                   at : Ids \cup Workers \cup {None}]
      BY DEF OrderlyInv, BaseInv, TypeOK
    <3>2. ASSUME DspAlloc PROVE UNCHANGED <<cmdq, queue>> /\ dsp'.msg = dsp.msg
      BY <3>1, <3>2 DEF DspAlloc
    <3>3. ASSUME DspCreateFails \/ \E c \in Components : DspCreate(c)
          PROVE  UNCHANGED <<cmdq, queue>> /\ dsp'.msg = None
      BY <3>3 DEF DspCreateFails, DspCreate, Idle
    <3>4. ASSUME NEW w \in Workers, DspRoute(w) PROVE UNCHANGED <<cmdq, queue>> /\ dsp'.msg = dsp.msg
      BY <3>1, <3>4 DEF DspRoute
    <3> QED BY <1>9, <3>2, <3>3, <3>4
  <2> HIDE DEF Good
  <2> QED BY <1>4, <2>1
<1> HIDE DEF Good
<1> QED BY <1>6, <1>7, <1>8, <1>9 DEF DspSteps

\* A worker's queue gets nothing but markers and is read, and turned round, in its order ...
LEMMA QueueOrder ==
    ASSUME OrderlyInv, NEW w \in Workers, StepsOf(w)
    PROVE  /\ \A v \in Workers : \A m \in Msgs : m \in Named(queue'[v]) => m \in Named(queue[v])
           /\ \A v \in Workers : \A m, n \in Msgs : Nearer(queue'[v], n, m) => Nearer(queue[v], n, m)
<1> DEFINE Good(v) == /\ \A m \in Msgs : m \in Named(queue'[v]) => m \in Named(queue[v])
                      /\ \A m, n \in Msgs : Nearer(queue'[v], n, m) => Nearer(queue[v], n, m)
<1> SUFFICES ASSUME NEW v \in Workers PROVE Good(v)
  OBVIOUS
<1>1. queue \in [Workers -> Seq(Item0)] /\ None \notin Msgs
  BY Numbers DEF OrderlyInv, BaseInv, TypeOK, Item0
<1>2. CASE v # w \/ queue' = queue
  <2>1. queue'[v] = queue[v]
    BY <1>2, Goes DEF OrderlyInv
  <2> QED BY <2>1
<1> DEFINE q == queue[w]
<1>3. q \in Seq(Item0)
  BY <1>1
<1>4. ASSUME v = w, q # <<>>, queue'[w] = Tail(q) PROVE Good(v)
  <2>1. Named(queue'[w]) \subseteq Named(q)
    BY <1>3, <1>4, TailNamed
  <2>2. \A m, n \in Msgs : Nearer(queue'[w], n, m) => Nearer(q, n, m)
    BY <1>3, <1>4, NearerTail
  <2> QED BY <1>4, <2>1, <2>2
<1>5. CASE v = w /\ WorkerRecv(w)
  <2>1. q # <<>> /\ queue'[w] = Tail(q)
    BY <1>1, <1>5, Receives DEF OrderlyInv
  <2> HIDE DEF Good
  <2> QED BY <1>4, <1>5, <2>1
<1>6. CASE v = w /\ WorkerMarker(w)
  <2>1. queue'[w] = Append(q, Marker) /\ None \notin Named(q)
    BY <1>1, <1>6, MarksOwn DEF OrderlyInv
  <2>2. Marker \in Item0 /\ Marker.msg = None
    BY DEF Marker, Item, Item0
  <2> HIDE DEF q
  <2>3. Named(queue'[w]) = Named(q) \cup {None}
    BY <1>3, <2>1, <2>2, AppendNamed
  <2>4. \A m, n \in Msgs : Nearer(queue'[w], n, m) => Nearer(q, n, m)
    BY <1>1, <1>3, <2>1, <2>2, NearerAppended
  <2> QED BY <1>1, <1>6, <2>3, <2>4 DEF q
<1>7. CASE v = w /\ WorkerPurge(w)
  <2> DEFINE e == Head(q)
  <2>1. /\ q # <<>> /\ None \in Named(q)
        /\ queue'[w] = Tail(q) \/ (queue'[w] = Append(Tail(q), e) /\ e.msg \in Msgs)
    BY <1>1, <1>7, Turns
  <2>2. CASE queue'[w] = Tail(q)
    <3> HIDE DEF Good
    <3> QED BY <1>4, <1>7, <2>1, <2>2
  <2>3. CASE queue'[w] = Append(Tail(q), e) /\ e.msg \in Msgs
    <3>1. \A i, j \in DOMAIN q : q[i].msg = q[j].msg => i = j
      BY DEF OrderlyInv, BaseInv, MessagesConserved
    <3> HIDE DEF q
    <3>2. e \in Item0 /\ Tail(q) \in Seq(Item0) /\ Named(q) = Named(Tail(q)) \cup {e.msg}
      BY <1>3, <2>1, TailNamed
    <3>3. Named(queue'[w]) = Named(q)
      <4> HIDE DEF e
      <4> QED BY <2>3, <3>2, AppendNamed
    <3>4. \A m, n \in Msgs : Nearer(queue'[w], n, m) => Nearer(q, n, m)
      <4>1. Head(q).msg # None /\ queue'[w] = Append(Tail(q), Head(q))
        BY <1>1, <2>3
      <4> SUFFICES ASSUME NEW m \in Msgs, NEW n \in Msgs, Nearer(Append(Tail(q), Head(q)), n, m)
                   PROVE  Nearer(q, n, m)
        BY <4>1
      <4>2. m # None /\ n # None
        BY <1>1
      <4> QED BY <1>3, <2>1, <3>1, <4>1, <4>2, NearerTurned
    <3> QED BY <1>7, <3>3, <3>4 DEF q
  <2> QED BY <2>1, <2>2, <2>3
<1> HIDE DEF Good
<1> QED BY <1>2, <1>5, <1>6, <1>7, QueueKept

\* ... so that a worker has the earlier command in hand before the later one.
LEMMA OrderExecuted ==
    ASSUME OrderlyInv, NEW w \in Workers, StepsOf(w)
    PROVE  OrderInv'
<1>1. /\ UNCHANGED <<cmd, cmdq, dsp>>
      /\ \A h \in Components : \A a, b \in Msgs : Before(h, a, b)' => Before(h, a, b)
  BY NothingNew
<1> DEFINE Good(m, n) ==
        /\ m # n
        /\ m \in InCmdq' => n \in InCmdq' /\ ~InFront(cmdq', n, m)
        /\ m = dsp'.msg => n \in InCmdq'
        /\ \A v \in Workers : ~Nearer(queue'[v], n, m)
        /\ \A v, u \in Workers : wk'[u].msg = n => m \notin Named(queue'[v])
        /\ DataUntil = "asked" => cmd'[m].op # "unregister"
<1>2. SUFFICES ASSUME NEW k \in Components, NEW m \in Msgs, NEW n \in Msgs, Before(k, m, n) PROVE Good(m, n)
  <2>1. \A k \in Components : \A m, n \in Msgs : Before(k, m, n)' => Good(m, n)
    BY <1>1, <1>2
  <2> QED BY <2>1 DEF OrderInv, InFront, Nearer, MarkBetween, Named
<1>3. /\ m # n /\ m \in Msgs \ owned /\ n \in Msgs \ owned /\ cmd[m].for = k /\ cmd[n].for = k
      /\ m \in InCmdq => n \in InCmdq /\ ~InFront(cmdq, n, m)
      /\ m = dsp.msg => n \in InCmdq
      /\ \A v \in Workers : ~Nearer(queue[v], n, m)
      /\ \A v, u \in Workers : wk[u].msg = n => m \notin Named(queue[v])
      /\ DataUntil = "asked" => cmd[m].op # "unregister"
  BY <1>2, Ordered
<1>4. InCmdq' = InCmdq
  BY <1>1 DEF InCmdq
<1>5. ASSUME NEW v \in Workers, NEW u \in Workers, wk'[u].msg = n, m \in Named(queue'[v]) PROVE FALSE
  <2>1. m \in Named(queue[v])
    BY <1>5, QueueOrder
  <2>2. u = w /\ WorkerRecv(w)
    <3>1. wk[u].msg # n
      BY <1>3, <2>1
    <3>2. u = w
      BY <1>5, <3>1, Goes DEF OrderlyInv
    <3> QED BY <1>5, <3>1, <3>2, After, Numbers
  <2>3. /\ queue[w] \in Seq(Item0) /\ None \notin Named(queue[w])
        /\ Head(queue[w]) = queue[w][1] /\ 1 \in DOMAIN queue[w] /\ Head(queue[w]).msg = n
    <3>1. wk \in [Workers -> [pc : WorkerPlaces, msg : Msgs \cup {None},
                              to : Components \cup {None}, at : Workers \cup {None}]]
      BY DEF OrderlyInv, BaseInv, TypeOK
    <3> QED BY <1>5, <2>2, <3>1, Receives DEF OrderlyInv
  <2>4. CASE v = w
    <3>1. Nearer(queue[w], n, m)
      BY <1>3, <2>1, <2>3, <2>4, HeadIsNearest
    <3> QED BY <1>3, <3>1
  <2>5. CASE v # w
    <3>1. PICK i \in DOMAIN queue[v] : queue[v][i].msg = m
      BY <2>1 DEF Named
    <3>2. prio[k] = v
      BY <1>3, <3>1, Numbers DEF OrderlyInv, PlaceInv, LineInv
    <3>3. prio[k] = w
      BY <1>3, <2>3, Numbers DEF OrderlyInv, PlaceInv, LineInv
    <3> QED BY <2>5, <3>2, <3>3
  <2> QED BY <2>4, <2>5
<1>6. \A v \in Workers : ~Nearer(queue'[v], n, m)
  BY <1>3, QueueOrder
<1> QED BY <1>1, <1>3, <1>4, <1>5, <1>6

\* Nobody overtakes.
LEMMA OrderStep ==
    ASSUME OrderlyInv, [Next]_vars
    PROVE  OrderInv'
<1>1. CASE UNCHANGED vars
  BY <1>1 DEF vars, appVars, OrderlyInv, OrderInv, InCmdq, Before
<1> QED BY <1>1, Actors, OrderIssued, OrderRouted, OrderExecuted

-----------------------------------------------------------------------------
(* The invariant and what it says.                                         *)

\* It holds before anything was sent ...
LEMMA InitOrderly == InTime /\ Init => OrderlyInv
<1> SUFFICES ASSUME InTime, Init PROVE OrderlyInv
  OBVIOUS
<1>1. /\ BaseInv /\ owned = Msgs /\ cmdq = <<>> /\ dsp = Idle /\ flag = {} /\ None \notin Msgs
      /\ \A w \in Workers : wk[w] = Idle /\ queue[w] = <<>> /\ tree[w] = {}
      /\ \A k \in Components : inside[k] = {} /\ sent[k] = <<>>
  BY BaseInit, Numbers DEF Init
<1>2. InCmdq = {}
  <2>1. DOMAIN cmdq = {}
    BY <1>1
  <2> QED BY <2>1 DEF InCmdq
<1>3. \A w \in Workers : DOMAIN queue[w] = {}
  BY <1>1
<1>4. \A k \in Components : DOMAIN sent[k] = {}
  BY <1>1
<1>5. ElevatedInv
  BY <1>1, Numbers DEF Init, ElevatedInv, Idle
<1>6. TaskInv /\ HandInv /\ NoneAsleep
  BY <1>1 DEF TaskInv, HandInv, NoneAsleep, Idle
<1>7. MoveInv
  BY <1>1 DEF MoveInv
<1>8. RouteInv
  BY <1>1, <1>2 DEF RouteInv, Idle
<1>9. LineInv /\ MarkInv
  BY <1>3 DEF LineInv, MarkInv
<1>10. SentInv
  <2>1. \A k \in Components : SentTo(k) = {}
    BY <1>4 DEF SentTo
  <2> QED BY <1>1, <2>1 DEF SentInv
<1>11. OrderInv
  BY <1>4 DEF OrderInv, Before
<1> QED BY <1>1, <1>5, <1>6, <1>7, <1>8, <1>9, <1>10, <1>11 DEF OrderlyInv, PlaceInv

\* ... and every step keeps it.
LEMMA OrderlyStep == OrderlyInv /\ [Next]_vars => OrderlyInv'
<1> SUFFICES ASSUME OrderlyInv, [Next]_vars PROVE OrderlyInv'
  OBVIOUS
<1>1. InTime'
  BY DEF OrderlyInv, InTime
<1>2. BaseInv'
  BY BaseStep DEF OrderlyInv
<1>3. ElevatedInv' /\ TaskInv' /\ MoveInv' /\ NoneAsleep'
  BY ElevatedStep, TaskStep, MoveStep, AsleepStep
<1>4. RouteInv' /\ LineInv' /\ MarkInv' /\ HandInv'
  BY RouteStep, LineStep, MarkStep, HandStep
<1>5. SentInv' /\ OrderInv'
  BY SentStep, OrderStep
<1> QED BY <1>1, <1>2, <1>3, <1>4, <1>5 DEF OrderlyInv, PlaceInv

\* All of it holds as long as data comes in time.
THEOREM OrderlyInvariant == InTime /\ Spec => []OrderlyInv
<1> QED BY InitOrderly, OrderlyStep, PTL DEF Spec

\* No worker enters a component that was destroyed, with a task or with a message.
THEOREM NoComponentIsStale == InTime /\ Spec => []NoStaleComponent
<1>1. OrderlyInv => NoStaleComponent
  BY DEF OrderlyInv, TaskInv, PlaceInv, HandInv, NoStaleComponent, Busy
<1> QED BY <1>1, OrderlyInvariant, PTL

\* A component is run by the worker of its priority and no other.
THEOREM ComponentsHaveOneThread == InTime /\ Spec => []OneThreadPerComponent
<1>1. OrderlyInv => OneThreadPerComponent
  BY DEF OrderlyInv, TaskInv, PlaceInv, HandInv, OneThreadPerComponent, Busy
<1> QED BY <1>1, OrderlyInvariant, PTL

\* A component executes its commands in the order they were sent.
THEOREM CommandsAreExecutedInOrder == InTime /\ Spec => []ExecutedInOrder
<1>1. OrderlyInv => ExecutedInOrder
  <2> SUFFICES ASSUME OrderlyInv, NEW w \in Workers, wk[w].pc = "entry" PROVE Head(sent[wk[w].to]) = wk[w].msg
    BY DEF ExecutedInOrder
  <2> DEFINE k == wk[w].to
             m == wk[w].msg
             h == Head(sent[k])
  <2>1. m \in Msgs /\ k \in Components /\ cmd[m].op # "register" /\ cmd[m].for = k /\ prio[k] = w
    BY DEF OrderlyInv, BaseInv, TypeOK, ShapeInv, WorkerInv, PlaceInv, HandInv
  <2>2. m \notin owned /\ m \notin InCmdq /\ \A c \in Components : m \notin inside[c]
    BY <2>1, Whereabouts DEF OrderlyInv
  <2>3. m \in SentTo(k) /\ TypeOK /\ sent \in [Components -> Seq(Msgs)]
    BY <2>1, <2>2 DEF OrderlyInv, SentInv, BaseInv, TypeOK
  <2> SUFFICES ASSUME h # m PROVE FALSE
    OBVIOUS
  <2> HIDE DEF m, k
  <2>4. h \in SentTo(k) /\ Before(k, h, m)
    BY <2>1, <2>3, OneIsBefore
  <2>5. h \in Msgs
    <3>1. \A q \in Seq(Msgs) : \A i \in DOMAIN q : q[i] \in Msgs
      OBVIOUS
    <3> QED BY <2>1, <2>3, <2>4, <3>1 DEF SentTo
  <2> HIDE DEF h
  <2>6. /\ h \notin owned /\ cmd[h].for = k /\ \A c \in Components : h \notin inside[c]
        /\ h \notin InCmdq /\ h # dsp.msg /\ \A v \in Workers : h \notin Named(queue[v])
    BY <2>1, <2>2, <2>4, <2>5, Ordered, Whereabouts DEF m, OrderlyInv, SentInv
  <2>7. PICK v \in Workers : h = wk[v].msg
    BY <2>5, <2>6, Whereabouts DEF OrderlyInv
  <2>8. wk[v].pc \in {"lookup", "entry"}
    BY <2>5, <2>7, Numbers DEF OrderlyInv, BaseInv, ShapeInv, WorkerInv
  <2>9. prio[k] = v
    BY <2>6, <2>7, <2>8 DEF OrderlyInv, PlaceInv, HandInv
  <2> QED BY <2>1, <2>7, <2>9 DEF m
<1> QED BY <1>1, OrderlyInvariant, PTL

\* No worker sleeps over a task, and none ends.
THEOREM WorkersGoOnServing == InTime /\ Spec => []WorkersServe
<1>1. OrderlyInv /\ NoWorkerEnds => WorkersServe
  BY DEF OrderlyInv, NoWorkerEnds, WorkersServe
<1> QED BY <1>1, OrderlyInvariant, WorkersNeverEnd, PTL

\* The thread that purges a worker's queue, which only it reads, does not wait for room in
\* it for its marker, if a queue has room for more than all commands there are: the bound
\* is sharp.
NoneStuck == \A w \in Workers : wk[w].pc = "marker" => ~QueueFull(wk[w].at)
Ample == IsFiniteSet(Msgs) /\ Cardinality(Msgs) < QueueEntries
THEOREM MarkersFindRoom == Ample /\ Spec => []NoneStuck
<1>1. Ample /\ BaseInv => NoneStuck
  <2> SUFFICES ASSUME Ample, BaseInv, NEW w \in Workers, wk[w].pc = "marker"
               PROVE  ~QueueFull(wk[w].at)
    BY DEF NoneStuck
  <2>1. wk[w].at = w /\ None \notin Named(queue[w])
    BY DEF Cleans, BaseInv, ThreadInv, CompInv, MarkerInv
  <2>2. Named(queue[w]) \subseteq Msgs
    BY <2>1, QueueNames
  <2>3. Len(queue[w]) \in Nat /\ Cardinality(Msgs) \in Nat /\ Len(queue[w]) <= Cardinality(Msgs)
    BY <2>1, <2>2, QueueFits DEF Ample
  <2> QED BY <2>1, <2>3, QueueAssumption DEF QueueFull, Ample
<1>2. Ample /\ [Next]_vars => Ample'
  BY DEF Ample
<1> QED BY <1>1, <1>2, BaseInvariant, PTL DEF Spec
=============================================================================
