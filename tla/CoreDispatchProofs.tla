------------------------- MODULE CoreDispatchProofs -------------------------
(***************************************************************************)
(* What TLAPS proves about CoreDispatch, for any number of client ids,     *)
(* components, workers and commands, any queue length, and whether data    *)
(* may be late or not: no command is lost or doubled, no client id is lost *)
(* or given away twice. The first is bookkeeping of one step at a time.    *)
(* The second rests on what the threads exclude: one synchronous command   *)
(* at a time, so that a component is deleted once, by the worker of its    *)
(* priority; a marker in a queue exactly while that worker purges it, so   *)
(* that it never waits there; and hence no worker at all between the DSP   *)
(* thread's look at the free list and its advance.                         *)
(***************************************************************************)
EXTENDS CoreDispatch, FiniteSetTheorems, SequenceTheorems, WellFoundedInduction, TLAPS

Item0 == [to : Components \cup {None}, msg : Msgs \cup {None}]
Named(q) == {q[i].msg : i \in DOMAIN q}
Cleans(w) == wk[w].pc \in {"cleanup", "marker", "purge", "free"}

\* What the places of the threads and the items of the queues say.
DspInv ==
    /\ dsp.pc = "idle" <=> dsp.msg = None
    /\ dsp.pc \in {"alloc", "create"} => dsp.at \in Ids /\ cmd[dsp.msg].op = "register"
    /\ dsp.pc \in {"route", "send"} => dsp.to \in Components
    /\ dsp.pc = "send" => dsp.at \in Workers
WorkerInv ==
    \A w \in Workers :
       /\ wk[w].pc \in {"lookup", "entry"} <=> wk[w].msg # None
       /\ wk[w].pc \in {"task", "lookup", "entry"} \/ Cleans(w) => wk[w].to \in Components
       /\ wk[w].pc = "entry" \/ Cleans(w) => wk[w].at \in Workers
QueueInv ==
    \A w \in Workers : \A i \in DOMAIN queue[w] :
       queue[w][i] = Marker \/ (queue[w][i].to \in Components /\ queue[w][i].msg \in Msgs)

\* One synchronous command is outstanding at a time: the proxy lock.
CmdInv ==
    /\ \A m \in Msgs \ owned : cmd[m].op # "register" => cmd[m].for \in Components \ fresh
    /\ \A m, n \in Msgs \ owned : cmd[m].op # "data" /\ cmd[n].op # "data" => m = n

\* A component keeps its id from its creation to the end of its deletion, which one worker
\* does, the one whose queue it purges.
CompInv ==
    /\ open = alive /\ alive \cap fresh = {}
    /\ \A k \in alive : id[k] \in Ids /\ cmap[id[k]] = k
    /\ \A w \in Workers : Cleans(w) =>
         /\ wk[w].to \notin alive \cup fresh
         /\ id[wk[w].to] \in Ids /\ cmap[id[wk[w].to]] = wk[w].to
         /\ wk[w].at = w
    /\ \A v, w \in Workers : Cleans(v) /\ Cleans(w) /\ wk[v].to = wk[w].to => v = w

\* A deletion is under way only for a component that is alive, and the worker of its
\* priority executes it.
ExitInv ==
    \A m \in Msgs \ owned : cmd[m].op = "unregister" =>
       /\ cmd[m].for \in alive
       /\ dsp.msg = m => dsp.to = cmd[m].for /\ (dsp.pc = "send" => dsp.at = prio[cmd[m].for])
       /\ \A w \in Workers : \A i \in DOMAIN queue[w] : queue[w][i].msg = m =>
             queue[w][i].to = cmd[m].for /\ w = prio[cmd[m].for]
       /\ \A w \in Workers : wk[w].msg = m =>
             wk[w].to = cmd[m].for /\ w = prio[cmd[m].for] /\ (wk[w].pc = "entry" => wk[w].at = w)

\* A queue has a marker exactly while its worker purges it.
MarkerInv == \A w \in Workers : None \in Named(queue[w]) <=> wk[w].pc = "purge"

\* Nothing comes between the DSP thread's look at the free list and its advance.
AllocInv == dsp.pc = "alloc" =>
    /\ free = dsp.at
    /\ elevated \in Workers => wk[elevated].pc = "marker" /\ QueueFull(wk[elevated].at)

\* The free list: the ids that are neither mapped nor in hand, in one chain.
Listed == {i \in Ids : cmap[i] \notin Components} \ IdsInHand
ListInv ==
    /\ dsp.pc = "create" => cmap[dsp.at] \notin Components
    /\ free \in Listed \cup {End}
    /\ \A i \in Listed : cmap[i] \in Listed \cup {End} /\ cmap[i] # free
    /\ \A i, j \in Listed : cmap[i] = cmap[j] => i = j
    /\ \A S \in SUBSET Listed : Follows(S) => S = Listed
    /\ free = End \/ \E i \in Listed : cmap[i] = End

ShapeInv == DspInv /\ WorkerInv /\ QueueInv /\ CmdInv
ThreadInv == CompInv /\ ExitInv /\ MarkerInv /\ AllocInv
BaseInv == TypeOK /\ ShapeInv /\ MessagesConserved /\ ThreadInv /\ ListInv

-----------------------------------------------------------------------------
(* Ids, queues and steps.                                                  *)

\* Client ids and workers are numbers from 0; End is no client id and no component.
LEMMA Numbers ==
    /\ End \in Nat /\ End \notin Ids /\ End \notin Components /\ Ids \cap Components = {}
    /\ 0 \in Ids \cup {End}
    /\ \A i \in Ids : i \in Nat /\ i + 1 \in Ids \cup {End} /\ (i # 0 => i - 1 \in Ids)
    /\ 0 \in Workers /\ LastWorker \in Workers /\ DefaultWorker \in Workers
    /\ None \notin Components \cup Msgs \cup Workers
<1>1. End \in Nat /\ Ids = 0 .. End - 1
  BY IdsAssumption, FS_CardinalityType DEF End
<1>2. Cardinality(Workers) \in Nat /\ Workers = 0 .. Cardinality(Workers) - 1 /\ Workers # {}
  BY WorkersAssumption, FS_CardinalityType
<1> QED BY <1>1, <1>2, NoneAssumption, ComponentsAssumption DEF LastWorker, DefaultWorker

\* The priority that is read names a worker.
LEMMA PriorityIsWorker ==
    ASSUME TypeOK, NEW k \in Components PROVE PriorityRead(k) \subseteq Workers
BY Numbers DEF TypeOK, PriorityRead

\* What is taken out of a sequence leaves a sequence.
LEMMA RemoveAtType ==
    ASSUME NEW S, NEW q \in Seq(S), NEW k \in DOMAIN q
    PROVE  RemoveAt(q, k) \in Seq(S)
<1>1. /\ Len(q) \in Nat /\ DOMAIN q = 1 .. Len(q) /\ k \in 1 .. Len(q)
      /\ \A i \in 1 .. Len(q) : q[i] \in S
  OBVIOUS
<1>2. SubSeq(q, 1, k - 1) \in Seq(S) /\ SubSeq(q, k + 1, Len(q)) \in Seq(S)
  BY <1>1, SubSeqProperties
<1>3. \A a, b \in Seq(S) : a \o b \in Seq(S)
  BY ConcatProperties
<1> QED BY <1>2, <1>3 DEF RemoveAt

\* The history stays one of commands.
LEMMA ForgetType ==
    ASSUME sent \in [Components -> Seq(Msgs)], NEW m PROVE Forget(m) \in [Components -> Seq(Msgs)]
<1> SUFFICES ASSUME NEW k \in Components PROVE Forget(m)[k] \in Seq(Msgs)
  BY DEF Forget
<1>1. CASE \E i \in DOMAIN sent[k] : sent[k][i] = m
  <2> DEFINE i == CHOOSE i \in DOMAIN sent[k] : sent[k][i] = m
  <2>1. i \in DOMAIN sent[k] /\ sent[k] \in Seq(Msgs)
    BY <1>1
  <2>2. Forget(m)[k] = RemoveAt(sent[k], i)
    BY <1>1 DEF Forget
  <2> HIDE DEF i
  <2> QED BY <2>1, <2>2, RemoveAtType
<1>2. CASE ~ \E i \in DOMAIN sent[k] : sent[k][i] = m
  BY <1>2 DEF Forget
<1> QED BY <1>1, <1>2

\* A tree after a component was scheduled.
LEMMA ScheduledType ==
    ASSUME TypeOK, NEW k \in Components PROVE Scheduled(k) \in [Workers -> SUBSET Components]
BY DEF TypeOK, Scheduled

\* A queue after one more item ...
LEMMA AppendNamed ==
    ASSUME NEW q \in Seq(Item0), NEW it \in Item0
    PROVE  /\ Append(q, it) \in Seq(Item0)
           /\ Named(Append(q, it)) = Named(q) \cup {it.msg}
           /\ \A j \in DOMAIN Append(q, it) : Append(q, it)[j] = it \/ \E i \in DOMAIN q : Append(q, it)[j] = q[i]
           /\ (\A i, j \in DOMAIN q : q[i].msg = q[j].msg => i = j) /\ it.msg \notin Named(q)
                => \A i, j \in DOMAIN Append(q, it) : Append(q, it)[i].msg = Append(q, it)[j].msg => i = j
<1>1. /\ Len(Append(q, it)) = Len(q) + 1 /\ Len(q) \in Nat
      /\ DOMAIN Append(q, it) = 1 .. Len(q) + 1 /\ DOMAIN q = 1 .. Len(q)
      /\ \A i \in 1 .. Len(q) : Append(q, it)[i] = q[i]
      /\ Append(q, it)[Len(q) + 1] = it
      /\ Append(q, it) \in Seq(Item0)
  OBVIOUS
<1>2. 1 .. Len(q) + 1 = (1 .. Len(q)) \cup {Len(q) + 1}
  BY <1>1
<1>3. Named(Append(q, it)) = Named(q) \cup {it.msg}
  <2>1. ASSUME NEW e \in Named(Append(q, it)) PROVE e \in Named(q) \cup {it.msg}
    BY <1>1, <1>2 DEF Named
  <2>2. ASSUME NEW e \in Named(q) \cup {it.msg} PROVE e \in Named(Append(q, it))
    BY <1>1, <1>2 DEF Named
  <2> QED BY <2>1, <2>2
<1> QED BY <1>1, <1>2, <1>3 DEF Named

\* ... and after its head has been taken.
LEMMA TailNamed ==
    ASSUME NEW q \in Seq(Item0), q # <<>>
    PROVE  /\ Head(q) \in Item0 /\ Tail(q) \in Seq(Item0) /\ 1 \in DOMAIN q /\ Head(q) = q[1]
           /\ Named(q) = Named(Tail(q)) \cup {Head(q).msg}
           /\ \A j \in DOMAIN Tail(q) : \E i \in DOMAIN q : Tail(q)[j] = q[i]
           /\ (\A i, j \in DOMAIN q : q[i].msg = q[j].msg => i = j) =>
                /\ \A i, j \in DOMAIN Tail(q) : Tail(q)[i].msg = Tail(q)[j].msg => i = j
                /\ Head(q).msg \notin Named(Tail(q))
<1>1. /\ Head(q) \in Item0 /\ Tail(q) \in Seq(Item0) /\ Head(q) = q[1]
      /\ Len(q) \in Nat \ {0} /\ Len(Tail(q)) = Len(q) - 1
      /\ DOMAIN q = 1 .. Len(q) /\ DOMAIN Tail(q) = 1 .. Len(q) - 1
      /\ \A i \in 1 .. Len(q) - 1 : Tail(q)[i] = q[i + 1]
  OBVIOUS
<1>2. /\ \A i \in 1 .. Len(q) : i = 1 \/ (i - 1 \in 1 .. Len(q) - 1 /\ (i - 1) + 1 = i)
      /\ \A i \in 1 .. Len(q) - 1 : i + 1 \in 1 .. Len(q) /\ i + 1 # 1
      /\ 1 \in 1 .. Len(q)
  BY <1>1
<1>3. Named(q) = Named(Tail(q)) \cup {Head(q).msg}
  <2>1. ASSUME NEW i \in 1 .. Len(q), i # 1 PROVE q[i].msg \in Named(Tail(q))
    <3>1. Tail(q)[i - 1] = q[i] /\ i - 1 \in DOMAIN Tail(q)
      BY <1>1, <1>2, <2>1
    <3> QED BY <3>1 DEF Named
  <2>2. ASSUME NEW i \in 1 .. Len(q) - 1 PROVE Tail(q)[i].msg \in Named(q)
    BY <1>1, <1>2 DEF Named
  <2> QED BY <1>1, <1>2, <2>1, <2>2 DEF Named
<1>4. ASSUME \A i, j \in DOMAIN q : q[i].msg = q[j].msg => i = j
      PROVE  /\ \A i, j \in DOMAIN Tail(q) : Tail(q)[i].msg = Tail(q)[j].msg => i = j
             /\ Head(q).msg \notin Named(Tail(q))
  BY <1>1, <1>2, <1>4 DEF Named
<1> QED BY <1>1, <1>2, <1>3, <1>4

\* The steps one by one.
AppSteps == \E m \in Msgs :
    \/ HostRegister(m)
    \/ \E k \in Components : HostData(m, k) \/ HostUnregister(m, k)
    \/ \E k \in Components, p \in (Workers \ {0}) \cup {None} : HostSetParam(m, k, p)
DspSteps == \/ DspRegister \/ DspAlloc \/ DspCreateFails \/ DspLookup \/ DspSend
            \/ \E k \in Components : DspCreate(k)
            \/ \E w \in Workers : DspRoute(w)
WorkerSteps == \E w \in Workers :
    \/ \E k \in Components : WorkerTask(w, k)
    \/ \E done \in SUBSET Msgs : WorkerProcess(w, done)
    \/ \E p \in Workers : WorkerLookup(w, p)
    \/ WorkerWait(w) \/ WorkerRecv(w) \/ WorkerReject(w)
    \/ WorkerData(w) \/ WorkerSetParam(w) \/ WorkerUnregister(w)
    \/ WorkerElevate(w) \/ WorkerMarker(w) \/ WorkerPurge(w) \/ WorkerFree(w)
\* (nothing else is a step)
LEMMA NextIsSteps == Next => AppSteps \/ DspSteps \/ WorkerSteps
BY DEF Next, App, DspThread, Worker, AppSteps, DspSteps, WorkerSteps

\* Every step of the application, the DSP thread and the workers keeps the types: that a
\* list element is advanced to rests on the free list's, the rest on who holds what.
LEMMA TypeStep ==
    ASSUME BaseInv, [Next]_vars
    PROVE  TypeOK'
<1> USE Numbers
<1>0. /\ tree \in [Workers -> SUBSET Components] /\ flag \subseteq Components
      /\ inside \in [Components -> SUBSET Msgs] /\ owned \subseteq Msgs
      /\ wk \in [Workers -> [pc : WorkerPlaces, msg : Msgs \cup {None},
                             to : Components \cup {None}, at : Workers \cup {None}]]
      /\ \A k \in Components : Scheduled(k) \in [Workers -> SUBSET Components]
  BY ScheduledType DEF BaseInv, TypeOK
<1>1. ASSUME AppSteps PROVE TypeOK'
  <2>1. ASSUME NEW m \in Msgs, NEW op \in {"register", "setparam", "data", "unregister"},
               NEW k \in Components \cup {None}, NEW a \in Workers \cup {None}, Issue(m, op, k, a)
        PROVE  TypeOK'
    <3>1. cmd' \in [Msgs -> [op : {"register", "setparam", "data", "unregister"},
                         for : Components \cup {None}, arg : Workers \cup {None}]]
      <4>1. \A n \in Msgs : cmd[n] \in [op : {"register", "setparam", "data", "unregister"},
                         for : Components \cup {None}, arg : Workers \cup {None}]
        BY DEF BaseInv, TypeOK
      <4> QED BY <2>1, <4>1 DEF Issue, Blank
    <3>2. cmdq' \in Seq(Msgs) /\ sent' \in [Components -> Seq(Msgs)]
      BY <2>1 DEF Issue, TypeOK, BaseInv
    <3> QED BY <2>1, <3>1, <3>2 DEF Issue, TypeOK, BaseInv, mapVars, compVars, runVars
  <2> QED BY <1>1, <2>1 DEF AppSteps, HostRegister, HostData, HostUnregister, HostSetParam
<1>2. ASSUME DspRegister \/ DspLookup PROVE TypeOK'
  <2>1. cmdq \in Seq(Msgs) /\ cmdq # <<>> /\ Head(cmdq) \in Msgs /\ Tail(cmdq) \in Seq(Msgs)
    BY <1>2 DEF DspRegister, DspLookup, BaseInv, TypeOK
  <2>2. CASE DspRegister
    <3>1. dsp' \in [pc : Places, msg : Msgs \cup {None}, to : Components \cup {None},
                    at : Ids \cup Workers \cup {None}]
      BY <2>1, <2>2 DEF DspRegister, BaseInv, TypeOK, Places
    <3>2. owned' \subseteq Msgs
      BY <2>1, <2>2 DEF DspRegister, BaseInv, TypeOK
    <3> QED BY <2>1, <2>2, <3>1, <3>2 DEF DspRegister, BaseInv, TypeOK, mapVars, compVars, runVars
  <2>3. CASE DspLookup
    <3>1. sent' \in [Components -> Seq(Msgs)]
      BY <2>3, ForgetType DEF DspLookup, BaseInv, TypeOK
    <3>2. \A k : k = Lookup(Client(Head(cmdq))) /\ k # None => k \in Components
      BY DEF Lookup
    <3>3. dsp' \in [pc : Places, msg : Msgs \cup {None}, to : Components \cup {None},
                    at : Ids \cup Workers \cup {None}]
      BY <2>1, <2>3, <3>2 DEF DspLookup, BaseInv, TypeOK, Places
    <3>4. owned' \subseteq Msgs
      BY <2>1, <2>3 DEF DspLookup, BaseInv, TypeOK
    <3> QED BY <2>1, <2>3, <3>1, <3>3, <3>4 DEF DspLookup, BaseInv, TypeOK, mapVars, compVars, runVars
  <2> QED BY <1>2, <2>2, <2>3
<1>3. ASSUME DspAlloc PROVE TypeOK'
  <2>1. dsp.at \in Listed /\ cmap[dsp.at] \in Ids \cup {End}
    BY <1>3 DEF DspAlloc, BaseInv, ThreadInv, AllocInv, ShapeInv, DspInv, ListInv, Listed
  <2> QED BY <1>3, <2>1 DEF DspAlloc, BaseInv, TypeOK, compVars, runVars, appVars, Places
<1>4. ASSUME DspCreateFails \/ (\E k \in Components : DspCreate(k)) PROVE TypeOK'
  <2>1. dsp.at \in Ids /\ dsp.msg \in Msgs
    BY <1>4 DEF DspCreateFails, DspCreate, BaseInv, ShapeInv, DspInv, TypeOK
  <2>2. CASE DspCreateFails
    BY <2>1, <2>2 DEF DspCreateFails, Recycled, BaseInv, TypeOK, compVars, runVars, Idle, Places
  <2>3. ASSUME NEW k \in Components, DspCreate(k) PROVE TypeOK'
    BY <2>1, <2>3 DEF DspCreate, BaseInv, TypeOK, runVars, Idle, Places
  <2> QED BY <1>4, <2>2, <2>3
<1>5. ASSUME DspSend \/ (\E w \in Workers : DspRoute(w)) PROVE TypeOK'
  <2>1. CASE DspSend
    <3>1. dsp.at \in Workers /\ queue[dsp.at] \in Seq(Item0) /\ Item(dsp.to, dsp.msg) \in Item0
      BY <2>1 DEF DspSend, BaseInv, ShapeInv, DspInv, TypeOK, Item, Item0
    <3>2. queue' \in [Workers -> Seq(Item0)]
      BY <2>1, <3>1, AppendNamed DEF DspSend, BaseInv, TypeOK, Item0
    <3> QED BY <2>1, <3>2 DEF DspSend, BaseInv, TypeOK, mapVars, compVars, runVars, appVars, Idle, Places, Item0
  <2>2. ASSUME NEW w \in Workers, DspRoute(w) PROVE TypeOK'
    BY <2>2 DEF DspRoute, BaseInv, TypeOK, mapVars, compVars, runVars, appVars, Places
  <2> QED BY <1>5, <2>1, <2>2
<1>6. ASSUME NEW w \in Workers, WorkerWait(w) \/ WorkerElevate(w) PROVE TypeOK'
  <2>1. wk' \in [Workers -> [pc : WorkerPlaces, msg : Msgs \cup {None},
                             to : Components \cup {None}, at : Workers \cup {None}]]
    <3>1. \E pc \in WorkerPlaces : wk' = [wk EXCEPT ![w].pc = pc]
      BY <1>6 DEF WorkerWait, WorkerElevate, WorkerPlaces
    <3> QED BY <1>0, <3>1
  <2>2. elevated' \in Workers \cup {None}
    BY <1>6 DEF WorkerWait, WorkerElevate, BaseInv, TypeOK
  <2>3. UNCHANGED <<mapVars, compVars, runVars, appVars, cmdq, queue, dsp, sent>>
    BY <1>6 DEF WorkerWait, WorkerElevate
  <2> QED BY <2>1, <2>2, <2>3 DEF BaseInv, TypeOK, mapVars, compVars, runVars, appVars
<1>7. ASSUME NEW w \in Workers, NEW k \in Components, WorkerTask(w, k) PROVE TypeOK'
  BY <1>7 DEF WorkerTask, BaseInv, TypeOK, mapVars, compVars, appVars, WorkerPlaces
<1>8. ASSUME NEW w \in Workers, NEW done \in SUBSET Msgs, WorkerProcess(w, done) PROVE TypeOK'
  <2>1. wk[w].to \in Components
    BY <1>8 DEF WorkerProcess, BaseInv, ShapeInv, WorkerInv
  <2>2. tree' \in [Workers -> SUBSET Components]
    BY <1>0, <1>8, <2>1 DEF WorkerProcess
  <2>3. inside' \in [Components -> SUBSET Msgs] /\ flag' \subseteq Components
    BY <1>8, <2>1 DEF WorkerProcess, BaseInv, TypeOK
  <2> QED BY <1>8, <2>2, <2>3 DEF WorkerProcess, BaseInv, TypeOK, mapVars, compVars, WorkerPlaces, Idle
<1>9. ASSUME NEW w \in Workers, WorkerRecv(w) PROVE TypeOK'
  <2>1. queue[w] \in Seq(Item0) /\ queue[w] # <<>> /\ Head(queue[w]) \in Item0 /\ Tail(queue[w]) \in Seq(Item0)
    BY <1>9, TailNamed DEF WorkerRecv, BaseInv, TypeOK, Item0
  <2>2. queue' \in [Workers -> Seq(Item0)]
    BY <1>9, <2>1 DEF WorkerRecv, BaseInv, TypeOK, Item0
  <2> QED BY <1>9, <2>1, <2>2
          DEF WorkerRecv, BaseInv, TypeOK, mapVars, compVars, runVars, appVars, WorkerPlaces, Idle, Item0
<1>10. ASSUME NEW w \in Workers, NEW p \in Workers, WorkerLookup(w, p) PROVE TypeOK'
  BY <1>10 DEF WorkerLookup, BaseInv, TypeOK, mapVars, compVars, runVars, appVars, WorkerPlaces
<1>11. ASSUME NEW w \in Workers, WorkerReject(w) PROVE TypeOK'
  <2>1. wk[w].msg \in Msgs /\ Forget(wk[w].msg) \in [Components -> Seq(Msgs)]
    BY <1>11, ForgetType DEF WorkerReject, BaseInv, ShapeInv, WorkerInv, TypeOK
  <2> QED BY <1>11, <2>1 DEF WorkerReject, BaseInv, TypeOK, mapVars, compVars, runVars, WorkerPlaces, Idle
<1>12. ASSUME NEW w \in Workers, NEW op, Enter(w, op)
       PROVE  /\ wk[w].msg \in Msgs /\ wk[w].to \in Components
              /\ Forget(wk[w].msg) \in [Components -> Seq(Msgs)]
              /\ prio[wk[w].to] \in Workers
  BY <1>12, ForgetType DEF Enter, BaseInv, ShapeInv, WorkerInv, TypeOK
<1>13. ASSUME NEW w \in Workers, WorkerData(w) PROVE TypeOK'
  <2>1. wk[w].msg \in Msgs /\ wk[w].to \in Components /\ sent' \in [Components -> Seq(Msgs)]
    BY <1>12, <1>13 DEF WorkerData
  <2>2. tree' \in [Workers -> SUBSET Components]
    BY <1>0, <1>13, <2>1 DEF WorkerData, runVars
  <2>3. inside' \in [Components -> SUBSET Msgs] /\ flag' \subseteq Components /\ owned' \subseteq Msgs
    <3>1. CASE UNCHANGED runVars /\ owned' = owned \cup {wk[w].msg}
      BY <1>0, <2>1, <3>1 DEF runVars
    <3>2. CASE /\ inside' = [inside EXCEPT ![wk[w].to] = @ \cup {wk[w].msg}]
               /\ flag' = flag \cup {wk[w].to} /\ UNCHANGED owned
      BY <1>0, <2>1, <3>2
    <3> QED BY <1>13, <3>1, <3>2 DEF WorkerData
  <2> QED BY <1>13, <2>1, <2>2, <2>3 DEF WorkerData, BaseInv, TypeOK, mapVars, compVars, WorkerPlaces, Idle
<1>14. ASSUME NEW w \in Workers, WorkerSetParam(w) PROVE TypeOK'
  <2> DEFINE k == wk[w].to
             p == cmd[wk[w].msg].arg
             new == IF p # None THEN p ELSE IF k \in ready THEN prio[k] ELSE 0
  <2>1. wk[w].msg \in Msgs /\ k \in Components /\ sent' \in [Components -> Seq(Msgs)] /\ new \in Workers
    BY <1>12, <1>14 DEF WorkerSetParam, BaseInv, TypeOK
  <2>2. prio' = [prio EXCEPT ![k] = new] /\ ready' = ready \cup {k}
    BY <1>14 DEF WorkerSetParam
  <2>3. tree' = (IF k \notin flag THEN tree
                 ELSE [v \in Workers |-> (IF v = prio[k] THEN tree[v] \ {k} ELSE tree[v])
                                           \cup (IF v = new THEN {k} ELSE {})])
    BY <1>14 DEF WorkerSetParam
  <2> HIDE DEF k, p, new
  <2>4. tree' \in [Workers -> SUBSET Components]
    <3>1. \A v \in Workers : tree[v] \subseteq Components
      BY DEF BaseInv, TypeOK
    <3>2. \A v \in Workers : (IF v = prio[k] THEN tree[v] \ {k} ELSE tree[v])
                                \cup (IF v = new THEN {k} ELSE {}) \in SUBSET Components
      BY <2>1, <3>1
    <3> QED BY <2>3, <3>2 DEF BaseInv, TypeOK
  <2>5. wk' \in [Workers -> [pc : WorkerPlaces, msg : Msgs \cup {None},
                             to : Components \cup {None}, at : Workers \cup {None}]]
    BY <1>14 DEF WorkerSetParam, BaseInv, TypeOK, WorkerPlaces, Idle
  <2>6. prio' \in [Components -> Workers] /\ ready' \subseteq Components /\ owned' \subseteq Msgs
    BY <1>14, <2>1, <2>2 DEF WorkerSetParam, BaseInv, TypeOK
  <2>7. UNCHANGED <<mapVars, fresh, alive, id, flag, inside, cmd, open, cmdq, queue, dsp, elevated>>
    BY <1>14 DEF WorkerSetParam
  <2> QED BY <2>1, <2>4, <2>5, <2>6, <2>7 DEF BaseInv, TypeOK, mapVars
<1>15. ASSUME NEW w \in Workers, WorkerUnregister(w) PROVE TypeOK'
  <2>1. wk[w].msg \in Msgs /\ wk[w].to \in Components /\ sent' \in [Components -> Seq(Msgs)]
    BY <1>12, <1>15 DEF WorkerUnregister
  <2>2. /\ tree' \in [Workers -> SUBSET Components] /\ inside' \in [Components -> SUBSET Msgs]
        /\ flag' \subseteq Components
    BY <1>15, <2>1 DEF WorkerUnregister, Cancelled, BaseInv, TypeOK
  <2>3. owned' \subseteq Msgs
    BY <1>15, <2>1 DEF WorkerUnregister, BaseInv, TypeOK
  <2>4. wk' \in [Workers -> [pc : WorkerPlaces, msg : Msgs \cup {None},
                             to : Components \cup {None}, at : Workers \cup {None}]]
    BY <1>15 DEF WorkerUnregister, BaseInv, TypeOK, WorkerPlaces
  <2> QED BY <1>15, <2>1, <2>2, <2>3, <2>4 DEF WorkerUnregister, BaseInv, TypeOK, mapVars
<1>16. ASSUME NEW w \in Workers, WorkerMarker(w) PROVE TypeOK'
  <2>1. wk[w].at \in Workers /\ queue[wk[w].at] \in Seq(Item0) /\ Marker \in Item0
    BY <1>16 DEF WorkerMarker, BaseInv, ShapeInv, WorkerInv, Cleans, TypeOK, Marker, Item, Item0
  <2>2. queue' \in [Workers -> Seq(Item0)]
    BY <1>16, <2>1, AppendNamed DEF WorkerMarker, BaseInv, TypeOK, Item0
  <2> QED BY <1>16, <2>2 DEF WorkerMarker, BaseInv, TypeOK, mapVars, compVars, runVars, appVars, WorkerPlaces, Item0
<1>17. ASSUME NEW w \in Workers, WorkerPurge(w) PROVE TypeOK'
  <2> DEFINE v == wk[w].at
             it == Head(queue[v])
  <2>1. v \in Workers /\ queue[v] \in Seq(Item0)
    BY <1>17 DEF WorkerPurge, BaseInv, ShapeInv, WorkerInv, Cleans, TypeOK, Item0
  <2>2. CASE queue[v] = <<>> /\ wk' = [wk EXCEPT ![w].pc = "free"] /\ UNCHANGED <<queue, owned, sent>>
    BY <1>17, <2>2 DEF WorkerPurge, BaseInv, TypeOK, mapVars, compVars, runVars, WorkerPlaces
  <2>3. ASSUME queue[v] # <<>>, queue' = [queue EXCEPT ![v] = Tail(@) \o PutBack(w, it)],
               wk' = (IF it = Marker THEN [wk EXCEPT ![w].pc = "free"] ELSE wk),
               IF OfClient(w, it) THEN owned' = owned \cup {it.msg} /\ sent' = Forget(it.msg)
               ELSE UNCHANGED <<owned, sent>>
        PROVE  TypeOK'
    <3>1. it \in Item0 /\ Tail(queue[v]) \in Seq(Item0) /\ (it # Marker => it.msg \in Msgs)
      <4>1. it \in Item0 /\ Tail(queue[v]) \in Seq(Item0) /\ 1 \in DOMAIN queue[v] /\ it = queue[v][1]
        BY <2>1, <2>3, TailNamed
      <4> QED BY <2>1, <4>1 DEF BaseInv, ShapeInv, QueueInv
    <3>2. PutBack(w, it) \in Seq(Item0)
      BY <3>1 DEF PutBack
    <3>3. queue' \in [Workers -> Seq(Item0)]
      <4>1. Tail(queue[v]) \o PutBack(w, it) \in Seq(Item0)
        BY <3>1, <3>2, ConcatProperties
      <4> QED BY <2>1, <2>3, <4>1 DEF BaseInv, TypeOK, Item0
    <3>4. owned' \subseteq Msgs /\ sent' \in [Components -> Seq(Msgs)]
      <4>1. owned \subseteq Msgs /\ sent \in [Components -> Seq(Msgs)]
        BY DEF BaseInv, TypeOK
      <4>2. OfClient(w, it) => it.msg \in Msgs
        BY <3>1 DEF OfClient
      <4>3. Forget(it.msg) \in [Components -> Seq(Msgs)]
        BY <4>1, ForgetType
      <4>4. CASE OfClient(w, it)
        BY <2>3, <4>1, <4>2, <4>3, <4>4
      <4>5. CASE ~OfClient(w, it)
        BY <2>3, <4>1, <4>5
      <4> QED BY <4>4, <4>5
    <3>5. wk' \in [Workers -> [pc : WorkerPlaces, msg : Msgs \cup {None},
                             to : Components \cup {None}, at : Workers \cup {None}]]
      BY <2>3 DEF BaseInv, TypeOK, WorkerPlaces
    <3> QED BY <1>17, <3>3, <3>4, <3>5 DEF WorkerPurge, BaseInv, TypeOK, mapVars, compVars, runVars, Item0
  <2> QED BY <1>17, <2>2, <2>3 DEF WorkerPurge
<1>18. ASSUME NEW w \in Workers, WorkerFree(w) PROVE TypeOK'
  <2>1. wk[w].to \in Components /\ id[wk[w].to] \in Ids
    BY <1>18 DEF WorkerFree, BaseInv, ThreadInv, CompInv, Cleans, ShapeInv, WorkerInv
  <2> QED BY <1>18, <2>1
          DEF WorkerFree, Recycled, BaseInv, TypeOK, compVars, runVars, appVars, WorkerPlaces, Idle
<1>19. CASE UNCHANGED vars
  BY <1>19 DEF vars, mapVars, compVars, runVars, appVars, BaseInv, TypeOK
<1> QED
  BY NextIsSteps, <1>1, <1>2, <1>3, <1>4, <1>5, <1>6, <1>7, <1>8, <1>9, <1>10, <1>11, <1>13, <1>14,
     <1>15, <1>16, <1>17, <1>18, <1>19 DEF DspSteps, WorkerSteps

-----------------------------------------------------------------------------
(* Commands are conserved.                                                 *)

\* Who the holders are, and what each has.
LEMMA HoldersAre ==
    /\ {<<"application", None>>, <<"dsp queue", None>>, <<"dsp", None>>} \subseteq Holders
    /\ \A w \in Workers : {<<"queue", w>>, <<"worker", w>>} \subseteq Holders
    /\ \A k \in Components : <<"component", k>> \in Holders
    /\ \A p \in Holders :
         \/ p \in {<<"application", None>>, <<"dsp queue", None>>, <<"dsp", None>>}
         \/ \E w \in Workers : p \in {<<"queue", w>>, <<"worker", w>>}
         \/ \E k \in Components : p = <<"component", k>>
<1>1. ASSUME NEW p \in {"queue", "worker"} \X Workers
      PROVE  \E w \in Workers : p \in {<<"queue", w>>, <<"worker", w>>}
  <2>1. p[2] \in Workers /\ p \in {<<"queue", p[2]>>, <<"worker", p[2]>>}
    BY <1>1
  <2> QED BY <2>1
<1>2. ASSUME NEW p \in {"component"} \X Components
      PROVE  \E k \in Components : p = <<"component", k>>
  <2>1. p[2] \in Components /\ p = <<"component", p[2]>>
    BY <1>2
  <2> QED BY <2>1
<1>3. /\ {<<"application", None>>, <<"dsp queue", None>>, <<"dsp", None>>} \subseteq Holders
      /\ \A w \in Workers : {<<"queue", w>>, <<"worker", w>>} \subseteq Holders
      /\ \A k \in Components : <<"component", k>> \in Holders
  <2>1. \A w \in Workers : {<<"queue", w>>, <<"worker", w>>} \subseteq {"queue", "worker"} \X Workers
    OBVIOUS
  <2>2. \A k \in Components : <<"component", k>> \in {"component"} \X Components
    OBVIOUS
  <2> QED BY <2>1, <2>2 DEF Holders
<1> QED BY <1>1, <1>2, <1>3 DEF Holders
\* (now ...)
LEMMA HoldingIs ==
    /\ Holding(<<"application", None>>) = owned
    /\ Holding(<<"dsp queue", None>>) = {cmdq[i] : i \in DOMAIN cmdq}
    /\ Holding(<<"dsp", None>>) = {dsp.msg} \ {None}
    /\ \A w : Holding(<<"queue", w>>) = Named(queue[w]) \ {None}
    /\ \A w : Holding(<<"worker", w>>) = {wk[w].msg} \ {None}
    /\ \A k : Holding(<<"component", k>>) = inside[k]
BY DEF Holding, Named
\* (... and after a step)
LEMMA HoldingWillBe ==
    /\ Holding(<<"application", None>>)' = owned'
    /\ Holding(<<"dsp queue", None>>)' = {cmdq'[i] : i \in DOMAIN cmdq'}
    /\ Holding(<<"dsp", None>>)' = {dsp'.msg} \ {None}
    /\ \A w : Holding(<<"queue", w>>)' = Named(queue'[w]) \ {None}
    /\ \A w : Holding(<<"worker", w>>)' = {wk'[w].msg} \ {None}
    /\ \A k : Holding(<<"component", k>>)' = inside'[k]
BY DEF Holding, Named

\* What a thread, a queue or a component has, nobody else has.
LEMMA Apart ==
    ASSUME TypeOK, MessagesConserved
    PROVE  /\ dsp.msg # None => /\ dsp.msg \notin owned
                                /\ \A w \in Workers : dsp.msg \notin Named(queue[w]) /\ dsp.msg # wk[w].msg
                                /\ \A i \in DOMAIN cmdq : cmdq[i] # dsp.msg
           /\ \A w \in Workers : wk[w].msg # None =>
                /\ wk[w].msg \notin owned
                /\ \A v \in Workers : wk[w].msg \notin Named(queue[v]) /\ (v # w => wk[v].msg # wk[w].msg)
                /\ \A k \in Components : wk[w].msg \notin inside[k]
                /\ \A i \in DOMAIN cmdq : cmdq[i] # wk[w].msg
           /\ \A w \in Workers : \A i \in DOMAIN queue[w] : queue[w][i].msg # None =>
                /\ queue[w][i].msg \notin owned
                /\ \A v \in Workers \ {w} : queue[w][i].msg \notin Named(queue[v])
                /\ \A j \in DOMAIN cmdq : cmdq[j] # queue[w][i].msg
           /\ \A i \in DOMAIN cmdq : cmdq[i] \notin owned
           /\ \A k \in Components : inside[k] \cap owned = {}
<1>1. \A m \in Msgs : \A p, q \in Holders : m \in Holding(p) /\ m \in Holding(q) => p = q
  BY DEF MessagesConserved
<1>2. /\ dsp.msg \in Msgs \cup {None} /\ \A w \in Workers : wk[w].msg \in Msgs \cup {None}
      /\ \A i \in DOMAIN cmdq : cmdq[i] \in Msgs
      /\ \A w \in Workers : \A i \in DOMAIN queue[w] : queue[w][i].msg \in Msgs \cup {None}
      /\ \A k \in Components : inside[k] \subseteq Msgs
  <2>1. dsp.msg \in Msgs \cup {None} /\ \A w \in Workers : wk[w].msg \in Msgs \cup {None}
    BY DEF TypeOK
  <2>2. cmdq \in Seq(Msgs) /\ \A w \in Workers : queue[w] \in Seq(Item0)
    BY DEF TypeOK, Item0
  <2>3. \A i \in DOMAIN cmdq : cmdq[i] \in Msgs
    BY <2>2
  <2>4. \A w \in Workers : \A i \in DOMAIN queue[w] : queue[w][i].msg \in Msgs \cup {None}
    <3>1. \A q \in Seq(Item0) : \A i \in DOMAIN q : q[i] \in Item0
      OBVIOUS
    <3> QED BY <2>2, <3>1 DEF Item0
  <2>5. \A k \in Components : inside[k] \subseteq Msgs
    BY DEF TypeOK
  <2> QED BY <2>1, <2>3, <2>4, <2>5
<1>3. dsp.msg # None => dsp.msg \in Msgs /\ dsp.msg \in Holding(<<"dsp", None>>)
  BY <1>2, HoldingIs
<1>4. \A w \in Workers : wk[w].msg # None => wk[w].msg \in Msgs /\ wk[w].msg \in Holding(<<"worker", w>>)
  <2>1. \A w \in Workers : Holding(<<"worker", w>>) = {wk[w].msg} \ {None}
    BY HoldingIs
  <2> QED BY <1>2, <2>1
<1>5. \A w \in Workers : \A i \in DOMAIN queue[w] : queue[w][i].msg # None =>
         queue[w][i].msg \in Msgs /\ queue[w][i].msg \in Holding(<<"queue", w>>)
  <2>1. ASSUME NEW w \in Workers, NEW i \in DOMAIN queue[w] PROVE queue[w][i].msg \in Named(queue[w])
    BY DEF Named
  <2>2. \A w \in Workers : Holding(<<"queue", w>>) = Named(queue[w]) \ {None}
    BY HoldingIs
  <2> QED BY <1>2, <2>1, <2>2
<1>6. \A i \in DOMAIN cmdq : cmdq[i] \in Msgs /\ cmdq[i] \in Holding(<<"dsp queue", None>>)
  <2>1. Holding(<<"dsp queue", None>>) = {cmdq[i] : i \in DOMAIN cmdq}
    BY HoldingIs
  <2> QED BY <1>2, <2>1
<1>7. \A k \in Components : \A m \in inside[k] : m \in Msgs /\ m \in Holding(<<"component", k>>)
  <2>1. \A k \in Components : Holding(<<"component", k>>) = inside[k]
    BY HoldingIs
  <2> QED BY <1>2, <2>1
<1>8. \A m \in owned : m \in Holding(<<"application", None>>)
  BY HoldingIs
<1>9. ASSUME dsp.msg # None
      PROVE  /\ dsp.msg \notin owned
             /\ \A w \in Workers : dsp.msg \notin Named(queue[w]) /\ dsp.msg # wk[w].msg
             /\ \A i \in DOMAIN cmdq : cmdq[i] # dsp.msg
  <2>1. dsp.msg \notin owned
    BY <1>1, <1>3, <1>8, <1>9, HoldersAre
  <2>2. ASSUME NEW w \in Workers PROVE dsp.msg \notin Named(queue[w]) /\ dsp.msg # wk[w].msg
    BY <1>1, <1>3, <1>4, <1>5, <1>9, HoldersAre DEF Named
  <2>3. \A i \in DOMAIN cmdq : cmdq[i] # dsp.msg
    BY <1>1, <1>3, <1>6, <1>9, HoldersAre
  <2> QED BY <2>1, <2>2, <2>3
<1>10. ASSUME NEW w \in Workers, wk[w].msg # None
      PROVE  /\ wk[w].msg \notin owned
             /\ \A v \in Workers : wk[w].msg \notin Named(queue[v]) /\ (v # w => wk[v].msg # wk[w].msg)
             /\ \A k \in Components : wk[w].msg \notin inside[k]
             /\ \A i \in DOMAIN cmdq : cmdq[i] # wk[w].msg
  <2>1. wk[w].msg \notin owned
    BY <1>1, <1>4, <1>8, <1>10, HoldersAre
  <2>2. ASSUME NEW v \in Workers PROVE wk[w].msg \notin Named(queue[v])
    BY <1>1, <1>4, <1>5, <1>10, HoldersAre DEF Named
  <2>3. ASSUME NEW v \in Workers, v # w PROVE wk[v].msg # wk[w].msg
    BY <1>1, <1>4, <1>10, <2>3, HoldersAre
  <2>4. \A k \in Components : wk[w].msg \notin inside[k]
    BY <1>1, <1>4, <1>7, <1>10, HoldersAre
  <2>5. \A i \in DOMAIN cmdq : cmdq[i] # wk[w].msg
    BY <1>1, <1>4, <1>6, <1>10, HoldersAre
  <2> QED BY <2>1, <2>2, <2>3, <2>4, <2>5
<1>11. ASSUME NEW w \in Workers, NEW i \in DOMAIN queue[w], queue[w][i].msg # None
      PROVE  /\ queue[w][i].msg \notin owned
             /\ \A v \in Workers \ {w} : queue[w][i].msg \notin Named(queue[v])
             /\ \A j \in DOMAIN cmdq : cmdq[j] # queue[w][i].msg
  <2>1. queue[w][i].msg \notin owned
    BY <1>1, <1>5, <1>8, <1>11, HoldersAre
  <2>2. ASSUME NEW v \in Workers \ {w} PROVE queue[w][i].msg \notin Named(queue[v])
    BY <1>1, <1>5, <1>11, HoldersAre DEF Named
  <2>3. \A j \in DOMAIN cmdq : cmdq[j] # queue[w][i].msg
    BY <1>1, <1>5, <1>6, <1>11, HoldersAre
  <2> QED BY <2>1, <2>2, <2>3
<1>12. \A i \in DOMAIN cmdq : cmdq[i] \notin owned
  BY <1>1, <1>6, <1>8, HoldersAre
<1>13. \A k \in Components : inside[k] \cap owned = {}
  BY <1>1, <1>7, <1>8, HoldersAre
<1> QED BY <1>9, <1>10, <1>11, <1>12, <1>13

\* Commands that go from wherever they are to one place stay in one place.
LEMMA Moved ==
    ASSUME MessagesConserved, NEW M \in SUBSET Msgs, NEW q \in Holders,
           Holding(q)' = Holding(q) \cup M,
           \A p \in Holders \ {q} : Holding(p)' = Holding(p) \ M
    PROVE  \A m \in Msgs : \E p \in Holders : \A r \in Holders : m \in Holding(r)' <=> r = p
<1> SUFFICES ASSUME NEW m \in Msgs PROVE \E p \in Holders : \A r \in Holders : m \in Holding(r)' <=> r = p
  OBVIOUS
<1>1. PICK p \in Holders : \A r \in Holders : m \in Holding(r) <=> r = p
  BY DEF MessagesConserved
<1>2. CASE m \in M
  BY <1>2
<1>3. CASE m \notin M
  BY <1>1, <1>3
<1> QED BY <1>2, <1>3

\* A step that touches no command, or moves some from one place to another.
LEMMA Rest ==
    ASSUME NEW P \in SUBSET Holders,
           <<"application", None>> \in P \/ owned' = owned,
           <<"dsp queue", None>> \in P \/ cmdq' = cmdq,
           <<"dsp", None>> \in P \/ dsp'.msg = dsp.msg,
           \A w \in Workers : <<"queue", w>> \in P \/ Named(queue'[w]) \ {None} = Named(queue[w]) \ {None},
           \A w \in Workers : <<"worker", w>> \in P \/ wk'[w].msg = wk[w].msg,
           \A k \in Components : <<"component", k>> \in P \/ inside'[k] = inside[k]
    PROVE  \A p \in Holders \ P : Holding(p)' = Holding(p)
<1> SUFFICES ASSUME NEW p \in Holders \ P PROVE Holding(p)' = Holding(p)
  OBVIOUS
<1>1. CASE p = <<"application", None>>
  BY <1>1, HoldingIs, HoldingWillBe
<1>2. CASE p = <<"dsp queue", None>>
  <2>1. /\ Holding(<<"dsp queue", None>>) = {cmdq[i] : i \in DOMAIN cmdq}
        /\ Holding(<<"dsp queue", None>>)' = {cmdq'[i] : i \in DOMAIN cmdq'}
    BY HoldingIs, HoldingWillBe
  <2>2. cmdq' = cmdq
    BY <1>2
  <2> QED BY <1>2, <2>1, <2>2
<1>3. CASE p = <<"dsp", None>>
  BY <1>3, HoldingIs, HoldingWillBe
<1>4. ASSUME NEW w \in Workers, p = <<"queue", w>> PROVE Holding(p)' = Holding(p)
  <2>1. Holding(<<"queue", w>>) = Named(queue[w]) \ {None} /\ Holding(<<"queue", w>>)' = Named(queue'[w]) \ {None}
    BY HoldingIs, HoldingWillBe
  <2> QED BY <1>4, <2>1
<1>5. ASSUME NEW w \in Workers, p = <<"worker", w>> PROVE Holding(p)' = Holding(p)
  <2>1. Holding(<<"worker", w>>) = {wk[w].msg} \ {None} /\ Holding(<<"worker", w>>)' = {wk'[w].msg} \ {None}
    BY HoldingIs, HoldingWillBe
  <2> QED BY <1>5, <2>1
<1>6. ASSUME NEW k \in Components, p = <<"component", k>> PROVE Holding(p)' = Holding(p)
  <2>1. Holding(<<"component", k>>) = inside[k] /\ Holding(<<"component", k>>)' = inside'[k]
    BY HoldingIs, HoldingWillBe
  <2> QED BY <1>6, <2>1
<1> QED BY <1>1, <1>2, <1>3, <1>4, <1>5, <1>6, HoldersAre
\* Every command is in one place.
InOnePlace == \A m \in Msgs : \E p \in Holders : \A q \in Holders : m \in Holding(q) <=> q = p
\* A step that moves nothing keeps it so,
LEMMA NoneMoved ==
    ASSUME MessagesConserved, \A p \in Holders : Holding(p)' = Holding(p)
    PROVE  InOnePlace'
BY DEF MessagesConserved, InOnePlace
\* and so does one that moves some commands from one place to another.
LEMMA FromTo ==
    ASSUME MessagesConserved, NEW M \in SUBSET Msgs, NEW p \in Holders, NEW q \in Holders, p # q,
           M \subseteq Holding(p), Holding(p)' = Holding(p) \ M, Holding(q)' = Holding(q) \cup M,
           \A r \in Holders \ {p, q} : Holding(r)' = Holding(r)
    PROVE  InOnePlace'
<1>1. \A r \in Holders \ {p, q} : Holding(r)' = Holding(r) \ M
  BY DEF MessagesConserved
<1>2. \A r \in Holders \ {q} : Holding(r)' = Holding(r) \ M
  BY <1>1
<1> QED BY <1>2, Moved DEF InOnePlace

\* The queue of the DSP thread after one more command, and one less.
LEMMA CmdqAppended ==
    ASSUME NEW q \in Seq(Msgs), NEW m \in Msgs
    PROVE  /\ {Append(q, m)[i] : i \in DOMAIN Append(q, m)} = {q[i] : i \in DOMAIN q} \cup {m}
           /\ (\A i, j \in DOMAIN q : q[i] = q[j] => i = j) /\ (\A i \in DOMAIN q : q[i] # m)
                => \A i, j \in DOMAIN Append(q, m) : Append(q, m)[i] = Append(q, m)[j] => i = j
<1>1. /\ Len(Append(q, m)) = Len(q) + 1 /\ Len(q) \in Nat
      /\ DOMAIN Append(q, m) = 1 .. Len(q) + 1 /\ DOMAIN q = 1 .. Len(q)
      /\ \A i \in 1 .. Len(q) : Append(q, m)[i] = q[i]
      /\ Append(q, m)[Len(q) + 1] = m
  OBVIOUS
<1>2. 1 .. Len(q) + 1 = (1 .. Len(q)) \cup {Len(q) + 1}
  BY <1>1
<1>3. ASSUME NEW e \in {Append(q, m)[i] : i \in DOMAIN Append(q, m)}
      PROVE  e \in {q[i] : i \in DOMAIN q} \cup {m}
  BY <1>1, <1>2
<1>4. ASSUME NEW e \in {q[i] : i \in DOMAIN q} \cup {m}
      PROVE  e \in {Append(q, m)[i] : i \in DOMAIN Append(q, m)}
  BY <1>1, <1>2
<1>5. ASSUME \A i, j \in DOMAIN q : q[i] = q[j] => i = j, \A i \in DOMAIN q : q[i] # m
      PROVE  \A i, j \in DOMAIN Append(q, m) : Append(q, m)[i] = Append(q, m)[j] => i = j
  BY <1>1, <1>2, <1>5
<1> QED BY <1>3, <1>4, <1>5
\* (less)
LEMMA CmdqTaken ==
    ASSUME NEW q \in Seq(Msgs), q # <<>>, \A i, j \in DOMAIN q : q[i] = q[j] => i = j
    PROVE  /\ Head(q) \in Msgs /\ Head(q) \in {q[i] : i \in DOMAIN q}
           /\ {Tail(q)[i] : i \in DOMAIN Tail(q)} = {q[i] : i \in DOMAIN q} \ {Head(q)}
           /\ \A i, j \in DOMAIN Tail(q) : Tail(q)[i] = Tail(q)[j] => i = j
<1>1. /\ Head(q) \in Msgs /\ Head(q) = q[1]
      /\ Len(q) \in Nat \ {0}
      /\ DOMAIN q = 1 .. Len(q) /\ DOMAIN Tail(q) = 1 .. Len(q) - 1
      /\ \A i \in 1 .. Len(q) - 1 : Tail(q)[i] = q[i + 1]
  OBVIOUS
<1>2. /\ \A i \in 1 .. Len(q) : i = 1 \/ (i - 1 \in 1 .. Len(q) - 1 /\ (i - 1) + 1 = i)
      /\ \A i \in 1 .. Len(q) - 1 : i + 1 \in 1 .. Len(q) /\ i + 1 # 1
      /\ 1 \in 1 .. Len(q)
  BY <1>1
<1>3. ASSUME NEW i \in 1 .. Len(q), i # 1 PROVE q[i] \in {Tail(q)[j] : j \in DOMAIN Tail(q)}
  <2>1. Tail(q)[i - 1] = q[i] /\ i - 1 \in DOMAIN Tail(q)
    BY <1>1, <1>2, <1>3
  <2> QED BY <2>1
<1>4. ASSUME NEW i \in 1 .. Len(q) - 1 PROVE Tail(q)[i] \in {q[j] : j \in DOMAIN q} \ {Head(q)}
  BY <1>1, <1>2
<1>5. {Tail(q)[i] : i \in DOMAIN Tail(q)} = {q[i] : i \in DOMAIN q} \ {Head(q)}
  <2>1. ASSUME NEW e \in {q[i] : i \in DOMAIN q} \ {Head(q)} PROVE e \in {Tail(q)[i] : i \in DOMAIN Tail(q)}
    BY <1>1, <1>3
  <2>2. ASSUME NEW e \in {Tail(q)[i] : i \in DOMAIN Tail(q)} PROVE e \in {q[i] : i \in DOMAIN q} \ {Head(q)}
    BY <1>1, <1>4
  <2> QED BY <2>1, <2>2
<1>6. \A i, j \in DOMAIN Tail(q) : Tail(q)[i] = Tail(q)[j] => i = j
  BY <1>1, <1>2
<1> QED BY <1>1, <1>2, <1>5, <1>6

\* The queues hold nothing twice.
Single ==
    /\ \A i, j \in DOMAIN cmdq : cmdq[i] = cmdq[j] => i = j
    /\ \A w \in Workers : \A i, j \in DOMAIN queue[w] : queue[w][i].msg = queue[w][j].msg => i = j

\* The application gives a command to the DSP.
LEMMA Issued ==
    ASSUME BaseInv, NEW m \in Msgs, NEW op, NEW k, NEW a, Issue(m, op, k, a)
    PROVE  InOnePlace' /\ Single'
<1> DEFINE A == <<"application", None>>
           C == <<"dsp queue", None>>
<1>1. /\ m \in owned /\ owned' = owned \ {m} /\ cmdq' = Append(cmdq, m) /\ cmdq \in Seq(Msgs)
      /\ UNCHANGED <<queue, dsp, wk, inside>>
  BY DEF Issue, BaseInv, TypeOK, runVars
<1>2. \A i \in DOMAIN cmdq : cmdq[i] # m
  BY <1>1, Apart DEF BaseInv
<1>3. {cmdq'[i] : i \in DOMAIN cmdq'} = {cmdq[i] : i \in DOMAIN cmdq} \cup {m} /\ Single'
  <2>1. Single
    BY DEF Single, BaseInv, MessagesConserved
  <2>2. /\ {cmdq'[i] : i \in DOMAIN cmdq'} = {cmdq[i] : i \in DOMAIN cmdq} \cup {m}
        /\ \A i, j \in DOMAIN cmdq' : cmdq'[i] = cmdq'[j] => i = j
    BY <1>1, <1>2, <2>1, CmdqAppended DEF Single
  <2> QED BY <1>1, <2>1, <2>2 DEF Single
<1>4. A \in Holders /\ C \in Holders /\ A # C
  BY HoldersAre
<1>5. \A r \in Holders \ {A, C} : Holding(r)' = Holding(r)
  BY <1>1, <1>4, Rest
<1>6. Holding(A)' = Holding(A) \ {m} /\ {m} \subseteq Holding(A)
  BY <1>1, HoldingIs, HoldingWillBe
<1>7. Holding(C)' = Holding(C) \cup {m}
  BY <1>3, HoldingIs, HoldingWillBe
<1>8. MessagesConserved /\ {m} \in SUBSET Msgs
  BY DEF BaseInv
<1>9. InOnePlace'
  BY <1>4, <1>5, <1>6, <1>7, <1>8, FromTo
<1> QED BY <1>3, <1>9

\* The DSP thread takes a command, and keeps it or answers it.
LEMMA Taken ==
    ASSUME BaseInv, cmdq # <<>>, cmdq' = Tail(cmdq), dsp.pc = "idle",
           \/ dsp'.msg = Head(cmdq) /\ UNCHANGED owned
           \/ owned' = owned \cup {Head(cmdq)} /\ UNCHANGED dsp,
           UNCHANGED <<queue, wk, inside>>
    PROVE  InOnePlace' /\ Single'
<1> DEFINE A == <<"application", None>>
           C == <<"dsp queue", None>>
           D == <<"dsp", None>>
           m == Head(cmdq)
<1>1. Single /\ cmdq \in Seq(Msgs) /\ dsp.msg = None
  BY DEF Single, BaseInv, MessagesConserved, TypeOK, ShapeInv, DspInv
<1>2. /\ m \in Msgs /\ m \in {cmdq[i] : i \in DOMAIN cmdq}
      /\ {cmdq'[i] : i \in DOMAIN cmdq'} = {cmdq[i] : i \in DOMAIN cmdq} \ {m}
      /\ \A i, j \in DOMAIN cmdq' : cmdq'[i] = cmdq'[j] => i = j
  <2>1. \A i, j \in DOMAIN cmdq : cmdq[i] = cmdq[j] => i = j
    BY <1>1 DEF Single
  <2> DEFINE q == cmdq
  <2>2. q \in Seq(Msgs) /\ q # <<>> /\ \A i, j \in DOMAIN q : q[i] = q[j] => i = j
    BY <1>1, <2>1
  <2> HIDE DEF q
  <2>3. /\ Head(q) \in Msgs /\ Head(q) \in {q[i] : i \in DOMAIN q}
        /\ {Tail(q)[i] : i \in DOMAIN Tail(q)} = {q[i] : i \in DOMAIN q} \ {Head(q)}
        /\ \A i, j \in DOMAIN Tail(q) : Tail(q)[i] = Tail(q)[j] => i = j
    BY <2>2, CmdqTaken
  <2> QED BY <2>3 DEF q
<1>3. Single'
  BY <1>1, <1>2 DEF Single
<1>4. A \in Holders /\ C \in Holders /\ D \in Holders /\ A # C /\ C # D
  BY HoldersAre
<1>5. Holding(C)' = Holding(C) \ {m} /\ {m} \subseteq Holding(C)
  BY <1>2, HoldingIs, HoldingWillBe
<1>6. CASE dsp'.msg = m /\ UNCHANGED owned
  <2>1. \A r \in Holders \ {C, D} : Holding(r)' = Holding(r)
    BY <1>4, <1>6, Rest
  <2>2. Holding(D)' = Holding(D) \cup {m}
    BY <1>1, <1>2, <1>6, Numbers, HoldingIs, HoldingWillBe
  <2> HIDE DEF m
  <2>3. MessagesConserved /\ {m} \in SUBSET Msgs
    BY <1>2 DEF BaseInv
  <2>4. InOnePlace'
    BY <1>4, <1>5, <2>1, <2>2, <2>3, FromTo
  <2> QED BY <1>3, <2>4
<1>7. CASE owned' = owned \cup {m} /\ UNCHANGED dsp
  <2>1. \A r \in Holders \ {C, A} : Holding(r)' = Holding(r)
    BY <1>4, <1>7, Rest
  <2>2. Holding(A)' = Holding(A) \cup {m}
    BY <1>7, HoldingIs, HoldingWillBe
  <2> HIDE DEF m
  <2>3. MessagesConserved /\ {m} \in SUBSET Msgs
    BY <1>2 DEF BaseInv
  <2>4. InOnePlace'
    BY <1>4, <1>5, <2>1, <2>2, <2>3, FromTo
  <2> QED BY <1>3, <2>4
<1> QED BY <1>6, <1>7

\* It answers the command it has.
LEMMA Answered ==
    ASSUME BaseInv, dsp.msg \in Msgs, dsp' = Idle, owned' = owned \cup {dsp.msg},
           UNCHANGED <<queue, cmdq, wk, inside>>
    PROVE  InOnePlace' /\ Single'
<1> DEFINE A == <<"application", None>>
           D == <<"dsp", None>>
           m == dsp.msg
<1>1. Single'
  BY DEF Single, BaseInv, MessagesConserved
<1>2. A \in Holders /\ D \in Holders /\ A # D
  BY HoldersAre
<1>3. Holding(D)' = Holding(D) \ {m} /\ {m} \subseteq Holding(D)
  BY Numbers, HoldingIs, HoldingWillBe DEF Idle
<1>4. \A r \in Holders \ {D, A} : Holding(r)' = Holding(r)
  BY <1>2, Rest
<1>5. Holding(A)' = Holding(A) \cup {m}
  BY HoldingIs, HoldingWillBe
<1>6. MessagesConserved /\ {m} \in SUBSET Msgs
  BY DEF BaseInv
<1> HIDE DEF m
<1> QED BY <1>1, <1>2, <1>3, <1>4, <1>5, <1>6, FromTo

\* What a queue holds after one more item, for the others as before.
LEMMA Queued ==
    ASSUME BaseInv, NEW w \in Workers, NEW it \in Item0, it.msg \notin Named(queue[w]),
           queue' = [queue EXCEPT ![w] = Append(@, it)], UNCHANGED cmdq
    PROVE  /\ Single' /\ Named(queue'[w]) = Named(queue[w]) \cup {it.msg}
           /\ \A v \in Workers \ {w} : queue'[v] = queue[v]
<1>1. queue \in [Workers -> Seq(Item0)] /\ Single
  BY DEF BaseInv, TypeOK, Item0, MessagesConserved, Single
<1>2. /\ queue'[w] = Append(queue[w], it) /\ \A v \in Workers \ {w} : queue'[v] = queue[v]
  BY <1>1
<1>3. \A i, j \in DOMAIN queue[w] : queue[w][i].msg = queue[w][j].msg => i = j
  BY <1>1 DEF Single
<1>4. /\ Named(queue'[w]) = Named(queue[w]) \cup {it.msg}
      /\ \A i, j \in DOMAIN queue'[w] : queue'[w][i].msg = queue'[w][j].msg => i = j
  <2>1. queue[w] \in Seq(Item0)
    BY <1>1
  <2> QED BY <1>2, <1>3, <2>1, AppendNamed
<1> QED BY <1>1, <1>2, <1>4 DEF Single

\* Or it sends it to a worker's queue.
LEMMA Sent ==
    ASSUME BaseInv, NEW w \in Workers, dsp.msg \in Msgs, dsp' = Idle,
           queue' = [queue EXCEPT ![w] = Append(@, Item(dsp.to, dsp.msg))],
           UNCHANGED <<owned, cmdq, wk, inside>>
    PROVE  InOnePlace' /\ Single'
<1> DEFINE Q == <<"queue", w>>
           D == <<"dsp", None>>
           m == dsp.msg
           it == Item(dsp.to, dsp.msg)
<1>1. it \in Item0 /\ it.msg = m
  BY DEF BaseInv, ShapeInv, DspInv, TypeOK, Item, Item0
<1>2. m \notin Named(queue[w])
  BY <1>1, Apart, Numbers DEF BaseInv
<1>3. Single' /\ Named(queue'[w]) = Named(queue[w]) \cup {m} /\ \A v \in Workers \ {w} : queue'[v] = queue[v]
  BY <1>1, <1>2, Queued
<1>4. Q \in Holders /\ D \in Holders /\ D # Q
  BY HoldersAre
<1>5. Holding(D)' = Holding(D) \ {m} /\ {m} \subseteq Holding(D)
  BY Numbers, HoldingIs, HoldingWillBe DEF Idle
<1>6. \A r \in Holders \ {D, Q} : Holding(r)' = Holding(r)
  <2>1. \A v \in Workers : <<"queue", v>> \in {D, Q} \/ Named(queue'[v]) \ {None} = Named(queue[v]) \ {None}
    BY <1>3
  <2> QED BY <1>4, <2>1, Rest
<1>7. Holding(Q)' = Holding(Q) \cup {m}
  <2>1. Holding(Q) = Named(queue[w]) \ {None} /\ Holding(Q)' = Named(queue'[w]) \ {None}
    BY HoldingIs, HoldingWillBe
  <2> QED BY <1>3, <2>1, Numbers
<1>8. MessagesConserved /\ {m} \in SUBSET Msgs
  BY DEF BaseInv
<1> HIDE DEF m
<1>9. InOnePlace'
  BY <1>4, <1>5, <1>6, <1>7, <1>8, FromTo
<1> QED BY <1>3, <1>9

\* What a queue holds when its head has been taken, for the others as before.
LEMMA Dequeued ==
    ASSUME BaseInv, NEW w \in Workers, queue[w] # <<>>,
           queue' = [queue EXCEPT ![w] = Tail(@)], UNCHANGED cmdq
    PROVE  /\ Single' /\ Named(queue'[w]) = Named(queue[w]) \ {Head(queue[w]).msg}
           /\ Head(queue[w]) \in Item0 /\ Head(queue[w]).msg \in Named(queue[w])
           /\ \A v \in Workers \ {w} : queue'[v] = queue[v]
<1>1. queue \in [Workers -> Seq(Item0)] /\ queue[w] \in Seq(Item0) /\ Single
  BY DEF BaseInv, TypeOK, Item0, MessagesConserved, Single
<1>2. /\ queue'[w] = Tail(queue[w]) /\ \A v \in Workers \ {w} : queue'[v] = queue[v]
  BY <1>1
<1>3. \A i, j \in DOMAIN queue[w] : queue[w][i].msg = queue[w][j].msg => i = j
  BY <1>1 DEF Single
<1>4. /\ Named(queue'[w]) = Named(queue[w]) \ {Head(queue[w]).msg}
      /\ Head(queue[w]) \in Item0 /\ Head(queue[w]).msg \in Named(queue[w])
      /\ \A i, j \in DOMAIN queue'[w] : queue'[w][i].msg = queue'[w][j].msg => i = j
  BY <1>1, <1>2, <1>3, TailNamed
<1> QED BY <1>1, <1>2, <1>4 DEF Single

\* A worker answers its message,
LEMMA WorkerAnswers ==
    ASSUME BaseInv, NEW w \in Workers, wk[w].msg \in Msgs, wk'[w].msg = None,
           \A v \in Workers \ {w} : wk'[v] = wk[v],
           owned' = owned \cup {wk[w].msg}, UNCHANGED <<queue, cmdq, dsp, inside>>
    PROVE  InOnePlace' /\ Single'
<1> DEFINE A == <<"application", None>>
           W == <<"worker", w>>
           m == wk[w].msg
<1>1. Single'
  BY DEF Single, BaseInv, MessagesConserved
<1>2. A \in Holders /\ W \in Holders /\ W # A
  BY HoldersAre
<1>3. Holding(W)' = Holding(W) \ {m} /\ {m} \subseteq Holding(W)
  <2>1. Holding(W) = {wk[w].msg} \ {None} /\ Holding(W)' = {wk'[w].msg} \ {None}
    BY HoldingIs, HoldingWillBe
  <2> QED BY <2>1, Numbers
<1>4. \A r \in Holders \ {W, A} : Holding(r)' = Holding(r)
  <2>1. \A v \in Workers : <<"worker", v>> \in {W, A} \/ wk'[v].msg = wk[v].msg
    OBVIOUS
  <2> QED BY <1>2, <2>1, Rest
<1>5. Holding(A)' = Holding(A) \cup {m}
  BY HoldingIs, HoldingWillBe
<1>6. MessagesConserved /\ {m} \in SUBSET Msgs
  BY DEF BaseInv
<1> HIDE DEF m
<1>7. \A r \in Holders \ {A} : Holding(r)' = Holding(r) \ {m}
  BY <1>2, <1>3, <1>4, <1>6 DEF MessagesConserved
<1>8. InOnePlace'
  BY <1>2, <1>5, <1>6, <1>7, Moved DEF InOnePlace
<1> QED BY <1>1, <1>8

\* ... gives it to its component,
LEMMA WorkerKeeps ==
    ASSUME BaseInv, NEW w \in Workers, NEW k \in Components, wk[w].msg \in Msgs, wk'[w].msg = None,
           \A v \in Workers \ {w} : wk'[v] = wk[v],
           inside' = [inside EXCEPT ![k] = @ \cup {wk[w].msg}], UNCHANGED <<queue, cmdq, dsp, owned>>
    PROVE  InOnePlace' /\ Single'
<1> DEFINE K == <<"component", k>>
           W == <<"worker", w>>
           m == wk[w].msg
<1>1. Single' /\ inside \in [Components -> SUBSET Msgs]
  BY DEF Single, BaseInv, MessagesConserved, TypeOK
<1>2. K \in Holders /\ W \in Holders /\ W # K
  BY HoldersAre
<1>3. Holding(W)' = Holding(W) \ {m} /\ {m} \subseteq Holding(W)
  <2>1. Holding(W) = {wk[w].msg} \ {None} /\ Holding(W)' = {wk'[w].msg} \ {None}
    BY HoldingIs, HoldingWillBe
  <2> QED BY <2>1, Numbers
<1>4. \A r \in Holders \ {W, K} : Holding(r)' = Holding(r)
  <2>1. /\ \A v \in Workers : <<"worker", v>> \in {W, K} \/ wk'[v].msg = wk[v].msg
        /\ \A c \in Components : <<"component", c>> \in {W, K} \/ inside'[c] = inside[c]
    BY <1>1
  <2> QED BY <1>2, <2>1, Rest
<1>5. Holding(K)' = Holding(K) \cup {m}
  <2>1. Holding(K) = inside[k] /\ Holding(K)' = inside'[k]
    BY HoldingIs, HoldingWillBe
  <2> QED BY <1>1, <2>1
<1>6. MessagesConserved /\ {m} \in SUBSET Msgs
  BY DEF BaseInv
<1> HIDE DEF m
<1> QED BY <1>1, <1>2, <1>3, <1>4, <1>5, <1>6, FromTo

\* ... takes one from its queue, which may be a marker and then none,
LEMMA WorkerTakes ==
    ASSUME BaseInv, NEW w \in Workers, queue[w] # <<>>, wk[w].msg = None, wk'[w].msg = Head(queue[w]).msg,
           \A v \in Workers \ {w} : wk'[v] = wk[v],
           queue' = [queue EXCEPT ![w] = Tail(@)], UNCHANGED <<owned, cmdq, dsp, inside>>
    PROVE  InOnePlace' /\ Single'
<1> DEFINE Q == <<"queue", w>>
           W == <<"worker", w>>
           M == {Head(queue[w]).msg} \ {None}
<1>1. /\ Single' /\ Named(queue'[w]) = Named(queue[w]) \ {Head(queue[w]).msg}
      /\ Head(queue[w]) \in Item0 /\ Head(queue[w]).msg \in Named(queue[w])
      /\ \A v \in Workers \ {w} : queue'[v] = queue[v]
  BY Dequeued
<1>2. Q \in Holders /\ W \in Holders /\ W # Q
  BY HoldersAre
<1>3. Holding(Q)' = Holding(Q) \ M /\ M \subseteq Holding(Q)
  <2>1. Holding(Q) = Named(queue[w]) \ {None} /\ Holding(Q)' = Named(queue'[w]) \ {None}
    BY HoldingIs, HoldingWillBe
  <2> QED BY <1>1, <2>1
<1>4. \A r \in Holders \ {Q, W} : Holding(r)' = Holding(r)
  <2>1. /\ \A v \in Workers : <<"worker", v>> \in {Q, W} \/ wk'[v].msg = wk[v].msg
        /\ \A v \in Workers : <<"queue", v>> \in {Q, W} \/ Named(queue'[v]) \ {None} = Named(queue[v]) \ {None}
    BY <1>1
  <2> QED BY <1>2, <2>1, Rest
<1>5. Holding(W)' = Holding(W) \cup M
  <2>1. Holding(W) = {wk[w].msg} \ {None} /\ Holding(W)' = {wk'[w].msg} \ {None}
    BY HoldingIs, HoldingWillBe
  <2> QED BY <2>1
<1>6. MessagesConserved /\ M \in SUBSET Msgs
  BY <1>1 DEF BaseInv, Item0
<1> HIDE DEF M
<1> QED BY <1>1, <1>2, <1>3, <1>4, <1>5, <1>6, FromTo

\* ... completes some of what a component holds,
LEMMA WorkerCompletes ==
    ASSUME BaseInv, NEW k \in Components, NEW M \in SUBSET Msgs, M \subseteq inside[k],
           \A v \in Workers : wk'[v].msg = wk[v].msg,
           inside' = [inside EXCEPT ![k] = @ \ M], owned' = owned \cup M, UNCHANGED <<queue, cmdq, dsp>>
    PROVE  InOnePlace' /\ Single'
<1> DEFINE K == <<"component", k>>
           A == <<"application", None>>
<1>1. Single' /\ inside \in [Components -> SUBSET Msgs]
  BY DEF Single, BaseInv, MessagesConserved, TypeOK
<1>2. K \in Holders /\ A \in Holders /\ A # K
  BY HoldersAre
<1>3. Holding(K)' = Holding(K) \ M /\ M \subseteq Holding(K)
  <2>1. Holding(K) = inside[k] /\ Holding(K)' = inside'[k]
    BY HoldingIs, HoldingWillBe
  <2> QED BY <1>1, <2>1
<1>4. \A r \in Holders \ {K, A} : Holding(r)' = Holding(r)
  <2>1. \A c \in Components : <<"component", c>> \in {K, A} \/ inside'[c] = inside[c]
    BY <1>1
  <2> QED BY <1>2, <2>1, Rest
<1>5. Holding(A)' = Holding(A) \cup M
  BY HoldingIs, HoldingWillBe
<1>6. MessagesConserved
  BY DEF BaseInv
<1> QED BY <1>1, <1>2, <1>3, <1>4, <1>5, <1>6, FromTo

\* ... at the end of the component all of it, and its own message,
LEMMA WorkerExits ==
    ASSUME BaseInv, NEW w \in Workers, NEW k \in Components, wk[w].msg \in Msgs, wk'[w].msg = None,
           \A v \in Workers \ {w} : wk'[v] = wk[v],
           inside' = [inside EXCEPT ![k] = {}], owned' = owned \cup inside[k] \cup {wk[w].msg},
           UNCHANGED <<queue, cmdq, dsp>>
    PROVE  InOnePlace' /\ Single'
<1> DEFINE K == <<"component", k>>
           W == <<"worker", w>>
           A == <<"application", None>>
           M == inside[k] \cup {wk[w].msg}
<1>1. /\ Single' /\ MessagesConserved /\ inside \in [Components -> SUBSET Msgs] /\ M \in SUBSET Msgs
      /\ M \subseteq Holding(K) \cup Holding(W)
  <2>1. Holding(K) = inside[k] /\ Holding(W) = {wk[w].msg} \ {None}
    BY HoldingIs
  <2> QED BY <2>1, Numbers DEF Single, BaseInv, MessagesConserved, TypeOK
<1>2. K \in Holders /\ W \in Holders /\ A \in Holders /\ A # K /\ A # W /\ W # K
  BY HoldersAre
<1>3. Holding(K)' = {} /\ Holding(W)' = {}
  <2>1. Holding(K)' = inside'[k] /\ Holding(W)' = {wk'[w].msg} \ {None}
    BY HoldingWillBe
  <2> QED BY <1>1, <2>1
<1>4. \A r \in Holders \ {K, W, A} : Holding(r)' = Holding(r)
  <2>1. /\ \A c \in Components : <<"component", c>> \in {K, W, A} \/ inside'[c] = inside[c]
        /\ \A v \in Workers : <<"worker", v>> \in {K, W, A} \/ wk'[v].msg = wk[v].msg
    BY <1>1
  <2> QED BY <1>2, <2>1, Rest
<1>5. Holding(A)' = Holding(A) \cup M
  BY HoldingIs, HoldingWillBe
<1>6. Holding(K) \subseteq M /\ Holding(W) \subseteq M
  <2>1. Holding(K) = inside[k] /\ Holding(W) = {wk[w].msg} \ {None}
    BY HoldingIs
  <2> QED BY <2>1
<1> HIDE DEF M
<1>7. \A r \in Holders \ {K, W, A} : Holding(r) \cap M = {}
  BY <1>1, <1>2 DEF MessagesConserved
<1>8. \A r \in Holders \ {A} : Holding(r)' = Holding(r) \ M
  BY <1>2, <1>3, <1>4, <1>6, <1>7
<1> QED BY <1>1, <1>2, <1>5, <1>8, Moved DEF InOnePlace

\* ... answers, puts back or drops the first of a queue it purges.
LEMMA WorkerTurns ==
    ASSUME BaseInv, NEW v \in Workers, queue[v] # <<>>, NEW b \in BOOLEAN,
           queue' = [queue EXCEPT ![v] = IF b THEN Tail(@) ELSE Append(Tail(@), Head(@))],
           Head(queue[v]).msg = None => b /\ UNCHANGED owned,
           Head(queue[v]).msg # None => owned' = IF b THEN owned \cup {Head(queue[v]).msg} ELSE owned,
           \A w \in Workers : wk'[w].msg = wk[w].msg, UNCHANGED <<cmdq, dsp, inside>>
    PROVE  InOnePlace' /\ Single'
<1> DEFINE Q == <<"queue", v>>
           A == <<"application", None>>
           M == {Head(queue[v]).msg} \ {None}
<1>1. MessagesConserved /\ Q \in Holders /\ A \in Holders /\ A # Q
  BY HoldersAre DEF BaseInv
<1>2. CASE b
  <2>1. /\ Single' /\ Named(queue'[v]) = Named(queue[v]) \ {Head(queue[v]).msg}
        /\ Head(queue[v]) \in Item0 /\ Head(queue[v]).msg \in Named(queue[v])
        /\ \A w \in Workers \ {v} : queue'[w] = queue[w]
    <3>1. queue' = [queue EXCEPT ![v] = Tail(@)]
      BY <1>2
    <3> QED BY <3>1, Dequeued
  <2>2. Holding(Q)' = Holding(Q) \ M /\ M \subseteq Holding(Q)
    <3>1. Holding(Q) = Named(queue[v]) \ {None} /\ Holding(Q)' = Named(queue'[v]) \ {None}
      BY HoldingIs, HoldingWillBe
    <3> QED BY <2>1, <3>1
  <2>3. \A r \in Holders \ {Q, A} : Holding(r)' = Holding(r)
    <3>1. \A w \in Workers : <<"queue", w>> \in {Q, A} \/ Named(queue'[w]) \ {None} = Named(queue[w]) \ {None}
      BY <2>1
    <3> QED BY <1>1, <3>1, Rest
  <2>4. Holding(A)' = Holding(A) \cup M
    <3>1. owned' = owned \cup M
      BY <1>2
    <3> QED BY <3>1, HoldingIs, HoldingWillBe
  <2>5. M \in SUBSET Msgs
    BY <2>1 DEF Item0
  <2> HIDE DEF M
  <2> QED BY <1>1, <2>1, <2>2, <2>3, <2>4, <2>5, FromTo
<1>3. CASE ~b
  <2> DEFINE q == Tail(queue[v])
             it == Head(queue[v])
  <2>1. queue \in [Workers -> Seq(Item0)] /\ queue[v] \in Seq(Item0) /\ Single
    BY DEF BaseInv, TypeOK, Item0, MessagesConserved, Single
  <2>2. /\ it \in Item0 /\ q \in Seq(Item0) /\ Named(queue[v]) = Named(q) \cup {it.msg}
        /\ \A i, j \in DOMAIN q : q[i].msg = q[j].msg => i = j
        /\ it.msg \notin Named(q)
    BY <2>1, TailNamed DEF Single
  <2>3. queue'[v] = Append(q, it) /\ (\A w \in Workers \ {v} : queue'[w] = queue[w]) /\ owned' = owned
    BY <1>3, <2>1
  <2> HIDE DEF q, it
  <2>4. /\ Named(Append(q, it)) = Named(q) \cup {it.msg}
        /\ \A i, j \in DOMAIN Append(q, it) : Append(q, it)[i].msg = Append(q, it)[j].msg => i = j
    BY <2>2, AppendNamed
  <2>5. Single'
    BY <2>1, <2>3, <2>4 DEF Single
  <2>6. \A r \in Holders : Holding(r)' = Holding(r)
    <3>1. \A w \in Workers : Named(queue'[w]) = Named(queue[w])
      BY <2>2, <2>3, <2>4
    <3>2. \A r \in Holders \ {} : Holding(r)' = Holding(r)
      BY <2>3, <3>1, Rest
    <3> QED BY <3>2
  <2> QED BY <1>1, <2>5, <2>6, NoneMoved
<1> QED BY <1>2, <1>3

\* A step may touch no command at all.
LEMMA Untouched ==
    ASSUME BaseInv, UNCHANGED <<owned, cmdq, queue, inside>>, dsp'.msg = dsp.msg,
           \A w \in Workers : wk'[w].msg = wk[w].msg
    PROVE  InOnePlace' /\ Single'
<1>1. \A p \in Holders \ {} : Holding(p)' = Holding(p)
  BY Rest
<1>2. InOnePlace'
  BY <1>1, NoneMoved DEF BaseInv
<1> QED BY <1>2 DEF Single, BaseInv, MessagesConserved

\* Every step keeps every command in one place.
LEMMA ConservedStep ==
    ASSUME BaseInv, [Next]_vars
    PROVE  MessagesConserved'
<1> SUFFICES InOnePlace' /\ Single'
  BY DEF MessagesConserved, InOnePlace, Single
<1>1. ASSUME AppSteps PROVE InOnePlace' /\ Single'
  <2>1. ASSUME NEW m \in Msgs, NEW op, NEW k, NEW a, Issue(m, op, k, a) PROVE InOnePlace' /\ Single'
    BY <2>1, Issued
  <2> QED BY <1>1, <2>1 DEF AppSteps, HostRegister, HostData, HostUnregister, HostSetParam
<1>2. /\ dsp \in [pc : Places, msg : Msgs \cup {None}, to : Components \cup {None},
                  at : Ids \cup Workers \cup {None}]
      /\ wk \in [Workers -> [pc : WorkerPlaces, msg : Msgs \cup {None},
                             to : Components \cup {None}, at : Workers \cup {None}]]
      /\ dsp.pc # "idle" => dsp.msg \in Msgs
  BY Numbers DEF BaseInv, TypeOK, ShapeInv, DspInv
<1>3. ASSUME DspRegister \/ DspLookup PROVE InOnePlace' /\ Single'
  <2>1. /\ cmdq # <<>> /\ cmdq' = Tail(cmdq) /\ dsp.pc = "idle" /\ UNCHANGED <<queue, wk, inside>>
        /\ \/ dsp'.msg = Head(cmdq) /\ UNCHANGED owned
           \/ owned' = owned \cup {Head(cmdq)} /\ UNCHANGED dsp
    BY <1>3 DEF DspRegister, DspLookup, runVars
  <2> QED BY <2>1, Taken
<1>4. ASSUME DspAlloc \/ (\E w \in Workers : DspRoute(w)) PROVE InOnePlace' /\ Single'
  <2>1. UNCHANGED <<owned, cmdq, queue, inside, wk>> /\ dsp'.msg = dsp.msg
    BY <1>2, <1>4 DEF DspAlloc, DspRoute, appVars, runVars
  <2> QED BY <2>1, Untouched
<1>5. ASSUME DspCreateFails \/ (\E k \in Components : DspCreate(k)) PROVE InOnePlace' /\ Single'
  <2>1. dsp.msg \in Msgs /\ dsp' = Idle /\ owned' = owned \cup {dsp.msg} /\ UNCHANGED <<queue, cmdq, wk, inside>>
    BY <1>2, <1>5 DEF DspCreateFails, DspCreate, runVars
  <2> QED BY <2>1, Answered
<1>6. ASSUME DspSend PROVE InOnePlace' /\ Single'
  <2>1. dsp.msg \in Msgs /\ dsp.at \in Workers
    BY <1>2, <1>6 DEF DspSend, BaseInv, ShapeInv, DspInv
  <2>2. PICK w \in Workers : w = dsp.at
    BY <2>1
  <2>3. /\ dsp' = Idle /\ queue' = [queue EXCEPT ![w] = Append(@, Item(dsp.to, dsp.msg))]
        /\ UNCHANGED <<owned, cmdq, wk, inside>>
    BY <1>6, <2>2 DEF DspSend, appVars, runVars
  <2> QED BY <2>1, <2>3, Sent
<1>7. ASSUME NEW w \in Workers,
             \/ WorkerWait(w) \/ WorkerElevate(w)
             \/ \E k \in Components : WorkerTask(w, k)
             \/ \E p \in Workers : WorkerLookup(w, p)
      PROVE  InOnePlace' /\ Single'
  <2>1. UNCHANGED <<owned, cmdq, queue, inside, dsp>>
    BY <1>7 DEF WorkerWait, WorkerElevate, WorkerTask, WorkerLookup, appVars, runVars
  <2>2. \A v \in Workers : wk'[v].msg = wk[v].msg
    <3>1. wk[w].pc = "idle" => wk[w].msg = None
      BY DEF BaseInv, ShapeInv, WorkerInv
    <3> QED BY <1>2, <1>7, <3>1 DEF WorkerWait, WorkerElevate, WorkerTask, WorkerLookup
  <2> QED BY <2>1, <2>2, Untouched
<1>8. ASSUME NEW w \in Workers, NEW done \in SUBSET Msgs, WorkerProcess(w, done) PROVE InOnePlace' /\ Single'
  <2>1. wk[w].to \in Components /\ wk[w].msg = None
    BY <1>8 DEF WorkerProcess, BaseInv, ShapeInv, WorkerInv
  <2>2. PICK k \in Components : k = wk[w].to
    BY <2>1
  <2>3. /\ done \subseteq inside[k] /\ inside' = [inside EXCEPT ![k] = @ \ done]
        /\ owned' = owned \cup done /\ UNCHANGED <<queue, cmdq, dsp>>
    BY <1>8, <2>2 DEF WorkerProcess
  <2>4. \A v \in Workers : wk'[v].msg = wk[v].msg
    BY <1>2, <1>8, <2>1 DEF WorkerProcess, Idle
  <2> QED BY <2>3, <2>4, WorkerCompletes
<1>9. ASSUME NEW w \in Workers, WorkerRecv(w) PROVE InOnePlace' /\ Single'
  <2>1. /\ queue[w] # <<>> /\ wk[w].msg = None /\ queue' = [queue EXCEPT ![w] = Tail(@)]
        /\ UNCHANGED <<owned, cmdq, dsp, inside>>
    BY <1>9 DEF WorkerRecv, BaseInv, ShapeInv, WorkerInv, appVars, runVars
  <2>2. wk'[w].msg = Head(queue[w]).msg /\ \A v \in Workers \ {w} : wk'[v] = wk[v]
    BY <1>2, <1>9 DEF WorkerRecv, Marker, Item, Idle
  <2> QED BY <2>1, <2>2, WorkerTakes
<1>10. ASSUME NEW w \in Workers, WorkerReject(w) \/ WorkerSetParam(w) PROVE InOnePlace' /\ Single'
  <2>1. wk[w].msg \in Msgs /\ wk[w].msg # None
    BY <1>2, <1>10 DEF WorkerReject, WorkerSetParam, Enter, BaseInv, ShapeInv, WorkerInv
  <2>2. wk'[w].msg = None /\ \A v \in Workers \ {w} : wk'[v] = wk[v]
    BY <1>2, <1>10 DEF WorkerReject, WorkerSetParam, Idle
  <2>3. owned' = owned \cup {wk[w].msg} /\ UNCHANGED <<queue, cmdq, dsp, inside>>
    BY <1>10 DEF WorkerReject, WorkerSetParam, runVars
  <2> QED BY <2>1, <2>2, <2>3, WorkerAnswers
<1>11. ASSUME NEW w \in Workers, WorkerData(w) PROVE InOnePlace' /\ Single'
  <2>1. wk[w].msg \in Msgs /\ wk[w].to \in Components
    BY <1>2, <1>11 DEF WorkerData, Enter, BaseInv, ShapeInv, WorkerInv
  <2>2. wk'[w].msg = None /\ \A v \in Workers \ {w} : wk'[v] = wk[v]
    BY <1>2, <1>11 DEF WorkerData, Idle
  <2>3. CASE owned' = owned \cup {wk[w].msg} /\ UNCHANGED runVars
    <3>1. UNCHANGED <<queue, cmdq, dsp, inside>>
      BY <1>11, <2>3 DEF WorkerData, runVars
    <3> QED BY <2>1, <2>2, <2>3, <3>1, WorkerAnswers
  <2>4. CASE inside' = [inside EXCEPT ![wk[w].to] = @ \cup {wk[w].msg}] /\ UNCHANGED owned
    <3>1. PICK k \in Components : k = wk[w].to
      BY <2>1
    <3>2. inside' = [inside EXCEPT ![k] = @ \cup {wk[w].msg}] /\ UNCHANGED <<queue, cmdq, dsp, owned>>
      BY <1>11, <2>4, <3>1 DEF WorkerData
    <3> QED BY <2>1, <2>2, <3>2, WorkerKeeps
  <2> QED BY <1>11, <2>3, <2>4 DEF WorkerData
<1>12. ASSUME NEW w \in Workers, WorkerUnregister(w) PROVE InOnePlace' /\ Single'
  <2>1. wk[w].msg \in Msgs /\ wk[w].to \in Components
    BY <1>2, <1>12 DEF WorkerUnregister, Enter, BaseInv, ShapeInv, WorkerInv
  <2>2. wk'[w].msg = None /\ \A v \in Workers \ {w} : wk'[v] = wk[v]
    BY <1>2, <1>12 DEF WorkerUnregister
  <2>3. PICK k \in Components : k = wk[w].to
    BY <2>1
  <2>4. /\ inside' = [inside EXCEPT ![k] = {}] /\ owned' = owned \cup inside[k] \cup {wk[w].msg}
        /\ UNCHANGED <<queue, cmdq, dsp>>
    BY <1>12, <2>3 DEF WorkerUnregister
  <2> QED BY <2>1, <2>2, <2>4, WorkerExits
<1>13. ASSUME NEW w \in Workers, WorkerMarker(w) PROVE InOnePlace' /\ Single'
  <2>1. wk[w].at = w /\ None \notin Named(queue[w])
    BY <1>13 DEF WorkerMarker, BaseInv, ThreadInv, CompInv, MarkerInv, Cleans
  <2>2. Marker \in Item0 /\ Marker.msg = None
    BY DEF Marker, Item, Item0
  <2>3. queue' = [queue EXCEPT ![w] = Append(@, Marker)] /\ UNCHANGED <<owned, cmdq, dsp, inside>>
    BY <1>13, <2>1 DEF WorkerMarker, appVars, runVars
  <2>4. /\ Single' /\ Named(queue'[w]) = Named(queue[w]) \cup {None}
        /\ \A v \in Workers \ {w} : queue'[v] = queue[v]
    BY <2>1, <2>2, <2>3, Queued
  <2>5. \A v \in Workers : wk'[v].msg = wk[v].msg
    BY <1>2, <1>13 DEF WorkerMarker
  <2>6. \A v \in Workers : Named(queue'[v]) \ {None} = Named(queue[v]) \ {None}
    BY <2>4
  <2>7. \A p \in Holders \ {} : Holding(p)' = Holding(p)
    BY <2>3, <2>5, <2>6, Rest
  <2>8. MessagesConserved /\ \A p \in Holders : Holding(p)' = Holding(p)
    BY <2>7 DEF BaseInv
  <2>9. InOnePlace'
    BY <2>8, NoneMoved
  <2> QED BY <2>4, <2>9
<1>14. ASSUME NEW w \in Workers, WorkerPurge(w) PROVE InOnePlace' /\ Single'
  <2>1. wk[w].at \in Workers
    BY <1>14 DEF WorkerPurge, BaseInv, ShapeInv, WorkerInv, Cleans
  <2>2. PICK v \in Workers : v = wk[w].at
    BY <2>1
  <2>3. UNCHANGED <<cmdq, dsp, inside>>
    BY <1>14 DEF WorkerPurge, runVars
  <2>4. \A u \in Workers : wk'[u].msg = wk[u].msg
    <3>1. wk' = wk \/ wk' = [wk EXCEPT ![w].pc = "free"]
      BY <1>14 DEF WorkerPurge
    <3> QED BY <1>2, <3>1
  <2>5. CASE queue[v] = <<>>
    <3>1. UNCHANGED <<queue, owned>>
      BY <1>14, <2>2, <2>5 DEF WorkerPurge
    <3> QED BY <2>3, <2>4, <3>1, Untouched
  <2>6. CASE queue[v] # <<>>
    <3> DEFINE it == Head(queue[v])
    <3>1. /\ queue' = [queue EXCEPT ![v] = Tail(@) \o PutBack(w, it)]
          /\ owned' = IF OfClient(w, it) THEN owned \cup {it.msg} ELSE owned
      BY <1>14, <2>2, <2>6 DEF WorkerPurge
    <3>2. queue[v] \in Seq(Item0) /\ it \in Item0 /\ Tail(queue[v]) \in Seq(Item0) /\ (it.msg = None <=> it = Marker)
      <4>1. queue[v] \in Seq(Item0)
        BY DEF BaseInv, TypeOK, Item0
      <4>2. it \in Item0 /\ Tail(queue[v]) \in Seq(Item0) /\ 1 \in DOMAIN queue[v] /\ it = queue[v][1]
        BY <2>6, <4>1, TailNamed
      <4>3. it = Marker \/ it.msg \in Msgs
        BY <4>2 DEF BaseInv, ShapeInv, QueueInv
      <4> QED BY <4>1, <4>2, <4>3, Numbers DEF Marker, Item
    <3> DEFINE b == it = Marker \/ OfClient(w, it)
    <3>3. Tail(queue[v]) \o PutBack(w, it) = IF b THEN Tail(queue[v]) ELSE Append(Tail(queue[v]), it)
      <4>1. \A q \in Seq(Item0) : \A e \in Item0 : q \o <<>> = q /\ q \o <<e>> = Append(q, e)
        OBVIOUS
      <4> QED BY <3>2, <4>1 DEF PutBack
    <3>4. PICK c \in BOOLEAN : c <=> b
      OBVIOUS
    <3>5. queue' = [queue EXCEPT ![v] = IF c THEN Tail(@) ELSE Append(Tail(@), Head(@))]
      BY <3>1, <3>3, <3>4
    <3>6. /\ it.msg = None => c /\ UNCHANGED owned
          /\ it.msg # None => owned' = IF c THEN owned \cup {it.msg} ELSE owned
      BY <3>1, <3>2, <3>4 DEF OfClient
    <3> QED BY <2>3, <2>4, <2>6, <3>5, <3>6, WorkerTurns
  <2> QED BY <2>5, <2>6
<1>15. ASSUME NEW w \in Workers, WorkerFree(w) PROVE InOnePlace' /\ Single'
  <2>1. UNCHANGED <<owned, cmdq, queue, inside, dsp>>
    BY <1>15 DEF WorkerFree, appVars, runVars
  <2>2. \A v \in Workers : wk'[v].msg = wk[v].msg
    BY <1>2, <1>15 DEF WorkerFree, Idle, BaseInv, ShapeInv, WorkerInv
  <2> QED BY <2>1, <2>2, Untouched
<1>16. CASE UNCHANGED vars
  BY <1>16, Untouched DEF vars, runVars, appVars
<1> QED
  BY NextIsSteps, <1>1, <1>3, <1>4, <1>5, <1>6, <1>7, <1>8, <1>9, <1>10, <1>11, <1>12, <1>13, <1>14, <1>15,
     <1>16 DEF DspSteps, WorkerSteps

-----------------------------------------------------------------------------
(* The threads and what they have.                                         *)

\* What each actor leaves alone.
LEMMA Leaves ==
    /\ AppSteps => UNCHANGED <<cmap, free, fresh, alive, id, prio, ready, open, queue, dsp, wk, elevated>>
    /\ DspSteps => UNCHANGED <<cmd, ready, wk, elevated>>
    /\ WorkerSteps => UNCHANGED <<fresh, id, cmd, cmdq, dsp>>
<1>1. AppSteps => UNCHANGED <<cmap, free, fresh, alive, id, prio, ready, open, queue, dsp, wk, elevated>>
  BY DEF AppSteps, HostRegister, HostData, HostUnregister, HostSetParam, Issue, mapVars, compVars
<1>2. DspSteps => UNCHANGED <<cmd, ready, wk, elevated>>
  BY DEF DspSteps, DspRegister, DspAlloc, DspCreateFails, DspLookup, DspSend, DspCreate, DspRoute, appVars, compVars
<1>3. ASSUME WorkerSteps PROVE UNCHANGED <<fresh, id, cmd, cmdq, dsp>>
  <2>1. ASSUME NEW w \in Workers, NEW k \in Components, WorkerTask(w, k) PROVE UNCHANGED <<fresh, id, cmd, cmdq, dsp>>
    BY <2>1 DEF WorkerTask, compVars, appVars
  <2>2. ASSUME NEW w \in Workers, NEW done \in SUBSET Msgs, WorkerProcess(w, done)
        PROVE  UNCHANGED <<fresh, id, cmd, cmdq, dsp>>
    BY <2>2 DEF WorkerProcess, compVars
  <2>3. ASSUME NEW w \in Workers, NEW p \in Workers, WorkerLookup(w, p) PROVE UNCHANGED <<fresh, id, cmd, cmdq, dsp>>
    BY <2>3 DEF WorkerLookup, compVars, appVars
  <2>4. ASSUME NEW w \in Workers,
               \/ WorkerWait(w) \/ WorkerRecv(w) \/ WorkerReject(w)
               \/ WorkerData(w) \/ WorkerSetParam(w) \/ WorkerUnregister(w)
               \/ WorkerElevate(w) \/ WorkerMarker(w) \/ WorkerPurge(w) \/ WorkerFree(w)
        PROVE  UNCHANGED <<fresh, id, cmd, cmdq, dsp>>
    BY <2>4 DEF WorkerWait, WorkerRecv, WorkerReject, WorkerData, WorkerSetParam, WorkerUnregister,
                WorkerElevate, WorkerMarker, WorkerPurge, WorkerFree, compVars, appVars
  <2> QED BY <1>3, <2>1, <2>2, <2>3, <2>4 DEF WorkerSteps
<1> QED BY <1>1, <1>2, <1>3

\* A command the application issues was its own, and what the others say stays.
LEMMA IssueSays ==
    ASSUME BaseInv, NEW m \in Msgs, NEW op, NEW k, NEW a, Issue(m, op, k, a)
    PROVE  /\ m \in owned /\ owned' = owned \ {m}
           /\ cmd'[m] = [op |-> op, for |-> k, arg |-> a]
           /\ \A n \in Msgs \ owned : n # m /\ cmd'[n] = cmd[n]
BY DEF Issue, BaseInv, TypeOK

\* The DSP thread.
LEMMA DspStep ==
    ASSUME BaseInv, [Next]_vars
    PROVE  DspInv'
<1> USE Numbers
<1>1. /\ dsp \in [pc : Places, msg : Msgs \cup {None}, to : Components \cup {None},
                  at : Ids \cup Workers \cup {None}]
      /\ DspInv /\ (dsp.pc # "idle" => dsp.msg \in Msgs \ owned)
  BY Apart DEF BaseInv, TypeOK, ShapeInv, DspInv
<1>2. ASSUME AppSteps PROVE DspInv'
  <2>1. ASSUME NEW m \in Msgs, NEW op, NEW k, NEW a, Issue(m, op, k, a)
        PROVE  dsp.pc # "idle" => cmd'[dsp.msg] = cmd[dsp.msg]
    BY <1>1, <2>1, IssueSays
  <2>2. dsp.pc # "idle" => cmd'[dsp.msg] = cmd[dsp.msg]
    BY <1>2, <2>1 DEF AppSteps, HostRegister, HostData, HostUnregister, HostSetParam
  <2>3. dsp' = dsp
    BY <1>2, Leaves
  <2> QED BY <1>1, <2>2, <2>3 DEF DspInv
<1>3. ASSUME DspSteps PROVE DspInv'
  <2>1. cmd' = cmd
    BY <1>3, Leaves
  <2>2. cmdq # <<>> => Head(cmdq) \in Msgs
    BY DEF BaseInv, TypeOK
  <2>3. CASE DspRegister
    <3>1. free \in Ids \cup {End}
      BY DEF BaseInv, TypeOK
    <3> QED BY <1>1, <2>1, <2>2, <2>3, <3>1 DEF DspRegister, DspInv
  <2>4. CASE DspAlloc
    BY <1>1, <2>1, <2>4 DEF DspAlloc, DspInv
  <2>5. CASE DspCreateFails \/ DspSend \/ \E k \in Components : DspCreate(k)
    <3>1. dsp' = Idle
      BY <2>5 DEF DspCreateFails, DspSend, DspCreate
    <3> QED BY <3>1 DEF DspInv, Idle
  <2>6. CASE DspLookup
    <3>1. \A k : k = Lookup(Client(Head(cmdq))) /\ k # None => k \in Components
      BY DEF Lookup
    <3> QED BY <1>1, <2>1, <2>2, <2>6, <3>1 DEF DspLookup, DspInv
  <2>7. ASSUME NEW w \in Workers, DspRoute(w) PROVE DspInv'
    BY <1>1, <2>1, <2>7 DEF DspRoute, DspInv
  <2> QED BY <1>3, <2>3, <2>4, <2>5, <2>6, <2>7 DEF DspSteps
<1>4. CASE WorkerSteps
  BY <1>1, <1>4, Leaves DEF DspInv
<1>5. CASE UNCHANGED vars
  BY <1>1, <1>5 DEF vars, appVars, DspInv
<1> QED BY <1>2, <1>3, <1>4, <1>5, NextIsSteps

\* The workers.
LEMMA WorkerStep ==
    ASSUME BaseInv, [Next]_vars
    PROVE  WorkerInv'
<1> USE Numbers
<1> DEFINE Rec == [pc : WorkerPlaces, msg : Msgs \cup {None}, to : Components \cup {None}, at : Workers \cup {None}]
           Good(r) == /\ r.pc \in {"lookup", "entry"} <=> r.msg # None
                      /\ r.pc \in {"task", "lookup", "entry", "cleanup", "marker", "purge", "free"}
                            => r.to \in Components
                      /\ r.pc \in {"entry", "cleanup", "marker", "purge", "free"} => r.at \in Workers
<1>1. wk \in [Workers -> Rec] /\ \A w \in Workers : Good(wk[w])
  BY DEF BaseInv, TypeOK, ShapeInv, WorkerInv, Cleans
<1>2. SUFFICES \A w \in Workers : Good(wk'[w])
  BY DEF WorkerInv, Cleans
<1>3. CASE AppSteps \/ DspSteps \/ UNCHANGED vars
  <2>1. wk' = wk
    BY <1>3, Leaves DEF vars
  <2> QED BY <1>1, <2>1
<1>4. ASSUME NEW w \in Workers, NEW r, Good(r), wk' = [wk EXCEPT ![w] = r] PROVE \A v \in Workers : Good(wk'[v])
  BY <1>1, <1>4
<1>5. Good(Idle) /\ wk = [wk EXCEPT ![0] = wk[0]]
  BY <1>1 DEF Idle
<1>6. ASSUME NEW w \in Workers,
             \/ WorkerReject(w) \/ WorkerData(w) \/ WorkerSetParam(w) \/ WorkerFree(w)
             \/ \E done \in SUBSET Msgs : WorkerProcess(w, done)
      PROVE  \A v \in Workers : Good(wk'[v])
  <2>1. wk' = [wk EXCEPT ![w] = Idle]
    BY <1>6 DEF WorkerReject, WorkerData, WorkerSetParam, WorkerFree, WorkerProcess
  <2> HIDE DEF Good
  <2> QED BY <1>4, <1>5, <2>1
<1>7. ASSUME NEW w \in Workers, NEW k \in Components, WorkerTask(w, k) PROVE \A v \in Workers : Good(wk'[v])
  BY <1>1, <1>7 DEF WorkerTask
<1>8. ASSUME NEW w \in Workers, NEW p \in Workers, WorkerLookup(w, p) PROVE \A v \in Workers : Good(wk'[v])
  BY <1>1, <1>8 DEF WorkerLookup
<1>9. ASSUME NEW w \in Workers, WorkerWait(w) \/ WorkerElevate(w) \/ WorkerMarker(w)
      PROVE  \A v \in Workers : Good(wk'[v])
  <2>1. \/ wk[w].pc = "idle" /\ wk' = [wk EXCEPT ![w].pc = "wait"]
        \/ wk[w].pc = "cleanup" /\ wk' = [wk EXCEPT ![w].pc = "marker"]
        \/ wk[w].pc = "marker" /\ wk' = [wk EXCEPT ![w].pc = "purge"]
    BY <1>9 DEF WorkerWait, WorkerElevate, WorkerMarker
  <2> QED BY <1>1, <2>1
<1>10. ASSUME NEW w \in Workers, WorkerUnregister(w) PROVE \A v \in Workers : Good(wk'[v])
  <2>1. wk[w].pc = "entry" /\ wk' = [wk EXCEPT ![w].pc = "cleanup", ![w].msg = None]
    BY <1>10 DEF WorkerUnregister, Enter
  <2> QED BY <1>1, <2>1
<1>11. ASSUME NEW w \in Workers, WorkerPurge(w) PROVE \A v \in Workers : Good(wk'[v])
  <2>1. wk[w].pc = "purge" /\ (wk' = wk \/ wk' = [wk EXCEPT ![w].pc = "free"])
    BY <1>11 DEF WorkerPurge
  <2> QED BY <1>1, <2>1
<1>12. ASSUME NEW w \in Workers, WorkerRecv(w) PROVE \A v \in Workers : Good(wk'[v])
  <2> DEFINE it == Head(queue[w])
  <2>1. it = Marker \/ (it.to \in Components /\ it.msg \in Msgs)
    <3>1. queue[w] \in Seq(Item0) /\ queue[w] # <<>>
      BY <1>12 DEF WorkerRecv, BaseInv, TypeOK, Item0
    <3>2. 1 \in DOMAIN queue[w] /\ it = queue[w][1]
      BY <3>1, TailNamed
    <3> QED BY <3>2 DEF BaseInv, ShapeInv, QueueInv
  <2>2. wk' = [wk EXCEPT ![w] = IF it = Marker THEN [Idle EXCEPT !.pc = "exit"]
                                ELSE [pc |-> "lookup", msg |-> it.msg, to |-> it.to, at |-> None]]
    BY <1>12 DEF WorkerRecv
  <2> HIDE DEF it
  <2> QED BY <1>1, <2>1, <2>2 DEF Idle
<1> QED
  BY NextIsSteps, <1>3, <1>6, <1>7, <1>8, <1>9, <1>10, <1>11, <1>12 DEF WorkerSteps

\* A worker marks and purges its own queue, which has its marker and so never makes it wait.
LEMMA MarksOwn ==
    ASSUME BaseInv, NEW w \in Workers, WorkerMarker(w)
    PROVE  /\ wk[w].at = w /\ wk[w].pc = "marker" /\ None \notin Named(queue[w])
           /\ queue' = [queue EXCEPT ![w] = Append(@, Marker)] /\ wk' = [wk EXCEPT ![w].pc = "purge"]
<1>1. wk[w].at = w /\ wk[w].pc = "marker" /\ None \notin Named(queue[w])
  BY DEF WorkerMarker, Cleans, BaseInv, ThreadInv, CompInv, MarkerInv
<1> QED BY <1>1 DEF WorkerMarker
\* (the turning of the queue, and what becomes of its marker)
LEMMA PurgesOwn ==
    ASSUME BaseInv, NEW w \in Workers, WorkerPurge(w)
    PROVE  /\ wk[w].at = w /\ wk[w].pc = "purge" /\ None \in Named(queue[w])
           /\ queue[w] \in Seq(Item0) /\ queue[w] # <<>>
           /\ wk' = IF Head(queue[w]) = Marker THEN [wk EXCEPT ![w].pc = "free"] ELSE wk
           /\ queue' = [queue EXCEPT ![w] = IF Head(queue[w]) = Marker \/ OfClient(w, Head(queue[w])) THEN Tail(@)
                                            ELSE Append(Tail(@), Head(@))]
<1>1. None \in Named(queue[w]) /\ wk[w].at = w /\ wk[w].pc = "purge"
  BY DEF WorkerPurge, Cleans, BaseInv, ThreadInv, CompInv, MarkerInv
<1>2. queue[w] # <<>> /\ queue[w] \in Seq(Item0)
  <2>1. ASSUME queue[w] = <<>> PROVE FALSE
    <3>1. Named(<<>>) = {}
      BY DEF Named
    <3> QED BY <1>1, <2>1, <3>1
  <2> QED BY <2>1 DEF BaseInv, TypeOK, Item0
<1>3. Head(queue[w]) \in Item0 /\ Tail(queue[w]) \in Seq(Item0)
  BY <1>2, TailNamed
<1>4. /\ queue' = [queue EXCEPT ![w] = Tail(queue[w]) \o PutBack(w, Head(queue[w]))]
      /\ wk' = IF Head(queue[w]) = Marker THEN [wk EXCEPT ![w].pc = "free"] ELSE wk
  BY <1>1, <1>2 DEF WorkerPurge
<1>5. Tail(queue[w]) \o PutBack(w, Head(queue[w]))
        = IF Head(queue[w]) = Marker \/ OfClient(w, Head(queue[w])) THEN Tail(queue[w])
          ELSE Append(Tail(queue[w]), Head(queue[w]))
  <2>1. \A q \in Seq(Item0) : \A e \in Item0 : q \o <<>> = q /\ q \o <<e>> = Append(q, e)
    OBVIOUS
  <2> QED BY <1>3, <2>1 DEF PutBack
<1> QED BY <1>1, <1>2, <1>4, <1>5

\* What is in a queue was there before, or is a marker, or was sent by the DSP thread.
LEMMA QueueItems ==
    ASSUME BaseInv, [Next]_vars, NEW v \in Workers, NEW j \in DOMAIN queue'[v]
    PROVE  \/ \E i \in DOMAIN queue[v] : queue'[v][j] = queue[v][i]
           \/ queue'[v][j] = Marker
           \/ DspSend /\ dsp.at = v /\ queue'[v][j] = Item(dsp.to, dsp.msg)
<1>1. queue \in [Workers -> Seq(Item0)] /\ queue[v] \in Seq(Item0)
  BY DEF BaseInv, TypeOK, Item0
<1>2. CASE queue'[v] = queue[v]
  BY <1>2
<1>3. ASSUME DspSend PROVE queue'[v] = queue[v] \/ (dsp.at = v /\ queue'[v][j] = Item(dsp.to, dsp.msg))
                           \/ \E i \in DOMAIN queue[v] : queue'[v][j] = queue[v][i]
  <2>1. queue' = [queue EXCEPT ![dsp.at] = Append(@, Item(dsp.to, dsp.msg))]
    BY <1>3 DEF DspSend
  <2>2. Item(dsp.to, dsp.msg) \in Item0
    BY DEF BaseInv, TypeOK, Item, Item0
  <2>3. CASE dsp.at = v
    <3>1. queue'[v] = Append(queue[v], Item(dsp.to, dsp.msg))
      BY <1>1, <2>1, <2>3
    <3> QED BY <1>1, <2>2, <2>3, <3>1, AppendNamed
  <2> QED BY <1>1, <2>1, <2>3
<1>4. ASSUME NEW w \in Workers, WorkerRecv(w)
      PROVE  queue'[v] = queue[v] \/ \E i \in DOMAIN queue[v] : queue'[v][j] = queue[v][i]
  <2>1. queue' = [queue EXCEPT ![w] = Tail(@)] /\ queue[w] # <<>>
    BY <1>4 DEF WorkerRecv
  <2>2. CASE v = w
    <3>1. queue'[v] = Tail(queue[v]) /\ queue[v] # <<>>
      BY <1>1, <2>1, <2>2
    <3> QED BY <1>1, <3>1, TailNamed
  <2> QED BY <1>1, <2>1, <2>2
<1>5. ASSUME NEW w \in Workers, WorkerMarker(w)
      PROVE  \/ queue'[v] = queue[v] \/ queue'[v][j] = Marker
             \/ \E i \in DOMAIN queue[v] : queue'[v][j] = queue[v][i]
  <2>1. queue' = [queue EXCEPT ![w] = Append(@, Marker)]
    BY <1>5, MarksOwn
  <2>2. CASE v = w
    <3>1. queue'[v] = Append(queue[v], Marker) /\ Marker \in Item0
      BY <1>1, <2>1, <2>2 DEF Marker, Item, Item0
    <3> QED BY <1>1, <3>1, AppendNamed
  <2> QED BY <1>1, <2>1, <2>2
<1>6. ASSUME NEW w \in Workers, WorkerPurge(w)
      PROVE  queue'[v] = queue[v] \/ \E i \in DOMAIN queue[v] : queue'[v][j] = queue[v][i]
  <2>1. /\ queue' = [queue EXCEPT ![w] = IF Head(queue[w]) = Marker \/ OfClient(w, Head(queue[w])) THEN Tail(@)
                                         ELSE Append(Tail(@), Head(@))]
        /\ queue[w] # <<>>
    BY <1>6, PurgesOwn
  <2>2. CASE v = w
    <3>1. /\ queue'[v] = Tail(queue[v]) \/ queue'[v] = Append(Tail(queue[v]), Head(queue[v]))
          /\ queue[v] # <<>>
      BY <1>1, <2>1, <2>2
    <3>2. /\ Head(queue[v]) \in Item0 /\ Tail(queue[v]) \in Seq(Item0)
          /\ 1 \in DOMAIN queue[v] /\ Head(queue[v]) = queue[v][1]
          /\ \A n \in DOMAIN Tail(queue[v]) : \E i \in DOMAIN queue[v] : Tail(queue[v])[n] = queue[v][i]
      BY <1>1, <3>1, TailNamed
    <3> DEFINE q == Tail(queue[v])
               it == Head(queue[v])
    <3>3. CASE queue'[v] = Append(q, it)
      <4>1. Append(q, it)[j] = it \/ \E n \in DOMAIN q : Append(q, it)[j] = q[n]
        BY <3>2, <3>3, AppendNamed
      <4> QED BY <3>2, <3>3, <4>1
    <3> QED BY <3>1, <3>2, <3>3
  <2> QED BY <1>1, <2>1, <2>2
<1>7. AppSteps \/ UNCHANGED vars => queue' = queue
  BY Leaves DEF vars
<1>8. ASSUME DspSteps PROVE DspSend \/ queue' = queue
  BY <1>8 DEF DspSteps, DspRegister, DspAlloc, DspCreateFails, DspLookup, DspCreate, DspRoute
<1>9. ASSUME NEW w \in Workers,
             \/ WorkerWait(w) \/ WorkerReject(w) \/ WorkerData(w) \/ WorkerSetParam(w) \/ WorkerUnregister(w)
             \/ WorkerElevate(w) \/ WorkerFree(w)
             \/ \E k \in Components : WorkerTask(w, k)
             \/ \E done \in SUBSET Msgs : WorkerProcess(w, done)
             \/ \E p \in Workers : WorkerLookup(w, p)
      PROVE  queue' = queue
  BY <1>9 DEF WorkerWait, WorkerReject, WorkerData, WorkerSetParam, WorkerUnregister, WorkerElevate, WorkerFree,
              WorkerTask, WorkerProcess, WorkerLookup
<1> QED
  BY NextIsSteps, <1>2, <1>3, <1>4, <1>5, <1>6, <1>7, <1>8, <1>9 DEF WorkerSteps

\* The queues.
LEMMA QueueStep ==
    ASSUME BaseInv, [Next]_vars
    PROVE  QueueInv'
<1> SUFFICES ASSUME NEW v \in Workers, NEW j \in DOMAIN queue'[v]
             PROVE  queue'[v][j] = Marker \/ (queue'[v][j].to \in Components /\ queue'[v][j].msg \in Msgs)
  BY DEF QueueInv
<1>1. CASE \E i \in DOMAIN queue[v] : queue'[v][j] = queue[v][i]
  BY <1>1 DEF BaseInv, ShapeInv, QueueInv
<1>2. CASE DspSend /\ queue'[v][j] = Item(dsp.to, dsp.msg)
  <2>1. dsp.to \in Components /\ dsp.msg \in Msgs
    BY <1>2 DEF DspSend, BaseInv, ShapeInv, DspInv, TypeOK
  <2> QED BY <1>2, <2>1 DEF Item
<1> QED BY <1>1, <1>2, QueueItems

\* The commands that are outstanding.
LEMMA CmdStep ==
    ASSUME BaseInv, [Next]_vars
    PROVE  CmdInv'
<1>1. CmdInv /\ open \subseteq Components \ fresh
  BY DEF BaseInv, ShapeInv, ThreadInv, CompInv, TypeOK
<1>2. ASSUME cmd' = cmd, fresh' \subseteq fresh, owned \subseteq owned' PROVE CmdInv'
  BY <1>1, <1>2 DEF CmdInv
<1>3. ASSUME AppSteps PROVE CmdInv'
  <2>1. ASSUME NEW m \in Msgs, NEW op, NEW k, NEW a, Issue(m, op, k, a),
               op = "data" \/ LockFree, op = "register" \/ k \in Components \ fresh
        PROVE  CmdInv'
    <3>1. /\ m \in owned /\ owned' = owned \ {m} /\ fresh' = fresh
          /\ cmd'[m].op = op /\ cmd'[m].for = k
          /\ \A n \in Msgs \ owned : n # m /\ cmd'[n] = cmd[n]
      <4>1. fresh' = fresh
        BY <1>3, Leaves
      <4>2. /\ m \in owned /\ owned' = owned \ {m} /\ cmd'[m] = [op |-> op, for |-> k, arg |-> a]
            /\ \A n \in Msgs \ owned : n # m /\ cmd'[n] = cmd[n]
        BY <2>1, IssueSays
      <4> QED BY <4>1, <4>2
    <3>2. Msgs \ owned' = (Msgs \ owned) \cup {m}
      BY <3>1
    <3> QED BY <1>1, <2>1, <3>1, <3>2 DEF CmdInv, LockFree
  <2>2. ASSUME NEW m \in Msgs, NEW k \in Components, HostData(m, k) PROVE CmdInv'
    <3>1. k \in Components \ fresh
      BY <1>1, <2>2 DEF HostData
    <3> QED BY <2>1, <2>2, <3>1 DEF HostData
  <2>3. ASSUME NEW m \in Msgs, NEW k \in Components,
               HostUnregister(m, k) \/ \E p \in (Workers \ {0}) \cup {None} : HostSetParam(m, k, p)
        PROVE  CmdInv'
    <3>1. k \in Components \ fresh
      BY <1>1, <2>3 DEF HostUnregister, HostSetParam
    <3> QED BY <2>1, <2>3, <3>1 DEF HostUnregister, HostSetParam
  <2>4. ASSUME NEW m \in Msgs, HostRegister(m) PROVE CmdInv'
    BY <2>1, <2>4 DEF HostRegister
  <2> QED BY <1>3, <2>2, <2>3, <2>4 DEF AppSteps
<1>4. ASSUME DspSteps PROVE CmdInv'
  <2>1. cmd' = cmd
    BY <1>4, Leaves
  <2>2. fresh' \subseteq fresh /\ owned \subseteq owned'
    BY <1>4 DEF DspSteps, DspRegister, DspAlloc, DspCreateFails, DspLookup, DspSend, DspCreate, DspRoute,
                appVars, compVars
  <2> QED BY <1>2, <2>1, <2>2
<1>5. ASSUME WorkerSteps PROVE CmdInv'
  <2>1. owned \subseteq owned'
    <3>1. ASSUME NEW w \in Workers, NEW k \in Components, WorkerTask(w, k) PROVE owned \subseteq owned'
      BY <3>1 DEF WorkerTask, appVars
    <3>2. ASSUME NEW w \in Workers, NEW done \in SUBSET Msgs, WorkerProcess(w, done) PROVE owned \subseteq owned'
      BY <3>2 DEF WorkerProcess
    <3>3. ASSUME NEW w \in Workers, NEW p \in Workers, WorkerLookup(w, p) PROVE owned \subseteq owned'
      BY <3>3 DEF WorkerLookup, appVars
    <3>4. ASSUME NEW w \in Workers,
                 \/ WorkerWait(w) \/ WorkerRecv(w) \/ WorkerReject(w)
                 \/ WorkerData(w) \/ WorkerSetParam(w) \/ WorkerUnregister(w)
                 \/ WorkerElevate(w) \/ WorkerMarker(w) \/ WorkerPurge(w) \/ WorkerFree(w)
          PROVE  owned \subseteq owned'
      BY <3>4 DEF WorkerWait, WorkerRecv, WorkerReject, WorkerData, WorkerSetParam, WorkerUnregister,
                  WorkerElevate, WorkerMarker, WorkerPurge, WorkerFree, appVars
    <3> QED BY <1>5, <3>1, <3>2, <3>3, <3>4 DEF WorkerSteps
  <2> QED BY <1>2, <1>5, <2>1, Leaves
<1>6. CASE UNCHANGED vars
  BY <1>2, <1>6 DEF vars, appVars, compVars
<1> QED BY <1>3, <1>4, <1>5, <1>6, NextIsSteps

-----------------------------------------------------------------------------
(* What the threads exclude.                                               *)

\* A component is alive, or deleted by one worker, the one whose queue is purged.
LEMMA CompStep ==
    ASSUME BaseInv, [Next]_vars
    PROVE  CompInv'
<1> USE Numbers
<1>1. /\ wk \in [Workers -> [pc : WorkerPlaces, msg : Msgs \cup {None},
                             to : Components \cup {None}, at : Workers \cup {None}]]
      /\ cmap \in [Ids -> Ids \cup {End} \cup Components] /\ id \in [Components -> Ids \cup {End}]
      /\ free \in Ids \cup {End} /\ alive \subseteq Components
      /\ CompInv
  BY DEF BaseInv, TypeOK, ThreadInv
<1>2. ASSUME UNCHANGED <<open, alive, fresh, id, cmap>>,
             \A w \in Workers : Cleans(w)' => Cleans(w) /\ wk'[w].to = wk[w].to /\ wk'[w].at = wk[w].at
      PROVE  CompInv'
  BY <1>1, <1>2 DEF CompInv
<1>3. CASE AppSteps \/ UNCHANGED vars
  <2>1. UNCHANGED <<open, alive, fresh, id, cmap, wk>>
    BY <1>3, Leaves DEF vars, mapVars, compVars, appVars
  <2> QED BY <1>2, <2>1 DEF Cleans
<1>4. ASSUME DspRegister \/ DspAlloc \/ DspLookup \/ DspSend \/ \E w \in Workers : DspRoute(w) PROVE CompInv'
  <2>1. UNCHANGED <<open, alive, fresh, id, cmap, wk>>
    BY <1>4 DEF DspRegister, DspAlloc, DspLookup, DspSend, DspRoute, mapVars, compVars, appVars
  <2> QED BY <1>2, <2>1 DEF Cleans
<1>5. ASSUME DspCreateFails \/ \E k \in Components : DspCreate(k)
      PROVE  dsp.at \in Ids /\ cmap[dsp.at] \notin Components
  BY <1>5 DEF DspCreateFails, DspCreate, BaseInv, ShapeInv, DspInv, ListInv
<1>6. ASSUME DspCreateFails PROVE CompInv'
  <2>1. UNCHANGED <<open, alive, fresh, id, wk>> /\ cmap' = [cmap EXCEPT ![dsp.at] = free]
    BY <1>6 DEF DspCreateFails, Recycled, compVars
  <2>2. dsp.at \in Ids /\ cmap[dsp.at] \notin Components
    BY <1>5, <1>6
  <2>3. \A i \in Ids : cmap[i] \in Components => cmap'[i] = cmap[i]
    BY <1>1, <2>1, <2>2
  <2>4. \A w \in Workers : Cleans(w)' <=> Cleans(w)
    BY <2>1 DEF Cleans
  <2>5. \A w \in Workers : Cleans(w) => wk[w].to \in Components
    BY DEF BaseInv, ShapeInv, WorkerInv
  <2> QED BY <1>1, <2>1, <2>3, <2>4, <2>5 DEF CompInv
<1>7. ASSUME NEW k \in Components, DspCreate(k) PROVE CompInv'
  <2>1. /\ k \in fresh /\ fresh' = fresh \ {k} /\ alive' = alive \cup {k} /\ open' = open \cup {k}
        /\ cmap' = [cmap EXCEPT ![dsp.at] = k] /\ id' = [id EXCEPT ![k] = dsp.at] /\ wk' = wk
    BY <1>7 DEF DspCreate
  <2>2. dsp.at \in Ids /\ cmap[dsp.at] \notin Components
    BY <1>5, <1>7
  <2>3. /\ \A i \in Ids : cmap[i] \in Components => cmap'[i] = cmap[i]
        /\ \A c \in Components \ {k} : id'[c] = id[c]
        /\ id'[k] = dsp.at /\ cmap'[dsp.at] = k
    BY <1>1, <2>1, <2>2
  <2>4. \A w \in Workers : Cleans(w)' <=> Cleans(w)
    BY <2>1 DEF Cleans
  <2>5. \A w \in Workers : Cleans(w) => wk[w].to \in Components
    BY DEF BaseInv, ShapeInv, WorkerInv
  <2>6. open' = alive' /\ alive' \cap fresh' = {}
    BY <1>1, <2>1 DEF CompInv
  <2>7. \A c \in alive' : id'[c] \in Ids /\ cmap'[id'[c]] = c
    BY <1>1, <2>1, <2>2, <2>3 DEF CompInv
  <2>8. \A w \in Workers : Cleans(w) =>
           /\ wk[w].to \notin alive' \cup fresh'
           /\ id'[wk[w].to] \in Ids /\ cmap'[id'[wk[w].to]] = wk[w].to
           /\ wk[w].at = w
    BY <1>1, <2>1, <2>3, <2>5 DEF CompInv
  <2> QED BY <1>1, <2>1, <2>4, <2>6, <2>7, <2>8 DEF CompInv
<1>8. ASSUME NEW w \in Workers,
             \/ WorkerWait(w) \/ WorkerRecv(w) \/ WorkerReject(w) \/ WorkerData(w) \/ WorkerSetParam(w)
             \/ WorkerElevate(w) \/ WorkerMarker(w) \/ WorkerPurge(w)
             \/ \E k \in Components : WorkerTask(w, k)
             \/ \E done \in SUBSET Msgs : WorkerProcess(w, done)
             \/ \E p \in Workers : WorkerLookup(w, p)
      PROVE  CompInv'
  <2>1. UNCHANGED <<open, alive, fresh, id, cmap>>
    BY <1>8 DEF WorkerWait, WorkerRecv, WorkerReject, WorkerData, WorkerSetParam, WorkerElevate, WorkerMarker,
                WorkerPurge, WorkerTask, WorkerProcess, WorkerLookup, mapVars, compVars, appVars
  <2>2. /\ \A v \in Workers \ {w} : wk'[v] = wk[v]
        /\ Cleans(w)' => Cleans(w) /\ wk'[w].to = wk[w].to /\ wk'[w].at = wk[w].at
    <3>1. CASE WorkerWait(w) \/ WorkerRecv(w)
      BY <1>1, <3>1 DEF WorkerWait, WorkerRecv, Idle, Cleans
    <3>2. CASE \/ WorkerReject(w) \/ WorkerData(w) \/ WorkerSetParam(w)
               \/ \E done \in SUBSET Msgs : WorkerProcess(w, done)
      <4>1. wk' = [wk EXCEPT ![w] = Idle]
        BY <3>2 DEF WorkerReject, WorkerData, WorkerSetParam, WorkerProcess
      <4> QED BY <1>1, <4>1 DEF Idle, Cleans
    <3>3. CASE WorkerElevate(w) \/ WorkerMarker(w) \/ WorkerPurge(w)
      <4>1. /\ Cleans(w)
            /\ \/ wk' = wk \/ wk' = [wk EXCEPT ![w].pc = "marker"]
               \/ wk' = [wk EXCEPT ![w].pc = "purge"] \/ wk' = [wk EXCEPT ![w].pc = "free"]
        BY <3>3 DEF WorkerElevate, WorkerMarker, WorkerPurge, Cleans
      <4> QED BY <1>1, <4>1
    <3>4. ASSUME NEW k \in Components, WorkerTask(w, k)
          PROVE  ~Cleans(w)' /\ \A v \in Workers \ {w} : wk'[v] = wk[v]
      BY <1>1, <3>4 DEF WorkerTask, Cleans
    <3>5. ASSUME NEW p \in Workers, WorkerLookup(w, p)
          PROVE  ~Cleans(w)' /\ \A v \in Workers \ {w} : wk'[v] = wk[v]
      BY <1>1, <3>5 DEF WorkerLookup, Cleans
    <3> QED BY <1>8, <3>1, <3>2, <3>3, <3>4, <3>5
  <2>3. ASSUME NEW v \in Workers, Cleans(v)' PROVE Cleans(v) /\ wk'[v].to = wk[v].to /\ wk'[v].at = wk[v].at
    BY <1>1, <2>2, <2>3 DEF Cleans
  <2> QED BY <1>2, <2>1, <2>3
<1>9. ASSUME NEW w \in Workers, WorkerUnregister(w) PROVE CompInv'
  <2>1. /\ wk[w].to \in alive /\ wk[w].at = w
        /\ alive' = alive \ {wk[w].to} /\ open' = open \ {wk[w].to}
        /\ wk' = [wk EXCEPT ![w].pc = "cleanup", ![w].msg = None]
        /\ UNCHANGED <<fresh, id, cmap>>
    <3>1. wk[w].pc = "entry" /\ wk[w].msg \in Msgs \ owned /\ cmd[wk[w].msg].op = "unregister"
      BY <1>1, <1>9, Apart DEF WorkerUnregister, Enter, BaseInv, ShapeInv, WorkerInv
    <3>2. wk[w].to \in alive /\ wk[w].at = w
      BY <3>1 DEF BaseInv, ThreadInv, ExitInv
    <3> QED BY <1>9, <3>2 DEF WorkerUnregister, mapVars
  <2>2. \A v \in Workers : /\ Cleans(v)' <=> Cleans(v) \/ v = w
                           /\ wk'[v].to = wk[v].to /\ wk'[v].at = wk[v].at
    BY <1>1, <2>1 DEF Cleans
  <2>3. open' = alive' /\ alive' \cap fresh' = {} /\ \A k \in alive' : id'[k] \in Ids /\ cmap'[id'[k]] = k
    BY <1>1, <2>1 DEF CompInv
  <2>4. ASSUME NEW v \in Workers, Cleans(v)'
        PROVE  /\ wk'[v].to \notin alive' \cup fresh'
               /\ id'[wk'[v].to] \in Ids /\ cmap'[id'[wk'[v].to]] = wk'[v].to
               /\ wk'[v].at = v
    BY <1>1, <2>1, <2>2, <2>4 DEF CompInv
  <2>5. ASSUME NEW u \in Workers, NEW v \in Workers, Cleans(u)', Cleans(v)', wk'[u].to = wk'[v].to PROVE u = v
    BY <1>1, <2>1, <2>2, <2>5 DEF CompInv
  <2> QED BY <2>3, <2>4, <2>5 DEF CompInv
<1>10. ASSUME NEW w \in Workers, WorkerFree(w) PROVE CompInv'
  <2>1. /\ cmap' = [cmap EXCEPT ![id[wk[w].to]] = free] /\ wk' = [wk EXCEPT ![w] = Idle] /\ Cleans(w)
        /\ UNCHANGED <<open, alive, fresh, id>>
    BY <1>10 DEF WorkerFree, Recycled, Cleans, compVars, appVars
  <2>2. \A v \in Workers : Cleans(v)' => Cleans(v) /\ v # w /\ wk'[v] = wk[v]
    BY <1>1, <2>1 DEF Cleans, Idle
  <2>3. /\ wk[w].to \in Components /\ wk[w].to \notin alive
        /\ \A v \in Workers : Cleans(v) => wk[v].to \in Components /\ (v # w => wk[v].to # wk[w].to)
    BY <1>1, <2>1 DEF BaseInv, ShapeInv, WorkerInv, CompInv
  <2>4. \A i \in Ids : cmap[i] # wk[w].to => cmap'[i] = cmap[i]
    BY <1>1, <2>1 DEF CompInv
  <2>5. \A k \in alive' : id'[k] \in Ids /\ cmap'[id'[k]] = k
    BY <1>1, <2>1, <2>3, <2>4 DEF CompInv
  <2>6. ASSUME NEW v \in Workers, Cleans(v)'
        PROVE  /\ wk'[v].to \notin alive' \cup fresh'
               /\ id'[wk'[v].to] \in Ids /\ cmap'[id'[wk'[v].to]] = wk'[v].to
               /\ wk'[v].at = v
    BY <1>1, <2>1, <2>2, <2>3, <2>4, <2>6 DEF CompInv
  <2>7. open' = alive' /\ alive' \cap fresh' = {}
    BY <1>1, <2>1 DEF CompInv
  <2>8. ASSUME NEW u \in Workers, NEW v \in Workers, Cleans(u)', Cleans(v)', wk'[u].to = wk'[v].to PROVE u = v
    BY <1>1, <2>2, <2>8 DEF CompInv
  <2> QED BY <2>5, <2>6, <2>7, <2>8 DEF CompInv
<1> QED
  BY NextIsSteps, <1>3, <1>4, <1>6, <1>7, <1>8, <1>9, <1>10 DEF DspSteps, WorkerSteps

\* A marker is put into a queue and taken from it by the worker that purges it.
LEMMA MarkerStep ==
    ASSUME BaseInv, [Next]_vars
    PROVE  MarkerInv'
<1> USE Numbers
<1>1. /\ wk \in [Workers -> [pc : WorkerPlaces, msg : Msgs \cup {None},
                             to : Components \cup {None}, at : Workers \cup {None}]]
      /\ queue \in [Workers -> Seq(Item0)] /\ MarkerInv
  BY DEF BaseInv, TypeOK, Item0, ThreadInv
<1>2. CASE AppSteps \/ UNCHANGED vars
  <2>1. UNCHANGED <<queue, wk>>
    BY <1>2, Leaves DEF vars
  <2> QED BY <1>1, <2>1 DEF MarkerInv
<1>3. ASSUME DspSteps PROVE MarkerInv'
  <2>1. wk' = wk
    BY <1>3, Leaves
  <2>2. CASE DspSend
    <3>1. Item(dsp.to, dsp.msg) \in Item0 /\ Item(dsp.to, dsp.msg).msg # None /\ dsp.at \in Workers
      BY <2>2 DEF DspSend, BaseInv, TypeOK, ShapeInv, DspInv, Item, Item0
    <3>2. queue' = [queue EXCEPT ![dsp.at] = Append(@, Item(dsp.to, dsp.msg))]
      BY <2>2 DEF DspSend
    <3>3. ASSUME NEW v \in Workers PROVE None \in Named(queue'[v]) <=> None \in Named(queue[v])
      <4>1. CASE v = dsp.at
        <5>1. queue'[v] = Append(queue[v], Item(dsp.to, dsp.msg)) /\ queue[v] \in Seq(Item0)
          BY <1>1, <3>2, <4>1
        <5>2. Named(queue'[v]) = Named(queue[v]) \cup {Item(dsp.to, dsp.msg).msg}
          BY <3>1, <5>1, AppendNamed
        <5> QED BY <3>1, <5>2
      <4>2. CASE v # dsp.at
        BY <1>1, <3>2, <4>2
      <4> QED BY <4>1, <4>2
    <3> QED BY <1>1, <2>1, <3>3 DEF MarkerInv
  <2>3. CASE ~DspSend
    <3>1. queue' = queue
      BY <1>3, <2>3 DEF DspSteps, DspRegister, DspAlloc, DspCreateFails, DspLookup, DspCreate, DspRoute
    <3> QED BY <1>1, <2>1, <3>1 DEF MarkerInv
  <2> QED BY <2>2, <2>3
<1>4. ASSUME NEW w \in Workers, WorkerRecv(w) PROVE MarkerInv'
  <2>1. /\ queue[w] # <<>> /\ queue' = [queue EXCEPT ![w] = Tail(@)]
        /\ wk[w].pc = "wait" /\ wk'[w].pc # "purge" /\ \A v \in Workers \ {w} : wk'[v] = wk[v]
    BY <1>1, <1>4 DEF WorkerRecv, Idle
  <2>2. None \notin Named(queue[w]) /\ queue[w] \in Seq(Item0)
    BY <1>1, <2>1 DEF MarkerInv
  <2>3. None \notin Named(Tail(queue[w]))
    BY <2>1, <2>2, TailNamed
  <2> QED BY <1>1, <2>1, <2>3 DEF MarkerInv
<1>5. ASSUME NEW w \in Workers, WorkerMarker(w) PROVE MarkerInv'
  <2>1. /\ queue' = [queue EXCEPT ![w] = Append(@, Marker)] /\ wk' = [wk EXCEPT ![w].pc = "purge"]
        /\ queue[w] \in Seq(Item0)
    BY <1>1, <1>5, MarksOwn
  <2>2. Marker \in Item0 /\ Marker.msg = None
    BY DEF Marker, Item, Item0
  <2>3. None \in Named(Append(queue[w], Marker))
    BY <2>1, <2>2, AppendNamed
  <2> QED BY <1>1, <2>1, <2>3 DEF MarkerInv
<1>6. ASSUME NEW w \in Workers, WorkerPurge(w) PROVE MarkerInv'
  <2> DEFINE it == Head(queue[w])
             q == Tail(queue[w])
  <2>1. /\ queue[w] \in Seq(Item0) /\ queue[w] # <<>> /\ wk[w].pc = "purge" /\ None \in Named(queue[w])
        /\ wk' = IF it = Marker THEN [wk EXCEPT ![w].pc = "free"] ELSE wk
        /\ queue' = [queue EXCEPT ![w] = IF it = Marker \/ OfClient(w, it) THEN q ELSE Append(q, it)]
    BY <1>6, PurgesOwn
  <2>2. /\ it \in Item0 /\ q \in Seq(Item0) /\ Named(queue[w]) = Named(q) \cup {it.msg} /\ it.msg \notin Named(q)
        /\ it.msg = None <=> it = Marker
    <3>1. \A i, j \in DOMAIN queue[w] : queue[w][i].msg = queue[w][j].msg => i = j
      BY DEF BaseInv, MessagesConserved
    <3>2. /\ it \in Item0 /\ q \in Seq(Item0) /\ Named(queue[w]) = Named(q) \cup {it.msg} /\ it.msg \notin Named(q)
          /\ 1 \in DOMAIN queue[w] /\ it = queue[w][1]
      BY <2>1, <3>1, TailNamed
    <3>3. it = Marker \/ it.msg \in Msgs
      BY <3>2 DEF BaseInv, ShapeInv, QueueInv
    <3> QED BY <3>2, <3>3 DEF Marker, Item
  <2> HIDE DEF it, q
  <2>3. Named(Append(q, it)) = Named(q) \cup {it.msg}
    BY <2>2, AppendNamed
  <2>4. None \in Named(queue'[w]) <=> wk'[w].pc = "purge"
    <3>1. CASE it = Marker
      BY <1>1, <2>1, <2>2, <3>1
    <3>2. CASE it # Marker
      <4>1. wk'[w].pc = "purge" /\ None \in Named(q) /\ (queue'[w] = q \/ queue'[w] = Append(q, it))
        BY <1>1, <2>1, <2>2, <3>2
      <4> QED BY <2>3, <4>1
    <3> QED BY <3>1, <3>2
  <2>5. \A v \in Workers \ {w} : wk'[v] = wk[v] /\ queue'[v] = queue[v]
    BY <1>1, <2>1
  <2> QED BY <1>1, <2>4, <2>5 DEF MarkerInv
<1>7. ASSUME NEW w \in Workers,
             \/ WorkerWait(w) \/ WorkerReject(w) \/ WorkerData(w) \/ WorkerSetParam(w) \/ WorkerUnregister(w)
             \/ WorkerElevate(w) \/ WorkerFree(w)
             \/ \E k \in Components : WorkerTask(w, k)
             \/ \E done \in SUBSET Msgs : WorkerProcess(w, done)
             \/ \E p \in Workers : WorkerLookup(w, p)
      PROVE  MarkerInv'
  <2>1. queue' = queue
    BY <1>7 DEF WorkerWait, WorkerReject, WorkerData, WorkerSetParam, WorkerUnregister, WorkerElevate, WorkerFree,
                WorkerTask, WorkerProcess, WorkerLookup
  <2>2. /\ wk[w].pc # "purge" /\ wk'[w].pc # "purge" /\ \A v \in Workers \ {w} : wk'[v] = wk[v]
    <3>1. CASE WorkerWait(w) \/ WorkerElevate(w) \/ WorkerUnregister(w)
      BY <1>1, <3>1 DEF WorkerWait, WorkerElevate, WorkerUnregister, Enter
    <3>2. CASE WorkerReject(w) \/ WorkerData(w) \/ WorkerSetParam(w) \/ WorkerFree(w)
               \/ \E done \in SUBSET Msgs : WorkerProcess(w, done)
      <4>1. wk' = [wk EXCEPT ![w] = Idle] /\ wk[w].pc # "purge"
        BY <3>2 DEF WorkerReject, WorkerData, WorkerSetParam, WorkerProcess, WorkerFree, Enter
      <4> QED BY <1>1, <4>1 DEF Idle
    <3>3. ASSUME NEW k \in Components, WorkerTask(w, k)
          PROVE  /\ wk[w].pc # "purge" /\ wk'[w].pc # "purge" /\ \A v \in Workers \ {w} : wk'[v] = wk[v]
      BY <1>1, <3>3 DEF WorkerTask
    <3>4. ASSUME NEW p \in Workers, WorkerLookup(w, p)
          PROVE  /\ wk[w].pc # "purge" /\ wk'[w].pc # "purge" /\ \A v \in Workers \ {w} : wk'[v] = wk[v]
      BY <1>1, <3>4 DEF WorkerLookup
    <3> QED BY <1>7, <3>1, <3>2, <3>3, <3>4
  <2> QED BY <1>1, <2>1, <2>2 DEF MarkerInv
<1> QED
  BY NextIsSteps, <1>2, <1>3, <1>4, <1>5, <1>6, <1>7 DEF WorkerSteps

\* No worker steps while the DSP thread is between the two halves of xf_client_alloc: it is
\* ready, and the only worker above it waits for room in a queue that is full.
LEMMA NoneBetween ==
    ASSUME BaseInv, WorkerSteps
    PROVE  dsp.pc # "alloc"
<1> SUFFICES ASSUME dsp.pc = "alloc" PROVE FALSE
  OBVIOUS
<1>1. DspReady
  BY DEF DspReady, DspBlocked
<1>2. PICK w \in Workers :
        \/ \E k \in Components : WorkerTask(w, k)
        \/ \E done \in SUBSET Msgs : WorkerProcess(w, done)
        \/ \E p \in Workers : WorkerLookup(w, p)
        \/ WorkerWait(w) \/ WorkerRecv(w) \/ WorkerReject(w)
        \/ WorkerData(w) \/ WorkerSetParam(w) \/ WorkerUnregister(w)
        \/ WorkerElevate(w) \/ WorkerMarker(w) \/ WorkerPurge(w) \/ WorkerFree(w)
  BY DEF WorkerSteps
<1>3. WorkerMayRun(w) /\ (wk[w].pc # "marker" \/ ~QueueFull(wk[w].at))
  BY <1>2 DEF WorkerTask, WorkerProcess, WorkerLookup, WorkerWait, WorkerRecv, WorkerReject, WorkerData,
              WorkerSetParam, WorkerUnregister, WorkerElevate, WorkerMarker, WorkerPurge, WorkerFree, Enter
<1>4. elevated = w
  BY <1>1, <1>3 DEF WorkerMayRun
<1> QED BY <1>3, <1>4 DEF BaseInv, ThreadInv, AllocInv
\* The head of the free list that the DSP thread read is still the head when it advances it.
LEMMA AllocStep ==
    ASSUME BaseInv, [Next]_vars
    PROVE  AllocInv'
<1>1. CASE AppSteps \/ UNCHANGED vars
  <2>1. UNCHANGED <<free, dsp, elevated, wk, queue>>
    BY <1>1, Leaves DEF vars, mapVars
  <2> QED BY <2>1 DEF BaseInv, ThreadInv, AllocInv, QueueFull
<1>2. ASSUME DspRegister PROVE AllocInv'
  <2>1. UNCHANGED <<free, elevated, wk, queue>> /\ NoneElevated /\ dsp.pc = "idle"
    BY <1>2 DEF DspRegister, DspMayRun, mapVars
  <2>2. dsp'.pc = "alloc" => dsp'.at = free
    BY <1>2, <2>1 DEF DspRegister
  <2>3. ASSUME elevated \in Workers PROVE wk[elevated].pc = "marker" /\ QueueFull(wk[elevated].at)
    <3>1. Blocked(elevated)
      BY <2>1, <2>3 DEF NoneElevated
    <3>2. ASSUME wk[elevated].pc = "purge", queue[wk[elevated].at] = <<>> PROVE FALSE
      <4>1. None \in Named(queue[elevated]) /\ wk[elevated].at = elevated
        BY <2>3, <3>2 DEF BaseInv, ThreadInv, MarkerInv, CompInv, Cleans
      <4>2. Named(<<>>) = {}
        BY DEF Named
      <4> QED BY <3>2, <4>1, <4>2
    <3> QED BY <3>1, <3>2 DEF Blocked
  <2> QED BY <2>1, <2>2, <2>3 DEF AllocInv, QueueFull
<1>3. ASSUME DspAlloc \/ DspCreateFails \/ DspLookup \/ DspSend \/ (\E k \in Components : DspCreate(k))
             \/ \E w \in Workers : DspRoute(w)
      PROVE  AllocInv'
  <2>1. dsp \in [pc : Places, msg : Msgs \cup {None}, to : Components \cup {None},
                 at : Ids \cup Workers \cup {None}]
    BY DEF BaseInv, TypeOK
  <2>2. dsp'.pc # "alloc"
    <3>1. CASE DspAlloc
      BY <2>1, <3>1 DEF DspAlloc
    <3>2. CASE DspLookup
      BY <3>2 DEF DspLookup
    <3>3. CASE DspCreateFails \/ DspSend \/ \E k \in Components : DspCreate(k)
      BY <3>3 DEF DspCreateFails, DspSend, DspCreate, Idle
    <3>4. ASSUME NEW w \in Workers, DspRoute(w) PROVE dsp'.pc # "alloc"
      BY <2>1, <3>4 DEF DspRoute
    <3> QED BY <1>3, <3>1, <3>2, <3>3, <3>4
  <2> QED BY <2>2 DEF AllocInv
<1>4. ASSUME WorkerSteps PROVE AllocInv'
  BY <1>4, Leaves, NoneBetween DEF AllocInv
<1> QED BY <1>1, <1>2, <1>3, <1>4, NextIsSteps DEF DspSteps

-----------------------------------------------------------------------------
(* The free list.                                                          *)

\* An id that is not on the list is put before its head.
LEMMA Pushed ==
    ASSUME TypeOK, ListInv, NEW i \in Ids, i \notin Listed,
           cmap' = [cmap EXCEPT ![i] = free], free' = i, Listed' = Listed \cup {i}
    PROVE  /\ free' \in Listed' \cup {End}
           /\ \A j \in Listed' : cmap'[j] \in Listed' \cup {End} /\ cmap'[j] # free'
           /\ \A j, k \in Listed' : cmap'[j] = cmap'[k] => j = k
           /\ \A S \in SUBSET Listed' : Follows(S)' => S = Listed'
           /\ free' = End \/ \E j \in Listed' : cmap'[j] = End
<1> USE Numbers
<1>1. /\ cmap'[i] = free /\ \A j \in Listed : cmap'[j] = cmap[j] /\ j # i
      /\ Listed \subseteq Ids
  BY DEF TypeOK, Listed
<1>2. /\ free \in Listed \cup {End}
      /\ \A j \in Listed : cmap[j] \in Listed \cup {End} /\ cmap[j] # free
      /\ \A j, k \in Listed : cmap[j] = cmap[k] => j = k
      /\ \A S \in SUBSET Listed : Follows(S) => S = Listed
      /\ free = End \/ \E j \in Listed : cmap[j] = End
  BY DEF ListInv
<1> HIDE DEF Listed
<1>3. ASSUME NEW S \in SUBSET Listed', Follows(S)' PROVE S = Listed'
  <2>1. i \in S /\ (free \in Ids => free \in S) /\ \A j \in S \ {i} : cmap[j] \in Ids => cmap[j] \in S
    BY <1>1, <1>3 DEF Follows
  <2>2. Follows(S \ {i}) /\ S \ {i} \in SUBSET Listed
    BY <1>1, <1>2, <2>1 DEF Follows
  <2> QED BY <1>2, <2>1, <2>2
<1>4. \A j \in Listed' : cmap'[j] \in Listed' \cup {End} /\ cmap'[j] # free'
  BY <1>1, <1>2
<1>5. \A j, k \in Listed' : cmap'[j] = cmap'[k] => j = k
  BY <1>1, <1>2
<1>6. \E j \in Listed' : cmap'[j] = End
  BY <1>1, <1>2
<1> QED BY <1>3, <1>4, <1>5, <1>6

\* Every step keeps the free list one chain of the ids that are free.
LEMMA ListStep ==
    ASSUME BaseInv, [Next]_vars
    PROVE  ListInv'
<1> USE Numbers
<1>1. /\ ListInv /\ TypeOK /\ cmap \in [Ids -> Ids \cup {End} \cup Components] /\ free \in Ids \cup {End}
      /\ dsp \in [pc : Places, msg : Msgs \cup {None}, to : Components \cup {None},
                  at : Ids \cup Workers \cup {None}]
  BY DEF BaseInv, TypeOK
<1>2. ASSUME UNCHANGED <<cmap, free>>, dsp'.pc = "create" <=> dsp.pc = "create",
             dsp.pc = "create" => dsp'.at = dsp.at
      PROVE  ListInv'
  <2>1. IdsInHand' = IdsInHand
    BY <1>2 DEF IdsInHand
  <2>2. Listed' = Listed /\ \A S \in SUBSET Listed : Follows(S)' <=> Follows(S)
    BY <1>2, <2>1 DEF Listed, Follows
  <2> QED BY <1>1, <1>2, <2>2 DEF ListInv
<1>3. CASE AppSteps \/ UNCHANGED vars
  <2>1. UNCHANGED <<cmap, free, dsp>>
    BY <1>3, Leaves DEF vars, mapVars
  <2> QED BY <1>2, <2>1
<1>4. ASSUME DspRegister \/ DspLookup \/ DspSend \/ \E w \in Workers : DspRoute(w) PROVE ListInv'
  <2>1. UNCHANGED <<cmap, free>> /\ dsp.pc # "create" /\ dsp'.pc # "create"
    <3>1. CASE DspRegister
      BY <3>1 DEF DspRegister, mapVars
    <3>2. CASE DspLookup
      BY <3>2 DEF DspLookup, mapVars
    <3>3. CASE DspSend
      BY <3>3 DEF DspSend, Idle, mapVars
    <3>4. ASSUME NEW w \in Workers, DspRoute(w)
          PROVE  UNCHANGED <<cmap, free>> /\ dsp.pc # "create" /\ dsp'.pc # "create"
      BY <1>1, <3>4 DEF DspRoute, mapVars
    <3> QED BY <1>4, <3>1, <3>2, <3>3, <3>4
  <2> QED BY <1>2, <2>1
<1>5. ASSUME DspAlloc PROVE ListInv'
  <2>1. /\ dsp.pc = "alloc" /\ cmap' = cmap /\ free' = cmap[free] /\ dsp.at = free /\ free \in Ids
        /\ dsp'.pc = "create" /\ dsp'.at = free
    BY <1>1, <1>5 DEF DspAlloc, BaseInv, ThreadInv, AllocInv, ShapeInv, DspInv
  <2>2. /\ free \in Listed
        /\ \A j \in Listed : cmap[j] \in Listed \cup {End} /\ cmap[j] # free
        /\ \A j, k \in Listed : cmap[j] = cmap[k] => j = k
        /\ \A S \in SUBSET Listed : Follows(S) => S = Listed
        /\ \E j \in Listed : cmap[j] = End
        /\ cmap[free] \notin Components
    BY <1>1, <2>1 DEF ListInv, Listed
  <2>3. Listed' = Listed \ {free}
    BY <2>1 DEF Listed, IdsInHand
  <2>4. Listed \subseteq Ids
    BY DEF Listed
  <2> HIDE DEF Listed
  <2>5. ASSUME NEW S \in SUBSET Listed', Follows(S)' PROVE S = Listed'
    <3>1. Follows(S \cup {free}) /\ S \cup {free} \in SUBSET Listed
      BY <2>1, <2>2, <2>3, <2>5 DEF Follows
    <3> QED BY <2>2, <2>3, <3>1
  <2>6. free' \in Listed' \cup {End}
    BY <2>1, <2>2, <2>3
  <2>7. \A j \in Listed' : cmap'[j] \in Listed' \cup {End} /\ cmap'[j] # free'
    BY <2>1, <2>2, <2>3
  <2>8. \A j, k \in Listed' : cmap'[j] = cmap'[k] => j = k
    BY <2>1, <2>2, <2>3
  <2>9. free' = End \/ \E j \in Listed' : cmap'[j] = End
    BY <2>1, <2>2, <2>3
  <2>10. dsp'.pc = "create" => cmap'[dsp'.at] \notin Components
    BY <2>1, <2>2
  <2> QED BY <2>5, <2>6, <2>7, <2>8, <2>9, <2>10 DEF ListInv
<1>6. ASSUME NEW k \in Components, DspCreate(k) PROVE ListInv'
  <2>1. /\ dsp.at \in Ids /\ dsp.pc = "create" /\ dsp'.pc = "idle"
        /\ cmap' = [cmap EXCEPT ![dsp.at] = k] /\ free' = free
    BY <1>6 DEF DspCreate, BaseInv, ShapeInv, DspInv, Idle
  <2>2. Listed' = Listed /\ dsp.at \notin Listed /\ Listed \subseteq Ids
    BY <1>1, <2>1 DEF Listed, IdsInHand
  <2>3. \A j \in Listed : cmap'[j] = cmap[j]
    BY <1>1, <2>1, <2>2
  <2> HIDE DEF Listed
  <2>4. \A S \in SUBSET Listed : Follows(S)' <=> Follows(S)
    BY <2>1, <2>3 DEF Follows
  <2> QED BY <1>1, <2>1, <2>2, <2>3, <2>4 DEF ListInv
<1>7. ASSUME DspCreateFails PROVE ListInv'
  <2>1. /\ dsp.at \in Ids /\ dsp.pc = "create" /\ dsp'.pc = "idle" /\ cmap[dsp.at] \notin Components
        /\ cmap' = [cmap EXCEPT ![dsp.at] = free] /\ free' = dsp.at
    BY <1>1, <1>7 DEF DspCreateFails, Recycled, BaseInv, ShapeInv, DspInv, Idle, ListInv
  <2>2. Listed' = Listed \cup {dsp.at} /\ dsp.at \notin Listed
    BY <1>1, <2>1 DEF Listed, IdsInHand
  <2>3. PICK i \in Ids : i = dsp.at
    BY <2>1
  <2> HIDE DEF Listed
  <2>4. i \notin Listed /\ cmap' = [cmap EXCEPT ![i] = free] /\ free' = i /\ Listed' = Listed \cup {i}
    BY <2>1, <2>2, <2>3
  <2>5. dsp'.pc # "create"
    BY <2>1
  <2> QED BY <1>1, <2>4, <2>5, Pushed DEF ListInv
<1>8. ASSUME NEW w \in Workers, WorkerFree(w) PROVE ListInv'
  <2>1. PICK i \in Ids : i = id[wk[w].to] /\ cmap[i] \in Components
    BY <1>8 DEF WorkerFree, Cleans, BaseInv, ShapeInv, WorkerInv, ThreadInv, CompInv
  <2>2. cmap' = [cmap EXCEPT ![i] = free] /\ free' = i /\ dsp' = dsp
    BY <1>8, <2>1 DEF WorkerFree, Recycled
  <2>3. /\ i \notin Listed /\ i \notin IdsInHand
        /\ dsp.pc = "create" => dsp.at \in Ids \ {i} /\ cmap[dsp.at] \notin Components
    BY <1>1, <2>1 DEF Listed, IdsInHand, ListInv, BaseInv, ShapeInv, DspInv
  <2>4. Listed' = Listed \cup {i}
    <3>1. IdsInHand' = IdsInHand
      BY <2>2 DEF IdsInHand
    <3> HIDE DEF IdsInHand
    <3> QED BY <1>1, <2>2, <2>3, <3>1 DEF Listed
  <2> HIDE DEF Listed
  <2>5. dsp'.pc = "create" => cmap'[dsp'.at] \notin Components
    BY <1>1, <2>2, <2>3
  <2> QED BY <1>1, <2>2, <2>3, <2>4, <2>5, Pushed DEF ListInv
<1>9. ASSUME NEW w \in Workers,
             \/ WorkerWait(w) \/ WorkerRecv(w) \/ WorkerReject(w)
             \/ WorkerData(w) \/ WorkerSetParam(w) \/ WorkerUnregister(w)
             \/ WorkerElevate(w) \/ WorkerMarker(w) \/ WorkerPurge(w)
             \/ \E k \in Components : WorkerTask(w, k)
             \/ \E done \in SUBSET Msgs : WorkerProcess(w, done)
             \/ \E p \in Workers : WorkerLookup(w, p)
      PROVE  ListInv'
  <2>1. UNCHANGED <<cmap, free, dsp>>
    BY <1>9 DEF WorkerWait, WorkerRecv, WorkerReject, WorkerData, WorkerSetParam, WorkerUnregister, WorkerElevate,
                WorkerMarker, WorkerPurge, WorkerTask, WorkerProcess, WorkerLookup, mapVars
  <2> QED BY <1>2, <2>1
<1> QED
  BY NextIsSteps, <1>3, <1>4, <1>5, <1>6, <1>7, <1>8, <1>9 DEF DspSteps, WorkerSteps

\* A component that is being deleted stays alive, keeps its priority and is found under its id
\* until its worker executes the command: no other synchronous command is outstanding.
LEMMA ExitStep ==
    ASSUME BaseInv, [Next]_vars
    PROVE  ExitInv'
<1> USE Numbers
<1>1. /\ wk \in [Workers -> [pc : WorkerPlaces, msg : Msgs \cup {None},
                             to : Components \cup {None}, at : Workers \cup {None}]]
      /\ dsp \in [pc : Places, msg : Msgs \cup {None}, to : Components \cup {None},
                  at : Ids \cup Workers \cup {None}]
      /\ alive \subseteq Components /\ alive \cap fresh = {} /\ open = alive
      /\ prio \in [Components -> Workers]
  BY DEF BaseInv, TypeOK, ThreadInv, CompInv
<1>2. ASSUME NEW m \in Msgs \ owned, cmd[m].op = "unregister"
      PROVE  /\ cmd[m].for \in alive
             /\ dsp.msg = m => dsp.to = cmd[m].for /\ (dsp.pc = "send" => dsp.at = prio[cmd[m].for])
             /\ \A w \in Workers : \A i \in DOMAIN queue[w] : queue[w][i].msg = m =>
                   queue[w][i].to = cmd[m].for /\ w = prio[cmd[m].for]
             /\ \A w \in Workers : wk[w].msg = m =>
                   wk[w].to = cmd[m].for /\ w = prio[cmd[m].for] /\ (wk[w].pc = "entry" => wk[w].at = w)
  BY <1>2 DEF BaseInv, ThreadInv, ExitInv
<1>3. ASSUME NEW m \in Msgs \ owned, cmd[m].op = "unregister",
             NEW w \in Workers, NEW j \in DOMAIN queue'[w], queue'[w][j].msg = m
      PROVE  queue'[w][j].to = cmd[m].for /\ w = prio[cmd[m].for]
  <2>1. CASE \E i \in DOMAIN queue[w] : queue'[w][j] = queue[w][i]
    BY <1>2, <1>3, <2>1
  <2>2. CASE queue'[w][j] = Marker
    BY <1>3, <2>2 DEF Marker, Item
  <2>3. CASE DspSend /\ dsp.at = w /\ queue'[w][j] = Item(dsp.to, dsp.msg)
    BY <1>2, <1>3, <2>3 DEF DspSend, Item
  <2> QED BY <2>1, <2>2, <2>3, QueueItems
<1>4. ASSUME AppSteps PROVE ExitInv'
  <2>1. UNCHANGED <<alive, prio, dsp, queue, wk>>
    BY <1>4, Leaves
  <2>2. ASSUME NEW m \in Msgs, NEW op, NEW k, NEW a, Issue(m, op, k, a), op = "unregister" => k \in alive
        PROVE  ExitInv'
    <3>1. /\ m \in owned /\ owned' = owned \ {m} /\ cmd'[m] = [op |-> op, for |-> k, arg |-> a]
          /\ \A n \in Msgs \ owned : n # m /\ cmd'[n] = cmd[n]
      BY <2>2, IssueSays
    <3>2. /\ dsp.msg # m
          /\ \A w \in Workers : wk[w].msg # m /\ \A i \in DOMAIN queue[w] : queue[w][i].msg # m
      BY <3>1, Apart DEF BaseInv
    <3>3. SUFFICES ASSUME NEW n \in Msgs \ owned', cmd'[n].op = "unregister"
                   PROVE  /\ cmd'[n].for \in alive
                          /\ dsp.msg = n => dsp.to = cmd'[n].for /\ (dsp.pc = "send" => dsp.at = prio[cmd'[n].for])
                          /\ \A w \in Workers : \A i \in DOMAIN queue[w] : queue[w][i].msg = n =>
                                queue[w][i].to = cmd'[n].for /\ w = prio[cmd'[n].for]
                          /\ \A w \in Workers : wk[w].msg = n =>
                                /\ wk[w].to = cmd'[n].for /\ w = prio[cmd'[n].for]
                                /\ wk[w].pc = "entry" => wk[w].at = w
      BY <2>1 DEF ExitInv
    <3>4. CASE n = m
      BY <2>2, <3>1, <3>2, <3>3, <3>4
    <3>5. CASE n # m
      <4>1. n \in Msgs \ owned /\ cmd'[n] = cmd[n]
        BY <3>1, <3>5
      <4> QED BY <1>2, <3>3, <4>1
    <3> QED BY <3>4, <3>5
  <2>3. ASSUME NEW m \in Msgs, NEW k \in Components, HostUnregister(m, k) PROVE ExitInv'
    BY <1>1, <2>2, <2>3 DEF HostUnregister
  <2>4. ASSUME NEW m \in Msgs, NEW k \in Components,
               HostData(m, k) \/ \E p \in (Workers \ {0}) \cup {None} : HostSetParam(m, k, p)
        PROVE  ExitInv'
    BY <2>2, <2>4 DEF HostData, HostSetParam
  <2>5. ASSUME NEW m \in Msgs, HostRegister(m) PROVE ExitInv'
    BY <2>2, <2>5 DEF HostRegister
  <2> QED BY <1>4, <2>3, <2>4, <2>5 DEF AppSteps
<1>5. ASSUME DspSteps PROVE ExitInv'
  <2>1. UNCHANGED <<cmd, wk>>
    BY <1>5, Leaves
  <2>2. owned \subseteq owned' /\ alive \subseteq alive' /\ \A k \in alive : prio'[k] = prio[k]
    <3>1. ASSUME NEW k \in Components, DspCreate(k)
          PROVE  owned \subseteq owned' /\ alive \subseteq alive' /\ \A c \in alive : prio'[c] = prio[c]
      BY <1>1, <3>1 DEF DspCreate
    <3>2. ASSUME \/ DspRegister \/ DspAlloc \/ DspCreateFails \/ DspLookup \/ DspSend
                 \/ \E w \in Workers : DspRoute(w)
          PROVE  owned \subseteq owned' /\ alive' = alive /\ prio' = prio
      BY <3>2 DEF DspRegister, DspAlloc, DspCreateFails, DspLookup, DspSend, DspRoute, appVars, compVars
    <3> QED BY <1>5, <3>1, <3>2 DEF DspSteps
  <2>3. SUFFICES ASSUME NEW m \in Msgs \ owned, cmd[m].op = "unregister", dsp'.msg = m
                 PROVE  dsp'.to = cmd[m].for /\ (dsp'.pc = "send" => dsp'.at = prio[cmd[m].for])
    <3>1. SUFFICES ASSUME NEW m \in Msgs \ owned', cmd[m].op = "unregister"
                   PROVE  /\ cmd[m].for \in alive'
                          /\ dsp'.msg = m => /\ dsp'.to = cmd[m].for
                                             /\ dsp'.pc = "send" => dsp'.at = prio'[cmd[m].for]
                          /\ \A w \in Workers : \A i \in DOMAIN queue'[w] : queue'[w][i].msg = m =>
                                queue'[w][i].to = cmd[m].for /\ w = prio'[cmd[m].for]
                          /\ \A w \in Workers : wk[w].msg = m =>
                                /\ wk[w].to = cmd[m].for /\ w = prio'[cmd[m].for]
                                /\ wk[w].pc = "entry" => wk[w].at = w
      BY <2>1 DEF ExitInv
    <3>2. m \in Msgs \ owned /\ cmd[m].for \in alive /\ prio'[cmd[m].for] = prio[cmd[m].for]
      BY <1>2, <2>2, <3>1
    <3> QED BY <1>2, <1>3, <2>2, <2>3, <3>1, <3>2
  <2>4. dsp.msg = m => dsp.to = cmd[m].for /\ (dsp.pc = "send" => dsp.at = prio[cmd[m].for])
    BY <1>2, <2>3
  <2>5. m # None
    OBVIOUS
  <2>6. CASE DspRegister
    BY <1>1, <2>3, <2>4, <2>6 DEF DspRegister
  <2>7. CASE DspAlloc
    BY <1>1, <2>3, <2>4, <2>7 DEF DspAlloc
  <2>8. CASE DspCreateFails \/ DspSend \/ \E k \in Components : DspCreate(k)
    <3>1. dsp' = Idle
      BY <2>8 DEF DspCreateFails, DspSend, DspCreate
    <3> QED BY <2>3, <2>5, <3>1 DEF Idle
  <2>9. CASE DspLookup
    <3>1. CASE dsp' = dsp
      BY <2>3, <2>4, <3>1
    <3>2. CASE dsp' = [pc |-> "route", msg |-> Head(cmdq), to |-> Lookup(Client(Head(cmdq))), at |-> None]
      <4>1. cmd[m].for \in alive /\ cmap[id[cmd[m].for]] = cmd[m].for /\ cmd[m].for \in Components
        BY <1>1, <1>2, <2>3 DEF BaseInv, ThreadInv, CompInv
      <4>2. m = Head(cmdq) /\ dsp'.to = Lookup(Client(m)) /\ dsp'.pc # "send"
        BY <2>3, <3>2
      <4> QED BY <4>1, <4>2 DEF Lookup, Client
    <3> QED BY <2>9, <3>1, <3>2 DEF DspLookup
  <2>10. ASSUME NEW w \in Workers, DspRoute(w)
         PROVE  dsp'.to = cmd[m].for /\ (dsp'.pc = "send" => dsp'.at = prio[cmd[m].for])
    <3>1. dsp'.msg = dsp.msg /\ dsp'.to = dsp.to /\ dsp'.at = w /\ w \in PriorityRead(dsp.to)
      BY <1>1, <2>10 DEF DspRoute
    <3>2. cmd[m].for \in alive
      BY <1>2, <2>3
    <3> QED BY <2>3, <2>4, <3>1, <3>2 DEF PriorityRead
  <2> QED BY <1>5, <2>6, <2>7, <2>8, <2>9, <2>10 DEF DspSteps
<1>6. ASSUME NEW w \in Workers, WorkerSetParam(w) \/ WorkerUnregister(w) PROVE ExitInv'
  <2>1. wk[w].msg \in Msgs \ owned /\ cmd[wk[w].msg].op \in {"setparam", "unregister"} /\ wk[w].msg \in owned'
    <3>1. wk[w].msg # None
      BY <1>6 DEF WorkerSetParam, WorkerUnregister, Enter, BaseInv, ShapeInv, WorkerInv
    <3>2. wk[w].msg \in Msgs \ owned
      BY <1>1, <3>1, Apart DEF BaseInv
    <3> QED BY <1>6, <3>2 DEF WorkerSetParam, WorkerUnregister, Enter
  <2>2. cmd' = cmd /\ owned \subseteq owned'
    BY <1>6 DEF WorkerSetParam, WorkerUnregister
  <2>3. \A m \in Msgs \ owned' : cmd'[m].op # "unregister"
    <3>1. \A m, n \in Msgs \ owned : cmd[m].op # "data" /\ cmd[n].op # "data" => m = n
      BY DEF BaseInv, ShapeInv, CmdInv
    <3> QED BY <2>1, <2>2, <3>1
  <2> QED BY <2>3 DEF ExitInv
<1>7. ASSUME UNCHANGED <<alive, prio, cmd, dsp>>, owned \subseteq owned', NEW w \in Workers,
             \A v \in Workers \ {w} : wk'[v] = wk[v],
             \A m \in Msgs \ owned : cmd[m].op = "unregister" /\ wk'[w].msg = m =>
                wk'[w].to = cmd[m].for /\ w = prio[cmd[m].for] /\ (wk'[w].pc = "entry" => wk'[w].at = w)
      PROVE  ExitInv'
  <2>1. SUFFICES ASSUME NEW m \in Msgs \ owned, cmd[m].op = "unregister"
                 PROVE  /\ cmd[m].for \in alive
                        /\ dsp.msg = m => dsp.to = cmd[m].for /\ (dsp.pc = "send" => dsp.at = prio[cmd[m].for])
                        /\ \A v \in Workers : \A i \in DOMAIN queue'[v] : queue'[v][i].msg = m =>
                              queue'[v][i].to = cmd[m].for /\ v = prio[cmd[m].for]
                        /\ \A v \in Workers : wk'[v].msg = m =>
                              /\ wk'[v].to = cmd[m].for /\ v = prio[cmd[m].for]
                              /\ wk'[v].pc = "entry" => wk'[v].at = v
    BY <1>7 DEF ExitInv
  <2>2. ASSUME NEW v \in Workers, wk'[v].msg = m
        PROVE  /\ wk'[v].to = cmd[m].for /\ v = prio[cmd[m].for]
               /\ wk'[v].pc = "entry" => wk'[v].at = v
    <3>1. CASE v = w
      BY <1>7, <2>1, <2>2, <3>1
    <3>2. CASE v # w
      BY <1>2, <1>7, <2>1, <2>2, <3>2
    <3> QED BY <3>1, <3>2
  <2> QED BY <1>2, <1>3, <2>1, <2>2
<1>8. ASSUME NEW w \in Workers, WorkerRecv(w) PROVE ExitInv'
  <2>1. UNCHANGED <<alive, prio, cmd, dsp, owned>>
    BY <1>8 DEF WorkerRecv, compVars, appVars
  <2>2. 1 \in DOMAIN queue[w] /\ Head(queue[w]) = queue[w][1]
    <3>1. queue[w] \in Seq(Item0) /\ queue[w] # <<>>
      BY <1>8 DEF WorkerRecv, BaseInv, TypeOK, Item0
    <3> QED BY <3>1, TailNamed
  <2>3. /\ wk'[w] = IF Head(queue[w]) = Marker THEN [Idle EXCEPT !.pc = "exit"]
                    ELSE [pc |-> "lookup", msg |-> Head(queue[w]).msg, to |-> Head(queue[w]).to, at |-> None]
        /\ \A v \in Workers \ {w} : wk'[v] = wk[v]
    BY <1>1, <1>8 DEF WorkerRecv
  <2>4. ASSUME NEW m \in Msgs \ owned, cmd[m].op = "unregister", wk'[w].msg = m
        PROVE  wk'[w].to = cmd[m].for /\ w = prio[cmd[m].for] /\ wk'[w].pc # "entry"
    <3>1. Head(queue[w]).msg = m /\ wk'[w].to = Head(queue[w]).to /\ wk'[w].pc = "lookup"
      BY <2>3, <2>4 DEF Idle
    <3> QED BY <1>2, <2>2, <2>4, <3>1
  <2> QED BY <1>7, <2>1, <2>3, <2>4
<1>9. ASSUME NEW w \in Workers, NEW p \in Workers, WorkerLookup(w, p) PROVE ExitInv'
  <2>1. UNCHANGED <<alive, prio, cmd, dsp, owned>>
    BY <1>9 DEF WorkerLookup, compVars, appVars
  <2>2. /\ wk'[w].msg = wk[w].msg /\ wk'[w].to = wk[w].to /\ wk'[w].at = p /\ p \in PriorityRead(wk[w].to)
        /\ \A v \in Workers \ {w} : wk'[v] = wk[v]
    BY <1>1, <1>9 DEF WorkerLookup
  <2>3. ASSUME NEW m \in Msgs \ owned, cmd[m].op = "unregister", wk'[w].msg = m
        PROVE  wk'[w].to = cmd[m].for /\ w = prio[cmd[m].for] /\ wk'[w].at = w
    <3>1. cmd[m].for \in alive /\ wk[w].to = cmd[m].for /\ w = prio[cmd[m].for]
      BY <1>2, <2>2, <2>3
    <3> QED BY <2>2, <3>1 DEF PriorityRead
  <2> QED BY <1>7, <2>1, <2>2, <2>3
<1>10. ASSUME NEW w \in Workers,
              \/ WorkerWait(w) \/ WorkerReject(w) \/ WorkerData(w)
              \/ WorkerElevate(w) \/ WorkerMarker(w) \/ WorkerPurge(w) \/ WorkerFree(w)
              \/ \E k \in Components : WorkerTask(w, k)
              \/ \E done \in SUBSET Msgs : WorkerProcess(w, done)
       PROVE  ExitInv'
  <2>1. UNCHANGED <<alive, prio, cmd, dsp>> /\ owned \subseteq owned'
    BY <1>10 DEF WorkerWait, WorkerReject, WorkerData, WorkerElevate, WorkerMarker, WorkerPurge, WorkerFree,
                 WorkerTask, WorkerProcess, compVars, appVars
  <2>2. /\ \A v \in Workers \ {w} : wk'[v] = wk[v]
        /\ wk'[w].msg = None
    <3>1. wk[w].pc \notin {"lookup", "entry"} => wk[w].msg = None
      BY DEF BaseInv, ShapeInv, WorkerInv
    <3>2. CASE WorkerWait(w) \/ WorkerElevate(w) \/ WorkerMarker(w) \/ WorkerPurge(w)
      <4>1. /\ wk[w].pc \in {"idle", "cleanup", "marker", "purge"}
            /\ \/ wk' = wk \/ wk' = [wk EXCEPT ![w].pc = "wait"] \/ wk' = [wk EXCEPT ![w].pc = "marker"]
               \/ wk' = [wk EXCEPT ![w].pc = "purge"] \/ wk' = [wk EXCEPT ![w].pc = "free"]
        BY <3>2 DEF WorkerWait, WorkerElevate, WorkerMarker, WorkerPurge
      <4> QED BY <1>1, <3>1, <4>1
    <3>3. CASE WorkerReject(w) \/ WorkerData(w) \/ WorkerFree(w) \/ \E done \in SUBSET Msgs : WorkerProcess(w, done)
      <4>1. wk' = [wk EXCEPT ![w] = Idle]
        BY <3>3 DEF WorkerReject, WorkerData, WorkerFree, WorkerProcess
      <4> QED BY <1>1, <4>1 DEF Idle
    <3>4. ASSUME NEW k \in Components, WorkerTask(w, k)
          PROVE  wk'[w].msg = None /\ \A v \in Workers \ {w} : wk'[v] = wk[v]
      BY <1>1, <3>4 DEF WorkerTask
    <3> QED BY <1>10, <3>2, <3>3, <3>4
  <2> QED BY <1>7, <2>1, <2>2
<1>11. CASE UNCHANGED vars
  <2>1. UNCHANGED <<alive, prio, cmd, dsp, owned, wk>>
    BY <1>11 DEF vars, compVars, appVars
  <2> QED BY <1>2, <1>7, <2>1
<1> QED
  BY NextIsSteps, <1>4, <1>5, <1>6, <1>8, <1>9, <1>10, <1>11 DEF WorkerSteps

-----------------------------------------------------------------------------
(* The theorems.                                                           *)

\* At the start every id is on the list, each linked to the next.
LEMMA InitList == Init => ListInv
<1> SUFFICES ASSUME Init PROVE ListInv
  OBVIOUS
<1> USE Numbers
<1>1. /\ cmap = [i \in Ids |-> i + 1] /\ free = 0 /\ dsp.pc = "idle"
      /\ \A i \in Ids : cmap[i] = i + 1
  BY DEF Init, Idle
<1>2. Listed = Ids
  BY <1>1 DEF Listed, IdsInHand
<1>3. End \in Nat /\ Ids = 0 .. End - 1
  BY IdsAssumption, FS_CardinalityType DEF End
<1>4. ASSUME NEW S \in SUBSET Ids, Follows(S), S # Ids PROVE FALSE
  <2>1. IsWellFoundedOn({ss \in Nat \X Nat : ss[1] < ss[2]}, Nat)
    BY NatLessThanWellFounded DEF OpToRel
  <2>2. PICK n \in Ids \ S : \A k \in Ids \ S : ~ <<k, n>> \in {ss \in Nat \X Nat : ss[1] < ss[2]}
    <3>1. Ids \ S \subseteq Nat /\ Ids \ S # {}
      BY <1>4
    <3> QED BY <2>1, <3>1, WFMin
  <2>3. n # 0
    BY <1>1, <1>4 DEF Follows
  <2>4. n - 1 \in S
    <3>1. n \in Nat /\ n - 1 \in Ids /\ n - 1 \in Nat /\ n - 1 < n
      BY <2>3
    <3>2. CASE n - 1 \in Ids \ S
      BY <2>2, <3>1, <3>2
    <3> QED BY <3>1, <3>2
  <2>5. cmap[n - 1] = n
    BY <1>1, <2>3
  <2> QED BY <1>4, <2>4, <2>5 DEF Follows
<1>5. free = End \/ \E i \in Ids : cmap[i] = End
  <2>1. CASE End = 0
    BY <1>1, <2>1
  <2>2. CASE End # 0
    <3>1. End - 1 \in Ids /\ cmap[End - 1] = End
      BY <1>1, <1>3, <2>2
    <3> QED BY <3>1
  <2> QED BY <2>1, <2>2
<1>6. \A i \in Ids : cmap[i] \in Ids \cup {End} /\ cmap[i] # free
  BY <1>1
<1>7. \A i, j \in Ids : cmap[i] = cmap[j] => i = j
  BY <1>1
<1> QED BY <1>1, <1>2, <1>4, <1>5, <1>6, <1>7 DEF ListInv

\* The application has every command at first, and no queue has anything.
LEMMA InitConserved == Init => MessagesConserved
<1> SUFFICES ASSUME Init PROVE MessagesConserved
  OBVIOUS
<1>1. /\ owned = Msgs /\ cmdq = <<>> /\ dsp.msg = None
      /\ \A w \in Workers : queue[w] = <<>> /\ wk[w].msg = None
      /\ \A k \in Components : inside[k] = {}
  BY DEF Init, Idle
<1> DEFINE A == <<"application", None>>
<1>2. A \in Holders /\ Holding(A) = Msgs
  BY <1>1, HoldersAre, HoldingIs
<1>3. ASSUME NEW p \in Holders, p # A PROVE Holding(p) = {}
  <2>1. CASE p = <<"dsp queue", None>>
    <3>1. Holding(<<"dsp queue", None>>) = {cmdq[i] : i \in DOMAIN cmdq}
      BY HoldingIs
    <3>2. DOMAIN cmdq = {}
      BY <1>1
    <3> QED BY <2>1, <3>1, <3>2
  <2>2. CASE p = <<"dsp", None>>
    BY <1>1, <2>2, HoldingIs
  <2>3. ASSUME NEW w \in Workers, p = <<"queue", w>> PROVE Holding(p) = {}
    <3>1. Holding(<<"queue", w>>) = Named(queue[w]) \ {None}
      BY HoldingIs
    <3>2. DOMAIN queue[w] = {}
      BY <1>1
    <3>3. Named(queue[w]) = {}
      BY <3>2 DEF Named
    <3> QED BY <2>3, <3>1, <3>3
  <2>4. ASSUME NEW w \in Workers, p = <<"worker", w>> PROVE Holding(p) = {}
    <3>1. Holding(<<"worker", w>>) = {wk[w].msg} \ {None}
      BY HoldingIs
    <3> QED BY <1>1, <2>4, <3>1
  <2>5. ASSUME NEW k \in Components, p = <<"component", k>> PROVE Holding(p) = {}
    <3>1. Holding(<<"component", k>>) = inside[k]
      BY HoldingIs
    <3> QED BY <1>1, <2>5, <3>1
  <2> QED BY <1>3, <2>1, <2>2, <2>3, <2>4, <2>5, HoldersAre
<1>4. \A m \in Msgs : \A q \in Holders : m \in Holding(q) <=> q = A
  BY <1>2, <1>3
<1>5. \A m \in Msgs : \E p \in Holders : \A q \in Holders : m \in Holding(q) <=> q = p
  BY <1>2, <1>4
<1> QED BY <1>1, <1>5 DEF MessagesConserved

\* The invariant holds at first.
LEMMA BaseInit == Init => BaseInv
<1> SUFFICES ASSUME Init PROVE BaseInv
  OBVIOUS
<1> USE Numbers
<1>1. TypeOK
  BY DEF Init, TypeOK, Idle, Blank, Places, WorkerPlaces
<1>2. \A w \in Workers : queue[w] = <<>> /\ wk[w] = Idle
  BY DEF Init
<1>3. ShapeInv
  BY <1>2 DEF Init, ShapeInv, DspInv, WorkerInv, QueueInv, CmdInv, Cleans, Idle
<1>4. ThreadInv
  <2>1. Named(<<>>) = {}
    BY DEF Named
  <2>2. CompInv
    BY <1>2 DEF Init, CompInv, Cleans, Idle
  <2>3. ExitInv
    BY DEF Init, ExitInv
  <2>4. MarkerInv
    BY <1>2, <2>1 DEF MarkerInv, Idle
  <2>5. AllocInv
    BY DEF Init, AllocInv, Idle
  <2> QED BY <2>2, <2>3, <2>4, <2>5 DEF ThreadInv
<1> QED BY <1>1, <1>3, <1>4, InitConserved, InitList DEF BaseInv

\* Every step keeps it.
LEMMA BaseStep == BaseInv /\ [Next]_vars => BaseInv'
<1> SUFFICES ASSUME BaseInv, [Next]_vars PROVE BaseInv'
  OBVIOUS
<1>1. TypeOK' /\ MessagesConserved' /\ ListInv'
  BY TypeStep, ConservedStep, ListStep
<1>2. DspInv' /\ WorkerInv' /\ QueueInv' /\ CmdInv'
  BY DspStep, WorkerStep, QueueStep, CmdStep
<1>3. CompInv' /\ ExitInv' /\ MarkerInv' /\ AllocInv'
  BY CompStep, ExitStep, MarkerStep, AllocStep
<1> QED BY <1>1, <1>2, <1>3 DEF BaseInv, ShapeInv, ThreadInv

\* What every state of the dispatcher has in common, of every instance.
THEOREM BaseInvariant == Spec => []BaseInv
<1> QED BY BaseInit, BaseStep, PTL DEF Spec

\* Every variable keeps its type.
THEOREM TypeCorrect == Spec => []TypeOK
<1>1. BaseInv => TypeOK
  BY DEF BaseInv
<1> QED BY <1>1, BaseInvariant, PTL

\* No command is lost, duplicated or answered twice.
THEOREM CommandsAreConserved == Spec => []MessagesConserved
<1>1. BaseInv => MessagesConserved
  BY DEF BaseInv
<1> QED BY <1>1, BaseInvariant, PTL

\* The ids of the free list are the listed ones ...
LEMMA FreeIdsAreListed ==
    ASSUME ListInv PROVE FreeIds = Listed
<1> USE Numbers
<1>1. /\ free \in Listed \cup {End}
      /\ \A i \in Listed : cmap[i] \in Listed \cup {End}
      /\ \A S \in SUBSET Listed : Follows(S) => S = Listed
      /\ Listed \subseteq Ids
  BY DEF ListInv, Listed
<1> HIDE DEF Listed
<1>2. Follows(Listed)
  BY <1>1 DEF Follows
<1>3. ASSUME NEW S \in SUBSET Ids, Follows(S) PROVE Listed \subseteq S
  <2>1. Follows(S \cap Listed)
    BY <1>1, <1>3 DEF Follows
  <2> QED BY <1>1, <2>1
<1> QED BY <1>1, <1>2, <1>3 DEF FreeIds

\* ... so no client id is lost or used twice, though no lock guards the list.
THEOREM ClientIdsAreConserved == Spec => []ClientIdsConserved
<1>1. BaseInv => ClientIdsConserved
  <2> SUFFICES ASSUME BaseInv PROVE ClientIdsConserved
    OBVIOUS
  <2>1. ListInv /\ FreeIds = Listed
    BY FreeIdsAreListed DEF BaseInv
  <2>2. free = End \/ \E i \in FreeIds : cmap[i] = End
    BY <2>1 DEF ListInv
  <2>3. IdsInHand \subseteq Ids /\ IdsInHand \cap MappedIds = {}
    BY <2>1 DEF IdsInHand, MappedIds, BaseInv, ShapeInv, DspInv, ListInv
  <2> HIDE DEF IdsInHand
  <2> QED BY <2>1, <2>2, <2>3 DEF ClientIdsConserved, Listed, MappedIds
<1> QED BY <1>1, BaseInvariant, PTL

\* No worker thread ends while the core runs: none ever takes a marker from its queue.
NoWorkerEnds == \A w \in Workers : wk[w].pc # "exit"
THEOREM WorkersNeverEnd == Spec => []NoWorkerEnds
<1>1. Init => NoWorkerEnds
  BY DEF Init, NoWorkerEnds, Idle
<1>2. BaseInv /\ NoWorkerEnds /\ [Next]_vars => NoWorkerEnds'
  <2> SUFFICES ASSUME BaseInv, NoWorkerEnds, [Next]_vars PROVE NoWorkerEnds'
    OBVIOUS
  <2>1. wk \in [Workers -> [pc : WorkerPlaces, msg : Msgs \cup {None},
                            to : Components \cup {None}, at : Workers \cup {None}]]
    BY DEF BaseInv, TypeOK
  <2>2. CASE AppSteps \/ DspSteps \/ UNCHANGED vars
    <3>1. wk' = wk
      BY <2>2, Leaves DEF vars
    <3> QED BY <3>1 DEF NoWorkerEnds
  <2>3. ASSUME NEW w \in Workers, WorkerRecv(w) PROVE NoWorkerEnds'
    <3>1. queue[w] \in Seq(Item0) /\ queue[w] # <<>> /\ None \notin Named(queue[w])
      BY <2>3 DEF WorkerRecv, BaseInv, TypeOK, Item0, ThreadInv, MarkerInv
    <3>2. Head(queue[w]) # Marker
      BY <3>1, TailNamed DEF Marker, Item
    <3>3. wk' = [wk EXCEPT ![w] = [pc |-> "lookup", msg |-> Head(queue[w]).msg,
                                   to |-> Head(queue[w]).to, at |-> None]]
      BY <2>3, <3>2 DEF WorkerRecv
    <3> QED BY <2>1, <3>3 DEF NoWorkerEnds
  <2>4. ASSUME NEW w \in Workers,
               \/ WorkerWait(w) \/ WorkerUnregister(w) \/ WorkerElevate(w) \/ WorkerMarker(w) \/ WorkerPurge(w)
               \/ \E p \in Workers : WorkerLookup(w, p)
        PROVE  NoWorkerEnds'
    <3>1. wk'[w].pc # "exit" /\ \A v \in Workers \ {w} : wk'[v] = wk[v]
      <4>1. CASE WorkerWait(w) \/ WorkerUnregister(w) \/ WorkerElevate(w) \/ WorkerMarker(w)
        BY <2>1, <4>1 DEF WorkerWait, WorkerUnregister, WorkerElevate, WorkerMarker
      <4>2. CASE WorkerPurge(w)
        <5>1. wk' = wk \/ wk' = [wk EXCEPT ![w].pc = "free"]
          BY <4>2 DEF WorkerPurge
        <5> QED BY <2>1, <5>1 DEF NoWorkerEnds
      <4>3. ASSUME NEW p \in Workers, WorkerLookup(w, p)
            PROVE  wk'[w].pc # "exit" /\ \A v \in Workers \ {w} : wk'[v] = wk[v]
        BY <2>1, <4>3 DEF WorkerLookup
      <4> QED BY <2>4, <4>1, <4>2, <4>3
    <3> QED BY <3>1 DEF NoWorkerEnds
  <2>5. ASSUME NEW w \in Workers,
               \/ WorkerReject(w) \/ WorkerData(w) \/ WorkerSetParam(w) \/ WorkerFree(w)
               \/ \E done \in SUBSET Msgs : WorkerProcess(w, done)
        PROVE  NoWorkerEnds'
    <3>1. wk' = [wk EXCEPT ![w] = Idle]
      BY <2>5 DEF WorkerReject, WorkerData, WorkerSetParam, WorkerFree, WorkerProcess
    <3> QED BY <2>1, <3>1 DEF NoWorkerEnds, Idle
  <2>6. ASSUME NEW w \in Workers, NEW k \in Components, WorkerTask(w, k) PROVE NoWorkerEnds'
    BY <2>1, <2>6 DEF WorkerTask, NoWorkerEnds
  <2> QED
    BY NextIsSteps, <2>2, <2>3, <2>4, <2>5, <2>6 DEF WorkerSteps
<1> QED BY <1>1, <1>2, BaseInvariant, PTL DEF Spec
=============================================================================
