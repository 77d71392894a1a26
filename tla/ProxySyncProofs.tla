-------------------------- MODULE ProxySyncProofs --------------------------
(***************************************************************************)
(* What TLAPS proves about ProxySync, for any number of threads, handles,  *)
(* client ids, buffers, components and commands, whatever times out, fails *)
(* or is answered late. The invariants, each proved from those before it:  *)
(* one thread at a time is in a call, and the client map is one cycle of   *)
(* free ids and the ids of open handles; a command is in one place; a      *)
(* buffer has one owner; an answer names a component only to report its    *)
(* creation; the synchronous command under way is the one a thread waits   *)
(* for; what is under way for a handle is ahead of its unregistration; a   *)
(* live component is in somebody's hands. What is said of the answers      *)
(* holds until a call times out: nothing in an answer tells whose it is,   *)
(* so one that comes late is taken by whoever calls next.                  *)
(***************************************************************************)
EXTENDS ProxySync, FiniteSetTheorems, SequenceTheorems, WellFoundedInduction, TLAPS

\* Only the thread that has the lock is in a call; the handle it opens or closes waits for it.
Busy(t) == thread[t].pc # "idle"
CallInv ==
    \A t \in Threads : Busy(t) =>
        /\ lock = t
        /\ thread[t].asked.op \in {"register", "unregister", "call", "config"}
        /\ thread[t].asked.op = "register" =>
             thread[t].asked.handle \in Handles /\ handle[thread[t].asked.handle].st = "opening"
        /\ thread[t].asked.op = "unregister" =>
             thread[t].asked.handle \in Handles /\ handle[thread[t].asked.handle].st = "closing"
        /\ thread[t].asked.op = "call" => thread[t].asked.buf \in Buffers

\* A handle that is not closed has a client id, to which the map leads back, and a buffer.
HandleInv ==
    /\ \A h \in Handles :
         IF handle[h].st = "closed" THEN handle[h].client = 0
         ELSE handle[h].client # 0 /\ cmap[handle[h].client] = h /\ handle[h].buf \in Buffers
    /\ \A c \in Clients : cmap[c] \in Handles => handle[cmap[c]].client = c

\* The ids that are linked form one cycle through the head: no part of them closes on itself.
Links == {c \in Clients : cmap[c] \in Clients}
Cycle(S) == 0 \in S /\ \A c \in S : cmap[c] \in S
MapInv ==
    /\ Cycle(Links)
    /\ \A c, d \in Links : cmap[c] = cmap[d] => c = d
    /\ \A S \in SUBSET Links : Cycle(S) => S = Links

BaseInv == TypeOK /\ CallInv /\ HandleInv /\ MapInv

\* Client 0 is the proxy's own.
LEMMA ClientIds ==
    /\ 0 \in Clients
    /\ \A c \in Clients : c \in Nat /\ (c # 0 => c - 1 \in Clients)
    /\ \A c \in Clients : InitialLink(c) \in Clients
    /\ \E n \in Nat : n \in Clients /\ n + 1 \notin Clients
    /\ Clients \cap Handles = {}
BY ClientsAssumption, HandlesAssumption, FS_CardinalityType DEF InitialLink

\* What is taken out of the middle of the commands under way.
LEMMA RemoveAtProperties ==
    ASSUME NEW S, NEW q \in Seq(S), NEW k \in DOMAIN q
    PROVE  /\ RemoveAt(q, k) \in Seq(S)
           /\ q[k] \in S
           /\ Len(RemoveAt(q, k)) = Len(q) - 1
           /\ \A i \in 1 .. Len(q) - 1 : RemoveAt(q, k)[i] = IF i < k THEN q[i] ELSE q[i + 1]
<1>1. /\ Len(q) \in Nat /\ DOMAIN q = 1 .. Len(q) /\ k \in 1 .. Len(q)
      /\ \A i \in 1 .. Len(q) : q[i] \in S
  OBVIOUS
<1>2. /\ SubSeq(q, 1, k - 1) \in Seq(S)
      /\ Len(SubSeq(q, 1, k - 1)) = k - 1
      /\ \A i \in 1 .. k - 1 : SubSeq(q, 1, k - 1)[i] = q[i]
  <2>1. /\ SubSeq(q, 1, k - 1) \in Seq(S)
        /\ Len(SubSeq(q, 1, k - 1)) = IF 1 <= k - 1 THEN k - 1 - 1 + 1 ELSE 0
        /\ \A i \in 1 .. k - 1 - 1 + 1 : SubSeq(q, 1, k - 1)[i] = q[1 + i - 1]
    BY <1>1, SubSeqProperties
  <2> QED BY <1>1, <2>1
<1>3. /\ SubSeq(q, k + 1, Len(q)) \in Seq(S)
      /\ Len(SubSeq(q, k + 1, Len(q))) = Len(q) - k
      /\ \A i \in 1 .. Len(q) - k : SubSeq(q, k + 1, Len(q))[i] = q[k + i]
  <2>1. /\ SubSeq(q, k + 1, Len(q)) \in Seq(S)
        /\ Len(SubSeq(q, k + 1, Len(q))) = IF k + 1 <= Len(q) THEN Len(q) - (k + 1) + 1 ELSE 0
        /\ \A i \in 1 .. Len(q) - (k + 1) + 1 : SubSeq(q, k + 1, Len(q))[i] = q[k + 1 + i - 1]
    BY <1>1, SubSeqProperties
  <2> QED BY <1>1, <2>1
<1>4. /\ RemoveAt(q, k) \in Seq(S)
      /\ Len(RemoveAt(q, k)) = Len(q) - 1
      /\ \A i \in 1 .. Len(q) - 1 : RemoveAt(q, k)[i] =
           IF i <= k - 1 THEN SubSeq(q, 1, k - 1)[i] ELSE SubSeq(q, k + 1, Len(q))[i - (k - 1)]
  <2> DEFINE a == SubSeq(q, 1, k - 1)
             b == SubSeq(q, k + 1, Len(q))
  <2>1. RemoveAt(q, k) = a \o b
    BY DEF RemoveAt
  <2>2. a \in Seq(S) /\ b \in Seq(S) /\ Len(a) = k - 1 /\ Len(b) = Len(q) - k
    BY <1>2, <1>3
  <2> HIDE DEF a, b
  <2>3. /\ a \o b \in Seq(S)
        /\ Len(a \o b) = Len(a) + Len(b)
        /\ \A i \in 1 .. Len(a) + Len(b) : (a \o b)[i] = IF i <= Len(a) THEN a[i] ELSE b[i - Len(a)]
    BY <2>2, ConcatProperties
  <2>4. (k - 1) + (Len(q) - k) = Len(q) - 1
    BY <1>1
  <2> QED BY <2>1, <2>2, <2>3, <2>4 DEF a, b
<1>5. ASSUME NEW i \in 1 .. Len(q) - 1
      PROVE  RemoveAt(q, k)[i] = IF i < k THEN q[i] ELSE q[i + 1]
  <2>1. CASE i < k
    BY <1>1, <1>2, <1>4, <2>1
  <2>2. CASE ~(i < k)
    <3>1. i - (k - 1) \in 1 .. Len(q) - k /\ k + (i - (k - 1)) = i + 1 /\ ~(i <= k - 1)
      BY <1>1, <2>2
    <3> QED BY <1>3, <1>4, <2>2, <3>1
  <2> QED BY <2>1, <2>2
<1> QED BY <1>1, <1>4, <1>5

\* A set of ids that starts at 0 and goes on to the next as long as there is one is all of them.
LEMMA InitialCycle ==
    ASSUME NEW S \in SUBSET Clients, 0 \in S, \A c \in S : InitialLink(c) \in S
    PROVE  S = Clients
<1>1. IsWellFoundedOn({ss \in Nat \X Nat : ss[1] < ss[2]}, Nat)
  BY NatLessThanWellFounded DEF OpToRel
<1>2. SUFFICES ASSUME Clients \ S # {} PROVE FALSE
  OBVIOUS
<1>3. PICK x \in Clients \ S :
        \A y \in Clients \ S : ~ <<y, x>> \in {ss \in Nat \X Nat : ss[1] < ss[2]}
  <2>1. Clients \ S \subseteq Nat
    BY ClientIds
  <2> QED BY <1>1, <1>2, <2>1, WFMin
<1>4. x \in Nat /\ x # 0 /\ x - 1 \in Clients
  BY <1>3, ClientIds
<1>5. x - 1 \in S
  <2>1. <<x - 1, x>> \in Nat \X Nat /\ x - 1 < x
    BY <1>4, ClientIds
  <2> QED BY <1>3, <1>4, <2>1
<1>6. InitialLink(x - 1) = x
  BY <1>3, <1>4 DEF InitialLink
<1> QED BY <1>3, <1>5, <1>6

\* The client map starts as one cycle of all ids.
LEMMA BaseInit == Init => BaseInv
<1> SUFFICES ASSUME Init PROVE BaseInv
  OBVIOUS
<1>1. TypeOK
  BY ClientIds, NoneAssumption
     DEF Init, TypeOK, Closed, Idle, Blank, NoAnswer, Request, Answer
<1>2. CallInv
  BY DEF Init, CallInv, Busy, Idle
<1>3. HandleInv
  BY ClientIds DEF Init, HandleInv, Closed
<1>4. MapInv
  <2>1. Links = Clients
    BY ClientIds DEF Init, Links
  <2>2. \A c, d \in Clients : cmap[c] = cmap[d] => c = d
    BY ClientsAssumption, FS_CardinalityType DEF Init, InitialLink
  <2>3. \A S \in SUBSET Clients : Cycle(S) => S = Clients
    BY InitialCycle DEF Init, Cycle
  <2> QED BY <2>1, <2>2, <2>3, ClientIds DEF Init, MapInv, Cycle
<1> QED BY <1>1, <1>2, <1>3, <1>4 DEF BaseInv

\* The steps of ProxySync one by one, with what they are steps of.
Steps == \/ \E t \in Threads, h \in Handles, c \in Cmds, b \in Buffers : Open(t, h, c, b) \/ Call(t, h, c, b)
         \/ \E t \in Threads, h \in Handles, c \in Cmds : Close(t, h, c) \/ Config(t, h, c)
         \/ \E h \in Handles, c \in Cmds : Data(h, c)
         \/ \E h \in Handles : Read(h)
         \/ \E t \in Threads : TakeAnswer(t) \/ TimesOut(t)
         \/ \E t \in Threads : OpenReturns(t) \/ CloseReturns(t) \/ CallReturns(t) \/ ConfigReturns(t)
         \/ ProxyDelivers
         \/ \E i \in DOMAIN out : \/ \E k \in Components : DspRegisters(i, k)
                                  \/ DspUnregisters(i) \/ DspExecutes(i) \/ DspFails(i)
LEMMA NextIsSteps == Next => Steps
BY DEF Next, Steps, Begins, Returns, Dsp, DspAnswers

\* What goes back to the pools when a handle is destroyed.
LEMMA DestroyedTypes ==
    ASSUME BaseInv, NEW h \in Handles, handle[h].st # "closed", Destroyed(h)
    PROVE  /\ cmap' \in [Clients -> Clients \cup Handles]
           /\ aux' \subseteq Buffers
           /\ handle' = [handle EXCEPT ![h] = Closed]
           /\ box' \in [Handles -> Seq(Answer)]
           /\ cmd' \in [Cmds -> Request]
<1>1. Blank \in Request /\ handle[h].buf \in Buffers /\ handle[h].client \in Clients
  BY ClientIds DEF BaseInv, HandleInv, TypeOK, Blank, Request
<1>2. <<>> \in Seq(Answer)
  OBVIOUS
<1> QED BY <1>1, <1>2, ClientIds DEF Destroyed, Freed, FreeHead, BaseInv, TypeOK

\* Every step keeps the types.
LEMMA TypeStep ==
    ASSUME BaseInv, [Next]_vars
    PROVE  TypeOK'
<1> USE DEF BaseInv
<1>a. /\ Blank \in Request /\ Blank \in [op : {"none"}, handle : {None}, client : {0}, comp : {None}, buf : {None}]
      /\ NoAnswer \in Answer /\ 0 \in Clients
      /\ Idle \in [pc : {"idle"}, cmd : {None}, asked : Request, answer : Answer]
      /\ Closed \in [st : {"closed"}, client : {0}, comp : {None}, buf : {None}]
  BY ClientIds DEF Blank, Request, NoAnswer, Answer, Idle, Closed
<1>1. ASSUME NEW t \in Threads, NEW h \in Handles, NEW c \in Cmds, NEW b \in Buffers, Open(t, h, c, b)
      PROVE  TypeOK'
  <2>1. FreeHead \in Clients /\ Allocated(h) \in [Clients -> Clients \cup Handles]
    BY <1>a DEF TypeOK, MapInv, Cycle, Links, FreeHead, Allocated
  <2>2. [op |-> "register", handle |-> h, client |-> 0, comp |-> None, buf |-> b] \in Request
    BY <1>a DEF Request
  <2> QED BY <1>1, <1>a, <2>1, <2>2 DEF Open, Begin, Submit, WithoutBuffer, TypeOK
<1>2. ASSUME NEW t \in Threads, NEW h \in Handles, NEW c \in Cmds, Close(t, h, c) PROVE TypeOK'
  <2>1. [op |-> "unregister", handle |-> h, client |-> 0, comp |-> handle[h].comp, buf |-> None] \in Request
    BY <1>a DEF Request, TypeOK
  <2>2. handle' \in [Handles -> [st : {"closed", "opening", "open", "closing"}, client : Clients,
                                comp : Components \cup {None}, buf : Buffers \cup {None}]]
    BY <1>2 DEF Close, TypeOK
  <2>3. thread' \in [Threads -> [pc : {"idle", "waiting", "answered"},
                               cmd : Cmds \cup {None}, asked : Request, answer : Answer]]
    BY <1>2, <1>a, <2>1 DEF Close, Begin, TypeOK
  <2> QED BY <1>2, <2>1, <2>2, <2>3 DEF Close, Begin, Submit, TypeOK
<1>3. ASSUME NEW t \in Threads, NEW h \in Handles, NEW c \in Cmds, NEW b \in Buffers, Call(t, h, c, b)
      PROVE  TypeOK'
  <2>1. [op |-> "call", handle |-> h, client |-> 0, comp |-> handle[h].comp, buf |-> b] \in Request
    BY <1>a DEF Request, TypeOK
  <2> QED BY <1>3, <1>a, <2>1 DEF Call, Begin, Submit, WithoutBuffer, TypeOK
<1>4. ASSUME NEW t \in Threads, NEW h \in Handles, NEW c \in Cmds, Config(t, h, c) PROVE TypeOK'
  <2>1. [op |-> "config", handle |-> h, client |-> 0, comp |-> handle[h].comp, buf |-> handle[h].buf] \in Request
    BY <1>a DEF Request, TypeOK
  <2> QED BY <1>4, <1>a, <2>1 DEF Config, Begin, Submit, TypeOK
<1>5. ASSUME NEW h \in Handles, NEW c \in Cmds, Data(h, c) PROVE TypeOK'
  <2>1. [op |-> "data", handle |-> h, client |-> handle[h].client, comp |-> handle[h].comp, buf |-> None] \in Request
    BY DEF Request, TypeOK
  <2> QED BY <1>5, <2>1 DEF Data, Submit, TypeOK
<1>6. ASSUME NEW h \in Handles, Read(h) PROVE TypeOK'
  <2>1. box[h] \in Seq(Answer) /\ box[h] # <<>>
    BY <1>6 DEF Read, TypeOK
  <2>2. Tail(box[h]) \in Seq(Answer)
    BY <2>1
  <2>3. box' \in [Handles -> Seq(Answer)] /\ cmd' \in [Cmds -> Request]
    BY <1>6, <1>a, <2>2 DEF Read, TypeOK
  <2> QED BY <1>6, <2>3 DEF Read, TypeOK
<1>7. ASSUME NEW t \in Threads, TakeAnswer(t) PROVE TypeOK'
  <2>1. Head(inbox) \in Answer /\ Tail(inbox) \in Seq(Answer)
    BY <1>7 DEF TakeAnswer, TypeOK
  <2>2. thread' \in [Threads -> [pc : {"idle", "waiting", "answered"},
                               cmd : Cmds \cup {None}, asked : Request, answer : Answer]]
    BY <1>7, <2>1 DEF TakeAnswer, TypeOK
  <2>3. cmd' \in [Cmds -> Request]
    BY <1>7, <1>a DEF TakeAnswer, TypeOK
  <2> QED BY <1>7, <2>1, <2>2, <2>3 DEF TakeAnswer, TypeOK
<1>8. ASSUME NEW t \in Threads, TimesOut(t) PROVE TypeOK'
  BY <1>8 DEF TimesOut, TypeOK
<1>9. ASSUME NEW t \in Threads, OpenReturns(t) PROVE TypeOK'
  <2>1. /\ thread[t].asked.handle \in Handles /\ handle[thread[t].asked.handle].st = "opening"
        /\ thread[t].answer.comp \in Components \cup {None}
    BY <1>9 DEF OpenReturns, Leaves, CallInv, Busy, TypeOK, Answer
  <2>2. CASE Destroyed(thread[t].asked.handle) /\ result' = "failure"
    <3>1. /\ cmap' \in [Clients -> Clients \cup Handles] /\ aux' \subseteq Buffers
          /\ handle' = [handle EXCEPT ![thread[t].asked.handle] = Closed]
          /\ box' \in [Handles -> Seq(Answer)] /\ cmd' \in [Cmds -> Request]
      BY <2>1, <2>2, DestroyedTypes
    <3>2. handle' \in [Handles -> [st : {"closed", "opening", "open", "closing"}, client : Clients,
                                  comp : Components \cup {None}, buf : Buffers \cup {None}]]
      BY <1>a, <3>1 DEF TypeOK
    <3> QED BY <1>9, <1>a, <2>2, <3>1, <3>2 DEF OpenReturns, Leaves, TypeOK
  <2>3. CASE /\ handle' = [handle EXCEPT ![thread[t].asked.handle].st = "open",
                                         ![thread[t].asked.handle].comp = thread[t].answer.comp]
             /\ result' = "success" /\ UNCHANGED <<cmap, aux, box, cmd>>
    BY <1>9, <1>a, <2>1, <2>3 DEF OpenReturns, Leaves, TypeOK
  <2> QED BY <1>9, <2>2, <2>3 DEF OpenReturns
<1>10. ASSUME NEW t \in Threads, CloseReturns(t) PROVE TypeOK'
  <2>1. thread[t].asked.handle \in Handles /\ handle[thread[t].asked.handle].st = "closing"
    BY <1>10 DEF CloseReturns, Leaves, CallInv, Busy
  <2>2. /\ cmap' \in [Clients -> Clients \cup Handles] /\ aux' \subseteq Buffers
        /\ handle' = [handle EXCEPT ![thread[t].asked.handle] = Closed]
        /\ box' \in [Handles -> Seq(Answer)] /\ cmd' \in [Cmds -> Request]
    BY <1>10, <2>1, DestroyedTypes DEF CloseReturns
  <2>3. handle' \in [Handles -> [st : {"closed", "opening", "open", "closing"}, client : Clients,
                                comp : Components \cup {None}, buf : Buffers \cup {None}]]
    BY <1>a, <2>2 DEF TypeOK
  <2> QED BY <1>10, <1>a, <2>2, <2>3 DEF CloseReturns, Leaves, TypeOK
<1>11. ASSUME NEW t \in Threads, CallReturns(t) PROVE TypeOK'
  <2>1. thread[t].asked.buf \in Buffers
    BY <1>11 DEF CallReturns, Leaves, CallInv, Busy
  <2> QED BY <1>11, <1>a, <2>1 DEF CallReturns, Leaves, TypeOK
<1>12. ASSUME NEW t \in Threads, ConfigReturns(t) PROVE TypeOK'
  BY <1>12, <1>a DEF ConfigReturns, Leaves, TypeOK
<1>13. CASE ProxyDelivers
  <2>1. Head(resp) \in Answer /\ Tail(resp) \in Seq(Answer)
    BY <1>13 DEF ProxyDelivers, TypeOK
  <2>2. ToHandle(Head(resp).cmd) # None => ToHandle(Head(resp).cmd) \in Handles
    BY DEF ToHandle, MappedTo
  <2>3. inbox' \in Seq(Answer)
    <3>1. Append(inbox, Head(resp)) \in Seq(Answer)
      BY <2>1 DEF TypeOK
    <3> QED BY <1>13, <3>1 DEF ProxyDelivers, TypeOK
  <2>5. cmd' \in [Cmds -> Request]
    <3>1. [cmd EXCEPT ![Head(resp).cmd] = Blank] \in [Cmds -> Request]
      BY <1>a DEF TypeOK
    <3> QED BY <1>13, <3>1 DEF ProxyDelivers, TypeOK
  <2>4. box' \in [Handles -> Seq(Answer)]
    <3>1. CASE UNCHANGED box
      BY <3>1 DEF TypeOK
    <3>2. CASE /\ ToHandle(Head(resp).cmd) \in Handles
               /\ box' = [box EXCEPT ![ToHandle(Head(resp).cmd)] = Append(@, Head(resp))]
      <4>1. \A h \in Handles : Append(box[h], Head(resp)) \in Seq(Answer)
        BY <2>1 DEF TypeOK
      <4> QED BY <3>2, <4>1 DEF TypeOK
    <3> QED BY <1>13, <2>2, <3>1, <3>2 DEF ProxyDelivers
  <2> QED BY <1>13, <2>1, <2>3, <2>4, <2>5 DEF ProxyDelivers, TypeOK
<1>14. ASSUME NEW i \in DOMAIN out, NEW op \in {"register", "unregister", "call", "config", "data"},
              NEW k \in Components \cup {None}, Answers(i, op, k)
       PROVE  /\ out' \in Seq(Cmds) /\ resp' \in Seq(Answer) /\ result' = "none"
              /\ UNCHANGED <<timely, lock, cmap, aux, handle, thread, cmd, inbox, box>>
  <2>1. [cmd |-> out[i], op |-> op, comp |-> k] \in Answer
    BY DEF TypeOK, Answer
  <2> QED BY <1>14, <2>1, RemoveAtProperties DEF Answers, TypeOK
<1>15. ASSUME NEW i \in DOMAIN out, NEW k \in Components, DspRegisters(i, k) PROVE TypeOK'
  BY <1>14, <1>15 DEF DspRegisters, TypeOK
<1>16. ASSUME NEW i \in DOMAIN out, DspUnregisters(i) PROVE TypeOK'
  BY <1>14, <1>16 DEF DspUnregisters, TypeOK
<1>17. ASSUME NEW i \in DOMAIN out, DspExecutes(i) PROVE TypeOK'
  BY <1>14, <1>17 DEF DspExecutes, TypeOK
<1>18. ASSUME NEW i \in DOMAIN out, DspFails(i) PROVE TypeOK'
  BY <1>14, <1>18 DEF DspFails, TypeOK
<1>19. CASE UNCHANGED vars
  BY <1>19 DEF vars, TypeOK
<1> QED
  BY NextIsSteps, <1>1, <1>2, <1>3, <1>4, <1>5, <1>6, <1>7, <1>8, <1>9, <1>10, <1>11, <1>12, <1>13,
     <1>15, <1>16, <1>17, <1>18, <1>19 DEF Steps

\* A step that neither takes nor returns a client id keeps the client map as it is.
LEMMA MapKept ==
    ASSUME BaseInv, cmap' = cmap,
           \A h \in Handles : /\ handle'[h].client = handle[h].client
                              /\ handle'[h].st = "closed" <=> handle[h].st = "closed"
                              /\ handle'[h].buf = handle[h].buf
    PROVE  HandleInv' /\ MapInv'
<1>1. HandleInv'
  BY DEF BaseInv, HandleInv
<1>2. MapInv'
  BY DEF BaseInv, MapInv, Links, Cycle
<1> QED BY <1>1, <1>2

\* xf_client_alloc takes the head of the list, and the rest is a cycle still.
LEMMA MapOpened ==
    ASSUME BaseInv, NEW h \in Handles, NEW b \in Buffers, FreeHead # 0, handle[h].st = "closed",
           cmap' = Allocated(h),
           handle' = [handle EXCEPT ![h] =
                        [st |-> "opening", client |-> FreeHead, comp |-> None, buf |-> b]]
    PROVE  HandleInv' /\ MapInv'
<1> DEFINE f == FreeHead
<1>0. \A c \in Links : c \in Clients /\ cmap[c] \in Links
  BY DEF BaseInv, MapInv, Cycle, Links
<1>1. /\ 0 \in Links /\ f \in Links /\ f # 0 /\ f \in Clients /\ cmap[f] \in Links
      /\ cmap[0] = f /\ cmap[f] # f
  BY DEF BaseInv, MapInv, Cycle, FreeHead, Links
<1>2. /\ cmap' = [cmap EXCEPT ![0] = cmap[f], ![f] = h] /\ cmap' \in [Clients -> Clients \cup Handles]
      /\ cmap'[0] = cmap[f] /\ cmap'[f] = h
      /\ \A c \in Clients \ {0, f} : cmap'[c] = cmap[c]
  BY <1>1, ClientIds DEF Allocated, BaseInv, TypeOK
<1> HIDE DEF f
<1>3. Links' = Links \ {f}
  BY <1>1, <1>2, ClientIds DEF Links
<1>4. \A c \in Links' : cmap'[c] \in Links'
  <2>1. \A c \in Links \ {0, f} : cmap[c] # f
    BY <1>1 DEF BaseInv, MapInv
  <2> QED BY <1>0, <1>1, <1>2, <1>3, <2>1
<1>5. \A c, d \in Links' : cmap'[c] = cmap'[d] => c = d
  BY <1>1, <1>2, <1>3 DEF BaseInv, MapInv, Links
<1>6. ASSUME NEW S \in SUBSET Links', Cycle(S)' PROVE S = Links'
  <2>1. Cycle(S \cup {f})
    BY <1>1, <1>2, <1>3, <1>6 DEF Cycle, Links
  <2>2. S \cup {f} = Links
    BY <1>1, <1>3, <2>1 DEF BaseInv, MapInv
  <2> QED BY <1>3, <1>6, <2>2
<1>7. MapInv'
  BY <1>1, <1>3, <1>4, <1>5, <1>6 DEF MapInv, Cycle
<1>8. HandleInv'
  <2>1. handle'[h].st = "opening" /\ handle'[h].client = f /\ handle'[h].buf = b
    BY DEF f, BaseInv, TypeOK
  <2>2. \A g \in Handles \ {h} : handle'[g] = handle[g]
    BY DEF BaseInv, TypeOK
  <2>3. \A g \in Handles \ {h} : handle[g].st # "closed" => handle[g].client \in Clients \ {0, f}
    BY <1>1, ClientIds DEF BaseInv, HandleInv, TypeOK, Links
  <2>4. \A c \in Clients : cmap'[c] \in Handles => handle'[cmap'[c]].client = c
    BY <1>1, <1>2, <2>1, <2>2, ClientIds DEF BaseInv, HandleInv, Links
  <2> QED BY <1>1, <1>2, <2>1, <2>2, <2>3, <2>4 DEF BaseInv, HandleInv
<1> QED BY <1>7, <1>8

\* xf_client_free puts an id behind the head of the list.
LEMMA MapFreed ==
    ASSUME BaseInv, NEW h \in Handles, handle[h].st # "closed", Destroyed(h)
    PROVE  HandleInv' /\ MapInv'
<1> DEFINE f == handle[h].client
<1>0. \A c \in Links : c \in Clients /\ cmap[c] \in Links
  BY DEF BaseInv, MapInv, Cycle, Links
<1>1. /\ 0 \in Links /\ f # 0 /\ f \in Clients /\ cmap[f] = h /\ f \notin Links /\ cmap[0] \in Links
  BY ClientIds DEF BaseInv, TypeOK, HandleInv, MapInv, Cycle, Links
<1>2. /\ cmap'[0] = f /\ cmap'[f] = cmap[0]
      /\ \A c \in Clients \ {0, f} : cmap'[c] = cmap[c]
  BY <1>1, ClientIds DEF Destroyed, Freed, FreeHead, BaseInv, TypeOK
<1> HIDE DEF f
<1>3. Links' = Links \cup {f}
  BY <1>1, <1>2, ClientIds DEF Links
<1>4. \A c \in Links' : cmap'[c] \in Links'
  BY <1>0, <1>1, <1>2, <1>3
<1>5. \A c, d \in Links' : cmap'[c] = cmap'[d] => c = d
  BY <1>1, <1>2, <1>3 DEF BaseInv, MapInv, Links, Cycle
<1>6. ASSUME NEW S \in SUBSET Links', Cycle(S)' PROVE S = Links'
  <2>1. f \in S /\ cmap[0] \in S
    BY <1>1, <1>2, <1>6 DEF Cycle
  <2>2. Cycle(S \ {f})
    <3>1. S \subseteq Links \cup {f} /\ 0 \in S /\ \A c \in S : cmap'[c] \in S
      BY <1>3, <1>6 DEF Cycle
    <3>2. \A c \in S \ {f} : cmap[c] \in S /\ cmap[c] # f
      BY <1>0, <1>1, <1>2, <2>1, <3>1
    <3> QED BY <1>1, <3>1, <3>2 DEF Cycle
  <2>3. S \ {f} = Links
    BY <1>3, <2>2 DEF BaseInv, MapInv
  <2> QED BY <1>3, <2>1, <2>3
<1>7. MapInv'
  BY <1>1, <1>3, <1>4, <1>5, <1>6 DEF MapInv, Cycle
<1>8. HandleInv'
  <2>1. /\ handle'[h].st = "closed" /\ handle'[h].client = 0
        /\ \A g \in Handles \ {h} : handle'[g] = handle[g]
    BY DEF Destroyed, Closed, BaseInv, TypeOK
  <2>2. \A g \in Handles \ {h} : handle[g].st # "closed" => handle[g].client \in Clients \ {0, f}
    BY <1>1 DEF BaseInv, HandleInv, TypeOK
  <2>3. \A c \in Clients : cmap'[c] \in Handles => c \in Clients \ {0, f} /\ cmap[c] # h
    BY <1>1, <1>2, ClientIds DEF BaseInv, HandleInv, Links, f
  <2> QED BY <1>1, <1>2, <2>1, <2>2, <2>3 DEF BaseInv, HandleInv
<1> QED BY <1>7, <1>8

\* While nobody has the lock nobody is in a call; so the one who begins is alone.
LEMMA NobodyBusy ==
    ASSUME BaseInv, lock = None
    PROVE  \A t \in Threads : ~Busy(t)
BY NoneAssumption DEF BaseInv, CallInv

\* There is one caller at a time.
LEMMA OneBusy ==
    ASSUME BaseInv, NEW t \in Threads, Busy(t)
    PROVE  \A u \in Threads \ {t} : ~Busy(u)
BY DEF BaseInv, CallInv

\* The one who begins has the lock.
LEMMA CallBegins ==
    ASSUME BaseInv, NEW t \in Threads, NEW c \in Cmds, NEW r \in Request, Begin(t, c, r),
           r.op \in {"register", "unregister", "call", "config"},
           r.op = "register" => r.handle \in Handles /\ handle'[r.handle].st = "opening",
           r.op = "unregister" => r.handle \in Handles /\ handle'[r.handle].st = "closing",
           r.op = "call" => r.buf \in Buffers
    PROVE  CallInv'
<1>1. /\ thread'[t].asked = r /\ lock' = t
      /\ \A u \in Threads \ {t} : thread'[u] = thread[u]
  BY DEF Begin, BaseInv, TypeOK
<1>2. \A u \in Threads \ {t} : thread'[u].pc = "idle"
  BY <1>1, NobodyBusy DEF Begin, LockIsFree, Busy
<1> QED BY <1>1, <1>2 DEF CallInv, Busy

\* Nobody has the lock after a call.
LEMMA CallLeaves ==
    ASSUME BaseInv, NEW t \in Threads, NEW op, Leaves(t, op)
    PROVE  CallInv'
<1>1. thread'[t].pc = "idle" /\ \A u \in Threads \ {t} : thread'[u] = thread[u]
  BY DEF Leaves, Idle, BaseInv, TypeOK
<1>2. \A u \in Threads \ {t} : thread'[u].pc = "idle"
  BY <1>1, OneBusy DEF Leaves, Busy
<1> QED BY <1>1, <1>2 DEF CallInv, Busy

\* A step that leaves the lock, the handles' states and what is asked is none of CallInv's.
LEMMA CallKept ==
    ASSUME BaseInv, lock' = lock, handle' = handle,
           \A t \in Threads : /\ thread'[t].pc = "idle" <=> thread[t].pc = "idle"
                              /\ thread'[t].asked = thread[t].asked
    PROVE  CallInv'
BY DEF BaseInv, CallInv, Busy

\* Every step keeps the lock, the handles and the client map together.
LEMMA BaseStep ==
    ASSUME BaseInv, [Next]_vars
    PROVE  BaseInv'
<1>t. TypeOK'
  BY TypeStep
<1> USE DEF BaseInv
<1>1. ASSUME NEW t \in Threads, NEW h \in Handles, NEW c \in Cmds, NEW b \in Buffers, Open(t, h, c, b)
      PROVE  BaseInv'
  <2> DEFINE r == [op |-> "register", handle |-> h, client |-> 0, comp |-> None, buf |-> b]
  <2>1. r \in Request /\ handle'[h].st = "opening"
    BY <1>1, ClientIds DEF Request, Open, TypeOK
  <2>2. Begin(t, c, r)
    BY <1>1 DEF Open
  <2> HIDE DEF r
  <2>3. CallInv'
    BY <2>1, <2>2, CallBegins DEF r
  <2>4. HandleInv' /\ MapInv'
    BY <1>1, MapOpened DEF Open
  <2> QED BY <1>t, <2>3, <2>4
<1>2. ASSUME NEW t \in Threads, NEW h \in Handles, NEW c \in Cmds, Close(t, h, c) PROVE BaseInv'
  <2> DEFINE r == [op |-> "unregister", handle |-> h, client |-> 0, comp |-> handle[h].comp, buf |-> None]
  <2>1. /\ r \in Request /\ handle[h].st = "open" /\ handle' = [handle EXCEPT ![h].st = "closing"]
        /\ handle'[h].st = "closing" /\ cmap' = cmap
    BY <1>2, ClientIds DEF Request, Close, TypeOK
  <2>2. Begin(t, c, r)
    BY <1>2 DEF Close
  <2> HIDE DEF r
  <2>3. CallInv'
    BY <2>1, <2>2, CallBegins DEF r
  <2>4. HandleInv' /\ MapInv'
    BY <2>1, MapKept DEF TypeOK
  <2> QED BY <1>t, <2>3, <2>4
<1>3. ASSUME NEW t \in Threads, NEW h \in Handles, NEW c \in Cmds, NEW b \in Buffers, Call(t, h, c, b)
      PROVE  BaseInv'
  <2> DEFINE r == [op |-> "call", handle |-> h, client |-> 0, comp |-> handle[h].comp, buf |-> b]
  <2>1. r \in Request
    BY ClientIds DEF Request, TypeOK
  <2>2. Begin(t, c, r) /\ UNCHANGED <<cmap, handle>>
    BY <1>3 DEF Call
  <2> HIDE DEF r
  <2>3. CallInv'
    BY <2>1, <2>2, CallBegins DEF r
  <2>4. HandleInv' /\ MapInv'
    BY <2>2, MapKept
  <2> QED BY <1>t, <2>3, <2>4
<1>4. ASSUME NEW t \in Threads, NEW h \in Handles, NEW c \in Cmds, Config(t, h, c) PROVE BaseInv'
  <2> DEFINE r == [op |-> "config", handle |-> h, client |-> 0, comp |-> handle[h].comp, buf |-> handle[h].buf]
  <2>1. r \in Request
    BY ClientIds DEF Request, TypeOK
  <2>2. Begin(t, c, r) /\ UNCHANGED <<cmap, handle>>
    BY <1>4 DEF Config
  <2> HIDE DEF r
  <2>3. CallInv'
    BY <2>1, <2>2, CallBegins DEF r
  <2>4. HandleInv' /\ MapInv'
    BY <2>2, MapKept
  <2> QED BY <1>t, <2>3, <2>4
<1>5. ASSUME UNCHANGED <<lock, cmap, handle, thread>> PROVE BaseInv'
  BY <1>t, <1>5, MapKept, CallKept
<1>6. ASSUME NEW h \in Handles, NEW c \in Cmds, Data(h, c) PROVE BaseInv'
  BY <1>5, <1>6 DEF Data
<1>7. ASSUME NEW h \in Handles, Read(h) PROVE BaseInv'
  BY <1>5, <1>7 DEF Read
<1>8. ASSUME NEW t \in Threads, TakeAnswer(t) \/ TimesOut(t) PROVE BaseInv'
  <2>1. /\ UNCHANGED <<lock, cmap, handle>> /\ thread[t].pc = "waiting"
        /\ thread'[t].pc = "answered" /\ thread'[t].asked = thread[t].asked
        /\ \A u \in Threads \ {t} : thread'[u] = thread[u]
    BY <1>8 DEF TakeAnswer, TimesOut, TypeOK
  <2>2. CallInv'
    BY <2>1, CallKept
  <2> QED BY <1>t, <2>1, <2>2, MapKept
<1>9. ASSUME NEW t \in Threads, OpenReturns(t) PROVE BaseInv'
  <2>1. thread[t].asked.handle \in Handles /\ handle[thread[t].asked.handle].st = "opening"
    BY <1>9 DEF OpenReturns, Leaves, CallInv, Busy
  <2>2. CallInv'
    BY <1>9, CallLeaves DEF OpenReturns
  <2>3. HandleInv' /\ MapInv'
    <3>1. CASE Destroyed(thread[t].asked.handle)
      BY <2>1, <3>1, MapFreed
    <3>2. CASE /\ handle' = [handle EXCEPT ![thread[t].asked.handle].st = "open",
                                           ![thread[t].asked.handle].comp = thread[t].answer.comp]
               /\ cmap' = cmap
      BY <2>1, <3>2, MapKept DEF TypeOK
    <3> QED BY <1>9, <3>1, <3>2 DEF OpenReturns
  <2> QED BY <1>t, <2>2, <2>3
<1>10. ASSUME NEW t \in Threads, CloseReturns(t) PROVE BaseInv'
  <2>1. thread[t].asked.handle \in Handles /\ handle[thread[t].asked.handle].st = "closing"
    BY <1>10 DEF CloseReturns, Leaves, CallInv, Busy
  <2>2. CallInv'
    BY <1>10, CallLeaves DEF CloseReturns
  <2> QED BY <1>t, <1>10, <2>1, <2>2, MapFreed DEF CloseReturns
<1>11. ASSUME NEW t \in Threads, CallReturns(t) \/ ConfigReturns(t) PROVE BaseInv'
  <2>1. CallInv'
    BY <1>11, CallLeaves DEF CallReturns, ConfigReturns
  <2> QED BY <1>t, <1>11, <2>1, MapKept DEF CallReturns, ConfigReturns
<1>12. CASE ProxyDelivers
  BY <1>5, <1>12 DEF ProxyDelivers
<1>13. ASSUME NEW i \in DOMAIN out, NEW k \in Components, DspRegisters(i, k) PROVE BaseInv'
  BY <1>5, <1>13 DEF DspRegisters, Answers
<1>14. ASSUME NEW i \in DOMAIN out, DspUnregisters(i) \/ DspExecutes(i) \/ DspFails(i) PROVE BaseInv'
  BY <1>5, <1>14 DEF DspUnregisters, DspExecutes, DspFails, Answers
<1>15. CASE UNCHANGED vars
  BY <1>5, <1>15 DEF vars
<1> QED
  BY NextIsSteps, <1>1, <1>2, <1>3, <1>4, <1>6, <1>7, <1>8, <1>9, <1>10, <1>11, <1>12, <1>13, <1>14, <1>15
     DEF Steps

\* One inductive invariant of the lock, the handles and the client map.
THEOREM BaseInvariant == Spec => []BaseInv
BY BaseInit, BaseStep, PTL DEF Spec

\* Every variable keeps its type. That a client id is taken from the free list, and never a
\* handle from its head, rests on the shape of the list.
THEOREM TypeCorrect == Spec => []TypeOK
BY BaseInvariant, PTL DEF BaseInv

\* No time-out, failed opening or late answer loses a local client id or gives one away twice:
\* each is on the free list that xf_client_alloc and xf_client_free keep, or names the one
\* handle that has it.
THEOREM ClientIdsConserved == Spec => []ClientsConserved
<1>1. BaseInv => ClientsConserved
  <2> SUFFICES ASSUME BaseInv PROVE ClientsConserved
    OBVIOUS
  <2>1. FreeClients = Links
    <3>1. Closes(Links) /\ Links \in SUBSET Clients
      BY DEF BaseInv, MapInv, Cycle, Links, Closes
    <3>2. ASSUME NEW S \in SUBSET Clients, Closes(S) PROVE Links \subseteq S
      <4>1. Cycle(S \cap Links)
        BY <3>2 DEF BaseInv, MapInv, Cycle, Closes, Links
      <4>2. S \cap Links = Links
        BY <4>1 DEF BaseInv, MapInv
      <4> QED BY <4>2
    <3> QED BY <3>1, <3>2 DEF FreeClients, Links
  <2>2. ASSUME NEW c \in Clients \ {0}, c \in Links, NEW h \in Handles PROVE handle[h].client # c
    BY <2>2, ClientIds DEF BaseInv, HandleInv, Links
  <2>3. ASSUME NEW c \in Clients \ {0}, c \notin Links
        PROVE  cmap[c] \in Handles /\ handle[cmap[c]].client = c
    BY <2>3 DEF BaseInv, HandleInv, Links, TypeOK
  <2> QED BY <2>1, <2>2, <2>3 DEF ClientsConserved
<1> QED BY <1>1, BaseInvariant, PTL

-----------------------------------------------------------------------------
(* Where commands are.                                                     *)

Elements(q) == {q[i] : i \in DOMAIN q}
Distinct(q) == \A i, j \in DOMAIN q : q[i] = q[j] => i = j
Ids(q) == {q[i].cmd : i \in DOMAIN q}
DistinctIds(q) == \A i, j \in DOMAIN q : q[i].cmd = q[j].cmd => i = j
InBoxes == UNION {Ids(box[h]) : h \in Handles}
Transit == Elements(out) \cup Ids(resp) \cup Ids(inbox) \cup InBoxes

\* A command that was sent is in one place until its answer is taken.
PlaceInv ==
    /\ Distinct(out) /\ DistinctIds(resp) /\ DistinctIds(inbox)
    /\ \A h \in Handles : DistinctIds(box[h])
    /\ Elements(out) \cap (Ids(resp) \cup Ids(inbox) \cup InBoxes) = {}
    /\ Ids(resp) \cap (Ids(inbox) \cup InBoxes) = {}
    /\ Ids(inbox) \cap InBoxes = {}
    /\ \A g, h \in Handles : g # h => Ids(box[g]) \cap Ids(box[h]) = {}
    /\ \A c \in Transit : c \in Cmds /\ cmd[c] # Blank

\* What a queue of answers holds after one more ...
LEMMA AppendIds ==
    ASSUME NEW q \in Seq(Answer), NEW a \in Answer
    PROVE  /\ Ids(Append(q, a)) = Ids(q) \cup {a.cmd}
           /\ DistinctIds(q) /\ a.cmd \notin Ids(q) => DistinctIds(Append(q, a))
<1>1. /\ Len(Append(q, a)) = Len(q) + 1 /\ Len(q) \in Nat
      /\ DOMAIN Append(q, a) = 1 .. Len(q) + 1 /\ DOMAIN q = 1 .. Len(q)
      /\ \A i \in 1 .. Len(q) : Append(q, a)[i] = q[i]
      /\ Append(q, a)[Len(q) + 1] = a
  OBVIOUS
<1>2. 1 .. Len(q) + 1 = (1 .. Len(q)) \cup {Len(q) + 1}
  BY <1>1
<1>3. Ids(Append(q, a)) = Ids(q) \cup {a.cmd}
  <2>1. ASSUME NEW e \in Ids(Append(q, a)) PROVE e \in Ids(q) \cup {a.cmd}
    BY <1>1, <1>2 DEF Ids
  <2>2. ASSUME NEW e \in Ids(q) \cup {a.cmd} PROVE e \in Ids(Append(q, a))
    BY <1>1, <1>2 DEF Ids
  <2> QED BY <2>1, <2>2
<1>4. DistinctIds(q) /\ a.cmd \notin Ids(q) => DistinctIds(Append(q, a))
  BY <1>1, <1>2 DEF DistinctIds, Ids
<1> QED BY <1>3, <1>4

\* ... and after one less.
LEMMA TailIds ==
    ASSUME NEW q \in Seq(Answer), q # <<>>
    PROVE  /\ Head(q) \in Answer /\ Tail(q) \in Seq(Answer)
           /\ Ids(q) = {Head(q).cmd} \cup Ids(Tail(q))
           /\ DistinctIds(q) => DistinctIds(Tail(q)) /\ Ids(Tail(q)) = Ids(q) \ {Head(q).cmd}
<1>1. /\ Head(q) \in Answer /\ Tail(q) \in Seq(Answer) /\ Head(q) = q[1]
      /\ Len(q) \in Nat \ {0} /\ Len(Tail(q)) = Len(q) - 1
      /\ DOMAIN q = 1 .. Len(q) /\ DOMAIN Tail(q) = 1 .. Len(q) - 1
      /\ \A i \in 1 .. Len(q) - 1 : Tail(q)[i] = q[i + 1]
  OBVIOUS
<1>2. /\ \A i \in 1 .. Len(q) : i = 1 \/ (i - 1 \in 1 .. Len(q) - 1 /\ (i - 1) + 1 = i)
      /\ \A i \in 1 .. Len(q) - 1 : i + 1 \in 1 .. Len(q) /\ i + 1 # 1
      /\ 1 \in 1 .. Len(q)
  BY <1>1
<1>3. Ids(q) = {Head(q).cmd} \cup Ids(Tail(q))
  <2>1. ASSUME NEW i \in 1 .. Len(q), i # 1 PROVE q[i].cmd \in Ids(Tail(q))
    <3>1. Tail(q)[i - 1] = q[i] /\ i - 1 \in DOMAIN Tail(q)
      BY <1>1, <1>2, <2>1
    <3> QED BY <3>1 DEF Ids
  <2>2. ASSUME NEW i \in 1 .. Len(q) - 1 PROVE Tail(q)[i].cmd \in Ids(q)
    BY <1>1, <1>2 DEF Ids
  <2> QED BY <1>1, <1>2, <2>1, <2>2 DEF Ids
<1>4. ASSUME DistinctIds(q) PROVE DistinctIds(Tail(q)) /\ Head(q).cmd \notin Ids(Tail(q))
  BY <1>1, <1>2, <1>4 DEF DistinctIds, Ids
<1> QED BY <1>1, <1>3, <1>4

\* What a queue holds after one more ...
LEMMA AppendElements ==
    ASSUME NEW S, NEW q \in Seq(S), NEW c \in S
    PROVE  /\ Elements(Append(q, c)) = Elements(q) \cup {c}
           /\ Distinct(q) /\ c \notin Elements(q) => Distinct(Append(q, c))
<1>1. /\ Len(Append(q, c)) = Len(q) + 1 /\ Len(q) \in Nat
      /\ DOMAIN Append(q, c) = 1 .. Len(q) + 1 /\ DOMAIN q = 1 .. Len(q)
      /\ \A i \in 1 .. Len(q) : Append(q, c)[i] = q[i]
      /\ Append(q, c)[Len(q) + 1] = c
  OBVIOUS
<1>2. 1 .. Len(q) + 1 = (1 .. Len(q)) \cup {Len(q) + 1}
  BY <1>1
<1>3. Elements(Append(q, c)) = Elements(q) \cup {c}
  <2>1. ASSUME NEW e \in Elements(Append(q, c)) PROVE e \in Elements(q) \cup {c}
    BY <1>1, <1>2 DEF Elements
  <2>2. ASSUME NEW e \in Elements(q) \cup {c} PROVE e \in Elements(Append(q, c))
    BY <1>1, <1>2 DEF Elements
  <2> QED BY <2>1, <2>2
<1>4. Distinct(q) /\ c \notin Elements(q) => Distinct(Append(q, c))
  BY <1>1, <1>2 DEF Distinct, Elements
<1> QED BY <1>3, <1>4

\* ... and after one is taken from its middle.
LEMMA RemoveElements ==
    ASSUME NEW q \in Seq(Cmds), NEW k \in DOMAIN q, Distinct(q)
    PROVE  /\ Elements(RemoveAt(q, k)) = Elements(q) \ {q[k]}
           /\ Distinct(RemoveAt(q, k))
<1> DEFINE p == RemoveAt(q, k)
<1>1. /\ DOMAIN p = 1 .. Len(q) - 1 /\ DOMAIN q = 1 .. Len(q) /\ Len(q) \in Nat /\ k \in 1 .. Len(q)
      /\ \A i \in 1 .. Len(q) - 1 : p[i] = IF i < k THEN q[i] ELSE q[i + 1]
  BY RemoveAtProperties
<1> HIDE DEF p
<1>2. ASSUME NEW i \in DOMAIN p PROVE p[i] \in Elements(q) \ {q[k]}
  <2>1. i \in 1 .. Len(q) /\ i + 1 \in 1 .. Len(q) /\ (i < k => i # k) /\ (~(i < k) => i + 1 # k)
    BY <1>1
  <2> QED BY <1>1, <2>1 DEF Elements, Distinct
<1>3. ASSUME NEW i \in DOMAIN q, i # k PROVE q[i] \in Elements(p)
  <2>1. CASE i < k
    BY <1>1, <2>1 DEF Elements
  <2>2. CASE i > k
    <3>1. i - 1 \in 1 .. Len(q) - 1 /\ ~(i - 1 < k) /\ (i - 1) + 1 = i
      BY <1>1, <2>2
    <3>2. p[i - 1] = q[i]
      BY <1>1, <3>1
    <3> QED BY <1>1, <3>1, <3>2 DEF Elements
  <2> QED BY <1>1, <1>3, <2>1, <2>2
<1>4. Distinct(p)
  BY <1>1 DEF Distinct
<1> QED BY <1>2, <1>3, <1>4 DEF p, Elements

\* Nothing is under way.
LEMMA PlaceInit == Init => PlaceInv
BY DEF Init, PlaceInv, Elements, Distinct, Ids, DistinctIds, InBoxes, Transit

\* A new command goes to the DSP.
LEMMA PlaceSubmitted ==
    ASSUME BaseInv, PlaceInv, NEW c \in Cmds, NEW r \in Request, r.op # "none", Submit(c, r),
           UNCHANGED <<resp, inbox, box>>
    PROVE  PlaceInv'
<1>1. /\ c \notin Transit
      /\ Elements(out') = Elements(out) \cup {c} /\ Distinct(out')
      /\ \A d \in Cmds : cmd'[d] = IF d = c THEN r ELSE cmd[d]
      /\ r # Blank
  BY AppendElements DEF Submit, PlaceInv, BaseInv, TypeOK, Transit, Blank
<1>2. UNCHANGED <<Ids(resp), Ids(inbox), InBoxes>> /\ \A h \in Handles : box'[h] = box[h]
  BY DEF InBoxes
<1>3. Transit' = Transit \cup {c}
  BY <1>1, <1>2 DEF Transit
<1> QED BY <1>1, <1>2, <1>3 DEF PlaceInv, Transit

\* Its answer moves on.
LEMMA PlaceAnswered ==
    ASSUME BaseInv, PlaceInv, NEW i \in DOMAIN out, NEW op, NEW k,
           [cmd |-> out[i], op |-> op, comp |-> k] \in Answer, Answers(i, op, k)
    PROVE  PlaceInv'
<1>1. /\ Elements(out') = Elements(out) \ {out[i]} /\ Distinct(out') /\ out[i] \in Elements(out)
      /\ out[i] \in Cmds
  <2>1. out \in Seq(Cmds) /\ Distinct(out) /\ out' = RemoveAt(out, i)
    BY DEF Answers, PlaceInv, BaseInv, TypeOK
  <2>2. Elements(RemoveAt(out, i)) = Elements(out) \ {out[i]} /\ Distinct(RemoveAt(out, i))
    BY <2>1, RemoveElements
  <2>3. out[i] \in Cmds /\ out[i] \in Elements(out)
    BY <2>1 DEF Elements
  <2> QED BY <2>1, <2>2, <2>3
<1>2. Ids(resp') = Ids(resp) \cup {out[i]} /\ DistinctIds(resp')
  BY <1>1, AppendIds DEF Answers, PlaceInv, BaseInv, TypeOK
<1>3. UNCHANGED <<Ids(inbox), InBoxes, inbox, box, cmd>>
  BY DEF Answers, InBoxes
<1>4. Transit' = Transit
  BY <1>1, <1>2, <1>3 DEF Transit
<1> QED BY <1>1, <1>2, <1>3, <1>4 DEF PlaceInv

\* What one handle's queue holds after a change to it.
LEMMA BoxChanged ==
    ASSUME BaseInv, NEW h \in Handles, NEW q, box' = [box EXCEPT ![h] = q]
    PROVE  /\ box'[h] = q /\ \A g \in Handles \ {h} : box'[g] = box[g]
           /\ InBoxes' = Ids(q) \cup UNION {Ids(box[g]) : g \in Handles \ {h}}
           /\ InBoxes = Ids(box[h]) \cup UNION {Ids(box[g]) : g \in Handles \ {h}}
<1>1. box'[h] = q /\ \A g \in Handles \ {h} : box'[g] = box[g]
  BY DEF BaseInv, TypeOK
<1> QED BY <1>1 DEF InBoxes

\* The proxy thread hands it on or drops it.
LEMMA PlaceDelivered ==
    ASSUME BaseInv, PlaceInv, ProxyDelivers
    PROVE  PlaceInv'
<1> DEFINE a == Head(resp)
<1>1. /\ a \in Answer /\ Ids(resp') = Ids(resp) \ {a.cmd} /\ a.cmd \in Ids(resp) /\ DistinctIds(resp')
      /\ out' = out /\ a.cmd \in Cmds /\ a.cmd \notin Elements(out) \cup Ids(inbox) \cup InBoxes
  BY TailIds DEF ProxyDelivers, PlaceInv, BaseInv, TypeOK, Transit
<1> HIDE DEF a
<1>2. CASE inbox' = Append(inbox, a) /\ UNCHANGED <<box, cmd>>
  <2>1. Ids(inbox') = Ids(inbox) \cup {a.cmd} /\ DistinctIds(inbox')
    BY <1>1, <1>2, AppendIds DEF PlaceInv, BaseInv, TypeOK
  <2>2. InBoxes' = InBoxes
    BY <1>2 DEF InBoxes
  <2>3. Transit' = Transit
    BY <1>1, <2>1, <2>2 DEF Transit
  <2> QED BY <1>1, <1>2, <2>1, <2>2, <2>3 DEF PlaceInv
<1>3. ASSUME NEW h \in Handles, box' = [box EXCEPT ![h] = Append(@, a)], UNCHANGED <<inbox, cmd>>
      PROVE  PlaceInv'
  <2>1. box[h] \in Seq(Answer) /\ box' = [box EXCEPT ![h] = Append(box[h], a)]
    BY <1>3 DEF BaseInv, TypeOK
  <2>2. /\ Ids(Append(box[h], a)) = Ids(box[h]) \cup {a.cmd}
        /\ a.cmd \notin Ids(box[h]) /\ DistinctIds(Append(box[h], a))
    BY <1>1, <2>1, AppendIds DEF InBoxes, PlaceInv
  <2>3. /\ box'[h] = Append(box[h], a) /\ \A g \in Handles \ {h} : box'[g] = box[g]
        /\ InBoxes' = InBoxes \cup {a.cmd}
    BY <2>1, <2>2, BoxChanged
  <2>4. Transit' = Transit
    BY <1>1, <1>3, <2>3 DEF Transit
  <2>5. \A g \in Handles : a.cmd \notin Ids(box[g])
    BY <1>1 DEF InBoxes
  <2>6. /\ \A g \in Handles : DistinctIds(box'[g])
        /\ \A f, g \in Handles : f # g => Ids(box'[f]) \cap Ids(box'[g]) = {}
    <3>1. \A g \in Handles : DistinctIds(box[g])
      BY DEF PlaceInv
    <3>2. \A f, g \in Handles : f # g => Ids(box[f]) \cap Ids(box[g]) = {}
      BY DEF PlaceInv
    <3>3. /\ Ids(box'[h]) = Ids(box[h]) \cup {a.cmd} /\ DistinctIds(box'[h])
          /\ \A g \in Handles \ {h} : Ids(box'[g]) = Ids(box[g]) /\ DistinctIds(box'[g])
      BY <2>2, <2>3, <3>1
    <3>4. ASSUME NEW f \in Handles, NEW g \in Handles, f # g
          PROVE  Ids(box'[f]) \cap Ids(box'[g]) = {}
      <4>1. CASE f = h
        BY <2>5, <3>2, <3>3, <3>4, <4>1
      <4>2. CASE g = h
        BY <2>5, <3>2, <3>3, <3>4, <4>2
      <4>3. CASE f # h /\ g # h
        BY <3>2, <3>3, <3>4, <4>3
      <4> QED BY <4>1, <4>2, <4>3
    <3> QED BY <3>3, <3>4
  <2>7. /\ Distinct(out') /\ DistinctIds(resp') /\ DistinctIds(inbox')
        /\ Elements(out') \cap (Ids(resp') \cup Ids(inbox') \cup InBoxes') = {}
        /\ Ids(resp') \cap (Ids(inbox') \cup InBoxes') = {} /\ Ids(inbox') \cap InBoxes' = {}
        /\ \A c \in Transit' : c \in Cmds /\ cmd'[c] # Blank
    BY <1>1, <1>3, <2>3, <2>4 DEF PlaceInv
  <2> QED BY <2>6, <2>7 DEF PlaceInv
<1>4. CASE cmd' = [cmd EXCEPT ![a.cmd] = Blank] /\ UNCHANGED <<inbox, box>>
  <2>1. InBoxes' = InBoxes
    BY <1>4 DEF InBoxes
  <2>2. Transit' = Transit \ {a.cmd} /\ \A c \in Cmds \ {a.cmd} : cmd'[c] = cmd[c]
    BY <1>1, <1>4, <2>1 DEF Transit, BaseInv, TypeOK
  <2> QED BY <1>1, <1>4, <2>1, <2>2 DEF PlaceInv
<1>5. ToHandle(a.cmd) # None => ToHandle(a.cmd) \in Handles
  BY DEF ToHandle, MappedTo
<1> QED BY <1>2, <1>3, <1>4, <1>5 DEF ProxyDelivers, a

\* It is read by the handle's owner or by the thread that waits, or lost with its handle.
LEMMA PlaceRead ==
    ASSUME BaseInv, PlaceInv, NEW h \in Handles, Read(h)
    PROVE  PlaceInv'
<1> DEFINE a == Head(box[h])
<1>1. /\ box[h] \in Seq(Answer) /\ box[h] # <<>> /\ box' = [box EXCEPT ![h] = Tail(box[h])]
      /\ UNCHANGED <<out, resp, inbox>> /\ cmd' = [cmd EXCEPT ![a.cmd] = Blank]
  BY DEF Read, BaseInv, TypeOK
<1>2. /\ Ids(Tail(box[h])) = Ids(box[h]) \ {a.cmd} /\ DistinctIds(Tail(box[h])) /\ a.cmd \in Ids(box[h])
  BY <1>1, TailIds DEF PlaceInv
<1>3. a.cmd \in Cmds /\ a.cmd \notin Elements(out) \cup Ids(resp) \cup Ids(inbox)
      /\ \A g \in Handles \ {h} : a.cmd \notin Ids(box[g])
  BY <1>2 DEF PlaceInv, InBoxes, Transit
<1>4. /\ box'[h] = Tail(box[h]) /\ \A g \in Handles \ {h} : box'[g] = box[g]
      /\ InBoxes' = InBoxes \ {a.cmd}
  <2> DEFINE others == UNION {Ids(box[g]) : g \in Handles \ {h}}
  <2>1. /\ box'[h] = Tail(box[h]) /\ \A g \in Handles \ {h} : box'[g] = box[g]
        /\ InBoxes' = Ids(Tail(box[h])) \cup others /\ InBoxes = Ids(box[h]) \cup others
    BY <1>1, BoxChanged
  <2>2. a.cmd \notin others
    BY <1>3
  <2> HIDE DEF others
  <2> QED BY <1>2, <2>1, <2>2
<1> HIDE DEF a
<1>5. Transit' = Transit \ {a.cmd} /\ \A c \in Cmds \ {a.cmd} : cmd'[c] = cmd[c]
  BY <1>1, <1>3, <1>4 DEF Transit, BaseInv, TypeOK
<1> QED BY <1>1, <1>2, <1>3, <1>4, <1>5 DEF PlaceInv

\* The thread that waits takes it.
LEMMA PlaceTaken ==
    ASSUME BaseInv, PlaceInv, NEW t \in Threads, TakeAnswer(t)
    PROVE  PlaceInv'
<1> DEFINE a == Head(inbox)
<1>1. /\ inbox \in Seq(Answer) /\ inbox # <<>> /\ inbox' = Tail(inbox)
      /\ UNCHANGED <<out, resp, box, InBoxes>> /\ cmd' = [cmd EXCEPT ![a.cmd] = Blank]
  BY DEF TakeAnswer, BaseInv, TypeOK, InBoxes
<1>2. /\ Ids(inbox') = Ids(inbox) \ {a.cmd} /\ DistinctIds(inbox') /\ a.cmd \in Ids(inbox)
  BY <1>1, TailIds DEF PlaceInv
<1>3. a.cmd \in Cmds /\ a.cmd \notin Elements(out) \cup Ids(resp) \cup InBoxes
  BY <1>2 DEF PlaceInv, Transit
<1> HIDE DEF a
<1>4. Transit' = Transit \ {a.cmd} /\ \A c \in Cmds \ {a.cmd} : cmd'[c] = cmd[c]
  BY <1>1, <1>2, <1>3 DEF Transit, BaseInv, TypeOK
<1> QED BY <1>1, <1>2, <1>3, <1>4 DEF PlaceInv

\* It is lost with the queue of its handle.
LEMMA PlaceDestroyed ==
    ASSUME BaseInv, PlaceInv, NEW h \in Handles, Destroyed(h), UNCHANGED <<out, resp, inbox>>
    PROVE  PlaceInv'
<1>1. /\ box' = [box EXCEPT ![h] = <<>>] /\ Ids(<<>>) = {} /\ DistinctIds(<<>>)
      /\ \A c \in Cmds : cmd'[c] = IF c \in Ids(box[h]) THEN Blank ELSE cmd[c]
  BY DEF Destroyed, Ids, DistinctIds
<1>2. \A g \in Handles \ {h} : Ids(box[h]) \cap Ids(box[g]) = {}
  BY DEF PlaceInv
<1>3. /\ box'[h] = <<>> /\ \A g \in Handles \ {h} : box'[g] = box[g]
      /\ InBoxes' = InBoxes \ Ids(box[h])
  <2> DEFINE others == UNION {Ids(box[g]) : g \in Handles \ {h}}
  <2>1. /\ box'[h] = <<>> /\ \A g \in Handles \ {h} : box'[g] = box[g]
        /\ InBoxes' = Ids(<<>>) \cup others /\ InBoxes = Ids(box[h]) \cup others
    BY <1>1, BoxChanged
  <2>2. Ids(box[h]) \cap others = {}
    BY <1>2
  <2> HIDE DEF others
  <2> QED BY <1>1, <2>1, <2>2
<1>4. Ids(box[h]) \subseteq InBoxes
  BY DEF InBoxes
<1>5. Transit' = Transit \ Ids(box[h])
  BY <1>3, <1>4 DEF Transit, PlaceInv
<1> QED BY <1>1, <1>3, <1>5 DEF PlaceInv

\* No step leaves a command in two places.
LEMMA PlaceStep ==
    ASSUME BaseInv, PlaceInv, [Next]_vars
    PROVE  PlaceInv'
<1>1. ASSUME UNCHANGED <<cmd, out, resp, inbox, box>> PROVE PlaceInv'
  BY <1>1 DEF PlaceInv, Transit, InBoxes
<1>2. ASSUME NEW t \in Threads, NEW c \in Cmds, NEW r \in Request, r.op # "none", Begin(t, c, r),
             UNCHANGED <<resp, inbox, box>>
      PROVE  PlaceInv'
  BY <1>2, PlaceSubmitted DEF Begin
<1>3. ASSUME NEW t \in Threads, NEW h \in Handles, NEW c \in Cmds, NEW b \in Buffers,
             Open(t, h, c, b) \/ Call(t, h, c, b)
      PROVE  PlaceInv'
  BY <1>2, <1>3, ClientIds DEF Open, Call, Request, BaseInv, TypeOK
<1>4. ASSUME NEW t \in Threads, NEW h \in Handles, NEW c \in Cmds, Close(t, h, c) \/ Config(t, h, c)
      PROVE  PlaceInv'
  BY <1>2, <1>4, ClientIds DEF Close, Config, Request, BaseInv, TypeOK
<1>5. ASSUME NEW h \in Handles, NEW c \in Cmds, Data(h, c) PROVE PlaceInv'
  <2> DEFINE r == [op |-> "data", handle |-> h, client |-> handle[h].client,
                   comp |-> handle[h].comp, buf |-> None]
  <2>1. r \in Request /\ r.op # "none" /\ Submit(c, r) /\ UNCHANGED <<resp, inbox, box>>
    BY <1>5 DEF Data, Request, BaseInv, TypeOK
  <2> QED BY <2>1, PlaceSubmitted
<1>6. ASSUME NEW t \in Threads, TimesOut(t) \/ CallReturns(t) \/ ConfigReturns(t) PROVE PlaceInv'
  BY <1>1, <1>6 DEF TimesOut, CallReturns, ConfigReturns, Leaves
<1>7. ASSUME NEW t \in Threads, OpenReturns(t) \/ CloseReturns(t) PROVE PlaceInv'
  <2>1. thread[t].asked.handle \in Handles /\ UNCHANGED <<out, resp, inbox>>
    BY <1>7 DEF OpenReturns, CloseReturns, Leaves, BaseInv, CallInv, Busy
  <2>2. CASE Destroyed(thread[t].asked.handle)
    BY <2>1, <2>2, PlaceDestroyed
  <2>3. CASE UNCHANGED <<box, cmd>>
    BY <1>1, <2>1, <2>3
  <2> QED BY <1>7, <2>2, <2>3 DEF OpenReturns, CloseReturns
<1>8. ASSUME NEW i \in DOMAIN out, NEW k \in Components, DspRegisters(i, k) PROVE PlaceInv'
  <2>1. [cmd |-> out[i], op |-> "register", comp |-> k] \in Answer
    BY DEF BaseInv, TypeOK, Answer
  <2> QED BY <1>8, <2>1, PlaceAnswered DEF DspRegisters
<1>9. ASSUME NEW i \in DOMAIN out, DspUnregisters(i) \/ DspExecutes(i) \/ DspFails(i) PROVE PlaceInv'
  <2>1. \A op \in {"unregister", "call", "config", "data"} :
          [cmd |-> out[i], op |-> op, comp |-> None] \in Answer
    BY DEF BaseInv, TypeOK, Answer
  <2>2. \E op \in {"unregister", "call", "config", "data"} : Answers(i, op, None)
    BY <1>9 DEF DspUnregisters, DspExecutes, DspFails
  <2> QED BY <2>1, <2>2, PlaceAnswered
<1>10. CASE UNCHANGED vars
  BY <1>1, <1>10 DEF vars
<1> QED
  BY NextIsSteps, <1>3, <1>4, <1>5, <1>6, <1>7, <1>8, <1>9, <1>10, PlaceRead, PlaceTaken, PlaceDelivered
     DEF Steps

-----------------------------------------------------------------------------
(* Who owns a control buffer.                                              *)

\* A control buffer is in the pool, with one handle, or with the call in progress.
BufferInv ==
    /\ \A h \in Handles : handle[h].st # "closed" => handle[h].buf \notin aux
    /\ \A g, h \in Handles : g # h /\ handle[g].st # "closed" /\ handle[h].st # "closed"
                                => handle[g].buf # handle[h].buf
    /\ \A t \in Threads : Busy(t) =>
         /\ thread[t].asked.op = "call" =>
              /\ thread[t].asked.buf \notin aux
              /\ \A h \in Handles : handle[h].st # "closed" => handle[h].buf # thread[t].asked.buf
         /\ thread[t].asked.op = "unregister" => thread[t].asked.buf = None
         /\ thread[t].asked.op \in {"register", "config"} =>
              /\ thread[t].asked.handle \in Handles
              /\ handle[thread[t].asked.handle].st # "closed"
              /\ thread[t].asked.buf = handle[thread[t].asked.handle].buf

\* Nobody is in a call after one has returned.
LEMMA NobodyAfter ==
    ASSUME BaseInv, NEW t \in Threads, NEW op, Leaves(t, op)
    PROVE  \A u \in Threads : ~Busy(u)'
<1>1. thread'[t].pc = "idle" /\ \A u \in Threads \ {t} : thread'[u] = thread[u]
  BY DEF Leaves, Idle, BaseInv, TypeOK
<1>2. \A u \in Threads \ {t} : thread[u].pc = "idle"
  BY OneBusy DEF Leaves, Busy
<1> QED BY <1>1, <1>2 DEF Busy

\* Only the one who begins is in a call.
LEMMA OnlyCaller ==
    ASSUME BaseInv, NEW t \in Threads, NEW c \in Cmds, NEW r \in Request, Begin(t, c, r)
    PROVE  /\ thread'[t].pc = "waiting" /\ thread'[t].cmd = c
           /\ thread'[t].asked = r /\ thread'[t].answer = NoAnswer
           /\ \A u \in Threads \ {t} : thread'[u] = thread[u] /\ ~Busy(u) /\ ~Busy(u)'
<1>1. /\ thread'[t].pc = "waiting" /\ thread'[t].cmd = c
      /\ thread'[t].asked = r /\ thread'[t].answer = NoAnswer
      /\ \A u \in Threads \ {t} : thread'[u] = thread[u]
  BY DEF Begin, BaseInv, TypeOK
<1>2. \A u \in Threads : ~Busy(u)
  BY NobodyBusy DEF Begin, LockIsFree
<1> QED BY <1>1, <1>2 DEF Busy

\* Every buffer is in the pool.
LEMMA BufferInit == Init => BufferInv
BY DEF Init, BufferInv, Busy, Idle, Closed

\* A buffer is taken from the pool by one owner, who returns it.
LEMMA BufferStep ==
    ASSUME BaseInv, BufferInv, [Next]_vars
    PROVE  BufferInv'
<1>1. ASSUME UNCHANGED <<aux, handle>>,
             \A t \in Threads : thread'[t].asked = thread[t].asked /\ (Busy(t)' => Busy(t))
      PROVE  BufferInv'
  BY <1>1 DEF BufferInv
<1>2. ASSUME NEW t \in Threads, NEW h \in Handles, NEW c \in Cmds, NEW b \in Buffers, Open(t, h, c, b)
      PROVE  BufferInv'
  <2>1. /\ handle'[h].st = "opening" /\ handle'[h].buf = b /\ handle[h].st = "closed"
        /\ \A g \in Handles \ {h} : handle'[g] = handle[g]
        /\ b \in aux /\ aux' = aux \ {b}
    BY <1>2 DEF Open, WithoutBuffer, BaseInv, TypeOK
  <2> DEFINE r == [op |-> "register", handle |-> h, client |-> 0, comp |-> None, buf |-> b]
  <2>2. Begin(t, c, r) /\ r \in Request /\ r.op = "register" /\ r.handle = h /\ r.buf = b
    BY <1>2, ClientIds DEF Open, Request, BaseInv, TypeOK
  <2> HIDE DEF r
  <2>3. thread'[t].asked = r /\ \A u \in Threads \ {t} : ~Busy(u)'
    BY <2>2, OnlyCaller
  <2> QED BY <2>1, <2>2, <2>3 DEF BufferInv
<1>3. ASSUME NEW t \in Threads, NEW h \in Handles, NEW c \in Cmds, Close(t, h, c) PROVE BufferInv'
  <2>1. /\ aux' = aux /\ handle[h].st = "open" /\ handle'[h].buf = handle[h].buf
        /\ \A g \in Handles \ {h} : handle'[g] = handle[g]
    BY <1>3 DEF Close, BaseInv, TypeOK
  <2> DEFINE r == [op |-> "unregister", handle |-> h, client |-> 0, comp |-> handle[h].comp, buf |-> None]
  <2>2. Begin(t, c, r) /\ r \in Request /\ r.op = "unregister" /\ r.buf = None
    BY <1>3, ClientIds DEF Close, Request, BaseInv, TypeOK
  <2> HIDE DEF r
  <2>3. thread'[t].asked = r /\ \A u \in Threads \ {t} : ~Busy(u)'
    BY <2>2, OnlyCaller
  <2> QED BY <2>1, <2>2, <2>3 DEF BufferInv
<1>4. ASSUME NEW t \in Threads, NEW h \in Handles, NEW c \in Cmds, NEW b \in Buffers, Call(t, h, c, b)
      PROVE  BufferInv'
  <2>1. handle' = handle /\ b \in aux /\ aux' = aux \ {b}
    BY <1>4 DEF Call, WithoutBuffer
  <2> DEFINE r == [op |-> "call", handle |-> h, client |-> 0, comp |-> handle[h].comp, buf |-> b]
  <2>2. Begin(t, c, r) /\ r \in Request /\ r.op = "call" /\ r.buf = b
    BY <1>4, ClientIds DEF Call, Request, BaseInv, TypeOK
  <2> HIDE DEF r
  <2>3. thread'[t].asked = r /\ \A u \in Threads \ {t} : ~Busy(u)'
    BY <2>2, OnlyCaller
  <2> QED BY <2>1, <2>2, <2>3 DEF BufferInv
<1>5. ASSUME NEW t \in Threads, NEW h \in Handles, NEW c \in Cmds, Config(t, h, c) PROVE BufferInv'
  <2>1. UNCHANGED <<aux, handle>> /\ handle[h].st = "open"
    BY <1>5 DEF Config
  <2> DEFINE r == [op |-> "config", handle |-> h, client |-> 0, comp |-> handle[h].comp, buf |-> handle[h].buf]
  <2>2. Begin(t, c, r) /\ r \in Request /\ r.op = "config" /\ r.handle = h /\ r.buf = handle[h].buf
    BY <1>5, ClientIds DEF Config, Request, BaseInv, TypeOK
  <2> HIDE DEF r
  <2>3. thread'[t].asked = r /\ \A u \in Threads \ {t} : ~Busy(u)'
    BY <2>2, OnlyCaller
  <2> QED BY <2>1, <2>2, <2>3 DEF BufferInv
<1>6. ASSUME NEW t \in Threads, TakeAnswer(t) \/ TimesOut(t) PROVE BufferInv'
  <2>1. /\ UNCHANGED <<aux, handle>> /\ thread[t].pc = "waiting" /\ thread'[t].asked = thread[t].asked
        /\ \A u \in Threads \ {t} : thread'[u] = thread[u]
    BY <1>6 DEF TakeAnswer, TimesOut, BaseInv, TypeOK
  <2> QED BY <1>1, <2>1 DEF Busy
<1>7. ASSUME NEW t \in Threads, Leaves(t, "register") \/ Leaves(t, "unregister"), NEW h \in Handles, handle[h].st # "closed",
             Destroyed(h)
      PROVE  BufferInv'
  <2>1. /\ handle'[h].st = "closed" /\ aux' = aux \cup {handle[h].buf}
        /\ \A g \in Handles \ {h} : handle'[g] = handle[g]
    BY <1>7 DEF Destroyed, Closed, BaseInv, TypeOK
  <2>2. \A u \in Threads : ~Busy(u)'
    BY <1>7, NobodyAfter
  <2> QED BY <1>7, <2>1, <2>2 DEF BufferInv
<1>8. ASSUME NEW t \in Threads, OpenReturns(t) PROVE BufferInv'
  <2>1. thread[t].asked.handle \in Handles /\ handle[thread[t].asked.handle].st = "opening"
    BY <1>8 DEF OpenReturns, Leaves, BaseInv, CallInv, Busy
  <2>2. CASE Destroyed(thread[t].asked.handle)
    BY <1>7, <1>8, <2>1, <2>2 DEF OpenReturns
  <2>3. CASE /\ handle' = [handle EXCEPT ![thread[t].asked.handle].st = "open",
                                         ![thread[t].asked.handle].comp = thread[t].answer.comp]
             /\ aux' = aux
    <3>1. \A u \in Threads : ~Busy(u)'
      BY <1>8, NobodyAfter DEF OpenReturns
    <3>2. \A g \in Handles : handle'[g].buf = handle[g].buf /\ (handle'[g].st # "closed" => handle[g].st # "closed")
      BY <2>1, <2>3 DEF BaseInv, TypeOK
    <3>3. aux' = aux
      BY <2>3
    <3> QED BY <3>1, <3>2, <3>3 DEF BufferInv
  <2> QED BY <1>8, <2>2, <2>3 DEF OpenReturns
<1>9. ASSUME NEW t \in Threads, CloseReturns(t) PROVE BufferInv'
  <2>1. thread[t].asked.handle \in Handles /\ handle[thread[t].asked.handle].st = "closing"
    BY <1>9 DEF CloseReturns, Leaves, BaseInv, CallInv, Busy
  <2> QED BY <1>7, <1>9, <2>1 DEF CloseReturns
<1>10. ASSUME NEW t \in Threads, CallReturns(t) PROVE BufferInv'
  <2>1. handle' = handle /\ aux' = aux \cup {thread[t].asked.buf} /\ \A u \in Threads : ~Busy(u)'
    BY <1>10, NobodyAfter DEF CallReturns
  <2>2. \A h \in Handles : handle[h].st # "closed" => handle[h].buf # thread[t].asked.buf
    BY <1>10 DEF CallReturns, Leaves, BufferInv, Busy
  <2> QED BY <2>1, <2>2 DEF BufferInv
<1>11. ASSUME NEW t \in Threads, ConfigReturns(t) PROVE BufferInv'
  <2>1. UNCHANGED <<aux, handle>> /\ \A u \in Threads : ~Busy(u)'
    BY <1>11, NobodyAfter DEF ConfigReturns
  <2> QED BY <2>1 DEF BufferInv
<1>12. ASSUME UNCHANGED <<aux, handle, thread>> PROVE BufferInv'
  BY <1>1, <1>12 DEF Busy
<1>13. ASSUME NEW h \in Handles, Read(h) \/ \E c \in Cmds : Data(h, c) PROVE BufferInv'
  BY <1>12, <1>13 DEF Read, Data
<1>14. CASE ProxyDelivers
  BY <1>12, <1>14 DEF ProxyDelivers
<1>15. ASSUME NEW i \in DOMAIN out, DspUnregisters(i) \/ DspExecutes(i) \/ DspFails(i)
                                     \/ \E k \in Components : DspRegisters(i, k)
       PROVE  BufferInv'
  BY <1>12, <1>15 DEF DspUnregisters, DspExecutes, DspFails, DspRegisters, Answers
<1>16. CASE UNCHANGED vars
  BY <1>12, <1>16 DEF vars
<1> QED
  BY NextIsSteps, <1>2, <1>3, <1>4, <1>5, <1>6, <1>8, <1>9, <1>10, <1>11, <1>13, <1>14, <1>15, <1>16
     DEF Steps

-----------------------------------------------------------------------------
(* What answers say, and to whom.                                          *)

\* An answer names a component if and only if it reports its creation.
Known == Components \ fresh
Reports(a, known) == IF a.op = "register" THEN a.comp \in known ELSE a.comp = None
ReportInv ==
    /\ \A a \in Elements(resp) \cup Elements(inbox) :
         Reports(a, Known) /\ (a.op = "register" => cmd[a.cmd].op = "register")
    /\ \A t \in Threads : Reports(thread[t].answer, Known)

\* A handle has a component while it is open and is being closed.
CompInv ==
    /\ \A h \in Handles : IF handle[h].st \in {"open", "closing"} THEN handle[h].comp \in Known
                                                                ELSE handle[h].comp = None
    /\ \A t \in Threads : Busy(t) /\ thread[t].asked.op = "unregister" =>
         thread[t].asked.comp = handle[thread[t].asked.handle].comp

\* What a command asks does not change while it is under way.
LEMMA AskedKept ==
    ASSUME BaseInv, PlaceInv, PlaceInv', [Next]_vars
    PROVE  \A c \in Transit \cap Transit' : cmd'[c] = cmd[c]
<1> SUFFICES \A c \in Cmds : cmd'[c] = cmd[c] \/ cmd'[c] = Blank \/ cmd[c] = Blank
  BY DEF PlaceInv
<1> USE DEF BaseInv, TypeOK
<1>2. ASSUME NEW h \in Handles, Destroyed(h)
      PROVE  \A c \in Cmds : cmd'[c] = cmd[c] \/ cmd'[c] = Blank
  BY <1>2 DEF Destroyed
<1>3. ASSUME NEW t \in Threads, OpenReturns(t) \/ CloseReturns(t)
      PROVE  \A c \in Cmds : cmd'[c] = cmd[c] \/ cmd'[c] = Blank
  <2>1. thread[t].asked.handle \in Handles
    BY <1>3 DEF OpenReturns, CloseReturns, Leaves, CallInv, Busy
  <2>2. CASE Destroyed(thread[t].asked.handle)
    BY <1>2, <2>1, <2>2
  <2> QED BY <1>3, <2>2 DEF OpenReturns, CloseReturns
<1>4. ASSUME NEW t \in Threads, TimesOut(t) \/ CallReturns(t) \/ ConfigReturns(t)
      PROVE  cmd' = cmd
  BY <1>4 DEF TimesOut, CallReturns, ConfigReturns
<1>5. ASSUME NEW t \in Threads, NEW h \in Handles, NEW c \in Cmds, NEW b \in Buffers,
             Open(t, h, c, b) \/ Call(t, h, c, b)
      PROVE  \A d \in Cmds : cmd'[d] = cmd[d] \/ cmd[d] = Blank
  BY <1>5 DEF Open, Call, Begin, Submit
<1>6. ASSUME NEW t \in Threads, NEW h \in Handles, NEW c \in Cmds,
             Close(t, h, c) \/ Config(t, h, c)
      PROVE  \A d \in Cmds : cmd'[d] = cmd[d] \/ cmd[d] = Blank
  BY <1>6 DEF Close, Config, Begin, Submit
<1>7. ASSUME NEW h \in Handles, Read(h) PROVE \A c \in Cmds : cmd'[c] = cmd[c] \/ cmd'[c] = Blank
  BY <1>7 DEF Read
<1>8. ASSUME NEW t \in Threads, TakeAnswer(t) PROVE \A c \in Cmds : cmd'[c] = cmd[c] \/ cmd'[c] = Blank
  BY <1>8 DEF TakeAnswer
<1>9. ASSUME ProxyDelivers PROVE \A c \in Cmds : cmd'[c] = cmd[c] \/ cmd'[c] = Blank
  BY <1>9 DEF ProxyDelivers
<1>10. ASSUME NEW i \in DOMAIN out, DspUnregisters(i) \/ DspExecutes(i) \/ DspFails(i)
                                     \/ \E k \in Components : DspRegisters(i, k)
       PROVE  cmd' = cmd
  BY <1>10 DEF DspUnregisters, DspExecutes, DspFails, DspRegisters, Answers
<1>11. ASSUME NEW h \in Handles, NEW c \in Cmds, Data(h, c)
       PROVE  \A d \in Cmds : cmd'[d] = cmd[d] \/ cmd[d] = Blank
  BY <1>11 DEF Data, Submit
<1>12. CASE UNCHANGED vars
  BY <1>12 DEF vars
<1> HIDE DEF BaseInv, TypeOK
<1> QED BY NextIsSteps, <1>3, <1>4, <1>5, <1>6, <1>7, <1>8, <1>9, <1>10, <1>11, <1>12 DEF Steps

\* What is left of a queue when its head is taken.
LEMMA TailElements ==
    ASSUME NEW S, NEW q \in Seq(S), q # <<>>
    PROVE  /\ Head(q) \in S /\ Tail(q) \in Seq(S)
           /\ Elements(q) = {Head(q)} \cup Elements(Tail(q))
<1>1. /\ Head(q) = q[1] /\ Head(q) \in S /\ Tail(q) \in Seq(S) /\ Len(q) \in Nat \ {0}
      /\ DOMAIN q = 1 .. Len(q) /\ DOMAIN Tail(q) = 1 .. Len(q) - 1
      /\ \A i \in 1 .. Len(q) - 1 : Tail(q)[i] = q[i + 1]
  OBVIOUS
<1>2. ASSUME NEW e \in Elements(q), e # Head(q) PROVE e \in Elements(Tail(q))
  <2>1. PICK i \in 1 .. Len(q) : q[i] = e /\ i # 1
    BY <1>1, <1>2 DEF Elements
  <2>2. i - 1 \in 1 .. Len(q) - 1 /\ (i - 1) + 1 = i
    BY <1>1, <2>1
  <2>3. Tail(q)[i - 1] = e
    BY <1>1, <2>1, <2>2
  <2> QED BY <1>1, <2>2, <2>3 DEF Elements
<1>3. /\ 1 \in 1 .. Len(q)
      /\ \A i \in 1 .. Len(q) - 1 : i + 1 \in 1 .. Len(q)
  BY <1>1
<1>4. {Head(q)} \cup Elements(Tail(q)) \subseteq Elements(q)
  BY <1>1, <1>3 DEF Elements
<1> QED BY <1>1, <1>2, <1>4

\* Nothing has been answered.
LEMMA ReportInit == Init => ReportInv /\ CompInv
BY DEF Init, ReportInv, CompInv, Elements, Reports, Idle, NoAnswer, Closed, Busy

\* A component that was created once is never created again.
LEMMA KnownKept ==
    ASSUME BaseInv, [Next]_vars
    PROVE  Known \subseteq Known'
<1>1. ASSUME NEW i \in DOMAIN out, NEW k \in Components, DspRegisters(i, k) PROVE Known \subseteq Known'
  BY <1>1 DEF DspRegisters, Known
<1>2. CASE UNCHANGED fresh
  BY <1>2 DEF Known
<1> QED
  BY NextIsSteps, <1>1, <1>2
     DEF Steps, vars, Open, Close, Call, Config, Data, Read, TakeAnswer, TimesOut, OpenReturns, CloseReturns,
         CallReturns, ConfigReturns, Leaves, ProxyDelivers, DspUnregisters, DspExecutes, DspFails

\* Only a registration is answered with a component, by the DSP.
LEMMA ReportStep ==
    ASSUME BaseInv, PlaceInv, PlaceInv', ReportInv, [Next]_vars
    PROVE  ReportInv'
<1>1. \A a \in Answer : Reports(a, Known) => Reports(a, Known')
  BY KnownKept DEF Reports
<1>2. /\ resp \in Seq(Answer) /\ inbox \in Seq(Answer)
      /\ \A a \in Elements(resp) \cup Elements(inbox) : a \in Answer /\ a.cmd \in Transit
      /\ \A t \in Threads : thread[t].answer \in Answer
  BY DEF BaseInv, TypeOK, Elements, Ids, Transit
<1>3. \A a \in Elements(resp') \cup Elements(inbox') : a.cmd \in Transit'
  BY DEF Elements, Ids, Transit
<1>4. ASSUME Elements(resp') \cup Elements(inbox') \subseteq Elements(resp) \cup Elements(inbox),
             \A t \in Threads : Reports(thread'[t].answer, Known')
      PROVE  ReportInv'
  BY <1>1, <1>2, <1>3, <1>4, AskedKept DEF ReportInv
<1>5. Reports(NoAnswer, Known') /\ \A t \in Threads : Reports(thread[t].answer, Known')
  BY <1>1, <1>2 DEF ReportInv, Reports, NoAnswer
<1>6. ASSUME NEW t \in Threads, NEW c \in Cmds, NEW r \in Request, Begin(t, c, r), UNCHANGED <<resp, inbox>>
      PROVE  ReportInv'
  <2>1. /\ thread'[t].answer = NoAnswer /\ \A u \in Threads \ {t} : thread'[u] = thread[u]
    BY <1>6, OnlyCaller
  <2> QED BY <1>4, <1>5, <1>6, <2>1
<1>7. ASSUME NEW t \in Threads, NEW h \in Handles, NEW c \in Cmds, NEW b \in Buffers,
             Open(t, h, c, b) \/ Call(t, h, c, b)
      PROVE  ReportInv'
  BY <1>6, <1>7, ClientIds DEF Open, Call, Request, BaseInv, TypeOK
<1>8. ASSUME NEW t \in Threads, NEW h \in Handles, NEW c \in Cmds, Close(t, h, c) \/ Config(t, h, c)
      PROVE  ReportInv'
  BY <1>6, <1>8, ClientIds DEF Close, Config, Request, BaseInv, TypeOK
<1>9. ASSUME UNCHANGED <<resp, inbox, thread>> PROVE ReportInv'
  BY <1>4, <1>5, <1>9
<1>10. ASSUME NEW h \in Handles, Read(h) \/ \E c \in Cmds : Data(h, c) PROVE ReportInv'
  BY <1>9, <1>10 DEF Read, Data
<1>11. ASSUME NEW t \in Threads, TakeAnswer(t) PROVE ReportInv'
  <2>1. /\ inbox # <<>> /\ inbox' = Tail(inbox) /\ resp' = resp /\ thread'[t].answer = Head(inbox)
        /\ \A u \in Threads \ {t} : thread'[u] = thread[u]
    BY <1>11 DEF TakeAnswer, BaseInv, TypeOK
  <2>2. Reports(Head(inbox), Known') /\ Elements(Tail(inbox)) \subseteq Elements(inbox)
    BY <1>1, <1>2, <2>1, TailElements DEF ReportInv
  <2> QED BY <1>4, <1>5, <2>1, <2>2
<1>12. ASSUME NEW t \in Threads, TimesOut(t) PROVE ReportInv'
  <2>1. UNCHANGED <<resp, inbox>> /\ \A u \in Threads : thread'[u].answer = thread[u].answer
    BY <1>12 DEF TimesOut, BaseInv, TypeOK
  <2> QED BY <1>4, <1>5, <2>1
<1>13. ASSUME NEW t \in Threads, OpenReturns(t) \/ CloseReturns(t) \/ CallReturns(t) \/ ConfigReturns(t)
       PROVE  ReportInv'
  <2>1. /\ UNCHANGED <<resp, inbox>> /\ thread'[t].answer = NoAnswer
        /\ \A u \in Threads \ {t} : thread'[u] = thread[u]
    BY <1>13 DEF OpenReturns, CloseReturns, CallReturns, ConfigReturns, Leaves, Idle, BaseInv, TypeOK
  <2> QED BY <1>4, <1>5, <2>1
<1>14. CASE ProxyDelivers
  <2>1. /\ resp # <<>> /\ resp' = Tail(resp) /\ thread' = thread
        /\ inbox' = inbox \/ inbox' = Append(inbox, Head(resp))
    BY <1>14 DEF ProxyDelivers
  <2>2. Head(resp) \in Elements(resp) /\ Head(resp) \in Answer /\ Elements(Tail(resp)) \subseteq Elements(resp)
    BY <1>2, <2>1, TailElements
  <2>3. Elements(inbox') \subseteq Elements(resp) \cup Elements(inbox)
    <3>1. Elements(Append(inbox, Head(resp))) = Elements(inbox) \cup {Head(resp)}
      BY <1>2, <2>2, AppendElements
    <3> QED BY <2>1, <2>2, <3>1
  <2> QED BY <1>4, <1>5, <2>1, <2>2, <2>3
<1>15. ASSUME NEW i \in DOMAIN out, NEW op \in {"register", "unregister", "call", "config", "data"},
              NEW k \in Components \cup {None}, Answers(i, op, k),
              IF op = "register" THEN k \in Known' /\ cmd[out[i]].op = "register" ELSE k = None
       PROVE  ReportInv'
  <2> DEFINE a == [cmd |-> out[i], op |-> op, comp |-> k]
  <2>1. /\ a \in Answer /\ resp' = Append(resp, a) /\ UNCHANGED <<cmd, inbox, thread>>
        /\ Reports(a, Known') /\ (a.op = "register" => cmd[a.cmd].op = "register")
    BY <1>15 DEF Answers, Reports, Answer, BaseInv, TypeOK
  <2> HIDE DEF a
  <2>2. Elements(resp') = Elements(resp) \cup {a}
    BY <1>2, <2>1, AppendElements
  <2> QED BY <1>1, <1>2, <1>5, <2>1, <2>2 DEF ReportInv
<1>16. ASSUME NEW i \in DOMAIN out, NEW k \in Components, DspRegisters(i, k) PROVE ReportInv'
  <2>1. k \in Known'
    BY <1>16 DEF DspRegisters, Known
  <2> QED BY <1>15, <1>16, <2>1 DEF DspRegisters
<1>17. ASSUME NEW i \in DOMAIN out, DspUnregisters(i) \/ DspExecutes(i) \/ DspFails(i) PROVE ReportInv'
  <2>1. \E op \in {"unregister", "call", "config", "data"} : Answers(i, op, None)
    BY <1>17 DEF DspUnregisters, DspExecutes, DspFails
  <2> QED BY <1>15, <2>1
<1>18. CASE UNCHANGED vars
  BY <1>9, <1>18 DEF vars
<1> QED
  BY NextIsSteps, <1>7, <1>8, <1>10, <1>11, <1>12, <1>13, <1>14, <1>16, <1>17, <1>18 DEF Steps

\* xf_open stores the component it was told, and xf_close forgets it.
LEMMA CompStep ==
    ASSUME BaseInv, ReportInv, CompInv, [Next]_vars
    PROVE  CompInv'
<1>1. Known \subseteq Known'
  BY KnownKept
<1>2. ASSUME handle' = handle, \A t \in Threads : thread'[t].asked = thread[t].asked /\ (Busy(t)' => Busy(t))
      PROVE  CompInv'
  BY <1>1, <1>2 DEF CompInv
<1>3. ASSUME UNCHANGED <<handle, thread>> PROVE CompInv'
  BY <1>2, <1>3 DEF Busy
<1>4. ASSUME NEW t \in Threads, NEW h \in Handles, NEW c \in Cmds, NEW b \in Buffers, Open(t, h, c, b)
      PROVE  CompInv'
  <2> DEFINE r == [op |-> "register", handle |-> h, client |-> 0, comp |-> None, buf |-> b]
  <2>1. Begin(t, c, r) /\ r \in Request /\ r.op = "register"
    BY <1>4, ClientIds DEF Open, Request, BaseInv, TypeOK
  <2> HIDE DEF r
  <2>2. thread'[t].asked = r /\ \A u \in Threads \ {t} : ~Busy(u)'
    BY <2>1, OnlyCaller
  <2>3. /\ handle'[h].st = "opening" /\ handle'[h].comp = None
        /\ \A g \in Handles \ {h} : handle'[g] = handle[g]
    BY <1>4 DEF Open, BaseInv, TypeOK
  <2> QED BY <1>1, <2>1, <2>2, <2>3 DEF CompInv
<1>5. ASSUME NEW t \in Threads, NEW h \in Handles, NEW c \in Cmds, Close(t, h, c) PROVE CompInv'
  <2> DEFINE r == [op |-> "unregister", handle |-> h, client |-> 0, comp |-> handle[h].comp, buf |-> None]
  <2>1. Begin(t, c, r) /\ r \in Request /\ r.handle = h /\ r.comp = handle[h].comp
    BY <1>5, ClientIds DEF Close, Request, BaseInv, TypeOK
  <2> HIDE DEF r
  <2>2. thread'[t].asked = r /\ \A u \in Threads \ {t} : ~Busy(u)'
    BY <2>1, OnlyCaller
  <2>3. /\ handle[h].st = "open" /\ handle'[h].st = "closing" /\ handle'[h].comp = handle[h].comp
        /\ \A g \in Handles \ {h} : handle'[g] = handle[g]
    BY <1>5 DEF Close, BaseInv, TypeOK
  <2>4. \A g \in Handles : IF handle'[g].st \in {"open", "closing"} THEN handle'[g].comp \in Known'
                                                                  ELSE handle'[g].comp = None
    BY <1>1, <2>3 DEF CompInv
  <2> QED BY <2>1, <2>2, <2>3, <2>4 DEF CompInv
<1>6. ASSUME NEW t \in Threads, NEW c \in Cmds, NEW r \in Request, Begin(t, c, r), handle' = handle,
             r.op \in {"call", "config"}
      PROVE  CompInv'
  <2>1. thread'[t].asked = r /\ \A u \in Threads \ {t} : ~Busy(u)'
    BY <1>6, OnlyCaller
  <2> QED BY <1>1, <1>6, <2>1 DEF CompInv
<1>7. ASSUME NEW t \in Threads, NEW h \in Handles, NEW c \in Cmds, NEW b \in Buffers, Call(t, h, c, b)
      PROVE  CompInv'
  BY <1>6, <1>7, ClientIds DEF Call, Request, BaseInv, TypeOK
<1>8. ASSUME NEW t \in Threads, NEW h \in Handles, NEW c \in Cmds, Config(t, h, c) PROVE CompInv'
  BY <1>6, <1>8, ClientIds DEF Config, Request, BaseInv, TypeOK
<1>9. ASSUME NEW t \in Threads, TakeAnswer(t) \/ TimesOut(t) PROVE CompInv'
  <2>1. /\ handle' = handle /\ thread[t].pc = "waiting" /\ thread'[t].asked = thread[t].asked
        /\ \A u \in Threads \ {t} : thread'[u] = thread[u]
    BY <1>9 DEF TakeAnswer, TimesOut, BaseInv, TypeOK
  <2> QED BY <1>2, <2>1 DEF Busy
<1>10. ASSUME NEW t \in Threads, OpenReturns(t) \/ CloseReturns(t), NEW h \in Handles, Destroyed(h)
       PROVE  CompInv'
  <2>1. /\ handle'[h].st = "closed" /\ handle'[h].comp = None
        /\ \A g \in Handles \ {h} : handle'[g] = handle[g]
    BY <1>10 DEF Destroyed, Closed, BaseInv, TypeOK
  <2>2. \A u \in Threads : ~Busy(u)'
    BY <1>10, NobodyAfter DEF OpenReturns, CloseReturns
  <2> QED BY <1>1, <2>1, <2>2 DEF CompInv
<1>11. ASSUME NEW t \in Threads, OpenReturns(t) \/ CloseReturns(t) PROVE CompInv'
  <2>1. thread[t].asked.handle \in Handles
    BY <1>11 DEF OpenReturns, CloseReturns, Leaves, BaseInv, CallInv, Busy
  <2>2. CASE Destroyed(thread[t].asked.handle)
    BY <1>10, <1>11, <2>1, <2>2
  <2>3. CASE /\ OpenReturns(t) /\ Succeeded(thread[t].answer, "register")
             /\ handle' = [handle EXCEPT ![thread[t].asked.handle].st = "open",
                                         ![thread[t].asked.handle].comp = thread[t].answer.comp]
    <3>1. thread[t].answer.comp \in Known
      BY <2>3 DEF Succeeded, ReportInv, Reports
    <3>2. /\ handle'[thread[t].asked.handle].st = "open"
          /\ handle'[thread[t].asked.handle].comp = thread[t].answer.comp
          /\ \A g \in Handles \ {thread[t].asked.handle} : handle'[g] = handle[g]
      BY <2>1, <2>3 DEF BaseInv, TypeOK
    <3>3. \A u \in Threads : ~Busy(u)'
      BY <2>3, NobodyAfter DEF OpenReturns
    <3> QED BY <1>1, <2>1, <3>1, <3>2, <3>3 DEF CompInv
  <2> QED BY <1>11, <2>2, <2>3 DEF OpenReturns, CloseReturns
<1>12. ASSUME NEW t \in Threads, CallReturns(t) \/ ConfigReturns(t) PROVE CompInv'
  <2>1. handle' = handle /\ \A u \in Threads : ~Busy(u)'
    BY <1>12, NobodyAfter DEF CallReturns, ConfigReturns
  <2> QED BY <1>1, <2>1 DEF CompInv
<1>13. ASSUME NEW h \in Handles, Read(h) \/ \E c \in Cmds : Data(h, c) PROVE CompInv'
  BY <1>3, <1>13 DEF Read, Data
<1>14. CASE ProxyDelivers
  BY <1>3, <1>14 DEF ProxyDelivers
<1>15. ASSUME NEW i \in DOMAIN out, DspUnregisters(i) \/ DspExecutes(i) \/ DspFails(i)
                                     \/ \E k \in Components : DspRegisters(i, k)
       PROVE  CompInv'
  BY <1>3, <1>15 DEF DspUnregisters, DspExecutes, DspFails, DspRegisters, Answers
<1>16. CASE UNCHANGED vars
  BY <1>3, <1>16 DEF vars
<1> QED
  BY NextIsSteps, <1>4, <1>5, <1>7, <1>8, <1>9, <1>11, <1>12, <1>13, <1>14, <1>15, <1>16 DEF Steps

\* A synchronous command is one addressed to the proxy itself. Until a call times out, one that
\* is on its way is the one a thread waits for, and a thread that no longer waits has the answer
\* to its own.
Sync(c) == cmd[c].client = 0
Awaited(c) == \E t \in Threads : thread[t].pc = "waiting" /\ thread[t].cmd = c
SyncInv == timely =>
    /\ \A c \in Elements(out) \cup Ids(resp) : Sync(c) => Awaited(c)
    /\ \A c \in Elements(out) : ~Sync(c) => cmd[c].buf = None
    /\ \A c \in Ids(inbox) : Awaited(c)
    /\ \A c \in InBoxes : ~Sync(c)
    /\ \A t \in Threads :
         /\ thread[t].pc = "idle" => thread[t].answer = NoAnswer
         /\ thread[t].pc = "waiting" =>
              /\ thread[t].answer = NoAnswer
              /\ thread[t].cmd \in Cmds /\ thread[t].asked.client = 0
              /\ cmd[thread[t].cmd] = thread[t].asked
         /\ thread[t].pc = "answered" =>
              /\ thread[t].answer # NoAnswer /\ thread[t].answer.cmd = thread[t].cmd
              /\ thread[t].answer.op = "register" => thread[t].asked.op = "register"

\* Nobody waits.
LEMMA SyncInit == Init => SyncInv
BY DEF Init, SyncInv, Elements, Ids, InBoxes, Idle, NoAnswer

\* A call that begins is the only one, and its command the only synchronous one.
LEMMA SyncBegun ==
    ASSUME BaseInv, PlaceInv, PlaceInv', SyncInv, timely, [Next]_vars, NEW t \in Threads, NEW c \in Cmds,
           NEW r \in Request, r.client = 0, r.op # "none", Begin(t, c, r), UNCHANGED <<resp, inbox, box>>
    PROVE  SyncInv'
<1>1. /\ thread'[t].pc = "waiting" /\ thread'[t].cmd = c
      /\ thread'[t].asked = r /\ thread'[t].answer = NoAnswer
      /\ \A u \in Threads \ {t} : thread'[u] = thread[u]
      /\ \A u \in Threads : thread[u].pc = "idle"
  BY OnlyCaller, NobodyBusy DEF Begin, LockIsFree, Busy
<1>2. /\ Elements(out') = Elements(out) \cup {c} /\ cmd'[c] = r
      /\ \A d \in Cmds \ {c} : cmd'[d] = cmd[d]
      /\ cmd[c] = Blank
  BY AppendElements DEF Begin, Submit, BaseInv, TypeOK
<1>3. /\ Ids(resp') = Ids(resp) /\ Ids(inbox') = Ids(inbox) /\ InBoxes' = InBoxes
      /\ c \notin Transit /\ \A d \in Transit : d \in Cmds
  BY <1>2 DEF InBoxes, PlaceInv
<1>4. /\ \A d \in Elements(out) \cup Ids(resp) : ~Sync(d)
      /\ Ids(inbox) = {}
  BY <1>1 DEF SyncInv, Awaited
<1>5. \A d \in Transit : Sync(d)' <=> Sync(d)
  BY <1>2, <1>3 DEF Sync
<1>6. \A d \in Elements(out') \cup Ids(resp') : Sync(d)' => Awaited(d)'
  BY <1>1, <1>2, <1>3, <1>4, <1>5 DEF Awaited, Transit
<1>7. \A d \in Elements(out') : ~Sync(d)' => cmd'[d].buf = None
  BY <1>2, <1>3, <1>5 DEF SyncInv, Transit, Sync
<1>8. \A d \in InBoxes' : ~Sync(d)'
  BY <1>3, <1>5 DEF SyncInv, Transit
<1>9. \A u \in Threads :
         /\ thread'[u].pc = "idle" => thread'[u].answer = NoAnswer
         /\ thread'[u].pc = "waiting" =>
              /\ thread'[u].answer = NoAnswer
              /\ thread'[u].cmd \in Cmds /\ thread'[u].asked.client = 0
              /\ cmd'[thread'[u].cmd] = thread'[u].asked
         /\ thread'[u].pc # "answered"
  BY <1>1, <1>2 DEF SyncInv
<1> QED BY <1>3, <1>4, <1>6, <1>7, <1>8, <1>9 DEF SyncInv

\* After a call has returned no synchronous command is under way.
LEMMA SyncLeft ==
    ASSUME BaseInv, PlaceInv, PlaceInv', SyncInv, timely, [Next]_vars, NEW t \in Threads, NEW op,
           Leaves(t, op), InBoxes' \subseteq InBoxes
    PROVE  SyncInv'
<1>1. /\ thread'[t] = Idle /\ \A u \in Threads \ {t} : thread'[u] = thread[u]
      /\ \A u \in Threads \ {t} : thread[u].pc = "idle"
      /\ thread[t].pc = "answered"
  BY OneBusy DEF Leaves, Busy, BaseInv, TypeOK
<1>2. UNCHANGED <<out, resp, inbox>>
  BY DEF Leaves
<1>3. Transit' \subseteq Transit
  BY <1>2 DEF Transit
<1>4. \A c \in Transit' : cmd'[c] = cmd[c]
  BY <1>3, AskedKept
<1>5. /\ \A c \in Elements(out) \cup Ids(resp) : ~Sync(c)
      /\ Ids(inbox) = {}
  BY <1>1 DEF SyncInv, Awaited
<1>6. /\ \A c \in Elements(out') \cup Ids(resp') : ~Sync(c)'
      /\ \A c \in Elements(out') : cmd'[c].buf = None
      /\ Ids(inbox') = {}
  BY <1>2, <1>4, <1>5 DEF Sync, SyncInv, Transit
<1>7. \A c \in InBoxes' : ~Sync(c)'
  BY <1>4 DEF Sync, SyncInv, Transit
<1>8. \A u \in Threads : thread'[u].pc = "idle" /\ thread'[u].answer = NoAnswer
  BY <1>1 DEF SyncInv, Idle
<1> QED BY <1>6, <1>7, <1>8 DEF SyncInv

\* A command or answer that moves on, or is lost, while the threads stay where they are.
LEMMA SyncMoved ==
    ASSUME BaseInv, PlaceInv, PlaceInv', SyncInv, timely, [Next]_vars, thread' = thread,
           Elements(out') \subseteq Elements(out),
           Elements(out') \cup Ids(resp') \subseteq Elements(out) \cup Ids(resp),
           \A c \in Ids(inbox') : c \in Ids(inbox) \/ (c \in Ids(resp) /\ Sync(c)),
           \A c \in InBoxes' : c \in InBoxes \/ (c \in Ids(resp) /\ ~Sync(c)),
           \A c \in Cmds : Sync(c) /\ cmd[c] # Blank => cmd'[c] = cmd[c]
    PROVE  SyncInv'
<1>1. Transit' \subseteq Transit
  BY DEF Transit
<1>2. \A c \in Transit' : cmd'[c] = cmd[c]
  BY <1>1, AskedKept
<1>3. \A c : Awaited(c)' <=> Awaited(c)
  BY DEF Awaited
<1>4. \A c \in Elements(out') \cup Ids(resp') : Sync(c)' => Awaited(c)'
  BY <1>2, <1>3 DEF Sync, SyncInv, Transit
<1>5. \A c \in Elements(out') : ~Sync(c)' => cmd'[c].buf = None
  BY <1>2 DEF Sync, SyncInv, Transit
<1>6. \A c \in Ids(inbox') : Awaited(c)'
  BY <1>3 DEF SyncInv
<1>7. \A c \in InBoxes' : ~Sync(c)'
  BY <1>2 DEF Sync, SyncInv, Transit
<1>8. ASSUME NEW t \in Threads, thread[t].pc = "waiting" PROVE cmd'[thread[t].cmd] = thread[t].asked
  <2>1. /\ thread[t].cmd \in Cmds /\ thread[t].asked.client = 0 /\ cmd[thread[t].cmd] = thread[t].asked
        /\ thread[t].asked.op # "none"
    BY <1>8 DEF SyncInv, BaseInv, CallInv, Busy
  <2> QED BY <2>1 DEF Sync, Blank
<1> QED BY <1>4, <1>5, <1>6, <1>7, <1>8 DEF SyncInv

\* A call that timed out once is never forgotten.
LEMMA TimelyBefore ==
    ASSUME [Next]_vars, timely'
    PROVE  timely
BY NextIsSteps
   DEF Steps, vars, Open, Close, Call, Config, Data, Read, TakeAnswer, TimesOut, OpenReturns, CloseReturns,
       CallReturns, ConfigReturns, Leaves, ProxyDelivers, DspRegisters, DspUnregisters, DspExecutes, DspFails,
       Answers

\* The one thread that waits is answered what it asked.
LEMMA SyncStep ==
    ASSUME BaseInv, PlaceInv, PlaceInv', ReportInv, SyncInv, [Next]_vars
    PROVE  SyncInv'
<1> SUFFICES ASSUME timely' PROVE SyncInv'
  BY DEF SyncInv
<1>1. timely
  BY TimelyBefore
<1>2. ASSUME NEW t \in Threads, NEW h \in Handles, NEW c \in Cmds, NEW b \in Buffers,
             Open(t, h, c, b) \/ Call(t, h, c, b)
      PROVE  SyncInv'
  BY <1>1, <1>2, SyncBegun, ClientIds DEF Open, Call, Request, BaseInv, TypeOK
<1>3. ASSUME NEW t \in Threads, NEW h \in Handles, NEW c \in Cmds, Close(t, h, c) \/ Config(t, h, c)
      PROVE  SyncInv'
  BY <1>1, <1>3, SyncBegun, ClientIds DEF Close, Config, Request, BaseInv, TypeOK
<1>4. ASSUME NEW t \in Threads, TimesOut(t) PROVE SyncInv'
  BY <1>4 DEF TimesOut
<1>5. ASSUME NEW t \in Threads, OpenReturns(t) \/ CloseReturns(t) \/ CallReturns(t) \/ ConfigReturns(t)
      PROVE  SyncInv'
  <2>1. \E op \in {"register", "unregister", "call", "config"} : Leaves(t, op)
    BY <1>5 DEF OpenReturns, CloseReturns, CallReturns, ConfigReturns
  <2>2. ASSUME NEW h \in Handles, Destroyed(h) PROVE InBoxes' \subseteq InBoxes
    <3>1. box'[h] = <<>> /\ \A g \in Handles \ {h} : box'[g] = box[g]
      BY <2>2 DEF Destroyed, BaseInv, TypeOK
    <3>2. Ids(<<>>) = {}
      BY DEF Ids
    <3> QED BY <3>1, <3>2 DEF InBoxes
  <2>3. CASE box' = box
    BY <1>1, <2>1, <2>3, SyncLeft DEF InBoxes
  <2>4. CASE (OpenReturns(t) \/ CloseReturns(t)) /\ Destroyed(thread[t].asked.handle)
    <3>1. thread[t].asked.handle \in Handles
      BY <2>4 DEF OpenReturns, CloseReturns, Leaves, BaseInv, CallInv, Busy
    <3> QED BY <1>1, <2>1, <2>2, <2>4, <3>1, SyncLeft
  <2> QED BY <1>5, <2>3, <2>4 DEF OpenReturns, CloseReturns, CallReturns, ConfigReturns
<1>6. ASSUME NEW h \in Handles, Read(h) PROVE SyncInv'
  <2> DEFINE a == Head(box[h])
  <2>1. /\ box[h] \in Seq(Answer) /\ box[h] # <<>> /\ box' = [box EXCEPT ![h] = Tail(box[h])]
        /\ UNCHANGED <<out, resp, inbox, thread>> /\ cmd' = [cmd EXCEPT ![a.cmd] = Blank]
    BY <1>6 DEF Read, BaseInv, TypeOK
  <2>2. a.cmd \in Ids(box[h]) /\ Ids(Tail(box[h])) \subseteq Ids(box[h])
    BY <2>1, TailIds
  <2>3. InBoxes' \subseteq InBoxes /\ a.cmd \in InBoxes
    <3>1. box'[h] = Tail(box[h]) /\ \A g \in Handles \ {h} : box'[g] = box[g]
      BY <2>1 DEF BaseInv, TypeOK
    <3> QED BY <2>2, <3>1 DEF InBoxes
  <2> HIDE DEF a
  <2>4. ~Sync(a.cmd)
    BY <1>1, <2>3 DEF SyncInv
  <2>5. \A c \in Cmds : Sync(c) /\ cmd[c] # Blank => cmd'[c] = cmd[c]
    BY <2>1, <2>4 DEF BaseInv, TypeOK
  <2>6. /\ thread' = thread
        /\ Elements(out') \subseteq Elements(out)
        /\ Elements(out') \cup Ids(resp') \subseteq Elements(out) \cup Ids(resp)
        /\ \A c \in Ids(inbox') : c \in Ids(inbox) \/ (c \in Ids(resp) /\ Sync(c))
        /\ \A c \in InBoxes' : c \in InBoxes \/ (c \in Ids(resp) /\ ~Sync(c))
    BY <2>1, <2>3
  <2> QED BY <1>1, <2>6, <2>5, SyncMoved
<1>7. ASSUME NEW h \in Handles, NEW c \in Cmds, Data(h, c) PROVE SyncInv'
  <2> DEFINE r == [op |-> "data", handle |-> h, client |-> handle[h].client,
                   comp |-> handle[h].comp, buf |-> None]
  <2>1. /\ r.client # 0 /\ r.buf = None /\ cmd[c] = Blank /\ cmd' = [cmd EXCEPT ![c] = r]
        /\ out' = Append(out, c) /\ UNCHANGED <<resp, inbox, box, thread>>
    BY <1>7 DEF Data, Submit, BaseInv, HandleInv
  <2> HIDE DEF r
  <2>2. /\ Elements(out') = Elements(out) \cup {c} /\ cmd'[c] = r
        /\ \A d \in Cmds \ {c} : cmd'[d] = cmd[d]
    BY <2>1, AppendElements DEF BaseInv, TypeOK
  <2>3. c \notin Transit /\ InBoxes' = InBoxes /\ \A d \in Transit : d \in Cmds
    BY <2>1 DEF PlaceInv, InBoxes
  <2>4. \A d \in Transit : cmd'[d] = cmd[d]
    BY <2>2, <2>3
  <2>5. \A d : Awaited(d)' <=> Awaited(d)
    BY <2>1 DEF Awaited
  <2>6. \A d \in Elements(out') \cup Ids(resp') : Sync(d)' => Awaited(d)'
    BY <1>1, <2>1, <2>2, <2>4, <2>5 DEF SyncInv, Sync, Transit
  <2>7. \A d \in Elements(out') : ~Sync(d)' => cmd'[d].buf = None
    BY <1>1, <2>1, <2>2, <2>4 DEF SyncInv, Sync, Transit
  <2>8. (\A d \in Ids(inbox') : Awaited(d)') /\ \A d \in InBoxes' : ~Sync(d)'
    BY <1>1, <2>1, <2>3, <2>4, <2>5 DEF SyncInv, Sync, Transit
  <2>9. ASSUME NEW t \in Threads, thread[t].pc = "waiting" PROVE cmd'[thread[t].cmd] = thread[t].asked
    <3>1. /\ thread[t].cmd \in Cmds /\ cmd[thread[t].cmd] = thread[t].asked /\ thread[t].asked.op # "none"
      BY <1>1, <2>9 DEF SyncInv, BaseInv, CallInv, Busy
    <3> QED BY <2>1, <2>2, <3>1 DEF Blank
  <2> QED BY <1>1, <2>1, <2>6, <2>7, <2>8, <2>9 DEF SyncInv
<1>8. ASSUME NEW t \in Threads, TakeAnswer(t) PROVE SyncInv'
  <2> DEFINE a == Head(inbox)
  <2>1. /\ inbox \in Seq(Answer) /\ inbox # <<>> /\ inbox' = Tail(inbox) /\ a \in Answer /\ a \in Elements(inbox)
        /\ UNCHANGED <<out, resp, box>> /\ cmd' = [cmd EXCEPT ![a.cmd] = Blank]
    BY <1>8, TailElements DEF TakeAnswer, BaseInv, TypeOK
  <2>2. Ids(inbox') = Ids(inbox) \ {a.cmd} /\ a.cmd \in Ids(inbox)
    BY <2>1, TailIds DEF PlaceInv
  <2>3. /\ thread[t].pc = "waiting" /\ thread'[t].pc = "answered" /\ thread'[t].answer = a
        /\ thread'[t].asked = thread[t].asked /\ thread'[t].cmd = thread[t].cmd
        /\ \A u \in Threads \ {t} : thread'[u] = thread[u] /\ thread[u].pc = "idle"
    BY <1>8, OneBusy DEF TakeAnswer, Busy, BaseInv, TypeOK
  <2> HIDE DEF a
  <2>4. \A c : Awaited(c) => c = thread[t].cmd
    BY <2>3 DEF Awaited
  <2>5. /\ a.cmd = thread[t].cmd /\ Ids(inbox) = {a.cmd} /\ a.cmd \in Cmds
        /\ a.cmd \notin Elements(out) \cup Ids(resp) \cup InBoxes
    BY <1>1, <2>2, <2>4 DEF SyncInv, PlaceInv, Transit
  <2>6. /\ \A c \in Elements(out) \cup Ids(resp) : ~Sync(c)
        /\ Ids(inbox') = {} /\ InBoxes' = InBoxes
    BY <1>1, <2>1, <2>2, <2>4, <2>5 DEF SyncInv, InBoxes
  <2>7. \A c \in Elements(out) \cup Ids(resp) \cup InBoxes : cmd'[c] = cmd[c]
    BY <2>1, <2>5 DEF PlaceInv, Transit, BaseInv, TypeOK
  <2>8. a # NoAnswer /\ (a.op = "register" => thread[t].asked.op = "register")
    BY <1>1, <2>1, <2>3, <2>5, NoneAssumption DEF NoAnswer, ReportInv, SyncInv
  <2>9. /\ \A c \in Elements(out') \cup Ids(resp') : ~Sync(c)'
        /\ \A c \in Elements(out') : cmd'[c].buf = None
        /\ \A c \in InBoxes' : ~Sync(c)'
    BY <1>1, <2>1, <2>6, <2>7 DEF SyncInv, Sync
  <2> QED BY <1>1, <2>3, <2>5, <2>6, <2>8, <2>9 DEF SyncInv
<1>9. CASE ProxyDelivers
  <2> DEFINE a == Head(resp)
  <2>1. /\ a \in Answer /\ Ids(resp') = Ids(resp) \ {a.cmd} /\ a.cmd \in Ids(resp)
        /\ out' = out /\ thread' = thread
    BY <1>9, TailIds DEF ProxyDelivers, PlaceInv, BaseInv, TypeOK
  <2>2. \/ Sync(a.cmd) /\ inbox' = Append(inbox, a) /\ UNCHANGED <<box, cmd>>
        \/ /\ ~Sync(a.cmd) /\ UNCHANGED <<inbox, cmd>>
           /\ \E h \in Handles : box' = [box EXCEPT ![h] = Append(@, a)]
        \/ ~Sync(a.cmd) /\ UNCHANGED <<inbox, box>> /\ cmd' = [cmd EXCEPT ![a.cmd] = Blank]
    BY <1>9 DEF ProxyDelivers, ForProxy, Sync, ToHandle, MappedTo
  <2> HIDE DEF a
  <2>3. CASE Sync(a.cmd) /\ inbox' = Append(inbox, a) /\ UNCHANGED <<box, cmd>>
    <3>1. Ids(inbox') = Ids(inbox) \cup {a.cmd} /\ InBoxes' = InBoxes
      BY <2>1, <2>3, AppendIds DEF BaseInv, TypeOK, InBoxes
    <3>2. /\ thread' = thread
          /\ Elements(out') \subseteq Elements(out)
          /\ Elements(out') \cup Ids(resp') \subseteq Elements(out) \cup Ids(resp)
          /\ \A c \in Ids(inbox') : c \in Ids(inbox) \/ (c \in Ids(resp) /\ Sync(c))
          /\ \A c \in InBoxes' : c \in InBoxes \/ (c \in Ids(resp) /\ ~Sync(c))
      BY <2>1, <2>3, <3>1
    <3>3. \A c \in Cmds : Sync(c) /\ cmd[c] # Blank => cmd'[c] = cmd[c]
      BY <2>3
    <3> QED BY <1>1, <3>2, <3>3, SyncMoved
  <2>4. ASSUME NEW h \in Handles, ~Sync(a.cmd), UNCHANGED <<inbox, cmd>>,
               box' = [box EXCEPT ![h] = Append(@, a)]
        PROVE  SyncInv'
    <3>1. /\ box'[h] = Append(box[h], a) /\ box[h] \in Seq(Answer)
          /\ \A g \in Handles \ {h} : box'[g] = box[g]
      BY <2>4 DEF BaseInv, TypeOK
    <3>2. Ids(box'[h]) = Ids(box[h]) \cup {a.cmd}
      BY <2>1, <3>1, AppendIds
    <3>3. \A c \in InBoxes' : c \in InBoxes \/ c = a.cmd
      BY <3>1, <3>2 DEF InBoxes
    <3>4. /\ thread' = thread
          /\ Elements(out') \subseteq Elements(out)
          /\ Elements(out') \cup Ids(resp') \subseteq Elements(out) \cup Ids(resp)
          /\ \A c \in Ids(inbox') : c \in Ids(inbox) \/ (c \in Ids(resp) /\ Sync(c))
          /\ \A c \in InBoxes' : c \in InBoxes \/ (c \in Ids(resp) /\ ~Sync(c))
      BY <2>1, <2>4, <3>3
    <3>5. \A c \in Cmds : Sync(c) /\ cmd[c] # Blank => cmd'[c] = cmd[c]
      BY <2>4
    <3> QED BY <1>1, <3>4, <3>5, SyncMoved
  <2>5. CASE ~Sync(a.cmd) /\ UNCHANGED <<inbox, box>> /\ cmd' = [cmd EXCEPT ![a.cmd] = Blank]
    <3>1. InBoxes' = InBoxes
      BY <2>5 DEF InBoxes
    <3>2. \A c \in Cmds : Sync(c) /\ cmd[c] # Blank => cmd'[c] = cmd[c]
      BY <2>5 DEF BaseInv, TypeOK
    <3>3. /\ thread' = thread
          /\ Elements(out') \subseteq Elements(out)
          /\ Elements(out') \cup Ids(resp') \subseteq Elements(out) \cup Ids(resp)
          /\ \A c \in Ids(inbox') : c \in Ids(inbox) \/ (c \in Ids(resp) /\ Sync(c))
          /\ \A c \in InBoxes' : c \in InBoxes \/ (c \in Ids(resp) /\ ~Sync(c))
      BY <2>1, <2>5, <3>1
    <3> QED BY <1>1, <3>2, <3>3, SyncMoved
  <2> QED BY <2>2, <2>3, <2>4, <2>5
<1>10. ASSUME NEW i \in DOMAIN out, NEW op, NEW k, Answers(i, op, k),
              [cmd |-> out[i], op |-> op, comp |-> k] \in Answer
       PROVE  SyncInv'
  <2> DEFINE a == [cmd |-> out[i], op |-> op, comp |-> k]
  <2>1. /\ a \in Answer /\ a.cmd = out[i] /\ resp' = Append(resp, a) /\ out' = RemoveAt(out, i)
        /\ UNCHANGED <<cmd, inbox, box, thread>>
    BY <1>10 DEF Answers
  <2> HIDE DEF a
  <2>2. /\ Elements(out') = Elements(out) \ {out[i]} /\ out[i] \in Elements(out)
    <3>1. out \in Seq(Cmds) /\ Distinct(out)
      BY DEF BaseInv, TypeOK, PlaceInv
    <3>2. Elements(RemoveAt(out, i)) = Elements(out) \ {out[i]}
      BY <3>1, RemoveElements
    <3> QED BY <2>1, <3>2 DEF Elements
  <2>3. Ids(resp') = Ids(resp) \cup {out[i]} /\ InBoxes' = InBoxes
    BY <2>1, AppendIds DEF BaseInv, TypeOK, InBoxes
  <2>4. /\ thread' = thread
        /\ Elements(out') \subseteq Elements(out)
        /\ Elements(out') \cup Ids(resp') \subseteq Elements(out) \cup Ids(resp)
        /\ \A c \in Ids(inbox') : c \in Ids(inbox) \/ (c \in Ids(resp) /\ Sync(c))
        /\ \A c \in InBoxes' : c \in InBoxes \/ (c \in Ids(resp) /\ ~Sync(c))
    BY <2>1, <2>2, <2>3
  <2>5. \A c \in Cmds : Sync(c) /\ cmd[c] # Blank => cmd'[c] = cmd[c]
    BY <2>1
  <2> QED BY <1>1, <2>4, <2>5, SyncMoved
<1>11. ASSUME NEW i \in DOMAIN out, DspUnregisters(i) \/ DspExecutes(i) \/ DspFails(i)
                                     \/ \E k \in Components : DspRegisters(i, k)
       PROVE  SyncInv'
  <2>1. \A op \in {"register", "unregister", "call", "config", "data"}, k \in Components \cup {None} :
          [cmd |-> out[i], op |-> op, comp |-> k] \in Answer
    BY DEF BaseInv, TypeOK, Answer
  <2>2. \E op \in {"register", "unregister", "call", "config", "data"}, k \in Components \cup {None} :
          Answers(i, op, k)
    BY <1>11 DEF DspUnregisters, DspExecutes, DspFails, DspRegisters
  <2> QED BY <1>10, <2>1, <2>2
<1>12. CASE UNCHANGED vars
  <2>1. /\ thread' = thread
        /\ Elements(out') \subseteq Elements(out)
        /\ Elements(out') \cup Ids(resp') \subseteq Elements(out) \cup Ids(resp)
        /\ \A c \in Ids(inbox') : c \in Ids(inbox) \/ (c \in Ids(resp) /\ Sync(c))
        /\ \A c \in InBoxes' : c \in InBoxes \/ (c \in Ids(resp) /\ ~Sync(c))
    BY <1>12 DEF vars, InBoxes
  <2>2. \A c \in Cmds : Sync(c) /\ cmd[c] # Blank => cmd'[c] = cmd[c]
    BY <1>12 DEF vars
  <2> QED BY <1>1, <2>1, <2>2, SyncMoved
<1> QED
  BY NextIsSteps, <1>2, <1>3, <1>4, <1>5, <1>6, <1>7, <1>8, <1>9, <1>11, <1>12 DEF Steps

\* An asynchronous command, and its answer, belong to a handle that is open: while it is being
\* closed they are ahead of its unregistration.
Before(q, x, y) == \E i, j \in DOMAIN q : i < j /\ q[i] = x /\ q[j] = y
Of(c, h) == ~Sync(c) /\ cmd[c].handle = h
Belongs(c) ==
    /\ cmd[c].op = "data" /\ cmd[c].handle \in Handles
    /\ handle[cmd[c].handle].st \in {"open", "closing"}
    /\ handle[cmd[c].handle].client = cmd[c].client
    /\ handle[cmd[c].handle].comp = cmd[c].comp
Received(c, h) ==
    /\ handle[h].st \in {"open", "closing"}
    /\ cmd[c].handle = h /\ cmd[c].comp = handle[h].comp
Ahead(t) ==
    /\ \A c \in Elements(out) : Of(c, thread[t].asked.handle) =>
         thread[t].pc = "waiting" /\ Before(out, c, thread[t].cmd)
    /\ \A a \in Elements(resp) : Of(a.cmd, thread[t].asked.handle) =>
         /\ thread[t].pc = "waiting"
         /\ \/ thread[t].cmd \in Elements(out)
            \/ \E b \in Elements(resp) : b.cmd = thread[t].cmd /\ Before(resp, a, b)
DataInv == timely =>
    /\ \A c \in Elements(out) \cup Ids(resp) : ~Sync(c) => Belongs(c)
    /\ \A h \in Handles : \A c \in Ids(box[h]) : Received(c, h)
    /\ \A t \in Threads : Busy(t) /\ thread[t].asked.op = "unregister" => Ahead(t)

\* Order in a queue outlives a command that joins it ...
LEMMA BeforeAppended ==
    ASSUME NEW S, NEW q \in Seq(S), NEW e \in S
    PROVE  /\ \A x, y : Before(q, x, y) => Before(Append(q, e), x, y)
           /\ \A x \in Elements(q) : Before(Append(q, e), x, e)
<1>1. /\ Len(Append(q, e)) = Len(q) + 1 /\ Len(q) \in Nat
      /\ DOMAIN Append(q, e) = 1 .. Len(q) + 1 /\ DOMAIN q = 1 .. Len(q)
      /\ \A i \in 1 .. Len(q) : Append(q, e)[i] = q[i]
      /\ Append(q, e)[Len(q) + 1] = e
  OBVIOUS
<1>2. Len(q) + 1 \in 1 .. Len(q) + 1
      /\ \A i \in 1 .. Len(q) : i \in 1 .. Len(q) + 1 /\ i < Len(q) + 1
  BY <1>1
<1> QED BY <1>1, <1>2 DEF Before, Elements

\* ... one that is taken out of the middle ...
LEMMA BeforeRemoved ==
    ASSUME NEW S, NEW q \in Seq(S), NEW k \in DOMAIN q, NEW x, NEW y, Before(q, x, y), q[k] # x, q[k] # y
    PROVE  Before(RemoveAt(q, k), x, y)
<1> DEFINE p == RemoveAt(q, k)
<1>1. /\ DOMAIN p = 1 .. Len(q) - 1 /\ DOMAIN q = 1 .. Len(q) /\ Len(q) \in Nat /\ k \in 1 .. Len(q)
      /\ \A i \in 1 .. Len(q) - 1 : p[i] = IF i < k THEN q[i] ELSE q[i + 1]
  <2>1. /\ p \in Seq(S) /\ Len(p) = Len(q) - 1
        /\ \A i \in 1 .. Len(q) - 1 : p[i] = IF i < k THEN q[i] ELSE q[i + 1]
    BY RemoveAtProperties
  <2> HIDE DEF p
  <2> QED BY <2>1
<1> HIDE DEF p
<1>2. PICK i, j \in DOMAIN q : i < j /\ q[i] = x /\ q[j] = y
  BY DEF Before
<1>3. i # k /\ j # k
  BY <1>2
<1> DEFINE m(n) == IF n < k THEN n ELSE n - 1
<1>4. m(i) \in DOMAIN p /\ m(j) \in DOMAIN p /\ m(i) < m(j)
  BY <1>1, <1>2, <1>3
<1>5. p[m(i)] = q[i] /\ p[m(j)] = q[j]
  BY <1>1, <1>2, <1>3, <1>4
<1> QED BY <1>2, <1>4, <1>5 DEF Before, p

\* ... and the one at its head.
LEMMA BeforeTail ==
    ASSUME NEW S, NEW q \in Seq(S), q # <<>>, NEW x, NEW y, Before(q, x, y), x # Head(q)
    PROVE  Before(Tail(q), x, y) /\ y \in Elements(Tail(q))
<1>1. /\ Head(q) = q[1] /\ Len(q) \in Nat \ {0}
      /\ DOMAIN q = 1 .. Len(q) /\ DOMAIN Tail(q) = 1 .. Len(q) - 1
      /\ \A i \in 1 .. Len(q) - 1 : Tail(q)[i] = q[i + 1]
  OBVIOUS
<1>2. PICK i, j \in DOMAIN q : i < j /\ q[i] = x /\ q[j] = y
  BY DEF Before
<1>3. i # 1
  BY <1>1, <1>2
<1>4. /\ i - 1 \in 1 .. Len(q) - 1 /\ j - 1 \in 1 .. Len(q) - 1 /\ i - 1 < j - 1
      /\ (i - 1) + 1 = i /\ (j - 1) + 1 = j
  BY <1>1, <1>2, <1>3
<1>5. Tail(q)[i - 1] = x /\ Tail(q)[j - 1] = y
  BY <1>1, <1>2, <1>4
<1> QED BY <1>1, <1>4, <1>5 DEF Before, Elements

\* Nothing is under way.
LEMMA DataInit == Init => DataInv
BY DEF Init, DataInv, Elements, Ids, Busy, Idle

\* A call that begins leaves the open handles, and what is under way, as they are.
LEMMA DataBegun ==
    ASSUME BaseInv, PlaceInv, PlaceInv', DataInv, timely, [Next]_vars, NEW t \in Threads, NEW c \in Cmds,
           NEW r \in Request, r.client = 0, Begin(t, c, r), UNCHANGED <<resp, inbox, box>>,
           \A h \in Handles : handle[h].st \in {"open", "closing"} =>
             /\ handle'[h].st \in {"open", "closing"}
             /\ handle'[h].client = handle[h].client /\ handle'[h].comp = handle[h].comp
    PROVE  DataInv'
<1>1. /\ thread'[t].pc = "waiting" /\ thread'[t].cmd = c
      /\ \A u \in Threads \ {t} : ~Busy(u)'
  BY OnlyCaller
<1>2. /\ Elements(out') = Elements(out) \cup {c} /\ cmd'[c] = r
      /\ \A d \in Elements(out) : Before(out', d, c)
      /\ cmd[c] = Blank
  BY AppendElements, BeforeAppended DEF Begin, Submit, BaseInv, TypeOK
<1>3. /\ c \notin Transit /\ Transit \subseteq Transit' /\ InBoxes' = InBoxes
      /\ \A h \in Handles : box'[h] = box[h]
  BY <1>2 DEF PlaceInv, InBoxes, Transit
<1>4. \A d \in Transit : cmd'[d] = cmd[d]
  BY <1>3, AskedKept
<1>5. Sync(c)' /\ \A d \in Transit : Sync(d)' <=> Sync(d)
  BY <1>2, <1>4 DEF Sync
<1>6. \A d \in Elements(out') \cup Ids(resp') : ~Sync(d)' => Belongs(d)'
  BY <1>2, <1>4, <1>5 DEF DataInv, Belongs, Transit
<1>7. ASSUME NEW h \in Handles, NEW d \in Ids(box'[h]) PROVE Received(d, h)'
  <2>1. d \in Ids(box[h]) /\ d \in Transit
    BY <1>3, <1>7 DEF InBoxes, Transit
  <2> QED BY <1>4, <2>1 DEF DataInv, Received
<1>8. Ahead(t)'
  BY <1>1, <1>2, <1>5 DEF Ahead, Of
<1> QED BY <1>1, <1>6, <1>7, <1>8 DEF DataInv

\* A call that returns has left nothing of the handle it destroys under way.
LEMMA DataLeft ==
    ASSUME BaseInv, PlaceInv, PlaceInv', DataInv, timely, [Next]_vars, NEW t \in Threads, NEW op,
           Leaves(t, op), NEW h \in Handles, handle[h].st \in {"opening", "closing"},
           handle[h].st = "closing" => op = "unregister" /\ thread[t].asked.handle = h,
           \A g \in Handles \ {h} : handle'[g] = handle[g] /\ box'[g] = box[g],
           Ids(box'[h]) = {}
    PROVE  DataInv'
<1>1. UNCHANGED <<out, resp, inbox>> /\ \A u \in Threads : ~Busy(u)'
  BY NobodyAfter DEF Leaves
<1>2. InBoxes' \subseteq InBoxes /\ Transit' \subseteq Transit
  BY <1>1 DEF InBoxes, Transit
<1>3. \A c \in Transit' : cmd'[c] = cmd[c]
  BY <1>2, AskedKept
<1>4. ASSUME NEW c \in Elements(out) \cup Ids(resp), ~Sync(c) PROVE cmd[c].handle # h
  <2>1. CASE handle[h].st = "opening"
    BY <1>4, <2>1 DEF DataInv, Belongs
  <2>2. CASE handle[h].st = "closing"
    <3>1. Ahead(t) /\ thread[t].pc = "answered" /\ thread[t].asked.handle = h
      BY <2>2 DEF DataInv, Leaves, Busy
    <3>2. ~Of(c, h)
      BY <3>1 DEF Ahead, Elements, Ids
    <3> QED BY <1>4, <3>2 DEF Of
  <2> QED BY <2>1, <2>2
<1>5. \A c \in Elements(out') \cup Ids(resp') : ~Sync(c)' => Belongs(c)'
  BY <1>1, <1>3, <1>4 DEF DataInv, Belongs, Sync, Transit
<1>6. ASSUME NEW g \in Handles, NEW c \in Ids(box'[g]) PROVE Received(c, g)'
  <2>1. g # h /\ c \in Ids(box[g]) /\ c \in Transit'
    BY <1>6 DEF InBoxes, Transit
  <2> QED BY <1>3, <2>1 DEF DataInv, Received
<1> QED BY <1>1, <1>5, <1>6 DEF DataInv

\* An answer that moves on while the handles stay as they are, given that what is still ahead
\* of an unregistration was.
LEMMA DataMoved ==
    ASSUME BaseInv, PlaceInv, PlaceInv', DataInv, timely, [Next]_vars, handle' = handle,
           Elements(out') \cup Ids(resp') \subseteq Elements(out) \cup Ids(resp),
           Ids(inbox') \subseteq Ids(inbox) \cup Ids(resp),
           \A h \in Handles : \A c \in Ids(box'[h]) :
             c \in Ids(box[h]) \/ (c \in Ids(resp) /\ ~Sync(c) /\ cmd[c].handle = h),
           \A t \in Threads : Busy(t)' /\ thread'[t].asked.op = "unregister" => Ahead(t)'
    PROVE  DataInv'
<1>1. Transit' \subseteq Transit
  BY DEF Transit, InBoxes
<1>2. \A c \in Transit' : cmd'[c] = cmd[c]
  BY <1>1, AskedKept
<1>3. \A c \in Elements(out') \cup Ids(resp') : ~Sync(c)' => Belongs(c)'
  BY <1>2 DEF DataInv, Belongs, Sync, Transit
<1>4. ASSUME NEW h \in Handles, NEW c \in Ids(box'[h]) PROVE Received(c, h)'
  <2>1. cmd'[c] = cmd[c]
    BY <1>2, <1>4 DEF InBoxes, Transit
  <2>2. Received(c, h)
    BY <1>4 DEF DataInv, Belongs, Received
  <2> QED BY <2>1, <2>2 DEF Received
<1> QED BY <1>3, <1>4 DEF DataInv

\* What is ahead of an unregistration is so still while the DSP answers in turn.
LEMMA AheadAnswered ==
    ASSUME BaseInv, PlaceInv, ReportInv, CompInv, SyncInv, DataInv, timely, NEW i \in DOMAIN out, NEW op, NEW k,
           [cmd |-> out[i], op |-> op, comp |-> k] \in Answer, Answers(i, op, k),
           cmd[out[i]].op = "unregister" => ItsTurn(i),
           NEW t \in Threads, Busy(t), thread[t].asked.op = "unregister"
    PROVE  Ahead(t)'
<1> DEFINE new == [cmd |-> out[i], op |-> op, comp |-> k]
           x == out[i]
           d == thread[t].cmd
           h == thread[t].asked.handle
<1>1. /\ new \in Answer /\ new.cmd = x /\ resp' = Append(resp, new) /\ out' = RemoveAt(out, i)
      /\ resp \in Seq(Answer) /\ out \in Seq(Cmds) /\ Distinct(out)
      /\ UNCHANGED <<cmd, thread>> /\ out[i] = x
  BY DEF Answers, BaseInv, TypeOK, PlaceInv
<1>2. h \in Handles /\ handle[h].st = "closing" /\ thread[t].asked.comp = handle[h].comp /\ handle[h].comp # None
  BY NoneAssumption DEF BaseInv, CallInv, CompInv, Known
<1>3. Ahead(t)
  BY DEF DataInv
<1> HIDE DEF new
<1>4. Elements(out') = Elements(out) \ {x} /\ Elements(resp') = Elements(resp) \cup {new} /\ x \in Elements(out)
  <2>1. Elements(RemoveAt(out, i)) = Elements(out) \ {out[i]}
    BY <1>1, RemoveElements
  <2>2. Elements(Append(resp, new)) = Elements(resp) \cup {new}
    BY <1>1, AppendElements
  <2> QED BY <1>1, <2>1, <2>2 DEF Elements
<1>5. ASSUME NEW c \in Elements(out), Of(c, h)
      PROVE  /\ thread[t].pc = "waiting" /\ Before(out, c, d) /\ d \in Elements(out) /\ d # c
             /\ c # x => d # x
  <2>1. thread[t].pc = "waiting" /\ Before(out, c, d)
    BY <1>3, <1>5 DEF Ahead
  <2>2. PICK p, q \in DOMAIN out : p < q /\ out[p] = c /\ out[q] = d
    BY <2>1 DEF Before
  <2>3. d \in Elements(out) /\ d # c
    <3>1. p # q
      BY <1>1, <2>2
    <3> QED BY <1>1, <2>2, <3>1 DEF Elements, Distinct
  <2>4. ASSUME d = x PROVE FALSE
    <3>1. q = i
      BY <1>1, <2>2, <2>4 DEF Distinct
    <3>2. cmd[x] = thread[t].asked
      BY <2>1, <2>4 DEF SyncInv
    <3>3. ItsTurn(i)
      BY <3>2
    <3>4. p \in 1 .. (i - 1)
      BY <1>1, <2>2, <3>1
    <3>5. cmd[c].comp # cmd[x].comp \/ cmd[c].comp = None
      BY <2>2, <3>3, <3>4 DEF ItsTurn
    <3>6. cmd[c].comp = handle[h].comp
      BY <1>5 DEF DataInv, Of, Belongs
    <3> QED BY <1>2, <3>2, <3>5, <3>6
  <2> QED BY <2>1, <2>3, <2>4
<1> HIDE DEF x
<1>6. ASSUME NEW c \in Elements(out'), Of(c, h)
      PROVE  thread[t].pc = "waiting" /\ Before(out', c, d)
  <2>1. c \in Elements(out) /\ c # x
    BY <1>4, <1>6
  <2>2. Before(out, c, d) /\ d # x /\ thread[t].pc = "waiting"
    BY <1>5, <1>6, <2>1
  <2> QED BY <1>1, <2>1, <2>2, BeforeRemoved
<1>7. ASSUME NEW a \in Elements(resp'), Of(a.cmd, h)
      PROVE  /\ thread[t].pc = "waiting"
             /\ \/ d \in Elements(out')
                \/ \E b \in Elements(resp') : b.cmd = d /\ Before(resp', a, b)
  <2>1. CASE a = new
    BY <1>1, <1>4, <1>5, <1>7, <2>1
  <2>2. CASE a \in Elements(resp)
    <3>1. /\ thread[t].pc = "waiting"
          /\ d \in Elements(out) \/ \E b \in Elements(resp) : b.cmd = d /\ Before(resp, a, b)
      BY <1>3, <1>7, <2>2 DEF Ahead
    <3>2. CASE d \in Elements(out) /\ d # x
      BY <1>4, <3>1, <3>2
    <3>3. CASE d = x
      <4>1. Before(Append(resp, new), a, new)
        BY <1>1, <2>2, BeforeAppended
      <4> QED BY <1>1, <1>4, <3>1, <3>3, <4>1
    <3>4. ASSUME NEW b \in Elements(resp), b.cmd = d, Before(resp, a, b)
          PROVE  b \in Elements(resp') /\ Before(resp', a, b)
      <4>1. Before(Append(resp, new), a, b)
        BY <1>1, <3>4, BeforeAppended
      <4> QED BY <1>1, <1>4, <3>4, <4>1
    <3> QED BY <3>1, <3>2, <3>3, <3>4
  <2> QED BY <1>4, <2>1, <2>2
<1> QED BY <1>1, <1>6, <1>7 DEF Ahead, Of, Sync

\* The answers of a handle are delivered before that of its unregistration.
LEMMA DataStep ==
    ASSUME BaseInv, PlaceInv, PlaceInv', ReportInv, CompInv, SyncInv, DataInv, [Next]_vars
    PROVE  DataInv'
<1> SUFFICES ASSUME timely' PROVE DataInv'
  BY DEF DataInv
<1>1. timely
  BY TimelyBefore
<1>2. ASSUME NEW t \in Threads, NEW h \in Handles, NEW c \in Cmds, NEW b \in Buffers,
             Open(t, h, c, b) \/ Call(t, h, c, b)
      PROVE  DataInv'
  <2>1. \E r \in Request : r.client = 0 /\ Begin(t, c, r)
    BY <1>2, ClientIds DEF Open, Call, Request, BaseInv, TypeOK
  <2>2. /\ UNCHANGED <<resp, inbox, box>>
        /\ \A g \in Handles : handle[g].st \in {"open", "closing"} => handle'[g] = handle[g]
    BY <1>2 DEF Open, Call, BaseInv, TypeOK
  <2> QED BY <1>1, <2>1, <2>2, DataBegun
<1>3. ASSUME NEW t \in Threads, NEW h \in Handles, NEW c \in Cmds, Close(t, h, c) \/ Config(t, h, c)
      PROVE  DataInv'
  <2>1. \E r \in Request : r.client = 0 /\ Begin(t, c, r)
    BY <1>3, ClientIds DEF Close, Config, Request, BaseInv, TypeOK
  <2>2. /\ UNCHANGED <<resp, inbox, box>>
        /\ \A g \in Handles : handle[g].st \in {"open", "closing"} =>
             /\ handle'[g].st \in {"open", "closing"}
             /\ handle'[g].client = handle[g].client /\ handle'[g].comp = handle[g].comp
    <3>1. CASE Close(t, h, c)
      BY <3>1 DEF Close, BaseInv, TypeOK
    <3>2. CASE Config(t, h, c)
      BY <3>2 DEF Config
    <3> QED BY <1>3, <3>1, <3>2
  <2> QED BY <1>1, <2>1, <2>2, DataBegun
<1>4. ASSUME NEW t \in Threads, TimesOut(t) PROVE DataInv'
  BY <1>4 DEF TimesOut
<1>5. ASSUME NEW t \in Threads, OpenReturns(t) PROVE DataInv'
  <2> DEFINE h == thread[t].asked.handle
  <2>1. /\ h \in Handles /\ handle[h].st = "opening" /\ Leaves(t, "register")
        /\ \A g \in Handles \ {h} : handle'[g] = handle[g]
    BY <1>5 DEF OpenReturns, Leaves, BaseInv, CallInv, Busy, TypeOK, Destroyed
  <2>2. /\ \A g \in Handles \ {h} : box'[g] = box[g]
        /\ box'[h] = box[h] \/ box'[h] = <<>>
    BY <1>5, <2>1 DEF OpenReturns, Destroyed, BaseInv, TypeOK
  <2>3. Ids(box'[h]) = {}
    <3>1. Ids(box[h]) = {}
      BY <1>1, <2>1 DEF DataInv, Received
    <3>2. Ids(<<>>) = {}
      BY DEF Ids
    <3> QED BY <2>2, <3>1, <3>2
  <2> QED BY <1>1, <2>1, <2>2, <2>3, DataLeft
<1>6. ASSUME NEW t \in Threads, CloseReturns(t) PROVE DataInv'
  <2> DEFINE h == thread[t].asked.handle
  <2>1. h \in Handles /\ handle[h].st = "closing" /\ Leaves(t, "unregister") /\ Destroyed(h)
    BY <1>6 DEF CloseReturns, Leaves, BaseInv, CallInv, Busy
  <2>2. /\ \A g \in Handles \ {h} : handle'[g] = handle[g] /\ box'[g] = box[g]
        /\ box'[h] = <<>>
    BY <2>1 DEF Destroyed, BaseInv, TypeOK
  <2>3. Ids(box'[h]) = {}
    BY <2>2 DEF Ids
  <2> QED BY <1>1, <2>1, <2>2, <2>3, DataLeft
<1>7. ASSUME NEW t \in Threads, CallReturns(t) \/ ConfigReturns(t) PROVE DataInv'
  <2>1. UNCHANGED <<out, resp, inbox, box, handle>> /\ \A u \in Threads : ~Busy(u)'
    BY <1>7, NobodyAfter DEF CallReturns, ConfigReturns, Leaves
  <2> QED BY <1>1, <2>1, DataMoved
<1>8. ASSUME UNCHANGED <<thread, out, resp>> PROVE \A t \in Threads : Ahead(t) => Ahead(t)'
  <2>1. \A c \in Elements(out) \cup Ids(resp) : cmd'[c] = cmd[c]
    BY <1>8, AskedKept DEF Transit
  <2>2. \A c \in Elements(out) \cup Ids(resp) : \A h : Of(c, h)' <=> Of(c, h)
    BY <2>1 DEF Of, Sync
  <2>3. \A a \in Elements(resp) : a.cmd \in Ids(resp)
    BY DEF Elements, Ids
  <2> QED BY <1>8, <2>2, <2>3 DEF Ahead
<1>9. ASSUME NEW h \in Handles, Read(h) PROVE DataInv'
  <2>1. /\ box[h] \in Seq(Answer) /\ box[h] # <<>> /\ box' = [box EXCEPT ![h] = Tail(box[h])]
        /\ UNCHANGED <<out, resp, inbox, thread, handle>>
    BY <1>9 DEF Read, BaseInv, TypeOK
  <2>2. Ids(Tail(box[h])) \subseteq Ids(box[h])
    BY <2>1, TailIds
  <2>3. \A g \in Handles : Ids(box'[g]) \subseteq Ids(box[g])
    BY <2>1, <2>2 DEF BaseInv, TypeOK
  <2>4. \A t \in Threads : Busy(t)' /\ thread'[t].asked.op = "unregister" => Ahead(t)'
    BY <1>1, <1>8, <2>1 DEF DataInv, Busy
  <2> QED BY <1>1, <2>1, <2>3, <2>4, DataMoved
<1>10. ASSUME NEW h \in Handles, NEW c \in Cmds, Data(h, c) PROVE DataInv'
  <2> DEFINE r == [op |-> "data", handle |-> h, client |-> handle[h].client,
                   comp |-> handle[h].comp, buf |-> None]
  <2>1. /\ r.op = "data" /\ r.handle = h /\ r.client = handle[h].client /\ r.comp = handle[h].comp
        /\ handle[h].st = "open" /\ cmd[c] = Blank /\ cmd' = [cmd EXCEPT ![c] = r]
        /\ out' = Append(out, c) /\ UNCHANGED <<resp, inbox, box, thread, handle>>
    BY <1>10 DEF Data, Submit
  <2> HIDE DEF r
  <2>2. /\ Elements(out') = Elements(out) \cup {c} /\ cmd'[c] = r
        /\ \A x, y : Before(out, x, y) => Before(out', x, y)
    BY <2>1, AppendElements, BeforeAppended DEF BaseInv, TypeOK
  <2>3. c \notin Transit /\ Transit \subseteq Transit' /\ \A g \in Handles : box'[g] = box[g]
    BY <2>1, <2>2 DEF PlaceInv, Transit, InBoxes
  <2>4. \A d \in Transit : cmd'[d] = cmd[d]
    BY <2>3, AskedKept
  <2>5. \A d \in Elements(out') \cup Ids(resp') : ~Sync(d)' => Belongs(d)'
    BY <1>1, <2>1, <2>2, <2>4 DEF DataInv, Belongs, Sync, Transit
  <2>6. ASSUME NEW g \in Handles, NEW d \in Ids(box'[g]) PROVE Received(d, g)'
    <3>1. d \in Ids(box[g]) /\ d \in Transit
      BY <2>3, <2>6 DEF InBoxes, Transit
    <3> QED BY <1>1, <2>1, <2>4, <3>1 DEF DataInv, Received
  <2>7. ASSUME NEW t \in Threads, Busy(t), thread[t].asked.op = "unregister" PROVE Ahead(t)'
    <3>1. Ahead(t) /\ thread[t].asked.handle # h
      BY <1>1, <2>1, <2>7 DEF DataInv, BaseInv, CallInv
    <3>2. \A d \in Elements(out) \cup Ids(resp) : \A g : Of(d, g)' <=> Of(d, g)
      BY <2>4 DEF Of, Sync, Transit
    <3>3. ~Of(c, thread[t].asked.handle)'
      BY <2>1, <2>2, <3>1 DEF Of
    <3>4. \A a \in Elements(resp) : a.cmd \in Ids(resp)
      BY DEF Elements, Ids
    <3>5. \A d \in Elements(out') : Of(d, thread[t].asked.handle)' =>
            thread[t].pc = "waiting" /\ Before(out', d, thread[t].cmd)
      BY <2>1, <2>2, <3>1, <3>2, <3>3 DEF Ahead
    <3>6. \A a \in Elements(resp') : Of(a.cmd, thread[t].asked.handle)' =>
            /\ thread[t].pc = "waiting"
            /\ \/ thread[t].cmd \in Elements(out')
               \/ \E b \in Elements(resp') : b.cmd = thread[t].cmd /\ Before(resp', a, b)
      BY <2>1, <2>2, <3>1, <3>2, <3>4 DEF Ahead
    <3> QED BY <2>1, <3>5, <3>6 DEF Ahead, Of
  <2> QED BY <2>1, <2>5, <2>6, <2>7 DEF DataInv, Busy
<1>11. ASSUME NEW t \in Threads, TakeAnswer(t) PROVE DataInv'
  <2>1. /\ inbox \in Seq(Answer) /\ inbox # <<>> /\ inbox' = Tail(inbox) /\ thread[t].pc = "waiting"
        /\ UNCHANGED <<out, resp, box, handle>>
        /\ thread'[t].asked = thread[t].asked
        /\ \A u \in Threads \ {t} : thread'[u] = thread[u] /\ ~Busy(u)
    BY <1>11, OneBusy DEF TakeAnswer, BaseInv, TypeOK, Busy
  <2>2. Head(inbox).cmd \in Ids(inbox) /\ Ids(inbox') \subseteq Ids(inbox)
    BY <2>1, TailIds
  <2>3. thread[t].cmd \in Ids(inbox)
    BY <1>1, <2>1, <2>2 DEF SyncInv, Awaited, Busy
  <2>4. thread[t].cmd \notin Elements(out) \cup Ids(resp)
    BY <2>3 DEF PlaceInv
  <2>5. ASSUME thread[t].asked.op = "unregister" PROVE Ahead(t)'
    <3>1. Ahead(t)
      BY <1>1, <2>1, <2>5 DEF DataInv, Busy
    <3>2. \A c \in Elements(out) : ~Of(c, thread[t].asked.handle)
      BY <2>4, <3>1 DEF Ahead, Before, Elements
    <3>3. \A a \in Elements(resp) : a.cmd \in Ids(resp) /\ ~Of(a.cmd, thread[t].asked.handle)
      BY <2>4, <3>1 DEF Ahead, Elements, Ids
    <3>4. \A c \in Elements(out) \cup Ids(resp) : cmd'[c] = cmd[c]
      BY <2>1, AskedKept DEF Transit
    <3> QED BY <2>1, <3>2, <3>3, <3>4 DEF Ahead, Of, Sync
  <2>6. \A u \in Threads : Busy(u)' /\ thread'[u].asked.op = "unregister" => Ahead(u)'
    BY <2>1, <2>5 DEF Busy
  <2> QED BY <1>1, <2>1, <2>2, <2>6, DataMoved
<1>12. CASE ProxyDelivers
  <2> DEFINE a == Head(resp)
  <2>1. /\ resp \in Seq(Answer) /\ resp # <<>> /\ resp' = Tail(resp)
        /\ UNCHANGED <<out, thread, handle>>
    BY <1>12 DEF ProxyDelivers, BaseInv, TypeOK
  <2>2. /\ a \in Answer /\ a.cmd \in Ids(resp) /\ Ids(resp') = Ids(resp) \ {a.cmd}
    BY <2>1, TailIds DEF PlaceInv
  <2>3. \/ inbox' = Append(inbox, a) /\ box' = box
        \/ /\ inbox' = inbox /\ ~Sync(a.cmd) /\ ToHandle(a.cmd) # None
           /\ box' = [box EXCEPT ![ToHandle(a.cmd)] = Append(@, a)]
        \/ UNCHANGED <<inbox, box>>
    BY <1>12 DEF ProxyDelivers, ForProxy, Sync
  <2>4. ASSUME ~Sync(a.cmd) PROVE ToHandle(a.cmd) = cmd[a.cmd].handle /\ cmd[a.cmd].handle \in Handles
    <3>1. Belongs(a.cmd)
      BY <1>1, <2>2, <2>4 DEF DataInv
    <3> QED BY <3>1 DEF Belongs, BaseInv, HandleInv, ToHandle, MappedTo
  <2> HIDE DEF a
  <2>5. Ids(inbox') \subseteq Ids(inbox) \cup Ids(resp)
    <3>1. Ids(Append(inbox, a)) = Ids(inbox) \cup {a.cmd}
      BY <2>2, AppendIds DEF BaseInv, TypeOK
    <3> QED BY <2>2, <2>3, <3>1
  <2>6. \A h \in Handles : \A c \in Ids(box'[h]) :
          c \in Ids(box[h]) \/ (c \in Ids(resp) /\ ~Sync(c) /\ cmd[c].handle = h)
    <3>1. CASE box' = box
      BY <3>1
    <3>2. ASSUME NEW g \in Handles, ~Sync(a.cmd), cmd[a.cmd].handle = g, box' = [box EXCEPT ![g] = Append(@, a)]
          PROVE  \A h \in Handles : \A c \in Ids(box'[h]) :
                   c \in Ids(box[h]) \/ (c \in Ids(resp) /\ ~Sync(c) /\ cmd[c].handle = h)
      <4>1. /\ box'[g] = Append(box[g], a) /\ box[g] \in Seq(Answer)
            /\ \A h \in Handles \ {g} : box'[h] = box[h]
        BY <3>2 DEF BaseInv, TypeOK
      <4>2. Ids(box'[g]) = Ids(box[g]) \cup {a.cmd}
        BY <2>2, <4>1, AppendIds
      <4> QED BY <2>2, <3>2, <4>1, <4>2
    <3> QED BY <2>3, <2>4, <3>1, <3>2
  <2>7. ASSUME NEW t \in Threads, Busy(t), thread[t].asked.op = "unregister" PROVE Ahead(t)'
    <3> DEFINE h == thread[t].asked.handle
    <3>1. Ahead(t)
      BY <1>1, <2>7 DEF DataInv
    <3>2. \A c \in Elements(out') \cup Ids(resp') : Of(c, h)' => Of(c, h)
      BY <2>1, <2>2, AskedKept DEF Of, Sync, Transit
    <3>3. ASSUME NEW e \in Elements(resp'), Of(e.cmd, h)
          PROVE  /\ thread[t].pc = "waiting"
                 /\ \/ thread[t].cmd \in Elements(out)
                    \/ \E b \in Elements(resp') : b.cmd = thread[t].cmd /\ Before(resp', e, b)
      <4>1. e \in Elements(resp) /\ e # a
        <5>1. e.cmd \in Ids(resp')
          BY DEF Elements, Ids
        <5> QED BY <2>1, <2>2, <5>1, TailElements
      <4>2. /\ thread[t].pc = "waiting"
            /\ \/ thread[t].cmd \in Elements(out)
               \/ \E b \in Elements(resp) : b.cmd = thread[t].cmd /\ Before(resp, e, b)
        BY <3>1, <3>3, <4>1 DEF Ahead
      <4>3. ASSUME NEW b, Before(resp, e, b) PROVE Before(resp', e, b) /\ b \in Elements(resp')
        BY <2>1, <4>1, <4>3, BeforeTail DEF a
      <4> QED BY <4>2, <4>3
    <3>4. \A e \in Elements(resp') : e.cmd \in Ids(resp')
      BY DEF Elements, Ids
    <3> QED BY <2>1, <3>1, <3>2, <3>3, <3>4 DEF Ahead
  <2>8. \A t \in Threads : Busy(t)' /\ thread'[t].asked.op = "unregister" => Ahead(t)'
    BY <2>1, <2>7 DEF Busy
  <2>9. Elements(out') \cup Ids(resp') \subseteq Elements(out) \cup Ids(resp)
    BY <2>1, <2>2
  <2> QED BY <1>1, <2>1, <2>5, <2>6, <2>8, <2>9, DataMoved
<1>13. ASSUME NEW i \in DOMAIN out, NEW op, NEW k, [cmd |-> out[i], op |-> op, comp |-> k] \in Answer,
              Answers(i, op, k), cmd[out[i]].op = "unregister" => ItsTurn(i)
       PROVE  DataInv'
  <2> DEFINE a == [cmd |-> out[i], op |-> op, comp |-> k]
  <2>1. /\ a \in Answer /\ a.cmd = out[i] /\ resp' = Append(resp, a) /\ out' = RemoveAt(out, i)
        /\ UNCHANGED <<inbox, box, thread, handle>>
    BY <1>13 DEF Answers
  <2> HIDE DEF a
  <2>2. /\ Elements(out') = Elements(out) \ {out[i]} /\ out[i] \in Elements(out)
    <3>1. Elements(RemoveAt(out, i)) = Elements(out) \ {out[i]}
      BY RemoveElements DEF BaseInv, TypeOK, PlaceInv
    <3> QED BY <2>1, <3>1 DEF Elements
  <2>3. Ids(resp') = Ids(resp) \cup {out[i]}
    BY <2>1, AppendIds DEF BaseInv, TypeOK
  <2>4. \A t \in Threads : Busy(t)' /\ thread'[t].asked.op = "unregister" => Ahead(t)'
    BY <1>1, <1>13, <2>1, AheadAnswered DEF Busy
  <2>5. Elements(out') \cup Ids(resp') \subseteq Elements(out) \cup Ids(resp)
    BY <2>2, <2>3
  <2>6. /\ handle' = handle /\ Ids(inbox') \subseteq Ids(inbox) \cup Ids(resp)
        /\ \A h \in Handles : \A c \in Ids(box'[h]) :
             c \in Ids(box[h]) \/ (c \in Ids(resp) /\ ~Sync(c) /\ cmd[c].handle = h)
    BY <2>1
  <2> QED BY <1>1, <2>4, <2>5, <2>6, DataMoved
<1>14. ASSUME NEW i \in DOMAIN out, DspUnregisters(i) \/ DspExecutes(i) \/ DspFails(i)
                                     \/ \E k \in Components : DspRegisters(i, k)
       PROVE  DataInv'
  <2>1. \A op \in {"register", "unregister", "call", "config", "data"}, k \in Components \cup {None} :
          [cmd |-> out[i], op |-> op, comp |-> k] \in Answer
    BY DEF BaseInv, TypeOK, Answer
  <2>2. \E op \in {"register", "unregister", "call", "config", "data"}, k \in Components \cup {None} :
          Answers(i, op, k)
    BY <1>14 DEF DspUnregisters, DspExecutes, DspFails, DspRegisters
  <2>3. cmd[out[i]].op = "unregister" => ItsTurn(i)
    BY <1>14 DEF DspUnregisters, DspExecutes, DspFails, DspRegisters
  <2> QED BY <1>13, <2>1, <2>2, <2>3
<1>15. CASE UNCHANGED vars
  <2>1. UNCHANGED <<out, resp, inbox, box, thread, handle>>
    BY <1>15 DEF vars
  <2>2. \A t \in Threads : Busy(t)' /\ thread'[t].asked.op = "unregister" => Ahead(t)'
    BY <1>1, <1>8, <2>1 DEF DataInv, Busy
  <2> QED BY <1>1, <2>1, <2>2, DataMoved
<1> QED
  BY NextIsSteps, <1>2, <1>3, <1>4, <1>5, <1>6, <1>7, <1>9, <1>10, <1>11, <1>12, <1>14, <1>15 DEF Steps

\* A component that is live is a handle's or about to be, and once the DSP has executed the
\* unregistration it is not live.
Owned(k) ==
    \/ \E h \in Handles : handle[h].comp = k
    \/ \E t \in Threads : thread[t].answer.comp = k
    \/ \E a \in Elements(resp) \cup Elements(inbox) : a.comp = k
Gone(t) ==
    \/ thread[t].pc = "waiting" /\ thread[t].cmd \in Elements(out)
    \/ thread[t].asked.comp \notin live
OrphanInv == timely =>
    /\ \A k \in live : Owned(k)
    /\ \A t \in Threads : Busy(t) /\ thread[t].asked.op = "unregister" => Gone(t)

\* No component is live.
LEMMA OrphanInit == Init => OrphanInv
BY DEF Init, OrphanInv, Busy, Idle

\* The answers of the threads that are in a call.
LEMMA AnswerComps ==
    ASSUME BaseInv, ReportInv, SyncInv, timely, NEW t \in Threads
    PROVE  thread[t].pc \in {"idle", "waiting"} \/ thread[t].asked.op # "register"
             => thread[t].answer.comp = None
<1>1. CASE thread[t].pc \in {"idle", "waiting"}
  BY <1>1 DEF SyncInv, NoAnswer
<1>2. CASE thread[t].pc = "answered" /\ thread[t].asked.op # "register"
  <2>1. thread[t].answer.op # "register"
    BY <1>2 DEF SyncInv
  <2> QED BY <2>1 DEF ReportInv, Reports
<1> QED BY <1>1, <1>2 DEF BaseInv, TypeOK

\* No step of a thread that begins or leaves a call orphans a component.
LEMMA OrphanCalls ==
    ASSUME BaseInv, ReportInv, CompInv, SyncInv, OrphanInv, timely, NEW t \in Threads,
           UNCHANGED <<resp, inbox, live>>,
           \A u \in Threads \ {t} : thread'[u] = thread[u] /\ ~Busy(u),
           \A k \in live : thread[t].answer.comp = k => \E h \in Handles : handle'[h].comp = k,
           \A h \in Handles : handle[h].comp \in live => handle'[h].comp = handle[h].comp,
           Busy(t)' /\ thread'[t].asked.op = "unregister" => Gone(t)'
    PROVE  OrphanInv'
<1>1. ASSUME NEW k \in live PROVE Owned(k)'
  <2>1. CASE \E h \in Handles : handle[h].comp = k
    BY <2>1 DEF Owned
  <2>2. CASE \E u \in Threads : thread[u].answer.comp = k
    <3>1. PICK u \in Threads : thread[u].answer.comp = k
      BY <2>2
    <3>2. CASE u = t
      BY <3>1, <3>2 DEF Owned
    <3>3. CASE u # t
      BY <3>1, <3>3 DEF Owned
    <3> QED BY <3>2, <3>3
  <2>3. CASE \E a \in Elements(resp) \cup Elements(inbox) : a.comp = k
    BY <2>3 DEF Owned
  <2> QED BY <2>1, <2>2, <2>3 DEF OrphanInv, Owned
<1>2. \A u \in Threads : Busy(u)' /\ thread'[u].asked.op = "unregister" => Gone(u)'
  BY DEF Busy
<1> QED BY <1>1, <1>2 DEF OrphanInv

\* A component is handed on, never dropped.
LEMMA OrphanStep ==
    ASSUME BaseInv, PlaceInv, ReportInv, CompInv, SyncInv, DataInv, OrphanInv, [Next]_vars
    PROVE  OrphanInv'
<1> SUFFICES ASSUME timely' PROVE OrphanInv'
  BY DEF OrphanInv
<1>1. timely
  BY TimelyBefore
<1>2. live \subseteq Components /\ None \notin live
  BY NoneAssumption DEF BaseInv, TypeOK
<1>3. ASSUME NEW t \in Threads, NEW c \in Cmds, NEW r \in Request, Begin(t, c, r), UNCHANGED <<resp, inbox, live>>,
             \A h \in Handles : handle'[h].comp = handle[h].comp
      PROVE  OrphanInv'
  <2>1. /\ thread'[t].pc = "waiting" /\ thread'[t].cmd = c /\ thread[t].pc = "idle"
        /\ \A u \in Threads \ {t} : thread'[u] = thread[u] /\ ~Busy(u)
    BY <1>3, OnlyCaller, NobodyBusy DEF Begin, LockIsFree, Busy
  <2>2. c \in Elements(out')
    BY <1>3, AppendElements DEF Begin, Submit, BaseInv, TypeOK
  <2>3. Gone(t)'
    BY <2>1, <2>2 DEF Gone
  <2>4. thread[t].answer.comp = None
    BY <1>1, <2>1, AnswerComps
  <2> QED BY <1>1, <1>2, <1>3, <2>1, <2>3, <2>4, OrphanCalls
<1>4. ASSUME NEW t \in Threads, NEW h \in Handles, NEW c \in Cmds, NEW b \in Buffers,
             Open(t, h, c, b) \/ Call(t, h, c, b)
      PROVE  OrphanInv'
  <2>1. \E r \in Request : Begin(t, c, r)
    BY <1>4, ClientIds DEF Open, Call, Request, BaseInv, TypeOK
  <2>2. UNCHANGED <<resp, inbox, live>> /\ \A g \in Handles : handle'[g].comp = handle[g].comp
    <3>1. CASE Open(t, h, c, b)
      <4>1. handle[h].comp = None
        BY <3>1 DEF Open, CompInv
      <4> QED BY <3>1, <4>1 DEF Open, BaseInv, TypeOK
    <3>2. CASE Call(t, h, c, b)
      BY <3>2 DEF Call
    <3> QED BY <1>4, <3>1, <3>2
  <2> QED BY <1>3, <2>1, <2>2
<1>5. ASSUME NEW t \in Threads, NEW h \in Handles, NEW c \in Cmds, Close(t, h, c) \/ Config(t, h, c)
      PROVE  OrphanInv'
  <2>1. \E r \in Request : Begin(t, c, r)
    BY <1>5, ClientIds DEF Close, Config, Request, BaseInv, TypeOK
  <2>2. UNCHANGED <<resp, inbox, live>> /\ \A g \in Handles : handle'[g].comp = handle[g].comp
    <3>1. CASE Close(t, h, c)
      BY <3>1 DEF Close, BaseInv, TypeOK
    <3>2. CASE Config(t, h, c)
      BY <3>2 DEF Config
    <3> QED BY <1>5, <3>1, <3>2
  <2> QED BY <1>3, <2>1, <2>2
<1>6. ASSUME NEW t \in Threads, TimesOut(t) PROVE OrphanInv'
  BY <1>6 DEF TimesOut
<1>7. ASSUME NEW t \in Threads, OpenReturns(t) \/ CloseReturns(t) \/ CallReturns(t) \/ ConfigReturns(t)
      PROVE  /\ UNCHANGED <<resp, inbox, live>> /\ thread'[t].pc = "idle"
             /\ \A u \in Threads \ {t} : thread'[u] = thread[u] /\ ~Busy(u)
  <2>1. UNCHANGED live /\ \E op : Leaves(t, op)
    BY <1>7 DEF OpenReturns, CloseReturns, CallReturns, ConfigReturns, Leaves
  <2>2. /\ UNCHANGED <<resp, inbox>> /\ thread'[t].pc = "idle" /\ Busy(t)
        /\ \A u \in Threads \ {t} : thread'[u] = thread[u]
    BY <2>1 DEF Leaves, Busy, Idle, BaseInv, TypeOK
  <2> QED BY <2>1, <2>2, OneBusy
<1>8. ASSUME NEW t \in Threads, OpenReturns(t) PROVE OrphanInv'
  <2> DEFINE h == thread[t].asked.handle
  <2>1. h \in Handles /\ handle[h].st = "opening" /\ handle[h].comp = None
    BY <1>8 DEF OpenReturns, Leaves, BaseInv, CallInv, Busy, CompInv
  <2>2. \A g \in Handles \ {h} : handle'[g] = handle[g]
    BY <1>8, <2>1 DEF OpenReturns, Destroyed, BaseInv, TypeOK
  <2>3. \A k \in live : thread[t].answer.comp = k => \E g \in Handles : handle'[g].comp = k
    <3>1. CASE Succeeded(thread[t].answer, "register") /\ handle'[h].comp = thread[t].answer.comp
      BY <2>1, <3>1
    <3>2. CASE ~Succeeded(thread[t].answer, "register")
      <4>1. thread[t].answer.comp = None
        BY <3>2 DEF Succeeded, ReportInv, Reports
      <4> QED BY <1>2, <4>1
    <3> QED BY <1>8, <2>1, <3>1, <3>2 DEF OpenReturns, BaseInv, TypeOK
  <2>4. \A g \in Handles : handle[g].comp \in live => handle'[g].comp = handle[g].comp
    BY <1>2, <2>1, <2>2
  <2>5. /\ UNCHANGED <<resp, inbox, live>> /\ ~Busy(t)'
        /\ \A u \in Threads \ {t} : thread'[u] = thread[u] /\ ~Busy(u)
    BY <1>7, <1>8 DEF Busy
  <2> QED BY <1>1, <2>3, <2>4, <2>5, OrphanCalls
<1>9. ASSUME NEW t \in Threads, CloseReturns(t) PROVE OrphanInv'
  <2> DEFINE h == thread[t].asked.handle
  <2>1. /\ h \in Handles /\ thread[t].pc = "answered" /\ thread[t].asked.op = "unregister"
        /\ thread[t].asked.comp = handle[h].comp /\ Destroyed(h)
    BY <1>9 DEF CloseReturns, Leaves, BaseInv, CallInv, Busy, CompInv
  <2>2. \A g \in Handles \ {h} : handle'[g] = handle[g]
    BY <2>1 DEF Destroyed, BaseInv, TypeOK
  <2>3. handle[h].comp \notin live
    BY <1>1, <2>1 DEF OrphanInv, Gone, Busy
  <2>4. thread[t].answer.comp = None
    BY <1>1, <2>1, AnswerComps
  <2>5. /\ UNCHANGED <<resp, inbox, live>> /\ ~Busy(t)'
        /\ \A u \in Threads \ {t} : thread'[u] = thread[u] /\ ~Busy(u)
    BY <1>7, <1>9 DEF Busy
  <2>6. /\ \A g \in Handles : handle[g].comp \in live => handle'[g].comp = handle[g].comp
        /\ \A k \in live : thread[t].answer.comp = k => \E g \in Handles : handle'[g].comp = k
    BY <1>2, <2>2, <2>3, <2>4
  <2> QED BY <1>1, <2>5, <2>6, OrphanCalls
<1>10. ASSUME NEW t \in Threads, CallReturns(t) \/ ConfigReturns(t) PROVE OrphanInv'
  <2>1. handle' = handle /\ thread[t].asked.op # "register"
    BY <1>10 DEF CallReturns, ConfigReturns, Leaves
  <2>2. thread[t].answer.comp = None
    BY <1>1, <2>1, AnswerComps
  <2>3. /\ UNCHANGED <<resp, inbox, live>> /\ ~Busy(t)'
        /\ \A u \in Threads \ {t} : thread'[u] = thread[u] /\ ~Busy(u)
    BY <1>7, <1>10 DEF Busy
  <2>4. /\ \A g \in Handles : handle[g].comp \in live => handle'[g].comp = handle[g].comp
        /\ \A k \in live : thread[t].answer.comp = k => \E g \in Handles : handle'[g].comp = k
    BY <1>2, <2>1, <2>2
  <2> QED BY <1>1, <2>3, <2>4, OrphanCalls
<1>11. ASSUME UNCHANGED <<resp, inbox, live, handle, thread>>, Elements(out) \subseteq Elements(out')
       PROVE  OrphanInv'
  BY <1>1, <1>11 DEF OrphanInv, Owned, Gone, Busy
<1>12. ASSUME NEW h \in Handles, Read(h) PROVE OrphanInv'
  BY <1>11, <1>12 DEF Read
<1>13. ASSUME NEW h \in Handles, NEW c \in Cmds, Data(h, c) PROVE OrphanInv'
  <2>1. Elements(out) \subseteq Elements(out')
    BY <1>13, AppendElements DEF Data, Submit, BaseInv, TypeOK
  <2> QED BY <1>11, <1>13, <2>1 DEF Data
<1>14. ASSUME NEW t \in Threads, TakeAnswer(t) PROVE OrphanInv'
  <2> DEFINE a == Head(inbox)
  <2>1. /\ inbox \in Seq(Answer) /\ inbox # <<>> /\ inbox' = Tail(inbox) /\ thread[t].pc = "waiting"
        /\ UNCHANGED <<out, resp, handle, live>> /\ thread'[t].answer = a
        /\ thread'[t].asked = thread[t].asked
        /\ \A u \in Threads \ {t} : thread'[u] = thread[u] /\ ~Busy(u)
    BY <1>14, OneBusy DEF TakeAnswer, BaseInv, TypeOK, Busy
  <2>2. a.cmd \in Ids(inbox) /\ Elements(inbox) = {a} \cup Elements(inbox')
    BY <2>1, TailIds, TailElements
  <2>3. thread[t].cmd \in Ids(inbox)
    BY <1>1, <2>1, <2>2 DEF SyncInv, Awaited, Busy
  <2>4. thread[t].cmd \notin Elements(out)
    BY <2>3 DEF PlaceInv
  <2>5. thread[t].answer.comp = None
    BY <1>1, <2>1, AnswerComps
  <2> HIDE DEF a
  <2>6. ASSUME NEW k \in live PROVE Owned(k)'
    <3>1. CASE \E e \in Elements(resp) \cup Elements(inbox) : e.comp = k
      BY <2>1, <2>2, <3>1 DEF Owned
    <3>2. CASE \E u \in Threads : thread[u].answer.comp = k
      BY <1>2, <2>1, <2>5, <3>2 DEF Owned
    <3>3. CASE \E h \in Handles : handle[h].comp = k
      BY <2>1, <3>3 DEF Owned
    <3> QED BY <1>1, <3>1, <3>2, <3>3 DEF OrphanInv, Owned
  <2>7. thread[t].asked.op = "unregister" => thread[t].asked.comp \notin live
    BY <1>1, <2>1, <2>4 DEF OrphanInv, Gone, Busy
  <2> QED BY <2>1, <2>6, <2>7 DEF OrphanInv, Gone, Busy
<1>15. CASE ProxyDelivers
  <2> DEFINE a == Head(resp)
  <2>1. /\ resp \in Seq(Answer) /\ inbox \in Seq(Answer) /\ resp # <<>> /\ resp' = Tail(resp)
        /\ UNCHANGED <<out, thread, handle, live>>
        /\ inbox' = inbox \/ inbox' = Append(inbox, a)
        /\ Sync(a.cmd) => inbox' = Append(inbox, a)
    BY <1>15 DEF ProxyDelivers, BaseInv, TypeOK, ForProxy, Sync
  <2>2. a.cmd \in Ids(resp) /\ a \in Answer /\ a \in Elements(resp) /\ Elements(resp) = {a} \cup Elements(resp')
    BY <2>1, TailIds, TailElements
  <2> HIDE DEF a
  <2>3. Elements(Append(inbox, a)) = Elements(inbox) \cup {a}
    BY <2>1, <2>2, AppendElements
  <2>4. Sync(a.cmd) \/ a.comp = None
    <3>1. CASE a.op = "register"
      <4>1. cmd[a.cmd].op = "register"
        BY <2>2, <3>1 DEF ReportInv
      <4> QED BY <1>1, <2>2, <4>1 DEF DataInv, Belongs
    <3>2. CASE a.op # "register"
      BY <2>2, <3>2 DEF ReportInv, Reports
    <3> QED BY <3>1, <3>2
  <2>5. ASSUME NEW k \in live PROVE Owned(k)'
    <3>1. CASE \E e \in Elements(resp) \cup Elements(inbox) : e.comp = k
      <4>1. PICK e \in Elements(resp) \cup Elements(inbox) : e.comp = k
        BY <3>1
      <4>2. e \in Elements(resp') \cup Elements(inbox')
        BY <1>2, <2>1, <2>2, <2>3, <2>4, <4>1
      <4> QED BY <4>1, <4>2 DEF Owned
    <3>2. CASE \/ \E u \in Threads : thread[u].answer.comp = k
               \/ \E h \in Handles : handle[h].comp = k
      BY <2>1, <3>2 DEF Owned
    <3> QED BY <1>1, <3>1, <3>2 DEF OrphanInv, Owned
  <2> QED BY <1>1, <2>1, <2>5 DEF OrphanInv, Gone, Busy
<1>16. ASSUME NEW i \in DOMAIN out, NEW op, NEW k, [cmd |-> out[i], op |-> op, comp |-> k] \in Answer,
              Answers(i, op, k)
       PROVE  /\ UNCHANGED <<inbox, handle, thread>> /\ out[i] \in Cmds
              /\ Elements(out') = Elements(out) \ {out[i]}
              /\ Elements(resp) \subseteq Elements(resp')
              /\ \E e \in Elements(resp') : e.comp = k
  <2> DEFINE a == [cmd |-> out[i], op |-> op, comp |-> k]
  <2>1. /\ a \in Answer /\ a.comp = k /\ resp' = Append(resp, a) /\ out' = RemoveAt(out, i)
        /\ UNCHANGED <<inbox, handle, thread>> /\ out[i] \in Cmds
    BY <1>16 DEF Answers, BaseInv, TypeOK
  <2> HIDE DEF a
  <2>2. Elements(RemoveAt(out, i)) = Elements(out) \ {out[i]}
    BY RemoveElements DEF BaseInv, TypeOK, PlaceInv
  <2>3. Elements(Append(resp, a)) = Elements(resp) \cup {a}
    BY <2>1, AppendElements DEF BaseInv, TypeOK
  <2> QED BY <2>1, <2>2, <2>3
<1>17. ASSUME NEW i \in DOMAIN out, UNCHANGED <<inbox, handle, thread>>,
              Elements(out') = Elements(out) \ {out[i]}, Elements(resp) \subseteq Elements(resp'),
              \A k \in live' : k \in live \/ \E e \in Elements(resp') : e.comp = k,
              \A t \in Threads : Busy(t) /\ thread[t].asked.op = "unregister" =>
                /\ thread[t].asked.comp \in live' => thread[t].asked.comp \in live
                /\ thread[t].pc = "waiting" /\ thread[t].cmd = out[i] => thread[t].asked.comp \notin live'
       PROVE  OrphanInv'
  <2>1. \A k \in live' : Owned(k)'
    BY <1>1, <1>17 DEF OrphanInv, Owned
  <2>2. ASSUME NEW t \in Threads, Busy(t), thread[t].asked.op = "unregister" PROVE Gone(t)'
    BY <1>1, <1>17, <2>2 DEF OrphanInv, Gone
  <2> QED BY <1>17, <2>1, <2>2 DEF OrphanInv, Busy
<1>18. ASSUME NEW t \in Threads, thread[t].pc = "waiting", thread[t].asked.op = "unregister"
       PROVE  /\ cmd[thread[t].cmd].op = "unregister"
              /\ cmd[thread[t].cmd].comp = thread[t].asked.comp
  BY <1>1, <1>18 DEF SyncInv
<1>19. ASSUME NEW i \in DOMAIN out, NEW k \in Components, DspRegisters(i, k) PROVE OrphanInv'
  <2>1. /\ k \in fresh /\ live' = live \cup {k} /\ cmd[out[i]].op = "register" /\ Answers(i, "register", k)
        /\ [cmd |-> out[i], op |-> "register", comp |-> k] \in Answer
    BY <1>19 DEF DspRegisters, BaseInv, TypeOK, Answer
  <2>2. /\ UNCHANGED <<inbox, handle, thread>> /\ out[i] \in Cmds
        /\ Elements(out') = Elements(out) \ {out[i]}
        /\ Elements(resp) \subseteq Elements(resp')
        /\ \E e \in Elements(resp') : e.comp = k
    BY <1>16, <2>1
  <2>3. ASSUME NEW t \in Threads, Busy(t), thread[t].asked.op = "unregister"
        PROVE  /\ thread[t].asked.comp # k
               /\ thread[t].pc = "waiting" => thread[t].cmd # out[i]
    <3>1. thread[t].asked.comp \in Known
      BY <2>3 DEF CompInv, BaseInv, CallInv
    <3> QED BY <1>18, <2>1, <2>3, <3>1 DEF Known
  <2> QED BY <1>17, <2>1, <2>2, <2>3
<1>20. ASSUME NEW i \in DOMAIN out, DspUnregisters(i) PROVE OrphanInv'
  <2>1. /\ live' = live \ {cmd[out[i]].comp} /\ Answers(i, "unregister", None)
        /\ [cmd |-> out[i], op |-> "unregister", comp |-> None] \in Answer
    BY <1>20 DEF DspUnregisters, BaseInv, TypeOK, Answer
  <2>2. /\ UNCHANGED <<inbox, handle, thread>> /\ out[i] \in Cmds
        /\ Elements(out') = Elements(out) \ {out[i]}
        /\ Elements(resp) \subseteq Elements(resp')
    BY <1>16, <2>1
  <2> QED BY <1>17, <1>18, <2>1, <2>2
<1>21. ASSUME NEW i \in DOMAIN out, DspExecutes(i) \/ DspFails(i) PROVE OrphanInv'
  <2>1. \A op \in {"unregister", "call", "config", "data"} :
          [cmd |-> out[i], op |-> op, comp |-> None] \in Answer
    BY DEF BaseInv, TypeOK, Answer
  <2>2. /\ \E op \in {"unregister", "call", "config", "data"} : Answers(i, op, None)
        /\ live' = live /\ cmd[out[i]].op # "unregister"
    BY <1>21 DEF DspExecutes, DspFails
  <2>3. /\ UNCHANGED <<inbox, handle, thread>> /\ out[i] \in Cmds
        /\ Elements(out') = Elements(out) \ {out[i]}
        /\ Elements(resp) \subseteq Elements(resp')
    BY <1>16, <2>1, <2>2
  <2> QED BY <1>17, <1>18, <2>2, <2>3
<1>22. CASE UNCHANGED vars
  BY <1>11, <1>22 DEF vars
<1> QED
  BY NextIsSteps, <1>4, <1>5, <1>6, <1>8, <1>9, <1>10, <1>12, <1>13, <1>14, <1>15, <1>19, <1>20, <1>21, <1>22
     DEF Steps

-----------------------------------------------------------------------------
(* The theorems.                                                           *)

AllInv ==
    /\ BaseInv /\ PlaceInv /\ BufferInv /\ ReportInv /\ CompInv
    /\ SyncInv /\ DataInv /\ OrphanInv

\* All of it is one inductive invariant of the proxy.
THEOREM AllInvariant == Spec => []AllInv
<1>1. Init => AllInv
  BY BaseInit, PlaceInit, BufferInit, ReportInit, SyncInit, DataInit, OrphanInit DEF AllInv
<1>2. AllInv /\ [Next]_vars => AllInv'
  <2> SUFFICES ASSUME AllInv, [Next]_vars PROVE AllInv'
    OBVIOUS
  <2> USE DEF AllInv
  <2>1. BaseInv' /\ PlaceInv' /\ BufferInv'
    BY BaseStep, PlaceStep, BufferStep
  <2>2. ReportInv' /\ CompInv'
    BY <2>1, ReportStep, CompStep
  <2>3. SyncInv' /\ DataInv'
    BY <2>1, SyncStep, DataStep
  <2>4. OrphanInv'
    BY OrphanStep
  <2> QED BY <2>1, <2>2, <2>3, <2>4
<1> QED BY <1>1, <1>2, PTL DEF Spec

\* Answers come to who asked until a call times out: xf_proxy_response_get takes whatever comes
\* first in the one queue that all calls share, and xf_client_lookup a handle that may have
\* changed hands since the command was sent.
THEOREM AnswersReachSender == Spec => []AnswersToSender
<1>1. AllInv => AnswersToSender
  <2> SUFFICES ASSUME AllInv, timely PROVE AnswersToSender
    BY DEF AnswersToSender
  <2>1. ASSUME NEW t \in Threads, thread[t].answer # NoAnswer PROVE thread[t].answer.cmd = thread[t].cmd
    BY <2>1 DEF AllInv, SyncInv, BaseInv, TypeOK
  <2>2. ASSUME NEW h \in Handles, NEW i \in DOMAIN box[h]
        PROVE  cmd[box[h][i].cmd].handle = h /\ cmd[box[h][i].cmd].comp = handle[h].comp
    <3>1. box[h][i].cmd \in Ids(box[h])
      BY DEF Ids
    <3> QED BY <3>1 DEF AllInv, DataInv, Received
  <2> QED BY <2>1, <2>2 DEF AnswersToSender
<1> QED BY <1>1, AllInvariant, PTL

\* Until a call times out, success means that the DSP executed the very command.
THEOREM SuccessReported == Spec => SuccessIsReal
<1>1. AllInv /\ [Next]_vars =>
        [\A t \in Threads : timely /\ Returns(t) /\ result' = "success" =>
             /\ thread[t].answer.cmd = thread[t].cmd
             /\ thread[t].answer.op = thread[t].asked.op]_vars
  <2> SUFFICES ASSUME AllInv, NEW t \in Threads, timely, Returns(t), result' = "success"
               PROVE  thread[t].answer.cmd = thread[t].cmd /\ thread[t].answer.op = thread[t].asked.op
    OBVIOUS
  <2>1. thread[t].pc = "answered"
    BY DEF Returns, OpenReturns, CloseReturns, CallReturns, ConfigReturns, Leaves
  <2>2. thread[t].answer # NoAnswer /\ thread[t].answer.cmd = thread[t].cmd
    BY <2>1 DEF AllInv, SyncInv
  <2>3. ASSUME OpenReturns(t) \/ CallReturns(t) PROVE thread[t].answer.op = thread[t].asked.op
    <3>1. CASE OpenReturns(t)
      BY <3>1 DEF OpenReturns, Leaves, Succeeded
    <3>2. CASE CallReturns(t)
      BY <3>2 DEF CallReturns, Leaves, Succeeded
    <3> QED BY <2>3, <3>1, <3>2
  <2>4. ASSUME ConfigReturns(t) PROVE thread[t].answer.op = thread[t].asked.op
    BY <2>2, <2>4 DEF ConfigReturns, Leaves, Succeeded
  <2>5. ~CloseReturns(t)
    BY DEF CloseReturns
  <2> QED BY <2>2, <2>3, <2>4, <2>5 DEF Returns
<1> QED BY <1>1, AllInvariant, PTL DEF Spec, SuccessIsReal

\* Until a call times out, no control buffer is given out while the DSP is to read it: a
\* command under way is a handle's data command or the one its thread waits for, and that
\* one's buffer is not in the pool.
THEOREM BuffersHeld == Spec => []BuffersHeldWhileUsed
<1>1. AllInv => BuffersHeldWhileUsed
  <2> SUFFICES ASSUME AllInv, timely, NEW i \in DOMAIN out PROVE cmd[out[i]].buf \notin aux
    BY DEF BuffersHeldWhileUsed
  <2>1. out[i] \in Elements(out) /\ None \notin aux
    BY NoneAssumption DEF Elements, AllInv, BaseInv, TypeOK
  <2>2. CASE ~Sync(out[i])
    BY <2>1, <2>2 DEF AllInv, SyncInv
  <2>3. CASE Sync(out[i])
    <3>1. PICK t \in Threads : thread[t].pc = "waiting" /\ thread[t].cmd = out[i]
      BY <2>1, <2>3 DEF AllInv, SyncInv, Awaited
    <3>2. cmd[out[i]] = thread[t].asked /\ thread[t].asked.op \in {"register", "unregister", "call", "config"}
      BY <3>1 DEF AllInv, SyncInv, BaseInv, CallInv, Busy
    <3>3. thread[t].asked.buf \notin aux
      BY <2>1, <3>1, <3>2 DEF AllInv, BufferInv, Busy
    <3> QED BY <3>2, <3>3
  <2> QED BY <2>2, <2>3
<1> QED BY <1>1, AllInvariant, PTL

\* Until a call times out, every component the DSP has created is in somebody's hands.
THEOREM NothingOrphaned == Spec => []NoOrphans
<1>1. AllInv => NoOrphans
  <2> SUFFICES ASSUME AllInv, timely, NEW k \in live,
                      ~ \E h \in Handles : handle[h].comp = k,
                      ~ \E t \in Threads : thread[t].answer.comp = k
               PROVE  \/ \E i \in DOMAIN resp : resp[i].comp = k
                      \/ \E i \in DOMAIN inbox : inbox[i].comp = k
    BY DEF NoOrphans
  <2> QED BY DEF AllInv, OrphanInv, Owned, Elements
<1> QED BY <1>1, AllInvariant, PTL

=============================================================================
