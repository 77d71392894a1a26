--------------------------- MODULE ProxyIpcProofs ---------------------------
(***************************************************************************)
(* What TLAPS proves about ProxyIpc, for any number of clients, buffers,   *)
(* descriptors and workers and any queue bounds the assumptions allow.     *)
(* The argument is a chain of invariants, each proved from the ones before *)
(* it: types; descriptors are conserved; commands are conserved; therefore *)
(* the proxy thread never blocks; therefore no wake-up is lost.            *)
(***************************************************************************)
EXTENDS ProxyIpc, FiniteSetTheorems, SequenceTheorems, TLAPS

(***************************************************************************)
(* Sequences used as queues.                                               *)
(***************************************************************************)

\* What an enqueue adds to the elements of a queue, and when it keeps them
\* distinct.
LEMMA AppendElements ==
    ASSUME NEW S, NEW q \in Seq(S), NEW x \in S
    PROVE  /\ Append(q, x) \in Seq(S)
           /\ Elements(Append(q, x)) = Elements(q) \cup {x}
           /\ Distinct(q) /\ x \notin Elements(q) => Distinct(Append(q, x))
<1>1. /\ Append(q, x) \in Seq(S)
      /\ Len(Append(q, x)) = Len(q) + 1
      /\ Len(q) \in Nat
      /\ \A i \in 1..Len(q) : Append(q, x)[i] = q[i]
      /\ Append(q, x)[Len(q) + 1] = x
  OBVIOUS
<1>2. 1..(Len(q) + 1) = (1..Len(q)) \cup {Len(q) + 1}
  BY <1>1
<1>3. Elements(Append(q, x)) = Elements(q) \cup {x}
  <2>1. ASSUME NEW e \in Elements(Append(q, x)) PROVE e \in Elements(q) \cup {x}
    BY <1>1, <1>2 DEF Elements
  <2>2. ASSUME NEW e \in Elements(q) \cup {x} PROVE e \in Elements(Append(q, x))
    BY <1>1, <1>2 DEF Elements
  <2> QED BY <2>1, <2>2
<1>4. Distinct(q) /\ x \notin Elements(q) => Distinct(Append(q, x))
  BY <1>1, <1>2 DEF Distinct, Elements
<1> QED BY <1>1, <1>3, <1>4

\* What a dequeue takes from the elements of a queue.
LEMMA HeadTailElements ==
    ASSUME NEW S, NEW q \in Seq(S), q # <<>>
    PROVE  /\ Head(q) \in S
           /\ Tail(q) \in Seq(S)
           /\ Elements(q) = {Head(q)} \cup Elements(Tail(q))
           /\ Distinct(q) => Distinct(Tail(q)) /\ Head(q) \notin Elements(Tail(q))
<1>1. /\ Tail(q) \in Seq(S)
      /\ Head(q) = q[1] /\ Head(q) \in S
      /\ Len(q) \in Nat \ {0}
      /\ Len(Tail(q)) = Len(q) - 1
      /\ \A i \in 1..Len(Tail(q)) : Tail(q)[i] = q[i + 1]
  OBVIOUS
<1>2. /\ \A i \in 1..Len(q) : i = 1 \/ (i - 1) \in 1..Len(Tail(q))
      /\ \A i \in 1..Len(Tail(q)) : (i + 1) \in 1..Len(q) /\ i + 1 # 1
      /\ 1 \in 1..Len(q)
  BY <1>1
<1>3. Elements(q) = {Head(q)} \cup Elements(Tail(q))
  <2>1. ASSUME NEW i \in 1..Len(q) PROVE q[i] \in {Head(q)} \cup Elements(Tail(q))
    <3>1. CASE i = 1 BY <3>1, <1>1
    <3>2. CASE (i - 1) \in 1..Len(Tail(q))
      <4>1. Tail(q)[i - 1] = q[(i - 1) + 1] BY <1>1, <3>2
      <4>2. (i - 1) + 1 = i OBVIOUS
      <4> QED BY <4>1, <4>2, <3>2 DEF Elements
    <3> QED BY <1>2, <3>1, <3>2
  <2>2. ASSUME NEW i \in 1..Len(Tail(q)) PROVE Tail(q)[i] \in Elements(q)
    BY <1>1, <1>2 DEF Elements
  <2>3. Head(q) \in Elements(q)
    BY <1>1, <1>2 DEF Elements
  <2> QED BY <2>1, <2>2, <2>3 DEF Elements
<1>4. Distinct(q) => Distinct(Tail(q))
  BY <1>1, <1>2 DEF Distinct
<1>5. Distinct(q) => Head(q) \notin Elements(Tail(q))
  BY <1>1, <1>2 DEF Distinct, Elements
<1> QED BY <1>1, <1>3, <1>4, <1>5

\* The empty queue.
LEMMA EmptyElements == Elements(<<>>) = {} /\ Distinct(<<>>)
BY DEF Elements, Distinct

(***************************************************************************)
(* Types and descriptors. A queue only holds commands because a completed  *)
(* descriptor carries one, so the two invariants are proved together.      *)
(***************************************************************************)

\* The proxy thread has an answer in its hands exactly while it delivers it.
HandInv == ppc = "put" <=> pmsg # NoCmd

BaseInv == TypeOK /\ DescriptorConserved /\ HandInv

LEMMA BaseInit == Init => BaseInv
BY NoCmdAssumption, EmptyElements
   DEF Init, BaseInv, TypeOK, DescriptorConserved, HandInv

LEMMA TypeStep ==
    ASSUME BaseInv, [Next]_vars
    PROVE  TypeOK'
<1> USE DEF BaseInv, TypeOK, HandInv, hostVars, dspVars
<1>1. ASSUME NEW c \in Clients, NEW b \in Bufs, AppSend(c, b) PROVE TypeOK'
  BY <1>1 DEF AppSend, MaySend, Slots
<1>2. ASSUME NEW c \in Clients, AppSignal(c) PROVE TypeOK'
  BY <1>2 DEF AppSignal, Flags
<1>3. ASSUME NEW c \in Clients, AppReceive(c) PROVE TypeOK'
  BY <1>3 DEF AppReceive
<1>4. CASE ProxyWake
  BY <1>4 DEF ProxyWake
<1>5. CASE ProxyClear
  BY <1>5 DEF ProxyClear
<1>6. CASE ProxyRecv
  BY <1>6 DEF ProxyRecv
<1>7. CASE ProxyDrained
  BY <1>7 DEF ProxyDrained
<1>8. CASE ProxyPut
  BY <1>8 DEF ProxyPut, Recipient, Client, Slots
<1>9. CASE DspWake
  BY <1>9 DEF DspWake
<1>10. CASE DspClear
  BY <1>10 DEF DspClear
<1>11. CASE DspOutput
  <2>1. /\ Head(remote) \in Descriptors /\ Head(remote) \in Elements(remote)
        /\ Tail(remote) \in Seq(Descriptors)
    BY <1>11, HeadTailElements DEF DspOutput, Answer, PoolPut
  <2>2. content[Head(remote)] \in Slots
    BY <2>1 DEF DescriptorConserved
  <2> QED BY <1>11, <2>1, <2>2 DEF DspOutput, Answer, PoolPut
<1>12. CASE DspOutputDone
  BY <1>12 DEF DspOutputDone
<1>13. ASSUME NEW d \in Descriptors, DspAccept(d) PROVE TypeOK'
  BY <1>13 DEF DspAccept, InputStatus, Status
<1>14. ASSUME NEW d \in Descriptors, DspReply(d) PROVE TypeOK'
  BY <1>14 DEF DspReply, Queued, Resumed, InputStatus, Status, Flags
<1>15. CASE DspPassDone
  BY <1>15 DEF DspPassDone, Notified, Flags
<1>16. ASSUME NEW w \in Workers, NEW d \in Descriptors, WorkerComplete(w, d) PROVE TypeOK'
  BY <1>16 DEF WorkerComplete, Queued
<1>17. ASSUME NEW w \in Workers, WorkerResume(w) PROVE TypeOK'
  BY <1>17 DEF WorkerResume, Resumed, Flags
<1>18. CASE CloseSetDspDie
  BY <1>18 DEF CloseSetDspDie, Flags
<1>19. CASE CloseProxy
  BY <1>19 DEF CloseProxy, ToldToDie, Flags
<1>20. CASE CloseDone
  BY <1>20 DEF CloseDone
<1>21. CASE UNCHANGED vars
  BY <1>21 DEF vars
<1> QED
  BY <1>1, <1>2, <1>3, <1>4, <1>5, <1>6, <1>7, <1>8, <1>9, <1>10, <1>11,
     <1>12, <1>13, <1>14, <1>15, <1>16, <1>17, <1>18, <1>19, <1>20, <1>21
     DEF Next, App, ProxyThread, DspThread, Worker, MainThread

LEMMA HandStep ==
    ASSUME BaseInv, [Next]_vars
    PROVE  HandInv'
<1> USE NoCmdAssumption DEF BaseInv, TypeOK, HandInv
<1>1. ASSUME NEW c \in Clients, NEW b \in Bufs, AppSend(c, b) PROVE HandInv'
  BY <1>1 DEF AppSend, MaySend
<1>2. ASSUME NEW c \in Clients, AppSignal(c) PROVE HandInv'
  BY <1>2 DEF AppSignal
<1>3. ASSUME NEW c \in Clients, AppReceive(c) PROVE HandInv'
  BY <1>3 DEF AppReceive
<1>4. CASE ProxyWake
  BY <1>4 DEF ProxyWake
<1>5. CASE ProxyClear
  BY <1>5 DEF ProxyClear
<1>6. CASE ProxyRecv
  BY <1>6 DEF ProxyRecv
<1>7. CASE ProxyDrained
  BY <1>7 DEF ProxyDrained
<1>8. CASE ProxyPut
  BY <1>8 DEF ProxyPut, Recipient
<1>9. CASE DspWake
  BY <1>9 DEF DspWake
<1>10. CASE DspClear
  BY <1>10 DEF DspClear
<1>11. CASE DspOutput
  BY <1>11 DEF DspOutput, Answer, PoolPut
<1>12. CASE DspOutputDone
  BY <1>12 DEF DspOutputDone
<1>13. ASSUME NEW d \in Descriptors, DspAccept(d) PROVE HandInv'
  BY <1>13 DEF DspAccept
<1>14. ASSUME NEW d \in Descriptors, DspReply(d) PROVE HandInv'
  BY <1>14 DEF DspReply, Queued, Resumed
<1>15. CASE DspPassDone
  BY <1>15 DEF DspPassDone, Notified
<1>16. ASSUME NEW w \in Workers, NEW d \in Descriptors, WorkerComplete(w, d) PROVE HandInv'
  BY <1>16 DEF WorkerComplete, Queued
<1>17. ASSUME NEW w \in Workers, WorkerResume(w) PROVE HandInv'
  BY <1>17 DEF WorkerResume, Resumed
<1>18. CASE CloseSetDspDie
  BY <1>18 DEF CloseSetDspDie
<1>19. CASE CloseProxy
  BY <1>19 DEF CloseProxy, ToldToDie
<1>20. CASE CloseDone
  BY <1>20 DEF CloseDone
<1>21. CASE UNCHANGED vars
  BY <1>21 DEF vars
<1> QED
  BY <1>1, <1>2, <1>3, <1>4, <1>5, <1>6, <1>7, <1>8, <1>9, <1>10, <1>11,
     <1>12, <1>13, <1>14, <1>15, <1>16, <1>17, <1>18, <1>19, <1>20, <1>21
     DEF Next, App, ProxyThread, DspThread, Worker, MainThread

LEMMA DescriptorStep ==
    ASSUME BaseInv, [Next]_vars
    PROVE  DescriptorConserved'
<1> USE DEF BaseInv, TypeOK, DescriptorConserved, dspVars
<1>1. ASSUME NEW c \in Clients, NEW b \in Bufs, AppSend(c, b) PROVE DescriptorConserved'
  BY <1>1 DEF AppSend, MaySend
<1>2. ASSUME NEW c \in Clients, AppSignal(c) PROVE DescriptorConserved'
  BY <1>2 DEF AppSignal
<1>3. ASSUME NEW c \in Clients, AppReceive(c) PROVE DescriptorConserved'
  BY <1>3 DEF AppReceive
<1>4. CASE ProxyWake
  BY <1>4 DEF ProxyWake
<1>5. CASE ProxyClear
  BY <1>5 DEF ProxyClear
<1>6. CASE ProxyRecv
  BY <1>6 DEF ProxyRecv
<1>7. CASE ProxyDrained
  BY <1>7 DEF ProxyDrained
<1>8. CASE ProxyPut
  BY <1>8 DEF ProxyPut, Recipient
<1>9. CASE DspWake
  BY <1>9 DEF DspWake
<1>10. CASE DspClear
  BY <1>10 DEF DspClear
<1>11. CASE DspOutput
  <2>1. /\ Head(remote) \in Descriptors
        /\ Elements(remote) = {Head(remote)} \cup Elements(remote')
        /\ Head(remote) \notin Elements(remote') /\ Distinct(remote')
    BY <1>11, HeadTailElements DEF DspOutput, Answer, PoolPut
  <2> QED BY <1>11, <2>1 DEF DspOutput, Answer, PoolPut
<1>12. CASE DspOutputDone
  BY <1>12 DEF DspOutputDone
<1>13. ASSUME NEW d \in Descriptors, DspAccept(d) PROVE DescriptorConserved'
  <2>1. Head(cmdq) \in Slots BY <1>13, HeadTailElements DEF DspAccept
  <2> QED BY <1>13, <2>1, NoCmdAssumption DEF DspAccept
<1>14. ASSUME NEW d \in Descriptors, DspReply(d) PROVE DescriptorConserved'
  <2>1. Head(cmdq) \in Slots BY <1>14, HeadTailElements DEF DspReply, Queued, Resumed
  <2>2. Elements(remote') = Elements(remote) \cup {d} /\ Distinct(remote')
    BY <1>14, AppendElements DEF DspReply, Queued, Resumed
  <2> QED BY <1>14, <2>1, <2>2, NoCmdAssumption DEF DspReply, Queued, Resumed
<1>15. CASE DspPassDone
  BY <1>15 DEF DspPassDone, Notified
<1>16. ASSUME NEW w \in Workers, NEW d \in Descriptors, WorkerComplete(w, d) PROVE DescriptorConserved'
  <2>1. Elements(remote') = Elements(remote) \cup {d} /\ Distinct(remote')
    BY <1>16, AppendElements DEF WorkerComplete, Queued
  <2> QED BY <1>16, <2>1 DEF WorkerComplete, Queued
<1>17. ASSUME NEW w \in Workers, WorkerResume(w) PROVE DescriptorConserved'
  BY <1>17 DEF WorkerResume, Resumed
<1>18. CASE CloseSetDspDie
  BY <1>18 DEF CloseSetDspDie
<1>19. CASE CloseProxy
  BY <1>19 DEF CloseProxy, ToldToDie
<1>20. CASE CloseDone
  BY <1>20 DEF CloseDone
<1>21. CASE UNCHANGED vars
  BY <1>21 DEF vars
<1> QED
  BY <1>1, <1>2, <1>3, <1>4, <1>5, <1>6, <1>7, <1>8, <1>9, <1>10, <1>11,
     <1>12, <1>13, <1>14, <1>15, <1>16, <1>17, <1>18, <1>19, <1>20, <1>21
     DEF Next, App, ProxyThread, DspThread, Worker, MainThread

LEMMA BaseInvariant == Spec => []BaseInv
<1>1. BaseInv /\ [Next]_vars => BaseInv'
  BY TypeStep, HandStep, DescriptorStep DEF BaseInv
<1> QED BY BaseInit, <1>1, PTL DEF Spec

\* Type correctness of the interface.
THEOREM TypeCorrect == Spec => []TypeOK
<1>1. BaseInv => TypeOK BY DEF BaseInv
<1> QED BY BaseInvariant, <1>1, PTL

\* xf_msg_pool_get/put, xf_shmem_process_input/output and
\* xf_msg_proxy_complete never put a message descriptor in two places.
THEOREM DescriptorsConserved == Spec => []DescriptorConserved
<1>1. BaseInv => DescriptorConserved BY DEF BaseInv
<1> QED BY BaseInvariant, <1>1, PTL

(***************************************************************************)
(* Commands. Each step moves one slot from the place it was in to the next *)
(* place of its cycle: what has to be shown is that it was nowhere else.   *)
(***************************************************************************)

LEMMA ClientOfSlot == \A s \in Slots : Client(s) \in Clients
BY DEF Slots, Client

LEMMA CommandInit == Init => CommandConserved
BY EmptyElements, NoCmdAssumption, ClientOfSlot
   DEF Init, CommandConserved, InDsp, InInbox

LEMMA CommandStep ==
    ASSUME BaseInv, CommandConserved, [Next]_vars
    PROVE  CommandConserved'
<1> USE DEF BaseInv, TypeOK, CommandConserved, InDsp, InInbox, hostVars, dspVars
<1>1. ASSUME NEW c \in Clients, NEW b \in Bufs, AppSend(c, b) PROVE CommandConserved'
  <2>0. <<c, b>> \in Slots BY DEF Slots
  <2>1. PICK s \in Slots : s = <<c, b>> BY <2>0, Zenon
  <2>2. s \in owned /\ owned' = owned \ {s} /\ cmdq' = Append(cmdq, s)
    BY <1>1, <2>1 DEF AppSend, MaySend
  <2>3. s \notin Elements(cmdq) /\ Distinct(cmdq) /\ cmdq \in Seq(Slots)
    BY <2>2
  <2>4. Elements(cmdq') = Elements(cmdq) \cup {s} /\ Distinct(cmdq')
    BY <2>2, <2>3, AppendElements
  <2>5. UNCHANGED <<respq, inbox, content, pmsg>> BY <1>1 DEF AppSend, MaySend
  <2> HIDE DEF BaseInv, TypeOK
  <2> QED BY <2>2, <2>4, <2>5
<1>2. ASSUME NEW c \in Clients, AppSignal(c) PROVE CommandConserved'
  BY <1>2 DEF AppSignal
<1>3. ASSUME NEW c \in Clients, AppReceive(c) PROVE CommandConserved'
  <2> DEFINE s == Head(inbox[c])
  <2>1. /\ s \in Slots
        /\ Elements(inbox[c]) = {s} \cup Elements(Tail(inbox[c]))
        /\ Distinct(Tail(inbox[c])) /\ s \notin Elements(Tail(inbox[c]))
    BY <1>3, HeadTailElements DEF AppReceive
  <2>2. Client(s) = c BY <2>1
  <2>3. inbox' = [inbox EXCEPT ![c] = Tail(inbox[c])] /\ owned' = owned \cup {s}
    BY <1>3 DEF AppReceive
  <2> QED BY <1>3, <2>1, <2>2, <2>3, ClientOfSlot DEF AppReceive
<1>4. CASE ProxyWake
  BY <1>4 DEF ProxyWake
<1>5. CASE ProxyClear
  BY <1>5 DEF ProxyClear
<1>6. CASE ProxyRecv
  <2>1. /\ pmsg' \in Slots
        /\ Elements(respq) = {pmsg'} \cup Elements(respq')
        /\ Distinct(respq') /\ pmsg' \notin Elements(respq')
    BY <1>6, HeadTailElements DEF ProxyRecv
  <2>2. pmsg = NoCmd BY <1>6 DEF ProxyRecv, HandInv
  <2> QED BY <1>6, <2>1, <2>2, NoCmdAssumption, ClientOfSlot DEF ProxyRecv
<1>7. CASE ProxyDrained
  BY <1>7 DEF ProxyDrained
<1>8. CASE ProxyPut
  <2>1. pmsg \in Slots /\ Client(pmsg) \in Clients
    BY <1>8, ClientOfSlot DEF ProxyPut, Recipient, HandInv
  <2>2. /\ Elements(Append(inbox[Client(pmsg)], pmsg)) = Elements(inbox[Client(pmsg)]) \cup {pmsg}
        /\ Distinct(Append(inbox[Client(pmsg)], pmsg))
    BY <2>1, AppendElements
  <2> QED BY <1>8, <2>1, <2>2, NoCmdAssumption, ClientOfSlot DEF ProxyPut, Recipient
<1>9. CASE DspWake
  BY <1>9 DEF DspWake
<1>10. CASE DspClear
  BY <1>10 DEF DspClear
<1>11. CASE DspOutput
  <2> DEFINE d == Head(remote)
  <2>1. d \in Descriptors /\ d \in Elements(remote)
    BY <1>11, HeadTailElements DEF DspOutput, Answer, PoolPut
  <2>2. content[d] \in Slots
    BY <2>1 DEF DescriptorConserved
  <2>3. Elements(respq') = Elements(respq) \cup {content[d]} /\ Distinct(respq')
    BY <1>11, <2>1, <2>2, AppendElements DEF DspOutput, Answer, PoolPut
  <2> QED BY <1>11, <2>1, <2>2, <2>3, NoCmdAssumption, ClientOfSlot DEF DspOutput, Answer, PoolPut
<1>12. CASE DspOutputDone
  BY <1>12 DEF DspOutputDone
<1>13. ASSUME NEW d \in Descriptors, DspAccept(d) PROVE CommandConserved'
  <2>1. /\ Head(cmdq) \in Slots
        /\ Elements(cmdq) = {Head(cmdq)} \cup Elements(cmdq')
        /\ Distinct(cmdq') /\ Head(cmdq) \notin Elements(cmdq')
    BY <1>13, HeadTailElements DEF DspAccept
  <2>2. content[d] = NoCmd BY <1>13 DEF DspAccept, DescriptorConserved
  <2>3. content' = [content EXCEPT ![d] = Head(cmdq)] BY <1>13 DEF DspAccept
  <2> QED BY <1>13, <2>1, <2>2, <2>3, NoCmdAssumption, ClientOfSlot DEF DspAccept
<1>14. ASSUME NEW d \in Descriptors, DspReply(d) PROVE CommandConserved'
  <2>1. /\ Head(cmdq) \in Slots
        /\ Elements(cmdq) = {Head(cmdq)} \cup Elements(cmdq')
        /\ Distinct(cmdq') /\ Head(cmdq) \notin Elements(cmdq')
    BY <1>14, HeadTailElements DEF DspReply, Queued, Resumed
  <2>2. content[d] = NoCmd BY <1>14 DEF DspReply, Queued, Resumed, DescriptorConserved
  <2>3. content' = [content EXCEPT ![d] = Head(cmdq)] BY <1>14 DEF DspReply, Queued, Resumed
  <2> QED BY <1>14, <2>1, <2>2, <2>3, NoCmdAssumption, ClientOfSlot DEF DspReply, Queued, Resumed
<1>15. CASE DspPassDone
  BY <1>15 DEF DspPassDone, Notified
<1>16. ASSUME NEW w \in Workers, NEW d \in Descriptors, WorkerComplete(w, d) PROVE CommandConserved'
  BY <1>16 DEF WorkerComplete, Queued
<1>17. ASSUME NEW w \in Workers, WorkerResume(w) PROVE CommandConserved'
  BY <1>17 DEF WorkerResume, Resumed
<1>18. CASE CloseSetDspDie
  BY <1>18 DEF CloseSetDspDie
<1>19. CASE CloseProxy
  BY <1>19 DEF CloseProxy, ToldToDie
<1>20. CASE CloseDone
  BY <1>20 DEF CloseDone
<1>21. CASE UNCHANGED vars
  BY <1>21 DEF vars
<1> QED
  BY <1>1, <1>2, <1>3, <1>4, <1>5, <1>6, <1>7, <1>8, <1>9, <1>10, <1>11,
     <1>12, <1>13, <1>14, <1>15, <1>16, <1>17, <1>18, <1>19, <1>20, <1>21
     DEF Next, App, ProxyThread, DspThread, Worker, MainThread

LEMMA CommandInvariant == Spec => [](BaseInv /\ CommandConserved)
<1>1. Init => CommandConserved
  BY CommandInit
<1>2. BaseInv /\ CommandConserved /\ [Next]_vars => CommandConserved'
  BY CommandStep
<1> QED BY BaseInvariant, <1>1, <1>2, PTL DEF Spec

\* Between the application's send and its read a command is in exactly one
\* queue, descriptor or thread: the path of xf_ipc_send, xf_shmem_process_input,
\* xf_msg_complete, xf_shmem_process_output and xf_proxy_thread loses none and
\* duplicates none.
THEOREM CommandsConserved == Spec => []CommandConserved
BY CommandInvariant, PTL

(***************************************************************************)
(* The proxy thread never blocks: the answer in its hands is not in the    *)
(* client's inbox, so the inbox holds at most one buffer fewer than the    *)
(* client has, and the client has no more buffers than the inbox entries.  *)
(***************************************************************************)

LEMMA NeverBlocks ==
    ASSUME BaseInv, CommandConserved
    PROVE  ProxyNeverBlocks
<1> SUFFICES ASSUME ppc = "put", InboxFull(Client(pmsg)) PROVE FALSE
  BY DEF ProxyNeverBlocks, ProxyBlocked
<1> DEFINE c == Client(pmsg)
           q == inbox[c]
           others == Bufs \ {pmsg[2]}
           f == [i \in 1..Len(q) |-> q[i][2]]
<1>1. pmsg \in Slots /\ c \in Clients
  BY ClientOfSlot DEF BaseInv, HandInv, TypeOK
<1>2. pmsg[2] \in Bufs /\ pmsg = <<c, pmsg[2]>>
  BY <1>1 DEF Slots, Client
<1>3. q \in Seq(Slots) /\ Len(q) \in Nat
  BY <1>1 DEF BaseInv, TypeOK
<1>4. ASSUME NEW i \in 1..Len(q)
      PROVE  /\ q[i] \in Slots /\ Client(q[i]) = c /\ q[i] # pmsg
             /\ q[i] = <<c, q[i][2]>> /\ q[i][2] \in others
  <2>1. q[i] \in Slots BY <1>3
  <2>2. q[i] \in Elements(q) BY DEF Elements
  <2>3. Client(q[i]) = c BY <1>1, <2>2 DEF CommandConserved
  <2>4. q[i] # pmsg BY <1>1, <2>2 DEF CommandConserved, InInbox
  <2>5. q[i] = <<c, q[i][2]>> /\ q[i][2] \in Bufs
    BY <2>1, <2>3 DEF Slots, Client
  <2>6. q[i][2] # pmsg[2] BY <1>2, <2>4, <2>5
  <2> QED BY <2>1, <2>3, <2>4, <2>5, <2>6
<1>5. \A i, j \in 1..Len(q) : q[i] = q[j] => i = j
  BY <1>1 DEF CommandConserved, Distinct
<1>6. f \in Injection(1..Len(q), others)
  <2>1. f \in [1..Len(q) -> others] BY <1>4
  <2>2. ASSUME NEW i \in 1..Len(q), NEW j \in 1..Len(q), f[i] = f[j] PROVE i = j
    <3>1. q[i][2] = q[j][2] BY <2>2
    <3>2. q[i] = q[j] BY <1>4, <3>1
    <3> QED BY <1>5, <3>2
  <2> QED BY <2>1, <2>2 DEF Injection, IsInjective
<1>7. /\ IsFiniteSet(others)
      /\ Cardinality(others) = Cardinality(Bufs) - 1
  BY <1>2, BufsAssumption, FS_RemoveElement
<1>8. Cardinality(1..Len(q)) = Len(q)
  BY <1>3, FS_Interval
<1>9. Len(q) <= Cardinality(Bufs) - 1
  BY <1>6, <1>7, <1>8, FS_Injection
<1>10. Cardinality(Bufs) \in Nat
  BY BufsAssumption, FS_CardinalityType
<1> QED BY <1>3, <1>9, <1>10, BufsAssumption, CapacityAssumption DEF InboxFull

\* "must be non-blocking", says xf_proxy_thread of the response callback: it
\* is, because a client never has more buffers than its queue has entries.
THEOREM ProxyThreadNeverBlocks == Spec => []ProxyNeverBlocks
<1>1. BaseInv /\ CommandConserved => ProxyNeverBlocks
  BY NeverBlocks
<1> QED BY CommandInvariant, <1>1, PTL

(***************************************************************************)
(* Wake-ups. CloseInv says that closing only starts when nothing is in     *)
(* flight; WakeInv says, for each queue, who is bound to look at it next.  *)
(***************************************************************************)

CloseInv ==
    /\ mpc # "open" => owned = Slots
    /\ "DSP_DIE" \in events \/ dpc = "exit" => mpc # "open"
    /\ "DIE" \in events \/ ppc = "exit" => mpc # "open"

StatusInv ==
    /\ dpc \in {"wait", "clear", "exit"} => status = {}
    /\ dpc = "output" => status = {} \/ status = Status

\* An unread answer: the proxy thread is draining, or RESP is set, or the DSP
\* thread will set it at the end of its pass.
AnswerInv ==
    respq # <<>> =>
        \/ "REMOTE" \in status \/ "RESP" \in events
        \/ ppc \in {"clear", "recv", "put"}

\* A completed message: the DSP thread has yet to look, or will be woken.
RemoteInv ==
    remote # <<>> =>
        \/ WakeupPending \/ dpc \in {"clear", "output"}
        \/ dpc = "input" /\ "REMOTE" \in status

\* An unread command: the same, or there is no descriptor to take it with.
CommandInv ==
    cmdq # <<>> =>
        pool = {} \/ WakeupPending \/ dpc \in {"clear", "output", "input"}

WakeInv == CloseInv /\ StatusInv /\ AnswerInv /\ RemoteInv /\ CommandInv

\* When every slot is the application's, every queue is empty.
LEMMA OwnedMeansEmpty ==
    ASSUME BaseInv, CommandConserved, owned = Slots
    PROVE  respq = <<>> /\ cmdq = <<>> /\ remote = <<>>
<1>1. respq = <<>>
  <2> SUFFICES ASSUME respq # <<>> PROVE FALSE OBVIOUS
  <2>1. Head(respq) \in Slots /\ Head(respq) \in Elements(respq)
    BY HeadTailElements DEF BaseInv, TypeOK
  <2> QED BY <2>1 DEF CommandConserved
<1>2. cmdq = <<>>
  <2> SUFFICES ASSUME cmdq # <<>> PROVE FALSE OBVIOUS
  <2>1. Head(cmdq) \in Slots /\ Head(cmdq) \in Elements(cmdq)
    BY HeadTailElements DEF BaseInv, TypeOK
  <2> QED BY <2>1 DEF CommandConserved
<1>3. remote = <<>>
  <2> SUFFICES ASSUME remote # <<>> PROVE FALSE OBVIOUS
  <2>1. Head(remote) \in Descriptors /\ Head(remote) \in Elements(remote)
    BY HeadTailElements DEF BaseInv, TypeOK
  <2>2. content[Head(remote)] \in Slots
    BY <2>1 DEF BaseInv, TypeOK, DescriptorConserved
  <2>3. InDsp(content[Head(remote)]) BY <2>1 DEF InDsp
  <2> QED BY <2>2, <2>3 DEF CommandConserved
<1> QED BY <1>1, <1>2, <1>3

\* The step the priorities matter for: the DSP thread only runs when the proxy
\* thread cannot, so if it finds the response queue full at the start of a
\* pass, RESP was never set for those answers -- which AnswerInv excludes.
LEMMA NotFullAtStartOfPass ==
    ASSUME BaseInv, CommandConserved, WakeInv, DspMayRun, status = {}
    PROVE  ~RespFull
<1>1. respq = <<>>
  <2> SUFFICES ASSUME respq # <<>> PROVE FALSE OBVIOUS
  <2>1. ~ProxyBlocked BY NeverBlocks DEF ProxyNeverBlocks
  <2>2. ppc = "exit"
    BY <2>1 DEF ProxyBlocked, DspMayRun, ProxyReady, BaseInv, TypeOK, WakeInv, AnswerInv
  <2>3. owned = Slots BY <2>2 DEF WakeInv, CloseInv
  <2> QED BY <2>3, OwnedMeansEmpty
<1> QED BY <1>1, CapacityAssumption DEF RespFull

LEMMA WakeInit == Init => WakeInv
BY DEF Init, WakeInv, CloseInv, StatusInv, AnswerInv, RemoteInv, CommandInv, Flags

LEMMA WakeStep ==
    ASSUME BaseInv, CommandConserved, WakeInv, [Next]_vars
    PROVE  WakeInv'
<1> USE DEF BaseInv, TypeOK, WakeInv, CloseInv, StatusInv, AnswerInv, RemoteInv,
            CommandInv, WakeupPending, hostVars, dspVars
<1>1. ASSUME NEW c \in Clients, NEW b \in Bufs, AppSend(c, b) PROVE WakeInv'
  BY <1>1 DEF AppSend, MaySend
<1>2. ASSUME NEW c \in Clients, AppSignal(c) PROVE WakeInv'
  BY <1>2 DEF AppSignal
<1>3. ASSUME NEW c \in Clients, AppReceive(c) PROVE WakeInv'
  <2>1. Head(inbox[c]) \in Slots BY <1>3, HeadTailElements DEF AppReceive
  <2> QED BY <1>3, <2>1 DEF AppReceive
<1>4. CASE ProxyWake
  <2>1. ppc' = "exit" => owned = Slots BY <1>4 DEF ProxyWake
  <2>2. ppc' = "exit" => respq = <<>> BY <2>1, OwnedMeansEmpty
  <2> QED BY <1>4, <2>2 DEF ProxyWake
<1>5. CASE ProxyClear
  BY <1>5 DEF ProxyClear
<1>6. CASE ProxyRecv
  BY <1>6 DEF ProxyRecv
<1>7. CASE ProxyDrained
  BY <1>7 DEF ProxyDrained
<1>8. CASE ProxyPut
  BY <1>8 DEF ProxyPut, Recipient
<1>9. CASE DspWake
  <2>1. dpc' = "exit" => owned = Slots BY <1>9 DEF DspWake
  <2>2. dpc' = "exit" => cmdq = <<>> /\ remote = <<>> BY <2>1, OwnedMeansEmpty
  <2> QED BY <1>9, <2>2 DEF DspWake
<1>10. CASE DspClear
  BY <1>10 DEF DspClear
<1>11. CASE DspOutput
  BY <1>11 DEF DspOutput, Answer, PoolPut, Status
<1>12. CASE DspOutputDone
  <2>1. status = {} => remote = <<>>
    BY <1>12, NotFullAtStartOfPass DEF DspOutputDone
  <2> QED BY <1>12, <2>1 DEF DspOutputDone, Status
<1>13. ASSUME NEW d \in Descriptors, DspAccept(d) PROVE WakeInv'
  BY <1>13 DEF DspAccept, InputStatus, Status
<1>14. ASSUME NEW d \in Descriptors, DspReply(d) PROVE WakeInv'
  BY <1>14 DEF DspReply, Queued, Resumed, InputStatus, Status
<1>15. CASE DspPassDone
  BY <1>15 DEF DspPassDone, Notified
<1>16. ASSUME NEW w \in Workers, NEW d \in Descriptors, WorkerComplete(w, d) PROVE WakeInv'
  BY <1>16 DEF WorkerComplete, Queued
<1>17. ASSUME NEW w \in Workers, WorkerResume(w) PROVE WakeInv'
  BY <1>17 DEF WorkerResume, Resumed
<1>18. CASE CloseSetDspDie
  BY <1>18 DEF CloseSetDspDie
<1>19. CASE CloseProxy
  BY <1>19 DEF CloseProxy, ToldToDie
<1>20. CASE CloseDone
  BY <1>20 DEF CloseDone
<1>21. CASE UNCHANGED vars
  BY <1>21 DEF vars
<1> QED
  BY <1>1, <1>2, <1>3, <1>4, <1>5, <1>6, <1>7, <1>8, <1>9, <1>10, <1>11,
     <1>12, <1>13, <1>14, <1>15, <1>16, <1>17, <1>18, <1>19, <1>20, <1>21
     DEF Next, App, ProxyThread, DspThread, Worker, MainThread

LEMMA WakeInvariant == Spec => [](BaseInv /\ CommandConserved /\ WakeInv)
<1>1. BaseInv /\ CommandConserved /\ WakeInv /\ [Next]_vars => WakeInv'
  BY WakeStep
<1> QED BY CommandInvariant, WakeInit, <1>1, PTL DEF Spec

\* The DSP thread never sleeps over a completed message, nor over a command it
\* has a descriptor for (xf_ipi_wait against xf_ipc_send, xf_msg_proxy_put and
\* the full response queue of xf_shmem_process_output).
THEOREM NoWakeupLost == Spec => []NoLostWakeup
<1>1. WakeInv => NoLostWakeup
  BY DEF WakeInv, NoLostWakeup, RemoteInv, CommandInv
<1> QED BY WakeInvariant, <1>1, PTL

\* The proxy thread never sleeps over an answer (xf_ipc_wait against
\* xf_shmem_process_queues).
THEOREM NoAnswerLost == Spec => []NoLostAnswer
<1>1. WakeInv => NoLostAnswer
  BY DEF WakeInv, NoLostAnswer, AnswerInv
<1> QED BY WakeInvariant, <1>1, PTL

(***************************************************************************)
(* ProxyIpc implements CommandChannel, for every instance: each step of a  *)
(* thread is a step of the channel or leaves it unchanged. The answers of  *)
(* the channel are spread over the proxy thread's hands, resp_msgq and     *)
(* rw->remote; the lemmas below are about that sequence. (The progress     *)
(* half, Channel!ChanLive, is model-checked only.)                         *)
(***************************************************************************)

(***************************************************************************)
(* Sequence algebra.                                                       *)
(***************************************************************************)

\* Taking the first element of a non-empty sequence off and putting it back.
LEMMA HeadThenTail ==
    ASSUME NEW S, NEW q \in Seq(S), q # <<>>
    PROVE  <<Head(q)>> \o Tail(q) = q
<1> DEFINE p == <<Head(q)>> \o Tail(q)
<1>1. Head(q) \in S /\ Tail(q) \in Seq(S) /\ <<Head(q)>> \in Seq(S)
      /\ Len(Tail(q)) = Len(q) - 1 /\ Len(q) \in Nat \ {0}
  BY HeadTailProperties, EmptySeq
<1>2. p \in Seq(S) /\ Len(p) = Len(q)
  BY <1>1, ConcatProperties
<1>3. ASSUME NEW i \in 1..Len(p) PROVE p[i] = q[i]
  BY <1>1, <1>2, ConcatProperties
<1> QED BY <1>2, <1>3, SeqEqual

\* A sequence that starts with x.
LEMMA ConsProperties ==
    ASSUME NEW S, NEW x \in S, NEW q \in Seq(S)
    PROVE  /\ <<x>> \o q \in Seq(S) /\ <<x>> \o q # <<>>
           /\ Head(<<x>> \o q) = x /\ Tail(<<x>> \o q) = q
<1> DEFINE p == <<x>> \o q
<1>1. <<x>> \in Seq(S) /\ Len(<<x>>) = 1 /\ <<x>>[1] = x /\ Len(q) \in Nat
  OBVIOUS
<1>2. /\ p \in Seq(S) /\ Len(p) = Len(q) + 1
      /\ \A i \in 1..Len(p) : p[i] = IF i <= 1 THEN x ELSE q[i - 1]
  BY <1>1, ConcatProperties
<1>3. p # <<>> /\ Head(p) = x
  BY <1>1, <1>2
<1>4. Tail(p) \in Seq(S) /\ Len(Tail(p)) = Len(q)
  BY <1>1, <1>2, <1>3
<1>5. ASSUME NEW i \in 1..Len(Tail(p)) PROVE Tail(p)[i] = q[i]
  BY <1>1, <1>2, <1>3, <1>4
<1>6. Tail(p) = q BY <1>4, <1>5, SeqEqual
<1> QED BY <1>2, <1>3, <1>6

\* Appending to the last of two sequences, and moving the boundary between two.
LEMMA AppendConcat ==
    ASSUME NEW S, NEW a \in Seq(S), NEW b \in Seq(S), NEW x \in S
    PROVE  /\ a \o Append(b, x) = Append(a \o b, x)
           /\ Append(a, x) \o b = a \o (<<x>> \o b)
<1>1. <<x>> \in Seq(S) OBVIOUS
<1>2. \A q \in Seq(S) : Append(q, x) = q \o <<x>>
  OBVIOUS
<1>3. a \o b \in Seq(S) BY ConcatProperties
<1>4. a \o (b \o <<x>>) = (a \o b) \o <<x>> BY <1>1, ConcatAssociative
<1>5. (a \o <<x>>) \o b = a \o (<<x>> \o b) BY <1>1, ConcatAssociative
<1> QED BY <1>2, <1>3, <1>4, <1>5

(***************************************************************************)
(* The sequence of answers.                                                *)
(***************************************************************************)

Hand == IF pmsg = NoCmd THEN <<>> ELSE <<pmsg>>

LEMMA AnswersType ==
    ASSUME BaseInv
    PROVE  /\ Completed \in Seq(Slots) /\ Len(Completed) = Len(remote)
           /\ \A i \in 1..Len(remote) : Completed[i] = content[remote[i]]
           /\ respq \in Seq(Slots) /\ Hand \in Seq(Slots)
           /\ respq \o Completed \in Seq(Slots)
           /\ Answers = Hand \o (respq \o Completed)
<1>1. Len(remote) \in Nat /\ respq \in Seq(Slots)
  BY DEF BaseInv, TypeOK
<1>2. ASSUME NEW i \in 1..Len(remote) PROVE content[remote[i]] \in Slots
  BY DEF BaseInv, TypeOK, DescriptorConserved, Elements
<1>3. Completed \in [1..Len(remote) -> Slots]
  BY <1>2 DEF Completed
<1>4. Completed \in Seq(Slots) /\ Len(Completed) = Len(remote)
  BY <1>1, <1>3
<1>5. Hand \in Seq(Slots) BY DEF Hand, BaseInv, TypeOK
<1>6. respq \o Completed \in Seq(Slots) BY <1>1, <1>4, ConcatProperties
<1> QED BY <1>1, <1>4, <1>5, <1>6 DEF Answers, Hand, Completed

\* Completing one more descriptor appends its command to the answers.
LEMMA AnswersAppend ==
    ASSUME BaseInv, BaseInv', NEW d \in Descriptors, d \notin Elements(remote),
           remote' = Append(remote, d), UNCHANGED <<respq, pmsg>>,
           \A e \in Descriptors \ {d} : content'[e] = content[e],
           content'[d] \in Slots
    PROVE  Answers' = Append(Answers, content'[d])
<1> DEFINE x == content'[d]
<1>1. remote \in Seq(Descriptors) /\ Len(remote) \in Nat /\ Len(remote') = Len(remote) + 1
      /\ \A i \in 1..Len(remote) : remote'[i] = remote[i] /\ remote[i] # d
                                  /\ remote[i] \in Descriptors
      /\ remote'[Len(remote) + 1] = d
  BY DEF BaseInv, TypeOK, Elements
<1>2. /\ Completed \in Seq(Slots) /\ Len(Completed) = Len(remote)
      /\ \A i \in 1..Len(remote) : Completed[i] = content[remote[i]]
  BY AnswersType
<1>3. /\ Completed' \in Seq(Slots) /\ Len(Completed') = Len(remote')
      /\ \A i \in 1..Len(remote') : Completed'[i] = content'[remote'[i]]
  <2>1. ASSUME NEW i \in 1..Len(remote') PROVE content'[remote'[i]] \in Slots
    BY <1>1 DEF BaseInv, TypeOK, DescriptorConserved, Elements
  <2>2. Completed' = [i \in 1..Len(remote') |-> content'[remote'[i]]]
    BY DEF Completed
  <2>3. Len(remote') \in Nat BY <1>1
  <2>4. Completed' \in [1..Len(remote') -> Slots] BY <2>1, <2>2
  <2> QED BY <2>2, <2>3, <2>4
<1>4. Append(Completed, x) \in Seq(Slots)
      /\ Len(Append(Completed, x)) = Len(remote) + 1
      /\ \A i \in 1..Len(remote) : Append(Completed, x)[i] = Completed[i]
      /\ Append(Completed, x)[Len(remote) + 1] = x
  BY <1>2
<1>5. ASSUME NEW i \in 1..Len(Completed') PROVE Completed'[i] = Append(Completed, x)[i]
  BY <1>1, <1>2, <1>3, <1>4
<1>6. Completed' = Append(Completed, x)
  BY <1>1, <1>3, <1>4, <1>5, SeqEqual
<1>7. /\ respq \in Seq(Slots) /\ Hand \in Seq(Slots) /\ respq \o Completed \in Seq(Slots)
      /\ Answers = Hand \o (respq \o Completed)
  BY AnswersType
<1>8. Answers' = Hand \o (respq \o Completed')
  BY DEF Answers, Hand
<1>9. respq \o Append(Completed, x) = Append(respq \o Completed, x)
  BY <1>2, <1>7, AppendConcat
<1>10. Hand \o Append(respq \o Completed, x) = Append(Hand \o (respq \o Completed), x)
  BY <1>7, AppendConcat
<1> QED BY <1>6, <1>7, <1>8, <1>9, <1>10

(***************************************************************************)
(* The steps that move an answer without the channel seeing it, and the    *)
(* one that delivers it.                                                   *)
(***************************************************************************)

LEMMA RecvKeepsAnswers ==
    ASSUME BaseInv, ProxyRecv
    PROVE  Answers' = Answers
<1>1. pmsg = NoCmd /\ respq # <<>> /\ pmsg' = Head(respq) /\ respq' = Tail(respq)
      /\ Completed' = Completed
  BY DEF ProxyRecv, BaseInv, HandInv, Completed, dspVars
<1>2. respq \in Seq(Slots) /\ Completed \in Seq(Slots) /\ respq \o Completed \in Seq(Slots)
      /\ Answers = Hand \o (respq \o Completed)
  BY AnswersType
<1>3. /\ Head(respq) \in Slots /\ Tail(respq) \in Seq(Slots)
      /\ <<Head(respq)>> \in Seq(Slots)
  BY <1>1, <1>2, HeadTailElements
<1>4. Answers = respq \o Completed
  BY <1>1, <1>2, ConcatEmptySeq DEF Hand
<1>5. Answers' = <<Head(respq)>> \o (Tail(respq) \o Completed)
  BY <1>1, <1>3, NoCmdAssumption DEF Answers
<1>6. <<Head(respq)>> \o (Tail(respq) \o Completed) = (<<Head(respq)>> \o Tail(respq)) \o Completed
  BY <1>2, <1>3, ConcatAssociative
<1>7. <<Head(respq)>> \o Tail(respq) = respq
  BY <1>1, <1>2, HeadThenTail
<1> QED BY <1>4, <1>5, <1>6, <1>7

LEMMA OutputKeepsAnswers ==
    ASSUME BaseInv, BaseInv', DspOutput
    PROVE  Answers' = Answers
<1> DEFINE x == content[Head(remote)]
<1>1. /\ remote # <<>> /\ remote \in Seq(Descriptors) /\ Distinct(remote)
      /\ respq' = Append(respq, x) /\ remote' = Tail(remote) /\ pmsg' = pmsg
      /\ content' = [content EXCEPT ![Head(remote)] = NoCmd]
      /\ content \in [Descriptors -> Slots \cup {NoCmd}]
  BY DEF DspOutput, Answer, PoolPut, BaseInv, TypeOK, DescriptorConserved
<1>2. /\ Completed \in Seq(Slots) /\ Len(Completed) = Len(remote)
      /\ \A i \in 1..Len(remote) : Completed[i] = content[remote[i]]
      /\ respq \in Seq(Slots) /\ Answers = Hand \o (respq \o Completed)
  BY AnswersType
<1>3. /\ Len(remote) \in Nat \ {0} /\ Head(remote) = remote[1]
      /\ Len(Tail(remote)) = Len(remote) - 1
      /\ \A i \in 1..Len(Tail(remote)) : /\ Tail(remote)[i] = remote[i + 1]
                                         /\ i + 1 \in 1..Len(remote)
                                         /\ remote[i + 1] # remote[1]
                                         /\ remote[i + 1] \in Descriptors
  BY <1>1 DEF Distinct
<1>4. /\ Completed # <<>> /\ Head(Completed) = x
      /\ Tail(Completed) \in Seq(Slots)
      /\ Len(Tail(Completed)) = Len(remote) - 1
      /\ \A i \in 1..Len(Tail(Completed)) : Tail(Completed)[i] = Completed[i + 1]
      /\ x \in Slots
  BY <1>2, <1>3, HeadTailElements
<1>5. Completed' = [i \in 1..Len(Tail(remote)) |-> content'[Tail(remote)[i]]]
  BY <1>1 DEF Completed
<1>6. ASSUME NEW i \in 1..Len(Tail(remote))
      PROVE  content'[Tail(remote)[i]] = Tail(Completed)[i]
  BY <1>1, <1>2, <1>3, <1>4
<1>7. Completed' = Tail(Completed)
  <2>1. Completed' \in [1..Len(Tail(remote)) -> Slots]
    <3>1. \A i \in 1..Len(Tail(remote)) : Tail(Completed)[i] \in Slots
      BY <1>3, <1>4
    <3> QED BY <1>5, <1>6, <3>1
  <2>2. Completed' \in Seq(Slots) /\ Len(Completed') = Len(Tail(Completed))
    BY <1>3, <1>4, <2>1
  <2>3. ASSUME NEW i \in 1..Len(Completed') PROVE Completed'[i] = Tail(Completed)[i]
    BY <1>3, <1>4, <1>5, <1>6, <2>2
  <2> QED BY <1>4, <2>2, <2>3, SeqEqual
<1>8. Append(respq, x) \o Tail(Completed) = respq \o (<<x>> \o Tail(Completed))
  BY <1>2, <1>4, AppendConcat
<1>9. <<x>> \o Tail(Completed) = Completed
  BY <1>2, <1>4, HeadThenTail
<1>10. Answers' = Hand \o (respq' \o Completed')
  BY <1>1 DEF Answers, Hand
<1> QED BY <1>1, <1>2, <1>7, <1>8, <1>9, <1>10

LEMMA PutDelivers ==
    ASSUME BaseInv, ProxyPut
    PROVE  Answers # <<>> /\ Head(Answers) = pmsg /\ Answers' = Tail(Answers)
<1>1. pmsg \in Slots /\ pmsg # NoCmd /\ pmsg' = NoCmd /\ respq' = respq
      /\ Completed' = Completed
  BY DEF ProxyPut, Recipient, BaseInv, HandInv, TypeOK, Completed, dspVars
<1>2. respq \o Completed \in Seq(Slots) /\ Answers = Hand \o (respq \o Completed)
  BY AnswersType
<1>3. Answers = <<pmsg>> \o (respq \o Completed)
  BY <1>1, <1>2 DEF Hand
<1>4. Answers' = <<>> \o (respq \o Completed)
  BY <1>1 DEF Answers
<1>5. Answers' = respq \o Completed
  BY <1>2, <1>4, ConcatEmptySeq
<1> QED BY <1>1, <1>2, <1>3, <1>5, ConsProperties

(***************************************************************************)
(* The refinement.                                                         *)
(***************************************************************************)

LEMMA ChannelInit == Init => Channel!ChanInit
<1> SUFFICES ASSUME Init PROVE Channel!ChanInit
  OBVIOUS
<1>1. Executing = {} BY DEF Init, Executing
<1>2. Completed = <<>> BY DEF Init, Completed
<1>3. <<>> \in Seq(Slots) /\ <<>> \o <<>> = <<>> /\ <<>> \o (<<>> \o <<>>) = <<>>
  BY EmptySeq, ConcatEmptySeq
<1>4. Answers = <<>> BY <1>2, <1>3 DEF Init, Answers
<1> QED BY <1>1, <1>4 DEF Init, Channel!ChanInit, Channel!Slots, Slots

\* A step that leaves the channel's own variables alone.
LEMMA Unseen ==
    ASSUME UNCHANGED <<owned, cmdq, content, held, remote, respq, pmsg, inbox>>
    PROVE  UNCHANGED Channel!chanVars
BY DEF Channel!chanVars, Executing, Answers, Completed

LEMMA ChannelStep ==
    ASSUME BaseInv, BaseInv', CommandConserved, [Next]_vars
    PROVE  [Channel!ChanNext]_(Channel!chanVars)
<1> DEFINE Goal == [Channel!ChanNext]_(Channel!chanVars)
<1> USE DEF hostVars, dspVars
<1>1. ASSUME NEW c \in Clients, NEW b \in Bufs, AppSend(c, b) PROVE Goal
  <2>1. <<c, b>> \in Slots /\ Channel!Send(<<c, b>>)
    BY <1>1 DEF AppSend, MaySend, Slots, Channel!Send, Executing, Answers, Completed
  <2> QED BY <2>1 DEF Channel!ChanNext, Channel!Slots, Slots
<1>2. ASSUME NEW c \in Clients, AppSignal(c) PROVE Goal
  BY <1>2, Unseen DEF AppSignal
<1>3. ASSUME NEW c \in Clients, AppReceive(c) PROVE Goal
  <2>1. Channel!Receive(c)
    BY <1>3 DEF AppReceive, Channel!Receive, Executing, Answers, Completed
  <2> QED BY <2>1 DEF Channel!ChanNext
<1>4. CASE ProxyWake BY <1>4, Unseen DEF ProxyWake
<1>5. CASE ProxyClear BY <1>5, Unseen DEF ProxyClear
<1>6. CASE ProxyRecv
  BY <1>6, RecvKeepsAnswers DEF ProxyRecv, Channel!chanVars, Executing
<1>7. CASE ProxyDrained BY <1>7, Unseen DEF ProxyDrained
<1>8. CASE ProxyPut
  <2>1. Answers # <<>> /\ Head(Answers) = pmsg /\ Answers' = Tail(Answers)
    BY <1>8, PutDelivers
  <2>2. Executing' = Executing BY <1>8 DEF ProxyPut, Recipient, Executing
  <2>3. Channel!Deliver
    BY <1>8, <2>1, <2>2 DEF ProxyPut, Recipient, Channel!Deliver, Channel!Client, Client
  <2> QED BY <2>3 DEF Channel!ChanNext
<1>9. CASE DspWake BY <1>9, Unseen DEF DspWake
<1>10. CASE DspClear BY <1>10, Unseen DEF DspClear
<1>11. CASE DspOutput
  <2>1. Answers' = Answers BY <1>11, OutputKeepsAnswers
  <2>2. Head(remote) \in Elements(remote)
    BY <1>11, HeadTailElements DEF DspOutput, Answer, PoolPut, BaseInv, TypeOK
  <2>3. \A d \in held : content'[d] = content[d]
    BY <1>11, <2>2 DEF DspOutput, Answer, PoolPut, BaseInv, TypeOK, DescriptorConserved
  <2>4. Executing' = Executing BY <1>11, <2>3 DEF DspOutput, Answer, PoolPut, Executing
  <2> QED BY <1>11, <2>1, <2>4 DEF DspOutput, Answer, PoolPut, Channel!chanVars
<1>12. CASE DspOutputDone BY <1>12, Unseen DEF DspOutputDone
<1>13. ASSUME NEW d \in Descriptors, DspAccept(d) PROVE Goal
  <2>1. d \notin held /\ d \notin Elements(remote)
    BY <1>13 DEF DspAccept, BaseInv, DescriptorConserved
  <2>2. content' = [content EXCEPT ![d] = Head(cmdq)] /\ held' = held \cup {d}
        /\ content \in [Descriptors -> Slots \cup {NoCmd}] /\ held \subseteq Descriptors
        /\ remote \in Seq(Descriptors) /\ remote' = remote
    BY <1>13 DEF DspAccept, BaseInv, TypeOK
  <2>3. Executing' = Executing \cup {Head(cmdq)}
    BY <2>1, <2>2 DEF Executing
  <2>4. \A i \in 1..Len(remote) : content'[remote[i]] = content[remote[i]]
    BY <2>1, <2>2 DEF Elements
  <2>5. Answers' = Answers
    <3>1. Completed' = [i \in 1..Len(remote) |-> content'[remote[i]]]
      BY <2>2 DEF Completed
    <3>2. Completed' = Completed BY <2>4, <3>1 DEF Completed
    <3> QED BY <1>13, <3>2 DEF DspAccept, Answers
  <2>6. Channel!Accept
    BY <1>13, <2>3, <2>5 DEF DspAccept, Channel!Accept
  <2> QED BY <2>6 DEF Channel!ChanNext
<1>14. ASSUME NEW d \in Descriptors, DspReply(d) PROVE Goal
  <2>1. d \notin held /\ d \notin Elements(remote)
    BY <1>14 DEF DspReply, Queued, Resumed, BaseInv, DescriptorConserved
  <2>2. content' = [content EXCEPT ![d] = Head(cmdq)] /\ held' = held
        /\ content \in [Descriptors -> Slots \cup {NoCmd}] /\ held \subseteq Descriptors
        /\ remote' = Append(remote, d) /\ Head(cmdq) \in Slots
    BY <1>14, HeadTailElements DEF DspReply, Queued, Resumed, BaseInv, TypeOK
  <2>3. Executing' = Executing
    BY <2>1, <2>2 DEF Executing
  <2>4. content'[d] = Head(cmdq) /\ \A e \in Descriptors \ {d} : content'[e] = content[e]
    BY <2>2
  <2>5. Answers' = Append(Answers, Head(cmdq))
    BY <1>14, <2>1, <2>2, <2>4, AnswersAppend DEF DspReply, Queued, Resumed
  <2>6. Channel!Reply
    BY <1>14, <2>3, <2>5 DEF DspReply, Queued, Resumed, Channel!Reply
  <2> QED BY <2>6 DEF Channel!ChanNext
<1>15. CASE DspPassDone BY <1>15, Unseen DEF DspPassDone, Notified
<1>16. ASSUME NEW w \in Workers, NEW d \in Descriptors, WorkerComplete(w, d) PROVE Goal
  <2> DEFINE s == content[d]
  <2>1. d \notin Elements(remote) /\ s \in Slots /\ s # NoCmd
    BY <1>16, NoCmdAssumption
       DEF WorkerComplete, Queued, BaseInv, TypeOK, DescriptorConserved
  <2>2. Answers' = Append(Answers, s)
    BY <1>16, <2>1, AnswersAppend DEF WorkerComplete, Queued
  <2>3. s \in Executing
    BY <1>16 DEF WorkerComplete, Queued, Executing
  <2>4. \A e \in held : content[e] = s => e = d
    BY <1>16, <2>1 DEF CommandConserved, BaseInv, TypeOK
  <2>5. Executing' = Executing \ {s}
    BY <1>16, <2>4 DEF WorkerComplete, Queued, Executing
  <2>6. Channel!Finish(s)
    BY <1>16, <2>2, <2>3, <2>5 DEF WorkerComplete, Queued, Channel!Finish
  <2> QED BY <2>1, <2>6 DEF Channel!ChanNext, Channel!Slots, Slots
<1>17. ASSUME NEW w \in Workers, WorkerResume(w) PROVE Goal
  BY <1>17, Unseen DEF WorkerResume, Resumed
<1>18. CASE CloseSetDspDie BY <1>18, Unseen DEF CloseSetDspDie
<1>19. CASE CloseProxy BY <1>19, Unseen DEF CloseProxy, ToldToDie
<1>20. CASE CloseDone BY <1>20, Unseen DEF CloseDone
<1>21. CASE UNCHANGED vars BY <1>21, Unseen DEF vars
<1> QED BY <1>1, <1>2, <1>3, <1>4, <1>5, <1>6, <1>7, <1>8, <1>9, <1>10, <1>11,
           <1>12, <1>13, <1>14, <1>15, <1>16, <1>17, <1>18, <1>19, <1>20, <1>21
        DEF Next, App, ProxyThread, DspThread, Worker, MainThread

\* The host/DSP interface (xf-msgq.c, xf-msg.c, xf-msgq1.c, xf_proxy_thread)
\* implements the channel: for any number of clients, buffers, descriptors and
\* workers it loses, duplicates and reorders nothing.
THEOREM IpcImplementsChannel == Spec => ImplementsChannel
<1>1. BaseInv /\ BaseInv' /\ CommandConserved /\ [Next]_vars
        => [Channel!ChanNext]_(Channel!chanVars)
  BY ChannelStep
<1>2. Spec => [](BaseInv /\ CommandConserved) /\ [][Next]_vars
  BY CommandInvariant, PTL DEF Spec
<1> QED BY ChannelInit, <1>1, <1>2, PTL DEF Spec, ImplementsChannel, Channel!ChanSpec
==============================================================================
