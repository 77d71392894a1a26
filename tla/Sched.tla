------------------------------- MODULE Sched --------------------------------
(***************************************************************************)
(* A worker's scheduler (xf-sched.c): tasks in a red-black tree ordered by *)
(* their deadlines, with the first one cached. Deadlines are kept in the   *)
(* colour word of a node, so that their last bit is lost, and are compared *)
(* modulo the width of that word. Each operation is one step: the worker   *)
(* that owns the scheduler is the only one to use it.                      *)
(***************************************************************************)
EXTENDS RedBlackTree

CONSTANTS
    Delays,    \* the delays tasks are scheduled with
    Wrap       \* timestamps are numbers below Wrap, a power of two

ASSUME WrapAssumption == \E w \in 1..64 : Wrap = 2^w
ASSUME DelaysAssumption == \A dts \in Delays : dts \in Nat /\ 2 * dts < Wrap

VARIABLES
    tree,      \* sched->tree, with sched->tree.root.right the first task
    stamp,     \* timestamp of a scheduled task
    now        \* timestamp of the scheduler

vars == <<tree, stamp, now>>

Init == tree = Empty /\ stamp = [t \in Nodes |-> 0] /\ now = 0

Scheduled(t) == tree[t].parent # Nil
First == tree[Null].right

Even(ts) == ts - (ts % 2)

\* (A task goes before those of the same timestamp.)
NotAfter(ts, other) == ts = other \/ (ts - other) % Wrap >= Wrap \div 2

\* xf_timestamp_before
Before(ts, other) == (ts - other) % Wrap >= Wrap \div 2

\* (The sum is not reduced.)
PlusUnbounded(ts, dts) == ts + dts
Plus(ts, dts) == (ts + dts) % Wrap

RECURSIVE Place(_, _)
Place(p, ts) ==     \* where a task due at ts belongs: the parent and the side
    LET side == IF Before(ts, stamp[p]) THEN "left" ELSE "right"
    IN IF tree[p][side] = Null THEN [parent |-> p, side |-> side]
       ELSE Place(tree[p][side], ts)

\* xf_sched_put; a task is scheduled once (XA_BASE_FLAG_SCHEDULE)
Put(t, dts) ==
    LET ts == Plus(now, dts)
        root == tree[Null].left
        at == IF root = Null THEN [parent |-> Null, side |-> "left"] ELSE Place(root, ts)
        head == IF at.side = "left" /\ at.parent \in {Null, First}
                THEN [tree EXCEPT ![Null].right = t] ELSE tree
        hung == IF at.parent = Null THEN head ELSE [head EXCEPT ![at.parent][at.side] = t]
    IN /\ ~Scheduled(t)
       /\ tree' = Inserted(hung, t, at.parent)
       /\ stamp' = [stamp EXCEPT ![t] = Even(ts)]
       /\ now' = now

\* xf_sched_get
Get ==
    LET d == Deleted(tree, First)
    IN /\ First # Null
       /\ tree' = [d.tree EXCEPT ![Null].right = d.next]
       /\ now' = stamp[First]
       /\ stamp' = [stamp EXCEPT ![First] = 0]

\* xf_sched_cancel; of a task that is not scheduled it does nothing
Cancel(t) ==
    LET d == Deleted(tree, t)
    IN /\ Scheduled(t)
       /\ tree' = IF t = First THEN [d.tree EXCEPT ![Null].right = d.next] ELSE d.tree
       /\ stamp' = [stamp EXCEPT ![t] = 0]
       /\ now' = now

Next ==
    \/ \E t \in Nodes, dts \in Delays : Put(t, dts)
    \/ Get
    \/ \E t \in Nodes : Cancel(t)

Spec == Init /\ [][Next]_vars

-----------------------------------------------------------------------------
(* Properties.                                                             *)

Pointers == Nodes \cup {Null, Nil}

\* Types; the sentinel is black, or the timestamp kept in its colour is odd.
TypeOK ==
    /\ tree \in [Nodes \cup {Null} ->
                   [parent : Pointers, left : Pointers, right : Pointers, red : BOOLEAN]]
    /\ ~tree[Null].red
    /\ stamp \in [Nodes -> 0..(Wrap - 1)] /\ now \in 0..(Wrap - 1)
    /\ \A t \in Nodes : stamp[t] % 2 = 0

\* Every insertion and deletion leaves a red-black tree, with parents and
\* children in agreement, of just the tasks that are scheduled: the root and the
\* children of red nodes are black and all paths have the same number of black nodes.
RedBlack ==
    LET content == Content(tree)
        in == {content[i] : i \in DOMAIN content}
        IsBlack(n) == ~tree[n].red
    IN /\ in = {t \in Nodes : Scheduled(t)}
       /\ \A i, j \in DOMAIN content : content[i] = content[j] => i = j
       /\ IsBlack(tree[Null].left)
       /\ \A n \in in, side \in {"left", "right"} :
            LET child == tree[n][side]
            IN /\ child # Null => tree[child].parent = n
               /\ tree[n].red => IsBlack(child)
       /\ tree[Null].left # Null => tree[tree[Null].left].parent = Null
       /\ BlackHeight(tree, tree[Null].left) # -1

\* The scheduler hands out tasks by deadline and first come first served among
\* equal ones, however often the timestamps wrap around: the tree in order is
\* the queue of EdfQueue.
Queue == INSTANCE EdfQueue WITH
    Tasks <- Nodes,
    queue <- LET content == Content(tree)
             IN [i \in DOMAIN content |->
                   [task |-> content[i], wait |-> (stamp[content[i]] - now) % Wrap]]
ImplementsEdf == Queue!Spec

=============================================================================
