---------------------------- MODULE RedBlackTree ----------------------------
(***************************************************************************)
(* The red-black trees of the DSP side (rbtree.c), as operators on a tree. *)
(* A tree maps each node, and the sentinel Null (&tree->root), to its      *)
(* parent, its two children and its colour. The sentinel's left child is   *)
(* the root of the tree; its right one is a cache that belongs to the user.*)
(* A node that is in no tree has the C null pointer, Nil, in its fields.   *)
(* Where the code has a left and a right variant of a case, side is the    *)
(* one at hand.                                                            *)
(***************************************************************************)
EXTENDS Integers, Sequences

CONSTANTS Nodes, Null, Nil

ASSUME NullAssumption == Null \notin Nodes /\ Nil \notin Nodes \cup {Null}

Other(side) == IF side = "left" THEN "right" ELSE "left"
Loose == [parent |-> Nil, left |-> Nil, right |-> Nil, red |-> FALSE]
Leaf(p, isRed) == [parent |-> p, left |-> Null, right |-> Null, red |-> isRed]

\* rb_init
Empty == [x \in Nodes \cup {Null} |-> IF x = Null THEN Leaf(Null, FALSE) ELSE Loose]

SideOf(T, n, p) == IF n = T[p].left THEN "left" ELSE "right"

\* The parent t of a subtree, Null for the whole tree, points to new where it
\* pointed to old.
Linked(T, t, old, new) ==
    IF t = Null THEN [T EXCEPT ![Null].left = new]
                ELSE [T EXCEPT ![t][SideOf(T, old, t)] = new]

\* Case #5: red n and its red parent p are on the same side of g.
OuterRotated(T, p, g, side) ==
    LET t == T[g].parent
        child == T[p][Other(side)]
    IN Linked([T EXCEPT ![g].parent = p, ![g][side] = child, ![g].red = TRUE,
                        ![child].parent = g,
                        ![p].parent = t, ![p][Other(side)] = g, ![p].red = FALSE], t, g, p)

\* Case #4: n is on the other side of p than p of g.
InnerRotated(T, n, p, g, side) ==
    LET t == T[g].parent
        toP == T[n][side]
        toG == T[n][Other(side)]
    IN Linked([T EXCEPT ![n].parent = t, ![n][side] = p, ![n][Other(side)] = g, ![n].red = FALSE,
                        ![p].parent = n, ![p][Other(side)] = toP, ![toP].parent = p,
                        ![g].parent = n, ![g][side] = toG, ![g].red = TRUE, ![toG].parent = g],
              t, g, n)

\* __rb_insert_balance
RECURSIVE InsertBalanced(_, _)
InsertBalanced(T, n) ==
    LET p == T[n].parent
        g == T[p].parent
        side == SideOf(T, p, g)
        uncle == T[g][Other(side)]
    IN CASE p = Null   -> [T EXCEPT ![n].red = FALSE, ![Null].left = n]
         [] p # Null /\ ~T[p].red -> T
         [] p # Null /\ T[p].red  ->
              IF T[uncle].red
              THEN InsertBalanced([T EXCEPT ![p].red = FALSE, ![uncle].red = FALSE, ![g].red = TRUE], g)
              ELSE IF n = T[p][side] THEN OuterRotated(T, p, g, side)
              ELSE InnerRotated(T, n, p, g, side)

\* rb_insert of n, which its parent p points to already
Inserted(T, n, p) ==
    IF p = Null THEN [T EXCEPT ![n] = Leaf(Null, FALSE), ![Null].left = n]
                ELSE InsertBalanced([T EXCEPT ![n] = Leaf(p, TRUE)], n)

\* Case #2: n's sibling s is red.
SiblingRaised(T, p, s, side) ==
    LET g == T[p].parent
        child == T[s][side]
    IN Linked([T EXCEPT ![s].parent = g, ![s][side] = p, ![s].red = FALSE,
                        ![p].parent = s, ![p][Other(side)] = child, ![p].red = TRUE,
                        ![child].parent = p], g, p, s)

\* Case #5: of s's children the one next to n alone is red.
NearRaised(T, p, s, side) ==
    LET g == T[p].parent
        near == T[s][side]
        toP == T[near][side]
        toS == T[near][Other(side)]
    IN Linked([T EXCEPT ![near] = [parent |-> g, red |-> T[p].red,
                                   left  |-> IF side = "left" THEN p ELSE s,
                                   right |-> IF side = "left" THEN s ELSE p],
                        ![p].parent = near, ![p][Other(side)] = toP, ![p].red = FALSE,
                        ![toP].parent = p,
                        ![s].parent = near, ![s][side] = toS, ![toS].parent = s], g, p, near)

\* Case #6: the far one is red.
FarRaised(T, p, s, side) ==
    LET g == T[p].parent
        near == T[s][side]
        far == T[s][Other(side)]
    IN Linked([T EXCEPT ![s].parent = g, ![s][side] = p, ![s].red = T[p].red,
                        ![p].parent = s, ![p][Other(side)] = near, ![p].red = FALSE,
                        ![near].parent = p, ![far].red = FALSE], g, p, s)

\* __rb_delete_rebalance: the subtree n of p lacks one black node.
RECURSIVE DeleteBalanced(_, _, _)
DeleteBalanced(T, n, p) ==
    LET side == SideOf(T, n, p)
        s == T[p][Other(side)]
        near == T[s][side]
        far == T[s][Other(side)]
    IN IF T[s].red THEN DeleteBalanced(SiblingRaised(T, p, s, side), n, p)
       ELSE IF T[far].red THEN FarRaised(T, p, s, side)
       ELSE IF T[near].red THEN NearRaised(T, p, s, side)
       ELSE IF T[p].red THEN [T EXCEPT ![s].red = TRUE, ![p].red = FALSE]
       ELSE IF T[p].parent = Null THEN [T EXCEPT ![s].red = TRUE]
       ELSE DeleteBalanced([T EXCEPT ![s].red = TRUE], p, T[p].parent)

RECURSIVE Farthest(_, _, _)
Farthest(T, n, side) == IF T[n][side] = Null THEN n ELSE Farthest(T, T[n][side], side)

\* The place of n is taken by m, whose own child c moves up; t becomes the parent of c.
Moved(T, n, m, c, t) ==
    LET N == T[n]
        M == [N EXCEPT !.left = IF @ = m THEN T[m].left ELSE @,
                       !.right = IF @ = m THEN T[m].right ELSE @]
        up == IF t = m THEN T
              ELSE [T EXCEPT ![t] = IF c = T[m].left THEN [@ EXCEPT !.right = c]
                                                     ELSE [@ EXCEPT !.left = c],
                             ![c].parent = t]
        L == IF N.left = m THEN up ELSE [up EXCEPT ![N.left].parent = m]
        R == IF N.right = m THEN L ELSE [L EXCEPT ![N.right].parent = m]
    IN [R EXCEPT ![m] = M]

\* (The child that moved up keeps its colour.)
RestoredUnpainted(T, isRed, c, t) ==
    IF isRed \/ c # Null THEN T ELSE DeleteBalanced(T, Null, t)

\* What is left to do once a node of that colour is gone below t, replaced by c.
Restored(T, isRed, c, t) ==
    IF isRed THEN T
    ELSE IF c = Null THEN DeleteBalanced(T, Null, t)
    ELSE [T EXCEPT ![c].red = FALSE]

\* rb_delete of a node of the tree; next is the one it returns, a neighbour.
Deleted(T, n) ==
    LET N == T[n]
        side == IF N.left # Null THEN "left" ELSE "right"
        m == Farthest(T, N[side], Other(side))     \* predecessor or successor
        c == T[m][side]
        t == IF T[m].parent = n THEN m ELSE T[m].parent
        out == IF N[side] = Null THEN Linked(T, N.parent, n, Null)
               ELSE Linked(Moved(T, n, m, c, t), N.parent, n, m)
        U == IF N[side] # Null THEN Restored(out, T[m].red, c, t)
             ELSE IF N.parent = Null THEN out
             ELSE Restored(out, N.red, Null, N.parent)
    IN [tree |-> [U EXCEPT ![n] = Loose],
        next |-> IF N[side] # Null THEN m ELSE N.parent]

-----------------------------------------------------------------------------
(* What a tree means, and what makes it a red-black tree.                  *)

RECURSIVE InOrder(_, _)
InOrder(T, n) == IF n = Null THEN <<>>
                 ELSE InOrder(T, T[n].left) \o <<n>> \o InOrder(T, T[n].right)
Content(T) == InOrder(T, T[Null].left)

RECURSIVE BlackHeight(_, _)
BlackHeight(T, n) ==     \* -1 if two paths differ
    IF n = Null THEN 0
    ELSE LET l == BlackHeight(T, T[n].left)
             r == BlackHeight(T, T[n].right)
         IN IF l # r \/ l = -1 THEN -1 ELSE l + (IF T[n].red THEN 0 ELSE 1)

=============================================================================
