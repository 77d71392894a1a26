----------------------------- MODULE MCProxySync -----------------------------
(* Finite instances of ProxySync: everything but client ids is a model value. *)
EXTENDS ProxySync

TwoClients == 0..1
ThreeClients == 0..2

Symmetry ==
    Permutations(Threads) \cup Permutations(Handles) \cup Permutations(Buffers)
        \cup Permutations(Components) \cup Permutations(Cmds)
=============================================================================
