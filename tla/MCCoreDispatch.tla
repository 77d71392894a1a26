--------------------------- MODULE MCCoreDispatch ---------------------------
(* Finite instances of CoreDispatch: components and commands are model     *)
(* values; indices are small intervals.                                    *)
EXTENDS CoreDispatch, TLC

OneId == {0}
TwoIds == {0, 1}
ThreeIds == 0..2
TwoWorkers == {0, 1}

\* Commands are interchangeable, and so are components.
Symmetry == Permutations(Msgs) \cup Permutations(Components)
=============================================================================
