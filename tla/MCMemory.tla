------------------------------ MODULE MCMemory ------------------------------
(* Small instances of Memory for TLC. *)
EXTENDS Memory, TLC

CONSTANTS k1, k2, w1, w2

\* before and after a transfer of leadership
TwoViews ==
    {[leader |-> k1, wallet |-> w1, contributors |-> {k2}],
     [leader |-> k2, wallet |-> w2, contributors |-> {}]}

OneView == {[leader |-> k1, wallet |-> w1, contributors |-> {k2}]}

\* a moderator not listed, listed once and listed twice
UpToTwice == {[m \in Moderators |-> n] : n \in 0 .. 2}

Once == {[m \in Moderators |-> 1]}

HashSymmetry == Permutations(Hashes)
=============================================================================
