-------------------------- MODULE MCEpochPipeline --------------------------
(* Small instances of EpochPipeline for TLC. *)
EXTENDS EpochPipeline

CONSTANTS k1, k2, w1

OneView == {[leader |-> k1, wallet |-> w1, contributors |-> {k2}]}

NoAliases == {[k \in Keys |-> [wallet |-> NoWallet, migrated |-> FALSE]]}

NoModerators == [Moderators -> {0}]

EnoughPool == {[validator |-> 4, contributor |-> 8, shares |-> TRUE]}

\* a pool that cannot be saved, and pools that leave every remainder
PoolsUpTo7 ==
    {[validator |-> v, contributor |-> 8, shares |-> TRUE] : v \in 4 .. 7}
        \cup {[validator |-> 1, contributor |-> 8, shares |-> FALSE]}

TwoEpochs == [schedule |-> 2, annualCap |-> 0, threshold |-> 1]

FourEpochs == [schedule |-> 4, annualCap |-> 0, threshold |-> 1]

OnlyFourEpochs == {FourEpochs}

OnlyTwoEpochs == {TwoEpochs}
=============================================================================
