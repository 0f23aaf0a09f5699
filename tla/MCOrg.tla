------------------------------- MODULE MCOrg -------------------------------
(* Small instances of Org for TLC.                                         *)
EXTENDS Org, TLC

\* accounts without trial allowances are interchangeable
SymmetryRoster == Permutations(Keys) \cup Permutations(Addrs \ TrialGrantees)

SymmetryKeysAddrs == Permutations(Keys) \cup Permutations(Addrs)

NoConfigs == {}
TwoConfigs == {[receipt |-> TRUE, minContrib |-> 1], [receipt |-> FALSE, minContrib |-> 100]}

=============================================================================
