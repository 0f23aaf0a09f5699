------------------------------- MODULE MCServe ------------------------------
(* Small instances of Serve for TLC. *)
EXTENDS Serve, TLC

CONSTANTS a1, a2, p1, o1, o2, v1

\* the leader of o1 registered an account as public key, that of o2 a passkey
Leaders == [o \in Orgs |-> IF o = o1 THEN a1 ELSE p1]

\* versions sort before org ids, and the empty name before both
NameOrder ==
    [n \in Names |-> CASE n = NoOrg -> 0
                       [] n = v1 -> 1
                       [] n \in Versions \ {v1} -> 2
                       [] n = o1 -> 3
                       [] OTHER -> 4]

Generous == [batch |-> 2, perMemory |-> 2]
Tight == [batch |-> 1, perMemory |-> 1]

OneSetting == {Generous}
TwoSettings == {Generous, Tight}
KeySymmetry == UNION {Permutations(S) : S \in {Hashes, ServeKeys, PolicyHashes}}
=============================================================================
