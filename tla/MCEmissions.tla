---------------------------- MODULE MCEmissions ----------------------------
(* Small instances of Emissions for TLC. *)
EXTENDS Emissions, TLC

PasskeySymmetry == Permutations(Passkeys)

\* no alias yet, or every passkey listed with a wallet it has not migrated to
AliasTables ==
    {[k \in Passkeys |-> NoAlias]}
        \cup {[k \in Passkeys |-> [wallet |-> w, migrated |-> FALSE]] : w \in Wallets}

MixedPools ==
    {[validator |-> 3, contributor |-> 7, shares |-> s] : s \in BOOLEAN}

LongSchedule == [schedule |-> 2, annualCap |-> 0, threshold |-> 1]

ShortCapped == [schedule |-> 1, annualCap |-> 5, threshold |-> 2]

TwoParams == {LongSchedule, ShortCapped}

CountsUpTo2 == [Passkeys -> 0 .. 2]
=============================================================================
