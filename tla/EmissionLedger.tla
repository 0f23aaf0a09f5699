--------------------------- MODULE EmissionLedger ---------------------------
(***************************************************************************)
(* What x/emissions promises, without pools, schedule or thresholds: a     *)
(* ledger that releases a fixed reserve, epoch after epoch, in equal       *)
(* shares backed by coins, and pays each key's balance to the one wallet   *)
(* that owns the key.                                                      *)
(***************************************************************************)
EXTENDS Integers, FiniteSets

CONSTANTS Passkeys, Wallets, NoWallet, Epochs

VARIABLES
    last,      \* the last epoch released
    reserve,   \* not yet released
    owed,      \* per passkey, credited and not paid
    vault,     \* coins held for the passkeys
    paid,      \* per wallet
    owner      \* per passkey, the wallet it is bound to

vars == <<last, reserve, owed, vault, paid, owner>>

Init ==
    /\ last = 0
    /\ reserve \in Nat
    /\ owed = [k \in Passkeys |-> 0]
    /\ vault = 0
    /\ paid = [w \in Wallets |-> 0]
    /\ owner \in [Passkeys -> Wallets \cup {NoWallet}]

\* the winners get the same share, and a coin for each unit of it
Credit(winners, share) ==
    /\ owed' = [k \in Passkeys |-> owed[k] + IF k \in winners THEN share ELSE 0]
    /\ vault' = vault + share * Cardinality(winners)
    /\ UNCHANGED <<paid, owner>>

\* epochs are released in order; what is credited comes out of the reserve
Release(e, winners, share) ==
    /\ e > last
    /\ last' = e
    /\ reserve' \in 0 .. reserve
    /\ share * Cardinality(winners) <= reserve - reserve'
    /\ Credit(winners, share)

\* the release could not be saved: the credits stand, the reserve too
UnsavedRelease(winners, share) ==
    /\ share * Cardinality(winners) <= reserve
    /\ Credit(winners, share)
    /\ UNCHANGED <<last, reserve>>

Pay(k) ==
    /\ owner[k] \in Wallets
    /\ owed[k] \in 1 .. vault
    /\ owed' = [owed EXCEPT ![k] = 0]
    /\ vault' = vault - owed[k]
    /\ paid' = [paid EXCEPT ![owner[k]] = @ + owed[k]]
    /\ UNCHANGED <<last, reserve, owner>>

Bind(k, w) ==
    /\ owner[k] = NoWallet
    /\ owner' = [owner EXCEPT ![k] = w]
    /\ UNCHANGED <<last, reserve, owed, vault, paid>>

\* an import drops every balance; the coins stay
Forget ==
    /\ owed' = [k \in Passkeys |-> 0]
    /\ UNCHANGED <<last, reserve, vault, paid, owner>>

Next ==
    \/ \E winners \in SUBSET Passkeys, share \in 0 .. reserve :
          \/ \E e \in Epochs : Release(e, winners, share)
          \/ UnsavedRelease(winners, share)
    \/ \E k \in Passkeys : Pay(k) \/ \E w \in Wallets : Bind(k, w)
    \/ Forget

Spec == Init /\ [][Next]_vars
=============================================================================
