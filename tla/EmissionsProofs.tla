-------------------------- MODULE EmissionsProofs --------------------------
(***************************************************************************)
(* Theorems about Emissions, for all passkeys, wallets, pools, parameters  *)
(* and approval counts.  LedgerInv is the inductive invariant.             *)
(***************************************************************************)
EXTENDS Emissions, SumTheorems, TLAPS

\* provers of a leaf that names none
USE ZenonT(30), SMTT(30)

\* What the properties need besides themselves.  The shares of a pool never
\* change; an epoch without a record emitted nothing; a record of a pool that
\* cannot be saved is of an ended epoch and any other is of no epoch after the
\* pool's, so no record is ever overwritten.
Emitted == {e \in Epochs : daily[e].minted}

RecordsFresh ==
    /\ pool.shares = genesis.shares
    /\ \A e \in Epochs \ Emitted : daily[e] = NotEmitted
    /\ ~pool.shares => \A e \in Emitted : e < epoch
    /\ pool.shares =>
           /\ pool.elapsed = Cardinality(Emitted)
           /\ pool.epoch >= epoch - 1
           /\ Emitted = {} => pool.epoch = 0 /\ pool.start = 0
           /\ Emitted # {} => {pool.epoch, pool.start} \subseteq Emitted
           /\ \A e \in Emitted : pool.start <= e /\ e <= pool.epoch

\* A passkey that resolves to no wallet was never paid.
UnboundUnpaid ==
    \A k \in Passkeys : ResolveIdentity(k) = NoWallet => Settled(k) = 0

\* the terms of the sums in RewardsBacked and ClaimsPaidToOwner
Unclaimed == [k \in Passkeys |-> reward[k] + forgotten[k].reward]
Earned == [k \in Passkeys |-> lifetime[k] + forgotten[k].lifetime]
Recorded == [e \in Epochs |-> daily[e].total - daily[e].validator]
SettledBy == [k \in Passkeys |-> Settled(k)]
Owned(w) == {k \in Passkeys : ResolveIdentity(k) = w}

LedgerInv ==
    /\ TypeOK
    /\ SupplyConserved
    /\ RecordsFresh
    /\ RewardsBacked
    /\ UnboundUnpaid
    /\ ClaimsPaidToOwner

----------------------------------------------------------------------------
(* The arithmetic of one epoch.                                            *)

\* Integer division splits a number into equal parts and a remainder (the
\* split of the budget in MintDailyEmission).
LEMMA DivMod ==
    ASSUME NEW n \in Nat, NEW c \in Nat \ {0}
    PROVE  /\ n \div c \in Nat
           /\ n % c \in Nat
           /\ ((n \div c) * c) + (n % c) = n
           /\ n \div c <= n
           /\ (n \div c) * c \in Nat
  BY SMTT(30)

\* The winners of an epoch are some of the passkeys, finitely many.
LEMMA QualifyingType ==
    ASSUME NEW counts
    PROVE  /\ Qualifying(counts) \in SUBSET Passkeys
           /\ IsFiniteSet(Qualifying(counts))
           /\ Cardinality(Qualifying(counts)) \in Nat
           /\ Qualifying(counts) # {} => Cardinality(Qualifying(counts)) \in Nat \ {0}
<1>1. Qualifying(counts) \in SUBSET Passkeys
  BY DEF Qualifying
<1>2. IsFiniteSet(Qualifying(counts))
  BY <1>1, EmissionsConstants, FS_Subset
<1> QED
  BY <1>1, <1>2, FS_CardinalityType, FS_EmptySet

\* One epoch releases no more than the pools hold, and splits the contributor
\* budget and the rollover into what is distributed and the next rollover
\* (computeDailyEmission, MintDailyEmission).
LEMMA MintAmounts ==
    ASSUME TypeOK, NEW counts
    PROVE  /\ ValidatorEmission \in Nat
           /\ ValidatorEmission <= pool.validator
           /\ ContributorBudget \in Nat
           /\ ContributorBudget <= pool.contributor
           /\ PerContributor(counts) \in Nat
           /\ PerContributor(counts) <= ContributorBudget + pool.rollover
           /\ Distributed(counts) \in Nat
           /\ Rollover(counts) \in Nat
           /\ Distributed(counts) + Rollover(counts) = ContributorBudget + pool.rollover
<1>1. /\ pool.validator \in Nat /\ pool.contributor \in Nat /\ pool.rollover \in Nat
      /\ pool.elapsed \in Nat
  BY DEF TypeOK, EmissionPool
<1>2. params.schedule \in Nat /\ params.annualCap \in Nat
  BY EmissionsConstants DEF TypeOK
<1>3. RemainingEpochs \in Nat \ {0}
  BY <1>1, <1>2, SMTT(30) DEF RemainingEpochs
<1>4. ValidatorEmission \in Nat /\ ValidatorEmission <= pool.validator
  BY <1>1, <1>3, DivMod DEF ValidatorEmission
<1>5. ContributorBudget \in Nat /\ ContributorBudget <= pool.contributor
  <2>1. /\ pool.contributor \div RemainingEpochs \in Nat
        /\ pool.contributor \div RemainingEpochs <= pool.contributor
    BY <1>1, <1>3, DivMod
  <2>2. params.annualCap \div EpochsPerYear \in Nat
    BY <1>2, EmissionsConstants, DivMod
  <2> QED
    BY <1>1, <2>1, <2>2, SMTT(30) DEF ContributorBudget
<1> DEFINE n == Cardinality(Qualifying(counts))
           b == ContributorBudget + pool.rollover
<1>6. b \in Nat
  BY <1>1, <1>5, SMTT(30)
<1>7. CASE Qualifying(counts) = {}
  <2>1. n = 0
    BY <1>7, FS_EmptySet
  <2>2. PerContributor(counts) = 0 /\ Rollover(counts) = pool.rollover + ContributorBudget
    BY <1>7 DEF PerContributor, Rollover
  <2> QED
    BY <1>1, <1>4, <1>5, <2>1, <2>2, SMTT(30) DEF Distributed
<1>8. CASE Qualifying(counts) # {}
  <2>1. n \in Nat \ {0}
    BY <1>8, QualifyingType
  <2>2. /\ PerContributor(counts) = b \div n
        /\ Rollover(counts) = b % n
        /\ Distributed(counts) = (b \div n) * n
    BY <1>8 DEF PerContributor, Rollover, Distributed
  <2>3. /\ b \div n \in Nat /\ b % n \in Nat /\ b \div n <= b
        /\ ((b \div n) * n) + (b % n) = b /\ (b \div n) * n \in Nat
    BY <1>6, <2>1, DivMod
  <2> QED
    BY <1>4, <1>5, <2>2, <2>3
<1> QED
  BY <1>7, <1>8

\* The saved pool is well typed and holds the same uvibe as before.
LEMMA SavedPoolFacts ==
    ASSUME TypeOK, NEW e \in Epochs, NEW counts
    PROVE  LET p == SavedPool(e, counts)
           IN  /\ p \in EmissionPool
               /\ p.supply + p.validator + p.contributor + p.rollover
                      = pool.supply + pool.validator + pool.contributor + pool.rollover
               /\ p.shares = pool.shares
               /\ p.epoch = e
               /\ p.elapsed = pool.elapsed + 1
               /\ p.start = IF pool.start = 0 /\ pool.elapsed = 0 THEN e ELSE pool.start
               /\ p.validator + p.contributor + p.rollover + ValidatorEmission
                      + Distributed(counts)
                      = pool.validator + pool.contributor + pool.rollover
<1>1. pool \in EmissionPool /\ e \in Nat
  BY EmissionsConstants, SMTT(30) DEF TypeOK, Epochs
<1>2. /\ ValidatorEmission \in Nat /\ ValidatorEmission <= pool.validator
      /\ ContributorBudget \in Nat /\ ContributorBudget <= pool.contributor
      /\ Distributed(counts) \in Nat /\ Rollover(counts) \in Nat
      /\ Distributed(counts) + Rollover(counts) = ContributorBudget + pool.rollover
  BY MintAmounts
<1>3. /\ pool.epoch \in Nat /\ pool.validator \in Nat /\ pool.contributor \in Nat
      /\ pool.rollover \in Nat /\ pool.start \in Nat /\ pool.elapsed \in Nat
      /\ pool.supply \in Nat /\ pool.shares \in BOOLEAN
  BY <1>1 DEF EmissionPool
<1>4. TotalEmitted(counts) = ValidatorEmission + Distributed(counts)
  BY DEF TotalEmitted
<1>5. SavedPool(e, counts) \in EmissionPool
  BY <1>1, <1>2, <1>3, <1>4, SMTT(30) DEF EmissionPool, SavedPool
<1> DEFINE p == SavedPool(e, counts)
<1>6. /\ p.epoch = e
      /\ p.validator = pool.validator - ValidatorEmission
      /\ p.contributor = pool.contributor - ContributorBudget
      /\ p.rollover = Rollover(counts)
      /\ p.elapsed = pool.elapsed + 1
      /\ p.supply = pool.supply + TotalEmitted(counts)
  BY DEF SavedPool
<1>7. /\ p.start = IF pool.start = 0 /\ pool.elapsed = 0 THEN e ELSE pool.start
      /\ p.shares = pool.shares
  BY DEF SavedPool
<1> HIDE DEF p
<1>8. p.supply + p.validator + p.contributor + p.rollover
          = pool.supply + pool.validator + pool.contributor + pool.rollover
  BY <1>2, <1>3, <1>4, <1>6, SMTT(30)
<1>9. p.validator + p.contributor + p.rollover + ValidatorEmission + Distributed(counts)
          = pool.validator + pool.contributor + pool.rollover
  BY <1>2, <1>3, <1>6, SMTT(30)
<1> QED
  BY <1>5, <1>6, <1>7, <1>8, <1>9 DEF p

----------------------------------------------------------------------------
(* LedgerInv is inductive.                                                 *)

\* The sums over passkeys and over epochs range over finite sets.
LEMMA Finite ==
    /\ IsFiniteSet(Passkeys)
    /\ IsFiniteSet(Epochs)
    /\ Epochs \subseteq Nat \ {0}
    /\ \A w : IsFiniteSet(Owned(w)) /\ Owned(w) \subseteq Passkeys
<1>1. IsFiniteSet(Passkeys)
  BY EmissionsConstants
<1>2. IsFiniteSet(1 .. MaxEpoch)
  BY EmissionsConstants, FS_Interval, SMTT(30)
<1>3. Epochs \subseteq Nat \ {0}
  BY EmissionsConstants, SMTT(30) DEF Epochs
<1>4. ASSUME NEW w PROVE IsFiniteSet(Owned(w)) /\ Owned(w) \subseteq Passkeys
  BY <1>1, FS_Subset DEF Owned
<1> QED
  BY <1>1, <1>2, <1>3, <1>4 DEF Epochs

\* The terms of the sums are integers.
LEMMA TermsType ==
    ASSUME TypeOK
    PROVE  /\ \A k \in Passkeys :
                  /\ Unclaimed[k] = reward[k] + forgotten[k].reward
                  /\ Earned[k] = lifetime[k] + forgotten[k].lifetime
                  /\ SettledBy[k] = Settled(k)
                  /\ Settled(k) = Earned[k] - Unclaimed[k]
                  /\ {Unclaimed[k], Earned[k], reward[k]} \subseteq Nat
                  /\ SettledBy[k] \in Int
           /\ \A e \in Epochs :
                  /\ Recorded[e] = daily[e].total - daily[e].validator
                  /\ Recorded[e] \in Int
<1>1. ASSUME NEW k \in Passkeys
      PROVE  /\ reward[k] \in Nat /\ lifetime[k] \in Nat
             /\ forgotten[k].reward \in Nat /\ forgotten[k].lifetime \in Nat
  BY DEF TypeOK
<1>2. ASSUME NEW e \in Epochs
      PROVE  daily[e].total \in Nat /\ daily[e].validator \in Nat
  BY DEF TypeOK, DailyEmission
<1> QED
  BY <1>1, <1>2, SMTT(30) DEF Unclaimed, Earned, Recorded, SettledBy, Settled

\* The two properties in terms of these sums.
LEMMA SumForms ==
    /\ RewardsBacked <=>
           /\ moduleBalance = SumFunctionOnSet(Unclaimed, Passkeys)
           /\ SumFunctionOnSet(Earned, Passkeys) = SumFunctionOnSet(Recorded, Epochs)
    /\ ClaimsPaidToOwner <=>
           \A w \in Wallets : bank[w] = SumFunctionOnSet(SettledBy, Owned(w))
<1>1. RewardsBacked <=>
           /\ moduleBalance = SumFunctionOnSet(Unclaimed, Passkeys)
           /\ SumFunctionOnSet(Earned, Passkeys) = SumFunctionOnSet(Recorded, Epochs)
  BY DEF RewardsBacked, Unclaimed, Earned, Recorded
<1>2. ClaimsPaidToOwner <=>
           \A w \in Wallets : bank[w] = SumFunctionOnSet(SettledBy, Owned(w))
  BY DEF ClaimsPaidToOwner, SettledBy, Owned
<1> QED
  BY <1>1, <1>2

\* The same after a step.
LEMMA SumFormsNext ==
    /\ RewardsBacked' <=>
           /\ moduleBalance' = SumFunctionOnSet(Unclaimed', Passkeys)
           /\ SumFunctionOnSet(Earned', Passkeys) = SumFunctionOnSet(Recorded', Epochs)
    /\ ClaimsPaidToOwner' <=>
           \A w \in Wallets : bank'[w] = SumFunctionOnSet(SettledBy', Owned(w)')
<1>1. RewardsBacked' <=>
           /\ moduleBalance' = SumFunctionOnSet(Unclaimed', Passkeys)
           /\ SumFunctionOnSet(Earned', Passkeys) = SumFunctionOnSet(Recorded', Epochs)
  BY DEF RewardsBacked, Unclaimed, Earned, Recorded
<1>2. ClaimsPaidToOwner' <=>
           \A w \in Wallets : bank'[w] = SumFunctionOnSet(SettledBy', Owned(w)')
  BY DEF ClaimsPaidToOwner, SettledBy, Owned
<1> QED
  BY <1>1, <1>2

\* Genesis: no rewards, no records, full pools.
LEMMA InitLedgerInv == Init => LedgerInv
<1> SUFFICES ASSUME Init PROVE LedgerInv
  OBVIOUS
<1> USE DEF Init
<1>1. genesis.validator \in Nat /\ genesis.contributor \in Nat /\ genesis.shares \in BOOLEAN
  BY EmissionsConstants
<1>2. TypeOK
  <2>1. pool \in EmissionPool
    BY <1>1 DEF EmissionPool
  <2>2. alias \in [Passkeys -> StoredAlias] /\ params \in ParamChoices
    BY EmissionsConstants DEF IdentityInit
  <2>3. epoch \in 1 .. (MaxEpoch + 1)
    BY EmissionsConstants, SMTT(30)
  <2>4. daily \in [Epochs -> DailyEmission]
    BY DEF DailyEmission, NotEmitted
  <2>5. /\ reward \in [Passkeys -> Nat] /\ lifetime \in [Passkeys -> Nat]
        /\ bank \in [Wallets -> Nat] /\ moduleBalance \in Nat
        /\ forgotten \in [Passkeys -> [reward : Nat, lifetime : Nat]]
    OBVIOUS
  <2> QED
    BY <2>1, <2>2, <2>3, <2>4, <2>5 DEF TypeOK
<1>3. SupplyConserved
  BY <1>1, SMTT(30) DEF SupplyConserved
<1>4. RecordsFresh
  <2>1. Emitted = {}
    BY DEF Emitted, NotEmitted
  <2> QED
    BY <2>1, FS_EmptySet, SMTT(30) DEF RecordsFresh
<1>5. RewardsBacked
  <2>1. /\ \A k \in Passkeys : Unclaimed[k] = 0 /\ Earned[k] = 0
        /\ \A e \in Epochs : Recorded[e] = 0
    BY SMTT(30) DEF NotEmitted, Unclaimed, Earned, Recorded
  <2>2. /\ SumFunctionOnSet(Unclaimed, Passkeys) = 0
        /\ SumFunctionOnSet(Earned, Passkeys) = 0
        /\ SumFunctionOnSet(Recorded, Epochs) = 0
    BY <2>1, Finite, SumZero
  <2> QED
    BY <2>2, SumForms
<1>6. \A k \in Passkeys : Settled(k) = 0 /\ SettledBy[k] = 0
  BY SMTT(30) DEF Settled, SettledBy
<1>7. UnboundUnpaid
  BY <1>6 DEF UnboundUnpaid
<1>8. ClaimsPaidToOwner
  <2>1. ASSUME NEW w \in Wallets PROVE bank[w] = SumFunctionOnSet(SettledBy, Owned(w))
    BY <1>6, Finite, SumZero
  <2> QED
    BY <2>1, SumForms
<1> QED
  BY <1>2, <1>3, <1>4, <1>5, <1>7, <1>8 DEF LedgerInv

\* A mint credits every winner the same share to the unclaimed and the lifetime
\* reward, mints a coin for each unit credited and records the same amount, so
\* the three places keep agreeing; nothing is settled by it
\* (AddContributorReward, MintDailyEmission).
LEMMA MintSums ==
    ASSUME TypeOK, TypeOK', RewardsBacked, UnboundUnpaid, ClaimsPaidToOwner,
           NEW e \in Epochs, NEW counts, daily[e] = NotEmitted,
           MintBeforeSave(e, counts), UNCHANGED <<bank, alias, forgotten>>
    PROVE  RewardsBacked' /\ UnboundUnpaid' /\ ClaimsPaidToOwner'
<1> DEFINE W == Qualifying(counts)
           c == PerContributor(counts)
           Share == [k \in Passkeys |-> IF k \in W THEN c ELSE 0]
           Paid == Distributed(counts)
<1>1. W \in SUBSET Passkeys /\ c \in Nat /\ Paid \in Nat /\ Paid = c * Cardinality(W)
  BY QualifyingType, MintAmounts DEF Distributed
<1>2. SumFunctionOnSet(Share, Passkeys) = Paid
  <2> HIDE DEF c, W, Paid
  <2> QED
    BY <1>1, Finite, SumShares, SMTT(30)
<1>3. ASSUME NEW k \in Passkeys
      PROVE  /\ reward'[k] = reward[k] + Share[k]
             /\ lifetime'[k] = lifetime[k] + Share[k]
             /\ Share[k] \in Nat
  BY <1>1, SMTT(30) DEF MintBeforeSave, AddContributorReward, TypeOK
<1> HIDE DEF Share
<1>4. ASSUME NEW k \in Passkeys
      PROVE  /\ Unclaimed'[k] = Unclaimed[k] + Share[k]
             /\ Earned'[k] = Earned[k] + Share[k]
             /\ SettledBy'[k] = SettledBy[k]
             /\ Settled(k)' = Settled(k)
  <2>1. /\ reward[k] \in Nat /\ lifetime[k] \in Nat
        /\ forgotten[k].reward \in Nat /\ forgotten[k].lifetime \in Nat
    BY DEF TypeOK
  <2>2. forgotten'[k] = forgotten[k]
    OBVIOUS
  <2> QED
    BY <1>3, <2>1, <2>2, SMTT(30) DEF Unclaimed, Earned, SettledBy, Settled
<1>5. Recorded'[e] = Paid /\ Recorded[e] = 0
  <2>1. daily'[e].total = ValidatorEmission + Paid /\ daily'[e].validator = ValidatorEmission
    BY DEF MintBeforeSave, TotalEmitted, TypeOK
  <2> QED
    BY <1>1, <2>1, MintAmounts, SMTT(30) DEF Recorded, NotEmitted
<1>6. \A d \in Epochs : d # e => Recorded'[d] = Recorded[d]
  BY DEF Recorded, MintBeforeSave, TypeOK
<1>7. /\ \A k \in Passkeys : Unclaimed[k] \in Int /\ Earned[k] \in Int
      /\ \A d \in Epochs : Recorded[d] \in Int
  BY TermsType, SMTT(30)
<1> HIDE DEF Paid
<1>8. /\ SumFunctionOnSet(Unclaimed', Passkeys) = SumFunctionOnSet(Unclaimed, Passkeys) + Paid
      /\ SumFunctionOnSet(Earned', Passkeys) = SumFunctionOnSet(Earned, Passkeys) + Paid
  BY <1>2, <1>3, <1>4, <1>7, Finite, SumPlus, SMTT(30)
<1>9. SumFunctionOnSet(Recorded', Epochs) = SumFunctionOnSet(Recorded, Epochs) + Paid
  <2>1. Recorded'[e] \in Int
    BY <1>1, <1>5, SMTT(30)
  <2>2. SumFunctionOnSet(Recorded', Epochs)
            = SumFunctionOnSet(Recorded, Epochs) + (Recorded'[e] - Recorded[e])
    BY <2>1, <1>6, <1>7, Finite, SumChange
  <2> QED
    BY <1>1, <1>5, <2>2, SMTT(30)
<1>10. RewardsBacked'
  <2>1. moduleBalance' = moduleBalance + Paid
    BY DEF MintBeforeSave, Paid
  <2>2. /\ moduleBalance = SumFunctionOnSet(Unclaimed, Passkeys)
        /\ SumFunctionOnSet(Earned, Passkeys) = SumFunctionOnSet(Recorded, Epochs)
    BY SumForms
  <2>3. /\ moduleBalance' = SumFunctionOnSet(Unclaimed', Passkeys)
        /\ SumFunctionOnSet(Earned', Passkeys) = SumFunctionOnSet(Recorded', Epochs)
    BY <1>8, <1>9, <2>1, <2>2
  <2> QED
    BY <2>3, SumFormsNext
<1>11. \A k \in Passkeys : ResolveIdentity(k)' = ResolveIdentity(k)
  BY DEF ResolveIdentity
<1>12. UnboundUnpaid'
  BY <1>4, <1>11 DEF UnboundUnpaid
<1>13. ClaimsPaidToOwner'
  <2>1. ASSUME NEW w \in Wallets PROVE bank'[w] = SumFunctionOnSet(SettledBy', Owned(w)')
    <3>1. Owned(w)' = Owned(w)
      BY <1>11 DEF Owned
    <3>2. bank'[w] = SumFunctionOnSet(SettledBy, Owned(w))
      BY SumForms
    <3>3. SumFunctionOnSet(SettledBy', Owned(w)) = SumFunctionOnSet(SettledBy, Owned(w))
      BY <1>4, Finite, SumSame, SMTT(30)
    <3> QED
      BY <3>1, <3>2, <3>3
  <2> QED
    BY <2>1, SumFormsNext
<1> QED
  BY <1>10, <1>12, <1>13

\* A mint, by the hook or by the authority, preserves the invariant.
LEMMA MintInv ==
    ASSUME LedgerInv, NEW e \in Epochs, NEW counts,
           MintBeforeSave(e, counts),
           pool' = IF pool.shares THEN SavedPool(e, counts) ELSE pool,
           UNCHANGED <<genesis, params, bank, alias, forgotten>>,
           epoch' \in 1 .. (MaxEpoch + 1),
           \/ pool.shares /\ epoch' = epoch
           \/ e = epoch /\ epoch' = epoch + 1
    PROVE  LedgerInv'
<1> USE DEF LedgerInv
<1>1. /\ PerContributor(counts) \in Nat /\ Distributed(counts) \in Nat
      /\ ValidatorEmission \in Nat
  BY MintAmounts
<1>2. /\ SavedPool(e, counts) \in EmissionPool
      /\ SavedPool(e, counts).epoch = e
      /\ SavedPool(e, counts).elapsed = pool.elapsed + 1
      /\ SavedPool(e, counts).start =
             IF pool.start = 0 /\ pool.elapsed = 0 THEN e ELSE pool.start
  BY SavedPoolFacts, SMTT(30)
<1>3. SavedPool(e, counts).shares = pool.shares
  BY SavedPoolFacts
<1>4. TypeOK'
  <2>1. reward' \in [Passkeys -> Nat] /\ lifetime' \in [Passkeys -> Nat]
    BY <1>1, SMTT(30) DEF TypeOK, MintBeforeSave, AddContributorReward
  <2>2. [minted |-> TRUE, total |-> TotalEmitted(counts), validator |-> ValidatorEmission]
            \in DailyEmission
    BY <1>1, SMTT(30) DEF DailyEmission, TotalEmitted
  <2>3. daily' \in [Epochs -> DailyEmission] /\ moduleBalance' \in Nat
    BY <1>1, <2>2, SMTT(30) DEF TypeOK, MintBeforeSave
  <2>4. pool' \in EmissionPool
    BY <1>2 DEF TypeOK
  <2> QED
    BY <2>1, <2>3, <2>4 DEF TypeOK
<1>5. e \notin Emitted /\ daily[e] = NotEmitted
  <2>1. e > pool.epoch /\ e \in Nat /\ pool.epoch \in Nat /\ epoch \in Nat
    BY Finite, SMTT(30) DEF MintBeforeSave, TypeOK, EmissionPool
  <2>2. \A d \in Emitted : d \in Nat
    BY Finite DEF Emitted
  <2>3. e \notin Emitted
    BY <2>1, <2>2, SMTT(30) DEF RecordsFresh
  <2> QED
    BY <2>3 DEF RecordsFresh
<1>6. Emitted' = Emitted \cup {e}
  BY DEF Emitted, MintBeforeSave, TypeOK
<1>7. RecordsFresh'
  <2>1. \A d \in Epochs \ Emitted' : daily'[d] = NotEmitted
    BY <1>6 DEF RecordsFresh, MintBeforeSave, TypeOK
  <2>2. pool'.shares = genesis'.shares /\ pool'.shares = pool.shares
    BY <1>3 DEF RecordsFresh
  <2>3. epoch \in Nat /\ e \in Nat /\ \A d \in Emitted : d \in Nat
    BY Finite, SMTT(30) DEF TypeOK, Emitted
  <2>4. CASE ~pool.shares
    <3>1. e = epoch /\ epoch' = epoch + 1 /\ \A d \in Emitted : d < epoch
      BY <2>4 DEF RecordsFresh
    <3>2. \A d \in Emitted' : d < epoch'
      BY <1>6, <2>3, <3>1, SMTT(30)
    <3> QED
      BY <2>1, <2>2, <2>4, <3>2 DEF RecordsFresh
  <2>5. CASE pool.shares
    <3>1. pool' = SavedPool(e, counts)
      BY <2>5
    <3>2. /\ pool.elapsed = Cardinality(Emitted)
          /\ pool.epoch >= epoch - 1
          /\ Emitted = {} => pool.epoch = 0 /\ pool.start = 0
          /\ Emitted # {} => {pool.epoch, pool.start} \subseteq Emitted
          /\ \A d \in Emitted : pool.start <= d /\ d <= pool.epoch
      BY <2>5 DEF RecordsFresh
    <3>3. IsFiniteSet(Emitted)
      BY Finite, FS_Subset DEF Emitted
    <3>4. pool'.elapsed = Cardinality(Emitted')
      BY <1>2, <1>5, <1>6, <3>1, <3>2, <3>3, FS_AddElement
    <3>5. pool.epoch \in Nat /\ e > pool.epoch
      BY DEF TypeOK, EmissionPool, MintBeforeSave
    <3>6. pool'.epoch = e /\ pool'.epoch >= epoch' - 1
      BY <1>2, <2>3, <3>1, <3>2, <3>5, SMTT(30)
    <3>7. Emitted' # {} /\ pool'.epoch \in Emitted'
      BY <1>6, <3>6
    <3>8. pool'.start \in Emitted' /\ \A d \in Emitted' : pool'.start <= d /\ d <= pool'.epoch
      <4>1. CASE Emitted = {}
        <5>1. pool.start = 0 /\ pool.elapsed = 0
          BY <3>2, <4>1, FS_EmptySet
        <5>2. pool'.start = e
          BY <1>2, <3>1, <5>1
        <5> QED
          BY <1>6, <2>3, <3>6, <4>1, <5>2, SMTT(30)
      <4>2. CASE Emitted # {}
        <5>1. pool.start \in Emitted /\ pool.start \in Nat \ {0}
          BY <3>2, <4>2, Finite DEF Emitted
        <5>2. pool'.start = pool.start
          BY <1>2, <3>1, <5>1
        <5> QED
          BY <1>6, <2>3, <3>2, <3>5, <3>6, <5>1, <5>2, SMTT(30)
      <4> QED
        BY <4>1, <4>2
    <3> QED
      BY <2>1, <2>2, <2>5, <3>4, <3>6, <3>7, <3>8 DEF RecordsFresh
  <2> QED
    BY <2>4, <2>5
<1>8. SupplyConserved'
  <2>1. LET p == SavedPool(e, counts)
        IN  p.supply + p.validator + p.contributor + p.rollover
                = pool.supply + pool.validator + pool.contributor + pool.rollover
    BY SavedPoolFacts
  <2>2. genesis' = genesis
    OBVIOUS
  <2> QED
    BY <1>3, <2>1, <2>2 DEF SupplyConserved
<1>9. RewardsBacked' /\ UnboundUnpaid' /\ ClaimsPaidToOwner'
  BY <1>4, <1>5, MintSums
<1> QED
  BY <1>4, <1>7, <1>8, <1>9

\* A claim moves one passkey's balance from the module account to the wallet it
\* resolves to, and settles it (ClaimContributorReward).
LEMMA ClaimInv ==
    ASSUME LedgerInv, NEW w \in Wallets, NEW k \in Passkeys,
           ClaimContributorReward(w, k)
    PROVE  LedgerInv'
<1> USE DEF LedgerInv
<1>1. /\ ResolveIdentity(k) = w /\ reward[k] \in Nat /\ moduleBalance \in Nat
      /\ moduleBalance >= reward[k] /\ moduleBalance' = moduleBalance - reward[k]
      /\ bank' = [bank EXCEPT ![w] = @ + reward[k]]
      /\ reward' = [reward EXCEPT ![k] = 0]
      /\ reward \in [Passkeys -> Nat] /\ bank \in [Wallets -> Nat]
      /\ UNCHANGED <<epoch, genesis, pool, params, lifetime, daily, alias, forgotten>>
  BY DEF ClaimContributorReward, TypeOK
<1>2. TypeOK'
  <2>1. moduleBalance' \in Nat /\ reward' \in [Passkeys -> Nat] /\ bank' \in [Wallets -> Nat]
    BY <1>1, SMTT(30)
  <2> QED
    BY <1>1, <2>1 DEF TypeOK
<1>3. SupplyConserved' /\ RecordsFresh'
  BY <1>1 DEF SupplyConserved, RecordsFresh, Emitted
<1>4. /\ Unclaimed'[k] = Unclaimed[k] - reward[k]
      /\ SettledBy'[k] = SettledBy[k] + reward[k]
      /\ Settled(k)' = Settled(k) + reward[k]
      /\ Unclaimed'[k] \in Int /\ SettledBy'[k] \in Int
  <2>1. /\ lifetime[k] \in Nat /\ forgotten[k].reward \in Nat /\ forgotten[k].lifetime \in Nat
    BY DEF TypeOK
  <2> QED
    BY <1>1, <2>1, SMTT(30) DEF Unclaimed, SettledBy, Settled
<1>5. ASSUME NEW j \in Passkeys, j # k
      PROVE  /\ Unclaimed'[j] = Unclaimed[j]
             /\ SettledBy'[j] = SettledBy[j]
             /\ Settled(j)' = Settled(j)
  BY <1>1, <1>5 DEF Unclaimed, SettledBy, Settled
<1>6. \A j \in Passkeys : Unclaimed[j] \in Int /\ SettledBy[j] \in Int
  BY TermsType, SMTT(30)
<1>7. RewardsBacked'
  <2>1. SumFunctionOnSet(Unclaimed', Passkeys)
            = SumFunctionOnSet(Unclaimed, Passkeys) + (Unclaimed'[k] - Unclaimed[k])
    BY <1>4, <1>5, <1>6, Finite, SumChange, SMTT(30)
  <2>2. moduleBalance = SumFunctionOnSet(Unclaimed, Passkeys)
    BY SumForms
  <2>3. Unclaimed'[k] - Unclaimed[k] = 0 - reward[k]
    BY <1>1, <1>4, <1>6, SMTT(30)
  <2>4. moduleBalance' = SumFunctionOnSet(Unclaimed', Passkeys)
    BY <1>1, <2>1, <2>2, <2>3, SMTT(30)
  <2>5. Earned' = Earned /\ Recorded' = Recorded
    BY <1>1 DEF Earned, Recorded
  <2> QED
    BY <2>4, <2>5, SumForms, SumFormsNext
<1>8. \A j : ResolveIdentity(j)' = ResolveIdentity(j)
  BY <1>1 DEF ResolveIdentity
<1>9. UnboundUnpaid'
  BY <1>1, <1>5, <1>8, EmissionsConstants DEF UnboundUnpaid
<1>10. ASSUME NEW v \in Wallets PROVE bank'[v] = SumFunctionOnSet(SettledBy', Owned(v)')
  <2>1. Owned(v)' = Owned(v)
    BY <1>8 DEF Owned
  <2>2. bank[v] = SumFunctionOnSet(SettledBy, Owned(v)) /\ bank[v] \in Nat
    BY SumForms DEF TypeOK
  <2>3. CASE v = w
    <3>1. k \in Owned(v) /\ IsFiniteSet(Owned(v)) /\ Owned(v) \subseteq Passkeys
      BY <1>1, <2>3, Finite DEF Owned
    <3>2. SumFunctionOnSet(SettledBy', Owned(v))
              = SumFunctionOnSet(SettledBy, Owned(v)) + (SettledBy'[k] - SettledBy[k])
      BY <1>4, <1>5, <1>6, <3>1, SumChange, SMTT(30)
    <3>3. bank'[v] = bank[v] + reward[k]
      BY <1>1, <2>3
    <3> QED
      BY <1>1, <1>4, <1>6, <2>1, <2>2, <3>2, <3>3, SMTT(30)
  <2>4. CASE v # w
    <3>1. \A j \in Owned(v) : SettledBy'[j] = SettledBy[j]
      BY <1>1, <1>5, <2>4 DEF Owned
    <3>2. SumFunctionOnSet(SettledBy', Owned(v)) = SumFunctionOnSet(SettledBy, Owned(v))
      BY <3>1, Finite, SumSame
    <3>3. bank'[v] = bank[v]
      BY <1>1, <2>4
    <3> QED
      BY <2>1, <2>2, <3>2, <3>3
  <2> QED
    BY <2>3, <2>4
<1>11. ClaimsPaidToOwner'
  BY <1>10, SumFormsNext
<1> QED
  BY <1>2, <1>3, <1>7, <1>9, <1>11

\* A migration hands a wallet a passkey for which nothing was ever paid
\* (MigrateIdentity).
LEMMA MigrateInv ==
    ASSUME LedgerInv, NEW w \in Wallets, NEW k \in Passkeys, Migrate(w, k)
    PROVE  LedgerInv'
<1> USE DEF LedgerInv
<1>1. /\ ~alias[k].migrated
      /\ alias' = [alias EXCEPT ![k] = [wallet |-> w, migrated |-> TRUE]]
      /\ alias \in [Passkeys -> StoredAlias]
      /\ UNCHANGED <<epoch, genesis, pool, params, rewardVars, bank, forgotten>>
  BY DEF Migrate, MigrateIdentity, TypeOK
<1>2. TypeOK'
  <2>1. alias' \in [Passkeys -> StoredAlias]
    BY <1>1 DEF StoredAlias
  <2> QED
    BY <1>1, <2>1 DEF TypeOK, rewardVars
<1>3. SupplyConserved' /\ RecordsFresh'
  BY <1>1 DEF SupplyConserved, RecordsFresh, Emitted, rewardVars
<1>4. /\ Unclaimed' = Unclaimed /\ Earned' = Earned /\ Recorded' = Recorded
      /\ SettledBy' = SettledBy /\ \A j : Settled(j)' = Settled(j)
  BY <1>1 DEF Unclaimed, Earned, Recorded, SettledBy, Settled, rewardVars
<1>5. RewardsBacked'
  BY <1>1, <1>4, SumForms, SumFormsNext DEF rewardVars
<1>6. /\ ResolveIdentity(k) = NoWallet /\ ResolveIdentity(k)' = w
      /\ \A j \in Passkeys : j # k => ResolveIdentity(j)' = ResolveIdentity(j)
  BY <1>1 DEF ResolveIdentity
<1>7. UnboundUnpaid'
  BY <1>4, <1>6, EmissionsConstants DEF UnboundUnpaid
<1>8. ASSUME NEW v \in Wallets PROVE bank'[v] = SumFunctionOnSet(SettledBy', Owned(v)')
  <2>1. bank'[v] = SumFunctionOnSet(SettledBy, Owned(v))
    BY <1>1, SumForms
  <2>2. CASE v = w
    <3>1. Owned(v)' = Owned(v) \cup {k} /\ k \notin Owned(v)
      BY <1>6, <2>2, EmissionsConstants DEF Owned
    <3>2. SettledBy[k] = 0
      BY <1>6 DEF UnboundUnpaid, SettledBy
    <3>3. \A j \in Owned(v) \cup {k} : SettledBy[j] \in Int
      BY TermsType, Finite
    <3>4. SumFunctionOnSet(SettledBy, Owned(v) \cup {k})
              = SettledBy[k] + SumFunctionOnSet(SettledBy, Owned(v))
      BY <3>1, <3>3, Finite, SumAdd
    <3>5. SumFunctionOnSet(SettledBy, Owned(v)) \in Int
      BY <3>3, Finite, SumInt
    <3> QED
      BY <1>4, <2>1, <3>1, <3>2, <3>4, <3>5, SMTT(30)
  <2>3. CASE v # w
    <3>1. Owned(v)' = Owned(v)
      BY <1>6, <2>3, EmissionsConstants DEF Owned
    <3> QED
      BY <1>4, <2>1, <3>1
  <2> QED
    BY <2>2, <2>3
<1>9. ClaimsPaidToOwner'
  BY <1>8, SumFormsNext
<1> QED
  BY <1>2, <1>3, <1>5, <1>7, <1>9

\* An import moves every pending and lifetime reward to the forgotten ones, so
\* each sum keeps its terms (InitGenesis, ExportGenesis).
LEMMA ImportInv ==
    ASSUME LedgerInv, GenesisRoundTrip
    PROVE  LedgerInv'
<1> USE DEF LedgerInv
<1>1. /\ params' = DefaultParams
      /\ UNCHANGED <<epoch, genesis, pool, daily, moduleBalance, bank, alias>>
  BY DEF GenesisRoundTrip
<1>2. ASSUME NEW k \in Passkeys
      PROVE  /\ reward[k] \in Nat /\ lifetime[k] \in Nat
             /\ forgotten[k].reward \in Nat /\ forgotten[k].lifetime \in Nat
             /\ reward'[k] = 0 /\ lifetime'[k] = 0
             /\ forgotten'[k].reward = forgotten[k].reward + reward[k]
             /\ forgotten'[k].lifetime = forgotten[k].lifetime + lifetime[k]
  BY DEF GenesisRoundTrip, ForgetRewards, TypeOK
<1>3. TypeOK'
  <2>1. /\ reward' \in [Passkeys -> Nat] /\ lifetime' \in [Passkeys -> Nat]
        /\ forgotten' \in [Passkeys -> [reward : Nat, lifetime : Nat]]
    BY <1>2, SMTT(30) DEF GenesisRoundTrip, ForgetRewards
  <2>2. params' \in ParamChoices
    BY <1>1, EmissionsConstants
  <2> QED
    BY <1>1, <2>1, <2>2 DEF TypeOK
<1>4. SupplyConserved' /\ RecordsFresh'
  BY <1>1 DEF SupplyConserved, RecordsFresh, Emitted
<1>5. ASSUME NEW k \in Passkeys
      PROVE  /\ Unclaimed'[k] = Unclaimed[k] /\ Earned'[k] = Earned[k]
             /\ SettledBy'[k] = SettledBy[k] /\ Settled(k)' = Settled(k)
  BY <1>2, SMTT(30) DEF Unclaimed, Earned, SettledBy, Settled
<1>6. RewardsBacked'
  <2>1. /\ SumFunctionOnSet(Unclaimed', Passkeys) = SumFunctionOnSet(Unclaimed, Passkeys)
        /\ SumFunctionOnSet(Earned', Passkeys) = SumFunctionOnSet(Earned, Passkeys)
    BY <1>5, Finite, SumSame
  <2>2. Recorded' = Recorded
    BY <1>1 DEF Recorded
  <2> QED
    BY <1>1, <2>1, <2>2, SumForms, SumFormsNext
<1>7. \A k : ResolveIdentity(k)' = ResolveIdentity(k)
  BY <1>1 DEF ResolveIdentity
<1>8. UnboundUnpaid'
  BY <1>5, <1>7 DEF UnboundUnpaid
<1>9. ASSUME NEW w \in Wallets PROVE bank'[w] = SumFunctionOnSet(SettledBy', Owned(w)')
  <2>1. Owned(w)' = Owned(w)
    BY <1>7 DEF Owned
  <2>2. SumFunctionOnSet(SettledBy', Owned(w)) = SumFunctionOnSet(SettledBy, Owned(w))
    BY <1>5, Finite, SumSame, SMTT(30)
  <2> QED
    BY <1>1, <2>1, <2>2, SumForms
<1>10. ClaimsPaidToOwner'
  BY <1>9, SumFormsNext
<1> QED
  BY <1>3, <1>4, <1>6, <1>8, <1>10

\* A step that leaves the ledger alone, whatever it does to the parameters and
\* (for a pool ahead of its time) to the running epoch, preserves the invariant.
LEMMA QuietInv ==
    ASSUME LedgerInv, params' \in ParamChoices,
           UNCHANGED <<genesis, pool, rewardVars, bank, alias, forgotten>>,
           \/ epoch' = epoch
           \/ epoch' = epoch + 1 /\ epoch \in Epochs /\ epoch <= pool.epoch
    PROVE  LedgerInv'
<1> USE DEF LedgerInv, rewardVars
<1>1. epoch \in Nat /\ epoch' \in 1 .. (MaxEpoch + 1) /\ pool.epoch \in Nat
  <2>1. epoch \in 1 .. (MaxEpoch + 1) /\ pool \in EmissionPool /\ MaxEpoch \in Nat
    BY EmissionsConstants DEF TypeOK
  <2>2. epoch \in Nat /\ epoch' \in 1 .. (MaxEpoch + 1)
    BY <2>1, SMTT(30) DEF Epochs
  <2> QED
    BY <2>1, <2>2 DEF EmissionPool
<1>2. TypeOK'
  BY <1>1 DEF TypeOK
<1>3. SupplyConserved'
  BY DEF SupplyConserved
<1>4. RecordsFresh'
  <2>1. Emitted' = Emitted /\ Emitted \subseteq Nat
    BY Finite DEF Emitted
  <2> QED
    BY <1>1, <2>1, SMTT(30) DEF RecordsFresh
<1>5. /\ Unclaimed' = Unclaimed /\ Earned' = Earned /\ Recorded' = Recorded
      /\ SettledBy' = SettledBy
      /\ \A k : Settled(k)' = Settled(k) /\ ResolveIdentity(k)' = ResolveIdentity(k)
      /\ \A w : Owned(w)' = Owned(w)
  BY DEF Unclaimed, Earned, Recorded, SettledBy, Settled, Owned, ResolveIdentity
<1>6. RewardsBacked' /\ ClaimsPaidToOwner'
  BY <1>5, SumForms, SumFormsNext
<1>7. UnboundUnpaid'
  BY <1>5 DEF UnboundUnpaid
<1> QED
  BY <1>2, <1>3, <1>4, <1>6, <1>7

\* Every step of the specification preserves the invariant.
LEMMA NextLedgerInv == LedgerInv /\ [Next]_vars => LedgerInv'
<1> SUFFICES ASSUME LedgerInv, [Next]_vars PROVE LedgerInv'
  OBVIOUS
<1>1. TypeOK
  BY DEF LedgerInv
<1>2. ASSUME NEW counts \in ApprovalCounts, EpochTick(counts) PROVE LedgerInv'
  <2>1. /\ epoch \in Epochs /\ epoch' = epoch + 1 /\ epoch' \in 1 .. (MaxEpoch + 1)
        /\ UNCHANGED <<genesis, params, bank, alias, forgotten>>
    BY <1>2, EmissionsConstants, SMTT(30) DEF EpochTick, AfterEpochEnd, Epochs
  <2>2. CASE epoch > pool.epoch
    <3>1. /\ MintBeforeSave(epoch, counts)
          /\ pool' = IF pool.shares THEN SavedPool(epoch, counts) ELSE pool
      BY <1>2, <2>2 DEF EpochTick, AfterEpochEnd
    <3> QED
      BY <2>1, <3>1, MintInv
  <2>3. CASE ~(epoch > pool.epoch)
    <3>1. UNCHANGED <<pool, rewardVars>>
      BY <1>2, <2>3 DEF EpochTick, AfterEpochEnd
    <3>2. epoch <= pool.epoch
      BY <1>1, <2>1, <2>3, Finite, SMTT(30) DEF TypeOK, EmissionPool
    <3>3. params' \in ParamChoices
      BY <1>1, <2>1 DEF TypeOK
    <3> QED
      BY <2>1, <3>1, <3>2, <3>3, QuietInv
  <2> QED
    BY <2>2, <2>3
<1>3. ASSUME NEW e \in Epochs, NEW counts \in ApprovalCounts, MintDailyEmission(e, counts)
      PROVE  LedgerInv'
  <2>1. /\ pool.shares /\ MintBeforeSave(e, counts)
        /\ pool' = IF pool.shares THEN SavedPool(e, counts) ELSE pool
        /\ UNCHANGED <<epoch, genesis, params, bank, alias, forgotten>>
    BY <1>3 DEF MintDailyEmission
  <2>2. epoch' \in 1 .. (MaxEpoch + 1)
    BY <1>1, <2>1 DEF TypeOK
  <2> QED
    BY <2>1, <2>2, MintInv
<1>4. ASSUME NEW p \in ParamChoices, UpdateParams(p) PROVE LedgerInv'
  BY <1>4, QuietInv DEF UpdateParams
<1>5. CASE UNCHANGED vars
  <2>1. params' \in ParamChoices
    BY <1>1, <1>5 DEF TypeOK, vars
  <2> QED
    BY <1>5, <2>1, QuietInv DEF vars, rewardVars
<1> QED
  BY <1>2, <1>3, <1>4, <1>5, ClaimInv, MigrateInv, ImportInv DEF Next

----------------------------------------------------------------------------
(* What follows for every behaviour.                                       *)

\* Rewards and supply: every claim can be paid, what is paid out goes to the
\* wallet a passkey is bound to, and no uvibe is created or lost, in any order of
\* mints, refused saves, claims, migrations, parameter changes and imports.
THEOREM RewardsCorrect ==
    Spec => [](TypeOK /\ SupplyConserved /\ RewardsBacked /\ ClaimsPaidToOwner)
<1>1. LedgerInv => TypeOK /\ SupplyConserved /\ RewardsBacked /\ ClaimsPaidToOwner
  BY DEF LedgerInv
<1> QED
  BY InitLedgerInv, NextLedgerInv, <1>1, PTL DEF Spec

\* The schedule counts the recorded epochs and names the first and the last of
\* them: the hook and the authority never emit an epoch twice and leave no ended
\* epoch behind (AfterEpochEnd, MintDailyEmission).
THEOREM ScheduleCorrect == Spec => []ScheduleMatchesRecords
<1>1. LedgerInv => ScheduleMatchesRecords
  <2> SUFFICES ASSUME LedgerInv, pool.shares
               PROVE  /\ pool.elapsed = Cardinality(Emitted)
                      /\ pool.epoch = Max(Emitted \cup {0})
                      /\ pool.start = IF Emitted = {} THEN 0 ELSE Min(Emitted)
                      /\ pool.epoch >= epoch - 1
    BY DEF ScheduleMatchesRecords, Emitted
  <2>1. /\ pool.elapsed = Cardinality(Emitted)
        /\ pool.epoch >= epoch - 1
        /\ Emitted = {} => pool.epoch = 0 /\ pool.start = 0
        /\ Emitted # {} => {pool.epoch, pool.start} \subseteq Emitted
        /\ \A e \in Emitted : pool.start <= e /\ e <= pool.epoch
    BY DEF LedgerInv, RecordsFresh
  <2>2. pool.epoch \in Nat /\ pool.start \in Nat /\ Emitted \subseteq Nat
    BY Finite DEF LedgerInv, TypeOK, EmissionPool, Emitted
  <2>3. ASSUME NEW x \in Emitted \cup {0}, \A y \in Emitted \cup {0} : x >= y
        PROVE  x = pool.epoch
    BY <2>1, <2>2, <2>3, SMTT(30)
  <2>4. pool.epoch \in Emitted \cup {0} /\ \A y \in Emitted \cup {0} : pool.epoch >= y
    BY <2>1, <2>2, SMTT(30)
  <2>5. pool.epoch = Max(Emitted \cup {0})
    BY <2>3, <2>4 DEF Max
  <2>6. ASSUME Emitted # {} PROVE pool.start = Min(Emitted)
    <3>1. pool.start \in Emitted /\ \A y \in Emitted : pool.start <= y
      BY <2>1, <2>6
    <3>2. ASSUME NEW x \in Emitted, \A y \in Emitted : x <= y PROVE x = pool.start
      BY <2>2, <3>1, <3>2, SMTT(30)
    <3> QED
      BY <3>1, <3>2 DEF Min
  <2> QED
    BY <2>1, <2>5, <2>6
<1> QED
  BY InitLedgerInv, NextLedgerInv, <1>1, PTL DEF Spec

----------------------------------------------------------------------------
(* The refinement: x/emissions implements the ledger.                      *)

\* the state of the ledger
owners == [k \in Passkeys |-> ResolveIdentity(k)]
reserveLeft == pool.validator + pool.contributor + pool.rollover

\* The ledger counts its winners as x/emissions does.
LEMMA LedgerCardinality ==
    ASSUME NEW S PROVE Ledger!Cardinality(S) = Cardinality(S)
  BY DEF Ledger!Cardinality, Cardinality

\* The genesis state maps to an initial state of the ledger.
LEMMA InitRefines == Init => Ledger!Init
<1> SUFFICES ASSUME Init PROVE Ledger!Init
  OBVIOUS
<1>1. LedgerInv
  BY InitLedgerInv
<1>2. reserveLeft \in Nat
  BY <1>1, SMTT(30) DEF LedgerInv, TypeOK, EmissionPool, reserveLeft
<1>3. owners \in [Passkeys -> Wallets \cup {NoWallet}]
  <2>1. \A k \in Passkeys : alias[k] \in StoredAlias
    BY <1>1 DEF LedgerInv, TypeOK
  <2> QED
    BY <2>1 DEF owners, ResolveIdentity, StoredAlias
<1>4. pool.epoch = 0
  BY DEF Init
<1> QED
  BY <1>2, <1>3, <1>4 DEF Init, Ledger!Init, owners, reserveLeft

\* A mint is a release of the ledger, or an unsaved one when the save is refused:
\* every winner gets the same share, and what is credited and what the validators
\* get come out of the reserve (MintDailyEmission, AfterEpochEnd).
LEMMA MintRefines ==
    ASSUME TypeOK, NEW e \in Epochs, NEW counts,
           MintBeforeSave(e, counts),
           pool' = IF pool.shares THEN SavedPool(e, counts) ELSE pool,
           UNCHANGED <<bank, alias>>
    PROVE  Ledger!Next
<1> DEFINE W == Qualifying(counts)
           c == PerContributor(counts)
<1>1. W \in SUBSET Passkeys
  BY QualifyingType
<1>2. /\ c \in Nat /\ c <= ContributorBudget + pool.rollover
      /\ ContributorBudget \in Nat /\ ContributorBudget <= pool.contributor
      /\ ValidatorEmission \in Nat
      /\ Distributed(counts) \in Nat /\ Rollover(counts) \in Nat
      /\ Distributed(counts) + Rollover(counts) = ContributorBudget + pool.rollover
  BY MintAmounts
<1>3. pool.validator \in Nat /\ pool.contributor \in Nat /\ pool.rollover \in Nat
  BY DEF TypeOK, EmissionPool
<1>4. reserveLeft \in Nat /\ c \in 0 .. reserveLeft
  BY <1>2, <1>3, SMTT(30) DEF reserveLeft
<1>5. c * Cardinality(W) = Distributed(counts)
  BY DEF Distributed
<1> HIDE DEF W, c
<1>6. Ledger!Credit(W, c)
  <2>1. reward' = [k \in Passkeys |-> reward[k] + IF k \in W THEN c ELSE 0]
    <3>1. reward' = [k \in Passkeys |-> IF k \in W THEN reward[k] + c ELSE reward[k]]
      BY DEF MintBeforeSave, AddContributorReward, W, c
    <3>2. \A k \in Passkeys : (IF k \in W THEN reward[k] + c ELSE reward[k])
                                  = reward[k] + IF k \in W THEN c ELSE 0
      BY <1>2, SMTT(30) DEF TypeOK
    <3> QED
      BY <3>1, <3>2
  <2>2. moduleBalance' = moduleBalance + c * Cardinality(W)
    BY <1>5 DEF MintBeforeSave
  <2>3. owners' = owners
    BY DEF owners, ResolveIdentity
  <2> QED
    BY <2>1, <2>2, <2>3, LedgerCardinality DEF Ledger!Credit, owners
<1>7. CASE pool.shares
  <2>1. pool' = SavedPool(e, counts)
    BY <1>7
  <2>2. /\ pool'.epoch = e /\ pool' \in EmissionPool
        /\ pool'.validator + pool'.contributor + pool'.rollover + ValidatorEmission
               + Distributed(counts) = pool.validator + pool.contributor + pool.rollover
    <3>1. LET p == SavedPool(e, counts)
          IN  /\ p.epoch = e /\ p \in EmissionPool
              /\ p.validator + p.contributor + p.rollover + ValidatorEmission
                     + Distributed(counts) = pool.validator + pool.contributor + pool.rollover
      BY SavedPoolFacts
    <3> QED
      BY <2>1, <3>1
  <2>3. pool'.validator \in Nat /\ pool'.contributor \in Nat /\ pool'.rollover \in Nat
    BY <2>2 DEF EmissionPool
  <2>4. /\ reserveLeft' \in 0 .. reserveLeft
        /\ Distributed(counts) <= reserveLeft - reserveLeft'
    BY <1>2, <1>3, <2>2, <2>3, SMTT(30) DEF reserveLeft
  <2>5. e > pool.epoch
    BY DEF MintBeforeSave
  <2>6. Ledger!Release(e, W, c)
    BY <1>5, <1>6, <2>2, <2>4, <2>5, LedgerCardinality DEF Ledger!Release, reserveLeft
  <2> QED
    BY <1>1, <1>4, <2>6 DEF Ledger!Next, reserveLeft
<1>8. CASE ~pool.shares
  <2>1. pool' = pool
    BY <1>8
  <2>2. Distributed(counts) <= reserveLeft
    BY <1>2, <1>3, SMTT(30) DEF reserveLeft
  <2>3. Ledger!UnsavedRelease(W, c)
    BY <1>5, <1>6, <2>1, <2>2, LedgerCardinality DEF Ledger!UnsavedRelease, reserveLeft
  <2> QED
    BY <1>1, <1>4, <2>3 DEF Ledger!Next, reserveLeft
<1> QED
  BY <1>7, <1>8

\* Every step of x/emissions is a step of the ledger or invisible to it.
LEMMA NextRefines == LedgerInv /\ [Next]_vars => [Ledger!Next]_Ledger!vars
<1> SUFFICES ASSUME LedgerInv, [Next]_vars PROVE [Ledger!Next]_Ledger!vars
  OBVIOUS
<1>1. TypeOK
  BY DEF LedgerInv
<1>2. ASSUME UNCHANGED <<pool, reward, moduleBalance, bank, alias>>
      PROVE  UNCHANGED Ledger!vars
  BY <1>2 DEF Ledger!vars, ResolveIdentity
<1>3. ASSUME NEW counts \in ApprovalCounts, EpochTick(counts)
      PROVE  [Ledger!Next]_Ledger!vars
  <2>1. epoch \in Epochs /\ UNCHANGED <<bank, alias>>
    BY <1>3 DEF EpochTick, AfterEpochEnd
  <2>2. CASE epoch > pool.epoch
    <3>1. /\ MintBeforeSave(epoch, counts)
          /\ pool' = IF pool.shares THEN SavedPool(epoch, counts) ELSE pool
      BY <1>3, <2>2 DEF EpochTick, AfterEpochEnd
    <3> QED
      BY <1>1, <2>1, <3>1, MintRefines
  <2>3. CASE ~(epoch > pool.epoch)
    <3>1. UNCHANGED <<pool, rewardVars>>
      BY <1>3, <2>3 DEF EpochTick, AfterEpochEnd
    <3> QED
      BY <1>2, <2>1, <3>1 DEF rewardVars
  <2> QED
    BY <2>2, <2>3
<1>4. ASSUME NEW e \in Epochs, NEW counts \in ApprovalCounts, MintDailyEmission(e, counts)
      PROVE  Ledger!Next
  <2>1. /\ MintBeforeSave(e, counts) /\ UNCHANGED <<bank, alias>>
        /\ pool' = IF pool.shares THEN SavedPool(e, counts) ELSE pool
    BY <1>4 DEF MintDailyEmission
  <2> QED
    BY <1>1, <2>1, MintRefines
<1>5. ASSUME NEW p \in ParamChoices, UpdateParams(p) PROVE UNCHANGED Ledger!vars
  BY <1>2, <1>5 DEF UpdateParams, rewardVars
<1>6. ASSUME NEW w \in Wallets, NEW k \in Passkeys, ClaimContributorReward(w, k)
      PROVE  Ledger!Next
  <2>1. owners[k] = w /\ owners' = owners
    BY <1>6 DEF ClaimContributorReward, owners, ResolveIdentity
  <2>2. reward[k] \in 1 .. moduleBalance
    BY <1>1, <1>6, SMTT(30) DEF ClaimContributorReward, TypeOK
  <2>3. Ledger!Pay(k)
    BY <1>6, <2>1, <2>2 DEF Ledger!Pay, ClaimContributorReward, owners
  <2> QED
    BY <2>3 DEF Ledger!Next
<1>7. ASSUME NEW w \in Wallets, NEW k \in Passkeys, Migrate(w, k)
      PROVE  Ledger!Next
  <2>1. /\ ~alias[k].migrated /\ alias \in [Passkeys -> StoredAlias]
        /\ alias' = [alias EXCEPT ![k] = [wallet |-> w, migrated |-> TRUE]]
    BY <1>1, <1>7 DEF Migrate, MigrateIdentity, TypeOK
  <2>2. owners[k] = NoWallet
    BY <2>1 DEF owners, ResolveIdentity
  <2>3. owners' = [owners EXCEPT ![k] = w]
    BY <2>1 DEF owners, ResolveIdentity
  <2>4. Ledger!Bind(k, w)
    BY <1>7, <2>2, <2>3 DEF Ledger!Bind, Migrate, rewardVars, owners
  <2> QED
    BY <2>4 DEF Ledger!Next
<1>8. ASSUME GenesisRoundTrip PROVE Ledger!Next
  <2>1. owners' = owners
    BY <1>8 DEF GenesisRoundTrip, owners, ResolveIdentity
  <2>2. Ledger!Forget
    BY <1>8, <2>1 DEF Ledger!Forget, GenesisRoundTrip, ForgetRewards, owners
  <2> QED
    BY <2>2 DEF Ledger!Next
<1>9. CASE UNCHANGED vars
  BY <1>2, <1>9 DEF vars
<1> QED
  BY <1>3, <1>4, <1>5, <1>6, <1>7, <1>8, <1>9 DEF Next

\* x/emissions implements the ledger that releases a fixed reserve epoch after
\* epoch and pays each balance to the one wallet that owns the passkey.
THEOREM LedgerImplemented == Spec => ImplementsLedger
  BY InitLedgerInv, NextLedgerInv, InitRefines, NextRefines, PTL
     DEF Spec, ImplementsLedger, Ledger!Spec

----------------------------------------------------------------------------
(* The validator schedule is flat.                                         *)

\* With r epochs left and between r * a and r * (a + 1) uvibe in the pool, one
\* epoch releases a or a + 1, and the bounds hold for r - 1 (the division by the
\* remaining epochs in computeDailyEmission).
LEMMA FlatStep ==
    ASSUME NEW r \in Nat \ {0}, NEW a \in Nat, NEW v \in Nat,
           r * a <= v, v <= r * (a + 1)
    PROVE  /\ v \div r \in {a, a + 1}
           /\ (r - 1) * a <= v - (v \div r)
           /\ v - (v \div r) <= (r - 1) * (a + 1)
<1> DEFINE q == v \div r
           m == v % r
<1>1. /\ q \in Nat /\ m \in Nat /\ v = q * r + m /\ m < r
  BY DivMod, SMTT(30)
<1>2. r * (a + 1) = r * a + r /\ (r - 1) * a = r * a - a
      /\ (r - 1) * (a + 1) = r * a + r - a - 1 /\ r * a \in Nat
  BY SMTT(30)
<1> HIDE DEF q, m
<1>3. CASE q < a
  <2>1. q + 1 <= a
    BY <1>1, <1>3, SMTT(30)
  <2>2. (q + 1) * r <= a * r /\ (q + 1) * r = q * r + r /\ a * r = r * a /\ q * r \in Nat
    BY <1>1, <2>1, SMTT(30)
  <2> QED
    BY <1>1, <1>2, <2>2, SMTT(30)
<1>4. CASE q = a
  <2>1. q * r = r * a
    BY <1>4, SMTT(30)
  <2> QED
    BY <1>1, <1>2, <1>4, <2>1, SMTT(30) DEF q
<1>5. CASE q = a + 1
  <2>1. q * r = r * a + r
    BY <1>5, SMTT(30)
  <2> QED
    BY <1>1, <1>2, <1>5, <2>1, SMTT(30) DEF q
<1>6. CASE q > a + 1
  <2>1. q >= a + 2
    BY <1>1, <1>6, SMTT(30)
  <2>2. q * r >= (a + 2) * r /\ (a + 2) * r = r * a + 2 * r /\ q * r \in Nat
    BY <1>1, <2>1, SMTT(30)
  <2> QED
    BY <1>1, <1>2, <2>2, SMTT(30)
<1> QED
  BY <1>1, <1>3, <1>4, <1>5, <1>6, SMTT(30)

\* While the schedule runs, what is left in the validator pool lies between the
\* average and one more for each remaining epoch.
FlatInv ==
    LET a == genesis.validator \div params.schedule
        r == params.schedule - pool.elapsed
    IN  (pool.shares /\ ParamChoices = {params} /\ params.schedule > 0) =>
            /\ pool.elapsed <= params.schedule =>
                   /\ r * a <= pool.validator
                   /\ pool.validator <= r * (a + 1)
                   /\ \A e \in Epochs : daily[e].minted => daily[e].validator \in {a, a + 1}
            /\ pool.elapsed >= params.schedule => pool.validator = 0

\* Genesis: the whole pool, no emission yet.
LEMMA InitFlatInv == Init => FlatInv
<1> SUFFICES ASSUME Init, params.schedule > 0 PROVE FlatInv
  BY DEF FlatInv
<1> DEFINE v == genesis.validator
           n == params.schedule
<1>1. v \in Nat /\ n \in Nat \ {0}
  BY EmissionsConstants, SMTT(30) DEF Init
<1>2. pool.validator = v /\ pool.elapsed = 0 /\ \A e \in Epochs : ~daily[e].minted
  BY DEF Init, NotEmitted
<1>3. n * (v \div n) <= v /\ v <= n * ((v \div n) + 1)
  <2> HIDE DEF v, n
  <2>1. /\ v \div n \in Nat /\ v % n \in Nat /\ v = (v \div n) * n + (v % n) /\ v % n < n
    BY <1>1, DivMod, SMTT(30)
  <2>2. n * ((v \div n) + 1) = (v \div n) * n + n /\ n * (v \div n) = (v \div n) * n
    BY <1>1, <2>1, SMTT(30)
  <2>3. (v \div n) * n \in Nat
    BY <1>1, <2>1, SMTT(30)
  <2> QED
    BY <1>1, <2>1, <2>2, <2>3, SMTT(30)
<1>4. n - 0 = n
  BY <1>1, SMTT(30)
<1> QED
  BY <1>1, <1>2, <1>3, <1>4, SMTT(30) DEF FlatInv

\* A mint whose pool is saved keeps the pool within the bounds, and records the
\* average or one more; after the schedule the pool is empty (MintDailyEmission).
LEMMA MintFlatInv ==
    ASSUME TypeOK, FlatInv, NEW e \in Epochs, NEW counts,
           MintBeforeSave(e, counts),
           pool' = IF pool.shares THEN SavedPool(e, counts) ELSE pool,
           UNCHANGED <<genesis, params>>
    PROVE  FlatInv'
<1>1. SavedPool(e, counts).shares = pool.shares
  BY SavedPoolFacts
<1>2. SUFFICES ASSUME pool.shares, ParamChoices = {params}, params.schedule > 0 PROVE FlatInv'
  BY <1>1 DEF FlatInv
<1> DEFINE n == params.schedule
           a == genesis.validator \div n
           v == pool.validator
           r == n - pool.elapsed
<1>3. /\ n \in Nat \ {0} /\ v \in Nat /\ pool.elapsed \in Nat /\ genesis.validator \in Nat
  BY <1>2, EmissionsConstants, SMTT(30) DEF TypeOK, EmissionPool
<1>4. a \in Nat
  BY <1>3, DivMod
<1>5. pool'.elapsed = pool.elapsed + 1 /\ pool'.validator = v - ValidatorEmission
  BY <1>2 DEF SavedPool
<1>6. daily'[e].validator = ValidatorEmission
  BY DEF MintBeforeSave, TypeOK
<1>7. \A d \in Epochs : d # e => daily'[d] = daily[d]
  BY DEF MintBeforeSave, TypeOK
<1>8. CASE pool.elapsed < n
  <2>1. r \in Nat \ {0} /\ ValidatorEmission = v \div r
    BY <1>3, <1>8, SMTT(30) DEF ValidatorEmission, RemainingEpochs
  <2>2. /\ r * a <= v /\ v <= r * (a + 1)
        /\ \A d \in Epochs : daily[d].minted => daily[d].validator \in {a, a + 1}
    <3>1. pool.elapsed <= n
      BY <1>3, <1>8, SMTT(30)
    <3> QED
      BY <1>2, <3>1 DEF FlatInv
  <2>3. /\ ValidatorEmission \in {a, a + 1}
        /\ (r - 1) * a <= v - ValidatorEmission
        /\ v - ValidatorEmission <= (r - 1) * (a + 1)
    <3> HIDE DEF r, a, v
    <3> QED
      BY <1>3, <1>4, <2>1, <2>2, FlatStep
  <2>4. n - pool'.elapsed = r - 1 /\ pool'.elapsed \in Nat
    BY <1>3, <1>5, SMTT(30)
  <2>5. \A d \in Epochs : daily'[d].minted => daily'[d].validator \in {a, a + 1}
    BY <1>6, <1>7, <2>2, <2>3
  <2>6. pool'.elapsed >= n => pool'.validator = 0
    <3>1. SUFFICES ASSUME pool'.elapsed >= n PROVE pool'.validator = 0
      OBVIOUS
    <3>2. r - 1 = 0
      BY <1>3, <1>5, <1>8, <3>1, SMTT(30)
    <3>3. 0 <= v - ValidatorEmission /\ v - ValidatorEmission <= 0
      BY <1>4, <2>3, <3>2, SMTT(30)
    <3>4. v - ValidatorEmission \in Int
      BY <1>3, <1>4, <2>3, SMTT(30)
    <3> QED
      BY <1>5, <3>3, <3>4, SMTT(30)
  <2> HIDE DEF r
  <2> QED
    BY <1>5, <2>3, <2>4, <2>5, <2>6 DEF FlatInv
<1>9. CASE pool.elapsed >= n
  <2>1. v = 0 /\ RemainingEpochs = 1
    BY <1>2, <1>3, <1>9, SMTT(30) DEF FlatInv, RemainingEpochs
  <2>2. ValidatorEmission = 0
    BY <2>1, SMTT(30) DEF ValidatorEmission
  <2>3. pool'.validator = 0 /\ ~(pool'.elapsed <= n)
    BY <1>3, <1>5, <1>9, <2>1, <2>2, SMTT(30)
  <2> QED
    BY <2>3 DEF FlatInv
<1> QED
  BY <1>3, <1>8, <1>9, SMTT(30)

\* Every step keeps the schedule flat.
LEMMA NextFlatInv == LedgerInv /\ LedgerInv' /\ FlatInv /\ [Next]_vars => FlatInv'
<1> SUFFICES ASSUME LedgerInv, LedgerInv', FlatInv, [Next]_vars PROVE FlatInv'
  OBVIOUS
<1>1. TypeOK /\ params' \in ParamChoices
  BY DEF LedgerInv, TypeOK
<1>2. ASSUME UNCHANGED <<genesis, pool, daily>> PROVE FlatInv'
  BY <1>1, <1>2 DEF FlatInv, LedgerInv, TypeOK
<1>3. ASSUME NEW counts \in ApprovalCounts, EpochTick(counts) PROVE FlatInv'
  <2>1. epoch \in Epochs /\ UNCHANGED <<genesis, params>>
    BY <1>3 DEF EpochTick, AfterEpochEnd
  <2>2. CASE epoch > pool.epoch
    <3>1. /\ MintBeforeSave(epoch, counts)
          /\ pool' = IF pool.shares THEN SavedPool(epoch, counts) ELSE pool
      BY <1>3, <2>2 DEF EpochTick, AfterEpochEnd
    <3> QED
      BY <1>1, <2>1, <3>1, MintFlatInv
  <2>3. CASE ~(epoch > pool.epoch)
    BY <1>2, <1>3, <2>1, <2>3 DEF EpochTick, AfterEpochEnd, rewardVars
  <2> QED
    BY <2>2, <2>3
<1>4. ASSUME NEW e \in Epochs, NEW counts \in ApprovalCounts, MintDailyEmission(e, counts)
      PROVE  FlatInv'
  <2>1. /\ MintBeforeSave(e, counts) /\ UNCHANGED <<genesis, params>>
        /\ pool' = IF pool.shares THEN SavedPool(e, counts) ELSE pool
    BY <1>4 DEF MintDailyEmission
  <2> QED
    BY <1>1, <2>1, MintFlatInv
<1>5. ASSUME NEW w \in Wallets, NEW k \in Passkeys,
             Migrate(w, k) \/ ClaimContributorReward(w, k)
      PROVE  FlatInv'
  BY <1>2, <1>5 DEF Migrate, ClaimContributorReward, rewardVars
<1>6. CASE \E p \in ParamChoices : UpdateParams(p)
  BY <1>2, <1>6 DEF UpdateParams, rewardVars
<1>7. CASE GenesisRoundTrip
  BY <1>2, <1>7 DEF GenesisRoundTrip
<1>8. CASE UNCHANGED vars
  BY <1>2, <1>8 DEF vars
<1> QED
  BY <1>3, <1>4, <1>5, <1>6, <1>7, <1>8 DEF Next

\* With unchanged parameters every epoch of the schedule releases the average of
\* the validator pool or one more, and the last one empties it, for every pool
\* and every length of the schedule (computeDailyEmission).
THEOREM ScheduleFlat == Spec => []FlatValidatorSchedule
<1>1. FlatInv => FlatValidatorSchedule
  BY DEF FlatInv, FlatValidatorSchedule
<1> QED
  BY InitLedgerInv, NextLedgerInv, InitFlatInv, NextFlatInv, <1>1, PTL DEF Spec
=============================================================================
