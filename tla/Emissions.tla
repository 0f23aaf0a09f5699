----------------------------- MODULE Emissions -----------------------------
(***************************************************************************)
(* x/emissions: the emission schedule.  Each ended epoch releases a part   *)
(* of the validator pool (accounted, not minted) and a contributor budget  *)
(* split evenly over the contributors whose approvals in that epoch reach  *)
(* the threshold; a contributor claims the reward through x/identity.      *)
(* The approval counts are x/memory's answer for the epoch, an input here. *)
(***************************************************************************)
EXTENDS Integers, FiniteSets, FiniteSetsExt, Identity

CONSTANTS
    MaxEpoch,         \* bound on epochs
    EpochsPerYear,    \* types.EpochsPerYear (365)
    GenesisPools,     \* [validator, contributor, shares]: pools a genesis seeds
    ParamChoices,     \* [schedule, annualCap, threshold] governance may set
    DefaultParams,    \* the parameters genesis installs
    ApprovalCounts    \* per-passkey approval counts x/memory may report

ASSUME EmissionsConstants ==
    /\ IsFiniteSet(Passkeys)
    /\ NoWallet \notin Wallets
    /\ MaxEpoch \in Nat \ {0}
    /\ EpochsPerYear \in Nat \ {0}
    /\ GenesisPools \subseteq [validator : Nat, contributor : Nat, shares : BOOLEAN]
    /\ ParamChoices \subseteq [schedule : Nat, annualCap : Nat, threshold : Nat]
    /\ DefaultParams \in ParamChoices
    /\ ApprovalCounts \subseteq [Passkeys -> Nat]
    /\ GenesisAliases \subseteq [Passkeys -> StoredAlias]

VARIABLES
    epoch,          \* the running epoch (x/epochs)
    genesis,        \* the pools the genesis file seeded
    pool,           \* pool/: the stored emission pool
    params,         \* module parameters
    reward,         \* contribreward/{passkey}: unclaimed
    lifetime,       \* lifetimereward/{passkey}
    daily,          \* emission/{epoch}: the recorded daily emission
    moduleBalance,  \* coins of the emissions module account (x/bank)
    bank,           \* what each wallet was paid (x/bank)
    forgotten       \* per passkey what imports dropped, which no store holds

rewardVars == <<reward, lifetime, daily, moduleBalance>>
vars == <<epoch, genesis, pool, params, reward, lifetime, daily,
          moduleBalance, bank, alias, forgotten>>

Epochs == 1 .. MaxEpoch

\* shares: the operator and the validator share add up to 100
EmissionPool ==
    [epoch : Nat, validator : Nat, contributor : Nat, rollover : Nat,
     start : Nat, elapsed : Nat, supply : Nat, shares : BOOLEAN]

NotEmitted == [minted |-> FALSE, total |-> 0, validator |-> 0]

DailyEmission == [minted : BOOLEAN, total : Nat, validator : Nat]

----------------------------------------------------------------------------
(* The arithmetic of one epoch.                                            *)

\* a bug: the divisor does not shrink with the schedule
FixedDivisor == params.schedule

RemainingEpochs ==
    IF params.schedule > pool.elapsed THEN params.schedule - pool.elapsed ELSE 1

\* the clamp to the pool in the code never applies: the divisor is positive
ValidatorEmission == pool.validator \div RemainingEpochs

\* a bug: the cap is taken as the budget
CapAsBudget ==
    LET epochCap == params.annualCap \div EpochsPerYear
    IN  IF epochCap > 0 THEN epochCap ELSE pool.contributor \div RemainingEpochs

ContributorBudget ==
    LET flat == pool.contributor \div RemainingEpochs
        epochCap == params.annualCap \div EpochsPerYear
    IN  IF epochCap > 0 /\ flat > epochCap THEN epochCap ELSE flat

\* x/memory reports only contributors with at least one approval
Qualifying(counts) ==
    {k \in Passkeys : counts[k] > 0 /\ counts[k] >= params.threshold}

\* what each qualifying contributor gets, and what is carried forward
PerContributor(counts) ==
    IF Qualifying(counts) = {} THEN 0
    ELSE (ContributorBudget + pool.rollover) \div Cardinality(Qualifying(counts))

Distributed(counts) == PerContributor(counts) * Cardinality(Qualifying(counts))

\* a bug: the integer remainder of the split is dropped
DroppedRollover(counts) ==
    IF Qualifying(counts) = {} THEN pool.rollover + ContributorBudget ELSE 0

Rollover(counts) ==
    IF Qualifying(counts) = {} THEN pool.rollover + ContributorBudget
    ELSE (ContributorBudget + pool.rollover) % Cardinality(Qualifying(counts))

TotalEmitted(counts) == ValidatorEmission + Distributed(counts)

----------------------------------------------------------------------------
(* Handlers.                                                               *)

Init ==
    /\ epoch = 1
    /\ genesis \in GenesisPools
    /\ pool = [epoch |-> 0, validator |-> genesis.validator,
               contributor |-> genesis.contributor, rollover |-> 0, start |-> 0,
               elapsed |-> 0, supply |-> 0, shares |-> genesis.shares]
    /\ params = DefaultParams
    /\ reward = [k \in Passkeys |-> 0]
    /\ lifetime = [k \in Passkeys |-> 0]
    /\ daily = [e \in Epochs |-> NotEmitted]
    /\ moduleBalance = 0
    /\ bank = [w \in Wallets |-> 0]
    /\ forgotten = [k \in Passkeys |-> [reward |-> 0, lifetime |-> 0]]
    /\ IdentityInit

AddContributorReward(counts) ==
    LET Credit(balance) ==
            [k \in Passkeys |-> IF k \in Qualifying(counts)
                                THEN balance[k] + PerContributor(counts)
                                ELSE balance[k]]
    IN  /\ reward' = Credit(reward)
        /\ lifetime' = Credit(lifetime)

\* what MintDailyEmission has written before it saves the pool: rewards,
\* the minted coins and the daily record
MintBeforeSave(e, counts) ==
    /\ e > pool.epoch
    /\ AddContributorReward(counts)
    /\ moduleBalance' = moduleBalance + Distributed(counts)
    /\ daily' = [daily EXCEPT ![e] =
                    [minted |-> TRUE, total |-> TotalEmitted(counts),
                     validator |-> ValidatorEmission]]

SavedPool(e, counts) ==
    [epoch |-> e,
     validator |-> pool.validator - ValidatorEmission,
     contributor |-> pool.contributor - ContributorBudget,
     rollover |-> Rollover(counts),
     start |-> IF pool.start = 0 /\ pool.elapsed = 0 THEN e ELSE pool.start,
     elapsed |-> pool.elapsed + 1,
     supply |-> pool.supply + TotalEmitted(counts),
     shares |-> pool.shares]

\* MsgMintDailyEmission by the authority: a refused save rolls all of it back
MintDailyEmission(e, counts) ==
    /\ pool.shares
    /\ MintBeforeSave(e, counts)
    /\ pool' = SavedPool(e, counts)
    /\ UNCHANGED <<epoch, genesis, params, bank, alias, forgotten>>

\* a bug: an epoch in which nobody qualifies is not emitted
SkipsIdleEpoch(counts) ==
    /\ IF epoch > pool.epoch /\ Qualifying(counts) # {}
       THEN /\ MintBeforeSave(epoch, counts)
            /\ pool' = IF pool.shares THEN SavedPool(epoch, counts) ELSE pool
       ELSE UNCHANGED <<pool, rewardVars>>
    /\ UNCHANGED <<genesis, params, bank, alias, forgotten>>

\* the epoch hook of the epoch that ends: it swallows the error, so what was
\* written before a refused save stays
AfterEpochEnd(counts) ==
    /\ IF epoch > pool.epoch
       THEN /\ MintBeforeSave(epoch, counts)
            /\ pool' = IF pool.shares THEN SavedPool(epoch, counts) ELSE pool
       ELSE UNCHANGED <<pool, rewardVars>>
    /\ UNCHANGED <<genesis, params, bank, alias, forgotten>>

\* a bug: the claimed balance is not reset
ClaimWithoutReset(signer, k) ==
    /\ ResolveIdentity(k) = signer
    /\ reward[k] # 0
    /\ moduleBalance >= reward[k]
    /\ moduleBalance' = moduleBalance - reward[k]
    /\ bank' = [bank EXCEPT ![signer] = @ + reward[k]]
    /\ UNCHANGED <<epoch, genesis, pool, params, reward, lifetime, daily, alias, forgotten>>

ClaimContributorReward(signer, k) ==
    /\ ResolveIdentity(k) = signer
    /\ reward[k] # 0
    /\ moduleBalance >= reward[k]
    /\ moduleBalance' = moduleBalance - reward[k]
    /\ bank' = [bank EXCEPT ![signer] = @ + reward[k]]
    /\ reward' = [reward EXCEPT ![k] = 0]
    /\ UNCHANGED <<epoch, genesis, pool, params, lifetime, daily, alias, forgotten>>

UpdateParams(p) ==
    /\ params' = p
    /\ UNCHANGED <<epoch, genesis, pool, rewardVars, bank, alias, forgotten>>

Migrate(signer, k) ==
    /\ MigrateIdentity(signer, k)
    /\ UNCHANGED <<epoch, genesis, pool, params, rewardVars, bank, forgotten>>

\* x/epochs ends the running epoch and starts the next one
EpochTick(counts) ==
    /\ epoch \in Epochs
    /\ epoch' = epoch + 1
    /\ AfterEpochEnd(counts)

ForgetRewards ==
    /\ reward' = [k \in Passkeys |-> 0]
    /\ lifetime' = [k \in Passkeys |-> 0]
    /\ forgotten' = [k \in Passkeys |->
                        [reward |-> forgotten[k].reward + reward[k],
                         lifetime |-> forgotten[k].lifetime + lifetime[k]]]

\* a bug: the pool is not exported and import falls back to the default pool
PoollessRoundTrip ==
    /\ params' = DefaultParams
    /\ pool' = [pool EXCEPT !.epoch = 0, !.validator = genesis.validator,
                   !.contributor = genesis.contributor, !.rollover = 0,
                   !.start = 0, !.elapsed = 0, !.supply = 0]
    /\ ForgetRewards
    /\ UNCHANGED <<epoch, genesis, daily, moduleBalance, bank, alias>>

\* export and import: rewards are not part of the genesis state, parameters
\* are reset; balances and aliases belong to other modules and survive
GenesisRoundTrip ==
    /\ params' = DefaultParams
    /\ ForgetRewards
    /\ UNCHANGED <<epoch, genesis, pool, daily, moduleBalance, bank, alias>>

Next ==
    \/ \E counts \in ApprovalCounts : EpochTick(counts)
    \/ \E e \in Epochs, counts \in ApprovalCounts : MintDailyEmission(e, counts)
    \/ \E p \in ParamChoices : UpdateParams(p)
    \/ \E w \in Wallets, k \in Passkeys : Migrate(w, k) \/ ClaimContributorReward(w, k)
    \/ GenesisRoundTrip

Spec == Init /\ [][Next]_vars

----------------------------------------------------------------------------
(* Properties.                                                             *)

\* Type correctness: amounts are natural numbers; subtracting an emission
\* from a pool (a uint64) never goes below zero.
TypeOK ==
    /\ epoch \in 1 .. (MaxEpoch + 1)
    /\ genesis \in GenesisPools
    /\ pool \in EmissionPool
    /\ params \in ParamChoices
    /\ reward \in [Passkeys -> Nat]
    /\ lifetime \in [Passkeys -> Nat]
    /\ daily \in [Epochs -> DailyEmission]
    /\ moduleBalance \in Nat
    /\ bank \in [Wallets -> Nat]
    /\ alias \in [Passkeys -> StoredAlias]
    /\ forgotten \in [Passkeys -> [reward : Nat, lifetime : Nat]]

\* MintDailyEmission moves uvibe between the pools, the rollover and the
\* emitted supply and neither creates nor loses any, whatever the parameters
\* and the number of qualifying contributors; so no amount ever exceeds what
\* genesis seeded, and no uint64 sum can wrap.
SupplyConserved ==
    pool.shares =>
        pool.supply + pool.validator + pool.contributor + pool.rollover
            = genesis.validator + genesis.contributor

\* Rewards are kept in three places, and they agree after any mix of mints (also
\* one whose pool save is refused), claims and imports.  The coins minted into the
\* module account are exactly the unclaimed rewards and those an import forgot, so
\* every claim can be paid; the daily records MintDailyEmission writes account for
\* every reward AddContributorReward ever credited.
RewardsBacked ==
    /\ moduleBalance =
           SumFunctionOnSet([k \in Passkeys |-> reward[k] + forgotten[k].reward], Passkeys)
    /\ SumFunctionOnSet([k \in Passkeys |-> lifetime[k] + forgotten[k].lifetime], Passkeys)
           = SumFunctionOnSet([e \in Epochs |-> daily[e].total - daily[e].validator], Epochs)

\* what passkey k has earned and no longer has pending
Settled(k) == lifetime[k] - reward[k] + forgotten[k].lifetime - forgotten[k].reward

\* A wallet has been paid exactly what the passkeys bound to it have earned and
\* no longer have pending: ClaimContributorReward pays nothing twice or to
\* another wallet, and no import makes a paid reward pending again.
ClaimsPaidToOwner ==
    \A w \in Wallets :
        bank[w] = SumFunctionOnSet([k \in Passkeys |-> Settled(k)],
                                   {k \in Passkeys : ResolveIdentity(k) = w})

\* The schedule advances by one for each recorded emission, and the last
\* emission epoch is the latest recorded one: MintDailyEmission emits no epoch
\* twice and AfterEpochEnd leaves no ended epoch behind, across imports too.
ScheduleMatchesRecords ==
    LET emitted == {e \in Epochs : daily[e].minted}
    IN  pool.shares =>
            /\ pool.elapsed = Cardinality(emitted)
            /\ pool.epoch = Max(emitted \cup {0})
            /\ pool.start = IF emitted = {} THEN 0 ELSE Min(emitted)
            /\ pool.epoch >= epoch - 1

\* With unchanged parameters and a schedule, the validator emission is flat:
\* within the schedule every epoch releases the average or one more, and the schedule's
\* last epoch empties the pool.
FlatValidatorSchedule ==
    LET average == genesis.validator \div params.schedule
    IN  (pool.shares /\ ParamChoices = {params} /\ params.schedule > 0) =>
            /\ pool.elapsed <= params.schedule =>
                   \A e \in Epochs : daily[e].minted =>
                       daily[e].validator \in {average, average + 1}
            /\ pool.elapsed >= params.schedule => pool.validator = 0

Ledger ==
    INSTANCE EmissionLedger WITH
        last <- pool.epoch,
        reserve <- pool.validator + pool.contributor + pool.rollover,
        owed <- reward,
        vault <- moduleBalance,
        paid <- bank,
        owner <- [k \in Passkeys |-> ResolveIdentity(k)]

\* MintDailyEmission, AfterEpochEnd, ClaimContributorReward, MigrateIdentity and
\* the genesis round trip implement the ledger: each is one of its steps or
\* invisible to it, whatever the pools, the parameters and the approvals.
ImplementsLedger == Ledger!Spec
=============================================================================
