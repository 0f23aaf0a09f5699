--------------------------- MODULE EpochPipeline ---------------------------
(***************************************************************************)
(* x/memory and x/emissions under the hooks app.go registers with x/epochs:*)
(* at the end of epoch N the emissions hook runs first and asks x/memory   *)
(* for the approvals of N, then the memory hook runs; then N + 1 starts.   *)
(***************************************************************************)
EXTENDS Integers, FiniteSets

CONSTANTS
    NumOrgs, Keys, NoKey, Reporters, Wallets, NoWallet, Hashes, Moderators,
    ModeratorLists, OrgViews, PendingCaps, DefaultCap, MaxEpoch,
    GenesisAliases, EpochsPerYear, GenesisPools, ParamChoices, DefaultParams

ASSUME PipelineConstants ==
    /\ NumOrgs \in Nat
    /\ IsFiniteSet(Keys) /\ IsFiniteSet(Hashes) /\ IsFiniteSet(Wallets)
    /\ NoKey \notin Keys /\ NoWallet \notin Wallets
    /\ OrgViews \subseteq [leader : Keys, wallet : Wallets, contributors : SUBSET Keys]
    /\ ModeratorLists \subseteq [Moderators -> Nat]
    /\ PendingCaps \subseteq Nat /\ DefaultCap \in PendingCaps
    /\ MaxEpoch \in Nat \ {0} /\ EpochsPerYear \in Nat \ {0}
    /\ GenesisPools \subseteq [validator : Nat, contributor : Nat, shares : BOOLEAN]
    /\ ParamChoices \subseteq [schedule : Nat, annualCap : Nat, threshold : Nat]
    /\ DefaultParams \in ParamChoices
    /\ GenesisAliases \subseteq
           [Keys -> [wallet : Wallets \cup {NoWallet}, migrated : BOOLEAN]]

VARIABLES
    epoch,
    orgView, pending, approved, count, reports, currentEpoch, merkle,
    maxPending, committed, upheld, contributions, commitsSigned,
    leaderUpheld, modUpheld,
    genesis, pool, params, reward, lifetime, daily, moduleBalance, bank, alias,
    forgotten

M == INSTANCE Memory

\* x/memory's answers are computed below; the input set of Emissions is unused
E == INSTANCE Emissions WITH Passkeys <- Keys, ApprovalCounts <- [Keys -> Nat]

memoryVars ==
    <<orgView, pending, approved, count, reports, currentEpoch, merkle,
      maxPending, committed, upheld, contributions, commitsSigned,
      leaderUpheld, modUpheld>>
emissionsVars ==
    <<genesis, pool, params, reward, lifetime, daily, moduleBalance, bank, alias,
      forgotten>>
vars == <<epoch, memoryVars, emissionsVars>>

\* a bug: memories stamped with an earlier epoch are counted again
ApprovalsUpToEpoch(e) ==
    [k \in Keys |->
        Cardinality({p \in M!Orgs \X Hashes :
            /\ approved[p[1]][p[2]].contributor = k
            /\ approved[p[1]][p[2]].approvedAt <= e})]

\* memories of all orgs stamped with epoch e, per contributor; all COMMITTED
GetContributorsWithApprovalsInEpoch(e) ==
    [k \in Keys |->
        Cardinality({p \in M!Orgs \X Hashes :
            /\ approved[p[1]][p[2]].contributor = k
            /\ approved[p[1]][p[2]].approvedAt = e})]

Init == M!Init /\ E!Init

\* the order of MultiEpochHooks: emissions reads what memory has before its hook
EpochEnd ==
    /\ epoch \in 1 .. MaxEpoch
    /\ epoch' = epoch + 1
    /\ E!AfterEpochEnd(GetContributorsWithApprovalsInEpoch(epoch))
    /\ M!AfterEpochEnd(epoch)

AuthorityMint(e) ==
    /\ E!MintDailyEmission(e, GetContributorsWithApprovalsInEpoch(e))
    /\ UNCHANGED memoryVars

MemoryStep ==
    /\ \/ M!LeaderTx
       \/ \E o \in M!Orgs, view \in OrgViews : M!OrgStep(o, view)
       \/ \E cap \in PendingCaps : M!UpdateParams(cap)
    /\ UNCHANGED emissionsVars

EmissionsStep ==
    /\ \/ \E p \in ParamChoices : E!UpdateParams(p)
       \/ \E w \in Wallets, k \in Keys :
             E!Migrate(w, k) \/ E!ClaimContributorReward(w, k)
    /\ UNCHANGED memoryVars

Next ==
    \/ EpochEnd
    \/ \E e \in 1 .. MaxEpoch : AuthorityMint(e)
    \/ MemoryStep
    \/ EmissionsStep

\* x/epochs looks at the block time in every BeginBlock, so an epoch ends; no
\* transaction has to be sent
Fairness == WF_vars(EpochEnd)

Spec == Init /\ [][Next]_vars /\ Fairness

\* emissions by the epoch hook alone
HookSpec == Init /\ [][EpochEnd \/ MemoryStep \/ EmissionsStep]_vars

----------------------------------------------------------------------------
(* Properties.                                                             *)

\* What the epoch hooks do as wired: the stamp of a memory is always older than
\* any epoch still to be emitted, so no contributor ever qualifies and the
\* whole contributor budget accumulates in the rollover.
BudgetRollsOver ==
    pool.shares =>
        /\ \A k \in Keys : lifetime[k] = 0
        /\ pool.contributor + pool.rollover = genesis.contributor
        /\ moduleBalance = 0

\* With unchanged parameters the validator emission is flat, also when memories
\* are approved in between and the authority mints ahead of the hook: see
\* Emissions (MintDailyEmission).
FlatValidatorSchedule == E!FlatValidatorSchedule

\* Every epoch is settled in the end, by the two hooks alone: x/memory stamps
\* with it or a later one, and it or a later one has been emitted, unless the
\* pool that genesis seeded cannot be saved (AfterEpochEnd of both modules).
EveryEpochSettles ==
    \A e \in 1 .. MaxEpoch :
        <>(currentEpoch >= e /\ (genesis.shares => pool.epoch >= e))

\* The schedule pays out: the validator pool is empty in the end, unless the
\* authority minted an epoch ahead of its time and so skipped others
\* (MintDailyEmission; MaxEpoch is at least the schedule).
SchedulePaysOut ==
    <>(genesis.shares => (pool.validator = 0 \/ pool.elapsed < pool.epoch))

\* What the end of an epoch does, by the documents, with a memory approved in it.
\* README.md: emissions are a "flat even-split contributor reward over
\* approval-qualified contributors (approval count >= threshold)", so its
\* contributor has been rewarded.  docs/PDP.md: "x/memory builds Merkle roots over
\* the epoch's approved memories", so it is under its org's root.  One of the two
\* at least (AfterEpochEnd of both modules).
ApprovalsSettled ==
    \A o \in M!Orgs, h \in Hashes :
        LET memory == approved[o][h]
        IN  (/\ M!IsApproved(o, h)
             /\ memory.approvedIn < epoch
             /\ daily[memory.approvedIn].minted)
                => \/ lifetime[memory.contributor] > 0
                   \/ <<o, h>> \in merkle[o][memory.approvedIn].leaves
=============================================================================
