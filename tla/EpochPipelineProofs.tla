------------------------ MODULE EpochPipelineProofs ------------------------
(***************************************************************************)
(* Theorems about EpochPipeline.  Every step of the pipeline is a step of  *)
(* x/emissions and one of x/memory, or invisible to them, so what is       *)
(* proved of each module alone holds under the hooks as well.              *)
(***************************************************************************)
EXTENDS EpochPipeline, FiniteSetTheorems, TLAPS

\* provers of a leaf that names none
USE ZenonT(30), SMTT(30)

----------------------------------------------------------------------------
(* The pipeline implements both modules.                                   *)

\* x/memory's answer for an epoch counts memories of finitely many orgs.
LEMMA AnswerType ==
    ASSUME NEW e PROVE GetContributorsWithApprovalsInEpoch(e) \in [Keys -> Nat]
<1>1. IsFiniteSet(M!Orgs)
  <2>1. 0 \in Int /\ NumOrgs - 1 \in Int
    BY PipelineConstants, SMTT(30)
  <2> QED
    BY <2>1, FS_Interval DEF M!Orgs
<1>2. IsFiniteSet(M!Orgs \X Hashes)
  BY <1>1, PipelineConstants, FS_Product
<1> DEFINE of(k) == {p \in M!Orgs \X Hashes :
                        /\ approved[p[1]][p[2]].contributor = k
                        /\ approved[p[1]][p[2]].approvedAt = e}
<1>3. ASSUME NEW k \in Keys PROVE Cardinality(of(k)) \in Nat
  <2>1. of(k) \subseteq M!Orgs \X Hashes
    OBVIOUS
  <2> HIDE DEF of
  <2> QED
    BY <1>2, <2>1, FS_Subset, FS_CardinalityType
<1>4. GetContributorsWithApprovalsInEpoch(e) = [k \in Keys |-> Cardinality(of(k))]
  BY DEF GetContributorsWithApprovalsInEpoch
<1> HIDE DEF of
<1> QED
  BY <1>3, <1>4

\* Every step of the pipeline is a step of x/emissions or leaves it alone: the
\* hook and the authority mint with an answer x/memory can give.
LEMMA EmissionsSteps == [Next]_vars => [E!Next]_E!vars
<1> SUFFICES ASSUME [Next]_vars PROVE [E!Next]_E!vars
  OBVIOUS
<1>1. CASE EpochEnd
  <2>1. E!EpochTick(GetContributorsWithApprovalsInEpoch(epoch))
    BY <1>1 DEF EpochEnd, E!EpochTick, E!Epochs
  <2> QED
    BY <2>1, AnswerType DEF E!Next
<1>2. ASSUME NEW e \in 1 .. MaxEpoch, AuthorityMint(e) PROVE E!Next
  <2>1. E!MintDailyEmission(e, GetContributorsWithApprovalsInEpoch(e)) /\ e \in E!Epochs
    BY <1>2 DEF AuthorityMint, E!Epochs
  <2> QED
    BY <2>1, AnswerType DEF E!Next
<1>3. CASE MemoryStep
  <2>1. M!LeaderTx => epoch' = epoch
    <3>1. \A w, o, h, k : M!SubmitCommitment(w, o, h, k) => epoch' = epoch
      BY DEF M!SubmitCommitment
    <3>2. \A w, o, h, k : M!ApproveMemory(w, o, h, k) => epoch' = epoch
      BY DEF M!ApproveMemory
    <3>3. \A w, o, h, k, r, list : M!ReportMemory(w, o, h, k, r, list) => epoch' = epoch
      BY DEF M!ReportMemory
    <3> QED
      BY <3>1, <3>2, <3>3 DEF M!LeaderTx
  <2>2. \A o, view, cap : M!OrgStep(o, view) \/ M!UpdateParams(cap) => epoch' = epoch
    BY DEF M!OrgStep, M!UpdateParams
  <2> QED
    BY <1>3, <2>1, <2>2 DEF MemoryStep, emissionsVars, E!vars
<1>4. CASE EmissionsStep
  BY <1>4 DEF EmissionsStep, E!Next
<1>5. CASE UNCHANGED vars
  BY <1>5 DEF vars, emissionsVars, E!vars
<1> QED
  BY <1>1, <1>2, <1>3, <1>4, <1>5 DEF Next

\* Every step of the pipeline is a step of x/memory or leaves it alone.
LEMMA MemorySteps == [Next]_vars => [M!Next]_M!vars
<1> SUFFICES ASSUME [Next]_vars PROVE [M!Next]_M!vars
  OBVIOUS
<1>1. CASE EpochEnd
  BY <1>1 DEF EpochEnd, M!Next, M!EpochTick, M!Epochs
<1>2. ASSUME UNCHANGED memoryVars, epoch' = epoch PROVE UNCHANGED M!vars
  BY <1>2 DEF memoryVars, M!vars, M!stored, M!aggregates
<1>3. ASSUME NEW e, AuthorityMint(e) PROVE UNCHANGED M!vars
  BY <1>2, <1>3 DEF AuthorityMint, E!MintDailyEmission
<1>4. CASE MemoryStep
  BY <1>4 DEF MemoryStep, M!Next
<1>5. CASE EmissionsStep
  <2>1. epoch' = epoch
    BY <1>5 DEF EmissionsStep, E!UpdateParams, E!Migrate, E!ClaimContributorReward
  <2> QED
    BY <1>2, <1>5, <2>1 DEF EmissionsStep
<1>6. CASE UNCHANGED vars
  BY <1>2, <1>6 DEF vars
<1> QED
  BY <1>1, <1>3, <1>4, <1>5, <1>6 DEF Next

\* Under the hooks app.go registers, x/emissions and x/memory each behave as their
\* own specification says, so every property proved of either module alone holds
\* of the wired application.
THEOREM PipelineImplementsModules == Spec => E!Spec /\ M!Spec
<1>1. Init => E!Init /\ M!Init
  BY DEF Init
<1> QED
  BY <1>1, EmissionsSteps, MemorySteps, PTL DEF Spec, E!Spec, M!Spec

----------------------------------------------------------------------------
(* The contributor budget rolls over.                                      *)

\* What the argument takes from the two modules: amounts are natural numbers, the
\* stamp is 0 or the last ended epoch, and the saved pool is not behind it.
ModulesAgree ==
    /\ epoch \in Nat \ {0}
    /\ params.schedule \in Nat /\ params.annualCap \in Nat
    /\ pool.contributor \in Nat /\ pool.rollover \in Nat /\ pool.elapsed \in Nat
    /\ pool.epoch \in Nat /\ pool.shares \in BOOLEAN
    /\ lifetime \in [Keys -> Nat] /\ reward \in [Keys -> Nat]
    /\ currentEpoch \in {0, epoch - 1}
    /\ approved \in [M!Orgs -> [Hashes -> M!MemoryCommitment]]
    /\ pool.shares => pool.epoch >= epoch - 1
    /\ pool.shares = genesis.shares

\* Every approved memory is stamped with an epoch that has ended, or with 0.
StampsPast ==
    \A o \in M!Orgs, h \in Hashes : M!IsApproved(o, h) => approved[o][h].approvedAt < epoch

\* No memory carries the stamp of an epoch that is still to be emitted, so
\* nobody qualifies in it (GetContributorsWithApprovalsInEpoch).
LEMMA NobodyQualifies ==
    ASSUME ModulesAgree, StampsPast, pool.shares, NEW e \in Nat, e > pool.epoch
    PROVE  E!Qualifying(GetContributorsWithApprovalsInEpoch(e)) = {}
<1> DEFINE of(k) == {p \in M!Orgs \X Hashes :
                        /\ approved[p[1]][p[2]].contributor = k
                        /\ approved[p[1]][p[2]].approvedAt = e}
<1>1. e >= epoch
  BY SMTT(30) DEF ModulesAgree
<1>2. ASSUME NEW k \in Keys PROVE of(k) = {}
  <2> SUFFICES ASSUME NEW o \in M!Orgs, NEW h \in Hashes,
                      approved[o][h].contributor = k, approved[o][h].approvedAt = e
               PROVE  FALSE
    OBVIOUS
  <2>1. M!IsApproved(o, h)
    BY PipelineConstants DEF M!IsApproved
  <2> QED
    BY <1>1, <2>1, SMTT(30) DEF StampsPast, ModulesAgree
<1>3. Cardinality({}) = 0
  BY FS_EmptySet
<1>4. \A k \in Keys : GetContributorsWithApprovalsInEpoch(e)[k] = Cardinality(of(k))
  BY DEF GetContributorsWithApprovalsInEpoch
<1>5. \A k \in Keys : GetContributorsWithApprovalsInEpoch(e)[k] = 0
  <2> HIDE DEF of
  <2> QED
    BY <1>2, <1>3, <1>4
<1> QED
  BY <1>5, SMTT(30) DEF E!Qualifying

\* A mint in which nobody qualifies credits nothing, mints no coin and moves the
\* budget of the epoch to the rollover (MintDailyEmission).
LEMMA IdleMint ==
    ASSUME ModulesAgree, NEW e, NEW c, E!Qualifying(c) = {}, E!MintBeforeSave(e, c),
           pool' = E!SavedPool(e, c), moduleBalance = 0
    PROVE  /\ \A k \in Keys : lifetime'[k] = lifetime[k]
           /\ pool'.contributor + pool'.rollover = pool.contributor + pool.rollover
           /\ moduleBalance' = 0
<1>1. E!Distributed(c) = 0
  <2>1. E!Cardinality({}) = 0
    BY FS_EmptySet DEF E!Cardinality, Cardinality
  <2> QED
    BY <2>1, SMTT(30) DEF E!Distributed, E!PerContributor
<1>2. E!ContributorBudget \in Int
  <2>1. E!RemainingEpochs \in Nat \ {0}
    BY SMTT(30) DEF E!RemainingEpochs, ModulesAgree
  <2>2. /\ pool.contributor \div E!RemainingEpochs \in Int
        /\ params.annualCap \div EpochsPerYear \in Int
    BY <2>1, PipelineConstants, SMTT(30) DEF ModulesAgree
  <2> QED
    BY <2>2 DEF E!ContributorBudget
<1>3. /\ pool'.contributor = pool.contributor - E!ContributorBudget
      /\ pool'.rollover = pool.rollover + E!ContributorBudget
  BY DEF E!SavedPool, E!Rollover
<1>4. moduleBalance' = 0 + E!Distributed(c)
  BY DEF E!MintBeforeSave
<1>5. \A k \in Keys : lifetime'[k] = lifetime[k]
  BY DEF E!MintBeforeSave, E!AddContributorReward
<1> QED
  BY <1>1, <1>2, <1>3, <1>4, <1>5, SMTT(30) DEF ModulesAgree

\* Every step keeps the stamps in the past.
LEMMA NextStampsPast == ModulesAgree /\ StampsPast /\ [Next]_vars => StampsPast'
<1> SUFFICES ASSUME ModulesAgree, StampsPast, [Next]_vars PROVE StampsPast'
  OBVIOUS
<1>1. ASSUME epoch' \in {epoch, epoch + 1}, approved' = approved PROVE StampsPast'
  <2>1. ASSUME NEW o \in M!Orgs, NEW h \in Hashes PROVE approved[o][h].approvedAt \in Nat
    BY DEF ModulesAgree, M!MemoryCommitment
  <2> QED
    BY <1>1, <2>1, SMTT(30) DEF StampsPast, ModulesAgree, M!IsApproved
<1>2. CASE EpochEnd
  BY <1>1, <1>2 DEF EpochEnd, M!AfterEpochEnd
<1>3. ASSUME NEW e, AuthorityMint(e) PROVE StampsPast'
  BY <1>1, <1>3 DEF AuthorityMint, E!MintDailyEmission, memoryVars
<1>4. CASE EmissionsStep
  <2>1. epoch' = epoch
    BY <1>4 DEF EmissionsStep, E!UpdateParams, E!Migrate, E!ClaimContributorReward
  <2> QED
    BY <1>1, <1>4, <2>1 DEF EmissionsStep, memoryVars
<1>5. ASSUME NEW w, NEW o \in M!Orgs, NEW h \in Hashes, NEW k, M!ApproveMemory(w, o, h, k)
      PROVE  StampsPast'
  <2> DEFINE memory == M!ApprovedMemory(o, h, k)
  <2>1. approved' = [approved EXCEPT ![o][h] = memory] /\ epoch' = epoch
    BY <1>5 DEF M!ApproveMemory
  <2>2. memory.approvedAt < epoch
    BY SMTT(30) DEF M!ApprovedMemory, ModulesAgree
  <2> HIDE DEF memory
  <2> QED
    BY <2>1, <2>2 DEF StampsPast, ModulesAgree, M!IsApproved
<1>6. CASE MemoryStep
  <2>1. ASSUME NEW w, NEW o, NEW h, NEW k,
               \/ M!SubmitCommitment(w, o, h, k)
               \/ \E r, list : M!ReportMemory(w, o, h, k, r, list)
        PROVE  StampsPast'
    BY <1>1, <2>1 DEF M!SubmitCommitment, M!ReportMemory
  <2>2. CASE M!LeaderTx
    BY <1>5, <2>1, <2>2 DEF M!LeaderTx
  <2>3. ASSUME NEW o, NEW view, NEW cap, M!OrgStep(o, view) \/ M!UpdateParams(cap)
        PROVE  StampsPast'
    BY <1>1, <2>3 DEF M!OrgStep, M!UpdateParams, M!stored
  <2> QED
    BY <1>6, <2>2, <2>3 DEF MemoryStep
<1>7. CASE UNCHANGED vars
  BY <1>1, <1>7 DEF vars, memoryVars
<1> QED
  BY <1>2, <1>3, <1>4, <1>6, <1>7 DEF Next


\* Every step keeps the whole contributor budget in the pool and the rollover.
LEMMA NextBudget ==
    ModulesAgree /\ StampsPast /\ BudgetRollsOver /\ [Next]_vars => BudgetRollsOver'
<1> SUFFICES ASSUME ModulesAgree, StampsPast, BudgetRollsOver, [Next]_vars
             PROVE  BudgetRollsOver'
  OBVIOUS
<1>1. ASSUME UNCHANGED <<genesis, pool, lifetime>>,
             pool.shares => moduleBalance' = moduleBalance
      PROVE  BudgetRollsOver'
  BY <1>1 DEF BudgetRollsOver
<1>2. ASSUME NEW e \in Nat, pool.shares, genesis' = genesis,
             pool' = E!SavedPool(e, GetContributorsWithApprovalsInEpoch(e)),
             E!MintBeforeSave(e, GetContributorsWithApprovalsInEpoch(e))
      PROVE  BudgetRollsOver'
  <2> DEFINE c == GetContributorsWithApprovalsInEpoch(e)
  <2>1. e > pool.epoch
    BY <1>2 DEF E!MintBeforeSave
  <2>2. E!Qualifying(c) = {}
    BY <1>2, <2>1, NobodyQualifies
  <2>3. /\ \A k \in Keys : lifetime[k] = 0
        /\ pool.contributor + pool.rollover = genesis.contributor
        /\ moduleBalance = 0
    BY <1>2 DEF BudgetRollsOver
  <2>4. /\ \A k \in Keys : lifetime'[k] = lifetime[k]
        /\ pool'.contributor + pool'.rollover = pool.contributor + pool.rollover
        /\ moduleBalance' = 0
    <3> HIDE DEF c
    <3> QED
      BY <1>2, <2>2, <2>3, IdleMint DEF c
  <2> QED
    BY <1>2, <2>3, <2>4 DEF BudgetRollsOver
<1>3. CASE EpochEnd
  <2> DEFINE c == GetContributorsWithApprovalsInEpoch(epoch)
  <2>1. E!AfterEpochEnd(c) /\ epoch \in Nat /\ pool.epoch \in Nat
    BY <1>3 DEF EpochEnd, ModulesAgree
  <2>2. CASE epoch > pool.epoch /\ pool.shares
    BY <1>2, <2>1, <2>2 DEF E!AfterEpochEnd
  <2>3. CASE epoch > pool.epoch /\ ~pool.shares
    BY <2>1, <2>3 DEF E!AfterEpochEnd, BudgetRollsOver
  <2>4. CASE ~(epoch > pool.epoch)
    BY <1>1, <2>1, <2>4 DEF E!AfterEpochEnd, E!rewardVars
  <2> QED
    BY <2>2, <2>3, <2>4
<1>4. ASSUME NEW e \in 1 .. MaxEpoch, AuthorityMint(e) PROVE BudgetRollsOver'
  <2>1. e \in Nat
    BY PipelineConstants, SMTT(30)
  <2> QED
    BY <1>2, <1>4, <2>1 DEF AuthorityMint, E!MintDailyEmission
<1>5. CASE MemoryStep
  BY <1>1, <1>5 DEF MemoryStep, emissionsVars
<1>6. CASE EmissionsStep
  <2>1. ASSUME NEW p, E!UpdateParams(p) PROVE BudgetRollsOver'
    BY <1>1, <2>1 DEF E!UpdateParams, E!rewardVars
  <2>2. ASSUME NEW w, NEW k, E!Migrate(w, k) PROVE BudgetRollsOver'
    BY <1>1, <2>2 DEF E!Migrate, E!rewardVars
  <2>3. ASSUME NEW w, NEW k \in Keys, E!ClaimContributorReward(w, k) PROVE BudgetRollsOver'
    <3>1. reward[k] # 0 /\ moduleBalance >= reward[k] /\ UNCHANGED <<genesis, pool, lifetime>>
      BY <2>3 DEF E!ClaimContributorReward
    <3>2. ~pool.shares
      BY <3>1, SMTT(30) DEF BudgetRollsOver, ModulesAgree
    <3> QED
      BY <1>1, <3>1, <3>2
  <2> QED
    BY <1>6, <2>1, <2>2, <2>3 DEF EmissionsStep
<1>7. CASE UNCHANGED vars
  BY <1>1, <1>7 DEF vars, emissionsVars
<1> QED
  BY <1>3, <1>4, <1>5, <1>6, <1>7 DEF Next

\* An epoch that emissions' hook runs in is a positive number.
LEMMA EpochPositive == epoch \in 1 .. (MaxEpoch + 1) => epoch \in Nat \ {0}
  BY PipelineConstants, SMTT(30)

\* At genesis nothing is approved and the contributor budget is the one seeded
\* (InitGenesis of x/memory and x/emissions).
LEMMA RolloverStart == Init => StampsPast /\ BudgetRollsOver
<1> SUFFICES ASSUME Init PROVE StampsPast /\ BudgetRollsOver
  OBVIOUS
<1>1. StampsPast
  BY DEF Init, M!Init, M!EmptyMemories, M!NotApproved, M!IsApproved, StampsPast
<1>2. genesis.contributor \in Nat
  BY PipelineConstants DEF Init, E!Init
<1>3. BudgetRollsOver
  BY <1>2, SMTT(60) DEF Init, E!Init, BudgetRollsOver
<1> QED
  BY <1>1, <1>3

----------------------------------------------------------------------------
(* What is proved of the modules.                                          *)

\* instances with the theorems; the pipeline's own instances are the same
EP == INSTANCE EmissionsProofs WITH Passkeys <- Keys, ApprovalCounts <- [Keys -> Nat]

MP == INSTANCE MemoryProofs

\* The pipeline's constants are as x/emissions and x/memory assume.
LEMMA ComponentConstants == EP!EmissionsConstants /\ MP!MemoryConstants
<1>1. EP!EmissionsConstants
  BY PipelineConstants DEF EP!EmissionsConstants, EP!StoredAlias, EP!IsFiniteSet, IsFiniteSet
<1>2. MP!MemoryConstants
  BY PipelineConstants DEF MP!MemoryConstants, MP!IsFiniteSet, IsFiniteSet
<1> QED
  BY <1>1, <1>2

\* Both instances of Emissions have the same behaviours.
LEMMA SameEmissions ==
    /\ E!Init <=> EP!Init
    /\ E!Next <=> EP!Next
    /\ E!vars = EP!vars
<1>1. E!Init <=> EP!Init
  BY DEF E!Init, EP!Init, E!Epochs, EP!Epochs, E!NotEmitted,
         EP!NotEmitted, E!IdentityInit, EP!IdentityInit
<1>2. E!Next <=> EP!Next
  BY DEF E!Next, EP!Next, E!EpochTick, EP!EpochTick, E!MintDailyEmission,
         EP!MintDailyEmission, E!UpdateParams, EP!UpdateParams, E!Migrate,
         EP!Migrate, E!MigrateIdentity, EP!MigrateIdentity,
         E!ClaimContributorReward, EP!ClaimContributorReward,
         E!ResolveIdentity, EP!ResolveIdentity, E!GenesisRoundTrip,
         EP!GenesisRoundTrip, E!ForgetRewards, EP!ForgetRewards, E!Epochs,
         EP!Epochs, E!AfterEpochEnd, EP!AfterEpochEnd, E!MintBeforeSave,
         EP!MintBeforeSave, E!AddContributorReward, EP!AddContributorReward,
         E!Qualifying, EP!Qualifying, E!PerContributor, EP!PerContributor,
         E!Distributed, EP!Distributed, E!Rollover, EP!Rollover,
         E!TotalEmitted, EP!TotalEmitted, E!SavedPool, EP!SavedPool,
         E!ValidatorEmission, EP!ValidatorEmission, E!ContributorBudget,
         EP!ContributorBudget, E!RemainingEpochs, EP!RemainingEpochs,
         E!Cardinality, EP!Cardinality, E!rewardVars, EP!rewardVars
<1>3. E!vars = EP!vars
  BY DEF E!vars, EP!vars
<1> QED
  BY <1>1, <1>2, <1>3

\* Both instances of Memory have the same behaviours.
LEMMA SameMemory ==
    /\ M!Init <=> MP!Init
    /\ M!Next <=> MP!Next
    /\ M!vars = MP!vars
<1>1. M!Init <=> MP!Init
  BY DEF M!Init, MP!Init, M!EmptyPending, MP!EmptyPending,
         M!EmptyMemories, MP!EmptyMemories, M!EmptyRoots, MP!EmptyRoots,
         M!NotApproved, MP!NotApproved, M!NotRooted, MP!NotRooted, M!Zero,
         MP!Zero, M!LeaderIds, MP!LeaderIds, M!Orgs, MP!Orgs, M!Epochs,
         MP!Epochs
<1>2. M!Next <=> MP!Next
  BY DEF M!Next, MP!Next, M!LeaderTx, MP!LeaderTx, M!SubmitCommitment,
         MP!SubmitCommitment, M!IteratedPending, MP!IteratedPending,
         M!ApproveMemory, MP!ApproveMemory, M!ApprovedMemory,
         MP!ApprovedMemory, M!IsApproved, MP!IsApproved, M!ReportMemory,
         MP!ReportMemory, M!IncrementOrgCommittedMemories,
         MP!IncrementOrgCommittedMemories, M!IncrementOrgUpheldReports,
         MP!IncrementOrgUpheldReports, M!IncrementContribution,
         MP!IncrementContribution, M!IncrementLeaderChainCommit,
         MP!IncrementLeaderChainCommit, M!IncrementLeaderUpheldReport,
         MP!IncrementLeaderUpheldReport, M!IncrementModeratorUpheld,
         MP!IncrementModeratorUpheld, M!EpochTick, MP!EpochTick,
         M!AfterEpochEnd, MP!AfterEpochEnd, M!ApprovedIn, MP!ApprovedIn,
         M!MerkleLeaves, MP!MerkleLeaves, M!OrgStep, MP!OrgStep,
         M!UpdateParams, MP!UpdateParams, M!GenesisRoundTrip,
         MP!GenesisRoundTrip, M!EmptyPending, MP!EmptyPending, M!EmptyMemories,
         MP!EmptyMemories, M!EmptyRoots, MP!EmptyRoots, M!NotApproved,
         MP!NotApproved, M!NotRooted, MP!NotRooted, M!Zero, MP!Zero,
         M!LeaderIds, MP!LeaderIds, M!Orgs, MP!Orgs, M!Epochs, MP!Epochs,
         M!stored, MP!stored, M!aggregates, MP!aggregates, M!Cardinality,
         MP!Cardinality
<1>3. M!vars = MP!vars
  BY DEF M!vars, MP!vars, M!stored, MP!stored, M!aggregates, MP!aggregates
<1> QED
  BY <1>1, <1>2, <1>3

\* What is proved of the modules, for the pipeline.
LEMMA ComponentInvariants ==
    Spec => [](EP!LedgerInv /\ MP!MemoryInv /\ EP!FlatValidatorSchedule)
<1>1. Init => EP!Init /\ MP!Init
  BY SameEmissions, SameMemory DEF Init
<1>2. [Next]_vars => [EP!Next]_(EP!vars) /\ [MP!Next]_(MP!vars)
  <2>1. UNCHANGED E!vars => UNCHANGED EP!vars
    BY DEF E!vars, EP!vars
  <2>2. UNCHANGED M!vars => UNCHANGED MP!vars
    BY DEF M!vars, MP!vars, M!stored, MP!stored, M!aggregates, MP!aggregates
  <2> QED
    BY <2>1, <2>2, EmissionsSteps, MemorySteps, SameEmissions, SameMemory
<1>3. Spec => EP!Spec
  BY <1>1, <1>2, PTL DEF Spec, EP!Spec
<1>4. EP!Init => EP!LedgerInv
  BY ComponentConstants, EP!InitLedgerInv
<1>5. EP!LedgerInv /\ [EP!Next]_(EP!vars) => EP!LedgerInv'
  BY ComponentConstants, EP!NextLedgerInv
<1>6. MP!Init => MP!MemoryInv
  BY ComponentConstants, MP!InitMemoryInv
<1>7. MP!MemoryInv /\ [MP!Next]_(MP!vars) => MP!MemoryInv'
  BY ComponentConstants, MP!NextMemoryInv
<1>8. EP!Spec => []EP!FlatValidatorSchedule
  BY ComponentConstants, EP!ScheduleFlat, PTL
<1> QED
  BY <1>1, <1>2, <1>3, <1>4, <1>5, <1>6, <1>7, <1>8, PTL DEF Spec

\* With unchanged parameters the validator emission is flat and the schedule
\* empties the pool, whatever is approved and minted ahead of the hook.
THEOREM PipelineScheduleFlat == Spec => []FlatValidatorSchedule
<1>1. EP!FlatValidatorSchedule => FlatValidatorSchedule
  BY DEF EP!FlatValidatorSchedule, FlatValidatorSchedule, E!FlatValidatorSchedule,
         EP!Epochs, E!Epochs
<1> QED
  BY <1>1, ComponentInvariants, PTL

\* As the hooks are wired, no contributor is ever rewarded: an approval is stamped
\* with an epoch that was emitted before, and the budget accumulates in the
\* rollover, in every behaviour (GetContributorsWithApprovalsInEpoch,
\* MultiEpochHooks).
THEOREM BudgetAlwaysRollsOver == Spec => []BudgetRollsOver
<1>1. EP!LedgerInv /\ MP!MemoryInv => ModulesAgree
  <2> SUFFICES ASSUME EP!LedgerInv, MP!MemoryInv PROVE ModulesAgree
    OBVIOUS
  <2>1. /\ epoch \in 1 .. (MaxEpoch + 1) /\ params \in ParamChoices
        /\ pool \in EP!EmissionPool /\ lifetime \in [Keys -> Nat] /\ reward \in [Keys -> Nat]
    BY DEF EP!LedgerInv, EP!TypeOK
  <2>2. /\ params.schedule \in Nat /\ params.annualCap \in Nat
        /\ pool.contributor \in Nat /\ pool.rollover \in Nat /\ pool.elapsed \in Nat
        /\ pool.epoch \in Nat /\ pool.shares \in BOOLEAN
    BY <2>1, PipelineConstants DEF EP!EmissionPool
  <2>3. (pool.shares => pool.epoch >= epoch - 1) /\ pool.shares = genesis.shares
    BY DEF EP!LedgerInv, EP!RecordsFresh
  <2>4. /\ currentEpoch \in {0, epoch - 1}
        /\ approved \in [M!Orgs -> [Hashes -> M!MemoryCommitment]]
    BY DEF MP!MemoryInv, MP!TypeOK, MP!StampLags, MP!Orgs, M!Orgs, MP!MemoryCommitment,
           M!MemoryCommitment
  <2> QED
    BY <2>1, <2>2, <2>3, <2>4, EpochPositive DEF ModulesAgree
<1> QED
  BY <1>1, RolloverStart, ComponentInvariants, NextStampsPast, NextBudget, PTL DEF Spec
=============================================================================
