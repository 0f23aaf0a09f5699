------------------------------- MODULE Memory -------------------------------
(***************************************************************************)
(* x/memory: commitments submitted to an org, approved by its leader and   *)
(* reported afterwards, with the epoch hook that stamps and roots them.    *)
(* Orgs are numbered in the order of their store keys.  Signatures, hashes *)
(* and blob sizes that ApproveMemory verifies are checked before anything  *)
(* is written; a transaction failing one is rolled back, a stuttering step.*)
(* No validity record can exist in a running chain (only the keeper's      *)
(* InitGenesis writes one and the application never calls it), so          *)
(* CheckEpochExpiry finds nothing to archive and every memory stays        *)
(* COMMITTED.                                                              *)
(***************************************************************************)
EXTENDS Integers, FiniteSets, FiniteSetsExt

CONSTANTS
    NumOrgs,        \* orgs are 0 .. NumOrgs - 1, in store key order
    Keys,           \* public keys of contributors and leaders
    NoKey,          \* no public key
    Reporters,      \* public keys of reporters
    Wallets,        \* chain account addresses
    Hashes,         \* content hashes
    Moderators,     \* moderator public keys a report may name
    ModeratorLists, \* reports' lists of them: how often each is named
    OrgViews,       \* what x/org may answer: [leader, wallet, contributors]
    PendingCaps,    \* values of max_pending_per_org
    DefaultCap,     \* its default
    MaxEpoch        \* bound on epochs

ASSUME MemoryConstants ==
    /\ NumOrgs \in Nat
    /\ IsFiniteSet(Keys) /\ IsFiniteSet(Hashes) /\ IsFiniteSet(Wallets)
    /\ NoKey \notin Keys
    /\ ModeratorLists \subseteq [Moderators -> Nat]
    /\ OrgViews \subseteq [leader : Keys, wallet : Wallets, contributors : SUBSET Keys]
    /\ PendingCaps \subseteq Nat
    /\ DefaultCap \in PendingCaps
    /\ MaxEpoch \in Nat

VARIABLES
    epoch,          \* the running epoch (x/epochs)
    orgView,        \* x/org: leader, leader wallet, members who may contribute
    pending,        \* pending/{org}/{hash}: the contributor, or NoKey
    approved,       \* approved/{org}/{hash}: the memory commitment
    count,          \* count/{org}
    reports,        \* report/{org}/{hash}/{reporter}
    currentEpoch,   \* current_epoch
    merkle,         \* merkle/{org}/{epoch}: the leaves under the root
    maxPending,     \* the parameter max_pending_per_org
    committed,      \* x/org: TotalCommittedMemories
    upheld,         \* x/org: TotalUpheldReports
    contributions,  \* x/reputation: TotalApprovedMemories by contributor, org
    commitsSigned,  \* x/reputation: leader profile, TotalChainCommitsSigned
    leaderUpheld,   \* x/reputation: leader profile, TotalUpheldReportsCommitted
    modUpheld       \* x/reputation: ApprovalsLaterUpheldCount

aggregates == <<committed, upheld, contributions, commitsSigned, leaderUpheld, modUpheld>>
stored == <<pending, approved, count, reports, currentEpoch, merkle, maxPending>>
vars == <<epoch, orgView, stored, aggregates>>

Orgs == 0 .. (NumOrgs - 1)
Epochs == 1 .. MaxEpoch
LeaderIds == Keys \cup Wallets

\* epoch: copied from the pending commitment; approvedAt: ApprovedAtEpoch;
\* approvedIn: the epoch that was running, which the code does not store
MemoryCommitment ==
    [contributor : Keys \cup {NoKey}, leader : Keys \cup {NoKey},
     epoch : Nat, approvedAt : Nat, approvedIn : Nat]

NotApproved ==
    [contributor |-> NoKey, leader |-> NoKey, epoch |-> 0, approvedAt |-> 0,
     approvedIn |-> 0]

NotRooted == [rooted |-> FALSE, leaves |-> {}]

IsApproved(o, h) == approved[o][h].contributor # NoKey

ApprovedIn(o) == {h \in Hashes : IsApproved(o, h)}

PendingOf(o) == {h \in Hashes : pending[o][h] # NoKey}

ReportsOf(o) == {r \in reports : r[1] = o}

----------------------------------------------------------------------------
(* Handlers.                                                               *)

EmptyPending == [o \in Orgs |-> [h \in Hashes |-> NoKey]]

EmptyMemories == [o \in Orgs |-> [h \in Hashes |-> NotApproved]]

EmptyRoots == [o \in Orgs |-> [e \in Epochs |-> NotRooted]]

Zero(S) == [x \in S |-> 0]

Init ==
    /\ epoch = 1
    /\ orgView \in [Orgs -> OrgViews]
    /\ pending = EmptyPending
    /\ approved = EmptyMemories
    /\ count = Zero(Orgs)
    /\ reports = {}
    /\ currentEpoch = 0
    /\ merkle = EmptyRoots
    /\ maxPending = DefaultCap
    /\ committed = Zero(Orgs)
    /\ upheld = Zero(Orgs)
    /\ contributions = Zero(Keys \X Orgs)
    /\ commitsSigned = Zero(LeaderIds \X Orgs)
    /\ leaderUpheld = Zero(LeaderIds \X Orgs)
    /\ modUpheld = Zero(Moderators \X Orgs)

\* x/org changes an org's leadership or its contributors
OrgStep(o, view) ==
    /\ orgView' = [orgView EXCEPT ![o] = view]
    /\ UNCHANGED <<epoch, stored, aggregates>>

\* the iterator of SubmitCommitment starts at the org's first pending key and
\* has no end: it also counts the pending keys of later orgs, every report key
\* and the marker InitChainer writes to each store
IteratedPending(o) ==
    Cardinality({p \in Orgs \X Hashes : p[1] >= o /\ pending[p[1]][p[2]] # NoKey})
        + Cardinality(reports) + 1

\* a bug: the cap is not looked at
SubmitPastCap(signer, o, h, k) ==
    /\ signer = orgView[o].wallet
    /\ k \in orgView[o].contributors \cup {orgView[o].leader}
    /\ pending[o][h] = NoKey
    /\ pending' = [pending EXCEPT ![o][h] = k]
    /\ UNCHANGED <<epoch, orgView, approved, count, reports, currentEpoch,
                   merkle, maxPending, aggregates>>

SubmitCommitment(signer, o, h, k) ==
    /\ signer = orgView[o].wallet
    /\ k \in orgView[o].contributors \cup {orgView[o].leader}
    /\ pending[o][h] = NoKey
    /\ IteratedPending(o) < maxPending
    /\ pending' = [pending EXCEPT ![o][h] = k]
    /\ UNCHANGED <<epoch, orgView, approved, count, reports, currentEpoch,
                   merkle, maxPending, aggregates>>

\* the counters x/org and x/reputation keep for x/memory
IncrementOrgCommittedMemories(o) == committed' = [committed EXCEPT ![o] = @ + 1]

IncrementOrgUpheldReports(o) == upheld' = [upheld EXCEPT ![o] = @ + 1]

IncrementContribution(k, o) == contributions' = [contributions EXCEPT ![<<k, o>>] = @ + 1]

IncrementLeaderChainCommit(id, o) == commitsSigned' = [commitsSigned EXCEPT ![<<id, o>>] = @ + 1]

IncrementLeaderUpheldReport(id, o) == leaderUpheld' = [leaderUpheld EXCEPT ![<<id, o>>] = @ + 1]

\* called once per entry of the report's list, also when it repeats a moderator
IncrementModeratorUpheld(list, o) ==
    modUpheld' = [p \in Moderators \X Orgs |->
                     modUpheld[p] + (IF p[2] = o THEN list[p[1]] ELSE 0)]

\* SubmitCommitment stored the pending commitment with epoch 0, copied here
ApprovedMemory(o, h, leader) ==
    [contributor |-> pending[o][h], leader |-> leader, epoch |-> 0,
     approvedAt |-> currentEpoch, approvedIn |-> epoch]

\* a bug: a hash approved before is approved again
ReapproveMemory(signer, o, h, leader) ==
    /\ signer = orgView[o].wallet
    /\ pending[o][h] # NoKey
    /\ leader = orgView[o].leader
    /\ approved' = [approved EXCEPT ![o][h] = ApprovedMemory(o, h, leader)]
    /\ pending' = [pending EXCEPT ![o][h] = NoKey]
    /\ count' = [count EXCEPT ![o] = @ + 1]
    /\ IncrementOrgCommittedMemories(o)
    /\ IncrementContribution(pending[o][h], o)
    /\ IncrementLeaderChainCommit(leader, o)
    /\ UNCHANGED <<epoch, orgView, reports, currentEpoch, merkle, maxPending,
                   upheld, leaderUpheld, modUpheld>>

ApproveMemory(signer, o, h, leader) ==
    /\ signer = orgView[o].wallet
    /\ pending[o][h] # NoKey
    /\ leader = orgView[o].leader
    /\ ~ IsApproved(o, h)
    /\ approved' = [approved EXCEPT ![o][h] = ApprovedMemory(o, h, leader)]
    /\ pending' = [pending EXCEPT ![o][h] = NoKey]
    /\ count' = [count EXCEPT ![o] = @ + 1]
    /\ IncrementOrgCommittedMemories(o)
    /\ IncrementContribution(pending[o][h], o)
    /\ IncrementLeaderChainCommit(leader, o)
    /\ UNCHANGED <<epoch, orgView, reports, currentEpoch, merkle, maxPending,
                   upheld, leaderUpheld, modUpheld>>

\* a bug: a reporter may report the same memory again
RepeatableReport(signer, o, h, k, reporter, list) ==
    /\ signer = orgView[o].wallet
    /\ IsApproved(o, h)
    /\ upheld[o] <= Cardinality(Reporters \X Hashes)
    /\ reports' = reports \cup {<<o, h, reporter>>}
    /\ IncrementOrgUpheldReports(o)
    /\ IncrementContribution(k, o)
    /\ IncrementModeratorUpheld(list, o)
    /\ IncrementLeaderUpheldReport(signer, o)
    /\ UNCHANGED <<epoch, orgView, pending, approved, count, currentEpoch,
                   merkle, maxPending, committed, commitsSigned>>

\* a bug: the report is stored under the account that signed it
ReportBySigner(signer, o, h, k, reporter, list) ==
    /\ signer = orgView[o].wallet
    /\ IsApproved(o, h)
    /\ <<o, h, signer>> \notin reports
    /\ reports' = reports \cup {<<o, h, signer>>}
    /\ IncrementOrgUpheldReports(o)
    /\ IncrementContribution(k, o)
    /\ IncrementLeaderUpheldReport(signer, o)
    /\ UNCHANGED <<epoch, orgView, pending, approved, count, currentEpoch,
                   merkle, maxPending, committed, commitsSigned, modUpheld>>

\* contributor k and the approving moderators are the message's, unchecked; the
\* contributor's approved-memories counter is the one that is incremented, and
\* the leader profile is that of the signing wallet
ReportMemory(signer, o, h, k, reporter, list) ==
    /\ signer = orgView[o].wallet
    /\ IsApproved(o, h)
    /\ <<o, h, reporter>> \notin reports
    /\ reports' = reports \cup {<<o, h, reporter>>}
    /\ IncrementOrgUpheldReports(o)
    /\ IncrementContribution(k, o)
    /\ IncrementModeratorUpheld(list, o)
    /\ IncrementLeaderUpheldReport(signer, o)
    /\ UNCHANGED <<epoch, orgView, pending, approved, count, currentEpoch,
                   merkle, maxPending, committed, commitsSigned>>

UpdateParams(cap) ==
    /\ maxPending' = cap
    /\ UNCHANGED <<epoch, orgView, pending, approved, count, reports,
                   currentEpoch, merkle, aggregates>>

\* the iterator starts at the org's first memory and has no end: it also sees
\* the memories of later orgs; what else lies behind decodes to epoch 0 at most
MerkleLeaves(o, e) ==
    {p \in Orgs \X Hashes :
        p[1] >= o /\ IsApproved(p[1], p[2]) /\ approved[p[1]][p[2]].epoch = e}

\* a bug: the hook records the epoch that starts
StampsStartingEpoch(e) ==
    /\ currentEpoch' = e + 1
    /\ UNCHANGED <<orgView, pending, approved, count, reports, merkle, maxPending,
                   aggregates>>

\* the hook at the end of epoch e
AfterEpochEnd(e) ==
    /\ currentEpoch' = e
    /\ merkle' = [o \in Orgs |->
                     IF ApprovedIn(o) = {} THEN merkle[o]
                     ELSE [merkle[o] EXCEPT ![e] =
                              [rooted |-> TRUE, leaves |-> MerkleLeaves(o, e)]]]
    /\ UNCHANGED <<orgView, pending, approved, count, reports, maxPending, aggregates>>

EpochTick ==
    /\ epoch \in Epochs
    /\ epoch' = epoch + 1
    /\ AfterEpochEnd(epoch)

LeaderTx ==
    \E o \in Orgs, w \in Wallets, h \in Hashes, k \in Keys :
        \/ SubmitCommitment(w, o, h, k)
        \/ ApproveMemory(w, o, h, k)
        \/ \E reporter \in Reporters, list \in ModeratorLists :
              ReportMemory(w, o, h, k, reporter, list)

\* export and import: the module has no genesis the application would call, and
\* neither x/org nor x/reputation exports these aggregates
GenesisRoundTrip ==
    /\ pending' = EmptyPending
    /\ approved' = EmptyMemories
    /\ count' = Zero(Orgs)
    /\ reports' = {}
    /\ currentEpoch' = 0
    /\ merkle' = EmptyRoots
    /\ maxPending' = DefaultCap
    /\ committed' = Zero(Orgs)
    /\ upheld' = Zero(Orgs)
    /\ contributions' = Zero(Keys \X Orgs)
    /\ commitsSigned' = Zero(LeaderIds \X Orgs)
    /\ leaderUpheld' = Zero(LeaderIds \X Orgs)
    /\ modUpheld' = Zero(Moderators \X Orgs)
    /\ UNCHANGED <<epoch, orgView>>

Next ==
    \/ LeaderTx
    \/ EpochTick
    \/ \E o \in Orgs, view \in OrgViews : OrgStep(o, view)
    \/ \E cap \in PendingCaps : UpdateParams(cap)
    \/ GenesisRoundTrip

Spec == Init /\ [][Next]_vars

----------------------------------------------------------------------------
(* Properties.                                                             *)

\* Type correctness.
TypeOK ==
    /\ epoch \in 1 .. (MaxEpoch + 1)
    /\ orgView \in [Orgs -> OrgViews]
    /\ pending \in [Orgs -> [Hashes -> Keys \cup {NoKey}]]
    /\ approved \in [Orgs -> [Hashes -> MemoryCommitment]]
    /\ count \in [Orgs -> Nat]
    /\ reports \subseteq Orgs \X Hashes \X Reporters
    /\ currentEpoch \in Nat
    /\ merkle \in [Orgs -> [Epochs -> [rooted : BOOLEAN, leaves : SUBSET (Orgs \X Hashes)]]]
    /\ maxPending \in PendingCaps
    /\ committed \in [Orgs -> Nat]
    /\ upheld \in [Orgs -> Nat]
    /\ contributions \in [Keys \X Orgs -> Nat]
    /\ commitsSigned \in [LeaderIds \X Orgs -> Nat]
    /\ leaderUpheld \in [LeaderIds \X Orgs -> Nat]
    /\ modUpheld \in [Moderators \X Orgs -> Nat]

\* Three counters kept by three modules agree with the approved memories:
\* x/memory's count, x/org's TotalCommittedMemories and, leader by leader over
\* any transfers of leadership, x/reputation's TotalChainCommitsSigned.
ApprovalsCounted ==
    \A o \in Orgs :
        /\ count[o] = Cardinality(ApprovedIn(o))
        /\ committed[o] = count[o]
        /\ \A k \in Keys :
              commitsSigned[<<k, o>>] = Cardinality({h \in ApprovedIn(o) : approved[o][h].leader = k})

\* What ReportMemory counts, across transfers of leadership: x/org's
\* TotalUpheldReports is the number of stored reports of the org, the leader
\* profiles of x/reputation carry the same total between them, no moderator is
\* charged in an org without reports, and only approved memories have any.
ReportsCounted ==
    \A o \in Orgs :
        /\ upheld[o] = Cardinality(ReportsOf(o))
        /\ upheld[o] = SumFunctionOnSet([i \in LeaderIds |-> leaderUpheld[<<i, o>>]], LeaderIds)
        /\ \A m \in Moderators : modUpheld[<<m, o>>] > 0 => upheld[o] > 0
        /\ \A r \in ReportsOf(o) : IsApproved(o, r[2])

\* SubmitCommitment never takes an org above the cap in force.
SubmitWithinCap ==
    [][\A o \in Orgs : Cardinality(PendingOf(o)') > Cardinality(PendingOf(o))
                          => Cardinality(PendingOf(o)') <= maxPending]_vars

\* An approved memory is never changed or removed, also when its hash is
\* submitted again.  SubmitCommitment accepts the resubmission, which can then
\* never leave pending: ApproveMemory refuses it, nothing else removes it, and its
\* place under the cap is lost.  Only an export and import, which carries nothing
\* over, ends both.
ApprovedFinal ==
    [][GenesisRoundTrip \/ \A o \in Orgs, h \in Hashes : IsApproved(o, h) =>
           /\ approved'[o][h] = approved[o][h]
           /\ pending[o][h] # NoKey => pending'[o][h] = pending[o][h]]_vars

\* The epoch ApproveMemory stamps on a memory is older than the epoch it was
\* approved in: getCurrentEpoch returns the last epoch that ended, or 0 when none
\* has ended since an import.
StampLags ==
    /\ currentEpoch \in {0, epoch - 1}
    /\ \A o \in Orgs, h \in Hashes :
          IsApproved(o, h) => approved[o][h].approvedAt \in {0, approved[o][h].approvedIn - 1}

\* Whom ReportMemory charges by its own comments, for every stored report:
\* "committing leader's upheld report count" or "contributor's upheld report
\* count" goes up, the latter leaving the contributors' TotalApprovedMemories the
\* number of their approved memories.
ReportsCharged ==
    \A r \in reports :
        \/ leaderUpheld[<<approved[r[1]][r[2]].leader, r[1]>>] > 0
        \/ \A k \in Keys :
              contributions[<<k, r[1]>>] =
                  Cardinality({h \in Hashes : approved[r[1]][h].contributor = k})
=============================================================================
