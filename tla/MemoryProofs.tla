---------------------------- MODULE MemoryProofs ----------------------------
(***************************************************************************)
(* Theorems about Memory, for all orgs, keys, wallets, contents, reporters *)
(* and caps.  MemoryInv is the inductive invariant.                        *)
(***************************************************************************)
EXTENDS Memory, SumTheorems, TLAPS

\* provers of a leaf that names none
USE ZenonT(30), SMTT(30)

\* the terms of the sum in ReportsCounted
UpheldBy(o) == [i \in LeaderIds |-> leaderUpheld[<<i, o>>]]

\* the moderators' part of it
ModsCharged(o) == \A m \in Moderators : modUpheld[<<m, o>>] > 0 => upheld[o] > 0

SignedBy(o, k) == {h \in ApprovedIn(o) : approved[o][h].leader = k}

\* What the properties need besides themselves: there are finitely many reports.
MemoryInv ==
    /\ TypeOK
    /\ ApprovalsCounted
    /\ ReportsCounted
    /\ StampLags
    /\ IsFiniteSet(reports)

----------------------------------------------------------------------------

\* The counts and the sums range over finite sets.
LEMMA MemoryFinite ==
    /\ IsFiniteSet(LeaderIds) /\ IsFiniteSet(Hashes)
    /\ \A o, k : /\ ApprovedIn(o) \subseteq Hashes /\ IsFiniteSet(ApprovedIn(o))
                 /\ PendingOf(o) \subseteq Hashes /\ IsFiniteSet(PendingOf(o))
                 /\ SignedBy(o, k) \subseteq Hashes /\ IsFiniteSet(SignedBy(o, k))
<1>1. IsFiniteSet(LeaderIds) /\ IsFiniteSet(Hashes)
  BY MemoryConstants, FS_Union DEF LeaderIds
<1>2. \A o, k : /\ ApprovedIn(o) \subseteq Hashes
                /\ PendingOf(o) \subseteq Hashes
                /\ SignedBy(o, k) \subseteq Hashes
  BY DEF ApprovedIn, PendingOf, SignedBy
<1> QED
  BY <1>1, <1>2, FS_Subset

\* The properties in terms of these names.
LEMMA CountForms ==
    /\ ApprovalsCounted <=>
           \A o \in Orgs :
               /\ count[o] = Cardinality(ApprovedIn(o))
               /\ committed[o] = count[o]
               /\ \A k \in Keys : commitsSigned[<<k, o>>] = Cardinality(SignedBy(o, k))
    /\ ReportsCounted <=>
           \A o \in Orgs :
               /\ upheld[o] = Cardinality(ReportsOf(o))
               /\ upheld[o] = SumFunctionOnSet(UpheldBy(o), LeaderIds)
               /\ ModsCharged(o)
               /\ \A r \in ReportsOf(o) : IsApproved(o, r[2])
<1>1. ApprovalsCounted <=>
           \A o \in Orgs :
               /\ count[o] = Cardinality(ApprovedIn(o))
               /\ committed[o] = count[o]
               /\ \A k \in Keys : commitsSigned[<<k, o>>] = Cardinality(SignedBy(o, k))
  BY DEF ApprovalsCounted, SignedBy
<1>2. ReportsCounted <=>
           \A o \in Orgs :
               /\ upheld[o] = Cardinality(ReportsOf(o))
               /\ upheld[o] = SumFunctionOnSet(UpheldBy(o), LeaderIds)
               /\ ModsCharged(o)
               /\ \A r \in ReportsOf(o) : IsApproved(o, r[2])
  BY DEF ReportsCounted, UpheldBy, ModsCharged
<1> QED
  BY <1>1, <1>2

\* The same after a step.
LEMMA CountFormsNext ==
    /\ ApprovalsCounted' <=>
           \A o \in Orgs :
               /\ count'[o] = Cardinality(ApprovedIn(o)')
               /\ committed'[o] = count'[o]
               /\ \A k \in Keys : commitsSigned'[<<k, o>>] = Cardinality(SignedBy(o, k)')
    /\ ReportsCounted' <=>
           \A o \in Orgs :
               /\ upheld'[o] = Cardinality(ReportsOf(o)')
               /\ upheld'[o] = SumFunctionOnSet(UpheldBy(o)', LeaderIds)
               /\ ModsCharged(o)'
               /\ \A r \in ReportsOf(o)' : IsApproved(o, r[2])'
<1>1. ApprovalsCounted' <=>
           \A o \in Orgs :
               /\ count'[o] = Cardinality(ApprovedIn(o)')
               /\ committed'[o] = count'[o]
               /\ \A k \in Keys : commitsSigned'[<<k, o>>] = Cardinality(SignedBy(o, k)')
  BY DEF ApprovalsCounted, SignedBy
<1>2. ReportsCounted' <=>
           \A o \in Orgs :
               /\ upheld'[o] = Cardinality(ReportsOf(o)')
               /\ upheld'[o] = SumFunctionOnSet(UpheldBy(o)', LeaderIds)
               /\ ModsCharged(o)'
               /\ \A r \in ReportsOf(o)' : IsApproved(o, r[2])'
  BY DEF ReportsCounted, UpheldBy, ModsCharged
<1> QED
  BY <1>1, <1>2

----------------------------------------------------------------------------
(* MemoryInv is inductive.                                                 *)

\* A store without memories, reports and counts: that of the genesis state, and
\* the one an import leaves.
Blank ==
    /\ epoch \in 1 .. (MaxEpoch + 1)
    /\ orgView \in [Orgs -> OrgViews]
    /\ pending = EmptyPending /\ approved = EmptyMemories
    /\ count = Zero(Orgs) /\ reports = {} /\ currentEpoch = 0
    /\ merkle = EmptyRoots /\ maxPending = DefaultCap
    /\ committed = Zero(Orgs) /\ upheld = Zero(Orgs)
    /\ contributions = Zero(Keys \X Orgs)
    /\ commitsSigned = Zero(LeaderIds \X Orgs)
    /\ leaderUpheld = Zero(LeaderIds \X Orgs)
    /\ modUpheld = Zero(Moderators \X Orgs)

\* Such a store satisfies the invariant.
LEMMA BlankInv == Blank => MemoryInv
<1> SUFFICES ASSUME Blank PROVE MemoryInv
  OBVIOUS
<1> USE DEF Blank
<1>1. TypeOK
  <2>1. pending \in [Orgs -> [Hashes -> Keys \cup {NoKey}]]
    BY DEF EmptyPending
  <2>2. approved \in [Orgs -> [Hashes -> MemoryCommitment]]
    BY DEF EmptyMemories, MemoryCommitment, NotApproved
  <2>3. merkle \in [Orgs -> [Epochs -> [rooted : BOOLEAN, leaves : SUBSET (Orgs \X Hashes)]]]
    BY DEF EmptyRoots, NotRooted
  <2>4. /\ contributions \in [Keys \X Orgs -> Nat]
        /\ commitsSigned \in [LeaderIds \X Orgs -> Nat]
        /\ leaderUpheld \in [LeaderIds \X Orgs -> Nat]
        /\ modUpheld \in [Moderators \X Orgs -> Nat]
        /\ count \in [Orgs -> Nat] /\ committed \in [Orgs -> Nat] /\ upheld \in [Orgs -> Nat]
    BY DEF Zero
  <2> QED
    BY <2>1, <2>2, <2>3, <2>4, MemoryConstants DEF TypeOK
<1>2. \A o \in Orgs, h \in Hashes : approved[o][h] = NotApproved
  BY DEF EmptyMemories
<1>3. \A o \in Orgs : ApprovedIn(o) = {} /\ \A k \in Keys : SignedBy(o, k) = {}
  BY <1>2, SMTT(30) DEF ApprovedIn, SignedBy, IsApproved, NotApproved
<1>4. ApprovalsCounted
  <2>1. \A o \in Orgs : /\ count[o] = 0 /\ committed[o] = 0
                        /\ \A k \in Keys : commitsSigned[<<k, o>>] = 0
    BY DEF Zero, LeaderIds
  <2>2. Cardinality({}) = 0
    BY FS_EmptySet
  <2>3. ASSUME NEW o \in Orgs
        PROVE  /\ count[o] = Cardinality(ApprovedIn(o))
               /\ committed[o] = count[o]
               /\ \A k \in Keys : commitsSigned[<<k, o>>] = Cardinality(SignedBy(o, k))
    BY <1>3, <2>1, <2>2
  <2> QED
    BY <2>3, CountForms
<1>5. ReportsCounted
  <2>1. ASSUME NEW o \in Orgs
        PROVE  /\ upheld[o] = 0 /\ ReportsOf(o) = {}
               /\ \A i \in LeaderIds : UpheldBy(o)[i] = 0
               /\ \A m \in Moderators : modUpheld[<<m, o>>] = 0
    BY DEF Zero, UpheldBy, ReportsOf
  <2>2. ASSUME NEW o \in Orgs PROVE SumFunctionOnSet(UpheldBy(o), LeaderIds) = 0
    BY <2>1, MemoryFinite, SumZero
  <2>3. ASSUME NEW o \in Orgs
        PROVE  /\ upheld[o] = Cardinality(ReportsOf(o))
               /\ upheld[o] = SumFunctionOnSet(UpheldBy(o), LeaderIds)
               /\ ModsCharged(o)
               /\ \A r \in ReportsOf(o) : IsApproved(o, r[2])
    <3>1. Cardinality({}) = 0
      BY FS_EmptySet
    <3>2. ModsCharged(o)
      BY <2>1, SMTT(30) DEF ModsCharged
    <3>3. \A r \in ReportsOf(o) : IsApproved(o, r[2])
      BY <2>1
    <3> QED
      BY <2>1, <2>2, <3>1, <3>2, <3>3
  <2> QED
    BY <2>3, CountForms
<1>6. StampLags
  BY <1>2, SMTT(30) DEF StampLags, IsApproved, NotApproved
<1> QED
  BY <1>1, <1>4, <1>5, <1>6, FS_EmptySet DEF MemoryInv

\* The genesis state.
LEMMA InitMemoryInv == Init => MemoryInv
<1> SUFFICES ASSUME Init PROVE MemoryInv
  OBVIOUS
<1>1. epoch \in 1 .. (MaxEpoch + 1)
  BY MemoryConstants, SMTT(30) DEF Init
<1> QED
  BY <1>1, BlankInv DEF Init, Blank

\* A step that touches no memory, report or counter preserves the invariant.
LEMMA MemoryQuietInv ==
    ASSUME MemoryInv, TypeOK',
           UNCHANGED <<epoch, approved, count, reports, currentEpoch, merkle, aggregates>>
    PROVE  MemoryInv'
<1> USE DEF MemoryInv, aggregates
<1>1. \A o, k, h : /\ ApprovedIn(o)' = ApprovedIn(o) /\ SignedBy(o, k)' = SignedBy(o, k)
                   /\ ReportsOf(o)' = ReportsOf(o) /\ UpheldBy(o)' = UpheldBy(o)
                   /\ ModsCharged(o)' = ModsCharged(o) /\ IsApproved(o, h)' = IsApproved(o, h)
  BY DEF ApprovedIn, SignedBy, ReportsOf, UpheldBy, ModsCharged, IsApproved
<1>2. ApprovalsCounted'
  BY <1>1, CountForms, CountFormsNext, SMTT(30)
<1>3. ReportsCounted'
  BY <1>1, CountForms, CountFormsNext, SMTT(30)
<1>4. StampLags'
  BY DEF StampLags, IsApproved
<1> QED
  BY <1>2, <1>3, <1>4

\* A submission fills one free pending slot (SubmitCommitment).
LEMMA SubmitInv ==
    ASSUME MemoryInv, NEW w, NEW o \in Orgs, NEW h \in Hashes, NEW k \in Keys,
           SubmitCommitment(w, o, h, k)
    PROVE  MemoryInv'
<1>1. pending' \in [Orgs -> [Hashes -> Keys \cup {NoKey}]]
  BY DEF MemoryInv, TypeOK, SubmitCommitment
<1>2. TypeOK'
  BY <1>1 DEF MemoryInv, TypeOK, SubmitCommitment, aggregates
<1> QED
  BY <1>2, MemoryQuietInv DEF SubmitCommitment

\* x/org's changes and a new cap.
LEMMA SettingsInv ==
    ASSUME MemoryInv,
           \/ \E o \in Orgs, view \in OrgViews : OrgStep(o, view)
           \/ \E cap \in PendingCaps : UpdateParams(cap)
    PROVE  MemoryInv'
<1>1. CASE \E o \in Orgs, view \in OrgViews : OrgStep(o, view)
  <2>1. TypeOK'
    BY <1>1 DEF MemoryInv, TypeOK, OrgStep, stored, aggregates
  <2> QED
    BY <1>1, <2>1, MemoryQuietInv DEF OrgStep, stored
<1>2. CASE \E cap \in PendingCaps : UpdateParams(cap)
  <2>1. TypeOK'
    BY <1>2 DEF MemoryInv, TypeOK, UpdateParams, aggregates
  <2> QED
    BY <1>2, <2>1, MemoryQuietInv DEF UpdateParams
<1> QED
  BY <1>1, <1>2

\* An approval moves one memory from pending to approved and adds one to each of
\* the counters of x/memory, x/org and x/reputation (ApproveMemory).
LEMMA ApproveInv ==
    ASSUME MemoryInv, NEW w, NEW o \in Orgs, NEW h \in Hashes, NEW l \in Keys,
           ApproveMemory(w, o, h, l)
    PROVE  MemoryInv'
<1> DEFINE k == pending[o][h]
           memory == ApprovedMemory(o, h, l)
<1>1. TypeOK
  BY DEF MemoryInv
<1>2. /\ ~IsApproved(o, h)
      /\ approved' = [approved EXCEPT ![o][h] = memory]
      /\ pending' = [pending EXCEPT ![o][h] = NoKey]
      /\ count' = [count EXCEPT ![o] = @ + 1]
      /\ committed' = [committed EXCEPT ![o] = @ + 1]
      /\ contributions' = [contributions EXCEPT ![<<k, o>>] = @ + 1]
      /\ commitsSigned' = [commitsSigned EXCEPT ![<<l, o>>] = @ + 1]
      /\ UNCHANGED <<epoch, orgView, reports, currentEpoch, merkle, maxPending,
                     upheld, leaderUpheld, modUpheld>>
  BY DEF ApproveMemory, IncrementOrgCommittedMemories, IncrementContribution,
         IncrementLeaderChainCommit
<1>3. k \in Keys
  BY <1>1, SMTT(30) DEF ApproveMemory, TypeOK
<1>4. /\ memory \in MemoryCommitment /\ memory.contributor = k /\ memory.leader = l
      /\ memory.epoch = 0 /\ memory.approvedAt = currentEpoch /\ memory.approvedIn = epoch
  BY <1>1, <1>3, SMTT(30) DEF ApprovedMemory, MemoryCommitment, TypeOK
<1> HIDE DEF memory, k
<1>5. /\ approved \in [Orgs -> [Hashes -> MemoryCommitment]] /\ count \in [Orgs -> Nat]
      /\ committed \in [Orgs -> Nat] /\ contributions \in [Keys \X Orgs -> Nat]
      /\ commitsSigned \in [LeaderIds \X Orgs -> Nat] /\ upheld \in [Orgs -> Nat]
      /\ epoch \in Nat
  BY <1>1, SMTT(30) DEF TypeOK
<1>6. TypeOK'
  <2>1. /\ approved' \in [Orgs -> [Hashes -> MemoryCommitment]] /\ count' \in [Orgs -> Nat]
        /\ committed' \in [Orgs -> Nat] /\ contributions' \in [Keys \X Orgs -> Nat]
        /\ commitsSigned' \in [LeaderIds \X Orgs -> Nat]
    BY <1>2, <1>3, <1>4, <1>5, SMTT(30) DEF LeaderIds
  <2>2. pending' \in [Orgs -> [Hashes -> Keys \cup {NoKey}]]
    BY <1>1, <1>2 DEF TypeOK
  <2> QED
    BY <1>1, <1>2, <2>1, <2>2 DEF TypeOK
<1>7. /\ approved'[o][h] = memory
      /\ \A p \in Orgs, g \in Hashes : p # o \/ g # h => approved'[p][g] = approved[p][g]
  BY <1>2, <1>5
<1>8. /\ IsApproved(o, h)'
      /\ \A p \in Orgs, g \in Hashes : p # o \/ g # h => IsApproved(p, g)' = IsApproved(p, g)
  BY <1>3, <1>4, <1>7, MemoryConstants DEF IsApproved
<1>9. ASSUME NEW p \in Orgs
      PROVE  /\ count'[p] = Cardinality(ApprovedIn(p)')
             /\ committed'[p] = count'[p]
             /\ \A j \in Keys : commitsSigned'[<<j, p>>] = Cardinality(SignedBy(p, j)')
  <2>1. /\ count[p] = Cardinality(ApprovedIn(p)) /\ committed[p] = count[p]
        /\ \A j \in Keys : commitsSigned[<<j, p>>] = Cardinality(SignedBy(p, j))
    BY CountForms DEF MemoryInv
  <2>2. CASE p = o
    <3>1. ApprovedIn(p)' = ApprovedIn(p) \cup {h} /\ h \notin ApprovedIn(p)
      BY <1>2, <1>8, <2>2 DEF ApprovedIn
    <3>2. Cardinality(ApprovedIn(p)') = Cardinality(ApprovedIn(p)) + 1
      BY <3>1, MemoryFinite, FS_AddElement
    <3>3. count'[p] = count[p] + 1 /\ committed'[p] = committed[p] + 1
      BY <1>2, <1>5, <2>2
    <3>4. ASSUME NEW j \in Keys PROVE commitsSigned'[<<j, p>>] = Cardinality(SignedBy(p, j)')
      <4>1. CASE j = l
        <5>1. SignedBy(p, j)' = SignedBy(p, j) \cup {h} /\ h \notin SignedBy(p, j)
          BY <1>4, <1>7, <2>2, <3>1, <4>1 DEF SignedBy, ApprovedIn
        <5>2. Cardinality(SignedBy(p, j)') = Cardinality(SignedBy(p, j)) + 1
          BY <5>1, MemoryFinite, FS_AddElement
        <5>3. commitsSigned'[<<j, p>>] = commitsSigned[<<j, p>>] + 1
          BY <1>2, <1>5, <2>2, <4>1 DEF LeaderIds
        <5> QED
          BY <2>1, <5>2, <5>3
      <4>2. CASE j # l
        <5>1. SignedBy(p, j)' = SignedBy(p, j)
          BY <1>4, <1>7, <2>2, <3>1, <4>2 DEF SignedBy, ApprovedIn
        <5>2. commitsSigned'[<<j, p>>] = commitsSigned[<<j, p>>]
          BY <1>2, <1>5, <4>2 DEF LeaderIds
        <5> QED
          BY <2>1, <5>1, <5>2
      <4> QED
        BY <4>1, <4>2
    <3> QED
      BY <2>1, <3>2, <3>3, <3>4
  <2>3. CASE p # o
    <3>1. ApprovedIn(p)' = ApprovedIn(p) /\ \A j \in Keys : SignedBy(p, j)' = SignedBy(p, j)
      BY <1>7, <1>8, <2>3 DEF ApprovedIn, SignedBy
    <3>2. /\ count'[p] = count[p] /\ committed'[p] = committed[p]
          /\ \A j \in Keys : commitsSigned'[<<j, p>>] = commitsSigned[<<j, p>>]
      BY <1>2, <1>5, <2>3 DEF LeaderIds
    <3> QED
      BY <2>1, <3>1, <3>2
  <2> QED
    BY <2>2, <2>3
<1>10. ASSUME NEW p \in Orgs
       PROVE  /\ upheld'[p] = Cardinality(ReportsOf(p)')
              /\ upheld'[p] = SumFunctionOnSet(UpheldBy(p)', LeaderIds)
              /\ ModsCharged(p)'
              /\ \A r \in ReportsOf(p)' : IsApproved(p, r[2])'
  <2>1. /\ upheld[p] = Cardinality(ReportsOf(p))
        /\ upheld[p] = SumFunctionOnSet(UpheldBy(p), LeaderIds)
        /\ ModsCharged(p)
        /\ \A r \in ReportsOf(p) : IsApproved(p, r[2])
    BY CountForms DEF MemoryInv
  <2>2. /\ ReportsOf(p)' = ReportsOf(p) /\ UpheldBy(p)' = UpheldBy(p)
        /\ upheld' = upheld /\ ModsCharged(p)' = ModsCharged(p)
    BY <1>2 DEF ReportsOf, UpheldBy, ModsCharged
  <2>3. \A r \in ReportsOf(p) : r[2] \in Hashes
    BY <1>1 DEF TypeOK, ReportsOf
  <2>4. \A r \in ReportsOf(p)' : IsApproved(p, r[2])'
    BY <1>8, <2>1, <2>2, <2>3
  <2> QED
    BY <2>1, <2>2, <2>4
<1>11. StampLags'
  BY <1>2, <1>4, <1>7, <1>8, SMTT(30) DEF MemoryInv, StampLags
<1>12. IsFiniteSet(reports')
  BY <1>2 DEF MemoryInv
<1> QED
  BY <1>6, <1>9, <1>10, <1>11, <1>12, CountFormsNext DEF MemoryInv

\* A report is stored once and adds one to the org's and to the signing wallet's
\* counter (ReportMemory).
LEMMA ReportInv ==
    ASSUME MemoryInv, NEW w \in Wallets, NEW o \in Orgs, NEW h \in Hashes, NEW k \in Keys,
           NEW reporter \in Reporters, NEW list \in ModeratorLists,
           ReportMemory(w, o, h, k, reporter, list)
    PROVE  MemoryInv'
<1> DEFINE new == <<o, h, reporter>>
<1>1. TypeOK /\ IsFiniteSet(reports)
  BY DEF MemoryInv
<1>2. /\ IsApproved(o, h) /\ new \notin reports /\ reports' = reports \cup {new}
      /\ upheld' = [upheld EXCEPT ![o] = @ + 1]
      /\ contributions' = [contributions EXCEPT ![<<k, o>>] = @ + 1]
      /\ leaderUpheld' = [leaderUpheld EXCEPT ![<<w, o>>] = @ + 1]
      /\ modUpheld' = [p \in Moderators \X Orgs |->
                          modUpheld[p] + (IF p[2] = o THEN list[p[1]] ELSE 0)]
      /\ UNCHANGED <<epoch, orgView, pending, approved, count, currentEpoch,
                     merkle, maxPending, committed, commitsSigned>>
  BY DEF ReportMemory, IncrementOrgUpheldReports, IncrementContribution,
         IncrementModeratorUpheld, IncrementLeaderUpheldReport
<1>3. /\ contributions \in [Keys \X Orgs -> Nat] /\ leaderUpheld \in [LeaderIds \X Orgs -> Nat]
      /\ modUpheld \in [Moderators \X Orgs -> Nat] /\ upheld \in [Orgs -> Nat]
      /\ count \in [Orgs -> Nat] /\ reports \subseteq Orgs \X Hashes \X Reporters
  BY <1>1 DEF TypeOK
<1>4. w \in LeaderIds
  BY DEF LeaderIds
<1>5. TypeOK'
  <2>1. modUpheld' \in [Moderators \X Orgs -> Nat]
    <3>1. \A p \in Moderators \X Orgs :
              modUpheld[p] + (IF p[2] = o THEN list[p[1]] ELSE 0) \in Nat
      BY <1>3, MemoryConstants, SMTT(30)
    <3> QED
      BY <1>2, <3>1
  <2>2. /\ contributions' \in [Keys \X Orgs -> Nat] /\ upheld' \in [Orgs -> Nat]
        /\ leaderUpheld' \in [LeaderIds \X Orgs -> Nat]
    BY <1>2, <1>3, <1>4, SMTT(30)
  <2>3. reports' \subseteq Orgs \X Hashes \X Reporters
    BY <1>2, <1>3, SMTT(30)
  <2> QED
    BY <1>1, <1>2, <2>1, <2>2, <2>3 DEF TypeOK
<1>6. \A p, g : IsApproved(p, g)' = IsApproved(p, g)
  BY <1>2 DEF IsApproved
<1>7. ApprovalsCounted'
  <2>1. \A p, j : ApprovedIn(p)' = ApprovedIn(p) /\ SignedBy(p, j)' = SignedBy(p, j)
    BY <1>2, <1>6 DEF ApprovedIn, SignedBy
  <2> QED
    BY <1>2, <2>1, CountForms, CountFormsNext DEF MemoryInv
<1>8. ASSUME NEW p \in Orgs
      PROVE  /\ upheld'[p] = Cardinality(ReportsOf(p)')
             /\ upheld'[p] = SumFunctionOnSet(UpheldBy(p)', LeaderIds)
             /\ ModsCharged(p)'
             /\ \A r \in ReportsOf(p)' : IsApproved(p, r[2])'
  <2>1. /\ upheld[p] = Cardinality(ReportsOf(p))
        /\ upheld[p] = SumFunctionOnSet(UpheldBy(p), LeaderIds)
        /\ ModsCharged(p)
        /\ \A r \in ReportsOf(p) : IsApproved(p, r[2])
    BY CountForms DEF MemoryInv
  <2>2. (\A i \in LeaderIds : UpheldBy(p)[i] \in Int) /\ upheld[p] \in Nat
    BY <1>3, SMTT(30) DEF UpheldBy
  <2>3. CASE p = o
    <3>1. ReportsOf(p)' = ReportsOf(p) \cup {new} /\ new \notin ReportsOf(p)
      BY <1>2, <2>3, SMTT(30) DEF ReportsOf
    <3>2. IsFiniteSet(ReportsOf(p))
      BY <1>1, FS_Subset DEF ReportsOf
    <3>3. Cardinality(ReportsOf(p)') = Cardinality(ReportsOf(p)) + 1
      <4> HIDE DEF new
      <4> QED
        BY <3>1, <3>2, FS_AddElement
    <3>4. upheld'[p] = upheld[p] + 1
      BY <1>2, <1>3, <2>3
    <3>5. SumFunctionOnSet(UpheldBy(p)', LeaderIds) = SumFunctionOnSet(UpheldBy(p), LeaderIds) + 1
      <4>1. /\ UpheldBy(p)'[w] = UpheldBy(p)[w] + 1
            /\ \A i \in LeaderIds : i # w => UpheldBy(p)'[i] = UpheldBy(p)[i]
        BY <1>2, <1>3, <1>4, <2>3 DEF UpheldBy
      <4>2. SumFunctionOnSet(UpheldBy(p)', LeaderIds) = SumFunctionOnSet(UpheldBy(p), LeaderIds)
                + (UpheldBy(p)'[w] - UpheldBy(p)[w])
        BY <1>4, <2>2, <4>1, MemoryFinite, SumChange, SMTT(30)
      <4>3. UpheldBy(p)'[w] - UpheldBy(p)[w] = 1
        BY <1>4, <2>2, <4>1, SMTT(30)
      <4> QED
        BY <4>2, <4>3
    <3>6. ModsCharged(p)'
      BY <2>2, <3>4, SMTT(30) DEF ModsCharged
    <3>7. \A r \in ReportsOf(p)' : IsApproved(p, r[2])'
      <4>1. new[2] = h /\ IsApproved(o, h)
        BY <1>2
      <4>2. ASSUME NEW r \in ReportsOf(p)' PROVE IsApproved(p, r[2])
        <5>1. CASE r = new
          BY <2>3, <4>1, <5>1
        <5>2. CASE r \in ReportsOf(p)
          BY <2>1, <5>2
        <5> QED
          BY <3>1, <4>2, <5>1, <5>2
      <4> QED
        BY <1>6, <4>2
    <3> QED
      BY <2>1, <3>3, <3>4, <3>5, <3>6, <3>7
  <2>4. CASE p # o
    <3>1. ReportsOf(p)' = ReportsOf(p) /\ upheld'[p] = upheld[p]
      BY <1>2, <1>3, <2>4, SMTT(30) DEF ReportsOf
    <3>2. UpheldBy(p)' = UpheldBy(p)
      BY <1>2, <1>3, <2>4 DEF UpheldBy
    <3>3. \A m \in Moderators : modUpheld'[<<m, p>>] = modUpheld[<<m, p>>]
      BY <1>2, <1>3, <2>4, SMTT(30)
    <3>4. ModsCharged(p)'
      BY <2>1, <3>1, <3>3 DEF ModsCharged
    <3> QED
      BY <1>6, <2>1, <3>1, <3>2, <3>4
  <2> QED
    BY <2>3, <2>4
<1>9. StampLags'
  BY <1>2 DEF MemoryInv, StampLags, IsApproved
<1>10. IsFiniteSet(reports')
  BY <1>1, <1>2, FS_AddElement
<1> QED
  BY <1>5, <1>7, <1>8, <1>9, <1>10, CountFormsNext DEF MemoryInv

\* The hook advances the stamp with the epoch and touches no counter
\* (AfterEpochEnd).
LEMMA EpochEndInv ==
    ASSUME MemoryInv, epoch \in Epochs, epoch' = epoch + 1, AfterEpochEnd(epoch)
    PROVE  MemoryInv'
<1>1. /\ currentEpoch' = epoch
      /\ UNCHANGED <<orgView, pending, approved, count, reports, maxPending, aggregates>>
  BY DEF AfterEpochEnd
<1>2. epoch \in 1 .. MaxEpoch /\ MaxEpoch \in Nat
  BY MemoryConstants DEF Epochs
<1> DEFINE root(o) == [rooted |-> TRUE, leaves |-> MerkleLeaves(o, epoch)]
<1>3. \A o : root(o) \in [rooted : BOOLEAN, leaves : SUBSET (Orgs \X Hashes)]
  BY DEF MerkleLeaves
<1>4. merkle' = [o \in Orgs |-> IF ApprovedIn(o) = {} THEN merkle[o]
                                ELSE [merkle[o] EXCEPT ![epoch] = root(o)]]
  BY DEF AfterEpochEnd
<1>5. merkle \in [Orgs -> [Epochs -> [rooted : BOOLEAN, leaves : SUBSET (Orgs \X Hashes)]]]
  BY DEF MemoryInv, TypeOK
<1> HIDE DEF root
<1>6. TypeOK'
  <2>1. merkle' \in [Orgs -> [Epochs -> [rooted : BOOLEAN, leaves : SUBSET (Orgs \X Hashes)]]]
    BY <1>3, <1>4, <1>5
  <2>2. epoch' \in 1 .. (MaxEpoch + 1) /\ currentEpoch' \in Nat
    BY <1>1, <1>2, SMTT(30)
  <2> QED
    BY <1>1, <2>1, <2>2 DEF MemoryInv, TypeOK, aggregates
<1>7. StampLags'
  BY <1>1, <1>2, SMTT(30) DEF MemoryInv, StampLags, IsApproved
<1>8. \A o, k, h : /\ ApprovedIn(o)' = ApprovedIn(o) /\ SignedBy(o, k)' = SignedBy(o, k)
                   /\ ReportsOf(o)' = ReportsOf(o) /\ UpheldBy(o)' = UpheldBy(o)
                   /\ ModsCharged(o)' = ModsCharged(o) /\ IsApproved(o, h)' = IsApproved(o, h)
  BY <1>1 DEF ApprovedIn, SignedBy, ReportsOf, UpheldBy, ModsCharged, IsApproved, aggregates
<1>9. ApprovalsCounted'
  BY <1>1, <1>8, CountForms, CountFormsNext, SMTT(30) DEF MemoryInv, aggregates
<1>10. ReportsCounted'
  BY <1>1, <1>8, CountForms, CountFormsNext, SMTT(30) DEF MemoryInv, aggregates
<1> QED
  BY <1>1, <1>6, <1>7, <1>9, <1>10 DEF MemoryInv

\* An import starts from a blank store (the application calls no genesis of the
\* module).
LEMMA MemoryImportInv == ASSUME MemoryInv, GenesisRoundTrip PROVE MemoryInv'
<1>1. Blank'
  BY DEF Blank, GenesisRoundTrip, MemoryInv, TypeOK
<1> QED
  BY <1>1, BlankInv, PTL

\* Every step of the specification preserves the invariant.
LEMMA NextMemoryInv == MemoryInv /\ [Next]_vars => MemoryInv'
<1> SUFFICES ASSUME MemoryInv, [Next]_vars PROVE MemoryInv'
  OBVIOUS
<1>1. CASE LeaderTx
  BY <1>1, SubmitInv, ApproveInv, ReportInv DEF LeaderTx
<1>2. CASE EpochTick
  BY <1>2, EpochEndInv DEF EpochTick
<1>3. CASE \/ \E o \in Orgs, view \in OrgViews : OrgStep(o, view)
           \/ \E cap \in PendingCaps : UpdateParams(cap)
  BY <1>3, SettingsInv
<1>4. CASE GenesisRoundTrip
  BY <1>4, MemoryImportInv
<1>5. CASE UNCHANGED vars
  <2>1. TypeOK'
    BY <1>5 DEF MemoryInv, TypeOK, vars, stored, aggregates
  <2> QED
    BY <1>5, <2>1, MemoryQuietInv DEF vars, stored
<1> QED
  BY <1>1, <1>2, <1>3, <1>4, <1>5 DEF Next

----------------------------------------------------------------------------
(* What follows for every behaviour.                                       *)

\* The counters of x/memory, x/org and x/reputation agree with the stored memories
\* and reports, over any transfers of leadership, cap changes, epochs and imports.
THEOREM CountersCorrect == Spec => [](TypeOK /\ ApprovalsCounted /\ ReportsCounted)
<1>1. MemoryInv => TypeOK /\ ApprovalsCounted /\ ReportsCounted
  BY DEF MemoryInv
<1> QED
  BY InitMemoryInv, NextMemoryInv, <1>1, PTL DEF Spec

\* The epoch ApproveMemory stamps on a memory is older than the epoch it was
\* approved in, over any transfers, epochs and imports.
THEOREM StampsLag == Spec => []StampLags
<1>1. MemoryInv => StampLags
  BY DEF MemoryInv
<1> QED
  BY InitMemoryInv, NextMemoryInv, <1>1, PTL DEF Spec

\* An approved memory never changes, and a resubmission of its content never
\* leaves pending (ApproveMemory, SubmitCommitment).
THEOREM ApprovedIsFinal == Spec => ApprovedFinal
<1> DEFINE Kept == \A o \in Orgs, h \in Hashes : IsApproved(o, h) =>
                       /\ approved'[o][h] = approved[o][h]
                       /\ pending[o][h] # NoKey => pending'[o][h] = pending[o][h]
<1>1. ASSUME MemoryInv, [Next]_vars PROVE GenesisRoundTrip \/ Kept \/ UNCHANGED vars
  <2>1. /\ pending \in [Orgs -> [Hashes -> Keys \cup {NoKey}]]
        /\ approved \in [Orgs -> [Hashes -> MemoryCommitment]]
    BY <1>1 DEF MemoryInv, TypeOK
  <2>2. ASSUME NEW w, NEW o \in Orgs, NEW h \in Hashes, NEW k \in Keys,
               SubmitCommitment(w, o, h, k)
        PROVE  Kept
    BY <2>1, <2>2 DEF SubmitCommitment
  <2>3. ASSUME NEW w, NEW o \in Orgs, NEW h \in Hashes, NEW k \in Keys,
               ApproveMemory(w, o, h, k)
        PROVE  Kept
    <3> DEFINE memory == ApprovedMemory(o, h, k)
    <3>1. /\ ~IsApproved(o, h)
          /\ approved' = [approved EXCEPT ![o][h] = memory]
          /\ pending' = [pending EXCEPT ![o][h] = NoKey]
      BY <2>3 DEF ApproveMemory
    <3> HIDE DEF memory
    <3> QED
      BY <2>1, <3>1 DEF IsApproved
  <2>4. ASSUME UNCHANGED <<pending, approved>> PROVE Kept
    BY <2>4
  <2>5. CASE LeaderTx
    BY <2>2, <2>3, <2>4, <2>5, ZenonT(90) DEF LeaderTx, ReportMemory
  <2>6. CASE EpochTick
    BY <2>4, <2>6 DEF EpochTick, AfterEpochEnd
  <2>7. CASE \/ \E o \in Orgs, view \in OrgViews : OrgStep(o, view)
             \/ \E cap \in PendingCaps : UpdateParams(cap)
    BY <2>4, <2>7 DEF OrgStep, UpdateParams, stored
  <2> HIDE DEF Kept
  <2> QED
    BY <1>1, <2>5, <2>6, <2>7 DEF Next
<1>2. MemoryInv /\ [Next]_vars => [GenesisRoundTrip \/ Kept]_vars
  BY <1>1
<1> QED
  BY InitMemoryInv, NextMemoryInv, <1>2, PTL DEF Spec, ApprovedFinal

\* The iterator of SubmitCommitment sees every pending commitment of the org.
LEMMA IteratedEnough ==
    ASSUME MemoryInv, NEW o \in Orgs
    PROVE  /\ IteratedPending(o) \in Nat
           /\ Cardinality(PendingOf(o)) + 1 <= IteratedPending(o)
<1> DEFINE seen == {p \in Orgs \X Hashes : p[1] >= o /\ pending[p[1]][p[2]] # NoKey}
           f == [h \in PendingOf(o) |-> <<o, h>>]
<1>1. IsFiniteSet(Orgs)
  <2>1. 0 \in Int /\ NumOrgs - 1 \in Int
    BY MemoryConstants, SMTT(30)
  <2> QED
    BY <2>1, FS_Interval DEF Orgs
<1>2. IsFiniteSet(Orgs \X Hashes)
  BY <1>1, MemoryFinite, FS_Product
<1>3. IsFiniteSet(seen) /\ seen \subseteq Orgs \X Hashes
  BY <1>2, FS_Subset
<1>4. o >= o
  BY MemoryConstants, SMTT(30) DEF Orgs
<1>5. f \in Injection(PendingOf(o), seen)
  <2>1. \A h \in PendingOf(o) : <<o, h>> \in seen
    BY <1>4 DEF PendingOf
  <2> HIDE DEF seen
  <2> QED
    BY <2>1 DEF Injection, IsInjective
<1>6. Cardinality(PendingOf(o)) <= Cardinality(seen)
  <2> HIDE DEF seen, f
  <2> QED
    BY <1>3, <1>5, MemoryFinite, FS_Injection
<1>7. /\ Cardinality(seen) \in Nat /\ Cardinality(reports) \in Nat
      /\ Cardinality(PendingOf(o)) \in Nat
  <2> HIDE DEF seen
  <2> QED
    BY <1>3, MemoryFinite, FS_CardinalityType DEF MemoryInv
<1>8. IteratedPending(o) = Cardinality(seen) + Cardinality(reports) + 1
  BY DEF IteratedPending
<1> HIDE DEF seen
<1> QED
  BY <1>6, <1>7, <1>8, SMTT(30)

\* A submission never takes an org above the cap in force (SubmitCommitment).
THEOREM SubmissionsWithinCap == Spec => SubmitWithinCap
<1> DEFINE Within(o) == Cardinality(PendingOf(o)') > Cardinality(PendingOf(o))
                            => Cardinality(PendingOf(o)') <= maxPending
<1>1. ASSUME MemoryInv, [Next]_vars, NEW o \in Orgs PROVE Within(o)
  <2>1. TypeOK
    BY <1>1 DEF MemoryInv
  <2>2. /\ pending \in [Orgs -> [Hashes -> Keys \cup {NoKey}]]
        /\ maxPending \in Nat
    BY <2>1, MemoryConstants DEF TypeOK
  <2>3. IsFiniteSet(PendingOf(o)) /\ Cardinality(PendingOf(o)) \in Nat
    BY MemoryFinite, FS_CardinalityType
  <2>4. ASSUME PendingOf(o)' \subseteq PendingOf(o) PROVE Within(o)
    <3>1. /\ Cardinality(PendingOf(o)') \in Nat
          /\ Cardinality(PendingOf(o)') <= Cardinality(PendingOf(o))
      BY <2>3, <2>4, FS_Subset, FS_CardinalityType
    <3> QED
      BY <2>3, <3>1, SMTT(30)
  <2>5. ASSUME NEW w, NEW q \in Orgs, NEW h \in Hashes, NEW k \in Keys,
               SubmitCommitment(w, q, h, k)
        PROVE  Within(o)
    <3>1. /\ pending[q][h] = NoKey /\ IteratedPending(q) < maxPending
          /\ pending' = [pending EXCEPT ![q][h] = k]
      BY <2>5 DEF SubmitCommitment
    <3>2. CASE q = o
      <4>1. PendingOf(o)' = PendingOf(o) \cup {h} /\ h \notin PendingOf(o)
        BY <2>2, <3>1, <3>2, MemoryConstants DEF PendingOf
      <4>2. Cardinality(PendingOf(o)') = Cardinality(PendingOf(o)) + 1
        BY <2>3, <4>1, FS_AddElement
      <4>3. /\ IteratedPending(o) \in Nat
            /\ Cardinality(PendingOf(o)) + 1 <= IteratedPending(o)
        BY <1>1, IteratedEnough
      <4> QED
        BY <2>2, <2>3, <3>1, <3>2, <4>2, <4>3, SMTT(30)
    <3>3. CASE q # o
      BY <2>2, <2>4, <3>1, <3>3 DEF PendingOf
    <3> QED
      BY <3>2, <3>3
  <2>6. ASSUME NEW w, NEW q \in Orgs, NEW h \in Hashes, NEW k \in Keys,
               ApproveMemory(w, q, h, k)
        PROVE  Within(o)
    <3>1. pending' = [pending EXCEPT ![q][h] = NoKey]
      BY <2>6 DEF ApproveMemory
    <3> QED
      BY <2>2, <2>4, <3>1 DEF PendingOf
  <2>7. ASSUME pending' = pending PROVE Within(o)
    BY <2>4, <2>7 DEF PendingOf
  <2> HIDE DEF Within
  <2>8. CASE LeaderTx
    <3>1. PICK q \in Orgs, w \in Wallets, h \in Hashes, k \in Keys :
              \/ SubmitCommitment(w, q, h, k)
              \/ ApproveMemory(w, q, h, k)
              \/ \E reporter \in Reporters, list \in ModeratorLists :
                    ReportMemory(w, q, h, k, reporter, list)
      BY <2>8 DEF LeaderTx
    <3>2. CASE \E reporter \in Reporters, list \in ModeratorLists :
                   ReportMemory(w, q, h, k, reporter, list)
      BY <2>7, <3>2 DEF ReportMemory
    <3> QED
      BY <2>5, <2>6, <3>1, <3>2
  <2>9. CASE EpochTick
    BY <2>7, <2>9 DEF EpochTick, AfterEpochEnd
  <2>10. CASE \/ \E q \in Orgs, view \in OrgViews : OrgStep(q, view)
              \/ \E cap \in PendingCaps : UpdateParams(cap)
    BY <2>7, <2>10 DEF OrgStep, UpdateParams, stored
  <2>11. CASE GenesisRoundTrip
    BY <2>4, <2>11 DEF GenesisRoundTrip, EmptyPending, PendingOf
  <2>12. CASE UNCHANGED vars
    BY <2>7, <2>12 DEF vars, stored
  <2> QED
    BY <1>1, <2>8, <2>9, <2>10, <2>11, <2>12 DEF Next
<1>2. MemoryInv /\ [Next]_vars => [\A o \in Orgs : Within(o)]_vars
  <2> HIDE DEF Within
  <2> QED
    BY <1>1
<1> QED
  BY InitMemoryInv, NextMemoryInv, <1>2, PTL DEF Spec, SubmitWithinCap
=============================================================================
