-------------------------- MODULE ReputationProofs --------------------------
(***************************************************************************)
(* Theorems about Reputation, for all sets of developers, orgs, tags and   *)
(* weights.  What an import writes under an id is a record that was stored *)
(* under some id with the same text, so the records must be sound on their *)
(* own (SoundRecord), absent records must be empty, and only contributors, *)
(* whose ids no other id turns into, may have an org set.                  *)
(***************************************************************************)
EXTENDS Reputation, SumTheorems

\* provers of a leaf that names none
USE ZenonT(30), SMTT(30)

Difficulties == 0 .. MaxGrade

Graded(s) == [g \in Difficulties |-> g * s.bucket[g]]

WeightValues == {w.other : w \in Weights} \cup {w.self : w \in Weights}

\* The parts of one record agree, whoever it is stored for.
SoundRecord(s) ==
    /\ SumFunctionOnSet(s.bucket, Difficulties) = s.memoryCount
    /\ SumFunctionOnSet(s.provenance, Provenances) <= s.memoryCount
    /\ s.xp <= MaxGrade * SumFunctionOnSet(Graded(s), Difficulties)
    /\ s.breadth <= s.serves
    /\ s.selfServes <= s.serves
    /\ s.serveXP \in s.serves * Min(WeightValues) .. s.serves * Max(WeightValues)

\* What the records of one developer say about each other.
SoundDeveloper(d) ==
    /\ Cardinality(memories[d]) <= stats[d].memoryCount
    /\ stats[d].breadth = Cardinality(orgSet[d])
    /\ ~stats[d].stored => stats[d] = NoStats
    /\ d \notin Contributors => orgSet[d] = {}

StatsInv ==
    /\ TypeOK
    /\ \A d \in Developers : SoundRecord(stats[d]) /\ SoundDeveloper(d)

----------------------------------------------------------------------------
(* Facts about the constants.                                              *)

\* The weights governance may set lie between the least and the greatest of
\* them (Params of x/reputation).
LEMMA WeightBounds ==
    /\ Min(WeightValues) \in Nat /\ Max(WeightValues) \in Nat
    /\ \A w \in Weights : /\ Min(WeightValues) <= w.other /\ w.other <= Max(WeightValues)
                          /\ Min(WeightValues) <= w.self /\ w.self <= Max(WeightValues)
<1> DEFINE O == {w.other : w \in Weights}
           F == {w.self : w \in Weights}
<1>1. IsFiniteSet(Weights) /\ Weights # {} /\ Weights \subseteq [other : Nat, self : Nat]
  BY ReputationConstants
<1>2. IsFiniteSet(O)
  <2>1. [w \in Weights |-> w.other] \in Surjection(Weights, O)
    BY DEF Surjection
  <2> QED
    BY <1>1, <2>1, FS_Surjection
<1>3. IsFiniteSet(F)
  <2>1. [w \in Weights |-> w.self] \in Surjection(Weights, F)
    BY DEF Surjection
  <2> QED
    BY <1>1, <2>1, FS_Surjection
<1>4. IsFiniteSet(WeightValues)
  BY <1>2, <1>3, FS_Union DEF WeightValues
<1>5. WeightValues # {} /\ WeightValues \subseteq Nat
  BY <1>1 DEF WeightValues
<1>6. /\ Min(WeightValues) \in WeightValues /\ Max(WeightValues) \in WeightValues
      /\ \A x \in WeightValues : Min(WeightValues) <= x /\ x <= Max(WeightValues)
  <2>1. WeightValues \subseteq Int
    BY <1>5, SMTT(30)
  <2> QED
    BY <1>4, <1>5, <2>1, Extremes
<1>7. \A w \in Weights : w.other \in WeightValues /\ w.self \in WeightValues
  BY DEF WeightValues
<1> QED
  BY <1>5, <1>6, <1>7

\* A histogram has finitely many entries.
LEMMA FiniteDomains == IsFiniteSet(Difficulties) /\ IsFiniteSet(Provenances)
<1>1. IsFiniteSet(Difficulties)
  <2>1. 0 \in Int /\ MaxGrade \in Int
    BY SMTT(30) DEF MaxGrade
  <2> QED
    BY <2>1, FS_Interval DEF Difficulties
<1>2. Provenances \in {Developers, Orgs, CIDs, Tags, Provenances, Weights}
  OBVIOUS
<1> QED
  BY <1>1, <1>2, ReputationConstants

\* A contributor's id is text, and no other id has the same text.
LEMMA ContributorText ==
    ASSUME NEW c \in Contributors
    PROVE  /\ c \in Developers /\ JSONText[c] = c
           /\ \A d \in Developers : JSONText[d] = c => d = c
<1>1. {d \in Developers : JSONText[d] = c} = {c}
  BY ReputationConstants
<1> QED
  BY <1>1, SMTT(30)

----------------------------------------------------------------------------
(* Records.                                                                *)

\* The record of a developer never seen is sound.
LEMMA NoStatsSound == NoStats \in StoredReputationStats /\ SoundRecord(NoStats)
<1>1. NoStats \in StoredReputationStats
  BY DEF NoStats, StoredReputationStats, Zero
<1>2. IsFiniteSet(Difficulties) /\ IsFiniteSet(Provenances)
  BY FiniteDomains
<1>3. SumFunctionOnSet(NoStats.bucket, Difficulties) = 0
  <2>1. \A g \in Difficulties : NoStats.bucket[g] = 0
    BY DEF NoStats, Zero, Difficulties
  <2> QED
    BY <1>2, <2>1, SumZero
<1>4. SumFunctionOnSet(NoStats.provenance, Provenances) = 0
  <2>1. \A p \in Provenances : NoStats.provenance[p] = 0
    BY DEF NoStats, Zero
  <2> QED
    BY <1>2, <2>1, SumZero
<1>5. SumFunctionOnSet(Graded(NoStats), Difficulties) = 0
  <2>1. \A g \in Difficulties : Graded(NoStats)[g] = 0
    BY SMTT(30) DEF NoStats, Zero, Difficulties, MaxGrade, Graded
  <2> QED
    BY <1>2, <2>1, SumZero
<1>6. /\ NoStats.memoryCount = 0 /\ NoStats.xp = 0 /\ NoStats.breadth = 0
      /\ NoStats.serves = 0 /\ NoStats.selfServes = 0 /\ NoStats.serveXP = 0
  BY DEF NoStats
<1> QED
  BY <1>1, <1>3, <1>4, <1>5, <1>6, WeightBounds, SMTT(30) DEF SoundRecord, MaxGrade

\* The grades and tag counts of an attestation are natural numbers.
LEMMA AttestedType ==
    ASSUME NEW m \in AttestedMemory
    PROVE  m.difficulty \in Nat /\ m.quality \in Nat /\ m.tags \in [Tags -> Nat]
<1>1. m.difficulty \in Grades /\ m.quality \in Grades /\ m.tags \in [Tags -> 0 .. MaxTagged]
  BY DEF AttestedMemory
<1>2. m.difficulty \in Nat /\ m.quality \in Nat
  BY <1>1, ReputationConstants
<1>3. 0 .. MaxTagged \subseteq Nat
  BY ReputationConstants, SMTT(30)
<1> QED
  BY <1>1, <1>2, <1>3

\* What AddMemory does to each field of a record.
LEMMA AddMemoryFields ==
    ASSUME NEW s \in StoredReputationStats, NEW m \in AttestedMemory
    PROVE  LET t == AddMemory(s, m)
           IN  /\ t.stored = TRUE
               /\ t.memoryCount = s.memoryCount + 1
               /\ t.bucket = [g \in DOMAIN s.bucket |->
                                 s.bucket[g] + IF g = m.difficulty THEN 1 ELSE 0]
               /\ t.tags = [g \in Tags |-> s.tags[g] + m.tags[g]]
               /\ t.provenance = [p \in Provenances |->
                                     s.provenance[p] + IF p = m.provenance THEN 1 ELSE 0]
               /\ t.xp = s.xp + m.difficulty * m.quality
               /\ t.serves = s.serves /\ t.selfServes = s.selfServes
               /\ t.breadth = s.breadth /\ t.firstSeen = s.firstSeen
               /\ t.serveXP = s.serveXP
  BY DEF AddMemory, StoredReputationStats

\* An attestation with valid grades keeps a record well typed and sound.
LEMMA AddMemorySound ==
    ASSUME NEW s \in StoredReputationStats, NEW m \in AttestedMemory,
           ValidateBasic(m), SoundRecord(s)
    PROVE  AddMemory(s, m) \in StoredReputationStats /\ SoundRecord(AddMemory(s, m))
<1> DEFINE t == AddMemory(s, m)
           x == m.difficulty
           y == m.quality
<1>1. x \in Difficulties /\ y \in 0 .. 10 /\ m.tags \in [Tags -> Nat]
  BY AttestedType, SMTT(30) DEF ValidateBasic, Difficulties, MaxGrade
<1>2. /\ s.memoryCount \in Nat /\ s.xp \in Nat /\ s.bucket \in [Difficulties -> Nat]
      /\ s.tags \in [Tags -> Nat] /\ s.provenance \in [Provenances -> Nat]
      /\ s.serves \in Nat /\ s.selfServes \in Nat /\ s.breadth \in Nat
      /\ s.firstSeen \in Nat /\ s.serveXP \in Nat
  BY DEF StoredReputationStats, Difficulties
<1>3. /\ t.stored = TRUE
      /\ t.memoryCount = s.memoryCount + 1
      /\ t.bucket = [g \in Difficulties |-> s.bucket[g] + IF g = x THEN 1 ELSE 0]
      /\ t.tags = [g \in Tags |-> s.tags[g] + m.tags[g]]
      /\ t.provenance = [p \in Provenances |-> s.provenance[p] + IF p = m.provenance THEN 1 ELSE 0]
      /\ t.xp = s.xp + x * y
      /\ t.serves = s.serves /\ t.selfServes = s.selfServes
      /\ t.breadth = s.breadth /\ t.firstSeen = s.firstSeen
      /\ t.serveXP = s.serveXP
  <2>1. DOMAIN s.bucket = Difficulties
    BY <1>2
  <2> QED
    BY <2>1, AddMemoryFields
<1>4. x \in Nat /\ y \in Nat /\ x * y \in Nat /\ x * y <= 10 * x
  <2>1. x \in Nat /\ y \in Nat /\ y <= 10
    BY <1>1, SMTT(30) DEF Difficulties, MaxGrade
  <2>2. \A a, b \in Nat : b <= 10 => a * b \in Nat /\ a * b <= 10 * a
    BY SMTT(30)
  <2> HIDE DEF x, y
  <2> QED
    BY <2>1, <2>2
<1>5. t \in StoredReputationStats
  <2>1. /\ t.bucket \in [Difficulties -> Nat] /\ t.tags \in [Tags -> Nat]
        /\ t.provenance \in [Provenances -> Nat]
    BY <1>1, <1>2, <1>3, SMTT(30)
  <2>2. t.memoryCount \in Nat /\ t.xp \in Nat
    BY <1>2, <1>3, <1>4, SMTT(30)
  <2> QED
    BY <1>2, <1>3, <2>1, <2>2 DEF AddMemory, StoredReputationStats, Difficulties
<1> HIDE DEF t
<1>6. SumFunctionOnSet(t.bucket, Difficulties) = SumFunctionOnSet(s.bucket, Difficulties) + 1
  <2>1. /\ \A g \in Difficulties : s.bucket[g] \in Int
        /\ t.bucket[x] \in Int /\ t.bucket[x] - s.bucket[x] = 1
        /\ \A g \in Difficulties : g # x => t.bucket[g] = s.bucket[g]
    BY <1>1, <1>2, <1>3, SMTT(30)
  <2>2. SumFunctionOnSet(t.bucket, Difficulties)
          = SumFunctionOnSet(s.bucket, Difficulties) + (t.bucket[x] - s.bucket[x])
    BY <1>1, <2>1, FiniteDomains, SumChange, SMTT(30)
  <2> QED
    BY <2>1, <2>2
<1>7. /\ SumFunctionOnSet(t.provenance, Provenances)
           <= SumFunctionOnSet(s.provenance, Provenances) + 1
      /\ SumFunctionOnSet(s.provenance, Provenances) \in Nat
      /\ SumFunctionOnSet(t.provenance, Provenances) \in Nat
  <2> DEFINE p == m.provenance
  <2>0. /\ SumFunctionOnSet(s.provenance, Provenances) \in Nat
        /\ SumFunctionOnSet(t.provenance, Provenances) \in Nat
    <3>1. (\A q \in Provenances : s.provenance[q] \in Nat) /\ (\A q \in Provenances : t.provenance[q] \in Nat)
      BY <1>2, <1>3, SMTT(30)
    <3> QED
      BY <3>1, FiniteDomains, SumNat
  <2>1. CASE p \in Provenances
    <3>1. /\ \A q \in Provenances : s.provenance[q] \in Int
          /\ t.provenance[p] \in Int /\ t.provenance[p] - s.provenance[p] = 1
          /\ \A q \in Provenances : q # p => t.provenance[q] = s.provenance[q]
      BY <1>2, <1>3, <2>1, SMTT(30)
    <3>2. SumFunctionOnSet(t.provenance, Provenances)
            = SumFunctionOnSet(s.provenance, Provenances) + (t.provenance[p] - s.provenance[p])
      BY <2>1, <3>1, FiniteDomains, SumChange, SMTT(30)
    <3> QED
      BY <2>0, <3>1, <3>2, SMTT(30)
  <2>2. CASE p \notin Provenances
    <3>1. \A q \in Provenances : t.provenance[q] = s.provenance[q]
      BY <1>2, <1>3, <2>2, SMTT(30)
    <3>2. SumFunctionOnSet(t.provenance, Provenances) = SumFunctionOnSet(s.provenance, Provenances)
      BY <3>1, FiniteDomains, SumSame
    <3> QED
      BY <2>0, <3>2, SMTT(30)
  <2> QED
    BY <2>1, <2>2
<1>8. /\ SumFunctionOnSet(Graded(t), Difficulties)
           = SumFunctionOnSet(Graded(s), Difficulties) + x
      /\ SumFunctionOnSet(Graded(s), Difficulties) \in Nat
  <2>0. \A g \in Difficulties : g \in Nat
    BY SMTT(30) DEF Difficulties
  <2>1. ASSUME NEW g \in Difficulties
        PROVE  /\ Graded(s)[g] \in Nat /\ Graded(t)[g] \in Nat
               /\ Graded(t)[g] = Graded(s)[g] + IF g = x THEN x ELSE 0
    <3>1. s.bucket[g] \in Nat /\ t.bucket[g] = s.bucket[g] + IF g = x THEN 1 ELSE 0
      BY <1>2, <1>3, SMTT(30)
    <3>2. Graded(s)[g] = g * s.bucket[g] /\ Graded(t)[g] = g * t.bucket[g]
      BY DEF Graded
    <3>3. \A a, b \in Nat : a * (b + 1) = a * b + a /\ a * b \in Nat /\ a * b + a \in Nat
      BY SMTT(30)
    <3> QED
      BY <2>0, <3>1, <3>2, <3>3, SMTT(30)
  <2>2. SumFunctionOnSet(Graded(t), Difficulties)
          = SumFunctionOnSet(Graded(s), Difficulties) + (Graded(t)[x] - Graded(s)[x])
    <3>1. /\ \A g \in Difficulties : Graded(s)[g] \in Int
          /\ Graded(t)[x] \in Int
          /\ \A g \in Difficulties : g # x => Graded(t)[g] = Graded(s)[g]
      BY <1>1, <2>1, SMTT(30)
    <3> QED
      BY <1>1, <3>1, FiniteDomains, SumChange, SMTT(30)
  <2>3. SumFunctionOnSet(Graded(s), Difficulties) \in Nat
    BY <2>1, FiniteDomains, SumNat
  <2> QED
    BY <1>1, <1>4, <2>1, <2>2, <2>3, SMTT(30)
<1> HIDE DEF x, y
<1>9. SumFunctionOnSet(t.bucket, Difficulties) = t.memoryCount
  BY <1>3, <1>6 DEF SoundRecord
<1>10. SumFunctionOnSet(t.provenance, Provenances) <= t.memoryCount
  BY <1>2, <1>3, <1>7, SMTT(30) DEF SoundRecord
<1>11. t.xp <= MaxGrade * SumFunctionOnSet(Graded(t), Difficulties)
  BY <1>2, <1>3, <1>4, <1>8, SMTT(30) DEF SoundRecord, MaxGrade
<1>12. /\ t.breadth <= t.serves /\ t.selfServes <= t.serves
       /\ t.serveXP \in t.serves * Min(WeightValues) .. t.serves * Max(WeightValues)
  BY <1>3 DEF SoundRecord
<1> QED
  BY <1>5, <1>9, <1>10, <1>11, <1>12 DEF SoundRecord, t

\* A serve keeps a record well typed and sound, whatever the weights in force.
LEMMA AddServeSound ==
    ASSUME params \in Weights, NEW s \in StoredReputationStats, SoundRecord(s),
           NEW e \in Nat, NEW self \in BOOLEAN, NEW isNew \in BOOLEAN
    PROVE  /\ AddServe(s, e, self, isNew) \in StoredReputationStats
           /\ SoundRecord(AddServe(s, e, self, isNew))
<1> DEFINE t == AddServe(s, e, self, isNew)
           w == IF self THEN params.self ELSE params.other
           lo == Min(WeightValues)
           hi == Max(WeightValues)
<1>1. w \in Nat /\ lo \in Nat /\ hi \in Nat /\ lo <= w /\ w <= hi
  <2>1. params.self \in Nat /\ params.other \in Nat
    BY ReputationConstants
  <2> QED
    BY <2>1, WeightBounds
<1>2. /\ s.serves \in Nat /\ s.selfServes \in Nat /\ s.breadth \in Nat
      /\ s.firstSeen \in Nat /\ s.serveXP \in Nat
  BY DEF StoredReputationStats
<1>3. /\ t.stored = TRUE
      /\ t.serves = s.serves + 1
      /\ t.selfServes = s.selfServes + IF self THEN 1 ELSE 0
      /\ t.serveXP = s.serveXP + w
      /\ t.firstSeen = IF s.firstSeen = 0 THEN e ELSE s.firstSeen
      /\ t.breadth = s.breadth + IF isNew THEN 1 ELSE 0
      /\ t.memoryCount = s.memoryCount /\ t.bucket = s.bucket
      /\ t.tags = s.tags /\ t.provenance = s.provenance /\ t.xp = s.xp
  BY DEF AddServe, StoredReputationStats
<1>4. /\ t.serves \in Nat /\ t.selfServes \in Nat /\ t.serveXP \in Nat
      /\ t.firstSeen \in Nat /\ t.breadth \in Nat
  <2> HIDE DEF t, w
  <2> QED
    BY <1>1, <1>2, <1>3, SMTT(30)
<1>5. t \in StoredReputationStats
  BY <1>3, <1>4 DEF AddServe, StoredReputationStats
<1>6. Graded(t) = Graded(s)
  <2> HIDE DEF t
  <2> QED
    BY <1>3 DEF Graded
<1> HIDE DEF t, w, lo, hi
<1>7. s.breadth <= s.serves /\ s.selfServes <= s.serves /\ s.serveXP \in s.serves * lo .. s.serves * hi
  BY DEF SoundRecord, lo, hi
<1>8. t.breadth <= t.serves /\ t.selfServes <= t.serves
  BY <1>2, <1>3, <1>7, SMTT(30)
<1>9. t.serveXP \in t.serves * lo .. t.serves * hi
  <2>1. \A a, b \in Nat : (a + 1) * b = a * b + b /\ a * b \in Nat
    BY SMTT(30)
  <2>2. t.serves * lo = s.serves * lo + lo /\ t.serves * hi = s.serves * hi + hi
    <3>1. (s.serves + 1) * lo = s.serves * lo + lo /\ (s.serves + 1) * hi = s.serves * hi + hi
      BY <1>1, <1>2, <2>1
    <3> QED
      BY <1>3, <3>1
  <2>3. s.serves * lo \in Nat /\ s.serves * hi \in Nat
    BY <1>1, <1>2, <2>1
  <2> QED
    BY <1>1, <1>2, <1>3, <1>7, <2>2, <2>3, SMTT(30)
<1>10. /\ SumFunctionOnSet(t.bucket, Difficulties) = t.memoryCount
       /\ SumFunctionOnSet(t.provenance, Provenances) <= t.memoryCount
       /\ t.xp <= MaxGrade * SumFunctionOnSet(Graded(t), Difficulties)
  BY <1>3, <1>6 DEF SoundRecord
<1> QED
  BY <1>5, <1>8, <1>9, <1>10 DEF SoundRecord, t, lo, hi

----------------------------------------------------------------------------
(* Steps.                                                                  *)

\* A genesis state has no records.
LEMMA InitStatsInv == Init => StatsInv
<1> SUFFICES ASSUME Init PROVE StatsInv
  OBVIOUS
<1>1. TypeOK
  <2>1. NoProfile \in StoredContributorProfile
    BY DEF NoProfile, StoredContributorProfile
  <2> QED
    BY <2>1, NoStatsSound, ReputationConstants DEF Init, TypeOK
<1>2. ASSUME NEW d \in Developers PROVE SoundRecord(stats[d]) /\ SoundDeveloper(d)
  <2>1. stats[d] = NoStats /\ memories[d] = {} /\ orgSet[d] = {}
    BY DEF Init
  <2>2. NoStats.memoryCount = 0 /\ NoStats.breadth = 0 /\ Cardinality({}) = 0
    BY FS_EmptySet DEF NoStats
  <2> QED
    BY <2>1, <2>2, NoStatsSound, SMTT(30) DEF SoundDeveloper
<1> QED
  BY <1>1, <1>2 DEF StatsInv

\* An attestation keeps the invariant: a CID seen before counts again, so the
\* memories stored are at most as many as those counted (UpdateReputation).
LEMMA AttestInv ==
    ASSUME StatsInv, NEW d \in Developers, NEW m \in AttestedMemory, UpdateReputation(d, m)
    PROVE  StatsInv'
<1>1. /\ stats \in [Developers -> StoredReputationStats] /\ memories \in [Developers -> SUBSET CIDs]
      /\ SoundRecord(stats[d]) /\ SoundDeveloper(d)
  BY DEF StatsInv, TypeOK
<1>2. /\ stats' = [stats EXCEPT ![d] = AddMemory(stats[d], m)]
      /\ memories' = [memories EXCEPT ![d] = memories[d] \cup {m.cid}]
      /\ ValidateBasic(m)
      /\ UNCHANGED <<active, params, orgSet, profile>>
  BY DEF UpdateReputation
<1>3. AddMemory(stats[d], m) \in StoredReputationStats /\ SoundRecord(AddMemory(stats[d], m))
  BY <1>1, <1>2, AddMemorySound
<1>4. m.cid \in CIDs
  BY DEF AttestedMemory
<1>5. TypeOK'
  BY <1>1, <1>2, <1>3, <1>4 DEF StatsInv, TypeOK
<1>6. /\ AddMemory(stats[d], m).memoryCount = stats[d].memoryCount + 1
      /\ AddMemory(stats[d], m).breadth = stats[d].breadth
      /\ AddMemory(stats[d], m).stored = TRUE
      /\ stats[d].memoryCount \in Nat
  BY <1>1, AddMemoryFields DEF StoredReputationStats
<1>7. SoundDeveloper(d)'
  <2>1. IsFiniteSet(memories[d])
    <3>1. CIDs \in {Developers, Orgs, CIDs, Tags, Provenances, Weights}
      OBVIOUS
    <3>2. IsFiniteSet(CIDs)
      BY <3>1, ReputationConstants
    <3> QED
      BY <1>1, <3>2, FS_Subset
  <2>2. /\ Cardinality(memories[d]) \in Nat
        /\ \/ Cardinality(memories[d] \cup {m.cid}) = Cardinality(memories[d])
           \/ Cardinality(memories[d] \cup {m.cid}) = Cardinality(memories[d]) + 1
    BY <2>1, FS_AddElement, FS_CardinalityType
  <2>3. /\ stats'[d] = AddMemory(stats[d], m) /\ memories'[d] = memories[d] \cup {m.cid}
        /\ orgSet'[d] = orgSet[d]
    BY <1>1, <1>2
  <2>4. Cardinality(memories[d]) <= stats[d].memoryCount
    BY <1>1 DEF SoundDeveloper
  <2>5. Cardinality(memories'[d]) <= stats'[d].memoryCount
    BY <1>6, <2>2, <2>3, <2>4, SMTT(30)
  <2> QED
    BY <1>1, <1>6, <2>3, <2>5 DEF SoundDeveloper
<1>8. ASSUME NEW c \in Developers PROVE SoundRecord(stats'[c]) /\ SoundDeveloper(c)'
  <2>1. CASE c = d
    BY <1>1, <1>2, <1>3, <1>7, <2>1
  <2>2. CASE c # d
    <3>1. stats'[c] = stats[c] /\ memories'[c] = memories[c] /\ orgSet'[c] = orgSet[c]
      BY <1>1, <1>2, <2>2
    <3> QED
      BY <3>1 DEF StatsInv, SoundDeveloper
  <2> QED
    BY <2>1, <2>2
<1>9. \A c \in Developers : SoundRecord(stats[c])' /\ SoundDeveloper(c)'
  BY <1>8 DEF SoundRecord, Graded
<1> QED
  BY <1>5, <1>9 DEF StatsInv

\* A serve keeps the invariant: the breadth grows exactly when the org set does
\* (RecordServe).
LEMMA ServeInv ==
    ASSUME StatsInv, NEW d \in Contributors, NEW o \in Orgs, NEW e \in EpochIds,
           NEW self \in BOOLEAN, RecordServe(d, o, e, self)
    PROVE  StatsInv'
<1> DEFINE t == AddServe(stats[d], e, self, NewOrg(d, o))
<1>0. d \in Developers
  BY ContributorText
<1>1. /\ stats \in [Developers -> StoredReputationStats] /\ orgSet \in [Developers -> SUBSET Orgs]
      /\ params \in Weights /\ SoundRecord(stats[d]) /\ SoundDeveloper(d)
  BY <1>0 DEF StatsInv, TypeOK
<1>2. /\ stats' = [stats EXCEPT ![d] = t]
      /\ orgSet' = [orgSet EXCEPT ![d] = orgSet[d] \cup {o}]
      /\ UNCHANGED <<active, params, memories, profile>>
  BY DEF RecordServe
<1>3. e \in Nat /\ NewOrg(d, o) \in BOOLEAN /\ stats[d] \in StoredReputationStats
  BY <1>0, <1>1, ReputationConstants DEF NewOrg
<1>4. t \in StoredReputationStats /\ SoundRecord(t)
  BY <1>1, <1>3, AddServeSound
<1>5. /\ t.memoryCount = stats[d].memoryCount /\ t.stored = TRUE
      /\ t.breadth = stats[d].breadth + IF NewOrg(d, o) THEN 1 ELSE 0
  BY <1>3 DEF AddServe, StoredReputationStats
<1> HIDE DEF t
<1>6. TypeOK'
  BY <1>0, <1>1, <1>2, <1>4 DEF StatsInv, TypeOK
<1>7. stats'[d] = t /\ memories'[d] = memories[d] /\ orgSet'[d] = orgSet[d] \cup {o}
  BY <1>0, <1>1, <1>2
<1>8. t.breadth = Cardinality(orgSet[d] \cup {o})
  <2>1. IsFiniteSet(orgSet[d])
    <3>1. Orgs \in {Developers, Orgs, CIDs, Tags, Provenances, Weights}
      OBVIOUS
    <3>2. IsFiniteSet(Orgs)
      BY <3>1, ReputationConstants
    <3> QED
      BY <1>0, <1>1, <3>2, FS_Subset
  <2>2. stats[d].breadth = Cardinality(orgSet[d]) /\ stats[d].breadth \in Nat
    BY <1>1, <1>3 DEF SoundDeveloper, StoredReputationStats
  <2>3. CASE NewOrg(d, o)
    <3>1. Cardinality(orgSet[d] \cup {o}) = Cardinality(orgSet[d]) + 1
      BY <2>1, <2>3, FS_AddElement DEF NewOrg
    <3> QED
      BY <1>5, <2>2, <2>3, <3>1
  <2>4. CASE ~NewOrg(d, o)
    <3>1. orgSet[d] \cup {o} = orgSet[d]
      BY <2>4 DEF NewOrg
    <3> QED
      BY <1>5, <2>2, <2>4, <3>1, SMTT(30)
  <2> QED
    BY <2>3, <2>4
<1>9. ASSUME NEW c \in Developers PROVE SoundRecord(stats'[c]) /\ SoundDeveloper(c)'
  <2>1. CASE c = d
    BY <1>1, <1>4, <1>5, <1>7, <1>8, <2>1 DEF SoundDeveloper
  <2>2. CASE c # d
    <3>1. stats'[c] = stats[c] /\ memories'[c] = memories[c] /\ orgSet'[c] = orgSet[c]
      BY <1>0, <1>1, <1>2, <2>2
    <3> QED
      BY <3>1 DEF StatsInv, SoundDeveloper
  <2> QED
    BY <2>1, <2>2
<1>10. \A c \in Developers : SoundRecord(stats[c])' /\ SoundDeveloper(c)'
  BY <1>9 DEF SoundRecord, Graded
<1> QED
  BY <1>6, <1>10 DEF StatsInv

\* After an export and import every id has the record it had, another one
\* stored under an id of the same text, or none; a contributor keeps its own
\* (ExportGenesis, InitGenesisState).
LEMMA ImportedRecord ==
    ASSUME StatsInv, GenesisRoundTrip, NEW d \in Developers
    PROVE  /\ \/ stats'[d] = NoStats
              \/ \E x \in Developers : JSONText[x] = d /\ stats'[d] = stats[x] /\ stats[x].stored
           /\ {x \in Developers : JSONText[x] = d} = {d} => stats'[d] = stats[d]
<1> PICK source \in [Developers -> Developers] :
        /\ \A c \in Developers : ExportedAs(c) # {} => source[c] \in ExportedAs(c)
        /\ stats' = [c \in Developers |-> IF ExportedAs(c) = {} THEN NoStats ELSE stats[source[c]]]
  BY DEF GenesisRoundTrip
<1>1. CASE ExportedAs(d) = {}
  <2>1. stats'[d] = NoStats
    BY <1>1
  <2>2. {x \in Developers : JSONText[x] = d} = {d} => ~stats[d].stored
    BY <1>1 DEF ExportedAs
  <2> QED
    BY <2>1, <2>2 DEF StatsInv, SoundDeveloper
<1>2. CASE ExportedAs(d) # {}
  <2>1. stats'[d] = stats[source[d]] /\ source[d] \in ExportedAs(d)
    BY <1>2
  <2>2. source[d] \in Developers /\ stats[source[d]].stored /\ JSONText[source[d]] = d
    BY <2>1 DEF ExportedAs
  <2> QED
    BY <2>1, <2>2
<1> QED
  BY <1>1, <1>2

\* An export and import keeps the invariant.
LEMMA RoundTripInv == ASSUME StatsInv, GenesisRoundTrip PROVE StatsInv'
<1>1. /\ params' = DefaultWeights /\ memories' = [d \in Developers |-> {}]
      /\ profile' = [p \in Developers \X Orgs |-> NoProfile]
      /\ UNCHANGED <<active, orgSet>>
  BY DEF GenesisRoundTrip
<1>2. ASSUME NEW d \in Developers
      PROVE  /\ stats'[d] \in StoredReputationStats
             /\ SoundRecord(stats'[d]) /\ SoundDeveloper(d)'
  <2>1. CASE stats'[d] = NoStats
    <3>1. orgSet[d] = {}
      <4>1. CASE d \in Contributors
        <5>1. {x \in Developers : JSONText[x] = d} = {d}
          BY <4>1, ContributorText
        <5>2. stats[d] = NoStats
          BY <2>1, <5>1, ImportedRecord
        <5>3. Cardinality(orgSet[d]) = 0 /\ IsFiniteSet(orgSet[d])
          <6>1. Orgs \in {Developers, Orgs, CIDs, Tags, Provenances, Weights}
            OBVIOUS
          <6>2. IsFiniteSet(Orgs)
            BY <6>1, ReputationConstants
          <6> QED
            BY <5>2, <6>2, FS_Subset, SMTT(30) DEF StatsInv, SoundDeveloper, TypeOK, NoStats
        <5> QED
          BY <5>3, FS_EmptySet
      <4>2. CASE d \notin Contributors
        BY <4>2 DEF StatsInv, SoundDeveloper
      <4> QED
        BY <4>1, <4>2
    <3>2. orgSet'[d] = {} /\ memories'[d] = {}
      BY <1>1, <3>1
    <3>3. NoStats.memoryCount = 0 /\ NoStats.breadth = 0 /\ Cardinality({}) = 0
      BY FS_EmptySet DEF NoStats
    <3> QED
      BY <2>1, <3>2, <3>3, NoStatsSound, SMTT(30) DEF SoundDeveloper
  <2>2. ASSUME NEW x \in Developers, JSONText[x] = d, stats'[d] = stats[x], stats[x].stored
        PROVE  /\ stats'[d] \in StoredReputationStats
               /\ SoundRecord(stats'[d]) /\ SoundDeveloper(d)'
    <3>1. /\ stats[x] \in StoredReputationStats /\ SoundRecord(stats[x]) /\ SoundDeveloper(x)
          /\ SoundDeveloper(d)
      BY DEF StatsInv, TypeOK
    <3>2. orgSet'[d] = orgSet[x]
      <4>1. CASE d \in Contributors
        BY <1>1, <2>2, <4>1, ContributorText
      <4>2. CASE d \notin Contributors
        <5>1. x \notin Contributors
          BY <2>2, <4>2, ContributorText
        <5> QED
          BY <1>1, <3>1, <4>2, <5>1 DEF SoundDeveloper
      <4> QED
        BY <4>1, <4>2
    <3>3. memories'[d] = {} /\ Cardinality({}) = 0 /\ stats[x].memoryCount \in Nat
      BY <1>1, <3>1, FS_EmptySet DEF StoredReputationStats
    <3>4. Cardinality(memories'[d]) <= stats'[d].memoryCount
      BY <2>2, <3>3, SMTT(30)
    <3> QED
      BY <1>1, <2>2, <3>1, <3>2, <3>4 DEF SoundDeveloper
  <2> QED
    BY <2>1, <2>2, ImportedRecord
<1>3. TypeOK'
  <2>1. DOMAIN stats' = Developers /\ stats' = [d \in DOMAIN stats' |-> stats'[d]]
    BY DEF GenesisRoundTrip
  <2>2. stats' \in [Developers -> StoredReputationStats]
    BY <1>2, <2>1
  <2>3. NoProfile \in StoredContributorProfile
    BY DEF NoProfile, StoredContributorProfile
  <2> QED
    BY <1>1, <2>2, <2>3, ReputationConstants DEF StatsInv, TypeOK
<1>4. \A c \in Developers : SoundRecord(stats[c])' /\ SoundDeveloper(c)'
  BY <1>2 DEF SoundRecord, Graded
<1> QED
  BY <1>3, <1>4 DEF StatsInv

\* A step that leaves the statistics alone keeps the invariant as soon as it
\* keeps the types.
LEMMA OtherInv ==
    ASSUME StatsInv, TypeOK', UNCHANGED <<stats, memories, orgSet>>
    PROVE  StatsInv'
  BY DEF StatsInv, SoundRecord, SoundDeveloper, Graded

\* The authority's profile messages change profiles only, and keep their types
\* (IncrementContribution, IncrementServe, RecordBan).
LEMMA ProfileInv ==
    ASSUME StatsInv, NEW c \in Contributors, NEW o \in Orgs, NEW n \in Nat,
           IncrementContribution(c, o) \/ RecordBan(c, o) \/ IncrementServe(c, o, n)
    PROVE  StatsInv'
<1> DEFINE q == profile[<<c, o>>]
<1>1. <<c, o>> \in Developers \X Orgs
  BY ContributorText
<1>2. q \in StoredContributorProfile /\ profile \in [Developers \X Orgs -> StoredContributorProfile]
  BY <1>1 DEF StatsInv, TypeOK
<1>3. /\ [q EXCEPT !.approved = q.approved + 1] \in StoredContributorProfile
      /\ [q EXCEPT !.upheld = q.upheld + 1] \in StoredContributorProfile
      /\ [q EXCEPT !.received = q.received + n] \in StoredContributorProfile
  BY <1>1, <1>2, SMTT(30) DEF StoredContributorProfile
<1>4. PICK r \in StoredContributorProfile : profile' = [profile EXCEPT ![<<c, o>>] = r]
  BY <1>3 DEF IncrementContribution, RecordBan, IncrementServe
<1>5. UNCHANGED <<active, params, stats, memories, orgSet>>
  BY DEF IncrementContribution, RecordBan, IncrementServe
<1>6. TypeOK'
  BY <1>1, <1>2, <1>4, <1>5 DEF StatsInv, TypeOK
<1> QED
  BY <1>5, <1>6, OtherInv

\* Every message and every import keeps the invariant.
LEMMA NextStatsInv == StatsInv /\ [Next]_vars => StatsInv'
<1> SUFFICES ASSUME StatsInv, [Next]_vars PROVE StatsInv'
  OBVIOUS
<1>1. CASE \E d \in Developers, m \in AttestedMemory : UpdateReputation(d, m)
  BY <1>1, AttestInv
<1>2. CASE \E c \in Contributors, o \in Orgs, e \in EpochIds, self \in BOOLEAN : RecordServe(c, o, e, self)
  BY <1>2, ServeInv
<1>3. CASE \E w \in Weights : UpdateParams(w)
  <2>1. TypeOK' /\ UNCHANGED <<stats, memories, orgSet>>
    BY <1>3 DEF StatsInv, TypeOK, UpdateParams
  <2> QED
    BY <2>1, OtherInv
<1>4. ASSUME NEW c \in Contributors, NEW o \in Orgs,
             \/ IncrementContribution(c, o)
             \/ RecordBan(c, o)
             \/ \E n \in ServeCounts : IncrementServe(c, o, n)
      PROVE  StatsInv'
  <2>1. 0 \in Nat /\ ServeCounts \subseteq Nat
    BY ReputationConstants
  <2> QED
    BY <1>4, <2>1, ProfileInv
<1>5. CASE GenesisRoundTrip
  BY <1>5, RoundTripInv
<1>6. CASE UNCHANGED vars
  <2>1. TypeOK' /\ UNCHANGED <<stats, memories, orgSet>>
    BY <1>6 DEF StatsInv, TypeOK, vars
  <2> QED
    BY <2>1, OtherInv
<1> QED
  BY <1>1, <1>2, <1>3, <1>4, <1>5, <1>6 DEF Next

\* The parts of every developer's record agree, with one another and with the
\* stored memories and org sets, after any sequence of attestations, serves,
\* parameter changes and imports.
THEOREM StatisticsCorrect == Spec => [](TypeOK /\ StatsAddUp /\ BreadthIsOrgs)
<1>1. StatsInv => TypeOK /\ StatsAddUp /\ BreadthIsOrgs
  BY DEF StatsInv, SoundRecord, SoundDeveloper, StatsAddUp, BreadthIsOrgs, Graded,
               Difficulties, WeightValues
<1> QED
  BY <1>1, InitStatsInv, NextStatsInv, PTL DEF Spec

\* What a developer has earned is never lost or lowered, across imports as well,
\* when no other id has the text of its id (AddMemory, RecordServe, genesis).
THEOREM StandingAlwaysKept == Spec => StandingKept
<1> DEFINE Kept(s, t) == /\ t.memoryCount >= s.memoryCount
                         /\ t.xp >= s.xp
                         /\ t.serveXP >= s.serveXP
                         /\ \A tag \in Tags : t.tags[tag] >= s.tags[tag]
                         /\ s.firstSeen # 0 => t.firstSeen = s.firstSeen
                         /\ s.stored => t.stored
           KeptAll == \A d \in Developers :
                          {x \in Developers : JSONText[x] = d} = {d} => Kept(stats[d], stats'[d])
<1>0. ASSUME NEW s \in StoredReputationStats PROVE Kept(s, s)
  BY SMTT(30) DEF StoredReputationStats
<1>1. ASSUME NEW s \in StoredReputationStats, NEW m \in AttestedMemory
      PROVE  Kept(s, AddMemory(s, m))
  <2>1. /\ s.memoryCount \in Nat /\ s.xp \in Nat /\ s.serveXP \in Nat
        /\ s.tags \in [Tags -> Nat]
    BY DEF StoredReputationStats
  <2>2. m.difficulty \in Nat /\ m.quality \in Nat /\ m.tags \in [Tags -> Nat]
    BY AttestedType
  <2>3. m.difficulty * m.quality \in Nat
    BY <2>2, SMTT(30)
  <2> DEFINE t == AddMemory(s, m)
  <2>4. /\ t.memoryCount = s.memoryCount + 1 /\ t.xp = s.xp + m.difficulty * m.quality
        /\ t.serveXP = s.serveXP /\ t.firstSeen = s.firstSeen /\ t.stored = TRUE
        /\ t.tags = [g \in Tags |-> s.tags[g] + m.tags[g]]
    BY AddMemoryFields
  <2> HIDE DEF t
  <2>5. t.memoryCount >= s.memoryCount /\ t.xp >= s.xp /\ t.serveXP >= s.serveXP
    BY <2>1, <2>3, <2>4, SMTT(30)
  <2>6. \A tag \in Tags : t.tags[tag] >= s.tags[tag]
    BY <2>1, <2>2, <2>4, SMTT(30)
  <2> QED
    BY <2>4, <2>5, <2>6 DEF t
<1>2. ASSUME params \in Weights, NEW s \in StoredReputationStats, NEW e, NEW self \in BOOLEAN,
             NEW isNew \in BOOLEAN
      PROVE  Kept(s, AddServe(s, e, self, isNew))
  <2>1. /\ s.memoryCount \in Nat /\ s.xp \in Nat /\ s.serveXP \in Nat
        /\ s.tags \in [Tags -> Nat]
    BY DEF StoredReputationStats
  <2>2. params.self \in Nat /\ params.other \in Nat
    BY <1>2, ReputationConstants
  <2> DEFINE t == AddServe(s, e, self, isNew)
  <2>3. /\ t.memoryCount = s.memoryCount /\ t.xp = s.xp /\ t.tags = s.tags /\ t.stored = TRUE
        /\ t.serveXP = s.serveXP + IF self THEN params.self ELSE params.other
        /\ t.firstSeen = IF s.firstSeen = 0 THEN e ELSE s.firstSeen
    BY DEF AddServe, StoredReputationStats
  <2> HIDE DEF t
  <2> QED
    BY <2>1, <2>2, <2>3, SMTT(30) DEF t
<1>3. StatsInv /\ [Next]_vars => KeptAll
  <2> SUFFICES ASSUME StatsInv, [Next]_vars PROVE KeptAll
    OBVIOUS
  <2>0. /\ stats \in [Developers -> StoredReputationStats] /\ params \in Weights
        /\ \A d \in Developers : stats[d] \in StoredReputationStats
    BY DEF StatsInv, TypeOK
  <2> HIDE DEF Kept
  <2>1. ASSUME NEW d \in Developers, NEW m \in AttestedMemory, UpdateReputation(d, m)
        PROVE  KeptAll
    <3>1. stats' = [stats EXCEPT ![d] = AddMemory(stats[d], m)]
      BY <2>1 DEF UpdateReputation
    <3> QED
      BY <1>0, <1>1, <2>0, <3>1
  <2>2. ASSUME NEW d \in Contributors, NEW o \in Orgs, NEW e \in EpochIds, NEW self \in BOOLEAN,
               RecordServe(d, o, e, self)
        PROVE  KeptAll
    <3>1. stats' = [stats EXCEPT ![d] = AddServe(stats[d], e, self, NewOrg(d, o))]
      BY <2>2 DEF RecordServe
    <3>2. NewOrg(d, o) \in BOOLEAN /\ d \in Developers
      BY ContributorText DEF NewOrg
    <3>3. Kept(stats[d], AddServe(stats[d], e, self, NewOrg(d, o)))
      BY <1>2, <2>0, <3>2
    <3> QED
      BY <1>0, <2>0, <3>1, <3>2, <3>3
  <2>3. CASE GenesisRoundTrip
    BY <1>0, <2>0, <2>3, ImportedRecord
  <2>4. CASE UNCHANGED stats
    BY <1>0, <2>0, <2>4
  <2>5. \/ \E d \in Developers, m \in AttestedMemory : UpdateReputation(d, m)
        \/ \E c \in Contributors, o \in Orgs, e \in EpochIds, self \in BOOLEAN : RecordServe(c, o, e, self)
        \/ GenesisRoundTrip
        \/ UNCHANGED stats
    BY DEF Next, vars, UpdateParams, IncrementContribution, IncrementServe, RecordBan
  <2> QED
    BY <2>1, <2>2, <2>3, <2>4, <2>5
<1>4. StatsInv /\ [Next]_vars => [KeptAll]_vars
  BY <1>3
<1>5. KeptAll => \A d \in Developers :
          {x \in Developers : JSONText[x] = d} = {d} =>
              LET s == stats[d]
                  t == stats'[d]
              IN  /\ t.memoryCount >= s.memoryCount
                  /\ t.xp >= s.xp
                  /\ t.serveXP >= s.serveXP
                  /\ \A tag \in Tags : t.tags[tag] >= s.tags[tag]
                  /\ s.firstSeen # 0 => t.firstSeen = s.firstSeen
                  /\ s.stored => t.stored
  OBVIOUS
<1> QED
  BY <1>4, <1>5, InitStatsInv, NextStatsInv, PTL DEF Spec, StandingKept

=============================================================================
