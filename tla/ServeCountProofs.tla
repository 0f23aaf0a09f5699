-------------------------- MODULE ServeCountProofs --------------------------
(***************************************************************************)
(* Theorems about the statistics of Serve, for all values of its           *)
(* constants: the counters per epoch and per memory agree with the         *)
(* receipts and denials stored, exactly between imports and within bounds  *)
(* across them.                                                            *)
(***************************************************************************)
EXTENDS ServeProofs

\* provers of a leaf that names none
USE ZenonT(30), SMTT(30)

----------------------------------------------------------------------------
(* The statistics of an (org, epoch).                                      *)

\* the memories and the keys that fingerprints name
MemoriesIn(F) == {f[1] : f \in F}

KeysIn(F) == {f[2] : f \in F}

\* Finitely many fingerprints name finitely many memories and keys, no more than
\* there are fingerprints.
LEMMA ImageSizes ==
    ASSUME NEW F, F \subseteq Fingerprints
    PROVE  /\ IsFiniteSet(MemoriesIn(F)) /\ Cardinality(MemoriesIn(F)) <= Cardinality(F)
           /\ IsFiniteSet(KeysIn(F)) /\ Cardinality(KeysIn(F)) <= Cardinality(F)
           /\ Cardinality(MemoriesIn(F)) \in Nat /\ Cardinality(KeysIn(F)) \in Nat
           /\ IsFiniteSet(F) /\ Cardinality(F) \in Nat
<1>1. IsFiniteSet(F)
  BY FiniteFingerprints, FS_Subset
<1> DEFINE A == MemoriesIn(F)
           B == KeysIn(F)
<1>2. [f \in F |-> f[1]] \in Surjection(F, A)
  BY DEF Surjection, MemoriesIn, KeysIn
<1>3. [f \in F |-> f[2]] \in Surjection(F, B)
  BY DEF Surjection, MemoriesIn, KeysIn
<1> HIDE DEF A, B
<1>4. /\ IsFiniteSet(A) /\ Cardinality(A) <= Cardinality(F)
      /\ IsFiniteSet(B) /\ Cardinality(B) <= Cardinality(F)
  BY <1>1, <1>2, <1>3, FS_Surjection
<1>5. Cardinality(A) \in Nat /\ Cardinality(B) \in Nat /\ Cardinality(F) \in Nat
  BY <1>1, <1>4, FS_CardinalityType
<1> QED
  BY <1>1, <1>4, <1>5 DEF A, B

WithOneMore(F, h, q, e) ==
    /\ MemoriesIn(F \cup {<<h, q, e>>}) = MemoriesIn(F) \cup {h}
    /\ KeysIn(F \cup {<<h, q, e>>}) = KeysIn(F) \cup {q}
    /\ Cardinality(MemoriesIn(F) \cup {h}) =
          Cardinality(MemoriesIn(F)) + One(h \notin MemoriesIn(F))
    /\ Cardinality(KeysIn(F) \cup {q}) = Cardinality(KeysIn(F)) + One(q \notin KeysIn(F))

\* One more fingerprint adds its memory and its key.
LEMMA ImagesGrow ==
    ASSUME NEW F, F \subseteq Fingerprints, NEW h, NEW q, NEW e
    PROVE  WithOneMore(F, h, q, e)
<1> DEFINE A == MemoriesIn(F)
           B == KeysIn(F)
<1>1. IsFiniteSet(A) /\ IsFiniteSet(B) /\ Cardinality(A) \in Nat /\ Cardinality(B) \in Nat
  BY ImageSizes
<1> DEFINE g == <<h, q, e>>
<1>2. g[1] = h /\ g[2] = q
  OBVIOUS
<1> HIDE DEF g
<1>3. MemoriesIn(F \cup {g}) = A \cup {h} /\ KeysIn(F \cup {g}) = B \cup {q}
  <2>1. MemoriesIn(F \cup {g}) = A \cup {h}
    BY <1>2 DEF MemoriesIn, KeysIn
  <2>2. KeysIn(F \cup {g}) = B \cup {q}
    BY <1>2 DEF MemoriesIn, KeysIn
  <2> QED
    BY <2>1, <2>2
<1> HIDE DEF A, B
<1>4. Cardinality(A \cup {h}) = Cardinality(A) + One(h \notin A)
  <2>1. Cardinality(A \cup {h}) = IF h \in A THEN Cardinality(A) ELSE Cardinality(A) + 1
    BY <1>1, FS_AddElement
  <2> QED
    BY <1>1, <2>1, SMTT(30) DEF One
<1>5. Cardinality(B \cup {q}) = Cardinality(B) + One(q \notin B)
  <2>1. Cardinality(B \cup {q}) = IF q \in B THEN Cardinality(B) ELSE Cardinality(B) + 1
    BY <1>1, FS_AddElement
  <2> QED
    BY <1>1, <2>1, SMTT(30) DEF One
<1> QED
  BY <1>3, <1>4, <1>5 DEF A, B, g, WithOneMore

\* totals and self serves; models; serves of a memory
TotalsAt(k, o, e) ==
    /\ k.stats[<<o, e>>].total = Cardinality(Served(k, o, e))
    /\ k.stats[<<o, e>>].self = Cardinality(Matching(k, SelfOf(o, e)))

ModelsAt(k, o, e) ==
    \A m \in Models : k.stats[<<o, e>>].models[m] = Cardinality(Matching(k, ModelOf(o, e, m)))

MemoriesAt(k, o, e) ==
    \A h \in Hashes : k.memCount[<<o, h, e>>] = Cardinality(Matching(k, MemoryOf(o, e, h)))

\* distinct memories and keys, with the markers that tell the first serve
UniqueAt(k, o, e) ==
    /\ k.stats[<<o, e>>].memories = Cardinality(MemoriesIn(Served(k, o, e)))
    /\ k.stats[<<o, e>>].keys = Cardinality(KeysIn(Served(k, o, e)))
    /\ \A h \in Hashes : <<o, h, e>> \in k.memFirst <=> h \in MemoriesIn(Served(k, o, e))
    /\ \A q \in ServeKeys : <<o, q, e>> \in k.keyFirst <=> q \in KeysIn(Served(k, o, e))

\* An accepted entry counts in the statistics of its own (org, epoch) only.
LEMMA EntryStats ==
    ASSUME NEW s \in LoopState, NEW o \in Orgs, NEW e \in EpochIds, NEW x \in ServeEntry,
           NEW t, EntryEffect(t, s, o, e, x), NEW u \in Orgs, NEW d \in EpochIds
    PROVE  /\ u = o /\ d = e => t.kv.stats[<<u, d>>] = StatsAfter(s.kv, o, e, x)
           /\ ~(u = o /\ d = e) => t.kv.stats[<<u, d>>] = s.kv.stats[<<u, d>>]
           /\ s.kv.stats[<<u, d>>] \in EpochStats
<1>1. t.kv.stats = [s.kv.stats EXCEPT ![<<o, e>>] = StatsAfter(s.kv, o, e, x)]
  BY DEF EntryEffect
<1>2. s.kv.stats \in [Orgs \X EpochIds -> EpochStats]
  BY DEF LoopState, Store
<1> DEFINE v == StatsAfter(s.kv, o, e, x)
<1> HIDE DEF v
<1> QED
  BY <1>1, <1>2 DEF v

\* updateEpochStats keeps the totals and the self serves those of the receipts.
LEMMA EntryTotals ==
    ASSUME NEW s \in LoopState, NEW o \in Orgs, NEW e \in EpochIds, NEW x \in ServeEntry,
           Accepts(s.kv, o, e, x), NEW t, EntryEffect(t, s, o, e, x),
           NEW u \in Orgs, NEW d \in EpochIds, TotalsAt(s.kv, u, d)
    PROVE  TotalsAt(t.kv, u, d)
<1> DEFINE k == s.kv
           l == t.kv
<1>1. Grown(l, k, o, e, x)
  BY EntryGrows
<1>2. /\ u = o /\ d = e => l.stats[<<u, d>>] = StatsAfter(k, o, e, x)
      /\ ~(u = o /\ d = e) => l.stats[<<u, d>>] = k.stats[<<u, d>>]
  BY EntryStats, SMTT(30)
<1>3. TotalsAt(k, u, d)
  OBVIOUS
<1> SUFFICES TotalsAt(l, u, d)
  OBVIOUS
<1> HIDE DEF k, l
<1>4. /\ Item(o, e, x) \in OrgEpoch(u, d) <=> u = o /\ d = e
      /\ Item(o, e, x) \in SelfOf(u, d) <=> u = o /\ d = e /\ x.key = x.contributor
  BY NewMember, SMTT(30)
<1>5. CASE u = o /\ d = e
  <2>1. /\ l.stats[<<u, d>>].total = k.stats[<<u, d>>].total + 1
        /\ l.stats[<<u, d>>].self = k.stats[<<u, d>>].self + One(x.key = x.contributor)
    BY <1>2, <1>5, SMTT(30) DEF StatsAfter
  <2>2. Cardinality(Served(l, u, d)) = Cardinality(Served(k, u, d)) + 1
    BY <1>1, <1>4, <1>5, Counted, SMTT(30) DEF Served
  <2>3. CASE x.key = x.contributor
    <3>1. Cardinality(Matching(l, SelfOf(u, d))) = Cardinality(Matching(k, SelfOf(u, d))) + 1
      BY <1>1, <1>4, <1>5, <2>3, Counted, SMTT(30)
    <3> QED
      BY <1>3, <2>1, <2>2, <2>3, <3>1 DEF TotalsAt, One
  <2>4. CASE x.key # x.contributor
    <3>1. Matching(l, SelfOf(u, d)) = Matching(k, SelfOf(u, d))
      BY <1>1, <1>4, <1>5, <2>4, NotCounted, SMTT(30)
    <3> QED
      BY <1>3, <2>1, <2>2, <2>4, <3>1, CountIsNat, SMTT(30) DEF TotalsAt, One
  <2> QED
    BY <2>3, <2>4
<1>6. CASE ~(u = o /\ d = e)
  <2>1. Served(l, u, d) = Served(k, u, d)
    BY <1>1, <1>4, <1>6, NotCounted, SMTT(30) DEF Served
  <2>2. Matching(l, SelfOf(u, d)) = Matching(k, SelfOf(u, d))
    BY <1>1, <1>4, <1>6, NotCounted, SMTT(30)
  <2> QED
    BY <1>2, <1>3, <1>6, <2>1, <2>2 DEF TotalsAt
<1> QED
  BY <1>5, <1>6

\* updateEpochStats keeps the serves of each model those of the receipts.
LEMMA EntryModels ==
    ASSUME NEW s \in LoopState, NEW o \in Orgs, NEW e \in EpochIds, NEW x \in ServeEntry,
           Accepts(s.kv, o, e, x), NEW t, EntryEffect(t, s, o, e, x),
           NEW u \in Orgs, NEW d \in EpochIds, ModelsAt(s.kv, u, d)
    PROVE  ModelsAt(t.kv, u, d)
<1> DEFINE k == s.kv
           l == t.kv
<1>1. Grown(l, k, o, e, x)
  BY EntryGrows
<1>2. /\ u = o /\ d = e => l.stats[<<u, d>>] = StatsAfter(k, o, e, x)
      /\ ~(u = o /\ d = e) => l.stats[<<u, d>>] = k.stats[<<u, d>>]
      /\ k.stats[<<u, d>>] \in EpochStats
  BY EntryStats
<1>3. ModelsAt(k, u, d)
  OBVIOUS
<1> SUFFICES ModelsAt(l, u, d)
  OBVIOUS
<1> HIDE DEF k, l
<1> SUFFICES ASSUME NEW m \in Models
             PROVE  l.stats[<<u, d>>].models[m] = Cardinality(Matching(l, ModelOf(u, d, m)))
  BY DEF ModelsAt
<1>4. k.stats[<<u, d>>].models[m] = Cardinality(Matching(k, ModelOf(u, d, m)))
  BY <1>3 DEF ModelsAt
<1>5. Item(o, e, x) \in ModelOf(u, d, m) <=> u = o /\ d = e /\ x.model = m /\ m # NoModel
  BY NewMember, SMTT(30)
<1>6. CASE u = o /\ d = e
  <2> DEFINE old == k.stats[<<u, d>>].models
             new == l.stats[<<u, d>>].models
  <2>1. new = [old EXCEPT ![x.model] = @ + One(x.model # NoModel)]
    BY <1>2, <1>6, SMTT(30) DEF StatsAfter
  <2>2. old \in [Models -> Nat]
    BY <1>2 DEF EpochStats
  <2> HIDE DEF old, new
  <2>3. CASE x.model = m /\ m # NoModel
    <3>1. new[m] = old[m] + 1
      BY <2>1, <2>2, <2>3 DEF One
    <3>2. Cardinality(Matching(l, ModelOf(u, d, m))) = Cardinality(Matching(k, ModelOf(u, d, m))) + 1
      BY <1>1, <1>5, <1>6, <2>3, Counted, SMTT(30)
    <3> QED
      BY <1>4, <3>1, <3>2 DEF old, new
  <2>4. CASE ~(x.model = m /\ m # NoModel)
    <3>1. new[m] = old[m]
      BY <2>1, <2>2, <2>4, SMTT(30) DEF One
    <3>2. Matching(l, ModelOf(u, d, m)) = Matching(k, ModelOf(u, d, m))
      BY <1>1, <1>5, <1>6, <2>4, NotCounted, SMTT(30)
    <3> QED
      BY <1>4, <3>1, <3>2 DEF old, new
  <2> QED
    BY <2>3, <2>4
<1>7. CASE ~(u = o /\ d = e)
  <2>1. Matching(l, ModelOf(u, d, m)) = Matching(k, ModelOf(u, d, m))
    BY <1>1, <1>5, <1>7, NotCounted, SMTT(30)
  <2> QED
    BY <1>2, <1>4, <1>7, <2>1
<1> QED
  BY <1>6, <1>7

\* The count of a memory moves as the receipts of the memory do, so the two stay
\* equal, or the count stays the smaller.
LEMMA EntryMemories ==
    ASSUME NEW s \in LoopState, NEW o \in Orgs, NEW e \in EpochIds, NEW x \in ServeEntry,
           Accepts(s.kv, o, e, x), NEW t, EntryEffect(t, s, o, e, x),
           NEW u \in Orgs, NEW d \in EpochIds, NEW h \in Hashes
    PROVE  LET before == Cardinality(Matching(s.kv, MemoryOf(u, d, h)))
               after == Cardinality(Matching(t.kv, MemoryOf(u, d, h)))
               b == s.kv.memCount[<<u, h, d>>]
               a == t.kv.memCount[<<u, h, d>>]
           IN  /\ b = before => a = after
               /\ b <= before => a <= after
<1> DEFINE k == s.kv
           l == t.kv
           m == <<u, h, d>>
           n == <<o, x.hash, e>>
           before == Cardinality(Matching(k, MemoryOf(u, d, h)))
           after == Cardinality(Matching(l, MemoryOf(u, d, h)))
<1>1. Grown(l, k, o, e, x)
  BY EntryGrows
<1>2. k.memCount \in Counts /\ l.memCount = [k.memCount EXCEPT ![n] = @ + 1]
  BY DEF LoopState, Store, EntryEffect, Counts
<1>3. m \in Orgs \X Hashes \X EpochIds /\ n \in Orgs \X Hashes \X EpochIds
  BY DEF ServeEntry
<1>4. m = n <=> u = o /\ d = e /\ x.hash = h
  OBVIOUS
<1> SUFFICES /\ k.memCount[m] = before => l.memCount[m] = after
             /\ k.memCount[m] <= before => l.memCount[m] <= after
  OBVIOUS
<1> HIDE DEF k, l, m, n
<1>5. Item(o, e, x) \in MemoryOf(u, d, h) <=> m = n
  BY <1>4, NewMember, SMTT(30)
<1>6. before \in Nat
  BY CountIsNat
<1>7. CASE m = n
  <2>1. after = before + 1
    BY <1>1, <1>5, <1>7, Counted, SMTT(30)
  <2>2. l.memCount[m] = k.memCount[m] + 1 /\ k.memCount[m] \in Nat
    BY <1>2, <1>3, <1>7 DEF Counts
  <2> HIDE DEF before, after
  <2> QED
    BY <1>6, <2>1, <2>2, SMTT(30)
<1>8. CASE m # n
  <2>1. after = before
    BY <1>1, <1>5, <1>8, NotCounted, SMTT(30)
  <2>2. l.memCount[m] = k.memCount[m]
    BY <1>2, <1>3, <1>8 DEF Counts
  <2> HIDE DEF before, after
  <2> QED
    BY <2>1, <2>2
<1> QED
  BY <1>7, <1>8

\* after an import: the unique counters are not below the distinct memories and
\* keys, nor above the total, and a marker stands on a receipt
BoundedAt(k, o, e) ==
    /\ Cardinality(MemoriesIn(Served(k, o, e))) <= k.stats[<<o, e>>].memories
    /\ k.stats[<<o, e>>].memories <= k.stats[<<o, e>>].total
    /\ Cardinality(KeysIn(Served(k, o, e))) <= k.stats[<<o, e>>].keys
    /\ k.stats[<<o, e>>].keys <= k.stats[<<o, e>>].total
    /\ \A h \in Hashes : <<o, h, e>> \in k.memFirst => h \in MemoriesIn(Served(k, o, e))
    /\ \A q \in ServeKeys : <<o, q, e>> \in k.keyFirst => q \in KeysIn(Served(k, o, e))

\* what an accepted entry does to the memories, the keys and their markers
UniqueAfter(l, k, o, e, x) ==
    /\ MemoriesIn(Served(l, o, e)) = MemoriesIn(Served(k, o, e)) \cup {x.hash}
    /\ KeysIn(Served(l, o, e)) = KeysIn(Served(k, o, e)) \cup {x.key}
    /\ Cardinality(MemoriesIn(Served(l, o, e))) =
          Cardinality(MemoriesIn(Served(k, o, e)))
          + One(x.hash \notin MemoriesIn(Served(k, o, e)))
    /\ Cardinality(KeysIn(Served(l, o, e))) =
          Cardinality(KeysIn(Served(k, o, e)))
          + One(x.key \notin KeysIn(Served(k, o, e)))
    /\ l.stats[<<o, e>>].memories =
          k.stats[<<o, e>>].memories + One(<<o, x.hash, e>> \notin k.memFirst)
    /\ l.stats[<<o, e>>].keys =
          k.stats[<<o, e>>].keys + One(<<o, x.key, e>> \notin k.keyFirst)
    /\ l.stats[<<o, e>>].total = k.stats[<<o, e>>].total + 1
    /\ l.memFirst = k.memFirst \cup {<<o, x.hash, e>>}
    /\ l.keyFirst = k.keyFirst \cup {<<o, x.key, e>>}

\* The first serve of a memory, and the first by a key, in an (org, epoch) set
\* their marker and raise the unique counter; later ones change neither
\* (memFirstKey and keyFirstKey in updateEpochStats).
LEMMA EntryUnique ==
    ASSUME NEW s \in LoopState, NEW o \in Orgs, NEW e \in EpochIds, NEW x \in ServeEntry,
           Accepts(s.kv, o, e, x), NEW t, EntryEffect(t, s, o, e, x)
    PROVE  UniqueAfter(t.kv, s.kv, o, e, x)
<1> DEFINE k == s.kv
           l == t.kv
           F == Served(k, o, e)
<1>1. Grown(l, k, o, e, x)
  BY EntryGrows
<1>2. l.stats[<<o, e>>] = StatsAfter(k, o, e, x)
  BY EntryStats, SMTT(30)
<1>3. /\ l.memFirst = k.memFirst \cup {<<o, x.hash, e>>}
      /\ l.keyFirst = k.keyFirst \cup {<<o, x.key, e>>}
  BY DEF EntryEffect
<1> SUFFICES UniqueAfter(l, k, o, e, x)
  OBVIOUS
<1> HIDE DEF k, l
<1>4. Served(l, o, e) = F \cup {<<x.hash, x.key, e>>}
  <2>1. Item(o, e, x) \in OrgEpoch(o, e)
    BY NewMember
  <2>2. Served(l, o, e) = F \cup {FingerprintOf(e, x)}
    BY <1>1, <2>1, Joined, SMTT(30) DEF Served
  <2> QED
    BY <2>2 DEF FingerprintOf
<1>5. F \subseteq Fingerprints
  BY DEF Served, Matching
<1> HIDE DEF F
<1>6. WithOneMore(F, x.hash, x.key, e)
  BY <1>5, ImagesGrow
<1>7. /\ l.stats[<<o, e>>].memories =
            k.stats[<<o, e>>].memories + One(<<o, x.hash, e>> \notin k.memFirst)
      /\ l.stats[<<o, e>>].keys =
            k.stats[<<o, e>>].keys + One(<<o, x.key, e>> \notin k.keyFirst)
      /\ l.stats[<<o, e>>].total = k.stats[<<o, e>>].total + 1
  BY <1>2, SMTT(30) DEF StatsAfter
<1> QED
  BY <1>3, <1>4, <1>6, <1>7 DEF UniqueAfter, WithOneMore, F

\* What belongs to another (org, epoch) is left alone by an accepted entry.
LEMMA EntryElsewhere ==
    ASSUME NEW s \in LoopState, NEW o \in Orgs, NEW e \in EpochIds, NEW x \in ServeEntry,
           Accepts(s.kv, o, e, x), NEW t, EntryEffect(t, s, o, e, x),
           NEW u \in Orgs, NEW d \in EpochIds, ~(u = o /\ d = e)
    PROVE  /\ Served(t.kv, u, d) = Served(s.kv, u, d)
           /\ t.kv.stats[<<u, d>>] = s.kv.stats[<<u, d>>]
           /\ \A h : <<u, h, d>> \in t.kv.memFirst <=> <<u, h, d>> \in s.kv.memFirst
           /\ \A q : <<u, q, d>> \in t.kv.keyFirst <=> <<u, q, d>> \in s.kv.keyFirst
<1> DEFINE k == s.kv
           l == t.kv
<1>1. Grown(l, k, o, e, x)
  BY EntryGrows
<1>2. l.stats[<<u, d>>] = k.stats[<<u, d>>]
  BY EntryStats, SMTT(30)
<1>3. /\ l.memFirst = k.memFirst \cup {<<o, x.hash, e>>}
      /\ l.keyFirst = k.keyFirst \cup {<<o, x.key, e>>}
  BY DEF EntryEffect
<1> HIDE DEF k, l
<1>4. Served(l, u, d) = Served(k, u, d)
  <2>1. Item(o, e, x) \notin OrgEpoch(u, d)
    BY NewMember, SMTT(30)
  <2> QED
    BY <1>1, <2>1, NotCounted, SMTT(30) DEF Served
<1>5. /\ \A h : <<u, h, d>> # <<o, x.hash, e>>
      /\ \A q : <<u, q, d>> # <<o, x.key, e>>
  OBVIOUS
<1> QED
  BY <1>2, <1>3, <1>4, <1>5 DEF k, l

\* updateEpochStats keeps the unique counters and the markers exact.
LEMMA UniqueExact ==
    ASSUME NEW k, NEW l, NEW o \in Orgs, NEW e \in EpochIds, NEW x \in ServeEntry,
           UniqueAfter(l, k, o, e, x), UniqueAt(k, o, e)
    PROVE  UniqueAt(l, o, e)
<1> DEFINE A == MemoriesIn(Served(k, o, e))
           B == KeysIn(Served(k, o, e))
           C == MemoriesIn(Served(l, o, e))
           D == KeysIn(Served(l, o, e))
           before == k.stats[<<o, e>>]
           after == l.stats[<<o, e>>]
<1>1. /\ C = A \cup {x.hash} /\ D = B \cup {x.key}
      /\ Cardinality(C) = Cardinality(A) + One(x.hash \notin A)
      /\ Cardinality(D) = Cardinality(B) + One(x.key \notin B)
      /\ after.memories = before.memories + One(<<o, x.hash, e>> \notin k.memFirst)
      /\ after.keys = before.keys + One(<<o, x.key, e>> \notin k.keyFirst)
      /\ l.memFirst = k.memFirst \cup {<<o, x.hash, e>>}
      /\ l.keyFirst = k.keyFirst \cup {<<o, x.key, e>>}
  BY DEF UniqueAfter
<1>2. /\ before.memories = Cardinality(A) /\ before.keys = Cardinality(B)
      /\ \A h \in Hashes : <<o, h, e>> \in k.memFirst <=> h \in A
      /\ \A q \in ServeKeys : <<o, q, e>> \in k.keyFirst <=> q \in B
  BY DEF UniqueAt
<1> SUFFICES /\ after.memories = Cardinality(C) /\ after.keys = Cardinality(D)
             /\ \A h \in Hashes : <<o, h, e>> \in l.memFirst <=> h \in C
             /\ \A q \in ServeKeys : <<o, q, e>> \in l.keyFirst <=> q \in D
  BY DEF UniqueAt
<1> HIDE DEF A, B, C, D, before, after
<1>3. x.hash \in Hashes /\ x.key \in ServeKeys
  BY DEF ServeEntry
<1>4. after.memories = Cardinality(C) /\ after.keys = Cardinality(D)
  BY <1>1, <1>2, <1>3 DEF One
<1>5. \A h \in Hashes : <<o, h, e>> \in l.memFirst <=> h \in C
  BY <1>1, <1>2
<1>6. \A q \in ServeKeys : <<o, q, e>> \in l.keyFirst <=> q \in D
  BY <1>1, <1>2
<1> QED
  BY <1>4, <1>5, <1>6

\* Where markers are missing, as after an import, the unique counters are kept
\* within their bounds.
LEMMA UniqueBounded ==
    ASSUME NEW k, NEW l, NEW o \in Orgs, NEW e \in EpochIds, NEW x \in ServeEntry,
           k.stats[<<o, e>>] \in EpochStats,
           UniqueAfter(l, k, o, e, x), BoundedAt(k, o, e)
    PROVE  BoundedAt(l, o, e)
<1> DEFINE A == MemoriesIn(Served(k, o, e))
           B == KeysIn(Served(k, o, e))
           C == MemoriesIn(Served(l, o, e))
           D == KeysIn(Served(l, o, e))
           before == k.stats[<<o, e>>]
           after == l.stats[<<o, e>>]
<1>1. /\ C = A \cup {x.hash} /\ D = B \cup {x.key}
      /\ Cardinality(C) = Cardinality(A) + One(x.hash \notin A)
      /\ Cardinality(D) = Cardinality(B) + One(x.key \notin B)
      /\ after.memories = before.memories + One(<<o, x.hash, e>> \notin k.memFirst)
      /\ after.keys = before.keys + One(<<o, x.key, e>> \notin k.keyFirst)
      /\ after.total = before.total + 1
      /\ l.memFirst = k.memFirst \cup {<<o, x.hash, e>>}
      /\ l.keyFirst = k.keyFirst \cup {<<o, x.key, e>>}
  BY DEF UniqueAfter
<1>2. /\ Cardinality(A) <= before.memories /\ before.memories <= before.total
      /\ Cardinality(B) <= before.keys /\ before.keys <= before.total
      /\ \A h \in Hashes : <<o, h, e>> \in k.memFirst => h \in A
      /\ \A q \in ServeKeys : <<o, q, e>> \in k.keyFirst => q \in B
  BY DEF BoundedAt
<1> SUFFICES /\ Cardinality(C) <= after.memories /\ after.memories <= after.total
             /\ Cardinality(D) <= after.keys /\ after.keys <= after.total
             /\ \A h \in Hashes : <<o, h, e>> \in l.memFirst => h \in C
             /\ \A q \in ServeKeys : <<o, q, e>> \in l.keyFirst => q \in D
  BY DEF BoundedAt
<1>3. Cardinality(A) \in Nat /\ Cardinality(B) \in Nat
  BY ImageSizes DEF Served, Matching
<1>4. before.memories \in Nat /\ before.keys \in Nat /\ before.total \in Nat
  BY DEF EpochStats
<1> HIDE DEF A, B, C, D, before, after
<1>5. x.hash \in Hashes /\ x.key \in ServeKeys
  BY DEF ServeEntry
<1>6. Cardinality(C) <= after.memories /\ after.memories <= after.total
  BY <1>1, <1>2, <1>3, <1>4, <1>5, SMTT(30) DEF One
<1>7. Cardinality(D) <= after.keys /\ after.keys <= after.total
  BY <1>1, <1>2, <1>3, <1>4, <1>5, SMTT(30) DEF One
<1>8. \A h \in Hashes : <<o, h, e>> \in l.memFirst => h \in C
  BY <1>1, <1>2
<1>9. \A q \in ServeKeys : <<o, q, e>> \in l.keyFirst => q \in D
  BY <1>1, <1>2
<1> QED
  BY <1>6, <1>7, <1>8, <1>9

----------------------------------------------------------------------------
(* Batches of serves.                                                      *)

MemoriesBelow(k, o, e) ==
    \A h \in Hashes : k.memCount[<<o, h, e>>] <= Cardinality(Matching(k, MemoryOf(o, e, h)))

\* the counters of the store are those of its receipts; after an import, they
\* are within their bounds
Exact(k) ==
    \A o \in Orgs, e \in EpochIds :
        TotalsAt(k, o, e) /\ ModelsAt(k, o, e) /\ MemoriesAt(k, o, e) /\ UniqueAt(k, o, e)

Survives(k) ==
    \A o \in Orgs, e \in EpochIds :
        TotalsAt(k, o, e) /\ MemoriesBelow(k, o, e) /\ BoundedAt(k, o, e)

\* An accepted entry keeps the counters exact (updateEpochStats).
LEMMA EntryExact ==
    ASSUME NEW s \in LoopState, NEW o \in Orgs, NEW e \in EpochIds, NEW x \in ServeEntry,
           Accepts(s.kv, o, e, x), NEW t, EntryEffect(t, s, o, e, x), Exact(s.kv)
    PROVE  Exact(t.kv)
<1> SUFFICES ASSUME NEW u \in Orgs, NEW d \in EpochIds
             PROVE  /\ TotalsAt(t.kv, u, d) /\ ModelsAt(t.kv, u, d)
                    /\ MemoriesAt(t.kv, u, d) /\ UniqueAt(t.kv, u, d)
  BY DEF Exact
<1>1. TotalsAt(s.kv, u, d) /\ ModelsAt(s.kv, u, d) /\ MemoriesAt(s.kv, u, d) /\ UniqueAt(s.kv, u, d)
  BY DEF Exact
<1>2. TotalsAt(t.kv, u, d)
  BY <1>1, EntryTotals
<1>3. ModelsAt(t.kv, u, d)
  BY <1>1, EntryModels
<1>4. MemoriesAt(t.kv, u, d)
  BY <1>1, EntryMemories, SMTT(30) DEF MemoriesAt
<1>5. UniqueAt(t.kv, u, d)
  <2>1. CASE u = o /\ d = e
    <3>1. UniqueAfter(t.kv, s.kv, o, e, x)
      BY EntryUnique
    <3> QED
      BY <1>1, <2>1, <3>1, UniqueExact
  <2>2. CASE ~(u = o /\ d = e)
    BY <1>1, <2>2, EntryElsewhere, SMTT(30) DEF UniqueAt
  <2> QED
    BY <2>1, <2>2
<1> QED
  BY <1>2, <1>3, <1>4, <1>5

\* And it keeps them within the bounds of an imported state.
LEMMA EntrySurvives ==
    ASSUME NEW s \in LoopState, NEW o \in Orgs, NEW e \in EpochIds, NEW x \in ServeEntry,
           Accepts(s.kv, o, e, x), NEW t, EntryEffect(t, s, o, e, x), Survives(s.kv)
    PROVE  Survives(t.kv)
<1> SUFFICES ASSUME NEW u \in Orgs, NEW d \in EpochIds
             PROVE  TotalsAt(t.kv, u, d) /\ MemoriesBelow(t.kv, u, d) /\ BoundedAt(t.kv, u, d)
  BY DEF Survives
<1>1. TotalsAt(s.kv, u, d) /\ MemoriesBelow(s.kv, u, d) /\ BoundedAt(s.kv, u, d)
  BY DEF Survives
<1>2. TotalsAt(t.kv, u, d)
  BY <1>1, EntryTotals
<1>3. MemoriesBelow(t.kv, u, d)
  BY <1>1, EntryMemories DEF MemoriesBelow
<1>4. BoundedAt(t.kv, u, d)
  <2>1. CASE u = o /\ d = e
    <3>1. UniqueAfter(t.kv, s.kv, o, e, x)
      BY EntryUnique
    <3>2. s.kv.stats[<<o, e>>] \in EpochStats
      BY EntryStats
    <3> QED
      BY <1>1, <2>1, <3>1, <3>2, UniqueBounded
  <2>2. CASE ~(u = o /\ d = e)
    BY <1>1, <2>2, EntryElsewhere, SMTT(30) DEF BoundedAt
  <2> QED
    BY <2>1, <2>2
<1> QED
  BY <1>2, <1>3, <1>4

\* What accepted entries keep, a batch keeps.
LEMMA ServeBatchCounts ==
    ASSUME TypeInv, NEW signer, NEW o \in Orgs, NEW e \in EpochIds,
           NEW b \in Batches(ServeEntry, MaxServes), SubmitServeBatch(signer, o, e, b)
    PROVE  /\ Exact(kv) => Exact(kv')
           /\ Survives(kv) => Survives(kv')
<1>1. Now \in LoopState /\ Now.kv = kv
  BY DEF Now, LoopState, TypeInv
<1>2. ASSUME NEW s \in LoopState, NEW x \in ServeEntry, Accepts(s.kv, o, e, x)
      PROVE  /\ ProcessEntry(s, o, e, x) \in LoopState
             /\ EntryEffect(ProcessEntry(s, o, e, x), s, o, e, x)
  BY <1>2, EntryType, EntryFields DEF TypeInv
<1>3. Exact(kv) => Exact(kv')
  <2> SUFFICES ASSUME Exact(kv) PROVE Exact(kv')
    OBVIOUS
  <2> DEFINE X == {s \in LoopState : Exact(s.kv)}
  <2>1. X \subseteq LoopState /\ Now \in X
    BY <1>1
  <2>2. \A s \in X, x \in ServeEntry : Accepts(s.kv, o, e, x) => ProcessEntry(s, o, e, x) \in X
    BY <1>2, EntryExact
  <2> HIDE DEF X
  <2>3. Now' \in X
    BY <2>1, <2>2, ServeBatchKeeps
  <2> QED
    BY <2>3 DEF X, Now
<1>4. Survives(kv) => Survives(kv')
  <2> SUFFICES ASSUME Survives(kv) PROVE Survives(kv')
    OBVIOUS
  <2> DEFINE X == {s \in LoopState : Survives(s.kv)}
  <2>1. X \subseteq LoopState /\ Now \in X
    BY <1>1
  <2>2. \A s \in X, x \in ServeEntry : Accepts(s.kv, o, e, x) => ProcessEntry(s, o, e, x) \in X
    BY <1>2, EntrySurvives
  <2> HIDE DEF X
  <2>3. Now' \in X
    BY <2>1, <2>2, ServeBatchKeeps
  <2> QED
    BY <2>3 DEF X, Now
<1> QED
  BY <1>3, <1>4

----------------------------------------------------------------------------
(* Batches of denials.                                                     *)

\* the denials with a serve of an (org, epoch), and the denials of a memory
DeniedIn(R, o, e) == {r \in R : r[1] = o /\ r[3] = e /\ r[5] # NoFingerprint}

DenialsFor(R, m) == {r \in R : <<r[1], r[2], r[3]>> = m}

\* r stands on a stored serve of its memory and its key
StandsOn(r) ==
    /\ r[5] \in Fingerprints /\ r[5] # NoFingerprint
    /\ kv.receipt[r[5]] # NoReceipt
    /\ r[2] = r[5][1]
    /\ r[4] = r[5][2]

\* statistics that differ in the denials only
SameServes(a, b) ==
    /\ a.memories = b.memories /\ a.keys = b.keys /\ a.total = b.total
    /\ a.self = b.self /\ a.models = b.models

\* what the loop over a denial batch reaches from c
Balanced(d, c) ==
    /\ c.receipts \subseteq d.receipts
    /\ \A r \in d.receipts : r \in c.receipts \/ StandsOn(r)
    /\ \A u \in Orgs, n \in EpochIds :
          /\ SameServes(d.stats[<<u, n>>], c.stats[<<u, n>>])
          /\ d.stats[<<u, n>>].denials + Cardinality(DeniedIn(c.receipts, u, n)) =
                c.stats[<<u, n>>].denials + Cardinality(DeniedIn(d.receipts, u, n))
    /\ \A m \in Orgs \X Hashes \X EpochIds :
          d.count[m] + Cardinality(DenialsFor(c.receipts, m)) =
              c.count[m] + Cardinality(DenialsFor(d.receipts, m))

\* An accepted denial is new, stands on a serve, and counts once for its memory
\* and once for its (org, epoch) (SubmitDenialBatch).
LEMMA DenialBalance ==
    ASSUME NEW c \in DenialState, NEW d \in DenialState, NEW o \in Orgs, NEW e \in EpochIds,
           NEW x \in DenialEntry, Denies(d, o, e, x), Balanced(d, c),
           NEW t, DenialEffect(t, d, o, e, x)
    PROVE  Balanced(t, c)
<1> DEFINE r == DenialOf(o, e, x)
<1>1. t.receipts = d.receipts \cup {r}
  BY DEF DenialEffect
<1>2. r \notin d.receipts /\ IsFiniteSet(d.receipts)
  BY DEF Denies, DenialOf, DenialState, DenialSets
<1>3. r[1] = o /\ r[2] = x.hash /\ r[3] = e /\ r[4] = x.key /\ r[5] = x.fingerprint
  BY DEF DenialOf
<1>4. StandsOn(r)
  <2>1. x.fingerprint \in Fingerprints
    BY DEF DenialEntry
  <2>2. x.fingerprint # NoFingerprint
    BY <2>1, SMTT(30) DEF Fingerprints, NoFingerprint
  <2>3. /\ kv.receipt[x.fingerprint] # NoReceipt /\ x.hash = x.fingerprint[1]
        /\ x.key = x.fingerprint[2]
    BY DEF Denies
  <2> HIDE DEF r
  <2> QED
    BY <1>3, <2>1, <2>2, <2>3 DEF StandsOn
<1> HIDE DEF r
<1>5. c.receipts \subseteq t.receipts /\ \A z \in t.receipts : z \in c.receipts \/ StandsOn(z)
  BY <1>1, <1>4 DEF Balanced
<1>6. ASSUME NEW u \in Orgs, NEW n \in EpochIds
      PROVE  /\ SameServes(t.stats[<<u, n>>], c.stats[<<u, n>>])
             /\ t.stats[<<u, n>>].denials + Cardinality(DeniedIn(c.receipts, u, n)) =
                   c.stats[<<u, n>>].denials + Cardinality(DeniedIn(t.receipts, u, n))
  <2> DEFINE a == d.stats[<<u, n>>]
             z == t.stats[<<u, n>>]
             b == c.stats[<<u, n>>]
             D == DeniedIn(d.receipts, u, n)
             E == DeniedIn(t.receipts, u, n)
             C == DeniedIn(c.receipts, u, n)
  <2>1. t.stats = [d.stats EXCEPT ![<<o, e>>] = OneMoreDenial(d.stats[<<o, e>>])]
    BY DEF DenialEffect
  <2>2. d.stats \in [Orgs \X EpochIds -> EpochStats] /\ a \in EpochStats /\ b \in EpochStats
    BY DEF DenialState
  <2>3. SameServes(a, b) /\ a.denials + Cardinality(C) = b.denials + Cardinality(D)
    BY DEF Balanced
  <2>4. IsFiniteSet(D) /\ IsFiniteSet(C)
    BY <1>2, FS_Subset DEF DeniedIn, DenialState, DenialSets
  <2>5. Cardinality(D) \in Nat /\ Cardinality(C) \in Nat
    BY <2>4, FS_CardinalityType
  <2>6. a.denials \in Nat /\ b.denials \in Nat
    BY <2>2 DEF EpochStats
  <2>7. CASE u = o /\ n = e
    <3>1. z = OneMoreDenial(a)
      <4> DEFINE v == OneMoreDenial(d.stats[<<o, e>>])
      <4> HIDE DEF v
      <4>1. t.stats = [d.stats EXCEPT ![<<o, e>>] = v]
        BY <2>1 DEF v
      <4>2. z = v
        BY <2>2, <2>7, <4>1
      <4> QED
        BY <2>7, <4>2 DEF v
    <3> HIDE DEF a, z, b, D, E, C
    <3>2. SameServes(z, b) /\ z.denials = a.denials + 1
      BY <2>2, <2>3, <3>1, DenialStats DEF SameServes
    <3>3. E = D \cup {r} /\ r \notin D
      BY <1>1, <1>2, <1>3, <1>4, <2>7 DEF D, E, DeniedIn, StandsOn
    <3>4. Cardinality(E) = Cardinality(D) + 1
      BY <2>4, <3>3, FS_AddElement
    <3>5. z.denials + Cardinality(C) = b.denials + Cardinality(E)
      BY <2>3, <2>5, <2>6, <3>2, <3>4, SMTT(30)
    <3> QED
      BY <3>2, <3>5 DEF z, b, C, E
  <2>8. CASE ~(u = o /\ n = e)
    <3>1. z = a
      <4> DEFINE v == OneMoreDenial(d.stats[<<o, e>>])
      <4> HIDE DEF v
      <4>1. t.stats = [d.stats EXCEPT ![<<o, e>>] = v]
        BY <2>1 DEF v
      <4> QED
        BY <2>2, <2>8, <4>1
    <3>2. E = D
      BY <1>1, <1>3, <2>8 DEF DeniedIn
    <3> HIDE DEF a, z, b, D, E, C
    <3> QED
      BY <2>3, <3>1, <3>2 DEF z, b, C, E
  <2> QED
    BY <2>7, <2>8
<1>7. ASSUME NEW m \in Orgs \X Hashes \X EpochIds
      PROVE  t.count[m] + Cardinality(DenialsFor(c.receipts, m)) =
                 c.count[m] + Cardinality(DenialsFor(t.receipts, m))
  <2> DEFINE D == DenialsFor(d.receipts, m)
             E == DenialsFor(t.receipts, m)
             C == DenialsFor(c.receipts, m)
             n == <<o, x.hash, e>>
  <2>1. /\ t.count = [d.count EXCEPT ![n] = @ + 1]
        /\ d.count \in [DenialKeys -> Nat]
        /\ c.count \in [DenialKeys -> Nat]
        /\ m \in DenialKeys
    BY DEF DenialEffect, DenialState, DenialCounts, DenialKeys
  <2>2. d.count[m] + Cardinality(C) = c.count[m] + Cardinality(D)
    BY DEF Balanced
  <2>3. IsFiniteSet(D) /\ IsFiniteSet(C)
    BY <1>2, FS_Subset DEF DenialsFor, DenialState, DenialSets
  <2>4. Cardinality(D) \in Nat /\ Cardinality(C) \in Nat
    BY <2>3, FS_CardinalityType
  <2>5. <<r[1], r[2], r[3]>> = n
    BY <1>3
  <2> HIDE DEF n
  <2>6. CASE m = n
    <3>1. t.count[m] = d.count[m] + 1 /\ d.count[m] \in Nat /\ c.count[m] \in Nat
      BY <2>1, <2>6
    <3>2. E = D \cup {r} /\ r \notin D
      BY <1>1, <1>2, <2>5, <2>6 DEF DenialsFor
    <3> HIDE DEF D, E, C
    <3>3. Cardinality(E) = Cardinality(D) + 1
      BY <2>3, <3>2, FS_AddElement
    <3>4. t.count[m] + Cardinality(C) = c.count[m] + Cardinality(E)
      BY <2>2, <2>4, <3>1, <3>3, SMTT(30)
    <3> QED
      BY <3>4 DEF C, E
  <2>7. CASE m # n
    <3>1. t.count[m] = d.count[m]
      BY <2>1, <2>7
    <3>2. E = D
      BY <1>1, <2>5, <2>7 DEF DenialsFor
    <3> QED
      BY <2>2, <3>1, <3>2
  <2> QED
    BY <2>6, <2>7
<1> QED
  BY <1>5, <1>6, <1>7 DEF Balanced

\* A whole batch of denials adds denials that stand on serves and counts each of
\* them once (SubmitDenialBatch).
LEMMA DenialBatchCounts ==
    ASSUME TypeInv, NEW signer, NEW o \in Orgs, NEW e \in EpochIds,
           NEW b \in Batches(DenialEntry, MaxDenials), SubmitDenialBatch(signer, o, e, b)
    PROVE  Balanced(DenialsNow', DenialsNow)
<1> DEFINE c == DenialsNow
           X == {d \in DenialState : Balanced(d, c)}
<1>1. c \in DenialState /\ kv \in Store /\ deny \in Denials
  BY DEF DenialsNow, DenialState, TypeInv, Denials, Store
<1> HIDE DEF c
<1>2. Balanced(c, c)
  BY <1>1 DEF Balanced, SameServes
<1>3. X \subseteq DenialState /\ c \in X
  BY <1>1, <1>2
<1>4. ASSUME NEW d \in X, NEW x \in DenialEntry, Denies(d, o, e, x)
      PROVE  ProcessDenial(d, o, e, x) \in X
  <2>1. ProcessDenial(d, o, e, x) \in DenialState
    BY DenialType
  <2>2. DenialEffect(ProcessDenial(d, o, e, x), d, o, e, x)
    BY <1>4, DenialFields
  <2> QED
    BY <1>1, <1>4, <2>1, <2>2, DenialBalance
<1> HIDE DEF X
<1>5. DenialsNow' \in X
  BY <1>1, <1>3, <1>4, DenialBatchKeeps DEF c
<1> QED
  BY <1>5 DEF X, c

----------------------------------------------------------------------------
(* The statistics.                                                         *)

\* A batch of serves counts no denial.
LEMMA ServeBatchDenials ==
    ASSUME TypeInv, NEW signer, NEW o \in Orgs, NEW e \in EpochIds,
           NEW b \in Batches(ServeEntry, MaxServes), SubmitServeBatch(signer, o, e, b)
    PROVE  \A u \in Orgs, n \in EpochIds :
               kv'.stats[<<u, n>>].denials = kv.stats[<<u, n>>].denials
<1> DEFINE X == {s \in LoopState : \A u \in Orgs, n \in EpochIds :
                     s.kv.stats[<<u, n>>].denials = kv.stats[<<u, n>>].denials}
<1>1. X \subseteq LoopState /\ Now \in X
  BY DEF Now, LoopState, TypeInv
<1>2. ASSUME NEW s \in X, NEW x \in ServeEntry, Accepts(s.kv, o, e, x)
      PROVE  ProcessEntry(s, o, e, x) \in X
  <2> DEFINE t == ProcessEntry(s, o, e, x)
  <2>1. t \in LoopState
    BY EntryType DEF TypeInv
  <2>2. EntryEffect(t, s, o, e, x)
    BY <1>2, EntryFields
  <2> HIDE DEF t
  <2>3. ASSUME NEW u \in Orgs, NEW n \in EpochIds
        PROVE  t.kv.stats[<<u, n>>].denials = kv.stats[<<u, n>>].denials
    <3>1. s.kv.stats[<<u, n>>].denials = kv.stats[<<u, n>>].denials
      OBVIOUS
    <3>2. /\ u = o /\ n = e => t.kv.stats[<<u, n>>] = StatsAfter(s.kv, o, e, x)
          /\ ~(u = o /\ n = e) => t.kv.stats[<<u, n>>] = s.kv.stats[<<u, n>>]
      BY <2>2, EntryStats, SMTT(30)
    <3>3. StatsAfter(s.kv, o, e, x).denials = s.kv.stats[<<o, e>>].denials
      BY DEF StatsAfter
    <3> QED
      BY <3>1, <3>2, <3>3
  <2> QED
    BY <2>1, <2>3 DEF t
<1> HIDE DEF X
<1>3. Now' \in X
  BY <1>1, <1>2, ServeBatchKeeps
<1> QED
  BY <1>3 DEF X, Now

\* l has the receipts, counts, markers and serve statistics of k
SameCounts(l, k) ==
    /\ l.receipt = k.receipt /\ l.memCount = k.memCount
    /\ l.memFirst = k.memFirst /\ l.keyFirst = k.keyFirst
    /\ \A u \in Orgs, n \in EpochIds : SameServes(l.stats[<<u, n>>], k.stats[<<u, n>>])

\* The invariants depend on those only.
LEMMA CountsKept ==
    ASSUME NEW k, NEW l, SameCounts(l, k)
    PROVE  /\ Exact(k) => Exact(l)
           /\ Survives(k) => Survives(l)
<1>1. \A Q : Matching(l, Q) = Matching(k, Q)
  BY DEF SameCounts, Matching
<1>2. \A u \in Orgs, n \in EpochIds : Served(l, u, n) = Served(k, u, n)
  BY <1>1 DEF Served
<1>3. ASSUME NEW u \in Orgs, NEW n \in EpochIds
      PROVE  /\ TotalsAt(k, u, n) => TotalsAt(l, u, n)
             /\ ModelsAt(k, u, n) => ModelsAt(l, u, n)
             /\ MemoriesAt(k, u, n) => MemoriesAt(l, u, n)
             /\ UniqueAt(k, u, n) => UniqueAt(l, u, n)
             /\ MemoriesBelow(k, u, n) => MemoriesBelow(l, u, n)
             /\ BoundedAt(k, u, n) => BoundedAt(l, u, n)
  <2> DEFINE a == l.stats[<<u, n>>]
             c == k.stats[<<u, n>>]
  <2>1. /\ a.memories = c.memories /\ a.keys = c.keys /\ a.total = c.total
        /\ a.self = c.self /\ a.models = c.models
    BY DEF SameCounts, SameServes
  <2>2. l.memCount = k.memCount /\ l.memFirst = k.memFirst /\ l.keyFirst = k.keyFirst
    BY DEF SameCounts
  <2>3. TotalsAt(k, u, n) => TotalsAt(l, u, n)
    BY <1>1, <1>2, <2>1 DEF TotalsAt
  <2>4. ModelsAt(k, u, n) => ModelsAt(l, u, n)
    BY <1>1, <2>1 DEF ModelsAt
  <2>5. MemoriesAt(k, u, n) => MemoriesAt(l, u, n)
    BY <1>1, <2>2 DEF MemoriesAt
  <2>6. UniqueAt(k, u, n) => UniqueAt(l, u, n)
    BY <1>2, <2>1, <2>2 DEF UniqueAt
  <2>7. MemoriesBelow(k, u, n) => MemoriesBelow(l, u, n)
    BY <1>1, <2>2 DEF MemoriesBelow
  <2>8. BoundedAt(k, u, n) => BoundedAt(l, u, n)
    BY <1>2, <2>1, <2>2 DEF BoundedAt
  <2> QED
    BY <2>3, <2>4, <2>5, <2>6, <2>7, <2>8
<1>4. Exact(k) => Exact(l)
  BY <1>3 DEF Exact
<1>5. Survives(k) => Survives(l)
  BY <1>3 DEF Survives
<1> QED
  BY <1>4, <1>5

\* denials with a serve, and denials of a memory, are counted
DenialStatsExact ==
    \A u \in Orgs, n \in EpochIds :
        kv.stats[<<u, n>>].denials = Cardinality(DeniedIn(deny.receipts, u, n))

DenialCountsExact ==
    \A m \in Orgs \X Hashes \X EpochIds :
        deny.count[m] = Cardinality(DenialsFor(deny.receipts, m))

AllOnServes == \A r \in deny.receipts : r[5] # NoFingerprint

StatsInv == Exact(kv) /\ DenialStatsExact /\ DenialCountsExact /\ AllOnServes

\* Nothing is stored at first, and nothing counted.
LEMMA StartCounts ==
    ASSUME Init
    PROVE  StatsInv /\ Survives(kv)
<1>1. kv.receipt = [f \in Fingerprints |-> NoReceipt]
  BY DEF Init
<1>2. \A Q : Matching(kv, Q) = {}
  BY <1>1 DEF Matching
<1>3. Cardinality({}) = 0
  BY FS_EmptySet
<1>4. MemoriesIn({}) = {} /\ KeysIn({}) = {}
  BY DEF MemoriesIn, KeysIn
<1>5. /\ \A m \in Orgs \X Hashes \X EpochIds : kv.memCount[m] = 0 /\ deny.count[m] = 0
      /\ kv.memFirst = {} /\ kv.keyFirst = {} /\ deny.receipts = {}
  BY DEF Init, DenialKeys
<1>6. ASSUME NEW u \in Orgs, NEW n \in EpochIds
      PROVE  /\ kv.stats[<<u, n>>].memories = 0 /\ kv.stats[<<u, n>>].keys = 0
             /\ kv.stats[<<u, n>>].total = 0 /\ kv.stats[<<u, n>>].self = 0
             /\ kv.stats[<<u, n>>].denials = 0
             /\ \A m \in Models : kv.stats[<<u, n>>].models[m] = 0
             /\ Served(kv, u, n) = {}
  <2>1. kv.stats[<<u, n>>] = [memories |-> 0, keys |-> 0, total |-> 0, self |-> 0,
                              models |-> [m \in Models |-> 0], denials |-> 0]
    BY DEF Init
  <2> QED
    BY <1>2, <2>1, SMTT(30) DEF Served
<1>7. ASSUME NEW u \in Orgs, NEW n \in EpochIds
      PROVE  /\ TotalsAt(kv, u, n) /\ ModelsAt(kv, u, n) /\ MemoriesAt(kv, u, n)
             /\ UniqueAt(kv, u, n) /\ MemoriesBelow(kv, u, n) /\ BoundedAt(kv, u, n)
  <2>1. TotalsAt(kv, u, n) /\ ModelsAt(kv, u, n)
    BY <1>2, <1>3, <1>6 DEF TotalsAt, ModelsAt
  <2>2. \A h \in Hashes : kv.memCount[<<u, h, n>>] = 0
    BY <1>5
  <2>3. MemoriesAt(kv, u, n) /\ MemoriesBelow(kv, u, n)
    BY <1>2, <1>3, <2>2, SMTT(30) DEF MemoriesAt, MemoriesBelow
  <2>4. UniqueAt(kv, u, n)
    BY <1>3, <1>4, <1>5, <1>6 DEF UniqueAt
  <2>5. BoundedAt(kv, u, n)
    <3>1. /\ Cardinality(MemoriesIn(Served(kv, u, n))) = 0
          /\ Cardinality(KeysIn(Served(kv, u, n))) = 0
      BY <1>3, <1>4, <1>6
    <3> QED
      BY <1>5, <1>6, <3>1, SMTT(30) DEF BoundedAt
  <2> QED
    BY <2>1, <2>3, <2>4, <2>5
<1>8. Exact(kv) /\ Survives(kv)
  BY <1>7 DEF Exact, Survives
<1>9. DenialStatsExact
  BY <1>3, <1>5, <1>6 DEF DenialStatsExact, DeniedIn
<1>10. DenialCountsExact /\ AllOnServes
  BY <1>3, <1>5 DEF DenialCountsExact, DenialsFor, AllOnServes
<1> QED
  BY <1>8, <1>9, <1>10 DEF StatsInv

\* Exact denial counters stay exact over a batch of denials.
LEMMA DenialBatchExact ==
    ASSUME TypeInv, NEW signer, NEW o \in Orgs, NEW e \in EpochIds,
           NEW b \in Batches(DenialEntry, MaxDenials), SubmitDenialBatch(signer, o, e, b)
    PROVE  /\ SameCounts(kv', kv)
           /\ DenialStatsExact => DenialStatsExact'
           /\ DenialCountsExact => DenialCountsExact'
           /\ AllOnServes => AllOnServes'
<1>1. /\ kv'.receipt = kv.receipt /\ kv'.memCount = kv.memCount
      /\ kv'.memFirst = kv.memFirst /\ kv'.keyFirst = kv.keyFirst
      /\ Balanced(DenialsNow', DenialsNow)
  BY DenialBatchCounts, DenialBatchServes
<1>2. /\ DenialsNow.receipts = deny.receipts /\ DenialsNow.count = deny.count
      /\ DenialsNow.stats = kv.stats
  BY DEF DenialsNow
<1>3. /\ DenialsNow'.receipts = deny'.receipts /\ DenialsNow'.count = deny'.count
      /\ DenialsNow'.stats = kv'.stats
  BY DEF DenialsNow
<1>4. SameCounts(kv', kv)
  BY <1>1, <1>2, <1>3 DEF Balanced, SameCounts
<1>5. TypeInv'
  BY DenialBatchType
<1>6. IsFiniteSet(deny'.receipts)
  BY <1>5 DEF TypeInv, Denials, DenialSets
<1>7. DenialStatsExact => DenialStatsExact'
  <2> SUFFICES ASSUME DenialStatsExact, NEW u \in Orgs, NEW n \in EpochIds
               PROVE  kv'.stats[<<u, n>>].denials = Cardinality(DeniedIn(deny'.receipts, u, n))
    BY DEF DenialStatsExact
  <2>1. kv'.stats[<<u, n>>].denials + Cardinality(DeniedIn(deny.receipts, u, n)) =
            kv.stats[<<u, n>>].denials + Cardinality(DeniedIn(deny'.receipts, u, n))
    BY <1>1, <1>2, <1>3 DEF Balanced
  <2>2. kv.stats[<<u, n>>].denials = Cardinality(DeniedIn(deny.receipts, u, n))
    BY DEF DenialStatsExact
  <2>3. kv'.stats[<<u, n>>].denials \in Nat /\ kv.stats[<<u, n>>].denials \in Nat
    BY <1>5 DEF TypeInv, Store, EpochStats
  <2>4. Cardinality(DeniedIn(deny'.receipts, u, n)) \in Nat
    <3>1. IsFiniteSet(DeniedIn(deny'.receipts, u, n))
      BY <1>6, FS_Subset DEF DeniedIn
    <3> QED
      BY <3>1, FS_CardinalityType
  <2> QED
    BY <2>1, <2>2, <2>3, <2>4, SMTT(30)
<1>8. DenialCountsExact => DenialCountsExact'
  <2> SUFFICES ASSUME DenialCountsExact, NEW m \in Orgs \X Hashes \X EpochIds
               PROVE  deny'.count[m] = Cardinality(DenialsFor(deny'.receipts, m))
    BY DEF DenialCountsExact
  <2>1. deny'.count[m] + Cardinality(DenialsFor(deny.receipts, m)) =
            deny.count[m] + Cardinality(DenialsFor(deny'.receipts, m))
    BY <1>1, <1>2, <1>3 DEF Balanced
  <2>2. deny.count[m] = Cardinality(DenialsFor(deny.receipts, m))
    BY DEF DenialCountsExact
  <2>3. deny'.count[m] \in Nat /\ deny.count[m] \in Nat
    BY <1>5 DEF TypeInv, Denials, DenialCounts, DenialKeys
  <2>4. Cardinality(DenialsFor(deny'.receipts, m)) \in Nat
    <3>1. IsFiniteSet(DenialsFor(deny'.receipts, m))
      BY <1>6, FS_Subset DEF DenialsFor
    <3> QED
      BY <3>1, FS_CardinalityType
  <2> QED
    BY <2>1, <2>2, <2>3, <2>4, SMTT(30)
<1>9. AllOnServes => AllOnServes'
  BY <1>1, <1>2, <1>3 DEF Balanced, AllOnServes, StandsOn
<1> QED
  BY <1>4, <1>7, <1>8, <1>9

\* Every transaction keeps the statistics exact: ProcessServeBatch and
\* SubmitDenialBatch count what they store, and the others store nothing.
LEMMA StatsStep == ASSUME TypeInv, StatsInv, [Next]_vars PROVE StatsInv'
<1>1. ASSUME kv' = kv, deny' = deny PROVE StatsInv'
  BY <1>1 DEF StatsInv, DenialStatsExact, DenialCountsExact, AllOnServes
<1>2. ASSUME NEW signer, NEW o \in Orgs, NEW e \in EpochIds,
             NEW b \in Batches(ServeEntry, MaxServes), SubmitServeBatch(signer, o, e, b)
      PROVE  StatsInv'
  <2>1. Exact(kv')
    BY <1>2, ServeBatchCounts DEF StatsInv
  <2>2. \A u \in Orgs, n \in EpochIds : kv'.stats[<<u, n>>].denials = kv.stats[<<u, n>>].denials
    BY <1>2, ServeBatchDenials
  <2>3. deny' = deny
    BY <1>2 DEF SubmitServeBatch
  <2>4. DenialStatsExact'
    BY <2>2, <2>3 DEF StatsInv, DenialStatsExact
  <2>5. DenialCountsExact' /\ AllOnServes'
    BY <2>3 DEF StatsInv, DenialCountsExact, AllOnServes
  <2> QED
    BY <2>1, <2>4, <2>5 DEF StatsInv
<1>3. ASSUME NEW signer, NEW o \in Orgs, NEW e \in EpochIds,
             NEW b \in Batches(DenialEntry, MaxDenials), SubmitDenialBatch(signer, o, e, b)
      PROVE  StatsInv'
  <2>1. /\ SameCounts(kv', kv)
        /\ DenialStatsExact' /\ DenialCountsExact' /\ AllOnServes'
    BY <1>3, DenialBatchExact DEF StatsInv
  <2>2. Exact(kv')
    BY <2>1, CountsKept DEF StatsInv
  <2> QED
    BY <2>1, <2>2 DEF StatsInv
<1>4. CASE Next
  BY <1>1, <1>2, <1>3, <1>4 DEF Next, BandwidthStep, UpdateParams, RotateServingKey, MemoryApproved,
      AnchorPolicyVersion, SubmitEventBatch
<1> QED
  BY <1>1, <1>4 DEF vars

\* The invariant says what StatsMatchReceipts says.
LEMMA StatsInvMatches == TypeInv /\ StatsInv => StatsMatchReceipts
<1> SUFFICES ASSUME TypeInv, StatsInv, NEW o \in Orgs, NEW e \in EpochIds
             PROVE  /\ kv.stats[<<o, e>>] =
                          [memories |-> Cardinality({f[1] : f \in OfOrg(o, e)}),
                           keys |-> Cardinality({f[2] : f \in OfOrg(o, e)}),
                           total |-> Cardinality(OfOrg(o, e)),
                           self |-> Cardinality(Self(OfOrg(o, e))),
                           models |-> [m \in Models |-> Cardinality({f \in OfOrg(o, e) :
                                          kv.receipt[f].model = m /\ m # NoModel})],
                           denials |-> Cardinality({d \in deny.receipts : d[1] = o /\ d[3] = e})]
                    /\ \A h \in Hashes :
                          /\ kv.memCount[<<o, h, e>>] = Cardinality({f \in OfOrg(o, e) : f[1] = h})
                          /\ deny.count[<<o, h, e>>] =
                                Cardinality({d \in {c \in deny.receipts : c[1] = o /\ c[3] = e} :
                                                d[2] = h})
  BY DEF StatsMatchReceipts
<1> DEFINE st == kv.stats[<<o, e>>]
<1>1. st \in EpochStats
  BY DEF TypeInv, Store
<1>2. /\ st = [memories |-> st.memories, keys |-> st.keys, total |-> st.total, self |-> st.self,
               models |-> st.models, denials |-> st.denials]
      /\ st.models = [m \in Models |-> st.models[m]]
  BY <1>1 DEF EpochStats
<1>3. /\ TotalsAt(kv, o, e) /\ ModelsAt(kv, o, e) /\ MemoriesAt(kv, o, e) /\ UniqueAt(kv, o, e)
      /\ st.denials = Cardinality(DeniedIn(deny.receipts, o, e))
  BY DEF StatsInv, Exact, DenialStatsExact
<1>4. st.memories = Cardinality({f[1] : f \in OfOrg(o, e)}) /\ st.keys = Cardinality({f[2] : f \in OfOrg(o, e)})
  BY <1>3, ServedSets DEF UniqueAt, MemoriesIn, KeysIn
<1>5. st.total = Cardinality(OfOrg(o, e)) /\ st.self = Cardinality(Self(OfOrg(o, e)))
  BY <1>3, ServedSets DEF TotalsAt
<1>6. st.models = [m \in Models |-> Cardinality({f \in OfOrg(o, e) :
                                        kv.receipt[f].model = m /\ m # NoModel})]
  <2>1. ASSUME NEW m \in Models
        PROVE  st.models[m] = Cardinality({f \in OfOrg(o, e) :
                                  kv.receipt[f].model = m /\ m # NoModel})
    <3>1. ServedWith(o, e, m) = Matching(kv, ModelOf(o, e, m))
      BY ServedSets
    <3>2. st.models[m] = Cardinality(Matching(kv, ModelOf(o, e, m)))
      BY <1>3 DEF ModelsAt
    <3> QED
      BY <3>1, <3>2 DEF ServedWith
  <2> HIDE DEF st
  <2> QED
    BY <1>2, <2>1
<1>7. st.denials = Cardinality({d \in deny.receipts : d[1] = o /\ d[3] = e})
  <2>1. DeniedIn(deny.receipts, o, e) = {d \in deny.receipts : d[1] = o /\ d[3] = e}
    BY DEF DeniedIn, StatsInv, AllOnServes
  <2> QED
    BY <1>3, <2>1
<1>8. ASSUME NEW h \in Hashes
      PROVE  /\ kv.memCount[<<o, h, e>>] = Cardinality({f \in OfOrg(o, e) : f[1] = h})
             /\ deny.count[<<o, h, e>>] =
                   Cardinality({d \in {c \in deny.receipts : c[1] = o /\ c[3] = e} : d[2] = h})
  <2>1. kv.memCount[<<o, h, e>>] = Cardinality({f \in OfOrg(o, e) : f[1] = h})
    <3>1. ServesOf(o, e, h) = Matching(kv, MemoryOf(o, e, h))
      BY ServedSets
    <3>2. kv.memCount[<<o, h, e>>] = Cardinality(Matching(kv, MemoryOf(o, e, h)))
      BY <1>3 DEF MemoriesAt
    <3> QED
      BY <3>1, <3>2 DEF ServesOf
  <2>2. deny.count[<<o, h, e>>] = Cardinality(DenialsFor(deny.receipts, <<o, h, e>>))
    BY DEF StatsInv, DenialCountsExact
  <2>3. DenialsFor(deny.receipts, <<o, h, e>>) =
            {d \in {c \in deny.receipts : c[1] = o /\ c[3] = e} : d[2] = h}
    BY DEF DenialsFor
  <2> QED
    BY <2>1, <2>2, <2>3
<1> HIDE DEF st
<1>9. st = [memories |-> Cardinality({f[1] : f \in OfOrg(o, e)}),
            keys |-> Cardinality({f[2] : f \in OfOrg(o, e)}),
            total |-> Cardinality(OfOrg(o, e)),
            self |-> Cardinality(Self(OfOrg(o, e))),
            models |-> [m \in Models |-> Cardinality({f \in OfOrg(o, e) :
                           kv.receipt[f].model = m /\ m # NoModel})],
            denials |-> Cardinality({d \in deny.receipts : d[1] = o /\ d[3] = e})]
  BY <1>2, <1>4, <1>5, <1>6, <1>7
<1> QED
  BY <1>8, <1>9 DEF st

\* The statistics and per-memory counts that ProcessServeBatch and
\* SubmitDenialBatch maintain entry by entry are always those of the receipts and
\* denials stored, for any orgs, memories, keys, epochs and batch sizes.
THEOREM StatsMatch == Spec => []StatsMatchReceipts
<1>1. Init => StatsInv
  BY StartCounts
<1>2. TypeInv /\ StatsInv /\ [Next]_vars => StatsInv'
  BY StatsStep
<1> QED
  BY <1>1, <1>2, SpecTypes, StatsInvMatches, PTL DEF Spec

----------------------------------------------------------------------------
(* Exports and imports.                                                    *)

\* the memory a receipt is for
MemoryOfReceipt(f) == <<kv.receipt[f].org, f[1], f[3]>>

\* r has no consumer's key, or stands on a serve
Sound(r) ==
    IF r[5] = NoFingerprint THEN r[4] \notin ServeKeys
    ELSE /\ kv.receipt[r[5]] # NoReceipt
         /\ r[2] = r[5][1]
         /\ r[4] = r[5][2]

AllSound == \A r \in deny.receipts : Sound(r)

CountsWithoutEcho ==
    \A m \in Orgs \X Hashes \X EpochIds :
        (\A f \in Echoes : MemoryOfReceipt(f) # m) =>
            deny.count[m] = Cardinality(DenialsFor(deny.receipts, m))

\* the counters bounded, the denials counted, and each denial accounted for
RestartInv == Survives(kv) /\ DenialStatsExact /\ AllSound /\ CountsWithoutEcho

\* What a denial may name.
LEMMA DenialNames ==
    ASSUME TypeInv, NEW r \in deny.receipts
    PROVE  r[5] \in Fingerprints \cup {NoFingerprint}
<1>1. r \in DenialReceipt \/ r \in StrayDenial
  BY DEF TypeInv, Denials, DenialSets
<1>2. CASE r \in DenialReceipt
  BY <1>2 DEF DenialReceipt
<1>3. CASE r \in StrayDenial
  BY <1>3 DEF StrayDenial
<1> QED
  BY <1>1, <1>2, <1>3

\* The property follows.
LEMMA StandingDenials == ASSUME TypeInv, RestartInv PROVE DenialsStandOnServes
<1>1. ASSUME NEW d \in deny.receipts, d[4] \in ServeKeys
      PROVE  /\ d[5] \in Fingerprints
             /\ kv.receipt[d[5]] # NoReceipt
             /\ d[2] = d[5][1]
             /\ d[4] = d[5][2]
  <2>1. Sound(d)
    BY DEF RestartInv, AllSound
  <2>2. d[5] # NoFingerprint
    BY <1>1, <2>1 DEF Sound
  <2> QED
    BY <2>1, <2>2, DenialNames DEF Sound
<1> QED
  BY <1>1 DEF RestartInv, DenialsStandOnServes, CountsWithoutEcho, MemoryOfReceipt, DenialsFor

\* The echo of a receipt stays an echo, and sound denials sound, while no
\* receipt is replaced; a denial of a serve names a fingerprint.
LEMMA EchoesKept ==
    ASSUME TypeInv, AllSound,
           \A f \in Fingerprints : kv.receipt[f] # NoReceipt => kv'.receipt[f] = kv.receipt[f]
    PROVE  /\ \A f \in Echoes : f \in Echoes' /\ MemoryOfReceipt(f)' = MemoryOfReceipt(f)
           /\ \A r \in deny.receipts : Sound(r)'
<1>1. ASSUME NEW f \in Echoes
      PROVE  f \in Echoes' /\ MemoryOfReceipt(f)' = MemoryOfReceipt(f)
  <2>1. f \in Fingerprints /\ kv.receipt[f] # NoReceipt
    BY DEF Echoes, DecodesAsDenial
  <2>2. kv'.receipt[f] = kv.receipt[f]
    BY <2>1
  <2> QED
    BY <2>1, <2>2 DEF Echoes, DecodesAsDenial, MemoryOfReceipt
<1>2. ASSUME NEW r \in deny.receipts PROVE Sound(r)'
  <2>1. Sound(r)
    BY DEF AllSound
  <2>2. r[5] \in Fingerprints \cup {NoFingerprint}
    BY DenialNames
  <2>3. CASE r[5] = NoFingerprint
    BY <2>1, <2>3 DEF Sound
  <2>4. CASE r[5] # NoFingerprint
    <3>1. kv.receipt[r[5]] # NoReceipt /\ r[2] = r[5][1] /\ r[4] = r[5][2]
      BY <2>1, <2>4 DEF Sound
    <3>2. kv'.receipt[r[5]] = kv.receipt[r[5]]
      BY <2>2, <2>4, <3>1
    <3> QED
      BY <2>4, <3>1, <3>2 DEF Sound
  <2> QED
    BY <2>3, <2>4
<1> QED
  BY <1>1, <1>2

\* A batch of serves keeps every denial accounted for.
LEMMA ServeBatchRestart ==
    ASSUME TypeInv, RestartInv, NEW signer, NEW o \in Orgs, NEW e \in EpochIds,
           NEW b \in Batches(ServeEntry, MaxServes), SubmitServeBatch(signer, o, e, b)
    PROVE  RestartInv'
<1>1. TypeInv'
  BY ServeBatchType
<1>2. Survives(kv)'
  BY ServeBatchCounts DEF RestartInv
<1>3. \A u \in Orgs, n \in EpochIds : kv'.stats[<<u, n>>].denials = kv.stats[<<u, n>>].denials
  BY ServeBatchDenials
<1>4. deny' = deny
  BY DEF SubmitServeBatch
<1>5. DenialStatsExact'
  BY <1>3, <1>4 DEF RestartInv, DenialStatsExact
<1>6. \A f \in Fingerprints : kv.receipt[f] # NoReceipt => kv'.receipt[f] = kv.receipt[f]
  BY ServeBatchFinal
<1>7. AllSound /\ CountsWithoutEcho
  BY DEF RestartInv
<1>8. /\ \A f \in Echoes : f \in Echoes' /\ MemoryOfReceipt(f)' = MemoryOfReceipt(f)
      /\ \A r \in deny.receipts : Sound(r)'
  BY <1>6, <1>7, EchoesKept
<1>9. CountsWithoutEcho'
  <2> SUFFICES ASSUME NEW m \in Orgs \X Hashes \X EpochIds,
                      \A f \in Echoes' : MemoryOfReceipt(f)' # m
               PROVE  deny'.count[m] = Cardinality(DenialsFor(deny'.receipts, m))
    BY DEF CountsWithoutEcho
  <2>1. \A f \in Echoes : MemoryOfReceipt(f) # m
    BY <1>8
  <2> QED
    BY <1>4, <1>7, <2>1 DEF CountsWithoutEcho
<1>10. AllSound'
  BY <1>4, <1>8 DEF AllSound
<1> QED
  BY <1>2, <1>5, <1>9, <1>10 DEF RestartInv

\* So does a batch of denials: each new one stands on a serve and is counted.
LEMMA DenialBatchRestart ==
    ASSUME TypeInv, RestartInv, NEW signer, NEW o \in Orgs, NEW e \in EpochIds,
           NEW b \in Batches(DenialEntry, MaxDenials), SubmitDenialBatch(signer, o, e, b)
    PROVE  RestartInv'
<1>1. TypeInv'
  BY DenialBatchType
<1>2. SameCounts(kv', kv) /\ DenialStatsExact'
  BY DenialBatchExact DEF RestartInv
<1>3. Survives(kv)'
  BY <1>2, CountsKept DEF RestartInv
<1>4. AllSound /\ CountsWithoutEcho
  BY DEF RestartInv
<1>5. kv'.receipt = kv.receipt
  BY <1>2 DEF SameCounts
<1>6. Echoes' = Echoes /\ \A f : MemoryOfReceipt(f)' = MemoryOfReceipt(f)
  BY <1>5 DEF Echoes, DecodesAsDenial, MemoryOfReceipt
<1>7. \A r \in deny.receipts : Sound(r)'
  BY <1>4, <1>5, EchoesKept
<1>8. Balanced(DenialsNow', DenialsNow)
  BY DenialBatchCounts
<1>9. /\ DenialsNow.receipts = deny.receipts /\ DenialsNow.count = deny.count
      /\ DenialsNow'.receipts = deny'.receipts /\ DenialsNow'.count = deny'.count
  BY DEF DenialsNow
<1>10. ASSUME NEW r \in deny'.receipts PROVE Sound(r)'
  <2>1. CASE r \in deny.receipts
    BY <1>7, <2>1
  <2>2. CASE StandsOn(r)
    BY <1>5, <2>2 DEF StandsOn, Sound
  <2>3. r \in deny.receipts \/ StandsOn(r)
    BY <1>8, <1>9 DEF Balanced
  <2> QED
    BY <2>1, <2>2, <2>3
<1>11. CountsWithoutEcho'
  <2> SUFFICES ASSUME NEW m \in Orgs \X Hashes \X EpochIds,
                      \A f \in Echoes' : MemoryOfReceipt(f)' # m
               PROVE  deny'.count[m] = Cardinality(DenialsFor(deny'.receipts, m))
    BY DEF CountsWithoutEcho
  <2>1. deny.count[m] = Cardinality(DenialsFor(deny.receipts, m))
    BY <1>4, <1>6 DEF CountsWithoutEcho
  <2>2. deny'.count[m] + Cardinality(DenialsFor(deny.receipts, m)) =
            deny.count[m] + Cardinality(DenialsFor(deny'.receipts, m))
    BY <1>8, <1>9 DEF Balanced
  <2>3. deny'.count[m] \in Nat /\ deny.count[m] \in Nat
    BY <1>1 DEF TypeInv, Denials, DenialCounts, DenialKeys
  <2>4. Cardinality(DenialsFor(deny'.receipts, m)) \in Nat
    <3>1. IsFiniteSet(DenialsFor(deny'.receipts, m))
      BY <1>1, FS_Subset DEF DenialsFor, TypeInv, Denials, DenialSets
    <3> QED
      BY <3>1, FS_CardinalityType
  <2> QED
    BY <2>1, <2>2, <2>3, <2>4, SMTT(30)
<1>12. AllSound'
  BY <1>10 DEF AllSound
<1> QED
  BY <1>2, <1>3, <1>11, <1>12 DEF RestartInv

\* What an export lists as a denial is one of the store, or names no serve and
\* has no consumer's key: the echo of a receipt without turns, or an anchor, event
\* or pointer, which no memory of an org is confused with (ExportGenesis).
LEMMA ExportedKinds ==
    ASSUME TypeInv, AnchorInv, NEW x \in ExportedDenials
    PROVE  \/ x[1] = "denial" /\ x[2] \in deny.receipts /\ x = <<"denial", x[2], x[2]>>
           \/ /\ x[1] # "denial" /\ x[3][4] \notin ServeKeys /\ x[3][5] = NoFingerprint
              /\ \A m \in Orgs \X Hashes \X EpochIds :
                    <<x[3][1], x[3][2], x[3][3]>> = m =>
                        \E f \in Echoes : MemoryOfReceipt(f) = m
<1>1. ASSUME NEW d \in deny.receipts, x = <<"denial", d, d>>
      PROVE  x[1] = "denial" /\ x[2] \in deny.receipts /\ x = <<"denial", x[2], x[2]>>
  BY <1>1
<1>2. ASSUME NEW f \in Echoes, x = <<"receipt", f, AsDenial(f)>>
      PROVE  /\ x[1] # "denial" /\ x[3][4] \notin ServeKeys /\ x[3][5] = NoFingerprint
             /\ \A m \in Orgs \X Hashes \X EpochIds :
                   <<x[3][1], x[3][2], x[3][3]>> = m => \E g \in Echoes : MemoryOfReceipt(g) = m
  <2>1. x[1] = "receipt" /\ x[3] = AsDenial(f)
    BY <1>2
  <2>2. f \in Fingerprints /\ kv.receipt[f] # NoReceipt
    BY DEF Echoes, DecodesAsDenial
  <2>3. kv.receipt[f].model \in Models
    BY <2>2 DEF TypeInv, SoundReceipts
  <2>4. kv.receipt[f].model \notin ServeKeys
    BY <2>3, ServeConstants
  <2>5. /\ x[3][4] = kv.receipt[f].model /\ x[3][5] = NoFingerprint
        /\ <<x[3][1], x[3][2], x[3][3]>> = MemoryOfReceipt(f)
    BY <2>1, SMTT(30) DEF AsDenial, MemoryOfReceipt
  <2> QED
    BY <2>1, <2>4, <2>5
<1>3. ASSUME NEW n \in Names, NEW h, n \in Orgs => h = NoHash,
             x[1] # "denial", x[3] = Stray(n, h)
      PROVE  /\ x[3][4] \notin ServeKeys /\ x[3][5] = NoFingerprint
             /\ \A m \in Orgs \X Hashes \X EpochIds : <<x[3][1], x[3][2], x[3][3]>> # m
  <2>1. x[3][1] = n /\ x[3][2] = h /\ x[3][4] = NoModel /\ x[3][5] = NoFingerprint
    BY <1>3, SMTT(30) DEF Stray
  <2>2. NoModel \notin ServeKeys /\ NoHash \notin Hashes
    BY ServeConstants
  <2>3. ASSUME NEW m \in Orgs \X Hashes \X EpochIds PROVE <<x[3][1], x[3][2], x[3][3]>> # m
    <3>1. m[1] \in Orgs /\ m[2] \in Hashes
      OBVIOUS
    <3>2. n = m[1] => h # m[2]
      BY <1>3, <2>2, <3>1
    <3> QED
      BY <2>1, <3>2, SMTT(30)
  <2> QED
    BY <2>1, <2>2, <2>3
<1>4. ASSUME NEW n \in Bare, x = <<"anchor", n, Stray(n, policy.anchor[n].hash)>>
      PROVE  /\ x[1] # "denial" /\ x[3][4] \notin ServeKeys /\ x[3][5] = NoFingerprint
             /\ \A m \in Orgs \X Hashes \X EpochIds : <<x[3][1], x[3][2], x[3][3]>> # m
  <2>1. n \in DOMAIN policy.anchor /\ n \in Names
    BY DEF Bare, TypeInv, PolicyOK
  <2>2. n \in Orgs => policy.anchor[n].hash = NoHash
    BY <2>1, ServeConstants DEF AnchorInv, OrgAnchorsBlank
  <2>3. x[1] # "denial" /\ x[3] = Stray(n, policy.anchor[n].hash)
    BY <1>4
  <2> QED
    BY <1>3, <2>1, <2>2, <2>3
<1>5. ASSUME NEW n \in events.blank \cup PointerBlank, NEW k \in {"event", "pointer"},
             x = <<k, n, Stray(n, NoHash)>>
      PROVE  /\ x[1] # "denial" /\ x[3][4] \notin ServeKeys /\ x[3][5] = NoFingerprint
             /\ \A m \in Orgs \X Hashes \X EpochIds : <<x[3][1], x[3][2], x[3][3]>> # m
  <2>1. n \in Names
    BY DEF TypeInv, EventsOK, PointerBlank, Names
  <2>2. x[1] # "denial" /\ x[3] = Stray(n, NoHash)
    BY <1>5
  <2> QED
    BY <1>3, <2>1, <2>2
<1>6. \/ \E d \in deny.receipts : x = <<"denial", d, d>>
      \/ \E f \in Echoes : x = <<"receipt", f, AsDenial(f)>>
      \/ \E n \in Bare : x = <<"anchor", n, Stray(n, policy.anchor[n].hash)>>
      \/ \E n \in events.blank \cup PointerBlank, k \in {"event", "pointer"} :
            x = <<k, n, Stray(n, NoHash)>>
  BY DEF ExportedDenials
<1> QED
  BY <1>1, <1>2, <1>4, <1>5, <1>6

\* The denials of the store are exported, once each.
LEMMA ExportedOnce ==
    ASSUME TypeInv, AnchorInv, NEW m \in Orgs \X Hashes \X EpochIds,
           \A f \in Echoes : MemoryOfReceipt(f) # m
    PROVE  /\ Cardinality({x \in ExportedDenials : <<x[3][1], x[3][2], x[3][3]>> = m})
                  = Cardinality(DenialsFor(deny.receipts, m))
           /\ {x[3] : x \in {y \in ExportedDenials : <<y[3][1], y[3][2], y[3][3]>> = m}}
                  = DenialsFor(deny.receipts, m)
<1> DEFINE S == DenialsFor(deny.receipts, m)
           T == {x \in ExportedDenials : <<x[3][1], x[3][2], x[3][3]>> = m}
           g == [d \in S |-> <<"denial", d, d>>]
<1>1. ASSUME NEW d \in S PROVE g[d] \in T /\ g[d][3] = d
  <2>1. d \in deny.receipts /\ <<d[1], d[2], d[3]>> = m
    BY DEF DenialsFor
  <2>2. g[d] = <<"denial", d, d>>
    OBVIOUS
  <2>3. g[d] \in ExportedDenials
    BY <2>1, <2>2 DEF ExportedDenials
  <2> QED
    BY <2>1, <2>2, <2>3
<1>2. ASSUME NEW x \in T PROVE x[3] \in S /\ x = g[x[3]]
  <2>1. x[1] = "denial" /\ x[2] \in deny.receipts /\ x = <<"denial", x[2], x[2]>>
    BY ExportedKinds
  <2>2. x[3] = x[2]
    BY <2>1, SMTT(30)
  <2>3. x[3] \in S
    BY <2>1, <2>2 DEF DenialsFor
  <2> QED
    BY <2>1, <2>2, <2>3
<1>3. DOMAIN g = S /\ g = [d \in S |-> g[d]]
  OBVIOUS
<1> HIDE DEF S, T, g
<1>4. g \in [S -> T]
  BY <1>1, <1>3
<1>5. \A c, d \in S : g[c] = g[d] => c = d
  BY <1>1
<1>6. \A x \in T : \E d \in S : g[d] = x
  BY <1>2
<1>7. ExistsBijection(S, T)
  BY <1>4, <1>5, <1>6, SMTT(30)
     DEF ExistsBijection, Bijection, Injection, Surjection, IsInjective
<1>8. IsFiniteSet(S)
  BY FS_Subset DEF S, DenialsFor, TypeInv, Denials, DenialSets
<1>9. Cardinality(T) = Cardinality(S)
  BY <1>7, <1>8, FS_Bijection
<1>10. {x[3] : x \in T} = S
  BY <1>1, <1>2
<1> QED
  BY <1>9, <1>10 DEF S, T

\* And so does an export with its import: what it takes for denials names no
\* serve, and it counts the denials anew (InitGenesis, IncrementDenialCount).
LEMMA RoundTripRestart ==
    ASSUME TypeInv, AnchorInv, RestartInv, GenesisRoundTrip
    PROVE  RestartInv'
<1>1. TypeInv'
  BY RoundTripType
<1>2. /\ kv'.receipt = kv.receipt /\ kv'.stats = kv.stats
      /\ kv'.memCount = [m \in Orgs \X Hashes \X EpochIds |-> 0]
      /\ kv'.memFirst = {} /\ kv'.keyFirst = {}
  <2> DEFINE zero == [m \in DOMAIN kv.memCount |-> 0]
             y1 == [kv EXCEPT !.memCount = zero]
             y2 == [y1 EXCEPT !.memFirst = {}]
             y3 == [y2 EXCEPT !.keyFirst = {}]
  <2>1. kv \in Store /\ zero = [m \in Orgs \X Hashes \X EpochIds |-> 0]
    BY DEF TypeInv, Store
  <2>2. kv' = y3
    BY <2>1 DEF GenesisRoundTrip, ImportedStats, Store
  <2> HIDE DEF zero
  <2>3. IsStore(kv)
    BY <2>1 DEF Store, IsStore, Fields
  <2>4. IsStore(y1) /\ y1.receipt = kv.receipt /\ y1.stats = kv.stats /\ y1.memCount = zero
    BY <2>3, SMTT(30) DEF IsStore, Fields
  <2> HIDE DEF y1
  <2>5. /\ IsStore(y2) /\ y2.receipt = y1.receipt /\ y2.stats = y1.stats
        /\ y2.memCount = y1.memCount /\ y2.memFirst = {}
    BY <2>4, SMTT(30) DEF IsStore, Fields
  <2> HIDE DEF y2
  <2>6. /\ y3.receipt = y2.receipt /\ y3.stats = y2.stats
        /\ y3.memCount = y2.memCount /\ y3.memFirst = y2.memFirst /\ y3.keyFirst = {}
    BY <2>5 DEF IsStore, Fields
  <2> HIDE DEF y3
  <2> QED
    BY <2>1, <2>2, <2>4, <2>5, <2>6
<1>3. Survives(kv)'
  <2> SUFFICES ASSUME NEW u \in Orgs, NEW n \in EpochIds
               PROVE  TotalsAt(kv', u, n) /\ MemoriesBelow(kv', u, n) /\ BoundedAt(kv', u, n)
    BY DEF Survives
  <2>1. TotalsAt(kv, u, n) /\ BoundedAt(kv, u, n)
    BY DEF RestartInv, Survives
  <2>2. \A Q : Matching(kv', Q) = Matching(kv, Q)
    BY <1>2 DEF Matching
  <2>3. Served(kv', u, n) = Served(kv, u, n)
    BY <2>2 DEF Served
  <2>4. TotalsAt(kv', u, n)
    BY <1>2, <2>1, <2>2, <2>3 DEF TotalsAt
  <2>5. BoundedAt(kv', u, n)
    BY <1>2, <2>1, <2>3 DEF BoundedAt
  <2>6. MemoriesBelow(kv', u, n)
    <3> SUFFICES ASSUME NEW h \in Hashes
                 PROVE  kv'.memCount[<<u, h, n>>] <= Cardinality(Matching(kv', MemoryOf(u, n, h)))
      BY DEF MemoriesBelow
    <3>1. kv'.memCount[<<u, h, n>>] = 0
      BY <1>2
    <3>2. Cardinality(Matching(kv', MemoryOf(u, n, h))) \in Nat
      BY CountIsNat
    <3> QED
      BY <3>1, <3>2, SMTT(30)
  <2> QED
    BY <2>4, <2>5, <2>6
<1>4. /\ deny'.receipts = {x[3] : x \in ExportedDenials}
      /\ \A m \in Orgs \X Hashes \X EpochIds :
            deny'.count[m] =
                Cardinality({x \in ExportedDenials : <<x[3][1], x[3][2], x[3][3]>> = m})
  <2> DEFINE n == [m \in DenialKeys |->
                      Cardinality({x \in ExportedDenials : <<x[3][1], x[3][2], x[3][3]>> = m})]
  <2>1. deny'.receipts = {x[3] : x \in ExportedDenials} /\ deny'.count = n
    BY DEF GenesisRoundTrip, ImportedDenials
  <2>2. \A m \in Orgs \X Hashes \X EpochIds : m \in DenialKeys
    BY DEF DenialKeys
  <2>3. \A m \in DenialKeys :
            n[m] = Cardinality({x \in ExportedDenials : <<x[3][1], x[3][2], x[3][3]>> = m})
    OBVIOUS
  <2> HIDE DEF n
  <2> QED
    BY <2>1, <2>2, <2>3
<1>5. /\ \A d \in deny.receipts : d \in deny'.receipts
      /\ \A r \in deny'.receipts :
            r \in deny.receipts \/ (r[4] \notin ServeKeys /\ r[5] = NoFingerprint)
  <2>1. ASSUME NEW d \in deny.receipts PROVE d \in deny'.receipts
    <3>1. <<"denial", d, d>> \in ExportedDenials /\ <<"denial", d, d>>[3] = d
      BY DEF ExportedDenials
    <3> QED
      BY <1>4, <3>1
  <2>2. ASSUME NEW x \in ExportedDenials
        PROVE  x[3] \in deny.receipts \/ (x[3][4] \notin ServeKeys /\ x[3][5] = NoFingerprint)
    <3>1. CASE x[1] = "denial" /\ x[2] \in deny.receipts /\ x = <<"denial", x[2], x[2]>>
      <4>1. x[3] = x[2]
        BY <3>1, SMTT(30)
      <4> QED
        BY <3>1, <4>1
    <3> QED
      BY <3>1, ExportedKinds
  <2> QED
    BY <1>4, <2>1, <2>2
<1>6. DenialStatsExact'
  <2> SUFFICES ASSUME NEW u \in Orgs, NEW n \in EpochIds
               PROVE  kv'.stats[<<u, n>>].denials = Cardinality(DeniedIn(deny'.receipts, u, n))
    BY DEF DenialStatsExact
  <2>1. DeniedIn(deny'.receipts, u, n) = DeniedIn(deny.receipts, u, n)
    BY <1>5 DEF DeniedIn
  <2> QED
    BY <1>2, <2>1 DEF RestartInv, DenialStatsExact
<1>7. AllSound
  BY DEF RestartInv
<1>8. Echoes' = Echoes /\ \A f : MemoryOfReceipt(f)' = MemoryOfReceipt(f)
  BY <1>2 DEF Echoes, DecodesAsDenial, MemoryOfReceipt
<1>9. \A r \in deny.receipts : Sound(r)'
  BY <1>2, <1>7, EchoesKept
<1>10. ASSUME NEW r \in deny'.receipts PROVE Sound(r)'
  BY <1>5, <1>9 DEF Sound
<1>11. CountsWithoutEcho'
  <2> SUFFICES ASSUME NEW m \in Orgs \X Hashes \X EpochIds,
                      \A f \in Echoes' : MemoryOfReceipt(f)' # m
               PROVE  deny'.count[m] = Cardinality(DenialsFor(deny'.receipts, m))
    BY DEF CountsWithoutEcho
  <2>1. \A f \in Echoes : MemoryOfReceipt(f) # m
    BY <1>8
  <2> DEFINE T == {x \in ExportedDenials : <<x[3][1], x[3][2], x[3][3]>> = m}
  <2>2. /\ Cardinality(T) = Cardinality(DenialsFor(deny.receipts, m))
        /\ {x[3] : x \in T} = DenialsFor(deny.receipts, m)
    BY <2>1, ExportedOnce
  <2>3. DenialsFor(deny'.receipts, m) = {x[3] : x \in T}
    BY <1>4 DEF DenialsFor
  <2> QED
    BY <1>4, <2>2, <2>3
<1>12. AllSound'
  BY <1>10 DEF AllSound
<1> QED
  BY <1>3, <1>6, <1>11, <1>12 DEF RestartInv

\* What survives an import holds in every state, imports or not.
LEMMA RestartStep ==
    ASSUME TypeInv, AnchorInv, RestartInv, [Next \/ GenesisRoundTrip]_vars
    PROVE  RestartInv'
<1>1. ASSUME kv' = kv, deny' = deny PROVE RestartInv'
  <2>1. Survives(kv)' /\ DenialStatsExact' /\ AllSound'
    BY <1>1 DEF RestartInv, DenialStatsExact, AllSound, Sound
  <2>2. CountsWithoutEcho'
    BY <1>1 DEF RestartInv, CountsWithoutEcho, Echoes, DecodesAsDenial, MemoryOfReceipt
  <2> QED
    BY <2>1, <2>2 DEF RestartInv
<1>2. CASE Next
  BY <1>1, <1>2, ServeBatchRestart, DenialBatchRestart
     DEF Next, BandwidthStep, UpdateParams, RotateServingKey, MemoryApproved,
         AnchorPolicyVersion, SubmitEventBatch
<1> QED
  BY <1>1, <1>2, RoundTripRestart DEF vars

\* The chain starts without receipts and with all counters at zero.
LEMMA RestartStart == ASSUME Init PROVE RestartInv
<1>1. Survives(kv) /\ DenialStatsExact
  BY StartCounts DEF StatsInv
<1>2. DenialCountsExact /\ deny.receipts = {}
  BY StartCounts DEF StatsInv, Init
<1>3. AllSound /\ CountsWithoutEcho
  BY <1>2 DEF DenialCountsExact, CountsWithoutEcho, AllSound
<1> QED
  BY <1>1, <1>3 DEF RestartInv

\* Exports and imports included, a denial with a consumer's key stands on a stored
\* serve of its memory and its key, whatever receipts, anchors, events and
\* pointers an import takes for denials, and a memory without a receipt that
\* stored no turns has an exact denial count (SubmitDenialBatch, ExportGenesis).
THEOREM DenialsStand == RestartSpec => []DenialsStandOnServes
<1>1. Init => RestartInv
  BY RestartStart
<1>2. TypeInv /\ AnchorInv /\ RestartInv /\ [Next \/ GenesisRoundTrip]_vars => RestartInv'
  BY RestartStep
<1>3. TypeInv /\ RestartInv => DenialsStandOnServes
  BY StandingDenials
<1> QED
  BY <1>1, <1>2, <1>3, RestartTypes, RestartAnchors, PTL DEF RestartSpec

\* Totals, self serves and denials stay exact across imports, while the unique
\* counters may only be too high and the per-memory counts too low (InitGenesis).
THEOREM StatsSurvive == RestartSpec => []StatsSurviveImport
<1>1. Init => RestartInv
  BY RestartStart
<1>2. TypeInv /\ AnchorInv /\ RestartInv /\ [Next \/ GenesisRoundTrip]_vars => RestartInv'
  BY RestartStep
<1>3. TypeInv /\ RestartInv => StatsSurviveImport
  <2> SUFFICES ASSUME TypeInv, RestartInv, NEW o \in Orgs, NEW e \in EpochIds
               PROVE  LET served == OfOrg(o, e)
                          stats == kv.stats[<<o, e>>]
                      IN  /\ stats.total = Cardinality(served)
                          /\ stats.self = Cardinality(Self(served))
                          /\ stats.denials = Cardinality({d \in deny.receipts :
                                                 d[1] = o /\ d[3] = e /\ d[5] # NoFingerprint})
                          /\ stats.memories \in Cardinality({f[1] : f \in served}) .. stats.total
                          /\ stats.keys \in Cardinality({f[2] : f \in served}) .. stats.total
                          /\ \A h \in Hashes : kv.memCount[<<o, h, e>>] <=
                                                   Cardinality({f \in served : f[1] = h})
    BY DEF StatsSurviveImport
  <2> DEFINE F == OfOrg(o, e)
             st == kv.stats[<<o, e>>]
  <2>1. /\ TotalsAt(kv, o, e) /\ MemoriesBelow(kv, o, e) /\ BoundedAt(kv, o, e)
        /\ st.denials = Cardinality(DeniedIn(deny.receipts, o, e))
    BY DEF RestartInv, Survives, DenialStatsExact
  <2>2. st.total = Cardinality(F) /\ st.self = Cardinality(Self(F))
    BY <2>1, ServedSets DEF TotalsAt
  <2>3. st \in EpochStats
    BY DEF TypeInv, Store
  <2>4. st.memories \in Nat /\ st.keys \in Nat /\ st.total \in Nat
    BY <2>3 DEF EpochStats
  <2>5. F \subseteq Fingerprints
    BY DEF OfOrg, Receipts
  <2>6. Cardinality(MemoriesIn(F)) \in Nat /\ Cardinality(KeysIn(F)) \in Nat
    BY <2>5, ImageSizes
  <2>7. /\ Cardinality(MemoriesIn(F)) <= st.memories /\ st.memories <= st.total
        /\ Cardinality(KeysIn(F)) <= st.keys /\ st.keys <= st.total
    BY <2>1, ServedSets DEF BoundedAt
  <2>8. \A h \in Hashes : kv.memCount[<<o, h, e>>] <= Cardinality(ServesOf(o, e, h))
    BY <2>1, ServedSets DEF MemoriesBelow
  <2> HIDE DEF F, st
  <2>9. /\ st.memories \in Cardinality(MemoriesIn(F)) .. st.total
        /\ st.keys \in Cardinality(KeysIn(F)) .. st.total
    BY <2>4, <2>6, <2>7, SMTT(30)
  <2> QED
    BY <2>1, <2>2, <2>8, <2>9 DEF F, st, ServesOf, MemoriesIn, KeysIn, DeniedIn
<1> QED
  BY <1>1, <1>2, <1>3, RestartTypes, RestartAnchors, PTL DEF RestartSpec

=============================================================================
