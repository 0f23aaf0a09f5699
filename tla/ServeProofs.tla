---------------------------- MODULE ServeProofs -----------------------------
(***************************************************************************)
(* Theorems about Serve, for all sets of orgs, memories, keys and epochs   *)
(* and batches of any length: its stores are well typed, caps, anchors and *)
(* receipts are never rewritten, and what bandwidth, contributor summaries *)
(* and reputation count are the receipts.  ServeCountProofs has the        *)
(* statistics.                                                             *)
(***************************************************************************)
EXTENDS Serve, SumTheorems

\* provers of a leaf that names none
USE ZenonT(30), SMTT(30)

----------------------------------------------------------------------------
(* Batches.  A fold over a sequence is a recursion over the subsets of its *)
(* domain that takes the greatest index first; what is needed of it is the *)
(* run of the loop, the states after 0, 1, ... entries.                    *)

\* h gives the state after the entries with the indices in every subset of S
IsFold(h, step, base, S) ==
    h = [s \in SUBSET S |-> IF s = {} THEN base ELSE step[<<h[s \ {Max(s)}], Max(s)>>]]

\* The last index of a nonempty part of a batch is one of its indices.
LEMMA MaxIn ==
    ASSUME NEW S, IsFiniteSet(S), S \subseteq Nat, NEW s \in SUBSET S, s # {}
    PROVE  Max(s) \in s
<1>1. IsFiniteSet(s)
  BY FS_Subset
<1>2. s \subseteq Int
  BY SMTT(30)
<1> QED
  BY <1>1, <1>2, Extremes

\* There is at most one such h: the loop over a batch has one outcome.
LEMMA FoldUnique ==
    ASSUME NEW step, NEW base, NEW S, IsFiniteSet(S), S \subseteq Nat,
           NEW h, NEW k, IsFold(h, step, base, S), IsFold(k, step, base, S)
    PROVE  h = k
<1> DEFINE G == {s \in SUBSET S : h[s] = k[s]}
<1>1. ASSUME NEW T \in SUBSET S, \A U \in SUBSET T : U # T => U \in G
      PROVE  T \in G
  <2>1. CASE T = {}
    BY <2>1 DEF IsFold
  <2>2. CASE T # {}
    <3>1. T \ {Max(T)} \in G
      BY <1>1, <2>2, MaxIn
    <3> QED
      BY <2>2, <3>1 DEF IsFold
  <2> QED
    BY <2>1, <2>2
<1>2. SUBSET S \subseteq G
  <2> HIDE DEF G
  <2> QED
    BY <1>1, SubsetInduction
<1> QED
  BY <1>2 DEF IsFold

\* Restricted to the subsets of U, such an h for S is one for U: the loop over
\* the first entries of a batch does what it does in the whole batch.
LEMMA FoldRestrict ==
    ASSUME NEW step, NEW base, NEW S, NEW h, IsFold(h, step, base, S), NEW U \in SUBSET S
    PROVE  IsFold([s \in SUBSET U |-> h[s]], step, base, U)
<1>1. \A s \in SUBSET U : s \in SUBSET S /\ s \ {Max(s)} \in SUBSET U
  OBVIOUS
<1> QED
  BY <1>1 DEF IsFold

\* There is such an h for every finite set of indices: the loop over a batch
\* ends.
LEMMA FoldExists ==
    ASSUME NEW step, NEW base, NEW S, IsFiniteSet(S), S \subseteq Nat
    PROVE  \E h : IsFold(h, step, base, S)
<1> DEFINE G == {T \in SUBSET S : \E h : IsFold(h, step, base, T)}
           H(U) == CHOOSE h : IsFold(h, step, base, U)
<1>1. ASSUME NEW T \in SUBSET S, \A U \in SUBSET T : U # T => U \in G
      PROVE  T \in G
  <2> DEFINE g == [s \in SUBSET T |->
                      IF s = {} THEN base
                      ELSE step[<<H(s \ {Max(s)})[s \ {Max(s)}], Max(s)>>]]
  <2>1. ASSUME NEW U \in SUBSET T, U # T PROVE IsFold(H(U), step, base, U)
    <3>1. \E h : IsFold(h, step, base, U)
      BY <1>1, <2>1
    <3> QED
      BY <3>1
  <2>2. ASSUME NEW r \in SUBSET T, r # T PROVE g[r] = H(r)[r]
    <3>1. IsFold(H(r), step, base, r)
      BY <2>1, <2>2
    <3>2. CASE r = {}
      BY <3>1, <3>2 DEF IsFold
    <3>3. CASE r # {}
      <4> DEFINE u == r \ {Max(r)}
      <4>1. u \in SUBSET r /\ u # T
        BY <2>2, <3>3, MaxIn
      <4>2. IsFold(H(u), step, base, u)
        BY <2>1, <4>1
      <4>3. IsFold([s \in SUBSET u |-> H(r)[s]], step, base, u)
        BY <3>1, <4>1, FoldRestrict, SMTT(30)
      <4>4. IsFiniteSet(u) /\ u \subseteq Nat
        BY <4>1, FS_Subset
      <4>5. H(u) = [s \in SUBSET u |-> H(r)[s]]
        BY <4>2, <4>3, <4>4, FoldUnique
      <4>6. H(u)[u] = H(r)[u]
        BY <4>5
      <4>7. H(r)[r] = step[<<H(r)[u], Max(r)>>]
        BY <3>1, <3>3 DEF IsFold
      <4> QED
        BY <3>3, <4>6, <4>7
    <3> QED
      BY <3>2, <3>3
  <2>3. ASSUME NEW s \in SUBSET T, s # {}
        PROVE  g[s \ {Max(s)}] = H(s \ {Max(s)})[s \ {Max(s)}]
    <3>1. s \ {Max(s)} \in SUBSET T /\ s \ {Max(s)} # T
      BY <2>3, MaxIn
    <3> QED
      BY <2>2, <3>1
  <2>4. \A s \in SUBSET T :
            g[s] = IF s = {} THEN base ELSE step[<<g[s \ {Max(s)}], Max(s)>>]
    <3> HIDE DEF H
    <3> QED
      BY <2>3
  <2>5. g = [s \in SUBSET T |-> g[s]]
    <3> HIDE DEF H
    <3> QED
      OBVIOUS
  <2>6. IsFold(g, step, base, T)
    <3> HIDE DEF g
    <3> QED
      BY <2>4, <2>5 DEF IsFold
  <2> QED
    BY <2>6
<1>2. SUBSET S \subseteq G
  <2> HIDE DEF G
  <2> QED
    BY <1>1, SubsetInduction
<1> QED
  BY <1>2

\* The loop stays in any set of states that every entry stays in.
LEMMA FoldStays ==
    ASSUME NEW step, NEW X, NEW base \in X, NEW S, IsFiniteSet(S), S \subseteq Nat,
           NEW h, IsFold(h, step, base, S), \A p \in X \X S : step[p] \in X
    PROVE  \A s \in SUBSET S : h[s] \in X
<1> DEFINE G == {s \in SUBSET S : h[s] \in X}
<1>1. ASSUME NEW T \in SUBSET S, \A U \in SUBSET T : U # T => U \in G
      PROVE  T \in G
  <2>1. CASE T = {}
    BY <2>1 DEF IsFold
  <2>2. CASE T # {}
    <3> DEFINE m == Max(T)
    <3>1. m \in T
      BY <2>2, MaxIn
    <3>2. T \ {m} \in G
      BY <1>1, <3>1
    <3>3. h[T] = step[<<h[T \ {m}], m>>]
      BY <2>2 DEF IsFold
    <3> HIDE DEF m
    <3>4. <<h[T \ {m}], m>> \in X \X S
      BY <3>1, <3>2
    <3> QED
      BY <3>3, <3>4
  <2> QED
    BY <2>1, <2>2
<1>2. SUBSET S \subseteq G
  <2> HIDE DEF G
  <2> QED
    BY <1>1, SubsetInduction
<1> QED
  BY <1>2

\* Counting to n: what holds before the first entry and is kept by each entry
\* holds after the whole batch.
LEMMA LoopInduction ==
    ASSUME NEW n \in Nat, NEW G, 0 \in G, \A i \in 1 .. n : i - 1 \in G => i \in G
    PROVE  \A i \in 0 .. n : i \in G
<1> DEFINE bad == {i \in 0 .. n : i \notin G}
<1> SUFFICES ASSUME bad # {} PROVE FALSE
  OBVIOUS
<1>1. IsFiniteSet(bad) /\ bad \subseteq Int
  <2>1. 0 \in Int /\ n \in Int
    BY SMTT(30)
  <2>2. IsFiniteSet(0 .. n)
    BY <2>1, FS_Interval
  <2> QED
    BY <2>2, FS_Subset, SMTT(30)
<1>2. Min(bad) \in bad /\ \A x \in bad : Min(bad) <= x
  <2> HIDE DEF bad
  <2> QED
    BY <1>1, Extremes
<1> DEFINE m == Min(bad)
<1> HIDE DEF m
<1>3. m \in 0 .. n /\ m \notin G /\ \A x \in 0 .. n : x \notin G => m <= x
  BY <1>2 DEF m
<1>4. m # 0
  BY <1>3
<1>5. m - 1 \in 0 .. n /\ m \in 1 .. n
  BY <1>3, <1>4, SMTT(30)
<1>6. m - 1 \in G
  BY <1>3, <1>5, SMTT(30)
<1> QED
  BY <1>3, <1>5, <1>6

\* The entries 1 to i without the last are the entries 1 to i - 1.
LEMMA Prefix ==
    ASSUME NEW n \in Nat, NEW i \in 1 .. n
    PROVE  /\ 1 .. i \in SUBSET (1 .. n) /\ 1 .. i # {}
           /\ Max(1 .. i) = i
           /\ (1 .. i) \ {i} = 1 .. (i - 1)
<1>1. 1 .. i \in SUBSET (1 .. n) /\ 1 .. i # {} /\ 1 .. i \subseteq Int /\ i \in 1 .. i
  BY SMTT(30)
<1>2. IsFiniteSet(1 .. i)
  <2>1. 1 \in Int /\ i \in Int
    BY SMTT(30)
  <2> QED
    BY <2>1, FS_Interval
<1>3. Max(1 .. i) \in 1 .. i /\ i <= Max(1 .. i)
  BY <1>1, <1>2, Extremes
<1> QED
  BY <1>1, <1>3, SMTT(30)

\* the loops of ProcessServeBatch and SubmitDenialBatch
ServeLoop(o, e, base, serves) ==
    ForEach(LAMBDA s, x : ProcessEntry(s, o, e, x), base, serves)

DenialLoop(o, e, base, entries) ==
    ForEach(LAMBDA d, x : ProcessDenial(d, o, e, x), base, entries)

ServesStay(o, e, n, serves, X) ==
    \A s \in X, i \in 1 .. n : ProcessEntry(s, o, e, serves[i]) \in X

\* r holds the states of the loop
IsServeRun(r, o, e, n, base, serves, X) ==
    /\ r[0] = base
    /\ r[n] = ServeLoop(o, e, base, serves)
    /\ \A i \in 0 .. n : r[i] \in X
    /\ \A i \in 1 .. n : r[i] = ProcessEntry(r[i - 1], o, e, serves[i])

\* The loop of ProcessServeBatch: r holds its state after 0, 1, ..., n entries,
\* each reached from the one before by one entry, and stays in any set of states
\* that every entry stays in.
LEMMA ServeRun ==
    ASSUME NEW o, NEW e, NEW n \in Nat, NEW serves, DOMAIN serves = 1 .. n,
           NEW X, NEW base \in X, ServesStay(o, e, n, serves, X)
    PROVE  \E r : IsServeRun(r, o, e, n, base, serves, X)
<1>0. \A s \in X, i \in 1 .. n : ProcessEntry(s, o, e, serves[i]) \in X
  BY DEF ServesStay
<1> DEFINE D == 1 .. n
           step == [p \in X \X D |-> ProcessEntry(p[1], o, e, serves[p[2]])]
           Fold(h) == h = [s \in SUBSET D |->
                              IF s = {} THEN base
                              ELSE ProcessEntry(h[s \ {Max(s)}], o, e, serves[Max(s)])]
           H == CHOOSE h : Fold(h)
<1>1. IsFiniteSet(D) /\ D \subseteq Nat
  <2>1. 1 \in Int /\ n \in Int
    BY SMTT(30)
  <2> QED
    BY <2>1, FS_Interval, SMTT(30)
<1>2. \E h : Fold(h)
  <2>1. PICK h : IsFold(h, step, base, D)
    <3> HIDE DEF step, D
    <3> QED
      BY <1>1, FoldExists
  <2>2. \A p \in X \X D : step[p] \in X
    BY <1>0
  <2>3. \A s \in SUBSET D : h[s] \in X
    <3> HIDE DEF step, D
    <3> QED
      BY <1>1, <2>1, <2>2, FoldStays
  <2>4. ASSUME NEW s \in SUBSET D
        PROVE  h[s] = IF s = {} THEN base
                      ELSE ProcessEntry(h[s \ {Max(s)}], o, e, serves[Max(s)])
    <3>1. CASE s = {}
      BY <2>1, <3>1 DEF IsFold
    <3>2. CASE s # {}
      <4> DEFINE m == Max(s)
      <4>1. m \in s
        BY <1>1, <3>2, MaxIn
      <4>2. h[s] = step[<<h[s \ {m}], m>>]
        BY <2>1, <3>2 DEF IsFold
      <4> HIDE DEF m
      <4>3. h[s \ {m}] \in X /\ m \in D
        BY <2>3, <4>1
      <4>4. step[<<h[s \ {m}], m>>] = ProcessEntry(h[s \ {m}], o, e, serves[m])
        BY <4>3
      <4> QED
        BY <3>2, <4>2, <4>4 DEF m
    <3> QED
      BY <3>1, <3>2
  <2>5. h = [s \in SUBSET D |-> h[s]]
    BY <2>1 DEF IsFold
  <2>6. Fold(h)
    <3> HIDE DEF D
    <3> QED
      BY <2>4, <2>5
  <2> QED
    BY <2>6
<1>3. Fold(H)
  <2> HIDE DEF Fold
  <2> QED
    BY <1>2
<1>4. ServeLoop(o, e, base, serves) = H[D]
  BY DEF ServeLoop, ForEach, MapThenFoldSet
<1> HIDE DEF H
<1> DEFINE r == [i \in 0 .. n |-> H[1 .. i]]
<1>5. r[0] = base
  <2>1. 1 .. 0 = {}
    BY SMTT(30)
  <2> QED
    BY <1>3, <2>1, SMTT(30)
<1>6. r[n] = H[D]
  BY SMTT(30)
<1>7. ASSUME NEW i \in 1 .. n
      PROVE  r[i] = ProcessEntry(r[i - 1], o, e, serves[i])
  <2>1. i \in 0 .. n /\ i - 1 \in 0 .. n
    BY SMTT(30)
  <2>2. H[1 .. i] = ProcessEntry(H[(1 .. i) \ {Max(1 .. i)}], o, e, serves[Max(1 .. i)])
    BY <1>3, Prefix
  <2>3. H[1 .. i] = ProcessEntry(H[1 .. (i - 1)], o, e, serves[i])
    BY <2>2, Prefix
  <2> QED
    BY <2>1, <2>3
<1>8. \A i \in 0 .. n : r[i] \in X
  <2> DEFINE G == {i \in 0 .. n : r[i] \in X}
  <2>1. 0 \in G
    BY <1>5, SMTT(30)
  <2> HIDE DEF r
  <2>2. \A i \in 1 .. n : i - 1 \in G => i \in G
    BY <1>0, <1>7, SMTT(30)
  <2> HIDE DEF G
  <2>3. \A i \in 0 .. n : i \in G
    BY <2>1, <2>2, LoopInduction
  <2> QED
    BY <2>3 DEF G
<1> HIDE DEF r
<1> QED
  BY <1>4, <1>5, <1>6, <1>7, <1>8 DEF IsServeRun

DenialsStay(o, e, n, entries, X) ==
    \A s \in X, i \in 1 .. n : ProcessDenial(s, o, e, entries[i]) \in X

\* r holds the states of the loop
IsDenialRun(r, o, e, n, base, entries, X) ==
    /\ r[0] = base
    /\ r[n] = DenialLoop(o, e, base, entries)
    /\ \A i \in 0 .. n : r[i] \in X
    /\ \A i \in 1 .. n : r[i] = ProcessDenial(r[i - 1], o, e, entries[i])

\* The loop of SubmitDenialBatch: r holds its state after 0, 1, ..., n entries,
\* each reached from the one before by one entry, and stays in any set of states
\* that every entry stays in.
LEMMA DenialRun ==
    ASSUME NEW o, NEW e, NEW n \in Nat, NEW entries, DOMAIN entries = 1 .. n,
           NEW X, NEW base \in X, DenialsStay(o, e, n, entries, X)
    PROVE  \E r : IsDenialRun(r, o, e, n, base, entries, X)
<1>0. \A s \in X, i \in 1 .. n : ProcessDenial(s, o, e, entries[i]) \in X
  BY DEF DenialsStay
<1> DEFINE D == 1 .. n
           step == [p \in X \X D |-> ProcessDenial(p[1], o, e, entries[p[2]])]
           Fold(h) == h = [s \in SUBSET D |->
                              IF s = {} THEN base
                              ELSE ProcessDenial(h[s \ {Max(s)}], o, e, entries[Max(s)])]
           H == CHOOSE h : Fold(h)
<1>1. IsFiniteSet(D) /\ D \subseteq Nat
  <2>1. 1 \in Int /\ n \in Int
    BY SMTT(30)
  <2> QED
    BY <2>1, FS_Interval, SMTT(30)
<1>2. \E h : Fold(h)
  <2>1. PICK h : IsFold(h, step, base, D)
    <3> HIDE DEF step, D
    <3> QED
      BY <1>1, FoldExists
  <2>2. \A p \in X \X D : step[p] \in X
    BY <1>0
  <2>3. \A s \in SUBSET D : h[s] \in X
    <3> HIDE DEF step, D
    <3> QED
      BY <1>1, <2>1, <2>2, FoldStays
  <2>4. ASSUME NEW s \in SUBSET D
        PROVE  h[s] = IF s = {} THEN base
                      ELSE ProcessDenial(h[s \ {Max(s)}], o, e, entries[Max(s)])
    <3>1. CASE s = {}
      BY <2>1, <3>1 DEF IsFold
    <3>2. CASE s # {}
      <4> DEFINE m == Max(s)
      <4>1. m \in s
        BY <1>1, <3>2, MaxIn
      <4>2. h[s] = step[<<h[s \ {m}], m>>]
        BY <2>1, <3>2 DEF IsFold
      <4> HIDE DEF m
      <4>3. h[s \ {m}] \in X /\ m \in D
        BY <2>3, <4>1
      <4>4. step[<<h[s \ {m}], m>>] = ProcessDenial(h[s \ {m}], o, e, entries[m])
        BY <4>3
      <4> QED
        BY <3>2, <4>2, <4>4 DEF m
    <3> QED
      BY <3>1, <3>2
  <2>5. h = [s \in SUBSET D |-> h[s]]
    BY <2>1 DEF IsFold
  <2>6. Fold(h)
    <3> HIDE DEF D
    <3> QED
      BY <2>4, <2>5
  <2> QED
    BY <2>6
<1>3. Fold(H)
  <2> HIDE DEF Fold
  <2> QED
    BY <1>2
<1>4. DenialLoop(o, e, base, entries) = H[D]
  BY DEF DenialLoop, ForEach, MapThenFoldSet
<1> HIDE DEF H
<1> DEFINE r == [i \in 0 .. n |-> H[1 .. i]]
<1>5. r[0] = base
  <2>1. 1 .. 0 = {}
    BY SMTT(30)
  <2> QED
    BY <1>3, <2>1, SMTT(30)
<1>6. r[n] = H[D]
  BY SMTT(30)
<1>7. ASSUME NEW i \in 1 .. n
      PROVE  r[i] = ProcessDenial(r[i - 1], o, e, entries[i])
  <2>1. i \in 0 .. n /\ i - 1 \in 0 .. n
    BY SMTT(30)
  <2>2. H[1 .. i] = ProcessDenial(H[(1 .. i) \ {Max(1 .. i)}], o, e, entries[Max(1 .. i)])
    BY <1>3, Prefix
  <2>3. H[1 .. i] = ProcessDenial(H[1 .. (i - 1)], o, e, entries[i])
    BY <2>2, Prefix
  <2> QED
    BY <2>1, <2>3
<1>8. \A i \in 0 .. n : r[i] \in X
  <2> DEFINE G == {i \in 0 .. n : r[i] \in X}
  <2>1. 0 \in G
    BY <1>5, SMTT(30)
  <2> HIDE DEF r
  <2>2. \A i \in 1 .. n : i - 1 \in G => i \in G
    BY <1>0, <1>7, SMTT(30)
  <2> HIDE DEF G
  <2>3. \A i \in 0 .. n : i \in G
    BY <2>1, <2>2, LoopInduction
  <2> QED
    BY <2>3 DEF G
<1> HIDE DEF r
<1> QED
  BY <1>4, <1>5, <1>6, <1>7, <1>8 DEF IsDenialRun
----------------------------------------------------------------------------
(* What one entry does.                                                    *)

EpochStats ==
    [memories : Nat, keys : Nat, total : Nat, self : Nat, models : [Models -> Nat],
     denials : Nat]

\* the serve half of the store, and the state of the loop over a batch
Store ==
    [receipt : [Fingerprints -> ServeReceipt],
     memCount : [Orgs \X Hashes \X EpochIds -> Nat],
     memFirst : SUBSET (Orgs \X Hashes \X EpochIds),
     keyFirst : SUBSET (Orgs \X ServeKeys \X EpochIds),
     stats : [Orgs \X EpochIds -> EpochStats],
     contributor : [ServeKeys \X EpochIds -> ServeTally]]

LoopState == [kv : Store, reputation : [ServeKeys -> ServeTally]]

ContributorsOK == contributor \in [Orgs -> [Hashes -> ServeKeys \cup {NoKey}]]

One(b) == IF b THEN 1 ELSE 0

\* the receipt and the statistics an accepted entry writes
ReceiptOf(o, x) ==
    [org |-> o, contributor |-> x.contributor, model |-> x.model, turns |-> x.turns]

StatsAfter(store, o, e, x) ==
    [memories |-> store.stats[<<o, e>>].memories + One(<<o, x.hash, e>> \notin store.memFirst),
     keys |-> store.stats[<<o, e>>].keys + One(<<o, x.key, e>> \notin store.keyFirst),
     total |-> store.stats[<<o, e>>].total + 1,
     self |-> store.stats[<<o, e>>].self + One(x.key = x.contributor),
     models |-> [store.stats[<<o, e>>].models EXCEPT ![x.model] = @ + One(x.model # NoModel)],
     denials |-> store.stats[<<o, e>>].denials]

\* the record with the fields of the store
Fields(z) ==
    [receipt |-> z.receipt, memCount |-> z.memCount, memFirst |-> z.memFirst,
     keyFirst |-> z.keyFirst, stats |-> z.stats, contributor |-> z.contributor]

IsStore(z) == z = Fields(z)

\* the two updates of the store that several fields take part in
Received(k, f, q, m) == [k EXCEPT !.receipt[f] = q, !.memCount[m] = @ + 1]

Marked(a, k, m, oe, n) ==
    [a EXCEPT !.keyFirst = @ \cup {k}, !.memFirst = @ \cup {m}, !.stats[oe] = n]

\* d is k after the first, and a after the second
ReceivedFrom(d, k, f, q, m) ==
    /\ IsStore(d)
    /\ d.receipt = [k.receipt EXCEPT ![f] = q]
    /\ d.memCount = [k.memCount EXCEPT ![m] = @ + 1]
    /\ d.memFirst = k.memFirst /\ d.keyFirst = k.keyFirst
    /\ d.stats = k.stats /\ d.contributor = k.contributor

MarkedFrom(d, a, k, m, oe, n) ==
    /\ IsStore(d)
    /\ d.receipt = a.receipt /\ d.memCount = a.memCount
    /\ d.memFirst = a.memFirst \cup {m}
    /\ d.keyFirst = a.keyFirst \cup {k}
    /\ d.stats = [a.stats EXCEPT ![oe] = n]
    /\ d.contributor = a.contributor

\* what an accepted entry x leads to from s
EntryEffect(t, s, o, e, x) ==
    /\ t = [kv |-> t.kv, reputation |-> t.reputation]
    /\ IsStore(t.kv)
    /\ t.kv.receipt = [s.kv.receipt EXCEPT ![<<x.hash, x.key, e>>] = ReceiptOf(o, x)]
    /\ t.kv.memCount = [s.kv.memCount EXCEPT ![<<o, x.hash, e>>] = @ + 1]
    /\ t.kv.memFirst = s.kv.memFirst \cup {<<o, x.hash, e>>}
    /\ t.kv.keyFirst = s.kv.keyFirst \cup {<<o, x.key, e>>}
    /\ t.kv.stats = [s.kv.stats EXCEPT ![<<o, e>>] = StatsAfter(s.kv, o, e, x)]
    /\ t.kv.contributor = [s.kv.contributor EXCEPT ![<<x.contributor, e>>] =
                               AddServe(@, o, x.key = x.contributor, x.turns)]
    /\ t.reputation = RecordServe(s.reputation, o, x)

\* Storing a receipt and counting its memory (ProcessServeBatch) leaves the
\* other parts of the store alone.
LEMMA ReceiptFields ==
    ASSUME NEW k, IsStore(k), NEW f, NEW q, NEW m
    PROVE  ReceivedFrom(Received(k, f, q, m), k, f, q, m)
<1> DEFINE y == [k EXCEPT !.receipt[f] = q]
           z == [y EXCEPT !.memCount[m] = @ + 1]
<1>1. /\ IsStore(y)
      /\ y.receipt = [k.receipt EXCEPT ![f] = q]
      /\ y.memCount = k.memCount
      /\ y.memFirst = k.memFirst /\ y.keyFirst = k.keyFirst
      /\ y.stats = k.stats /\ y.contributor = k.contributor
  BY SMTT(30) DEF IsStore, Fields
<1>2. z = Received(k, f, q, m)
  BY DEF IsStore, Fields, Received
<1> HIDE DEF y
<1>3. /\ IsStore(z)
      /\ z.receipt = y.receipt
      /\ z.memCount = [y.memCount EXCEPT ![m] = @ + 1]
      /\ z.memFirst = y.memFirst /\ z.keyFirst = y.keyFirst
      /\ z.stats = y.stats /\ z.contributor = y.contributor
  BY <1>1, SMTT(30) DEF IsStore, Fields
<1> HIDE DEF z
<1> QED
  BY <1>1, <1>2, <1>3 DEF ReceivedFrom

\* Marking a key and a memory as served and replacing the statistics of an
\* (org, epoch) (updateEpochStats) leaves the other parts of the store alone.
LEMMA MarkerFields ==
    ASSUME NEW a, IsStore(a), NEW k, NEW m, NEW oe, NEW n
    PROVE  MarkedFrom(Marked(a, k, m, oe, n), a, k, m, oe, n)
<1> DEFINE y == [a EXCEPT !.keyFirst = @ \cup {k}]
           x == [y EXCEPT !.memFirst = @ \cup {m}]
           z == [x EXCEPT !.stats[oe] = n]
<1>1. /\ IsStore(y)
      /\ y.receipt = a.receipt /\ y.memCount = a.memCount
      /\ y.memFirst = a.memFirst /\ y.keyFirst = a.keyFirst \cup {k}
      /\ y.stats = a.stats /\ y.contributor = a.contributor
  BY SMTT(30) DEF IsStore, Fields
<1>2. z = Marked(a, k, m, oe, n)
  BY DEF IsStore, Fields, Marked
<1> HIDE DEF y
<1>3. /\ IsStore(x)
      /\ x.receipt = y.receipt /\ x.memCount = y.memCount
      /\ x.memFirst = y.memFirst \cup {m} /\ x.keyFirst = y.keyFirst
      /\ x.stats = y.stats /\ x.contributor = y.contributor
  BY <1>1, SMTT(30) DEF IsStore, Fields
<1> HIDE DEF x
<1>4. /\ IsStore(z)
      /\ z.receipt = x.receipt /\ z.memCount = x.memCount
      /\ z.memFirst = x.memFirst /\ z.keyFirst = x.keyFirst
      /\ z.stats = [x.stats EXCEPT ![oe] = n] /\ z.contributor = x.contributor
  BY <1>3, SMTT(30) DEF IsStore, Fields
<1> HIDE DEF z
<1> QED
  BY <1>1, <1>2, <1>3, <1>4 DEF MarkedFrom

\* The effect of an accepted entry of ProcessServeBatch on each part of the
\* store: a receipt, a count, the first markers, the statistics, the summary of
\* the named contributor, and what x/reputation records.
LEMMA EntryFields ==
    ASSUME NEW s \in LoopState, NEW o \in Orgs, NEW e \in EpochIds, NEW x \in ServeEntry,
           Accepts(s.kv, o, e, x)
    PROVE  EntryEffect(ProcessEntry(s, o, e, x), s, o, e, x)
<1> DEFINE t == ProcessEntry(s, o, e, x)
           a == Received(s.kv, <<x.hash, x.key, e>>, ReceiptOf(o, x), <<o, x.hash, e>>)
           b == updateEpochStats(a, o, e, x)
           c == updateContributorServes(b, o, e, x)
<1>1. t = [kv |-> c, reputation |-> RecordServe(s.reputation, o, x)]
  BY DEF ProcessEntry, ReceiptOf, Received
<1>2. IsStore(s.kv)
  BY DEF LoopState, Store, IsStore, Fields
<1>3. ReceivedFrom(a, s.kv, <<x.hash, x.key, e>>, ReceiptOf(o, x), <<o, x.hash, e>>)
  BY <1>2, ReceiptFields
<1> HIDE DEF a
<1>4. MarkedFrom(b, a, <<o, x.key, e>>, <<o, x.hash, e>>, <<o, e>>, StatsAfter(a, o, e, x))
  <2>1. b = Marked(a, <<o, x.key, e>>, <<o, x.hash, e>>, <<o, e>>, StatsAfter(a, o, e, x))
    BY DEF updateEpochStats, StatsAfter, NewMemory, One, Marked
  <2>2. IsStore(a)
    BY <1>3 DEF ReceivedFrom
  <2> QED
    BY <2>1, <2>2, MarkerFields
<1> HIDE DEF b
<1>5. /\ IsStore(c)
      /\ c.receipt = b.receipt /\ c.memCount = b.memCount
      /\ c.memFirst = b.memFirst /\ c.keyFirst = b.keyFirst /\ c.stats = b.stats
      /\ c.contributor = [b.contributor EXCEPT ![<<x.contributor, e>>] =
                              AddServe(@, o, x.key = x.contributor, x.turns)]
  <2>1. IsStore(b)
    BY <1>4 DEF MarkedFrom
  <2> QED
    BY <2>1, SMTT(30) DEF updateContributorServes, IsStore, Fields
<1> HIDE DEF c
<1>6. StatsAfter(a, o, e, x) = StatsAfter(s.kv, o, e, x)
  BY <1>3 DEF StatsAfter, ReceivedFrom
<1>7. t.kv = c /\ t.reputation = RecordServe(s.reputation, o, x)
  BY <1>1, SMTT(30)
<1> HIDE DEF t
<1>8. EntryEffect(t, s, o, e, x)
  BY <1>1, <1>3, <1>4, <1>5, <1>6, <1>7 DEF EntryEffect, ReceivedFrom, MarkedFrom
<1> QED
  BY <1>8 DEF t

\* A tally stays a tally when a serve is added.
LEMMA TallyType ==
    ASSUME NEW tally \in ServeTally, NEW o \in Orgs, NEW self, NEW turns \in Nat
    PROVE  AddServe(tally, o, self, turns) \in ServeTally
  BY SMTT(30) DEF AddServe, ServeTally

\* RecordServe credits a tally of the memory's contributor and no other.
LEMMA RecordType ==
    ASSUME NEW tallies \in [ServeKeys -> ServeTally], NEW o \in Orgs, NEW x \in ServeEntry,
           ContributorsOK, contributor[o][x.hash] # NoKey
    PROVE  /\ contributor[o][x.hash] \in ServeKeys
           /\ RecordServe(tallies, o, x) \in [ServeKeys -> ServeTally]
<1> DEFINE k == contributor[o][x.hash]
           v == AddServe(tallies[k], o, x.key = x.contributor, 0)
<1>1. k \in ServeKeys
  BY SMTT(30) DEF ContributorsOK, ServeEntry
<1>2. v \in ServeTally
  BY <1>1, TallyType
<1>3. RecordServe(tallies, o, x) = IF active THEN [tallies EXCEPT ![k] = v] ELSE tallies
  BY DEF RecordServe
<1> HIDE DEF k, v
<1>4. RecordServe(tallies, o, x) \in [ServeKeys -> ServeTally]
  BY <1>1, <1>2, <1>3
<1> QED
  BY <1>1, <1>4 DEF k

\* ProcessServeBatch keeps its records well typed, entry by entry.
LEMMA EntryType ==
    ASSUME NEW s \in LoopState, NEW o \in Orgs, NEW e \in EpochIds, NEW x \in ServeEntry,
           ContributorsOK
    PROVE  ProcessEntry(s, o, e, x) \in LoopState
<1>1. CASE ~Accepts(s.kv, o, e, x)
  BY <1>1 DEF ProcessEntry
<1>2. CASE Accepts(s.kv, o, e, x)
  <2> DEFINE t == ProcessEntry(s, o, e, x)
  <2>1. EntryEffect(t, s, o, e, x)
    BY <1>2, EntryFields
  <2> HIDE DEF t
  <2>2. /\ x.hash \in Hashes /\ x.key \in ServeKeys /\ x.contributor \in ServeKeys
        /\ x.model \in Models /\ x.turns \in Turns /\ x.turns \in Nat
    BY ServeConstants DEF ServeEntry
  <2>3. /\ s.kv.receipt \in [Fingerprints -> ServeReceipt]
        /\ s.kv.memCount \in [Orgs \X Hashes \X EpochIds -> Nat]
        /\ s.kv.memFirst \in SUBSET (Orgs \X Hashes \X EpochIds)
        /\ s.kv.keyFirst \in SUBSET (Orgs \X ServeKeys \X EpochIds)
        /\ s.kv.stats \in [Orgs \X EpochIds -> EpochStats]
        /\ s.kv.contributor \in [ServeKeys \X EpochIds -> ServeTally]
        /\ s.reputation \in [ServeKeys -> ServeTally]
    BY DEF LoopState, Store
  <2>4. t.kv.receipt \in [Fingerprints -> ServeReceipt]
    <3>1. ReceiptOf(o, x) \in ServeReceipt
      BY <2>2 DEF ReceiptOf, ServeReceipt
    <3>2. t.kv.receipt = [s.kv.receipt EXCEPT ![<<x.hash, x.key, e>>] = ReceiptOf(o, x)]
      BY <2>1 DEF EntryEffect
    <3> QED
      BY <2>3, <3>1, <3>2
  <2>5. t.kv.memCount \in [Orgs \X Hashes \X EpochIds -> Nat]
    <3>1. t.kv.memCount = [s.kv.memCount EXCEPT ![<<o, x.hash, e>>] = @ + 1]
      BY <2>1 DEF EntryEffect
    <3>2. <<o, x.hash, e>> \in Orgs \X Hashes \X EpochIds
      BY <2>2
    <3> QED
      BY <2>3, <3>1, <3>2, SMTT(30)
  <2>6. /\ t.kv.memFirst \in SUBSET (Orgs \X Hashes \X EpochIds)
        /\ t.kv.keyFirst \in SUBSET (Orgs \X ServeKeys \X EpochIds)
    <3>1. /\ t.kv.memFirst = s.kv.memFirst \cup {<<o, x.hash, e>>}
          /\ t.kv.keyFirst = s.kv.keyFirst \cup {<<o, x.key, e>>}
      BY <2>1 DEF EntryEffect
    <3> QED
      BY <2>2, <2>3, <3>1, SMTT(30)
  <2>7. t.kv.stats \in [Orgs \X EpochIds -> EpochStats]
    <3>1. StatsAfter(s.kv, o, e, x) \in EpochStats
      <4> DEFINE r == s.kv.stats[<<o, e>>]
      <4>1. r \in EpochStats
        BY <2>3
      <4> HIDE DEF r
      <4>2. /\ r.memories \in Nat /\ r.keys \in Nat /\ r.total \in Nat /\ r.self \in Nat
            /\ r.models \in [Models -> Nat] /\ r.denials \in Nat
        BY <4>1 DEF EpochStats
      <4>3. \A b : One(b) \in Nat
        BY DEF One
      <4>4. [r.models EXCEPT ![x.model] = @ + One(x.model # NoModel)] \in [Models -> Nat]
        BY <2>2, <4>2, <4>3, SMTT(30)
      <4> QED
        BY <4>2, <4>3, <4>4, SMTT(30) DEF StatsAfter, EpochStats, r
    <3>2. t.kv.stats = [s.kv.stats EXCEPT ![<<o, e>>] = StatsAfter(s.kv, o, e, x)]
      BY <2>1 DEF EntryEffect
    <3> QED
      BY <2>3, <3>1, <3>2
  <2>8. t.kv.contributor \in [ServeKeys \X EpochIds -> ServeTally]
    <3> DEFINE c == <<x.contributor, e>>
               v == AddServe(s.kv.contributor[c], o, x.key = x.contributor, x.turns)
    <3>1. c \in ServeKeys \X EpochIds
      BY <2>2
    <3>2. v \in ServeTally
      BY <2>2, <2>3, <3>1, TallyType
    <3>3. t.kv.contributor = [s.kv.contributor EXCEPT ![c] = v]
      BY <2>1 DEF EntryEffect
    <3> HIDE DEF c, v
    <3> QED
      BY <2>3, <3>1, <3>2, <3>3
  <2>9. t.reputation \in [ServeKeys -> ServeTally]
    <3>1. t.reputation = RecordServe(s.reputation, o, x)
      BY <2>1 DEF EntryEffect
    <3> QED
      BY <1>2, <2>3, <3>1, RecordType, SMTT(30) DEF Accepts
  <2>10. t.kv \in Store
    <3>1. t.kv = Fields(t.kv)
      BY <2>1 DEF EntryEffect, IsStore
    <3>2. Fields(t.kv) \in Store
      BY <2>4, <2>5, <2>6, <2>7, <2>8 DEF Fields, Store
    <3> QED
      BY <3>1, <3>2
  <2>11. t = [kv |-> t.kv, reputation |-> t.reputation]
    BY <2>1 DEF EntryEffect
  <2>12. t \in LoopState
    BY <2>9, <2>10, <2>11 DEF LoopState
  <2> QED
    BY <2>12 DEF t
<1> QED
  BY <1>1, <1>2

----------------------------------------------------------------------------
(* What one denial does.                                                   *)

Counts == [Orgs \X Hashes \X EpochIds -> Nat]

DenialCounts == [DenialKeys -> Nat]

\* denial receipts come one by one, so there are finitely many
DenialSets == {r \in SUBSET (DenialReceipt \cup StrayDenial) : IsFiniteSet(r)}

DenialState ==
    [receipts : DenialSets, count : DenialCounts, stats : [Orgs \X EpochIds -> EpochStats]]

DenialOf(o, e, x) == <<o, x.hash, e, x.key, x.fingerprint>>

OneMoreDenial(r) == [r EXCEPT !.denials = @ + 1]

\* what an accepted denial x leads to from d
DenialEffect(t, d, o, e, x) ==
    /\ t = [receipts |-> t.receipts, count |-> t.count, stats |-> t.stats]
    /\ t.receipts = d.receipts \cup {DenialOf(o, e, x)}
    /\ t.count = [d.count EXCEPT ![<<o, x.hash, e>>] = @ + 1]
    /\ t.stats = [d.stats EXCEPT ![<<o, e>>] = OneMoreDenial(d.stats[<<o, e>>])]

\* A denial changes one field of the statistics of its (org, epoch).
LEMMA DenialStats ==
    ASSUME NEW r \in EpochStats
    PROVE  /\ OneMoreDenial(r) \in EpochStats
           /\ OneMoreDenial(r).memories = r.memories
           /\ OneMoreDenial(r).keys = r.keys
           /\ OneMoreDenial(r).total = r.total
           /\ OneMoreDenial(r).self = r.self
           /\ OneMoreDenial(r).models = r.models
           /\ OneMoreDenial(r).denials = r.denials + 1
  BY SMTT(30) DEF OneMoreDenial, EpochStats

\* The effect of an accepted entry of SubmitDenialBatch: a denial receipt, a
\* count and the statistics.
LEMMA DenialFields ==
    ASSUME NEW d, NEW o, NEW e, NEW x, Denies(d, o, e, x)
    PROVE  DenialEffect(ProcessDenial(d, o, e, x), d, o, e, x)
<1> DEFINE t == ProcessDenial(d, o, e, x)
<1>1. t = [receipts |-> d.receipts \cup {DenialOf(o, e, x)},
           count |-> [d.count EXCEPT ![<<o, x.hash, e>>] = @ + 1],
           stats |-> [d.stats EXCEPT ![<<o, e>>] = OneMoreDenial(d.stats[<<o, e>>])]]
  BY DEF ProcessDenial, DenialOf, OneMoreDenial
<1> HIDE DEF t
<1>2. DenialEffect(t, d, o, e, x)
  BY <1>1 DEF DenialEffect
<1> QED
  BY <1>2 DEF t

\* SubmitDenialBatch keeps its records well typed, entry by entry.
LEMMA DenialType ==
    ASSUME NEW d \in DenialState, NEW o \in Orgs, NEW e \in EpochIds, NEW x \in DenialEntry
    PROVE  ProcessDenial(d, o, e, x) \in DenialState
<1>1. CASE ~Denies(d, o, e, x)
  BY <1>1 DEF ProcessDenial
<1>2. CASE Denies(d, o, e, x)
  <2> DEFINE t == ProcessDenial(d, o, e, x)
  <2>1. DenialEffect(t, d, o, e, x)
    BY <1>2, DenialFields
  <2> HIDE DEF t
  <2>2. x.hash \in Hashes /\ x.key \in ServeKeys /\ x.fingerprint \in Fingerprints
    BY DEF DenialEntry
  <2>3. /\ d.receipts \in DenialSets /\ d.count \in DenialCounts
        /\ d.stats \in [Orgs \X EpochIds -> EpochStats]
    BY DEF DenialState
  <2>4. t.receipts \in DenialSets
    <3>1. DenialOf(o, e, x) \in DenialReceipt
      BY <2>2 DEF DenialOf, DenialReceipt
    <3>2. t.receipts = d.receipts \cup {DenialOf(o, e, x)}
      BY <2>1 DEF DenialEffect
    <3>3. IsFiniteSet(t.receipts)
      BY <2>3, <3>2, FS_AddElement, SMTT(30) DEF DenialSets
    <3> QED
      BY <2>3, <3>1, <3>2, <3>3 DEF DenialSets
  <2>5. t.count \in DenialCounts
    <3>1. t.count = [d.count EXCEPT ![<<o, x.hash, e>>] = @ + 1]
      BY <2>1 DEF DenialEffect
    <3>2. <<o, x.hash, e>> \in DenialKeys
      BY <2>2 DEF DenialKeys
    <3> QED
      BY <2>3, <3>1, <3>2, SMTT(30) DEF DenialCounts
  <2>6. t.stats \in [Orgs \X EpochIds -> EpochStats]
    <3> DEFINE v == OneMoreDenial(d.stats[<<o, e>>])
    <3>1. v \in EpochStats
      BY <2>3, DenialStats
    <3>2. t.stats = [d.stats EXCEPT ![<<o, e>>] = v]
      BY <2>1 DEF DenialEffect
    <3> HIDE DEF v
    <3> QED
      BY <2>3, <3>1, <3>2
  <2>7. t \in DenialState
    BY <2>1, <2>4, <2>5, <2>6 DEF DenialEffect, DenialState
  <2> QED
    BY <2>7 DEF t
<1> QED
  BY <1>1, <1>2

----------------------------------------------------------------------------
(* Whole batches.                                                          *)

\* A submitted batch is a sequence of entries.
LEMMA BatchShape ==
    ASSUME NEW Entry, NEW max \in Nat, NEW b \in Batches(Entry, max)
    PROVE  \E n \in Nat : /\ DOMAIN b = 1 .. n /\ Len(b) = n
                           /\ \A i \in 1 .. n : b[i] \in Entry
<1>1. PICK n \in 1 .. max : b \in [1 .. n -> Entry]
  BY DEF Batches
<1>2. n \in Nat
  BY <1>1, SMTT(30)
<1>3. DOMAIN b = 1 .. n /\ \A i \in 1 .. n : b[i] \in Entry
  BY <1>1
<1>4. b \in Seq(Entry)
  BY <1>1, <1>2, SMTT(30)
<1>5. Len(b) = n
  BY <1>2, <1>3, <1>4, SMTT(30)
<1> QED
  BY <1>2, <1>3, <1>5

Denials == [receipts : DenialSets, count : DenialCounts, stray : [Names \ Orgs -> Nat]]

Now == [kv |-> kv, reputation |-> reputation]

DenialsNow == [receipts |-> deny.receipts, count |-> deny.count, stats |-> kv.stats]

\* What every accepted entry of a serve batch keeps, the batch keeps
\* (ProcessServeBatch).
LEMMA ServeBatchKeeps ==
    ASSUME NEW signer, NEW o \in Orgs, NEW e \in EpochIds,
           NEW b \in Batches(ServeEntry, MaxServes), SubmitServeBatch(signer, o, e, b),
           NEW X, X \subseteq LoopState, Now \in X,
           \A s \in X, x \in ServeEntry :
               Accepts(s.kv, o, e, x) => ProcessEntry(s, o, e, x) \in X
    PROVE  Now' \in X
<1>1. PICK n \in Nat : /\ DOMAIN b = 1 .. n /\ Len(b) = n
                       /\ \A i \in 1 .. n : b[i] \in ServeEntry
  BY BatchShape, ServeConstants
<1>2. ASSUME NEW s \in X, NEW i \in 1 .. n PROVE ProcessEntry(s, o, e, b[i]) \in X
  <2>1. b[i] \in ServeEntry
    BY <1>1
  <2>2. CASE Accepts(s.kv, o, e, b[i])
    BY <2>1, <2>2
  <2>3. CASE ~Accepts(s.kv, o, e, b[i])
    BY <2>3 DEF ProcessEntry
  <2> QED
    BY <2>2, <2>3
<1> DEFINE done == ServeLoop(o, e, Now, b)
<1>3. done \in X
  <2> DEFINE base == Now
  <2> HIDE DEF base
  <2>1. base \in X
    BY DEF base
  <2>2. ServesStay(o, e, n, b, X)
    BY <1>2 DEF ServesStay
  <2>3. PICK r : IsServeRun(r, o, e, n, base, b, X)
    BY <1>1, <2>1, <2>2, ServeRun
  <2>4. n \in 0 .. n
    BY SMTT(30)
  <2>5. ServeLoop(o, e, base, b) \in X
    BY <2>3, <2>4 DEF IsServeRun
  <2> QED
    BY <2>5 DEF base
<1>4. kv' = done.kv /\ reputation' = done.reputation
  BY DEF SubmitServeBatch, ServeLoop, Now
<1> HIDE DEF done
<1>5. done = [kv |-> done.kv, reputation |-> done.reputation]
  BY <1>3 DEF LoopState
<1>6. Now' = done
  BY <1>4, <1>5 DEF Now
<1> QED
  BY <1>3, <1>6

\* What every accepted entry of a denial batch keeps, the batch keeps
\* (SubmitDenialBatch).
LEMMA DenialBatchKeeps ==
    ASSUME NEW signer, NEW o \in Orgs, NEW e \in EpochIds,
           NEW b \in Batches(DenialEntry, MaxDenials), SubmitDenialBatch(signer, o, e, b),
           kv \in Store, deny \in Denials,
           NEW X, X \subseteq DenialState, DenialsNow \in X,
           \A d \in X, x \in DenialEntry :
               Denies(d, o, e, x) => ProcessDenial(d, o, e, x) \in X
    PROVE  /\ DenialsNow' \in X
           /\ deny' = [receipts |-> deny'.receipts, count |-> deny'.count, stray |-> deny.stray]
           /\ kv' = [kv EXCEPT !.stats = kv'.stats]
<1>1. PICK n \in Nat : /\ DOMAIN b = 1 .. n /\ Len(b) = n
                       /\ \A i \in 1 .. n : b[i] \in DenialEntry
  BY BatchShape, ServeConstants
<1>2. ASSUME NEW d \in X, NEW i \in 1 .. n PROVE ProcessDenial(d, o, e, b[i]) \in X
  <2>1. b[i] \in DenialEntry
    BY <1>1
  <2>2. CASE Denies(d, o, e, b[i])
    BY <2>1, <2>2
  <2>3. CASE ~Denies(d, o, e, b[i])
    BY <2>3 DEF ProcessDenial
  <2> QED
    BY <2>2, <2>3
<1> DEFINE done == DenialLoop(o, e, DenialsNow, b)
<1>3. done \in X
  <2> DEFINE base == DenialsNow
  <2> HIDE DEF base
  <2>1. base \in X
    BY DEF base
  <2>2. DenialsStay(o, e, n, b, X)
    BY <1>2 DEF DenialsStay
  <2>3. PICK r : IsDenialRun(r, o, e, n, base, b, X)
    BY <1>1, <2>1, <2>2, DenialRun
  <2>4. n \in 0 .. n
    BY SMTT(30)
  <2>5. DenialLoop(o, e, base, b) \in X
    BY <2>3, <2>4 DEF IsDenialRun
  <2> QED
    BY <2>5 DEF base
<1>4. /\ deny' = [deny EXCEPT !.receipts = done.receipts, !.count = done.count]
      /\ kv' = [kv EXCEPT !.stats = done.stats]
  BY DEF SubmitDenialBatch, DenialLoop, DenialsNow
<1> HIDE DEF done
<1>5. done = [receipts |-> done.receipts, count |-> done.count, stats |-> done.stats]
  BY <1>3 DEF DenialState
<1>6. kv'.stats = done.stats
  BY <1>4 DEF Store
<1>7. /\ deny'.receipts = done.receipts /\ deny'.count = done.count
      /\ deny' = [receipts |-> done.receipts, count |-> done.count, stray |-> deny.stray]
  BY <1>4 DEF Denials
<1>8. DenialsNow' = done
  BY <1>5, <1>6, <1>7 DEF DenialsNow
<1>9. deny' = [receipts |-> deny'.receipts, count |-> deny'.count, stray |-> deny.stray]
  BY <1>7
<1>10. kv' = [kv EXCEPT !.stats = kv'.stats]
  BY <1>4, <1>6
<1> QED
  BY <1>3, <1>8, <1>9, <1>10

----------------------------------------------------------------------------
(* Type correctness.                                                       *)

PolicyOK(p) ==
    /\ DOMAIN p.anchor \subseteq Names
    /\ p.anchor \in [DOMAIN p.anchor -> PolicyAnchor]
    /\ p.latest \in Names \cup {NoVersion}

EventsOK == events = [signed |-> events.signed, blank |-> events.blank] /\ events.blank \subseteq Names

\* a stored receipt names an org, a contributor and a model
SoundReceipts(k) ==
    \A f \in Fingerprints : k.receipt[f] # NoReceipt =>
        /\ k.receipt[f].org \in Orgs /\ k.receipt[f].contributor \in ServeKeys
        /\ k.receipt[f].model \in Models

TypeInv ==
    /\ BandwidthTypeOK
    /\ servingKey \in [Orgs -> Signers \cup {NoKey}]
    /\ ContributorsOK
    /\ params \in ServeParams
    /\ kv \in Store /\ SoundReceipts(kv)
    /\ deny \in Denials
    /\ PolicyOK(policy) /\ EventsOK
    /\ active \in BOOLEAN
    /\ reputation \in [ServeKeys -> ServeTally]

\* The invariant holds the type invariant of the module.
LEMMA TypeInvTypes == TypeInv => TypeOK
  BY DEF TypeInv, TypeOK, ContributorsOK, Store, EpochStats, Denials, DenialSets, DenialCounts,
      PolicyOK, EventsOK

\* The initial state is well typed.
LEMMA TypeStart == ASSUME Init PROVE TypeInv
<1> USE DEF Init
<1>1. BandwidthTypeOK
  BY BandwidthConstants DEF BandwidthInit, BandwidthTypeOK, NoState, NoOverride
<1>2. NoReceipt \in ServeReceipt /\ NoServes \in ServeTally
  BY DEF NoReceipt, ServeReceipt, NoServes, ServeTally
<1>3. kv.receipt = [f \in Fingerprints |-> NoReceipt]
  OBVIOUS
<1>4. kv \in Store
  <2>1. [memories |-> 0, keys |-> 0, total |-> 0, self |-> 0,
         models |-> [m \in Models |-> 0], denials |-> 0] \in EpochStats
    BY DEF EpochStats
  <2> QED
    BY <1>2, <2>1 DEF Store
<1>5. SoundReceipts(kv)
  BY <1>3 DEF SoundReceipts
<1>6. deny \in Denials /\ EventsOK
  BY FS_EmptySet DEF Denials, DenialSets, DenialCounts, EventsOK
<1>9. PolicyOK(policy)
  <2>1. CASE policy = [anchor |-> [n \in {} |-> BlankAnchor], latest |-> NoVersion]
    BY <2>1 DEF PolicyOK
  <2>2. ASSUME NEW v \in SeedVersions, NEW h \in PolicyHashes,
               policy = [anchor |-> [n \in {v} |-> [hash |-> h, epoch |-> 0, height |-> 0]],
                         latest |-> v]
        PROVE  PolicyOK(policy)
    <3>1. v \in Names /\ [hash |-> h, epoch |-> 0, height |-> 0] \in PolicyAnchor
      BY ServeConstants, SMTT(30) DEF Names, PolicyAnchor
    <3> QED
      BY <2>2, <3>1 DEF PolicyOK
  <2> QED
    BY <2>1, <2>2
<1>7. active \in BOOLEAN /\ params \in ServeParams
  BY ServeConstants
<1>8. ContributorsOK /\ reputation \in [ServeKeys -> ServeTally]
  BY <1>2 DEF ContributorsOK
<1> QED
  BY <1>1, <1>4, <1>5, <1>6, <1>7, <1>8, <1>9 DEF TypeInv

\* There are finitely many fingerprints, over finitely many memories and keys.
LEMMA FiniteFingerprints == IsFiniteSet(Fingerprints)
<1>1. IsFiniteSet(ServeKeys \X EpochIds)
  BY ServeConstants, FS_Product
<1>2. IsFiniteSet(Hashes \X (ServeKeys \X EpochIds))
  BY <1>1, ServeConstants, FS_Product
<1> DEFINE flat == [p \in Hashes \X (ServeKeys \X EpochIds) |-> <<p[1], p[2][1], p[2][2]>>]
<1>3. Fingerprints \subseteq {flat[p] : p \in Hashes \X (ServeKeys \X EpochIds)}
  <2>1. ASSUME NEW f \in Fingerprints
        PROVE  \E p \in Hashes \X (ServeKeys \X EpochIds) : f = flat[p]
    <3>1. <<f[1], <<f[2], f[3]>>>> \in Hashes \X (ServeKeys \X EpochIds)
      BY DEF Fingerprints
    <3>2. f = flat[<<f[1], <<f[2], f[3]>>>>]
      BY <3>1, SMTT(30) DEF Fingerprints
    <3> QED
      BY <3>1, <3>2
  <2> QED
    BY <2>1
<1> DEFINE D == Hashes \X (ServeKeys \X EpochIds)
           T == {flat[p] : p \in D}
<1>4. IsFiniteSet(T)
  <2>1. flat \in Surjection(D, T)
    BY DEF Surjection
  <2> HIDE DEF flat, T, D
  <2> QED
    BY <1>2, <2>1, FS_Surjection DEF D
<1> QED
  BY <1>3, <1>4, FS_Subset

\* The elements of a finite set lead to finitely many values.
LEMMA FiniteImage == ASSUME NEW S, IsFiniteSet(S), NEW g PROVE IsFiniteSet({g[x] : x \in S})
<1> DEFINE T == {g[x] : x \in S}
           r == [x \in S |-> g[x]]
<1>1. r \in Surjection(S, T)
  BY DEF Surjection
<1> HIDE DEF r, T
<1>2. IsFiniteSet(T)
  BY <1>1, FS_Surjection
<1> QED
  BY <1>2 DEF T

\* There are finitely many names of orgs and versions.
LEMMA FiniteNames == IsFiniteSet(Names)
<1>1. IsFiniteSet(Orgs \cup Versions)
  BY ServeConstants, FS_Union
<1> QED
  BY <1>1, FS_AddElement DEF Names

\* The list of denials an export writes is finite, and all it holds has the
\* fields of a denial (ExportGenesis).
LEMMA ExportedType ==
    ASSUME TypeInv
    PROVE  /\ IsFiniteSet(ExportedDenials)
           /\ \A x \in ExportedDenials : x[3] \in DenialReceipt \cup StrayDenial
<1> DEFINE A == {<<"denial", d, d>> : d \in deny.receipts}
           B == {<<"receipt", f, AsDenial(f)>> : f \in Echoes}
           C == {<<"anchor", n, Stray(n, policy.anchor[n].hash)>> : n \in Bare}
           D == {<<"event", n, Stray(n, NoHash)>> : n \in events.blank}
           E == {<<"pointer", n, Stray(n, NoHash)>> : n \in PointerBlank}
<1>1. deny.receipts \in SUBSET (DenialReceipt \cup StrayDenial) /\ IsFiniteSet(deny.receipts)
  BY DEF TypeInv, Denials, DenialSets
<1>2. IsFiniteSet(Echoes)
  BY FiniteFingerprints, FS_Subset DEF Echoes
<1>3. Bare \subseteq Names /\ events.blank \subseteq Names /\ PointerBlank \subseteq Names
  BY DEF TypeInv, PolicyOK, EventsOK, Bare, PointerBlank, Names
<1>4. IsFiniteSet(Bare) /\ IsFiniteSet(events.blank) /\ IsFiniteSet(PointerBlank)
  BY <1>3, FiniteNames, FS_Subset
<1>5. IsFiniteSet(A)
  <2> DEFINE g == [d \in deny.receipts |-> <<"denial", d, d>>]
  <2>1. A = {g[d] : d \in deny.receipts}
    OBVIOUS
  <2> HIDE DEF g
  <2> QED
    BY <1>1, <2>1, FiniteImage
<1>6. IsFiniteSet(B)
  <2> DEFINE g == [f \in Echoes |-> <<"receipt", f, AsDenial(f)>>]
  <2>1. B = {g[f] : f \in Echoes}
    OBVIOUS
  <2> HIDE DEF g
  <2> QED
    BY <1>2, <2>1, FiniteImage
<1>7. IsFiniteSet(C)
  <2> DEFINE g == [n \in Bare |-> <<"anchor", n, Stray(n, policy.anchor[n].hash)>>]
  <2>1. C = {g[n] : n \in Bare}
    OBVIOUS
  <2> HIDE DEF g
  <2> QED
    BY <1>4, <2>1, FiniteImage, SMTT(30)
<1>8. IsFiniteSet(D)
  <2> DEFINE g == [n \in events.blank |-> <<"event", n, Stray(n, NoHash)>>]
  <2>1. D = {g[n] : n \in events.blank}
    OBVIOUS
  <2> HIDE DEF g
  <2> QED
    BY <1>4, <2>1, FiniteImage
<1>9. IsFiniteSet(E)
  <2> DEFINE g == [n \in PointerBlank |-> <<"pointer", n, Stray(n, NoHash)>>]
  <2>1. E = {g[n] : n \in PointerBlank}
    OBVIOUS
  <2> HIDE DEF g
  <2> QED
    BY <1>4, <2>1, FiniteImage
<1>10. ASSUME NEW f \in Echoes PROVE AsDenial(f) \in DenialReceipt
  <2>1. f \in Fingerprints /\ kv.receipt[f] # NoReceipt
    BY DEF Echoes, DecodesAsDenial
  <2>2. kv.receipt[f].org \in Orgs /\ kv.receipt[f].model \in Models
    BY <2>1 DEF TypeInv, SoundReceipts
  <2> QED
    BY <2>1, <2>2 DEF AsDenial, DenialReceipt, Fingerprints
<1>11. ASSUME NEW n \in Names, NEW h \in PolicyHashes \cup {NoHash} PROVE Stray(n, h) \in StrayDenial
  BY DEF Stray, StrayDenial
<1>12. ASSUME NEW n \in Bare PROVE policy.anchor[n].hash \in PolicyHashes \cup {NoHash}
  BY DEF TypeInv, PolicyOK, Bare, PolicyAnchor
<1>13. \A x \in A \cup B \cup C \cup D \cup E : x[3] \in DenialReceipt \cup StrayDenial
  BY <1>1, <1>3, <1>10, <1>11, <1>12, SMTT(30)
<1>14. ExportedDenials = A \cup B \cup C \cup D \cup E
  BY DEF ExportedDenials
<1> HIDE DEF A, B, C, D, E
<1>15. IsFiniteSet(A \cup B \cup C \cup D \cup E)
  BY <1>5, <1>6, <1>7, <1>8, <1>9, FS_Union
<1> QED
  BY <1>13, <1>14, <1>15

\* The last of some keys is one of them.
LEMMA LastKeyIn == ASSUME NEW N \in SUBSET Names, N # {} PROVE LastKey(N) \in N
<1> DEFINE K == {KeyOrder[n] : n \in N}
<1>1. IsFiniteSet(K)
  <2>1. IsFiniteSet(N)
    BY FiniteNames, FS_Subset
  <2> QED
    BY <2>1, FiniteImage
<1>2. K # {} /\ K \subseteq Int
  BY ServeConstants, SMTT(30)
<1>3. Max(K) \in K /\ \A k \in K : k <= Max(K)
  <2> HIDE DEF K
  <2> QED
    BY <1>1, <1>2, Extremes
<1>4. \E n \in N : \A m \in N : KeyOrder[m] <= KeyOrder[n]
  BY <1>3
<1> QED
  BY <1>4 DEF LastKey

\* The anchors of an import are stored under names, and the latest, if any, is
\* one of them (InitGenesis).
LEMMA ImportedPolicyOK ==
    ASSUME TypeInv
    PROVE  /\ PolicyOK(ImportedPolicy)
           /\ DOMAIN policy.anchor \subseteq DOMAIN ImportedPolicy.anchor
           /\ DOMAIN ImportedPolicy.anchor # {} =>
                  ImportedPolicy.latest \in DOMAIN ImportedPolicy.anchor
           /\ DOMAIN ImportedPolicy.anchor = {} => ImportedPolicy.latest = NoVersion
           /\ \A v \in Versions \cap DOMAIN policy.anchor :
                  ImportedPolicy.anchor[v] = IF deny.stray[v] > 0 THEN BlankAnchor ELSE policy.anchor[v]
           /\ \A n \in DOMAIN ImportedPolicy.anchor :
                  \/ ImportedPolicy.anchor[n].hash = NoHash
                  \/ n \in DOMAIN policy.anchor /\ ImportedPolicy.anchor[n] = policy.anchor[n]
<1> DEFINE counted == DOMAIN StatsAnchors
           all == DOMAIN policy.anchor \cup PointerBlank \cup counted
           a == [n \in all |-> IF n \in counted THEN StatsAnchors[n]
                               ELSE IF n \in PointerBlank THEN BlankAnchor
                               ELSE policy.anchor[n]]
           l == IF counted # {} THEN LastKey(counted)
                ELSE IF PointerBlank # {} THEN NoOrg
                ELSE IF all # {} THEN LastKey(all)
                ELSE NoVersion
<1>1. ImportedPolicy = [anchor |-> a, latest |-> l]
  BY DEF ImportedPolicy
<1>2. ImportedPolicy.anchor = a /\ ImportedPolicy.latest = l /\ DOMAIN a = all
  BY <1>1
<1>3. /\ DOMAIN policy.anchor \subseteq Names
      /\ policy.anchor \in [DOMAIN policy.anchor -> PolicyAnchor]
  BY DEF TypeInv, PolicyOK
<1>4. PointerBlank \subseteq {NoOrg} /\ NoOrg \in Names
  BY DEF PointerBlank, Names
<1>5. /\ counted \subseteq Names
      /\ \A n \in counted : StatsAnchors[n] \in PolicyAnchor /\ StatsAnchors[n].hash = NoHash
      /\ \A v \in Versions :
            /\ v \in counted <=> deny.stray[v] > 0
            /\ v \in counted => StatsAnchors[v] = BlankAnchor
  <2> DEFINE S == {o \in Orgs : /\ 0 \in EpochIds
                                /\ kv.stats[<<o, 0>>].total + kv.stats[<<o, 0>>].denials > 0}
             T == {m \in Names \ Orgs : deny.stray[m] > 0}
  <2>1. counted = S \cup T
    BY DEF StatsAnchors
  <2>2. \A n \in S \cup T : StatsAnchors[n] =
            IF n \in Orgs
            THEN [hash |-> NoHash, epoch |-> kv.stats[<<n, 0>>].total,
                  height |-> kv.stats[<<n, 0>>].memories]
            ELSE BlankAnchor
    BY DEF StatsAnchors
  <2>3. BlankAnchor \in PolicyAnchor /\ BlankAnchor.hash = NoHash
    BY DEF BlankAnchor, PolicyAnchor
  <2>4. ASSUME NEW n \in S
        PROVE  /\ n \in Orgs /\ kv.stats[<<n, 0>>].total \in Nat
               /\ kv.stats[<<n, 0>>].memories \in Nat
    <3>1. kv.stats[<<n, 0>>] \in EpochStats
      BY DEF TypeInv, Store
    <3> QED
      BY <3>1 DEF EpochStats
  <2>5. \A n \in S \cup T : StatsAnchors[n] \in PolicyAnchor /\ StatsAnchors[n].hash = NoHash
    <3>1. ASSUME NEW n \in S PROVE StatsAnchors[n] \in PolicyAnchor /\ StatsAnchors[n].hash = NoHash
      <4>1. StatsAnchors[n] = [hash |-> NoHash, epoch |-> kv.stats[<<n, 0>>].total,
                               height |-> kv.stats[<<n, 0>>].memories]
        BY <2>2, <2>4
      <4> QED
        BY <2>4, <4>1, SMTT(30) DEF PolicyAnchor
    <3>2. ASSUME NEW n \in T PROVE StatsAnchors[n] \in PolicyAnchor /\ StatsAnchors[n].hash = NoHash
      BY <2>2, <2>3
    <3> QED
      BY <3>1, <3>2
  <2>6. S \cup T \subseteq Names
    BY DEF Names
  <2>7. \A v \in Versions : v \in Names \ Orgs
    BY ServeConstants DEF Names
  <2> HIDE DEF counted
  <2> QED
    BY <2>1, <2>2, <2>5, <2>6, <2>7
<1>6. BlankAnchor \in PolicyAnchor
  BY DEF BlankAnchor, PolicyAnchor
<1> HIDE DEF counted
<1>7. all \subseteq Names /\ a \in [all -> PolicyAnchor]
  BY <1>3, <1>4, <1>5, <1>6
<1>8. (all # {} => l \in all) /\ (all = {} => l = NoVersion)
  <2>1. CASE counted # {}
    <3>1. LastKey(counted) \in counted
      BY <1>5, <2>1, LastKeyIn
    <3> QED
      BY <2>1, <3>1
  <2>2. CASE counted = {} /\ PointerBlank # {}
    BY <1>4, <2>2
  <2>3. CASE counted = {} /\ PointerBlank = {} /\ all # {}
    <3> HIDE DEF all
    <3>1. LastKey(all) \in all
      BY <1>7, <2>3, LastKeyIn
    <3> QED
      BY <2>3, <3>1
  <2>4. CASE all = {}
    BY <2>4
  <2> QED
    BY <2>1, <2>2, <2>3, <2>4
<1>9. ASSUME NEW v \in Versions \cap DOMAIN policy.anchor
      PROVE  a[v] = IF deny.stray[v] > 0 THEN BlankAnchor ELSE policy.anchor[v]
  <2>1. v \in all /\ v \notin PointerBlank
    BY <1>4, ServeConstants
  <2>2. a[v] = IF v \in counted THEN StatsAnchors[v] ELSE policy.anchor[v]
    BY <2>1
  <2> HIDE DEF a, all
  <2>3. /\ v \in counted <=> deny.stray[v] > 0
        /\ v \in counted => StatsAnchors[v] = BlankAnchor
    BY <1>5
  <2> QED
    BY <2>2, <2>3
<1>10. DOMAIN policy.anchor \subseteq all
  OBVIOUS
<1>11. ASSUME NEW n \in all
       PROVE  a[n].hash = NoHash \/ (n \in DOMAIN policy.anchor /\ a[n] = policy.anchor[n])
  <2>1. BlankAnchor.hash = NoHash
    BY DEF BlankAnchor
  <2>2. a[n] = IF n \in counted THEN StatsAnchors[n]
               ELSE IF n \in PointerBlank THEN BlankAnchor
               ELSE policy.anchor[n]
    OBVIOUS
  <2>3. n \in DOMAIN policy.anchor \cup PointerBlank \cup counted
    OBVIOUS
  <2> HIDE DEF a, all
  <2>4. CASE n \in counted
    BY <1>5, <2>2, <2>4
  <2>5. CASE n \notin counted /\ n \in PointerBlank
    BY <2>1, <2>2, <2>5
  <2> QED
    BY <2>2, <2>3, <2>4, <2>5
<1> HIDE DEF a, l, all
<1> QED
  BY <1>2, <1>7, <1>8, <1>9, <1>10, <1>11 DEF PolicyOK

\* An export of the running chain imports as a well typed state
\* (InitGenesis of x/serve, with what the other modules keep).
LEMMA RoundTripType == ASSUME TypeInv, GenesisRoundTrip PROVE TypeInv'
<1>1. BandwidthTypeOK'
  BY BandwidthConstants DEF GenesisRoundTrip, BandwidthRestart, BandwidthTypeOK, NoState, NoOverride
<1>2. ContributorsOK' /\ params' \in ServeParams
  BY ServeConstants DEF GenesisRoundTrip, ContributorsOK
<1>3. kv' \in Store /\ kv'.receipt = kv.receipt
  <2> DEFINE zero == [m \in DOMAIN kv.memCount |-> 0]
             y1 == [kv EXCEPT !.memCount = zero]
             y2 == [y1 EXCEPT !.memFirst = {}]
             y3 == [y2 EXCEPT !.keyFirst = {}]
  <2>1. kv \in Store /\ zero \in [Orgs \X Hashes \X EpochIds -> Nat]
    BY DEF TypeInv, Store
  <2>2. kv' = y3
    BY <2>1 DEF GenesisRoundTrip, ImportedStats, Store
  <2> HIDE DEF zero
  <2>3. y1 \in Store /\ y1.receipt = kv.receipt
    BY <2>1 DEF Store
  <2> HIDE DEF y1
  <2>4. y2 \in Store /\ y2.receipt = y1.receipt
    BY <2>3 DEF Store
  <2> HIDE DEF y2
  <2>5. y3 \in Store /\ y3.receipt = y2.receipt
    BY <2>4 DEF Store
  <2> QED
    BY <2>2, <2>3, <2>4, <2>5
<1>4. SoundReceipts(kv')
  BY <1>3 DEF TypeInv, SoundReceipts
<1>5. deny' \in Denials
  <2> DEFINE X == ExportedDenials
             all == {x[3] : x \in X}
             count == [m \in DenialKeys |->
                          Cardinality({x \in X : <<x[3][1], x[3][2], x[3][3]>> = m})]
             stray == [n \in Names \ Orgs |->
                          IF deny.stray[n] # 0 THEN deny.stray[n]
                          ELSE Cardinality({x \in X : x[3][1] = n})]
  <2>1. deny' = [receipts |-> all, count |-> count, stray |-> stray]
    BY DEF GenesisRoundTrip, ImportedDenials
  <2>2. IsFiniteSet(X) /\ \A x \in X : x[3] \in DenialReceipt \cup StrayDenial
    BY ExportedType
  <2> HIDE DEF X
  <2>3. all \in DenialSets
    <3> DEFINE g == [x \in X |-> x[3]]
    <3>1. all = {g[x] : x \in X}
      OBVIOUS
    <3>2. IsFiniteSet(all)
      <4> HIDE DEF g, all
      <4> QED
        BY <2>2, <3>1, FiniteImage
    <3> QED
      BY <2>2, <3>2 DEF DenialSets
  <2>4. count \in DenialCounts
    <3>1. ASSUME NEW m PROVE Cardinality({x \in X : <<x[3][1], x[3][2], x[3][3]>> = m}) \in Nat
      <4>1. IsFiniteSet({x \in X : <<x[3][1], x[3][2], x[3][3]>> = m})
        BY <2>2, FS_Subset
      <4> QED
        BY <4>1, FS_CardinalityType
    <3> QED
      BY <3>1 DEF DenialCounts
  <2>5. stray \in [Names \ Orgs -> Nat]
    <3>1. ASSUME NEW n PROVE Cardinality({x \in X : x[3][1] = n}) \in Nat
      <4>1. IsFiniteSet({x \in X : x[3][1] = n})
        BY <2>2, FS_Subset
      <4> QED
        BY <4>1, FS_CardinalityType
    <3>2. deny.stray \in [Names \ Orgs -> Nat]
      BY DEF TypeInv, Denials
    <3> QED
      BY <3>1, <3>2
  <2> HIDE DEF all, count, stray
  <2> QED
    BY <2>1, <2>3, <2>4, <2>5 DEF Denials
<1>6. PolicyOK(policy') /\ EventsOK'
  <2>1. PolicyOK(policy')
    BY ImportedPolicyOK DEF GenesisRoundTrip
  <2>2. /\ events' = [events EXCEPT !.blank = ImportedBlankEvents]
        /\ events = [signed |-> events.signed, blank |-> events.blank]
    BY DEF GenesisRoundTrip, TypeInv, EventsOK
  <2>3. /\ events'.blank = ImportedBlankEvents
        /\ events' = [signed |-> events.signed, blank |-> ImportedBlankEvents]
    BY <2>2
  <2>4. ImportedBlankEvents \subseteq Names
    BY DEF ImportedBlankEvents, TypeInv, EventsOK, PolicyOK, Bare, PointerBlank, Names
  <2> QED
    BY <2>1, <2>3, <2>4 DEF EventsOK
<1>7. servingKey' = servingKey /\ active' = active /\ reputation' = reputation
  BY DEF GenesisRoundTrip
<1> QED
  BY <1>1, <1>2, <1>3, <1>4, <1>5, <1>6, <1>7 DEF TypeInv, SoundReceipts

\* The loop of a serve batch keeps the receipts sound.
LEMMA ServeBatchType ==
    ASSUME TypeInv, NEW signer, NEW o \in Orgs, NEW e \in EpochIds,
           NEW b \in Batches(ServeEntry, MaxServes), SubmitServeBatch(signer, o, e, b)
    PROVE  TypeInv'
<1> DEFINE X == {s \in LoopState : SoundReceipts(s.kv)}
<1>1. X \subseteq LoopState /\ Now \in X
  BY DEF Now, LoopState, TypeInv
<1>2. ASSUME NEW s \in X, NEW x \in ServeEntry, Accepts(s.kv, o, e, x)
      PROVE  ProcessEntry(s, o, e, x) \in X
  <2> DEFINE t == ProcessEntry(s, o, e, x)
  <2>1. t \in LoopState
    BY EntryType DEF TypeInv
  <2>2. EntryEffect(t, s, o, e, x)
    BY <1>2, EntryFields
  <2>3. s.kv.receipt \in [Fingerprints -> ServeReceipt]
    BY DEF LoopState, Store
  <2> HIDE DEF t
  <2>4. SoundReceipts(t.kv)
    <3>1. t.kv.receipt = [s.kv.receipt EXCEPT ![<<x.hash, x.key, e>>] = ReceiptOf(o, x)]
      BY <2>2 DEF EntryEffect
    <3> QED
      BY <2>3, <3>1, SMTT(30) DEF SoundReceipts, ReceiptOf, ServeEntry
  <2> QED
    BY <2>1, <2>4 DEF t
<1> HIDE DEF X
<1>3. Now' \in X
  BY <1>1, <1>2, ServeBatchKeeps
<1>4. kv' \in Store /\ SoundReceipts(kv)' /\ reputation' \in [ServeKeys -> ServeTally]
  BY <1>3 DEF X, Now, LoopState, SoundReceipts
<1>5. BandwidthTypeOK'
  <2> DEFINE st == GetOrInitBandwidthState(o, e)
  <2>1. PICK n \in Nat : Len(b) = n
    BY BatchShape, ServeConstants, SMTT(30)
  <2>2. st \in [stored : BOOLEAN, used : Nat, cap : {0} \cup ServeCaps]
    BY DEF TypeInv, BandwidthTypeOK, GetOrInitBandwidthState
  <2>3. /\ bandwidth' = [bandwidth EXCEPT ![<<o, e>>] = [st EXCEPT !.used = @ + n]]
        /\ override' = override /\ capParam' = capParam
    BY <2>1 DEF SubmitServeBatch, ConsumeServeBandwidth
  <2> HIDE DEF st
  <2>4. [st EXCEPT !.used = @ + n] \in [stored : BOOLEAN, used : Nat, cap : {0} \cup ServeCaps]
    BY <2>2, SMTT(30)
  <2> QED
    BY <2>3, <2>4 DEF TypeInv, BandwidthTypeOK
<1>6. UNCHANGED <<environment, params, deny, events, policy>>
  BY DEF SubmitServeBatch
<1> QED
  BY <1>4, <1>5, <1>6 DEF TypeInv, environment, ContributorsOK, EventsOK

\* So does the loop of a denial batch.
LEMMA DenialBatchType ==
    ASSUME TypeInv, NEW signer, NEW o \in Orgs, NEW e \in EpochIds,
           NEW b \in Batches(DenialEntry, MaxDenials), SubmitDenialBatch(signer, o, e, b)
    PROVE  TypeInv'
<1>1. DenialsNow \in DenialState /\ kv \in Store /\ deny \in Denials
  BY DEF DenialsNow, DenialState, TypeInv, Denials, Store
<1>2. \A d \in DenialState, x \in DenialEntry : ProcessDenial(d, o, e, x) \in DenialState
  BY DenialType
<1>3. /\ DenialsNow' \in DenialState
      /\ deny' = [receipts |-> deny'.receipts, count |-> deny'.count, stray |-> deny.stray]
      /\ kv' = [kv EXCEPT !.stats = kv'.stats]
  BY <1>1, <1>2, DenialBatchKeeps
<1>4. /\ deny'.receipts \in DenialSets /\ deny'.count \in DenialCounts
      /\ kv'.stats \in [Orgs \X EpochIds -> EpochStats]
  BY <1>3 DEF DenialsNow, DenialState
<1>5. deny' \in Denials
  BY <1>1, <1>3, <1>4, SMTT(30) DEF Denials
<1>6. kv' \in Store /\ kv'.receipt = kv.receipt
  BY <1>1, <1>3, <1>4 DEF Store
<1>7. UNCHANGED <<bandwidthVars, environment, params, events, policy, reputation>>
  BY DEF SubmitDenialBatch
<1> QED
  BY <1>5, <1>6, <1>7 DEF TypeInv, environment, bandwidthVars, ContributorsOK, SoundReceipts,
      BandwidthTypeOK, EventsOK

\* A batch of denials leaves the serve half of the store alone
\* (SubmitDenialBatch writes denials and their counters).
LEMMA DenialBatchServes ==
    ASSUME TypeInv, NEW signer, NEW o \in Orgs, NEW e \in EpochIds,
           NEW b \in Batches(DenialEntry, MaxDenials), SubmitDenialBatch(signer, o, e, b)
    PROVE  /\ kv'.receipt = kv.receipt /\ kv'.memCount = kv.memCount
           /\ kv'.memFirst = kv.memFirst /\ kv'.keyFirst = kv.keyFirst
           /\ kv'.contributor = kv.contributor
<1>1. DenialsNow \in DenialState /\ kv \in Store /\ deny \in Denials
  BY DEF DenialsNow, DenialState, TypeInv, Denials, Store
<1>2. \A d \in DenialState, x \in DenialEntry : ProcessDenial(d, o, e, x) \in DenialState
  BY DenialType
<1>3. kv' = [kv EXCEPT !.stats = kv'.stats]
  BY <1>1, <1>2, DenialBatchKeeps
<1> QED
  BY <1>1, <1>3 DEF Store

\* Every step keeps the records of x/serve, x/bandwidth and x/reputation well
\* typed, an export with its import included.
LEMMA TypeStep == ASSUME TypeInv, [Next \/ GenesisRoundTrip]_vars PROVE TypeInv'
<1> USE DEF environment, bandwidthVars, EventsOK
<1>1. CASE BandwidthStep
  <2>1. UNCHANGED <<environment, params, kv, deny, events, policy, reputation>>
    BY <1>1 DEF BandwidthStep
  <2>2. BandwidthTypeOK
    BY DEF TypeInv
  <2>3. ASSUME NEW signer, NEW o \in Orgs, NEW cap \in ServeCaps,
               SetBandwidthOverride(signer, o, cap)
        PROVE  BandwidthTypeOK'
    BY <2>2, <2>3 DEF SetBandwidthOverride, BandwidthTypeOK
  <2>4. ASSUME NEW cap \in ServeCaps, UpdateBandwidthParams(cap) PROVE BandwidthTypeOK'
    BY <2>2, <2>4 DEF UpdateBandwidthParams, BandwidthTypeOK
  <2>5. BandwidthTypeOK'
    BY <1>1, <2>3, <2>4 DEF BandwidthStep, BandwidthNext
  <2> QED
    BY <2>1, <2>5 DEF TypeInv, ContributorsOK, SoundReceipts
<1>2. ASSUME NEW p \in ServeParams, UpdateParams(p) PROVE TypeInv'
  BY <1>2 DEF UpdateParams, TypeInv, ContributorsOK, SoundReceipts, BandwidthTypeOK
<1>3. ASSUME NEW o \in Orgs, NEW signer \in Signers, RotateServingKey(o, signer) PROVE TypeInv'
  BY <1>3 DEF RotateServingKey, TypeInv, ContributorsOK, SoundReceipts, BandwidthTypeOK
<1>4. ASSUME NEW o \in Orgs, NEW h \in Hashes, NEW k \in ServeKeys, MemoryApproved(o, h, k)
      PROVE  TypeInv'
  <2>1. ContributorsOK'
    BY <1>4 DEF MemoryApproved, TypeInv, ContributorsOK
  <2> QED
    BY <1>4, <2>1 DEF MemoryApproved, TypeInv, SoundReceipts, BandwidthTypeOK
<1>5. ASSUME NEW v \in Versions, NEW h \in PolicyHashes, AnchorPolicyVersion(v, h) PROVE TypeInv'
  <2>1. PolicyOK(policy')
    <3> DEFINE r == [hash |-> h, epoch |-> 0, height |-> 1]
    <3>1. /\ policy'.latest = v
          /\ policy'.anchor = [n \in DOMAIN policy.anchor \cup {v} |->
                                  IF n = v THEN r ELSE policy.anchor[n]]
      BY <1>5 DEF AnchorPolicyVersion, SetPolicyAnchor
    <3>2. r \in PolicyAnchor /\ v \in Names
      BY DEF PolicyAnchor, Names
    <3>3. PolicyOK(policy)
      BY DEF TypeInv
    <3> HIDE DEF r
    <3> QED
      BY <3>1, <3>2, <3>3 DEF PolicyOK
  <2> QED
    BY <1>5, <2>1 DEF AnchorPolicyVersion, TypeInv, ContributorsOK, SoundReceipts, BandwidthTypeOK
<1>6. ASSUME NEW signer, NEW o, NEW e, NEW b, SubmitEventBatch(signer, o, e, b) PROVE TypeInv'
  <2>1. /\ UNCHANGED <<bandwidthVars, environment, params, kv, deny, policy, reputation>>
        /\ \E S : events' = [events EXCEPT !.signed = S]
    BY <1>6 DEF SubmitEventBatch
  <2>2. EventsOK'
    BY <2>1 DEF TypeInv
  <2> HIDE DEF EventsOK
  <2> QED
    BY <2>1, <2>2 DEF TypeInv, ContributorsOK, SoundReceipts, BandwidthTypeOK
<1>7. CASE UNCHANGED vars
  BY <1>7 DEF vars, TypeInv, ContributorsOK, SoundReceipts, BandwidthTypeOK
<1> QED
  BY <1>1, <1>2, <1>3, <1>4, <1>5, <1>6, <1>7, ServeBatchType, DenialBatchType, RoundTripType DEF Next

\* The stores of x/serve, x/bandwidth and x/reputation keep their types under
\* every transaction, and across exports and imports.
THEOREM Typed == RestartSpec => []TypeOK
<1>1. Init => TypeInv
  BY TypeStart
<1>2. TypeInv /\ [Next \/ GenesisRoundTrip]_vars => TypeInv'
  BY TypeStep
<1> QED
  BY <1>1, <1>2, TypeInvTypes, PTL DEF RestartSpec

----------------------------------------------------------------------------
(* What a step may never do.                                               *)

\* Blocks alone, without export and import, keep every store well typed.
LEMMA SpecTypes == Spec => []TypeInv
<1>1. TypeInv /\ [Next]_vars => TypeInv'
  BY TypeStep
<1> QED
  BY <1>1, TypeStart, PTL DEF Spec

\* So do blocks among which the state is exported and imported again
\* (ExportGenesis, InitGenesis).
LEMMA RestartTypes == RestartSpec => []TypeInv
<1>1. TypeInv /\ [Next \/ GenesisRoundTrip]_vars => TypeInv'
  BY TypeStep
<1> QED
  BY <1>1, TypeStart, PTL DEF RestartSpec

\* The cap of an (org, epoch) never moves once its first batch has created the
\* state, whatever overrides and parameters follow (GetOrInitBandwidthState),
\* and what was consumed is never given back.
THEOREM CapFixed == Spec => CapFixedAtFirstUse
<1> DEFINE Keeps == \A s \in DOMAIN bandwidth :
                        bandwidth[s].stored => /\ bandwidth'[s].cap = bandwidth[s].cap
                                               /\ bandwidth'[s].used >= bandwidth[s].used
<1>1. ASSUME TypeInv, [Next]_vars PROVE [Keeps]_vars
  <2>1. bandwidth \in [Orgs \X EpochIds -> [stored : BOOLEAN, used : Nat, cap : {0} \cup ServeCaps]]
    BY <1>1 DEF TypeInv, BandwidthTypeOK
  <2>2. CASE bandwidth' = bandwidth
    BY <2>1, <2>2, SMTT(30)
  <2>3. ASSUME NEW signer, NEW o \in Orgs, NEW e \in EpochIds,
               NEW b \in Batches(ServeEntry, MaxServes), SubmitServeBatch(signer, o, e, b)
        PROVE  Keeps
    <3> DEFINE st == GetOrInitBandwidthState(o, e)
               new == [st EXCEPT !.used = @ + Len(b)]
    <3>1. Len(b) \in Nat
      BY BatchShape, ServeConstants, SMTT(30)
    <3>2. bandwidth' = [bandwidth EXCEPT ![<<o, e>>] = new]
      BY <2>3 DEF SubmitServeBatch, ConsumeServeBandwidth
    <3>3. bandwidth[<<o, e>>].stored =>
              /\ new.cap = bandwidth[<<o, e>>].cap
              /\ new.used = bandwidth[<<o, e>>].used + Len(b)
      BY <2>1 DEF GetOrInitBandwidthState
    <3> HIDE DEF new
    <3>4. ASSUME NEW s \in DOMAIN bandwidth, bandwidth[s].stored
          PROVE  /\ bandwidth'[s].cap = bandwidth[s].cap
                 /\ bandwidth'[s].used >= bandwidth[s].used
      <4>1. s \in Orgs \X EpochIds /\ bandwidth[s].used \in Nat
        BY <2>1
      <4>2. CASE s = <<o, e>>
        <5>1. bandwidth'[s] = new
          BY <2>1, <3>2, <4>1, <4>2
        <5> QED
          BY <3>1, <3>3, <3>4, <4>1, <4>2, <5>1, SMTT(30)
      <4>3. CASE s # <<o, e>>
        <5>1. bandwidth'[s] = bandwidth[s]
          BY <2>1, <3>2, <4>1, <4>3
        <5> QED
          BY <4>1, <5>1, SMTT(30)
      <4> QED
        BY <4>2, <4>3
    <3> QED
      BY <3>4
  <2>4. ASSUME NEW signer, NEW o, NEW cap, SetBandwidthOverride(signer, o, cap)
        PROVE  bandwidth' = bandwidth
    BY <2>4 DEF SetBandwidthOverride
  <2>5. ASSUME NEW cap, UpdateBandwidthParams(cap) PROVE bandwidth' = bandwidth
    BY <2>5 DEF UpdateBandwidthParams
  <2>6. BandwidthStep => bandwidth' = bandwidth
    BY <2>4, <2>5 DEF BandwidthStep, BandwidthNext
  <2>7. CASE Next
    BY <2>2, <2>3, <2>6, <2>7 DEF Next, UpdateParams, RotateServingKey, MemoryApproved,
        AnchorPolicyVersion, SubmitDenialBatch, SubmitEventBatch, bandwidthVars
  <2> QED
    BY <1>1, <2>7
<1> QED
  BY <1>1, SpecTypes, PTL DEF Spec, CapFixedAtFirstUse

\* the latest anchor is a stored one
LatestAnchored == policy.latest # NoVersion => policy.latest \in DOMAIN policy.anchor

\* what an import took for an org is a version anchored at height 0
Taken(v) == deny.stray[v] # 0 \/ v \in events.blank \/ \E d \in deny.receipts : d[1] = v

TakenAreSeeded ==
    \A v \in Versions : Taken(v) => v \in DOMAIN policy.anchor /\ policy.anchor[v].height = 0

\* only versions have policies: anchors of other names were read from something else
OrgAnchorsBlank == \A n \in DOMAIN policy.anchor \ Versions : policy.anchor[n].hash = NoHash

AnchorInv == LatestAnchored /\ TakenAreSeeded /\ OrgAnchorsBlank

\* a step keeps the anchors as AnchorsFinal says
AnchorsStand ==
    /\ \A v \in Versions \cap DOMAIN policy.anchor :
          /\ v \in DOMAIN policy'.anchor
          /\ \/ policy'.anchor[v] = policy.anchor[v]
             \/ policy.anchor[v].height = 0 /\ policy'.anchor[v].hash = NoHash
    /\ policy.latest # NoVersion => policy'.latest # NoVersion
    /\ policy'.latest # NoVersion => policy'.latest \in DOMAIN policy'.anchor

\* The denials of a message name an org (SubmitDenialBatch).
LEMMA DenialsOfOrgs ==
    ASSUME TypeInv, NEW signer, NEW o \in Orgs, NEW e \in EpochIds,
           NEW b \in Batches(DenialEntry, MaxDenials), SubmitDenialBatch(signer, o, e, b)
    PROVE  /\ \A d \in deny'.receipts : d \in deny.receipts \/ d[1] \in Orgs
           /\ deny'.stray = deny.stray
<1> DEFINE X == {s \in DenialState : \A d \in s.receipts : d \in deny.receipts \/ d[1] \in Orgs}
<1>1. DenialsNow \in DenialState /\ kv \in Store /\ deny \in Denials
  BY DEF DenialsNow, DenialState, TypeInv, Denials, Store
<1>2. X \subseteq DenialState /\ DenialsNow \in X
  BY <1>1 DEF DenialsNow
<1>3. ASSUME NEW s \in X, NEW x \in DenialEntry, Denies(s, o, e, x)
      PROVE  ProcessDenial(s, o, e, x) \in X
  <2> DEFINE t == ProcessDenial(s, o, e, x)
  <2>1. t \in DenialState
    BY DenialType
  <2>5. DenialEffect(t, s, o, e, x)
    BY <1>3, DenialFields
  <2>2. t.receipts = s.receipts \cup {DenialOf(o, e, x)}
    <3> HIDE DEF t
    <3> QED
      BY <2>5 DEF DenialEffect
  <2>3. DenialOf(o, e, x)[1] = o
    BY DEF DenialOf
  <2> HIDE DEF t
  <2>4. t \in X
    BY <2>1, <2>2, <2>3
  <2> QED
    BY <2>4 DEF t
<1> HIDE DEF X
<1>4. /\ DenialsNow' \in X
      /\ deny' = [receipts |-> deny'.receipts, count |-> deny'.count, stray |-> deny.stray]
  BY <1>1, <1>2, <1>3, DenialBatchKeeps
<1>5. DenialsNow'.receipts = deny'.receipts
  BY DEF DenialsNow
<1>6. deny'.stray = deny.stray
  BY <1>4, SMTT(30)
<1> QED
  BY <1>4, <1>5, <1>6 DEF X

\* What an export lists under the name of a version, it found under that name
\* (ExportGenesis).
LEMMA ExportedVersions ==
    ASSUME TypeInv, TakenAreSeeded, NEW v \in Versions, NEW x \in ExportedDenials, x[3][1] = v
    PROVE  v \in DOMAIN policy.anchor /\ policy.anchor[v].height = 0
<1>1. v \notin Orgs /\ v # NoOrg
  BY ServeConstants
<1>2. ASSUME NEW d \in deny.receipts, x = <<"denial", d, d>> PROVE Taken(v)
  BY <1>2 DEF Taken
<1>3. ASSUME NEW f \in Echoes, x = <<"receipt", f, AsDenial(f)>> PROVE FALSE
  <2>1. f \in Fingerprints /\ kv.receipt[f] # NoReceipt
    BY DEF Echoes, DecodesAsDenial
  <2>2. kv.receipt[f].org \in Orgs
    BY <2>1 DEF TypeInv, SoundReceipts
  <2> QED
    BY <1>1, <1>3, <2>2 DEF AsDenial
<1>4. ASSUME NEW n \in Bare, x = <<"anchor", n, Stray(n, policy.anchor[n].hash)>>
      PROVE  v \in DOMAIN policy.anchor /\ policy.anchor[v].height = 0
  <2>1. n = v
    BY <1>4 DEF Stray
  <2> QED
    BY <2>1 DEF Bare
<1>5. ASSUME NEW n \in events.blank, x = <<"event", n, Stray(n, NoHash)>> PROVE Taken(v)
  BY <1>5 DEF Taken, Stray
<1>6. ASSUME NEW n \in PointerBlank, x = <<"pointer", n, Stray(n, NoHash)>> PROVE FALSE
  <2>1. n = v /\ n = NoOrg
    BY <1>6 DEF Stray, PointerBlank
  <2> QED
    BY <1>1, <2>1
<1> QED
  BY <1>2, <1>3, <1>4, <1>5, <1>6 DEF ExportedDenials, TakenAreSeeded

\* An import may take a seeded anchor's version for an org, and only such a one
\* loses its hash (InitGenesis).
LEMMA RoundTripAnchors ==
    ASSUME TypeInv, AnchorInv, GenesisRoundTrip
    PROVE  AnchorsStand /\ AnchorInv'
<1>1. policy' = ImportedPolicy /\ deny' = ImportedDenials
  BY DEF GenesisRoundTrip
<1>2. /\ DOMAIN policy.anchor \subseteq DOMAIN policy'.anchor
      /\ DOMAIN policy'.anchor # {} => policy'.latest \in DOMAIN policy'.anchor
      /\ DOMAIN policy'.anchor = {} => policy'.latest = NoVersion
      /\ \A v \in Versions \cap DOMAIN policy.anchor :
            policy'.anchor[v] = IF deny.stray[v] > 0 THEN BlankAnchor ELSE policy.anchor[v]
      /\ policy'.latest \in Names \cup {NoVersion} /\ DOMAIN policy'.anchor \subseteq Names
  BY <1>1, ImportedPolicyOK DEF PolicyOK
<1>3. BlankAnchor.hash = NoHash /\ BlankAnchor.height = 0
  BY DEF BlankAnchor
<1>4. \A v \in Versions : deny.stray[v] > 0 <=> deny.stray[v] # 0
  <2>1. deny.stray \in [Names \ Orgs -> Nat]
    BY DEF TypeInv, Denials
  <2>2. \A v \in Versions : v \in Names \ Orgs
    BY ServeConstants DEF Names
  <2> QED
    BY <2>1, <2>2, SMTT(30)
<1>5. NoVersion \notin Names
  BY ServeConstants
<1>6. AnchorsStand
  BY <1>2, <1>3, <1>4, <1>5 DEF AnchorsStand, AnchorInv, LatestAnchored, TakenAreSeeded, Taken
<1>7. LatestAnchored' /\ OrgAnchorsBlank'
  <2>1. LatestAnchored'
    BY <1>2 DEF LatestAnchored
  <2>2. \A n \in DOMAIN policy'.anchor :
            \/ policy'.anchor[n].hash = NoHash
            \/ n \in DOMAIN policy.anchor /\ policy'.anchor[n] = policy.anchor[n]
    BY <1>1, ImportedPolicyOK
  <2> QED
    BY <2>1, <2>2 DEF AnchorInv, OrgAnchorsBlank
<1>8. ASSUME NEW v \in Versions, Taken(v)'
      PROVE  v \in DOMAIN policy.anchor /\ policy.anchor[v].height = 0
  <2>1. CASE \E d \in deny'.receipts : d[1] = v
    <3>1. PICK x \in ExportedDenials : x[3][1] = v
      BY <1>1, <2>1 DEF ImportedDenials
    <3> QED
      BY <3>1, ExportedVersions DEF AnchorInv
  <2>2. CASE deny'.stray[v] # 0
    <3>1. v \in Names \ Orgs
      BY ServeConstants DEF Names
    <3>2. deny'.stray[v] = IF deny.stray[v] # 0 THEN deny.stray[v]
                           ELSE Cardinality({x \in ExportedDenials : x[3][1] = v})
      BY <1>1, <3>1 DEF ImportedDenials
    <3>3. CASE deny.stray[v] # 0
      BY <3>3 DEF AnchorInv, TakenAreSeeded, Taken
    <3>4. CASE deny.stray[v] = 0
      <4>1. {x \in ExportedDenials : x[3][1] = v} # {}
        BY <2>2, <3>2, <3>4, FS_EmptySet
      <4>2. PICK x \in ExportedDenials : x[3][1] = v
        BY <4>1
      <4> QED
        BY <4>2, ExportedVersions DEF AnchorInv
    <3> QED
      BY <3>3, <3>4
  <2>3. CASE v \in events'.blank
    <3>1. events'.blank = ImportedBlankEvents
      BY DEF GenesisRoundTrip, TypeInv, EventsOK
    <3>2. v \in events.blank \/ v \in Bare \/ v = NoOrg
      BY <2>3, <3>1 DEF ImportedBlankEvents, PointerBlank
    <3>3. v # NoOrg
      BY ServeConstants
    <3> QED
      BY <3>2, <3>3 DEF AnchorInv, TakenAreSeeded, Taken, Bare
  <2> QED
    BY <1>8, <2>1, <2>2, <2>3 DEF Taken
<1>9. TakenAreSeeded'
  <2> SUFFICES ASSUME NEW v \in Versions, Taken(v)'
               PROVE  v \in DOMAIN policy'.anchor /\ policy'.anchor[v].height = 0
    BY DEF TakenAreSeeded
  <2>1. v \in DOMAIN policy.anchor /\ policy.anchor[v].height = 0
    BY <1>8
  <2> QED
    BY <1>2, <1>3, <2>1
<1> QED
  BY <1>6, <1>7, <1>9 DEF AnchorInv

\* What SetPolicyAnchor and InitGenesis do to the anchors.
LEMMA AnchorStep ==
    ASSUME TypeInv, AnchorInv, [Next \/ GenesisRoundTrip]_vars
    PROVE  AnchorsStand /\ AnchorInv'
<1>1. ASSUME policy' = policy, deny'.stray = deny.stray, events'.blank = events.blank,
             \A d \in deny'.receipts : d \in deny.receipts \/ d[1] \in Orgs
      PROVE  AnchorsStand /\ AnchorInv'
  <2>1. AnchorsStand /\ LatestAnchored' /\ OrgAnchorsBlank'
    BY <1>1 DEF AnchorInv, LatestAnchored, AnchorsStand, OrgAnchorsBlank
  <2>2. ASSUME NEW v \in Versions, Taken(v)' PROVE Taken(v)
    BY <1>1, <2>2, ServeConstants DEF Taken
  <2>3. TakenAreSeeded'
    BY <1>1, <2>2 DEF AnchorInv, TakenAreSeeded
  <2> QED
    BY <2>1, <2>3 DEF AnchorInv
<1>2. CASE UNCHANGED <<policy, deny, events>>
  BY <1>1, <1>2
<1>3. ASSUME NEW v \in Versions, NEW h \in PolicyHashes, AnchorPolicyVersion(v, h)
      PROVE  AnchorsStand /\ AnchorInv'
  <2>1. /\ v \notin DOMAIN policy.anchor /\ policy'.latest = v
        /\ policy'.anchor = [n \in DOMAIN policy.anchor \cup {v} |->
                                IF n = v THEN [hash |-> h, epoch |-> 0, height |-> 1]
                                ELSE policy.anchor[n]]
        /\ UNCHANGED <<deny, events>>
    BY <1>3 DEF AnchorPolicyVersion, SetPolicyAnchor
  <2>2. v # NoVersion
    BY ServeConstants DEF Names
  <2>3. \A u : Taken(u)' <=> Taken(u)
    BY <2>1 DEF Taken
  <2>4. AnchorsStand /\ LatestAnchored' /\ OrgAnchorsBlank'
    BY <2>1, <2>2 DEF AnchorsStand, LatestAnchored, AnchorInv, OrgAnchorsBlank
  <2>5. TakenAreSeeded'
    BY <2>1, <2>3 DEF AnchorInv, TakenAreSeeded
  <2> QED
    BY <2>4, <2>5 DEF AnchorInv
<1>4. ASSUME NEW signer, NEW o, NEW e, NEW b, SubmitServeBatch(signer, o, e, b)
      PROVE  UNCHANGED <<policy, deny, events>>
  BY <1>4 DEF SubmitServeBatch
<1>5. ASSUME NEW signer, NEW o \in Orgs, NEW e \in EpochIds,
             NEW b \in Batches(DenialEntry, MaxDenials), SubmitDenialBatch(signer, o, e, b)
      PROVE  AnchorsStand /\ AnchorInv'
  <2>1. UNCHANGED <<policy, events>>
    BY <1>5 DEF SubmitDenialBatch
  <2> QED
    BY <1>1, <1>5, <2>1, DenialsOfOrgs
<1>6. ASSUME NEW signer, NEW o, NEW e, NEW b, SubmitEventBatch(signer, o, e, b)
      PROVE  AnchorsStand /\ AnchorInv'
  <2>1. /\ UNCHANGED <<policy, deny>>
        /\ \E S : events' = [events EXCEPT !.signed = S]
    BY <1>6 DEF SubmitEventBatch
  <2>2. events'.blank = events.blank
    BY <2>1 DEF TypeInv, EventsOK
  <2> QED
    BY <1>1, <2>1, <2>2
<1>7. BandwidthStep => UNCHANGED <<policy, deny, events>>
  BY DEF BandwidthStep
<1> QED
  BY <1>2, <1>3, <1>4, <1>5, <1>6, <1>7, RoundTripAnchors DEF Next, vars, UpdateParams,
      RotateServingKey, MemoryApproved

\* At first there is no anchor but one a genesis file may hold (InitGenesis).
LEMMA AnchorStart == ASSUME Init PROVE AnchorInv
<1>1. \/ policy = [anchor |-> [n \in {} |-> BlankAnchor], latest |-> NoVersion]
      \/ \E v \in SeedVersions, h \in PolicyHashes :
            policy = [anchor |-> [n \in {v} |-> [hash |-> h, epoch |-> 0, height |-> 0]],
                      latest |-> v]
  BY DEF Init
<1>2. LatestAnchored /\ OrgAnchorsBlank
  <2>1. CASE policy = [anchor |-> [n \in {} |-> BlankAnchor], latest |-> NoVersion]
    <3>1. DOMAIN policy.anchor = {} /\ policy.latest = NoVersion
      BY <2>1
    <3> QED
      BY <3>1 DEF LatestAnchored, OrgAnchorsBlank
  <2>2. ASSUME NEW v \in SeedVersions, NEW h \in PolicyHashes,
               policy = [anchor |-> [n \in {v} |-> [hash |-> h, epoch |-> 0, height |-> 0]],
                         latest |-> v]
        PROVE  LatestAnchored /\ OrgAnchorsBlank
    <3>1. DOMAIN policy.anchor = {v} /\ policy.latest = v
      BY <2>2
    <3>2. v \in Versions
      BY ServeConstants
    <3> QED
      BY <3>1, <3>2 DEF LatestAnchored, OrgAnchorsBlank
  <2> QED
    BY <1>1, <2>1, <2>2
<1>3. /\ deny.receipts = {} /\ deny.stray = [n \in Names \ Orgs |-> 0] /\ events.blank = {}
  BY DEF Init
<1>4. \A v \in Versions : v \in Names \ Orgs
  BY ServeConstants DEF Names
<1>5. \A v \in Versions : ~Taken(v)
  BY <1>3, <1>4 DEF Taken
<1> QED
  BY <1>2, <1>5 DEF AnchorInv, TakenAreSeeded

\* So it stays (SetPolicyAnchor, InitGenesis).
LEMMA RestartAnchors == RestartSpec => []AnchorInv
<1>1. TypeInv /\ AnchorInv /\ [Next \/ GenesisRoundTrip]_vars => AnchorInv'
  BY AnchorStep
<1> QED
  BY <1>1, AnchorStart, RestartTypes, PTL DEF RestartSpec

\* An anchor made by a message is final, imports included, and a seeded one may
\* only lose its hash in an import; the latest pointer, once set, names a stored
\* anchor (SetPolicyAnchor, InitGenesis).
THEOREM AnchorsKept == RestartSpec => AnchorsFinal
<1>1. TypeInv /\ AnchorInv /\ [Next \/ GenesisRoundTrip]_vars => [AnchorsStand]_vars
  BY AnchorStep
<1>2. [][AnchorsStand]_vars => AnchorsFinal
  BY PTL DEF AnchorsFinal, AnchorsStand
<1> QED
  BY <1>1, <1>2, RestartAnchors, RestartTypes, PTL DEF RestartSpec

\* A batch replaces no receipt, and a memory it serves is within the per-memory
\* cap in force when it ends (ProcessServeBatch).
LEMMA ServeBatchFinal ==
    ASSUME TypeInv, NEW signer, NEW o \in Orgs, NEW e \in EpochIds,
           NEW b \in Batches(ServeEntry, MaxServes), SubmitServeBatch(signer, o, e, b)
    PROVE  /\ \A f \in Fingerprints :
                 kv.receipt[f] # NoReceipt => kv'.receipt[f] = kv.receipt[f]
           /\ \A m \in DOMAIN kv.memCount :
                 kv'.memCount[m] # kv.memCount[m] => kv'.memCount[m] <= params.perMemory
<1> DEFINE Good(s) ==
             /\ \A f \in Fingerprints :
                   kv.receipt[f] # NoReceipt => s.kv.receipt[f] = kv.receipt[f]
             /\ \A m \in DOMAIN kv.memCount :
                   s.kv.memCount[m] # kv.memCount[m] => s.kv.memCount[m] <= params.perMemory
           X == {s \in LoopState : Good(s)}
<1>0. kv \in Store /\ params.perMemory \in Nat
  BY ServeConstants DEF TypeInv
<1>1. X \subseteq LoopState /\ Now \in X
  BY DEF Now, LoopState, TypeInv
<1>2. ASSUME NEW s \in X, NEW x \in ServeEntry, Accepts(s.kv, o, e, x)
      PROVE  ProcessEntry(s, o, e, x) \in X
  <2> DEFINE t == ProcessEntry(s, o, e, x)
  <2>1. t \in LoopState
    BY EntryType DEF TypeInv
  <2>2. EntryEffect(t, s, o, e, x)
    BY <1>2, EntryFields
  <2> HIDE DEF t
  <2>3. s.kv.receipt \in [Fingerprints -> ServeReceipt] /\ s.kv.memCount \in Counts
    BY DEF LoopState, Store, Counts
  <2>4. /\ s.kv.receipt[<<x.hash, x.key, e>>] = NoReceipt
        /\ s.kv.memCount[<<o, x.hash, e>>] < params.perMemory
    BY <1>2 DEF Accepts
  <2>5. <<o, x.hash, e>> \in Orgs \X Hashes \X EpochIds
    BY DEF ServeEntry
  <2>6. \A f \in Fingerprints : kv.receipt[f] # NoReceipt => t.kv.receipt[f] = kv.receipt[f]
    <3>1. t.kv.receipt = [s.kv.receipt EXCEPT ![<<x.hash, x.key, e>>] = ReceiptOf(o, x)]
      BY <2>2 DEF EntryEffect
    <3> QED
      BY <2>3, <2>4, <3>1
  <2>7. \A m \in DOMAIN kv.memCount :
            t.kv.memCount[m] # kv.memCount[m] => t.kv.memCount[m] <= params.perMemory
    <3>1. t.kv.memCount = [s.kv.memCount EXCEPT ![<<o, x.hash, e>>] = @ + 1]
      BY <2>2 DEF EntryEffect
    <3>2. DOMAIN kv.memCount = Orgs \X Hashes \X EpochIds
      BY <1>0 DEF Store
    <3> SUFFICES ASSUME NEW m \in Orgs \X Hashes \X EpochIds, t.kv.memCount[m] # kv.memCount[m]
                 PROVE  t.kv.memCount[m] <= params.perMemory
      BY <3>2
    <3> DEFINE c == s.kv.memCount
               d == t.kv.memCount
               z == <<o, x.hash, e>>
    <3>3. c \in [Orgs \X Hashes \X EpochIds -> Nat] /\ z \in Orgs \X Hashes \X EpochIds
      BY <2>3, <2>5 DEF Counts
    <3>4. d = [c EXCEPT ![z] = c[z] + 1] /\ c[z] < params.perMemory
      BY <2>4, <3>1
    <3>5. c[m] # kv.memCount[m] => c[m] <= params.perMemory
      BY <3>2
    <3> HIDE DEF c, z
    <3>6. CASE m = z
      BY <1>0, <3>3, <3>4, <3>6, SMTT(30)
    <3>7. CASE m # z
      <4>1. d[m] = c[m]
        BY <3>3, <3>4, <3>7
      <4> QED
        BY <3>5, <4>1
    <3> QED
      BY <3>6, <3>7
  <2> QED
    BY <2>1, <2>6, <2>7 DEF t
<1> HIDE DEF X
<1>3. Now' \in X
  BY <1>1, <1>2, ServeBatchKeeps
<1> QED
  BY <1>3 DEF X, Now

\* A stored receipt is never replaced and a batch that serves a memory leaves it
\* within the per-memory cap in force (ProcessServeBatch), across imports too.
THEOREM ReceiptsKept == RestartSpec => ReceiptsFinal
<1> DEFINE Kept == /\ \A f \in Fingerprints :
                         kv.receipt[f] # NoReceipt => kv'.receipt[f] = kv.receipt[f]
                   /\ \A m \in DOMAIN kv.memCount :
                         kv'.memCount[m] # kv.memCount[m] => kv'.memCount[m] <= params.perMemory
<1>1. ASSUME TypeInv, [Next \/ GenesisRoundTrip]_vars PROVE [Kept]_vars
  <2>1. kv \in Store /\ params.perMemory \in Nat
    BY <1>1, ServeConstants DEF TypeInv
  <2>2. CASE kv'.receipt = kv.receipt /\ kv'.memCount = kv.memCount
    BY <2>2
  <2>3. ASSUME NEW signer, NEW o \in Orgs, NEW e \in EpochIds,
               NEW b \in Batches(ServeEntry, MaxServes), SubmitServeBatch(signer, o, e, b)
        PROVE  Kept
    BY <1>1, <2>3, ServeBatchFinal
  <2>4. ASSUME NEW signer, NEW o, NEW e, NEW b, SubmitDenialBatch(signer, o, e, b)
        PROVE  kv'.receipt = kv.receipt /\ kv'.memCount = kv.memCount
    BY <2>1, <2>4 DEF SubmitDenialBatch, Store
  <2>5. CASE GenesisRoundTrip
    <3>1. /\ kv'.receipt = kv.receipt
          /\ kv'.memCount = [m \in DOMAIN kv.memCount |-> 0]
      BY <2>1, <2>5 DEF GenesisRoundTrip, Store
    <3> QED
      BY <2>1, <3>1, SMTT(30)
  <2>6. CASE Next
    BY <2>2, <2>3, <2>4, <2>6 DEF Next, BandwidthStep, UpdateParams, RotateServingKey, MemoryApproved,
        AnchorPolicyVersion, SubmitEventBatch
  <2> QED
    BY <1>1, <2>5, <2>6
<1> QED
  BY <1>1, RestartTypes, PTL DEF RestartSpec, ReceiptsFinal
----------------------------------------------------------------------------
(* Sets of receipts.                                                       *)

\* the fingerprints of k whose receipt, with the fingerprint, is in Q
Matching(k, Q) == {f \in Fingerprints : k.receipt[f] # NoReceipt /\ <<k.receipt[f], f>> \in Q}

\* the receipt an entry leads to, its fingerprint, and the two
FingerprintOf(e, x) == <<x.hash, x.key, e>>

Item(o, e, x) == <<ReceiptOf(o, x), FingerprintOf(e, x)>>

\* t has the receipt of x, and else those of k
Grown(t, k, o, e, x) ==
    /\ FingerprintOf(e, x) \in Fingerprints
    /\ k.receipt[FingerprintOf(e, x)] = NoReceipt
    /\ t.receipt[FingerprintOf(e, x)] = ReceiptOf(o, x)
    /\ ReceiptOf(o, x) # NoReceipt
    /\ \A f \in Fingerprints : f # FingerprintOf(e, x) => t.receipt[f] = k.receipt[f]

\* An accepted entry stores a receipt where there was none and touches no other
\* (ProcessServeBatch).
LEMMA EntryGrows ==
    ASSUME NEW s \in LoopState, NEW o \in Orgs, NEW e \in EpochIds, NEW x \in ServeEntry,
           Accepts(s.kv, o, e, x), NEW t, EntryEffect(t, s, o, e, x)
    PROVE  Grown(t.kv, s.kv, o, e, x)
<1>1. t.kv.receipt = [s.kv.receipt EXCEPT ![<<x.hash, x.key, e>>] = ReceiptOf(o, x)]
  BY DEF EntryEffect
<1>2. s.kv.receipt \in [Fingerprints -> ServeReceipt]
  BY DEF LoopState, Store
<1>3. FingerprintOf(e, x) \in Fingerprints
  BY DEF ServeEntry, FingerprintOf, Fingerprints
<1>4. s.kv.receipt[FingerprintOf(e, x)] = NoReceipt
  BY DEF Accepts, FingerprintOf
<1>5. ReceiptOf(o, x) # NoReceipt
  BY ServeConstants DEF ReceiptOf, NoReceipt
<1>6. /\ t.kv.receipt[FingerprintOf(e, x)] = ReceiptOf(o, x)
      /\ \A f \in Fingerprints : f # FingerprintOf(e, x) => t.kv.receipt[f] = s.kv.receipt[f]
  BY <1>1, <1>2, <1>3 DEF FingerprintOf
<1> QED
  BY <1>3, <1>4, <1>5, <1>6 DEF Grown

\* Any set of receipts gains the new one, if it belongs to the set, and its
\* cardinality grows by one.
LEMMA MatchingGrows ==
    ASSUME NEW t, NEW k, NEW o, NEW e, NEW x, Grown(t, k, o, e, x), NEW Q
    PROVE  /\ FingerprintOf(e, x) \notin Matching(k, Q)
           /\ Item(o, e, x) \in Q =>
                 /\ Matching(t, Q) = Matching(k, Q) \cup {FingerprintOf(e, x)}
                 /\ Cardinality(Matching(t, Q)) = Cardinality(Matching(k, Q)) + 1
           /\ Item(o, e, x) \notin Q => Matching(t, Q) = Matching(k, Q)
           /\ \A f \in Matching(k, Q) : t.receipt[f] = k.receipt[f]
           /\ IsFiniteSet(Matching(k, Q)) /\ Cardinality(Matching(k, Q)) \in Nat
<1>1. FingerprintOf(e, x) \notin Matching(k, Q)
  BY DEF Grown, Matching
<1>2. Item(o, e, x) \in Q => Matching(t, Q) = Matching(k, Q) \cup {FingerprintOf(e, x)}
  BY DEF Grown, Matching, Item
<1>3. Item(o, e, x) \notin Q => Matching(t, Q) = Matching(k, Q)
  BY DEF Grown, Matching, Item
<1>4. \A f \in Matching(k, Q) : t.receipt[f] = k.receipt[f]
  BY <1>1 DEF Grown, Matching
<1>5. IsFiniteSet(Matching(k, Q))
  BY FiniteFingerprints, FS_Subset DEF Matching
<1>6. Cardinality(Matching(k, Q)) \in Nat
  BY <1>5, FS_CardinalityType
<1>7. Cardinality(Matching(k, Q) \cup {FingerprintOf(e, x)}) = Cardinality(Matching(k, Q)) + 1
  BY <1>1, <1>5, FS_AddElement
<1> QED
  BY <1>1, <1>2, <1>3, <1>4, <1>5, <1>6, <1>7

\* The receipt just written adds one to the count of every kind it belongs to
\* (ProcessServeBatch writes one receipt for each accepted entry).
LEMMA Counted ==
    ASSUME NEW t, NEW k, NEW o, NEW e, NEW x, Grown(t, k, o, e, x),
           NEW Q, Item(o, e, x) \in Q
    PROVE  Cardinality(Matching(t, Q)) = Cardinality(Matching(k, Q)) + 1
  BY MatchingGrows, SMTT(30)

\* It is the only receipt that joins such a kind (ProcessServeBatch).
LEMMA Joined ==
    ASSUME NEW t, NEW k, NEW o, NEW e, NEW x, Grown(t, k, o, e, x),
           NEW Q, Item(o, e, x) \in Q
    PROVE  Matching(t, Q) = Matching(k, Q) \cup {FingerprintOf(e, x)}
  BY MatchingGrows, SMTT(30)

\* A kind it does not belong to keeps its receipts (ProcessServeBatch).
LEMMA NotCounted ==
    ASSUME NEW t, NEW k, NEW o, NEW e, NEW x, Grown(t, k, o, e, x),
           NEW Q, Item(o, e, x) \notin Q
    PROVE  Matching(t, Q) = Matching(k, Q)
  BY MatchingGrows, SMTT(30)

\* The receipts of a kind can be counted: a store holds finitely many keys
\* (receiptKey holds the fingerprint).
LEMMA CountIsNat == ASSUME NEW k, NEW Q PROVE Cardinality(Matching(k, Q)) \in Nat
<1>1. IsFiniteSet(Matching(k, Q))
  BY FiniteFingerprints, FS_Subset DEF Matching
<1> QED
  BY <1>1, FS_CardinalityType

\* receipts of the (org, epoch); of a serve to oneself, a model and a memory
OrgEpoch(o, e) == {p \in ServeReceipt \X Fingerprints : p[1].org = o /\ p[2][3] = e}

SelfOf(o, e) == {p \in OrgEpoch(o, e) : p[2][2] = p[1].contributor}

ModelOf(o, e, m) == {p \in OrgEpoch(o, e) : p[1].model = m /\ m # NoModel}

MemoryOf(o, e, h) == {p \in OrgEpoch(o, e) : p[2][1] = h}

Served(k, o, e) == Matching(k, OrgEpoch(o, e))

\* Which sets the receipt of an entry belongs to.
LEMMA NewMember ==
    ASSUME NEW o \in Orgs, NEW e \in EpochIds, NEW x \in ServeEntry, NEW u, NEW d
    PROVE  /\ Item(o, e, x) \in OrgEpoch(u, d) <=> u = o /\ d = e
           /\ Item(o, e, x) \in SelfOf(u, d) <=>
                 u = o /\ d = e /\ x.key = x.contributor
           /\ \A m : Item(o, e, x) \in ModelOf(u, d, m) <=>
                 u = o /\ d = e /\ x.model = m /\ m # NoModel
           /\ \A h : Item(o, e, x) \in MemoryOf(u, d, h) <=>
                 u = o /\ d = e /\ x.hash = h
<1> DEFINE r == ReceiptOf(o, x)
           f == FingerprintOf(e, x)
           p == <<r, f>>
<1>1. r \in ServeReceipt /\ f \in Fingerprints
  BY DEF ReceiptOf, ServeReceipt, ServeEntry, FingerprintOf, Fingerprints
<1>2. /\ r.org = o /\ r.contributor = x.contributor /\ r.model = x.model
      /\ f[1] = x.hash /\ f[2] = x.key /\ f[3] = e
  BY DEF ReceiptOf, FingerprintOf
<1> HIDE DEF r, f
<1>3. p \in ServeReceipt \X Fingerprints /\ p[1] = r /\ p[2] = f
  BY <1>1
<1> HIDE DEF p
<1>4. p \in OrgEpoch(u, d) <=> u = o /\ d = e
  BY <1>2, <1>3 DEF OrgEpoch
<1>5. p \in SelfOf(u, d) <=> u = o /\ d = e /\ x.key = x.contributor
  BY <1>2, <1>3, <1>4 DEF SelfOf
<1>6. \A m : p \in ModelOf(u, d, m) <=> u = o /\ d = e /\ x.model = m /\ m # NoModel
  BY <1>2, <1>3, <1>4 DEF ModelOf
<1>7. \A h : p \in MemoryOf(u, d, h) <=> u = o /\ d = e /\ x.hash = h
  BY <1>2, <1>3, <1>4 DEF MemoryOf
<1> QED
  BY <1>4, <1>5, <1>6, <1>7 DEF p, r, f, Item

\* the receipts of the (org, epoch) with a model, and with a memory
ServedWith(o, e, m) == {f \in OfOrg(o, e) : kv.receipt[f].model = m /\ m # NoModel}

ServesOf(o, e, h) == {f \in OfOrg(o, e) : f[1] = h}

\* The sets the properties speak of are sets of matching receipts.
LEMMA ServedSets ==
    ASSUME TypeInv, NEW o, NEW e
    PROVE  /\ OfOrg(o, e) = Served(kv, o, e)
           /\ Self(OfOrg(o, e)) = Matching(kv, SelfOf(o, e))
           /\ \A m : ServedWith(o, e, m) = Matching(kv, ModelOf(o, e, m))
           /\ \A h : ServesOf(o, e, h) = Matching(kv, MemoryOf(o, e, h))
<1>1. kv.receipt \in [Fingerprints -> ServeReceipt]
  BY DEF TypeInv, Store
<1>2. \A f \in Fingerprints : <<kv.receipt[f], f>> \in ServeReceipt \X Fingerprints
  BY <1>1
<1>3. ASSUME NEW f \in Fingerprints
      PROVE  /\ <<kv.receipt[f], f>> \in OrgEpoch(o, e) <=> kv.receipt[f].org = o /\ f[3] = e
             /\ <<kv.receipt[f], f>> \in SelfOf(o, e) <=>
                   kv.receipt[f].org = o /\ f[3] = e /\ f[2] = kv.receipt[f].contributor
             /\ \A m : <<kv.receipt[f], f>> \in ModelOf(o, e, m) <=>
                   kv.receipt[f].org = o /\ f[3] = e /\ kv.receipt[f].model = m /\ m # NoModel
             /\ \A h : <<kv.receipt[f], f>> \in MemoryOf(o, e, h) <=>
                   kv.receipt[f].org = o /\ f[3] = e /\ f[1] = h
  <2> DEFINE r == kv.receipt[f]
             p == <<r, f>>
  <2>1. p \in ServeReceipt \X Fingerprints /\ p[1] = r /\ p[2] = f
    BY <1>2
  <2> HIDE DEF p, r
  <2>2. p \in OrgEpoch(o, e) <=> r.org = o /\ f[3] = e
    BY <2>1 DEF OrgEpoch
  <2>3. p \in SelfOf(o, e) <=> r.org = o /\ f[3] = e /\ f[2] = r.contributor
    BY <2>1, <2>2 DEF SelfOf
  <2>4. \A m : p \in ModelOf(o, e, m) <=> r.org = o /\ f[3] = e /\ r.model = m /\ m # NoModel
    BY <2>1, <2>2 DEF ModelOf
  <2>5. \A h : p \in MemoryOf(o, e, h) <=> r.org = o /\ f[3] = e /\ f[1] = h
    BY <2>1, <2>2 DEF MemoryOf
  <2> QED
    BY <2>2, <2>3, <2>4, <2>5 DEF p, r
<1>4. OfOrg(o, e) = {f \in Fingerprints : kv.receipt[f] # NoReceipt
                                            /\ (kv.receipt[f].org = o /\ f[3] = e)}
  BY DEF OfOrg, Receipts
<1>5. OfOrg(o, e) = Served(kv, o, e)
  BY <1>3, <1>4 DEF Served, Matching
<1>6. Self(OfOrg(o, e)) = Matching(kv, SelfOf(o, e))
  BY <1>3, <1>4 DEF Self, Matching
<1>7. \A m : ServedWith(o, e, m) = Matching(kv, ModelOf(o, e, m))
  BY <1>3, <1>4 DEF Matching, ServedWith
<1>8. \A h : ServesOf(o, e, h) = Matching(kv, MemoryOf(o, e, h))
  BY <1>3, <1>4 DEF Matching, ServesOf
<1> QED
  BY <1>5, <1>6, <1>7, <1>8

----------------------------------------------------------------------------
(* Receipts and bandwidth.                                                 *)

\* what a batch of n entries may add to the receipts of (u, d)
Charge(o, e, u, d, n) == IF u = o /\ d = e THEN n ELSE 0

\* A batch stores at most as many receipts as it has entries, all of them for its
\* own (org, epoch) (ProcessServeBatch).
LEMMA BatchCharge ==
    ASSUME TypeInv, NEW signer, NEW o \in Orgs, NEW e \in EpochIds,
           NEW b \in Batches(ServeEntry, MaxServes), SubmitServeBatch(signer, o, e, b),
           NEW u \in Orgs, NEW d \in EpochIds
    PROVE  /\ Len(b) \in Nat
           /\ Cardinality(Served(kv', u, d)) <=
                 Cardinality(Served(kv, u, d)) + Charge(o, e, u, d, Len(b))
<1>1. PICK n \in Nat : /\ DOMAIN b = 1 .. n /\ Len(b) = n
                       /\ \A i \in 1 .. n : b[i] \in ServeEntry
  BY BatchShape, ServeConstants
<1> DEFINE base == Now
<1>2. base \in LoopState /\ base.kv = kv
  BY DEF Now, LoopState, TypeInv
<1>3. ServesStay(o, e, n, b, LoopState)
  BY <1>1, EntryType DEF ServesStay, TypeInv
<1>4. kv' = ServeLoop(o, e, base, b).kv
  BY DEF SubmitServeBatch, ServeLoop, Now
<1> HIDE DEF base
<1>5. PICK r : IsServeRun(r, o, e, n, base, b, LoopState)
  BY <1>1, <1>2, <1>3, ServeRun
<1> DEFINE size(i) == Cardinality(Served(r[i].kv, u, d))
           start == Cardinality(Served(kv, u, d))
           G == {i \in 0 .. n : size(i) <= start + Charge(o, e, u, d, i)}
<1>6. \A i \in 0 .. n : size(i) \in Nat
  BY CountIsNat DEF Served
<1>7. start \in Nat /\ \A i \in 0 .. n : Charge(o, e, u, d, i) \in Nat
  BY CountIsNat, SMTT(30) DEF Served, Charge
<1>8. 0 \in G
  <2>1. size(0) = start
    BY <1>2, <1>5 DEF IsServeRun
  <2>2. Charge(o, e, u, d, 0) = 0
    BY DEF Charge
  <2> HIDE DEF size, start
  <2> QED
    BY <1>7, <2>1, <2>2, SMTT(30)
<1>9. ASSUME NEW i \in 1 .. n, i - 1 \in G PROVE i \in G
  <2> DEFINE s == r[i - 1]
             t == r[i]
             x == b[i]
  <2>1. i - 1 \in 0 .. n /\ i \in 0 .. n
    BY SMTT(30)
  <2>2. s \in LoopState /\ x \in ServeEntry /\ t = ProcessEntry(s, o, e, x)
    BY <1>1, <1>5, <2>1 DEF IsServeRun
  <2>3. Charge(o, e, u, d, i) = Charge(o, e, u, d, i - 1) + Charge(o, e, u, d, 1)
    BY SMTT(30) DEF Charge
  <2>4. size(i) <= size(i - 1) + Charge(o, e, u, d, 1)
    <3> HIDE DEF s, t, x
    <3>0. size(i - 1) = Cardinality(Served(s.kv, u, d)) /\ size(i) = Cardinality(Served(t.kv, u, d))
      BY DEF s, t
    <3>1. CASE ~Accepts(s.kv, o, e, x)
      <4>1. t = s
        BY <2>2, <3>1 DEF ProcessEntry
      <4>2. size(i) = size(i - 1)
        BY <3>0, <4>1
      <4> HIDE DEF size
      <4> QED
        BY <1>6, <2>1, <4>2, SMTT(30) DEF Charge
    <3>2. CASE Accepts(s.kv, o, e, x)
      <4>1. EntryEffect(t, s, o, e, x)
        BY <2>2, <3>2, EntryFields
      <4>2. Grown(t.kv, s.kv, o, e, x)
        BY <2>2, <3>2, <4>1, EntryGrows
      <4>3. Item(o, e, x) \in OrgEpoch(u, d) <=> u = o /\ d = e
        BY <2>2, NewMember, SMTT(30)
      <4>4. CASE u = o /\ d = e
        <5>1. size(i) = size(i - 1) + 1
          BY <3>0, <4>2, <4>3, <4>4, Counted, SMTT(30) DEF Served
        <5> HIDE DEF size
        <5> QED
          BY <1>6, <2>1, <4>4, <5>1, SMTT(30) DEF Charge
      <4>5. CASE ~(u = o /\ d = e)
        <5>1. size(i) = size(i - 1)
          BY <3>0, <4>2, <4>3, <4>5, NotCounted, SMTT(30) DEF Served
        <5> HIDE DEF size
        <5> QED
          BY <1>6, <2>1, <4>5, <5>1, SMTT(30) DEF Charge
      <4> QED
        BY <4>4, <4>5
    <3> QED
      BY <3>1, <3>2
  <2>5. size(i - 1) <= start + Charge(o, e, u, d, i - 1)
    BY <1>9
  <2>6. Charge(o, e, u, d, 1) \in Nat /\ Charge(o, e, u, d, i - 1) \in Nat
    BY SMTT(30) DEF Charge
  <2>7. size(i) \in Nat /\ size(i - 1) \in Nat
    BY <1>6, <2>1
  <2> HIDE DEF size, start
  <2>8. size(i) <= start + Charge(o, e, u, d, i)
    BY <1>7, <2>3, <2>4, <2>5, <2>6, <2>7, SMTT(30)
  <2> QED
    BY <2>1, <2>8
<1> HIDE DEF G
<1>10. \A i \in 0 .. n : i \in G
  BY <1>8, <1>9, LoopInduction
<1>11. n \in 0 .. n /\ r[n].kv = kv'
  BY <1>4, <1>5, SMTT(30) DEF IsServeRun
<1> QED
  BY <1>1, <1>10, <1>11 DEF G

\* receipts are paid for, and the bandwidth consumed is within its cap
PaidFor ==
    \A o \in Orgs, e \in EpochIds :
        /\ Cardinality(Served(kv, o, e)) <= bandwidth[<<o, e>>].used
        /\ bandwidth[<<o, e>>].used <= bandwidth[<<o, e>>].cap
        /\ ~bandwidth[<<o, e>>].stored => bandwidth[<<o, e>>].used = 0

\* A batch pays for its entries before they are judged (ConsumeServeBandwidth).
LEMMA ServeBatchPaid ==
    ASSUME TypeInv, PaidFor, NEW signer, NEW o \in Orgs, NEW e \in EpochIds,
           NEW b \in Batches(ServeEntry, MaxServes), SubmitServeBatch(signer, o, e, b)
    PROVE  PaidFor'
<1> SUFFICES ASSUME NEW u \in Orgs, NEW d \in EpochIds
             PROVE  /\ Cardinality(Served(kv', u, d)) <= bandwidth'[<<u, d>>].used
                    /\ bandwidth'[<<u, d>>].used <= bandwidth'[<<u, d>>].cap
                    /\ ~bandwidth'[<<u, d>>].stored => bandwidth'[<<u, d>>].used = 0
  BY DEF PaidFor
<1> DEFINE st == GetOrInitBandwidthState(o, e)
           new == [st EXCEPT !.used = @ + Len(b)]
           size == Cardinality(Served(kv, u, d))
           grown == Cardinality(Served(kv', u, d))
           old == bandwidth[<<u, d>>]
<1>1. /\ Len(b) \in Nat /\ size \in Nat /\ grown \in Nat
      /\ grown <= size + Charge(o, e, u, d, Len(b))
  BY BatchCharge, CountIsNat DEF Served
<1>2. /\ bandwidth \in [Orgs \X EpochIds -> [stored : BOOLEAN, used : Nat, cap : {0} \cup ServeCaps]]
      /\ override \in [Orgs -> [stored : BOOLEAN, cap : {0} \cup ServeCaps]] /\ capParam \in ServeCaps
  BY DEF TypeInv, BandwidthTypeOK
<1>3. st.used + Len(b) <= st.cap /\ bandwidth' = [bandwidth EXCEPT ![<<o, e>>] = new]
  BY DEF SubmitServeBatch, ConsumeServeBandwidth
<1>4. st \in [stored : BOOLEAN, used : Nat, cap : {0} \cup ServeCaps] /\ st.stored
  BY <1>2 DEF GetOrInitBandwidthState
<1>5. st.used = bandwidth[<<o, e>>].used
  BY <1>2 DEF GetOrInitBandwidthState, PaidFor
<1> HIDE DEF st
<1>6. new.stored = st.stored /\ new.used = st.used + Len(b) /\ new.cap = st.cap
  BY <1>4
<1>7. size <= old.used /\ old.used <= old.cap /\ (~old.stored => old.used = 0) /\ old.used \in Nat
  BY <1>2 DEF PaidFor
<1> HIDE DEF new, size, grown, old
<1>8. CASE u = o /\ d = e
  <2>1. bandwidth'[<<u, d>>] = new
    BY <1>2, <1>3, <1>8
  <2>2. grown <= new.used
    BY <1>1, <1>5, <1>6, <1>7, <1>8, SMTT(30) DEF Charge, old
  <2> QED
    BY <1>3, <1>4, <1>6, <2>1, <2>2 DEF grown
<1>9. CASE ~(u = o /\ d = e)
  <2>1. bandwidth'[<<u, d>>] = old
    BY <1>2, <1>3, <1>9 DEF old
  <2>2. grown <= old.used
    BY <1>1, <1>7, <1>9, SMTT(30) DEF Charge
  <2> QED
    BY <1>7, <2>1, <2>2 DEF grown
<1> QED
  BY <1>8, <1>9

\* No transaction stores a receipt that is not paid for, or exceeds a cap.
LEMMA PaidStep == ASSUME TypeInv, PaidFor, [Next]_vars PROVE PaidFor'
<1>1. ASSUME kv'.receipt = kv.receipt, bandwidth' = bandwidth PROVE PaidFor'
  <2>1. \A o \in Orgs, e \in EpochIds : Served(kv', o, e) = Served(kv, o, e)
    BY <1>1 DEF Served, Matching
  <2> QED
    BY <1>1, <2>1 DEF PaidFor
<1>2. ASSUME NEW signer, NEW o, NEW e, NEW b, SubmitDenialBatch(signer, o, e, b)
      PROVE  kv'.receipt = kv.receipt /\ bandwidth' = bandwidth
  BY <1>2 DEF SubmitDenialBatch, TypeInv, Store, bandwidthVars
<1>3. ASSUME NEW signer, NEW o, NEW cap, SetBandwidthOverride(signer, o, cap)
      PROVE  bandwidth' = bandwidth
  BY <1>3 DEF SetBandwidthOverride
<1>4. ASSUME NEW cap, UpdateBandwidthParams(cap) PROVE bandwidth' = bandwidth
  BY <1>4 DEF UpdateBandwidthParams
<1>5. BandwidthStep => kv' = kv /\ bandwidth' = bandwidth
  BY <1>3, <1>4 DEF BandwidthStep, BandwidthNext
<1>6. CASE Next
  BY <1>1, <1>2, <1>5, <1>6, ServeBatchPaid
     DEF Next, UpdateParams, RotateServingKey, MemoryApproved, AnchorPolicyVersion,
         SubmitEventBatch, bandwidthVars
<1> QED
  BY <1>1, <1>6 DEF vars, bandwidthVars

\* The receipts of an (org, epoch) never exceed the bandwidth consumed for it, nor
\* that its cap, whatever overrides, parameter changes and batches interleave.
THEOREM ReceiptsPaid == Spec => []ReceiptsWithinBandwidth
<1>1. ASSUME Init PROVE PaidFor
  <2> SUFFICES ASSUME NEW o \in Orgs, NEW e \in EpochIds
               PROVE  /\ Cardinality(Served(kv, o, e)) <= bandwidth[<<o, e>>].used
                      /\ bandwidth[<<o, e>>].used <= bandwidth[<<o, e>>].cap
                      /\ ~bandwidth[<<o, e>>].stored => bandwidth[<<o, e>>].used = 0
    BY DEF PaidFor
  <2>1. kv.receipt = [f \in Fingerprints |-> NoReceipt]
    BY <1>1 DEF Init
  <2>2. Served(kv, o, e) = {}
    BY <2>1 DEF Served, Matching
  <2>3. bandwidth[<<o, e>>] = NoState
    BY <1>1 DEF Init, BandwidthInit
  <2> QED
    BY <2>2, <2>3, FS_EmptySet, SMTT(30) DEF NoState
<1>2. TypeInv /\ PaidFor /\ [Next]_vars => PaidFor'
  BY PaidStep
<1>3. TypeInv /\ PaidFor => ReceiptsWithinBandwidth
  BY ServedSets DEF PaidFor, ReceiptsWithinBandwidth
<1> QED
  BY <1>1, <1>2, <1>3, SpecTypes, PTL DEF Spec

----------------------------------------------------------------------------
(* Tallies: what a contributor is credited with.                           *)

\* pairs of a serve to oneself
SelfPairs == {p \in ServeReceipt \X Fingerprints : p[2][2] = p[1].contributor}

OrgsIn(k, Q) == {k.receipt[f].org : f \in Matching(k, Q)}

\* the tally counts the receipts of k in Q
CountedBy(tally, k, Q) ==
    /\ tally.count = Cardinality(Matching(k, Q))
    /\ tally.self = Cardinality(Matching(k, Q \cap SelfPairs))
    /\ tally.orgs = OrgsIn(k, Q)

\* Adding a serve to the tally of a set its receipt belongs to keeps the tally
\* that of the receipts (updateContributorServes, RecordServe).
LEMMA TallyGrows ==
    ASSUME NEW l, NEW k, NEW o \in Orgs, NEW e \in EpochIds, NEW x \in ServeEntry,
           Grown(l, k, o, e, x), NEW Q, Item(o, e, x) \in Q,
           NEW tally, CountedBy(tally, k, Q), NEW turns
    PROVE  CountedBy(AddServe(tally, o, x.key = x.contributor, turns), l, Q)
<1> DEFINE new == AddServe(tally, o, x.key = x.contributor, turns)
<1>1. /\ new.count = tally.count + 1
      /\ new.self = tally.self + IF x.key = x.contributor THEN 1 ELSE 0
      /\ new.orgs = tally.orgs \cup {o}
  BY DEF AddServe
<1> HIDE DEF new
<1>2. new.count = Cardinality(Matching(l, Q))
  <2>1. Cardinality(Matching(l, Q)) = Cardinality(Matching(k, Q)) + 1
    BY Counted, SMTT(30)
  <2> QED
    BY <1>1, <2>1 DEF CountedBy
<1>3. new.self = Cardinality(Matching(l, Q \cap SelfPairs))
  <2>1. Item(o, e, x) \in SelfPairs <=> x.key = x.contributor
    <3> DEFINE r == ReceiptOf(o, x)
               f == FingerprintOf(e, x)
               p == <<r, f>>
    <3>1. r \in ServeReceipt /\ f \in Fingerprints
      BY DEF ReceiptOf, ServeReceipt, ServeEntry, FingerprintOf, Fingerprints
    <3>2. r.contributor = x.contributor /\ f[2] = x.key
      BY DEF ReceiptOf, FingerprintOf
    <3> HIDE DEF r, f
    <3>3. p \in ServeReceipt \X Fingerprints /\ p[1] = r /\ p[2] = f
      BY <3>1
    <3> HIDE DEF p
    <3>4. p \in SelfPairs <=> x.key = x.contributor
      BY <3>2, <3>3 DEF SelfPairs
    <3> QED
      BY <3>4 DEF p, r, f, Item
  <2>2. CASE x.key = x.contributor
    <3>1. Item(o, e, x) \in Q \cap SelfPairs
      BY <2>1, <2>2
    <3>2. Cardinality(Matching(l, Q \cap SelfPairs)) = Cardinality(Matching(k, Q \cap SelfPairs)) + 1
      BY <3>1, Counted, SMTT(30)
    <3> QED
      BY <1>1, <2>2, <3>2 DEF CountedBy
  <2>3. CASE x.key # x.contributor
    <3>1. Item(o, e, x) \notin Q \cap SelfPairs
      BY <2>1, <2>3
    <3>2. Matching(l, Q \cap SelfPairs) = Matching(k, Q \cap SelfPairs)
      BY <3>1, NotCounted, SMTT(30)
    <3>3. tally.self \in Nat
      BY CountIsNat DEF CountedBy
    <3> QED
      BY <1>1, <2>3, <3>2, <3>3, SMTT(30) DEF CountedBy
  <2> QED
    BY <2>2, <2>3
<1>4. new.orgs = OrgsIn(l, Q)
  <2>1. Matching(l, Q) = Matching(k, Q) \cup {FingerprintOf(e, x)}
    BY Joined, SMTT(30)
  <2>2. \A f \in Matching(k, Q) : l.receipt[f] = k.receipt[f]
    BY MatchingGrows, SMTT(30)
  <2>3. l.receipt[FingerprintOf(e, x)].org = o
    BY SMTT(30) DEF Grown, ReceiptOf
  <2>4. OrgsIn(l, Q) = OrgsIn(k, Q) \cup {o}
    BY <2>1, <2>2, <2>3 DEF OrgsIn
  <2> QED
    BY <1>1, <2>4 DEF CountedBy
<1>5. CountedBy(new, l, Q)
  BY <1>2, <1>3, <1>4 DEF CountedBy
<1> QED
  BY <1>5 DEF new

\* The tally of a set without the receipt stays that of the receipts.
LEMMA TallyKept ==
    ASSUME NEW l, NEW k, NEW o, NEW e, NEW x, Grown(l, k, o, e, x),
           NEW Q, Item(o, e, x) \notin Q, NEW tally, CountedBy(tally, k, Q)
    PROVE  CountedBy(tally, l, Q)
<1>1. Matching(l, Q) = Matching(k, Q)
  BY NotCounted, SMTT(30)
<1>2. Matching(l, Q \cap SelfPairs) = Matching(k, Q \cap SelfPairs)
  <2>1. Item(o, e, x) \notin Q \cap SelfPairs
    OBVIOUS
  <2> QED
    BY <2>1, NotCounted, SMTT(30)
<1>3. \A f \in Matching(k, Q) : l.receipt[f] = k.receipt[f]
  BY MatchingGrows, SMTT(30)
<1>4. OrgsIn(l, Q) = OrgsIn(k, Q)
  BY <1>1, <1>3 DEF OrgsIn
<1> QED
  BY <1>1, <1>2, <1>4 DEF CountedBy

\* receipts that name the contributor in the epoch
Named(c, e) == {p \in ServeReceipt \X Fingerprints : p[1].contributor = c /\ p[2][3] = e}

TurnsOf(k) == [f \in Fingerprints |-> k.receipt[f].turns]

Summaries(k) ==
    \A c \in ServeKeys, e \in EpochIds :
        /\ CountedBy(k.contributor[<<c, e>>], k, Named(c, e))
        /\ k.contributor[<<c, e>>].turns = SumFunctionOnSet(TurnsOf(k), Matching(k, Named(c, e)))

\* The turns of receipts are natural numbers.
LEMMA TurnsNat ==
    ASSUME NEW k \in Store, NEW f \in Fingerprints
    PROVE  TurnsOf(k)[f] = k.receipt[f].turns /\ TurnsOf(k)[f] \in Nat
<1>1. k.receipt[f] \in ServeReceipt
  BY DEF Store
<1>2. k.receipt[f].turns \in Nat
  <2>1. \A r \in ServeReceipt : r.turns \in Turns \cup {0}
    BY DEF ServeReceipt
  <2>2. Turns \cup {0} \subseteq Nat
    BY ServeConstants, SMTT(30)
  <2> QED
    BY <1>1, <2>1, <2>2
<1> QED
  BY <1>2 DEF TurnsOf

\* updateContributorServes keeps the summary of the contributor an entry names,
\* and every other, those of the receipts.
LEMMA EntrySummaries ==
    ASSUME NEW s \in LoopState, NEW o \in Orgs, NEW e \in EpochIds, NEW x \in ServeEntry,
           Accepts(s.kv, o, e, x), NEW t \in LoopState, EntryEffect(t, s, o, e, x),
           Summaries(s.kv)
    PROVE  Summaries(t.kv)
<1> DEFINE k == s.kv
           l == t.kv
<1>1. Grown(l, k, o, e, x)
  BY EntryGrows
<1>2. k \in Store /\ l \in Store
  BY DEF LoopState
<1>3. l.contributor = [k.contributor EXCEPT ![<<x.contributor, e>>] =
                           AddServe(@, o, x.key = x.contributor, x.turns)]
  BY DEF EntryEffect
<1>4. Summaries(k)
  OBVIOUS
<1> SUFFICES Summaries(l)
  OBVIOUS
<1> HIDE DEF k, l
<1> SUFFICES ASSUME NEW c \in ServeKeys, NEW d \in EpochIds
             PROVE  /\ CountedBy(l.contributor[<<c, d>>], l, Named(c, d))
                    /\ l.contributor[<<c, d>>].turns =
                          SumFunctionOnSet(TurnsOf(l), Matching(l, Named(c, d)))
  BY DEF Summaries
<1> DEFINE Q == Named(c, d)
           M == Matching(k, Q)
           old == k.contributor[<<c, d>>]
           new == AddServe(k.contributor[<<x.contributor, e>>], o, x.key = x.contributor, x.turns)
<1>5. CountedBy(old, k, Q) /\ old.turns = SumFunctionOnSet(TurnsOf(k), M)
  BY <1>4 DEF Summaries
<1>6. Item(o, e, x) \in Q <=> c = x.contributor /\ d = e
  <2> DEFINE r == ReceiptOf(o, x)
             f == FingerprintOf(e, x)
             p == <<r, f>>
  <2>1. r \in ServeReceipt /\ f \in Fingerprints
    BY DEF ReceiptOf, ServeReceipt, ServeEntry, FingerprintOf, Fingerprints
  <2>2. r.contributor = x.contributor /\ f[3] = e
    BY DEF ReceiptOf, FingerprintOf
  <2> HIDE DEF r, f
  <2>3. p \in ServeReceipt \X Fingerprints /\ p[1] = r /\ p[2] = f
    BY <2>1
  <2> HIDE DEF p
  <2>4. p \in Q <=> c = x.contributor /\ d = e
    BY <2>2, <2>3 DEF Named
  <2> QED
    BY <2>4 DEF p, r, f, Item
<1>7. k.contributor \in [ServeKeys \X EpochIds -> ServeTally] /\ x.contributor \in ServeKeys
  BY <1>2 DEF Store, ServeEntry
<1>8. l.contributor = [k.contributor EXCEPT ![<<x.contributor, e>>] = new]
  BY <1>3
<1>9. /\ IsFiniteSet(M) /\ M \subseteq Fingerprints /\ \A f \in M : l.receipt[f] = k.receipt[f]
      /\ FingerprintOf(e, x) \notin M /\ FingerprintOf(e, x) \in Fingerprints
  <2>1. M \subseteq Fingerprints
    BY DEF Matching
  <2>2. FingerprintOf(e, x) \in Fingerprints
    BY <1>1 DEF Grown
  <2> HIDE DEF Q
  <2>3. IsFiniteSet(M) /\ FingerprintOf(e, x) \notin M /\ \A f \in M : l.receipt[f] = k.receipt[f]
    BY <1>1, MatchingGrows, SMTT(30)
  <2> QED
    BY <2>1, <2>2, <2>3
<1>10. SumFunctionOnSet(TurnsOf(l), M) = SumFunctionOnSet(TurnsOf(k), M)
  <2>1. \A f \in M : TurnsOf(l)[f] = TurnsOf(k)[f]
    BY <1>2, <1>9, TurnsNat
  <2> HIDE DEF M
  <2> QED
    BY <1>9, <2>1, SumSame
<1>11. CASE c = x.contributor /\ d = e
  <2>1. l.contributor[<<c, d>>] = new
    <3> HIDE DEF new
    <3> QED
      BY <1>7, <1>8, <1>11
  <2>2. new = AddServe(old, o, x.key = x.contributor, x.turns)
    BY <1>11
  <2>3. CountedBy(new, l, Q)
    <3> HIDE DEF new, old, Q
    <3> QED
      BY <1>1, <1>5, <1>6, <1>11, <2>2, TallyGrows
  <2>4. new.turns = old.turns + x.turns
    BY <2>2 DEF AddServe
  <2>5. Matching(l, Q) = M \cup {FingerprintOf(e, x)}
    BY <1>1, <1>6, <1>11, Joined, SMTT(30)
  <2>6. \A f \in M \cup {FingerprintOf(e, x)} : TurnsOf(l)[f] \in Int
    BY <1>2, <1>9, TurnsNat, SMTT(30)
  <2>7. SumFunctionOnSet(TurnsOf(l), M \cup {FingerprintOf(e, x)}) =
            TurnsOf(l)[FingerprintOf(e, x)] + SumFunctionOnSet(TurnsOf(l), M)
    <3> HIDE DEF M
    <3> QED
      BY <1>9, <2>6, SumAdd
  <2>8. TurnsOf(l)[FingerprintOf(e, x)] = x.turns /\ x.turns \in Nat
    BY <1>1, <1>2, <1>9, TurnsNat, SMTT(30) DEF Grown, ReceiptOf
  <2>9. old.turns \in Nat
    <3>1. \A f \in M : TurnsOf(k)[f] \in Nat
      BY <1>2, <1>9, TurnsNat
    <3> HIDE DEF M, old
    <3> QED
      BY <1>5, <1>9, <3>1, SumNat
  <2>10. new.turns = SumFunctionOnSet(TurnsOf(l), Matching(l, Q))
    <3> HIDE DEF M, new, old, Q
    <3> QED
      BY <1>5, <1>10, <2>4, <2>5, <2>7, <2>8, <2>9, SMTT(30)
  <2> QED
    BY <2>1, <2>3, <2>10
<1>12. CASE ~(c = x.contributor /\ d = e)
  <2>1. l.contributor[<<c, d>>] = old
    <3> HIDE DEF new
    <3> QED
      BY <1>7, <1>8, <1>12
  <2>2. CountedBy(old, l, Q)
    <3> HIDE DEF old, Q
    <3> QED
      BY <1>1, <1>5, <1>6, <1>12, TallyKept
  <2>3. Matching(l, Q) = M
    BY <1>1, <1>6, <1>12, NotCounted, SMTT(30)
  <2> QED
    BY <1>5, <1>10, <2>1, <2>2, <2>3
<1> QED
  BY <1>11, <1>12

\* The summaries depend on the receipts and on themselves only.
LEMMA SummariesKept ==
    ASSUME NEW k, NEW l, l.receipt = k.receipt, l.contributor = k.contributor, Summaries(k)
    PROVE  Summaries(l)
<1>1. \A Q : Matching(l, Q) = Matching(k, Q)
  BY DEF Matching
<1>2. TurnsOf(l) = TurnsOf(k)
  BY DEF TurnsOf
<1>3. \A Q : OrgsIn(l, Q) = OrgsIn(k, Q)
  BY <1>1, SMTT(30) DEF OrgsIn
<1> QED
  BY <1>1, <1>2, <1>3 DEF Summaries, CountedBy

\* Every step keeps the summaries those of the receipts.
LEMMA SummariesStep ==
    ASSUME TypeInv, Summaries(kv), [Next \/ GenesisRoundTrip]_vars
    PROVE  Summaries(kv')
<1>1. ASSUME NEW signer, NEW o \in Orgs, NEW e \in EpochIds,
             NEW b \in Batches(ServeEntry, MaxServes), SubmitServeBatch(signer, o, e, b)
      PROVE  Summaries(kv')
  <2> DEFINE X == {s \in LoopState : Summaries(s.kv)}
  <2>1. X \subseteq LoopState /\ Now \in X
    BY DEF Now, LoopState, TypeInv
  <2>2. ASSUME NEW s \in X, NEW x \in ServeEntry, Accepts(s.kv, o, e, x)
        PROVE  ProcessEntry(s, o, e, x) \in X
    <3>1. ProcessEntry(s, o, e, x) \in LoopState
      BY EntryType DEF TypeInv
    <3>2. EntryEffect(ProcessEntry(s, o, e, x), s, o, e, x)
      BY <2>2, EntryFields
    <3> QED
      BY <2>2, <3>1, <3>2, EntrySummaries
  <2> HIDE DEF X
  <2>3. Now' \in X
    BY <1>1, <2>1, <2>2, ServeBatchKeeps
  <2> QED
    BY <2>3 DEF X, Now
<1>2. ASSUME NEW signer, NEW o \in Orgs, NEW e \in EpochIds,
             NEW b \in Batches(DenialEntry, MaxDenials), SubmitDenialBatch(signer, o, e, b)
      PROVE  Summaries(kv')
  BY <1>2, DenialBatchServes, SummariesKept
<1>3. CASE GenesisRoundTrip
  <2>1. kv \in Store
    BY DEF TypeInv
  <2>2. kv'.receipt = kv.receipt /\ kv'.contributor = kv.contributor
    BY <1>3, <2>1 DEF GenesisRoundTrip, Store
  <2> QED
    BY <2>2, SummariesKept
<1>4. CASE kv' = kv
  BY <1>4
<1>5. CASE Next
  BY <1>1, <1>2, <1>4, <1>5 DEF Next, BandwidthStep, UpdateParams, RotateServingKey, MemoryApproved,
      AnchorPolicyVersion, SubmitEventBatch
<1> QED
  BY <1>3, <1>4, <1>5 DEF vars

\* the receipts that name a contributor, as the property writes them
ReceiptsNaming(c, e) ==
    {f \in Fingerprints : kv.receipt[f] # NoReceipt /\ kv.receipt[f].contributor = c /\ f[3] = e}

\* The summary of a contributor in an epoch, over all orgs, is that of the
\* receipts naming it, imports included (updateContributorServes).
THEOREM SummariesMatch == RestartSpec => []ContributorServesMatch
<1>1. ASSUME Init PROVE Summaries(kv)
  <2> SUFFICES ASSUME NEW c \in ServeKeys, NEW e \in EpochIds
               PROVE  /\ CountedBy(kv.contributor[<<c, e>>], kv, Named(c, e))
                      /\ kv.contributor[<<c, e>>].turns =
                            SumFunctionOnSet(TurnsOf(kv), Matching(kv, Named(c, e)))
    BY DEF Summaries
  <2>1. kv.receipt = [f \in Fingerprints |-> NoReceipt] /\ kv.contributor[<<c, e>>] = NoServes
    BY <1>1 DEF Init
  <2>2. \A Q : Matching(kv, Q) = {}
    BY <2>1 DEF Matching
  <2>3. \A Q : OrgsIn(kv, Q) = {}
    BY <2>2 DEF OrgsIn
  <2>4. CountedBy(NoServes, kv, Named(c, e))
    BY <2>2, <2>3, FS_EmptySet DEF CountedBy, NoServes
  <2>5. NoServes.turns = SumFunctionOnSet(TurnsOf(kv), Matching(kv, Named(c, e)))
    BY <2>2, SumEmpty DEF NoServes
  <2> QED
    BY <2>1, <2>4, <2>5
<1>2. TypeInv /\ Summaries(kv) /\ [Next \/ GenesisRoundTrip]_vars => Summaries(kv)'
  BY SummariesStep
<1>3. TypeInv /\ Summaries(kv) => ContributorServesMatch
  <2> SUFFICES ASSUME TypeInv, Summaries(kv), NEW c \in ServeKeys, NEW e \in EpochIds
               PROVE  LET named == Receipts(LAMBDA f : kv.receipt[f].contributor = c /\ f[3] = e)
                      IN  kv.contributor[<<c, e>>] =
                              [count |-> Cardinality(named),
                               self |-> Cardinality(Self(named)),
                               turns |-> SumFunctionOnSet([f \in named |-> kv.receipt[f].turns], named),
                               orgs |-> {kv.receipt[f].org : f \in named}]
    BY DEF ContributorServesMatch
  <2> DEFINE F == ReceiptsNaming(c, e)
             Q == Named(c, e)
             y == kv.contributor[<<c, e>>]
  <2>1. Receipts(LAMBDA f : kv.receipt[f].contributor = c /\ f[3] = e) = F
    BY DEF Receipts, ReceiptsNaming
  <2>2. kv \in Store /\ kv.receipt \in [Fingerprints -> ServeReceipt] /\ y \in ServeTally
    BY DEF TypeInv, Store
  <2>3. ASSUME NEW f \in Fingerprints
        PROVE  /\ <<kv.receipt[f], f>> \in Q <=> kv.receipt[f].contributor = c /\ f[3] = e
               /\ <<kv.receipt[f], f>> \in SelfPairs <=> f[2] = kv.receipt[f].contributor
    <3> DEFINE r == kv.receipt[f]
               p == <<r, f>>
    <3>1. p \in ServeReceipt \X Fingerprints /\ p[1] = r /\ p[2] = f
      BY <2>2
    <3> HIDE DEF p, r
    <3>2. p \in Q <=> r.contributor = c /\ f[3] = e
      BY <3>1 DEF Named
    <3>3. p \in SelfPairs <=> f[2] = r.contributor
      BY <3>1 DEF SelfPairs
    <3> QED
      BY <3>2, <3>3 DEF p, r
  <2>4. F = Matching(kv, Q)
    BY <2>3 DEF ReceiptsNaming, Matching
  <2>5. Self(F) = Matching(kv, Q \cap SelfPairs)
    BY <2>3 DEF ReceiptsNaming, Matching, Self
  <2>6. y.count = Cardinality(F) /\ y.self = Cardinality(Self(F)) /\ y.orgs = {kv.receipt[f].org : f \in F}
    <3>1. CountedBy(y, kv, Q)
      BY DEF Summaries
    <3> HIDE DEF F, Q, y
    <3> QED
      BY <2>4, <2>5, <3>1 DEF CountedBy, OrgsIn
  <2>7. y.turns = SumFunctionOnSet([f \in F |-> kv.receipt[f].turns], F)
    <3>1. y.turns = SumFunctionOnSet(TurnsOf(kv), F)
      BY <2>4 DEF Summaries
    <3>2. IsFiniteSet(F) /\ F \subseteq Fingerprints
      BY FiniteFingerprints, FS_Subset DEF ReceiptsNaming
    <3>3. \A f \in F : TurnsOf(kv)[f] = [g \in F |-> kv.receipt[g].turns][f]
      BY <3>2 DEF TurnsOf
    <3>4. SumFunctionOnSet(TurnsOf(kv), F) = SumFunctionOnSet([g \in F |-> kv.receipt[g].turns], F)
      <4> DEFINE h == [g \in F |-> kv.receipt[g].turns]
      <4> HIDE DEF F, h
      <4>1. SumFunctionOnSet(TurnsOf(kv), F) = SumFunctionOnSet(h, F)
        BY <3>2, <3>3, SumSame DEF h
      <4> QED
        BY <4>1 DEF h
    <3> QED
      BY <3>1, <3>4
  <2>8. y = [count |-> y.count, self |-> y.self, turns |-> y.turns, orgs |-> y.orgs]
    BY <2>2 DEF ServeTally
  <2> HIDE DEF F, y
  <2>9. y = [count |-> Cardinality(F), self |-> Cardinality(Self(F)),
             turns |-> SumFunctionOnSet([f \in F |-> kv.receipt[f].turns], F),
             orgs |-> {kv.receipt[f].org : f \in F}]
    BY <2>6, <2>7, <2>8
  <2> QED
    BY <2>1, <2>9 DEF y
<1> QED
  BY <1>1, <1>2, <1>3, RestartTypes, PTL DEF RestartSpec

----------------------------------------------------------------------------
(* The reputation of a memory's contributor.                               *)

\* receipts of memories that the approved records who give to c
OwnedBy(who, c) == {p \in ServeReceipt \X Fingerprints : who[p[1].org][p[2][1]] = c}

\* every receipt is of a memory with an approved record
AllApproved(k, who) ==
    \A f \in Fingerprints : k.receipt[f] # NoReceipt => who[k.receipt[f].org][f[1]] # NoKey

\* the reputation is that of the receipts, by the owner of the memory, while
\* x/reputation is active, and nothing otherwise
Credited(tallies, k, who, on) ==
    \A c \in ServeKeys : IF on THEN CountedBy(tallies[c], k, OwnedBy(who, c))
                         ELSE tallies[c] = NoServes

\* RecordServe credits the contributor of the memory's record, with the receipt
\* that the entry has just stored, and nobody else.
LEMMA EntryCredits ==
    ASSUME NEW s \in LoopState, NEW o \in Orgs, NEW e \in EpochIds, NEW x \in ServeEntry,
           Accepts(s.kv, o, e, x), NEW t \in LoopState, EntryEffect(t, s, o, e, x),
           ContributorsOK, AllApproved(s.kv, contributor),
           Credited(s.reputation, s.kv, contributor, active)
    PROVE  AllApproved(t.kv, contributor) /\ Credited(t.reputation, t.kv, contributor, active)
<1> DEFINE k == s.kv
           l == t.kv
           a == s.reputation
           b == t.reputation
           owner == contributor[o][x.hash]
<1>1. Grown(l, k, o, e, x)
  BY EntryGrows
<1>2. /\ a \in [ServeKeys -> ServeTally]
      /\ b = IF active THEN [a EXCEPT ![owner] = AddServe(a[owner], o, x.key = x.contributor, 0)] ELSE a
  BY DEF LoopState, EntryEffect, RecordServe
<1>3. owner # NoKey /\ owner \in ServeKeys
  BY DEF Accepts, ContributorsOK, ServeEntry
<1>4. AllApproved(k, contributor) /\ Credited(a, k, contributor, active)
  OBVIOUS
<1> SUFFICES AllApproved(l, contributor) /\ Credited(b, l, contributor, active)
  OBVIOUS
<1> HIDE DEF k, l, a, b
<1>5. ReceiptOf(o, x).org = o /\ FingerprintOf(e, x)[1] = x.hash
  BY DEF ReceiptOf, FingerprintOf
<1>6. AllApproved(l, contributor)
  <2> SUFFICES ASSUME NEW f \in Fingerprints, l.receipt[f] # NoReceipt
               PROVE  contributor[l.receipt[f].org][f[1]] # NoKey
    BY DEF AllApproved
  <2>1. CASE f = FingerprintOf(e, x)
    <3>1. l.receipt[f] = ReceiptOf(o, x)
      BY <1>1, <2>1 DEF Grown
    <3> QED
      BY <1>3, <1>5, <2>1, <3>1
  <2>2. CASE f # FingerprintOf(e, x)
    <3>1. l.receipt[f] = k.receipt[f]
      BY <1>1, <2>2 DEF Grown
    <3> QED
      BY <1>4, <3>1 DEF AllApproved
  <2> QED
    BY <2>1, <2>2
<1>7. ASSUME NEW c PROVE Item(o, e, x) \in OwnedBy(contributor, c) <=> owner = c
  <2> DEFINE r == ReceiptOf(o, x)
             f == FingerprintOf(e, x)
             p == <<r, f>>
  <2>1. r \in ServeReceipt /\ f \in Fingerprints
    BY DEF ReceiptOf, ServeReceipt, ServeEntry, FingerprintOf, Fingerprints
  <2>2. r.org = o /\ f[1] = x.hash
    BY <1>5
  <2> HIDE DEF r, f
  <2>3. p \in ServeReceipt \X Fingerprints /\ p[1] = r /\ p[2] = f
    BY <2>1
  <2> HIDE DEF p
  <2>4. p \in OwnedBy(contributor, c) <=> owner = c
    BY <2>2, <2>3 DEF OwnedBy
  <2> QED
    BY <2>4 DEF p, r, f, Item
<1> HIDE DEF owner
<1>8. ASSUME active, NEW c \in ServeKeys PROVE CountedBy(b[c], l, OwnedBy(contributor, c))
  <2> DEFINE Q == OwnedBy(contributor, c)
  <2>1. CountedBy(a[c], k, Q)
    BY <1>4, <1>8 DEF Credited
  <2>2. CASE c = owner
    <3> DEFINE new == AddServe(a[c], o, x.key = x.contributor, 0)
    <3>1. b[c] = new
      <4> HIDE DEF new
      <4>1. b = [a EXCEPT ![owner] = new]
        BY <1>2, <1>8, <2>2 DEF new
      <4> QED
        BY <1>2, <1>3, <2>2, <4>1
    <3>2. Item(o, e, x) \in Q
      BY <1>7, <2>2
    <3> HIDE DEF Q
    <3>3. CountedBy(new, l, Q)
      BY <1>1, <2>1, <3>2, TallyGrows
    <3> QED
      BY <3>1, <3>3 DEF Q
  <2>3. CASE c # owner
    <3>1. b[c] = a[c]
      BY <1>2, <1>8, <2>3
    <3>2. Item(o, e, x) \notin Q
      BY <1>7, <2>3
    <3> HIDE DEF Q
    <3>3. CountedBy(a[c], l, Q)
      BY <1>1, <2>1, <3>2, TallyKept
    <3> QED
      BY <3>1, <3>3 DEF Q
  <2> QED
    BY <2>2, <2>3
<1>9. ASSUME ~active, NEW c \in ServeKeys PROVE b[c] = NoServes
  BY <1>2, <1>4, <1>9 DEF Credited
<1> QED
  BY <1>6, <1>8, <1>9 DEF Credited

\* What is credited depends on the receipts and their owners only: an approval
\* (ApproveMemory) gives an owner to a memory that has none, hence no receipt.
LEMMA CreditsKept ==
    ASSUME NEW tallies, NEW k, k.receipt \in [Fingerprints -> ServeReceipt], NEW l,
           l.receipt = k.receipt, NEW who, NEW now, NEW on,
           \A f \in Fingerprints : k.receipt[f] # NoReceipt =>
               now[k.receipt[f].org][f[1]] = who[k.receipt[f].org][f[1]],
           AllApproved(k, who), Credited(tallies, k, who, on)
    PROVE  AllApproved(l, now) /\ Credited(tallies, l, now, on)
<1>1. AllApproved(l, now)
  BY DEF AllApproved
<1>2. ASSUME NEW c, NEW f \in Fingerprints, k.receipt[f] # NoReceipt
      PROVE  <<k.receipt[f], f>> \in OwnedBy(now, c) <=> <<k.receipt[f], f>> \in OwnedBy(who, c)
  <2> DEFINE r == k.receipt[f]
             p == <<r, f>>
  <2>1. p \in ServeReceipt \X Fingerprints /\ p[1] = r /\ p[2] = f
    OBVIOUS
  <2>2. now[r.org][f[1]] = who[r.org][f[1]]
    BY <1>2
  <2> HIDE DEF p, r
  <2>3. p \in OwnedBy(now, c) <=> p \in OwnedBy(who, c)
    BY <2>1, <2>2 DEF OwnedBy
  <2> QED
    BY <2>3 DEF p, r
<1>3. ASSUME NEW c
      PROVE  /\ Matching(l, OwnedBy(now, c)) = Matching(k, OwnedBy(who, c))
             /\ Matching(l, OwnedBy(now, c) \cap SelfPairs) = Matching(k, OwnedBy(who, c) \cap SelfPairs)
  BY <1>2 DEF Matching
<1>4. ASSUME NEW c PROVE OrgsIn(l, OwnedBy(now, c)) = OrgsIn(k, OwnedBy(who, c))
  BY <1>3 DEF OrgsIn
<1> QED
  BY <1>1, <1>3, <1>4 DEF Credited, CountedBy

\* the reputation invariant: owners and credits of the receipts
ReputationInv == AllApproved(kv, contributor) /\ Credited(reputation, kv, contributor, active)

\* Every step but an import keeps what is credited: batches credit the owner of
\* the memory, approvals name an owner once, nothing else touches either.
LEMMA ReputationStep ==
    ASSUME TypeInv, ReputationInv, [Next]_vars
    PROVE  ReputationInv'
<1>0. kv \in Store /\ kv.receipt \in [Fingerprints -> ServeReceipt]
  BY DEF TypeInv, Store
<1>1. ASSUME NEW signer, NEW o \in Orgs, NEW e \in EpochIds,
             NEW b \in Batches(ServeEntry, MaxServes), SubmitServeBatch(signer, o, e, b)
      PROVE  ReputationInv'
  <2> DEFINE X == {s \in LoopState : AllApproved(s.kv, contributor)
                                     /\ Credited(s.reputation, s.kv, contributor, active)}
  <2>1. X \subseteq LoopState /\ Now \in X
    BY DEF Now, LoopState, TypeInv, ReputationInv
  <2>2. ASSUME NEW s \in X, NEW x \in ServeEntry, Accepts(s.kv, o, e, x)
        PROVE  ProcessEntry(s, o, e, x) \in X
    <3>1. ProcessEntry(s, o, e, x) \in LoopState
      BY EntryType DEF TypeInv
    <3>2. EntryEffect(ProcessEntry(s, o, e, x), s, o, e, x)
      BY <2>2, EntryFields
    <3> QED
      BY <2>2, <3>1, <3>2, EntryCredits DEF TypeInv
  <2> HIDE DEF X
  <2>3. Now' \in X
    BY <1>1, <2>1, <2>2, ServeBatchKeeps
  <2>4. contributor' = contributor /\ active' = active
    BY <1>1 DEF SubmitServeBatch, environment
  <2>5. AllApproved(kv', contributor) /\ Credited(reputation', kv', contributor, active)
    BY <2>3 DEF X, Now
  <2> QED
    BY <2>4, <2>5 DEF ReputationInv
<1>2. ASSUME kv'.receipt = kv.receipt, reputation' = reputation, active' = active,
             \A f \in Fingerprints : kv.receipt[f] # NoReceipt =>
                 contributor'[kv.receipt[f].org][f[1]] = contributor[kv.receipt[f].org][f[1]]
      PROVE  ReputationInv'
  <2> DEFINE k == kv
             l == kv'
             who == contributor
             now == contributor'
             a == reputation
  <2>1. /\ k.receipt \in [Fingerprints -> ServeReceipt] /\ l.receipt = k.receipt
        /\ \A f \in Fingerprints : k.receipt[f] # NoReceipt =>
               now[k.receipt[f].org][f[1]] = who[k.receipt[f].org][f[1]]
        /\ AllApproved(k, who) /\ Credited(a, k, who, active)
    BY <1>0, <1>2 DEF ReputationInv
  <2> HIDE DEF k, l, who, now, a
  <2>2. AllApproved(l, now) /\ Credited(a, l, now, active)
    BY <2>1, CreditsKept
  <2> QED
    BY <1>2, <2>2 DEF ReputationInv, k, l, who, now, a
<1>3. ASSUME NEW o \in Orgs, NEW h \in Hashes, NEW c \in ServeKeys, MemoryApproved(o, h, c)
      PROVE  ReputationInv'
  <2>1. /\ contributor[o][h] = NoKey /\ contributor' = [contributor EXCEPT ![o][h] = c]
        /\ kv' = kv /\ reputation' = reputation /\ active' = active
        /\ contributor \in [Orgs -> [Hashes -> ServeKeys \cup {NoKey}]]
    BY <1>3 DEF MemoryApproved, TypeInv, ContributorsOK
  <2>2. ASSUME NEW f \in Fingerprints, kv.receipt[f] # NoReceipt
        PROVE  contributor'[kv.receipt[f].org][f[1]] = contributor[kv.receipt[f].org][f[1]]
    <3> DEFINE p == kv.receipt[f].org
               g == f[1]
    <3>1. p \in Orgs /\ g \in Hashes /\ contributor[p][g] # NoKey
      BY <2>2 DEF TypeInv, SoundReceipts, ReputationInv, AllApproved, Fingerprints
    <3> HIDE DEF p, g
    <3>2. p # o \/ g # h
      BY <2>1, <3>1
    <3>3. contributor'[p][g] = contributor[p][g]
      BY <2>1, <3>1, <3>2
    <3> QED
      BY <3>3 DEF p, g
  <2> QED
    BY <1>2, <2>1, <2>2
<1>4. ASSUME NEW signer, NEW o \in Orgs, NEW e \in EpochIds,
             NEW b \in Batches(DenialEntry, MaxDenials), SubmitDenialBatch(signer, o, e, b)
      PROVE  ReputationInv'
  <2>1. kv'.receipt = kv.receipt
    BY <1>4, DenialBatchServes
  <2>2. UNCHANGED <<reputation, active, contributor>>
    BY <1>4 DEF SubmitDenialBatch, environment
  <2> QED
    BY <1>2, <2>1, <2>2
<1>5. CASE UNCHANGED <<kv, reputation, active, contributor>>
  BY <1>5, <1>2
<1>6. CASE Next
  BY <1>1, <1>3, <1>4, <1>5, <1>6 DEF Next, BandwidthStep, UpdateParams, RotateServingKey,
      AnchorPolicyVersion, SubmitEventBatch, environment
<1> QED
  BY <1>5, <1>6 DEF vars, environment

\* the receipts of memories whose record names c, as the property writes them
ReceiptsOwned(c) ==
    {f \in Fingerprints : kv.receipt[f] # NoReceipt /\ contributor[kv.receipt[f].org][f[1]] = c}

\* Until an import, the reputation of a key is exactly the receipts of the
\* memories whose approved record names it, whatever contributor the entries
\* named, and nothing while x/reputation is inactive (RecordServe).
THEOREM ReputationByMemory == Spec => []ReputationFollowsMemory
<1>1. ASSUME Init PROVE ReputationInv
  <2>1. /\ kv.receipt = [f \in Fingerprints |-> NoReceipt]
        /\ reputation = [c \in ServeKeys |-> NoServes]
    BY <1>1 DEF Init
  <2>2. \A Q : Matching(kv, Q) = {}
    BY <2>1 DEF Matching
  <2>3. \A Q : OrgsIn(kv, Q) = {}
    BY <2>2 DEF OrgsIn
  <2>4. AllApproved(kv, contributor)
    BY <2>1 DEF AllApproved
  <2>5. \A Q : CountedBy(NoServes, kv, Q)
    BY <2>2, <2>3, FS_EmptySet DEF CountedBy, NoServes
  <2>6. \A c \in ServeKeys : reputation[c] = NoServes
    BY <2>1
  <2> QED
    BY <2>4, <2>5, <2>6 DEF ReputationInv, Credited
<1>2. TypeInv /\ ReputationInv /\ [Next]_vars => ReputationInv'
  BY ReputationStep
<1>3. TypeInv /\ ReputationInv => ReputationFollowsMemory
  <2> SUFFICES ASSUME TypeInv, ReputationInv, NEW c \in ServeKeys
               PROVE  LET own == Receipts(LAMBDA f : contributor[kv.receipt[f].org][f[1]] = c)
                      IN  /\ active => /\ reputation[c].count = Cardinality(own)
                                       /\ reputation[c].self = Cardinality(Self(own))
                                       /\ reputation[c].orgs = {kv.receipt[f].org : f \in own}
                          /\ ~active => reputation[c] = NoServes
    BY DEF ReputationFollowsMemory
  <2> DEFINE F == ReceiptsOwned(c)
             Q == OwnedBy(contributor, c)
  <2>1. Receipts(LAMBDA f : contributor[kv.receipt[f].org][f[1]] = c) = F
    BY DEF Receipts, ReceiptsOwned
  <2>2. kv.receipt \in [Fingerprints -> ServeReceipt]
    BY DEF TypeInv, Store
  <2>3. ASSUME NEW f \in Fingerprints
        PROVE  /\ <<kv.receipt[f], f>> \in Q <=> contributor[kv.receipt[f].org][f[1]] = c
               /\ <<kv.receipt[f], f>> \in SelfPairs <=> f[2] = kv.receipt[f].contributor
    <3> DEFINE r == kv.receipt[f]
               p == <<r, f>>
    <3>1. p \in ServeReceipt \X Fingerprints /\ p[1] = r /\ p[2] = f
      BY <2>2
    <3> HIDE DEF p, r
    <3>2. p \in Q <=> contributor[r.org][f[1]] = c
      BY <3>1 DEF OwnedBy
    <3>3. p \in SelfPairs <=> f[2] = r.contributor
      BY <3>1 DEF SelfPairs
    <3> QED
      BY <3>2, <3>3 DEF p, r
  <2>4. F = Matching(kv, Q)
    BY <2>3 DEF ReceiptsOwned, Matching
  <2>5. Self(F) = Matching(kv, Q \cap SelfPairs)
    BY <2>3 DEF ReceiptsOwned, Matching, Self
  <2>6. active => CountedBy(reputation[c], kv, Q)
    BY DEF ReputationInv, Credited
  <2>7. ~active => reputation[c] = NoServes
    BY DEF ReputationInv, Credited
  <2> HIDE DEF F, Q
  <2>8. active => /\ reputation[c].count = Cardinality(F)
                  /\ reputation[c].self = Cardinality(Self(F))
                  /\ reputation[c].orgs = {kv.receipt[f].org : f \in F}
    BY <2>4, <2>5, <2>6 DEF CountedBy, OrgsIn
  <2> QED
    BY <2>1, <2>7, <2>8
<1> QED
  BY <1>1, <1>2, <1>3, SpecTypes, PTL DEF Spec
=============================================================================
