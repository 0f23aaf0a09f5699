---------------------------- MODULE SumTheorems ----------------------------
(***************************************************************************)
(* Facts about SumFunctionOnSet, the sum of a function over a finite set,  *)
(* for the proofs that add up balances, rewards or counters.  The sum is   *)
(* defined by picking the elements of the set one after the other; all     *)
(* facts come from induction on finite sets, stated here for a set G of    *)
(* good sets, which follows from WFMin on the strict subset ordering.      *)
(***************************************************************************)
EXTENDS Functions, FiniteSetsExt, FiniteSetTheorems, TLAPS

\* provers of a leaf that names none
USE ZenonT(30), SMTT(30)

\* Induction on the subsets of a finite set: what holds of a set whenever it
\* holds of all its proper subsets holds of all of them.  Used for every sum
\* over accounts, passkeys, epochs and memories.
LEMMA SubsetInduction ==
    ASSUME NEW S, IsFiniteSet(S), NEW G,
           \A T \in SUBSET S : (\A U \in SUBSET T : U # T => U \in G) => T \in G
    PROVE  SUBSET S \subseteq G
<1> DEFINE bad == {T \in SUBSET S : T \notin G}
<1>1. IsWellFoundedOn(StrictSubsetOrdering(S), SUBSET S)
  BY FS_FiniteSubsetsOfFinite, FS_StrictSubsetOrderingWellFounded
<1> SUFFICES ASSUME bad # {} PROVE FALSE
  OBVIOUS
<1>2. PICK T \in bad : \A U \in bad : <<U, T>> \notin StrictSubsetOrdering(S)
  <2>1. bad \subseteq SUBSET S
    OBVIOUS
  <2> HIDE DEF bad
  <2> QED
    BY <1>1, <2>1, WFMin, SMTT(30)
<1>3. ASSUME NEW U \in SUBSET T, U # T PROVE U \in G
  <2>1. <<U, T>> \in StrictSubsetOrdering(S)
    BY <1>3 DEF StrictSubsetOrdering
  <2> QED
    BY <1>2, <2>1
<1> QED
  BY <1>3

\* Induction on a finite set, one element at a time.  Used for every sum over
\* accounts, passkeys, epochs and memories.
LEMMA SetInduction ==
    ASSUME NEW S, IsFiniteSet(S), NEW G,
           {} \in G,
           \A T \in SUBSET S, x \in S : T \in G /\ x \notin T => T \cup {x} \in G
    PROVE  S \in G
<1>1. ASSUME NEW T \in SUBSET S, \A U \in SUBSET T : U # T => U \in G
      PROVE  T \in G
  <2>1. CASE T = {}
    BY <2>1
  <2>2. CASE T # {}
    <3>1. PICK x : x \in T
      BY <2>2
    <3>2. T \ {x} \in G
      BY <1>1, <3>1
    <3>3. T = (T \ {x}) \cup {x}
      BY <3>1
    <3> QED
      BY <3>1, <3>2, <3>3
  <2> QED
    BY <2>1, <2>2
<1>2. SUBSET S \subseteq G
  BY <1>1, SubsetInduction
<1> QED
  BY <1>2

\* A finite set of integers has a least and a greatest element.  Used for the
\* bounds of the weights of x/reputation and for the last entry of a batch.
LEMMA Extremes ==
    ASSUME NEW S, IsFiniteSet(S), S # {}, S \subseteq Int
    PROVE  /\ Min(S) \in S /\ Max(S) \in S
           /\ \A x \in S : Min(S) <= x /\ x <= Max(S)
<1> DEFINE G == {T \in SUBSET S : T # {} => \E lo, hi \in T : \A x \in T : lo <= x /\ x <= hi}
<1>1. {} \in G
  OBVIOUS
<1>2. ASSUME NEW T \in SUBSET S, NEW y \in S, T \in G, y \notin T
      PROVE  T \cup {y} \in G
  <2>1. CASE T = {}
    <3>1. \A x \in T \cup {y} : y <= x /\ x <= y
      BY <2>1, SMTT(30)
    <3> QED
      BY <3>1
  <2>2. CASE T # {}
    <3> PICK lo \in T, hi \in T : \A x \in T : lo <= x /\ x <= hi
      BY <1>2, <2>2
    <3>1. lo \in Int /\ hi \in Int /\ y \in Int
      OBVIOUS
    <3> DEFINE a == IF y <= lo THEN y ELSE lo
               b == IF hi <= y THEN y ELSE hi
    <3>2. a \in T \cup {y} /\ b \in T \cup {y}
      OBVIOUS
    <3>3. \A x \in T \cup {y} : a <= x /\ x <= b
      BY <3>1, SMTT(30)
    <3> QED
      BY <3>2, <3>3
  <2> QED
    BY <2>1, <2>2
<1> HIDE DEF G
<1>3. S \in G
  BY <1>1, <1>2, SetInduction
<1>4. PICK lo \in S, hi \in S : \A x \in S : lo <= x /\ x <= hi
  BY <1>3 DEF G
<1>5. (\E x \in S : \A y \in S : x >= y) /\ (\E x \in S : \A y \in S : x <= y)
  BY <1>4
<1> QED
  BY <1>5 DEF Min, Max

\* the element the library's fold takes first
Pick(s) == CHOOSE x \in s : TRUE

\* The element picked from a set is one of its elements.  Used for the order in
\* which a sum visits accounts or passkeys.
LEMMA PickIn == ASSUME NEW s, s # {} PROVE Pick(s) \in s
  BY DEF Pick

\* h gives the sum of f over every subset of S
IsSum(h, f, S) ==
    h = [s \in SUBSET S |-> IF s = {} THEN 0 ELSE f[Pick(s)] + h[s \ {Pick(s)}]]

\* The library's sum is the value at S of some h that adds f up over the subsets
\* of S: the definition behind every total of balances, rewards or counters.
LEMMA SumIsChosen ==
    ASSUME NEW f, NEW S
    PROVE  SumFunctionOnSet(f, S) = (CHOOSE h : IsSum(h, f, S))[S]
  BY DEF SumFunctionOnSet, FoldFunctionOnSet, MapThenFoldSet, IsSum, Pick

\* There is at most one such h, so a total does not depend on a choice.
LEMMA SumUnique ==
    ASSUME NEW f, NEW S, IsFiniteSet(S), NEW h, NEW k, IsSum(h, f, S), IsSum(k, f, S)
    PROVE  h = k
<1> DEFINE G == {s \in SUBSET S : h[s] = k[s]}
<1>1. ASSUME NEW T \in SUBSET S, \A U \in SUBSET T : U # T => U \in G
      PROVE  T \in G
  <2>1. CASE T = {}
    BY <2>1 DEF IsSum
  <2>2. CASE T # {}
    <3>1. T \ {Pick(T)} \in G
      BY <1>1, <2>2, PickIn
    <3> QED
      BY <2>2, <3>1 DEF IsSum
  <2> QED
    BY <2>1, <2>2
<1>2. SUBSET S \subseteq G
  <2> HIDE DEF G
  <2> QED
  BY <1>1, SubsetInduction
<1> QED
  BY <1>2 DEF IsSum

\* Restricted to the subsets of U, such an h for S is one for U: the total over
\* a part of the accounts is computed the same way as the total over all.
LEMMA SumRestrict ==
    ASSUME NEW f, NEW S, NEW h, IsSum(h, f, S), NEW U \in SUBSET S
    PROVE  IsSum([s \in SUBSET U |-> h[s]], f, U)
<1>1. \A s \in SUBSET U : s \in SUBSET S /\ s \ {Pick(s)} \in SUBSET U
  OBVIOUS
<1> QED
  BY <1>1 DEF IsSum

\* There is such an h for every finite set, so every total over a finite set of
\* accounts, passkeys, epochs or memories is defined.
LEMMA SumExists ==
    ASSUME NEW f, NEW S, IsFiniteSet(S)
    PROVE  \E h : IsSum(h, f, S)
<1> DEFINE G == {T \in SUBSET S : \E h : IsSum(h, f, T)}
           H(U) == CHOOSE h : IsSum(h, f, U)
<1>1. ASSUME NEW T \in SUBSET S, \A U \in SUBSET T : U # T => U \in G
      PROVE  T \in G
  <2> DEFINE g == [s \in SUBSET T |->
                      IF s = {} THEN 0 ELSE f[Pick(s)] + H(s \ {Pick(s)})[s \ {Pick(s)}]]
  <2>1. ASSUME NEW U \in SUBSET T, U # T PROVE IsSum(H(U), f, U)
    <3>1. \E h : IsSum(h, f, U)
      BY <1>1, <2>1
    <3> QED
      BY <3>1
  <2>2. ASSUME NEW r \in SUBSET T, r # T PROVE g[r] = H(r)[r]
    <3>1. IsSum(H(r), f, r)
      BY <2>1, <2>2
    <3>2. CASE r = {}
      BY <3>1, <3>2 DEF IsSum
    <3>3. CASE r # {}
      <4> DEFINE u == r \ {Pick(r)}
      <4>1. u \in SUBSET r /\ u # T
        BY <2>2, <3>3, PickIn
      <4>2. IsSum(H(u), f, u)
        BY <2>1, <4>1
      <4>3. IsSum([s \in SUBSET u |-> H(r)[s]], f, u)
        BY <3>1, <4>1, SumRestrict
      <4>4. IsFiniteSet(u)
        BY <4>1, FS_Subset
      <4>5. H(u) = [s \in SUBSET u |-> H(r)[s]]
        BY <4>2, <4>3, <4>4, SumUnique
      <4>6. H(u)[u] = H(r)[u]
        BY <4>5
      <4>7. H(r)[r] = f[Pick(r)] + H(r)[u]
        BY <3>1, <3>3 DEF IsSum
      <4> QED
        BY <3>3, <4>6, <4>7
    <3> QED
      BY <3>2, <3>3
  <2>3. ASSUME NEW s \in SUBSET T, s # {}
        PROVE  g[s \ {Pick(s)}] = H(s \ {Pick(s)})[s \ {Pick(s)}]
    <3>1. s \ {Pick(s)} \in SUBSET T /\ s \ {Pick(s)} # T
      BY <2>3, PickIn
    <3> QED
      BY <2>2, <3>1
  <2>4. \A s \in SUBSET T :
            g[s] = IF s = {} THEN 0 ELSE f[Pick(s)] + g[s \ {Pick(s)}]
    <3> HIDE DEF H
    <3> QED
      BY <2>3
  <2>5. g = [s \in SUBSET T |-> g[s]]
    <3> HIDE DEF H
    <3> QED
      OBVIOUS
  <2>6. IsSum(g, f, T)
    <3> HIDE DEF g
    <3> QED
      BY <2>4, <2>5 DEF IsSum
  <2> QED
    BY <2>6
<1>2. SUBSET S \subseteq G
  <2> HIDE DEF G
  <2> QED
  BY <1>1, SubsetInduction
<1> QED
  BY <1>2

\* The sum over a nonempty finite set is the value of the picked element plus the
\* sum over the others: the recursion behind every total.
LEMMA SumUnfold ==
    ASSUME NEW f, NEW S, IsFiniteSet(S)
    PROVE  SumFunctionOnSet(f, S) =
               IF S = {} THEN 0
               ELSE f[Pick(S)] + SumFunctionOnSet(f, S \ {Pick(S)})
<1> DEFINE H(U) == CHOOSE h : IsSum(h, f, U)
           u == S \ {Pick(S)}
<1>1. IsFiniteSet(u) /\ u \in SUBSET S
  BY FS_Subset
<1>2. IsSum(H(S), f, S) /\ IsSum(H(u), f, u)
  BY <1>1, SumExists
<1>3. IsSum([s \in SUBSET u |-> H(S)[s]], f, u)
  BY <1>1, <1>2, SumRestrict
<1>4. H(u)[u] = H(S)[u]
  BY <1>1, <1>2, <1>3, SumUnique
<1>5. H(S)[S] = IF S = {} THEN 0 ELSE f[Pick(S)] + H(S)[u]
  BY <1>2 DEF IsSum
<1>6. SumFunctionOnSet(f, S) = H(S)[S] /\ SumFunctionOnSet(f, u) = H(u)[u]
  BY SumIsChosen
<1> QED
  BY <1>4, <1>5, <1>6

----------------------------------------------------------------------------

\* A total over no accounts, passkeys, epochs or memories is zero.
LEMMA SumEmpty == ASSUME NEW f PROVE SumFunctionOnSet(f, {}) = 0
  BY SumUnfold, FS_EmptySet

\* Balances that agree on a set of accounts have the same total over it.
LEMMA SumSame ==
    ASSUME NEW f, NEW g, NEW S, IsFiniteSet(S), \A x \in S : f[x] = g[x]
    PROVE  SumFunctionOnSet(f, S) = SumFunctionOnSet(g, S)
<1> DEFINE G == {T \in SUBSET S : SumFunctionOnSet(f, T) = SumFunctionOnSet(g, T)}
<1>1. ASSUME NEW T \in SUBSET S, \A U \in SUBSET T : U # T => U \in G
      PROVE  T \in G
  <2>1. IsFiniteSet(T)
    BY FS_Subset
  <2>2. CASE T = {}
    BY <2>2, SumEmpty
  <2>3. CASE T # {}
    <3>1. Pick(T) \in T /\ T \ {Pick(T)} \in G
      BY <1>1, <2>3, PickIn
    <3> QED
      BY <2>1, <2>3, <3>1, SumUnfold, SMTT(30)
  <2> QED
    BY <2>2, <2>3
<1>2. SUBSET S \subseteq G
  <2> HIDE DEF G
  <2> QED
    BY <1>1, SubsetInduction
<1> QED
  BY <1>2

\* A total of integers is an integer.
LEMMA SumInt ==
    ASSUME NEW f, NEW S, IsFiniteSet(S), \A x \in S : f[x] \in Int
    PROVE  SumFunctionOnSet(f, S) \in Int
<1> DEFINE G == {T \in SUBSET S : SumFunctionOnSet(f, T) \in Int}
<1>1. ASSUME NEW T \in SUBSET S, \A U \in SUBSET T : U # T => U \in G
      PROVE  T \in G
  <2>1. IsFiniteSet(T)
    BY FS_Subset
  <2>2. CASE T = {}
    BY <2>2, SumEmpty, SMTT(30)
  <2>3. CASE T # {}
    <3>1. Pick(T) \in T /\ T \ {Pick(T)} \in G
      BY <1>1, <2>3, PickIn
    <3> QED
      BY <2>1, <2>3, <3>1, SumUnfold, SMTT(30)
  <2> QED
    BY <2>2, <2>3
<1>2. SUBSET S \subseteq G
  <2> HIDE DEF G
  <2> QED
    BY <1>1, SubsetInduction
<1> QED
  BY <1>2

\* Any element may be taken first: a total is the balance of one account plus the
\* total over the others.
LEMMA SumRemove ==
    ASSUME NEW f, NEW S, IsFiniteSet(S), \A x \in S : f[x] \in Int, NEW y \in S
    PROVE  SumFunctionOnSet(f, S) = f[y] + SumFunctionOnSet(f, S \ {y})
<1> DEFINE Sum(T) == SumFunctionOnSet(f, T)
           G == {T \in SUBSET S : \A x \in T : Sum(T) = f[x] + Sum(T \ {x})}
<1>1. ASSUME NEW T \in SUBSET S, \A U \in SUBSET T : U # T => U \in G
      PROVE  T \in G
  <2>1. IsFiniteSet(T)
    BY FS_Subset
  <2>2. ASSUME NEW x \in T PROVE Sum(T) = f[x] + Sum(T \ {x})
    <3> DEFINE p == Pick(T)
    <3>1. p \in T /\ Sum(T) = f[p] + Sum(T \ {p})
      BY <2>1, SumUnfold, PickIn
    <3>2. CASE x = p
      BY <3>1, <3>2
    <3>3. CASE x # p
      <4> HIDE DEF p
      <4>1. T \ {p} \in G /\ T \ {x} \in G
        BY <1>1, <3>1
      <4>2. Sum(T \ {p}) = f[x] + Sum((T \ {p}) \ {x})
        BY <4>1, <3>3
      <4>3. Sum(T \ {x}) = f[p] + Sum((T \ {x}) \ {p})
        BY <4>1, <3>1, <3>3
      <4>4. (T \ {x}) \ {p} = (T \ {p}) \ {x} /\ IsFiniteSet((T \ {x}) \ {p})
        BY <2>1, FS_Subset
      <4>5. Sum((T \ {x}) \ {p}) \in Int /\ f[x] \in Int /\ f[p] \in Int
        BY <3>1, <4>4, SumInt
      <4>6. Sum(T \ {p}) = f[x] + Sum((T \ {x}) \ {p})
        BY <4>2, <4>4
      <4> QED
        BY <3>1, <4>3, <4>5, <4>6, SMTT(30)
    <3> QED
      BY <3>2, <3>3
  <2> QED
    BY <2>2
<1>2. SUBSET S \subseteq G
  <2> HIDE DEF G
  <2> QED
    BY <1>1, SubsetInduction
<1> QED
  BY <1>2

\* One more account adds its balance to the total.
LEMMA SumAdd ==
    ASSUME NEW f, NEW S, IsFiniteSet(S), NEW y, y \notin S, \A x \in S \cup {y} : f[x] \in Int
    PROVE  SumFunctionOnSet(f, S \cup {y}) = f[y] + SumFunctionOnSet(f, S)
<1>1. IsFiniteSet(S \cup {y}) /\ (S \cup {y}) \ {y} = S
  BY FS_AddElement
<1> QED
  BY <1>1, SumRemove, SMTT(30)

\* A total of natural numbers is a natural number: it never goes below zero.
LEMMA SumNat ==
    ASSUME NEW f, NEW S, IsFiniteSet(S), \A x \in S : f[x] \in Nat
    PROVE  SumFunctionOnSet(f, S) \in Nat
<1> DEFINE G == {T \in SUBSET S : SumFunctionOnSet(f, T) \in Nat}
<1>1. {} \in G
  BY SumEmpty, SMTT(30)
<1>2. ASSUME NEW T \in SUBSET S, NEW x \in S, T \in G, x \notin T
      PROVE  T \cup {x} \in G
  <2>1. IsFiniteSet(T) /\ \A z \in T \cup {x} : f[z] \in Int
    BY FS_Subset, SMTT(30)
  <2>2. SumFunctionOnSet(f, T \cup {x}) = f[x] + SumFunctionOnSet(f, T)
    BY <1>2, <2>1, SumAdd
  <2> QED
    BY <1>2, <2>2, SMTT(30)
<1>3. S \in G
  <2> HIDE DEF G
  <2> QED
    BY <1>1, <1>2, SetInduction
<1> QED
  BY <1>3

\* Crediting an amount to each account adds the sum of the amounts to the total.
LEMMA SumPlus ==
    ASSUME NEW f, NEW g, NEW h, NEW S, IsFiniteSet(S),
           \A x \in S : f[x] \in Int /\ g[x] \in Int /\ h[x] = f[x] + g[x]
    PROVE  SumFunctionOnSet(h, S) = SumFunctionOnSet(f, S) + SumFunctionOnSet(g, S)
<1> DEFINE G == {T \in SUBSET S : SumFunctionOnSet(h, T) =
                                      SumFunctionOnSet(f, T) + SumFunctionOnSet(g, T)}
<1>1. {} \in G
  BY SumEmpty, SMTT(30)
<1>2. ASSUME NEW T \in SUBSET S, NEW x \in S, T \in G, x \notin T
      PROVE  T \cup {x} \in G
  <2>1. /\ IsFiniteSet(T)
        /\ \A z \in T \cup {x} : f[z] \in Int /\ g[z] \in Int /\ h[z] \in Int
    BY FS_Subset, SMTT(30)
  <2>2. /\ SumFunctionOnSet(f, T \cup {x}) = f[x] + SumFunctionOnSet(f, T)
        /\ SumFunctionOnSet(g, T \cup {x}) = g[x] + SumFunctionOnSet(g, T)
        /\ SumFunctionOnSet(h, T \cup {x}) = h[x] + SumFunctionOnSet(h, T)
    BY <1>2, <2>1, SumAdd
  <2>3. SumFunctionOnSet(f, T) \in Int /\ SumFunctionOnSet(g, T) \in Int
    BY <2>1, SumInt
  <2> QED
    BY <1>2, <2>2, <2>3, SMTT(30)
<1>3. S \in G
  <2> HIDE DEF G
  <2> QED
    BY <1>1, <1>2, SetInduction
<1> QED
  BY <1>3

\* Changing one balance changes the total by the difference.
LEMMA SumChange ==
    ASSUME NEW f, NEW g, NEW S, IsFiniteSet(S), NEW y \in S,
           \A x \in S : f[x] \in Int,
           g[y] \in Int,
           \A x \in S : x # y => g[x] = f[x]
    PROVE  SumFunctionOnSet(g, S) = SumFunctionOnSet(f, S) + (g[y] - f[y])
<1>1. IsFiniteSet(S \ {y}) /\ \A x \in S : g[x] \in Int
  BY FS_RemoveElement
<1>2. SumFunctionOnSet(g, S \ {y}) = SumFunctionOnSet(f, S \ {y})
  BY <1>1, SumSame, SMTT(30)
<1>3. SumFunctionOnSet(f, S \ {y}) \in Int
  BY <1>1, SumInt
<1>4. /\ SumFunctionOnSet(g, S) = g[y] + SumFunctionOnSet(g, S \ {y})
      /\ SumFunctionOnSet(f, S) = f[y] + SumFunctionOnSet(f, S \ {y})
  BY <1>1, SumRemove, SMTT(30)
<1> QED
  BY <1>2, <1>3, <1>4, SMTT(30)

\* A total of zeros is zero.
LEMMA SumZero ==
    ASSUME NEW f, NEW S, IsFiniteSet(S), \A x \in S : f[x] = 0
    PROVE  SumFunctionOnSet(f, S) = 0
<1> DEFINE G == {T \in SUBSET S : SumFunctionOnSet(f, T) = 0}
<1>1. {} \in G
  BY SumEmpty
<1>2. ASSUME NEW T \in SUBSET S, NEW x \in S, T \in G, x \notin T
      PROVE  T \cup {x} \in G
  <2>1. IsFiniteSet(T) /\ \A z \in T \cup {x} : f[z] = 0
    BY FS_Subset
  <2>2. SumFunctionOnSet(f, T \cup {x}) = f[x] + SumFunctionOnSet(f, T)
    BY <1>2, <2>1, SumAdd, SMTT(30)
  <2> QED
    BY <1>2, <2>2, SMTT(30)
<1>3. S \in G
  <2> HIDE DEF G
  <2> QED
    BY <1>1, <1>2, SetInduction
<1> QED
  BY <1>3

\* Giving c to each winner in W and nothing to the others gives c times the
\* number of winners in total (the split of an emission).
LEMMA SumShares ==
    ASSUME NEW f, NEW S, IsFiniteSet(S), NEW W \in SUBSET S, NEW c \in Nat,
           \A x \in S : f[x] = IF x \in W THEN c ELSE 0
    PROVE  SumFunctionOnSet(f, S) = c * Cardinality(W)
<1> DEFINE G == {T \in SUBSET S : SumFunctionOnSet(f, T) = c * Cardinality(T \cap W)}
<1>1. {} \in G
  <2>1. {} \cap W = {}
    OBVIOUS
  <2> QED
    BY <2>1, SumEmpty, FS_EmptySet, SMTT(30)
<1>2. ASSUME NEW T \in SUBSET S, NEW x \in S, T \in G, x \notin T
      PROVE  T \cup {x} \in G
  <2>1. IsFiniteSet(T) /\ IsFiniteSet(T \cap W) /\ \A z \in T \cup {x} : f[z] \in Int
    BY FS_Subset, SMTT(30)
  <2>2. SumFunctionOnSet(f, T \cup {x}) = f[x] + SumFunctionOnSet(f, T)
    BY <1>2, <2>1, SumAdd
  <2>3. Cardinality(T \cap W) \in Nat
    BY <2>1, FS_CardinalityType
  <2>4. CASE x \in W
    <3>1. (T \cup {x}) \cap W = (T \cap W) \cup {x} /\ x \notin T \cap W
      BY <1>2, <2>4
    <3>2. Cardinality((T \cup {x}) \cap W) = Cardinality(T \cap W) + 1
      BY <2>1, <3>1, FS_AddElement
    <3>3. c * (Cardinality(T \cap W) + 1) = c * Cardinality(T \cap W) + c
      BY <2>3, SMTT(30)
    <3> QED
      BY <1>2, <2>2, <2>3, <2>4, <3>2, <3>3, SMTT(30)
  <2>5. CASE x \notin W
    <3>1. (T \cup {x}) \cap W = T \cap W
      BY <2>5
    <3>2. SumFunctionOnSet(f, T) \in Int /\ f[x] = 0
      BY <2>1, <2>5, SumInt
    <3>3. SumFunctionOnSet(f, T \cup {x}) = SumFunctionOnSet(f, T)
      BY <2>2, <3>2, SMTT(30)
    <3>4. SumFunctionOnSet(f, T) = c * Cardinality(T \cap W)
      BY <1>2
    <3> QED
      BY <3>1, <3>3, <3>4
  <2> QED
    BY <2>4, <2>5
<1>3. S \in G
  <2> HIDE DEF G
  <2> QED
    BY <1>1, <1>2, SetInduction
<1>4. S \cap W = W
  OBVIOUS
<1> QED
  BY <1>3, <1>4

\* No single balance exceeds the total, so a claim of one balance can be paid
\* from coins that cover the total.
LEMMA SumMember ==
    ASSUME NEW f, NEW S, IsFiniteSet(S), \A x \in S : f[x] \in Nat, NEW y \in S
    PROVE  f[y] <= SumFunctionOnSet(f, S)
<1>1. IsFiniteSet(S \ {y}) /\ \A x \in S : f[x] \in Int
  BY FS_RemoveElement, SMTT(30)
<1>2. SumFunctionOnSet(f, S) = f[y] + SumFunctionOnSet(f, S \ {y})
  BY <1>1, SumRemove, SMTT(30)
<1>3. SumFunctionOnSet(f, S \ {y}) \in Nat
  BY <1>1, SumNat
<1> QED
  BY <1>2, <1>3, SMTT(30)
=============================================================================
