---------------------------- MODULE DataLemmas ----------------------------
(***************************************************************************)
(* Lemmas about the data that the components share: sums over the values   *)
(* of a function, and lists from which entries are kept.  An induction is  *)
(* stated over a set G of the values for which the fact has been shown:    *)
(* finite sets are well founded, which the library proves.                 *)
(***************************************************************************)
EXTENDS Lists, FiniteSets, Functions, WellFoundedInduction, FiniteSetTheorems, TLAPS

-----------------------------------------------------------------------------
(* Induction                                                                *)

\* Among sets of members of a finite set, one has no other as its subset.
LEMMA SmallestSubset ==
  ASSUME NEW D, IsFiniteSet(D), NEW T \in SUBSET SUBSET D, T # {}
  PROVE  \E s \in T : \A r \in T : ~ (r \subseteq s /\ r # s)
<1>1. IsWellFoundedOn(StrictSubsetOrdering(D), FiniteSubsetsOf(D))
  BY FS_StrictSubsetOrderingWellFounded
<1>2. T \subseteq FiniteSubsetsOf(D)
  BY FS_FiniteSubsetsOfFinite
<1>3. PICK s \in T : \A r \in T : ~ (<<r, s>> \in StrictSubsetOrdering(D))
  BY <1>1, <1>2, WFMin
<1> QED BY <1>3 DEF StrictSubsetOrdering

\* What holds of {} and goes on holding when a member joins holds of every subset.
LEMMA SetInduction ==
  ASSUME NEW D, IsFiniteSet(D), NEW G \in SUBSET SUBSET D, {} \in G,
         \A s \in SUBSET D, x \in D : s \in G => s \cup {x} \in G
  PROVE  G = SUBSET D
<1> SUFFICES ASSUME (SUBSET D) \ G # {} PROVE FALSE
  OBVIOUS
<1>1. PICK s \in (SUBSET D) \ G : \A r \in (SUBSET D) \ G : ~ (r \subseteq s /\ r # s)
  <2> DEFINE T == (SUBSET D) \ G
  <2>1. T \in SUBSET SUBSET D /\ T # {}
    OBVIOUS
  <2> HIDE DEF T
  <2>2. \E s \in T : \A r \in T : ~ (r \subseteq s /\ r # s)
    BY <2>1, SmallestSubset
  <2> QED BY <2>2 DEF T
<1>2. PICK x \in D : x \in s
  BY <1>1
<1>3. s \ {x} \in G
  BY <1>1, <1>2
<1>4. (s \ {x}) \cup {x} = s
  BY <1>2
<1> QED BY <1>1, <1>2, <1>3, <1>4

\* A set of numbers with 0 and the successor of each member is all of Nat.
LEMMA NumberInduction ==
  ASSUME NEW G \in SUBSET Nat, 0 \in G, \A n \in G : n + 1 \in G
  PROVE  G = Nat
<1> SUFFICES ASSUME NEW k \in Nat, k \notin G PROVE FALSE
  OBVIOUS
<1> DEFINE T == {s \in SUBSET (0..k) : \E n \in (0..k) \ G : s = 0..n}
<1>1. IsFiniteSet(0..k) /\ T \in SUBSET SUBSET (0..k) /\ 0..k \in T
  BY FS_Interval
<1>2. PICK s \in T : \A r \in T : ~ (r \subseteq s /\ r # s)
  <2> DEFINE D == 0..k
  <2>1. IsFiniteSet(D) /\ T \in SUBSET SUBSET D /\ T # {}
    BY <1>1
  <2> HIDE DEF T, D
  <2> QED BY <2>1, SmallestSubset
<1>3. PICK n \in (0..k) \ G : s = 0..n
  BY <1>2
<1>4. n # 0 /\ n - 1 \in (0..k) \ G
  BY <1>3
<1>5. 0..(n - 1) \in T
  BY <1>4
<1>6. 0..(n - 1) \subseteq 0..n /\ n \notin 0..(n - 1) /\ n \in 0..n
  BY <1>3, <1>4
<1> QED BY <1>2, <1>3, <1>5, <1>6

\* A set of numbers that has a member has a smallest one.
LEMMA SmallestNumber ==
  ASSUME NEW I \in SUBSET Nat, I # {}
  PROVE  \E m \in I : \A k \in I : m <= k
<1> SUFFICES ASSUME \A m \in I : \E k \in I : k < m PROVE FALSE
  OBVIOUS
<1> DEFINE G == {n \in Nat : \A k \in I : n <= k}
<1>1. G = Nat
  <2>1. G \in SUBSET Nat /\ 0 \in G
    OBVIOUS
  <2>2. \A n \in G : n + 1 \in G
    OBVIOUS
  <2> HIDE DEF G
  <2> QED BY <2>1, <2>2, NumberInduction
<1>2. PICK k \in I : TRUE
  OBVIOUS
<1>3. k + 1 \in G
  BY <1>1
<1> QED BY <1>3

-----------------------------------------------------------------------------
(* Counting                                                                 *)

\* Two parts of a finite set that differ in one member at most.
LEMMA CountChange ==
  ASSUME NEW S, IsFiniteSet(S), NEW P \in SUBSET S, NEW Q \in SUBSET S, NEW s,
         P \ {s} = Q \ {s}
  PROVE  /\ Cardinality(P) \in Nat /\ Cardinality(Q) \in Nat
         /\ Cardinality(Q) + (IF s \in P THEN 1 ELSE 0)
              = Cardinality(P) + (IF s \in Q THEN 1 ELSE 0)
<1>1. IsFiniteSet(P) /\ IsFiniteSet(Q)
  BY FS_Subset
<1>2. Cardinality(P) \in Nat /\ Cardinality(Q) \in Nat
  BY <1>1, FS_CardinalityType
<1>3. PICK n : n = Cardinality(P \ {s})
  OBVIOUS
<1>4. n = IF s \in P THEN Cardinality(P) - 1 ELSE Cardinality(P)
  BY <1>1, <1>3, FS_RemoveElement
<1>5. n = Cardinality(Q \ {s})
  BY <1>3
<1>6. n = IF s \in Q THEN Cardinality(Q) - 1 ELSE Cardinality(Q)
  BY <1>1, <1>5, FS_RemoveElement
<1> QED BY <1>2, <1>4, <1>6

-----------------------------------------------------------------------------
(* Sums                                                                     *)

\* g gives the sums of f over the subsets of D.
IsSum(g, f, D) ==
  /\ g \in [SUBSET D -> Int]
  /\ g[{}] = 0
  /\ \A s \in SUBSET D : \A x \in s : g[s] = f[x] + g[s \ {x}]

\* Sums over the subsets of a finite set exist.
LEMMA SumsExist ==
  ASSUME NEW D, IsFiniteSet(D), NEW f, \A x \in D : f[x] \in Int
  PROVE  \E g : IsSum(g, f, D)
<1> DEFINE G == {s \in SUBSET D : \E g : IsSum(g, f, s)}
<1>1. {} \in G
  <2>1. IsSum([s \in SUBSET {} |-> 0], f, {})
    BY DEF IsSum
  <2> QED BY <2>1
<1>2. ASSUME NEW s \in SUBSET D, NEW x \in D, s \in G PROVE s \cup {x} \in G
  <2>1. CASE x \in s
    <3>1. s \cup {x} = s
      BY <2>1
    <3> QED BY <3>1, <1>2
  <2>2. CASE x \notin s
    <3>1. PICK g : IsSum(g, f, s)
      BY <1>2
    <3> DEFINE t == s \cup {x}
               h == [r \in SUBSET t |-> IF x \in r THEN f[x] + g[r \ {x}] ELSE g[r]]
    <3>2. h \in [SUBSET t -> Int]
      <4> SUFFICES ASSUME NEW r \in SUBSET t
                   PROVE  (IF x \in r THEN f[x] + g[r \ {x}] ELSE g[r]) \in Int
        OBVIOUS
      <4>1. f[x] \in Int /\ r \ {x} \in SUBSET s /\ (x \notin r => r \in SUBSET s)
        OBVIOUS
      <4> QED BY <4>1, <3>1 DEF IsSum
    <3>3. h[{}] = 0
      BY <3>1 DEF IsSum
    <3>4. ASSUME NEW r \in SUBSET t, NEW y \in r PROVE h[r] = f[y] + h[r \ {y}]
      <4>1. CASE y = x
        <5>1. r \ {x} \in SUBSET t /\ x \notin r \ {x}
          OBVIOUS
        <5> QED BY <4>1, <5>1
      <4>2. CASE y # x /\ x \notin r
        <5>1. r \in SUBSET s /\ r \ {y} \in SUBSET t /\ x \notin r \ {y}
          BY <4>2
        <5>2. h[r] = g[r] /\ h[r \ {y}] = g[r \ {y}]
          BY <4>2, <5>1
        <5> QED BY <5>1, <5>2, <3>1 DEF IsSum
      <4>3. CASE y # x /\ x \in r
        <5> DEFINE q == r \ {x}
        <5>1. q \in SUBSET s /\ y \in q /\ r \ {y} \in SUBSET t /\ x \in r \ {y}
          BY <4>3
        <5>2. (r \ {y}) \ {x} = q \ {y}
          OBVIOUS
        <5>3. h[r] = f[x] + g[q] /\ h[r \ {y}] = f[x] + g[q \ {y}]
          BY <4>3, <5>1, <5>2
        <5>4. g[q] = f[y] + g[q \ {y}]
          BY <5>1, <3>1 DEF IsSum
        <5>5. f[x] \in Int /\ f[y] \in Int /\ g[q \ {y}] \in Int
          <6>1. y \in D
            BY <5>1
          <6>2. q \ {y} \in SUBSET s
            BY <5>1
          <6> QED BY <6>1, <6>2, <3>1 DEF IsSum
        <5> HIDE DEF q, h
        <5> QED BY <5>3, <5>4, <5>5
      <4> QED BY <4>1, <4>2, <4>3
    <3>5. IsSum(h, f, t)
      <4> HIDE DEF h
      <4> QED BY <3>2, <3>3, <3>4 DEF IsSum
    <3>6. t \in SUBSET D
      OBVIOUS
    <3> HIDE DEF h
    <3> QED BY <3>5, <3>6
  <2> QED BY <2>1, <2>2
<1>3. G = SUBSET D
  <2>1. G \in SUBSET SUBSET D
    OBVIOUS
  <2> HIDE DEF G
  <2> QED BY <1>1, <1>2, <2>1, SetInduction
<1>4. D \in G
  BY <1>3
<1> QED BY <1>4

\* The library's fold over the set follows the sums, whichever element it
\* picks at each step.
LEMMA FoldIsSum ==
  ASSUME NEW D, IsFiniteSet(D), NEW f, NEW g, IsSum(g, f, D)
  PROVE  SumFunctionOnSet(f, D) = g[D]
<1> DEFINE Pick(s) == CHOOSE x \in s : TRUE
           Step(s, h) == IF s = {} THEN 0 ELSE f[Pick(s)] + h[s \ {Pick(s)}]
           Fold == CHOOSE h : h = [s \in SUBSET D |-> Step(s, h)]
<1>1. SumFunctionOnSet(f, D) = Fold[D]
  BY DEF SumFunctionOnSet, FoldFunctionOnSet, MapThenFoldSet
<1>2. \A s : s # {} => Pick(s) \in s
  OBVIOUS
<1> HIDE DEF Pick
<1>3. \A s \in SUBSET D : g[s] = Step(s, g)
  BY <1>2 DEF IsSum
<1>4. g = [s \in SUBSET D |-> Step(s, g)]
  <2>1. g = [s \in SUBSET D |-> g[s]]
    BY DEF IsSum
  <2> QED BY <2>1, <1>3
<1>5. Fold = [s \in SUBSET D |-> Step(s, Fold)]
  BY <1>4
<1> HIDE DEF Fold
<1> DEFINE G == {s \in SUBSET D : Fold[s] = g[s]}
<1>6. G = SUBSET D
  <2> SUFFICES ASSUME (SUBSET D) \ G # {} PROVE FALSE
    OBVIOUS
  <2> DEFINE T == (SUBSET D) \ G
  <2>1. T \in SUBSET SUBSET D /\ T # {}
    OBVIOUS
  <2> HIDE DEF T
  <2>2. PICK s \in T : \A r \in T : ~ (r \subseteq s /\ r # s)
    BY <2>1, SmallestSubset
  <2>3. s \in SUBSET D /\ Fold[s] # g[s]
    BY DEF T
  <2>4. Fold[s] = Step(s, Fold)
    BY <1>5, <2>3
  <2>5. CASE s = {}
    BY <2>3, <2>4, <2>5, <1>3
  <2>6. CASE s # {}
    <3>1. Pick(s) \in s
      BY <2>6, <1>2
    <3>2. s \ {Pick(s)} \in SUBSET D /\ s \ {Pick(s)} \notin T
      BY <2>2, <2>3, <3>1
    <3>3. Fold[s \ {Pick(s)}] = g[s \ {Pick(s)}]
      BY <3>2 DEF T
    <3> QED BY <3>3, <2>3, <2>4, <2>6, <1>3
  <2> QED BY <2>5, <2>6
<1>7. D \in G
  BY <1>6
<1> QED BY <1>1, <1>7

\* The folds over all subsets are sums, each obtained from a smaller one.
LEMMA SumOnSubsets ==
  ASSUME NEW D, IsFiniteSet(D), NEW f, \A x \in D : f[x] \in Int
  PROVE  IsSum([s \in SUBSET D |-> SumFunctionOnSet(f, s)], f, D)
<1>1. PICK g : IsSum(g, f, D)
  BY SumsExist
<1>2. ASSUME NEW s \in SUBSET D PROVE SumFunctionOnSet(f, s) = g[s]
  <2> DEFINE h == [r \in SUBSET s |-> g[r]]
  <2>1. IsSum(h, f, s)
    BY <1>1 DEF IsSum
  <2>2. IsFiniteSet(s)
    BY FS_Subset
  <2>3. h[s] = g[s]
    OBVIOUS
  <2> HIDE DEF h
  <2> QED BY <2>1, <2>2, <2>3, FoldIsSum
<1>3. g = [s \in SUBSET D |-> SumFunctionOnSet(f, s)]
  BY <1>1, <1>2 DEF IsSum
<1> QED BY <1>1, <1>3

-----------------------------------------------------------------------------
(* What the proofs use                                                      *)

\* The empty sum is 0.
LEMMA SumEmpty == \A f : SumFunctionOnSet(f, {}) = 0
<1> SUFFICES ASSUME NEW f PROVE SumFunctionOnSet(f, {}) = 0
  OBVIOUS
<1>1. IsSum([s \in SUBSET {} |-> SumFunctionOnSet(f, s)], f, {})
  BY SumOnSubsets, FS_EmptySet
<1> QED BY <1>1 DEF IsSum

\* A sum of integers is an integer.
LEMMA SumInt ==
  ASSUME NEW D, IsFiniteSet(D), NEW f, \A x \in D : f[x] \in Int
  PROVE  SumFunctionOnSet(f, D) \in Int
<1>1. IsSum([s \in SUBSET D |-> SumFunctionOnSet(f, s)], f, D)
  BY SumOnSubsets
<1> QED BY <1>1 DEF IsSum

\* One summand taken out of a sum.
LEMMA SumRemove ==
  ASSUME NEW D, IsFiniteSet(D), NEW f, \A x \in D : f[x] \in Int, NEW y \in D
  PROVE  SumFunctionOnSet(f, D) = f[y] + SumFunctionOnSet(f, D \ {y})
<1>1. IsSum([s \in SUBSET D |-> SumFunctionOnSet(f, s)], f, D)
  BY SumOnSubsets
<1>2. D \in SUBSET D /\ D \ {y} \in SUBSET D
  OBVIOUS
<1> QED BY <1>1, <1>2 DEF IsSum

\* One summand more.
LEMMA SumAdd ==
  ASSUME NEW D, IsFiniteSet(D), NEW y, y \notin D, NEW f, \A x \in D \cup {y} : f[x] \in Int
  PROVE  SumFunctionOnSet(f, D \cup {y}) = f[y] + SumFunctionOnSet(f, D)
<1>1. IsFiniteSet(D \cup {y}) /\ (D \cup {y}) \ {y} = D
  BY FS_AddElement
<1> DEFINE E == D \cup {y}
<1> HIDE DEF E
<1>2. SumFunctionOnSet(f, E) = f[y] + SumFunctionOnSet(f, E \ {y})
  BY <1>1, SumRemove DEF E
<1> QED BY <1>1, <1>2 DEF E

\* Equal summands, equal sums.
LEMMA SumSame ==
  ASSUME NEW D, IsFiniteSet(D), NEW f, NEW g, \A x \in D : f[x] \in Int /\ g[x] = f[x]
  PROVE  SumFunctionOnSet(f, D) = SumFunctionOnSet(g, D)
<1>1. PICK h : IsSum(h, f, D)
  BY SumsExist
<1>2. IsSum(h, g, D)
  BY <1>1 DEF IsSum
<1> QED BY <1>1, <1>2, FoldIsSum

\* A sum of which one summand changes.
LEMMA SumUpdate ==
  ASSUME NEW D, IsFiniteSet(D), NEW y \in D, NEW f, NEW g,
         \A x \in D : f[x] \in Int /\ g[x] \in Int,
         \A x \in D \ {y} : g[x] = f[x]
  PROVE  SumFunctionOnSet(g, D) = SumFunctionOnSet(f, D) - f[y] + g[y]
<1>1. IsFiniteSet(D \ {y})
  BY FS_RemoveElement
<1>2. SumFunctionOnSet(f, D \ {y}) = SumFunctionOnSet(g, D \ {y}) /\ SumFunctionOnSet(f, D \ {y}) \in Int
  BY <1>1, SumSame, SumInt
<1>3. /\ SumFunctionOnSet(f, D) = f[y] + SumFunctionOnSet(f, D \ {y})
      /\ SumFunctionOnSet(g, D) = g[y] + SumFunctionOnSet(g, D \ {y})
  BY SumRemove
<1> QED BY <1>2, <1>3

\* Smaller summands, a smaller sum.
LEMMA SumLeq ==
  ASSUME NEW D, IsFiniteSet(D), NEW f, NEW g,
         \A x \in D : f[x] \in Int /\ g[x] \in Int /\ f[x] <= g[x]
  PROVE  SumFunctionOnSet(f, D) <= SumFunctionOnSet(g, D)
<1> DEFINE F(s) == SumFunctionOnSet(f, s)
           H(s) == SumFunctionOnSet(g, s)
           G == {s \in SUBSET D : F(s) <= H(s)}
<1>1. {} \in G
  BY SumEmpty
<1>2. ASSUME NEW s \in SUBSET D, NEW x \in D, s \in G PROVE s \cup {x} \in G
  <2>1. CASE x \in s
    <3>1. s \cup {x} = s
      BY <2>1
    <3> QED BY <3>1, <1>2
  <2>2. CASE x \notin s
    <3>1. IsFiniteSet(s)
      BY FS_Subset
    <3>2. F(s \cup {x}) = f[x] + F(s) /\ H(s \cup {x}) = g[x] + H(s) /\ F(s) \in Int /\ H(s) \in Int
      BY <2>2, <3>1, SumAdd, SumInt
    <3>3. F(s) <= H(s) /\ f[x] <= g[x] /\ f[x] \in Int /\ g[x] \in Int
      BY <1>2
    <3> HIDE DEF F, H
    <3> QED BY <3>2, <3>3
  <2> QED BY <2>1, <2>2
<1>3. G = SUBSET D
  <2>1. G \in SUBSET SUBSET D
    OBVIOUS
  <2> HIDE DEF G
  <2> QED BY <1>1, <1>2, <2>1, SetInduction
<1>4. D \in G
  BY <1>3
<1> QED BY <1>4
\* The sum of the sums is the sum of what is added pairwise.
LEMMA SumPlus ==
  ASSUME NEW D, IsFiniteSet(D), NEW f, NEW g, NEW h,
         \A x \in D : f[x] \in Int /\ g[x] \in Int /\ h[x] = f[x] + g[x]
  PROVE  SumFunctionOnSet(h, D) = SumFunctionOnSet(f, D) + SumFunctionOnSet(g, D)
<1>1. PICK a : IsSum(a, f, D)
  BY SumsExist
<1>2. PICK b : IsSum(b, g, D)
  BY SumsExist
<1> DEFINE c == [s \in SUBSET D |-> a[s] + b[s]]
<1>3. IsSum(c, h, D)
  <2>1. c \in [SUBSET D -> Int] /\ c[{}] = 0
    BY <1>1, <1>2 DEF IsSum
  <2>2. ASSUME NEW s \in SUBSET D, NEW x \in s PROVE c[s] = h[x] + c[s \ {x}]
    <3>1. /\ a[s] = f[x] + a[s \ {x}] /\ b[s] = g[x] + b[s \ {x}]
          /\ s \ {x} \in SUBSET D /\ x \in D
      BY <1>1, <1>2 DEF IsSum
    <3>2. /\ a[s \ {x}] \in Int /\ b[s \ {x}] \in Int /\ f[x] \in Int /\ g[x] \in Int
          /\ h[x] = f[x] + g[x]
      BY <1>1, <1>2, <3>1 DEF IsSum
    <3>3. c[s] = a[s] + b[s] /\ c[s \ {x}] = a[s \ {x}] + b[s \ {x}]
      BY <3>1
    <3> HIDE DEF c
    <3> QED BY <3>1, <3>2, <3>3
  <2> HIDE DEF c
  <2> QED BY <2>1, <2>2 DEF IsSum
<1>4. c[D] = a[D] + b[D]
  OBVIOUS
<1> HIDE DEF c
<1> QED BY <1>1, <1>2, <1>3, <1>4, FoldIsSum

\* A sum of zeros.
LEMMA SumZero ==
  ASSUME NEW D, IsFiniteSet(D), NEW f, \A x \in D : f[x] = 0
  PROVE  SumFunctionOnSet(f, D) = 0
<1> DEFINE g == [s \in SUBSET D |-> 0]
<1>1. IsSum(g, f, D)
  <2>1. ASSUME NEW s \in SUBSET D, NEW x \in s PROVE g[s] = f[x] + g[s \ {x}]
    <3>1. s \ {x} \in SUBSET D /\ f[x] = 0
      OBVIOUS
    <3> QED BY <3>1
  <2>2. g \in [SUBSET D -> Int] /\ g[{}] = 0
    OBVIOUS
  <2> HIDE DEF g
  <2> QED BY <2>1, <2>2 DEF IsSum
<1>2. g[D] = 0
  OBVIOUS
<1> HIDE DEF g
<1> QED BY <1>1, <1>2, FoldIsSum

\* The members of S, sorted by their first component, make up S.
LEMMA SumOfShares ==
  ASSUME NEW D, IsFiniteSet(D), NEW S, IsFiniteSet(S), \A s \in S : s[1] \in D
  PROVE  SumFunctionOnSet([x \in D |-> Cardinality({s \in S : s[1] = x})], D) = Cardinality(S)
<1> DEFINE Share(T) == [x \in D |-> Cardinality({s \in T : s[1] = x})]
           G == {T \in SUBSET S : SumFunctionOnSet(Share(T), D) = Cardinality(T)}
<1>1. {} \in G
  <2>1. \A x \in D : Share({})[x] = 0
    BY FS_EmptySet
  <2> HIDE DEF Share
  <2>2. SumFunctionOnSet(Share({}), D) = 0
    BY <2>1, SumZero
  <2> QED BY <2>2, FS_EmptySet
<1>2. ASSUME NEW T \in SUBSET S, NEW t \in S, T \in G PROVE T \cup {t} \in G
  <2>1. CASE t \in T
    <3>1. T \cup {t} = T
      BY <2>1
    <3> QED BY <3>1, <1>2
  <2>2. CASE t \notin T
    <3>1. IsFiniteSet(T) /\ Cardinality(T) \in Nat /\ Cardinality(T \cup {t}) = Cardinality(T) + 1
      BY <2>2, FS_Subset, FS_AddElement, FS_CardinalityType
    <3>2. ASSUME NEW x \in D
          PROVE  Share(T)[x] \in Int /\ Share(T \cup {t})[x] = IF x = t[1] THEN Share(T)[x] + 1 ELSE Share(T)[x]
      <4> DEFINE P == {s \in T : s[1] = x}
      <4>1. IsFiniteSet(P) /\ Cardinality(P) \in Nat /\ t \notin P
        BY <2>2, <3>1, FS_Subset, FS_CardinalityType
      <4>2. CASE x = t[1]
        <5>1. {s \in T \cup {t} : s[1] = x} = P \cup {t}
          BY <4>2
        <5>2. Cardinality(P \cup {t}) = Cardinality(P) + 1
          BY <4>1, FS_AddElement
        <5> HIDE DEF P
        <5>3. Share(T)[x] = Cardinality(P) /\ Share(T \cup {t})[x] = Cardinality(P \cup {t})
          BY <5>1 DEF P
        <5> QED BY <4>1, <4>2, <5>2, <5>3
      <4>3. CASE x # t[1]
        <5>1. {s \in T \cup {t} : s[1] = x} = P
          BY <4>3
        <5>2. Share(T)[x] = Cardinality(P) /\ Share(T \cup {t})[x] = Cardinality(P)
          BY <5>1
        <5> QED BY <4>1, <4>3, <5>2
      <4> QED BY <4>2, <4>3
    <3> HIDE DEF Share
    <3>3. t[1] \in D
      OBVIOUS
    <3> DEFINE f == Share(T)
               g == Share(T \cup {t})
    <3>4. \A x \in D : f[x] \in Int /\ g[x] = IF x = t[1] THEN f[x] + 1 ELSE f[x]
      BY <3>2
    <3> HIDE DEF f, g
    <3>5. /\ \A x \in D : f[x] \in Int /\ g[x] \in Int
          /\ \A x \in D \ {t[1]} : g[x] = f[x]
          /\ g[t[1]] = f[t[1]] + 1
      BY <3>3, <3>4
    <3>6. SumFunctionOnSet(g, D) = SumFunctionOnSet(f, D) - f[t[1]] + g[t[1]]
      <4>1. PICK y \in D : y = t[1]
        BY <3>3
      <4>2. \A x \in D \ {y} : g[x] = f[x]
        BY <3>5, <4>1
      <4>3. SumFunctionOnSet(g, D) = SumFunctionOnSet(f, D) - f[y] + g[y]
        BY <3>5, <4>2, SumUpdate
      <4> QED BY <4>1, <4>3
    <3>7. SumFunctionOnSet(f, D) = Cardinality(T)
      BY <1>2 DEF f
    <3>8. SumFunctionOnSet(g, D) = Cardinality(T) + 1
      BY <3>1, <3>3, <3>5, <3>6, <3>7
    <3> QED BY <3>1, <3>8 DEF g
  <2> QED BY <2>1, <2>2
<1>3. G = SUBSET S
  <2>1. G \in SUBSET SUBSET S
    OBVIOUS
  <2> HIDE DEF G
  <2> QED BY <1>1, <1>2, <2>1, SetInduction
<1>4. S \in G
  BY <1>3
<1> QED BY <1>4

-----------------------------------------------------------------------------
(* Lists from which entries are kept                                        *)

\* f follows the recursion that defines Kept over the first n entries.
KeptStep(f, list, set, i) ==
  IF i = 0 THEN <<>> ELSE IF list[i] \in set THEN Append(f[i - 1], list[i]) ELSE f[i - 1]
KeptRun(f, list, set, n) == \A i \in 0..n : f[i] = KeptStep(f, list, set, i)

\* The recursion that defines Kept has a solution.
LEMMA KeptDefined ==
  ASSUME NEW list, NEW set, NEW n \in Nat
  PROVE  \E f : KeptRun(f, list, set, n)
<1> DEFINE G == {m \in Nat : \E f : KeptRun(f, list, set, m)}
<1>1. 0 \in G
  <2>1. KeptRun([i \in 0..0 |-> <<>>], list, set, 0)
    BY DEF KeptRun, KeptStep
  <2> QED BY <2>1
<1>2. ASSUME NEW m \in G PROVE m + 1 \in G
  <2>1. PICK f : KeptRun(f, list, set, m)
    OBVIOUS
  <2> DEFINE g == [i \in 0..(m + 1) |-> KeptStep(f, list, set, i)]
  <2>2. ASSUME NEW i \in 0..m PROVE g[i] = f[i]
    <3>1. i \in 0..(m + 1)
      OBVIOUS
    <3>2. f[i] = KeptStep(f, list, set, i)
      BY <2>1 DEF KeptRun
    <3> QED BY <3>1, <3>2
  <2>3. ASSUME NEW i \in 0..(m + 1) PROVE g[i] = KeptStep(g, list, set, i)
    <3>1. g[i] = KeptStep(f, list, set, i)
      OBVIOUS
    <3>2. i # 0 => i - 1 \in 0..m
      OBVIOUS
    <3> HIDE DEF g
    <3> QED BY <2>2, <3>1, <3>2 DEF KeptStep
  <2> HIDE DEF g
  <2>4. KeptRun(g, list, set, m + 1)
    BY <2>3 DEF KeptRun
  <2> QED BY <2>4
<1>3. G = Nat
  <2>1. G \in SUBSET Nat
    OBVIOUS
  <2> HIDE DEF G
  <2> QED BY <1>1, <1>2, <2>1, NumberInduction
<1>4. n \in G
  BY <1>3
<1> QED BY <1>4

\* The entries of r are those of the first n entries of the list that are in the
\* set, and h says where they were.
Selects(h, r, list, set, n) ==
  /\ h \in [1..Len(r) -> 1..n]
  /\ \A i, j \in 1..Len(r) : i < j => h[i] < h[j]
  /\ \A i \in 1..Len(r) : r[i] = list[h[i]] /\ r[i] \in set
  /\ \A m \in 1..n : list[m] \in set => \E i \in 1..Len(r) : h[i] = m

\* Kept keeps the entries that are in the set, in their order.
LEMMA KeptSelects ==
  ASSUME NEW S, NEW list \in Seq(S), NEW set
  PROVE  /\ Kept(list, set) \in Seq(S \cap set)
         /\ \E h : Selects(h, Kept(list, set), list, set, Len(list))
<1> DEFINE N == Len(list)
           Step(f, i) == KeptStep(f, list, set, i)
           F == CHOOSE f : f = [i \in 0..N |-> Step(f, i)]
<1>1. Kept(list, set) = F[N]
  BY DEF Kept, KeptStep
<1>2. N \in Nat
  OBVIOUS
<1>3. F = [i \in 0..N |-> Step(F, i)]
  <2> HIDE DEF N
  <2>1. PICK f : KeptRun(f, list, set, N)
    BY <1>2, KeptDefined
  <2> DEFINE g == [i \in 0..N |-> f[i]]
  <2>2. ASSUME NEW i \in 0..N PROVE g[i] = Step(g, i)
    <3>1. g[i] = Step(f, i)
      BY <2>1 DEF KeptRun
    <3>2. i # 0 => g[i - 1] = f[i - 1]
      BY <1>2
    <3> HIDE DEF g
    <3> QED BY <3>1, <3>2 DEF KeptStep
  <2>3. g = [i \in 0..N |-> g[i]]
    OBVIOUS
  <2> HIDE DEF g, Step
  <2>4. g = [i \in 0..N |-> Step(g, i)]
    BY <2>2, <2>3
  <2> QED BY <2>4
<1> HIDE DEF F
<1> DEFINE R == Seq(S \cap set)
           G == {n \in Nat : n <= N => F[n] \in R /\ \E h : Selects(h, F[n], list, set, n)}
<1>4. 0 \in G
  <2>1. F[0] = <<>>
    BY <1>2, <1>3 DEF KeptStep
  <2>2. Selects([i \in 1..0 |-> 0], <<>>, list, set, 0)
    BY DEF Selects
  <2>3. <<>> \in R
    OBVIOUS
  <2> QED BY <2>1, <2>2, <2>3
<1>5. ASSUME NEW n \in G PROVE n + 1 \in G
  <2>1. SUFFICES ASSUME n + 1 <= N
                 PROVE  F[n + 1] \in R /\ \E h : Selects(h, F[n + 1], list, set, n + 1)
    OBVIOUS
  <2>2. n \in Nat /\ n <= N /\ n + 1 \in 0..N /\ n + 1 # 0 /\ (n + 1) - 1 = n
    BY <2>1, <1>2
  <2>3. PICK r, h : r = F[n] /\ r \in R /\ Selects(h, r, list, set, n)
    BY <2>2
  <2>4. F[n + 1] = IF list[n + 1] \in set THEN Append(r, list[n + 1]) ELSE r
    BY <2>2, <2>3, <1>3 DEF KeptStep
  <2>5. list[n + 1] \in S
    BY <2>2
  <2>6. CASE list[n + 1] \notin set
    <3>1. Selects(h, r, list, set, n + 1)
      BY <2>2, <2>3, <2>6 DEF Selects
    <3> QED BY <2>3, <2>4, <2>6, <3>1
  <2>7. CASE list[n + 1] \in set
    <3> DEFINE c == list[n + 1]
               q == Append(r, c)
               k == Len(r)
               g == [i \in 1..(k + 1) |-> IF i = k + 1 THEN n + 1 ELSE h[i]]
    <3>1. q \in R /\ Len(q) = k + 1 /\ k \in Nat /\ q[k + 1] = c /\ \A i \in 1..k : q[i] = r[i]
      BY <2>3, <2>5, <2>7
    <3>2. Selects(g, q, list, set, n + 1)
      <4>1. g \in [1..(k + 1) -> 1..(n + 1)]
        BY <2>2, <2>3, <3>1 DEF Selects
      <4>0. ASSUME NEW i \in 1..k
            PROVE  h[i] \in 1..n /\ h[i] < n + 1 /\ g[i] = h[i] /\ i \in 1..(k + 1)
        <5>1. h \in [1..k -> 1..n]
          BY <2>3 DEF Selects
        <5>2. h[i] \in 1..n
          BY <5>1
        <5>3. i \in 1..(k + 1) /\ i # k + 1
          BY <3>1
        <5> QED BY <5>2, <5>3, <2>2
      <4>5. g[k + 1] = n + 1 /\ \A i \in 1..(k + 1) : i = k + 1 \/ i \in 1..k
        BY <3>1
      <4>2. ASSUME NEW i \in 1..(k + 1), NEW j \in 1..(k + 1), i < j PROVE g[i] < g[j]
        <5>1. i \in 1..k
          BY <4>2, <3>1
        <5>2. CASE j \in 1..k
          <6>1. h[i] < h[j]
            BY <2>3, <4>2, <5>1, <5>2 DEF Selects
          <6> QED BY <4>0, <5>1, <5>2, <6>1
        <5>3. CASE j = k + 1
          <6>1. h[i] < n + 1
            BY <4>0, <5>1
          <6> HIDE DEF g
          <6> QED BY <4>0, <4>5, <5>1, <5>3, <6>1
        <5> QED BY <4>5, <5>2, <5>3
      <4>3. \A i \in 1..(k + 1) : q[i] = list[g[i]] /\ q[i] \in set
        BY <2>2, <2>3, <2>7, <3>1 DEF Selects
      <4>4. \A m \in 1..(n + 1) : list[m] \in set => \E i \in 1..(k + 1) : g[i] = m
        <5> SUFFICES ASSUME NEW m \in 1..(n + 1), list[m] \in set
                     PROVE  \E i \in 1..(k + 1) : g[i] = m
          OBVIOUS
        <5>1. CASE m = n + 1
          <6>1. k + 1 \in 1..(k + 1)
            BY <3>1
          <6> QED BY <4>5, <5>1, <6>1
        <5>2. CASE m \in 1..n
          <6>1. PICK i \in 1..k : h[i] = m
            BY <2>3, <5>2 DEF Selects
          <6> QED BY <4>0, <6>1
        <5> QED BY <5>1, <5>2, <2>2
      <4> HIDE DEF g, q, k, c
      <4> QED BY <3>1, <4>1, <4>2, <4>3, <4>4 DEF Selects
    <3> HIDE DEF g, q
    <3> QED BY <2>4, <2>7, <3>1, <3>2 DEF q
  <2> QED BY <2>6, <2>7
<1>6. G = Nat
  <2>1. G \in SUBSET Nat
    OBVIOUS
  <2> HIDE DEF G
  <2> QED BY <1>4, <1>5, <2>1, NumberInduction
<1>7. N \in G
  BY <1>2, <1>6
<1> QED BY <1>1, <1>2, <1>7
=============================================================================
