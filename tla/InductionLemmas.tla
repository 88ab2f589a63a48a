--------------------------- MODULE InductionLemmas ---------------------------
(***************************************************************************)
(* Induction and recursion for the loops of the code, in a form that takes *)
(* sets and functions and no operators: what holds of a set of numbers, or *)
(* of a function defined along a measure that decreases.                   *)
(***************************************************************************)
EXTENDS Integers, Functions, FiniteSetTheorems, WellFoundedInduction, TLAPS

Less == {ss \in Nat \X Nat : ss[1] < ss[2]}

\* A set of natural numbers has a least element.
LEMMA LeastElement ==
  ASSUME NEW T \in SUBSET Nat, T # {}
  PROVE  \E n \in T : \A m \in T : n <= m
<1>1. IsWellFoundedOn(Less, Nat)
  BY NatLessThanWellFounded, Zenon DEF Less, OpToRel
<1>2. PICK n \in T : \A m \in T : ~ (<<m, n>> \in Less)
  BY <1>1, WFMin
<1>3. ASSUME NEW k \in Nat, NEW m \in Nat, m < k
      PROVE  <<m, k>> \in Less
  <2>1. <<m, k>> \in Nat \X Nat /\ <<m, k>>[1] = m /\ <<m, k>>[2] = k
    OBVIOUS
  <2>2. QED
    BY <1>3, <2>1, Zenon DEF Less
<1>4. \A m \in T : ~ (m < n)
  BY <1>2, <1>3
<1>5. QED
  BY <1>4

\* Induction: T holds every number.
LEMMA SetInduction ==
  ASSUME NEW T \in SUBSET Nat, 0 \in T, \A n \in T : n + 1 \in T
  PROVE  T = Nat
<1> SUFFICES ASSUME Nat \ T # {} PROVE FALSE
  OBVIOUS
<1>1. PICK n \in Nat \ T : \A m \in Nat \ T : n <= m
  BY LeastElement
<1>2. n # 0 /\ n - 1 \in Nat
  BY <1>1
<1>3. n - 1 \in T
  BY <1>1, <1>2
<1>4. QED
  BY <1>1, <1>2, <1>3

\* The values from a on, each obtained from the one before by step.
Iterates(f, a, step) == f[0] = a /\ \A n \in Nat : f[n + 1] = step[f[n]]

\* Recursion over the natural numbers.
LEMMA NatRecursion ==
  ASSUME NEW A, NEW a \in A, NEW step \in [A -> A]
  PROVE  \E f \in [Nat -> A] : Iterates(f, a, step)
<1> DEFINE Upto(n, g) == /\ g \in [0 .. n -> A] /\ g[0] = a
                         /\ \A i \in 0 .. n - 1 : g[i + 1] = step[g[i]]
           T == {n \in Nat : \E g : Upto(n, g)}
<1>1. T = Nat
  <2>1. 0 \in T
    <3>1. Upto(0, [i \in 0 .. 0 |-> a])
      OBVIOUS
    <3>2. QED
      BY <3>1
  <2>2. ASSUME NEW n \in T
        PROVE  n + 1 \in T
    <3>1. PICK g : Upto(n, g)
      OBVIOUS
    <3> DEFINE h == [i \in 0 .. n + 1 |-> IF i = n + 1 THEN step[g[n]]
                                                      ELSE g[i]]
    <3>2. h \in [0 .. n + 1 -> A] /\ h[0] = a
      BY <3>1
    <3>3. ASSUME NEW i \in 0 .. n
          PROVE  h[i + 1] = step[h[i]]
      BY <3>1
    <3>4. n \in Nat /\ 0 .. (n + 1) - 1 = 0 .. n
      OBVIOUS
    <3> HIDE DEF h
    <3>5. Upto(n + 1, h)
      BY <3>2, <3>3, <3>4
    <3>6. QED
      BY <3>4, <3>5
  <2> HIDE DEF T
  <2>3. T \in SUBSET Nat
    BY DEF T
  <2>4. QED
    BY <2>1, <2>2, <2>3, SetInduction
<1>2. ASSUME NEW m \in Nat, NEW n \in Nat, NEW g, NEW h, Upto(m, g), Upto(n, h)
      PROVE  \A i \in Nat : i <= m /\ i <= n => g[i] = h[i]
  <2> DEFINE S == {i \in Nat : i <= m /\ i <= n => g[i] = h[i]}
  <2>1. 0 \in S
    BY <1>2
  <2>2. ASSUME NEW i \in S
        PROVE  i + 1 \in S
    <3> SUFFICES ASSUME i + 1 <= m, i + 1 <= n
                 PROVE  g[i + 1] = h[i + 1]
      OBVIOUS
    <3>1. i \in 0 .. m - 1 /\ i \in 0 .. n - 1 /\ g[i] = h[i]
      OBVIOUS
    <3>2. QED
      BY <1>2, <3>1
  <2> HIDE DEF S
  <2>3. S = Nat
    <3>1. S \in SUBSET Nat
      BY DEF S
    <3>2. QED
      BY <2>1, <2>2, <3>1, SetInduction
  <2>4. QED
    BY <2>3 DEF S
<1> DEFINE G(n) == CHOOSE g : Upto(n, g)
           f == [n \in Nat |-> G(n)[n]]
<1>3. \A n \in Nat : Upto(n, G(n))
  BY <1>1
<1> HIDE DEF G
<1>4. f \in [Nat -> A] /\ f[0] = a
  BY <1>3
<1>5. ASSUME NEW n \in Nat
      PROVE  f[n + 1] = step[f[n]]
  <2>1. Upto(n, G(n)) /\ Upto(n + 1, G(n + 1))
    BY <1>3
  <2>2. G(n + 1)[n] = G(n)[n]
    <3> HIDE DEF Upto
    <3>1. \A i \in Nat : i <= n + 1 /\ i <= n => G(n + 1)[i] = G(n)[i]
      BY <1>2, <2>1
    <3>2. QED
      BY <3>1
  <2>3. QED
    BY <2>1, <2>2
<1>6. QED
  BY <1>4, <1>5 DEF Iterates

\* A function computed on D by way of next, and elsewhere by base.
IsRecursion(f, S, D, next, base, comb) ==
  f = [s \in S |-> IF s \in D THEN comb[<<s, f[next[s]]>>] ELSE base[s]]

\* It exists when next decreases a measure M bounded by N: what the loops of the
\* code compute is defined.
LEMMA MeasuredRecursion ==
  ASSUME NEW S, NEW A, NEW a \in A, NEW N \in Nat, NEW M \in [S -> 0 .. N],
         NEW D \in SUBSET S, NEW next \in [D -> S],
         NEW base \in [S -> A], NEW comb \in [D \X A -> A],
         \A s \in D : M[next[s]] < M[s]
  PROVE  \E f \in [S -> A] : IsRecursion(f, S, D, next, base, comb)
<1> DEFINE Unfold(h) == [s \in S |-> IF s \in D THEN comb[<<s, h[next[s]]>>]
                                               ELSE base[s]]
           step == [h \in [S -> A] |-> Unfold(h)]
           start == [s \in S |-> a]
<1>1. ASSUME NEW h \in [S -> A]
      PROVE  Unfold(h) \in [S -> A]
  <2>1. ASSUME NEW s \in D
        PROVE  comb[<<s, h[next[s]]>>] \in A
    BY <2>1
  <2>2. QED
    BY <2>1
<1>2. step \in [[S -> A] -> [S -> A]] /\ start \in [S -> A]
  BY <1>1
<1> HIDE DEF step, start
<1>3. PICK F \in [Nat -> [S -> A]] : Iterates(F, start, step)
  BY <1>2, NatRecursion
<1>4. ASSUME NEW n \in Nat
      PROVE  F[n] \in [S -> A] /\ F[n + 1] = Unfold(F[n])
  BY <1>3 DEF step, Iterates
<1> HIDE DEF Unfold
<1>5. ASSUME NEW g, NEW h, NEW s \in S, s \in D => g[next[s]] = h[next[s]]
      PROVE  Unfold(g)[s] = Unfold(h)[s]
  BY <1>5 DEF Unfold
<1> DEFINE T == {n \in Nat : \A s \in S : M[s] < n => F[n + 1][s] = F[n][s]}
<1>6. T = Nat
  <2>1. 0 \in T
    OBVIOUS
  <2>2. ASSUME NEW n \in T
        PROVE  n + 1 \in T
    <3> SUFFICES ASSUME NEW s \in S, M[s] < n + 1
                 PROVE  F[(n + 1) + 1][s] = F[n + 1][s]
      OBVIOUS
    <3>1. n \in Nat /\ n + 1 \in Nat
      OBVIOUS
    <3>2. ASSUME s \in D
          PROVE  F[n + 1][next[s]] = F[n][next[s]]
      <4>1. next[s] \in S /\ M[next[s]] < M[s] /\ M[next[s]] \in Nat
            /\ M[s] \in Nat
        BY <3>2
      <4>2. M[next[s]] < n
        BY <3>1, <4>1
      <4>3. QED
        BY <4>1, <4>2
    <3>3. Unfold(F[n + 1])[s] = Unfold(F[n])[s]
      BY <1>5, <3>2
    <3>4. QED
      BY <1>4, <3>1, <3>3
  <2> HIDE DEF T
  <2>3. T \in SUBSET Nat
    BY DEF T
  <2>4. QED
    BY <2>1, <2>2, <2>3, SetInduction
<1>7. N + 1 \in Nat /\ \A s \in S : M[s] < N + 1
  OBVIOUS
<1>8. F[(N + 1) + 1] = F[N + 1]
  <2>1. \A s \in S : F[(N + 1) + 1][s] = F[N + 1][s]
    BY <1>6, <1>7
  <2>2. F[(N + 1) + 1] \in [S -> A] /\ F[N + 1] \in [S -> A]
    BY <1>4, <1>7
  <2>3. QED
    BY <2>1, <2>2
<1>9. F[N + 1] = Unfold(F[N + 1]) /\ F[N + 1] \in [S -> A]
  BY <1>4, <1>7, <1>8
<1>10. QED
  BY <1>9 DEF Unfold, IsRecursion

-----------------------------------------------------------------------------
(* Sums over finite sets, as SumFunctionOnSet of Functions.tla computes them: *)
(* one chosen element after the other.                                        *)

Pick(s) == CHOOSE x \in s : TRUE

IsSum(it, f, S) ==
  it = [s \in SUBSET S |-> IF s = {} THEN 0
                           ELSE f[Pick(s)] + it[s \ {Pick(s)}]]

\* How the sum over a part is computed, element by element.
LEMMA SumPart ==
  ASSUME NEW S, IsFiniteSet(S), NEW s \in SUBSET S
  PROVE  /\ IsFiniteSet(s) /\ Cardinality(s) \in 0 .. Cardinality(S)
         /\ Cardinality(s) = 0 <=> s = {}
         /\ s # {} => Pick(s) \in s
         /\ \A x \in s : /\ s \ {x} \in SUBSET S
                         /\ Cardinality(s \ {x}) = Cardinality(s) - 1
<1>1. IsFiniteSet(s) /\ Cardinality(s) <= Cardinality(S)
  BY FS_Subset
<1>2. Cardinality(s) \in Nat /\ Cardinality(S) \in Nat
  BY <1>1, FS_CardinalityType
<1>3. Cardinality(s) = 0 <=> s = {}
  BY <1>1, FS_EmptySet
<1>4. \A x \in s : Cardinality(s \ {x}) = Cardinality(s) - 1
  BY <1>1, FS_RemoveElement
<1>5. s # {} => Pick(s) \in s
  BY DEF Pick
<1>6. QED
  BY <1>1, <1>2, <1>3, <1>4, <1>5

LEMMA SumExists ==
  ASSUME NEW S, IsFiniteSet(S), NEW f, \A x \in S : f[x] \in Nat
  PROVE  \E it \in [SUBSET S -> Nat] : IsSum(it, f, S)
<1> DEFINE P == SUBSET S
           N == Cardinality(S)
           M == [s \in P |-> Cardinality(s)]
           D == P \ {{}}
           next == [s \in D |-> s \ {Pick(s)}]
           base == [s \in P |-> 0]
           comb == [p \in D \X Nat |-> f[Pick(p[1])] + p[2]]
<1>1. /\ N \in Nat /\ M \in [P -> 0 .. N] /\ D \in SUBSET P
      /\ next \in [D -> P] /\ base \in [P -> Nat]
      /\ \A s \in D : M[next[s]] < M[s]
  <2>1. N \in Nat
    BY FS_CardinalityType
  <2>2. M \in [P -> 0 .. N]
    BY SumPart
  <2>3. ASSUME NEW s \in D
        PROVE  next[s] \in P /\ M[next[s]] < M[s]
    <3>1. s \in SUBSET S /\ s # {}
      OBVIOUS
    <3>2. /\ Pick(s) \in s /\ s \ {Pick(s)} \in SUBSET S
          /\ Cardinality(s \ {Pick(s)}) = Cardinality(s) - 1
          /\ Cardinality(s) \in Nat
      BY <3>1, <2>1, SumPart
    <3>3. QED
      BY <3>1, <3>2
  <2>4. QED
    BY <2>1, <2>2, <2>3
<1>2. comb \in [D \X Nat -> Nat]
  <2>1. ASSUME NEW p \in D \X Nat
        PROVE  f[Pick(p[1])] + p[2] \in Nat
    <3>1. p[1] \in SUBSET S /\ p[1] # {} /\ p[2] \in Nat
      OBVIOUS
    <3>2. Pick(p[1]) \in S
      BY <3>1, SumPart
    <3>3. QED
      BY <3>1, <3>2
  <2>2. QED
    BY <2>1
<1>3. \A s \in D, n \in Nat : comb[<<s, n>>] = f[Pick(s)] + n
  OBVIOUS
<1>4. \A s \in P : s \notin D <=> s = {}
  OBVIOUS
<1>5. \A s \in D : next[s] = s \ {Pick(s)}
  OBVIOUS
<1>6. \A s \in P : base[s] = 0
  OBVIOUS
<1> HIDE DEF P, N, M, D, next, base, comb
<1>7. 0 \in Nat
  OBVIOUS
<1>8. PICK it \in [P -> Nat] : IsRecursion(it, P, D, next, base, comb)
  BY <1>1, <1>2, <1>7, MeasuredRecursion
<1>9. it = [s \in P |-> IF s = {} THEN 0 ELSE f[Pick(s)] + it[s \ {Pick(s)}]]
  <2>1. ASSUME NEW s \in P
        PROVE  it[s] = IF s = {} THEN 0 ELSE f[Pick(s)] + it[s \ {Pick(s)}]
    <3>1. it[s] = IF s \in D THEN comb[<<s, it[next[s]]>>] ELSE base[s]
      BY <1>8 DEF IsRecursion
    <3>2. CASE s = {}
      BY <1>4, <1>6, <3>1, <3>2
    <3>3. CASE s # {}
      <4>1. s \in D /\ next[s] = s \ {Pick(s)} /\ it[next[s]] \in Nat
        BY <1>1, <1>4, <1>5, <1>8, <3>3
      <4>2. comb[<<s, it[next[s]]>>] = f[Pick(s)] + it[next[s]]
        BY <1>3, <4>1
      <4>3. QED
        BY <3>1, <3>3, <4>1, <4>2
    <3>4. QED
      BY <3>2, <3>3
  <2>2. QED
    BY <1>8, <2>1
<1>10. QED
  BY <1>9 DEF IsSum, P

\* There is no other, and it only depends on the values summed.
LEMMA SumUnique ==
  ASSUME NEW S, IsFiniteSet(S), NEW R, IsFiniteSet(R), NEW f, NEW g,
         NEW it, IsSum(it, f, S), NEW jt, IsSum(jt, g, R),
         NEW Q, Q \subseteq S, Q \subseteq R, \A x \in Q : f[x] = g[x]
  PROVE  it[Q] = jt[Q]
<1> DEFINE T == {n \in Nat : \A s \in SUBSET Q :
                               Cardinality(s) = n => it[s] = jt[s]}
<1>1. ASSUME NEW s \in SUBSET Q
      PROVE  /\ Cardinality(s) \in Nat
             /\ s = {} => it[s] = 0 /\ jt[s] = 0
             /\ s # {} => /\ Pick(s) \in s
                          /\ s \ {Pick(s)} \in SUBSET Q
                          /\ Cardinality(s \ {Pick(s)}) = Cardinality(s) - 1
                          /\ it[s] = f[Pick(s)] + it[s \ {Pick(s)}]
                          /\ jt[s] = g[Pick(s)] + jt[s \ {Pick(s)}]
             /\ Cardinality(s) = 0 <=> s = {}
  <2>1. s \in SUBSET S /\ s \in SUBSET R
    OBVIOUS
  <2>2. it[s] = IF s = {} THEN 0 ELSE f[Pick(s)] + it[s \ {Pick(s)}]
    BY <2>1 DEF IsSum
  <2>3. jt[s] = IF s = {} THEN 0 ELSE g[Pick(s)] + jt[s \ {Pick(s)}]
    BY <2>1 DEF IsSum
  <2>4. Cardinality(s) \in Nat
    BY <2>1, FS_Subset, FS_CardinalityType
  <2>5. QED
    BY <2>1, <2>2, <2>3, <2>4, SumPart
<1>2. 0 \in T
  BY <1>1
<1>3. ASSUME NEW n \in T
      PROVE  n + 1 \in T
  <2> SUFFICES ASSUME NEW s \in SUBSET Q, Cardinality(s) = n + 1
               PROVE  it[s] = jt[s]
    OBVIOUS
  <2>1. s # {}
    <3>1. n \in Nat /\ n + 1 # 0
      OBVIOUS
    <3>2. QED
      BY <1>1, <3>1
  <2>2. it[s \ {Pick(s)}] = jt[s \ {Pick(s)}]
    BY <1>1, <2>1
  <2>3. QED
    BY <1>1, <2>1, <2>2, ZenonT(60)
<1>4. T \in SUBSET Nat
  OBVIOUS
<1> HIDE DEF T
<1>5. T = Nat
  BY <1>2, <1>3, <1>4, SetInduction
<1>6. QED
  BY <1>1, <1>5 DEF T

\* SumFunctionOnSet is such a computation, read at any set that includes the
\* summands.
GivesSums(it, f, S) ==
  /\ it \in [SUBSET S -> Nat] /\ IsSum(it, f, S)
  /\ \A Q \in SUBSET S : SumFunctionOnSet(f, Q) = it[Q]

LEMMA SumIs ==
  ASSUME NEW S, IsFiniteSet(S), NEW f, \A x \in S : f[x] \in Nat
  PROVE  \E it : GivesSums(it, f, S)
<1>1. PICK it \in [SUBSET S -> Nat] : IsSum(it, f, S)
  BY SumExists
<1>2. ASSUME NEW Q \in SUBSET S
      PROVE  SumFunctionOnSet(f, Q) = it[Q]
  <2> DEFINE jt == CHOOSE jt : IsSum(jt, f, Q)
  <2>1. IsFiniteSet(Q) /\ \A x \in Q : f[x] \in Nat
    BY FS_Subset
  <2>2. \E kt : IsSum(kt, f, Q)
    BY <2>1, SumExists
  <2>3. IsSum(jt, f, Q)
    BY <2>2
  <2>4. SumFunctionOnSet(f, Q) = jt[Q]
    BY DEF SumFunctionOnSet, FoldFunctionOnSet, MapThenFoldSet, IsSum, Pick
  <2> HIDE DEF jt
  <2>5. jt[Q] = it[Q]
    BY <1>1, <2>1, <2>3, SumUnique
  <2>6. QED
    BY <2>4, <2>5
<1>3. QED
  BY <1>1, <1>2 DEF GivesSums

LEMMA SumType ==
  ASSUME NEW S, IsFiniteSet(S), NEW f, \A x \in S : f[x] \in Nat
  PROVE  /\ SumFunctionOnSet(f, S) \in Nat
         /\ SumFunctionOnSet(f, {}) = 0
<1>1. PICK it : GivesSums(it, f, S)
  BY SumIs
<1>2. QED
  BY <1>1, ZenonT(60) DEF GivesSums, IsSum

LEMMA SumCongruence ==
  ASSUME NEW S, IsFiniteSet(S), NEW f, NEW g,
         \A x \in S : f[x] \in Nat, \A x \in S : g[x] = f[x]
  PROVE  SumFunctionOnSet(f, S) = SumFunctionOnSet(g, S)
<1>1. PICK it : GivesSums(it, f, S)
  BY SumIs
<1>2. PICK jt : GivesSums(jt, g, S)
  <2>1. \A x \in S : g[x] \in Nat
    OBVIOUS
  <2>2. QED
    BY <2>1, SumIs
<1>3. it[S] = jt[S]
  BY <1>1, <1>2, SumUnique DEF GivesSums
<1>4. QED
  BY <1>1, <1>2, <1>3 DEF GivesSums

\* Any element may be taken first.
LEMMA SumRemove ==
  ASSUME NEW S, IsFiniteSet(S), NEW f, \A x \in S : f[x] \in Nat, NEW x \in S
  PROVE  SumFunctionOnSet(f, S) = f[x] + SumFunctionOnSet(f, S \ {x})
<1>0. PICK it : GivesSums(it, f, S)
  BY SumIs
<1>1. /\ it \in [SUBSET S -> Nat] /\ IsSum(it, f, S)
      /\ \A Q \in SUBSET S : SumFunctionOnSet(f, Q) = it[Q]
  BY <1>0 DEF GivesSums
<1> DEFINE T == {n \in Nat : \A s \in SUBSET S : \A y \in s :
                   Cardinality(s) = n => it[s] = f[y] + it[s \ {y}]}
<1>2. 0 \in T
  BY SumPart
<1>3. ASSUME NEW n \in T
      PROVE  n + 1 \in T
  <2> SUFFICES ASSUME NEW s \in SUBSET S, NEW y \in s, Cardinality(s) = n + 1
               PROVE  it[s] = f[y] + it[s \ {y}]
    OBVIOUS
  <2> DEFINE z == Pick(s)
  <2>1. /\ z \in s /\ s \ {z} \in SUBSET S /\ s \ {y} \in SUBSET S
        /\ Cardinality(s \ {z}) = n /\ Cardinality(s \ {y}) = n
    BY SumPart
  <2>2. it[s] = f[z] + it[s \ {z}]
    BY <1>1, <2>1 DEF IsSum
  <2>3. CASE y = z
    BY <2>2, <2>3
  <2>4. CASE y # z
    <3>1. y \in s \ {z} /\ z \in s \ {y} /\ (s \ {z}) \ {y} = (s \ {y}) \ {z}
      BY <2>1, <2>4
    <3>2. /\ it[s \ {z}] = f[y] + it[(s \ {z}) \ {y}]
          /\ it[s \ {y}] = f[z] + it[(s \ {y}) \ {z}]
      BY <2>1, <3>1
    <3>3. /\ f[y] \in Nat /\ f[z] \in Nat /\ it[(s \ {z}) \ {y}] \in Nat
          /\ it[s \ {z}] \in Nat /\ it[s \ {y}] \in Nat
      BY <1>1, <2>1, <3>1
    <3>4. it[s] = f[z] + (f[y] + it[(s \ {z}) \ {y}])
      BY <2>2, <3>2
    <3>5. it[s \ {y}] = f[z] + it[(s \ {z}) \ {y}]
      BY <3>1, <3>2
    <3>6. QED
      BY <3>3, <3>4, <3>5
  <2>5. QED
    BY <2>3, <2>4
<1>4. T \in SUBSET Nat
  OBVIOUS
<1> HIDE DEF T
<1>5. T = Nat
  BY <1>2, <1>3, <1>4, SetInduction
<1>6. Cardinality(S) \in Nat
  BY FS_CardinalityType
<1>7. it[S] = f[x] + it[S \ {x}]
  BY <1>5, <1>6 DEF T
<1>8. QED
  BY <1>1, <1>7

=============================================================================
