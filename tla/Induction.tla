------------------------------ MODULE Induction ------------------------------
(* Induction over the natural numbers, recursion up to one of them, and sums of *)
(* finitely many numbers, stated with sets and functions in place of predicates *)
(* and operators.                                                               *)
EXTENDS Functions, FiniteSetTheorems, NaturalsInduction, TLAPS

\* A set of natural numbers that is not empty has a least element.
LEMMA LeastExists ==
  ASSUME NEW S \in SUBSET Nat, S # {}
  PROVE  \E s \in S : \A t \in S : s <= t
<1> DEFINE R == OpToRel(<, Nat)
<1>1. IsWellFoundedOn(R, Nat)
  BY NatLessThanWellFounded
<1> HIDE DEF R
<1>2. PICK s \in S : \A t \in S : <<t, s>> \notin R
  BY <1>1, WFMin
<1>3. \A t \in S : ~(t < s)
  BY <1>2 DEF R, OpToRel
<1> QED
  BY <1>3

\* A set that contains 0, and with every number below n the next, contains all up
\* to n.
LEMMA UpTo ==
  ASSUME NEW n \in Nat, NEW S, 0 \in S, \A k \in 1 .. n : k - 1 \in S => k \in S
  PROVE  0 .. n \subseteq S
<1> DEFINE out == {k \in 0 .. n : k \notin S}
<1>1. ASSUME out # {} PROVE FALSE
  <2>0. out \in SUBSET Nat
    OBVIOUS
  <2> HIDE DEF out
  <2>1. PICK s \in out : \A t \in out : s <= t
    BY <1>1, <2>0, LeastExists
  <2> USE DEF out
  <2>2. s \in 1 .. n /\ s \notin S
    BY <2>1
  <2>3. s - 1 \in 0 .. n /\ s - 1 \notin out
    BY <2>1, <2>2
  <2> QED
    BY <2>2, <2>3
<1> QED
  BY <1>1

\* f starts with base and goes on with a step for each number up to n.
Recursion(f, n, S, base, step) ==
  f \in [0 .. n -> S] /\ f[0] = base /\ \A k \in 1 .. n : f[k] = step[k][f[k - 1]]

\* There is such a function.
LEMMA RecursionExists ==
  ASSUME NEW n \in Nat, NEW S, NEW base \in S, NEW step \in [1 .. n -> [S -> S]]
  PROVE  \E f : Recursion(f, n, S, base, step)
<1> DEFINE Upto(m) == \E f \in [0 .. m -> S] :
                         f[0] = base /\ \A k \in 1 .. m : f[k] = step[k][f[k - 1]]
           good == {m \in 0 .. n : Upto(m)}
<1>1. 0 \in good
  <2> DEFINE f == [k \in 0 .. 0 |-> base]
  <2>1. f \in [0 .. 0 -> S] /\ f[0] = base /\ 1 .. 0 = {}
    OBVIOUS
  <2> HIDE DEF f
  <2> QED
    BY <2>1
<1>2. ASSUME NEW m \in 1 .. n, m - 1 \in good PROVE m \in good
  <2>1. PICK f \in [0 .. m - 1 -> S] :
          f[0] = base /\ \A k \in 1 .. m - 1 : f[k] = step[k][f[k - 1]]
    BY <1>2
  <2> DEFINE g == [k \in 0 .. m |-> IF k = m THEN step[m][f[m - 1]] ELSE f[k]]
  <2>2. g \in [0 .. m -> S] /\ g[0] = base
    BY <2>1
  <2>3. ASSUME NEW k \in 1 .. m PROVE g[k] = step[k][g[k - 1]]
    BY <2>1
  <2> HIDE DEF g
  <2>4. Upto(m)
    BY <2>2, <2>3
  <2> HIDE DEF Upto
  <2> QED
    BY <2>4
<1> HIDE DEF good
<1>3. \A m \in 1 .. n : m - 1 \in good => m \in good
  BY <1>2
<1>4. 0 .. n \subseteq good
  BY <1>1, <1>3, UpTo
<1> QED
  BY <1>4 DEF good, Recursion

-----------------------------------------------------------------------------
(* Sums                                                                    *)

\* Some element, the same one whenever it is asked for.
Pick(s) == CHOOSE x \in s : TRUE

\* F sums g over the subsets of U, as FoldFunction does.
Summation(F, U, g) ==
  F = [s \in SUBSET U |-> IF s = {} THEN 0 ELSE g[Pick(s)] + F[s \ {Pick(s)}]]

Summed(g) == FoldFunction(+, 0, g)

LEMMA TotalIs ==
  ASSUME NEW U, NEW g, DOMAIN g = U, NEW F, Summation(F, U, g)
  PROVE  \E G : Summation(G, U, g) /\ Summed(g) = G[U]
<1> DEFINE iter[s \in SUBSET U] == IF s = {} THEN 0 ELSE g[Pick(s)] + iter[s \ {Pick(s)}]
<1>1. Summed(g) = iter[U]
  BY DEF Summed, FoldFunction, FoldFunctionOnSet, MapThenFoldSet, Pick
<1>2. F = [s \in SUBSET U |-> IF s = {} THEN 0 ELSE g[Pick(s)] + F[s \ {Pick(s)}]]
  BY DEF Summation
<1>3. iter = [s \in SUBSET U |-> IF s = {} THEN 0 ELSE g[Pick(s)] + iter[s \ {Pick(s)}]]
  BY <1>2 DEF iter
<1> HIDE DEF iter
<1>4. Summation(iter, U, g)
  BY <1>3 DEF Summation
<1> QED
  BY <1>1, <1>4

LEMMA PickIn ==
  ASSUME NEW s, s # {}
  PROVE  Pick(s) \in s
BY DEF Pick

\* An element less in a finite set.
LEMMA OneLess ==
  ASSUME NEW U, IsFiniteSet(U), NEW s \in SUBSET U, NEW x \in s
  PROVE  /\ IsFiniteSet(s) /\ s \ {x} \in SUBSET U
         /\ Cardinality(s) \in Nat \ {0} /\ Cardinality(s \ {x}) = Cardinality(s) - 1
         /\ Cardinality(s) <= Cardinality(U)
<1>1. IsFiniteSet(s) /\ Cardinality(s) <= Cardinality(U)
  BY FS_Subset
<1>2. Cardinality(s \ {x}) = Cardinality(s) - 1 /\ IsFiniteSet(s \ {x})
  BY <1>1, FS_RemoveElement
<1>3. Cardinality(s) \in Nat /\ Cardinality(s \ {x}) \in Nat
  BY <1>1, <1>2, FS_CardinalityType
<1> QED
  BY <1>1, <1>2, <1>3

LEMMA SummationExists ==
  ASSUME NEW U, IsFiniteSet(U), NEW g \in [U -> Nat]
  PROVE  \E F \in [SUBSET U -> Nat] : Summation(F, U, g)
<1> DEFINE S == [SUBSET U -> Nat]
           base == [s \in SUBSET U |-> 0]
           Again(F) == [s \in SUBSET U |-> IF s = {} THEN 0 ELSE g[Pick(s)] + F[s \ {Pick(s)}]]
<1>1. PICK N \in Nat : N = Cardinality(U)
  BY FS_CardinalityType
<1> DEFINE step == [k \in 1 .. N |-> [F \in S |-> Again(F)]]
<1>2. ASSUME NEW F \in S PROVE Again(F) \in S
  <2>1. ASSUME NEW s \in SUBSET U, s # {}
        PROVE  g[Pick(s)] + F[s \ {Pick(s)}] \in Nat
    <3>1. Pick(s) \in U
      BY <2>1, PickIn
    <3>2. s \ {Pick(s)} \in SUBSET U
      OBVIOUS
    <3>3. g[Pick(s)] \in Nat /\ F[s \ {Pick(s)}] \in Nat
      BY <3>1, <3>2
    <3> QED
      BY <3>3
  <2>2. \A s \in SUBSET U : (IF s = {} THEN 0 ELSE g[Pick(s)] + F[s \ {Pick(s)}]) \in Nat
    BY <2>1
  <2> QED
    BY <2>2
<1>3. base \in S
  OBVIOUS
<1>4. ASSUME NEW F, NEW s \in SUBSET U
      PROVE  Again(F)[s] = IF s = {} THEN 0 ELSE g[Pick(s)] + F[s \ {Pick(s)}]
  OBVIOUS
<1>5. \A F : DOMAIN Again(F) = SUBSET U
  OBVIOUS
<1> HIDE DEF Again
<1>6. step \in [1 .. N -> [S -> S]]
  BY <1>2
<1>7. \A k \in 1 .. N, F \in S : step[k][F] = Again(F)
  OBVIOUS
<1>8. base[{}] = 0
  OBVIOUS
<1> HIDE DEF S, base, step
<1>9. PICK f : Recursion(f, N, S, base, step)
  BY <1>3, <1>6, RecursionExists
<1>10. f[0] = base /\ \A k \in 0 .. N : f[k] \in S
  BY <1>9 DEF Recursion
<1>11. ASSUME NEW k \in 1 .. N PROVE f[k] = Again(f[k - 1])
  <2>1. k - 1 \in 0 .. N
    OBVIOUS
  <2> QED
    BY <1>7, <1>9, <1>10, <2>1 DEF Recursion
<1> DEFINE good == {k \in 0 .. N : \A s \in SUBSET U : Cardinality(s) <= k => f[k][s] = Again(f[k])[s]}
<1>12. 0 \in good
  <2>1. ASSUME NEW s \in SUBSET U, Cardinality(s) <= 0 PROVE f[0][s] = Again(f[0])[s]
    <3>1. IsFiniteSet(s) /\ Cardinality(s) \in Nat
      BY FS_Subset, FS_CardinalityType
    <3>2. s = {}
      BY <2>1, <3>1, FS_EmptySet
    <3> QED
      BY <1>4, <1>8, <1>10, <3>2
  <2> QED
    BY <2>1
<1>13. ASSUME NEW k \in 1 .. N, k - 1 \in good PROVE k \in good
  <2>1. ASSUME NEW s \in SUBSET U, Cardinality(s) <= k PROVE f[k][s] = Again(f[k])[s]
    <3>1. CASE s = {}
      BY <1>4, <1>11, <3>1
    <3>2. CASE s # {}
      <4>1. PICK c \in s : c = Pick(s)
        BY <3>2, PickIn
      <4>2. PICK r \in SUBSET U : r = s \ {c}
        OBVIOUS
      <4>3. Cardinality(r) <= k - 1
        BY <2>1, <4>2, OneLess
      <4>4. f[k - 1][r] = Again(f[k - 1])[r]
        BY <1>13, <4>3
      <4>5. f[k - 1][r] = f[k][r]
        BY <1>11, <4>4
      <4>6. Again(f[k - 1])[s] = g[c] + f[k - 1][r] /\ Again(f[k])[s] = g[c] + f[k][r]
        BY <1>4, <3>2, <4>1, <4>2
      <4> QED
        BY <1>11, <4>5, <4>6
    <3> QED
      BY <3>1, <3>2
  <2> QED
    BY <2>1
<1> HIDE DEF good
<1>14. 0 .. N \subseteq good
  BY <1>12, <1>13, UpTo
<1>15. PICK F \in S : F = f[N]
  BY <1>10
<1>16. ASSUME NEW s \in SUBSET U PROVE F[s] = Again(F)[s]
  <2>1. Cardinality(s) <= N
    BY <1>1, FS_Subset
  <2> QED
    BY <1>14, <1>15, <2>1 DEF good
<1>17. F = Again(F)
  <2>1. F = [s \in SUBSET U |-> F[s]]
    BY DEF S
  <2>2. Again(F) = [s \in SUBSET U |-> Again(F)[s]]
    BY DEF Again
  <2> QED
    BY <1>16, <2>1, <2>2
<1> QED
  BY <1>17 DEF S, Again, Summation

\* What a sum is.
LEMMA SummationAt ==
  ASSUME NEW F, NEW U, NEW g, Summation(F, U, g), NEW s \in SUBSET U
  PROVE  F[s] = IF s = {} THEN 0 ELSE g[Pick(s)] + F[s \ {Pick(s)}]
BY DEF Summation

\* It depends on the summands alone.
LEMMA SummationUnique ==
  ASSUME NEW U, NEW V, NEW g, NEW h, NEW F, NEW G, IsFiniteSet(U),
         Summation(F, U, g), Summation(G, V, h),
         NEW s \in SUBSET U, s \in SUBSET V, \A x \in s : g[x] = h[x]
  PROVE  F[s] = G[s]
<1>1. IsFiniteSet(s)
  BY FS_Subset
<1>2. PICK N \in Nat : N = Cardinality(s)
  BY <1>1, FS_CardinalityType
<1> DEFINE good == {k \in 0 .. N : \A r \in SUBSET s : Cardinality(r) = k => F[r] = G[r]}
<1>3. 0 \in good
  <2>1. ASSUME NEW r \in SUBSET s, Cardinality(r) = 0 PROVE F[r] = G[r]
    <3>1. r = {}
      BY <1>1, <2>1, FS_Subset, FS_EmptySet
    <3> QED
      BY <3>1, SummationAt
  <2> QED
    BY <2>1
<1>4. ASSUME NEW k \in 1 .. N, k - 1 \in good PROVE k \in good
  <2>1. ASSUME NEW r \in SUBSET s, Cardinality(r) = k PROVE F[r] = G[r]
    <3>1. r # {}
      BY <2>1, FS_EmptySet
    <3>2. PICK c \in r : c = Pick(r)
      BY <3>1, PickIn
    <3>3. PICK q \in SUBSET s : q = r \ {c}
      OBVIOUS
    <3>4. Cardinality(q) = k - 1
      BY <1>1, <2>1, <3>3, OneLess
    <3>5. F[q] = G[q]
      BY <1>4, <3>4
    <3>6. F[r] = g[c] + F[q] /\ G[r] = h[c] + G[q]
      <4>1. r \in SUBSET U /\ r \in SUBSET V
        OBVIOUS
      <4>2. F[r] = IF r = {} THEN 0 ELSE g[Pick(r)] + F[r \ {Pick(r)}]
        BY <4>1 DEF Summation
      <4>3. G[r] = IF r = {} THEN 0 ELSE h[Pick(r)] + G[r \ {Pick(r)}]
        BY <4>1 DEF Summation
      <4> QED
        BY <3>1, <3>2, <3>3, <4>2, <4>3
    <3> QED
      BY <3>5, <3>6
  <2> QED
    BY <2>1
<1> HIDE DEF good
<1>5. 0 .. N \subseteq good
  BY <1>3, <1>4, UpTo
<1> QED
  BY <1>2, <1>5 DEF good

\* Any element may be taken first.
LEMMA SummationRemove ==
  ASSUME NEW U, IsFiniteSet(U), NEW g \in [U -> Nat], NEW F \in [SUBSET U -> Nat],
         Summation(F, U, g), NEW s \in SUBSET U, NEW x \in s
  PROVE  F[s] = g[x] + F[s \ {x}]
<1>1. IsFiniteSet(s)
  BY FS_Subset
<1>2. PICK N \in Nat : N = Cardinality(s)
  BY <1>1, FS_CardinalityType
<1> DEFINE good == {k \in 0 .. N : \A r \in SUBSET s, y \in s :
                      (Cardinality(r) = k /\ y \in r) => F[r] = g[y] + F[r \ {y}]}
<1>3. 0 \in good
  <2>1. ASSUME NEW r \in SUBSET s, NEW y \in s, Cardinality(r) = 0, y \in r PROVE FALSE
    <3>1. r = {}
      BY <1>1, <2>1, FS_Subset, FS_EmptySet
    <3> QED
      BY <2>1, <3>1
  <2> QED
    BY <2>1
<1>4. ASSUME NEW k \in 1 .. N, k - 1 \in good PROVE k \in good
  <2>1. ASSUME NEW r \in SUBSET s, NEW y \in s, Cardinality(r) = k, y \in r
        PROVE  F[r] = g[y] + F[r \ {y}]
    <3>1. PICK c \in r : c = Pick(r)
      BY <2>1, PickIn
    <3>2. PICK q \in SUBSET s : q = r \ {c}
      OBVIOUS
    <3>3. r \in SUBSET U /\ q \in SUBSET U /\ Cardinality(q) = k - 1
      BY <1>1, <2>1, <3>2, OneLess
    <3>4. F[r] = g[c] + F[q]
      <4>1. F[r] = IF r = {} THEN 0 ELSE g[Pick(r)] + F[r \ {Pick(r)}]
        BY <3>3, SummationAt
      <4> QED
        BY <2>1, <3>1, <3>2, <4>1
    <3>5. CASE y = c
      BY <3>2, <3>4, <3>5
    <3>6. CASE y # c
      <4>1. PICK p \in SUBSET s : p = r \ {y}
        OBVIOUS
      <4>2. PICK z \in SUBSET s : z = q \ {y} /\ z = p \ {c}
        BY <3>2, <4>1
      <4>3. y \in q /\ c \in p /\ c \in s
        BY <2>1, <3>2, <3>6, <4>1
      <4>4. Cardinality(p) = k - 1
        BY <1>1, <2>1, <4>1, OneLess
      <4>5. F[q] = g[y] + F[z]
        BY <1>4, <3>3, <4>2, <4>3
      <4>6. F[p] = g[c] + F[z]
        BY <1>4, <4>2, <4>3, <4>4
      <4>7. g[c] \in Nat /\ g[y] \in Nat /\ F[z] \in Nat
        BY <4>3
      <4> QED
        BY <3>4, <4>1, <4>5, <4>6, <4>7
    <3> QED
      BY <3>5, <3>6
  <2> QED
    BY <2>1
<1> HIDE DEF good
<1>5. 0 .. N \subseteq good
  BY <1>3, <1>4, UpTo
<1>6. N \in good
  BY <1>5
<1> QED
  BY <1>2, <1>6 DEF good

Adds(F, g, s, x) == F[s] = g[x] + F[s \ {x}]

LEMMA SummationAdds ==
  ASSUME NEW U, IsFiniteSet(U), NEW g \in [U -> Nat], NEW F \in [SUBSET U -> Nat],
         Summation(F, U, g)
  PROVE  \A s \in SUBSET U : \A x \in s : Adds(F, g, s, x)
<1> SUFFICES ASSUME NEW s \in SUBSET U, NEW x \in s PROVE F[s] = g[x] + F[s \ {x}]
  BY DEF Adds
<1>1. IsFiniteSet(U) /\ g \in [U -> Nat] /\ Summation(F, U, g) /\ x \in s
  OBVIOUS
<1> QED
  BY <1>1, SummationRemove

\* The total of a function is a sum over its domain.
LEMMA TotalFacts ==
  ASSUME NEW U, IsFiniteSet(U), NEW g \in [U -> Nat]
  PROVE  \E F \in [SUBSET U -> Nat] : Summation(F, U, g) /\ Summed(g) = F[U]
<1>1. PICK F \in [SUBSET U -> Nat] : Summation(F, U, g)
  BY SummationExists
<1>2. PICK G : Summation(G, U, g) /\ Summed(g) = G[U]
  BY <1>1, TotalIs
<1>3. U \in SUBSET U /\ \A x \in U : g[x] = g[x]
  OBVIOUS
<1>4. G[U] = F[U]
  BY <1>1, <1>2, <1>3, SummationUnique
<1> QED
  BY <1>1, <1>2, <1>4

LEMMA TotalEmpty ==
  ASSUME NEW g, DOMAIN g = {}
  PROVE  Summed(g) = 0
<1>1. PICK U : U = {}
  OBVIOUS
<1>2. IsFiniteSet(U) /\ [x \in U |-> 0] \in [U -> Nat]
  BY <1>1, FS_EmptySet
<1>3. g \in [U -> Nat]
  BY <1>1
<1>4. PICK F \in [SUBSET U -> Nat] : Summation(F, U, g) /\ Summed(g) = F[U]
  BY <1>2, <1>3, TotalFacts
<1>5. U \in SUBSET U
  OBVIOUS
<1>6. F[U] = IF U = {} THEN 0 ELSE g[Pick(U)] + F[U \ {Pick(U)}]
  BY <1>4, <1>5 DEF Summation
<1> QED
  BY <1>1, <1>4, <1>6

\* The total without one of the elements.
LEMMA TotalRemove ==
  ASSUME NEW U, IsFiniteSet(U), NEW g \in [U -> Nat], NEW x \in U,
         NEW h, h = [y \in U \ {x} |-> g[y]]
  PROVE  /\ Summed(g) \in Nat /\ Summed(h) \in Nat
         /\ Summed(g) = g[x] + Summed(h)
<1>1. PICK V : V = U \ {x}
  OBVIOUS
<1>2. IsFiniteSet(V) /\ h \in [V -> Nat] /\ V \in SUBSET U /\ V \in SUBSET V
  BY <1>1, FS_Subset
<1>3. PICK F \in [SUBSET U -> Nat] : Summation(F, U, g) /\ Summed(g) = F[U]
  BY TotalFacts
<1>4. PICK H \in [SUBSET V -> Nat] : Summation(H, V, h) /\ Summed(h) = H[V]
  BY <1>2, TotalFacts
<1>5. \A y \in V : g[y] = h[y]
  BY <1>1
<1>6. F[V] = H[V]
  BY <1>2, <1>3, <1>4, <1>5, SummationUnique
<1>7. PICK s \in SUBSET U : s = U
  OBVIOUS
<1>8. F[s] = g[x] + F[s \ {x}]
  <2>1. IsFiniteSet(U) /\ g \in [U -> Nat] /\ Summation(F, U, g) /\ x \in s
    BY <1>3, <1>7
  <2> QED
    BY <2>1, SummationRemove
<1> QED
  BY <1>1, <1>2, <1>3, <1>4, <1>6, <1>7, <1>8

Leaves(g, U, x, h) == h = [y \in U \ {x} |-> g[y]]
AddsUp(g, x, h) == Summed(g) = g[x] + Summed(h)

LEMMA TotalLess ==
  ASSUME NEW U, IsFiniteSet(U), NEW g \in [U -> Nat], NEW x \in U, NEW h, Leaves(g, U, x, h)
  PROVE  Summed(g) \in Nat /\ Summed(h) \in Nat /\ AddsUp(g, x, h)
BY TotalRemove DEF Leaves, AddsUp

LEMMA TotalNat ==
  ASSUME NEW U, IsFiniteSet(U), NEW g \in [U -> Nat]
  PROVE  Summed(g) \in Nat
<1>1. PICK F \in [SUBSET U -> Nat] : Summation(F, U, g) /\ Summed(g) = F[U]
  BY TotalFacts
<1> QED
  BY <1>1

\* What holds of a sum's terms holds of the sum.
LEMMA Distributes ==
  ASSUME NEW a \in Int, NEW b \in Int, NEW c \in Int, NEW d \in Int, NEW k \in Int,
         NEW x \in Int, NEW y \in Int, NEW z \in Int,
         NEW X \in Int, NEW Y \in Int, NEW Z \in Int,
         0 <= a * x + b * y + c * z + d, 0 <= a * X + b * Y + c * Z + d * (k - 1)
  PROVE  0 <= a * (x + X) + b * (y + Y) + c * (z + Z) + d * k
<1>1. a * (x + X) = a * x + a * X /\ b * (y + Y) = b * y + b * Y /\ c * (z + Z) = c * z + c * Z
  OBVIOUS
<1>2. d * (k - 1) = d * k - d
  OBVIOUS
<1>3. /\ a * x \in Int /\ a * X \in Int /\ b * y \in Int /\ b * Y \in Int
      /\ c * z \in Int /\ c * Z \in Int /\ d * k \in Int
  OBVIOUS
<1> QED
  BY <1>1, <1>2, <1>3

\* a, b and c times what f, g and h have at each element, and d, are not negative, and
\* so are they for the sums.
Weighs(U, f, g, h, a, b, c, d) ==
  \A x \in U : 0 <= a * f[x] + b * g[x] + c * h[x] + d
Outweighs(U, f, g, h, a, b, c, d) ==
  0 <= a * Summed(f) + b * Summed(g) + c * Summed(h) + d * Cardinality(U)

LEMMA SumsWeigh ==
  ASSUME NEW U, IsFiniteSet(U), NEW f \in [U -> Nat], NEW g \in [U -> Nat], NEW h \in [U -> Nat],
         NEW a \in Int, NEW b \in Int, NEW c \in Int, NEW d \in Int,
         Weighs(U, f, g, h, a, b, c, d)
  PROVE  Outweighs(U, f, g, h, a, b, c, d)
<1> SUFFICES 0 <= a * Summed(f) + b * Summed(g) + c * Summed(h) + d * Cardinality(U)
  BY DEF Outweighs
<1>0. \A x \in U : 0 <= a * f[x] + b * g[x] + c * h[x] + d
  BY DEF Weighs
<1>1. PICK F \in [SUBSET U -> Nat] : Summation(F, U, f) /\ Summed(f) = F[U]
  BY TotalFacts
<1>2. PICK G \in [SUBSET U -> Nat] : Summation(G, U, g) /\ Summed(g) = G[U]
  BY TotalFacts
<1>3. PICK H \in [SUBSET U -> Nat] : Summation(H, U, h) /\ Summed(h) = H[U]
  BY TotalFacts
<1>4. PICK N \in Nat : N = Cardinality(U)
  BY FS_CardinalityType
<1> DEFINE good == {k \in 0 .. N : \A s \in SUBSET U : Cardinality(s) = k =>
                      0 <= a * F[s] + b * G[s] + c * H[s] + d * k}
<1>5. 0 \in good
  <2>1. ASSUME NEW s \in SUBSET U, Cardinality(s) = 0
        PROVE  0 <= a * F[s] + b * G[s] + c * H[s] + d * 0
    <3>1. s = {}
      BY <2>1, FS_Subset, FS_EmptySet
    <3>2. F[s] = 0 /\ G[s] = 0 /\ H[s] = 0
      BY <1>1, <1>2, <1>3, <3>1, SummationAt
    <3> QED
      BY <3>2
  <2> QED
    BY <2>1
<1>6. ASSUME NEW k \in 1 .. N, k - 1 \in good PROVE k \in good
  <2>1. ASSUME NEW s \in SUBSET U, Cardinality(s) = k
        PROVE  0 <= a * F[s] + b * G[s] + c * H[s] + d * k
    <3>1. s # {}
      <4>1. k # 0 /\ Cardinality({}) = 0
        BY FS_EmptySet
      <4> QED
        BY <2>1, <4>1
    <3>2. PICK x \in s : TRUE
      BY <3>1
    <3>3. PICK q \in SUBSET U : q = s \ {x}
      OBVIOUS
    <3>4. Cardinality(q) = k - 1
      BY <2>1, <3>3, OneLess
    <3>5. F[s] = f[x] + F[q] /\ G[s] = g[x] + G[q] /\ H[s] = h[x] + H[q]
      <4>1. Adds(F, f, s, x) /\ Adds(G, g, s, x) /\ Adds(H, h, s, x)
        BY <1>1, <1>2, <1>3, SummationAdds
      <4> QED
        BY <3>3, <4>1 DEF Adds
    <3>6. /\ F[q] \in Int /\ G[q] \in Int /\ H[q] \in Int
          /\ f[x] \in Int /\ g[x] \in Int /\ h[x] \in Int
      OBVIOUS
    <3>7. 0 <= a * F[q] + b * G[q] + c * H[q] + d * (k - 1)
      BY <1>6, <3>4
    <3>8. 0 <= a * f[x] + b * g[x] + c * h[x] + d
      BY <1>0
    <3>9. 0 <= a * (f[x] + F[q]) + b * (g[x] + G[q]) + c * (h[x] + H[q]) + d * k
      BY <3>6, <3>7, <3>8, Distributes
    <3> QED
      BY <3>5, <3>9
  <2> QED
    BY <2>1
<1> HIDE DEF good
<1>7. 0 .. N \subseteq good
  BY <1>5, <1>6, UpTo
<1>8. N \in good
  BY <1>7
<1> QED
  BY <1>1, <1>2, <1>3, <1>4, <1>8 DEF good

\* Terms of zero may be left out.
LEMMA SumOfSupport ==
  ASSUME NEW U, IsFiniteSet(U), NEW g \in [U -> Nat], NEW P \in SUBSET U,
         \A x \in U \ P : g[x] = 0, NEW h, h = [x \in P |-> g[x]]
  PROVE  Summed(g) = Summed(h)
<1>1. PICK F \in [SUBSET U -> Nat] : Summation(F, U, g) /\ Summed(g) = F[U]
  BY TotalFacts
<1>2. IsFiniteSet(P) /\ h \in [P -> Nat] /\ P \in SUBSET P
  BY FS_Subset
<1>3. PICK H \in [SUBSET P -> Nat] : Summation(H, P, h) /\ Summed(h) = H[P]
  BY <1>2, TotalFacts
<1>4. F[P] = H[P]
  <2>1. \A x \in P : g[x] = h[x]
    OBVIOUS
  <2> QED
    BY <1>1, <1>2, <1>3, <2>1, SummationUnique
<1>5. PICK N \in Nat : N = Cardinality(U)
  BY FS_CardinalityType
<1> DEFINE good == {k \in 0 .. N : \A s \in SUBSET U : Cardinality(s) = k => F[s] = F[s \cap P]}
<1>6. 0 \in good
  <2>1. ASSUME NEW s \in SUBSET U, Cardinality(s) = 0 PROVE F[s] = F[s \cap P]
    <3>1. s = {}
      BY <2>1, FS_Subset, FS_EmptySet
    <3>2. s \cap P = s
      BY <3>1
    <3> QED
      BY <3>2
  <2> QED
    BY <2>1
<1>7. ASSUME NEW k \in 1 .. N, k - 1 \in good PROVE k \in good
  <2>1. ASSUME NEW s \in SUBSET U, Cardinality(s) = k PROVE F[s] = F[s \cap P]
    <3>1. s # {}
      <4>1. k # 0 /\ Cardinality({}) = 0
        BY FS_EmptySet
      <4> QED
        BY <2>1, <4>1
    <3>2. PICK x \in s : TRUE
      BY <3>1
    <3>3. PICK q \in SUBSET U : q = s \ {x}
      OBVIOUS
    <3>4. Cardinality(q) = k - 1
      BY <2>1, <3>3, OneLess
    <3>5. F[q] = F[q \cap P]
      BY <1>7, <3>4
    <3>6. F[s] = g[x] + F[q]
      <4>1. Adds(F, g, s, x)
        BY <1>1, SummationAdds
      <4> QED
        BY <3>3, <4>1 DEF Adds
    <3>7. PICK r \in SUBSET U : r = s \cap P
      OBVIOUS
    <3>8. CASE x \in P
      <4>1. q \cap P = r \ {x} /\ x \in r
        BY <3>3, <3>7, <3>8
      <4>2. x \in r
        BY <4>1
      <4>3. F[r] = g[x] + F[r \ {x}]
        <5>1. Adds(F, g, r, x)
          BY <1>1, <4>2, SummationAdds
        <5> QED
          BY <5>1 DEF Adds
      <4> QED
        BY <3>5, <3>6, <3>7, <4>1, <4>3
    <3>9. CASE x \notin P
      <4>1. q \cap P = r /\ g[x] = 0
        BY <3>3, <3>7, <3>9
      <4>2. F[q] \in Nat /\ F[s] = 0 + F[q]
        BY <3>6, <4>1
      <4>3. F[s] = F[q]
        BY <4>2
      <4> QED
        BY <3>5, <3>7, <4>1, <4>3
    <3> QED
      BY <3>8, <3>9
  <2> QED
    BY <2>1
<1> HIDE DEF good
<1>8. 0 .. N \subseteq good
  BY <1>6, <1>7, UpTo
<1>9. F[U] = F[U \cap P]
  <2>1. N \in good /\ U \in SUBSET U
    BY <1>8
  <2> QED
    BY <1>5, <2>1 DEF good
<1>10. U \cap P = P
  OBVIOUS
<1> QED
  BY <1>1, <1>3, <1>4, <1>9, <1>10

\* A finite set of natural numbers that is not empty has a greatest element.
LEMMA GreatestExists ==
  ASSUME NEW S \in SUBSET Nat, IsFiniteSet(S), S # {}
  PROVE  \E m \in S : \A t \in S : t <= m
<1>1. PICK N \in Nat : N = Cardinality(S)
  BY FS_CardinalityType
<1> DEFINE Topped(s) == s # {} => \E m \in s : \A t \in s : t <= m
           good == {k \in 0 .. N : \A s \in SUBSET S : Cardinality(s) = k => Topped(s)}
<1>2. 0 \in good
  <2>1. \A s \in SUBSET S : Cardinality(s) = 0 => Topped(s)
    BY FS_Subset, FS_EmptySet
  <2> HIDE DEF Topped
  <2> QED
    BY <2>1
<1>3. ASSUME NEW k \in 1 .. N, k - 1 \in good PROVE k \in good
  <2>1. ASSUME NEW s \in SUBSET S, Cardinality(s) = k PROVE Topped(s)
    <3>1. SUFFICES ASSUME s # {} PROVE \E m \in s : \A t \in s : t <= m
      OBVIOUS
    <3>2. PICK x \in s : TRUE
      BY <3>1
    <3>3. PICK q \in SUBSET S : q = s \ {x}
      OBVIOUS
    <3>4. Cardinality(q) = k - 1
      BY <2>1, <3>3, OneLess
    <3>5. Topped(q)
      BY <1>3, <3>4
    <3>6. CASE q = {}
      BY <3>2, <3>3, <3>6
    <3>7. CASE q # {}
      <4>1. PICK m \in q : \A t \in q : t <= m
        BY <3>5, <3>7
      <4>2. m \in Nat /\ x \in Nat /\ m \in s /\ \A t \in s : t \in q \/ t = x
        BY <3>3
      <4>3. CASE m <= x
        <5>1. \A t \in q : t \in Nat /\ t <= x
          BY <4>1, <4>2, <4>3
        <5> QED
          BY <4>2, <5>1
      <4>4. CASE ~(m <= x)
        BY <4>1, <4>2, <4>4
      <4> QED
        BY <4>3, <4>4
    <3> QED
      BY <3>6, <3>7
  <2> QED
    BY <2>1
<1> HIDE DEF good
<1>4. 0 .. N \subseteq good
  BY <1>2, <1>3, UpTo
<1>5. N \in good
  BY <1>4
<1> QED
  BY <1>1, <1>5 DEF good

\* Of the members of a finite set of numbers, as many are among the first r as there
\* can be.
SmallerIn(S, i) == {j \in S : j < i}
FirstOf(S, r) == [i \in S |-> IF Cardinality(SmallerIn(S, i)) < r THEN 1 ELSE 0]

\* What the greatest member adds.
LEMMA FirstLess ==
  ASSUME NEW s \in SUBSET Nat, IsFiniteSet(s), NEW m \in s, \A t \in s : t <= m,
         NEW r \in Nat, NEW q, q = s \ {m}
  PROVE  Summed(FirstOf(s, r)) =
           (IF Cardinality(q) < r THEN 1 ELSE 0) + Summed(FirstOf(q, r))
<1>1. SmallerIn(s, m) = q
  <2>1. ASSUME NEW t \in s PROVE (t < m) <=> t # m
    <3>1. t \in Nat /\ m \in Nat /\ t <= m
      OBVIOUS
    <3> QED
      BY <3>1
  <2> QED
    BY <2>1 DEF SmallerIn
<1>2. \A i \in q : SmallerIn(s, i) = SmallerIn(q, i)
  <2>1. \A i \in q : i <= m /\ i \in Nat /\ m \in Nat
    OBVIOUS
  <2> QED
    BY <2>1 DEF SmallerIn
<1>3. PICK g : g = FirstOf(s, r)
  OBVIOUS
<1>4. PICK h : h = FirstOf(q, r)
  OBVIOUS
<1>5. g \in [s -> Nat]
  BY <1>3 DEF FirstOf
<1>6. Leaves(g, s, m, h)
  BY <1>2, <1>3, <1>4 DEF FirstOf, Leaves
<1>7. Summed(g) = g[m] + Summed(h)
  <2>1. AddsUp(g, m, h)
    BY <1>5, <1>6, TotalLess
  <2> QED
    BY <2>1 DEF AddsUp
<1>8. g[m] = IF Cardinality(q) < r THEN 1 ELSE 0
  BY <1>1, <1>3 DEF FirstOf
<1> QED
  BY <1>3, <1>4, <1>7, <1>8

LEMMA SumOfFirst ==
  ASSUME NEW S \in SUBSET Nat, IsFiniteSet(S), NEW r \in Nat
  PROVE  Summed(FirstOf(S, r)) = IF r <= Cardinality(S) THEN r ELSE Cardinality(S)
<1>1. PICK N \in Nat : N = Cardinality(S)
  BY FS_CardinalityType
<1> DEFINE good == {k \in 0 .. N : \A s \in SUBSET S : Cardinality(s) = k =>
                      Summed(FirstOf(s, r)) = IF r <= k THEN r ELSE k}
<1>2. 0 \in good
  <2>1. ASSUME NEW s \in SUBSET S, Cardinality(s) = 0 PROVE Summed(FirstOf(s, r)) = 0
    <3>1. s = {}
      BY <2>1, FS_Subset, FS_EmptySet
    <3>2. DOMAIN FirstOf(s, r) = {}
      BY <3>1 DEF FirstOf
    <3> QED
      BY <3>2, TotalEmpty
  <2> QED
    BY <2>1
<1>3. ASSUME NEW k \in 1 .. N, k - 1 \in good PROVE k \in good
  <2>1. ASSUME NEW s \in SUBSET S, Cardinality(s) = k
        PROVE  Summed(FirstOf(s, r)) = IF r <= k THEN r ELSE k
    <3>1. s # {} /\ IsFiniteSet(s) /\ s \in SUBSET Nat
      <4>1. k # 0 /\ Cardinality({}) = 0
        BY FS_EmptySet
      <4>2. IsFiniteSet(s)
        BY FS_Subset
      <4> QED
        BY <2>1, <4>1, <4>2
    <3>2. PICK m \in s : \A t \in s : t <= m
      BY <3>1, GreatestExists
    <3>3. PICK q \in SUBSET S : q = s \ {m}
      OBVIOUS
    <3>4. Cardinality(q) = k - 1
      BY <2>1, <3>3, OneLess
    <3>5. Summed(FirstOf(q, r)) = IF r <= k - 1 THEN r ELSE k - 1
      BY <1>3, <3>4
    <3>6. Summed(FirstOf(s, r)) = (IF k - 1 < r THEN 1 ELSE 0) + Summed(FirstOf(q, r))
      BY <3>1, <3>2, <3>3, <3>4, FirstLess
    <3> QED
      BY <3>5, <3>6
  <2> QED
    BY <2>1
<1> HIDE DEF good
<1>4. 0 .. N \subseteq good
  BY <1>2, <1>3, UpTo
<1>5. N \in good
  BY <1>4
<1> QED
  BY <1>1, <1>5 DEF good
=============================================================================
