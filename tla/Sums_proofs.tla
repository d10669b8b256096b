----------------------------- MODULE Sums_proofs -----------------------------
(***************************************************************************)
(* Facts about sums that the other proofs cite: what an element more, a    *)
(* larger set, a second set or one more unit do to a sum. The community    *)
(* modules state them of folds, with operators as parameters; here the sum *)
(* is a cardinality, so that they need no induction.                       *)
(***************************************************************************)
EXTENDS Sums, FiniteSetTheorems, FunctionTheorems, TLAPS

\* The units of one element.
LEMMA OwnUnits ==
    ASSUME NEW r, NEW n \in Nat
    PROVE  IsFiniteSet({r} \X (1..n)) /\ Cardinality({r} \X (1..n)) = n
<1>1. IsFiniteSet({r}) /\ Cardinality({r}) = 1
  BY FS_Singleton
<1>2. IsFiniteSet(1..n) /\ Cardinality(1..n) = n
  BY FS_Interval
<1>3. 1 * n = n
  OBVIOUS
<1>4. /\ IsFiniteSet({r} \X (1..n))
      /\ Cardinality({r} \X (1..n)) = Cardinality({r}) * Cardinality(1..n)
  BY <1>1, <1>2, FS_Product, Zenon
<1> QED BY <1>1, <1>2, <1>3, <1>4, Zenon

\* Finitely many elements have finitely many units.
LEMMA UnitsFinite ==
    ASSUME NEW S, IsFiniteSet(S), NEW f, \A r \in S : f[r] \in Nat
    PROVE  IsFiniteSet(Units(f, S)) /\ SumOf(f, S) = Cardinality(Units(f, S)) /\ SumOf(f, S) \in Nat
<1> DEFINE own(r) == {r} \X (1..f[r])
           T == {own(r) : r \in S}
           g == [r \in S |-> own(r)]
<1>1. g \in Surjection(S, T)
  <2> HIDE DEF own
  <2>1. DOMAIN g = S /\ \A r \in S : g[r] = own(r)
    OBVIOUS
  <2>2. \A r \in S : own(r) \in T
    OBVIOUS
  <2>3. \A U \in T : \E r \in S : U = own(r)
    OBVIOUS
  <2>4. g \in [S -> T]
    BY <2>2
  <2>5. \A U \in T : \E r \in S : g[r] = U
    BY <2>1, <2>3
  <2> QED BY <2>4, <2>5 DEF Surjection
<1>2. IsFiniteSet(T)
  BY <1>1, FS_Surjection
<1>3. \A U \in T : IsFiniteSet(U)
  <2>1. \A r \in S : IsFiniteSet(own(r))
    BY OwnUnits
  <2> HIDE DEF own
  <2> QED BY <2>1
<1>4. IsFiniteSet(UNION T)
  BY <1>2, <1>3, FS_UNION
<1> QED BY <1>4, FS_CardinalityType DEF Units, SumOf

\* The empty sum.
LEMMA SumOfNone == ASSUME NEW f PROVE SumOf(f, {}) = 0
<1>1. UNION {{r} \X (1..f[r]) : r \in {}} = {}
  OBVIOUS
<1> QED BY <1>1, FS_EmptySet DEF SumOf, Units

\* More elements have no smaller sum.
LEMMA SumGrows ==
    ASSUME NEW S, NEW T, IsFiniteSet(T), S \subseteq T, NEW f, NEW g,
           \A r \in T : g[r] \in Nat, \A r \in S : f[r] = g[r]
    PROVE  SumOf(f, S) <= SumOf(g, T) /\ SumOf(f, S) \in Nat /\ SumOf(g, T) \in Nat
<1>1. IsFiniteSet(S) /\ \A r \in S : f[r] \in Nat
  BY FS_Subset
<1>2. Units(f, S) \subseteq Units(g, T)
  BY DEF Units
<1>3. /\ IsFiniteSet(Units(f, S)) /\ SumOf(f, S) = Cardinality(Units(f, S)) /\ SumOf(f, S) \in Nat
      /\ IsFiniteSet(Units(g, T)) /\ SumOf(g, T) = Cardinality(Units(g, T)) /\ SumOf(g, T) \in Nat
  BY <1>1, UnitsFinite
<1> QED BY <1>2, <1>3, FS_Subset

\* An element more adds its number.
LEMMA SumAdds ==
    ASSUME NEW S, IsFiniteSet(S), NEW x, x \notin S, NEW T, T = S \cup {x}, NEW f, NEW g,
           \A r \in T : g[r] \in Nat, \A r \in S : f[r] = g[r]
    PROVE  \E a, b \in Nat : a = SumOf(f, S) /\ b = g[x] /\ SumOf(g, T) = a + b
<1> DEFINE own == {x} \X (1..g[x])
<1>1. IsFiniteSet(T)
  BY FS_AddElement
<1>2. /\ IsFiniteSet(Units(f, S)) /\ SumOf(f, S) = Cardinality(Units(f, S)) /\ SumOf(f, S) \in Nat
      /\ SumOf(g, T) = Cardinality(Units(g, T))
  BY <1>1, UnitsFinite
<1>3. IsFiniteSet(own) /\ Cardinality(own) = g[x] /\ g[x] \in Nat
  BY OwnUnits
<1>4. Units(g, T) = Units(f, S) \cup own
  BY DEF Units
<1>5. Units(f, S) \cap own = {}
  BY DEF Units
<1>6. Cardinality({}) = 0
  BY FS_EmptySet
<1> HIDE DEF own
<1>7. Cardinality(Units(f, S) \cup own) = Cardinality(Units(f, S)) + Cardinality(own) - Cardinality({})
  BY <1>2, <1>3, <1>5, FS_Union
<1> DEFINE a == SumOf(f, S)
           b == g[x]
<1>8. SumOf(g, T) = a + b - 0
  BY <1>2, <1>3, <1>4, <1>6, <1>7, Zenon
<1>9. a \in Nat /\ b \in Nat
  BY <1>2, <1>3
<1> HIDE DEF a, b
<1>10. a + b - 0 = a + b
  BY <1>9
<1>11. SumOf(g, T) = a + b
  BY <1>8, <1>10, Zenon
<1> QED BY <1>9, <1>11 DEF a, b

\* Functions that agree on the set have the same sum.
LEMMA SumSame ==
    ASSUME NEW S, NEW f, NEW g, \A x \in S : f[x] = g[x]
    PROVE  SumOf(f, S) = SumOf(g, S)
<1>1. Units(f, S) = Units(g, S)
  BY DEF Units
<1> QED BY <1>1 DEF SumOf

\* Zeros add up to zero.
LEMMA SumOfZeros == ASSUME NEW S, NEW f, \A x \in S : f[x] = 0 PROVE SumOf(f, S) = 0
<1>1. Units(f, S) = {}
  BY DEF Units
<1> QED BY <1>1, FS_EmptySet DEF SumOf

\* A sum of zero has zeros only.
LEMMA SumIsZero ==
    ASSUME NEW S, IsFiniteSet(S), NEW f, \A x \in S : f[x] \in Nat, SumOf(f, S) = 0, NEW x \in S
    PROVE  f[x] = 0
<1>1. IsFiniteSet(Units(f, S)) /\ Cardinality(Units(f, S)) = 0
  BY UnitsFinite DEF SumOf
<1>2. Units(f, S) = {}
  BY <1>1, FS_EmptySet
<1>3. ASSUME NEW u \in 1..f[x] PROVE FALSE
  <2>1. <<x, u>> \in {x} \X (1..f[x])
    OBVIOUS
  <2>2. <<x, u>> \in Units(f, S)
    BY <2>1 DEF Units
  <2> QED BY <1>2, <2>2
<1>4. f[x] \in Nat
  OBVIOUS
<1>5. f[x] # 0 => f[x] \in 1..f[x]
  BY <1>4
<1> QED BY <1>3, <1>5

\* Two sets that have nothing in common.
LEMMA SumJoins ==
    ASSUME NEW S, NEW T, IsFiniteSet(S), IsFiniteSet(T), S \cap T = {},
           NEW U, U = S \cup T, NEW f, \A x \in U : f[x] \in Nat
    PROVE  \E a, b \in Nat : a = SumOf(f, S) /\ b = SumOf(f, T) /\ SumOf(f, U) = a + b
<1>1. /\ IsFiniteSet(Units(f, S)) /\ SumOf(f, S) = Cardinality(Units(f, S)) /\ SumOf(f, S) \in Nat
      /\ IsFiniteSet(Units(f, T)) /\ SumOf(f, T) = Cardinality(Units(f, T)) /\ SumOf(f, T) \in Nat
      /\ SumOf(f, U) = Cardinality(Units(f, U))
  <2>1. /\ IsFiniteSet(Units(f, S)) /\ SumOf(f, S) = Cardinality(Units(f, S)) /\ SumOf(f, S) \in Nat
    BY UnitsFinite
  <2>2. /\ IsFiniteSet(Units(f, T)) /\ SumOf(f, T) = Cardinality(Units(f, T)) /\ SumOf(f, T) \in Nat
    BY UnitsFinite
  <2> QED BY <2>1, <2>2 DEF SumOf
<1>2. Units(f, U) = Units(f, S) \cup Units(f, T)
  BY DEF Units
<1>3. Units(f, S) \cap Units(f, T) = {}
  BY DEF Units
<1>4. Cardinality({}) = 0
  BY FS_EmptySet
<1>5. Cardinality(Units(f, S) \cup Units(f, T))
        = Cardinality(Units(f, S)) + Cardinality(Units(f, T)) - Cardinality({})
  BY <1>1, <1>3, FS_Union
<1> DEFINE a == SumOf(f, S)
           b == SumOf(f, T)
<1>6. SumOf(f, U) = a + b - 0
  BY <1>1, <1>2, <1>4, <1>5, Zenon
<1>7. a \in Nat /\ b \in Nat
  BY <1>1
<1> HIDE DEF a, b
<1>8. a + b - 0 = a + b
  BY <1>7
<1>9. SumOf(f, U) = a + b
  BY <1>6, <1>8, Zenon
<1> QED BY <1>7, <1>9 DEF a, b

\* One number changes from n to m, and the sum from a to b.
Changes(a, b, n, m) == /\ a \in Nat /\ b \in Nat /\ n \in Nat /\ m \in Nat
                       /\ b + n = a + m

\* One element has another number now.
LEMMA SumChanges ==
    ASSUME NEW S, IsFiniteSet(S), NEW x, x \in S, NEW f, NEW g,
           \A y \in S : f[y] \in Nat, g[x] \in Nat, \A y \in S \ {x} : g[y] = f[y]
    PROVE  Changes(SumOf(f, S), SumOf(g, S), f[x], g[x])
<1> DEFINE R == S \ {x}
<1>1. IsFiniteSet(R) /\ x \notin R /\ S = R \cup {x}
  BY FS_Subset
<1>2. \A y \in R : f[y] \in Nat /\ g[y] = f[y]
  OBVIOUS
<1>3. \A y \in S : g[y] \in Nat
  BY <1>2
<1> HIDE DEF R
<1>4. \E p, q \in Nat : p = SumOf(f, R) /\ q = f[x] /\ SumOf(f, S) = p + q
  BY <1>1, SumAdds
<1>5. \E p, q \in Nat : p = SumOf(f, R) /\ q = g[x] /\ SumOf(g, S) = p + q
  BY <1>1, <1>2, <1>3, SumAdds
<1> QED BY <1>4, <1>5 DEF Changes

\* U falls into finite classes that have nothing in common, A[x] for x in S.
Classes(S, A, U) ==
    /\ IsFiniteSet(S) /\ \A x \in S : IsFiniteSet(A[x])
    /\ \A x, y \in S : \A u \in A[x] : u \in A[y] => x = y
    /\ \A u \in U : \E x \in S : u \in A[x]
    /\ \A x \in S : A[x] \subseteq U

\* A number for each class: how many it has.
LEMMA SumOfCounts ==
    ASSUME NEW S, NEW A, NEW U, Classes(S, A, U), NEW f, \A x \in S : f[x] = Cardinality(A[x])
    PROVE  SumOf(f, S) = Cardinality(U) /\ IsFiniteSet(U) /\ SumOf(f, S) \in Nat
<1> USE DEF Classes
<1> DEFINE bij == [x \in S |-> CHOOSE b : b \in Bijection(1..f[x], A[x])]
           all == Units(f, S)
           g == [v \in all |-> bij[v[1]][v[2]]]
<1>1. \A x \in S : f[x] \in Nat /\ ExistsBijection(1..f[x], A[x])
  BY FS_CardinalityType
<1>2. \A x \in S : bij[x] \in Bijection(1..f[x], A[x])
  <2>1. \A x \in S : \E b : b \in Bijection(1..f[x], A[x])
    BY <1>1 DEF ExistsBijection
  <2> QED BY <2>1
<1> HIDE DEF bij
<1>3. \A x \in S : /\ \A i \in 1..f[x] : bij[x][i] \in A[x]
                   /\ \A i, j \in 1..f[x] : bij[x][i] = bij[x][j] => i = j
                   /\ \A u \in A[x] : \E i \in 1..f[x] : bij[x][i] = u
  <2> SUFFICES ASSUME NEW x \in S
               PROVE  /\ \A i \in 1..f[x] : bij[x][i] \in A[x]
                      /\ \A i, j \in 1..f[x] : bij[x][i] = bij[x][j] => i = j
                      /\ \A u \in A[x] : \E i \in 1..f[x] : bij[x][i] = u
    OBVIOUS
  <2> DEFINE b == bij[x]
             I == 1..f[x]
             T == A[x]
  <2>1. b \in Bijection(I, T)
    BY <1>2
  <2> HIDE DEF b, I, T
  <2>2. /\ b \in [I -> T] /\ b \in Surjection(I, T)
        /\ \A i, j \in I : b[i] = b[j] => i = j
    BY <2>1, Fun_BijectionProperties
  <2>3. \A u \in T : \E i \in I : b[i] = u
    BY <2>2 DEF Surjection
  <2>4. \A i \in I : b[i] \in T
    BY <2>2
  <2> QED BY <2>2, <2>3, <2>4 DEF b, I, T
<1>4. \A v \in all : v[1] \in S /\ v[2] \in 1..f[v[1]] /\ v = <<v[1], v[2]>>
  BY DEF Units
<1>5. \A x \in S : \A i \in 1..f[x] : <<x, i>> \in all
  <2> SUFFICES ASSUME NEW x \in S, NEW i \in 1..f[x] PROVE <<x, i>> \in all
    OBVIOUS
  <2>1. <<x, i>> \in {x} \X (1..f[x])
    OBVIOUS
  <2> QED BY <2>1 DEF Units
<1> HIDE DEF all
<1>6. g \in [all -> U]
  <2> SUFFICES ASSUME NEW v \in all PROVE bij[v[1]][v[2]] \in U
    OBVIOUS
  <2>1. v[1] \in S /\ v[2] \in 1..f[v[1]]
    BY <1>4
  <2>2. bij[v[1]][v[2]] \in A[v[1]]
    BY <1>3, <2>1
  <2> QED BY <2>1, <2>2
<1>7. ASSUME NEW v \in all, NEW w \in all, g[v] = g[w] PROVE v = w
  <2>1. /\ v[1] \in S /\ v[2] \in 1..f[v[1]] /\ v = <<v[1], v[2]>>
        /\ w[1] \in S /\ w[2] \in 1..f[w[1]] /\ w = <<w[1], w[2]>>
    BY <1>4
  <2>2. bij[v[1]][v[2]] \in A[v[1]] /\ bij[w[1]][w[2]] \in A[w[1]]
    BY <1>3, <2>1
  <2>3. bij[v[1]][v[2]] = bij[w[1]][w[2]]
    BY <1>7
  <2>4. v[1] = w[1]
    BY <2>1, <2>2, <2>3
  <2>5. v[2] = w[2]
    BY <1>3, <2>1, <2>3, <2>4
  <2> QED BY <2>1, <2>4, <2>5
<1>8. ASSUME NEW u \in U PROVE \E v \in all : g[v] = u
  <2>1. PICK x \in S : u \in A[x]
    OBVIOUS
  <2>2. PICK i \in 1..f[x] : bij[x][i] = u
    BY <1>3, <2>1
  <2>3. <<x, i>> \in all
    BY <1>5
  <2>4. g[<<x, i>>] = bij[x][i]
    BY <2>3
  <2> QED BY <2>2, <2>3, <2>4
<1>9. g \in Bijection(all, U)
  <2> HIDE DEF g
  <2>1. g \in Surjection(all, U)
    BY <1>6, <1>8 DEF Surjection
  <2>2. g \in Injection(all, U)
    BY <1>6, <1>7 DEF Injection, IsInjective
  <2> QED BY <2>1, <2>2 DEF Bijection
<1>10. IsFiniteSet(all) /\ SumOf(f, S) = Cardinality(all) /\ SumOf(f, S) \in Nat
  BY <1>1, UnitsFinite DEF all
<1> QED BY <1>9, <1>10, FS_Bijection DEF ExistsBijection

\* A number for each class: its sum.
LEMMA SumOfSums ==
    ASSUME NEW S, NEW A, NEW U, Classes(S, A, U), NEW w, \A u \in U : w[u] \in Nat,
           NEW f, \A x \in S : f[x] = SumOf(w, A[x])
    PROVE  SumOf(f, S) = SumOf(w, U)
<1> USE DEF Classes
<1> DEFINE B == [x \in S |-> Units(w, A[x])]
<1>1. \A x \in S : B[x] = Units(w, A[x])
  OBVIOUS
<1>2. \A x \in S : IsFiniteSet(B[x]) /\ f[x] = Cardinality(B[x])
  <2> SUFFICES ASSUME NEW x \in S PROVE IsFiniteSet(B[x]) /\ f[x] = Cardinality(B[x])
    OBVIOUS
  <2>1. IsFiniteSet(A[x]) /\ \A u \in A[x] : w[u] \in Nat
    OBVIOUS
  <2>2. IsFiniteSet(Units(w, A[x])) /\ SumOf(w, A[x]) = Cardinality(Units(w, A[x]))
    BY <2>1, UnitsFinite
  <2> QED BY <1>1, <2>2
<1>3. \A V : \A v \in Units(w, V) : v[1] \in V /\ v \in {v[1]} \X (1..w[v[1]])
  BY DEF Units
<1>4. \A V : \A u \in V : {u} \X (1..w[u]) \subseteq Units(w, V)
  BY DEF Units
<1> HIDE DEF B
<1>5. \A x, y \in S : \A v \in B[x] : v \in B[y] => x = y
  <2> SUFFICES ASSUME NEW x \in S, NEW y \in S, NEW v \in B[x], v \in B[y] PROVE x = y
    OBVIOUS
  <2>1. v[1] \in A[x] /\ v[1] \in A[y]
    BY <1>1, <1>3
  <2> QED BY <2>1
<1>6. \A v \in Units(w, U) : \E x \in S : v \in B[x]
  <2> SUFFICES ASSUME NEW v \in Units(w, U) PROVE \E x \in S : v \in B[x]
    OBVIOUS
  <2>1. v[1] \in U /\ v \in {v[1]} \X (1..w[v[1]])
    BY <1>3
  <2>2. PICK x \in S : v[1] \in A[x]
    BY <2>1
  <2>3. v \in Units(w, A[x])
    BY <1>4, <2>1, <2>2
  <2> QED BY <1>1, <2>3
<1>7. \A x \in S : B[x] \subseteq Units(w, U)
  <2> SUFFICES ASSUME NEW x \in S, NEW v \in B[x] PROVE v \in Units(w, U)
    OBVIOUS
  <2>1. v[1] \in A[x] /\ v \in {v[1]} \X (1..w[v[1]])
    BY <1>1, <1>3
  <2>2. v[1] \in U
    BY <2>1
  <2> QED BY <1>4, <2>1, <2>2
<1>8. Classes(S, B, Units(w, U))
  BY <1>2, <1>5, <1>6, <1>7
<1> HIDE DEF Classes
<1>9. SumOf(f, S) = Cardinality(Units(w, U))
  BY <1>2, <1>8, SumOfCounts
<1> QED BY <1>9 DEF SumOf

\* No number is greater than the sum.
LEMMA SumBounds ==
    ASSUME NEW S, IsFiniteSet(S), NEW f, \A x \in S : f[x] \in Nat, NEW x \in S
    PROVE  f[x] <= SumOf(f, S) /\ SumOf(f, S) \in Nat
<1> DEFINE own == {x} \X (1..f[x])
<1>1. IsFiniteSet(Units(f, S)) /\ SumOf(f, S) = Cardinality(Units(f, S)) /\ SumOf(f, S) \in Nat
  BY UnitsFinite
<1>2. own \subseteq Units(f, S)
  BY DEF Units
<1>3. Cardinality(own) = f[x]
  BY OwnUnits
<1> HIDE DEF own
<1>4. Cardinality(own) <= Cardinality(Units(f, S))
  BY <1>1, <1>2, FS_Subset
<1> QED BY <1>1, <1>3, <1>4
================================================================================
