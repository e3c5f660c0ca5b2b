--------------------------- MODULE TotalsTheorems ---------------------------
(***************************************************************************)
(* Facts about SumOver for any column of naturals over a finite set of     *)
(* rows, and of the least and greatest of a set of naturals.  They replace *)
(* induction over the set: the units of a row are a finite set disjoint    *)
(* from the units of the other rows.                                       *)
(***************************************************************************)
EXTENDS Totals, FunctionTheorems, FiniteSetTheorems, WellFoundedInduction, TLAPS

\* A row that holds n units holds n of them.
LEMMA RowUnits ==
    ASSUME NEW x, NEW n \in Int
    PROVE  /\ IsFiniteSet({x} \X (1 .. n))
           /\ n \in Nat => Cardinality({x} \X (1 .. n)) = n
<1>1. IsFiniteSet({x}) /\ Cardinality({x}) = 1
  BY FS_Singleton
<1>2. IsFiniteSet(1 .. n) /\ (n \in Nat => Cardinality(1 .. n) = n)
  BY FS_Interval
<1>3. /\ IsFiniteSet({x} \X (1 .. n))
      /\ Cardinality({x} \X (1 .. n)) = Cardinality({x}) * Cardinality(1 .. n)
  BY <1>1, <1>2, FS_Product
<1> QED BY <1>1, <1>2, <1>3

\* Finitely many rows hold finitely many units.
LEMMA UnitsFinite ==
    ASSUME NEW S, IsFiniteSet(S), NEW f, \A x \in S : f[x] \in Int
    PROVE  IsFiniteSet(UnitsOf(f, S))
<1> DEFINE T == {{x} \X (1 .. f[x]) : x \in S}
           g == [x \in S |-> {x} \X (1 .. f[x])]
<1>1. g \in Surjection(S, T)
  BY DEF Surjection
<1>2. IsFiniteSet(T)
  <2> HIDE DEF T, g
  <2> QED BY <1>1, FS_Surjection
<1>3. ASSUME NEW u \in T PROVE IsFiniteSet(u)
  <2>1. PICK x \in S : u = {x} \X (1 .. f[x])
    OBVIOUS
  <2>2. IsFiniteSet({x} \X (1 .. f[x]))
    BY RowUnits
  <2> QED BY <2>1, <2>2
<1>4. IsFiniteSet(UNION T)
  <2> HIDE DEF T
  <2> QED BY <1>2, <1>3, FS_UNION
<1> QED BY <1>4 DEF UnitsOf

\* A sum is a natural number.
THEOREM SumType ==
    ASSUME NEW S, IsFiniteSet(S), NEW f, \A x \in S : f[x] \in Int
    PROVE  SumOver(f, S) \in Nat
BY UnitsFinite, FS_CardinalityType DEF SumOver

\* The sum over no rows.
THEOREM SumEmpty ==
    ASSUME NEW f
    PROVE  SumOver(f, {}) = 0
<1>1. UnitsOf(f, {}) = {}
  BY DEF UnitsOf
<1> QED BY <1>1, FS_EmptySet DEF SumOver

\* Two columns that agree on the rows have the same sum.
THEOREM SumCongruence ==
    ASSUME NEW S, NEW f, NEW g, \A x \in S : f[x] = g[x]
    PROVE  SumOver(f, S) = SumOver(g, S)
<1>1. UnitsOf(f, S) = UnitsOf(g, S)
  BY DEF UnitsOf
<1> QED BY <1>1 DEF SumOver

\* A row can be taken out of a sum.
THEOREM SumSplit ==
    ASSUME NEW S, IsFiniteSet(S), NEW f, \A x \in S : f[x] \in Nat, NEW v \in S
    PROVE  SumOver(f, S) = SumOver(f, S \ {v}) + f[v]
<1> DEFINE row == {v} \X (1 .. f[v])
           rest == UnitsOf(f, S \ {v})
<1>1. IsFiniteSet(row) /\ Cardinality(row) = f[v]
  <2>1. f[v] \in Nat /\ f[v] \in Int
    OBVIOUS
  <2> QED BY <2>1, RowUnits
<1>2. IsFiniteSet(S \ {v})
  BY FS_RemoveElement
<1>3. IsFiniteSet(rest)
  <2>1. \A x \in S \ {v} : f[x] \in Int
    OBVIOUS
  <2> QED BY <1>2, <2>1, UnitsFinite
<1>4. UnitsOf(f, S) = rest \cup row
  BY DEF UnitsOf
<1>5. rest \cap row = {}
  BY DEF UnitsOf
<1>6. Cardinality(rest \cup row)
        = Cardinality(rest) + Cardinality(row) - Cardinality(rest \cap row)
  <2> HIDE DEF rest, row
  <2> QED BY <1>1, <1>3, FS_Union
<1>7. Cardinality(rest \cap row) = 0
  <2> HIDE DEF rest, row
  <2> QED BY <1>5, FS_EmptySet
<1>8. Cardinality(rest) \in Nat
  <2> HIDE DEF rest, row
  <2> QED BY <1>3, FS_CardinalityType
<1> HIDE DEF row
<1> QED BY <1>1, <1>4, <1>6, <1>7, <1>8 DEF SumOver

\* Changing one row changes the sum by as much.
THEOREM SumUpdate ==
    ASSUME NEW S, IsFiniteSet(S), NEW f, NEW g, NEW v \in S,
           \A x \in S : f[x] \in Nat, \A x \in S : g[x] \in Nat,
           \A x \in S \ {v} : g[x] = f[x]
    PROVE  SumOver(g, S) = SumOver(f, S) + (g[v] - f[v])
<1>1. SumOver(f, S) = SumOver(f, S \ {v}) + f[v]
  BY SumSplit
<1>2. SumOver(g, S) = SumOver(g, S \ {v}) + g[v]
  BY SumSplit
<1>3. SumOver(g, S \ {v}) = SumOver(f, S \ {v})
  BY SumCongruence
<1>4. SumOver(f, S \ {v}) \in Nat
  <2>1. IsFiniteSet(S \ {v})
    BY FS_RemoveElement
  <2>2. \A x \in S \ {v} : f[x] \in Int
    OBVIOUS
  <2> QED BY <2>1, <2>2, SumType
<1> QED BY <1>1, <1>2, <1>3, <1>4

\* Rows that hold nothing add nothing.
THEOREM SumZeroRows ==
    ASSUME NEW S, NEW T, T \subseteq S, NEW f, \A x \in S \ T : f[x] = 0
    PROVE  SumOver(f, S) = SumOver(f, T)
<1>1. 1 .. 0 = {}
  OBVIOUS
<1>2. \A x \in S \ T : {x} \X (1 .. f[x]) = {}
  BY <1>1
<1>3. UnitsOf(f, S) = UnitsOf(f, T)
  BY <1>2 DEF UnitsOf
<1> QED BY <1>3 DEF SumOver

\* The sum of two columns is the sum of their rows' sums.
THEOREM SumAdd ==
    ASSUME NEW S, IsFiniteSet(S), NEW f, NEW g, NEW h,
           \A x \in S : f[x] \in Nat /\ g[x] \in Nat /\ h[x] = f[x] + g[x]
    PROVE  SumOver(h, S) = SumOver(f, S) + SumOver(g, S)
<1> DEFINE F == UnitsOf(f, S)
           G == UnitsOf(g, S)
           M == UNION {{x} \X ((f[x] + 1) .. (f[x] + g[x])) : x \in S}
           m == [u \in G |-> <<u[1], f[u[1]] + u[2]>>]
<1>1. IsFiniteSet(F) /\ IsFiniteSet(G)
  BY UnitsFinite
<1>2. ASSUME NEW u \in G
      PROVE  u[1] \in S /\ u[2] \in 1 .. g[u[1]] /\ u = <<u[1], u[2]>>
  BY DEF UnitsOf
<1>3. ASSUME NEW u \in G PROVE m[u] \in M
  <2>1. f[u[1]] + u[2] \in (f[u[1]] + 1) .. (f[u[1]] + g[u[1]])
    BY <1>2
  <2> QED BY <1>2, <2>1
<1>4. ASSUME NEW u \in G, NEW w \in G, m[u] = m[w] PROVE u = w
  <2>1. u[1] = w[1] /\ f[u[1]] + u[2] = f[w[1]] + w[2]
    BY <1>4
  <2>2. u[2] = w[2]
    BY <1>2, <2>1
  <2> QED BY <1>2, <2>1, <2>2
<1>5. ASSUME NEW t \in M PROVE \E u \in G : m[u] = t
  <2>1. PICK x \in S : t \in {x} \X ((f[x] + 1) .. (f[x] + g[x]))
    OBVIOUS
  <2>2. PICK k \in (f[x] + 1) .. (f[x] + g[x]) : t = <<x, k>>
    BY <2>1
  <2>3. k - f[x] \in 1 .. g[x]
    OBVIOUS
  <2>4. <<x, k - f[x]>> \in G
    BY <2>3 DEF UnitsOf
  <2>5. m[<<x, k - f[x]>>] = <<x, f[x] + (k - f[x])>>
    BY <2>4
  <2>6. f[x] + (k - f[x]) = k
    OBVIOUS
  <2> QED BY <2>2, <2>4, <2>5, <2>6
<1>6. ExistsBijection(G, M)
  <2>1. m \in [G -> M]
    <3> HIDE DEF G, M
    <3> QED BY <1>3
  <2>2. m \in Bijection(G, M)
    <3>1. DOMAIN m = G
      OBVIOUS
    <3> HIDE DEF m, G, M
    <3> QED BY <2>1, <3>1, <1>4, <1>5 DEF Bijection, Injection, Surjection, IsInjective
  <2> HIDE DEF m, G, M
  <2> QED BY <2>2 DEF ExistsBijection
<1>7. IsFiniteSet(M) /\ Cardinality(M) = Cardinality(G)
  <2> HIDE DEF m, G, M
  <2> QED BY <1>1, <1>6, FS_Bijection
<1>8. UnitsOf(h, S) = F \cup M
  <2>1. ASSUME NEW x \in S
        PROVE  1 .. h[x] = (1 .. f[x]) \cup ((f[x] + 1) .. (f[x] + g[x]))
    OBVIOUS
  <2>2. ASSUME NEW x \in S
        PROVE  {x} \X (1 .. h[x])
                 = ({x} \X (1 .. f[x])) \cup ({x} \X ((f[x] + 1) .. (f[x] + g[x])))
    BY <2>1
  <2> QED BY <2>2 DEF UnitsOf
<1>9. F \cap M = {}
  <2> SUFFICES ASSUME NEW t \in F, t \in M PROVE FALSE
    OBVIOUS
  <2>1. PICK x \in S : t \in {x} \X (1 .. f[x])
    BY DEF UnitsOf
  <2>2. PICK y \in S : t \in {y} \X ((f[y] + 1) .. (f[y] + g[y]))
    OBVIOUS
  <2>3. x = y /\ t[2] \in 1 .. f[x] /\ t[2] \in (f[x] + 1) .. (f[x] + g[x])
    BY <2>1, <2>2
  <2> QED BY <2>3
<1>10. Cardinality(F) \in Nat /\ Cardinality(G) \in Nat
  <2> HIDE DEF F, G
  <2> QED BY <1>1, FS_CardinalityType
<1>11. Cardinality(F \cup M) = Cardinality(F) + Cardinality(M)
  <2> HIDE DEF F, G, M, m
  <2>1. Cardinality(F \cap M) = 0
    BY <1>9, FS_EmptySet
  <2>2. Cardinality(F \cup M) = Cardinality(F) + Cardinality(M) - Cardinality(F \cap M)
    BY <1>1, <1>7, FS_Union
  <2> QED BY <1>7, <1>10, <2>1, <2>2
<1> QED BY <1>7, <1>8, <1>11 DEF SumOver

\* The sums of groups of rows add up to the sum of the rows of all groups.
THEOREM SumOfSums ==
    ASSUME NEW C, IsFiniteSet(C), NEW D, IsFiniteSet(D), NEW f, \A d \in D : f[d] \in Nat,
           NEW owner, NEW G, \A c \in C : G[c] = {d \in D : owner[d] = c},
           NEW R, R = {d \in D : owner[d] \in C},
           NEW h, \A c \in C : h[c] = SumOver(f, G[c])
    PROVE  SumOver(h, C) = SumOver(f, R)
<1> DEFINE U(c) == UnitsOf(f, G[c])
           b == [c \in C |-> CHOOSE p : p \in Bijection(1 .. h[c], U(c))]
           H == UnitsOf(h, C)
           A == UnitsOf(f, R)
           q == [u \in H |-> b[u[1]][u[2]]]
<1>1. ASSUME NEW c \in C
      PROVE  /\ IsFiniteSet(U(c)) /\ h[c] = Cardinality(U(c)) /\ h[c] \in Nat
             /\ b[c] \in Bijection(1 .. h[c], U(c))
  <2>1. IsFiniteSet(G[c])
    BY FS_Subset
  <2>2. IsFiniteSet(U(c))
    <3>1. \A d \in G[c] : f[d] \in Int
      OBVIOUS
    <3> QED BY <2>1, <3>1, UnitsFinite
  <2>3. h[c] = Cardinality(U(c))
    BY DEF SumOver
  <2>4. Cardinality(U(c)) \in Nat /\ ExistsBijection(1 .. Cardinality(U(c)), U(c))
    <3> HIDE DEF U
    <3> QED BY <2>2, FS_CardinalityType
  <2>5. \E p : p \in Bijection(1 .. h[c], U(c))
    <3> HIDE DEF U
    <3> QED BY <2>3, <2>4 DEF ExistsBijection
  <2>6. b[c] = CHOOSE p : p \in Bijection(1 .. h[c], U(c))
    OBVIOUS
  <2>7. b[c] \in Bijection(1 .. h[c], U(c))
    <3> HIDE DEF U, b
    <3> QED BY <2>5, <2>6
  <2> QED BY <2>2, <2>3, <2>4, <2>7
<1>2. ASSUME NEW c \in C
      PROVE  /\ \A k \in 1 .. h[c] : b[c][k] \in U(c)
             /\ \A k, l \in 1 .. h[c] : b[c][k] = b[c][l] => k = l
             /\ \A t \in U(c) : \E k \in 1 .. h[c] : b[c][k] = t
  <2> HIDE DEF U, b
  <2> QED BY <1>1 DEF Bijection, Injection, Surjection, IsInjective
<1>3. ASSUME NEW u \in H
      PROVE  u[1] \in C /\ u[2] \in 1 .. h[u[1]] /\ u = <<u[1], u[2]>>
  BY DEF UnitsOf
<1>4. ASSUME NEW c \in C, NEW t \in U(c) PROVE owner[t[1]] = c /\ t \in A
  BY DEF UnitsOf
<1>5. ASSUME NEW u \in H PROVE q[u] \in U(u[1]) /\ q[u] \in A
  <2>1. q[u] = b[u[1]][u[2]]
    OBVIOUS
  <2> HIDE DEF U, A, b, q, H
  <2> QED BY <1>2, <1>3, <1>4, <2>1
<1>6. ASSUME NEW u \in H, NEW w \in H, q[u] = q[w] PROVE u = w
  <2>1. u[1] = w[1]
    <3> HIDE DEF U, A, b, q, H
    <3> QED BY <1>3, <1>4, <1>5, <1>6
  <2>2. b[u[1]][u[2]] = b[u[1]][w[2]]
    BY <1>6, <2>1
  <2>3. u[2] = w[2]
    <3> HIDE DEF U, A, b, q, H
    <3> QED BY <1>2, <1>3, <2>1, <2>2
  <2> QED BY <1>3, <2>1, <2>3
<1>7. ASSUME NEW t \in A PROVE \E u \in H : q[u] = t
  <2>1. PICK d \in {e \in D : owner[e] \in C} : t \in {d} \X (1 .. f[d])
    BY DEF UnitsOf
  <2>2. t \in U(owner[d]) /\ owner[d] \in C
    BY <2>1 DEF UnitsOf
  <2>3. PICK k \in 1 .. h[owner[d]] : b[owner[d]][k] = t
    <3> HIDE DEF U, b
    <3> QED BY <1>2, <2>2
  <2>4. <<owner[d], k>> \in H
    BY <2>2 DEF UnitsOf
  <2>5. q[<<owner[d], k>>] = b[owner[d]][k]
    BY <2>4
  <2> HIDE DEF q, H, b
  <2> QED BY <2>3, <2>4, <2>5
<1>8. ExistsBijection(H, A)
  <2>1. q \in [H -> A] /\ DOMAIN q = H
    <3> HIDE DEF H, A, U
    <3> QED BY <1>5
  <2> HIDE DEF q, H, A, U, b
  <2>2. q \in Bijection(H, A)
    BY <2>1, <1>6, <1>7 DEF Bijection, Injection, Surjection, IsInjective
  <2> QED BY <2>2 DEF ExistsBijection
<1>9. IsFiniteSet(H)
  <2>1. \A c \in C : h[c] \in Int
    <3> HIDE DEF U, b
    <3> QED BY <1>1
  <2> QED BY <2>1, UnitsFinite
<1>10. Cardinality(A) = Cardinality(H)
  <2> HIDE DEF A, H, q
  <2> QED BY <1>8, <1>9, FS_Bijection
<1> QED BY <1>10 DEF SumOver

\* A set of naturals has a smallest one.
LEMMA LeastExists ==
    ASSUME NEW G \in SUBSET Nat, G # {}
    PROVE  \E g \in G : \A h \in G : g <= h
<1> DEFINE R == {ss \in Nat \X Nat : ss[1] < ss[2]}
<1>1. IsWellFoundedOn(R, Nat)
  BY NatLessThanWellFounded DEF OpToRel
<1>2. PICK g \in G : \A h \in G : <<h, g>> \notin R
  <2> HIDE DEF R
  <2> QED BY <1>1, WFMin
<1>3. ASSUME NEW h \in G PROVE g <= h
  <2>1. g \in Nat /\ h \in Nat /\ <<h, g>> \in Nat \X Nat
    OBVIOUS
  <2>2. ~(h < g)
    BY <1>2, <2>1
  <2> QED BY <2>1, <2>2
<1> QED BY <1>3

\* The sum over no more than one row that holds anything.
THEOREM SumOneRow ==
    ASSUME NEW S, NEW f, NEW v \in S, f[v] \in Nat, \A x \in S \ {v} : f[x] = 0
    PROVE  SumOver(f, S) = f[v]
<1>1. SumOver(f, S) = SumOver(f, {v})
  BY SumZeroRows
<1>2. SumOver(f, {v}) = SumOver(f, {v} \ {v}) + f[v]
  <2>1. IsFiniteSet({v}) /\ \A x \in {v} : f[x] \in Nat
    BY FS_Singleton
  <2> QED BY <2>1, SumSplit
<1>3. {v} \ {v} = {}
  OBVIOUS
<1> QED BY <1>1, <1>2, <1>3, SumEmpty

\* Rows that all hold nothing.
THEOREM SumNothing ==
    ASSUME NEW S, NEW f, \A x \in S : f[x] = 0
    PROVE  SumOver(f, S) = 0
<1>1. SumOver(f, S) = SumOver(f, {})
  BY SumZeroRows
<1> QED BY <1>1, SumEmpty

\* A sum can be taken in two parts.
THEOREM SumUnion ==
    ASSUME NEW S, IsFiniteSet(S), NEW T, IsFiniteSet(T), S \cap T = {},
           NEW f, \A x \in S \cup T : f[x] \in Int
    PROVE  SumOver(f, S \cup T) = SumOver(f, S) + SumOver(f, T)
<1> DEFINE A == UnitsOf(f, S)
           B == UnitsOf(f, T)
<1>1. IsFiniteSet(A) /\ IsFiniteSet(B)
  BY UnitsFinite
<1>2. UnitsOf(f, S \cup T) = A \cup B
  BY DEF UnitsOf
<1>3. A \cap B = {}
  BY DEF UnitsOf
<1> HIDE DEF A, B
<1>4. Cardinality(A \cup B) = Cardinality(A) + Cardinality(B) - Cardinality(A \cap B)
  BY <1>1, FS_Union
<1>5. Cardinality(A \cap B) = 0 /\ Cardinality(A) \in Nat /\ Cardinality(B) \in Nat
  BY <1>1, <1>3, FS_EmptySet, FS_CardinalityType
<1>6. /\ SumOver(f, S) = Cardinality(A) /\ SumOver(f, T) = Cardinality(B)
      /\ SumOver(f, S \cup T) = Cardinality(A \cup B)
  BY <1>2 DEF SumOver, A, B
<1> QED BY <1>4, <1>5, <1>6

\* Part of the rows sum to no more than all of them.
THEOREM SumPart ==
    ASSUME NEW S, IsFiniteSet(S), NEW T \in SUBSET S, NEW f, \A x \in S : f[x] \in Int
    PROVE  /\ SumOver(f, S) = SumOver(f, T) + SumOver(f, S \ T)
           /\ SumOver(f, T) <= SumOver(f, S)
<1>1. IsFiniteSet(T) /\ IsFiniteSet(S \ T) /\ T \cup (S \ T) = S /\ T \cap (S \ T) = {}
  BY FS_Subset, FS_Difference
<1>2. SumOver(f, S) = SumOver(f, T) + SumOver(f, S \ T)
  <2>1. \A x \in T \cup (S \ T) : f[x] \in Int
    BY <1>1
  <2>2. SumOver(f, T \cup (S \ T)) = SumOver(f, T) + SumOver(f, S \ T)
    BY <1>1, <2>1, SumUnion
  <2> QED BY <1>1, <2>2
<1>3. SumOver(f, T) \in Nat /\ SumOver(f, S \ T) \in Nat
  <2>1. (\A x \in T : f[x] \in Int) /\ (\A x \in S \ T : f[x] \in Int)
    OBVIOUS
  <2> QED BY <1>1, <2>1, SumType
<1> QED BY <1>2, <1>3

\* No row holds more than the sum.
THEOREM SumBoundsRow ==
    ASSUME NEW S, IsFiniteSet(S), NEW f, \A x \in S : f[x] \in Nat, NEW v \in S
    PROVE  f[v] <= SumOver(f, S)
<1>1. SumOver(f, S) = SumOver(f, S \ {v}) + f[v]
  BY SumSplit
<1>2. SumOver(f, S \ {v}) \in Nat
  <2>1. IsFiniteSet(S \ {v})
    BY FS_RemoveElement
  <2> QED BY <2>1, SumType
<1> QED BY <1>1, <1>2

\* Larger rows, a larger sum.
THEOREM SumMonotone ==
    ASSUME NEW S, IsFiniteSet(S), NEW f, NEW g,
           \A x \in S : f[x] \in Nat /\ g[x] \in Nat /\ f[x] <= g[x]
    PROVE  SumOver(f, S) <= SumOver(g, S)
<1> DEFINE h == [x \in S |-> g[x] - f[x]]
<1>1. \A x \in S : h[x] \in Nat /\ g[x] = f[x] + h[x]
  OBVIOUS
<1> HIDE DEF h
<1>2. SumOver(g, S) = SumOver(f, S) + SumOver(h, S)
  BY <1>1, SumAdd
<1>3. SumOver(f, S) \in Nat /\ SumOver(h, S) \in Nat
  BY <1>1, SumType
<1> QED BY <1>2, <1>3

\* Rows that all hold n.
THEOREM SumConstant ==
    ASSUME NEW S, IsFiniteSet(S), NEW n \in Nat, NEW f, \A x \in S : f[x] = n
    PROVE  SumOver(f, S) = Cardinality(S) * n
<1>1. UnitsOf(f, S) = S \X (1 .. n)
  BY DEF UnitsOf
<1>2. IsFiniteSet(1 .. n) /\ Cardinality(1 .. n) = n
  BY FS_Interval
<1>3. Cardinality(S \X (1 .. n)) = Cardinality(S) * Cardinality(1 .. n)
  BY <1>2, FS_Product
<1> QED BY <1>1, <1>2, <1>3 DEF SumOver

\* How many rows there are is the sum of ones.
THEOREM SumOfOnes ==
    ASSUME NEW S, IsFiniteSet(S), NEW f, \A x \in S : f[x] = 1
    PROVE  SumOver(f, S) = Cardinality(S)
<1>1. SumOver(f, S) = Cardinality(S) * 1
  BY SumConstant
<1> QED BY <1>1, FS_CardinalityType

\* A row counted once for each place it is listed at, each at one place.
THEOREM SumReindex ==
    ASSUME NEW K, IsFiniteSet(K), NEW S, NEW q \in Bijection(K, S),
           NEW f, NEW h, \A k \in K : f[k] = h[q[k]] /\ f[k] \in Nat
    PROVE  /\ IsFiniteSet(S)
           /\ SumOver(f, K) = SumOver(h, S)
<1>1. /\ \A k \in K : q[k] \in S
      /\ \A k, l \in K : q[k] = q[l] => k = l
      /\ \A s \in S : \E k \in K : q[k] = s
  BY DEF Bijection, Injection, Surjection, IsInjective
<1>2. IsFiniteSet(S)
  <2>1. ExistsBijection(K, S)
    BY DEF ExistsBijection
  <2> QED BY <2>1, FS_Bijection
<1> DEFINE G == [s \in S |-> {k \in K : q[k] = s}]
<1>3. K = {k \in K : q[k] \in S}
  BY <1>1
<1>4. ASSUME NEW s \in S PROVE h[s] = SumOver(f, G[s])
  <2>1. PICK k \in K : q[k] = s
    BY <1>1
  <2>2. G[s] = {k}
    BY <1>1, <2>1
  <2>3. SumOver(f, {k}) = f[k]
    BY SumOneRow
  <2> QED BY <2>1, <2>2, <2>3
<1>5. SumOver(h, S) = SumOver(f, K)
  <2>1. \A s \in S : G[s] = {k \in K : q[k] = s}
    OBVIOUS
  <2> HIDE DEF G
  <2> QED BY <1>2, <1>3, <1>4, <2>1, SumOfSums
<1> QED BY <1>2, <1>5

\* A column times a number.
THEOREM SumScale ==
    ASSUME NEW S, IsFiniteSet(S), NEW n \in Nat, NEW f, NEW h,
           \A x \in S : f[x] \in Nat /\ h[x] = f[x] * n
    PROVE  SumOver(h, S) = SumOver(f, S) * n
<1> DEFINE D == UnitsOf(f, S)
           times == [d \in D |-> n]
           owner == [d \in D |-> d[1]]
           G == [x \in S |-> {d \in D : owner[d] = x}]
<1>1. IsFiniteSet(D)
  BY UnitsFinite
<1>2. \A d \in D : owner[d] \in S
  BY DEF UnitsOf
<1>3. ASSUME NEW x \in S PROVE h[x] = SumOver(times, G[x])
  <2>1. G[x] = {x} \X (1 .. f[x])
    BY DEF UnitsOf
  <2>2. IsFiniteSet(G[x]) /\ Cardinality(G[x]) = f[x]
    <3>1. f[x] \in Int /\ f[x] \in Nat
      OBVIOUS
    <3>2. IsFiniteSet({x} \X (1 .. f[x])) /\ Cardinality({x} \X (1 .. f[x])) = f[x]
      BY <3>1, RowUnits
    <3> HIDE DEF G
    <3> QED BY <2>1, <3>2
  <2>3. \A d \in G[x] : times[d] = n
    OBVIOUS
  <2> HIDE DEF G, times
  <2>4. SumOver(times, G[x]) = Cardinality(G[x]) * n
    BY <2>2, <2>3, SumConstant
  <2> QED BY <2>2, <2>4
<1>4. SumOver(h, S) = SumOver(times, D)
  <2>1. \A x \in S : G[x] = {d \in D : owner[d] = x}
    OBVIOUS
  <2>2. \A d \in D : times[d] \in Nat
    OBVIOUS
  <2>3. D = {d \in D : owner[d] \in S}
    BY <1>2
  <2> HIDE DEF D, times, owner, G
  <2> QED BY <1>1, <1>3, <2>1, <2>2, <2>3, SumOfSums
<1>5. SumOver(times, D) = Cardinality(D) * n
  <2>1. \A d \in D : times[d] = n
    OBVIOUS
  <2> HIDE DEF times, D
  <2> QED BY <1>1, <2>1, SumConstant
<1> QED BY <1>4, <1>5 DEF SumOver

\* Finitely many naturals have a largest one.
LEMMA GreatestExists ==
    ASSUME NEW T \in SUBSET Nat, IsFiniteSet(T), T # {}
    PROVE  \E x \in T : \A y \in T : y <= x
<1> DEFINE f == [n \in T |-> n]
           m == SumOver(f, T)
           gaps == {m - x : x \in T}
<1>1. \A n \in T : f[n] \in Nat /\ f[n] = n
  OBVIOUS
<1>2. m \in Nat /\ \A n \in T : n <= m
  <2> HIDE DEF f
  <2>1. SumOver(f, T) \in Nat
    <3>1. \A n \in T : f[n] \in Int
      BY <1>1
    <3> QED BY <3>1, SumType
  <2>2. \A n \in T : f[n] <= SumOver(f, T)
    BY <1>1, SumBoundsRow
  <2> QED BY <1>1, <2>1, <2>2
<1> HIDE DEF m
<1>3. gaps \in SUBSET Nat /\ gaps # {}
  <2>1. \A x \in T : m - x \in Nat
    BY <1>2
  <2>2. PICK x : x \in T
    OBVIOUS
  <2> QED BY <2>1, <2>2
<1>4. PICK g \in gaps : \A h \in gaps : g <= h
  <2> HIDE DEF gaps
  <2> QED BY <1>3, LeastExists
<1>5. PICK x \in T : g = m - x
  OBVIOUS
<1>6. ASSUME NEW y \in T PROVE y <= x
  <2>1. m - x <= m - y
    BY <1>4, <1>5
  <2> QED BY <2>1, <1>2
<1> QED BY <1>6

=============================================================================
