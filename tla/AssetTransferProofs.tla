-------------------------- MODULE AssetTransferProofs --------------------------
(***************************************************************************)
(* Proofs about the transfer interpreter, for any assets, transactions and *)
(* instructions: no unit of an asset is created or lost, what a stored     *)
(* transaction destroys is reported, and outputs stay compact.             *)
(***************************************************************************)
EXTENDS AssetTransfer, FiniteSetTheorems, WellFoundedInduction, TLAPS

-----------------------------------------------------------------------------
(* Sums.  They are counts of pairs, so that they add up as sets do.        *)

Pairs(f, S) == UNION {{x} \X (1 .. f[x]) : x \in S}

\* What one x adds.
LEMMA PairsOfOne ==
    ASSUME NEW f, NEW x, f[x] \in Nat
    PROVE  /\ Pairs(f, {x}) = {x} \X (1 .. f[x]) /\ IsFiniteSet(Pairs(f, {x}))
           /\ SumOver(f, {x}) = f[x]
<1> DEFINE n == f[x]
           S == {x} \X (1 .. n)
<1>1. n \in Nat
  OBVIOUS
<1>2. Pairs(f, {x}) = S
  <2>1. ASSUME NEW y PROVE y \in Pairs(f, {x}) <=> y \in S
    BY DEF Pairs
  <2> QED BY <2>1
<1>3. SumOver(f, {x}) = Cardinality(S)
  BY <1>2 DEF SumOver, Pairs
<1> HIDE DEF n
<1>4. IsFiniteSet(1 .. n) /\ Cardinality(1 .. n) = n
  <2>1. 1 \in Int /\ n \in Int
    BY <1>1
  <2>2. IsFiniteSet(1 .. n) /\ Cardinality(1 .. n) = IF 1 > n THEN 0 ELSE n - 1 + 1
    BY <2>1, FS_Interval
  <2> QED BY <1>1, <2>2
<1>5. IsFiniteSet({x}) /\ Cardinality({x}) = 1
  BY FS_Singleton
<1>6. IsFiniteSet(S) /\ Cardinality(S) = Cardinality({x}) * Cardinality(1 .. n)
  BY <1>4, <1>5, FS_Product
<1>7. Cardinality(S) = n
  BY <1>1, <1>4, <1>5, <1>6
<1> QED BY <1>2, <1>3, <1>6, <1>7 DEF n

\* A finite set of naturals adds up.
LEMMA PairsFinite ==
    ASSUME NEW S, IsFiniteSet(S), NEW f, \A x \in S : f[x] \in Nat
    PROVE  IsFiniteSet(Pairs(f, S)) /\ SumOver(f, S) \in Nat
<1> DEFINE T == {{x} \X (1 .. f[x]) : x \in S}
           g == [x \in S |-> {x} \X (1 .. f[x])]
<1>1. g \in Surjection(S, T)
  BY DEF Surjection
<1>2. IsFiniteSet(T)
  <2> HIDE DEF g, T
  <2> QED BY <1>1, FS_Surjection
<1>3. \A t \in T : IsFiniteSet(t)
  <2>1. \A x \in S : IsFiniteSet({x} \X (1 .. f[x]))
    <3>1. ASSUME NEW x \in S PROVE IsFiniteSet({x} \X (1 .. f[x]))
      <4>1. f[x] \in Nat
        OBVIOUS
      <4>2. Pairs(f, {x}) = {x} \X (1 .. f[x]) /\ IsFiniteSet(Pairs(f, {x}))
        BY <4>1, PairsOfOne
      <4> QED BY <4>2
    <3> QED BY <3>1
  <2> QED BY <2>1
<1>4. IsFiniteSet(UNION T)
  <2> HIDE DEF T
  <2> QED BY <1>2, <1>3, FS_UNION
<1>5. IsFiniteSet(Pairs(f, S)) /\ SumOver(f, S) = Cardinality(Pairs(f, S))
  BY <1>4 DEF Pairs, SumOver
<1> QED BY <1>5, FS_CardinalityType

\* The sums over two sets with nothing in common.
LEMMA SumUnion ==
    ASSUME NEW A, NEW B, IsFiniteSet(A), IsFiniteSet(B), A \cap B = {},
           NEW f, \A x \in A \cup B : f[x] \in Nat
    PROVE  SumOver(f, A \cup B) = SumOver(f, A) + SumOver(f, B)
<1>1. IsFiniteSet(Pairs(f, A)) /\ SumOver(f, A) \in Nat
  BY PairsFinite
<1>2. IsFiniteSet(Pairs(f, B)) /\ SumOver(f, B) \in Nat
  BY PairsFinite
<1>3. Pairs(f, A \cup B) = Pairs(f, A) \cup Pairs(f, B)
  <2>1. ASSUME NEW y PROVE y \in Pairs(f, A \cup B) <=> y \in Pairs(f, A) \/ y \in Pairs(f, B)
    BY DEF Pairs
  <2> QED BY <2>1
<1>4. Pairs(f, A) \cap Pairs(f, B) = {}
  BY DEF Pairs
<1>5. Cardinality(Pairs(f, A) \cup Pairs(f, B)) =
        Cardinality(Pairs(f, A)) + Cardinality(Pairs(f, B)) - Cardinality({})
  BY <1>1, <1>2, <1>4, FS_Union
<1>6. Cardinality({}) = 0
  BY FS_EmptySet
<1>7. /\ SumOver(f, A \cup B) = Cardinality(Pairs(f, A) \cup Pairs(f, B))
      /\ SumOver(f, A) = Cardinality(Pairs(f, A)) /\ SumOver(f, B) = Cardinality(Pairs(f, B))
  BY <1>3 DEF SumOver, Pairs
<1>8. SumOver(f, A \cup B) = SumOver(f, A) + SumOver(f, B) - 0
  BY <1>5, <1>6, <1>7
<1>9. SumOver(f, A) \in Nat /\ SumOver(f, B) \in Nat
  BY <1>1, <1>2
<1> QED BY <1>8, <1>9

\* A part adds up to no more than the whole.
LEMMA SumPart ==
    ASSUME NEW B, NEW A \in SUBSET B, IsFiniteSet(B), NEW f, \A x \in B : f[x] \in Nat
    PROVE  SumOver(f, A) \in Nat /\ SumOver(f, A) <= SumOver(f, B)
<1>1. IsFiniteSet(Pairs(f, B))
  BY PairsFinite
<1>2. Pairs(f, A) \in SUBSET Pairs(f, B)
  BY DEF Pairs
<1>3. IsFiniteSet(Pairs(f, A)) /\ Cardinality(Pairs(f, A)) <= Cardinality(Pairs(f, B))
  BY <1>1, <1>2, FS_Subset
<1>4. Cardinality(Pairs(f, A)) \in Nat
  BY <1>3, FS_CardinalityType
<1> QED BY <1>3, <1>4 DEF SumOver, Pairs

\* Only the values on the set matter.
LEMMA SumSame ==
    ASSUME NEW S, NEW f, NEW g, \A x \in S : f[x] = g[x]
    PROVE  SumOver(f, S) = SumOver(g, S)
<1>1. Pairs(f, S) = Pairs(g, S)
  BY DEF Pairs
<1> QED BY <1>1 DEF SumOver, Pairs

\* Zeros add up to nothing.
LEMMA SumZero ==
    ASSUME NEW S, NEW f, \A x \in S : f[x] = 0
    PROVE  SumOver(f, S) = 0
<1>1. Pairs(f, S) = {}
  BY DEF Pairs
<1>2. Cardinality({}) = 0
  BY FS_EmptySet
<1> QED BY <1>1, <1>2 DEF SumOver, Pairs

\* The same values at other places add up to the same.
LEMMA SumMoved ==
    ASSUME NEW A, NEW B, IsFiniteSet(A), NEW h \in Bijection(A, B), NEW f, NEW g,
           \A x \in A : f[x] \in Nat /\ g[h[x]] = f[x]
    PROVE  SumOver(f, A) = SumOver(g, B)
<1> DEFINE P == Pairs(f, A)
           Q == Pairs(g, B)
           F == [p \in P |-> <<h[p[1]], p[2]>>]
<1>1. \A p : p \in P <=> \E x \in A, j \in Nat : j \in 1 .. f[x] /\ p = <<x, j>>
  BY DEF Pairs
<1>2. \A q : q \in Q <=> \E y \in B, j \in Nat : j \in 1 .. g[y] /\ q = <<y, j>>
  BY DEF Pairs
<1>3. h \in [A -> B] /\ (\A x, y \in A : h[x] = h[y] => x = y) /\ (\A y \in B : \E x \in A : h[x] = y)
  BY DEF Bijection, Injection, Surjection, IsInjective
<1> HIDE DEF P, Q
<1>4. F \in [P -> Q]
  <2>1. ASSUME NEW p \in P PROVE <<h[p[1]], p[2]>> \in Q
    <3>1. PICK x \in A, j \in Nat : j \in 1 .. f[x] /\ p = <<x, j>>
      BY <1>1
    <3>2. h[x] \in B /\ j \in 1 .. g[h[x]]
      BY <1>3, <3>1
    <3> QED BY <1>2, <3>1, <3>2
  <2> QED BY <2>1
<1>5. ASSUME NEW p \in P, NEW q \in P, F[p] = F[q]
      PROVE  p = q
  <2>1. PICK x \in A, j \in Nat : j \in 1 .. f[x] /\ p = <<x, j>>
    BY <1>1
  <2>2. PICK y \in A, k \in Nat : k \in 1 .. f[y] /\ q = <<y, k>>
    BY <1>1
  <2>3. h[x] = h[y] /\ j = k
    BY <1>5, <2>1, <2>2
  <2> QED BY <1>3, <2>1, <2>2, <2>3
<1>6. ASSUME NEW q \in Q
      PROVE  \E p \in P : F[p] = q
  <2>1. PICK y \in B, j \in Nat : j \in 1 .. g[y] /\ q = <<y, j>>
    BY <1>2
  <2>2. PICK x \in A : h[x] = y
    BY <1>3
  <2>3. j \in 1 .. f[x]
    BY <2>1, <2>2
  <2>4. <<x, j>> \in P
    BY <1>1, <2>3
  <2>5. F[<<x, j>>] = q
    BY <2>1, <2>2, <2>4
  <2> QED BY <2>4, <2>5
<1>7. F \in Bijection(P, Q)
  <2> HIDE DEF F
  <2> QED BY <1>4, <1>5, <1>6 DEF Bijection, Injection, Surjection, IsInjective
<1>8. IsFiniteSet(P)
  BY PairsFinite DEF P
<1>9. Cardinality(Q) = Cardinality(P)
  <2>1. ExistsBijection(P, Q)
    BY <1>7 DEF ExistsBijection
  <2> QED BY <1>8, <2>1, FS_Bijection
<1> QED BY <1>9 DEF P, Q, Pairs, SumOver

\* One value changed.
LEMMA SumChanged ==
    ASSUME NEW S, IsFiniteSet(S), NEW z \in S, NEW f, NEW g,
           \A x \in S : f[x] \in Nat /\ g[x] \in Nat, \A x \in S \ {z} : g[x] = f[x]
    PROVE  SumOver(g, S) + f[z] = SumOver(f, S) + g[z]
<1> DEFINE R == S \ {z}
<1>1. S = R \cup {z} /\ R \cap {z} = {} /\ IsFiniteSet(R) /\ IsFiniteSet({z})
  BY FS_Subset, FS_Singleton
<1>2. \A x \in R \cup {z} : f[x] \in Nat /\ g[x] \in Nat
  OBVIOUS
<1>3. \A x \in R : f[x] = g[x]
  OBVIOUS
<1> HIDE DEF R
<1>4. SumOver(f, R \cup {z}) = SumOver(f, R) + SumOver(f, {z})
  BY <1>1, <1>2, SumUnion
<1>5. SumOver(g, R \cup {z}) = SumOver(g, R) + SumOver(g, {z})
  BY <1>1, <1>2, SumUnion
<1>6. SumOver(f, {z}) = f[z] /\ SumOver(g, {z}) = g[z]
  BY PairsOfOne
<1>7. SumOver(f, R) = SumOver(g, R)
  BY <1>3, SumSame
<1>8. SumOver(f, R) \in Nat /\ f[z] \in Nat /\ g[z] \in Nat
  BY <1>1, <1>2, PairsFinite
<1>9. SumOver(f, S) = SumOver(f, R) + f[z] /\ SumOver(g, S) = SumOver(f, R) + g[z]
  BY <1>1, <1>4, <1>5, <1>6, <1>7
<1> QED BY <1>8, <1>9

\* The same number added at every place of a part.
LEMMA SumSpread ==
    ASSUME NEW S, IsFiniteSet(S), NEW T \in SUBSET S, NEW n \in Nat, NEW f, NEW g,
           \A x \in S : f[x] \in Nat /\ g[x] = IF x \in T THEN f[x] + n ELSE f[x]
    PROVE  SumOver(g, S) = SumOver(f, S) + Cardinality(T) * n
<1> DEFINE X == T \X (1 .. n)
           E == {<<x, f[x] + j>> : x \in T, j \in 1 .. n}
           F == [p \in X |-> <<p[1], f[p[1]] + p[2]>>]
<1>1. IsFiniteSet(T) /\ Cardinality(T) \in Nat
  BY FS_Subset, FS_CardinalityType
<1>2. IsFiniteSet(X) /\ Cardinality(X) = Cardinality(T) * n
  <2>1. 1 \in Int /\ n \in Int
    OBVIOUS
  <2>2. IsFiniteSet(1 .. n) /\ Cardinality(1 .. n) = n
    BY <2>1, FS_Interval
  <2> QED BY <1>1, <2>2, FS_Product
<1>3. F \in Bijection(X, E)
  <2>1. F \in [X -> E]
    OBVIOUS
  <2>2. ASSUME NEW p \in X, NEW q \in X, F[p] = F[q]
        PROVE  p = q
    <3>1. PICK x \in T, j \in 1 .. n : p = <<x, j>>
      OBVIOUS
    <3>2. PICK y \in T, k \in 1 .. n : q = <<y, k>>
      OBVIOUS
    <3>3. x = y /\ f[x] + j = f[y] + k
      BY <2>2, <3>1, <3>2
    <3>4. f[x] \in Nat /\ j \in Nat /\ k \in Nat
      OBVIOUS
    <3>5. j = k
      BY <3>3, <3>4
    <3> QED BY <3>1, <3>2, <3>3, <3>5
  <2>3. ASSUME NEW e \in E
        PROVE  \E p \in X : F[p] = e
    <3>1. PICK x \in T, j \in 1 .. n : e = <<x, f[x] + j>>
      OBVIOUS
    <3>2. <<x, j>> \in X /\ F[<<x, j>>] = e
      BY <3>1
    <3> QED BY <3>2
  <2> HIDE DEF F, X, E
  <2> QED BY <2>1, <2>2, <2>3 DEF Bijection, Injection, Surjection, IsInjective
<1>4. IsFiniteSet(E) /\ Cardinality(E) = Cardinality(X)
  <2> HIDE DEF F, X, E
  <2>1. ExistsBijection(X, E)
    BY <1>3 DEF ExistsBijection
  <2> QED BY <1>2, <2>1, FS_Bijection
<1>5. IsFiniteSet(Pairs(f, S)) /\ SumOver(f, S) \in Nat
  BY PairsFinite
<1>6. Pairs(g, S) = Pairs(f, S) \cup E
  <2>1. ASSUME NEW q \in Pairs(g, S) PROVE q \in Pairs(f, S) \cup E
    <3>1. PICK x \in S, j \in Nat : j \in 1 .. g[x] /\ q = <<x, j>>
      BY DEF Pairs
    <3>2. f[x] \in Nat /\ g[x] = IF x \in T THEN f[x] + n ELSE f[x]
      OBVIOUS
    <3>3. CASE j \in 1 .. f[x]
      BY <3>1, <3>3 DEF Pairs
    <3>4. CASE j \notin 1 .. f[x]
      <4>1. x \in T /\ j - f[x] \in 1 .. n /\ j = f[x] + (j - f[x])
        BY <3>1, <3>2, <3>4
      <4> QED BY <3>1, <4>1
    <3> QED BY <3>3, <3>4
  <2>2. ASSUME NEW q \in Pairs(f, S) PROVE q \in Pairs(g, S)
    <3>1. PICK x \in S, j \in Nat : j \in 1 .. f[x] /\ q = <<x, j>>
      BY DEF Pairs
    <3>2. f[x] \in Nat /\ g[x] = IF x \in T THEN f[x] + n ELSE f[x]
      OBVIOUS
    <3>3. j \in 1 .. g[x]
      BY <3>1, <3>2
    <3> QED BY <3>1, <3>3 DEF Pairs
  <2>3. ASSUME NEW q \in E PROVE q \in Pairs(g, S)
    <3>1. PICK x \in T, j \in 1 .. n : q = <<x, f[x] + j>>
      OBVIOUS
    <3>2. x \in S /\ f[x] \in Nat /\ g[x] = f[x] + n
      OBVIOUS
    <3>3. f[x] + j \in 1 .. g[x]
      BY <3>1, <3>2
    <3> QED BY <3>1, <3>2, <3>3 DEF Pairs
  <2> HIDE DEF E
  <2> QED BY <2>1, <2>2, <2>3
<1>7. Pairs(f, S) \cap E = {}
  <2>1. ASSUME NEW q \in Pairs(f, S), q \in E PROVE FALSE
    <3>1. PICK x \in S, j \in Nat : j \in 1 .. f[x] /\ q = <<x, j>>
      BY DEF Pairs
    <3>2. PICK y \in T, k \in 1 .. n : q = <<y, f[y] + k>>
      BY <2>1
    <3>3. x = y /\ j = f[x] + k /\ f[x] \in Nat
      BY <3>1, <3>2
    <3> QED BY <3>1, <3>2, <3>3
  <2> QED BY <2>1
<1> HIDE DEF E, X, F
<1>8. Cardinality(Pairs(f, S) \cup E) = Cardinality(Pairs(f, S)) + Cardinality(E) - Cardinality({})
  BY <1>4, <1>5, <1>7, FS_Union
<1>9. Cardinality({}) = 0
  BY FS_EmptySet
<1>10. SumOver(g, S) = Cardinality(Pairs(f, S) \cup E) /\ SumOver(f, S) = Cardinality(Pairs(f, S))
  BY <1>6 DEF SumOver, Pairs
<1>11. SumOver(g, S) = SumOver(f, S) + Cardinality(E) - 0
  BY <1>8, <1>9, <1>10
<1>12. Cardinality(T) * n \in Nat /\ Cardinality(E) = Cardinality(T) * n
  BY <1>1, <1>2, <1>4
<1> QED BY <1>5, <1>11, <1>12

-----------------------------------------------------------------------------
(* The units of an asset in a list of chunks, and in a list of such lists.  *)

Units(chunk, a) == IF chunk.asset = a THEN chunk.count ELSE 0
Each(chunks, a) == [k \in DOMAIN chunks |-> Units(chunks[k], a)]
EachList(lists, a) == [i \in DOMAIN lists |-> Count(lists[i], a)]

LEMMA UnitsType ==
    ASSUME NEW chunk \in Chunk, NEW a
    PROVE  Units(chunk, a) \in Nat
BY DEF Chunk, Units

LEMMA CountSum ==
    ASSUME NEW chunks, NEW a
    PROVE  Count(chunks, a) = SumOver(Each(chunks, a), DOMAIN chunks)
BY DEF Count, Each, Units

LEMMA CountAllSum ==
    ASSUME NEW lists, NEW a
    PROVE  CountAll(lists, a) = SumOver(EachList(lists, a), DOMAIN lists)
BY DEF CountAll, EachList

LEMMA DomainFinite ==
    ASSUME NEW T, NEW s \in Seq(T)
    PROVE  DOMAIN s = 1 .. Len(s) /\ Len(s) \in Nat /\ IsFiniteSet(DOMAIN s)
<1>1. DOMAIN s = 1 .. Len(s) /\ Len(s) \in Nat
  OBVIOUS
<1>2. 1 \in Int /\ Len(s) \in Int
  BY <1>1
<1> QED BY <1>1, <1>2, FS_Interval

LEMMA EachType ==
    ASSUME NEW s \in Seq(Chunk), NEW a
    PROVE  \A k \in DOMAIN s : Each(s, a)[k] = Units(s[k], a) /\ Each(s, a)[k] \in Nat
<1>1. ASSUME NEW k \in DOMAIN s PROVE Units(s[k], a) \in Nat
  <2>1. s[k] \in Chunk
    OBVIOUS
  <2> QED BY <2>1, UnitsType
<1> QED BY <1>1 DEF Each

LEMMA CountType ==
    ASSUME NEW s \in Seq(Chunk), NEW a
    PROVE  Count(s, a) \in Nat
<1>1. IsFiniteSet(DOMAIN s)
  BY DomainFinite
<1> QED BY <1>1, EachType, PairsFinite, CountSum

LEMMA CountEmpty ==
    ASSUME NEW a
    PROVE  Count(<<>>, a) = 0
<1>1. \A k \in DOMAIN <<>> : Each(<<>>, a)[k] = 0
  OBVIOUS
<1> QED BY <1>1, SumZero, CountSum

\* A chunk more at the end.
LEMMA CountAppend ==
    ASSUME NEW s \in Seq(Chunk), NEW c \in Chunk, NEW a
    PROVE  Count(Append(s, c), a) = Count(s, a) + Units(c, a)
<1> DEFINE t == Append(s, c)
           n == Len(s) + 1
           D == DOMAIN s
<1>1. t \in Seq(Chunk) /\ DOMAIN t = D \cup {n} /\ D \cap {n} = {} /\ t[n] = c
      /\ \A k \in D : t[k] = s[k]
  OBVIOUS
<1>2. IsFiniteSet(D) /\ IsFiniteSet({n})
  BY DomainFinite, FS_Singleton
<1> HIDE DEF t, n, D
<1>3. \A k \in D \cup {n} : Each(t, a)[k] = Units(t[k], a) /\ Each(t, a)[k] \in Nat
  BY <1>1, EachType
<1>4. SumOver(Each(t, a), D \cup {n}) = SumOver(Each(t, a), D) + SumOver(Each(t, a), {n})
  BY <1>1, <1>2, <1>3, SumUnion
<1>5. SumOver(Each(t, a), {n}) = Units(c, a)
  <2>1. Each(t, a)[n] \in Nat /\ Each(t, a)[n] = Units(c, a)
    BY <1>1, <1>3
  <2> QED BY <2>1, PairsOfOne
<1>6. SumOver(Each(t, a), D) = SumOver(Each(s, a), D)
  <2>1. \A k \in D : Each(t, a)[k] = Each(s, a)[k]
    BY <1>1, <1>3, EachType DEF D
  <2> QED BY <2>1, SumSame
<1>7. Count(t, a) = SumOver(Each(t, a), D \cup {n}) /\ Count(s, a) = SumOver(Each(s, a), D)
  BY <1>1, CountSum DEF D
<1>8. Count(t, a) = Count(s, a) + Units(c, a)
  BY <1>4, <1>5, <1>6, <1>7
<1> QED BY <1>8 DEF t

\* Another chunk at a place.
LEMMA CountChanged ==
    ASSUME NEW s \in Seq(Chunk), NEW k \in DOMAIN s, NEW c \in Chunk, NEW a
    PROVE  /\ [s EXCEPT ![k] = c] \in Seq(Chunk)
           /\ Count([s EXCEPT ![k] = c], a) + Units(s[k], a) = Count(s, a) + Units(c, a)
<1> DEFINE t == [s EXCEPT ![k] = c]
<1>1. t \in Seq(Chunk) /\ DOMAIN t = DOMAIN s /\ t[k] = c /\ \A j \in DOMAIN s \ {k} : t[j] = s[j]
  OBVIOUS
<1> HIDE DEF t
<1>2. IsFiniteSet(DOMAIN s)
  BY DomainFinite
<1>3. \A j \in DOMAIN s : /\ Each(t, a)[j] = Units(t[j], a) /\ Each(t, a)[j] \in Nat
                          /\ Each(s, a)[j] = Units(s[j], a) /\ Each(s, a)[j] \in Nat
  BY <1>1, EachType
<1>4. /\ \A j \in DOMAIN s : Each(s, a)[j] \in Nat /\ Each(t, a)[j] \in Nat
      /\ \A j \in DOMAIN s \ {k} : Each(t, a)[j] = Each(s, a)[j]
  BY <1>1, <1>3
<1>5. SumOver(Each(t, a), DOMAIN s) + Each(s, a)[k] = SumOver(Each(s, a), DOMAIN s) + Each(t, a)[k]
  BY <1>2, <1>4, SumChanged
<1>6. Count(t, a) + Units(s[k], a) = Count(s, a) + Units(c, a)
  BY <1>1, <1>3, <1>5, CountSum
<1> QED BY <1>1, <1>6 DEF t

\* The first chunk gone.
LEMMA CountTail ==
    ASSUME NEW s \in Seq(Chunk), s # <<>>, NEW a
    PROVE  Count(s, a) = Units(s[1], a) + Count(Tail(s), a)
<1> DEFINE t == Tail(s)
           n == Len(s)
           R == 2 .. n
           h == [k \in DOMAIN t |-> k + 1]
<1>1. /\ n \in Nat /\ n > 0 /\ DOMAIN s = 1 .. n /\ t \in Seq(Chunk) /\ DOMAIN t = 1 .. n - 1
      /\ \A k \in DOMAIN t : t[k] = s[k + 1]
  OBVIOUS
<1> HIDE DEF t, n
<1>2. h \in Bijection(DOMAIN t, R)
  <2>1. h \in [DOMAIN t -> R]
    BY <1>1
  <2>2. \A x, y \in DOMAIN t : h[x] = h[y] => x = y
    BY <1>1
  <2>3. ASSUME NEW y \in R PROVE \E x \in DOMAIN t : h[x] = y
    <3>1. y - 1 \in DOMAIN t /\ h[y - 1] = y
      BY <1>1
    <3> QED BY <3>1
  <2> HIDE DEF h, R
  <2> QED BY <2>1, <2>2, <2>3 DEF Bijection, Injection, Surjection, IsInjective
<1>3. IsFiniteSet(DOMAIN t) /\ IsFiniteSet(DOMAIN s)
  BY <1>1, DomainFinite
<1>4. DOMAIN s = {1} \cup R /\ {1} \cap R = {}
  BY <1>1
<1>5. \A k \in DOMAIN s : Each(s, a)[k] = Units(s[k], a) /\ Each(s, a)[k] \in Nat
  BY EachType
<1>6. SumOver(Each(t, a), DOMAIN t) = SumOver(Each(s, a), R)
  <2>1. ASSUME NEW k \in DOMAIN t PROVE Each(t, a)[k] \in Nat /\ Each(s, a)[h[k]] = Each(t, a)[k]
    <3>1. h[k] = k + 1 /\ k + 1 \in DOMAIN s
      BY <1>1
    <3>2. Each(t, a)[k] = Units(t[k], a) /\ Each(t, a)[k] \in Nat
      BY <1>1, EachType
    <3> QED BY <1>1, <1>5, <3>1, <3>2
  <2> HIDE DEF h, R
  <2> QED BY <1>2, <1>3, <2>1, SumMoved
<1>7. IsFiniteSet({1}) /\ IsFiniteSet(R)
  <2> HIDE DEF R
  <2> QED BY <1>3, <1>4, FS_Singleton, FS_Subset
<1>8. SumOver(Each(s, a), {1} \cup R) = SumOver(Each(s, a), {1}) + SumOver(Each(s, a), R)
  <2> HIDE DEF R
  <2> QED BY <1>4, <1>5, <1>7, SumUnion
<1>9. SumOver(Each(s, a), {1}) = Units(s[1], a)
  <2>1. Each(s, a)[1] \in Nat /\ Each(s, a)[1] = Units(s[1], a)
    BY <1>4, <1>5
  <2> QED BY <2>1, PairsOfOne
<1>10. Count(s, a) = Units(s[1], a) + Count(t, a)
  BY <1>4, <1>6, <1>8, <1>9, CountSum
<1> QED BY <1>10 DEF t

Lists == Seq(Seq(Chunk))

LEMMA EachListType ==
    ASSUME NEW s \in Lists, NEW a
    PROVE  /\ IsFiniteSet(DOMAIN s)
           /\ \A i \in DOMAIN s : EachList(s, a)[i] = Count(s[i], a) /\ EachList(s, a)[i] \in Nat
<1>1. ASSUME NEW i \in DOMAIN s PROVE Count(s[i], a) \in Nat
  <2>1. s[i] \in Seq(Chunk)
    BY DEF Lists
  <2> QED BY <2>1, CountType
<1>2. IsFiniteSet(DOMAIN s)
  BY DomainFinite DEF Lists
<1> QED BY <1>1, <1>2 DEF EachList

LEMMA CountAllType ==
    ASSUME NEW s \in Lists, NEW a
    PROVE  CountAll(s, a) \in Nat
BY EachListType, PairsFinite, CountAllSum

\* Another list at a place.
LEMMA CountAllChanged ==
    ASSUME NEW s \in Lists, NEW i \in DOMAIN s, NEW c \in Seq(Chunk), NEW a
    PROVE  /\ [s EXCEPT ![i] = c] \in Lists
           /\ CountAll([s EXCEPT ![i] = c], a) + Count(s[i], a) = CountAll(s, a) + Count(c, a)
<1> DEFINE t == [s EXCEPT ![i] = c]
<1>1. t \in Lists /\ DOMAIN t = DOMAIN s /\ t[i] = c /\ \A j \in DOMAIN s \ {i} : t[j] = s[j]
  BY DEF Lists
<1> HIDE DEF t
<1>2. IsFiniteSet(DOMAIN s)
  BY EachListType
<1>3. \A j \in DOMAIN s : /\ EachList(t, a)[j] = Count(t[j], a) /\ EachList(t, a)[j] \in Nat
                          /\ EachList(s, a)[j] = Count(s[j], a) /\ EachList(s, a)[j] \in Nat
  BY <1>1, EachListType
<1>4. /\ \A j \in DOMAIN s : EachList(s, a)[j] \in Nat /\ EachList(t, a)[j] \in Nat
      /\ \A j \in DOMAIN s \ {i} : EachList(t, a)[j] = EachList(s, a)[j]
  BY <1>1, <1>3
<1>5. SumOver(EachList(t, a), DOMAIN s) + EachList(s, a)[i]
        = SumOver(EachList(s, a), DOMAIN s) + EachList(t, a)[i]
  BY <1>2, <1>4, SumChanged
<1>6. CountAll(t, a) + Count(s[i], a) = CountAll(s, a) + Count(c, a)
  BY <1>1, <1>3, <1>5, CountAllSum
<1> QED BY <1>1, <1>6 DEF t

\* As many units more on every list of a part.
LEMMA CountAllSpread ==
    ASSUME NEW s \in Lists, NEW t \in Lists, DOMAIN t = DOMAIN s, NEW a, NEW n \in Nat,
           NEW T \in SUBSET DOMAIN s,
           \A i \in DOMAIN s : Count(t[i], a) = IF i \in T THEN Count(s[i], a) + n ELSE Count(s[i], a)
    PROVE  CountAll(t, a) = CountAll(s, a) + Cardinality(T) * n
<1>1. IsFiniteSet(DOMAIN s)
  BY EachListType
<1>2. \A j \in DOMAIN s : /\ EachList(t, a)[j] = Count(t[j], a)
                          /\ EachList(s, a)[j] = Count(s[j], a) /\ EachList(s, a)[j] \in Nat
  BY EachListType
<1>3. \A x \in DOMAIN s :
        /\ EachList(s, a)[x] \in Nat
        /\ EachList(t, a)[x] = IF x \in T THEN EachList(s, a)[x] + n ELSE EachList(s, a)[x]
  BY <1>2
<1>4. SumOver(EachList(t, a), DOMAIN s) = SumOver(EachList(s, a), DOMAIN s) + Cardinality(T) * n
  BY <1>1, <1>3, SumSpread
<1> QED BY <1>4, CountAllSum

-----------------------------------------------------------------------------
(* What the interpreter is built from.                                     *)

\* The first of some places.
LEMMA FirstPlace ==
    ASSUME NEW I \in SUBSET Nat, I # {}
    PROVE  Min(I) \in I /\ \A u \in I : Min(I) <= u
<1>1. PICK t \in I : \A u \in I : ~(<<u, t>> \in OpToRel(<, Nat))
  BY NatLessThanWellFounded, WFMin
<1>2. ASSUME NEW u \in I
      PROVE  t <= u
  <2>1. u < t => <<u, t>> \in OpToRel(<, Nat)
    BY DEF OpToRel
  <2>2. ~(u < t)
    BY <1>1, <2>1, Zenon
  <2> QED BY <2>2
<1> QED BY <1>2 DEF Min

\* An output holds an aggregable asset once, and zero of none.
CompactList(s) ==
    \A j, k \in DOMAIN s :
        /\ s[k].count > 0
        /\ j # k /\ s[j].asset = s[k].asset => Aggregation[s[k].asset] # "aggregable"

LEMMA Moved ==
    ASSUME NEW x \in Nat, NEW y \in Nat, NEW z \in Nat, NEW u \in Nat, NEW v,
           x + y = z + v, v = y + u
    PROVE  x = z + u
OBVIOUS

\* addAssetToOutput() adds the units of the chunk and nothing else.
LEMMA AddedToOutput ==
    ASSUME NEW held \in Seq(Chunk), NEW chunk \in Chunk
    PROVE  /\ addAssetToOutput(held, chunk) \in Seq(Chunk)
           /\ \A a : Count(addAssetToOutput(held, chunk), a) = Count(held, a) + Units(chunk, a)
           /\ CompactList(held) /\ chunk.count > 0 => CompactList(addAssetToOutput(held, chunk))
<1> DEFINE I == {i \in 1 .. Len(held) : held[i].asset = chunk.asset}
           k == IF I # {} THEN Min(I) ELSE 0
           c == [asset |-> held[k].asset, count |-> held[k].count + chunk.count]
           merged == [held EXCEPT ![k] = c]
<1>1. I \in SUBSET Nat /\ DOMAIN held = 1 .. Len(held)
  OBVIOUS
<1>2. I # {} => k \in DOMAIN held /\ held[k].asset = chunk.asset
  BY <1>1, FirstPlace
<1>3. addAssetToOutput(held, chunk) =
        IF Aggregation[chunk.asset] = "aggregable" /\ k # 0
        THEN [held EXCEPT ![k].count = held[k].count + chunk.count] ELSE Append(held, chunk)
  BY DEF addAssetToOutput, SelectInSeq
<1>4. CASE Aggregation[chunk.asset] = "aggregable" /\ I # {}
  <2>1. k \in DOMAIN held /\ held[k].asset = chunk.asset /\ k # 0
    BY <1>1, <1>2, <1>4
  <2> HIDE DEF k
  <2>2. held[k] \in Chunk /\ c \in Chunk
    <3>1. held[k] \in Chunk
      BY <2>1
    <3>2. held[k].asset \in Assets /\ held[k].count + chunk.count \in Nat
      BY <3>1 DEF Chunk
    <3> QED BY <3>1, <3>2 DEF Chunk
  <2>3. addAssetToOutput(held, chunk) = merged
    <3>1. [held[k] EXCEPT !.count = held[k].count + chunk.count] = c
      BY <2>2 DEF Chunk
    <3>2. [held EXCEPT ![k].count = held[k].count + chunk.count]
            = [held EXCEPT ![k] = [held[k] EXCEPT !.count = held[k].count + chunk.count]]
      OBVIOUS
    <3> QED BY <1>3, <1>4, <2>1, <3>1, <3>2
  <2>4. merged \in Seq(Chunk)
    BY <2>1, <2>2
  <2>5. ASSUME NEW a PROVE Count(merged, a) = Count(held, a) + Units(chunk, a)
    <3>1. Count(merged, a) + Units(held[k], a) = Count(held, a) + Units(c, a)
      <4> HIDE DEF c
      <4> QED BY <2>1, <2>2, CountChanged
    <3>2. Units(c, a) = Units(held[k], a) + Units(chunk, a)
      BY <2>1, <2>2 DEF Units, Chunk
    <3> HIDE DEF c
    <3>3. /\ Units(held[k], a) \in Nat /\ Units(chunk, a) \in Nat /\ Count(held, a) \in Nat
          /\ Count(merged, a) \in Nat
      BY <2>2, <2>4, UnitsType, CountType
    <3> HIDE DEF merged
    <3> QED BY <3>1, <3>2, <3>3, Moved
  <2>6. ASSUME CompactList(held), chunk.count > 0 PROVE CompactList(merged)
    <3>1. /\ DOMAIN merged = DOMAIN held /\ merged[k] = c
          /\ \A j \in DOMAIN held \ {k} : merged[j] = held[j]
      BY <2>1
    <3>2. \A j \in DOMAIN held : merged[j].asset = held[j].asset
      BY <3>1
    <3>3. \A j \in DOMAIN held : held[j].count > 0
      BY <2>6 DEF CompactList
    <3>4. \A j \in DOMAIN held : merged[j].count > 0
      <4>1. held[k].count \in Nat /\ chunk.count \in Nat /\ c.count = held[k].count + chunk.count
        BY <2>2 DEF Chunk
      <4>2. c.count > 0
        BY <2>6, <4>1
      <4> QED BY <3>1, <3>3, <4>2
    <3> HIDE DEF merged
    <3> QED BY <2>6, <3>1, <3>2, <3>4 DEF CompactList
  <2> QED BY <2>3, <2>4, <2>5, <2>6
<1>5. CASE ~(Aggregation[chunk.asset] = "aggregable" /\ I # {})
  <2>1. addAssetToOutput(held, chunk) = Append(held, chunk)
    BY <1>3, <1>5
  <2>2. \A a : Count(Append(held, chunk), a) = Count(held, a) + Units(chunk, a)
    BY CountAppend
  <2>3. ASSUME CompactList(held), chunk.count > 0 PROVE CompactList(Append(held, chunk))
    <3> DEFINE t == Append(held, chunk)
               n == Len(held) + 1
    <3>1. /\ DOMAIN t = DOMAIN held \cup {n} /\ t[n] = chunk
          /\ \A j \in DOMAIN held : t[j] = held[j]
      OBVIOUS
    <3>2. \A j \in DOMAIN held : held[j].asset = chunk.asset => Aggregation[chunk.asset] # "aggregable"
      BY <1>1, <1>5
    <3> HIDE DEF t, n
    <3>3. CompactList(t)
      BY <2>3, <3>1, <3>2 DEF CompactList
    <3> QED BY <3>3 DEF t
  <2> QED BY <2>1, <2>2, <2>3
<1> QED BY <1>4, <1>5

\* The inputs with assets, counted off in their order.
LEMMA NthInput ==
    ASSUME NEW t \in Transactions \cup Orders
    PROVE  /\ IsFiniteSet(Full(t)) /\ Cardinality(Full(t)) \in Nat
           /\ [k \in 1 .. Cardinality(Full(t)) |-> Nth(t, k)]
                \in Bijection(1 .. Cardinality(Full(t)), Full(t))
<1> DEFINE F == Full(t)
           n == Cardinality(F)
           UpTo(i) == {j \in F : j <= i}
           rank == [i \in F |-> Cardinality(UpTo(i))]
           h == [k \in 1 .. n |-> Nth(t, k)]
<1>1. F \in SUBSET (1 .. Len(t.inputs)) /\ Len(t.inputs) \in Nat
  BY TransferConstants DEF IsTransaction, Full
<1>2. IsFiniteSet(F) /\ n \in Nat
  <2>1. 1 \in Int /\ Len(t.inputs) \in Int
    BY <1>1
  <2>2. IsFiniteSet(1 .. Len(t.inputs))
    BY <2>1, FS_Interval
  <2> QED BY <1>1, <2>2, FS_Subset, FS_CardinalityType
<1>3. \A k \in 1 .. n : Nth(t, k) = CHOOSE i \in F : Cardinality(UpTo(i)) = k
  BY DEF Nth
<1>4. \A i \in F : i \in Nat
  BY <1>1
<1> HIDE DEF F
<1>5. \A i \in F : /\ UpTo(i) \in SUBSET F /\ IsFiniteSet(UpTo(i)) /\ i \in UpTo(i)
                   /\ Cardinality(UpTo(i)) \in Nat /\ Cardinality(UpTo(i)) <= n
  <2>1. ASSUME NEW i \in F
        PROVE  UpTo(i) \in SUBSET F /\ i \in UpTo(i)
    BY <1>4
  <2> HIDE DEF UpTo
  <2> QED BY <1>2, <2>1, FS_Subset, FS_CardinalityType
<1>6. \A i \in F : Cardinality(UpTo(i)) \in 1 .. n
  <2>1. ASSUME NEW i \in F PROVE Cardinality(UpTo(i)) # 0
    <3> HIDE DEF UpTo
    <3> QED BY <1>5, FS_EmptySet
  <2> HIDE DEF UpTo
  <2> QED BY <1>2, <1>5, <2>1
<1>7. \A i, j \in F : Cardinality(UpTo(i)) = Cardinality(UpTo(j)) => i = j
  <2>1. ASSUME NEW i \in F, NEW j \in F, i < j
        PROVE  Cardinality(UpTo(i)) # Cardinality(UpTo(j))
    <3>1. UpTo(i) \in SUBSET UpTo(j) /\ j \notin UpTo(i)
      BY <1>4, <2>1
    <3> HIDE DEF UpTo
    <3>2. UpTo(i) # UpTo(j) /\ IsFiniteSet(UpTo(j))
      BY <1>5, <3>1
    <3> QED BY <3>1, <3>2, FS_Subset
  <2> HIDE DEF UpTo
  <2>2. \A i, j \in F : i < j \/ j < i \/ i = j
    BY <1>4
  <2> QED BY <2>1, <2>2
<1>8. rank \in [F -> 1 .. n] /\ (\A i \in F : rank[i] = Cardinality(UpTo(i)))
  BY <1>6
<1> HIDE DEF rank
<1>9. \A k \in 1 .. n : \E i \in F : Cardinality(UpTo(i)) = k
  <2> HIDE DEF UpTo
  <2>1. rank \in Injection(F, 1 .. n)
    BY <1>7, <1>8 DEF Injection, IsInjective
  <2>2. IsFiniteSet(1 .. n) /\ Cardinality(1 .. n) = n
    <3>1. 1 \in Int /\ n \in Int
      BY <1>2
    <3>2. IsFiniteSet(1 .. n) /\ Cardinality(1 .. n) = IF 1 > n THEN 0 ELSE n - 1 + 1
      BY <3>1, FS_Interval
    <3> HIDE DEF n
    <3> QED BY <1>2, <3>2
  <2>3. rank \in Surjection(F, 1 .. n)
    BY <2>1, <2>2, FS_Injection
  <2> QED BY <1>8, <2>3 DEF Surjection
<1>10. \A k \in 1 .. n : Nth(t, k) \in F /\ Cardinality(UpTo(Nth(t, k))) = k
  <2> HIDE DEF UpTo, n
  <2> QED BY <1>3, <1>9
<1>11. h \in Bijection(1 .. n, F)
  <2> HIDE DEF UpTo, n
  <2>1. h \in [1 .. n -> F] /\ \A k \in 1 .. n : h[k] = Nth(t, k)
    BY <1>10
  <2> HIDE DEF h
  <2>2. \A x, y \in 1 .. n : h[x] = h[y] => x = y
    BY <1>10, <2>1
  <2>3. ASSUME NEW i \in F PROVE \E k \in 1 .. n : h[k] = i
    <3>1. Cardinality(UpTo(i)) \in 1 .. n
      BY <1>6
    <3>2. h[Cardinality(UpTo(i))] = i
      BY <1>7, <1>10, <2>1, <3>1
    <3> QED BY <3>1, <3>2
  <2> QED BY <2>1, <2>2, <2>3 DEF Bijection, Injection, Surjection, IsInjective
<1> QED BY <1>2, <1>11 DEF F

Given(t) == [i \in DOMAIN t.inputs |-> t.inputs[i].assets]

\* The copy of the inputs is a list of lists, and for a transfer or a burn it has the units
\* of the inputs.
LEMMA CopiedCounts ==
    ASSUME NEW t \in Transactions \cup Orders
    PROVE  /\ Copied(t) \in Lists /\ Given(t) \in Lists
           /\ t.type # "issuance" => \A a : CountAll(Copied(t), a) = CountAll(Given(t), a)
           /\ t.type = "issuance" => \A a : CountAll(Copied(t), a) = Count(<<t.issued>>, a)
<1>1. /\ Len(t.inputs) \in Nat /\ DOMAIN t.inputs = 1 .. Len(t.inputs) /\ t.issued \in Chunk
      /\ \A i \in DOMAIN t.inputs : t.inputs[i].assets \in Seq(Chunk)
  BY TransferConstants DEF IsTransaction
<1>2. Given(t) \in Lists
  <2>1. Given(t) \in [1 .. Len(t.inputs) -> Seq(Chunk)]
    BY <1>1 DEF Given
  <2> QED BY <1>1, <2>1 DEF Lists
<1>3. CASE t.type = "issuance"
  <2>1. Copied(t) = << <<t.issued>> >>
    BY <1>3 DEF Copied
  <2> DEFINE s == << <<t.issued>> >>
  <2>2. <<t.issued>> \in Seq(Chunk) /\ s \in Lists /\ DOMAIN s = {1} /\ s[1] = <<t.issued>>
    BY <1>1 DEF Lists
  <2>3. ASSUME NEW a PROVE CountAll(s, a) = Count(<<t.issued>>, a)
    <3> HIDE DEF s
    <3>1. EachList(s, a)[1] = Count(<<t.issued>>, a) /\ EachList(s, a)[1] \in Nat
      BY <2>2, EachListType
    <3>2. SumOver(EachList(s, a), {1}) = EachList(s, a)[1]
      BY <3>1, PairsOfOne
    <3> QED BY <2>2, <3>1, <3>2, CountAllSum
  <2> QED BY <1>2, <1>3, <2>1, <2>2, <2>3
<1>4. CASE t.type # "issuance"
  <2> DEFINE n == Cardinality(Full(t))
             h == [k \in 1 .. n |-> Nth(t, k)]
             c == Copied(t)
             g == Given(t)
             F == Full(t)
             R == DOMAIN t.inputs \ F
  <2>1. h \in Bijection(1 .. n, F) /\ n \in Nat /\ IsFiniteSet(F)
    BY NthInput
  <2>2. h \in [1 .. n -> F] /\ \A k \in 1 .. n : h[k] = Nth(t, k)
    BY <2>1 DEF Bijection, Injection
  <2>3. F \in SUBSET DOMAIN t.inputs
    BY DEF Full
  <2>4. c \in [1 .. n -> Seq(Chunk)] /\ \A k \in 1 .. n : c[k] = g[h[k]]
    <3>1. \A k \in 1 .. n : Nth(t, k) \in DOMAIN t.inputs
      BY <2>2, <2>3
    <3>2. c = [k \in 1 .. n |-> t.inputs[Nth(t, k)].assets]
      BY <1>4 DEF Copied
    <3> QED BY <1>1, <2>2, <3>1, <3>2 DEF Given
  <2>5. c \in Lists /\ DOMAIN c = 1 .. n
    BY <2>1, <2>4 DEF Lists
  <2>6. DOMAIN g = F \cup R /\ F \cap R = {}
    BY <2>3 DEF Given
  <2>7. \A i \in R : g[i] = <<>>
    BY DEF Full, Given
  <2>8. g \in Lists
    BY <1>2
  <2> HIDE DEF n, h, c, g, F, R
  <2>9. ASSUME NEW a PROVE CountAll(c, a) = CountAll(g, a)
    <3>1. IsFiniteSet(1 .. n) /\ IsFiniteSet(R)
      BY <2>5, <2>6, <2>8, EachListType, FS_Subset
    <3>2. \A i \in F \cup R : EachList(g, a)[i] = Count(g[i], a) /\ EachList(g, a)[i] \in Nat
      BY <2>6, <2>8, EachListType
    <3>3. \A k \in 1 .. n : EachList(c, a)[k] \in Nat /\ EachList(g, a)[h[k]] = EachList(c, a)[k]
      <4>1. \A k \in 1 .. n : EachList(c, a)[k] \in Nat /\ EachList(c, a)[k] = Count(c[k], a)
        BY <2>5, EachListType
      <4> QED BY <2>2, <2>4, <3>2, <4>1
    <3>4. SumOver(EachList(c, a), 1 .. n) = SumOver(EachList(g, a), F)
      BY <2>1, <3>1, <3>3, SumMoved
    <3>5. SumOver(EachList(g, a), R) = 0
      <4>1. \A i \in R : EachList(g, a)[i] = 0
        BY <2>7, <3>2, CountEmpty
      <4> QED BY <4>1, SumZero
    <3>6. SumOver(EachList(g, a), F \cup R) = SumOver(EachList(g, a), F) + SumOver(EachList(g, a), R)
      BY <2>1, <2>6, <3>1, <3>2, SumUnion
    <3>7. SumOver(EachList(g, a), F) \in Nat
      BY <2>1, <3>2, PairsFinite
    <3>8. SumOver(EachList(g, a), F \cup R) = SumOver(EachList(c, a), 1 .. n)
      BY <3>4, <3>5, <3>6, <3>7
    <3> QED BY <2>5, <2>6, <3>8, CountAllSum
  <2>10. \A a : CountAll(Copied(t), a) = CountAll(Given(t), a)
    BY <2>9 DEF c, g
  <2>11. Copied(t) \in Lists
    BY <2>5 DEF c
  <2> QED BY <1>2, <1>4, <2>10, <2>11
<1> QED BY <1>3, <1>4

-----------------------------------------------------------------------------
(* The shapes of the variables.                                            *)

Instruction == [skip : BOOLEAN, range : BOOLEAN, cut : BOOLEAN, percent : 0 .. 256,
                output : Nat, amount : Nat]
Work == [skip : BOOLEAN, range : BOOLEAN, output : Nat, amount : Nat, total : Nat,
         asset : Assets, left : Nat]

\* Only a script from the chain has ranges.
ScriptShape ==
    /\ script \in Seq(Instruction)
    /\ \A k \in DOMAIN script : script[k].range => tx \in Transactions /\ script[k] \in Instructions

Shape ==
    /\ tx \in Transactions \cup Orders /\ phase \in {"build", "read", "remove", "done", "refused"}
    /\ inputs \in Lists /\ outputs \in Lists /\ Len(outputs) = Len(tx.addresses)
    /\ ScriptShape /\ wanted \in [outputs : Lists, burns : Seq(Chunk)]
    /\ index \in Nat \ {0} /\ now \in Work /\ now.left <= now.total
    /\ phase # "remove" => now.total = 0
    /\ burned \in [Assets -> Nat]

\* A chunk with fewer units.
LEMMA FewerUnits ==
    ASSUME NEW s \in Lists, NEW i \in DOMAIN s, NEW k \in DOMAIN s[i], NEW n \in Nat,
           n <= s[i][k].count
    PROVE  [s EXCEPT ![i][k].count = @ - n] \in Lists
<1> DEFINE c == [s[i][k] EXCEPT !.count = s[i][k].count - n]
           r == [s[i] EXCEPT ![k] = c]
<1>1. s[i] \in Seq(Chunk)
  BY DEF Lists
<1>2. s[i][k] \in Chunk
  BY <1>1
<1>3. s[i][k].count \in Nat
  BY <1>2 DEF Chunk
<1>4. s[i][k].count - n \in Nat
  BY <1>3
<1>5. c \in Chunk
  BY <1>2, <1>4 DEF Chunk
<1>6. [s EXCEPT ![i][k].count = @ - n] = [s EXCEPT ![i] = r]
  OBVIOUS
<1> HIDE DEF c
<1>7. r \in Seq(Chunk)
  BY <1>1, <1>5
<1> HIDE DEF r
<1>8. [s EXCEPT ![i] = r] \in Lists
  BY <1>7 DEF Lists
<1> QED BY <1>6, <1>8

\* The chunk being routed is there.
LEMMA RoutedIsThere ==
    ASSUME inputs \in Lists, Routed # 0
    PROVE  /\ Routed \in DOMAIN inputs /\ inputs[Routed] \in Seq(Chunk)
           /\ Place \in DOMAIN inputs[Routed] /\ RoutedChunk \in Chunk
<1> DEFINE I == {i \in 1 .. Len(inputs) : \E k \in DOMAIN inputs[i] : HasUnits(inputs[i][k])}
           J == {k \in 1 .. Len(inputs[Routed]) : HasUnits(inputs[Routed][k])}
<1>1. Routed = IF I # {} THEN Min(I) ELSE 0
  BY DEF Routed, SelectInSeq
<1>2. I \in SUBSET Nat /\ I # {}
  BY <1>1
<1>3. Routed \in I
  <2> HIDE DEF I
  <2> QED BY <1>1, <1>2, FirstPlace
<1>4. Routed \in DOMAIN inputs /\ inputs[Routed] \in Seq(Chunk)
  BY <1>3 DEF Lists
<1>5. DOMAIN inputs[Routed] = 1 .. Len(inputs[Routed])
  BY <1>4
<1>6. J # {} /\ J \in SUBSET Nat
  BY <1>3, <1>5
<1>7. Place = IF J # {} THEN Min(J) ELSE 0
  BY DEF Place, SelectInSeq
<1>8. Place \in J
  <2> HIDE DEF J
  <2> QED BY <1>6, <1>7, FirstPlace
<1>9. Place \in DOMAIN inputs[Routed]
  BY <1>5, <1>8
<1> QED BY <1>4, <1>9 DEF RoutedChunk

\* A script with one plain instruction more.
LEMMA PlainAppended ==
    ASSUME ScriptShape, NEW o \in Nat, NEW n \in Nat, script' = Append(script, Plain(o, n)), tx' = tx
    PROVE  ScriptShape'
<1> DEFINE p == Plain(o, n)
<1>1. p \in Instruction /\ ~p.range
  BY DEF Plain, Instruction
<1> HIDE DEF p
<1>2. script' = Append(script, p)
  BY DEF p
<1>3. /\ script' \in Seq(Instruction) /\ DOMAIN script' = 1 .. Len(script) + 1
      /\ DOMAIN script = 1 .. Len(script) /\ Len(script) \in Nat
      /\ script'[Len(script) + 1] = p /\ \A k \in DOMAIN script : script'[k] = script[k]
  BY <1>1, <1>2 DEF ScriptShape
<1>4. ASSUME NEW k \in DOMAIN script', script'[k].range
      PROVE  tx' \in Transactions /\ script'[k] \in Instructions
  <2>1. k # Len(script) + 1
    BY <1>1, <1>3, <1>4
  <2>2. k \in DOMAIN script
    BY <1>3, <2>1
  <2> QED BY <1>3, <1>4, <2>2 DEF ScriptShape
<1> QED BY <1>3, <1>4 DEF ScriptShape

\* What is taken is no more than is there.
LEMMA LeastOfTwo ==
    ASSUME NEW m \in Nat, NEW n \in Nat
    PROVE  Least(m, n) \in Nat /\ Least(m, n) <= m /\ Least(m, n) <= n
BY DEF Least

\* The wallet's steps keep the shapes.
LEMMA RouteShape ==
    ASSUME Shape, RouteToOutput \/ RouteToBurn
    PROVE  Shape'
<1>0. /\ inputs \in Lists /\ Routed # 0 /\ ScriptShape /\ wanted \in [outputs : Lists, burns : Seq(Chunk)]
      /\ UNCHANGED <<tx, phase, index, allowSkip, now, outputs, burned>>
  BY DEF Shape, RouteToOutput, RouteToBurn
<1>1. /\ Routed \in DOMAIN inputs /\ inputs[Routed] \in Seq(Chunk)
      /\ Place \in DOMAIN inputs[Routed] /\ RoutedChunk \in Chunk
      /\ RoutedChunk = inputs[Routed][Place]
  BY <1>0, RoutedIsThere DEF RoutedChunk
<1>2. RoutedChunk.count \in Nat
  BY <1>1 DEF Chunk
<1>3. wanted.outputs \in Lists /\ wanted.burns \in Seq(Chunk)
  BY <1>0
<1>4. ASSUME NEW n \in Nat, n <= RoutedChunk.count PROVE Less(n) \in Lists
  <2>1. n <= inputs[Routed][Place].count
    BY <1>1, <1>4
  <2> QED BY <1>0, <1>1, <2>1, FewerUnits DEF Less
<1>5. CASE RouteToOutput
  <2> DEFINE chunk == RoutedChunk
             o == Served(chunk)
             k == SelectInSeq(wanted.outputs[o], LAMBDA w : Wants(chunk, w))
             n == Take(chunk, wanted.outputs[o][k])
             I == {i \in 1 .. Len(wanted.outputs) :
                     \E j \in DOMAIN wanted.outputs[i] : Wants(chunk, wanted.outputs[i][j])}
             J == {j \in 1 .. Len(wanted.outputs[o]) : Wants(chunk, wanted.outputs[o][j])}
  <2>1. /\ o # 0 /\ script' = Append(script, Plain(o - 1, n))
        /\ wanted' = [wanted EXCEPT !.outputs[o][k].count = @ - n] /\ inputs' = Less(n)
    BY <1>5 DEF RouteToOutput
  <2>2. o = IF I # {} THEN Min(I) ELSE 0
    BY DEF Served, SelectInSeq
  <2>3. k = IF J # {} THEN Min(J) ELSE 0
    BY DEF SelectInSeq
  <2> HIDE DEF chunk, o, k
  <2>4. o \in I
    <3>1. I \in SUBSET Nat
      OBVIOUS
    <3> HIDE DEF I
    <3>2. I # {}
      BY <2>1, <2>2
    <3> QED BY <2>2, <3>1, <3>2, FirstPlace
  <2>5. o \in DOMAIN wanted.outputs /\ wanted.outputs[o] \in Seq(Chunk) /\ o - 1 \in Nat
    BY <1>3, <2>4 DEF Lists
  <2>6. k \in J
    <3>1. DOMAIN wanted.outputs[o] = 1 .. Len(wanted.outputs[o])
      BY <2>5
    <3>2. J \in SUBSET Nat /\ J # {}
      BY <2>4, <3>1
    <3> HIDE DEF J
    <3> QED BY <2>3, <3>2, FirstPlace
  <2>7. k \in DOMAIN wanted.outputs[o] /\ wanted.outputs[o][k] \in Chunk
    BY <2>5, <2>6
  <2>8. wanted.outputs[o][k].count \in Nat
    BY <2>7 DEF Chunk
  <2>9. n \in Nat /\ n <= RoutedChunk.count /\ n <= wanted.outputs[o][k].count
    BY <1>2, <2>8, LeastOfTwo DEF Take, chunk
  <2> HIDE DEF n
  <2>10. ScriptShape'
    BY <1>0, <2>1, <2>5, <2>9, PlainAppended
  <2>11. wanted' \in [outputs : Lists, burns : Seq(Chunk)]
    <3> DEFINE new == [wanted.outputs EXCEPT ![o][k].count = @ - n]
    <3>1. new \in Lists
      BY <1>3, <2>5, <2>7, <2>9, FewerUnits
    <3>2. wanted' = [wanted EXCEPT !.outputs = new]
      BY <2>1
    <3> HIDE DEF new
    <3> QED BY <1>0, <3>1, <3>2
  <2>12. inputs' \in Lists
    BY <1>4, <2>1, <2>9
  <2> QED BY <1>0, <2>10, <2>11, <2>12 DEF Shape
<1>6. CASE RouteToBurn
  <2> DEFINE chunk == RoutedChunk
             k == SelectInSeq(wanted.burns, LAMBDA w : Wants(chunk, w))
             n == Least(chunk.count, wanted.burns[k].count)
             J == {j \in 1 .. Len(wanted.burns) : Wants(chunk, wanted.burns[j])}
  <2>1. /\ k # 0 /\ script' = Append(script, Plain(BurnOutput, n))
        /\ wanted' = [wanted EXCEPT !.burns[k].count = @ - n] /\ inputs' = Less(n)
    BY <1>6 DEF RouteToBurn
  <2>2. k = IF J # {} THEN Min(J) ELSE 0
    BY DEF SelectInSeq
  <2> HIDE DEF chunk, k
  <2>3. k \in J
    <3>1. J \in SUBSET Nat /\ J # {}
      BY <2>1, <2>2
    <3> HIDE DEF J
    <3> QED BY <2>2, <3>1, FirstPlace
  <2>4. k \in DOMAIN wanted.burns /\ wanted.burns[k] \in Chunk
    BY <1>3, <2>3
  <2>5. wanted.burns[k].count \in Nat
    BY <2>4 DEF Chunk
  <2>6. n \in Nat /\ n <= RoutedChunk.count /\ n <= wanted.burns[k].count
    BY <1>2, <2>5, LeastOfTwo DEF chunk
  <2> HIDE DEF n
  <2>7. ScriptShape'
    BY <1>0, <2>1, <2>6, PlainAppended DEF BurnOutput
  <2>8. wanted' \in [outputs : Lists, burns : Seq(Chunk)]
    <3> DEFINE c == [wanted.burns[k] EXCEPT !.count = wanted.burns[k].count - n]
               new == [wanted.burns EXCEPT ![k] = c]
    <3>1. wanted.burns[k].count - n \in Nat
      BY <2>5, <2>6
    <3>2. c \in Chunk
      BY <2>4, <3>1 DEF Chunk
    <3>3. wanted' = [wanted EXCEPT !.burns = new]
      BY <2>1
    <3> HIDE DEF c
    <3>4. new \in Seq(Chunk)
      BY <1>3, <2>4, <3>2
    <3> HIDE DEF new
    <3> QED BY <1>0, <3>3, <3>4
  <2>9. inputs' \in Lists
    BY <1>4, <2>1, <2>6
  <2> QED BY <1>0, <2>7, <2>8, <2>9 DEF Shape
<1> QED BY <1>5, <1>6

\* No asset on any output, and no instruction at work.
LEMMA NothingYet ==
    ASSUME NEW t \in Transactions \cup Orders
    PROVE  /\ Empty(t) \in Lists /\ Len(Empty(t)) = Len(t.addresses) /\ Len(t.addresses) \in Nat \ {0}
           /\ \A a : CountAll(Empty(t), a) = 0
           /\ \A o \in DOMAIN Empty(t) : CompactList(Empty(t)[o])
           /\ NoInstruction \in Work /\ NoInstruction.total = 0 /\ NoInstruction.left = 0
           /\ Nothing \in [Assets -> Nat] /\ \A a \in Assets : Nothing[a] = 0
<1>1. /\ Len(t.addresses) \in Nat \ {0} /\ DOMAIN t.addresses = 1 .. Len(t.addresses)
      /\ t.issued \in Chunk
  BY TransferConstants DEF IsTransaction
<1> DEFINE e == Empty(t)
<1>2. e \in [1 .. Len(t.addresses) -> {<<>>}]
  BY <1>1 DEF Empty
<1>3. <<>> \in Seq(Chunk)
  OBVIOUS
<1>4. e \in Lists /\ Len(e) = Len(t.addresses) /\ \A o \in DOMAIN e : e[o] = <<>>
  <2> DEFINE n == Len(t.addresses)
  <2>1. n \in Nat /\ e \in [1 .. n -> {<<>>}]
    BY <1>1, <1>2
  <2> HIDE DEF e, n
  <2>2. e \in [1 .. n -> Seq(Chunk)] /\ \A o \in DOMAIN e : e[o] = <<>>
    BY <1>3, <2>1
  <2>3. e \in Seq(Seq(Chunk)) /\ Len(e) = n
    <3> HIDE DEF Chunk
    <3> QED BY <2>1, <2>2
  <2> QED BY <2>2, <2>3 DEF Lists, n
<1> HIDE DEF e
<1>5. ASSUME NEW a PROVE CountAll(e, a) = 0
  <2>1. \A o \in DOMAIN e : EachList(e, a)[o] = 0
    BY <1>4, EachListType, CountEmpty
  <2> QED BY <2>1, SumZero, CountAllSum
<1>6. \A o \in DOMAIN e : CompactList(e[o])
  BY <1>4 DEF CompactList
<1>7. (CHOOSE a \in Assets : TRUE) \in Assets
  BY <1>1 DEF Chunk
<1>8. NoInstruction \in Work /\ NoInstruction.total = 0 /\ NoInstruction.left = 0
  BY <1>7 DEF NoInstruction, Work
<1>9. Nothing \in [Assets -> Nat] /\ \A a \in Assets : Nothing[a] = 0
  BY DEF Nothing
<1> QED BY <1>1, <1>4, <1>5, <1>6, <1>8, <1>9 DEF e

\* The chunk at the front of the input.
LEMMA FrontIsThere ==
    ASSUME Shape, ~Exhausted(index)
    PROVE  /\ index \in DOMAIN inputs /\ inputs[index] \in Seq(Chunk) /\ inputs[index] # <<>>
           /\ 1 \in DOMAIN inputs[index] /\ inputs[index][1] \in Chunk
           /\ inputs[index][1].count \in Nat /\ inputs[index][1].asset \in Assets
<1>1. index \in Nat \ {0} /\ inputs \in Lists
  BY DEF Shape
<1>2. index \in DOMAIN inputs /\ inputs[index] # <<>>
  BY <1>1 DEF Exhausted, Lists
<1>3. inputs[index] \in Seq(Chunk)
  BY <1>1, <1>2 DEF Lists
<1>4. 1 \in DOMAIN inputs[index]
  BY <1>2, <1>3
<1>5. inputs[index][1] \in Chunk
  BY <1>3, <1>4
<1> QED BY <1>2, <1>3, <1>4, <1>5 DEF Chunk

\* A percentage of a chunk is no more than the chunk.
LEMMA PartOfChunk ==
    ASSUME NEW c \in Nat, NEW p \in 0 .. 256
    PROVE  ((c * p) % Word) \div 256 \in Nat /\ ((c * p) % Word) \div 256 <= c
<1> DEFINE x == c * p
           y == x % Word
           z == y \div 256
<1>1. x \in Nat /\ x <= c * 256
  OBVIOUS
<1>2. Word \in Nat /\ Word > 0
  BY TransferConstants
<1> HIDE DEF x
<1>3. y \in Nat /\ y <= x
  BY <1>1, <1>2
<1> HIDE DEF y
<1>4. z \in Nat /\ z * 256 <= y
  BY <1>3
<1> HIDE DEF z
<1>5. z \in Nat /\ z <= c
  BY <1>1, <1>3, <1>4
<1> QED BY <1>5 DEF x, y, z

\* The amounts of an instruction.
LEMMA AmountShape ==
    ASSUME Shape, ~Exhausted(index), NEW i \in Instruction
    PROVE  /\ Amount(i) \in Nat /\ Total(i) \in Nat
           /\ Amount(i) = i.amount \/ Amount(i) <= inputs[index][1].count
<1>1. /\ i.amount \in Nat /\ i.percent \in 0 .. 256 /\ i.output \in Nat /\ i.range \in BOOLEAN
      /\ inputs[index][1].count \in Nat
  BY FrontIsThere DEF Instruction
<1>2. Amount(i) \in Nat /\ (Amount(i) = i.amount \/ Amount(i) <= inputs[index][1].count)
  BY <1>1, PartOfChunk DEF Amount
<1> DEFINE n == (i.output + 1) * Amount(i)
<1>3. n \in Nat
  BY <1>1, <1>2
<1> HIDE DEF n
<1>4. n % Word \in Nat
  BY <1>3, TransferConstants
<1>5. Total(i) = IF i.range THEN n % Word ELSE Amount(i)
  BY DEF Total, n
<1> QED BY <1>2, <1>4, <1>5

\* The catch keeps the shapes.
LEMMA CatchShape ==
    ASSUME Shape, Catch
    PROVE  Shape'
<1>1. tx \in Transactions \cup Orders
  BY DEF Shape
<1>2. inputs' \in Lists
  BY <1>1, CopiedCounts DEF Catch
<1>3. outputs' \in Lists /\ Len(outputs') = Len(tx.addresses)
  BY <1>1, NothingYet DEF Catch
<1>4. ScriptShape'
  BY DEF Catch, ScriptShape
<1>5. /\ now' = NoInstruction /\ NoInstruction \in Work
      /\ NoInstruction.left = 0 /\ NoInstruction.total = 0
  BY <1>1, NothingYet DEF Catch
<1>6. now' \in Work /\ now'.left <= now'.total /\ now'.total = 0
  BY <1>5
<1>7. burned' \in [Assets -> Nat]
  BY <1>1, NothingYet DEF Catch
<1> QED BY <1>2, <1>3, <1>4, <1>6, <1>7 DEF Shape, Catch

Refused == \/ Exhausted(index) \/ inputs[index][1].asset # now.asset
           \/ inputs[index][1].count < now.left /\ Aggregation[now.asset] = "hybrid"

\* A chunk, or a part of it, moves from the front of the input into the instruction.
LEMMA RemoveMoves ==
    ASSUME Shape, RemoveChunk, ~Refused
    PROVE  /\ inputs' \in Lists /\ index' \in Nat \ {0}
           /\ \A n \in Nat : Bounded(inputs, n) => Bounded(inputs', n)
           /\ \E m \in Nat :
                /\ m <= now.left /\ now' = [now EXCEPT !.left = now.left - m]
                /\ \A a : CountAll(inputs, a) = CountAll(inputs', a) + IF a = now.asset THEN m ELSE 0
           /\ UNCHANGED <<tx, phase, script, wanted, outputs, burned, unintentional, txType, malformed, stored>>
<1> DEFINE s == inputs[index]
           have == s[1].count
           used == have <= now.left
           c == [asset |-> s[1].asset, count |-> have - now.left]
           rest == IF used THEN Tail(s) ELSE [s EXCEPT ![1].count = have - now.left]
           m == IF used THEN have ELSE now.left
<1>1. ~Exhausted(index) /\ s[1].asset = now.asset
  BY DEF Refused
<1>2. /\ index \in DOMAIN inputs /\ s \in Seq(Chunk) /\ s # <<>> /\ 1 \in DOMAIN s
      /\ s[1] \in Chunk /\ have \in Nat /\ s[1].asset \in Assets
  BY <1>1, FrontIsThere
<1>3. /\ now' = [now EXCEPT !.left = IF used THEN now.left - have ELSE 0]
      /\ inputs' = [inputs EXCEPT ![index] = rest]
      /\ index' = index + 1 \/ index' = index
      /\ UNCHANGED <<tx, phase, script, wanted, outputs, burned, unintentional, txType, malformed, stored>>
  BY DEF RemoveChunk, Refused
<1>4. now.left \in Nat /\ index \in Nat \ {0} /\ inputs \in Lists
  BY DEF Shape, Work
<1>5. /\ m \in Nat /\ m <= now.left /\ now' = [now EXCEPT !.left = now.left - m]
      /\ index' \in Nat \ {0}
  <2> HIDE DEF have
  <2>1. now.left - m = IF used THEN now.left - have ELSE 0
    BY <1>2, <1>4
  <2>2. m \in Nat /\ m <= now.left
    BY <1>2, <1>4
  <2>3. index' \in Nat \ {0}
    BY <1>3, <1>4
  <2> HIDE DEF m, used
  <2>4. now' = [now EXCEPT !.left = now.left - m]
    BY <1>3, <2>1
  <2> QED BY <2>2, <2>3, <2>4
<1>6. /\ rest \in Seq(Chunk) /\ \A a : Count(s, a) = Count(rest, a) + IF a = now.asset THEN m ELSE 0
      /\ \A k \in DOMAIN rest : \E j \in DOMAIN s : rest[k].count <= s[j].count
  <2> HIDE DEF s
  <2>1. CASE used
    <3>1. rest = Tail(s) /\ m = have /\ Tail(s) \in Seq(Chunk)
      BY <1>2, <2>1
    <3>2. ASSUME NEW a PROVE Count(s, a) = Count(Tail(s), a) + IF a = now.asset THEN have ELSE 0
      <4>1. Count(s, a) = Units(s[1], a) + Count(Tail(s), a)
        BY <1>2, CountTail
      <4>2. Units(s[1], a) = IF a = now.asset THEN have ELSE 0
        BY <1>1 DEF Units
      <4>3. Count(Tail(s), a) \in Nat /\ Units(s[1], a) \in Nat
        BY <1>2, <3>1, CountType, UnitsType
      <4> QED BY <4>1, <4>2, <4>3
    <3>3. ASSUME NEW k \in DOMAIN Tail(s) PROVE \E j \in DOMAIN s : Tail(s)[k].count <= s[j].count
      <4>1. k + 1 \in DOMAIN s /\ Tail(s)[k] = s[k + 1]
        BY <1>2
      <4>2. s[k + 1] \in Chunk
        BY <1>2, <4>1
      <4>3. s[k + 1].count \in Nat
        BY <4>2 DEF Chunk
      <4>4. Tail(s)[k].count <= s[k + 1].count
        BY <4>1, <4>3
      <4> QED BY <4>1, <4>4
    <3> QED BY <3>1, <3>2, <3>3
  <2>2. CASE ~used
    <3>1. have - now.left \in Nat /\ m = now.left /\ c \in Chunk
      BY <1>2, <1>4, <2>2 DEF Chunk
    <3>2. rest = [s EXCEPT ![1] = c]
      <4>1. [s[1] EXCEPT !.count = have - now.left] = c
        BY <1>2 DEF Chunk
      <4>2. [s EXCEPT ![1].count = have - now.left] = [s EXCEPT ![1] = [s[1] EXCEPT !.count = have - now.left]]
        OBVIOUS
      <4> QED BY <2>2, <4>1, <4>2
    <3>3. ASSUME NEW a PROVE Count(s, a) = Count(rest, a) + IF a = now.asset THEN m ELSE 0
      <4>1. rest \in Seq(Chunk) /\ Count(rest, a) + Units(s[1], a) = Count(s, a) + Units(c, a)
        <5> HIDE DEF c, rest, m, used, have
        <5>1. s \in Seq(Chunk) /\ 1 \in DOMAIN s /\ c \in Chunk
          BY <1>2, <3>1
        <5>2. /\ [s EXCEPT ![1] = c] \in Seq(Chunk)
              /\ Count([s EXCEPT ![1] = c], a) + Units(s[1], a) = Count(s, a) + Units(c, a)
          BY <5>1, CountChanged
        <5> QED BY <3>2, <5>2
      <4>2. Units(s[1], a) = Units(c, a) + IF a = now.asset THEN m ELSE 0
        BY <1>1, <1>2, <1>4, <3>1 DEF Units
      <4>3. Count(rest, a) \in Nat /\ Count(s, a) \in Nat /\ Units(c, a) \in Nat
        BY <1>2, <3>1, <4>1, CountType, UnitsType
      <4>4. (IF a = now.asset THEN m ELSE 0) \in Nat
        BY <1>5
      <4> HIDE DEF rest, c, m
      <4> QED BY <4>1, <4>2, <4>3, <4>4
    <3>4. rest \in Seq(Chunk)
      <4> HIDE DEF c
      <4> QED BY <1>2, <3>1, <3>2
    <3>5. ASSUME NEW k \in DOMAIN rest PROVE \E j \in DOMAIN s : rest[k].count <= s[j].count
      <4>1. DOMAIN rest = DOMAIN s /\ rest[k] = IF k = 1 THEN c ELSE s[k]
        BY <1>2, <3>2, <3>5
      <4>2. s[k] \in Chunk
        BY <1>2, <3>5, <4>1
      <4>3. s[k].count \in Nat
        BY <4>2 DEF Chunk
      <4>4. c.count <= s[1].count
        BY <1>2, <1>4
      <4>5. rest[k].count <= s[k].count
        <5> HIDE DEF rest, c
        <5> QED BY <4>1, <4>3, <4>4
      <4> QED BY <3>5, <4>1, <4>5
    <3> QED BY <3>3, <3>4, <3>5
  <2> QED BY <2>1, <2>2
<1> HIDE DEF rest, m
<1>7. inputs' \in Lists /\ \A a : CountAll(inputs', a) + Count(s, a) = CountAll(inputs, a) + Count(rest, a)
  BY <1>2, <1>3, <1>4, <1>6, CountAllChanged
<1>8. ASSUME NEW a PROVE CountAll(inputs, a) = CountAll(inputs', a) + IF a = now.asset THEN m ELSE 0
  <2>1. CountAll(inputs', a) + Count(s, a) = CountAll(inputs, a) + Count(rest, a)
    BY <1>7
  <2>2. Count(s, a) = Count(rest, a) + IF a = now.asset THEN m ELSE 0
    BY <1>6
  <2>3. /\ CountAll(inputs', a) \in Nat /\ CountAll(inputs, a) \in Nat /\ Count(rest, a) \in Nat
        /\ (IF a = now.asset THEN m ELSE 0) \in Nat
    BY <1>4, <1>5, <1>6, <1>7, CountAllType, CountType
  <2> HIDE DEF s
  <2> QED BY <2>1, <2>2, <2>3
<1>9. ASSUME NEW n \in Nat, Bounded(inputs, n) PROVE Bounded(inputs', n)
  <2>1. SUFFICES ASSUME NEW i \in DOMAIN inputs', NEW k \in DOMAIN inputs'[i]
                 PROVE  n * inputs'[i][k].count < Word
    BY DEF Bounded
  <2>2. DOMAIN inputs' = DOMAIN inputs /\ inputs'[i] = IF i = index THEN rest ELSE inputs[i]
    BY <1>3, <2>1
  <2>3. CASE i # index
    BY <1>9, <2>1, <2>2, <2>3 DEF Bounded
  <2>4. CASE i = index
    <3>1. PICK j \in DOMAIN s : rest[k].count <= s[j].count
      BY <1>6, <2>1, <2>2, <2>4
    <3>2. n * s[j].count < Word
      BY <1>2, <1>9, <3>1 DEF Bounded
    <3>3. rest[k] \in Chunk /\ s[j] \in Chunk
      BY <1>2, <1>6, <2>1, <2>2, <2>4, <3>1
    <3>4. rest[k].count \in Nat /\ s[j].count \in Nat
      BY <3>3 DEF Chunk
    <3> HIDE DEF s
    <3>5. n * rest[k].count <= n * s[j].count /\ n * rest[k].count \in Nat /\ n * s[j].count \in Nat
      BY <3>1, <3>4
    <3>6. n * rest[k].count < Word
      BY <3>2, <3>5, TransferConstants
    <3> QED BY <2>2, <2>4, <3>6
  <2> QED BY <2>3, <2>4
<1> QED BY <1>3, <1>5, <1>7, <1>8, <1>9

\* A script from the chain is a sequence of instructions.
LEMMA ScriptFromChain ==
    ASSUME NEW s \in BoundedSeq(Instructions, MaxInstructions)
    PROVE  s \in Seq(Instruction) /\ \A k \in DOMAIN s : s[k] \in Instructions
<1>1. PICK m \in 0 .. MaxInstructions : s \in [1 .. m -> Instructions]
  BY DEF BoundedSeq, SeqOf
<1>2. m \in Nat /\ Instructions \subseteq Instruction
  BY <1>1, TransferConstants DEF Instruction
<1> HIDE DEF Instruction
<1>3. s \in [1 .. m -> Instruction]
  BY <1>1, <1>2
<1>4. s \in Seq(Instruction)
  BY <1>2, <1>3
<1> QED BY <1>1, <1>4

LEMMA ShapeInit ==
    ASSUME Init
    PROVE  Shape
<1>1. /\ tx \in Transactions \cup Orders /\ phase \in {"build", "read"} /\ index = 1
      /\ wanted = [outputs |-> tx.outputs, burns |-> tx.burns] /\ inputs = Copied(tx)
      /\ now = NoInstruction /\ outputs = Empty(tx) /\ burned = Nothing
  BY DEF Init
<1>2. ScriptShape
  <2>1. CASE tx \in Transactions /\ script \in BoundedSeq(Instructions, MaxInstructions)
    BY <2>1, ScriptFromChain DEF ScriptShape
  <2>2. CASE script = <<>>
    BY <2>2 DEF ScriptShape
  <2> QED BY <2>1, <2>2 DEF Init
<1>3. wanted \in [outputs : Lists, burns : Seq(Chunk)]
  BY <1>1, TransferConstants DEF IsTransaction, Lists
<1>4. inputs \in Lists
  BY <1>1, CopiedCounts
<1>5. outputs \in Lists /\ Len(outputs) = Len(tx.addresses) /\ burned \in [Assets -> Nat]
  BY <1>1, NothingYet
<1>6. now \in Work /\ now.left <= now.total /\ now.total = 0
  <2>1. NoInstruction \in Work /\ NoInstruction.total = 0 /\ NoInstruction.left = 0
    BY <1>1, NothingYet
  <2> QED BY <1>1, <2>1
<1> QED BY <1>1, <1>2, <1>3, <1>4, <1>5, <1>6 DEF Shape

\* The next instruction.
LEMMA ReadShape ==
    ASSUME Shape, ReadInstruction, ~Exhausted(index)
    PROVE  /\ Shape' /\ now'.left = now'.total
           /\ now'.total > 0 => now'.amount > 0
           /\ \E i \in Instruction :
                /\ i.range => tx \in Transactions /\ i \in Instructions
                /\ now' = [skip |-> i.skip, range |-> i.range, output |-> i.output,
                           amount |-> Amount(i), total |-> Total(i),
                           asset |-> inputs[index][1].asset, left |-> Total(i)]
<1> DEFINE i == Head(script)
<1>1. /\ script # <<>> /\ script' = Tail(script) /\ phase' = "remove"
      /\ now' = [skip |-> i.skip, range |-> i.range, output |-> i.output,
                 amount |-> Amount(i), total |-> Total(i),
                 asset |-> inputs[index][1].asset, left |-> Total(i)]
      /\ UNCHANGED <<tx, wanted, inputs, index, allowSkip, outputs, burned, unintentional,
                     txType, malformed, stored>>
  BY DEF ReadInstruction
<1>2. script \in Seq(Instruction) /\ Len(script) \in Nat \ {0} /\ i = script[1] /\ 1 \in DOMAIN script
  BY <1>1 DEF Shape, ScriptShape
<1>3. i \in Instruction /\ (i.range => tx \in Transactions /\ i \in Instructions)
  BY <1>2 DEF Shape, ScriptShape
<1> HIDE DEF i
<1>4. i.skip \in BOOLEAN /\ i.range \in BOOLEAN /\ i.output \in Nat
  BY <1>3 DEF Instruction
<1>5. Amount(i) \in Nat /\ Total(i) \in Nat /\ inputs[index][1].asset \in Assets
  BY <1>3, AmountShape, FrontIsThere
<1>6. now' \in Work /\ now'.left = now'.total /\ now'.left <= now'.total
  BY <1>1, <1>4, <1>5 DEF Work
<1>7. now'.total > 0 => now'.amount > 0
  <2>1. Amount(i) = 0 => Total(i) = 0
    <3>1. ASSUME Amount(i) = 0 PROVE (i.output + 1) * Amount(i) = 0
      BY <1>4, <3>1
    <3>2. 0 % Word = 0
      BY TransferConstants
    <3> QED BY <3>1, <3>2 DEF Total
  <2> QED BY <1>1, <1>5, <2>1
<1>8. ScriptShape'
  <2>1. /\ script' \in Seq(Instruction) /\ DOMAIN script' = 1 .. Len(script) - 1
        /\ \A k \in DOMAIN script' : script'[k] = script[k + 1] /\ k + 1 \in DOMAIN script
    BY <1>1, <1>2
  <2> QED BY <1>1, <2>1 DEF Shape, ScriptShape
<1>9. Shape'
  BY <1>1, <1>6, <1>8 DEF Shape
<1> QED BY <1>1, <1>3, <1>6, <1>7, <1>9

\* Removing a chunk keeps the shapes.
LEMMA RemoveShape ==
    ASSUME Shape, RemoveChunk, ~Refused
    PROVE  Shape'
<1>1. PICK m \in Nat : m <= now.left /\ now' = [now EXCEPT !.left = now.left - m]
  BY RemoveMoves
<1>2. now \in Work /\ now.left \in Nat /\ now.total \in Nat /\ now.left <= now.total
  BY DEF Shape, Work
<1>3. now.left - m \in Nat /\ now.left - m <= now.total
  BY <1>1, <1>2
<1>4. now' \in Work /\ now'.left = now.left - m /\ now'.total = now.total
  BY <1>1, <1>2, <1>3 DEF Work
<1>5. inputs' \in Lists /\ index' \in Nat \ {0}
      /\ UNCHANGED <<tx, phase, script, wanted, outputs, burned>>
  BY RemoveMoves
<1>6. phase = "remove"
  BY DEF RemoveChunk
<1> QED BY <1>3, <1>4, <1>5, <1>6 DEF Shape, ScriptShape

\* The instruction names an output that is not there.
NoSuchOutput == now.total > 0 /\ ~IsBurn /\ now.output >= Len(outputs)

\* The outputs an instruction gives to.
Receivers == {o \in DOMAIN outputs : now.total > 0 /\ ~IsBurn /\ o - 1 \in Targets}

\* The outputs get their amounts, and nothing else changes hands.
LEMMA ApplyMoves ==
    ASSUME Shape, Apply, ~NoSuchOutput
    PROVE  /\ Shape' /\ DOMAIN outputs' = DOMAIN outputs /\ now' = NoInstruction /\ phase' = "read"
           /\ \A a : CountAll(outputs', a) = CountAll(outputs, a)
                       + Cardinality(Receivers) * IF a = now.asset THEN now.amount ELSE 0
           /\ burned' = [burned EXCEPT ![now.asset] = burned[now.asset] + IF IsBurn THEN now.total ELSE 0]
           /\ UNCHANGED <<tx, inputs, unintentional, txType, malformed, stored>>
           /\ (\A o \in DOMAIN outputs : CompactList(outputs[o])) /\ (now.total > 0 => now.amount > 0)
                => \A o \in DOMAIN outputs : CompactList(outputs'[o])
<1> DEFINE c == [asset |-> now.asset, count |-> now.amount]
           T == Receivers
<1>1. /\ outputs' = [o \in DOMAIN outputs |->
              IF now.total > 0 /\ ~IsBurn /\ o - 1 \in Targets
              THEN addAssetToOutput(outputs[o], c) ELSE outputs[o]]
      /\ burned' = [burned EXCEPT ![now.asset] = burned[now.asset] + IF IsBurn THEN now.total ELSE 0]
      /\ index' = Skipped /\ now' = NoInstruction /\ phase' = "read"
      /\ UNCHANGED <<tx, script, wanted, inputs, unintentional, txType, malformed, stored>>
  BY DEF Apply, NoSuchOutput
<1>2. /\ outputs \in Lists /\ now.asset \in Assets /\ now.amount \in Nat /\ now.total \in Nat
      /\ burned \in [Assets -> Nat] /\ index \in Nat \ {0} /\ tx \in Transactions \cup Orders
  BY DEF Shape, Work
<1>3. c \in Chunk /\ T \in SUBSET DOMAIN outputs
  BY <1>2 DEF Chunk, Receivers
<1>4. /\ DOMAIN outputs' = DOMAIN outputs
      /\ \A o \in DOMAIN outputs : outputs'[o] = IF o \in T THEN addAssetToOutput(outputs[o], c) ELSE outputs[o]
  BY <1>1 DEF Receivers
<1>5. \A a : Units(c, a) = IF a = now.asset THEN now.amount ELSE 0
  BY DEF Units
<1> HIDE DEF c, T
<1>6. \A o \in DOMAIN outputs : outputs[o] \in Seq(Chunk)
  BY <1>2 DEF Lists
<1>7. ASSUME NEW o \in DOMAIN outputs
      PROVE  /\ outputs'[o] \in Seq(Chunk)
             /\ \A a : Count(outputs'[o], a) = IF o \in T THEN Count(outputs[o], a) + Units(c, a)
                                              ELSE Count(outputs[o], a)
             /\ CompactList(outputs[o]) /\ c.count > 0 => CompactList(outputs'[o])
  BY <1>3, <1>4, <1>6, AddedToOutput
<1>8. outputs' \in Lists /\ Len(outputs') = Len(outputs)
  <2>1. DOMAIN outputs = 1 .. Len(outputs) /\ Len(outputs) \in Nat
    BY <1>2 DEF Lists
  <2>2. outputs' \in [1 .. Len(outputs) -> Seq(Chunk)]
    <3>1. outputs' = [o \in DOMAIN outputs |-> outputs'[o]]
      BY <1>1
    <3> QED BY <1>7, <2>1, <3>1
  <2> HIDE DEF Chunk
  <2> QED BY <2>1, <2>2 DEF Lists
<1>9. ASSUME NEW a PROVE CountAll(outputs', a) = CountAll(outputs, a) + Cardinality(T) * Units(c, a)
  <2>1. Units(c, a) \in Nat
    BY <1>3, UnitsType
  <2>2. \A o \in DOMAIN outputs : Count(outputs'[o], a) = IF o \in T THEN Count(outputs[o], a) + Units(c, a)
                                                          ELSE Count(outputs[o], a)
    BY <1>7
  <2>3. outputs \in Lists /\ outputs' \in Lists /\ DOMAIN outputs' = DOMAIN outputs
        /\ T \in SUBSET DOMAIN outputs
    BY <1>2, <1>3, <1>4, <1>8
  <2> HIDE DEF Lists
  <2> QED BY <2>1, <2>2, <2>3, CountAllSpread
<1>10. ASSUME \A o \in DOMAIN outputs : CompactList(outputs[o]), now.total > 0 => now.amount > 0
       PROVE  \A o \in DOMAIN outputs : CompactList(outputs'[o])
  <2>1. ASSUME NEW o \in T PROVE now.total > 0 /\ c.count = now.amount
    BY DEF T, Receivers, c
  <2> QED BY <1>4, <1>7, <1>10, <2>1
<1>11. burned' \in [Assets -> Nat]
  <2>1. burned[now.asset] \in Nat
    BY <1>2
  <2>2. burned[now.asset] + (IF IsBurn THEN now.total ELSE 0) \in Nat
    BY <1>2, <2>1
  <2> QED BY <1>1, <1>2, <2>2
<1>12. index' \in Nat \ {0}
  BY <1>1, <1>2 DEF Skipped
<1>13. now' \in Work /\ now'.left <= now'.total /\ now'.total = 0
  <2>1. NoInstruction \in Work /\ NoInstruction.total = 0 /\ NoInstruction.left = 0
    BY <1>2, NothingYet
  <2> QED BY <1>1, <2>1
<1>14. Shape'
  BY <1>1, <1>8, <1>11, <1>12, <1>13 DEF Shape, ScriptShape
<1>15. \A a : CountAll(outputs', a) = CountAll(outputs, a)
                + Cardinality(Receivers) * IF a = now.asset THEN now.amount ELSE 0
  BY <1>5, <1>9 DEF T
<1> QED BY <1>1, <1>4, <1>10, <1>14, <1>15

\* The input with the next leftover, and what its absence means.
LEMMA LeftoverPlace ==
    ASSUME inputs \in Lists
    PROVE  /\ Leftover # 0 => Leftover \in DOMAIN inputs /\ inputs[Leftover] \in Seq(Chunk)
                              /\ inputs[Leftover] # <<>>
           /\ Leftover = 0 => \A i \in DOMAIN inputs : inputs[i] = <<>>
<1> DEFINE I == {i \in 1 .. Len(inputs) : inputs[i] # <<>>}
<1>1. Leftover = IF I # {} THEN Min(I) ELSE 0
  BY DEF Leftover, SelectInSeq
<1>2. I \in SUBSET Nat /\ DOMAIN inputs = 1 .. Len(inputs)
  BY DEF Lists
<1>3. I # {} => Min(I) \in I
  <2> HIDE DEF I
  <2> QED BY <1>2, FirstPlace
<1>4. \A i \in I : i # 0
  OBVIOUS
<1>5. ASSUME Leftover # 0 PROVE Leftover \in I
  <2> HIDE DEF I
  <2> QED BY <1>1, <1>3, <1>5
<1>6. Leftover = 0 => I = {}
  <2> HIDE DEF I
  <2> QED BY <1>1, <1>3, <1>4
<1>7. Leftover # 0 => inputs[Leftover] \in Seq(Chunk)
  BY <1>2, <1>5 DEF Lists
<1> QED BY <1>2, <1>5, <1>6, <1>7

\* A leftover chunk moves to the last output.
LEMMA ChangeMoves ==
    ASSUME Shape, AddChange
    PROVE  /\ Shape' /\ DOMAIN outputs' = DOMAIN outputs
           /\ \A a : CountAll(inputs', a) + CountAll(outputs', a) = CountAll(inputs, a) + CountAll(outputs, a)
           /\ \A n \in Nat : Bounded(inputs, n) => Bounded(inputs', n)
           /\ (\A o \in DOMAIN outputs : CompactList(outputs[o]))
                => \A o \in DOMAIN outputs : CompactList(outputs'[o])
           /\ phase = "read"
           /\ UNCHANGED <<tx, phase, now, burned, unintentional, txType, malformed, stored>>
<1> DEFINE l == Leftover
           s == inputs[l]
           c == Head(s)
           e == Len(outputs)
           added == addAssetToOutput(outputs[e], c)
<1>1. /\ l # 0 /\ phase = "read" /\ inputs' = [inputs EXCEPT ![l] = Tail(s)]
      /\ outputs' = IF HasUnits(c) THEN [outputs EXCEPT ![e] = added] ELSE outputs
      /\ UNCHANGED <<tx, phase, script, wanted, index, allowSkip, now, burned, unintentional,
                     txType, malformed, stored>>
  BY DEF AddChange, ReadAll, LastOutput
<1>2. inputs \in Lists /\ outputs \in Lists /\ Len(outputs) = Len(tx.addresses)
      /\ tx \in Transactions \cup Orders
  BY DEF Shape
<1>3. l \in DOMAIN inputs /\ s \in Seq(Chunk) /\ s # <<>>
  BY <1>1, <1>2, LeftoverPlace
<1>4. e \in DOMAIN outputs
  <2>1. Len(tx.addresses) \in Nat \ {0}
    BY <1>2, NothingYet
  <2> QED BY <1>2, <2>1 DEF Lists
<1>5. outputs[e] \in Seq(Chunk)
  BY <1>2, <1>4 DEF Lists
<1> HIDE DEF l
<1>6. c = s[1] /\ 1 \in DOMAIN s /\ s[1] \in Chunk /\ Tail(s) \in Seq(Chunk)
      /\ \A k \in DOMAIN Tail(s) : k + 1 \in DOMAIN s /\ Tail(s)[k] = s[k + 1]
  <2> HIDE DEF s
  <2> QED BY <1>3
<1>7. c \in Chunk /\ c.count \in Nat
  BY <1>6 DEF Chunk
<1> HIDE DEF c, e
<1>8. /\ added \in Seq(Chunk) /\ \A a : Count(added, a) = Count(outputs[e], a) + Units(c, a)
      /\ CompactList(outputs[e]) /\ c.count > 0 => CompactList(added)
  BY <1>5, <1>7, AddedToOutput
<1> HIDE DEF added
<1>9. /\ inputs' \in Lists
      /\ \A a : CountAll(inputs', a) + Count(s, a) = CountAll(inputs, a) + Count(Tail(s), a)
  BY <1>1, <1>2, <1>3, <1>6, CountAllChanged
<1>10. \A a : Count(s, a) = Units(c, a) + Count(Tail(s), a)
  <2> HIDE DEF s
  <2> QED BY <1>3, <1>6, CountTail
<1>11. /\ outputs' \in Lists /\ Len(outputs') = Len(outputs) /\ DOMAIN outputs' = DOMAIN outputs
       /\ \A a : CountAll(outputs', a) = CountAll(outputs, a) + Units(c, a)
  <2>1. CASE HasUnits(c)
    <3>1. outputs' = [outputs EXCEPT ![e] = added]
      BY <1>1, <2>1
    <3>2. /\ outputs' \in Lists
          /\ \A a : CountAll(outputs', a) + Count(outputs[e], a) = CountAll(outputs, a) + Count(added, a)
      BY <1>2, <1>4, <1>8, <3>1, CountAllChanged
    <3>3. ASSUME NEW a PROVE CountAll(outputs', a) = CountAll(outputs, a) + Units(c, a)
      <4>1. /\ CountAll(outputs', a) \in Nat /\ CountAll(outputs, a) \in Nat
            /\ Count(outputs[e], a) \in Nat /\ Units(c, a) \in Nat
        BY <1>2, <1>5, <1>7, <3>2, CountAllType, CountType, UnitsType
      <4>2. /\ CountAll(outputs', a) + Count(outputs[e], a) = CountAll(outputs, a) + Count(added, a)
            /\ Count(added, a) = Count(outputs[e], a) + Units(c, a)
        BY <1>8, <3>2
      <4> QED BY <4>1, <4>2, Moved
    <3>4. Len(outputs') = Len(outputs) /\ DOMAIN outputs' = DOMAIN outputs
      BY <1>2, <3>1, <3>2 DEF Lists
    <3> QED BY <3>2, <3>3, <3>4
  <2>2. CASE ~HasUnits(c)
    <3>1. outputs' = outputs /\ c.count = 0
      BY <1>1, <1>7, <2>2 DEF HasUnits
    <3>2. ASSUME NEW a PROVE CountAll(outputs, a) = CountAll(outputs, a) + Units(c, a)
      <4>1. Units(c, a) = 0 /\ CountAll(outputs, a) \in Nat
        BY <1>2, <3>1, CountAllType DEF Units
      <4> QED BY <4>1
    <3> QED BY <1>2, <3>1, <3>2
  <2> QED BY <2>1, <2>2
<1>12. ASSUME NEW a
       PROVE  CountAll(inputs', a) + CountAll(outputs', a) = CountAll(inputs, a) + CountAll(outputs, a)
  <2>1. /\ CountAll(inputs', a) \in Nat /\ CountAll(outputs, a) \in Nat /\ CountAll(inputs, a) \in Nat
        /\ Count(Tail(s), a) \in Nat /\ Units(c, a) \in Nat
    BY <1>2, <1>6, <1>7, <1>9, CountAllType, CountType, UnitsType
  <2>2. /\ CountAll(inputs', a) + Count(s, a) = CountAll(inputs, a) + Count(Tail(s), a)
        /\ Count(s, a) = Units(c, a) + Count(Tail(s), a)
        /\ CountAll(outputs', a) = CountAll(outputs, a) + Units(c, a)
    BY <1>9, <1>10, <1>11
  <2> HIDE DEF s
  <2> QED BY <2>1, <2>2
<1>13. ASSUME NEW n \in Nat, Bounded(inputs, n) PROVE Bounded(inputs', n)
  <2>1. SUFFICES ASSUME NEW i \in DOMAIN inputs', NEW k \in DOMAIN inputs'[i]
                 PROVE  n * inputs'[i][k].count < Word
    BY DEF Bounded
  <2>2. DOMAIN inputs' = DOMAIN inputs /\ inputs'[i] = IF i = l THEN Tail(s) ELSE inputs[i]
    BY <1>1, <2>1
  <2> QED BY <1>3, <1>6, <1>13, <2>1, <2>2 DEF Bounded
<1>14. ASSUME \A o \in DOMAIN outputs : CompactList(outputs[o])
       PROVE  \A o \in DOMAIN outputs : CompactList(outputs'[o])
  <2>1. HasUnits(c) => CompactList(added)
    BY <1>4, <1>8, <1>14 DEF HasUnits
  <2>2. \A o \in DOMAIN outputs : outputs'[o] = outputs[o] \/ (HasUnits(c) /\ outputs'[o] = added)
    BY <1>1
  <2> QED BY <1>14, <2>1, <2>2
<1>15. Shape'
  BY <1>1, <1>9, <1>11 DEF Shape, ScriptShape
<1> QED BY <1>1, <1>11, <1>12, <1>13, <1>14, <1>15

\* Smaller values add up to no more.
LEMMA SumLess ==
    ASSUME NEW S, IsFiniteSet(S), NEW f, NEW g,
           \A x \in S : f[x] \in Nat /\ g[x] \in Nat /\ g[x] <= f[x]
    PROVE  SumOver(g, S) <= SumOver(f, S)
<1>1. IsFiniteSet(Pairs(f, S))
  BY PairsFinite
<1>2. Pairs(g, S) \in SUBSET Pairs(f, S)
  <2>1. ASSUME NEW q \in Pairs(g, S) PROVE q \in Pairs(f, S)
    <3>1. PICK x \in S, j \in Nat : j \in 1 .. g[x] /\ q = <<x, j>>
      BY DEF Pairs
    <3>2. f[x] \in Nat /\ g[x] \in Nat /\ g[x] <= f[x]
      OBVIOUS
    <3>3. j \in 1 .. f[x]
      BY <3>1, <3>2
    <3> QED BY <3>1, <3>3 DEF Pairs
  <2> QED BY <2>1
<1>3. Cardinality(Pairs(g, S)) <= Cardinality(Pairs(f, S))
  BY <1>1, <1>2, FS_Subset
<1> QED BY <1>3 DEF SumOver, Pairs

\* The sweep takes whole outputs.
LEMMA SweepLowers ==
    ASSUME Shape
    PROVE  /\ Sweep(outputs) \in Lists /\ Len(Sweep(outputs)) = Len(outputs)
           /\ DOMAIN Sweep(outputs) = DOMAIN outputs
           /\ \A o \in DOMAIN outputs : Sweep(outputs)[o] = <<>> \/ Sweep(outputs)[o] = outputs[o]
           /\ \A a : CountAll(Sweep(outputs), a) <= CountAll(outputs, a)
<1> DEFINE w == Sweep(outputs)
<1>1. outputs \in Lists
  BY DEF Shape
<1>2. DOMAIN outputs = 1 .. Len(outputs) /\ Len(outputs) \in Nat
      /\ \A o \in DOMAIN outputs : outputs[o] \in Seq(Chunk)
  BY <1>1 DEF Lists
<1>3. DOMAIN w = DOMAIN outputs /\ (\A o \in DOMAIN outputs : w[o] = <<>> \/ w[o] = outputs[o])
      /\ w \in [DOMAIN outputs -> Seq(Chunk)]
  BY <1>2 DEF Sweep
<1> HIDE DEF w
<1>4. w \in Lists /\ Len(w) = Len(outputs)
  <2>1. w \in [1 .. Len(outputs) -> Seq(Chunk)]
    BY <1>2, <1>3
  <2> HIDE DEF Chunk
  <2> QED BY <1>2, <2>1 DEF Lists
<1>5. ASSUME NEW a PROVE CountAll(w, a) <= CountAll(outputs, a)
  <2>1. /\ \A i \in DOMAIN w : EachList(w, a)[i] = Count(w[i], a) /\ EachList(w, a)[i] \in Nat
        /\ IsFiniteSet(DOMAIN w)
    BY <1>4, EachListType
  <2>2. \A i \in DOMAIN w : EachList(outputs, a)[i] = Count(outputs[i], a) /\ EachList(outputs, a)[i] \in Nat
    BY <1>1, <1>3, EachListType
  <2>3. \A i \in DOMAIN w : /\ EachList(outputs, a)[i] \in Nat /\ EachList(w, a)[i] \in Nat
                            /\ EachList(w, a)[i] <= EachList(outputs, a)[i]
    <3>1. ASSUME NEW i \in DOMAIN w PROVE EachList(w, a)[i] <= EachList(outputs, a)[i]
      <4>1. Count(w[i], a) = 0 \/ Count(w[i], a) = Count(outputs[i], a)
        BY <1>3, CountEmpty
      <4>2. /\ EachList(w, a)[i] = Count(w[i], a) /\ EachList(outputs, a)[i] = Count(outputs[i], a)
            /\ EachList(outputs, a)[i] \in Nat
        BY <2>1, <2>2
      <4> QED BY <4>1, <4>2
    <3> QED BY <2>1, <2>2, <3>1
  <2>4. SumOver(EachList(w, a), DOMAIN w) <= SumOver(EachList(outputs, a), DOMAIN w)
    BY <2>1, <2>3, SumLess
  <2> QED BY <1>3, <2>4, CountAllSum
<1> QED BY <1>3, <1>4, <1>5 DEF w

\* The steps that end in "done".
Ends == Truncated \/ NotAnAssetTransaction \/ ChangeFails \/ Finish \/ RuleFailed \/ RateUnknown

LEMMA EndShape ==
    ASSUME Shape, Ends
    PROVE  /\ Shape' /\ phase' = "done" /\ UNCHANGED <<tx, inputs, now, burned>>
           /\ \A o \in DOMAIN outputs' : outputs'[o] = <<>> \/ (o \in DOMAIN outputs /\ outputs'[o] = outputs[o])
<1>1. /\ phase' = "done" /\ phase = "read"
      /\ UNCHANGED <<tx, script, wanted, inputs, index, allowSkip, now, burned, malformed>>
  BY DEF Ends, Truncated, NotAnAssetTransaction, ChangeFails, Finish, RuleFailed, RateUnknown,
         GiveUp, ReadAll
<1>2. outputs' = outputs \/ outputs' = Sweep(outputs) \/ outputs' = Empty(tx)
  BY DEF Ends, Truncated, NotAnAssetTransaction, ChangeFails, Finish, RuleFailed, RateUnknown
<1>3. tx \in Transactions \cup Orders /\ outputs \in Lists /\ Len(outputs) = Len(tx.addresses)
  BY DEF Shape
<1>4. Empty(tx) \in Lists /\ Len(Empty(tx)) = Len(tx.addresses)
      /\ \A o \in DOMAIN Empty(tx) : Empty(tx)[o] = <<>>
  <2>1. \A o \in DOMAIN Empty(tx) : Empty(tx)[o] = <<>>
    BY DEF Empty
  <2> QED BY <1>3, <2>1, NothingYet
<1>5. /\ outputs' \in Lists /\ Len(outputs') = Len(tx.addresses)
      /\ \A o \in DOMAIN outputs' : outputs'[o] = <<>> \/ (o \in DOMAIN outputs /\ outputs'[o] = outputs[o])
  <2>1. CASE outputs' = outputs
    BY <1>3, <2>1
  <2>2. CASE outputs' = Sweep(outputs)
    BY <1>3, <2>2, SweepLowers
  <2>3. CASE outputs' = Empty(tx)
    BY <1>4, <2>3
  <2> QED BY <1>2, <2>1, <2>2, <2>3
<1>6. Shape'
  BY <1>1, <1>5 DEF Shape, ScriptShape
<1> QED BY <1>1, <1>5, <1>6

\* The steps, by what they do to the units.
LEMMA StepCases ==
    ASSUME Next
    PROVE  \/ RouteToOutput \/ RouteToBurn \/ Refuse \/ Sent
           \/ Catch /\ phase \in {"read", "remove"}
           \/ ReadInstruction /\ ~Exhausted(index)
           \/ RemoveChunk /\ ~Refused
           \/ Apply /\ ~NoSuchOutput
           \/ AddChange \/ Ends
<1>1. ReadInstruction /\ Exhausted(index) => Catch /\ phase = "read"
  BY DEF ReadInstruction
<1>2. RemoveChunk /\ Refused => Catch /\ phase = "remove"
  BY DEF RemoveChunk, Refused
<1>3. Apply /\ NoSuchOutput => Catch /\ phase = "remove"
  BY DEF Apply, NoSuchOutput
<1> QED BY <1>1, <1>2, <1>3 DEF Next, Ends

LEMMA ShapeStep ==
    ASSUME Shape, Next
    PROVE  Shape'
<1>1. CASE RouteToOutput \/ RouteToBurn
  BY <1>1, RouteShape
<1>2. CASE Refuse
  BY <1>2 DEF Shape, ScriptShape, Refuse
<1>3. CASE Sent
  <2>1. tx \in Transactions \cup Orders
    BY DEF Shape
  <2>2. inputs' \in Lists
    BY <1>3, <2>1, CopiedCounts DEF Sent
  <2> QED BY <1>3, <2>2 DEF Shape, ScriptShape, Sent
<1>4. CASE Catch
  BY <1>4, CatchShape
<1>5. CASE ReadInstruction /\ ~Exhausted(index)
  BY <1>5, ReadShape
<1>6. CASE RemoveChunk /\ ~Refused
  BY <1>6, RemoveShape
<1>7. CASE Apply /\ ~NoSuchOutput
  BY <1>7, ApplyMoves
<1>8. CASE AddChange
  BY <1>8, ChangeMoves
<1>9. CASE Ends
  BY <1>9, EndShape
<1> QED BY <1>1, <1>2, <1>3, <1>4, <1>5, <1>6, <1>7, <1>8, <1>9, StepCases

LEMMA ShapeStutter ==
    ASSUME Shape, UNCHANGED vars
    PROVE  Shape'
BY DEF Shape, ScriptShape, vars

TypeInv == Shape /\ txType \in {"standard", "issuance", "transfer", "burn"}

\* Positions, counts and phases keep their shapes: the interpreter never works on a chunk that
\* is not there, and never has more left to remove than the instruction asked for.
THEOREM TransferTypes == Spec => []TypeOK
<1>1. Init => TypeInv
  BY ShapeInit DEF Init, TypeInv
<1>2. TypeInv /\ [Next]_vars => TypeInv'
  <2> SUFFICES ASSUME TypeInv, [Next]_vars PROVE TypeInv'
    OBVIOUS
  <2>1. Shape /\ Shape'
    BY ShapeStep, ShapeStutter DEF TypeInv
  <2>2. txType' \in {txType, "standard", tx.type}
    BY DEF Next, RouteToOutput, RouteToBurn, Refuse, Sent, ReadInstruction, RemoveChunk, Apply, Catch,
           Truncated, NotAnAssetTransaction, AddChange, ChangeFails, Finish, RuleFailed, RateUnknown,
           GiveUp, vars
  <2>3. tx.type \in {"issuance", "transfer", "burn"}
    BY <2>1, TransferConstants DEF Shape, IsTransaction
  <2> QED BY <2>1, <2>2, <2>3 DEF TypeInv
<1>3. TypeInv => TypeOK
  <2> SUFFICES ASSUME TypeInv PROVE TypeOK
    OBVIOUS
  <2>1. now.left \in 0 .. now.total
    BY DEF TypeInv, Shape, Work
  <2>2. (\A o \in DOMAIN outputs : outputs[o] \in Seq(Chunk)) /\ \A i \in DOMAIN inputs : inputs[i] \in Seq(Chunk)
    BY DEF TypeInv, Shape, Lists
  <2> QED BY <2>1, <2>2 DEF TypeInv, Shape, TypeOK
<1> QED BY <1>1, <1>2, <1>3, PTL DEF Spec

-----------------------------------------------------------------------------
(* Outputs stay compact.                                                    *)

CompactInv == /\ Shape /\ (now.total > 0 => now.amount > 0)
              /\ \A o \in DOMAIN outputs : CompactList(outputs[o])

LEMMA CompactStep ==
    ASSUME CompactInv, [Next]_vars
    PROVE  CompactInv'
<1>0. /\ Shape /\ (now.total > 0 => now.amount > 0) /\ tx \in Transactions \cup Orders
      /\ \A o \in DOMAIN outputs : CompactList(outputs[o])
  BY DEF CompactInv, Shape
<1>1. Shape'
  BY <1>0, ShapeStep, ShapeStutter
<1>2. CASE outputs' = outputs /\ now' = now
  BY <1>0, <1>1, <1>2 DEF CompactInv
<1>3. CASE Catch
  <2>1. outputs' = Empty(tx) /\ now' = NoInstruction
    BY <1>3 DEF Catch
  <2>2. NoInstruction.total = 0 /\ \A o \in DOMAIN Empty(tx) : CompactList(Empty(tx)[o])
    BY <1>0, NothingYet
  <2> QED BY <1>1, <2>1, <2>2 DEF CompactInv
<1>4. CASE ReadInstruction /\ ~Exhausted(index)
  <2>1. outputs' = outputs /\ (now'.total > 0 => now'.amount > 0)
    BY <1>0, <1>4, ReadShape DEF ReadInstruction
  <2> QED BY <1>0, <1>1, <2>1 DEF CompactInv
<1>5. CASE RemoveChunk /\ ~Refused
  <2>1. outputs' = outputs /\ \E m \in Nat : now' = [now EXCEPT !.left = now.left - m]
    BY <1>0, <1>5, RemoveMoves
  <2>2. now'.total = now.total /\ now'.amount = now.amount
    BY <1>0, <2>1 DEF Shape, Work
  <2> QED BY <1>0, <1>1, <2>1, <2>2 DEF CompactInv
<1>6. CASE Apply /\ ~NoSuchOutput
  <2>1. /\ DOMAIN outputs' = DOMAIN outputs /\ now' = NoInstruction
        /\ \A o \in DOMAIN outputs : CompactList(outputs'[o])
    BY <1>0, <1>6, ApplyMoves
  <2>2. NoInstruction.total = 0
    BY <1>0, NothingYet
  <2> QED BY <1>1, <2>1, <2>2 DEF CompactInv
<1>7. CASE AddChange
  <2>1. /\ DOMAIN outputs' = DOMAIN outputs /\ now' = now
        /\ \A o \in DOMAIN outputs : CompactList(outputs'[o])
    BY <1>0, <1>7, ChangeMoves
  <2> QED BY <1>0, <1>1, <2>1 DEF CompactInv
<1>8. CASE Ends
  <2>1. /\ now' = now
        /\ \A o \in DOMAIN outputs' : outputs'[o] = <<>> \/ (o \in DOMAIN outputs /\ outputs'[o] = outputs[o])
    BY <1>0, <1>8, EndShape
  <2>2. CompactList(<<>>)
    BY DEF CompactList
  <2> QED BY <1>0, <1>1, <2>1, <2>2 DEF CompactInv
<1>9. RouteToOutput \/ RouteToBurn \/ Refuse \/ Sent \/ UNCHANGED vars => outputs' = outputs /\ now' = now
  BY DEF RouteToOutput, RouteToBurn, Refuse, Sent, vars
<1> QED BY <1>2, <1>3, <1>4, <1>5, <1>6, <1>7, <1>8, <1>9, StepCases

\* No output ever holds an aggregable asset in two chunks, nor a chunk of zero: addAssetToOutput()
\* merges, and neither an instruction of zero nor a leftover of zero reaches it.
THEOREM OutputsStayCompact == Spec => []Compact
<1>1. Init => CompactInv
  <2> SUFFICES ASSUME Init PROVE CompactInv
    OBVIOUS
  <2>1. Shape /\ tx \in Transactions \cup Orders
    BY ShapeInit DEF Shape
  <2>2. outputs = Empty(tx) /\ now = NoInstruction
    BY DEF Init
  <2>3. NoInstruction.total = 0 /\ \A o \in DOMAIN Empty(tx) : CompactList(Empty(tx)[o])
    BY <2>1, NothingYet
  <2> QED BY <2>1, <2>2, <2>3 DEF CompactInv
<1>2. CompactInv /\ [Next]_vars => CompactInv'
  BY CompactStep
<1>3. CompactInv => Compact
  BY DEF CompactInv, CompactList, Compact
<1> QED BY <1>1, <1>2, <1>3, PTL DEF Spec

-----------------------------------------------------------------------------
(* No unit is created or lost.                                              *)

\* The total of the instruction is what its outputs will get.
Exact == phase = "remove" =>
            IF now.range THEN now.output < Len(outputs) => now.total = (now.output + 1) * now.amount
            ELSE now.total = now.amount

ConserveInv ==
    /\ Shape /\ Conserved /\ Exact
    /\ tx \in Transactions /\ phase \in {"read", "remove"} => Bounded(inputs, Len(tx.addresses))
    /\ phase = "build" => outputs = Empty(tx) /\ burned = Nothing

LEMMA ProductLess ==
    ASSUME NEW m \in Nat, NEW n \in Nat, NEW x \in Nat, NEW y \in Nat, NEW w \in Nat,
           m <= n, x <= y, n * y < w
    PROVE  m * x \in Nat /\ m * x < w
<1>1. m * x \in Nat /\ m * y \in Nat /\ n * y \in Nat
  OBVIOUS
<1>2. m * x <= m * y
  OBVIOUS
<1>3. m * y <= n * y
  OBVIOUS
<1> QED BY <1>1, <1>2, <1>3

\* What an instruction reads is exact.
LEMMA ReadExact ==
    ASSUME NoWrap, ConserveInv, ReadInstruction, ~Exhausted(index)
    PROVE  Exact'
<1>1. /\ Shape /\ tx \in Transactions \cup Orders /\ phase = "read" /\ Len(outputs) = Len(tx.addresses)
      /\ tx \in Transactions => Bounded(inputs, Len(tx.addresses))
  BY DEF ConserveInv, Shape, ReadInstruction
<1>2. PICK i \in Instruction :
        /\ i.range => tx \in Transactions /\ i \in Instructions
        /\ now' = [skip |-> i.skip, range |-> i.range, output |-> i.output,
                   amount |-> Amount(i), total |-> Total(i),
                   asset |-> inputs[index][1].asset, left |-> Total(i)]
  BY <1>1, ReadShape
<1>3. outputs' = outputs
  BY DEF ReadInstruction
<1>4. i.range \in BOOLEAN /\ i.output \in Nat /\ i.amount \in Nat
  BY <1>2 DEF Instruction
<1>5. /\ Amount(i) \in Nat
      /\ Amount(i) = i.amount \/ Amount(i) <= inputs[index][1].count
  BY <1>1, AmountShape
<1>6. ASSUME i.range, i.output < Len(outputs) PROVE Total(i) = (i.output + 1) * Amount(i)
  <2> DEFINE n == Len(tx.addresses)
             x == (i.output + 1) * Amount(i)
  <2>1. n \in Nat /\ i.output + 1 \in Nat /\ i.output + 1 <= n /\ Word \in Nat /\ Word > 0
    BY <1>1, <1>4, <1>6, NothingYet, TransferConstants
  <2>2. PICK y \in Nat : Amount(i) <= y /\ n * y < Word
    <3>1. CASE Amount(i) = i.amount
      <4>1. n * i.amount < Word
        BY <1>2, <1>6 DEF NoWrap
      <4> QED BY <1>4, <3>1, <4>1
    <3>2. CASE Amount(i) <= inputs[index][1].count
      <4>1. index \in DOMAIN inputs /\ 1 \in DOMAIN inputs[index] /\ inputs[index][1].count \in Nat
        BY <1>1, FrontIsThere
      <4>2. n * inputs[index][1].count < Word
        BY <1>1, <1>2, <1>6, <4>1 DEF Bounded
      <4> QED BY <3>2, <4>1, <4>2
    <3> QED BY <1>5, <3>1, <3>2
  <2>3. x \in Nat /\ x < Word
    <3> HIDE DEF n
    <3> QED BY <1>5, <2>1, <2>2, ProductLess
  <2>4. Total(i) = x % Word
    BY <1>6 DEF Total
  <2> HIDE DEF x
  <2>5. x % Word = x
    BY <2>1, <2>3
  <2> QED BY <2>4, <2>5 DEF x
<1>7. ~i.range => Total(i) = Amount(i)
  BY DEF Total
<1>8. /\ now'.range = i.range /\ now'.output = i.output /\ now'.total = Total(i) /\ now'.amount = Amount(i)
  BY <1>2
<1> QED BY <1>3, <1>6, <1>7, <1>8 DEF Exact

\* The outputs of an instruction get its total.
LEMMA ReceiverCount ==
    ASSUME Shape, phase = "remove", Exact, ~NoSuchOutput
    PROVE  /\ Cardinality(Receivers) \in Nat
           /\ Cardinality(Receivers) * now.amount = IF IsBurn THEN 0 ELSE now.total
<1>1. /\ now.output \in Nat /\ now.total \in Nat /\ now.amount \in Nat /\ now.range \in BOOLEAN
      /\ outputs \in Lists
  BY DEF Shape, Work
<1>2. DOMAIN outputs = 1 .. Len(outputs) /\ Len(outputs) \in Nat
  BY <1>1 DEF Lists
<1>3. CASE now.total = 0 \/ IsBurn
  <2>1. Receivers = {}
    BY <1>1, <1>3 DEF Receivers
  <2>2. Cardinality(Receivers) = 0
    BY <2>1, FS_EmptySet
  <2> QED BY <1>1, <1>3, <2>2
<1>4. CASE now.total # 0 /\ ~IsBurn
  <2>1. now.output < Len(outputs) /\ now.total > 0
    BY <1>1, <1>2, <1>4 DEF NoSuchOutput
  <2> DEFINE first == IF now.range THEN 1 ELSE now.output + 1
             last == now.output + 1
  <2>2. first \in Int /\ last \in Int /\ first <= last
    BY <1>1
  <2>3. Receivers = first .. last
    BY <1>1, <1>2, <1>4, <2>1 DEF Receivers, Targets
  <2>4. Cardinality(first .. last) = last - first + 1
    <3> HIDE DEF first, last
    <3>1. Cardinality(first .. last) = IF first > last THEN 0 ELSE last - first + 1
      BY <2>2, FS_Interval
    <3> QED BY <2>2, <3>1
  <2>5. Cardinality(Receivers) = IF now.range THEN now.output + 1 ELSE 1
    BY <1>1, <2>3, <2>4
  <2>6. now.total = IF now.range THEN (now.output + 1) * now.amount ELSE now.amount
    BY <2>1 DEF Exact
  <2> HIDE DEF first, last
  <2> QED BY <1>1, <1>4, <2>5, <2>6
<1> QED BY <1>3, <1>4

\* Where all the units are on the inputs and nothing is at work.
LEMMA Afresh ==
    ASSUME NEW t \in Transactions \cup Orders, NEW a \in Assets
    PROVE  CountAll(Copied(t), a) + 0 + CountAll(Empty(t), a) + Nothing[a] = CountAll(Copied(t), a)
<1>1. CountAll(Copied(t), a) \in Nat
  BY CopiedCounts, CountAllType
<1>2. CountAll(Empty(t), a) = 0 /\ Nothing[a] = 0
  BY NothingYet
<1> QED BY <1>1, <1>2

\* An instruction of zero has nothing in flight.
LEMMA NothingInFlight ==
    ASSUME Shape, now.total = 0 \/ now.left = now.total
    PROVE  \A a : InFlight(a) = 0
BY DEF InFlight, Shape, Work

\* The units of an asset at the four places are numbers.
LEMMA PlacesType ==
    ASSUME Shape, NEW a \in Assets
    PROVE  /\ CountAll(inputs, a) \in Nat /\ CountAll(outputs, a) \in Nat /\ burned[a] \in Nat
           /\ InFlight(a) \in Nat /\ now.total \in Nat /\ now.left \in Nat /\ now.amount \in Nat
<1>1. CountAll(inputs, a) \in Nat /\ CountAll(outputs, a) \in Nat
  BY CountAllType DEF Shape
<1>2. now.total \in Nat /\ now.left \in Nat /\ now.amount \in Nat /\ now.left <= now.total
  BY DEF Shape, Work
<1>3. InFlight(a) \in Nat
  BY <1>2 DEF InFlight
<1>4. burned[a] \in Nat
  BY DEF Shape
<1> QED BY <1>1, <1>2, <1>3, <1>4

\* A removal moves units from the input into the instruction.
LEMMA RemoveConserves ==
    ASSUME ConserveInv, RemoveChunk, ~Refused
    PROVE  ConserveInv'
<1>1. /\ Shape /\ Conserved /\ Exact /\ phase = "remove"
      /\ tx \in Transactions => Bounded(inputs, Len(tx.addresses))
  BY DEF ConserveInv, RemoveChunk
<1>2. Shape' /\ UNCHANGED <<tx, phase, outputs, burned>>
      /\ \A n \in Nat : Bounded(inputs, n) => Bounded(inputs', n)
  BY <1>1, RemoveShape, RemoveMoves
<1>3. PICK m \in Nat :
        /\ m <= now.left /\ now' = [now EXCEPT !.left = now.left - m]
        /\ \A a : CountAll(inputs, a) = CountAll(inputs', a) + IF a = now.asset THEN m ELSE 0
  BY <1>1, RemoveMoves
<1>4. /\ now'.left = now.left - m /\ now'.total = now.total /\ now'.amount = now.amount
      /\ now'.asset = now.asset /\ now'.range = now.range /\ now'.output = now.output
  BY <1>1, <1>3 DEF Shape, Work
<1>5. ASSUME NEW a \in Assets
      PROVE  CountAll(inputs', a) + InFlight(a)' + CountAll(outputs', a) + burned'[a] = CountAll(Copied(tx'), a)
  <2>1. /\ CountAll(inputs, a) \in Nat /\ CountAll(outputs, a) \in Nat /\ burned[a] \in Nat
        /\ now.total \in Nat /\ now.left \in Nat
    BY <1>1, PlacesType
  <2>2. CountAll(inputs', a) \in Nat
    BY <1>2, CountAllType DEF Shape
  <2>3. CountAll(inputs, a) + InFlight(a) + CountAll(outputs, a) + burned[a] = CountAll(Copied(tx), a)
    BY <1>1 DEF Conserved
  <2>4. CountAll(inputs, a) = CountAll(inputs', a) + IF a = now.asset THEN m ELSE 0
    BY <1>3
  <2>5. /\ InFlight(a) = IF a = now.asset THEN now.total - now.left ELSE 0
        /\ InFlight(a)' = IF a = now.asset THEN now.total - (now.left - m) ELSE 0
    BY <1>4 DEF InFlight
  <2>6. CountAll(inputs', a) + InFlight(a)' + CountAll(outputs, a) + burned[a]
          = CountAll(inputs, a) + InFlight(a) + CountAll(outputs, a) + burned[a]
    <3> HIDE DEF InFlight
    <3>1. CASE a = now.asset
      BY <1>3, <2>1, <2>2, <2>4, <2>5, <3>1
    <3>2. CASE a # now.asset
      BY <2>1, <2>2, <2>4, <2>5, <3>2
    <3> QED BY <3>1, <3>2
  <2> QED BY <1>2, <2>3, <2>6
<1>6. Conserved'
  BY <1>5 DEF Conserved
<1>7. Exact'
  BY <1>1, <1>2, <1>4 DEF Exact
<1>8. tx' \in Transactions => Bounded(inputs', Len(tx'.addresses))
  <2>1. tx \in Transactions => Len(tx.addresses) \in Nat
    BY NothingYet
  <2> QED BY <1>1, <1>2, <2>1
<1>9. phase' # "build"
  BY <1>1, <1>2
<1> QED BY <1>2, <1>6, <1>7, <1>8, <1>9 DEF ConserveInv

\* Carrying an instruction out moves its total to the outputs or to the burnt units.
LEMMA ApplyConserves ==
    ASSUME ConserveInv, Apply, ~NoSuchOutput
    PROVE  ConserveInv'
<1>1. /\ Shape /\ Conserved /\ Exact /\ phase = "remove" /\ now.left = 0
      /\ tx \in Transactions => Bounded(inputs, Len(tx.addresses))
  BY DEF ConserveInv, Apply
<1>2. /\ Shape' /\ now' = NoInstruction /\ phase' = "read" /\ UNCHANGED <<tx, inputs>>
      /\ burned' = [burned EXCEPT ![now.asset] = burned[now.asset] + IF IsBurn THEN now.total ELSE 0]
      /\ \A a : CountAll(outputs', a) = CountAll(outputs, a)
                  + Cardinality(Receivers) * IF a = now.asset THEN now.amount ELSE 0
  BY <1>1, ApplyMoves
<1>3. /\ Cardinality(Receivers) \in Nat
      /\ Cardinality(Receivers) * now.amount = IF IsBurn THEN 0 ELSE now.total
  BY <1>1, ReceiverCount
<1>4. ASSUME NEW a \in Assets
      PROVE  CountAll(inputs', a) + InFlight(a)' + CountAll(outputs', a) + burned'[a] = CountAll(Copied(tx'), a)
  <2>1. /\ CountAll(inputs, a) \in Nat /\ CountAll(outputs, a) \in Nat /\ burned[a] \in Nat
        /\ now.total \in Nat /\ now.left \in Nat
    BY <1>1, PlacesType
  <2>2. CountAll(inputs, a) + InFlight(a) + CountAll(outputs, a) + burned[a] = CountAll(Copied(tx), a)
    BY <1>1 DEF Conserved
  <2>3. InFlight(a)' = 0
    <3>1. now'.total = 0 /\ now'.left = 0
      <4>1. tx \in Transactions \cup Orders
        BY <1>1 DEF Shape
      <4>2. NoInstruction.total = 0 /\ NoInstruction.left = 0
        BY <4>1, NothingYet
      <4> QED BY <1>2, <4>2
    <3> QED BY <3>1 DEF InFlight
  <2>4. InFlight(a) = IF a = now.asset THEN now.total ELSE 0
    BY <1>1, <2>1 DEF InFlight
  <2>5. burned'[a] = burned[a] + IF a = now.asset /\ IsBurn THEN now.total ELSE 0
    <3>1. burned \in [Assets -> Nat]
      BY <1>1 DEF Shape
    <3> QED BY <1>2, <2>1, <3>1
  <2>6. CountAll(outputs', a) = CountAll(outputs, a) + IF a = now.asset /\ ~IsBurn THEN now.total ELSE 0
    <3>1. CountAll(outputs', a) = CountAll(outputs, a)
                  + Cardinality(Receivers) * IF a = now.asset THEN now.amount ELSE 0
      BY <1>2
    <3>2. CASE a = now.asset
      BY <1>3, <3>1, <3>2
    <3>3. CASE a # now.asset
      <4>1. Cardinality(Receivers) * 0 = 0
        BY <1>3
      <4> QED BY <3>1, <3>3, <4>1
    <3> QED BY <3>2, <3>3
  <2>7. CountAll(inputs, a) + 0 + CountAll(outputs', a) + burned'[a]
          = CountAll(inputs, a) + InFlight(a) + CountAll(outputs, a) + burned[a]
    <3> HIDE DEF InFlight, IsBurn
    <3>1. CASE a = now.asset /\ IsBurn
      BY <2>1, <2>4, <2>5, <2>6, <3>1
    <3>2. CASE a = now.asset /\ ~IsBurn
      BY <2>1, <2>4, <2>5, <2>6, <3>2
    <3>3. CASE a # now.asset
      BY <2>1, <2>4, <2>5, <2>6, <3>3
    <3> QED BY <3>1, <3>2, <3>3
  <2> QED BY <1>2, <2>2, <2>3, <2>7
<1>5. Conserved'
  BY <1>4 DEF Conserved
<1> QED BY <1>1, <1>2, <1>5 DEF ConserveInv, Exact

LEMMA ConserveStep ==
    ASSUME NoWrap, ConserveInv, [Next]_vars
    PROVE  ConserveInv'
<1>1. /\ Shape /\ Conserved /\ Exact /\ tx \in Transactions \cup Orders
      /\ tx \in Transactions /\ phase \in {"read", "remove"} => Bounded(inputs, Len(tx.addresses))
      /\ phase = "build" => outputs = Empty(tx) /\ burned = Nothing
  BY DEF ConserveInv, Shape
<1>2. Shape'
  BY <1>1, ShapeStep, ShapeStutter
<1>3. CASE RouteToOutput \/ RouteToBurn \/ Refuse
  <2>1. phase' \in {"build", "refused"} /\ phase = "build" /\ UNCHANGED <<tx, outputs, burned>>
    BY <1>3 DEF RouteToOutput, RouteToBurn, Refuse
  <2> QED BY <1>1, <1>2, <2>1 DEF ConserveInv, Conserved, Exact
<1>4. CASE Sent \/ Catch
  <2>1. /\ phase' = "read" /\ inputs' = Copied(tx) /\ outputs' = Empty(tx) /\ burned' = Nothing /\ tx' = tx
    BY <1>1, <1>4 DEF Sent, Catch
  <2>2. now'.total = 0 /\ now'.left = 0
    <3>1. now' \in Work /\ now'.total = 0 /\ now'.left <= now'.total
      BY <1>2, <2>1 DEF Shape
    <3> QED BY <3>1 DEF Work
  <2>3. \A a : InFlight(a)' = 0
    BY <2>2 DEF InFlight
  <2>4. Conserved'
    BY <1>1, <2>1, <2>3, Afresh DEF Conserved
  <2>5. tx' \in Transactions => Bounded(inputs', Len(tx'.addresses))
    BY <2>1 DEF NoWrap
  <2> QED BY <1>2, <2>1, <2>4, <2>5 DEF ConserveInv, Exact
<1>5. CASE ReadInstruction /\ ~Exhausted(index)
  <2>1. phase = "read" /\ phase' = "remove" /\ UNCHANGED <<tx, inputs, outputs, burned>>
    BY <1>5 DEF ReadInstruction
  <2>2. now.total = 0 /\ now'.left = now'.total /\ now'.total \in Nat
    BY <1>1, <1>2, <1>5, <2>1, ReadShape DEF Shape, Work
  <2>3. \A a : InFlight(a) = 0 /\ InFlight(a)' = 0
    <3>1. \A a : InFlight(a) = 0
      BY <1>1, <2>2, NothingInFlight
    <3>2. \A a : InFlight(a)' = 0
      BY <2>2 DEF InFlight
    <3> QED BY <3>1, <3>2
  <2>4. Conserved'
    BY <1>1, <2>1, <2>3 DEF Conserved
  <2>5. Exact'
    BY <1>5, ReadExact
  <2> QED BY <1>1, <1>2, <2>1, <2>4, <2>5 DEF ConserveInv
<1>6. CASE RemoveChunk /\ ~Refused
  BY <1>6, RemoveConserves
<1>7. CASE Apply /\ ~NoSuchOutput
  BY <1>7, ApplyConserves
<1>8. CASE AddChange
  <2>1. /\ phase = "read" /\ UNCHANGED <<tx, phase, now, burned>>
        /\ \A a : CountAll(inputs', a) + CountAll(outputs', a) = CountAll(inputs, a) + CountAll(outputs, a)
        /\ \A n \in Nat : Bounded(inputs, n) => Bounded(inputs', n)
    BY <1>1, <1>8, ChangeMoves
  <2>2. ASSUME NEW a \in Assets
        PROVE  CountAll(inputs', a) + InFlight(a)' + CountAll(outputs', a) + burned'[a] = CountAll(Copied(tx'), a)
    <3>1. /\ CountAll(inputs, a) \in Nat /\ CountAll(outputs, a) \in Nat /\ burned[a] \in Nat
          /\ InFlight(a) \in Nat
      BY <1>1, PlacesType
    <3>2. CountAll(inputs', a) \in Nat /\ CountAll(outputs', a) \in Nat
      BY <1>2, CountAllType DEF Shape
    <3>3. CountAll(inputs, a) + InFlight(a) + CountAll(outputs, a) + burned[a] = CountAll(Copied(tx), a)
      BY <1>1, <2>1 DEF Conserved
    <3>4. InFlight(a)' = InFlight(a)
      BY <2>1 DEF InFlight
    <3>5. CountAll(inputs', a) + CountAll(outputs', a) = CountAll(inputs, a) + CountAll(outputs, a)
      BY <2>1
    <3>6. CountAll(inputs', a) + InFlight(a) + CountAll(outputs', a) + burned[a]
            = CountAll(inputs, a) + InFlight(a) + CountAll(outputs, a) + burned[a]
      BY <3>1, <3>2, <3>5
    <3> QED BY <2>1, <3>3, <3>4, <3>6
  <2>3. Conserved'
    BY <2>2 DEF Conserved
  <2>4. tx' \in Transactions => Bounded(inputs', Len(tx'.addresses))
    <3>1. Len(tx.addresses) \in Nat
      BY <1>1, NothingYet
    <3> QED BY <1>1, <2>1, <3>1
  <2> QED BY <1>2, <2>1, <2>3, <2>4 DEF ConserveInv, Exact
<1>9. CASE Ends
  <2>1. phase' = "done"
    BY <1>1, <1>9, EndShape
  <2> QED BY <1>2, <2>1 DEF ConserveInv, Conserved, Exact
<1>10. CASE UNCHANGED vars
  <2>1. Conserved' /\ Exact'
    BY <1>1, <1>10 DEF Conserved, InFlight, Exact, vars
  <2> QED BY <1>1, <1>2, <1>10, <2>1 DEF ConserveInv, vars
<1> QED BY <1>3, <1>4, <1>5, <1>6, <1>7, <1>8, <1>9, <1>10, StepCases

LEMMA ConserveInit ==
    ASSUME NoWrap, Init
    PROVE  ConserveInv
<1>1. /\ Shape /\ tx \in Transactions \cup Orders /\ phase \in {"build", "read"}
      /\ inputs = Copied(tx) /\ outputs = Empty(tx) /\ burned = Nothing
  BY ShapeInit DEF Init, Shape
<1>2. now.total = 0
  BY <1>1 DEF Shape
<1>3. \A a : InFlight(a) = 0
  BY <1>1, <1>2, NothingInFlight
<1>4. Conserved
  BY <1>1, <1>3, Afresh DEF Conserved
<1>5. tx \in Transactions => Bounded(inputs, Len(tx.addresses))
  BY <1>1 DEF NoWrap
<1> QED BY <1>1, <1>4, <1>5 DEF ConserveInv, Exact

\* While decodeAssetTransfer() runs, every unit of every asset is on an input, in the instruction
\* at work, on an output or burnt on purpose, and at one of them only - whatever the script asks,
\* wherever it is caught, and however the leftovers are spread - as long as no product wraps.
THEOREM UnitsConserved == ASSUME NoWrap PROVE Spec => []Conserved
<1>1. Init => ConserveInv
  BY ConserveInit
<1>2. ConserveInv /\ [Next]_vars => ConserveInv'
  BY ConserveStep
<1>3. ConserveInv => Conserved
  BY DEF ConserveInv
<1> QED BY <1>1, <1>2, <1>3, PTL DEF Spec

-----------------------------------------------------------------------------
(* What a stored transaction destroys is reported.                         *)

ReportInv ==
    /\ ConserveInv /\ LossReported /\ unintentional \in BOOLEAN
    /\ tx.type = "issuance" /\ _assetFound => unintentional

\* The supply: what the inputs hold, and what an issuance makes.
LEMMA SupplyParts ==
    ASSUME Shape, NEW a \in Assets
    PROVE  /\ CountAll(Given(tx), a) \in Nat /\ CountAll(Copied(tx), a) \in Nat
           /\ Supply(a) = CountAll(Copied(tx), a) + IF tx.type = "issuance" THEN CountAll(Given(tx), a) ELSE 0
           /\ ~_assetFound => CountAll(Given(tx), a) = 0
<1>1. tx \in Transactions \cup Orders
  BY DEF Shape
<1>2. CountAll(Given(tx), a) \in Nat /\ CountAll(Copied(tx), a) \in Nat
  BY <1>1, CopiedCounts, CountAllType
<1>3. Supply(a) = CountAll(Given(tx), a) + IF tx.type = "issuance" THEN Count(<<tx.issued>>, a) ELSE 0
  BY DEF Supply, Given
<1>4. Supply(a) = CountAll(Copied(tx), a) + IF tx.type = "issuance" THEN CountAll(Given(tx), a) ELSE 0
  <2>1. CASE tx.type = "issuance"
    <3>1. CountAll(Copied(tx), a) = Count(<<tx.issued>>, a)
      BY <1>1, <2>1, CopiedCounts
    <3> QED BY <1>2, <1>3, <2>1, <3>1
  <2>2. CASE tx.type # "issuance"
    <3>1. CountAll(Copied(tx), a) = CountAll(Given(tx), a)
      BY <1>1, <2>2, CopiedCounts
    <3> QED BY <1>2, <1>3, <2>2, <3>1
  <2> QED BY <2>1, <2>2
<1>5. ASSUME ~_assetFound PROVE CountAll(Given(tx), a) = 0
  <2> DEFINE g == Given(tx)
  <2>1. g \in Lists
    BY <1>1, CopiedCounts
  <2>2. \A i \in DOMAIN g : g[i] = <<>>
    BY <1>5 DEF _assetFound, Given
  <2> HIDE DEF g
  <2>3. \A i \in DOMAIN g : EachList(g, a)[i] = 0
    BY <2>1, <2>2, EachListType, CountEmpty
  <2>4. CountAll(g, a) = 0
    BY <2>3, SumZero, CountAllSum
  <2> QED BY <2>4 DEF g
<1> QED BY <1>2, <1>4, <1>5

\* What is on the outputs and burnt is never more than was copied, and all of it once the
\* leftovers are gone.
LEMMA HeldAndBurned ==
    ASSUME ConserveInv, phase = "read", NEW a \in Assets
    PROVE  /\ CountAll(outputs, a) \in Nat /\ burned[a] \in Nat
           /\ CountAll(outputs, a) + burned[a] <= CountAll(Copied(tx), a)
           /\ Leftover = 0 => CountAll(outputs, a) + burned[a] = CountAll(Copied(tx), a)
<1>1. Shape /\ Conserved /\ inputs \in Lists /\ now.total = 0
  BY DEF ConserveInv, Shape
<1>2. CountAll(inputs, a) \in Nat /\ CountAll(outputs, a) \in Nat /\ burned[a] \in Nat
  BY <1>1, PlacesType
<1>3. InFlight(a) = 0
  BY <1>1, NothingInFlight
<1>4. CountAll(inputs, a) + InFlight(a) + CountAll(outputs, a) + burned[a] = CountAll(Copied(tx), a)
  BY <1>1 DEF Conserved
<1>5. Leftover = 0 => CountAll(inputs, a) = 0
  <2> SUFFICES ASSUME Leftover = 0 PROVE CountAll(inputs, a) = 0
    OBVIOUS
  <2>1. \A i \in DOMAIN inputs : inputs[i] = <<>>
    BY <1>1, LeftoverPlace
  <2>2. \A i \in DOMAIN inputs : EachList(inputs, a)[i] = 0
    BY <1>1, <2>1, EachListType, CountEmpty
  <2> QED BY <2>2, SumZero, CountAllSum
<1> HIDE DEF Leftover, InFlight
<1> QED BY <1>2, <1>3, <1>4, <1>5

\* The report at the end.
LEMMA EndReports ==
    ASSUME ReportInv, Ends, NEW a \in Assets, stored'
    PROVE  /\ CountAll(outputs', a) + burned'[a] <= Supply(a)'
           /\ CountAll(outputs', a) + burned'[a] < Supply(a)' => isUnintentionalBurn'
<1>1. /\ ConserveInv /\ Shape /\ unintentional \in BOOLEAN
      /\ tx.type = "issuance" /\ _assetFound => unintentional
  BY DEF ReportInv, ConserveInv
<1>2. phase = "read" /\ UNCHANGED <<tx, burned>> /\ tx \in Transactions \cup Orders
  BY <1>1 DEF Shape, Ends, Truncated, NotAnAssetTransaction, ChangeFails, Finish, RuleFailed,
              RateUnknown, GiveUp, ReadAll
<1>3. Supply(a)' = Supply(a) /\ (_assetFound' <=> _assetFound)
  BY <1>2 DEF Supply, _assetFound
<1> DEFINE held == CountAll(outputs, a)
           whole == CountAll(Copied(tx), a)
           given == CountAll(Given(tx), a)
<1>4. /\ given \in Nat /\ whole \in Nat
      /\ Supply(a) = whole + IF tx.type = "issuance" THEN given ELSE 0
      /\ ~_assetFound => given = 0
  BY <1>1, SupplyParts
<1>5. /\ held \in Nat /\ burned[a] \in Nat /\ held + burned[a] <= whole
      /\ Leftover = 0 => held + burned[a] = whole
  BY <1>1, <1>2, HeldAndBurned
<1>6. CASE /\ outputs' = outputs /\ txType' = "standard" /\ tx.type # "issuance"
           /\ _assetFound
  <2>1. held + burned[a] <= Supply(a)
    BY <1>4, <1>5, <1>6
  <2>2. isUnintentionalBurn'
    BY <1>3, <1>6 DEF isUnintentionalBurn
  <2> QED BY <1>2, <1>3, <1>6, <2>1, <2>2
<1>7. CASE NotAnAssetTransaction
  <2>1. outputs' = outputs /\ ~_assetFound /\ tx.type # "issuance"
    BY <1>7 DEF NotAnAssetTransaction, _moves
  <2>2. whole = given
    BY <1>2, <2>1, CopiedCounts
  <2>3. held + burned[a] = 0 /\ Supply(a) = 0
    BY <1>4, <1>5, <2>1, <2>2
  <2> QED BY <1>2, <1>3, <2>1, <2>3
<1>8. CASE Finish
  <2>1. /\ Leftover = 0 /\ outputs' = Sweep(outputs)
        /\ unintentional' = (unintentional \/ Sweep(outputs) # outputs)
    BY <1>8 DEF Finish
  <2>2. CountAll(outputs', a) <= held /\ CountAll(outputs', a) \in Nat
    BY <1>1, <2>1, SweepLowers, CountAllType
  <2>3. CountAll(outputs', a) + burned[a] <= Supply(a)
    <3> HIDE DEF held, whole, given
    <3> QED BY <1>4, <1>5, <2>2
  <2>4. ASSUME CountAll(outputs', a) + burned[a] < Supply(a) PROVE isUnintentionalBurn'
    <3>1. CASE outputs' # outputs
      BY <2>1, <3>1 DEF isUnintentionalBurn
    <3>2. CASE outputs' = outputs
      <4>1. held + burned[a] < Supply(a) /\ held + burned[a] = whole
        BY <1>5, <2>1, <2>4, <3>2
      <4>2. tx.type = "issuance" /\ given # 0
        <5> HIDE DEF held, whole, given
        <5> QED BY <1>4, <1>5, <4>1
      <4>3. unintentional
        BY <1>1, <1>4, <4>2
      <4> QED BY <2>1, <4>3 DEF isUnintentionalBurn
    <3> QED BY <3>1, <3>2
  <2> QED BY <1>2, <1>3, <2>3, <2>4
<1>9. CASE RuleFailed
  <2>1. outputs' = Empty(tx) /\ unintentional' = TRUE
    BY <1>9 DEF RuleFailed
  <2>2. CountAll(outputs', a) = 0
    BY <1>2, <2>1, NothingYet
  <2>3. 0 + burned[a] <= Supply(a)
    <3> HIDE DEF held, whole, given
    <3> QED BY <1>4, <1>5
  <2>4. isUnintentionalBurn'
    BY <2>1 DEF isUnintentionalBurn
  <2> QED BY <1>2, <1>3, <2>2, <2>3, <2>4
<1>10. CASE Truncated \/ RateUnknown
  BY <1>6, <1>10 DEF Truncated, RateUnknown, GiveUp, _moves, ReadAll
<1>11. ~ChangeFails
  BY DEF ChangeFails, GiveUp
<1> QED BY <1>7, <1>8, <1>9, <1>10, <1>11 DEF Ends

LEMMA ReportStep ==
    ASSUME NoWrap, ReportInv, [Next]_vars
    PROVE  ReportInv'
<1>1. /\ ConserveInv /\ Shape /\ LossReported /\ unintentional \in BOOLEAN
      /\ tx.type = "issuance" /\ _assetFound => unintentional
  BY DEF ReportInv, ConserveInv
<1>2. ConserveInv'
  BY <1>1, ConserveStep
<1>3. tx' = tx /\ (unintentional' = unintentional \/ unintentional' = TRUE
                   \/ unintentional' = (unintentional \/ Sweep(outputs) # outputs))
  BY DEF Next, RouteToOutput, RouteToBurn, Refuse, Sent, ReadInstruction, RemoveChunk, Apply, Catch,
         Truncated, NotAnAssetTransaction, AddChange, ChangeFails, Finish, RuleFailed, RateUnknown,
         GiveUp, vars
<1>4. unintentional' \in BOOLEAN /\ (unintentional => unintentional')
  BY <1>1, <1>3
<1>5. tx'.type = "issuance" /\ _assetFound' => unintentional'
  <2>1. _assetFound' <=> _assetFound
    BY <1>3 DEF _assetFound
  <2> QED BY <1>1, <1>3, <1>4, <2>1
<1>6. CASE Ends
  <2>1. LossReported'
    BY <1>6, EndReports DEF ReportInv, LossReported
  <2> QED BY <1>2, <1>4, <1>5, <2>1 DEF ReportInv
<1>7. CASE UNCHANGED vars
  <2>1. LossReported'
    BY <1>1, <1>7 DEF LossReported, isUnintentionalBurn, Supply, _assetFound, vars
  <2> QED BY <1>2, <1>4, <1>5, <2>1 DEF ReportInv
<1>8. CASE Next /\ ~Ends
  <2>1. phase' # "done"
    BY <1>8 DEF Next, Ends, RouteToOutput, RouteToBurn, Refuse, Sent, ReadInstruction, RemoveChunk,
                Apply, Catch, AddChange, ReadAll
  <2> QED BY <1>2, <1>4, <1>5, <2>1 DEF ReportInv, LossReported
<1> QED BY <1>6, <1>7, <1>8

\* A transaction that addToDatabase stores never holds more of an asset than came in or was
\* issued, and when it holds less by more than its burn instructions, isUnintentionalBurn()
\* says so: after a cut script, a failed rule, a rate that is not known, a sweep of the
\* OP_RETURN outputs, or an issuance that spends assets.
THEOREM LossesReported == ASSUME NoWrap PROVE Spec => []LossReported
<1>1. Init => ReportInv
  <2> SUFFICES ASSUME Init PROVE ReportInv
    OBVIOUS
  <2>1. ConserveInv
    BY ConserveInit
  <2>2. phase # "done" /\ unintentional = (tx.type = "issuance" /\ _assetFound)
    BY DEF Init
  <2> QED BY <2>1, <2>2 DEF ReportInv, LossReported
<1>2. ReportInv /\ [Next]_vars => ReportInv'
  BY ReportStep
<1>3. ReportInv => LossReported
  BY DEF ReportInv
<1> QED BY <1>1, <1>2, <1>3, PTL DEF Spec

-----------------------------------------------------------------------------
(* What the wallet builds is what every node reads.  The argument follows   *)
(* one position in the inputs through both loops: the wallet counts chunks  *)
(* down, the interpreter takes them off the front, and every instruction    *)
(* moves both by the same amount.                                           *)

\* Lists of chunks with units, as the loops find them.
Solid(C) == C \in Lists /\ \A i \in DOMAIN C : C[i] # <<>> /\ \A k \in DOMAIN C[i] : C[i][k].count > 0

\* A position: the input r, the chunk p on it, and the c units left of that chunk.
Position == [r : Nat, p : Nat, c : Nat]

InPlace(C, q) ==
    /\ q \in Position /\ q.r \in 1 .. Len(C) + 1
    /\ q.r <= Len(C) => q.p \in DOMAIN C[q.r] /\ q.c \in 1 .. C[q.r][q.p].count

StartOf(C, i) == [r |-> i, p |-> 1, c |-> IF i <= Len(C) THEN C[i][1].count ELSE 0]

\* The position after n units.
After(C, q, n) ==
    IF n < q.c THEN [r |-> q.r, p |-> q.p, c |-> q.c - n]
    ELSE IF q.p < Len(C[q.r]) THEN [r |-> q.r, p |-> q.p + 1, c |-> C[q.r][q.p + 1].count]
    ELSE StartOf(C, q.r + 1)

\* The chunks of a solid list.
LEMMA SolidChunk ==
    ASSUME NEW C, Solid(C), NEW i \in DOMAIN C
    PROVE  /\ DOMAIN C = 1 .. Len(C) /\ Len(C) \in Nat /\ C[i] \in Seq(Chunk)
           /\ DOMAIN C[i] = 1 .. Len(C[i]) /\ Len(C[i]) \in Nat \ {0} /\ 1 \in DOMAIN C[i]
           /\ \A k \in DOMAIN C[i] : C[i][k] \in Chunk /\ C[i][k].count \in Nat \ {0} /\ C[i][k].asset \in Assets
<1>1. DOMAIN C = 1 .. Len(C) /\ Len(C) \in Nat /\ C[i] \in Seq(Chunk) /\ C[i] # <<>>
  BY DEF Solid, Lists
<1>2. DOMAIN C[i] = 1 .. Len(C[i]) /\ Len(C[i]) \in Nat \ {0} /\ 1 \in DOMAIN C[i]
  BY <1>1
<1>3. ASSUME NEW k \in DOMAIN C[i]
      PROVE  C[i][k] \in Chunk /\ C[i][k].count \in Nat \ {0} /\ C[i][k].asset \in Assets
  <2>1. C[i][k] \in Chunk
    BY <1>1
  <2>2. C[i][k].count > 0
    BY DEF Solid
  <2> QED BY <2>1, <2>2 DEF Chunk
<1> QED BY <1>1, <1>2, <1>3

LEMMA StartInPlace ==
    ASSUME NEW C, Solid(C), NEW i \in 1 .. Len(C) + 1
    PROVE  InPlace(C, StartOf(C, i))
<1>1. Len(C) \in Nat /\ DOMAIN C = 1 .. Len(C)
  BY DEF Solid, Lists
<1>2. CASE i <= Len(C)
  <2>1. i \in DOMAIN C
    BY <1>1, <1>2
  <2>2. 1 \in DOMAIN C[i] /\ C[i][1].count \in Nat \ {0}
    BY <2>1, SolidChunk
  <2> QED BY <1>1, <1>2, <2>2 DEF InPlace, StartOf, Position
<1>3. CASE ~(i <= Len(C))
  BY <1>1, <1>3 DEF InPlace, StartOf, Position
<1> QED BY <1>2, <1>3

LEMMA AfterInPlace ==
    ASSUME NEW C, Solid(C), NEW q, InPlace(C, q), q.r <= Len(C), NEW n \in 1 .. q.c
    PROVE  InPlace(C, After(C, q, n))
<1>1. /\ q \in Position /\ q.r \in 1 .. Len(C) + 1 /\ q.p \in DOMAIN C[q.r] /\ q.c \in 1 .. C[q.r][q.p].count
      /\ Len(C) \in Nat /\ DOMAIN C = 1 .. Len(C)
  BY DEF InPlace, Solid, Lists
<1>2. q.r \in Nat /\ q.p \in Nat /\ q.c \in Nat /\ q.r \in DOMAIN C
  BY <1>1 DEF Position
<1>3. /\ DOMAIN C[q.r] = 1 .. Len(C[q.r]) /\ Len(C[q.r]) \in Nat
      /\ \A k \in DOMAIN C[q.r] : C[q.r][k].count \in Nat \ {0}
  BY <1>2, SolidChunk
<1>4. CASE n < q.c
  <2>1. After(C, q, n) = [r |-> q.r, p |-> q.p, c |-> q.c - n]
    BY <1>4 DEF After
  <2>2. C[q.r][q.p].count \in Nat
    BY <1>1, <1>3
  <2>3. q.c - n \in 1 .. C[q.r][q.p].count
    BY <1>1, <1>2, <1>4, <2>2
  <2> QED BY <1>1, <1>2, <2>1, <2>3 DEF InPlace, Position
<1>5. CASE ~(n < q.c) /\ q.p < Len(C[q.r])
  <2>1. After(C, q, n) = [r |-> q.r, p |-> q.p + 1, c |-> C[q.r][q.p + 1].count]
    BY <1>5 DEF After
  <2>2. q.p + 1 \in DOMAIN C[q.r]
    BY <1>1, <1>2, <1>3, <1>5
  <2>3. C[q.r][q.p + 1].count \in Nat \ {0}
    BY <1>3, <2>2
  <2> QED BY <1>1, <1>2, <2>1, <2>2, <2>3 DEF InPlace, Position
<1>6. CASE ~(n < q.c) /\ ~(q.p < Len(C[q.r]))
  <2>1. After(C, q, n) = StartOf(C, q.r + 1)
    BY <1>6 DEF After
  <2>2. q.r + 1 \in 1 .. Len(C) + 1
    BY <1>1, <1>2
  <2> QED BY <2>1, <2>2, StartInPlace
<1> QED BY <1>4, <1>5, <1>6

-----------------------------------------------------------------------------
(* The wallet at a position: chunks before it are counted down to zero.     *)

Rest(C, q, i, k) ==
    IF i < q.r \/ (i = q.r /\ k < q.p) THEN 0 ELSE IF i = q.r /\ k = q.p THEN q.c ELSE C[i][k].count

CountedDown(C, q, ins) ==
    /\ DOMAIN ins = DOMAIN C
    /\ \A i \in DOMAIN C :
         /\ DOMAIN ins[i] = DOMAIN C[i]
         /\ \A k \in DOMAIN C[i] : ins[i][k].asset = C[i][k].asset /\ ins[i][k].count = Rest(C, q, i, k)

LEMMA RestType ==
    ASSUME NEW C, Solid(C), NEW q, InPlace(C, q), NEW i \in DOMAIN C, NEW k \in DOMAIN C[i]
    PROVE  /\ i \in Nat /\ k \in Nat /\ q.r \in Nat /\ q.p \in Nat /\ q.c \in Nat
           /\ Rest(C, q, i, k) \in Nat
           /\ Rest(C, q, i, k) > 0 <=> i > q.r \/ (i = q.r /\ k >= q.p)
<1>1. q.r \in Nat /\ q.p \in Nat /\ q.c \in Nat
  BY DEF InPlace, Position
<1>2. i \in Nat /\ k \in Nat /\ C[i][k].count \in Nat \ {0} /\ Len(C) \in Nat /\ i <= Len(C)
  BY SolidChunk
<1>3. i = q.r => q.c > 0
  BY <1>1, <1>2 DEF InPlace
<1> QED BY <1>1, <1>2, <1>3 DEF Rest

\* The wallet routes the chunk at the position.
LEMMA RoutedAtPosition ==
    ASSUME NEW C, Solid(C), NEW q, InPlace(C, q), inputs \in Lists, CountedDown(C, q, inputs)
    PROVE  /\ q.r <= Len(C) => /\ Routed = q.r /\ Place = q.p
                               /\ RoutedChunk.count = q.c /\ RoutedChunk.asset = C[q.r][q.p].asset
           /\ q.r > Len(C) => Routed = 0
<1> DEFINE I == {i \in 1 .. Len(inputs) : \E k \in DOMAIN inputs[i] : HasUnits(inputs[i][k])}
           J == {k \in 1 .. Len(inputs[Routed]) : HasUnits(inputs[Routed][k])}
<1>1. /\ q.r \in Nat \ {0} /\ q.p \in Nat /\ q.c \in Nat /\ Len(C) \in Nat /\ DOMAIN C = 1 .. Len(C)
      /\ DOMAIN inputs = 1 .. Len(inputs) /\ DOMAIN inputs = DOMAIN C
  BY DEF InPlace, Position, Solid, Lists, CountedDown
<1>2. Routed = IF I # {} THEN Min(I) ELSE 0
  BY DEF Routed, SelectInSeq
<1>3. ASSUME NEW i \in DOMAIN C, NEW k \in DOMAIN C[i]
      PROVE  /\ k \in DOMAIN inputs[i]
             /\ HasUnits(inputs[i][k]) <=> i > q.r \/ (i = q.r /\ k >= q.p)
  BY RestType DEF CountedDown, HasUnits
<1>4. I \in SUBSET Nat /\ \A i \in I : i >= q.r
  <2>1. ASSUME NEW i \in I PROVE i >= q.r
    <3>1. i \in DOMAIN C /\ DOMAIN inputs[i] = DOMAIN C[i]
      BY <1>1 DEF CountedDown
    <3> QED BY <1>1, <1>3, <3>1
  <2> QED BY <2>1
<1>5. CASE q.r <= Len(C)
  <2>1. q.r \in DOMAIN C /\ q.p \in DOMAIN C[q.r]
    BY <1>1, <1>5 DEF InPlace
  <2>2. DOMAIN inputs[q.r] = DOMAIN C[q.r] /\ HasUnits(inputs[q.r][q.p])
    BY <1>1, <1>3, <2>1 DEF CountedDown
  <2>3. q.r \in I
    BY <1>1, <2>1, <2>2
  <2>4. Routed = q.r
    <3> HIDE DEF I
    <3>1. Min(I) \in I /\ Min(I) <= q.r
      BY <1>4, <2>3, FirstPlace
    <3>2. Min(I) \in Nat /\ Min(I) >= q.r
      BY <1>4, <3>1
    <3> QED BY <1>1, <1>2, <2>3, <3>1, <3>2
  <2>5. Place = IF J # {} THEN Min(J) ELSE 0
    BY DEF Place, SelectInSeq
  <2>6. inputs[q.r] \in Seq(Chunk)
    BY <1>1, <2>1 DEF Lists
  <2>7. DOMAIN inputs[q.r] = 1 .. Len(inputs[q.r])
    BY <2>6
  <2>8. J \in SUBSET Nat /\ q.p \in J /\ \A k \in J : k >= q.p
    <3>1. q.p \in J
      BY <2>1, <2>2, <2>4, <2>7
    <3>2. ASSUME NEW k \in J PROVE k >= q.p
      <4>1. k \in DOMAIN C[q.r] /\ HasUnits(inputs[q.r][k]) /\ k \in Nat
        BY <2>2, <2>4, <2>7
      <4> QED BY <1>1, <1>3, <2>1, <4>1
    <3> QED BY <3>1, <3>2
  <2>9. Place = q.p
    <3> HIDE DEF J
    <3>1. Min(J) \in J /\ Min(J) <= q.p
      BY <2>8, FirstPlace
    <3>2. Min(J) \in Nat /\ Min(J) >= q.p
      BY <2>8, <3>1
    <3> QED BY <1>1, <2>5, <2>8, <3>1, <3>2
  <2>10. /\ inputs[q.r][q.p].asset = C[q.r][q.p].asset /\ inputs[q.r][q.p].count = q.c
    BY <1>1, <2>1 DEF CountedDown, Rest
  <2> QED BY <1>1, <1>5, <2>4, <2>9, <2>10 DEF RoutedChunk
<1>6. CASE q.r > Len(C)
  <2>1. I = {}
    <3>1. ASSUME NEW i \in I PROVE FALSE
      <4>1. i >= q.r /\ i \in 1 .. Len(C)
        BY <1>1, <1>4
      <4> QED BY <1>1, <1>6, <4>1
    <3> QED BY <3>1
  <2> QED BY <1>1, <1>2, <1>6, <2>1
<1> QED BY <1>1, <1>5, <1>6

\* Counting n units down moves the position by n.
LEMMA WalletMoves ==
    ASSUME NEW C, Solid(C), NEW q, InPlace(C, q), q.r <= Len(C), NEW n \in 1 .. q.c,
           inputs \in Lists, CountedDown(C, q, inputs)
    PROVE  CountedDown(C, After(C, q, n), Less(n))
<1> DEFINE z == After(C, q, n)
           new == Less(n)
<1>1. /\ q.r \in Nat \ {0} /\ q.p \in Nat /\ q.c \in Nat /\ Len(C) \in Nat /\ DOMAIN C = 1 .. Len(C)
      /\ q.r \in DOMAIN C /\ q.p \in DOMAIN C[q.r] /\ n \in Nat
  BY DEF InPlace, Position, Solid, Lists
<1>2. Routed = q.r /\ Place = q.p /\ DOMAIN inputs = DOMAIN C /\ DOMAIN inputs[q.r] = DOMAIN C[q.r]
  BY <1>1, RoutedAtPosition DEF CountedDown
<1>3. inputs[q.r][q.p] \in Chunk /\ inputs[q.r][q.p].count = q.c
      /\ inputs[q.r][q.p].asset = C[q.r][q.p].asset
  <2>1. inputs[q.r] \in Seq(Chunk)
    BY <1>1, <1>2 DEF Lists
  <2>2. inputs[q.r][q.p] \in Chunk
    BY <1>1, <1>2, <2>1
  <2> QED BY <1>1, <2>2 DEF CountedDown, Rest
<1>4. new = [inputs EXCEPT ![q.r] = [inputs[q.r] EXCEPT ![q.p] =
                [inputs[q.r][q.p] EXCEPT !.count = inputs[q.r][q.p].count - n]]]
  BY <1>2 DEF Less
<1>5. [inputs[q.r][q.p] EXCEPT !.count = inputs[q.r][q.p].count - n]
        = [asset |-> C[q.r][q.p].asset, count |-> q.c - n]
  BY <1>3 DEF Chunk
<1> DEFINE c == [asset |-> C[q.r][q.p].asset, count |-> q.c - n]
<1>6. new = [inputs EXCEPT ![q.r] = [inputs[q.r] EXCEPT ![q.p] = c]]
  BY <1>4, <1>5
<1>7. c.asset = C[q.r][q.p].asset /\ c.count = q.c - n
  OBVIOUS
<1> HIDE DEF c, new
<1>8. ASSUME NEW i \in DOMAIN C, NEW k \in DOMAIN C[i]
      PROVE  Rest(C, z, i, k) = IF i = q.r /\ k = q.p THEN q.c - n ELSE Rest(C, q, i, k)
  <2>1. /\ i \in Nat /\ k \in Nat /\ Len(C[i]) \in Nat /\ k <= Len(C[i]) /\ i <= Len(C)
        /\ k >= 1 /\ C[i][k].count \in Nat
    BY SolidChunk
  <2>2. CASE n < q.c
    <3>1. z.r = q.r /\ z.p = q.p /\ z.c = q.c - n
      BY <2>2 DEF After
    <3> HIDE DEF z
    <3> QED BY <1>1, <2>1, <3>1 DEF Rest
  <2>3. CASE ~(n < q.c) /\ q.p < Len(C[q.r])
    <3>1. z.r = q.r /\ z.p = q.p + 1 /\ z.c = C[q.r][q.p + 1].count /\ q.c - n = 0
      BY <1>1, <2>3 DEF After
    <3> HIDE DEF z
    <3>2. CASE i # q.r
      BY <1>1, <2>1, <3>1, <3>2 DEF Rest
    <3>3. CASE i = q.r
      BY <1>1, <2>1, <3>1, <3>3 DEF Rest
    <3> QED BY <3>2, <3>3
  <2>4. CASE ~(n < q.c) /\ ~(q.p < Len(C[q.r]))
    <3>1. z = StartOf(C, q.r + 1) /\ q.c - n = 0
      BY <1>1, <2>4 DEF After
    <3>2. z.r = q.r + 1 /\ z.p = 1 /\ (z.r <= Len(C) => z.c = C[q.r + 1][1].count)
      BY <3>1 DEF StartOf
    <3> HIDE DEF z
    <3>3. CASE i < q.r
      BY <1>1, <2>1, <3>2, <3>3 DEF Rest
    <3>4. CASE i = q.r
      <4>1. k <= q.p
        BY <1>1, <2>1, <2>4, <3>4
      <4> QED BY <1>1, <2>1, <3>1, <3>2, <3>4, <4>1 DEF Rest
    <3>5. CASE i = q.r + 1
      BY <1>1, <2>1, <3>2, <3>5 DEF Rest
    <3>6. CASE i > q.r + 1
      BY <1>1, <2>1, <3>2, <3>6 DEF Rest
    <3> QED BY <1>1, <2>1, <3>3, <3>4, <3>5, <3>6
  <2> QED BY <2>2, <2>3, <2>4
<1> HIDE DEF z
<1>9. DOMAIN new = DOMAIN C
  BY <1>2, <1>6
<1>10. ASSUME NEW i \in DOMAIN C
       PROVE  /\ DOMAIN new[i] = DOMAIN C[i]
              /\ \A k \in DOMAIN C[i] : new[i][k].asset = C[i][k].asset /\ new[i][k].count = Rest(C, z, i, k)
  <2>1. DOMAIN inputs[i] = DOMAIN C[i]
        /\ \A k \in DOMAIN C[i] : inputs[i][k].asset = C[i][k].asset /\ inputs[i][k].count = Rest(C, q, i, k)
    BY DEF CountedDown
  <2>2. new[i] = IF i = q.r THEN [inputs[q.r] EXCEPT ![q.p] = c] ELSE inputs[i]
    BY <1>1, <1>2, <1>6
  <2>3. DOMAIN new[i] = DOMAIN C[i]
    BY <2>1, <2>2
  <2>4. \A k \in DOMAIN C[i] : new[i][k] = IF i = q.r /\ k = q.p THEN c ELSE inputs[i][k]
    BY <2>1, <2>2
  <2> QED BY <1>7, <1>8, <2>1, <2>3, <2>4
<1>11. CountedDown(C, z, new)
  BY <1>9, <1>10 DEF CountedDown
<1> QED BY <1>11 DEF z, new

-----------------------------------------------------------------------------
(* The interpreter at a position: chunks before it are gone.                *)

\* What is left on an input from the chunk p, of which c units remain.
OnFront(s, t, p, c) ==
    /\ Len(s) = Len(t) - p + 1 /\ s[1] = [asset |-> t[p].asset, count |-> c]
    /\ \A k \in 2 .. Len(s) : s[k] = t[p + k - 1]

TakenOff(C, q, ins, at) ==
    /\ at = q.r /\ DOMAIN ins = DOMAIN C
    /\ \A i \in DOMAIN C : (i < q.r => ins[i] = <<>>) /\ (i > q.r => ins[i] = C[i])
    /\ q.r <= Len(C) => OnFront(ins[q.r], C[q.r], q.p, q.c)

\* A whole input.
LEMMA FrontFresh ==
    ASSUME NEW t \in Seq(Chunk), t # <<>>
    PROVE  OnFront(t, t, 1, t[1].count)
<1>1. Len(t) \in Nat /\ 1 \in DOMAIN t
  OBVIOUS
<1>2. t[1] \in Chunk
  BY <1>1
<1>3. t[1] = [asset |-> t[1].asset, count |-> t[1].count]
  BY <1>2 DEF Chunk
<1>4. Len(t) = Len(t) - 1 + 1 /\ \A k \in 2 .. Len(t) : t[k] = t[1 + k - 1]
  BY <1>1
<1> QED BY <1>3, <1>4 DEF OnFront

\* Part of the first chunk is taken.
LEMMA FrontShrinks ==
    ASSUME NEW s \in Seq(Chunk), NEW t, NEW p, NEW c, NEW m, OnFront(s, t, p, c), s # <<>>
    PROVE  OnFront([s EXCEPT ![1].count = m], t, p, m)
<1> DEFINE w == [s EXCEPT ![1].count = m]
<1>1. Len(s) \in Nat /\ DOMAIN s = 1 .. Len(s) /\ 1 \in DOMAIN s
  OBVIOUS
<1>2. s[1] = [asset |-> t[p].asset, count |-> c]
  BY DEF OnFront
<1>3. [s[1] EXCEPT !.count = m] = [asset |-> t[p].asset, count |-> m]
  BY <1>2
<1>4. w = [s EXCEPT ![1] = [s[1] EXCEPT !.count = m]]
  OBVIOUS
<1>5. w = [s EXCEPT ![1] = [asset |-> t[p].asset, count |-> m]]
  BY <1>3, <1>4
<1> HIDE DEF w
<1> DEFINE c2 == [asset |-> t[p].asset, count |-> m]
<1> HIDE DEF c2
<1>6. w = [s EXCEPT ![1] = c2]
  BY <1>5 DEF c2
<1>7. Len(w) = Len(s) /\ w[1] = c2 /\ \A k \in 2 .. Len(s) : w[k] = s[k]
  BY <1>1, <1>6
<1>8. Len(s) = Len(t) - p + 1 /\ \A k \in 2 .. Len(s) : s[k] = t[p + k - 1]
  BY DEF OnFront
<1>9. w[1] = [asset |-> t[p].asset, count |-> m]
  BY <1>7 DEF c2
<1>10. OnFront(w, t, p, m)
  BY <1>7, <1>8, <1>9 DEF OnFront
<1> QED BY <1>10 DEF w

\* The first chunk is taken and another follows.
LEMMA FrontGone ==
    ASSUME NEW s \in Seq(Chunk), NEW t \in Seq(Chunk), NEW p \in 1 .. Len(t) - 1, NEW c, OnFront(s, t, p, c)
    PROVE  OnFront(Tail(s), t, p + 1, t[p + 1].count) /\ Len(s) # 1
<1>1. Len(t) \in Nat /\ DOMAIN t = 1 .. Len(t) /\ p \in Nat /\ p + 1 \in DOMAIN t
  OBVIOUS
<1>2. Len(s) = Len(t) - p + 1 /\ \A k \in 2 .. Len(s) : s[k] = t[p + k - 1]
  BY DEF OnFront
<1>3. Len(s) \in Nat /\ Len(s) >= 2
  BY <1>1, <1>2
<1>4. Len(Tail(s)) = Len(s) - 1 /\ \A k \in 1 .. Len(s) - 1 : Tail(s)[k] = s[k + 1]
  BY <1>3
<1> DEFINE w == Tail(s)
<1> HIDE DEF w
<1>5. Len(w) = Len(s) - 1 /\ \A k \in 1 .. Len(s) - 1 : w[k] = s[k + 1]
  BY <1>4 DEF w
<1>6. ASSUME NEW k \in 1 .. Len(s) - 1 PROVE w[k] = t[p + k]
  <2>1. k + 1 \in 2 .. Len(s) /\ p + (k + 1) - 1 = p + k
    BY <1>1, <1>3
  <2> QED BY <1>2, <1>5, <2>1
<1>7. w[1] = t[p + 1]
  BY <1>3, <1>6
<1>8. t[p + 1] \in Chunk
  BY <1>1
<1>9. t[p + 1] = [asset |-> t[p + 1].asset, count |-> t[p + 1].count]
  BY <1>8 DEF Chunk
<1>10. Len(w) = Len(t) - (p + 1) + 1
  BY <1>1, <1>2, <1>5
<1>11. ASSUME NEW k \in 2 .. Len(w) PROVE w[k] = t[(p + 1) + k - 1]
  <2>1. k \in 1 .. Len(s) - 1 /\ (p + 1) + k - 1 = p + k
    BY <1>1, <1>3, <1>5
  <2> QED BY <1>6, <2>1
<1>12. OnFront(w, t, p + 1, t[p + 1].count)
  BY <1>7, <1>9, <1>10, <1>11 DEF OnFront
<1> DEFINE l == Len(s)
<1>13. l \in Nat /\ l >= 2
  BY <1>3
<1> HIDE DEF l
<1>14. l # 1
  BY <1>13
<1>15. Len(s) # 1
  BY <1>14 DEF l
<1> QED BY <1>12, <1>15 DEF w

\* The last chunk is taken.
LEMMA FrontLast ==
    ASSUME NEW s \in Seq(Chunk), NEW t \in Seq(Chunk), NEW c, OnFront(s, t, Len(t), c)
    PROVE  Len(s) = 1 /\ Tail(s) = <<>>
<1>1. Len(s) = Len(t) - Len(t) + 1 /\ Len(t) \in Nat
  BY DEF OnFront
<1>2. Len(s) = 1
  BY <1>1
<1>3. Len(s) >= 1
  BY <1>2
<1>4. Tail(s) \in Seq(Chunk) /\ Len(Tail(s)) = Len(s) - 1
  BY <1>3
<1> DEFINE w == Tail(s)
<1> HIDE DEF w
<1>5. w \in Seq(Chunk) /\ Len(w) <= 0
  <2>1. w \in Seq(Chunk) /\ Len(w) = Len(s) - 1
    BY <1>4 DEF w
  <2> DEFINE l == Len(s)
             m == Len(w)
  <2>2. m = l - 1 /\ l = 1
    BY <1>2, <2>1
  <2> HIDE DEF l, m
  <2>3. m <= 0
    BY <2>2
  <2> QED BY <2>1, <2>3 DEF m
<1>6. Tail(s) = <<>>
  BY <1>5 DEF w
<1> QED BY <1>2, <1>6

\* The front of the input is the chunk at the position.
LEMMA FrontAtPosition ==
    ASSUME NEW C, Solid(C), NEW q, InPlace(C, q), inputs \in Lists, TakenOff(C, q, inputs, index)
    PROVE  /\ q.r <= Len(C) => /\ ~Exhausted(index) /\ index \in DOMAIN inputs
                               /\ inputs[index][1].count = q.c /\ inputs[index][1].asset = C[q.r][q.p].asset
           /\ q.r > Len(C) => \A i \in DOMAIN inputs : inputs[i] = <<>>
<1>1. /\ q.r \in Nat \ {0} /\ q.p \in Nat /\ q.c \in Nat /\ Len(C) \in Nat /\ DOMAIN C = 1 .. Len(C)
      /\ DOMAIN inputs = 1 .. Len(inputs) /\ Len(inputs) \in Nat /\ DOMAIN inputs = DOMAIN C /\ index = q.r
  BY DEF InPlace, Position, Solid, Lists, TakenOff
<1>2. Len(inputs) = Len(C)
  <2>1. Len(C) > 0 => Len(C) \in DOMAIN inputs
    BY <1>1
  <2>2. Len(inputs) > 0 => Len(inputs) \in DOMAIN C
    BY <1>1
  <2> DEFINE l == Len(inputs)
             m == Len(C)
  <2>3. l \in Nat /\ m \in Nat /\ (m > 0 => m \in 1 .. l) /\ (l > 0 => l \in 1 .. m)
    BY <1>1, <2>1, <2>2
  <2> HIDE DEF l, m
  <2>4. l = m
    BY <2>3
  <2> QED BY <2>4 DEF l, m
<1>3. CASE q.r <= Len(C)
  <2>1. q.r \in DOMAIN C /\ q.p \in DOMAIN C[q.r]
    BY <1>1, <1>3 DEF InPlace
  <2>2. DOMAIN C[q.r] = 1 .. Len(C[q.r]) /\ Len(C[q.r]) \in Nat
    BY <2>1, SolidChunk
  <2>3. inputs[q.r] \in Seq(Chunk) /\ Len(inputs[q.r]) >= 1
    BY <1>1, <1>3, <2>1, <2>2 DEF TakenOff, OnFront, Lists
  <2>4. inputs[q.r] # <<>>
    BY <2>3
  <2>5. inputs[q.r][1].count = q.c /\ inputs[q.r][1].asset = C[q.r][q.p].asset
    BY <1>3 DEF TakenOff, OnFront
  <2> QED BY <1>1, <1>2, <1>3, <2>1, <2>4, <2>5 DEF Exhausted
<1>4. CASE q.r > Len(C)
  BY <1>1, <1>4 DEF TakenOff
<1> QED BY <1>1, <1>3, <1>4

\* Taking n units off the front moves the position by n.
LEMMA FrontMoves ==
    ASSUME NEW C, Solid(C), NEW q, InPlace(C, q), q.r <= Len(C), NEW n \in 1 .. q.c,
           NEW ins \in Lists, TakenOff(C, q, ins, q.r), NEW new, DOMAIN new = DOMAIN ins, NEW at,
           \A i \in DOMAIN ins \ {q.r} : new[i] = ins[i],
           q.c <= n  => new[q.r] = Tail(ins[q.r]) /\ at = IF Len(ins[q.r]) = 1 THEN q.r + 1 ELSE q.r,
           n < q.c => new[q.r] = [ins[q.r] EXCEPT ![1].count = q.c - n] /\ at = q.r
    PROVE  TakenOff(C, After(C, q, n), new, at)
<1> DEFINE z == After(C, q, n)
<1>1. /\ q.r \in Nat \ {0} /\ q.p \in Nat /\ q.c \in Nat /\ Len(C) \in Nat /\ DOMAIN C = 1 .. Len(C)
      /\ q.r \in DOMAIN C /\ q.p \in DOMAIN C[q.r] /\ n \in Nat /\ n >= 1 /\ n <= q.c
      /\ DOMAIN ins = DOMAIN C
  BY DEF InPlace, Position, Solid, Lists, TakenOff
<1>2. /\ C[q.r] \in Seq(Chunk) /\ Len(C[q.r]) \in Nat /\ DOMAIN C[q.r] = 1 .. Len(C[q.r])
      /\ ins[q.r] \in Seq(Chunk) /\ OnFront(ins[q.r], C[q.r], q.p, q.c)
  <2>1. C[q.r] \in Seq(Chunk) /\ Len(C[q.r]) \in Nat /\ DOMAIN C[q.r] = 1 .. Len(C[q.r])
    BY <1>1, SolidChunk
  <2>2. ins[q.r] \in Seq(Chunk)
    BY <1>1 DEF Lists
  <2>3. OnFront(ins[q.r], C[q.r], q.p, q.c)
    BY DEF TakenOff
  <2> QED BY <2>1, <2>2, <2>3
<1>3. ins[q.r] # <<>>
  <2>1. Len(ins[q.r]) >= 1
    BY <1>1, <1>2 DEF OnFront
  <2> QED BY <2>1
<1>4. \A i \in DOMAIN C : (i < q.r => ins[i] = <<>>) /\ (i > q.r => ins[i] = C[i])
  BY DEF TakenOff
<1>5. CASE n < q.c
  <2>1. z.r = q.r /\ z.p = q.p /\ z.c = q.c - n
    BY <1>5 DEF After
  <2>2. new[q.r] = [ins[q.r] EXCEPT ![1].count = q.c - n] /\ at = q.r
    BY <1>5
  <2>3. OnFront(new[q.r], C[q.r], q.p, q.c - n)
    BY <1>2, <1>3, <2>2, FrontShrinks
  <2> HIDE DEF z
  <2>4. \A i \in DOMAIN C : (i < z.r => new[i] = <<>>) /\ (i > z.r => new[i] = C[i])
    BY <1>1, <1>4, <2>1
  <2>5. TakenOff(C, z, new, at)
    BY <1>1, <2>1, <2>2, <2>3, <2>4 DEF TakenOff
  <2> QED BY <2>5 DEF z
<1>6. CASE ~(n < q.c) /\ q.p < Len(C[q.r])
  <2>1. z.r = q.r /\ z.p = q.p + 1 /\ z.c = C[q.r][q.p + 1].count
    BY <1>6 DEF After
  <2>2. q.p \in 1 .. Len(C[q.r]) - 1
    BY <1>1, <1>2, <1>6
  <2>3. OnFront(Tail(ins[q.r]), C[q.r], q.p + 1, C[q.r][q.p + 1].count) /\ Len(ins[q.r]) # 1
    BY <1>2, <2>2, FrontGone
  <2>4. new[q.r] = Tail(ins[q.r]) /\ at = q.r
    BY <1>1, <1>6, <2>3
  <2> HIDE DEF z
  <2>5. \A i \in DOMAIN C : (i < z.r => new[i] = <<>>) /\ (i > z.r => new[i] = C[i])
    BY <1>1, <1>4, <2>1
  <2>6. TakenOff(C, z, new, at)
    BY <1>1, <2>1, <2>3, <2>4, <2>5 DEF TakenOff
  <2> QED BY <2>6 DEF z
<1>7. CASE ~(n < q.c) /\ ~(q.p < Len(C[q.r]))
  <2>1. z = StartOf(C, q.r + 1)
    BY <1>7 DEF After
  <2>2. z.r = q.r + 1 /\ z.p = 1 /\ (z.r <= Len(C) => z.c = C[q.r + 1][1].count)
    BY <2>1 DEF StartOf
  <2>3. q.p = Len(C[q.r])
    BY <1>1, <1>2, <1>7
  <2>4. OnFront(ins[q.r], C[q.r], Len(C[q.r]), q.c)
    BY <1>2, <2>3
  <2>5. Len(ins[q.r]) = 1 /\ Tail(ins[q.r]) = <<>>
    BY <1>2, <2>4, FrontLast
  <2>6. new[q.r] = <<>> /\ at = q.r + 1
    <3>1. q.c <= n
      BY <1>1, <1>7
    <3> QED BY <2>5, <3>1
  <2> HIDE DEF z
  <2>7. \A i \in DOMAIN C : (i < z.r => new[i] = <<>>) /\ (i > z.r => new[i] = C[i])
    <3>1. ASSUME NEW i \in DOMAIN C PROVE (i < z.r => new[i] = <<>>) /\ (i > z.r => new[i] = C[i])
      <4>1. i \in Nat
        BY <1>1
      <4>2. CASE i = q.r
        BY <1>1, <2>2, <2>6, <4>1, <4>2
      <4>3. CASE i # q.r
        <5>1. new[i] = ins[i]
          BY <1>1, <4>3
        <5>2. (i < z.r => i < q.r) /\ (i > z.r => i > q.r)
          BY <1>1, <2>2, <4>1, <4>3
        <5> QED BY <1>4, <5>1, <5>2
      <4> QED BY <4>2, <4>3
    <3> QED BY <3>1
  <2>8. z.r <= Len(C) => OnFront(new[z.r], C[z.r], z.p, z.c)
    <3> SUFFICES ASSUME z.r <= Len(C) PROVE OnFront(new[z.r], C[z.r], z.p, z.c)
      OBVIOUS
    <3>1. z.r \in DOMAIN C /\ z.r > q.r /\ z.r # q.r
      BY <1>1, <2>2
    <3>2. new[z.r] = C[z.r]
      BY <1>1, <1>4, <3>1
    <3>3. C[z.r] \in Seq(Chunk) /\ C[z.r] # <<>>
      BY <3>1 DEF Solid, Lists
    <3>4. OnFront(C[z.r], C[z.r], 1, C[z.r][1].count)
      BY <3>3, FrontFresh
    <3> QED BY <2>2, <3>2, <3>4
  <2>9. TakenOff(C, z, new, at)
    BY <1>1, <2>2, <2>6, <2>7, <2>8 DEF TakenOff
  <2> QED BY <2>9 DEF z
<1> QED BY <1>5, <1>6, <1>7

\* Removing n units moves the position by n, and is never refused.
LEMMA InterpreterMoves ==
    ASSUME NEW C, Solid(C), NEW q, InPlace(C, q), q.r <= Len(C), now.left \in 1 .. q.c,
           now.asset = C[q.r][q.p].asset, Shape, TakenOff(C, q, inputs, index), RemoveChunk
    PROVE  /\ now' = [now EXCEPT !.left = 0]
           /\ TakenOff(C, After(C, q, now.left), inputs', index')
           /\ UNCHANGED <<tx, phase, script, wanted, outputs, burned, unintentional, txType, malformed, stored>>
<1>1. /\ q.r \in Nat \ {0} /\ q.c \in Nat /\ now.left \in Nat /\ now.left >= 1 /\ now.left <= q.c
      /\ index = q.r /\ inputs \in Lists /\ TakenOff(C, q, inputs, q.r)
  BY DEF InPlace, Position, TakenOff, Shape, Work
<1>2. ~Exhausted(index) /\ index \in DOMAIN inputs /\ inputs[index][1].count = q.c
      /\ inputs[index][1].asset = now.asset
  BY <1>1, FrontAtPosition
<1>3. ~(inputs[index][1].count < now.left)
  BY <1>1, <1>2
<1> DEFINE s == inputs[index]
           have == s[1].count
           used == have <= now.left
           rest == IF used THEN Tail(s) ELSE [s EXCEPT ![1].count = have - now.left]
<1>4. /\ now' = [now EXCEPT !.left = IF used THEN now.left - have ELSE 0]
      /\ inputs' = [inputs EXCEPT ![index] = rest]
      /\ index' = IF used /\ Len(s) = 1 THEN index + 1 ELSE index
      /\ UNCHANGED <<tx, phase, script, wanted, outputs, burned, unintentional, txType, malformed, stored>>
  BY <1>2, <1>3 DEF RemoveChunk
<1>5. now' = [now EXCEPT !.left = 0]
  <2>1. used => now.left - have = 0
    BY <1>1, <1>2
  <2> HIDE DEF used
  <2> QED BY <1>4, <2>1
<1>6. have = q.c /\ s = inputs[q.r]
  BY <1>1, <1>2
<1>7. DOMAIN inputs' = DOMAIN inputs /\ inputs'[q.r] = rest /\ \A i \in DOMAIN inputs \ {q.r} : inputs'[i] = inputs[i]
  BY <1>1, <1>2, <1>4
<1>8. q.c <= now.left => /\ inputs'[q.r] = Tail(inputs[q.r])
                         /\ index' = IF Len(inputs[q.r]) = 1 THEN q.r + 1 ELSE q.r
  BY <1>1, <1>4, <1>6, <1>7
<1>9. now.left < q.c => inputs'[q.r] = [inputs[q.r] EXCEPT ![1].count = q.c - now.left] /\ index' = q.r
  BY <1>1, <1>4, <1>6, <1>7
<1>10. TakenOff(C, After(C, q, now.left), inputs', index')
  <2> DEFINE new == inputs'
             at == index'
  <2>1. /\ DOMAIN new = DOMAIN inputs /\ \A i \in DOMAIN inputs \ {q.r} : new[i] = inputs[i]
        /\ q.c <= now.left => new[q.r] = Tail(inputs[q.r]) /\ at = IF Len(inputs[q.r]) = 1 THEN q.r + 1 ELSE q.r
        /\ now.left < q.c => new[q.r] = [inputs[q.r] EXCEPT ![1].count = q.c - now.left] /\ at = q.r
    BY <1>7, <1>8, <1>9
  <2> HIDE DEF new, at
  <2>2. TakenOff(C, After(C, q, now.left), new, at)
    BY <1>1, <2>1, FrontMoves
  <2> QED BY <2>2 DEF new, at
<1> QED BY <1>4, <1>5, <1>10

-----------------------------------------------------------------------------
(* The orders.                                                              *)

\* The copy of an order's inputs has no empty list and no empty chunk.
LEMMA SolidCopy ==
    ASSUME Sendable, NEW t \in Orders
    PROVE  Solid(Copied(t)) /\ Len(Copied(t)) \in Nat
<1> DEFINE C == Copied(t)
<1>1. C \in Lists
  BY CopiedCounts
<1>2. ASSUME NEW i \in DOMAIN C PROVE C[i] # <<>>
  <2>1. CASE t.type = "issuance"
    <3>1. C = << <<t.issued>> >>
      BY <2>1 DEF Copied
    <3> QED BY <3>1
  <2>2. CASE t.type # "issuance"
    <3> DEFINE n == Cardinality(Full(t))
               f == [k \in 1 .. n |-> Nth(t, k)]
    <3>1. C = [k \in 1 .. n |-> t.inputs[Nth(t, k)].assets]
      BY <2>2 DEF Copied
    <3>2. f \in Bijection(1 .. n, Full(t))
      BY NthInput
    <3> HIDE DEF C
    <3>3. i \in 1 .. n
      BY <1>2, <3>1
    <3>4. f[i] \in Full(t)
      BY <3>2, <3>3 DEF Bijection, Injection, IsInjective, Surjection
    <3>5. Nth(t, i) \in Full(t)
      BY <3>3, <3>4
    <3>6. t.inputs[Nth(t, i)].assets # <<>>
      BY <3>5 DEF Full
    <3> QED BY <3>1, <3>3, <3>6
  <2> QED BY <2>1, <2>2
<1>3. ASSUME NEW i \in DOMAIN C, NEW k \in DOMAIN C[i] PROVE C[i][k].count > 0
  BY DEF Sendable, HasUnits
<1>4. Len(C) \in Nat
  BY <1>1 DEF Lists
<1> HIDE DEF C
<1>5. Solid(C)
  BY <1>1, <1>2, <1>3 DEF Solid
<1> QED BY <1>4, <1>5 DEF C

\* n units fewer on a chunk of a list.
LEMMA FewerCounted ==
    ASSUME NEW s \in Seq(Chunk), NEW k \in DOMAIN s, NEW n \in Nat, n <= s[k].count, NEW a
    PROVE  /\ [s EXCEPT ![k].count = s[k].count - n] \in Seq(Chunk)
           /\ Count([s EXCEPT ![k].count = s[k].count - n], a) + (IF a = s[k].asset THEN n ELSE 0) = Count(s, a)
<1> DEFINE c == [asset |-> s[k].asset, count |-> s[k].count - n]
           w == [s EXCEPT ![k].count = s[k].count - n]
<1>1. s[k] \in Chunk
  OBVIOUS
<1>2. s[k].count \in Nat /\ s[k].asset \in Assets
  BY <1>1 DEF Chunk
<1>3. c \in Chunk
  BY <1>2 DEF Chunk
<1>4. w = [s EXCEPT ![k] = c]
  <2>1. [s[k] EXCEPT !.count = s[k].count - n] = c
    BY <1>1 DEF Chunk
  <2>2. w = [s EXCEPT ![k] = [s[k] EXCEPT !.count = s[k].count - n]]
    OBVIOUS
  <2> QED BY <2>1, <2>2
<1>5. c.asset = s[k].asset /\ c.count = s[k].count - n
  OBVIOUS
<1> HIDE DEF c, w
<1>6. w \in Seq(Chunk) /\ Count(w, a) + Units(s[k], a) = Count(s, a) + Units(c, a)
  BY <1>3, <1>4, CountChanged
<1>7. Units(s[k], a) = Units(c, a) + IF a = s[k].asset THEN n ELSE 0
  BY <1>2, <1>5 DEF Units
<1>8. Count(w, a) \in Nat /\ Count(s, a) \in Nat /\ Units(c, a) \in Nat
  BY <1>3, <1>6, CountType, UnitsType
<1>9. Count(w, a) + (IF a = s[k].asset THEN n ELSE 0) = Count(s, a)
  BY <1>6, <1>7, <1>8
<1> QED BY <1>6, <1>9 DEF w

\* The burn marker of a burn is no output.
Marker(t, x) == t.type = "burn" /\ x = BurnOutput

\* An instruction to an output serves one wish on it.
LEMMA OutputRouted ==
    ASSUME Shape, RouteToOutput, RoutedChunk.count \in Nat \ {0}
    PROVE  \E o \in DOMAIN wanted.outputs, n \in 1 .. RoutedChunk.count :
             /\ o - 1 \in 0 .. BurnOutput /\ ~Marker(tx, o - 1)
             /\ script' = Append(script, Plain(o - 1, n)) /\ inputs' = Less(n)
             /\ DOMAIN wanted'.outputs = DOMAIN wanted.outputs /\ wanted'.burns = wanted.burns
             /\ \A a : Count(wanted'.outputs[o], a) + (IF a = RoutedChunk.asset THEN n ELSE 0)
                         = Count(wanted.outputs[o], a)
             /\ \A i \in DOMAIN wanted.outputs \ {o} : wanted'.outputs[i] = wanted.outputs[i]
<1> DEFINE chunk == RoutedChunk
           o == Served(chunk)
           k == SelectInSeq(wanted.outputs[o], LAMBDA w : Wants(chunk, w))
           n == Take(chunk, wanted.outputs[o][k])
           I == {i \in 1 .. Len(wanted.outputs) :
                   \E j \in DOMAIN wanted.outputs[i] : Wants(chunk, wanted.outputs[i][j])}
           J == {j \in 1 .. Len(wanted.outputs[o]) : Wants(chunk, wanted.outputs[o][j])}
<1>0. wanted \in [outputs : Lists, burns : Seq(Chunk)] /\ wanted.outputs \in Lists /\ wanted.burns \in Seq(Chunk)
  BY DEF Shape
<1>1. /\ o # 0 /\ Reachable(o) /\ script' = Append(script, Plain(o - 1, n))
      /\ wanted' = [wanted EXCEPT !.outputs[o][k].count = wanted.outputs[o][k].count - n] /\ inputs' = Less(n)
  BY DEF RouteToOutput
<1>2. o = IF I # {} THEN Min(I) ELSE 0
  BY DEF Served, SelectInSeq
<1>3. k = IF J # {} THEN Min(J) ELSE 0
  BY DEF SelectInSeq
<1> HIDE DEF chunk, o, k
<1>4. o \in I
  <2>1. I \in SUBSET Nat
    OBVIOUS
  <2> HIDE DEF I
  <2>2. I # {}
    BY <1>1, <1>2
  <2> QED BY <1>2, <2>1, <2>2, FirstPlace
<1>5. o \in DOMAIN wanted.outputs /\ wanted.outputs[o] \in Seq(Chunk) /\ o \in Nat \ {0}
  BY <1>0, <1>4 DEF Lists
<1>6. k \in J
  <2>1. DOMAIN wanted.outputs[o] = 1 .. Len(wanted.outputs[o])
    BY <1>5
  <2>2. J \in SUBSET Nat /\ J # {}
    BY <1>4, <2>1
  <2> HIDE DEF J
  <2> QED BY <1>3, <2>2, FirstPlace
<1>7. k \in DOMAIN wanted.outputs[o] /\ wanted.outputs[o][k] \in Chunk /\ Wants(chunk, wanted.outputs[o][k])
  BY <1>5, <1>6
<1>8. wanted.outputs[o][k].count \in Nat \ {0} /\ wanted.outputs[o][k].asset = chunk.asset
  BY <1>7 DEF Chunk, Wants
<1>9. n \in 1 .. RoutedChunk.count /\ n <= wanted.outputs[o][k].count /\ n \in Nat
  BY <1>8 DEF Take, Least, chunk
<1> HIDE DEF n
<1>10. o - 1 \in 0 .. BurnOutput /\ ~Marker(tx, o - 1)
  <2>1. o - 1 <= 31 /\ ~(o - 1 = 31 /\ tx.type = "burn")
    BY <1>1 DEF Reachable, BurnOutput
  <2>2. o - 1 <= 31
    BY <2>1
  <2>3. o \in Nat \ {0}
    BY <1>5
  <2>4. o - 1 \in 0 .. 31
    BY <2>2, <2>3
  <2> QED BY <2>1, <2>4 DEF Marker, BurnOutput
<1> DEFINE row == [wanted.outputs[o] EXCEPT ![k].count = wanted.outputs[o][k].count - n]
<1>11. wanted' = [wanted EXCEPT !.outputs = [wanted.outputs EXCEPT ![o] = row]]
  BY <1>1
<1>12. \A a : row \in Seq(Chunk) /\ Count(row, a) + (IF a = chunk.asset THEN n ELSE 0) = Count(wanted.outputs[o], a)
  <2>1. ASSUME NEW a
        PROVE  row \in Seq(Chunk) /\ Count(row, a) + (IF a = chunk.asset THEN n ELSE 0) = Count(wanted.outputs[o], a)
    <3>1. /\ row \in Seq(Chunk)
          /\ Count(row, a) + (IF a = wanted.outputs[o][k].asset THEN n ELSE 0) = Count(wanted.outputs[o], a)
      <4> DEFINE s == wanted.outputs[o]
      <4>1. s \in Seq(Chunk) /\ k \in DOMAIN s /\ n \in Nat /\ n <= s[k].count
        BY <1>5, <1>7, <1>9
      <4>2. row = [s EXCEPT ![k].count = s[k].count - n]
        OBVIOUS
      <4> HIDE DEF s, row
      <4>3. row \in Seq(Chunk) /\ Count(row, a) + (IF a = s[k].asset THEN n ELSE 0) = Count(s, a)
        <5>1. /\ [s EXCEPT ![k].count = s[k].count - n] \in Seq(Chunk)
              /\ Count([s EXCEPT ![k].count = s[k].count - n], a) + (IF a = s[k].asset THEN n ELSE 0) = Count(s, a)
          BY ONLY <4>1, FewerCounted
        <5> QED BY <4>2, <5>1
      <4> QED BY <4>3 DEF s
    <3> HIDE DEF row
    <3> QED BY <1>8, <3>1
  <2> QED BY <2>1
<1> HIDE DEF row
<1>13. wanted'.outputs = [wanted.outputs EXCEPT ![o] = row] /\ wanted'.burns = wanted.burns
  BY <1>0, <1>11
<1>14. /\ DOMAIN wanted'.outputs = DOMAIN wanted.outputs /\ wanted'.outputs[o] = row
       /\ \A i \in DOMAIN wanted.outputs \ {o} : wanted'.outputs[i] = wanted.outputs[i]
  BY <1>5, <1>13
<1>15. \A a : Count(wanted'.outputs[o], a) + (IF a = RoutedChunk.asset THEN n ELSE 0) = Count(wanted.outputs[o], a)
  BY <1>12, <1>14 DEF chunk
<1> QED BY <1>1, <1>5, <1>9, <1>10, <1>13, <1>14, <1>15

\* An instruction to the burn marker serves one declared burn.
LEMMA BurnRouted ==
    ASSUME Shape, RouteToBurn, RoutedChunk.count \in Nat \ {0}
    PROVE  \E n \in 1 .. RoutedChunk.count :
             /\ script' = Append(script, Plain(BurnOutput, n)) /\ inputs' = Less(n)
             /\ wanted.burns # <<>> /\ wanted'.outputs = wanted.outputs
             /\ \A a : Count(wanted'.burns, a) + (IF a = RoutedChunk.asset THEN n ELSE 0) = Count(wanted.burns, a)
<1> DEFINE chunk == RoutedChunk
           k == SelectInSeq(wanted.burns, LAMBDA w : Wants(chunk, w))
           n == Least(chunk.count, wanted.burns[k].count)
           J == {j \in 1 .. Len(wanted.burns) : Wants(chunk, wanted.burns[j])}
<1>0. wanted \in [outputs : Lists, burns : Seq(Chunk)] /\ wanted.outputs \in Lists /\ wanted.burns \in Seq(Chunk)
  BY DEF Shape
<1>1. /\ k # 0 /\ script' = Append(script, Plain(BurnOutput, n))
      /\ wanted' = [wanted EXCEPT !.burns[k].count = wanted.burns[k].count - n] /\ inputs' = Less(n)
  BY DEF RouteToBurn
<1>2. k = IF J # {} THEN Min(J) ELSE 0
  BY DEF SelectInSeq
<1> HIDE DEF chunk, k
<1>3. k \in J
  <2>1. J \in SUBSET Nat /\ J # {}
    BY <1>1, <1>2
  <2> HIDE DEF J
  <2> QED BY <1>2, <2>1, FirstPlace
<1>4. k \in DOMAIN wanted.burns /\ wanted.burns[k] \in Chunk /\ Wants(chunk, wanted.burns[k])
  BY <1>0, <1>3
<1>5. wanted.burns # <<>>
  BY <1>4
<1>6. wanted.burns[k].count \in Nat \ {0} /\ wanted.burns[k].asset = chunk.asset
  BY <1>4 DEF Chunk, Wants
<1>7. n \in 1 .. RoutedChunk.count /\ n <= wanted.burns[k].count /\ n \in Nat
  BY <1>6 DEF Least, chunk
<1> HIDE DEF n
<1> DEFINE row == [wanted.burns EXCEPT ![k].count = wanted.burns[k].count - n]
<1>8. wanted' = [wanted EXCEPT !.burns = row]
  BY <1>1
<1>9. \A a : Count(row, a) + (IF a = chunk.asset THEN n ELSE 0) = Count(wanted.burns, a)
  <2>1. ASSUME NEW a PROVE Count(row, a) + (IF a = chunk.asset THEN n ELSE 0) = Count(wanted.burns, a)
    <3>1. Count(row, a) + (IF a = wanted.burns[k].asset THEN n ELSE 0) = Count(wanted.burns, a)
      BY <1>0, <1>4, <1>7, FewerCounted
    <3> HIDE DEF row
    <3> QED BY <1>6, <3>1
  <2> QED BY <2>1
<1> HIDE DEF row
<1>10. wanted'.burns = row /\ wanted'.outputs = wanted.outputs
  BY <1>0, <1>8
<1>11. \A a : Count(wanted'.burns, a) + (IF a = RoutedChunk.asset THEN n ELSE 0) = Count(wanted.burns, a)
  BY <1>9, <1>10 DEF chunk
<1> QED BY <1>1, <1>5, <1>7, <1>10, <1>11

\* When nothing is unmet, nothing is wanted anywhere.
LEMMA NothingWanted ==
    ASSUME Shape, ~Unmet, NEW a \in Assets
    PROVE  /\ Count(wanted.burns, a) = 0
           /\ \A o \in DOMAIN wanted.outputs : Count(wanted.outputs[o], a) = 0
<1>1. wanted.outputs \in Lists /\ wanted.burns \in Seq(Chunk)
  BY DEF Shape
<1>2. CountAll(wanted.outputs, a) \in Nat /\ Count(wanted.burns, a) \in Nat
  BY <1>1, CountAllType, CountType
<1>3. ~(CountAll(wanted.outputs, a) + Count(wanted.burns, a) > 0)
  BY DEF Unmet
<1>4. CountAll(wanted.outputs, a) = 0 /\ Count(wanted.burns, a) = 0
  BY <1>2, <1>3
<1>5. ASSUME NEW o \in DOMAIN wanted.outputs PROVE Count(wanted.outputs[o], a) = 0
  <2> DEFINE e == <<>>
             new == [wanted.outputs EXCEPT ![o] = e]
  <2>1. e \in Seq(Chunk) /\ Count(e, a) = 0
    BY CountEmpty
  <2> HIDE DEF e
  <2>2. new \in Lists /\ CountAll(new, a) + Count(wanted.outputs[o], a) = CountAll(wanted.outputs, a) + Count(e, a)
    BY <1>1, <2>1, CountAllChanged
  <2> HIDE DEF new
  <2>3. CountAll(new, a) \in Nat
    BY <2>2, CountAllType
  <2>4. wanted.outputs[o] \in Seq(Chunk)
    BY <1>1 DEF Lists
  <2>5. Count(wanted.outputs[o], a) \in Nat
    BY <2>4, CountType
  <2> QED BY <1>4, <2>1, <2>2, <2>3, <2>5
<1> QED BY <1>4, <1>5

-----------------------------------------------------------------------------
(* The history of a script: where every instruction finds the inputs, and   *)
(* what has gone to each output, or to the burn marker, before it.          *)

Books == [Nat \X Assets -> Nat]
Entry == [pos : Position, paid : Books]

AssetAt(C, q) == C[q.r][q.p].asset

\* n units of a more for x.
Book(paid, x, a, n) == [paid EXCEPT ![<<x, a>>] = @ + n]

\* The entry z after the instruction i at the entry g.
Pays(C, g, i, z) ==
    /\ g.pos.r <= Len(C) /\ i.amount \in 1 .. g.pos.c /\ i.output \in 0 .. BurnOutput
    /\ i = Plain(i.output, i.amount) /\ z.pos = After(C, g.pos, i.amount)
    /\ z.paid = Book(g.paid, i.output, AssetAt(C, g.pos), i.amount)

Follows(C, b, h) ==
    /\ h \in Seq(Entry) /\ Len(h) = Len(b) + 1
    /\ h[1] = [pos |-> StartOf(C, 1), paid |-> [x \in Nat \X Assets |-> 0]]
    /\ \A k \in DOMAIN h : InPlace(C, h[k].pos)
    /\ \A k \in DOMAIN b : Pays(C, h[k], b[k], h[k + 1])

\* The entry a history ends with.
Latest(h) == h[Len(h)]

\* What is paid and what is still wanted make the order.
Owes(t, w, paid) ==
    /\ DOMAIN w.outputs = DOMAIN t.outputs
    /\ \A a \in Assets :
         /\ \A o \in DOMAIN t.outputs :
              Count(w.outputs[o], a) + (IF Marker(t, o - 1) THEN 0 ELSE paid[<<o - 1, a>>]) = Count(t.outputs[o], a)
         /\ Count(w.burns, a) + (IF t.type = "burn" THEN paid[<<BurnOutput, a>>] ELSE 0) = Count(t.burns, a)
         /\ \A x \in Nat : paid[<<x, a>>] > 0 => Marker(t, x) \/ x + 1 \in DOMAIN t.outputs

\* What is paid is the order.
Settled(t, paid) ==
    \A a \in Assets :
      /\ \A o \in DOMAIN t.outputs : (IF Marker(t, o - 1) THEN 0 ELSE paid[<<o - 1, a>>]) = Count(t.outputs[o], a)
      /\ (IF t.type = "burn" THEN paid[<<BurnOutput, a>>] ELSE 0) = Count(t.burns, a)

\* Nothing is paid where nothing was ordered.
Within(t, paid) ==
    \A a \in Assets, x \in Nat : paid[<<x, a>>] > 0 => Marker(t, x) \/ x + 1 \in DOMAIN t.outputs

Building ==
    /\ outputs = Empty(tx) /\ burned = Nothing /\ index = 1
    /\ \E h : /\ Follows(Copied(tx), script, h) /\ CountedDown(Copied(tx), Latest(h).pos, inputs)
              /\ Owes(tx, wanted, Latest(h).paid) /\ \A k \in DOMAIN h : Within(tx, h[k].paid)

\* The books after a payment.
LEMMA Booked ==
    ASSUME NEW paid \in Books, NEW x \in Nat, NEW a \in Assets, NEW n \in Nat
    PROVE  /\ Book(paid, x, a, n) \in Books
           /\ \A y \in Nat, d \in Assets :
                /\ paid[<<y, d>>] \in Nat
                /\ y = x /\ d = a => Book(paid, x, a, n)[<<y, d>>] = paid[<<y, d>>] + n
                /\ y # x \/ d # a => Book(paid, x, a, n)[<<y, d>>] = paid[<<y, d>>]
<1> DEFINE e == <<x, a>>
           new == [paid EXCEPT ![e] = @ + n]
<1>1. e \in Nat \X Assets
  OBVIOUS
<1>2. \A y \in Nat, d \in Assets : <<y, d>> \in Nat \X Assets /\ (<<y, d>> = e <=> y = x /\ d = a)
  OBVIOUS
<1> HIDE DEF e
<1>3. /\ DOMAIN paid = Nat \X Assets /\ \A f \in Nat \X Assets : paid[f] \in Nat
  BY DEF Books
<1>4. DOMAIN new = Nat \X Assets /\ \A f \in Nat \X Assets : new[f] = IF f = e THEN paid[f] + n ELSE paid[f]
  BY <1>1, <1>3
<1>5. \A f \in Nat \X Assets : new[f] \in Nat
  BY <1>3, <1>4
<1>6. new \in Books
  BY <1>4, <1>5 DEF Books
<1> HIDE DEF new
<1>7. \A y \in Nat, d \in Assets :
        /\ paid[<<y, d>>] \in Nat
        /\ y = x /\ d = a => new[<<y, d>>] = paid[<<y, d>>] + n
        /\ y # x \/ d # a => new[<<y, d>>] = paid[<<y, d>>]
  BY <1>2, <1>3, <1>4
<1>8. Book(paid, x, a, n) = new
  BY DEF Book, new, e
<1> QED BY <1>6, <1>7, <1>8

LEMMA BookedHere ==
    ASSUME NEW paid \in Books, NEW x \in Nat, NEW d \in Assets, NEW n \in Nat, NEW y \in Nat, NEW a \in Assets,
           y = x, a = d
    PROVE  Book(paid, x, d, n)[<<y, a>>] = paid[<<y, a>>] + n
BY Booked

LEMMA BookedElsewhere ==
    ASSUME NEW paid \in Books, NEW x \in Nat, NEW d \in Assets, NEW n \in Nat, NEW y \in Nat, NEW a \in Assets,
           y # x \/ a # d
    PROVE  Book(paid, x, d, n)[<<y, a>>] = paid[<<y, a>>]
BY Booked

LEMMA PaidType ==
    ASSUME NEW paid \in Books, NEW y \in Nat, NEW a \in Assets
    PROVE  paid[<<y, a>>] \in Nat
BY DEF Books

\* A history with one instruction more.
LEMMA HistoryGrows ==
    ASSUME NEW C, Solid(C), NEW b \in Seq(Instruction), NEW h, Follows(C, b, h), Latest(h).pos.r <= Len(C),
           NEW x \in 0 .. BurnOutput, NEW n \in 1 .. Latest(h).pos.c
    PROVE  \E z \in Entry :
             /\ Follows(C, Append(b, Plain(x, n)), Append(h, z)) /\ Latest(Append(h, z)) = z
             /\ z.pos = After(C, Latest(h).pos, n)
             /\ z.paid = Book(Latest(h).paid, x, AssetAt(C, Latest(h).pos), n)
             /\ AssetAt(C, Latest(h).pos) \in Assets
<1> DEFINE g == Latest(h)
           a == AssetAt(C, g.pos)
           i == Plain(x, n)
           z == [pos |-> After(C, g.pos, n), paid |-> Book(g.paid, x, a, n)]
           b2 == Append(b, i)
           h2 == Append(h, z)
           l == Len(b)
<1>1. /\ h \in Seq(Entry) /\ Len(h) = l + 1 /\ l \in Nat /\ DOMAIN h = 1 .. l + 1 /\ DOMAIN b = 1 .. l
      /\ g = h[l + 1] /\ \A k \in DOMAIN h : InPlace(C, h[k].pos)
  BY DEF Follows, Latest
<1>2. g \in Entry /\ InPlace(C, g.pos)
  <2>1. l + 1 \in DOMAIN h
    BY <1>1
  <2> QED BY <1>1, <2>1
<1>3. g.pos \in Position /\ g.paid \in Books
  BY <1>2 DEF Entry
<1>4. i \in Instruction /\ i.output = x /\ i.amount = n
  BY <1>3 DEF Plain, Instruction, BurnOutput, Position
<1>5. a \in Assets
  <2>1. g.pos.r \in DOMAIN C /\ g.pos.p \in DOMAIN C[g.pos.r]
    BY <1>2 DEF InPlace, Solid, Lists
  <2> QED BY <2>1, SolidChunk DEF AssetAt
<1> HIDE DEF g, a
<1>6. InPlace(C, z.pos)
  BY <1>2, AfterInPlace DEF g
<1>7. z.pos = After(C, g.pos, n) /\ z.paid = Book(g.paid, x, a, n)
  OBVIOUS
<1>8. z \in Entry
  <2>1. z.pos \in Position
    BY <1>6 DEF InPlace
  <2>2. x \in Nat /\ n \in Nat
    BY <1>3 DEF BurnOutput, Position
  <2>3. z.paid \in Books
    BY <1>3, <1>5, <2>2, Booked
  <2> QED BY <1>7, <2>1, <2>3 DEF Entry
<1>9. Pays(C, g, i, z)
  <2>1. i = Plain(i.output, i.amount)
    BY <1>4
  <2> HIDE DEF i, z
  <2> QED BY <1>4, <1>7, <2>1 DEF Pays, a, g
<1> HIDE DEF i, z
<1>10. /\ h2 \in Seq(Entry) /\ Len(h2) = l + 2 /\ DOMAIN h2 = 1 .. l + 2 /\ h2[l + 2] = z
       /\ \A k \in 1 .. l + 1 : h2[k] = h[k]
  BY <1>1, <1>8
<1>11. /\ Len(b2) = l + 1 /\ DOMAIN b2 = 1 .. l + 1 /\ b2[l + 1] = i
       /\ \A k \in 1 .. l : b2[k] = b[k]
  BY <1>1, <1>4
<1> HIDE DEF h2, b2, l
<1>12. Latest(h2) = z
  BY <1>10 DEF Latest
<1>13. h2[1] = [pos |-> StartOf(C, 1), paid |-> [e \in Nat \X Assets |-> 0]]
  <2>1. h2[1] = h[1]
    BY <1>1, <1>10
  <2> QED BY <2>1 DEF Follows
<1>14. ASSUME NEW k \in DOMAIN h2 PROVE InPlace(C, h2[k].pos)
  <2>1. CASE k = l + 2
    BY <1>6, <1>10, <2>1
  <2>2. CASE k # l + 2
    <3>1. k \in DOMAIN h /\ h2[k] = h[k]
      BY <1>1, <1>10, <2>2
    <3> QED BY <1>1, <3>1
  <2> QED BY <2>1, <2>2
<1>15. ASSUME NEW k \in DOMAIN b2 PROVE Pays(C, h2[k], b2[k], h2[k + 1])
  <2>1. CASE k = l + 1
    <3>1. h2[k] = g /\ b2[k] = i /\ h2[k + 1] = z
      BY <1>1, <1>10, <1>11, <2>1
    <3> QED BY <1>9, <3>1
  <2>2. CASE k # l + 1
    <3>1. k \in DOMAIN b /\ h2[k] = h[k] /\ h2[k + 1] = h[k + 1] /\ b2[k] = b[k]
      BY <1>1, <1>10, <1>11, <2>2
    <3> QED BY <3>1 DEF Follows
  <2> QED BY <2>1, <2>2
<1>16. Len(h2) = Len(b2) + 1
  BY <1>1, <1>10, <1>11
<1>17. Follows(C, b2, h2)
  BY <1>10, <1>13, <1>14, <1>15, <1>16 DEF Follows
<1> QED BY <1>5, <1>7, <1>8, <1>12, <1>17 DEF h2, b2, i, g, a

\* A payment to an output.
LEMMA OutputBooked ==
    ASSUME NEW t \in Orders, NEW w \in [outputs : Lists, burns : Seq(Chunk)],
           NEW v \in [outputs : Lists, burns : Seq(Chunk)], NEW paid \in Books, NEW d \in Assets,
           NEW o \in DOMAIN w.outputs, NEW n \in Nat, o - 1 \in 0 .. BurnOutput, ~Marker(t, o - 1),
           DOMAIN v.outputs = DOMAIN w.outputs, v.burns = w.burns,
           \A a : Count(v.outputs[o], a) + (IF a = d THEN n ELSE 0) = Count(w.outputs[o], a),
           \A i \in DOMAIN w.outputs \ {o} : v.outputs[i] = w.outputs[i], Owes(t, w, paid)
    PROVE  Owes(t, v, Book(paid, o - 1, d, n))
<1> DEFINE x == o - 1
           new == Book(paid, x, d, n)
<1>1. x \in Nat /\ o \in Nat /\ DOMAIN w.outputs = DOMAIN t.outputs /\ DOMAIN w.outputs \in SUBSET (Nat \ {0})
  BY DEF Owes, BurnOutput, Lists
<1> HIDE DEF x
<1>2. ASSUME NEW y \in Nat, NEW a \in Assets
      PROVE  /\ paid[<<y, a>>] \in Nat
             /\ y = x /\ a = d => new[<<y, a>>] = paid[<<y, a>>] + n
             /\ y # x \/ a # d => new[<<y, a>>] = paid[<<y, a>>]
  <2>1. paid[<<y, a>>] \in Nat
    BY PaidType
  <2>2. ASSUME y = x, a = d PROVE new[<<y, a>>] = paid[<<y, a>>] + n
    BY <1>1, <2>2, BookedHere
  <2>3. ASSUME y # x PROVE new[<<y, a>>] = paid[<<y, a>>]
    BY <1>1, <2>3, BookedElsewhere
  <2>4. ASSUME a # d PROVE new[<<y, a>>] = paid[<<y, a>>]
    BY <1>1, <2>4, BookedElsewhere
  <2> HIDE DEF new
  <2> QED BY <2>1, <2>2, <2>3, <2>4
<1> HIDE DEF new
<1>3. ~Marker(t, x) /\ x = o - 1
  BY DEF x
<1>4. ASSUME NEW a \in Assets, NEW i \in DOMAIN t.outputs
      PROVE  Count(v.outputs[i], a) + (IF Marker(t, i - 1) THEN 0 ELSE new[<<i - 1, a>>]) = Count(t.outputs[i], a)
  <2>1. /\ v.outputs[i] \in Seq(Chunk) /\ w.outputs[i] \in Seq(Chunk) /\ i \in Nat /\ i - 1 \in Nat
    <3>1. v.outputs[i] \in Seq(Chunk) /\ w.outputs[i] \in Seq(Chunk)
      BY <1>1 DEF Lists
    <3>2. i \in Nat \ {0}
      BY <1>1
    <3>3. i - 1 \in Nat
      BY <3>2
    <3> QED BY <3>1, <3>2, <3>3
  <2>2. Count(v.outputs[i], a) \in Nat /\ Count(w.outputs[i], a) \in Nat
    BY <2>1, CountType
  <2>3. Count(w.outputs[i], a) + (IF Marker(t, i - 1) THEN 0 ELSE paid[<<i - 1, a>>]) = Count(t.outputs[i], a)
    BY DEF Owes
  <2>4. CASE i = o
    <3>1. Count(v.outputs[i], a) + (IF a = d THEN n ELSE 0) = Count(w.outputs[i], a)
      BY <2>4
    <3>2. ~Marker(t, i - 1) /\ i - 1 = x
      BY <1>3, <2>4
    <3>3. new[<<i - 1, a>>] = paid[<<i - 1, a>>] + (IF a = d THEN n ELSE 0) /\ paid[<<i - 1, a>>] \in Nat
      BY <1>2, <2>1, <3>2
    <3> DEFINE p == paid[<<i - 1, a>>]
               q == new[<<i - 1, a>>]
               e == IF a = d THEN n ELSE 0
    <3>4. q = p + e /\ p \in Nat /\ e \in Nat /\ Count(v.outputs[i], a) + e = Count(w.outputs[i], a)
          /\ Count(w.outputs[i], a) + p = Count(t.outputs[i], a)
      BY <2>3, <3>1, <3>2, <3>3
    <3> HIDE DEF p, q, e
    <3>5. Count(v.outputs[i], a) + q = Count(t.outputs[i], a)
      BY <2>2, <3>4
    <3> QED BY <3>2, <3>5 DEF q
  <2>5. CASE i # o
    <3>1. i - 1 # x
      BY <1>1, <1>3, <2>1, <2>5
    <3>2. new[<<i - 1, a>>] = paid[<<i - 1, a>>] /\ v.outputs[i] = w.outputs[i]
      BY <1>1, <1>2, <2>1, <2>5, <3>1
    <3> QED BY <2>3, <3>2
  <2> QED BY <2>4, <2>5
<1>5. ASSUME NEW a \in Assets
      PROVE  Count(v.burns, a) + (IF t.type = "burn" THEN new[<<BurnOutput, a>>] ELSE 0) = Count(t.burns, a)
  <2>1. Count(w.burns, a) + (IF t.type = "burn" THEN paid[<<BurnOutput, a>>] ELSE 0) = Count(t.burns, a)
    BY DEF Owes
  <2>2. t.type = "burn" => BurnOutput # x
    BY <1>3 DEF Marker
  <2>3. t.type = "burn" => new[<<BurnOutput, a>>] = paid[<<BurnOutput, a>>]
    BY <1>2, <2>2 DEF BurnOutput
  <2> QED BY <2>1, <2>3
<1>6. ASSUME NEW a \in Assets, NEW y \in Nat, new[<<y, a>>] > 0 PROVE Marker(t, y) \/ y + 1 \in DOMAIN t.outputs
  <2>1. CASE y = x
    <3>1. y + 1 = o
      BY <1>1, <1>3, <2>1
    <3> QED BY <1>1, <3>1
  <2>2. CASE y # x
    <3>1. paid[<<y, a>>] > 0
      BY <1>2, <1>6, <2>2
    <3> QED BY <3>1 DEF Owes
  <2> QED BY <2>1, <2>2
<1>7. DOMAIN v.outputs = DOMAIN t.outputs
  BY <1>1
<1>8. Owes(t, v, new)
  BY <1>4, <1>5, <1>6, <1>7 DEF Owes
<1> QED BY <1>8 DEF new, x

\* A payment to the burn marker of a burn.
LEMMA BurnBooked ==
    ASSUME NEW t \in Orders, NEW w \in [outputs : Lists, burns : Seq(Chunk)],
           NEW v \in [outputs : Lists, burns : Seq(Chunk)], NEW paid \in Books, NEW d \in Assets,
           NEW n \in Nat, t.type = "burn", v.outputs = w.outputs,
           \A a : Count(v.burns, a) + (IF a = d THEN n ELSE 0) = Count(w.burns, a), Owes(t, w, paid)
    PROVE  Owes(t, v, Book(paid, BurnOutput, d, n))
<1> DEFINE x == BurnOutput
           new == Book(paid, x, d, n)
<1>1. x \in Nat /\ DOMAIN w.outputs = DOMAIN t.outputs /\ DOMAIN w.outputs \in SUBSET (Nat \ {0})
  BY DEF Owes, BurnOutput, Lists
<1> HIDE DEF x
<1>2. ASSUME NEW y \in Nat, NEW a \in Assets
      PROVE  /\ paid[<<y, a>>] \in Nat
             /\ y = x /\ a = d => new[<<y, a>>] = paid[<<y, a>>] + n
             /\ y # x \/ a # d => new[<<y, a>>] = paid[<<y, a>>]
  <2>1. paid[<<y, a>>] \in Nat
    BY PaidType
  <2>2. ASSUME y = x, a = d PROVE new[<<y, a>>] = paid[<<y, a>>] + n
    BY <1>1, <2>2, BookedHere
  <2>3. ASSUME y # x PROVE new[<<y, a>>] = paid[<<y, a>>]
    BY <1>1, <2>3, BookedElsewhere
  <2>4. ASSUME a # d PROVE new[<<y, a>>] = paid[<<y, a>>]
    BY <1>1, <2>4, BookedElsewhere
  <2> HIDE DEF new
  <2> QED BY <2>1, <2>2, <2>3, <2>4
<1> HIDE DEF new
<1>3. \A y : Marker(t, y) <=> y = x
  BY DEF Marker, x
<1>4. ASSUME NEW a \in Assets, NEW i \in DOMAIN t.outputs
      PROVE  Count(v.outputs[i], a) + (IF Marker(t, i - 1) THEN 0 ELSE new[<<i - 1, a>>]) = Count(t.outputs[i], a)
  <2>1. i - 1 \in Nat
    BY <1>1
  <2>2. Count(w.outputs[i], a) + (IF Marker(t, i - 1) THEN 0 ELSE paid[<<i - 1, a>>]) = Count(t.outputs[i], a)
    BY DEF Owes
  <2>3. ~Marker(t, i - 1) => new[<<i - 1, a>>] = paid[<<i - 1, a>>]
    BY <1>2, <1>3, <2>1
  <2> QED BY <2>2, <2>3
<1>5. ASSUME NEW a \in Assets
      PROVE  Count(v.burns, a) + (IF t.type = "burn" THEN new[<<BurnOutput, a>>] ELSE 0) = Count(t.burns, a)
  <2>1. Count(w.burns, a) + paid[<<x, a>>] = Count(t.burns, a)
    BY DEF Owes, x
  <2> DEFINE p == paid[<<x, a>>]
             q == new[<<x, a>>]
             e == IF a = d THEN n ELSE 0
  <2>2. q = p + e /\ p \in Nat /\ e \in Nat /\ Count(v.burns, a) + e = Count(w.burns, a)
        /\ Count(w.burns, a) + p = Count(t.burns, a)
    BY <1>1, <1>2, <2>1
  <2>3. Count(v.burns, a) \in Nat /\ Count(w.burns, a) \in Nat
    BY CountType
  <2> HIDE DEF p, q, e
  <2>4. Count(v.burns, a) + q = Count(t.burns, a)
    BY <2>2, <2>3
  <2> QED BY <2>4 DEF q, x
<1>6. ASSUME NEW a \in Assets, NEW y \in Nat, new[<<y, a>>] > 0 PROVE Marker(t, y) \/ y + 1 \in DOMAIN t.outputs
  <2>1. CASE y = x
    BY <1>3, <2>1
  <2>2. CASE y # x
    <3>1. paid[<<y, a>>] > 0
      BY <1>2, <1>6, <2>2
    <3> QED BY <3>1 DEF Owes
  <2> QED BY <2>1, <2>2
<1>7. DOMAIN v.outputs = DOMAIN t.outputs
  BY <1>1
<1>8. Owes(t, v, new)
  BY <1>4, <1>5, <1>6, <1>7 DEF Owes
<1> QED BY <1>8 DEF new, x

\* The wallet's steps keep the history.
LEMMA RouteBuilds ==
    ASSUME Sendable, Shape, tx \in Orders, Building, RouteToOutput \/ RouteToBurn
    PROVE  Building'
<1> DEFINE C == Copied(tx)
<1>1. PICK h : /\ Follows(C, script, h) /\ CountedDown(C, Latest(h).pos, inputs) /\ Owes(tx, wanted, Latest(h).paid)
               /\ \A k \in DOMAIN h : Within(tx, h[k].paid)
  BY DEF Building
<1> DEFINE g == Latest(h)
           q == g.pos
<1>2. Solid(C) /\ Len(C) \in Nat
  BY SolidCopy
<1> HIDE DEF C
<1>3. /\ Routed # 0 /\ inputs \in Lists /\ script \in Seq(Instruction)
      /\ wanted \in [outputs : Lists, burns : Seq(Chunk)]
  BY DEF RouteToOutput, RouteToBurn, Shape, ScriptShape
<1>4. g \in Entry /\ InPlace(C, q)
  <2>1. h \in Seq(Entry) /\ Len(h) = Len(script) + 1 /\ Len(script) \in Nat
        /\ \A k \in DOMAIN h : InPlace(C, h[k].pos)
    BY <1>1, <1>3 DEF Follows
  <2>2. Len(h) \in DOMAIN h
    BY <2>1
  <2> QED BY <2>1, <2>2 DEF Latest
<1> HIDE DEF g
<1>5. q.r <= Len(C) /\ q.r \in Nat /\ q.c \in Nat /\ q.p \in DOMAIN C[q.r] /\ q.r \in DOMAIN C /\ q.c >= 1
  <2>1. q \in Position /\ q.r \in 1 .. Len(C) + 1
    BY <1>4 DEF InPlace
  <2>2. q.r \in Nat /\ q.c \in Nat
    BY <2>1 DEF Position
  <2>3. q.r <= Len(C)
    <3>1. ~(q.r > Len(C))
      BY <1>1, <1>2, <1>3, <1>4, RoutedAtPosition DEF g
    <3> QED BY <1>2, <2>2, <3>1
  <2>4. q.p \in DOMAIN C[q.r] /\ q.c \in 1 .. C[q.r][q.p].count
    BY <1>4, <2>3 DEF InPlace
  <2>5. q.r \in DOMAIN C
    BY <1>2, <2>1, <2>2, <2>3 DEF Solid, Lists
  <2>6. q.c >= 1
    BY <2>2, <2>4
  <2> QED BY <2>2, <2>3, <2>4, <2>5, <2>6
<1>6. RoutedChunk.count = q.c /\ RoutedChunk.asset = AssetAt(C, q)
  BY <1>1, <1>2, <1>3, <1>4, <1>5, RoutedAtPosition DEF g, AssetAt
<1>7. RoutedChunk.count \in Nat \ {0}
  BY <1>5, <1>6
<1>8. AssetAt(C, q) \in Assets /\ g.paid \in Books
  BY <1>2, <1>4, <1>5, SolidChunk DEF AssetAt, Entry
<1>9. tx' = tx /\ outputs' = outputs /\ burned' = burned /\ index' = index /\ Shape'
  BY RouteShape DEF RouteToOutput, RouteToBurn
<1>10. wanted' \in [outputs : Lists, burns : Seq(Chunk)]
  BY <1>9 DEF Shape
<1>11. SUFFICES ASSUME NEW x \in 0 .. BurnOutput, NEW n \in 1 .. q.c,
                       script' = Append(script, Plain(x, n)), inputs' = Less(n),
                       Owes(tx, wanted', Book(g.paid, x, AssetAt(C, q), n))
                PROVE  Building'
  <2>1. CASE RouteToOutput
    <3>1. PICK o \in DOMAIN wanted.outputs, n \in 1 .. RoutedChunk.count :
             /\ o - 1 \in 0 .. BurnOutput /\ ~Marker(tx, o - 1)
             /\ script' = Append(script, Plain(o - 1, n)) /\ inputs' = Less(n)
             /\ DOMAIN wanted'.outputs = DOMAIN wanted.outputs /\ wanted'.burns = wanted.burns
             /\ \A a : Count(wanted'.outputs[o], a) + (IF a = RoutedChunk.asset THEN n ELSE 0)
                         = Count(wanted.outputs[o], a)
             /\ \A i \in DOMAIN wanted.outputs \ {o} : wanted'.outputs[i] = wanted.outputs[i]
      BY <1>7, <2>1, OutputRouted
    <3>2. n \in Nat /\ n \in 1 .. q.c /\ o - 1 \in 0 .. BurnOutput
      BY <1>5, <1>6, <3>1
    <3>3. \A a : Count(wanted'.outputs[o], a) + (IF a = AssetAt(C, q) THEN n ELSE 0) = Count(wanted.outputs[o], a)
      BY <1>6, <3>1
    <3> DEFINE v == wanted'
    <3>4. /\ v \in [outputs : Lists, burns : Seq(Chunk)] /\ DOMAIN v.outputs = DOMAIN wanted.outputs
          /\ v.burns = wanted.burns /\ \A i \in DOMAIN wanted.outputs \ {o} : v.outputs[i] = wanted.outputs[i]
          /\ \A a : Count(v.outputs[o], a) + (IF a = AssetAt(C, q) THEN n ELSE 0) = Count(wanted.outputs[o], a)
      BY <1>10, <3>1, <3>3
    <3> HIDE DEF v
    <3>5. Owes(tx, wanted, g.paid) /\ ~Marker(tx, o - 1)
      BY <1>1, <3>1 DEF g
    <3>6. Owes(tx, v, Book(g.paid, o - 1, AssetAt(C, q), n))
      BY <1>3, <1>8, <3>2, <3>4, <3>5, OutputBooked
    <3> QED BY <1>11, <3>1, <3>2, <3>6 DEF v
  <2>2. CASE RouteToBurn
    <3>1. PICK n \in 1 .. RoutedChunk.count :
             /\ script' = Append(script, Plain(BurnOutput, n)) /\ inputs' = Less(n)
             /\ wanted.burns # <<>> /\ wanted'.outputs = wanted.outputs
             /\ \A a : Count(wanted'.burns, a) + (IF a = RoutedChunk.asset THEN n ELSE 0) = Count(wanted.burns, a)
      BY <1>7, <2>2, BurnRouted
    <3>2. n \in Nat /\ n >= 1 /\ n \in 1 .. q.c /\ BurnOutput \in 0 .. BurnOutput
      BY <1>5, <1>6, <3>1 DEF BurnOutput
    <3> DEFINE v == wanted'
               d == AssetAt(C, q)
    <3>3. /\ v \in [outputs : Lists, burns : Seq(Chunk)] /\ v.outputs = wanted.outputs
          /\ \A a : Count(v.burns, a) + (IF a = d THEN n ELSE 0) = Count(wanted.burns, a)
      BY <1>6, <1>10, <3>1
    <3> HIDE DEF v, d
    <3>4. Owes(tx, wanted, g.paid) /\ d \in Assets
      BY <1>1, <1>8 DEF g, d
    <3>5. tx.type = "burn"
      <4>1. SUFFICES ASSUME tx.type # "burn" PROVE FALSE
        OBVIOUS
      <4>2. tx.burns = <<>>
        BY <4>1 DEF Sendable
      <4>3. Count(tx.burns, d) = 0
        BY <4>2, CountEmpty
      <4>4. Count(wanted.burns, d) + 0 = 0
        BY <3>4, <4>1, <4>3 DEF Owes
      <4>5. Count(wanted.burns, d) \in Nat /\ Count(v.burns, d) \in Nat
        BY <1>3, <3>3, CountType
      <4>6. Count(v.burns, d) + n = Count(wanted.burns, d)
        BY <3>3
      <4> QED BY <3>2, <4>4, <4>5, <4>6
    <3>6. Owes(tx, v, Book(g.paid, BurnOutput, d, n))
      BY <1>3, <1>8, <3>2, <3>3, <3>4, <3>5, BurnBooked
    <3> QED BY <1>11, <3>1, <3>2, <3>6 DEF v, d
  <2> QED BY <2>1, <2>2
<1>12. PICK z \in Entry :
             /\ Follows(C, Append(script, Plain(x, n)), Append(h, z)) /\ Latest(Append(h, z)) = z
             /\ z.pos = After(C, q, n) /\ z.paid = Book(g.paid, x, AssetAt(C, q), n)
  <2>1. Solid(C) /\ script \in Seq(Instruction) /\ Follows(C, script, h)
        /\ Latest(h).pos.r <= Len(C) /\ x \in 0 .. BurnOutput /\ n \in 1 .. Latest(h).pos.c
    BY <1>1, <1>2, <1>3, <1>5, <1>11 DEF g
  <2>2. \E z \in Entry :
             /\ Follows(C, Append(script, Plain(x, n)), Append(h, z)) /\ Latest(Append(h, z)) = z
             /\ z.pos = After(C, Latest(h).pos, n)
             /\ z.paid = Book(Latest(h).paid, x, AssetAt(C, Latest(h).pos), n)
    BY ONLY <2>1, HistoryGrows
  <2> QED BY <2>2 DEF g
<1>13. CountedDown(C, z.pos, inputs')
  <2>1. CountedDown(C, After(C, q, n), Less(n))
    BY <1>1, <1>2, <1>3, <1>4, <1>5, <1>11, WalletMoves DEF g
  <2> QED BY <1>11, <1>12, <2>1
<1>14. /\ Follows(C, script', Append(h, z)) /\ CountedDown(C, Latest(Append(h, z)).pos, inputs')
       /\ Owes(tx, wanted', Latest(Append(h, z)).paid)
  BY <1>11, <1>12, <1>13
<1>15. \A k \in DOMAIN Append(h, z) : Within(tx, Append(h, z)[k].paid)
  <2>1. h \in Seq(Entry)
    BY <1>1 DEF Follows
  <2>2. Within(tx, z.paid)
    BY <1>11, <1>12 DEF Owes, Within
  <2>3. ASSUME NEW k \in DOMAIN Append(h, z) PROVE Append(h, z)[k] = z \/ (k \in DOMAIN h /\ Append(h, z)[k] = h[k])
    BY <2>1
  <2> QED BY <1>1, <2>2, <2>3
<1>16. outputs' = Empty(tx') /\ burned' = Nothing /\ index' = 1
  BY <1>9 DEF Building
<1>17. Copied(tx') = C
  BY <1>9 DEF C
<1>18. \E f : /\ Follows(Copied(tx'), script', f) /\ CountedDown(Copied(tx'), Latest(f).pos, inputs')
              /\ Owes(tx', wanted', Latest(f).paid) /\ \A k \in DOMAIN f : Within(tx', f[k].paid)
  BY <1>9, <1>14, <1>15, <1>17
<1> QED BY <1>16, <1>18 DEF Building

\* What the outputs hold and what is burnt is what is paid.
Holds(paid) ==
    \A a \in Assets :
      /\ burned[a] = IF tx.type = "burn" THEN paid[<<BurnOutput, a>>] ELSE 0
      /\ \A o \in DOMAIN outputs : Count(outputs[o], a) = IF Marker(tx, o - 1) THEN 0 ELSE paid[<<o - 1, a>>]

\* j instructions of b are read.
Ahead(b, j) == Len(script) = Len(b) - j /\ \A k \in DOMAIN script : script[k] = b[j + k]

\* A whole script and its history.
InTune(b, h) ==
    /\ b \in Seq(Instruction) /\ Follows(Copied(tx), b, h) /\ Latest(h).pos.r > Len(Copied(tx))
    /\ Settled(tx, Latest(h).paid) /\ \A k \in DOMAIN h : Within(tx, h[k].paid)

Reading ==
    \E b, h : InTune(b, h) /\ \E j \in 0 .. Len(b) :
        Ahead(b, j) /\ TakenOff(Copied(tx), h[j + 1].pos, inputs, index) /\ Holds(h[j + 1].paid)

AtWork(i, asset) == /\ ~now.skip /\ ~now.range /\ now.output = i.output /\ now.amount = i.amount
                    /\ now.total = i.amount /\ now.asset = asset

Removing ==
    \E b, h : InTune(b, h) /\ \E j \in 1 .. Len(b) :
        /\ Ahead(b, j) /\ Holds(h[j].paid) /\ AtWork(b[j], AssetAt(Copied(tx), h[j].pos))
        /\ \/ now.left = now.total /\ TakenOff(Copied(tx), h[j].pos, inputs, index)
           \/ now.left = 0 /\ TakenOff(Copied(tx), h[j + 1].pos, inputs, index)

\* The entries of a history.
LEMMA EntryAt ==
    ASSUME NEW C, NEW b \in Seq(Instruction), NEW h, Follows(C, b, h), NEW k \in 1 .. Len(b) + 1
    PROVE  h[k] \in Entry /\ InPlace(C, h[k].pos) /\ h[k].paid \in Books /\ k \in DOMAIN h
<1>1. h \in Seq(Entry) /\ Len(h) = Len(b) + 1 /\ Len(b) \in Nat /\ \A i \in DOMAIN h : InPlace(C, h[i].pos)
  BY DEF Follows
<1>2. k \in DOMAIN h
  BY <1>1
<1>3. h[k] \in Entry
  BY <1>1, <1>2
<1> QED BY <1>1, <1>2, <1>3 DEF Entry

NoneYet == [x \in Nat \X Assets |-> 0]

\* The wallet starts with everything wanted and nothing paid.
LEMMA BuildInit ==
    ASSUME Sendable, Init, tx \in Orders
    PROVE  phase = "build" /\ Building
<1> DEFINE C == Copied(tx)
           z == [pos |-> StartOf(C, 1), paid |-> NoneYet]
           h == <<z>>
           b == <<>>
<1>1. /\ phase = "build" /\ script = <<>> /\ inputs = C /\ index = 1 /\ outputs = Empty(tx) /\ burned = Nothing
      /\ wanted = [outputs |-> tx.outputs, burns |-> tx.burns]
  BY DEF Init, Sendable
<1>2. Solid(C) /\ Len(C) \in Nat
  BY SolidCopy
<1> HIDE DEF C
<1>3. InPlace(C, StartOf(C, 1))
  BY <1>2, StartInPlace
<1>4. NoneYet \in Books /\ \A x \in Nat, a \in Assets : NoneYet[<<x, a>>] = 0
  BY DEF NoneYet, Books
<1>5. z \in Entry /\ z.pos = StartOf(C, 1) /\ z.paid = NoneYet
  BY <1>3, <1>4 DEF Entry, InPlace
<1>6. z = [pos |-> StartOf(C, 1), paid |-> [x \in Nat \X Assets |-> 0]]
  BY DEF NoneYet
<1> HIDE DEF z
<1>7. h \in Seq(Entry) /\ Len(h) = 1 /\ DOMAIN h = {1} /\ h[1] = z
  BY <1>5
<1>8. Latest(h) = z
  BY <1>7 DEF Latest
<1>9. Len(b) = 0 /\ DOMAIN b = {}
  OBVIOUS
<1> HIDE DEF h, b
<1>10. Follows(C, b, h)
  <2>1. Len(h) = Len(b) + 1
    BY <1>7, <1>9
  <2>2. \A k \in DOMAIN h : InPlace(C, h[k].pos)
    BY <1>3, <1>5, <1>7
  <2>3. h[1] = [pos |-> StartOf(C, 1), paid |-> [x \in Nat \X Assets |-> 0]]
    BY <1>6, <1>7
  <2> QED BY <1>7, <1>9, <2>1, <2>2, <2>3 DEF Follows
<1>11. CountedDown(C, z.pos, inputs)
  <2>1. ASSUME NEW i \in DOMAIN C, NEW k \in DOMAIN C[i] PROVE Rest(C, StartOf(C, 1), i, k) = C[i][k].count
    <3>1. i \in Nat \ {0} /\ k \in Nat \ {0} /\ i <= Len(C)
      BY <1>2, SolidChunk
    <3>2. StartOf(C, 1).r = 1 /\ StartOf(C, 1).p = 1 /\ (1 <= Len(C) => StartOf(C, 1).c = C[1][1].count)
      BY DEF StartOf
    <3> QED BY <1>2, <3>1, <3>2 DEF Rest
  <2> QED BY <1>1, <1>5, <2>1 DEF CountedDown
<1>12. Within(tx, z.paid)
  BY <1>4, <1>5 DEF Within
<1>13. Owes(tx, wanted, z.paid)
  <2>1. wanted.outputs = tx.outputs /\ wanted.burns = tx.burns /\ tx.outputs \in Seq(Seq(Chunk)) /\ tx.burns \in Seq(Chunk)
    BY <1>1, TransferConstants DEF IsTransaction
  <2>2. ASSUME NEW a \in Assets, NEW o \in DOMAIN tx.outputs
        PROVE  Count(wanted.outputs[o], a) + (IF Marker(tx, o - 1) THEN 0 ELSE z.paid[<<o - 1, a>>]) = Count(tx.outputs[o], a)
    <3>1. o \in Nat \ {0} /\ tx.outputs[o] \in Seq(Chunk)
      BY <2>1
    <3>2. o - 1 \in Nat
      BY <3>1
    <3>3. z.paid[<<o - 1, a>>] = 0
      BY <1>4, <1>5, <3>2
    <3>4. Count(tx.outputs[o], a) \in Nat
      BY <3>1, CountType
    <3> QED BY <2>1, <3>3, <3>4
  <2>3. ASSUME NEW a \in Assets
        PROVE  Count(wanted.burns, a) + (IF tx.type = "burn" THEN z.paid[<<BurnOutput, a>>] ELSE 0) = Count(tx.burns, a)
    <3>1. z.paid[<<BurnOutput, a>>] = 0
      BY <1>4, <1>5 DEF BurnOutput
    <3>2. Count(tx.burns, a) \in Nat
      BY <2>1, CountType
    <3> QED BY <2>1, <3>1, <3>2
  <2>4. \A a \in Assets : \A x \in Nat : z.paid[<<x, a>>] > 0 => Marker(tx, x) \/ x + 1 \in DOMAIN tx.outputs
    BY <1>12 DEF Within
  <2> QED BY <2>1, <2>2, <2>3, <2>4 DEF Owes
<1>14. \E f : /\ Follows(C, script, f) /\ CountedDown(C, Latest(f).pos, inputs)
              /\ Owes(tx, wanted, Latest(f).paid) /\ \A k \in DOMAIN f : Within(tx, f[k].paid)
  <2>1. script = b
    BY <1>1 DEF b
  <2>2. \A k \in DOMAIN h : Within(tx, h[k].paid)
    BY <1>7, <1>12
  <2> QED BY <1>8, <1>10, <1>11, <1>13, <2>1, <2>2
<1> QED BY <1>1, <1>14 DEF Building, C

\* A built transaction is read from the start.
LEMMA SentReads ==
    ASSUME Sendable, Shape, tx \in Orders, Building, Sent
    PROVE  Reading'
<1> DEFINE C == Copied(tx)
<1>1. PICK h : /\ Follows(C, script, h) /\ CountedDown(C, Latest(h).pos, inputs) /\ Owes(tx, wanted, Latest(h).paid)
               /\ \A k \in DOMAIN h : Within(tx, h[k].paid)
  BY DEF Building
<1>2. /\ Routed = 0 /\ ~Unmet /\ inputs' = C /\ tx' = tx /\ script' = script /\ index' = index
      /\ outputs' = outputs /\ burned' = burned
  BY DEF Sent
<1>3. Solid(C) /\ Len(C) \in Nat
  BY SolidCopy
<1> HIDE DEF C
<1>4. inputs \in Lists /\ script \in Seq(Instruction) /\ Len(script) \in Nat
  BY DEF Shape, ScriptShape
<1>5. /\ Len(h) = Len(script) + 1 /\ h[1] = [pos |-> StartOf(C, 1), paid |-> NoneYet]
  BY <1>1 DEF Follows, NoneYet
<1>6. InPlace(C, Latest(h).pos) /\ Latest(h).paid \in Books
  <2>1. Len(h) \in 1 .. Len(script) + 1
    BY <1>4, <1>5
  <2> QED BY <1>1, <1>4, <2>1, EntryAt DEF Latest
<1>7. Latest(h).pos.r > Len(C)
  <2>1. Latest(h).pos.r \in Nat \ {0}
    BY <1>6 DEF InPlace, Position
  <2>2. ~(Latest(h).pos.r <= Len(C))
    BY <1>1, <1>2, <1>3, <1>4, <1>6, <2>1, RoutedAtPosition
  <2> QED BY <1>3, <2>1, <2>2
<1>8. Settled(tx, Latest(h).paid)
  <2> DEFINE paid == Latest(h).paid
  <2>1. ASSUME NEW a \in Assets, NEW o \in DOMAIN tx.outputs
        PROVE  (IF Marker(tx, o - 1) THEN 0 ELSE paid[<<o - 1, a>>]) = Count(tx.outputs[o], a)
    <3>1. o \in DOMAIN wanted.outputs
          /\ Count(wanted.outputs[o], a) + (IF Marker(tx, o - 1) THEN 0 ELSE paid[<<o - 1, a>>]) = Count(tx.outputs[o], a)
      BY <1>1 DEF Owes
    <3>2. Count(wanted.outputs[o], a) = 0
      BY <1>2, <3>1, NothingWanted
    <3>3. tx.outputs \in Seq(Seq(Chunk))
      BY TransferConstants DEF IsTransaction
    <3>4. o \in Nat \ {0}
      BY <3>3
    <3>5. o - 1 \in Nat
      BY <3>4
    <3>6. paid[<<o - 1, a>>] \in Nat
      BY <1>6, <3>5, PaidType
    <3> QED BY <3>1, <3>2, <3>6
  <2>2. ASSUME NEW a \in Assets
        PROVE  (IF tx.type = "burn" THEN paid[<<BurnOutput, a>>] ELSE 0) = Count(tx.burns, a)
    <3>1. Count(wanted.burns, a) + (IF tx.type = "burn" THEN paid[<<BurnOutput, a>>] ELSE 0) = Count(tx.burns, a)
      BY <1>1 DEF Owes
    <3>2. Count(wanted.burns, a) = 0
      BY <1>2, NothingWanted
    <3>3. BurnOutput \in Nat
      BY DEF BurnOutput
    <3>4. paid[<<BurnOutput, a>>] \in Nat
      BY <1>6, <3>3, PaidType
    <3> QED BY <3>1, <3>2, <3>4
  <2> QED BY <2>1, <2>2 DEF Settled
<1>9. InTune(script, h)
  BY <1>1, <1>4, <1>7, <1>8 DEF InTune, C
<1>10. TakenOff(C, h[1].pos, C, 1)
  <2>1. h[1].pos = StartOf(C, 1)
    BY <1>5
  <2>2. StartOf(C, 1).r = 1 /\ StartOf(C, 1).p = 1 /\ (1 <= Len(C) => StartOf(C, 1).c = C[1][1].count)
    BY DEF StartOf
  <2>3. ASSUME 1 <= Len(C) PROVE OnFront(C[1], C[1], 1, C[1][1].count)
    <3>1. 1 \in DOMAIN C
      BY <1>3, <2>3 DEF Solid, Lists
    <3>2. C[1] \in Seq(Chunk) /\ C[1] # <<>>
      BY <1>3, <3>1 DEF Solid, Lists
    <3> QED BY <3>2, FrontFresh
  <2>4. \A i \in DOMAIN C : i \in Nat \ {0}
    BY <1>3 DEF Solid, Lists
  <2>5. \A i \in DOMAIN C : ~(i < 1)
    BY <2>4
  <2> QED BY <2>1, <2>2, <2>3, <2>5 DEF TakenOff
<1>11. ASSUME NEW a \in Assets
       PROVE  /\ burned[a] = 0 /\ \A o \in DOMAIN outputs : Count(outputs[o], a) = 0 /\ o - 1 \in Nat
              /\ \A x \in Nat : h[1].paid[<<x, a>>] = 0
  <2>1. outputs = Empty(tx) /\ burned = Nothing /\ outputs \in Lists
    BY DEF Building, Shape
  <2>2. burned[a] = 0
    BY <2>1 DEF Nothing
  <2>3. ASSUME NEW o \in DOMAIN outputs PROVE Count(outputs[o], a) = 0 /\ o - 1 \in Nat
    <3>1. outputs[o] = <<>>
      BY <2>1 DEF Empty
    <3>2. o \in Nat \ {0}
      BY <2>1 DEF Lists
    <3> QED BY <3>1, <3>2, CountEmpty
  <2>4. \A x \in Nat : h[1].paid[<<x, a>>] = 0
    BY <1>5 DEF NoneYet
  <2> QED BY <2>2, <2>3, <2>4
<1>12. Holds(h[1].paid)
  BY <1>11 DEF Holds, BurnOutput
<1>13. Ahead(script, 0)
  BY <1>4 DEF Ahead
<1>14. /\ InTune(script, h)' /\ Ahead(script, 0)' /\ Holds(h[1].paid)'
       /\ TakenOff(Copied(tx'), h[1].pos, inputs', index')
  <2>1. index' = 1 /\ Copied(tx') = C
    BY <1>2 DEF Building, C
  <2>2. InTune(script, h)'
    BY <1>2, <1>9 DEF InTune
  <2>3. Ahead(script, 0)' /\ Holds(h[1].paid)'
    BY <1>2, <1>12, <1>13 DEF Ahead, Holds
  <2> QED BY <1>2, <1>10, <2>1, <2>2, <2>3
<1>15. 0 \in 0 .. Len(script') /\ 0 + 1 = 1
  BY <1>2, <1>4
<1> QED BY <1>14, <1>15 DEF Reading

\* The node reads the wallet's next instruction where the wallet wrote it.
LEMMA ReadTune ==
    ASSUME Sendable, Shape, tx \in Orders, Reading, ReadInstruction
    PROVE  Removing' /\ ~Exhausted(index)
<1> DEFINE C == Copied(tx)
<1>1. PICK b, h : InTune(b, h) /\ \E j \in 0 .. Len(b) :
        Ahead(b, j) /\ TakenOff(C, h[j + 1].pos, inputs, index) /\ Holds(h[j + 1].paid)
  BY DEF Reading
<1>2. PICK j \in 0 .. Len(b) : Ahead(b, j) /\ TakenOff(C, h[j + 1].pos, inputs, index) /\ Holds(h[j + 1].paid)
  BY <1>1
<1>3. b \in Seq(Instruction) /\ Follows(C, b, h) /\ Len(b) \in Nat /\ j \in Nat /\ DOMAIN b = 1 .. Len(b)
  BY <1>1, <1>2 DEF InTune
<1>4. Solid(C) /\ Len(C) \in Nat
  BY SolidCopy
<1>5. script # <<>> /\ script \in Seq(Instruction) /\ inputs \in Lists
  BY DEF ReadInstruction, Shape, ScriptShape
<1>6. Len(script) \in Nat /\ Len(script) >= 1 /\ DOMAIN script = 1 .. Len(script) /\ Head(script) = script[1]
  BY <1>5
<1>7. Len(script) = Len(b) - j /\ \A k \in DOMAIN script : script[k] = b[j + k]
  BY <1>2 DEF Ahead
<1> DEFINE m == j + 1
           i == b[m]
           q == h[m].pos
<1>8. m \in DOMAIN b /\ m \in 1 .. Len(b) + 1 /\ m \in 1 .. Len(b)
  BY <1>3, <1>6, <1>7
<1>9. Head(script) = i
  BY <1>6, <1>7
<1>10. InPlace(C, q)
  BY <1>3, <1>8, EntryAt
<1>11. Pays(C, h[m], b[m], h[m + 1])
  BY <1>3, <1>8 DEF Follows
<1>12. q.r <= Len(C) /\ i = Plain(i.output, i.amount)
  BY <1>11 DEF Pays
<1> HIDE DEF C
<1>13. ~Exhausted(index) /\ inputs[index][1].asset = AssetAt(C, q)
  BY <1>2, <1>4, <1>5, <1>10, <1>12, FrontAtPosition DEF AssetAt
<1>14. i.skip = FALSE /\ i.range = FALSE /\ i.percent = 0
  BY <1>12 DEF Plain
<1>15. Amount(i) = i.amount /\ Total(i) = i.amount
  BY <1>14 DEF Amount, Total
<1>16. /\ now' = [skip |-> FALSE, range |-> FALSE, output |-> i.output, amount |-> i.amount, total |-> i.amount,
                  asset |-> AssetAt(C, q), left |-> i.amount]
       /\ script' = Tail(script) /\ UNCHANGED <<tx, inputs, index, outputs, burned>>
  BY <1>9, <1>13, <1>14, <1>15 DEF ReadInstruction
<1>17. InTune(b, h)' /\ Holds(h[m].paid)' /\ Copied(tx') = C /\ TakenOff(C, q, inputs', index')
  <2>1. InTune(b, h)' /\ Copied(tx') = C
    BY <1>1, <1>16 DEF InTune, C
  <2>2. Holds(h[m].paid)'
    BY <1>2, <1>16 DEF Holds
  <2> QED BY <1>2, <1>16, <2>1, <2>2
<1>18. Ahead(b, m)'
  <2> DEFINE s == script'
  <2>1. /\ Len(Tail(script)) = Len(script) - 1 /\ DOMAIN Tail(script) = 1 .. Len(script) - 1
        /\ \A k \in 1 .. Len(script) - 1 : Tail(script)[k] = script[k + 1]
    BY <1>5, <1>6
  <2>2. Len(s) = Len(script) - 1 /\ DOMAIN s = 1 .. Len(script) - 1 /\ \A k \in 1 .. Len(script) - 1 : s[k] = script[k + 1]
    BY <1>16, <2>1
  <2> HIDE DEF s
  <2>3. Len(s) = Len(b) - m
    BY <1>3, <1>6, <1>7, <2>2
  <2>4. ASSUME NEW k \in DOMAIN s PROVE s[k] = b[m + k]
    <3>1. k + 1 \in DOMAIN script /\ k \in 1 .. Len(script) - 1 /\ j + (k + 1) = m + k
      BY <1>3, <1>6, <2>2
    <3> QED BY <1>7, <2>2, <3>1
  <2> QED BY <2>3, <2>4 DEF Ahead, s
<1>19. AtWork(b[m], AssetAt(C, q))' /\ now'.left = now'.total
  <2>1. /\ now'.skip = FALSE /\ now'.range = FALSE /\ now'.output = i.output /\ now'.amount = i.amount
        /\ now'.total = i.amount /\ now'.asset = AssetAt(C, q) /\ now'.left = i.amount
    BY <1>16
  <2>2. C' = C
    BY <1>16 DEF C
  <2> QED BY <2>1, <2>2 DEF AtWork
<1>20. InTune(b, h)' /\ m \in 1 .. Len(b) /\ Ahead(b, m)' /\ Holds(h[m].paid)'
       /\ AtWork(b[m], AssetAt(Copied(tx), h[m].pos))' /\ now'.left = now'.total
       /\ TakenOff(Copied(tx'), h[m].pos, inputs', index')
  BY <1>8, <1>17, <1>18, <1>19 DEF C
<1> HIDE DEF m
<1>21. Removing'
  BY <1>20 DEF Removing
<1> QED BY <1>13, <1>21

\* It takes off the inputs what the wallet counted down.
LEMMA RemoveTune ==
    ASSUME Sendable, Shape, tx \in Orders, Removing, RemoveChunk
    PROVE  Removing' /\ phase' = "remove"
<1> DEFINE C == Copied(tx)
<1>1. PICK b, h : InTune(b, h) /\ \E j \in 1 .. Len(b) :
        /\ Ahead(b, j) /\ Holds(h[j].paid) /\ AtWork(b[j], AssetAt(C, h[j].pos))
        /\ \/ now.left = now.total /\ TakenOff(C, h[j].pos, inputs, index)
           \/ now.left = 0 /\ TakenOff(C, h[j + 1].pos, inputs, index)
  BY DEF Removing
<1>2. PICK j \in 1 .. Len(b) :
        /\ Ahead(b, j) /\ Holds(h[j].paid) /\ AtWork(b[j], AssetAt(C, h[j].pos))
        /\ \/ now.left = now.total /\ TakenOff(C, h[j].pos, inputs, index)
           \/ now.left = 0 /\ TakenOff(C, h[j + 1].pos, inputs, index)
  BY <1>1
<1>3. b \in Seq(Instruction) /\ Follows(C, b, h) /\ Len(b) \in Nat /\ j \in DOMAIN b
      /\ j \in 1 .. Len(b) + 1
  BY <1>1, <1>2 DEF InTune
<1>4. Solid(C) /\ Len(C) \in Nat
  BY SolidCopy
<1> DEFINE q == h[j].pos
<1>5. InPlace(C, q) /\ Pays(C, h[j], b[j], h[j + 1])
  BY <1>3, EntryAt DEF Follows
<1>6. now.left > 0 /\ phase = "remove"
  BY DEF RemoveChunk
<1>7. now.left = now.total /\ TakenOff(C, q, inputs, index)
  BY <1>2, <1>6
<1>8. now.left = b[j].amount /\ now.asset = C[q.r][q.p].asset
  BY <1>2, <1>7 DEF AtWork, AssetAt
<1>9. q.r <= Len(C) /\ now.left \in 1 .. q.c /\ h[j + 1].pos = After(C, q, now.left)
  BY <1>5, <1>8 DEF Pays
<1> HIDE DEF C
<1>10. /\ now' = [now EXCEPT !.left = 0] /\ TakenOff(C, After(C, q, now.left), inputs', index')
       /\ UNCHANGED <<tx, phase, script, wanted, outputs, burned, unintentional, txType, malformed, stored>>
  BY <1>4, <1>5, <1>7, <1>8, <1>9, InterpreterMoves
<1>11. /\ InTune(b, h)' /\ Ahead(b, j)' /\ Holds(h[j].paid)' /\ Copied(tx') = C
  BY <1>1, <1>2, <1>10 DEF InTune, Ahead, Holds, C
<1>12. now'.left = 0 /\ AtWork(b[j], AssetAt(Copied(tx), h[j].pos))'
  <2>1. now \in Work
    BY DEF Shape
  <2>2. /\ now'.skip = now.skip /\ now'.range = now.range /\ now'.output = now.output /\ now'.amount = now.amount
        /\ now'.total = now.total /\ now'.asset = now.asset /\ now'.left = 0
    BY <1>10, <2>1 DEF Work
  <2>3. AtWork(b[j], AssetAt(C, h[j].pos)) /\ Copied(tx)' = C
    BY <1>2, <1>11
  <2> QED BY <2>2, <2>3 DEF AtWork
<1>13. TakenOff(Copied(tx'), h[j + 1].pos, inputs', index')
  BY <1>9, <1>10, <1>11
<1>14. Removing'
  BY <1>1, <1>2, <1>11, <1>12, <1>13 DEF Removing
<1> QED BY <1>6, <1>10, <1>14

\* It pays what the wallet booked, to an output that is there.
LEMMA ApplyTune ==
    ASSUME Sendable, Shape, tx \in Orders, Removing, Apply
    PROVE  Reading' /\ phase' = "read"
<1> DEFINE C == Copied(tx)
<1>1. PICK b, h : InTune(b, h) /\ \E j \in 1 .. Len(b) :
        /\ Ahead(b, j) /\ Holds(h[j].paid) /\ AtWork(b[j], AssetAt(C, h[j].pos))
        /\ \/ now.left = now.total /\ TakenOff(C, h[j].pos, inputs, index)
           \/ now.left = 0 /\ TakenOff(C, h[j + 1].pos, inputs, index)
  BY DEF Removing
<1>2. PICK j \in 1 .. Len(b) :
        /\ Ahead(b, j) /\ Holds(h[j].paid) /\ AtWork(b[j], AssetAt(C, h[j].pos))
        /\ \/ now.left = now.total /\ TakenOff(C, h[j].pos, inputs, index)
           \/ now.left = 0 /\ TakenOff(C, h[j + 1].pos, inputs, index)
  BY <1>1
<1>3. b \in Seq(Instruction) /\ Follows(C, b, h) /\ Len(b) \in Nat /\ j \in DOMAIN b /\ j \in Nat
      /\ j \in 1 .. Len(b) + 1 /\ j + 1 \in 1 .. Len(b) + 1
  BY <1>1, <1>2 DEF InTune
<1>4. Solid(C) /\ Len(C) \in Nat
  BY SolidCopy
<1> DEFINE g == h[j]
           z == h[j + 1]
           x == now.output
           n == now.amount
           d == now.asset
<1>5. /\ g.pos \in Position /\ g.paid \in Books /\ z.paid \in Books /\ Pays(C, g, b[j], z)
      /\ Within(tx, z.paid)
  <2>1. g \in Entry /\ g.paid \in Books /\ z.paid \in Books /\ Pays(C, g, b[j], z) /\ j + 1 \in DOMAIN h
    BY <1>3, EntryAt DEF Follows
  <2> QED BY <1>1, <2>1 DEF Entry, InTune
<1>6. /\ ~now.skip /\ ~now.range /\ x = b[j].output /\ n = b[j].amount /\ now.total = n
      /\ d = AssetAt(C, g.pos) /\ Holds(g.paid)
  BY <1>2 DEF AtWork
<1>7. x \in 0 .. BurnOutput /\ x \in Nat /\ n \in Nat /\ n >= 1 /\ z.paid = Book(g.paid, x, d, n)
  <2>1. n \in 1 .. g.pos.c /\ x \in 0 .. BurnOutput /\ z.paid = Book(g.paid, x, d, n)
    BY <1>5, <1>6 DEF Pays
  <2>2. g.pos.c \in Nat
    BY <1>5 DEF Position
  <2> HIDE DEF x, n, d, g, z
  <2>3. x \in Nat
    BY <2>1 DEF BurnOutput
  <2>4. n \in Nat /\ n >= 1
    BY <2>1, <2>2
  <2> QED BY <2>1, <2>3, <2>4
<1>8. d \in Assets /\ now \in Work /\ outputs \in Lists /\ burned \in [Assets -> Nat] /\ Len(outputs) = Len(tx.addresses)
  BY DEF Shape, Work
<1>9. now.left = 0 /\ phase = "remove"
  BY DEF Apply
<1>10. TakenOff(C, z.pos, inputs, index)
  <2>1. now.left # now.total
    BY <1>6, <1>7, <1>9
  <2> QED BY <1>2, <2>1
<1> HIDE DEF C, g, z
<1>11. ASSUME NEW y \in Nat, NEW a \in Assets
       PROVE  /\ g.paid[<<y, a>>] \in Nat
              /\ y = x /\ a = d => z.paid[<<y, a>>] = g.paid[<<y, a>>] + n
              /\ y # x \/ a # d => z.paid[<<y, a>>] = g.paid[<<y, a>>]
  <2> HIDE DEF x, n, d
  <2>1. g.paid[<<y, a>>] \in Nat
    BY <1>5, PaidType
  <2> DEFINE p == g.paid
             new == Book(p, x, d, n)
  <2>2. p \in Books /\ x \in Nat /\ n \in Nat /\ d \in Assets /\ z.paid = new
    BY <1>5, <1>7, <1>8
  <2> HIDE DEF p
  <2>3. ASSUME y = x, a = d PROVE new[<<y, a>>] = p[<<y, a>>] + n
    BY <2>2, <2>3, BookedHere
  <2>4. ASSUME y # x PROVE new[<<y, a>>] = p[<<y, a>>]
    BY <2>2, <2>4, BookedElsewhere
  <2>5. ASSUME a # d PROVE new[<<y, a>>] = p[<<y, a>>]
    BY <2>2, <2>5, BookedElsewhere
  <2> HIDE DEF new
  <2> QED BY <2>1, <2>2, <2>3, <2>4, <2>5 DEF p
<1>12. IsBurn <=> Marker(tx, x)
  BY <1>6 DEF IsBurn, Marker
<1>13. ~IsBurn => x < Len(outputs)
  <2> SUFFICES ASSUME ~IsBurn PROVE x < Len(outputs)
    OBVIOUS
  <2> HIDE DEF x, n, d
  <2>1. g.paid[<<x, d>>] \in Nat /\ z.paid[<<x, d>>] = g.paid[<<x, d>>] + n
    BY <1>7, <1>8, <1>11
  <2>2. z.paid[<<x, d>>] > 0
    BY <1>7, <2>1
  <2>3. x + 1 \in DOMAIN tx.outputs
    BY <1>5, <1>7, <1>8, <1>12, <2>2 DEF Within
  <2>4. tx.outputs \in Seq(Seq(Chunk)) /\ Len(tx.outputs) <= Len(tx.addresses) /\ Len(tx.addresses) \in Nat
    BY TransferConstants DEF IsTransaction
  <2>5. x + 1 <= Len(tx.outputs) /\ Len(tx.outputs) \in Nat
    BY <2>3, <2>4
  <2> QED BY <1>7, <1>8, <2>4, <2>5
<1> DEFINE c == [asset |-> d, count |-> n]
           new == [o \in DOMAIN outputs |->
                    IF now.total > 0 /\ ~IsBurn /\ o - 1 \in Targets THEN addAssetToOutput(outputs[o], c) ELSE outputs[o]]
<1>14. ~(now.total > 0 /\ ~IsBurn /\ now.output >= Len(outputs))
  <2>1. Len(outputs) \in Nat
    BY <1>8 DEF Lists
  <2> QED BY <1>7, <1>13, <2>1
<1>15. /\ outputs' = new /\ burned' = [burned EXCEPT ![d] = burned[d] + IF IsBurn THEN n ELSE 0]
       /\ index' = Skipped /\ phase' = "read" /\ UNCHANGED <<tx, script, inputs>>
  BY <1>6, <1>14 DEF Apply
<1>16. index' = index
  BY <1>6, <1>15 DEF Skipped
<1>17. Targets = {x}
  <2>1. Targets = x .. x
    BY <1>6 DEF Targets
  <2> HIDE DEF x
  <2> QED BY <1>7, <2>1
<1>18. c \in Chunk /\ \A a : Units(c, a) = IF a = d THEN n ELSE 0
  BY <1>7, <1>8 DEF Chunk, Units
<1>19. now.total > 0
  BY <1>6, <1>7
<1>20. ASSUME NEW o \in DOMAIN outputs
       PROVE  /\ o - 1 \in Nat /\ outputs[o] \in Seq(Chunk)
              /\ outputs'[o] = IF ~IsBurn /\ o - 1 = x THEN addAssetToOutput(outputs[o], c) ELSE outputs[o]
  <2>1. o \in Nat \ {0} /\ outputs[o] \in Seq(Chunk)
    BY <1>8 DEF Lists
  <2>2. o - 1 \in Nat
    BY <2>1
  <2>3. o - 1 \in Targets <=> o - 1 = x
    BY <1>17
  <2>4. outputs'[o] = IF now.total > 0 /\ ~IsBurn /\ o - 1 \in Targets THEN addAssetToOutput(outputs[o], c) ELSE outputs[o]
    BY <1>15
  <2> HIDE DEF c, x
  <2> QED BY <1>19, <2>1, <2>2, <2>3, <2>4
<1>21. DOMAIN outputs' = DOMAIN outputs
  BY <1>15
<1> HIDE DEF c, new, x, n, d
<1>22. ASSUME NEW a \in Assets, NEW o \in DOMAIN outputs
       PROVE  Count(outputs'[o], a) = IF Marker(tx, o - 1) THEN 0 ELSE z.paid[<<o - 1, a>>]
  <2>1. Count(outputs[o], a) = IF Marker(tx, o - 1) THEN 0 ELSE g.paid[<<o - 1, a>>]
    BY <1>6 DEF Holds
  <2>2. CASE ~IsBurn /\ o - 1 = x
    <3>1. Count(outputs'[o], a) = Count(outputs[o], a) + Units(c, a)
      BY <1>18, <1>20, <2>2, AddedToOutput
    <3>2. ~Marker(tx, o - 1) /\ Count(outputs[o], a) = g.paid[<<o - 1, a>>]
      BY <1>12, <2>1, <2>2
    <3>3. CASE a = d
      <4>1. z.paid[<<o - 1, a>>] = g.paid[<<o - 1, a>>] + n /\ Units(c, a) = n
        BY <1>11, <1>18, <1>20, <2>2, <3>3
      <4> QED BY <3>1, <3>2, <4>1
    <3>4. CASE a # d
      <4>1. z.paid[<<o - 1, a>>] = g.paid[<<o - 1, a>>] /\ Units(c, a) = 0 /\ g.paid[<<o - 1, a>>] \in Nat
        BY <1>11, <1>18, <1>20, <3>4
      <4> QED BY <3>1, <3>2, <4>1
    <3> QED BY <3>3, <3>4
  <2>3. CASE ~(~IsBurn /\ o - 1 = x)
    <3>1. outputs'[o] = outputs[o]
      BY <1>20, <2>3
    <3>2. CASE Marker(tx, o - 1)
      BY <2>1, <3>1, <3>2
    <3>3. CASE ~Marker(tx, o - 1)
      <4>1. o - 1 # x
        BY <1>12, <2>3, <3>3
      <4>2. z.paid[<<o - 1, a>>] = g.paid[<<o - 1, a>>]
        BY <1>11, <1>20, <4>1
      <4> QED BY <2>1, <3>1, <3>3, <4>2
    <3> QED BY <3>2, <3>3
  <2> QED BY <2>2, <2>3
<1>23. ASSUME NEW a \in Assets
       PROVE  burned'[a] = IF tx.type = "burn" THEN z.paid[<<BurnOutput, a>>] ELSE 0
  <2>1. burned[a] = (IF tx.type = "burn" THEN g.paid[<<BurnOutput, a>>] ELSE 0) /\ burned[a] \in Nat
    BY <1>6, <1>8 DEF Holds
  <2>2. burned'[a] = IF a = d THEN burned[d] + (IF IsBurn THEN n ELSE 0) ELSE burned[a]
    BY <1>8, <1>15
  <2>3. BurnOutput \in Nat
    BY DEF BurnOutput
  <2>4. CASE tx.type = "burn"
    <3>1. IsBurn <=> x = BurnOutput
      BY <1>12, <2>4 DEF Marker
    <3>2. CASE IsBurn /\ a = d
      <4>1. z.paid[<<BurnOutput, a>>] = g.paid[<<BurnOutput, a>>] + n
        BY <1>11, <2>3, <3>1, <3>2
      <4> QED BY <2>1, <2>2, <2>4, <3>2, <4>1
    <3>3. CASE ~(IsBurn /\ a = d)
      <4>1. z.paid[<<BurnOutput, a>>] = g.paid[<<BurnOutput, a>>]
        BY <1>11, <2>3, <3>1, <3>3
      <4>2. burned'[a] = burned[a]
        BY <2>1, <2>2, <3>3
      <4> QED BY <2>1, <2>4, <4>1, <4>2
    <3> QED BY <3>2, <3>3
  <2>5. CASE tx.type # "burn"
    <3>1. ~IsBurn
      BY <2>5 DEF IsBurn
    <3> QED BY <2>1, <2>2, <2>5, <3>1
  <2> QED BY <2>4, <2>5
<1>24. Holds(z.paid)'
  <2>1. tx' = tx
    BY <1>15
  <2>2. \A a \in Assets :
          /\ burned'[a] = IF tx'.type = "burn" THEN z.paid[<<BurnOutput, a>>] ELSE 0
          /\ \A o \in DOMAIN outputs' : Count(outputs'[o], a) = IF Marker(tx', o - 1) THEN 0 ELSE z.paid[<<o - 1, a>>]
    BY <1>21, <1>22, <1>23, <2>1
  <2> QED BY <2>2 DEF Holds, z
<1>25. InTune(b, h)' /\ Ahead(b, j)' /\ TakenOff(Copied(tx'), h[j + 1].pos, inputs', index')
  BY <1>1, <1>2, <1>10, <1>15, <1>16 DEF InTune, Ahead, C, z
<1>26. j \in 0 .. Len(b)
  BY <1>3
<1>27. Reading'
  BY <1>24, <1>25, <1>26 DEF Reading, z
<1> QED BY <1>15, <1>27

\* At the end of the script nothing is left on the inputs, and all that was ordered is paid.
LEMMA ReadOut ==
    ASSUME Sendable, Shape, tx \in Orders, Reading, ReadAll
    PROVE  /\ Leftover = 0
           /\ \E paid \in Books : Settled(tx, paid) /\ Within(tx, paid) /\ Holds(paid)
<1> DEFINE C == Copied(tx)
<1>1. PICK b, h : InTune(b, h) /\ \E j \in 0 .. Len(b) :
        Ahead(b, j) /\ TakenOff(C, h[j + 1].pos, inputs, index) /\ Holds(h[j + 1].paid)
  BY DEF Reading
<1>2. PICK j \in 0 .. Len(b) : Ahead(b, j) /\ TakenOff(C, h[j + 1].pos, inputs, index) /\ Holds(h[j + 1].paid)
  BY <1>1
<1>3. b \in Seq(Instruction) /\ Follows(C, b, h) /\ Len(b) \in Nat /\ j \in Nat /\ Latest(h).pos.r > Len(C)
      /\ Settled(tx, Latest(h).paid) /\ \A k \in DOMAIN h : Within(tx, h[k].paid)
  BY <1>1, <1>2 DEF InTune
<1>4. Solid(C) /\ Len(C) \in Nat
  BY SolidCopy
<1>5. script = <<>>
  <2>1. tx.version = 3
    BY DEF Sendable
  <2>2. ~LegacyStop
    BY <2>1 DEF LegacyStop
  <2> QED BY <2>2 DEF ReadAll
<1>6. j = Len(b)
  <2>1. Len(script) = Len(b) - j /\ Len(script) = 0
    BY <1>2, <1>5 DEF Ahead
  <2> QED BY <1>3, <2>1
<1>7. Len(h) = j + 1
  BY <1>3, <1>6 DEF Follows
<1>8. h[j + 1] = Latest(h)
  BY <1>7 DEF Latest
<1>9. j + 1 \in 1 .. Len(b) + 1
  BY <1>3, <1>6
<1>10. InPlace(C, Latest(h).pos) /\ Latest(h).paid \in Books /\ Within(tx, Latest(h).paid)
  BY <1>3, <1>8, <1>9, EntryAt
<1>11. inputs \in Lists
  BY DEF Shape
<1> HIDE DEF C
<1>12. \A i \in DOMAIN inputs : inputs[i] = <<>>
  BY <1>2, <1>3, <1>4, <1>8, <1>10, <1>11, FrontAtPosition
<1>13. Leftover = 0
  BY <1>11, <1>12, LeftoverPlace
<1> QED BY <1>2, <1>3, <1>8, <1>10, <1>13

\* So the stored transaction is the order.
LEMMA FinishTrip ==
    ASSUME Sendable, Shape, tx \in Orders, Reading, Finish
    PROVE  RoundTrip'
<1>1. PICK paid \in Books : Settled(tx, paid) /\ Within(tx, paid) /\ Holds(paid)
  BY ReadOut DEF Finish
<1>2. outputs' = Sweep(outputs) /\ burned' = burned /\ tx' = tx
  BY DEF Finish
<1>3. tx.outputs \in Seq(Seq(Chunk)) /\ outputs \in Lists
  BY TransferConstants DEF IsTransaction, Shape
<1>4. ASSUME NEW a \in Assets PROVE burned'[a] = Count(tx.burns, a)
  BY <1>1, <1>2 DEF Holds, Settled
<1>5. DOMAIN outputs' = DOMAIN outputs
  BY <1>2 DEF Sweep
<1>6. ASSUME NEW a \in Assets, NEW o \in DOMAIN outputs
      PROVE  Count(outputs'[o], a) = IF o \in DOMAIN tx.outputs THEN Count(tx.outputs[o], a) ELSE 0
  <2>1. outputs'[o] = IF tx.addresses[o] = OpReturn THEN <<>> ELSE outputs[o]
    BY <1>2 DEF Sweep
  <2>2. CASE tx.addresses[o] = OpReturn
    <3>1. Count(outputs'[o], a) = 0
      BY <2>1, <2>2, CountEmpty
    <3>2. o \in DOMAIN tx.outputs => tx.outputs[o] = <<>>
      BY <2>2 DEF Sendable
    <3>3. o \in DOMAIN tx.outputs => Count(tx.outputs[o], a) = 0
      BY <3>2, CountEmpty
    <3> QED BY <3>1, <3>3
  <2>3. CASE tx.addresses[o] # OpReturn
    <3>1. Count(outputs'[o], a) = IF Marker(tx, o - 1) THEN 0 ELSE paid[<<o - 1, a>>]
      BY <1>1, <2>1, <2>3 DEF Holds
    <3>2. CASE o \in DOMAIN tx.outputs
      BY <1>1, <3>1, <3>2 DEF Settled
    <3>3. CASE o \notin DOMAIN tx.outputs
      <4>1. o \in Nat \ {0}
        BY <1>3 DEF Lists
      <4>2. o - 1 \in Nat /\ (o - 1) + 1 = o
        BY <4>1
      <4>3. ~Marker(tx, o - 1) => ~(paid[<<o - 1, a>>] > 0)
        BY <1>1, <3>3, <4>2 DEF Within
      <4>4. paid[<<o - 1, a>>] \in Nat
        BY <4>2, PaidType
      <4>5. ~Marker(tx, o - 1) => paid[<<o - 1, a>>] = 0
        BY <4>3, <4>4
      <4> QED BY <3>1, <3>3, <4>5
    <3> QED BY <3>2, <3>3
  <2> QED BY <2>2, <2>3
<1>7. \A a \in Assets :
        /\ burned'[a] = Count(tx'.burns, a)
        /\ \A o \in DOMAIN outputs' :
             Count(outputs'[o], a) = IF o \in DOMAIN tx'.outputs THEN Count(tx'.outputs[o], a) ELSE 0
  BY <1>2, <1>4, <1>5, <1>6
<1> QED BY <1>7 DEF RoundTrip

\* The wallet at the position its script has reached, then the node at the position of the
\* instructions it has read; a finished transaction is the order.
TripInv ==
    /\ Shape /\ RoundTrip
    /\ tx \in Orders => /\ phase = "build" => Building
                        /\ phase = "read" => Reading
                        /\ phase = "remove" => Removing

LEMMA TripStep ==
    ASSUME Sendable, TripInv, [Next]_vars
    PROVE  TripInv'
<1>1. Shape /\ Shape' /\ RoundTrip
  BY ShapeStep, ShapeStutter DEF TripInv
<1>2. tx' = tx
  BY DEF Next, RouteToOutput, RouteToBurn, Refuse, Sent, ReadInstruction, RemoveChunk, Apply, Catch,
         Truncated, NotAnAssetTransaction, AddChange, ChangeFails, Finish, RuleFailed, RateUnknown,
         GiveUp, vars
<1>3. CASE tx \notin Orders
  BY <1>1, <1>2, <1>3 DEF TripInv, RoundTrip
<1>4. CASE tx \in Orders /\ UNCHANGED vars
  <2>1. Building => Building'
    BY <1>4 DEF Building, vars
  <2>2. /\ tx' = tx /\ inputs' = inputs /\ index' = index /\ script' = script /\ now' = now
        /\ outputs' = outputs /\ burned' = burned
    BY <1>4 DEF vars
  <2>3. /\ \A b, h : InTune(b, h)' <=> InTune(b, h)
        /\ \A b, j : Ahead(b, j)' <=> Ahead(b, j)
        /\ \A paid : Holds(paid)' <=> Holds(paid)
        /\ \A i, a : AtWork(i, a)' <=> AtWork(i, a)
    <3>1. \A b, h : InTune(b, h)' <=> InTune(b, h)
      BY <2>2 DEF InTune
    <3>2. \A b, j : Ahead(b, j)' <=> Ahead(b, j)
      BY <2>2 DEF Ahead
    <3>3. \A paid : Holds(paid)' <=> Holds(paid)
      BY <2>2 DEF Holds
    <3>4. \A i, a : AtWork(i, a)' <=> AtWork(i, a)
      BY <2>2 DEF AtWork
    <3> QED BY <3>1, <3>2, <3>3, <3>4
  <2>4. Reading => Reading'
    BY <2>2, <2>3 DEF Reading
  <2>5. Removing => Removing'
    BY <2>2, <2>3 DEF Removing
  <2>6. RoundTrip' /\ phase' = phase
    BY <1>1, <1>4 DEF RoundTrip, vars
  <2> QED BY <1>1, <1>2, <1>4, <2>1, <2>4, <2>5, <2>6 DEF TripInv
<1>5. CASE tx \in Orders /\ Next
  <2>1. /\ phase = "build" => Building
        /\ phase = "read" => Reading
        /\ phase = "remove" => Removing
    BY <1>5 DEF TripInv
  <2>2. CASE RouteToOutput \/ RouteToBurn
    <3>1. phase = "build" /\ phase' = phase
      BY <2>2 DEF RouteToOutput, RouteToBurn
    <3>2. Building'
      BY <1>1, <1>5, <2>1, <2>2, <3>1, RouteBuilds
    <3> QED BY <1>1, <3>1, <3>2 DEF TripInv, RoundTrip
  <2>3. CASE Refuse
    BY <1>1, <2>3 DEF Refuse, TripInv, RoundTrip
  <2>4. CASE Sent
    <3>1. phase = "build" /\ phase' = "read"
      BY <2>4 DEF Sent
    <3>2. Reading'
      BY <1>1, <1>5, <2>1, <2>4, <3>1, SentReads
    <3> QED BY <1>1, <3>1, <3>2 DEF TripInv, RoundTrip
  <2>5. CASE ReadInstruction
    <3>1. phase = "read"
      BY <2>5 DEF ReadInstruction
    <3>2. Removing' /\ ~Exhausted(index)
      BY <1>1, <1>5, <2>1, <2>5, <3>1, ReadTune
    <3>3. phase' = "remove"
      BY <2>5, <3>2 DEF ReadInstruction
    <3> QED BY <1>1, <3>2, <3>3 DEF TripInv, RoundTrip
  <2>6. CASE RemoveChunk
    <3>1. phase = "remove"
      BY <2>6 DEF RemoveChunk
    <3>2. Removing' /\ phase' = "remove"
      BY <1>1, <1>5, <2>1, <2>6, <3>1, RemoveTune
    <3> QED BY <1>1, <3>2 DEF TripInv, RoundTrip
  <2>7. CASE Apply
    <3>1. phase = "remove"
      BY <2>7 DEF Apply
    <3>2. Reading' /\ phase' = "read"
      BY <1>1, <1>5, <2>1, <2>7, <3>1, ApplyTune
    <3> QED BY <1>1, <3>2 DEF TripInv, RoundTrip
  <2>8. CASE AddChange \/ ChangeFails
    <3>1. phase = "read" /\ ReadAll /\ Leftover # 0
      BY <2>8 DEF AddChange, ChangeFails, ReadAll
    <3> QED BY <1>1, <1>5, <2>1, <3>1, ReadOut
  <2>9. CASE Finish
    <3>1. phase = "read" /\ phase' = "done"
      BY <2>9 DEF Finish, ReadAll
    <3>2. RoundTrip'
      BY <1>1, <1>5, <2>1, <2>9, <3>1, FinishTrip
    <3> QED BY <1>1, <3>1, <3>2 DEF TripInv
  <2>10. CASE Truncated \/ NotAnAssetTransaction \/ RuleFailed \/ RateUnknown
    <3>1. phase' = "done" /\ txType' = "standard"
      BY <2>10 DEF Truncated, NotAnAssetTransaction, RuleFailed, RateUnknown, GiveUp
    <3> QED BY <1>1, <3>1 DEF TripInv, RoundTrip
  <2> QED BY <1>5, <2>2, <2>3, <2>4, <2>5, <2>6, <2>7, <2>8, <2>9, <2>10 DEF Next
<1> QED BY <1>3, <1>4, <1>5

\* Whatever the wallet agrees to build, every node reads as it was ordered: the instructions of
\* buildTransferInstructions() find each chunk at the front of the input decodeAssetTransfer()
\* consumes, are never caught, leave no change behind, and put on every output and into the
\* burns exactly what the order says - unless the rules reject the transaction.
THEOREM OrdersReadAsBuilt == ASSUME Sendable PROVE Spec => []RoundTrip
<1>1. Init => TripInv
  <2> SUFFICES ASSUME Init PROVE TripInv
    OBVIOUS
  <2>1. Shape /\ phase # "done" /\ phase # "remove"
    BY ShapeInit DEF Init
  <2>2. tx \in Orders => phase = "build" /\ Building
    BY BuildInit
  <2> QED BY <2>1, <2>2 DEF TripInv, RoundTrip
<1>2. TripInv /\ [Next]_vars => TripInv'
  BY TripStep
<1>3. TripInv => RoundTrip
  BY DEF TripInv
<1> QED BY <1>1, <1>2, <1>3, PTL DEF Spec
================================================================================
