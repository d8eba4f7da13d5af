------------------------- MODULE ElementLookup_proofs -------------------------
(***************************************************************************)
(* Theorems about the lookup of names, for every set of files, packages    *)
(* and expressions: that the cache of lookups agrees with the scopes, that *)
(* what the host holds stays what its path names, and that a verdict on    *)
(* the ports of a declaration stays right.                                 *)
(***************************************************************************)
EXTENDS ElementInterpreter_proofs

-----------------------------------------------------------------------------
(* Folds over sequences.                                                   *)

LEMMA MaxIs ==
  ASSUME NEW n \in Nat, NEW S \in SUBSET (1 .. n), S # {}
  PROVE  Max(S) \in S /\ \A y \in S : y <= Max(S)
<1> DEFINE D == {d \in Nat : n - d \in S}
<1>1. PICK x \in S : TRUE
  OBVIOUS
<1>2. n - x \in Nat /\ n - (n - x) = x
  OBVIOUS
<1>3. n - x \in D
  BY <1>2
<1>4. PICK d \in D : \A e \in D : d <= e
  BY <1>3, HasLeast
<1>5. n - d \in S /\ d \in Nat
  BY <1>4
<1>6. ASSUME NEW y \in S PROVE n - d >= y
  <2>1. n - y \in D
    OBVIOUS
  <2> QED BY <1>4, <1>5, <2>1
<1>7. \E m \in S : \A y \in S : m >= y
  BY <1>5, <1>6
<1> DEFINE m == CHOOSE z \in S : \A y \in S : z >= y
<1>8. m \in S /\ \A y \in S : m >= y
  BY <1>7
<1>9. Max(S) = m
  BY DEF Max
<1> QED BY <1>8, <1>9

LEMMA MaxUpTo == ASSUME NEW k \in Nat, k # 0 PROVE Max(1 .. k) = k
<1>1. 1 .. k \in SUBSET (1 .. k) /\ k \in 1 .. k
  OBVIOUS
<1>2. Max(1 .. k) \in 1 .. k /\ k <= Max(1 .. k)
  BY <1>1, MaxIs
<1> QED BY <1>2

\* A fold is a function on the sets of positions
FoldStep(F, b, T, S) == IF S = {} THEN b ELSE T[<<F[S \ {Max(S)}], Max(S)>>]

ToFold(n, V, b, T) == n \in Nat /\ b \in V /\ T \in [V \X (1 .. n) -> V]
Folds(F, n, V, b, T) ==
  F \in [SUBSET (1 .. n) -> V] /\ \A S \in SUBSET (1 .. n) : F[S] = FoldStep(F, b, T, S)

LEMMA FoldExists ==
  ASSUME NEW n, NEW V, NEW b, NEW T, ToFold(n, V, b, T)
  PROVE  \E F : Folds(F, n, V, b, T)
<1>0. n \in Nat /\ b \in V /\ T \in [V \X (1 .. n) -> V]
  BY DEF ToFold
<1> DEFINE Has(m) == \E F \in [SUBSET (1 .. m) -> V] : \A S \in SUBSET (1 .. m) : F[S] = FoldStep(F, b, T, S)
           Bad == {m \in Nat : m <= n /\ ~Has(m)}
<1>1. Has(0)
  <2> USE <1>0
  <2> DEFINE F == [S \in SUBSET (1 .. 0) |-> b]
  <2>1. SUBSET (1 .. 0) = {{}}
    OBVIOUS
  <2>2. F \in [SUBSET (1 .. 0) -> V] /\ \A S \in SUBSET (1 .. 0) : F[S] = FoldStep(F, b, T, S)
    BY <2>1 DEF FoldStep
  <2> QED BY <2>2
<1>2. ASSUME NEW m \in Nat, m + 1 <= n, Has(m) PROVE Has(m + 1)
  <2> USE <1>0
  <2>1. PICK F \in [SUBSET (1 .. m) -> V] : \A S \in SUBSET (1 .. m) : F[S] = FoldStep(F, b, T, S)
    BY <1>2
  <2> DEFINE G == [S \in SUBSET (1 .. (m + 1)) |-> IF m + 1 \in S THEN T[<<F[S \ {m + 1}], m + 1>>] ELSE F[S]]
  <2>2. ASSUME NEW S \in SUBSET (1 .. (m + 1))
        PROVE  /\ m + 1 \notin S => S \in SUBSET (1 .. m)
               /\ S \ {m + 1} \in SUBSET (1 .. m)
    OBVIOUS
  <2>3. G \in [SUBSET (1 .. (m + 1)) -> V]
    <3> SUFFICES ASSUME NEW S \in SUBSET (1 .. (m + 1)) PROVE G[S] \in V
      OBVIOUS
    <3>1. CASE m + 1 \in S
      <4>1. F[S \ {m + 1}] \in V /\ m + 1 \in 1 .. n
        BY <1>2, <2>1, <2>2
      <4>2. <<F[S \ {m + 1}], m + 1>> \in V \X (1 .. n)
        BY <4>1
      <4> QED BY <3>1, <4>2
    <3>2. CASE m + 1 \notin S
      BY <3>2, <2>1, <2>2
    <3> QED BY <3>1, <3>2
  <2>4. \A S \in SUBSET (1 .. m) : G[S] = F[S]
    <3> SUFFICES ASSUME NEW S \in SUBSET (1 .. m) PROVE G[S] = F[S]
      OBVIOUS
    <3>1. S \in SUBSET (1 .. (m + 1)) /\ m + 1 \notin S
      OBVIOUS
    <3> QED BY <3>1
  <2>5. ASSUME NEW S \in SUBSET (1 .. (m + 1)) PROVE G[S] = FoldStep(G, b, T, S)
    <3>1. CASE m + 1 \in S
      <4>0. m + 1 \in Nat /\ S # {}
        BY <3>1
      <4>1. Max(S) \in S /\ m + 1 <= Max(S)
        BY <3>1, <4>0, MaxIs
      <4>2. Max(S) = m + 1
        <5>1. Max(S) \in 1 .. (m + 1)
          BY <4>1
        <5> HIDE DEF G
        <5> QED BY <4>1, <5>1
      <4>3. G[S] = T[<<F[S \ {m + 1}], m + 1>>]
        BY <3>1
      <4>4. G[S \ {m + 1}] = F[S \ {m + 1}]
        BY <2>2, <2>4
      <4> HIDE DEF G
      <4> QED BY <3>1, <4>2, <4>3, <4>4 DEF FoldStep
    <3>2. CASE m + 1 \notin S
      <4>1. S \in SUBSET (1 .. m) /\ S \ {Max(S)} \in SUBSET (1 .. m)
        BY <3>2, <2>2
      <4>2. G[S] = F[S] /\ G[S \ {Max(S)}] = F[S \ {Max(S)}]
        BY <2>4, <4>1
      <4>3. F[S] = FoldStep(F, b, T, S)
        BY <2>1, <4>1
      <4> HIDE DEF G
      <4> QED BY <4>2, <4>3 DEF FoldStep
    <3> QED BY <3>1, <3>2
  <2> HIDE DEF G
  <2> QED BY <2>3, <2>5
<1> HIDE DEF Has
<1>3. Bad = {}
  <2> SUFFICES ASSUME Bad # {} PROVE FALSE
    OBVIOUS
  <2>1. PICK m \in Bad : \A k \in Bad : m <= k
    BY HasLeast
  <2>2. m # 0 /\ m \in Nat /\ m <= n /\ ~Has(m)
    BY <1>1, <2>1
  <2>3. m - 1 \in Nat /\ m - 1 <= n /\ (m - 1) + 1 = m /\ m - 1 \notin Bad
    BY <1>0, <2>1, <2>2
  <2>4. Has(m - 1)
    BY <2>3
  <2>5. Has((m - 1) + 1)
    BY <1>2, <2>2, <2>3, <2>4
  <2> QED BY <2>2, <2>3, <2>5
<1>4. Has(n)
  BY <1>0, <1>3
<1> QED BY <1>4 DEF Has, Folds

\* ...of which the values on the first k positions are those of an iteration
Iterates(q, n, V, b, T) ==
  /\ q \in [0 .. n -> V]
  /\ q[0] = b /\ \A k \in 1 .. n : q[k] = T[<<q[k - 1], k>>]
Folding(f, n, V, b, T) ==
  /\ f[{}] = b
  /\ \A S \in SUBSET (1 .. n) :
       S # {} /\ f[S \ {Max(S)}] \in V => f[S] = T[<<f[S \ {Max(S)}], Max(S)>>]

LEMMA FoldValues ==
  ASSUME NEW n, NEW V, NEW b, NEW T, ToFold(n, V, b, T), NEW f, Folding(f, n, V, b, T)
  PROVE  \E q : Iterates(q, n, V, b, T) /\ q[n] = f[1 .. n]
<1> USE DEF ToFold
<1> DEFINE q == [k \in 0 .. n |-> f[1 .. k]]
<1>1. 1 .. 0 = {} /\ f[1 .. 0] = b
  BY DEF Folding
<1>2. ASSUME NEW k \in 1 .. n, f[1 .. (k - 1)] \in V
      PROVE  f[1 .. k] = T[<<f[1 .. (k - 1)], k>>] /\ f[1 .. k] \in V
  <2>1. Max(1 .. k) = k /\ (1 .. k) \ {k} = 1 .. (k - 1) /\ 1 .. k # {} /\ 1 .. k \in SUBSET (1 .. n)
    <3>1. n \in Nat /\ k \in Nat /\ k # 0
      OBVIOUS
    <3>2. Max(1 .. k) = k
      BY <3>1, MaxUpTo
    <3>3. (1 .. k) \ {k} = 1 .. (k - 1)
      BY <3>1
    <3>4. 1 .. k # {} /\ 1 .. k \in SUBSET (1 .. n)
      BY <3>1
    <3> QED BY <3>2, <3>3, <3>4
  <2>2. f[1 .. k] = T[<<f[1 .. (k - 1)], k>>]
    BY <1>2, <2>1 DEF Folding
  <2>3. <<f[1 .. (k - 1)], k>> \in V \X (1 .. n)
    BY <1>2
  <2> QED BY <2>2, <2>3
<1>3. \A k \in 0 .. n : f[1 .. k] \in V
  <2> DEFINE Bad == {k \in Nat : k <= n /\ f[1 .. k] \notin V}
  <2> SUFFICES ASSUME Bad # {} PROVE FALSE
    OBVIOUS
  <2>1. PICK k \in Bad : \A j \in Bad : k <= j
    BY HasLeast
  <2>2. k # 0 /\ k \in 1 .. n
    BY <1>1, <2>1
  <2>3. k - 1 \in Nat /\ k - 1 <= n /\ k - 1 \notin Bad
    BY <2>1, <2>2
  <2>4. f[1 .. (k - 1)] \in V
    BY <2>3
  <2> QED BY <1>2, <2>1, <2>2, <2>4
<1>4. q \in [0 .. n -> V] /\ q[0] = b /\ q[n] = f[1 .. n]
  BY <1>1, <1>3
<1>5. \A k \in 1 .. n : q[k] = T[<<q[k - 1], k>>]
  <2> SUFFICES ASSUME NEW k \in 1 .. n PROVE q[k] = T[<<q[k - 1], k>>]
    OBVIOUS
  <2>1. k \in 0 .. n /\ k - 1 \in 0 .. n
    OBVIOUS
  <2> QED BY <1>2, <1>3, <2>1
<1> QED BY <1>4, <1>5 DEF Iterates

-----------------------------------------------------------------------------
(* Recursion outwards.                                                     *)

\* The chains of parents end
Grounded(h) == \A A \in SUBSET Live(h) : A # {} => \E a \in A : h[a].parent \notin A

\* What one step outwards gives, as a function
Climbs(F, h, D, V, b, T) ==
  F \in [D \cup {Nowhere} -> V] /\ F[Nowhere] = b /\ \A a \in D : F[a] = T[<<a, F[h[a].parent]>>]

LEMMA ClimbExists ==
  ASSUME NEW h, Nested(h), Grounded(h), NEW V, NEW b \in V, NEW T \in [Live(h) \X V -> V]
  PROVE  \E F : Climbs(F, h, Live(h), V, b, T)
<1> DEFINE Has(D) == \E F : Climbs(F, h, D, V, b, T)
           Up == {D \in SUBSET Live(h) : (\A a \in D : h[a].parent \in D \cup {Nowhere}) /\ Has(D)}
           Sizes == {k \in Nat : \E D \in Up : Cardinality(Live(h) \ D) = k}
<1>1. IsFiniteSet(Live(h)) /\ Nowhere \notin Live(h)
  BY LiveFinite
<1>2. ASSUME NEW D \in SUBSET Live(h) PROVE IsFiniteSet(Live(h) \ D) /\ Cardinality(Live(h) \ D) \in Nat
  BY <1>1, FS_Subset, FS_CardinalityType
<1>3. {} \in Up
  <2> DEFINE F == [a \in {Nowhere} |-> b]
  <2>1. Climbs(F, h, {}, V, b, T)
    BY DEF Climbs
  <2> QED BY <2>1
<1>4. ASSUME NEW D \in Up, D # Live(h)
      PROVE  \E a \in Live(h) \ D : D \cup {a} \in Up
  <2>0. Has(D) /\ D \in SUBSET Live(h) /\ \A x \in D : h[x].parent \in D \cup {Nowhere}
    OBVIOUS
  <2>1. Live(h) \ D \in SUBSET Live(h) /\ Live(h) \ D # {}
    BY <1>4, <2>0
  <2>2. PICK a \in Live(h) \ D : h[a].parent \notin Live(h) \ D
    BY <2>1 DEF Grounded
  <2>3. h[a].parent \in D \cup {Nowhere}
    BY <2>2 DEF Nested
  <2>4. PICK F : Climbs(F, h, D, V, b, T)
    BY <2>0
  <2> DEFINE G == [x \in D \cup {a} \cup {Nowhere} |-> IF x = a THEN T[<<a, F[h[a].parent]>>] ELSE F[x]]
  <2>5. F[h[a].parent] \in V /\ <<a, F[h[a].parent]>> \in Live(h) \X V
    BY <2>3, <2>4 DEF Climbs
  <2>6. \A x \in D \cup {Nowhere} : G[x] = F[x] /\ F[x] \in V
    BY <1>1, <2>2, <2>4 DEF Climbs
  <2>7. G[a] = T[<<a, F[h[a].parent]>>] /\ G[a] \in V
    BY <2>5
  <2>8. DOMAIN G = D \cup {a} \cup {Nowhere} /\ G = [x \in DOMAIN G |-> G[x]]
    OBVIOUS
  <2> HIDE DEF G
  <2>9. G \in [D \cup {a} \cup {Nowhere} -> V]
    BY <2>6, <2>7, <2>8
  <2>10. G[Nowhere] = b
    BY <2>4, <2>6 DEF Climbs
  <2>11. \A x \in D \cup {a} : G[x] = T[<<x, G[h[x].parent]>>]
    <3> SUFFICES ASSUME NEW x \in D \cup {a} PROVE G[x] = T[<<x, G[h[x].parent]>>]
      OBVIOUS
    <3>1. CASE x = a
      BY <3>1, <2>3, <2>6, <2>7
    <3>2. CASE x \in D
      <4>1. h[x].parent \in D \cup {Nowhere} /\ F[x] = T[<<x, F[h[x].parent]>>]
        BY <3>2, <2>4 DEF Climbs
      <4> QED BY <3>2, <4>1, <2>6
    <3> QED BY <3>1, <3>2
  <2>12. Climbs(G, h, D \cup {a}, V, b, T)
    BY <2>9, <2>10, <2>11 DEF Climbs
  <2>13. \A x \in D \cup {a} : h[x].parent \in D \cup {a} \cup {Nowhere}
    BY <2>0, <2>3
  <2>14. Has(D \cup {a})
    BY <2>12
  <2> HIDE DEF Has
  <2>15. D \cup {a} \in SUBSET Live(h)
    BY <2>0
  <2>16. D \cup {a} \in Up
    BY <2>13, <2>14, <2>15
  <2> QED BY <2>16
<1> HIDE DEF Has
<1>5. Sizes # {}
  BY <1>2, <1>3
<1>6. PICK k \in Sizes : \A j \in Sizes : k <= j
  BY <1>5, HasLeast
<1>7. PICK D \in Up : Cardinality(Live(h) \ D) = k
  BY <1>6
<1>8. D = Live(h)
  <2> SUFFICES ASSUME D # Live(h) PROVE FALSE
    OBVIOUS
  <2>1. PICK a \in Live(h) \ D : D \cup {a} \in Up
    BY <1>4
  <2> DEFINE A == Live(h) \ D
  <2>2. Live(h) \ (D \cup {a}) = A \ {a} /\ IsFiniteSet(A) /\ a \in A
    BY <1>2
  <2>3. Cardinality(A \ {a}) = Cardinality(A) - 1
    <3> HIDE DEF A
    <3> QED BY <2>2, FS_RemoveElement
  <2>4. Cardinality(A) \in Nat /\ Cardinality(A \ {a}) \in Nat
    BY <1>2, <2>1, <2>2
  <2>5. Cardinality(A \ {a}) \in Sizes
    BY <2>1, <2>2, <2>4
  <2>6. k = Cardinality(A) /\ k <= Cardinality(A \ {a})
    BY <1>6, <1>7, <2>5
  <2> HIDE DEF A, Sizes
  <2> QED BY <2>3, <2>4, <2>6
<1> QED BY <1>7, <1>8 DEF Has

\* What is found outwards of a scope
LEMMA OutwardsIs ==
  ASSUME NEW h, Forest(h), Grounded(h), NEW n
  PROVE  /\ Outwards(h, Nowhere, n) = Nowhere
         /\ \A a \in Live(h) :
              /\ Outwards(h, a, n) \in Live(h) \cup {Nowhere}
              /\ Outwards(h, a, n) = IF n \in DOMAIN h[a].decls THEN h[a].decls[n] ELSE Outwards(h, h[a].parent, n)
<1> DEFINE V == Live(h) \cup {Nowhere}
           T == [x \in Live(h) \X V |-> IF n \in DOMAIN h[x[1]].decls THEN h[x[1]].decls[n] ELSE x[2]]
           Eq(F) == F = [a \in Live(h) \cup {Nowhere} |->
                          IF a = Nowhere THEN Nowhere
                          ELSE IF n \in DOMAIN h[a].decls THEN h[a].decls[n] ELSE F[h[a].parent]]
           G == CHOOSE F : Eq(F)
<1>1. Nowhere \notin Live(h)
  BY LiveFinite
<1>2. T \in [Live(h) \X V -> V]
  BY DEF Forest, Owns
<1>3. PICK F : Climbs(F, h, Live(h), V, Nowhere, T)
  BY <1>2, ClimbExists DEF Forest
<1>4. ASSUME NEW a \in Live(h) PROVE F[a] = IF n \in DOMAIN h[a].decls THEN h[a].decls[n] ELSE F[h[a].parent]
  <2>1. F[a] = T[<<a, F[h[a].parent]>>] /\ F[h[a].parent] \in V
    BY <1>3 DEF Climbs, Forest, Nested
  <2>2. <<a, F[h[a].parent]>> \in Live(h) \X V
    BY <2>1
  <2> QED BY <2>1, <2>2
<1>5. Eq(F)
  <2>1. F = [a \in Live(h) \cup {Nowhere} |-> F[a]] /\ F[Nowhere] = Nowhere
    BY <1>3 DEF Climbs
  <2> QED BY <1>1, <1>4, <2>1
<1>6. Eq(G)
  <2> HIDE DEF Eq
  <2> QED BY <1>5
<1>7. \A a : Outwards(h, a, n) = G[a]
  BY DEF Outwards, Declares
<1> HIDE DEF G, T
<1>8. G[Nowhere] = Nowhere /\ \A a \in Live(h) : G[a] = IF n \in DOMAIN h[a].decls THEN h[a].decls[n] ELSE G[h[a].parent]
  BY <1>1, <1>6
<1>9. \A a \in Live(h) : G[a] \in V
  <2> DEFINE Bad == {a \in Live(h) : G[a] \notin V}
  <2> SUFFICES ASSUME Bad # {} PROVE FALSE
    OBVIOUS
  <2>1. Bad \in SUBSET Live(h)
    OBVIOUS
  <2>2. PICK a \in Bad : h[a].parent \notin Bad
    BY <2>1 DEF Grounded
  <2>3. G[h[a].parent] \in V
    BY <1>8, <2>2 DEF Forest, Nested
  <2> QED BY <1>8, <2>2, <2>3 DEF Forest, Owns
<1> QED BY <1>7, <1>8, <1>9

\* Scopes that lie in each other's and declare each other, as far as the names in P go
Closed(h, S, P) ==
  /\ S \subseteq Live(h)
  /\ \A a \in S : /\ h[a].parent \in S \cup {Nowhere}
                  /\ \A n \in DOMAIN h[a].decls \cap P : h[a].decls[n] \in S

LEMMA OutwardsWithin ==
  ASSUME NEW h, Forest(h), Grounded(h), NEW S, NEW P, Closed(h, S, P), NEW n \in P, NEW s \in S
  PROVE  /\ Outwards(h, s, n) \in S \cup {Nowhere}
         /\ Outwards(h, s, n) # Nowhere => Declared(h, Outwards(h, s, n)) /\ h[Outwards(h, s, n)].name = n
<1> DEFINE O(a) == Outwards(h, a, n)
           Fine(a) == O(a) \in S \cup {Nowhere} /\ (O(a) # Nowhere => Declared(h, O(a)) /\ h[O(a)].name = n)
           Bad == {a \in S : ~Fine(a)}
<1> SUFFICES ASSUME Bad # {} PROVE FALSE
  OBVIOUS
<1>1. Bad \in SUBSET Live(h)
  BY DEF Closed
<1>2. PICK a \in Bad : h[a].parent \notin Bad
  BY <1>1 DEF Grounded
<1>3. a \in S /\ a \in Live(h) /\ h[a].parent \in S \cup {Nowhere}
  BY <1>2 DEF Closed
<1>4. O(Nowhere) = Nowhere /\ O(a) = IF n \in DOMAIN h[a].decls THEN h[a].decls[n] ELSE O(h[a].parent)
  BY <1>3, OutwardsIs
<1>5. Fine(h[a].parent)
  BY <1>2, <1>3, <1>4
<1>6. CASE n \in DOMAIN h[a].decls
  <2>1. h[a].decls[n] \in S /\ h[h[a].decls[n]].parent = a /\ h[h[a].decls[n]].name = n
    BY <1>3, <1>6 DEF Closed, Forest, Owns
  <2>2. Declared(h, h[a].decls[n])
    BY <1>3, <1>6, <2>1 DEF Declared
  <2> QED BY <1>2, <1>4, <1>6, <2>1, <2>2
<1>7. CASE n \notin DOMAIN h[a].decls
  BY <1>2, <1>4, <1>5, <1>7
<1> QED BY <1>6, <1>7

\* What the scopes of S declare as n they go on declaring, and at most an outermost one begins to
Keeps(h, h2, S, n) ==
  \A a \in S : /\ a \in Live(h2) /\ h2[a].parent = h[a].parent
               /\ n \in DOMAIN h[a].decls => n \in DOMAIN h2[a].decls /\ h2[a].decls[n] = h[a].decls[n]
               /\ n \in DOMAIN h2[a].decls => n \in DOMAIN h[a].decls \/ h[a].parent = Nowhere
\* ...and none begins to
Same(h, h2, S, n) ==
  /\ Keeps(h, h2, S, n)
  /\ \A a \in S : n \in DOMAIN h2[a].decls => n \in DOMAIN h[a].decls

LEMMA OutwardsKept ==
  ASSUME NEW h, Forest(h), Grounded(h), NEW h2, Forest(h2), Grounded(h2),
         NEW S, NEW P, Closed(h, S, P), NEW n \in P, Keeps(h, h2, S, n), NEW s \in S, Outwards(h, s, n) # Nowhere
  PROVE  Outwards(h2, s, n) = Outwards(h, s, n)
<1> DEFINE Bad == {a \in S : Outwards(h, a, n) # Nowhere /\ Outwards(h2, a, n) # Outwards(h, a, n)}
<1> SUFFICES ASSUME Bad # {} PROVE FALSE
  OBVIOUS
<1>1. Bad \in SUBSET Live(h)
  BY DEF Closed
<1>2. PICK a \in Bad : h[a].parent \notin Bad
  BY <1>1 DEF Grounded
<1>3. a \in S /\ a \in Live(h) /\ a \in Live(h2) /\ h2[a].parent = h[a].parent /\ h[a].parent \in S \cup {Nowhere}
  BY <1>2 DEF Closed, Keeps
<1>4. /\ Outwards(h, a, n) = IF n \in DOMAIN h[a].decls THEN h[a].decls[n] ELSE Outwards(h, h[a].parent, n)
      /\ Outwards(h2, a, n) = IF n \in DOMAIN h2[a].decls THEN h2[a].decls[n] ELSE Outwards(h2, h[a].parent, n)
      /\ Outwards(h, Nowhere, n) = Nowhere
  BY <1>3, OutwardsIs
<1>5. CASE n \in DOMAIN h[a].decls
  BY <1>2, <1>3, <1>4, <1>5 DEF Keeps
<1>6. CASE n \notin DOMAIN h[a].decls
  <2>1. Outwards(h, h[a].parent, n) # Nowhere /\ h[a].parent # Nowhere
    BY <1>2, <1>4, <1>6
  <2>2. n \notin DOMAIN h2[a].decls
    BY <1>3, <1>6, <2>1 DEF Keeps
  <2> QED BY <1>2, <1>3, <1>4, <1>6, <2>1, <2>2
<1> QED BY <1>5, <1>6

LEMMA OutwardsSame ==
  ASSUME NEW h, Forest(h), Grounded(h), NEW h2, Forest(h2), Grounded(h2),
         NEW S, NEW P, Closed(h, S, P), NEW n \in P, Same(h, h2, S, n), NEW s \in S
  PROVE  Outwards(h2, s, n) = Outwards(h, s, n)
<1> DEFINE Bad == {a \in S : Outwards(h2, a, n) # Outwards(h, a, n)}
<1> SUFFICES ASSUME Bad # {} PROVE FALSE
  OBVIOUS
<1>1. Bad \in SUBSET Live(h)
  BY DEF Closed
<1>2. PICK a \in Bad : h[a].parent \notin Bad
  BY <1>1 DEF Grounded
<1>3. a \in S /\ a \in Live(h) /\ a \in Live(h2) /\ h2[a].parent = h[a].parent /\ h[a].parent \in S \cup {Nowhere}
  BY <1>2 DEF Closed, Same, Keeps
<1>4. /\ Outwards(h, a, n) = IF n \in DOMAIN h[a].decls THEN h[a].decls[n] ELSE Outwards(h, h[a].parent, n)
      /\ Outwards(h2, a, n) = IF n \in DOMAIN h2[a].decls THEN h2[a].decls[n] ELSE Outwards(h2, h[a].parent, n)
      /\ Outwards(h, Nowhere, n) = Nowhere /\ Outwards(h2, Nowhere, n) = Nowhere
  BY <1>3, OutwardsIs
<1>5. n \in DOMAIN h2[a].decls <=> n \in DOMAIN h[a].decls
  BY <1>3 DEF Same, Keeps
<1>6. CASE n \in DOMAIN h[a].decls
  BY <1>2, <1>3, <1>4, <1>6 DEF Same, Keeps
<1>7. CASE n \notin DOMAIN h[a].decls
  BY <1>2, <1>3, <1>4, <1>5, <1>7
<1> QED BY <1>6, <1>7

-----------------------------------------------------------------------------
(* What a path names.                                                      *)

NamedNext(h, d, n) == IF d = Nowhere THEN Nowhere ELSE Outwards(h, d, n)
\* The declarations that the names of p lead through
Trail(h, s, p, q) ==
  /\ q \in [0 .. Len(p) -> Live(h) \cup {Nowhere}]
  /\ q[0] = s /\ \A k \in 1 .. Len(p) : q[k] = NamedNext(h, q[k - 1], p[k])

LEMMA NamedIs ==
  ASSUME NEW h, Forest(h), Grounded(h), NEW s \in Live(h), NEW P, NEW p \in Seq(P)
  PROVE  \E q : Trail(h, s, p, q) /\ Named(h, s, p) = q[Len(p)]
<1> DEFINE n == Len(p)
           V == Live(h) \cup {Nowhere}
           T == [x \in V \X (1 .. n) |-> NamedNext(h, x[1], p[x[2]])]
           Eq(f) == f = [S \in SUBSET (DOMAIN p) |->
                          IF S = {} THEN s ELSE NamedNext(h, f[S \ {Max(S)}], p[Max(S)])]
           f == CHOOSE g : Eq(g)
<1>1. n \in Nat /\ DOMAIN p = 1 .. n
  OBVIOUS
<1>2. \A d \in V : \A m : NamedNext(h, d, m) \in V
  BY OutwardsIs DEF NamedNext
<1>3. T \in [V \X (1 .. n) -> V] /\ s \in V
  <2> HIDE DEF n, V
  <2>1. \A x \in V \X (1 .. n) : x[1] \in V
    OBVIOUS
  <2>2. \A x \in V \X (1 .. n) : NamedNext(h, x[1], p[x[2]]) \in V
    BY <1>2, <2>1
  <2>3. s \in V
    BY DEF V
  <2> QED BY <2>2, <2>3
<1>4. Named(h, s, p) = f[DOMAIN p]
  BY DEF Named, NamedNext, FoldLeft, MapThenFoldSet
<1> HIDE DEF n, V
<1>5. \A d \in V, k \in 1 .. n : T[<<d, k>>] = NamedNext(h, d, p[k])
  OBVIOUS
<1> HIDE DEF T
<1>12. ToFold(n, V, s, T)
  BY <1>1, <1>3 DEF ToFold
<1>6. PICK F : Folds(F, n, V, s, T)
  BY <1>12, FoldExists
<1>7. Eq(F)
  <2>1. ASSUME NEW S \in SUBSET (1 .. n)
        PROVE  F[S] = IF S = {} THEN s ELSE NamedNext(h, F[S \ {Max(S)}], p[Max(S)])
    <3>1. CASE S = {}
      BY <1>6, <3>1 DEF Folds, FoldStep
    <3>2. CASE S # {}
      <4>1. Max(S) \in 1 .. n /\ F[S \ {Max(S)}] \in V
        BY <1>1, <1>6, <3>2, MaxIs DEF Folds
      <4>2. F[S] = T[<<F[S \ {Max(S)}], Max(S)>>]
        BY <1>6, <3>2 DEF Folds, FoldStep
      <4> QED BY <1>5, <3>2, <4>1, <4>2
    <3> QED BY <3>1, <3>2
  <2> QED BY <1>1, <1>6, <2>1 DEF Folds
<1>8. Eq(f)
  <2> HIDE DEF Eq
  <2> QED BY <1>7
<1> HIDE DEF f
<1>9. Folding(f, n, V, s, T)
  <2>1. f[{}] = s
    BY <1>8
  <2>2. ASSUME NEW S \in SUBSET (1 .. n), S # {}, f[S \ {Max(S)}] \in V
        PROVE  f[S] = T[<<f[S \ {Max(S)}], Max(S)>>]
    <3>1. Max(S) \in 1 .. n
      BY <1>1, <2>2, MaxIs
    <3>2. f[S] = NamedNext(h, f[S \ {Max(S)}], p[Max(S)])
      BY <1>1, <1>8, <2>2
    <3> QED BY <1>5, <2>2, <3>1, <3>2
  <2> QED BY <2>1, <2>2 DEF Folding
<1>10. PICK q : Iterates(q, n, V, s, T) /\ q[n] = f[1 .. n]
  BY <1>9, <1>12, FoldValues
<1>11. Trail(h, s, p, q)
  <2>1. ASSUME NEW k \in 1 .. n PROVE q[k] = NamedNext(h, q[k - 1], p[k])
    <3>1. k - 1 \in 0 .. n
      BY <1>1
    <3> QED BY <1>5, <1>10, <3>1 DEF Iterates
  <2> QED BY <1>10, <2>1 DEF Trail, Iterates, n, V
<1> QED BY <1>1, <1>4, <1>10, <1>11 DEF n

\* A trail that ends somewhere was never lost
LEMMA TrailGoesOn ==
  ASSUME NEW h, NEW s, NEW P, NEW p \in Seq(P), NEW q, Trail(h, s, p, q), q[Len(p)] # Nowhere
  PROVE  \A k \in 0 .. Len(p) : q[k] # Nowhere
<1> DEFINE n == Len(p)
           Bad == {d \in Nat : d <= n /\ q[n - d] = Nowhere}
<1> SUFFICES ASSUME NEW k \in 0 .. n, q[k] = Nowhere PROVE FALSE
  OBVIOUS
<1>1. n \in Nat /\ n - k \in Nat /\ n - k <= n /\ n - (n - k) = k
  OBVIOUS
<1>2. Bad # {}
  BY <1>1
<1>3. PICK d \in Bad : \A e \in Bad : d <= e
  BY <1>2, HasLeast
<1>4. d # 0 /\ d \in Nat /\ d <= n
  BY <1>1, <1>3
<1>5. d - 1 \in Nat /\ d - 1 <= n /\ d - 1 \notin Bad
  BY <1>1, <1>3, <1>4
<1>6. q[n - (d - 1)] # Nowhere
  BY <1>5
<1>7. n - (d - 1) \in 1 .. n /\ (n - (d - 1)) - 1 = n - d
  BY <1>1, <1>4
<1>8. q[n - (d - 1)] = NamedNext(h, q[n - d], p[n - (d - 1)])
  BY <1>7 DEF Trail
<1>9. q[n - d] = Nowhere
  BY <1>3
<1> HIDE DEF n
<1> QED BY <1>6, <1>8, <1>9 DEF NamedNext

LEMMA TrailWithin ==
  ASSUME NEW h, Forest(h), Grounded(h), NEW S, NEW P, Closed(h, S, P), NEW s \in S, NEW p \in Seq(P),
         NEW q, Trail(h, s, p, q)
  PROVE  /\ \A k \in 0 .. Len(p) : q[k] \in S \cup {Nowhere}
         /\ \A k \in 1 .. Len(p) : q[k] # Nowhere => Declared(h, q[k]) /\ h[q[k]].name = p[k]
<1> DEFINE n == Len(p)
           Bad == {k \in Nat : k <= n /\ q[k] \notin S \cup {Nowhere}}
<1>1. n \in Nat
  OBVIOUS
<1>2. ASSUME NEW k \in 1 .. n, q[k - 1] \in S \cup {Nowhere}
      PROVE  /\ q[k] \in S \cup {Nowhere}
             /\ q[k] # Nowhere => Declared(h, q[k]) /\ h[q[k]].name = p[k]
  <2>1. p[k] \in P /\ q[k] = NamedNext(h, q[k - 1], p[k])
    BY DEF Trail
  <2> QED BY <1>2, <2>1, OutwardsWithin DEF NamedNext
<1>3. Bad = {}
  <2> SUFFICES ASSUME Bad # {} PROVE FALSE
    OBVIOUS
  <2>1. PICK k \in Bad : \A j \in Bad : k <= j
    BY HasLeast
  <2>2. k # 0 /\ k \in 1 .. n
    BY <1>1, <2>1 DEF Trail
  <2>3. k - 1 \in Nat /\ k - 1 <= n /\ k - 1 \notin Bad
    BY <1>1, <2>1, <2>2
  <2>4. q[k - 1] \in S \cup {Nowhere}
    BY <2>3
  <2> QED BY <1>2, <2>1, <2>2, <2>4
<1>4. \A k \in 0 .. n : q[k] \in S \cup {Nowhere}
  BY <1>1, <1>3
<1>5. \A k \in 1 .. n : k - 1 \in 0 .. n
  BY <1>1
<1> QED BY <1>2, <1>4, <1>5

LEMMA NamedWithin ==
  ASSUME NEW h, Forest(h), Grounded(h), NEW S, NEW P, Closed(h, S, P), NEW s \in S, NEW p \in Seq(P)
  PROVE  /\ Named(h, s, p) \in S \cup {Nowhere}
         /\ p # <<>> /\ Named(h, s, p) # Nowhere => Declared(h, Named(h, s, p))
<1>1. s \in Live(h)
  BY DEF Closed
<1>2. PICK q : Trail(h, s, p, q) /\ Named(h, s, p) = q[Len(p)]
  BY <1>1, NamedIs
<1>3. Len(p) \in 0 .. Len(p) /\ (p # <<>> => Len(p) \in 1 .. Len(p))
  OBVIOUS
<1> QED BY <1>2, <1>3, TrailWithin

\* Every name of a path that names something is declared somewhere
LEMMA NamedFound ==
  ASSUME NEW h, Forest(h), Grounded(h), NEW S, NEW P, Closed(h, S, P), NEW s \in S, NEW p \in Seq(P),
         Named(h, s, p) # Nowhere, NEW k \in 1 .. Len(p)
  PROVE  \E a \in Live(h) : p[k] \in DOMAIN h[a].decls
<1>1. s \in Live(h)
  BY DEF Closed
<1>2. PICK q : Trail(h, s, p, q) /\ Named(h, s, p) = q[Len(p)]
  BY <1>1, NamedIs
<1>3. q[k] # Nowhere
  <2>1. k \in 0 .. Len(p)
    OBVIOUS
  <2> QED BY <1>2, <2>1, TrailGoesOn
<1>4. Declared(h, q[k]) /\ h[q[k]].name = p[k]
  BY <1>2, <1>3, TrailWithin
<1> QED BY <1>4 DEF Declared

LEMMA NamedKept ==
  ASSUME NEW h, Forest(h), Grounded(h), NEW h2, Forest(h2), Grounded(h2), NEW S, S \subseteq Live(h2),
         NEW P, Closed(h, S, P), \A n \in P : Keeps(h, h2, S, n),
         NEW s \in S, NEW p \in Seq(P), Named(h, s, p) # Nowhere
  PROVE  Named(h2, s, p) = Named(h, s, p)
<1> DEFINE n == Len(p)
<1>1. s \in Live(h) /\ s \in Live(h2) /\ n \in Nat
  BY DEF Closed
<1>2. PICK q : Trail(h, s, p, q) /\ Named(h, s, p) = q[n]
  BY <1>1, NamedIs
<1>3. PICK r : Trail(h2, s, p, r) /\ Named(h2, s, p) = r[n]
  BY <1>1, NamedIs
<1>4. \A k \in 0 .. n : q[k] # Nowhere /\ q[k] \in S
  BY <1>2, TrailGoesOn, TrailWithin
<1>5. ASSUME NEW k \in 1 .. n, r[k - 1] = q[k - 1] PROVE r[k] = q[k]
  <2>1. k - 1 \in 0 .. n /\ k \in 0 .. n /\ p[k] \in P
    BY <1>1
  <2>2. q[k] = Outwards(h, q[k - 1], p[k]) /\ r[k] = Outwards(h2, q[k - 1], p[k])
    BY <1>2, <1>3, <1>4, <1>5, <2>1 DEF Trail, NamedNext
  <2>3. q[k - 1] \in S /\ q[k] # Nowhere
    BY <1>4, <2>1
  <2> HIDE DEF n
  <2> QED BY <2>1, <2>2, <2>3, OutwardsKept
<1>6. \A k \in 0 .. n : r[k] = q[k]
  <2> DEFINE Bad == {k \in Nat : k <= n /\ r[k] # q[k]}
  <2> SUFFICES ASSUME Bad # {} PROVE FALSE
    BY <1>1
  <2>1. PICK k \in Bad : \A j \in Bad : k <= j
    BY HasLeast
  <2>2. k # 0 /\ k \in 1 .. n
    BY <1>1, <1>2, <1>3, <2>1 DEF Trail
  <2>3. k - 1 \in Nat /\ k - 1 <= n /\ k - 1 \notin Bad
    BY <1>1, <2>1, <2>2
  <2> QED BY <1>5, <2>1, <2>2, <2>3
<1> QED BY <1>1, <1>2, <1>3, <1>6

LEMMA NamedSame ==
  ASSUME NEW h, Forest(h), Grounded(h), NEW h2, Forest(h2), Grounded(h2), NEW S, S \subseteq Live(h2),
         NEW P, Closed(h, S, P), \A n \in P : Same(h, h2, S, n),
         NEW s \in S, NEW p \in Seq(P)
  PROVE  Named(h2, s, p) = Named(h, s, p)
<1> DEFINE n == Len(p)
<1>1. s \in Live(h) /\ s \in Live(h2) /\ n \in Nat
  BY DEF Closed
<1>2. PICK q : Trail(h, s, p, q) /\ Named(h, s, p) = q[n]
  BY <1>1, NamedIs
<1>3. PICK r : Trail(h2, s, p, r) /\ Named(h2, s, p) = r[n]
  BY <1>1, NamedIs
<1>4. \A k \in 0 .. n : q[k] \in S \cup {Nowhere}
  BY <1>2, TrailWithin
<1>5. ASSUME NEW k \in 1 .. n, r[k - 1] = q[k - 1] PROVE r[k] = q[k]
  <2>1. k - 1 \in 0 .. n /\ p[k] \in P
    BY <1>1
  <2>2. q[k] = NamedNext(h, q[k - 1], p[k]) /\ r[k] = NamedNext(h2, q[k - 1], p[k])
    BY <1>2, <1>3, <1>5 DEF Trail
  <2>3. q[k - 1] \in S \cup {Nowhere}
    BY <1>4, <2>1
  <2>4. Same(h, h2, S, p[k])
    BY <2>1
  <2> HIDE DEF n
  <2> QED BY <2>1, <2>2, <2>3, <2>4, OutwardsSame DEF NamedNext
<1>6. \A k \in 0 .. n : r[k] = q[k]
  <2> DEFINE Bad == {k \in Nat : k <= n /\ r[k] # q[k]}
  <2> SUFFICES ASSUME Bad # {} PROVE FALSE
    BY <1>1
  <2>1. PICK k \in Bad : \A j \in Bad : k <= j
    BY HasLeast
  <2>2. k # 0 /\ k \in 1 .. n
    BY <1>1, <1>2, <1>3, <2>1 DEF Trail
  <2>3. k - 1 \in Nat /\ k - 1 <= n /\ k - 1 \notin Bad
    BY <1>1, <2>1, <2>2
  <2> QED BY <1>5, <2>1, <2>2, <2>3
<1> QED BY <1>1, <1>2, <1>3, <1>6

LEMMA NamedOne ==
  ASSUME NEW h, Forest(h), Grounded(h), NEW s \in Live(h), NEW n
  PROVE  Named(h, s, <<n>>) = Outwards(h, s, n)
<1>1. <<n>> \in Seq({n}) /\ Len(<<n>>) = 1 /\ <<n>>[1] = n
  OBVIOUS
<1>2. PICK q : Trail(h, s, <<n>>, q) /\ Named(h, s, <<n>>) = q[1]
  BY <1>1, NamedIs
<1>3. q[0] = s /\ 1 \in 1 .. 1 /\ q[1] = NamedNext(h, q[1 - 1], n)
  BY <1>1, <1>2 DEF Trail
<1>4. s # Nowhere /\ 1 - 1 = 0
  BY LiveFinite
<1> QED BY <1>2, <1>3, <1>4 DEF NamedNext

-----------------------------------------------------------------------------
(* The scopes of the program.                                              *)

\* What lies in the global scope: all but what is being built
Settled(h) == Within(h, Global)
Rooted(h) == Forest(h) /\ Grounded(h) /\ Global \in Live(h) /\ h[Global].parent = Nowhere

\* What lies in a scope is known by its parents
LEMMA WithinOnly ==
  ASSUME NEW h, Grounded(h), NEW s \in Live(h), NEW W \in SUBSET Live(h), s \in W,
         \A a \in Live(h) : h[a].parent \in W => a \in W,
         \A a \in W : a = s \/ h[a].parent \in W
  PROVE  Within(h, s) = W
<1>1. /\ Within(h, s) \subseteq Live(h) /\ s \in Within(h, s)
      /\ \A a \in Live(h) : h[a].parent \in Within(h, s) => a \in Within(h, s)
      /\ \A a \in Within(h, s) : a = s \/ h[a].parent \in Within(h, s)
  BY WithinIs
<1>2. Within(h, s) \ W = {}
  <2> DEFINE B == Within(h, s) \ W
  <2> SUFFICES ASSUME B # {} PROVE FALSE
    OBVIOUS
  <2>1. B \in SUBSET Live(h)
    BY <1>1
  <2>2. PICK a \in B : h[a].parent \notin B
    BY <2>1 DEF Grounded
  <2> QED BY <1>1, <2>2
<1>3. W \ Within(h, s) = {}
  <2> DEFINE B == W \ Within(h, s)
  <2> SUFFICES ASSUME B # {} PROVE FALSE
    OBVIOUS
  <2>1. B \in SUBSET Live(h)
    OBVIOUS
  <2>2. PICK a \in B : h[a].parent \notin B
    BY <2>1 DEF Grounded
  <2> QED BY <1>1, <2>2
<1> QED BY <1>2, <1>3

LEMMA SettledIs ==
  ASSUME NEW h, Rooted(h)
  PROVE  /\ Settled(h) \subseteq Live(h) /\ Settled(h) \subseteq Addr
         /\ Global \in Settled(h) /\ Nowhere \notin Settled(h)
         /\ \A a \in Live(h) : h[a].parent \in Settled(h) => a \in Settled(h)
         /\ \A a \in Settled(h) : a = Global \/ h[a].parent \in Settled(h)
         /\ \A P : Closed(h, Settled(h), P)
<1>1. /\ Settled(h) \subseteq Live(h) /\ Global \in Settled(h)
      /\ \A a \in Live(h) : h[a].parent \in Settled(h) => a \in Settled(h)
      /\ \A a \in Settled(h) : a = Global \/ h[a].parent \in Settled(h)
  BY WithinIs DEF Settled, Rooted
<1>2. Live(h) \subseteq Addr /\ Nowhere \notin Live(h)
  BY LiveFinite
<1>3. ASSUME NEW P PROVE Closed(h, Settled(h), P)
  <2>1. ASSUME NEW a \in Settled(h), NEW n \in DOMAIN h[a].decls PROVE h[a].decls[n] \in Settled(h)
    BY <1>1, <2>1 DEF Rooted, Forest, Owns
  <2> QED BY <1>1, <2>1 DEF Closed, Rooted
<1> QED BY <1>1, <1>2, <1>3

-----------------------------------------------------------------------------
(* The cache of lookups.                                                   *)

Triples == Addr \X Seq(Names) \X Addr
Caches == [entries : SUBSET Triples, marked : BOOLEAN]
\* What the cache c has of the scopes in S is what they find
Agrees(h, c, S) == \A e \in c.entries : e[1] \in S => e[3] = Named(h, e[1], e[2])
Usable(h, c) == c \in Caches /\ Agrees(h, c, Settled(h))
\* ...or is to be cleared before it is used
Sound(h, c) == c \in Caches /\ (~c.marked => Agrees(h, c, Settled(h)))

LEMMA FreshIs == ASSUME NEW h, NEW c, Sound(h, c) PROVE Usable(h, Fresh(c))
  BY DEF Sound, Usable, Caches, Agrees, Fresh

LEMMA HitIs ==
  ASSUME NEW h, NEW c, Usable(h, c), NEW s, NEW p, Hits(c, s, p) # {}
  PROVE  /\ Hit(c, s, p) \in Addr
         /\ s \in Settled(h) => Hit(c, s, p) = Named(h, s, p)
<1>1. Hit(c, s, p) \in Hits(c, s, p)
  BY DEF Hit
<1>2. PICK e \in c.entries : e[1] = s /\ e[2] = p /\ Hit(c, s, p) = e[3]
  BY <1>1 DEF Hits
<1>3. e \in Triples
  BY DEF Usable, Caches
<1>4. e[3] \in Addr
  BY <1>3 DEF Triples
<1> QED BY <1>2, <1>4 DEF Usable, Agrees

LEMMA RememberIs ==
  ASSUME NEW h, NEW c, Usable(h, c), NEW ss \in SUBSET Addr, NEW p \in Seq(Names), NEW d \in Addr,
         \A s \in ss : s \in Settled(h) => Named(h, s, p) = d
  PROVE  Usable(h, Remember(c, ss, p, d))
<1> DEFINE new == {<<s, p, d>> : s \in ss}
<1>1. c \in Caches /\ Agrees(h, c, Settled(h))
  BY DEF Usable
<1>2. new \in SUBSET Triples
  BY DEF Triples
<1>3. Remember(c, ss, p, d) = [entries |-> c.entries \cup new, marked |-> c.marked]
  <2>1. c = [entries |-> c.entries, marked |-> c.marked]
    BY <1>1 DEF Caches
  <2>2. Remember(c, ss, p, d) = [c EXCEPT !.entries = c.entries \cup new]
    BY DEF Remember
  <2> HIDE DEF new
  <2> QED BY <2>1, <2>2
<1>4. [entries |-> c.entries \cup new, marked |-> c.marked] \in Caches
  BY <1>1, <1>2 DEF Caches
<1>5. \A e \in new : e[1] \in Settled(h) => e[3] = Named(h, e[1], e[2])
  OBVIOUS
<1>6. Agrees(h, [entries |-> c.entries \cup new, marked |-> c.marked], Settled(h))
  BY <1>1, <1>5 DEF Agrees
<1> QED BY <1>3, <1>4, <1>6 DEF Usable

\* The search outwards that stops at what the cache has, and the scopes it passed
LEMMA FindOutwardsIs ==
  ASSUME NEW h, Rooted(h), NEW c, Usable(h, c), NEW s \in Settled(h), NEW n \in Names
  PROVE  /\ FindOutwards(h, c, s, n).decl = Outwards(h, s, n)
         /\ Usable(h, FindOutwards(h, c, s, n).cache)
<1> DEFINE V == [decl : Addr \cup {Nowhere}, passed : SUBSET Live(h)]
           At(a, r) == IF Hits(c, a, <<n>>) # {} THEN [decl |-> Hit(c, a, <<n>>), passed |-> {a}]
                       ELSE IF n \in DOMAIN h[a].decls THEN [decl |-> h[a].decls[n], passed |-> {a}]
                       ELSE [r EXCEPT !.passed = @ \cup {a}]
           T == [x \in Live(h) \X V |-> At(x[1], x[2])]
           b == [decl |-> Nowhere, passed |-> {}]
           Eq(F) == F = [a \in Live(h) \cup {Nowhere} |-> IF a = Nowhere THEN b ELSE At(a, F[h[a].parent])]
           G == CHOOSE F : Eq(F)
           Kept(r) == [decl |-> r.decl, cache |-> IF r.decl = Nowhere THEN c ELSE Remember(c, r.passed, <<n>>, r.decl)]
<1>1. Nowhere \notin Live(h) /\ Live(h) \subseteq Addr
  BY LiveFinite
<1>2. ASSUME NEW a \in Live(h), NEW r \in V PROVE At(a, r) \in V
  <2>1. Hits(c, a, <<n>>) # {} => Hit(c, a, <<n>>) \in Addr
    BY HitIs
  <2>2. n \in DOMAIN h[a].decls => h[a].decls[n] \in Addr
    BY <1>1 DEF Rooted, Forest, Owns
  <2>3. [r EXCEPT !.passed = @ \cup {a}] \in V
    OBVIOUS
  <2> QED BY <2>1, <2>2, <2>3
<1>3. b \in V
  OBVIOUS
<1>4. FindOutwards(h, c, s, n) = Kept(G[s])
  BY DEF FindOutwards, Declares
<1> HIDE DEF V, b, At
<1>5. T \in [Live(h) \X V -> V] /\ \A a \in Live(h), r \in V : T[<<a, r>>] = At(a, r)
  BY <1>2
<1> HIDE DEF T
<1>6. PICK F : Climbs(F, h, Live(h), V, b, T)
  BY <1>3, <1>5, ClimbExists DEF Rooted, Forest
<1>7. Eq(F)
  <2>1. ASSUME NEW a \in Live(h) PROVE F[a] = At(a, F[h[a].parent])
    BY <1>5, <1>6 DEF Climbs, Rooted, Forest, Nested
  <2> QED BY <1>1, <1>6, <2>1 DEF Climbs
<1>8. Eq(G)
  <2> HIDE DEF Eq
  <2> QED BY <1>7
<1> HIDE DEF G
<1>9. G[Nowhere] = b /\ \A a \in Live(h) : G[a] = At(a, G[h[a].parent])
  BY <1>1, <1>8
<1>10. /\ Settled(h) \subseteq Live(h) /\ Settled(h) \subseteq Addr
       /\ \A a \in Settled(h) : h[a].parent \in Settled(h) \cup {Nowhere}
  BY SettledIs DEF Rooted
<1> DEFINE Fine(a) == /\ G[a] \in V /\ G[a].decl = Outwards(h, a, n)
                      /\ G[a].passed \subseteq Settled(h)
                      /\ \A x \in G[a].passed : Outwards(h, x, n) = G[a].decl
<1>11. Outwards(h, Nowhere, n) = Nowhere /\ \A a \in Live(h) :
         Outwards(h, a, n) = IF n \in DOMAIN h[a].decls THEN h[a].decls[n] ELSE Outwards(h, h[a].parent, n)
  BY OutwardsIs DEF Rooted
<1>12. \A a \in Settled(h) : Fine(a)
  <2> DEFINE Bad == {a \in Settled(h) : ~Fine(a)}
  <2> SUFFICES ASSUME Bad # {} PROVE FALSE
    OBVIOUS
  <2>1. Bad \in SUBSET Live(h)
    BY <1>10
  <2>2. PICK a \in Bad : h[a].parent \notin Bad
    BY <2>1 DEF Grounded, Rooted
  <2>3. a \in Settled(h) /\ a \in Live(h) /\ h[a].parent \in Settled(h) \cup {Nowhere}
    BY <1>10, <2>2
  <2>4. Fine(h[a].parent)
    <3>1. CASE h[a].parent = Nowhere
      BY <1>3, <1>9, <1>11, <3>1 DEF b
    <3>2. CASE h[a].parent \in Settled(h)
      BY <2>2, <3>2
    <3> QED BY <2>3, <3>1, <3>2
  <2>5. G[a] = At(a, G[h[a].parent]) /\ G[a] \in V
    BY <1>2, <1>9, <2>3, <2>4
  <2>6. CASE Hits(c, a, <<n>>) # {}
    <3>1. Hit(c, a, <<n>>) = Outwards(h, a, n)
      BY <2>3, <2>6, HitIs, NamedOne DEF Rooted
    <3>2. G[a].decl = Outwards(h, a, n) /\ G[a].passed = {a}
      BY <2>5, <2>6, <3>1 DEF At
    <3> QED BY <2>2, <2>3, <2>5, <3>2
  <2>7. CASE Hits(c, a, <<n>>) = {} /\ n \in DOMAIN h[a].decls
    <3>2. G[a].decl = Outwards(h, a, n) /\ G[a].passed = {a}
      BY <1>11, <2>3, <2>5, <2>7 DEF At
    <3> QED BY <2>2, <2>3, <2>5, <3>2
  <2>8. CASE Hits(c, a, <<n>>) = {} /\ n \notin DOMAIN h[a].decls
    <3>1. G[a] = [G[h[a].parent] EXCEPT !.passed = @ \cup {a}]
      BY <2>5, <2>8 DEF At
    <3>2. G[a].decl = G[h[a].parent].decl /\ G[a].passed = G[h[a].parent].passed \cup {a}
      BY <2>4, <3>1 DEF V
    <3>3. Outwards(h, a, n) = Outwards(h, h[a].parent, n)
      BY <1>11, <2>3, <2>8
    <3> QED BY <2>2, <2>3, <2>4, <2>5, <3>2, <3>3
  <2> QED BY <2>6, <2>7, <2>8
<1>13. Fine(s)
  BY <1>12
<1>14. CASE G[s].decl = Nowhere
  BY <1>4, <1>13, <1>14
<1>15. CASE G[s].decl # Nowhere
  <2>1. G[s].passed \in SUBSET Addr /\ G[s].decl \in Addr
    BY <1>10, <1>13, <1>15 DEF V
  <2>2. \A x \in G[s].passed : Named(h, x, <<n>>) = G[s].decl
    BY <1>10, <1>13, NamedOne DEF Rooted
  <2>3. <<n>> \in Seq(Names)
    OBVIOUS
  <2>4. Usable(h, Remember(c, G[s].passed, <<n>>, G[s].decl))
    BY <2>1, <2>2, <2>3, RememberIs
  <2> QED BY <1>4, <1>13, <1>15, <2>4
<1> QED BY <1>14, <1>15

\* The scopes a lookup may go through, outwards only from those of the program
Reach(h, S, recurse) == S = Settled(h) \/ (S = Live(h) /\ recurse = FALSE)
UsableCaches(h) == {c \in Caches : Agrees(h, c, Settled(h))}
Lookups(h, S) == [decl : S \cup {Nowhere}, cache : UsableCaches(h)]

LEMMA ReachIs ==
  ASSUME NEW h, Rooted(h), NEW S, NEW recurse, Reach(h, S, recurse)
  PROVE  Closed(h, S, Names) /\ S \subseteq Live(h) /\ S \subseteq Addr /\ Settled(h) \subseteq Live(h)
<1>1. Closed(h, Live(h), Names)
  BY DEF Closed, Rooted, Forest, Nested, Owns
<1> QED BY <1>1, SettledIs, LiveFinite DEF Reach

LEMMA FindIdentifierIs ==
  ASSUME NEW h, Rooted(h), NEW recurse, NEW S, Reach(h, S, recurse), NEW c \in UsableCaches(h), NEW s \in S, NEW n \in Names
  PROVE  /\ FindIdentifier(h, c, s, n, recurse) \in Lookups(h, S)
         /\ recurse = TRUE \/ FindIdentifier(h, c, s, n, recurse).decl # Nowhere =>
              FindIdentifier(h, c, s, n, recurse).decl = Outwards(h, s, n)
<1> DEFINE r == FindIdentifier(h, c, s, n, recurse)
<1>0. Usable(h, c) /\ Forest(h) /\ Grounded(h)
  BY DEF UsableCaches, Usable, Rooted
<1>1. s \in Live(h) /\ Closed(h, S, Names)
  BY ReachIs
<1>2. /\ Outwards(h, s, n) = IF n \in DOMAIN h[s].decls THEN h[s].decls[n] ELSE Outwards(h, h[s].parent, n)
      /\ Outwards(h, Nowhere, n) = Nowhere
  BY <1>0, <1>1, OutwardsIs
<1>3. CASE n \in DOMAIN h[s].decls
  <2>1. r = [decl |-> h[s].decls[n], cache |-> c]
    BY <1>3 DEF FindIdentifier, Declares
  <2>2. h[s].decls[n] \in S
    BY <1>1, <1>3 DEF Closed
  <2> QED BY <1>2, <1>3, <2>1, <2>2 DEF Lookups
<1>4. CASE n \notin DOMAIN h[s].decls /\ recurse /\ h[s].parent # Nowhere
  <2>1. S = Settled(h) /\ h[s].parent \in Settled(h)
    BY <1>1, <1>4 DEF Reach, Closed
  <2>2. r = FindOutwards(h, c, h[s].parent, n)
    BY <1>4 DEF FindIdentifier, Declares
  <2>3. r.decl = Outwards(h, h[s].parent, n) /\ Usable(h, r.cache)
    BY <1>0, <2>1, <2>2, FindOutwardsIs
  <2>4. r = [decl |-> r.decl, cache |-> r.cache]
    BY <2>2 DEF FindOutwards
  <2>5. r.decl \in S \cup {Nowhere}
    BY <1>0, <1>1, <2>1, <2>3, OutwardsWithin
  <2> HIDE DEF r
  <2>6. r \in Lookups(h, S)
    BY <2>3, <2>4, <2>5 DEF Lookups, Usable, UsableCaches
  <2> QED BY <1>2, <1>4, <2>3, <2>6 DEF r
<1>5. CASE n \notin DOMAIN h[s].decls /\ ~(recurse /\ h[s].parent # Nowhere)
  <2>1. r = [decl |-> Nowhere, cache |-> c]
    BY <1>5 DEF FindIdentifier, Declares
  <2>2. r \in Lookups(h, S)
    BY <2>1 DEF Lookups
  <2> QED BY <1>2, <1>5, <2>1, <2>2
<1> QED BY <1>3, <1>4, <1>5

LEMMA FindPathIs ==
  ASSUME NEW h, Rooted(h), NEW recurse, NEW S, Reach(h, S, recurse), NEW c \in UsableCaches(h), NEW s \in S,
         NEW p \in Seq(Names)
  PROVE  /\ FindPath(h, c, s, p, recurse) \in [decl : Addr \cup {Nowhere}, cache : UsableCaches(h)]
         /\ s \in Settled(h) /\ (recurse = TRUE \/ FindPath(h, c, s, p, recurse).decl # Nowhere) =>
              FindPath(h, c, s, p, recurse).decl = Named(h, s, p)
<1> DEFINE n == Len(p)
           V == Lookups(h, S)
           b == [decl |-> s, cache |-> c]
           Op(last, m) == IF last.decl = Nowhere THEN last ELSE FindIdentifier(h, last.cache, last.decl, m, recurse)
           T == [x \in V \X (1 .. n) |-> Op(x[1], p[x[2]])]
           Eq(f) == f = [P \in SUBSET (DOMAIN p) |-> IF P = {} THEN b ELSE Op(f[P \ {Max(P)}], p[Max(P)])]
           f == CHOOSE g : Eq(g)
           Kept(r) == IF r.decl = Nowhere THEN r ELSE [r EXCEPT !.cache = Remember(@, {s}, p, r.decl)]
<1>0. Forest(h) /\ Grounded(h) /\ Usable(h, c) /\ S \subseteq Addr /\ s \in Live(h) /\ Closed(h, S, Names)
  BY ReachIs DEF Rooted, UsableCaches, Usable
<1>1. n \in Nat /\ DOMAIN p = 1 .. n /\ \A k \in 1 .. n : p[k] \in Names
  OBVIOUS
<1>2. b \in V
  BY DEF Lookups
<1>3. ASSUME NEW r \in V, NEW m \in Names PROVE Op(r, m) \in V
  <2>1. CASE r.decl = Nowhere
    BY <2>1
  <2>2. CASE r.decl # Nowhere
    <3>1. r.decl \in S /\ r.cache \in UsableCaches(h)
      BY <2>2 DEF Lookups
    <3> QED BY <2>2, <3>1, FindIdentifierIs
  <2> QED BY <2>1, <2>2
<1>4. Hits(c, s, p) = {} => FindPath(h, c, s, p, recurse) = Kept(f[DOMAIN p])
  BY DEF FindPath, FoldLeft, MapThenFoldSet
<1> HIDE DEF n, V, b, Op
<1>5. T \in [V \X (1 .. n) -> V] /\ \A r \in V, k \in 1 .. n : T[<<r, k>>] = Op(r, p[k])
  BY <1>1, <1>3
<1> HIDE DEF T
<1>6. ToFold(n, V, b, T)
  BY <1>1, <1>2, <1>5 DEF ToFold
<1>7. \E F : Eq(F)
  <2>1. PICK F : Folds(F, n, V, b, T)
    BY <1>6, FoldExists
  <2>2. ASSUME NEW P \in SUBSET (1 .. n), P # {} PROVE F[P] = Op(F[P \ {Max(P)}], p[Max(P)])
    <3>1. Max(P) \in 1 .. n /\ F[P \ {Max(P)}] \in V
      BY <1>1, <2>1, <2>2, MaxIs DEF Folds
    <3> QED BY <1>5, <2>1, <2>2, <3>1 DEF Folds, FoldStep
  <2>3. F[{}] = b
    BY <2>1 DEF Folds, FoldStep
  <2> QED BY <1>1, <2>1, <2>2, <2>3 DEF Folds
<1>8. Eq(f)
  <2> HIDE DEF Eq
  <2> QED BY <1>7
<1> HIDE DEF f
<1>9. Folding(f, n, V, b, T)
  <2>1. ASSUME NEW P \in SUBSET (1 .. n), P # {}, f[P \ {Max(P)}] \in V
        PROVE  f[P] = T[<<f[P \ {Max(P)}], Max(P)>>]
    <3>1. Max(P) \in 1 .. n
      BY <1>1, <2>1, MaxIs
    <3>2. f[P] = Op(f[P \ {Max(P)}], p[Max(P)])
      BY <1>1, <1>8, <2>1
    <3> QED BY <1>5, <2>1, <3>1, <3>2
  <2>2. f[{}] = b
    BY <1>8
  <2> QED BY <2>1, <2>2 DEF Folding
<1>10. PICK q : Iterates(q, n, V, b, T) /\ q[n] = f[DOMAIN p]
  BY <1>1, <1>6, <1>9, FoldValues
<1>11. \A k \in 1 .. n : q[k] = Op(q[k - 1], p[k])
  <2> SUFFICES ASSUME NEW k \in 1 .. n PROVE q[k] = Op(q[k - 1], p[k])
    OBVIOUS
  <2>1. k - 1 \in 0 .. n
    BY <1>1
  <2> QED BY <1>5, <1>10, <2>1 DEF Iterates
<1>12. PICK t : Trail(h, s, p, t) /\ Named(h, s, p) = t[n]
  BY <1>0, NamedIs DEF n
<1> DEFINE Right(k) == recurse = TRUE \/ q[k].decl # Nowhere => q[k].decl = t[k]
<1>13. Right(n) /\ q[n] \in V
  <2>0. n \in 0 .. n /\ \A k \in 0 .. n : q[k] \in V
    BY <1>1, <1>10 DEF Iterates
  <2> DEFINE Bad == {k \in Nat : k <= n /\ ~Right(k)}
  <2> HIDE DEF Right
  <2> SUFFICES ASSUME Bad # {} PROVE FALSE
    BY <1>1, <2>0
  <2> USE DEF Right
  <2>1. PICK k \in Bad : \A j \in Bad : k <= j
    BY HasLeast
  <2>2. q[0].decl = t[0]
    BY <1>10, <1>12 DEF Iterates, Trail, b
  <2>3. k # 0 /\ k \in 1 .. n /\ k - 1 \in 0 .. n
    BY <1>1, <2>1, <2>2
  <2>4. k - 1 \notin Bad
    BY <2>1, <2>3
  <2>5. Right(k - 1)
    BY <2>3, <2>4
  <2>6. q[k] = Op(q[k - 1], p[k]) /\ t[k] = NamedNext(h, t[k - 1], p[k]) /\ p[k] \in Names /\ q[k - 1] \in V
    BY <1>1, <1>11, <1>12, <2>0, <2>3 DEF Trail, n
  <2>7. CASE q[k - 1].decl = Nowhere
    BY <2>1, <2>5, <2>6, <2>7 DEF Op, NamedNext
  <2>8. CASE q[k - 1].decl # Nowhere
    <3>1. q[k - 1].decl \in S /\ q[k - 1].cache \in UsableCaches(h)
      BY <2>6, <2>8 DEF V, Lookups
    <3>2. q[k] = FindIdentifier(h, q[k - 1].cache, q[k - 1].decl, p[k], recurse)
      BY <2>6, <2>8 DEF Op
    <3>3. \A d \in S, e \in UsableCaches(h), m \in Names :
            recurse = TRUE \/ FindIdentifier(h, e, d, m, recurse).decl # Nowhere =>
              FindIdentifier(h, e, d, m, recurse).decl = Outwards(h, d, m)
      BY FindIdentifierIs, ZenonT(30)
    <3>4. recurse = TRUE \/ q[k].decl # Nowhere => q[k].decl = Outwards(h, q[k - 1].decl, p[k])
      BY <2>6, <3>1, <3>2, <3>3
    <3> QED BY <2>1, <2>5, <2>6, <2>8, <3>4 DEF NamedNext
  <2> QED BY <2>7, <2>8
<1>14. CASE Hits(c, s, p) # {}
  <2>1. FindPath(h, c, s, p, recurse) = [decl |-> Hit(c, s, p), cache |-> c]
    BY <1>14 DEF FindPath
  <2> QED BY <1>0, <1>14, <2>1, HitIs
<1>15. CASE Hits(c, s, p) = {}
  <2>1. FindPath(h, c, s, p, recurse) = Kept(q[n])
    BY <1>4, <1>10, <1>15
  <2>2. /\ q[n] = [decl |-> q[n].decl, cache |-> q[n].cache] /\ q[n].decl \in Addr \cup {Nowhere}
        /\ q[n].cache \in UsableCaches(h)
    BY <1>0, <1>13 DEF V, Lookups
  <2>3. CASE q[n].decl = Nowhere
    BY <1>12, <1>13, <2>1, <2>2, <2>3
  <2>4. CASE q[n].decl # Nowhere
    <3>1. q[n].decl \in Addr /\ Named(h, s, p) = q[n].decl /\ {s} \in SUBSET Addr
      BY <1>0, <1>12, <1>13, <2>2, <2>4
    <3>2. Usable(h, q[n].cache)
      BY <2>2 DEF Usable, UsableCaches
    <3>3. Usable(h, Remember(q[n].cache, {s}, p, q[n].decl))
      BY <3>1, <3>2, RememberIs
    <3>4. Kept(q[n]) = [decl |-> q[n].decl, cache |-> Remember(q[n].cache, {s}, p, q[n].decl)]
      BY <2>2, <2>4
    <3>5. Remember(q[n].cache, {s}, p, q[n].decl) \in UsableCaches(h)
      BY <3>3 DEF Usable, UsableCaches
    <3> HIDE DEF Kept
    <3> QED BY <2>1, <3>1, <3>4, <3>5
  <2> QED BY <2>3, <2>4
<1> QED BY <1>14, <1>15

SoundCaches(h) == {c \in Caches : Sound(h, c)}
\* What may be compiled
ToCompile(h) == {d \in Settled(h) : Declared(h, d)}

LEMMA FindIs ==
  ASSUME NEW h, Rooted(h), NEW c \in SoundCaches(h), NEW s \in Live(h), NEW p \in Seq(Names),
         NEW recurse \in BOOLEAN, recurse = TRUE => s \in Settled(h)
  PROVE  /\ Find(h, c, s, p, recurse) \in [decl : Addr \cup {Nowhere}, cache : SoundCaches(h)]
         /\ s \in Settled(h) =>
              /\ Find(h, c, s, p, recurse).decl \in Settled(h) \cup {Nowhere}
              /\ recurse = TRUE \/ Find(h, c, s, p, recurse).decl # Nowhere =>
                   Find(h, c, s, p, recurse).decl = Named(h, s, p)
              /\ p # <<>> => Find(h, c, s, p, recurse).decl \in ToCompile(h) \cup {Nowhere}
<1> DEFINE r == Find(h, c, s, p, recurse)
<1>1. Usable(h, Fresh(c)) /\ Fresh(c) \in UsableCaches(h)
  BY FreshIs DEF SoundCaches, UsableCaches, Usable
<1>2. UsableCaches(h) \subseteq SoundCaches(h)
  BY DEF UsableCaches, SoundCaches, Sound
<1>3. PICK S : s \in S /\ Reach(h, S, recurse)
  <2>1. CASE recurse = TRUE
    BY <2>1 DEF Reach
  <2>2. CASE recurse = FALSE
    BY <2>2 DEF Reach
  <2> QED BY <2>1, <2>2
<1>4. /\ r \in [decl : Addr \cup {Nowhere}, cache : UsableCaches(h)]
      /\ s \in Settled(h) /\ (recurse = TRUE \/ r.decl # Nowhere) => r.decl = Named(h, s, p)
  <2>1. r = FindPath(h, Fresh(c), s, p, recurse)
    BY DEF Find
  <2> HIDE DEF r
  <2>2. \A e \in UsableCaches(h) :
          /\ FindPath(h, e, s, p, recurse) \in [decl : Addr \cup {Nowhere}, cache : UsableCaches(h)]
          /\ s \in Settled(h) /\ (recurse = TRUE \/ FindPath(h, e, s, p, recurse).decl # Nowhere) =>
               FindPath(h, e, s, p, recurse).decl = Named(h, s, p)
    BY <1>3, FindPathIs
  <2> QED BY <1>1, <2>1, <2>2
<1>5. ASSUME s \in Settled(h)
      PROVE  /\ Named(h, s, p) \in Settled(h) \cup {Nowhere}
             /\ p # <<>> /\ Named(h, s, p) # Nowhere => Declared(h, Named(h, s, p))
  <2>1. Closed(h, Settled(h), Names)
    BY SettledIs
  <2> QED BY <1>5, <2>1, NamedWithin DEF Rooted
<1> HIDE DEF r
<1>6. s \in Settled(h) => /\ r.decl \in Settled(h) \cup {Nowhere}
                          /\ p # <<>> => r.decl \in ToCompile(h) \cup {Nowhere}
  BY <1>4, <1>5 DEF ToCompile
<1> QED BY <1>2, <1>4, <1>6 DEF r

-----------------------------------------------------------------------------
(* What a declaration is built from.                                       *)

Written(src) ==
  /\ src.kind # "scope"
  /\ src.inner \in Seq(Declarations) /\ src.params \in Seq(Port) /\ src.out \in Seq(Identifiers) /\ src.uses \in Uses
\* ...and what another scope is
Unwritten(src) == src.kind = "scope" /\ src.inner \in Seq(Declarations)
Sourced(h) ==
  \A a \in Live(h) : /\ Written(h[a].src) \/ Unwritten(h[a].src)
                     /\ Declared(h, a) => Written(h[a].src)

LEMMA NamesAre == /\ \A n \in Names : <<n>> \in Seq(Names) /\ <<n>> # <<>>
                  /\ Seq(Identifiers) \subseteq Seq(Names) /\ Identifiers \subseteq Names
  BY DEF Identifiers

LEMMA AnnotationsAre ==
  ASSUME NEW src, Written(src)
  PROVE  Annotations(src) \in Seq(Seq(Identifiers) \ {<<>>})
<1> DEFINE p == [k \in DOMAIN src.params |-> src.params[k].type] \o <<src.out>>
           n == Len(p)
           V == Seq(Seq(Identifiers) \ {<<>>})
           b == <<>>
           Op(paths, t) == IF t = <<>> THEN paths ELSE Append(paths, t)
           T == [x \in V \X (1 .. n) |-> Op(x[1], p[x[2]])]
           Eq(f) == f = [P \in SUBSET (DOMAIN p) |-> IF P = {} THEN b ELSE Op(f[P \ {Max(P)}], p[Max(P)])]
           f == CHOOSE g : Eq(g)
<1>0. p \in Seq(Seq(Identifiers))
  <2>1. src.params \in Seq(Port) /\ src.out \in Seq(Identifiers)
    BY DEF Written
  <2>2. \A k \in DOMAIN src.params : src.params[k].type \in Seq(Identifiers)
    <3> SUFFICES ASSUME NEW k \in DOMAIN src.params PROVE src.params[k].type \in Seq(Identifiers)
      OBVIOUS
    <3>1. src.params[k] \in Port
      BY <2>1
    <3> QED BY <3>1 DEF Port
  <2> DEFINE ts == [k \in DOMAIN src.params |-> src.params[k].type]
  <2>3. ts \in Seq(Seq(Identifiers)) 
    BY <2>1, <2>2
  <2> HIDE DEF ts
  <2>4. ts \o <<src.out>> \in Seq(Seq(Identifiers))
    BY <2>1, <2>3
  <2> QED BY <2>4 DEF ts
<1> HIDE DEF p
<1>1. n \in Nat /\ DOMAIN p = 1 .. n
  BY <1>0
<1>2. b \in V
  OBVIOUS
<1>3. ASSUME NEW r \in V, NEW k \in 1 .. n PROVE Op(r, p[k]) \in V
  <2>1. p[k] \in Seq(Identifiers)
    BY <1>0, <1>1
  <2>2. CASE p[k] = <<>>
    BY <2>2
  <2>3. CASE p[k] # <<>>
    <3>1. p[k] \in Seq(Identifiers) \ {<<>>}
      BY <2>1, <2>3
    <3> HIDE DEF p
    <3>2. Append(r, p[k]) \in V
      BY <3>1
    <3> QED BY <2>3, <3>2
  <2> QED BY <2>2, <2>3
<1>4. Annotations(src) = f[DOMAIN p]
  BY DEF p, Annotations, FoldLeft, MapThenFoldSet
<1> HIDE DEF n, V, b, Op
<1>5. T \in [V \X (1 .. n) -> V] /\ \A r \in V, k \in 1 .. n : T[<<r, k>>] = Op(r, p[k])
  BY <1>1, <1>3
<1> HIDE DEF T
<1>6. ToFold(n, V, b, T)
  BY <1>1, <1>2, <1>5 DEF ToFold
<1>7. \E F : Eq(F)
  <2>1. PICK F : Folds(F, n, V, b, T)
    BY <1>6, FoldExists
  <2>2. ASSUME NEW P \in SUBSET (1 .. n), P # {} PROVE F[P] = Op(F[P \ {Max(P)}], p[Max(P)])
    <3>1. Max(P) \in 1 .. n /\ F[P \ {Max(P)}] \in V
      BY <1>1, <2>1, <2>2, MaxIs DEF Folds
    <3> QED BY <1>5, <2>1, <2>2, <3>1 DEF Folds, FoldStep
  <2>3. F[{}] = b
    BY <2>1 DEF Folds, FoldStep
  <2> QED BY <1>1, <2>1, <2>2, <2>3 DEF Folds
<1>8. Eq(f)
  <2> HIDE DEF Eq
  <2> QED BY <1>7
<1> HIDE DEF f
<1>9. Folding(f, n, V, b, T)
  <2>1. ASSUME NEW P \in SUBSET (1 .. n), P # {}, f[P \ {Max(P)}] \in V
        PROVE  f[P] = T[<<f[P \ {Max(P)}], Max(P)>>]
    <3>1. Max(P) \in 1 .. n
      BY <1>1, <2>1, MaxIs
    <3>2. f[P] = Op(f[P \ {Max(P)}], p[Max(P)])
      BY <1>1, <1>8, <2>1
    <3> QED BY <1>5, <2>1, <3>1, <3>2
  <2>2. f[{}] = b
    BY <1>8
  <2> QED BY <2>1, <2>2 DEF Folding
<1>10. PICK q : Iterates(q, n, V, b, T) /\ q[n] = f[DOMAIN p]
  BY <1>1, <1>6, <1>9, FoldValues
<1>12. f[DOMAIN p] \in V
  <2>1. n \in 0 .. n
    BY <1>1
  <2> QED BY <1>10, <2>1 DEF Iterates
<1> QED BY <1>4, <1>12 DEF V

-----------------------------------------------------------------------------
(* The lookups of building and of compiling.                               *)

LEMMA CheckPortsIs ==
  ASSUME Rooted(heap), NEW d \in Live(heap), Written(heap[d].src), NEW ret, NEW c \in SoundCaches(heap)
  PROVE  CheckPorts(d, ret, c).cache \in SoundCaches(heap)
<1> DEFINE ps == heap[d].src.params
           n == Len(ps)
           p == [k \in DOMAIN ps |-> k]
           V == [ret : {ret, "DEFAULT_ARGUMENT_NOT_AT_END", "MULTIPLE_DEFINITIONS"}, cache : SoundCaches(heap)]
           b == [ret |-> ret, cache |-> c]
           Late(k) == ~ps[k].default /\ \E i \in 1..(k - 1) : ps[i].default
           Verdict(last, k, r) ==
             [ret |-> IF Late(k) THEN "DEFAULT_ARGUMENT_NOT_AT_END"
                      ELSE IF r.decl # Nowhere THEN "MULTIPLE_DEFINITIONS" ELSE last.ret,
              cache |-> r.cache]
           Op(last, k) == Verdict(last, k, Find(heap, last.cache, d, <<ps[k].name>>, FALSE))
           T == [x \in V \X (1 .. n) |-> Op(x[1], p[x[2]])]
           Eq(f) == f = [P \in SUBSET (DOMAIN p) |-> IF P = {} THEN b ELSE Op(f[P \ {Max(P)}], p[Max(P)])]
           f == CHOOSE g : Eq(g)
<1>0. ps \in Seq(Port)
  BY DEF Written
<1>1. n \in Nat /\ DOMAIN p = 1 .. n
  BY <1>0
<1>2. b \in V
  OBVIOUS
<1>3. ASSUME NEW r \in V, NEW k \in 1 .. n PROVE Op(r, p[k]) \in V
  <2>0. k \in 1 .. n /\ p[k] = k
    BY <1>0
  <2>1. ps[k] \in Port
    BY <1>0, <2>0
  <2>2. <<ps[k].name>> \in Seq(Names)
    BY <2>1 DEF Port
  <2>3. r.cache \in SoundCaches(heap) /\ r.ret \in {ret, "DEFAULT_ARGUMENT_NOT_AT_END", "MULTIPLE_DEFINITIONS"}
    OBVIOUS
  <2> DEFINE found == Find(heap, r.cache, d, <<ps[k].name>>, FALSE)
  <2>4. found.cache \in SoundCaches(heap)
    <3> HIDE DEF ps, n, p, V
    <3> QED BY <2>2, <2>3, FindIs
  <2>5. Op(r, p[k]) = Verdict(r, k, found)
    BY <2>0
  <2> HIDE DEF found, Late, ps, p, n, Op
  <2>6. Verdict(r, k, found) \in V
    BY <2>3, <2>4
  <2> QED BY <2>5, <2>6
<1>4. CheckPorts(d, ret, c) = f[DOMAIN p]
  BY DEF CheckPorts, FoldLeft, MapThenFoldSet
<1> HIDE DEF n, V, b, Op, p, ps
<1>5. T \in [V \X (1 .. n) -> V] /\ \A r \in V, k \in 1 .. n : T[<<r, k>>] = Op(r, p[k])
  BY <1>1, <1>3
<1> HIDE DEF T
<1>6. ToFold(n, V, b, T)
  BY <1>1, <1>2, <1>5 DEF ToFold
<1>7. \E F : Eq(F)
  <2>1. PICK F : Folds(F, n, V, b, T)
    BY <1>6, FoldExists
  <2>2. ASSUME NEW P \in SUBSET (1 .. n), P # {} PROVE F[P] = Op(F[P \ {Max(P)}], p[Max(P)])
    <3>1. Max(P) \in 1 .. n /\ F[P \ {Max(P)}] \in V
      BY <1>1, <2>1, <2>2, MaxIs DEF Folds
    <3> QED BY <1>5, <2>1, <2>2, <3>1 DEF Folds, FoldStep
  <2>3. F[{}] = b
    BY <2>1 DEF Folds, FoldStep
  <2> QED BY <1>1, <2>1, <2>2, <2>3 DEF Folds
<1>8. Eq(f)
  <2> HIDE DEF Eq
  <2> QED BY <1>7
<1> HIDE DEF f
<1>9. Folding(f, n, V, b, T)
  <2>1. ASSUME NEW P \in SUBSET (1 .. n), P # {}, f[P \ {Max(P)}] \in V
        PROVE  f[P] = T[<<f[P \ {Max(P)}], Max(P)>>]
    <3>1. Max(P) \in 1 .. n
      BY <1>1, <2>1, MaxIs
    <3>2. f[P] = Op(f[P \ {Max(P)}], p[Max(P)])
      BY <1>1, <1>8, <2>1
    <3> QED BY <1>5, <2>1, <3>1, <3>2
  <2>2. f[{}] = b
    BY <1>8
  <2> QED BY <2>1, <2>2 DEF Folding
<1>10. PICK q : Iterates(q, n, V, b, T) /\ q[n] = f[DOMAIN p]
  BY <1>1, <1>6, <1>9, FoldValues
<1>12. f[DOMAIN p] \in V
  <2>1. n \in 0 .. n
    BY <1>1
  <2> QED BY <1>10, <2>1 DEF Iterates
<1> QED BY <1>4, <1>12 DEF V

LEMMA FinishIs ==
  ASSUME Rooted(heap), NEW d \in Live(heap), Written(heap[d].src), NEW ret, cache \in SoundCaches(heap)
  PROVE  Finish(d, ret).cache \in SoundCaches(heap)
<1>1. <<"return">> \in Seq(Names)
  BY DeclarationsAssumption
<1>2. Find(heap, cache, d, <<"return">>, FALSE).cache \in SoundCaches(heap)
  BY <1>1, FindIs
<1>3. ASSUME NEW c \in SoundCaches(heap) PROVE CheckPorts(d, ret, c).cache \in SoundCaches(heap)
  BY CheckPortsIs
<1>4. FinishScope(d, ret, Find(heap, cache, d, <<"return">>, FALSE)).cache \in SoundCaches(heap)
  BY <1>2, <1>3 DEF FinishScope
<1> QED BY <1>3, <1>4 DEF Finish

\* Every type that the ports of a declaration name is found where it is, and is a type
TypesFound(h, d) ==
  \A k \in DOMAIN Annotations(h[d].src) :
    /\ Named(h, d, Annotations(h[d].src)[k]) \in Settled(h)
    /\ h[Named(h, d, Annotations(h[d].src)[k])].src.kind \in {"struct", "constraint"}

LEMMA ValidatePortsIs ==
  ASSUME Rooted(heap), NEW d \in Settled(heap), Written(heap[d].src), NEW c \in SoundCaches(heap)
  PROVE  /\ ValidatePorts(d, c) \in [ports : {"valid", "invalid"}, cache : SoundCaches(heap), types : Seq(ToCompile(heap))]
         /\ ValidatePorts(d, c).ports = "valid" => TypesFound(heap, d)
<1> DEFINE p == Annotations(heap[d].src)
           n == Len(p)
           V == [ports : {"valid", "invalid"}, cache : SoundCaches(heap), types : Seq(ToCompile(heap))]
           b == Unvalidated(c)
           Op(last, t) == Validation(last.ports, Find(heap, last.cache, d, t, TRUE), last.types)
           T == [x \in V \X (1 .. n) |-> Op(x[1], p[x[2]])]
           Eq(f) == f = [P \in SUBSET (DOMAIN p) |-> IF P = {} THEN b ELSE Op(f[P \ {Max(P)}], p[Max(P)])]
           f == CHOOSE g : Eq(g)
<1>0. p \in Seq(Seq(Identifiers) \ {<<>>}) /\ d \in Live(heap)
  BY AnnotationsAre, SettledIs
<1>20. \A t \in Seq(Identifiers) \ {<<>>} : t \in Seq(Names) /\ t # <<>>
  BY NamesAre
<1>21. ASSUME NEW e \in SoundCaches(heap), NEW t \in Seq(Names)
       PROVE  /\ Find(heap, e, d, t, TRUE).decl = Named(heap, d, t)
              /\ Find(heap, e, d, t, TRUE).decl \in Settled(heap) \cup {Nowhere}
  BY <1>0, FindIs
<1>1. n \in Nat /\ DOMAIN p = 1 .. n
  BY <1>0
<1>2. b \in V
  BY DEF Unvalidated
<1>3. ASSUME NEW r \in V, NEW k \in 1 .. n PROVE Op(r, p[k]) \in V
  <2>1. p[k] \in Seq(Names) /\ p[k] # <<>>
    BY <1>0, <1>20
  <2>2. r.cache \in SoundCaches(heap) /\ r.ports \in {"valid", "invalid"} /\ r.types \in Seq(ToCompile(heap))
    OBVIOUS
  <2> DEFINE found == Find(heap, r.cache, d, p[k], TRUE)
  <2> HIDE DEF p
  <2>3. found.cache \in SoundCaches(heap) /\ found.decl \in ToCompile(heap) \cup {Nowhere}
    BY <1>0, <2>1, <2>2, FindIs
  <2> HIDE DEF found
  <2>4. found.decl # Nowhere => Append(r.types, found.decl) \in Seq(ToCompile(heap))
    BY <2>2, <2>3
  <2>5. Validation(r.ports, found, r.types) \in V
    BY <2>2, <2>3, <2>4 DEF Validation
  <2> QED BY <2>5 DEF found
<1>4. ValidatePorts(d, c) = f[DOMAIN p]
  BY DEF ValidatePorts, FoldLeft, MapThenFoldSet
<1> HIDE DEF n, V, b, Op, p
<1>5. T \in [V \X (1 .. n) -> V] /\ \A r \in V, k \in 1 .. n : T[<<r, k>>] = Op(r, p[k])
  BY <1>1, <1>3
<1> HIDE DEF T
<1>6. ToFold(n, V, b, T)
  BY <1>1, <1>2, <1>5 DEF ToFold
<1>7. \E F : Eq(F)
  <2>1. PICK F : Folds(F, n, V, b, T)
    BY <1>6, FoldExists
  <2>2. ASSUME NEW P \in SUBSET (1 .. n), P # {} PROVE F[P] = Op(F[P \ {Max(P)}], p[Max(P)])
    <3>1. Max(P) \in 1 .. n /\ F[P \ {Max(P)}] \in V
      BY <1>1, <2>1, <2>2, MaxIs DEF Folds
    <3> QED BY <1>5, <2>1, <2>2, <3>1 DEF Folds, FoldStep
  <2>3. F[{}] = b
    BY <2>1 DEF Folds, FoldStep
  <2> QED BY <1>1, <2>1, <2>2, <2>3 DEF Folds
<1>8. Eq(f)
  <2> HIDE DEF Eq
  <2> QED BY <1>7
<1> HIDE DEF f
<1>9. Folding(f, n, V, b, T)
  <2>1. ASSUME NEW P \in SUBSET (1 .. n), P # {}, f[P \ {Max(P)}] \in V
        PROVE  f[P] = T[<<f[P \ {Max(P)}], Max(P)>>]
    <3>1. Max(P) \in 1 .. n
      BY <1>1, <2>1, MaxIs
    <3>2. f[P] = Op(f[P \ {Max(P)}], p[Max(P)])
      BY <1>1, <1>8, <2>1
    <3> QED BY <1>5, <2>1, <3>1, <3>2
  <2>2. f[{}] = b
    BY <1>8
  <2> QED BY <2>1, <2>2 DEF Folding
<1>10. PICK q : Iterates(q, n, V, b, T) /\ q[n] = f[DOMAIN p]
  BY <1>1, <1>6, <1>9, FoldValues
<1>11. \A k \in 1 .. n : q[k] = Op(q[k - 1], p[k])
  <2> SUFFICES ASSUME NEW k \in 1 .. n PROVE q[k] = Op(q[k - 1], p[k])
    OBVIOUS
  <2>1. k - 1 \in 0 .. n
    BY <1>1
  <2> QED BY <1>5, <1>10, <2>1 DEF Iterates
<1> DEFINE Found(k) == LET t == Named(heap, d, p[k]) IN t \in Settled(heap) /\ heap[t].src.kind \in {"struct", "constraint"}
           Good(k) == q[k].ports = "valid" => \A j \in 1 .. k : Found(j)
<1>12. Good(n) /\ q[n] \in V
  <2>0. n \in 0 .. n /\ \A k \in 0 .. n : q[k] \in V
    BY <1>1, <1>10 DEF Iterates
  <2> DEFINE Bad == {k \in Nat : k <= n /\ ~Good(k)}
  <2> HIDE DEF Good
  <2> SUFFICES ASSUME Bad # {} PROVE FALSE
    BY <1>1, <2>0
  <2> USE DEF Good
  <2>1. PICK k \in Bad : \A j \in Bad : k <= j
    BY HasLeast
  <2>2. k # 0 /\ k \in 1 .. n /\ k - 1 \in 0 .. n
    BY <1>1, <2>1
  <2>3. k - 1 \notin Bad
    BY <2>1, <2>2
  <2>4. Good(k - 1)
    <3> HIDE DEF Good
    <3> QED BY <2>2, <2>3
  <2> DEFINE found == Find(heap, q[k - 1].cache, d, p[k], TRUE)
  <2>5. q[k] = Validation(q[k - 1].ports, found, q[k - 1].types)
    BY <1>11, <2>2 DEF Op
  <2>6. p[k] \in Seq(Names) /\ q[k - 1].cache \in SoundCaches(heap)
    <3>1. p[k] \in Seq(Identifiers) \ {<<>>}
      BY <1>0, <1>1, <2>2
    <3>2. q[k - 1] \in V
      BY <2>0, <2>2
    <3>3. q[k - 1].cache \in SoundCaches(heap)
      BY <3>2 DEF V
    <3> QED BY <1>20, <3>1, <3>3
  <2>7. found.decl = Named(heap, d, p[k]) /\ found.decl \in Settled(heap) \cup {Nowhere}
    BY <1>21, <2>6
  <2>8. q[k].ports = "valid"
    BY <2>1
  <2> HIDE DEF found
  <2>9. found.decl # Nowhere /\ heap[found.decl].src.kind \in {"struct", "constraint"} /\ q[k - 1].ports = "valid"
    BY <2>5, <2>8 DEF Validation, IsType
  <2>10. Found(k) /\ \A j \in 1 .. (k - 1) : Found(j)
    BY <2>4, <2>7, <2>9
  <2> HIDE DEF Found
  <2>11. \A j \in 1 .. k : j = k \/ j \in 1 .. (k - 1)
    BY <2>2
  <2> QED BY <2>1, <2>10, <2>11
<1>13. ValidatePorts(d, c) = q[n]
  BY <1>4, <1>10
<1>14. q[n].ports = "valid" => TypesFound(heap, d)
  BY <1>1, <1>12 DEF TypesFound, p
<1> QED BY <1>12, <1>13, <1>14 DEF V

LEMMA ValidatedIs ==
  ASSUME Rooted(heap), NEW d \in Settled(heap), Written(heap[d].src), NEW c \in SoundCaches(heap)
  PROVE  /\ Validated(d, c).cache \in SoundCaches(heap)
         /\ heap[d].src.kind = "function" /\ Validated(d, c).ports = "valid" /\ heap[d].ports # "valid" => TypesFound(heap, d)
<1>1. ValidatePorts(d, c).cache \in SoundCaches(heap) /\ (ValidatePorts(d, c).ports = "valid" => TypesFound(heap, d))
  BY ValidatePortsIs
<1>2. Unvalidated(c).cache = c /\ [Unvalidated(c) EXCEPT !.ports = heap[d].ports].cache = c
      /\ [Unvalidated(c) EXCEPT !.ports = heap[d].ports].ports = heap[d].ports
  BY DEF Unvalidated
<1> QED BY <1>1, <1>2 DEF Validated

LEMMA ChainIs ==
  ASSUME NEW h, Rooted(h), NEW s \in Settled(h)
  PROVE  Chain(h, s) \in Seq(Settled(h))
<1> DEFINE V == Seq(Live(h))
           T == [x \in Live(h) \X V |-> <<x[1]>> \o x[2]]
           Eq(F) == F = [a \in Live(h) \cup {Nowhere} |-> IF a = Nowhere THEN <<>> ELSE <<a>> \o F[h[a].parent]]
           G == CHOOSE F : Eq(F)
<1>1. Nowhere \notin Live(h)
  BY LiveFinite
<1>2. T \in [Live(h) \X V -> V] /\ <<>> \in V
  OBVIOUS
<1>3. PICK F : Climbs(F, h, Live(h), V, <<>>, T)
  BY <1>2, ClimbExists DEF Rooted, Forest
<1>4. Eq(F)
  <2>1. ASSUME NEW a \in Live(h) PROVE F[a] = <<a>> \o F[h[a].parent]
    <3>1. F[a] = T[<<a, F[h[a].parent]>>] /\ F[h[a].parent] \in V
      BY <1>3 DEF Climbs, Rooted, Forest, Nested
    <3>2. <<a, F[h[a].parent]>> \in Live(h) \X V
      BY <3>1
    <3> QED BY <3>1, <3>2
  <2>2. F = [a \in Live(h) \cup {Nowhere} |-> F[a]] /\ F[Nowhere] = <<>>
    BY <1>3 DEF Climbs
  <2> QED BY <1>1, <2>1, <2>2
<1>5. Eq(G)
  <2> HIDE DEF Eq
  <2> QED BY <1>4
<1>6. Chain(h, s) = G[s]
  BY DEF Chain
<1> HIDE DEF G, T
<1>7. G[Nowhere] = <<>> /\ \A a \in Live(h) : G[a] = <<a>> \o G[h[a].parent]
  BY <1>1, <1>5
<1>8. Settled(h) \subseteq Live(h) /\ \A a \in Settled(h) : h[a].parent \in Settled(h) \cup {Nowhere}
  BY SettledIs DEF Rooted
<1>9. \A a \in Settled(h) : G[a] \in Seq(Settled(h))
  <2> DEFINE Bad == {a \in Settled(h) : G[a] \notin Seq(Settled(h))}
  <2> SUFFICES ASSUME Bad # {} PROVE FALSE
    OBVIOUS
  <2>1. Bad \in SUBSET Live(h)
    BY <1>8
  <2>2. PICK a \in Bad : h[a].parent \notin Bad
    BY <2>1 DEF Grounded, Rooted
  <2>3. G[h[a].parent] \in Seq(Settled(h))
    <3>1. CASE h[a].parent = Nowhere
      <4>1. <<>> \in Seq(Settled(h))
        OBVIOUS
      <4> QED BY <1>7, <3>1, <4>1
    <3>2. CASE h[a].parent \in Settled(h)
      BY <2>2, <3>2
    <3> QED BY <1>8, <2>2, <3>1, <3>2
  <2>4. G[a] = <<a>> \o G[h[a].parent] /\ <<a>> \in Seq(Settled(h))
    <3>1. a \in Live(h) /\ a \in Settled(h)
      BY <1>8, <2>2
    <3>2. <<a>> \in Seq(Settled(h))
      BY <3>1
    <3> QED BY <1>7, <3>1, <3>2
  <2>5. G[a] \in Seq(Settled(h))
    BY <2>3, <2>4
  <2> QED BY <2>2, <2>5
<1> QED BY <1>6, <1>9

\* What a name stands for when it is resolved
Things(h) ==
  {Nothing} \cup {Thing("declaration", d) : d \in ToCompile(h)} \cup {Thing("parameter", a) : a \in Settled(h)}
Resolutions(h) == [thing : Things(h), cache : SoundCaches(h)]

LEMMA ThingsAre ==
  ASSUME NEW h
  PROVE  /\ Nothing \in Things(h)
         /\ \A d \in ToCompile(h) : Thing("declaration", d) \in Things(h)
         /\ \A a \in Settled(h) : Thing("parameter", a) \in Things(h)
         /\ \A t \in Things(h) : t.is = "declaration" => t.at \in ToCompile(h)
<1>1. Nothing.is = "nothing" /\ \A a : Thing("parameter", a).is = "parameter" /\ Thing("declaration", a).at = a
  BY DEF Nothing, Thing
<1> QED BY <1>1 DEF Things

LEMMA CaptureFindIs ==
  ASSUME Rooted(heap), NEW s \in Settled(heap), NEW m \in Names, NEW c \in SoundCaches(heap)
  PROVE  CaptureFind(s, m, c) \in Resolutions(heap)
<1> DEFINE p == Chain(heap, s)
           n == Len(p)
           V == Resolutions(heap)
           b == [thing |-> Nothing, cache |-> c]
           Seen(a, r) == [thing |-> IF r.decl # Nowhere THEN Thing("declaration", r.decl)
                                    ELSE IF IsParameter(a, m) THEN Thing("parameter", a) ELSE Nothing,
                          cache |-> r.cache]
           Op(last, a) == IF last.thing # Nothing THEN last ELSE Seen(a, Find(heap, last.cache, a, <<m>>, FALSE))
           T == [x \in V \X (1 .. n) |-> Op(x[1], p[x[2]])]
           Eq(f) == f = [P \in SUBSET (DOMAIN p) |-> IF P = {} THEN b ELSE Op(f[P \ {Max(P)}], p[Max(P)])]
           f == CHOOSE g : Eq(g)
<1>0. p \in Seq(Settled(heap)) /\ Settled(heap) \subseteq Live(heap)
  BY ChainIs, SettledIs
<1>20. <<m>> \in Seq(Names) /\ <<m>> # <<>>
  BY NamesAre
<1>21. ASSUME NEW e \in SoundCaches(heap), NEW a \in Settled(heap)
       PROVE  /\ Find(heap, e, a, <<m>>, FALSE).cache \in SoundCaches(heap)
              /\ Find(heap, e, a, <<m>>, FALSE).decl \in ToCompile(heap) \cup {Nowhere}
  BY <1>0, <1>20, FindIs
<1>1. n \in Nat /\ DOMAIN p = 1 .. n
  BY <1>0
<1>2. b \in V
  BY ThingsAre DEF Resolutions
<1>3. ASSUME NEW r \in V, NEW k \in 1 .. n PROVE Op(r, p[k]) \in V
  <2>1. p[k] \in Settled(heap)
    BY <1>0
  <2> HIDE DEF p
  <2>2. r.cache \in SoundCaches(heap)
    BY DEF Resolutions
  <2> DEFINE found == Find(heap, r.cache, p[k], <<m>>, FALSE)
  <2>3. found.cache \in SoundCaches(heap) /\ found.decl \in ToCompile(heap) \cup {Nowhere}
    BY <1>21, <2>1, <2>2
  <2> HIDE DEF found
  <2>4. Seen(p[k], found) \in V
    BY <2>1, <2>3, ThingsAre DEF Resolutions
  <2> HIDE DEF Seen
  <2> QED BY <2>4 DEF found
<1>4. CaptureFind(s, m, c) = f[DOMAIN p]
  BY DEF CaptureFind, FoldLeft, MapThenFoldSet
<1> HIDE DEF n, V, b, Op, p
<1>5. T \in [V \X (1 .. n) -> V] /\ \A r \in V, k \in 1 .. n : T[<<r, k>>] = Op(r, p[k])
  BY <1>1, <1>3
<1> HIDE DEF T
<1>6. ToFold(n, V, b, T)
  BY <1>1, <1>2, <1>5 DEF ToFold
<1>7. \E F : Eq(F)
  <2>1. PICK F : Folds(F, n, V, b, T)
    BY <1>6, FoldExists
  <2>2. ASSUME NEW P \in SUBSET (1 .. n), P # {} PROVE F[P] = Op(F[P \ {Max(P)}], p[Max(P)])
    <3>1. Max(P) \in 1 .. n /\ F[P \ {Max(P)}] \in V
      BY <1>1, <2>1, <2>2, MaxIs DEF Folds
    <3> QED BY <1>5, <2>1, <2>2, <3>1 DEF Folds, FoldStep
  <2>3. F[{}] = b
    BY <2>1 DEF Folds, FoldStep
  <2> QED BY <1>1, <2>1, <2>2, <2>3 DEF Folds
<1>8. Eq(f)
  <2> HIDE DEF Eq
  <2> QED BY <1>7
<1> HIDE DEF f
<1>9. Folding(f, n, V, b, T)
  <2>1. ASSUME NEW P \in SUBSET (1 .. n), P # {}, f[P \ {Max(P)}] \in V
        PROVE  f[P] = T[<<f[P \ {Max(P)}], Max(P)>>]
    <3>1. Max(P) \in 1 .. n
      BY <1>1, <2>1, MaxIs
    <3>2. f[P] = Op(f[P \ {Max(P)}], p[Max(P)])
      BY <1>1, <1>8, <2>1
    <3> QED BY <1>5, <2>1, <3>1, <3>2
  <2>2. f[{}] = b
    BY <1>8
  <2> QED BY <2>1, <2>2 DEF Folding
<1>10. PICK q : Iterates(q, n, V, b, T) /\ q[n] = f[DOMAIN p]
  BY <1>1, <1>6, <1>9, FoldValues
<1>12. f[DOMAIN p] \in V
  <2>1. n \in 0 .. n
    BY <1>1
  <2> QED BY <1>10, <2>1 DEF Iterates
<1> QED BY <1>4, <1>12 DEF V

LEMMA IndexIs ==
  ASSUME Rooted(heap), NEW t \in Things(heap), NEW m \in Names, NEW c \in SoundCaches(heap)
  PROVE  Index(t, m, c) \in Resolutions(heap)
<1>1. <<m>> \in Seq(Names) /\ <<m>> # <<>>
  BY NamesAre
<1>2. t.is = "declaration" => t.at \in Settled(heap) /\ t.at \in Live(heap)
  BY ThingsAre, SettledIs DEF ToCompile
<1> DEFINE found == Find(heap, c, t.at, <<m>>, FALSE)
<1>3. t.is = "declaration" => found.cache \in SoundCaches(heap) /\ found.decl \in ToCompile(heap) \cup {Nowhere}
  BY <1>1, <1>2, FindIs
<1> HIDE DEF found
<1>4. t.is = "declaration" =>
        [thing |-> IF found.decl = Nowhere THEN Nothing ELSE Thing("declaration", found.decl), cache |-> found.cache]
          \in Resolutions(heap)
  BY <1>3, ThingsAre DEF Resolutions
<1>5. [thing |-> t, cache |-> c] \in Resolutions(heap) /\ [thing |-> Nothing, cache |-> c] \in Resolutions(heap)
  BY ThingsAre DEF Resolutions
<1> QED BY <1>4, <1>5 DEF Index, IndexIn, found

LEMMA ResolveIs ==
  ASSUME Rooted(heap), NEW s \in Settled(heap), NEW path \in Seq(Names) \ {<<>>}, NEW c \in SoundCaches(heap)
  PROVE  Resolve(s, path, c) \in Resolutions(heap)
<1> DEFINE p == Tail(path)
           n == Len(p)
           V == Resolutions(heap)
           b == CaptureFind(s, Head(path), c)
           Op(last, m) == Index(last.thing, m, last.cache)
           T == [x \in V \X (1 .. n) |-> Op(x[1], p[x[2]])]
           Eq(f) == f = [P \in SUBSET (DOMAIN p) |-> IF P = {} THEN b ELSE Op(f[P \ {Max(P)}], p[Max(P)])]
           f == CHOOSE g : Eq(g)
<1>0. p \in Seq(Names) /\ Head(path) \in Names
  OBVIOUS
<1>1. n \in Nat /\ DOMAIN p = 1 .. n
  BY <1>0
<1>2. b \in V
  BY <1>0, CaptureFindIs
<1>3. ASSUME NEW r \in V, NEW k \in 1 .. n PROVE Op(r, p[k]) \in V
  <2>1. p[k] \in Names
    BY <1>0
  <2> HIDE DEF p
  <2> QED BY <2>1, IndexIs DEF Resolutions
<1>4. Resolve(s, path, c) = f[DOMAIN p]
  BY DEF Resolve, FoldLeft, MapThenFoldSet
<1> HIDE DEF n, V, b, Op, p
<1>5. T \in [V \X (1 .. n) -> V] /\ \A r \in V, k \in 1 .. n : T[<<r, k>>] = Op(r, p[k])
  BY <1>1, <1>3
<1> HIDE DEF T
<1>6. ToFold(n, V, b, T)
  BY <1>1, <1>2, <1>5 DEF ToFold
<1>7. \E F : Eq(F)
  <2>1. PICK F : Folds(F, n, V, b, T)
    BY <1>6, FoldExists
  <2>2. ASSUME NEW P \in SUBSET (1 .. n), P # {} PROVE F[P] = Op(F[P \ {Max(P)}], p[Max(P)])
    <3>1. Max(P) \in 1 .. n /\ F[P \ {Max(P)}] \in V
      BY <1>1, <2>1, <2>2, MaxIs DEF Folds
    <3> QED BY <1>5, <2>1, <2>2, <3>1 DEF Folds, FoldStep
  <2>3. F[{}] = b
    BY <2>1 DEF Folds, FoldStep
  <2> QED BY <1>1, <2>1, <2>2, <2>3 DEF Folds
<1>8. Eq(f)
  <2> HIDE DEF Eq
  <2> QED BY <1>7
<1> HIDE DEF f
<1>9. Folding(f, n, V, b, T)
  <2>1. ASSUME NEW P \in SUBSET (1 .. n), P # {}, f[P \ {Max(P)}] \in V
        PROVE  f[P] = T[<<f[P \ {Max(P)}], Max(P)>>]
    <3>1. Max(P) \in 1 .. n
      BY <1>1, <2>1, MaxIs
    <3>2. f[P] = Op(f[P \ {Max(P)}], p[Max(P)])
      BY <1>1, <1>8, <2>1
    <3> QED BY <1>5, <2>1, <3>1, <3>2
  <2>2. f[{}] = b
    BY <1>8
  <2> QED BY <2>1, <2>2 DEF Folding
<1>10. PICK q : Iterates(q, n, V, b, T) /\ q[n] = f[DOMAIN p]
  BY <1>1, <1>6, <1>9, FoldValues
<1>12. f[DOMAIN p] \in V
  <2>1. n \in 0 .. n
    BY <1>1
  <2> QED BY <1>10, <2>1 DEF Iterates
<1> QED BY <1>4, <1>12 DEF V

LEMMA ResolveUsesIs ==
  ASSUME Rooted(heap), NEW d \in Settled(heap), Written(heap[d].src), NEW c \in SoundCaches(heap)
  PROVE  ResolveUses(d, c) \in [things : Seq(Things(heap)), cache : SoundCaches(heap)]
<1> DEFINE p == heap[d].src.uses
           n == Len(p)
           V == [things : Seq(Things(heap)), cache : SoundCaches(heap)]
           b == [things |-> <<>>, cache |-> c]
           Added(last, r) == [things |-> Append(last.things, r.thing), cache |-> r.cache]
           Op(last, path) == Added(last, Resolve(d, path, last.cache))
           T == [x \in V \X (1 .. n) |-> Op(x[1], p[x[2]])]
           Eq(f) == f = [P \in SUBSET (DOMAIN p) |-> IF P = {} THEN b ELSE Op(f[P \ {Max(P)}], p[Max(P)])]
           f == CHOOSE g : Eq(g)
<1>0. p \in Seq(Seq(Names) \ {<<>>})
  BY DEF Written, Uses
<1>1. n \in Nat /\ DOMAIN p = 1 .. n
  BY <1>0
<1>2. b \in V
  OBVIOUS
<1>3. ASSUME NEW r \in V, NEW k \in 1 .. n PROVE Op(r, p[k]) \in V
  <2>1. p[k] \in Seq(Names) \ {<<>>}
    BY <1>0
  <2> HIDE DEF p
  <2>2. r.things \in Seq(Things(heap)) /\ r.cache \in SoundCaches(heap)
    OBVIOUS
  <2> DEFINE done == Resolve(d, p[k], r.cache)
  <2>3. done \in Resolutions(heap)
    BY <2>1, <2>2, ResolveIs
  <2> HIDE DEF done
  <2>4. done.thing \in Things(heap) /\ done.cache \in SoundCaches(heap)
    BY <2>3 DEF Resolutions
  <2>5. Append(r.things, done.thing) \in Seq(Things(heap))
    BY <2>2, <2>4
  <2> QED BY <2>4, <2>5 DEF done
<1>4. ResolveUses(d, c) = f[DOMAIN p]
  BY DEF ResolveUses, FoldLeft, MapThenFoldSet
<1> HIDE DEF n, V, b, Op, p
<1>5. T \in [V \X (1 .. n) -> V] /\ \A r \in V, k \in 1 .. n : T[<<r, k>>] = Op(r, p[k])
  BY <1>1, <1>3
<1> HIDE DEF T
<1>6. ToFold(n, V, b, T)
  BY <1>1, <1>2, <1>5 DEF ToFold
<1>7. \E F : Eq(F)
  <2>1. PICK F : Folds(F, n, V, b, T)
    BY <1>6, FoldExists
  <2>2. ASSUME NEW P \in SUBSET (1 .. n), P # {} PROVE F[P] = Op(F[P \ {Max(P)}], p[Max(P)])
    <3>1. Max(P) \in 1 .. n /\ F[P \ {Max(P)}] \in V
      BY <1>1, <2>1, <2>2, MaxIs DEF Folds
    <3> QED BY <1>5, <2>1, <2>2, <3>1 DEF Folds, FoldStep
  <2>3. F[{}] = b
    BY <2>1 DEF Folds, FoldStep
  <2> QED BY <1>1, <2>1, <2>2, <2>3 DEF Folds
<1>8. Eq(f)
  <2> HIDE DEF Eq
  <2> QED BY <1>7
<1> HIDE DEF f
<1>9. Folding(f, n, V, b, T)
  <2>1. ASSUME NEW P \in SUBSET (1 .. n), P # {}, f[P \ {Max(P)}] \in V
        PROVE  f[P] = T[<<f[P \ {Max(P)}], Max(P)>>]
    <3>1. Max(P) \in 1 .. n
      BY <1>1, <2>1, MaxIs
    <3>2. f[P] = Op(f[P \ {Max(P)}], p[Max(P)])
      BY <1>1, <1>8, <2>1
    <3> QED BY <1>5, <2>1, <3>1, <3>2
  <2>2. f[{}] = b
    BY <1>8
  <2> QED BY <2>1, <2>2 DEF Folding
<1>10. PICK q : Iterates(q, n, V, b, T) /\ q[n] = f[DOMAIN p]
  BY <1>1, <1>6, <1>9, FoldValues
<1>12. f[DOMAIN p] \in V
  <2>1. n \in 0 .. n
    BY <1>1
  <2> QED BY <1>10, <2>1 DEF Iterates
<1> QED BY <1>4, <1>12 DEF V

LEMMA CalleesAre ==
  ASSUME NEW h, NEW p \in Seq(Things(h))
  PROVE  Callees(p) \in Seq(ToCompile(h))
<1> DEFINE n == Len(p)
           V == Seq(ToCompile(h))
           b == <<>>
           Op(ds, t) == IF t.is = "declaration" THEN Append(ds, t.at) ELSE ds
           T == [x \in V \X (1 .. n) |-> Op(x[1], p[x[2]])]
           Eq(f) == f = [P \in SUBSET (DOMAIN p) |-> IF P = {} THEN b ELSE Op(f[P \ {Max(P)}], p[Max(P)])]
           f == CHOOSE g : Eq(g)
<1>1. n \in Nat /\ DOMAIN p = 1 .. n
  OBVIOUS
<1>2. b \in V
  OBVIOUS
<1>3. ASSUME NEW r \in V, NEW k \in 1 .. n PROVE Op(r, p[k]) \in V
  <2>1. p[k] \in Things(h)
    OBVIOUS
  <2>2. p[k].is = "declaration" => p[k].at \in ToCompile(h)
    BY <2>1, ThingsAre
  <2> QED BY <2>2
<1>4. Callees(p) = f[DOMAIN p]
  BY DEF Callees, FoldLeft, MapThenFoldSet
<1> HIDE DEF n, V, b, Op
<1>5. T \in [V \X (1 .. n) -> V] /\ \A r \in V, k \in 1 .. n : T[<<r, k>>] = Op(r, p[k])
  BY <1>1, <1>3
<1> HIDE DEF T
<1>6. ToFold(n, V, b, T)
  BY <1>1, <1>2, <1>5 DEF ToFold
<1>7. \E F : Eq(F)
  <2>1. PICK F : Folds(F, n, V, b, T)
    BY <1>6, FoldExists
  <2>2. ASSUME NEW P \in SUBSET (1 .. n), P # {} PROVE F[P] = Op(F[P \ {Max(P)}], p[Max(P)])
    <3>1. Max(P) \in 1 .. n /\ F[P \ {Max(P)}] \in V
      BY <1>1, <2>1, <2>2, MaxIs DEF Folds
    <3> QED BY <1>5, <2>1, <2>2, <3>1 DEF Folds, FoldStep
  <2>3. F[{}] = b
    BY <2>1 DEF Folds, FoldStep
  <2> QED BY <1>1, <2>1, <2>2, <2>3 DEF Folds
<1>8. Eq(f)
  <2> HIDE DEF Eq
  <2> QED BY <1>7
<1> HIDE DEF f
<1>9. Folding(f, n, V, b, T)
  <2>1. ASSUME NEW P \in SUBSET (1 .. n), P # {}, f[P \ {Max(P)}] \in V
        PROVE  f[P] = T[<<f[P \ {Max(P)}], Max(P)>>]
    <3>1. Max(P) \in 1 .. n
      BY <1>1, <2>1, MaxIs
    <3>2. f[P] = Op(f[P \ {Max(P)}], p[Max(P)])
      BY <1>1, <1>8, <2>1
    <3> QED BY <1>5, <2>1, <3>1, <3>2
  <2>2. f[{}] = b
    BY <1>8
  <2> QED BY <2>1, <2>2 DEF Folding
<1>10. PICK q : Iterates(q, n, V, b, T) /\ q[n] = f[DOMAIN p]
  BY <1>1, <1>6, <1>9, FoldValues
<1>12. f[DOMAIN p] \in V
  <2>1. n \in 0 .. n
    BY <1>1
  <2> QED BY <1>10, <2>1 DEF Iterates
<1> QED BY <1>4, <1>12 DEF V

LEMMA DeclaredIs ==
  ASSUME NEW h, Rooted(h), NEW s \in Settled(h), NEW n \in DOMAIN h[s].decls
  PROVE  h[s].decls[n] \in ToCompile(h) /\ h[h[s].decls[n]].parent = s /\ h[h[s].decls[n]].name = n
<1>1. s \in Live(h) /\ Owns(h)
  BY SettledIs DEF Rooted, Forest
<1>2. h[s].decls[n] \in Settled(h)
  BY <1>1, SettledIs DEF Owns
<1> DEFINE d == h[s].decls[n]
<1>3. d \in Live(h) /\ h[d].parent = s /\ h[d].name = n
  BY <1>1 DEF Owns
<1>4. Declared(h, d)
  BY <1>1, <1>3 DEF Declared
<1> HIDE DEF d
<1> QED BY <1>2, <1>3, <1>4 DEF ToCompile, d

LEMMA BodyIs ==
  ASSUME Rooted(heap), NEW d \in Settled(heap)
  PROVE  Body(d) \in Seq(ToCompile(heap))
  BY DeclaredIs DEF Body, Declares

-----------------------------------------------------------------------------
(* Changes of the scopes, and what they leave alone.                       *)

LEMMA GroundedLess ==
  ASSUME NEW h, Grounded(h), NEW h2, Live(h2) \subseteq Live(h), \A a \in Live(h2) : h2[a].parent = h[a].parent
  PROVE  Grounded(h2)
<1> SUFFICES ASSUME NEW A \in SUBSET Live(h2), A # {} PROVE \E a \in A : h2[a].parent \notin A
  BY DEF Grounded
<1>1. PICK a \in A : h[a].parent \notin A
  BY DEF Grounded
<1> QED BY <1>1

LEMMA GroundedMore ==
  ASSUME NEW h, Grounded(h), Nested(h), NEW h2, NEW x, x \notin Live(h), x # Nowhere,
         Live(h2) = Live(h) \cup {x}, h2[x].parent # x, \A a \in Live(h) : h2[a].parent = h[a].parent
  PROVE  Grounded(h2)
<1> SUFFICES ASSUME NEW A \in SUBSET Live(h2), A # {} PROVE \E a \in A : h2[a].parent \notin A
  BY DEF Grounded
<1>1. CASE A \subseteq {x}
  BY <1>1
<1>2. CASE ~(A \subseteq {x})
  <2>1. A \ {x} \in SUBSET Live(h) /\ A \ {x} # {}
    BY <1>2
  <2>2. PICK a \in A \ {x} : h[a].parent \notin A \ {x}
    BY <2>1 DEF Grounded
  <2>3. a \in Live(h) /\ h[a].parent # x
    BY <2>2 DEF Nested
  <2> QED BY <2>2, <2>3
<1> QED BY <1>1, <1>2

LEMMA SettledLess ==
  ASSUME NEW h, Rooted(h), NEW h2, NEW D, Live(h2) = Live(h) \ D, Global \notin D,
         \A a \in Live(h) : h[a].parent \in D => a \in D,
         \A a \in Live(h2) : h2[a].parent = h[a].parent
  PROVE  Grounded(h2) /\ Settled(h2) = Settled(h) \ D
<1>1. Grounded(h2)
  BY GroundedLess DEF Rooted
<1> DEFINE W == Settled(h) \ D
<1>2. /\ Settled(h) \subseteq Live(h) /\ Global \in Settled(h)
      /\ \A a \in Live(h) : h[a].parent \in Settled(h) => a \in Settled(h)
      /\ \A a \in Settled(h) : a = Global \/ h[a].parent \in Settled(h)
  BY SettledIs
<1>3. W \in SUBSET Live(h2) /\ Global \in W /\ Global \in Live(h2)
  BY <1>2
<1>4. \A a \in Live(h2) : h2[a].parent \in W => a \in W
  BY <1>2
<1>5. \A a \in W : a = Global \/ h2[a].parent \in W
  BY <1>2
<1> HIDE DEF W
<1>6. Within(h2, Global) = W
  BY <1>1, <1>3, <1>4, <1>5, WithinOnly
<1> QED BY <1>1, <1>6 DEF Settled, W

LEMMA SettledSame ==
  ASSUME NEW h, Rooted(h), NEW h2, Live(h2) = Live(h), \A a \in Live(h) : h2[a].parent = h[a].parent
  PROVE  Grounded(h2) /\ Settled(h2) = Settled(h)
<1> DEFINE D == {}
<1>1. Live(h2) = Live(h) \ D /\ Global \notin D /\ Settled(h) \ D = Settled(h)
  OBVIOUS
<1>2. \A a \in Live(h) : h[a].parent \in D => a \in D
  OBVIOUS
<1>3. \A a \in Live(h2) : h2[a].parent = h[a].parent
  OBVIOUS
<1> HIDE DEF D
<1> QED BY <1>1, <1>2, <1>3, SettledLess

Grows(h, h2, x) ==
  /\ x \notin Live(h) /\ x # Nowhere /\ Live(h2) = Live(h) \cup {x} /\ h2[x].parent # x
  /\ \A a \in Live(h) : h2[a].parent = h[a].parent

LEMMA SettledMore ==
  ASSUME NEW h, Rooted(h), NEW h2, NEW x, Grows(h, h2, x)
  PROVE  /\ Grounded(h2)
         /\ h2[x].parent \in Settled(h) => Settled(h2) = Settled(h) \cup {x}
         /\ h2[x].parent \notin Settled(h) => Settled(h2) = Settled(h)
<1> USE DEF Grows
<1>1. Grounded(h2)
  BY GroundedMore DEF Rooted, Forest
<1> DEFINE W == IF h2[x].parent \in Settled(h) THEN Settled(h) \cup {x} ELSE Settled(h)
<1>2. /\ Settled(h) \subseteq Live(h) /\ Global \in Settled(h)
      /\ \A a \in Live(h) : h[a].parent \in Settled(h) => a \in Settled(h)
      /\ \A a \in Settled(h) : a = Global \/ h[a].parent \in Settled(h)
      /\ \A a \in Live(h) : h[a].parent # x
  BY SettledIs DEF Rooted, Forest, Nested
<1>3. W \in SUBSET Live(h2) /\ Global \in W /\ Global \in Live(h2)
  BY <1>2
<1>4. \A a \in Live(h2) : h2[a].parent \in W => a \in W
  BY <1>2
<1>5. \A a \in W : a = Global \/ h2[a].parent \in W
  BY <1>2
<1> HIDE DEF W
<1>6. Within(h2, Global) = W
  BY <1>1, <1>3, <1>4, <1>5, WithinOnly
<1> QED BY <1>1, <1>6 DEF Settled, W

\* Only the global scope has ever the temporary declaration
Untemp(h) == \A a \in Live(h) : a # Global => Temp \notin DOMAIN h[a].decls
Fit(h) == Rooted(h) /\ Sourced(h) /\ Untemp(h)

\* A change that leaves the scopes of the program as they are, those apart that it destroys
Aside(h, h2) ==
  /\ Settled(h2) \subseteq Settled(h)
  /\ \A a \in Settled(h2) : /\ h2[a].parent = h[a].parent /\ h2[a].src = h[a].src
                           /\ DOMAIN h2[a].decls = DOMAIN h[a].decls
                           /\ \A n \in DOMAIN h[a].decls : h2[a].decls[n] = h[a].decls[n]

LEMMA AsideClosed ==
  ASSUME NEW h, NEW h2, Rooted(h), Rooted(h2), Aside(h, h2)
  PROVE  \A P : Closed(h, Settled(h2), P) /\ \A n : Same(h, h2, Settled(h2), n)
<1>1. ASSUME NEW P PROVE Closed(h, Settled(h2), P)
  <2>1. Closed(h2, Settled(h2), P) /\ Settled(h) \subseteq Live(h)
    BY SettledIs
  <2> QED BY <2>1 DEF Closed, Aside
<1>2. ASSUME NEW n PROVE Same(h, h2, Settled(h2), n)
  <2>1. Settled(h2) \subseteq Live(h2)
    BY SettledIs
  <2> QED BY <2>1 DEF Same, Keeps, Aside
<1> QED BY <1>1, <1>2

LEMMA AsideAgrees ==
  ASSUME NEW h, NEW h2, Rooted(h), Rooted(h2), Aside(h, h2)
  PROVE  SoundCaches(h) \subseteq SoundCaches(h2)
<1> SUFFICES ASSUME NEW c \in SoundCaches(h), ~c.marked PROVE Agrees(h2, c, Settled(h2))
  BY DEF SoundCaches, Sound
<1>1. c \in Caches /\ Agrees(h, c, Settled(h))
  BY DEF SoundCaches, Sound
<1> SUFFICES ASSUME NEW e \in c.entries, e[1] \in Settled(h2) PROVE e[3] = Named(h2, e[1], e[2])
  BY DEF Agrees
<1>2. e \in Triples
  BY <1>1 DEF Caches
<1>3. e[2] \in Seq(Names) /\ e[1] \in Settled(h)
  BY <1>2 DEF Triples, Aside
<1>4. e[3] = Named(h, e[1], e[2])
  BY <1>1, <1>3 DEF Agrees
<1>5. Closed(h, Settled(h2), Names) /\ Settled(h2) \subseteq Live(h2) /\ \A n \in Names : Same(h, h2, Settled(h2), n)
  BY AsideClosed, SettledIs
<1>6. Named(h2, e[1], e[2]) = Named(h, e[1], e[2])
  BY <1>3, <1>5, NamedSame DEF Rooted
<1> QED BY <1>4, <1>6

\* A change that leaves the scopes of S to what they declare under an identifier
Kept(h, h2, S) ==
  /\ Global \in S /\ S \subseteq Settled(h2) /\ Closed(h, S, Identifiers)
  /\ \A n \in Identifiers : Keeps(h, h2, S, n)
  /\ \A a \in S : h2[a].src = h[a].src

LEMMA AsideKept ==
  ASSUME NEW h, NEW h2, Rooted(h), Rooted(h2), Aside(h, h2)
  PROVE  Kept(h, h2, Settled(h2))
<1>1. Global \in Settled(h2) /\ Closed(h, Settled(h2), Identifiers)
  BY SettledIs, AsideClosed
<1>2. \A n \in Identifiers : Keeps(h, h2, Settled(h2), n)
  BY AsideClosed DEF Same
<1> QED BY <1>1, <1>2 DEF Kept, Aside

\* What the host holds is what its path names
Held(h, hs) ==
  \A x \in hs : /\ x[1] \in Seq(Identifiers) \ {<<>>}
                /\ x[2] \in Live(h) /\ Named(h, Global, x[1]) = x[2]
\* A verdict that the ports are valid is right
Right(h, d) == d \in Settled(h) /\ h[d].src.kind = "function" /\ TypesFound(h, d)
AllRight(h) == \A d \in Live(h) : h[d].ports = "valid" => Right(h, d)

LEMMA HeldKept ==
  ASSUME NEW h, NEW h2, Rooted(h), Rooted(h2), NEW S, Kept(h, h2, S), NEW hs, Held(h, hs)
  PROVE  Held(h2, hs)
<1>0. /\ Global \in S /\ S \subseteq Live(h2) /\ S \subseteq Live(h) /\ Closed(h, S, Identifiers)
      /\ \A n \in Identifiers : Keeps(h, h2, S, n)
  BY SettledIs DEF Kept, Closed
<1> SUFFICES ASSUME NEW x \in hs PROVE x[2] \in Live(h2) /\ Named(h2, Global, x[1]) = x[2]
  BY DEF Held
<1>1. x[1] \in Seq(Identifiers) /\ Named(h, Global, x[1]) = x[2] /\ x[2] # Nowhere
  BY LiveFinite DEF Held
<1>2. Named(h2, Global, x[1]) = Named(h, Global, x[1])
  BY <1>0, <1>1, NamedKept DEF Rooted
<1>3. Named(h, Global, x[1]) \in S
  BY <1>0, <1>1, NamedWithin DEF Rooted
<1> QED BY <1>0, <1>1, <1>2, <1>3

LEMMA RightKept ==
  ASSUME NEW h, NEW h2, Fit(h), Rooted(h2), NEW S, Kept(h, h2, S),
         \A d \in Live(h2) : h2[d].ports = "valid" => d \in S /\ Right(h, d)
  PROVE  AllRight(h2)
<1>0. /\ S \subseteq Live(h2) /\ S \subseteq Live(h) /\ S \subseteq Settled(h2) /\ Closed(h, S, Identifiers)
      /\ \A n \in Identifiers : Keeps(h, h2, S, n)
      /\ Rooted(h) /\ Sourced(h)
  BY SettledIs DEF Kept, Closed, Fit
<1> SUFFICES ASSUME NEW d \in Live(h2), h2[d].ports = "valid" PROVE Right(h2, d)
  BY DEF AllRight
<1>1. d \in S /\ h2[d].src = h[d].src
  BY DEF Kept
<1>2. h[d].src.kind = "function" /\ TypesFound(h, d)
  BY DEF Right
<1>3. Written(h[d].src)
  BY <1>0, <1>1, <1>2 DEF Sourced, Unwritten
<1> DEFINE ts == Annotations(h[d].src)
<1>4. ts \in Seq(Seq(Identifiers) \ {<<>>})
  BY <1>3, AnnotationsAre
<1>5. ASSUME NEW k \in DOMAIN ts
      PROVE  /\ Named(h2, d, ts[k]) \in Settled(h2)
             /\ h2[Named(h2, d, ts[k])].src.kind \in {"struct", "constraint"}
  <2>1. ts[k] \in Seq(Identifiers)
    BY <1>4
  <2>2. Named(h, d, ts[k]) \in Settled(h) /\ h[Named(h, d, ts[k])].src.kind \in {"struct", "constraint"}
    BY <1>2 DEF TypesFound
  <2> HIDE DEF ts
  <2>3. Named(h, d, ts[k]) # Nowhere
    BY <1>0, <2>2, SettledIs
  <2>4. Named(h2, d, ts[k]) = Named(h, d, ts[k])
    BY <1>0, <1>1, <2>1, <2>3, NamedKept DEF Rooted
  <2>5. Named(h, d, ts[k]) \in S
    BY <1>0, <1>1, <2>1, <2>3, NamedWithin DEF Rooted
  <2> QED BY <1>0, <2>2, <2>4, <2>5 DEF Kept
<1> QED BY <1>0, <1>1, <1>2, <1>5 DEF Right, TypesFound

Good(h) == Fit(h) /\ AllRight(h)
\* A change that is of no matter to any lookup
Quiet(h, h2) ==
  /\ Fit(h2) /\ Aside(h, h2)
  /\ \A d \in Live(h2) : h2[d].ports = "valid" => d \in Settled(h2) /\ Right(h, d)

LEMMA QuietKeeps ==
  ASSUME NEW h, NEW h2, Good(h), Quiet(h, h2)
  PROVE  Good(h2) /\ SoundCaches(h) \subseteq SoundCaches(h2) /\ \A hs : Held(h, hs) => Held(h2, hs)
<1>1. Rooted(h) /\ Rooted(h2) /\ Fit(h) /\ Fit(h2) /\ Aside(h, h2)
  BY DEF Good, Quiet, Fit
<1>2. Kept(h, h2, Settled(h2))
  BY <1>1, AsideKept
<1>3. AllRight(h2)
  BY <1>1, <1>2, RightKept DEF Quiet
<1>4. SoundCaches(h) \subseteq SoundCaches(h2)
  BY <1>1, AsideAgrees
<1>5. \A hs : Held(h, hs) => Held(h2, hs)
  BY <1>1, <1>2, HeldKept
<1> QED BY <1>1, <1>3, <1>4, <1>5 DEF Good

LEMMA QuietSelf == ASSUME NEW h, Good(h) PROVE Quiet(h, h)
  BY DEF Good, Quiet, Aside, AllRight, Right

LEMMA SourcedKept ==
  ASSUME NEW h, Sourced(h), NEW h2, Live(h2) \subseteq Live(h), \A a \in Live(h2) : h2[a].src = h[a].src,
         Apart(h) \cap Live(h2) \subseteq Apart(h2)
  PROVE  Sourced(h2)
<1> SUFFICES ASSUME NEW a \in Live(h2)
             PROVE  (Written(h2[a].src) \/ Unwritten(h2[a].src)) /\ (Declared(h2, a) => Written(h2[a].src))
  BY DEF Sourced
<1>1. h2[a].src = h[a].src /\ a \in Live(h)
  OBVIOUS
<1>2. Declared(h2, a) => Declared(h, a)
  BY <1>1 DEF Apart
<1> QED BY <1>1, <1>2 DEF Sourced

LEMMA AllocateQuiet ==
  ASSUME NEW h, Good(h), NEW a \in Addr, a \notin Live(h), NEW name, NEW parent, NEW src, parent \in Live(h) \cup {Nowhere},
         parent \notin Settled(h), Written(src) \/ Unwritten(src), NEW h2, h2 = Allocated(h, a, Cell(name, parent, src))
  PROVE  Quiet(h, h2) /\ Settled(h2) = Settled(h) /\ Live(h2) = Live(h) \cup {a}
         /\ h2[a] = Cell(name, parent, src) /\ \A b \in Live(h) : h2[b] = h[b]
<1> DEFINE c == Cell(name, parent, src)
<1>0. Rooted(h) /\ Sourced(h) /\ Untemp(h) /\ AllRight(h) /\ Forest(h) /\ a # Nowhere /\ Global \in Live(h)
  BY AddrAssumption DEF Good, Fit, Rooted
<1>1. /\ c.live = TRUE /\ DOMAIN c = Fields /\ c.parent = parent /\ c.src = src /\ c.decls = NoDecls /\ c.ports = "unchecked"
  BY CellIs DEF Cell
<1> HIDE DEF c
<1>2. HasAllocated(h, a, c, h2)
  BY <1>0, <1>1, AllocateIs DEF ToAllocate, c
<1>3. /\ Forest(h2) /\ Live(h2) = Live(h) \cup {a} /\ Apart(h2) = Apart(h) \cup {a}
      /\ h2[a] = c /\ \A b \in Live(h) : h2[b] = h[b]
  BY <1>2 DEF HasAllocated
<1>4. parent # a /\ h2[a].parent = parent /\ \A b \in Live(h) : h2[b].parent = h[b].parent
  BY <1>0, <1>1, <1>3
<1>5. Grounded(h2) /\ Settled(h2) = Settled(h)
  <2> HIDE DEF c
  <2>1. Grows(h, h2, a)
    BY <1>0, <1>3, <1>4 DEF Grows
  <2>2. Rooted(h)
    BY <1>0
  <2>3. h2[a].parent \notin Settled(h)
    BY <1>4
  <2> QED BY <2>1, <2>2, <2>3, SettledMore
<1>6. Rooted(h2)
  BY <1>0, <1>3, <1>5 DEF Rooted
<1>7. Sourced(h2)
  <2> SUFFICES ASSUME NEW x \in Live(h2)
               PROVE  (Written(h2[x].src) \/ Unwritten(h2[x].src)) /\ (Declared(h2, x) => Written(h2[x].src))
    BY DEF Sourced
  <2>1. CASE x = a
    <3>1. ~Declared(h2, x)
      BY <1>3, <2>1 DEF Apart
    <3> QED BY <1>1, <1>3, <2>1, <3>1
  <2>2. CASE x \in Live(h)
    <3>1. Declared(h2, x) => Declared(h, x)
      BY <1>3, <2>2 DEF Apart
    <3> QED BY <1>0, <1>3, <2>2, <3>1 DEF Sourced
  <2> QED BY <1>3, <2>1, <2>2
<1>8. Untemp(h2)
  <2>1. DOMAIN h2[a].decls = {}
    BY <1>1, <1>3 DEF NoDecls
  <2> QED BY <1>0, <1>3, <2>1 DEF Untemp
<1>9. Settled(h) \subseteq Live(h)
  BY <1>0, SettledIs
<1>10. Aside(h, h2)
  BY <1>3, <1>5, <1>9 DEF Aside
<1>11. \A d \in Live(h2) : h2[d].ports = "valid" => d \in Settled(h2) /\ Right(h, d)
  BY <1>0, <1>1, <1>3, <1>5 DEF AllRight, Right
<1> QED BY <1>3, <1>5, <1>6, <1>7, <1>8, <1>10, <1>11 DEF Quiet, Fit, c

LEMMA DestroyQuiet ==
  ASSUME NEW h, Good(h), NEW d \in Apart(h), d # Global, NEW h2, h2 = Destroy(h, d)
  PROVE  /\ Quiet(h, h2) /\ Settled(h2) = Settled(h) \ Within(h, d) /\ Live(h2) = Live(h) \ Within(h, d)
         /\ \A b \in Live(h2) : h2[b] = h[b]
<1>0. /\ Rooted(h) /\ Sourced(h) /\ Untemp(h) /\ AllRight(h) /\ Forest(h) /\ Cells(h) /\ Nested(h)
      /\ Global \in Live(h) /\ h[Global].parent = Nowhere /\ d \in Live(h)
  BY DEF Good, Fit, Rooted, Forest, Apart
<1>1. /\ Cells(h2) /\ Nested(h2) /\ Live(h2) = Live(h) \ Within(h, d)
      /\ \A b \in Live(h2) : h2[b] = h[b]
  BY <1>0, DestroyKeeps
<1>2. Forest(h2) /\ Apart(h2) = Apart(h) \ Within(h, d)
  BY <1>0, DestroyIs
<1>3. Global \notin Within(h, d)
  BY <1>0, NotWithin
<1>4. \A a \in Live(h) : h[a].parent \in Within(h, d) => a \in Within(h, d)
  BY <1>0, WithinIs
<1>5. Grounded(h2) /\ Settled(h2) = Settled(h) \ Within(h, d)
  BY <1>0, <1>1, <1>3, <1>4, SettledLess
<1>6. Rooted(h2)
  BY <1>0, <1>1, <1>2, <1>3, <1>5 DEF Rooted
<1>7. Apart(h) \cap Live(h2) \subseteq Apart(h2)
  BY <1>1, <1>2
<1>8. Sourced(h2)
  BY <1>0, <1>1, <1>7, SourcedKept
<1>9. Untemp(h2)
  BY <1>0, <1>1 DEF Untemp
<1>10. Settled(h) \subseteq Live(h)
  BY <1>0, SettledIs
<1>11. Aside(h, h2)
  BY <1>1, <1>5, <1>10 DEF Aside
<1>12. \A x \in Live(h2) : h2[x].ports = "valid" => x \in Settled(h2) /\ Right(h, x)
  BY <1>0, <1>1, <1>5 DEF AllRight, Right
<1> QED BY <1>1, <1>5, <1>6, <1>8, <1>9, <1>11, <1>12 DEF Quiet, Fit

LEMMA AddPorts ==
  ASSUME NEW h, Cells(h), NEW s \in Live(h), NEW d, NEW b \in Live(h)
  PROVE  AddDeclaration(h, s, d)[b].ports = h[b].ports
<1>1. b \in DOMAIN h /\ "ports" \in DOMAIN h[b]
  BY LiveIs, LiveFinite DEF Cells, Fields
<1> QED BY <1>1 DEF AddDeclaration

LEMMA AddQuiet ==
  ASSUME NEW h, Good(h), NEW s, NEW d, ToAdd(h, s, d), s \notin Settled(h), h[d].name # Temp, Written(h[d].src),
         NEW h2, h2 = AddDeclaration(h, s, d)
  PROVE  Quiet(h, h2) /\ Settled(h2) = Settled(h) /\ Live(h2) = Live(h) /\ \A b \in Live(h) : h2[b].ports = h[b].ports
<1>0. /\ Rooted(h) /\ Sourced(h) /\ Untemp(h) /\ AllRight(h) /\ Forest(h) /\ Cells(h) /\ s \in Live(h)
      /\ Global \in Live(h) /\ h[Global].parent = Nowhere
  BY DEF Good, Fit, Rooted, Forest, ToAdd
<1>1. HasAdded(h, s, d, h2)
  BY AddIs
<1>2. /\ Forest(h2) /\ Live(h2) = Live(h) /\ Apart(h2) = Apart(h) \ {d}
      /\ \A b \in Live(h) : /\ h2[b].parent = h[b].parent /\ h2[b].src = h[b].src
                            /\ b # s => h2[b].decls = h[b].decls
      /\ h2[s].decls = With(h[s].decls, h[d].name, d)
  BY <1>1 DEF HasAdded
<1>3. Grounded(h2) /\ Settled(h2) = Settled(h)
  BY <1>0, <1>2, SettledSame
<1>4. Rooted(h2)
  BY <1>0, <1>2, <1>3 DEF Rooted
<1>5. Sourced(h2)
  <2> SUFFICES ASSUME NEW x \in Live(h2)
               PROVE  (Written(h2[x].src) \/ Unwritten(h2[x].src)) /\ (Declared(h2, x) => Written(h2[x].src))
    BY DEF Sourced
  <2>1. x # d /\ Declared(h2, x) => Declared(h, x)
    BY <1>2 DEF Apart
  <2> QED BY <1>0, <1>2, <2>1 DEF Sourced
<1>6. Untemp(h2)
  <2>1. h2[s].decls = With(h[s].decls, h[d].name, d)
    BY <1>2
  <2>2. ASSUME NEW f, f = With(h[s].decls, h[d].name, d) PROVE DOMAIN f = DOMAIN h[s].decls \cup {h[d].name}
    BY <2>2 DEF With, Over
  <2>3. Temp \in DOMAIN h2[s].decls => Temp \in DOMAIN h[s].decls
    BY <2>1, <2>2
  <2> QED BY <1>0, <1>2, <2>3 DEF Untemp
<1>7. \A b \in Live(h) : h2[b].ports = h[b].ports
  BY <1>0, AddPorts
<1>8. Settled(h) \subseteq Live(h)
  BY <1>0, SettledIs
<1>9. Aside(h, h2)
  BY <1>2, <1>3, <1>8 DEF Aside
<1>10. \A x \in Live(h2) : h2[x].ports = "valid" => x \in Settled(h2) /\ Right(h, x)
  BY <1>0, <1>2, <1>3, <1>7 DEF AllRight, Right
<1> QED BY <1>2, <1>3, <1>4, <1>5, <1>6, <1>7, <1>9, <1>10 DEF Quiet, Fit

\* Only the verdict on a declaration changes
Judged(h, d, v) == [h EXCEPT ![d].ports = v]
LEMMA PortsQuiet ==
  ASSUME NEW h, Good(h), NEW d, NEW v, v = "valid" => Right(h, d), NEW h2, h2 = Judged(h, d, v)
  PROVE  Quiet(h, h2) /\ Settled(h2) = Settled(h) /\ ToCompile(h2) = ToCompile(h)
<1>0. /\ Rooted(h) /\ Sourced(h) /\ Untemp(h) /\ AllRight(h) /\ Forest(h) /\ Cells(h)
      /\ Global \in Live(h) /\ h[Global].parent = Nowhere
  BY DEF Good, Fit, Rooted, Forest
<1>1. Alike(h, h2)
  BY <1>0, PortsAlike DEF Judged
<1>2. Forest(h2) /\ Apart(h2) = Apart(h)
  BY <1>0, <1>1, AlikeIs
<1>3. Live(h2) = Live(h) /\ \A a \in Live(h) : /\ h2[a].parent = h[a].parent /\ h2[a].name = h[a].name
                                              /\ h2[a].decls = h[a].decls /\ h2[a].src = h[a].src
  BY <1>1 DEF Alike
<1>4. Grounded(h2) /\ Settled(h2) = Settled(h)
  BY <1>0, <1>3, SettledSame
<1>5. Rooted(h2) /\ Untemp(h2)
  BY <1>0, <1>2, <1>3, <1>4 DEF Rooted, Untemp
<1>6. Sourced(h2)
  <2>1. Apart(h) \cap Live(h2) \subseteq Apart(h2) /\ Live(h2) \subseteq Live(h)
    BY <1>2, <1>3
  <2> QED BY <1>0, <1>3, <2>1, SourcedKept
<1>7. Settled(h) \subseteq Live(h)
  BY <1>0, SettledIs
<1>8. Aside(h, h2)
  BY <1>3, <1>4, <1>7 DEF Aside
<1>9. \A x \in Live(h2) : h2[x].ports = "valid" => x \in Settled(h2) /\ Right(h, x)
  <2> SUFFICES ASSUME NEW x \in Live(h2), h2[x].ports = "valid" PROVE x \in Settled(h2) /\ Right(h, x)
    OBVIOUS
  <2>1. x \in DOMAIN h /\ DOMAIN h[x] = Fields
    BY <1>0, <1>3, LiveIs DEF Cells
  <2>2. CASE x = d
    <3>1. v = "valid"
      BY <2>1, <2>2 DEF Fields, Judged
    <3> QED BY <1>4, <2>2, <3>1 DEF Right
  <2>3. CASE x # d
    <3>1. h[x].ports = "valid"
      BY <2>1, <2>3 DEF Judged
    <3> QED BY <1>0, <1>3, <1>4, <3>1 DEF AllRight, Right
  <2> QED BY <2>2, <2>3
<1>10. ToCompile(h2) = ToCompile(h)
  <2>1. \A x \in Live(h) : Declared(h2, x) <=> Declared(h, x)
    BY <1>2, <1>3 DEF Apart
  <2> QED BY <1>4, <1>7, <2>1 DEF ToCompile
<1> QED BY <1>4, <1>5, <1>6, <1>8, <1>9, <1>10 DEF Quiet, Fit

-----------------------------------------------------------------------------
(* Changes of the scopes of the program.                                   *)

\* What a change that keeps the scopes of S leaves in order
LEMMA KeptGood ==
  ASSUME NEW h, Good(h), NEW h2, Fit(h2), NEW S, Kept(h, h2, S),
         \A d \in Live(h2) : h2[d].ports = "valid" => d \in S /\ Right(h, d)
  PROVE  Good(h2) /\ \A hs : Held(h, hs) => Held(h2, hs)
<1>1. Rooted(h) /\ Rooted(h2) /\ Fit(h)
  BY DEF Good, Fit
<1>2. AllRight(h2)
  BY <1>1, RightKept
<1>3. \A hs : Held(h, hs) => Held(h2, hs)
  BY <1>1, HeldKept
<1> QED BY <1>2, <1>3 DEF Good

\* S holds all that is known to be valid, and what that may depend on
Valid(h, S) ==
  /\ Global \in S /\ S \subseteq Settled(h) /\ Closed(h, S, Identifiers)
  /\ \A d \in Live(h) : h[d].ports = "valid" => d \in S
\* No verdict depends on what x declares
Untried(h, x) == \E S : Valid(h, S) /\ x \notin S

LEMMA SettledValid == ASSUME NEW h, Good(h) PROVE Valid(h, Settled(h))
<1>1. Global \in Settled(h) /\ Closed(h, Settled(h), Identifiers)
  BY SettledIs DEF Good, Fit
<1> QED BY <1>1 DEF Valid, Good, AllRight, Right

LEMMA UntriedKept ==
  ASSUME NEW h, NEW h2, Good(h), Quiet(h, h2), Settled(h2) = Settled(h), NEW x, Untried(h, x),
         \A d \in Live(h2) : h2[d].ports = "valid" => d \in Live(h) /\ h[d].ports = "valid"
  PROVE  Untried(h2, x)
<1>1. PICK S : Valid(h, S) /\ x \notin S
  BY DEF Untried
<1>2. Settled(h2) \subseteq Live(h2)
  BY SettledIs DEF Quiet, Fit
<1>3. Closed(h2, S, Identifiers)
  <2>1. S \subseteq Settled(h2) /\ Closed(h, S, Identifiers)
    BY <1>1 DEF Valid
  <2>2. ASSUME NEW a \in S
        PROVE  /\ h2[a].parent = h[a].parent /\ DOMAIN h2[a].decls = DOMAIN h[a].decls
               /\ \A n \in DOMAIN h[a].decls : h2[a].decls[n] = h[a].decls[n]
    BY <2>1 DEF Quiet, Aside
  <2> QED BY <1>2, <2>1, <2>2 DEF Closed
<1>4. Valid(h2, S)
  BY <1>1, <1>3 DEF Valid
<1> QED BY <1>1, <1>4 DEF Untried

LEMMA MergedGrounded ==
  ASSUME NEW h, Rooted(h), NEW into, NEW other, ToMerge(h, into, other), NEW g, g = Merged(h, into, other)
  PROVE  Grounded(g) /\ g[Global].parent = Nowhere /\ into \notin Range(Taken(h, into, other))
<1> DEFINE T == Range(Taken(h, into, other))
<1>0. /\ Forest(h) /\ into \in Live(h) /\ other \in Apart(h) /\ h[other].parent = Nowhere /\ other # into /\ other # Global
      /\ Global \in Live(h) /\ h[Global].parent = Nowhere /\ h[into].parent \in {Nowhere, Global} /\ Nowhere \notin Live(h)
      /\ other \in Live(h) /\ Grounded(h)
  BY LiveFinite DEF ToMerge, Apart, Rooted
<1>1. h[into].parent # other
  BY <1>0
<1>2. /\ Live(g) = Live(h) /\ \A b \in Live(h) : g[b].parent = IF b \in T THEN into ELSE h[b].parent
      /\ \A b \in T : b \in Live(h) /\ h[b].parent = other
  BY <1>0, <1>1, MergedIs
<1> HIDE DEF T
<1>3. into \notin T /\ Global \notin T
  BY <1>0, <1>1, <1>2
<1>4. g[Global].parent = Nowhere /\ g[into].parent = h[into].parent
  BY <1>0, <1>2, <1>3
<1>5. Grounded(g)
  <2> SUFFICES ASSUME NEW A \in SUBSET Live(g), A # {} PROVE \E a \in A : g[a].parent \notin A
    BY DEF Grounded
  <2>1. CASE into \notin A
    <3>1. PICK a \in A : h[a].parent \notin A
      BY <1>0, <1>2 DEF Grounded
    <3> QED BY <1>2, <2>1, <3>1
  <2>2. CASE into \in A /\ Global \in A
    BY <1>0, <1>2, <1>4, <2>2
  <2>3. CASE into \in A /\ Global \notin A
    BY <1>0, <1>2, <1>4, <2>3
  <2> QED BY <2>1, <2>2, <2>3
<1> QED BY <1>3, <1>4, <1>5 DEF T

LEMMA MergedPorts ==
  ASSUME NEW h, Cells(h), NEW into \in Live(h), NEW other \in Live(h), NEW b \in Live(h)
  PROVE  Merged(h, into, other)[b].ports = h[b].ports
<1>1. b \in Addr /\ DOMAIN h[b] = Fields /\ "ports" \in Fields
  BY LiveIs DEF Fields
<1>2. \/ Merged(h, into, other)[b] = [h[b] EXCEPT !.decls = Over(Taken(h, into, other), @)]
      \/ Merged(h, into, other)[b] = [h[b] EXCEPT !.decls = NoDecls]
      \/ Merged(h, into, other)[b] = [h[b] EXCEPT !.parent = into]
      \/ Merged(h, into, other)[b] = h[b]
  BY <1>1 DEF Merged
<1> QED BY <1>1, <1>2

\* What merge leaves: the scopes of the program are where they were
HasJoined(h, into, other, h2) ==
  /\ Live(h2) \subseteq Live(h) /\ Settled(h) \subseteq Settled(h2)
  /\ \A a \in Settled(h) : h2[a].parent = h[a].parent
  /\ \A a \in Live(h2) : h2[a].ports = h[a].ports
  /\ DOMAIN h[other].decls = {} => Settled(h2) = Settled(h)

LEMMA JoinIs ==
  ASSUME NEW h, Fit(h), NEW into, NEW other, ToMerge(h, into, other), into \in Apart(h),
         NEW h2, h2 = Merge(h, into, other).heap
  PROVE  Fit(h2) /\ HasJoined(h, into, other, h2)
<1> DEFINE g == Merged(h, into, other)
           T == Range(Taken(h, into, other))
           W == Within(g, other)
<1>0. /\ Forest(h) /\ into \in Live(h) /\ other \in Apart(h) /\ h[other].parent = Nowhere /\ other # into /\ other # Global
      /\ Global \in Live(h) /\ h[Global].parent = Nowhere /\ h[into].parent \in {Nowhere, Global} /\ Nowhere \notin Live(h)
      /\ other \in Live(h) /\ Rooted(h) /\ Sourced(h) /\ Untemp(h)
  BY LiveFinite DEF ToMerge, Apart, Fit
<1>1. /\ Cells(g) /\ Nested(g) /\ Live(g) = Live(h)
      /\ \A b \in Live(h) : g[b].parent = IF b \in T THEN into ELSE h[b].parent
      /\ \A b \in T : b \in Live(h) /\ h[b].parent = other
  <2>1. h[into].parent # other
    BY <1>0
  <2> QED BY <1>0, <2>1, MergedIs
<1>2. Grounded(g) /\ g[Global].parent = Nowhere /\ into \notin T
  BY <1>0, MergedGrounded
<1>3. h2 = Destroy(g, other)
  BY MergeSplit
<1>4. HasMerged(h, into, other, Merge(h, into, other).ok, h2)
  BY MergeIs
<1>5. \A b \in Live(h) : g[b].ports = h[b].ports
  BY <1>0, MergedPorts DEF Forest
<1>6. DOMAIN h[other].decls = {} => T = {}
  BY DEF Range, Taken, Moved
<1> HIDE DEF g, T
<1>7. /\ Live(h2) = Live(h) \ W /\ \A b \in Live(h2) : h2[b] = g[b]
  BY <1>0, <1>1, <1>3, DestroyKeeps
<1>8. /\ W \subseteq Live(h) /\ other \in W
      /\ \A a \in Live(h) : g[a].parent \in W => a \in W
      /\ \A a \in W : a = other \/ g[a].parent \in W
  BY <1>0, <1>1, WithinIs
<1> HIDE DEF W
<1>9. /\ Settled(h) \subseteq Live(h) /\ Global \in Settled(h) /\ Nowhere \notin Settled(h)
      /\ \A a \in Live(h) : h[a].parent \in Settled(h) => a \in Settled(h)
      /\ \A a \in Settled(h) : a = Global \/ h[a].parent \in Settled(h)
  BY <1>0, SettledIs
<1>10. other \notin Settled(h)
  BY <1>0, <1>9
<1>11. \A a \in Settled(h) : g[a].parent = h[a].parent
  BY <1>0, <1>1, <1>9, <1>10
<1>12. Settled(h) \cap W = {}
  <2> DEFINE B == Settled(h) \cap W
  <2> SUFFICES ASSUME B # {} PROVE FALSE
    OBVIOUS
  <2>1. B \in SUBSET Live(h)
    BY <1>9
  <2>2. PICK a \in B : h[a].parent \notin B
    BY <1>0, <2>1 DEF Rooted, Grounded
  <2>3. a # other /\ h[a].parent \in W
    BY <1>8, <1>10, <1>11, <2>2
  <2>4. h[a].parent # Nowhere
    BY <1>0, <1>8, <2>3
  <2> QED BY <1>0, <1>9, <2>2, <2>3, <2>4
<1>13. /\ Forest(h2) /\ Live(h2) \subseteq Live(h) /\ Global \in Live(h2) /\ h2[Global].parent = Nowhere
  BY <1>2, <1>4, <1>7, <1>9, <1>12 DEF HasMerged
<1>14. Grounded(h2)
  BY <1>1, <1>2, <1>7, GroundedLess
<1>15. Rooted(h2)
  BY <1>13, <1>14 DEF Rooted
<1>16. /\ Settled(h2) \subseteq Live(h2) /\ Global \in Settled(h2)
       /\ \A a \in Live(h2) : h2[a].parent \in Settled(h2) => a \in Settled(h2)
       /\ \A a \in Settled(h2) : a = Global \/ h2[a].parent \in Settled(h2)
  BY <1>15, SettledIs
<1>17. \A a \in Settled(h) : a \in Live(h2) /\ h2[a].parent = h[a].parent
  BY <1>7, <1>9, <1>11, <1>12
<1>18. Settled(h) \subseteq Settled(h2)
  <2> DEFINE B == Settled(h) \ Settled(h2)
  <2> SUFFICES ASSUME B # {} PROVE FALSE
    OBVIOUS
  <2>1. B \in SUBSET Live(h)
    BY <1>9
  <2>2. PICK a \in B : h[a].parent \notin B
    BY <1>0, <2>1 DEF Rooted, Grounded
  <2> QED BY <1>9, <1>16, <1>17, <2>2
<1>19. ASSUME DOMAIN h[other].decls = {} PROVE Settled(h2) = Settled(h)
  <2>1. \A a \in Live(h2) : h2[a].parent = h[a].parent /\ a \in Live(h)
    BY <1>1, <1>6, <1>7, <1>19
  <2> DEFINE B == Settled(h2) \ Settled(h)
  <2>2. B = {}
    <3> SUFFICES ASSUME B # {} PROVE FALSE
      OBVIOUS
    <3>1. B \in SUBSET Live(h)
      BY <1>13, <1>16
    <3>2. PICK a \in B : h[a].parent \notin B
      BY <1>0, <3>1 DEF Rooted, Grounded
    <3> QED BY <1>9, <1>16, <2>1, <3>2
  <2> QED BY <1>18, <2>2
<1>20. Sourced(h2)
  <2>1. Apart(h) \cap Live(h2) \subseteq Apart(h2) /\ \A a \in Live(h2) : h2[a].src = h[a].src
    BY <1>4, <1>7, <1>8 DEF HasMerged
  <2> QED BY <1>0, <1>13, <2>1, SourcedKept
<1>21. Untemp(h2)
  <2> SUFFICES ASSUME NEW a \in Live(h2), a # Global PROVE Temp \notin DOMAIN h2[a].decls
    BY DEF Untemp
  <2>1. a # into => h2[a].decls = h[a].decls
    BY <1>4 DEF HasMerged
  <2>2. DOMAIN h2[into].decls \subseteq DOMAIN h[into].decls \cup DOMAIN h[other].decls
    BY <1>4 DEF HasMerged
  <2>3. a \in Live(h) /\ Temp \notin DOMAIN h[other].decls /\ Temp \notin DOMAIN h[a].decls
    BY <1>0, <1>13 DEF Untemp
  <2> QED BY <2>1, <2>2, <2>3
<1>22. \A a \in Live(h2) : h2[a].ports = h[a].ports
  BY <1>5, <1>7, <1>13
<1> QED BY <1>13, <1>15, <1>17, <1>18, <1>19, <1>20, <1>21, <1>22 DEF Fit, HasJoined

LEMMA MergeKeeps ==
  ASSUME NEW h, Good(h), NEW into, NEW other, ToMerge(h, into, other), into \in Apart(h), into # Global => Untried(h, into),
         NEW h2, h2 = Merge(h, into, other).heap
  PROVE  /\ Good(h2) /\ \A hs : Held(h, hs) => Held(h2, hs)
         /\ into # Global => Untried(h2, into)
         /\ DOMAIN h[other].decls = {} => Quiet(h, h2)
<1>1. Fit(h2) /\ HasJoined(h, into, other, h2) /\ HasMerged(h, into, other, Merge(h, into, other).ok, h2)
  BY JoinIs, MergeIs DEF Good
<1>2. PICK S : Valid(h, S) /\ (into # Global => into \notin S)
  BY SettledValid DEF Untried
<1>3. /\ Live(h2) \subseteq Live(h) /\ Settled(h) \subseteq Settled(h2) /\ \A a \in Settled(h) : h2[a].parent = h[a].parent
      /\ \A a \in Live(h2) : h2[a].ports = h[a].ports
      /\ \A a \in Live(h2) : h2[a].src = h[a].src /\ (a # into => h2[a].decls = h[a].decls)
      /\ \A n \in DOMAIN h[into].decls : n \in DOMAIN h2[into].decls /\ h2[into].decls[n] = h[into].decls[n]
      /\ DOMAIN h2[into].decls \subseteq DOMAIN h[into].decls \cup DOMAIN h[other].decls
  BY <1>1 DEF HasJoined, HasMerged
<1>4. Settled(h2) \subseteq Live(h2) /\ h[Global].parent = Nowhere /\ Rooted(h) /\ Rooted(h2)
  BY <1>1, SettledIs DEF Fit, Rooted, Good
<1>5. Global \in S /\ S \subseteq Settled(h) /\ Closed(h, S, Identifiers) /\ \A d \in Live(h) : h[d].ports = "valid" => d \in S
  BY <1>2 DEF Valid
<1>6. ASSUME NEW n PROVE Keeps(h, h2, S, n)
  <2> SUFFICES ASSUME NEW a \in S
               PROVE  /\ a \in Live(h2) /\ h2[a].parent = h[a].parent
                      /\ n \in DOMAIN h[a].decls => n \in DOMAIN h2[a].decls /\ h2[a].decls[n] = h[a].decls[n]
                      /\ n \in DOMAIN h2[a].decls => n \in DOMAIN h[a].decls \/ h[a].parent = Nowhere
    BY DEF Keeps
  <2>1. a \in Live(h2) /\ h2[a].parent = h[a].parent
    BY <1>3, <1>4, <1>5
  <2>2. CASE a # into
    BY <1>3, <2>1, <2>2
  <2>3. CASE a = into
    BY <1>2, <1>3, <1>4, <2>1, <2>3
  <2> QED BY <2>2, <2>3
<1>7. Kept(h, h2, S)
  BY <1>3, <1>4, <1>5, <1>6 DEF Kept
<1>8. \A d \in Live(h2) : h2[d].ports = "valid" => d \in S /\ Right(h, d)
  BY <1>3, <1>5 DEF Good, AllRight
<1>9. Good(h2) /\ \A hs : Held(h, hs) => Held(h2, hs)
  BY <1>1, <1>7, <1>8, KeptGood
<1>10. ASSUME into # Global PROVE Untried(h2, into)
  <2>1. into \notin S /\ S \subseteq Live(h2) /\ \A a \in S : h2[a].decls = h[a].decls /\ h2[a].parent = h[a].parent
    BY <1>2, <1>3, <1>4, <1>5, <1>10
  <2>2. Closed(h2, S, Identifiers)
    BY <1>5, <2>1 DEF Closed
  <2>3. Valid(h2, S)
    BY <1>3, <1>5, <2>2 DEF Valid
  <2> QED BY <2>1, <2>3 DEF Untried
<1>11. ASSUME DOMAIN h[other].decls = {} PROVE Quiet(h, h2)
  <2>1. Settled(h2) = Settled(h)
    BY <1>1, <1>11 DEF HasJoined
  <2>2. Aside(h, h2)
    <3> SUFFICES ASSUME NEW a \in Settled(h2)
                 PROVE  /\ h2[a].parent = h[a].parent /\ h2[a].src = h[a].src
                        /\ DOMAIN h2[a].decls = DOMAIN h[a].decls
                        /\ \A n \in DOMAIN h[a].decls : h2[a].decls[n] = h[a].decls[n]
      BY <2>1 DEF Aside
    <3>1. CASE a # into
      BY <1>3, <1>4, <2>1, <3>1
    <3>2. CASE a = into
      BY <1>3, <1>4, <1>11, <2>1, <3>2
    <3> QED BY <3>1, <3>2
  <2>3. \A d \in Live(h2) : h2[d].ports = "valid" => d \in Settled(h2) /\ Right(h, d)
    BY <1>5, <1>8, <2>1
  <2> QED BY <1>1, <2>2, <2>3 DEF Quiet
<1> QED BY <1>9, <1>10, <1>11

LEMMA MarkedCells ==
  ASSUME NEW h, Forest(h), NEW s \in Live(h), NEW n, NEW name, NEW h2, h2 = MarkCompilerGenerated(h, s, n, name)
  PROVE  /\ \A b \in Live(h) : h2[b].ports = h[b].ports
         /\ DOMAIN h2[s].decls \subseteq DOMAIN h[s].decls \cup {name}
<1>1. CASE n \notin DOMAIN h[s].decls
  BY <1>1 DEF MarkCompilerGenerated, Declares
<1>2. CASE n \in DOMAIN h[s].decls
  <2> DEFINE d == h[s].decls[n]
             f == With(Restrict(h[s].decls, DOMAIN h[s].decls \ {n}), name, d)
  <2>1. d \in Live(h)
    BY <1>2 DEF Forest, Owns
  <2>2. h2 = [h EXCEPT ![s].decls = f, ![d].name = name]
    BY <1>2 DEF MarkCompilerGenerated, Declares
  <2>3. DOMAIN f \subseteq DOMAIN h[s].decls \cup {name}
    BY DEF With, Over, Restrict
  <2> HIDE DEF d, f
  <2>4. \A b \in Live(h) : b \in Addr /\ DOMAIN h[b] = Fields
    BY LiveIs DEF Forest
  <2>5. DOMAIN h = Addr
    BY DEF Forest, Cells
  <2>6. ASSUME NEW b \in Live(h) PROVE h2[b].ports = h[b].ports
    BY <2>1, <2>2, <2>4, <2>5 DEF Fields
  <2>7. h2[s].decls = f
    BY <2>1, <2>2, <2>4, <2>5 DEF Fields
  <2> QED BY <2>3, <2>6, <2>7
<1> QED BY <1>1, <1>2

LEMMA MarkKeeps ==
  ASSUME NEW h, Good(h), NEW s, ToMark(h, s, "@list_fold"), s # Global, Untried(h, s),
         NEW h2, h2 = MarkCompilerGenerated(h, s, "list_fold", "@list_fold")
  PROVE  Good(h2) /\ \A hs : Held(h, hs) => Held(h2, hs)
<1>0. /\ Fit(h) /\ Rooted(h) /\ Sourced(h) /\ Untemp(h) /\ AllRight(h) /\ Forest(h) /\ s \in Live(h)
      /\ Global \in Live(h) /\ h[Global].parent = Nowhere
  BY DEF Good, Fit, Rooted, ToMark
<1>1. HasMarked(h, s, h2)
  BY MarkIs
<1>2. /\ \A b \in Live(h) : h2[b].ports = h[b].ports
      /\ DOMAIN h2[s].decls \subseteq DOMAIN h[s].decls \cup {"@list_fold"}
  BY <1>0, MarkedCells
<1>3. /\ Forest(h2) /\ Live(h2) = Live(h) /\ Apart(h2) = Apart(h)
      /\ \A b \in Live(h) : h2[b].parent = h[b].parent /\ h2[b].src = h[b].src /\ (b # s => h2[b].decls = h[b].decls)
  BY <1>1 DEF HasMarked
<1>4. Grounded(h2) /\ Settled(h2) = Settled(h)
  BY <1>0, <1>3, SettledSame
<1>5. Rooted(h2)
  BY <1>0, <1>3, <1>4 DEF Rooted
<1>6. Sourced(h2)
  <2>1. Live(h2) \subseteq Live(h) /\ Apart(h) \cap Live(h2) \subseteq Apart(h2)
    BY <1>3
  <2> QED BY <1>0, <1>3, <2>1, SourcedKept
<1>7. Untemp(h2)
  <2>1. "@list_fold" # Temp
    BY DEF Temp
  <2> QED BY <1>0, <1>2, <1>3, <2>1 DEF Untemp
<1>8. PICK S : Valid(h, S) /\ s \notin S
  BY DEF Untried
<1>9. S \subseteq Live(h) /\ S \subseteq Settled(h) /\ Closed(h, S, Identifiers) /\ Global \in S
      /\ \A d \in Live(h) : h[d].ports = "valid" => d \in S
  BY <1>8 DEF Valid, Closed
<1>10. \A n : Keeps(h, h2, S, n)
  BY <1>3, <1>8, <1>9 DEF Keeps
<1>11. Kept(h, h2, S)
  BY <1>3, <1>4, <1>9, <1>10 DEF Kept
<1>12. \A d \in Live(h2) : h2[d].ports = "valid" => d \in S /\ Right(h, d)
  BY <1>0, <1>2, <1>3, <1>9 DEF AllRight
<1> QED BY <1>5, <1>6, <1>7, <1>11, <1>12, KeptGood DEF Fit

\* A new declaration, of the program or of what is apart from it
LEMMA DeclaredCell ==
  ASSUME NEW h, Cells(h), NEW s \in Live(h), NEW a \in Addr, a \notin Live(h), NEW name, NEW src,
         NEW h2, h2 = NewDeclaration(h, s, a, name, src)
  PROVE  /\ h2[a] = Cell(name, s, src) /\ \A b \in Live(h) : h2[b].ports = h[b].ports
         /\ DOMAIN h2[s].decls = DOMAIN h[s].decls \cup {name}
         /\ \A n \in DOMAIN h[s].decls : n # name => h2[s].decls[n] = h[s].decls[n]
<1> DEFINE c == Cell(name, s, src)
           g == [h EXCEPT ![a] = c]
<1>1. s # a /\ s \in Addr /\ DOMAIN h = Addr
  BY LiveIs DEF Cells
<1>2. c.name = name
  BY DEF Cell
<1> HIDE DEF c
<1>3. g[a] = c /\ DOMAIN g = Addr /\ \A b \in Live(h) : g[b] = h[b] /\ b \in Addr /\ b # a
  BY <1>1 DEF Live
<1>4. h2 = [g EXCEPT ![s].decls = With(g[s].decls, name, a)]
  BY <1>2, <1>3 DEF NewDeclaration, AddDeclaration, c
<1> HIDE DEF g
<1>5. h2[a] = c /\ \A b \in Live(h) : b # s => h2[b] = h[b]
  BY <1>1, <1>3, <1>4
<1> DEFINE f == With(h[s].decls, name, a)
<1>6. DOMAIN f = DOMAIN h[s].decls \cup {name} /\ \A n \in DOMAIN h[s].decls : n # name => f[n] = h[s].decls[n]
  BY DEF With, Over
<1> HIDE DEF f
<1>7. h2[s] = [h[s] EXCEPT !.decls = f]
  BY <1>1, <1>3, <1>4 DEF f
<1>8. DOMAIN h[s] = Fields
  BY LiveIs
<1>9. h2[s].decls = f /\ h2[s].ports = h[s].ports
  BY <1>7, <1>8 DEF Fields
<1> QED BY <1>5, <1>6, <1>9 DEF c

LEMMA AllocateFit ==
  ASSUME NEW h, Fit(h), NEW a \in Addr, a \notin Live(h), NEW name, NEW parent \in Settled(h), NEW src,
         Written(src) \/ Unwritten(src), NEW h2, h2 = Allocated(h, a, Cell(name, parent, src))
  PROVE  /\ Fit(h2) /\ Settled(h2) = Settled(h) \cup {a} /\ Live(h2) = Live(h) \cup {a}
         /\ h2[a] = Cell(name, parent, src) /\ \A b \in Live(h) : h2[b] = h[b]
<1> DEFINE c == Cell(name, parent, src)
<1>0. /\ Rooted(h) /\ Sourced(h) /\ Untemp(h) /\ Forest(h) /\ a # Nowhere /\ Global \in Live(h) /\ h[Global].parent = Nowhere
      /\ parent \in Live(h)
  BY AddrAssumption, SettledIs DEF Fit, Rooted
<1>1. c.live = TRUE /\ DOMAIN c = Fields /\ c.parent = parent /\ c.src = src /\ c.decls = NoDecls
  BY DEF Cell, Fields
<1> HIDE DEF c
<1>2. HasAllocated(h, a, c, h2)
  BY <1>0, <1>1, AllocateIs DEF ToAllocate, c
<1>3. /\ Forest(h2) /\ Live(h2) = Live(h) \cup {a} /\ Apart(h2) = Apart(h) \cup {a}
      /\ h2[a] = c /\ \A b \in Live(h) : h2[b] = h[b]
  BY <1>2 DEF HasAllocated
<1>4. Grows(h, h2, a) /\ h2[a].parent \in Settled(h)
  BY <1>0, <1>1, <1>3 DEF Grows
<1>5. Grounded(h2) /\ Settled(h2) = Settled(h) \cup {a}
  <2>1. ASSUME NEW g, Grows(h, g, a), g[a].parent \in Settled(h)
        PROVE  Grounded(g) /\ Settled(g) = Settled(h) \cup {a}
    BY <1>0, <2>1, SettledMore
  <2> QED BY <1>4, <2>1
<1>6. Rooted(h2)
  BY <1>0, <1>3, <1>5 DEF Rooted
<1>7. Sourced(h2)
  <2> SUFFICES ASSUME NEW x \in Live(h2)
               PROVE  (Written(h2[x].src) \/ Unwritten(h2[x].src)) /\ (Declared(h2, x) => Written(h2[x].src))
    BY DEF Sourced
  <2>1. CASE x = a
    <3>1. ~Declared(h2, x)
      BY <1>3, <2>1 DEF Apart
    <3> QED BY <1>1, <1>3, <2>1, <3>1
  <2>2. CASE x \in Live(h)
    <3>1. Declared(h2, x) => Declared(h, x)
      BY <1>3, <2>2 DEF Apart
    <3> QED BY <1>0, <1>3, <2>2, <3>1 DEF Sourced
  <2> QED BY <1>3, <2>1, <2>2
<1>8. Untemp(h2)
  <2>1. DOMAIN h2[a].decls = {}
    BY <1>1, <1>3 DEF NoDecls
  <2> QED BY <1>0, <1>3, <2>1 DEF Untemp
<1> QED BY <1>3, <1>5, <1>6, <1>7, <1>8 DEF Fit, c

LEMMA DeclareFit ==
  ASSUME NEW h, Fit(h), NEW s \in Settled(h), NEW a \in Addr, a \notin Live(h), NEW name, name \notin DOMAIN h[s].decls,
         name = Temp => s = Global, NEW src, Written(src), NEW h2, h2 = NewDeclaration(h, s, a, name, src)
  PROVE  /\ Fit(h2) /\ Settled(h2) = Settled(h) \cup {a} /\ Live(h2) = Live(h) \cup {a} /\ h2[a] = Cell(name, s, src)
         /\ \A b \in Live(h) : h2[b].parent = h[b].parent /\ h2[b].src = h[b].src /\ h2[b].ports = h[b].ports
         /\ \A b \in Live(h) : b # s => h2[b].decls = h[b].decls
         /\ DOMAIN h2[s].decls = DOMAIN h[s].decls \cup {name}
         /\ \A n \in DOMAIN h[s].decls : h2[s].decls[n] = h[s].decls[n]
<1>0. /\ Rooted(h) /\ Sourced(h) /\ Untemp(h) /\ Forest(h) /\ a # Nowhere /\ Global \in Live(h) /\ h[Global].parent = Nowhere
      /\ s \in Live(h) /\ Cells(h)
  BY AddrAssumption, SettledIs DEF Fit, Rooted, Forest
<1>1. HasDeclared(h, s, a, name, h2)
  BY <1>0, NewDeclarationIs
<1>2. /\ h2[a] = Cell(name, s, src) /\ \A b \in Live(h) : h2[b].ports = h[b].ports
      /\ DOMAIN h2[s].decls = DOMAIN h[s].decls \cup {name}
      /\ \A n \in DOMAIN h[s].decls : n # name => h2[s].decls[n] = h[s].decls[n]
  BY <1>0, DeclaredCell
<1>3. /\ Forest(h2) /\ Live(h2) = Live(h) \cup {a} /\ Apart(h2) = Apart(h)
      /\ \A b \in Live(h) : h2[b].parent = h[b].parent /\ h2[b].src = h[b].src /\ (b # s => h2[b].decls = h[b].decls)
  BY <1>1 DEF HasDeclared
<1>4. h2[a].parent = s /\ h2[a].src = src /\ h2[a].decls = NoDecls
  BY <1>2 DEF Cell
<1>5. Grows(h, h2, a) /\ h2[a].parent \in Settled(h)
  BY <1>0, <1>3, <1>4 DEF Grows
<1>6. Grounded(h2) /\ Settled(h2) = Settled(h) \cup {a}
  BY <1>0, <1>5, SettledMore
<1>7. Rooted(h2)
  BY <1>0, <1>3, <1>6 DEF Rooted
<1>8. Sourced(h2)
  <2> SUFFICES ASSUME NEW x \in Live(h2)
               PROVE  (Written(h2[x].src) \/ Unwritten(h2[x].src)) /\ (Declared(h2, x) => Written(h2[x].src))
    BY DEF Sourced
  <2>1. CASE x = a
    BY <1>4, <2>1
  <2>2. CASE x \in Live(h)
    <3>1. Declared(h2, x) => Declared(h, x)
      BY <1>3, <2>2 DEF Apart
    <3> QED BY <1>0, <1>3, <2>2, <3>1 DEF Sourced
  <2> QED BY <1>3, <2>1, <2>2
<1>9. Untemp(h2)
  <2>1. DOMAIN h2[a].decls = {}
    BY <1>4 DEF NoDecls
  <2> QED BY <1>0, <1>2, <1>3, <2>1 DEF Untemp
<1> QED BY <1>2, <1>3, <1>6, <1>7, <1>8, <1>9 DEF Fit

\* The temporary declaration comes...
LEMMA TempDeclared ==
  ASSUME NEW h, Good(h), NEW a \in Addr, a \notin Live(h), Temp \notin DOMAIN h[Global].decls, NEW src, Written(src),
         NEW h2, h2 = NewDeclaration(h, Global, a, Temp, src)
  PROVE  Good(h2) /\ Settled(h2) = Settled(h) \cup {a} /\ \A hs : Held(h, hs) => Held(h2, hs)
<1> DEFINE S == Settled(h)
<1>0. Fit(h) /\ Rooted(h) /\ Global \in S /\ h[Global].parent = Nowhere /\ AllRight(h) /\ S \subseteq Live(h)
      /\ Closed(h, S, Identifiers)
  BY SettledIs DEF Good, Fit, Rooted
<1>1. /\ Fit(h2) /\ Settled(h2) = Settled(h) \cup {a} /\ Live(h2) = Live(h) \cup {a} /\ h2[a] = Cell(Temp, Global, src)
      /\ \A b \in Live(h) : h2[b].parent = h[b].parent /\ h2[b].src = h[b].src /\ h2[b].ports = h[b].ports
      /\ \A b \in Live(h) : b # Global => h2[b].decls = h[b].decls
      /\ DOMAIN h2[Global].decls = DOMAIN h[Global].decls \cup {Temp}
      /\ \A n \in DOMAIN h[Global].decls : h2[Global].decls[n] = h[Global].decls[n]
  BY <1>0, DeclareFit
<1> HIDE DEF S
<1>2. \A n \in Identifiers : Keeps(h, h2, S, n)
  <2> SUFFICES ASSUME NEW n \in Identifiers PROVE Keeps(h, h2, S, n)
    OBVIOUS
  <2>1. n # Temp
    BY DEF Identifiers
  <2> QED BY <1>0, <1>1, <2>1 DEF Keeps
<1>3. Kept(h, h2, S)
  BY <1>0, <1>1, <1>2 DEF Kept, S
<1>4. h2[a].ports = "unchecked"
  BY <1>1 DEF Cell
<1>5. \A d \in Live(h2) : h2[d].ports = "valid" => d \in S /\ Right(h, d)
  BY <1>0, <1>1, <1>4 DEF AllRight, Right, S
<1> QED BY <1>1, <1>3, <1>5, KeptGood

LEMMA RemovedPorts ==
  ASSUME NEW h, Forest(h), NEW s \in Live(h), NEW n \in DOMAIN h[s].decls, s \notin Within(h, h[s].decls[n]),
         NEW b \in Live(h), b \notin Within(h, h[s].decls[n])
  PROVE  Removed(h, s, n)[b].ports = h[b].ports
<1> DEFINE d == h[s].decls[n]
           g == Destroy(h, d)
<1>1. d \in Live(h) /\ Cells(h) /\ Nested(h)
  BY DEF Forest, Owns
<1>2. Live(g) = Live(h) \ Within(h, d) /\ \A x \in Live(g) : g[x] = h[x]
  BY <1>1, DestroyKeeps
<1>3. b \in Live(g) /\ g[b] = h[b] /\ DOMAIN h[b] = Fields /\ b \in Addr /\ DOMAIN g = Addr
  BY <1>1, <1>2, LiveIs DEF Destroy
<1>4. Removed(h, s, n) = [g EXCEPT ![s].decls = Restrict(g[s].decls, DOMAIN g[s].decls \ {n})]
  BY DEF Removed
<1> HIDE DEF g, d
<1> QED BY <1>3, <1>4 DEF Fields

\* ...and goes
LEMMA TempRemoved ==
  ASSUME NEW h, Good(h), Temp \in DOMAIN h[Global].decls, NEW h2, h2 = Removed(h, Global, Temp)
  PROVE  Good(h2) /\ \A hs : Held(h, hs) => Held(h2, hs)
<1> DEFINE t == h[Global].decls[Temp]
           W == Within(h, t)
           S == Settled(h) \ W
<1>0. /\ Fit(h) /\ Rooted(h) /\ Sourced(h) /\ Untemp(h) /\ AllRight(h) /\ Forest(h) /\ Owns(h)
      /\ Global \in Live(h) /\ h[Global].parent = Nowhere
  BY DEF Good, Fit, Rooted, Forest
<1>1. t \in Live(h) /\ h[t].parent = Global /\ t # Global
  <2>1. t \in Live(h) /\ h[t].parent = Global
    BY <1>0 DEF Owns
  <2>2. Global # Nowhere
    BY DEF Global, Nowhere
  <2> QED BY <1>0, <2>1, <2>2
<1> HIDE DEF t
<1>2. Global \notin W
  BY <1>0, <1>1, NotWithin
<1>3. /\ W \subseteq Live(h) /\ \A a \in Live(h) : h[a].parent \in W => a \in W
      /\ \A a \in W : a = t \/ h[a].parent \in W
  BY <1>1, WithinIs
<1>4. /\ Forest(h2) /\ Live(h2) = Live(h) \ W /\ Apart(h2) = Apart(h) \ W
      /\ \A b \in Live(h2) : /\ h2[b].parent = h[b].parent /\ h2[b].src = h[b].src
                             /\ b # Global => h2[b].decls = h[b].decls
      /\ DOMAIN h2[Global].decls = DOMAIN h[Global].decls \ {Temp}
      /\ \A m \in DOMAIN h[Global].decls \ {Temp} : h2[Global].decls[m] = h[Global].decls[m]
  BY <1>0, <1>2, RemoveIs DEF t
<1>5. \A b \in Live(h2) : h2[b].ports = h[b].ports
  BY <1>0, <1>2, <1>4, RemovedPorts DEF t
<1> HIDE DEF W
<1>6. Grounded(h2) /\ Settled(h2) = S
  BY <1>0, <1>2, <1>3, <1>4, SettledLess
<1>7. Rooted(h2)
  BY <1>0, <1>2, <1>4, <1>6 DEF Rooted
<1>8. Sourced(h2)
  <2>1. Apart(h) \cap Live(h2) \subseteq Apart(h2) /\ Live(h2) \subseteq Live(h)
    BY <1>4
  <2> QED BY <1>0, <1>4, <2>1, SourcedKept
<1>9. Untemp(h2)
  BY <1>0, <1>4 DEF Untemp
<1>10. /\ Settled(h) \subseteq Live(h) /\ Global \in Settled(h) /\ \A P : Closed(h, Settled(h), P)
  BY <1>0, SettledIs
<1>11. Closed(h, S, Identifiers)
  <2>1. ASSUME NEW a \in S PROVE h[a].parent \in S \cup {Nowhere}
    BY <1>3, <1>10 DEF Closed
  <2>2. ASSUME NEW a \in S, NEW n \in DOMAIN h[a].decls \cap Identifiers PROVE h[a].decls[n] \in S
    <3>1. h[a].decls[n] \in Settled(h)
      BY <1>10 DEF Closed
    <3>2. h[h[a].decls[n]].parent = a /\ h[h[a].decls[n]].name = n
      BY <1>0, <1>10 DEF Owns
    <3>3. h[t].name = Temp /\ n # Temp
      BY <1>0 DEF Owns, t, Identifiers
    <3> QED BY <1>3, <3>1, <3>2, <3>3
  <2> QED BY <1>10, <2>1, <2>2 DEF Closed
<1>12. \A n \in Identifiers : Keeps(h, h2, S, n)
  <2> SUFFICES ASSUME NEW n \in Identifiers PROVE Keeps(h, h2, S, n)
    OBVIOUS
  <2>1. n # Temp
    BY DEF Identifiers
  <2>2. \A a \in S : a \in Live(h2) /\ h2[a].parent = h[a].parent /\ (a # Global => h2[a].decls = h[a].decls)
    BY <1>4, <1>10
  <2> HIDE DEF S
  <2> QED BY <1>4, <2>1, <2>2 DEF Keeps
<1>13. Kept(h, h2, S)
  BY <1>2, <1>4, <1>6, <1>10, <1>11, <1>12 DEF Kept
<1>14. \A d \in Live(h2) : h2[d].ports = "valid" => d \in S /\ Right(h, d)
  BY <1>0, <1>4, <1>5 DEF AllRight, Right
<1> HIDE DEF S
<1>15. Fit(h2)
  BY <1>7, <1>8, <1>9 DEF Fit
<1> QED BY <1>13, <1>14, <1>15, KeptGood

HasContext(h, s, i, h2) ==
  /\ Fit(h2) /\ Settled(h2) = Settled(h) \cup {s, i} /\ Live(h2) = Live(h) \cup {s, i}
  /\ h2[i].ports = "unchecked" /\ h2[s].ports = "unchecked"
  /\ \A b \in Live(h) : /\ h2[b].parent = h[b].parent /\ h2[b].src = h[b].src /\ h2[b].ports = h[b].ports
                        /\ h2[b].decls = h[b].decls

LEMMA ContextFit ==
  ASSUME NEW h, Fit(h), NEW s \in Addr, s \notin Live(h), NEW i \in Addr, i \notin Live(h), i # s,
         NEW none, NEW src, Unwritten(src), NEW n, n # Temp, NEW indexer, Written(indexer),
         NEW h2, h2 = NewDeclaration(Allocated(h, s, Cell(none, Global, src)), s, i, n, indexer)
  PROVE  HasContext(h, s, i, h2)
<1> DEFINE g == Allocated(h, s, Cell(none, Global, src))
<1>1. Global \in Settled(h)
  BY SettledIs DEF Fit
<1>2. /\ Fit(g) /\ Settled(g) = Settled(h) \cup {s} /\ Live(g) = Live(h) \cup {s}
      /\ g[s] = Cell(none, Global, src) /\ \A b \in Live(h) : g[b] = h[b]
  BY <1>1, AllocateFit
<1>3. h2 = NewDeclaration(g, s, i, n, indexer)
  OBVIOUS
<1> HIDE DEF g
<1>4. g[s].decls = NoDecls /\ g[s].ports = "unchecked"
  BY <1>2 DEF Cell
<1>5. DOMAIN g[s].decls = {}
  BY <1>4 DEF NoDecls
<1>6. /\ Fit(h2) /\ Settled(h2) = Settled(g) \cup {i} /\ Live(h2) = Live(g) \cup {i} /\ h2[i] = Cell(n, s, indexer)
      /\ \A b \in Live(g) : h2[b].parent = g[b].parent /\ h2[b].src = g[b].src /\ h2[b].ports = g[b].ports
      /\ \A b \in Live(g) : b # s => h2[b].decls = g[b].decls
  <2>1. i \notin Live(g) /\ s \in Settled(g) /\ n \notin DOMAIN g[s].decls
    BY <1>2, <1>5
  <2> QED BY <1>2, <1>3, <2>1, DeclareFit
<1>7. h2[i].ports = "unchecked"
  BY <1>6 DEF Cell
<1>8. \A b \in Live(h) : g[b] = h[b] /\ b \in Live(g) /\ b # s
  BY <1>2
<1> QED BY <1>2, <1>4, <1>6, <1>7, <1>8 DEF HasContext

\* A context lies in the global scope, which does not declare it
LEMMA ContextMade ==
  ASSUME NEW h, Good(h), NEW s, s \notin Live(h), NEW i, NEW h2, HasContext(h, s, i, h2)
  PROVE  Good(h2) /\ Untried(h2, s) /\ \A hs : Held(h, hs) => Held(h2, hs)
<1> DEFINE S == Settled(h)
<1>0. /\ Fit(h) /\ Rooted(h) /\ AllRight(h) /\ Global \in S /\ S \subseteq Live(h) /\ Closed(h, S, Identifiers)
  BY SettledIs DEF Good, Fit
<1>1. /\ Fit(h2) /\ S \subseteq Settled(h2) /\ Live(h2) = Live(h) \cup {s, i}
      /\ h2[i].ports = "unchecked" /\ h2[s].ports = "unchecked"
      /\ \A b \in Live(h) : /\ h2[b].parent = h[b].parent /\ h2[b].src = h[b].src /\ h2[b].ports = h[b].ports
                            /\ h2[b].decls = h[b].decls /\ b \in Live(h2)
  BY DEF HasContext
<1>2. Kept(h, h2, S)
  <2> HIDE DEF S
  <2>1. \A m \in Identifiers : Keeps(h, h2, S, m)
    BY <1>0, <1>1 DEF Keeps
  <2> QED BY <1>0, <1>1, <2>1 DEF Kept
<1>3. \A d \in Live(h2) : h2[d].ports = "valid" => d \in S /\ Right(h, d)
  BY <1>0, <1>1 DEF AllRight, Right
<1>4. Good(h2) /\ \A hs : Held(h, hs) => Held(h2, hs)
  BY <1>1, <1>2, <1>3, KeptGood
<1>5. Untried(h2, s)
  <2>1. Closed(h2, S, Identifiers)
    BY <1>0, <1>1 DEF Closed
  <2>2. S \subseteq Settled(h2) /\ s \notin S
    BY <1>0, <1>1
  <2>3. Valid(h2, S)
    BY <1>0, <1>3, <2>1, <2>2 DEF Valid
  <2> QED BY <2>2, <2>3 DEF Untried
<1> QED BY <1>4, <1>5

-----------------------------------------------------------------------------
(* The steps of the interpreter.                                           *)

\* A lookup that has no cache to go by finds what the scope declares
LEMMA FindDeclared ==
  ASSUME NEW h, Rooted(h), NEW c, c.marked = TRUE, NEW s \in Live(h), NEW m \in Names, m \in DOMAIN h[s].decls
  PROVE  Find(h, c, s, <<m>>, FALSE).decl = h[s].decls[m]
<1> DEFINE e == [entries |-> {}, marked |-> FALSE]
           n == 1
           p == <<m>>
           S == Live(h)
           V == Lookups(h, S)
           b == [decl |-> s, cache |-> e]
           Op(last, x) == IF last.decl = Nowhere THEN last ELSE FindIdentifier(h, last.cache, last.decl, x, FALSE)
           T == [x \in V \X (1 .. n) |-> Op(x[1], p[x[2]])]
           Eq(f) == f = [P \in SUBSET (DOMAIN p) |-> IF P = {} THEN b ELSE Op(f[P \ {Max(P)}], p[Max(P)])]
           f == CHOOSE g : Eq(g)
           Stored(r) == IF r.decl = Nowhere THEN r ELSE [r EXCEPT !.cache = Remember(@, {s}, p, r.decl)]
<1>0. /\ Forest(h) /\ Reach(h, S, FALSE) /\ e \in UsableCaches(h) /\ Nowhere \notin Live(h) /\ Live(h) \subseteq Addr
      /\ h[s].decls[m] \in Live(h)
  BY LiveFinite DEF Rooted, Reach, UsableCaches, Agrees, Caches, Forest, Owns
<1>1. n \in Nat /\ DOMAIN p = 1 .. n /\ \A k \in 1 .. n : p[k] = m
  OBVIOUS
<1>2. b \in V
  BY <1>0 DEF Lookups
<1>3. ASSUME NEW r \in V PROVE Op(r, m) \in V
  <2>1. CASE r.decl = Nowhere
    BY <2>1
  <2>2. CASE r.decl # Nowhere
    <3>1. r.decl \in S /\ r.cache \in UsableCaches(h)
      BY <2>2 DEF Lookups
    <3> QED BY <1>0, <2>2, <3>1, FindIdentifierIs
  <2> QED BY <2>1, <2>2
<1>4. Find(h, c, s, p, FALSE) = Stored(f[DOMAIN p])
  <2>1. Fresh(c) = e
    BY DEF Fresh
  <2>2. Hits(e, s, p) = {}
    BY DEF Hits
  <2> HIDE DEF e
  <2>3. FindPath(h, e, s, p, FALSE) = Stored(f[DOMAIN p])
    BY <2>2 DEF FindPath, FoldLeft, MapThenFoldSet
  <2> QED BY <2>1, <2>3 DEF Find
<1>14. b.decl = s /\ b.cache = e
  OBVIOUS
<1> HIDE DEF n, V, b, Op, p, e
<1>5. T \in [V \X (1 .. n) -> V] /\ \A r \in V, k \in 1 .. n : T[<<r, k>>] = Op(r, p[k])
  BY <1>1, <1>3
<1> HIDE DEF T
<1>6. ToFold(n, V, b, T)
  BY <1>1, <1>2, <1>5 DEF ToFold
<1>7. \E F : Eq(F)
  <2>1. PICK F : Folds(F, n, V, b, T)
    BY <1>6, FoldExists
  <2>2. ASSUME NEW P \in SUBSET (1 .. n), P # {} PROVE F[P] = Op(F[P \ {Max(P)}], p[Max(P)])
    <3>1. Max(P) \in 1 .. n /\ F[P \ {Max(P)}] \in V
      BY <1>1, <2>1, <2>2, MaxIs DEF Folds
    <3> QED BY <1>5, <2>1, <2>2, <3>1 DEF Folds, FoldStep
  <2>3. F[{}] = b
    BY <2>1 DEF Folds, FoldStep
  <2> QED BY <1>1, <2>1, <2>2, <2>3 DEF Folds
<1>8. Eq(f)
  <2> HIDE DEF Eq
  <2> QED BY <1>7
<1> HIDE DEF f
<1>9. f[DOMAIN p] = Op(b, m)
  <2>1. 1 .. n \in SUBSET (1 .. n) /\ 1 .. n # {} /\ {} \in SUBSET (1 .. n)
    BY DEF n
  <2>2. Max(1 .. n) = 1 /\ (1 .. n) \ {1} = {} /\ 1 \in 1 .. n
    <3>1. \A k \in Nat : k # 0 => Max(1 .. k) = k
      BY MaxUpTo
    <3>4. n # 0
      BY DEF n
    <3>2. (1 .. 1) \ {1} = {} /\ 1 \in 1 .. 1
      OBVIOUS
    <3>5. Max(1 .. n) = n
      BY <1>1, <3>1, <3>4
    <3> QED BY <3>2, <3>5 DEF n
  <2>3. f[{}] = b
    BY <1>1, <1>8, <2>1
  <2>4. f[1 .. n] = Op(f[(1 .. n) \ {Max(1 .. n)}], p[Max(1 .. n)])
    BY <1>1, <1>8, <2>1
  <2> QED BY <1>1, <2>2, <2>3, <2>4
<1>10. Op(b, m) = [decl |-> h[s].decls[m], cache |-> e]
  <2>1. s # Nowhere
    BY <1>0
  <2> QED BY <1>14, <2>1 DEF Op, FindIdentifier, Declares
<1>11. h[s].decls[m] # Nowhere
  BY <1>0
<1>12. Find(h, c, s, p, FALSE).decl = h[s].decls[m]
  <2> DEFINE d == h[s].decls[m]
             r == Op(b, m)
  <2>1. r = [decl |-> d, cache |-> e] /\ d # Nowhere
    BY <1>10, <1>11
  <2>2. Find(h, c, s, p, FALSE) = Stored(r)
    BY <1>4, <1>9
  <2> HIDE DEF d, r
  <2>3. Stored(r) = [r EXCEPT !.cache = Remember(@, {s}, p, r.decl)] /\ r.decl = d
    BY <2>1
  <2>4. Stored(r).decl = d
    BY <2>1, <2>3
  <2> QED BY <2>2, <2>4 DEF d
<1> QED BY <1>12 DEF p

\* Nothing that is being built lies in the global scope
LEMMA FramesApart ==
  ASSUME Inv
  PROVE  Rooted(heap) => /\ Building \cap Settled(heap) = {}
                         /\ \A k \in DOMAIN frames : frames[k].at \notin Settled(heap)
<1> SUFFICES ASSUME Rooted(heap) PROVE Building \cap Settled(heap) = {}
  BY DEF Building
<1> DEFINE A == Building \cap Settled(heap)
<1>1. /\ Settled(heap) \subseteq Live(heap) /\ Nowhere \notin Settled(heap)
      /\ \A a \in Settled(heap) : a = Global \/ heap[a].parent \in Settled(heap)
  BY SettledIs
<1> SUFFICES ASSUME A # {} PROVE FALSE
  OBVIOUS
<1>2. PICK a \in A : heap[a].parent \notin A
  BY <1>1 DEF Rooted, Grounded
<1>3. PICK k \in DOMAIN frames : a = frames[k].at
  BY DEF Building
<1>4. a # Global /\ heap[a].parent \in Settled(heap)
  BY <1>1, <1>3, FramesAre
<1>5. k = 1 \/ (k > 1 /\ k - 1 \in DOMAIN frames)
  <2>1. Len(frames) \in Nat /\ DOMAIN frames = 1 .. Len(frames)
    BY FramesAre
  <2> QED BY <2>1
<1>6. CASE k = 1
  <2>1. frames # <<>>
    BY <1>6
  <2> QED BY <1>1, <1>3, <1>4, <1>6, <2>1, FramesAre
<1>7. CASE k > 1 /\ k - 1 \in DOMAIN frames
  <2>1. heap[a].parent = frames[k - 1].at
    BY <1>3, <1>7, FramesAre
  <2> QED BY <1>2, <1>4, <1>7, <2>1 DEF Building
<1> QED BY <1>5, <1>6, <1>7

\* What lies apart from the global scope has nothing of it
LEMMA ApartDisjoint ==
  ASSUME NEW h, Rooted(h), NEW d \in Live(h), d \notin Settled(h)
  PROVE  Within(h, d) \cap Settled(h) = {}
<1> DEFINE A == Within(h, d) \cap Settled(h)
<1>1. /\ Settled(h) \subseteq Live(h) /\ \A a \in Settled(h) : a = Global \/ h[a].parent \in Settled(h)
      /\ Global \in Settled(h)
  BY SettledIs
<1>2. /\ Within(h, d) \subseteq Live(h) /\ \A a \in Within(h, d) : a = d \/ h[a].parent \in Within(h, d)
  BY WithinIs
<1>3. Nowhere \notin Live(h) /\ h[Global].parent = Nowhere
  BY LiveFinite DEF Rooted
<1> SUFFICES ASSUME A # {} PROVE FALSE
  OBVIOUS
<1>4. PICK a \in A : h[a].parent \notin A
  BY <1>1 DEF Rooted, Grounded
<1>5. a # d /\ h[a].parent \in Within(h, d)
  BY <1>2
<1>6. a # Global
  BY <1>2, <1>3, <1>5
<1> QED BY <1>1, <1>4, <1>5, <1>6

\* Lookups are right, and were when the host was given its declarations
Look == Good(heap) /\ cache \in SoundCaches(heap) /\ Held(heap, handles)
\* What is being built has a source that the parser made
FramesFit ==
  \A k \in DOMAIN frames : k > 1 =>
    Written(heap[frames[k].at].src) /\ heap[frames[k].at].name # Temp /\ frames[k].next \in Nat \ {0}
\* The cache is to be cleared before what has been built is merged
MarkedFit == Len(frames) = 1 /\ frames[1].ret = OK /\ frames[1].next # 1 => cache.marked = TRUE
\* What a call is to compile are declarations of the program
TodoFit(h, t) ==
  /\ t.phase = "compile" => t.todo \in Seq(ToCompile(h))
  /\ t.phase # "compile" => t.todo = <<>>
  /\ t.phase = "types" => t.api = "compile_declaration" /\ t.types \in Seq(ToCompile(h))
ExpressionDeclared(h, d) == Temp \in DOMAIN h[Global].decls /\ d = h[Global].decls[Temp]
\* ...the host's, or that of its expression
DeclFit(h, t, hs) ==
  /\ t.api = "compile_declaration" => \E x \in hs : x[2] = t.decl
  /\ t.second = TRUE => t.api \in ExpressionApis
  /\ t.api \in ExpressionApis =>
       /\ t.expr.uses \in Uses
       /\ t.second = TRUE \/ (t.phase = "compile" /\ t.error = OK) => ExpressionDeclared(h, t.decl)
\* While list_fold is loaded into it no verdict depends on what the context declares
FoldFit(h, t) == t.phase \in {"list_fold", "fold"} => Untried(h, t.ctx)
TaskFit == Compiles => TodoFit(heap, task) /\ DeclFit(heap, task, handles) /\ FoldFit(heap, task)
LookInv == Look /\ FramesFit /\ MarkedFit /\ TaskFit

LEMMA MarkedSound == ASSUME NEW h, NEW c \in Caches, c.marked = TRUE PROVE c \in SoundCaches(h)
BY DEF SoundCaches, Sound

LEMMA Marked ==
  ASSUME NEW h, NEW c \in SoundCaches(h)
  PROVE  /\ [c EXCEPT !.marked = TRUE] \in Caches /\ [c EXCEPT !.marked = TRUE].marked = TRUE
         /\ c \in Caches /\ c.marked \in BOOLEAN
BY DEF SoundCaches, Sound, Caches

\* Steps that are of no matter to any lookup
LEMMA QuietLook ==
  ASSUME Look, Quiet(heap, heap'), handles' = handles,
         cache' \in SoundCaches(heap) \/ (cache' \in Caches /\ cache'.marked = TRUE)
  PROVE  Look'
<1>1. Good(heap) /\ Held(heap, handles)
  BY DEF Look
<1>2. Good(heap') /\ SoundCaches(heap) \subseteq SoundCaches(heap') /\ Held(heap', handles)
  BY <1>1, QuietKeeps
<1>3. cache' \in SoundCaches(heap')
  BY <1>2, MarkedSound
<1> QED BY <1>2, <1>3 DEF Look

LEMMA SameLook ==
  ASSUME Look, heap' = heap, handles' = handles, cache' \in SoundCaches(heap)
  PROVE  Look'
BY DEF Look

\* ...and those that mark the cache for clearing
LEMMA KeptLook ==
  ASSUME Look, Good(heap'), \A hs : Held(heap, hs) => Held(heap', hs), handles' = handles,
         cache' \in Caches, cache'.marked = TRUE
  PROVE  Look'
<1>1. cache' \in SoundCaches(heap')
  BY MarkedSound
<1>2. Held(heap', handles')
  BY DEF Look
<1> QED BY <1>1, <1>2 DEF Look

LEMMA RestFits ==
  ASSUME Look', frames' = <<>>, TaskFit' PROVE LookInv'
<1>1. DOMAIN <<>> = {} /\ Len(<<>>) = 0
  OBVIOUS
<1> QED BY <1>1 DEF LookInv, FramesFit, MarkedFit

\* ...when nothing is being compiled
LEMMA IdleFits ==
  ASSUME Look', frames' = <<>>, task' = Idle \/ DOMAIN task' = LoadFields PROVE LookInv'
<1>1. ~Compiles'
  <2>1. "ctx" \in CompileFields /\ "ctx" \notin LoadFields /\ "ctx" \notin DOMAIN Idle
    BY IdleIs DEF LoadFields, CompileFields
  <2> QED BY <2>1 DEF Compiles
<1> QED BY <1>1, RestFits DEF TaskFit

\* What may be compiled
LEMMA HeldToCompile ==
  ASSUME NEW h, Rooted(h), NEW hs, Held(h, hs), NEW x \in hs
  PROVE  x[2] \in ToCompile(h)
<1>1. x[1] \in Seq(Identifiers) \ {<<>>} /\ x[2] \in Live(h) /\ Named(h, Global, x[1]) = x[2]
  BY DEF Held
<1>2. x[1] \in Seq(Names) /\ x[1] # <<>>
  BY <1>1, NamesAre
<1>3. Closed(h, Settled(h), Names) /\ Global \in Settled(h) /\ Forest(h) /\ Grounded(h) /\ Nowhere \notin Live(h)
  BY SettledIs, LiveFinite DEF Rooted
<1>4. \A p \in Seq(Names) : /\ Named(h, Global, p) \in Settled(h) \cup {Nowhere}
                            /\ p # <<>> /\ Named(h, Global, p) # Nowhere => Declared(h, Named(h, Global, p))
  BY <1>3, NamedWithin
<1> QED BY <1>1, <1>2, <1>3, <1>4 DEF ToCompile

LEMMA ExpressionToCompile ==
  ASSUME NEW h, Rooted(h), NEW d, ExpressionDeclared(h, d)
  PROVE  d \in ToCompile(h)
BY SettledIs, DeclaredIs DEF ExpressionDeclared

-----------------------------------------------------------------------------
(* The host's calls.                                                       *)

LEMMA StartLook ==
  ASSUME Inv, LookInv, NEW t, Start(t),
         \/ DOMAIN t = LoadFields
         \/ TodoFit(heap, t) /\ DeclFit(heap, t, handles) /\ FoldFit(heap, t)
  PROVE  LookInv'
<1>1. /\ task = Idle /\ task' = t /\ heap' = heap /\ cache' = cache /\ handles' = handles /\ frames' = frames
  BY DEF Start
<1>2. frames = <<>>
  BY <1>1, NoFrames
<1>3. Look'
  BY <1>1 DEF LookInv, Look
<1>4. CASE DOMAIN t = LoadFields
  BY <1>1, <1>2, <1>3, <1>4, IdleFits
<1>5. CASE TodoFit(heap, t) /\ DeclFit(heap, t, handles) /\ FoldFit(heap, t)
  <2>1. TaskFit'
    BY <1>1, <1>5 DEF TaskFit
  <2> QED BY <1>1, <1>2, <1>3, <2>1, RestFits
<1> QED BY <1>4, <1>5

LEMMA LoadStarts ==
  ASSUME Inv, LookInv, LoadString \/ LoadFiles \/ LoadPackage \/ LoadPackages \/ LoadPrelude
  PROVE  LookInv'
<1>1. \A api, groups : DOMAIN Loading(api, groups) = LoadFields
  BY DEF Loading, LoadFields
<1>2. CASE \E t : Start(t) /\ DOMAIN t = LoadFields
  BY <1>2, StartLook
<1>3. CASE LoadString
  <2>1. PICK f \in Strings : Start([Loading("load_string", <<OneFile(f)>>) EXCEPT !.phase = "string"])
    BY <1>3 DEF LoadString
  <2> DEFINE t == [Loading("load_string", <<OneFile(f)>>) EXCEPT !.phase = "string"]
  <2>2. DOMAIN t = LoadFields
    BY <1>1
  <2> QED BY <1>2, <2>1, <2>2
<1>4. CASE LoadFiles \/ LoadPackage \/ LoadPackages
  BY <1>1, <1>2, <1>4 DEF LoadFiles, LoadPackage, LoadPackages
<1>5. CASE LoadPrelude
  <2>1. CASE Start(Loading("load_prelude", <<Group("Prelude")>>))
    BY <1>1, <1>2, <2>1
  <2>2. CASE /\ preludeLoaded /\ Answer("PRELUDE_ALREADY_LOADED")
             /\ UNCHANGED <<heap, cache, parseOnly, preludeLoaded, handles, hostContext>>
    <3>1. /\ task = Idle /\ task' = Idle /\ frames' = frames /\ heap' = heap /\ cache' = cache /\ handles' = handles
      BY <2>2 DEF Answer
    <3>2. frames = <<>> /\ Look'
      BY <3>1, NoFrames DEF LookInv, Look
    <3> QED BY <3>1, <3>2, IdleFits
  <2> QED BY <1>5, <2>1, <2>2 DEF LoadPrelude
<1> QED BY <1>3, <1>4, <1>5

LEMMA CompileStarts ==
  ASSUME Inv, LookInv,
         \/ CompileDeclaration \/ ContextCreate \/ Simplify
         \/ ExpressionCall("compile_expression") \/ ExpressionCall("typeof_expression")
  PROVE  LookInv'
<1>0. Rooted(heap) /\ Held(heap, handles)
  BY DEF LookInv, Look, Good, Fit
<1>1. ASSUME NEW api, NEW d, NEW e, DeclFit(heap, Compiling(api, d, e), handles), Start(Compiling(api, d, e))
      PROVE  LookInv'
  <2> DEFINE t == Compiling(api, d, e)
  <2>1. t.phase = "context" /\ t.todo = <<>>
    BY DEF Compiling
  <2> HIDE DEF t
  <2>2. TodoFit(heap, t) /\ FoldFit(heap, t)
    BY <2>1 DEF TodoFit, FoldFit
  <2>3. DeclFit(heap, t, handles) /\ Start(t)
    BY <1>1 DEF t
  <2> QED BY <2>2, <2>3, StartLook
<1>2. ASSUME CompileDeclaration PROVE LookInv'
  <2>1. PICK h \in handles : Start(Compiling("compile_declaration", h[2], NoExpression))
    BY <1>2 DEF CompileDeclaration
  <2> DEFINE t == Compiling("compile_declaration", h[2], NoExpression)
  <2>2. t.api = "compile_declaration" /\ t.decl = h[2] /\ t.second = FALSE
    BY DEF Compiling
  <2> HIDE DEF t
  <2>3. DeclFit(heap, t, handles)
    BY <2>2 DEF DeclFit, ExpressionApis
  <2> QED BY <1>1, <2>1, <2>3 DEF t
<1>3. ASSUME ContextCreate PROVE LookInv'
  <2> DEFINE t == Compiling("context_create", Nowhere, NoExpression)
  <2>1. t.api = "context_create" /\ t.second = FALSE
    BY DEF Compiling
  <2> HIDE DEF t
  <2>2. DeclFit(heap, t, handles)
    BY <2>1 DEF DeclFit, ExpressionApis
  <2>3. Start(t)
    BY <1>3 DEF ContextCreate, t
  <2> QED BY <1>1, <2>2, <2>3 DEF t
<1>4. ASSUME NEW api \in ExpressionApis, ExpressionCall(api) PROVE LookInv'
  <2>1. PICK e \in Expressions : Start(Compiling(api, Nowhere, e))
    BY <1>4 DEF ExpressionCall
  <2> DEFINE t == Compiling(api, Nowhere, e)
  <2>2. t.api = api /\ t.expr = e /\ t.second = FALSE /\ t.phase = "context"
    BY DEF Compiling
  <2>3. e.uses \in Uses
    BY DeclarationsAssumption
  <2> HIDE DEF t
  <2>4. DeclFit(heap, t, handles)
    BY <2>2, <2>3 DEF DeclFit, ExpressionApis
  <2> QED BY <1>1, <2>1, <2>4 DEF t
<1>5. ASSUME Simplify PROVE LookInv'
  <2>1. PICK h \in handles :
          Start([Compiling("simplify", h[2], NoExpression) EXCEPT !.phase = "compile", !.ctx = hostContext, !.todo = <<h[2]>>])
    BY <1>5 DEF Simplify
  <2> DEFINE t == [Compiling("simplify", h[2], NoExpression) EXCEPT !.phase = "compile", !.ctx = hostContext, !.todo = <<h[2]>>]
  <2>2. t.api = "simplify" /\ t.phase = "compile" /\ t.todo = <<h[2]>> /\ t.second = FALSE
    BY DEF Compiling
  <2>3. h[2] \in ToCompile(heap)
    BY <1>0, HeldToCompile
  <2> HIDE DEF t
  <2>4. TodoFit(heap, t) /\ DeclFit(heap, t, handles) /\ FoldFit(heap, t)
    BY <2>2, <2>3 DEF TodoFit, DeclFit, FoldFit, ExpressionApis
  <2>5. Start(t)
    BY <2>1 DEF t
  <2> QED BY <2>4, <2>5, StartLook
<1> QED BY <1>2, <1>3, <1>4, <1>5 DEF ExpressionApis

\* What is found is held by the host
LEMMA FindingHeld ==
  ASSUME NEW h, Good(h), Temp \notin DOMAIN h[Global].decls, NEW hs, Held(h, hs), NEW p \in Seq(Names), p # <<>>,
         NEW d, d \in ToCompile(h), d = Named(h, Global, p)
  PROVE  Held(h, hs \cup {<<p, d>>})
<1>1. Rooted(h) /\ Untemp(h)
  BY DEF Good, Fit
<1>2. Closed(h, Settled(h), Names) /\ Global \in Settled(h) /\ Forest(h) /\ Grounded(h) /\ Nowhere \notin Live(h)
      /\ Settled(h) \subseteq Live(h)
  BY <1>1, SettledIs, LiveFinite DEF Rooted
<1>3. d \in Live(h) /\ d # Nowhere
  BY <1>2 DEF ToCompile
<1>4. p \in Seq(Identifiers)
  <2>1. ASSUME NEW k \in 1 .. Len(p) PROVE p[k] \in Identifiers
    <3>1. \E a \in Live(h) : p[k] \in DOMAIN h[a].decls
      BY <1>2, <1>3, NamedFound
    <3>2. p[k] # Temp
      BY <1>1, <3>1 DEF Untemp
    <3>3. p[k] \in Names
      OBVIOUS
    <3> QED BY <3>2, <3>3 DEF Identifiers
  <2> QED BY <2>1
<1>5. ASSUME NEW x \in hs \cup {<<p, d>>}
      PROVE  x[1] \in Seq(Identifiers) \ {<<>>} /\ x[2] \in Live(h) /\ Named(h, Global, x[1]) = x[2]
  BY <1>3, <1>4 DEF Held
<1> QED BY <1>5 DEF Held

LEMMA AnswerLook ==
  ASSUME Inv, LookInv, (\E b \in BOOLEAN : SetParseOnly(b)) \/ (\E p \in Paths : FindDeclaration(p)) \/ ContextDelete
  PROVE  LookInv'
<1>2. task = Idle /\ task' = Idle /\ frames' = <<>>
  <2>1. task = Idle /\ task' = Idle /\ frames' = frames
    BY DEF SetParseOnly, Answer, ContextDelete, FindDeclaration
  <2> QED BY <2>1, NoFrames
<1>3. Good(heap) /\ cache \in SoundCaches(heap) /\ Held(heap, handles) /\ Look /\ Rooted(heap)
  BY DEF LookInv, Look, Good, Fit
<1>4. ASSUME NEW b \in BOOLEAN, SetParseOnly(b) PROVE Look'
  BY <1>3, <1>4, SameLook DEF SetParseOnly
<1>5. ASSUME ContextDelete PROVE Look'
  <2>1. hostContext # Nowhere /\ heap' = Destroy(heap, hostContext) /\ cache' = cache /\ handles' = handles
    BY <1>5 DEF ContextDelete
  <2>2. hostContext \in Apart(heap) /\ hostContext # Global
    BY <2>1, RootsAre DEF HostScope
  <2>3. Quiet(heap, heap')
    BY <1>3, <2>1, <2>2, DestroyQuiet
  <2> QED BY <1>3, <2>1, <2>3, QuietLook
<1>6. ASSUME NEW p \in Paths, FindDeclaration(p) PROVE Look'
  <2> DEFINE r == Find(heap, cache, Global, p, FALSE)
  <2>1. /\ heap' = heap /\ cache' = r.cache
        /\ handles' = IF r.decl = Nowhere THEN handles ELSE handles \cup {<<p, r.decl>>}
    BY <1>6 DEF FindDeclaration
  <2>2. p \in Seq(Names) /\ p # <<>> /\ Global \in Live(heap) /\ Global \in Settled(heap)
    BY <1>3, SettledIs, RootsAre, DeclarationsAssumption
  <2>3. \A q \in Seq(Names), s \in Live(heap), e \in SoundCaches(heap) :
          /\ Find(heap, e, s, q, FALSE) \in [decl : Addr \cup {Nowhere}, cache : SoundCaches(heap)]
          /\ s \in Settled(heap) =>
               /\ Find(heap, e, s, q, FALSE).decl # Nowhere => Find(heap, e, s, q, FALSE).decl = Named(heap, s, q)
               /\ q # <<>> => Find(heap, e, s, q, FALSE).decl \in ToCompile(heap) \cup {Nowhere}
    BY <1>3, FindIs
  <2>4. /\ r \in [decl : Addr \cup {Nowhere}, cache : SoundCaches(heap)]
        /\ r.decl # Nowhere => r.decl = Named(heap, Global, p) /\ r.decl \in ToCompile(heap)
    BY <1>3, <2>2, <2>3
  <2> HIDE DEF r
  <2>5. Temp \notin DOMAIN heap[Global].decls
    BY <1>2, IdleIs DEF Inv, TempInv, Compiles, CompileFields
  <2>6. Held(heap, handles')
    <3>1. CASE r.decl = Nowhere
      BY <1>3, <2>1, <3>1
    <3>2. CASE r.decl # Nowhere
      <4>1. Held(heap, handles \cup {<<p, r.decl>>})
        BY <1>3, <2>2, <2>4, <2>5, <3>2, FindingHeld
      <4> QED BY <2>1, <3>2, <4>1
    <3> QED BY <3>1, <3>2
  <2>7. r.cache \in SoundCaches(heap)
    BY <2>4
  <2> QED BY <1>3, <2>1, <2>6, <2>7 DEF Look
<1>7. Look'
  BY <1>4, <1>5, <1>6
<1> QED BY <1>2, <1>7, IdleFits

-----------------------------------------------------------------------------
(* Loading.                                                                *)

LEMMA RootFits ==
  ASSUME Look', NEW a, frames' = <<RootFrame(a)>>, TaskFit' PROVE LookInv'
<1>1. Len(frames') = 1 /\ DOMAIN frames' = {1} /\ frames'[1].next = 1
  BY DEF RootFrame
<1>2. FramesFit' /\ MarkedFit'
  BY <1>1 DEF FramesFit, MarkedFit
<1> QED BY <1>2 DEF LookInv

LEMMA AllocatedApart ==
  ASSUME NEW h, Good(h), NEW a \in Addr, a \notin Live(h), NEW name, NEW src, Unwritten(src),
         NEW h2, h2 = Allocated(h, a, Cell(name, Nowhere, src))
  PROVE  /\ Quiet(h, h2) /\ Settled(h2) = Settled(h) /\ Live(h2) = Live(h) \cup {a}
         /\ h2[a] = Cell(name, Nowhere, src) /\ \A b \in Live(h) : h2[b] = h[b]
<1>1. Rooted(h)
  BY DEF Good, Fit
<1>2. Nowhere \notin Settled(h)
  BY <1>1, SettledIs
<1> QED BY <1>2, AllocateQuiet

\* A scope that is to be built is of no matter yet
LEMMA RootQuiet ==
  ASSUME NEW h, Good(h), NEW a \in Unused(h), NEW ds \in Seq(Declarations), NEW h2, h2 = [h EXCEPT ![a] = Root(ds)]
  PROVE  /\ Quiet(h, h2) /\ Settled(h2) = Settled(h)
         /\ \A b \in Live(h2) : h2[b].ports = "valid" => b \in Live(h) /\ h[b].ports = "valid"
<1> DEFINE src == [kind |-> "scope", inner |-> ds, params |-> <<>>]
           none == ""
           c == Cell(none, Nowhere, src)
<1>1. a \in Addr /\ a \notin Live(h) /\ Rooted(h)
  BY UnusedIs DEF Good, Fit
<1>2. Unwritten(src)
  BY DEF Unwritten
<1>3. c.ports = "unchecked"
  BY DEF Cell
<1>4. h2 = Allocated(h, a, c)
  BY DEF Allocated, Root
<1> HIDE DEF src, none
<1>5. Nowhere \notin Settled(h)
  BY <1>1, SettledIs
<1>6. /\ Quiet(h, h2) /\ Settled(h2) = Settled(h) /\ Live(h2) = Live(h) \cup {a}
      /\ h2[a] = Cell(none, Nowhere, src) /\ \A b \in Live(h) : h2[b] = h[b]
  <2> HIDE DEF c
  <2>1. \A g : g = Allocated(h, a, Cell(none, Nowhere, src)) =>
          /\ Quiet(h, g) /\ Settled(g) = Settled(h) /\ Live(g) = Live(h) \cup {a}
          /\ g[a] = Cell(none, Nowhere, src) /\ \A b \in Live(h) : g[b] = h[b]
    BY <1>1, <1>2, AllocatedApart
  <2> QED BY <1>4, <2>1 DEF c
<1> HIDE DEF c
<1>7. h2[a].ports = "unchecked"
  BY <1>3, <1>6 DEF c
<1> QED BY <1>6, <1>7

LEMMA LoadLook ==
  ASSUME Inv, LookInv, NextFile \/ EndGroup \/ EndLoad
  PROVE  LookInv'
<1>1. Loads /\ frames = <<>>
  BY KindIs DEF NextFile, EndGroup, EndLoad
<1>2. DOMAIN task = LoadFields /\ Look /\ Good(heap) /\ cache \in SoundCaches(heap)
  BY <1>1 DEF Loads, LookInv, Look
<1>3. cache' = cache /\ handles' = handles
  BY DEF NextFile, EndGroup, EndLoad
<1>4. CASE EndGroup \/ EndLoad
  <2>1. heap' = heap /\ frames' = <<>>
    BY <1>1, <1>4 DEF EndGroup, EndLoad
  <2>2. task' = Idle \/ DOMAIN task' = LoadFields
    BY <1>2, <1>4 DEF EndGroup, EndLoad
  <2> QED BY <1>2, <1>3, <2>1, <2>2, SameLook, IdleFits
<1>5. CASE NextFile
  <2>1. PICK f \in Head(task.groups).files :
          \/ /\ task' = [[task EXCEPT !.groups[1].files = @ \ {f}] EXCEPT !.ret = KeepFirst(@, FileError(f))]
             /\ UNCHANGED <<heap, frames>>
          \/ /\ \E a \in Unused(heap) : Allocate(a, Root(Files[f].decls)) /\ frames' = <<RootFrame(a)>>
             /\ task' = [task EXCEPT !.groups[1].files = @ \ {f}]
    BY <1>5 DEF NextFile
  <2>2. DOMAIN task' = LoadFields
    BY <1>2, <2>1
  <2>3. CASE UNCHANGED <<heap, frames>>
    BY <1>1, <1>2, <1>3, <2>2, <2>3, SameLook, IdleFits
  <2>4. ASSUME NEW a \in Unused(heap), Allocate(a, Root(Files[f].decls)), frames' = <<RootFrame(a)>> PROVE LookInv'
    <3>1. f \in DOMAIN Files
      <4>1. task.groups \in Groups /\ task.groups # <<>>
        BY <1>1, <1>5 DEF Loads, NextFile
      <4> DEFINE G == [exists : BOOLEAN, files : SUBSET DOMAIN Files]
      <4>2. Head(task.groups) \in G
        <5>1. task.groups \in Seq(G)
          BY <4>1 DEF Groups
        <5> HIDE DEF G
        <5> QED BY <4>1, <5>1
      <4> QED BY <4>2
    <3>2. Files[f].decls \in Seq(Declarations)
      BY <3>1, DeclarationsAssumption
    <3>3. heap' = [heap EXCEPT ![a] = Root(Files[f].decls)]
      BY <2>4 DEF Allocate
    <3>4. Quiet(heap, heap')
      BY <1>2, <3>2, <3>3, RootQuiet
    <3>5. Look'
      BY <1>2, <1>3, <3>4, QuietLook
    <3>6. TaskFit'
      <4>1. ~Compiles'
        BY <2>2 DEF Compiles, LoadFields, CompileFields
      <4> QED BY <4>1 DEF TaskFit
    <3> QED BY <2>4, <3>5, <3>6, RootFits
  <2> QED BY <2>1, <2>3, <2>4
<1> QED BY <1>4, <1>5

\* The declaration of an expression stays
LEMMA DeclFitKept ==
  ASSUME NEW h, NEW t, NEW hs, DeclFit(h, t, hs), NEW h2, NEW t2,
         t2.api = t.api, t2.decl = t.decl, t2.expr = t.expr, t2.second = TRUE => t.second = TRUE,
         t2.phase = "compile" /\ t2.error = OK /\ t.api \in ExpressionApis =>
           t.second = TRUE \/ (t.phase = "compile" /\ t.error = OK),
         Temp \in DOMAIN h[Global].decls => Temp \in DOMAIN h2[Global].decls /\ h2[Global].decls[Temp] = h[Global].decls[Temp]
  PROVE  DeclFit(h2, t2, hs)
BY DEF DeclFit, ExpressionDeclared

LEMMA GlobalKept ==
  ASSUME NEW h, NEW h2, Quiet(h, h2)
  PROVE  DOMAIN h2[Global].decls = DOMAIN h[Global].decls /\ \A n \in DOMAIN h[Global].decls : h2[Global].decls[n] = h[Global].decls[n]
<1>1. Global \in Settled(h2) /\ Aside(h, h2)
  BY SettledIs DEF Quiet, Fit
<1> QED BY <1>1 DEF Aside

LEMMA ListFoldLook ==
  ASSUME Inv, LookInv, LoadListFold
  PROVE  LookInv'
<1>1. Compiles /\ task.phase = "list_fold" /\ DOMAIN task = CompileFields
  BY KindIs DEF LoadListFold, Compiles
<1>2. Look /\ Good(heap) /\ cache \in SoundCaches(heap) /\ TodoFit(heap, task) /\ DeclFit(heap, task, handles)
      /\ FoldFit(heap, task)
  BY <1>1 DEF LookInv, Look, TaskFit
<1>3. PICK a \in Unused(heap) : heap' = [heap EXCEPT ![a] = Root(<<ListFold>>)] /\ frames' = <<RootFrame(a)>>
  BY DEF LoadListFold, Allocate
<1>4. cache' = cache /\ handles' = handles /\ task' = [task EXCEPT !.phase = "fold"]
  BY DEF LoadListFold
<1>5. <<ListFold>> \in Seq(Declarations)
  BY DeclarationsAssumption
<1>6. /\ Quiet(heap, heap') /\ Settled(heap') = Settled(heap)
      /\ \A b \in Live(heap') : heap'[b].ports = "valid" => b \in Live(heap) /\ heap[b].ports = "valid"
  <2>1. ASSUME NEW ds \in Seq(Declarations), NEW h2, h2 = [heap EXCEPT ![a] = Root(ds)]
        PROVE  /\ Quiet(heap, h2) /\ Settled(h2) = Settled(heap)
               /\ \A b \in Live(h2) : h2[b].ports = "valid" => b \in Live(heap) /\ heap[b].ports = "valid"
    BY <1>2, <2>1, RootQuiet, ZenonT(30)
  <2> QED BY <1>3, <1>5, <2>1
<1>7. Look'
  BY <1>2, <1>4, <1>6, QuietLook
<1>8. /\ task'.phase = "fold" /\ task'.api = task.api /\ task'.decl = task.decl /\ task'.expr = task.expr
      /\ task'.second = task.second /\ task'.todo = task.todo /\ task'.ctx = task.ctx
  BY <1>1, <1>4 DEF CompileFields
<1>9. TodoFit(heap', task')
  BY <1>1, <1>2, <1>8 DEF TodoFit
<1>10. DeclFit(heap', task', handles)
  <2>1. Temp \in DOMAIN heap[Global].decls =>
          Temp \in DOMAIN heap'[Global].decls /\ heap'[Global].decls[Temp] = heap[Global].decls[Temp]
    BY <1>6, GlobalKept
  <2> QED BY <1>2, <1>8, <2>1, DeclFitKept
<1>11. Untried(heap, task.ctx)
  BY <1>1, <1>2 DEF FoldFit
<1>12. Untried(heap', task.ctx)
  BY <1>2, <1>6, <1>11, UntriedKept
<1>13. FoldFit(heap', task')
  BY <1>8, <1>12 DEF FoldFit
<1>14. TaskFit'
  BY <1>4, <1>9, <1>10, <1>13 DEF TaskFit
<1> QED BY <1>3, <1>7, <1>14, RootFits

-----------------------------------------------------------------------------
(* Building.                                                               *)

\* While declarations are built the call stays as it is
LEMMA BuildGoesOn ==
  ASSUME Inv, LookInv, frames # <<>>, task' = task, handles' = handles,
         Quiet(heap, heap'), Settled(heap') = Settled(heap),
         \A b \in Live(heap') : heap'[b].ports = "valid" => b \in Live(heap) /\ heap[b].ports = "valid"
  PROVE  TaskFit'
<1>1. CASE Loads
  <2>1. ~Compiles'
    BY <1>1 DEF Loads, Compiles, LoadFields, CompileFields
  <2> QED BY <2>1 DEF TaskFit
<1>2. CASE Compiles /\ task.phase = "fold"
  <2>1. Good(heap) /\ TodoFit(heap, task) /\ DeclFit(heap, task, handles) /\ FoldFit(heap, task)
    BY <1>2 DEF LookInv, Look, TaskFit
  <2>2. task.todo = <<>> /\ Untried(heap, task.ctx)
    BY <1>2, <2>1 DEF TodoFit, FoldFit
  <2>3. TodoFit(heap', task)
    BY <1>2, <2>2 DEF TodoFit
  <2>4. Temp \in DOMAIN heap[Global].decls =>
          Temp \in DOMAIN heap'[Global].decls /\ heap'[Global].decls[Temp] = heap[Global].decls[Temp]
    BY GlobalKept
  <2>5. DeclFit(heap', task, handles)
    BY <2>1, <2>4 DEF DeclFit, ExpressionDeclared
  <2>6. FoldFit(heap', task)
    <3>1. Untried(heap', task.ctx)
      BY <2>1, <2>2, UntriedKept
    <3> QED BY <3>1 DEF FoldFit
  <2> QED BY <2>3, <2>5, <2>6 DEF TaskFit
<1> QED BY <1>1, <1>2, FramesAre

LEMMA SourceIs ==
  ASSUME NEW h, Good(h), NEW s \in Live(h)
  PROVE  \A k \in 1 .. Len(h[s].src.inner) :
           Written(h[s].src.inner[k]) /\ h[s].src.inner[k].name # Temp
<1>1. h[s].src.inner \in Seq(Declarations)
  BY DEF Good, Fit, Sourced, Written, Unwritten
<1> SUFFICES ASSUME NEW k \in 1 .. Len(h[s].src.inner) PROVE Written(h[s].src.inner[k]) /\ h[s].src.inner[k].name # Temp
  OBVIOUS
<1>2. h[s].src.inner[k] \in Declarations
  BY <1>1
<1> QED BY <1>2, DeclarationsAssumption DEF Written, Identifiers

LEMMA EnterFrames ==
  ASSUME Inv, LookInv, BuildEnter
  PROVE  \E a \in Unused(heap) : \E src :
           /\ Written(src) /\ src.name # Temp
           /\ heap' = [heap EXCEPT ![a] = Cell(src.name, frames[Len(frames)].at, src)]
           /\ frames # <<>> /\ DOMAIN frames' = 1 .. (Len(frames) + 1) /\ Len(frames') = Len(frames) + 1
           /\ frames'[Len(frames) + 1].at = a /\ \A k \in 1 .. Len(frames) : frames'[k].at = frames[k].at
           /\ \A k \in 1 .. (Len(frames) + 1) : k > 1 => frames'[k].next \in Nat \ {0}
<1> DEFINE n == Len(frames)
           F == frames[n]
           src == Children(F)[F.next]
           g == [frames EXCEPT ![n].next = @ + 1]
<1>1. /\ frames \in Seq(Range(frames)) /\ n \in Nat \ {0} /\ DOMAIN frames = 1 .. n /\ n \in DOMAIN frames
      /\ frames # <<>> /\ Frame = F
  <2>1. frames # <<>> /\ Frame = F
    BY DEF BuildEnter, Frame, Last
  <2>2. frames \in Seq(Range(frames))
    BY FramesAre
  <2> QED BY <2>1, <2>2
<1>2. PICK a, e :
        /\ a \in Unused(heap) /\ heap' = [heap EXCEPT ![a] = Cell(src.name, F.at, src)]
        /\ frames' = Append(g, e) /\ e.at = a /\ e.next \in {1, Len(src.inner) + 1}
  <2> HIDE DEF src
  <2>1. \E a \in Unused(heap) : \E ok \in BOOLEAN :
          /\ Allocate(a, Cell(src.name, F.at, src))
          /\ frames' = Append(g, [at |-> a, next |-> IF ok THEN 1 ELSE Len(src.inner) + 1, ret |-> IF ok THEN OK ELSE "UNKNOWN"])
    BY <1>1 DEF BuildEnter, src
  <2>2. PICK a \in Unused(heap), ok \in BOOLEAN :
          /\ Allocate(a, Cell(src.name, F.at, src))
          /\ frames' = Append(g, [at |-> a, next |-> IF ok THEN 1 ELSE Len(src.inner) + 1, ret |-> IF ok THEN OK ELSE "UNKNOWN"])
    BY <2>1
  <2> DEFINE e == [at |-> a, next |-> IF ok THEN 1 ELSE Len(src.inner) + 1, ret |-> IF ok THEN OK ELSE "UNKNOWN"]
  <2>3. e.at = a /\ e.next \in {1, Len(src.inner) + 1}
    OBVIOUS
  <2>4. frames' = Append(g, e) /\ heap' = [heap EXCEPT ![a] = Cell(src.name, F.at, src)]
    BY <2>2 DEF Allocate
  <2> HIDE DEF e, g, F
  <2> QED BY <2>3, <2>4
<1>3. F.next <= Len(Children(F))
  BY <1>1 DEF BuildEnter
<1>4. \A k \in 1 .. n : frames[k].next \in Nat \ {0}
  <2>1. 1 \in DOMAIN frames /\ frames[1].next \in Nat \ {0}
    BY <1>1 DEF Inv, BaseInv
  <2>2. \A k \in 1 .. n : k > 1 => frames[k].next \in Nat \ {0}
    BY <1>1 DEF LookInv, FramesFit
  <2> QED BY <1>1, <2>1, <2>2
<1>5. /\ DOMAIN g = 1 .. n /\ g \in Seq(Range(g)) /\ Len(g) = n
      /\ \A k \in 1 .. n : g[k].at = frames[k].at /\ g[k].next \in Nat \ {0}
  <2>1. DOMAIN g = 1 .. n /\ g = [k \in 1 .. n |-> g[k]]
    BY <1>1
  <2>2. g \in Seq(Range(g)) /\ Len(g) = n
    <3>1. \A k \in 1 .. n : g[k] \in Range(g)
      BY <2>1 DEF Range
    <3> HIDE DEF g
    <3> QED BY <1>1, <2>1, <3>1
  <2>3. \A k \in 1 .. n : k # n => g[k] = frames[k]
    BY <1>1
  <2>4. g[n] = [frames[n] EXCEPT !.next = frames[n].next + 1]
    BY <1>1
  <2>5. DOMAIN frames[n] = FrameFields
    BY <1>1, FramesAre
  <2>6. g[n].at = frames[n].at /\ g[n].next = frames[n].next + 1
    BY <1>1, <2>4, <2>5 DEF FrameFields
  <2>7. g[n].next \in Nat \ {0}
    BY <1>1, <1>4, <2>6
  <2> HIDE DEF g
  <2> QED BY <1>4, <2>1, <2>2, <2>3, <2>6, <2>7
<1> HIDE DEF g
<1>6. /\ DOMAIN frames' = 1 .. (n + 1) /\ Len(frames') = n + 1 /\ frames'[n + 1] = e
      /\ \A k \in 1 .. n : frames'[k] = g[k]
  BY <1>1, <1>2, <1>5
<1>7. Written(src) /\ src.name # Temp
  <2>1. Good(heap) /\ F.at \in Live(heap)
    BY <1>1, FramesAre DEF LookInv, Look
  <2>2. F.next \in 1 .. Len(Children(F))
    <3>1. F.next \in Nat \ {0}
      BY <1>1, <1>4
    <3>2. Len(Children(F)) \in Nat
      <4>1. heap[F.at].src.inner \in Seq(Declarations)
        BY <2>1 DEF Good, Fit, Sourced, Written, Unwritten
      <4> DEFINE ds == heap[F.at].src.inner
      <4>2. Children(F) = ds
        BY DEF Children
      <4> HIDE DEF ds
      <4> QED BY <4>1, <4>2 DEF ds
    <3> QED BY <1>3, <3>1, <3>2
  <2> HIDE DEF F
  <2> QED BY <2>1, <2>2, SourceIs DEF Children
<1>8. e.next \in Nat \ {0}
  <2>1. Len(src.inner) \in Nat
    <3> HIDE DEF src
    <3> QED BY <1>7 DEF Written
  <2>2. e.next = 1 \/ e.next = Len(src.inner) + 1
    BY <1>2
  <2> DEFINE m == Len(src.inner)
             x == e.next
  <2> HIDE DEF m, x
  <2>3. x \in Nat \ {0}
    <3>1. m \in Nat /\ (x = 1 \/ x = m + 1)
      BY <2>1, <2>2 DEF m, x
    <3> QED BY <3>1
  <2> QED BY <2>3 DEF x
<1>9. \A k \in 1 .. (n + 1) : k > 1 => frames'[k].next \in Nat \ {0}
  <2> SUFFICES ASSUME NEW k \in 1 .. (n + 1) PROVE frames'[k].next \in Nat \ {0}
    OBVIOUS
  <2>1. k = n + 1 \/ k \in 1 .. n
    BY <1>1
  <2> QED BY <1>5, <1>6, <1>8, <2>1
<1> HIDE DEF src
<1>10. /\ Written(src) /\ src.name # Temp
       /\ heap' = [heap EXCEPT ![a] = Cell(src.name, frames[Len(frames)].at, src)]
       /\ frames # <<>> /\ DOMAIN frames' = 1 .. (Len(frames) + 1) /\ Len(frames') = Len(frames) + 1
       /\ frames'[Len(frames) + 1].at = a /\ \A k \in 1 .. Len(frames) : frames'[k].at = frames[k].at
       /\ \A k \in 1 .. (Len(frames) + 1) : k > 1 => frames'[k].next \in Nat \ {0}
  BY <1>1, <1>2, <1>5, <1>6, <1>7, <1>9
<1> HIDE DEF n, F
<1> QED BY <1>2, <1>10

LEMMA EnterLook ==
  ASSUME Inv, LookInv, BuildEnter
  PROVE  LookInv'
<1> DEFINE n == Len(frames)
<1>1. PICK a, src :
           /\ a \in Unused(heap) /\ Written(src) /\ src.name # Temp
           /\ heap' = [heap EXCEPT ![a] = Cell(src.name, frames[n].at, src)]
           /\ frames # <<>> /\ DOMAIN frames' = 1 .. (n + 1) /\ Len(frames') = n + 1
           /\ frames'[n + 1].at = a /\ \A k \in 1 .. n : frames'[k].at = frames[k].at
           /\ \A k \in 1 .. (n + 1) : k > 1 => frames'[k].next \in Nat \ {0}
  BY EnterFrames
<1>2. /\ Look /\ Good(heap) /\ Rooted(heap) /\ cache \in SoundCaches(heap) /\ FramesFit
      /\ cache' = cache /\ handles' = handles /\ task' = task
  BY DEF LookInv, Look, Good, Fit, BuildEnter
<1>3. n \in Nat \ {0} /\ DOMAIN frames = 1 .. n /\ n \in DOMAIN frames
  <2>1. n \in Nat /\ DOMAIN frames = 1 .. n /\ 1 \in DOMAIN frames
    BY <1>1, FramesAre
  <2> QED BY <2>1
<1> DEFINE at == frames[n].at
           name == src.name
<1>4. at \in Live(heap) /\ at \notin Settled(heap) /\ a \in Addr /\ a \notin Live(heap)
  <2>1. a \in Addr /\ a \notin Live(heap)
    BY <1>1, UnusedIs
  <2>2. at \in Live(heap)
    BY <1>3, FramesAre
  <2>3. at \notin Settled(heap)
    BY <1>2, <1>3, FramesApart
  <2> QED BY <2>1, <2>2, <2>3
<1> HIDE DEF at, name
<1>5. /\ Quiet(heap, heap') /\ Settled(heap') = Settled(heap) /\ Live(heap') = Live(heap) \cup {a}
      /\ heap'[a] = Cell(name, at, src) /\ \A b \in Live(heap) : heap'[b] = heap[b]
  <2>1. \A g : g = Allocated(heap, a, Cell(name, at, src)) =>
          /\ Quiet(heap, g) /\ Settled(g) = Settled(heap) /\ Live(g) = Live(heap) \cup {a}
          /\ g[a] = Cell(name, at, src) /\ \A b \in Live(heap) : g[b] = heap[b]
    BY <1>1, <1>2, <1>4, AllocateQuiet
  <2>2. heap' = Allocated(heap, a, Cell(name, at, src))
    BY <1>1 DEF Allocated, name, at
  <2> QED BY <2>1, <2>2
<1>6. heap'[a].ports = "unchecked" /\ heap'[a].src = src /\ heap'[a].name = name
  BY <1>5 DEF Cell
<1>7. Look'
  BY <1>2, <1>5, QuietLook
<1>8. TaskFit'
  <2>1. \A b \in Live(heap') : heap'[b].ports = "valid" => b \in Live(heap) /\ heap[b].ports = "valid"
    BY <1>5, <1>6
  <2> QED BY <1>1, <1>2, <1>5, <2>1, BuildGoesOn
<1>9. FramesFit'
  <2> SUFFICES ASSUME NEW k \in 1 .. (n + 1), k > 1
               PROVE  /\ Written(heap'[frames'[k].at].src) /\ heap'[frames'[k].at].name # Temp
                      /\ frames'[k].next \in Nat \ {0}
    BY <1>1 DEF FramesFit
  <2>1. frames'[k].next \in Nat \ {0}
    BY <1>1
  <2>2. CASE k = n + 1
    BY <1>1, <1>6, <2>1, <2>2 DEF name
  <2>3. CASE k # n + 1
    <3>1. k \in 1 .. n /\ frames'[k].at = frames[k].at
      BY <1>1, <1>3, <2>3
    <3>2. heap'[frames[k].at] = heap[frames[k].at]
      BY <1>3, <1>5, <3>1, FramesAre
    <3>3. Written(heap[frames[k].at].src) /\ heap[frames[k].at].name # Temp
      BY <1>2, <1>3, <3>1 DEF FramesFit
    <3> QED BY <2>1, <3>1, <3>2, <3>3
  <2> QED BY <2>2, <2>3
<1>10. MarkedFit'
  <2>1. Len(frames') # 1
    BY <1>1, <1>3
  <2> QED BY <2>1 DEF MarkedFit
<1> QED BY <1>7, <1>8, <1>9, <1>10 DEF LookInv

LEMMA LeftCache ==
  ASSUME NEW h, NEW c \in SoundCaches(h), NEW b \in BOOLEAN, NEW e, e = [c EXCEPT !.marked = @ \/ b]
  PROVE  (b => e \in Caches /\ e.marked = TRUE) /\ (~b => e \in SoundCaches(h))
<1>1. c \in Caches /\ DOMAIN c = {"entries", "marked"} /\ c.marked \in BOOLEAN /\ c = [entries |-> c.entries, marked |-> c.marked]
  BY DEF SoundCaches, Sound, Caches
<1>2. e = [entries |-> c.entries, marked |-> c.marked \/ b]
  BY <1>1
<1>3. CASE b
  BY <1>1, <1>2, <1>3 DEF Caches
<1>4. CASE ~b
  <2>1. (c.marked \/ b) = c.marked
    BY <1>1, <1>4
  <2> QED BY <1>1, <1>2, <1>4, <2>1
<1> QED BY <1>3, <1>4

LEMMA LeaveLooks ==
  ASSUME Inv, LookInv, BuildLeave
  PROVE  \E ret :
           /\ frames' = [Front(frames) EXCEPT ![Len(frames) - 1].ret = KeepFirst(@, ret)]
           /\ \/ /\ ret = OK /\ heap' = AddDeclaration(heap, frames[Len(frames) - 1].at, frames[Len(frames)].at)
                 /\ heap[frames[Len(frames)].at].name \notin DOMAIN heap[frames[Len(frames) - 1].at].decls
                 /\ cache' \in Caches /\ cache'.marked = TRUE
              \/ ret # OK /\ heap' = Destroy(heap, frames[Len(frames)].at) /\ cache' \in SoundCaches(heap)
<1> DEFINE n == Len(frames)
           d == frames[n].at
           outer == frames[n - 1].at
           built == Finish(d, Frame.ret)
           ret == IF built.ret = OK /\ Declares(heap, outer, heap[d].name) THEN "UNKNOWN" ELSE built.ret
<1>1. Frame = frames[n] /\ n > 1 /\ frames # <<>>
  BY DEF BuildLeave, Frame, Last
<1>2. n \in DOMAIN frames /\ d \in Live(heap)
  <2>1. n \in Nat /\ DOMAIN frames = 1 .. n
    BY FramesAre
  <2>2. n \in DOMAIN frames
    BY <1>1, <2>1
  <2> QED BY <2>2, FramesAre
<1>3. built.cache \in SoundCaches(heap)
  <2>1. Written(heap[d].src)
    BY <1>1, <1>2 DEF LookInv, FramesFit
  <2>2. Rooted(heap) /\ cache \in SoundCaches(heap)
    BY DEF LookInv, Look, Good, Fit
  <2> HIDE DEF d
  <2>3. \A r : Finish(d, r).cache \in SoundCaches(heap)
    BY <1>2, <2>1, <2>2, FinishIs
  <2> QED BY <2>3
<1>4. /\ frames' = [Front(frames) EXCEPT ![n - 1].ret = KeepFirst(@, ret)]
      /\ heap' = IF ret = OK THEN AddDeclaration(heap, outer, d) ELSE Destroy(heap, d)
      /\ cache' = [built.cache EXCEPT !.marked = @ \/ ret = OK]
  BY <1>1 DEF BuildLeave
<1>5. ret = OK => heap[d].name \notin DOMAIN heap[outer].decls
  BY DEF Declares, OK
<1> HIDE DEF ret, built
<1>6. (ret = OK => cache' \in Caches /\ cache'.marked = TRUE) /\ (ret # OK => cache' \in SoundCaches(heap))
  <2> DEFINE b == ret = OK
  <2>1. b \in BOOLEAN /\ cache' = [built.cache EXCEPT !.marked = @ \/ b]
    BY <1>4
  <2> HIDE DEF b
  <2>2. (b => cache' \in Caches /\ cache'.marked = TRUE) /\ (~b => cache' \in SoundCaches(heap))
    <3>1. \A e : e = [built.cache EXCEPT !.marked = @ \/ b] =>
            (b => e \in Caches /\ e.marked = TRUE) /\ (~b => e \in SoundCaches(heap))
      <4>1. b \in BOOLEAN
        BY <2>1
      <4>2. ASSUME NEW c \in SoundCaches(heap), NEW e, e = [c EXCEPT !.marked = @ \/ b]
            PROVE  (b => e \in Caches /\ e.marked = TRUE) /\ (~b => e \in SoundCaches(heap))
        BY <4>1, <4>2, LeftCache
      <4> QED BY <1>3, <4>2
    <3> QED BY <2>1, <3>1
  <2> QED BY <2>2 DEF b
<1> QED BY <1>4, <1>5, <1>6

LEMMA LeaveLook ==
  ASSUME Inv, Inv', LookInv, BuildLeave
  PROVE  LookInv'
<1> DEFINE n == Len(frames)
           m == n - 1
           d == frames[n].at
           outer == frames[m].at
<1>1. /\ n \in Nat /\ n > 1 /\ m = n - 1 /\ DOMAIN frames = 1 .. n /\ n \in 1 .. n /\ m \in 1 .. n /\ frames # <<>>
  BY LeaveIs, FramesAre
<1>2. PICK ret :
        /\ frames' = [Front(frames) EXCEPT ![n - 1].ret = KeepFirst(@, ret)]
        /\ \/ /\ ret = OK /\ heap' = AddDeclaration(heap, outer, d)
              /\ heap[d].name \notin DOMAIN heap[outer].decls
              /\ cache' \in Caches /\ cache'.marked = TRUE
           \/ ret # OK /\ heap' = Destroy(heap, d) /\ cache' \in SoundCaches(heap)
  BY LeaveLooks
<1>3. /\ Len(frames') = m /\ DOMAIN frames' = 1 .. m /\ frames' # <<>>
      /\ \A k \in 1 .. m : frames'[k].at = frames[k].at /\ frames'[k].next = frames[k].next
      /\ frames'[m].ret = KeepFirst(frames[m].ret, ret)
  BY <1>1, <1>2, LeaveFrames
<1>4. /\ d \in Live(heap) /\ d \in Apart(heap) /\ d # Global /\ heap[d].parent = outer /\ d # outer
      /\ outer \in Live(heap) /\ outer # Global
  BY <1>1, FramesAre
<1>5. /\ Look /\ Good(heap) /\ Rooted(heap) /\ FramesFit
      /\ handles' = handles /\ task' = task
  BY DEF LookInv, Look, Good, Fit, BuildLeave
<1>6. d \notin Settled(heap) /\ outer \notin Settled(heap)
  BY <1>1, <1>5, FramesApart
<1>7. Written(heap[d].src) /\ heap[d].name # Temp
  BY <1>1, <1>5 DEF FramesFit
<1>8. \A k \in 1 .. m : k > 1 => Written(heap[frames[k].at].src) /\ heap[frames[k].at].name # Temp /\ frames[k].next \in Nat \ {0}
  BY <1>1, <1>5 DEF FramesFit
<1>9. \A k \in 1 .. m : frames'[k].at \in Live(heap')
  <2>1. Building' \subseteq Live(heap')
    BY DEF Inv, HeapInv, Apart
  <2> QED BY <1>3, <2>1 DEF Building
<1> HIDE DEF n, m, d, outer
<1>10. /\ Quiet(heap, heap') /\ Settled(heap') = Settled(heap)
       /\ \A b \in Live(heap') : /\ b \in Live(heap) /\ heap'[b].ports = heap[b].ports
                                 /\ heap'[b].src = heap[b].src /\ heap'[b].name = heap[b].name
       /\ ret = OK => cache' \in Caches /\ cache'.marked = TRUE
       /\ ret # OK => cache' \in SoundCaches(heap)
  <2>1. CASE ret = OK
    <3>1. ToAdd(heap, outer, d) /\ heap' = AddDeclaration(heap, outer, d) /\ cache' \in Caches /\ cache'.marked = TRUE
      BY <1>2, <1>4, <2>1, RootsAre DEF ToAdd
    <3>2. \A g : g = AddDeclaration(heap, outer, d) =>
            /\ Quiet(heap, g) /\ Settled(g) = Settled(heap) /\ Live(g) = Live(heap)
            /\ \A b \in Live(heap) : g[b].ports = heap[b].ports
      BY <1>5, <1>6, <1>7, <3>1, AddQuiet
    <3>3. HasAdded(heap, outer, d, AddDeclaration(heap, outer, d))
      BY <3>1, AddIs
    <3>4. HasAdded(heap, outer, d, heap')
      BY <3>1, <3>3
    <3> QED BY <2>1, <3>1, <3>2, <3>4 DEF HasAdded
  <2>2. CASE ret # OK
    <3>1. heap' = Destroy(heap, d) /\ cache' \in SoundCaches(heap)
      BY <1>2, <2>2
    <3>2. \A g : g = Destroy(heap, d) =>
            /\ Quiet(heap, g) /\ Settled(g) = Settled(heap) \ Within(heap, d) /\ Live(g) = Live(heap) \ Within(heap, d)
            /\ \A b \in Live(g) : g[b] = heap[b]
      BY <1>4, <1>5, DestroyQuiet
    <3>3. Within(heap, d) \cap Settled(heap) = {}
      BY <1>4, <1>5, <1>6, ApartDisjoint
    <3> QED BY <2>2, <3>1, <3>2, <3>3
  <2> QED BY <2>1, <2>2
<1>11. Look'
  BY <1>5, <1>10, QuietLook
<1>12. TaskFit'
  BY <1>1, <1>5, <1>10, BuildGoesOn
<1>13. FramesFit'
  <2> SUFFICES ASSUME NEW k \in 1 .. m, k > 1
               PROVE  /\ Written(heap'[frames'[k].at].src) /\ heap'[frames'[k].at].name # Temp
                      /\ frames'[k].next \in Nat \ {0}
    BY <1>3 DEF FramesFit
  <2> QED BY <1>3, <1>8, <1>9, <1>10
<1>14. MarkedFit'
  <2> SUFFICES ASSUME Len(frames') = 1, frames'[1].ret = OK PROVE cache'.marked = TRUE
    BY DEF MarkedFit
  <2>1. m = 1
    BY <1>3
  <2>2. ret = OK
    BY <1>3, <2>1 DEF KeepFirst
  <2> QED BY <1>10, <2>2
<1> QED BY <1>11, <1>12, <1>13, <1>14 DEF LookInv

\* What has been built when the outermost scope is done
LEMMA EndedIs ==
  ASSUME Inv, LookInv, BuildEnd
  PROVE  /\ Len(frames) = 1 /\ frames # <<>> /\ 1 \in DOMAIN frames /\ Frame = frames[1]
         /\ frames[1].next \in Nat \ {0} /\ Inner \in Seq(Range(Inner)) /\ frames[1].next > Len(Inner)
         /\ frames[1].ret = OK => cache.marked = TRUE \/ DOMAIN heap[frames[1].at].decls = {}
         /\ frames[1].ret = OK /\ task.phase = "fold" => cache.marked = TRUE
<1>1. Len(frames) = 1 /\ frames # <<>> /\ 1 \in DOMAIN frames
  <2>1. Len(frames) = 1
    BY DEF BuildEnd
  <2>2. frames \in Seq(Range(frames)) /\ DOMAIN frames = 1 .. 1
    BY <2>1, FramesAre
  <2> QED BY <2>1, <2>2
<1>2. Frame = frames[1]
  BY <1>1 DEF Frame, Last
<1>3. frames[1].next > Len(Inner)
  BY <1>2 DEF BuildEnd, Children, Inner
<1>4. /\ Inner \in Seq(Range(Inner)) /\ frames[1].next \in Nat \ {0}
      /\ task.phase = "fold" => Inner = <<ListFold>>
      /\ DOMAIN heap[frames[1].at].decls \subseteq {Inner[i].name : i \in DOMAIN Inner}
  BY <1>1 DEF Inv, BaseInv
<1>5. frames[1].ret = OK /\ frames[1].next # 1 => cache.marked = TRUE
  BY <1>1 DEF LookInv, MarkedFit
<1>6. ASSUME frames[1].next = 1 PROVE DOMAIN heap[frames[1].at].decls = {} /\ task.phase # "fold"
  <2>1. Len(Inner) = 0
    BY <1>3, <1>4, <1>6
  <2>2. DOMAIN Inner = {}
    BY <1>4, <2>1
  <2>3. Len(<<ListFold>>) # 0
    OBVIOUS
  <2> QED BY <1>4, <2>1, <2>2, <2>3
<1> QED BY <1>1, <1>2, <1>3, <1>4, <1>5, <1>6

LEMMA EndedLook ==
  ASSUME Inv, LookInv, BuildEnd, NEW g,
         g = IF frames[1].ret = OK THEN Merge(heap, task.dest, frames[1].at).heap ELSE Destroy(heap, frames[1].at)
  PROVE  /\ Good(g) /\ \A hs : Held(heap, hs) => Held(g, hs)
         /\ Quiet(heap, g) \/ (frames[1].ret = OK /\ cache.marked = TRUE)
         /\ task.phase = "fold" => Untried(g, task.ctx)
<1> DEFINE d == frames[1].at
           to == task.dest
<1>1. frames # <<>> /\ 1 \in DOMAIN frames /\ (frames[1].ret = OK => cache.marked = TRUE \/ DOMAIN heap[d].decls = {})
  BY EndedIs
<1>2. /\ d \in Live(heap) /\ d \in Apart(heap) /\ d # Global /\ d \notin HostScope \cup TaskScope
      /\ heap[d].parent = Nowhere
  BY <1>1, FramesAre
<1>3. /\ to \in {Global} \cup TaskScope
      /\ task.phase = "fold" => Compiles /\ to = task.ctx /\ to # Global
      /\ to # Global => task.phase = "fold" /\ Compiles
  <2>1. CASE Loads
    BY <2>1 DEF Loads
  <2>2. CASE Compiles /\ task.phase = "fold"
    <3>1. to = task.ctx /\ TaskScope = {task.ctx}
      BY <2>2 DEF Compiles, TaskScope, Contexts
    <3> QED BY <2>2, <3>1, RootsAre
  <2> QED BY <1>1, <2>1, <2>2, FramesAre
<1>4. /\ to \in Live(heap) /\ to # d /\ to \in Apart(heap) /\ heap[to].parent \in {Nowhere, Global}
  BY <1>2, <1>3, RootsAre
<1>5. Good(heap) /\ Rooted(heap) /\ (to # Global => Untried(heap, to))
  <2>1. to # Global => FoldFit(heap, task)
    BY <1>3 DEF LookInv, TaskFit
  <2> QED BY <1>3, <2>1 DEF LookInv, Look, Good, Fit, FoldFit
<1>6. CASE frames[1].ret = OK
  <2>1. Building = {d}
    BY EndIs
  <2>2. ToMerge(heap, to, d)
    <3>1. \A b \in Apart(heap) : heap[b].parent \in {Nowhere, Global}
      BY <1>2, <2>1, RootsAre
    <3> QED BY <1>2, <1>4, <3>1, RootsAre DEF ToMerge
  <2>3. g = Merge(heap, to, d).heap
    BY <1>6
  <2> HIDE DEF to, d
  <2>4. ASSUME NEW e, e = Merge(heap, to, d).heap
        PROVE  /\ Good(e) /\ \A hs : Held(heap, hs) => Held(e, hs)
               /\ to # Global => Untried(e, to)
               /\ DOMAIN heap[d].decls = {} => Quiet(heap, e)
    BY <1>4, <1>5, <2>2, <2>4, MergeKeeps
  <2> QED BY <1>1, <1>3, <1>6, <2>3, <2>4
<1>7. CASE frames[1].ret # OK
  <2>1. g = Destroy(heap, d)
    BY <1>7
  <2>2. d \notin Settled(heap)
    BY <1>1, <1>5, FramesApart
  <2> HIDE DEF to, d
  <2>3. \A e : e = Destroy(heap, d) =>
          /\ Quiet(heap, e) /\ Settled(e) = Settled(heap) \ Within(heap, d) /\ Live(e) = Live(heap) \ Within(heap, d)
          /\ \A b \in Live(e) : e[b] = heap[b]
    BY <1>2, <1>5, DestroyQuiet
  <2>4. Within(heap, d) \cap Settled(heap) = {}
    BY <1>2, <1>5, <2>2, ApartDisjoint
  <2>5. /\ Quiet(heap, g) /\ Settled(g) = Settled(heap)
        /\ \A b \in Live(g) : g[b].ports = "valid" => b \in Live(heap) /\ heap[b].ports = "valid"
    BY <2>1, <2>3, <2>4
  <2>6. to # Global => Untried(g, to)
    BY <1>5, <2>5, UntriedKept
  <2>7. Good(g) /\ \A hs : Held(heap, hs) => Held(g, hs)
    BY <1>5, <2>5, QuietKeeps
  <2> QED BY <1>3, <2>5, <2>6, <2>7
<1> QED BY <1>6, <1>7

LEMMA EndLook ==
  ASSUME Inv, Inv', LookInv, BuildEnd
  PROVE  LookInv'
<1> DEFINE d == frames[1].at
           to == task.dest
           g == IF frames[1].ret = OK THEN Merge(heap, to, d).heap ELSE Destroy(heap, d)
<1>1. /\ Good(g) /\ \A hs : Held(heap, hs) => Held(g, hs)
      /\ Quiet(heap, g) \/ (frames[1].ret = OK /\ cache.marked = TRUE)
      /\ task.phase = "fold" => Untried(g, task.ctx)
  BY EndedLook
<1>2. /\ Forest(g) /\ Apart(g) = Apart(heap) \ {d}
      /\ to \in Live(g) /\ to \in Apart(g)
      /\ \A b \in Live(g) : b # to => g[b].decls = heap[b].decls
      /\ DOMAIN g[to].decls \subseteq DOMAIN heap[to].decls \cup {Inner[i].name : i \in DOMAIN Inner}
      /\ \A b \in Apart(g) : g[b].parent = heap[b].parent
  BY EndIs
<1>3. /\ frames # <<>> /\ Frame = frames[1]
      /\ frames[1].ret = OK /\ task.phase = "fold" => cache.marked = TRUE
  BY EndedIs
<1>4. frames' = <<>> /\ cache' = cache /\ handles' = handles
  BY DEF BuildEnd
<1>5. \/ task.phase \in {"files", "string"} /\ heap' = g /\ \E r : task' = [task EXCEPT !.ret = r]
      \/ /\ task.phase = "fold" /\ heap' = MarkCompilerGenerated(g, task.ctx, "list_fold", "@list_fold")
         /\ task' = [task EXCEPT !.phase = "ready"]
  <2>1. PICK merged : /\ merged \in {IF Frame.ret = OK THEN Merge(heap, task.dest, Frame.at)
                                     ELSE [heap |-> Destroy(heap, Frame.at), ok |-> FALSE]}
                      /\ \/ /\ task.phase \in {"files", "string"} /\ heap' = merged.heap
                            /\ task' = [task EXCEPT !.ret = KeepFirst(@, IF Frame.ret = OK /\ ~merged.ok THEN "MULTIPLE_DEFINITIONS" ELSE Frame.ret)]
                         \/ /\ task.phase = "fold" /\ heap' = MarkCompilerGenerated(merged.heap, task.ctx, "list_fold", "@list_fold")
                            /\ task' = [task EXCEPT !.phase = "ready"]
    BY DEF BuildEnd
  <2>2. merged.heap = g
    BY <1>3, <2>1
  <2> HIDE DEF g
  <2> QED BY <1>3, <2>1, <2>2
<1>6. Look /\ cache \in SoundCaches(heap) /\ Good(heap) /\ Rooted(heap)
  BY DEF LookInv, Look, Good, Fit
<1>7. cache.marked = TRUE => cache \in Caches
  BY <1>6, Marked
<1> HIDE DEF g, d, to
<1>8. CASE task.phase \in {"files", "string"}
  <2>1. DOMAIN task = LoadFields
    BY <1>3, <1>8, FramesAre DEF Loads
  <2>2. heap' = g /\ DOMAIN task' = LoadFields
    BY <1>5, <1>8, <2>1
  <2>3. Look'
    BY <1>1, <1>4, <1>6, <1>7, <2>2, QuietLook, KeptLook
  <2> QED BY <1>4, <2>2, <2>3, IdleFits
<1>9. CASE task.phase = "fold"
  <2>1. /\ Compiles /\ DOMAIN task = CompileFields /\ to = task.ctx /\ TaskScope = {to}
        /\ DOMAIN heap[to].decls \subseteq {"@list_indexer"}
    BY <1>3, <1>9, FramesAre DEF Loads, Compiles, TaskScope, Contexts, to
  <2>2. Inner = <<ListFold>>
    BY <1>3, <1>9 DEF Inv, BaseInv
  <2>3. "@list_fold" \notin DOMAIN g[to].decls
    <3>1. \A i \in DOMAIN Inner : Inner[i].name = "list_fold"
      BY <2>2, SourcesAssumption
    <3> QED BY <1>2, <2>1, <3>1
  <2>4. to # Global /\ heap[to].parent = Global /\ g[to].parent = Global
    BY <1>2, <2>1, RootsAre
  <2>5. heap' = MarkCompilerGenerated(g, to, "list_fold", "@list_fold") /\ task' = [task EXCEPT !.phase = "ready"]
    BY <1>5, <1>9, <2>1
  <2>6. ToMark(g, to, "@list_fold")
    BY <1>2, <2>3, <2>4 DEF ToMark
  <2>7. HasMarked(g, to, heap')
    <3>1. HasMarked(g, to, MarkCompilerGenerated(g, to, "list_fold", "@list_fold"))
      BY <2>6, MarkIs
    <3> QED BY <2>5, <3>1
  <2>8. Good(heap') /\ \A hs : Held(heap, hs) => Held(heap', hs)
    <3>1. Untried(g, to)
      BY <1>1, <1>9, <2>1
    <3>2. Good(heap') /\ \A hs : Held(g, hs) => Held(heap', hs)
      BY <1>1, <2>4, <2>5, <2>6, <3>1, MarkKeeps
    <3> QED BY <1>1, <3>2
  <2>9. Look'
    <3>1. CASE frames[1].ret = OK
      <4>1. cache' \in Caches /\ cache'.marked = TRUE
        BY <1>3, <1>4, <1>7, <1>9, <3>1
      <4> QED BY <1>4, <1>6, <2>8, <4>1, KeptLook
    <3>2. CASE frames[1].ret # OK
      <4>1. g = Destroy(heap, d)
        BY <3>2 DEF g
      <4>2. Quiet(heap, g)
        BY <1>1, <3>2
      <4>3. DOMAIN g[to].decls = DOMAIN heap[to].decls
        <5>1. d \in Live(heap) /\ \A b \in Live(g) : g[b] = heap[b]
          <6>1. d \in Live(heap) /\ d \in Apart(heap) /\ d # Global
            BY <1>3, FramesAre DEF d
          <6>2. \A e : e = Destroy(heap, d) => \A b \in Live(e) : e[b] = heap[b]
            BY <1>6, <6>1, DestroyQuiet
          <6> QED BY <4>1, <6>1, <6>2
        <5> QED BY <1>2, <5>1
      <4>4. "list_fold" \notin DOMAIN g[to].decls
        BY <2>1, <4>3
      <4>5. heap' = g
        BY <2>5, <4>4 DEF MarkCompilerGenerated, Declares
      <4> QED BY <1>4, <1>6, <4>2, <4>5, QuietLook
    <3> QED BY <3>1, <3>2
  <2>10. /\ task'.phase = "ready" /\ task'.api = task.api /\ task'.decl = task.decl /\ task'.expr = task.expr
         /\ task'.second = task.second /\ task'.todo = task.todo
    BY <2>1, <2>5 DEF CompileFields
  <2>11. TodoFit(heap, task) /\ DeclFit(heap, task, handles)
    BY <2>1 DEF LookInv, TaskFit
  <2>12. TodoFit(heap', task')
    BY <1>9, <2>10, <2>11 DEF TodoFit
  <2>13. heap'[Global].decls = heap[Global].decls
    <3>1. Global \in Live(g)
      BY <1>1 DEF Good, Fit, Rooted
    <3> QED BY <1>2, <2>4, <2>7, <3>1 DEF HasMarked
  <2>14. DeclFit(heap', task', handles)
    BY <2>10, <2>11, <2>13, DeclFitKept
  <2>15. FoldFit(heap', task')
    BY <2>10 DEF FoldFit
  <2>16. TaskFit'
    BY <1>4, <2>12, <2>14, <2>15 DEF TaskFit
  <2> QED BY <1>4, <2>9, <2>16, RestFits
<1> QED BY <1>5, <1>8, <1>9

-----------------------------------------------------------------------------
(* Compiling.                                                              *)

LEMMA ListIndexerIs == Written(ListIndexer) /\ Unwritten([kind |-> "scope", inner |-> <<>>, params |-> <<>>])
<1>1. <<>> \in Seq(Declarations)
  OBVIOUS
<1>2. <<>> \in Seq(Identifiers)
  OBVIOUS
<1>3. <<>> \in Seq(Port)
  <2> DEFINE P == Port
  <2> HIDE DEF P
  <2>1. <<>> \in Seq(P)
    OBVIOUS
  <2> QED BY <2>1 DEF P
<1>4. <<>> \in Uses
  <2> DEFINE P == Seq(Names) \ {<<>>}
  <2> HIDE DEF P
  <2>1. <<>> \in Seq(P)
    OBVIOUS
  <2> QED BY <2>1 DEF P, Uses
<1> QED BY <1>1, <1>2, <1>3, <1>4 DEF Written, Unwritten, ListIndexer

LEMMA NewContextLook ==
  ASSUME Inv, LookInv, NewContext
  PROVE  LookInv'
<1>1. Compiles /\ task.phase = "context" /\ DOMAIN task = CompileFields
  BY KindIs DEF NewContext, Compiles
<1>2. frames = <<>> /\ frames' = <<>>
  <2>1. frames = <<>>
    BY <1>1, NoFrames
  <2> QED BY <2>1 DEF NewContext
<1> DEFINE n == "@list_indexer"
           none == ""
           src == [kind |-> "scope", inner |-> <<>>, params |-> <<>>]
           C == Cell(none, Global, src)
           D(s) == Cell(n, s, ListIndexer)
<1>3. PICK s \in Unused(heap) : \E i \in Unused([heap EXCEPT ![s] = Root(<<>>)]) :
        /\ heap' = [heap EXCEPT ![s] = [C EXCEPT !.decls = With(NoDecls, n, i)], ![i] = D(s)]
        /\ task' = [task EXCEPT !.ctx = s, !.dest = s, !.phase = IF parseOnly THEN "ready" ELSE "list_fold"]
  <2>1. Root(<<>>).src = src
    BY DEF Root, Cell
  <2> HIDE DEF src
  <2> QED BY <2>1 DEF NewContext
<1>4. PICK i \in Unused([heap EXCEPT ![s] = Root(<<>>)]) :
        /\ heap' = [heap EXCEPT ![s] = [C EXCEPT !.decls = With(NoDecls, n, i)], ![i] = D(s)]
        /\ task' = [task EXCEPT !.ctx = s, !.dest = s, !.phase = IF parseOnly THEN "ready" ELSE "list_fold"]
  BY <1>3
<1>5. C.decls = NoDecls /\ DOMAIN C = Fields /\ D(s).name = n
  BY DEF Cell, Fields
<1>6. s \in Addr /\ s \notin Live(heap) /\ i \in Addr /\ i \notin Live(heap) /\ i # s
  <2>1. i \in Addr /\ i \notin Live([heap EXCEPT ![s] = Root(<<>>)])
    BY UnusedIs
  <2>2. s \in Addr /\ s \notin Live(heap)
    BY UnusedIs
  <2>3. DOMAIN heap = Addr
    BY RootsAre DEF Cells
  <2>4. Root(<<>>).live = TRUE
    BY DEF Root, Cell
  <2> QED BY <2>1, <2>2, <2>3, <2>4 DEF Live
<1>7. Written(ListIndexer) /\ Unwritten(src)
  BY ListIndexerIs
<1>8. n # Temp
  BY DEF Temp
<1> HIDE DEF none, src, n
<1>9. heap' = NewDeclaration(Allocated(heap, s, C), s, i, n, ListIndexer)
  <2> DEFINE h == Allocated(heap, s, C)
  <2>2. DOMAIN heap = Addr /\ s \in Addr /\ i \in Addr /\ s # i
    BY <1>6, RootsAre DEF Cells
  <2> HIDE DEF C
  <2>3. NewDeclaration(h, s, i, n, ListIndexer) = [[h EXCEPT ![i] = D(s)] EXCEPT ![s].decls = With(@, n, i)]
    BY <1>5, <2>2 DEF NewDeclaration, AddDeclaration, Allocated
  <2> HIDE DEF D
  <2>4. [[h EXCEPT ![i] = D(s)] EXCEPT ![s].decls = With(@, n, i)]
          = [heap EXCEPT ![s] = [C EXCEPT !.decls = With(NoDecls, n, i)], ![i] = D(s)]
    BY <1>5, <2>2 DEF Allocated
  <2> QED BY <1>4, <2>3, <2>4
<1>10. /\ Look /\ Good(heap) /\ Fit(heap) /\ cache \in SoundCaches(heap)
       /\ TodoFit(heap, task) /\ DeclFit(heap, task, handles)
  BY <1>1 DEF LookInv, Look, Good, TaskFit
<1>11. HasContext(heap, s, i, heap')
  <2>1. ASSUME NEW h2, h2 = NewDeclaration(Allocated(heap, s, Cell(none, Global, src)), s, i, n, ListIndexer)
        PROVE  HasContext(heap, s, i, h2)
    BY <1>6, <1>7, <1>8, <1>10, <2>1, ContextFit
  <2> QED BY <1>9, <2>1
<1>12. Good(heap') /\ Untried(heap', s) /\ \A hs : Held(heap, hs) => Held(heap', hs)
  BY <1>6, <1>10, <1>11, ContextMade
<1>13. cache' \in Caches /\ cache'.marked = TRUE /\ handles' = handles
  BY <1>10, Marked DEF NewContext
<1>14. Look'
  BY <1>10, <1>12, <1>13, KeptLook
<1>15. /\ task'.phase \in {"ready", "list_fold"} /\ task'.api = task.api /\ task'.decl = task.decl /\ task'.expr = task.expr
       /\ task'.second = task.second /\ task'.todo = task.todo /\ task'.ctx = s
  BY <1>1, <1>4 DEF CompileFields
<1>16. TodoFit(heap', task')
  BY <1>1, <1>10, <1>15 DEF TodoFit
<1>17. DeclFit(heap', task', handles)
  <2>1. Global \in Live(heap)
    BY RootsAre
  <2>2. heap'[Global].decls = heap[Global].decls
    BY <1>11, <2>1 DEF HasContext
  <2> QED BY <1>10, <1>15, <2>2, DeclFitKept
<1>18. FoldFit(heap', task')
  BY <1>12, <1>15 DEF FoldFit
<1>19. TaskFit'
  BY <1>13, <1>16, <1>17, <1>18 DEF TaskFit
<1> QED BY <1>2, <1>14, <1>19, RestFits

LEMMA TemporaryIs == ASSUME NEW e, e.uses \in Uses PROVE Written(Temporary(e))
<1>1. <<>> \in Seq(Declarations)
  OBVIOUS
<1>2. <<>> \in Seq(Identifiers)
  OBVIOUS
<1>3. <<>> \in Seq(Port)
  BY ListIndexerIs DEF Written, ListIndexer
<1> QED BY <1>1, <1>2, <1>3 DEF Written, Temporary

LEMMA ExpressionLook ==
  ASSUME Inv, LookInv, BuildExpression
  PROVE  LookInv'
<1>1. Compiles /\ task.phase = "ready" /\ DOMAIN task = CompileFields /\ task.api \in ExpressionApis
  <2>1. task.api # "none"
    BY DEF BuildExpression
  <2> QED BY <2>1, KindIs DEF BuildExpression, Compiles, ExpressionApis
<1>2. frames = <<>> /\ frames' = <<>>
  <2>1. frames = <<>>
    BY <1>1, NoFrames
  <2> QED BY <2>1 DEF BuildExpression
<1>3. /\ Look /\ Good(heap) /\ cache \in SoundCaches(heap) /\ handles' = handles
      /\ TodoFit(heap, task) /\ DeclFit(heap, task, handles) /\ task.second # TRUE
  BY <1>1 DEF LookInv, Look, TaskFit, BuildExpression
<1>4. task.expr.uses \in Uses /\ task.todo = <<>>
  BY <1>1, <1>3 DEF DeclFit, TodoFit
<1>5. ASSUME task' = [task EXCEPT !.error = IF task.expr.parses THEN "UNKNOWN" ELSE "PARSE", !.phase = "compile"],
             UNCHANGED <<heap, cache>>
      PROVE  LookInv'
  <2>1. Look'
    BY <1>3, <1>5, SameLook
  <2>2. /\ task'.phase = "compile" /\ task'.error # OK /\ task'.api = task.api /\ task'.expr = task.expr
        /\ task'.second = task.second /\ task'.todo = <<>>
    BY <1>1, <1>4, <1>5 DEF CompileFields, OK
  <2>3. TodoFit(heap', task')
    <3>1. <<>> \in Seq(ToCompile(heap'))
      OBVIOUS
    <3> QED BY <2>2, <3>1 DEF TodoFit
  <2>4. DeclFit(heap', task', handles) /\ FoldFit(heap', task')
    BY <1>1, <1>3, <1>4, <2>2 DEF DeclFit, FoldFit, ExpressionApis
  <2>5. TaskFit'
    BY <1>3, <2>3, <2>4 DEF TaskFit
  <2> QED BY <1>2, <2>1, <2>5, RestFits
<1> DEFINE marked == [cache EXCEPT !.marked = TRUE]
           found(h) == Find(h, marked, Global, <<Temp>>, FALSE)
<1>6. ASSUME NEW a \in Unused(heap), ~Declares(heap, Global, Temp),
             heap' = AddDeclaration([heap EXCEPT ![a] = Cell(Temp, Global, Temporary(task.expr))], Global, a),
             cache' = found(heap').cache,
             task' = [task EXCEPT !.todo = <<found(heap').decl>>, !.decl = found(heap').decl, !.phase = "compile"]
      PROVE  LookInv'
  <2> DEFINE src == Temporary(task.expr)
  <2>1. a \in Addr /\ a \notin Live(heap) /\ Temp \notin DOMAIN heap[Global].decls
    BY <1>6, UnusedIs DEF Declares
  <2>2. Written(src)
    BY <1>4, TemporaryIs
  <2> HIDE DEF src
  <2>3. heap' = NewDeclaration(heap, Global, a, Temp, src)
    BY <1>6 DEF NewDeclaration, src
  <2>4. Good(heap') /\ \A hs : Held(heap, hs) => Held(heap', hs)
    <3>1. ASSUME NEW h2, h2 = NewDeclaration(heap, Global, a, Temp, src)
          PROVE  Good(h2) /\ \A hs : Held(heap, hs) => Held(h2, hs)
      BY <1>3, <2>1, <2>2, <3>1, TempDeclared
    <3> QED BY <2>3, <3>1
  <2>5. Global \in Live(heap') /\ Temp \in DOMAIN heap'[Global].decls
    <3>1. Global \in Live(heap) /\ Global \in Live(heap') /\ Cells(heap)
      BY <2>4, RootsAre DEF Good, Fit, Rooted
    <3>2. ASSUME NEW h2, h2 = NewDeclaration(heap, Global, a, Temp, src)
          PROVE  DOMAIN h2[Global].decls = DOMAIN heap[Global].decls \cup {Temp}
      BY <2>1, <3>1, <3>2, DeclaredCell
    <3> QED BY <2>3, <3>1, <3>2
  <2>6. marked \in Caches /\ marked.marked = TRUE
    BY <1>3, Marked
  <2> HIDE DEF marked
  <2>7. marked \in SoundCaches(heap')
    BY <2>6, MarkedSound
  <2>8. Rooted(heap') /\ Temp \in Names /\ <<Temp>> \in Seq(Names)
    BY <2>4, DeclarationsAssumption, NamesAre DEF Good, Fit
  <2>9. found(heap').decl = heap'[Global].decls[Temp]
    BY <2>5, <2>6, <2>8, FindDeclared
  <2>10. found(heap').cache \in SoundCaches(heap')
    <3>1. \A q \in Seq(Names), s \in Live(heap'), e \in SoundCaches(heap') :
            Find(heap', e, s, q, FALSE) \in [decl : Addr \cup {Nowhere}, cache : SoundCaches(heap')]
      BY <2>8, FindIs
    <3>2. found(heap') \in [decl : Addr \cup {Nowhere}, cache : SoundCaches(heap')]
      BY <2>5, <2>7, <2>8, <3>1
    <3> HIDE DEF found
    <3> QED BY <3>2
  <2> HIDE DEF found
  <2>11. Look'
    BY <1>3, <1>6, <2>4, <2>10 DEF Look
  <2> DEFINE d == found(heap').decl
  <2>12. ExpressionDeclared(heap', d)
    BY <2>5, <2>9 DEF ExpressionDeclared
  <2>13. d \in ToCompile(heap')
    BY <2>8, <2>12, ExpressionToCompile
  <2>14. /\ task'.phase = "compile" /\ task'.todo = <<d>> /\ task'.decl = d /\ task'.api = task.api /\ task'.expr = task.expr
    BY <1>1, <1>6 DEF CompileFields
  <2> HIDE DEF d
  <2>15. TodoFit(heap', task')
    BY <2>13, <2>14 DEF TodoFit
  <2>16. DeclFit(heap', task', handles) /\ FoldFit(heap', task')
    BY <1>1, <1>4, <2>12, <2>14 DEF DeclFit, FoldFit, ExpressionApis
  <2>17. TaskFit'
    BY <1>3, <2>15, <2>16 DEF TaskFit
  <2> QED BY <1>2, <2>11, <2>17, RestFits
<1> QED BY <1>5, <1>6 DEF BuildExpression

\* What a declaration that may be compiled is
LEMMA ToCompileIs ==
  ASSUME NEW h, Good(h), NEW d \in ToCompile(h)
  PROVE  d \in Settled(h) /\ d \in Live(h) /\ Written(h[d].src)
<1>1. Rooted(h) /\ Sourced(h) /\ d \in Settled(h) /\ Declared(h, d)
  BY DEF Good, Fit, ToCompile
<1>2. d \in Live(h)
  BY <1>1, SettledIs
<1> QED BY <1>1, <1>2 DEF Sourced

LEMMA BoundaryLook ==
  ASSUME Inv, LookInv, Boundary
  PROVE  LookInv'
<1>1. Compiles /\ task.phase = "ready" /\ DOMAIN task = CompileFields /\ task.api = "compile_declaration"
  BY KindIs DEF Boundary, Compiles
<1>2. frames = <<>> /\ frames' = <<>>
  <2>1. frames = <<>>
    BY <1>1, NoFrames
  <2> QED BY <2>1 DEF Boundary
<1>3. /\ Look /\ Good(heap) /\ Rooted(heap) /\ cache \in SoundCaches(heap) /\ handles' = handles /\ Held(heap, handles)
      /\ TodoFit(heap, task) /\ DeclFit(heap, task, handles)
  BY <1>1 DEF LookInv, Look, TaskFit, Boundary, Good, Fit
<1> DEFINE d == task.decl
           v == IF Checked(d) THEN ValidatePorts(d, cache) ELSE [Unvalidated(cache) EXCEPT !.ports = "invalid"]
<1>4. d \in ToCompile(heap) /\ d \in Settled(heap) /\ Written(heap[d].src)
  <2>1. PICK x \in handles : x[2] = d
    BY <1>1, <1>3 DEF DeclFit
  <2>2. d \in ToCompile(heap)
    BY <1>3, <2>1, HeldToCompile
  <2> QED BY <1>3, <2>2, ToCompileIs
<1>5. v.cache \in SoundCaches(heap) /\ (Checked(d) => v.types \in Seq(ToCompile(heap)))
      /\ (Checked(d) /\ v.ports = "valid" => TypesFound(heap, d)) /\ (~Checked(d) => v.ports = "invalid")
  <2>1. CASE Checked(d)
    <3>1. /\ ValidatePorts(d, cache) \in [ports : {"valid", "invalid"}, cache : SoundCaches(heap), types : Seq(ToCompile(heap))]
          /\ ValidatePorts(d, cache).ports = "valid" => TypesFound(heap, d)
      BY <1>3, <1>4, ValidatePortsIs
    <3> QED BY <2>1, <3>1
  <2>2. CASE ~Checked(d)
    BY <1>3, <2>2 DEF Unvalidated
  <2> QED BY <2>1, <2>2
<1>6. /\ heap' = IF Checked(d) /\ heap[d].ports = "unchecked" THEN [heap EXCEPT ![d].ports = v.ports] ELSE heap
      /\ cache' = v.cache
      /\ \/ Checked(d) /\ task' = [task EXCEPT !.types = v.types, !.phase = "types"]
         \/ task' = [task EXCEPT !.error = "INVALID_BOUNDARY", !.phase = "compile"]
  BY DEF Boundary
<1> HIDE DEF v, d
<1>7. Quiet(heap, heap') /\ ToCompile(heap') = ToCompile(heap)
  <2>1. CASE Checked(d) /\ heap[d].ports = "unchecked"
    <3>1. heap' = [heap EXCEPT ![d].ports = v.ports]
      BY <1>6, <2>1
    <3>2. v.ports = "valid" => Right(heap, d)
      BY <1>4, <1>5, <2>1 DEF Right, Checked
    <3> DEFINE w == v.ports
    <3>3. w = "valid" => Right(heap, d)
      BY <3>2
    <3> HIDE DEF w
    <3>4. ASSUME NEW h2, h2 = Judged(heap, d, w)
          PROVE  Quiet(heap, h2) /\ ToCompile(h2) = ToCompile(heap)
      BY <1>3, <3>3, <3>4, PortsQuiet
    <3> QED BY <3>1, <3>4 DEF w, Judged
  <2>2. CASE ~(Checked(d) /\ heap[d].ports = "unchecked")
    BY <1>3, <1>6, <2>2, QuietSelf
  <2> QED BY <2>1, <2>2
<1>8. Look'
  BY <1>3, <1>5, <1>6, <1>7, QuietLook
<1>9. /\ task'.phase \in {"types", "compile"} /\ task'.api = task.api /\ task'.decl = task.decl /\ task'.expr = task.expr
      /\ task'.second = task.second /\ task'.todo = task.todo
      /\ task'.phase = "types" => Checked(d) /\ task'.types = v.types
  BY <1>1, <1>6 DEF CompileFields
<1>10. TodoFit(heap', task')
  <2>1. task.todo = <<>> /\ <<>> \in Seq(ToCompile(heap'))
    BY <1>1, <1>3 DEF TodoFit
  <2> QED BY <1>1, <1>5, <1>7, <1>9, <2>1 DEF TodoFit
<1>11. DeclFit(heap', task', handles)
  BY <1>1, <1>3, <1>9 DEF DeclFit, ExpressionApis
<1>12. FoldFit(heap', task')
  BY <1>9 DEF FoldFit
<1>13. TaskFit'
  BY <1>3, <1>10, <1>11, <1>12 DEF TaskFit
<1> QED BY <1>2, <1>8, <1>13, RestFits

LEMMA CheckTypeLook ==
  ASSUME Inv, LookInv, CheckType
  PROVE  LookInv'
<1>1. Compiles /\ task.phase = "types" /\ DOMAIN task = CompileFields
  BY KindIs DEF CheckType, Compiles
<1>2. frames = <<>> /\ frames' = <<>>
  <2>1. frames = <<>>
    BY <1>1, NoFrames
  <2> QED BY <2>1 DEF CheckType
<1>3. /\ Look /\ Good(heap) /\ Rooted(heap) /\ cache \in SoundCaches(heap) /\ handles' = handles /\ Held(heap, handles)
      /\ TodoFit(heap, task) /\ DeclFit(heap, task, handles) /\ heap' = heap
  BY <1>1 DEF LookInv, Look, TaskFit, CheckType, Good, Fit
<1>4. task.api = "compile_declaration" /\ task.types \in Seq(ToCompile(heap)) /\ task.todo = <<>>
  BY <1>1, <1>3 DEF TodoFit
<1>5. \/ task.types = <<>> /\ task' = [task EXCEPT !.phase = "compile", !.todo = <<task.decl>>] /\ cache' = cache
      \/ /\ task.types # <<>> /\ cache' = ValidatePorts(Head(task.types), cache).cache
         /\ task' = [task EXCEPT !.types = ValidatePorts(Head(task.types), cache).types \o Tail(@)]
  BY DEF CheckType
<1>6. cache' \in SoundCaches(heap) /\ TodoFit(heap, task')
  <2>1. CASE task.types = <<>>
    <3>1. task.decl \in ToCompile(heap)
      <4>1. PICK x \in handles : x[2] = task.decl
        BY <1>3, <1>4 DEF DeclFit
      <4> QED BY <1>3, <4>1, HeldToCompile
    <3>2. task'.phase = "compile" /\ task'.todo = <<task.decl>>
      BY <1>1, <1>5, <2>1 DEF CompileFields
    <3>3. <<task.decl>> \in Seq(ToCompile(heap))
      BY <3>1
    <3> QED BY <1>3, <1>5, <2>1, <3>2, <3>3 DEF TodoFit
  <2>2. CASE task.types # <<>>
    <3> DEFINE t == Head(task.types)
               G == ToCompile(heap)
               v == ValidatePorts(t, cache)
    <3>1. t \in G /\ Tail(task.types) \in Seq(G)
      BY <1>4, <2>2
    <3>2. t \in Settled(heap) /\ Written(heap[t].src)
      BY <1>3, <3>1, ToCompileIs
    <3>3. v \in [ports : {"valid", "invalid"}, cache : SoundCaches(heap), types : Seq(G)]
      BY <1>3, <3>2, ValidatePortsIs
    <3>4. cache' = v.cache /\ task' = [task EXCEPT !.types = v.types \o Tail(@)]
      BY <1>5, <2>2
    <3> HIDE DEF v, G
    <3>5. v.types \in Seq(G) /\ v.cache \in SoundCaches(heap)
      BY <3>3
    <3>6. v.types \o Tail(task.types) \in Seq(G)
      BY <3>1, <3>5
    <3>7. /\ task'.phase = task.phase /\ task'.api = task.api /\ task'.todo = task.todo
          /\ task'.types = v.types \o Tail(task.types)
      BY <1>1, <3>4 DEF CompileFields
    <3> QED BY <1>1, <1>4, <3>4, <3>5, <3>6, <3>7 DEF TodoFit, G
  <2> QED BY <2>1, <2>2
<1>7. /\ task'.phase \in {"types", "compile"} /\ task'.api = task.api /\ task'.decl = task.decl /\ task'.expr = task.expr
      /\ task'.second = task.second
  BY <1>1, <1>5 DEF CompileFields
<1>8. DeclFit(heap', task', handles) /\ FoldFit(heap', task')
  BY <1>3, <1>4, <1>7 DEF DeclFit, ExpressionApis, FoldFit
<1>9. TaskFit' /\ Look'
  BY <1>3, <1>6, <1>8, SameLook DEF TaskFit
<1> QED BY <1>2, <1>9, RestFits

LEMMA ReadyLook ==
  ASSUME Inv, LookInv, Ready
  PROVE  LookInv'
<1>1. Compiles /\ task.phase = "ready" /\ DOMAIN task = CompileFields /\ task.api \in CompileApis
  BY KindIs DEF Ready, Compiles
<1>2. frames = <<>> /\ frames' = <<>>
  <2>1. frames = <<>>
    BY <1>1, NoFrames
  <2> QED BY <2>1 DEF Ready
<1>3. /\ Look /\ Good(heap) /\ Rooted(heap) /\ cache \in SoundCaches(heap) /\ handles' = handles /\ cache' = cache
      /\ TodoFit(heap, task) /\ DeclFit(heap, task, handles) /\ heap' = heap
  BY <1>1 DEF LookInv, Look, TaskFit, Ready, Good, Fit
<1>4. \/ task.api = "context_create" /\ task' = [task EXCEPT !.phase = "compile"]
      \/ task.second /\ task' = [task EXCEPT !.error = "INVALID_BOUNDARY", !.phase = "compile"]
      \/ task.second /\ task' = [task EXCEPT !.phase = "compile", !.todo = <<task.decl>>]
  BY DEF Ready
<1>5. CASE task.api = "context_create" /\ task' = [task EXCEPT !.phase = "compile"]
  <2>1. /\ task'.phase = "compile" /\ task'.api = task.api /\ task'.second = task.second /\ task'.todo = task.todo
    BY <1>1, <1>5 DEF CompileFields
  <2>2. task'.todo = <<>> /\ <<>> \in Seq(ToCompile(heap))
    BY <1>1, <1>3, <2>1 DEF TodoFit
  <2>3. TodoFit(heap', task') /\ DeclFit(heap', task', handles)
    BY <1>3, <1>5, <2>1, <2>2 DEF TodoFit, DeclFit, ExpressionApis
  <2>4. FoldFit(heap', task')
    BY <2>1 DEF FoldFit
  <2>5. TaskFit' /\ Look'
    BY <1>3, <2>3, <2>4, SameLook DEF TaskFit
  <2> QED BY <1>2, <2>5, RestFits
<1>6. ASSUME task.second,
             \/ task' = [task EXCEPT !.error = "INVALID_BOUNDARY", !.phase = "compile"]
             \/ task' = [task EXCEPT !.phase = "compile", !.todo = <<task.decl>>]
      PROVE  LookInv'
  <2>1. ExpressionDeclared(heap, task.decl) /\ task.api \in ExpressionApis
    BY <1>3, <1>6 DEF DeclFit
  <2>2. task.decl \in ToCompile(heap)
    BY <1>3, <2>1, ExpressionToCompile
  <2>3. task.todo = <<>>
    BY <1>1, <1>3 DEF TodoFit
  <2>4. /\ task'.phase = "compile" /\ task'.api = task.api /\ task'.second = task.second
        /\ task'.decl = task.decl /\ task'.expr = task.expr
        /\ task'.todo = <<>> \/ task'.todo = <<task.decl>>
    BY <1>1, <1>6, <2>3 DEF CompileFields
  <2>5. <<>> \in Seq(ToCompile(heap)) /\ <<task.decl>> \in Seq(ToCompile(heap))
    BY <2>2
  <2>6. TodoFit(heap', task')
    BY <1>3, <2>4, <2>5 DEF TodoFit
  <2>7. DeclFit(heap', task', handles)
    BY <1>3, <2>1, <2>4 DEF DeclFit, ExpressionApis
  <2>8. FoldFit(heap', task')
    BY <2>4 DEF FoldFit
  <2>9. TaskFit' /\ Look'
    BY <1>3, <2>6, <2>7, <2>8, SameLook DEF TaskFit
  <2> QED BY <1>2, <2>9, RestFits
<1> QED BY <1>4, <1>5, <1>6

LEMMA CompileStepLook ==
  ASSUME Inv, LookInv, CompileStep
  PROVE  LookInv'
<1>1. Compiles /\ task.phase = "compile" /\ DOMAIN task = CompileFields /\ task.todo # <<>>
  BY KindIs DEF CompileStep, Compiles
<1>2. frames = <<>> /\ frames' = <<>>
  <2>1. frames = <<>>
    BY <1>1, NoFrames
  <2> QED BY <2>1 DEF CompileStep
<1>3. /\ Look /\ Good(heap) /\ Rooted(heap) /\ cache \in SoundCaches(heap) /\ handles' = handles
      /\ TodoFit(heap, task) /\ DeclFit(heap, task, handles) /\ AllRight(heap)
  BY <1>1 DEF LookInv, Look, TaskFit, CompileStep, Good, Fit
<1> DEFINE G == ToCompile(heap)
           d == Head(task.todo)
           v == Validated(d, cache)
           r == IF v.ports = "invalid" THEN [things |-> <<>>, cache |-> v.cache] ELSE ResolveUses(d, v.cache)
           left == Tail(task.todo)
<1>4. d \in G /\ left \in Seq(G)
  <2>1. task.todo \in Seq(G)
    BY <1>1, <1>3 DEF TodoFit
  <2> HIDE DEF G
  <2> QED BY <1>1, <2>1
<1>5. d \in Settled(heap) /\ d \in Live(heap) /\ Written(heap[d].src)
  BY <1>3, <1>4, ToCompileIs
<1>6. v.cache \in SoundCaches(heap) /\ (heap[d].src.kind = "function" /\ v.ports = "valid" => Right(heap, d))
  <2>1. /\ v.cache \in SoundCaches(heap)
        /\ heap[d].src.kind = "function" /\ v.ports = "valid" /\ heap[d].ports # "valid" => TypesFound(heap, d)
    BY <1>3, <1>5, ValidatedIs
  <2>2. heap[d].ports = "valid" => Right(heap, d)
    BY <1>3, <1>5 DEF AllRight
  <2> HIDE DEF v, d
  <2> QED BY <1>5, <2>1, <2>2 DEF Right
<1>7. /\ heap' = IF heap[d].src.kind = "function" THEN [heap EXCEPT ![d].ports = v.ports] ELSE heap
      /\ cache' = r.cache
      /\ task' = IF v.ports = "invalid" \/ Nothing \in Range(r.things)
                 THEN [task EXCEPT !.error = "IDENTIFIER_NOT_FOUND", !.todo = <<>>]
                 ELSE [task EXCEPT !.todo = Callees(r.things) \o Body(d) \o Tail(@)]
  BY DEF CompileStep
<1>8. r.things \in Seq(Things(heap)) /\ r.cache \in SoundCaches(heap)
  <2>1. ResolveUses(d, v.cache) \in [things : Seq(Things(heap)), cache : SoundCaches(heap)]
    BY <1>3, <1>5, <1>6, ResolveUsesIs
  <2> DEFINE P == Things(heap)
  <2> HIDE DEF P
  <2>2. <<>> \in Seq(P)
    OBVIOUS
  <2> HIDE DEF v
  <2> QED BY <1>6, <2>1, <2>2 DEF P
<1>9. Callees(r.things) \in Seq(G) /\ Body(d) \in Seq(G)
  BY <1>3, <1>5, <1>8, CalleesAre, BodyIs
<1> HIDE DEF v, d, r
<1>10. Quiet(heap, heap') /\ ToCompile(heap') = G
  <2>1. CASE heap[d].src.kind = "function"
    <3> DEFINE w == v.ports
    <3>1. heap' = Judged(heap, d, w) /\ (w = "valid" => Right(heap, d))
      BY <1>6, <1>7, <2>1 DEF Judged
    <3> HIDE DEF w
    <3>2. ASSUME NEW h2, h2 = Judged(heap, d, w)
          PROVE  Quiet(heap, h2) /\ ToCompile(h2) = ToCompile(heap)
      BY <1>3, <3>1, <3>2, PortsQuiet
    <3> QED BY <3>1, <3>2
  <2>2. CASE heap[d].src.kind # "function"
    BY <1>3, <1>7, <2>2, QuietSelf
  <2> QED BY <2>1, <2>2
<1>11. Look'
  BY <1>3, <1>7, <1>8, <1>10, QuietLook
<1>12. /\ task'.phase = "compile" /\ task'.api = task.api /\ task'.decl = task.decl /\ task'.expr = task.expr
       /\ task'.second = task.second /\ (task'.error # OK \/ task'.error = task.error)
       /\ task'.todo = <<>> \/ task'.todo = Callees(r.things) \o Body(d) \o left
  BY <1>1, <1>7 DEF CompileFields, OK
<1>13. TodoFit(heap', task')
  <2> HIDE DEF G, left
  <2>1. <<>> \in Seq(G) /\ Callees(r.things) \o Body(d) \o left \in Seq(G)
    BY <1>4, <1>9
  <2>2. task'.todo \in Seq(G)
    BY <1>12, <2>1
  <2> QED BY <1>10, <1>12, <2>2 DEF TodoFit
<1>14. DeclFit(heap', task', handles)
  <2>1. /\ DOMAIN heap'[Global].decls = DOMAIN heap[Global].decls
        /\ \A n \in DOMAIN heap[Global].decls : heap'[Global].decls[n] = heap[Global].decls[n]
    BY <1>10, GlobalKept
  <2> QED BY <1>1, <1>3, <1>12, <2>1, DeclFitKept
<1>15. FoldFit(heap', task')
  BY <1>12 DEF FoldFit
<1>16. TaskFit'
  BY <1>3, <1>13, <1>14, <1>15 DEF TaskFit
<1> QED BY <1>2, <1>11, <1>16, RestFits

LEMMA CompileEndLook ==
  ASSUME Inv, LookInv, EndCompile
  PROVE  LookInv'
<1>1. Compiles /\ task.phase = "compile" /\ DOMAIN task = CompileFields /\ task.todo = <<>> /\ task.api \in CompileApis
  BY KindIs DEF EndCompile, Compiles
<1>2. frames = <<>> /\ frames' = <<>>
  <2>1. frames = <<>>
    BY <1>1, NoFrames
  <2> QED BY <2>1 DEF EndCompile
<1>3. /\ Look /\ Good(heap) /\ Rooted(heap) /\ cache \in SoundCaches(heap) /\ handles' = handles /\ cache' = cache
      /\ TodoFit(heap, task) /\ DeclFit(heap, task, handles)
  BY <1>1 DEF LookInv, Look, TaskFit, EndCompile, Good, Fit
<1>4. CASE task.api \in {"simplify", "context_create"}
  <2>1. task' = Idle /\ heap' = heap
    BY <1>4 DEF EndCompile, ExpressionApis
  <2>2. Look'
    BY <1>3, <2>1, SameLook
  <2> QED BY <1>2, <2>1, <2>2, IdleFits
<1>5. CASE task.api \in {"compile_declaration"} \cup ExpressionApis
  <2>1. /\ heap' = Destroy(heap, task.ctx)
        /\ \/ task.api = "compile_declaration" /\ task' = Idle
           \/ /\ task.api \in ExpressionApis
              /\ \/ task.error = OK /\ task' = [task EXCEPT !.phase = "context", !.second = TRUE]
                 \/ task' = [task EXCEPT !.phase = "remove"]
    BY <1>5 DEF EndCompile, ExpressionApis
  <2>2. task.ctx \in Apart(heap) /\ task.ctx # Global
    <3>1. TaskScope = {task.ctx}
      BY <1>1 DEF TaskScope, Contexts
    <3> QED BY <3>1, RootsAre
  <2>3. Quiet(heap, heap')
    <3>1. ASSUME NEW h2, h2 = Destroy(heap, task.ctx) PROVE Quiet(heap, h2)
      BY <1>3, <2>2, <3>1, DestroyQuiet
    <3> QED BY <2>1, <3>1
  <2>4. Look'
    BY <1>3, <2>3, QuietLook
  <2>5. CASE task' = Idle
    BY <1>2, <2>4, <2>5, IdleFits
  <2>6. ASSUME task.api \in ExpressionApis,
               \/ task.error = OK /\ task' = [task EXCEPT !.phase = "context", !.second = TRUE]
               \/ task' = [task EXCEPT !.phase = "remove"]
        PROVE  LookInv'
    <3>1. /\ task'.phase \in {"context", "remove"} /\ task'.api = task.api /\ task'.decl = task.decl
          /\ task'.expr = task.expr /\ task'.todo = <<>> /\ (task'.second = task.second \/ task.error = OK)
      BY <1>1, <2>6 DEF CompileFields
    <3>2. /\ DOMAIN heap'[Global].decls = DOMAIN heap[Global].decls
          /\ \A n \in DOMAIN heap[Global].decls : heap'[Global].decls[n] = heap[Global].decls[n]
      BY <2>3, GlobalKept
    <3>3. \A d : ExpressionDeclared(heap, d) => ExpressionDeclared(heap', d)
      BY <3>2 DEF ExpressionDeclared
    <3>4. DeclFit(heap', task', handles)
      BY <1>1, <1>3, <2>6, <3>1, <3>3 DEF DeclFit, ExpressionApis
    <3>5. TodoFit(heap', task') /\ FoldFit(heap', task')
      BY <3>1 DEF TodoFit, FoldFit
    <3>6. TaskFit'
      BY <1>3, <3>4, <3>5 DEF TaskFit
    <3> QED BY <1>2, <2>4, <3>6, RestFits
  <2> QED BY <2>1, <2>5, <2>6
<1> QED BY <1>1, <1>4, <1>5 DEF CompileApis

LEMMA RemoveLook ==
  ASSUME Inv, LookInv, RemoveExpression
  PROVE  LookInv'
<1>1. Compiles /\ task.phase = "remove"
  BY KindIs DEF RemoveExpression
<1>2. frames' = <<>> /\ task' = Idle /\ handles' = handles
  <2>1. frames = <<>>
    BY <1>1, NoFrames
  <2> QED BY <2>1 DEF RemoveExpression
<1>3. Look /\ Good(heap) /\ cache \in SoundCaches(heap)
  BY DEF LookInv, Look
<1>4. CASE Temp \notin DOMAIN heap[Global].decls
  <2>1. heap' = heap /\ cache' = cache
    BY <1>4 DEF RemoveExpression, RemoveDeclaration, Declares
  <2>2. Look'
    BY <1>2, <1>3, <2>1, SameLook
  <2> QED BY <1>2, <2>2, IdleFits
<1>5. CASE Temp \in DOMAIN heap[Global].decls
  <2>1. heap' = Removed(heap, Global, Temp) /\ cache' = [cache EXCEPT !.marked = TRUE]
    BY <1>5 DEF RemoveExpression, RemoveDeclaration, Declares, Removed
  <2>2. Good(heap') /\ \A hs : Held(heap, hs) => Held(heap', hs)
    <3>1. ASSUME NEW h2, h2 = Removed(heap, Global, Temp)
          PROVE  Good(h2) /\ \A hs : Held(heap, hs) => Held(h2, hs)
      BY <1>3, <1>5, <3>1, TempRemoved
    <3> QED BY <2>1, <3>1
  <2>3. cache' \in Caches /\ cache'.marked = TRUE
    BY <1>3, <2>1, Marked
  <2>4. Look'
    BY <1>2, <1>3, <2>2, <2>3, KeptLook
  <2> QED BY <1>2, <2>4, IdleFits
<1> QED BY <1>4, <1>5

-----------------------------------------------------------------------------
(* Initially, and in every step.                                           *)

LEMMA InitLook == Init => LookInv
<1> SUFFICES ASSUME Init PROVE LookInv
  OBVIOUS
<1> DEFINE src == [kind |-> "scope", inner |-> <<>>, params |-> <<>>]
           none == ""
           c == Cell(none, Nowhere, src)
<1>1. Inv
  BY InitInv
<1>2. /\ c.live = TRUE /\ c.decls = NoDecls /\ c.src = src /\ c.ports # "valid" /\ c.parent = Nowhere
      /\ DOMAIN NoDecls = {}
  BY DEF Cell, NoDecls
<1>3. /\ heap = [a \in Addr |-> IF a = Global THEN c ELSE Free]
      /\ cache = [entries |-> {}, marked |-> FALSE] /\ handles = {} /\ task = Idle /\ frames = <<>>
  BY DEF Init
<1>4. Unwritten(src)
  BY ListIndexerIs
<1> HIDE DEF src, c
<1>5. heap[Global] = c /\ \A a \in Addr : a # Global => heap[a] = Free
  BY <1>3, AddrAssumption
<1>6. Live(heap) = {Global}
  BY <1>2, <1>5, FreeIs, AddrAssumption DEF Live
<1>7. Global # Nowhere /\ Forest(heap)
  BY <1>1, RootsAre
<1>8. Grounded(heap)
  BY <1>2, <1>5, <1>6, <1>7 DEF Grounded
<1>9. Rooted(heap)
  BY <1>1, <1>7, <1>8, RootsAre DEF Rooted
<1>10. Sourced(heap)
  <2>1. ~Declared(heap, Global)
    BY <1>2, <1>5, <1>6, <1>7 DEF Declared
  <2> QED BY <1>2, <1>4, <1>5, <1>6, <2>1 DEF Sourced
<1>11. Untemp(heap) /\ AllRight(heap)
  BY <1>2, <1>5, <1>6 DEF Untemp, AllRight
<1>12. cache \in SoundCaches(heap)
  BY <1>3 DEF SoundCaches, Sound, Agrees, Caches
<1>13. Held(heap, handles)
  BY <1>3 DEF Held
<1>14. Look
  BY <1>9, <1>10, <1>11, <1>12, <1>13 DEF Look, Good, Fit
<1>15. ~Compiles
  BY <1>3, IdleIs DEF Compiles, CompileFields
<1>16. FramesFit /\ MarkedFit
  <2>1. DOMAIN <<>> = {} /\ Len(<<>>) = 0
    OBVIOUS
  <2> QED BY <1>3, <2>1 DEF FramesFit, MarkedFit
<1> QED BY <1>14, <1>15, <1>16 DEF LookInv, TaskFit

LEMMA NextLook ==
  ASSUME Inv, Inv', LookInv, [Next]_vars
  PROVE  LookInv'
<1>1. CASE UNCHANGED vars
  <2>1. heap' = heap /\ cache' = cache /\ handles' = handles /\ task' = task /\ frames' = frames /\ hostContext' = hostContext
    BY <1>1 DEF vars
  <2>2. Look' /\ FramesFit' /\ MarkedFit'
    BY <2>1 DEF LookInv, Look, FramesFit, MarkedFit
  <2>3. Compiles' <=> Compiles
    BY <2>1 DEF Compiles
  <2>4. TaskFit'
    BY <2>1, <2>3 DEF LookInv, TaskFit
  <2> QED BY <2>2, <2>4 DEF LookInv
<1>2. CASE Rest
  BY <1>1, <1>2 DEF Rest
<1>3. CASE LoadString \/ LoadFiles \/ LoadPackage \/ LoadPackages \/ LoadPrelude
  BY <1>3, LoadStarts
<1>4. CASE \/ CompileDeclaration \/ ContextCreate \/ Simplify
           \/ ExpressionCall("compile_expression") \/ ExpressionCall("typeof_expression")
  BY <1>4, CompileStarts
<1>5. CASE \/ (\E b \in BOOLEAN : SetParseOnly(b)) \/ (\E p \in Paths : FindDeclaration(p)) \/ ContextDelete
  BY <1>5, AnswerLook
<1>6. CASE NextFile \/ EndGroup \/ EndLoad
  BY <1>6, LoadLook
<1>7. CASE BuildEnter \/ BuildLeave \/ BuildEnd
  BY <1>7, EnterLook, LeaveLook, EndLook
<1>8. CASE NewContext \/ LoadListFold \/ BuildExpression
  BY <1>8, NewContextLook, ListFoldLook, ExpressionLook
<1>9. CASE Boundary \/ CheckType \/ Ready \/ CompileStep \/ EndCompile \/ RemoveExpression
  BY <1>9, BoundaryLook, CheckTypeLook, ReadyLook, CompileStepLook, CompileEndLook, RemoveLook
<1> QED BY <1>1, <1>2, <1>3, <1>4, <1>5, <1>6, <1>7, <1>8, <1>9 DEF Next

LEMMA LookHolds == Spec => [](Inv /\ LookInv)
<1>1. Init => Inv /\ LookInv
  BY InitInv, InitLook
<1>2. Inv /\ LookInv /\ [Next]_vars => (Inv /\ LookInv)'
  BY NextInv, NextLook
<1> QED BY <1>1, <1>2, PTL DEF Spec

-----------------------------------------------------------------------------
(* What it comes to.                                                       *)

\* Between calls all that lives lies in the global scope
LEMMA AllSettled ==
  ASSUME Inv, LookInv, task = Idle
  PROVE  Live(heap) = Settled(heap)
<1>1. Rooted(heap) /\ Grounded(heap)
  BY DEF LookInv, Look, Good, Fit, Rooted
<1>2. /\ Settled(heap) \subseteq Live(heap) /\ Global \in Settled(heap)
      /\ \A a \in Live(heap) : heap[a].parent \in Settled(heap) => a \in Settled(heap)
  BY <1>1, SettledIs
<1>3. Building = {} /\ TaskScope = {}
  <2>1. frames = <<>>
    BY NoFrames
  <2> QED BY <2>1, IdleIs DEF Building, TaskScope, CompileFields
<1>4. Apart(heap) = {Global} \cup HostScope /\ \A s \in HostScope : heap[s].parent = Global
  BY <1>3, RootsAre
<1> DEFINE A == Live(heap) \ Settled(heap)
<1>5. ASSUME A # {} PROVE FALSE
  <2>1. PICK a \in A : heap[a].parent \notin A
    BY <1>1, <1>5 DEF Grounded
  <2>2. a \notin Apart(heap)
    BY <1>2, <1>4
  <2>3. heap[a].parent \in Live(heap)
    BY <2>2 DEF Apart, Declared
  <2> QED BY <1>2, <2>1, <2>3
<1> QED BY <1>2, <1>5

\* Between calls the cache agrees with the scopes, whatever was looked up, remembered, loaded, merged, compiled and
\* destroyed before: unless it is marked for clearing, what it holds for a scope that lives is what a lookup
\* there finds now (scope_caches::get, interpreter::cache_scope_find, mark_to_clear)
THEOREM TheCacheAgrees == Spec => []CacheAgrees
<1>1. Inv /\ LookInv => CacheAgrees
  <2> SUFFICES ASSUME Inv, LookInv, task = Idle, ~cache.marked, NEW e \in cache.entries, e[1] \in Live(heap)
               PROVE  e[3] = Named(heap, e[1], e[2])
    BY DEF CacheAgrees
  <2>1. Agrees(heap, cache, Settled(heap))
    BY DEF LookInv, Look, SoundCaches, Sound
  <2>2. e[1] \in Settled(heap)
    BY AllSettled
  <2> QED BY <2>1, <2>2 DEF Agrees
<1> QED BY <1>1, LookHolds, PTL

\* A declaration that the host was given is there for good, and is what its path names: no load, even one that fails
\* half way, no context and no expression takes it away or puts another before it
\* (element_interpreter_find, scope::merge, scope::remove_declaration)
THEOREM HandlesGoOnResolving == Spec => []HandlesResolve
<1>1. LookInv => HandlesResolve
  BY DEF LookInv, Look, Held, HandlesResolve
<1> QED BY <1>1, LookHolds, PTL

\* A verdict that the ports of a declaration are valid is right for as long as it is remembered: every type that they
\* name is found from there, and is a type (function_declaration::validate_ports, port::validate)
THEOREM VerdictsStaySound == Spec => []VerdictsSound
<1>1. LookInv => VerdictsSound
  <2> SUFFICES ASSUME LookInv, NEW d \in Live(heap), heap[d].ports = "valid", NEW k \in DOMAIN Annotations(heap[d].src)
               PROVE  LET t == Named(heap, d, Annotations(heap[d].src)[k]) IN t # Nowhere /\ IsType(t)
    BY DEF VerdictsSound
  <2> DEFINE t == Named(heap, d, Annotations(heap[d].src)[k])
  <2>1. AllRight(heap) /\ Rooted(heap)
    BY DEF LookInv, Look, Good, Fit
  <2>2. t \in Settled(heap) /\ heap[t].src.kind \in {"struct", "constraint"}
    BY <2>1 DEF AllRight, Right, TypesFound
  <2>3. t # Nowhere
    BY <2>1, <2>2, SettledIs
  <2> QED BY <2>2, <2>3 DEF IsType
<1> QED BY <1>1, LookHolds, PTL
=============================================================================
